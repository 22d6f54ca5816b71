------------------------------- MODULE Routing -------------------------------
(***************************************************************************)
(* What becomes of one result: its payload is merged with those of the     *)
(* dependencies, by the client that produced it and again by the server,   *)
(* every entry of its node's conditions is evaluated on it, in the order   *)
(* of a Go map, which is any, and the nodes that follow get their owners.  *)
(*                                                                         *)
(* A payload is what encoding/json makes of it, as a tree: each path from  *)
(* its root, a sequence of keys and indices, leads to a label, which is an *)
(* object, a list or a value with its type.  Whole numbers are Go integers *)
(* until they pass through JSON, and a payload that is a Go struct answers *)
(* until then to its field names, and to fields its JSON omits; these are  *)
(* kept beside it, as a tree again.  Lists and maps are those JSON makes:  *)
(* only == and != tell others from them.  Strings are whole: what matches  *)
(* a pattern is a constant.                                                *)
(***************************************************************************)
EXTENDS Integers, Sequences, FiniteSets

CONSTANTS
  Server,      \* the executor id of this server, wm.executorID
  Cases,       \* results, their nodes and what is known of their dependencies
  Matches,     \* pairs of a pattern and a string that match it
  BadPatterns, \* patterns that do not compile
  Base         \* the last part of each string with a slash

-----------------------------------------------------------------------------
(* Values.  A label has one field, its tag; all numbers in them are whole. *)

Leaf(label) == [p \in {<<>>} |-> label]
Null == Leaf([null |-> TRUE])
Bool(b) == Leaf([bool |-> b])
Whole(n) == Leaf([int |-> n])       \* a Go integer
Float(n) == Leaf([num |-> n])       \* a float64
Str(s) == Leaf([str |-> s])
Label == [null : {TRUE}] \cup [bool : BOOLEAN] \cup [int : Int] \cup [num : Int]
           \cup [str : STRING] \cup [list : {TRUE}] \cup [object : {TRUE}]

Key(k) == [key |-> k]
At(i) == [index |-> i]
Step == [key : STRING] \cup [index : Nat]
Trunk(p, k) == SubSeq(p, 1, k)

\* What the path leads to in a value, and whether that is an object, or has a type.
Is(tag, v) == tag \in DOMAIN v[<<>>]
ObjectAt(v, p) == "object" \in DOMAIN v[p]
IsObject(v) == ObjectAt(v, <<>>)

\* What lies below a path does so by its keys or by its indices.
IsValue(v) ==
  /\ v \in [DOMAIN v -> Label]
  /\ DOMAIN v \subseteq Seq(Step) /\ <<>> \in DOMAIN v
  /\ \A p \in DOMAIN v : \A k \in 0 .. Len(p) - 1 :
       /\ Trunk(p, k) \in DOMAIN v
       /\ v[Trunk(p, k)] = IF "key" \in DOMAIN p[k + 1]
                           THEN [object |-> TRUE] ELSE [list |-> TRUE]

ASSUME RoutingAssumption ==
  \A c \in Cases :
    /\ "none" \notin DOMAIN c.entries /\ IsFiniteSet(DOMAIN c.entries)
    /\ \A e \in DOMAIN c.entries : c.entries[e].nexts \in Seq(STRING)
    /\ Len(c.dependencies) \in Nat
    /\ IsValue(c.result)
    /\ \A i \in 1 .. Len(c.dependencies) : IsValue(c.upstream[c.dependencies[i]])

\* What is left of a value that went through JSON.
Rounded(label) == IF "int" \in DOMAIN label THEN [num |-> label.int] ELSE label
Normal(v) == [p \in DOMAIN v |-> Rounded(v[p])]

-----------------------------------------------------------------------------
(* Merging.                                                                *)

ShallowMerge(base, override) ==
  LET kept == {p \in DOMAIN base \ DOMAIN override : Trunk(p, 1) \notin DOMAIN override}
  IN [p \in DOMAIN override \cup kept |-> IF p \in DOMAIN override THEN override[p] ELSE base[p]]

\* deepMergeMaps: of the base remains what the override does not have, as far down
\* as both have objects.
DeepMerge(base, override) ==
  LET kept == {p \in DOMAIN base \ DOMAIN override :
                 \A k \in 0 .. Len(p) - 1 :
                   Trunk(p, k) \in DOMAIN override =>
                     ObjectAt(base, Trunk(p, k)) /\ ObjectAt(override, Trunk(p, k))}
  IN [p \in DOMAIN override \cup kept |-> IF p \in DOMAIN override THEN override[p] ELSE base[p]]

MergePayloads(input, own) ==
  IF input = Null THEN own
  ELSE IF own = Null THEN input
  ELSE IF ~IsObject(input) \/ ~IsObject(own) THEN own
  ELSE DeepMerge(Normal(input), Normal(own))

\* A struct that is merged with something becomes a map, which has no fields besides.
NoFields == <<>>
MergeFields(input, own, above, besides) ==
  IF own = Null /\ input # Null THEN above
  ELSE IF IsObject(input) /\ IsObject(own) THEN NoFields
  ELSE besides

-----------------------------------------------------------------------------
(* Conditions.                                                             *)

\* An operand is a value as it stands, or a reference.
Literal(v) == [literal |-> v]
Ref(root, path) == [root |-> root, path |-> path]
Nil == Literal(Null)

\* lookupPath, which fails where there is nothing; $input is never available.  A
\* struct is asked for its own fields by lookupField.
Bad == <<>>
Sub(v, path) ==
  LET under == {p \in DOMAIN v : Len(p) >= Len(path) /\ Trunk(p, Len(path)) = path}
  IN [q \in {SubSeq(p, Len(path) + 1, Len(p)) : p \in under} |-> v[path \o q]]
Lookup(v, besides, path) ==
  IF path \in DOMAIN v THEN Sub(v, path)
  ELSE IF path \in DOMAIN besides THEN Sub(besides, path)
  ELSE Bad

ResolveOperand(x, args, own, besides) ==
  IF "literal" \in DOMAIN x THEN x.literal
  ELSE IF x.root = "$result" THEN Lookup(own, besides, x.path)
  ELSE IF x.root = "$args" THEN Lookup(args, NoFields, x.path)
  ELSE Bad

Yes(b) == IF b THEN "yes" ELSE "no"

IsFloat(v) == Is("num", v)
IsNumber(v) == Is("int", v) \/ Is("num", v)
ToFloat(v) == IF Is("int", v) THEN v[<<>>].int ELSE v[<<>>].num
Text(v) == v[<<>>].str
Ordered(op, x, y) ==
  CASE op = ">" -> x > y [] op = ">=" -> x >= y [] op = "<" -> x < y [] op = "<=" -> x <= y

\* compareValues, matchRegex and matchGlob; the last tries the base name, too.
CompareValues(l, op, r) ==
  IF IsNumber(l) /\ IsNumber(r) THEN Yes(Ordered(op, ToFloat(l), ToFloat(r))) ELSE "error"
MatchRegex(l, r) ==
  IF ~Is("str", l) \/ ~Is("str", r) THEN "error"
  ELSE IF Text(r) \in BadPatterns THEN "error"
  ELSE Yes(<<Text(r), Text(l)>> \in Matches)
MatchGlob(l, r) ==
  IF MatchRegex(l, r) # "no" THEN MatchRegex(l, r)
  ELSE Yes(Text(l) \in DOMAIN Base /\ <<Text(r), Base[Text(l)]>> \in Matches)

\* evaluate, on resolved operands.
Compare(l, op, r) ==
  CASE op = "==" -> Yes(l = r)
    [] op = "!=" -> Yes(l # r)
    [] op \in {">", ">=", "<", "<="} -> CompareValues(l, op, r)
    [] op = "=~" -> MatchRegex(l, r)
    [] op = "glob" -> MatchGlob(l, r)
    [] OTHER -> "error"

IsEmpty(c) == c.left = Nil /\ c.op = "" /\ c.right = Nil
Evaluate(c, args, own, besides) ==
  LET left == ResolveOperand(c.left, args, own, besides)
      right == ResolveOperand(c.right, args, own, besides)
  IN IF IsEmpty(c) THEN "yes"
     ELSE IF left = Bad THEN "error"
     ELSE IF c.op = "" /\ c.right = Nil
          THEN IF Is("bool", left) THEN Yes(left[<<>>].bool) ELSE "error"
     ELSE IF right = Bad THEN "error"
     ELSE Compare(left, c.op, right)

-----------------------------------------------------------------------------
(* Owners.                                                                 *)

IsTargeted(t) == t.client # "" \/ t.tags # {}

FieldByField(c, n) ==
  [client |-> IF c.nodes[n].client # "" THEN c.nodes[n].client ELSE c.default.client,
   tags |-> IF c.nodes[n].tags # {} THEN c.nodes[n].tags ELSE c.default.tags]

\* The node's own targeting goes before the workflow's, as a whole.
EffectiveTarget(c, n) == IF IsTargeted(c.nodes[n]) THEN c.nodes[n] ELSE c.default

AssignedTo(t, client, tags) ==
  ~IsTargeted(t) \/ t.client = client \/ t.tags \cap tags # {}

-----------------------------------------------------------------------------
VARIABLES
  case,           \* the result and its node, fixed
  stage,          \* what is done next
  merged,         \* how many dependencies the client, or the server, is through with
  payload,        \* of the result
  fields,         \* what it answers to besides, while it is a Go struct
  posted,         \* the payload as the client posted it, or Bad
  results,        \* what each evaluated entry came to
  nexts,          \* nodes that follow, as entries were evaluated
  conditionError, \* the entry that failed first, or none
  owned, served,  \* places in nexts that go to the client, to this server
  routed          \* nodes with a pending row

decision == <<results, nexts, conditionError>>
owners == <<owned, served, routed>>
routingVars == <<case, stage, merged, payload, fields, posted, decision, owners>>

IsLocal(c) == c.executor \in {"", Server}
Entries == DOMAIN case.entries

RoutingInit ==
  /\ case \in Cases
  /\ stage = IF IsLocal(case) THEN "merging" ELSE "posting"
  /\ merged = 0 /\ payload = case.result /\ fields = case.fields /\ posted = Bad
  /\ results = [e \in {} |-> FALSE] /\ nexts = <<>> /\ conditionError = "none"
  /\ owned = {} /\ served = {} /\ routed = {}

\* applyMergeInput, and mergedPayloadLocked of the client: what is known of one
\* dependency after the other goes under the payload.
MergeNext ==
  /\ stage \in {"posting", "merging"} /\ merged < Len(case.dependencies)
  /\ LET dep == case.dependencies[merged + 1]
         known == IF stage = "posting" THEN case.there ELSE case.here
     IN IF case.mergeInput /\ dep \in known
        THEN /\ payload' = MergePayloads(case.upstream[dep], payload)
             /\ fields' = MergeFields(case.upstream[dep], payload, case.upfields[dep], fields)
        ELSE UNCHANGED <<payload, fields>>
  /\ merged' = merged + 1
  /\ UNCHANGED <<case, stage, posted, decision, owners>>

\* runResult: the client posts the merged result as JSON.
PostResult ==
  /\ stage = "posting" /\ merged = Len(case.dependencies)
  /\ payload' = Normal(payload) /\ fields' = NoFields /\ posted' = Normal(payload)
  /\ merged' = 0
  /\ stage' = "merging"
  /\ UNCHANGED <<case, decision, owners>>

\* IngestResult, or the event loop, stores the result as the server merged it.
Ingest ==
  /\ stage = "merging" /\ merged = Len(case.dependencies)
  /\ stage' = "routing"
  /\ UNCHANGED <<case, merged, payload, fields, posted, decision, owners>>

\* EvaluateRouting goes on after an entry that fails.
Left == Entries \ DOMAIN results

EvaluateEntry(e) ==
  /\ stage = "routing"
  /\ e \in Left
  /\ LET verdict == Evaluate(case.entries[e].condition, case.args, payload, fields)
     IN /\ results' = [f \in DOMAIN results \cup {e} |->
                         IF f = e THEN verdict = "yes" ELSE results[f]]
        /\ nexts' = IF verdict = "yes" THEN nexts \o case.entries[e].nexts ELSE nexts
        /\ conditionError' = IF verdict = "error" /\ conditionError = "none" THEN e
                             ELSE conditionError
  /\ UNCHANGED <<case, stage, merged, payload, fields, posted, owners>>

\* dispatchNexts, for the executor of the result.  The tags are those of its row,
\* or none.  A node named twice is run twice, while a second row is not made.
IsOwned(n) ==
  n \in DOMAIN case.nodes /\ AssignedTo(EffectiveTarget(case, n), case.executor, case.tags)

Dispatch ==
  /\ stage = "routing" /\ Left = {}
  /\ IF IsLocal(case)
     THEN served' = DOMAIN nexts /\ UNCHANGED <<owned, routed>>
     ELSE /\ owned' = {i \in DOMAIN nexts : IsOwned(nexts[i])}
          /\ routed' = {nexts[i] : i \in {i \in DOMAIN nexts : ~IsOwned(nexts[i])}}
          /\ UNCHANGED served
  /\ stage' = "done"
  /\ UNCHANGED <<case, merged, payload, fields, posted, decision>>

RoutingNext ==
  \/ MergeNext \/ PostResult \/ Ingest \/ Dispatch
  \/ \E e \in Entries : EvaluateEntry(e)

RoutingSpec == RoutingInit /\ [][RoutingNext]_routingVars

-----------------------------------------------------------------------------
(* What the rules come to.                                                 *)

\* Values laid over each other, number 0 on top; one that is null is not there.  What
\* a path leads to is in the first value that has the path.  It can be seen unless it
\* lies under something of an earlier one where not both have objects.
Has(layers, p) == {i \in DOMAIN layers : layers[i] # Null /\ p \in DOMAIN layers[i]}
First(layers, p) == CHOOSE i \in Has(layers, p) : \A j \in Has(layers, p) : i <= j

Seen(layers, p) ==
  LET own == First(layers, p)
  IN \A k \in 0 .. Len(p) - 1 :
       LET above == First(layers, Trunk(p, k))
       IN above # own => ObjectAt(layers[above], Trunk(p, k)) /\ ObjectAt(layers[own], Trunk(p, k))

Paths(layers) == UNION {DOMAIN layers[i] : i \in {i \in DOMAIN layers : layers[i] # Null}}
Overlay(layers) ==
  IF Paths(layers) = {} THEN Null
  ELSE [p \in {p \in Paths(layers) : Seen(layers, p)} |-> layers[First(layers, p)][p]]

\* The result, below it what the client knew of the dependencies, in their order, and
\* below that what the server knew.
Known(c, i, deps) == IF c.mergeInput /\ c.dependencies[i] \in deps
                     THEN c.upstream[c.dependencies[i]] ELSE Null
Layers(c, m) ==
  LET n == Len(c.dependencies)
  IN [i \in 0 .. m |-> IF i = 0 THEN c.result
                       ELSE IF i > n THEN Known(c, i - n, c.here)
                       ELSE IF IsLocal(c) THEN Null
                       ELSE Known(c, i, c.there)]

\* Merging in two places and one dependency after the other comes to one overlay:
\* nothing is lost at any depth, and the server changes nothing where the client knew
\* the same.
MergeIsLayered ==
  stage \in {"routing", "done"} =>
    /\ Normal(payload) = Normal(Overlay(Layers(case, 2 * Len(case.dependencies))))
    /\ ~IsLocal(case) /\ case.here \subseteq case.there => payload = posted

\* What an entry comes to.
Routes(e) == Evaluate(case.entries[e].condition, case.args, payload, fields)

\* An operand that refers to what only the Go struct of a local result has: a field by
\* its Go name, or one that its JSON omits.
OnlyLocal(x) ==
  "literal" \notin DOMAIN x /\ x.root = "$result" /\ x.path \in DOMAIN fields \ DOMAIN payload

\* An entry is answered the same for a result of this server and for the same result
\* posted by a client, unless it compares with == or !=, which tell Go types apart, or
\* refers to what only the Go struct has.  In that case the posted one fails, so that no
\* entry is silently taken as not matching.
SameWhereverItRan ==
  stage = "routing" =>
    \A e \in Entries :
      LET c == case.entries[e].condition
          there == Evaluate(c, case.args, Normal(payload), NoFields)
      IN IF OnlyLocal(c.left) \/ OnlyLocal(c.right) THEN there = "error"
         ELSE c.op \notin {"==", "!="} => Routes(e) = there

\* The executors a node is meant for: its client and those that carry one of its
\* tags; failing both, those of the workflow, and failing these, all.
MeantFor(n, client, tags) ==
  LET meant(t) == t.client = client \/ t.tags \cap tags # {}
  IN \/ IsTargeted(case.nodes[n]) /\ meant(case.nodes[n])
     \/ ~IsTargeted(case.nodes[n]) /\ (IsTargeted(case.default) => meant(case.default))

Count(n, places) == Cardinality({i \in places : nexts[i] = n})

\* How often the entries that match name a node.
Namings(n, entries) ==
  UNION {{e} \X {i \in DOMAIN case.entries[e].nexts : case.entries[e].nexts[i] = n} :
           e \in entries}
Named(n) == Cardinality(Namings(n, {e \in Entries : Routes(e) = "yes"}))

\* Where a node goes: to the client that reported, to this server or to a row.
Ways(n) == {way \in {"client", "server", "row"} :
              CASE way = "client" -> Count(n, owned) # 0
                [] way = "server" -> Count(n, served) # 0
                [] way = "row" -> n \in routed}

\* Every entry is answered for itself, whatever the order and whichever of them fail.
\* A node that a matching entry names goes one way, and once if it is named once: to
\* the client that reported if it is meant for it, to a pending row if not, also when
\* it is no longer there, and to this server only if that produced the result.  The
\* order decides at most which error is recorded.
EveryNextGoesOneWay ==
  stage = "done" =>
    /\ DOMAIN results = Entries
    /\ LET failing == {e \in Entries : Routes(e) = "error"}
       IN IF failing = {} THEN conditionError = "none" ELSE conditionError \in failing
    /\ \A n \in UNION {{case.entries[e].nexts[i] : i \in DOMAIN case.entries[e].nexts} :
                    e \in Entries} :
         LET here == n \in DOMAIN case.nodes /\ MeantFor(n, case.executor, case.tags)
         IN /\ Ways(n) = IF Named(n) = 0 THEN {}
                         ELSE IF IsLocal(case) THEN {"server"}
                         ELSE IF here THEN {"client"} ELSE {"row"}
            /\ Named(n) = 1 => Count(n, owned \cup served) <= 1

-----------------------------------------------------------------------------
(* The inductive invariant.  While dependencies are merged the payload is  *)
(* the overlay of those that had their turn; while entries are evaluated   *)
(* the decision is that of the evaluated ones.                             *)

RoutingTypeOK ==
  /\ case \in Cases /\ stage \in {"posting", "merging", "routing", "done"}
  /\ merged \in 0 .. Len(case.dependencies)
  /\ payload \in [DOMAIN payload -> Label]
  /\ DOMAIN results \subseteq Entries /\ nexts \in Seq(STRING)

MergedSoFar ==
  LET n == Len(case.dependencies)
  IN /\ IsLocal(case) => stage # "posting"
     /\ stage \in {"routing", "done"} => merged = n
     /\ Normal(payload) =
          Normal(Overlay(Layers(case, IF stage = "posting" THEN merged ELSE n + merged)))
     /\ ~IsLocal(case) /\ stage # "posting" =>
          /\ posted = Normal(posted) /\ posted = Normal(Overlay(Layers(case, n)))
          /\ case.here \subseteq case.there => payload = posted

DecidedSoFar ==
  /\ stage \in {"posting", "merging"} => DOMAIN results = {}
  /\ \A e \in DOMAIN results : results[e] = (Routes(e) = "yes")
  /\ LET failing == {e \in DOMAIN results : Routes(e) = "error"}
     IN IF failing = {} THEN conditionError = "none" ELSE conditionError \in failing
  /\ \A n \in STRING :
       LET named == Namings(n, {e \in DOMAIN results : results[e]})
       IN IsFiniteSet(named) /\ Count(n, DOMAIN nexts) = Cardinality(named)

SharedOut ==
  IF stage # "done" THEN owned = {} /\ served = {} /\ routed = {}
  ELSE /\ DOMAIN results = Entries
       /\ owned = IF IsLocal(case) THEN {} ELSE {i \in DOMAIN nexts : IsOwned(nexts[i])}
       /\ served = IF IsLocal(case) THEN DOMAIN nexts ELSE {}
       /\ routed = IF IsLocal(case) THEN {}
                   ELSE {nexts[i] : i \in {i \in DOMAIN nexts : ~IsOwned(nexts[i])}}

RoutingInv == RoutingTypeOK /\ MergedSoFar /\ DecidedSoFar /\ SharedOut
=============================================================================
