------------------------------- MODULE Engine -------------------------------
(***************************************************************************)
(* The server as an executor: AddWorkflow registers the nodes of an        *)
(* enabled workflow and starts its triggers, triggers and actions report   *)
(* to their managers, the event loop takes one result at a time, merges,   *)
(* records and routes it and starts the nodes that follow, each as a       *)
(* goroutine.  Webhooks enter beside the loop, through IngestResult.       *)
(*                                                                         *)
(* A run is named by the way that led to it: the entries and nodes taken   *)
(* since the trigger.  A payload maps its keys to the attempts that wrote  *)
(* them: every node writes a key of its own, and "type" as all nodes do.   *)
(***************************************************************************)
EXTENDS Integers, Sequences, FiniteSets

CONSTANTS
  Nodes,        \* node ids
  Triggers,     \* those with action_type trigger
  Webhooks,     \* the triggers that are fired by a request
  Broken,       \* nodes that cannot be built: bad policy, unknown action
  Entries,      \* ids of condition entries, over all nodes
  Definitions,  \* workflows that may be in the database
  Switches,     \* values of -e, enableActions, a server may be started with
  Execs,        \* execution ids that may be minted (bound)
  MaxRestarts   \* bound: restarts of the server

None == "none"
NoExec == ""

Definition == [at : [Entries -> Nodes], nexts : [Entries -> SUBSET Nodes],
               dependencies : [Nodes -> Seq(Nodes)], mergeInput : SUBSET Nodes,
               retryMax : [Nodes -> Nat]]

Follows(d, en, n) == n \in d.nexts[en]

ASSUME EngineAssumption ==
  /\ Triggers \subseteq Nodes /\ Webhooks \subseteq Triggers /\ Broken \subseteq Nodes
  /\ Definitions \subseteq Definition
  /\ Switches \subseteq BOOLEAN
  /\ None \notin Nodes /\ NoExec \notin Execs
  /\ "type" \notin Nodes
  /\ MaxRestarts \in Nat

Managers == {"triggers", "actions"}

Step == [entry : Entries, node : Nodes]
Result == [exec : Execs \cup {NoExec}, path : Seq(Step), node : Nodes,
           attempt : Nat, retrying : BOOLEAN]
Attempt == [exec : Execs \cup {NoExec}, path : Seq(Step), node : Nodes, attempt : Nat]

VARIABLES
  definition,    \* the workflow that was loaded; fixed
  enableActions, \* -e; fixed
  todo,          \* nodes AddWorkflow has not come to
  loading,       \* the node it has registered but not indexed, or None
  registered,    \* nodes in the maps of their manager
  indexed,       \* nodes in Actions2Workflow
  live,          \* attempts under way
  wire,          \* results whose goroutine waits for the manager
  held,          \* the result a manager holds for the engine, if any
  execHistory,   \* payloads by execution and node
  minted,        \* execution ids given out
  restarts,
  \* history
  log,           \* results handled, with payload and the entries that matched
  skipped        \* nexts that were not started

fixed == <<definition, enableActions>>
load == <<todo, loading, registered, indexed>>
vars == <<fixed, load, live, wire, held, execHistory, minted, restarts, log, skipped>>

Nothing == [n \in {} |-> {}]

Init ==
  /\ definition \in Definitions /\ enableActions \in Switches
  /\ todo = Nodes /\ loading = None /\ registered = {} /\ indexed = {}
  /\ live = {} /\ wire = {}
  /\ held = [m \in Managers |-> {}]
  /\ execHistory = [x \in Execs |-> Nothing]
  /\ minted = {} /\ restarts = 0 /\ log = {} /\ skipped = {}

-----------------------------------------------------------------------------
(* AddWorkflow: first the actions, then the triggers, which start at once. *)

\* Actions are registered only with -e, triggers always.
Builds(n) == n \notin Broken /\ (n \in Triggers \/ enableActions)

ItsTurn(n) == n \in Triggers => todo \subseteq Triggers

LoadNode(n) ==
  /\ loading = None
  /\ n \in todo /\ ItsTurn(n)
  /\ todo' = todo \ {n}
  /\ IF Builds(n)
     THEN registered' = registered \cup {n} /\ loading' = n
     ELSE UNCHANGED <<registered, loading>>
  /\ UNCHANGED <<fixed, indexed, live, wire, held, execHistory, minted, restarts, log,
                 skipped>>

IndexAction ==
  /\ loading # None
  /\ indexed' = indexed \cup ({loading} \ Triggers)
  /\ loading' = None
  /\ UNCHANGED <<fixed, todo, registered, live, wire, held, execHistory, minted,
                 restarts, log, skipped>>

IndexNode ==
  /\ loading # None
  /\ indexed' = indexed \cup {loading}
  /\ loading' = None
  /\ UNCHANGED <<fixed, todo, registered, live, wire, held, execHistory, minted,
                 restarts, log, skipped>>

-----------------------------------------------------------------------------
(* Triggers and actions.                                                   *)

Delivered == wire \cup UNION {held[m] : m \in Managers}

Unused == Execs \ minted

\* Bound: an id is left for the firings under way and one more.
Spare == Cardinality({r \in wire : r.node \in Triggers}) + Cardinality(held["triggers"])
           < Cardinality(Unused)

Fired(t) == [exec |-> NoExec, path |-> <<>>, node |-> t, attempt |-> 1,
             retrying |-> FALSE]

\* A trigger goroutine reports; it waits until its manager takes the result.
Fire(t) ==
  /\ t \in registered \ Webhooks
  /\ Fired(t) \notin wire
  /\ Spare
  /\ wire' = wire \cup {Fired(t)}
  /\ UNCHANGED <<fixed, load, live, held, execHistory, minted, restarts, log, skipped>>

Reported(a, retrying) ==
  [exec |-> a.exec, path |-> a.path, node |-> a.node, attempt |-> a.attempt,
   retrying |-> retrying]

\* The attempt ends, or its deadline does.  While attempts are left a failure
\* is reported as retrying.
Report(a, retrying) ==
  /\ a \in live
  /\ retrying => a.attempt <= definition.retryMax[a.node]
  /\ live' = live \ {a}
  /\ wire' = wire \cup {Reported(a, retrying)}
  /\ UNCHANGED <<fixed, load, held, execHistory, minted, restarts, log, skipped>>

ManagerOf(n) == IF n \in Triggers THEN "triggers" ELSE "actions"

Again(r) == [exec |-> r.exec, path |-> r.path, node |-> r.node, attempt |-> r.attempt + 1]

\* The manager takes a result; the retry decorator goes on with the next attempt.
Forward(r) ==
  /\ r \in wire
  /\ held[ManagerOf(r.node)] = {}
  /\ held' = [held EXCEPT ![ManagerOf(r.node)] = {r}]
  /\ wire' = wire \ {r}
  /\ live' = IF r.retrying THEN live \cup {Again(r)} ELSE live
  /\ UNCHANGED <<fixed, load, execHistory, minted, restarts, log, skipped>>

-----------------------------------------------------------------------------
(* What is done with a result.                                             *)

Writer(r) == [exec |-> r.exec, path |-> r.path, node |-> r.node, attempt |-> r.attempt]

Own(r) == [k \in {r.node, "type"} |-> Writer(r)]

\* MergePayloads, of objects.
Overlay(base, over) ==
  [k \in DOMAIN base \cup DOMAIN over |-> IF k \in DOMAIN over THEN over[k] ELSE base[k]]

\* The dependencies of n whose recorded payload has key k, by position.
Offers(n, history, k) ==
  {i \in DOMAIN definition.dependencies[n] :
     LET d == definition.dependencies[n][i]
     IN d \in DOMAIN history /\ k \in DOMAIN history[d]}

\* All dependencies overlaid in order, which the first that has a key wins.
Upstream(n, history) ==
  [k \in {k \in Nodes \cup {"type"} : Offers(n, history, k) # {}} |->
     LET i == CHOOSE i \in Offers(n, history, k) : \A j \in Offers(n, history, k) : i <= j
     IN history[definition.dependencies[n][i]][k]]

\* merge_input; the result wins.
Payload(r, known) ==
  IF known /\ r.node \in definition.mergeInput /\ r.exec # NoExec
  THEN Overlay(Upstream(r.node, execHistory[r.exec]), Own(r))
  ELSE Own(r)

RememberReported(r, payload) ==
  execHistory' =
    IF r.exec = NoExec THEN execHistory
    ELSE [execHistory EXCEPT ![r.exec] =
            [n \in DOMAIN execHistory[r.exec] \cup {r.node} |->
               IF n = r.node THEN Own(r) ELSE execHistory[r.exec][n]]]

\* rememberResult.
Remember(r, payload) ==
  execHistory' =
    IF r.exec = NoExec THEN execHistory
    ELSE [execHistory EXCEPT ![r.exec] =
            [n \in DOMAIN execHistory[r.exec] \cup {r.node} |->
               IF n = r.node THEN payload ELSE execHistory[r.exec][n]]]

MatchAlways(r) == {en \in Entries : definition.at[en] = r.node}

\* A retrying result is not routed.
MayMatch(r) == IF r.retrying THEN {} ELSE {en \in Entries : definition.at[en] = r.node}

Next1(r, en, n) == [exec |-> r.exec, path |-> Append(r.path, [entry |-> en, node |-> n]),
                    node |-> n, attempt |-> 1]

Nexts(r, matched) ==
  {Next1(r, p.entry, p.node) : p \in {q \in [entry : matched, node : Nodes] :
                                        Follows(definition, q.entry, q.node)}}

\* ExecuteAction knows the actions that were registered.
Startable(a) == enableActions /\ a.node \in registered \ Triggers

\* One result: merged, saved, remembered, its matching entries' nexts started.
Handle(r, known, matched) ==
  /\ log' = log \cup {[exec |-> r.exec, path |-> r.path, node |-> r.node,
                       attempt |-> r.attempt, retrying |-> r.retrying,
                       known |-> known, payload |-> Payload(r, known),
                       matched |-> matched]}
  /\ Remember(r, Payload(r, known))
  /\ LET nexts == Nexts(r, matched)
     IN /\ live' = live \cup {a \in nexts : Startable(a)}
        /\ skipped' = skipped \cup {a \in nexts : ~Startable(a)}

Given(r, x) == [r EXCEPT !.exec = x]

\* The loop.  A node that is not indexed has no definition: no id is minted,
\* nothing is merged or routed.
TakeUnknown(m) ==
  \E r \in held[m] :
    /\ r.node \notin indexed
    /\ Handle(r, FALSE, {})
    /\ held' = [held EXCEPT ![m] = {}]
    /\ UNCHANGED <<fixed, load, wire, minted, restarts>>

TakeFiring ==
  \E f \in held["triggers"], x \in Unused :
    LET r == Given(f, x)
    IN /\ f.node \in indexed
       /\ \E matched \in SUBSET MayMatch(r) : Handle(r, TRUE, matched)
       /\ minted' = minted \cup {x}
       /\ held' = [held EXCEPT !["triggers"] = {}]
       /\ UNCHANGED <<fixed, load, wire, restarts>>

TakeReportIdle ==
  \E r \in held["actions"] :
    /\ r.node \in indexed /\ live = {}
    /\ \E matched \in SUBSET MayMatch(r) : Handle(r, TRUE, matched)
    /\ held' = [held EXCEPT !["actions"] = {}]
    /\ UNCHANGED <<fixed, load, wire, minted, restarts>>

TakeReport ==
  \E r \in held["actions"] :
    /\ r.node \in indexed
    /\ \E matched \in SUBSET MayMatch(r) : Handle(r, TRUE, matched)
    /\ held' = [held EXCEPT !["actions"] = {}]
    /\ UNCHANGED <<fixed, load, wire, minted, restarts>>

\* webhookHandler and IngestResult, which find the node in the database too:
\* a request may come before AddWorkflow has registered anything.  The
\* execution is new, so nothing of it is under way.
Post(h) ==
  /\ h \in Webhooks \ Broken
  /\ Spare
  /\ \E x \in Unused :
       LET r == Given(Fired(h), x)
       IN \E matched \in SUBSET MayMatch(r) : Handle(r, TRUE, matched) /\ minted' = minted \cup {x}
  /\ UNCHANGED <<fixed, load, wire, held, restarts>>

-----------------------------------------------------------------------------

\* The process ends and is started again: what is on disk is kept.
Restart ==
  /\ restarts < MaxRestarts
  /\ restarts' = restarts + 1
  /\ todo' = Nodes /\ loading' = None /\ registered' = {} /\ indexed' = {}
  /\ live' = {} /\ wire' = {}
  /\ held' = [m \in Managers |-> {}]
  /\ execHistory' = [x \in Execs |-> Nothing]
  /\ UNCHANGED <<fixed, minted, log, skipped>>

AddWorkflow == (\E n \in Nodes : LoadNode(n)) \/ IndexNode
Pass == \E r \in wire : Forward(r)
Take == (\E m \in Managers : TakeUnknown(m)) \/ TakeFiring \/ TakeReport

Next ==
  \/ AddWorkflow
  \/ \E t \in Triggers : Fire(t)
  \/ \E a \in live : \E retrying \in BOOLEAN : Report(a, retrying)
  \/ Pass
  \/ Take
  \/ \E h \in Webhooks : Post(h)
  \/ Restart

Spec == Init /\ [][Next]_vars

\* The loop and the managers do not stop; what is started in Execs executions
\* is finite, so the order in which a channel serves senders does not matter.
\* An action need not ever report.
Fairness == WF_vars(AddWorkflow) /\ WF_vars(Pass) /\ WF_vars(Take)

FairSpec == Spec /\ Fairness

-----------------------------------------------------------------------------
(* Properties.                                                             *)

Keys == Nodes \cup {"type"}
IsPayload(p) == /\ DOMAIN p \subseteq Keys
                /\ p = [k \in DOMAIN p |-> p[k]]
                /\ \A k \in DOMAIN p : p[k] \in Attempt

\* Every variable has its type.
TypeOK ==
  /\ definition \in Definitions /\ enableActions \in Switches
  /\ todo \subseteq Nodes /\ loading \in Nodes \cup {None}
  /\ registered \subseteq Nodes /\ indexed \subseteq registered
  /\ live \subseteq Attempt /\ wire \subseteq Result
  /\ held \in [Managers -> SUBSET Result]
  /\ DOMAIN execHistory = Execs
  /\ \A x \in Execs : /\ DOMAIN execHistory[x] \subseteq Nodes
                      /\ \A n \in DOMAIN execHistory[x] : IsPayload(execHistory[x][n])
  /\ minted \subseteq Execs
  /\ restarts \in Nat
  /\ \A s \in log : /\ Reported(s, s.retrying) \in Result
                    /\ IsPayload(s.payload) /\ s.matched \subseteq Entries
                    /\ s.known \in BOOLEAN
  /\ skipped \subseteq Attempt

SameRun(a, b) == a.exec = b.exec /\ a.path = b.path /\ a.node = b.node

Final(s) == ~s.retrying

\* s is the verdict that started the run a.
Starts(s, a) ==
  \E en \in s.matched :
    /\ definition.at[en] = s.node /\ Follows(definition, en, a.node)
    /\ a.path = Append(s.path, [entry |-> en, node |-> a.node])
    /\ a.exec = s.exec

InFlight == live \cup Delivered

\* Nothing runs without a verdict, recorded before, that one of whose matching
\* entries leads there: no node follows a retrying failure, an entry that did
\* not match or a result of another execution (the loop of Run).
RunHasCause ==
  \A a \in InFlight \cup log \cup skipped :
    a.path # <<>> => \E s \in log : Final(s) /\ Starts(s, a)

\* r is a failed attempt of the run and a comes after it.
Precedes(r, a) == r.retrying /\ r.attempt < a.attempt

\* A run has one verdict, and all its failures come before it: no attempt is
\* under way, waiting or recorded after it, so no next is started twice.
OneVerdict ==
  /\ \A s, z \in log : Final(s) /\ SameRun(s, z) /\ s.exec # NoExec /\ s # z => Precedes(z, s)
  /\ \A s \in log, a \in InFlight : SameRun(s, a) /\ a.exec # NoExec => Precedes(s, a)

\* A run starts for one reason and ends in one way.
RunsAreSound == RunHasCause /\ OneVerdict

\* What has been merged into a payload was written within one execution: two
\* firings never see one another's data.
OneExecution ==
  \A s \in log : \A k \in DOMAIN s.payload : s.payload[k].exec = s.exec

\* A node's own fields are never replaced by what is merged from upstream:
\* routing decides on the type the node itself reported.
OwnWins ==
  \A s \in log : \A k \in {s.node, "type"} :
    k \in DOMAIN s.payload /\ s.payload[k] = Writer(s)

\* So merging changes what a node reports only by adding to it.
MergeIsClean == OneExecution /\ OwnWins

\* No two edges lead to one node.
Tree(d) == \A e, f \in Entries : \A n \in Nodes : Follows(d, e, n) /\ Follows(d, f, n) => e = f

\* As the designer draws them: the dependencies of a node are where its incoming
\* edges start.
Drawn(d) == \A n \in Nodes : \A i \in DOMAIN d.dependencies[n] :
  \E en \in Entries : Follows(d, en, n) /\ d.at[en] = d.dependencies[n][i]

Merges(d, s) == /\ s.node \in d.mergeInput
                /\ d.dependencies[s.node] # <<>>

\* In a tree merge_input adds the payload of the verdict that started the run,
\* whole and nothing else, whatever other executions, retries and restarts do
\* meanwhile.  (Where ways join, it adds the latest payload of each
\* dependency, even one that is retrying.)
MergesItsInput ==
  Tree(definition) /\ Drawn(definition) =>
    \A s \in log : s.path # <<>> /\ s.known /\ Merges(definition, s) =>
      \E c \in log : Final(c) /\ Starts(c, s) /\ s.payload = Overlay(c.payload, Own(s))

\* When a trigger fires all its consumers exist ("First pass: register all
\* action nodes"): a next is skipped with -e only if it cannot be built, or
\* if a request came before the workflow was loaded.
ConsumersExist ==
  \A a \in skipped :
    enableActions /\ a.node \notin Broken \cup Triggers =>
      \E s \in log : s.exec = a.exec /\ s.node \in Webhooks

\* A firing is lost for want of a definition only while AddWorkflow is between
\* starting a trigger and indexing it.
OnlyLoadingIsUnknown ==
  [][\A s \in log' \ log : ~s.known => s.node = loading]_vars

\* Whatever triggers and actions have reported, all of it is handled: managers
\* and loop never wait for one another in a circle.
ReportsAreHandled == (Delivered # {}) ~> (Delivered = {})

-----------------------------------------------------------------------------
(* The inductive invariant.                                                *)

\* What AddWorkflow has come to.
LoadOK ==
  /\ registered \subseteq indexed \cup {loading}
  /\ loading # None => loading \in registered
  /\ registered \cap Triggers # {} => todo \subseteq Triggers
  /\ \A n \in Nodes \ (todo \cup Broken) : enableActions => n \in registered
  /\ \A a \in InFlight : a.node \in registered

\* Results are with their manager, firings have no run yet, runs have an id.
PlaceOK ==
  /\ \A m \in Managers : \A r \in held[m] : ManagerOf(r.node) = m
  /\ \A m \in Managers : \A r, q \in held[m] : r = q
  /\ \A a \in live : a.path # <<>> /\ a.node \notin Triggers
  /\ \A r \in Delivered : (r.node \in Triggers) <=> (r.path = <<>>)
  /\ \A r \in Delivered : r.path = <<>> => r = Fired(r.node)
  /\ \A a \in InFlight : a.path # <<>> => a.exec \in minted
  /\ \A s \in log : /\ (s.node \in Triggers) <=> (s.path = <<>>)
                    /\ s.path # <<>> => s.exec # NoExec
                    /\ s.exec \in minted \cup {NoExec}
                    /\ s.path = <<>> => Final(s) /\ s.attempt = 1
                    /\ s.exec = NoExec => s.matched = {}
  /\ \A s, z \in log :
       s.path = <<>> /\ z.path = <<>> /\ s.exec = z.exec /\ s.exec # NoExec => s = z

\* The attempts of a run, from the log to the goroutine.
OrderOK ==
  /\ \A q \in UNION {held[m] : m \in Managers}, a \in wire \cup live :
        SameRun(q, a) /\ a.exec # NoExec => Precedes(q, a)
  /\ \A q \in wire, a \in live : ~SameRun(q, a)
  /\ \A q, a \in wire : SameRun(q, a) => q = a
  /\ \A q, a \in live : SameRun(q, a) => q = a

\* In a tree a node has one run in an execution.
UniqueOK ==
  Tree(definition) =>
    \A a, z \in InFlight \cup log :
      a.exec = z.exec /\ a.exec # NoExec /\ a.node = z.node => a.path = z.path

\* What a run will merge is still recorded.
HistoryOK ==
  /\ Tree(definition) =>
       \A a \in InFlight, s \in log : Final(s) /\ Starts(s, a) =>
         s.node \in DOMAIN execHistory[a.exec] /\ execHistory[a.exec][s.node] = s.payload
  /\ \A x \in Execs : \A n \in DOMAIN execHistory[x] :
       \A k \in DOMAIN execHistory[x][n] : execHistory[x][n][k].exec = x

\* Whoever is under way without a request found the actions registered.
ReadyOK ==
  \A a \in InFlight :
    \/ todo \subseteq Triggers
    \/ a.path # <<>> /\ \E s \in log : s.exec = a.exec /\ s.node \in Webhooks

Inv == /\ TypeOK /\ RunHasCause /\ OneVerdict /\ MergeIsClean /\ MergesItsInput
       /\ ConsumersExist
       /\ LoadOK /\ PlaceOK /\ OrderOK /\ UniqueOK /\ HistoryOK /\ ReadyOK
=============================================================================
