--------------------------- MODULE Runner_proofs ---------------------------
(* The promises of a client's sync, for any nodes, definitions, secrets and *)
(* bounds.                                                                  *)
EXTENDS Runner, SequenceTheorems, TLAPS

USE RunnerAssumption DEF operated, installed, vars

(* What is known of the sequences.                                         *)
LEMMA Sizes ==
  ASSUME TypeOK
  PROVE  /\ Len(revs) \in 1 .. MaxRevs /\ revs \in [1 .. Len(revs) -> Defs]
         /\ DOMAIN revs = 1 .. Len(revs)
         /\ Len(inst) \in Nat /\ inst \in [1 .. Len(inst) -> Instance]
         /\ DOMAIN inst = 1 .. Len(inst)
BY LenProperties DEF TypeOK

LEMMA RevsOfInst ==
  ASSUME TypeOK
  PROVE  \A k \in 1 .. Len(inst) : inst[k] \in Instance /\ inst[k].rev \in 1 .. Len(revs)
<1> SUFFICES ASSUME NEW k \in 1 .. Len(inst)
             PROVE  inst[k] \in Instance /\ inst[k].rev \in 1 .. Len(revs)
  OBVIOUS
<1>1. inst[k] \in Instance
  BY Sizes
<1>2. inst[k].rev \in 1 .. MaxRevs /\ inst[k].rev <= Len(revs)
  BY <1>1 DEF Instance, TypeOK
<1> QED BY <1>1, <1>2, Sizes

LEMMA RefIsKnown ==
  ASSUME TypeOK, IndexIsBuilt, NEW n \in Nodes
  PROVE  RefOf(n) \in Refs \cup {None}
<1>1. CASE index[n] = 0
  BY <1>1 DEF RefOf
<1>2. CASE index[n] # 0
  <2>1. index[n] \in 1 .. Len(inst)
    BY <1>2, Sizes DEF TypeOK
  <2> QED BY <1>2, <2>1 DEF RefOf, IndexIsBuilt, CanBeBuilt
<1> QED BY <1>1, <1>2

LEMMA PlainAt ==
  ASSUME NEW place \in {"poll", "drain", "resolve", "start", "bind", "select", "closed"},
         NEW i \in Items \cup {None}
  PROVE  /\ At(place, i) \in Loop /\ At(place, i).at = place /\ At(place, i).item = i
         /\ At(place, i).answer = None
BY DEF At, Loop

(* A step that installs nothing.                                           *)
LEMMA InstalledKept ==
  ASSUME Inv, installed' = installed, TypeOK',
         Len(revs) <= Len(revs'), \A k \in 1 .. Len(revs) : revs'[k] = revs[k],
         loop'.at = "closed" <=> loop.at = "closed"
  PROVE  IndexIsBuilt' /\ NothingIsForgotten' /\ OnlyActiveFires' /\ NewestServes'
<1>1. TypeOK BY DEF Inv
<1>2. \A k \in 1 .. Len(inst) : inst[k].rev \in 1 .. Len(revs)
  BY <1>1, RevsOfInst
<1>3. \A n \in Nodes : index[n] \in 0 .. Len(inst)
  BY <1>1 DEF TypeOK
<1>4. IndexIsBuilt'
  BY <1>1, <1>2, <1>3, Sizes DEF Inv, IndexIsBuilt
<1>5. NothingIsForgotten'
  BY <1>1 DEF Inv, NothingIsForgotten, Reachable
<1>6. active # 0 => active \in 1 .. Len(inst)
  BY <1>1, Sizes DEF TypeOK
<1>7. OnlyActiveFires'
  BY <1>1, <1>2, <1>6, Sizes DEF Inv, OnlyActiveFires, Built
<1>8. NewestServes'
  BY <1>1, <1>2, <1>6, Sizes DEF Inv, NewestServes
<1> QED BY <1>4, <1>5, <1>7, <1>8

(* A step in which no secret comes, goes or gets older.                    *)
LEMMA SecretsKept ==
  ASSUME Inv, <<store, used, unserved, cache>>' = <<store, used, unserved, cache>>,
         loop'.answer = None \/ (loop'.answer = loop.answer /\ loop'.way = loop.way)
  PROVE  SecretsAge'
BY DEF Inv, SecretsAge, Served, Fresh

-----------------------------------------------------------------------------
(* The operators and the server.                                           *)

LEMMA SaveKeeps ==
  ASSUME Inv, NEW d \in Defs, SaveWorkflow(d)
  PROVE  Inv'
<1>1. TypeOK /\ revs \in Seq(Defs)
  BY DEF Inv, TypeOK
<1>2. /\ revs' \in Seq(Defs) /\ Len(revs') = Len(revs) + 1
      /\ \A k \in 1 .. Len(revs) : revs'[k] = revs[k]
  BY <1>1, AppendProperties DEF SaveWorkflow
<1>3. Len(revs') \in 1 .. MaxRevs /\ Len(revs) <= Len(revs')
  BY <1>1, <1>2, Sizes DEF SaveWorkflow
<1>4. \A k \in 1 .. Len(inst) : inst[k].rev <= Len(revs')
  <2> SUFFICES ASSUME NEW k \in 1 .. Len(inst) PROVE inst[k].rev <= Len(revs')
    OBVIOUS
  <2>1. inst[k].rev \in 1 .. Len(revs)
    BY <1>1, RevsOfInst
  <2> QED BY <1>1, <1>2, <2>1, Sizes
<1>5. TypeOK'
  BY <1>1, <1>2, <1>3, <1>4 DEF TypeOK, SaveWorkflow
<1>6. IndexIsBuilt' /\ NothingIsForgotten' /\ OnlyActiveFires' /\ NewestServes'
  BY <1>2, <1>3, <1>5, InstalledKept DEF SaveWorkflow
<1>7. \A n \in Nodes : RefOf(n)' = RefOf(n)
  <2> SUFFICES ASSUME NEW n \in Nodes, index[n] # 0 PROVE RefOf(n)' = RefOf(n)
    BY DEF RefOf, SaveWorkflow
  <2>1. index[n] \in 1 .. Len(inst)
    BY <1>1, Sizes DEF TypeOK
  <2>2. inst[index[n]].rev \in 1 .. Len(revs)
    BY <1>1, <2>1, RevsOfInst
  <2> QED BY <1>2, <2>2 DEF RefOf, SaveWorkflow
<1>8. WorkIsKnown'
  <2>1. loop.at \in {"resolve", "bind"} => NodeOf(loop.item) \in Nodes
    BY DEF Inv, WorkIsKnown, NodeOf, Nodes
  <2>2. loop.at \in {"resolve", "bind"} => Ref' # None
    BY <1>7, <2>1 DEF Inv, WorkIsKnown, Ref, NodeOf, SaveWorkflow
  <2> QED BY <2>2 DEF Inv, WorkIsKnown, SaveWorkflow
<1>9. SecretsAge'
  BY SecretsKept DEF SaveWorkflow
<1> QED BY <1>5, <1>6, <1>8, <1>9 DEF Inv

LEMMA EnableKeeps ==
  ASSUME Inv, SetWorkflowEnabled
  PROVE  Inv'
<1>1. TypeOK'
  BY DEF Inv, TypeOK, SetWorkflowEnabled
<1>2. IndexIsBuilt' /\ NothingIsForgotten' /\ OnlyActiveFires' /\ NewestServes'
  BY <1>1, InstalledKept, Sizes DEF Inv, SetWorkflowEnabled
<1>3. WorkIsKnown'
  BY DEF Inv, WorkIsKnown, Ref, RefOf, NodeOf, SetWorkflowEnabled
<1>4. SecretsAge'
  BY SecretsKept DEF SetWorkflowEnabled
<1> QED BY <1>1, <1>2, <1>3, <1>4 DEF Inv

LEMMA CreateKeeps ==
  ASSUME Inv, NEW r \in Refs, NEW s \in Secrets, CreateCredential(r, s)
  PROVE  Inv'
<1>1. TypeOK'
  BY DEF Inv, TypeOK, CreateCredential
<1>2. IndexIsBuilt' /\ NothingIsForgotten' /\ OnlyActiveFires' /\ NewestServes'
  BY <1>1, InstalledKept, Sizes DEF Inv, CreateCredential
<1>3. WorkIsKnown'
  BY DEF Inv, WorkIsKnown, Ref, RefOf, NodeOf, CreateCredential
<1>4. \A x \in Secrets : Served(x)' => Served(x) \/ x = s
  BY DEF Inv, TypeOK, Served, CreateCredential
<1>5. SecretsAge'
  BY <1>4 DEF Inv, SecretsAge, Fresh, CreateCredential
<1> QED BY <1>1, <1>2, <1>3, <1>5 DEF Inv

LEMMA DeleteKeeps ==
  ASSUME Inv, NEW r \in Refs, DeleteCredential(r)
  PROVE  Inv'
<1>1. TypeOK'
  BY DEF Inv, TypeOK, DeleteCredential
<1>2. IndexIsBuilt' /\ NothingIsForgotten' /\ OnlyActiveFires' /\ NewestServes'
  BY <1>1, InstalledKept, Sizes DEF Inv, DeleteCredential
<1>3. WorkIsKnown'
  BY DEF Inv, WorkIsKnown, Ref, RefOf, NodeOf, DeleteCredential
<1>4. \A x \in Secrets : Served(x)' => Served(x)
  BY DEF Inv, TypeOK, Served, DeleteCredential
<1>5. SecretsAge'
  BY <1>4 DEF Inv, SecretsAge, Fresh, DeleteCredential
<1> QED BY <1>1, <1>2, <1>3, <1>5 DEF Inv

LEMMA ArrivalKeeps ==
  ASSUME Inv, NEW i \in Items, NEW n \in Actions, Handoff(i, n) \/ Report(i, n)
  PROVE  Inv'
<1>0. PICK status \in {"pending", "next"} :
         row' = [row EXCEPT ![i] = [node |-> n, status |-> status]]
  BY DEF Handoff, Report
<1>1. /\ row' \in [Items -> Row] /\ row'[i].status # "none" /\ row'[i].node \in Actions
      /\ row[i].status = "none" /\ \A j \in Items \ {i} : row'[j] = row[j]
  <2>1. [node |-> n, status |-> status] \in Row
    BY DEF Row
  <2> QED BY <1>0, <2>1 DEF Inv, TypeOK, Handoff, Report
<1>2. TypeOK'
  BY <1>1 DEF Inv, TypeOK, Handoff, Report
<1>3. IndexIsBuilt' /\ NothingIsForgotten' /\ OnlyActiveFires' /\ NewestServes'
  BY <1>2, InstalledKept, Sizes DEF Inv, Handoff, Report
<1>4. WorkIsKnown'
  <2>1. loop.at \in {"resolve", "bind"} => Ref' = Ref
    BY <1>1 DEF Inv, WorkIsKnown, Ref, RefOf, NodeOf, Handoff, Report
  <2>2. loop.at \in {"resolve", "bind"} => Ref' # None
    BY <2>1 DEF Inv, WorkIsKnown
  <2>3. \A j \in Items : row'[j].status # "none" => row'[j].node \in Actions
    BY <1>1 DEF Inv, WorkIsKnown
  <2>4. \A j \in todo : row'[j].status # "none"
    BY <1>1 DEF Inv, TypeOK, WorkIsKnown
  <2>5. loop.at \in {"resolve", "start", "bind"} => loop.item \in Items /\ row'[loop.item].status # "none"
    BY <1>1 DEF Inv, WorkIsKnown
  <2>6. loop' = loop /\ todo' = todo
    BY DEF Handoff, Report
  <2> QED BY <2>2, <2>3, <2>4, <2>5, <2>6 DEF Inv, WorkIsKnown
<1>5. SecretsAge'
  BY SecretsKept DEF Handoff, Report
<1> QED BY <1>2, <1>3, <1>4, <1>5 DEF Inv

LEMMA TickKeeps ==
  ASSUME Inv, Tick
  PROVE  Inv'
<1>0. Stale \in Nat
  BY DEF Stale
<1>1. loop' \in Loop /\ loop'.at = loop.at /\ loop'.item = loop.item /\ loop'.answer = loop.answer
  <2>1. loop \in Loop /\ loop.way \in 0 .. Delay
    BY DEF Inv, TypeOK, Loop
  <2>2. CASE loop.answer = None
    BY <2>1, <2>2 DEF Tick
  <2>3. CASE loop.answer # None
    <3>1. loop' = [loop EXCEPT !.way = loop.way + 1] /\ loop.way < Delay
      BY <2>3 DEF Tick
    <3>2. loop.way + 1 \in 0 .. Delay
      BY <2>1, <3>1
    <3> QED BY <2>1, <3>1, <3>2 DEF Loop
  <2> QED BY <2>2, <2>3
<1>2. cache' \in [Refs -> Cached]
  <2> SUFFICES ASSUME NEW r \in Refs
               PROVE  [cache[r] EXCEPT !.left = IF @ > 0 THEN @ - 1 ELSE 0] \in Cached
    BY DEF Tick
  <2>1. cache[r] \in Cached /\ cache[r].left \in 0 .. Ttl
    BY DEF Inv, TypeOK, Cached
  <2>2. (IF cache[r].left > 0 THEN cache[r].left - 1 ELSE 0) \in 0 .. Ttl
    BY <2>1
  <2> QED BY <2>1, <2>2 DEF Cached
<1>3. unserved' \in [Secrets -> 0 .. Stale]
  BY <1>0 DEF Inv, TypeOK, Tick
<1>4. TypeOK'
  BY <1>1, <1>2, <1>3 DEF Inv, TypeOK, Tick
<1>5. IndexIsBuilt' /\ NothingIsForgotten' /\ OnlyActiveFires' /\ NewestServes'
  BY <1>1, <1>4, InstalledKept, Sizes DEF Inv, Tick
<1>6. WorkIsKnown'
  BY <1>1 DEF Inv, WorkIsKnown, Ref, RefOf, NodeOf, Tick
<1>7. \A s \in Secrets : unserved'[s] = unserved[s] \/ (s \in used /\ ~Served(s) /\ unserved'[s] = unserved[s] + 1)
  BY DEF Inv, TypeOK, Tick
<1>8. SecretsAge'
  <2>1. \A s \in Secrets : /\ s \notin used \/ Served(s) => unserved'[s] = 0
                           /\ Served(s) => s \in used
                           /\ Served(s)' <=> Served(s)
    BY <1>7 DEF Inv, SecretsAge, Tick, Served
  <2>2. ASSUME NEW r \in Refs, Fresh(r)'
        PROVE  cache'[r].secret \in Secrets /\ unserved'[cache'[r].secret] + cache'[r].left <= Stale
    <3>1. cache[r] \in Cached /\ cache[r].left \in Nat /\ cache'[r] = [cache[r] EXCEPT !.left = IF @ > 0 THEN @ - 1 ELSE 0]
      BY DEF Inv, TypeOK, Tick, Cached
    <3>2. cache'[r].secret = cache[r].secret /\ cache[r].left > 0 /\ cache'[r].left = cache[r].left - 1
      BY <2>2, <3>1 DEF Fresh, Cached
    <3>3. cache[r].secret \in Secrets /\ unserved[cache[r].secret] + cache[r].left <= Stale
      BY <3>2 DEF Inv, SecretsAge, Fresh
    <3>4. unserved[cache[r].secret] \in Nat
      BY <3>3 DEF Inv, TypeOK
    <3> QED BY <1>0, <1>7, <3>1, <3>2, <3>3, <3>4
  <2>3. ASSUME loop'.answer \in Secrets
        PROVE  unserved'[loop'.answer] <= loop'.way
    <3>1. loop'.way = loop.way + 1 /\ loop.way \in Nat
      BY <1>1, <2>3 DEF Inv, TypeOK, Tick, Loop
    <3>2. unserved[loop.answer] <= loop.way /\ unserved[loop.answer] \in Nat
      BY <1>1, <2>3 DEF Inv, SecretsAge, TypeOK
    <3> QED BY <1>1, <1>7, <2>3, <3>1, <3>2
  <2>4. used' = used
    BY DEF Tick
  <2> QED BY <2>1, <2>2, <2>3, <2>4 DEF SecretsAge
<1> QED BY <1>4, <1>5, <1>6, <1>8 DEF Inv

-----------------------------------------------------------------------------
(* A poll.                                                                 *)

\* What is built is appended to what was there, with its triggers on.
LEMMA Building ==
  ASSUME Inv, IsServed, NEW old \in Seq(Instance), Install(old), Len(old) = Len(inst),
         revs' = revs, \A k \in 1 .. Len(inst) : old[k].rev = inst[k].rev
  PROVE  /\ inst' \in Seq(Instance) /\ Len(inst') = Len(inst) + 1 /\ active' = Len(inst')
         /\ \A k \in 1 .. Len(inst) : inst'[k] = old[k]
         /\ inst'[active'] = [rev |-> Len(revs), on |-> Built(Latest, Triggers), stopped |-> FALSE]
         /\ \A k \in 1 .. Len(inst') : inst'[k].rev \in 1 .. Len(revs)
         /\ index' \in [Nodes -> 0 .. Len(inst')]
         /\ IndexIsBuilt' /\ NewestServes'
<1> DEFINE new == [rev |-> Len(revs), on |-> Built(Latest, Triggers), stopped |-> FALSE]
<1>0. TypeOK /\ Len(inst) \in Nat /\ Len(revs) \in 1 .. MaxRevs
  BY Sizes DEF Inv
<1>1. new \in Instance
  BY <1>0 DEF Instance, Built
<1>2. /\ inst' \in Seq(Instance) /\ Len(inst') = Len(inst) + 1 /\ active' = Len(inst')
      /\ \A k \in 1 .. Len(inst) : inst'[k] = old[k]
      /\ inst'[Len(inst) + 1] = new
  BY <1>0, <1>1, AppendProperties DEF Install
<1>3. \A k \in 1 .. Len(inst') : inst'[k].rev \in 1 .. Len(revs)
  <2> SUFFICES ASSUME NEW k \in 1 .. Len(inst') PROVE inst'[k].rev \in 1 .. Len(revs)
    OBVIOUS
  <2>1. CASE k \in 1 .. Len(inst)
    <3>1. inst'[k].rev = inst[k].rev /\ inst[k].rev \in 1 .. Len(revs)
      BY <1>0, <1>2, <2>1, RevsOfInst
    <3> QED BY <3>1
  <2>2. CASE k = Len(inst) + 1
    BY <1>0, <1>2, <2>2
  <2> QED BY <1>0, <1>2, <2>1, <2>2
<1>4. index' \in [Nodes -> 0 .. Len(inst')]
  <2> SUFFICES ASSUME NEW n \in Nodes PROVE Registered(Len(inst) + 1)[n] \in 0 .. Len(inst')
    BY DEF Install, Registered
  <2>1. index[n] \in 0 .. Len(inst)
    BY <1>0 DEF TypeOK
  <2>2. Registered(Len(inst) + 1)[n] \in {Len(inst) + 1, index[n]}
    BY DEF Registered
  <2> QED BY <1>0, <1>2, <2>1, <2>2
<1>5. \A n \in Nodes : index'[n] = IF CanBeBuilt(Latest[n]) THEN Len(inst) + 1 ELSE index[n]
  BY DEF Install, Registered, Built
<1>6. IndexIsBuilt'
  <2> SUFFICES ASSUME NEW n \in Nodes, index'[n] # 0
               PROVE  CanBeBuilt(revs[inst'[index'[n]].rev][n])
    BY DEF IndexIsBuilt
  <2>1. CASE CanBeBuilt(Latest[n])
    BY <1>2, <1>5, <2>1 DEF Latest
  <2>2. CASE ~CanBeBuilt(Latest[n])
    <3>1. index'[n] = index[n] /\ index[n] \in 1 .. Len(inst)
      BY <1>0, <1>5, <2>2 DEF TypeOK
    <3>2. inst'[index[n]].rev = inst[index[n]].rev
      BY <1>2, <3>1
    <3> QED BY <3>1, <3>2 DEF Inv, IndexIsBuilt
  <2> QED BY <2>1, <2>2
<1>7. NewestServes'
  BY <1>2, <1>5 DEF NewestServes, Latest
<1> QED BY <1>2, <1>3, <1>4, <1>6, <1>7

\* What was built before it is silent and still reachable, or built again.
LEMMA Bookkeeping ==
  ASSUME Inv, loop.at = "poll", Remove \/ Update \/ InstallNew \/ Keep, revs' = revs, loop'.at = "drain"
  PROVE  /\ inst' \in Seq(Instance) /\ Len(inst) <= Len(inst')
         /\ \A k \in 1 .. Len(inst') : inst'[k].rev \in 1 .. Len(revs)
         /\ \A k \in 1 .. Len(inst) : inst'[k].rev = inst[k].rev
         /\ active' \in 0 .. Len(inst') /\ retired' \subseteq 1 .. Len(inst')
         /\ index' \in [Nodes -> 0 .. Len(inst')]
         /\ IndexIsBuilt' /\ NothingIsForgotten' /\ OnlyActiveFires' /\ NewestServes'
<1>0. /\ TypeOK /\ Len(inst) \in Nat /\ inst \in Seq(Instance) /\ active \in 0 .. Len(inst)
      /\ retired \subseteq 1 .. Len(inst) /\ index \in [Nodes -> 0 .. Len(inst)]
      /\ DOMAIN inst = 1 .. Len(inst)
  BY Sizes DEF Inv, TypeOK
<1>1. \A k \in 1 .. Len(inst) : inst[k] \in Instance /\ inst[k].rev \in 1 .. Len(revs)
  BY <1>0, RevsOfInst
<1>2. \A k \in 1 .. Len(inst) : inst[k].on # {} => k = active
  BY <1>0 DEF Inv, OnlyActiveFires
<1>3. active # 0 =>
        /\ active = Len(inst) /\ active \in 1 .. Len(inst)
        /\ Silenced(active) \in Seq(Instance) /\ Len(Silenced(active)) = Len(inst)
        /\ \A k \in 1 .. Len(inst) : /\ Silenced(active)[k].rev = inst[k].rev
                                    /\ Silenced(active)[k].on = {}
  <2> SUFFICES ASSUME active # 0
               PROVE  /\ active = Len(inst) /\ active \in 1 .. Len(inst)
                      /\ Silenced(active) \in Seq(Instance) /\ Len(Silenced(active)) = Len(inst)
                      /\ \A k \in 1 .. Len(inst) : /\ Silenced(active)[k].rev = inst[k].rev
                                                  /\ Silenced(active)[k].on = {}
    OBVIOUS
  <2> DEFINE quiet == [inst[active] EXCEPT !.on = {}]
  <2>0. active \in {0, Len(inst)}
    BY DEF Inv, NothingIsForgotten
  <2>1. active = Len(inst) /\ active \in 1 .. Len(inst)
    <3>1. active = Len(inst)
      BY <2>0
    <3>2. Len(inst) \in 1 .. Len(inst)
      <4>1. Len(inst) \in Nat /\ Len(inst) # 0
        BY <1>0, <3>1
      <4> QED BY <4>1
    <3> QED BY <3>1, <3>2
  <2>2. quiet \in Instance /\ quiet.rev = inst[active].rev /\ quiet.on = {}
    BY <1>1, <2>1 DEF Instance
  <2> HIDE DEF quiet
  <2>3. Silenced(active) = [inst EXCEPT ![active] = quiet]
    BY DEF Silenced, quiet
  <2>4. /\ Silenced(active) \in Seq(Instance) /\ Len(Silenced(active)) = Len(inst)
        /\ \A k \in 1 .. Len(inst) :
             Silenced(active)[k] = IF k = active THEN quiet ELSE inst[k]
    BY <1>0, <2>1, <2>2, <2>3, ExceptSeq
  <2> QED BY <1>2, <2>1, <2>2, <2>4
<1>4. \A k \in 1 .. Len(inst) :
        k \in retired \/ k = active \/ \E l \in 1 .. Len(inst) : k < l /\ inst[l].rev = inst[k].rev
  BY DEF Inv, NothingIsForgotten, Reachable
<1>5. active # 0 =>
        /\ Retired(active) \subseteq 1 .. Len(inst)
        /\ \A k \in 1 .. Len(inst) :
             k \in Retired(active) \/ \E l \in 1 .. Len(inst) : k < l /\ inst[l].rev = inst[k].rev
  <2> SUFFICES ASSUME active # 0, NEW k \in 1 .. Len(inst), k \notin Retired(active)
               PROVE  \E l \in 1 .. Len(inst) : k < l /\ inst[l].rev = inst[k].rev
    BY <1>0, <1>3 DEF Retired
  <2>1. k # active
    BY DEF Retired
  <2>2. CASE k \in retired
    <3>1. inst[k].rev = inst[active].rev
      BY <2>2 DEF Retired
    <3>2. k < active
      BY <1>0, <1>3, <2>1
    <3> QED BY <1>3, <3>1, <3>2
  <2> QED BY <1>4, <2>1, <2>2
<1>6. CASE Remove
  <2>1. inst' = Silenced(active) /\ retired' = Retired(active) /\ active' = 0 /\ index' = index /\ active # 0
    BY <1>6 DEF Remove
  <2>2. /\ inst' \in Seq(Instance) /\ Len(inst') = Len(inst)
        /\ \A k \in 1 .. Len(inst) : inst'[k].rev = inst[k].rev /\ inst'[k].on = {}
        /\ DOMAIN inst' = 1 .. Len(inst')
    BY <1>3, <2>1, LenProperties
  <2>3. \A k \in 1 .. Len(inst') : inst'[k].rev \in 1 .. Len(revs)
    BY <1>1, <2>2
  <2>4. IndexIsBuilt'
    BY <1>0, <2>1, <2>2 DEF Inv, IndexIsBuilt
  <2>5. NothingIsForgotten'
    BY <1>5, <2>1, <2>2 DEF NothingIsForgotten, Reachable
  <2>6. OnlyActiveFires' /\ NewestServes'
    BY <2>1, <2>2 DEF OnlyActiveFires, NewestServes
  <2>7. active' \in 0 .. Len(inst') /\ retired' \subseteq 1 .. Len(inst')
    BY <1>0, <1>5, <2>1, <2>2
  <2> QED BY <1>0, <2>1, <2>2, <2>3, <2>4, <2>5, <2>6, <2>7
<1>7. CASE Update
  <2>1. Install(Silenced(active)) /\ retired' = Retired(active) /\ active # 0 /\ IsServed
    BY <1>7 DEF Update, IsOutdated
  <2>2. /\ inst' \in Seq(Instance) /\ Len(inst') = Len(inst) + 1 /\ active' = Len(inst')
        /\ \A k \in 1 .. Len(inst) : inst'[k] = Silenced(active)[k]
        /\ inst'[active'] = [rev |-> Len(revs), on |-> Built(Latest, Triggers), stopped |-> FALSE]
        /\ \A k \in 1 .. Len(inst') : inst'[k].rev \in 1 .. Len(revs)
        /\ index' \in [Nodes -> 0 .. Len(inst')]
        /\ IndexIsBuilt' /\ NewestServes'
    BY <1>3, <2>1, Building
  <2>3. \A k \in 1 .. Len(inst) : inst'[k].rev = inst[k].rev /\ inst'[k].on = {}
    BY <1>3, <2>1, <2>2
  <2>4. 1 .. Len(inst') = (1 .. Len(inst)) \cup {active'} /\ DOMAIN inst' = 1 .. Len(inst')
    BY <1>0, <2>2, LenProperties
  <2>5. NothingIsForgotten'
    <3>1. \A k \in 1 .. Len(inst) :
            k \in retired' \/ \E l \in 1 .. Len(inst') : k < l /\ inst'[l].rev = inst'[k].rev
      BY <1>5, <2>1, <2>3, <2>4
    <3>2. Reachable' = retired' \cup {active'}
      BY <1>0, <2>2 DEF Reachable
    <3> QED BY <2>2, <2>4, <3>1, <3>2 DEF NothingIsForgotten
  <2>6. OnlyActiveFires'
    BY <2>2, <2>3, <2>4 DEF OnlyActiveFires, Latest
  <2>7. active' \in 0 .. Len(inst') /\ retired' \subseteq 1 .. Len(inst')
    BY <1>0, <1>5, <2>1, <2>2, <2>4
  <2> QED BY <1>0, <2>2, <2>3, <2>5, <2>6, <2>7
<1>8. CASE InstallNew
  <2>1. /\ Install(inst) /\ IsServed /\ active = 0
        /\ retired' = { j \in retired : inst[j].rev # Len(revs) }
    BY <1>8 DEF InstallNew
  <2>2. /\ inst' \in Seq(Instance) /\ Len(inst') = Len(inst) + 1 /\ active' = Len(inst')
        /\ \A k \in 1 .. Len(inst) : inst'[k] = inst[k]
        /\ inst'[active'] = [rev |-> Len(revs), on |-> Built(Latest, Triggers), stopped |-> FALSE]
        /\ \A k \in 1 .. Len(inst') : inst'[k].rev \in 1 .. Len(revs)
        /\ index' \in [Nodes -> 0 .. Len(inst')]
        /\ IndexIsBuilt' /\ NewestServes'
    BY <1>0, <2>1, Building
  <2>3. \A k \in 1 .. Len(inst) : inst'[k].rev = inst[k].rev /\ inst'[k].on = {}
    BY <1>0, <1>2, <2>1, <2>2
  <2>4. 1 .. Len(inst') = (1 .. Len(inst)) \cup {active'} /\ DOMAIN inst' = 1 .. Len(inst')
    BY <1>0, <2>2, LenProperties
  <2>5. NothingIsForgotten'
    <3>1. ASSUME NEW k \in 1 .. Len(inst), k \notin retired'
          PROVE  \E l \in 1 .. Len(inst') : k < l /\ inst'[l].rev = inst'[k].rev
      <4>1. CASE k \in retired
        <5>1. inst'[k].rev = inst'[active'].rev /\ k < active'
          BY <1>0, <2>1, <2>2, <3>1, <4>1
        <5> QED BY <2>4, <5>1
      <4>2. CASE k \notin retired
        <5>1. PICK l \in 1 .. Len(inst) : k < l /\ inst[l].rev = inst[k].rev
          BY <1>0, <1>4, <2>1, <4>2
        <5> QED BY <2>3, <2>4, <5>1
      <4> QED BY <4>1, <4>2
    <3>2. Reachable' = retired' \cup {active'}
      BY <1>0, <2>2 DEF Reachable
    <3> QED BY <2>2, <2>4, <3>1, <3>2 DEF NothingIsForgotten
  <2>6. OnlyActiveFires'
    BY <2>2, <2>3, <2>4 DEF OnlyActiveFires, Latest
  <2>7. active' \in 0 .. Len(inst') /\ retired' \subseteq 1 .. Len(inst')
    <3>1. retired' \subseteq 1 .. Len(inst)
      BY <1>0, <2>1
    <3> QED BY <1>0, <2>2, <2>4, <3>1
  <2> QED BY <1>0, <2>2, <2>3, <2>5, <2>6, <2>7
<1>9. CASE Keep
  <2>1. inst' = inst /\ active' = active /\ retired' = retired /\ index' = index
    BY <1>9 DEF Keep
  <2>2. IndexIsBuilt' /\ NothingIsForgotten' /\ OnlyActiveFires' /\ NewestServes'
    BY <2>1 DEF Inv, IndexIsBuilt, NothingIsForgotten, Reachable, OnlyActiveFires, NewestServes
  <2> QED BY <1>0, <1>1, <2>1, <2>2
<1> QED BY <1>6, <1>7, <1>8, <1>9

\* A poll may complete rows, and writes nothing else in them.
LEMMA SyncRows ==
  ASSUME Inv, Sync
  PROVE  /\ row' \in [Items -> Row]
         /\ \A i \in Items : row'[i].node = row[i].node
         /\ \A i \in Items : row'[i].status = "none" <=> row[i].status = "none"
<1>1. ASSUME NEW i \in Items
      PROVE  /\ row'[i] \in Row
             /\ row'[i].node = row[i].node
             /\ row'[i].status = "none" <=> row[i].status = "none"
  <2>1. row[i] \in Row
    BY DEF Inv, TypeOK
  <2>2. CASE i \in Pending /\ Latest[NodeOf(i)] = "absent"
    <3>1. row'[i] = [row[i] EXCEPT !.status = "done"] /\ row[i].status = "pending"
      BY <2>2 DEF Sync, Pending
    <3> QED BY <2>1, <3>1 DEF Row
  <2>3. CASE ~(i \in Pending /\ Latest[NodeOf(i)] = "absent")
    BY <2>1, <2>3 DEF Sync
  <2> QED BY <2>2, <2>3
<1>2. row' \in [Items -> Row]
  BY <1>1 DEF Sync
<1> QED BY <1>1, <1>2

LEMMA SyncKeeps ==
  ASSUME Inv, Sync
  PROVE  Inv'
<1>1. /\ loop.at = "poll"
      /\ Remove \/ Update \/ InstallNew \/ Keep
      /\ loop' = At("drain", None) /\ revs' = revs
  BY DEF Sync
<1>11. loop' \in Loop /\ loop'.at = "drain" /\ loop'.answer = None
  BY <1>1, PlainAt
<1>2. /\ inst' \in Seq(Instance) /\ Len(inst) <= Len(inst')
      /\ \A k \in 1 .. Len(inst') : inst'[k].rev \in 1 .. Len(revs)
      /\ active' \in 0 .. Len(inst') /\ retired' \subseteq 1 .. Len(inst')
      /\ index' \in [Nodes -> 0 .. Len(inst')]
      /\ IndexIsBuilt' /\ NothingIsForgotten' /\ OnlyActiveFires' /\ NewestServes'
  BY <1>1, <1>11, Bookkeeping
<1>3. Len(inst') \in Nat /\ Len(revs) \in Nat
  BY <1>2, LenProperties, Sizes DEF Inv
<1>4. row' \in [Items -> Row]
  BY SyncRows
<1>5. todo' \subseteq Items /\ \A i \in todo' : row[i].status = "pending"
  BY DEF Sync, Pending
<1>6. loop' \in Loop
  BY <1>1 DEF At, Loop
<1>7. \A k \in 1 .. Len(inst') : inst'[k].rev <= Len(revs)
  BY <1>2, <1>3
<1>8. TypeOK'
  BY <1>1, <1>2, <1>4, <1>5, <1>6, <1>7 DEF Inv, TypeOK, Sync
<1>9. WorkIsKnown'
  <2>0. ASSUME NEW i \in Items
        PROVE  row'[i].node = row[i].node /\ (row'[i].status = "none" <=> row[i].status = "none")
    BY SyncRows
  <2>1. ASSUME NEW i \in Items, row'[i].status # "none"
        PROVE  row'[i].node \in Actions
    BY <2>0, <2>1 DEF Inv, WorkIsKnown
  <2>2. ASSUME NEW i \in todo'
        PROVE  row'[i].status # "none"
    <3>1. i \in Items /\ row[i].status = "pending"
      BY <1>5
    <3> QED BY <2>0, <3>1
  <2> QED BY <1>11, <2>1, <2>2 DEF WorkIsKnown
<1>10. SecretsAge'
  BY <1>1, SecretsKept, PlainAt DEF Sync
<1> QED BY <1>2, <1>8, <1>9, <1>10 DEF Inv

-----------------------------------------------------------------------------
(* The handoffs and the starts: nothing is installed in these steps.       *)

LEMMA LoopKeeps ==
  ASSUME Inv, UNCHANGED <<operated, store, unserved, installed>>,
         loop' \in Loop, loop'.at # "closed", loop.at # "closed",
         row' \in [Items -> Row], todo' \subseteq todo, seen' \subseteq Items, skipped' \subseteq Items,
         run' \in [Items -> Run], faults' \in 0 .. MaxFaults, cache' \in [Refs -> Cached],
         \A i \in Items : /\ row'[i].node = row[i].node
                          /\ row[i].status # "none" => row'[i].status # "none",
         \A i \in Items : row[i].status = "none" => row'[i].status = "none",
         loop'.at \in {"resolve", "start", "bind"} => loop'.item \in Items /\ row[loop'.item].status # "none",
         loop'.at \in {"resolve", "bind"} => RefOf(NodeOf(loop'.item)) # None,
         loop'.at \notin {"resolve", "bind"} => loop'.answer = None,
         SecretsAge'
  PROVE  Inv'
<1>1. TypeOK'
  BY DEF Inv, TypeOK
<1>2. IndexIsBuilt' /\ NothingIsForgotten' /\ OnlyActiveFires' /\ NewestServes'
  BY <1>1, InstalledKept, Sizes DEF Inv
<1>3. WorkIsKnown'
  <2>1. \A i \in Items : row'[i].status # "none" => row'[i].node \in Actions
    BY DEF Inv, WorkIsKnown
  <2>2. \A i \in todo' : row'[i].status # "none"
    BY DEF Inv, WorkIsKnown, TypeOK
  <2>3. loop'.at \in {"resolve", "bind"} => Ref' # None
    BY DEF Ref, RefOf, NodeOf
  <2> QED BY <2>1, <2>2, <2>3 DEF WorkIsKnown
<1> QED BY <1>1, <1>2, <1>3 DEF Inv

LEMMA PassSeenKeeps ==
  ASSUME Inv, NEW i \in Items, PassSeen(i)
  PROVE  Inv'
<1>1. SecretsAge'
  BY SecretsKept DEF PassSeen
<1> QED BY <1>1, LoopKeeps DEF PassSeen, Inv, TypeOK, WorkIsKnown, Ref

LEMMA TakeKeeps ==
  ASSUME Inv, NEW i \in Items, Take(i)
  PROVE  Inv'
<1>1. \/ loop' = At("resolve", i) /\ skipped' = skipped /\ RefOf(NodeOf(i)) # None
      \/ loop' = loop /\ skipped' = skipped \cup {i}
      \/ loop' = At("start", i) /\ skipped' = skipped
  BY DEF Take, Needs
<1>2. loop.at = "drain" /\ loop.answer = None /\ row[i].status # "none" /\ loop \in Loop
  BY DEF Take, Inv, WorkIsKnown, TypeOK
<1>3. SecretsAge'
  BY <1>1, <1>2, SecretsKept, PlainAt DEF Take
<1> QED BY <1>1, <1>2, <1>3, LoopKeeps, PlainAt DEF Take, Inv, TypeOK

LEMMA PlaceKeeps ==
  ASSUME Inv, DrainEnds \/ Interval
  PROVE  Inv'
<1>1. loop' = At("select", None) \/ loop' = At("poll", None)
  BY DEF DrainEnds, Interval
<1>2. SecretsAge'
  BY <1>1, SecretsKept, PlainAt DEF DrainEnds, Interval
<1> QED BY <1>1, <1>2, LoopKeeps, PlainAt, SMTT(30) DEF DrainEnds, Interval, Inv, TypeOK

LEMMA FollowKeeps ==
  ASSUME Inv, NEW i \in Items, Follow(i)
  PROVE  Inv'
<1>1. row[i] \in Row /\ row[i].status = "next" /\ row' = [row EXCEPT ![i] = [row[i] EXCEPT !.status = "taken"]]
  BY DEF Follow, Inv, TypeOK
<1>2. [row[i] EXCEPT !.status = "taken"] \in Row
  BY <1>1 DEF Row
<1>3. /\ row' \in [Items -> Row] /\ row'[i].node = row[i].node /\ row'[i].status = "taken"
      /\ \A j \in Items \ {i} : row'[j] = row[j]
  BY <1>1, <1>2 DEF Inv, TypeOK, Row
<1>4. SecretsAge'
  BY SecretsKept, PlainAt DEF Follow
<1>5. loop' = At("start", i) /\ loop.at = "select"
  BY DEF Follow
<1> QED BY <1>1, <1>3, <1>4, <1>5, LoopKeeps, PlainAt, SMTT(30) DEF Follow, Inv, TypeOK

\* What a start writes down, and where the loop is after it.
LEMMA ExecuteWrites ==
  ASSUME Inv, NEW i \in Items, NEW secret \in Secrets \cup {None, "failed"}, Execute(i, secret),
         row[i].status # "none"
  PROVE  /\ run' \in [Items -> Run] /\ \A j \in Items \ {i} : run'[j] = run[j]
         /\ run'[i].with = secret /\ run'[i].attempt = 1
         /\ loop' \in Loop /\ loop'.at \in {"poll", "drain"} /\ loop'.answer = None
<1>1. NodeOf(i) \in Nodes /\ index[NodeOf(i)] \in Nat
  BY Sizes DEF Inv, TypeOK, WorkIsKnown, NodeOf, Nodes
<1>2. [inst |-> index[NodeOf(i)], with |-> secret, attempt |-> 1] \in Run
  BY <1>1, RunnerAssumption DEF Run
<1>3. loop' = At("poll", None) \/ loop' = At("drain", None)
  BY DEF Execute, After
<1> QED BY <1>2, <1>3, PlainAt DEF Execute, Inv, TypeOK

LEMMA StartKeeps ==
  ASSUME Inv, Start
  PROVE  /\ Inv'
         /\ \A i \in Items, s \in Secrets :
              run'[i] # run[i] /\ run'[i].with = s => run'[i].attempt = 1 /\ unserved[s] < Stale
<1> DEFINE it == loop.item
           n == NodeOf(it)
<1>1. it \in Items /\ row[it].status # "none" /\ n \in Nodes /\ loop.at = "start" /\ loop \in Loop
  BY DEF Start, Inv, WorkIsKnown, TypeOK, NodeOf, Nodes
<1>2. RefOf(n) \in Refs \cup {None}
  BY <1>1, RefIsKnown DEF Inv
<1> HIDE DEF n, it
<1>3. CASE index[n] = 0 /\ loop' = After(it) /\ run' = run
  <2>1. loop' = At("poll", None) \/ loop' = At("drain", None)
    BY <1>3 DEF After
  <2>2. SecretsAge'
    BY <2>1, SecretsKept, PlainAt DEF Start
  <2>3. Inv'
    BY <1>1, <1>3, <2>1, <2>2, LoopKeeps, PlainAt, SMTT(30) DEF Start, Inv, TypeOK
  <2> QED BY <1>3, <2>3
<1>4. CASE Needs(n) /\ loop' = At("bind", it) /\ run' = run
  <2>1. SecretsAge'
    BY <1>1, <1>4, SecretsKept, PlainAt DEF Start
  <2>2. /\ loop' \in Loop /\ loop'.at = "bind" /\ loop'.item = it /\ loop'.answer = None
        /\ RefOf(NodeOf(it)) # None
    BY <1>1, <1>4, PlainAt DEF Needs, n
  <2>3. Inv'
    BY <1>1, <1>4, <2>1, <2>2, LoopKeeps DEF Start, Inv, TypeOK
  <2> QED BY <1>4, <2>3
<1>5. CASE ~Needs(n) /\ Execute(it, IF RefOf(n) = None THEN None ELSE cache[RefOf(n)].secret)
  <2> DEFINE secret == IF RefOf(n) = None THEN None ELSE cache[RefOf(n)].secret
  <2>1. /\ secret \in Secrets \cup {None}
        /\ secret \in Secrets => unserved[secret] < Stale
    <3>1. CASE RefOf(n) = None
      BY <3>1
    <3>2. CASE RefOf(n) # None
      <4>1. Fresh(RefOf(n)) /\ RefOf(n) \in Refs
        BY <1>2, <1>5, <3>2 DEF Needs
      <4>2. secret = cache[RefOf(n)].secret /\ secret \in Secrets
            /\ unserved[secret] + cache[RefOf(n)].left <= Stale
        BY <3>2, <4>1 DEF Inv, SecretsAge
      <4>3. cache[RefOf(n)].left \in Nat /\ cache[RefOf(n)].left > 0 /\ unserved[secret] \in Nat
        BY <4>1, <4>2 DEF Inv, TypeOK, Cached, Fresh
      <4> HIDE DEF secret
      <4> QED BY <4>2, <4>3 DEF Stale
    <3> QED BY <3>1, <3>2
  <2> HIDE DEF secret
  <2>2. /\ run' \in [Items -> Run] /\ \A j \in Items \ {it} : run'[j] = run[j]
        /\ run'[it].with = secret /\ run'[it].attempt = 1
        /\ loop' \in Loop /\ loop'.at \in {"poll", "drain"} /\ loop'.answer = None
    BY <1>1, <1>5, <2>1, ExecuteWrites DEF secret
  <2>3. SecretsAge'
    BY <2>2, SecretsKept DEF Start
  <2>4. Inv'
    BY <1>1, <2>2, <2>3, LoopKeeps DEF Start, Inv, TypeOK
  <2> QED BY <2>1, <2>2, <2>4
<1> QED BY <1>1, <1>3, <1>4, <1>5 DEF Start, n, it

-----------------------------------------------------------------------------
(* The fetches.                                                            *)

LEMMA Fetching ==
  ASSUME Inv, IsFetching
  PROVE  /\ loop.item \in Items /\ row[loop.item].status # "none" /\ Ref \in Refs /\ loop \in Loop
         /\ NodeOf(loop.item) \in Nodes /\ loop.at \in {"resolve", "bind"}
<1>1. loop.item \in Items /\ row[loop.item].status # "none" /\ loop \in Loop /\ Ref # None
  BY DEF Inv, WorkIsKnown, IsFetching, TypeOK
<1>2. NodeOf(loop.item) \in Nodes
  BY <1>1 DEF Inv, WorkIsKnown, NodeOf, Nodes
<1>3. Ref \in Refs
  BY <1>1, <1>2, RefIsKnown DEF Inv, Ref
<1> QED BY <1>1, <1>2, <1>3 DEF IsFetching

LEMMA AnswerKeeps ==
  ASSUME Inv, Answer
  PROVE  Inv'
<1>1. /\ loop.item \in Items /\ row[loop.item].status # "none" /\ Ref \in Refs /\ loop \in Loop
      /\ loop.at \in {"resolve", "bind"}
  BY Fetching DEF Answer
<1>2. store[Ref] \in Secrets
  BY <1>1 DEF Inv, TypeOK, Answer
<1>3. /\ loop' \in Loop /\ loop'.at = loop.at /\ loop'.item = loop.item
      /\ loop'.answer = store[Ref] /\ loop'.way = 0
  <2>1. loop' = [loop EXCEPT !.answer = store[Ref], !.way = 0] /\ 0 \in 0 .. Delay
    BY DEF Answer
  <2> QED BY <1>1, <1>2, <2>1 DEF Loop
<1>4. unserved[store[Ref]] = 0
  BY <1>1, <1>2 DEF Inv, SecretsAge, Served
<1>5. SecretsAge'
  BY <1>3, <1>4 DEF Inv, SecretsAge, Served, Fresh, Answer
<1> QED BY <1>1, <1>3, <1>5, LoopKeeps DEF Answer, Inv, TypeOK, Ref

LEMMA ReceiveKeeps ==
  ASSUME Inv, Receive
  PROVE  /\ Inv'
         /\ \A i \in Items, s \in Secrets :
              run'[i] # run[i] /\ run'[i].with = s => run'[i].attempt = 1 /\ unserved[s] < Stale
<1> DEFINE secret == loop.answer
           it == loop.item
<1>1. /\ it \in Items /\ row[it].status # "none" /\ Ref \in Refs /\ loop \in Loop
      /\ loop.at \in {"resolve", "bind"}
  BY Fetching DEF Receive
<1>2. secret \in Secrets
  BY <1>1 DEF Receive, Loop
<1>3. unserved[secret] <= loop.way /\ unserved[secret] \in Nat /\ loop.way \in 0 .. Delay
  BY <1>1, <1>2 DEF Inv, SecretsAge, TypeOK, Loop
<1>4. unserved[secret] < Stale /\ unserved[secret] + Ttl <= Stale
  BY <1>3 DEF Stale
<1>5. [secret |-> secret, left |-> Ttl] \in Cached
  BY <1>2 DEF Cached
<1> HIDE DEF secret, it
<1>6. cache' = [cache EXCEPT ![Ref] = [secret |-> secret, left |-> Ttl]]
  BY DEF Receive, secret
<1>7. /\ cache' \in [Refs -> Cached] /\ cache'[Ref] = [secret |-> secret, left |-> Ttl]
      /\ \A r \in Refs \ {Ref} : cache'[r] = cache[r]
  BY <1>1, <1>5, <1>6 DEF Inv, TypeOK
<1>8. ASSUME loop'.answer = None PROVE SecretsAge'
  <2>1. ASSUME NEW r \in Refs, Fresh(r)'
        PROVE  cache'[r].secret \in Secrets /\ unserved[cache'[r].secret] + cache'[r].left <= Stale
    <3>1. CASE r = Ref
      BY <1>2, <1>4, <1>7, <3>1
    <3>2. CASE r # Ref
      BY <1>7, <2>1, <3>2 DEF Inv, SecretsAge, Fresh
    <3> QED BY <3>1, <3>2
  <2> QED BY <1>8, <2>1 DEF Inv, SecretsAge, Served, Receive
<1>9. CASE loop' = At("start", it) /\ run' = run
  <2>1. SecretsAge'
    BY <1>1, <1>8, <1>9, PlainAt
  <2>2. Inv'
    BY <1>1, <1>7, <1>9, <2>1, LoopKeeps, PlainAt DEF Receive, Inv, TypeOK
  <2> QED BY <1>9, <2>2
<1>10. CASE Execute(it, secret)
  <2>1. /\ run' \in [Items -> Run] /\ \A j \in Items \ {it} : run'[j] = run[j]
        /\ run'[it].with = secret /\ run'[it].attempt = 1
        /\ loop' \in Loop /\ loop'.at \in {"poll", "drain"} /\ loop'.answer = None
    BY <1>1, <1>2, <1>10, ExecuteWrites
  <2>2. Inv'
    BY <1>1, <1>7, <1>8, <2>1, LoopKeeps DEF Receive, Inv, TypeOK
  <2> QED BY <1>4, <2>1, <2>2
<1> QED BY <1>9, <1>10 DEF Receive, it, secret

LEMMA FailsKeeps ==
  ASSUME Inv, Refused \/ FetchFails
  PROVE  /\ Inv'
         /\ \A i \in Items, s \in Secrets : run'[i] # run[i] => run'[i].with # s
<1> DEFINE it == loop.item
<1>1. /\ it \in Items /\ row[it].status # "none" /\ Ref \in Refs /\ loop \in Loop
      /\ loop.at \in {"resolve", "bind"}
  BY Fetching DEF Refused, FetchFails
<1>2. faults' \in 0 .. MaxFaults
  <2>1. CASE Refused
    BY <2>1 DEF Refused, Inv, TypeOK
  <2>2. CASE FetchFails
    <3>1. Fault /\ faults \in 0 .. MaxFaults
      BY <2>2 DEF FetchFails, Inv, TypeOK
    <3> QED BY <3>1 DEF Fault
  <2> QED BY <2>1, <2>2
<1>3. Fails
  BY DEF Refused, FetchFails
<1> HIDE DEF it
<1>4. CASE loop.at = "resolve"
  <2>1. loop' = At("drain", None) /\ run' = run /\ seen' = seen \ {loop.item}
    BY <1>3, <1>4 DEF Fails
  <2>2. SecretsAge'
    BY <1>3, <2>1, SecretsKept, PlainAt DEF Fails
  <2>3. Inv'
    BY <1>1, <1>2, <1>3, <2>1, <2>2, LoopKeeps, PlainAt DEF Fails, Inv, TypeOK
  <2> QED BY <2>1, <2>3
<1>5. CASE loop.at # "resolve"
  <2>0. Execute(it, "failed") /\ seen' = seen
    BY <1>3, <1>5 DEF Fails, it
  <2>1. /\ run' \in [Items -> Run] /\ \A j \in Items \ {it} : run'[j] = run[j]
        /\ run'[it].with = "failed"
        /\ loop' \in Loop /\ loop'.at \in {"poll", "drain"} /\ loop'.answer = None
    BY <1>1, <2>0, ExecuteWrites
  <2>2. SecretsAge'
    BY <1>3, <2>1, SecretsKept DEF Fails
  <2>3. Inv'
    BY <1>1, <1>2, <1>3, <2>0, <2>1, <2>2, LoopKeeps DEF Fails, Inv, TypeOK
  <2> QED BY <2>1, <2>3
<1> QED BY <1>4, <1>5

\* The end of the client: all that is in reach is stopped.
LEMMA CloseKeeps ==
  ASSUME Inv, Close
  PROVE  Inv'
<1>0. /\ TypeOK /\ Len(inst) \in Nat /\ inst \in Seq(Instance) /\ active \in 0 .. Len(inst)
      /\ DOMAIN inst = 1 .. Len(inst) /\ inst \in [1 .. Len(inst) -> Instance]
  BY Sizes DEF Inv, TypeOK
<1>1. \A k \in 1 .. Len(inst) :
        /\ inst'[k] = IF k \in Reachable THEN [inst[k] EXCEPT !.on = {}, !.stopped = TRUE] ELSE inst[k]
        /\ inst'[k] \in Instance /\ inst'[k].rev = inst[k].rev
        /\ k \in Reachable => inst'[k].stopped /\ inst'[k].on = {}
  <2> SUFFICES ASSUME NEW k \in 1 .. Len(inst)
               PROVE  /\ inst'[k] = IF k \in Reachable THEN [inst[k] EXCEPT !.on = {}, !.stopped = TRUE] ELSE inst[k]
                      /\ inst'[k] \in Instance /\ inst'[k].rev = inst[k].rev
                      /\ k \in Reachable => inst'[k].stopped /\ inst'[k].on = {}
    OBVIOUS
  <2>1. inst[k] \in Instance
    BY <1>0
  <2>2. inst'[k] = IF k \in Reachable THEN [inst[k] EXCEPT !.on = {}, !.stopped = TRUE] ELSE inst[k]
    BY DEF Close
  <2> QED BY <2>1, <2>2 DEF Instance
<1>2. inst' \in Seq(Instance) /\ Len(inst') = Len(inst) /\ DOMAIN inst' = 1 .. Len(inst')
  <2>1. inst' \in [1 .. Len(inst) -> Instance] /\ DOMAIN inst' = 1 .. Len(inst)
    BY <1>1 DEF Close
  <2>2. inst' \in Seq(Instance)
    BY <1>0, <2>1, SeqDef
  <2>3. Len(inst') \in Nat /\ DOMAIN inst' = 1 .. Len(inst')
    BY <2>2, LenProperties
  <2>4. Len(inst') = Len(inst)
    BY <1>0, <2>1, <2>3
  <2> QED BY <2>1, <2>2, <2>3, <2>4
<1>3. loop' \in Loop /\ loop'.at = "closed" /\ loop'.answer = None
  BY PlainAt DEF Close
<1>4. \A k \in 1 .. Len(inst) : inst'[k].rev <= Len(revs)
  BY <1>1 DEF Inv, TypeOK
<1>5. TypeOK'
  BY <1>2, <1>3, <1>4 DEF Inv, TypeOK, Close
<1>6. WorkIsKnown'
  BY <1>3 DEF Inv, WorkIsKnown, Close
<1>7. IndexIsBuilt'
  <2> SUFFICES ASSUME NEW n \in Nodes, index[n] # 0
               PROVE  CanBeBuilt(revs[inst'[index[n]].rev][n])
    BY DEF IndexIsBuilt, Close
  <2>1. index[n] \in 0 .. Len(inst)
    BY <1>0 DEF TypeOK
  <2>2. index[n] \in 1 .. Len(inst)
    BY <1>0, <2>1
  <2>3. inst'[index[n]].rev = inst[index[n]].rev
    BY <1>1, <2>2
  <2> QED BY <2>3 DEF Inv, IndexIsBuilt
<1>8. NothingIsForgotten'
  <2>1. Reachable' = Reachable /\ active' = active
    BY DEF Reachable, Close
  <2>2. Reachable \subseteq 1 .. Len(inst)
    BY <1>0 DEF Reachable, TypeOK
  <2> QED BY <1>1, <1>2, <2>1, <2>2 DEF Inv, NothingIsForgotten
<1>a. active # 0 => active \in 1 .. Len(inst)
  BY <1>0
<1>9. OnlyActiveFires'
  <2>1. \A k \in 1 .. Len(inst) : inst'[k].on = {}
    <3> SUFFICES ASSUME NEW k \in 1 .. Len(inst), inst'[k].on # {} PROVE FALSE
      OBVIOUS
    <3>1. k \notin Reachable /\ inst'[k] = inst[k]
      BY <1>1
    <3>2. k = active
      BY <1>0, <3>1 DEF Inv, OnlyActiveFires
    <3> QED BY <1>0, <3>1, <3>2 DEF Reachable
  <2> QED BY <1>2, <1>3, <2>1 DEF OnlyActiveFires
<1>10. NewestServes'
  <2>1. active # 0 => inst'[active].rev = inst[active].rev
    BY <1>1, <1>a
  <2> QED BY <2>1 DEF Inv, NewestServes, Close
<1>11. SecretsAge'
  BY <1>3, SecretsKept DEF Close
<1> QED BY <1>5, <1>6, <1>7, <1>8, <1>9, <1>10, <1>11 DEF Inv

-----------------------------------------------------------------------------
(* The theorems.                                                           *)

\* What the next theorem says of one step.
Expires ==
  \A i \in Items, s \in Secrets :
    run'[i] # run[i] /\ run'[i].with = s =>
      IF run'[i].attempt = 1 THEN unserved[s] < Ttl + Delay ELSE run[i].with = s

\* A later attempt is one more, with the secret of the first.
LEMMA AgainKeeps ==
  ASSUME Inv, NEW i \in Items, Again(i)
  PROVE  Inv' /\ Expires
<1>1. /\ run[i] \in Run /\ run[i].attempt \in 1 .. Attempts - 1 /\ Attempts \in Nat
      /\ run' = [run EXCEPT ![i] = [run[i] EXCEPT !.attempt = run[i].attempt + 1]]
  BY RunnerAssumption DEF Again, Inv, TypeOK
<1>2. /\ [run[i] EXCEPT !.attempt = run[i].attempt + 1] \in Run
      /\ run[i].attempt + 1 # 1
  BY <1>1 DEF Run
<1>3. /\ run' \in [Items -> Run] /\ \A j \in Items \ {i} : run'[j] = run[j]
      /\ run'[i].with = run[i].with /\ run'[i].attempt # 1
  BY <1>1, <1>2 DEF Inv, TypeOK, Run
<1>4. Inv'
  BY <1>3, ZenonT(60) DEF Again, Inv, TypeOK, WorkIsKnown, Ref, RefOf, NodeOf, IndexIsBuilt, NothingIsForgotten,
     Reachable, SecretsAge, Served, Fresh, OnlyActiveFires, NewestServes
<1> QED BY <1>3, <1>4 DEF Expires

LEMMA StepKeeps ==
  ASSUME Inv, [Next]_vars
  PROVE  Inv' /\ Expires
<1>1. CASE OperatorStep
  <2>1. Inv'
    BY <1>1, SaveKeeps, EnableKeeps, CreateKeeps, DeleteKeeps, ArrivalKeeps DEF OperatorStep
  <2>2. run' = run
    BY <1>1 DEF OperatorStep, SaveWorkflow, SetWorkflowEnabled, CreateCredential,
       DeleteCredential,
       Handoff, Report
  <2> QED BY <2>1, <2>2 DEF Expires
<1>2. CASE Start \/ Receive
  BY <1>2, StartKeeps, ReceiveKeeps DEF Expires, Stale
<1>3. CASE Refused \/ FetchFails
  BY <1>3, FailsKeeps DEF Expires
<1>4. CASE Sync \/ DrainEnds \/ Answer \/ Interval \/ Close \/ Tick
  <2>1. Inv'
    BY <1>4, SyncKeeps, PlaceKeeps, AnswerKeeps, CloseKeeps, TickKeeps
  <2>2. run' = run
    BY <1>4 DEF Sync, DrainEnds, Answer, Interval, Close, Tick
  <2> QED BY <2>1, <2>2 DEF Expires
<1>5. CASE \E i \in Items : PassSeen(i) \/ Take(i) \/ Follow(i)
  <2>1. Inv'
    BY <1>5, PassSeenKeeps, TakeKeeps, FollowKeeps
  <2>2. run' = run
    BY <1>5 DEF PassSeen, Take, Follow
  <2> QED BY <2>1, <2>2 DEF Expires
<1>6. CASE \E i \in Items : Again(i)
  BY <1>6, AgainKeeps
<1>7. CASE UNCHANGED vars
  <2>1. Inv'
    BY <1>7 DEF Inv, TypeOK, WorkIsKnown, Ref, RefOf, NodeOf, IndexIsBuilt, NothingIsForgotten,
       Reachable, SecretsAge, Served, Fresh, OnlyActiveFires, NewestServes
  <2>2. run' = run
    BY <1>7
  <2> QED BY <2>1, <2>2 DEF Expires
<1> QED BY <1>1, <1>2, <1>3, <1>4, <1>5, <1>6, <1>7 DEF Next, LoopStep

LEMMA InitHolds ==
  ASSUME Init
  PROVE  Inv
<1>1. PICK d \in Defs : revs = <<d>>
  BY DEF Init
<1>2. revs \in Seq(Defs) /\ Len(revs) = 1 /\ 1 \in 1 .. MaxRevs
  BY <1>1
<1>3. inst \in Seq(Instance) /\ Len(inst) = 0 /\ DOMAIN inst = {}
  BY EmptySeq DEF Init
<1>4. loop \in Loop /\ loop.at = "poll" /\ loop.answer = None
  BY PlainAt DEF Init
<1>5. 0 \in 0 .. Stale /\ 0 \in 0 .. Ttl
  BY DEF Stale
<1>6. TypeOK
  BY <1>2, <1>3, <1>4, <1>5 DEF Init, TypeOK, Row, Cached, Run, NotRun
<1>7. WorkIsKnown /\ IndexIsBuilt
  BY <1>4 DEF Init, WorkIsKnown, IndexIsBuilt
<1>8. NothingIsForgotten
  BY <1>3, <1>4 DEF Init, NothingIsForgotten
<1>9. SecretsAge
  BY <1>4 DEF Init, SecretsAge, Served, Fresh
<1>10. OnlyActiveFires /\ NewestServes
  BY <1>3 DEF Init, OnlyActiveFires, NewestServes
<1> QED BY <1>6, <1>7, <1>8, <1>9, <1>10 DEF Inv

\* The inductive invariant of the sync of a client.
THEOREM InvCorrect == Spec => []Inv
<1>1. Inv /\ [Next]_vars => Inv'
  BY StepKeeps
<1> QED BY InitHolds, <1>1, PTL DEF Spec

\* The variables have the types that the client's structures and the rows have.
THEOREM TypeCorrect == Spec => []TypeOK
<1>1. Inv => TypeOK BY DEF Inv
<1> QED BY InvCorrect, <1>1, PTL

\* Only the installed revision's triggers fire, and nodes run its actions
\* (syncAssignments and registerWorkflowIndices).
THEOREM InstalledCorrect == Spec => []InstalledServes
<1>1. Inv => InstalledServes BY DEF Inv, InstalledServes
<1> QED BY InvCorrect, <1>1, PTL

\* The end of a client stops all it built, but what was built again (close).
THEOREM CloseCorrect == Spec => []CloseStops
<1>1. Inv => CloseStops
  <2> SUFFICES ASSUME Inv, loop.at = "closed", NEW k \in DOMAIN inst
               PROVE  /\ inst[k].on = {}
                      /\ inst[k].stopped \/ \E l \in DOMAIN inst : k < l /\ inst[l].rev = inst[k].rev
    BY DEF CloseStops
  <2>1. DOMAIN inst = 1 .. Len(inst)
    BY Sizes DEF Inv
  <2>2. inst[k].on = {}
    BY DEF Inv, OnlyActiveFires
  <2> QED BY <2>1, <2>2 DEF Inv, NothingIsForgotten
<1> QED BY InvCorrect, <1>1, PTL

\* A secret that is not served any more starts no node after its time, but attempts that
\* follow one it started before (fetchCredentialFull, retryAction.Execute).
THEOREM SecretsCorrect == Spec => StaleSecretsExpire
<1>1. Inv /\ [Next]_vars => [Expires]_vars
  BY StepKeeps
<1> QED BY InvCorrect, <1>1, PTL DEF Spec, StaleSecretsExpire, Expires

=============================================================================
