------------------------------- MODULE Runner -------------------------------
(***************************************************************************)
(* What a client has installed, and with which secrets its nodes start.    *)
(* Operators edit, disable and enable a workflow and create and delete     *)
(* credentials; the client's one loop polls the server, syncs what it has  *)
(* installed, starts the pending handoffs it got and then the nodes that   *)
(* follow a result, fetching the credentials they refer to.                *)
(*                                                                         *)
(* Workflows are synced one by one and share nothing but the cache of      *)
(* credentials, so one is enough.  A revision is a position in `revs`: the *)
(* server draws a new one for each save.                                   *)
(***************************************************************************)
EXTENDS Naturals, Sequences, FiniteSets

CONSTANTS
  Triggers, Actions,  \* ids that nodes may have
  Refs,               \* names that nodes refer to credentials by
  Secrets,            \* secrets that may be stored, each once
  Items,              \* executions that come to a node of this client
  Defs,               \* definitions that operators save
  Ttl,                \* how long a fetched secret may be used
  Delay,              \* longest way of an answer from the server
  Attempts,           \* how often a node with a retry policy is started at most
  MaxRevs, MaxToggles, MaxFaults,
  None                \* no credential, no secret, no item

Nodes == Triggers \cup Actions

\* What a definition says of a node: it is not there, it belongs to another client,
\* its action cannot be built, or it needs the credential of a name, or none.
Forms == {"absent", "elsewhere", "bad", None} \cup Refs
CanBeBuilt(form) == form \in Refs \cup {None}
IsHere(form) == form \notin {"absent", "elsewhere"}

ASSUME RunnerAssumption ==
  /\ Defs # {} /\ Defs \subseteq [Nodes -> Forms]
  /\ Ttl \in Nat \ {0} /\ Delay \in Nat /\ Attempts \in Nat \ {0}
  /\ MaxRevs \in Nat \ {0} /\ MaxToggles \in Nat /\ MaxFaults \in Nat
  /\ Triggers \cap Actions = {}
  /\ None \notin Refs \cup Secrets \cup Items
  /\ Refs \cap {"absent", "elsewhere", "bad"} = {} /\ None \notin {"absent", "elsewhere", "bad"}
  /\ "failed" \notin Secrets \cup {None}

VARIABLES
  \* the server
  revs,     \* the definitions saved so far
  enabled,
  toggles,
  row,      \* what is handed to the client, and how
  store,    \* the secret it serves for a name
  unserved, \* how long a secret has not been served, as far as it matters
  used,     \* secrets that were stored
  \* the client
  inst,     \* what was built, in order: revision, triggers that run, stopped by close
  active,   \* the installed one, or 0
  retired,  \* those that close can still reach
  index,    \* the one whose action a node has, or 0
  loop,     \* where the loop is
  todo,     \* the handoffs of the last poll that are left
  seen,     \* pendingSeen
  cache,    \* credCache: a secret and the time it is good for
  run,      \* what was started
  faults,
  skipped   \* history: handoffs to nodes that were never built

operated == <<revs, enabled, toggles, used>>
installed == <<inst, active, retired, index>>
vars == <<operated, row, store, unserved, installed, loop, todo, seen, cache, run, faults, skipped>>

Row == [node : Actions \cup {None}, status : {"none", "pending", "next", "taken", "done"}]
Instance == [rev : 1 .. MaxRevs, on : SUBSET Triggers, stopped : BOOLEAN]
Loop == [at : {"poll", "drain", "resolve", "start", "bind", "select", "closed"},
         item : Items \cup {None}, answer : Secrets \cup {None}, way : 0 .. Delay]
Cached == [secret : Secrets \cup {None}, left : 0 .. Ttl]
Run == [inst : Nat, with : Secrets \cup {None, "failed"}, attempt : 0 .. Attempts]

Stale == Ttl + Delay
Latest == revs[Len(revs)]
NotRun == [inst |-> 0, with |-> None, attempt |-> 0]
At(place, item) == [at |-> place, item |-> item, answer |-> None, way |-> 0]

Init ==
  /\ \E d \in Defs : revs = <<d>>
  /\ enabled = TRUE /\ toggles = 0
  /\ row = [i \in Items |-> [node |-> None, status |-> "none"]]
  /\ store = [r \in Refs |-> None]
  /\ unserved = [s \in Secrets |-> 0] /\ used = {}
  /\ inst = <<>> /\ active = 0 /\ retired = {}
  /\ index = [n \in Nodes |-> 0]
  /\ loop = At("poll", None) /\ todo = {} /\ seen = {}
  /\ cache = [r \in Refs |-> [secret |-> None, left |-> 0]]
  /\ run = [i \in Items |-> NotRun]
  /\ faults = 0 /\ skipped = {}

Fault == faults < MaxFaults /\ faults' = faults + 1
Held(r) == cache[r].secret # None
Fresh(r) == cache[r].left > 0
\* nodeMeta is written together with nodeAction.
RefOf(n) == IF index[n] = 0 THEN None ELSE revs[inst[index[n]].rev][n]
NodeOf(i) == row[i].node

-----------------------------------------------------------------------------
(* The operators and the server.                                           *)

SaveWorkflow(d) ==
  /\ Len(revs) < MaxRevs
  /\ revs' = Append(revs, d)
  /\ UNCHANGED <<enabled, toggles, used, row, store, unserved, installed, loop, todo, seen, cache,
                 run, faults, skipped>>

SetWorkflowEnabled ==
  /\ toggles < MaxToggles
  /\ enabled' = ~enabled /\ toggles' = toggles + 1
  /\ UNCHANGED <<revs, used, row, store, unserved, installed, loop, todo, seen, cache, run, faults,
                 skipped>>

\* CreateCredential rejects a name that has a row.
CreateCredential(r, s) ==
  /\ store[r] = None /\ s \notin used
  /\ store' = [store EXCEPT ![r] = s] /\ used' = used \cup {s}
  /\ UNCHANGED <<revs, enabled, toggles, row, unserved, installed, loop, todo, seen, cache, run,
                 faults, skipped>>

\* DeleteCredential; a restart with another key makes all rows unreadable, which only
\* deleting them mends.
DeleteCredential(r) ==
  /\ store[r] # None
  /\ store' = [store EXCEPT ![r] = None]
  /\ UNCHANGED <<operated, row, unserved, installed, loop, todo, seen, cache, run, faults, skipped>>

\* Another client's result leads to a node of this client: its row is pending.
Handoff(i, n) ==
  /\ row[i].status = "none" /\ IsHere(Latest[n])
  /\ row' = [row EXCEPT ![i] = [node |-> n, status |-> "pending"]]
  /\ UNCHANGED <<operated, store, unserved, installed, loop, todo, seen, cache,
                 run, faults, skipped>>

\* A node of this client reports, and the node after it is this client's too.
Report(i, n) ==
  /\ row[i].status = "none" /\ IsHere(Latest[n])
  /\ row' = [row EXCEPT ![i] = [node |-> n, status |-> "next"]]
  /\ UNCHANGED <<operated, store, unserved, installed, loop, todo, seen, cache,
                 run, faults, skipped>>

Served(s) == \E r \in Refs : store[r] = s
Tick ==
  /\ loop.answer # None => loop.way < Delay
  /\ loop' = IF loop.answer # None THEN [loop EXCEPT !.way = @ + 1] ELSE loop
  /\ unserved' = [s \in Secrets |-> IF s \in used /\ ~Served(s) /\ unserved[s] < Stale
                                    THEN unserved[s] + 1 ELSE unserved[s]]
  /\ cache' = [r \in Refs |-> [cache[r] EXCEPT !.left = IF @ > 0 THEN @ - 1 ELSE 0]]
  /\ UNCHANGED <<operated, row, store, installed, todo, seen, run, faults, skipped>>

-----------------------------------------------------------------------------
(* A poll: syncAssignments, and what the server lists as pending.          *)

IsServed == enabled /\ \E n \in Nodes : IsHere(Latest[n])
Forgotten(k) == retired
Silenced(k) == [inst EXCEPT ![k] = [@ EXCEPT !.on = {}]]
Built(d, nodes) == { n \in nodes : CanBeBuilt(d[n]) }

\* An older one of the same revision is written over.
Retired(k) == { j \in retired : inst[j].rev # inst[k].rev } \cup {k}

\* registerWorkflowIndices: a node that cannot be built keeps the action it had.
FirstOnly(k) == [n \in Nodes |-> IF n \in Built(Latest, Nodes) /\ index[n] = 0 THEN k ELSE index[n]]
Registered(k) == [n \in Nodes |-> IF n \in Built(Latest, Nodes) THEN k ELSE index[n]]

Install(old) ==
  /\ inst' = Append(old, [rev |-> Len(revs), on |-> Built(Latest, Triggers), stopped |-> FALSE])
  /\ active' = Len(old) + 1
  /\ index' = Registered(Len(old) + 1)

Remove ==
  /\ ~IsServed /\ active # 0
  /\ inst' = Silenced(active) /\ retired' = Retired(active) /\ active' = 0
  /\ UNCHANGED index

IsOutdated == IsServed /\ active # 0 /\ inst[active].rev # Len(revs)
KeepOld == IsOutdated /\ UNCHANGED installed
Update ==
  /\ IsOutdated
  /\ retired' = Retired(active)
  /\ Install(Silenced(active))

\* The retired one of the revision that comes back is forgotten.
InstallNew ==
  /\ IsServed /\ active = 0
  /\ retired' = { j \in retired : inst[j].rev # Len(revs) }
  /\ Install(inst)

Keep ==
  /\ IF IsServed THEN active # 0 /\ inst[active].rev = Len(revs) ELSE active = 0
  /\ UNCHANGED installed

Pending == { i \in Items : row[i].status = "pending" /\ enabled }
Sync ==
  /\ loop.at = "poll"
  /\ Remove \/ Update \/ InstallNew \/ Keep
  /\ todo' = { i \in Pending : IsHere(Latest[NodeOf(i)]) }
  /\ row' = [i \in Items |-> IF i \in Pending /\ Latest[NodeOf(i)] = "absent"
                             THEN [row[i] EXCEPT !.status = "done"] ELSE row[i]]
  /\ loop' = At("drain", None)
  /\ UNCHANGED <<operated, store, unserved, seen, cache, run, faults, skipped>>

-----------------------------------------------------------------------------
(* drainPending: the handoffs that the poll returned.                      *)

PassSeen(i) ==
  /\ loop.at = "drain" /\ i \in todo /\ i \in seen
  /\ todo' = todo \ {i}
  /\ UNCHANGED <<operated, row, store, unserved, installed, loop, seen, cache,
                 run, faults, skipped>>

Needs(n) == RefOf(n) # None /\ ~Fresh(RefOf(n))

\* A handoff to a node without an action stays seen.
Take(i) ==
  /\ loop.at = "drain" /\ i \in todo /\ i \notin seen
  /\ todo' = todo \ {i} /\ seen' = seen \cup {i}
  /\ IF Needs(NodeOf(i))
     THEN loop' = At("resolve", i) /\ UNCHANGED skipped
     ELSE IF index[NodeOf(i)] = 0
     THEN skipped' = skipped \cup {i} /\ UNCHANGED loop
     ELSE loop' = At("start", i) /\ UNCHANGED skipped
  /\ UNCHANGED <<operated, row, store, unserved, installed, cache, run, faults>>

DrainEnds ==
  /\ loop.at = "drain" /\ todo = {}
  /\ loop' = At("select", None)
  /\ UNCHANGED <<operated, row, store, unserved, installed, todo, seen, cache,
                 run, faults, skipped>>

After(i) == At(IF row[i].status = "taken" THEN "poll" ELSE "drain", None)
Execute(i, secret) ==
  /\ run' = [run EXCEPT ![i] = [inst |-> index[NodeOf(i)], with |-> secret, attempt |-> 1]]
  /\ loop' = After(i)

\* executeNode looks at the cache again and, when the secret has expired, fetches it
\* again; without an action it returns.
Start ==
  /\ loop.at = "start"
  /\ LET i == loop.item
         n == NodeOf(i)
     IN CASE index[n] = 0 -> loop' = After(i) /\ UNCHANGED run
          [] index[n] # 0 /\ Needs(n) -> loop' = At("bind", i) /\ UNCHANGED run
          [] OTHER -> Execute(i, IF RefOf(n) = None THEN None ELSE cache[RefOf(n)].secret)
  /\ UNCHANGED <<operated, row, store, unserved, installed, todo, seen, cache, faults, skipped>>

\* The goroutine of a node with a retry policy starts the action again, some backoff
\* later, with the inputs it was given: the secret is not fetched again.  Only close
\* stops it.
Again(i) ==
  /\ loop.at # "closed" /\ run[i].attempt \in 1 .. Attempts - 1
  /\ run' = [run EXCEPT ![i].attempt = @ + 1]
  /\ UNCHANGED <<operated, row, store, unserved, installed, loop, todo, seen, cache, faults, skipped>>

-----------------------------------------------------------------------------
(* fetchCredentialFull, for a handoff ("resolve") or for a start ("bind"). *)

IsFetching == loop.at \in {"resolve", "bind"}
Ref == RefOf(NodeOf(loop.item))

Answer ==
  /\ IsFetching /\ loop.answer = None /\ store[Ref] # None
  /\ loop' = [loop EXCEPT !.answer = store[Ref], !.way = 0]
  /\ UNCHANGED <<operated, row, store, unserved, installed, todo, seen, cache,
                 run, faults, skipped>>

Receive ==
  /\ IsFetching /\ loop.answer # None
  /\ cache' = [cache EXCEPT ![Ref] = [secret |-> loop.answer, left |-> Ttl]]
  /\ IF loop.at = "resolve" THEN loop' = At("start", loop.item) /\ UNCHANGED run
                            ELSE Execute(loop.item, loop.answer)
  /\ UNCHANGED <<operated, row, store, unserved, installed, todo, seen, faults, skipped>>

GivesUp ==
  /\ IF loop.at = "resolve" THEN loop' = At("drain", None) /\ UNCHANGED run
                            ELSE Execute(loop.item, "failed")
  /\ UNCHANGED <<operated, row, store, unserved, installed, todo, seen, cache, skipped>>

\* The handoff is left to the next poll; a node that starts is told of the failure.
Fails ==
  /\ IF loop.at = "resolve"
     THEN /\ seen' = seen \ {loop.item} /\ loop' = At("drain", None)
          /\ UNCHANGED run
     ELSE Execute(loop.item, "failed") /\ UNCHANGED seen
  /\ UNCHANGED <<operated, row, store, unserved, installed, todo, cache, skipped>>

Refused == IsFetching /\ loop.answer = None /\ store[Ref] = None /\ Fails /\ UNCHANGED faults
FetchFails == IsFetching /\ Fault /\ Fails

-----------------------------------------------------------------------------
(* The rest of the loop: a result was posted, or the poll interval is over. *)

Follow(i) ==
  /\ loop.at = "select" /\ row[i].status = "next"
  /\ row' = [row EXCEPT ![i].status = "taken"]
  /\ loop' = At("start", i)
  /\ UNCHANGED <<operated, store, unserved, installed, todo, seen, cache, run, faults, skipped>>

Interval ==
  /\ loop.at = "select"
  /\ loop' = At("poll", None)
  /\ UNCHANGED <<operated, row, store, unserved, installed, todo, seen, cache,
                 run, faults, skipped>>

\* close stops all that it can reach.
Reachable == retired \cup (IF active = 0 THEN {} ELSE {active})
Close ==
  /\ loop.at \in {"poll", "select"}
  /\ inst' = [k \in 1 .. Len(inst) |->
                IF k \in Reachable THEN [inst[k] EXCEPT !.on = {}, !.stopped = TRUE] ELSE inst[k]]
  /\ loop' = At("closed", None)
  /\ UNCHANGED <<operated, row, store, unserved, active, retired, index, todo, seen, cache, run,
                 faults, skipped>>

OperatorStep ==
  \/ \E d \in Defs : SaveWorkflow(d)
  \/ SetWorkflowEnabled
  \/ \E r \in Refs, s \in Secrets : CreateCredential(r, s)
  \/ \E r \in Refs : DeleteCredential(r)
  \/ \E i \in Items, n \in Actions : Handoff(i, n) \/ Report(i, n)

LoopStep ==
  \/ Sync \/ DrainEnds \/ Start \/ Answer \/ Receive \/ Refused \/ Interval
  \/ \E i \in Items : PassSeen(i) \/ Take(i) \/ Follow(i)

Next == OperatorStep \/ LoopStep \/ FetchFails \/ Close \/ Tick \/ \E i \in Items : Again(i)

\* The loop is one goroutine that does not stop while the client runs, and the server
\* answers the requests that do not fail.
Fairness == WF_vars(LoopStep)
Spec == Init /\ [][Next]_vars
FairSpec == Spec /\ Fairness

-----------------------------------------------------------------------------
(* What the client promises.                                               *)

TypeOK ==
  /\ revs \in Seq(Defs) /\ Len(revs) \in 1 .. MaxRevs
  /\ enabled \in BOOLEAN /\ toggles \in 0 .. MaxToggles
  /\ row \in [Items -> Row]
  /\ store \in [Refs -> Secrets \cup {None}] /\ used \subseteq Secrets
  /\ unserved \in [Secrets -> 0 .. Stale]
  /\ inst \in Seq(Instance) /\ \A k \in 1 .. Len(inst) : inst[k].rev <= Len(revs)
  /\ active \in 0 .. Len(inst) /\ retired \subseteq 1 .. Len(inst)
  /\ index \in [Nodes -> 0 .. Len(inst)]
  /\ loop \in Loop
  /\ todo \subseteq Items /\ seen \subseteq Items /\ skipped \subseteq Items
  /\ cache \in [Refs -> Cached]
  /\ run \in [Items -> Run]
  /\ faults \in 0 .. MaxFaults

\* The triggers that fire are those of the installed workflow: a disabled or replaced
\* one has none, whatever the order of saves, polls and failures.
OnlyActiveFires ==
  /\ \A k \in DOMAIN inst : inst[k].on # {} => k = active /\ loop.at # "closed"
  /\ active # 0 /\ loop.at # "closed" => inst[active].on = Built(revs[inst[active].rev], Triggers)

\* A node of the installed workflow runs that workflow's action, unless this one could
\* not be built.
NewestServes ==
  active # 0 => \A n \in Nodes : CanBeBuilt(revs[inst[active].rev][n]) => index[n] = active

\* What is installed is what serves: its triggers fire and no others do, and its nodes
\* start with its actions.
InstalledServes == OnlyActiveFires /\ NewestServes

\* When the client ends, every action it ever built has been stopped; only those of a
\* revision that was built again are out of reach.
CloseStops ==
  loop.at = "closed" =>
    \A k \in DOMAIN inst :
      /\ inst[k].on = {}
      /\ inst[k].stopped \/ \E l \in DOMAIN inst : k < l /\ inst[l].rev = inst[k].rev

\* A node never starts with a secret that the server stopped serving longer ago than
\* the secret may be held, and the answer that brought it was on its way.  The attempts
\* that a retry policy makes after the first are not bounded so: they start with the
\* secret of the first, and with no other.
StaleSecretsExpire ==
  [][\A i \in Items, s \in Secrets :
       run'[i] # run[i] /\ run'[i].with = s =>
         IF run'[i].attempt = 1 THEN unserved[s] < Ttl + Delay ELSE run[i].with = s]_vars

\* What is installed catches up with what the server serves.
IsCurrent == IF IsServed THEN active # 0 /\ inst[active].rev = Len(revs) ELSE active = 0
CatchesUp == []<>(IsCurrent \/ loop.at = "closed")

\* A handoff whose credential could not be fetched is tried again until it runs; only
\* one that came to a node without an action is not.
Deliverable(i) ==
  /\ row[i].status = "pending" /\ enabled
  /\ LET form == Latest[NodeOf(i)]
     IN CanBeBuilt(form) /\ (form \in Refs => store[form] # None)
HandoffsStart ==
  \A i \in Items :
    []<>(run[i] # NotRun \/ ~Deliverable(i) \/ i \in skipped \/ loop.at = "closed")

-----------------------------------------------------------------------------
(* Why the promises hold.                                                  *)

\* What is worked on was handed over, and refers to a credential if one is fetched.
WorkIsKnown ==
  /\ \A i \in Items : row[i].status # "none" => row[i].node \in Actions
  /\ \A i \in todo : row[i].status # "none"
  /\ loop.at \in {"resolve", "start", "bind"} =>
       loop.item \in Items /\ row[loop.item].status # "none"
  /\ loop.at \in {"resolve", "bind"} => Ref # None
  /\ loop.at \notin {"resolve", "bind"} => loop.answer = None

\* An action that a node has was built from the definition it belongs to.
IndexIsBuilt ==
  \A n \in Nodes : index[n] # 0 => CanBeBuilt(revs[inst[index[n]].rev][n])

\* The installed one is the last that was built; what close cannot reach was built
\* again, and what it reached is stopped.
NothingIsForgotten ==
  /\ active \in {0, Len(inst)}
  /\ \A k \in 1 .. Len(inst) :
       k \in Reachable \/ \E l \in 1 .. Len(inst) : k < l /\ inst[l].rev = inst[k].rev
  /\ loop.at = "closed" => \A k \in Reachable : inst[k].stopped

\* Time passes for a secret in the cache, or on its way there, as it does for one that
\* is not served any more.
SecretsAge ==
  /\ \A s \in Secrets : s \notin used \/ Served(s) => unserved[s] = 0
  /\ \A s \in Secrets : Served(s) => s \in used
  /\ \A r \in Refs :
       Fresh(r) => /\ cache[r].secret \in Secrets
                   /\ unserved[cache[r].secret] + cache[r].left <= Stale
  /\ loop.answer \in Secrets => unserved[loop.answer] <= loop.way

Inv ==
  /\ TypeOK /\ WorkIsKnown /\ IndexIsBuilt /\ NothingIsForgotten /\ SecretsAge
  /\ OnlyActiveFires /\ NewestServes

=============================================================================
