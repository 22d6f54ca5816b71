------------------------------- MODULE Dispatch -------------------------------
(***************************************************************************)
(* How one workflow advances across remote clients.                        *)
(*                                                                         *)
(* A client runs its nodes, posts every result to the server, and executes *)
(* the downstream nodes the server hands back.  The server keeps the nodes *)
(* of other clients as rows of the node_assignment table, which their      *)
(* owners pick up by polling.  One handler of POST /api/results at a time  *)
(* is inside the critical section of resultMu; polls, imports of a new     *)
(* definition and restarts interleave with it.                             *)
(*                                                                         *)
(* A definition is reduced to what dispatch reads of it: a function from   *)
(* the nodes it has to the clients each node is assigned to (the relation  *)
(* NodeAssignedTo).  The server holds two of them: the row in the database *)
(* and the copy it registered when it started.                             *)
(***************************************************************************)
EXTENDS Naturals, Sequences

CONSTANTS
  Clients,      \* registered remote clients of the workflow's tenant
  Nodes,        \* node ids that may occur in the workflow
  Trigger,      \* the trigger node
  Edges,        \* Edges[n]: the nodes named by the conditions of n
  Defs,         \* the definitions an operator may import
  Broken,       \* nodes whose constructor rejects its arguments on a client
  TriggerKind,  \* "timer" (cron, filechange, filewatch) or "webhook"
  MaxExecs,     \* bound: execution ids minted
  Bounds        \* bound: how often each event of Budget may happen

\* Events nothing in the code limits: a trigger firing, an import or an
\* enable/disable toggle, a request or reply lost on the network, a database
\* query or write that fails and is passed over, a failed credential fetch, a
\* restart of a client, a restart of the server.
Budget == {"fires", "edits", "drops", "queries", "fetches", "crashes", "reboots"}

Def == UNION { [D -> SUBSET Clients] : D \in SUBSET Nodes }

ASSUME DispatchAssumption ==
  /\ Trigger \in Nodes
  /\ Edges \in [Nodes -> SUBSET Nodes]
  /\ Defs \subseteq Def
  /\ Defs # {}
  /\ Broken \subseteq Nodes
  /\ TriggerKind \in {"timer", "webhook"}
  /\ MaxExecs \in Nat
  /\ Bounds \in [Budget -> Nat]

NoExec == 0     \* an empty execution_id
Execs == NoExec .. MaxExecs
NoRev == 0      \* the workflow is not installed on the client
NoDef == [n \in {} |-> {}]

VARIABLES
  \* the database
  dbDef,      \* workflow row: the saved definition
  dbRev,      \* workflow row: its revision
  enabled,    \* workflow row: enabled
  rows,       \* node_assignment: [id, exec, node, status], and the result that queued it
  results,    \* what was ingested: [id, client, exec, node, nexts], stored or not
  \* the server process
  memDef,     \* the definition registered by AddWorkflow
  inbox,      \* results posted and not yet inside resultMu
  held,       \* the handlers inside resultMu
  \* the client processes
  phase,      \* where the polling loop of a client is
  mail,       \* the poll response being processed
  rev,        \* installed revision
  trig,       \* execution id given to the running trigger, or NoExec
  installed,  \* nodeAction: the nodes the process can execute
  seen,       \* pendingSeen
  jobs,       \* nodes executing or with a result in the events channel
  \* history and bounds
  log,        \* ids of the pending rows this process has started
  handed,     \* <<result, node>> returned to and received by the reporting client
  lost,       \* <<result, node>> that a named failure took away
  removed,    \* nodes some saved definition has been without
  nextExec, nextRow, nextResult, used

server == <<dbDef, dbRev, enabled, rows, results, memDef, inbox, held>>
client == <<phase, mail, rev, trig, installed, seen, jobs>>
history == <<log, handed, lost, removed>>
ids == <<nextExec, nextRow, nextResult>>
vars == <<server, client, history, ids, used>>

-----------------------------------------------------------------------------
Phases == {"idle", "polled", "draining", "posting"}
NoMail == [nodes |-> {}, rev |-> NoRev, rows |-> {}]
Row == [id : Nat, exec : Execs, node : Nodes, status : {"pending", "done"}, by : Nat]
Post == [id : Nat, client : Clients, exec : Execs, node : Nodes, live : BOOLEAN]
Handler == [id : Nat, client : Clients, local : Execs, exec : Execs, node : Nodes,
            live : BOOLEAN, stage : {"own", "queue", "create"},
            owned : SUBSET Nodes, queue : SUBSET Nodes, next : Nodes]
Result == [id : Nat, client : Clients, exec : Execs, node : Nodes, nexts : SUBSET Nodes,
           stored : BOOLEAN]
Mail == [nodes : SUBSET Nodes, rev : Nat, rows : SUBSET Row]
NoJobs == [k \in Execs \X Nodes |-> 0]

\* One more use of the bounded budget b.
Spend(b) == /\ used[b] < Bounds[b]
            /\ used' = [used EXCEPT ![b] = @ + 1]

\* The rows of one (workflow, execution, node), and the row Only() returns.
RowsOf(exec, node) == { r \in rows : r.exec = exec /\ r.node = node }
Only(exec, node) == \E r \in rows : RowsOf(exec, node) = {r}

AssignedNodes(c, def) == { n \in DOMAIN def : c \in def[n] }

Init ==
  /\ dbDef \in Defs /\ memDef = dbDef
  /\ dbRev = 1 /\ enabled = TRUE
  /\ rows = {} /\ results = {} /\ inbox = {} /\ held = {}
  /\ phase = [c \in Clients |-> "idle"]
  /\ mail = [c \in Clients |-> NoMail]
  /\ rev = [c \in Clients |-> NoRev]
  /\ trig = [c \in Clients |-> NoExec]
  /\ installed = [c \in Clients |-> {}]
  /\ seen = [c \in Clients |-> {}]
  /\ jobs = [c \in Clients |-> NoJobs]
  /\ log = [c \in Clients |-> <<>>]
  /\ handed = {} /\ lost = {} /\ removed = Nodes \ DOMAIN dbDef
  /\ nextExec = 1 /\ nextRow = 1 /\ nextResult = 1
  /\ used = [b \in Budget |-> 0]

-----------------------------------------------------------------------------
(* The server: POST /api/results.                                          *)

\* resultMu can be taken.
Unlocked == TRUE
Free == held = {}

\* The definition IngestResult resolves a node in: the registered one, then
\* the database row (disabled workflows included).
DefFor(node) == IF node \in DOMAIN memDef THEN memDef ELSE dbDef

\* IngestResult answers "unknown action_id": the client gets a 404 and drops
\* the result.
RejectUnknown(p) ==
  /\ p \in inbox /\ Free
  /\ p.node \notin DOMAIN DefFor(p.node)
  /\ inbox' = inbox \ {p}
  /\ phase' = IF p.live THEN [phase EXCEPT ![p.client] = "idle"] ELSE phase
  /\ UNCHANGED <<dbDef, dbRev, enabled, rows, results, memDef, held, mail, rev,
                 trig, installed, seen, jobs, history, ids, used>>

\* The execution id a result is stored under: an action's result keeps an
\* empty one, a trigger's gets a fresh one.
Mints(p) == p.node = Trigger /\ p.exec = NoExec

\* dispatchNexts for a remote executor: a node it is assigned to goes back to
\* it, any other (or one missing from the definition) is routed.
OwnedByAll(c, def, nexts) == nexts \cap DOMAIN def
OwnedBy(c, def, nexts) == nexts \cap AssignedNodes(c, def)

RoutedKnown(node, nexts, owned) == (nexts \ owned) \cap DOMAIN DefFor(node)
Routed(node, nexts, owned) == nexts \ owned

\* Enter resultMu, evaluate the conditions of the node, save the result and
\* decide the owner of every next.  saveResult logs what keeps it from saving (no
\* directory, no file, no row) and returns nothing: the dispatch goes on.
Accept(p, nexts) ==
  /\ p \in inbox /\ Free
  /\ p.node \in DOMAIN DefFor(p.node)
  /\ nexts \subseteq Edges[p.node]
  /\ Mints(p) => nextExec <= MaxExecs
  /\ LET exec == IF Mints(p) THEN nextExec ELSE p.exec
         owned == OwnedBy(p.client, DefFor(p.node), nexts)
     IN /\ nextExec' = IF Mints(p) THEN nextExec + 1 ELSE nextExec
        /\ \E stored \in BOOLEAN :
             /\ IF stored THEN UNCHANGED used ELSE Spend("queries")
             /\ results' = results \cup
                  {[id |-> p.id, client |-> p.client, exec |-> exec, node |-> p.node,
                    nexts |-> nexts, stored |-> stored]}
        /\ held' = held \cup
             {[id |-> p.id, client |-> p.client, local |-> p.exec, exec |-> exec,
               node |-> p.node, live |-> p.live, stage |-> "own", owned |-> owned,
               queue |-> Routed(p.node, nexts, owned), next |-> p.node]}
  /\ inbox' = inbox \ {p}
  /\ UNCHANGED <<dbDef, dbRev, enabled, rows, memDef, client, history, nextRow, nextResult>>

Advance(h, changed) == held' = (held \ {h}) \cup {changed}

\* The rows once those of S are done.
Retired(S) == { IF r \in S THEN [r EXCEPT !.status = "done"] ELSE r : r \in rows }

\* CompleteNodeAssignment: the one row of the key becomes done; none, or more
\* than one (Only fails), leaves the table as it is.
Completed(exec, node) == Retired(IF Only(exec, node) THEN RowsOf(exec, node) ELSE {})

\* The reporting node's own row.  Without an execution id nothing of the
\* dispatch is persisted.
CompleteOwn(h) ==
  /\ h \in held /\ h.stage = "own"
  /\ IF h.exec = NoExec
     THEN /\ Advance(h, [h EXCEPT !.stage = "queue", !.queue = {}])
          /\ lost' = lost \cup ({h.id} \X h.queue)
          /\ UNCHANGED <<rows, used>>
     ELSE /\ Advance(h, [h EXCEPT !.stage = "queue"])
          /\ \/ rows' = Completed(h.exec, h.node) /\ UNCHANGED used
             \/ Spend("queries") /\ UNCHANGED rows
          /\ UNCHANGED lost
  /\ UNCHANGED <<dbDef, dbRev, enabled, results, memDef, inbox, client, log, handed,
                 removed, ids>>

\* EnqueueNodeAssignment, first statement: an existing row, pending or done,
\* is kept and nothing is queued.
CheckRow(h, n) ==
  /\ h \in held /\ h.stage = "queue" /\ n \in h.queue
  /\ IF RowsOf(h.exec, n) # {}
     THEN Advance(h, [h EXCEPT !.queue = @ \ {n}])
     ELSE Advance(h, [h EXCEPT !.stage = "create", !.next = n])
  /\ UNCHANGED <<dbDef, dbRev, enabled, rows, results, memDef, inbox, client, history,
                 ids, used>>

\* ... and the second: insert a pending row.
CreateRow(h) ==
  /\ h \in held /\ h.stage = "create"
  /\ rows' = rows \cup
       {[id |-> nextRow, exec |-> h.exec, node |-> h.next, status |-> "pending",
         by |-> h.id]}
  /\ nextRow' = nextRow + 1
  /\ Advance(h, [h EXCEPT !.stage = "queue", !.queue = @ \ {h.next}])
  /\ UNCHANGED <<dbDef, dbRev, enabled, results, memDef, inbox, client, history,
                 nextExec, nextResult, used>>

\* The look-up or the insert fails: logged, and the loop goes on with the next node.
CreateFails(h) ==
  /\ h \in held /\ h.stage = "create"
  /\ Spend("queries")
  /\ Advance(h, [h EXCEPT !.stage = "queue", !.queue = @ \ {h.next}])
  /\ lost' = lost \cup {<<h.id, h.next>>}
  /\ UNCHANGED <<dbDef, dbRev, enabled, rows, results, memDef, inbox, client, log,
                 handed, removed, ids>>

\* filterNextsForExecutor: the second guard, on the saved definition, which lets
\* everything pass when it cannot be read.
Filtered(h) ==
  { n \in h.owned : n \in DOMAIN dbDef => h.client \in dbDef[n] }

\* executeNode, once per node: a node the process has no action for is skipped.
Started(c, exec, nodes) ==
  [k \in Execs \X Nodes |->
     IF k[1] = exec /\ k[2] \in nodes \cap installed[c] THEN jobs[c][k] + 1 ELSE jobs[c][k]]

\* Leave resultMu and answer.  The client goes on under the execution id it
\* posted, not the one the server stored.
Answer(h, kept) ==
  LET runs == IF h.live THEN kept \cap installed[h.client] ELSE {}
  IN /\ handed' = handed \cup ({h.id} \X runs)
     /\ lost' = lost \cup ({h.id} \X (h.owned \ runs))
     /\ IF h.live
        THEN /\ jobs' = [jobs EXCEPT ![h.client] = Started(h.client, h.local, kept)]
             /\ phase' = [phase EXCEPT ![h.client] = "idle"]
        ELSE UNCHANGED <<jobs, phase>>

Finish(h) ==
  /\ h \in held /\ h.stage = "queue" /\ h.queue = {}
  /\ held' = held \ {h}
  /\ \/ Answer(h, Filtered(h)) /\ UNCHANGED used
     \/ Answer(h, h.owned) /\ Spend("queries")
  /\ UNCHANGED <<dbDef, dbRev, enabled, rows, results, memDef, inbox, mail, rev, trig,
                 installed, seen, log, removed, ids>>

-----------------------------------------------------------------------------
(* The server: everything else that touches the shared rows.               *)

\* ListPendingAssignmentsForClient: of the pending rows, those delivered to the
\* client, and those dropped because the saved definition has no such node.
Pending == { r \in rows : r.status = "pending" }
Due(nodes) == { r \in Pending : r.node \in nodes }
StaleForClient(nodes) == { r \in Pending : enabled /\ r.node \notin nodes }
Stale(nodes) == { r \in Pending : enabled /\ r.node \notin DOMAIN dbDef }

\* GET /api/clients/{id}/assignments.
Poll(c) ==
  /\ phase[c] = "idle"
  /\ LET nodes == IF enabled THEN AssignedNodes(c, dbDef) ELSE {}
     IN /\ mail' = [mail EXCEPT ![c] =
                      [nodes |-> nodes, rev |-> dbRev, rows |-> Due(nodes)]]
        /\ rows' = Retired({ r \in Stale(nodes) : Only(r.exec, r.node) })
  /\ phase' = [phase EXCEPT ![c] = "polled"]
  /\ UNCHANGED <<dbDef, dbRev, enabled, results, memDef, inbox, held, rev, trig,
                 installed, seen, jobs, history, ids, used>>

\* ImportWorkflow over an existing id: only the row changes.
Import(def) ==
  /\ def \in Defs /\ def # dbDef
  /\ Spend("edits")
  /\ dbDef' = def
  /\ dbRev' = dbRev + 1
  /\ removed' = removed \cup (Nodes \ DOMAIN def)
  /\ UNCHANGED <<enabled, rows, results, memDef, inbox, held, client, log, handed,
                 lost, ids>>

\* setWorkflowEnabled: the flag alone, not the revision.
Toggle ==
  /\ Spend("edits")
  /\ enabled' = ~enabled
  /\ UNCHANGED <<dbDef, dbRev, rows, results, memDef, inbox, held, client, history,
                 ids>>

\* The server process dies and a new one loads the enabled workflow.  Every
\* request it held fails at the client, which drops the result.
ServerRestart ==
  /\ Spend("reboots")
  /\ memDef' = IF enabled THEN dbDef ELSE NoDef
  /\ inbox' = {} /\ held' = {}
  /\ lost' = lost \cup UNION { {h.id} \X (h.queue \cup h.owned) : h \in held }
  /\ phase' = [c \in Clients |-> IF phase[c] = "posting" THEN "idle" ELSE phase[c]]
  /\ UNCHANGED <<dbDef, dbRev, enabled, rows, results, mail, rev, trig, installed,
                 seen, jobs, log, handed, removed, ids>>

-----------------------------------------------------------------------------
(* A client: one iteration of the loop polls, synchronises its workflows,  *)
(* drains the pending rows and then takes at most one event.               *)

\* syncAssignments.  A workflow that is gone stops its trigger; a new revision
\* stops the old trigger and builds every node again, and a timer trigger is
\* started with one execution id for all the results it will ever emit.
Sync(c) ==
  /\ phase[c] = "polled"
  /\ LET nodes == mail[c].nodes \ Broken
         absent == mail[c].nodes = {}
         same == mail[c].rev = rev[c]
         starts == ~absent /\ ~same /\ Trigger \in nodes
     IN /\ starts => nextExec <= MaxExecs
        /\ rev' = [rev EXCEPT ![c] = IF absent THEN NoRev ELSE mail[c].rev]
        /\ trig' = [trig EXCEPT ![c] = IF starts THEN nextExec
                                       ELSE IF absent \/ ~same THEN NoExec ELSE @]
        /\ nextExec' = IF starts THEN nextExec + 1 ELSE nextExec
        /\ installed' = [installed EXCEPT ![c] = IF same THEN @ ELSE @ \cup nodes]
  /\ phase' = [phase EXCEPT ![c] = "draining"]
  /\ UNCHANGED <<server, mail, seen, jobs, history, nextRow, nextResult, used>>

\* drainPending, one row of the response, oldest first.
NextRow(c, r) ==
  /\ phase[c] = "draining"
  /\ r \in mail[c].rows
  /\ \A other \in mail[c].rows : r.id <= other.id
  /\ mail' = [mail EXCEPT ![c].rows = @ \ {r}]

\* The ids in pendingSeen once a row is started.
Marked(c, r) == seen[c] \cup {r.id}
Released(c, r) == seen[c] \ {r.id}

\* A row this process has not met is marked and its node executed; a node
\* without an action is marked all the same, and skipped.
DrainRow(c, r) ==
  /\ NextRow(c, r)
  /\ IF r.id \in seen[c]
     THEN UNCHANGED <<seen, jobs, log>>
     ELSE /\ seen' = [seen EXCEPT ![c] = Marked(c, r)]
          /\ jobs' = [jobs EXCEPT ![c] = Started(c, r.exec, {r.node})]
          /\ log' = IF r.node \in installed[c]
                    THEN [log EXCEPT ![c] = Append(@, r.id)] ELSE log
  /\ UNCHANGED <<server, phase, rev, trig, installed, handed, lost, removed, ids, used>>

\* The node's credential cannot be fetched: the mark is taken back.
DeferRow(c, r) ==
  /\ NextRow(c, r)
  /\ r.id \notin seen[c]
  /\ Spend("fetches")
  /\ seen' = [seen EXCEPT ![c] = Released(c, r)]
  /\ UNCHANGED <<server, phase, rev, trig, installed, jobs, history, ids>>

Drained(c) == phase[c] = "draining" /\ mail[c].rows = {}

\* The select takes a result from the events channel and posts it.  It is numbered
\* here: every request that arrives gets a result_id, whatever it says.
TakeEvent(c, k) ==
  /\ Drained(c)
  /\ jobs[c][k] > 0
  /\ jobs' = [jobs EXCEPT ![c][k] = @ - 1]
  /\ inbox' = inbox \cup
       {[id |-> nextResult, client |-> c, exec |-> k[1], node |-> k[2], live |-> TRUE]}
  /\ nextResult' = nextResult + 1
  /\ phase' = [phase EXCEPT ![c] = "posting"]
  /\ UNCHANGED <<dbDef, dbRev, enabled, rows, results, memDef, held, mail, rev, trig,
                 installed, seen, history, nextExec, nextRow, used>>

\* The poll interval passes first.
IdleTick(c) ==
  /\ Drained(c)
  /\ phase' = [phase EXCEPT ![c] = "idle"]
  /\ UNCHANGED <<server, mail, rev, trig, installed, seen, jobs, history, ids, used>>

\* The running trigger emits a result.
Fire(c) ==
  /\ trig[c] # NoExec
  /\ Spend("fires")
  /\ LET k == <<IF TriggerKind = "timer" THEN trig[c] ELSE NoExec, Trigger>>
     IN jobs' = [jobs EXCEPT ![c][k] = @ + 1]
  /\ UNCHANGED <<server, phase, mail, rev, trig, installed, seen, history, ids>>

-----------------------------------------------------------------------------
(* Failures between a client and the server.                               *)

\* Nobody waits any more for the answer to what client c posted.
Deaf(c, S) == { IF x.client = c THEN [x EXCEPT !.live = FALSE] ELSE x : x \in S }

\* A post that never arrives: the client logs the error and drops the result.
LoseRequest(p) ==
  /\ p \in inbox /\ p.live
  /\ Spend("drops")
  /\ inbox' = inbox \ {p}
  /\ phase' = [phase EXCEPT ![p.client] = "idle"]
  /\ UNCHANGED <<dbDef, dbRev, enabled, rows, results, memDef, held, mail, rev, trig,
                 installed, seen, jobs, history, ids>>

\* The connection breaks while the server works on the post.
LoseReply(c) ==
  /\ phase[c] = "posting"
  /\ Spend("drops")
  /\ inbox' = Deaf(c, inbox) /\ held' = Deaf(c, held)
  /\ phase' = [phase EXCEPT ![c] = "idle"]
  /\ UNCHANGED <<dbDef, dbRev, enabled, rows, results, memDef, mail, rev, trig,
                 installed, seen, jobs, history, ids>>

\* The client process dies and starts again with the saved identity.
ClientRestart(c) ==
  /\ Spend("crashes")
  /\ phase' = [phase EXCEPT ![c] = "idle"]
  /\ mail' = [mail EXCEPT ![c] = NoMail]
  /\ rev' = [rev EXCEPT ![c] = NoRev]
  /\ trig' = [trig EXCEPT ![c] = NoExec]
  /\ installed' = [installed EXCEPT ![c] = {}]
  /\ seen' = [seen EXCEPT ![c] = {}]
  /\ jobs' = [jobs EXCEPT ![c] = NoJobs]
  /\ log' = [log EXCEPT ![c] = <<>>]
  /\ inbox' = Deaf(c, inbox) /\ held' = Deaf(c, held)
  /\ UNCHANGED <<dbDef, dbRev, enabled, rows, results, memDef, handed, lost, removed,
                 ids>>

-----------------------------------------------------------------------------
HandlerStep ==
  \/ \E p \in inbox : RejectUnknown(p)
  \/ \E p \in inbox : \E nexts \in SUBSET Edges[p.node] : Accept(p, nexts)
  \/ \E h \in held : CompleteOwn(h)
  \/ \E h \in held : \E n \in h.queue : CheckRow(h, n)
  \/ \E h \in held : CreateRow(h)
  \/ \E h \in held : Finish(h)

ClientStep(c) ==
  \/ Poll(c)
  \/ Sync(c)
  \/ \E r \in mail[c].rows : DrainRow(c, r)
  \/ \E r \in mail[c].rows : DeferRow(c, r)
  \/ \E k \in Execs \X Nodes : TakeEvent(c, k)
  \/ IdleTick(c)
  \/ Fire(c)

Operator == Toggle \/ \E def \in Defs : Import(def)

Failure ==
  \/ \E h \in held : CreateFails(h)
  \/ \E p \in inbox : LoseRequest(p)
  \/ \E c \in Clients : LoseReply(c)
  \/ \E c \in Clients : ClientRestart(c)
  \/ ServerRestart

Next == HandlerStep \/ (\E c \in Clients : ClientStep(c)) \/ Operator \/ Failure

Spec == Init /\ [][Next]_vars

\* Handlers run to their end and the polling loop keeps turning.  The events
\* channel is FIFO and the select never prefers the timer to a ready result,
\* so a finished node is taken although the loop keeps polling in between;
\* triggers, the operator and failures owe nothing.
Fairness ==
  /\ WF_vars(HandlerStep)
  /\ \A c \in Clients :
       /\ WF_vars(Poll(c) \/ Sync(c) \/ IdleTick(c))
       /\ WF_vars(\E r \in mail[c].rows : DrainRow(c, r))
       /\ SF_vars(\E k \in Execs \X Nodes : TakeEvent(c, k))

FairSpec == Spec /\ Fairness

-----------------------------------------------------------------------------
(* What dispatch promises.                                                 *)

DatabaseType ==
  /\ dbDef \in Def /\ dbRev \in Nat /\ enabled \in BOOLEAN
  /\ rows \subseteq Row /\ results \subseteq Result /\ nextRow \in Nat

ProcessType == memDef \in Def /\ inbox \subseteq Post /\ held \subseteq Handler

ClientType ==
  /\ phase \in [Clients -> Phases]
  /\ mail \in [Clients -> Mail]
  /\ rev \in [Clients -> Nat] /\ trig \in [Clients -> Execs]
  /\ installed \in [Clients -> SUBSET Nodes]
  /\ seen \in [Clients -> SUBSET Nat]
  /\ jobs \in [Clients -> [Execs \X Nodes -> Nat]]

HistoryType ==
  /\ log \in [Clients -> Seq(Nat)]
  /\ handed \subseteq Nat \X Nodes
  /\ lost \subseteq Nat \X Nodes
  /\ removed \subseteq Nodes
  /\ nextExec \in 1 .. MaxExecs + 1 /\ nextResult \in Nat
  /\ used \in [Budget -> Nat]

TypeOK == DatabaseType /\ ProcessType /\ ClientType /\ HistoryType

\* A (workflow, execution, node) never gets a second row, although enqueueing
\* is a query followed by an insert outside any transaction and the table has
\* no unique index: Only() would fail on the key from then on, its row could
\* never be completed and its node would be delivered again after every restart.
OneRowPerKey ==
  \A r, s \in rows : r.exec = s.exec /\ r.node = s.node => r = s

\* A row is there because a result of the same execution chose its node: nothing a
\* poll, an import or a restart does invents work.
RowIsHandoff ==
  \A r \in rows : \E res \in results :
    res.id = r.by /\ res.exec = r.exec /\ r.node \in res.nexts

\* A row is retired only by the result of its own node in its own execution, or
\* because the node was taken out of the definition.
DoneIsJustified ==
  \A r \in rows : r.status = "done" =>
    \/ \E res \in results : res.exec = r.exec /\ res.node = r.node
    \/ r.node \in removed

\* What was ingested is also stored, unless its save failed, which nobody is told:
\* the rows it earned may then be all that is left of it.
SavedOrFailed == \A res \in results : res.stored \/ used["queries"] > 0

\* So every row is earned, however polls, imports and failures come between: by a
\* result that was ingested, and that is stored as long as no save has failed.
RowsAreEarned == RowIsHandoff /\ DoneIsJustified /\ SavedOrFailed

\* Rows survive every restart and import, and a done row is never pending again.
RowsOnlyAdvance ==
  [][\A r \in rows : r \in rows' \/ [r EXCEPT !.status = "done"] \in rows']_vars

\* The next n of a result has a row of its own.
Queued(res, n) == \E r \in RowsOf(res.exec, n) : r.by = res.id

\* Its execution had one already, for another result: of another predecessor (a
\* join), or of the same node, reported again.  A timer on a client reports every
\* firing under one execution id, so from its second firing on all handoffs to
\* other clients are such: nothing is queued for them, and if the row is done by
\* then nothing runs for them.
FellTogether(res, n) ==
  \E first \in results : /\ first.id # res.id /\ first.exec = res.exec
                        /\ n \in first.nexts
                        /\ \E r \in RowsOf(res.exec, n) : r.by = first.id

\* Every next of every result that was ingested is queued for it, falls together with
\* an earlier handoff of its execution, was handed to the reporting client or is
\* still being dealt with, except for the losses the model names: a failed query,
\* a broken reply, a server that died, a node the reporting client could not
\* run, a next the second guard removed, a result without execution.
NoSilentLoss ==
  \A res \in results : \A n \in res.nexts :
    \/ Queued(res, n) \/ FellTogether(res, n)
    \/ <<res.id, n>> \in handed \cup lost
    \/ \E h \in held : h.id = res.id /\ n \in h.queue \cup h.owned

\* A client process starts a pending row at most once, however often the row is
\* delivered to it and whatever its credential fetches do.
OncePerProcess ==
  \A c \in Clients : \A i, j \in DOMAIN log[c] : log[c][i] = log[c][j] => i = j

\* What docs/workflows.md says of a handoff, that every node has one owner: no
\* pending row is started by two clients.
OneOwner ==
  \A c, d \in Clients : \A i \in DOMAIN log[c], j \in DOMAIN log[d] :
    log[c][i] = log[d][j] => c = d

\* Every next of every result has an owner once its handler has answered: it was
\* returned to the client that reported, or it has a row, its own or the one an
\* earlier result of the execution left.  A restart of that client, a reply it did
\* not get or a node it cannot build loses no more than what it would have run
\* itself; only a failed query and a restart of the server lose rows.
EveryNextHasAnOwner ==
  held = {} =>
    \A res \in results : \A n \in res.nexts :
      \/ Queued(res, n) \/ FellTogether(res, n)
      \/ <<res.id, n>> \in handed
      \/ /\ n \in AssignedNodes(res.client, dbDef)
         /\ used["crashes"] + used["drops"] > 0 \/ n \in Broken
      \/ used["queries"] + used["reboots"] > 0

\* What docs/workflows.md says next: a node is never both returned to a client and
\* queued in one execution, so it cannot run twice.
NeverReturnedAndQueued ==
  \A res \in results, r \in rows : <<res.id, r.node>> \in handed => r.exec # res.exec

\* A next goes to one side, and to one only, which starts it once.
EveryNextHasOneOwner == EveryNextHasAnOwner /\ NeverReturnedAndQueued /\ OncePerProcess

\* Every pending row is eventually done.
PendingEventuallyDone ==
  \A e \in Execs \ {NoExec}, n \in Nodes :
    (\E r \in RowsOf(e, n) : r.status = "pending")
      ~> (\E r \in RowsOf(e, n) : r.status = "done")

-----------------------------------------------------------------------------
(* Why the promises about rows hold: what is true of the handlers between  *)
(* two of their steps.                                                     *)

OneHandler == \A g, h \in held : g = h

\* A handler works for a result it has ingested, and the row it is about to
\* insert does not exist.
HandlerOK ==
  \A h \in held :
    /\ \E res \in results : /\ res.id = h.id /\ res.client = h.client /\ res.exec = h.exec
                            /\ res.node = h.node /\ h.queue \cup h.owned \subseteq res.nexts
    /\ h.stage = "create" => h.next \in h.queue /\ RowsOf(h.exec, h.next) = {}

\* No two results have one number, and one that waits has none of theirs.
ResultsAreNumbered ==
  /\ \A x \in inbox \cup results : x.id < nextResult
  /\ \A p, q \in inbox : p.id = q.id => p = q
  /\ \A p \in inbox : \A res \in results : p.id # res.id
  /\ \A r, s \in results : r.id = s.id => r = s

\* NoSilentLoss before the rows are told apart by the result that queued them.
NoneVanishes ==
  \A res \in results : \A n \in res.nexts :
    \/ RowsOf(res.exec, n) # {}
    \/ <<res.id, n>> \in handed \cup lost
    \/ \E h \in held : h.id = res.id /\ n \in h.queue \cup h.owned

\* What a process has started it also remembers.
StartedAreSeen == \A c \in Clients : \A i \in DOMAIN log[c] : log[c][i] \in seen[c]

MissingIsRemoved == Nodes \ DOMAIN dbDef \subseteq removed

-----------------------------------------------------------------------------
(* Why a next has one owner while the definition stays as it is and a timer *)
(* gives every result its execution: what each place keeps of a handoff.    *)

\* Who runs a node that leads to another agrees with who runs any other such node
\* on whether the next is its own.  Every tree of nodes with one client each is so.
OwnersAgree(def) ==
  \A m, n \in Nodes : \A c, d \in Clients : \A next \in Edges[m] \cap Edges[n] :
    m \in AssignedNodes(c, def) /\ n \in AssignedNodes(d, def)
      => (next \in AssignedNodes(c, def) <=> next \in AssignedNodes(d, def))

\* No node is shared by two clients.
OwnersAreSingle(def) == \A n \in DOMAIN def : \A c, d \in def[n] : c = d

Unedited == used["edits"] = 0 /\ dbDef \in Defs /\ enabled /\ memDef = dbDef /\ dbRev = 1

Mine(c) == AssignedNodes(c, dbDef)
Runnable(c) == Mine(c) \ Broken
MayBeDeaf == used["crashes"] + used["drops"] > 0

\* A client has all or nothing of the definition, and all once it runs any of it.
ClientOK(c) ==
  /\ installed[c] \in {{}, Runnable(c)}
  /\ rev[c] # NoRev \/ trig[c] # NoExec => installed[c] = Runnable(c)
  /\ trig[c] # NoExec => Trigger \in Runnable(c)
  /\ \A k \in Execs \X Nodes : jobs[c][k] > 0 => k[1] # NoExec /\ k[2] \in installed[c]
  /\ \A r \in mail[c].rows : r.exec # NoExec
  /\ phase[c] = "polled" => mail[c].nodes = Mine(c) /\ mail[c].rev = 1

\* A post, or the handler of one, is of a node of its client, which can still run
\* what it is answered unless nobody waits for the answer.
FromOwner(x) ==
  /\ x.exec # NoExec /\ x.node \in Mine(x.client)
  /\ IF x.live THEN installed[x.client] = Runnable(x.client) ELSE MayBeDeaf

HandlerSplits(h) ==
  /\ h.local = h.exec /\ h.owned \cup h.queue \subseteq Edges[h.node]
  /\ h.owned \subseteq Mine(h.client) /\ h.queue \cap Mine(h.client) = {}

\* Somebody's result of execution e led to n, and n was its own to go on with, or not.
Led(c, e, n) == \E res \in results : res.client = c /\ res.exec = e /\ n \in res.nexts

RowIsRouted(r) == r.exec # NoExec /\ \E c \in Clients : Led(c, r.exec, r.node) /\ r.node \notin Mine(c)
LossIsOwn(l) ==
  \/ used["queries"] + used["reboots"] > 0
  \/ \E res \in results :
       /\ res.id = l[1] /\ l[2] \in res.nexts \cap Mine(res.client)
       /\ MayBeDeaf \/ l[2] \in Broken
HandedIsOwn(x) ==
  \E res \in results : res.id = x[1] /\ x[2] \in res.nexts \cap Mine(res.client)

Handoffs ==
  /\ Unedited
  /\ \A c \in Clients : ClientOK(c)
  /\ \A x \in inbox \cup held : FromOwner(x)
  /\ \A h \in held : HandlerSplits(h)
  /\ \A res \in results : res.node \in Mine(res.client) /\ res.nexts \subseteq Edges[res.node]
  /\ \A r \in rows : RowIsRouted(r)
  /\ \A x \in handed : HandedIsOwn(x)
  /\ \A l \in lost : LossIsOwn(l)

\* What was started, or is about to be, is a row of a node of the client.
RowsAreKnown ==
  /\ \A r \in rows : r.id < nextRow
  /\ \A r, s \in rows : r.id = s.id => r = s
  /\ \A c \in Clients : \A m \in mail[c].rows :
       \E r \in rows : r.id = m.id /\ r.node \in Mine(c)
  /\ \A c \in Clients : \A i \in DOMAIN log[c] :
       \E r \in rows : r.id = log[c][i] /\ r.node \in Mine(c)

\* The inductive invariant: the promises about rows, and what the steps of a
\* handler keep true while it holds resultMu.
Inv == /\ TypeOK /\ OneHandler /\ HandlerOK /\ MissingIsRemoved /\ ResultsAreNumbered
       /\ OneRowPerKey /\ RowIsHandoff /\ DoneIsJustified /\ NoneVanishes
=============================================================================
