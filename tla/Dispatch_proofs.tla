--------------------------- MODULE Dispatch_proofs ---------------------------
(* What Dispatch promises of the assignment rows holds for every workflow,  *)
(* every set of clients and any number of failures.                         *)
EXTENDS Dispatch, TLAPS

LEMMA SpendType ==
  ASSUME used \in [Budget -> Nat], NEW b \in Budget, Spend(b)
  PROVE  used' \in [Budget -> Nat]
  BY DEF Spend

LEMMA AdvanceType ==
  ASSUME ProcessType, NEW h \in held, NEW g \in Handler, Advance(h, g)
  PROVE  held' \subseteq Handler
  BY DEF ProcessType, Advance

LEMMA DeafType ==
  ASSUME ProcessType, NEW c \in Clients
  PROVE  Deaf(c, inbox) \subseteq Post /\ Deaf(c, held) \subseteq Handler
<1>1. ASSUME NEW x \in Post PROVE [x EXCEPT !.live = FALSE] \in Post
  BY DEF Post
<1>2. ASSUME NEW x \in Handler PROVE [x EXCEPT !.live = FALSE] \in Handler
  BY DEF Handler
<1> QED BY <1>1, <1>2 DEF ProcessType, Deaf

LEMMA RetiredType ==
  ASSUME rows \subseteq Row, NEW S
  PROVE  Retired(S) \subseteq Row
<1>1. ASSUME NEW r \in Row PROVE [r EXCEPT !.status = "done"] \in Row
  BY DEF Row
<1> QED BY <1>1 DEF Retired

LEMMA StartedType ==
  ASSUME ClientType, NEW c \in Clients, NEW e, NEW S
  PROVE  Started(c, e, S) \in [Execs \X Nodes -> Nat]
<1>1. \A k \in Execs \X Nodes : jobs[c][k] \in Nat
  BY DEF ClientType
<1> QED BY <1>1 DEF Started

LEMMA TypeStep == TypeOK /\ [Next]_vars => TypeOK'
<1> SUFFICES ASSUME TypeOK, [Next]_vars PROVE TypeOK'
  OBVIOUS
<1> USE DispatchAssumption DEF TypeOK, ids
<1>1. ASSUME NEW p \in inbox, RejectUnknown(p) PROVE TypeOK'
  <2>1. ClientType'
    BY <1>1 DEF RejectUnknown, ClientType, ProcessType, Post, Phases
  <2> QED
    BY <1>1, <2>1 DEF RejectUnknown, history, DatabaseType, ProcessType, HistoryType
<1>2. ASSUME NEW p \in inbox, NEW nexts \in SUBSET Edges[p.node], Accept(p, nexts)
      PROVE TypeOK'
  <2> DEFINE exec == IF Mints(p) THEN nextExec ELSE p.exec
  <2>0. /\ p \in Post /\ p.client \in Clients /\ p.node \in Nodes /\ nexts \subseteq Nodes
        /\ p.id \in Nat
    BY DEF ProcessType, Post
  <2>a. exec \in Execs /\ nextExec' \in 1 .. MaxExecs + 1
    BY <1>2, <2>0 DEF Accept, Execs, NoExec, HistoryType, Post, Mints
  <2>1. DatabaseType'
    <3>1. PICK stored \in BOOLEAN :
            results' = results \cup {[id |-> p.id, client |-> p.client, exec |-> exec,
                                      node |-> p.node, nexts |-> nexts, stored |-> stored]}
      BY <1>2 DEF Accept
    <3>2. [id |-> p.id, client |-> p.client, exec |-> exec, node |-> p.node,
           nexts |-> nexts, stored |-> stored] \in Result
      BY <2>0, <2>a DEF Result
    <3> QED BY <3>1, <3>2, <1>2 DEF Accept, DatabaseType
  <2>2. ProcessType'
    <3> DEFINE owned == OwnedBy(p.client, DefFor(p.node), nexts)
    <3>1. owned \subseteq Nodes /\ Routed(p.node, nexts, owned) \subseteq Nodes
      BY <2>0 DEF OwnedBy, Routed
    <3>2. [id |-> p.id, client |-> p.client, local |-> p.exec, exec |-> exec,
           node |-> p.node, live |-> p.live, stage |-> "own", owned |-> owned,
           queue |-> Routed(p.node, nexts, owned), next |-> p.node] \in Handler
      BY <2>0, <2>a, <3>1 DEF Handler, Post
    <3> QED BY <3>2, <1>2 DEF Accept, ProcessType
  <2>3. ClientType'
    BY <1>2 DEF Accept, client, ClientType
  <2>4. HistoryType'
    <3>1. used' \in [Budget -> Nat]
      BY <1>2, SpendType DEF Accept, HistoryType, Budget
    <3> QED BY <1>2, <2>a, <3>1 DEF Accept, HistoryType, history
  <2> QED BY <2>1, <2>2, <2>3, <2>4
<1>3. ASSUME NEW h \in held, CompleteOwn(h) PROVE TypeOK'
  <2>0. h \in Handler /\ h.id \in Nat /\ h.queue \subseteq Nodes
    BY DEF ProcessType, Handler
  <2>1. DatabaseType'
    BY <1>3, RetiredType DEF CompleteOwn, Completed, DatabaseType, Spend
  <2>2. ProcessType'
    <3>1. [h EXCEPT !.stage = "queue", !.queue = {}] \in Handler
          /\ [h EXCEPT !.stage = "queue"] \in Handler
      BY <2>0 DEF Handler
    <3> QED BY <3>1, <1>3, AdvanceType DEF CompleteOwn, ProcessType
  <2>3. ClientType'
    BY <1>3 DEF CompleteOwn, client, ClientType
  <2>4. HistoryType'
    <3>1. used' \in [Budget -> Nat]
      BY <1>3, SpendType DEF CompleteOwn, HistoryType, Budget
    <3>2. lost' \subseteq Nat \X Nodes
      BY <1>3, <2>0 DEF CompleteOwn, HistoryType
    <3> QED BY <1>3, <3>1, <3>2 DEF CompleteOwn, HistoryType
  <2> QED BY <2>1, <2>2, <2>3, <2>4
<1>4. ASSUME NEW h \in held, NEW n \in h.queue, CheckRow(h, n) PROVE TypeOK'
  <2>1. [h EXCEPT !.queue = @ \ {n}] \in Handler
        /\ [h EXCEPT !.stage = "create", !.next = n] \in Handler
    BY DEF ProcessType, Handler
  <2>2. ProcessType'
    BY <2>1, <1>4, AdvanceType DEF CheckRow, ProcessType
  <2> QED
    BY <2>2, <1>4 DEF CheckRow, client, history, DatabaseType, ClientType, HistoryType
<1>5. ASSUME NEW h \in held, CreateRow(h) PROVE TypeOK'
  <2>1. [h EXCEPT !.stage = "queue", !.queue = @ \ {h.next}] \in Handler
        /\ h.exec \in Execs /\ h.next \in Nodes /\ h.id \in Nat
    BY DEF ProcessType, Handler
  <2>2. ProcessType'
    BY <2>1, <1>5, AdvanceType DEF CreateRow, ProcessType
  <2>3. [id |-> nextRow, exec |-> h.exec, node |-> h.next, status |-> "pending",
         by |-> h.id] \in Row
    BY <2>1 DEF Row, DatabaseType
  <2>4. DatabaseType'
    BY <2>3, <1>5 DEF CreateRow, DatabaseType
  <2> QED
    BY <2>2, <2>4, <1>5 DEF CreateRow, client, history, ClientType, HistoryType
<1>6. ASSUME NEW h \in held, CreateFails(h) PROVE TypeOK'
  <2>1. [h EXCEPT !.stage = "queue", !.queue = @ \ {h.next}] \in Handler
        /\ <<h.id, h.next>> \in Nat \X Nodes
    BY DEF ProcessType, Handler
  <2>2. ProcessType'
    BY <2>1, <1>6, AdvanceType DEF CreateFails, ProcessType
  <2>3. used' \in [Budget -> Nat]
    BY <1>6, SpendType DEF CreateFails, HistoryType, Budget
  <2>4. HistoryType'
    BY <1>6, <2>1, <2>3 DEF CreateFails, HistoryType
  <2> QED
    BY <2>2, <2>4, <1>6 DEF CreateFails, client, ClientType, DatabaseType
<1>7. ASSUME NEW h \in held, Finish(h) PROVE TypeOK'
  <2>0. /\ h.client \in Clients /\ h.id \in Nat /\ h.owned \subseteq Nodes
        /\ Filtered(h) \subseteq Nodes
    BY DEF ProcessType, Handler, Filtered
  <2>1. PICK kept \in SUBSET Nodes : Answer(h, kept)
    BY <1>7, <2>0 DEF Finish
  <2>2. ProcessType' /\ DatabaseType'
    BY <1>7 DEF Finish, ProcessType, DatabaseType
  <2>3. ClientType'
    <3>1. phase' \in [Clients -> Phases]
      BY <2>0, <2>1 DEF Answer, ClientType, Phases
    <3>2. Started(h.client, h.local, kept) \in [Execs \X Nodes -> Nat]
      BY <2>0, StartedType
    <3>3. jobs' \in [Clients -> [Execs \X Nodes -> Nat]]
      BY <2>0, <2>1, <3>2 DEF Answer, ClientType
    <3> QED BY <1>7, <3>1, <3>3 DEF Finish, ClientType
  <2>4. HistoryType'
    <3>1. used' \in [Budget -> Nat]
      BY <1>7, SpendType DEF Finish, HistoryType, Budget
    <3>2. handed' \subseteq Nat \X Nodes /\ lost' \subseteq Nat \X Nodes
      BY <2>0, <2>1 DEF Answer, HistoryType
    <3> QED BY <1>7, <3>1, <3>2 DEF Finish, HistoryType
  <2> QED BY <2>2, <2>3, <2>4
<1>8. ASSUME NEW c \in Clients, Poll(c) PROVE TypeOK'
  <2> DEFINE nodes == IF enabled THEN AssignedNodes(c, dbDef) ELSE {}
  <2>0. nodes \subseteq Nodes /\ Due(nodes) \subseteq Row
    BY DEF AssignedNodes, DatabaseType, Def, Due, Pending
  <2>1. DatabaseType'
    BY <1>8, RetiredType DEF Poll, DatabaseType
  <2>2. ClientType'
    <3>1. [nodes |-> nodes, rev |-> dbRev, rows |-> Due(nodes)] \in Mail
      BY <2>0 DEF Mail, DatabaseType
    <3> QED BY <1>8, <3>1 DEF Poll, ClientType, Phases
  <2>3. ProcessType' /\ HistoryType'
    BY <1>8 DEF Poll, ProcessType, HistoryType, history
  <2> QED BY <2>1, <2>2, <2>3
<1>9. ASSUME NEW c \in Clients, Sync(c) PROVE TypeOK'
  <2>0. mail[c].nodes \subseteq Nodes /\ mail[c].rev \in Nat
    BY DEF ClientType, Mail
  <2>1. ProcessType' /\ DatabaseType' /\ UNCHANGED history /\ UNCHANGED used
    BY <1>9 DEF Sync, ProcessType, DatabaseType, server
  <2>2. HistoryType'
    BY <1>9, <2>1 DEF Sync, HistoryType, history
  <2>3. rev' \in [Clients -> Nat]
    BY <1>9, <2>0 DEF Sync, ClientType, NoRev
  <2>4. trig' \in [Clients -> Execs]
    BY <1>9 DEF Sync, ClientType, HistoryType, Execs, NoExec
  <2>5. installed' \in [Clients -> SUBSET Nodes]
    BY <1>9, <2>0 DEF Sync, ClientType
  <2>6. ClientType'
    BY <1>9, <2>3, <2>4, <2>5 DEF Sync, ClientType, Phases
  <2> QED BY <2>1, <2>2, <2>6
<1>22. ASSUME NEW c \in Clients, NEW r \in mail[c].rows, NextRow(c, r)
      PROVE  mail' \in [Clients -> Mail] /\ r.id \in Nat
  <2>1. mail[c] \in Mail
    BY DEF ClientType
  <2>2. [mail[c] EXCEPT !.rows = @ \ {r}] \in Mail
    BY <2>1 DEF Mail
  <2>3. mail' = [mail EXCEPT ![c] = [mail[c] EXCEPT !.rows = @ \ {r}]]
    BY <1>22 DEF NextRow, ClientType
  <2>4. r \in Row
    BY <2>1 DEF Mail
  <2> QED BY <2>2, <2>3, <2>4 DEF ClientType, Row
<1>10. ASSUME NEW c \in Clients, NEW r \in mail[c].rows, DrainRow(c, r) PROVE TypeOK'
  <2>1. NextRow(c, r)
    BY <1>10 DEF DrainRow
  <2>2. ClientType'
    <3>1. Started(c, r.exec, {r.node}) \in [Execs \X Nodes -> Nat]
      BY StartedType
    <3>2. jobs' \in [Clients -> [Execs \X Nodes -> Nat]]
      BY <1>10, <3>1 DEF DrainRow, ClientType
    <3>3. seen' \in [Clients -> SUBSET Nat]
      <4>1. seen[c] \in SUBSET Nat /\ r.id \in Nat
        BY <1>22, <2>1 DEF ClientType
      <4>2. Marked(c, r) \in SUBSET Nat
        BY <4>1 DEF Marked
      <4> QED BY <1>10, <4>2 DEF DrainRow, ClientType
    <3>4. mail' \in [Clients -> Mail]
      BY <1>22, <2>1
    <3> QED BY <1>10, <3>2, <3>3, <3>4 DEF DrainRow, ClientType
  <2>3. ProcessType' /\ DatabaseType'
    BY <1>10 DEF DrainRow, ProcessType, DatabaseType, server
  <2>4. log' \in [Clients -> Seq(Nat)]
    <3>1. r.id \in Nat /\ log[c] \in Seq(Nat)
      BY <1>22, <2>1 DEF HistoryType
    <3>2. Append(log[c], r.id) \in Seq(Nat)
      BY <3>1
    <3> QED BY <1>10, <3>2 DEF DrainRow, HistoryType
  <2>5. HistoryType'
    BY <1>10, <2>4 DEF DrainRow, HistoryType
  <2> QED BY <2>2, <2>3, <2>5
<1>11. ASSUME NEW c \in Clients, NEW r \in mail[c].rows, DeferRow(c, r) PROVE TypeOK'
  <2>1. NextRow(c, r)
    BY <1>11 DEF DeferRow
  <2>2. ClientType'
    BY <1>11, <1>22, <2>1 DEF DeferRow, ClientType, Released
  <2>3. ProcessType' /\ DatabaseType'
    BY <1>11 DEF DeferRow, ProcessType, DatabaseType, server
  <2>4. used' \in [Budget -> Nat]
    BY <1>11, SpendType DEF DeferRow, HistoryType, Budget
  <2>5. HistoryType'
    BY <1>11, <2>4 DEF DeferRow, HistoryType, history
  <2> QED BY <2>2, <2>3, <2>5
<1>12. ASSUME NEW c \in Clients, NEW k \in Execs \X Nodes, TakeEvent(c, k) PROVE TypeOK'
  <2>1. [id |-> nextResult, client |-> c, exec |-> k[1], node |-> k[2], live |-> TRUE] \in Post
    BY DEF Post, HistoryType
  <2>2. ProcessType'
    BY <1>12, <2>1 DEF TakeEvent, ProcessType
  <2>3. jobs' \in [Clients -> [Execs \X Nodes -> Nat]]
    <3>1. jobs[c] \in [Execs \X Nodes -> Nat] /\ jobs[c][k] \in Nat /\ jobs[c][k] > 0
      BY <1>12 DEF TakeEvent, ClientType
    <3>2. [jobs[c] EXCEPT ![k] = @ - 1] \in [Execs \X Nodes -> Nat]
      BY <3>1
    <3>3. jobs' = [jobs EXCEPT ![c] = [jobs[c] EXCEPT ![k] = @ - 1]]
      BY <1>12 DEF TakeEvent, ClientType
    <3> QED BY <3>2, <3>3 DEF ClientType
  <2>4. ClientType'
    BY <1>12, <2>3 DEF TakeEvent, ClientType, Phases
  <2>5. DatabaseType' /\ HistoryType'
    BY <1>12 DEF TakeEvent, DatabaseType, HistoryType, history
  <2> QED BY <2>2, <2>4, <2>5
<1>13. ASSUME NEW c \in Clients, IdleTick(c) PROVE TypeOK'
  BY <1>13 DEF IdleTick, server, history, Phases, DatabaseType, ProcessType, ClientType,
               HistoryType
<1>14. ASSUME NEW c \in Clients, Fire(c) PROVE TypeOK'
  <2> DEFINE k == <<IF TriggerKind = "timer" THEN trig[c] ELSE NoExec, Trigger>>
  <2>1. k \in Execs \X Nodes
    BY <1>14 DEF ClientType, Fire, NoExec, Execs
  <2>2. jobs' \in [Clients -> [Execs \X Nodes -> Nat]]
    <3>1. jobs[c] \in [Execs \X Nodes -> Nat]
      BY DEF ClientType
    <3>2. [jobs[c] EXCEPT ![k] = @ + 1] \in [Execs \X Nodes -> Nat]
      BY <3>1, <2>1
    <3>3. jobs' = [jobs EXCEPT ![c] = [jobs[c] EXCEPT ![k] = @ + 1]]
      BY <1>14 DEF Fire, ClientType
    <3> QED BY <3>2, <3>3 DEF ClientType
  <2>3. used' \in [Budget -> Nat]
    BY <1>14, SpendType DEF Fire, HistoryType, Budget
  <2> QED
    BY <1>14, <2>2, <2>3 DEF Fire, server, history, DatabaseType, ProcessType, ClientType,
                             HistoryType
<1>15. CASE Toggle
  <2>1. used' \in [Budget -> Nat]
    BY <1>15, SpendType DEF Toggle, HistoryType, Budget
  <2> QED
    BY <1>15, <2>1 DEF Toggle, client, history, DatabaseType, ProcessType, ClientType,
                       HistoryType
<1>16. ASSUME NEW def \in Defs, Import(def) PROVE TypeOK'
  <2>1. used' \in [Budget -> Nat]
    BY <1>16, SpendType DEF Import, HistoryType, Budget
  <2>2. def \in Def
    BY DEF DispatchAssumption
  <2>3. DatabaseType'
    BY <1>16, <2>2 DEF Import, DatabaseType
  <2>4. HistoryType'
    BY <1>16, <2>1 DEF Import, HistoryType
  <2> QED
    BY <1>16, <2>3, <2>4 DEF Import, client, ProcessType, ClientType
<1>17. ASSUME NEW p \in inbox, LoseRequest(p) PROVE TypeOK'
  <2>1. used' \in [Budget -> Nat]
    BY <1>17, SpendType DEF LoseRequest, HistoryType, Budget
  <2>2. ClientType'
    BY <1>17 DEF LoseRequest, ClientType, ProcessType, Post, Phases
  <2> QED
    BY <1>17, <2>1, <2>2 DEF LoseRequest, history, DatabaseType, ProcessType, HistoryType
<1>18. ASSUME NEW c \in Clients, LoseReply(c) PROVE TypeOK'
  <2>1. used' \in [Budget -> Nat]
    BY <1>18, SpendType DEF LoseReply, HistoryType, Budget
  <2>2. ProcessType'
    BY <1>18, DeafType DEF LoseReply, ProcessType
  <2>3. ClientType'
    BY <1>18 DEF LoseReply, ClientType, Phases
  <2> QED
    BY <1>18, <2>1, <2>2, <2>3 DEF LoseReply, history, DatabaseType, HistoryType
<1>19. ASSUME NEW c \in Clients, ClientRestart(c) PROVE TypeOK'
  <2>1. used' \in [Budget -> Nat]
    BY <1>19, SpendType DEF ClientRestart, HistoryType, Budget
  <2>2. ProcessType'
    BY <1>19, DeafType DEF ClientRestart, ProcessType
  <2>3. NoMail \in Mail /\ NoJobs \in [Execs \X Nodes -> Nat] /\ NoExec \in Execs /\ NoRev \in Nat
    BY DEF NoMail, NoRev, NoExec, NoJobs, Mail, Execs
  <2>4. ClientType'
    BY <1>19, <2>3 DEF ClientRestart, ClientType, Phases
  <2>5. log' \in [Clients -> Seq(Nat)]
    BY <1>19 DEF ClientRestart, HistoryType
  <2> QED
    BY <1>19, <2>1, <2>2, <2>4, <2>5 DEF ClientRestart, DatabaseType, HistoryType
<1>20. CASE ServerRestart
  <2>1. used' \in [Budget -> Nat]
    BY <1>20, SpendType DEF ServerRestart, HistoryType, Budget
  <2>2. ProcessType'
    <3>1. NoDef \in [{} -> SUBSET Clients]
      BY DEF NoDef
    <3>2. NoDef \in Def
      BY <3>1 DEF Def
    <3> QED BY <1>20, <3>2 DEF ServerRestart, ProcessType, DatabaseType
  <2>3. ClientType'
    BY <1>20 DEF ServerRestart, ClientType, Phases
  <2>4. lost' \subseteq Nat \X Nodes
    BY <1>20 DEF ServerRestart, HistoryType, ProcessType, Handler
  <2> QED
    BY <1>20, <2>1, <2>2, <2>3, <2>4 DEF ServerRestart, DatabaseType, HistoryType
<1>21. CASE UNCHANGED vars
  BY <1>21 DEF vars, server, client, history, DatabaseType, ProcessType, ClientType,
               HistoryType
<1> QED
  BY <1>1, <1>2, <1>3, <1>4, <1>5, <1>6, <1>7, <1>8, <1>9, <1>10, <1>11, <1>12, <1>13,
     <1>14, <1>15, <1>16, <1>17, <1>18, <1>19, <1>20, <1>21
     DEF Next, HandlerStep, ClientStep, Operator, Failure

LEMMA TypeInit == Init => TypeOK
<1> SUFFICES ASSUME Init PROVE TypeOK
  OBVIOUS
<1> USE DispatchAssumption DEF Init
<1>1. DatabaseType
  BY DEF DispatchAssumption, DatabaseType
<1>2. ProcessType
  BY DEF DispatchAssumption, ProcessType
<1>3. ClientType
  BY DEF ClientType, Phases, NoMail, Mail, NoRev, NoExec, Execs, NoJobs
<1>4. HistoryType
  BY DEF HistoryType, NoExec
<1> QED BY <1>1, <1>2, <1>3, <1>4 DEF TypeOK

\* Every reachable state is well typed: in particular a handler never works
\* under an execution id outside those minted, and a poll response only ever
\* carries rows of the table.
THEOREM TypeCorrect == Spec => []TypeOK
<1> QED BY TypeInit, TypeStep, PTL DEF Spec

-----------------------------------------------------------------------------
(* The invariant of the assignment rows.                                   *)

LEMMA InvInit == Init => Inv
  BY TypeInit DEF Init, Inv, ResultsAreNumbered, OneHandler, HandlerOK, MissingIsRemoved, OneRowPerKey,
                  RowIsHandoff, DoneIsJustified, NoneVanishes

\* Retiring rows keeps the keys of the table.
LEMMA RetiredKeepsKeys ==
  ASSUME rows \subseteq Row, NEW S, rows' = Retired(S)
  PROVE  /\ \A s \in rows' : \E r \in rows :
              /\ r.exec = s.exec /\ r.node = s.node /\ r.by = s.by
              /\ s = IF r \in S THEN [r EXCEPT !.status = "done"] ELSE r
         /\ \A e, n : RowsOf(e, n) # {} => RowsOf(e, n)' # {}
         /\ \A e, n : RowsOf(e, n) = {} => RowsOf(e, n)' = {}
         /\ OneRowPerKey => OneRowPerKey'
<1>1. \A r \in rows : /\ [r EXCEPT !.status = "done"].exec = r.exec
                      /\ [r EXCEPT !.status = "done"].node = r.node
                      /\ [r EXCEPT !.status = "done"].by = r.by
  BY DEF Row
<1>2. \A s \in rows' : \E r \in rows :
        /\ r.exec = s.exec /\ r.node = s.node /\ r.by = s.by
        /\ s = IF r \in S THEN [r EXCEPT !.status = "done"] ELSE r
  BY <1>1 DEF Retired
<1>3. \A r \in rows : \E s \in rows' : s.exec = r.exec /\ s.node = r.node
  BY <1>1 DEF Retired
<1>4. ASSUME OneRowPerKey PROVE OneRowPerKey'
  BY <1>2, <1>4 DEF OneRowPerKey
<1>5. \A e, n : RowsOf(e, n) # {} => RowsOf(e, n)' # {}
  BY <1>3 DEF RowsOf
<1>6. \A e, n : RowsOf(e, n) = {} => RowsOf(e, n)' = {}
  BY <1>2 DEF RowsOf
<1> QED BY <1>2, <1>4, <1>5, <1>6

\* What is true of the result a handler works for.
LEMMA HandlerResult ==
  ASSUME Inv, NEW h \in held
  PROVE  /\ \E res \in results : res.id = h.id
         /\ \A res \in results : res.id = h.id =>
              /\ res.client = h.client /\ res.exec = h.exec /\ res.node = h.node
              /\ h.queue \cup h.owned \subseteq res.nexts
  BY DEF Inv, HandlerOK, ResultsAreNumbered

\* Numbers are given out by posting, and carried from there into the results.
LEMMA NumbersFrame ==
  ASSUME ResultsAreNumbered, inbox' \subseteq inbox, UNCHANGED <<results, nextResult>>
  PROVE  ResultsAreNumbered'
  BY DEF ResultsAreNumbered

\* Nothing else the invariant speaks of changes.
LEMMA FrameStep ==
  ASSUME Inv, TypeOK', ResultsAreNumbered',
         UNCHANGED <<dbDef, rows, results, held, handed, lost, removed>>
  PROVE  Inv'
  BY DEF Inv, OneHandler, HandlerOK, MissingIsRemoved, OneRowPerKey, RowIsHandoff,
         DoneIsJustified, NoneVanishes, RowsOf

LEMMA TakeEventStep ==
  ASSUME Inv, TypeOK', NEW c \in Clients, NEW k \in Execs \X Nodes, TakeEvent(c, k)
  PROVE  Inv'
<1> DEFINE p == [id |-> nextResult, client |-> c, exec |-> k[1], node |-> k[2], live |-> TRUE]
<1>1. /\ inbox' = inbox \cup {p} /\ p.id = nextResult /\ nextResult' = nextResult + 1
      /\ UNCHANGED <<dbDef, rows, results, held, handed, lost, removed>>
  BY DEF TakeEvent, history
<1> HIDE DEF p
<1>2. /\ nextResult \in Nat /\ \A x \in inbox \cup results : x.id \in Nat
  BY DEF Inv, TypeOK, HistoryType, DatabaseType, ProcessType, Post, Result
<1>3. ResultsAreNumbered'
  BY <1>1, <1>2 DEF Inv, ResultsAreNumbered
<1> QED BY <1>1, <1>3, FrameStep

\* A handler that lost its client goes on as before, and a post keeps its number.
LEMMA DeafStep ==
  ASSUME Inv, TypeOK', NEW c \in Clients, held' = Deaf(c, held), inbox' = Deaf(c, inbox),
         UNCHANGED <<dbDef, rows, results, handed, lost, removed, nextResult>>
  PROVE  Inv'
<1> DEFINE Same(g, h) == /\ g.id = h.id /\ g.client = h.client /\ g.exec = h.exec
                         /\ g.node = h.node /\ g.queue = h.queue /\ g.owned = h.owned
                         /\ g.stage = h.stage /\ g.next = h.next
<1>0. held \subseteq Handler /\ inbox \subseteq Post
  BY DEF Inv, TypeOK, ProcessType
<1>1. \A h \in held : Same([h EXCEPT !.live = FALSE], h)
  BY <1>0 DEF Handler
<1>2. ASSUME NEW g \in held' PROVE \E h \in held : Same(g, h)
  <2>1. PICK h \in held : g = IF h.client = c THEN [h EXCEPT !.live = FALSE] ELSE h
    BY DEF Deaf
  <2> QED BY <1>1, <2>1
<1>3. ASSUME NEW h \in held PROVE \E g \in held' : Same(g, h)
  <2> DEFINE g == IF h.client = c THEN [h EXCEPT !.live = FALSE] ELSE h
  <2>1. g \in held'
    BY DEF Deaf
  <2>2. Same(g, h)
    BY <1>1
  <2> QED BY <2>1, <2>2
<1>4. OneHandler'
  BY DEF Inv, OneHandler, Deaf
<1>5. HandlerOK'
  BY <1>2 DEF Inv, HandlerOK, RowsOf
<1>6. NoneVanishes'
  <2> SUFFICES ASSUME NEW res \in results, NEW n \in res.nexts
               PROVE  \/ RowsOf(res.exec, n) # {}
                      \/ <<res.id, n>> \in handed
                      \/ <<res.id, n>> \in lost
                      \/ \E g \in held' : g.id = res.id /\ n \in g.queue \cup g.owned
    BY DEF NoneVanishes, RowsOf
  <2> QED BY <1>3 DEF Inv, NoneVanishes
<1>7. ResultsAreNumbered'
  <2> DEFINE deaf(x) == IF x.client = c THEN [x EXCEPT !.live = FALSE] ELSE x
  <2>1. \A x \in inbox : deaf(x).id = x.id
    BY <1>0 DEF Post
  <2>2. inbox' = { deaf(x) : x \in inbox }
    BY DEF Deaf
  <2> HIDE DEF deaf
  <2> QED BY <2>1, <2>2 DEF Inv, ResultsAreNumbered
<1> QED
  BY <1>4, <1>5, <1>6, <1>7 DEF Inv, MissingIsRemoved, OneRowPerKey, RowIsHandoff, DoneIsJustified

LEMMA AcceptStep ==
  ASSUME Inv, TypeOK', NEW p \in inbox, NEW nexts \in SUBSET Edges[p.node], Accept(p, nexts)
  PROVE  Inv'
<1> DEFINE exec == IF Mints(p) THEN nextExec ELSE p.exec
           owned == OwnedBy(p.client, DefFor(p.node), nexts)
           result(stored) == [id |-> p.id, client |-> p.client, exec |-> exec,
                              node |-> p.node, nexts |-> nexts, stored |-> stored]
           handler == [id |-> p.id, client |-> p.client, local |-> p.exec, exec |-> exec,
                       node |-> p.node, live |-> p.live, stage |-> "own", owned |-> owned,
                       queue |-> Routed(p.node, nexts, owned), next |-> p.node]
<1>0. PICK stored \in BOOLEAN : results' = results \cup {result(stored)}
  BY DEF Accept
<1> DEFINE new == result(stored)
<1>1. /\ held = {} /\ held' = {handler} /\ results' = results \cup {new}
      /\ inbox' = inbox \ {p} /\ nextResult' = nextResult
      /\ UNCHANGED <<dbDef, rows, handed, lost, removed>>
  BY <1>0 DEF Accept, Free, history
<1>2. Routed(p.node, nexts, owned) \cup owned = nexts
  BY DEF Routed, OwnedBy
<1>21. /\ handler.client = new.client /\ handler.exec = new.exec /\ handler.node = new.node
      /\ handler.stage = "own" /\ handler.queue \cup handler.owned = new.nexts
      /\ handler.id = new.id /\ new.id = p.id
  BY <1>2
<1> HIDE DEF new, handler
<1>3. OneHandler'
  BY <1>1 DEF OneHandler
<1>4. HandlerOK'
  BY <1>1, <1>21 DEF HandlerOK
<1>5. NoneVanishes'
  <2> SUFFICES ASSUME NEW res \in results', NEW n \in res.nexts
               PROVE  \/ RowsOf(res.exec, n) # {}
                      \/ <<res.id, n>> \in handed
                      \/ <<res.id, n>> \in lost
                      \/ handler.id = res.id /\ n \in handler.queue \cup handler.owned
    BY <1>1 DEF NoneVanishes, RowsOf
  <2>1. CASE res = new
    BY <1>21, <2>1
  <2>2. CASE res \in results
    BY <1>1, <2>2 DEF Inv, NoneVanishes
  <2> QED BY <1>1, <2>1, <2>2
<1>6. RowIsHandoff' /\ DoneIsJustified'
  BY <1>1 DEF Inv, RowIsHandoff, DoneIsJustified
<1>7. ResultsAreNumbered'
  BY <1>1, <1>21 DEF Inv, ResultsAreNumbered
<1> QED
  BY <1>1, <1>3, <1>4, <1>5, <1>6, <1>7 DEF Inv, MissingIsRemoved, OneRowPerKey

\* What changing one handler needs: the others are not there.
LEMMA AdvanceStep ==
  ASSUME Inv, NEW h \in held, NEW g \in Handler, Advance(h, g)
  PROVE  held = {h} /\ held' = {g}
  BY DEF Inv, OneHandler, Advance

LEMMA CompleteOwnStep ==
  ASSUME Inv, TypeOK', NEW h \in held, CompleteOwn(h)
  PROVE  Inv'
<1> DEFINE S == IF Only(h.exec, h.node) THEN RowsOf(h.exec, h.node) ELSE {}
           g == IF h.exec = NoExec THEN [h EXCEPT !.stage = "queue", !.queue = {}]
                ELSE [h EXCEPT !.stage = "queue"]
<1>0. h \in Handler /\ rows \subseteq Row
  BY DEF Inv, TypeOK, ProcessType, DatabaseType
<1>1. /\ g.id = h.id /\ g.client = h.client /\ g.exec = h.exec /\ g.node = h.node /\ g.owned = h.owned
      /\ g.stage = "queue" /\ g.queue = IF h.exec = NoExec THEN {} ELSE h.queue
      /\ g \in Handler
  BY <1>0 DEF Handler
<1>2. held = {h} /\ held' = {g}
  BY <1>1, AdvanceStep DEF CompleteOwn
<1> HIDE DEF g
<1>3. UNCHANGED <<dbDef, results, handed, removed>>
  BY DEF CompleteOwn
<1>4. lost' = IF h.exec = NoExec THEN lost \cup ({h.id} \X h.queue) ELSE lost
  BY DEF CompleteOwn
<1>5. PICK T \in {S, {}} : rows' = Retired(T)
  BY DEF CompleteOwn, Retired, Completed
<1>6. /\ \A s \in rows' : \E r \in rows :
              /\ r.exec = s.exec /\ r.node = s.node /\ r.by = s.by
              /\ s = IF r \in T THEN [r EXCEPT !.status = "done"] ELSE r
      /\ \A e, n : RowsOf(e, n) # {} => RowsOf(e, n)' # {}
      /\ OneRowPerKey'
  BY <1>0, <1>5, RetiredKeepsKeys DEF Inv
<1>7. OneHandler'
  BY <1>2 DEF OneHandler
<1>8. HandlerOK'
  BY <1>1, <1>2, <1>3 DEF Inv, HandlerOK
<1>9. RowIsHandoff'
  BY <1>3, <1>6 DEF Inv, RowIsHandoff
<1>10. DoneIsJustified'
  <2> SUFFICES ASSUME NEW s \in rows', s.status = "done"
               PROVE  \/ \E res \in results : res.exec = s.exec /\ res.node = s.node
                      \/ s.node \in removed
    BY <1>3 DEF DoneIsJustified
  <2>1. PICK r \in rows : /\ r.exec = s.exec /\ r.node = s.node /\ r.by = s.by
                          /\ s = IF r \in T THEN [r EXCEPT !.status = "done"] ELSE r
    BY <1>6
  <2>2. CASE r \in T
    BY <2>1, <2>2, <1>2 DEF Inv, HandlerOK, RowsOf
  <2>3. CASE r \notin T
    BY <2>1, <2>3 DEF Inv, DoneIsJustified
  <2> QED BY <2>2, <2>3
<1>11. NoneVanishes'
  <2> SUFFICES ASSUME NEW res \in results, NEW n \in res.nexts
               PROVE  \/ RowsOf(res.exec, n)' # {}
                      \/ <<res.id, n>> \in handed
                      \/ <<res.id, n>> \in lost'
                      \/ g.id = res.id /\ n \in g.queue \cup g.owned
    BY <1>2, <1>3 DEF NoneVanishes
  <2> QED BY <1>1, <1>2, <1>4, <1>6 DEF Inv, NoneVanishes
<1>20. ResultsAreNumbered'
  BY NumbersFrame DEF CompleteOwn, ids, Inv
<1> QED
  BY <1>20, <1>3, <1>6, <1>7, <1>8, <1>9, <1>10, <1>11 DEF Inv, MissingIsRemoved

LEMMA CheckRowStep ==
  ASSUME Inv, TypeOK', NEW h \in held, NEW n \in h.queue, CheckRow(h, n)
  PROVE  Inv'
<1> DEFINE g == IF RowsOf(h.exec, n) # {} THEN [h EXCEPT !.queue = @ \ {n}]
                ELSE [h EXCEPT !.stage = "create", !.next = n]
<1>0. h \in Handler
  BY DEF Inv, TypeOK, ProcessType
<1>1. /\ g.id = h.id /\ g.client = h.client /\ g.exec = h.exec /\ g.node = h.node /\ g.owned = h.owned
      /\ g \in Handler
      /\ RowsOf(h.exec, n) # {} => g.stage = h.stage /\ g.queue = h.queue \ {n}
      /\ RowsOf(h.exec, n) = {} => g.stage = "create" /\ g.queue = h.queue /\ g.next = n
  BY <1>0 DEF Handler
<1>2. held = {h} /\ held' = {g} /\ h.stage = "queue"
  BY <1>1, AdvanceStep DEF CheckRow
<1> HIDE DEF g
<1>3. UNCHANGED <<dbDef, rows, results, handed, lost, removed>>
  BY DEF CheckRow, history
<1>4. OneHandler'
  BY <1>2 DEF OneHandler
<1>5. HandlerOK'
  <2> SUFFICES
        /\ \E res \in results : /\ res.id = g.id /\ res.client = g.client /\ res.exec = g.exec
                                /\ res.node = g.node /\ g.queue \cup g.owned \subseteq res.nexts
        /\ g.stage = "create" => g.next \in g.queue /\ RowsOf(g.exec, g.next) = {}
    BY <1>2, <1>3 DEF HandlerOK, RowsOf
  <2> QED BY <1>1, <1>2 DEF Inv, HandlerOK
<1>6. NoneVanishes'
  <2> SUFFICES ASSUME NEW res \in results, NEW m \in res.nexts
               PROVE  \/ RowsOf(res.exec, m) # {}
                      \/ <<res.id, m>> \in handed
                      \/ <<res.id, m>> \in lost
                      \/ g.id = res.id /\ m \in g.queue \cup g.owned
    BY <1>2, <1>3 DEF NoneVanishes, RowsOf
  <2> QED BY <1>1, <1>2, HandlerResult DEF Inv, NoneVanishes
<1>20. ResultsAreNumbered'
  BY NumbersFrame DEF CheckRow, ids, Inv
<1> QED
  BY <1>20, <1>3, <1>4, <1>5, <1>6 DEF Inv, MissingIsRemoved, OneRowPerKey, RowIsHandoff,
                                DoneIsJustified

LEMMA CreateRowStep ==
  ASSUME Inv, TypeOK', NEW h \in held, CreateRow(h)
  PROVE  Inv'
<1> DEFINE new == [id |-> nextRow, exec |-> h.exec, node |-> h.next, status |-> "pending",
                   by |-> h.id]
           g == [h EXCEPT !.stage = "queue", !.queue = @ \ {h.next}]
<1>0. h \in Handler
  BY DEF Inv, TypeOK, ProcessType
<1>1. /\ g.id = h.id /\ g.client = h.client /\ g.exec = h.exec /\ g.node = h.node /\ g.owned = h.owned
      /\ g.stage = "queue" /\ g.queue = h.queue \ {h.next} /\ g \in Handler
      /\ new.exec = h.exec /\ new.node = h.next /\ new.status = "pending" /\ new.by = h.id
  BY <1>0 DEF Handler
<1>2. held = {h} /\ held' = {g}
  BY <1>1, AdvanceStep DEF CreateRow
<1>3. rows' = rows \cup {new} /\ UNCHANGED <<dbDef, results, handed, lost, removed>>
  BY DEF CreateRow, history
<1> HIDE DEF g, new
<1>4. h.next \in h.queue /\ RowsOf(h.exec, h.next) = {}
  BY DEF CreateRow, Inv, HandlerOK
<1>5. PICK by \in results : /\ by.id = h.id /\ by.client = h.client /\ by.exec = h.exec
                            /\ by.node = h.node /\ h.queue \cup h.owned \subseteq by.nexts
  BY DEF Inv, HandlerOK
<1>6. OneHandler' /\ HandlerOK'
  BY <1>1, <1>2, <1>3, <1>5 DEF OneHandler, HandlerOK
<1>7. OneRowPerKey'
  BY <1>1, <1>3, <1>4 DEF Inv, OneRowPerKey, RowsOf
<1>8. RowIsHandoff' /\ DoneIsJustified'
  BY <1>1, <1>3, <1>4, <1>5 DEF Inv, RowIsHandoff, DoneIsJustified
<1>9. NoneVanishes'
  <2> SUFFICES ASSUME NEW res \in results, NEW m \in res.nexts
               PROVE  \/ RowsOf(res.exec, m)' # {}
                      \/ <<res.id, m>> \in handed
                      \/ <<res.id, m>> \in lost
                      \/ g.id = res.id /\ m \in g.queue \cup g.owned
    BY <1>2, <1>3 DEF NoneVanishes
  <2>1. RowsOf(res.exec, m) # {} => RowsOf(res.exec, m)' # {}
    BY <1>3 DEF RowsOf
  <2>2. CASE res.exec = h.exec /\ m = h.next
    BY <1>1, <1>3, <2>2 DEF RowsOf
  <2>3. CASE ~(res.exec = h.exec /\ m = h.next)
    BY <1>1, <1>2, <2>1, <2>3, HandlerResult DEF Inv, NoneVanishes
  <2> QED BY <2>2, <2>3
<1>20. ResultsAreNumbered'
  BY NumbersFrame DEF CreateRow, ids, Inv
<1> QED
  BY <1>20, <1>3, <1>6, <1>7, <1>8, <1>9 DEF Inv, MissingIsRemoved

LEMMA CreateFailsStep ==
  ASSUME Inv, TypeOK', NEW h \in held, CreateFails(h)
  PROVE  Inv'
<1> DEFINE g == [h EXCEPT !.stage = "queue", !.queue = @ \ {h.next}]
<1>0. h \in Handler
  BY DEF Inv, TypeOK, ProcessType
<1>1. /\ g.id = h.id /\ g.client = h.client /\ g.exec = h.exec /\ g.node = h.node /\ g.owned = h.owned
      /\ g.stage = "queue" /\ g.queue = h.queue \ {h.next} /\ g \in Handler
  BY <1>0 DEF Handler
<1>2. held = {h} /\ held' = {g}
  BY <1>1, AdvanceStep DEF CreateFails
<1> HIDE DEF g
<1>3. /\ UNCHANGED <<dbDef, rows, results, handed, removed>>
      /\ lost' = lost \cup {<<h.id, h.next>>}
  BY DEF CreateFails
<1>4. OneHandler' /\ HandlerOK'
  BY <1>1, <1>2, <1>3 DEF Inv, OneHandler, HandlerOK
<1>5. NoneVanishes'
  <2> SUFFICES ASSUME NEW res \in results, NEW m \in res.nexts
               PROVE  \/ RowsOf(res.exec, m) # {}
                      \/ <<res.id, m>> \in handed
                      \/ <<res.id, m>> \in lost'
                      \/ g.id = res.id /\ m \in g.queue \cup g.owned
    BY <1>2, <1>3 DEF NoneVanishes, RowsOf
  <2> QED BY <1>1, <1>2, <1>3 DEF Inv, NoneVanishes
<1>20. ResultsAreNumbered'
  BY NumbersFrame DEF CreateFails, ids, Inv
<1> QED
  BY <1>20, <1>3, <1>4, <1>5 DEF Inv, MissingIsRemoved, OneRowPerKey, RowIsHandoff, DoneIsJustified

LEMMA FinishStep ==
  ASSUME Inv, TypeOK', NEW h \in held, Finish(h)
  PROVE  Inv'
<1>0. PICK kept : Answer(h, kept)
  BY DEF Finish
<1> DEFINE runs == IF h.live THEN kept \cap installed[h.client] ELSE {}
<1>1. /\ held = {h} /\ held' = {} /\ h.queue = {}
      /\ handed' = handed \cup ({h.id} \X runs)
      /\ lost' = lost \cup ({h.id} \X (h.owned \ runs))
      /\ UNCHANGED <<dbDef, rows, results, removed, inbox, nextResult>>
  BY <1>0 DEF Inv, OneHandler, Finish, Answer, ids
<1> HIDE DEF runs
<1>2. NoneVanishes'
  <2> SUFFICES ASSUME NEW res \in results, NEW m \in res.nexts
               PROVE  \/ RowsOf(res.exec, m) # {}
                      \/ <<res.id, m>> \in handed'
                      \/ <<res.id, m>> \in lost'
    BY <1>1 DEF NoneVanishes, RowsOf
  <2> QED BY <1>1 DEF Inv, NoneVanishes
<1>3. ResultsAreNumbered'
  BY <1>1, NumbersFrame DEF Inv
<1> QED
  BY <1>1, <1>2, <1>3 DEF Inv, OneHandler, HandlerOK, MissingIsRemoved, OneRowPerKey,
                          RowIsHandoff, DoneIsJustified

LEMMA PollStep ==
  ASSUME Inv, TypeOK', NEW c \in Clients, Poll(c)
  PROVE  Inv'
<1>1. UNCHANGED <<dbDef, results, held, handed, lost, removed>>
  BY DEF Poll, history
<1>2. PICK S \in SUBSET { r \in rows : r.node \notin DOMAIN dbDef } : rows' = Retired(S)
  BY DEF Poll, Stale, Pending
<1>3. rows \subseteq Row
  BY DEF Inv, TypeOK, DatabaseType
<1>4. /\ \A s \in rows' : \E r \in rows :
              /\ r.exec = s.exec /\ r.node = s.node /\ r.by = s.by
              /\ s = IF r \in S THEN [r EXCEPT !.status = "done"] ELSE r
      /\ \A e, n : RowsOf(e, n) # {} => RowsOf(e, n)' # {}
      /\ \A e, n : RowsOf(e, n) = {} => RowsOf(e, n)' = {}
      /\ OneRowPerKey'
  BY <1>2, <1>3, RetiredKeepsKeys DEF Inv
<1>5. OneHandler' /\ HandlerOK'
  BY <1>1, <1>4 DEF Inv, OneHandler, HandlerOK
<1>6. RowIsHandoff'
  BY <1>1, <1>4 DEF Inv, RowIsHandoff
<1>7. DoneIsJustified'
  <2> SUFFICES ASSUME NEW s \in rows', s.status = "done"
               PROVE  \/ \E res \in results : res.exec = s.exec /\ res.node = s.node
                      \/ s.node \in removed
    BY <1>1 DEF DoneIsJustified
  <2>1. PICK r \in rows : /\ r.exec = s.exec /\ r.node = s.node /\ r.by = s.by
                          /\ s = IF r \in S THEN [r EXCEPT !.status = "done"] ELSE r
    BY <1>4
  <2>2. CASE r \in S
    BY <1>2, <1>3, <2>1, <2>2 DEF Inv, MissingIsRemoved, Row
  <2>3. CASE r \notin S
    BY <2>1, <2>3 DEF Inv, DoneIsJustified
  <2> QED BY <2>2, <2>3
<1>8. NoneVanishes'
  <2> SUFFICES ASSUME NEW res \in results, NEW n \in res.nexts
               PROVE  \/ RowsOf(res.exec, n)' # {}
                      \/ <<res.id, n>> \in handed
                      \/ <<res.id, n>> \in lost
                      \/ \E h \in held : h.id = res.id /\ n \in h.queue \cup h.owned
    BY <1>1 DEF NoneVanishes
  <2>1. RowsOf(res.exec, n) # {} => RowsOf(res.exec, n)' # {}
    BY <1>4
  <2> QED BY <2>1 DEF Inv, NoneVanishes
<1>20. ResultsAreNumbered'
  BY NumbersFrame DEF Poll, ids, Inv
<1> QED
  BY <1>20, <1>1, <1>4, <1>5, <1>6, <1>7, <1>8 DEF Inv, MissingIsRemoved

LEMMA InvStep == Inv /\ [Next]_vars => Inv'
<1> SUFFICES ASSUME Inv, [Next]_vars PROVE Inv'
  OBVIOUS
<1>0. TypeOK'
  BY TypeStep DEF Inv
<1> DEFINE Idle == /\ inbox' \subseteq inbox /\ nextResult' = nextResult
                   /\ UNCHANGED <<dbDef, rows, results, held, handed, lost, removed>>
<1>21. ASSUME Idle PROVE Inv'
  BY <1>0, <1>21, FrameStep, NumbersFrame DEF Inv
<1> HIDE DEF Idle
<1>1. ASSUME NEW p \in inbox, RejectUnknown(p) \/ LoseRequest(p) PROVE Idle
  BY <1>1 DEF RejectUnknown, LoseRequest, history, ids, Idle
<1>2. ASSUME NEW c \in Clients, Sync(c) \/ IdleTick(c) \/ Fire(c) PROVE Idle
  BY <1>2 DEF Sync, IdleTick, Fire, server, history, ids, Idle
<1>3. ASSUME NEW c \in Clients, NEW k \in Execs \X Nodes, TakeEvent(c, k) PROVE Inv'
  BY <1>0, <1>3, TakeEventStep
<1>4. ASSUME NEW c \in Clients, NEW r \in mail[c].rows, DrainRow(c, r) \/ DeferRow(c, r)
      PROVE  Idle
  BY <1>4 DEF DrainRow, DeferRow, server, history, ids, Idle
<1>5. CASE Toggle \/ UNCHANGED vars
  BY <1>21, <1>5 DEF Toggle, vars, server, history, ids, Idle
<1>6. ASSUME NEW def \in Defs, Import(def) PROVE Inv'
  BY <1>0, <1>6, NumbersFrame DEF Import, ids, Inv, OneHandler, HandlerOK, MissingIsRemoved, OneRowPerKey,
                    RowIsHandoff, DoneIsJustified, NoneVanishes, RowsOf
<1>7. ASSUME NEW c \in Clients, LoseReply(c) \/ ClientRestart(c) PROVE Inv'
  BY <1>0, <1>7, DeafStep DEF LoseReply, ClientRestart, history, ids
<1>8. CASE ServerRestart
  <2>1. /\ held' = {} /\ inbox' = {} /\ UNCHANGED <<dbDef, rows, results, handed, removed>>
        /\ lost' = lost \cup UNION { {h.id} \X (h.queue \cup h.owned) : h \in held }
        /\ nextResult' = nextResult
    BY <1>8 DEF ServerRestart, ids
  <2>2. ASSUME NEW h \in held, NEW n \in h.queue \cup h.owned PROVE <<h.id, n>> \in lost'
    BY <2>1
  <2>3. NoneVanishes'
    BY <2>1, <2>2 DEF Inv, NoneVanishes, RowsOf
  <2>4. ResultsAreNumbered'
    BY <2>1, NumbersFrame DEF Inv
  <2> QED BY <1>0, <2>1, <2>3, <2>4 DEF Inv, OneHandler, HandlerOK, MissingIsRemoved,
                                        OneRowPerKey, RowIsHandoff, DoneIsJustified
<1>9. CASE HandlerStep
  BY <1>0, <1>1, <1>9, <1>21, AcceptStep, CompleteOwnStep, CheckRowStep, CreateRowStep,
     FinishStep DEF HandlerStep
<1>10. ASSUME NEW c \in Clients, ClientStep(c) PROVE Inv'
  BY <1>0, <1>2, <1>3, <1>4, <1>10, <1>21, PollStep DEF ClientStep
<1>11. CASE Operator
  BY <1>5, <1>6, <1>11 DEF Operator
<1>12. CASE Failure
  BY <1>0, <1>1, <1>7, <1>8, <1>12, <1>21, CreateFailsStep DEF Failure
<1> QED
  BY <1>5, <1>9, <1>10, <1>11, <1>12 DEF Next

\* The inductive invariant holds in every reachable state.
THEOREM InvCorrect == Spec => []Inv
<1> QED BY InvInit, InvStep, PTL DEF Spec

\* Enqueueing is safe although it is a query followed by an insert and the
\* table has no unique index: resultMu makes every pair of them one.
THEOREM OneRowPerKeyCorrect == Spec => []OneRowPerKey
<1>1. Inv => OneRowPerKey
  BY DEF Inv
<1> QED BY InvCorrect, <1>1, PTL

\* A row says whether it was queued for a result or for an earlier one.
LEMMA LossesAreNamed == Inv => NoSilentLoss
<1> SUFFICES ASSUME Inv, NEW res \in results, NEW n \in res.nexts
             PROVE  \/ Queued(res, n) \/ FellTogether(res, n)
                    \/ <<res.id, n>> \in handed \cup lost
                    \/ \E h \in held : h.id = res.id /\ n \in h.queue \cup h.owned
  BY DEF NoSilentLoss
<1>1. CASE RowsOf(res.exec, n) # {}
  <2>1. PICK r \in rows : r \in RowsOf(res.exec, n) /\ r.exec = res.exec /\ r.node = n
    BY <1>1 DEF RowsOf
  <2>2. PICK first \in results :
          first.id = r.by /\ first.exec = r.exec /\ r.node \in first.nexts
    BY DEF Inv, RowIsHandoff
  <2>3. CASE first.id = res.id
    BY <2>1, <2>2, <2>3 DEF Queued
  <2>4. CASE first.id # res.id
    BY <2>1, <2>2, <2>4 DEF FellTogether
  <2> QED BY <2>3, <2>4
<1>2. CASE RowsOf(res.exec, n) = {}
  BY <1>2 DEF Inv, NoneVanishes
<1> QED BY <1>1, <1>2

\* Every next of everything ingested is queued, falls together with an earlier handoff
\* of its execution, was handed back, is still in hand, or was lost to a named failure.
THEOREM NoSilentLossCorrect == Spec => []NoSilentLoss
<1> QED BY InvCorrect, LossesAreNamed, PTL

\* Rows persist: no step of any actor deletes a row or makes a done row pending.
THEOREM RowsOnlyAdvanceCorrect == Spec => RowsOnlyAdvance
<1> DEFINE Advances == \A r \in rows : r \in rows' \/ [r EXCEPT !.status = "done"] \in rows'
<1>1. ASSUME [Next]_vars PROVE [Advances]_vars
  <2>1. ASSUME NEW S, rows' = Retired(S) PROVE Advances
    BY <2>1 DEF Retired
  <2>2. ASSUME NEW h, CompleteOwn(h) PROVE Advances
    BY <2>1, <2>2 DEF CompleteOwn, Completed
  <2>3. ASSUME NEW h, CreateRow(h) PROVE Advances
    BY <2>3 DEF CreateRow
  <2>4. ASSUME NEW c, Poll(c) PROVE Advances
    BY <2>1, <2>4 DEF Poll
  <2>5. ASSUME UNCHANGED rows PROVE Advances
    BY <2>5
  <2>6. ASSUME HandlerStep PROVE Advances
    BY <2>2, <2>3, <2>5, <2>6 DEF HandlerStep, RejectUnknown, Accept, CheckRow, Finish
  <2>7. ASSUME NEW c \in Clients, ClientStep(c) PROVE Advances
    BY <2>4, <2>5, <2>7 DEF ClientStep, Sync, DrainRow, DeferRow, TakeEvent, IdleTick, Fire,
                            server
  <2>8. ASSUME Operator \/ Failure PROVE Advances
    BY <2>5, <2>8 DEF Operator, Failure, Toggle, Import, CreateFails, LoseRequest,
                      LoseReply, ClientRestart, ServerRestart
  <2> QED BY <1>1, <2>6, <2>7, <2>8 DEF Next
<1> QED BY <1>1, PTL DEF Spec, RowsOnlyAdvance

-----------------------------------------------------------------------------
(* What a client has started.                                              *)

\* Only draining, and a new process, touch what was started and what is remembered.
LEMMA StartsByDraining ==
  ASSUME TypeOK, [Next]_vars
  PROVE  \/ UNCHANGED <<log, seen>>
         \/ \E c \in Clients : \/ \E r \in mail[c].rows : DrainRow(c, r) \/ DeferRow(c, r)
                               \/ ClientRestart(c)
<1>1. ASSUME HandlerStep PROVE UNCHANGED <<log, seen>>
  BY <1>1 DEF HandlerStep, RejectUnknown, Accept, CompleteOwn, CheckRow, CreateRow, Finish,
              client, history
<1>2. ASSUME NEW c \in Clients, Poll(c) PROVE UNCHANGED <<log, seen>>
  BY <1>2 DEF Poll, history
<1>3. ASSUME NEW c \in Clients, Sync(c) \/ IdleTick(c) \/ Fire(c) PROVE UNCHANGED <<log, seen>>
  BY <1>3 DEF Sync, IdleTick, Fire, history
<1>4. ASSUME NEW c \in Clients, NEW k \in Execs \X Nodes, TakeEvent(c, k)
      PROVE  UNCHANGED <<log, seen>>
  BY <1>4 DEF TakeEvent, history
<1>5. ASSUME Operator PROVE UNCHANGED <<log, seen>>
  BY <1>5 DEF Operator, Toggle, Import, client, history
<1>6. ASSUME Failure
      PROVE  UNCHANGED <<log, seen>> \/ \E c \in Clients : ClientRestart(c)
  BY <1>6 DEF Failure, CreateFails, LoseRequest, LoseReply, ServerRestart, client, history
<1>7. ASSUME UNCHANGED vars PROVE UNCHANGED <<log, seen>>
  BY <1>7 DEF vars, client, history
<1> QED BY <1>1, <1>2, <1>3, <1>4, <1>5, <1>6, <1>7 DEF Next, ClientStep

LEMMA StartsStep ==
  ASSUME TypeOK, StartedAreSeen, OncePerProcess, [Next]_vars
  PROVE  StartedAreSeen' /\ OncePerProcess'
<1> USE DEF StartedAreSeen, OncePerProcess
<1>0. /\ \A c \in Clients : log[c] \in Seq(Nat) /\ seen[c] \subseteq Nat
      /\ log \in [Clients -> Seq(Nat)] /\ seen \in [Clients -> SUBSET Nat]
  BY DEF TypeOK, HistoryType, ClientType
<1>1. CASE UNCHANGED <<log, seen>>
  BY <1>1
<1>2. ASSUME NEW c \in Clients, NEW r \in mail[c].rows, DrainRow(c, r), r.id \notin seen[c]
      PROVE  StartedAreSeen' /\ OncePerProcess'
  <2>0. r.id \in Nat
    BY DEF TypeOK, ClientType, Mail, Row
  <2>1. seen' = [seen EXCEPT ![c] = seen[c] \cup {r.id}]
    BY <1>2 DEF DrainRow, Marked
  <2>2. CASE log' = log
    BY <1>0, <2>1, <2>2
  <2>3. CASE log' = [log EXCEPT ![c] = Append(@, r.id)]
    <3>1. /\ DOMAIN log'[c] = DOMAIN log[c] \cup {Len(log[c]) + 1}
          /\ \A i \in DOMAIN log[c] : log'[c][i] = log[c][i]
          /\ log'[c][Len(log[c]) + 1] = r.id
      BY <1>0, <2>0, <2>3
    <3>2. \A d \in Clients : d # c => log'[d] = log[d] /\ seen'[d] = seen[d]
      BY <1>0, <2>1, <2>3
    <3>3. seen'[c] = seen[c] \cup {r.id}
      BY <1>0, <2>1
    <3>4. \A i \in DOMAIN log[c] : log[c][i] # r.id
      BY <1>2
    <3> QED BY <3>1, <3>2, <3>3, <3>4
  <2> QED BY <1>2, <2>2, <2>3 DEF DrainRow
<1>3. ASSUME NEW c \in Clients, NEW r \in mail[c].rows, DrainRow(c, r), r.id \in seen[c]
      PROVE  StartedAreSeen' /\ OncePerProcess'
  BY <1>3 DEF DrainRow
<1>4. ASSUME NEW c \in Clients, NEW r \in mail[c].rows, DeferRow(c, r)
      PROVE  StartedAreSeen' /\ OncePerProcess'
  <2>1. seen' = seen /\ log' = log
    BY <1>0, <1>4 DEF DeferRow, Released, history
  <2> QED BY <2>1
<1>5. ASSUME NEW c \in Clients, ClientRestart(c) PROVE StartedAreSeen' /\ OncePerProcess'
  <2>1. /\ log'[c] = <<>>
        /\ \A d \in Clients : d # c => log'[d] = log[d] /\ seen'[d] = seen[d]
    BY <1>0, <1>5 DEF ClientRestart
  <2> QED BY <2>1
<1> QED BY <1>1, <1>2, <1>3, <1>4, <1>5, StartsByDraining

\* However often a row is delivered to a client process, and whatever becomes of the
\* credential fetches in between, the process starts it once.
THEOREM OncePerProcessCorrect == Spec => []OncePerProcess
<1> DEFINE Once == TypeOK /\ StartedAreSeen /\ OncePerProcess
<1>1. Init => Once
  BY TypeInit DEF Init, StartedAreSeen, OncePerProcess
<1>2. Once /\ [Next]_vars => Once'
  BY TypeStep, StartsStep
<1>3. Once => OncePerProcess
  OBVIOUS
<1> QED BY <1>1, <1>2, <1>3, PTL DEF Spec

-----------------------------------------------------------------------------
(* What becomes of a next while nobody edits the workflow.                 *)

LEMMA Budgets ==
  /\ {"fires", "edits", "drops", "queries", "fetches", "crashes", "reboots"} \subseteq Budget
  /\ "edits" \in Budget /\ "drops" \in Budget /\ "queries" \in Budget
  /\ "crashes" \in Budget /\ "reboots" \in Budget
  BY DEF Budget

\* Failures are counted and never forgotten.
LEMMA UsedBySpending ==
  ASSUME [Next]_vars
  PROVE  UNCHANGED used \/ \E b \in Budget : Spend(b)
<1> USE Budgets
<1>1. ASSUME HandlerStep PROVE UNCHANGED used \/ \E b \in Budget : Spend(b)
  BY <1>1 DEF HandlerStep, RejectUnknown, Accept, CompleteOwn, CheckRow, CreateRow, Finish
<1>2. ASSUME NEW c \in Clients, ClientStep(c)
      PROVE  UNCHANGED used \/ \E b \in Budget : Spend(b)
  BY <1>2 DEF ClientStep, Poll, Sync, DrainRow, DeferRow, TakeEvent, IdleTick, Fire
<1>3. ASSUME Operator PROVE \E b \in Budget : Spend(b)
  BY <1>3 DEF Operator, Toggle, Import
<1>4. ASSUME Failure PROVE \E b \in Budget : Spend(b)
  BY <1>4 DEF Failure, CreateFails, LoseRequest, LoseReply, ClientRestart, ServerRestart
<1>5. ASSUME UNCHANGED vars PROVE UNCHANGED used
  BY <1>5 DEF vars
<1> QED BY <1>1, <1>2, <1>3, <1>4, <1>5 DEF Next

\* Only the operator changes the saved definition, and only a restart reads it again.
LEMMA DefinitionFrame ==
  ASSUME [Next]_vars
  PROVE  \/ UNCHANGED <<dbDef, dbRev, enabled, memDef>>
         \/ Spend("edits")
         \/ UNCHANGED <<dbDef, dbRev, enabled>> /\ memDef' = IF enabled THEN dbDef ELSE NoDef
<1>1. ASSUME HandlerStep PROVE UNCHANGED <<dbDef, dbRev, enabled, memDef>>
  BY <1>1 DEF HandlerStep, RejectUnknown, Accept, CompleteOwn, CheckRow, CreateRow, Finish
<1>2. ASSUME NEW c \in Clients, ClientStep(c) PROVE UNCHANGED <<dbDef, dbRev, enabled, memDef>>
  BY <1>2 DEF ClientStep, Poll, Sync, DrainRow, DeferRow, TakeEvent, IdleTick, Fire, server
<1>3. ASSUME Operator PROVE Spend("edits")
  BY <1>3 DEF Operator, Toggle, Import
<1>4. ASSUME Failure, ~ServerRestart PROVE UNCHANGED <<dbDef, dbRev, enabled, memDef>>
  BY <1>4 DEF Failure, CreateFails, LoseRequest, LoseReply, ClientRestart
<1>5. ASSUME ServerRestart
      PROVE  UNCHANGED <<dbDef, dbRev, enabled>> /\ memDef' = IF enabled THEN dbDef ELSE NoDef
  BY <1>5 DEF ServerRestart
<1>6. ASSUME UNCHANGED vars PROVE UNCHANGED <<dbDef, dbRev, enabled, memDef>>
  BY <1>6 DEF vars, server
<1> QED BY <1>1, <1>2, <1>3, <1>4, <1>5, <1>6 DEF Next

LEMMA UsedGrows ==
  ASSUME TypeOK, [Next]_vars, NEW b \in Budget
  PROVE  used[b] \in Nat /\ used'[b] \in Nat /\ used[b] <= used'[b]
<1>1. used \in [Budget -> Nat]
  BY DEF TypeOK, HistoryType
<1> QED BY <1>1, UsedBySpending DEF Spend

\* Without edits the server goes on with the definition it began with.
LEMMA UneditedStep ==
  ASSUME TypeOK, Unedited, Bounds["edits"] = 0, [Next]_vars
  PROVE  Unedited' /\ UNCHANGED <<dbDef, dbRev, enabled>>
<1>1. used \in [Budget -> Nat] /\ "edits" \in Budget /\ used["edits"] = 0
  BY Budgets DEF TypeOK, HistoryType, Unedited
<1>2. ~Spend("edits")
  BY <1>1 DEF Spend
<1>3. used'["edits"] = 0
  BY <1>1, UsedBySpending DEF Spend
<1> QED BY <1>2, <1>3, DefinitionFrame DEF Unedited

LEMMA MineStays ==
  ASSUME dbDef' = dbDef
  PROVE  \A c : Mine(c)' = Mine(c) /\ Runnable(c)' = Runnable(c)
  BY DEF Mine, Runnable, AssignedNodes

\* A failure that was counted once is counted for good.
LEMMA CountsStay ==
  ASSUME TypeOK, [Next]_vars
  PROVE  /\ MayBeDeaf => MayBeDeaf'
         /\ used["queries"] + used["reboots"] > 0 => used'["queries"] + used'["reboots"] > 0
<1>1. \A b \in {"drops", "crashes", "queries", "reboots"} :
         used[b] \in Nat /\ used'[b] \in Nat /\ used[b] <= used'[b]
  BY UsedGrows, Budgets
<1> QED BY <1>1 DEF MayBeDeaf

LEMMA SpendCounts ==
  ASSUME TypeOK, NEW b \in Budget, Spend(b)
  PROVE  used'[b] > 0 /\ used' \in [Budget -> Nat]
<1>1. used \in [Budget -> Nat]
  BY DEF TypeOK, HistoryType
<1> QED BY <1>1 DEF Spend

-----------------------------------------------------------------------------
(* What rows rest on.                                                      *)

LEMMA SavedStep ==
  ASSUME TypeOK, SavedOrFailed, [Next]_vars
  PROVE  SavedOrFailed'
<1>0. /\ "queries" \in Budget
      /\ used["queries"] > 0 => used'["queries"] > 0
  BY UsedGrows, Budgets
<1>1. ASSUME UNCHANGED results PROVE SavedOrFailed'
  BY <1>0, <1>1 DEF SavedOrFailed
<1>2. ASSUME NEW p \in inbox, NEW nexts \in SUBSET Edges[p.node], Accept(p, nexts)
      PROVE  SavedOrFailed'
  <2> DEFINE exec == IF Mints(p) THEN nextExec ELSE p.exec
             result(stored) == [id |-> p.id, client |-> p.client, exec |-> exec,
                                node |-> p.node, nexts |-> nexts, stored |-> stored]
  <2>1. PICK stored \in BOOLEAN : /\ results' = results \cup {result(stored)}
                                  /\ stored \/ Spend("queries")
    BY <1>2 DEF Accept
  <2>2. result(stored).stored = stored
    OBVIOUS
  <2> HIDE DEF result
  <2>3. stored \/ used'["queries"] > 0
    BY <1>0, <2>1, SpendCounts
  <2> QED BY <1>0, <2>1, <2>2, <2>3 DEF SavedOrFailed
<1>3. ASSUME HandlerStep PROVE SavedOrFailed'
  BY <1>1, <1>2, <1>3
     DEF HandlerStep, RejectUnknown, CompleteOwn, CheckRow, CreateRow, Finish
<1>4. ASSUME NEW c \in Clients, ClientStep(c) PROVE UNCHANGED results
  BY <1>4 DEF ClientStep, Poll, Sync, DrainRow, DeferRow, TakeEvent, IdleTick, Fire, server
<1>5. ASSUME Operator \/ Failure PROVE UNCHANGED results
  BY <1>5 DEF Operator, Toggle, Import, Failure, CreateFails, LoseRequest, LoseReply,
              ClientRestart, ServerRestart
<1>6. ASSUME UNCHANGED vars PROVE UNCHANGED results
  BY <1>6 DEF vars, server
<1> QED BY <1>1, <1>3, <1>4, <1>5, <1>6 DEF Next

\* Every row is the handoff of a result that was ingested, and stored unless a save had
\* failed by then; a done row was reported or belongs to a node taken out.
THEOREM RowsAreEarnedCorrect == Spec => []RowsAreEarned
<1> DEFINE Earned == Inv /\ SavedOrFailed
<1>1. Init => Earned
  BY InvInit DEF Init, SavedOrFailed
<1>2. Earned /\ [Next]_vars => Earned'
  BY InvStep, SavedStep DEF Inv
<1>3. Earned => RowsAreEarned
  BY DEF Inv, RowsAreEarned
<1> QED BY <1>1, <1>2, <1>3, PTL DEF Spec

-----------------------------------------------------------------------------
(* The clients.                                                            *)

\* A step that takes nothing from a client and gives it nothing to run.
Quiet(c) ==
  /\ installed'[c] = installed[c] /\ rev'[c] = rev[c] /\ trig'[c] = trig[c]
  /\ jobs'[c] = jobs[c] /\ mail'[c].rows \subseteq mail[c].rows
  /\ phase'[c] = "polled" => phase[c] = "polled" /\ mail'[c] = mail[c]

LEMMA QuietStep ==
  ASSUME NEW c \in Clients, ClientOK(c), dbDef' = dbDef, Quiet(c)
  PROVE  ClientOK(c)'
<1>1. Mine(c)' = Mine(c) /\ Runnable(c)' = Runnable(c)
  BY MineStays
<1> QED BY <1>1 DEF ClientOK, Quiet

\* More of what is installed may run.
LEMMA StartsStayOK ==
  ASSUME TypeOK, NEW c \in Clients, ClientOK(c), NEW e \in Execs, NEW S, e # NoExec,
         NEW k \in Execs \X Nodes, Started(c, e, S)[k] > 0
  PROVE  k[1] # NoExec /\ k[2] \in installed[c]
<1>1. jobs[c][k] \in Nat /\ (jobs[c][k] > 0 => k[1] # NoExec /\ k[2] \in installed[c])
  BY DEF ClientOK, TypeOK, ClientType
<1>2. CASE k[1] = e /\ k[2] \in S \cap installed[c]
  BY <1>2
<1>3. CASE ~(k[1] = e /\ k[2] \in S \cap installed[c])
  BY <1>1, <1>3 DEF Started
<1> QED BY <1>2, <1>3

LEMMA JobsStep ==
  ASSUME NEW c \in Clients, ClientOK(c), dbDef' = dbDef,
         installed'[c] = installed[c], rev'[c] = rev[c], trig'[c] = trig[c],
         mail'[c].rows \subseteq mail[c].rows, phase'[c] # "polled",
         \A k \in Execs \X Nodes : jobs'[c][k] > 0 => k[1] # NoExec /\ k[2] \in installed[c]
  PROVE  ClientOK(c)'
<1>1. Mine(c)' = Mine(c) /\ Runnable(c)' = Runnable(c)
  BY MineStays
<1> QED BY <1>1 DEF ClientOK

\* What handlers and the network do to clients.
LEMMA ServerIsQuiet ==
  ASSUME TypeOK, NEW c \in Clients,
         \/ HandlerStep /\ ~(\E h \in held : Finish(h))
         \/ Operator
         \/ Failure /\ ~ClientRestart(c)
         \/ UNCHANGED vars
  PROVE  Quiet(c)
<1>0. /\ phase \in [Clients -> Phases] /\ DOMAIN mail = Clients
      /\ \A d \in Clients : DOMAIN installed = Clients
      /\ DOMAIN rev = Clients /\ DOMAIN trig = Clients /\ DOMAIN jobs = Clients
  BY DEF TypeOK, ClientType
<1>1. ASSUME NEW p \in inbox, RejectUnknown(p) \/ LoseRequest(p) PROVE Quiet(c)
  BY <1>0, <1>1 DEF RejectUnknown, LoseRequest, Quiet
<1>2. ASSUME UNCHANGED client PROVE Quiet(c)
  BY <1>2 DEF client, Quiet
<1>3. ASSUME HandlerStep, ~(\E h \in held : Finish(h)) PROVE Quiet(c)
  <2>1. ASSUME NEW h, NEW n, \/ Accept(h, n) \/ CompleteOwn(h) \/ CheckRow(h, n)
                             \/ CreateRow(h)
        PROVE  UNCHANGED client
    BY <2>1 DEF Accept, CompleteOwn, CheckRow, CreateRow
  <2> QED BY <1>1, <1>2, <1>3, <2>1 DEF HandlerStep
<1>4. ASSUME Operator PROVE Quiet(c)
  BY <1>2, <1>4 DEF Operator, Toggle, Import
<1>5. ASSUME NEW d \in Clients, LoseReply(d) PROVE Quiet(c)
  BY <1>0, <1>5 DEF LoseReply, Quiet
<1>6. ASSUME NEW d \in Clients, ClientRestart(d), d # c PROVE Quiet(c)
  BY <1>0, <1>6 DEF ClientRestart, Quiet
<1>7. ASSUME ServerRestart PROVE Quiet(c)
  BY <1>0, <1>7 DEF ServerRestart, Quiet
<1>8. ASSUME NEW h \in held, CreateFails(h) PROVE UNCHANGED client
  BY <1>8 DEF CreateFails
<1>9. ASSUME Failure, ~ClientRestart(c) PROVE Quiet(c)
  BY <1>1, <1>2, <1>5, <1>6, <1>7, <1>8, <1>9 DEF Failure
<1>10. ASSUME UNCHANGED vars PROVE Quiet(c)
  BY <1>2, <1>10 DEF vars
<1> QED BY <1>3, <1>4, <1>9, <1>10

\* One client does not touch another.
LEMMA OthersAreQuiet ==
  ASSUME TypeOK, NEW c \in Clients, NEW d \in Clients, d # c, ClientStep(d)
  PROVE  Quiet(c)
<1>0. /\ DOMAIN phase = Clients /\ DOMAIN mail = Clients /\ DOMAIN installed = Clients
      /\ DOMAIN rev = Clients /\ DOMAIN trig = Clients /\ DOMAIN jobs = Clients
  BY DEF TypeOK, ClientType
<1>1. CASE Poll(d)
  BY <1>0, <1>1 DEF Poll, Quiet
<1>2. CASE Sync(d)
  BY <1>0, <1>2 DEF Sync, Quiet
<1>3. ASSUME NEW r, DrainRow(d, r) \/ DeferRow(d, r) PROVE Quiet(c)
  BY <1>0, <1>3 DEF DrainRow, DeferRow, NextRow, Quiet
<1>4. ASSUME NEW k, TakeEvent(d, k) PROVE Quiet(c)
  BY <1>0, <1>4 DEF TakeEvent, Quiet
<1>5. CASE IdleTick(d) \/ Fire(d)
  BY <1>0, <1>5 DEF IdleTick, Fire, Quiet
<1> QED BY <1>1, <1>2, <1>3, <1>4, <1>5 DEF ClientStep

LEMMA PollOK ==
  ASSUME TypeOK, Handoffs, UNCHANGED <<dbDef, dbRev, enabled>>, NEW c \in Clients, Poll(c)
  PROVE  ClientOK(c)'
<1>0. ClientOK(c) /\ enabled /\ dbRev = 1 /\ \A r \in rows : r.exec # NoExec
  BY DEF Handoffs, Unedited, RowIsRouted
<1>1. /\ UNCHANGED <<installed, rev, trig, jobs>> /\ phase'[c] = "polled"
      /\ mail'[c] = [nodes |-> Mine(c), rev |-> 1, rows |-> Due(Mine(c))]
  BY <1>0 DEF Poll, Mine, TypeOK, ClientType
<1>2. mail'[c].nodes = Mine(c) /\ mail'[c].rev = 1 /\ \A r \in mail'[c].rows : r \in rows
  BY <1>1 DEF Due, Pending
<1>3. Mine(c)' = Mine(c) /\ Runnable(c)' = Runnable(c)
  BY MineStays
<1> QED BY <1>0, <1>1, <1>2, <1>3 DEF ClientOK

LEMMA SyncOK ==
  ASSUME TypeOK, Handoffs, dbDef' = dbDef, NEW c \in Clients, Sync(c)
  PROVE  ClientOK(c)'
<1>0. /\ ClientOK(c) /\ phase[c] = "polled" /\ mail[c].nodes = Mine(c) /\ mail[c].rev = 1
      /\ nextExec # NoExec
  BY DEF Handoffs, ClientOK, Sync, TypeOK, HistoryType, NoExec
<1> DEFINE absent == Mine(c) = {}
           same == 1 = rev[c]
           starts == ~absent /\ ~same /\ Trigger \in Runnable(c)
<1>1. /\ rev'[c] = IF absent THEN NoRev ELSE 1
      /\ trig'[c] = IF starts THEN nextExec ELSE IF absent \/ ~same THEN NoExec ELSE trig[c]
      /\ installed'[c] = IF same THEN installed[c] ELSE installed[c] \cup Runnable(c)
      /\ phase'[c] = "draining" /\ mail' = mail /\ jobs' = jobs
  BY <1>0 DEF Sync, Runnable, TypeOK, ClientType
<1> HIDE DEF absent, same, starts
<1>2. Mine(c)' = Mine(c) /\ Runnable(c)' = Runnable(c)
  BY MineStays
<1>3. /\ same => installed[c] = Runnable(c)
      /\ installed[c] \in {{}, Runnable(c)}
      /\ absent => Runnable(c) = {}
      /\ starts => Trigger \in Runnable(c)
  BY <1>0 DEF ClientOK, NoRev, same, absent, starts, Runnable
<1>4. installed'[c] = Runnable(c)
  BY <1>1, <1>3
<1>5. trig'[c] # NoExec => Trigger \in Runnable(c)
  BY <1>0, <1>1, <1>3 DEF ClientOK
<1>6. \A k \in Execs \X Nodes : jobs[c][k] > 0 => k[1] # NoExec /\ k[2] \in Runnable(c)
  BY <1>0, <1>3 DEF ClientOK
<1> QED BY <1>0, <1>1, <1>2, <1>4, <1>5, <1>6 DEF ClientOK

LEMMA DrainOK ==
  ASSUME TypeOK, Handoffs, dbDef' = dbDef, NEW c \in Clients, NEW r \in mail[c].rows,
         DrainRow(c, r) \/ DeferRow(c, r)
  PROVE  ClientOK(c)'
<1>0. /\ ClientOK(c) /\ r.exec # NoExec /\ r.exec \in Execs
      /\ DOMAIN mail = Clients /\ DOMAIN jobs = Clients
  BY DEF Handoffs, ClientOK, TypeOK, ClientType, Mail, Row
<1>1. /\ UNCHANGED <<installed, rev, trig, phase>> /\ phase[c] = "draining"
      /\ mail'[c].rows = mail[c].rows \ {r}
      /\ jobs'[c] = jobs[c] \/ jobs'[c] = Started(c, r.exec, {r.node})
  <2>1. mail[c] \in Mail
    BY DEF TypeOK, ClientType
  <2>2. mail'[c] = [mail[c] EXCEPT !.rows = @ \ {r}]
    BY <1>0 DEF DrainRow, DeferRow, NextRow
  <2>3. mail'[c].rows = mail[c].rows \ {r}
    BY <2>1, <2>2 DEF Mail
  <2> QED BY <1>0, <2>3 DEF DrainRow, DeferRow, NextRow
<1>2. \A k \in Execs \X Nodes : jobs'[c][k] > 0 => k[1] # NoExec /\ k[2] \in installed[c]
  <2>1. CASE jobs'[c] = jobs[c]
    BY <1>0, <2>1 DEF ClientOK
  <2>2. CASE jobs'[c] = Started(c, r.exec, {r.node})
    BY <1>0, <2>2, StartsStayOK
  <2> QED BY <1>1, <2>1, <2>2
<1> QED BY <1>0, <1>1, <1>2, JobsStep

LEMMA TakeEventOK ==
  ASSUME TypeOK, Handoffs, dbDef' = dbDef, NEW c \in Clients, NEW k \in Execs \X Nodes,
         TakeEvent(c, k)
  PROVE  ClientOK(c)'
<1>0. ClientOK(c) /\ jobs[c] \in [Execs \X Nodes -> Nat] /\ jobs[c][k] > 0
  BY DEF Handoffs, TypeOK, ClientType, TakeEvent
<1>1. /\ UNCHANGED <<installed, rev, trig, mail>> /\ phase'[c] = "posting"
      /\ jobs'[c] = [jobs[c] EXCEPT ![k] = @ - 1]
  BY DEF TakeEvent, TypeOK, ClientType
<1>2. \A l \in Execs \X Nodes : jobs'[c][l] > 0 => jobs[c][l] > 0
  BY <1>0, <1>1
<1> QED BY <1>0, <1>1, <1>2, JobsStep DEF ClientOK

LEMMA FireOK ==
  ASSUME TypeOK, Handoffs, dbDef' = dbDef, TriggerKind = "timer", NEW c \in Clients, Fire(c)
  PROVE  ClientOK(c)'
<1>0. /\ ClientOK(c) /\ jobs[c] \in [Execs \X Nodes -> Nat]
      /\ trig[c] # NoExec /\ Trigger \in installed[c]
  BY DEF Handoffs, TypeOK, ClientType, Fire, ClientOK
<1> DEFINE k == <<trig[c], Trigger>>
<1>1. UNCHANGED <<installed, rev, trig, mail, phase>> /\ jobs'[c] = [jobs[c] EXCEPT ![k] = @ + 1]
  BY DEF Fire, TypeOK, ClientType
<1>2. \A l \in Execs \X Nodes : jobs'[c][l] > 0 => l = k \/ jobs[c][l] > 0
  BY <1>0, <1>1
<1>3. \A l \in Execs \X Nodes : jobs'[c][l] > 0 => l[1] # NoExec /\ l[2] \in installed[c]
  BY <1>0, <1>2 DEF ClientOK
<1>4. Mine(c)' = Mine(c) /\ Runnable(c)' = Runnable(c)
  BY MineStays
<1> QED BY <1>0, <1>1, <1>3, <1>4 DEF ClientOK

LEMMA IdleTickOK ==
  ASSUME Handoffs, TypeOK, dbDef' = dbDef, NEW c \in Clients, IdleTick(c)
  PROVE  ClientOK(c)'
<1>1. ClientOK(c) /\ UNCHANGED <<installed, rev, trig, jobs, mail>> /\ phase'[c] = "idle"
  BY DEF Handoffs, IdleTick, TypeOK, ClientType
<1> QED BY <1>1, JobsStep DEF ClientOK

LEMMA RestartOK ==
  ASSUME TypeOK, dbDef' = dbDef, NEW c \in Clients, ClientRestart(c)
  PROVE  ClientOK(c)'
<1>1. /\ installed'[c] = {} /\ rev'[c] = NoRev /\ trig'[c] = NoExec
      /\ jobs'[c] = NoJobs /\ mail'[c] = NoMail /\ phase'[c] = "idle"
  BY DEF ClientRestart, TypeOK, ClientType
<1>2. mail'[c].rows = {} /\ \A k \in Execs \X Nodes : jobs'[c][k] = 0
  BY <1>1 DEF NoMail, NoJobs
<1> QED BY <1>1, <1>2 DEF ClientOK

\* The answer a client gets is run under the execution it has.
LEMMA FinishOK ==
  ASSUME TypeOK, Handoffs, dbDef' = dbDef, NEW c \in Clients, NEW h \in held, Finish(h)
  PROVE  ClientOK(c)'
<1>0. /\ ClientOK(c) /\ h.local # NoExec /\ h.local \in Execs /\ h.client \in Clients
      /\ DOMAIN jobs = Clients /\ DOMAIN phase = Clients
  BY DEF Handoffs, HandlerSplits, FromOwner, TypeOK, ClientType, ProcessType, Handler
<1>1. UNCHANGED <<installed, rev, trig, mail>>
  BY DEF Finish
<1>4. PICK kept : Answer(h, kept)
  BY DEF Finish
<1>2. CASE h.live /\ h.client = c
  <2>1. phase'[c] = "idle" /\ jobs'[c] = Started(c, h.local, kept)
    BY <1>0, <1>2, <1>4 DEF Answer
  <2>2. \A k \in Execs \X Nodes : jobs'[c][k] > 0 => k[1] # NoExec /\ k[2] \in installed[c]
    BY <1>0, <2>1, StartsStayOK
  <2> QED BY <1>0, <1>1, <2>1, <2>2, JobsStep
<1>3. CASE ~(h.live /\ h.client = c)
  <2>1. phase'[c] = phase[c] /\ jobs'[c] = jobs[c]
    BY <1>0, <1>3, <1>4 DEF Answer
  <2> QED BY <1>0, <1>1, <2>1, QuietStep DEF Quiet
<1> QED BY <1>2, <1>3

LEMMA ClientsStep ==
  ASSUME TypeOK, Handoffs, UNCHANGED <<dbDef, dbRev, enabled>>, TriggerKind = "timer",
         [Next]_vars, NEW c \in Clients
  PROVE  ClientOK(c)'
<1>0. ClientOK(c)
  BY DEF Handoffs
<1>1. ASSUME ClientStep(c) PROVE ClientOK(c)'
  BY <1>1, PollOK, SyncOK, DrainOK, TakeEventOK, FireOK, IdleTickOK DEF ClientStep
<1>2. ASSUME NEW d \in Clients, d # c, ClientStep(d) PROVE ClientOK(c)'
  BY <1>0, <1>2, OthersAreQuiet, QuietStep
<1>3. ASSUME HandlerStep PROVE ClientOK(c)'
  BY <1>0, <1>3, FinishOK, ServerIsQuiet, QuietStep
<1>4. ASSUME Operator \/ Failure \/ UNCHANGED vars PROVE ClientOK(c)'
  BY <1>0, <1>4, RestartOK, ServerIsQuiet, QuietStep
<1> QED BY <1>1, <1>2, <1>3, <1>4 DEF Next

-----------------------------------------------------------------------------
(* The posts and their handlers.                                           *)

\* A client keeps what is installed until it restarts.
LEMMA InstalledStays ==
  ASSUME TypeOK, Handoffs, UNCHANGED <<dbDef, dbRev, enabled>>, TriggerKind = "timer",
         [Next]_vars, NEW c \in Clients, ~ClientRestart(c), installed[c] = Runnable(c)
  PROVE  installed'[c] = Runnable(c)'
<1>1. installed'[c] \in {{}, Runnable(c)} /\ Runnable(c)' = Runnable(c)
  BY ClientsStep, MineStays DEF ClientOK
<1>2. installed[c] \subseteq installed'[c]
  <2>0. DOMAIN installed = Clients
    BY DEF TypeOK, ClientType
  <2>1. ASSUME NEW d \in Clients, ClientStep(d) PROVE installed[c] \subseteq installed'[c]
    BY <2>0, <2>1 DEF ClientStep, Poll, Sync, DrainRow, DeferRow, TakeEvent, IdleTick, Fire
  <2>2. ASSUME NEW h \in held, Finish(h) PROVE installed' = installed
    BY <2>2 DEF Finish
  <2> QED BY <2>1, <2>2, ServerIsQuiet DEF Next, Quiet
<1> QED BY <1>1, <1>2

LEMMA FromOwnerStays ==
  ASSUME TypeOK, Handoffs, UNCHANGED <<dbDef, dbRev, enabled>>, TriggerKind = "timer",
         [Next]_vars, NEW x, x.client \in Clients, FromOwner(x),
         ~ClientRestart(x.client) \/ ~x.live
  PROVE  FromOwner(x)'
<1>1. Mine(x.client)' = Mine(x.client)
  BY MineStays
<1>2. CASE x.live
  BY <1>1, <1>2, InstalledStays DEF FromOwner
<1>3. CASE ~x.live
  BY <1>1, <1>3, CountsStay DEF FromOwner
<1> QED BY <1>2, <1>3

\* y is the work on x, some of it done.
Follows(y, x) ==
  y.client = x.client /\ y.exec = x.exec /\ y.node = x.node /\ y.live = x.live

Shrinks(g, h) ==
  Follows(g, h) /\ g.local = h.local /\ g.owned = h.owned /\ g.queue \subseteq h.queue

PostsOK ==
  (\A x \in inbox \cup held : FromOwner(x)) /\ (\A h \in held : HandlerSplits(h))

LEMMA PostsStay ==
  ASSUME TypeOK, Handoffs, UNCHANGED <<dbDef, dbRev, enabled>>, TriggerKind = "timer",
         [Next]_vars, \A c \in Clients : ~ClientRestart(c),
         inbox' \subseteq inbox,
         \A g \in held' : \E h \in held : g = h \/ Shrinks(g, h)
  PROVE  PostsOK'
<1>0. \A x \in inbox \cup held : x.client \in Clients
  BY DEF TypeOK, ProcessType, Post, Handler
<1>1. \A x \in inbox \cup held : FromOwner(x)'
  BY <1>0, FromOwnerStays DEF Handoffs
<1>2. ASSUME NEW g \in held' PROVE FromOwner(g)' /\ HandlerSplits(g)'
  <2>1. PICK h \in held : g = h \/ Shrinks(g, h)
    OBVIOUS
  <2>2. FromOwner(h)' /\ HandlerSplits(h)
    BY <1>1 DEF Handoffs
  <2>3. FromOwner(g)'
    BY <2>1, <2>2 DEF FromOwner, Shrinks, Follows
  <2>4. HandlerSplits(g)'
    <3>1. Mine(h.client)' = Mine(h.client)
      BY MineStays
    <3> QED BY <2>1, <2>2, <3>1 DEF HandlerSplits, Shrinks, Follows
  <2> QED BY <2>3, <2>4
<1> QED BY <1>1, <1>2 DEF PostsOK

\* A handler that goes on with its queue.
LEMMA ShrinkingSteps ==
  ASSUME TypeOK, Handoffs, NEW h \in held,
         \/ CompleteOwn(h)
         \/ \E n \in h.queue : CheckRow(h, n)
         \/ CreateRow(h) \/ CreateFails(h) \/ Finish(h)
  PROVE  /\ inbox' = inbox
         /\ \A g \in held' : \E f \in held : g = f \/ Shrinks(g, f)
<1>0. h \in Handler /\ h.exec # NoExec
  BY DEF TypeOK, ProcessType, Handoffs, FromOwner
<1>1. CASE CompleteOwn(h)
  <2>1. Shrinks([h EXCEPT !.stage = "queue"], h)
    BY <1>0 DEF Shrinks, Follows, Handler
  <2> QED BY <1>0, <1>1, <2>1 DEF CompleteOwn, Advance
<1>2. ASSUME NEW n \in h.queue, CheckRow(h, n)
      PROVE  inbox' = inbox /\ \A g \in held' : \E f \in held : g = f \/ Shrinks(g, f)
  <2>1. /\ Shrinks([h EXCEPT !.queue = @ \ {n}], h)
        /\ Shrinks([h EXCEPT !.stage = "create", !.next = n], h)
    BY <1>0 DEF Shrinks, Follows, Handler
  <2> QED BY <1>2, <2>1 DEF CheckRow, Advance
<1>3. CASE CreateRow(h) \/ CreateFails(h)
  <2>1. Shrinks([h EXCEPT !.stage = "queue", !.queue = @ \ {h.next}], h)
    BY <1>0 DEF Shrinks, Follows, Handler
  <2> QED BY <1>3, <2>1 DEF CreateRow, CreateFails, Advance
<1>4. CASE Finish(h)
  BY <1>4 DEF Finish
<1> QED BY <1>1, <1>2, <1>3, <1>4

LEMMA AcceptPosts ==
  ASSUME TypeOK, Handoffs, UNCHANGED <<dbDef, dbRev, enabled>>, TriggerKind = "timer",
         [Next]_vars, NEW p \in inbox, NEW nexts \in SUBSET Edges[p.node], Accept(p, nexts),
         \A c \in Clients : ~ClientRestart(c)
  PROVE  PostsOK'
<1>0. p.client \in Clients /\ p.exec # NoExec /\ FromOwner(p) /\ memDef = dbDef
  BY DEF TypeOK, ProcessType, Post, Handoffs, FromOwner, Unedited
<1>1. PICK g : /\ held' = held \cup {g} /\ inbox' \subseteq inbox
               /\ g.client = p.client /\ g.local = p.exec /\ g.exec = p.exec
               /\ g.node = p.node /\ g.live = p.live
               /\ g.owned = nexts \cap Mine(p.client) /\ g.queue = nexts \ g.owned
  <2> DEFINE owned == nexts \cap Mine(p.client)
             new == [id |-> p.id, client |-> p.client, local |-> p.exec, exec |-> p.exec,
                     node |-> p.node, live |-> p.live, stage |-> "own", owned |-> owned,
                     queue |-> nexts \ owned, next |-> p.node]
  <2>1. held' = held \cup {new} /\ inbox' \subseteq inbox
    BY <1>0 DEF Accept, Mints, OwnedBy, Routed, DefFor, Mine
  <2>2. /\ new.client = p.client /\ new.local = p.exec /\ new.exec = p.exec
        /\ new.node = p.node /\ new.live = p.live
        /\ new.owned = owned /\ new.queue = nexts \ new.owned
    OBVIOUS
  <2> HIDE DEF new
  <2> QED BY <2>1, <2>2
<1>2. \A x \in inbox \cup held : x.client \in Clients
  BY DEF TypeOK, ProcessType, Post, Handler
<1>3. \A x \in inbox \cup held : FromOwner(x)'
  BY <1>2, FromOwnerStays DEF Handoffs
<1>4. FromOwner(g)' /\ HandlerSplits(g)'
  <2>1. FromOwner(p)' /\ Mine(p.client)' = Mine(p.client)
    BY <1>3, MineStays
  <2>2. FromOwner(g)'
    BY <1>1, <2>1 DEF FromOwner
  <2>3. HandlerSplits(g)'
    BY <1>1, <2>1 DEF HandlerSplits
  <2> QED BY <2>2, <2>3
<1>5. ASSUME NEW h \in held PROVE HandlerSplits(h)'
  BY MineStays DEF Handoffs, HandlerSplits
<1> QED BY <1>1, <1>3, <1>4, <1>5 DEF PostsOK

LEMMA TakeEventPosts ==
  ASSUME TypeOK, Handoffs, UNCHANGED <<dbDef, dbRev, enabled>>, TriggerKind = "timer",
         [Next]_vars, NEW c \in Clients, NEW k \in Execs \X Nodes, TakeEvent(c, k),
         \A d \in Clients : ~ClientRestart(d)
  PROVE  PostsOK'
<1>1. PICK p : /\ inbox' = inbox \cup {p} /\ held' = held /\ jobs[c][k] > 0
               /\ p.client = c /\ p.exec = k[1] /\ p.node = k[2] /\ p.live = TRUE
  <2> DEFINE new == [id |-> nextResult, client |-> c, exec |-> k[1], node |-> k[2],
                     live |-> TRUE]
  <2>1. inbox' = inbox \cup {new} /\ held' = held /\ jobs[c][k] > 0
    BY DEF TakeEvent
  <2>2. new.client = c /\ new.exec = k[1] /\ new.node = k[2] /\ new.live = TRUE
    OBVIOUS
  <2> HIDE DEF new
  <2> QED BY <2>1, <2>2
<1>2. ClientOK(c)
  BY DEF Handoffs
<1>3. FromOwner(p)
  BY <1>1, <1>2 DEF FromOwner, ClientOK, Runnable
<1>4. \A x \in inbox \cup held : x.client \in Clients
  BY DEF TypeOK, ProcessType, Post, Handler
<1>5. FromOwner(p)'
  BY <1>1, <1>3, FromOwnerStays
<1>6. \A x \in inbox \cup held : FromOwner(x)'
  BY <1>4, FromOwnerStays DEF Handoffs
<1>7. ASSUME NEW h \in held PROVE HandlerSplits(h)'
  BY MineStays DEF Handoffs, HandlerSplits
<1> QED BY <1>1, <1>5, <1>6, <1>7 DEF PostsOK

LEMMA DeafPosts ==
  ASSUME TypeOK, Handoffs, UNCHANGED <<dbDef, dbRev, enabled>>, TriggerKind = "timer",
         [Next]_vars, NEW c \in Clients, LoseReply(c) \/ ClientRestart(c)
  PROVE  PostsOK'
<1>1. inbox' = Deaf(c, inbox) /\ held' = Deaf(c, held) /\ MayBeDeaf'
  <2>1. /\ used'["crashes"] \in Nat /\ used'["drops"] \in Nat
        /\ used'["crashes"] > 0 \/ used'["drops"] > 0
    BY SpendCounts, Budgets DEF LoseReply, ClientRestart
  <2> QED BY <2>1 DEF LoseReply, ClientRestart, MayBeDeaf
<1>2. \A x \in inbox \cup held : x \in Post \cup Handler
  BY DEF TypeOK, ProcessType
<1>3. ASSUME NEW x \in inbox \cup held, NEW y,
             y = IF x.client = c THEN [x EXCEPT !.live = FALSE] ELSE x
      PROVE  FromOwner(y)'
  <2>0. x.client \in Clients /\ FromOwner(x)
    BY <1>2 DEF Post, Handler, Handoffs
  <2>1. CASE x.client = c
    <3>1. y.client = c /\ y.exec = x.exec /\ y.node = x.node /\ y.live = FALSE
      BY <1>2, <1>3, <2>1 DEF Post, Handler
    <3>2. Mine(c)' = Mine(c)
      BY MineStays
    <3> QED BY <1>1, <2>0, <2>1, <3>1, <3>2 DEF FromOwner
  <2>2. CASE x.client # c
    <3>1. ~ClientRestart(x.client) \/ UNCHANGED installed \/ installed'[x.client] = installed[x.client]
      BY <2>0, <2>2 DEF ClientRestart, LoseReply, TypeOK, ClientType
    <3>2. installed'[x.client] = installed[x.client]
      BY <2>0, <2>2 DEF ClientRestart, LoseReply, TypeOK, ClientType
    <3>3. Mine(x.client)' = Mine(x.client) /\ Runnable(x.client)' = Runnable(x.client)
      BY MineStays
    <3> QED BY <1>1, <1>3, <2>0, <2>2, <3>2, <3>3 DEF FromOwner
  <2> QED BY <2>1, <2>2
<1>4. ASSUME NEW h \in held, NEW g,
             g = IF h.client = c THEN [h EXCEPT !.live = FALSE] ELSE h
      PROVE  HandlerSplits(g)'
  <2>1. h \in Handler /\ HandlerSplits(h) /\ Mine(h.client)' = Mine(h.client)
    BY MineStays DEF TypeOK, ProcessType, Handoffs
  <2>2. /\ g.client = h.client /\ g.local = h.local /\ g.exec = h.exec /\ g.node = h.node
        /\ g.owned = h.owned /\ g.queue = h.queue
    BY <1>4, <2>1 DEF Handler
  <2> QED BY <2>1, <2>2 DEF HandlerSplits
<1> QED BY <1>1, <1>3, <1>4 DEF PostsOK, Deaf

LEMMA PostsStep ==
  ASSUME TypeOK, Handoffs, UNCHANGED <<dbDef, dbRev, enabled>>, TriggerKind = "timer",
         [Next]_vars
  PROVE  PostsOK'
<1>1. CASE \E c \in Clients : ClientRestart(c)
  BY <1>1, DeafPosts
<1>2. CASE \A c \in Clients : ~ClientRestart(c)
  <2> USE <1>2
  <2>1. ASSUME HandlerStep PROVE PostsOK'
    <3>1. ASSUME NEW p \in inbox, RejectUnknown(p) PROVE PostsOK'
      <4>1. inbox' \subseteq inbox /\ held' = held
        BY <3>1 DEF RejectUnknown
      <4> QED BY <4>1, PostsStay
    <3>2. ASSUME NEW h \in held, \/ CompleteOwn(h) \/ (\E n \in h.queue : CheckRow(h, n))
                                 \/ CreateRow(h) \/ Finish(h)
          PROVE PostsOK'
      BY <3>2, ShrinkingSteps, PostsStay
    <3> QED BY <2>1, <3>1, <3>2, AcceptPosts DEF HandlerStep
  <2>2. ASSUME NEW c \in Clients, ClientStep(c) PROVE PostsOK'
    <3>1. ASSUME NEW k \in Execs \X Nodes, TakeEvent(c, k) PROVE PostsOK'
      BY <3>1, TakeEventPosts
    <3>2. ASSUME UNCHANGED <<inbox, held>> PROVE PostsOK'
      BY <3>2, PostsStay
    <3>3. ASSUME NEW r, \/ Poll(c) \/ Sync(c) \/ DrainRow(c, r) \/ DeferRow(c, r)
                        \/ IdleTick(c) \/ Fire(c)
          PROVE UNCHANGED <<inbox, held>>
      BY <3>3 DEF Poll, Sync, DrainRow, DeferRow, IdleTick, Fire, server
    <3> QED BY <2>2, <3>1, <3>2, <3>3 DEF ClientStep
  <2>3. ASSUME Operator PROVE PostsOK'
    BY <2>3, PostsStay DEF Operator, Toggle, Import
  <2>4. ASSUME Failure PROVE PostsOK'
    <3>1. ASSUME NEW h \in held, CreateFails(h) PROVE PostsOK'
      BY <3>1, ShrinkingSteps, PostsStay
    <3>2. ASSUME NEW p \in inbox, LoseRequest(p) PROVE PostsOK'
      BY <3>2, PostsStay DEF LoseRequest
    <3>3. ASSUME ServerRestart PROVE PostsOK'
      BY <3>3, PostsStay DEF ServerRestart
    <3> QED BY <2>4, <3>1, <3>2, <3>3, DeafPosts DEF Failure
  <2>5. ASSUME UNCHANGED vars PROVE PostsOK'
    BY <2>5, PostsStay DEF vars, server
  <2> QED BY <2>1, <2>2, <2>3, <2>4, <2>5 DEF Next
<1> QED BY <1>1, <1>2

-----------------------------------------------------------------------------
(* What is kept of a handoff, and what is lost of it.                      *)

LEMMA ResultsStep ==
  ASSUME TypeOK, Handoffs, dbDef' = dbDef, [Next]_vars
  PROVE  /\ results \subseteq results'
         /\ \A res \in results' :
              res.node \in Mine(res.client)' /\ res.nexts \subseteq Edges[res.node]
<1>1. \A c : Mine(c)' = Mine(c)
  BY MineStays
<1>2. ASSUME results' = results
      PROVE  /\ results \subseteq results'
             /\ \A res \in results' :
                  res.node \in Mine(res.client)' /\ res.nexts \subseteq Edges[res.node]
  BY <1>1, <1>2 DEF Handoffs
<1>3. ASSUME NEW p \in inbox, NEW nexts \in SUBSET Edges[p.node], Accept(p, nexts)
      PROVE  /\ results \subseteq results'
             /\ \A res \in results' :
                  res.node \in Mine(res.client)' /\ res.nexts \subseteq Edges[res.node]
  <2>1. PICK new : /\ results' = results \cup {new}
                   /\ new.client = p.client /\ new.node = p.node /\ new.nexts = nexts
    <3> DEFINE exec == IF Mints(p) THEN nextExec ELSE p.exec
               new(stored) == [id |-> p.id, client |-> p.client, exec |-> exec,
                               node |-> p.node, nexts |-> nexts, stored |-> stored]
    <3>1. PICK stored \in BOOLEAN : results' = results \cup {new(stored)}
      BY <1>3 DEF Accept
    <3>2. /\ new(stored).client = p.client /\ new(stored).node = p.node
          /\ new(stored).nexts = nexts
      OBVIOUS
    <3> HIDE DEF new
    <3> QED BY <3>1, <3>2
  <2>2. p.node \in Mine(p.client)
    BY DEF Handoffs, FromOwner
  <2> QED BY <1>1, <2>1, <2>2 DEF Handoffs
<1>4. ASSUME NEW h, NEW n, \/ RejectUnknown(h) \/ CompleteOwn(h) \/ CheckRow(h, n)
                           \/ CreateRow(h) \/ Finish(h)
      PROVE  results' = results
  BY <1>4 DEF RejectUnknown, CompleteOwn, CheckRow, CreateRow, Finish
<1>5. ASSUME NEW c \in Clients, ClientStep(c) PROVE results' = results
  BY <1>5 DEF ClientStep, Poll, Sync, DrainRow, DeferRow, TakeEvent, IdleTick, Fire, server
<1>6. ASSUME Operator \/ Failure \/ UNCHANGED vars PROVE results' = results
  BY <1>6 DEF Operator, Toggle, Import, Failure, CreateFails, LoseRequest, LoseReply,
              ClientRestart, ServerRestart, vars, server
<1> QED BY <1>2, <1>3, <1>4, <1>5, <1>6 DEF Next, HandlerStep

LEMMA LedStays ==
  ASSUME results \subseteq results'
  PROVE  /\ \A c, e, n : Led(c, e, n) => Led(c, e, n)'
         /\ dbDef' = dbDef => \A x : HandedIsOwn(x) => HandedIsOwn(x)'
  BY MineStays DEF Led, HandedIsOwn

\* What a handler works on was led to by the result it works for.
LEMMA HandlerIsLed ==
  ASSUME Inv, Handoffs, NEW h \in held
  PROVE  /\ \A n \in h.queue : Led(h.client, h.exec, n) /\ n \notin Mine(h.client)
         /\ \A n \in h.owned : Led(h.client, h.exec, n) /\ n \in Mine(h.client)
         /\ \A n \in h.owned : HandedIsOwn(<<h.id, n>>)
         /\ h.exec # NoExec /\ h.client \in Clients
         /\ IF h.live THEN installed[h.client] = Runnable(h.client) ELSE MayBeDeaf
<1>1. PICK res \in results : /\ res.client = h.client /\ res.exec = h.exec /\ res.id = h.id
                             /\ h.queue \cup h.owned \subseteq res.nexts
  BY DEF Inv, HandlerOK
<1>2. HandlerSplits(h) /\ FromOwner(h) /\ h.client \in Clients
  BY DEF Handoffs, Inv, TypeOK, ProcessType, Handler
<1> QED BY <1>1, <1>2 DEF Led, HandedIsOwn, HandlerSplits, FromOwner

LEMMA RoutedRowsStep ==
  ASSUME Inv, Handoffs, dbDef' = dbDef, [Next]_vars
  PROVE  \A r \in rows' : RowIsRouted(r)'
<1>1. results \subseteq results' /\ \A c : Mine(c)' = Mine(c)
  BY ResultsStep, MineStays DEF Inv
<1>2. ASSUME NEW r, NEW s \in rows, r.exec = s.exec /\ r.node = s.node
      PROVE  RowIsRouted(r)'
  BY <1>1, <1>2, LedStays DEF Handoffs, RowIsRouted
<1>3. ASSUME NEW S, rows' = Retired(S) PROVE \A r \in rows' : RowIsRouted(r)'
  <2>1. ASSUME NEW r \in rows'
        PROVE  \E s \in rows : r.exec = s.exec /\ r.node = s.node
    <3>1. PICK s \in rows : r = IF s \in S THEN [s EXCEPT !.status = "done"] ELSE s
      BY <1>3 DEF Retired
    <3>2. s \in Row
      BY DEF Inv, TypeOK, DatabaseType
    <3> QED BY <3>1, <3>2 DEF Row
  <2> QED BY <1>2, <2>1
<1>4. ASSUME rows' = rows PROVE \A r \in rows' : RowIsRouted(r)'
  BY <1>2, <1>4
<1>5. ASSUME NEW h \in held, CreateRow(h) PROVE \A r \in rows' : RowIsRouted(r)'
  <2>1. h.next \in h.queue
    BY <1>5 DEF Inv, HandlerOK, CreateRow
  <2>2. PICK new : rows' = rows \cup {new} /\ new.exec = h.exec /\ new.node = h.next
    <3> DEFINE new == [id |-> nextRow, exec |-> h.exec, node |-> h.next, status |-> "pending",
                       by |-> h.id]
    <3>1. rows' = rows \cup {new}
      BY <1>5 DEF CreateRow
    <3>2. new.exec = h.exec /\ new.node = h.next
      OBVIOUS
    <3> HIDE DEF new
    <3> QED BY <3>1, <3>2
  <2>3. RowIsRouted(new)'
    BY <1>1, <2>1, <2>2, HandlerIsLed, LedStays DEF RowIsRouted
  <2> QED BY <1>2, <2>2, <2>3
<1>6. ASSUME NEW h \in held, CompleteOwn(h) PROVE \A r \in rows' : RowIsRouted(r)'
  BY <1>3, <1>4, <1>6, HandlerIsLed DEF CompleteOwn, Completed
<1>7. ASSUME NEW h, NEW n, RejectUnknown(h) \/ Accept(h, n) \/ CheckRow(h, n) \/ Finish(h)
      PROVE  rows' = rows
  BY <1>7 DEF RejectUnknown, Accept, CheckRow, Finish
<1>8. ASSUME NEW c \in Clients, Poll(c) PROVE \A r \in rows' : RowIsRouted(r)'
  BY <1>3, <1>8 DEF Poll
<1>9. ASSUME NEW c \in Clients, ClientStep(c), ~Poll(c) PROVE rows' = rows
  BY <1>9 DEF ClientStep, Sync, DrainRow, DeferRow, TakeEvent, IdleTick, Fire, server
<1>10. ASSUME Operator \/ Failure \/ UNCHANGED vars PROVE rows' = rows
  BY <1>10 DEF Operator, Toggle, Import, Failure, CreateFails, LoseRequest, LoseReply,
               ClientRestart, ServerRestart, vars, server
<1> QED BY <1>4, <1>5, <1>6, <1>7, <1>8, <1>9, <1>10 DEF Next, HandlerStep

\* Only the end of a handler hands out, and only it and failures lose.
LEMMA OutcomesStep ==
  ASSUME Inv, Handoffs, UNCHANGED <<dbDef, dbRev, enabled>>, [Next]_vars
  PROVE  /\ \A x \in handed' : HandedIsOwn(x)'
         /\ \A l \in lost' : LossIsOwn(l)'
<1> DEFINE HandedOK == \A x \in handed' : HandedIsOwn(x)'
           LostOK == \A l \in lost' : LossIsOwn(l)'
<1>0. results \subseteq results' /\ \A c : Mine(c)' = Mine(c)
  BY ResultsStep, MineStays DEF Inv
<1>1. \A l : LossIsOwn(l) => LossIsOwn(l)'
  BY <1>0, CountsStay DEF Inv, LossIsOwn
<1>2. ASSUME handed' = handed PROVE HandedOK
  BY <1>0, <1>2, LedStays DEF Handoffs
<1>3. ASSUME lost' = lost PROVE LostOK
  BY <1>1, <1>3 DEF Handoffs
<1>4. ASSUME Spend("queries") \/ Spend("reboots") PROVE LostOK
  <2>1. /\ used'["queries"] \in Nat /\ used'["reboots"] \in Nat
        /\ used'["queries"] > 0 \/ used'["reboots"] > 0
    BY <1>4, SpendCounts, Budgets DEF Inv
  <2> QED BY <2>1 DEF LossIsOwn
<1>5. ASSUME NEW h \in held, CompleteOwn(h) PROVE HandedOK /\ LostOK
  BY <1>2, <1>3, <1>5, HandlerIsLed DEF CompleteOwn
<1>6. ASSUME NEW h \in held, CreateFails(h) PROVE HandedOK /\ LostOK
  BY <1>2, <1>4, <1>6 DEF CreateFails
<1>7. ASSUME ServerRestart PROVE HandedOK /\ LostOK
  BY <1>2, <1>4, <1>7 DEF ServerRestart
<1>8. ASSUME NEW h \in held, Finish(h) PROVE HandedOK /\ LostOK
  <2>1. Filtered(h) = h.owned
    BY HandlerIsLed DEF Filtered, Mine, AssignedNodes
  <2>2. Answer(h, h.owned)
    BY <1>8, <2>1 DEF Finish
  <2> DEFINE runs == IF h.live THEN h.owned \cap installed[h.client] ELSE {}
  <2>3. /\ handed' = handed \cup ({h.id} \X runs)
        /\ lost' = lost \cup ({h.id} \X (h.owned \ runs))
    BY <2>2 DEF Answer
  <2>4. /\ runs \subseteq h.owned
        /\ \A n \in h.owned \ runs : MayBeDeaf \/ n \in Broken
    BY HandlerIsLed DEF Runnable, HandedIsOwn
  <2> HIDE DEF runs
  <2>5. HandedOK
    <3>1. ASSUME NEW n \in runs PROVE HandedIsOwn(<<h.id, n>>)'
      BY <1>0, <2>4, <3>1, HandlerIsLed, LedStays
    <3>2. ASSUME NEW x \in handed PROVE HandedIsOwn(x)'
      BY <1>0, <3>2, LedStays DEF Handoffs
    <3> QED BY <2>3, <3>1, <3>2
  <2>6. LostOK
    <3>1. ASSUME NEW n \in h.owned \ runs PROVE LossIsOwn(<<h.id, n>>)'
      <4>1. LossIsOwn(<<h.id, n>>)
        BY <2>4, <3>1, HandlerIsLed DEF LossIsOwn, HandedIsOwn
      <4> QED BY <1>1, <4>1
    <3>2. ASSUME NEW l \in lost PROVE LossIsOwn(l)'
      BY <1>1, <3>2 DEF Handoffs
    <3> QED BY <2>3, <3>1, <3>2
  <2> QED BY <2>5, <2>6
<1>9. ASSUME UNCHANGED <<handed, lost>> PROVE HandedOK /\ LostOK
  BY <1>2, <1>3, <1>9
<1>10. ASSUME NEW h, NEW n, RejectUnknown(h) \/ Accept(h, n) \/ CheckRow(h, n) \/ CreateRow(h)
      PROVE  UNCHANGED <<handed, lost>>
  BY <1>10 DEF RejectUnknown, Accept, CheckRow, CreateRow, history
<1>11. ASSUME NEW c \in Clients, ClientStep(c) PROVE UNCHANGED <<handed, lost>>
  BY <1>11 DEF ClientStep, Poll, Sync, DrainRow, DeferRow, TakeEvent, IdleTick, Fire, history
<1>12. ASSUME Operator \/ UNCHANGED vars PROVE HandedOK /\ LostOK
  BY <1>2, <1>3, <1>12 DEF Operator, Toggle, Import, vars, history
<1>13. ASSUME Failure PROVE HandedOK /\ LostOK
  BY <1>6, <1>7, <1>9, <1>13 DEF Failure, LoseRequest, LoseReply, ClientRestart, history
<1> QED
  BY <1>5, <1>8, <1>9, <1>10, <1>11, <1>12, <1>13 DEF Next, HandlerStep

LEMMA HandoffsInit ==
  ASSUME Init, TriggerKind = "timer"
  PROVE  Handoffs
<1>1. Unedited
  BY Budgets DEF Init, Unedited
<1>2. ASSUME NEW c \in Clients PROVE ClientOK(c)
  <2>1. /\ installed[c] = {} /\ rev[c] = NoRev /\ trig[c] = NoExec
        /\ jobs[c] = NoJobs /\ mail[c] = NoMail /\ phase[c] = "idle"
    BY DEF Init
  <2>2. mail[c].rows = {} /\ \A k \in Execs \X Nodes : jobs[c][k] = 0
    BY <2>1 DEF NoMail, NoJobs
  <2> QED BY <2>1, <2>2 DEF ClientOK
<1>3. inbox = {} /\ held = {} /\ results = {} /\ rows = {} /\ handed = {} /\ lost = {}
  BY DEF Init
<1> QED BY <1>1, <1>2, <1>3 DEF Handoffs

LEMMA HandoffsStep ==
  ASSUME Inv, Handoffs, TriggerKind = "timer", Bounds["edits"] = 0, [Next]_vars
  PROVE  Handoffs'
<1>0. TypeOK /\ Unedited
  BY DEF Inv, Handoffs
<1>1. Unedited' /\ UNCHANGED <<dbDef, dbRev, enabled>>
  BY <1>0, UneditedStep
<1>2. \A c \in Clients : ClientOK(c)'
  BY <1>0, <1>1, ClientsStep
<1>3. PostsOK'
  BY <1>0, <1>1, PostsStep
<1>4. \A res \in results' : res.node \in Mine(res.client)' /\ res.nexts \subseteq Edges[res.node]
  BY <1>0, <1>1, ResultsStep
<1>5. \A r \in rows' : RowIsRouted(r)'
  BY <1>1, RoutedRowsStep
<1>6. /\ \A x \in handed' : HandedIsOwn(x)'
      /\ \A l \in lost' : LossIsOwn(l)'
  BY <1>1, OutcomesStep
<1> QED BY <1>1, <1>2, <1>3, <1>4, <1>5, <1>6 DEF Handoffs, PostsOK

\* Two results that lead to a node agree on whose it is.
LEMMA LeadersAgree ==
  ASSUME Handoffs, TypeOK, OwnersAgree(dbDef), NEW c \in Clients, NEW d \in Clients,
         NEW e, NEW f, NEW n, Led(c, e, n), Led(d, f, n)
  PROVE  n \in Mine(c) <=> n \in Mine(d)
<1>1. PICK r \in results : r.client = c /\ n \in r.nexts
  BY DEF Led
<1>2. PICK s \in results : s.client = d /\ n \in s.nexts
  BY DEF Led
<1>3. /\ r.node \in Mine(c) /\ n \in Edges[r.node] /\ r.node \in Nodes
      /\ s.node \in Mine(d) /\ n \in Edges[s.node] /\ s.node \in Nodes
  BY <1>1, <1>2 DEF Handoffs, TypeOK, DatabaseType, Result
<1> QED BY <1>3 DEF OwnersAgree, Mine

LEMMA OneOwnerStands ==
  ASSUME Inv, Handoffs, OwnersAgree(dbDef)
  PROVE  EveryNextHasAnOwner /\ NeverReturnedAndQueued
<1>1. NeverReturnedAndQueued
  <2> SUFFICES ASSUME NEW res \in results, NEW r \in rows, <<res.id, r.node>> \in handed
               PROVE  FALSE
    BY DEF NeverReturnedAndQueued
  <2>1. HandedIsOwn(<<res.id, r.node>>)
    BY DEF Handoffs
  <2>2. r.node \in res.nexts \cap Mine(res.client)
    BY <2>1 DEF HandedIsOwn, Inv, ResultsAreNumbered
  <2>3. res.client \in Clients /\ Led(res.client, res.exec, r.node)
    BY <2>2 DEF Inv, TypeOK, DatabaseType, Result, Led
  <2>4. PICK d \in Clients : Led(d, r.exec, r.node) /\ r.node \notin Mine(d)
    BY DEF Handoffs, RowIsRouted
  <2> QED BY <2>2, <2>3, <2>4, LeadersAgree DEF Inv
<1>2. EveryNextHasAnOwner
  <2> SUFFICES ASSUME held = {}, NEW res \in results, NEW n \in res.nexts,
                      ~Queued(res, n), ~FellTogether(res, n), <<res.id, n>> \notin handed,
                      ~(used["queries"] + used["reboots"] > 0)
               PROVE  /\ n \in AssignedNodes(res.client, dbDef)
                      /\ used["crashes"] + used["drops"] > 0 \/ n \in Broken
    BY DEF EveryNextHasAnOwner
  <2>1. <<res.id, n>> \in lost
    BY LossesAreNamed DEF NoSilentLoss
  <2>2. PICK own \in results : /\ own.id = res.id /\ n \in own.nexts \cap Mine(own.client)
                               /\ MayBeDeaf \/ n \in Broken
    BY <2>1 DEF Handoffs, LossIsOwn
  <2>3. own = res
    BY <2>2 DEF Inv, ResultsAreNumbered
  <2> QED BY <2>2, <2>3 DEF Mine, MayBeDeaf
<1> QED BY <1>1, <1>2

\* While the workflow is not edited, and a timer gives each of its results an
\* execution, every next of every result goes to one side and to one only, which starts
\* it once, or falls together with an earlier one of its execution, however requests,
\* restarts and failures interleave; the clients that lead to a node must agree on
\* whose it is.
THEOREM EveryNextHasOneOwnerCorrect ==
  ASSUME TriggerKind = "timer", Bounds["edits"] = 0,
         \A def \in Defs : OwnersAgree(def)
  PROVE  Spec => []EveryNextHasOneOwner
<1>1. Init => Handoffs
  BY HandoffsInit
<1>2. Inv /\ Handoffs /\ [Next]_vars => Handoffs'
  BY HandoffsStep
<1>3. Inv /\ Handoffs => EveryNextHasAnOwner /\ NeverReturnedAndQueued
  BY OneOwnerStands DEF Handoffs, Unedited
<1>4. EveryNextHasAnOwner /\ NeverReturnedAndQueued /\ OncePerProcess => EveryNextHasOneOwner
  BY DEF EveryNextHasOneOwner
<1> QED BY <1>1, <1>2, <1>3, <1>4, InvCorrect, OncePerProcessCorrect, PTL DEF Spec

-----------------------------------------------------------------------------
(* Who starts a pending row.                                               *)

RowsAreNumbered ==
  (\A r \in rows : r.id < nextRow) /\ (\A r, s \in rows : r.id = s.id => r = s)
Known(c, id) == \E r \in rows : r.id = id /\ r.node \in Mine(c)

\* The table grows by a fresh id, or keeps its ids.
LEMMA RowsChange ==
  ASSUME [Next]_vars
  PROVE  \/ UNCHANGED <<rows, nextRow>>
         \/ nextRow' = nextRow /\ \E S : rows' = Retired(S)
         \/ nextRow' = nextRow + 1
            /\ \E e, n, i : rows' = rows \cup {[id |-> nextRow, exec |-> e, node |-> n,
                                                status |-> "pending", by |-> i]}
<1> DEFINE Retires == nextRow' = nextRow /\ \E S : rows' = Retired(S)
<1>1. ASSUME NEW h \in held, CompleteOwn(h) PROVE UNCHANGED <<rows, nextRow>> \/ Retires
  BY <1>1 DEF CompleteOwn, Completed, ids
<1>2. ASSUME NEW c \in Clients, Poll(c) PROVE Retires
  BY <1>2 DEF Poll, ids
<1>3. ASSUME NEW h \in held, CreateRow(h)
      PROVE  nextRow' = nextRow + 1
             /\ \E e, n, i : rows' = rows \cup {[id |-> nextRow, exec |-> e, node |-> n,
                                                 status |-> "pending", by |-> i]}
  BY <1>3 DEF CreateRow
<1>4. ASSUME NEW h, NEW n, RejectUnknown(h) \/ Accept(h, n) \/ CheckRow(h, n) \/ Finish(h)
      PROVE  UNCHANGED <<rows, nextRow>>
  BY <1>4 DEF RejectUnknown, Accept, CheckRow, Finish, ids
<1>5. ASSUME NEW c \in Clients, ClientStep(c), ~Poll(c) PROVE UNCHANGED <<rows, nextRow>>
  BY <1>5 DEF ClientStep, Sync, DrainRow, DeferRow, TakeEvent, IdleTick, Fire, server, ids
<1>6. ASSUME Operator \/ Failure \/ UNCHANGED vars PROVE UNCHANGED <<rows, nextRow>>
  BY <1>6 DEF Operator, Toggle, Import, Failure, CreateFails, LoseRequest, LoseReply,
              ClientRestart, ServerRestart, vars, server, ids
<1> QED BY <1>1, <1>2, <1>3, <1>4, <1>5, <1>6 DEF Next, HandlerStep

LEMMA NumbersStep ==
  ASSUME TypeOK, RowsAreNumbered, [Next]_vars
  PROVE  /\ RowsAreNumbered'
         /\ \A r \in rows : \E s \in rows' : s.id = r.id /\ s.node = r.node
<1>0. rows \subseteq Row /\ nextRow \in Nat /\ \A r \in rows : r.id \in Nat
  BY DEF TypeOK, DatabaseType, Row
<1>1. CASE UNCHANGED <<rows, nextRow>>
  BY <1>1 DEF RowsAreNumbered
<1>2. ASSUME NEW S, rows' = Retired(S), nextRow' = nextRow
      PROVE  /\ RowsAreNumbered'
             /\ \A r \in rows : \E s \in rows' : s.id = r.id /\ s.node = r.node
  <2> DEFINE once(r) == IF r \in S THEN [r EXCEPT !.status = "done"] ELSE r
  <2>1. \A r \in rows : once(r).id = r.id /\ once(r).node = r.node
    BY <1>0 DEF Row
  <2>2. rows' = { once(r) : r \in rows }
    BY <1>2 DEF Retired
  <2> HIDE DEF once
  <2> QED BY <1>2, <2>1, <2>2 DEF RowsAreNumbered
<1>3. ASSUME NEW e, NEW n, NEW i, nextRow' = nextRow + 1,
             rows' = rows \cup {[id |-> nextRow, exec |-> e, node |-> n, status |-> "pending",
                                 by |-> i]}
      PROVE  /\ RowsAreNumbered'
             /\ \A r \in rows : \E s \in rows' : s.id = r.id /\ s.node = r.node
  <2> DEFINE new == [id |-> nextRow, exec |-> e, node |-> n, status |-> "pending", by |-> i]
  <2>1. rows' = rows \cup {new} /\ new.id = nextRow
    BY <1>3
  <2> HIDE DEF new
  <2> QED BY <1>0, <1>3, <2>1 DEF RowsAreNumbered
<1> QED BY <1>1, <1>2, <1>3, RowsChange

\* A response holds rows of its client's nodes, and only a poll fills one.
LEMMA MailStep ==
  ASSUME TypeOK, Unedited, [Next]_vars, NEW c \in Clients, NEW m \in mail'[c].rows
  PROVE  m \in mail[c].rows \/ (m \in rows /\ m.node \in Mine(c))
<1>0. DOMAIN mail = Clients /\ mail[c] \in Mail
  BY DEF TypeOK, ClientType
<1>1. ASSUME mail' = mail PROVE m \in mail[c].rows
  BY <1>1
<1>2. ASSUME HandlerStep \/ Operator \/ UNCHANGED vars PROVE mail' = mail
  BY <1>2 DEF HandlerStep, RejectUnknown, Accept, CompleteOwn, CheckRow, CreateRow, Finish,
              Operator, Toggle, Import, vars, client
<1>3. ASSUME Failure, mail' # mail PROVE m \in mail[c].rows
  <2>1. PICK d \in Clients : ClientRestart(d)
    BY <1>3 DEF Failure, CreateFails, LoseRequest, LoseReply, ServerRestart, client
  <2>2. mail'[c] = NoMail \/ mail'[c] = mail[c]
    BY <1>0, <2>1 DEF ClientRestart
  <2> QED BY <2>2 DEF NoMail
<1>4. ASSUME NEW d \in Clients, Poll(d)
      PROVE  m \in mail[c].rows \/ (m \in rows /\ m.node \in Mine(c))
  <2>1. mail' = [mail EXCEPT ![d] = [nodes |-> Mine(d), rev |-> dbRev, rows |-> Due(Mine(d))]]
    BY <1>4 DEF Poll, Unedited, Mine
  <2>2. mail'[c] = mail[c] \/ (c = d /\ mail'[c].rows = Due(Mine(c)))
    BY <1>0, <2>1
  <2> QED BY <2>2 DEF Due, Pending
<1>5. ASSUME NEW d \in Clients, NEW r \in mail[d].rows, DrainRow(d, r) \/ DeferRow(d, r)
      PROVE  m \in mail[c].rows
  <2>1. mail' = [mail EXCEPT ![d].rows = @ \ {r}]
    BY <1>5 DEF DrainRow, DeferRow, NextRow
  <2>2. mail[c].rows \ {r} \subseteq mail[c].rows
    OBVIOUS
  <2> QED BY <1>0, <2>1, <2>2 DEF Mail
<1>6. ASSUME NEW d \in Clients, NEW k, Sync(d) \/ TakeEvent(d, k) \/ IdleTick(d) \/ Fire(d)
      PROVE  mail' = mail
  BY <1>6 DEF Sync, TakeEvent, IdleTick, Fire
<1> QED BY <1>1, <1>2, <1>3, <1>4, <1>5, <1>6 DEF Next, ClientStep

\* What is started comes out of the response.
LEMMA LogStep ==
  ASSUME TypeOK, [Next]_vars, NEW c \in Clients, NEW i \in DOMAIN log'[c]
  PROVE  \/ \E j \in DOMAIN log[c] : log'[c][i] = log[c][j]
         \/ \E m \in mail[c].rows : log'[c][i] = m.id
<1>0. /\ log \in [Clients -> Seq(Nat)] /\ log[c] \in Seq(Nat)
      /\ \A m \in mail[c].rows : m.id \in Nat
  BY DEF TypeOK, HistoryType, ClientType, Mail, Row
<1>1. CASE log'[c] = log[c]
  BY <1>1
<1>2. ASSUME NEW d \in Clients, ClientRestart(d), log'[c] # log[c] PROVE FALSE
  <2>1. log'[c] = <<>> \/ log'[c] = log[c]
    BY <1>0, <1>2 DEF ClientRestart
  <2> QED BY <1>2, <2>1
<1>3. ASSUME NEW d \in Clients, NEW r \in mail[d].rows, DrainRow(d, r), log'[c] # log[c]
      PROVE  c = d /\ log'[c] = Append(log[c], r.id)
  <2>1. log' = log \/ log' = [log EXCEPT ![d] = Append(@, r.id)]
    BY <1>3 DEF DrainRow
  <2> QED BY <1>0, <1>3, <2>1
<1>4. ASSUME NEW d \in Clients, NEW r \in mail[d].rows, DeferRow(d, r) PROVE log' = log
  BY <1>4 DEF DeferRow, history
<1>5. ASSUME NEW m \in mail[c].rows, log'[c] = Append(log[c], m.id)
      PROVE  \/ \E j \in DOMAIN log[c] : log'[c][i] = log[c][j]
             \/ log'[c][i] = m.id
  BY <1>0, <1>5
<1> QED BY <1>1, <1>2, <1>3, <1>4, <1>5, StartsByDraining

LEMMA KnownStep ==
  ASSUME TypeOK, Unedited, RowsAreKnown, Bounds["edits"] = 0, [Next]_vars
  PROVE  Unedited' /\ RowsAreKnown'
<1>1. Unedited' /\ dbDef' = dbDef
  BY UneditedStep
<1>2. RowsAreNumbered'
  BY NumbersStep DEF RowsAreKnown, RowsAreNumbered
<1>3. \A c, id : Known(c, id) => Known(c, id)'
  <2>1. \A c : Mine(c)' = Mine(c)
    BY <1>1, MineStays
  <2>2. \A r \in rows : \E s \in rows' : s.id = r.id /\ s.node = r.node
    BY NumbersStep DEF RowsAreKnown, RowsAreNumbered
  <2> QED BY <2>1, <2>2 DEF Known
<1>4. ASSUME NEW c \in Clients, NEW m \in mail'[c].rows PROVE Known(c, m.id)'
  BY <1>3, MailStep DEF RowsAreKnown, Known
<1>5. ASSUME NEW c \in Clients, NEW i \in DOMAIN log'[c], NEW id, id = log'[c][i]
      PROVE  Known(c, id)'
  <2>1. Known(c, id)
    BY <1>5, LogStep DEF RowsAreKnown, Known
  <2> QED BY <1>3, <2>1
<1> QED BY <1>1, <1>2, <1>4, <1>5 DEF RowsAreKnown, RowsAreNumbered, Known

\* The documented rule that every node has one owner holds of pending rows as long
\* as no node is targeted by two clients and nobody edits the workflow: a row is
\* delivered to every client of its node, so a tag two clients carry is enough to
\* break it, and nothing else in the protocol does.
THEOREM OneOwnerCorrect ==
  ASSUME Bounds["edits"] = 0, \A def \in Defs : OwnersAreSingle(def)
  PROVE  Spec => []OneOwner
<1> DEFINE K == Unedited /\ RowsAreKnown
<1>1. Init => K
  <2> SUFFICES ASSUME Init PROVE K
    OBVIOUS
  <2>1. Unedited
    BY Budgets DEF Init, Unedited
  <2>2. rows = {} /\ \A c \in Clients : mail[c].rows = {} /\ log[c] = <<>>
    BY DEF Init, NoMail
  <2> QED BY <2>1, <2>2 DEF RowsAreKnown
<1>2. TypeOK /\ K /\ [Next]_vars => K'
  BY KnownStep
<1>3. K => OneOwner
  <2> SUFFICES ASSUME K, NEW c \in Clients, NEW d \in Clients, NEW i \in DOMAIN log[c],
                      NEW j \in DOMAIN log[d], log[c][i] = log[d][j]
               PROVE  c = d
    BY DEF OneOwner
  <2>1. PICK r \in rows : r.id = log[c][i] /\ r.node \in Mine(c)
    BY DEF RowsAreKnown
  <2>2. PICK s \in rows : s.id = log[d][j] /\ s.node \in Mine(d)
    BY DEF RowsAreKnown
  <2>3. r = s
    BY <2>1, <2>2 DEF RowsAreKnown
  <2> QED BY <2>1, <2>2, <2>3 DEF Unedited, OwnersAreSingle, Mine, AssignedNodes
<1> QED BY <1>1, <1>2, <1>3, TypeCorrect, PTL DEF Spec
=============================================================================
