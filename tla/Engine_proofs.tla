---------------------------- MODULE Engine_proofs ----------------------------
(* The promises of the engine, for any workflow, executions and switches.  *)
EXTENDS Engine, SequenceTheorems, WellFoundedInduction, TLAPS

-----------------------------------------------------------------------------
(* Paths and payloads.                                                     *)

LEMMA LeastExists ==
  ASSUME NEW S, S \subseteq Nat, S # {}
  PROVE  \E i \in S : \A j \in S : i <= j
<1>1. PICK i \in S : \A j \in S : <<j, i>> \notin OpToRel(<, Nat)
  BY WFMin, NatLessThanWellFounded, Zenon
<1>2. \A j \in S : ~(j < i)
  BY <1>1, Zenon DEF OpToRel
<1> QED BY <1>2

\* The way to a run names its cause and the entry that matched.
LEMMA WayIsInjective ==
  ASSUME NEW p \in Seq(Step), NEW q \in Seq(Step), NEW e \in Entries, NEW f \in Entries,
         NEW n \in Nodes, NEW o \in Nodes
  PROVE  /\ Append(p, [entry |-> e, node |-> n]) = Append(q, [entry |-> f, node |-> o])
              => p = q /\ e = f /\ n = o
         /\ Append(p, [entry |-> e, node |-> n]) # <<>>
         /\ Append(p, [entry |-> e, node |-> n]) # p
         /\ Append(p, [entry |-> e, node |-> n]) \in Seq(Step)
<1> DEFINE x == [entry |-> e, node |-> n]
           y == [entry |-> f, node |-> o]
<1>1. x \in Step /\ y \in Step
  BY DEF Step
<1>2. Append(p, x) = Append(q, y) => p = q /\ x = y
  BY <1>1, AppendInjective
<1>3. x = y => e = f /\ n = o
  OBVIOUS
<1>4. /\ Append(p, x) \in Seq(Step) /\ Append(p, x) # <<>>
      /\ Len(Append(p, x)) = Len(p) + 1
  BY <1>1, AppendProperties
<1>5. Append(p, x) # p
  BY <1>4, LenProperties
<1> QED BY <1>2, <1>3, <1>4, <1>5

\* What is recorded of the runs, as far as types go.
HistoryType(h) == \A n \in DOMAIN h : IsPayload(h[n])

LEMMA OwnType ==
  ASSUME NEW r \in Result
  PROVE  /\ Writer(r) \in Attempt
         /\ IsPayload(Own(r)) /\ DOMAIN Own(r) = {r.node, "type"}
         /\ \A k \in {r.node, "type"} : Own(r)[k] = Writer(r)
<1>1. Writer(r) \in Attempt
  BY DEF Result, Attempt, Writer
<1>2. r.node \in Nodes
  BY DEF Result
<1> QED BY <1>1, <1>2 DEF Own, IsPayload, Keys

LEMMA OverlayType ==
  ASSUME NEW p, NEW q, IsPayload(p), IsPayload(q)
  PROVE  /\ IsPayload(Overlay(p, q))
         /\ DOMAIN Overlay(p, q) = DOMAIN p \cup DOMAIN q
         /\ \A k \in DOMAIN q : Overlay(p, q)[k] = q[k]
         /\ \A k \in DOMAIN p \ DOMAIN q : Overlay(p, q)[k] = p[k]
BY DEF IsPayload, Overlay

\* What comes from upstream is what a dependency has recorded.
Recorded(n, h) ==
  /\ DOMAIN Upstream(n, h) = {k \in Keys : Offers(n, h, k) # {}}
  /\ \A k \in DOMAIN Upstream(n, h) :
       \E i \in Offers(n, h, k) : Upstream(n, h)[k] = h[definition.dependencies[n][i]][k]
  /\ Upstream(n, h) = [k \in DOMAIN Upstream(n, h) |-> Upstream(n, h)[k]]

LEMMA UpstreamIsRecorded ==
  ASSUME definition \in Definition, NEW n \in Nodes, NEW h
  PROVE  Recorded(n, h)
<1>1. DOMAIN Upstream(n, h) = {k \in Keys : Offers(n, h, k) # {}}
  BY DEF Upstream, Keys
<1>2. definition.dependencies[n] \in Seq(Nodes)
  BY DEF Definition
<1>3. ASSUME NEW k \in DOMAIN Upstream(n, h)
      PROVE  \E i \in Offers(n, h, k) : Upstream(n, h)[k] = h[definition.dependencies[n][i]][k]
  <2> DEFINE S == Offers(n, h, k)
             i == CHOOSE i \in S : \A j \in S : i <= j
  <2>1. S \subseteq Nat /\ S # {}
    BY <1>1, <1>2, <1>3 DEF Offers
  <2>2. \E j \in S : \A l \in S : j <= l
    BY <2>1, LeastExists
  <2>3. i \in S
    BY <2>2
  <2>4. Upstream(n, h)[k] = h[definition.dependencies[n][i]][k]
    BY <1>1, <1>3 DEF Upstream, Keys
  <2> QED BY <2>3, <2>4
<1>4. Upstream(n, h) = [k \in DOMAIN Upstream(n, h) |-> Upstream(n, h)[k]]
  <2> DEFINE v(k) == LET i == CHOOSE i \in Offers(n, h, k) : \A j \in Offers(n, h, k) : i <= j
                     IN h[definition.dependencies[n][i]][k]
             S == {k \in Nodes \cup {"type"} : Offers(n, h, k) # {}}
             f == [k \in S |-> v(k)]
  <2>1. Upstream(n, h) = f
    BY Zenon DEF Upstream
  <2> HIDE DEF v, S
  <2>2. f = [k \in DOMAIN f |-> f[k]]
    OBVIOUS
  <2> QED BY <2>1, <2>2, Zenon
<1> QED BY <1>1, <1>3, <1>4 DEF Recorded

LEMMA UpstreamType ==
  ASSUME definition \in Definition, NEW n \in Nodes, NEW h, HistoryType(h)
  PROVE  IsPayload(Upstream(n, h))
<1> Recorded(n, h)
  BY UpstreamIsRecorded
<1>1. ASSUME NEW k \in DOMAIN Upstream(n, h) PROVE Upstream(n, h)[k] \in Attempt
  <2>1. \E i \in Offers(n, h, k) : Upstream(n, h)[k] = h[definition.dependencies[n][i]][k]
    BY <1>1, Zenon DEF Recorded
  <2>2. PICK i \in Offers(n, h, k) : Upstream(n, h)[k] = h[definition.dependencies[n][i]][k]
    BY <2>1, Zenon
  <2> QED BY <2>2 DEF Offers, HistoryType, IsPayload
<1>2. DOMAIN Upstream(n, h) \subseteq Keys
  BY DEF Recorded
<1>3. Upstream(n, h) = [k \in DOMAIN Upstream(n, h) |-> Upstream(n, h)[k]]
  BY DEF Recorded
<1> QED BY <1>1, <1>2, <1>3 DEF IsPayload

\* The payload of a result has its own fields and, else, what was recorded.
LEMMA PayloadIs ==
  ASSUME TypeOK, HistoryOK, NEW r \in Result, NEW known \in BOOLEAN
  PROVE  /\ IsPayload(Payload(r, known))
         /\ \A k \in {r.node, "type"} : k \in DOMAIN Payload(r, known)
                                         /\ Payload(r, known)[k] = Writer(r)
         /\ \A k \in DOMAIN Payload(r, known) : Payload(r, known)[k].exec = r.exec
<1> DEFINE h == execHistory[r.exec]
           u == Upstream(r.node, h)
           o == Own(r)
<1>1. Writer(r).exec = r.exec
  BY DEF Writer
<1>2. CASE known /\ r.node \in definition.mergeInput /\ r.exec # NoExec
  <2>1. Payload(r, known) = Overlay(u, o)
    BY <1>2 DEF Payload
  <2>2. r.exec \in Execs /\ r.node \in Nodes /\ definition \in Definition
    BY <1>2, EngineAssumption DEF Result, TypeOK
  <2>3. HistoryType(h)
    BY <2>2 DEF TypeOK, HistoryType
  <2>4. IsPayload(u)
    BY <2>2, <2>3, UpstreamType
  <2>R. Recorded(r.node, h)
    BY <2>2, UpstreamIsRecorded
  <2>5. \A k \in DOMAIN u : u[k].exec = r.exec
    <3>1. TAKE k \in DOMAIN u
    <3>2. \E i \in Offers(r.node, h, k) : u[k] = h[definition.dependencies[r.node][i]][k]
      BY <2>R, <3>1, Zenon DEF Recorded
    <3>3. PICK i \in Offers(r.node, h, k) : u[k] = h[definition.dependencies[r.node][i]][k]
      BY <3>2, Zenon
    <3> QED BY <2>2, <3>3 DEF Offers, HistoryOK
  <2>6. /\ IsPayload(o) /\ DOMAIN o = {r.node, "type"}
        /\ \A k \in {r.node, "type"} : o[k] = Writer(r)
    BY OwnType
  <2>7. /\ IsPayload(Overlay(u, o))
        /\ DOMAIN Overlay(u, o) = DOMAIN u \cup DOMAIN o
        /\ \A k \in DOMAIN o : Overlay(u, o)[k] = o[k]
        /\ \A k \in DOMAIN u \ DOMAIN o : Overlay(u, o)[k] = u[k]
    <3> HIDE DEF u, o
    <3> QED BY <2>4, <2>6, OverlayType
  <2> HIDE DEF u, h, o
  <2> QED BY <1>1, <2>1, <2>5, <2>6, <2>7
<1>3. CASE ~(known /\ r.node \in definition.mergeInput /\ r.exec # NoExec)
  <2>1. Payload(r, known) = Own(r)
    BY <1>3 DEF Payload
  <2> QED BY <1>1, <2>1, OwnType
<1> QED BY <1>2, <1>3

-----------------------------------------------------------------------------
(* A result is taken.                                                      *)

Entry(r, known, matched) ==
  [exec |-> r.exec, path |-> r.path, node |-> r.node, attempt |-> r.attempt,
   retrying |-> r.retrying, known |-> known, payload |-> Payload(r, known),
   matched |-> matched]

\* Whatever else is under way when a result is taken.
Rest == live \cup wire \cup UNION {held'[m] : m \in Managers}

\* What the ways to take a result, from a manager or from a request, have in
\* common.
Taking(r, known, matched) ==
  /\ r \in Result /\ known \in BOOLEAN /\ matched \subseteq MayMatch(r)
  /\ ~known => r.node = loading
  /\ Handle(r, known, matched)
  /\ UNCHANGED <<fixed, load, wire, restarts>>
  /\ held' \in [Managers -> SUBSET Result]
  /\ \A m \in Managers : held'[m] \subseteq held[m]
  /\ minted \subseteq minted' /\ minted' \subseteq Execs

\* A result is taken after everything that goes before it, and before
\* everything that comes after.
InOrder(r) ==
  /\ r.exec # NoExec =>
       /\ \A a \in Rest : SameRun(r, a) => Precedes(r, a)
       /\ \A s \in log : SameRun(s, r) => Precedes(s, r)
       /\ r.path = <<>> => \A a \in Rest \cup log : a.exec # r.exec
       /\ Tree(definition) =>
            \A a \in Rest \cup log : a.exec = r.exec /\ a.node = r.node => a.path = r.path

\* It is a firing, or else it has a cause.
Caused(r) ==
  /\ r.exec \in minted' \cup {NoExec}
  /\ r.node \in Triggers <=> r.path = <<>>
  /\ r.path = <<>> => ~r.retrying /\ r.attempt = 1
  /\ r.path # <<>> => r.exec # NoExec /\ \E s \in log : Final(s) /\ Starts(s, r)
  /\ Tree(definition) =>
       \A s \in log : Final(s) /\ Starts(s, r) =>
         s.node \in DOMAIN execHistory[r.exec] /\ execHistory[r.exec][s.node] = s.payload
  /\ \/ todo \subseteq Triggers
     \/ r.node \in Webhooks
     \/ r.path # <<>> /\ \E s \in log : s.exec = r.exec /\ s.node \in Webhooks

Taken(r, known, matched) ==
  /\ Taking(r, known, matched) /\ InOrder(r) /\ Caused(r)
  /\ r.exec = NoExec => matched = {}

LEMMA HeldIsInFlight ==
  ASSUME TypeOK
  PROVE  /\ \A m \in Managers : \A r \in held[m] : r \in InFlight /\ r \in Delivered /\ r \in Result
         /\ live \subseteq InFlight /\ wire \subseteq InFlight /\ wire \subseteq Delivered
         /\ \A a \in InFlight : a \in live \/ a \in wire \/ \E m \in Managers : a \in held[m]
         /\ \A a \in Delivered : a \in wire \/ \E m \in Managers : a \in held[m]
BY DEF InFlight, Delivered, TypeOK

\* A report is taken in order, since its manager holds one result at a time.
LEMMA ReportInOrder ==
  ASSUME TypeOK, Inv, NEW m \in Managers, NEW r \in held[m],
         held' = [held EXCEPT ![m] = {}]
  PROVE  /\ InOrder(r)
         /\ held' \in [Managers -> SUBSET Result]
         /\ \A o \in Managers : held'[o] \subseteq held[o]
<1>1. /\ held' \in [Managers -> SUBSET Result]
      /\ \A o \in Managers : held'[o] \subseteq held[o]
      /\ \A o \in Managers : \A a \in held'[o] : o # m /\ a \in held[o]
  BY DEF TypeOK
<1>2. Rest \subseteq InFlight /\ r \in InFlight /\ r \in Delivered
  BY <1>1 DEF Rest, InFlight, Delivered
<1>3. ASSUME NEW a \in Rest, SameRun(r, a), r.exec # NoExec PROVE Precedes(r, a)
  <2>1. a.exec # NoExec /\ a.node = r.node
    BY <1>3 DEF SameRun
  <2>2. CASE a \in wire \cup live
    BY <1>3, <2>1, <2>2 DEF Inv, OrderOK
  <2>3. CASE \E o \in Managers : a \in held'[o]
    BY <1>1, <2>1, <2>3 DEF Inv, PlaceOK
  <2> QED BY <1>3, <2>2, <2>3 DEF Rest
<1>4. \A s \in log : SameRun(s, r) /\ r.exec # NoExec => Precedes(s, r)
  BY <1>2 DEF Inv, OneVerdict
<1>5. r.path = <<>> => r.exec = NoExec
  BY <1>2 DEF Inv, PlaceOK, Fired
<1>6. ASSUME Tree(definition), NEW a \in Rest \cup log, a.exec = r.exec, r.exec # NoExec,
             a.node = r.node
      PROVE  a.path = r.path
  BY <1>2, <1>6 DEF Inv, UniqueOK
<1> QED BY <1>1, <1>3, <1>4, <1>5, <1>6 DEF InOrder

LEMMA ReportCaused ==
  ASSUME TypeOK, Inv, NEW r \in Delivered, minted' = minted
  PROVE  Caused(r)
<1>1. r \in InFlight /\ r \in Result
  BY DEF InFlight, Delivered, TypeOK
<1>2. r.path = <<>> => r = Fired(r.node)
  BY DEF Inv, PlaceOK
<1>3. r.path # <<>> => r.exec \in minted
  BY <1>1 DEF Inv, PlaceOK
<1>4. r.path # <<>> => r.exec # NoExec
  BY <1>3, EngineAssumption DEF TypeOK
<1>5. r.path # <<>> => \E s \in log : Final(s) /\ Starts(s, r)
  BY <1>1 DEF Inv, RunHasCause
<1>6. Tree(definition) =>
       \A s \in log : Final(s) /\ Starts(s, r) =>
         s.node \in DOMAIN execHistory[r.exec] /\ execHistory[r.exec][s.node] = s.payload
  BY <1>1 DEF Inv, HistoryOK
<1>7. \/ todo \subseteq Triggers
      \/ r.path # <<>> /\ \E s \in log : s.exec = r.exec /\ s.node \in Webhooks
  BY <1>1 DEF Inv, ReadyOK
<1>8. r.node \in Triggers <=> r.path = <<>>
  BY DEF Inv, PlaceOK
<1>9. r.path = <<>> => r.exec = NoExec /\ ~r.retrying /\ r.attempt = 1
  BY <1>2 DEF Fired
<1> QED BY <1>3, <1>4, <1>5, <1>6, <1>7, <1>8, <1>9 DEF Caused

\* An execution that has just been minted is empty.
LEMMA MintedIsNew ==
  ASSUME TypeOK, Inv, NEW x \in Unused
  PROVE  /\ x \in Execs /\ x # NoExec
         /\ \A a \in InFlight \cup log : a.exec # x
<1>1. x \in Execs /\ x # NoExec /\ x \notin minted
  BY EngineAssumption DEF Unused
<1>2. ASSUME NEW a \in InFlight PROVE a.exec # x
  <2>1. CASE a.path # <<>>
    BY <1>1, <1>2, <2>1 DEF Inv, PlaceOK
  <2>2. CASE a.path = <<>>
    <3>1. a \in Delivered
      BY <1>2, <2>2 DEF InFlight, Inv, PlaceOK
    <3>2. a = Fired(a.node)
      BY <2>2, <3>1 DEF Inv, PlaceOK
    <3> QED BY <1>1, <3>2 DEF Fired
  <2> QED BY <2>1, <2>2
<1>3. ASSUME NEW a \in log PROVE a.exec # x
  BY <1>1, <1>3 DEF Inv, PlaceOK
<1> QED BY <1>1, <1>2, <1>3

\* A firing opens an execution.
LEMMA FiringTaken ==
  ASSUME TypeOK, Inv, NEW t \in Triggers, NEW x \in Unused,
         NEW r, r = Given(Fired(t), x), todo \subseteq Triggers \/ t \in Webhooks,
         held' \in [Managers -> SUBSET Result],
         \A m \in Managers : held'[m] \subseteq held[m], minted' = minted \cup {x}
  PROVE  r \in Result /\ InOrder(r) /\ Caused(r) /\ r.exec # NoExec
<1>1. x \in Execs /\ x # NoExec /\ \A a \in InFlight \cup log : a.exec # x
  BY MintedIsNew
<1>2. r = [exec |-> x, path |-> <<>>, node |-> t, attempt |-> 1, retrying |-> FALSE]
  BY DEF Given, Fired
<1>3. r \in Result
  <2>1. t \in Nodes /\ <<>> \in Seq(Step)
    BY EngineAssumption
  <2> QED BY <1>1, <1>2, <2>1 DEF Result
<1>4. Rest \subseteq InFlight
  BY DEF Rest, InFlight, Delivered
<1>5. InOrder(r)
  BY <1>1, <1>2, <1>4 DEF InOrder, SameRun
<1>F. /\ r.exec = x /\ r.path = <<>> /\ r.node = t /\ r.attempt = 1 /\ ~r.retrying
  BY <1>2
<1>6. ASSUME NEW s \in log PROVE ~Starts(s, r)
  <2>1. s.exec # r.exec
    BY <1>1, <1>F
  <2> QED BY <2>1 DEF Starts
<1>7. Caused(r)
  <2>1. r.exec \in minted'
    BY <1>F
  <2> QED BY <1>F, <1>6, <2>1 DEF Caused
<1> QED BY <1>1, <1>2, <1>3, <1>5, <1>7

LEMMA TakeUnknownTaken ==
  ASSUME TypeOK, Inv, NEW m \in Managers, TakeUnknown(m)
  PROVE  \E r \in Result, known \in BOOLEAN, matched \in SUBSET Entries :
           Taken(r, known, matched)
<1>1. PICK r \in held[m] : /\ r.node \notin indexed
                           /\ Handle(r, FALSE, {})
                           /\ held' = [held EXCEPT ![m] = {}]
                           /\ UNCHANGED <<fixed, load, wire, minted, restarts>>
  BY DEF TakeUnknown
<1>2. r \in Result /\ r \in Delivered /\ r \in InFlight
  BY HeldIsInFlight
<1>3. r.node = loading
  BY <1>1, <1>2 DEF Inv, LoadOK
<1>4. /\ InOrder(r)
      /\ held' \in [Managers -> SUBSET Result]
      /\ \A o \in Managers : held'[o] \subseteq held[o]
  BY <1>1, ReportInOrder
<1>5. minted' = minted /\ minted \subseteq Execs
  BY <1>1 DEF TypeOK
<1>6. Caused(r)
  BY <1>2, <1>5, ReportCaused
<1>7. Taken(r, FALSE, {})
  BY <1>1, <1>2, <1>3, <1>4, <1>5, <1>6 DEF Taken, Taking
<1> QED BY <1>2, <1>7

LEMMA TakeReportTaken ==
  ASSUME TypeOK, Inv, TakeReport
  PROVE  \E r \in Result, known \in BOOLEAN, matched \in SUBSET Entries :
           Taken(r, known, matched)
<1> DEFINE m == "actions"
<1>1. PICK r \in held[m] : /\ r.node \in indexed
                           /\ \E matched \in SUBSET MayMatch(r) : Handle(r, TRUE, matched)
                           /\ held' = [held EXCEPT ![m] = {}]
                           /\ UNCHANGED <<fixed, load, wire, minted, restarts>>
  BY DEF TakeReport
<1>2. PICK matched \in SUBSET MayMatch(r) : Handle(r, TRUE, matched)
  BY <1>1
<1>3. m \in Managers
  BY DEF Managers
<1>4. r \in Result /\ r \in Delivered /\ r \in InFlight
  BY <1>3, HeldIsInFlight
<1>5. /\ InOrder(r)
      /\ held' \in [Managers -> SUBSET Result]
      /\ \A o \in Managers : held'[o] \subseteq held[o]
  BY <1>1, <1>3, ReportInOrder
<1>6. minted' = minted /\ minted \subseteq Execs
  BY <1>1 DEF TypeOK
<1>7. Caused(r)
  BY <1>4, <1>6, ReportCaused
<1>8. r.exec # NoExec
  <2>1. r.node \notin Triggers
    BY <1>3 DEF Inv, PlaceOK, ManagerOf
  <2> QED BY <1>7, <2>1 DEF Caused
<1>9. Taken(r, TRUE, matched)
  BY <1>1, <1>2, <1>4, <1>5, <1>6, <1>7, <1>8 DEF Taken, Taking
<1>10. matched \in SUBSET Entries
  BY DEF MayMatch
<1> QED BY <1>4, <1>9, <1>10

LEMMA TakeFiringTaken ==
  ASSUME TypeOK, Inv, TakeFiring
  PROVE  \E r \in Result, known \in BOOLEAN, matched \in SUBSET Entries :
           Taken(r, known, matched)
<1> DEFINE m == "triggers"
<1>1. PICK f \in held[m], x \in Unused :
        /\ f.node \in indexed
        /\ \E matched \in SUBSET MayMatch(Given(f, x)) : Handle(Given(f, x), TRUE, matched)
        /\ minted' = minted \cup {x}
        /\ held' = [held EXCEPT ![m] = {}]
        /\ UNCHANGED <<fixed, load, wire, restarts>>
  BY DEF TakeFiring
<1> DEFINE r == Given(f, x)
<1>2. PICK matched \in SUBSET MayMatch(r) : Handle(r, TRUE, matched)
  BY <1>1
<1>3. m \in Managers
  BY DEF Managers
<1>4. f \in Delivered /\ f \in InFlight /\ f \in Result
  BY <1>3, HeldIsInFlight
<1>5. f.node \in Triggers /\ f.path = <<>> /\ f = Fired(f.node)
  <2>1. f.node \in Triggers
    BY <1>3 DEF Inv, PlaceOK, ManagerOf
  <2>2. f.path = <<>>
    BY <1>4, <2>1 DEF Inv, PlaceOK
  <2> QED BY <1>4, <2>1, <2>2 DEF Inv, PlaceOK
<1>6. todo \subseteq Triggers
  BY <1>4, <1>5 DEF Inv, ReadyOK
<1>7. /\ held' \in [Managers -> SUBSET Result]
      /\ \A o \in Managers : held'[o] \subseteq held[o]
  BY <1>1 DEF TypeOK
<1>8. r = Given(Fired(f.node), x)
  BY <1>5
<1>9. r \in Result /\ InOrder(r) /\ Caused(r) /\ r.exec # NoExec
  <2> HIDE DEF r
  <2> QED BY <1>1, <1>5, <1>6, <1>7, <1>8, FiringTaken
<1>10. minted \subseteq minted' /\ minted' \subseteq Execs
  BY <1>1 DEF TypeOK, Unused
<1>11. Taken(r, TRUE, matched)
  <2> HIDE DEF r
  <2> QED BY <1>1, <1>2, <1>7, <1>9, <1>10 DEF Taken, Taking
<1>12. matched \in SUBSET Entries
  BY DEF MayMatch
<1> QED BY <1>9, <1>11, <1>12

LEMMA PostTaken ==
  ASSUME TypeOK, Inv, NEW h \in Webhooks, Post(h)
  PROVE  \E r \in Result, known \in BOOLEAN, matched \in SUBSET Entries :
           Taken(r, known, matched)
<1>1. PICK x \in Unused :
        \E matched \in SUBSET MayMatch(Given(Fired(h), x)) :
          Handle(Given(Fired(h), x), TRUE, matched) /\ minted' = minted \cup {x}
  BY DEF Post
<1> DEFINE r == Given(Fired(h), x)
<1>2. PICK matched \in SUBSET MayMatch(r) :
        Handle(r, TRUE, matched) /\ minted' = minted \cup {x}
  BY <1>1
<1>3. UNCHANGED <<fixed, load, wire, held, restarts>>
  BY DEF Post
<1>4. /\ held' \in [Managers -> SUBSET Result]
      /\ \A o \in Managers : held'[o] \subseteq held[o]
  BY <1>3 DEF TypeOK
<1>5. r \in Result /\ InOrder(r) /\ Caused(r) /\ r.exec # NoExec
  <2>1. h \in Triggers
    BY EngineAssumption
  <2> QED BY <1>2, <1>4, <2>1, FiringTaken
<1>6. minted \subseteq minted' /\ minted' \subseteq Execs
  BY <1>2 DEF TypeOK, Unused
<1>7. Taken(r, TRUE, matched)
  <2> HIDE DEF r
  <2> QED BY <1>2, <1>3, <1>4, <1>5, <1>6 DEF Taken, Taking
<1>8. matched \in SUBSET Entries
  BY DEF MayMatch
<1> QED BY <1>5, <1>7, <1>8

-----------------------------------------------------------------------------
(* What a taken result leaves.                                             *)

\* The parts of such a step.
LEMMA TakenEffect ==
  ASSUME TypeOK, NEW r \in Result, NEW known \in BOOLEAN, NEW matched \in SUBSET Entries,
         Taken(r, known, matched)
  PROVE  /\ log' = log \cup {Entry(r, known, matched)}
         /\ InFlight' = Rest \cup {a \in Nexts(r, matched) : Startable(a)}
         /\ live' = live \cup {a \in Nexts(r, matched) : Startable(a)}
         /\ skipped' = skipped \cup {a \in Nexts(r, matched) : ~Startable(a)}
         /\ wire' = wire /\ Delivered' \subseteq Delivered
         /\ Rest \subseteq InFlight /\ Rest \subseteq InFlight'
         /\ UNCHANGED <<fixed, load, restarts>>
         /\ matched # {} => Final(r) /\ r.exec # NoExec
<1>1. Handle(r, known, matched) /\ UNCHANGED <<fixed, load, wire, restarts>>
  BY DEF Taken, Taking
<1>2. /\ log' = log \cup {Entry(r, known, matched)}
      /\ live' = live \cup {a \in Nexts(r, matched) : Startable(a)}
      /\ skipped' = skipped \cup {a \in Nexts(r, matched) : ~Startable(a)}
  BY <1>1 DEF Handle, Entry
<1>3. InFlight' = Rest \cup {a \in Nexts(r, matched) : Startable(a)}
  BY <1>1, <1>2 DEF InFlight, Delivered, Rest
<1>4. Rest \subseteq InFlight /\ Delivered' \subseteq Delivered
  BY <1>1 DEF Taken, Taking, Rest, InFlight, Delivered
<1>5. matched # {} => Final(r) /\ r.exec # NoExec
  BY DEF Taken, Taking, MayMatch, Final
<1> QED BY <1>1, <1>2, <1>3, <1>4, <1>5

LEMMA EntryIs ==
  ASSUME NEW r \in Result, NEW known \in BOOLEAN, NEW matched \in SUBSET Entries,
         NEW s, s = Entry(r, known, matched)
  PROVE  /\ s.exec = r.exec /\ s.path = r.path /\ s.node = r.node /\ s.attempt = r.attempt
         /\ s.retrying = r.retrying /\ s.known = known /\ s.matched = matched
         /\ s.payload = Payload(r, known) /\ Writer(s) = Writer(r) /\ Own(s) = Own(r)
         /\ SameRun(s, r) /\ (Final(s) <=> Final(r))
         /\ Reported(s, s.retrying) = r
         /\ \A a : /\ SameRun(s, a) <=> SameRun(r, a)
                   /\ SameRun(a, s) <=> SameRun(a, r)
                   /\ Precedes(s, a) <=> Precedes(r, a)
                   /\ Precedes(a, s) <=> Precedes(a, r)
<1>1. /\ s.exec = r.exec /\ s.path = r.path /\ s.node = r.node /\ s.attempt = r.attempt
      /\ s.retrying = r.retrying /\ s.known = known /\ s.matched = matched
      /\ s.payload = Payload(r, known)
  BY DEF Entry
<1>2. Writer(s) = Writer(r)
  BY <1>1 DEF Writer
<1>3. Own(s) = Own(r)
  BY <1>1, <1>2 DEF Own
<1>4. Reported(s, s.retrying) = r
  BY <1>1 DEF Reported, Result
<1> QED BY <1>1, <1>2, <1>3, <1>4 DEF SameRun, Final, Precedes

\* What it starts.
LEMMA NextIs ==
  ASSUME TypeOK, NEW r \in Result, NEW matched \in SUBSET Entries, matched \subseteq MayMatch(r),
         NEW a \in Nexts(r, matched)
  PROVE  \E en \in matched :
           /\ definition.at[en] = r.node /\ Follows(definition, en, a.node)
           /\ a.node \in Nodes /\ a.attempt = 1 /\ a.exec = r.exec
           /\ a.path = Append(r.path, [entry |-> en, node |-> a.node])
           /\ a \in Attempt /\ a.path # <<>> /\ a = Next1(r, en, a.node)
<1>1. PICK p \in [entry : matched, node : Nodes] :
        Follows(definition, p.entry, p.node) /\ a = Next1(r, p.entry, p.node)
  BY DEF Nexts
<1>2. /\ a.node = p.node /\ a.attempt = 1 /\ a.exec = r.exec
      /\ a.path = Append(r.path, [entry |-> p.entry, node |-> p.node])
  BY <1>1 DEF Next1
<1>3. r.path \in Seq(Step) /\ p.entry \in Entries /\ p.node \in Nodes
      /\ r.exec \in Execs \cup {NoExec}
  BY DEF Result
<1>4. a.path \in Seq(Step) /\ a.path # <<>>
  BY <1>2, <1>3, WayIsInjective
<1>5. a \in Attempt
  BY <1>1, <1>2, <1>3, <1>4 DEF Attempt, Next1
<1>6. definition.at[p.entry] = r.node
  BY DEF MayMatch
<1> QED BY <1>1, <1>2, <1>3, <1>4, <1>5, <1>6

LEMMA LogType ==
  ASSUME TypeOK, NEW s \in log
  PROVE  /\ s.path \in Seq(Step) /\ s.node \in Nodes /\ s.exec \in Execs \cup {NoExec}
         /\ s.matched \subseteq Entries /\ s.retrying \in BOOLEAN /\ s.attempt \in Nat
         /\ IsPayload(s.payload) /\ s.known \in BOOLEAN
<1>1. Reported(s, s.retrying) \in Result /\ IsPayload(s.payload) /\ s.matched \subseteq Entries
      /\ s.known \in BOOLEAN
  BY DEF TypeOK
<1>2. Reported(s, s.retrying) = [exec |-> s.exec, path |-> s.path, node |-> s.node,
                                 attempt |-> s.attempt, retrying |-> s.retrying]
  BY DEF Reported
<1> QED BY <1>1, <1>2 DEF Result

LEMMA FlightType ==
  ASSUME TypeOK, NEW a \in InFlight
  PROVE  a.path \in Seq(Step) /\ a.node \in Nodes /\ a.exec \in Execs \cup {NoExec}
         /\ a.attempt \in Nat
BY HeldIsInFlight DEF TypeOK, Attempt, Result

\* Two causes of runs that are named alike are the same run.
LEMMA CauseIsUnique ==
  ASSUME definition \in Definition, NEW c, NEW d, NEW a, NEW z,
         c.path \in Seq(Step), d.path \in Seq(Step), a.node \in Nodes, z.node \in Nodes,
         c.matched \subseteq Entries, d.matched \subseteq Entries,
         a.path = z.path, a.exec = z.exec, Starts(c, a), Starts(d, z)
  PROVE  SameRun(c, d)
<1>1. PICK e \in c.matched : /\ definition.at[e] = c.node
                             /\ a.path = Append(c.path, [entry |-> e, node |-> a.node])
                             /\ a.exec = c.exec
  BY DEF Starts
<1>2. PICK f \in d.matched : /\ definition.at[f] = d.node
                             /\ z.path = Append(d.path, [entry |-> f, node |-> z.node])
                             /\ z.exec = d.exec
  BY DEF Starts
<1>3. /\ Append(c.path, [entry |-> e, node |-> a.node])
           = Append(d.path, [entry |-> f, node |-> z.node])
      /\ e \in Entries /\ f \in Entries
  BY <1>1, <1>2
<1>4. c.path = d.path /\ e = f
  BY <1>3, WayIsInjective
<1> QED BY <1>1, <1>2, <1>4 DEF SameRun

\* The causes of a run are verdicts, so they are not the result being taken.
LEMMA TakenCausesNothingYet ==
  ASSUME TypeOK, Inv, NEW r \in Result, NEW known \in BOOLEAN, NEW matched \in SUBSET Entries,
         Taken(r, known, matched), r.exec # NoExec
  PROVE  \A c \in log : Final(c) => ~SameRun(c, r)
BY DEF Taken, InOrder, Precedes, Final

LEMMA EntryStarts ==
  ASSUME TypeOK, NEW r \in Result, NEW known \in BOOLEAN, NEW matched \in SUBSET Entries,
         Taken(r, known, matched), NEW a \in Nexts(r, matched)
  PROVE  /\ Starts(Entry(r, known, matched), a) /\ Final(Entry(r, known, matched))
         /\ a.exec = r.exec /\ a.exec # NoExec /\ a.path # <<>> /\ a.node \in Nodes
         /\ a \in Attempt /\ a.attempt = 1
<1>1. matched \subseteq MayMatch(r)
  BY DEF Taken, Taking
<1>2. PICK en \in matched :
           /\ definition.at[en] = r.node /\ Follows(definition, en, a.node)
           /\ a.node \in Nodes /\ a.attempt = 1 /\ a.exec = r.exec
           /\ a.path = Append(r.path, [entry |-> en, node |-> a.node])
           /\ a \in Attempt /\ a.path # <<>>
  BY <1>1, NextIs
<1>3. Final(r) /\ r.exec # NoExec
  BY <1>2, TakenEffect
<1> QED BY <1>2, <1>3, EntryIs DEF Starts

\* The runs it starts have not been started before.
LEMMA NextIsNew ==
  ASSUME TypeOK, Inv, NEW r \in Result, NEW known \in BOOLEAN, NEW matched \in SUBSET Entries,
         Taken(r, known, matched), NEW a \in Nexts(r, matched)
  PROVE  /\ \A z \in InFlight \cup log : ~SameRun(z, a)
         /\ ~SameRun(r, a)
<1> DEFINE e == Entry(r, known, matched)
<1>1. /\ Starts(e, a) /\ a.exec = r.exec /\ a.exec # NoExec /\ a.path # <<>> /\ a.node \in Nodes
  BY EntryStarts
<1>2. e.path = r.path /\ e.matched = matched /\ e.node = r.node /\ e.exec = r.exec
  BY EntryIs
<1>3. r.path \in Seq(Step) /\ definition \in Definition
  BY EngineAssumption DEF Result, TypeOK
<1>4. ASSUME NEW z \in InFlight \cup log, SameRun(z, a) PROVE FALSE
  <2>1. z.path = a.path /\ z.exec = a.exec /\ z.node = a.node
    BY <1>4 DEF SameRun
  <2>2. PICK c \in log : Final(c) /\ Starts(c, z)
    BY <1>1, <2>1 DEF Inv, RunHasCause
  <2>3. c.path \in Seq(Step) /\ c.matched \subseteq Entries
    BY LogType
  <2>4. SameRun(c, e)
    <3> HIDE DEF e
    <3> QED BY <1>1, <1>2, <1>3, <2>1, <2>2, <2>3, CauseIsUnique
  <2>5. SameRun(c, r)
    BY <1>2, <2>4 DEF SameRun
  <2> QED BY <1>1, <2>2, <2>5, TakenCausesNothingYet
<1>5. ~SameRun(r, a)
  <2>1. PICK en \in matched : a.path = Append(r.path, [entry |-> en, node |-> a.node])
    BY <1>1, <1>2 DEF Starts
  <2>2. a.path # r.path
    BY <1>1, <1>3, <2>1, WayIsInjective
  <2> QED BY <2>2 DEF SameRun
<1> QED BY <1>4, <1>5

-----------------------------------------------------------------------------
(* The parts of the invariant, when a result is taken.                     *)

LEMMA TypeTaken ==
  ASSUME TypeOK, Inv, NEW r \in Result, NEW known \in BOOLEAN, NEW matched \in SUBSET Entries,
         Taken(r, known, matched)
  PROVE  TypeOK'
<1> DEFINE e == Entry(r, known, matched)
           p == Payload(r, known)
<1>1. /\ log' = log \cup {e} /\ wire' = wire /\ UNCHANGED <<fixed, load, restarts>>
      /\ live' = live \cup {a \in Nexts(r, matched) : Startable(a)}
      /\ skipped' = skipped \cup {a \in Nexts(r, matched) : ~Startable(a)}
  BY TakenEffect
<1>2. Nexts(r, matched) \subseteq Attempt
  BY EntryStarts
<1>3. live' \subseteq Attempt /\ skipped' \subseteq Attempt
  BY <1>1, <1>2 DEF TypeOK
<1>4. IsPayload(p)
  BY PayloadIs DEF Inv
<1>5. /\ Reported(e, e.retrying) \in Result
      /\ IsPayload(e.payload) /\ e.matched \subseteq Entries /\ e.known \in BOOLEAN
  BY <1>4, EntryIs
<1>6. \A s \in log' : /\ Reported(s, s.retrying) \in Result
                      /\ IsPayload(s.payload) /\ s.matched \subseteq Entries
                      /\ s.known \in BOOLEAN
  <2> HIDE DEF e
  <2> QED BY <1>1, <1>5 DEF TypeOK
<1>7. Remember(r, p)
  BY DEF Taken, Taking, Handle
<1>8. /\ DOMAIN execHistory' = Execs
      /\ \A x \in Execs : /\ DOMAIN execHistory'[x] \subseteq Nodes
                          /\ \A n \in DOMAIN execHistory'[x] : IsPayload(execHistory'[x][n])
  <2>1. CASE r.exec = NoExec
    BY <1>7, <2>1 DEF Remember, TypeOK
  <2>2. CASE r.exec # NoExec
    <3>1. r.exec \in Execs /\ r.node \in Nodes
      BY <2>2 DEF Result
    <3> DEFINE g == [n \in DOMAIN execHistory[r.exec] \cup {r.node} |->
                       IF n = r.node THEN p ELSE execHistory[r.exec][n]]
    <3>2. DOMAIN g \subseteq Nodes /\ \A n \in DOMAIN g : IsPayload(g[n])
      <4> HIDE DEF p
      <4> QED BY <1>4, <3>1 DEF TypeOK
    <3>3. execHistory' = [execHistory EXCEPT ![r.exec] = g]
      BY <1>7, <2>2 DEF Remember
    <3> HIDE DEF g
    <3> QED BY <3>1, <3>2, <3>3 DEF TypeOK
  <2> QED BY <2>1, <2>2
<1>9. held' \in [Managers -> SUBSET Result] /\ minted' \subseteq Execs
  BY DEF Taken, Taking
<1> QED BY <1>1, <1>3, <1>6, <1>8, <1>9 DEF TypeOK, fixed, load

LEMMA CauseTaken ==
  ASSUME TypeOK, Inv, NEW r \in Result, NEW known \in BOOLEAN, NEW matched \in SUBSET Entries,
         Taken(r, known, matched)
  PROVE  RunHasCause'
<1> DEFINE e == Entry(r, known, matched)
           N == Nexts(r, matched)
<1>1. /\ log' = log \cup {e} /\ definition' = definition
      /\ InFlight' \subseteq InFlight \cup N /\ skipped' \subseteq skipped \cup N
  BY TakenEffect DEF fixed
<1>2. \A s, a : Starts(s, a)' <=> Starts(s, a)
  BY <1>1 DEF Starts
<1>3. ASSUME NEW a \in (InFlight \cup log \cup skipped)', a.path # <<>>
      PROVE  \E s \in log' : Final(s) /\ Starts(s, a)
  <2>1. CASE a \in InFlight \cup log \cup skipped
    BY <1>1, <1>3, <2>1 DEF Inv, RunHasCause
  <2>2. CASE a \in N
    BY <1>1, <2>2, EntryStarts
  <2>3. CASE a = e
    <3>1. SameRun(e, r) /\ r.path # <<>>
      BY <1>3, <2>3, EntryIs
    <3>2. PICK s \in log : Final(s) /\ Starts(s, r)
      BY <3>1 DEF Taken, Caused
    <3>3. Starts(s, e)
      BY <3>1, <3>2 DEF Starts, SameRun
    <3> QED BY <1>1, <2>3, <3>2, <3>3
  <2> QED BY <1>1, <1>3, <2>1, <2>2, <2>3
<1> QED BY <1>2, <1>3 DEF RunHasCause, Final

LEMMA VerdictTaken ==
  ASSUME TypeOK, Inv, NEW r \in Result, NEW known \in BOOLEAN, NEW matched \in SUBSET Entries,
         Taken(r, known, matched)
  PROVE  OneVerdict'
<1> DEFINE e == Entry(r, known, matched)
           N == Nexts(r, matched)
<1>1. /\ log' = log \cup {e} /\ InFlight' \subseteq Rest \cup N /\ Rest \subseteq InFlight
  BY TakenEffect
<1>2. /\ e.exec = r.exec
      /\ \A a : /\ SameRun(e, a) <=> SameRun(r, a)
                /\ SameRun(a, e) <=> SameRun(a, r)
                /\ Precedes(e, a) <=> Precedes(r, a)
                /\ Precedes(a, e) <=> Precedes(a, r)
  BY EntryIs
<1> HIDE DEF e
<1>3. ASSUME NEW s \in log', NEW z \in log', Final(s), SameRun(s, z), s.exec # NoExec, s # z
      PROVE  Precedes(z, s)
  <2>1. CASE s \in log /\ z \in log
    BY <1>3, <2>1 DEF Inv, OneVerdict
  <2>2. CASE s = e /\ z \in log
    <3>1. SameRun(z, r) /\ r.exec # NoExec
      BY <1>2, <1>3, <2>2 DEF SameRun
    <3> QED BY <1>2, <2>2, <3>1 DEF Taken, InOrder
  <2>3. CASE s \in log /\ z = e
    <3>1. SameRun(s, r) /\ r.exec # NoExec
      BY <1>2, <1>3, <2>3 DEF SameRun
    <3> QED BY <1>3, <2>3, <3>1, TakenCausesNothingYet
  <2> QED BY <1>1, <1>3, <2>1, <2>2, <2>3
<1>4. ASSUME NEW s \in log', NEW a \in InFlight', SameRun(s, a), a.exec # NoExec
      PROVE  Precedes(s, a)
  <2>1. CASE a \in N
    <3>1. ~SameRun(s, a)
      BY <1>1, <1>2, <2>1, NextIsNew
    <3> QED BY <1>4, <3>1
  <2>2. CASE a \in Rest /\ s \in log
    BY <1>1, <1>4, <2>2 DEF Inv, OneVerdict
  <2>3. CASE a \in Rest /\ s = e
    <3>1. SameRun(r, a) /\ r.exec # NoExec
      BY <1>2, <1>4, <2>3 DEF SameRun
    <3> QED BY <1>2, <2>3, <3>1 DEF Taken, InOrder
  <2> QED BY <1>1, <2>1, <2>2, <2>3
<1> QED BY <1>3, <1>4 DEF OneVerdict, Final, SameRun, Precedes

LEMMA OwnTaken ==
  ASSUME TypeOK, Inv, NEW r \in Result, NEW known \in BOOLEAN, NEW matched \in SUBSET Entries,
         Taken(r, known, matched)
  PROVE  MergeIsClean'
<1> DEFINE e == Entry(r, known, matched)
<1>1. log' = log \cup {e}
  BY TakenEffect
<1>2. /\ \A k \in {r.node, "type"} : k \in DOMAIN Payload(r, known)
                                         /\ Payload(r, known)[k] = Writer(r)
      /\ \A k \in DOMAIN Payload(r, known) : Payload(r, known)[k].exec = r.exec
  BY PayloadIs DEF Inv
<1>3. /\ e.exec = r.exec /\ e.node = r.node /\ e.payload = Payload(r, known)
      /\ Writer(e) = Writer(r)
  BY EntryIs
<1> HIDE DEF e
<1>4. OneExecution'
  BY <1>1, <1>2, <1>3 DEF Inv, MergeIsClean, OneExecution
<1>5. OwnWins'
  BY <1>1, <1>2, <1>3 DEF Inv, MergeIsClean, OwnWins, Writer
<1> QED BY <1>4, <1>5 DEF MergeIsClean

LEMMA MergeTaken ==
  ASSUME TypeOK, Inv, NEW r \in Result, NEW known \in BOOLEAN, NEW matched \in SUBSET Entries,
         Taken(r, known, matched)
  PROVE  MergesItsInput'
<1> DEFINE e == Entry(r, known, matched)
<1>1. log' = log \cup {e} /\ definition' = definition /\ log \subseteq log'
  BY TakenEffect DEF fixed
<1>2. /\ e.exec = r.exec /\ e.path = r.path /\ e.node = r.node /\ e.known = known
      /\ e.payload = Payload(r, known) /\ Own(e) = Own(r) /\ SameRun(e, r)
  BY EntryIs
<1>3. ASSUME Tree(definition), Drawn(definition), r.path # <<>>, known, Merges(definition, r)
      PROVE  \E c \in log : Final(c) /\ Starts(c, r) /\ Payload(r, known) = Overlay(c.payload, Own(r))
  <2> DEFINE deps == definition.dependencies[r.node]
             h == execHistory[r.exec]
  <2>1. PICK c \in log : Final(c) /\ Starts(c, r)
    BY <1>3 DEF Taken, Caused
  <2>2. r.exec # NoExec
    BY <1>3 DEF Taken, Caused
  <2>3. h[c.node] = c.payload /\ c.node \in DOMAIN h
    BY <1>3, <2>1 DEF Taken, Caused
  <2>4. PICK en \in c.matched : definition.at[en] = c.node /\ Follows(definition, en, r.node)
    BY <2>1 DEF Starts
  <2>5. /\ r.node \in Nodes /\ deps \in Seq(Nodes) /\ c.matched \subseteq Entries
        /\ IsPayload(c.payload) /\ definition \in Definition
    BY LogType, EngineAssumption DEF Result, Definition, TypeOK
  <2>6. \A i \in DOMAIN deps : deps[i] = c.node
    <3>1. TAKE i \in DOMAIN deps
    <3>2. PICK f \in Entries : Follows(definition, f, r.node) /\ definition.at[f] = deps[i]
      BY <1>3, <2>5 DEF Drawn
    <3>3. f = en
      BY <1>3, <2>4, <2>5, <3>2 DEF Tree
    <3> QED BY <2>4, <3>2, <3>3
  <2>7. 1 \in DOMAIN deps
    <3> HIDE DEF deps
    <3>1. deps # <<>>
      BY <1>3 DEF Merges, deps
    <3> QED BY <2>5, <3>1
  <2>8. \A k : Offers(r.node, h, k) = IF k \in DOMAIN c.payload THEN DOMAIN deps ELSE {}
    BY <2>3, <2>6 DEF Offers
  <2> DEFINE u == Upstream(r.node, h)
  <2>9. Recorded(r.node, h)
    BY <2>5, UpstreamIsRecorded
  <2>10. DOMAIN u = DOMAIN c.payload
    BY <2>5, <2>7, <2>8, <2>9 DEF Recorded, IsPayload
  <2>11. \A k \in DOMAIN u : u[k] = c.payload[k]
    <3>1. TAKE k \in DOMAIN u
    <3>2. \E i \in Offers(r.node, h, k) : u[k] = h[deps[i]][k]
      BY <2>9, <3>1, Zenon DEF Recorded
    <3> QED BY <2>3, <2>6, <2>8, <3>2
  <2>12. u = [k \in DOMAIN u |-> u[k]]
    BY <2>9 DEF Recorded
  <2>13. u = c.payload
    <3> HIDE DEF u
    <3> QED BY <2>5, <2>10, <2>11, <2>12 DEF IsPayload
  <2>14. Payload(r, known) = Overlay(u, Own(r))
    BY <1>3, <2>2 DEF Payload, Merges
  <2> QED BY <2>1, <2>13, <2>14
<1> HIDE DEF e
<1>4. ASSUME Tree(definition), Drawn(definition), NEW s \in log', s.path # <<>>, s.known,
             Merges(definition, s)
      PROVE  \E c \in log' : Final(c) /\ Starts(c, s) /\ s.payload = Overlay(c.payload, Own(s))
  <2>1. CASE s \in log
    BY <1>1, <1>4, <2>1 DEF Inv, MergesItsInput
  <2>2. CASE s = e
    <3>1. r.path # <<>> /\ known /\ Merges(definition, r)
      BY <1>2, <1>4, <2>2 DEF Merges
    <3>2. PICK c \in log : Final(c) /\ Starts(c, r) /\ Payload(r, known) = Overlay(c.payload, Own(r))
      BY <1>3, <1>4, <3>1
    <3>3. Starts(c, s)
      BY <1>2, <2>2, <3>2 DEF Starts
    <3> QED BY <1>1, <1>2, <2>2, <3>2, <3>3
  <2> QED BY <1>1, <2>1, <2>2
<1>5. \A s, a : Starts(s, a)' <=> Starts(s, a)
  BY <1>1 DEF Starts
<1> QED BY <1>1, <1>4, <1>5 DEF MergesItsInput, Final, Own, Writer

LEMMA LoadTaken ==
  ASSUME TypeOK, Inv, NEW r \in Result, NEW known \in BOOLEAN, NEW matched \in SUBSET Entries,
         Taken(r, known, matched)
  PROVE  LoadOK'
<1>1. /\ InFlight' = Rest \cup {a \in Nexts(r, matched) : Startable(a)}
      /\ Rest \subseteq InFlight /\ UNCHANGED <<fixed, load>>
  BY TakenEffect
<1>2. \A a \in InFlight' : a.node \in registered
  BY <1>1 DEF Inv, LoadOK, Startable
<1> QED BY <1>1, <1>2 DEF Inv, LoadOK, fixed, load

LEMMA PlaceTaken ==
  ASSUME TypeOK, Inv, NEW r \in Result, NEW known \in BOOLEAN, NEW matched \in SUBSET Entries,
         Taken(r, known, matched)
  PROVE  PlaceOK'
<1> DEFINE e == Entry(r, known, matched)
           N == {a \in Nexts(r, matched) : Startable(a)}
<1>1. /\ log' = log \cup {e} /\ live' = live \cup N
      /\ InFlight' = Rest \cup N /\ Rest \subseteq InFlight /\ Delivered' \subseteq Delivered
  BY TakenEffect
<1>2. /\ e.exec = r.exec /\ e.path = r.path /\ e.node = r.node /\ e.attempt = r.attempt
      /\ e.matched = matched /\ (Final(e) <=> Final(r))
  BY EntryIs
<1>3. /\ \A m \in Managers : held'[m] \subseteq held[m]
      /\ minted \subseteq minted'
  BY DEF Taken, Taking
<1>4. \A a \in N : a.path # <<>> /\ a.exec = r.exec /\ a.exec # NoExec /\ a.node \notin Triggers
  BY EntryStarts DEF Startable
<1>5. /\ r.exec \in minted' \cup {NoExec}
      /\ r.node \in Triggers <=> r.path = <<>>
      /\ r.path = <<>> => Final(r) /\ r.attempt = 1
      /\ r.path # <<>> => r.exec # NoExec
      /\ r.exec = NoExec => matched = {}
  BY DEF Taken, Caused, Final
<1> HIDE DEF e, N
<1>6. /\ \A m \in Managers : \A q \in held'[m] : ManagerOf(q.node) = m
      /\ \A m \in Managers : \A q, z \in held'[m] : q = z
  BY <1>3 DEF Inv, PlaceOK
<1>7. \A a \in live' : a.path # <<>> /\ a.node \notin Triggers
  BY <1>1, <1>4 DEF Inv, PlaceOK
<1>8. /\ \A q \in Delivered' : (q.node \in Triggers) <=> (q.path = <<>>)
      /\ \A q \in Delivered' : q.path = <<>> => q = Fired(q.node)
  BY <1>1 DEF Inv, PlaceOK
<1>9. \A a \in InFlight' : a.path # <<>> => a.exec \in minted'
  <2>1. \A a \in Rest : a.path # <<>> => a.exec \in minted'
    BY <1>1, <1>3 DEF Inv, PlaceOK
  <2>2. \A a \in N : a.exec \in minted'
    BY <1>4, <1>5
  <2> QED BY <1>1, <2>1, <2>2
<1>10. ASSUME NEW s \in log'
       PROVE  /\ (s.node \in Triggers) <=> (s.path = <<>>)
              /\ s.path # <<>> => s.exec # NoExec
              /\ s.exec \in minted' \cup {NoExec}
              /\ s.path = <<>> => Final(s) /\ s.attempt = 1
              /\ s.exec = NoExec => s.matched = {}
  <2>1. CASE s \in log
    BY <1>3, <2>1 DEF Inv, PlaceOK
  <2>2. CASE s = e
    BY <1>2, <1>5, <2>2
  <2> QED BY <1>1, <2>1, <2>2
<1>11. ASSUME NEW s \in log', NEW z \in log', s.path = <<>>, z.path = <<>>, s.exec = z.exec,
              s.exec # NoExec
       PROVE  s = z
  <2>1. CASE s \in log /\ z \in log
    BY <1>11, <2>1 DEF Inv, PlaceOK
  <2>2. CASE (s \in log /\ z = e) \/ (s = e /\ z \in log)
    <3>1. \A y \in log : r.path = <<>> /\ r.exec # NoExec => y.exec # r.exec
      BY DEF Taken, InOrder
    <3> QED BY <1>2, <1>11, <2>2, <3>1
  <2> QED BY <1>1, <2>1, <2>2
<1> QED BY <1>6, <1>7, <1>8, <1>9, <1>10, <1>11 DEF PlaceOK, Final, Fired, ManagerOf

LEMMA OrderTaken ==
  ASSUME TypeOK, Inv, NEW r \in Result, NEW known \in BOOLEAN, NEW matched \in SUBSET Entries,
         Taken(r, known, matched)
  PROVE  OrderOK'
<1> DEFINE N == {a \in Nexts(r, matched) : Startable(a)}
<1>1. /\ live' = live \cup N /\ wire' = wire
      /\ \A m \in Managers : held'[m] \subseteq held[m]
  BY TakenEffect DEF Taken, Taking
<1>2. \A a \in N : \A z \in InFlight : ~SameRun(z, a) /\ ~SameRun(a, z)
  BY NextIsNew DEF SameRun
<1>3. live \subseteq InFlight /\ wire \subseteq InFlight
      /\ \A m \in Managers : held[m] \subseteq InFlight
  BY DEF InFlight, Delivered
<1>4. ASSUME NEW a \in N, NEW z \in N, SameRun(a, z) PROVE a = z
  <2>0. matched \subseteq MayMatch(r) /\ r.path \in Seq(Step)
    BY DEF Taken, Taking, Result
  <2>1. PICK f \in matched : /\ a = Next1(r, f, a.node) /\ a.node \in Nodes
                             /\ a.path = Append(r.path, [entry |-> f, node |-> a.node])
    BY <2>0, NextIs
  <2>2. PICK g \in matched : /\ z = Next1(r, g, z.node)
                             /\ z.path = Append(r.path, [entry |-> g, node |-> z.node])
    BY <2>0, NextIs
  <2>3. a.node = z.node /\ a.path = z.path
    BY <1>4 DEF SameRun
  <2>4. f = g
    BY <2>0, <2>1, <2>2, <2>3, WayIsInjective
  <2> QED BY <2>1, <2>2, <2>3, <2>4
<1> HIDE DEF N
<1>5. \A q \in UNION {held'[m] : m \in Managers}, a \in wire' \cup live' :
        SameRun(q, a) /\ a.exec # NoExec => Precedes(q, a)
  BY <1>1, <1>2, <1>3 DEF Inv, OrderOK
<1>6. \A q \in wire', a \in live' : ~SameRun(q, a)
  BY <1>1, <1>2, <1>3 DEF Inv, OrderOK
<1>7. \A q, a \in wire' : SameRun(q, a) => q = a
  BY <1>1 DEF Inv, OrderOK
<1>8. \A q, a \in live' : SameRun(q, a) => q = a
  BY <1>1, <1>2, <1>3, <1>4 DEF Inv, OrderOK
<1> QED BY <1>5, <1>6, <1>7, <1>8 DEF OrderOK, SameRun, Precedes

\* In a tree, nothing of the execution has come to the nodes that are started.
LEMMA NodeIsNew ==
  ASSUME TypeOK, Inv, NEW r \in Result, NEW known \in BOOLEAN, NEW matched \in SUBSET Entries,
         Taken(r, known, matched), Tree(definition),
         NEW a \in Nexts(r, matched), Startable(a),
         NEW z \in Rest \cup log, z.exec = a.exec
  PROVE  z.node # a.node
<1> SUFFICES ASSUME z.node = a.node PROVE FALSE
  OBVIOUS
<1>1. matched \subseteq MayMatch(r) /\ a.node \notin Triggers
  BY DEF Taken, Taking, Startable
<1>2. PICK en \in matched : /\ definition.at[en] = r.node /\ Follows(definition, en, a.node)
                            /\ a.exec = r.exec /\ a.node \in Nodes
  BY <1>1, NextIs
<1>3. a.exec # NoExec /\ r.exec # NoExec
  BY <1>2, EntryStarts
<1>4. Rest \subseteq InFlight
  BY TakenEffect
<1>5. z.path # <<>>
  BY <1>1, <1>4 DEF Inv, PlaceOK, InFlight
<1>6. PICK c \in log : Final(c) /\ Starts(c, z)
  BY <1>4, <1>5 DEF Inv, RunHasCause
<1>7. PICK f \in c.matched : /\ definition.at[f] = c.node /\ Follows(definition, f, z.node)
                             /\ z.exec = c.exec
  BY <1>6 DEF Starts
<1>8. f \in Entries /\ en \in Entries
  BY <1>7, LogType
<1>9. f = en
  BY <1>2, <1>7, <1>8 DEF Tree
<1>10. c.node = r.node /\ c.exec = r.exec
  BY <1>2, <1>7, <1>9
<1>11. c.path = r.path
  BY <1>3, <1>10 DEF Taken, InOrder
<1>12. SameRun(c, r)
  BY <1>10, <1>11 DEF SameRun
<1> QED BY <1>3, <1>6, <1>12, TakenCausesNothingYet

LEMMA UniqueTaken ==
  ASSUME TypeOK, Inv, NEW r \in Result, NEW known \in BOOLEAN, NEW matched \in SUBSET Entries,
         Taken(r, known, matched)
  PROVE  UniqueOK'
<1> DEFINE e == Entry(r, known, matched)
           N == {a \in Nexts(r, matched) : Startable(a)}
<1>1. /\ log' = log \cup {e} /\ definition' = definition
      /\ InFlight' = Rest \cup N /\ Rest \subseteq InFlight
  BY TakenEffect DEF fixed
<1>2. e.exec = r.exec /\ e.path = r.path /\ e.node = r.node
  BY EntryIs
<1> HIDE DEF e
<1>3. ASSUME Tree(definition) PROVE
        \A a, z \in InFlight' \cup log' :
          a.exec = z.exec /\ a.exec # NoExec /\ a.node = z.node => a.path = z.path
  <2>1. ASSUME NEW a \in Rest \cup log, NEW z \in Rest \cup log, a.exec = z.exec,
               a.exec # NoExec, a.node = z.node
        PROVE  a.path = z.path
    BY <1>1, <1>3, <2>1 DEF Inv, UniqueOK
  <2>2. ASSUME NEW a \in Rest \cup log, a.exec = e.exec, e.exec # NoExec, a.node = e.node
        PROVE  a.path = e.path
    BY <1>2, <1>3, <2>2 DEF Taken, InOrder
  <2>3. ASSUME NEW a \in N, NEW z \in Rest \cup log, z.exec = a.exec PROVE z.node # a.node
    BY <1>3, <2>3, NodeIsNew
  <2>4. ASSUME NEW a \in N, e.exec = a.exec PROVE e.node # a.node
    <3>1. matched \subseteq MayMatch(r) /\ a.node \notin Triggers
      BY DEF Taken, Taking, Startable
    <3>2. PICK en \in matched : /\ definition.at[en] = r.node /\ Follows(definition, en, a.node)
                                /\ a.exec = r.exec /\ en \in Entries
      BY <3>1, NextIs
    <3> SUFFICES ASSUME r.node = a.node PROVE FALSE
      BY <1>2
    <3>3. r.path # <<>> /\ r.exec # NoExec
      BY <3>1 DEF Taken, Caused
    <3>4. PICK c \in log : Final(c) /\ Starts(c, r)
      BY <3>3 DEF Taken, Caused
    <3>5. PICK f \in c.matched : /\ definition.at[f] = c.node /\ Follows(definition, f, r.node)
                                 /\ r.exec = c.exec /\ f \in Entries
      BY <3>4, LogType DEF Starts
    <3>6. f = en
      BY <1>3, <3>2, <3>5, LogType DEF Tree, Result
    <3>7. c.node = r.node /\ c.exec = r.exec
      BY <3>2, <3>5, <3>6
    <3>8. c.path = r.path
      BY <1>3, <3>3, <3>7 DEF Taken, InOrder
    <3>9. SameRun(c, r)
      BY <3>7, <3>8 DEF SameRun
    <3> QED BY <3>3, <3>4, <3>9, TakenCausesNothingYet
  <2>5. ASSUME NEW a \in N, NEW z \in N, a.node = z.node PROVE a.path = z.path
    <3>1. matched \subseteq MayMatch(r)
      BY DEF Taken, Taking
    <3>2. PICK f \in matched : /\ Follows(definition, f, a.node) /\ a.node \in Nodes
                               /\ a.path = Append(r.path, [entry |-> f, node |-> a.node])
      BY <3>1, NextIs
    <3>3. PICK g \in matched : /\ Follows(definition, g, z.node)
                               /\ z.path = Append(r.path, [entry |-> g, node |-> z.node])
      BY <3>1, NextIs
    <3>4. f = g
      BY <1>3, <2>5, <3>2, <3>3 DEF Tree
    <3> QED BY <2>5, <3>2, <3>3, <3>4
  <2> HIDE DEF N
  <2> QED BY <1>1, <2>1, <2>2, <2>3, <2>4, <2>5
<1> QED BY <1>1, <1>3 DEF UniqueOK, Tree, Follows

LEMMA HistoryTaken ==
  ASSUME TypeOK, Inv, NEW r \in Result, NEW known \in BOOLEAN, NEW matched \in SUBSET Entries,
         Taken(r, known, matched)
  PROVE  HistoryOK'
<1> DEFINE e == Entry(r, known, matched)
           N == {a \in Nexts(r, matched) : Startable(a)}
           p == Payload(r, known)
<1>1. /\ log' = log \cup {e} /\ definition' = definition
      /\ InFlight' = Rest \cup N /\ Rest \subseteq InFlight
  BY TakenEffect DEF fixed
<1>2. /\ e.exec = r.exec /\ e.path = r.path /\ e.node = r.node /\ e.payload = p
      /\ e.matched = matched
  BY EntryIs
<1>3. Remember(r, p)
  BY DEF Taken, Taking, Handle
<1>4. /\ DOMAIN execHistory = Execs /\ r.exec \in Execs \cup {NoExec}
      /\ definition \in Definition
  BY EngineAssumption DEF TypeOK, Result
<1>5. ASSUME r.exec # NoExec
      PROVE  /\ DOMAIN execHistory'[r.exec] = DOMAIN execHistory[r.exec] \cup {r.node}
             /\ execHistory'[r.exec][r.node] = p
             /\ \A n \in DOMAIN execHistory[r.exec] \ {r.node} :
                  execHistory'[r.exec][n] = execHistory[r.exec][n]
             /\ \A x \in Execs \ {r.exec} : execHistory'[x] = execHistory[x]
  <2> DEFINE g == [n \in DOMAIN execHistory[r.exec] \cup {r.node} |->
                     IF n = r.node THEN p ELSE execHistory[r.exec][n]]
  <2>1. /\ DOMAIN g = DOMAIN execHistory[r.exec] \cup {r.node} /\ g[r.node] = p
        /\ \A n \in DOMAIN execHistory[r.exec] \ {r.node} : g[n] = execHistory[r.exec][n]
    <3> HIDE DEF p
    <3> QED OBVIOUS
  <2>2. execHistory' = [execHistory EXCEPT ![r.exec] = g]
    BY <1>3, <1>5 DEF Remember
  <2> HIDE DEF g
  <2> QED BY <1>4, <1>5, <2>1, <2>2
<1>6. r.exec = NoExec => execHistory' = execHistory
  BY <1>3 DEF Remember
<1>7. \A k \in DOMAIN p : p[k].exec = r.exec
  BY PayloadIs DEF Inv
<1> HIDE DEF p, e, N
<1>8. ASSUME NEW x \in Execs, NEW n \in DOMAIN execHistory'[x], NEW k \in DOMAIN execHistory'[x][n]
      PROVE  execHistory'[x][n][k].exec = x
  <2>1. CASE r.exec # NoExec /\ x = r.exec /\ n = r.node
    BY <1>5, <1>7, <1>8, <2>1
  <2>2. CASE r.exec # NoExec /\ x = r.exec /\ n # r.node
    <3>1. n \in DOMAIN execHistory[x] /\ execHistory'[x][n] = execHistory[x][n]
      BY <1>5, <1>8, <2>2
    <3> QED BY <1>8, <3>1 DEF Inv, HistoryOK
  <2>3. CASE r.exec = NoExec \/ x # r.exec
    <3>1. execHistory'[x] = execHistory[x]
      BY <1>5, <1>6, <2>3
    <3> QED BY <1>8, <3>1 DEF Inv, HistoryOK
  <2> QED BY <2>1, <2>2, <2>3
<1>9. ASSUME Tree(definition), NEW a \in InFlight', NEW s \in log', Final(s), Starts(s, a)
      PROVE  s.node \in DOMAIN execHistory'[a.exec] /\ execHistory'[a.exec][s.node] = s.payload
  <2>0. /\ s.exec = a.exec /\ a.path # <<>> /\ a.exec # NoExec
        /\ s.path \in Seq(Step) /\ s.matched \subseteq Entries
        /\ a.node \in Nodes /\ a.path \in Seq(Step)
    <3>1. s.path \in Seq(Step) /\ s.matched \subseteq Entries /\ a.node \in Nodes
          /\ a.path \in Seq(Step)
      <4>1. ASSUME s \in log
            PROVE  s.path \in Seq(Step) /\ s.matched \subseteq Entries
        BY <4>1, LogType
      <4>2. ASSUME s = e
            PROVE  s.path \in Seq(Step) /\ s.matched \subseteq Entries
        BY <1>2, <4>2 DEF Result
      <4>3. ASSUME a \in Rest
            PROVE  a.node \in Nodes /\ a.path \in Seq(Step)
        BY <1>1, <4>3, FlightType
      <4>4. ASSUME a \in N
            PROVE  a.node \in Nodes /\ a.path \in Seq(Step)
        <5>1. a \in Attempt
          BY <4>4, EntryStarts DEF N
        <5> QED BY <5>1 DEF Attempt
      <4>5. s \in log \/ s = e
        BY <1>1, <1>9
      <4>6. a \in Rest \/ a \in N
        BY <1>1, <1>9
      <4>7. s.path \in Seq(Step) /\ s.matched \subseteq Entries
        BY <4>1, <4>2, <4>5
      <4>8. a.node \in Nodes /\ a.path \in Seq(Step)
        BY <4>3, <4>4, <4>6
      <4> QED BY <4>7, <4>8
    <3>2. PICK en \in s.matched : /\ a.path = Append(s.path, [entry |-> en, node |-> a.node])
                                  /\ a.exec = s.exec
      BY <1>9 DEF Starts
    <3>3. a.path # <<>>
      BY <3>1, <3>2, WayIsInjective
    <3>4. a.exec # NoExec
      BY <1>9, <3>3, PlaceTaken, TypeTaken, EngineAssumption DEF PlaceOK, TypeOK
    <3> QED BY <3>1, <3>2, <3>3, <3>4
  <2>1. CASE s = e
    <3>1. s.node = r.node /\ s.payload = p /\ a.exec = r.exec
      BY <1>2, <2>0, <2>1
    <3> QED BY <1>5, <2>0, <3>1
  <2>2. CASE s \in log /\ a \in N
    <3>1. a \in Nexts(r, matched) /\ Starts(e, a) /\ r.exec # NoExec
      BY <2>2, EntryStarts DEF N, e
    <3>2. e.path \in Seq(Step) /\ e.matched \subseteq Entries
      BY <1>2 DEF Result
    <3>3. SameRun(s, e)
      BY <1>4, <1>9, <2>0, <3>1, <3>2, CauseIsUnique
    <3>4. SameRun(s, r)
      BY <1>2, <3>3 DEF SameRun
    <3> QED BY <1>9, <2>2, <3>1, <3>4, TakenCausesNothingYet
  <2>3. CASE s \in log /\ a \in Rest
    <3>1. s.node \in DOMAIN execHistory[a.exec] /\ execHistory[a.exec][s.node] = s.payload
      BY <1>1, <1>9, <2>3 DEF Inv, HistoryOK
    <3>2. ~(s.exec = r.exec /\ s.node = r.node)
      <4> SUFFICES ASSUME s.exec = r.exec, s.node = r.node PROVE FALSE
        OBVIOUS
      <4>1. r.exec # NoExec
        BY <2>0
      <4>2. s.path = r.path
        BY <1>9, <2>3, <4>1 DEF Taken, InOrder
      <4>3. SameRun(s, r)
        BY <4>2 DEF SameRun
      <4> QED BY <1>9, <2>3, <4>1, <4>3, TakenCausesNothingYet
    <3>3. a.exec \in Execs
      BY <1>1, <2>0, <2>3, FlightType
    <3>4. CASE a.exec = r.exec
      BY <1>5, <2>0, <3>1, <3>2, <3>4
    <3>5. CASE a.exec # r.exec
      BY <1>5, <1>6, <3>1, <3>3, <3>5
    <3> QED BY <3>4, <3>5
  <2> QED BY <1>1, <1>9, <2>1, <2>2, <2>3
<1>10. \A s, a : Starts(s, a)' <=> Starts(s, a)
  BY <1>1 DEF Starts
<1>11. Tree(definition)' <=> Tree(definition)
  BY <1>1 DEF Tree, Follows
<1> QED BY <1>8, <1>9, <1>10, <1>11 DEF HistoryOK, Final

LEMMA ReadyTaken ==
  ASSUME TypeOK, Inv, NEW r \in Result, NEW known \in BOOLEAN,
         NEW matched \in SUBSET Entries, Taken(r, known, matched)
  PROVE  ReadyOK' /\ ConsumersExist'
<1> DEFINE e == Entry(r, known, matched)
           N == Nexts(r, matched)
<1>1. /\ log' = log \cup {e}
      /\ InFlight' = Rest \cup {a \in N : Startable(a)} /\ Rest \subseteq InFlight
      /\ skipped' = skipped \cup {a \in N : ~Startable(a)}
      /\ UNCHANGED <<fixed, load>>
  BY TakenEffect
<1>2. e.exec = r.exec /\ e.node = r.node
  BY EntryIs
<1>3. ASSUME NEW a \in N
      PROVE  /\ a.path # <<>>
             /\ todo \subseteq Triggers \/ \E s \in log' : s.exec = a.exec /\ s.node \in Webhooks
  <2>1. a.path # <<>> /\ a.exec = r.exec
    BY EntryStarts
  <2>2. \/ todo \subseteq Triggers
        \/ r.node \in Webhooks
        \/ \E s \in log : s.exec = r.exec /\ s.node \in Webhooks
    BY DEF Taken, Caused
  <2> HIDE DEF e
  <2> QED BY <1>1, <1>2, <2>1, <2>2
<1>4. ASSUME NEW a \in N, todo \subseteq Triggers, enableActions, a.node \notin Broken \cup Triggers
      PROVE  Startable(a)
  <2>1. a.node \in Nodes
    BY EntryStarts
  <2>2. a.node \in registered
    BY <1>4, <2>1 DEF Inv, LoadOK
  <2> QED BY <1>4, <2>2 DEF Startable
<1> HIDE DEF e, N
<1>5. ReadyOK'
  BY <1>1, <1>3 DEF Inv, ReadyOK, load
<1>6. ConsumersExist'
  BY <1>1, <1>3, <1>4 DEF Inv, ConsumersExist, fixed
<1> QED BY <1>5, <1>6

\* A result that is taken keeps the invariant.
LEMMA TakenStep ==
  ASSUME Inv, NEW r \in Result, NEW known \in BOOLEAN, NEW matched \in SUBSET Entries,
         Taken(r, known, matched)
  PROVE  Inv'
BY TypeTaken, CauseTaken, VerdictTaken, OwnTaken, MergeTaken, LoadTaken, PlaceTaken, OrderTaken,
   UniqueTaken, HistoryTaken, ReadyTaken DEF Inv

-----------------------------------------------------------------------------
(* The other steps.                                                        *)

\* What is recorded and started stays, and what is under way is named as before.
Same == UNCHANGED <<fixed, execHistory, log, skipped>>

\* Everything under way was under way before, perhaps as the next attempt.
Continues(a) == \E q \in InFlight : /\ SameRun(q, a) /\ q.attempt <= a.attempt

LEMMA ContinuesKeeps ==
  ASSUME TypeOK, Inv, Same, todo' \subseteq todo, TypeOK',
         \A a \in InFlight' : a.path # <<>> => Continues(a),
         \A a \in InFlight' : a.path = <<>> => a.exec = NoExec /\ todo' \subseteq Triggers
  PROVE  /\ RunHasCause' /\ OneVerdict' /\ MergeIsClean' /\ MergesItsInput'
         /\ UniqueOK' /\ HistoryOK' /\ ReadyOK' /\ ConsumersExist'
<1>1. /\ UNCHANGED <<definition, enableActions, execHistory, log, skipped>>
  BY DEF Same, fixed
<1>2. \A s, a : Starts(s, a)' <=> Starts(s, a)
  BY <1>1 DEF Starts
<1>3. Tree(definition)' <=> Tree(definition)
  BY <1>1
<1>4. \A s, q, a : SameRun(q, a) => (Starts(s, q) <=> Starts(s, a))
  BY DEF SameRun, Starts
<1>5. RunHasCause'
  <2>1. ASSUME NEW a \in InFlight', a.path # <<>> PROVE \E s \in log : Final(s) /\ Starts(s, a)
    <3>1. PICK q \in InFlight : SameRun(q, a)
      BY <2>1 DEF Continues
    <3>2. q.path # <<>>
      BY <2>1, <3>1 DEF SameRun
    <3> QED BY <1>4, <3>1, <3>2 DEF Inv, RunHasCause
  <2> QED BY <1>1, <1>2, <2>1 DEF Inv, RunHasCause, Final
<1>6. OneVerdict'
  <2>1. ASSUME NEW s \in log, NEW a \in InFlight', SameRun(s, a), a.exec # NoExec
        PROVE  Precedes(s, a)
    <3>1. PICK q \in InFlight : SameRun(q, a) /\ q.attempt <= a.attempt
      BY <2>1 DEF Continues
    <3>2. SameRun(s, q) /\ q.exec # NoExec
      BY <2>1, <3>1 DEF SameRun
    <3>3. Precedes(s, q)
      BY <3>2 DEF Inv, OneVerdict
    <3>4. s.attempt \in Nat /\ q.attempt \in Nat
      BY LogType, FlightType
    <3>5. a.attempt \in Nat
      BY DEF TypeOK, InFlight, Delivered, Attempt, Result
    <3> QED BY <3>1, <3>3, <3>4, <3>5 DEF Precedes
  <2> QED BY <1>1, <2>1 DEF Inv, OneVerdict, SameRun, Precedes, Final
<1>7. MergeIsClean' /\ ConsumersExist'
  BY <1>1 DEF Inv, MergeIsClean, OneExecution, OwnWins, ConsumersExist, Writer
<1>8. MergesItsInput'
  BY <1>1, <1>2 DEF Inv, MergesItsInput, Final, Own, Writer, Merges
<1>9. UniqueOK'
  <2>1. ASSUME NEW a \in InFlight' \cup log, a.exec # NoExec
        PROVE  \E q \in InFlight \cup log : SameRun(q, a)
    BY <2>1 DEF Continues, SameRun
  <2> QED BY <1>1, <2>1 DEF Inv, UniqueOK, SameRun, Tree, Follows
<1>10. HistoryOK'
  <2>1. ASSUME Tree(definition), NEW a \in InFlight', NEW s \in log, Final(s), Starts(s, a)
        PROVE  s.node \in DOMAIN execHistory[a.exec] /\ execHistory[a.exec][s.node] = s.payload
    <3>1. a.path # <<>>
      <4>1. a.path \in Seq(Step) /\ a.node \in Nodes
        BY DEF TypeOK, InFlight, Delivered, Attempt, Result
      <4>2. PICK en \in s.matched : a.path = Append(s.path, [entry |-> en, node |-> a.node])
        BY <2>1 DEF Starts
      <4>3. s.path \in Seq(Step) /\ en \in Entries
        BY LogType
      <4> QED BY <4>1, <4>2, <4>3, WayIsInjective
    <3>2. PICK q \in InFlight : SameRun(q, a)
      BY <3>1 DEF Continues
    <3>3. Starts(s, q) /\ q.exec = a.exec
      BY <1>4, <2>1, <3>2 DEF SameRun
    <3> QED BY <2>1, <3>3 DEF Inv, HistoryOK
  <2> QED BY <1>1, <1>2, <1>3, <2>1 DEF Inv, HistoryOK, Final
<1>11. ReadyOK'
  <2>1. ASSUME NEW a \in InFlight'
        PROVE  \/ todo' \subseteq Triggers
               \/ a.path # <<>> /\ \E s \in log : s.exec = a.exec /\ s.node \in Webhooks
    <3>1. CASE a.path = <<>>
      BY <3>1
    <3>2. CASE a.path # <<>>
      <4>1. PICK q \in InFlight : SameRun(q, a)
        BY <3>2 DEF Continues
      <4> QED BY <3>2, <4>1 DEF Inv, ReadyOK, SameRun
    <3> QED BY <3>1, <3>2
  <2> QED BY <1>1, <2>1 DEF ReadyOK
<1> QED BY <1>5, <1>6, <1>7, <1>8, <1>9, <1>10, <1>11

LEMMA NodeStep ==
  ASSUME Inv, NEW n \in Nodes, LoadNode(n) \/ IndexNode
  PROVE  Inv'
<1>1. /\ UNCHANGED <<definition, enableActions, live, wire, held, execHistory, minted, restarts,
                     log, skipped>>
      /\ todo' \subseteq todo
  BY DEF LoadNode, IndexNode, fixed
<1>2. TypeOK'
  <2>1. /\ todo' \subseteq Nodes /\ loading' \in Nodes \cup {None}
        /\ registered' \subseteq Nodes /\ indexed' \subseteq registered'
    <3>1. CASE LoadNode(n)
      BY <3>1 DEF LoadNode, Inv, TypeOK
    <3>2. CASE IndexNode
      BY <3>2 DEF IndexNode, Inv, TypeOK, LoadOK
    <3> QED BY <3>1, <3>2
  <2> QED BY <1>1, <2>1 DEF Inv, TypeOK, Reported
<1>3. LoadOK'
  <2>1. InFlight' = InFlight
    BY <1>1 DEF InFlight, Delivered
  <2>2. CASE LoadNode(n)
    <3>1. /\ loading = None /\ ItsTurn(n) /\ todo' = todo \ {n} /\ indexed' = indexed
          /\ IF Builds(n) THEN registered' = registered \cup {n} /\ loading' = n
                          ELSE UNCHANGED <<registered, loading>>
      BY <2>2 DEF LoadNode
    <3>2. None \notin registered
      BY EngineAssumption DEF Inv, TypeOK
    <3>3. CASE Builds(n)
      BY <1>1, <2>1, <3>1, <3>2, <3>3 DEF Inv, LoadOK, ItsTurn
    <3>4. CASE ~Builds(n)
      BY <1>1, <2>1, <3>1, <3>4 DEF Inv, LoadOK, Builds
    <3> QED BY <3>3, <3>4
  <2>3. CASE IndexNode
    BY <1>1, <2>1, <2>3 DEF Inv, LoadOK, IndexNode
  <2> QED BY <2>2, <2>3
<1>4. PlaceOK' /\ OrderOK'
  BY <1>1 DEF Inv, PlaceOK, OrderOK, InFlight, Delivered, SameRun, Precedes, Fired,
              ManagerOf, Final
<1>5. /\ RunHasCause' /\ OneVerdict' /\ MergeIsClean' /\ MergesItsInput'
      /\ UniqueOK' /\ HistoryOK' /\ ReadyOK' /\ ConsumersExist'
  <2>1. Same
    BY <1>1 DEF Same, fixed
  <2>2. InFlight' = InFlight
    BY <1>1 DEF InFlight, Delivered
  <2>3. \A a \in InFlight' : Continues(a)
    BY <2>2, FlightType DEF Continues, SameRun, Inv
  <2>4. \A a \in InFlight' : a.path = <<>> => a.exec = NoExec /\ todo' \subseteq Triggers
    <3>1. ASSUME NEW a \in InFlight, a.path = <<>> PROVE a.exec = NoExec /\ todo \subseteq Triggers
      <4>1. a \in Delivered
        BY <3>1 DEF InFlight, Inv, PlaceOK
      <4>2. a = Fired(a.node)
        BY <3>1, <4>1 DEF Inv, PlaceOK
      <4> QED BY <3>1, <4>2 DEF Fired, Inv, ReadyOK
    <3> QED BY <1>1, <2>2, <3>1
  <2> QED BY <1>1, <1>2, <2>1, <2>3, <2>4, ContinuesKeeps DEF Inv
<1> QED BY <1>2, <1>3, <1>4, <1>5 DEF Inv

\* What is under way with an empty way is a firing.
LEMMA FiringIs ==
  ASSUME Inv, NEW a \in InFlight, a.path = <<>>
  PROVE  a \in Delivered /\ a = Fired(a.node) /\ a.exec = NoExec /\ todo \subseteq Triggers
<1>1. a \in Delivered
  BY DEF InFlight, Inv, PlaceOK
<1>2. a = Fired(a.node)
  BY <1>1 DEF Inv, PlaceOK
<1> QED BY <1>1, <1>2 DEF Fired, Inv, ReadyOK

LEMMA FireStep ==
  ASSUME Inv, NEW t \in Triggers, Fire(t)
  PROVE  Inv'
<1> DEFINE f == Fired(t)
<1>1. /\ t \in registered \ Webhooks /\ wire' = wire \cup {f}
      /\ UNCHANGED <<definition, enableActions, todo, loading, registered, indexed, live, held,
                     execHistory, minted, restarts, log, skipped>>
  BY DEF Fire, fixed, load
<1>2. /\ f.exec = NoExec /\ f.path = <<>> /\ f.node = t /\ f \in Result
  <2>1. t \in Nodes /\ <<>> \in Seq(Step)
    BY EngineAssumption
  <2> QED BY <2>1 DEF Fired, Result
<1>3. InFlight' = InFlight \cup {f} /\ Delivered' = Delivered \cup {f}
  BY <1>1 DEF InFlight, Delivered
<1>4. todo \subseteq Triggers
  BY <1>1 DEF Inv, LoadOK
<1>F. f = Fired(f.node)
  BY <1>2
<1> HIDE DEF f
<1>5. TypeOK'
  BY <1>1, <1>2 DEF Inv, TypeOK, Reported
<1>6. LoadOK'
  BY <1>1, <1>2, <1>3 DEF Inv, LoadOK
<1>7. PlaceOK'
  <2>1. /\ \A r \in Delivered' : (r.node \in Triggers) <=> (r.path = <<>>)
        /\ \A r \in Delivered' : r.path = <<>> => r = Fired(r.node)
        /\ \A a \in InFlight' : a.path # <<>> => a.exec \in minted
    BY <1>2, <1>3, <1>F DEF Inv, PlaceOK
  <2> QED BY <1>1, <2>1 DEF Inv, PlaceOK, Final, ManagerOf, Fired
<1>8. OrderOK'
  <2>1. \A q \in live : ~SameRun(f, q) /\ ~SameRun(q, f)
    BY <1>2 DEF Inv, PlaceOK, SameRun
  <2>2. ASSUME NEW q \in wire, SameRun(q, f) \/ SameRun(f, q) PROVE q = f
    <3>1. q.path = <<>> /\ q.node = t /\ q \in InFlight
      BY <1>2, <2>2 DEF SameRun, InFlight, Delivered
    <3> QED BY <1>2, <1>F, <3>1, FiringIs
  <2> QED BY <1>1, <1>2, <2>1, <2>2 DEF Inv, OrderOK, SameRun, Precedes
<1>9. /\ RunHasCause' /\ OneVerdict' /\ MergeIsClean' /\ MergesItsInput'
      /\ UniqueOK' /\ HistoryOK' /\ ReadyOK' /\ ConsumersExist'
  <2>1. Same
    BY <1>1 DEF Same, fixed
  <2>2. \A a \in InFlight' : a.path # <<>> => Continues(a)
    BY <1>2, <1>3, FlightType DEF Continues, SameRun, Inv
  <2>3. \A a \in InFlight' : a.path = <<>> => a.exec = NoExec /\ todo' \subseteq Triggers
    BY <1>1, <1>2, <1>3, <1>4, FiringIs
  <2> QED BY <1>1, <1>5, <2>1, <2>2, <2>3, ContinuesKeeps DEF Inv
<1> QED BY <1>5, <1>6, <1>7, <1>8, <1>9 DEF Inv

LEMMA ReportStep ==
  ASSUME Inv, NEW a \in live, NEW retrying \in BOOLEAN, Report(a, retrying)
  PROVE  Inv'
<1> DEFINE q == Reported(a, retrying)
<1>1. /\ live' = live \ {a} /\ wire' = wire \cup {q}
      /\ UNCHANGED <<definition, enableActions, todo, loading, registered, indexed, held,
                     execHistory, minted, restarts, log, skipped>>
  BY DEF Report, fixed, load
<1>2. /\ q \in Result /\ q.exec = a.exec /\ q.path = a.path /\ q.node = a.node
      /\ q.attempt = a.attempt /\ a.attempt \in Nat
  BY DEF Reported, Result, Attempt, Inv, TypeOK
<1>3. InFlight' \subseteq InFlight \cup {q} /\ Delivered' = Delivered \cup {q} /\ a \in InFlight
  BY <1>1 DEF InFlight, Delivered
<1>4. a.path # <<>> /\ a.node \notin Triggers
  BY DEF Inv, PlaceOK
<1>5. \A z : /\ SameRun(q, z) <=> SameRun(a, z)
             /\ SameRun(z, q) <=> SameRun(z, a)
             /\ Precedes(z, q) <=> Precedes(z, a)
  BY <1>2 DEF SameRun, Precedes
<1> HIDE DEF q
<1>6. TypeOK'
  BY <1>1, <1>2 DEF Inv, TypeOK, Reported
<1>7. LoadOK'
  BY <1>1, <1>2, <1>3 DEF Inv, LoadOK
<1>8. PlaceOK'
  <2>1. /\ \A r \in Delivered' : (r.node \in Triggers) <=> (r.path = <<>>)
        /\ \A r \in Delivered' : r.path = <<>> => r = Fired(r.node)
        /\ \A z \in InFlight' : z.path # <<>> => z.exec \in minted
    BY <1>2, <1>3, <1>4 DEF Inv, PlaceOK
  <2> QED BY <1>1, <2>1 DEF Inv, PlaceOK, Final, ManagerOf, Fired
<1>9. OrderOK'
  <2>1. \A z \in wire : ~SameRun(z, a) /\ ~SameRun(a, z)
    BY DEF Inv, OrderOK, SameRun
  <2>2. \A z \in live : SameRun(a, z) => a = z
    BY DEF Inv, OrderOK
  <2>3. \A h \in UNION {held[m] : m \in Managers} : SameRun(h, q) /\ q.exec # NoExec => Precedes(h, q)
    BY <1>2, <1>5 DEF Inv, OrderOK
  <2>4. \A h \in UNION {held'[m] : m \in Managers}, z \in wire' \cup live' :
          SameRun(h, z) /\ z.exec # NoExec => Precedes(h, z)
    BY <1>1, <2>3 DEF Inv, OrderOK
  <2>5. \A h \in wire', z \in live' : ~SameRun(h, z)
    BY <1>1, <1>5, <2>2 DEF Inv, OrderOK
  <2>6. \A h, z \in wire' : SameRun(h, z) => h = z
    BY <1>1, <1>5, <2>1 DEF Inv, OrderOK
  <2>7. \A h, z \in live' : SameRun(h, z) => h = z
    BY <1>1 DEF Inv, OrderOK
  <2> QED BY <2>4, <2>5, <2>6, <2>7 DEF OrderOK, SameRun, Precedes
<1>10. /\ RunHasCause' /\ OneVerdict' /\ MergeIsClean' /\ MergesItsInput'
       /\ UniqueOK' /\ HistoryOK' /\ ReadyOK' /\ ConsumersExist'
  <2>1. Same
    BY <1>1 DEF Same, fixed
  <2>2. Continues(q)
    BY <1>2, <1>3 DEF Continues, SameRun
  <2>3. \A z \in InFlight : Continues(z)
    BY FlightType DEF Continues, SameRun, Inv
  <2>4. \A z \in InFlight' : z.path = <<>> => z.exec = NoExec /\ todo' \subseteq Triggers
    BY <1>1, <1>2, <1>3, <1>4, FiringIs
  <2> QED BY <1>1, <1>3, <1>6, <2>1, <2>2, <2>3, <2>4, ContinuesKeeps DEF Inv
<1> QED BY <1>6, <1>7, <1>8, <1>9, <1>10 DEF Inv

LEMMA ForwardStep ==
  ASSUME Inv, NEW r \in wire, Forward(r)
  PROVE  Inv'
<1> DEFINE m == ManagerOf(r.node)
           z == Again(r)
           G == IF r.retrying THEN {z} ELSE {}
<1>1. /\ held[m] = {} /\ held' = [held EXCEPT ![m] = {r}] /\ wire' = wire \ {r}
      /\ live' = live \cup G
      /\ UNCHANGED <<definition, enableActions, todo, loading, registered, indexed,
                     execHistory, minted, restarts, log, skipped>>
  BY DEF Forward, fixed, load
<1>2. /\ r \in Result /\ r \in Delivered /\ r \in InFlight /\ m \in Managers
      /\ held \in [Managers -> SUBSET Result]
  BY DEF InFlight, Delivered, Inv, TypeOK, ManagerOf, Managers
<1>3. /\ held'[m] = {r} /\ held' \in [Managers -> SUBSET Result]
      /\ \A o \in Managers \ {m} : held'[o] = held[o]
  BY <1>1, <1>2
<1>4. /\ z.exec = r.exec /\ z.path = r.path /\ z.node = r.node /\ z.attempt = r.attempt + 1
      /\ z \in Attempt /\ r.attempt \in Nat
  BY <1>2 DEF Again, Attempt, Result
<1>5. /\ InFlight' = InFlight \cup G /\ Delivered' = Delivered
  <2> HIDE DEF G, m
  <2>1. UNION {held'[o] : o \in Managers} = {r} \cup UNION {held[o] : o \in Managers}
    <3>1. ASSUME NEW q \in UNION {held'[o] : o \in Managers}
          PROVE  q \in {r} \cup UNION {held[o] : o \in Managers}
      <4>1. PICK o \in Managers : q \in held'[o]
        BY <3>1
      <4>2. CASE o = m
        BY <1>3, <4>1, <4>2
      <4>3. CASE o # m
        BY <1>3, <4>1, <4>3
      <4> QED BY <4>2, <4>3
    <3>2. ASSUME NEW q \in {r} \cup UNION {held[o] : o \in Managers}
          PROVE  q \in UNION {held'[o] : o \in Managers}
      <4>1. CASE q = r
        BY <1>2, <1>3, <4>1
      <4>2. CASE q # r
        <5>1. PICK o \in Managers : q \in held[o]
          BY <3>2, <4>2
        <5>2. o # m
          BY <1>1, <5>1
        <5> QED BY <1>3, <5>1, <5>2
      <4> QED BY <4>1, <4>2
    <3> QED BY <3>1, <3>2
  <2> QED BY <1>1, <1>2, <2>1 DEF InFlight, Delivered
<1>6. r.retrying => r.path # <<>> /\ r.node \notin Triggers
  BY <1>2 DEF Inv, PlaceOK, Fired
<1>7. \A y : /\ SameRun(z, y) <=> SameRun(r, y)
             /\ SameRun(y, z) <=> SameRun(y, r)
  BY <1>4 DEF SameRun
<1>8. \A y \in G : y = z /\ r.retrying
  OBVIOUS
<1> HIDE DEF z, G, m
<1>9. TypeOK'
  BY <1>1, <1>3, <1>4, <1>8 DEF Inv, TypeOK, Reported
<1>10. LoadOK'
  BY <1>1, <1>2, <1>4, <1>5, <1>8 DEF Inv, LoadOK
<1>11. PlaceOK'
  <2>1. \A o \in Managers : \A q \in held'[o] : ManagerOf(q.node) = o
    BY <1>1, <1>3 DEF Inv, PlaceOK, m
  <2>2. \A o \in Managers : \A q, y \in held'[o] : q = y
    BY <1>1, <1>3 DEF Inv, PlaceOK
  <2>3. \A a \in live' : a.path # <<>> /\ a.node \notin Triggers
    BY <1>1, <1>4, <1>6, <1>8 DEF Inv, PlaceOK
  <2>4. \A a \in InFlight' : a.path # <<>> => a.exec \in minted
    BY <1>2, <1>4, <1>5, <1>8 DEF Inv, PlaceOK
  <2> QED BY <1>1, <1>5, <2>1, <2>2, <2>3, <2>4 DEF Inv, PlaceOK, Final, ManagerOf, Fired
<1>12. OrderOK'
  <2>1. \A q \in live : ~SameRun(r, q) /\ ~SameRun(q, r)
    BY DEF Inv, OrderOK, SameRun
  <2>2. \A q \in wire' : ~SameRun(q, r) /\ ~SameRun(r, q)
    BY <1>1 DEF Inv, OrderOK
  <2>3. ASSUME NEW q \in UNION {held[o] : o \in Managers}, NEW a \in wire' \cup live',
               SameRun(q, a), a.exec # NoExec
        PROVE  Precedes(q, a)
    <3>1. CASE a \in wire \cup live
      BY <2>3, <3>1 DEF Inv, OrderOK
    <3>2. CASE a = z
      <4>1. SameRun(q, r) /\ r.exec # NoExec
        BY <1>4, <1>7, <2>3, <3>2
      <4>2. Precedes(q, r)
        BY <4>1 DEF Inv, OrderOK
      <4>3. q.attempt \in Nat
        BY <1>2 DEF Result
      <4> QED BY <1>4, <3>2, <4>2, <4>3 DEF Precedes
    <3> QED BY <1>1, <1>8, <2>3, <3>1, <3>2
  <2>4. ASSUME NEW a \in wire' \cup live', SameRun(r, a)
        PROVE  Precedes(r, a)
    <3>1. a = z /\ r.retrying
      BY <1>1, <1>8, <2>1, <2>2, <2>4
    <3> QED BY <1>4, <3>1 DEF Precedes
  <2>5. \A q \in UNION {held'[o] : o \in Managers} :
          q = r \/ q \in UNION {held[o] : o \in Managers}
    BY <1>3
  <2>6. \A q \in wire', a \in live' : ~SameRun(q, a)
    BY <1>1, <1>7, <1>8, <2>2 DEF Inv, OrderOK
  <2>7. \A q, a \in wire' : SameRun(q, a) => q = a
    BY <1>1 DEF Inv, OrderOK
  <2>8. \A q, a \in live' : SameRun(q, a) => q = a
    BY <1>1, <1>7, <1>8, <2>1 DEF Inv, OrderOK
  <2> QED BY <2>3, <2>4, <2>5, <2>6, <2>7, <2>8 DEF OrderOK, SameRun, Precedes
<1>13. /\ RunHasCause' /\ OneVerdict' /\ MergeIsClean' /\ MergesItsInput'
       /\ UniqueOK' /\ HistoryOK' /\ ReadyOK' /\ ConsumersExist'
  <2>1. Same
    BY <1>1 DEF Same, fixed
  <2>2. Continues(z)
    BY <1>2, <1>4 DEF Continues, SameRun
  <2>3. \A y \in InFlight : Continues(y)
    BY FlightType DEF Continues, SameRun, Inv
  <2>4. \A y \in InFlight' : y.path = <<>> => y.exec = NoExec /\ todo' \subseteq Triggers
    BY <1>1, <1>4, <1>5, <1>6, <1>8, FiringIs
  <2> QED BY <1>1, <1>5, <1>8, <1>9, <2>1, <2>2, <2>3, <2>4, ContinuesKeeps DEF Inv
<1> QED BY <1>9, <1>10, <1>11, <1>12, <1>13 DEF Inv

\* What was under way is lost with the process, what is recorded is not.
LEMMA RestartStep ==
  ASSUME Inv, Restart
  PROVE  Inv'
<1>1. /\ todo' = Nodes /\ loading' = None /\ registered' = {} /\ indexed' = {}
      /\ live' = {} /\ wire' = {} /\ held' = [m \in Managers |-> {}]
      /\ execHistory' = [x \in Execs |-> Nothing] /\ restarts' = restarts + 1
      /\ UNCHANGED <<definition, enableActions, minted, log, skipped>>
  BY DEF Restart, fixed
<1>2. InFlight' = {} /\ Delivered' = {}
  BY <1>1 DEF InFlight, Delivered
<1>3. \A x \in Execs : DOMAIN execHistory'[x] = {}
  BY <1>1 DEF Nothing
<1>4. TypeOK'
  BY <1>1, <1>3 DEF Inv, TypeOK, Reported
<1>5. LoadOK' /\ OrderOK' /\ UniqueOK' /\ HistoryOK' /\ ReadyOK'
  <2>1. LoadOK'
    BY <1>1, <1>2 DEF LoadOK
  <2>2. OrderOK'
    BY <1>1 DEF OrderOK
  <2>3. UniqueOK'
    BY <1>1, <1>2 DEF Inv, UniqueOK, Tree, Follows
  <2>4. HistoryOK' /\ ReadyOK'
    BY <1>2, <1>3 DEF HistoryOK, ReadyOK
  <2> QED BY <2>1, <2>2, <2>3, <2>4
<1>6. PlaceOK'
  BY <1>1, <1>2 DEF Inv, PlaceOK, Final
<1>7. MergeIsClean' /\ ConsumersExist'
  BY <1>1 DEF Inv, MergeIsClean, OneExecution, OwnWins, ConsumersExist, Writer
<1>8. \A s, a : Starts(s, a)' <=> Starts(s, a)
  BY <1>1 DEF Starts
<1>9. RunHasCause' /\ OneVerdict'
  BY <1>1, <1>2, <1>8 DEF Inv, RunHasCause, OneVerdict, Final, SameRun, Precedes
<1>10. MergesItsInput'
  BY <1>1, <1>8 DEF Inv, MergesItsInput, Final, Own, Writer, Merges
<1> QED BY <1>4, <1>5, <1>6, <1>7, <1>9, <1>10 DEF Inv

LEMMA InitInv == Init => Inv
<1> SUFFICES ASSUME Init PROVE Inv
  OBVIOUS
<1>1. /\ InFlight = {} /\ Delivered = {} /\ log = {} /\ skipped = {}
      /\ live = {} /\ wire = {} /\ held = [m \in Managers |-> {}]
  BY DEF Init, InFlight, Delivered
<1>2. \A x \in Execs : DOMAIN execHistory[x] = {}
  BY DEF Init, Nothing
<1>3. TypeOK
  BY <1>1, <1>2, EngineAssumption DEF Init, TypeOK
<1>4. LoadOK /\ ReadyOK
  BY <1>1 DEF Init, LoadOK, ReadyOK
<1>5. PlaceOK /\ OrderOK
  BY <1>1 DEF PlaceOK, OrderOK
<1>6. UniqueOK /\ HistoryOK
  BY <1>1, <1>2 DEF UniqueOK, HistoryOK
<1>7. RunHasCause /\ OneVerdict /\ MergeIsClean /\ MergesItsInput /\ ConsumersExist
  BY <1>1 DEF RunHasCause, OneVerdict, MergeIsClean, OneExecution, OwnWins, MergesItsInput, ConsumersExist
<1> QED BY <1>3, <1>4, <1>5, <1>6, <1>7 DEF Inv

\* Whatever takes a result, takes it as Taken says.
LEMMA TakeStep ==
  ASSUME Inv, Take \/ \E h \in Webhooks : Post(h)
  PROVE  \E r \in Result, known \in BOOLEAN, matched \in SUBSET Entries :
           Taken(r, known, matched)
<1>1. CASE \E m \in Managers : TakeUnknown(m)
  BY <1>1, TakeUnknownTaken DEF Inv
<1>2. CASE TakeFiring
  BY <1>2, TakeFiringTaken DEF Inv
<1>3. CASE TakeReport
  BY <1>3, TakeReportTaken DEF Inv
<1>4. CASE \E h \in Webhooks : Post(h)
  BY <1>4, PostTaken DEF Inv
<1> QED BY <1>1, <1>2, <1>3, <1>4 DEF Take

LEMMA InvStep == Inv /\ [Next]_vars => Inv'
<1> SUFFICES ASSUME Inv, [Next]_vars PROVE Inv'
  OBVIOUS
<1>1. CASE AddWorkflow
  <2>1. CASE \E n \in Nodes : LoadNode(n)
    BY <2>1, NodeStep
  <2>2. CASE IndexNode
    <3>1. loading \in Nodes
      BY <2>2 DEF IndexNode, Inv, TypeOK
    <3> QED BY <2>2, <3>1, NodeStep
  <2> QED BY <1>1, <2>1, <2>2 DEF AddWorkflow
<1>2. CASE \E t \in Triggers : Fire(t)
  BY <1>2, FireStep
<1>3. CASE \E a \in live : \E retrying \in BOOLEAN : Report(a, retrying)
  BY <1>3, ReportStep
<1>4. CASE Pass
  BY <1>4, ForwardStep DEF Pass
<1>5. CASE Take \/ \E h \in Webhooks : Post(h)
  <2>1. PICK r \in Result, known \in BOOLEAN, matched \in SUBSET Entries :
          Taken(r, known, matched)
    BY <1>5, TakeStep
  <2> QED BY <2>1, TakenStep
<1>6. CASE Restart
  BY <1>6, RestartStep
<1>7. CASE UNCHANGED vars
  <2>1. /\ UNCHANGED <<definition, enableActions, todo, loading, registered, indexed, live, wire,
                      held, execHistory, minted, restarts, log, skipped>>
        /\ Same
    BY <1>7 DEF vars, fixed, load, Same
  <2>2. TypeOK'
    BY <2>1 DEF Inv, TypeOK, Reported
  <2>3. InFlight' = InFlight
    BY <2>1 DEF InFlight, Delivered
  <2>4. LoadOK'
    BY <2>1, <2>3 DEF Inv, LoadOK
  <2>5. PlaceOK' /\ OrderOK'
    BY <2>1 DEF Inv, PlaceOK, OrderOK, InFlight, Delivered, SameRun, Precedes, Fired,
                ManagerOf, Final
  <2>6. \A a \in InFlight' : Continues(a)
    BY <2>3, FlightType DEF Continues, SameRun, Inv
  <2>7. \A a \in InFlight' : a.path = <<>> => a.exec = NoExec /\ todo' \subseteq Triggers
    BY <2>1, <2>3, FiringIs
  <2>8. /\ RunHasCause' /\ OneVerdict' /\ MergeIsClean' /\ MergesItsInput'
        /\ UniqueOK' /\ HistoryOK' /\ ReadyOK' /\ ConsumersExist'
    BY <2>1, <2>2, <2>6, <2>7, ContinuesKeeps DEF Inv
  <2> QED BY <2>2, <2>4, <2>5, <2>8 DEF Inv
<1> QED BY <1>1, <1>2, <1>3, <1>4, <1>5, <1>6, <1>7 DEF Next

-----------------------------------------------------------------------------
(* The theorems.                                                           *)

\* The inductive invariant of the engine, for any number of nodes, executions
\* and restarts.
THEOREM InvCorrect == Spec => []Inv
<1> QED BY InitInv, InvStep, PTL DEF Spec

\* Every variable has its type.
THEOREM TypeCorrect == Spec => []TypeOK
<1>1. Inv => TypeOK
  BY DEF Inv
<1> QED BY InvCorrect, <1>1, PTL

\* Whatever the event loop starts, a verdict recorded before started it.
THEOREM RunsHaveCauses == Spec => []RunHasCause
<1>1. Inv => RunHasCause
  BY DEF Inv
<1> QED BY InvCorrect, <1>1, PTL

\* A run has one verdict, however often it is retried.
THEOREM VerdictIsOne == Spec => []OneVerdict
<1>1. Inv => OneVerdict
  BY DEF Inv
<1> QED BY InvCorrect, <1>1, PTL

\* Runs start for one reason and end in one way, for any workflow.
THEOREM RunsCorrect == Spec => []RunsAreSound
<1>1. RunHasCause /\ OneVerdict => RunsAreSound
  BY DEF RunsAreSound
<1> QED BY RunsHaveCauses, VerdictIsOne, <1>1, PTL

\* merge_input mixes no executions and leaves a node's own fields alone.
THEOREM MergeIsCleanCorrect == Spec => []MergeIsClean
<1>1. Inv => MergeIsClean
  BY DEF Inv
<1> QED BY InvCorrect, <1>1, PTL

\* In a tree merge_input adds what started the run.
THEOREM MergeCorrect == Spec => []MergesItsInput
<1>1. Inv => MergesItsInput
  BY DEF Inv
<1> QED BY InvCorrect, <1>1, PTL

\* A trigger finds its consumers registered.
THEOREM ConsumersCorrect == Spec => []ConsumersExist
<1>1. Inv => ConsumersExist
  BY DEF Inv
<1> QED BY InvCorrect, <1>1, PTL

\* Only the node AddWorkflow is about to index can be taken for unknown.
THEOREM UnknownIsLoading == Spec => OnlyLoadingIsUnknown
<1> DEFINE Known == \A s \in log' \ log : ~s.known => s.node = loading
<1>1. ASSUME Inv, [Next]_vars PROVE [Known]_vars
  <2>1. ASSUME UNCHANGED log PROVE Known
    BY <2>1
  <2>2. CASE Take \/ \E h \in Webhooks : Post(h)
    <3>1. PICK r \in Result, known \in BOOLEAN, matched \in SUBSET Entries :
            Taken(r, known, matched)
      BY <1>1, <2>2, TakeStep
    <3>2. log' = log \cup {Entry(r, known, matched)}
      BY <1>1, <3>1, TakenEffect DEF Inv
    <3>3. /\ Entry(r, known, matched).known = known
          /\ Entry(r, known, matched).node = r.node
      BY DEF Entry
    <3>4. ~known => r.node = loading
      BY <3>1 DEF Taken, Taking
    <3> QED BY <3>2, <3>3, <3>4
  <2>3. CASE ~(Take \/ \E h \in Webhooks : Post(h)) /\ Next
    BY <2>1, <2>3 DEF Next, AddWorkflow, LoadNode, IndexNode, Fire, Report, Pass, Forward, Restart
  <2> QED BY <1>1, <2>2, <2>3
<1> QED BY InvCorrect, <1>1, PTL DEF Spec, OnlyLoadingIsUnknown
=============================================================================
