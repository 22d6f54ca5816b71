----------------------------- MODULE Retry_proofs -----------------------------
(* What the retry decorator promises holds for any policy, any number of    *)
(* runs that share a retryAction, and any capacity of the events channel.   *)
EXTENDS Retry, WellFoundedInduction, TLAPS

LEMMA PolicyType ==
  ASSUME TypeOK
  PROVE  policy.max \in Nat /\ policy.deadline \in BOOLEAN /\ LastAttempt(policy) \in Nat
         /\ LastAttempt(policy) = 1 + policy.max
  BY RetryAssumption DEF TypeOK, Policy, LastAttempt

\* A run past its start is at an attempt its policy allows.
LEMMA AttemptType ==
  ASSUME Inv, NEW r \in Runs, loop[r] # "idle"
  PROVE  attempt[r] \in 1 .. LastAttempt(policy) /\ attempt[r] \in Nat /\ <<r, attempt[r]>> \in Key
  BY PolicyType DEF Inv, TypeOK, RunOK, Key

LEMMA EndsType ==
  ASSUME Inv, NEW r \in Runs, loop[r] # "idle", NEW f \in BOOLEAN, NEW t \in BOOLEAN,
         Ends(r, f, t)
  PROVE  result' \in [Runs -> Result] /\ loop' \in [Runs -> Loops]
<1>1. Retrying(f, t, attempt[r]) \in BOOLEAN
  BY DEF Retrying
<1> QED BY <1>1, AttemptType DEF Ends, At, Inv, TypeOK, Result, Loops

LEMMA TypeStep == Inv /\ [Next]_vars => TypeOK'
<1> SUFFICES ASSUME Inv, [Next]_vars PROVE TypeOK'
  OBVIOUS
<1> USE RetryAssumption
<1>0. TypeOK
  BY DEF Inv
<1>1. ASSUME NEW r \in Runs, Execute(r) PROVE TypeOK'
  <2>1. 1 \in 0 .. 1 + policy.max
    BY <1>0, PolicyType
  <2> QED BY <1>0, <1>1, <2>1 DEF Execute, At, TypeOK, engine, Loops, Key, LastAttempt
<1>2. ASSUME NEW r \in Runs, BuildFails(r) PROVE TypeOK'
  <2>1. result' \in [Runs -> Result] /\ loop' \in [Runs -> Loops]
    BY <1>2, EndsType DEF BuildFails
  <2> QED BY <1>0, <1>2, <2>1 DEF BuildFails, TypeOK, attempts, engine, Key
<1>3. ASSUME NEW r \in Runs, Build(r) PROVE TypeOK'
  BY <1>0, <1>3, AttemptType DEF Build, At, TypeOK, engine, Key, Loops, LastAttempt
<1>4. ASSUME NEW r \in Runs, NEW i \in 1 .. LastAttempt(policy), NEW o \in Outcomes,
             Finish(r, i, o)
      PROVE TypeOK'
  BY <1>0, <1>4 DEF Finish, TypeOK, engine, Key, LastAttempt
<1>5. ASSUME NEW r \in Runs, Receive(r) PROVE TypeOK'
  <2>1. (Outcome(Awaited(r)) = "error") \in BOOLEAN
    OBVIOUS
  <2>2. result' \in [Runs -> Result] /\ loop' \in [Runs -> Loops]
    BY <1>5, <2>1, EndsType DEF Receive
  <2> QED BY <1>0, <1>5, <2>2 DEF Receive, TypeOK, attempts, engine, Key
<1>6. ASSUME NEW r \in Runs, Deadline(r) PROVE TypeOK'
  <2>1. result' \in [Runs -> Result] /\ loop' \in [Runs -> Loops]
    BY <1>6, EndsType DEF Deadline
  <2> QED BY <1>0, <1>6, <2>1, AttemptType DEF Deadline, GivenUp, TypeOK, attempts, engine, Key
<1>7. ASSUME NEW r \in Runs, Interrupt(r) PROVE TypeOK'
  BY <1>0, <1>7, AttemptType DEF Interrupt, GivenUp, At, TypeOK, attempts, engine, Key, Loops
<1>8. ASSUME NEW r \in Runs, Send(r) PROVE TypeOK'
  <2>1. result[r] \in Result /\ events \in Seq(Result) /\ reported[r] \in Seq(Result)
    BY <1>0 DEF TypeOK
  <2>2. events' \in Seq(Result) /\ Len(events') <= Capacity
    BY <1>8, <2>1 DEF Send
  <2>3. reported' \in [Runs -> Seq(Result)]
    BY <1>0, <1>8, <2>1 DEF Send, TypeOK
  <2> QED BY <1>0, <1>8, <2>2, <2>3 DEF Send, At, TypeOK, attempts, Key, Loops
<1>9. ASSUME NEW r \in Runs, Wake(r) PROVE TypeOK'
  <2>1. loop' \in [Runs -> Loops]
    BY <1>0, <1>9 DEF Wake, At, TypeOK, Loops
  <2>2. attempt' \in [Runs -> 0 .. 1 + policy.max]
    <3>1. attempt \in [Runs -> 0 .. 1 + policy.max] /\ attempt[r] \in Nat
      BY <1>0, PolicyType DEF TypeOK
    <3>2. attempt[r] < LastAttempt(policy) => attempt[r] + 1 \in 0 .. 1 + policy.max
      BY <1>0, <3>1, PolicyType
    <3> QED BY <1>9, <3>1, <3>2 DEF Wake
  <2> QED BY <1>0, <1>9, <2>1, <2>2 DEF Wake, TypeOK, engine, Key
<1>10. ASSUME NEW r \in Runs, SleepInterrupted(r) PROVE TypeOK'
  BY <1>0, <1>10 DEF SleepInterrupted, At, TypeOK, attempts, engine, Key, Loops
<1>11. CASE Stop
  BY <1>0, <1>11 DEF Stop, TypeOK, attempts, engine, Key
<1>12. CASE Ingest
  <2> DEFINE res == Seen(Head(events))
  <2>1. Head(events) \in Result /\ Tail(events) \in Seq(Result) /\ Len(Tail(events)) <= Capacity
    BY <1>0, <1>12 DEF Ingest, TypeOK
  <2>2. res \in Result
    BY <2>1 DEF Seen, Result
  <2>3. res.run \in Runs
    BY <2>2 DEF Result
  <2>4. saved' \in [Runs -> Seq(Result)] /\ routed' \in [Runs -> Seq(Result)]
    <3> HIDE DEF res
    <3>1. saved' = [saved EXCEPT ![res.run] = Append(@, res)]
          /\ routed' = IF Routes(res) THEN [routed EXCEPT ![res.run] = Append(@, res)] ELSE routed
      BY <1>12 DEF Ingest, res
    <3>2. Append(saved[res.run], res) \in Seq(Result) /\ Append(routed[res.run], res) \in Seq(Result)
      BY <1>0, <2>2, <2>3 DEF TypeOK
    <3> QED BY <1>0, <3>1, <3>2 DEF TypeOK
  <2>5. events' = Tail(events) /\ UNCHANGED <<attempts, loop, told, result, stopped, reported>>
    BY <1>12 DEF Ingest
  <2> HIDE DEF res
  <2> QED BY <1>0, <2>1, <2>4, <2>5 DEF TypeOK, attempts, Key
<1>13. CASE UNCHANGED vars
  BY <1>0, <1>13 DEF vars, TypeOK, Key
<1> QED
  BY <1>1, <1>2, <1>3, <1>4, <1>5, <1>6, <1>7, <1>8, <1>9, <1>10, <1>11, <1>12, <1>13
     DEF Next, LoopStep

-----------------------------------------------------------------------------
(* Each run: an action changes one of them and leaves the others alone.    *)

RunInv(r) == RunOK(r) /\ SendingOK(r) /\ ReportsOK(r)

Untouched(s) ==
  /\ loop'[s] = loop[s] /\ attempt'[s] = attempt[s] /\ inner'[s] = inner[s]
  /\ result'[s] = result[s] /\ reported'[s] = reported[s]

LEMMA Frame ==
  ASSUME NEW s \in Runs, RunInv(s), Untouched(s), policy' = policy
  PROVE  RunInv(s)'
<1>1. RunOK(s)'
  BY DEF RunInv, Untouched, RunOK
<1>2. SendingOK(s)'
  BY DEF RunInv, Untouched, SendingOK, OwnResult, Retrying
<1>3. ReportsOK(s)'
  BY DEF RunInv, Untouched, ReportsOK, OwnResult
<1> QED BY <1>1, <1>2, <1>3 DEF RunInv

\* What the steps of a run do to it.
LEMMA ExecuteRun ==
  ASSUME Inv, NEW r \in Runs, Execute(r)
  PROVE  RunInv(r)'
<1> USE DEF Execute, At
<1>0. TypeOK /\ RunInv(r)
  BY DEF Inv, RunInv
<1>1. RunOK(r)'
  BY <1>0, PolicyType DEF RunInv, RunOK, TypeOK
<1>2. SendingOK(r)'
  BY <1>0 DEF SendingOK, TypeOK
<1>3. ReportsOK(r)'
  BY <1>0 DEF RunInv, RunOK, ReportsOK
<1> QED BY <1>1, <1>2, <1>3 DEF RunInv

\* An attempt that ends with the outcome of its own action.
LEMMA EndsRun ==
  ASSUME Inv, NEW r \in Runs, loop[r] \in {"building", "waiting"}, NEW f \in BOOLEAN,
         NEW t \in BOOLEAN, Ends(r, f, t), t => f,
         t \/ (inner[r][attempt[r]] # "running" /\ (f <=> inner[r][attempt[r]] # "ok")),
         UNCHANGED <<attempts, reported>>
  PROVE  RunInv(r)'
<1>0. TypeOK /\ RunInv(r) /\ loop'[r] = "sending"
  BY DEF Inv, RunInv, TypeOK, Ends, At
<1>1. RunOK(r)'
  BY <1>0, AttemptType, PolicyType DEF RunInv, RunOK, attempts
<1>2. result'[r] = [run |-> r, attempt |-> attempt[r], failed |-> f, timeout |-> t,
                    retrying |-> Retrying(f, t, attempt[r])]
  BY <1>0 DEF Ends, TypeOK
<1>3. SendingOK(r)'
  BY <1>2 DEF SendingOK, OwnResult, Retrying, attempts
<1>4. ReportsOK(r)'
  BY <1>0 DEF RunInv, ReportsOK, OwnResult, attempts
<1> QED BY <1>1, <1>3, <1>4 DEF RunInv

LEMMA BuildRun ==
  ASSUME Inv, NEW r \in Runs, Build(r)
  PROVE  RunInv(r)'
<1> USE DEF Build, At
<1>0. TypeOK /\ RunInv(r) /\ loop'[r] = "waiting"
  BY DEF Inv, RunInv, TypeOK
<1>1. attempt[r] \in 1 .. LastAttempt(policy) /\ attempt[r] \in Nat
  BY AttemptType
<1>2. inner'[r] = [inner[r] EXCEPT ![attempt[r]] = "running"]
      /\ DOMAIN inner[r] = 1 .. LastAttempt(policy)
  BY <1>0 DEF TypeOK
<1>3. RunOK(r)'
  BY <1>0, <1>1, <1>2, PolicyType DEF RunInv, RunOK
<1>4. SendingOK(r)'
  BY <1>0 DEF SendingOK
<1>5. ReportsOK(r)'
  <2>1. inner[r][attempt[r]] = "none"
    BY <1>0, <1>1 DEF RunInv, RunOK
  <2>2. \A i \in DOMAIN reported[r] : i # attempt[r] /\ i \in 1 .. LastAttempt(policy)
    BY <1>0, <1>1, PolicyType DEF RunInv, RunOK, TypeOK
  <2>3. ASSUME NEW i \in DOMAIN reported[r] PROVE OwnResult(reported[r][i])'
    <3>1. reported[r][i].run = r /\ reported[r][i].attempt = i /\ OwnResult(reported[r][i])
      BY <1>0 DEF RunInv, ReportsOK
    <3>2. inner'[r][i] = inner[r][i]
      BY <1>2, <2>2
    <3> QED BY <3>1, <3>2 DEF OwnResult
  <2> QED BY <1>0, <2>3 DEF RunInv, ReportsOK
<1> QED BY <1>3, <1>4, <1>5 DEF RunInv

LEMMA FinishRun ==
  ASSUME Inv, NEW r \in Runs, NEW j \in 1 .. LastAttempt(policy), NEW o \in Outcomes,
         Finish(r, j, o)
  PROVE  RunInv(r)'
<1> USE DEF Finish
<1>0. TypeOK /\ RunInv(r)
  BY DEF Inv, RunInv
<1>1. inner'[r] = [inner[r] EXCEPT ![j] = o] /\ DOMAIN inner[r] = 1 .. LastAttempt(policy)
  BY <1>0 DEF TypeOK
<1>2. RunOK(r)'
  BY <1>0, <1>1, PolicyType DEF RunInv, RunOK, Outcomes
<1>3. SendingOK(r)'
  BY <1>0, <1>1 DEF RunInv, SendingOK, OwnResult, Retrying
<1>4. ReportsOK(r)'
  BY <1>0, <1>1 DEF RunInv, ReportsOK, OwnResult
<1> QED BY <1>2, <1>3, <1>4 DEF RunInv

LEMMA InterruptRun ==
  ASSUME Inv, NEW r \in Runs, Interrupt(r) \/ SleepInterrupted(r)
  PROVE  RunInv(r)'
<1>0. TypeOK /\ RunInv(r) /\ loop'[r] = "done" /\ UNCHANGED <<attempts, result, reported>>
      /\ loop[r] # "idle"
  BY DEF Inv, RunInv, TypeOK, Interrupt, SleepInterrupted, At
<1> QED
  BY <1>0, AttemptType DEF RunInv, RunOK, SendingOK, ReportsOK, OwnResult, attempts

LEMMA SendRun ==
  ASSUME Inv, NEW r \in Runs, Send(r)
  PROVE  RunInv(r)'
<1>0. TypeOK /\ RunInv(r) /\ UNCHANGED <<attempts, result>> /\ loop[r] = "sending"
  BY DEF Inv, RunInv, Send
<1>1. loop'[r] = IF result[r].retrying THEN "sleeping" ELSE "done"
  BY <1>0 DEF Send, At, TypeOK
<1>2. reported'[r] = Append(reported[r], result[r]) /\ reported[r] \in Seq(Result)
      /\ result[r] \in Result
  BY <1>0 DEF Send, TypeOK
<1>3. attempt[r] \in Nat /\ Len(reported[r]) = attempt[r] - 1 /\ result[r].attempt = attempt[r]
      /\ result[r].run = r /\ OwnResult(result[r])
      /\ (result[r].retrying => attempt[r] < LastAttempt(policy))
  BY <1>0, AttemptType DEF RunInv, RunOK, SendingOK, Retrying
<1>4. RunOK(r)'
  BY <1>0, <1>1, <1>2, <1>3, AttemptType DEF RunInv, RunOK, attempts
<1>5. SendingOK(r)'
  BY <1>1 DEF SendingOK
<1>6. ReportsOK(r)'
  <2>1. ASSUME NEW i \in DOMAIN reported'[r]
        PROVE  /\ reported'[r][i].run = r /\ reported'[r][i].attempt = i
               /\ OwnResult(reported'[r][i])
    <3>1. CASE i \in DOMAIN reported[r]
      BY <1>0, <1>2, <3>1 DEF RunInv, ReportsOK
    <3>2. CASE i = Len(reported[r]) + 1
      BY <1>2, <1>3, <3>2
    <3> QED BY <1>2, <3>1, <3>2
  <2> QED BY <1>0, <2>1 DEF ReportsOK, OwnResult, attempts
<1> QED BY <1>4, <1>5, <1>6 DEF RunInv

LEMMA WakeRun ==
  ASSUME Inv, NEW r \in Runs, Wake(r)
  PROVE  RunInv(r)'
<1> USE DEF Wake, At
<1>0. TypeOK /\ RunInv(r) /\ attempt[r] < LastAttempt(policy) /\ attempt[r] \in Nat
  BY AttemptType DEF Inv, RunInv, RunOK
<1>1. loop'[r] = "building" /\ attempt'[r] = attempt[r] + 1
  BY <1>0 DEF TypeOK
<1>2. RunOK(r)'
  BY <1>0, <1>1, PolicyType DEF RunInv, RunOK
<1>3. SendingOK(r)' /\ ReportsOK(r)'
  BY <1>0, <1>1 DEF RunInv, SendingOK, ReportsOK, OwnResult
<1> QED BY <1>2, <1>3 DEF RunInv

LEMMA LoopRun ==
  ASSUME Inv, NEW r \in Runs, LoopStep(r)
  PROVE  RunInv(r)' /\ \A s \in Runs \ {r} : Untouched(s)
<1>0. TypeOK /\ RunInv(r)
  BY DEF Inv, RunInv
<1>1. CASE BuildFails(r)
  <2>1. inner[r][attempt[r]] = "none"
    BY <1>0, <1>1, AttemptType DEF BuildFails, RunInv, RunOK
  <2>2. RunInv(r)'
    BY <1>1, <2>1, EndsRun DEF BuildFails
  <2> QED BY <1>0, <1>1, <2>2 DEF BuildFails, Ends, At, attempts, TypeOK, Untouched
<1>2. CASE Build(r)
  BY <1>0, <1>2, BuildRun DEF Build, At, TypeOK, Untouched
<1>3. CASE Receive(r)
  <2>1. inner[r][attempt[r]] \in Outcomes /\ Ends(r, inner[r][attempt[r]] = "error", FALSE)
    BY <1>3 DEF Receive, Outcome, Awaited
  <2>2. (inner[r][attempt[r]] = "error") \in BOOLEAN
        /\ (inner[r][attempt[r]] = "error" <=> inner[r][attempt[r]] # "ok")
        /\ inner[r][attempt[r]] # "running"
    BY <2>1 DEF Outcomes
  <2>3. RunInv(r)'
    BY <1>3, <2>1, <2>2, EndsRun DEF Receive
  <2> QED BY <1>0, <1>3, <2>3 DEF Receive, Ends, At, attempts, TypeOK, Untouched
<1>4. CASE Deadline(r)
  <2>1. RunInv(r)'
    BY <1>4, EndsRun DEF Deadline
  <2> QED BY <1>0, <1>4, <2>1 DEF Deadline, Ends, At, attempts, TypeOK, Untouched
<1>5. CASE Interrupt(r)
  BY <1>0, <1>5, InterruptRun DEF Interrupt, At, attempts, TypeOK, Untouched
<1>6. CASE Send(r)
  BY <1>0, <1>6, SendRun DEF Send, At, attempts, TypeOK, Untouched
<1>7. CASE Wake(r)
  BY <1>0, <1>7, WakeRun DEF Wake, At, TypeOK, Untouched
<1>8. CASE SleepInterrupted(r)
  BY <1>0, <1>8, InterruptRun DEF SleepInterrupted, At, attempts, TypeOK, Untouched
<1> QED BY <1>1, <1>2, <1>3, <1>4, <1>5, <1>6, <1>7, <1>8 DEF LoopStep

LEMMA RunStep == Inv /\ [Next]_vars => \A s \in Runs : RunInv(s)'
<1> SUFFICES ASSUME Inv, [Next]_vars, NEW s \in Runs PROVE RunInv(s)'
  OBVIOUS
<1>0. TypeOK /\ RunInv(s)
  BY DEF Inv, RunInv
<1>1. ASSUME NEW r \in Runs, Execute(r) PROVE RunInv(s)'
  <2>1. CASE s = r
    BY <1>1, <2>1, ExecuteRun
  <2>2. CASE s # r
    BY <1>0, <1>1, <2>2, Frame DEF Execute, At, TypeOK, Untouched
  <2> QED BY <2>1, <2>2
<1>2. ASSUME NEW r \in Runs, LoopStep(r) PROVE RunInv(s)'
  <2>1. policy' = policy
    BY <1>2 DEF LoopStep, BuildFails, Build, Receive, Deadline, Interrupt, Send, Wake,
                SleepInterrupted, attempts
  <2> QED BY <1>0, <1>2, <2>1, LoopRun, Frame
<1>3. ASSUME NEW r \in Runs, NEW i \in 1 .. LastAttempt(policy), NEW o \in Outcomes,
             Finish(r, i, o)
      PROVE RunInv(s)'
  <2>1. CASE s = r
    BY <1>3, <2>1, FinishRun
  <2>2. CASE s # r
    BY <1>0, <1>3, <2>2, Frame DEF Finish, TypeOK, Untouched
  <2> QED BY <2>1, <2>2
<1>4. CASE Stop
  BY <1>0, <1>4, Frame DEF Stop, attempts, Untouched
<1>5. CASE Ingest
  BY <1>0, <1>5, Frame DEF Ingest, attempts, Untouched
<1>6. CASE UNCHANGED vars
  BY <1>0, <1>6, Frame DEF vars, Untouched
<1> QED BY <1>1, <1>2, <1>3, <1>4, <1>5, <1>6 DEF Next

-----------------------------------------------------------------------------
(* Actions nobody waits for.                                               *)

Attended(r, i) == (loop[r] = "waiting" /\ attempt[r] = i) \/ <<r, i>> \in told

LEMMA NoOrphanPairs ==
  NoOrphan <=> \A r \in Runs, i \in 1 .. LastAttempt(policy) :
                 inner[r][i] = "running" => Attended(r, i)
  BY DEF NoOrphan, Key, Outcome, Attended

LEMMA OrphanStep == Inv /\ [Next]_vars => NoOrphan'
<1> SUFFICES ASSUME Inv, [Next]_vars PROVE NoOrphan'
  OBVIOUS
<1>0. TypeOK
      /\ \A r \in Runs, i \in 1 .. LastAttempt(policy) :
           inner[r][i] = "running" => Attended(r, i)
  BY NoOrphanPairs DEF Inv
<1>1. policy' = policy /\ told \subseteq told'
  BY DEF Next, LoopStep, Execute, BuildFails, Build, Receive, Deadline, Interrupt, Send, Wake,
         SleepInterrupted, Finish, Stop, Ingest, attempts, vars
<1> SUFFICES ASSUME NEW s \in Runs, NEW j \in 1 .. LastAttempt(policy),
                    inner'[s][j] = "running"
             PROVE  Attended(s, j)'
  <2>1. ASSUME NEW k \in Key', Outcome(k)' = "running"
        PROVE  (loop'[k[1]] = "waiting" /\ attempt'[k[1]] = k[2]) \/ k \in told'
    <3>1. PICK s \in Runs, j \in 1 .. LastAttempt(policy) : k = <<s, j>>
      BY <1>1 DEF Key
    <3>2. inner'[s][j] = "running"
      BY <2>1, <3>1 DEF Outcome
    <3> QED BY <3>1, <3>2 DEF Attended
  <2> QED BY <2>1 DEF NoOrphan
<1>2. ASSUME inner[s][j] = "running", loop'[s] = loop[s], attempt'[s] = attempt[s]
      PROVE  Attended(s, j)'
  BY <1>0, <1>1, <1>2 DEF Attended
<1>3. ASSUME inner[s][j] = "running", loop[s] # "waiting" PROVE Attended(s, j)'
  BY <1>0, <1>1, <1>3 DEF Attended
<1>4. ASSUME NEW r \in Runs, Execute(r) PROVE Attended(s, j)'
  BY <1>0, <1>2, <1>3, <1>4 DEF Execute, At, TypeOK
<1>5. ASSUME NEW r \in Runs, LoopStep(r) PROVE Attended(s, j)'
  <2>1. CASE s # r
    BY <1>2, <1>5, <2>1, LoopRun DEF Untouched
  <2>2. CASE s = r /\ Build(r)
    <3>1. loop'[r] = "waiting" /\ attempt'[r] = attempt[r]
          /\ inner'[r] = [inner[r] EXCEPT ![attempt[r]] = "running"]
      BY <1>0, <2>2 DEF Build, At, TypeOK
    <3>2. CASE j = attempt[r]
      BY <2>2, <3>1, <3>2 DEF Attended
    <3>3. CASE j # attempt[r]
      <4>1. inner[s][j] = "running"
        BY <1>0, <2>2, <3>1, <3>3 DEF TypeOK
      <4> QED BY <1>3, <2>2, <4>1 DEF Build
    <3> QED BY <3>2, <3>3
  <2>3. CASE s = r /\ (Deadline(r) \/ Interrupt(r))
    <3>1. inner[s][j] = "running" /\ loop[r] = "waiting" /\ <<r, attempt[r]>> \in told'
      BY <2>3 DEF Deadline, Interrupt, GivenUp, attempts
    <3> QED BY <1>0, <1>1, <2>3, <3>1 DEF Attended
  <2>4. CASE s = r /\ Receive(r)
    <3>1. inner[s][j] = "running" /\ inner[r][attempt[r]] \in Outcomes
      BY <2>4 DEF Receive, Outcome, Awaited, attempts
    <3>2. j # attempt[r]
      BY <2>4, <3>1 DEF Outcomes
    <3> QED BY <1>0, <1>1, <2>4, <3>1, <3>2 DEF Attended
  <2>5. CASE s = r /\ (BuildFails(r) \/ Send(r) \/ Wake(r) \/ SleepInterrupted(r))
    BY <1>3, <2>5 DEF BuildFails, Send, Wake, SleepInterrupted, attempts
  <2> QED BY <1>5, <2>1, <2>2, <2>3, <2>4, <2>5 DEF LoopStep
<1>6. ASSUME NEW r \in Runs, NEW i \in 1 .. LastAttempt(policy), NEW o \in Outcomes,
             Finish(r, i, o)
      PROVE Attended(s, j)'
  <2>1. inner[s][j] = "running"
    BY <1>0, <1>6 DEF Finish, TypeOK, Outcomes
  <2> QED BY <1>2, <1>6, <2>1 DEF Finish
<1>7. CASE Stop
  BY <1>2, <1>7 DEF Stop, attempts
<1>8. CASE Ingest
  BY <1>2, <1>8 DEF Ingest, attempts
<1>9. CASE UNCHANGED vars
  BY <1>2, <1>9 DEF vars
<1> QED BY <1>4, <1>5, <1>6, <1>7, <1>8, <1>9 DEF Next

-----------------------------------------------------------------------------
(* The verdict of a run.                                                   *)

LEMMA Element ==
  ASSUME NEW q \in Seq(Result), NEW i \in DOMAIN q
  PROVE  q[i] \in Result /\ q[i].run \in Runs
<1>1. q[i] \in Result
  OBVIOUS
<1> QED BY <1>1 DEF Result

\* A step that neither sends nor takes a result, and reopens no run.
LEMMA VerdictFrame ==
  ASSUME VerdictLast, RoutedOnce, UNCHANGED <<events, routed>>, TypeOK,
         \A r \in Runs : loop[r] = "done" => loop'[r] = "done"
  PROVE  VerdictLast' /\ RoutedOnce'
<1>1. \A i \in DOMAIN events : events[i].run \in Runs
  BY Element DEF TypeOK
<1> QED BY <1>1 DEF VerdictLast, RoutedOnce

LEMMA VerdictSend ==
  ASSUME Inv, VerdictLast, RoutedOnce, NEW r \in Runs, Send(r)
  PROVE  VerdictLast' /\ RoutedOnce'
<1>0. TypeOK /\ loop[r] = "sending" /\ result[r].run = r /\ routed' = routed
  BY DEF Inv, SendingOK, Send
<1>1. events \in Seq(Result) /\ result[r] \in Result /\ events' = Append(events, result[r])
  BY <1>0 DEF Send, TypeOK
<1>2. loop' = [loop EXCEPT ![r] = IF result[r].retrying THEN "sleeping" ELSE "done"]
  BY DEF Send, At
<1>3. \A i \in DOMAIN events : events[i] \in Result /\ events[i].run \in Runs
                              /\ events'[i] = events[i]
  BY <1>1, Element
<1>4. DOMAIN events' = DOMAIN events \cup {Len(events) + 1}
      /\ events'[Len(events) + 1] = result[r]
  BY <1>1
<1>5. \A i \in DOMAIN events : ~events[i].retrying => loop[events[i].run] = "done"
  BY DEF VerdictLast
<1>6. \A i \in DOMAIN events' : ~events'[i].retrying => loop'[events'[i].run] = "done"
  BY <1>0, <1>2, <1>3, <1>4, <1>5 DEF TypeOK
<1>7. \A i, j \in DOMAIN events' :
        i < j /\ events'[i].run = events'[j].run => events'[i].retrying
  <2> SUFFICES ASSUME NEW i \in DOMAIN events', NEW j \in DOMAIN events', i < j,
                      events'[i].run = events'[j].run
               PROVE  events'[i].retrying
    OBVIOUS
  <2>1. i \in DOMAIN events
    BY <1>1, <1>4
  <2>2. CASE j \in DOMAIN events
    BY <1>3, <2>1, <2>2 DEF VerdictLast
  <2>3. CASE j = Len(events) + 1
    <3>1. events[i].run = r
      BY <1>0, <1>3, <1>4, <2>1, <2>3
    <3> QED BY <1>0, <1>3, <1>5, <2>1, <3>1
  <2> QED BY <1>4, <2>2, <2>3
<1>8. \A s \in Runs : routed'[s] # <<>> =>
        loop'[s] = "done" /\ \A i \in DOMAIN events' : events'[i].run # s
  BY <1>0, <1>2, <1>3, <1>4 DEF VerdictLast, TypeOK
<1> QED BY <1>0, <1>6, <1>7, <1>8 DEF VerdictLast, RoutedOnce

LEMMA VerdictIngest ==
  ASSUME Inv, VerdictLast, RoutedOnce, ~remote, Ingest
  PROVE  VerdictLast' /\ RoutedOnce'
<1> DEFINE h == Head(events)
<1>0. TypeOK /\ events \in Seq(Result) /\ events # <<>> /\ loop' = loop
  BY DEF Inv, TypeOK, Ingest
<1>1. h = events[1] /\ 1 \in DOMAIN events /\ h \in Result /\ h.run \in Runs
  <2>1. h = events[1] /\ 1 \in DOMAIN events
    BY <1>0
  <2> QED BY <1>0, <2>1, Element
<1>2. events' = Tail(events)
      /\ routed' = IF ~h.retrying THEN [routed EXCEPT ![h.run] = Append(@, h)] ELSE routed
  BY DEF Ingest, Seen, Routes
<1>3. \A i \in DOMAIN events' : i \in Nat /\ i + 1 \in DOMAIN events /\ events'[i] = events[i + 1]
                               /\ 1 < i + 1
  BY <1>0, <1>2
<1> HIDE DEF h
<1>4. \A i \in DOMAIN events' : ~events'[i].retrying => loop'[events'[i].run] = "done"
  BY <1>0, <1>3 DEF VerdictLast
<1>5. \A i, j \in DOMAIN events' :
        i < j /\ events'[i].run = events'[j].run => events'[i].retrying
  <2> SUFFICES ASSUME NEW i \in DOMAIN events', NEW j \in DOMAIN events', i < j,
                      events'[i].run = events'[j].run
               PROVE  events'[i].retrying
    OBVIOUS
  <2>1. i + 1 < j + 1
    BY <1>3
  <2> QED BY <1>3, <2>1 DEF VerdictLast
<1>6. CASE h.retrying
  <2>1. routed' = routed
    BY <1>2, <1>6
  <2>2. \A s \in Runs : routed'[s] # <<>> =>
          loop'[s] = "done" /\ \A i \in DOMAIN events' : events'[i].run # s
    BY <1>0, <1>3, <2>1 DEF VerdictLast
  <2> QED BY <1>4, <1>5, <2>1, <2>2 DEF VerdictLast, RoutedOnce
<1>7. CASE ~h.retrying
  <2>1. routed' = [routed EXCEPT ![h.run] = Append(@, h)] /\ routed \in [Runs -> Seq(Result)]
    BY <1>0, <1>2, <1>7 DEF TypeOK
  <2>2. routed[h.run] = <<>>
    BY <1>1 DEF VerdictLast
  <2>3. Len(routed'[h.run]) = 1
    BY <1>1, <2>1, <2>2
  <2>4. RoutedOnce'
    BY <2>1, <2>3 DEF RoutedOnce
  <2>5. \A i \in DOMAIN events' : events'[i].run # h.run
    BY <1>1, <1>3, <1>7 DEF VerdictLast
  <2>6. loop'[h.run] = "done"
    BY <1>0, <1>1, <1>7 DEF VerdictLast
  <2>7. \A s \in Runs : routed'[s] # <<>> =>
          loop'[s] = "done" /\ \A i \in DOMAIN events' : events'[i].run # s
    BY <1>0, <1>3, <2>1, <2>5, <2>6 DEF VerdictLast
  <2> QED BY <1>4, <1>5, <2>4, <2>7 DEF VerdictLast
<1> QED BY <1>6, <1>7

LEMMA VerdictStep == Inv /\ [Next]_vars /\ ~remote => VerdictLast' /\ RoutedOnce'
<1> SUFFICES ASSUME Inv, [Next]_vars, ~remote PROVE VerdictLast' /\ RoutedOnce'
  OBVIOUS
<1>0. TypeOK /\ VerdictLast /\ RoutedOnce
  BY DEF Inv
<1>1. ASSUME NEW r \in Runs, Send(r) PROVE VerdictLast' /\ RoutedOnce'
  BY <1>0, <1>1, VerdictSend
<1>2. CASE Ingest
  BY <1>0, <1>2, VerdictIngest
<1>3. ASSUME UNCHANGED <<events, routed>>,
             \A r \in Runs : loop[r] = "done" => loop'[r] = "done"
      PROVE  VerdictLast' /\ RoutedOnce'
  BY <1>0, <1>3, VerdictFrame
<1>4. ASSUME NEW r \in Runs, Execute(r) PROVE VerdictLast' /\ RoutedOnce'
  BY <1>0, <1>3, <1>4 DEF Execute, At, TypeOK, engine
<1>5. ASSUME NEW r \in Runs, LoopStep(r), ~Send(r) PROVE VerdictLast' /\ RoutedOnce'
  <2>1. UNCHANGED <<events, routed>>
    BY <1>5 DEF LoopStep, BuildFails, Build, Receive, Deadline, Interrupt, Wake,
                SleepInterrupted, engine
  <2>2. loop[r] # "done" /\ \A s \in Runs \ {r} : loop'[s] = loop[s]
    <3>1. \A s \in Runs \ {r} : Untouched(s)
      BY <1>5, LoopRun
    <3>2. loop[r] # "done"
      BY <1>5 DEF LoopStep, BuildFails, Build, Receive, Deadline, Interrupt, Wake,
                  SleepInterrupted
    <3> QED BY <3>1, <3>2 DEF Untouched
  <2> QED BY <1>3, <2>1, <2>2
<1>6. ASSUME NEW r \in Runs, NEW i \in 1 .. LastAttempt(policy), NEW o \in Outcomes,
             Finish(r, i, o)
      PROVE VerdictLast' /\ RoutedOnce'
  BY <1>3, <1>6 DEF Finish, engine
<1>7. CASE Stop
  BY <1>3, <1>7 DEF Stop, engine
<1>8. CASE UNCHANGED vars
  BY <1>3, <1>8 DEF vars
<1> QED BY <1>1, <1>2, <1>4, <1>5, <1>6, <1>7, <1>8 DEF Next

\* A node stays where it runs.
LEMMA PlaceStays == [Next]_vars => remote' = remote
  BY DEF Next, Execute, LoopStep, BuildFails, Build, Receive, Deadline, Interrupt, Send, Wake,
         SleepInterrupted, Finish, Stop, Ingest, attempts, vars

-----------------------------------------------------------------------------
LEMMA InitInv == Init => Inv
<1> SUFFICES ASSUME Init PROVE Inv
  OBVIOUS
<1> USE RetryAssumption DEF Init
<1>0. policy \in Policy /\ policy.max \in Nat /\ policy.deadline \in BOOLEAN
      /\ LastAttempt(policy) = 1 + policy.max
  BY DEF Policy, LastAttempt
<1>1. TypeOK
  <2>1. \A r \in Runs : NoResult(r) \in Result
    BY DEF NoResult, Result
  <2>2. <<>> \in Seq(Result) /\ Len(<<>>) <= Capacity
    OBVIOUS
  <2>3. 0 \in 0 .. 1 + policy.max
    BY <1>0
  <2>4. loop \in [Runs -> Loops] /\ latest \in {NoAction} \cup Key
    BY DEF Loops
  <2>5. inner \in [Runs -> [1 .. LastAttempt(policy) -> {"none", "running"} \cup Outcomes]]
    OBVIOUS
  <2>6. result \in [Runs -> Result] /\ attempt \in [Runs -> 0 .. 1 + policy.max]
    BY <2>1, <2>3
  <2>7. reported \in [Runs -> Seq(Result)] /\ saved \in [Runs -> Seq(Result)]
        /\ routed \in [Runs -> Seq(Result)]
    BY <2>2
  <2>8. events \in Seq(Result) /\ Len(events) <= Capacity
    BY <2>2
  <2>9. policy \in Policies /\ remote \in BOOLEAN /\ told \subseteq Key /\ stopped \in BOOLEAN
    OBVIOUS
  <2> HIDE DEF Init
  <2> QED BY <2>4, <2>5, <2>6, <2>7, <2>8, <2>9 DEF TypeOK
<1>2. \A r \in Runs : RunOK(r) /\ SendingOK(r) /\ ReportsOK(r)
  <2> SUFFICES ASSUME NEW r \in Runs PROVE RunOK(r) /\ SendingOK(r) /\ ReportsOK(r)
    OBVIOUS
  <2>1. loop[r] = "idle" /\ attempt[r] = 0 /\ reported[r] = <<>>
        /\ \A i \in 1 .. LastAttempt(policy) : inner[r][i] = "none"
    OBVIOUS
  <2> QED BY <1>0, <2>1 DEF RunOK, SendingOK, ReportsOK
<1>3. NoOrphan
  BY DEF NoOrphan, Key, Outcome
<1>4. VerdictLast /\ RoutedOnce
  BY DEF VerdictLast, RoutedOnce
<1> QED BY <1>1, <1>2, <1>3, <1>4 DEF Inv

LEMMA InvStep == Inv /\ [Next]_vars => Inv'
<1> SUFFICES ASSUME Inv, [Next]_vars PROVE Inv'
  OBVIOUS
<1>1. TypeOK' /\ NoOrphan' /\ (~remote => VerdictLast' /\ RoutedOnce')
  BY TypeStep, OrphanStep, VerdictStep
<1>2. \A r \in Runs : RunOK(r)' /\ SendingOK(r)' /\ ReportsOK(r)'
  BY RunStep DEF RunInv
<1> QED BY <1>1, <1>2, PlaceStays DEF Inv

(* The inductive invariant of the retry loop: every run is at an attempt its *)
(* policy allows, its reports are numbered from one, and its verdict is the  *)
(* last result of it under way.                                              *)
THEOREM InvCorrect == Spec => []Inv
<1>1. Init => Inv
  BY InitInv
<1>2. Inv /\ [Next]_vars => Inv'
  BY InvStep
<1> QED BY <1>1, <1>2, PTL DEF Spec

(* Every reachable state of the retry loop is well typed; in particular no   *)
(* run passes 1 + retry_max attempts and the events channel never overflows. *)
THEOREM TypeCorrect == Spec => []TypeOK
<1>1. Inv => TypeOK
  BY DEF Inv
<1> QED BY <1>1, InvCorrect, PTL

(* A reported result is the outcome of the attempt it is numbered with, for  *)
(* any number of runs that share the retryAction.                            *)
THEOREM ResultsAreOwnCorrect == Spec => []ResultsAreOwn
<1>1. Inv => ResultsAreOwn
  BY DEF Inv, ReportsOK, ResultsAreOwn
<1> QED BY <1>1, InvCorrect, PTL

(* A server-local node routes at most one result of a run, whatever the      *)
(* policy and however far the engine is behind.                              *)
THEOREM OneVerdictCorrect == Spec => []OneVerdict
<1>1. Inv => OneVerdict
  BY DEF Inv, OneVerdict
<1> QED BY <1>1, InvCorrect, PTL

(* Every action that still executes after its run has given up on it has     *)
(* been told to stop.                                                        *)
THEOREM NoOrphanCorrect == Spec => []NoOrphan
<1>1. Inv => NoOrphan
  BY DEF Inv
<1> QED BY <1>1, InvCorrect, PTL

-----------------------------------------------------------------------------
(* The backoff.                                                            *)

\* What holds of zero and passes from every number to the next holds of all.
LEMMA SetInduction ==
  ASSUME NEW S, 0 \in S, \A n \in Nat : n \in S => n + 1 \in S
  PROVE  Nat \subseteq S
<1> DEFINE R == {ss \in Nat \X Nat : ss[1] < ss[2]}
          T == Nat \ S
<1>1. SUFFICES ASSUME T # {} PROVE FALSE
  OBVIOUS
<1>2. IsWellFoundedOn(R, Nat)
  BY NatLessThanWellFounded DEF OpToRel
<1> HIDE DEF R
<1>3. PICK x \in T : \A y \in T : ~(<<y, x>> \in R)
  BY <1>1, <1>2, WFMin, T \subseteq Nat
<1>4. x # 0 /\ x \in Nat /\ x - 1 \in Nat
  OBVIOUS
<1>5. <<x - 1, x>> \in R
  BY <1>4 DEF R
<1>6. x - 1 \in S
  BY <1>3, <1>4, <1>5
<1> QED BY <1>4, <1>6

\* A first value and a step to the next one define a sequence of values.
Follows(g, n, b, step) == g[0] = b /\ \A i \in 0 .. n : i < n => g[i + 1] = step[g[i]]

LEMMA Iterated ==
  ASSUME NEW V, NEW b \in V, NEW step \in [V -> V]
  PROVE  \E f \in [Nat -> V] : f[0] = b /\ \A n \in Nat : f[n + 1] = step[f[n]]
<1> DEFINE G(n) == { g \in [0 .. n -> V] : Follows(g, n, b, step) }
           S == { n \in Nat : \E g \in G(n) : TRUE }
           U == { n \in Nat : \A m \in Nat : n <= m => \A g \in G(n), h \in G(m) : g[n] = h[n] }
<1>1. 0 \in S
  <2>1. [i \in 0 .. 0 |-> b] \in G(0)
    BY DEF Follows
  <2> QED BY <2>1
<1>2. ASSUME NEW n \in Nat, n \in S PROVE n + 1 \in S
  <2>1. PICK g \in G(n) : TRUE
    BY <1>2
  <2> DEFINE h == [i \in 0 .. n + 1 |-> IF i = n + 1 THEN step[g[n]] ELSE g[i]]
  <2>2. g \in [0 .. n -> V] /\ Follows(g, n, b, step) /\ n \in 0 .. n
    BY <2>1
  <2>3. h \in [0 .. n + 1 -> V]
    BY <2>2
  <2>4. h[0] = b /\ \A i \in 0 .. n + 1 : i < n + 1 => h[i + 1] = step[h[i]]
    BY <2>2 DEF Follows
  <2>5. h \in G(n + 1)
    BY <2>3, <2>4 DEF Follows
  <2> QED BY <2>5
<1>3. Nat \subseteq S
  <2> HIDE DEF S
  <2> QED BY <1>1, <1>2, SetInduction
<1>4. ASSUME NEW n \in Nat, NEW g \in G(n + 1)
      PROVE  [i \in 0 .. n |-> g[i]] \in G(n)
  BY <1>4 DEF Follows
<1>5. 0 \in U
  BY DEF Follows
<1>6. ASSUME NEW n \in Nat, n \in U PROVE n + 1 \in U
  <2>1. ASSUME NEW m \in Nat, n + 1 <= m, NEW g \in G(n + 1), NEW h \in G(m)
        PROVE  g[n + 1] = h[n + 1]
    <3>1. g[n + 1] = step[g[n]] /\ h[n + 1] = step[h[n]]
      BY <2>1 DEF Follows
    <3>2. [i \in 0 .. n |-> g[i]] \in G(n)
      BY <1>4
    <3>3. \A k \in G(n) : k[n] = h[n]
      BY <1>6, <2>1
    <3>4. [i \in 0 .. n |-> g[i]][n] = g[n]
      OBVIOUS
    <3> HIDE DEF G
    <3>5. g[n] = h[n]
      BY <3>2, <3>3, <3>4
    <3> QED BY <3>1, <3>5
  <2> HIDE DEF G
  <2> QED BY <2>1
<1>7. Nat \subseteq U
  <2> HIDE DEF U
  <2> QED BY <1>5, <1>6, SetInduction
<1> DEFINE prefix(n) == CHOOSE g \in G(n) : TRUE
           f == [n \in Nat |-> prefix(n)[n]]
<1>8. \A n \in Nat : prefix(n) \in G(n)
  BY <1>3
<1> HIDE DEF prefix
<1>9. ASSUME NEW n \in Nat PROVE f[n + 1] = step[f[n]]
  <2>1. prefix(n)[n] = prefix(n + 1)[n]
    BY <1>7, <1>8
  <2>2. prefix(n + 1)[n + 1] = step[prefix(n + 1)[n]]
    BY <1>8 DEF Follows
  <2> QED BY <2>1, <2>2
<1>10. f \in [Nat -> V]
  <2>1. ASSUME NEW n \in Nat PROVE f[n] \in V
    BY <1>8
  <2> QED BY <2>1
<1>11. f[0] = b
  BY <1>8 DEF Follows
<1> QED BY <1>9, <1>10, <1>11

LEMMA BackoffType ==
  ASSUME NEW p \in Policies
  PROVE  Base(p) \in Nat \ {0} /\ Cap(p) \in Nat \ {0}
  BY RetryAssumption DEF Policy, Base, Cap

LEMMA DelaysDouble ==
  ASSUME NEW p \in Policies
  PROVE  /\ Delays(p) \in [Nat -> Nat] /\ Delays(p)[0] = Base(p)
         /\ \A n \in Nat : Delays(p)[n + 1] = IF Delays(p)[n] >= Cap(p) THEN Delays(p)[n]
                                              ELSE 2 * Delays(p)[n]
<1> DEFINE turn == [x \in Nat |-> IF x >= Cap(p) THEN x ELSE 2 * x]
           Loop(d) == [k \in Nat |-> IF k = 0 THEN Base(p)
                                     ELSE IF d[k - 1] >= Cap(p) THEN d[k - 1] ELSE 2 * d[k - 1]]
<1>0. Base(p) \in Nat /\ Cap(p) \in Nat
  BY BackoffType
<1>1. turn \in [Nat -> Nat]
  BY <1>0
<1>2. PICK f \in [Nat -> Nat] : f[0] = Base(p) /\ \A n \in Nat : f[n + 1] = turn[f[n]]
  <2> HIDE DEF turn
  <2>1. ASSUME NEW V, V = Nat
        PROVE  \E f \in [Nat -> V] : f[0] = Base(p) /\ \A n \in Nat : f[n + 1] = turn[f[n]]
    <3>1. Base(p) \in V /\ turn \in [V -> V]
      BY <1>0, <1>1, <2>1
    <3>2. \A b \in V, s \in [V -> V] :
             \E f \in [Nat -> V] : f[0] = b /\ \A n \in Nat : f[n + 1] = s[f[n]]
      BY Iterated
    <3> QED BY <3>1, <3>2
  <2> QED BY <2>1
<1>3. \A d : d = Loop(d) =>
              d[0] = Base(p) /\ \A n \in Nat : d[n + 1] = IF d[n] >= Cap(p) THEN d[n] ELSE 2 * d[n]
  OBVIOUS
<1>4. f = Loop(f)
  <2>1. ASSUME NEW k \in Nat PROVE f[k] = Loop(f)[k]
    <3>1. CASE k = 0
      BY <1>2, <3>1
    <3>2. CASE k # 0
      <4>0. k - 1 \in Nat /\ (k - 1) + 1 = k
        BY <3>2
      <4>1. k - 1 \in Nat /\ f[k] = turn[f[k - 1]] /\ f[k - 1] \in Nat
        BY <1>2, <4>0
      <4> QED BY <3>2, <4>1
    <3> QED BY <3>1, <3>2
  <2> QED BY <2>1
<1>5. Delays(p) = Loop(Delays(p))
  <2> HIDE DEF Loop
  <2>1. (CHOOSE d : d = Loop(d)) = Loop(CHOOSE d : d = Loop(d))
    BY <1>4
  <2> USE DEF Loop
  <2> QED BY <2>1 DEF Delays
<1>6. Delays(p) \in [Nat -> Nat]
  <2>1. DOMAIN Loop(Delays(p)) = Nat /\ Delays(p) = [n \in Nat |-> Delays(p)[n]]
    BY <1>5
  <2>2. \A n \in Nat : Delays(p)[n] \in Nat
    <3> DEFINE N == { n \in Nat : Delays(p)[n] \in Nat }
    <3>1. 0 \in N
      BY <1>0, <1>3, <1>5
    <3>2. ASSUME NEW n \in Nat, n \in N PROVE n + 1 \in N
      BY <1>3, <1>5, <3>2
    <3> HIDE DEF N
    <3>3. Nat \subseteq N
      BY <3>1, <3>2, SetInduction
    <3> QED BY <3>3 DEF N
  <2> QED BY <2>1, <2>2
<1> HIDE DEF Loop
<1> QED BY <1>3, <1>5, <1>6

LEMMA PowersDouble ==
  /\ PowerOfTwo \in [Nat -> Nat] /\ PowerOfTwo[0] = 1
  /\ \A n \in Nat : PowerOfTwo[n + 1] = 2 * PowerOfTwo[n]
<1> DEFINE twice == [x \in Nat |-> 2 * x]
           Loop(d) == [k \in Nat |-> IF k = 0 THEN 1 ELSE 2 * d[k - 1]]
<1>1. twice \in [Nat -> Nat]
  OBVIOUS
<1>2. PICK f \in [Nat -> Nat] : f[0] = 1 /\ \A n \in Nat : f[n + 1] = twice[f[n]]
  <2> HIDE DEF twice
  <2>1. ASSUME NEW V, V = Nat
        PROVE  \E f \in [Nat -> V] : f[0] = 1 /\ \A n \in Nat : f[n + 1] = twice[f[n]]
    <3>1. 1 \in V /\ twice \in [V -> V]
      BY <1>1, <2>1
    <3>2. \A b \in V, s \in [V -> V] :
             \E f \in [Nat -> V] : f[0] = b /\ \A n \in Nat : f[n + 1] = s[f[n]]
      BY Iterated
    <3> QED BY <3>1, <3>2
  <2> QED BY <2>1
<1>3. f = Loop(f)
  <2>1. ASSUME NEW k \in Nat PROVE f[k] = Loop(f)[k]
    <3>1. CASE k = 0
      BY <1>2, <3>1
    <3>2. CASE k # 0
      <4>0. k - 1 \in Nat /\ (k - 1) + 1 = k
        BY <3>2
      <4>1. f[k] = twice[f[k - 1]] /\ f[k - 1] \in Nat
        BY <1>2, <4>0
      <4> QED BY <3>2, <4>1
    <3> QED BY <3>1, <3>2
  <2> QED BY <2>1
<1>4. PowerOfTwo = Loop(PowerOfTwo)
  <2> HIDE DEF Loop
  <2>1. (CHOOSE d : d = Loop(d)) = Loop(CHOOSE d : d = Loop(d))
    BY <1>3
  <2> USE DEF Loop
  <2> QED BY <2>1 DEF PowerOfTwo
<1>5. PowerOfTwo[0] = 1 /\ \A n \in Nat : PowerOfTwo[n + 1] = 2 * PowerOfTwo[n]
  BY <1>4
<1>6. PowerOfTwo \in [Nat -> Nat]
  <2> DEFINE N == { n \in Nat : PowerOfTwo[n] \in Nat }
  <2>1. 0 \in N
    BY <1>5
  <2>2. ASSUME NEW n \in Nat, n \in N PROVE n + 1 \in N
    BY <1>5, <2>2
  <2> HIDE DEF N
  <2>3. Nat \subseteq N
    BY <2>1, <2>2, SetInduction
  <2>4. \A n \in Nat : PowerOfTwo[n] \in Nat
    BY <2>3 DEF N
  <2>5. PowerOfTwo = [n \in Nat |-> PowerOfTwo[n]]
    BY <1>4
  <2> QED BY <2>4, <2>5
<1> QED BY <1>5, <1>6

\* The loop that stops doubling once it has passed the cap is the capped power.
LEMMA BackoffIsCappedPower ==
  ASSUME NEW p \in Policies, NEW i \in Nat \ {0}
  PROVE  BackoffFor(p, i) = Doubled(p, i)
<1> DEFINE D == Delays(p)
           Q == [n \in Nat |-> Base(p) * PowerOfTwo[n]]
           Agrees(n) == \/ D[n] = Q[n] \/ (D[n] >= Cap(p) /\ Q[n] >= Cap(p))
           S == { n \in Nat : Agrees(n) }
<1>0. Base(p) \in Nat /\ Cap(p) \in Nat
  BY BackoffType
<1>1. /\ D \in [Nat -> Nat] /\ D[0] = Base(p)
      /\ \A n \in Nat : D[n + 1] = IF D[n] >= Cap(p) THEN D[n] ELSE 2 * D[n]
  BY DelaysDouble
<1>2. Q \in [Nat -> Nat] /\ Q[0] = Base(p) /\ \A n \in Nat : Q[n + 1] = 2 * Q[n]
  <2>1. ASSUME NEW n \in Nat
        PROVE  Q[n] \in Nat /\ Q[n + 1] = 2 * Q[n]
    <3>1. PowerOfTwo[n] \in Nat /\ PowerOfTwo[n + 1] = 2 * PowerOfTwo[n]
      BY PowersDouble
    <3>2. \A a, b \in Nat : a * b \in Nat /\ a * (2 * b) = 2 * (a * b)
      OBVIOUS
    <3> QED BY <1>0, <3>1, <3>2
  <2>2. Q[0] = Base(p)
    BY <1>0, PowersDouble
  <2> QED BY <2>1, <2>2
<1> HIDE DEF D, Q
<1>3. 0 \in S
  BY <1>1, <1>2
<1>4. ASSUME NEW n \in Nat, n \in S PROVE n + 1 \in S
  BY <1>0, <1>1, <1>2, <1>4
<1>5. i - 1 \in Nat /\ Nat \subseteq S
  <2> HIDE DEF S
  <2>1. Nat \subseteq S
    BY <1>3, <1>4, SetInduction
  <2>2. i - 1 \in Nat
    OBVIOUS
  <2> QED BY <2>1, <2>2
<1>6. Agrees(i - 1) /\ D[i - 1] \in Nat /\ Q[i - 1] \in Nat
  BY <1>1, <1>2, <1>5
<1>7. BackoffFor(p, i) = IF D[i - 1] > Cap(p) THEN Cap(p) ELSE D[i - 1]
  BY DEF BackoffFor, D
<1>8. Doubled(p, i) = IF Q[i - 1] < Cap(p) THEN Q[i - 1] ELSE Cap(p)
  BY <1>5 DEF Doubled, Q
<1> QED BY <1>0, <1>6, <1>7, <1>8

(* Before every retry a run sleeps the base doubled once for each retry      *)
(* before it, or the cap, for every policy and every number of attempts:     *)
(* leaving the loop early and clamping afterwards never differ from that.    *)
THEOREM SleepsDoubleCorrect == Spec => []SleepsDouble
<1>1. Inv => SleepsDouble
  <2> SUFFICES ASSUME Inv, NEW r \in Runs, loop[r] = "sleeping"
               PROVE  BackoffFor(policy, attempt[r]) = Doubled(policy, attempt[r])
    BY DEF SleepsDouble
  <2>0. attempt[r] \in 1 .. LastAttempt(policy)
    BY AttemptType
  <2>1. policy \in Policies /\ attempt[r] \in Nat \ {0}
    BY <2>0, PolicyType DEF Inv, TypeOK
  <2> QED BY <2>1, BackoffIsCappedPower
<1> QED BY <1>1, InvCorrect, PTL

-----------------------------------------------------------------------------
(* The retry loop implements NodeRun.                                      *)

LEMMA PromiseInit == Init => Promise!Init
<1> SUFFICES ASSUME Init PROVE Promise!Init
  OBVIOUS
<1>1. LastAttempt(policy) \in Nat \ {0}
  BY RetryAssumption DEF Init, LastAttempt, Policy
<1>2. reported = [r \in Runs |-> <<>>] /\ \A r \in Runs : (loop[r] = "done") = FALSE
  BY DEF Init
<1>3. [r \in Runs |-> loop[r] = "done"] = [r \in Runs |-> FALSE]
  BY <1>2
<1> QED BY <1>1, <1>2, <1>3 DEF Promise!Init

LEMMA PromiseConclude ==
  ASSUME NEW r \in Runs, NEW f \in BOOLEAN, NEW t \in BOOLEAN, Promise!Conclude(r, f, t)
  PROVE  Promise!Next
  BY DEF Promise!Next

LEMMA PromiseSend ==
  ASSUME Inv, NEW r \in Runs, Send(r)
  PROVE  Promise!Next
<1>0. TypeOK /\ UNCHANGED policy /\ loop[r] = "sending" /\ RunInv(r)
  BY DEF Inv, Send, attempts, RunInv
<1>a. PICK f \in BOOLEAN, t \in BOOLEAN : f = result[r].failed /\ t = result[r].timeout
  BY <1>0 DEF TypeOK, Result
<1>1. /\ result[r] = [run |-> r, attempt |-> Len(reported[r]) + 1, failed |-> f, timeout |-> t,
                      retrying |-> result[r].retrying]
      /\ f \in BOOLEAN /\ t \in BOOLEAN /\ (t => f)
      /\ result[r].retrying = (f /\ ~t /\ Len(reported[r]) + 1 < LastAttempt(policy))
      /\ Len(reported[r]) < LastAttempt(policy)
  <2>1. result[r] \in Result /\ result[r].run = r /\ result[r].attempt = attempt[r]
    BY <1>0 DEF RunInv, SendingOK, TypeOK
  <2>2. Len(reported[r]) = attempt[r] - 1 /\ attempt[r] \in Nat
        /\ attempt[r] \in 1 .. LastAttempt(policy)
    BY <1>0, AttemptType DEF RunInv, RunOK
  <2>3. Len(reported[r]) + 1 = attempt[r] /\ Len(reported[r]) < LastAttempt(policy)
    BY <1>0, <2>2, PolicyType DEF TypeOK
  <2>4. (t => f) /\ result[r].retrying = Retrying(f, t, attempt[r])
    BY <1>0, <1>a DEF RunInv, SendingOK
  <2> QED BY <1>a, <2>1, <2>3, <2>4 DEF Result, Retrying
<1>2. reported' = [reported EXCEPT ![r] = Append(@, result[r])]
      /\ loop' = [loop EXCEPT ![r] = IF result[r].retrying THEN "sleeping" ELSE "done"]
  BY DEF Send, At
<1>3. Len(reported[r]) \in Nat /\ LastAttempt(policy) \in Nat
  BY <1>0, PolicyType DEF TypeOK
<1>4. CASE result[r].retrying
  <2>1. f = TRUE /\ t = FALSE
    BY <1>1, <1>4
  <2>2. [s \in Runs |-> loop'[s] = "done"] = [s \in Runs |-> loop[s] = "done"]
    BY <1>0, <1>2, <1>4 DEF TypeOK
  <2>3. Promise!Retry(r)
    BY <1>0, <1>1, <1>2, <1>4, <2>1, <2>2 DEF Promise!Retry, TypeOK
  <2> QED BY <2>3 DEF Promise!Next
<1>5. CASE ~result[r].retrying
  <2>1. f => t \/ Len(reported[r]) + 1 = LastAttempt(policy)
    <3>1. f /\ ~t => ~(Len(reported[r]) + 1 < LastAttempt(policy))
      BY <1>1, <1>5
    <3>2. Len(reported[r]) < LastAttempt(policy)
      BY <1>1
    <3>3. ~(Len(reported[r]) + 1 < LastAttempt(policy)) => Len(reported[r]) + 1 = LastAttempt(policy)
      BY <1>3, <3>2
    <3> QED BY <3>1, <3>3, Zenon
  <2>2. [s \in Runs |-> loop'[s] = "done"] =
          [[s \in Runs |-> loop[s] = "done"] EXCEPT ![r] = TRUE]
    BY <1>0, <1>2, <1>5 DEF TypeOK
  <2>3. result[r].retrying = FALSE
    BY <1>1, <1>5
  <2>4. Promise!Conclude(r, f, t)
    BY <1>0, <1>1, <1>2, <2>1, <2>2, <2>3 DEF Promise!Conclude, TypeOK
  <2> QED BY <2>4, PromiseConclude
<1> QED BY <1>1, <1>4, <1>5

LEMMA PromiseStep == Inv /\ [Next]_vars => [Promise!Next]_(Promise!vars)
<1> SUFFICES ASSUME Inv, [Next]_vars PROVE [Promise!Next]_(Promise!vars)
  OBVIOUS
<1>0. TypeOK
  BY DEF Inv
<1>1. ASSUME UNCHANGED <<policy, remote, reported>>,
             \A r \in Runs : loop'[r] = "done" <=> loop[r] = "done"
      PROVE  UNCHANGED Promise!vars
  BY <1>1 DEF Promise!vars
<1>2. ASSUME NEW r \in Runs, UNCHANGED <<policy, remote, reported>>, loop[r] # "done",
             loop' = [loop EXCEPT ![r] = "done"]
      PROVE  Promise!Next
  <2>1. [s \in Runs |-> loop'[s] = "done"] =
          [[s \in Runs |-> loop[s] = "done"] EXCEPT ![r] = TRUE]
    BY <1>0, <1>2 DEF TypeOK
  <2>2. Promise!Abandon(r)
    BY <1>2, <2>1 DEF Promise!Abandon
  <2> QED BY <2>2 DEF Promise!Next
<1>3. ASSUME NEW r \in Runs, Execute(r) PROVE [Promise!Next]_(Promise!vars)
  BY <1>0, <1>1, <1>3 DEF Execute, At, TypeOK
<1>4. ASSUME NEW r \in Runs, LoopStep(r) PROVE [Promise!Next]_(Promise!vars)
  <2>1. CASE BuildFails(r) \/ Receive(r) \/ Deadline(r)
    <3>1. UNCHANGED <<policy, remote, reported>> /\ loop' = [loop EXCEPT ![r] = "sending"]
          /\ loop[r] # "done"
      BY <2>1 DEF BuildFails, Receive, Deadline, Ends, At, attempts
    <3> QED BY <1>0, <1>1, <3>1 DEF TypeOK
  <2>2. CASE Build(r)
    BY <1>0, <1>1, <2>2 DEF Build, At, TypeOK
  <2>3. CASE Interrupt(r) \/ SleepInterrupted(r)
    BY <1>2, <2>3 DEF Interrupt, SleepInterrupted, At, attempts
  <2>4. CASE Send(r)
    BY <2>4, PromiseSend
  <2>5. CASE Wake(r)
    <3>1. attempt[r] < LastAttempt(policy)
      BY <2>5 DEF Inv, RunOK, Wake
    <3> QED BY <1>0, <1>1, <2>5, <3>1 DEF Wake, At, TypeOK
  <2> QED BY <1>4, <2>1, <2>2, <2>3, <2>4, <2>5 DEF LoopStep
<1>5. ASSUME NEW r \in Runs, NEW i \in 1 .. LastAttempt(policy), NEW o \in Outcomes,
             Finish(r, i, o)
      PROVE [Promise!Next]_(Promise!vars)
  BY <1>1, <1>5 DEF Finish
<1>6. CASE Stop
  BY <1>1, <1>6 DEF Stop, attempts
<1>7. CASE Ingest
  BY <1>1, <1>7 DEF Ingest, attempts
<1>8. CASE UNCHANGED vars
  BY <1>1, <1>8 DEF vars
<1> QED BY <1>3, <1>4, <1>5, <1>6, <1>7, <1>8 DEF Next

(* The decorator implements NodeRun for every policy: numbered reports, all  *)
(* but the last failures that will be retried, a deadline never retried, and *)
(* silence after the verdict or after Stop.                                  *)
THEOREM KeepsPromiseCorrect == Spec => KeepsPromise
<1>1. Init => Promise!Init
  BY PromiseInit
<1>2. Inv /\ [Next]_vars => [Promise!Next]_(Promise!vars)
  BY PromiseStep
<1> QED BY <1>1, <1>2, InvCorrect, PTL DEF Spec, KeepsPromise, Promise!Spec
=============================================================================
