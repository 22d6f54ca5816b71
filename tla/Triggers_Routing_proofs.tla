----------------------- MODULE Triggers_Routing_proofs -----------------------
(* Where a workflow begins and where it goes on: the promises of the       *)
(* triggers, for any files, arguments and queue, and then those of         *)
(* routing, for any payloads, conditions, targets and number of            *)
(* dependencies.  The two share no state.                                  *)
EXTENDS Triggers, Routing, FunctionTheorems, FiniteSetTheorems, WellFoundedInduction, TLAPS

-----------------------------------------------------------------------------
(* Triggers.                                                               *)

\* A setting that loads has natural numbers where it should.
LEMMA SettingOK ==
  ASSUME TypeOK
  PROVE  /\ setting \in Setting
         /\ setting.kind = "cron" => setting.schedule # "none"
         /\ setting.kind = "filechange" => setting.schedule = "none"
         /\ setting.period \in Nat \ {0} /\ setting.within \in Nat \ {0}
         /\ setting.debounce \in Nat /\ setting.onStart \in BOOLEAN
         /\ setting.schedule \in {"none", "interval", "cron", "never"}
         /\ setting.kind \in {"filewatch", "filechange", "cron"}
         /\ phase \in Nat /\ phase < setting.period
BY TriggersAssumption DEF TypeOK, Loads, Setting

\* The next moment of a schedule is in the future and no further than its period.
LEMMA DelayOK ==
  ASSUME TypeOK
  PROVE  /\ setting.schedule \in {"interval", "cron"} => Delay \in 1 .. setting.period
         /\ setting.schedule = "interval" => Delay = setting.period
         /\ setting.schedule \notin {"interval", "cron"} => Delay = Off
         /\ Delay \in Off .. setting.period
<1>1. CASE setting.schedule = "interval" BY <1>1, SettingOK DEF Delay, Off
<1>2. CASE setting.schedule = "cron" BY <1>2, SettingOK DEF Delay, Off
<1>3. CASE setting.schedule \notin {"interval", "cron"} BY <1>3, SettingOK DEF Delay, Off
<1> QED BY <1>1, <1>2, <1>3

\* The promises that are invariants follow from the rest of the invariant.
Core == TypeOK /\ WindowOK /\ TickFirst /\ CronOK /\ OthersOK /\ OffOK
          /\ ShortPeriodIsSilent

LEMMA CoreIsEnough ==
  ASSUME Core
  PROVE  Inv
<1>1. NeverSilent
  BY SettingOK DEF Core, NeverSilent, WindowOK, Watchdog, Scheduled, TypeOK, Horizon
<1> QED BY <1>1 DEF Core, Inv

LEMMA InitCore ==
  ASSUME Init
  PROVE  Core
<1>1. setting \in Setting
  BY TriggersAssumption DEF Init, Loads
<1>2. TypeOK
  <2>1. setting.period \in Nat \ {0} /\ setting.within \in Nat \ {0} /\ setting.debounce \in Nat
    BY <1>1 DEF Setting
  <2>2. /\ deadline \in Off .. setting.within /\ sched \in Off .. setting.period
        /\ silence \in 0 .. Horizon /\ waited \in {0, 1}
    BY <2>1 DEF Init, Off, Horizon
  <2>3. queue \in Seq(Files) /\ last \in [Files -> Nat]
    BY <2>1 DEF Init
  <2> QED BY <2>2, <2>3 DEF Init, TypeOK, NoResult
<1>3. WindowOK /\ TickFirst /\ CronOK
  BY DEF Init, WindowOK, TickFirst, CronOK
<1>4. OthersOK /\ OffOK
  BY DEF Init, OthersOK, OffOK, Off
<1>5. ShortPeriodIsSilent
  BY DEF Init, ShortPeriodIsSilent, NoResult
<1> QED BY <1>2, <1>3, <1>4, <1>5 DEF Core

\* The invariant, expanded as far as the steps need it.
LEMMA StepCore ==
  ASSUME Core, [Next]_vars
  PROVE  Core'
<1> USE DEF Core
<1>s. /\ setting \in Setting /\ setting \in Settings
      /\ setting.kind = "cron" => setting.schedule # "none"
      /\ setting.kind = "filechange" => setting.schedule = "none"
      /\ setting.period \in Nat \ {0} /\ setting.within \in Nat \ {0}
      /\ setting.debounce \in Nat
      /\ setting.schedule \in {"none", "interval", "cron", "never"}
      /\ setting.kind \in {"filewatch", "filechange", "cron"}
  BY SettingOK DEF TypeOK
<1>d. /\ setting.schedule \in {"interval", "cron"} => Delay \in 1 .. setting.period
      /\ setting.schedule = "interval" => Delay = setting.period
      /\ setting.schedule \notin {"interval", "cron"} => Delay = Off
      /\ Delay \in Off .. setting.period
  BY DelayOK
<1>1. CASE Fails
  BY <1>1, <1>s DEF Fails, TypeOK, WindowOK, TickFirst, CronOK, OthersOK, OffOK, ShortPeriodIsSilent,
     timers, watcher, Horizon
<1>2. CASE Watch
  <2>1. TypeOK'
    <3>1. /\ deadline' \in Off .. setting.within /\ sched' \in Off .. setting.period
          /\ silence' \in 0 .. Horizon /\ Horizon' = Horizon
      BY <1>2, <1>s, <1>d, SMTT(30) DEF Watch, TypeOK, timers, OpenWindow, Arm, Off, Horizon
    <3> QED BY <1>2, <3>1 DEF Watch, TypeOK, timers, watcher, OpenWindow
  <2>2. WindowOK' /\ OthersOK' /\ OffOK'
    BY <1>2, <1>s, <1>d DEF Watch, TypeOK, timers, watcher, OpenWindow, Arm, Watchdog, Scheduled,
       WindowOK, OthersOK, OffOK, Off
  <2>3. TickFirst' /\ CronOK' /\ ShortPeriodIsSilent'
    BY <1>2, <1>s, <1>d DEF Watch, TypeOK, timers, watcher, OpenWindow, Arm, Watchdog, Scheduled,
       TickFirst, CronOK, ShortPeriodIsSilent, Off
  <2> QED BY <2>1, <2>2, <2>3
<1>3. CASE StartCron
  <2>1. TypeOK'
    BY <1>3, <1>s, <1>d DEF StartCron, TypeOK, watcher, Await, Arm, Off, Horizon
  <2>2. WindowOK' /\ OthersOK' /\ OffOK' /\ TickFirst' /\ ShortPeriodIsSilent'
    BY <1>3, <1>s, <1>d DEF StartCron, TypeOK, watcher, Await, Arm, WindowOK, OthersOK, OffOK, TickFirst,
       ShortPeriodIsSilent, Watchdog, Off
  <2>3. CronOK'
    BY <1>3, <1>s, <1>d DEF StartCron, TypeOK, Await, Arm, CronOK, Off
  <2> QED BY <2>1, <2>2, <2>3
<1>4. CASE TakeEvent
  <2>1. /\ UNCHANGED <<setting, phase, timers, closed, stopped, manager, silence, missed>>
        /\ loop = "waiting"
        /\ waited' \in {0, waited}
        /\ \/ UNCHANGED <<loop, result>>
           \/ loop' = "sending" /\ result' = "success"
    BY <1>4 DEF TakeEvent, Emit
  <2>2. Head(queue) \in Files /\ queue' \in Seq(Files)
    BY <1>4 DEF TakeEvent, TypeOK
  <2>3. last' \in [Files -> Nat]
    BY <1>4 DEF TakeEvent, TypeOK
  <2>4. TypeOK'
    BY <2>1, <2>2, <2>3 DEF TypeOK, timers, Horizon
  <2>5. WindowOK' /\ OthersOK' /\ OffOK' /\ TickFirst' /\ ShortPeriodIsSilent' /\ CronOK'
    BY <2>1, <1>s DEF TypeOK, timers, WindowOK, OthersOK, OffOK, TickFirst, ShortPeriodIsSilent, CronOK,
       Watchdog, Scheduled
  <2> QED BY <2>4, <2>5
<1>5. CASE Expire
  <2>1. TypeOK'
    <3>1. /\ deadline' \in Off .. setting.within /\ sched' \in Off .. setting.period
          /\ silence' \in 0 .. Horizon /\ Horizon' = Horizon
      BY <1>5, <1>s DEF Expire, TypeOK, Off, Horizon
    <3> QED BY <1>5, <3>1 DEF Expire, TypeOK, watcher, Emit
  <2>2. Watchdog
    BY <1>5, <1>s DEF Expire, OthersOK, OffOK, Off, Watchdog
  <2>3. open
    BY <1>5, <2>2 DEF Expire, WindowOK, Off
  <2>4. WindowOK' /\ OthersOK' /\ OffOK' /\ TickFirst' /\ CronOK'
    BY <1>5, <1>s, <2>2, <2>3 DEF Expire, TypeOK, watcher, Emit, WindowOK, OthersOK, OffOK, TickFirst, CronOK,
       Watchdog, Scheduled, Off
  <2>5. ShortPeriodIsSilent'
    BY <1>5, <1>s, <2>2, <2>3 DEF Expire, TypeOK, Emit, TickFirst, ShortPeriodIsSilent, Watchdog
  <2> QED BY <2>1, <2>4, <2>5
<1>6. CASE Tick
  <2>1. TypeOK'
    <3>1. /\ deadline' \in Off .. setting.within /\ sched' \in Off .. setting.period
          /\ silence' \in 0 .. Horizon /\ Horizon' = Horizon
      BY <1>6, <1>s, <1>d DEF Tick, TypeOK, Reopen, OpenWindow, Arm, Off, Horizon
    <3> QED BY <1>6, <3>1 DEF Tick, TypeOK, watcher, Reopen, OpenWindow
  <2>2. WindowOK' /\ OthersOK' /\ OffOK' /\ CronOK' /\ ShortPeriodIsSilent'
    BY <1>6, <1>s, <1>d DEF Tick, TypeOK, watcher, Reopen, OpenWindow, Arm, WindowOK, OthersOK, OffOK, CronOK,
       ShortPeriodIsSilent, Watchdog, Scheduled, Off
  <2>3. TickFirst'
    BY <1>6, <1>s, <1>d DEF Tick, TypeOK, Reopen, OpenWindow, Arm, TickFirst, Watchdog, Off
  <2> QED BY <2>1, <2>2, <2>3
<1>7. CASE Fire
  BY <1>7, <1>s DEF Fire, TypeOK, watcher, Emit, WindowOK, OthersOK, OffOK, CronOK, TickFirst,
     ShortPeriodIsSilent, Watchdog, Scheduled, Off, Horizon
<1>8. CASE Sent
  <2>1. CASE setting.kind = "filewatch"
    <3>1. /\ manager' = result /\ result' = NoResult /\ loop' = "waiting" /\ sched' = sched
          /\ silence' = 0 /\ loop = "sending" /\ Settled
          /\ UNCHANGED <<setting, phase, watcher, stopped, missed>>
      BY <1>8, <2>1 DEF Sent
    <3>2. TypeOK'
      <4>1. open' \in BOOLEAN /\ deadline' \in Off .. setting.within
        <5>1. open' \in BOOLEAN
          BY <3>1 DEF Settled, OpenWindow, CloseWindow
        <5>2. deadline' \in Off .. setting.within
          BY <3>1, <1>s DEF Settled, OpenWindow, CloseWindow, Off
        <5> QED BY <5>1, <5>2
      <4>2. silence' \in 0 .. Horizon /\ Horizon' = Horizon
        BY <3>1, <1>s DEF Horizon
      <4> QED BY <3>1, <4>1, <4>2 DEF TypeOK, watcher, NoResult
    <3>3. WindowOK' /\ OthersOK' /\ OffOK'
      BY <3>1, <2>1, <1>s DEF TypeOK, watcher, Settled, OpenWindow, CloseWindow, WindowOK, OthersOK, OffOK,
         Watchdog, Scheduled, Off
    <3>4. TickFirst' /\ CronOK' /\ ShortPeriodIsSilent'
      BY <3>1, <2>1, <1>s DEF TypeOK, watcher, Settled, OpenWindow, CloseWindow, TickFirst, CronOK,
         ShortPeriodIsSilent, Watchdog, Scheduled, Off, NoResult
    <3> QED BY <3>2, <3>3, <3>4
  <2>2. CASE setting.kind = "cron"
    <3>1. /\ manager' = result /\ result' = NoResult /\ Await /\ open' = open /\ deadline' = deadline
          /\ silence' = 0 /\ loop = "sending"
          /\ UNCHANGED <<setting, phase, watcher, stopped, missed>>
      BY <1>8, <2>2 DEF Sent
    <3>2. TypeOK'
      BY <3>1, <1>s, <1>d DEF TypeOK, watcher, Await, Arm, Off, NoResult, Horizon
    <3>3. WindowOK' /\ OthersOK' /\ OffOK' /\ TickFirst' /\ ShortPeriodIsSilent'
      BY <3>1, <2>2, <1>s DEF TypeOK, watcher, WindowOK, OthersOK, OffOK, TickFirst, ShortPeriodIsSilent,
         Watchdog, Await, Off, NoResult
    <3>4. CronOK'
      BY <3>1, <2>2, <1>s, <1>d DEF TypeOK, Await, Arm, CronOK, Off
    <3> QED BY <3>2, <3>3, <3>4
  <2>3. CASE setting.kind = "filechange"
    <3>1. /\ manager' = result /\ result' = NoResult /\ UNCHANGED timers /\ loop' = "waiting"
          /\ silence' = 0 /\ loop = "sending"
          /\ UNCHANGED <<setting, phase, watcher, stopped, missed>>
      BY <1>8, <2>3 DEF Sent
    <3> QED
      BY <3>1, <2>3, <1>s DEF TypeOK, timers, watcher, WindowOK, OthersOK, OffOK, TickFirst, CronOK,
         ShortPeriodIsSilent, Watchdog, Off, NoResult, Horizon
  <2> QED BY <2>1, <2>2, <2>3, <1>s
<1>9. CASE Halt
  BY <1>9, <1>s DEF Halt, TypeOK, watcher, WindowOK, OthersOK, OffOK, TickFirst, CronOK, ShortPeriodIsSilent,
     Watchdog, Off, Horizon
<1>10. CASE Stop
  BY <1>10, <1>s DEF Stop, TypeOK, timers, watcher, WindowOK, OthersOK, OffOK, TickFirst, CronOK,
     ShortPeriodIsSilent, Watchdog, Scheduled, Off, Horizon
<1>11. CASE CloseWatcher
  BY <1>11, <1>s DEF CloseWatcher, TypeOK, timers, WindowOK, OthersOK, OffOK, TickFirst, CronOK,
     ShortPeriodIsSilent, Watchdog, Scheduled, Off, Horizon
<1>12. CASE Forward
  BY <1>12, <1>s DEF Forward, TypeOK, timers, watcher, WindowOK, OthersOK, OffOK, TickFirst, CronOK,
     ShortPeriodIsSilent, Watchdog, Scheduled, Off, NoResult, Horizon
<1>13. CASE Pass
  <2>1. TypeOK'
    <3>1. /\ phase' \in 0 .. setting.period - 1
          /\ deadline' \in Off .. setting.within /\ sched' \in Off .. setting.period
      <4>1. phase' \in 0 .. setting.period - 1
        BY <1>13, <1>s DEF Pass, TypeOK
      <4>2. deadline' \in Off .. setting.within
        BY <1>13, <1>s DEF Pass, TypeOK, Elapsed, Off
      <4>3. sched' \in Off .. setting.period
        BY <1>13, <1>s DEF Pass, TypeOK, Elapsed, Off
      <4> QED BY <4>1, <4>2, <4>3
    <3>2. last' \in [Files -> Nat]
      BY <1>13, <1>s DEF Pass, TypeOK, Aged
    <3>3. silence' \in 0 .. Horizon /\ waited' \in {0, 1} /\ Horizon' = Horizon
      BY <1>13, <1>s DEF Pass, TypeOK, Aged, Horizon
    <3> QED BY <1>13, <3>1, <3>2, <3>3 DEF Pass, TypeOK
  <2>2. loop = "waiting" => queue = <<>> /\ deadline # 0 /\ sched # 0
    BY <1>13 DEF Pass, Busy
  <2>3. /\ deadline' = (IF deadline > 0 THEN deadline - 1 ELSE deadline)
        /\ sched' = (IF sched > 0 THEN sched - 1 ELSE sched)
        /\ silence' = (IF silence < setting.within + setting.period THEN silence + 1 ELSE silence)
        /\ queue = <<>> => waited' = 0
        /\ UNCHANGED <<setting, loop, result, open, stopped, manager, missed>>
    BY <1>13 DEF Pass, Elapsed, Aged, Horizon
  <2>4. WindowOK'
    BY <2>2, <2>3, <1>s, SMTT(30) DEF TypeOK, WindowOK, Watchdog, Scheduled, Off, Horizon
  <2>5. TickFirst'
    BY <2>2, <2>3, <1>s DEF TypeOK, WindowOK, TickFirst, Watchdog, Scheduled, Off
  <2>6. CronOK'
    BY <2>2, <2>3, <1>s DEF TypeOK, CronOK, Off, Horizon
  <2>7. OthersOK' /\ OffOK' /\ ShortPeriodIsSilent'
    BY <1>13, <2>3, <1>s DEF Pass, TypeOK, OthersOK, OffOK, ShortPeriodIsSilent, Off
  <2> QED BY <2>1, <2>4, <2>5, <2>6, <2>7
<1>14. ASSUME NEW f \in Files, Arrive(f) PROVE Core'
  <2>1. queue' \in Seq(Files)
    BY <1>14 DEF Arrive, TypeOK
  <2> QED
    BY <1>14, <2>1, <1>s DEF Arrive, TypeOK, timers, WindowOK, OthersOK, OffOK, TickFirst, CronOK,
       ShortPeriodIsSilent, Watchdog, Scheduled, Off, Horizon
<1>15. CASE UNCHANGED vars
  BY <1>15, <1>s DEF vars, TypeOK, timers, watcher, WindowOK, OthersOK, OffOK, TickFirst, CronOK,
     ShortPeriodIsSilent, Watchdog, Scheduled, Off, Horizon
<1> QED
  BY <1>1, <1>2, <1>3, <1>4, <1>5, <1>6, <1>7, <1>8, <1>9, <1>10, <1>11, <1>12, <1>13, <1>14, <1>15
  DEF Next, Execute, Select

\* The inductive invariant of the triggers: the window, its timer and the schedule
\* agree in every reachable state.
THEOREM InvCorrect == Spec => []Inv
<1>1. Spec => []Core
  BY InitCore, StepCore, PTL DEF Spec
<1>2. Core => Inv
  BY CoreIsEnough
<1> QED BY <1>1, <1>2, PTL

\* Every reachable state is well typed.
THEOREM TypeCorrect == Spec => []TypeOK
<1>1. Inv => TypeOK BY DEF Inv
<1> QED BY <1>1, InvCorrect, PTL

\* The watchdog reports within a window, whatever its arguments.
THEOREM NeverSilentCorrect == Spec => []NeverSilent
<1>1. Inv => NeverSilent BY DEF Inv
<1> QED BY <1>1, InvCorrect, PTL

\* A schedule faster than the window never reports a miss, for any two durations.
THEOREM ShortPeriodIsSilentCorrect == Spec => []ShortPeriodIsSilent
<1>1. Inv => ShortPeriodIsSilent BY DEF Inv
<1> QED BY <1>1, InvCorrect, PTL

\* Only Expire reports a miss, and only Fire fires.
LEMMA WhoReports ==
  ASSUME [Next]_vars
  PROVE  (Misses => Expire) /\ (Fires => Fire)
<1>1. ASSUME NEW f \in Files, Arrive(f) PROVE loop' = loop
  BY <1>1 DEF Arrive
<1>2. UNCHANGED vars => loop' = loop
  BY DEF vars
<1>3. Fails \/ Watch \/ StartCron \/ Halt \/ Sent => ~Misses /\ ~Fires
  BY DEF Fails, Watch, StartCron, Halt, Sent, Misses, Fires
<1>4. Tick \/ Stop \/ CloseWatcher \/ Forward \/ Pass => loop' = loop
  BY DEF Tick, Stop, CloseWatcher, Forward, Pass
<1>5. TakeEvent => loop' = loop \/ result' = "success"
  BY DEF TakeEvent, Emit
<1>6. (Expire => ~Fires) /\ (Fire => ~Misses)
  BY DEF Expire, Fire, Emit, Misses, Fires
<1> QED BY <1>1, <1>2, <1>3, <1>4, <1>5, <1>6 DEF Next, Execute, Select, Misses, Fires

\* A miss follows a whole silent window, and overlooks no file that came before its end.
THEOREM MissIsEarnedCorrect == Spec => MissIsEarned
<1>1. Inv /\ [Next]_vars
        => [Misses => silence >= setting.within /\ (queue = <<>> \/ waited = 0)]_vars
  <2> SUFFICES ASSUME Inv, [Next]_vars, Misses
               PROVE  silence >= setting.within /\ (queue = <<>> \/ waited = 0)
    OBVIOUS
  <2>1. Expire BY WhoReports
  <2>2. Watchdog BY <2>1, SettingOK DEF Expire, Inv, OthersOK, Off, Watchdog
  <2>3. open BY <2>1, <2>2 DEF Expire, Inv, WindowOK, Off
  <2> QED BY <2>1, <2>2, <2>3, SettingOK DEF Expire, Inv, WindowOK, TypeOK, Horizon
<1> QED BY <1>1, InvCorrect, PTL DEF Spec, MissIsEarned

\* From one tick to the next there is at most one miss.
THEOREM OneMissPerWindowCorrect == Spec => OneMissPerWindow
<1>1. Inv /\ [Next]_vars => [Misses /\ Scheduled => ~missed]_vars
  <2> SUFFICES ASSUME Inv, [Next]_vars, Misses, Scheduled
               PROVE  ~missed
    OBVIOUS
  <2>1. Expire BY WhoReports
  <2>2. Watchdog BY <2>1, SettingOK DEF Expire, Inv, OthersOK, Off, Watchdog
  <2>3. open BY <2>1, <2>2 DEF Expire, Inv, WindowOK, Off
  <2> QED BY <2>1, <2>2, <2>3 DEF Expire, Inv, WindowOK
<1> QED BY <1>1, InvCorrect, PTL DEF Spec, OneMissPerWindow

\* Two firings of a schedule are of different moments.
THEOREM FiresApartCorrect == Spec => FiresApart
<1>1. Inv /\ [Next]_vars
        => [Fires => silence >= (IF setting.schedule = "interval" THEN setting.period ELSE 1)]_vars
  <2> SUFFICES ASSUME Inv, [Next]_vars, Fires
               PROVE  silence >= (IF setting.schedule = "interval" THEN setting.period ELSE 1)
    OBVIOUS
  <2>1. Fire BY WhoReports
  <2> QED BY <2>1, SettingOK DEF Fire, Inv, CronOK, TypeOK, Horizon
<1> QED BY <1>1, InvCorrect, PTL DEF Spec, FiresApart

-----------------------------------------------------------------------------
(* Routing: the paths of values.                                           *)

\* A set of numbers has a least one.
LEMMA LeastExists ==
  ASSUME NEW S, S \subseteq Nat, S # {}
  PROVE  \E i \in S : \A j \in S : i <= j
<1>1. PICK i \in S : \A j \in S : <<j, i>> \notin OpToRel(<, Nat)
  BY WFMin, NatLessThanWellFounded, Zenon
<1>2. \A j \in S : ~(j < i)
  BY <1>1, Zenon DEF OpToRel
<1> QED BY <1>2

\* Trunks of a path are paths, and trunks of these are trunks of it.
LEMMA TrunkOK ==
  ASSUME NEW p \in Seq(Step), NEW k \in 0 .. Len(p)
  PROVE  /\ Trunk(p, k) \in Seq(Step) /\ Len(Trunk(p, k)) = k
         /\ \A m \in 0 .. k : Trunk(Trunk(p, k), m) = Trunk(p, m)
         /\ \A m \in 1 .. k : Trunk(p, k)[m] = p[m]
         /\ Trunk(p, Len(p)) = p
         /\ Trunk(p, 0) = <<>>
<1>1. Trunk(p, k) = [i \in 1 .. k |-> p[i]]
  BY DEF Trunk
<1>2. Trunk(p, k) \in Seq(Step) /\ Len(Trunk(p, k)) = k
  BY <1>1
<1>3. \A m \in 1 .. k : Trunk(p, k)[m] = p[m]
  BY <1>1
<1>4. ASSUME NEW m \in 0 .. k PROVE Trunk(Trunk(p, k), m) = Trunk(p, m)
  <2>1. Trunk(Trunk(p, k), m) = [i \in 1 .. m |-> Trunk(p, k)[i]] /\ Trunk(p, m) = [i \in 1 .. m |-> p[i]]
    BY <1>2 DEF Trunk
  <2>2. \A i \in 1 .. m : Trunk(p, k)[i] = p[i]
    BY <1>3
  <2> QED BY <2>1, <2>2
<1>5. Trunk(p, Len(p)) = p /\ Trunk(p, 0) = <<>>
  BY DEF Trunk
<1> QED BY <1>2, <1>3, <1>4, <1>5

\* A value has the trunks of its paths, and what its path goes on with tells whether
\* there is an object.
LEMMA SameBranch ==
  ASSUME NEW v, NEW w, IsValue(v), IsValue(w), NEW p \in DOMAIN v, p \in DOMAIN w,
         NEW k \in 0 .. Len(p) - 1
  PROVE  /\ p \in Seq(Step) /\ Len(p) \in Nat /\ k \in 0 .. Len(p)
         /\ Trunk(p, k) \in DOMAIN v /\ Trunk(p, k) \in DOMAIN w
         /\ ObjectAt(v, Trunk(p, k)) <=> ObjectAt(w, Trunk(p, k))
<1>1. p \in Seq(Step) /\ Len(p) \in Nat
  BY DEF IsValue
<1>2. /\ Trunk(p, k) \in DOMAIN v /\ Trunk(p, k) \in DOMAIN w
      /\ v[Trunk(p, k)] = w[Trunk(p, k)]
  BY DEF IsValue
<1> QED BY <1>1, <1>2 DEF ObjectAt

-----------------------------------------------------------------------------
(* Overlays.                                                               *)

Stack(layers) == DOMAIN layers \subseteq Nat /\ \A i \in DOMAIN layers : IsValue(layers[i])

\* A path that is there has a first layer that has it.
LEMMA FirstOK ==
  ASSUME NEW L, Stack(L), NEW p
  PROVE  /\ p \in Paths(L) <=> Has(L, p) # {}
         /\ p \in Paths(L) =>
              /\ First(L, p) \in Has(L, p) /\ First(L, p) \in DOMAIN L /\ First(L, p) \in Nat
              /\ L[First(L, p)] # Null /\ IsValue(L[First(L, p)])
              /\ p \in DOMAIN L[First(L, p)]
              /\ \A j \in Has(L, p) : First(L, p) <= j
<1>1. p \in Paths(L) <=> Has(L, p) # {}
  BY DEF Paths, Has
<1>2. ASSUME Has(L, p) # {}
      PROVE  First(L, p) \in Has(L, p) /\ \A j \in Has(L, p) : First(L, p) <= j
  <2>1. Has(L, p) \subseteq Nat
    BY DEF Has, Stack
  <2>2. \E i \in Has(L, p) : \A j \in Has(L, p) : i <= j
    BY <1>2, <2>1, LeastExists
  <2> QED BY <2>2 DEF First
<1> QED BY <1>1, <1>2 DEF Has, Stack

\* Whoever has a path has its trunks, so these come first no later.
LEMMA TrunkFirst ==
  ASSUME NEW L, Stack(L), NEW p \in Paths(L), NEW k \in 0 .. Len(p) - 1
  PROVE  /\ Trunk(p, k) \in Paths(L) /\ Trunk(p, k) \in DOMAIN L[First(L, p)]
         /\ First(L, Trunk(p, k)) <= First(L, p)
         /\ p \in Seq(Step) /\ Len(p) \in Nat /\ k \in 0 .. Len(p)
<1>1. /\ First(L, p) \in DOMAIN L /\ L[First(L, p)] # Null /\ IsValue(L[First(L, p)])
      /\ p \in DOMAIN L[First(L, p)]
  BY FirstOK
<1>2. Trunk(p, k) \in DOMAIN L[First(L, p)] /\ p \in Seq(Step) /\ Len(p) \in Nat /\ k \in 0 .. Len(p)
  BY <1>1, SameBranch
<1>3. First(L, p) \in Has(L, Trunk(p, k))
  BY <1>1, <1>2 DEF Has
<1> QED BY <1>2, <1>3, FirstOK

\* A path that cannot be seen is hidden at a trunk that can.
LEMMA HiddenBelow ==
  ASSUME NEW L, Stack(L), NEW p \in Paths(L), ~Seen(L, p)
  PROVE  \E k \in 0 .. Len(p) - 1 :
           /\ Trunk(p, k) \in Paths(L) /\ Seen(L, Trunk(p, k))
           /\ ~(/\ ObjectAt(L[First(L, Trunk(p, k))], Trunk(p, k))
                /\ ObjectAt(L[First(L, p)], Trunk(p, k)))
<1> DEFINE own == First(L, p)
           f(k) == First(L, Trunk(p, k))
           ok(k) == ObjectAt(L[f(k)], Trunk(p, k)) /\ ObjectAt(L[own], Trunk(p, k))
           S == {k \in 0 .. Len(p) - 1 : f(k) # own /\ ~ok(k)}
<1>0. own \in DOMAIN L /\ own \in Nat /\ IsValue(L[own]) /\ p \in DOMAIN L[own] /\ p \in Seq(Step) /\ Len(p) \in Nat
  BY FirstOK DEF IsValue
<1>1. S # {} /\ S \subseteq Nat
  BY <1>0 DEF Seen
<1>2. PICK k \in S : \A j \in S : k <= j
  BY <1>1, LeastExists
<1> DEFINE r == Trunk(p, k)
<1>3. k \in 0 .. Len(p) - 1 /\ f(k) # own /\ ~ok(k)
  BY <1>2
<1>4. /\ r \in Paths(L) /\ r \in DOMAIN L[own] /\ f(k) <= own
      /\ f(k) \in Nat /\ IsValue(L[f(k)]) /\ r \in DOMAIN L[f(k)]
  BY <1>3, TrunkFirst, FirstOK
<1>5. Len(r) = k /\ \A m \in 0 .. k : Trunk(r, m) = Trunk(p, m)
  <2>1. p \in Seq(Step) /\ k \in 0 .. Len(p)
    BY <1>0, <1>3
  <2> QED BY <2>1, TrunkOK
<1>6. ASSUME NEW m \in 0 .. k - 1, f(m) # f(k)
      PROVE  ObjectAt(L[f(m)], Trunk(p, m)) /\ ObjectAt(L[f(k)], Trunk(p, m))
  <2>1. m \notin S /\ m \in 0 .. Len(p) - 1 /\ m \in 0 .. Len(r) - 1 /\ m \in 0 .. k
    BY <1>2, <1>3, <1>5, <1>0
  <2>2. f(m) # own
    <3>1. First(L, Trunk(r, m)) <= First(L, r) /\ Trunk(r, m) \in Paths(L)
      BY <1>4, <2>1, TrunkFirst
    <3>2. f(m) <= f(k) /\ f(m) \in Nat
      BY <3>1, <1>5, <2>1, FirstOK
    <3> QED BY <3>2, <1>3, <1>4, <1>0
  <2>3. ok(m)
    BY <2>1, <2>2
  <2>4. ObjectAt(L[own], Trunk(r, m)) <=> ObjectAt(L[f(k)], Trunk(r, m))
    BY <1>0, <1>4, <2>1, SameBranch
  <2> QED BY <2>1, <2>3, <2>4, <1>5
<1>7. Seen(L, r)
  BY <1>5, <1>6 DEF Seen
<1> QED BY <1>3, <1>4, <1>7

\* What does not lie under something else than an object, neither in the overlay nor
\* of its own, can be seen.
LEMMA Absorbed ==
  ASSUME NEW L, Stack(L), NEW v, IsValue(v), NEW p \in DOMAIN v, p \in Paths(L),
         \A k \in 0 .. Len(p) - 1 :
           Trunk(p, k) \in Paths(L) /\ Seen(L, Trunk(p, k)) =>
             /\ ObjectAt(L[First(L, Trunk(p, k))], Trunk(p, k))
             /\ ObjectAt(v, Trunk(p, k))
  PROVE  Seen(L, p)
<1> SUFFICES ASSUME ~Seen(L, p) PROVE FALSE
  OBVIOUS
<1>1. PICK k \in 0 .. Len(p) - 1 :
        /\ Trunk(p, k) \in Paths(L) /\ Seen(L, Trunk(p, k))
        /\ ~(/\ ObjectAt(L[First(L, Trunk(p, k))], Trunk(p, k))
             /\ ObjectAt(L[First(L, p)], Trunk(p, k)))
  BY HiddenBelow
<1>2. IsValue(L[First(L, p)]) /\ p \in DOMAIN L[First(L, p)]
  BY FirstOK
<1>3. ObjectAt(v, Trunk(p, k)) <=> ObjectAt(L[First(L, p)], Trunk(p, k))
  BY <1>2, SameBranch
<1> QED BY <1>1, <1>3

\* What is seen of values laid over each other, and that it has a root.
LEMMA OverlayOK ==
  ASSUME NEW L, Stack(L), Paths(L) # {}
  PROVE  /\ DOMAIN Overlay(L) = {p \in Paths(L) : Seen(L, p)}
         /\ \A p \in DOMAIN Overlay(L) : Overlay(L)[p] = L[First(L, p)][p]
         /\ <<>> \in DOMAIN Overlay(L)
         /\ Overlay(L) \in [DOMAIN Overlay(L) -> Label]
<1>1. /\ DOMAIN Overlay(L) = {p \in Paths(L) : Seen(L, p)}
      /\ \A p \in DOMAIN Overlay(L) : Overlay(L)[p] = L[First(L, p)][p]
      /\ Overlay(L) = [p \in DOMAIN Overlay(L) |-> Overlay(L)[p]]
  BY DEF Overlay
<1>2. <<>> \in Paths(L)
  BY DEF Paths, Stack, IsValue
<1>3. Seen(L, <<>>)
  BY DEF Seen
<1>4. ASSUME NEW p \in DOMAIN Overlay(L) PROVE Overlay(L)[p] \in Label
  <2>1. IsValue(L[First(L, p)]) /\ p \in DOMAIN L[First(L, p)]
    BY <1>1, FirstOK
  <2> QED BY <1>1, <2>1 DEF IsValue
<1> HIDE DEF Overlay
<1> QED BY <1>1, <1>2, <1>3, <1>4

\* A label has one tag.
LEMMA TagOK ==
  ASSUME NEW l \in Label, "int" \in DOMAIN l
  PROVE  l.int \in Int /\ DOMAIN l = {"int"}
<1>0. "int" \in DOMAIN l
  OBVIOUS
<1>1. CASE l \in [null : {TRUE}]
  <2> "int" \notin DOMAIN l
    BY <1>1
  <2> QED BY <1>0
<1>2. CASE l \in [bool : BOOLEAN]
  <2> "int" \notin DOMAIN l
    BY <1>2
  <2> QED BY <1>0
<1>3. CASE l \in [int : Int]
  BY <1>3
<1>4. CASE l \in [num : Int]
  <2> "int" \notin DOMAIN l
    BY <1>4
  <2> QED BY <1>0
<1>5. CASE l \in [str : STRING]
  <2> "int" \notin DOMAIN l
    BY <1>5
  <2> QED BY <1>0
<1>6. CASE l \in [list : {TRUE}]
  <2> "int" \notin DOMAIN l
    BY <1>6
  <2> QED BY <1>0
<1>7. CASE l \in [object : {TRUE}]
  <2> "int" \notin DOMAIN l
    BY <1>7
  <2> QED BY <1>0
<1> QED BY <1>1, <1>2, <1>3, <1>4, <1>5, <1>6, <1>7, Zenon DEF Label

\* JSON changes neither the paths of a value nor where it has objects, and what went
\* through it once does not change again.
LEMMA LabelOK ==
  ASSUME NEW l \in Label
  PROVE  /\ Rounded(l) \in Label /\ Rounded(Rounded(l)) = Rounded(l)
         /\ "object" \in DOMAIN Rounded(l) <=> "object" \in DOMAIN l
         /\ Rounded(l) = [null |-> TRUE] <=> l = [null |-> TRUE]
<1>1. CASE "int" \in DOMAIN l
  <2>1. l.int \in Int /\ DOMAIN l = {"int"}
    BY <1>1, TagOK
  <2>2. Rounded(l) = [num |-> l.int]
    BY <1>1 DEF Rounded
  <2>3. Rounded(l) \in Label /\ DOMAIN Rounded(l) = {"num"}
    BY <2>1, <2>2 DEF Label
  <2> QED BY <2>1, <2>3 DEF Rounded
<1>2. CASE "int" \notin DOMAIN l
  BY <1>2 DEF Rounded
<1> QED BY <1>1, <1>2

\* So for a whole value.
LEMMA NormalOK ==
  ASSUME NEW v, v \in [DOMAIN v -> Label]
  PROVE  /\ Normal(v) \in [DOMAIN v -> Label] /\ DOMAIN Normal(v) = DOMAIN v
         /\ Normal(Normal(v)) = Normal(v)
         /\ \A p \in DOMAIN v : /\ Normal(v)[p] = Rounded(v[p])
                                /\ ObjectAt(Normal(v), p) <=> ObjectAt(v, p)
<1>1. /\ DOMAIN Normal(v) = DOMAIN v
      /\ \A p \in DOMAIN v : Normal(v)[p] = Rounded(v[p]) /\ v[p] \in Label
  BY DEF Normal
<1>2. Normal(v) \in [DOMAIN v -> Label]
  BY <1>1, LabelOK DEF Normal
<1>3. Normal(Normal(v)) = Normal(v)
  <2>1. \A p \in DOMAIN v : Rounded(Normal(v)[p]) = Normal(v)[p]
    BY <1>1, LabelOK
  <2> QED BY <1>1, <2>1 DEF Normal
<1> QED BY <1>1, <1>2, <1>3, LabelOK DEF ObjectAt

\* A null has its root only.
LEMMA NullOK ==
  /\ IsValue(Null) /\ DOMAIN Null = {<<>>} /\ Null[<<>>] = [null |-> TRUE] /\ Normal(Null) = Null
  /\ \A w : w \in [{<<>>} -> Label] /\ w[<<>>] = [null |-> TRUE] => w = Null
  /\ \A v : IsValue(v) /\ v[<<>>] = [null |-> TRUE] => v = Null
<1>1. DOMAIN Null = {<<>>} /\ Null[<<>>] = [null |-> TRUE]
  BY DEF Null, Leaf
<1>2. IsValue(Null)
  <2>1. [null |-> TRUE] \in Label
    BY DEF Label
  <2>2. Null \in [{<<>>} -> Label]
    BY <2>1 DEF Null, Leaf
  <2>3. \A k \in 0 .. Len(<<>>) - 1 : FALSE
    OBVIOUS
  <2> QED BY <1>1, <2>2, <2>3 DEF IsValue
<1>3. ASSUME NEW w, w \in [{<<>>} -> Label], w[<<>>] = [null |-> TRUE] PROVE w = Null
  BY <1>1, <1>3 DEF Null, Leaf
<1>4. Normal(Null) = Null
  BY <1>1 DEF Normal, Null, Leaf, Rounded
<1>5. ASSUME NEW v, IsValue(v), v[<<>>] = [null |-> TRUE] PROVE v = Null
  <2>1. ASSUME NEW p \in DOMAIN v PROVE p = <<>>
    <3>1. p \in Seq(Step) /\ Len(p) \in Nat
      BY <1>5 DEF IsValue
    <3>2. Trunk(p, 0) = <<>>
      BY <3>1, TrunkOK
    <3>3. 0 \in 0 .. Len(p) - 1 => v[Trunk(p, 0)] \in {[object |-> TRUE], [list |-> TRUE]}
      BY <1>5 DEF IsValue
    <3>4. [null |-> TRUE] \notin {[object |-> TRUE], [list |-> TRUE]}
      OBVIOUS
    <3>5. Len(p) = 0
      BY <1>5, <3>1, <3>2, <3>3, <3>4
    <3> QED BY <3>1, <3>5
  <2>2. v \in [{<<>>} -> Label]
    BY <1>5, <2>1 DEF IsValue
  <2> QED BY <1>3, <1>5, <2>2
<1> QED BY <1>1, <1>2, <1>3, <1>4, <1>5

\* What comes to the overlay of some layers, as far as JSON tells.
IsOverlay(w, layers) == w \in [DOMAIN w -> Label] /\ Normal(w) = Normal(Overlay(layers))

\* Up to its numbers an overlay has the paths and the objects of the layers it is of.
LEMMA IsOverlayOK ==
  ASSUME NEW L, Stack(L), Paths(L) # {}, NEW w, IsOverlay(w, L)
  PROVE  /\ DOMAIN w = {p \in Paths(L) : Seen(L, p)} /\ <<>> \in DOMAIN w
         /\ \A p \in DOMAIN w : /\ Rounded(w[p]) = Rounded(L[First(L, p)][p])
                                /\ ObjectAt(w, p) <=> ObjectAt(L[First(L, p)], p)
<1> DEFINE T == Overlay(L)
<1>1. /\ DOMAIN T = {p \in Paths(L) : Seen(L, p)} /\ <<>> \in DOMAIN T
      /\ \A p \in DOMAIN T : T[p] = L[First(L, p)][p]
      /\ T \in [DOMAIN T -> Label]
  BY OverlayOK
<1>2. w \in [DOMAIN w -> Label] /\ Normal(w) = Normal(T)
  BY DEF IsOverlay
<1> HIDE DEF T
<1>3. /\ DOMAIN Normal(w) = DOMAIN w /\ DOMAIN Normal(T) = DOMAIN T
      /\ \A p \in DOMAIN w : Normal(w)[p] = Rounded(w[p]) /\ (ObjectAt(Normal(w), p) <=> ObjectAt(w, p))
      /\ \A p \in DOMAIN T : Normal(T)[p] = Rounded(T[p]) /\ (ObjectAt(Normal(T), p) <=> ObjectAt(T, p))
  BY <1>1, <1>2, NormalOK
<1>4. \A p \in DOMAIN T : ObjectAt(T, p) <=> ObjectAt(L[First(L, p)], p)
  BY <1>1 DEF ObjectAt
<1> QED BY <1>1, <1>2, <1>3, <1>4

\* An overlay is null when every layer is, and only then.
LEMMA NothingThere ==
  ASSUME NEW L, Stack(L), NEW w, IsOverlay(w, L)
  PROVE  w = Null <=> Paths(L) = {}
<1>1. w \in [DOMAIN w -> Label] /\ Normal(w) = Normal(Overlay(L))
  BY DEF IsOverlay
<1>2. ASSUME Paths(L) = {} PROVE w = Null
  <2>1. Normal(w) = Null
    BY <1>1, <1>2, NullOK DEF Overlay
  <2>2. DOMAIN w = {<<>>} /\ Rounded(w[<<>>]) = [null |-> TRUE]
    BY <1>1, <2>1, NullOK, NormalOK
  <2>3. w[<<>>] = [null |-> TRUE]
    BY <1>1, <2>2, LabelOK
  <2> QED BY <1>1, <2>2, <2>3, NullOK
<1>3. ASSUME w = Null, Paths(L) # {} PROVE FALSE
  <2> DEFINE v == L[First(L, <<>>)]
  <2>1. <<>> \in Paths(L) /\ Rounded(w[<<>>]) = Rounded(v[<<>>])
    BY <1>3, IsOverlayOK
  <2>2. IsValue(v) /\ v # Null /\ v[<<>>] \in Label
    BY <2>1, FirstOK DEF IsValue
  <2>3. Rounded(v[<<>>]) = [null |-> TRUE]
    BY <1>3, <2>1, NullOK, LabelOK DEF Label
  <2> QED BY <2>2, <2>3, LabelOK, NullOK
<1> QED BY <1>2, <1>3

\* Layers with the same values overlay to the same.
LEMMA SameOverlay ==
  ASSUME NEW L, NEW K, Stack(L), Stack(K), \A p : Has(K, p) = Has(L, p),
         \A i \in DOMAIN L \cap DOMAIN K : K[i] = L[i]
  PROVE  Overlay(K) = Overlay(L)
<1>1. Paths(K) = Paths(L)
  BY FirstOK
<1>2. \A p : First(K, p) = First(L, p)
  BY DEF First
<1>3. ASSUME NEW p \in Paths(L) PROVE K[First(K, p)] = L[First(L, p)]
  <2>1. First(L, p) \in Has(L, p)
    BY FirstOK
  <2> QED BY <1>2, <2>1 DEF Has
<1>4. ASSUME NEW p \in Paths(L) PROVE Seen(K, p) <=> Seen(L, p)
  <2>1. \A k \in 0 .. Len(p) - 1 : Trunk(p, k) \in Paths(L)
    BY TrunkFirst
  <2>2. \A k \in 0 .. Len(p) - 1 :
           /\ K[First(K, Trunk(p, k))] = L[First(L, Trunk(p, k))]
           /\ First(K, Trunk(p, k)) = First(L, Trunk(p, k))
    BY <1>2, <1>3, <2>1
  <2> QED BY <1>2, <1>3, <2>2 DEF Seen
<1>5. {p \in Paths(K) : Seen(K, p)} = {p \in Paths(L) : Seen(L, p)}
  BY <1>1, <1>4
<1> QED BY <1>1, <1>3, <1>5 DEF Overlay

\* One layer more, at the bottom.
IsAbove(L, K, m) ==
  /\ Stack(L) /\ Stack(K) /\ m \in Nat /\ DOMAIN L = 0 .. m /\ DOMAIN K = 0 .. m + 1
  /\ \A i \in 0 .. m : K[i] = L[i]

\* What the layers above have is where it was; of the new one shows what lies under
\* nothing but objects.
LEMMA Grows ==
  ASSUME NEW L, NEW K, NEW m, IsAbove(L, K, m), K[m + 1] # Null
  PROVE  /\ Paths(K) = Paths(L) \cup DOMAIN K[m + 1]
         /\ \A p \in Paths(L) : First(K, p) = First(L, p) /\ K[First(K, p)] = L[First(L, p)]
                                /\ (Seen(K, p) <=> Seen(L, p))
         /\ \A p \in DOMAIN K[m + 1] \ Paths(L) :
              /\ First(K, p) = m + 1
              /\ Seen(K, p) <=>
                   \A k \in 0 .. Len(p) - 1 :
                     Trunk(p, k) \in Paths(L) =>
                       /\ ObjectAt(L[First(L, Trunk(p, k))], Trunk(p, k))
                       /\ ObjectAt(K[m + 1], Trunk(p, k))
<1> DEFINE v == K[m + 1]
<1>0. /\ Stack(L) /\ Stack(K) /\ m \in Nat /\ DOMAIN L = 0 .. m /\ DOMAIN K = 0 .. m + 1
      /\ \A i \in 0 .. m : K[i] = L[i]
      /\ v # Null /\ IsValue(v)
  BY DEF IsAbove, Stack
<1>1. \A p : Has(K, p) = IF p \in DOMAIN v THEN Has(L, p) \cup {m + 1} ELSE Has(L, p)
  BY <1>0 DEF Has
<1>2. \A p : p \in Paths(L) <=> Has(L, p) # {}
  BY <1>0, FirstOK
<1>3. \A p : p \in Paths(K) <=> p \in Paths(L) \/ p \in DOMAIN v
  <2>1. \A p : p \in Paths(K) <=> Has(K, p) # {}
    BY <1>0, FirstOK
  <2> QED BY <1>1, <1>2, <2>1
<1>4. ASSUME NEW p \in Paths(L)
      PROVE  First(K, p) = First(L, p) /\ K[First(K, p)] = L[First(L, p)]
  <2>1. /\ First(L, p) \in Has(L, p) /\ First(L, p) \in 0 .. m
        /\ \A j \in Has(L, p) : First(L, p) <= j
    BY <1>0, FirstOK
  <2>2. First(K, p) \in Has(K, p) /\ First(K, p) \in Nat /\ \A j \in Has(K, p) : First(K, p) <= j
    BY <1>0, <1>3, FirstOK
  <2>3. First(L, p) \in Has(K, p) /\ (First(K, p) \in Has(L, p) \/ First(K, p) = m + 1)
    BY <1>1, <2>1, <2>2
  <2>4. First(K, p) = First(L, p)
    BY <1>0, <2>1, <2>2, <2>3
  <2> QED BY <1>0, <2>1, <2>4
<1>5. ASSUME NEW p \in DOMAIN v, p \notin Paths(L) PROVE First(K, p) = m + 1
  <2>1. Has(K, p) = {m + 1} /\ p \in Paths(K)
    BY <1>1, <1>2, <1>3, <1>5
  <2> QED BY <1>0, <2>1, FirstOK
<1>6. ASSUME NEW p \in Paths(L) PROVE Seen(K, p) <=> Seen(L, p)
  <2>1. \A k \in 0 .. Len(p) - 1 : Trunk(p, k) \in Paths(L)
    BY <1>0, TrunkFirst
  <2>2. \A k \in 0 .. Len(p) - 1 :
           /\ K[First(K, Trunk(p, k))] = L[First(L, Trunk(p, k))]
           /\ First(K, Trunk(p, k)) = First(L, Trunk(p, k))
    BY <1>4, <2>1
  <2> QED BY <1>4, <2>2 DEF Seen
<1>7. ASSUME NEW p \in DOMAIN v, p \notin Paths(L)
      PROVE  Seen(K, p) <=>
               \A k \in 0 .. Len(p) - 1 :
                 Trunk(p, k) \in Paths(L) =>
                   /\ ObjectAt(L[First(L, Trunk(p, k))], Trunk(p, k))
                   /\ ObjectAt(v, Trunk(p, k))
  <2>1. First(K, p) = m + 1 /\ K[First(K, p)] = v
    BY <1>5, <1>7
  <2>2. \A k \in 0 .. Len(p) - 1 : Trunk(p, k) \in DOMAIN v
    BY <1>0 DEF IsValue
  <2>3. ASSUME NEW k \in 0 .. Len(p) - 1
        PROVE  /\ Trunk(p, k) \in Paths(L) =>
                    /\ K[First(K, Trunk(p, k))] = L[First(L, Trunk(p, k))]
                    /\ First(K, Trunk(p, k)) # m + 1
               /\ Trunk(p, k) \notin Paths(L) => First(K, Trunk(p, k)) = m + 1
    <3>1. CASE Trunk(p, k) \in Paths(L)
      <4>1. First(L, Trunk(p, k)) \in 0 .. m
        BY <1>0, <3>1, FirstOK
      <4> QED BY <1>0, <1>4, <3>1, <4>1
    <3>2. CASE Trunk(p, k) \notin Paths(L)
      BY <1>5, <2>2, <3>2
    <3> QED BY <3>1, <3>2
  <2> HIDE DEF v
  <2> QED BY <2>1, <2>3 DEF Seen
<1> QED BY <1>3, <1>4, <1>5, <1>6, <1>7

\* Values with the same paths and the same labels, up to numbers, are normally the same.
LEMMA SameNormal ==
  ASSUME NEW a, NEW b, a \in [DOMAIN a -> Label], b \in [DOMAIN b -> Label],
         DOMAIN a = DOMAIN b, \A p \in DOMAIN b : Rounded(a[p]) = Rounded(b[p])
  PROVE  Normal(a) = Normal(b)
BY DEF Normal

Kept(base, override) ==
  {p \in DOMAIN base \ DOMAIN override :
     \A k \in 0 .. Len(p) - 1 :
       Trunk(p, k) \in DOMAIN override =>
         ObjectAt(base, Trunk(p, k)) /\ ObjectAt(override, Trunk(p, k))}

\* A merge has what the override has, and what is kept of the base.
LEMMA DeepMergeOK ==
  ASSUME NEW b, NEW o, b \in [DOMAIN b -> Label], o \in [DOMAIN o -> Label]
  PROVE  /\ DeepMerge(b, o) \in [DOMAIN DeepMerge(b, o) -> Label]
         /\ DOMAIN DeepMerge(b, o) = DOMAIN o \cup Kept(b, o)
         /\ \A p \in DOMAIN o : DeepMerge(b, o)[p] = o[p]
         /\ \A p \in Kept(b, o) : DeepMerge(b, o)[p] = b[p] /\ p \in DOMAIN b /\ p \notin DOMAIN o
<1>1. DeepMerge(b, o) = [p \in DOMAIN o \cup Kept(b, o) |-> IF p \in DOMAIN o THEN o[p] ELSE b[p]]
  BY DEF DeepMerge, Kept
<1>2. \A p \in Kept(b, o) : p \in DOMAIN b /\ p \notin DOMAIN o
  BY DEF Kept
<1> QED BY <1>1, <1>2

\* What is kept of a value under an overlay is what shows of it as a layer below.
LEMMA KeptIsSeen ==
  ASSUME NEW L, Stack(L), Paths(L) # {}, NEW w, IsOverlay(w, L), NEW v, IsValue(v)
  PROVE  \A p : p \in Kept(Normal(v), Normal(w)) <=>
                 /\ p \in DOMAIN v /\ p \notin Paths(L)
                 /\ \A k \in 0 .. Len(p) - 1 :
                      Trunk(p, k) \in Paths(L) =>
                        /\ ObjectAt(L[First(L, Trunk(p, k))], Trunk(p, k))
                        /\ ObjectAt(v, Trunk(p, k))
<1> DEFINE over(p) == \A k \in 0 .. Len(p) - 1 :
                        Trunk(p, k) \in DOMAIN w => ObjectAt(v, Trunk(p, k)) /\ ObjectAt(w, Trunk(p, k))
           lies(p) == \A k \in 0 .. Len(p) - 1 :
                        Trunk(p, k) \in Paths(L) =>
                          /\ ObjectAt(L[First(L, Trunk(p, k))], Trunk(p, k))
                          /\ ObjectAt(v, Trunk(p, k))
<1>1. /\ DOMAIN w = {p \in Paths(L) : Seen(L, p)}
      /\ \A p \in DOMAIN w : ObjectAt(w, p) <=> ObjectAt(L[First(L, p)], p)
  BY IsOverlayOK
<1>2. /\ DOMAIN Normal(v) = DOMAIN v /\ DOMAIN Normal(w) = DOMAIN w
      /\ \A p \in DOMAIN v : ObjectAt(Normal(v), p) <=> ObjectAt(v, p)
      /\ \A p \in DOMAIN w : ObjectAt(Normal(w), p) <=> ObjectAt(w, p)
  BY NormalOK DEF IsOverlay, IsValue
<1>3. \A p \in DOMAIN v : \A k \in 0 .. Len(p) - 1 : Trunk(p, k) \in DOMAIN v
  BY DEF IsValue
<1>4. \A p : p \in Kept(Normal(v), Normal(w)) <=> p \in DOMAIN v /\ p \notin DOMAIN w /\ over(p)
  BY <1>2, <1>3 DEF Kept
<1>5. ASSUME NEW p \in DOMAIN v, over(p), p \notin DOMAIN w PROVE p \notin Paths(L)
  <2>1. \A k \in 0 .. Len(p) - 1 :
          Trunk(p, k) \in Paths(L) /\ Seen(L, Trunk(p, k)) =>
             /\ ObjectAt(L[First(L, Trunk(p, k))], Trunk(p, k))
             /\ ObjectAt(v, Trunk(p, k))
    BY <1>1, <1>5
  <2>2. p \in Paths(L) => Seen(L, p)
    BY <2>1, Absorbed
  <2> QED BY <1>1, <1>5, <2>2
<1>6. ASSUME NEW p \in DOMAIN v, over(p), p \notin DOMAIN w PROVE lies(p)
  <2> SUFFICES ASSUME NEW k \in 0 .. Len(p) - 1, Trunk(p, k) \in Paths(L)
               PROVE  /\ ObjectAt(L[First(L, Trunk(p, k))], Trunk(p, k))
                      /\ ObjectAt(v, Trunk(p, k))
    OBVIOUS
  <2> DEFINE r == Trunk(p, k)
  <2>0. p \in Seq(Step) /\ Len(p) \in Nat /\ k \in 0 .. Len(p) /\ r \in DOMAIN v
    BY <1>3 DEF IsValue
  <2>1. Len(r) = k /\ \A j \in 0 .. k : Trunk(r, j) = Trunk(p, j)
    BY <2>0, TrunkOK
  <2>2. \A j \in 0 .. Len(r) - 1 :
          Trunk(r, j) \in Paths(L) /\ Seen(L, Trunk(r, j)) =>
             /\ ObjectAt(L[First(L, Trunk(r, j))], Trunk(r, j))
             /\ ObjectAt(v, Trunk(r, j))
    <3> SUFFICES ASSUME NEW j \in 0 .. Len(r) - 1, Trunk(r, j) \in Paths(L), Seen(L, Trunk(r, j))
                 PROVE  /\ ObjectAt(L[First(L, Trunk(r, j))], Trunk(r, j))
                        /\ ObjectAt(v, Trunk(r, j))
      OBVIOUS
    <3>1. j \in 0 .. Len(p) - 1 /\ Trunk(r, j) = Trunk(p, j)
      BY <2>0, <2>1
    <3> QED BY <1>1, <1>6, <3>1
  <2>3. Seen(L, r)
    BY <2>0, <2>2, Absorbed
  <2> QED BY <1>1, <1>6, <2>3
<1>7. ASSUME NEW p \in DOMAIN v, p \notin Paths(L), lies(p) PROVE over(p) /\ p \notin DOMAIN w
  BY <1>1, <1>7
<1> HIDE DEF over, lies
<1>8. \A p : p \in Kept(Normal(v), Normal(w)) <=> p \in DOMAIN v /\ p \notin Paths(L) /\ lies(p)
  BY <1>4, <1>5, <1>6, <1>7
<1> QED BY <1>8 DEF lies

\* Merging a value under an overlay makes it the next layer.
LEMMA LayerUnder ==
  ASSUME NEW L, NEW K, NEW m, IsAbove(L, K, m), NEW w, IsOverlay(w, L)
  PROVE  IsOverlay(MergePayloads(K[m + 1], w), K)
<1> DEFINE v == K[m + 1]
           M == MergePayloads(v, w)
           T == Overlay(K)
           lies(p) == \A k \in 0 .. Len(p) - 1 :
                        Trunk(p, k) \in Paths(L) =>
                          /\ ObjectAt(L[First(L, Trunk(p, k))], Trunk(p, k))
                          /\ ObjectAt(v, Trunk(p, k))
<1>1. /\ Stack(L) /\ Stack(K) /\ m \in Nat /\ DOMAIN L = 0 .. m /\ DOMAIN K = 0 .. m + 1
      /\ \A i \in 0 .. m : K[i] = L[i]
      /\ IsValue(v) /\ v \in [DOMAIN v -> Label] /\ DOMAIN v \subseteq Seq(Step) /\ <<>> \in DOMAIN v
  BY DEF IsAbove, Stack, IsValue
<1>2. w \in [DOMAIN w -> Label] /\ Normal(w) = Normal(Overlay(L))
  BY DEF IsOverlay
<1>3. CASE v = Null
  <2>1. \A p : Has(K, p) = Has(L, p)
    BY <1>1, <1>3 DEF Has
  <2>2. Overlay(K) = Overlay(L)
    BY <1>1, <2>1, SameOverlay
  <2>3. M = w
    BY <1>3 DEF MergePayloads
  <2> QED BY <1>2, <2>2, <2>3 DEF IsOverlay
<1>4. CASE v # Null
  <2>1. /\ Paths(K) = Paths(L) \cup DOMAIN v
        /\ \A p \in Paths(L) : First(K, p) = First(L, p) /\ K[First(K, p)] = L[First(L, p)]
                               /\ (Seen(K, p) <=> Seen(L, p))
        /\ \A p \in DOMAIN v \ Paths(L) : First(K, p) = m + 1 /\ (Seen(K, p) <=> lies(p))
    BY <1>4, Grows
  <2>2. /\ DOMAIN T = {p \in Paths(K) : Seen(K, p)}
        /\ \A p \in DOMAIN T : T[p] = K[First(K, p)][p]
        /\ T \in [DOMAIN T -> Label]
    <3>1. Paths(K) # {}
      BY <1>1, <2>1
    <3> QED BY <1>1, <3>1, OverlayOK
  <2> HIDE DEF M, T, lies
  <2>3. DOMAIN T = {p \in Paths(L) : Seen(L, p)} \cup {p \in DOMAIN v \ Paths(L) : lies(p)}
    BY <2>1, <2>2
  <2>4. /\ \A p \in DOMAIN T \cap Paths(L) : T[p] = L[First(L, p)][p]
        /\ \A p \in DOMAIN T \ Paths(L) : T[p] = v[p]
    BY <2>1, <2>2
  <2>5. SUFFICES ASSUME TRUE
                 PROVE  /\ M \in [DOMAIN M -> Label] /\ DOMAIN M = DOMAIN T
                        /\ \A p \in DOMAIN T : Rounded(M[p]) = Rounded(T[p])
    <3>1. M \in [DOMAIN M -> Label] /\ DOMAIN M = DOMAIN T
            /\ (\A p \in DOMAIN T : Rounded(M[p]) = Rounded(T[p])) => Normal(M) = Normal(T)
      BY <2>2, SameNormal
    <3> QED BY <3>1 DEF IsOverlay, M, T
  <2>6. CASE w = Null
    <3>1. Paths(L) = {} /\ M = v
      BY <1>1, <1>4, <2>6, NothingThere DEF M, MergePayloads
    <3>2. \A p : lies(p)
      BY <3>1 DEF lies
    <3> QED BY <1>1, <2>3, <2>4, <3>1, <3>2
  <2>7. CASE w # Null
    <3>1. Paths(L) # {}
      BY <1>1, <2>7, NothingThere
    <3>2. /\ DOMAIN w = {p \in Paths(L) : Seen(L, p)} /\ <<>> \in DOMAIN w
          /\ \A p \in DOMAIN w : /\ Rounded(w[p]) = Rounded(L[First(L, p)][p])
                                 /\ ObjectAt(w, p) <=> ObjectAt(L[First(L, p)], p)
      BY <1>1, <3>1, IsOverlayOK
    <3>3. CASE ~IsObject(v) \/ ~IsObject(w)
      <4>1. M = w
        BY <1>4, <2>7, <3>3 DEF M, MergePayloads
      <4>2. ASSUME NEW p \in DOMAIN v, p \notin Paths(L) PROVE ~lies(p)
        <5>1. p \in Seq(Step) /\ p # <<>>
          BY <1>1, <3>2, <4>2
        <5>2. 0 \in 0 .. Len(p) - 1 /\ Trunk(p, 0) = <<>>
          BY <5>1, TrunkOK
        <5> QED BY <3>2, <3>3, <5>2 DEF lies, IsObject
      <4>3. DOMAIN T = DOMAIN w
        BY <2>3, <3>2, <4>2
      <4> QED BY <1>2, <2>4, <3>2, <4>1, <4>3
    <3>4. CASE IsObject(v) /\ IsObject(w)
      <4>1. M = DeepMerge(Normal(v), Normal(w))
        BY <1>4, <2>7, <3>4 DEF M, MergePayloads
      <4>2. Kept(Normal(v), Normal(w)) = {p \in DOMAIN v \ Paths(L) : lies(p)}
        <5>1. Stack(L) /\ IsValue(v)
          BY <1>1
        <5>2. \A p : p \in Kept(Normal(v), Normal(w)) <=> p \in DOMAIN v /\ p \notin Paths(L) /\ lies(p)
          BY <5>1, <3>1, KeptIsSeen DEF lies
        <5> QED BY <5>2
      <4>3. /\ Normal(v) \in [DOMAIN v -> Label] /\ DOMAIN Normal(v) = DOMAIN v
            /\ Normal(w) \in [DOMAIN w -> Label] /\ DOMAIN Normal(w) = DOMAIN w
            /\ \A p \in DOMAIN v : Normal(v)[p] = Rounded(v[p]) /\ Rounded(Rounded(v[p])) = Rounded(v[p])
            /\ \A p \in DOMAIN w : Normal(w)[p] = Rounded(w[p]) /\ Rounded(Rounded(w[p])) = Rounded(w[p])
        BY <1>1, <1>2, NormalOK, LabelOK
      <4>4. /\ M \in [DOMAIN M -> Label]
            /\ DOMAIN M = DOMAIN w \cup Kept(Normal(v), Normal(w))
            /\ \A p \in DOMAIN w : M[p] = Normal(w)[p]
            /\ \A p \in Kept(Normal(v), Normal(w)) : M[p] = Normal(v)[p]
        <5> DEFINE b == Normal(v)
                   o == Normal(w)
        <5>1. b \in [DOMAIN b -> Label] /\ o \in [DOMAIN o -> Label] /\ DOMAIN o = DOMAIN w
          BY <4>3
        <5> HIDE DEF b, o
        <5>2. /\ DeepMerge(b, o) \in [DOMAIN DeepMerge(b, o) -> Label]
              /\ DOMAIN DeepMerge(b, o) = DOMAIN o \cup Kept(b, o)
              /\ \A p \in DOMAIN o : DeepMerge(b, o)[p] = o[p]
              /\ \A p \in Kept(b, o) : DeepMerge(b, o)[p] = b[p]
          BY <5>1, DeepMergeOK
        <5> QED BY <4>1, <5>1, <5>2 DEF b, o
      <4>5. DOMAIN M = DOMAIN T
        BY <2>3, <3>2, <4>2, <4>4
      <4>6. ASSUME NEW p \in DOMAIN T PROVE Rounded(M[p]) = Rounded(T[p])
        <5>1. CASE p \in Paths(L)
          BY <2>3, <2>4, <3>2, <4>3, <4>4, <4>6, <5>1
        <5>2. CASE p \notin Paths(L)
          BY <2>3, <2>4, <4>2, <4>3, <4>4, <4>6, <5>2
        <5> QED BY <5>1, <5>2
      <4> QED BY <4>4, <4>5, <4>6
    <3> QED BY <3>3, <3>4
  <2> QED BY <2>6, <2>7
<1> QED BY <1>3, <1>4

\* Merging a layer again changes nothing.
LEMMA LayerAgain ==
  ASSUME NEW L, Stack(L), NEW i \in DOMAIN L, NEW w, IsOverlay(w, L), Normal(w) = w
  PROVE  MergePayloads(L[i], w) = w
<1> DEFINE v == L[i]
<1>1. IsValue(v) /\ v \in [DOMAIN v -> Label] /\ w \in [DOMAIN w -> Label]
  BY DEF Stack, IsOverlay, IsValue
<1>2. CASE v = Null \/ ~IsObject(v) \/ ~IsObject(w)
  <2>1. ASSUME v # Null PROVE w # Null
    <3>1. DOMAIN v # {} /\ DOMAIN v \subseteq Paths(L)
      BY <1>1, <2>1 DEF Paths, IsValue
    <3>2. Paths(L) # {}
      BY <3>1
    <3> QED BY <3>2, NothingThere
  <2> QED BY <1>2, <2>1 DEF MergePayloads
<1>3. CASE v # Null /\ IsObject(v) /\ IsObject(w)
  <2>1. \A p \in DOMAIN v : p \in Paths(L)
    BY <1>3 DEF Paths
  <2>2. Paths(L) # {}
    BY <1>1, <2>1 DEF IsValue
  <2>3. Kept(Normal(v), Normal(w)) = {}
    BY <1>1, <2>1, <2>2, KeptIsSeen
  <2>4. w # Null
    BY <2>2, NothingThere
  <2>5. MergePayloads(v, w) = DeepMerge(Normal(v), Normal(w))
    BY <1>3, <2>4 DEF MergePayloads
  <2> DEFINE b == Normal(v)
  <2>6. b \in [DOMAIN b -> Label]
    BY <1>1, NormalOK
  <2> HIDE DEF b
  <2>7. /\ DOMAIN DeepMerge(b, w) = DOMAIN w \cup Kept(b, w)
        /\ \A p \in DOMAIN w : DeepMerge(b, w)[p] = w[p]
        /\ DeepMerge(b, w) \in [DOMAIN DeepMerge(b, w) -> Label]
    BY <1>1, <2>6, DeepMergeOK
  <2>8. Kept(b, w) = {} /\ MergePayloads(v, w) = DeepMerge(b, w)
    BY <2>3, <2>5 DEF b
  <2>9. DeepMerge(b, w) = w
    BY <1>1, <2>7, <2>8
  <2> QED BY <2>8, <2>9
<1> QED BY <1>2, <1>3

-----------------------------------------------------------------------------
(* The merge of values by their paths, against deepMergeMaps key by key.   *)

After(s, q) == <<s>> \o q

\* A path below a step has the trunks of the path, below the step.
LEMMA AfterOK ==
  ASSUME NEW s \in Step, NEW q \in Seq(Step)
  PROVE  /\ After(s, q) \in Seq(Step) /\ Len(After(s, q)) = Len(q) + 1 /\ Len(q) \in Nat
         /\ Trunk(After(s, q), 0) = <<>> /\ Trunk(q, 0) = <<>> /\ Trunk(q, Len(q)) = q
         /\ \A k \in 0 .. Len(q) :
              Trunk(After(s, q), k + 1) = After(s, Trunk(q, k)) /\ Trunk(q, k) \in Seq(Step)
         /\ After(s, <<>>) = <<s>> /\ <<>> \in Seq(Step)
         /\ Trunk(After(s, q), 1) = <<s>>
<1> DEFINE p == <<s>> \o q
<1>1. p \in Seq(Step) /\ Len(p) = Len(q) + 1 /\ Len(q) \in Nat
  OBVIOUS
<1>2. \A i \in 1 .. Len(p) : p[i] = IF i = 1 THEN s ELSE q[i - 1]
  OBVIOUS
<1> HIDE DEF p
<1>3. ASSUME NEW k \in 0 .. Len(q) PROVE Trunk(p, k + 1) = <<s>> \o Trunk(q, k)
  <2>1. Trunk(q, k) = [i \in 1 .. k |-> q[i]] /\ Trunk(q, k) \in Seq(Step) /\ Len(Trunk(q, k)) = k
    BY <1>1, TrunkOK DEF Trunk
  <2>2. Trunk(p, k + 1) = [i \in 1 .. k + 1 |-> p[i]]
    BY <1>1 DEF Trunk
  <2>3. <<s>> \o Trunk(q, k) = [i \in 1 .. k + 1 |-> IF i = 1 THEN s ELSE Trunk(q, k)[i - 1]]
    BY <2>1
  <2>4. \A i \in 1 .. k + 1 : p[i] = IF i = 1 THEN s ELSE Trunk(q, k)[i - 1]
    BY <1>1, <1>2, <2>1
  <2> QED BY <2>2, <2>3, <2>4
<1>4. Trunk(p, 0) = <<>> /\ Trunk(q, 0) = <<>> /\ Trunk(q, Len(q)) = q
  <2>1. 0 \in 0 .. Len(p) /\ 0 \in 0 .. Len(q)
    BY <1>1
  <2> QED BY <1>1, <2>1, TrunkOK
<1>5. \A k \in 0 .. Len(q) : Trunk(q, k) \in Seq(Step)
  BY TrunkOK
<1>6. <<s>> \o <<>> = <<s>> /\ <<>> \in Seq(Step)
  OBVIOUS
<1>7. Trunk(p, 1) = <<s>>
  <2>1. 0 \in 0 .. Len(q) /\ 0 + 1 = 1
    BY <1>1
  <2> QED BY <1>3, <1>4, <1>6, <2>1
<1>8. p = After(s, q)
  BY DEF After, p
<1> QED BY <1>1, <1>3, <1>4, <1>5, <1>6, <1>7, <1>8 DEF After

\* What is below a step of a value.
LEMMA SubOK ==
  ASSUME NEW v, DOMAIN v \subseteq Seq(Step), NEW s \in Step
  PROVE  Sub(v, <<s>>) = [q \in {q \in Seq(Step) : After(s, q) \in DOMAIN v} |-> v[After(s, q)]]
<1> DEFINE under == {p \in DOMAIN v : Len(p) >= 1 /\ Trunk(p, 1) = <<s>>}
           rests == {SubSeq(p, 2, Len(p)) : p \in under}
           below == {q \in Seq(Step) : After(s, q) \in DOMAIN v}
<1>1. Sub(v, <<s>>) = [q \in rests |-> v[After(s, q)]]
  BY DEF Sub, After
<1>2. ASSUME NEW p \in under PROVE SubSeq(p, 2, Len(p)) \in below
  <2> DEFINE q == SubSeq(p, 2, Len(p))
  <2>1. p \in Seq(Step) /\ Len(p) \in Nat /\ Len(p) >= 1
    OBVIOUS
  <2>2. p[1] = s
    <3>1. Trunk(p, 1)[1] = p[1]
      BY <2>1, TrunkOK
    <3> QED BY <3>1
  <2>3. q \in Seq(Step) /\ Len(q) = Len(p) - 1 /\ \A i \in 1 .. Len(q) : q[i] = p[i + 1]
    BY <2>1
  <2> HIDE DEF q
  <2>4. After(s, q) = p
    BY <2>1, <2>2, <2>3 DEF After
  <2> QED BY <2>3, <2>4 DEF q
<1>3. ASSUME NEW q \in below PROVE q \in rests
  <2> DEFINE p == After(s, q)
  <2>1. /\ p \in DOMAIN v /\ p \in Seq(Step) /\ Len(p) = Len(q) + 1 /\ Len(q) \in Nat
        /\ Trunk(p, 1) = <<s>>
    BY AfterOK
  <2>2. p \in under
    BY <2>1
  <2>3. \A i \in 1 .. Len(q) : p[i + 1] = q[i]
    BY DEF After
  <2> HIDE DEF p
  <2>4. SubSeq(p, 2, Len(p)) = q
    BY <2>1, <2>3
  <2> QED BY <2>2, <2>4
<1>4. rests = below
  BY <1>2, <1>3
<1> QED BY <1>1, <1>4

\* The merge of two objects is deepMergeMaps': a key of one of them keeps its value, a
\* key of both has the merge of its values if these are objects, or the override's.
THEOREM DeepMergeRecurs ==
  ASSUME NEW base, NEW override, IsValue(base), IsValue(override),
         IsObject(base), IsObject(override), NEW s \in Step
  PROVE  LET merge == DeepMerge(base, override)
             b == Sub(base, <<s>>)
             o == Sub(override, <<s>>)
         IN /\ IsObject(merge) /\ DOMAIN merge \subseteq Seq(Step)
            /\ Sub(merge, <<s>>) = IF <<s>> \notin DOMAIN override THEN b
                                   ELSE IF <<s>> \notin DOMAIN base THEN o
                                   ELSE IF IsObject(b) /\ IsObject(o) THEN DeepMerge(b, o)
                                   ELSE o
<1> DEFINE m == DeepMerge(base, override)
           b == Sub(base, <<s>>)
           o == Sub(override, <<s>>)
           at(q) == After(s, q)
           Stays(v, w, p) == p \in DOMAIN v \ DOMAIN w /\ \A k \in 0 .. Len(p) - 1 :
             Trunk(p, k) \in DOMAIN w => ObjectAt(v, Trunk(p, k)) /\ ObjectAt(w, Trunk(p, k))
<1>1. ASSUME NEW v, NEW w
      PROVE  DeepMerge(v, w) = [p \in DOMAIN w \cup {p \in DOMAIN v \ DOMAIN w : Stays(v, w, p)} |->
                                  IF p \in DOMAIN w THEN w[p] ELSE v[p]]
  BY DEF DeepMerge
<1>2. /\ DOMAIN base \subseteq Seq(Step) /\ DOMAIN override \subseteq Seq(Step)
      /\ <<>> \in DOMAIN base /\ <<>> \in DOMAIN override
      /\ ObjectAt(base, <<>>) /\ ObjectAt(override, <<>>)
  BY DEF IsValue, IsObject
<1>3. DOMAIN m \subseteq Seq(Step) /\ IsObject(m)
  BY <1>1, <1>2 DEF IsObject, ObjectAt
<1>4. /\ \A q : q \in DOMAIN b <=> q \in Seq(Step) /\ at(q) \in DOMAIN base
      /\ \A q : q \in DOMAIN o <=> q \in Seq(Step) /\ at(q) \in DOMAIN override
      /\ \A q : q \in DOMAIN Sub(m, <<s>>) <=> q \in Seq(Step) /\ at(q) \in DOMAIN m
      /\ \A q \in DOMAIN b : b[q] = base[at(q)]
      /\ \A q \in DOMAIN o : o[q] = override[at(q)]
      /\ \A q \in DOMAIN Sub(m, <<s>>) : Sub(m, <<s>>)[q] = m[at(q)]
      /\ b = [q \in DOMAIN b |-> b[q]] /\ o = [q \in DOMAIN o |-> o[q]]
      /\ Sub(m, <<s>>) = [q \in DOMAIN Sub(m, <<s>>) |-> Sub(m, <<s>>)[q]]
  <2>1. ASSUME NEW v, DOMAIN v \subseteq Seq(Step)
        PROVE  /\ \A q : q \in DOMAIN Sub(v, <<s>>) <=> q \in Seq(Step) /\ at(q) \in DOMAIN v
               /\ \A q \in DOMAIN Sub(v, <<s>>) : Sub(v, <<s>>)[q] = v[at(q)]
               /\ Sub(v, <<s>>) = [q \in DOMAIN Sub(v, <<s>>) |-> Sub(v, <<s>>)[q]]
    <3>1. Sub(v, <<s>>) = [q \in {q \in Seq(Step) : at(q) \in DOMAIN v} |-> v[at(q)]]
      BY <2>1, SubOK
    <3> HIDE DEF at
    <3> QED BY <3>1
  <2> HIDE DEF at, m
  <2> QED BY <1>2, <1>3, <2>1 DEF b, o
<1>5. \A q \in Seq(Step) :
        /\ at(q) \in Seq(Step) /\ Len(at(q)) = Len(q) + 1 /\ Len(q) \in Nat
        /\ Trunk(at(q), 0) = <<>> /\ Trunk(q, Len(q)) = q
        /\ \A k \in 0 .. Len(q) : Trunk(at(q), k + 1) = at(Trunk(q, k)) /\ Trunk(q, k) \in Seq(Step)
        /\ Trunk(at(q), 1) = <<s>>
  BY AfterOK
<1>6. at(<<>>) = <<s>> /\ <<>> \in Seq(Step)
  BY DEF After
<1>7. \A q : at(q) \in DOMAIN m => at(q) \in DOMAIN override \/ Stays(base, override, at(q))
  BY <1>1
<1>8. \A q : at(q) \in DOMAIN override \/ Stays(base, override, at(q)) =>
        at(q) \in DOMAIN m /\ m[at(q)] = IF at(q) \in DOMAIN override THEN override[at(q)] ELSE base[at(q)]
  BY <1>1
<1> HIDE DEF m, b, o, at
<1>9. ASSUME NEW v, IsValue(v), <<s>> \notin DOMAIN v
      PROVE  \A q \in Seq(Step) : at(q) \notin DOMAIN v
  <2> TAKE q \in Seq(Step)
  <2>1. Trunk(at(q), 1) = <<s>> /\ Len(at(q)) = Len(q) + 1 /\ Len(q) \in Nat
    BY <1>5
  <2>2. CASE Len(q) = 0
    <3>1. q = <<>>
      BY <2>2
    <3> QED BY <1>6, <1>9, <3>1
  <2>3. CASE Len(q) # 0
    <3>1. 1 \in 0 .. Len(at(q)) - 1
      BY <2>1, <2>3
    <3> QED BY <1>9, <2>1, <3>1 DEF IsValue
  <2> QED BY <2>2, <2>3
<1>10. CASE <<s>> \notin DOMAIN override
  <2>1. ASSUME NEW q \in DOMAIN b PROVE Stays(base, override, at(q)) /\ at(q) \notin DOMAIN override
    <3>1. q \in Seq(Step) /\ at(q) \in DOMAIN base /\ at(q) \notin DOMAIN override
      BY <1>4, <1>9, <1>10
    <3>2. ASSUME NEW k \in 0 .. Len(at(q)) - 1, Trunk(at(q), k) \in DOMAIN override
          PROVE  ObjectAt(base, Trunk(at(q), k)) /\ ObjectAt(override, Trunk(at(q), k))
      <4>1. CASE k = 0
        BY <1>2, <1>5, <3>1, <4>1
      <4>2. CASE k # 0
        <5>1. PICK j \in 0 .. Len(q) : k = j + 1
          <6>1. k - 1 \in 0 .. Len(q) /\ k = (k - 1) + 1
            BY <1>5, <3>1, <4>2
          <6> QED BY <6>1
        <5>2. Trunk(at(q), k) = at(Trunk(q, j)) /\ Trunk(q, j) \in Seq(Step)
          BY <1>5, <3>1, <5>1
        <5> QED BY <1>9, <1>10, <3>2, <5>2
      <4> QED BY <4>1, <4>2
    <3> QED BY <3>1, <3>2
  <2>2. DOMAIN Sub(m, <<s>>) = DOMAIN b
    BY <1>4, <1>7, <1>8, <1>9, <1>10, <2>1
  <2>3. \A q \in DOMAIN b : Sub(m, <<s>>)[q] = b[q]
    BY <1>4, <1>8, <2>1, <2>2
  <2>4. Sub(m, <<s>>) = b
    BY <1>4, <2>2, <2>3
  <2> QED BY <1>3, <1>10, <2>4 DEF m, b, o
<1>11. ASSUME \A q \in Seq(Step) : ~Stays(base, override, at(q))
       PROVE  Sub(m, <<s>>) = o
  <2>1. DOMAIN Sub(m, <<s>>) = DOMAIN o
    BY <1>4, <1>7, <1>8, <1>11
  <2>2. \A q \in DOMAIN o : Sub(m, <<s>>)[q] = o[q]
    BY <1>4, <1>8, <2>1
  <2> QED BY <1>4, <2>1, <2>2
<1>12. CASE <<s>> \in DOMAIN override /\ <<s>> \notin DOMAIN base
  <2>1. \A q \in Seq(Step) : ~Stays(base, override, at(q))
    BY <1>9, <1>12
  <2> QED BY <1>3, <1>11, <1>12, <2>1 DEF m, b, o
<1>13. CASE <<s>> \in DOMAIN override /\ <<s>> \in DOMAIN base /\ ~(IsObject(b) /\ IsObject(o))
  <2>1. /\ <<>> \in DOMAIN b /\ <<>> \in DOMAIN o
        /\ ~(ObjectAt(base, <<s>>) /\ ObjectAt(override, <<s>>))
    <3>1. <<>> \in DOMAIN b /\ <<>> \in DOMAIN o
      BY <1>4, <1>6, <1>13
    <3>2. b[<<>>] = base[<<s>>] /\ o[<<>>] = override[<<s>>]
      BY <1>4, <1>6, <3>1
    <3> QED BY <1>13, <3>1, <3>2 DEF IsObject, ObjectAt
  <2>2. ASSUME NEW q \in Seq(Step), Stays(base, override, at(q)) PROVE FALSE
    <3>1. q # <<>>
      BY <1>6, <1>13, <2>2
    <3>2. Len(q) # 0
      BY <3>1
    <3>3. Len(at(q)) = Len(q) + 1 /\ Len(q) \in Nat /\ Trunk(at(q), 1) = <<s>>
      BY <1>5
    <3>4. 1 \in 0 .. Len(at(q)) - 1 /\ Trunk(at(q), 1) = <<s>>
      BY <3>2, <3>3
    <3> QED BY <1>13, <2>1, <2>2, <3>4
  <2> QED BY <1>3, <1>11, <1>13, <2>2 DEF m, b, o
<1>14. CASE <<s>> \in DOMAIN override /\ <<s>> \in DOMAIN base /\ IsObject(b) /\ IsObject(o)
  <2>1. /\ <<>> \in DOMAIN b /\ <<>> \in DOMAIN o
        /\ ObjectAt(base, <<s>>) /\ ObjectAt(override, <<s>>)
    <3>1. <<>> \in DOMAIN b /\ <<>> \in DOMAIN o
      BY <1>4, <1>6, <1>14
    <3>2. b[<<>>] = base[<<s>>] /\ o[<<>>] = override[<<s>>]
      BY <1>4, <1>6, <3>1
    <3> QED BY <1>14, <3>1, <3>2 DEF IsObject, ObjectAt
  <2>2. \A t \in Seq(Step) : at(t) \in DOMAIN override =>
          /\ t \in DOMAIN o /\ (ObjectAt(o, t) <=> ObjectAt(override, at(t)))
    BY <1>4 DEF ObjectAt
  <2>3. \A t \in Seq(Step) : t \in DOMAIN b => (ObjectAt(b, t) <=> ObjectAt(base, at(t)))
    BY <1>4 DEF ObjectAt
  <2>4. \A t \in DOMAIN b : \A k \in 0 .. Len(t) : Trunk(t, k) \in DOMAIN b
    <3> SUFFICES ASSUME NEW t \in DOMAIN b, NEW k \in 0 .. Len(t) PROVE Trunk(t, k) \in DOMAIN b
      OBVIOUS
    <3>1. t \in Seq(Step) /\ at(t) \in DOMAIN base /\ Len(at(t)) = Len(t) + 1 /\ Len(t) \in Nat
          /\ Trunk(at(t), k + 1) = at(Trunk(t, k)) /\ Trunk(t, k) \in Seq(Step)
      BY <1>4, <1>5
    <3>2. CASE k = Len(t)
      BY <3>1, <3>2, TrunkOK
    <3>3. CASE k # Len(t)
      <4>1. k + 1 \in 0 .. Len(at(t)) - 1
        BY <3>1, <3>3
      <4> QED BY <1>4, <3>1, <4>1 DEF IsValue
    <3> QED BY <3>2, <3>3
  <2>5. ASSUME NEW q \in Seq(Step) PROVE Stays(b, o, q) <=> Stays(base, override, at(q))
    <3>1. q \in DOMAIN b \ DOMAIN o <=> at(q) \in DOMAIN base \ DOMAIN override
      BY <1>4
    <3>2. ASSUME q \in DOMAIN b \ DOMAIN o, Stays(b, o, q), NEW k \in 0 .. Len(at(q)) - 1,
                 Trunk(at(q), k) \in DOMAIN override
          PROVE  ObjectAt(base, Trunk(at(q), k)) /\ ObjectAt(override, Trunk(at(q), k))
      <4>1. CASE k = 0
        BY <1>2, <1>5, <4>1
      <4>2. CASE k # 0
        <5>1. PICK j \in 0 .. Len(q) - 1 : k = j + 1 /\ j \in 0 .. Len(q)
          <6>1. Len(at(q)) = Len(q) + 1 /\ Len(q) \in Nat
            BY <1>5
          <6>2. k - 1 \in 0 .. Len(q) - 1 /\ k = (k - 1) + 1 /\ k - 1 \in 0 .. Len(q)
            BY <4>2, <6>1
          <6> QED BY <6>2
        <5>2. Trunk(at(q), k) = at(Trunk(q, j)) /\ Trunk(q, j) \in Seq(Step)
          BY <1>5, <5>1
        <5>3. Trunk(q, j) \in DOMAIN o /\ Trunk(q, j) \in DOMAIN b
          BY <1>4, <2>4, <3>2, <5>1, <5>2
        <5> QED BY <2>2, <2>3, <3>2, <5>1, <5>2, <5>3
      <4> QED BY <4>1, <4>2
    <3>3. ASSUME q \in DOMAIN b \ DOMAIN o, Stays(base, override, at(q)), NEW k \in 0 .. Len(q) - 1,
                 Trunk(q, k) \in DOMAIN o
          PROVE  ObjectAt(b, Trunk(q, k)) /\ ObjectAt(o, Trunk(q, k))
      <4>1. k + 1 \in 0 .. Len(at(q)) - 1 /\ k \in 0 .. Len(q)
        <5>1. Len(at(q)) = Len(q) + 1 /\ Len(q) \in Nat
          BY <1>5
        <5> QED BY <5>1
      <4>2. Trunk(at(q), k + 1) = at(Trunk(q, k)) /\ Trunk(q, k) \in Seq(Step)
        BY <1>5, <4>1
      <4>3. at(Trunk(q, k)) \in DOMAIN override /\ Trunk(q, k) \in DOMAIN b
        BY <1>4, <2>4, <3>3, <4>1
      <4> QED BY <2>2, <2>3, <3>3, <4>1, <4>2, <4>3
    <3> QED BY <3>1, <3>2, <3>3
  <2> HIDE DEF Stays
  <2>6. \A q : q \in DOMAIN DeepMerge(b, o) <=> q \in DOMAIN o \/ (q \in DOMAIN b \ DOMAIN o /\ Stays(b, o, q))
    BY <1>1
  <2>7. \A q : Stays(base, override, at(q)) => at(q) \in DOMAIN base \ DOMAIN override
    BY DEF Stays
  <2>8. DOMAIN Sub(m, <<s>>) = DOMAIN DeepMerge(b, o)
    BY <1>4, <1>7, <1>8, <2>5, <2>6, <2>7
  <2>9. \A q \in DOMAIN DeepMerge(b, o) : Sub(m, <<s>>)[q] = DeepMerge(b, o)[q]
    <3> SUFFICES ASSUME NEW q \in DOMAIN DeepMerge(b, o) PROVE Sub(m, <<s>>)[q] = DeepMerge(b, o)[q]
      OBVIOUS
    <3>1. DeepMerge(b, o)[q] = IF q \in DOMAIN o THEN o[q] ELSE b[q]
      BY <1>1
    <3>2. q \in Seq(Step) /\ Sub(m, <<s>>)[q] = m[at(q)]
      BY <1>4, <2>6, <2>8
    <3> QED BY <1>4, <1>8, <2>5, <2>6, <3>1, <3>2
  <2>10. DeepMerge(b, o) = [q \in DOMAIN DeepMerge(b, o) |-> DeepMerge(b, o)[q]]
    BY <1>1
  <2>11. Sub(m, <<s>>) = DeepMerge(b, o)
    BY <1>4, <2>8, <2>9, <2>10
  <2> QED BY <1>3, <1>14, <2>11 DEF m, b, o
<1> QED BY <1>10, <1>12, <1>13, <1>14

-----------------------------------------------------------------------------
(* The merge of a result.                                                  *)

\* The layers are values, and one more of them goes below those there are.
LEMMA LayersOK ==
  ASSUME NEW c \in Cases, NEW m \in 0 .. 2 * Len(c.dependencies)
  PROVE  /\ Len(c.dependencies) \in Nat
         /\ Stack(Layers(c, m)) /\ DOMAIN Layers(c, m) = 0 .. m
         /\ m # 2 * Len(c.dependencies) => IsAbove(Layers(c, m), Layers(c, m + 1), m)
<1> DEFINE n == Len(c.dependencies)
<1>1. n \in Nat /\ IsValue(c.result) /\ \A i \in 1 .. n : IsValue(c.upstream[c.dependencies[i]])
  BY RoutingAssumption
<1>2. \A i \in 1 .. n : \A deps : IsValue(Known(c, i, deps))
  BY <1>1, NullOK DEF Known
<1> HIDE DEF n
<1>3. ASSUME NEW k \in 0 .. 2 * n
      PROVE  /\ DOMAIN Layers(c, k) = 0 .. k
             /\ \A i \in 0 .. k : /\ IsValue(Layers(c, k)[i])
                                  /\ Layers(c, k)[i] = IF i = 0 THEN c.result
                                                       ELSE IF i > n THEN Known(c, i - n, c.here)
                                                       ELSE IF IsLocal(c) THEN Null
                                                       ELSE Known(c, i, c.there)
  <2>1. Layers(c, k) = [i \in 0 .. k |-> IF i = 0 THEN c.result
                                         ELSE IF i > n THEN Known(c, i - n, c.here)
                                         ELSE IF IsLocal(c) THEN Null
                                         ELSE Known(c, i, c.there)]
    BY DEF Layers, n
  <2>2. ASSUME NEW i \in 0 .. k
        PROVE  IsValue(IF i = 0 THEN c.result ELSE IF i > n THEN Known(c, i - n, c.here)
                       ELSE IF IsLocal(c) THEN Null ELSE Known(c, i, c.there))
    BY <1>1, <1>2, NullOK
  <2> QED BY <2>1, <2>2
<1>4. ASSUME NEW k \in 0 .. 2 * n PROVE Stack(Layers(c, k))
  BY <1>1, <1>3 DEF Stack
<1>5. m \in 0 .. 2 * n
  BY DEF n
<1>6. ASSUME m # 2 * n PROVE IsAbove(Layers(c, m), Layers(c, m + 1), m)
  <2>1. m + 1 \in 0 .. 2 * n /\ m \in Nat
    BY <1>1, <1>5, <1>6
  <2> QED BY <1>3, <1>4, <1>5, <2>1 DEF IsAbove
<1> QED BY <1>1, <1>3, <1>4, <1>5, <1>6 DEF n

\* What a layer is does not depend on how many there are.
LEMMA LayerIs ==
  ASSUME NEW c \in Cases, NEW k \in 0 .. 2 * Len(c.dependencies), NEW i \in 0 .. k
  PROVE  Layers(c, k)[i] = IF i = 0 THEN c.result
                           ELSE IF i > Len(c.dependencies)
                           THEN Known(c, i - Len(c.dependencies), c.here)
                           ELSE IF IsLocal(c) THEN Null ELSE Known(c, i, c.there)
BY DEF Layers

\* Before anything is merged the overlay is the result, for a local one also after
\* the client's layers, which are none.
LEMMA FirstLayer ==
  ASSUME NEW c \in Cases
  PROVE  /\ IsOverlay(c.result, Layers(c, 0))
         /\ IsLocal(c) => IsOverlay(c.result, Layers(c, Len(c.dependencies)))
<1> DEFINE n == Len(c.dependencies)
           L == Layers(c, 0)
           K == Layers(c, n)
           v == c.result
<1>1. n \in Nat /\ IsValue(v)
  BY RoutingAssumption
<1>2. /\ Stack(L) /\ DOMAIN L = {0} /\ L[0] = v
      /\ Stack(K) /\ DOMAIN K = 0 .. n /\ K[0] = v
      /\ IsLocal(c) => \A i \in 1 .. n : K[i] = Null
  <2>1. 0 \in 0 .. 2 * n /\ n \in 0 .. 2 * n
    BY <1>1
  <2>2. Stack(L) /\ DOMAIN L = 0 .. 0 /\ Stack(K) /\ DOMAIN K = 0 .. n
    BY <2>1, LayersOK
  <2>3. L[0] = v /\ K[0] = v /\ (IsLocal(c) => \A i \in 1 .. n : K[i] = Null)
    BY <1>1, <2>1, LayerIs
  <2> QED BY <2>2, <2>3
<1> HIDE DEF L, K, v, n
<1>3. Overlay(L) = v
  <2>1. CASE v = Null
    <3>1. Paths(L) = {}
      BY <1>2, <2>1 DEF Paths
    <3> QED BY <2>1, <3>1 DEF Overlay
  <2>2. CASE v # Null
    <3>1. \A p \in DOMAIN v : Has(L, p) = {0} /\ p \in Paths(L)
      BY <1>2, <2>2 DEF Has, Paths
    <3>2. Paths(L) = DOMAIN v /\ Paths(L) # {}
      BY <1>1, <1>2, <2>2 DEF Paths, IsValue
    <3>3. \A p \in DOMAIN v : First(L, p) = 0
      BY <1>2, <3>1, FirstOK
    <3>4. ASSUME NEW p \in DOMAIN v PROVE Seen(L, p)
      <4>1. \A k \in 0 .. Len(p) - 1 : Trunk(p, k) \in DOMAIN v
        BY <1>1 DEF IsValue
      <4> QED BY <3>3, <4>1 DEF Seen
    <3>5. Overlay(L) \in [DOMAIN v -> Label] /\ \A p \in DOMAIN v : Overlay(L)[p] = v[p]
      <4>1. /\ DOMAIN Overlay(L) = {p \in Paths(L) : Seen(L, p)}
            /\ \A p \in DOMAIN Overlay(L) : Overlay(L)[p] = L[First(L, p)][p]
            /\ Overlay(L) \in [DOMAIN Overlay(L) -> Label]
        BY <1>2, <3>2, OverlayOK
      <4>2. DOMAIN Overlay(L) = DOMAIN v
        BY <3>2, <3>4, <4>1
      <4> QED BY <1>2, <3>3, <4>1, <4>2
    <3> QED BY <1>1, <3>5 DEF IsValue
  <2> QED BY <2>1, <2>2
<1>4. IsLocal(c) => Overlay(K) = Overlay(L)
  <2> SUFFICES ASSUME IsLocal(c) PROVE Overlay(K) = Overlay(L)
    OBVIOUS
  <2>1. \A p : Has(K, p) = Has(L, p)
    BY <1>1, <1>2 DEF Has
  <2> QED BY <1>2, <2>1, SameOverlay
<1>5. v \in [DOMAIN v -> Label]
  BY <1>1 DEF IsValue
<1>6. IsOverlay(v, L) /\ (IsLocal(c) => IsOverlay(v, K))
  BY <1>3, <1>4, <1>5 DEF IsOverlay
<1> QED BY <1>6 DEF v, L, K, n

\* Before the entries are evaluated: the payload is the overlay of what was merged,
\* also after the next dependency, and after the post.
LEMMA MergeStep ==
  ASSUME RoutingTypeOK, MergedSoFar, MergeNext
  PROVE  RoutingTypeOK' /\ MergedSoFar'
<1> DEFINE n == Len(case.dependencies)
           d == IF stage = "posting" THEN merged ELSE n + merged
           deps == IF stage = "posting" THEN case.there ELSE case.here
           v == Known(case, merged + 1, deps)
<1>1. /\ case \in Cases /\ stage \in {"posting", "merging"} /\ n \in Nat /\ merged \in 0 .. n
      /\ merged < n /\ payload \in [DOMAIN payload -> Label]
      /\ IsLocal(case) => stage = "merging"
      /\ case' = case /\ stage' = stage /\ merged' = merged + 1 /\ posted' = posted
      /\ UNCHANGED decision
      /\ Normal(payload) = Normal(Overlay(Layers(case, d)))
      /\ ~IsLocal(case) /\ stage # "posting" =>
          /\ posted = Normal(posted) /\ posted = Normal(Overlay(Layers(case, n)))
          /\ case.here \subseteq case.there => payload = posted
  BY RoutingAssumption DEF RoutingTypeOK, MergedSoFar, MergeNext
<1>2. payload' = MergePayloads(v, payload)
  BY <1>1 DEF MergeNext, Known, MergePayloads
<1>3. d \in 0 .. 2 * n /\ d + 1 \in 0 .. 2 * n /\ d # 2 * n
  BY <1>1
<1>4. Layers(case, d + 1)[d + 1] = v
  <2>1. Layers(case, d + 1)[d + 1] = IF d + 1 > n THEN Known(case, d + 1 - n, case.here)
                                     ELSE IF IsLocal(case) THEN Null ELSE Known(case, d + 1, case.there)
    BY <1>1, <1>3, LayerIs, SMTT(30)
  <2> QED BY <1>1, <2>1
<1> HIDE DEF d, v
<1>5. IsOverlay(payload', Layers(case, d + 1))
  <2>1. IsAbove(Layers(case, d), Layers(case, d + 1), d) /\ IsOverlay(payload, Layers(case, d))
    BY <1>1, <1>3, LayersOK DEF IsOverlay
  <2> QED BY <1>2, <1>4, <2>1, LayerUnder
<1>6. d + 1 = IF stage' = "posting" THEN merged' ELSE n + merged'
  BY <1>1 DEF d
<1>7. ASSUME ~IsLocal(case), stage # "posting", case.here \subseteq case.there
      PROVE  payload' = payload
  <2>1. /\ posted = Normal(posted) /\ posted = Normal(Overlay(Layers(case, n)))
        /\ payload = posted
    BY <1>1, <1>7
  <2>2. n \in 0 .. 2 * n /\ merged + 1 \in 0 .. n /\ merged + 1 # 0
    BY <1>1
  <2>3. Stack(Layers(case, n)) /\ DOMAIN Layers(case, n) = 0 .. n
    BY <1>1, <2>2, LayersOK
  <2>4. IsOverlay(payload, Layers(case, n)) /\ Normal(payload) = payload
    BY <1>1, <2>1 DEF IsOverlay
  <2>5. Layers(case, n)[merged + 1] = Known(case, merged + 1, case.there)
    BY <1>1, <1>7, <2>2, LayerIs
  <2>6. v = Null \/ v = Layers(case, n)[merged + 1]
    BY <1>7, <2>5 DEF v, Known
  <2>7. MergePayloads(Layers(case, n)[merged + 1], payload) = payload
    BY <2>2, <2>3, <2>4, LayerAgain
  <2> QED BY <1>2, <2>6, <2>7 DEF MergePayloads
<1>8. RoutingTypeOK'
  BY <1>1, <1>5 DEF RoutingTypeOK, IsOverlay, decision, Entries
<1>9. MergedSoFar'
  BY <1>1, <1>5, <1>6, <1>7 DEF MergedSoFar, IsOverlay
<1> QED BY <1>8, <1>9

\* Posting keeps the invariant: the server begins where the client ended.
LEMMA PostStep ==
  ASSUME RoutingTypeOK, MergedSoFar, PostResult
  PROVE  RoutingTypeOK' /\ MergedSoFar'
<1> DEFINE n == Len(case.dependencies)
<1>1. /\ case \in Cases /\ stage = "posting" /\ n \in Nat /\ merged = n
      /\ payload \in [DOMAIN payload -> Label] /\ ~IsLocal(case)
      /\ payload' = Normal(payload) /\ posted' = Normal(payload)
      /\ case' = case /\ stage' = "merging" /\ merged' = 0
      /\ UNCHANGED decision
      /\ Normal(payload) = Normal(Overlay(Layers(case, n)))
  BY RoutingAssumption DEF RoutingTypeOK, MergedSoFar, PostResult
<1>2. /\ Normal(payload) \in [DOMAIN payload -> Label] /\ DOMAIN Normal(payload) = DOMAIN payload
      /\ Normal(Normal(payload)) = Normal(payload)
  BY <1>1, NormalOK
<1>3. RoutingTypeOK'
  BY <1>1, <1>2 DEF RoutingTypeOK, decision, Entries
<1>4. n + merged' = n
  BY <1>1
<1>5. MergedSoFar'
  BY <1>1, <1>2, <1>4 DEF MergedSoFar
<1> QED BY <1>3, <1>5

-----------------------------------------------------------------------------
(* The decision and the owners.                                            *)

Places(s, n) == {i \in DOMAIN s : s[i] = n}

\* Places of a name add up when lists are appended.
LEMMA PlacesAppend ==
  ASSUME NEW s \in Seq(STRING), NEW t \in Seq(STRING), NEW n
  PROVE  /\ s \o t \in Seq(STRING)
         /\ IsFiniteSet(Places(s, n)) /\ IsFiniteSet(Places(t, n)) /\ IsFiniteSet(Places(s \o t, n))
         /\ Cardinality(Places(s \o t, n)) = Cardinality(Places(s, n)) + Cardinality(Places(t, n))
<1> DEFINE A == Places(s, n)
           B == Places(t, n)
           S == Len(s)
           T == Len(t)
           C == {i \in S + 1 .. S + T : t[i - S] = n}
           f == [i \in B |-> i + S]
<1>1. /\ S \in Nat /\ T \in Nat /\ DOMAIN s = 1 .. S /\ DOMAIN t = 1 .. T
      /\ s \o t \in Seq(STRING) /\ DOMAIN (s \o t) = 1 .. S + T
      /\ \A i \in 1 .. S : (s \o t)[i] = s[i]
      /\ \A i \in S + 1 .. S + T : (s \o t)[i] = t[i - S]
  OBVIOUS
<1>2. IsFiniteSet(A) /\ IsFiniteSet(B)
  <2>1. IsFiniteSet(1 .. S) /\ IsFiniteSet(1 .. T)
    BY <1>1, FS_Interval
  <2>2. A \in SUBSET (1 .. S) /\ B \in SUBSET (1 .. T)
    BY <1>1 DEF Places
  <2> QED BY <2>1, <2>2, FS_Subset
<1>3. IsFiniteSet(C) /\ Cardinality(C) = Cardinality(B)
  <2>1. f \in Bijection(B, C)
    <3>1. f \in [B -> C]
      BY <1>1 DEF Places
    <3>2. \A i, j \in B : f[i] = f[j] => i = j
      BY <1>1 DEF Places
    <3>3. \A j \in C : \E i \in B : f[i] = j
      <4> SUFFICES ASSUME NEW j \in C PROVE j - S \in B /\ f[j - S] = j
        OBVIOUS
      <4>1. j - S \in 1 .. T /\ t[j - S] = n
        BY <1>1
      <4>2. j - S \in B
        BY <1>1, <4>1 DEF Places
      <4> QED BY <1>1, <4>1, <4>2
    <3> HIDE DEF f, B, C
    <3> QED BY <3>1, <3>2, <3>3, Fun_IsBij
  <2>2. ExistsBijection(B, C)
    BY <2>1 DEF ExistsBijection
  <2> QED BY <1>2, <2>2, FS_Bijection
<1>4. Places(s \o t, n) = A \cup C /\ A \cap C = {}
  BY <1>1 DEF Places
<1>5. /\ IsFiniteSet(A \cup C)
      /\ Cardinality(A \cup C) = Cardinality(A) + Cardinality(C) - Cardinality(A \cap C)
  BY <1>2, <1>3, FS_Union
<1>6. Cardinality(A) \in Nat /\ Cardinality(C) \in Nat /\ Cardinality({}) = 0
  BY <1>2, <1>3, FS_CardinalityType, FS_EmptySet
<1>7. Cardinality(A \cap C) = 0
  BY <1>4, <1>6, Zenon
<1> HIDE DEF A, B, C
<1>8. Cardinality(A \cup C) = Cardinality(A) + Cardinality(B)
  BY <1>3, <1>5, <1>6, <1>7
<1> QED BY <1>1, <1>2, <1>4, <1>5, <1>8 DEF A, B

\* An entry more that matches names what is in its list.
LEMMA NamingsAdd ==
  ASSUME case \in Cases, NEW E \in SUBSET Entries, NEW e \in Entries, e \notin E, NEW n,
         IsFiniteSet(Namings(n, E))
  PROVE  LET more == Places(case.entries[e].nexts, n)
         IN /\ IsFiniteSet(Namings(n, E \cup {e})) /\ IsFiniteSet(more)
            /\ Cardinality(Namings(n, E \cup {e})) = Cardinality(Namings(n, E)) + Cardinality(more)
<1> DEFINE more == Places(case.entries[e].nexts, n)
           A == Namings(n, E)
           C == {e} \X more
<1>1. IsFiniteSet(more)
  <2>1. case.entries[e].nexts \in Seq(STRING)
    BY RoutingAssumption DEF Entries
  <2> QED BY <2>1, PlacesAppend
<1>2. IsFiniteSet({e}) /\ Cardinality({e}) = 1
  BY FS_Singleton
<1>3. IsFiniteSet(C) /\ Cardinality(C) = 1 * Cardinality(more)
  BY <1>1, <1>2, FS_Product
<1>4. Namings(n, E \cup {e}) = A \cup C
  BY DEF Namings, Places
<1>5. A \cap C = {}
  BY DEF Namings
<1>6. /\ IsFiniteSet(A \cup C)
      /\ Cardinality(A \cup C) = Cardinality(A) + Cardinality(C) - Cardinality(A \cap C)
  BY <1>3, FS_Union
<1>7. Cardinality(A) \in Nat /\ Cardinality(more) \in Nat /\ Cardinality({}) = 0
  BY <1>1, FS_CardinalityType, FS_EmptySet
<1>8. Cardinality(A \cap C) = 0
  BY <1>5, <1>7, Zenon
<1> HIDE DEF A, C, more
<1>9. Cardinality(A \cup C) = Cardinality(A) + Cardinality(more)
  BY <1>3, <1>6, <1>7, <1>8
<1> QED BY <1>1, <1>4, <1>6, <1>9 DEF A, more


\* An entry that is evaluated joins the decision.
LEMMA EntryStep ==
  ASSUME RoutingInv, NEW e \in Entries, EvaluateEntry(e)
  PROVE  RoutingInv'
<1> DEFINE yes == Routes(e) = "yes"
           more == case.entries[e].nexts
           R == {f \in DOMAIN results : results[f]}
<1>1. /\ case \in Cases /\ stage = "routing" /\ e \in Entries /\ e \notin DOMAIN results
      /\ DOMAIN results \subseteq Entries /\ nexts \in Seq(STRING)
      /\ UNCHANGED <<case, stage, merged, payload, fields, posted, owners>>
      /\ results' = [f \in DOMAIN results \cup {e} |-> IF f = e THEN yes ELSE results[f]]
      /\ nexts' = IF yes THEN nexts \o more ELSE nexts
      /\ conditionError' = IF Routes(e) = "error" /\ conditionError = "none" THEN e ELSE conditionError
  BY DEF RoutingInv, RoutingTypeOK, EvaluateEntry, Left, Routes
<1>2. more \in Seq(STRING) /\ e # "none"
  BY <1>1, RoutingAssumption DEF Entries
<1>3. nexts' \in Seq(STRING)
  BY <1>1, <1>2, PlacesAppend
<1>4. /\ DOMAIN results' = DOMAIN results \cup {e}
      /\ results'[e] = yes /\ \A f \in DOMAIN results : results'[f] = results[f]
  BY <1>1
<1>5. RoutingTypeOK'
  BY <1>1, <1>3, <1>4 DEF RoutingInv, RoutingTypeOK, Entries
<1>6. MergedSoFar'
  BY <1>1 DEF RoutingInv, MergedSoFar
<1>7. SharedOut'
  BY <1>1 DEF RoutingInv, SharedOut, owners
<1>8. DecidedSoFar'
  <2>1. \A f : Routes(f)' = Routes(f)
    BY <1>1 DEF Routes
  <2>2. \A f \in DOMAIN results' : results'[f] = (Routes(f)' = "yes")
    BY <1>1, <1>4, <2>1 DEF RoutingInv, DecidedSoFar
  <2>3. LET failing == {f \in DOMAIN results' : Routes(f)' = "error"}
        IN IF failing = {} THEN conditionError' = "none" ELSE conditionError' \in failing
    <3> DEFINE old == {f \in DOMAIN results : Routes(f) = "error"}
               new == {f \in DOMAIN results' : Routes(f)' = "error"}
    <3>1. IF old = {} THEN conditionError = "none" ELSE conditionError \in old
      BY DEF RoutingInv, DecidedSoFar
    <3>2. new = IF Routes(e) = "error" THEN old \cup {e} ELSE old
      BY <1>4, <2>1
    <3>3. "none" \notin old
      BY <1>1, RoutingAssumption DEF Entries
    <3> HIDE DEF old, new
    <3>4. IF new = {} THEN conditionError' = "none" ELSE conditionError' \in new
      BY <1>1, <3>1, <3>2, <3>3
    <3> QED BY <3>4 DEF new
  <2>4. ASSUME NEW n \in STRING
        PROVE  LET named == Namings(n, {f \in DOMAIN results' : results'[f]})
               IN IsFiniteSet(named) /\ Cardinality(Places(nexts', n)) = Cardinality(named)
    <3>1. IsFiniteSet(Namings(n, R)) /\ Cardinality(Places(nexts, n)) = Cardinality(Namings(n, R))
      BY DEF RoutingInv, DecidedSoFar, Count, Places
    <3>2. {f \in DOMAIN results' : results'[f]} = IF yes THEN R \cup {e} ELSE R
      BY <1>4
    <3>3. CASE yes
      <4>1. R \in SUBSET Entries /\ e \notin R
        BY <1>1
      <4>2. /\ IsFiniteSet(Namings(n, R \cup {e}))
            /\ Cardinality(Namings(n, R \cup {e})) = Cardinality(Namings(n, R)) + Cardinality(Places(more, n))
        BY <1>1, <3>1, <4>1, NamingsAdd
      <4>3. Cardinality(Places(nexts', n)) = Cardinality(Places(nexts, n)) + Cardinality(Places(more, n))
        BY <1>1, <1>2, <3>3, PlacesAppend
      <4> QED BY <3>1, <3>2, <3>3, <4>2, <4>3
    <3>4. CASE ~yes
      BY <1>1, <3>1, <3>2, <3>4
    <3> QED BY <3>3, <3>4
  <2>5. \A n, E : Namings(n, E)' = Namings(n, E)
    BY <1>1 DEF Namings
  <2> QED BY <1>1, <2>2, <2>3, <2>4, <2>5 DEF DecidedSoFar, Count, Places
<1> QED BY <1>5, <1>6, <1>7, <1>8 DEF RoutingInv

\* Dispatching keeps the invariant: every place goes one way.
LEMMA DispatchStep ==
  ASSUME RoutingInv, Dispatch
  PROVE  RoutingInv'
<1>1. /\ stage = "routing" /\ stage' = "done" /\ Left = {}
      /\ UNCHANGED <<case, merged, payload, fields, posted, decision>>
      /\ owned = {} /\ served = {} /\ routed = {}
  BY DEF RoutingInv, SharedOut, Dispatch
<1>2. RoutingTypeOK' /\ MergedSoFar'
  BY <1>1 DEF RoutingInv, RoutingTypeOK, MergedSoFar, decision, Entries
<1>3. DecidedSoFar'
  <2>1. /\ \A f : Routes(f)' = Routes(f)
        /\ \A n, E : Namings(n, E)' = Namings(n, E)
        /\ UNCHANGED <<results, nexts, conditionError>>
    BY <1>1 DEF Routes, Namings, decision
  <2> QED BY <1>1, <2>1 DEF RoutingInv, DecidedSoFar, Count
<1>4. SharedOut'
  <2>1. DOMAIN results = Entries
    BY <1>1 DEF RoutingInv, RoutingTypeOK, Left
  <2>2. \A n : IsOwned(n)' = IsOwned(n)
    BY <1>1 DEF IsOwned
  <2>3. UNCHANGED <<results, nexts, case>>
    BY <1>1 DEF decision
  <2> QED BY <1>1, <2>1, <2>2, <2>3 DEF Dispatch, SharedOut, Entries
<1> QED BY <1>2, <1>3, <1>4 DEF RoutingInv

\* The invariant holds at first: the overlay of the result alone is the result.
LEMMA RoutingInit_Inv == RoutingInit => RoutingInv
<1> SUFFICES ASSUME RoutingInit PROVE RoutingInv
  OBVIOUS
<1> DEFINE n == Len(case.dependencies)
<1>1. /\ case \in Cases /\ stage \in {"merging", "posting"} /\ merged = 0 /\ payload = case.result
      /\ stage = IF IsLocal(case) THEN "merging" ELSE "posting"
      /\ DOMAIN results = {} /\ nexts = <<>> /\ conditionError = "none"
      /\ owned = {} /\ served = {} /\ routed = {}
  BY DEF RoutingInit
<1>2. n \in Nat /\ n + merged = n
  BY <1>1, RoutingAssumption
<1>3. /\ IsOverlay(case.result, Layers(case, 0))
      /\ IsLocal(case) => IsOverlay(case.result, Layers(case, n))
  BY <1>1, FirstLayer
<1>4. RoutingTypeOK
  BY <1>1, <1>2, <1>3 DEF RoutingTypeOK, IsOverlay
<1>5. MergedSoFar
  BY <1>1, <1>2, <1>3 DEF MergedSoFar, IsOverlay
<1>6. DecidedSoFar
  <2>1. \A m : Namings(m, {f \in DOMAIN results : results[f]}) = {} /\ {i \in DOMAIN nexts : nexts[i] = m} = {}
    BY <1>1 DEF Namings
  <2>2. IsFiniteSet({})
    BY FS_EmptySet
  <2> QED BY <1>1, <2>1, <2>2 DEF DecidedSoFar, Count
<1>7. SharedOut
  BY <1>1 DEF SharedOut
<1> QED BY <1>4, <1>5, <1>6, <1>7 DEF RoutingInv

\* Every step keeps it.
LEMMA RoutingStep == RoutingInv /\ [RoutingNext]_routingVars => RoutingInv'
<1> SUFFICES ASSUME RoutingInv, [RoutingNext]_routingVars PROVE RoutingInv'
  OBVIOUS
<1>1. ASSUME MergeNext \/ PostResult PROVE RoutingInv'
  <2>1. RoutingTypeOK' /\ MergedSoFar'
    BY <1>1, MergeStep, PostStep DEF RoutingInv
  <2>2. /\ stage \in {"posting", "merging"} /\ stage' \in {"posting", "merging"}
        /\ UNCHANGED <<case, results, nexts, conditionError, owned, served, routed>>
    BY <1>1 DEF MergeNext, PostResult, decision, owners
  <2>3. DOMAIN results = {}
    BY <2>2 DEF RoutingInv, DecidedSoFar
  <2>4. DecidedSoFar'
    <3>1. \A n, E : Namings(n, E)' = Namings(n, E)
      BY <2>2 DEF Namings
    <3>2. conditionError = "none"
      BY <2>3 DEF RoutingInv, DecidedSoFar
    <3> QED BY <2>2, <2>3, <3>1, <3>2 DEF RoutingInv, DecidedSoFar, Count
  <2>5. SharedOut'
    BY <2>2 DEF RoutingInv, SharedOut
  <2> QED BY <2>1, <2>4, <2>5 DEF RoutingInv
<1>2. ASSUME Ingest \/ UNCHANGED routingVars PROVE RoutingInv'
  <2>1. /\ UNCHANGED <<case, merged, payload, fields, posted, results, nexts, conditionError, owned, served, routed>>
        /\ \/ stage' = stage
           \/ stage = "merging" /\ stage' = "routing" /\ merged = Len(case.dependencies)
    BY <1>2 DEF Ingest, routingVars, decision, owners
  <2>2. RoutingTypeOK' /\ MergedSoFar'
    BY <2>1 DEF RoutingInv, RoutingTypeOK, MergedSoFar, Entries
  <2>3. DecidedSoFar'
    <3>1. /\ \A f : Routes(f)' = Routes(f)
          /\ \A n, E : Namings(n, E)' = Namings(n, E)
      BY <2>1 DEF Routes, Namings
    <3> QED BY <2>1, <3>1 DEF RoutingInv, DecidedSoFar, Count
  <2>4. SharedOut'
    <3>1. \A n : IsOwned(n)' = IsOwned(n)
      BY <2>1 DEF IsOwned
    <3> QED BY <2>1, <3>1 DEF RoutingInv, SharedOut, Entries
  <2> QED BY <2>2, <2>3, <2>4 DEF RoutingInv
<1> QED BY <1>1, <1>2, EntryStep, DispatchStep DEF RoutingNext

\* What is decided and what is merged is accounted for after every step.
THEOREM RoutingInvCorrect == RoutingSpec => []RoutingInv
BY RoutingInit_Inv, RoutingStep, PTL DEF RoutingSpec

\* Whatever a client and the server know, in whatever order it is merged, a payload is
\* the overlay of all of it, and the server changes nothing the client merged.
THEOREM MergeIsLayeredCorrect == RoutingSpec => []MergeIsLayered
<1>1. RoutingInv => MergeIsLayered
  <2> SUFFICES ASSUME RoutingInv, stage \in {"routing", "done"}
               PROVE  /\ Normal(payload) = Normal(Overlay(Layers(case, 2 * Len(case.dependencies))))
                      /\ ~IsLocal(case) /\ case.here \subseteq case.there => payload = posted
    BY DEF MergeIsLayered
  <2>1. Len(case.dependencies) \in Nat /\ merged = Len(case.dependencies)
    BY RoutingAssumption DEF RoutingInv, RoutingTypeOK, MergedSoFar
  <2>2. Len(case.dependencies) + merged = 2 * Len(case.dependencies) /\ stage # "posting"
    BY <2>1
  <2> QED BY <2>2 DEF RoutingInv, MergedSoFar
<1> QED BY <1>1, RoutingInvCorrect, PTL

\* Whatever the order of the entries, and whichever of them fail, the decision is
\* theirs alone and every next goes one way, by its own target or by the workflow's.
THEOREM EveryNextGoesOneWayCorrect == RoutingSpec => []EveryNextGoesOneWay
<1>1. RoutingInv => EveryNextGoesOneWay
  <2> SUFFICES ASSUME RoutingInv, stage = "done" PROVE EveryNextGoesOneWay
    BY DEF EveryNextGoesOneWay
  <2>1. DOMAIN results = Entries
    BY DEF RoutingInv, SharedOut
  <2>2. LET failing == {e \in Entries : Routes(e) = "error"}
        IN IF failing = {} THEN conditionError = "none" ELSE conditionError \in failing
    BY <2>1 DEF RoutingInv, DecidedSoFar
  <2>3. ASSUME NEW n \in STRING PROVE Count(n, DOMAIN nexts) = Named(n)
    <3>1. {e \in DOMAIN results : results[e]} = {e \in Entries : Routes(e) = "yes"}
      BY <2>1 DEF RoutingInv, DecidedSoFar
    <3>2. Count(n, DOMAIN nexts) = Cardinality(Namings(n, {e \in DOMAIN results : results[e]}))
      BY DEF RoutingInv, DecidedSoFar
    <3> QED BY <3>1, <3>2 DEF Named
  <2>4. \A n : Count(n, {}) = 0
    <3>1. \A n : {i \in {} : nexts[i] = n} = {}
      OBVIOUS
    <3> QED BY <3>1, FS_EmptySet DEF Count
  <2>5. ASSUME NEW n
        PROVE  IsOwned(n) <=> n \in DOMAIN case.nodes /\ MeantFor(n, case.executor, case.tags)
    BY DEF IsOwned, MeantFor, AssignedTo, EffectiveTarget
  <2>6. ASSUME NEW n \in STRING, ~IsLocal(case)
        PROVE  /\ Count(n, owned) = IF IsOwned(n) THEN Named(n) ELSE 0
               /\ n \in routed <=> ~IsOwned(n) /\ Named(n) # 0
    <3> DEFINE all == Places(nexts, n)
    <3>1. /\ owned = {i \in DOMAIN nexts : IsOwned(nexts[i])}
          /\ routed = {nexts[i] : i \in {i \in DOMAIN nexts : ~IsOwned(nexts[i])}}
      BY <2>6 DEF RoutingInv, SharedOut
    <3>2. /\ {i \in owned : nexts[i] = n} = IF IsOwned(n) THEN all ELSE {}
          /\ n \in routed <=> ~IsOwned(n) /\ all # {}
      BY <3>1 DEF Places
    <3>3. Cardinality(all) = Named(n)
      BY <2>3 DEF Count, Places
    <3>4. IsFiniteSet(all)
      BY PlacesAppend DEF RoutingInv, RoutingTypeOK
    <3>5. all = {} <=> Cardinality(all) = 0
      BY <3>4, FS_EmptySet
    <3> HIDE DEF all
    <3> QED BY <3>2, <3>3, <3>5, FS_EmptySet DEF Count
  <2>7. ASSUME NEW e \in Entries, NEW i \in DOMAIN case.entries[e].nexts
        PROVE  case.entries[e].nexts[i] \in STRING
    BY RoutingAssumption DEF RoutingInv, RoutingTypeOK, Entries
  <2>8. ASSUME NEW n \in STRING
        PROVE  LET here == n \in DOMAIN case.nodes /\ MeantFor(n, case.executor, case.tags)
               IN /\ Ways(n) = IF Named(n) = 0 THEN {}
                               ELSE IF IsLocal(case) THEN {"server"}
                               ELSE IF here THEN {"client"} ELSE {"row"}
                  /\ Named(n) = 1 => Count(n, owned \cup served) <= 1
    <3>1. CASE IsLocal(case)
      <4>1. owned = {} /\ served = DOMAIN nexts /\ routed = {} /\ owned \cup served = DOMAIN nexts
        BY <3>1 DEF RoutingInv, SharedOut
      <4>2. Count(n, owned) = 0 /\ Count(n, served) = Named(n) /\ Count(n, owned \cup served) = Named(n)
        BY <2>3, <2>4, <4>1
      <4>3. Ways(n) = IF Named(n) = 0 THEN {} ELSE {"server"}
        BY <4>1, <4>2 DEF Ways
      <4>4. Named(n) = 1 => Count(n, owned \cup served) <= 1
        BY <4>2
      <4> QED BY <3>1, <4>3, <4>4
    <3>2. CASE ~IsLocal(case)
      <4>1. served = {} /\ owned \cup served = owned
        BY <3>2 DEF RoutingInv, SharedOut
      <4>2. Count(n, served) = 0
        BY <2>4, <4>1
      <4>3. Count(n, owned) = IF IsOwned(n) THEN Named(n) ELSE 0
        BY <2>6, <3>2
      <4>4. n \in routed <=> ~IsOwned(n) /\ Named(n) # 0
        BY <2>6, <3>2
      <4>5. Named(n) = 1 => Count(n, owned \cup served) <= 1
        BY <4>1, <4>3
      <4>6. CASE IsOwned(n)
        BY <2>5, <3>2, <4>2, <4>3, <4>4, <4>5, <4>6 DEF Ways
      <4>7. CASE ~IsOwned(n)
        BY <2>5, <3>2, <4>2, <4>3, <4>4, <4>5, <4>7 DEF Ways
      <4> QED BY <4>6, <4>7
    <3> QED BY <3>1, <3>2
  <2>9. \A n \in UNION {{case.entries[e].nexts[i] : i \in DOMAIN case.entries[e].nexts} : e \in Entries} :
          n \in STRING
    BY <2>7
  <2> QED BY <2>1, <2>2, <2>8, <2>9 DEF EveryNextGoesOneWay
<1> QED BY <1>1, RoutingInvCorrect, PTL

-----------------------------------------------------------------------------
(* The answers.                                                            *)

\* An overlay has paths of the layers only.
LEMMA OverlayPaths ==
  ASSUME NEW L, Stack(L), NEW w, IsOverlay(w, L)
  PROVE  DOMAIN w \subseteq Seq(Step)
<1>1. CASE Paths(L) = {}
  BY <1>1, NothingThere, NullOK DEF IsValue
<1>2. CASE Paths(L) # {}
  <2>1. ASSUME NEW p \in Paths(L) PROVE p \in Seq(Step)
    BY FirstOK DEF IsValue
  <2> QED BY <1>2, <2>1, IsOverlayOK
<1> QED BY <1>1, <1>2

\* What a reference finds in a value that went through JSON is what it finds in the
\* value, with the label at its root rounded, if it does not ask for a struct's fields.
LEMMA LookupOK ==
  ASSUME NEW v, v \in [DOMAIN v -> Label], DOMAIN v \subseteq Seq(Step), NEW besides, NEW path,
         path \notin DOMAIN besides \ DOMAIN v
  PROVE  LET here == Lookup(v, besides, path)
             there == Lookup(Normal(v), NoFields, path)
         IN /\ there = Bad <=> here = Bad
            /\ here # Bad => here[<<>>] \in Label /\ there[<<>>] = Rounded(here[<<>>])
<1> DEFINE here == Lookup(v, besides, path)
           there == Lookup(Normal(v), NoFields, path)
<1>1. DOMAIN Normal(v) = DOMAIN v /\ \A p \in DOMAIN v : Normal(v)[p] = Rounded(v[p])
  BY NormalOK
<1>2. CASE path \notin DOMAIN v
  <2>1. here = Bad
    BY <1>2 DEF Lookup
  <2>2. path \notin DOMAIN NoFields
    BY DEF NoFields
  <2>3. there = Bad
    BY <1>1, <1>2, <2>2 DEF Lookup
  <2> QED BY <2>1, <2>3
<1>3. CASE path \in DOMAIN v
  <2>1. /\ path \in Seq(Step) /\ Trunk(path, Len(path)) = path /\ Len(path) \in Nat
        /\ SubSeq(path, Len(path) + 1, Len(path)) = <<>> /\ path \o <<>> = path
    BY <1>3, TrunkOK
  <2>2. ASSUME NEW w, DOMAIN w = DOMAIN v
        PROVE  <<>> \in DOMAIN Sub(w, path) /\ Sub(w, path)[<<>>] = w[path]
    <3> DEFINE under == {p \in DOMAIN w : Len(p) >= Len(path) /\ Trunk(p, Len(path)) = path}
               rests == {SubSeq(p, Len(path) + 1, Len(p)) : p \in under}
    <3>1. path \in under
      BY <1>3, <2>1, <2>2
    <3>2. <<>> \in rests
      BY <2>1, <3>1
    <3>3. Sub(w, path) = [q \in rests |-> w[path \o q]]
      BY DEF Sub
    <3> HIDE DEF rests
    <3> QED BY <2>1, <3>2, <3>3
  <2>3. here = Sub(v, path) /\ there = Sub(Normal(v), path)
    BY <1>1, <1>3 DEF Lookup
  <2>4. \A s : <<>> \in DOMAIN s => s # Bad
    BY DEF Bad
  <2> HIDE DEF here, there
  <2>5. here # Bad /\ there # Bad
    BY <1>1, <2>2, <2>3, <2>4
  <2>6. here[<<>>] = v[path] /\ there[<<>>] = Normal(v)[path]
    BY <1>1, <2>2, <2>3
  <2>7. /\ there = Bad <=> here = Bad
        /\ here # Bad => here[<<>>] \in Label /\ there[<<>>] = Rounded(here[<<>>])
    BY <1>1, <1>3, <2>5, <2>6
  <2> QED BY <2>7 DEF here, there
<1> QED BY <1>2, <1>3

\* An operand that asks for a struct's fields, with respect to a value.
AsksBesides(x, besides, v) ==
  "literal" \notin DOMAIN x /\ x.root = "$result" /\ x.path \in DOMAIN besides \ DOMAIN v

\* Two values that are one but for the type of a number, as far as their roots tell.
Alike(a, b) ==
  \/ a = b
  \/ a # Bad /\ b # Bad /\ a[<<>>] \in Label /\ b[<<>>] = Rounded(a[<<>>])

\* Operands that are alike answer every question of a condition but one alike: whether
\* they are equal to something.
LEMMA AlikeOK ==
  ASSUME NEW a, NEW b, Alike(a, b)
  PROVE  /\ a = Bad <=> b = Bad
         /\ a # Bad =>
              /\ Is("bool", a) <=> Is("bool", b)
              /\ Is("bool", a) => a[<<>>].bool = b[<<>>].bool
              /\ Is("str", a) <=> Is("str", b)
              /\ Is("str", a) => Text(a) = Text(b)
              /\ IsNumber(a) <=> IsNumber(b)
              /\ IsNumber(a) => ToFloat(a) = ToFloat(b)
<1>1. CASE a = b
  BY <1>1
<1>2. CASE a # Bad /\ b # Bad /\ a[<<>>] \in Label /\ b[<<>>] = Rounded(a[<<>>])
  <2>1. CASE "int" \in DOMAIN a[<<>>]
    <3>1. DOMAIN a[<<>>] = {"int"}
      BY <1>2, <2>1, TagOK
    <3>2. b[<<>>] = [num |-> a[<<>>].int]
      BY <1>2, <2>1 DEF Rounded
    <3> QED BY <1>2, <3>1, <3>2 DEF Is, Text, IsNumber, ToFloat
  <2>2. CASE "int" \notin DOMAIN a[<<>>]
    <3>1. b[<<>>] = a[<<>>]
      BY <1>2, <2>2 DEF Rounded
    <3> QED BY <1>2, <3>1 DEF Is, Text, IsNumber, ToFloat
  <2> QED BY <2>1, <2>2
<1> QED BY <1>1, <1>2 DEF Alike

\* So they compare alike,
LEMMA CompareAlike ==
  ASSUME NEW a, NEW b, NEW c, NEW d, Alike(a, b), Alike(c, d), a # Bad, c # Bad,
         NEW op, op \notin {"==", "!="}
  PROVE  Compare(a, op, c) = Compare(b, op, d)
<1>1. CompareValues(a, op, c) = CompareValues(b, op, d)
  BY AlikeOK DEF CompareValues
<1>2. MatchRegex(a, c) = MatchRegex(b, d)
  BY AlikeOK DEF MatchRegex
<1>3. MatchGlob(a, c) = MatchGlob(b, d)
  <2>1. CASE MatchRegex(a, c) # "no"
    BY <1>2, <2>1 DEF MatchGlob
  <2>2. CASE MatchRegex(a, c) = "no"
    <3>1. Is("str", a) /\ Is("str", c)
      BY <2>2 DEF MatchRegex
    <3>2. Text(a) = Text(b) /\ Text(c) = Text(d)
      BY <3>1, AlikeOK
    <3> QED BY <1>2, <3>2 DEF MatchGlob
  <2> QED BY <2>1, <2>2
<1> QED BY <1>1, <1>2, <1>3 DEF Compare

\* and a condition without == and != comes to the same.
LEMMA EvaluateAlike ==
  ASSUME NEW v, v \in [DOMAIN v -> Label], DOMAIN v \subseteq Seq(Step), NEW besides, NEW args,
         NEW c, c.op \notin {"==", "!="},
         ~AsksBesides(c.left, besides, v), ~AsksBesides(c.right, besides, v)
  PROVE  Evaluate(c, args, v, besides) = Evaluate(c, args, Normal(v), NoFields)
<1> DEFINE l == ResolveOperand(c.left, args, v, besides)
           r == ResolveOperand(c.right, args, v, besides)
           ln == ResolveOperand(c.left, args, Normal(v), NoFields)
           rn == ResolveOperand(c.right, args, Normal(v), NoFields)
<1>1. ASSUME NEW x, ~AsksBesides(x, besides, v)
      PROVE  Alike(ResolveOperand(x, args, v, besides), ResolveOperand(x, args, Normal(v), NoFields))
  <2>1. CASE "literal" \notin DOMAIN x /\ x.root = "$result"
    <3>1. x.path \notin DOMAIN besides \ DOMAIN v
      BY <1>1, <2>1 DEF AsksBesides
    <3>2. /\ ResolveOperand(x, args, v, besides) = Lookup(v, besides, x.path)
          /\ ResolveOperand(x, args, Normal(v), NoFields) = Lookup(Normal(v), NoFields, x.path)
      BY <2>1 DEF ResolveOperand
    <3> QED BY <3>1, <3>2, LookupOK DEF Alike
  <2>2. CASE ~("literal" \notin DOMAIN x /\ x.root = "$result")
    BY <2>2 DEF ResolveOperand, Alike
  <2> QED BY <2>1, <2>2
<1>2. Alike(l, ln) /\ Alike(r, rn)
  BY <1>1
<1> HIDE DEF l, r, ln, rn
<1>3. /\ l = Bad <=> ln = Bad
      /\ r = Bad <=> rn = Bad
      /\ l # Bad => (Is("bool", l) <=> Is("bool", ln)) /\ (Is("bool", l) => l[<<>>].bool = ln[<<>>].bool)
  BY <1>2, AlikeOK
<1>4. l # Bad /\ r # Bad => Compare(l, c.op, r) = Compare(ln, c.op, rn)
  BY <1>2, CompareAlike
<1>5. /\ Evaluate(c, args, v, besides) =
           IF IsEmpty(c) THEN "yes"
           ELSE IF l = Bad THEN "error"
           ELSE IF c.op = "" /\ c.right = Nil THEN IF Is("bool", l) THEN Yes(l[<<>>].bool) ELSE "error"
           ELSE IF r = Bad THEN "error"
           ELSE Compare(l, c.op, r)
      /\ Evaluate(c, args, Normal(v), NoFields) =
           IF IsEmpty(c) THEN "yes"
           ELSE IF ln = Bad THEN "error"
           ELSE IF c.op = "" /\ c.right = Nil THEN IF Is("bool", ln) THEN Yes(ln[<<>>].bool) ELSE "error"
           ELSE IF rn = Bad THEN "error"
           ELSE Compare(ln, c.op, rn)
  BY DEF Evaluate, l, r, ln, rn
<1>6. CASE IsEmpty(c) \/ l = Bad
  <2>1. l = Bad <=> ln = Bad
    BY <1>3
  <2>2. CASE IsEmpty(c)
    BY <1>5, <2>2, Zenon
  <2>3. CASE ~IsEmpty(c) /\ l = Bad
    BY <1>5, <2>1, <2>3, Zenon
  <2> QED BY <1>6, <2>2, <2>3
<1>7. CASE ~IsEmpty(c) /\ l # Bad /\ c.op = "" /\ c.right = Nil
  <2>1. ln # Bad
    BY <1>3, <1>7
  <2>2. CASE Is("bool", l)
    <3>1. Is("bool", ln) /\ l[<<>>].bool = ln[<<>>].bool
      BY <1>3, <1>7, <2>2
    <3>2. /\ Evaluate(c, args, v, besides) = Yes(l[<<>>].bool)
          /\ Evaluate(c, args, Normal(v), NoFields) = Yes(ln[<<>>].bool)
      BY <1>5, <1>7, <2>1, <2>2, <3>1, Zenon
    <3> QED BY <3>1, <3>2, Zenon
  <2>3. CASE ~Is("bool", l)
    <3>1. ~Is("bool", ln)
      BY <1>3, <1>7, <2>3
    <3> QED BY <1>5, <1>7, <2>1, <2>3, <3>1, Zenon
  <2> QED BY <2>2, <2>3
<1>8. CASE ~IsEmpty(c) /\ l # Bad /\ ~(c.op = "" /\ c.right = Nil)
  <2>1. ln # Bad /\ (r = Bad <=> rn = Bad)
    BY <1>3, <1>8
  <2>2. CASE r = Bad
    BY <1>5, <1>8, <2>1, <2>2, Zenon
  <2>3. CASE r # Bad
    BY <1>4, <1>5, <1>8, <2>1, <2>3, Zenon
  <2> QED BY <2>2, <2>3
<1> QED BY <1>6, <1>7, <1>8

\* A condition that asks for a struct's fields fails on what the struct is posted as.
LEMMA BesidesFails ==
  ASSUME NEW v, NEW besides, NEW args, NEW c,
         AsksBesides(c.left, besides, v) \/ AsksBesides(c.right, besides, v)
  PROVE  Evaluate(c, args, Normal(v), NoFields) = "error"
<1> DEFINE l == ResolveOperand(c.left, args, Normal(v), NoFields)
           r == ResolveOperand(c.right, args, Normal(v), NoFields)
<1>1. ASSUME NEW x, AsksBesides(x, besides, v)
      PROVE  x # Nil /\ ResolveOperand(x, args, Normal(v), NoFields) = Bad
  <2>1. x # Nil
    BY <1>1 DEF AsksBesides, Nil, Literal
  <2>2. x.path \notin DOMAIN Normal(v) /\ x.path \notin DOMAIN NoFields
    BY <1>1 DEF AsksBesides, Normal, NoFields
  <2>3. Lookup(Normal(v), NoFields, x.path) = Bad
    BY <2>2 DEF Lookup
  <2> QED BY <1>1, <2>1, <2>3 DEF AsksBesides, ResolveOperand
<1>2. Evaluate(c, args, Normal(v), NoFields) =
        IF IsEmpty(c) THEN "yes"
        ELSE IF l = Bad THEN "error"
        ELSE IF c.op = "" /\ c.right = Nil THEN IF Is("bool", l) THEN Yes(l[<<>>].bool) ELSE "error"
        ELSE IF r = Bad THEN "error"
        ELSE Compare(l, c.op, r)
  BY DEF Evaluate
<1>3. CASE AsksBesides(c.left, besides, v)
  <2>1. ~IsEmpty(c) /\ l = Bad
    BY <1>1, <1>3 DEF IsEmpty
  <2> HIDE DEF l, r
  <2> QED BY <1>2, <2>1, Zenon
<1>4. CASE AsksBesides(c.right, besides, v)
  <2>1. ~IsEmpty(c) /\ r = Bad /\ c.right # Nil
    BY <1>1, <1>4 DEF IsEmpty
  <2> HIDE DEF l, r
  <2> QED BY <1>2, <2>1, Zenon
<1> QED BY <1>3, <1>4

\* For any payload and any patterns, an entry is answered the same on the server and
\* on a client, unless it compares for equality or asks for fields only a Go struct has,
\* and in that case the posted result fails it.
THEOREM SameWhereverItRanCorrect == RoutingSpec => []SameWhereverItRan
<1>1. RoutingInv => SameWhereverItRan
  <2> SUFFICES ASSUME RoutingInv, NEW e \in Entries
               PROVE  LET c == case.entries[e].condition
                          there == Evaluate(c, case.args, Normal(payload), NoFields)
                      IN IF OnlyLocal(c.left) \/ OnlyLocal(c.right) THEN there = "error"
                         ELSE c.op \notin {"==", "!="} => Routes(e) = there
    BY DEF SameWhereverItRan
  <2> DEFINE n == Len(case.dependencies)
             d == IF stage = "posting" THEN merged ELSE n + merged
             c == case.entries[e].condition
  <2>1. /\ case \in Cases /\ n \in Nat /\ d \in 0 .. 2 * n
        /\ payload \in [DOMAIN payload -> Label]
        /\ Normal(payload) = Normal(Overlay(Layers(case, d)))
    BY RoutingAssumption DEF RoutingInv, RoutingTypeOK, MergedSoFar
  <2> HIDE DEF d
  <2>2. DOMAIN payload \subseteq Seq(Step)
    BY <2>1, LayersOK, OverlayPaths DEF IsOverlay
  <2>3. \A x : OnlyLocal(x) <=> AsksBesides(x, fields, payload)
    BY DEF OnlyLocal, AsksBesides
  <2>4. CASE OnlyLocal(c.left) \/ OnlyLocal(c.right)
    BY <2>3, <2>4, BesidesFails
  <2>5. CASE ~(OnlyLocal(c.left) \/ OnlyLocal(c.right))
    <3>1. c.op \notin {"==", "!="} =>
            Evaluate(c, case.args, payload, fields) = Evaluate(c, case.args, Normal(payload), NoFields)
      BY <2>1, <2>2, <2>3, <2>5, EvaluateAlike
    <3> QED BY <2>5, <3>1 DEF Routes
  <2> QED BY <2>4, <2>5
<1> QED BY <1>1, RoutingInvCorrect, PTL
=============================================================================
