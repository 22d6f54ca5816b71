------------------------------ MODULE Triggers ------------------------------
(***************************************************************************)
(* The triggers that wait: the file watchdog (filewatch), the directory    *)
(* watcher (filechange) and the schedule (cron).  Each is one goroutine    *)
(* that selects between its timers, the events of its watcher and Stop,    *)
(* and sends its results to the trigger manager, which passes them on to   *)
(* the engine.  While such a send waits nothing else is heard.             *)
(*                                                                         *)
(* Time is discrete and passes only when the goroutine has nothing to do:  *)
(* between the ready cases of its select it may take any, as Go does.      *)
(***************************************************************************)
EXTENDS Integers, Sequences

CONSTANTS
  Files,     \* names of files in the watched directory
  Matching,  \* those that pass the pattern and the event filter
  Settings,  \* arguments a trigger may be created with
  MaxQueue   \* bound: file events the kernel keeps for the watcher

\* schedule: "none" is the watch mode of filewatch; "interval" counts from now,
\* "cron" is due at fixed moments, "never" parses but has no future moment.
Setting == [kind : {"filewatch", "filechange", "cron"},
            schedule : {"none", "interval", "cron", "never"},
            period : Nat \ {0}, within : Nat \ {0}, debounce : Nat,
            onStart : BOOLEAN]

\* What New lets through: a cron trigger has a schedule, if only the default.
Loads(s) == /\ s \in Setting
            /\ s.kind = "cron" => s.schedule # "none"
            /\ s.kind = "filechange" => s.schedule = "none"

ASSUME TriggersAssumption ==
  /\ Matching \subseteq Files
  /\ \A s \in Settings : Loads(s)
  /\ MaxQueue \in Nat

Off == -1        \* a timer that is not running; 0: its channel is ready
NoResult == "none"

VARIABLES
  setting,   \* the arguments; fixed
  phase,     \* time since the last moment of the schedule
  loop,      \* where Execute is
  result,    \* the result it sends
  open,      \* windowOpen
  deadline,  \* the timer of the window
  sched,     \* the timer of the schedule
  queue,     \* file events not taken yet
  last,      \* time since the last event of a file, up to the debounce time
  stopped,   \* Stop was called
  closed,    \* the watcher is closed
  manager,   \* the result TriggerManager.Run holds
  \* history
  silence,   \* time since a result was taken, a tick, or the start
  waited,    \* time since the queue was last empty
  missed     \* there was a miss since the last tick

timers == <<open, deadline, sched>>
watcher == <<queue, waited, last, closed>>
vars == <<setting, phase, loop, result, timers, watcher, stopped, manager,
          silence, missed>>

Watchdog == setting.kind = "filewatch"
Scheduled == setting.schedule # "none"

Init ==
  /\ setting \in Settings
  /\ phase \in 0 .. setting.period - 1
  /\ loop = "off" /\ result = NoResult /\ manager = NoResult
  /\ open = FALSE /\ deadline = Off /\ sched = Off
  /\ queue = <<>> /\ closed = FALSE /\ stopped = FALSE
  /\ last = [f \in Files |-> setting.debounce]
  /\ silence = 0 /\ waited = 0 /\ missed = FALSE

-----------------------------------------------------------------------------
(* The timers.                                                             *)

OpenWindow == open' = TRUE /\ deadline' = setting.within
CloseWindow == open' = FALSE /\ deadline' = Off

\* Until the next moment of the schedule, which is never now.
Delay == CASE setting.schedule = "interval" -> setting.period
           [] setting.schedule = "cron" -> setting.period - phase
           [] OTHER -> Off
Arm == sched' = Delay

-----------------------------------------------------------------------------
(* Execute.                                                                *)

\* The directory cannot be watched: it is missing, or the watcher is closed.
Fails ==
  /\ loop = "off" /\ setting.kind # "cron"
  /\ loop' = "done"
  /\ UNCHANGED <<setting, phase, result, timers, watcher, stopped, manager, silence,
                 missed>>

Watch ==
  /\ loop = "off" /\ setting.kind # "cron" /\ ~closed
  /\ loop' = "waiting"
  /\ IF Watchdog THEN OpenWindow /\ Arm ELSE UNCHANGED timers
  /\ silence' = 0
  /\ UNCHANGED <<setting, phase, result, watcher, stopped, manager, missed>>

\* The loop of cron, from its top: wait for the next moment, if there is one.
Await == /\ Arm
         /\ loop' = IF Delay = Off THEN "done" ELSE "waiting"

StartCron ==
  /\ loop = "off" /\ setting.kind = "cron"
  /\ IF setting.onStart
     THEN loop' = "sending" /\ result' = "fire" /\ UNCHANGED sched
     ELSE Await /\ UNCHANGED result
  /\ silence' = 0
  /\ UNCHANGED <<setting, phase, open, deadline, watcher, stopped, manager, missed>>

Emit(r) == loop' = "sending" /\ result' = r

Debounced(f) == last[f] < setting.debounce

\* An event of the watcher.
TakeEvent ==
  /\ loop = "waiting" /\ queue # <<>>
  /\ queue' = Tail(queue)
  /\ waited' = IF Len(queue) = 1 THEN 0 ELSE waited
  /\ LET f == Head(queue)
     IN IF f \notin Matching THEN UNCHANGED <<last, loop, result>>
        ELSE /\ last' = [last EXCEPT ![f] = 0]
             /\ IF Debounced(f) THEN UNCHANGED <<loop, result>> ELSE Emit("success")
  /\ UNCHANGED <<setting, phase, timers, closed, stopped, manager, silence, missed>>

\* The window ends.
Expire ==
  /\ loop = "waiting" /\ deadline = 0
  /\ deadline' = Off
  /\ IF open THEN Emit("missing") /\ missed' = TRUE
     ELSE UNCHANGED <<loop, result, missed>>
  /\ UNCHANGED <<setting, phase, open, sched, watcher, stopped, manager, silence>>

\* A tick opens the window, or restarts it.
Reopen == OpenWindow
Tick ==
  /\ loop = "waiting" /\ Watchdog /\ sched = 0
  /\ Reopen
  /\ Arm
  /\ silence' = 0 /\ missed' = FALSE
  /\ UNCHANGED <<setting, phase, loop, result, watcher, stopped, manager>>

Fire ==
  /\ loop = "waiting" /\ setting.kind = "cron" /\ sched = 0
  /\ sched' = Off
  /\ Emit("fire")
  /\ UNCHANGED <<setting, phase, open, deadline, watcher, stopped, manager, silence,
                 missed>>

\* What follows a send that was received.  A success and a miss have the same
\* effect on the window.
SettledBefore == IF Scheduled THEN CloseWindow ELSE UNCHANGED <<open, deadline>>
Settled == IF Scheduled THEN CloseWindow ELSE OpenWindow

Sent ==
  /\ loop = "sending" /\ manager = NoResult
  /\ manager' = result
  /\ result' = NoResult
  /\ CASE setting.kind = "filewatch" -> Settled /\ sched' = sched /\ loop' = "waiting"
       [] setting.kind = "cron" -> Await /\ UNCHANGED <<open, deadline>>
       [] OTHER -> UNCHANGED timers /\ loop' = "waiting"
  /\ silence' = 0
  /\ UNCHANGED <<setting, phase, watcher, stopped, missed>>

\* The select hears Stop; the directory watcher, which is a goroutine beside an
\* Execute that never returns, only notices that its watcher is closed.
HeedsClosed == stopped /\ closed
Heeds == stopped /\ setting.kind # "filechange"
Halt ==
  /\ loop = "waiting"
  /\ Heeds \/ closed
  /\ loop' = "done"
  /\ deadline' = Off /\ sched' = Off
  /\ UNCHANGED <<setting, phase, result, open, watcher, stopped, manager, silence,
                 missed>>

-----------------------------------------------------------------------------
(* Around it.                                                              *)

Stop ==
  /\ ~stopped
  /\ stopped' = TRUE
  /\ UNCHANGED <<setting, phase, loop, result, timers, watcher, manager, silence,
                 missed>>

\* The second half of Stop; events not delivered are dropped.
CloseWatcher ==
  /\ stopped /\ ~closed /\ setting.kind # "cron"
  /\ closed' = TRUE
  /\ queue' = <<>> /\ waited' = 0
  /\ UNCHANGED <<setting, phase, loop, result, timers, last, stopped, manager,
                 silence, missed>>

Arrive(f) ==
  /\ loop \in {"waiting", "sending"} /\ setting.kind # "cron" /\ ~closed
  /\ Len(queue) < MaxQueue
  /\ queue' = Append(queue, f)
  /\ UNCHANGED <<setting, phase, loop, result, timers, waited, last, closed, stopped,
                 manager, silence, missed>>

\* TriggerManager.Run hands its result to the engine.
Forward ==
  /\ manager # NoResult
  /\ manager' = NoResult
  /\ UNCHANGED <<setting, phase, loop, result, timers, watcher, stopped, silence,
                 missed>>

\* The goroutine has something to do.
Busy ==
  \/ loop = "waiting" /\ (queue # <<>> \/ deadline = 0 \/ sched = 0 \/ stopped \/ closed)
  \/ loop = "sending" /\ manager = NoResult

Elapsed(timer) == IF timer > 0 THEN timer - 1 ELSE timer
Aged(age, cap) == IF age < cap THEN age + 1 ELSE age
Horizon == setting.within + setting.period

\* One unit of time.
Pass ==
  /\ ~Busy
  /\ phase' = IF phase + 1 < setting.period THEN phase + 1 ELSE 0
  /\ deadline' = Elapsed(deadline)
  /\ sched' = Elapsed(sched)
  /\ last' = [f \in Files |-> Aged(last[f], setting.debounce)]
  /\ silence' = Aged(silence, Horizon)
  /\ waited' = IF queue = <<>> THEN 0 ELSE Aged(waited, 1)
  /\ UNCHANGED <<setting, loop, result, open, queue, closed, stopped, manager, missed>>

Execute == Watch \/ StartCron
Select == TakeEvent \/ Expire \/ Tick \/ Fire \/ Halt

Next ==
  \/ Fails \/ Execute \/ Select \/ Sent
  \/ Stop \/ CloseWatcher \/ Forward \/ Pass
  \/ \E f \in Files : Arrive(f)

Spec == Init /\ [][Next]_vars

\* AddTrigger starts Execute; the select, the watcher and the manager go on.
Fairness ==
  /\ WF_vars(Fails \/ Execute) /\ WF_vars(Select) /\ WF_vars(Sent)
  /\ WF_vars(CloseWatcher) /\ WF_vars(Forward)

FairSpec == Spec /\ Fairness

-----------------------------------------------------------------------------
(* What the triggers promise.                                              *)

TypeOK ==
  /\ setting \in Settings /\ phase \in 0 .. setting.period - 1
  /\ loop \in {"off", "waiting", "sending", "done"}
  /\ result \in {NoResult, "success", "missing", "fire"}
  /\ manager \in {NoResult, "success", "missing", "fire"}
  /\ open \in BOOLEAN
  /\ deadline \in Off .. setting.within /\ sched \in Off .. setting.period
  /\ queue \in Seq(Files) /\ last \in [Files -> Nat]
  /\ stopped \in BOOLEAN /\ closed \in BOOLEAN /\ missed \in BOOLEAN
  /\ silence \in 0 .. Horizon /\ waited \in {0, 1}

Misses == loop = "waiting" /\ loop' = "sending" /\ result' = "missing"
Fires == loop = "waiting" /\ loop' = "sending" /\ result' = "fire"

\* A miss is reported only after a whole window without a result, a tick or a
\* start, however long an earlier result waited for the engine, and never while a
\* file that came before the deadline waits in the queue.
MissIsEarned ==
  [][Misses => silence >= setting.within /\ (queue = <<>> \/ waited = 0)]_vars

\* The watchdog is never silent for longer than a window: in watch mode all the
\* time, with a schedule from the tick to the end of its window.
NeverSilent ==
  (Watchdog /\ loop = "waiting" /\ (~Scheduled \/ open)) => silence <= setting.within

\* With a schedule at most one miss is reported from one tick to the next.
OneMissPerWindow == [][Misses /\ Scheduled => ~missed]_vars

\* What docs/actions/filewatch-trigger.md says of a schedule whose period is shorter
\* than the window: no miss is ever reported.
ShortPeriodIsSilent ==
  (setting.schedule \in {"interval", "cron"} /\ setting.period < setting.within)
    => result # "missing" /\ manager # "missing"

\* The cron trigger does not fire twice for one moment of its schedule, and an
\* interval is kept from the time its last result was taken.
FiresApart ==
  [][Fires => silence >= (IF setting.schedule = "interval" THEN setting.period ELSE 1)]_vars

\* Stop ends the goroutine, whatever it waits for: the send, which does not hear
\* Stop, ends because the engine goes on receiving.
StopEnds == stopped ~> (loop = "done")

-----------------------------------------------------------------------------
(* Why they hold.                                                          *)

\* The window and its timer agree, and the timer says how long it has been silent.
WindowOK ==
  Watchdog /\ loop = "waiting" =>
    /\ ~Scheduled => open
    /\ open => deadline >= 0 /\ deadline + silence = setting.within
    /\ ~open => deadline = Off
    /\ open /\ Scheduled => ~missed
    /\ open /\ waited > 0 => deadline > 0

\* The next tick comes before the end of a window that is longer than the period.
TickFirst ==
  Watchdog /\ setting.schedule \in {"interval", "cron"} /\ loop \in {"waiting", "sending"} =>
    /\ sched >= 0
    /\ (loop = "waiting" /\ open /\ setting.period < setting.within) => sched < deadline

CronOK ==
  setting.kind = "cron" /\ loop = "waiting" =>
    /\ sched >= 0
    /\ sched + silence >= (IF setting.schedule = "interval" THEN setting.period ELSE 1)

OthersOK ==
  /\ setting.kind # "filewatch" => deadline = Off /\ ~open
  /\ setting.kind = "filechange" => sched = Off

\* Nothing runs before Execute does.
OffOK == loop = "off" => /\ ~open /\ deadline = Off /\ sched = Off /\ ~missed
                         /\ queue = <<>> /\ waited = 0

Inv == TypeOK /\ WindowOK /\ TickFirst /\ CronOK /\ OthersOK /\ OffOK
         /\ NeverSilent /\ ShortPeriodIsSilent
=============================================================================
