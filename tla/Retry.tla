-------------------------------- MODULE Retry --------------------------------
(***************************************************************************)
(* One node that carries a retry policy, run for several executions at the *)
(* same time.  All the runs share one retryAction: its stop channel and    *)
(* its field inner.  Each run is a loop of attempts; an attempt builds a   *)
(* fresh action, lets it execute in a goroutine of its own and waits for   *)
(* whichever comes first of its result, its deadline and Stop.  A result   *)
(* goes through the events channel of the manager to the engine, which     *)
(* saves every attempt and routes the ones that are not to be retried.     *)
(*                                                                         *)
(* The payload of a result is reduced to what isFailure reads of it.       *)
(***************************************************************************)
EXTENDS Naturals, Sequences

CONSTANTS
  Runs,      \* calls of Execute, one per execution that reaches the node
  Policies,  \* policies PolicyFromNode may give the node
  Capacity,  \* results between the decorator and the engine
  DefaultBackoff, DefaultMax \* 1 s and 30 s, in the unit of the policies

\* max retries, base and cap of the backoff (0: unset), whether there is a
\* deadline.
Policy == [max : Nat, backoff : Nat, backoffMax : Nat, deadline : BOOLEAN]

ASSUME RetryAssumption ==
  /\ Policies \subseteq { p \in Policy : p.max > 0 \/ p.deadline }
  /\ Policies # {}
  /\ Capacity \in Nat \ {0}
  /\ DefaultBackoff \in Nat \ {0} /\ DefaultMax \in Nat \ {0}

VARIABLES
  policy,    \* the policy of the node
  remote,    \* it runs on a client, which posts its results
  loop,      \* where the loop of each run is
  attempt,   \* the attempt it is at, from one
  inner,     \* inner[r][i]: the goroutine and the private channel of attempt i
  latest,    \* the field inner: the action built last, <<run, attempt>>
  told,      \* the actions whose Stop was called
  result,    \* the result the loop is about to send
  stopped,   \* the stop channel is closed
  events,    \* results sent and not yet taken by the engine
  reported,  \* what each run has sent, in order
  saved,     \* what the engine has saved of each run
  routed     \* what the engine has routed of each run

attempts == <<policy, remote, attempt, inner, latest>>
engine == <<events, saved, routed>>
vars == <<policy, remote, loop, attempt, inner, latest, told, result, stopped, events,
          reported, saved, routed>>

-----------------------------------------------------------------------------
\* Attempts under policy p.
LastAttempt(p) == 1 + p.max

Outcomes == {"ok", "error"}
Result == [run : Runs, attempt : Nat, failed : BOOLEAN, timeout : BOOLEAN,
           retrying : BOOLEAN]
NoAction == <<>>
NoResult(r) == [run |-> r, attempt |-> 0, failed |-> FALSE, timeout |-> FALSE,
                retrying |-> FALSE]

Init ==
  /\ policy \in Policies /\ remote \in BOOLEAN
  /\ loop = [r \in Runs |-> "idle"]
  /\ attempt = [r \in Runs |-> 0]
  /\ inner = [r \in Runs |-> [i \in 1 .. LastAttempt(policy) |-> "none"]]
  /\ latest = NoAction /\ told = {}
  /\ result = [r \in Runs |-> NoResult(r)]
  /\ stopped = FALSE
  /\ events = <<>>
  /\ reported = [r \in Runs |-> <<>>]
  /\ saved = [r \in Runs |-> <<>>]
  /\ routed = [r \in Runs |-> <<>>]

At(r, pc) == loop' = [loop EXCEPT ![r] = pc]

\* The manager starts Execute in a goroutine.
Execute(r) ==
  /\ loop[r] = "idle"
  /\ At(r, "building")
  /\ attempt' = [attempt EXCEPT ![r] = 1]
  /\ UNCHANGED <<policy, remote, inner, latest, told, result, stopped, reported, engine>>

\* Is the result of attempt i to be followed by another one?
RetryingTimeouts(failed, timeout, i) == failed /\ i < LastAttempt(policy)
RetryingLast(failed, timeout, i) == failed /\ ~timeout /\ i <= LastAttempt(policy)
Retrying(failed, timeout, i) == failed /\ ~timeout /\ i < LastAttempt(policy)

\* The attempt is over, and the loop is about to send its result.
Ends(r, failed, timeout) ==
  /\ result' = [result EXCEPT ![r] =
       [run |-> r, attempt |-> attempt[r], failed |-> failed, timeout |-> timeout,
        retrying |-> Retrying(failed, timeout, attempt[r])]]
  /\ At(r, "sending")

\* The action cannot be built: an error like any other.
BuildFails(r) ==
  /\ loop[r] = "building"
  /\ Ends(r, TRUE, FALSE)
  /\ UNCHANGED <<attempts, told, stopped, reported, engine>>

Build(r) ==
  /\ loop[r] = "building"
  /\ inner' = [inner EXCEPT ![r][attempt[r]] = "running"]
  /\ latest' = <<r, attempt[r]>>
  /\ At(r, "waiting")
  /\ UNCHANGED <<policy, remote, attempt, told, result, stopped, reported, engine>>

\* The goroutine of an attempt puts its result in the private channel, whether
\* or not the loop still waits for it.
Finish(r, i, outcome) ==
  /\ inner[r][i] = "running"
  /\ inner' = [inner EXCEPT ![r][i] = outcome]
  /\ UNCHANGED <<policy, remote, loop, attempt, latest, told, result, stopped, reported, engine>>

\* The attempt whose channel a run waits on.
SharedWait(r) == latest
Awaited(r) == <<r, attempt[r]>>
Outcome(k) == inner[k[1]][k[2]]

Receive(r) ==
  /\ loop[r] = "waiting"
  /\ Outcome(Awaited(r)) \in Outcomes
  /\ Ends(r, Outcome(Awaited(r)) = "error", FALSE)
  /\ UNCHANGED <<attempts, told, stopped, reported, engine>>

\* The action that is stopped when a run gives up on its attempt.
GivenUpLatest(r) == latest
GivenUp(r) == <<r, attempt[r]>>

Deadline(r) ==
  /\ loop[r] = "waiting"
  /\ policy.deadline
  /\ told' = told \cup {GivenUp(r)}
  /\ Ends(r, TRUE, TRUE)
  /\ UNCHANGED <<attempts, stopped, reported, engine>>

\* The stop channel is one of the cases of the select.
Deaf == FALSE
Heard == stopped

\* Stop wins the select of a waiting attempt.
Interrupt(r) ==
  /\ loop[r] = "waiting"
  /\ Heard
  /\ told' = told \cup {GivenUp(r)}
  /\ At(r, "done")
  /\ UNCHANGED <<attempts, result, stopped, reported, engine>>

\* The send blocks while the engine is behind, Stop or no Stop.
Send(r) ==
  /\ loop[r] = "sending"
  /\ Len(events) < Capacity
  /\ events' = Append(events, result[r])
  /\ reported' = [reported EXCEPT ![r] = Append(@, result[r])]
  /\ At(r, IF result[r].retrying THEN "sleeping" ELSE "done")
  /\ UNCHANGED <<attempts, told, result, stopped, saved, routed>>

\* backoffFor: how long a run sleeps after attempt i under policy p.  Delays are the
\* values of its variable d, one for each turn of its loop.
Base(p) == IF p.backoff = 0 THEN DefaultBackoff ELSE p.backoff
Cap(p) == IF p.backoffMax = 0 THEN DefaultMax ELSE p.backoffMax
Delays(p) ==
  LET d[k \in Nat] == IF k = 0 THEN Base(p)
                      ELSE IF d[k - 1] >= Cap(p) THEN d[k - 1] ELSE 2 * d[k - 1]
  IN d
BackoffUncapped(p, i) == Delays(p)[i - 1]
BackoffFor(p, i) == IF Delays(p)[i - 1] > Cap(p) THEN Cap(p) ELSE Delays(p)[i - 1]

\* The backoff is over.  With Stop and the timer both ready either may win.
Wake(r) ==
  /\ loop[r] = "sleeping"
  /\ IF attempt[r] < LastAttempt(policy)
     THEN At(r, "building") /\ attempt' = [attempt EXCEPT ![r] = @ + 1]
     ELSE At(r, "done") /\ UNCHANGED attempt
  /\ UNCHANGED <<policy, remote, inner, latest, told, result, stopped, reported, engine>>

SleepInterrupted(r) ==
  /\ loop[r] = "sleeping"
  /\ Heard
  /\ At(r, "done")
  /\ UNCHANGED <<attempts, told, result, stopped, reported, engine>>

\* The runner of a client closes and stops every action; the server never does.  Stop
\* also reaches the action built last.
Stop ==
  /\ remote /\ ~stopped
  /\ stopped' = TRUE
  /\ told' = IF latest = NoAction THEN told ELSE told \cup {latest}
  /\ UNCHANGED <<attempts, loop, result, reported, engine>>

\* What the engine sees of a result: a post carries neither attempt nor retrying.
Seen(res) == IF remote THEN [res EXCEPT !.attempt = 0, !.retrying = FALSE] ELSE res

RoutesAll(res) == TRUE
Routes(res) == ~res.retrying

\* The engine, or on a client its loop by way of a post, takes a result: saved always,
\* routed unless it is to be retried.  The runner closes when that loop has returned:
\* after Stop nobody takes results any more.
Ingest ==
  /\ events # <<>> /\ ~stopped
  /\ events' = Tail(events)
  /\ LET res == Seen(Head(events))
     IN /\ saved' = [saved EXCEPT ![res.run] = Append(@, res)]
        /\ routed' = IF Routes(res) THEN [routed EXCEPT ![res.run] = Append(@, res)]
                     ELSE routed
  /\ UNCHANGED <<attempts, loop, told, result, stopped, reported>>

-----------------------------------------------------------------------------
LoopStep(r) ==
  \/ BuildFails(r) \/ Build(r)
  \/ Receive(r) \/ Deadline(r) \/ Interrupt(r)
  \/ Send(r) \/ Wake(r) \/ SleepInterrupted(r)

Next ==
  \/ \E r \in Runs : Execute(r)
  \/ \E r \in Runs : LoopStep(r)
  \/ \E r \in Runs, i \in 1 .. LastAttempt(policy), o \in Outcomes : Finish(r, i, o)
  \/ Stop
  \/ Ingest

Spec == Init /\ [][Next]_vars

\* The loops run, and until Stop results are taken.  The actions owe nothing: one that
\* never returns is the case deadlines and Stop are for.
Fairness == WF_vars(Ingest) /\ \A r \in Runs : WF_vars(LoopStep(r))

FairSpec == Spec /\ Fairness

-----------------------------------------------------------------------------
(* What the decorator promises.                                            *)

Loops == {"idle", "building", "waiting", "sending", "sleeping", "done"}
Key == { <<r, i>> : r \in Runs, i \in 1 .. LastAttempt(policy) }

TypeOK ==
  /\ policy \in Policies /\ remote \in BOOLEAN
  /\ loop \in [Runs -> Loops]
  /\ attempt \in [Runs -> 0 .. 1 + policy.max]
  /\ inner \in [Runs -> [1 .. LastAttempt(policy) -> {"none", "running"} \cup Outcomes]]
  /\ latest \in {NoAction} \cup Key /\ told \subseteq Key
  /\ result \in [Runs -> Result] /\ stopped \in BOOLEAN
  /\ events \in Seq(Result) /\ Len(events) <= Capacity
  /\ reported \in [Runs -> Seq(Result)]
  /\ saved \in [Runs -> Seq(Result)] /\ routed \in [Runs -> Seq(Result)]

\* A result that is not a timeout is the outcome of the attempt it is numbered
\* with, not of another attempt or of a run that shares the retryAction, and it
\* says what the action said; late results of abandoned attempts go nowhere.
OwnResult(res) ==
  res.timeout \/ /\ inner[res.run][res.attempt] # "running"
                 /\ res.failed <=> inner[res.run][res.attempt] # "ok"

ResultsAreOwn == \A r \in Runs : \A i \in DOMAIN reported[r] : OwnResult(reported[r][i])

RoutedOnce == \A r \in Runs : Len(routed[r]) <= 1

\* On the server the workflow advances at most once on a run of the node: the engine
\* does not route a retrying result, and nothing follows one that is not.
OneVerdict == ~remote => RoutedOnce

\* An action nobody waits for has been told to stop, although the runs share the
\* field that holds the action built last.
NoOrphan ==
  \A k \in Key : Outcome(k) = "running" =>
    (loop[k[1]] = "waiting" /\ attempt[k[1]] = k[2]) \/ k \in told

\* The sleeps double from the base and stay at the cap.
PowerOfTwo[n \in Nat] == IF n = 0 THEN 1 ELSE 2 * PowerOfTwo[n - 1]
Doubled(p, i) ==
  LET d == Base(p) * PowerOfTwo[i - 1] IN IF d < Cap(p) THEN d ELSE Cap(p)
SleepsDouble ==
  \A r \in Runs : loop[r] = "sleeping" =>
    BackoffFor(policy, attempt[r]) = Doubled(policy, attempt[r])

\* With a deadline a run concludes even when its action never returns, unless it
\* is stopped.
DeadlineConcludes ==
  \A r \in Runs :
    (policy.deadline /\ loop[r] = "building") ~> (routed[r] # <<>> \/ stopped)

\* Stop ends every run, whatever attempt or backoff it waits for, but for one that waits
\* for room in the channel of results: its send has no case for Stop and no reader.
StopEndsRuns ==
  \A r \in Runs :
    (stopped /\ loop[r] # "idle")
      ~> (loop[r] = "done" \/ (loop[r] = "sending" /\ Len(events) = Capacity))

\* What the runs have reported is what NodeRun allows.
Promise == INSTANCE NodeRun WITH
  limit <- LastAttempt(policy),
  reports <- reported,
  over <- [r \in Runs |-> loop[r] = "done"]

KeepsPromise == Promise!Spec

-----------------------------------------------------------------------------
(* Why: what is true of a run between two of its steps.                    *)

\* The shape of a run at each point of its loop.
RunOK(r) ==
  /\ loop[r] = "idle" => attempt[r] = 0 /\ reported[r] = <<>>
  /\ loop[r] # "idle" => attempt[r] \in 1 .. LastAttempt(policy)
  /\ loop[r] \in {"building", "waiting", "sending"} => Len(reported[r]) = attempt[r] - 1
  /\ loop[r] = "sleeping" => Len(reported[r]) = attempt[r] /\ attempt[r] < LastAttempt(policy)
  /\ Len(reported[r]) <= attempt[r]
  /\ loop[r] \in {"idle", "building"} =>
       \A i \in 1 .. LastAttempt(policy) : i >= attempt[r] => inner[r][i] = "none"
  /\ loop[r] \in {"waiting", "sending", "sleeping"} =>
       \A i \in 1 .. LastAttempt(policy) : i > attempt[r] => inner[r][i] = "none"
  /\ loop[r] = "waiting" => inner[r][attempt[r]] # "none"

\* The result a run is about to send.
SendingOK(r) ==
  loop[r] = "sending" =>
    /\ result[r].run = r /\ result[r].attempt = attempt[r]
    /\ result[r].timeout => result[r].failed
    /\ result[r].retrying = Retrying(result[r].failed, result[r].timeout, attempt[r])
    /\ OwnResult(result[r])

ReportsOK(r) ==
  \A i \in DOMAIN reported[r] :
    /\ reported[r][i].run = r /\ reported[r][i].attempt = i
    /\ OwnResult(reported[r][i])

\* The verdict of a run is the last of its results under way, and is routed once.
VerdictLast ==
  /\ \A i \in DOMAIN events : ~events[i].retrying => loop[events[i].run] = "done"
  /\ \A i, j \in DOMAIN events :
       i < j /\ events[i].run = events[j].run => events[i].retrying
  /\ \A r \in Runs : routed[r] # <<>> =>
       loop[r] = "done" /\ \A i \in DOMAIN events : events[i].run # r

Inv ==
  /\ TypeOK
  /\ \A r \in Runs : RunOK(r) /\ SendingOK(r) /\ ReportsOK(r)
  /\ NoOrphan
  /\ ~remote => VerdictLast /\ RoutedOnce
=============================================================================
