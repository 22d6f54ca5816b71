------------------------------- MODULE NodeRun -------------------------------
(***************************************************************************)
(* What running a node under a retry policy promises its engine: a         *)
(* sequence of reports, numbered from one, of which only the last is a     *)
(* verdict the workflow may advance on.  A run may also end without one,   *)
(* when it is stopped.                                                     *)
(***************************************************************************)
EXTENDS Naturals, Sequences

CONSTANT Runs \* runs of the node

VARIABLES
  limit,    \* attempts of a run under the policy of the node
  reports,  \* reports[r]: what run r has told the engine so far
  over      \* over[r]: run r says nothing more

vars == <<limit, reports, over>>

Init ==
  /\ limit \in Nat \ {0}
  /\ reports = [r \in Runs |-> <<>>]
  /\ over = [r \in Runs |-> FALSE]

\* A failure that is going to be tried again: never a timeout, never the last.
Retry(r) ==
  /\ ~over[r]
  /\ Len(reports[r]) + 1 < limit
  /\ reports' = [reports EXCEPT ![r] =
       Append(@, [run |-> r, attempt |-> Len(@) + 1, failed |-> TRUE,
                  timeout |-> FALSE, retrying |-> TRUE])]
  /\ UNCHANGED <<limit, over>>

\* The verdict.  A failure is one only when it timed out or nothing is left.
Conclude(r, failed, timeout) ==
  /\ ~over[r]
  /\ timeout => failed
  /\ failed => timeout \/ Len(reports[r]) + 1 = limit
  /\ Len(reports[r]) < limit
  /\ reports' = [reports EXCEPT ![r] =
       Append(@, [run |-> r, attempt |-> Len(@) + 1, failed |-> failed,
                  timeout |-> timeout, retrying |-> FALSE])]
  /\ over' = [over EXCEPT ![r] = TRUE]
  /\ UNCHANGED limit

Abandon(r) ==
  /\ ~over[r]
  /\ over' = [over EXCEPT ![r] = TRUE]
  /\ UNCHANGED <<limit, reports>>

Next == \E r \in Runs :
  \/ Retry(r)
  \/ \E failed, timeout \in BOOLEAN : Conclude(r, failed, timeout)
  \/ Abandon(r)

Spec == Init /\ [][Next]_vars
=============================================================================
