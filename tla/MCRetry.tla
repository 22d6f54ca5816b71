------------------------------- MODULE MCRetry -------------------------------
(* Policies for Retry: a deadline with and without a retry, and a cap that   *)
(* is met in between, and from the start.                                    *)
EXTENDS Retry

CONSTANTS r1, r2

Allowed(max, backoff, backoffMax, deadline) ==
  [max |-> max, backoff |-> backoff, backoffMax |-> backoffMax, deadline |-> deadline]

Chosen == { Allowed(0, 0, 0, TRUE), Allowed(1, 5, 0, TRUE), Allowed(2, 3, 0, FALSE) }
=============================================================================
