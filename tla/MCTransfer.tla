----------------------------- MODULE MCTransfer -----------------------------
(* A scale model of Transfer: an upload carries two bytes of the three that *)
(* a chunk may have, and a session holds three chunks.                      *)
EXTENDS Transfer, TLC

CONSTANTS r1, r2

\* An empty file, one of two uploads, one that only the cap lets through, and
\* one over the cap.
Every == {0, 3, 7, 10}
Relayable == {0, 3}
All == {"fine", "name", "mode"}
Fine == {"fine"}

Budgeted(uploads, downloads, completions, statuses, crashes, others) ==
  ("uploads" :> uploads) @@ ("downloads" :> downloads) @@ ("completions" :> completions)
    @@ ("statuses" :> statuses) @@ ("crashes" :> crashes) @@ ("others" :> others)
Faults == Budgeted(1, 1, 1, 1, 1, 0)
Downloads == Budgeted(0, 2, 0, 0, 0, 1)
=============================================================================
