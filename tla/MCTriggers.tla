----------------------------- MODULE MCTriggers -----------------------------
(* Small triggers: windows of two and three units, periods below, at and   *)
(* above them.                                                             *)
EXTENDS Triggers

CONSTANTS f1, f2

Args(kind, schedule, periods, withins, debounces, onStart) ==
  [kind : {kind}, schedule : schedule, period : periods, within : withins,
   debounce : debounces, onStart : onStart]

Watchdogs ==
  Args("filewatch", {"none"}, {1}, {2, 3}, {0, 2}, {FALSE})
    \cup Args("filewatch", {"interval", "cron"}, {1, 2, 4}, {2}, {0, 2}, {FALSE})
    \cup Args("filewatch", {"never"}, {1}, {2}, {0}, {FALSE})
Others ==
  Args("filechange", {"none"}, {1}, {1}, {0, 2}, {FALSE})
    \cup Args("cron", {"interval", "cron", "never"}, {1, 3}, {1}, {0}, BOOLEAN)
All == Watchdogs \cup Others
=============================================================================
