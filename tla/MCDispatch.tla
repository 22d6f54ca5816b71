----------------------------- MODULE MCDispatch -----------------------------
(* Small workflows for Dispatch, and the definitions an operator may switch *)
(* between while they run.                                                  *)
EXTENDS Dispatch, TLC

CONSTANTS c1, c2, c3, t, a, b, d

\* t -> a -> b: with ChainDef, two handoffs between clients.
ChainEdges == (t :> {a}) @@ (a :> {b}) @@ (b :> {})
ChainDef == (t :> {c1}) @@ (a :> {c2}) @@ (b :> {c1})

\* The same chain after an edit that took b out.
ShortDef == (t :> {c1}) @@ (a :> {c2})

\* t -> a, a handoff, and t -> d, which the client of t goes on with itself.
ForkEdges == (t :> {a, d}) @@ (a :> {}) @@ (d :> {})
ForkDef == (t :> {c1}) @@ (a :> {c2}) @@ (d :> {c1})

\* a is targeted by a tag that two clients carry.
TagDef == (t :> {c1}) @@ (a :> {c2, c3}) @@ (b :> {c1})

OnlyFork == {ForkDef}
OnlyTag == {TagDef}
Edited == {ChainDef, ShortDef}

\* Budgets: which failures and edits a run allows.
Budgeted(fires, edits, drops, queries, fetches, crashes, reboots) ==
  ("fires" :> fires) @@ ("edits" :> edits) @@ ("drops" :> drops) @@ ("queries" :> queries)
    @@ ("fetches" :> fetches) @@ ("crashes" :> crashes) @@ ("reboots" :> reboots)
Faults == Budgeted(1, 1, 1, 1, 0, 1, 1)
\* A timer that fires twice: the second firing has the execution id of the first.
Crashes == Budgeted(2, 0, 0, 0, 1, 1, 0)
FireOnce == Budgeted(1, 0, 0, 0, 0, 0, 0)
=============================================================================
