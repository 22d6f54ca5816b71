------------------------------ MODULE MCRunner ------------------------------
(* A workflow of a trigger and a node whose credential comes and goes.     *)
EXTENDS Runner, TLC

CONSTANTS t, a, k, s1, i1, i2

Def(trigger, action) == (t :> trigger) @@ (a :> action)
Edits == { Def(None, k), Def("absent", None), Def("bad", "bad"), Def("elsewhere", "absent") }
=============================================================================
