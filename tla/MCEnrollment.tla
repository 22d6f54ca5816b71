---------------------------- MODULE MCEnrollment ----------------------------
(* Two clients that join with one token.                                   *)
EXTENDS Enrollment, TLC

CONSTANTS c1, c2, i1, i2, t1, h1, h2
=============================================================================
