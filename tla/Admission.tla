----------------------------- MODULE Admission -----------------------------
(***************************************************************************)
(* Who may act on the server, as an account holder sees it: a set of users *)
(* who are in.  Whoever was barred never comes back.  Nobody of a tenant   *)
(* that is shut is in, as long as the door can read that it is shut.       *)
(***************************************************************************)
CONSTANT People

VARIABLES
  in,      \* users whose session the server takes
  barred,  \* users whose account was revoked
  shut,    \* users whose tenant is suspended
  unread   \* users whose tenant's status cannot be read

state == <<in, barred, shut, unread>>

Turned == shut \ unread   \* whom the door turns away for their tenant

Init == in = {} /\ barred = {} /\ shut \in SUBSET People /\ unread \in SUBSET People

Enter(p) ==
  /\ p \notin barred \cup Turned
  /\ in' = in \cup {p}
  /\ UNCHANGED <<barred, shut, unread>>

\* Sessions end, whichever way.
Leave == in' \subseteq in /\ UNCHANGED <<barred, shut, unread>>

Bar(p) == barred' = barred \cup {p} /\ in' = in \ {p} /\ UNCHANGED <<shut, unread>>

\* Tenants are suspended or activated, or become readable or unreadable: whoever is
\* turned away from now on is out, and of those that were, some come back, with the
\* sessions that lasted.
Change ==
  /\ shut' \in SUBSET People /\ unread' \in SUBSET People
  /\ in \ Turned' \subseteq in'
  /\ in' \subseteq (in \cup Turned) \ (Turned' \cup barred)
  /\ UNCHANGED barred

Next ==
  \/ \E p \in People : Enter(p) \/ Bar(p)
  \/ Leave
  \/ Change

Spec == Init /\ [][Next]_state
=============================================================================
