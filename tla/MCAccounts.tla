----------------------------- MODULE MCAccounts -----------------------------
(* Two admins in the default tenant and anyone in another, two requests at *)
(* a time.                                                                 *)
EXTENDS Accounts, TLC

CONSTANTS default, acme, root, ann, u1, u2, s1, r1, r2

Held == {<<default, root>>, <<default, ann>>, <<acme, root>>}
Wanted == [account \in Held |->
  IF account[1] = default THEN {"admin"} ELSE {"viewer", "admin"}]
Alike == Permutations({u1, u2}) \cup Permutations({r1, r2})
=============================================================================
