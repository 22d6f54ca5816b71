--------------------------- MODULE Accounts_proofs ---------------------------
(* The promises of tenants, users and sessions, for any of them and any requests. *)
EXTENDS Accounts, TLAPS

LEMMA Rows ==
  /\ Idle \in Request /\ Blank \in UserRow /\ First \in UserRow
  /\ Idle.at = "idle" /\ Idle.op = "login"
  /\ First.status = "live" /\ First.role = "admin" /\ First.account = <<Default, Admin>>
  /\ First.account[1] = Default
BY AccountsAssumption DEF Idle, Blank, First, Request, UserRow, Roles

USE AccountsAssumption DEF registry, history, vars

(* What the two ends of a step do to its request.                          *)

LEMMA GoesOn ==
  ASSUME TypeOK, NEW r \in Requests,
         NEW step \in {"granted", "checked", "marked", "free", "provisioned"}, Goes(r, step)
  PROVE  /\ req' \in [Requests -> Request]
         /\ req'[r].at = step /\ req'[r].op = req[r].op /\ req'[r].by = req[r].by
         /\ req'[r].account = req[r].account /\ req'[r].role = req[r].role
         /\ req'[r].target = req[r].target
         /\ \A q \in Requests \ {r} : req'[q] = req[q]
BY DEF TypeOK, Goes, Request

LEMMA Ends ==
  ASSUME TypeOK, NEW r \in Requests, Done(r)
  PROVE  /\ req' \in [Requests -> Request]
         /\ req'[r] = Idle
         /\ \A q \in Requests \ {r} : req'[q] = req[q]
BY Rows DEF TypeOK, Done

(* Each step keeps Inv.  Logins write sessions only.                       *)

LEMMA VerifyKeeps ==
  ASSUME Inv, NEW r \in Requests, NEW account \in Account, Verify(r, account), UNCHANGED failing
  PROVE  Inv'
<1>1. TypeOK'
  BY Rows DEF Inv, TypeOK, Request, UserRow, Roles, Verify, Named, Live, Status
<1>2. Authorized'
  BY Rows DEF Inv, TypeOK, Request, UserRow, Roles, Verify, Named, Live, Authorized, Exists
<1>3. FoundFree'
  BY Rows DEF Inv, TypeOK, Request, UserRow, Roles, Verify, Named, Live, FoundFree, Exists
<1>4. Provisioning'
  BY Rows DEF Inv, TypeOK, Request, UserRow, Roles, Verify, Named, Live, Provisioning
<1>5. AdminsForTenants'
  BY Rows DEF Inv, TypeOK, Request, UserRow, Roles, Verify, Named, Live, AdminsForTenants
<1>6. LinksAdmins'
  BY Rows DEF Inv, TypeOK, Request, UserRow, Roles, Verify, Named, Live, LinksAdmins,
     AdminsForTenants, Exists
<1>7. SessionsAreOwned'
  BY Rows DEF Inv, TypeOK, Request, UserRow, Roles, Verify, Named, Live, SessionsAreOwned, Exists
<1>8. NamesAreUnique'
  BY Rows DEF Inv, TypeOK, Request, UserRow, Roles, Verify, Named, Live, NamesAreUnique,
     FoundFree, Exists
<1>9. SuperuserRemains'
  BY Rows DEF Inv, TypeOK, Request, UserRow, Roles, Verify, Named, Live, SuperuserRemains,
     Authorized, Super, Exists, TenantOf, Reaches
<1>10. TenantsHaveAdmins'
  BY Rows DEF Inv, TypeOK, Request, UserRow, Roles, Verify, Named, Live, TenantsHaveAdmins,
     Provisioning, LinksAdmins, Exists, TenantOf
<1> QED BY <1>1, <1>2, <1>3, <1>4, <1>5, <1>6, <1>7, <1>8, <1>9, <1>10 DEF Inv

LEMMA GrantKeeps ==
  ASSUME Inv, NEW r \in Requests, Grant(r), UNCHANGED failing
  PROVE  Inv'
<1>1. ASSUME Goes(r, "granted"),
           UNCHANGED <<registry, user, session, history>>
      PROVE  Inv'
  <2>0. req[r].at = "verified"
    BY DEF Grant
  <2>a. /\ req' \in [Requests -> Request]
        /\ \A q \in Requests \ {r} : req'[q] = req[q]
        /\ req'[r].at = "granted" /\ req'[r].op = req[r].op /\ req'[r].by = req[r].by
        /\ req'[r].account = req[r].account /\ req'[r].role = req[r].role
        /\ req'[r].target = req[r].target
    BY <1>1, GoesOn DEF Inv
  <2>1. TypeOK'
    BY <1>1, <2>0, <2>a, Rows DEF Inv, TypeOK, Request, UserRow, Roles, Status
  <2>2. Authorized'
    BY <1>1, <2>0, <2>a, Rows DEF Inv, TypeOK, Request, UserRow, Roles, Status, Authorized, Exists
  <2>3. FoundFree'
    BY <1>1, <2>0, <2>a, Rows DEF Inv, TypeOK, Request, UserRow, Roles, Status, FoundFree,
       Named, Exists
  <2>4. Provisioning'
    BY <1>1, <2>0, <2>a, Rows DEF Inv, TypeOK, Request, UserRow, Roles, Status, Provisioning
  <2>5. AdminsForTenants'
    BY <1>1, <2>0, <2>a, Rows DEF Inv, TypeOK, Request, UserRow, Roles, Status, AdminsForTenants
  <2>6. LinksAdmins'
    BY <1>1, <2>0, <2>a, Rows DEF Inv, TypeOK, Request, UserRow, Roles, Status, LinksAdmins,
       AdminsForTenants, Exists
  <2>7. SessionsAreOwned'
    BY <1>1, <2>0, <2>a, Rows DEF Inv, TypeOK, Request, UserRow, Roles, Status,
       SessionsAreOwned, Exists
  <2>8. NamesAreUnique'
    BY <1>1, <2>0, <2>a, Rows DEF Inv, TypeOK, Request, UserRow, Roles, Status, NamesAreUnique,
       FoundFree, Named, Exists
  <2>9. SuperuserRemains'
    BY <1>1, <2>0, <2>a, Rows DEF Inv, TypeOK, Request, UserRow, Roles, Status,
       SuperuserRemains, Authorized, Super, Live, Exists, TenantOf, Reaches
  <2>10. TenantsHaveAdmins'
    BY <1>1, <2>0, <2>a, Rows DEF Inv, TypeOK, Request, UserRow, Roles, Status,
       TenantsHaveAdmins, Provisioning, LinksAdmins, Exists, TenantOf
  <2> QED BY <2>1, <2>2, <2>3, <2>4, <2>5, <2>6, <2>7, <2>8, <2>9, <2>10 DEF Inv
<1>2. ASSUME Done(r),
           UNCHANGED <<registry, user, session, history>>
      PROVE  Inv'
  <2>0. req[r].at = "verified"
    BY DEF Grant
  <2>a. /\ req' \in [Requests -> Request]
        /\ \A q \in Requests \ {r} : req'[q] = req[q]
        /\ req'[r] = Idle
    BY <1>2, Ends DEF Inv
  <2>1. TypeOK'
    BY <1>2, <2>0, <2>a, Rows DEF Inv, TypeOK, Request, UserRow, Roles, Status
  <2>2. Authorized'
    BY <1>2, <2>0, <2>a, Rows DEF Inv, TypeOK, Authorized, Exists
  <2>3. FoundFree'
    BY <1>2, <2>0, <2>a, Rows DEF Inv, TypeOK, Request, UserRow, Roles, Status, FoundFree,
       Named, Exists
  <2>4. Provisioning'
    BY <1>2, <2>0, <2>a, Rows DEF Inv, TypeOK, Request, UserRow, Roles, Status, Provisioning
  <2>5. AdminsForTenants'
    BY <1>2, <2>0, <2>a, Rows DEF Inv, TypeOK, AdminsForTenants
  <2>6. LinksAdmins'
    BY <1>2, <2>0, <2>a, Rows DEF Inv, TypeOK, LinksAdmins,
       AdminsForTenants, Exists
  <2>7. SessionsAreOwned'
    BY <1>2, <2>0, <2>a, Rows DEF Inv, TypeOK, Request, UserRow, Roles, Status,
       SessionsAreOwned, Exists
  <2>8. NamesAreUnique'
    BY <1>2, <2>0, <2>a, Rows DEF Inv, TypeOK, Request, UserRow, Roles, Status, NamesAreUnique,
       FoundFree, Named, Exists
  <2>9. SuperuserRemains'
    BY <1>2, <2>0, <2>a, Rows DEF Inv, TypeOK, Request, UserRow, Roles, Status,
       SuperuserRemains, Authorized, Super, Live, Exists, TenantOf, Reaches
  <2>10. TenantsHaveAdmins'
    BY <1>2, <2>0, <2>a, Rows DEF Inv, TypeOK, Request, UserRow, Roles, Status,
       TenantsHaveAdmins, Provisioning, LinksAdmins, Exists, TenantOf
  <2> QED BY <2>1, <2>2, <2>3, <2>4, <2>5, <2>6, <2>7, <2>8, <2>9, <2>10 DEF Inv
<1> QED BY <1>1, <1>2 DEF Grant, Goes, Done, Is

LEMMA MintKeeps ==
  ASSUME Inv, NEW r \in Requests, NEW s \in Sessions, Mint(r, s), UNCHANGED failing
  PROVE  Inv'
<1>1. TypeOK'
  BY Rows DEF Inv, TypeOK, Request, UserRow, Roles, Mint, Done, Status
<1>2. Authorized'
  BY Rows DEF Inv, TypeOK, Request, UserRow, Roles, Mint, Done, Authorized, Exists
<1>3. FoundFree'
  BY Rows DEF Inv, TypeOK, Request, UserRow, Roles, Mint, Done, FoundFree, Named, Exists
<1>4. Provisioning'
  BY Rows DEF Inv, TypeOK, Request, UserRow, Roles, Mint, Done, Provisioning
<1>5. AdminsForTenants'
  BY Rows DEF Inv, TypeOK, Request, UserRow, Roles, Mint, Done, AdminsForTenants
<1>6. LinksAdmins'
  BY Rows DEF Inv, TypeOK, Request, UserRow, Roles, Mint, Done, LinksAdmins, AdminsForTenants,
     Exists
<1>7. SessionsAreOwned'
  BY Rows DEF Inv, TypeOK, Request, UserRow, Roles, Mint, Done, SessionsAreOwned, Exists
<1>8. NamesAreUnique'
  BY Rows DEF Inv, TypeOK, Request, UserRow, Roles, Mint, Done, NamesAreUnique, FoundFree,
     Named, Exists
<1>9. SuperuserRemains'
  BY Rows DEF Inv, TypeOK, Request, UserRow, Roles, Mint, Done, SuperuserRemains, Authorized,
     Super, Live, Exists, TenantOf, Reaches
<1>10. TenantsHaveAdmins'
  BY Rows DEF Inv, TypeOK, Request, UserRow, Roles, Mint, Done, TenantsHaveAdmins, Provisioning,
     LinksAdmins, Exists, TenantOf
<1> QED BY <1>1, <1>2, <1>3, <1>4, <1>5, <1>6, <1>7, <1>8, <1>9, <1>10 DEF Inv

(* Users: what a request has read before it goes on stays true, or the     *)
(* condition that names it allows for the change.                          *)

LEMMA RequestUserKeeps ==
  ASSUME Inv, NEW r \in Requests, NEW by \in Callers, NEW account \in Account, NEW role \in Roles,
         RequestUser(r, by, account, role), UNCHANGED failing
  PROVE  Inv'
<1>1. TypeOK'
  BY Rows DEF Inv, TypeOK, Request, UserRow, Roles, RequestUser, Admit, MayCall, Callers, Opens,
     Live, Status
<1>2. Authorized'
  BY Rows DEF Inv, TypeOK, Request, UserRow, Roles, RequestUser, Admit, MayCall, Callers, Opens,
     Live, Authorized, Exists
<1>3. FoundFree'
  BY Rows DEF Inv, TypeOK, Request, UserRow, Roles, RequestUser, Admit, MayCall, Callers, Opens,
     Live, FoundFree, Named, Exists
<1>4. Provisioning'
  BY Rows DEF Inv, TypeOK, Request, UserRow, Roles, RequestUser, Admit, MayCall, Callers, Opens,
     Live, Provisioning
<1>5. AdminsForTenants'
  BY Rows DEF Inv, TypeOK, Request, UserRow, Roles, RequestUser, Admit, MayCall, Callers, Opens,
     Live, AdminsForTenants
<1>6. LinksAdmins'
  BY Rows DEF Inv, TypeOK, Request, UserRow, Roles, RequestUser, Admit, MayCall, Callers, Opens,
     Live, LinksAdmins, AdminsForTenants, Exists
<1>7. SessionsAreOwned'
  BY Rows DEF Inv, TypeOK, Request, UserRow, Roles, RequestUser, Admit, MayCall, Callers, Opens,
     Live, SessionsAreOwned, Exists
<1>8. NamesAreUnique'
  BY Rows DEF Inv, TypeOK, Request, UserRow, Roles, RequestUser, Admit, MayCall, Callers, Opens,
     Live, NamesAreUnique, FoundFree, Named, Exists
<1>9. SuperuserRemains'
  BY Rows DEF Inv, TypeOK, Request, UserRow, Roles, RequestUser, Admit, MayCall, Callers, Opens,
     Live, SuperuserRemains, Authorized, Super, Exists, TenantOf, Reaches
<1>10. TenantsHaveAdmins'
  BY Rows DEF Inv, TypeOK, Request, UserRow, Roles, RequestUser, Admit, MayCall, Callers, Opens,
     Live, TenantsHaveAdmins, Provisioning, LinksAdmins, Exists, TenantOf
<1> QED BY <1>1, <1>2, <1>3, <1>4, <1>5, <1>6, <1>7, <1>8, <1>9, <1>10 DEF Inv

LEMMA RequestRevokeKeeps ==
  ASSUME Inv, NEW r \in Requests, NEW by \in Callers, NEW target \in Users,
         RequestRevoke(r, by, target), UNCHANGED failing
  PROVE  Inv'
<1>1. TypeOK'
  BY Rows DEF Inv, TypeOK, Request, UserRow, Roles, RequestRevoke, Admit, MayCall, MayTarget,
     Callers, Opens, Live, Status
<1>2. Authorized'
  BY Rows DEF Inv, TypeOK, Request, UserRow, Roles, RequestRevoke, Admit, MayCall, MayTarget,
     Callers, Opens, Live, Authorized, Exists
<1>3. FoundFree'
  BY Rows DEF Inv, TypeOK, Request, UserRow, Roles, RequestRevoke, Admit, MayCall, MayTarget,
     Callers, Opens, Live, FoundFree, Named, Exists
<1>4. Provisioning'
  BY Rows DEF Inv, TypeOK, Request, UserRow, Roles, RequestRevoke, Admit, MayCall, MayTarget,
     Callers, Opens, Live, Provisioning
<1>5. AdminsForTenants'
  BY Rows DEF Inv, TypeOK, Request, UserRow, Roles, RequestRevoke, Admit, MayCall, MayTarget,
     Callers, Opens, Live, AdminsForTenants
<1>6. LinksAdmins'
  BY Rows DEF Inv, TypeOK, Request, UserRow, Roles, RequestRevoke, Admit, MayCall, MayTarget,
     Callers, Opens, Live, LinksAdmins, AdminsForTenants, Exists
<1>7. SessionsAreOwned'
  BY Rows DEF Inv, TypeOK, Request, UserRow, Roles, RequestRevoke, Admit, MayCall, MayTarget,
     Callers, Opens, Live, SessionsAreOwned, Exists
<1>8. NamesAreUnique'
  BY Rows DEF Inv, TypeOK, Request, UserRow, Roles, RequestRevoke, Admit, MayCall, MayTarget,
     Callers, Opens, Live, NamesAreUnique, FoundFree, Named, Exists
<1>9. SuperuserRemains'
  BY Rows DEF Inv, TypeOK, Request, UserRow, Roles, RequestRevoke, Admit, MayCall, MayTarget,
     Callers, Opens, Live, SuperuserRemains, Authorized, Super, Exists, TenantOf, Reaches
<1>10. TenantsHaveAdmins'
  BY Rows DEF Inv, TypeOK, Request, UserRow, Roles, RequestRevoke, Admit, MayCall, MayTarget,
     Callers, Opens, Live, TenantsHaveAdmins, Provisioning, LinksAdmins, Exists, TenantOf
<1> QED BY <1>1, <1>2, <1>3, <1>4, <1>5, <1>6, <1>7, <1>8, <1>9, <1>10 DEF Inv

LEMMA CheckUserKeeps ==
  ASSUME Inv, NEW r \in Requests, CheckUser(r), UNCHANGED failing
  PROVE  Inv'
<1>1. ASSUME Done(r),
           UNCHANGED <<registry, user, session, history>>
      PROVE  Inv'
  <2>0. req[r].op = "user" /\ req[r].at = "authorized"
    BY DEF CheckUser, Is
  <2>a. /\ req' \in [Requests -> Request]
        /\ \A q \in Requests \ {r} : req'[q] = req[q]
        /\ req'[r] = Idle
    BY <1>1, Ends DEF Inv
  <2>1. TypeOK'
    BY <1>1, <2>0, <2>a, Rows DEF Inv, TypeOK, Request, UserRow, Roles, Status, Taken
  <2>2. Authorized'
    BY <1>1, <2>0, <2>a, Rows DEF Inv, TypeOK, Request, UserRow, Roles, Status, Taken,
       Authorized, Exists
  <2>3. FoundFree'
    BY <1>1, <2>0, <2>a, Rows DEF Inv, TypeOK, Request, UserRow, Roles, Status, Taken,
       FoundFree, Named, Exists
  <2>4. Provisioning'
    BY <1>1, <2>0, <2>a, Rows DEF Inv, TypeOK, Request, UserRow, Roles, Status, Taken,
       Provisioning
  <2>5. AdminsForTenants'
    BY <2>a DEF Inv, AdminsForTenants, Idle
  <2>6. LinksAdmins'
    BY <1>1, <2>0, <2>a, Rows DEF Inv, TypeOK, Request, UserRow, Roles, Status, Taken,
       LinksAdmins, AdminsForTenants, Exists
  <2>7. SessionsAreOwned'
    BY <1>1, <2>0, <2>a, Rows DEF Inv, TypeOK, Request, UserRow, Roles, Status, Taken,
       SessionsAreOwned, Exists
  <2>8. NamesAreUnique'
    BY <1>1, <2>0, <2>a, Rows DEF Inv, TypeOK, Request, UserRow, Roles, Status, Taken,
       NamesAreUnique, FoundFree, Named, Exists
  <2>9. SuperuserRemains'
    BY <1>1, <2>0, <2>a, Rows DEF Inv, TypeOK, Request, UserRow, Roles, Status, Taken,
       SuperuserRemains, Authorized, Super, Live, Exists, TenantOf, Reaches
  <2>10. TenantsHaveAdmins'
    BY <1>1, <2>0, <2>a, Rows DEF Inv, TypeOK, Request, UserRow, Roles, Status, Taken,
       TenantsHaveAdmins, Provisioning, LinksAdmins, Exists, TenantOf
  <2> QED BY <2>1, <2>2, <2>3, <2>4, <2>5, <2>6, <2>7, <2>8, <2>9, <2>10 DEF Inv
<1>2. ASSUME Goes(r, "checked"),
           ~Taken(req[r].account),
           UNCHANGED <<registry, user, session, history>>
      PROVE  Inv'
  <2>0. req[r].op = "user" /\ req[r].at = "authorized"
    BY DEF CheckUser, Is
  <2>a. /\ req' \in [Requests -> Request]
        /\ \A q \in Requests \ {r} : req'[q] = req[q]
        /\ req'[r].at = "checked" /\ req'[r].op = req[r].op /\ req'[r].by = req[r].by
        /\ req'[r].account = req[r].account /\ req'[r].role = req[r].role
        /\ req'[r].target = req[r].target
    BY <1>2, GoesOn DEF Inv
  <2>1. TypeOK'
    BY <1>2, <2>0, <2>a, Rows DEF Inv, TypeOK, Request, UserRow, Roles, Status, Taken
  <2>2. Authorized'
    BY <1>2, <2>0, <2>a, Rows DEF Inv, TypeOK, Request, UserRow, Roles, Status, Taken,
       Authorized, Exists
  <2>3. FoundFree'
    BY <1>2, <2>0, <2>a, Rows DEF Inv, TypeOK, Request, UserRow, Roles, Status, Taken,
       FoundFree, Named, Exists
  <2>4. Provisioning'
    BY <1>2, <2>0, <2>a, Rows, SMTT(30) DEF Inv, TypeOK, Request, UserRow, Roles, Status, Taken,
       Provisioning
  <2>5. AdminsForTenants'
    BY <1>2, <2>0, <2>a, Rows, SMTT(30) DEF Inv, TypeOK, Request, UserRow, Roles, Status, Taken,
       AdminsForTenants
  <2>6. LinksAdmins'
    BY <1>2, <2>0, <2>a, Rows, SMTT(30) DEF Inv, TypeOK, Request, UserRow, Roles, Status, Taken,
       LinksAdmins, AdminsForTenants, Exists
  <2>7. SessionsAreOwned'
    BY <1>2, <2>0, <2>a, Rows DEF Inv, TypeOK, Request, UserRow, Roles, Status, Taken,
       SessionsAreOwned, Exists
  <2>8. NamesAreUnique'
    BY <1>2, <2>0, <2>a, Rows DEF Inv, TypeOK, Request, UserRow, Roles, Status, Taken,
       NamesAreUnique, FoundFree, Named, Exists
  <2>9. SuperuserRemains'
    BY <1>2, <2>0, <2>a, Rows DEF Inv, TypeOK, Request, UserRow, Roles, Status, Taken,
       SuperuserRemains, Authorized, Super, Live, Exists, TenantOf, Reaches
  <2>10. TenantsHaveAdmins'
    BY <1>2, <2>0, <2>a, Rows DEF Inv, TypeOK, Request, UserRow, Roles, Status, Taken,
       TenantsHaveAdmins, Provisioning, LinksAdmins, Exists, TenantOf
  <2> QED BY <2>1, <2>2, <2>3, <2>4, <2>5, <2>6, <2>7, <2>8, <2>9, <2>10 DEF Inv
<1> QED BY <1>1, <1>2 DEF CheckUser, Goes, Done, Is

LEMMA FailUserKeeps ==
  ASSUME Inv, NEW r \in Requests, FailUser(r), UNCHANGED failing
  PROVE  Inv'
<1>1. TypeOK'
  BY Rows DEF Inv, TypeOK, Request, UserRow, Roles, FailUser, Is, Done, Status
<1>2. Authorized'
  BY Rows DEF Inv, TypeOK, Request, UserRow, Roles, FailUser, Is, Done, Authorized, Exists
<1>3. FoundFree'
  BY Rows DEF Inv, TypeOK, Request, UserRow, Roles, FailUser, Is, Done, FoundFree, Named, Exists
<1>4. Provisioning'
  BY Rows DEF Inv, TypeOK, Request, UserRow, Roles, FailUser, Is, Done, Provisioning
<1>5. AdminsForTenants'
  BY Rows DEF Inv, TypeOK, Request, UserRow, Roles, FailUser, Is, Done, AdminsForTenants
<1>6. LinksAdmins'
  BY Rows DEF Inv, TypeOK, Request, UserRow, Roles, FailUser, Is, Done, LinksAdmins,
     AdminsForTenants, Exists
<1>7. SessionsAreOwned'
  BY Rows DEF Inv, TypeOK, Request, UserRow, Roles, FailUser, Is, Done, SessionsAreOwned, Exists
<1>8. NamesAreUnique'
  BY Rows DEF Inv, TypeOK, Request, UserRow, Roles, FailUser, Is, Done, NamesAreUnique,
     FoundFree, Named, Exists
<1>9. SuperuserRemains'
  BY Rows DEF Inv, TypeOK, Request, UserRow, Roles, FailUser, Is, Done, SuperuserRemains,
     Authorized, Super, Live, Exists, TenantOf, Reaches
<1>10. TenantsHaveAdmins'
  BY Rows DEF Inv, TypeOK, Request, UserRow, Roles, FailUser, Is, Done, TenantsHaveAdmins,
     Provisioning, LinksAdmins, Exists, TenantOf
<1> QED BY <1>1, <1>2, <1>3, <1>4, <1>5, <1>6, <1>7, <1>8, <1>9, <1>10 DEF Inv

\* The last super administrator cannot be the target: it may not revoke itself, and no
\* other account may revoke it.
LEMMA RevokeKeeps ==
  ASSUME Inv, NEW r \in Requests, Revoke(r), UNCHANGED failing
  PROVE  Inv'
<1>1. ASSUME Done(r),
           UNCHANGED <<registry, user, session, history>>
      PROVE  Inv'
  <2>0. req[r].op = "revoke" /\ req[r].at = "authorized"
    BY DEF Revoke, Is
  <2>a. /\ req' \in [Requests -> Request]
        /\ \A q \in Requests \ {r} : req'[q] = req[q]
        /\ req'[r] = Idle
    BY <1>1, Ends DEF Inv
  <2>1. TypeOK'
    BY <1>1, <2>0, <2>a, Rows DEF Inv, TypeOK, Request, UserRow, Roles, Status
  <2>2. Authorized'
    BY <1>1, <2>0, <2>a, Rows DEF Inv, TypeOK, Request, UserRow, Roles, Status, Authorized, Exists
  <2>3. FoundFree'
    BY <1>1, <2>0, <2>a, Rows DEF Inv, TypeOK, Request, UserRow, Roles, Status, FoundFree,
       Named, Exists
  <2>4. Provisioning'
    BY <1>1, <2>0, <2>a, Rows DEF Inv, TypeOK, Request, UserRow, Roles, Status, Provisioning
  <2>5. AdminsForTenants'
    BY <1>1, <2>0, <2>a, Rows, SMTT(30) DEF Inv, TypeOK, Request, UserRow, Roles, Status, AdminsForTenants
  <2>6. LinksAdmins'
    BY <1>1, <2>0, <2>a, Rows DEF Inv, TypeOK, Request, UserRow, Roles, Status, LinksAdmins,
       AdminsForTenants, Exists
  <2>7. SessionsAreOwned'
    BY <1>1, <2>0, <2>a, Rows DEF Inv, TypeOK, Request, UserRow, Roles, Status,
       SessionsAreOwned, Exists
  <2>8. NamesAreUnique'
    BY <1>1, <2>0, <2>a, Rows DEF Inv, TypeOK, Request, UserRow, Roles, Status, NamesAreUnique,
       FoundFree, Named, Exists
  <2>9. SuperuserRemains'
    BY <1>1, <2>0, <2>a, Rows DEF Inv, TypeOK, Request, UserRow, Roles, Status,
       SuperuserRemains, Authorized, Super, Live, Exists, TenantOf, Reaches
  <2>10. TenantsHaveAdmins'
    BY <1>1, <2>0, <2>a, Rows DEF Inv, TypeOK, Request, UserRow, Roles, Status,
       TenantsHaveAdmins, Provisioning, LinksAdmins, Exists, TenantOf
  <2> QED BY <2>1, <2>2, <2>3, <2>4, <2>5, <2>6, <2>7, <2>8, <2>9, <2>10 DEF Inv
<1>2. ASSUME Goes(r, "marked"),
           Exists(req[r].target),
           Reaches(req[r].by, TenantOf(req[r].target)),
           user' = [user EXCEPT ![req[r].target].status = "revoked"],
           late' = (late \/ (Super(req[r].target) /\ (req[r].by = NoUser \/ ~Live(req[r].by)))),
           UNCHANGED <<registry, session, raced, broken>>
      PROVE  Inv'
  <2>0. req[r].op = "revoke" /\ req[r].at = "authorized"
    BY DEF Revoke, Is
  <2>a. /\ req' \in [Requests -> Request]
        /\ \A q \in Requests \ {r} : req'[q] = req[q]
        /\ req'[r].at = "marked" /\ req'[r].op = req[r].op /\ req'[r].by = req[r].by
        /\ req'[r].account = req[r].account /\ req'[r].role = req[r].role
        /\ req'[r].target = req[r].target
    BY <1>2, GoesOn DEF Inv
  <2>b. /\ user' \in [Users -> UserRow]
        /\ \A u \in Users : /\ user'[u].account = user[u].account /\ user'[u].role = user[u].role
                            /\ u # req[r].target => user'[u] = user[u]
                            /\ Exists(u)' <=> Exists(u)
        /\ user'[req[r].target].status = "revoked"
    <3> DEFINE v == req[r].target
    <3>1. v \in Users /\ user \in [Users -> UserRow]
      BY <2>0 DEF Inv, TypeOK, Authorized
    <3>2. user' = [user EXCEPT ![v].status = "revoked"] /\ Exists(v)
      BY <1>2
    <3>3. \A u \in Users : user[u].status \in {"none", "live", "revoked"}
      BY <3>1 DEF UserRow
    <3> QED BY <3>1, <3>2, <3>3 DEF UserRow, Exists
  <2>c. /\ UNCHANGED <<registry, session, raced, broken>>
        /\ late' = (late \/ (Super(req[r].target) /\ (req[r].by = NoUser \/ ~Live(req[r].by))))
    BY <1>2
  <2>1. TypeOK'
    BY <2>0, <2>a, <2>b, <2>c, Rows DEF Inv, TypeOK, Request
  <2>2. Authorized'
    BY <2>0, <2>a, <2>b, <2>c, Rows DEF Inv, TypeOK, Request, Authorized, Exists
  <2>3. FoundFree'
    BY <2>0, <2>a, <2>b, <2>c, Rows DEF Inv, TypeOK, Request, FoundFree, Named, Exists
  <2>4. Provisioning'
    BY <2>0, <2>a, <2>b, <2>c, Rows DEF Inv, TypeOK, Request, Provisioning
  <2>5. AdminsForTenants'
    BY <2>0, <2>a, <2>b, <2>c, Rows DEF Inv, TypeOK, Request, AdminsForTenants
  <2>6. LinksAdmins'
    BY <2>0, <2>a, <2>b, <2>c, Rows DEF Inv, TypeOK, Request, LinksAdmins, AdminsForTenants,
       Exists
  <2>7. SessionsAreOwned'
    BY <2>0, <2>a, <2>b, <2>c, Rows DEF Inv, TypeOK, Request, SessionsAreOwned, Exists
  <2>8. NamesAreUnique'
    BY <2>0, <2>a, <2>b, <2>c, Rows DEF Inv, TypeOK, Request, NamesAreUnique, FoundFree, Named,
       Exists
  <2>9. SuperuserRemains'
    <3> DEFINE by == req[r].by   v == req[r].target
    <3> SUFFICES ASSUME NEW u \in Users, (Exists(u) /\ Super(u))', ~late'
                 PROVE  \E w \in Users : (Live(w) /\ Super(w))'
      BY DEF SuperuserRemains
    <3>1. \A w \in Users : Super(w)' <=> Super(w)
      BY <2>b DEF Super, TenantOf
    <3>2. PICK w \in Users : Live(w) /\ Super(w)
      BY <2>b, <2>c, <3>1 DEF Inv, SuperuserRemains
    <3>4. CASE w # v
      BY <2>b, <3>1, <3>2, <3>4 DEF Live
    <3>5. CASE w = v
      <4>1. by \in Users /\ Live(by) /\ by # v /\ user[by].role = "admin"
        BY <2>0, <2>c, <3>2, <3>5 DEF Inv, TypeOK, Request, Authorized, Live
      <4>2. Super(by)
        BY <1>2, <3>2, <4>1, <3>5 DEF Reaches, Super, TenantOf
      <4> QED BY <2>b, <3>1, <4>1, <4>2 DEF Live
    <3> QED BY <3>4, <3>5
  <2>10. TenantsHaveAdmins'
    BY <2>0, <2>a, <2>b, <2>c, Rows DEF Inv, TypeOK, Request, TenantsHaveAdmins, Provisioning,
       LinksAdmins, Exists, TenantOf
  <2> QED BY <2>1, <2>2, <2>3, <2>4, <2>5, <2>6, <2>7, <2>8, <2>9, <2>10 DEF Inv
<1> QED BY <1>1, <1>2 DEF Revoke, Goes, Done, Is

LEMMA SweepKeeps ==
  ASSUME Inv, NEW r \in Requests, Sweep(r), UNCHANGED failing
  PROVE  Inv'
<1>1. TypeOK'
  BY Rows DEF Inv, TypeOK, Request, UserRow, Roles, Sweep, Is, Done, Status
<1>2. Authorized'
  BY Rows DEF Inv, TypeOK, Request, UserRow, Roles, Sweep, Is, Done, Authorized, Exists
<1>3. FoundFree'
  BY Rows DEF Inv, TypeOK, Request, UserRow, Roles, Sweep, Is, Done, FoundFree, Named, Exists
<1>4. Provisioning'
  BY Rows DEF Inv, TypeOK, Request, UserRow, Roles, Sweep, Is, Done, Provisioning
<1>5. AdminsForTenants'
  BY Rows DEF Inv, TypeOK, Request, UserRow, Roles, Sweep, Is, Done, AdminsForTenants
<1>6. LinksAdmins'
  BY Rows DEF Inv, TypeOK, Request, UserRow, Roles, Sweep, Is, Done, LinksAdmins,
     AdminsForTenants, Exists
<1>7. SessionsAreOwned'
  BY Rows DEF Inv, TypeOK, Request, UserRow, Roles, Sweep, Is, Done, SessionsAreOwned, Exists
<1>8. NamesAreUnique'
  BY Rows DEF Inv, TypeOK, Request, UserRow, Roles, Sweep, Is, Done, NamesAreUnique, FoundFree,
     Named, Exists
<1>9. SuperuserRemains'
  BY Rows DEF Inv, TypeOK, Request, UserRow, Roles, Sweep, Is, Done, SuperuserRemains,
     Authorized, Super, Live, Exists, TenantOf, Reaches
<1>10. TenantsHaveAdmins'
  BY Rows DEF Inv, TypeOK, Request, UserRow, Roles, Sweep, Is, Done, TenantsHaveAdmins,
     Provisioning, LinksAdmins, Exists, TenantOf
<1> QED BY <1>1, <1>2, <1>3, <1>4, <1>5, <1>6, <1>7, <1>8, <1>9, <1>10 DEF Inv

\* The name was free when it was looked up; two that found it free share a race.
LEMMA InsertUserKeeps ==
  ASSUME Inv, NEW r \in Requests, NEW u \in Users, InsertUser(r, u), UNCHANGED failing
  PROVE  Inv'
<1>1. TypeOK'
  BY Rows DEF Inv, TypeOK, Request, UserRow, Roles, InsertUser, Is, Insert, Others, Done, Status
<1>2. Authorized'
  BY Rows DEF Inv, TypeOK, Request, UserRow, Roles, InsertUser, Is, Insert, Others, Done,
     Authorized, Exists
<1>3. FoundFree'
  BY Rows DEF Inv, TypeOK, Request, UserRow, Roles, InsertUser, Is, Insert, Others, Done,
     FoundFree, Named, Exists
<1>4. Provisioning'
  BY Rows DEF Inv, TypeOK, Request, UserRow, Roles, InsertUser, Is, Insert, Others, Done,
     Provisioning
<1>5. AdminsForTenants'
  BY Rows DEF Inv, TypeOK, Request, UserRow, Roles, InsertUser, Is, Insert, Others, Done,
     AdminsForTenants
<1>6. LinksAdmins'
  BY Rows DEF Inv, TypeOK, Request, UserRow, Roles, InsertUser, Is, Insert, Others, Done,
     LinksAdmins, AdminsForTenants, Exists
<1>7. SessionsAreOwned'
  BY Rows DEF Inv, TypeOK, Request, UserRow, Roles, InsertUser, Is, Insert, Others, Done,
     SessionsAreOwned, Exists
<1>8. NamesAreUnique'
  BY Rows DEF Inv, TypeOK, Request, UserRow, Roles, InsertUser, Is, Insert, Others, Done,
     NamesAreUnique, FoundFree, Named, Exists
<1>9. SuperuserRemains'
  BY Rows DEF Inv, TypeOK, Request, UserRow, Roles, InsertUser, Is, Insert, Others, Done,
     SuperuserRemains, Authorized, Super, Live, Exists, TenantOf, Reaches
<1>10. TenantsHaveAdmins'
  BY Rows DEF Inv, TypeOK, Request, UserRow, Roles, InsertUser, Is, Insert, Others, Done,
     TenantsHaveAdmins, Provisioning, LinksAdmins, Exists, TenantOf
<1> QED BY <1>1, <1>2, <1>3, <1>4, <1>5, <1>6, <1>7, <1>8, <1>9, <1>10 DEF Inv

(* Tenants.                                                                *)

LEMMA RequestTenantKeeps ==
  ASSUME Inv, NEW r \in Requests, NEW op \in {"suspend", "activate", "delete", "create"},
         NEW by \in Callers, NEW account \in Account, RequestTenant(r, op, by, account), UNCHANGED failing
  PROVE  Inv'
<1>1. TypeOK'
  BY Rows DEF Inv, TypeOK, Request, UserRow, Roles, RequestTenant, Admit, MayCall, Callers,
     Opens, Live, Status
<1>2. Authorized'
  BY Rows DEF Inv, TypeOK, Request, UserRow, Roles, RequestTenant, Admit, MayCall, Callers,
     Opens, Live, Authorized, Exists
<1>3. FoundFree'
  BY Rows DEF Inv, TypeOK, Request, UserRow, Roles, RequestTenant, Admit, MayCall, Callers,
     Opens, Live, FoundFree, Named, Exists
<1>4. Provisioning'
  BY Rows DEF Inv, TypeOK, Request, UserRow, Roles, RequestTenant, Admit, MayCall, Callers,
     Opens, Live, Provisioning
<1>5. AdminsForTenants'
  BY Rows DEF Inv, TypeOK, Request, UserRow, Roles, RequestTenant, Admit, MayCall, Callers,
     Opens, Live, AdminsForTenants
<1>6. LinksAdmins'
  BY Rows DEF Inv, TypeOK, Request, UserRow, Roles, RequestTenant, Admit, MayCall, Callers,
     Opens, Live, LinksAdmins, AdminsForTenants, Exists
<1>7. SessionsAreOwned'
  BY Rows DEF Inv, TypeOK, Request, UserRow, Roles, RequestTenant, Admit, MayCall, Callers,
     Opens, Live, SessionsAreOwned, Exists
<1>8. NamesAreUnique'
  BY Rows DEF Inv, TypeOK, Request, UserRow, Roles, RequestTenant, Admit, MayCall, Callers,
     Opens, Live, NamesAreUnique, FoundFree, Named, Exists
<1>9. SuperuserRemains'
  BY Rows DEF Inv, TypeOK, Request, UserRow, Roles, RequestTenant, Admit, MayCall, Callers,
     Opens, Live, SuperuserRemains, Authorized, Super, Exists, TenantOf, Reaches
<1>10. TenantsHaveAdmins'
  BY Rows DEF Inv, TypeOK, Request, UserRow, Roles, RequestTenant, Admit, MayCall, Callers,
     Opens, Live, TenantsHaveAdmins, Provisioning, LinksAdmins, Exists, TenantOf
<1> QED BY <1>1, <1>2, <1>3, <1>4, <1>5, <1>6, <1>7, <1>8, <1>9, <1>10 DEF Inv

LEMMA SuspendKeeps ==
  ASSUME Inv, NEW r \in Requests, Suspend(r), UNCHANGED failing
  PROVE  Inv'
<1>1. TypeOK'
  BY Rows DEF Inv, TypeOK, Request, UserRow, Roles, Suspend, SetStatus, Is, Done, Status
<1>2. Authorized'
  BY Rows DEF Inv, TypeOK, Request, UserRow, Roles, Suspend, SetStatus, Is, Done, Authorized,
     Exists
<1>3. FoundFree'
  BY Rows DEF Inv, TypeOK, Request, UserRow, Roles, Suspend, SetStatus, Is, Done, FoundFree,
     Named, Exists
<1>4. Provisioning'
  BY Rows DEF Inv, TypeOK, Request, UserRow, Roles, Suspend, SetStatus, Is, Done, Provisioning
<1>5. AdminsForTenants'
  BY Rows DEF Inv, TypeOK, Request, UserRow, Roles, Suspend, SetStatus, Is, Done, AdminsForTenants
<1>6. LinksAdmins'
  BY Rows DEF Inv, TypeOK, Request, UserRow, Roles, Suspend, SetStatus, Is, Done, LinksAdmins,
     AdminsForTenants, Exists
<1>7. SessionsAreOwned'
  BY Rows DEF Inv, TypeOK, Request, UserRow, Roles, Suspend, SetStatus, Is, Done,
     SessionsAreOwned, Exists
<1>8. NamesAreUnique'
  BY Rows DEF Inv, TypeOK, Request, UserRow, Roles, Suspend, SetStatus, Is, Done,
     NamesAreUnique, FoundFree, Named, Exists
<1>9. SuperuserRemains'
  BY Rows DEF Inv, TypeOK, Request, UserRow, Roles, Suspend, SetStatus, Is, Done,
     SuperuserRemains, Authorized, Super, Live, Exists, TenantOf, Reaches
<1>10. TenantsHaveAdmins'
  BY Rows DEF Inv, TypeOK, Request, UserRow, Roles, Suspend, SetStatus, Is, Done,
     TenantsHaveAdmins, Provisioning, LinksAdmins, Exists, TenantOf
<1> QED BY <1>1, <1>2, <1>3, <1>4, <1>5, <1>6, <1>7, <1>8, <1>9, <1>10 DEF Inv

LEMMA ActivateKeeps ==
  ASSUME Inv, NEW r \in Requests, Activate(r), UNCHANGED failing
  PROVE  Inv'
<1>1. TypeOK'
  BY Rows DEF Inv, TypeOK, Request, UserRow, Roles, Activate, SetStatus, Is, Done, Status
<1>2. Authorized'
  BY Rows DEF Inv, TypeOK, Request, UserRow, Roles, Activate, SetStatus, Is, Done, Authorized,
     Exists
<1>3. FoundFree'
  BY Rows DEF Inv, TypeOK, Request, UserRow, Roles, Activate, SetStatus, Is, Done, FoundFree,
     Named, Exists
<1>4. Provisioning'
  BY Rows DEF Inv, TypeOK, Request, UserRow, Roles, Activate, SetStatus, Is, Done, Provisioning
<1>5. AdminsForTenants'
  BY Rows DEF Inv, TypeOK, Request, UserRow, Roles, Activate, SetStatus, Is, Done,
     AdminsForTenants
<1>6. LinksAdmins'
  BY Rows DEF Inv, TypeOK, Request, UserRow, Roles, Activate, SetStatus, Is, Done, LinksAdmins,
     AdminsForTenants, Exists
<1>7. SessionsAreOwned'
  BY Rows DEF Inv, TypeOK, Request, UserRow, Roles, Activate, SetStatus, Is, Done,
     SessionsAreOwned, Exists
<1>8. NamesAreUnique'
  BY Rows DEF Inv, TypeOK, Request, UserRow, Roles, Activate, SetStatus, Is, Done,
     NamesAreUnique, FoundFree, Named, Exists
<1>9. SuperuserRemains'
  BY Rows DEF Inv, TypeOK, Request, UserRow, Roles, Activate, SetStatus, Is, Done,
     SuperuserRemains, Authorized, Super, Live, Exists, TenantOf, Reaches
<1>10. TenantsHaveAdmins'
  BY Rows DEF Inv, TypeOK, Request, UserRow, Roles, Activate, SetStatus, Is, Done,
     TenantsHaveAdmins, Provisioning, LinksAdmins, Exists, TenantOf
<1> QED BY <1>1, <1>2, <1>3, <1>4, <1>5, <1>6, <1>7, <1>8, <1>9, <1>10 DEF Inv

LEMMA DeleteKeeps ==
  ASSUME Inv, NEW r \in Requests, Delete(r), UNCHANGED failing
  PROVE  Inv'
<1>1. TypeOK'
  <2>1. req' \in [Requests -> Request]
    BY Ends DEF Inv, Delete
  <2>2. registry' \in [Tenants -> Status] \X [Tenants -> Requests \cup {NoRequest}]
                       \X [Tenants -> Users \cup {NoUser}] /\ broken' \subseteq Tenants
    BY DEF Inv, TypeOK, Delete, Unregister, Status
  <2> QED BY <2>1, <2>2 DEF Inv, TypeOK, Delete
<1>2. Authorized'
  BY Rows DEF Inv, TypeOK, Request, UserRow, Roles, Delete, Is, Done, Unregister, Authorized,
     Exists
<1>3. FoundFree'
  BY Rows DEF Inv, TypeOK, Request, UserRow, Roles, Delete, Is, Done, Unregister, FoundFree,
     Named, Exists
<1>4. Provisioning'
  BY Rows DEF Inv, TypeOK, Request, UserRow, Roles, Delete, Is, Done, Unregister, Provisioning
<1>5. AdminsForTenants'
  BY Rows DEF Inv, TypeOK, Request, UserRow, Roles, Delete, Is, Done, Unregister, AdminsForTenants
<1>6. LinksAdmins'
  BY Rows DEF Inv, TypeOK, Request, UserRow, Roles, Delete, Is, Done, Unregister, LinksAdmins,
     AdminsForTenants, Exists
<1>7. SessionsAreOwned'
  BY Rows DEF Inv, TypeOK, Request, UserRow, Roles, Delete, Is, Done, Unregister,
     SessionsAreOwned, Exists
<1>8. NamesAreUnique'
  BY Rows DEF Inv, TypeOK, Request, UserRow, Roles, Delete, Is, Done, Unregister,
     NamesAreUnique, FoundFree, Named, Exists
<1>9. SuperuserRemains'
  BY Rows DEF Inv, TypeOK, Request, UserRow, Roles, Delete, Is, Done, Unregister,
     SuperuserRemains, Authorized, Super, Live, Exists, TenantOf, Reaches
<1>10. TenantsHaveAdmins'
  BY Rows, SMTT(30) DEF Inv, TypeOK, Request, UserRow, Roles, Delete, Is, Done, Unregister,
     TenantsHaveAdmins, Provisioning, LinksAdmins, Exists, TenantOf
<1> QED BY <1>1, <1>2, <1>3, <1>4, <1>5, <1>6, <1>7, <1>8, <1>9, <1>10 DEF Inv

LEMMA CheckSlugKeeps ==
  ASSUME Inv, NEW r \in Requests, CheckSlug(r), UNCHANGED failing
  PROVE  Inv'
<1>1. ASSUME Goes(r, "free"),
           UNCHANGED <<registry, user, session, history>>
      PROVE  Inv'
  <2>0. req[r].op = "create" /\ req[r].at = "authorized"
    BY DEF CheckSlug, Is
  <2>a. /\ req' \in [Requests -> Request]
        /\ \A q \in Requests \ {r} : req'[q] = req[q]
        /\ req'[r].at = "free" /\ req'[r].op = req[r].op /\ req'[r].by = req[r].by
        /\ req'[r].account = req[r].account /\ req'[r].role = req[r].role
        /\ req'[r].target = req[r].target
    BY <1>1, GoesOn DEF Inv
  <2>1. TypeOK'
    BY <1>1, <2>0, <2>a, Rows DEF Inv, TypeOK, Request, UserRow, Roles, Status
  <2>2. Authorized'
    BY <1>1, <2>0, <2>a, Rows DEF Inv, TypeOK, Request, UserRow, Roles, Status, Authorized, Exists
  <2>3. FoundFree'
    BY <1>1, <2>0, <2>a, Rows DEF Inv, TypeOK, Request, UserRow, Roles, Status, FoundFree,
       Named, Exists
  <2>4. Provisioning'
    BY <1>1, <2>0, <2>a, Rows DEF Inv, TypeOK, Provisioning
  <2>5. AdminsForTenants'
    BY <1>1, <2>0, <2>a, Rows DEF Inv, TypeOK, Request, UserRow, Roles, Status, AdminsForTenants
  <2>6. LinksAdmins'
    BY <1>1, <2>0, <2>a, Rows DEF Inv, TypeOK, Request, UserRow, Roles, Status, LinksAdmins,
       AdminsForTenants, Exists
  <2>7. SessionsAreOwned'
    BY <1>1, <2>0, <2>a, Rows DEF Inv, TypeOK, Request, UserRow, Roles, Status,
       SessionsAreOwned, Exists
  <2>8. NamesAreUnique'
    BY <1>1, <2>0, <2>a, Rows DEF Inv, TypeOK, Request, UserRow, Roles, Status, NamesAreUnique,
       FoundFree, Named, Exists
  <2>9. SuperuserRemains'
    BY <1>1, <2>0, <2>a, Rows DEF Inv, TypeOK, Request, UserRow, Roles, Status,
       SuperuserRemains, Authorized, Super, Live, Exists, TenantOf, Reaches
  <2>10. TenantsHaveAdmins'
    BY <1>1, <2>0, <2>a, Rows DEF Inv, TypeOK, Request, UserRow, Roles, Status,
       TenantsHaveAdmins, Provisioning, LinksAdmins, Exists, TenantOf
  <2> QED BY <2>1, <2>2, <2>3, <2>4, <2>5, <2>6, <2>7, <2>8, <2>9, <2>10 DEF Inv
<1>2. ASSUME Done(r),
           UNCHANGED <<registry, user, session, history>>
      PROVE  Inv'
  <2>0. req[r].op = "create" /\ req[r].at = "authorized"
    BY DEF CheckSlug, Is
  <2>a. /\ req' \in [Requests -> Request]
        /\ \A q \in Requests \ {r} : req'[q] = req[q]
        /\ req'[r] = Idle
    BY <1>2, Ends DEF Inv
  <2>1. TypeOK'
    BY <1>2, <2>0, <2>a, Rows DEF Inv, TypeOK, Request, UserRow, Roles, Status
  <2>2. Authorized'
    BY <1>2, <2>0, <2>a, Rows DEF Inv, TypeOK, Request, UserRow, Roles, Status, Authorized, Exists
  <2>3. FoundFree'
    BY <1>2, <2>0, <2>a, Rows DEF Inv, TypeOK, Request, UserRow, Roles, Status, FoundFree,
       Named, Exists
  <2>4. Provisioning'
    BY <1>2, <2>0, <2>a, Rows DEF Inv, TypeOK, Provisioning
  <2>5. AdminsForTenants'
    BY <1>2, <2>0, <2>a, Rows DEF Inv, TypeOK, Request, UserRow, Roles, Status, AdminsForTenants
  <2>6. LinksAdmins'
    BY <1>2, <2>0, <2>a, Rows DEF Inv, TypeOK, Request, UserRow, Roles, Status, LinksAdmins,
       AdminsForTenants, Exists
  <2>7. SessionsAreOwned'
    BY <1>2, <2>0, <2>a, Rows DEF Inv, TypeOK, Request, UserRow, Roles, Status,
       SessionsAreOwned, Exists
  <2>8. NamesAreUnique'
    BY <1>2, <2>0, <2>a, Rows DEF Inv, TypeOK, Request, UserRow, Roles, Status, NamesAreUnique,
       FoundFree, Named, Exists
  <2>9. SuperuserRemains'
    BY <1>2, <2>0, <2>a, Rows DEF Inv, TypeOK, Request, UserRow, Roles, Status,
       SuperuserRemains, Authorized, Super, Live, Exists, TenantOf, Reaches
  <2>10. TenantsHaveAdmins'
    BY <1>2, <2>0, <2>a, Rows DEF Inv, TypeOK, Request, UserRow, Roles, Status,
       TenantsHaveAdmins, Provisioning, LinksAdmins, Exists, TenantOf
  <2> QED BY <2>1, <2>2, <2>3, <2>4, <2>5, <2>6, <2>7, <2>8, <2>9, <2>10 DEF Inv
<1> QED BY <1>1, <1>2 DEF CheckSlug, Goes, Done, Is

LEMMA RegisterKeeps ==
  ASSUME Inv, NEW r \in Requests, Register(r), UNCHANGED failing
  PROVE  Inv'
<1>1. ASSUME Done(r),
           UNCHANGED <<registry, user, session, history>>
      PROVE  Inv'
  <2>0. req[r].op = "create" /\ req[r].at = "free"
    BY DEF Register, Is
  <2>a. /\ req' \in [Requests -> Request]
        /\ \A q \in Requests \ {r} : req'[q] = req[q]
        /\ req'[r] = Idle
    BY <1>1, Ends DEF Inv
  <2>1. TypeOK'
    BY <1>1, <2>0, <2>a, Rows DEF Inv, TypeOK, Request, UserRow, Roles, Status
  <2>2. Authorized'
    BY <1>1, <2>0, <2>a, Rows DEF Inv, TypeOK, Request, UserRow, Roles, Status, Authorized, Exists
  <2>3. FoundFree'
    BY <1>1, <2>0, <2>a, Rows DEF Inv, TypeOK, Request, UserRow, Roles, Status, FoundFree,
       Named, Exists
  <2>4. Provisioning'
    BY <1>1, <2>0, <2>a, Rows, SMTT(30) DEF Inv, TypeOK, Request, UserRow, Roles, Status, Provisioning
  <2>5. AdminsForTenants'
    BY <1>1, <2>0, <2>a, Rows DEF Inv, TypeOK, Request, UserRow, Roles, Status, AdminsForTenants
  <2>6. LinksAdmins'
    BY <1>1, <2>0, <2>a, Rows DEF Inv, TypeOK, Request, UserRow, Roles, Status, LinksAdmins,
       AdminsForTenants, Exists
  <2>7. SessionsAreOwned'
    BY <1>1, <2>0, <2>a, Rows DEF Inv, TypeOK, Request, UserRow, Roles, Status,
       SessionsAreOwned, Exists
  <2>8. NamesAreUnique'
    BY <1>1, <2>0, <2>a, Rows DEF Inv, TypeOK, Request, UserRow, Roles, Status, NamesAreUnique,
       FoundFree, Named, Exists
  <2>9. SuperuserRemains'
    BY <1>1, <2>0, <2>a, Rows DEF Inv, TypeOK, Request, UserRow, Roles, Status,
       SuperuserRemains, Authorized, Super, Live, Exists, TenantOf, Reaches
  <2>10. TenantsHaveAdmins'
    BY <1>1, <2>0, <2>a, Rows DEF Inv, TypeOK, Request, UserRow, Roles, Status,
       TenantsHaveAdmins, Provisioning, LinksAdmins, Exists, TenantOf
  <2> QED BY <2>1, <2>2, <2>3, <2>4, <2>5, <2>6, <2>7, <2>8, <2>9, <2>10 DEF Inv
<1>2. ASSUME Goes(r, "provisioned"),
           tenant[req[r].account[1]] = "none",
           tenant' = [tenant EXCEPT ![req[r].account[1]] = "active"],
           maker' = [maker EXCEPT ![req[r].account[1]] = r],
           UNCHANGED <<admin, user, session, history>>
      PROVE  Inv'
  <2>0. req[r].op = "create" /\ req[r].at = "free"
    BY DEF Register, Is
  <2>a. /\ req' \in [Requests -> Request]
        /\ \A q \in Requests \ {r} : req'[q] = req[q]
        /\ req'[r].at = "provisioned" /\ req'[r].op = req[r].op /\ req'[r].by = req[r].by
        /\ req'[r].account = req[r].account /\ req'[r].role = req[r].role
        /\ req'[r].target = req[r].target
    BY <1>2, GoesOn DEF Inv
  <2>1. TypeOK'
    BY <1>2, <2>0, <2>a, Rows DEF Inv, TypeOK, Request, UserRow, Roles, Status
  <2>2. Authorized'
    BY <1>2, <2>0, <2>a, Rows DEF Inv, TypeOK, Authorized, Exists
  <2>3. FoundFree'
    BY <1>2, <2>0, <2>a, Rows DEF Inv, TypeOK, Request, UserRow, Roles, Status, FoundFree,
       Named, Exists
  <2>4. Provisioning'
    BY <1>2, <2>0, <2>a, Rows DEF Inv, TypeOK, Request, UserRow, Roles, Status, Provisioning
  <2>5. AdminsForTenants'
    BY <1>2, <2>0, <2>a, Rows DEF Inv, TypeOK, Request, UserRow, Roles, Status, AdminsForTenants
  <2>6. LinksAdmins'
    BY <1>2, <2>0, <2>a, Rows DEF Inv, TypeOK, LinksAdmins,
       AdminsForTenants, Exists
  <2>7. SessionsAreOwned'
    BY <1>2, <2>0, <2>a DEF Inv, SessionsAreOwned, Exists
  <2>8. NamesAreUnique'
    BY <1>2, <2>0, <2>a, Rows DEF Inv, TypeOK, Request, UserRow, Roles, Status, NamesAreUnique,
       FoundFree, Named, Exists
  <2>9. SuperuserRemains'
    BY <1>2, <2>0, <2>a, Rows DEF Inv, TypeOK, Request, UserRow, Roles, Status,
       SuperuserRemains, Authorized, Super, Live, Exists, TenantOf, Reaches
  <2>10. TenantsHaveAdmins'
    BY <1>2, <2>0, <2>a, Rows DEF Inv, TypeOK, Request, UserRow, Roles, Status,
       TenantsHaveAdmins, Provisioning, LinksAdmins, Exists, TenantOf
  <2> QED BY <2>1, <2>2, <2>3, <2>4, <2>5, <2>6, <2>7, <2>8, <2>9, <2>10 DEF Inv
<1> QED BY <1>1, <1>2 DEF Register, Goes, Done, Is

LEMMA CheckAdminKeeps ==
  ASSUME Inv, NEW r \in Requests, CheckAdmin(r), UNCHANGED failing
  PROVE  Inv'
<1>1. ASSUME Done(r),
           RollBack(r),
           UNCHANGED <<user, session, raced, late>>
      PROVE  Inv'
  <2>0. req[r].op = "create" /\ req[r].at = "provisioned"
    BY DEF CheckAdmin, Is
  <2>a. /\ req' \in [Requests -> Request]
        /\ \A q \in Requests \ {r} : req'[q] = req[q]
        /\ req'[r] = Idle
    BY <1>1, Ends DEF Inv
  <2>1. TypeOK'
    BY <1>1, <2>0, <2>a, Rows, SMTT(30) DEF Inv, TypeOK, Request, UserRow, Roles, Status, Taken, RollBack,
       Own
  <2>2. Authorized'
    BY <1>1, <2>0, <2>a, Rows, SMTT(30) DEF Inv, TypeOK, Request, UserRow, Roles, Status, Taken, RollBack,
       Own, Authorized, Exists
  <2>3. FoundFree'
    BY <1>1, <2>0, <2>a, Rows DEF Inv, TypeOK, Request, UserRow, Roles, Status, Taken, RollBack,
       Own, FoundFree, Named, Exists
  <2>4. Provisioning'
    BY <1>1, <2>0, <2>a, Rows DEF Inv, TypeOK, Request, UserRow, Roles, Status, Taken, RollBack,
       Own, Provisioning
  <2>5. AdminsForTenants'
    BY <1>1, <2>0, <2>a, Rows DEF Inv, TypeOK, Request, UserRow, Roles, Status, Taken, RollBack,
       Own, AdminsForTenants
  <2>6. LinksAdmins'
    BY <1>1, <2>0, <2>a, Rows DEF Inv, TypeOK, Request, UserRow, Roles, Status, Taken, RollBack,
       Own, LinksAdmins, AdminsForTenants, Exists
  <2>7. SessionsAreOwned'
    BY <1>1, <2>0, <2>a, Rows DEF Inv, TypeOK, Request, UserRow, Roles, Status, Taken, RollBack,
       Own, SessionsAreOwned, Exists
  <2>8. NamesAreUnique'
    BY <1>1, <2>0, <2>a, Rows DEF Inv, TypeOK, Request, UserRow, Roles, Status, Taken, RollBack,
       Own, NamesAreUnique, FoundFree, Named, Exists
  <2>9. SuperuserRemains'
    BY <1>1, <2>0, <2>a, Rows DEF Inv, TypeOK, Request, UserRow, Roles, Status, Taken, RollBack,
       Own, SuperuserRemains, Authorized, Super, Live, Exists, TenantOf, Reaches
  <2>10. TenantsHaveAdmins'
    BY <1>1, <2>0, <2>a, Rows DEF Inv, TypeOK, Request, UserRow, Roles, Status, Taken, RollBack,
       Own, TenantsHaveAdmins, Provisioning, LinksAdmins, Exists, TenantOf
  <2> QED BY <2>1, <2>2, <2>3, <2>4, <2>5, <2>6, <2>7, <2>8, <2>9, <2>10 DEF Inv
<1>2. ASSUME Goes(r, "checked"),
           ~Taken(req[r].account),
           UNCHANGED <<registry, broken, user, session, raced, late>>
      PROVE  Inv'
  <2>0. req[r].op = "create" /\ req[r].at = "provisioned"
    BY DEF CheckAdmin, Is
  <2>a. /\ req' \in [Requests -> Request]
        /\ \A q \in Requests \ {r} : req'[q] = req[q]
        /\ req'[r].at = "checked" /\ req'[r].op = req[r].op /\ req'[r].by = req[r].by
        /\ req'[r].account = req[r].account /\ req'[r].role = req[r].role
        /\ req'[r].target = req[r].target
    BY <1>2, GoesOn DEF Inv
  <2>1. TypeOK'
    BY <1>2, <2>0, <2>a, Rows DEF Inv, TypeOK, Request, UserRow, Roles, Status, Taken, RollBack,
       Own
  <2>2. Authorized'
    BY <1>2, <2>0, <2>a, Rows DEF Inv, TypeOK, Request, UserRow, Roles, Status, Taken, RollBack,
       Own, Authorized, Exists
  <2>3. FoundFree'
    BY <1>2, <2>0, <2>a, Rows DEF Inv, TypeOK, Request, UserRow, Roles, Status, Taken, RollBack,
       Own, FoundFree, Named, Exists
  <2>4. Provisioning'
    BY <1>2, <2>0, <2>a, Rows, SMTT(30) DEF Inv, TypeOK, Request, UserRow, Roles, Status, Taken, RollBack,
       Own, Provisioning
  <2>5. AdminsForTenants'
    BY <1>2, <2>0, <2>a, Rows DEF Inv, TypeOK, Request, UserRow, Roles, Status, Taken, RollBack,
       Own, AdminsForTenants
  <2>6. LinksAdmins'
    BY <1>2, <2>0, <2>a, Rows DEF Inv, TypeOK, Request, UserRow, Roles, Status, Taken, RollBack,
       Own, LinksAdmins, AdminsForTenants, Exists
  <2>7. SessionsAreOwned'
    BY <1>2, <2>0, <2>a, Rows DEF Inv, TypeOK, Request, UserRow, Roles, Status, Taken, RollBack,
       Own, SessionsAreOwned, Exists
  <2>8. NamesAreUnique'
    BY <1>2, <2>0, <2>a, Rows DEF Inv, TypeOK, Request, UserRow, Roles, Status, Taken, RollBack,
       Own, NamesAreUnique, FoundFree, Named, Exists
  <2>9. SuperuserRemains'
    BY <1>2, <2>0, <2>a, Rows DEF Inv, TypeOK, Request, UserRow, Roles, Status, Taken, RollBack,
       Own, SuperuserRemains, Authorized, Super, Live, Exists, TenantOf, Reaches
  <2>10. TenantsHaveAdmins'
    BY <1>2, <2>0, <2>a, Rows DEF Inv, TypeOK, Request, UserRow, Roles, Status, Taken, RollBack,
       Own, TenantsHaveAdmins, Provisioning, LinksAdmins, Exists, TenantOf
  <2> QED BY <2>1, <2>2, <2>3, <2>4, <2>5, <2>6, <2>7, <2>8, <2>9, <2>10 DEF Inv
<1> QED BY <1>1, <1>2 DEF CheckAdmin, Goes, Done, Is

LEMMA InsertAdminKeeps ==
  ASSUME Inv, NEW r \in Requests, NEW u \in Users, InsertAdmin(r, u), UNCHANGED failing
  PROVE  Inv'
<1>1. TypeOK'
  <2>1. user' \in [Users -> UserRow]
    BY DEF Inv, TypeOK, InsertAdmin, Insert, Request, UserRow
  <2>2. req' \in [Requests -> Request]
    <3>1. /\ req \in [Requests -> Request]
          /\ req' = [req EXCEPT ![r].at = "linking", ![r].target = u]
      BY DEF Inv, TypeOK, InsertAdmin
    <3>2. [req[r] EXCEPT !.at = "linking", !.target = u] \in Request
      BY <3>1 DEF Request
    <3>3. req' = [req EXCEPT ![r] = [req[r] EXCEPT !.at = "linking", !.target = u]]
      BY <3>1, Zenon
    <3> QED BY <3>1, <3>2, <3>3
  <2>3. raced' \subseteq Account
    BY DEF Inv, TypeOK, InsertAdmin, Insert, Request
  <2> QED BY <2>1, <2>2, <2>3 DEF Inv, TypeOK, InsertAdmin
<1>2. Authorized'
  BY Rows DEF Inv, TypeOK, Request, UserRow, Roles, InsertAdmin, Is, Insert, Others, Authorized,
     Exists
<1>3. FoundFree'
  BY Rows DEF Inv, TypeOK, Request, UserRow, Roles, InsertAdmin, Is, Insert, Others, FoundFree,
     Named, Exists
<1>4. Provisioning'
  BY Rows DEF Inv, TypeOK, Request, UserRow, Roles, InsertAdmin, Is, Insert, Others, Provisioning
<1>5. AdminsForTenants'
  BY Rows DEF Inv, TypeOK, Request, UserRow, Roles, InsertAdmin, Is, Insert, Others,
     AdminsForTenants
<1>6. LinksAdmins'
  BY Rows DEF Inv, TypeOK, Request, UserRow, Roles, InsertAdmin, Is, Insert, Others,
     LinksAdmins, AdminsForTenants, Exists
<1>7. SessionsAreOwned'
  BY Rows DEF Inv, TypeOK, Request, UserRow, Roles, InsertAdmin, Is, Insert, Others,
     SessionsAreOwned, Exists
<1>8. NamesAreUnique'
  BY Rows DEF Inv, TypeOK, Request, UserRow, Roles, InsertAdmin, Is, Insert, Others,
     NamesAreUnique, FoundFree, Named, Exists
<1>9. SuperuserRemains'
  BY Rows DEF Inv, TypeOK, Request, UserRow, Roles, InsertAdmin, Is, Insert, Others,
     SuperuserRemains, Authorized, Super, Live, Exists, TenantOf, Reaches
<1>10. TenantsHaveAdmins'
  BY Rows DEF Inv, TypeOK, Request, UserRow, Roles, InsertAdmin, Is, Insert, Others,
     TenantsHaveAdmins, Provisioning, LinksAdmins, Exists, TenantOf
<1> QED BY <1>1, <1>2, <1>3, <1>4, <1>5, <1>6, <1>7, <1>8, <1>9, <1>10 DEF Inv

\* The rollback removes the tenant before anyone can depend on it.
LEMMA FailAdminKeeps ==
  ASSUME Inv, NEW r \in Requests, FailAdmin(r), UNCHANGED failing
  PROVE  Inv'
<1>1. TypeOK'
  BY Rows, SMTT(30) DEF Inv, TypeOK, Request, UserRow, Roles, FailAdmin, Is, RollBack, Own, Done, Status
<1>2. Authorized'
  BY Rows DEF Inv, TypeOK, Request, UserRow, Roles, FailAdmin, Is, RollBack, Own, Done,
     Authorized, Exists
<1>3. FoundFree'
  BY Rows DEF Inv, TypeOK, Request, UserRow, Roles, FailAdmin, Is, RollBack, Own, Done,
     FoundFree, Named, Exists
<1>4. Provisioning'
  BY Rows DEF Inv, TypeOK, Request, UserRow, Roles, FailAdmin, Is, RollBack, Own, Done,
     Provisioning
<1>5. AdminsForTenants'
  <2>1. /\ \A q \in Requests \ {r} : req'[q] = req[q]
        /\ req'[r] = Idle
    BY Ends DEF Inv, FailAdmin
  <2> QED BY <2>1 DEF Inv, AdminsForTenants, Idle
<1>6. LinksAdmins'
  BY Rows DEF Inv, TypeOK, Request, UserRow, Roles, FailAdmin, Is, RollBack, Own, Done,
     LinksAdmins, AdminsForTenants, Exists
<1>7. SessionsAreOwned'
  BY Rows DEF Inv, TypeOK, Request, UserRow, Roles, FailAdmin, Is, RollBack, Own, Done,
     SessionsAreOwned, Exists
<1>8. NamesAreUnique'
  BY Rows DEF Inv, TypeOK, Request, UserRow, Roles, FailAdmin, Is, RollBack, Own, Done,
     NamesAreUnique, FoundFree, Named, Exists
<1>9. SuperuserRemains'
  BY Rows DEF Inv, TypeOK, Request, UserRow, Roles, FailAdmin, Is, RollBack, Own, Done,
     SuperuserRemains, Authorized, Super, Live, Exists, TenantOf, Reaches
<1>10. TenantsHaveAdmins'
  BY Rows DEF Inv, TypeOK, Request, UserRow, Roles, FailAdmin, Is, RollBack, Own, Done,
     TenantsHaveAdmins, Provisioning, LinksAdmins, Exists, TenantOf
<1> QED BY <1>1, <1>2, <1>3, <1>4, <1>5, <1>6, <1>7, <1>8, <1>9, <1>10 DEF Inv

LEMMA LinkKeeps ==
  ASSUME Inv, NEW r \in Requests, Link(r), UNCHANGED failing
  PROVE  Inv'
<1>1. TypeOK'
  BY Rows DEF Inv, TypeOK, Request, UserRow, Roles, Link, Is, Done, Own, Status
<1>2. Authorized'
  BY Rows DEF Inv, TypeOK, Request, UserRow, Roles, Link, Is, Done, Own, Authorized, Exists
<1>3. FoundFree'
  BY Rows DEF Inv, TypeOK, Request, UserRow, Roles, Link, Is, Done, Own, FoundFree, Named, Exists
<1>4. Provisioning'
  BY Rows DEF Inv, TypeOK, Request, UserRow, Roles, Link, Is, Done, Own, Provisioning
<1>5. AdminsForTenants'
  BY Rows DEF Inv, TypeOK, Request, UserRow, Roles, Link, Is, Done, Own, AdminsForTenants
<1>6. LinksAdmins'
  BY Rows DEF Inv, TypeOK, Request, UserRow, Roles, Link, Is, Done, Own, LinksAdmins,
     AdminsForTenants, Exists
<1>7. SessionsAreOwned'
  BY Rows DEF Inv, TypeOK, Request, UserRow, Roles, Link, Is, Done, Own, SessionsAreOwned, Exists
<1>8. NamesAreUnique'
  BY Rows DEF Inv, TypeOK, Request, UserRow, Roles, Link, Is, Done, Own, NamesAreUnique,
     FoundFree, Named, Exists
<1>9. SuperuserRemains'
  BY Rows DEF Inv, TypeOK, Request, UserRow, Roles, Link, Is, Done, Own, SuperuserRemains,
     Authorized, Super, Live, Exists, TenantOf, Reaches
<1>10. TenantsHaveAdmins'
  BY Rows, SMTT(30) DEF Inv, TypeOK, Request, UserRow, Roles, Link, Is, Done, Own, TenantsHaveAdmins,
     Provisioning, LinksAdmins, Exists, TenantOf
<1> QED BY <1>1, <1>2, <1>3, <1>4, <1>5, <1>6, <1>7, <1>8, <1>9, <1>10 DEF Inv

(* The rest: logout and expiry, and a restart of the server.               *)

LEMMA EndKeeps ==
  ASSUME Inv, NEW s \in Sessions, End(s), UNCHANGED failing
  PROVE  Inv'
<1>1. TypeOK'
  BY Rows DEF Inv, TypeOK, Request, UserRow, Roles, End, Status
<1>2. Authorized'
  BY Rows DEF Inv, TypeOK, Request, UserRow, Roles, End, Authorized, Exists
<1>3. FoundFree'
  BY Rows DEF Inv, TypeOK, Request, UserRow, Roles, End, FoundFree, Named, Exists
<1>4. Provisioning'
  BY Rows DEF Inv, TypeOK, Request, UserRow, Roles, End, Provisioning
<1>5. AdminsForTenants'
  BY Rows DEF Inv, TypeOK, Request, UserRow, Roles, End, AdminsForTenants
<1>6. LinksAdmins'
  BY Rows DEF Inv, TypeOK, Request, UserRow, Roles, End, LinksAdmins, AdminsForTenants, Exists
<1>7. SessionsAreOwned'
  BY Rows DEF Inv, TypeOK, Request, UserRow, Roles, End, SessionsAreOwned, Exists
<1>8. NamesAreUnique'
  BY Rows DEF Inv, TypeOK, Request, UserRow, Roles, End, NamesAreUnique, FoundFree, Named, Exists
<1>9. SuperuserRemains'
  BY Rows DEF Inv, TypeOK, Request, UserRow, Roles, End, SuperuserRemains, Authorized, Super,
     Live, Exists, TenantOf, Reaches
<1>10. TenantsHaveAdmins'
  BY Rows DEF Inv, TypeOK, Request, UserRow, Roles, End, TenantsHaveAdmins, Provisioning,
     LinksAdmins, Exists, TenantOf
<1> QED BY <1>1, <1>2, <1>3, <1>4, <1>5, <1>6, <1>7, <1>8, <1>9, <1>10 DEF Inv

LEMMA RestartKeeps ==
  ASSUME Inv, Restart, UNCHANGED failing
  PROVE  Inv'
<1>1. TypeOK'
  <2>1. req' \in [Requests -> Request] /\ maker' \in [Tenants -> Requests \cup {NoRequest}]
    BY Rows DEF Restart
  <2>2. user' \in [Users -> UserRow]
    BY Rows DEF Inv, TypeOK, Restart
  <2> QED BY <2>1, <2>2 DEF Inv, TypeOK, Restart
<1>2. Authorized'
  BY Rows DEF Inv, TypeOK, Request, UserRow, Roles, Restart, Open, First, Authorized, Exists
<1>3. FoundFree'
  BY Rows DEF Inv, TypeOK, Request, UserRow, Roles, Restart, Open, First, FoundFree, Named, Exists
<1>4. Provisioning'
  BY Rows DEF Inv, TypeOK, Request, UserRow, Roles, Restart, Open, First, Provisioning
<1>5. AdminsForTenants'
  BY Rows DEF Inv, TypeOK, Request, UserRow, Roles, Restart, Open, First, AdminsForTenants
<1>6. LinksAdmins'
  BY Rows DEF Inv, TypeOK, Request, UserRow, Roles, Restart, Open, First, LinksAdmins,
     AdminsForTenants, Exists
<1>7. SessionsAreOwned'
  BY Rows DEF Inv, TypeOK, Request, UserRow, Roles, Restart, Open, First, SessionsAreOwned, Exists
<1>8. NamesAreUnique'
  BY Rows DEF Inv, TypeOK, Request, UserRow, Roles, Restart, Open, First, NamesAreUnique,
     FoundFree, Named, Exists
<1>9. SuperuserRemains'
  BY Rows DEF Inv, TypeOK, Request, UserRow, Roles, Restart, Open, First, SuperuserRemains,
     Authorized, Super, Live, Exists, TenantOf, Reaches
<1>10. TenantsHaveAdmins'
  BY Rows DEF Inv, TypeOK, Request, UserRow, Roles, Restart, Open, First, TenantsHaveAdmins,
     Provisioning, LinksAdmins, Exists, TenantOf
<1> QED BY <1>1, <1>2, <1>3, <1>4, <1>5, <1>6, <1>7, <1>8, <1>9, <1>10 DEF Inv

LEMMA InitInv ==
  ASSUME Init
  PROVE  Inv
<1>1. TypeOK
  BY Rows DEF Init, TypeOK, Status
<1>2. Authorized /\ FoundFree /\ Provisioning /\ AdminsForTenants /\ LinksAdmins
  BY Rows DEF Init, Authorized, FoundFree, Provisioning, AdminsForTenants, LinksAdmins
<1>3. SessionsAreOwned
  BY Rows DEF Init, SessionsAreOwned
<1>4. NamesAreUnique
  BY DEF Init, NamesAreUnique, Exists, Blank
<1>5. SuperuserRemains
  BY DEF Init, SuperuserRemains, Exists, Super, Live, Blank, First
<1>6. TenantsHaveAdmins
  BY DEF Init, TenantsHaveAdmins
<1> QED BY <1>1, <1>2, <1>3, <1>4, <1>5, <1>6 DEF Inv

LEMMA StepInv ==
  ASSUME Inv, [Next]_vars
  PROVE  Inv'
<1>1. ASSUME NEW r \in Requests, SessionStep(r), UNCHANGED failing
      PROVE  Inv'
  BY <1>1, VerifyKeeps, GrantKeeps, MintKeeps DEF SessionStep
<1>2. ASSUME NEW r \in Requests, UserStep(r), UNCHANGED failing
      PROVE  Inv'
  BY <1>2, RequestUserKeeps, RequestRevokeKeeps, CheckUserKeeps, FailUserKeeps, RevokeKeeps,
     SweepKeeps, InsertUserKeeps DEF UserStep
<1>3. ASSUME NEW r \in Requests, TenantStep(r), UNCHANGED failing
      PROVE  Inv'
  BY <1>3, RequestTenantKeeps, SuspendKeeps, ActivateKeeps, DeleteKeeps, CheckSlugKeeps,
     RegisterKeeps, CheckAdminKeeps, FailAdminKeeps, LinkKeeps, InsertAdminKeeps DEF TenantStep
<1>4. ASSUME NEW s \in Sessions, End(s), UNCHANGED failing
      PROVE  Inv'
  BY <1>4, EndKeeps
<1>5. CASE Restart /\ UNCHANGED failing
  BY <1>5, RestartKeeps
<1>6. CASE UNCHANGED vars
  BY <1>6 DEF Inv, TypeOK, Authorized, FoundFree, Named, Exists, Provisioning, AdminsForTenants,
     LinksAdmins, SessionsAreOwned, NamesAreUnique, SuperuserRemains, Super, Live, TenantOf,
     TenantsHaveAdmins
<1>7. ASSUME NEW queries \in Outages \cup {{}}, Disturb(queries)
      PROVE  Inv'
  BY <1>7 DEF Disturb, Inv, TypeOK, Authorized, FoundFree, Named, Exists, Provisioning,
     AdminsForTenants, LinksAdmins, SessionsAreOwned, NamesAreUnique, SuperuserRemains, Super,
     Live, TenantOf, TenantsHaveAdmins
<1> QED BY <1>1, <1>2, <1>3, <1>4, <1>5, <1>6, <1>7 DEF Next

\* Every reachable state of Accounts satisfies the invariant that carries the promises.
THEOREM InvCorrect == Spec => []Inv
<1>1. Init => Inv BY InitInv
<1>2. Inv /\ [Next]_vars => Inv' BY StepInv
<1> QED BY <1>1, <1>2, PTL DEF Spec

\* The tables are well typed, whoever asks for what at the same time.
THEOREM TypeCorrect == Spec => []TypeOK
<1>1. Inv => TypeOK BY DEF Inv
<1> QED BY <1>1, InvCorrect, PTL

\* A name is held twice only after two requests found it free at the same time.
THEOREM NamesCorrect == Spec => []NamesAreUnique
<1>1. Inv => NamesAreUnique BY DEF Inv
<1> QED BY <1>1, InvCorrect, PTL

\* The server is never left without a superuser, unless one was revoked for a user that
\* was revoked by then, or for nobody, let in with no users there or none counted.
THEOREM SuperuserCorrect == Spec => []SuperuserRemains
<1>1. Inv => SuperuserRemains BY DEF Inv
<1> QED BY <1>1, InvCorrect, PTL

\* A tenant has its admin, unless its creation is under way or was cut short.
THEOREM TenantsCorrect == Spec => []TenantsHaveAdmins
<1>1. Inv => TenantsHaveAdmins BY DEF Inv
<1> QED BY <1>1, InvCorrect, PTL

-----------------------------------------------------------------------------
(* Accounts implements Admission.                                          *)

\* Who is in, and who is turned away, without the session.
LEMMA InIs ==
  ASSUME TypeOK
  PROVE  /\ \A p : p \in In <=> /\ p \in Users /\ Live(p) /\ ~Suspended(TenantOf(p))
                               /\ \E s \in Sessions : session[s] = p
         /\ In \subseteq Users /\ Revoked \subseteq Users
         /\ Shut \subseteq Users /\ Unread \subseteq Users
         /\ Revoked \cap In = {}
BY AccountsAssumption DEF TypeOK, In, Opens, Revoked, Shut, Unread, Exists, Live

LEMMA InIsNext ==
  ASSUME TypeOK'
  PROVE  /\ \A p : p \in In' <=> /\ p \in Users /\ Live(p)' /\ ~Suspended(TenantOf(p))'
                                /\ \E s \in Sessions : session'[s] = p
         /\ In' \subseteq Users /\ Revoked' \subseteq Users
         /\ Shut' \subseteq Users /\ Unread' \subseteq Users
         /\ Revoked' \cap In' = {}
BY AccountsAssumption DEF TypeOK, In, Opens, Revoked, Shut, Unread, Exists, Live

\* Whom Admission turns away is whom IsTenantSuspended does.
LEMMA TurnedIs ==
  \A p \in Users : p \in Shut \ Unread <=> Exists(p) /\ Suspended(TenantOf(p))
BY DEF Shut, Unread, Registered, Suspended

LEMMA TurnedIsNext ==
  \A p \in Users : p \in Shut' \ Unread' <=> (Exists(p) /\ Suspended(TenantOf(p)))'
BY DEF Shut, Unread, Registered, Suspended

\* A step that leaves users, sessions and the status of tenants alone is not seen.
LEMMA Unseen ==
  ASSUME UNCHANGED <<tenant, user, session, failing>>
  PROVE  UNCHANGED Admits!state
BY DEF Admits!state, In, Opens, Revoked, Shut, Unread, Exists, Live, Registered, Suspended, TenantOf

\* A session that ends takes users out.
LEMMA EndingMaps ==
  ASSUME Inv, Inv', UNCHANGED <<tenant, user, failing>>,
         \A s \in Sessions : session'[s] # session[s] => session'[s] = NoUser
  PROVE  Admits!Next
<1>1. UNCHANGED <<Revoked, Shut, Unread>>
  BY DEF Revoked, Shut, Unread, Exists, Registered, TenantOf
<1>2. In' \subseteq In
  <2> SUFFICES ASSUME NEW p \in In' PROVE p \in In
    OBVIOUS
  <2>1. PICK s \in Sessions : session'[s] = p
    BY InIsNext DEF Inv
  <2>2. session[s] = p
    BY <2>1, InIsNext, AccountsAssumption DEF Inv
  <2> QED BY <2>2, InIs, InIsNext DEF Inv, Live, Registered, Suspended, TenantOf
<1> QED BY <1>1, <1>2 DEF Admits!Next, Admits!Leave

\* Whatever happens to tenants and to the queries about them, and whatever users are
\* added: those that had a session lose it to nothing but the suspension.
LEMMA ChangeMaps ==
  ASSUME Inv, Inv', UNCHANGED session,
         \A p \in Users : Exists(p) => user'[p] = user[p],
         \A p \in Users : user'[p] # user[p] => Live(p)'
  PROVE  Admits!Next
<1>1. UNCHANGED Revoked
  BY DEF Revoked, Exists, Live
<1>2. \A p \in Users, s \in Sessions :
        session[s] = p => Exists(p) /\ (Live(p)' <=> Live(p)) /\ Exists(p)'
  BY AccountsAssumption DEF Inv, SessionsAreOwned, Exists, Live
<1>3. Shut' \in SUBSET Users /\ Unread' \in SUBSET Users
  BY InIsNext DEF Inv
<1>4. In \ (Shut' \ Unread') \subseteq In'
  <2> SUFFICES ASSUME NEW p \in In, p \notin Shut' \ Unread' PROVE p \in In'
    OBVIOUS
  <2>1. p \in Users /\ Live(p) /\ \E s \in Sessions : session[s] = p
    BY InIs DEF Inv
  <2> QED BY <2>1, <1>2, TurnedIsNext, InIsNext DEF Inv
<1>5. In' \subseteq (In \cup (Shut \ Unread)) \ ((Shut' \ Unread') \cup Revoked)
  <2> SUFFICES ASSUME NEW p \in In'
               PROVE  p \in In \cup (Shut \ Unread) /\ p \notin (Shut' \ Unread') \cup Revoked
    OBVIOUS
  <2>1. p \in Users /\ Live(p)' /\ ~Suspended(TenantOf(p))' /\ \E s \in Sessions : session[s] = p
    BY InIsNext DEF Inv
  <2>2. Exists(p) /\ Live(p)
    BY <2>1, <1>2
  <2>3. p \notin Shut' \ Unread'
    BY <2>1, TurnedIsNext
  <2>4. p \in In \cup (Shut \ Unread)
    BY <2>1, <2>2, InIs, TurnedIs DEF Inv
  <2> QED BY <2>2, <2>3, <2>4 DEF Revoked, Live
<1>6. Admits!Change
  BY <1>1, <1>3, <1>4, <1>5 DEF Admits!Change, Admits!Turned
<1> QED BY <1>6 DEF Admits!Next

\* The status of a tenant changes.
LEMMA StatusMaps ==
  ASSUME Inv, Inv', UNCHANGED <<user, session>>
  PROVE  Admits!Next
BY ChangeMaps

\* A user that is created is not in yet, and is turned away when its tenant is.
LEMMA InsertMaps ==
  ASSUME Inv, Inv', NEW u \in Users, NEW row \in UserRow, ~Exists(u),
         row.status = "live", user' = [user EXCEPT ![u] = row], UNCHANGED session
  PROVE  Admits!Next
<1>1. \A p \in Users \ {u} : user'[p] = user[p]
  BY DEF Inv, TypeOK
<1>2. user'[u] = row
  BY DEF Inv, TypeOK
<1>3. \A p \in Users : Exists(p) => user'[p] = user[p]
  BY <1>1
<1>4. \A p \in Users : user'[p] # user[p] => Live(p)'
  BY <1>1, <1>2 DEF Live
<1> QED BY <1>3, <1>4, ChangeMaps

\* What Admission sees of each action.
LEMMA SessionMaps ==
  ASSUME Inv, Inv', NEW r \in Requests, SessionStep(r), UNCHANGED failing
  PROVE  [Admits!Next]_(Admits!state)
<1>1. ASSUME NEW account \in Account, Verify(r, account)
      PROVE  UNCHANGED Admits!state
  BY <1>1, Unseen DEF Verify
<1>2. CASE Grant(r)
  BY <1>2, Unseen DEF Grant
<1>3. ASSUME NEW s \in Sessions, Mint(r, s)
      PROVE  [Admits!Next]_(Admits!state)
  <2> DEFINE u == req[r].target
  <2>1. /\ u \in Users
        /\ \A x \in Sessions : session'[x] = IF x = s THEN u ELSE session[x]
        /\ session[s] = NoUser
    BY <1>3 DEF Mint, Inv, TypeOK, Request, SessionsAreOwned
  <2>2. UNCHANGED <<Revoked, Shut, Unread>>
    BY <1>3 DEF Mint, Revoked, Shut, Unread, Exists, Registered, TenantOf
  <2>3. \A p \in Users \ {u} : p \in In' <=> p \in In
    BY <1>3, <2>1, InIs, InIsNext, AccountsAssumption DEF Mint, Inv, Live, Registered, Suspended, TenantOf
  <2>4. CASE Live(u) /\ ~Suspended(TenantOf(u))
    <3>1. u \in In' /\ u \notin Revoked \cup (Shut \ Unread)
      BY <1>3, <2>1, <2>4, InIsNext, TurnedIs DEF Mint, Inv, Live, Registered, Suspended, TenantOf, Revoked
    <3>2. In' = In \cup {u}
      BY <2>3, <3>1, InIs, InIsNext DEF Inv
    <3>3. Admits!Enter(u)
      BY <2>2, <3>1, <3>2 DEF Admits!Enter, Admits!Turned
    <3> QED BY <2>1, <3>3 DEF Admits!Next
  <2>5. CASE ~(Live(u) /\ ~Suspended(TenantOf(u)))
    <3>1. u \notin In /\ u \notin In'
      BY <1>3, <2>5, InIs, InIsNext DEF Mint, Inv, Live, Registered, Suspended, TenantOf
    <3>2. In \subseteq Users /\ In' \subseteq Users
      BY InIs, InIsNext DEF Inv
    <3>3. \A p : p \in In' <=> p \in In
      <4> SUFFICES ASSUME NEW p PROVE p \in In' <=> p \in In
        OBVIOUS
      <4>1. CASE p \in Users \ {u}
        BY <2>3, <4>1
      <4>2. CASE p \notin Users \ {u}
        BY <3>1, <3>2, <4>2
      <4> QED BY <4>1, <4>2
    <3>4. In' = In
      BY <3>3, Zenon
    <3> QED BY <2>2, <3>4 DEF Admits!state
  <2> QED BY <2>4, <2>5
<1> QED BY <1>1, <1>2, <1>3 DEF SessionStep

LEMMA RevokeMaps ==
  ASSUME Inv, Inv', NEW r \in Requests, Revoke(r), UNCHANGED failing
  PROVE  [Admits!Next]_(Admits!state)
<1> DEFINE v == req[r].target
<1>1. v \in Users
  BY DEF Revoke, Is, Inv, Authorized
<1>2. CASE UNCHANGED user
  BY <1>2, Unseen DEF Revoke
<1>3. CASE Exists(v) /\ user' = [user EXCEPT ![v].status = "revoked"]
  <2>1. /\ user'[v].status = "revoked" /\ user'[v].account = user[v].account
        /\ \A p \in Users \ {v} : user'[p] = user[p]
    BY <1>1, <1>3 DEF Inv, TypeOK, UserRow
  <2>2. Revoked' = Revoked \cup {v}
    BY <1>1, <2>1 DEF Revoked
  <2>3. Shut' = Shut /\ Unread' = Unread
    BY <1>1, <1>3, <2>1 DEF Revoke, Shut, Unread, Exists, Registered, TenantOf
  <2>4. In' = In \ {v}
    <3>1. \A p \in Users \ {v} : p \in In' <=> p \in In
      BY <2>1, InIs, InIsNext DEF Revoke, Inv, Live, Registered, Suspended, TenantOf
    <3>2. v \notin In'
      BY <2>2, InIsNext DEF Inv
    <3> QED BY <3>1, <3>2, InIs, InIsNext DEF Inv
  <2>5. Admits!Bar(v)
    BY <2>2, <2>3, <2>4 DEF Admits!Bar
  <2> QED BY <1>1, <2>5 DEF Admits!Next
<1> QED BY <1>2, <1>3 DEF Revoke

LEMMA UserMaps ==
  ASSUME Inv, Inv', NEW r \in Requests, UserStep(r), UNCHANGED failing
  PROVE  [Admits!Next]_(Admits!state)
<1>1. ASSUME NEW by \in Callers, NEW account \in Account, NEW role \in Roles,
             RequestUser(r, by, account, role)
      PROVE  UNCHANGED Admits!state
  BY <1>1, Unseen DEF RequestUser, Admit
<1>2. ASSUME NEW by \in Callers, NEW target \in Users,
         RequestRevoke(r, by, target)
      PROVE  UNCHANGED Admits!state
  BY <1>2, Unseen DEF RequestRevoke, Admit
<1>3. CASE CheckUser(r) \/ FailUser(r)
  BY <1>3, Unseen DEF CheckUser, FailUser
<1>4. CASE Revoke(r)
  BY <1>4, RevokeMaps
<1>5. CASE Sweep(r)
  <2>1. \A s \in Sessions : session'[s] # session[s] => session'[s] = NoUser
    BY <1>5 DEF Sweep
  <2> QED BY <1>5, <2>1, EndingMaps DEF Sweep
<1>6. ASSUME NEW u \in Users, InsertUser(r, u)
      PROVE  [Admits!Next]_(Admits!state)
  <2> DEFINE row == [status |-> "live", account |-> req[r].account, role |-> req[r].role]
  <2>1. row \in UserRow /\ row.status = "live"
    BY DEF Inv, TypeOK, Request, UserRow
  <2> HIDE DEF row
  <2>2. ~Exists(u) /\ user' = [user EXCEPT ![u] = row] /\ UNCHANGED session
    BY <1>6 DEF InsertUser, Insert, row
  <2> QED BY <2>1, <2>2, InsertMaps
<1> QED BY <1>1, <1>2, <1>3, <1>4, <1>5, <1>6 DEF UserStep

LEMMA TenantMaps ==
  ASSUME Inv, Inv', NEW r \in Requests, TenantStep(r), UNCHANGED failing
  PROVE  [Admits!Next]_(Admits!state)
<1>1. ASSUME NEW op \in {"suspend", "activate", "delete", "create"}, NEW by \in Callers,
             NEW account \in Account, RequestTenant(r, op, by, account)
      PROVE  UNCHANGED Admits!state
  BY <1>1, Unseen DEF RequestTenant, Admit
<1>2. CASE CheckSlug(r) \/ Link(r)
  BY <1>2, Unseen DEF CheckSlug, Link
<1>3. CASE Suspend(r) \/ Activate(r) \/ Delete(r) \/ Register(r) \/ CheckAdmin(r) \/ FailAdmin(r)
  <2>1. UNCHANGED <<user, session>>
    BY <1>3 DEF Suspend, Activate, SetStatus, Delete, Register, CheckAdmin, FailAdmin
  <2> QED BY <2>1, StatusMaps
<1>4. ASSUME NEW u \in Users, InsertAdmin(r, u)
      PROVE  [Admits!Next]_(Admits!state)
  <2> DEFINE row == [status |-> "live", account |-> req[r].account, role |-> req[r].role]
  <2>1. row \in UserRow /\ row.status = "live"
    BY DEF Inv, TypeOK, Request, UserRow
  <2> HIDE DEF row
  <2>2. ~Exists(u) /\ user' = [user EXCEPT ![u] = row] /\ UNCHANGED session
    BY <1>4 DEF InsertAdmin, Insert, row
  <2> QED BY <2>1, <2>2, InsertMaps
<1> QED BY <1>1, <1>2, <1>3, <1>4 DEF TenantStep

LEMMA RestartMaps ==
  ASSUME Inv, Inv', Restart, UNCHANGED failing
  PROVE  [Admits!Next]_(Admits!state)
<1>1. CASE UNCHANGED user
  BY <1>1, Unseen DEF Restart
<1>2. ASSUME NEW u \in Users, Open, user' = [user EXCEPT ![u] = First]
      PROVE  [Admits!Next]_(Admits!state)
  BY <1>2, InsertMaps, Rows DEF Restart, Open
<1> QED BY <1>1, <1>2 DEF Restart

\* The server takes sessions of those only that Admission lets in: nobody gets back in
\* after a revocation, and nobody of a suspended tenant is in unless its status cannot be
\* read, whatever was under way.
THEOREM AdmissionCorrect == Spec => KeepsAdmission
<1>1. Init => Admits!Init
  BY DEF Init, Admits!Init, In, Revoked, Shut, Unread, Exists, Opens, Blank, First, Registered, Suspended, TenantOf
<1>2. Inv /\ Inv' /\ [Next]_vars => [Admits!Next]_(Admits!state)
  <2> SUFFICES ASSUME Inv, Inv', [Next]_vars PROVE [Admits!Next]_(Admits!state)
    OBVIOUS
  <2>1. ASSUME NEW s \in Sessions, End(s), UNCHANGED failing
        PROVE  [Admits!Next]_(Admits!state)
    <3>1. \A x \in Sessions : session'[x] # session[x] => session'[x] = NoUser
      BY <2>1 DEF End, Inv, TypeOK
    <3> QED BY <2>1, <3>1, EndingMaps DEF End
  <2>2. CASE UNCHANGED vars
    BY <2>2, Unseen
  <2>3. ASSUME NEW queries \in Outages \cup {{}}, Disturb(queries)
        PROVE  [Admits!Next]_(Admits!state)
    BY <2>3, StatusMaps DEF Disturb
  <2> QED BY <2>1, <2>2, <2>3, SessionMaps, UserMaps, TenantMaps, RestartMaps DEF Next
<1> QED BY <1>1, <1>2, InvCorrect, PTL DEF Spec, KeepsAdmission, Admits!Spec
=============================================================================
