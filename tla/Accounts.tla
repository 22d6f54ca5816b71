------------------------------ MODULE Accounts ------------------------------
(***************************************************************************)
(* Tenants, users and sessions.  Every request of the website or the API   *)
(* is a handful of queries with nothing around them: what a request has    *)
(* read may have changed when it writes.  A request here is one call of a  *)
(* handler, and each of its steps one query or one run of queries whose    *)
(* rows do not change.                                                     *)
(*                                                                         *)
(* Rows of users are never deleted and keep their tenant, name and role;   *)
(* a deleted tenant leaves its users behind.                               *)
(*                                                                         *)
(* A query may fail.  One that fails inside a request ends the request;    *)
(* two are read as an answer instead: a tenant whose status cannot be read *)
(* counts as active, and the website takes users it cannot count for none. *)
(***************************************************************************)
EXTENDS FiniteSets

CONSTANTS
  Default,   \* the tenant that always exists; its admins are superusers
  Tenants,   \* slugs
  Admin,     \* the name of the admin the bootstrap creates
  Account,   \* tenants and names that users may have
  Asked,     \* roles that requests ask for, by tenant and name
  Users,     \* ids of users
  Sessions,  \* sessions that may be open at a time
  Requests,  \* requests that may be in flight at a time
  UserCount, \* the query that counts the users
  Outages,   \* sets of queries that may fail together: of tenants' status, or UserCount
  NoUser,
  NoRequest

Roles == {"viewer", "admin"}
Status == {"none", "active", "suspended"}

ASSUME AccountsAssumption ==
  /\ Default \in Tenants
  /\ <<Default, Admin>> \in Account
  /\ \A account \in Account : account[1] \in Tenants
  /\ NoUser \notin Users /\ NoRequest \notin Requests
  /\ UserCount \notin Tenants
  /\ Outages \subseteq SUBSET ((Tenants \ {Default}) \cup {UserCount})

VARIABLES
  tenant,   \* status of the registry row of a slug
  maker,    \* the request that inserted that row, which identifies the row
  admin,    \* admin_user_id of that row
  user,     \* rows of users
  session,  \* whose session it is, while it is neither revoked nor expired
  req,      \* requests in flight
  failing,  \* queries that fail at the moment
  \* history
  raced,    \* names inserted while another request had found them free
  late,     \* a superuser was revoked for one that was revoked by then, or for nobody
  broken    \* tenants whose creation was cut short

registry == <<tenant, maker, admin>>
history == <<raced, late, broken>>
vars == <<registry, user, session, req, failing, history>>

UserRow == [status : {"none", "live", "revoked"}, account : Account, role : Roles]

\* by: the user a revocation acts for; account, role, target: what it is about.
Request == [op : {"login", "user", "revoke", "suspend", "activate", "delete", "create"},
            at : {"idle", "authorized", "verified", "granted", "free", "provisioned",
                  "checked", "linking", "marked"},
            by : Users \cup {NoUser},
            account : Account, role : Roles, target : Users \cup {NoUser}]
Idle == [op |-> "login", at |-> "idle", by |-> NoUser, account |-> <<Default, Admin>>,
         role |-> "viewer", target |-> NoUser]

Blank == [status |-> "none", account |-> <<Default, Admin>>, role |-> "viewer"]
First == [status |-> "live", account |-> <<Default, Admin>>, role |-> "admin"]

\* The bootstrap created the first admin, or failed and left the server open.
Init ==
  /\ tenant = [t \in Tenants |-> IF t = Default THEN "active" ELSE "none"]
  /\ maker = [t \in Tenants |-> NoRequest]
  /\ admin = [t \in Tenants |-> NoUser]
  /\ \/ user = [u \in Users |-> Blank]
     \/ \E f \in Users : user = [u \in Users |-> IF u = f THEN First ELSE Blank]
  /\ session = [s \in Sessions |-> NoUser]
  /\ req = [r \in Requests |-> Idle]
  /\ failing = {}
  /\ raced = {} /\ late = FALSE /\ broken = {}

-----------------------------------------------------------------------------
(* Reading the tables.                                                     *)

Exists(u) == user[u].status # "none"
TenantOf(u) == user[u].account[1]
Named(account) == { u \in Users : Exists(u) /\ user[u].account = account }

\* What the registry says, and what IsTenantSuspended answers: a tenant without a row
\* counts as active, and so does one whose row cannot be read.
Registered(t) == t # Default /\ tenant[t] = "suspended"
Suspended(t) == Registered(t) /\ t \notin failing

Live(u) == user[u].status = "live"
Super(u) == user[u].role = "admin" /\ TenantOf(u) = Default

\* No users exist yet.
Open == \A u \in Users : ~Exists(u)

\* What AuthenticateSession accepts.
Unexpired(s) == session[s] # NoUser /\ ~Suspended(TenantOf(session[s]))
Opens(s) == session[s] # NoUser /\ Live(session[s]) /\ ~Suspended(TenantOf(session[s]))

\* Whose request passes scopedTenant for t.
Reaches(by, t) == by # NoUser => (TenantOf(by) = t \/ Super(by))

Done(r) == req' = [req EXCEPT ![r] = Idle]
Goes(r, step) == req' = [req EXCEPT ![r].at = step]

-----------------------------------------------------------------------------
(* Sessions.                                                               *)

\* VerifyUser: the password fits.
Verify(r, account) ==
  /\ req[r].at = "idle"
  /\ ~Suspended(account[1])
  /\ \E u \in Users :
       /\ Named(account) = {u}
       /\ Live(u)
       /\ req' = [req EXCEPT ![r] =
            [op |-> "login", at |-> "verified", by |-> NoUser, account |-> account,
             role |-> "viewer", target |-> u]]
  /\ UNCHANGED <<registry, user, session, history>>

\* CreateSession reads the user and its tenant once more ...
Grant(r) ==
  /\ req[r].at = "verified"
  /\ IF Live(req[r].target) /\ ~Suspended(TenantOf(req[r].target))
     THEN Goes(r, "granted") ELSE Done(r)
  /\ UNCHANGED <<registry, user, session, history>>

\* ... and inserts the session.
Mint(r, s) ==
  /\ req[r].at = "granted" /\ session[s] = NoUser
  /\ session' = [session EXCEPT ![s] = req[r].target]
  /\ Done(r)
  /\ UNCHANGED <<registry, user, history>>

\* Logout, or the session expires.
End(s) ==
  /\ session[s] # NoUser
  /\ session' = [session EXCEPT ![s] = NoUser]
  /\ UNCHANGED <<registry, user, req, history>>

\* requireRole and webActor: a session of an admin that is still good, or nobody at
\* all.  The website lets everybody in also when it fails to count the users; the API
\* then refuses.
Callers == IF Open \/ UserCount \in failing THEN {NoUser}
           ELSE { session[s] : s \in { s \in Sessions : Opens(s) } }
MayCall(by) == by \in Callers /\ (by # NoUser => user[by].role = "admin")

Admit(r, op, by, account, role, target) ==
  /\ req[r].at = "idle"
  /\ MayCall(by)
  /\ req' = [req EXCEPT ![r] =
       [op |-> op, at |-> "authorized", by |-> IF op = "revoke" THEN by ELSE NoUser,
        account |-> account, role |-> role, target |-> target]]
  /\ UNCHANGED <<registry, user, session, history>>

Is(r, op, step) == req[r].op = op /\ req[r].at = step

-----------------------------------------------------------------------------
(* Users.                                                                  *)

RequestUser(r, by, account, role) ==
  /\ role \in Asked[account]
  /\ Reaches(by, account[1])
  /\ Admit(r, "user", by, account, role, NoUser)

\* CreateUser looks for the name, revoked users included.
TakenByLive(account) == \E u \in Named(account) : Live(u)
Taken(account) == Named(account) # {}

CheckUser(r) ==
  /\ Is(r, "user", "authorized")
  /\ IF Taken(req[r].account) THEN Done(r) ELSE Goes(r, "checked")
  /\ UNCHANGED <<registry, user, session, history>>

\* The row is inserted; nothing in the schema keeps names apart.
Others(r, account) ==
  { q \in Requests \ {r} : req[q].at = "checked" /\ req[q].account = account }

Insert(r, u) ==
  /\ ~Exists(u)
  /\ user' = [user EXCEPT ![u] =
                [status |-> "live", account |-> req[r].account, role |-> req[r].role]]
  /\ raced' = IF Others(r, req[r].account) # {} THEN raced \cup {req[r].account} ELSE raced

InsertUser(r, u) ==
  /\ Is(r, "user", "checked")
  /\ Insert(r, u)
  /\ Done(r)
  /\ UNCHANGED <<registry, session, late, broken>>

\* The insert fails.
FailUser(r) ==
  /\ Is(r, "user", "checked")
  /\ Done(r)
  /\ UNCHANGED <<registry, user, session, history>>

\* RevokeUser: nobody revokes their own account.
Anyone(by, target) == target \in Users
MayTarget(by, target) == by # target
RequestRevoke(r, by, target) ==
  /\ MayTarget(by, target)
  /\ Admit(r, "revoke", by, <<Default, Admin>>, "viewer", target)

Revoke(r) ==
  /\ Is(r, "revoke", "authorized")
  /\ LET v == req[r].target   by == req[r].by
     IN IF Exists(v) /\ Reaches(by, TenantOf(v))
        THEN /\ user' = [user EXCEPT ![v].status = "revoked"]
             /\ late' = (late \/ (Super(v) /\ (by = NoUser \/ ~Live(by))))
             /\ Goes(r, "marked")
        ELSE Done(r) /\ UNCHANGED <<user, late>>
  /\ UNCHANGED <<registry, session, raced, broken>>

\* Its sessions are revoked as far as that succeeds.
Sweep(r) ==
  /\ Is(r, "revoke", "marked")
  /\ \E swept \in SUBSET { s \in Sessions : session[s] = req[r].target } :
       session' = [s \in Sessions |-> IF s \in swept THEN NoUser ELSE session[s]]
  /\ Done(r)
  /\ UNCHANGED <<registry, user, history>>

-----------------------------------------------------------------------------
(* Tenants, managed by superusers.                                         *)

RequestTenant(r, op, by, account) ==
  /\ by # NoUser => Super(by)
  /\ op # "create" => account[2] = Admin   \* only a creation names a user
  /\ Admit(r, op, by, account, "admin", NoUser)

SetStatus(r, op, status) ==
  /\ Is(r, op, "authorized")
  /\ LET t == req[r].account[1]
     IN tenant' = IF tenant[t] = "none" \/ (t = Default /\ status = "suspended")
                  THEN tenant ELSE [tenant EXCEPT ![t] = status]
  /\ Done(r)
  /\ UNCHANGED <<maker, admin, user, session, history>>

Suspend(r) == SetStatus(r, "suspend", "suspended")
Activate(r) == SetStatus(r, "activate", "active")

Unregister(t) ==
  /\ tenant' = [tenant EXCEPT ![t] = "none"]
  /\ maker' = [maker EXCEPT ![t] = NoRequest]
  /\ admin' = [admin EXCEPT ![t] = NoUser]

\* The users of the tenant stay.
Delete(r) ==
  /\ Is(r, "delete", "authorized")
  /\ LET t == req[r].account[1]
     IN IF tenant[t] = "none" \/ t = Default
        THEN UNCHANGED <<registry, broken>>
        ELSE Unregister(t) /\ broken' = broken \ {t}
  /\ Done(r)
  /\ UNCHANGED <<user, session, raced, late>>

\* CreateTenant: the slug is free ...
CheckSlug(r) ==
  /\ Is(r, "create", "authorized")
  /\ LET t == req[r].account[1]
     IN IF tenant[t] = "none" /\ t # Default THEN Goes(r, "free") ELSE Done(r)
  /\ UNCHANGED <<registry, user, session, history>>

\* ... its row is inserted, unless another was faster ...
Register(r) ==
  /\ Is(r, "create", "free")
  /\ LET t == req[r].account[1]
     IN IF tenant[t] # "none" THEN Done(r) /\ UNCHANGED registry
        ELSE /\ tenant' = [tenant EXCEPT ![t] = "active"]
             /\ maker' = [maker EXCEPT ![t] = r]
             /\ UNCHANGED admin
             /\ Goes(r, "provisioned")
  /\ UNCHANGED <<user, session, history>>

\* The row it inserted, while that row is still there.
NoRow(r, t) == FALSE
Own(r, t) == maker[t] = r

\* ... and taken back when the admin cannot be created, which may fail.
RollBack(r) ==
  LET t == req[r].account[1]
  IN /\ maker' = [maker EXCEPT ![t] = IF @ = r THEN NoRequest ELSE @]
     /\ \/ /\ tenant' = IF Own(r, t) THEN [tenant EXCEPT ![t] = "none"] ELSE tenant
           /\ UNCHANGED broken
        \/ /\ maker[t] = r
           /\ broken' = broken \cup {t} /\ UNCHANGED tenant
     /\ UNCHANGED admin

CheckAdmin(r) ==
  /\ Is(r, "create", "provisioned")
  /\ IF Taken(req[r].account) THEN RollBack(r) /\ Done(r)
     ELSE Goes(r, "checked") /\ UNCHANGED <<registry, broken>>
  /\ UNCHANGED <<user, session, raced, late>>

InsertAdmin(r, u) ==
  /\ Is(r, "create", "checked")
  /\ Insert(r, u)
  /\ req' = [req EXCEPT ![r].at = "linking", ![r].target = u]
  /\ UNCHANGED <<registry, session, late, broken>>

FailAdmin(r) ==
  /\ Is(r, "create", "checked")
  /\ RollBack(r)
  /\ Done(r)
  /\ UNCHANGED <<user, session, raced, late>>

\* The admin is written into the row; a failure is only logged.
Link(r) ==
  /\ Is(r, "create", "linking")
  /\ LET t == req[r].account[1]
     IN \/ /\ admin' = IF Own(r, t) THEN [admin EXCEPT ![t] = req[r].target] ELSE admin
           /\ UNCHANGED broken
        \/ /\ maker[t] = r
           /\ broken' = broken \cup {t} /\ UNCHANGED admin
  /\ maker' = [t \in Tenants |-> IF maker[t] = r THEN NoRequest ELSE maker[t]]
  /\ Done(r)
  /\ UNCHANGED <<tenant, user, session, raced, late>>

-----------------------------------------------------------------------------

\* Queries start to fail, or succeed again.
Disturb(queries) ==
  /\ queries # failing
  /\ failing' = queries
  /\ UNCHANGED <<registry, user, session, req, history>>

\* The server stops with its requests half done, and starts: an admin is created
\* when there is no user, unless that fails.
Restart ==
  /\ req' = [r \in Requests |-> Idle]
  /\ maker' = [t \in Tenants |-> NoRequest]
  /\ broken' = broken \cup { t \in Tenants : maker[t] # NoRequest }
  /\ \/ UNCHANGED user
     \/ Open /\ \E u \in Users : user' = [user EXCEPT ![u] = First]
  /\ UNCHANGED <<tenant, admin, session, raced, late>>

SessionStep(r) ==
  \/ \E account \in Account : Verify(r, account)
  \/ Grant(r)
  \/ \E s \in Sessions : Mint(r, s)

UserStep(r) ==
  \/ \E by \in Callers, account \in Account, role \in Roles :
       RequestUser(r, by, account, role)
  \/ \E by \in Callers, target \in Users : RequestRevoke(r, by, target)
  \/ CheckUser(r) \/ FailUser(r) \/ Revoke(r) \/ Sweep(r)
  \/ \E u \in Users : InsertUser(r, u)

TenantStep(r) ==
  \/ \E op \in {"suspend", "activate", "delete", "create"}, by \in Callers,
        account \in Account : RequestTenant(r, op, by, account)
  \/ Suspend(r) \/ Activate(r) \/ Delete(r)
  \/ CheckSlug(r) \/ Register(r) \/ CheckAdmin(r) \/ FailAdmin(r) \/ Link(r)
  \/ \E u \in Users : InsertAdmin(r, u)

Next ==
  \/ \E queries \in Outages \cup {{}} : Disturb(queries)
  \/ /\ \/ \E r \in Requests : SessionStep(r) \/ UserStep(r) \/ TenantStep(r)
        \/ \E s \in Sessions : End(s)
        \/ Restart
     /\ UNCHANGED failing

Spec == Init /\ [][Next]_vars

-----------------------------------------------------------------------------
(* What the tables promise.                                                *)

TypeOK ==
  /\ tenant \in [Tenants -> Status]
  /\ maker \in [Tenants -> Requests \cup {NoRequest}]
  /\ admin \in [Tenants -> Users \cup {NoUser}]
  /\ user \in [Users -> UserRow]
  /\ session \in [Sessions -> Users \cup {NoUser}]
  /\ req \in [Requests -> Request]
  /\ failing \in Outages \cup {{}}
  /\ raced \subseteq Account /\ late \in BOOLEAN /\ broken \subseteq Tenants

\* What database/auth.go says of user names: they are unique in a tenant, also after
\* users were revoked and their tenant deleted and created again.  Only two requests
\* at once can break it.
NamesAreUnique ==
  \A u, v \in Users :
    (u # v /\ Exists(u) /\ Exists(v) /\ user[u].account = user[v].account)
      => user[u].account \in raced

\* Nobody revokes their own account, so a superuser remains.  Only a request of a user
\* that was revoked while it waited can revoke the last one, or a request of nobody,
\* which was let in when there were no users or when they could not be counted.
SuperuserRemains ==
  (\E u \in Users : Exists(u) /\ Super(u)) => late \/ \E u \in Users : Live(u) /\ Super(u)

\* What CreateTenant says: no half-provisioned tenant remains.  A tenant has an admin
\* of its own, unless its creation is under way or was cut short.
TenantsHaveAdmins ==
  \A t \in Tenants \ {Default} :
    tenant[t] # "none" =>
      \/ t \in broken \/ maker[t] # NoRequest
      \/ /\ admin[t] # NoUser
         /\ Exists(admin[t]) /\ TenantOf(admin[t]) = t /\ user[admin[t]].role = "admin"

\* Whose sessions the server takes: a user that was revoked never gets in again,
\* whatever login was under way, and of a suspended tenant nobody is in while the
\* server can read that it is suspended.
In == { session[s] : s \in { s \in Sessions : Opens(s) } }
Revoked == { u \in Users : user[u].status = "revoked" }
Shut == { u \in Users : Exists(u) /\ Registered(TenantOf(u)) }
Unread == { u \in Users : Exists(u) /\ TenantOf(u) \in failing }

Admits == INSTANCE Admission WITH People <- Users, in <- In, barred <- Revoked,
                                  shut <- Shut, unread <- Unread
KeepsAdmission == Admits!Spec

-----------------------------------------------------------------------------
(* Why the promises hold: what each step of a request may rely on.         *)

\* A request runs for an admin; a revocation is not of the one who asked.
Authorized ==
  \A r \in Requests : req[r].at = "authorized" =>
    /\ req[r].by # NoUser => Exists(req[r].by) /\ user[req[r].by].role = "admin"
    /\ req[r].op = "revoke" => req[r].target \in Users \ {req[r].by}

\* A name that was found free still is, unless another request found it free too.
FoundFree ==
  \A r \in Requests :
    req[r].at = "checked" => Named(req[r].account) = {} \/ req[r].account \in raced

\* A row that is being provisioned belongs to the request that inserted it ...
Provisioning ==
  \A t \in Tenants, r \in Requests : maker[t] = r =>
    /\ req[r].op = "create" /\ req[r].account[1] = t
    /\ req[r].at \in {"provisioned", "checked", "linking"}

\* ... which creates an admin ...
AdminsForTenants == \A r \in Requests : req[r].op = "create" => req[r].role = "admin"

\* ... and links it once it is there.
LinksAdmins ==
  \A r \in Requests : req[r].at = "linking" =>
    /\ req[r].target # NoUser /\ Exists(req[r].target)
    /\ user[req[r].target].account = req[r].account
    /\ user[req[r].target].role = "admin"

\* Sessions are of users that exist.
SessionsAreOwned ==
  /\ \A s \in Sessions : session[s] # NoUser => Exists(session[s])
  /\ \A r \in Requests : req[r].at \in {"verified", "granted"} =>
       req[r].target # NoUser /\ Exists(req[r].target)

Inv ==
  /\ TypeOK /\ Authorized /\ FoundFree /\ Provisioning /\ AdminsForTenants
  /\ LinksAdmins /\ SessionsAreOwned
  /\ NamesAreUnique /\ SuperuserRemains /\ TenantsHaveAdmins
=============================================================================
