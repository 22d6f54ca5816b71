CONSTANTS
  default = default
  acme = acme
  root = root
  ann = ann
  u1 = u1
  u2 = u2
  s1 = s1
  r1 = r1
  r2 = r2
  UserCount = UserCount
  NoUser = NoUser
  NoRequest = NoRequest
  Default = default
  Tenants = {default, acme}
  Admin = root
  Account <- Held
  Asked <- Wanted
  Users = {u1, u2}
  Sessions = {s1}
  Requests = {r1, r2}
  Outages = {{acme}, {UserCount}}
SPECIFICATION Spec
SYMMETRY Alike
INVARIANTS NamesAreUnique SuperuserRemains TenantsHaveAdmins
PROPERTY KeepsAdmission
