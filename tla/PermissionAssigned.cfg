CONSTANTS
  Request = {r1}
  acme = acme
  globex = globex
  Tenant = {acme}
  Founded <- OldTenants
  Conn = {c1}
  NoTenant = NoTenant
  NoConn = NoConn
  Scripts <- AssignPermission
  Operations <- Nobody
  Registration <- register
  Seeded = FALSE
  MaxLeaks = 0
SPECIFICATION Spec
INVARIANT NothingHidden
