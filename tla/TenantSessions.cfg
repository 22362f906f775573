CONSTANTS
  Request = {r1, r2}
  acme = acme
  globex = globex
  Tenant = {acme, globex}
  Founded <- OldTenants
  Conn = {c1, c2}
  NoTenant = NoTenant
  NoConn = NoConn
  Scripts <- TenantEndpoints
  Operations <- PlatformEndpoints
  Registration <- register
  Seeded = FALSE
  MaxLeaks = 1
SPECIFICATION Spec
SYMMETRY Symmetry
INVARIANTS
  TypeOK
  TenantsApart
  HiddenOnlyAfterSave
  ChangesAudited
  OneFounder
