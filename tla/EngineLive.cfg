CONSTANTS
  Clerk = {c1}
  owner = owner
  staff = staff
  User = {owner}
  Owner = {owner}
  Approval = {a1, a2}
  Run = {r1}
  NoApproval = NoApproval
  NoRun = NoRun
  NoUser = NoUser
  Serialised = FALSE
  MaxAborts = 0
  Handler = {h1, h2}
  Worker = {w1}
  Steps = 3
  Permitted <- EveryoneMay
  AsyncEnabled = TRUE
  RlsEnforced = FALSE
SPECIFICATION FairSpec
CHECK_DEADLOCK FALSE
PROPERTIES
  RunSettles
  DecisionsGetAudited
