\* One escalation under row-level security, nobody stops.
CONSTANTS
  Clerk = {c1}
  owner = owner
  staff = staff
  User = {owner, staff}
  Owner = {owner}
  Approval = {a1, a2}
  Run = {r1}
  NoApproval = NoApproval
  NoRun = NoRun
  NoUser = NoUser
  Serialised = FALSE
  MaxAborts = 0
  Handler = {h1, h2}
  Worker = {}
  Steps = 3
  Permitted <- EveryoneMay
  AsyncEnabled = FALSE
  RlsEnforced = TRUE
SPECIFICATION Spec
SYMMETRY Symmetry
CHECK_DEADLOCK FALSE
INVARIANT EscalationReachesRun
