\* The engine on PostgreSQL with row-level security, and two approvals handlers
\* that overlap; one process or handler may stop anywhere.
CONSTANTS
  Clerk = {c1, c2}
  owner = owner
  staff = staff
  User = {owner, staff}
  Owner = {owner}
  Approval = {a1, a2}
  Run = {r1}
  NoApproval = NoApproval
  NoRun = NoRun
  NoUser = NoUser
  Serialised = FALSE
  MaxAborts = 1
  Handler = {h1}
  Worker = {w1}
  Steps = 2
  Permitted <- EveryoneMay
  AsyncEnabled = TRUE
  RlsEnforced = TRUE
SPECIFICATION Spec
SYMMETRY Symmetry
CHECK_DEADLOCK FALSE
INVARIANTS
  ApprovalsTypeOK
  VerdictsAccounted
  ApprovalAuditBacked
  ApprovalAuditComplete
  NoStepPastUnsigned
