\* Two overlapping workflow requests and a Celery worker on one run; requests
\* that overlap in every way, and one process may stop anywhere.
CONSTANTS
  Clerk = {c1}
  owner = owner
  staff = staff
  User = {owner, staff}
  Owner = {owner}
  Approval = {a1, a2}
  Run = {r1}
  NoApproval = NoApproval
  NoRun = NoRun
  NoUser = NoUser
  Serialised = FALSE
  MaxAborts = 1
  Handler = {h1, h2}
  Worker = {w1}
  Steps = 3
  Permitted <- StaffSkipsFirst
  AsyncEnabled = TRUE
  RlsEnforced = FALSE
SPECIFICATION Spec
SYMMETRY Symmetry
CHECK_DEADLOCK FALSE
INVARIANTS
  TypeOK
  StepsPermitted
  ResumesAuthorised
  FreshRunInOrder
  EscalationHasRequest
  AuditTellsTheTruth
  WorkflowAuditComplete
