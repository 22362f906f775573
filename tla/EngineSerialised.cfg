CONSTANTS
  Clerk = {c1, c2}
  owner = owner
  staff = staff
  User = {owner, staff}
  Owner = {owner}
  Approval = {a1, a2}
  Run = {r1}
  NoApproval = NoApproval
  NoRun = NoRun
  NoUser = NoUser
  Serialised = TRUE
  MaxAborts = 1
  Handler = {h1, h2}
  Worker = {w1}
  Steps = 3
  Permitted <- StaffSkipsFirst
  AsyncEnabled = TRUE
  RlsEnforced = FALSE
SPECIFICATION Spec
SYMMETRY Symmetry
CHECK_DEADLOCK FALSE
INVARIANTS
  StepsInOrder
  CompletedRanEveryStep
  NoStepPastUnsigned
  StoppedIsQuiet
PROPERTIES
  TerminalIsFinal
  DecisionIsFinal
  ImplementsGate
