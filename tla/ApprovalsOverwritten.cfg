CONSTANTS
  Clerk = {c1, c2}
  User = {u1, u2, u3}
  Owner = {u1, u2}
  Approval = {a1, a2}
  Run = {r1}
  NoApproval = NoApproval
  NoRun = NoRun
  NoUser = NoUser
  Serialised = FALSE
  MaxAborts = 1
CHECK_DEADLOCK FALSE
SPECIFICATION ApprovalsSpec
PROPERTY DecisionIsFinal
