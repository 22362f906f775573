---------------------------- MODULE MCWorkflowEngine ----------------------------
(* Instances of WorkflowEngine for TLC. *)
EXTENDS WorkflowRefinement, FiniteSets, TLC

CONSTANTS owner, staff

\* The owner may invoke every department; staff may not invoke the first one,
\* so they can start no run but may resume one.
StaffSkipsFirst == ({owner} \X StepIndex) \cup ({staff} \X (StepIndex \ {0}))

EveryoneMay == User \X StepIndex

Symmetry == Permutations(Handler) \cup Permutations(Approval) \cup Permutations(Run)
              \cup Permutations(Clerk)
================================================================================
