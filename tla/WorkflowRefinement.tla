--------------------------- MODULE WorkflowRefinement ---------------------------
(***************************************************************************)
(* The workflow engine implements EscalationGate as long as requests on    *)
(* one run, or on one approval, do not overlap.                            *)
(***************************************************************************)
EXTENDS WorkflowEngine, FiniteSets

\* The answer to the request the run names, if it names one.
GateOf(r) ==
  IF runs[r].pending = NoApproval THEN "open" ELSE approvals[runs[r].pending].status

\* The recorded steps that asked for a person.
Flagged(r) == {i \in DOMAIN rows[r] : rows[r][i].escalated}

Gate == INSTANCE EscalationGate WITH
          phase   <- [r \in Run |-> runs[r].status],
          done    <- [r \in Run |-> Len(rows[r])],
          flagged <- [r \in Run |-> Cardinality(Flagged(r))],
          gate    <- [r \in Run |-> GateOf(r)]

\* Every behaviour of the engine is one of the gate: however many handlers and
\* workers, whoever stops, a run stops at every escalated step and goes on only by
\* the approval of the request it named there.
ImplementsGate == Gate!Spec
================================================================================
