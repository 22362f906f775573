----------------------------- MODULE EscalationGate -----------------------------
(***************************************************************************)
(* What the workflow engine promises of a run, whoever executes it: steps  *)
(* are done one after the other; a flagged step closes the gate, and only  *)
(* an approval by an owner opens it again (executor.py and models.py       *)
(* docstrings; docs/ARCHITECTURE.md section 25).  There are no processes,  *)
(* transactions or requests here.                                          *)
(***************************************************************************)
EXTENDS Naturals

CONSTANTS Run, Steps

VARIABLES
  phase,   \* where the run is in its life
  done,    \* how many of its steps are recorded
  flagged, \* how many of those asked for a person
  gate     \* "open", or the state of the request that stopped the run last

vars == <<phase, done, flagged, gate>>

Answer == {"approved", "rejected"}

TypeOK ==
  /\ phase \in [Run -> {"absent", "running", "completed", "failed", "escalated"}]
  /\ done \in [Run -> 0..Steps]
  /\ flagged \in [Run -> 0..Steps]
  /\ gate \in [Run -> {"open", "pending"} \cup Answer]

Init ==
  /\ phase = [r \in Run |-> "absent"]
  /\ done = [r \in Run |-> 0]
  /\ flagged = [r \in Run |-> 0]
  /\ gate = [r \in Run |-> "open"]

--------------------------------------------------------------------------------

Start(r) ==
  /\ phase[r] = "absent"
  /\ phase' = [phase EXCEPT ![r] = "running"]
  /\ UNCHANGED <<done, flagged, gate>>

\* The next step gets recorded.
DoStep(r) ==
  /\ phase[r] = "running"
  /\ done[r] < Steps
  /\ done' = [done EXCEPT ![r] = @ + 1]

Advance(r) == DoStep(r) /\ UNCHANGED <<phase, flagged, gate>>

Fail(r) ==
  /\ DoStep(r)
  /\ phase' = [phase EXCEPT ![r] = "failed"]
  /\ UNCHANGED <<flagged, gate>>

\* A flagged step is recorded only with the run stopped at it.  The request
\* exists a moment before the run waits for it: an owner may have
\* answered already.
Escalate(r) ==
  /\ DoStep(r)
  /\ flagged' = [flagged EXCEPT ![r] = @ + 1]
  /\ phase' = [phase EXCEPT ![r] = "escalated"]
  /\ \E g \in {"pending"} \cup Answer : gate' = [gate EXCEPT ![r] = g]

Decide(r) ==
  /\ gate[r] = "pending"
  /\ \E g \in Answer : gate' = [gate EXCEPT ![r] = g]
  /\ UNCHANGED <<phase, done, flagged>>

Resume(r) ==
  /\ phase[r] = "escalated"
  /\ gate[r] = "approved"
  /\ phase' = [phase EXCEPT ![r] = "running"]
  /\ UNCHANGED <<done, flagged, gate>>

Finish(r) ==
  /\ phase[r] = "running"
  /\ done[r] = Steps
  /\ phase' = [phase EXCEPT ![r] = "completed"]
  /\ gate' = [gate EXCEPT ![r] = "open"]
  /\ UNCHANGED <<done, flagged>>

Next ==
  \E r \in Run :
    Start(r) \/ Advance(r) \/ Fail(r) \/ Escalate(r) \/ Decide(r) \/ Resume(r) \/ Finish(r)

Spec == Init /\ [][Next]_vars
================================================================================
