------------------------- MODULE WorkflowSafetyProofs -------------------------
(***************************************************************************)
(* What holds of steps, approvals and the audit log whatever requests      *)
(* overlap and whoever stops: the permission and the approval behind every *)
(* step row, the order of a run's first rows, the request behind every     *)
(* escalation, and the agreement of runs with the log.                     *)
(***************************************************************************)
EXTENDS WorkflowProofs

(* What adding a row does *)

LEMMA RowAdded ==
  ASSUME EngineTypeOK, NEW p \in Process, proc[p].run \in Run,
         NEW status, NEW escalated, AddRow(p, status, escalated)
  PROVE  LET r == proc[p].run IN
           /\ rows' = [rows EXCEPT ![r] = Append(rows[r], RowOf(p, status, escalated))]
           /\ Len(rows[r]) \in Nat
           /\ DOMAIN rows'[r] = 1..(Len(rows[r]) + 1)
           /\ Len(rows'[r]) = Len(rows[r]) + 1
           /\ rows'[r][Len(rows[r]) + 1] = RowOf(p, status, escalated)
           /\ \A k \in DOMAIN rows[r] : rows'[r][k] = rows[r][k]
           /\ \A q \in Run : q # r => rows'[q] = rows[q]
<1> DEFINE r == proc[p].run  new == RowOf(p, status, escalated)
<1>1. rows[r] \in Seq(StepRow) /\ rows \in [Run -> Seq(StepRow)]
  BY DEF EngineTypeOK
<1>2. rows' = [rows EXCEPT ![r] = Append(rows[r], new)]
  BY DEF AddRow
<1> HIDE DEF new
<1>3. /\ rows'[r] = Append(rows[r], new)
      /\ \A q \in Run : q # r => rows'[q] = rows[q]
  BY <1>1, <1>2
<1>4. /\ Len(rows[r]) \in Nat
      /\ DOMAIN rows'[r] = 1..(Len(rows[r]) + 1)
      /\ Len(rows'[r]) = Len(rows[r]) + 1
      /\ rows'[r][Len(rows[r]) + 1] = new
      /\ \A k \in DOMAIN rows[r] : rows'[r][k] = rows[r][k]
  BY <1>1, <1>3
<1> QED
  BY <1>2, <1>3, <1>4 DEF new

--------------------------------------------------------------------------------
(* Permissions *)

(***************************************************************************)
(* StepsPermitted says nothing of a process about to run a step: the       *)
(* permission it will need was checked when the run or the resume began.   *)
(* What carries it there: the user still holds every step from the current *)
(* index on, as the index only grows; and a queued task starts at step 0.  *)
(***************************************************************************)
Bound == {"step", "escalate", "resume_set"}

Entitled(l) ==
  /\ l.pc = "enqueue" => MayRunFrom(l.user, 0)
  /\ l.pc \in Bound => MayRunFrom(l.user, l.index)

PermitInv ==
  /\ StepsPermitted
  /\ \A t \in queue : MayRunFrom(t.user, 0)
  /\ \A p \in Process : Entitled(proc[p])

LEMMA PermitProc ==
  ASSUME EngineTypeOK, NEW p \in Process, NEW new, proc' = [proc EXCEPT ![p] = new],
         \A q \in Process : Entitled(proc[q]), Entitled(new)
  PROVE  \A q \in Process : Entitled(proc'[q])
BY DEF EngineTypeOK

LEMMA PermitRow ==
  ASSUME EngineTypeOK, StepsPermitted, NEW p \in Process, proc[p].run \in Run,
         proc[p].index \in StepIndex, MayRunFrom(proc[p].user, proc[p].index),
         NEW status, NEW escalated, AddRow(p, status, escalated)
  PROVE  StepsPermitted'
<1> DEFINE r == proc[p].run
<1>1. <<proc[p].user, proc[p].index>> \in Permitted
  BY DEF MayRunFrom, StepIndex
<1>2. /\ RowOf(p, status, escalated).by = proc[p].user
      /\ RowOf(p, status, escalated).index = proc[p].index
  BY DEF RowOf
<1>3. \A k \in DOMAIN rows'[r] : <<rows'[r][k].by, rows'[r][k].index>> \in Permitted
  <2> SUFFICES ASSUME NEW k \in DOMAIN rows'[r]
               PROVE  <<rows'[r][k].by, rows'[r][k].index>> \in Permitted
    OBVIOUS
  <2>1. rows[r] \in Seq(StepRow)
    BY DEF EngineTypeOK
  <2>2. k \in DOMAIN rows[r] \/ k = Len(rows[r]) + 1
    BY <2>1, RowAdded
  <2>3. CASE k \in DOMAIN rows[r]
    <3>1. rows'[r][k] = rows[r][k]
      BY <2>3, RowAdded
    <3> QED
      BY <2>3, <3>1 DEF StepsPermitted, RowAt
  <2>4. CASE k = Len(rows[r]) + 1
    <3>1. rows'[r][k] = RowOf(p, status, escalated)
      BY <2>4, RowAdded
    <3> QED
      BY <1>1, <1>2, <3>1
  <2> QED
    BY <2>2, <2>3, <2>4
<1>4. \A q \in Run : q # r => rows'[q] = rows[q]
  BY RowAdded
<1> QED
  BY <1>3, <1>4 DEF StepsPermitted, RowAt

LEMMA PermitStep ==
  ASSUME EngineTypeOK, PermitInv, EngineStep
  PROVE  PermitInv'
<1> USE DEF PermitInv
<1>1. ASSUME NEW h \in Handler, NEW u \in User, NEW r \in Run, NEW async \in BOOLEAN,
             StartRun(h, u, r, async)
      PROVE  PermitInv'
  <2> DEFINE new == Request(IF async THEN "enqueue" ELSE "step", r, u, NoApproval)
  <2>1. Entitled(new)
    BY <1>1 DEF StartRun, Entitled, Request, Bound
  <2>2. proc' = [proc EXCEPT ![h] = new] /\ h \in Process
    BY <1>1 DEF StartRun, Process
  <2> HIDE DEF new
  <2> QED
    BY <1>1, <2>1, <2>2, PermitProc DEF StartRun, StepsPermitted, RowAt, MayRunFrom
<1>2. ASSUME NEW h \in Handler, NEW u \in User, NEW r \in Run, ResumeReadRun(h, u, r)
      PROVE  PermitInv'
  <2> DEFINE new == Request("resume_approval", r, u, runs[r].pending)
  <2>1. Entitled(new)
    BY DEF Entitled, Request, Bound
  <2>2. proc' = [proc EXCEPT ![h] = new] /\ h \in Process
    BY <1>2 DEF ResumeReadRun, Process
  <2> HIDE DEF new
  <2> QED
    BY <1>2, <2>1, <2>2, PermitProc DEF ResumeReadRun, StepsPermitted, RowAt, MayRunFrom
<1>3. ASSUME NEW w \in Worker, NEW t \in queue, WorkerTake(w, t)
      PROVE  PermitInv'
  <2> DEFINE new == Request("step", t.run, t.user, NoApproval)
  <2>1. Entitled(new)
    BY DEF Entitled, Request, Bound
  <2>2. proc' = [proc EXCEPT ![w] = new] /\ w \in Process
    BY <1>3 DEF WorkerTake, Process
  <2> HIDE DEF new
  <2> QED
    BY <1>3, <2>1, <2>2, PermitProc DEF WorkerTake, StepsPermitted, RowAt, MayRunFrom
<1>4. Entitled(IdleProc)
  BY DEF Entitled, IdleProc, Request, Bound
<1>5. ASSUME NEW p \in Process, proc' = [proc EXCEPT ![p] = IdleProc], UNCHANGED rows,
             \A t \in queue' : MayRunFrom(t.user, 0)
      PROVE  PermitInv'
  <2>1. \A q \in Process : Entitled(proc'[q])
    BY <1>4, <1>5, PermitProc
  <2>2. StepsPermitted'
    BY <1>5 DEF StepsPermitted, RowAt
  <2> QED
    BY <1>5, <2>1, <2>2 DEF MayRunFrom
<1>6. ASSUME NEW p \in Process, Enqueue(p)
      PROVE  PermitInv'
  <2> DEFINE task == [run |-> proc[p].run, user |-> proc[p].user]
  <2>1. MayRunFrom(proc[p].user, 0)
    BY <1>6 DEF Enqueue, Entitled
  <2>2. task.user = proc[p].user
    OBVIOUS
  <2>3. queue' = queue \cup {task}
    BY <1>6 DEF Enqueue
  <2> HIDE DEF task
  <2>4. \A t \in queue' : MayRunFrom(t.user, 0)
    BY <2>1, <2>2, <2>3
  <2> QED
    BY <1>5, <1>6, <2>4 DEF Enqueue
<1>7. ASSUME NEW p \in Process, \/ EscalationLosesContext(p) \/ AuditRun(p)
                               \/ ResumeRefused(p) \/ Abort(p)
      PROVE  PermitInv'
  BY <1>5, <1>7 DEF EscalationLosesContext, AuditRun, ResumeRefused, Abort
<1>8. ASSUME NEW p \in Process, StepClean(p)
      PROVE  PermitInv'
  <2> DEFINE new == [proc[p] EXCEPT !.index = proc[p].index + 1, !.base = proc[p].index]
  <2>1. proc[p] \in ProcState /\ proc[p].run \in Run /\ proc[p].pc = "step"
        /\ proc[p].index \in StepIndex
    BY <1>8 DEF EngineTypeOK, ProcHolds, StepClean, AtStep
  <2>2. MayRunFrom(proc[p].user, proc[p].index)
    BY <2>1 DEF Entitled, Bound
  <2>3. MayRunFrom(proc[p].user, proc[p].index + 1)
    BY <2>1, <2>2 DEF MayRunFrom, StepIndex
  <2>4. new.user = proc[p].user /\ new.pc = "step" /\ new.index = proc[p].index + 1
    BY <2>1 DEF ProcState
  <2>5. proc' = [proc EXCEPT ![p] = new]
    BY <1>8 DEF StepClean
  <2> HIDE DEF new
  <2>6. Entitled(new)
    BY <2>3, <2>4 DEF Entitled
  <2>7. StepsPermitted'
    BY <1>8, <2>1, <2>2, PermitRow DEF StepClean
  <2> QED
    BY <1>8, <2>5, <2>6, <2>7, PermitProc DEF StepClean
<1>9. ASSUME NEW p \in Process, NEW verb, ThenAudit(p, verb)
      PROVE  \A q \in Process : Entitled(proc'[q])
  <2> DEFINE new == [proc[p] EXCEPT !.pc = "audit", !.verb = verb]
  <2>1. proc[p] \in ProcState
    BY DEF EngineTypeOK
  <2>2. Entitled(new)
    BY <2>1 DEF Entitled, ProcState, Bound
  <2>3. proc' = [proc EXCEPT ![p] = new]
    BY <1>9 DEF ThenAudit
  <2> HIDE DEF new
  <2> QED
    BY <2>2, <2>3, PermitProc
<1>10. ASSUME NEW p \in Process, StepFails(p) \/ CommitEscalation(p)
       PROVE  PermitInv'
  <2>1. proc[p].run \in Run /\ proc[p].index \in StepIndex /\ proc[p].pc \in Bound
    BY <1>10 DEF EngineTypeOK, ProcHolds, StepFails, CommitEscalation, AtStep, Bound
  <2>2. MayRunFrom(proc[p].user, proc[p].index)
    BY <2>1 DEF Entitled
  <2>3. StepsPermitted'
    BY <1>10, <2>1, <2>2, PermitRow DEF StepFails, CommitEscalation
  <2> QED
    BY <1>9, <1>10, <2>3 DEF StepFails, CommitEscalation
<1>11. ASSUME NEW p \in Process, Complete(p)
       PROVE  PermitInv'
  BY <1>9, <1>11 DEF Complete, StepsPermitted, RowAt
<1>12. ASSUME NEW p \in Process, NEW a \in Approval, StepEscalates(p, a)
       PROVE  PermitInv'
  <2> DEFINE new == [proc[p] EXCEPT !.pc = "escalate", !.pending = a]
  <2>1. proc[p] \in ProcState /\ proc[p].pc = "step"
    BY <1>12 DEF EngineTypeOK, StepEscalates, AtStep
  <2>2. new.user = proc[p].user /\ new.pc = "escalate" /\ new.index = proc[p].index
    BY <2>1 DEF ProcState
  <2>3. proc' = [proc EXCEPT ![p] = new]
    BY <1>12 DEF StepEscalates
  <2> HIDE DEF new
  <2>4. Entitled(new)
    BY <2>1, <2>2 DEF Entitled, Bound
  <2> QED
    BY <1>12, <2>3, <2>4, PermitProc DEF StepEscalates, StepsPermitted, RowAt
<1>13. ASSUME NEW p \in Process, ResumeReadApproval(p)
       PROVE  PermitInv'
  <2> DEFINE a == proc[p].pending
             passed == [proc[p] EXCEPT !.pc = "resume_steps", !.ticket = a, !.pending = NoApproval]
             new == IF SignedOff(a) THEN passed ELSE IdleProc
  <2>1. proc[p] \in ProcState
    BY DEF EngineTypeOK
  <2>2. Entitled(passed)
    BY <2>1 DEF Entitled, ProcState, Bound
  <2>3. proc' = [proc EXCEPT ![p] = new]
    BY <1>13 DEF ResumeReadApproval
  <2> HIDE DEF passed
  <2>4. Entitled(new)
    BY <1>4, <2>2
  <2> HIDE DEF new
  <2> QED
    BY <1>13, <2>3, <2>4, PermitProc DEF ResumeReadApproval, StepsPermitted, RowAt
<1>14. ASSUME NEW p \in Process, ResumeReadSteps(p)
       PROVE  PermitInv'
  <2> DEFINE n == Len(rows[proc[p].run])
  <2>1. PICK base \in PreviousOutput(proc[p].run) :
          proc' = [proc EXCEPT ![p] =
                     [@ EXCEPT !.pc = "resume_set", !.index = n, !.base = base]]
    BY <1>14 DEF ResumeReadSteps
  <2> DEFINE new == [proc[p] EXCEPT !.pc = "resume_set", !.index = n, !.base = base]
  <2>2. MayRunFrom(proc[p].user, n)
    BY <1>14 DEF ResumeReadSteps
  <2>3. proc[p] \in ProcState
    BY DEF EngineTypeOK
  <2>4. new.user = proc[p].user /\ new.pc = "resume_set" /\ new.index = n
    BY <2>3 DEF ProcState
  <2>5. proc' = [proc EXCEPT ![p] = new]
    BY <2>1
  <2> HIDE DEF new, n
  <2>6. Entitled(new)
    BY <2>2, <2>4 DEF Entitled
  <2> QED
    BY <1>14, <2>5, <2>6, PermitProc DEF ResumeReadSteps, StepsPermitted, RowAt
<1>15. ASSUME NEW p \in Process, ResumeSetRunning(p)
       PROVE  PermitInv'
  <2> DEFINE new == [proc[p] EXCEPT !.pc = "step"]
  <2>1. proc[p] \in ProcState /\ proc[p].pc = "resume_set"
    BY <1>15 DEF EngineTypeOK, ResumeSetRunning
  <2>2. new.user = proc[p].user /\ new.pc = "step" /\ new.index = proc[p].index
    BY <2>1 DEF ProcState
  <2>3. proc' = [proc EXCEPT ![p] = new]
    BY <1>15 DEF ResumeSetRunning
  <2> HIDE DEF new
  <2>4. Entitled(new)
    BY <2>1, <2>2 DEF Entitled, Bound
  <2> QED
    BY <1>15, <2>3, <2>4, PermitProc DEF ResumeSetRunning, StepsPermitted, RowAt
<1> QED
  BY <1>1, <1>2, <1>3, <1>6, <1>7, <1>8, <1>10, <1>11, <1>12, <1>13, <1>14, <1>15
     DEF EngineStep, ProcessStep

\* No department ever runs for a user who may not invoke it, although the
\* check is made once, before the first step, and the index a resume starts at
\* is counted from rows that others may still be adding.
THEOREM PermissionsHold == Spec => []StepsPermitted
<1>1. Init => PermitInv
  BY DEF Init, PermitInv, StepsPermitted, RowAt, Entitled, IdleProc, Request, Bound
<1>2. ASSUME BaseInv, PermitInv, [Next]_vars
      PROVE  PermitInv'
  <2>1. CASE EngineStep
    BY <1>2, <2>1, PermitStep DEF BaseInv
  <2>2. CASE UNCHANGED engineVars
    BY <1>2, <2>2 DEF engineVars, PermitInv, StepsPermitted, RowAt
  <2> QED
    BY <1>2, <2>1, <2>2, NextSplit DEF vars
<1>3. Spec => []PermitInv
  BY <1>1, <1>2, Base, PTL DEF Spec
<1> QED
  BY <1>3, PTL DEF PermitInv

--------------------------------------------------------------------------------
(* The approval behind a resumed step *)

(***************************************************************************)
(* ResumesAuthorised speaks of rows; what carries it is the way of an      *)
(* approval from the escalation that created it, through the run row that  *)
(* names it, to the locals of the request that resumes.  At each stage it  *)
(* is about that run and about a step which the run has already recorded.  *)
(* The operators take the tables as arguments, q for approval_requests, h  *)
(* for what has happened, t for workflow_step_runs, to speak of two states.*)
(***************************************************************************)
Granted(h, a) == \E u \in Owner : Entry("approved", a, u) \in h

\* a is a request of run r for one of its first n steps.
Backs(q, a, r, n) ==
  /\ a \in Approval /\ q[a].status # "absent"
  /\ q[a].run = r /\ q[a].step < n

Ticketed(l, q, h, t) ==
  /\ l.pc \in Bound => l.index <= Len(t[l.run])
  /\ l.pc = "escalate" =>
       q[l.pending].status # "absent" /\ q[l.pending].run = l.run /\ q[l.pending].step = l.index
  /\ l.pc = "resume_approval" /\ l.pending # NoApproval => Backs(q, l.pending, l.run, Len(t[l.run]))
  /\ l.pc = "resume_steps" => Backs(q, l.ticket, l.run, Len(t[l.run])) /\ Granted(h, l.ticket)
  /\ l.pc \in Bound /\ l.ticket # NoApproval =>
       Backs(q, l.ticket, l.run, l.index) /\ Granted(h, l.ticket)

Authorised(r, row, q, h) ==
  row.ticket # NoApproval => Backs(q, row.ticket, r, row.index) /\ Granted(h, row.ticket)

RowsBacked == \A r \in Run : \A k \in DOMAIN rows[r] : Authorised(r, rows[r][k], approvals, happened)

RunsBacked ==
  \A r \in Run : runs[r].pending # NoApproval => Backs(approvals, runs[r].pending, r, Len(rows[r]))

TicketInv ==
  /\ RowsBacked
  /\ RunsBacked
  /\ \A p \in Process : Ticketed(proc[p], approvals, happened, rows)

\* Step rows are only ever added.
Grow ==
  \A r \in Run : /\ Len(rows[r]) \in Nat /\ Len(rows'[r]) \in Nat
                 /\ Len(rows[r]) <= Len(rows'[r])

LEMMA UnchangedGrow ==
  ASSUME EngineTypeOK, UNCHANGED rows
  PROVE  Grow
<1>1. \A r \in Run : Len(rows[r]) \in Nat
  BY DEF EngineTypeOK
<1> QED
  BY <1>1 DEF Grow

LEMMA AddGrow ==
  ASSUME EngineTypeOK, NEW p \in Process, proc[p].run \in Run,
         NEW status, NEW escalated, AddRow(p, status, escalated)
  PROVE  Grow
<1>1. \A r \in Run : Len(rows[r]) \in Nat
  BY DEF EngineTypeOK
<1>2. \A r \in Run : Len(rows'[r]) \in {Len(rows[r]), Len(rows[r]) + 1}
  BY RowAdded
<1> QED
  BY <1>1, <1>2 DEF Grow

LEMMA BacksKept ==
  ASSUME ApprovalsTypeOK, Stable, NEW a, NEW r, NEW n \in Nat, NEW m \in Nat, n <= m,
         Backs(approvals, a, r, n)
  PROVE  Backs(approvals', a, r, m)
<1>1. a \in Approval /\ approvals[a].step \in Nat
  BY DEF Backs, ApprovalsTypeOK, ApprovalRow
<1> QED
  BY <1>1 DEF Backs, Stable

LEMMA GrantedKept ==
  ASSUME Stable, NEW a, Granted(happened, a)
  PROVE  Granted(happened', a)
BY DEF Granted, Stable

LEMMA TicketedKept ==
  ASSUME BaseInv, Stable, Grow, NEW p \in Process,
         Ticketed(proc[p], approvals, happened, rows)
  PROVE  Ticketed(proc[p], approvals', happened', rows')
<1> DEFINE l == proc[p]
<1>1. l \in ProcState /\ l.index \in Nat /\ (l.pc # "idle" => l.run \in Run)
      /\ (l.pc = "escalate" => l.pending \in Approval)
  BY DEF BaseInv, EngineTypeOK, ProcHolds, ProcState
<1>2. ApprovalsTypeOK
  BY DEF BaseInv, ApprovalsInv
<1>3. l.pc # "idle" => /\ Len(rows[l.run]) \in Nat /\ Len(rows'[l.run]) \in Nat
                       /\ Len(rows[l.run]) <= Len(rows'[l.run])
  BY <1>1 DEF Grow
<1> HIDE DEF l
<1>4. Ticketed(l, approvals, happened, rows)
  BY DEF l
<1>5. l.pc \in Bound => l.index <= Len(rows'[l.run])
  BY <1>1, <1>3, <1>4 DEF Ticketed, Bound
<1>6. l.pc = "escalate" => /\ approvals'[l.pending].status # "absent"
                           /\ approvals'[l.pending].run = l.run /\ approvals'[l.pending].step = l.index
  BY <1>1, <1>4 DEF Ticketed, Stable
<1>7. l.pc = "resume_approval" /\ l.pending # NoApproval =>
        Backs(approvals', l.pending, l.run, Len(rows'[l.run]))
  BY <1>2, <1>3, <1>4, BacksKept DEF Ticketed
<1>8. l.pc = "resume_steps" =>
        Backs(approvals', l.ticket, l.run, Len(rows'[l.run])) /\ Granted(happened', l.ticket)
  BY <1>2, <1>3, <1>4, BacksKept, GrantedKept DEF Ticketed
<1>9. l.pc \in Bound /\ l.ticket # NoApproval =>
        Backs(approvals', l.ticket, l.run, l.index) /\ Granted(happened', l.ticket)
  BY <1>1, <1>2, <1>4, BacksKept, GrantedKept DEF Ticketed
<1>10. Ticketed(l, approvals', happened', rows')
  BY <1>5, <1>6, <1>7, <1>8, <1>9 DEF Ticketed
<1> QED
  BY <1>10 DEF l

LEMMA TicketProcs ==
  ASSUME BaseInv, Stable, Grow, NEW p \in Process, NEW new, proc' = [proc EXCEPT ![p] = new],
         \A q \in Process : Ticketed(proc[q], approvals, happened, rows),
         Ticketed(new, approvals', happened', rows')
  PROVE  \A q \in Process : Ticketed(proc'[q], approvals', happened', rows')
<1>1. \A q \in Process : Ticketed(proc[q], approvals', happened', rows')
  BY TicketedKept
<1>2. proc'[p] = new /\ \A q \in Process : q # p => proc'[q] = proc[q]
  BY DEF BaseInv, EngineTypeOK
<1> QED
  BY <1>1, <1>2

\* Rows already there stay authorised.
LEMMA OldRowsBacked ==
  ASSUME BaseInv, RowsBacked, Stable
  PROVE  \A r \in Run : \A k \in DOMAIN rows[r] : Authorised(r, rows[r][k], approvals', happened')
<1> SUFFICES ASSUME NEW r \in Run, NEW k \in DOMAIN rows[r]
             PROVE  Authorised(r, rows[r][k], approvals', happened')
  OBVIOUS
<1> DEFINE row == rows[r][k]
<1>1. row.index \in Nat
  <2>1. rows[r] \in Seq(StepRow)
    BY DEF BaseInv, EngineTypeOK
  <2>2. row \in StepRow
    BY <2>1
  <2> QED
    BY <2>2, EngineAssumption DEF StepRow, StepIndex
<1>2. Authorised(r, row, approvals, happened)
  BY DEF RowsBacked
<1>3. ApprovalsTypeOK
  BY DEF BaseInv, ApprovalsInv
<1> HIDE DEF row
<1>4. Authorised(r, row, approvals', happened')
  BY <1>1, <1>2, <1>3, BacksKept, GrantedKept DEF Authorised
<1> QED
  BY <1>4 DEF row

\* The new one rests on what its process holds.
LEMMA NewRowBacked ==
  ASSUME BaseInv, RowsBacked, Stable, NEW p \in Process, proc[p].pc \in Bound,
         proc[p].run \in Run, proc[p].index \in StepIndex,
         Ticketed(proc[p], approvals, happened, rows),
         NEW status, NEW escalated, AddRow(p, status, escalated)
  PROVE  RowsBacked'
<1> DEFINE r == proc[p].run  new == RowOf(p, status, escalated)
<1>1. Authorised(r, new, approvals', happened')
  <2>1. new.ticket = proc[p].ticket /\ new.index = proc[p].index
    BY DEF RowOf
  <2>2. proc[p].ticket # NoApproval =>
          Backs(approvals, proc[p].ticket, r, proc[p].index) /\ Granted(happened, proc[p].ticket)
    BY DEF Ticketed
  <2>3. proc[p].index \in Nat /\ ApprovalsTypeOK
    BY EngineAssumption DEF StepIndex, BaseInv, ApprovalsInv
  <2>4. proc[p].ticket # NoApproval =>
          Backs(approvals', proc[p].ticket, r, proc[p].index) /\ Granted(happened', proc[p].ticket)
    BY <2>2, <2>3, BacksKept, GrantedKept
  <2> QED
    BY <2>1, <2>4 DEF Authorised
<1> HIDE DEF new
<1>2. ASSUME NEW k \in DOMAIN rows'[r]
      PROVE  Authorised(r, rows'[r][k], approvals', happened')
  <2>1. EngineTypeOK /\ rows[r] \in Seq(StepRow)
    BY DEF BaseInv, EngineTypeOK
  <2>2. k \in DOMAIN rows[r] \/ k = Len(rows[r]) + 1
    BY <2>1, RowAdded
  <2>3. CASE k \in DOMAIN rows[r]
    <3>1. rows'[r][k] = rows[r][k]
      BY <2>1, <2>3, RowAdded
    <3> QED
      BY <2>3, <3>1, OldRowsBacked
  <2>4. CASE k = Len(rows[r]) + 1
    <3>1. rows'[r][k] = new
      BY <2>1, <2>4, RowAdded DEF new
    <3> QED
      BY <1>1, <3>1
  <2> QED
    BY <2>2, <2>3, <2>4
<1>3. ASSUME NEW q \in Run, q # r, NEW k \in DOMAIN rows'[q]
      PROVE  Authorised(q, rows'[q][k], approvals', happened')
  <2>1. rows'[q] = rows[q]
    BY <1>3, RowAdded DEF BaseInv
  <2> QED
    BY <1>3, <2>1, OldRowsBacked
<1> QED
  BY <1>2, <1>3 DEF RowsBacked

LEMMA SameRowsBacked ==
  ASSUME BaseInv, RowsBacked, Stable, UNCHANGED rows
  PROVE  RowsBacked'
BY OldRowsBacked DEF RowsBacked

\* A run keeps its request, drops it, or gets one that is its own.
LEMMA RunsBackedKept ==
  ASSUME BaseInv, RunsBacked, Stable, Grow,
         \A r \in Run : \/ runs'[r].pending \in {runs[r].pending, NoApproval}
                        \/ Backs(approvals', runs'[r].pending, r, Len(rows'[r]))
  PROVE  RunsBacked'
<1> SUFFICES ASSUME NEW r \in Run, runs'[r].pending # NoApproval
             PROVE  Backs(approvals', runs'[r].pending, r, Len(rows'[r]))
  BY DEF RunsBacked
<1>1. ApprovalsTypeOK
  BY DEF BaseInv, ApprovalsInv
<1>2. CASE runs'[r].pending = runs[r].pending
  BY <1>1, <1>2, BacksKept DEF RunsBacked, Grow
<1> QED
  BY <1>2

LEMMA EngineStable ==
  ASSUME BaseInv, EngineStep
  PROVE  Stable
<1>1. ApprovalsTypeOK
  BY DEF BaseInv, ApprovalsInv
<1>2. ASSUME UNCHANGED approvals, happened \subseteq happened'
      PROVE  Stable
  BY <1>2 DEF Stable
<1>3. ASSUME NEW p \in Process, NEW a \in Approval, StepEscalates(p, a)
      PROVE  Stable
  BY <1>1, <1>3, CreateStable DEF StepEscalates
<1> QED
  BY <1>2, <1>3
     DEF EngineStep, ProcessStep, StartRun, ResumeReadRun, WorkerTake, Enqueue, StepClean, StepFails,
         CommitEscalation, EscalationLosesContext, Complete, AuditRun, ResumeReadApproval,
         ResumeReadSteps, ResumeRefused, ResumeSetRunning, Abort, ThenAudit, approvalVars

LEMMA TicketStep ==
  ASSUME BaseInv, TicketInv, EngineStep
  PROVE  TicketInv'
<1> DEFINE TicketsOK == \A q \in Process : Ticketed(proc'[q], approvals', happened', rows')
<1>1. EngineTypeOK /\ ApprovalsTypeOK /\ VerdictsAccounted
  BY DEF BaseInv, ApprovalsInv
<1>2. Stable
  BY EngineStable
<1>3. /\ RowsBacked /\ RunsBacked
      /\ \A q \in Process : Ticketed(proc[q], approvals, happened, rows)
  BY DEF TicketInv
\* Steps that leave the step rows alone and set no run's request.
<1>5. ASSUME NEW p \in Process, NEW new, proc' = [proc EXCEPT ![p] = new], UNCHANGED rows,
             Ticketed(new, approvals', happened', rows'),
             \A r \in Run : runs'[r].pending \in {runs[r].pending, NoApproval}
      PROVE  TicketInv'
  <2>1. Grow
    BY <1>1, <1>5, UnchangedGrow
  <2>2. TicketsOK
    BY <1>2, <1>3, <1>5, <2>1, TicketProcs
  <2>3. RowsBacked'
    BY <1>2, <1>3, <1>5, SameRowsBacked
  <2>4. RunsBacked'
    BY <1>2, <1>3, <1>5, <2>1, RunsBackedKept
  <2> QED
    BY <2>2, <2>3, <2>4 DEF TicketInv
\* Locals that hold nothing yet.
<1>6. ASSUME NEW new, new.pc \in {"idle", "enqueue", "audit"}
      PROVE  Ticketed(new, approvals', happened', rows')
  BY <1>6 DEF Ticketed, Bound
<1>7. \A r \in Run : Len(rows[r]) \in Nat
  BY <1>1 DEF EngineTypeOK
<1>8. ASSUME NEW r \in Run, NEW u, UNCHANGED rows
      PROVE  Ticketed(Request("step", r, u, NoApproval), approvals', happened', rows')
  BY <1>7, <1>8 DEF Ticketed, Request, Bound
<1>9. ASSUME NEW h \in Handler, NEW u \in User, NEW r \in Run, NEW async \in BOOLEAN,
             StartRun(h, u, r, async)
      PROVE  TicketInv'
  <2> DEFINE new == Request(IF async THEN "enqueue" ELSE "step", r, u, NoApproval)
  <2>1. Ticketed(new, approvals', happened', rows')
    BY <1>6, <1>8, <1>9 DEF Request, StartRun
  <2>2. proc' = [proc EXCEPT ![h] = new] /\ h \in Process /\ UNCHANGED rows
    BY <1>9 DEF StartRun, Process
  <2>3. \A q \in Run : runs'[q].pending \in {runs[q].pending, NoApproval}
    BY <1>1, <1>9 DEF StartRun, EngineTypeOK
  <2> HIDE DEF new
  <2> QED
    BY <1>5, <2>1, <2>2, <2>3
<1>10. ASSUME NEW h \in Handler, NEW u \in User, NEW r \in Run, ResumeReadRun(h, u, r)
       PROVE  TicketInv'
  <2> DEFINE a == runs[r].pending
             new == Request("resume_approval", r, u, a)
  <2>1. UNCHANGED <<approvals, happened, runs, rows>>
    BY <1>10 DEF ResumeReadRun, approvalVars
  <2>2. a # NoApproval => Backs(approvals', a, r, Len(rows'[r]))
    BY <1>3, <2>1 DEF RunsBacked
  <2> HIDE DEF a
  <2>3. new.pc = "resume_approval" /\ new.run = r /\ new.pending = a
    BY DEF Request
  <2>4. proc' = [proc EXCEPT ![h] = new] /\ h \in Process
    BY <1>10 DEF ResumeReadRun, Process, a
  <2> HIDE DEF new
  <2>5. Ticketed(new, approvals', happened', rows')
    BY <2>2, <2>3 DEF Ticketed, Bound
  <2> QED
    BY <1>5, <2>1, <2>4, <2>5
<1>11. ASSUME NEW w \in Worker, NEW t \in queue, WorkerTake(w, t)
       PROVE  TicketInv'
  <2> DEFINE new == Request("step", t.run, t.user, NoApproval)
  <2>1. t.run \in Run
    BY <1>1 DEF EngineTypeOK, Task
  <2>2. proc' = [proc EXCEPT ![w] = new] /\ w \in Process /\ UNCHANGED <<runs, rows>>
    BY <1>11 DEF WorkerTake, Process
  <2>3. Ticketed(new, approvals', happened', rows')
    BY <1>8, <2>1, <2>2
  <2> HIDE DEF new
  <2> QED
    BY <1>5, <2>2, <2>3
<1>12. ASSUME NEW p \in Process, \/ Enqueue(p) \/ EscalationLosesContext(p) \/ AuditRun(p)
                                \/ ResumeRefused(p) \/ Abort(p)
       PROVE  TicketInv'
  <2>1. proc' = [proc EXCEPT ![p] = IdleProc] /\ UNCHANGED <<runs, rows>>
    BY <1>12 DEF Enqueue, EscalationLosesContext, AuditRun, ResumeRefused, Abort
  <2>2. Ticketed(IdleProc, approvals', happened', rows')
    BY <1>6, IdleTyped
  <2> QED
    BY <1>5, <2>1, <2>2
<1>13. ASSUME NEW p \in Process, StepClean(p)
       PROVE  TicketInv'
  <2> DEFINE l == proc[p]
             new == [proc[p] EXCEPT !.index = proc[p].index + 1, !.base = proc[p].index]
  <2>1. l \in ProcState /\ l.run \in Run /\ l.pc = "step" /\ l.index \in StepIndex
    BY <1>1, <1>13 DEF EngineTypeOK, ProcHolds, StepClean, AtStep
  <2>2. l.pc \in Bound /\ l.index \in Nat
    BY <2>1, EngineAssumption DEF Bound, StepIndex
  <2>3. AddRow(p, "completed", FALSE) /\ UNCHANGED <<approvals, happened, runs>>
    BY <1>13 DEF StepClean, approvalVars
  <2>4. RowsBacked'
    BY <1>2, <1>3, <2>1, <2>2, <2>3, NewRowBacked
  <2>5. Grow /\ Len(rows'[l.run]) = Len(rows[l.run]) + 1
    BY <1>1, <2>1, <2>3, AddGrow, RowAdded
  <2>6. RunsBacked'
    BY <1>2, <1>3, <2>3, <2>5, RunsBackedKept
  <2>7. new.pc = "step" /\ new.run = l.run /\ new.index = l.index + 1 /\ new.ticket = l.ticket
    BY <2>1 DEF ProcState
  <2>8. proc' = [proc EXCEPT ![p] = new]
    BY <1>13 DEF StepClean
  <2>9. Ticketed(l, approvals, happened, rows)
    BY <1>3
  <2> HIDE DEF l, new
  <2>10. l.ticket # NoApproval =>
           Backs(approvals', l.ticket, l.run, l.index + 1) /\ Granted(happened', l.ticket)
    BY <1>1, <1>2, <2>2, <2>9, BacksKept, GrantedKept DEF Ticketed
  <2>11. new.index <= Len(rows'[new.run])
    BY <1>7, <2>1, <2>2, <2>5, <2>7, <2>9 DEF Ticketed
  <2>12. Ticketed(new, approvals', happened', rows')
    BY <2>7, <2>10, <2>11 DEF Ticketed, Bound
  <2>13. TicketsOK
    BY <1>2, <1>3, <2>5, <2>8, <2>12, TicketProcs
  <2> QED
    BY <2>4, <2>6, <2>13 DEF TicketInv
<1>14. ASSUME NEW p \in Process, NEW verb, ThenAudit(p, verb)
       PROVE  \E l : /\ proc' = [proc EXCEPT ![p] = l]
                    /\ Ticketed(l, approvals', happened', rows')
  <2> DEFINE new == [proc[p] EXCEPT !.pc = "audit", !.verb = verb]
  <2>1. proc[p] \in ProcState
    BY <1>1 DEF EngineTypeOK
  <2>2. new.pc = "audit"
    BY <2>1 DEF ProcState
  <2>3. proc' = [proc EXCEPT ![p] = new]
    BY <1>14 DEF ThenAudit
  <2> HIDE DEF new
  <2>4. Ticketed(new, approvals', happened', rows')
    BY <2>2 DEF Ticketed, Bound
  <2> QED
    BY <2>3, <2>4
<1>15. ASSUME NEW p \in Process, StepFails(p) \/ CommitEscalation(p)
       PROVE  TicketInv'
  <2> DEFINE l == proc[p]
  <2>1. l.run \in Run /\ l.pc \in Bound /\ l.index \in StepIndex /\ l.index \in Nat
    <3>1. l \in ProcState /\ l.pc \in Bound
      BY <1>1, <1>15 DEF EngineTypeOK, StepFails, CommitEscalation, AtStep, Bound
    <3>2. l.index \in StepIndex
      BY <1>1, <1>15 DEF EngineTypeOK, ProcHolds, StepFails, CommitEscalation, AtStep
    <3> QED
      BY <1>1, <3>1, <3>2 DEF EngineTypeOK, ProcHolds, ProcState, Bound
  <2>2. PICK status, escalated : AddRow(p, status, escalated)
    BY <1>15 DEF StepFails, CommitEscalation
  <2>3. RowsBacked'
    BY <1>2, <1>3, <2>1, <2>2, NewRowBacked
  <2>4. Grow /\ Len(rows'[l.run]) = Len(rows[l.run]) + 1
    BY <1>1, <2>1, <2>2, AddGrow, RowAdded
  <2>5. TicketsOK
    BY <1>2, <1>3, <1>14, <1>15, <2>4, TicketProcs DEF StepFails, CommitEscalation
  <2>6. CASE StepFails(p)
    <3>1. \A r \in Run : runs'[r].pending = runs[r].pending
      BY <1>1, <2>1, <2>6 DEF StepFails, EngineTypeOK, RunRow
    <3> QED
      BY <1>2, <1>3, <2>3, <2>4, <2>5, <3>1, RunsBackedKept DEF TicketInv
  <2>7. CASE CommitEscalation(p)
    <3>1. /\ l.pc = "escalate" /\ l.pending \in Approval /\ UNCHANGED approvals
          /\ runs' = [runs EXCEPT ![l.run] = [status |-> "escalated", pending |-> l.pending]]
      BY <1>1, <2>7 DEF CommitEscalation, EngineTypeOK, ProcHolds
    <3>2. Ticketed(l, approvals, happened, rows)
      BY <1>3
    <3>3. Len(rows[l.run]) \in Nat
      BY <1>7, <2>1
    <3> HIDE DEF l
    <3>4. l.index < Len(rows'[l.run])
      BY <2>1, <2>4, <3>2, <3>3 DEF Ticketed
    <3>5. Backs(approvals', l.pending, l.run, Len(rows'[l.run]))
      BY <3>1, <3>2, <3>4 DEF Ticketed, Backs
    <3>6. \A r \in Run : r # l.run => runs'[r].pending = runs[r].pending
      BY <3>1, <1>1 DEF EngineTypeOK
    <3>7. runs'[l.run].pending = l.pending
      BY <1>1, <2>1, <3>1 DEF EngineTypeOK
    <3>8. RunsBacked'
      BY <1>2, <1>3, <2>4, <3>5, <3>6, <3>7, RunsBackedKept
    <3> QED
      BY <2>3, <2>5, <3>8 DEF TicketInv
  <2> QED
    BY <1>15, <2>6, <2>7
<1>16. ASSUME NEW p \in Process, Complete(p)
       PROVE  TicketInv'
  <2>1. proc[p].run \in Run /\ UNCHANGED rows
    BY <1>1, <1>16 DEF EngineTypeOK, ProcHolds, Complete
  <2>2. \A r \in Run : runs'[r].pending \in {runs[r].pending, NoApproval}
    BY <1>1, <1>16, <2>1 DEF Complete, EngineTypeOK
  <2> QED
    BY <1>5, <1>14, <1>16, <2>1, <2>2 DEF Complete
<1>17. ASSUME NEW p \in Process, NEW a \in Approval, StepEscalates(p, a)
       PROVE  TicketInv'
  <2> DEFINE l == proc[p]
             new == [proc[p] EXCEPT !.pc = "escalate", !.pending = a]
  <2>1. l \in ProcState /\ l.run \in Run /\ l.pc = "step" /\ l.pc \in Bound /\ l.index \in Nat
    BY <1>1, <1>17 DEF EngineTypeOK, ProcHolds, StepEscalates, AtStep, Bound, ProcState
  <2>2. UNCHANGED <<runs, rows, happened>>
    BY <1>17 DEF StepEscalates
  <2>3. Ticketed(l, approvals', happened', rows')
    BY <1>1, <1>2, <1>3, <2>2, UnchangedGrow, TicketedKept
  <2>4. /\ new.pc = "escalate" /\ new.run = l.run /\ new.index = l.index
        /\ new.ticket = l.ticket /\ new.pending = a
    BY <2>1 DEF ProcState
  <2>5. proc' = [proc EXCEPT ![p] = new]
    BY <1>17 DEF StepEscalates
  <2>6. approvals'[a] = [status |-> "pending", run |-> l.run, step |-> l.index, decidedBy |-> NoUser]
    BY <1>1, <1>17 DEF StepEscalates, CreateApproval, ApprovalsTypeOK
  <2> HIDE DEF l, new
  <2>7. Ticketed(new, approvals', happened', rows')
    BY <2>1, <2>3, <2>4, <2>6 DEF Ticketed, Bound
  <2> QED
    BY <1>5, <2>2, <2>5, <2>7
<1>18. ASSUME NEW p \in Process, ResumeReadApproval(p)
       PROVE  TicketInv'
  <2> DEFINE l == proc[p]
             a == proc[p].pending
             passed == [proc[p] EXCEPT !.pc = "resume_steps", !.ticket = a, !.pending = NoApproval]
             new == IF SignedOff(a) THEN passed ELSE IdleProc
  <2>1. l \in ProcState /\ l.pc = "resume_approval" /\ UNCHANGED <<approvals, happened, runs, rows>>
    BY <1>1, <1>18 DEF EngineTypeOK, ResumeReadApproval, approvalVars
  <2>2. passed.pc = "resume_steps" /\ passed.ticket = a /\ passed.run = l.run
    BY <2>1 DEF ProcState
  <2>3. Ticketed(l, approvals, happened, rows)
    BY <1>3
  <2>4. proc' = [proc EXCEPT ![p] = new]
    BY <1>18 DEF ResumeReadApproval
  <2>5. SignedOff(a) => Granted(happened, a)
    BY <1>1 DEF SignedOff, VerdictsAccounted, Decision, Granted
  <2>6. a \in Approval => a # NoApproval
    BY ConstantsAssumption
  <2> HIDE DEF passed
  <2>7. SignedOff(a) =>
          Ticketed(passed, approvals', happened', rows')
    BY <2>1, <2>2, <2>3, <2>5, <2>6 DEF SignedOff, Ticketed, Bound
  <2>8. Ticketed(new, approvals', happened', rows')
    BY <1>6, <2>7, IdleTyped
  <2> HIDE DEF new
  <2> QED
    BY <1>5, <2>1, <2>4, <2>8
<1>19. ASSUME NEW p \in Process, ResumeReadSteps(p)
       PROVE  TicketInv'
  <2> DEFINE l == proc[p]
             n == Len(rows[proc[p].run])
  <2>1. PICK base \in PreviousOutput(proc[p].run) :
          proc' = [proc EXCEPT ![p] =
                     [@ EXCEPT !.pc = "resume_set", !.index = n, !.base = base]]
    BY <1>19 DEF ResumeReadSteps
  <2> DEFINE new == [proc[p] EXCEPT !.pc = "resume_set", !.index = n, !.base = base]
  <2>2. /\ l \in ProcState /\ l.pc = "resume_steps" /\ l.run \in Run
        /\ UNCHANGED <<approvals, happened, runs, rows>>
    BY <1>1, <1>19 DEF EngineTypeOK, ProcHolds, ResumeReadSteps, approvalVars
  <2>3. new.pc = "resume_set" /\ new.run = l.run /\ new.ticket = l.ticket /\ new.index = n
    BY <2>2 DEF ProcState
  <2>4. proc' = [proc EXCEPT ![p] = new]
    BY <2>1
  <2>5. Ticketed(l, approvals, happened, rows) /\ n \in Nat
    BY <1>3, <1>7, <2>2
  <2> HIDE DEF new
  <2>6. Ticketed(new, approvals', happened', rows')
    BY <2>2, <2>3, <2>5 DEF Ticketed, Bound
  <2> QED
    BY <1>5, <2>2, <2>4, <2>6
<1>20. ASSUME NEW p \in Process, ResumeSetRunning(p)
       PROVE  TicketInv'
  <2> DEFINE l == proc[p]
             new == [proc[p] EXCEPT !.pc = "step"]
  <2>1. /\ l \in ProcState /\ l.pc = "resume_set" /\ l.run \in Run
        /\ UNCHANGED <<approvals, happened, rows>>
    BY <1>1, <1>20 DEF EngineTypeOK, ProcHolds, ResumeSetRunning, approvalVars
  <2>2. new.pc = "step" /\ new.run = l.run /\ new.ticket = l.ticket /\ new.index = l.index
    BY <2>1 DEF ProcState
  <2>3. proc' = [proc EXCEPT ![p] = new]
    BY <1>20 DEF ResumeSetRunning
  <2>4. Ticketed(l, approvals, happened, rows)
    BY <1>3
  <2>5. \A r \in Run : runs'[r].pending = runs[r].pending
    BY <1>1, <1>20, <2>1 DEF ResumeSetRunning, EngineTypeOK, RunRow
  <2> HIDE DEF l, new
  <2>6. Ticketed(new, approvals', happened', rows')
    BY <2>1, <2>2, <2>4 DEF Ticketed, Bound
  <2> QED
    BY <1>5, <2>1, <2>3, <2>5, <2>6
<1> QED
  BY <1>9, <1>10, <1>11, <1>12, <1>13, <1>15, <1>16, <1>17, <1>18, <1>19, <1>20
     DEF EngineStep, ProcessStep

LEMMA TicketQueueStep ==
  ASSUME BaseInv, TicketInv, [ApprovalsNext]_approvalVars, UNCHANGED engineVars
  PROVE  TicketInv'
<1>1. UNCHANGED <<runs, rows, proc>>
  BY DEF engineVars
<1>2. Stable
  <2>1. CASE ApprovalsNext
    BY <2>1, QueueStable DEF BaseInv, ApprovalsInv
  <2>2. CASE UNCHANGED approvalVars
    BY <2>2 DEF Stable, approvalVars
  <2> QED
    BY <2>1, <2>2
<1>3. Grow
  BY <1>1, UnchangedGrow DEF BaseInv
<1>4. \A p \in Process : Ticketed(proc[p], approvals', happened', rows')
  BY <1>2, <1>3, TicketedKept DEF TicketInv
<1>5. RowsBacked' /\ RunsBacked'
  BY <1>1, <1>2, <1>3, SameRowsBacked, RunsBackedKept DEF TicketInv
<1> QED
  BY <1>1, <1>4, <1>5 DEF TicketInv

LEMMA Tickets == Spec => []TicketInv
<1>1. Init => TicketInv
  BY DEF Init, TicketInv, RowsBacked, RunsBacked, AbsentRun, Ticketed, IdleProc, Request, Bound
<1>2. ASSUME BaseInv, TicketInv, [Next]_vars
      PROVE  TicketInv'
  <2>1. CASE EngineStep
    BY <1>2, <2>1, TicketStep
  <2>2. CASE [ApprovalsNext]_approvalVars /\ UNCHANGED engineVars
    BY <1>2, <2>2, TicketQueueStep
  <2> QED
    BY <1>2, <2>1, <2>2, NextSplit DEF vars
<1> QED
  BY <1>1, <1>2, Base, PTL DEF Spec

\* Whatever requests overlap and whoever stops: a step that a resume has run
\* rests on an approval which an owner granted, of that very run, and which
\* asked about an earlier step.
THEOREM ResumesNeedAnOwner == Spec => []ResumesAuthorised
<1>1. ASSUME BaseInv, TicketInv
      PROVE  ResumesAuthorised
  <2> SUFFICES ASSUME NEW r \in Run, NEW k \in DOMAIN rows[r], rows[r][k].ticket # NoApproval
               PROVE  /\ approvals[rows[r][k].ticket].run = r
                      /\ EverDecided(rows[r][k].ticket, "approved")
                      /\ rows[r][k].index > approvals[rows[r][k].ticket].step
    BY DEF ResumesAuthorised, RowAt
  <2>1. /\ Backs(approvals, rows[r][k].ticket, r, rows[r][k].index)
        /\ Granted(happened, rows[r][k].ticket)
    BY <1>1 DEF TicketInv, RowsBacked, Authorised
  <2>2. rows[r][k].index \in Nat
    <3>1. rows[r] \in Seq(StepRow)
      BY <1>1 DEF BaseInv, EngineTypeOK
    <3>2. rows[r][k] \in StepRow
      BY <3>1
    <3> QED
      BY <3>2, EngineAssumption DEF StepRow, StepIndex
  <2>3. approvals[rows[r][k].ticket].step \in Nat
    BY <1>1, <2>1 DEF BaseInv, ApprovalsInv, ApprovalsTypeOK, ApprovalRow, Backs
  <2> QED
    BY <2>1, <2>2, <2>3 DEF Backs, Granted, EverDecided
<1> QED
  BY <1>1, Tickets, Base, PTL

--------------------------------------------------------------------------------
(* Fresh runs *)

(***************************************************************************)
(* FreshRunInOrder is about the rows of a run before anyone resumes it.    *)
(* What carries it: a run that nobody has resumed is in one place at a     *)
(* time, the handler that started it, the broker or a worker, and its rows *)
(* are exactly those its execution has counted.                            *)
(***************************************************************************)
Fresh(l) == l.pc = "enqueue" \/ (l.pc \in {"step", "escalate"} /\ l.ticket = NoApproval)

\* All the rows so far come from a fresh execution, and none of them ends one.
CleanSoFar(s) ==
  \A k \in DOMAIN s : s[k].ticket = NoApproval /\ s[k].status = "completed" /\ ~s[k].escalated

FreshOrder(s) ==
  \A k \in DOMAIN s :
    s[k].ticket = NoApproval =>
      /\ s[k].index = k - 1
      /\ \A j \in 1..(k - 1) :
           s[j].ticket = NoApproval /\ s[j].status = "completed" /\ ~s[j].escalated

\* No process works on r, or has it to record, but p.
OnlyOn(p, r) == \A q \in Process : q # p => proc[q].run # r

Unqueued(r) == \A t \in queue : t.run # r

IdleHoldsNoRun == \A p \in Process : proc[p].pc = "idle" => proc[p].run = NoRun

AbsentUntouched ==
  \A r \in Run : runs[r].status = "absent" =>
    /\ rows[r] = <<>> /\ runs[r].pending = NoApproval
    /\ Unqueued(r) /\ \A p \in Process : proc[p].run # r

TasksFresh ==
  \A t \in queue :
    /\ runs[t.run].status = "running" /\ runs[t.run].pending = NoApproval /\ rows[t.run] = <<>>
    /\ \A p \in Process : proc[p].run # t.run
    /\ \A u \in queue : u.run = t.run => u = t

\* What a process l working on run r owes the tables.
Counted(l, run, s) ==
  /\ run.status = "running" /\ run.pending = NoApproval
  /\ l.index = Len(s) /\ CleanSoFar(s)
  /\ l.pc = "enqueue" => l.index = 0

FreshAlone ==
  \A p \in Process : Fresh(proc[p]) =>
    LET r == proc[p].run IN
      Counted(proc[p], runs[r], rows[r]) /\ OnlyOn(p, r) /\ Unqueued(r)

ResumesHoldTicket == \A p \in Process : proc[p].pc = "resume_set" => proc[p].ticket # NoApproval

FreshInv ==
  /\ IdleHoldsNoRun
  /\ ResumesHoldTicket
  /\ AbsentUntouched
  /\ TasksFresh
  /\ FreshAlone
  /\ \A r \in Run : FreshOrder(rows[r])

LEMMA FreshAppend ==
  ASSUME NEW s \in Seq(StepRow), NEW row, FreshOrder(s),
         row.ticket = NoApproval => row.index = Len(s) /\ CleanSoFar(s)
  PROVE  /\ FreshOrder(Append(s, row))
         /\ CleanSoFar(s) /\ row.ticket = NoApproval /\ row.status = "completed" /\ ~row.escalated
              => CleanSoFar(Append(s, row))
<1> DEFINE n == Len(s)  t == Append(s, row)
<1>1. n \in Nat /\ DOMAIN s = 1..n /\ DOMAIN t = 1..(n + 1)
  OBVIOUS
<1>2. t[n + 1] = row /\ \A k \in 1..n : t[k] = s[k]
  OBVIOUS
<1> HIDE DEF n, t
<1>3. FreshOrder(t)
  <2> SUFFICES ASSUME NEW k \in 1..(n + 1), t[k].ticket = NoApproval
               PROVE  /\ t[k].index = k - 1
                      /\ \A j \in 1..(k - 1) :
                           t[j].ticket = NoApproval /\ t[j].status = "completed" /\ ~t[j].escalated
    BY <1>1 DEF FreshOrder
  <2>1. \A j \in 1..(k - 1) : j \in 1..n
    BY <1>1
  <2>2. CASE k = n + 1
    BY <1>1, <1>2, <2>1, <2>2 DEF CleanSoFar, n
  <2>3. CASE k \in 1..n
    BY <1>1, <1>2, <2>1, <2>3 DEF FreshOrder
  <2> QED
    BY <1>1, <2>2, <2>3
<1>4. CleanSoFar(s) /\ row.ticket = NoApproval /\ row.status = "completed" /\ ~row.escalated
        => CleanSoFar(t)
  <2>1. \A k \in 1..(n + 1) : k \in 1..n \/ k = n + 1
    BY <1>1
  <2> QED
    BY <1>1, <1>2, <2>1 DEF CleanSoFar
<1> QED
  BY <1>3, <1>4 DEF t

\* One process acts on one run, r: everybody else's is left as it is.
LEMMA FreshFrame ==
  ASSUME BaseInv, FreshInv, NEW p \in Process, NEW new, NEW r \in Run,
         proc' = [proc EXCEPT ![p] = new], queue' \subseteq queue,
         \A x \in Run : x # r => runs'[x] = runs[x] /\ rows'[x] = rows[x],
         runs'[r].status # "absent", FreshOrder(rows'[r]),
         new.run = IF new.pc = "idle" THEN NoRun ELSE r,
         \A q \in Process : q # p /\ Fresh(proc[q]) => proc[q].run # r,
         \A t \in queue' : t.run # r,
         new.pc = "resume_set" => new.ticket # NoApproval,
         Fresh(new) => Counted(new, runs'[r], rows'[r]) /\ OnlyOn(p, r)
  PROVE  FreshInv'
<1>1. proc'[p] = new /\ \A q \in Process : q # p => proc'[q] = proc[q]
  BY DEF BaseInv, EngineTypeOK
<1>2. \A t \in queue : t.run \in Run
  BY DEF BaseInv, EngineTypeOK, Task
<1>3. NoRun \notin Run
  BY ConstantsAssumption
<1>4. IdleHoldsNoRun'
  BY <1>1 DEF FreshInv, IdleHoldsNoRun
<1>9. ResumesHoldTicket'
  BY <1>1 DEF FreshInv, ResumesHoldTicket
<1>5. AbsentUntouched'
  <2> SUFFICES ASSUME NEW x \in Run, runs'[x].status = "absent"
               PROVE  /\ rows'[x] = <<>> /\ runs'[x].pending = NoApproval
                      /\ \A t \in queue' : t.run # x
                      /\ \A q \in Process : proc'[q].run # x
    BY DEF AbsentUntouched, Unqueued
  <2>1. x # r
    OBVIOUS
  <2>2. runs[x].status = "absent" /\ runs'[x] = runs[x] /\ rows'[x] = rows[x]
    BY <2>1
  <2>3. /\ rows[x] = <<>> /\ runs[x].pending = NoApproval
        /\ \A t \in queue : t.run # x
        /\ \A q \in Process : proc[q].run # x
    BY <2>2 DEF FreshInv, AbsentUntouched, Unqueued
  <2>4. new.run # x
    BY <1>3, <2>1
  <2> QED
    BY <1>1, <2>2, <2>3, <2>4
<1>6. TasksFresh'
  <2> SUFFICES ASSUME NEW t \in queue'
               PROVE  /\ runs'[t.run].status = "running" /\ runs'[t.run].pending = NoApproval
                      /\ rows'[t.run] = <<>>
                      /\ \A q \in Process : proc'[q].run # t.run
                      /\ \A u \in queue' : u.run = t.run => u = t
    BY DEF TasksFresh
  <2>1. t \in queue /\ t.run # r /\ t.run \in Run
    BY <1>2
  <2>2. runs'[t.run] = runs[t.run] /\ rows'[t.run] = rows[t.run]
    BY <2>1
  <2>3. new.run # t.run
    BY <1>3, <2>1
  <2> QED
    BY <1>1, <2>1, <2>2, <2>3 DEF FreshInv, TasksFresh
<1>7. FreshAlone'
  <2> SUFFICES ASSUME NEW q \in Process, Fresh(proc'[q])
               PROVE  /\ Counted(proc'[q], runs'[proc'[q].run], rows'[proc'[q].run])
                      /\ \A z \in Process : z # q => proc'[z].run # proc'[q].run
                      /\ \A t \in queue' : t.run # proc'[q].run
    BY DEF FreshAlone, OnlyOn, Unqueued
  <2>1. CASE q = p
    <3>1. new.run = r
      BY <1>1, <2>1 DEF Fresh
    <3> QED
      BY <1>1, <2>1, <3>1 DEF OnlyOn
  <2>2. CASE q # p
    <3>1. Fresh(proc[q]) /\ proc'[q] = proc[q]
      BY <1>1, <2>2
    <3>2. proc[q].run # r /\ proc[q].run \in Run
      BY <2>2, <3>1 DEF Fresh, BaseInv, EngineTypeOK, ProcHolds
    <3>3. runs'[proc[q].run] = runs[proc[q].run] /\ rows'[proc[q].run] = rows[proc[q].run]
      BY <3>2
    <3>4. new.run # proc[q].run
      BY <1>3, <3>2
    <3> QED
      BY <1>1, <2>2, <3>1, <3>3, <3>4 DEF FreshInv, FreshAlone, OnlyOn, Unqueued
  <2> QED
    BY <2>1, <2>2
<1>8. \A x \in Run : FreshOrder(rows'[x])
  BY DEF FreshInv
<1> QED
  BY <1>4, <1>5, <1>6, <1>7, <1>8, <1>9 DEF FreshInv

\* A process with work acts on the run it holds.
LEMMA FreshWork ==
  ASSUME BaseInv, FreshInv, NEW p \in Process, proc[p].pc # "idle", NEW new, NEW r \in Run,
         r = proc[p].run, proc' = [proc EXCEPT ![p] = new], UNCHANGED queue,
         \A x \in Run : x # r => runs'[x] = runs[x] /\ rows'[x] = rows[x],
         runs'[r].status # "absent" \/ runs' = runs, FreshOrder(rows'[r]),
         new.run = IF new.pc = "idle" THEN NoRun ELSE r,
         new.pc = "resume_set" => new.ticket # NoApproval,
         Fresh(new) => Fresh(proc[p]) /\ Counted(new, runs'[r], rows'[r])
  PROVE  FreshInv'
<1>1. \A q \in Process : q # p /\ Fresh(proc[q]) => proc[q].run # r
  BY DEF FreshInv, FreshAlone, OnlyOn
<1>2. \A t \in queue : t.run # r
  BY DEF FreshInv, TasksFresh
<1>3. runs[r].status # "absent"
  BY DEF FreshInv, AbsentUntouched
<1>4. Fresh(new) => Counted(new, runs'[r], rows'[r]) /\ OnlyOn(p, r)
  BY DEF FreshInv, FreshAlone
<1>5. runs'[r].status # "absent"
  BY <1>3
<1>6. queue' \subseteq queue /\ \A t \in queue' : t.run # r
  BY <1>2
<1> HIDE DEF FreshInv
<1> QED
  BY <1>1, <1>4, <1>5, <1>6, FreshFrame

LEMMA FreshStep ==
  ASSUME BaseInv, TicketInv, FreshInv, EngineStep
  PROVE  FreshInv'
<1>1. EngineTypeOK
  BY DEF BaseInv
<1>2. /\ IdleHoldsNoRun /\ ResumesHoldTicket /\ AbsentUntouched /\ TasksFresh /\ FreshAlone
      /\ \A r \in Run : FreshOrder(rows[r])
  BY DEF FreshInv
<1>3. NoRun \notin Run
  BY ConstantsAssumption
\* What a process at work holds.
<1>4. ASSUME NEW p \in Process, proc[p].pc # "idle"
      PROVE  proc[p] \in ProcState /\ proc[p].run \in Run
  BY <1>1, <1>4 DEF EngineTypeOK, ProcHolds
<1>5. ASSUME NEW h \in Handler, NEW u \in User, NEW r \in Run, NEW async \in BOOLEAN,
             StartRun(h, u, r, async)
      PROVE  FreshInv'
  <2> DEFINE new == Request(IF async THEN "enqueue" ELSE "step", r, u, NoApproval)
  <2>1. /\ rows[r] = <<>> /\ Unqueued(r) /\ \A q \in Process : proc[q].run # r
    BY <1>2, <1>5 DEF StartRun, AbsentUntouched
  <2>2. /\ new.pc \in {"enqueue", "step"} /\ new.run = r /\ new.index = 0
        /\ new.ticket = NoApproval
    BY DEF Request
  <2>3. /\ proc' = [proc EXCEPT ![h] = new] /\ h \in Process
        /\ runs' = [runs EXCEPT ![r] = [status |-> "running", pending |-> NoApproval]]
        /\ UNCHANGED <<rows, queue>>
    BY <1>5 DEF StartRun, Process
  <2> HIDE DEF new
  <2>4. runs'[r] = [status |-> "running", pending |-> NoApproval]
        /\ \A x \in Run : x # r => runs'[x] = runs[x]
    BY <1>1, <2>3 DEF EngineTypeOK
  <2>5. Counted(new, runs'[r], rows'[r]) /\ OnlyOn(h, r)
    BY <2>1, <2>2, <2>3, <2>4 DEF Counted, CleanSoFar, OnlyOn
  <2>6. /\ \A x \in Run : x # r => runs'[x] = runs[x] /\ rows'[x] = rows[x]
        /\ FreshOrder(rows'[r]) /\ runs'[r].status # "absent"
    BY <1>2, <2>3, <2>4
  <2>7. /\ \A q \in Process : proc[q].run # r
        /\ queue' \subseteq queue /\ \A t \in queue' : t.run # r
    BY <2>1, <2>3 DEF Unqueued
  <2>8. /\ new.run = IF new.pc = "idle" THEN NoRun ELSE r
        /\ new.pc = "resume_set" => new.ticket # NoApproval
    BY <2>2
  <2> QED
    BY <2>3, <2>5, <2>6, <2>7, <2>8, FreshFrame
<1>6. ASSUME NEW h \in Handler, NEW u \in User, NEW r \in Run, ResumeReadRun(h, u, r)
      PROVE  FreshInv'
  <2> DEFINE new == Request("resume_approval", r, u, runs[r].pending)
  <2>1. runs[r].status = "escalated"
    BY <1>6 DEF ResumeReadRun, Resumable
  <2>2. /\ new.pc = "resume_approval" /\ new.run = r
    BY DEF Request
  <2>3. /\ proc' = [proc EXCEPT ![h] = new] /\ h \in Process /\ UNCHANGED <<runs, rows, queue>>
    BY <1>6 DEF ResumeReadRun, Process
  <2>4. /\ \A q \in Process : Fresh(proc[q]) => proc[q].run # r
        /\ \A t \in queue : t.run # r
    BY <1>2, <2>1 DEF FreshAlone, Counted, TasksFresh
  <2> HIDE DEF new
  <2>5. ~Fresh(new)
    BY <2>2 DEF Fresh
  <2>6. /\ runs' = runs /\ rows' = rows /\ queue' = queue
        /\ FreshOrder(rows'[r]) /\ runs'[r].status # "absent"
    BY <1>2, <2>1, <2>3
  <2>7. new.run = IF new.pc = "idle" THEN NoRun ELSE r
    BY <2>2
  <2>8. (new.pc = "resume_set" => new.ticket # NoApproval)
    BY <2>2
  <2> QED
    BY <2>3, <2>4, <2>5, <2>6, <2>7, <2>8, FreshFrame
<1>7. ASSUME NEW w \in Worker, NEW t \in queue, WorkerTake(w, t)
      PROVE  FreshInv'
  <2> DEFINE r == t.run
             new == Request("step", r, t.user, NoApproval)
  <2>1. r \in Run
    BY <1>1 DEF EngineTypeOK, Task
  <2>2. /\ runs[r].status = "running" /\ runs[r].pending = NoApproval /\ rows[r] = <<>>
        /\ \A q \in Process : proc[q].run # r
        /\ \A v \in queue : v.run = r => v = t
    BY <1>2 DEF TasksFresh
  <2>3. new.pc = "step" /\ new.run = r /\ new.index = 0 /\ new.ticket = NoApproval
    BY DEF Request
  <2>4. /\ proc' = [proc EXCEPT ![w] = new] /\ w \in Process /\ UNCHANGED <<runs, rows>>
        /\ queue' = queue \ {t}
    BY <1>7 DEF WorkerTake, Process
  <2> HIDE DEF new, r
  <2>5. Counted(new, runs'[r], rows'[r]) /\ OnlyOn(w, r)
    BY <2>2, <2>3, <2>4 DEF Counted, CleanSoFar, OnlyOn
  <2>6. /\ runs' = runs /\ rows' = rows
        /\ FreshOrder(rows'[r]) /\ runs'[r].status # "absent"
    BY <1>2, <2>1, <2>2, <2>4
  <2>7. \A q \in Process : proc[q].run # r
    BY <2>2
  <2>8. queue' \subseteq queue /\ \A v \in queue' : v.run # r
    BY <2>2, <2>4
  <2>9. /\ new.run = IF new.pc = "idle" THEN NoRun ELSE r
        /\ new.pc = "resume_set" => new.ticket # NoApproval
    BY <2>3
  <2> QED
    BY <2>1, <2>4, <2>5, <2>6, <2>7, <2>8, <2>9, FreshFrame
<1>8. ASSUME NEW p \in Process, Enqueue(p)
      PROVE  FreshInv'
  <2> DEFINE r == proc[p].run
             task == [run |-> r, user |-> proc[p].user]
  <2>1. /\ proc[p].pc = "enqueue" /\ UNCHANGED <<runs, rows>>
        /\ proc' = [proc EXCEPT ![p] = IdleProc] /\ queue' = queue \cup {task}
    BY <1>8 DEF Enqueue
  <2>2. r \in Run
    BY <1>4, <2>1
  <2>3. Fresh(proc[p])
    BY <2>1 DEF Fresh
  <2>4. Counted(proc[p], runs[r], rows[r]) /\ OnlyOn(p, r) /\ Unqueued(r)
    BY <1>2, <2>3 DEF FreshAlone
  <2>5. IdleProc.pc = "idle" /\ IdleProc.run = NoRun
    BY DEF IdleProc, Request
  <2>6. proc'[p] = IdleProc /\ \A q \in Process : q # p => proc'[q] = proc[q]
    BY <1>1, <2>1 DEF EngineTypeOK
  <2>7. rows[r] = <<>> /\ runs[r].status = "running" /\ runs[r].pending = NoApproval
    <3>1. rows[r] \in Seq(StepRow)
      BY <1>1, <2>2 DEF EngineTypeOK
    <3> QED
      BY <2>1, <2>4, <3>1 DEF Counted
  <2>8. \A q \in Process : proc'[q].run # r
    BY <1>3, <2>2, <2>4, <2>5, <2>6 DEF OnlyOn
  <2>9. task.run = r
    OBVIOUS
  <2> HIDE DEF task
  <2>10. \A t \in queue : t.run \in Run
    BY <1>1 DEF EngineTypeOK, Task
  <2>11. IdleHoldsNoRun' /\ ResumesHoldTicket'
    BY <1>2, <2>5, <2>6 DEF IdleHoldsNoRun, ResumesHoldTicket
  <2>12. AbsentUntouched'
    BY <1>2, <1>3, <2>1, <2>5, <2>6, <2>7, <2>9 DEF AbsentUntouched, Unqueued
  <2>13. TasksFresh'
    <3>1. ASSUME NEW t \in queue'
          PROVE  /\ runs'[t.run].status = "running" /\ runs'[t.run].pending = NoApproval
                 /\ rows'[t.run] = <<>>
                 /\ \A q \in Process : proc'[q].run # t.run
                 /\ \A v \in queue' : v.run = t.run => v = t
      <4>1. CASE t = task
        BY <2>1, <2>4, <2>7, <2>8, <2>9, <4>1 DEF Unqueued
      <4>2. CASE t \in queue
        <5>1. \A v \in queue' : v.run = t.run => v = t
          BY <1>2, <2>1, <2>4, <2>9, <4>2 DEF TasksFresh, Unqueued
        <5> QED
          BY <1>2, <1>3, <2>1, <2>5, <2>6, <2>10, <4>2, <5>1 DEF TasksFresh
      <4> QED
        BY <2>1, <4>1, <4>2
    <3> QED
      BY <3>1 DEF TasksFresh
  <2>14. FreshAlone'
    <3> SUFFICES ASSUME NEW q \in Process, Fresh(proc'[q])
                 PROVE  /\ Counted(proc'[q], runs'[proc'[q].run], rows'[proc'[q].run])
                        /\ \A z \in Process : z # q => proc'[z].run # proc'[q].run
                        /\ \A t \in queue' : t.run # proc'[q].run
      BY DEF FreshAlone, OnlyOn, Unqueued
    <3>1. q # p
      BY <2>5, <2>6 DEF Fresh
    <3>2. proc'[q] = proc[q] /\ proc[q].run \in Run /\ proc[q].run # r
      BY <1>4, <2>4, <2>6, <3>1 DEF OnlyOn, Fresh
    <3> QED
      BY <1>2, <1>3, <2>1, <2>5, <2>6, <2>9, <3>1, <3>2 DEF FreshAlone, OnlyOn, Unqueued
  <2> QED
    BY <1>2, <2>1, <2>11, <2>12, <2>13, <2>14 DEF FreshInv
<1>9. ASSUME NEW p \in Process, proc[p].pc # "idle", proc' = [proc EXCEPT ![p] = IdleProc],
             UNCHANGED <<runs, rows, queue>>
      PROVE  FreshInv'
  <2>1. IdleProc.pc = "idle" /\ IdleProc.run = NoRun
    BY DEF IdleProc, Request
  <2>2. ~Fresh(IdleProc)
    BY <2>1 DEF Fresh
  <2> QED
    BY <1>2, <1>4, <1>9, <2>1, <2>2, FreshWork
<1>10. ASSUME NEW p \in Process, \/ EscalationLosesContext(p) \/ AuditRun(p)
                                \/ ResumeRefused(p) \/ Abort(p)
       PROVE  FreshInv'
  BY <1>9, <1>10 DEF EscalationLosesContext, AuditRun, ResumeRefused, Abort
\* A row comes in order.
<1>11. ASSUME NEW p \in Process, proc[p].pc \in {"step", "escalate"},
              NEW status, NEW escalated, AddRow(p, status, escalated)
       PROVE  LET r == proc[p].run  row == RowOf(p, status, escalated) IN
                /\ rows'[r] = Append(rows[r], row) /\ rows[r] \in Seq(StepRow)
                /\ \A x \in Run : x # r => rows'[x] = rows[x]
                /\ FreshOrder(rows'[r])
                /\ Fresh(proc[p]) /\ status = "completed" /\ escalated = FALSE => CleanSoFar(rows'[r])
  <2> DEFINE r == proc[p].run  row == RowOf(p, status, escalated)
  <2>1. r \in Run
    BY <1>4, <1>11
  <2>2. /\ rows'[r] = Append(rows[r], row) /\ rows[r] \in Seq(StepRow)
        /\ \A x \in Run : x # r => rows'[x] = rows[x]
    BY <1>1, <1>11, <2>1 DEF AddRow, EngineTypeOK
  <2>3. row.ticket = proc[p].ticket /\ row.index = proc[p].index /\ row.status = status
        /\ row.escalated = escalated
    BY DEF RowOf
  <2>4. row.ticket = NoApproval <=> Fresh(proc[p])
    BY <1>11, <2>3 DEF Fresh
  <2>5. Fresh(proc[p]) => row.index = Len(rows[r]) /\ CleanSoFar(rows[r])
    BY <1>2, <2>3 DEF FreshAlone, Counted
  <2>6. FreshOrder(rows[r])
    BY <1>2, <2>1
  <2> HIDE DEF row, r
  <2>7. /\ FreshOrder(Append(rows[r], row))
        /\ CleanSoFar(rows[r]) /\ row.ticket = NoApproval /\ row.status = "completed" /\ ~row.escalated
             => CleanSoFar(Append(rows[r], row))
    BY <2>2, <2>4, <2>5, <2>6, FreshAppend
  <2> QED
    BY <2>2, <2>3, <2>4, <2>5, <2>7 DEF row, r
<1>12. ASSUME NEW p \in Process, StepClean(p)
       PROVE  FreshInv'
  <2> DEFINE r == proc[p].run
             new == [proc[p] EXCEPT !.index = proc[p].index + 1, !.base = proc[p].index]
  <2>1. /\ proc[p].pc = "step" /\ AddRow(p, "completed", FALSE) /\ UNCHANGED <<runs, queue>>
        /\ proc' = [proc EXCEPT ![p] = new]
    BY <1>12 DEF StepClean, AtStep
  <2>2. proc[p] \in ProcState /\ r \in Run
    BY <1>4, <2>1
  <2>3. /\ new.pc = "step" /\ new.run = r /\ new.index = proc[p].index + 1
        /\ new.ticket = proc[p].ticket
    BY <2>1, <2>2 DEF ProcState
  <2> HIDE DEF new
  <2>4. /\ \E row : rows'[r] = Append(rows[r], row) /\ rows[r] \in Seq(StepRow)
        /\ \A x \in Run : x # r => rows'[x] = rows[x]
        /\ FreshOrder(rows'[r])
        /\ Fresh(proc[p]) => CleanSoFar(rows'[r])
    <3>1. PICK status, escalated : AddRow(p, status, escalated)
                                   /\ status = "completed" /\ escalated = FALSE
      BY <2>1
    <3> QED
      BY <1>11, <2>1, <3>1
  <2>5. Len(rows'[r]) = Len(rows[r]) + 1
    BY <2>4
  <2>6. Fresh(new) => Fresh(proc[p])
    BY <2>1, <2>3 DEF Fresh
  <2>7. Fresh(proc[p]) => Counted(proc[p], runs[r], rows[r])
    BY <1>2 DEF FreshAlone
  <2>8. Fresh(new) => Counted(new, runs'[r], rows'[r])
    BY <2>1, <2>3, <2>4, <2>5, <2>6, <2>7 DEF Counted
  <2> QED
    BY <2>1, <2>2, <2>3, <2>4, <2>6, <2>8, FreshWork
<1>13. ASSUME NEW p \in Process, NEW verb, ThenAudit(p, verb), proc[p].pc # "idle", UNCHANGED queue,
              \A x \in Run : x # proc[p].run => runs'[x] = runs[x] /\ rows'[x] = rows[x],
              runs'[proc[p].run].status # "absent", FreshOrder(rows'[proc[p].run])
       PROVE  FreshInv'
  <2> DEFINE new == [proc[p] EXCEPT !.pc = "audit", !.verb = verb]
  <2>1. proc[p] \in ProcState /\ proc[p].run \in Run
    BY <1>4, <1>13
  <2>2. new.pc = "audit" /\ new.run = proc[p].run
    BY <2>1 DEF ProcState
  <2>3. proc' = [proc EXCEPT ![p] = new]
    BY <1>13 DEF ThenAudit
  <2> HIDE DEF new
  <2>4. ~Fresh(new)
    BY <2>2 DEF Fresh
  <2> QED
    BY <1>13, <2>1, <2>2, <2>3, <2>4, FreshWork
<1>14. ASSUME NEW p \in Process, StepFails(p) \/ CommitEscalation(p)
       PROVE  FreshInv'
  <2>1. proc[p].pc \in {"step", "escalate"} /\ UNCHANGED queue
    BY <1>14 DEF StepFails, CommitEscalation, AtStep
  <2>2. PICK status, escalated : AddRow(p, status, escalated)
    BY <1>14 DEF StepFails, CommitEscalation
  <2>3. /\ \A x \in Run : x # proc[p].run => rows'[x] = rows[x]
        /\ FreshOrder(rows'[proc[p].run])
    BY <1>11, <2>1, <2>2
  <2>4. proc[p].run \in Run
    BY <1>4, <2>1
  <2>5. /\ \A x \in Run : x # proc[p].run => runs'[x] = runs[x]
        /\ runs'[proc[p].run].status # "absent"
    <3>1. CASE StepFails(p)
      BY <1>1, <2>4, <3>1 DEF StepFails, EngineTypeOK, RunRow
    <3>2. CASE CommitEscalation(p)
      BY <1>1, <2>4, <3>2 DEF CommitEscalation, EngineTypeOK
    <3> QED
      BY <1>14, <3>1, <3>2
  <2> QED
    BY <1>13, <1>14, <2>1, <2>3, <2>5 DEF StepFails, CommitEscalation
<1>15. ASSUME NEW p \in Process, Complete(p)
       PROVE  FreshInv'
  <2>1. proc[p].pc = "step" /\ UNCHANGED <<rows, queue>>
    BY <1>15 DEF Complete
  <2>2. proc[p].run \in Run
    BY <1>4, <2>1
  <2>3. /\ \A x \in Run : x # proc[p].run => runs'[x] = runs[x]
        /\ runs'[proc[p].run].status # "absent"
    BY <1>1, <1>15, <2>2 DEF Complete, EngineTypeOK
  <2> QED
    BY <1>2, <1>13, <1>15, <2>1, <2>2, <2>3 DEF Complete
<1>16. ASSUME NEW p \in Process, NEW a \in Approval, StepEscalates(p, a)
       PROVE  FreshInv'
  <2> DEFINE new == [proc[p] EXCEPT !.pc = "escalate", !.pending = a]
  <2>1. proc[p].pc = "step" /\ UNCHANGED <<runs, rows, queue>> /\ proc' = [proc EXCEPT ![p] = new]
    BY <1>16 DEF StepEscalates, AtStep
  <2>2. proc[p] \in ProcState /\ proc[p].run \in Run
    BY <1>4, <2>1
  <2>3. /\ new.pc = "escalate" /\ new.run = proc[p].run /\ new.index = proc[p].index
        /\ new.ticket = proc[p].ticket
    BY <2>2 DEF ProcState
  <2> HIDE DEF new
  <2>4. Fresh(new) => Fresh(proc[p]) /\ Counted(new, runs[proc[p].run], rows[proc[p].run])
    BY <1>2, <2>1, <2>3 DEF Fresh, FreshAlone, Counted
  <2> QED
    BY <1>2, <2>1, <2>2, <2>3, <2>4, FreshWork
<1>17. ASSUME NEW p \in Process, ResumeReadApproval(p)
       PROVE  FreshInv'
  <2> DEFINE a == proc[p].pending
             passed == [proc[p] EXCEPT !.pc = "resume_steps", !.ticket = a, !.pending = NoApproval]
  <2>1. /\ proc[p].pc = "resume_approval" /\ UNCHANGED <<runs, rows, queue>>
        /\ proc' = [proc EXCEPT ![p] = IF SignedOff(a) THEN passed ELSE IdleProc]
    BY <1>17 DEF ResumeReadApproval
  <2>2. proc[p] \in ProcState /\ proc[p].run \in Run
    BY <1>4, <2>1
  <2>3. passed.pc = "resume_steps" /\ passed.run = proc[p].run
    BY <2>2 DEF ProcState
  <2> HIDE DEF passed
  <2>4. ~Fresh(passed)
    BY <2>3 DEF Fresh
  <2>5. CASE SignedOff(a)
    BY <1>2, <2>1, <2>2, <2>3, <2>4, <2>5, FreshWork
  <2>6. CASE ~SignedOff(a)
    BY <1>9, <2>1, <2>6
  <2> QED
    BY <2>5, <2>6
<1>18. ASSUME NEW p \in Process, ResumeReadSteps(p)
       PROVE  FreshInv'
  <2> DEFINE n == Len(rows[proc[p].run])
  <2>1. PICK base \in PreviousOutput(proc[p].run) :
          proc' = [proc EXCEPT ![p] =
                     [@ EXCEPT !.pc = "resume_set", !.index = n, !.base = base]]
    BY <1>18 DEF ResumeReadSteps
  <2> DEFINE new == [proc[p] EXCEPT !.pc = "resume_set", !.index = n, !.base = base]
  <2>2. proc[p].pc = "resume_steps" /\ UNCHANGED <<runs, rows, queue>>
        /\ proc' = [proc EXCEPT ![p] = new]
    BY <1>18, <2>1 DEF ResumeReadSteps
  <2>3. proc[p] \in ProcState /\ proc[p].run \in Run
    BY <1>4, <2>2
  <2>4. new.pc = "resume_set" /\ new.run = proc[p].run /\ new.ticket = proc[p].ticket
    BY <2>3 DEF ProcState
  <2>5. proc[p].ticket # NoApproval
    BY <2>2, ConstantsAssumption DEF TicketInv, Ticketed, Backs
  <2> HIDE DEF new
  <2>6. ~Fresh(new)
    BY <2>4 DEF Fresh
  <2> QED
    BY <1>2, <2>2, <2>3, <2>4, <2>5, <2>6, FreshWork
<1>19. ASSUME NEW p \in Process, ResumeSetRunning(p)
       PROVE  FreshInv'
  <2> DEFINE new == [proc[p] EXCEPT !.pc = "step"]
  <2>1. /\ proc[p].pc = "resume_set" /\ UNCHANGED <<rows, queue>>
        /\ proc' = [proc EXCEPT ![p] = new]
    BY <1>19 DEF ResumeSetRunning
  <2>2. proc[p] \in ProcState /\ proc[p].run \in Run /\ proc[p].ticket # NoApproval
    BY <1>2, <1>4, <2>1 DEF ResumesHoldTicket
  <2>3. new.pc = "step" /\ new.run = proc[p].run /\ new.ticket = proc[p].ticket
    BY <2>2 DEF ProcState
  <2>4. /\ \A x \in Run : x # proc[p].run => runs'[x] = runs[x]
        /\ runs'[proc[p].run].status # "absent"
    BY <1>1, <1>19, <2>2 DEF ResumeSetRunning, EngineTypeOK, RunRow
  <2> HIDE DEF new
  <2>5. ~Fresh(new)
    BY <2>2, <2>3 DEF Fresh
  <2> QED
    BY <1>2, <2>1, <2>2, <2>3, <2>4, <2>5, FreshWork
<1> QED
  BY <1>5, <1>6, <1>7, <1>8, <1>10, <1>12, <1>14, <1>15, <1>16, <1>17, <1>18, <1>19
     DEF EngineStep, ProcessStep

LEMMA FreshQueueStep ==
  ASSUME FreshInv, UNCHANGED engineVars
  PROVE  FreshInv'
BY DEF engineVars, FreshInv, IdleHoldsNoRun, ResumesHoldTicket, AbsentUntouched, TasksFresh,
       FreshAlone, Unqueued, OnlyOn

LEMMA FreshRuns == Spec => []FreshInv
<1>1. Init => FreshInv
  <2> SUFFICES ASSUME Init PROVE FreshInv
    OBVIOUS
  <2>1. /\ queue = {} /\ \A r \in Run : rows[r] = <<>> /\ runs[r] = AbsentRun
        /\ \A p \in Process : proc[p].pc = "idle" /\ proc[p].run = NoRun
    BY DEF Init, IdleProc, Request
  <2>2. NoRun \notin Run
    BY ConstantsAssumption
  <2> QED
    BY <2>1, <2>2 DEF FreshInv, IdleHoldsNoRun, ResumesHoldTicket, AbsentUntouched, TasksFresh,
                      FreshAlone, Unqueued, AbsentRun, FreshOrder, Fresh
<1>2. ASSUME BaseInv, TicketInv, FreshInv, [Next]_vars
      PROVE  FreshInv'
  <2>1. CASE EngineStep
    BY <1>2, <2>1, FreshStep
  <2>2. CASE UNCHANGED engineVars
    BY <1>2, <2>2, FreshQueueStep
  <2> QED
    BY <1>2, <2>1, <2>2, NextSplit DEF vars
<1> QED
  BY <1>1, <1>2, Base, Tickets, PTL DEF Spec

\* Whatever is resumed or stopped meanwhile: what a run recorded before its first
\* resume, in the request that started it or in a Celery worker, is its first steps,
\* each once and in order, and nothing follows the first that escalated or failed.
THEOREM FreshRunsInOrder == Spec => []FreshRunInOrder
<1>1. FreshInv => FreshRunInOrder
  BY DEF FreshInv, FreshOrder, FreshRunInOrder, RowAt
<1> QED
  BY <1>1, FreshRuns, PTL

--------------------------------------------------------------------------------
(* What every step of the engine keeps *)

\* Step rows stay where they are.
RowsKept ==
  \A r \in Run : \A k \in DOMAIN rows[r] : k \in DOMAIN rows'[r] /\ rows'[r][k] = rows[r][k]

LEMMA SameRows == UNCHANGED rows => RowsKept
BY DEF RowsKept

LEMMA AddKeeps ==
  ASSUME EngineTypeOK, NEW p \in Process, proc[p].run \in Run,
         NEW status, NEW escalated, AddRow(p, status, escalated)
  PROVE  /\ RowsKept /\ Grow
         /\ \E k \in DOMAIN rows'[proc[p].run] :
              rows'[proc[p].run][k] = RowOf(p, status, escalated)
<1> DEFINE r == proc[p].run
<1>1. /\ Len(rows[r]) \in Nat /\ DOMAIN rows'[r] = 1..(Len(rows[r]) + 1)
      /\ rows'[r][Len(rows[r]) + 1] = RowOf(p, status, escalated)
      /\ \A k \in DOMAIN rows[r] : rows'[r][k] = rows[r][k]
      /\ \A q \in Run : q # r => rows'[q] = rows[q]
  <2>1. /\ Len(rows[r]) \in Nat /\ DOMAIN rows'[r] = 1..(Len(rows[r]) + 1)
        /\ rows'[r][Len(rows[r]) + 1] = RowOf(p, status, escalated)
    BY RowAdded
  <2>2. \A k \in DOMAIN rows[r] : rows'[r][k] = rows[r][k]
    BY RowAdded
  <2>3. \A q \in Run : q # r => rows'[q] = rows[q]
    BY RowAdded
  <2> QED
    BY <2>1, <2>2, <2>3
<1>2. DOMAIN rows[r] \subseteq DOMAIN rows'[r]
  <2>1. rows[r] \in Seq(StepRow)
    BY DEF EngineTypeOK
  <2> QED
    BY <1>1, <2>1
<1>3. RowsKept
  BY <1>1, <1>2 DEF RowsKept
<1>4. Len(rows[r]) + 1 \in DOMAIN rows'[r]
  BY <1>1
<1> QED
  BY <1>1, <1>3, <1>4, AddGrow

\* Where a process that adds a row is.
LEMMA AdderWorks ==
  ASSUME EngineTypeOK, NEW p \in Process, StepClean(p) \/ StepFails(p) \/ CommitEscalation(p)
  PROVE  proc[p].run \in Run /\ proc[p].user \in User
BY DEF EngineTypeOK, ProcHolds, StepClean, StepFails, CommitEscalation, AtStep

LEMMA EngineKeepsRows ==
  ASSUME EngineTypeOK, EngineStep
  PROVE  RowsKept /\ Grow
<1>1. ASSUME NEW p \in Process, StepClean(p) \/ StepFails(p) \/ CommitEscalation(p)
      PROVE  RowsKept /\ Grow
  <2>1. PICK status, escalated : AddRow(p, status, escalated)
    BY <1>1 DEF StepClean, StepFails, CommitEscalation
  <2> QED
    BY <1>1, <2>1, AdderWorks, AddKeeps
<1>2. CASE UNCHANGED rows
  BY <1>2, SameRows, UnchangedGrow
<1> QED
  BY <1>1, <1>2
     DEF EngineStep, ProcessStep, StartRun, ResumeReadRun, WorkerTake, Enqueue, StepEscalates,
         EscalationLosesContext, Complete, AuditRun, ResumeReadApproval, ResumeReadSteps,
         ResumeRefused, ResumeSetRunning, Abort

\* A run gets a request to wait for from an escalation only.
LEMMA EngineMovesRuns ==
  ASSUME EngineTypeOK, EngineStep, NEW r \in Run
  PROVE  \/ /\ runs'[r].pending = runs[r].pending
            /\ runs'[r].status \in {runs[r].status, "failed", "running"}
         \/ runs'[r].pending = NoApproval /\ runs'[r].status # "escalated"
         \/ \E p \in Process : /\ CommitEscalation(p) /\ proc[p].run = r
                               /\ runs'[r].pending = proc[p].pending
<1> DEFINE Kept == /\ runs'[r].pending = runs[r].pending
                   /\ runs'[r].status \in {runs[r].status, "failed", "running"}
           Cleared == runs'[r].pending = NoApproval /\ runs'[r].status # "escalated"
           Set == \E p \in Process : /\ CommitEscalation(p) /\ proc[p].run = r
                                     /\ runs'[r].pending = proc[p].pending
<1> USE DEF EngineTypeOK, RunRow
<1>1. ASSUME NEW h \in Handler, NEW u \in User, NEW x \in Run, NEW async \in BOOLEAN,
             StartRun(h, u, x, async)
      PROVE  Kept \/ Cleared
  BY <1>1 DEF StartRun
<1>2. ASSUME NEW p \in Process, StepFails(p)
      PROVE  Kept
  BY <1>2 DEF StepFails
<1>3. ASSUME NEW p \in Process, ResumeSetRunning(p)
      PROVE  Kept
  BY <1>3 DEF ResumeSetRunning
<1>4. ASSUME NEW p \in Process, Complete(p)
      PROVE  Kept \/ Cleared
  BY <1>4 DEF Complete
<1>5. ASSUME NEW p \in Process, CommitEscalation(p)
      PROVE  Kept \/ Set
  BY <1>5 DEF CommitEscalation
<1>6. ASSUME UNCHANGED runs PROVE Kept
  BY <1>6
<1> HIDE DEF EngineTypeOK, RunRow, Kept, Cleared, Set
<1>7. ASSUME NEW p \in Process, ProcessStep(p) \/ Abort(p)
      PROVE  Kept \/ Cleared \/ Set
  BY <1>2, <1>3, <1>4, <1>5, <1>6, <1>7
     DEF ProcessStep, Enqueue, StepClean, StepEscalates, EscalationLosesContext, AuditRun,
         ResumeReadApproval, ResumeReadSteps, ResumeRefused, Abort
<1>8. Kept \/ Cleared \/ Set
  BY <1>1, <1>6, <1>7 DEF EngineStep, ResumeReadRun, WorkerTake
<1> QED
  BY <1>8 DEF Kept, Cleared, Set

--------------------------------------------------------------------------------
(* Escalations *)

\* A request a run names is about a step of the run that is recorded as escalated.
Recorded(r, a, q, t) == \E k \in DOMAIN t[r] : t[r][k].escalated /\ t[r][k].index = q[a].step

EscalationInv ==
  \A r \in Run :
    /\ runs[r].status = "escalated" => runs[r].pending # NoApproval
    /\ runs[r].pending # NoApproval => Recorded(r, runs[r].pending, approvals, rows)

LEMMA EscalationKept ==
  ASSUME BaseInv, TicketInv, EscalationInv, Stable, RowsKept,
         NEW r \in Run, runs[r].pending # NoApproval
  PROVE  Recorded(r, runs[r].pending, approvals', rows')
<1> DEFINE a == runs[r].pending
<1>1. a \in Approval /\ approvals[a].status # "absent"
  BY DEF TicketInv, RunsBacked, Backs
<1>2. approvals'[a].step = approvals[a].step
  BY <1>1 DEF Stable
<1>3. PICK k \in DOMAIN rows[r] : rows[r][k].escalated /\ rows[r][k].index = approvals[a].step
  BY DEF EscalationInv, Recorded
<1>4. k \in DOMAIN rows'[r] /\ rows'[r][k] = rows[r][k]
  BY DEF RowsKept
<1> QED
  BY <1>2, <1>3, <1>4 DEF Recorded

LEMMA EscalationStep ==
  ASSUME BaseInv, TicketInv, EscalationInv, EngineStep
  PROVE  EscalationInv'
<1>1. EngineTypeOK
  BY DEF BaseInv
<1>2. RowsKept /\ Stable
  BY <1>1, EngineKeepsRows, EngineStable
<1> SUFFICES ASSUME NEW r \in Run
             PROVE  /\ runs'[r].status = "escalated" => runs'[r].pending # NoApproval
                    /\ runs'[r].pending # NoApproval => Recorded(r, runs'[r].pending, approvals', rows')
  BY DEF EscalationInv
<1>3. CASE /\ runs'[r].pending = runs[r].pending
           /\ runs'[r].status \in {runs[r].status, "failed", "running"}
  BY <1>2, <1>3, EscalationKept DEF EscalationInv
<1>4. CASE runs'[r].pending = NoApproval /\ runs'[r].status # "escalated"
  BY <1>4
<1>5. ASSUME NEW p \in Process, CommitEscalation(p), proc[p].run = r,
             runs'[r].pending = proc[p].pending
      PROVE  runs'[r].pending # NoApproval /\ Recorded(r, runs'[r].pending, approvals', rows')
  <2>1. proc[p].pc = "escalate" /\ proc[p].pending \in Approval /\ UNCHANGED approvals
    BY <1>1, <1>5 DEF CommitEscalation, EngineTypeOK, ProcHolds
  <2>2. approvals'[proc[p].pending].step = proc[p].index
    BY <2>1 DEF TicketInv, Ticketed
  <2>3. PICK status, escalated : AddRow(p, status, escalated) /\ escalated = TRUE
    BY <1>5 DEF CommitEscalation
  <2>4. \E k \in DOMAIN rows'[r] : rows'[r][k] = RowOf(p, status, escalated)
    BY <1>1, <1>5, <2>3, AddKeeps
  <2>5. /\ RowOf(p, status, escalated).escalated
        /\ RowOf(p, status, escalated).index = proc[p].index
    BY <2>3 DEF RowOf
  <2>6. Recorded(r, proc[p].pending, approvals', rows')
    BY <2>2, <2>4, <2>5 DEF Recorded
  <2> QED
    BY <1>5, <2>1, <2>6, ConstantsAssumption
<1> QED
  BY <1>1, <1>3, <1>4, <1>5, EngineMovesRuns

\* Deciding or creating requests moves no run.
LEMMA QueueKeeps ==
  ASSUME BaseInv, [ApprovalsNext]_approvalVars, UNCHANGED engineVars
  PROVE  Stable /\ RowsKept
<1>1. Stable
  <2>1. CASE ApprovalsNext
    BY <2>1, QueueStable DEF BaseInv, ApprovalsInv
  <2>2. CASE UNCHANGED approvalVars
    BY <2>2 DEF Stable, approvalVars
  <2> QED
    BY <2>1, <2>2
<1> QED
  BY <1>1, SameRows DEF engineVars

\* Whatever overlaps and whoever stops: a run that waits for an owner names a request
\* of its own, about a step it has recorded as escalated.
THEOREM EscalationsNameRequests == Spec => []EscalationHasRequest
<1>1. Init => EscalationInv
  BY DEF Init, EscalationInv, AbsentRun
<1>2. ASSUME BaseInv, TicketInv, EscalationInv, [Next]_vars
      PROVE  EscalationInv'
  <2>1. CASE EngineStep
    BY <1>2, <2>1, EscalationStep
  <2>2. CASE [ApprovalsNext]_approvalVars /\ UNCHANGED engineVars
    <3>1. Stable /\ RowsKept /\ UNCHANGED runs
      BY <1>2, <2>2, QueueKeeps DEF engineVars
    <3> QED
      BY <1>2, <3>1, EscalationKept DEF EscalationInv
  <2> QED
    BY <1>2, <2>1, <2>2, NextSplit DEF vars
<1>3. TicketInv /\ EscalationInv => EscalationHasRequest
  BY DEF TicketInv, RunsBacked, Backs, EscalationInv, Recorded, EscalationHasRequest, RowAt
<1> QED
  BY <1>1, <1>2, <1>3, Base, Tickets, PTL DEF Spec

--------------------------------------------------------------------------------
(* The audit log and the step rows *)

(***************************************************************************)
(* The entry for the end of an execution is written in a transaction of    *)
(* its own, when other requests may have moved the run on.  What is true   *)
(* of the rows when the execution commits stays true: rows are only added. *)
(***************************************************************************)
Shown(e, t) ==
  LET by == {k \in DOMAIN t[e.about] : t[e.about][k].by = e.actor} IN
    /\ e.verb = "workflow.failed" => \E k \in by : t[e.about][k].status = "failed"
    /\ e.verb = "workflow.escalated" => \E k \in by : t[e.about][k].escalated
    /\ e.verb = "workflow.completed" => Len(t[e.about]) >= Steps

OwesTruth(p) == proc[p].pc = "audit" => OwedBy(p) \in happened \cap WorkflowEntry

AuditInv ==
  /\ \A e \in happened \cap WorkflowEntry : Shown(e, rows)
  /\ audit \cap WorkflowEntry \subseteq happened
  /\ \A p \in Process : OwesTruth(p)
  /\ WorkflowAuditComplete

LEMMA ShownKept ==
  ASSUME RowsKept, Grow, NEW e \in WorkflowEntry, Shown(e, rows)
  PROVE  Shown(e, rows')
<1>1. e.about \in Run
  BY DEF WorkflowEntry
<1>2. \A k \in DOMAIN rows[e.about] :
        k \in DOMAIN rows'[e.about] /\ rows'[e.about][k] = rows[e.about][k]
  BY <1>1 DEF RowsKept
<1>3. Len(rows[e.about]) >= Steps => Len(rows'[e.about]) >= Steps
  BY <1>1, EngineAssumption DEF Grow
<1> QED
  BY <1>2, <1>3 DEF Shown

\* A process takes up work, goes on, records what it owes or is stopped.
LEMMA AuditGoesOn ==
  ASSUME EngineTypeOK, AuditInv, RowsKept, Grow, UNCHANGED happened,
         NEW p \in Process, NEW new, proc' = [proc EXCEPT ![p] = new], new.pc # "audit",
         audit \subseteq audit', lost \subseteq lost',
         \A e \in audit' : e \in audit \/ (proc[p].pc = "audit" /\ e = OwedBy(p)),
         proc[p].pc = "audit" => OwedBy(p) \in audit' \cup lost'
  PROVE  AuditInv'
<1>1. proc'[p] = new /\ \A q \in Process : q # p => proc'[q] = proc[q]
  BY DEF EngineTypeOK
<1>2. \A e \in happened' \cap WorkflowEntry : Shown(e, rows')
  BY ShownKept DEF AuditInv
<1>3. audit' \cap WorkflowEntry \subseteq happened'
  BY DEF AuditInv, OwesTruth
<1>4. \A q \in Process : OwesTruth(q)'
  BY <1>1 DEF AuditInv, OwesTruth, OwedBy
<1>5. WorkflowAuditComplete'
  <2> SUFFICES ASSUME NEW e \in happened \cap WorkflowEntry, e \notin audit' \cup lost'
               PROVE  \E q \in Process : proc'[q].pc = "audit" /\ OwedBy(q)' = e
    BY DEF WorkflowAuditComplete
  <2>1. PICK q \in Process : proc[q].pc = "audit" /\ OwedBy(q) = e
    BY DEF AuditInv, WorkflowAuditComplete
  <2>2. q # p
    BY <2>1
  <2> QED
    BY <1>1, <2>1, <2>2 DEF OwedBy
<1> QED
  BY <1>2, <1>3, <1>4, <1>5 DEF AuditInv

\* An execution commits its end, and owes the entry for it.
LEMMA AuditOwed ==
  ASSUME EngineTypeOK, AuditInv, RowsKept, Grow,
         NEW p \in Process, proc[p].pc # "audit", proc[p].run \in Run, proc[p].user \in User,
         NEW verb \in WorkflowVerb, ThenAudit(p, verb),
         Shown(Entry(verb, proc[p].run, proc[p].user), rows')
  PROVE  AuditInv'
<1> DEFINE new == [proc[p] EXCEPT !.pc = "audit", !.verb = verb]
           owed == Entry(verb, proc[p].run, proc[p].user)
<1>1. proc'[p] = new /\ \A q \in Process : q # p => proc'[q] = proc[q]
  BY DEF EngineTypeOK, ThenAudit
<1>2. proc[p] \in ProcState
  BY DEF EngineTypeOK
<1>3. new.pc = "audit" /\ new.verb = verb /\ new.run = proc[p].run /\ new.user = proc[p].user
  BY <1>2 DEF ProcState
<1>4. OwedBy(p)' = owed
  BY <1>1, <1>3 DEF OwedBy
<1>5. owed \in WorkflowEntry
  BY DEF WorkflowEntry, Entry
<1>6. happened' = happened \cup {owed} /\ UNCHANGED <<audit, lost>>
  BY DEF ThenAudit
<1> HIDE DEF new, owed
<1>7. \A e \in happened' \cap WorkflowEntry : Shown(e, rows')
  BY <1>6, ShownKept DEF AuditInv, owed
<1>8. audit' \cap WorkflowEntry \subseteq happened'
  BY <1>6 DEF AuditInv
<1>9. \A q \in Process : OwesTruth(q)'
  <2> SUFFICES ASSUME NEW q \in Process, proc'[q].pc = "audit"
               PROVE  OwedBy(q)' \in happened' \cap WorkflowEntry
    BY DEF OwesTruth
  <2>1. CASE q = p
    BY <1>4, <1>5, <1>6, <2>1
  <2>2. CASE q # p
    BY <1>1, <1>6, <2>2 DEF AuditInv, OwesTruth, OwedBy
  <2> QED
    BY <2>1, <2>2
<1>10. WorkflowAuditComplete'
  <2> SUFFICES ASSUME NEW e \in happened' \cap WorkflowEntry, e \notin audit' \cup lost'
               PROVE  \E q \in Process : proc'[q].pc = "audit" /\ OwedBy(q)' = e
    BY DEF WorkflowAuditComplete
  <2>1. CASE e = owed
    BY <1>1, <1>3, <1>4, <2>1
  <2>2. CASE e \in happened
    <3>1. PICK q \in Process : proc[q].pc = "audit" /\ OwedBy(q) = e
      BY <1>6, <2>2 DEF AuditInv, WorkflowAuditComplete
    <3> QED
      BY <1>1, <3>1 DEF OwedBy
  <2> QED
    BY <1>6, <2>1, <2>2
<1> QED
  BY <1>7, <1>8, <1>9, <1>10 DEF AuditInv

LEMMA AuditInvStep ==
  ASSUME BaseInv, TicketInv, AuditInv, EngineStep
  PROVE  AuditInv'
<1>1. EngineTypeOK /\ RowsKept /\ Grow
  BY EngineKeepsRows DEF BaseInv
<1>2. IdleProc.pc # "audit"
  BY DEF IdleProc, Request
\* Everything but the commits that end an execution.
<1>3. ASSUME NEW p \in Process, NEW new, proc' = [proc EXCEPT ![p] = new], new.pc # "audit",
             proc[p].pc # "audit", UNCHANGED <<audit, happened, lost>>
      PROVE  AuditInv'
  BY <1>1, <1>3, AuditGoesOn
<1>4. ASSUME NEW h \in Handler, NEW u \in User, NEW r \in Run, NEW async \in BOOLEAN,
             StartRun(h, u, r, async)
      PROVE  AuditInv'
  <2> DEFINE new == Request(IF async THEN "enqueue" ELSE "step", r, u, NoApproval)
  <2>1. new.pc # "audit"
    BY DEF Request
  <2>2. /\ proc' = [proc EXCEPT ![h] = new] /\ h \in Process /\ proc[h].pc # "audit"
        /\ UNCHANGED <<audit, happened, lost>>
    BY <1>4 DEF StartRun, Process, approvalVars
  <2> HIDE DEF new
  <2> QED
    BY <1>3, <2>1, <2>2
<1>5. ASSUME NEW h \in Handler, NEW u \in User, NEW r \in Run, ResumeReadRun(h, u, r)
      PROVE  AuditInv'
  <2> DEFINE new == Request("resume_approval", r, u, runs[r].pending)
  <2>1. new.pc # "audit"
    BY DEF Request
  <2>2. /\ proc' = [proc EXCEPT ![h] = new] /\ h \in Process /\ proc[h].pc # "audit"
        /\ UNCHANGED <<audit, happened, lost>>
    BY <1>5 DEF ResumeReadRun, Process, approvalVars
  <2> HIDE DEF new
  <2> QED
    BY <1>3, <2>1, <2>2
<1>6. ASSUME NEW w \in Worker, NEW t \in queue, WorkerTake(w, t)
      PROVE  AuditInv'
  <2> DEFINE new == Request("step", t.run, t.user, NoApproval)
  <2>1. new.pc # "audit"
    BY DEF Request
  <2>2. /\ proc' = [proc EXCEPT ![w] = new] /\ w \in Process /\ proc[w].pc # "audit"
        /\ UNCHANGED <<audit, happened, lost>>
    BY <1>6 DEF WorkerTake, Process, approvalVars
  <2> HIDE DEF new
  <2> QED
    BY <1>3, <2>1, <2>2
<1>7. ASSUME NEW p \in Process, Enqueue(p) \/ EscalationLosesContext(p) \/ ResumeRefused(p)
      PROVE  AuditInv'
  <2>1. /\ proc' = [proc EXCEPT ![p] = IdleProc] /\ proc[p].pc # "audit"
        /\ UNCHANGED <<audit, happened, lost>>
    BY <1>7 DEF Enqueue, EscalationLosesContext, ResumeRefused, approvalVars
  <2> QED
    BY <1>2, <1>3, <2>1
<1>8. ASSUME NEW p \in Process, NEW new, proc' = [proc EXCEPT ![p] = new],
             new.pc \in {"step", "escalate", "resume_steps", "resume_set", "idle"},
             proc[p].pc # "audit", UNCHANGED <<audit, happened, lost>>
      PROVE  AuditInv'
  BY <1>3, <1>8
<1>9. ASSUME NEW p \in Process, StepClean(p)
      PROVE  AuditInv'
  <2> DEFINE new == [proc[p] EXCEPT !.index = proc[p].index + 1, !.base = proc[p].index]
  <2>1. /\ proc[p] \in ProcState /\ proc[p].pc = "step"
        /\ UNCHANGED <<audit, happened, lost>> /\ proc' = [proc EXCEPT ![p] = new]
    BY <1>1, <1>9 DEF EngineTypeOK, StepClean, AtStep, approvalVars
  <2>2. new.pc = "step"
    BY <2>1 DEF ProcState
  <2> HIDE DEF new
  <2> QED
    BY <1>8, <2>1, <2>2
<1>10. ASSUME NEW p \in Process, NEW a \in Approval, StepEscalates(p, a)
       PROVE  AuditInv'
  <2> DEFINE new == [proc[p] EXCEPT !.pc = "escalate", !.pending = a]
  <2>1. /\ proc[p] \in ProcState /\ proc[p].pc = "step"
        /\ UNCHANGED <<audit, happened, lost>> /\ proc' = [proc EXCEPT ![p] = new]
    BY <1>1, <1>10 DEF EngineTypeOK, StepEscalates, AtStep
  <2>2. new.pc = "escalate"
    BY <2>1 DEF ProcState
  <2> HIDE DEF new
  <2> QED
    BY <1>8, <2>1, <2>2
<1>11. ASSUME NEW p \in Process, ResumeReadApproval(p)
       PROVE  AuditInv'
  <2> DEFINE a == proc[p].pending
             new == IF SignedOff(a)
                    THEN [proc[p] EXCEPT !.pc = "resume_steps", !.ticket = a, !.pending = NoApproval]
                    ELSE IdleProc
  <2>1. /\ proc[p] \in ProcState /\ proc[p].pc = "resume_approval"
        /\ UNCHANGED <<audit, happened, lost>> /\ proc' = [proc EXCEPT ![p] = new]
    BY <1>1, <1>11 DEF EngineTypeOK, ResumeReadApproval, approvalVars
  <2>2. new.pc # "audit"
    BY <1>2, <2>1 DEF ProcState
  <2> HIDE DEF new
  <2> QED
    BY <1>3, <2>1, <2>2
<1>12. ASSUME NEW p \in Process, ResumeReadSteps(p)
       PROVE  AuditInv'
  <2> DEFINE n == Len(rows[proc[p].run])
  <2>1. PICK base \in PreviousOutput(proc[p].run) :
          proc' = [proc EXCEPT ![p] =
                     [@ EXCEPT !.pc = "resume_set", !.index = n, !.base = base]]
    BY <1>12 DEF ResumeReadSteps
  <2> DEFINE new == [proc[p] EXCEPT !.pc = "resume_set", !.index = n, !.base = base]
  <2>2. /\ proc[p] \in ProcState /\ proc[p].pc = "resume_steps"
        /\ UNCHANGED <<audit, happened, lost>> /\ proc' = [proc EXCEPT ![p] = new]
    BY <1>1, <1>12, <2>1 DEF EngineTypeOK, ResumeReadSteps, approvalVars
  <2>3. new.pc = "resume_set"
    BY <2>2 DEF ProcState
  <2> HIDE DEF new
  <2> QED
    BY <1>8, <2>2, <2>3
<1>13. ASSUME NEW p \in Process, ResumeSetRunning(p)
       PROVE  AuditInv'
  <2> DEFINE new == [proc[p] EXCEPT !.pc = "step"]
  <2>1. /\ proc[p] \in ProcState /\ proc[p].pc = "resume_set"
        /\ UNCHANGED <<audit, happened, lost>> /\ proc' = [proc EXCEPT ![p] = new]
    BY <1>1, <1>13 DEF EngineTypeOK, ResumeSetRunning, approvalVars
  <2>2. new.pc = "step"
    BY <2>1 DEF ProcState
  <2> HIDE DEF new
  <2> QED
    BY <1>8, <2>1, <2>2
<1>14. ASSUME NEW p \in Process, AuditRun(p) \/ Abort(p)
       PROVE  AuditInv'
  <2>1. /\ proc' = [proc EXCEPT ![p] = IdleProc] /\ UNCHANGED happened
        /\ audit \subseteq audit' /\ lost \subseteq lost'
        /\ \A e \in audit' : e \in audit \/ (proc[p].pc = "audit" /\ e = OwedBy(p))
        /\ proc[p].pc = "audit" => OwedBy(p) \in audit' \cup lost'
    BY <1>14 DEF AuditRun, Abort
  <2> QED
    BY <1>1, <1>2, <2>1, AuditGoesOn
\* The commits that end an execution.
<1>15. ASSUME NEW p \in Process, StepFails(p) \/ CommitEscalation(p) \/ Complete(p)
       PROVE  /\ proc[p].pc # "audit" /\ proc[p].run \in Run /\ proc[p].user \in User
              /\ proc[p].index \in Nat
  BY <1>1, <1>15 DEF EngineTypeOK, ProcHolds, ProcState, StepFails, CommitEscalation, Complete, AtStep
<1>16. ASSUME NEW p \in Process, StepFails(p)
       PROVE  AuditInv'
  <2> DEFINE e == Entry("workflow.failed", proc[p].run, proc[p].user)
  <2>1. PICK status, escalated : AddRow(p, status, escalated) /\ status = "failed"
    BY <1>16 DEF StepFails
  <2>2. PICK k \in DOMAIN rows'[proc[p].run] :
          rows'[proc[p].run][k] = RowOf(p, status, escalated)
    BY <1>1, <1>15, <1>16, <2>1, AddKeeps
  <2>3. /\ RowOf(p, status, escalated).status = "failed"
        /\ RowOf(p, status, escalated).by = proc[p].user
    BY <2>1 DEF RowOf
  <2>4. e.verb = "workflow.failed" /\ e.about = proc[p].run /\ e.actor = proc[p].user
    BY DEF Entry
  <2> HIDE DEF e
  <2>5. Shown(e, rows')
    BY <2>2, <2>3, <2>4 DEF Shown
  <2>6. ThenAudit(p, "workflow.failed") /\ "workflow.failed" \in WorkflowVerb
    BY <1>16 DEF StepFails, WorkflowVerb
  <2> QED
    BY <1>1, <1>15, <1>16, <2>5, <2>6, AuditOwed DEF e
<1>17. ASSUME NEW p \in Process, CommitEscalation(p)
       PROVE  AuditInv'
  <2> DEFINE e == Entry("workflow.escalated", proc[p].run, proc[p].user)
  <2>1. PICK status, escalated : AddRow(p, status, escalated) /\ escalated = TRUE
    BY <1>17 DEF CommitEscalation
  <2>2. PICK k \in DOMAIN rows'[proc[p].run] :
          rows'[proc[p].run][k] = RowOf(p, status, escalated)
    BY <1>1, <1>15, <1>17, <2>1, AddKeeps
  <2>3. /\ RowOf(p, status, escalated).escalated
        /\ RowOf(p, status, escalated).by = proc[p].user
    BY <2>1 DEF RowOf
  <2>4. e.verb = "workflow.escalated" /\ e.about = proc[p].run /\ e.actor = proc[p].user
    BY DEF Entry
  <2> HIDE DEF e
  <2>5. Shown(e, rows')
    BY <2>2, <2>3, <2>4 DEF Shown
  <2>6. ThenAudit(p, "workflow.escalated") /\ "workflow.escalated" \in WorkflowVerb
    BY <1>17 DEF CommitEscalation, WorkflowVerb
  <2> QED
    BY <1>1, <1>15, <1>17, <2>5, <2>6, AuditOwed DEF e
<1>18. ASSUME NEW p \in Process, Complete(p)
       PROVE  AuditInv'
  <2> DEFINE e == Entry("workflow.completed", proc[p].run, proc[p].user)
  <2>1. proc[p].index <= Len(rows[proc[p].run]) /\ proc[p].index >= Steps
    BY <1>18 DEF Complete, TicketInv, Ticketed, Bound
  <2>2. Len(rows'[proc[p].run]) >= Steps
    BY <1>1, <1>15, <1>18, <2>1, EngineAssumption DEF Grow
  <2>3. e.verb = "workflow.completed" /\ e.about = proc[p].run
    BY DEF Entry
  <2> HIDE DEF e
  <2>4. Shown(e, rows')
    BY <2>2, <2>3 DEF Shown
  <2>5. ThenAudit(p, "workflow.completed") /\ "workflow.completed" \in WorkflowVerb
    BY <1>18 DEF Complete, WorkflowVerb
  <2> QED
    BY <1>1, <1>15, <1>18, <2>4, <2>5, AuditOwed DEF e
<1> QED
  BY <1>4, <1>5, <1>6, <1>7, <1>9, <1>10, <1>11, <1>12, <1>13, <1>14, <1>16, <1>17, <1>18
     DEF EngineStep, ProcessStep

\* What the approvals handlers record is of another kind.
LEMMA AuditQueueStep ==
  ASSUME BaseInv, AuditInv, [ApprovalsNext]_approvalVars, UNCHANGED engineVars
  PROVE  AuditInv'
<1> DEFINE Untouched == /\ happened' \cap WorkflowEntry = happened \cap WorkflowEntry
                        /\ audit' \cap WorkflowEntry = audit \cap WorkflowEntry
                        /\ audit \subseteq audit' /\ lost \subseteq lost'
<1>1. ASSUME NEW v \in Decision \cup {"created", "none"}, NEW x, NEW u
      PROVE  Entry(v, x, u) \notin WorkflowEntry
  BY DEF Entry, WorkflowEntry, WorkflowVerb, Decision
<1>2. \A c \in Clerk : clerk[c].verb \in Decision \cup {"created", "none"}
  BY DEF BaseInv, ApprovalsInv, ApprovalsTypeOK, ClerkState
<1>3. ASSUME NEW c \in Clerk, NEW u \in User, NEW a \in Approval, CreateRequest(c, u, a)
      PROVE  Untouched
  BY <1>1, <1>3 DEF CreateRequest
<1>4. ASSUME NEW c \in Clerk, DecideWrite(c)
      PROVE  Untouched
  BY <1>1, <1>2, <1>4 DEF DecideWrite
<1>5. ASSUME NEW c \in Clerk, ClerkAudit(c)
      PROVE  Untouched
  BY <1>1, <1>2, <1>5 DEF ClerkAudit, Owed
<1>6. ASSUME UNCHANGED <<audit, happened>>, lost \subseteq lost'
      PROVE  Untouched
  BY <1>6
<1> HIDE DEF Untouched
<1>7. Untouched
  BY <1>3, <1>4, <1>5, <1>6 DEF ApprovalsNext, DecideRead, ClerkAbort, approvalVars
<1>8. UNCHANGED <<rows, proc>>
  BY DEF engineVars
<1> USE <1>7, <1>8 DEF Untouched
<1>9. \A e \in happened' \cap WorkflowEntry : Shown(e, rows')
  BY DEF AuditInv
<1>10. audit' \cap WorkflowEntry \subseteq happened'
  BY DEF AuditInv
<1>11. \A p \in Process : OwesTruth(p)'
  BY DEF AuditInv, OwesTruth, OwedBy
<1>12. WorkflowAuditComplete'
  BY DEF AuditInv, WorkflowAuditComplete, OwedBy
<1> QED
  BY <1>9, <1>10, <1>11, <1>12 DEF AuditInv

LEMMA AuditBooks == Spec => []AuditInv
<1>1. Init => AuditInv
  BY DEF Init, ApprovalsInit, AuditInv, OwesTruth, WorkflowAuditComplete, IdleProc, Request
<1>2. ASSUME BaseInv, TicketInv, AuditInv, [Next]_vars
      PROVE  AuditInv'
  BY <1>2, AuditInvStep, AuditQueueStep, NextSplit DEF vars
<1> QED
  BY <1>1, <1>2, Base, Tickets, PTL DEF Spec

\* Whoever moves the run on before the entry is written: what the audit log says of
\* the end of an execution can be seen in the step rows of that run.
THEOREM AuditTrue == Spec => []AuditTellsTheTruth
<1>1. AuditInv => AuditTellsTheTruth
  BY DEF AuditInv, Shown, AuditTellsTheTruth, RowAt
<1> QED
  BY <1>1, AuditBooks, PTL

\* The end of an execution is missing from the audit log only while its process is
\* about to record it, or because that process was stopped in between.
THEOREM AuditMissesNothing == Spec => []WorkflowAuditComplete
<1>1. AuditInv => WorkflowAuditComplete
  BY DEF AuditInv
<1> QED
  BY <1>1, AuditBooks, PTL

================================================================================
