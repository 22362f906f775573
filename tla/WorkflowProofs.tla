----------------------------- MODULE WorkflowProofs -----------------------------
(***************************************************************************)
(* Theorems about the workflow engine, for any number of handlers, Celery  *)
(* workers, clerks, users, runs and requests, any length of workflow, both *)
(* databases, and whatever requests overlap.                               *)
(***************************************************************************)
EXTENDS WorkflowEngine, ApprovalsProofs

LEMMA InitTypeOK == Init => TypeOK
<1> SUFFICES ASSUME Init PROVE TypeOK
  OBVIOUS
<1> USE EngineAssumption DEF Init
<1>1. ApprovalsTypeOK
  BY ApprovalsInitInv DEF ApprovalsInv
<1>2. runs \in [Run -> RunRow]
  BY DEF AbsentRun, RunRow, RunStatus
<1>3. rows \in [Run -> Seq(StepRow)]
  OBVIOUS
<1>4. proc \in [Process -> ProcState] /\ \A p \in Process : ProcHolds(p)
  BY DEF IdleProc, Request, ProcState, ProcPC, ProcHolds, NoOutput
<1> QED
  BY <1>1, <1>2, <1>3, <1>4 DEF TypeOK

\* Handlers only start, enqueue and resume; the rest any process may do.
EngineStep ==
  \/ \E h \in Handler, u \in User, r \in Run :
       \/ \E async \in BOOLEAN : StartRun(h, u, r, async)
       \/ ResumeReadRun(h, u, r)
  \/ \E w \in Worker, t \in queue : WorkerTake(w, t)
  \/ \E p \in Process : ProcessStep(p) \/ Abort(p)

--------------------------------------------------------------------------------
(* What the engine does to the approval queue *)

\* A request keeps its run and its step once it exists, and what has happened
\* has happened.
Stable ==
  /\ \A a \in Approval :
       approvals[a].status # "absent" =>
         /\ approvals'[a].status # "absent"
         /\ approvals'[a].run = approvals[a].run
         /\ approvals'[a].step = approvals[a].step
  /\ happened \subseteq happened'

LEMMA CreateStable ==
  ASSUME ApprovalsTypeOK, NEW a \in Approval, NEW run, NEW step, CreateApproval(a, run, step),
         happened \subseteq happened'
  PROVE  Stable
BY DEF Stable, CreateApproval, ApprovalsTypeOK

LEMMA QueueStable ==
  ASSUME ApprovalsTypeOK, ApprovalsNext
  PROVE  Stable
<1>1. ASSUME NEW c \in Clerk, NEW u \in User, NEW a \in Approval, CreateRequest(c, u, a)
      PROVE  Stable
  BY <1>1, CreateStable DEF CreateRequest
<1>2. ASSUME NEW c \in Clerk, DecideWrite(c)
      PROVE  Stable
  <2> DEFINE a == clerk[c].approval
             row == [approvals[a] EXCEPT !.status = clerk[c].verb, !.decidedBy = clerk[c].user]
  <2>1. a \in Approval /\ clerk[c].verb # "absent"
    BY <1>2 DEF DecideWrite, ApprovalsTypeOK, ClerkHolds, Decision
  <2>2. approvals[a] \in ApprovalRow
    BY <2>1 DEF ApprovalsTypeOK
  <2>3. row.run = approvals[a].run /\ row.step = approvals[a].step /\ row.status # "absent"
    BY <2>1, <2>2 DEF ApprovalRow
  <2>4. approvals' = [approvals EXCEPT ![a] = row] /\ happened \subseteq happened'
    BY <1>2 DEF DecideWrite
  <2> HIDE DEF a, row
  <2> QED
    BY <2>1, <2>3, <2>4 DEF Stable, ApprovalsTypeOK
<1> QED
  BY <1>1, <1>2 DEF ApprovalsNext, DecideRead, ClerkAudit, ClerkAbort, Stable

\* The engine keeps the queue's invariant: the requests it creates are fresh,
\* and its audit entries are none of the queue's.
LEMMA CreateKeepsQueue ==
  ASSUME ApprovalsInv, NEW a \in Approval, NEW run \in Run, NEW step \in Nat,
         CreateApproval(a, run, step), UNCHANGED <<clerk, audit, happened, lost, aborts>>
  PROVE  ApprovalsInv'
<1> DEFINE row == [status |-> "pending", run |-> run, step |-> step, decidedBy |-> NoUser]
<1>1. row \in ApprovalRow
  BY DEF ApprovalRow, ApprovalStatus
<1>2. approvals' = [approvals EXCEPT ![a] = row] /\ approvals[a].status = "absent"
  BY DEF CreateApproval
<1>3. row.status = "pending"
  OBVIOUS
<1> HIDE DEF row
<1>4. ApprovalsTypeOK'
  BY <1>1, <1>2 DEF ApprovalsInv, ApprovalsTypeOK, ClerkHolds
<1>5. VerdictsAccounted'
  BY <1>2, <1>3 DEF ApprovalsInv, ApprovalsTypeOK, VerdictsAccounted, Decision
<1> QED
  BY <1>4, <1>5 DEF ApprovalsInv, ClerkOwesFact, Owed, ApprovalAuditBacked, ApprovalAuditComplete

LEMMA EntryKeepsQueue ==
  ASSUME ApprovalsInv, NEW verb \in WorkflowVerb \cup {"none"}, NEW about, NEW actor,
         UNCHANGED <<approvals, clerk>>, aborts' \in 0..MaxAborts, lost \subseteq lost',
         \/ happened' = happened \cup {Entry(verb, about, actor)} /\ audit' = audit
         \/ happened' = happened /\ audit' = audit \cup {Entry(verb, about, actor)}
         \/ UNCHANGED <<happened, audit>>
  PROVE  ApprovalsInv'
<1> USE DEF ApprovalsInv
<1>1. verb \notin Decision \cup {"created"}
  BY DEF WorkflowVerb, Decision
<1>2. ApprovalsTypeOK'
  BY DEF ApprovalsTypeOK, ClerkHolds
<1>3. VerdictsAccounted'
  BY <1>1, EntryEqual DEF VerdictsAccounted
<1>4. ClerkOwesFact'
  BY DEF ClerkOwesFact, Owed
<1>5. Entry(verb, about, actor) \notin ApprovalEntry
  BY <1>1 DEF Entry, ApprovalEntry
<1>6. ApprovalAuditBacked'
  BY <1>5 DEF ApprovalAuditBacked
<1>7. ApprovalAuditComplete'
  BY <1>5 DEF ApprovalAuditComplete, Owed
<1> QED
  BY <1>2, <1>3, <1>4, <1>6, <1>7

--------------------------------------------------------------------------------
(* Types *)

\* The types of the engine's own state.
EngineTypeOK ==
  /\ runs \in [Run -> RunRow]
  /\ rows \in [Run -> Seq(StepRow)]
  /\ queue \subseteq Task
  /\ proc \in [Process -> ProcState]
  /\ \A p \in Process : ProcHolds(p)

LEMMA TypeSplit == TypeOK <=> ApprovalsTypeOK /\ EngineTypeOK
BY DEF TypeOK, EngineTypeOK

\* One process changes its locals, into something well-typed.
LEMMA ProcUpdate ==
  ASSUME EngineTypeOK, NEW p \in Process, NEW new \in ProcState,
         proc' = [proc EXCEPT ![p] = new],
         new.pc # "idle" => new.run \in Run /\ new.user \in User,
         new.pc = "escalate" => new.index \in StepIndex /\ new.pending \in Approval
  PROVE  proc' \in [Process -> ProcState] /\ \A q \in Process : ProcHolds(q)'
BY DEF EngineTypeOK, ProcHolds

LEMMA RequestTyped ==
  ASSUME NEW pc \in ProcPC, NEW r \in Run \cup {NoRun}, NEW u \in User \cup {NoUser},
         NEW a \in Approval \cup {NoApproval}
  PROVE  LET new == Request(pc, r, u, a) IN
           /\ new \in ProcState
           /\ new.pc = pc /\ new.run = r /\ new.user = u /\ new.index = 0
           /\ new.pending = a /\ new.ticket = NoApproval
BY EngineAssumption DEF Request, ProcState, NoOutput

LEMMA IdleTyped == IdleProc \in ProcState /\ IdleProc.pc = "idle"
BY RequestTyped DEF IdleProc, ProcPC

\* Adding the row of the step a process is at.
LEMMA AddRowTyped ==
  ASSUME EngineTypeOK, NEW p \in Process, proc[p].pc # "idle", proc[p].index \in StepIndex,
         NEW status \in {"completed", "failed"}, NEW escalated \in BOOLEAN,
         AddRow(p, status, escalated)
  PROVE  /\ RowOf(p, status, escalated) \in StepRow
         /\ rows' \in [Run -> Seq(StepRow)]
<1>1. proc[p] \in ProcState /\ proc[p].run \in Run /\ proc[p].user \in User
  BY DEF EngineTypeOK, ProcHolds
<1>2. RowOf(p, status, escalated) \in StepRow
  BY <1>1 DEF RowOf, StepRow, ProcState
<1> QED
  BY <1>1, <1>2 DEF EngineTypeOK, AddRow

LEMMA EngineTypeStep ==
  ASSUME EngineTypeOK, EngineStep
  PROVE  EngineTypeOK'
<1> USE EngineAssumption, ConstantsAssumption
<1>1. ASSUME NEW h \in Handler, NEW u \in User, NEW r \in Run, NEW async \in BOOLEAN,
             StartRun(h, u, r, async)
      PROVE  EngineTypeOK'
  <2> DEFINE new == Request(IF async THEN "enqueue" ELSE "step", r, u, NoApproval)
  <2>1. new \in ProcState /\ new.pc # "escalate" /\ new.run = r /\ new.user = u
    BY RequestTyped DEF ProcPC
  <2>2. proc' = [proc EXCEPT ![h] = new] /\ h \in Process
    BY <1>1 DEF StartRun, Process
  <2> HIDE DEF new
  <2>3. proc' \in [Process -> ProcState] /\ \A q \in Process : ProcHolds(q)'
    BY <2>1, <2>2, ProcUpdate
  <2>4. runs' \in [Run -> RunRow]
    BY <1>1 DEF StartRun, EngineTypeOK, RunRow, RunStatus
  <2> QED
    BY <1>1, <2>3, <2>4 DEF StartRun, EngineTypeOK
<1>2. ASSUME NEW h \in Handler, NEW u \in User, NEW r \in Run, ResumeReadRun(h, u, r)
      PROVE  EngineTypeOK'
  <2> DEFINE new == Request("resume_approval", r, u, runs[r].pending)
  <2>1. runs[r].pending \in Approval \cup {NoApproval}
    BY DEF EngineTypeOK, RunRow
  <2>2. new \in ProcState /\ new.pc # "escalate" /\ new.run = r /\ new.user = u
    BY <2>1, RequestTyped DEF ProcPC
  <2>3. proc' = [proc EXCEPT ![h] = new] /\ h \in Process
    BY <1>2 DEF ResumeReadRun, Process
  <2> HIDE DEF new
  <2> QED
    BY <1>2, <2>2, <2>3, ProcUpdate DEF ResumeReadRun, EngineTypeOK
<1>3. ASSUME NEW w \in Worker, NEW t \in queue, WorkerTake(w, t)
      PROVE  EngineTypeOK'
  <2>1. t.run \in Run /\ t.user \in User /\ w \in Process
    BY DEF EngineTypeOK, Task, Process
  <2> DEFINE new == Request("step", t.run, t.user, NoApproval)
  <2>2. new \in ProcState /\ new.pc = "step" /\ new.run = t.run /\ new.user = t.user
    BY <2>1, RequestTyped DEF ProcPC
  <2>3. proc' = [proc EXCEPT ![w] = new]
    BY <1>3 DEF WorkerTake
  <2> HIDE DEF new
  <2> QED
    BY <1>3, <2>1, <2>2, <2>3, ProcUpdate DEF WorkerTake, EngineTypeOK
<1>4. ASSUME NEW p \in Process, proc' = [proc EXCEPT ![p] = IdleProc], UNCHANGED <<runs, rows>>,
             queue' \subseteq Task
      PROVE  EngineTypeOK'
  BY <1>4, IdleTyped, ProcUpdate DEF EngineTypeOK
<1>5. ASSUME NEW p \in Process, Enqueue(p)
      PROVE  EngineTypeOK'
  <2>1. proc[p].run \in Run /\ proc[p].user \in User
    BY <1>5 DEF Enqueue, EngineTypeOK, ProcHolds
  <2>2. [run |-> proc[p].run, user |-> proc[p].user] \in Task
    BY <2>1 DEF Task
  <2>3. queue' \subseteq Task
    BY <1>5, <2>2 DEF Enqueue, EngineTypeOK
  <2> QED
    BY <1>4, <1>5, <2>3 DEF Enqueue
<1>6. ASSUME NEW p \in Process, \/ EscalationLosesContext(p) \/ AuditRun(p)
                               \/ ResumeRefused(p) \/ Abort(p)
      PROVE  EngineTypeOK'
  BY <1>4, <1>6 DEF EscalationLosesContext, AuditRun, ResumeRefused, Abort, EngineTypeOK
<1>7. ASSUME NEW p \in Process, StepClean(p)
      PROVE  EngineTypeOK'
  <2>1. proc[p] \in ProcState /\ proc[p].run \in Run /\ proc[p].user \in User /\ proc[p].pc = "step"
    BY <1>7 DEF EngineTypeOK, ProcHolds, StepClean, AtStep
  <2>2. proc[p].index \in StepIndex
    BY <1>7 DEF StepClean, AtStep
  <2> DEFINE new == [proc[p] EXCEPT !.index = proc[p].index + 1, !.base = proc[p].index]
  <2>3. new \in ProcState /\ new.pc = "step" /\ new.run = proc[p].run /\ new.user = proc[p].user
    <3>1. proc[p].index \in Nat /\ proc[p].index + 1 \in Nat /\ proc[p].index \in 0..Steps
      BY <2>2 DEF StepIndex
    <3> QED
      BY <2>1, <3>1 DEF ProcState
  <2>4. proc' = [proc EXCEPT ![p] = new]
    BY <1>7 DEF StepClean
  <2> HIDE DEF new
  <2>5. rows' \in [Run -> Seq(StepRow)]
    BY <1>7, <2>1, <2>2, AddRowTyped DEF StepClean
  <2> QED
    BY <1>7, <2>1, <2>3, <2>4, <2>5, ProcUpdate DEF StepClean, EngineTypeOK
<1>8. ASSUME NEW p \in Process, NEW verb \in WorkflowVerb, proc[p].pc # "idle", ThenAudit(p, verb)
      PROVE  proc' \in [Process -> ProcState] /\ \A q \in Process : ProcHolds(q)'
  <2>1. proc[p] \in ProcState /\ proc[p].run \in Run /\ proc[p].user \in User
    BY <1>8 DEF EngineTypeOK, ProcHolds
  <2> DEFINE new == [proc[p] EXCEPT !.pc = "audit", !.verb = verb]
  <2>2. new \in ProcState /\ new.pc = "audit" /\ new.run = proc[p].run /\ new.user = proc[p].user
    BY <2>1 DEF ProcState, ProcPC
  <2>3. proc' = [proc EXCEPT ![p] = new]
    BY <1>8 DEF ThenAudit
  <2> HIDE DEF new
  <2> QED
    BY <2>1, <2>2, <2>3, ProcUpdate
<1>9. ASSUME NEW p \in Process, StepFails(p)
      PROVE  EngineTypeOK'
  <2>1. proc[p].run \in Run /\ proc[p].pc # "idle" /\ proc[p].index \in StepIndex
    BY <1>9 DEF EngineTypeOK, ProcHolds, StepFails, AtStep
  <2>2. runs' \in [Run -> RunRow]
    BY <1>9, <2>1 DEF StepFails, EngineTypeOK, RunRow, RunStatus
  <2>3. rows' \in [Run -> Seq(StepRow)]
    BY <1>9, <2>1, AddRowTyped DEF StepFails
  <2> QED
    BY <1>8, <1>9, <2>1, <2>2, <2>3 DEF StepFails, WorkflowVerb, EngineTypeOK
<1>10. ASSUME NEW p \in Process, NEW a \in Approval, StepEscalates(p, a)
       PROVE  EngineTypeOK'
  <2>1. proc[p] \in ProcState /\ proc[p].run \in Run /\ proc[p].user \in User
        /\ proc[p].index \in StepIndex
    BY <1>10 DEF EngineTypeOK, ProcHolds, StepEscalates, AtStep
  <2> DEFINE new == [proc[p] EXCEPT !.pc = "escalate", !.pending = a]
  <2>2. new \in ProcState /\ new.run = proc[p].run /\ new.user = proc[p].user
        /\ new.index = proc[p].index /\ new.pending = a
    BY <2>1 DEF ProcState, ProcPC
  <2>3. proc' = [proc EXCEPT ![p] = new]
    BY <1>10 DEF StepEscalates
  <2> HIDE DEF new
  <2> QED
    BY <1>10, <2>1, <2>2, <2>3, ProcUpdate DEF StepEscalates, EngineTypeOK
<1>11. ASSUME NEW p \in Process, CommitEscalation(p)
       PROVE  EngineTypeOK'
  <2>1. proc[p].run \in Run /\ proc[p].pc # "idle" /\ proc[p].index \in StepIndex
        /\ proc[p].pending \in Approval
    BY <1>11 DEF EngineTypeOK, ProcHolds, CommitEscalation
  <2>2. runs' \in [Run -> RunRow]
    BY <1>11, <2>1 DEF CommitEscalation, EngineTypeOK, RunRow, RunStatus
  <2>3. rows' \in [Run -> Seq(StepRow)]
    BY <1>11, <2>1, AddRowTyped DEF CommitEscalation
  <2> QED
    BY <1>8, <1>11, <2>1, <2>2, <2>3 DEF CommitEscalation, WorkflowVerb, EngineTypeOK
<1>12. ASSUME NEW p \in Process, Complete(p)
       PROVE  EngineTypeOK'
  <2>1. proc[p].run \in Run /\ proc[p].pc # "idle"
    BY <1>12 DEF EngineTypeOK, ProcHolds, Complete
  <2>2. runs' \in [Run -> RunRow]
    BY <1>12, <2>1 DEF Complete, EngineTypeOK, RunRow, RunStatus
  <2> QED
    BY <1>8, <1>12, <2>1, <2>2 DEF Complete, WorkflowVerb, EngineTypeOK
<1>13. ASSUME NEW p \in Process, ResumeReadApproval(p)
       PROVE  EngineTypeOK'
  <2>1. proc[p] \in ProcState /\ proc[p].run \in Run /\ proc[p].user \in User
    BY <1>13 DEF EngineTypeOK, ProcHolds, ResumeReadApproval
  <2> DEFINE a == proc[p].pending
             passed == [proc[p] EXCEPT !.pc = "resume_steps", !.ticket = a, !.pending = NoApproval]
             new == IF SignedOff(a) THEN passed ELSE IdleProc
  <2>2. passed \in ProcState /\ passed.pc = "resume_steps" /\ passed.run = proc[p].run
        /\ passed.user = proc[p].user
    BY <2>1 DEF ProcState, ProcPC
  <2>3. proc' = [proc EXCEPT ![p] = new]
    BY <1>13 DEF ResumeReadApproval
  <2> HIDE DEF passed
  <2>4. new \in ProcState /\ new.pc \in {"idle", "resume_steps"}
        /\ (new.pc # "idle" => new.run \in Run /\ new.user \in User)
    BY <2>1, <2>2, IdleTyped
  <2> HIDE DEF new
  <2> QED
    BY <1>13, <2>3, <2>4, ProcUpdate DEF ResumeReadApproval, EngineTypeOK
<1>14. ASSUME NEW p \in Process, ResumeReadSteps(p)
       PROVE  EngineTypeOK'
  <2>1. proc[p] \in ProcState /\ proc[p].run \in Run /\ proc[p].user \in User
    BY <1>14 DEF EngineTypeOK, ProcHolds, ResumeReadSteps
  <2>2. PICK base \in PreviousOutput(proc[p].run) :
          proc' = [proc EXCEPT ![p] =
                     [@ EXCEPT !.pc = "resume_set", !.index = Len(rows[proc[p].run]), !.base = base]]
    BY <1>14 DEF ResumeReadSteps
  <2>3. base \in 0..Steps
    <3>1. rows[proc[p].run] \in Seq(StepRow)
      BY <2>1 DEF EngineTypeOK
    <3>2. \A k \in DOMAIN rows[proc[p].run] : rows[proc[p].run][k] \in StepRow
      BY <3>1
    <3>3. \A row \in StepRow : row.index \in 0..Steps
      BY DEF StepRow, StepIndex
    <3>4. \A row \in LastRows(proc[p].run) : row.index \in 0..Steps
      BY <3>2, <3>3 DEF LastRows
    <3> QED
      BY <3>4 DEF PreviousOutput, NoOutput
  <2>4. Len(rows[proc[p].run]) \in Nat
    BY <2>1 DEF EngineTypeOK
  <2> DEFINE new == [proc[p] EXCEPT !.pc = "resume_set", !.index = Len(rows[proc[p].run]), !.base = base]
  <2>5. new \in ProcState /\ new.pc = "resume_set" /\ new.run = proc[p].run /\ new.user = proc[p].user
    BY <2>1, <2>3, <2>4 DEF ProcState, ProcPC
  <2>6. proc' = [proc EXCEPT ![p] = new]
    BY <2>2
  <2> HIDE DEF new
  <2> QED
    BY <1>14, <2>1, <2>5, <2>6, ProcUpdate DEF ResumeReadSteps, EngineTypeOK
<1>15. ASSUME NEW p \in Process, ResumeSetRunning(p)
       PROVE  EngineTypeOK'
  <2>1. proc[p] \in ProcState /\ proc[p].run \in Run /\ proc[p].user \in User
    BY <1>15 DEF EngineTypeOK, ProcHolds, ResumeSetRunning
  <2> DEFINE new == [proc[p] EXCEPT !.pc = "step"]
  <2>2. new \in ProcState /\ new.pc = "step" /\ new.run = proc[p].run /\ new.user = proc[p].user
    BY <2>1 DEF ProcState, ProcPC
  <2>3. proc' = [proc EXCEPT ![p] = new]
    BY <1>15 DEF ResumeSetRunning
  <2> HIDE DEF new
  <2>4. runs' \in [Run -> RunRow]
    BY <1>15, <2>1 DEF ResumeSetRunning, EngineTypeOK, RunRow, RunStatus
  <2> QED
    BY <1>15, <2>1, <2>2, <2>3, <2>4, ProcUpdate DEF ResumeSetRunning, EngineTypeOK
<1> QED
  BY <1>1, <1>2, <1>3, <1>5, <1>6, <1>7, <1>9, <1>10, <1>11, <1>12, <1>13, <1>14, <1>15
     DEF EngineStep, ProcessStep

LEMMA EngineQueueStep ==
  ASSUME EngineTypeOK, ApprovalsInv, EngineStep
  PROVE  ApprovalsInv'
<1>1. ApprovalsTypeOK /\ aborts \in 0..MaxAborts
  BY DEF ApprovalsInv, ApprovalsTypeOK
<1>2. ASSUME UNCHANGED approvalVars
      PROVE  ApprovalsInv'
  BY <1>2, ApprovalsInvStep
<1>3. ASSUME NEW p \in Process, NEW a \in Approval, StepEscalates(p, a)
      PROVE  ApprovalsInv'
  <2>1. proc[p].run \in Run /\ proc[p].index \in Nat
    BY <1>3, EngineAssumption DEF EngineTypeOK, ProcHolds, StepEscalates, AtStep, StepIndex
  <2> QED
    BY <1>3, <2>1, CreateKeepsQueue DEF StepEscalates
<1>4. ASSUME NEW p \in Process, NEW verb \in WorkflowVerb, ThenAudit(p, verb), UNCHANGED approvals
      PROVE  ApprovalsInv'
  BY <1>1, <1>4, EntryKeepsQueue DEF ThenAudit
<1>5. ASSUME NEW p \in Process, \/ StepFails(p) \/ CommitEscalation(p) \/ Complete(p)
      PROVE  ApprovalsInv'
  BY <1>4, <1>5 DEF StepFails, CommitEscalation, Complete, WorkflowVerb
<1>6. ASSUME NEW p \in Process, AuditRun(p)
      PROVE  ApprovalsInv'
  <2>1. proc[p].verb \in WorkflowVerb \cup {"none"}
    BY DEF EngineTypeOK, ProcState
  <2> QED
    BY <1>1, <1>6, <2>1, EntryKeepsQueue DEF AuditRun, OwedBy
<1>7. ASSUME NEW p \in Process, Abort(p)
      PROVE  ApprovalsInv'
  <2>1. aborts' \in 0..MaxAborts
    BY <1>1, <1>7, ConstantsAssumption DEF Abort
  <2> QED
    BY <1>7, <2>1, EntryKeepsQueue DEF Abort
<1> QED
  BY <1>2, <1>3, <1>5, <1>6, <1>7
     DEF EngineStep, ProcessStep, StartRun, ResumeReadRun, WorkerTake, Enqueue, StepClean,
         EscalationLosesContext, ResumeReadApproval, ResumeReadSteps, ResumeRefused,
         ResumeSetRunning

\* Types, and what the queue guarantees: the ground every other invariant stands on.
BaseInv == EngineTypeOK /\ ApprovalsInv

LEMMA NextSplit == Next <=> EngineStep \/ (ApprovalsNext /\ UNCHANGED engineVars)
BY DEF Next, EngineStep

LEMMA BaseInit == Init => BaseInv
BY InitTypeOK, TypeSplit, ApprovalsInitInv DEF BaseInv, Init

LEMMA BaseStep ==
  ASSUME BaseInv, [Next]_vars
  PROVE  BaseInv'
<1> USE DEF BaseInv
<1>1. CASE EngineStep
  BY <1>1, EngineTypeStep, EngineQueueStep
<1>2. CASE [ApprovalsNext]_approvalVars /\ UNCHANGED engineVars
  <2>1. ApprovalsInv'
    BY <1>2, ApprovalsInvStep
  <2>2. EngineTypeOK'
    BY <1>2 DEF engineVars, EngineTypeOK, ProcHolds
  <2> QED
    BY <2>1, <2>2
<1> QED
  BY <1>1, <1>2, NextSplit DEF vars

LEMMA Base == Spec => []BaseInv
BY BaseInit, BaseStep, PTL DEF Spec

\* Whatever overlaps or stops, the tables and the locals of every process stay
\* well-formed: in particular a process in the middle of an escalation holds a
\* step of the workflow and the request it created for it.
THEOREM TypeCorrect == Spec => []TypeOK
<1>1. BaseInv => TypeOK
  BY TypeSplit DEF BaseInv, ApprovalsInv
<1> QED
  BY <1>1, Base, PTL

\* The engine, which creates requests of its own and never looks at a clerk, takes
\* nothing from what the approval queue guarantees alone (app/approvals): rows are
\* well-formed, and a verdict carries the name of an owner who did commit it.
THEOREM QueueCorrect == Spec => [](ApprovalsTypeOK /\ VerdictsAccounted)
<1>1. BaseInv => ApprovalsTypeOK /\ VerdictsAccounted
  BY DEF BaseInv, ApprovalsInv
<1> QED
  BY <1>1, Base, PTL

\* With workflows running beside it: what the audit log says of a request (created,
\* approved, rejected) has been committed before.
THEOREM QueueAuditBacked == Spec => []ApprovalAuditBacked
<1>1. BaseInv => ApprovalAuditBacked
  BY DEF BaseInv, ApprovalsInv
<1> QED
  BY <1>1, Base, PTL

\* With workflows running beside it: a request created or decided is missing from the
\* audit log only while its handler is about to record it, or because it was stopped.
THEOREM QueueAuditComplete == Spec => []ApprovalAuditComplete
<1>1. BaseInv => ApprovalAuditComplete
  BY DEF BaseInv, ApprovalsInv
<1> QED
  BY <1>1, Base, PTL

================================================================================
