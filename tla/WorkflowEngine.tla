----------------------------- MODULE WorkflowEngine -----------------------------
(***************************************************************************)
(* The workflow engine: app/workflows (router.py, executor.py, tasks.py)   *)
(* working on the tables workflow_runs and workflow_step_runs and on the   *)
(* approval queue of module Approvals.                                     *)
(*                                                                         *)
(* A process is a slot of the web server (Handler) or a Celery worker      *)
(* process (Worker).  The web server is one event loop and the database is *)
(* shared with the workers, so anything may happen at an await: one action *)
(* is what a process does up to its next commit, or up to its next read of *)
(* another table.                                                          *)
(***************************************************************************)
EXTENDS Approvals, Sequences

CONSTANTS
  Handler,       \* web-server slots serving /api/v1/workflows requests
  Worker,        \* Celery worker processes
  Steps,         \* length of the workflow definition
  Permitted,     \* <<u, i>>: user u may invoke the department of step i
  AsyncEnabled,  \* settings.WORKFLOW_ASYNC_ENABLED
  RlsEnforced    \* TRUE on PostgreSQL, FALSE on SQLite

StepIndex == 0..(Steps - 1)
Process == Handler \cup Worker

ASSUME EngineAssumption ==
  /\ Steps \in Nat \ {0}
  /\ Permitted \subseteq User \X StepIndex
  /\ Owner \X StepIndex \subseteq Permitted
  /\ Handler \cap Worker = {}
  /\ AsyncEnabled \in BOOLEAN /\ RlsEnforced \in BOOLEAN

VARIABLES
  runs,   \* table workflow_runs
  rows,   \* table workflow_step_runs: for each run, its rows in commit order
  queue,  \* tasks the Celery broker holds
  proc    \* what each process holds in its locals

engineVars == <<runs, rows, queue, proc>>
vars == <<approvalVars, engineVars>>

--------------------------------------------------------------------------------

RunStatus == {"running", "completed", "failed", "escalated"}
AbsentRun == [status |-> "absent", pending |-> NoApproval]
RunRow == [status : RunStatus \cup {"absent"}, pending : Approval \cup {NoApproval}]

(***************************************************************************)
(* A step row.  index, status and escalated are columns; the others record *)
(* where the row comes from: base is the index of the step whose output    *)
(* was {previous} in its prompt (NoOutput if none), by the user whose      *)
(* request ran it, ticket the approval its resume relied on (NoApproval on *)
(* a fresh run).                                                           *)
(***************************************************************************)
NoOutput == Steps
StepRow == [index : StepIndex, status : {"completed", "failed"}, escalated : BOOLEAN,
            base : 0..Steps, by : User, ticket : Approval \cup {NoApproval}]

WorkflowVerb == {"workflow.failed", "workflow.escalated", "workflow.completed"}
WorkflowEntry == [verb : WorkflowVerb, about : Run, actor : User]

\* The locals of a request that has just come in, or of a task just taken.
Request(pc, r, u, pending) ==
  [pc |-> pc, run |-> r, user |-> u, index |-> 0, base |-> NoOutput,
   ticket |-> NoApproval, pending |-> pending, verb |-> "none"]

IdleProc == Request("idle", NoRun, NoUser, NoApproval)

Task == [run : Run, user : User]

ProcPC == {"idle", "enqueue", "step", "escalate", "audit",
           "resume_approval", "resume_steps", "resume_set"}

ProcState ==
  [pc : ProcPC, run : Run \cup {NoRun}, user : User \cup {NoUser}, index : Nat,
   base : 0..Steps, ticket : Approval \cup {NoApproval},
   pending : Approval \cup {NoApproval}, verb : WorkflowVerb \cup {"none"}]

\* A process at work holds a run and the user who asked; one in the middle of an
\* escalation, also the step and the request it has created.
ProcHolds(p) ==
  /\ proc[p].pc # "idle" => proc[p].run \in Run /\ proc[p].user \in User
  /\ proc[p].pc = "escalate" => proc[p].index \in StepIndex /\ proc[p].pending \in Approval

TypeOK ==
  /\ ApprovalsTypeOK
  /\ runs \in [Run -> RunRow]
  /\ rows \in [Run -> Seq(StepRow)]
  /\ queue \subseteq Task
  /\ proc \in [Process -> ProcState]
  /\ \A p \in Process : ProcHolds(p)

Init ==
  /\ ApprovalsInit
  /\ runs = [r \in Run |-> AbsentRun]
  /\ rows = [r \in Run |-> <<>>]
  /\ queue = {}
  /\ proc = [p \in Process |-> IdleProc]

--------------------------------------------------------------------------------
(* Starting a run *)

\* Mutant: the step the run starts at is not checked.
MayRunAfter(u, start) == \A i \in StepIndex : i > start => <<u, i>> \in Permitted

\* The caller needs the permission of every step that is going to run.
MayRunFrom(u, start) == \A i \in StepIndex : i >= start => <<u, i>> \in Permitted

\* POST /workflows/{slug}/run, past its checks: the RUNNING row is committed.
\* The synchronous path runs the steps in this request; the asynchronous one
\* still has to hand the run to Celery.
StartRun(h, u, r, async) ==
  /\ proc[h].pc = "idle"
  /\ runs[r].status = "absent"
  /\ MayRunFrom(u, 0)
  /\ async => AsyncEnabled
  /\ runs' = [runs EXCEPT ![r] = [status |-> "running", pending |-> NoApproval]]
  /\ proc' = [proc EXCEPT ![h] =
                Request(IF async THEN "enqueue" ELSE "step", r, u, NoApproval)]
  /\ UNCHANGED <<approvalVars, rows, queue>>

\* Mutant: 202, and no task.
EnqueueNothing(h) ==
  /\ proc[h].pc = "enqueue"
  /\ proc' = [proc EXCEPT ![h] = IdleProc]
  /\ UNCHANGED <<approvalVars, runs, rows, queue>>

\* execute_workflow_task.delay: the broker holds the task, the request answers 202.
Enqueue(h) ==
  /\ proc[h].pc = "enqueue"
  /\ queue' = queue \cup {[run |-> proc[h].run, user |-> proc[h].user]}
  /\ proc' = [proc EXCEPT ![h] = IdleProc]
  /\ UNCHANGED <<approvalVars, runs, rows>>

\* A worker takes a task and, as Celery does by default, acknowledges it
\* before running it: from here on only the worker knows of it.
WorkerTake(w, t) ==
  /\ proc[w].pc = "idle"
  /\ t \in queue
  /\ queue' = queue \ {t}
  /\ proc' = [proc EXCEPT ![w] = Request("step", t.run, t.user, NoApproval)]
  /\ UNCHANGED <<approvalVars, runs, rows>>

--------------------------------------------------------------------------------
(* The step loop, run_workflow_from_step *)

\* Mutant: one step too many.
AtStepOrEnd(p) == proc[p].pc = "step" /\ proc[p].index \in 0..Steps

AtStep(p) == proc[p].pc = "step" /\ proc[p].index \in StepIndex

\* Mutant: the row of an escalated step looks like any other.
RowOfUnflagged(p, status, escalated) ==
  [index |-> proc[p].index, status |-> status, escalated |-> FALSE,
   base |-> proc[p].base, by |-> proc[p].user, ticket |-> proc[p].ticket]

\* Mutant: a failed step is recorded like one that succeeded.
RowOfAlwaysCompleted(p, status, escalated) ==
  [index |-> proc[p].index, status |-> "completed", escalated |-> escalated,
   base |-> proc[p].base, by |-> proc[p].user, ticket |-> proc[p].ticket]

\* The row the process adds for the step it is at.
RowOf(p, status, escalated) ==
  [index |-> proc[p].index, status |-> status, escalated |-> escalated,
   base |-> proc[p].base, by |-> proc[p].user, ticket |-> proc[p].ticket]

AddRow(p, status, escalated) ==
  rows' = [rows EXCEPT ![proc[p].run] = Append(@, RowOf(p, status, escalated))]

\* Mutant: the execution ends with the commit.
ThenNothing(p, verb) ==
  /\ proc' = [proc EXCEPT ![p] = IdleProc]
  /\ happened' = happened \cup {Entry(verb, proc[p].run, proc[p].user)}
  /\ UNCHANGED <<clerk, audit, lost, aborts>>

\* After the commit that ends an execution comes the audit entry for it.
ThenAudit(p, verb) ==
  /\ proc' = [proc EXCEPT ![p] = [@ EXCEPT !.pc = "audit", !.verb = verb]]
  /\ happened' = happened \cup {Entry(verb, proc[p].run, proc[p].user)}
  /\ UNCHANGED <<clerk, audit, lost, aborts>>

\* The department answers and nothing in the answer asks for escalation.
StepClean(p) ==
  /\ AtStep(p)
  /\ AddRow(p, "completed", FALSE)
  /\ proc' = [proc EXCEPT ![p] = [@ EXCEPT !.index = proc[p].index + 1, !.base = proc[p].index]]
  /\ UNCHANGED <<approvalVars, runs, queue>>

\* AllProvidersFailedError: the failed row and the FAILED run are one commit.
StepFails(p) ==
  /\ AtStep(p)
  /\ AddRow(p, "failed", FALSE)
  /\ runs' = [runs EXCEPT ![proc[p].run].status = "failed"]
  /\ ThenAudit(p, "workflow.failed")
  /\ UNCHANGED <<approvals, queue>>

\* should_escalate matched: the approval is created, in a commit of its own.
StepEscalates(p, a) ==
  /\ AtStep(p)
  /\ CreateApproval(a, proc[p].run, proc[p].index)
  /\ proc' = [proc EXCEPT ![p] = [@ EXCEPT !.pc = "escalate", !.pending = a]]
  /\ UNCHANGED <<clerk, audit, happened, lost, aborts, runs, rows, queue>>

\* Mutant: the escalation is flagged, as for a single invocation, and the run goes on.
FlagAndGoOn(p) ==
  /\ proc[p].pc = "escalate"
  /\ AddRow(p, "completed", TRUE)
  /\ proc' = [proc EXCEPT ![p] = [@ EXCEPT !.pc = "step", !.index = proc[p].index + 1]]
  /\ UNCHANGED <<approvalVars, runs, queue>>

\* The second commit of an escalation: the step row and the ESCALATED run.
CommitEscalation(p) ==
  /\ proc[p].pc = "escalate"
  /\ ~RlsEnforced
  /\ AddRow(p, "completed", TRUE)
  /\ runs' = [runs EXCEPT ![proc[p].run] = [status |-> "escalated", pending |-> proc[p].pending]]
  /\ ThenAudit(p, "workflow.escalated")
  /\ UNCHANGED <<approvals, queue>>

\* Mutant: the exception is swallowed and the run goes on.
EscalationSwallowed(p) ==
  /\ proc[p].pc = "escalate"
  /\ RlsEnforced
  /\ proc' = [proc EXCEPT ![p] = [@ EXCEPT !.pc = "step", !.index = proc[p].index + 1]]
  /\ UNCHANGED <<approvalVars, runs, rows, queue>>

\* On PostgreSQL that commit never comes: create_approval's commit ended the
\* transaction whose local app.current_tenant_id the row policies read, so
\* select(WorkflowRun).scalar_one() finds no row and raises; the step row is
\* rolled back with it.
EscalationLosesContext(p) ==
  /\ proc[p].pc = "escalate"
  /\ RlsEnforced
  /\ proc' = [proc EXCEPT ![p] = IdleProc]
  /\ UNCHANGED <<approvalVars, runs, rows, queue>>

\* Mutant: the last step is taken for done.
CompleteEarly(p) ==
  /\ proc[p].pc = "step" /\ proc[p].index >= Steps - 1
  /\ runs' = [runs EXCEPT ![proc[p].run] = [status |-> "completed", pending |-> NoApproval]]
  /\ ThenAudit(p, "workflow.completed")
  /\ UNCHANGED <<approvals, rows, queue>>

\* Past the last step: COMPLETED, and no pending approval.
Complete(p) ==
  /\ proc[p].pc = "step" /\ proc[p].index >= Steps
  /\ runs' = [runs EXCEPT ![proc[p].run] = [status |-> "completed", pending |-> NoApproval]]
  /\ ThenAudit(p, "workflow.completed")
  /\ UNCHANGED <<approvals, rows, queue>>

OwedBy(p) == Entry(proc[p].verb, proc[p].run, proc[p].user)

\* record_audit at the end of an execution.
AuditRun(p) ==
  /\ proc[p].pc = "audit"
  /\ audit' = audit \cup {OwedBy(p)}
  /\ proc' = [proc EXCEPT ![p] = IdleProc]
  /\ UNCHANGED <<approvals, clerk, happened, lost, aborts, runs, rows, queue>>

--------------------------------------------------------------------------------
(* Resuming an escalated run, resume_workflow *)

\* Someone is executing r, or about to.
Busy(r) == \E p \in Process : proc[p].run = r /\ proc[p].pc \notin {"idle", "audit"}

\* Mutant: a FAILED run may be resumed too.
ResumableAfterFailure(r) == runs[r].status \in {"escalated", "failed"}

Resumable(r) == runs[r].status = "escalated"

\* First read: the run, which must be ESCALATED.
ResumeReadRun(h, u, r) ==
  /\ proc[h].pc = "idle"
  /\ Resumable(r)
  /\ Serialised => ~Busy(r)
  /\ proc' = [proc EXCEPT ![h] = Request("resume_approval", r, u, runs[r].pending)]
  /\ UNCHANGED <<approvalVars, runs, rows, queue>>

\* Mutant: only a rejection stops the resume.
SignedOffUnlessRejected(a) == a \in Approval /\ approvals[a].status # "rejected"

SignedOff(a) == a \in Approval /\ approvals[a].status = "approved"

\* Second read: the approval that run row named, which must be APPROVED (409).
ResumeReadApproval(h) ==
  /\ proc[h].pc = "resume_approval"
  /\ LET a == proc[h].pending IN
       proc' = [proc EXCEPT ![h] =
                  IF SignedOff(a)
                  THEN [@ EXCEPT !.pc = "resume_steps", !.ticket = a, !.pending = NoApproval]
                  ELSE IdleProc]
  /\ UNCHANGED <<approvalVars, runs, rows, queue>>

\* The rows of r that order_by(step_index) may put last.
LastRows(r) ==
  {rows[r][k] : k \in {j \in DOMAIN rows[r] :
                         \A i \in DOMAIN rows[r] : rows[r][i].index <= rows[r][j].index}}

\* Mutant: a resume starts without a previous output.
NoPreviousOutput(r) == {NoOutput}

\* What previous_output can come out as: a FAILED row has no output.
PreviousOutput(r) ==
  IF rows[r] = <<>> THEN {NoOutput}
  ELSE {IF row.status = "completed" THEN row.index ELSE NoOutput : row \in LastRows(r)}

\* Third read: the step rows; as many rows, as many steps are taken as done.
\* The caller must hold the permission of every remaining step.
ResumeReadSteps(h) ==
  /\ proc[h].pc = "resume_steps"
  /\ LET next_index == Len(rows[proc[h].run]) IN
       /\ MayRunFrom(proc[h].user, next_index)
       /\ \E base \in PreviousOutput(proc[h].run) :
            proc' = [proc EXCEPT ![h] =
                       [@ EXCEPT !.pc = "resume_set", !.index = next_index, !.base = base]]
  /\ UNCHANGED <<approvalVars, runs, rows, queue>>

\* A missing permission (403), or the rate limit (429), ends the request.
ResumeRefused(h) ==
  /\ proc[h].pc = "resume_steps"
  /\ proc' = [proc EXCEPT ![h] = IdleProc]
  /\ UNCHANGED <<approvalVars, runs, rows, queue>>

\* Mutant: the run stays ESCALATED while its steps run.
ResumeSilently(h) ==
  /\ proc[h].pc = "resume_set"
  /\ proc' = [proc EXCEPT ![h].pc = "step"]
  /\ UNCHANGED <<approvalVars, runs, rows, queue>>

\* A second session sets the run RUNNING, whatever it has become since.
ResumeSetRunning(h) ==
  /\ proc[h].pc = "resume_set"
  /\ runs' = [runs EXCEPT ![proc[h].run].status = "running"]
  /\ proc' = [proc EXCEPT ![h].pc = "step"]
  /\ UNCHANGED <<approvalVars, rows, queue>>

--------------------------------------------------------------------------------

\* The process stops here: killed, cancelled, or its statement refused.
Abort(p) ==
  /\ proc[p].pc # "idle"
  /\ aborts < MaxAborts
  /\ aborts' = aborts + 1
  /\ lost' = IF proc[p].pc = "audit" THEN lost \cup {OwedBy(p)} ELSE lost
  /\ proc' = [proc EXCEPT ![p] = IdleProc]
  /\ UNCHANGED <<approvals, clerk, audit, happened, runs, rows, queue>>

\* What a process does once it has work.
ProcessStep(p) ==
  \/ Enqueue(p)
  \/ StepClean(p)
  \/ StepFails(p)
  \/ \E a \in Approval : StepEscalates(p, a)
  \/ CommitEscalation(p)
  \/ EscalationLosesContext(p)
  \/ Complete(p)
  \/ AuditRun(p)
  \/ ResumeReadApproval(p)
  \/ ResumeReadSteps(p)
  \/ ResumeRefused(p)
  \/ ResumeSetRunning(p)

Next ==
  \/ \E h \in Handler, u \in User, r \in Run :
       \/ \E async \in BOOLEAN : StartRun(h, u, r, async)
       \/ ResumeReadRun(h, u, r)
  \/ \E w \in Worker, t \in queue : WorkerTake(w, t)
  \/ \E p \in Process : ProcessStep(p) \/ Abort(p)
  \/ ApprovalsNext /\ UNCHANGED engineVars

Spec == Init /\ [][Next]_vars

(***************************************************************************)
(* The event loop runs every handler whose await is over, every provider   *)
(* call ends (httpx timeouts), and Celery gives a queued task to a worker  *)
(* that is free.  Clients owe nothing: no start, resume or decision is     *)
(* fair.                                                                   *)
(***************************************************************************)
FairSpec ==
  /\ Spec
  /\ \A p \in Process : WF_vars(ProcessStep(p))
  /\ \A w \in Worker : WF_vars(\E t \in queue : WorkerTake(w, t))
  /\ \A c \in Clerk : WF_vars(ClerkStep(c) /\ UNCHANGED engineVars)

--------------------------------------------------------------------------------
(* What holds whatever requests overlap and whoever stops *)

RowAt(r, k) == rows[r][k]

\* No department runs for a user who may not invoke it: run_workflow and
\* resume_workflow check every step up front, against an index that is still
\* right many commits later.
StepsPermitted ==
  \A r \in Run : \A k \in DOMAIN rows[r] : <<RowAt(r, k).by, RowAt(r, k).index>> \in Permitted

\* Every step run by a resume rests on an approval of this very run which an
\* owner did grant, and lies beyond the step that approval is about: the
\* escalated step itself never runs again under its own approval.
ResumesAuthorised ==
  \A r \in Run : \A k \in DOMAIN rows[r] :
    LET row == RowAt(r, k) IN
      row.ticket # NoApproval =>
        /\ approvals[row.ticket].run = r
        /\ EverDecided(row.ticket, "approved")
        /\ row.index > approvals[row.ticket].step

\* A fresh run, synchronous or through Celery, records its steps one by one
\* from the first, and stops at the first that escalates or fails.
FreshRunInOrder ==
  \A r \in Run : \A k \in DOMAIN rows[r] :
    RowAt(r, k).ticket = NoApproval =>
      /\ RowAt(r, k).index = k - 1
      /\ \A j \in 1..(k - 1) :
           RowAt(r, j).ticket = NoApproval /\ RowAt(r, j).status = "completed" /\ ~RowAt(r, j).escalated

\* A run that awaits approval names a request of its own, for a step it has
\* recorded as escalated: an owner can always find what to decide.
EscalationHasRequest ==
  \A r \in Run :
    runs[r].status = "escalated" =>
      /\ runs[r].pending \in Approval
      /\ approvals[runs[r].pending].status # "absent"
      /\ approvals[runs[r].pending].run = r
      /\ \E k \in DOMAIN rows[r] : /\ RowAt(r, k).escalated
                                   /\ RowAt(r, k).index = approvals[runs[r].pending].step

\* What the audit log says of a run can be seen in its step rows: a failure or
\* an escalation by that actor, and as many rows as steps for a completion.
AuditTellsTheTruth ==
  \A e \in audit \cap WorkflowEntry :
    LET by == {k \in DOMAIN rows[e.about] : RowAt(e.about, k).by = e.actor} IN
      /\ e.verb = "workflow.failed" => \E k \in by : RowAt(e.about, k).status = "failed"
      /\ e.verb = "workflow.escalated" => \E k \in by : RowAt(e.about, k).escalated
      /\ e.verb = "workflow.completed" => Len(rows[e.about]) >= Steps

\* The end of an execution is missing from the audit log only while its process
\* is about to record it, or because that process was stopped.
WorkflowAuditComplete ==
  \A e \in happened \cap WorkflowEntry :
    \/ e \in audit \cup lost
    \/ \E p \in Process : proc[p].pc = "audit" /\ OwedBy(p) = e

--------------------------------------------------------------------------------
(* What holds as long as nobody resumes a run while it is being executed, or *)
(* decides a request someone else is deciding (Serialised)                   *)

\* Every step runs once, in order, on the output of the step before it.
StepsInOrder ==
  \A r \in Run : \A k \in DOMAIN rows[r] :
    /\ RowAt(r, k).index = k - 1
    /\ RowAt(r, k).base = IF k = 1 THEN NoOutput ELSE k - 2

\* A COMPLETED run has run every step of its workflow, and none failed.
CompletedRanEveryStep ==
  \A r \in Run :
    runs[r].status = "completed" =>
      \A i \in StepIndex : \E k \in DOMAIN rows[r] :
        RowAt(r, k).index = i /\ RowAt(r, k).status = "completed"

\* Once a step has raised a request, no later step of its run is recorded until
\* an owner has approved that request.
NoStepPastUnsigned ==
  \A a \in Approval :
    approvals[a].run # NoRun /\ ~EverDecided(a, "approved") =>
      \A k \in DOMAIN rows[approvals[a].run] :
        RowAt(approvals[a].run, k).index <= approvals[a].step

\* A run awaiting approval, or over, is not being executed behind its back.
StoppedIsQuiet ==
  \A r \in Run :
    runs[r].status # "running" =>
      ~\E p \in Process : proc[p].run = r /\ proc[p].pc \in {"step", "escalate"}

\* COMPLETED and FAILED are final.
TerminalIsFinal ==
  [][\A r \in Run : runs[r].status \in {"completed", "failed"} => runs'[r] = runs[r]]_runs

\* No step of a run is recorded twice: a resume continues from the next step.
NoStepRunsTwice ==
  \A r \in Run : \A j, k \in DOMAIN rows[r] : j # k => RowAt(r, j).index # RowAt(r, k).index

\* Unless a process was stopped in between, a request a workflow step created
\* gets its run ESCALATED, or is about to: none is left that no run names.
EscalationReachesRun ==
  aborts = 0 =>
    \A a \in Approval :
      approvals[a].run # NoRun =>
        \/ \E p \in Process : proc[p].pc = "escalate" /\ proc[p].pending = a
        \/ \E k \in DOMAIN rows[approvals[a].run] :
             /\ RowAt(approvals[a].run, k).escalated
             /\ RowAt(approvals[a].run, k).index = approvals[a].step

\* If no process is stopped, a run never stays RUNNING: it completes, fails,
\* or comes to wait for an owner.
RunSettles == \A r \in Run : runs[r].status = "running" ~> runs[r].status # "running"
================================================================================
