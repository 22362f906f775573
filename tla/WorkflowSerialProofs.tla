-------------------------- MODULE WorkflowSerialProofs --------------------------
(***************************************************************************)
(* What the workflow engine keeps as long as requests on one run, or on    *)
(* one approval, do not overlap; and on PostgreSQL, where no escalation    *)
(* ever reaches its run, whatever overlaps.                                *)
(***************************************************************************)
EXTENDS WorkflowSafetyProofs, WorkflowRefinement, FiniteSetTheorems

\* Nothing resumes a run that is being executed: nobody asks, or nothing is escalated.
Apart == Serialised \/ RlsEnforced

--------------------------------------------------------------------------------
(* One execution at a time *)

(***************************************************************************)
(* StepsInOrder speaks of rows.  What carries it from one step to the next *)
(* is that a single process works on a run, and what it holds agrees with  *)
(* the tables: its step is the first one not recorded, the output it       *)
(* passes on is that of the row before.                                    *)
(***************************************************************************)
Working(l) == l.pc \notin {"idle", "audit"}

OneAtATime ==
  \A p, q \in Process :
    Working(proc[p]) /\ Working(proc[q]) /\ proc[p].run = proc[q].run => p = q

BaseAt(n) == IF n = 0 THEN NoOutput ELSE n - 1

Ordered(s) == \A k \in DOMAIN s : s[k].index = k - 1 /\ s[k].base = BaseAt(k - 1)

AllCompleted(s) == \A k \in DOMAIN s : s[k].status = "completed"

\* What a process l that works on a run holds agrees with its run row and step rows.
Abreast(l, run, s) ==
  /\ l.pc \in {"enqueue", "step", "escalate"} => run.status = "running"
  /\ l.pc \in {"resume_approval", "resume_steps", "resume_set"} => run.status = "escalated"
  /\ l.pc = "resume_approval" => l.pending = run.pending
  /\ l.pc \in {"resume_steps", "resume_set"} => l.ticket = run.pending
  /\ l.pc \in Bound => l.index = Len(s) /\ l.base = BaseAt(l.index)

\* What a run row says of its step rows.
Coherent(run, s) ==
  /\ Ordered(s)
  /\ run.status # "failed" => AllCompleted(s)
  /\ run.status = "completed" => Len(s) = Steps
  /\ RlsEnforced => run.status # "escalated" /\ run.pending = NoApproval

SerialInv ==
  /\ OneAtATime
  /\ \A p \in Process :
       Working(proc[p]) => Abreast(proc[p], runs[proc[p].run], rows[proc[p].run])
  /\ \A r \in Run : Coherent(runs[r], rows[r])

LEMMA OrderedAppend ==
  ASSUME NEW s \in Seq(StepRow), NEW row, Ordered(s),
         row.index = Len(s), row.base = BaseAt(row.index)
  PROVE  /\ Ordered(Append(s, row))
         /\ AllCompleted(s) /\ row.status = "completed" => AllCompleted(Append(s, row))
         /\ Len(Append(s, row)) = Len(s) + 1 /\ Len(s) \in Nat
<1> DEFINE n == Len(s)  t == Append(s, row)
<1>1. n \in Nat /\ DOMAIN s = 1..n /\ DOMAIN t = 1..(n + 1) /\ Len(t) = n + 1
  OBVIOUS
<1>2. t[n + 1] = row /\ \A k \in 1..n : t[k] = s[k]
  OBVIOUS
<1>3. (n + 1) - 1 = row.index /\ \A k \in 1..(n + 1) : k \in 1..n \/ k = n + 1
  BY <1>1
<1> HIDE DEF n, t
<1>4. Ordered(t)
  <2> SUFFICES ASSUME NEW k \in 1..(n + 1)
               PROVE  t[k].index = k - 1 /\ t[k].base = BaseAt(k - 1)
    BY <1>1 DEF Ordered
  <2>1. CASE k \in 1..n
    BY <1>1, <1>2, <2>1 DEF Ordered
  <2>2. CASE k = n + 1
    BY <1>2, <1>3, <2>2
  <2> QED
    BY <1>3, <2>1, <2>2
<1>5. AllCompleted(s) /\ row.status = "completed" => AllCompleted(t)
  BY <1>1, <1>2, <1>3 DEF AllCompleted
<1> QED
  BY <1>1, <1>4, <1>5 DEF t, n

\* Rows in order are no more than there are steps.
LEMMA OrderedBound ==
  ASSUME NEW s \in Seq(StepRow), Ordered(s)
  PROVE  Len(s) \in 0..Steps
<1>1. Len(s) \in Nat /\ DOMAIN s = 1..Len(s)
  OBVIOUS
<1>2. CASE Len(s) = 0
  BY <1>2, EngineAssumption
<1>3. CASE Len(s) # 0
  <2>1. Len(s) \in DOMAIN s
    BY <1>1, <1>3
  <2>2. s[Len(s)].index = Len(s) - 1 /\ s[Len(s)] \in StepRow
    BY <2>1 DEF Ordered
  <2>3. Len(s) - 1 \in 0..(Steps - 1)
    BY <2>2 DEF StepRow, StepIndex
  <2> QED
    BY <1>1, <2>3, EngineAssumption
<1> QED
  BY <1>2, <1>3

\* After rows in order, all completed, order_by(step_index) leaves one last row, and
\* the output a resume goes on from is that of the step before its own.
LEMMA PreviousInOrder ==
  ASSUME NEW r \in Run, rows[r] \in Seq(StepRow), Ordered(rows[r]), AllCompleted(rows[r])
  PROVE  \A base \in PreviousOutput(r) : base = BaseAt(Len(rows[r]))
<1> DEFINE s == rows[r]  n == Len(rows[r])
<1>1. n \in Nat /\ DOMAIN s = 1..n
  OBVIOUS
<1>2. CASE s = <<>>
  BY <1>2 DEF PreviousOutput, BaseAt
<1>3. CASE s # <<>>
  <2>1. n # 0 /\ n \in DOMAIN s
    BY <1>1, <1>3
  <2>2. ASSUME NEW row \in LastRows(r)
        PROVE  row.status = "completed" /\ row.index = n - 1
    <3>1. PICK k \in DOMAIN s : row = s[k] /\ \A i \in DOMAIN s : s[i].index <= s[k].index
      BY <2>2 DEF LastRows
    <3>2. s[n].index = n - 1 /\ s[k].index = k - 1 /\ s[k].status = "completed"
      BY <2>1, <3>1 DEF Ordered, AllCompleted
    <3>3. k \in 1..n /\ s[n].index <= s[k].index
      BY <1>1, <2>1, <3>1
    <3> HIDE DEF s, n
    <3>4. k = n
      BY <1>1, <3>2, <3>3
    <3> QED
      BY <3>1, <3>2, <3>4
  <2>3. \A base \in PreviousOutput(r) :
          \E row \in LastRows(r) : base = IF row.status = "completed" THEN row.index ELSE NoOutput
    BY <1>3 DEF PreviousOutput
  <2> QED
    BY <2>1, <2>2, <2>3 DEF BaseAt
<1> QED
  BY <1>2, <1>3

\* One process acts on one run, on which nobody else works.
LEMMA SerialFrame ==
  ASSUME EngineTypeOK, SerialInv, NEW p \in Process, NEW new, NEW r \in Run,
         proc' = [proc EXCEPT ![p] = new],
         \A x \in Run : x # r => runs'[x] = runs[x] /\ rows'[x] = rows[x],
         Coherent(runs'[r], rows'[r]),
         Working(new) => new.run = r /\ Abreast(new, runs'[r], rows'[r]),
         \A q \in Process : q # p /\ Working(proc[q]) => proc[q].run # r
  PROVE  SerialInv'
<1>1. proc'[p] = new /\ \A q \in Process : q # p => proc'[q] = proc[q]
  BY DEF EngineTypeOK
<1>2. OneAtATime'
  BY <1>1 DEF SerialInv, OneAtATime
<1>3. ASSUME NEW q \in Process, Working(proc'[q])
      PROVE  Abreast(proc'[q], runs'[proc'[q].run], rows'[proc'[q].run])
  <2>1. CASE q = p
    BY <1>1, <1>3, <2>1
  <2>2. CASE q # p
    <3>1. proc'[q] = proc[q] /\ proc[q].run # r /\ proc[q].run \in Run
      BY <1>1, <1>3, <2>2 DEF EngineTypeOK, ProcHolds, Working
    <3> QED
      BY <1>3, <3>1 DEF SerialInv
  <2> QED
    BY <2>1, <2>2
<1>4. \A x \in Run : Coherent(runs'[x], rows'[x])
  BY DEF SerialInv
<1> QED
  BY <1>2, <1>3, <1>4 DEF SerialInv

\* A process stops working.
LEMMA SerialStops ==
  ASSUME EngineTypeOK, SerialInv, NEW p \in Process, NEW new, ~Working(new),
         proc' = [proc EXCEPT ![p] = new], UNCHANGED <<runs, rows>>
  PROVE  SerialInv'
<1>1. proc'[p] = new /\ \A q \in Process : q # p => proc'[q] = proc[q]
  BY DEF EngineTypeOK
<1> QED
  BY <1>1 DEF SerialInv, OneAtATime

\* A process at work acts on its run.
LEMMA SerialWork ==
  ASSUME EngineTypeOK, SerialInv, NEW p \in Process, Working(proc[p]), NEW new, NEW r \in Run,
         r = proc[p].run, proc' = [proc EXCEPT ![p] = new],
         \A x \in Run : x # r => runs'[x] = runs[x] /\ rows'[x] = rows[x],
         Coherent(runs'[r], rows'[r]),
         Working(new) => new.run = r /\ Abreast(new, runs'[r], rows'[r])
  PROVE  SerialInv'
<1>1. \A q \in Process : q # p /\ Working(proc[q]) => proc[q].run # r
  BY DEF SerialInv, OneAtATime
<1> QED
  BY <1>1, SerialFrame

\* The row of the step a process is at comes next, on the output of the one before.
LEMMA SerialRow ==
  ASSUME EngineTypeOK, SerialInv, NEW p \in Process, proc[p].pc \in {"step", "escalate"},
         NEW status, NEW escalated, AddRow(p, status, escalated)
  PROVE  LET r == proc[p].run IN
           /\ r \in Run /\ rows[r] \in Seq(StepRow) /\ Len(rows[r]) \in Nat
           /\ proc[p].index = Len(rows[r]) /\ runs[r].status = "running"
           /\ rows'[r] = Append(rows[r], RowOf(p, status, escalated))
           /\ Len(rows'[r]) = Len(rows[r]) + 1
           /\ \A x \in Run : x # r => rows'[x] = rows[x]
           /\ Ordered(rows'[r])
           /\ status = "completed" => AllCompleted(rows'[r])
<1> DEFINE r == proc[p].run  row == RowOf(p, status, escalated)
<1>1. r \in Run /\ rows[r] \in Seq(StepRow)
  BY DEF EngineTypeOK, ProcHolds
<1>2. rows'[r] = Append(rows[r], row) /\ \A x \in Run : x # r => rows'[x] = rows[x]
  BY <1>1 DEF EngineTypeOK, AddRow
<1>3. Abreast(proc[p], runs[r], rows[r]) /\ Coherent(runs[r], rows[r])
  BY <1>1 DEF SerialInv, Working
<1>4. /\ proc[p].index = Len(rows[r]) /\ proc[p].base = BaseAt(proc[p].index)
      /\ runs[r].status = "running"
  BY <1>3 DEF Abreast, Bound
<1>5. Ordered(rows[r]) /\ AllCompleted(rows[r])
  BY <1>3, <1>4 DEF Coherent
<1>6. row.index = proc[p].index /\ row.base = proc[p].base /\ row.status = status
  BY DEF RowOf
<1> HIDE DEF row, r
<1>7. /\ Ordered(Append(rows[r], row))
      /\ row.status = "completed" => AllCompleted(Append(rows[r], row))
      /\ Len(Append(rows[r], row)) = Len(rows[r]) + 1 /\ Len(rows[r]) \in Nat
  BY <1>1, <1>4, <1>5, <1>6, OrderedAppend
<1> QED
  BY <1>1, <1>2, <1>4, <1>6, <1>7 DEF row, r

LEMMA SerialStep ==
  ASSUME Apart, BaseInv, FreshInv, SerialInv, EngineStep
  PROVE  SerialInv'
<1>1. EngineTypeOK
  BY DEF BaseInv
<1>2. /\ OneAtATime /\ \A r \in Run : Coherent(runs[r], rows[r])
      /\ \A p \in Process :
           Working(proc[p]) => Abreast(proc[p], runs[proc[p].run], rows[proc[p].run])
  BY DEF SerialInv
<1>3. ~Working(IdleProc)
  BY DEF Working, IdleProc, Request
\* What a process at work holds.
<1>4. ASSUME NEW p \in Process, proc[p].pc \notin {"idle", "audit"}
      PROVE  /\ Working(proc[p]) /\ proc[p] \in ProcState /\ proc[p].run \in Run
             /\ Abreast(proc[p], runs[proc[p].run], rows[proc[p].run])
             /\ Coherent(runs[proc[p].run], rows[proc[p].run])
  BY <1>1, <1>2, <1>4 DEF EngineTypeOK, ProcHolds, Working
\* Locals that hold no step yet.
<1>5. ASSUME NEW h \in Handler, NEW u \in User, NEW r \in Run, NEW async \in BOOLEAN,
             StartRun(h, u, r, async)
      PROVE  SerialInv'
  <2> DEFINE new == Request(IF async THEN "enqueue" ELSE "step", r, u, NoApproval)
  <2>1. rows[r] = <<>> /\ \A q \in Process : proc[q].run # r
    BY <1>5 DEF StartRun, FreshInv, AbsentUntouched
  <2>2. /\ new.pc \in {"enqueue", "step"} /\ new.run = r /\ new.index = 0
        /\ new.base = NoOutput
    BY DEF Request
  <2>3. /\ proc' = [proc EXCEPT ![h] = new] /\ h \in Process
        /\ runs' = [runs EXCEPT ![r] = [status |-> "running", pending |-> NoApproval]]
        /\ UNCHANGED rows
    BY <1>5 DEF StartRun, Process
  <2> HIDE DEF new
  <2>4. runs'[r] = [status |-> "running", pending |-> NoApproval]
        /\ \A x \in Run : x # r => runs'[x] = runs[x]
    BY <1>1, <2>3 DEF EngineTypeOK
  <2>5. Coherent(runs'[r], rows'[r])
    BY <2>1, <2>3, <2>4 DEF Coherent, Ordered, AllCompleted
  <2>6. Abreast(new, runs'[r], rows'[r])
    BY <2>1, <2>2, <2>3, <2>4 DEF Abreast, BaseAt, Bound
  <2> QED
    BY <1>1, <2>1, <2>2, <2>3, <2>4, <2>5, <2>6, SerialFrame
<1>6. ASSUME NEW h \in Handler, NEW u \in User, NEW r \in Run, ResumeReadRun(h, u, r)
      PROVE  SerialInv'
  <2> DEFINE new == Request("resume_approval", r, u, runs[r].pending)
  <2>1. runs[r].status = "escalated" /\ (Serialised => ~Busy(r))
    BY <1>6 DEF ResumeReadRun, Resumable
  <2>2. /\ new.pc = "resume_approval" /\ new.run = r /\ new.pending = runs[r].pending
    BY DEF Request
  <2>3. /\ proc' = [proc EXCEPT ![h] = new] /\ h \in Process /\ UNCHANGED <<runs, rows>>
    BY <1>6 DEF ResumeReadRun, Process
  <2>4. ~RlsEnforced
    BY <1>2, <2>1 DEF Coherent
  <2>5. \A q \in Process : Working(proc[q]) => proc[q].run # r
    BY <2>1, <2>4 DEF Apart, Busy, Working
  <2> HIDE DEF new
  <2>6. Abreast(new, runs'[r], rows'[r])
    BY <2>1, <2>2, <2>3 DEF Abreast, Bound
  <2>7. Coherent(runs'[r], rows'[r]) /\ runs' = runs /\ rows' = rows
    BY <1>2, <2>3
  <2> QED
    BY <1>1, <2>2, <2>3, <2>5, <2>6, <2>7, SerialFrame
<1>7. ASSUME NEW w \in Worker, NEW t \in queue, WorkerTake(w, t)
      PROVE  SerialInv'
  <2> DEFINE r == t.run
             new == Request("step", r, t.user, NoApproval)
  <2>1. r \in Run
    BY <1>1 DEF EngineTypeOK, Task
  <2>2. /\ runs[r].status = "running" /\ rows[r] = <<>>
        /\ \A q \in Process : proc[q].run # r
    BY DEF FreshInv, TasksFresh
  <2>3. new.pc = "step" /\ new.run = r /\ new.index = 0 /\ new.base = NoOutput
    BY DEF Request
  <2>4. /\ proc' = [proc EXCEPT ![w] = new] /\ w \in Process /\ UNCHANGED <<runs, rows>>
    BY <1>7 DEF WorkerTake, Process
  <2> HIDE DEF new, r
  <2>5. Abreast(new, runs'[r], rows'[r])
    BY <2>2, <2>3, <2>4 DEF Abreast, BaseAt, Bound
  <2>6. Coherent(runs'[r], rows'[r]) /\ runs' = runs /\ rows' = rows
    BY <1>2, <2>1, <2>4
  <2>7. (\A q \in Process : proc[q].run # r) /\ new.run = r
    BY <2>2, <2>3
  <2> QED
    BY <1>1, <2>1, <2>4, <2>5, <2>6, <2>7, SerialFrame
<1>8. ASSUME NEW p \in Process, \/ Enqueue(p) \/ EscalationLosesContext(p) \/ AuditRun(p)
                               \/ ResumeRefused(p) \/ Abort(p)
      PROVE  SerialInv'
  <2>1. proc' = [proc EXCEPT ![p] = IdleProc] /\ UNCHANGED <<runs, rows>>
    BY <1>8 DEF Enqueue, EscalationLosesContext, AuditRun, ResumeRefused, Abort
  <2> QED
    BY <1>1, <1>3, <2>1, SerialStops
<1>9. ASSUME NEW p \in Process, StepClean(p)
      PROVE  SerialInv'
  <2> DEFINE r == proc[p].run
             new == [proc[p] EXCEPT !.index = proc[p].index + 1, !.base = proc[p].index]
  <2>1. /\ proc[p].pc = "step" /\ UNCHANGED runs /\ proc' = [proc EXCEPT ![p] = new]
    BY <1>9 DEF StepClean, AtStep
  <2>2. /\ Working(proc[p]) /\ proc[p] \in ProcState /\ r \in Run
        /\ Coherent(runs[r], rows[r])
    BY <1>4, <2>1
  <2>3. /\ new.pc = "step" /\ new.run = r /\ new.index = proc[p].index + 1
        /\ new.base = proc[p].index
    BY <2>1, <2>2 DEF ProcState
  <2> HIDE DEF new
  <2>4. PICK status, escalated : AddRow(p, status, escalated) /\ status = "completed"
    BY <1>9 DEF StepClean
  <2>5. /\ Len(rows[r]) \in Nat /\ proc[p].index = Len(rows[r]) /\ runs[r].status = "running"
        /\ Len(rows'[r]) = Len(rows[r]) + 1
        /\ \A x \in Run : x # r => rows'[x] = rows[x]
        /\ Ordered(rows'[r]) /\ AllCompleted(rows'[r])
    BY <1>1, <2>1, <2>4, SerialRow
  <2> HIDE DEF r
  <2>6. new.index = Len(rows'[r]) /\ new.base = BaseAt(new.index)
    BY <2>3, <2>5 DEF BaseAt
  <2>7. Abreast(new, runs'[r], rows'[r])
    BY <2>1, <2>3, <2>5, <2>6 DEF Abreast
  <2>8. Coherent(runs'[r], rows'[r])
    BY <2>1, <2>2, <2>5 DEF Coherent
  <2> QED
    BY <1>1, <2>1, <2>2, <2>3, <2>5, <2>7, <2>8, SerialWork DEF r
<1>10. ASSUME NEW p \in Process, Working(proc[p]), NEW verb, ThenAudit(p, verb),
              \A x \in Run : x # proc[p].run => runs'[x] = runs[x] /\ rows'[x] = rows[x],
              Coherent(runs'[proc[p].run], rows'[proc[p].run])
       PROVE  SerialInv'
  <2> DEFINE new == [proc[p] EXCEPT !.pc = "audit", !.verb = verb]
  <2>1. proc[p] \in ProcState /\ proc[p].run \in Run
    BY <1>1, <1>10 DEF EngineTypeOK, ProcHolds, Working
  <2>2. ~Working(new)
    BY <2>1 DEF ProcState, Working
  <2>3. proc' = [proc EXCEPT ![p] = new]
    BY <1>10 DEF ThenAudit
  <2> HIDE DEF new
  <2> QED
    BY <1>1, <1>10, <2>1, <2>2, <2>3, SerialWork
<1>11. ASSUME NEW p \in Process, StepFails(p) \/ CommitEscalation(p)
       PROVE  SerialInv'
  <2> DEFINE r == proc[p].run
  <2>1. proc[p].pc \in {"step", "escalate"}
    BY <1>11 DEF StepFails, CommitEscalation, AtStep
  <2>2. Working(proc[p]) /\ r \in Run /\ Coherent(runs[r], rows[r])
    BY <1>4, <2>1
  <2>3. PICK status, escalated : /\ AddRow(p, status, escalated)
                                 /\ CommitEscalation(p) => status = "completed"
    BY <1>11 DEF StepFails, CommitEscalation, AtStep
  <2>4. /\ \A x \in Run : x # r => rows'[x] = rows[x]
        /\ Ordered(rows'[r]) /\ (CommitEscalation(p) => AllCompleted(rows'[r]))
    BY <1>1, <2>1, <2>3, SerialRow
  <2>5. CASE StepFails(p)
    <3>1. /\ runs'[r].status = "failed" /\ runs'[r].pending = runs[r].pending
          /\ \A x \in Run : x # r => runs'[x] = runs[x]
      BY <1>1, <2>2, <2>5 DEF StepFails, EngineTypeOK, RunRow
    <3>2. Coherent(runs'[r], rows'[r])
      BY <2>2, <2>4, <3>1 DEF Coherent
    <3> QED
      BY <1>10, <2>2, <2>4, <2>5, <3>1, <3>2 DEF StepFails
  <2>6. CASE CommitEscalation(p)
    <3>1. /\ runs'[r].status = "escalated" /\ ~RlsEnforced
          /\ \A x \in Run : x # r => runs'[x] = runs[x]
      BY <1>1, <2>2, <2>6 DEF CommitEscalation, EngineTypeOK
    <3>2. Coherent(runs'[r], rows'[r])
      BY <2>4, <2>6, <3>1 DEF Coherent
    <3> QED
      BY <1>10, <2>2, <2>4, <2>6, <3>1, <3>2 DEF CommitEscalation
  <2> QED
    BY <1>11, <2>5, <2>6
<1>12. ASSUME NEW p \in Process, Complete(p)
       PROVE  SerialInv'
  <2> DEFINE r == proc[p].run
  <2>1. proc[p].pc = "step" /\ proc[p].index >= Steps /\ UNCHANGED rows
    BY <1>12 DEF Complete
  <2>2. /\ Working(proc[p]) /\ r \in Run /\ Coherent(runs[r], rows[r])
        /\ Abreast(proc[p], runs[r], rows[r])
    BY <1>4, <2>1
  <2>3. /\ runs'[r] = [status |-> "completed", pending |-> NoApproval]
        /\ \A x \in Run : x # r => runs'[x] = runs[x]
    BY <1>1, <1>12, <2>2 DEF Complete, EngineTypeOK
  <2>4. rows[r] \in Seq(StepRow) /\ Ordered(rows[r]) /\ AllCompleted(rows[r])
    BY <1>1, <2>1, <2>2 DEF EngineTypeOK, Coherent, Abreast
  <2>5. Len(rows[r]) = Steps
    <3>1. Len(rows[r]) >= Steps
      BY <2>1, <2>2 DEF Abreast, Bound
    <3>2. Len(rows[r]) \in 0..Steps
      BY <2>4, OrderedBound
    <3> QED
      BY <3>1, <3>2, EngineAssumption
  <2>6. Coherent(runs'[r], rows'[r])
    BY <2>1, <2>3, <2>4, <2>5 DEF Coherent
  <2> QED
    BY <1>10, <1>12, <2>1, <2>2, <2>3, <2>6 DEF Complete
<1>13. ASSUME NEW p \in Process, NEW a \in Approval, StepEscalates(p, a)
       PROVE  SerialInv'
  <2> DEFINE r == proc[p].run
             new == [proc[p] EXCEPT !.pc = "escalate", !.pending = a]
  <2>1. /\ proc[p].pc = "step" /\ UNCHANGED <<runs, rows>> /\ proc' = [proc EXCEPT ![p] = new]
    BY <1>13 DEF StepEscalates, AtStep
  <2>2. /\ Working(proc[p]) /\ proc[p] \in ProcState /\ r \in Run
        /\ Coherent(runs[r], rows[r]) /\ Abreast(proc[p], runs[r], rows[r])
    BY <1>4, <2>1
  <2>3. /\ new.pc = "escalate" /\ new.run = r /\ new.index = proc[p].index
        /\ new.base = proc[p].base
    BY <2>2 DEF ProcState
  <2> HIDE DEF new
  <2>4. Abreast(new, runs'[r], rows'[r]) /\ Coherent(runs'[r], rows'[r])
    BY <2>1, <2>2, <2>3 DEF Abreast, Bound
  <2> QED
    BY <1>1, <2>1, <2>2, <2>3, <2>4, SerialWork
<1>14. ASSUME NEW p \in Process, ResumeReadApproval(p)
       PROVE  SerialInv'
  <2> DEFINE r == proc[p].run
             a == proc[p].pending
             passed == [proc[p] EXCEPT !.pc = "resume_steps", !.ticket = a, !.pending = NoApproval]
  <2>1. /\ proc[p].pc = "resume_approval" /\ UNCHANGED <<runs, rows>>
        /\ proc' = [proc EXCEPT ![p] = IF SignedOff(a) THEN passed ELSE IdleProc]
    BY <1>14 DEF ResumeReadApproval
  <2>2. /\ Working(proc[p]) /\ proc[p] \in ProcState /\ r \in Run
        /\ Coherent(runs[r], rows[r]) /\ Abreast(proc[p], runs[r], rows[r])
    BY <1>4, <2>1
  <2>3. passed.pc = "resume_steps" /\ passed.run = r /\ passed.ticket = a
    BY <2>2 DEF ProcState
  <2> HIDE DEF passed
  <2>4. Abreast(passed, runs'[r], rows'[r]) /\ Coherent(runs'[r], rows'[r])
    BY <2>1, <2>2, <2>3 DEF Abreast, Bound
  <2>5. CASE SignedOff(a)
    BY <1>1, <2>1, <2>2, <2>3, <2>4, <2>5, SerialWork
  <2>6. CASE ~SignedOff(a)
    BY <1>1, <1>3, <2>1, <2>6, SerialStops
  <2> QED
    BY <2>5, <2>6
<1>15. ASSUME NEW p \in Process, ResumeReadSteps(p)
       PROVE  SerialInv'
  <2> DEFINE r == proc[p].run
             n == Len(rows[r])
  <2>1. PICK base \in PreviousOutput(r) :
          proc' = [proc EXCEPT ![p] =
                     [@ EXCEPT !.pc = "resume_set", !.index = n, !.base = base]]
    BY <1>15 DEF ResumeReadSteps
  <2> DEFINE new == [proc[p] EXCEPT !.pc = "resume_set", !.index = n, !.base = base]
  <2>2. /\ proc[p].pc = "resume_steps" /\ UNCHANGED <<runs, rows>>
        /\ proc' = [proc EXCEPT ![p] = new]
    BY <1>15, <2>1 DEF ResumeReadSteps
  <2>3. /\ Working(proc[p]) /\ proc[p] \in ProcState /\ r \in Run
        /\ Coherent(runs[r], rows[r]) /\ Abreast(proc[p], runs[r], rows[r])
    BY <1>4, <2>2
  <2>4. /\ new.pc = "resume_set" /\ new.run = r /\ new.index = n /\ new.base = base
        /\ new.ticket = proc[p].ticket
    BY <2>3 DEF ProcState
  <2>5. base = BaseAt(n)
    <3>1. rows[r] \in Seq(StepRow) /\ Ordered(rows[r]) /\ AllCompleted(rows[r])
      BY <1>1, <2>2, <2>3 DEF EngineTypeOK, Coherent, Abreast
    <3> QED
      BY <2>1, <2>3, <3>1, PreviousInOrder
  <2> HIDE DEF new
  <2>6. Abreast(new, runs'[r], rows'[r]) /\ Coherent(runs'[r], rows'[r])
    BY <2>2, <2>3, <2>4, <2>5 DEF Abreast
  <2> QED
    BY <1>1, <2>2, <2>3, <2>4, <2>6, SerialWork
<1>16. ASSUME NEW p \in Process, ResumeSetRunning(p)
       PROVE  SerialInv'
  <2> DEFINE r == proc[p].run
             new == [proc[p] EXCEPT !.pc = "step"]
  <2>1. /\ proc[p].pc = "resume_set" /\ UNCHANGED rows
        /\ proc' = [proc EXCEPT ![p] = new]
    BY <1>16 DEF ResumeSetRunning
  <2>2. /\ Working(proc[p]) /\ proc[p] \in ProcState /\ r \in Run
        /\ Coherent(runs[r], rows[r]) /\ Abreast(proc[p], runs[r], rows[r])
    BY <1>4, <2>1
  <2>3. /\ new.pc = "step" /\ new.run = r /\ new.index = proc[p].index
        /\ new.base = proc[p].base
    BY <2>2 DEF ProcState
  <2>4. /\ runs'[r].status = "running" /\ \A x \in Run : x # r => runs'[x] = runs[x]
    BY <1>1, <1>16, <2>2 DEF ResumeSetRunning, EngineTypeOK, RunRow
  <2> HIDE DEF new
  <2>5. runs[r].status = "escalated" /\ proc[p].index = Len(rows[r])
        /\ proc[p].base = BaseAt(proc[p].index)
    BY <2>1, <2>2 DEF Abreast, Bound
  <2>6. Abreast(new, runs'[r], rows'[r])
    BY <2>1, <2>3, <2>4, <2>5 DEF Abreast
  <2>7. Coherent(runs'[r], rows'[r])
    BY <2>1, <2>2, <2>4, <2>5 DEF Coherent
  <2> QED
    BY <1>1, <2>1, <2>2, <2>3, <2>4, <2>6, <2>7, SerialWork
<1> QED
  BY <1>5, <1>6, <1>7, <1>8, <1>9, <1>11, <1>12, <1>13, <1>14, <1>15, <1>16
     DEF EngineStep, ProcessStep

LEMMA Serial == Apart => (Spec => []SerialInv)
<1> SUFFICES ASSUME Apart PROVE Spec => []SerialInv
  OBVIOUS
<1>1. Init => SerialInv
  <2> SUFFICES ASSUME Init PROVE SerialInv
    OBVIOUS
  <2>1. /\ \A r \in Run : rows[r] = <<>> /\ runs[r] = AbsentRun
        /\ \A p \in Process : ~Working(proc[p])
    BY DEF Init, IdleProc, Request, Working
  <2> QED
    BY <2>1 DEF SerialInv, OneAtATime, AbsentRun, Coherent, Ordered, AllCompleted
<1>2. ASSUME BaseInv, FreshInv, SerialInv, [Next]_vars
      PROVE  SerialInv'
  <2>1. CASE EngineStep
    BY <1>2, <2>1, SerialStep
  <2>2. CASE UNCHANGED engineVars
    BY <1>2, <2>2 DEF engineVars, SerialInv, OneAtATime
  <2> QED
    BY <1>2, <2>1, <2>2, NextSplit DEF vars
<1> QED
  BY <1>1, <1>2, Base, FreshRuns, PTL DEF Spec

\* As long as nobody resumes a run that is being executed (and on PostgreSQL
\* always): every step runs once, in order, on the output of the step before it,
\* across any number of escalations and resumes.
THEOREM SerialSteps == Apart => (Spec => []StepsInOrder)
<1>1. BaseInv /\ SerialInv => StepsInOrder
  <2> SUFFICES ASSUME BaseInv, SerialInv, NEW r \in Run, NEW k \in DOMAIN rows[r]
               PROVE  rows[r][k].base = IF k = 1 THEN NoOutput ELSE k - 2
    BY DEF SerialInv, Coherent, Ordered, StepsInOrder, RowAt
  <2>1. rows[r][k].base = BaseAt(k - 1)
    BY DEF SerialInv, Coherent, Ordered
  <2>2. rows[r] \in Seq(StepRow)
    BY DEF BaseInv, EngineTypeOK
  <2>3. k \in Nat
    BY <2>2
  <2> QED
    BY <2>1, <2>3 DEF BaseAt
<1> QED
  BY <1>1, Base, Serial, PTL

\* Under the same condition: a COMPLETED run has run every step of its workflow, and
\* none failed.
THEOREM SerialCompletes == Apart => (Spec => []CompletedRanEveryStep)
<1>1. BaseInv /\ SerialInv => CompletedRanEveryStep
  <2> SUFFICES ASSUME BaseInv, SerialInv, NEW r \in Run, runs[r].status = "completed",
                      NEW i \in StepIndex
               PROVE  \E k \in DOMAIN rows[r] : rows[r][k].index = i /\ rows[r][k].status = "completed"
    BY DEF CompletedRanEveryStep, RowAt
  <2>1. rows[r] \in Seq(StepRow)
    BY DEF BaseInv, EngineTypeOK
  <2>2. Len(rows[r]) = Steps /\ Ordered(rows[r]) /\ AllCompleted(rows[r])
    BY DEF SerialInv, Coherent
  <2>3. i + 1 \in DOMAIN rows[r] /\ (i + 1) - 1 = i
    BY <2>1, <2>2, EngineAssumption DEF StepIndex
  <2> QED
    BY <2>2, <2>3 DEF Ordered, AllCompleted
<1> QED
  BY <1>1, Base, Serial, PTL

\* Under the same condition: a run that waits for an owner, or is over, is not being
\* executed behind its back.
THEOREM SerialQuiet == Apart => (Spec => []StoppedIsQuiet)
<1>1. BaseInv /\ SerialInv => StoppedIsQuiet
  BY DEF BaseInv, EngineTypeOK, ProcHolds, SerialInv, Abreast, Working, StoppedIsQuiet
<1> QED
  BY <1>1, Base, Serial, PTL

\* Under the same condition: no step of a run is recorded twice.  (Without it the code
\* records one twice: run DoubleResume.)
THEOREM SerialNoRepeat == Apart => (Spec => []NoStepRunsTwice)
<1>1. BaseInv /\ SerialInv => NoStepRunsTwice
  <2> SUFFICES ASSUME BaseInv, SerialInv, NEW r \in Run,
                      NEW j \in DOMAIN rows[r], NEW k \in DOMAIN rows[r], j # k
               PROVE  rows[r][j].index # rows[r][k].index
    BY DEF NoStepRunsTwice, RowAt
  <2>1. rows[r] \in Seq(StepRow)
    BY DEF BaseInv, EngineTypeOK
  <2>2. j \in Nat /\ k \in Nat
    BY <2>1
  <2>3. rows[r][j].index = j - 1 /\ rows[r][k].index = k - 1
    BY DEF SerialInv, Coherent, Ordered
  <2> QED
    BY <2>2, <2>3
<1> QED
  BY <1>1, Base, Serial, PTL

\* Under the same condition: COMPLETED and FAILED are final.
THEOREM SerialTerminalFinal == Apart => (Spec => TerminalIsFinal)
<1> DEFINE Final == \A r \in Run : runs[r].status \in {"completed", "failed"} => runs'[r] = runs[r]
<1>1. ASSUME BaseInv, SerialInv, [Next]_vars
      PROVE  [Final]_runs
  <2> SUFFICES ASSUME NEW r \in Run, runs[r].status \in {"completed", "failed"}
               PROVE  runs'[r] = runs[r]
    OBVIOUS
  <2>1. EngineTypeOK
    BY <1>1 DEF BaseInv
  <2>2. ASSUME NEW p \in Process, proc[p].pc \in {"step", "escalate", "resume_set"}
        PROVE  proc[p].run # r
    BY <1>1, <2>2 DEF SerialInv, Working, Abreast
  <2>3. ASSUME NEW h \in Handler, NEW u \in User, NEW x \in Run, NEW async \in BOOLEAN,
               StartRun(h, u, x, async)
        PROVE  runs'[r] = runs[r]
    BY <2>1, <2>3 DEF StartRun, EngineTypeOK
  <2>4. ASSUME NEW p \in Process, StepFails(p) \/ CommitEscalation(p) \/ Complete(p)
                                  \/ ResumeSetRunning(p)
        PROVE  runs'[r] = runs[r]
    <3>1. proc[p].run # r
      BY <2>2, <2>4 DEF StepFails, CommitEscalation, Complete, ResumeSetRunning, AtStep
    <3> QED
      BY <2>1, <2>4, <3>1 DEF StepFails, CommitEscalation, Complete, ResumeSetRunning, EngineTypeOK
  <2>5. ASSUME UNCHANGED runs PROVE runs'[r] = runs[r]
    BY <2>5
  <2>6. ASSUME NEW p \in Process, ProcessStep(p) \/ Abort(p)
        PROVE  runs'[r] = runs[r]
    BY <2>4, <2>5, <2>6
       DEF ProcessStep, Enqueue, StepClean, StepEscalates, EscalationLosesContext, AuditRun,
           ResumeReadApproval, ResumeReadSteps, ResumeRefused, Abort
  <2>7. CASE EngineStep
    BY <2>3, <2>5, <2>6, <2>7 DEF EngineStep, ResumeReadRun, WorkerTake
  <2> QED
    BY <1>1, <2>5, <2>7, NextSplit DEF vars, engineVars
<1> QED
  BY <1>1, Base, Serial, PTL DEF Spec, TerminalIsFinal

--------------------------------------------------------------------------------
(* Nothing happens past a step that waits for a signature *)

(***************************************************************************)
(* NoStepPastUnsigned speaks of rows.  What carries it: while no owner has *)
(* granted a request, its run stands still at the step that raised it; the *)
(* only process that may still move it is the one that is recording that   *)
(* very escalation.                                                        *)
(***************************************************************************)
Unsigned(a) == approvals[a].run # NoRun /\ ~Granted(happened, a)

\* Run r stands still at the step request a is about.
StandsAt(a, r) ==
  /\ runs[r].status # "absent"
  /\ Len(rows[r]) <= approvals[a].step + 1
  /\ runs[r].status = "escalated" => runs[r].pending = a
  /\ Unqueued(r)
  /\ \A p \in Process : proc[p].run = r =>
       /\ proc[p].pc \notin {"enqueue", "step"}
       /\ proc[p].pc = "escalate" => proc[p].pending = a

SignedInv == \A a \in Approval : Unsigned(a) => StandsAt(a, approvals[a].run)

\* A process acts on a run all of whose requests have been granted.
LEMMA SignedFree ==
  ASSUME BaseInv, SignedInv, UNCHANGED approvals, happened \subseteq happened',
         NEW p \in Process, NEW new, NEW r \in Run, proc' = [proc EXCEPT ![p] = new],
         new.run = r \/ new.run = NoRun,
         \A x \in Run : x # r => runs'[x] = runs[x] /\ rows'[x] = rows[x],
         \A t \in queue' : t \in queue \/ t.run = r,
         \A a \in Approval : approvals[a].run = r => ~Unsigned(a)
  PROVE  SignedInv'
<1>1. proc'[p] = new /\ \A q \in Process : q # p => proc'[q] = proc[q]
  BY DEF BaseInv, EngineTypeOK
<1> SUFFICES ASSUME NEW a \in Approval, approvals[a].run # NoRun, ~Granted(happened', a)
             PROVE  StandsAt(a, approvals[a].run)'
  BY DEF SignedInv, Unsigned
<1>2. Unsigned(a)
  BY DEF Unsigned, Granted
<1>3. approvals[a].run \in Run /\ approvals[a].run # r /\ approvals[a].run # NoRun
  BY <1>2 DEF BaseInv, ApprovalsInv, ApprovalsTypeOK, ApprovalRow
<1>4. StandsAt(a, approvals[a].run)
  BY <1>2 DEF SignedInv
<1> QED
  BY <1>1, <1>3, <1>4 DEF StandsAt, Unqueued

\* A process stops, or goes on reading before a resume.
LEMMA SignedStill ==
  ASSUME BaseInv, SignedInv, UNCHANGED <<approvals, runs, rows>>, happened \subseteq happened',
         queue' \subseteq queue, NEW p \in Process, NEW new, proc' = [proc EXCEPT ![p] = new],
         new.pc \notin {"enqueue", "step", "escalate"}
  PROVE  SignedInv'
<1>1. proc'[p] = new /\ \A q \in Process : q # p => proc'[q] = proc[q]
  BY DEF BaseInv, EngineTypeOK
<1> SUFFICES ASSUME NEW a \in Approval, approvals[a].run # NoRun, ~Granted(happened', a)
             PROVE  StandsAt(a, approvals[a].run)'
  BY DEF SignedInv, Unsigned
<1>2. Unsigned(a)
  BY DEF Unsigned, Granted
<1>3. StandsAt(a, approvals[a].run)
  BY <1>2 DEF SignedInv
<1> QED
  BY <1>1, <1>3 DEF StandsAt, Unqueued

\* A process executing steps has no unsigned request behind it.
LEMMA ExecutesSigned ==
  ASSUME SignedInv, NEW p \in Process, proc[p].pc \in {"enqueue", "step"},
         NEW a \in Approval, approvals[a].run = proc[p].run
  PROVE  ~Unsigned(a)
BY DEF SignedInv, StandsAt

LEMMA SignedStep ==
  ASSUME BaseInv, TicketInv, FreshInv, SerialInv, SignedInv, EngineStep
  PROVE  SignedInv'
<1>1. EngineTypeOK /\ ApprovalsTypeOK
  BY DEF BaseInv, ApprovalsInv
<1>2. IdleProc.pc = "idle" /\ IdleProc.run = NoRun
  BY DEF IdleProc, Request
<1>3. ASSUME NEW p \in Process, proc[p].pc \notin {"idle", "audit"}
      PROVE  /\ proc[p] \in ProcState /\ proc[p].run \in Run
             /\ Abreast(proc[p], runs[proc[p].run], rows[proc[p].run])
             /\ \A q \in Process : q # p /\ proc[q].run = proc[p].run => ~Working(proc[q])
  BY <1>1, <1>3 DEF EngineTypeOK, ProcHolds, Working, SerialInv, OneAtATime
<1>4. ASSUME NEW h \in Handler, NEW u \in User, NEW r \in Run, NEW async \in BOOLEAN,
             StartRun(h, u, r, async)
      PROVE  SignedInv'
  <2> DEFINE new == Request(IF async THEN "enqueue" ELSE "step", r, u, NoApproval)
  <2>1. new.run = r
    BY DEF Request
  <2>2. /\ proc' = [proc EXCEPT ![h] = new] /\ h \in Process
        /\ runs' = [runs EXCEPT ![r] = [status |-> "running", pending |-> NoApproval]]
        /\ UNCHANGED <<approvals, happened, rows, queue>> /\ runs[r].status = "absent"
    BY <1>4 DEF StartRun, Process, approvalVars
  <2> HIDE DEF new
  <2>3. \A x \in Run : x # r => runs'[x] = runs[x] /\ rows'[x] = rows[x]
    BY <1>1, <2>2 DEF EngineTypeOK
  <2>4. \A a \in Approval : approvals[a].run = r => ~Unsigned(a)
    BY <2>2 DEF SignedInv, StandsAt
  <2> QED
    BY <2>1, <2>2, <2>3, <2>4, SignedFree
<1>5. ASSUME NEW h \in Handler, NEW u \in User, NEW r \in Run, ResumeReadRun(h, u, r)
      PROVE  SignedInv'
  <2> DEFINE new == Request("resume_approval", r, u, runs[r].pending)
  <2>1. new.pc = "resume_approval"
    BY DEF Request
  <2>2. /\ proc' = [proc EXCEPT ![h] = new] /\ h \in Process
        /\ UNCHANGED <<approvals, happened, runs, rows, queue>>
    BY <1>5 DEF ResumeReadRun, Process, approvalVars
  <2> HIDE DEF new
  <2> QED
    BY <2>1, <2>2, SignedStill
<1>6. ASSUME NEW w \in Worker, NEW t \in queue, WorkerTake(w, t)
      PROVE  SignedInv'
  <2> DEFINE r == t.run
             new == Request("step", r, t.user, NoApproval)
  <2>1. r \in Run
    BY <1>1 DEF EngineTypeOK, Task
  <2>2. new.run = r
    BY DEF Request
  <2>3. /\ proc' = [proc EXCEPT ![w] = new] /\ w \in Process
        /\ UNCHANGED <<approvals, happened, runs, rows>> /\ queue' \subseteq queue
    BY <1>6 DEF WorkerTake, Process, approvalVars
  <2>4. \A a \in Approval : approvals[a].run = r => ~Unsigned(a)
    BY DEF SignedInv, StandsAt, Unqueued
  <2> HIDE DEF new, r
  <2> QED
    BY <2>1, <2>2, <2>3, <2>4, SignedFree
<1>7. ASSUME NEW p \in Process, Enqueue(p)
      PROVE  SignedInv'
  <2> DEFINE r == proc[p].run
             task == [run |-> r, user |-> proc[p].user]
  <2>1. /\ proc[p].pc = "enqueue" /\ UNCHANGED <<approvals, happened, runs, rows>>
        /\ proc' = [proc EXCEPT ![p] = IdleProc] /\ queue' = queue \cup {task}
    BY <1>7 DEF Enqueue, approvalVars
  <2>2. r \in Run /\ task.run = r
    BY <1>3, <2>1
  <2>3. \A a \in Approval : approvals[a].run = r => ~Unsigned(a)
    BY <2>1, ExecutesSigned
  <2> HIDE DEF task, r
  <2> QED
    BY <1>2, <2>1, <2>2, <2>3, SignedFree
<1>8. ASSUME NEW p \in Process, \/ EscalationLosesContext(p) \/ AuditRun(p)
                               \/ ResumeRefused(p) \/ Abort(p)
      PROVE  SignedInv'
  <2>1. /\ proc' = [proc EXCEPT ![p] = IdleProc]
        /\ UNCHANGED <<approvals, happened, runs, rows, queue>>
    BY <1>8 DEF EscalationLosesContext, AuditRun, ResumeRefused, Abort, approvalVars
  <2> QED
    BY <1>2, <2>1, SignedStill
\* Steps of an execution other than an escalation.
<1>9. ASSUME NEW p \in Process, StepClean(p) \/ StepFails(p) \/ Complete(p)
      PROVE  SignedInv'
  <2> DEFINE r == proc[p].run
  <2>1. /\ proc[p].pc = "step" /\ UNCHANGED <<approvals, queue>> /\ happened \subseteq happened'
    BY <1>9 DEF StepClean, StepFails, Complete, AtStep, ThenAudit, approvalVars
  <2>2. proc[p] \in ProcState /\ r \in Run
    BY <1>3, <2>1
  <2>3. PICK new : proc' = [proc EXCEPT ![p] = new] /\ new.run = r
    <3>1. CASE StepClean(p)
      <4> DEFINE new == [proc[p] EXCEPT !.index = proc[p].index + 1, !.base = proc[p].index]
      <4>1. proc' = [proc EXCEPT ![p] = new]
        BY <3>1 DEF StepClean
      <4>2. new.run = r
        BY <2>2 DEF ProcState
      <4> QED
        BY <4>1, <4>2
    <3>2. ASSUME NEW verb, ThenAudit(p, verb)
          PROVE  \E new : proc' = [proc EXCEPT ![p] = new] /\ new.run = r
      <4> DEFINE new == [proc[p] EXCEPT !.pc = "audit", !.verb = verb]
      <4>1. proc' = [proc EXCEPT ![p] = new]
        BY <3>2 DEF ThenAudit
      <4>2. new.run = r
        BY <2>2 DEF ProcState
      <4> QED
        BY <4>1, <4>2
    <3> QED
      BY <1>9, <3>1, <3>2 DEF StepFails, Complete
  <2>4. \A x \in Run : x # r => rows'[x] = rows[x]
    BY <1>1, <1>9, <2>2 DEF StepClean, StepFails, Complete, AddRow, EngineTypeOK
  <2>5. \A x \in Run : x # r => runs'[x] = runs[x]
    BY <1>1, <1>9, <2>2 DEF StepClean, StepFails, Complete, EngineTypeOK
  <2>6. \A a \in Approval : approvals[a].run = r => ~Unsigned(a)
    BY <2>1, ExecutesSigned
  <2> QED
    BY <2>1, <2>2, <2>3, <2>4, <2>5, <2>6, SignedFree
<1>10. ASSUME NEW p \in Process, NEW a \in Approval, StepEscalates(p, a)
       PROVE  SignedInv'
  <2> DEFINE r == proc[p].run
             new == [proc[p] EXCEPT !.pc = "escalate", !.pending = a]
  <2>1. /\ proc[p].pc = "step" /\ UNCHANGED <<happened, runs, rows, queue>>
        /\ proc' = [proc EXCEPT ![p] = new] /\ CreateApproval(a, r, proc[p].index)
    BY <1>10 DEF StepEscalates, AtStep
  <2>2. /\ proc[p] \in ProcState /\ r \in Run
        /\ Abreast(proc[p], runs[r], rows[r])
        /\ \A q \in Process : q # p /\ proc[q].run = r => ~Working(proc[q])
    BY <1>3, <2>1
  <2>3. new.pc = "escalate" /\ new.run = r /\ new.pending = a
    BY <2>2 DEF ProcState
  <2> HIDE DEF new
  <2>4. proc'[p] = new /\ \A q \in Process : q # p => proc'[q] = proc[q]
    BY <1>1, <2>1 DEF EngineTypeOK
  <2>5. /\ approvals'[a].run = r /\ approvals'[a].step = proc[p].index
        /\ \A b \in Approval : b # a => approvals'[b] = approvals[b]
    BY <1>1, <2>1 DEF CreateApproval, ApprovalsTypeOK
  <2>6. StandsAt(a, approvals[a].run)'
    <3>1. runs[r].status = "running" /\ proc[p].index = Len(rows[r])
      BY <2>1, <2>2 DEF Abreast, Bound
    <3>2. Len(rows[r]) \in Nat
      BY <1>1, <2>2 DEF EngineTypeOK
    <3>3. Unqueued(r)
      BY DEF FreshInv, TasksFresh, Unqueued
    <3>4. ASSUME NEW q \in Process, proc'[q].run = r
          PROVE  /\ proc'[q].pc \notin {"enqueue", "step"}
                 /\ proc'[q].pc = "escalate" => proc'[q].pending = a
      <4>1. CASE q = p
        BY <2>3, <2>4, <4>1
      <4>2. CASE q # p
        BY <2>2, <2>4, <3>4, <4>2 DEF Working
      <4> QED
        BY <4>1, <4>2
    <3> QED
      BY <2>1, <2>5, <3>1, <3>2, <3>3, <3>4 DEF StandsAt, Unqueued
  <2>7. ASSUME NEW b \in Approval, b # a, Unsigned(b)'
        PROVE  StandsAt(b, approvals[b].run)'
    <3>1. Unsigned(b)
      BY <2>1, <2>5, <2>7 DEF Unsigned
    <3>2. StandsAt(b, approvals[b].run) /\ approvals[b].run # r
      BY <2>1, <3>1, ExecutesSigned DEF SignedInv
    <3> QED
      BY <2>1, <2>3, <2>4, <2>5, <2>7, <3>2 DEF StandsAt, Unqueued
  <2> QED
    BY <2>5, <2>6, <2>7 DEF SignedInv
<1>11. ASSUME NEW p \in Process, CommitEscalation(p)
       PROVE  SignedInv'
  <2> DEFINE r == proc[p].run
             new == [proc[p] EXCEPT !.pc = "audit", !.verb = "workflow.escalated"]
  <2>1. /\ proc[p].pc = "escalate" /\ UNCHANGED <<approvals, queue>> /\ happened \subseteq happened'
        /\ proc' = [proc EXCEPT ![p] = new]
        /\ runs' = [runs EXCEPT ![r] = [status |-> "escalated", pending |-> proc[p].pending]]
    BY <1>11 DEF CommitEscalation, ThenAudit
  <2>2. /\ proc[p] \in ProcState /\ r \in Run
        /\ \A q \in Process : q # p /\ proc[q].run = r => ~Working(proc[q])
    BY <1>3, <2>1
  <2>3. new.pc = "audit" /\ new.run = r
    BY <2>2 DEF ProcState
  <2> HIDE DEF new
  <2>4. proc'[p] = new /\ \A q \in Process : q # p => proc'[q] = proc[q]
    BY <1>1, <2>1 DEF EngineTypeOK
  <2>5. /\ runs'[r] = [status |-> "escalated", pending |-> proc[p].pending]
        /\ \A x \in Run : x # r => runs'[x] = runs[x]
    BY <1>1, <2>1, <2>2 DEF EngineTypeOK
  <2>6. PICK status, escalated : AddRow(p, status, escalated)
    BY <1>11 DEF CommitEscalation
  <2>7. /\ Len(rows[r]) \in Nat /\ proc[p].index = Len(rows[r]) /\ Len(rows'[r]) = Len(rows[r]) + 1
        /\ \A x \in Run : x # r => rows'[x] = rows[x]
    BY <1>1, <2>1, <2>6, SerialRow
  <2>8. approvals[proc[p].pending].step = proc[p].index
    BY <2>1 DEF TicketInv, Ticketed
  <2> SUFFICES ASSUME NEW a \in Approval, Unsigned(a)'
               PROVE  StandsAt(a, approvals[a].run)'
    BY <2>1 DEF SignedInv
  <2>9. Unsigned(a) /\ StandsAt(a, approvals[a].run)
    BY <2>1 DEF Unsigned, Granted, SignedInv
  <2>10. CASE approvals[a].run = r
    <3>1. proc[p].pending = a
      BY <2>1, <2>9, <2>10 DEF StandsAt
    <3>2. \A t \in queue' : t.run # r
      BY <2>1, <2>9, <2>10 DEF StandsAt, Unqueued
    <3>3. ASSUME NEW q \in Process, proc'[q].run = r
          PROVE  proc'[q].pc \notin {"enqueue", "step", "escalate"}
      BY <2>2, <2>3, <2>4, <3>3 DEF Working
    <3>4. Len(rows'[r]) <= approvals[a].step + 1
      BY <2>7, <2>8, <3>1
    <3> QED
      BY <2>1, <2>5, <2>10, <3>1, <3>2, <3>3, <3>4 DEF StandsAt, Unqueued
  <2>11. CASE approvals[a].run # r
    <3>1. approvals[a].run \in Run
      BY <1>1, <2>9 DEF Unsigned, ApprovalsTypeOK, ApprovalRow
    <3> QED
      BY <2>1, <2>3, <2>4, <2>5, <2>7, <2>9, <2>11, <3>1 DEF StandsAt, Unqueued
  <2> QED
    BY <2>10, <2>11
<1>12. ASSUME NEW p \in Process, ResumeReadApproval(p)
       PROVE  SignedInv'
  <2> DEFINE a == proc[p].pending
             new == IF SignedOff(a)
                    THEN [proc[p] EXCEPT !.pc = "resume_steps", !.ticket = a, !.pending = NoApproval]
                    ELSE IdleProc
  <2>1. /\ proc[p].pc = "resume_approval" /\ UNCHANGED <<approvals, happened, runs, rows, queue>>
        /\ proc' = [proc EXCEPT ![p] = new]
    BY <1>12 DEF ResumeReadApproval, approvalVars
  <2>2. new.pc \in {"resume_steps", "idle"}
    BY <1>2, <1>3, <2>1 DEF ProcState
  <2> HIDE DEF new
  <2> QED
    BY <2>1, <2>2, SignedStill
<1>13. ASSUME NEW p \in Process, ResumeReadSteps(p)
       PROVE  SignedInv'
  <2> DEFINE n == Len(rows[proc[p].run])
  <2>1. PICK base \in PreviousOutput(proc[p].run) :
          proc' = [proc EXCEPT ![p] =
                     [@ EXCEPT !.pc = "resume_set", !.index = n, !.base = base]]
    BY <1>13 DEF ResumeReadSteps
  <2> DEFINE new == [proc[p] EXCEPT !.pc = "resume_set", !.index = n, !.base = base]
  <2>2. /\ proc[p].pc = "resume_steps" /\ UNCHANGED <<approvals, happened, runs, rows, queue>>
        /\ proc' = [proc EXCEPT ![p] = new]
    BY <1>13, <2>1 DEF ResumeReadSteps, approvalVars
  <2>3. new.pc = "resume_set"
    BY <1>3, <2>2 DEF ProcState
  <2> HIDE DEF new
  <2> QED
    BY <2>2, <2>3, SignedStill
\* The run awaits the very request whose approval the resume relies on.
<1>14. ASSUME NEW p \in Process, ResumeSetRunning(p)
       PROVE  SignedInv'
  <2> DEFINE r == proc[p].run
             new == [proc[p] EXCEPT !.pc = "step"]
  <2>1. /\ proc[p].pc = "resume_set" /\ UNCHANGED <<approvals, happened, rows, queue>>
        /\ proc' = [proc EXCEPT ![p] = new]
    BY <1>14 DEF ResumeSetRunning, approvalVars
  <2>2. proc[p] \in ProcState /\ r \in Run /\ Abreast(proc[p], runs[r], rows[r])
    BY <1>3, <2>1
  <2>3. new.run = r
    BY <2>2 DEF ProcState
  <2>4. \A x \in Run : x # r => runs'[x] = runs[x]
    BY <1>1, <1>14, <2>2 DEF ResumeSetRunning, EngineTypeOK
  <2> HIDE DEF new
  <2>5. runs[r].status = "escalated" /\ proc[p].ticket = runs[r].pending
    BY <2>1, <2>2 DEF Abreast
  <2>6. Granted(happened, proc[p].ticket)
    BY <2>1 DEF TicketInv, Ticketed, Bound, FreshInv, ResumesHoldTicket
  <2>7. \A a \in Approval : approvals[a].run = r => ~Unsigned(a)
    BY <2>5, <2>6 DEF SignedInv, StandsAt, Unsigned
  <2> HIDE DEF r
  <2> QED
    BY <2>1, <2>2, <2>3, <2>4, <2>7, SignedFree
<1> QED
  BY <1>4, <1>5, <1>6, <1>7, <1>8, <1>9, <1>10, <1>11, <1>12, <1>13, <1>14
     DEF EngineStep, ProcessStep

\* Requests made or decided by people: none of them belongs to a run that was not
\* theirs before.
LEMMA SignedQueueStep ==
  ASSUME BaseInv, SignedInv, [ApprovalsNext]_approvalVars, UNCHANGED engineVars
  PROVE  SignedInv'
<1>1. ApprovalsTypeOK
  BY DEF BaseInv, ApprovalsInv
<1>2. happened \subseteq happened'
  BY QueueKeeps DEF Stable
<1>3. ASSUME NEW a \in Approval, approvals'[a].run # NoRun
      PROVE  approvals'[a].run = approvals[a].run /\ approvals'[a].step = approvals[a].step
  <2>1. ASSUME NEW c \in Clerk, NEW u \in User, NEW b \in Approval, CreateRequest(c, u, b)
        PROVE  approvals'[a] = approvals[a]
    BY <1>1, <1>3, <2>1 DEF CreateRequest, CreateApproval, ApprovalsTypeOK
  <2>2. ASSUME NEW c \in Clerk, DecideWrite(c)
        PROVE  approvals'[a].run = approvals[a].run /\ approvals'[a].step = approvals[a].step
    <3> DEFINE b == clerk[c].approval
               row == [approvals[b] EXCEPT !.status = clerk[c].verb, !.decidedBy = clerk[c].user]
    <3>1. b \in Approval /\ approvals[b] \in ApprovalRow
      BY <1>1, <2>2 DEF ApprovalsTypeOK, ClerkHolds, DecideWrite
    <3>2. row.run = approvals[b].run /\ row.step = approvals[b].step
      BY <3>1 DEF ApprovalRow
    <3>3. approvals' = [approvals EXCEPT ![b] = row]
      BY <2>2 DEF DecideWrite
    <3> HIDE DEF row
    <3> QED
      BY <1>1, <3>1, <3>2, <3>3 DEF ApprovalsTypeOK
  <2>3. CASE UNCHANGED approvals
    BY <2>3
  <2> QED
    BY <2>1, <2>2, <2>3 DEF ApprovalsNext, DecideRead, ClerkAudit, ClerkAbort, approvalVars
<1> SUFFICES ASSUME NEW a \in Approval, Unsigned(a)'
             PROVE  StandsAt(a, approvals[a].run)'
  BY DEF SignedInv
<1>4. approvals'[a].run = approvals[a].run /\ approvals'[a].step = approvals[a].step
  BY <1>3 DEF Unsigned
<1>5. StandsAt(a, approvals[a].run)
  BY <1>2, <1>4 DEF SignedInv, Unsigned, Granted
<1> QED
  BY <1>4, <1>5 DEF StandsAt, Unqueued, engineVars

LEMMA Signed == Apart => (Spec => []SignedInv)
<1> SUFFICES ASSUME Apart PROVE Spec => []SignedInv
  OBVIOUS
<1>1. Init => SignedInv
  BY DEF Init, ApprovalsInit, SignedInv, Unsigned, Absent
<1>2. ASSUME BaseInv, TicketInv, FreshInv, SerialInv, SignedInv, [Next]_vars
      PROVE  SignedInv'
  <2>1. CASE EngineStep
    BY <1>2, <2>1, SignedStep
  <2>2. CASE [ApprovalsNext]_approvalVars /\ UNCHANGED engineVars
    BY <1>2, <2>2, SignedQueueStep
  <2> QED
    BY <1>2, <2>1, <2>2, NextSplit DEF vars
<1> QED
  BY <1>1, <1>2, Base, Tickets, FreshRuns, Serial, PTL DEF Spec

\* As long as nobody resumes a run that is being executed (and on PostgreSQL
\* always): once a step has raised a request, no later step of its run is recorded
\* until an owner has granted that request.
THEOREM UnsignedStops == Apart => (Spec => []NoStepPastUnsigned)
<1>1. ASSUME BaseInv, SerialInv, SignedInv
      PROVE  NoStepPastUnsigned
  <2> SUFFICES ASSUME NEW a \in Approval, approvals[a].run # NoRun, ~EverDecided(a, "approved"),
                      NEW k \in DOMAIN rows[approvals[a].run]
               PROVE  rows[approvals[a].run][k].index <= approvals[a].step
    BY DEF NoStepPastUnsigned, RowAt
  <2> DEFINE r == approvals[a].run
  <2>1. r \in Run /\ approvals[a].step \in Nat /\ rows[r] \in Seq(StepRow)
    BY <1>1 DEF BaseInv, EngineTypeOK, ApprovalsInv, ApprovalsTypeOK, ApprovalRow
  <2>2. Len(rows[r]) <= approvals[a].step + 1
    BY <1>1 DEF SignedInv, StandsAt, Unsigned, Granted, EverDecided
  <2>3. rows[r][k].index = k - 1
    BY <1>1, <2>1 DEF SerialInv, Coherent, Ordered
  <2> QED
    BY <2>1, <2>2, <2>3
<1> QED
  BY <1>1, Base, Serial, Signed, PTL

--------------------------------------------------------------------------------
(* Decisions stand *)

\* While decisions do not overlap, a request an owner once granted is approved for good.
GrantStands ==
  Serialised => \A a \in Approval : Granted(happened, a) => approvals[a].status = "approved"

DecisionInv == WritersExclude /\ GrantStands

\* The engine touches no request but to create it, decides none and moves no clerk.
LEMMA EngineLeavesDecisions ==
  ASSUME BaseInv, EngineStep
  PROVE  /\ UNCHANGED clerk
         /\ \A a \in Approval : approvals[a].status # "absent" => approvals'[a] = approvals[a]
         /\ \A a \in Approval : Granted(happened', a) => Granted(happened, a)
<1> DEFINE Left == /\ UNCHANGED clerk
                   /\ \A a \in Approval :
                        approvals[a].status # "absent" => approvals'[a] = approvals[a]
                   /\ \A a \in Approval : Granted(happened', a) => Granted(happened, a)
<1>1. ASSUME UNCHANGED <<clerk, approvals, happened>>
      PROVE  Left
  BY <1>1
<1>2. ASSUME NEW p \in Process, NEW a \in Approval, StepEscalates(p, a)
      PROVE  Left
  <2>1. UNCHANGED <<clerk, happened>> /\ CreateApproval(a, proc[p].run, proc[p].index)
    BY <1>2 DEF StepEscalates
  <2>2. ApprovalsTypeOK
    BY DEF BaseInv, ApprovalsInv
  <2>3. \A b \in Approval : approvals[b].status # "absent" => approvals'[b] = approvals[b]
    BY <2>1, <2>2 DEF CreateApproval, ApprovalsTypeOK
  <2> QED
    BY <2>1, <2>3
<1>3. ASSUME NEW p \in Process, NEW verb \in WorkflowVerb, ThenAudit(p, verb), UNCHANGED approvals
      PROVE  Left
  <2>1. verb # "approved"
    BY DEF WorkflowVerb
  <2>2. \A a, u : Entry("approved", a, u) # Entry(verb, proc[p].run, proc[p].user)
    BY <2>1, EntryEqual
  <2> QED
    BY <1>3, <2>2 DEF ThenAudit, Granted
<1> HIDE DEF Left
<1>4. ASSUME NEW p \in Process, StepFails(p) \/ CommitEscalation(p) \/ Complete(p)
      PROVE  Left
  BY <1>3, <1>4 DEF StepFails, CommitEscalation, Complete, WorkflowVerb
<1>5. ASSUME NEW p \in Process, ProcessStep(p) \/ Abort(p)
      PROVE  Left
  BY <1>1, <1>2, <1>4, <1>5
     DEF ProcessStep, Enqueue, StepClean, EscalationLosesContext, AuditRun, ResumeReadApproval,
         ResumeReadSteps, ResumeRefused, ResumeSetRunning, Abort, approvalVars
<1>6. Left
  BY <1>1, <1>5 DEF EngineStep, StartRun, ResumeReadRun, WorkerTake, approvalVars
<1> QED
  BY <1>6 DEF Left

LEMMA GrantStandsStep ==
  ASSUME ApprovalsTypeOK, VerdictsAccounted, WritersExclude, GrantStands, ApprovalsNext
  PROVE  GrantStands'
<1> SUFFICES ASSUME Serialised, NEW a \in Approval, Granted(happened', a)
             PROVE  approvals'[a].status = "approved"
  BY DEF GrantStands
<1>1. ASSUME NEW c \in Clerk, NEW u \in User, NEW b \in Approval, CreateRequest(c, u, b)
      PROVE  approvals'[a].status = "approved"
  <2>1. \A w : Entry("approved", a, w) # Entry("created", b, u)
    BY EntryEqual
  <2>2. Granted(happened, a)
    BY <1>1, <2>1 DEF CreateRequest, Granted
  <2>3. approvals[a].status = "approved"
    BY <2>2 DEF GrantStands
  <2>4. approvals'[a] = approvals[a]
    BY <1>1, <2>3 DEF CreateRequest, CreateApproval, ApprovalsTypeOK
  <2> QED
    BY <2>3, <2>4
<1>2. ASSUME NEW c \in Clerk, DecideWrite(c)
      PROVE  approvals'[a].status = "approved"
  <2> DEFINE b == clerk[c].approval  d == clerk[c].verb  u == clerk[c].user
             row == [approvals[b] EXCEPT !.status = d, !.decidedBy = u]
  <2>1. /\ b \in Approval /\ d \in Decision /\ u \in Owner
        /\ approvals[b].status = "pending" /\ approvals[b] \in ApprovalRow
    BY <1>2 DEF DecideWrite, ApprovalsTypeOK, ClerkHolds, WritersExclude
  <2>2. row.status = d
    BY <2>1 DEF ApprovalRow
  <2>3. approvals' = [approvals EXCEPT ![b] = row] /\ happened' = happened \cup {Entry(d, b, u)}
    BY <1>2 DEF DecideWrite
  <2> HIDE DEF row, b, d, u
  <2>4. approvals'[b] = row /\ \A x \in Approval : x # b => approvals'[x] = approvals[x]
    BY <2>1, <2>3 DEF ApprovalsTypeOK
  <2>5. CASE a = b
    <3>1. ~Granted(happened, b)
      BY <2>1, ConstantsAssumption DEF VerdictsAccounted, Granted, Decision
    <3>2. d = "approved"
      BY <2>3, <2>5, <3>1, EntryEqual DEF Granted
    <3> QED
      BY <2>2, <2>4, <2>5, <3>2
  <2>6. CASE a # b
    <3>1. Granted(happened, a)
      BY <2>3, <2>6, EntryEqual DEF Granted
    <3> QED
      BY <2>4, <2>6, <3>1 DEF GrantStands
  <2> QED
    BY <2>5, <2>6
<1>3. CASE UNCHANGED <<approvals, happened>>
  BY <1>3 DEF GrantStands
<1> QED
  BY <1>1, <1>2, <1>3 DEF ApprovalsNext, DecideRead, ClerkAudit, ClerkAbort

LEMMA Decisions == Spec => []DecisionInv
<1>1. Init => DecisionInv
  BY DEF Init, ApprovalsInit, DecisionInv, WritersExclude, GrantStands, Granted, IdleClerk
<1>2. ASSUME BaseInv, DecisionInv, [Next]_vars
      PROVE  DecisionInv'
  <2>1. ApprovalsTypeOK /\ VerdictsAccounted
    BY <1>2 DEF BaseInv, ApprovalsInv
  <2>2. CASE EngineStep
    <3>1. /\ UNCHANGED clerk
          /\ \A a \in Approval : approvals[a].status # "absent" => approvals'[a] = approvals[a]
          /\ \A a \in Approval : Granted(happened', a) => Granted(happened, a)
      BY <1>2, <2>2, EngineLeavesDecisions
    <3>2. \A c \in Clerk : clerk[c].pc = "write" => clerk[c].approval \in Approval
      BY <2>1 DEF ApprovalsTypeOK, ClerkHolds
    <3> QED
      BY <1>2, <3>1, <3>2 DEF DecisionInv, WritersExclude, GrantStands
  <2>3. CASE ApprovalsNext
    BY <1>2, <2>1, <2>3, WritersExcludeStep, GrantStandsStep DEF DecisionInv
  <2>4. CASE UNCHANGED approvalVars
    BY <1>2, <2>4 DEF approvalVars, DecisionInv, WritersExclude, GrantStands
  <2> QED
    BY <1>2, <2>2, <2>3, <2>4, NextSplit DEF vars
<1> QED
  BY <1>1, <1>2, Base, PTL DEF Spec

\* With workflows running beside the queue: as long as owners do not decide the same
\* request at the same time, a decision is final.  (Without that the code does not
\* keep it: run ApprovalsOverwritten.)
THEOREM EngineDecisionsFinal == Serialised => (Spec => DecisionIsFinal)
<1> DEFINE Final == \A a \in Approval : approvals[a].status \in Decision => approvals'[a] = approvals[a]
<1> SUFFICES ASSUME Serialised PROVE Spec => DecisionIsFinal
  OBVIOUS
<1>1. ASSUME BaseInv, DecisionInv, [Next]_vars
      PROVE  [Final]_approvals
  <2> SUFFICES ASSUME NEW a \in Approval, approvals[a].status \in Decision
               PROVE  approvals'[a] = approvals[a]
    OBVIOUS
  <2>1. approvals[a].status \notin {"absent", "pending"}
    BY DEF Decision
  <2>2. CASE EngineStep
    BY <1>1, <2>1, <2>2, EngineLeavesDecisions
  <2>3. ASSUME NEW c \in Clerk, NEW u \in User, NEW b \in Approval, CreateRequest(c, u, b)
        PROVE  approvals'[a] = approvals[a]
    BY <2>1, <2>3 DEF CreateRequest, CreateApproval
  <2>4. ASSUME NEW c \in Clerk, DecideWrite(c)
        PROVE  approvals'[a] = approvals[a]
    BY <1>1, <2>1, <2>4 DEF DecideWrite, DecisionInv, WritersExclude
  <2>5. ASSUME UNCHANGED approvals PROVE approvals'[a] = approvals[a]
    BY <2>5
  <2>6. CASE ApprovalsNext
    BY <2>3, <2>4, <2>5, <2>6 DEF ApprovalsNext, DecideRead, ClerkAudit, ClerkAbort
  <2> QED
    BY <1>1, <2>2, <2>5, <2>6, NextSplit DEF vars, approvalVars
<1> QED
  BY <1>1, Base, Decisions, PTL DEF Spec, DecisionIsFinal

--------------------------------------------------------------------------------
(* The engine implements the escalation gate *)

(***************************************************************************)
(* The four variables of EscalationGate, as WorkflowRefinement maps them.  *)
(* The proof maps every step of the engine: StartRun starts, StepClean     *)
(* advances, StepFails fails, CommitEscalation escalates, Complete         *)
(* finishes and ResumeSetRunning resumes a run of the gate; DecideWrite    *)
(* decides, if a run names the request; everything else is a stutter.      *)
(***************************************************************************)
Phases == [r \in Run |-> runs[r].status]
Dones  == [r \in Run |-> Len(rows[r])]
Flags  == [r \in Run |-> Cardinality(Flagged(r))]
Gates  == [r \in Run |-> GateOf(r)]

\* A row counts as flagged or not by its own column.
LEMMA FlagRow ==
  ASSUME EngineTypeOK, NEW p \in Process, NEW r \in Run, r = proc[p].run,
         NEW status, NEW escalated, AddRow(p, status, escalated)
  PROVE  /\ escalated = FALSE => Flagged(r)' = Flagged(r)
         /\ escalated = TRUE => Cardinality(Flagged(r))' = Cardinality(Flagged(r)) + 1
<1> DEFINE n == Len(rows[r])
<1>1. /\ n \in Nat /\ DOMAIN rows'[r] = 1..(n + 1)
      /\ rows'[r][n + 1] = RowOf(p, status, escalated)
      /\ \A k \in DOMAIN rows[r] : rows'[r][k] = rows[r][k]
  <2>1. n \in Nat /\ DOMAIN rows'[r] = 1..(n + 1)
    BY RowAdded
  <2>2. rows'[r][n + 1] = RowOf(p, status, escalated)
    BY RowAdded
  <2>3. \A k \in DOMAIN rows[r] : rows'[r][k] = rows[r][k]
    BY RowAdded
  <2> QED
    BY <2>1, <2>2, <2>3
<1>2. DOMAIN rows[r] = 1..n
  <2>1. rows[r] \in Seq(StepRow)
    BY DEF EngineTypeOK
  <2> QED
    BY <2>1
<1>3. RowOf(p, status, escalated).escalated = escalated
  BY DEF RowOf
<1> HIDE DEF n
<1>4. \A k \in 1..(n + 1) : k \in 1..n \/ k = n + 1
  BY <1>1
<1>5. 1..n \subseteq 1..(n + 1) /\ n + 1 \notin 1..n /\ n + 1 \in 1..(n + 1)
  BY <1>1
<1>6. CASE escalated = FALSE
  <2>1. Flagged(r)' = Flagged(r)
    BY <1>1, <1>2, <1>3, <1>4, <1>5, <1>6 DEF Flagged
  <2> QED
    BY <1>6, <2>1
<1>7. CASE escalated = TRUE
  <2>1. Flagged(r)' = Flagged(r) \cup {n + 1}
    BY <1>1, <1>2, <1>3, <1>4, <1>5, <1>7 DEF Flagged
  <2>2. Flagged(r) \subseteq 1..n /\ n + 1 \notin Flagged(r)
    BY <1>2, <1>5 DEF Flagged
  <2>3. IsFiniteSet(Flagged(r))
    BY <1>1, <2>2, FS_Interval, FS_Subset
  <2>4. Cardinality(Flagged(r) \cup {n + 1}) = Cardinality(Flagged(r)) + 1
    BY <2>2, <2>3, FS_AddElement
  <2> QED
    BY <1>7, <2>1, <2>4
<1> QED
  BY <1>6, <1>7

\* A request keeps its verdict: so do the gates it closes or opens.
LEMMA GateKept ==
  ASSUME TicketInv, NEW r \in Run, UNCHANGED <<runs[r].pending>>,
         \A a \in Approval : approvals[a].status # "absent" => approvals'[a] = approvals[a]
  PROVE  GateOf(r)' = GateOf(r)
<1>1. CASE runs[r].pending = NoApproval
  BY <1>1 DEF GateOf
<1>2. CASE runs[r].pending # NoApproval
  <2>1. approvals'[runs[r].pending] = approvals[runs[r].pending]
    BY <1>2 DEF TicketInv, RunsBacked, Backs
  <2> QED
    BY <1>2, <2>1 DEF GateOf
<1> QED
  BY <1>1, <1>2

\* A step that concerns one run.
LEMMA GateFrame ==
  ASSUME NEW r \in Run,
         \A x \in Run : x # r =>
           runs'[x] = runs[x] /\ rows'[x] = rows[x] /\ GateOf(x)' = GateOf(x)
  PROVE  /\ Phases' = [Phases EXCEPT ![r] = runs'[r].status]
         /\ Dones' = [Dones EXCEPT ![r] = Len(rows'[r])]
         /\ Flags' = [Flags EXCEPT ![r] = Cardinality(Flagged(r))']
         /\ Gates' = [Gates EXCEPT ![r] = GateOf(r)']
         /\ runs'[r].status = runs[r].status => Phases' = Phases
         /\ rows'[r] = rows[r] => Dones' = Dones
         /\ Flagged(r)' = Flagged(r) => Flags' = Flags
         /\ GateOf(r)' = GateOf(r) => Gates' = Gates
<1>1. \A x \in Run : x # r => Flagged(x)' = Flagged(x)
  BY DEF Flagged
<1>2. /\ Phases' = [Phases EXCEPT ![r] = runs'[r].status]
      /\ runs'[r].status = runs[r].status => Phases' = Phases
  BY DEF Phases
<1>3. /\ Dones' = [Dones EXCEPT ![r] = Len(rows'[r])]
      /\ rows'[r] = rows[r] => Dones' = Dones
  BY DEF Dones
<1>4. /\ Flags' = [Flags EXCEPT ![r] = Cardinality(Flagged(r))']
      /\ Flagged(r)' = Flagged(r) => Flags' = Flags
  BY <1>1 DEF Flags
<1>5. /\ Gates' = [Gates EXCEPT ![r] = GateOf(r)']
      /\ GateOf(r)' = GateOf(r) => Gates' = Gates
  BY DEF Gates
<1> QED
  BY <1>2, <1>3, <1>4, <1>5

LEMMA GateValues ==
  ASSUME NEW r \in Run
  PROVE  /\ Phases[r] = runs[r].status /\ Dones[r] = Len(rows[r])
         /\ Flags[r] = Cardinality(Flagged(r)) /\ Gates[r] = GateOf(r)
BY DEF Phases, Dones, Flags, Gates

GateStep == Gate!Next \/ UNCHANGED <<Phases, Dones, Flags, Gates>>

LEMMA GateInit == Init => Gate!Init
<1> SUFFICES ASSUME Init PROVE Gate!Init
  OBVIOUS
<1>1. \A r \in Run : runs[r].status = "absent" /\ runs[r].pending = NoApproval /\ rows[r] = <<>>
  BY DEF Init, AbsentRun
<1>2. \A r \in Run : Len(rows[r]) = 0 /\ Flagged(r) = {}
  BY <1>1 DEF Flagged
<1>3. \A r \in Run : Cardinality(Flagged(r)) = 0 /\ GateOf(r) = "open"
  BY <1>1, <1>2, FS_EmptySet DEF GateOf
<1> QED
  BY <1>1, <1>2, <1>3 DEF Gate!Init

\* The steps that touch neither a run nor a row.
LEMMA GateStutter ==
  ASSUME TicketInv, UNCHANGED <<runs, rows>>,
         \A a \in Approval : approvals[a].status # "absent" => approvals'[a] = approvals[a]
  PROVE  GateStep
<1>1. \A r \in Run : GateOf(r)' = GateOf(r)
  BY GateKept
<1>2. \A r \in Run : Flagged(r)' = Flagged(r)
  BY DEF Flagged
<1> QED
  BY <1>1, <1>2 DEF GateStep, Phases, Dones, Flags, Gates

\* What a process at work adds: a step of the gate's run done, flagged or not.
LEMMA GateRow ==
  ASSUME EngineTypeOK, TicketInv, SerialInv, UNCHANGED approvals,
         NEW p \in Process, proc[p].pc \in {"step", "escalate"}, proc[p].index \in StepIndex,
         NEW r \in Run, r = proc[p].run, \A x \in Run : x # r => runs'[x] = runs[x],
         NEW status, NEW escalated, AddRow(p, status, escalated)
  PROVE  /\ Phases[r] = "running" /\ Dones[r] < Steps
         /\ Dones' = [Dones EXCEPT ![r] = Dones[r] + 1]
         /\ Phases' = [Phases EXCEPT ![r] = runs'[r].status]
         /\ runs'[r].status = runs[r].status => Phases' = Phases
         /\ Gates' = [Gates EXCEPT ![r] = GateOf(r)']
         /\ runs'[r].pending = runs[r].pending => Gates' = Gates
         /\ escalated = FALSE => Flags' = Flags
         /\ escalated = TRUE => Flags' = [Flags EXCEPT ![r] = Flags[r] + 1]
<1>1. /\ proc[p].index = Len(rows[r]) /\ runs[r].status = "running"
      /\ Len(rows'[r]) = Len(rows[r]) + 1
      /\ \A x \in Run : x # r => rows'[x] = rows[x]
  BY SerialRow
<1>2. Len(rows[r]) < Steps
  BY <1>1, EngineAssumption DEF StepIndex
<1>3. \A x \in Run : runs'[x].pending = runs[x].pending => GateOf(x)' = GateOf(x)
  BY GateKept
<1>4. \A x \in Run : x # r => runs'[x] = runs[x] /\ rows'[x] = rows[x] /\ GateOf(x)' = GateOf(x)
  BY <1>1, <1>3
<1>5. /\ Phases' = [Phases EXCEPT ![r] = runs'[r].status]
      /\ Dones' = [Dones EXCEPT ![r] = Len(rows'[r])]
      /\ Flags' = [Flags EXCEPT ![r] = Cardinality(Flagged(r))']
      /\ Gates' = [Gates EXCEPT ![r] = GateOf(r)']
      /\ runs'[r].status = runs[r].status => Phases' = Phases
      /\ Flagged(r)' = Flagged(r) => Flags' = Flags
      /\ GateOf(r)' = GateOf(r) => Gates' = Gates
  BY <1>4, GateFrame
<1>6. /\ Phases[r] = runs[r].status /\ Dones[r] = Len(rows[r])
      /\ Flags[r] = Cardinality(Flagged(r)) /\ Gates[r] = GateOf(r)
  BY GateValues
<1>7. /\ escalated = FALSE => Flagged(r)' = Flagged(r)
      /\ escalated = TRUE => Cardinality(Flagged(r))' = Cardinality(Flagged(r)) + 1
  BY FlagRow
<1>8. runs'[r].pending = runs[r].pending => GateOf(r)' = GateOf(r)
  BY <1>3
<1> QED
  BY <1>1, <1>2, <1>5, <1>6, <1>7, <1>8

\* A step that writes a run row and no step row.
LEMMA GateRun ==
  ASSUME TicketInv, UNCHANGED <<approvals, rows>>,
         NEW r \in Run, \A x \in Run : x # r => runs'[x] = runs[x]
  PROVE  /\ Phases' = [Phases EXCEPT ![r] = runs'[r].status]
         /\ UNCHANGED <<Dones, Flags>>
         /\ Gates' = [Gates EXCEPT ![r] = GateOf(r)']
         /\ runs'[r].pending = runs[r].pending => Gates' = Gates
<1>1. \A x \in Run : runs'[x].pending = runs[x].pending => GateOf(x)' = GateOf(x)
  BY GateKept
<1>2. \A x \in Run : x # r => runs'[x] = runs[x] /\ rows'[x] = rows[x] /\ GateOf(x)' = GateOf(x)
  BY <1>1
<1>3. Flagged(r)' = Flagged(r)
  BY DEF Flagged
<1>4. GateOf(r)' = GateOf(r) => Gates' = Gates
  BY <1>2, GateFrame
<1>5. /\ Phases' = [Phases EXCEPT ![r] = runs'[r].status]
      /\ Gates' = [Gates EXCEPT ![r] = GateOf(r)']
  BY <1>2, GateFrame
<1>6. UNCHANGED <<Dones, Flags>>
  BY <1>2, <1>3, GateFrame
<1> QED
  BY <1>1, <1>4, <1>5, <1>6

LEMMA GateEngineStep ==
  ASSUME Apart, BaseInv, TicketInv, FreshInv, SerialInv, DecisionInv, EngineStep
  PROVE  GateStep
<1>0. EngineTypeOK
  BY DEF BaseInv
<1>1. ASSUME NEW h \in Handler, NEW u \in User, NEW r \in Run, NEW async \in BOOLEAN,
             StartRun(h, u, r, async)
      PROVE  GateStep
  <2>1. runs[r].status = "absent" /\ runs[r].pending = NoApproval
    BY <1>1 DEF StartRun, FreshInv, AbsentUntouched
  <2>2. /\ UNCHANGED <<approvals, rows>>
        /\ runs'[r].status = "running" /\ runs'[r].pending = NoApproval
        /\ \A x \in Run : x # r => runs'[x] = runs[x]
    BY <1>0, <1>1 DEF StartRun, approvalVars, EngineTypeOK
  <2>3. /\ Phases' = [Phases EXCEPT ![r] = "running"]
        /\ UNCHANGED <<Dones, Flags, Gates>>
    BY <2>1, <2>2, GateRun
  <2>4. Phases[r] = "absent"
    BY <2>1, GateValues
  <2>5. Gate!Start(r)
    BY <2>3, <2>4 DEF Gate!Start, Phases, Dones, Flags, Gates
  <2> QED
    BY <2>5 DEF GateStep, Gate!Next
<1>2. ASSUME NEW p \in Process, NEW r \in Run, r = proc[p].run, StepClean(p)
      PROVE  GateStep
  <2>1. proc[p].pc = "step" /\ proc[p].index \in StepIndex
    BY <1>0, <1>2, AdderWorks DEF StepClean, AtStep
  <2>2. UNCHANGED <<approvals, runs>>
    BY <1>2 DEF StepClean, approvalVars
  <2>3. PICK status, escalated : AddRow(p, status, escalated) /\ escalated = FALSE
    BY <1>2 DEF StepClean
  <2>4. /\ Phases[r] = "running" /\ Dones[r] < Steps
        /\ Dones' = [Dones EXCEPT ![r] = Dones[r] + 1]
        /\ UNCHANGED <<Phases, Flags, Gates>>
    BY <1>0, <1>2, <2>1, <2>2, <2>3, GateRow
  <2>5. Gate!Advance(r)
    BY <2>4 DEF Gate!Advance, Gate!DoStep, Phases, Dones, Flags, Gates
  <2> QED
    BY <2>5 DEF GateStep, Gate!Next
<1>3. ASSUME NEW p \in Process, NEW r \in Run, r = proc[p].run, StepFails(p)
      PROVE  GateStep
  <2>1. proc[p].pc = "step" /\ proc[p].index \in StepIndex
    BY <1>0, <1>3, AdderWorks DEF StepFails, AtStep
  <2>2. /\ UNCHANGED approvals
        /\ runs'[r].status = "failed" /\ runs'[r].pending = runs[r].pending
        /\ \A x \in Run : x # r => runs'[x] = runs[x]
    BY <1>0, <1>3, <2>1 DEF StepFails, EngineTypeOK, RunRow
  <2>3. PICK status, escalated : AddRow(p, status, escalated) /\ escalated = FALSE
    BY <1>3 DEF StepFails
  <2>4. /\ Phases[r] = "running" /\ Dones[r] < Steps
        /\ Dones' = [Dones EXCEPT ![r] = Dones[r] + 1]
        /\ Phases' = [Phases EXCEPT ![r] = "failed"]
        /\ UNCHANGED <<Flags, Gates>>
    <3>1. /\ Phases[r] = "running" /\ Dones[r] < Steps
          /\ Dones' = [Dones EXCEPT ![r] = Dones[r] + 1]
          /\ Phases' = [Phases EXCEPT ![r] = runs'[r].status]
      BY <1>0, <1>3, <2>1, <2>2, <2>3, GateRow
    <3>2. UNCHANGED <<Flags, Gates>>
      BY <1>0, <1>3, <2>1, <2>2, <2>3, GateRow
    <3> QED
      BY <2>2, <3>1, <3>2
  <2>5. Gate!Fail(r)
    BY <2>4 DEF Gate!Fail, Gate!DoStep, Phases, Dones, Flags, Gates
  <2> QED
    BY <2>5 DEF GateStep, Gate!Next
<1>4. ASSUME NEW p \in Process, NEW r \in Run, r = proc[p].run, CommitEscalation(p)
      PROVE  GateStep
  <2> DEFINE a == proc[p].pending
  <2>1. proc[p].pc = "escalate" /\ proc[p].index \in StepIndex /\ a \in Approval
    BY <1>0, <1>4, AdderWorks DEF CommitEscalation, EngineTypeOK, ProcHolds
  <2>2. /\ UNCHANGED approvals
        /\ runs'[r].status = "escalated" /\ runs'[r].pending = a
        /\ \A x \in Run : x # r => runs'[x] = runs[x]
    BY <1>0, <1>4, <2>1 DEF CommitEscalation, EngineTypeOK
  <2>3. PICK status, escalated : AddRow(p, status, escalated) /\ escalated = TRUE
    BY <1>4 DEF CommitEscalation
  <2>4. approvals[a].status \in {"pending", "approved", "rejected"}
    <3>1. approvals[a].status # "absent"
      BY <2>1 DEF TicketInv, Ticketed
    <3>2. approvals[a] \in ApprovalRow
      BY <2>1 DEF BaseInv, ApprovalsInv, ApprovalsTypeOK
    <3> QED
      BY <3>1, <3>2 DEF ApprovalRow, ApprovalStatus, Decision
  <2>5. GateOf(r)' = approvals[a].status
    BY <2>1, <2>2, ConstantsAssumption DEF GateOf
  <2> HIDE DEF a
  <2>6. /\ Phases[r] = "running" /\ Dones[r] < Steps
        /\ Dones' = [Dones EXCEPT ![r] = Dones[r] + 1]
        /\ Phases' = [Phases EXCEPT ![r] = "escalated"]
        /\ Gates' = [Gates EXCEPT ![r] = approvals[a].status]
        /\ Flags' = [Flags EXCEPT ![r] = Flags[r] + 1]
    <3>1. /\ Phases[r] = "running" /\ Dones[r] < Steps
          /\ Dones' = [Dones EXCEPT ![r] = Dones[r] + 1]
          /\ Phases' = [Phases EXCEPT ![r] = runs'[r].status]
      BY <1>0, <1>4, <2>1, <2>2, <2>3, GateRow
    <3>2. /\ Gates' = [Gates EXCEPT ![r] = GateOf(r)']
          /\ Flags' = [Flags EXCEPT ![r] = Flags[r] + 1]
      BY <1>0, <1>4, <2>1, <2>2, <2>3, GateRow
    <3> QED
      BY <2>2, <2>5, <3>1, <3>2
  <2>7. Gate!Escalate(r)
    BY <2>4, <2>6 DEF Gate!Escalate, Gate!DoStep, Gate!Answer, Phases, Dones, Flags, Gates
  <2> QED
    BY <2>7 DEF GateStep, Gate!Next
<1>5. ASSUME NEW p \in Process, NEW r \in Run, r = proc[p].run, Complete(p)
      PROVE  GateStep
  <2>1. proc[p].pc = "step" /\ proc[p].index >= Steps
    BY <1>0, <1>5 DEF Complete, EngineTypeOK, ProcHolds
  <2>2. /\ UNCHANGED <<approvals, rows>>
        /\ runs'[r].status = "completed" /\ runs'[r].pending = NoApproval
        /\ \A x \in Run : x # r => runs'[x] = runs[x]
    BY <1>0, <1>5, <2>1 DEF Complete, EngineTypeOK
  <2>3. Working(proc[p]) /\ Abreast(proc[p], runs[r], rows[r]) /\ Coherent(runs[r], rows[r])
    BY <1>5, <2>1 DEF SerialInv, Working
  <2>4. runs[r].status = "running" /\ proc[p].index = Len(rows[r])
    BY <2>1, <2>3 DEF Abreast, Bound
  <2>5. rows[r] \in Seq(StepRow)
    BY <1>0, <2>1 DEF EngineTypeOK
  <2>6. Len(rows[r]) \in 0..Steps
    BY <2>3, <2>5, OrderedBound DEF Coherent
  <2>7. Len(rows[r]) = Steps
    BY <2>1, <2>4, <2>6, EngineAssumption
  <2>8. GateOf(r)' = "open"
    BY <2>2 DEF GateOf
  <2>9. /\ Phases[r] = "running" /\ Dones[r] = Steps
    BY <2>1, <2>4, <2>7, GateValues
  <2>10. /\ Phases' = [Phases EXCEPT ![r] = "completed"]
         /\ Gates' = [Gates EXCEPT ![r] = "open"]
         /\ UNCHANGED <<Dones, Flags>>
    BY <2>1, <2>2, <2>8, GateRun
  <2>11. Gate!Finish(r)
    BY <2>9, <2>10 DEF Gate!Finish, Phases, Dones, Flags, Gates
  <2> QED
    BY <2>11 DEF GateStep, Gate!Next
<1>6. ASSUME NEW p \in Process, NEW r \in Run, r = proc[p].run, ResumeSetRunning(p)
      PROVE  GateStep
  <2> DEFINE a == proc[p].ticket
  <2>1. proc[p].pc = "resume_set" /\ proc[p].pc \in Bound
    BY <1>0, <1>6 DEF ResumeSetRunning, EngineTypeOK, ProcHolds, Bound
  <2>2. /\ UNCHANGED <<approvals, rows>>
        /\ runs'[r].status = "running" /\ runs'[r].pending = runs[r].pending
        /\ \A x \in Run : x # r => runs'[x] = runs[x]
    BY <1>0, <1>6, <2>1 DEF ResumeSetRunning, EngineTypeOK, RunRow, approvalVars
  <2>3. Abreast(proc[p], runs[r], rows[r]) /\ Coherent(runs[r], rows[r])
    BY <1>6, <2>1 DEF SerialInv, Working
  <2>4. runs[r].status = "escalated" /\ runs[r].pending = a
    BY <2>1, <2>3 DEF Abreast
  <2>5. Serialised
    BY <2>3, <2>4 DEF Apart, Coherent
  <2>6. a # NoApproval
    BY <2>1 DEF FreshInv, ResumesHoldTicket
  <2>7. a \in Approval /\ Granted(happened, a)
    BY <1>6, <2>1, <2>6 DEF TicketInv, Ticketed, Backs
  <2>8. approvals[a].status = "approved"
    BY <2>5, <2>7 DEF DecisionInv, GrantStands
  <2>9. GateOf(r) = "approved"
    BY <2>4, <2>6, <2>8 DEF GateOf
  <2> HIDE DEF a
  <2>10. Phases[r] = "escalated" /\ Gates[r] = "approved"
    BY <2>1, <2>4, <2>9, GateValues
  <2>11. /\ Phases' = [Phases EXCEPT ![r] = "running"]
         /\ UNCHANGED <<Dones, Flags, Gates>>
    BY <2>1, <2>2, GateRun
  <2>12. Gate!Resume(r)
    BY <2>10, <2>11 DEF Gate!Resume, Phases, Dones, Flags, Gates
  <2> QED
    BY <2>12 DEF GateStep, Gate!Next
<1>7. ASSUME UNCHANGED <<runs, rows>>
      PROVE  GateStep
  <2>1. \A a \in Approval : approvals[a].status # "absent" => approvals'[a] = approvals[a]
    BY EngineLeavesDecisions
  <2> QED
    BY <1>7, <2>1, GateStutter
<1>8. ASSUME NEW h \in Handler, NEW u \in User, NEW r \in Run, ResumeReadRun(h, u, r)
      PROVE  GateStep
  BY <1>7, <1>8 DEF ResumeReadRun
<1>9. ASSUME NEW w \in Worker, NEW t \in queue, WorkerTake(w, t)
      PROVE  GateStep
  BY <1>7, <1>9 DEF WorkerTake
<1>10. ASSUME NEW p \in Process, Enqueue(p) \/ AuditRun(p) \/ Abort(p)
       PROVE  GateStep
  BY <1>7, <1>10 DEF Enqueue, AuditRun, Abort
<1>11. ASSUME NEW p \in Process, NEW a \in Approval, StepEscalates(p, a)
       PROVE  GateStep
  BY <1>7, <1>11 DEF StepEscalates
<1>12. ASSUME NEW p \in Process,
              EscalationLosesContext(p) \/ ResumeReadApproval(p) \/ ResumeReadSteps(p) \/ ResumeRefused(p)
       PROVE  GateStep
  BY <1>7, <1>12 DEF EscalationLosesContext, ResumeReadApproval, ResumeReadSteps, ResumeRefused
<1>13. ASSUME NEW p \in Process, ProcessStep(p) \/ Abort(p)
       PROVE  GateStep
  <2>1. proc[p].pc # "idle" => proc[p].run \in Run
    BY <1>0 DEF EngineTypeOK, ProcHolds
  <2>2. CASE StepClean(p) \/ StepFails(p) \/ CommitEscalation(p)
    BY <1>0, <1>2, <1>3, <1>4, <2>2, AdderWorks
  <2>3. CASE Complete(p)
    BY <1>5, <2>1, <2>3 DEF Complete
  <2>4. CASE ResumeSetRunning(p)
    BY <1>6, <2>1, <2>4 DEF ResumeSetRunning
  <2> QED
    BY <1>10, <1>11, <1>12, <1>13, <2>2, <2>3, <2>4 DEF ProcessStep
<1> QED
  BY <1>1, <1>8, <1>9, <1>13 DEF EngineStep

\* An owner's answer is the gate's, for the run that names the request.
LEMMA GateQueueStep ==
  ASSUME Apart, BaseInv, TicketInv, SerialInv, DecisionInv,
         [ApprovalsNext]_approvalVars, UNCHANGED engineVars
  PROVE  GateStep
<1>0. UNCHANGED <<runs, rows>>
  BY DEF engineVars
<1>1. ASSUME NEW c \in Clerk, DecideWrite(c)
      PROVE  GateStep
  <2> DEFINE a == clerk[c].approval
             d == clerk[c].verb
  <2>1. /\ clerk[c].pc = "write" /\ a \in Approval /\ d \in {"approved", "rejected"}
        /\ approvals \in [Approval -> ApprovalRow]
    BY <1>1 DEF DecideWrite, BaseInv, ApprovalsInv, ApprovalsTypeOK, ClerkHolds, Decision
  <2>2. approvals'[a].status = d /\ \A b \in Approval : b # a => approvals'[b] = approvals[b]
    BY <1>1, <2>1 DEF DecideWrite, ApprovalRow
  <2>3. \A r \in Run : Flagged(r)' = Flagged(r)
    BY <1>0 DEF Flagged
  <2>4. UNCHANGED <<Phases, Dones, Flags>>
    BY <1>0, <2>3 DEF Phases, Dones, Flags
  <2>5. \A r \in Run : runs[r].pending # NoApproval =>
          runs[r].pending \in Approval /\ approvals[runs[r].pending].run = r
    BY DEF TicketInv, RunsBacked, Backs
  <2>6. \A r \in Run : runs[r].pending # a => GateOf(r)' = GateOf(r)
    BY <1>0, <2>2, <2>5 DEF GateOf
  <2>7. ASSUME NEW r \in Run, runs[r].pending = a
        PROVE  GateStep
    <3>1. a # NoApproval /\ approvals[a].run = r
      BY <2>1, <2>5, <2>7, ConstantsAssumption
    <3>2. \A x \in Run : x # r => GateOf(x)' = GateOf(x)
      BY <2>5, <2>6, <3>1
    <3>3. Serialised
      BY <2>7, <3>1 DEF Apart, SerialInv, Coherent
    <3>4. approvals[a].status = "pending"
      BY <2>1, <3>3 DEF DecisionInv, WritersExclude
    <3>5. GateOf(r) = "pending" /\ GateOf(r)' = d
      BY <1>0, <2>2, <2>7, <3>1, <3>4 DEF GateOf
    <3> HIDE DEF a, d
    <3>6. Gates[r] = "pending" /\ Gates' = [Gates EXCEPT ![r] = d]
      BY <3>2, <3>5 DEF Gates
    <3>7. Gate!Decide(r)
      BY <2>1, <2>4, <3>6 DEF Gate!Decide, Gate!Answer, Phases, Dones, Flags, Gates
    <3> QED
      BY <3>7 DEF GateStep, Gate!Next
  <2>8. ASSUME \A r \in Run : runs[r].pending # a
        PROVE  GateStep
    BY <2>4, <2>6, <2>8 DEF GateStep, Gates
  <2> QED
    BY <2>7, <2>8
<1>2. ASSUME NEW c \in Clerk, NEW u \in User, NEW a \in Approval, CreateRequest(c, u, a)
      PROVE  GateStep
  <2>1. \A b \in Approval : approvals[b].status # "absent" => approvals'[b] = approvals[b]
    BY <1>2 DEF CreateRequest, CreateApproval
  <2> QED
    BY <1>0, <2>1, GateStutter
<1>3. ASSUME UNCHANGED approvals PROVE GateStep
  BY <1>0, <1>3, GateStutter
<1>4. CASE ApprovalsNext
  BY <1>1, <1>2, <1>3, <1>4 DEF ApprovalsNext, DecideRead, ClerkAudit, ClerkAbort
<1> QED
  BY <1>3, <1>4 DEF approvalVars

\* The engine implements the escalation gate, for any number of handlers, workers,
\* clerks, runs and steps, whoever stops: on PostgreSQL because no run ever
\* escalates there, on SQLite as long as requests on one row do not overlap.
THEOREM GateImplemented == Apart => (Spec => ImplementsGate)
<1> SUFFICES ASSUME Apart PROVE Spec => ImplementsGate
  OBVIOUS
<1>1. Init => Gate!Init
  BY GateInit
<1>2. ASSUME BaseInv, TicketInv, FreshInv, SerialInv, DecisionInv, [Next]_vars
      PROVE  [Gate!Next]_Gate!vars
  <2>1. CASE EngineStep
    BY <1>2, <2>1, GateEngineStep DEF GateStep, Gate!vars, Phases, Dones, Flags, Gates
  <2>2. CASE ApprovalsNext /\ UNCHANGED engineVars
    BY <1>2, <2>2, GateQueueStep DEF GateStep, Gate!vars, Phases, Dones, Flags, Gates
  <2>3. CASE UNCHANGED vars
    BY <1>2, <2>3, GateQueueStep DEF vars, GateStep, Gate!vars, Phases, Dones, Flags, Gates
  <2> QED
    BY <1>2, <2>1, <2>2, <2>3, NextSplit
<1> QED
  BY <1>1, <1>2, Base, Tickets, FreshRuns, Serial, Decisions, PTL
     DEF Spec, ImplementsGate, Gate!Spec

================================================================================
