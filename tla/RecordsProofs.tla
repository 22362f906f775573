----------------------------- MODULE RecordsProofs -----------------------------
(***************************************************************************)
(* What Departments, KnowledgeBase, Dashboard, AuditRetention and Access   *)
(* keep for every number of requests: invocations and what they leave      *)
(* behind, what a query of the knowledge base finds, the totals and the    *)
(* stages of deals, the purge of the audit log, and what the log says of   *)
(* permissions; then the types of all of their states, for the four parts  *)
(* side by side as MCRecords composes them.                                *)
(***************************************************************************)
EXTENDS MCRecords, FiniteSetTheorems, SequenceTheorems, TLAPS

--------------------------------------------------------------------------------
(* Invocations *)

(***************************************************************************)
(* InvocationsAccounted speaks of invocations that are answered.  Before   *)
(* that, what an invocation has written is determined by where it is.      *)
(***************************************************************************)
Untouched(i) == i.audit = <<>> /\ i.approvals = 0 /\ i.status = 0

Written(i) ==
  /\ i.pc \in {"new", "retrieve", "generate", "failed", "record"} => Untouched(i)
  /\ i.pc \in {"escalate", "note"} =>
       i.audit = <<"invoke">> /\ i.status = 0 /\ Escalates(i.department, i.topics)
  /\ i.pc = "escalate" => i.approvals = 0
  /\ i.pc = "note" => i.approvals = 1
  /\ i.pc = "cut" => i.status = 0
  /\ i.status = 200 =>
       IF Escalates(i.department, i.topics)
       THEN i.audit = <<"invoke", "escalated">> /\ i.approvals = 1
       ELSE i.audit = <<"invoke">> /\ i.approvals = 0
  /\ i.status = 503 => i.audit = <<"invoke_failed">> /\ i.approvals = 0
  /\ i.approvals # 0 => i.audit # <<>> /\ i.audit[1] = "invoke"
  /\ i.pc \in {"new", "retrieve", "generate", "failed", "record", "escalate", "note", "cut", "done"}
  /\ i.approvals \in Nat

InvShape ==
  /\ inv = [v \in Invocation |-> inv[v]]
  /\ \A v \in Invocation : DOMAIN inv[v] = DOMAIN NewInvocation

\* The rest of what an invocation is
Fits(i) ==
  /\ i.topics \subseteq Topics(i.department)
  /\ i.audit \in Seq({"invoke", "invoke_failed", "escalated"})
  /\ i.status \in {0, 200, 500, 503}
  /\ i.pc = "new" => i.topics = {}

InvocationInv == InvShape /\ \A v \in Invocation : Written(inv[v]) /\ Fits(inv[v])

LEMMA AppendPair ==
  ASSUME NEW x, NEW y
  PROVE  Append(<<x>>, y) = <<x, y>>
<1> DEFINE s == Append(<<x>>, y)
<1>1. <<x>> \in Seq({x, y}) /\ Len(<<x>>) = 1 /\ <<x>>[1] = x
  OBVIOUS
<1>2. s \in Seq({x, y}) /\ Len(s) = 2 /\ s[1] = x /\ s[2] = y
  BY <1>1, AppendProperties
<1> HIDE DEF s
<1>3. \A i \in 1..2 : s[i] = <<x, y>>[i]
  BY <1>2
<1>4. s = [i \in 1..2 |-> s[i]]
  BY <1>2
<1>5. <<x, y>> = [i \in 1..2 |-> <<x, y>>[i]]
  OBVIOUS
<1>6. s = <<x, y>>
  BY <1>3, <1>4, <1>5
<1> QED
  BY <1>6 DEF s

LEMMA InvFrame ==
  ASSUME InvocationInv, NEW v \in Invocation, NEW new, inv' = [inv EXCEPT ![v] = new],
         DOMAIN new = DOMAIN inv[v], Written(new), Fits(new)
  PROVE  InvocationInv'
<1>1. \A w \in Invocation : inv'[w] = IF w = v THEN new ELSE inv[w]
  BY DEF InvocationInv, InvShape
<1>2. InvShape'
  BY <1>1 DEF InvocationInv, InvShape
<1> QED
  BY <1>1, <1>2 DEF InvocationInv

LEMMA InvocationStepKeeps ==
  ASSUME InvocationInv, NEW v \in Invocation, InvocationStep(v)
  PROVE  InvocationInv'
<1>0. /\ DOMAIN inv[v] = {"pc", "department", "space", "topics", "audit", "approvals", "status"}
      /\ inv = [w \in Invocation |-> inv[w]] /\ Written(inv[v]) /\ Fits(inv[v])
  BY DEF InvocationInv, InvShape, NewInvocation
<1>1. CASE BeginInvocation(v)
  <2>1. PICK department \in Department :
          \/ inv' = [inv EXCEPT ![v].pc = "generate", ![v].department = department]
          \/ \E space \in EmbedOutcomes(setup.keys, setup.steady) :
             inv' = [inv EXCEPT ![v].pc = IF space = NoAnswer THEN "failed" ELSE "retrieve",
                               ![v].department = department, ![v].space = space]
    BY <1>1 DEF BeginInvocation
  <2>2. Untouched(inv[v]) /\ inv[v].topics = {}
    BY <1>0, <1>1 DEF BeginInvocation, Written, Fits
  <2>3. CASE inv' = [inv EXCEPT ![v].pc = "generate", ![v].department = department]
    <3> DEFINE new == [[inv[v] EXCEPT !.pc = "generate"] EXCEPT !.department = department]
    <3>1. inv' = [inv EXCEPT ![v] = new]
      BY <1>0, <2>3
    <3>2. DOMAIN new = DOMAIN inv[v] /\ Written(new)
      BY <1>0, <2>2 DEF Written, Untouched
    <3>3. Fits(new)
      BY <1>0, <2>2 DEF Fits
    <3> QED
      BY <3>1, <3>2, <3>3, InvFrame
  <2>4. ASSUME NEW space,
               inv' = [inv EXCEPT ![v].pc = IF space = NoAnswer THEN "failed" ELSE "retrieve",
                                  ![v].department = department, ![v].space = space]
        PROVE  InvocationInv'
    <3> DEFINE pc == IF space = NoAnswer THEN "failed" ELSE "retrieve"
               new == [[[inv[v] EXCEPT !.pc = pc] EXCEPT !.department = department] EXCEPT !.space = space]
    <3>1. inv' = [inv EXCEPT ![v] = new]
      BY <1>0, <2>4
    <3>2. DOMAIN new = DOMAIN inv[v] /\ Written(new)
      BY <1>0, <2>2 DEF Written, Untouched
    <3>3. Fits(new)
      BY <1>0, <2>2 DEF Fits
    <3> QED
      BY <3>1, <3>2, <3>3, InvFrame
  <2> QED
    BY <2>1, <2>3, <2>4
<1>2. CASE Retrieve(v)
  <2>1. Untouched(inv[v])
    BY <1>0, <1>2 DEF Retrieve, Written
  <2>2. CASE inv' = [inv EXCEPT ![v].pc = "done", ![v].status = 500, ![v].space = NoAnswer]
    <3> DEFINE new == [[[inv[v] EXCEPT !.pc = "done"] EXCEPT !.status = 500] EXCEPT !.space = NoAnswer]
    <3>1. inv' = [inv EXCEPT ![v] = new]
      <4> DEFINE Fields(pc, status, space) ==
                   inv' = [inv EXCEPT ![v].pc = pc, ![v].status = status, ![v].space = space]
                 Whole(pc, status, space) ==
                   inv' = [inv EXCEPT ![v] =
                     [[[inv[v] EXCEPT !.pc = pc] EXCEPT !.status = status] EXCEPT !.space = space]]
      <4>1. \A pc, status, space : Fields(pc, status, space) => Whole(pc, status, space)
        BY <1>0
      <4>2. Fields("done", 500, NoAnswer)
        BY <2>2
      <4> HIDE DEF Fields, Whole
      <4>3. Whole("done", 500, NoAnswer)
        BY <4>1, <4>2
      <4> QED
        BY <4>3 DEF Whole
    <3>2. DOMAIN new = DOMAIN inv[v] /\ Written(new)
      BY <1>0, <2>1 DEF Written, Untouched
    <3>3. Fits(new)
      BY <1>0 DEF Fits
    <3> QED
      BY <3>1, <3>2, <3>3, InvFrame
  <2>3. CASE inv' = [inv EXCEPT ![v].pc = "generate", ![v].space = NoAnswer]
    <3> DEFINE new == [[inv[v] EXCEPT !.pc = "generate"] EXCEPT !.space = NoAnswer]
    <3>1. inv' = [inv EXCEPT ![v] = new]
      BY <1>0, <2>3
    <3>2. DOMAIN new = DOMAIN inv[v] /\ Written(new)
      BY <1>0, <2>1 DEF Written, Untouched
    <3>3. Fits(new)
      BY <1>0 DEF Fits
    <3> QED
      BY <3>1, <3>2, <3>3, InvFrame
  <2> QED
    BY <1>2, <2>2, <2>3 DEF Retrieve
<1>3. CASE Generate(v)
  <2>1. Untouched(inv[v])
    BY <1>0, <1>3 DEF Generate, Written
  <2>2. CASE inv' = [inv EXCEPT ![v].pc = "failed"]
    <3> DEFINE new == [inv[v] EXCEPT !.pc = "failed"]
    <3>1. inv' = [inv EXCEPT ![v] = new]
      BY <1>0, <2>2
    <3>2. DOMAIN new = DOMAIN inv[v] /\ Written(new)
      BY <1>0, <2>1 DEF Written, Untouched
    <3>3. Fits(new)
      BY <1>0 DEF Fits
    <3> QED
      BY <3>1, <3>2, <3>3, InvFrame
  <2>3. ASSUME NEW topics \in SUBSET Topics(inv[v].department),
               inv' = [inv EXCEPT ![v].pc = "record", ![v].topics = topics]
        PROVE  InvocationInv'
    <3> DEFINE new == [[inv[v] EXCEPT !.pc = "record"] EXCEPT !.topics = topics]
    <3>1. inv' = [inv EXCEPT ![v] = new]
      BY <1>0, <2>3
    <3>2. DOMAIN new = DOMAIN inv[v] /\ Written(new)
      BY <1>0, <2>1 DEF Written, Untouched
    <3>3. Fits(new)
      BY <1>0, <2>3 DEF Fits
    <3> QED
      BY <3>1, <3>2, <3>3, InvFrame
  <2> QED
    BY <1>3, <2>2, <2>3 DEF Generate
<1>4. CASE RecordFailure(v)
  <2> DEFINE new == [[[inv[v] EXCEPT !.audit = Append(inv[v].audit, "invoke_failed")]
                        EXCEPT !.pc = "done"] EXCEPT !.status = 503]
  <2>1. Untouched(inv[v])
    BY <1>0, <1>4 DEF RecordFailure, Written
  <2>2. inv' = [inv EXCEPT ![v] = new]
    <3> DEFINE Fields(entry, pc, status) ==
                 inv' = [inv EXCEPT ![v].audit = Append(@, entry), ![v].pc = pc, ![v].status = status]
               Whole(entry, pc, status) ==
                 inv' = [inv EXCEPT ![v] =
                   [[[inv[v] EXCEPT !.audit = Append(inv[v].audit, entry)]
                       EXCEPT !.pc = pc] EXCEPT !.status = status]]
    <3>1. \A entry, pc, status : Fields(entry, pc, status) => Whole(entry, pc, status)
      BY <1>0
    <3>2. Fields("invoke_failed", "done", 503)
      BY <1>4 DEF RecordFailure
    <3> HIDE DEF Fields, Whole
    <3>3. Whole("invoke_failed", "done", 503)
      BY <3>1, <3>2
    <3> QED
      BY <3>3 DEF Whole
  <2>3. Append(inv[v].audit, "invoke_failed") = <<"invoke_failed">>
    BY <2>1 DEF Untouched
  <2>4. DOMAIN new = DOMAIN inv[v] /\ Written(new)
    BY <1>0, <2>1, <2>3 DEF Written, Untouched
  <2>5. Fits(new)
    BY <1>0, <2>3 DEF Fits
  <2> QED
    BY <2>2, <2>4, <2>5, InvFrame
<1>5. CASE RecordInvoke(v)
  <2>1. Untouched(inv[v])
    BY <1>0, <1>5 DEF RecordInvoke, Written
  <2>2. Append(inv[v].audit, "invoke") = <<"invoke">>
    BY <2>1 DEF Untouched
  <2>3. CASE Escalates(inv[v].department, inv[v].topics)
    <3> DEFINE new == [[inv[v] EXCEPT !.audit = Append(inv[v].audit, "invoke")]
                         EXCEPT !.pc = "escalate"]
    <3>1. inv' = [inv EXCEPT ![v] = new]
      BY <1>0, <1>5, <2>3 DEF RecordInvoke
    <3>2. DOMAIN new = DOMAIN inv[v] /\ Written(new)
      BY <1>0, <2>1, <2>2, <2>3 DEF Written, Untouched
    <3>3. Fits(new)
      BY <1>0, <2>2 DEF Fits
    <3> QED
      BY <3>1, <3>2, <3>3, InvFrame
  <2>4. CASE ~Escalates(inv[v].department, inv[v].topics)
    <3> DEFINE new == [[[inv[v] EXCEPT !.audit = Append(inv[v].audit, "invoke")]
                          EXCEPT !.pc = "done"] EXCEPT !.status = 200]
    <3>1. inv' = [inv EXCEPT ![v] = new]
      BY <1>0, <1>5, <2>4 DEF RecordInvoke
    <3>2. DOMAIN new = DOMAIN inv[v] /\ Written(new)
      BY <1>0, <2>1, <2>2, <2>4 DEF Written, Untouched
    <3>3. Fits(new)
      BY <1>0, <2>2 DEF Fits
    <3> QED
      BY <3>1, <3>2, <3>3, InvFrame
  <2> QED
    BY <2>3, <2>4
<1>6. CASE CreateEscalation(v)
  <2> DEFINE new == [[inv[v] EXCEPT !.approvals = inv[v].approvals + 1] EXCEPT !.pc = "note"]
  <2>1. inv' = [inv EXCEPT ![v] = new]
    BY <1>0, <1>6 DEF CreateEscalation
  <2>2. DOMAIN new = DOMAIN inv[v] /\ Written(new)
    BY <1>0, <1>6 DEF CreateEscalation, Written
  <2>3. Fits(new)
    BY <1>0 DEF Fits
  <2> QED
    BY <2>1, <2>2, <2>3, InvFrame
<1>7. CASE RecordEscalation(v)
  <2> DEFINE new == [[[inv[v] EXCEPT !.audit = Append(inv[v].audit, "escalated")]
                        EXCEPT !.pc = "done"] EXCEPT !.status = 200]
  <2>1. inv' = [inv EXCEPT ![v] = new]
    BY <1>0, <1>7 DEF RecordEscalation
  <2>2. Append(inv[v].audit, "escalated") = <<"invoke", "escalated">>
    <3>1. inv[v].audit = <<"invoke">>
      BY <1>0, <1>7 DEF RecordEscalation, Written
    <3> QED
      BY <3>1, AppendPair
  <2>3. DOMAIN new = DOMAIN inv[v] /\ Written(new)
    BY <1>0, <1>7, <2>2 DEF RecordEscalation, Written
  <2>4. Fits(new)
    BY <1>0, <2>2 DEF Fits
  <2> QED
    BY <2>1, <2>3, <2>4, InvFrame
<1>8. CASE CutInvocation(v)
  <2> DEFINE new == [[inv[v] EXCEPT !.pc = "cut"] EXCEPT !.space = NoAnswer]
  <2>1. inv' = [inv EXCEPT ![v] = new]
    BY <1>0, <1>8 DEF CutInvocation
  <2>2. DOMAIN new = DOMAIN inv[v] /\ Written(new)
    BY <1>0, <1>8 DEF CutInvocation, Written, Untouched
  <2>3. Fits(new)
    BY <1>0 DEF Fits
  <2> QED
    BY <2>1, <2>2, <2>3, InvFrame
<1> QED
  BY <1>1, <1>2, <1>3, <1>4, <1>5, <1>6, <1>7, <1>8 DEF InvocationStep

LEMMA InvocationStart == DepartmentsInit => InvocationInv
<1> SUFFICES ASSUME DepartmentsInit PROVE InvocationInv
  OBVIOUS
<1>1. inv = [v \in Invocation |-> NewInvocation]
  BY DEF DepartmentsInit
<1>2. Written(NewInvocation) /\ Fits(NewInvocation)
  BY DEF Written, Untouched, Fits, NewInvocation
<1>3. \A v \in Invocation : inv[v] = NewInvocation
  BY <1>1
<1>4. inv = [v \in Invocation |-> inv[v]]
  BY <1>1
<1> HIDE DEF NewInvocation
<1> QED
  BY <1>2, <1>3, <1>4 DEF InvocationInv, InvShape

LEMMA InvocationKept == InvocationInv /\ [DepartmentsNext]_departmentsVars => InvocationInv'
<1>1. InvocationInv /\ UNCHANGED inv => InvocationInv'
  BY DEF InvocationInv, InvShape
<1> QED
  BY <1>1, InvocationStepKeeps DEF DepartmentsNext, departmentsVars

\* For any number of invocations, of any departments, over any knowledge base: what an
\* answered invocation has recorded and put into the approval queue.
THEOREM InvocationsKeepBooks == DepartmentsSpec => []InvocationsAccounted
<1>1. InvocationInv => InvocationsAccounted
  <2> SUFFICES ASSUME InvocationInv, NEW v \in Invocation
               PROVE  /\ inv[v].status = 200 =>
                           IF NeedsFounder(v)
                           THEN inv[v].audit = <<"invoke", "escalated">> /\ inv[v].approvals = 1
                           ELSE inv[v].audit = <<"invoke">> /\ inv[v].approvals = 0
                      /\ inv[v].status = 503 => inv[v].audit = <<"invoke_failed">> /\ inv[v].approvals = 0
                      /\ inv[v].approvals > 0 => inv[v].audit # <<>> /\ inv[v].audit[1] = "invoke"
    BY DEF InvocationsAccounted
  <2>1. NeedsFounder(v) <=> Escalates(inv[v].department, inv[v].topics)
    BY DEF NeedsFounder, Escalates
  <2>2. Written(inv[v])
    BY DEF InvocationInv
  <2> QED
    BY <2>1, <2>2 DEF Written
<1> QED
  BY <1>1, InvocationStart, InvocationKept, PTL DEF DepartmentsSpec

--------------------------------------------------------------------------------
(* Purging the audit log *)

LogRow ==
  [by : Purge \cup Writer, action : {"used", "audit.purge_initiated", "audit.purge_completed"},
   at : Nat, count : Nat]

PurgePC == {"ready", "initiated", "waiting", "dropped", "deleted", "recreated", "done", "failed"}

PurgeRow == [pc : PurgePC, start : Nat, gone : SUBSET LogRow]

(***************************************************************************)
(* What makes a removal accountable is that nobody writes while a purge    *)
(* holds the table (Alone, once true, lasts), so that what it has deleted  *)
(* is still there when it commits; that the trigger never comes off for    *)
(* anybody else; and that a purge leaves its record only once.             *)
(***************************************************************************)
PurgeInv ==
  /\ day \in Nat /\ trigger = TRUE
  /\ audit_logs \subseteq LogRow /\ IsFiniteSet(audit_logs)
  /\ script \in [Purge -> PurgeRow]
  /\ writer \in [Writer -> [pc : {"ready", "open", "done", "failed", "refused"}, at : Nat]]
  /\ \A p \in Purge :
       /\ script[p].start <= day
       /\ Exclusive(p) => Alone(p)
       /\ script[p].gone \subseteq Expired(script[p].start)
       /\ script[p].pc \notin {"deleted", "recreated"} => script[p].gone = {}
  /\ \A e \in audit_logs : e.action # "used" => e.by \in Purge /\ script[e.by].pc = "done"

LEMMA PurgeTyped ==
  ASSUME NEW s \in PurgeRow, NEW pc \in PurgePC, NEW start \in Nat, NEW gone \in SUBSET LogRow
  PROVE  /\ [s EXCEPT !.pc = pc] \in PurgeRow
         /\ [s EXCEPT !.pc = pc, !.start = start] \in PurgeRow
         /\ [s EXCEPT !.pc = pc, !.gone = gone] \in PurgeRow
BY DEF PurgeRow

LEMMA ScriptTyped ==
  ASSUME PurgeInv, NEW p \in Purge, NEW new \in PurgeRow, script' = [script EXCEPT ![p] = new]
  PROVE  script' \in [Purge -> PurgeRow]
BY DEF PurgeInv

\* What purge p removes when it commits, and what it adds.
CompletionOf(p) ==
  Entry(p, "audit.purge_completed", script[p].start, Cardinality(script[p].gone))

LEMMA PurgeRemoves ==
  ASSUME PurgeInv, NEW p \in Purge, CommitPurge(p)
  PROVE  /\ audit_logs \ audit_logs' = script[p].gone
         /\ CompletionOf(p) \in audit_logs' \ audit_logs
         /\ audit_logs' \subseteq LogRow /\ IsFiniteSet(audit_logs')
         /\ \A e \in audit_logs' : e \in audit_logs \/ e.by = p
<1> DEFINE started == Entry(p, "audit.purge_initiated", script[p].start, 0)
           ended == CompletionOf(p)
           gone == script[p].gone
<1>1. gone \subseteq audit_logs /\ \A e \in gone : e.action = "used"
  BY DEF PurgeInv, Expired
<1>2. IsFiniteSet(gone) /\ Cardinality(gone) \in Nat
  BY <1>1, FS_Subset, FS_CardinalityType DEF PurgeInv
<1>3. started \in LogRow /\ ended \in LogRow
  BY <1>2 DEF PurgeInv, PurgeRow, CompletionOf, Entry, LogRow
<1>4. /\ started.action # "used" /\ started.by = p
      /\ ended.action # "used" /\ ended.by = p
  BY DEF CompletionOf, Entry
<1>5. audit_logs' = (audit_logs \ gone) \cup {started, ended}
  BY DEF CommitPurge, CompletionOf
<1>6. ended \notin audit_logs
  BY <1>4 DEF PurgeInv, CommitPurge
<1>7. IsFiniteSet(audit_logs')
  <2>1. IsFiniteSet(audit_logs \ gone)
    BY FS_Subset DEF PurgeInv
  <2>2. IsFiniteSet((audit_logs \ gone) \cup {started})
    BY <2>1, FS_AddElement
  <2>3. IsFiniteSet(((audit_logs \ gone) \cup {started}) \cup {ended})
    BY <2>2, FS_AddElement
  <2>4. audit_logs' = ((audit_logs \ gone) \cup {started}) \cup {ended}
    BY <1>5
  <2> QED
    BY <2>3, <2>4
<1> HIDE DEF started, ended, gone
<1>8. audit_logs \ audit_logs' = gone
  BY <1>1, <1>4, <1>5
<1>9. audit_logs' \subseteq LogRow
  BY <1>3, <1>5 DEF PurgeInv
<1> QED
  BY <1>4, <1>5, <1>6, <1>7, <1>8, <1>9 DEF gone, ended

\* Nobody can write while a purge holds the table: the log changes in no other way.
LEMMA PurgeStep ==
  ASSUME PurgeInv, RetentionNext
  PROVE  PurgeInv'
<1>1. CASE NextDay
  BY <1>1 DEF NextDay, PurgeInv, PurgeRow, Exclusive, Alone, Writing, Expired
<1>2. ASSUME NEW w \in Writer, WriterInsert(w)
      PROVE  PurgeInv'
  <2>1. \A p \in Purge : ~Exclusive(p)
    BY <1>2 DEF WriterInsert, Admitted
  <2> QED
    BY <1>2, <2>1 DEF WriterInsert, PurgeInv, Exclusive, Alone, Writing, Expired
<1>3. ASSUME NEW w \in Writer, WriterCommit(w)
      PROVE  PurgeInv'
  <2>1. \A p \in Purge : ~Exclusive(p)
    BY <1>3 DEF WriterCommit, PurgeInv, Alone
  <2>2. Entry(w, "used", writer[w].at, 0) \in LogRow /\ Entry(w, "used", writer[w].at, 0).action = "used"
    BY <1>3 DEF WriterCommit, PurgeInv, Entry, LogRow
  <2>3. audit_logs' \subseteq LogRow /\ IsFiniteSet(audit_logs')
    BY <1>3, <2>2, FS_AddElement DEF WriterCommit, PurgeInv
  <2>4. \A p \in Purge : ~Exclusive(p)' /\ script'[p] = script[p] /\ script[p].gone = {}
    BY <1>3, <2>1 DEF WriterCommit, PurgeInv, Exclusive
  <2>5. \A e \in audit_logs' : e.action # "used" => e \in audit_logs
    BY <1>3, <2>2 DEF WriterCommit
  <2>6. writer' \in [Writer -> [pc : {"ready", "open", "done", "failed", "refused"}, at : Nat]]
    BY <1>3 DEF WriterCommit, PurgeInv
  <2> QED
    BY <1>3, <2>3, <2>4, <2>5, <2>6 DEF WriterCommit, PurgeInv
<1>4. ASSUME NEW w \in Writer, WriterFail(w)
      PROVE  PurgeInv'
  BY <1>4 DEF WriterFail, PurgeInv, Exclusive, Alone, Writing, Expired
<1>5. ASSUME NEW w \in Writer, WriterDelete(w)
      PROVE  PurgeInv'
  BY <1>5 DEF WriterDelete, PurgeInv, Exclusive, Alone, Writing, Expired
<1>6. ASSUME NEW p \in Purge, CommitPurge(p)
      PROVE  PurgeInv'
  <2>1. /\ audit_logs' \subseteq LogRow /\ IsFiniteSet(audit_logs')
        /\ \A e \in audit_logs' : e \in audit_logs \/ e.by = p
    BY <1>6, PurgeRemoves
  <2>2. \A q \in Purge : q # p => script'[q] = script[q]
    BY <1>6 DEF CommitPurge, PurgeInv
  <2>3. script'[p].pc = "done" /\ script'[p].gone = {} /\ script'[p].start = script[p].start
    BY <1>6 DEF CommitPurge, PurgeInv
  <2>4. \A q \in Purge : q # p => ~Exclusive(q) /\ script[q].gone = {}
    BY <1>6 DEF CommitPurge, PurgeInv, Exclusive, Alone
  <2>5. script' \in [Purge -> PurgeRow]
    <3>1. script' = [script EXCEPT ![p] = [script[p] EXCEPT !.pc = "done", !.gone = {}]]
      BY <1>6 DEF CommitPurge, PurgeInv
    <3>2. script[p] \in PurgeRow /\ "done" \in PurgePC /\ {} \in SUBSET LogRow
      BY DEF PurgeInv, PurgePC
    <3>3. [script[p] EXCEPT !.pc = "done", !.gone = {}] \in PurgeRow
      BY <3>2, PurgeTyped
    <3> QED
      BY <3>1, <3>3, ScriptTyped
  <2>6. \A q \in Purge : ~Exclusive(q)' /\ script'[q].gone = {} /\ script'[q].start <= day'
    BY <1>6, <2>2, <2>3, <2>4 DEF CommitPurge, PurgeInv, Exclusive
  <2>7. \A e \in audit_logs' : e.action # "used" => e.by \in Purge /\ script'[e.by].pc = "done"
    BY <1>6, <2>1, <2>2, <2>3 DEF PurgeInv
  <2> QED
    BY <1>6, <2>1, <2>5, <2>6, <2>7 DEF CommitPurge, PurgeInv
<1>7. ASSUME NEW p \in Purge,
             \/ Initiate(p) \/ AskForTable(p) \/ DropTrigger(p) \/ DeleteExpired(p)
             \/ CreateTrigger(p) \/ FailPurge(p)
      PROVE  PurgeInv'
  <2>1. UNCHANGED <<day, audit_logs, trigger, writer>>
    BY <1>7 DEF Initiate, AskForTable, DropTrigger, DeleteExpired, CreateTrigger, FailPurge
  <2>2. \A q \in Purge : q # p => script'[q] = script[q]
    BY <1>7 DEF Initiate, AskForTable, DropTrigger, DeleteExpired, CreateTrigger, FailPurge, PurgeInv
  <2>3. script' \in [Purge -> PurgeRow]
    <3>1. Expired(script[p].start) \in SUBSET LogRow
      BY DEF PurgeInv, Expired
    <3>2. script[p] \in PurgeRow /\ day \in Nat /\ {} \in SUBSET LogRow
      BY DEF PurgeInv
    <3>3. {"initiated", "waiting", "dropped", "deleted", "recreated", "failed"} \subseteq PurgePC
      BY DEF PurgePC
    <3>4. \A pc \in PurgePC : script' = [script EXCEPT ![p].pc = pc] => script' \in [Purge -> PurgeRow]
      <4> SUFFICES ASSUME NEW pc \in PurgePC, script' = [script EXCEPT ![p].pc = pc]
                   PROVE  script' \in [Purge -> PurgeRow]
        OBVIOUS
      <4>1. script' = [script EXCEPT ![p] = [script[p] EXCEPT !.pc = pc]]
        OBVIOUS
      <4>2. [script[p] EXCEPT !.pc = pc] \in PurgeRow
        BY <3>2, PurgeTyped
      <4> QED
        BY <4>1, <4>2, ScriptTyped
    <3>5. \A pc \in PurgePC, gone \in SUBSET LogRow :
            script' = [script EXCEPT ![p].pc = pc, ![p].gone = gone] => script' \in [Purge -> PurgeRow]
      <4> SUFFICES ASSUME NEW pc \in PurgePC, NEW gone \in SUBSET LogRow,
                          script' = [script EXCEPT ![p].pc = pc, ![p].gone = gone]
                   PROVE  script' \in [Purge -> PurgeRow]
        OBVIOUS
      <4>1. script' = [script EXCEPT ![p] = [script[p] EXCEPT !.pc = pc, !.gone = gone]]
        BY DEF PurgeInv
      <4>2. [script[p] EXCEPT !.pc = pc, !.gone = gone] \in PurgeRow
        BY <3>2, PurgeTyped
      <4> QED
        BY <4>1, <4>2, ScriptTyped
    <3>6. \A pc \in PurgePC, start \in Nat :
            script' = [script EXCEPT ![p].pc = pc, ![p].start = start] => script' \in [Purge -> PurgeRow]
      <4> SUFFICES ASSUME NEW pc \in PurgePC, NEW start \in Nat,
                          script' = [script EXCEPT ![p].pc = pc, ![p].start = start]
                   PROVE  script' \in [Purge -> PurgeRow]
        OBVIOUS
      <4>1. script' = [script EXCEPT ![p] = [script[p] EXCEPT !.pc = pc, !.start = start]]
        BY DEF PurgeInv
      <4>2. [script[p] EXCEPT !.pc = pc, !.start = start] \in PurgeRow
        BY <3>2, PurgeTyped
      <4> QED
        BY <4>1, <4>2, ScriptTyped
    <3>7. CASE Initiate(p)
      BY <3>2, <3>3, <3>6, <3>7 DEF Initiate
    <3>8. CASE AskForTable(p) \/ DropTrigger(p) \/ CreateTrigger(p)
      BY <3>3, <3>4, <3>8 DEF AskForTable, DropTrigger, CreateTrigger
    <3>9. CASE DeleteExpired(p)
      BY <3>1, <3>3, <3>5, <3>9 DEF DeleteExpired
    <3>10. CASE FailPurge(p)
      BY <3>2, <3>3, <3>5, <3>10 DEF FailPurge
    <3> QED
      BY <1>7, <3>7, <3>8, <3>9, <3>10
  <2>4. /\ script'[p].start <= day
        /\ script'[p].gone \subseteq Expired(script'[p].start)
        /\ script'[p].pc \notin {"deleted", "recreated"} => script'[p].gone = {}
        /\ script[p].pc # "done"
    <3>1. CASE Initiate(p)
      BY <3>1 DEF Initiate, PurgeInv, Expired
    <3>0. \A pc : script' = [script EXCEPT ![p].pc = pc] =>
            script'[p].pc = pc /\ script'[p].start = script[p].start /\ script'[p].gone = script[p].gone
      BY DEF PurgeInv, PurgeRow
    <3>2. CASE AskForTable(p) \/ DropTrigger(p) \/ CreateTrigger(p)
      <4>1. PICK pc : /\ script' = [script EXCEPT ![p].pc = pc]
                      /\ script[p].pc \in {"initiated", "waiting"} \/ pc = "recreated"
                      /\ script[p].pc \in {"initiated", "waiting", "deleted"}
        BY <3>2 DEF AskForTable, DropTrigger, CreateTrigger
      <4>2. script'[p].pc = pc /\ script'[p].start = script[p].start /\ script'[p].gone = script[p].gone
        BY <3>0, <4>1
      <4> QED
        BY <2>1, <4>1, <4>2 DEF PurgeInv
    <3>3. CASE DeleteExpired(p)
      BY <3>3 DEF DeleteExpired, PurgeInv
    <3>4. CASE FailPurge(p)
      BY <3>4 DEF FailPurge, PurgeInv
    <3> QED
      BY <1>7, <3>1, <3>2, <3>3, <3>4
  <2>5. \A q \in Purge : Exclusive(q)' => Alone(q)'
    <3>1. CASE Initiate(p)
      BY <2>1, <2>2, <3>1 DEF Initiate, PurgeInv, PurgeRow, Exclusive, Alone, Writing, Admitted
    <3>2. CASE AskForTable(p)
      BY <2>1, <2>2, <3>2 DEF AskForTable, PurgeInv, PurgeRow, Exclusive, Alone, Writing
    <3>3. CASE DropTrigger(p)
      BY <2>1, <2>2, <3>3 DEF DropTrigger, PurgeInv, PurgeRow, Exclusive, Alone, Writing
    <3>4. CASE DeleteExpired(p) \/ CreateTrigger(p) \/ FailPurge(p)
      BY <2>1, <2>2, <3>4 DEF DeleteExpired, CreateTrigger, FailPurge, PurgeInv, PurgeRow, Exclusive,
           Alone, Writing
    <3> QED
      BY <1>7, <3>1, <3>2, <3>3, <3>4
  <2> QED
    BY <2>1, <2>2, <2>3, <2>4, <2>5 DEF PurgeInv, Expired
<1> QED
  BY <1>1, <1>2, <1>3, <1>4, <1>5, <1>6, <1>7 DEF RetentionNext

LEMMA PurgeStart == RetentionInit => PurgeInv
BY FS_EmptySet DEF RetentionInit, PurgeInv, PurgeRow, PurgePC, Exclusive, Expired

LEMMA PurgeKept == PurgeInv /\ [RetentionNext]_retentionVars => PurgeInv'
<1>1. PurgeInv /\ UNCHANGED retentionVars => PurgeInv'
  BY DEF retentionVars, PurgeInv, Exclusive, Alone, Writing, Expired
<1> QED
  BY <1>1, PurgeStep

\* For any number of purges, writers and days: the deletion of history is itself part of
\* the history.
THEOREM PurgesOnRecord == RetentionSpec => RemovalsAccounted
<1> DEFINE gone == audit_logs \ audit_logs'
           Removal ==
             gone # {} =>
               /\ \A entry \in gone : entry.action = "used" /\ entry.at + Keep < day
               /\ \E entry \in audit_logs' \ audit_logs :
                    entry.action = "audit.purge_completed" /\ entry.count = Cardinality(gone)
<1>1. PurgeInv /\ [RetentionNext]_retentionVars => [Removal]_audit_logs
  <2> SUFFICES ASSUME PurgeInv, RetentionNext, gone # {} PROVE Removal
    BY DEF retentionVars
  <2>1. PICK p \in Purge : CommitPurge(p)
    BY DEF RetentionNext, NextDay, WriterInsert, WriterCommit, WriterFail, WriterDelete, Initiate,
         AskForTable, DropTrigger, DeleteExpired, CreateTrigger, FailPurge, PurgeInv
  <2>2. /\ gone = script[p].gone
        /\ CompletionOf(p) \in audit_logs' \ audit_logs
    BY <2>1, PurgeRemoves
  <2>3. CompletionOf(p).action = "audit.purge_completed" /\ CompletionOf(p).count = Cardinality(gone)
    BY <2>2 DEF CompletionOf, Entry
  <2>4. \A entry \in gone : entry.action = "used" /\ entry.at + Keep < day
    <3> SUFFICES ASSUME NEW entry \in gone
                 PROVE  entry.action = "used" /\ entry.at + Keep < day
      OBVIOUS
    <3>1. entry \in audit_logs /\ entry.at + Keep < script[p].start /\ entry.action = "used"
      BY <2>2 DEF PurgeInv, Expired
    <3>2. entry.at \in Nat /\ script[p].start \in Nat /\ day \in Nat /\ script[p].start <= day
      BY <3>1 DEF PurgeInv, LogRow, PurgeRow
    <3> QED
      BY <3>1, <3>2, RetentionAssumption
  <2> QED
    BY <2>2, <2>3, <2>4
<1> QED
  BY <1>1, PurgeStart, PurgeKept, PTL DEF RetentionSpec, RemovalsAccounted

(***************************************************************************)
(* A purge counts no more rows than there are sessions: a session leaves   *)
(* one row, and then it is done.                                           *)
(***************************************************************************)
LogBounds ==
  /\ day <= MaxDay
  /\ \A w \in Writer : writer[w].at <= MaxDay
  /\ \A e \in audit_logs :
       /\ e.at <= MaxDay /\ e.count <= Cardinality(Writer)
       /\ e.action = "used" => e.by \in Writer /\ writer[e.by].pc = "done"
  /\ \A e, f \in audit_logs : e.action = "used" /\ f.action = "used" /\ e.by = f.by => e = f

LEMMA GoneCounted ==
  ASSUME PurgeInv, LogBounds, NEW p \in Purge
  PROVE  /\ Cardinality(script[p].gone) \in Nat
         /\ Cardinality(script[p].gone) <= Cardinality(Writer)
<1> DEFINE gone == script[p].gone
           by == [e \in gone |-> e.by]
<1>1. gone \subseteq audit_logs /\ \A e \in gone : e.action = "used"
  BY DEF PurgeInv, Expired
<1>2. IsFiniteSet(gone) /\ Cardinality(gone) \in Nat
  BY <1>1, FS_Subset, FS_CardinalityType DEF PurgeInv
<1>3. by \in [gone -> Writer] /\ \A e, f \in gone : by[e] = by[f] => e = f
  BY <1>1 DEF LogBounds
<1> HIDE DEF gone, by
<1>4. by \in Injection(gone, Writer)
  BY <1>3 DEF Injection, IsInjective
<1>5. Cardinality(gone) <= Cardinality(Writer)
  BY <1>4, SessionsFinite, FS_Injection
<1> QED
  BY <1>2, <1>5 DEF gone

LEMMA LogBoundsStep ==
  ASSUME PurgeInv, LogBounds, RetentionNext
  PROVE  LogBounds'
<1>0. /\ MaxDay \in Nat /\ day \in Nat /\ trigger = TRUE
      /\ writer \in [Writer -> [pc : {"ready", "open", "done", "failed", "refused"}, at : Nat]]
  BY RetentionAssumption DEF PurgeInv
<1>1. CASE NextDay
  BY <1>0, <1>1 DEF NextDay, LogBounds
<1>2. ASSUME NEW w \in Writer, WriterInsert(w) PROVE LogBounds'
  BY <1>0, <1>2 DEF WriterInsert, LogBounds
<1>3. ASSUME NEW w \in Writer, WriterCommit(w) PROVE LogBounds'
  <2> DEFINE new == Entry(w, "used", writer[w].at, 0)
  <2>1. /\ new.by = w /\ new.action = "used" /\ new.at = writer[w].at /\ new.count = 0
    BY DEF Entry
  <2>2. writer[w].pc = "open" /\ audit_logs' = audit_logs \cup {new} /\ UNCHANGED day
    BY <1>3 DEF WriterCommit
  <2>3. /\ writer'[w].pc = "done" /\ writer'[w].at = writer[w].at
        /\ \A x \in Writer : x # w => writer'[x] = writer[x]
    BY <1>0, <1>3 DEF WriterCommit
  <2>4. \A e \in audit_logs : e.action = "used" => e.by # w
    BY <2>2 DEF LogBounds
  <2>5. 0 <= Cardinality(Writer)
    BY SessionsFinite, FS_CardinalityType
  <2> HIDE DEF new
  <2>6. \A e \in audit_logs' :
          /\ e.at <= MaxDay /\ e.count <= Cardinality(Writer)
          /\ e.action = "used" => e.by \in Writer /\ writer'[e.by].pc = "done"
    BY <2>1, <2>2, <2>3, <2>4, <2>5 DEF LogBounds
  <2>7. \A e, f \in audit_logs' : e.action = "used" /\ f.action = "used" /\ e.by = f.by => e = f
    BY <2>1, <2>2, <2>4 DEF LogBounds
  <2>8. \A x \in Writer : writer'[x].at <= MaxDay
    BY <2>3 DEF LogBounds
  <2> QED
    BY <2>2, <2>6, <2>7, <2>8 DEF LogBounds
<1>4. ASSUME NEW w \in Writer, WriterFail(w) \/ WriterDelete(w) PROVE LogBounds'
  <2>1. /\ writer[w].pc \in {"open", "ready"} /\ UNCHANGED <<day, audit_logs>>
        /\ writer' = [writer EXCEPT ![w].pc = "failed"] \/ writer' = [writer EXCEPT ![w].pc = "refused"]
    BY <1>0, <1>4 DEF WriterFail, WriterDelete
  <2>2. /\ \A x \in Writer : x # w => writer'[x] = writer[x]
        /\ \A x \in Writer : writer'[x].at = writer[x].at
    BY <1>0, <2>1
  <2>3. \A e \in audit_logs : e.action = "used" => e.by # w
    BY <2>1 DEF LogBounds
  <2> QED
    BY <2>1, <2>2, <2>3 DEF LogBounds
<1>5. ASSUME NEW p \in Purge, CommitPurge(p) PROVE LogBounds'
  <2> DEFINE started == Entry(p, "audit.purge_initiated", script[p].start, 0)
             ended == Entry(p, "audit.purge_completed", script[p].start, Cardinality(script[p].gone))
  <2>1. /\ started.action # "used" /\ started.at = script[p].start /\ started.count = 0
        /\ ended.action # "used" /\ ended.at = script[p].start
        /\ ended.count = Cardinality(script[p].gone)
    BY DEF Entry
  <2>2. /\ audit_logs' = (audit_logs \ script[p].gone) \cup {started, ended}
        /\ UNCHANGED <<day, writer>>
    BY <1>5 DEF CommitPurge
  <2>3. script[p].start <= MaxDay
    <3>1. script[p].start \in Nat /\ script[p].start <= day /\ day <= MaxDay
      BY DEF PurgeInv, PurgeRow, LogBounds
    <3> QED
      BY <1>0, <3>1
  <2>4. Cardinality(script[p].gone) <= Cardinality(Writer) /\ 0 <= Cardinality(Writer)
    BY GoneCounted, SessionsFinite, FS_CardinalityType
  <2> HIDE DEF started, ended
  <2>5. \A e \in audit_logs' : e \in audit_logs \/ e = started \/ e = ended
    BY <2>2
  <2>6. \A e \in audit_logs' : /\ e.at <= MaxDay /\ e.count <= Cardinality(Writer)
                               /\ e.action = "used" => e \in audit_logs
    BY <2>1, <2>3, <2>4, <2>5 DEF LogBounds
  <2> QED
    BY <2>2, <2>6 DEF LogBounds
<1>6. ASSUME NEW p \in Purge,
             \/ Initiate(p) \/ AskForTable(p) \/ DropTrigger(p) \/ DeleteExpired(p)
             \/ CreateTrigger(p) \/ FailPurge(p)
      PROVE  LogBounds'
  <2>1. UNCHANGED <<day, audit_logs, writer>>
    BY <1>6 DEF Initiate, AskForTable, DropTrigger, DeleteExpired, CreateTrigger, FailPurge
  <2> QED
    BY <2>1 DEF LogBounds
<1> QED
  BY <1>1, <1>2, <1>3, <1>4, <1>5, <1>6 DEF RetentionNext

\* For any number of purges, of sessions (as long as they are finitely many) and of days:
\* the table holds what it should, a purge deletes rows of the table, and counts no more
\* of them than there are sessions.
THEOREM RetentionTyped == RetentionSpec => []RetentionTypeOK
<1>1. RetentionInit => LogBounds
  BY RetentionAssumption DEF RetentionInit, LogBounds
<1>2. PurgeInv /\ LogBounds /\ [RetentionNext]_retentionVars => LogBounds'
  <2>1. LogBounds /\ UNCHANGED retentionVars => LogBounds'
    BY DEF retentionVars, LogBounds
  <2> QED
    BY <2>1, LogBoundsStep
<1>3. PurgeInv /\ LogBounds => RetentionTypeOK
  <2> SUFFICES ASSUME PurgeInv, LogBounds PROVE RetentionTypeOK
    OBVIOUS
  <2>0. MaxDay \in Nat /\ Cardinality(Writer) \in Nat
    BY RetentionAssumption, SessionsFinite, FS_CardinalityType
  <2>1. day \in 0..MaxDay /\ trigger \in BOOLEAN
    BY <2>0 DEF PurgeInv, LogBounds
  <2>2. audit_logs \subseteq
          [by : Purge \cup Writer, action : {"used", "audit.purge_initiated", "audit.purge_completed"},
           at : 0..MaxDay, count : 0..Cardinality(Writer)]
    <3> SUFFICES ASSUME NEW e \in audit_logs
                 PROVE  e \in [by : Purge \cup Writer,
                               action : {"used", "audit.purge_initiated", "audit.purge_completed"},
                               at : 0..MaxDay, count : 0..Cardinality(Writer)]
      OBVIOUS
    <3>1. e \in LogRow /\ e.at <= MaxDay /\ e.count <= Cardinality(Writer)
      BY DEF PurgeInv, LogBounds
    <3>2. e.at \in 0..MaxDay /\ e.count \in 0..Cardinality(Writer)
      BY <2>0, <3>1 DEF LogRow
    <3> QED
      BY <3>1, <3>2 DEF LogRow
  <2>3. script \in [Purge -> [pc : {"ready", "initiated", "waiting", "dropped", "deleted",
                                    "recreated", "done", "failed"},
                              start : 0..MaxDay, gone : SUBSET audit_logs]]
    <3>1. \A p \in Purge : script[p].start \in 0..MaxDay /\ script[p].gone \in SUBSET audit_logs
      BY <2>0, <2>1 DEF PurgeInv, PurgeRow, Expired
    <3>2. script \in [Purge -> PurgeRow]
      BY DEF PurgeInv
    <3> QED
      BY <3>1, <3>2 DEF PurgeRow, PurgePC
  <2>4. writer \in [Writer -> [pc : {"ready", "open", "done", "failed", "refused"}, at : 0..MaxDay]]
    <3>1. writer \in [Writer -> [pc : {"ready", "open", "done", "failed", "refused"}, at : Nat]]
      BY DEF PurgeInv
    <3>2. \A w \in Writer : writer[w].at \in 0..MaxDay
      BY <2>0, <3>1 DEF LogBounds
    <3> QED
      BY <3>1, <3>2
  <2> QED
    BY <2>1, <2>2, <2>3, <2>4 DEF RetentionTypeOK
<1> QED
  BY <1>1, <1>2, <1>3, PurgeStart, PurgeKept, PTL DEF RetentionSpec

--------------------------------------------------------------------------------
(* Permissions *)

Assign == {"assign_permission", "assign_role"}

\* What a request k holds agrees with the tables it has read or written.
Lives(k, r, l) ==
  /\ k.pc = "new" => k.op = "none" /\ k.entitled = FALSE
  /\ k.pc \in {"seed", "catalog"} => k.op \in {"list", "assign_permission"}
  /\ k.pc = "load" => k.op \in Assign
  /\ k.pc \in {"save", "audit"} => k.op \in Assign \cup {"create_role"}
  /\ k.pc \in {"roles", "permissions"} => k.op = "use"
  /\ k.pc # "done" => k.status = 0
  /\ k.op = "create_role" => k.about \in Role \X {"created"}
  /\ k.op \in Assign => k.about \in Link
  /\ k.op \in Assign /\ (k.status = 200 \/ k.pc = "audit") => k.about \in l
  /\ k.op = "use" /\ k.entitled =>
       /\ k.status # 403
       /\ k.pc = "roles" => \E role \in r : <<k.who, role>> \in l /\ <<role, k.about[2]>> \in l
       /\ k.pc = "permissions" => \E role \in k.held : <<role, k.about[2]>> \in l

\* k has made an assignment and not recorded it yet.
Due(k) == k.pc = "audit" /\ k.op \in Assign

CallShape ==
  /\ call = [c \in Call |-> call[c]]
  /\ \A c \in Call : DOMAIN call[c] = DOMAIN NewCall

(***************************************************************************)
(* GrantsAccounted counts the entries of an assignment in force.  That     *)
(* there is never a second one follows from there being no second request  *)
(* with the same one to record, and from that one having none yet.         *)
(***************************************************************************)
AccessInv ==
  /\ CallShape
  /\ trail \in Seq(Link \cup (Role \X {"created"}))
  /\ \A c \in Call : Lives(call[c], roles, links)
  /\ \A i \in DOMAIN trail : trail[i][2] = "created" \/ trail[i] \in links
  /\ \A link \in links :
       link \in Link /\ (Recorded(link) = 1 \/ (Recorded(link) = 0 /\ InFlight(link)))
  /\ \A c \in Call : Due(call[c]) => Recorded(call[c].about) = 0
  /\ \A c, d \in Call : Due(call[c]) /\ Due(call[d]) /\ call[c].about = call[d].about => c = d

LEMMA LinksNotCreated ==
  ASSUME NEW link \in Link
  PROVE  link[2] # "created"
BY AccessAssumption DEF Link, Unknown

\* Nothing takes roles or assignments away: what a request relies on lasts.
LEMMA LivesOn ==
  ASSUME NEW k, NEW r, NEW l, NEW more, NEW l2, r \subseteq more, l \subseteq l2, Lives(k, r, l)
  PROVE  Lives(k, more, l2)
<1>1. (\E role \in r : <<k.who, role>> \in l /\ <<role, k.about[2]>> \in l) =>
        \E role \in more : <<k.who, role>> \in l2 /\ <<role, k.about[2]>> \in l2
  OBVIOUS
<1>2. (\E role \in k.held : <<role, k.about[2]>> \in l) => \E role \in k.held : <<role, k.about[2]>> \in l2
  OBVIOUS
<1> QED
  BY <1>1, <1>2 DEF Lives

\* Request c moves on; it assigns nothing, and records nothing.
LEMMA CallFrame ==
  ASSUME AccessInv, NEW c \in Call, CallShape', \A d \in Call : d # c => call'[d] = call[d],
         UNCHANGED <<links, trail>>, roles \subseteq roles',
         Lives(call'[c], roles', links), ~Due(call'[c]),
         call[c].pc \in {"audit", "cut"} /\ call[c].op # "create_role" =>
           call'[c].pc = "cut" /\ call'[c].about = call[c].about
  PROVE  AccessInv'
<1>1. \A d \in Call : Lives(call'[d], roles', links')
  BY LivesOn DEF AccessInv
<1>2. \A link : Recorded(link)' = Recorded(link)
  BY DEF Recorded
<1>3. \A d \in Call : Due(call'[d]) => d # c /\ Due(call[d]) /\ call'[d].about = call[d].about
  OBVIOUS
<1>4. \A link \in links : InFlight(link) => InFlight(link)'
  <2> SUFFICES ASSUME NEW link \in links, NEW d \in Call,
                      call[d].about = link, call[d].pc \in {"audit", "cut"}
               PROVE  call'[d].about = link /\ call'[d].pc \in {"audit", "cut"}
    BY DEF InFlight
  <2>1. link \in Link
    BY DEF AccessInv
  <2>2. call[d].op # "create_role"
    <3>1. \A x \in Role \X {"created"} : x[2] = "created"
      OBVIOUS
    <3> QED
      BY <2>1, <3>1, LinksNotCreated DEF AccessInv, Lives
  <2> QED
    BY <2>2
<1>5. \A link \in links' :
        link \in Link /\ (Recorded(link)' = 1 \/ (Recorded(link)' = 0 /\ InFlight(link)'))
  BY <1>2, <1>4 DEF AccessInv
<1>6. \A d \in Call : (Due(call[d]) => Recorded(call[d].about) = 0)'
  <2> SUFFICES ASSUME NEW d \in Call, Due(call'[d])
               PROVE  (Recorded(call[d].about) = 0)'
    OBVIOUS
  <2>1. Due(call[d]) /\ call'[d].about = call[d].about /\ Recorded(call[d].about) = 0
    BY <1>3 DEF AccessInv
  <2> QED
    BY <2>1 DEF Recorded
<1>7. \A d, e \in Call : Due(call'[d]) /\ Due(call'[e]) /\ call'[d].about = call'[e].about => d = e
  BY <1>3 DEF AccessInv
<1>8. /\ trail' \in Seq(Link \cup (Role \X {"created"}))
      /\ \A i \in DOMAIN trail' : trail'[i][2] = "created" \/ trail'[i] \in links'
  BY DEF AccessInv
<1> QED
  BY <1>1, <1>5, <1>6, <1>7, <1>8 DEF AccessInv

\* What a request holds after it has been written to, field by field.
Others(c) == \A d \in Call : d # c => call'[d] = call[d]

SameHeld(c) == call'[c].held = call[c].held /\ call'[c].missing = call[c].missing

EnteredAs(c, op, who, about, pc, status) ==
  call' = [call EXCEPT ![c].op = op, ![c].who = who, ![c].about = about, ![c].pc = pc, ![c].status = status]

LEMMA EnteredFields ==
  ASSUME CallShape, NEW c \in Call, NEW op, NEW who, NEW about, NEW pc, NEW status,
         EnteredAs(c, op, who, about, pc, status)
  PROVE  /\ CallShape' /\ Others(c) /\ SameHeld(c)
         /\ call'[c].op = op /\ call'[c].about = about /\ call'[c].pc = pc /\ call'[c].status = status
         /\ call'[c].entitled = call[c].entitled
<1>1. \A d \in Call : DOMAIN call[d] = {"pc", "op", "who", "about", "scoped", "missing", "held", "entitled", "status"}
  BY DEF CallShape, NewCall
<1>2. call'[c].op = op /\ call'[c].about = about /\ call'[c].pc = pc /\ call'[c].status = status
  BY <1>1 DEF CallShape, EnteredAs
<1>3. call'[c].entitled = call[c].entitled /\ DOMAIN call'[c] = DOMAIN call[c]
  BY <1>1 DEF CallShape, EnteredAs
<1>4. Others(c)
  BY DEF CallShape, EnteredAs, Others
<1>5. call' = [d \in Call |-> call'[d]]
  BY DEF CallShape, EnteredAs
<1>6. SameHeld(c)
  BY <1>1 DEF CallShape, EnteredAs, SameHeld
<1> QED
  BY <1>2, <1>3, <1>4, <1>5, <1>6 DEF CallShape, Others

Used(c, op, who, about, pc, entitled) ==
  call' = [call EXCEPT ![c].op = op, ![c].who = who, ![c].about = about, ![c].pc = pc,
                       ![c].entitled = entitled]

LEMMA UsedFields ==
  ASSUME CallShape, NEW c \in Call, NEW op, NEW who, NEW about, NEW pc, NEW entitled,
         Used(c, op, who, about, pc, entitled)
  PROVE  /\ CallShape' /\ Others(c) /\ SameHeld(c)
         /\ call'[c].op = op /\ call'[c].who = who /\ call'[c].about = about /\ call'[c].pc = pc
         /\ call'[c].entitled = entitled /\ call'[c].status = call[c].status
<1>1. \A d \in Call : DOMAIN call[d] = {"pc", "op", "who", "about", "scoped", "missing", "held", "entitled", "status"}
  BY DEF CallShape, NewCall
<1>2. call'[c].op = op /\ call'[c].who = who /\ call'[c].about = about /\ call'[c].pc = pc
  BY <1>1 DEF CallShape, Used
<1>3. /\ call'[c].entitled = entitled /\ call'[c].status = call[c].status
      /\ DOMAIN call'[c] = DOMAIN call[c]
  BY <1>1 DEF CallShape, Used
<1>4. Others(c)
  BY DEF CallShape, Used, Others
<1>5. call' = [d \in Call |-> call'[d]]
  BY DEF CallShape, Used
<1>6. SameHeld(c)
  BY <1>1 DEF CallShape, Used, SameHeld
<1> QED
  BY <1>2, <1>3, <1>4, <1>5, <1>6 DEF CallShape, Others

\* The fields Lives looks at, without those that say where the request is.
SameCall(c) ==
  /\ call'[c].op = call[c].op /\ call'[c].who = call[c].who /\ call'[c].about = call[c].about
  /\ call'[c].entitled = call[c].entitled

LEMMA AnswerFields ==
  ASSUME CallShape, NEW c \in Call, NEW status, call' = Answer(c, status)
  PROVE  /\ CallShape' /\ Others(c) /\ SameHeld(c) /\ SameCall(c)
         /\ call'[c].pc = "done" /\ call'[c].status = status
<1>1. \A d \in Call : DOMAIN call[d] = {"pc", "op", "who", "about", "scoped", "missing", "held", "entitled", "status"}
  BY DEF CallShape, NewCall
<1>2. call'[c].pc = "done" /\ call'[c].status = status
  BY <1>1 DEF CallShape, Answer
<1>3. SameCall(c) /\ DOMAIN call'[c] = DOMAIN call[c]
  BY <1>1 DEF CallShape, Answer, SameCall
<1>4. Others(c)
  BY DEF CallShape, Answer, Others
<1>5. call' = [d \in Call |-> call'[d]]
  BY DEF CallShape, Answer
<1>6. SameHeld(c)
  BY <1>1 DEF CallShape, Answer, SameHeld
<1> QED
  BY <1>2, <1>3, <1>4, <1>5, <1>6 DEF CallShape, Others

Moved(c, pc) == call' = [call EXCEPT ![c].pc = pc]

LEMMA MovedFields ==
  ASSUME CallShape, NEW c \in Call, NEW pc, Moved(c, pc)
  PROVE  /\ CallShape' /\ Others(c) /\ SameHeld(c) /\ SameCall(c)
         /\ call'[c].pc = pc /\ call'[c].status = call[c].status
<1>1. \A d \in Call : DOMAIN call[d] = {"pc", "op", "who", "about", "scoped", "missing", "held", "entitled", "status"}
  BY DEF CallShape, NewCall
<1>2. call'[c].pc = pc /\ call'[c].status = call[c].status
  BY <1>1 DEF CallShape, Moved
<1>3. SameCall(c) /\ DOMAIN call'[c] = DOMAIN call[c]
  BY <1>1 DEF CallShape, Moved, SameCall
<1>4. Others(c)
  BY DEF CallShape, Moved, Others
<1>5. call' = [d \in Call |-> call'[d]]
  BY DEF CallShape, Moved
<1>6. SameHeld(c)
  BY <1>1 DEF CallShape, Moved, SameHeld
<1> QED
  BY <1>2, <1>3, <1>4, <1>5, <1>6 DEF CallShape, Others

Sought(c, missing, pc, status) ==
  call' = [call EXCEPT ![c].missing = missing, ![c].pc = pc, ![c].status = status]

LEMMA SoughtFields ==
  ASSUME CallShape, NEW c \in Call, NEW missing, NEW pc, NEW status, Sought(c, missing, pc, status)
  PROVE  /\ CallShape' /\ Others(c) /\ SameCall(c)
         /\ call'[c].pc = pc /\ call'[c].status = status
         /\ call'[c].held = call[c].held /\ call'[c].missing = missing
<1>1. \A d \in Call : DOMAIN call[d] = {"pc", "op", "who", "about", "scoped", "missing", "held", "entitled", "status"}
  BY DEF CallShape, NewCall
<1>2. call'[c].pc = pc /\ call'[c].status = status
  BY <1>1 DEF CallShape, Sought
<1>3. SameCall(c) /\ DOMAIN call'[c] = DOMAIN call[c]
  BY <1>1 DEF CallShape, Sought, SameCall
<1>4. Others(c)
  BY DEF CallShape, Sought, Others
<1>5. call' = [d \in Call |-> call'[d]]
  BY DEF CallShape, Sought
<1>6. call'[c].held = call[c].held /\ call'[c].missing = missing
  BY <1>1 DEF CallShape, Sought
<1> QED
  BY <1>2, <1>3, <1>4, <1>5, <1>6 DEF CallShape, Others

Unscoped(c, pc) == call' = [call EXCEPT ![c].pc = pc, ![c].scoped = FALSE]

LEMMA UnscopedFields ==
  ASSUME CallShape, NEW c \in Call, NEW pc, Unscoped(c, pc)
  PROVE  /\ CallShape' /\ Others(c) /\ SameHeld(c) /\ SameCall(c)
         /\ call'[c].pc = pc /\ call'[c].status = call[c].status
<1>1. \A d \in Call : DOMAIN call[d] = {"pc", "op", "who", "about", "scoped", "missing", "held", "entitled", "status"}
  BY DEF CallShape, NewCall
<1>2. call'[c].pc = pc /\ call'[c].status = call[c].status
  BY <1>1 DEF CallShape, Unscoped
<1>3. SameCall(c) /\ DOMAIN call'[c] = DOMAIN call[c]
  BY <1>1 DEF CallShape, Unscoped, SameCall
<1>4. Others(c)
  BY DEF CallShape, Unscoped, Others
<1>5. call' = [d \in Call |-> call'[d]]
  BY DEF CallShape, Unscoped
<1>6. SameHeld(c)
  BY <1>1 DEF CallShape, Unscoped, SameHeld
<1> QED
  BY <1>2, <1>3, <1>4, <1>5, <1>6 DEF CallShape, Others

Fetched(c, held, pc) == call' = [call EXCEPT ![c].held = held, ![c].pc = pc]

LEMMA FetchedFields ==
  ASSUME CallShape, NEW c \in Call, NEW held, NEW pc, Fetched(c, held, pc)
  PROVE  /\ CallShape' /\ Others(c) /\ SameCall(c)
         /\ call'[c].pc = pc /\ call'[c].held = held /\ call'[c].status = call[c].status
         /\ call'[c].missing = call[c].missing
<1>1. \A d \in Call : DOMAIN call[d] = {"pc", "op", "who", "about", "scoped", "missing", "held", "entitled", "status"}
  BY DEF CallShape, NewCall
<1>2. call'[c].pc = pc /\ call'[c].held = held /\ call'[c].status = call[c].status
  BY <1>1 DEF CallShape, Fetched
<1>3. SameCall(c) /\ DOMAIN call'[c] = DOMAIN call[c]
  BY <1>1 DEF CallShape, Fetched, SameCall
<1>4. Others(c)
  BY DEF CallShape, Fetched, Others
<1>5. call' = [d \in Call |-> call'[d]]
  BY DEF CallShape, Fetched
<1>6. call'[c].missing = call[c].missing
  BY <1>1 DEF CallShape, Fetched
<1> QED
  BY <1>2, <1>3, <1>4, <1>5, <1>6 DEF CallShape, Others

LEMMA EnterKeeps ==
  ASSUME AccessInv, NEW c \in Call, NEW op \in {"list", "create_role"} \cup Assign, NEW about,
         NEW pc \in {"seed", "load", "save"}, Enter(c, op, about, pc),
         pc = "seed" => op \in {"list", "assign_permission"},
         pc = "load" => op \in Assign, pc = "save" => op = "create_role",
         op = "create_role" => about \in Role \X {"created"}, op \in Assign => about \in Link
  PROVE  AccessInv'
<1>1. PICK who \in Person :
        EnteredAs(c, op, who, about, IF is_owner_or_admin(who) THEN pc ELSE "done",
                IF is_owner_or_admin(who) THEN 0 ELSE 403)
  BY DEF Enter, EnteredAs
<1>2. PICK pc2, status2 :
        /\ EnteredAs(c, op, who, about, pc2, status2)
        /\ (pc2 = pc /\ status2 = 0) \/ (pc2 = "done" /\ status2 = 403)
  <2>1. CASE is_owner_or_admin(who)
    <3>1. EnteredAs(c, op, who, about, pc, 0)
      BY <1>1, <2>1 DEF EnteredAs
    <3> QED
      BY <3>1
  <2>2. CASE ~is_owner_or_admin(who)
    <3>1. EnteredAs(c, op, who, about, "done", 403)
      BY <1>1, <2>2 DEF EnteredAs
    <3> QED
      BY <3>1
  <2> QED
    BY <2>1, <2>2
<1>3. /\ CallShape' /\ Others(c)
      /\ call'[c].op = op /\ call'[c].about = about /\ call'[c].pc = pc2 /\ call'[c].status = status2
  BY <1>2, EnteredFields DEF AccessInv
<1>4. call[c].pc = "new" /\ UNCHANGED <<links, trail, roles>>
  BY DEF Enter
<1>5. op # "use" /\ (op \in Assign \/ op = "list" \/ op = "create_role")
  BY DEF Assign
<1>6. Lives(call'[c], roles', links')
  BY <1>2, <1>3, <1>5 DEF Lives
<1>7. ~Due(call'[c])
  BY <1>2, <1>3 DEF Due
<1> QED
  BY <1>3, <1>4, <1>6, <1>7, CallFrame DEF Others

LEMMA SeedReadKeeps ==
  ASSUME AccessInv, NEW c \in Call, SeedRead(c)
  PROVE  AccessInv'
<1>1. PICK pc2, status2 :
        /\ Sought(c, Code \ catalog, pc2, status2)
        /\ \/ pc2 = "catalog" /\ status2 = 0
           \/ pc2 = "done" /\ status2 = 200 /\ call[c].op = "list"
           \/ pc2 = "load" /\ status2 = 0 /\ call[c].op # "list"
  <2>1. CASE ~(Code \subseteq catalog)
    <3>1. Sought(c, Code \ catalog, "catalog", 0)
      BY <2>1 DEF Sought, SeedRead
    <3> QED
      BY <3>1
  <2>2. CASE Code \subseteq catalog /\ call[c].op = "list"
    <3>1. Sought(c, Code \ catalog, "done", 200)
      BY <2>2 DEF Sought, SeedRead
    <3> QED
      BY <3>1, <2>2
  <2>3. CASE Code \subseteq catalog /\ call[c].op # "list"
    <3>1. Sought(c, Code \ catalog, "load", 0)
      BY <2>3 DEF Sought, SeedRead
    <3> QED
      BY <3>1, <2>3
  <2> QED
    BY <2>1, <2>2, <2>3
<1>2. CallShape' /\ Others(c) /\ SameCall(c) /\ call'[c].pc = pc2 /\ call'[c].status = status2
  BY <1>1, SoughtFields DEF AccessInv
<1>3. call[c].pc = "seed" /\ UNCHANGED <<links, trail, roles>>
  BY DEF SeedRead
<1>4. Lives(call[c], roles, links)
  BY DEF AccessInv
<1>5. Lives(call'[c], roles', links')
  BY <1>1, <1>2, <1>3, <1>4 DEF Lives, SameCall, Assign
<1>6. ~Due(call'[c])
  BY <1>1, <1>2 DEF Due
<1> QED
  BY <1>2, <1>3, <1>5, <1>6, CallFrame DEF Others

LEMMA SeedCommitKeeps ==
  ASSUME AccessInv, NEW c \in Call, SeedCommit(c)
  PROVE  AccessInv'
<1>1. \/ call' = Answer(c, 500)
      \/ call' = Answer(c, 200) /\ call[c].op = "list"
      \/ Unscoped(c, "load") /\ call[c].op # "list"
  BY DEF SeedCommit, Unscoped
<1>2. PICK pc2, status2 :
        /\ CallShape' /\ Others(c) /\ SameCall(c) /\ call'[c].pc = pc2 /\ call'[c].status = status2
        /\ \/ pc2 = "done" /\ status2 = 500
           \/ pc2 = "done" /\ status2 = 200 /\ call[c].op = "list"
           \/ pc2 = "load" /\ status2 = call[c].status /\ call[c].op # "list"
  <2>1. CASE call' = Answer(c, 500)
    <3>1. /\ CallShape' /\ Others(c) /\ SameCall(c)
          /\ call'[c].pc = "done" /\ call'[c].status = 500
      BY <2>1, AnswerFields DEF AccessInv
    <3> QED
      BY <3>1
  <2>2. CASE call' = Answer(c, 200) /\ call[c].op = "list"
    <3>1. /\ CallShape' /\ Others(c) /\ SameCall(c)
          /\ call'[c].pc = "done" /\ call'[c].status = 200
      BY <2>2, AnswerFields DEF AccessInv
    <3> QED
      BY <2>2, <3>1
  <2>3. CASE Unscoped(c, "load") /\ call[c].op # "list"
    <3>1. /\ CallShape' /\ Others(c) /\ SameCall(c)
          /\ call'[c].pc = "load" /\ call'[c].status = call[c].status
      BY <2>3, UnscopedFields DEF AccessInv
    <3> QED
      BY <2>3, <3>1
  <2> QED
    BY <1>1, <2>1, <2>2, <2>3
<1>3. call[c].pc = "catalog" /\ UNCHANGED <<links, trail, roles>>
  BY DEF SeedCommit
<1>4. Lives(call[c], roles, links)
  BY DEF AccessInv
<1>5. Lives(call'[c], roles', links')
  BY <1>2, <1>3, <1>4 DEF Lives, SameCall, Assign
<1>6. ~Due(call'[c])
  BY <1>2 DEF Due
<1> QED
  BY <1>2, <1>3, <1>5, <1>6, CallFrame DEF Others

LEMMA LoadKeeps ==
  ASSUME AccessInv, NEW c \in Call, Load(c)
  PROVE  AccessInv'
<1>1. \/ call' = Answer(c, 404)
      \/ call' = Answer(c, 200) /\ call[c].about \in links
      \/ Moved(c, "save")
  BY DEF Load, Moved
<1>2. PICK pc2, status2 :
        /\ CallShape' /\ Others(c) /\ SameCall(c) /\ call'[c].pc = pc2 /\ call'[c].status = status2
        /\ \/ pc2 = "done" /\ status2 = 404
           \/ pc2 = "done" /\ status2 = 200 /\ call[c].about \in links
           \/ pc2 = "save" /\ status2 = call[c].status
  <2>1. CASE call' = Answer(c, 404)
    BY <2>1, AnswerFields DEF AccessInv
  <2>2. CASE call' = Answer(c, 200) /\ call[c].about \in links
    BY <2>2, AnswerFields DEF AccessInv
  <2>3. CASE Moved(c, "save")
    <3>1. /\ CallShape' /\ Others(c) /\ SameCall(c)
          /\ call'[c].pc = "save" /\ call'[c].status = call[c].status
      BY <2>3, MovedFields DEF AccessInv
    <3> QED
      BY <3>1
  <2> QED
    BY <1>1, <2>1, <2>2, <2>3
<1>3. call[c].pc = "load" /\ UNCHANGED <<links, trail, roles>>
  BY DEF Load
<1>4. Lives(call[c], roles, links)
  BY DEF AccessInv
<1>5. Lives(call'[c], roles', links')
  BY <1>2, <1>3, <1>4 DEF Lives, SameCall, Assign
<1>6. ~Due(call'[c])
  BY <1>2 DEF Due
<1> QED
  BY <1>2, <1>3, <1>5, <1>6, CallFrame DEF Others

\* A commit of a request that makes an assignment, one that makes a role, or a refused one.
LEMMA SaveKeeps ==
  ASSUME AccessInv, NEW c \in Call, Save(c)
  PROVE  AccessInv'
<1> DEFINE about == call[c].about
<1>0. /\ call[c].pc = "save" /\ trail' = trail /\ Lives(call[c], roles, links)
      /\ call[c].op \in Assign \cup {"create_role"} /\ call[c].status = 0
  BY DEF Save, AccessInv, Lives
<1>1. CASE call' = Answer(c, 500) /\ UNCHANGED <<roles, links>>
  <2>1. CallShape' /\ Others(c) /\ SameCall(c) /\ call'[c].pc = "done" /\ call'[c].status = 500
    BY <1>1, AnswerFields DEF AccessInv
  <2>2. Lives(call'[c], roles', links')
    BY <1>0, <1>1, <2>1 DEF Lives, SameCall, Assign
  <2>3. ~Due(call'[c])
    BY <2>1 DEF Due
  <2> QED
    BY <1>0, <1>1, <2>1, <2>2, <2>3, CallFrame DEF Others
<1>2. CASE call[c].op = "create_role" /\ roles \subseteq roles' /\ UNCHANGED links /\ Moved(c, "audit")
  <2>1. CallShape' /\ Others(c) /\ SameCall(c) /\ call'[c].pc = "audit" /\ call'[c].status = 0
    BY <1>0, <1>2, MovedFields DEF AccessInv
  <2>2. Lives(call'[c], roles', links')
    BY <1>0, <1>2, <2>1 DEF Lives, SameCall, Assign
  <2>3. ~Due(call'[c])
    BY <1>2, <2>1 DEF Due, SameCall, Assign
  <2> QED
    BY <1>0, <1>2, <2>1, <2>2, <2>3, CallFrame DEF Others
<1>3. CASE /\ call[c].op # "create_role" /\ about \notin links
           /\ links' = links \cup {about} /\ UNCHANGED roles /\ Moved(c, "audit")
  <2>1. CallShape' /\ Others(c) /\ SameCall(c) /\ call'[c].pc = "audit" /\ call'[c].status = 0
    BY <1>0, <1>3, MovedFields DEF AccessInv
  <2>2. call[c].op \in Assign /\ about \in Link
    BY <1>0, <1>3 DEF Lives
  <2>3. Lives(call'[c], roles', links')
    BY <1>0, <1>3, <2>1, <2>2 DEF Lives, SameCall, Assign
  <2>4. \A d \in Call : d # c => Lives(call'[d], roles', links')
    BY <1>3, <2>1, LivesOn DEF AccessInv, Others
  <2>5. \A link : Recorded(link)' = Recorded(link)
    BY <1>0 DEF Recorded
  <2>6. Recorded(about) = 0
    <3>1. \A i \in DOMAIN trail : trail[i] # about
      BY <1>3, <2>2, LinksNotCreated DEF AccessInv
    <3>2. {i \in DOMAIN trail : trail[i] = about} = {}
      BY <3>1
    <3> QED
      BY <3>2, FS_EmptySet DEF Recorded
  <2>7. InFlight(about)'
    BY <2>1 DEF InFlight, SameCall
  <2>8. \A link \in links : InFlight(link) => InFlight(link)'
    BY <1>0, <2>1 DEF InFlight, Others
  <2>9. \A link \in links' :
          link \in Link /\ (Recorded(link)' = 1 \/ (Recorded(link)' = 0 /\ InFlight(link)'))
    <3> TAKE link \in links'
    <3>1. CASE link = about
      <4>1. Recorded(link)' = 0
        BY <2>5, <2>6, <3>1
      <4>2. InFlight(link)'
        BY <2>1, <3>1 DEF InFlight, SameCall
      <4> QED
        BY <2>2, <3>1, <4>1, <4>2
    <3>2. CASE link \in links
      BY <2>5, <2>8, <3>2 DEF AccessInv
    <3> QED
      BY <1>3, <3>1, <3>2
  <2>10. \A d \in Call : Due(call'[d]) => call'[d].about = call[d].about /\ (d = c \/ Due(call[d]))
    BY <2>1 DEF Others, SameCall
  <2>11. \A d \in Call : (Due(call[d]) => Recorded(call[d].about) = 0)'
    <3> SUFFICES ASSUME NEW d \in Call, Due(call'[d])
                 PROVE  (Recorded(call[d].about) = 0)'
      OBVIOUS
    <3>1. call'[d].about = call[d].about /\ Recorded(call[d].about) = 0
      BY <2>6, <2>10 DEF AccessInv
    <3> QED
      BY <1>0, <3>1 DEF Recorded
  <2>12. \A d \in Call : Due(call[d]) => call[d].about \in links
    BY DEF AccessInv, Due, Lives
  <2>13. \A d, e \in Call : Due(call'[d]) /\ Due(call'[e]) /\ call'[d].about = call'[e].about => d = e
    BY <1>3, <2>10, <2>12 DEF AccessInv
  <2>14. \A i \in DOMAIN trail' : trail'[i][2] = "created" \/ trail'[i] \in links'
    BY <1>0, <1>3 DEF AccessInv
  <2>15. CallShape' /\ trail' \in Seq(Link \cup (Role \X {"created"}))
    BY <1>0, <2>1 DEF AccessInv
  <2> QED
    BY <2>3, <2>4, <2>9, <2>11, <2>13, <2>14, <2>15 DEF AccessInv
<1> QED
  BY <1>1, <1>2, <1>3 DEF Save, Moved

\* One more entry raises the count of what it names by one, and no other.
LEMMA OneMoreEntry ==
  ASSUME NEW S, trail \in Seq(S), NEW entry \in S, trail' = Append(trail, entry), NEW link
  PROVE  /\ link # entry => Recorded(link)' = Recorded(link)
         /\ link = entry /\ Recorded(link) = 0 => Recorded(link)' = 1
<1> DEFINE N == Len(trail)
<1>1. /\ N \in Nat /\ DOMAIN trail = 1..N /\ DOMAIN trail' = 1..(N + 1)
      /\ \A i \in 1..N : trail'[i] = trail[i]
      /\ trail'[N + 1] = entry
  BY AppendProperties
<1> DEFINE Before == {i \in DOMAIN trail : trail[i] = link}
           After == {i \in DOMAIN trail' : trail'[i] = link}
<1> HIDE DEF N
<1>2. ASSUME link # entry PROVE After = Before
  BY <1>1, <1>2
<1>3. ASSUME link = entry PROVE After = Before \cup {N + 1} /\ N + 1 \notin Before
  BY <1>1, <1>3
<1>4. IsFiniteSet(Before)
  <2>1. IsFiniteSet(1..N)
    BY <1>1, FS_Interval
  <2> QED
    BY <1>1, <2>1, FS_Subset
<1>5. Recorded(link) = Cardinality(Before) /\ Recorded(link)' = Cardinality(After)
  BY DEF Recorded
<1> HIDE DEF Before, After
<1>6. ASSUME link = entry, Recorded(link) = 0 PROVE Recorded(link)' = 1
  <2>1. Cardinality(After) = Cardinality(Before) + 1
    BY <1>3, <1>4, <1>6, FS_AddElement
  <2> QED
    BY <1>5, <1>6, <2>1
<1> QED
  BY <1>2, <1>5, <1>6

LEMMA RecordKeeps ==
  ASSUME AccessInv, NEW c \in Call, Record(c)
  PROVE  AccessInv'
<1> DEFINE about == call[c].about
           Note == Link \cup (Role \X {"created"})
<1>0. /\ call[c].pc = "audit" /\ trail' = Append(trail, about) /\ UNCHANGED <<roles, links>>
      /\ Lives(call[c], roles, links) /\ call[c].op \in Assign \cup {"create_role"}
      /\ trail \in Seq(Note)
  BY DEF Record, AccessInv, Lives
<1>1. CallShape' /\ Others(c) /\ SameCall(c) /\ call'[c].pc = "done" /\ call'[c].status = 200
  BY AnswerFields DEF Record, AccessInv
<1>2. about \in Note
  BY <1>0 DEF Lives
<1>3. \A d \in Call : Lives(call'[d], roles', links')
  <2>1. Lives(call'[c], roles', links')
    BY <1>0, <1>1 DEF Lives, SameCall, Assign
  <2>2. \A d \in Call : d # c => Lives(call'[d], roles', links')
    BY <1>0, <1>1 DEF AccessInv, Others
  <2> QED
    BY <2>1, <2>2
<1>4. \A link : /\ link # about => Recorded(link)' = Recorded(link)
                /\ link = about /\ Recorded(link) = 0 => Recorded(link)' = 1
  BY <1>0, <1>2, OneMoreEntry
<1>5. about \in links => Due(call[c]) /\ Recorded(about) = 0
  <2>1. about \in links => about[2] # "created"
    BY LinksNotCreated DEF AccessInv
  <2>2. about \in links => call[c].op # "create_role"
    BY <1>0, <2>1 DEF Lives
  <2> QED
    BY <1>0, <2>2 DEF Due, AccessInv
<1>6. \A link \in links' :
        link \in Link /\ (Recorded(link)' = 1 \/ (Recorded(link)' = 0 /\ InFlight(link)'))
  <2> TAKE link \in links'
  <2>0. link \in links /\ link \in Link
    BY <1>0 DEF AccessInv
  <2>1. CASE link = about
    BY <1>4, <1>5, <2>0, <2>1
  <2>2. CASE link # about
    <3>1. InFlight(link) => InFlight(link)'
      BY <1>1, <2>2 DEF InFlight, Others
    <3> QED
      BY <1>4, <2>0, <2>2, <3>1 DEF AccessInv
  <2> QED
    BY <2>1, <2>2
<1>7. \A d \in Call : Due(call'[d]) => d # c /\ Due(call[d]) /\ call'[d].about = call[d].about
  BY <1>1 DEF Others, Due
<1>8. \A d \in Call : (Due(call[d]) => Recorded(call[d].about) = 0)'
  <2> SUFFICES ASSUME NEW d \in Call, Due(call'[d])
               PROVE  (Recorded(call[d].about) = 0)'
    OBVIOUS
  <2>1. d # c /\ Due(call[d]) /\ call'[d].about = call[d].about /\ Recorded(call[d].about) = 0
    BY <1>7 DEF AccessInv
  <2>2. call[d].about # about
    <3>1. call[d].about \in links
      BY <2>1 DEF AccessInv, Due, Lives
    <3> QED
      BY <1>5, <2>1, <3>1 DEF AccessInv
  <2>3. \A link : link = call[d].about => Recorded(link)' = 0
    BY <1>4, <2>1, <2>2
  <2> QED
    BY <2>1, <2>3 DEF Recorded
<1>9. \A d, e \in Call : Due(call'[d]) /\ Due(call'[e]) /\ call'[d].about = call'[e].about => d = e
  BY <1>7 DEF AccessInv
<1>10. \A i \in DOMAIN trail' : trail'[i][2] = "created" \/ trail'[i] \in links'
  <2>1. about[2] = "created" \/ about \in links
    BY <1>0 DEF Lives
  <2>2. \A i \in DOMAIN trail' : trail'[i] = about \/ (i \in DOMAIN trail /\ trail'[i] = trail[i])
    BY <1>0, <1>2, AppendProperties
  <2> QED
    BY <1>0, <2>1, <2>2 DEF AccessInv
<1>11. trail' \in Seq(Note)
  BY <1>0, <1>2, AppendProperties
<1> QED
  BY <1>1, <1>3, <1>6, <1>8, <1>9, <1>10, <1>11 DEF AccessInv

LEMMA UseKeeps ==
  ASSUME AccessInv, NEW c \in Call, use(c)
  PROVE  AccessInv'
<1>1. PICK who \in Person, code \in Code :
        Used(c, "use", who, <<who, code>>, "roles", \E role \in RolesOf(who) : <<role, code>> \in links)
  BY DEF use, Used
<1>2. PICK entitled :
        /\ entitled = (\E role \in RolesOf(who) : <<role, code>> \in links)
        /\ Used(c, "use", who, <<who, code>>, "roles", entitled)
  BY <1>1, Zenon
<1>3. /\ CallShape' /\ Others(c)
      /\ call'[c].op = "use" /\ call'[c].who = who /\ call'[c].about = <<who, code>>
      /\ call'[c].pc = "roles" /\ call'[c].entitled = entitled /\ call'[c].status = call[c].status
  BY <1>2, UsedFields DEF AccessInv
<1>4. call[c].pc = "new" /\ UNCHANGED <<links, trail, roles>> /\ call[c].status = 0
  BY DEF use, AccessInv, Lives
<1>5. entitled => \E role \in roles' : <<who, role>> \in links' /\ <<role, code>> \in links'
  BY <1>2, <1>4 DEF RolesOf
<1>6. <<who, code>>[2] = code
  OBVIOUS
<1>7. Lives(call'[c], roles', links')
  BY <1>3, <1>4, <1>5, <1>6 DEF Lives, Assign
<1>8. ~Due(call'[c])
  BY <1>3 DEF Due
<1> QED
  BY <1>3, <1>4, <1>7, <1>8, CallFrame DEF Others

LEMMA ReadRolesKeeps ==
  ASSUME AccessInv, NEW c \in Call, ReadRoles(c)
  PROVE  AccessInv'
<1>1. Fetched(c, RolesOf(call[c].who), "permissions")
  BY DEF ReadRoles, Fetched
<1>2. /\ CallShape' /\ Others(c) /\ SameCall(c)
      /\ call'[c].pc = "permissions" /\ call'[c].held = RolesOf(call[c].who)
      /\ call'[c].status = call[c].status
  BY <1>1, FetchedFields DEF AccessInv
<1>3. call[c].pc = "roles" /\ UNCHANGED <<links, trail, roles>> /\ Lives(call[c], roles, links)
  BY DEF ReadRoles, AccessInv
<1>4. call[c].op = "use"
  BY <1>3 DEF Lives
<1>5. call[c].entitled => \E role \in call'[c].held : <<role, call[c].about[2]>> \in links
  BY <1>2, <1>3, <1>4 DEF Lives, RolesOf
<1>6. Lives(call'[c], roles', links')
  <2>1. call'[c].entitled => \E role \in call'[c].held : <<role, call'[c].about[2]>> \in links'
    BY <1>2, <1>3, <1>5 DEF SameCall
  <2>2. call'[c].status = 0 /\ call'[c].op = "use" /\ call'[c].pc = "permissions"
    BY <1>2, <1>3, <1>4 DEF Lives, SameCall
  <2> QED
    BY <2>1, <2>2 DEF Lives, Assign
<1>7. ~Due(call'[c])
  BY <1>2 DEF Due
<1> QED
  BY <1>2, <1>3, <1>6, <1>7, CallFrame DEF Others

LEMMA ReadPermissionsKeeps ==
  ASSUME AccessInv, NEW c \in Call, ReadPermissions(c)
  PROVE  AccessInv'
<1>1. call[c].pc = "permissions" /\ UNCHANGED <<links, trail, roles>> /\ Lives(call[c], roles, links)
  BY DEF ReadPermissions, AccessInv
<1>2. call[c].op = "use"
  BY <1>1 DEF Lives
<1>3. \/ call' = Answer(c, 200)
      \/ call' = Answer(c, 403) /\ ~require_permission(call[c].who, call[c].held, call[c].about[2])
  BY DEF ReadPermissions
<1>4. call[c].entitled => require_permission(call[c].who, call[c].held, call[c].about[2])
  BY <1>1, <1>2 DEF Lives, require_permission
<1>5. PICK status :
        /\ CallShape' /\ Others(c) /\ SameCall(c) /\ call'[c].pc = "done" /\ call'[c].status = status
        /\ status = 200 \/ (status = 403 /\ ~call[c].entitled)
  <2>1. CASE call' = Answer(c, 200)
    <3>1. CallShape' /\ Others(c) /\ SameCall(c) /\ call'[c].pc = "done" /\ call'[c].status = 200
      BY <2>1, AnswerFields DEF AccessInv
    <3> QED
      BY <3>1
  <2>2. CASE call' = Answer(c, 403) /\ ~call[c].entitled
    <3>1. CallShape' /\ Others(c) /\ SameCall(c) /\ call'[c].pc = "done" /\ call'[c].status = 403
      BY <2>2, AnswerFields DEF AccessInv
    <3> QED
      BY <2>2, <3>1
  <2> QED
    BY <1>3, <1>4, <2>1, <2>2
<1>6. Lives(call'[c], roles', links')
  BY <1>1, <1>2, <1>5 DEF Lives, SameCall, Assign
<1>7. ~Due(call'[c])
  BY <1>5 DEF Due
<1> QED
  BY <1>1, <1>5, <1>6, <1>7, CallFrame DEF Others

LEMMA CutCallKeeps ==
  ASSUME AccessInv, NEW c \in Call, CutCall(c)
  PROVE  AccessInv'
<1>1. PICK about :
        /\ call[c].pc = "audit" => about = call[c].about
        /\ call' = [call EXCEPT ![c] = [NewCall EXCEPT !.pc = "cut", !.about = about]]
  BY DEF CutCall
<1>2. /\ CallShape' /\ Others(c)
      /\ call'[c].pc = "cut" /\ call'[c].op = "none" /\ call'[c].about = about
      /\ call'[c].status = 0
  BY <1>1 DEF AccessInv, CallShape, Others, NewCall
<1>3. call[c].pc # "cut" /\ UNCHANGED <<links, trail, roles>>
  BY DEF CutCall
<1>4. Lives(call'[c], roles', links')
  BY <1>2 DEF Lives, Assign
<1>5. ~Due(call'[c])
  BY <1>2 DEF Due
<1> QED
  BY <1>1, <1>2, <1>3, <1>4, <1>5, CallFrame DEF Others

LEMMA CallStepKeeps ==
  ASSUME AccessInv, NEW c \in Call, CallStep(c)
  PROVE  AccessInv'
<1>1. CASE list_permissions(c)
  BY <1>1, EnterKeeps DEF list_permissions, Assign
<1>2. CASE create_role(c)
  BY <1>2, EnterKeeps DEF create_role, Assign
<1>3. CASE assign_permission_to_role(c)
  BY <1>3, EnterKeeps DEF assign_permission_to_role, Assign, Link
<1>4. CASE assign_role_to_user(c)
  BY <1>4, EnterKeeps DEF assign_role_to_user, Assign, Link
<1> QED
  BY <1>1, <1>2, <1>3, <1>4, SeedReadKeeps, SeedCommitKeeps, LoadKeeps, SaveKeeps, RecordKeeps, UseKeeps,
     ReadRolesKeeps, ReadPermissionsKeeps, CutCallKeeps
  DEF CallStep

LEMMA AccessStart == AccessInit => AccessInv
<1> SUFFICES ASSUME AccessInit PROVE AccessInv
  OBVIOUS
<1>1. call = [c \in Call |-> NewCall] /\ links = {} /\ trail = <<>>
  BY DEF AccessInit
<1>2. CallShape /\ \A c \in Call : Lives(call[c], roles, links) /\ ~Due(call[c])
  BY <1>1 DEF CallShape, NewCall, Lives, Due, Assign
<1>3. DOMAIN trail = {} /\ trail \in Seq(Link \cup (Role \X {"created"}))
  BY <1>1
<1> QED
  BY <1>1, <1>2, <1>3 DEF AccessInv

LEMMA AccessKept == AccessInv /\ [AccessNext]_accessVars => AccessInv'
<1> SUFFICES ASSUME AccessInv, [AccessNext]_accessVars PROVE AccessInv'
  OBVIOUS
<1>1. CASE AccessNext
  BY <1>1, CallStepKeeps DEF AccessNext
<1>2. CASE UNCHANGED accessVars
  <2>1. UNCHANGED <<call, roles, links, trail>>
    BY <1>2 DEF accessVars
  <2>2. \A link : Recorded(link)' = Recorded(link) /\ InFlight(link)' = InFlight(link)
    BY <2>1 DEF Recorded, InFlight
  <2>3. CallShape' /\ trail' \in Seq(Link \cup (Role \X {"created"}))
    BY <2>1 DEF AccessInv, CallShape
  <2>4. /\ \A c \in Call : Lives(call'[c], roles', links')
        /\ \A i \in DOMAIN trail' : trail'[i][2] = "created" \/ trail'[i] \in links'
        /\ \A c, d \in Call : Due(call'[c]) /\ Due(call'[d]) /\ call'[c].about = call'[d].about => c = d
    BY <2>1 DEF AccessInv
  <2>5. \A link \in links' :
          link \in Link /\ (Recorded(link)' = 1 \/ (Recorded(link)' = 0 /\ InFlight(link)'))
    BY <2>1, <2>2 DEF AccessInv
  <2>6. \A c \in Call : (Due(call[c]) => Recorded(call[c].about) = 0)'
    BY <2>1 DEF AccessInv, Recorded
  <2> QED
    BY <2>3, <2>4, <2>5, <2>6 DEF AccessInv
<1> QED
  BY <1>1, <1>2

(***************************************************************************)
(* The assignments in force are the ones the audit log names, each once    *)
(* but for those whose request has still to record it or was cut before    *)
(* it could; an assignment answered with 200 is in force; and a person     *)
(* whose roles permit something when the request begins is let through     *)
(* (app/permissions/router.py, app/auth/rbac.py).                          *)
(***************************************************************************)
THEOREM GrantsKeepBooks == AccessSpec => []GrantsAccounted
<1>1. AccessInv => GrantsAccounted
  BY DEF AccessInv, GrantsAccounted, Lives, Assign
<1> QED
  BY <1>1, AccessStart, AccessKept, PTL DEF AccessSpec

(***************************************************************************)
(* The roles a request holds are roles of its tenant, and what it adds to  *)
(* the catalog are permissions that some department asks for.              *)
(***************************************************************************)
CallTyped(k, r) ==
  /\ k.pc \in {"new", "seed", "catalog", "load", "save", "audit", "roles", "permissions", "done", "cut"}
  /\ k.op \in {"none", "list", "create_role", "assign_permission", "assign_role", "use"}
  /\ k.held \subseteq r
  /\ k.missing \subseteq Code
  /\ k.status \in {0, 200, 403, 404, 500}

AccessTyped ==
  /\ isolated \in BOOLEAN /\ catalog \subseteq Code /\ roles \subseteq Role
  /\ \A c \in Call : CallTyped(call[c], roles)

LEMMA TypedFrame ==
  ASSUME AccessTyped, NEW c \in Call, Others(c), CallTyped(call'[c], roles'), UNCHANGED isolated,
         catalog' \subseteq Code, roles \subseteq roles', roles' \subseteq Role
  PROVE  AccessTyped'
<1>1. ASSUME NEW d \in Call, d # c PROVE CallTyped(call'[d], roles')
  <2>1. call'[d] = call[d] /\ CallTyped(call[d], roles)
    BY <1>1 DEF Others, AccessTyped
  <2> QED
    BY <2>1 DEF CallTyped
<1> QED
  BY <1>1 DEF AccessTyped

LEMMA EnterTyped ==
  ASSUME AccessInv, AccessTyped, NEW c \in Call,
         NEW op \in {"list", "create_role", "assign_permission", "assign_role"}, NEW about,
         NEW pc \in {"seed", "load", "save"}, Enter(c, op, about, pc)
  PROVE  AccessTyped'
<1>1. PICK who, pc2, status2 :
        /\ EnteredAs(c, op, who, about, pc2, status2)
        /\ (pc2 = pc /\ status2 = 0) \/ (pc2 = "done" /\ status2 = 403)
  <2>1. PICK who \in Person :
          EnteredAs(c, op, who, about, IF is_owner_or_admin(who) THEN pc ELSE "done",
                    IF is_owner_or_admin(who) THEN 0 ELSE 403)
    BY DEF Enter, EnteredAs
  <2>2. CASE is_owner_or_admin(who)
    <3>1. EnteredAs(c, op, who, about, pc, 0)
      BY <2>1, <2>2 DEF EnteredAs
    <3> QED
      BY <3>1
  <2>3. CASE ~is_owner_or_admin(who)
    <3>1. EnteredAs(c, op, who, about, "done", 403)
      BY <2>1, <2>3 DEF EnteredAs
    <3> QED
      BY <3>1
  <2> QED
    BY <2>2, <2>3
<1>2. /\ Others(c) /\ SameHeld(c)
      /\ call'[c].op = op /\ call'[c].pc = pc2 /\ call'[c].status = status2
  BY <1>1, EnteredFields DEF AccessInv
<1>3. UNCHANGED <<isolated, catalog, roles>>
  BY DEF Enter
<1>4. CallTyped(call'[c], roles')
  BY <1>1, <1>2, <1>3 DEF AccessTyped, CallTyped, SameHeld
<1> QED
  BY <1>2, <1>3, <1>4, TypedFrame DEF AccessTyped

LEMMA AnswerTyped ==
  ASSUME AccessInv, AccessTyped, NEW c \in Call, NEW status \in {200, 403, 404, 500},
         call' = Answer(c, status), UNCHANGED <<isolated, roles>>, catalog' \subseteq Code
  PROVE  AccessTyped'
<1>1. Others(c) /\ SameHeld(c) /\ SameCall(c) /\ call'[c].pc = "done" /\ call'[c].status = status
  BY AnswerFields DEF AccessInv
<1>2. CallTyped(call'[c], roles')
  BY <1>1 DEF AccessTyped, CallTyped, SameHeld, SameCall
<1> QED
  BY <1>1, <1>2, TypedFrame DEF AccessTyped

LEMMA MovedTyped ==
  ASSUME AccessInv, AccessTyped, NEW c \in Call, NEW pc \in {"save", "audit"}, Moved(c, pc),
         UNCHANGED <<isolated, catalog>>, roles \subseteq roles', roles' \subseteq Role
  PROVE  AccessTyped'
<1>1. Others(c) /\ SameHeld(c) /\ SameCall(c) /\ call'[c].pc = pc /\ call'[c].status = call[c].status
  BY MovedFields DEF AccessInv
<1>2. CallTyped(call'[c], roles')
  BY <1>1 DEF AccessTyped, CallTyped, SameHeld, SameCall
<1> QED
  BY <1>1, <1>2, TypedFrame DEF AccessTyped

LEMMA SeedTyped ==
  ASSUME AccessInv, AccessTyped, NEW c \in Call, SeedRead(c) \/ SeedCommit(c)
  PROVE  AccessTyped'
<1>0. CallShape /\ CallTyped(call[c], roles) /\ catalog \subseteq Code /\ roles \subseteq Role
  BY DEF AccessInv, AccessTyped
<1>1. CASE SeedRead(c)
  <2>1. PICK pc \in {"catalog", "load", "done"}, status \in {0, 200} : Sought(c, Code \ catalog, pc, status)
    <3>1. CASE ~(Code \subseteq catalog)
      <4>1. Sought(c, Code \ catalog, "catalog", 0)
        BY <1>1, <3>1 DEF Sought, SeedRead
      <4> QED
        BY <4>1
    <3>2. CASE Code \subseteq catalog /\ call[c].op = "list"
      <4>1. Sought(c, Code \ catalog, "done", 200)
        BY <1>1, <3>2 DEF Sought, SeedRead
      <4> QED
        BY <4>1
    <3>3. CASE Code \subseteq catalog /\ call[c].op # "list"
      <4>1. Sought(c, Code \ catalog, "load", 0)
        BY <1>1, <3>3 DEF Sought, SeedRead
      <4> QED
        BY <4>1
    <3> QED
      BY <3>1, <3>2, <3>3
  <2>2. /\ Others(c) /\ SameCall(c) /\ call'[c].pc = pc /\ call'[c].status = status
        /\ call'[c].held = call[c].held /\ call'[c].missing = Code \ catalog
    BY <1>0, <2>1, SoughtFields
  <2>3. UNCHANGED <<isolated, catalog, roles>>
    BY <1>1 DEF SeedRead
  <2>4. CallTyped(call'[c], roles')
    BY <1>0, <2>2, <2>3 DEF CallTyped, SameCall
  <2> QED
    BY <1>0, <2>2, <2>3, <2>4, TypedFrame
<1>2. CASE SeedCommit(c)
  <2>1. UNCHANGED <<isolated, roles>> /\ catalog' \subseteq Code
    BY <1>0, <1>2 DEF SeedCommit, CallTyped
  <2>2. CASE call' = Answer(c, 500) \/ call' = Answer(c, 200)
    BY <2>1, <2>2, AnswerTyped
  <2>3. CASE Unscoped(c, "load")
    <3>1. Others(c) /\ SameHeld(c) /\ SameCall(c) /\ call'[c].pc = "load" /\ call'[c].status = call[c].status
      BY <1>0, <2>3, UnscopedFields
    <3>2. CallTyped(call'[c], roles')
      BY <1>0, <2>1, <3>1 DEF CallTyped, SameHeld, SameCall
    <3> QED
      BY <1>0, <2>1, <3>1, <3>2, TypedFrame
  <2> QED
    BY <1>2, <2>2, <2>3 DEF SeedCommit, Unscoped
<1> QED
  BY <1>1, <1>2

LEMMA WriteTyped ==
  ASSUME AccessInv, AccessTyped, NEW c \in Call, Load(c) \/ Save(c) \/ Record(c) \/ ReadPermissions(c)
  PROVE  AccessTyped'
<1>0. Lives(call[c], roles, links) /\ catalog \subseteq Code /\ roles \subseteq Role
  BY DEF AccessInv, AccessTyped
<1>1. UNCHANGED <<isolated, catalog>>
  BY DEF Load, Save, Record, ReadPermissions
<1>2. CASE Load(c)
  <2>1. UNCHANGED roles
    BY <1>2 DEF Load
  <2>2. call' = Answer(c, 404) \/ call' = Answer(c, 200) \/ Moved(c, "save")
    BY <1>2 DEF Load, Moved
  <2> QED
    BY <1>0, <1>1, <2>1, <2>2, AnswerTyped, MovedTyped
<1>3. CASE Save(c)
  <2>1. CASE call[c].about \in links
    <3>1. call' = Answer(c, 500) /\ UNCHANGED roles
      BY <1>3, <2>1 DEF Save
    <3> QED
      BY <1>0, <1>1, <3>1, AnswerTyped
  <2>2. CASE call[c].about \notin links
    <3>1. Moved(c, "audit")
      BY <1>3, <2>2 DEF Save, Moved
    <3>2. \/ call[c].op = "create_role" /\ roles' = roles \cup {RoleOf(c)}
          \/ UNCHANGED roles
      BY <1>3, <2>2 DEF Save
    <3>3. call[c].op = "create_role" => RoleOf(c) \in Role
      BY <1>0 DEF Lives, RoleOf
    <3>4. roles \subseteq roles' /\ roles' \subseteq Role
      BY <1>0, <3>2, <3>3
    <3> QED
      BY <1>1, <3>1, <3>4, MovedTyped
  <2> QED
    BY <2>1, <2>2
<1>4. CASE Record(c)
  <2>1. call' = Answer(c, 200) /\ UNCHANGED roles
    BY <1>4 DEF Record
  <2> QED
    BY <1>0, <1>1, <2>1, AnswerTyped
<1>5. CASE ReadPermissions(c)
  <2>1. UNCHANGED roles /\ (call' = Answer(c, 200) \/ call' = Answer(c, 403))
    BY <1>5 DEF ReadPermissions
  <2> QED
    BY <1>0, <1>1, <2>1, AnswerTyped
<1> QED
  BY <1>2, <1>3, <1>4, <1>5

LEMMA UseTyped ==
  ASSUME AccessInv, AccessTyped, NEW c \in Call, use(c) \/ ReadRoles(c) \/ CutCall(c)
  PROVE  AccessTyped'
<1>0. /\ CallShape /\ CallTyped(call[c], roles) /\ catalog \subseteq Code /\ roles \subseteq Role
      /\ UNCHANGED <<isolated, catalog, roles>>
  BY DEF AccessInv, AccessTyped, use, ReadRoles, CutCall
<1>1. CASE use(c)
  <2>1. PICK who, about, entitled : Used(c, "use", who, about, "roles", entitled)
    <3>1. PICK who \in Person, code \in Code :
            Used(c, "use", who, <<who, code>>, "roles", \E role \in RolesOf(who) : <<role, code>> \in links)
      BY <1>1 DEF use, Used
    <3> QED
      BY <3>1, Zenon
  <2>2. /\ Others(c) /\ SameHeld(c)
        /\ call'[c].op = "use" /\ call'[c].pc = "roles" /\ call'[c].status = call[c].status
    BY <1>0, <2>1, UsedFields
  <2>3. CallTyped(call'[c], roles')
    BY <1>0, <2>2 DEF CallTyped, SameHeld
  <2> QED
    BY <1>0, <2>2, <2>3, TypedFrame
<1>2. CASE ReadRoles(c)
  <2>1. Fetched(c, RolesOf(call[c].who), "permissions")
    BY <1>2 DEF ReadRoles, Fetched
  <2>2. /\ Others(c) /\ SameCall(c) /\ call'[c].held = RolesOf(call[c].who)
        /\ call'[c].missing = call[c].missing
        /\ call'[c].pc = "permissions" /\ call'[c].status = call[c].status
    BY <1>0, <2>1, FetchedFields
  <2>3. RolesOf(call[c].who) \subseteq roles
    BY DEF RolesOf
  <2>4. CallTyped(call'[c], roles')
    BY <1>0, <2>2, <2>3 DEF CallTyped, SameCall
  <2> QED
    BY <1>0, <2>2, <2>4, TypedFrame
<1>3. CASE CutCall(c)
  <2>1. PICK about : call' = [call EXCEPT ![c] = [NewCall EXCEPT !.pc = "cut", !.about = about]]
    BY <1>3 DEF CutCall
  <2>2. /\ Others(c) /\ call'[c].pc = "cut" /\ call'[c].op = "none" /\ call'[c].status = 0
        /\ call'[c].held = {} /\ call'[c].missing = {}
    BY <1>0, <2>1 DEF CallShape, Others, NewCall
  <2>3. CallTyped(call'[c], roles')
    BY <2>2 DEF CallTyped
  <2> QED
    BY <1>0, <2>2, <2>3, TypedFrame
<1> QED
  BY <1>1, <1>2, <1>3

\* For any number of requests, persons, roles and permissions: the tables hold what they
\* should, and a request holds only roles of its tenant.
THEOREM AccessTypesHold == AccessSpec => []AccessTypeOK
<1>1. AccessInit => AccessTyped
  BY DEF AccessInit, AccessTyped, CallTyped, NewCall
<1>2. AccessInv /\ AccessTyped /\ [AccessNext]_accessVars => AccessTyped'
  <2> SUFFICES ASSUME AccessInv, AccessTyped, [AccessNext]_accessVars PROVE AccessTyped'
    OBVIOUS
  <2>1. CASE UNCHANGED accessVars
    BY <2>1 DEF accessVars, AccessTyped
  <2>2. ASSUME NEW c \in Call, CallStep(c) PROVE AccessTyped'
    <3>1. CASE list_permissions(c) \/ create_role(c) \/ assign_permission_to_role(c) \/ assign_role_to_user(c)
      BY <3>1, EnterTyped DEF list_permissions, create_role, assign_permission_to_role, assign_role_to_user
    <3> QED
      BY <2>2, <3>1, SeedTyped, WriteTyped, UseTyped DEF CallStep
  <2> QED
    BY <2>1, <2>2 DEF AccessNext
<1>3. AccessInv /\ AccessTyped => AccessTypeOK
  BY DEF AccessInv, AccessTyped, CallTyped, AccessTypeOK
<1> QED
  BY <1>1, <1>2, <1>3, AccessStart, AccessKept, PTL DEF AccessSpec

--------------------------------------------------------------------------------
(* The dashboard *)

Totalled == {"financial_summary", "ceo_briefing"}
DealOp == {"create_deal", "update_deal_stage"}

\* One of the rows from m + 1 to n is of this kind and negative.
Refund(r, kind, m, n) == \E i \in (m + 1)..n : r[i].kind = kind /\ r[i].amount < 0

\* A sum b read earlier is above what the rows r now total, t, only by a refund since.
Since(b, r, t) ==
  /\ b.rows \in 0..Len(r) /\ b.income \in Int /\ b.expense \in Int
  /\ b.income > t.income => Refund(r, "income", b.rows, Len(r))
  /\ b.expense > t.expense => Refund(r, "expense", b.rows, Len(r))

\* The two sums k shows part only by refunds recorded between them.
Balanced(k, r) ==
  LET b == k.shown.income
      c == k.shown.expense
  IN  /\ b.income > c.income => Refund(r, "income", b.rows, c.rows)
      /\ b.expense > c.expense => Refund(r, "expense", b.rows, c.rows)

\* The rows in the sums that k shows
Tallied(k, r) ==
  {i \in DOMAIN r : \/ r[i].kind = "income" /\ i <= k.shown.income.rows
                    \/ r[i].kind = "expense" /\ i <= k.shown.expense.rows}

\* What k counts and does not list is no newer than the full list.
FullList(k, r) ==
  \A i \in Tallied(k, r) \ k.shown.recent :
    /\ Cardinality(k.shown.recent) = Limit
    /\ \A j \in k.shown.recent : r[j].at >= r[i].at

\* What is left to read of a page with totals
Agenda(op) ==
  IF op = "financial_summary"
  THEN {<<"income", "expense", "recent">>, <<"expense", "recent">>, <<"recent">>}
  ELSE {<<"open", "income", "expense">>, <<"income", "expense">>, <<"expense">>}

\* A page k under way shows rows that are there; once both sums are read they agree.
Shows(k, r, t) ==
  /\ DOMAIN k.shown = DOMAIN Unread
  /\ Since(k.shown.income, r, t) /\ Since(k.shown.expense, r, t)
  /\ k.op \in Totalled =>
       /\ k.pc \in {"read", "synthesize", "done", "cut"}
       /\ k.pc = "read" => k.todo \in Agenda(k.op)
       /\ k.pc \in {"synthesize", "done"} \/ k.todo = <<"recent">> => Balanced(k, r)
       /\ k.op = "financial_summary" /\ k.pc \in {"synthesize", "done"} => FullList(k, r)
       /\ k.shown.recent \subseteq DOMAIN r

\* k is between its select, or insert, of a deal and the audit entry.
Moves(k) == k.op \in DealOp /\ k.pc \in {"save", "audit"}
Saved(k) == k.op \in DealOp /\ k.pc = "audit"

\* What k knows of its deal, among deals ds, of which those in mx have been mixed up
Knows(k, ds, mx) ==
  Moves(k) =>
    /\ k.deal \in Deal /\ k.stage \in Stage
    /\ k.op = "update_deal_stage" => ds[k.deal] # "none"
    /\ k.op = "create_deal" => k.loaded = "none"
    /\ k.deal \notin mx /\ k.op = "update_deal_stage" /\ k.pc = "save" => k.loaded = ds[k.deal]
    /\ k.deal \notin mx /\ k.pc = "audit" => ds[k.deal] = k.stage

\* stage is what the last of the entries m about deal d says.
Latest(m, d, stage) ==
  \E i \in DOMAIN m :
    /\ m[i][1] = d /\ m[i][2] = stage
    /\ \A j \in DOMAIN m : m[j][1] = d => j <= i

Row == [kind : Kind, at : Nat, amount : Int]
Sums == [income : Int, expense : Int]

DashShape ==
  /\ visit = [v \in Visit |-> visit[v]]
  /\ \A v \in Visit :
       DOMAIN visit[v] = DOMAIN NewVisit /\ visit[v].at \in Nat /\ visit[v].amount \in Int
  /\ \A v \in Visit : visit[v].pc = "new" => visit[v] = NewVisit
  /\ clock \in Nat /\ rows \in Seq(Row) /\ total \in Sums

DealShape == deals \in [Deal -> Stage \cup {"none"}] /\ moves \in Seq(Deal \X Stage)

\* Two requests that change a deal at once mix it up.
MovesAlone ==
  \A v, w \in Visit :
    Moves(visit[v]) /\ Moves(visit[w]) /\ visit[v].deal = visit[w].deal /\ v # w =>
      visit[v].deal \in mixed

\* The audit log has the last word on a deal unless its entry is still to come.
WordKept ==
  \A d \in Deal \ mixed :
    (\A v \in Visit : Saved(visit[v]) => visit[v].deal # d) =>
      (\A i \in DOMAIN moves : moves[i][1] # d) \/ Latest(moves, d, deals[d])

(***************************************************************************)
(* The properties speak of finished pages and of deals at rest.  Shows and *)
(* Knows say what requests under way have in hand: a page shows rows that  *)
(* are there for good and sums that have gone down since only by refunds,  *)
(* and the one request that has a deal in hand knows the stage it is in.   *)
(***************************************************************************)
DashInv ==
  /\ DashShape /\ DealShape
  /\ \A v \in Visit : Shows(visit[v], rows, total) /\ Knows(visit[v], deals, mixed)
  /\ MovesAlone
  /\ WordKept

\* Rows are only added, and a total only goes down by a refund.
Booked(r, t, more, sums) ==
  /\ Len(r) <= Len(more) /\ \A i \in DOMAIN r : more[i] = r[i]
  /\ t.income > sums.income => Refund(more, "income", Len(r), Len(more))
  /\ t.expense > sums.expense => Refund(more, "expense", Len(r), Len(more))

LEMMA RefundOn ==
  ASSUME NEW r \in Seq(Row), NEW more \in Seq(Row), Len(r) <= Len(more),
         \A i \in DOMAIN r : more[i] = r[i], NEW m \in Nat, NEW n \in 0..Len(r), NEW kind
  PROVE  Refund(r, kind, m, n) <=> Refund(more, kind, m, n)
<1>1. \A i \in (m + 1)..n : i \in DOMAIN r
  OBVIOUS
<1> QED
  BY <1>1 DEF Refund

LEMMA SinceOn ==
  ASSUME NEW r \in Seq(Row), NEW more \in Seq(Row), NEW t \in Sums, NEW sums \in Sums,
         Booked(r, t, more, sums), NEW b, Since(b, r, t)
  PROVE  Since(b, more, sums)
<1>1. /\ b.rows \in 0..Len(r) /\ Len(r) \in Nat /\ Len(more) \in Nat /\ Len(r) <= Len(more)
      /\ b.income \in Int /\ b.expense \in Int
      /\ t.income \in Int /\ t.expense \in Int /\ sums.income \in Int /\ sums.expense \in Int
  BY DEF Since, Booked, Sums
<1>2. ASSUME NEW kind, Refund(r, kind, b.rows, Len(r)) \/ Refund(more, kind, Len(r), Len(more))
      PROVE  Refund(more, kind, b.rows, Len(more))
  <2>1. CASE Refund(r, kind, b.rows, Len(r))
    <3>1. PICK i \in (b.rows + 1)..Len(r) : r[i].kind = kind /\ r[i].amount < 0
      BY <2>1 DEF Refund
    <3>2. i \in (b.rows + 1)..Len(more) /\ more[i] = r[i]
      BY <1>1, <3>1 DEF Booked
    <3> QED
      BY <3>1, <3>2 DEF Refund
  <2>2. CASE Refund(more, kind, Len(r), Len(more))
    <3>1. PICK i \in (Len(r) + 1)..Len(more) : more[i].kind = kind /\ more[i].amount < 0
      BY <2>2 DEF Refund
    <3>2. i \in (b.rows + 1)..Len(more)
      BY <1>1, <3>1
    <3> QED
      BY <3>1, <3>2 DEF Refund
  <2> QED
    BY <1>2, <2>1, <2>2
<1>3. ASSUME b.income > sums.income PROVE Refund(more, "income", b.rows, Len(more))
  <2>1. b.income > t.income \/ t.income > sums.income
    BY <1>1, <1>3
  <2> QED
    BY <1>2, <2>1 DEF Since, Booked
<1>4. ASSUME b.expense > sums.expense PROVE Refund(more, "expense", b.rows, Len(more))
  <2>1. b.expense > t.expense \/ t.expense > sums.expense
    BY <1>1, <1>4
  <2> QED
    BY <1>2, <2>1 DEF Since, Booked
<1>5. b.rows \in 0..Len(more)
  BY <1>1
<1> QED
  BY <1>1, <1>3, <1>4, <1>5 DEF Since

LEMMA ShowsOn ==
  ASSUME NEW k, NEW r \in Seq(Row), NEW more \in Seq(Row), NEW t \in Sums, NEW sums \in Sums,
         Booked(r, t, more, sums), Shows(k, r, t)
  PROVE  Shows(k, more, sums)
<1>1. /\ DOMAIN r \subseteq DOMAIN more /\ Len(r) <= Len(more) /\ DOMAIN r = 1..Len(r)
      /\ \A i \in DOMAIN r : more[i] = r[i]
  BY DEF Booked
<1>2. /\ Since(k.shown.income, more, sums) /\ Since(k.shown.expense, more, sums)
      /\ k.shown.income.rows \in 0..Len(r) /\ k.shown.expense.rows \in 0..Len(r)
  BY SinceOn DEF Shows, Since
<1>3. Balanced(k, r) => Balanced(k, more)
  <2>1. k.shown.income.rows \in Nat /\ k.shown.expense.rows \in 0..Len(r)
    BY <1>2
  <2>2. \A kind : Refund(r, kind, k.shown.income.rows, k.shown.expense.rows)
                    <=> Refund(more, kind, k.shown.income.rows, k.shown.expense.rows)
    BY <1>1, <2>1, RefundOn
  <2> QED
    BY <2>2 DEF Balanced
<1>4. Tallied(k, more) = Tallied(k, r)
  <2>1. \A i \in DOMAIN more : i <= k.shown.income.rows \/ i <= k.shown.expense.rows => i \in DOMAIN r
    BY <1>2
  <2> QED
    BY <1>1, <2>1 DEF Tallied
<1>5. ASSUME FullList(k, r), k.shown.recent \subseteq DOMAIN r PROVE FullList(k, more)
  <2> SUFFICES ASSUME NEW i \in Tallied(k, more) \ k.shown.recent
               PROVE  /\ Cardinality(k.shown.recent) = Limit
                      /\ \A j \in k.shown.recent : more[j].at >= more[i].at
    BY DEF FullList
  <2>1. i \in DOMAIN r /\ i \in Tallied(k, r) \ k.shown.recent
    BY <1>4 DEF Tallied
  <2> QED
    BY <1>1, <1>5, <2>1 DEF FullList
<1> QED
  BY <1>1, <1>2, <1>3, <1>5 DEF Shows

\* Nothing recorded, nothing added.
LEMMA BookedSame ==
  ASSUME NEW r \in Seq(Row), NEW t \in Sums
  PROVE  Booked(r, t, r, t)
BY DEF Booked, Sums

\* What is changed of deals other than its own, and mixed, leaves k's knowledge alone.
LEMMA KnowsOn ==
  ASSUME NEW k, NEW ds, NEW ds2, NEW mx, NEW mx2, mx \subseteq mx2, Knows(k, ds, mx),
         Moves(k) => ds2[k.deal] = ds[k.deal] \/ (ds2[k.deal] # "none" /\ k.deal \in mx2)
  PROVE  Knows(k, ds2, mx2)
BY DEF Knows

\* What a request does that changes no deal and writes no entry about one.
LEMMA DashFrame ==
  ASSUME DashInv, NEW v \in Visit, DashShape', \A w \in Visit : w # v => visit'[w] = visit[w],
         UNCHANGED <<deals, moves>>, mixed \subseteq mixed',
         Booked(rows, total, rows', total'),
         Shows(visit'[v], rows', total'), Knows(visit'[v], deals', mixed'),
         \A w \in Visit : w # v /\ Moves(visit'[v]) /\ Moves(visit[w]) /\ visit[w].deal = visit'[v].deal =>
           visit'[v].deal \in mixed',
         Saved(visit[v]) => visit[v].deal \in mixed'
  PROVE  DashInv'
<1>1. \A w \in Visit : Shows(visit'[w], rows', total')
  <2> SUFFICES ASSUME NEW w \in Visit, w # v PROVE Shows(visit[w], rows', total')
    OBVIOUS
  <2>1. /\ rows \in Seq(Row) /\ total \in Sums /\ rows' \in Seq(Row) /\ total' \in Sums
        /\ Shows(visit[w], rows, total)
    BY DEF DashInv, DashShape
  <2> QED
    BY <2>1, ShowsOn
<1>2. \A w \in Visit : Knows(visit'[w], deals', mixed')
  BY KnowsOn DEF DashInv
<1>3. MovesAlone'
  BY DEF DashInv, MovesAlone
<1>4. WordKept'
  <2> SUFFICES ASSUME NEW d \in Deal \ mixed', \A w \in Visit : Saved(visit'[w]) => visit'[w].deal # d
               PROVE  (\A i \in DOMAIN moves : moves[i][1] # d) \/ Latest(moves, d, deals[d])
    BY DEF WordKept
  <2>1. \A w \in Visit : Saved(visit[w]) => visit[w].deal # d
    OBVIOUS
  <2> QED
    BY <2>1 DEF DashInv, WordKept
<1>5. DealShape'
  BY DEF DashInv, DealShape
<1> QED
  BY <1>1, <1>2, <1>3, <1>4, <1>5 DEF DashInv

\* What a visit holds after it has been written to, field by field.
OthersWait(v) == \A w \in Visit : w # v => visit'[w] = visit[w]
VisitShape ==
  /\ visit = [v \in Visit |-> visit[v]]
  /\ \A v \in Visit : DOMAIN visit[v] = DOMAIN NewVisit

Went(v, pc) ==
  visit' = [visit EXCEPT ![v].pc = pc]

LEMMA WentFields ==
  ASSUME DashShape, NEW v \in Visit, NEW pc, Went(v, pc)
  PROVE  /\ VisitShape' /\ OthersWait(v)
         /\ visit'[v].pc = pc
         /\ visit'[v].op = visit[v].op
         /\ visit'[v].at = visit[v].at /\ visit'[v].amount = visit[v].amount
         /\ visit'[v].deal = visit[v].deal /\ visit'[v].stage = visit[v].stage
         /\ visit'[v].loaded = visit[v].loaded
         /\ visit'[v].todo = visit[v].todo /\ visit'[v].shown = visit[v].shown
<1>1. \A w \in Visit : DOMAIN visit[w] = {"pc", "op", "at", "amount", "deal", "stage", "loaded",
                                           "todo", "shown", "narrative"}
  BY DEF DashShape, NewVisit
<1>2. /\ visit'[v].pc = pc
  BY <1>1 DEF DashShape, Went
<1>3. /\ visit'[v].op = visit[v].op
      /\ visit'[v].at = visit[v].at /\ visit'[v].amount = visit[v].amount
      /\ visit'[v].deal = visit[v].deal /\ visit'[v].stage = visit[v].stage
      /\ visit'[v].loaded = visit[v].loaded
      /\ visit'[v].todo = visit[v].todo /\ visit'[v].shown = visit[v].shown
      /\ DOMAIN visit'[v] = DOMAIN visit[v]
  BY <1>1 DEF DashShape, Went
<1>4. OthersWait(v)
  BY DEF DashShape, Went, OthersWait
<1>5. visit' = [w \in Visit |-> visit'[w]]
  BY DEF DashShape, Went
<1> QED
  BY <1>2, <1>3, <1>4, <1>5 DEF DashShape, VisitShape, OthersWait

Noted(v, pc, op, at, amount) ==
  visit' = [visit EXCEPT ![v].pc = pc, ![v].op = op, ![v].at = at, ![v].amount = amount]

LEMMA NotedFields ==
  ASSUME DashShape, NEW v \in Visit, NEW pc, NEW op, NEW at, NEW amount,
         Noted(v, pc, op, at, amount)
  PROVE  /\ VisitShape' /\ OthersWait(v)
         /\ visit'[v].pc = pc /\ visit'[v].op = op /\ visit'[v].at = at /\ visit'[v].amount = amount
         /\ visit'[v].shown = visit[v].shown
<1>1. \A w \in Visit : DOMAIN visit[w] = {"pc", "op", "at", "amount", "deal", "stage", "loaded",
                                           "todo", "shown", "narrative"}
  BY DEF DashShape, NewVisit
<1>2. /\ visit'[v].pc = pc /\ visit'[v].op = op /\ visit'[v].at = at /\ visit'[v].amount = amount
  BY <1>1 DEF DashShape, Noted
<1>3. /\ visit'[v].shown = visit[v].shown /\ DOMAIN visit'[v] = DOMAIN visit[v]
  BY <1>1 DEF DashShape, Noted
<1>4. OthersWait(v)
  BY DEF DashShape, Noted, OthersWait
<1>5. visit' = [w \in Visit |-> visit'[w]]
  BY DEF DashShape, Noted
<1> QED
  BY <1>2, <1>3, <1>4, <1>5 DEF DashShape, VisitShape, OthersWait

Missed(v, pc, op) ==
  visit' = [visit EXCEPT ![v].pc = pc, ![v].op = op]

LEMMA MissedFields ==
  ASSUME DashShape, NEW v \in Visit, NEW pc, NEW op, Missed(v, pc, op)
  PROVE  /\ VisitShape' /\ OthersWait(v)
         /\ visit'[v].pc = pc /\ visit'[v].op = op
         /\ visit'[v].at = visit[v].at /\ visit'[v].amount = visit[v].amount
         /\ visit'[v].shown = visit[v].shown
<1>1. \A w \in Visit : DOMAIN visit[w] = {"pc", "op", "at", "amount", "deal", "stage", "loaded",
                                           "todo", "shown", "narrative"}
  BY DEF DashShape, NewVisit
<1>2. /\ visit'[v].pc = pc /\ visit'[v].op = op
  BY <1>1 DEF DashShape, Missed
<1>3.
      /\ visit'[v].at = visit[v].at /\ visit'[v].amount = visit[v].amount
      /\ visit'[v].shown = visit[v].shown
      /\ DOMAIN visit'[v] = DOMAIN visit[v]
  BY <1>1 DEF DashShape, Missed
<1>4. OthersWait(v)
  BY DEF DashShape, Missed, OthersWait
<1>5. visit' = [w \in Visit |-> visit'[w]]
  BY DEF DashShape, Missed
<1> QED
  BY <1>2, <1>3, <1>4, <1>5 DEF DashShape, VisitShape, OthersWait

Created(v, pc, op, deal, stage) ==
  visit' = [visit EXCEPT ![v].pc = pc, ![v].op = op, ![v].deal = deal, ![v].stage = stage]

LEMMA CreatedFields ==
  ASSUME DashShape, NEW v \in Visit, NEW pc, NEW op, NEW deal, NEW stage, Created(v, pc, op, deal, stage)
  PROVE  /\ VisitShape' /\ OthersWait(v)
         /\ visit'[v].pc = pc /\ visit'[v].op = op /\ visit'[v].deal = deal
         /\ visit'[v].stage = stage
         /\ visit'[v].at = visit[v].at /\ visit'[v].amount = visit[v].amount
         /\ visit'[v].loaded = visit[v].loaded
         /\ visit'[v].shown = visit[v].shown
<1>1. \A w \in Visit : DOMAIN visit[w] = {"pc", "op", "at", "amount", "deal", "stage", "loaded",
                                           "todo", "shown", "narrative"}
  BY DEF DashShape, NewVisit
<1>2. /\ visit'[v].pc = pc /\ visit'[v].op = op /\ visit'[v].deal = deal
      /\ visit'[v].stage = stage
  BY <1>1 DEF DashShape, Created
<1>3.
      /\ visit'[v].at = visit[v].at /\ visit'[v].amount = visit[v].amount
      /\ visit'[v].loaded = visit[v].loaded
      /\ visit'[v].shown = visit[v].shown /\ DOMAIN visit'[v] = DOMAIN visit[v]
  BY <1>1 DEF DashShape, Created
<1>4. OthersWait(v)
  BY DEF DashShape, Created, OthersWait
<1>5. visit' = [w \in Visit |-> visit'[w]]
  BY DEF DashShape, Created
<1> QED
  BY <1>2, <1>3, <1>4, <1>5 DEF DashShape, VisitShape, OthersWait

Loaded(v, pc, op, deal, stage, loaded) ==
  visit' = [visit EXCEPT ![v].pc = pc, ![v].op = op, ![v].deal = deal, ![v].stage = stage,
                           ![v].loaded = loaded]

LEMMA LoadedFields ==
  ASSUME DashShape, NEW v \in Visit, NEW pc, NEW op, NEW deal, NEW stage, NEW loaded, Loaded(v, pc, op, deal, stage, loaded)
  PROVE  /\ VisitShape' /\ OthersWait(v)
         /\ visit'[v].pc = pc /\ visit'[v].op = op /\ visit'[v].deal = deal
         /\ visit'[v].stage = stage /\ visit'[v].loaded = loaded
         /\ visit'[v].at = visit[v].at /\ visit'[v].amount = visit[v].amount
         /\ visit'[v].shown = visit[v].shown
<1>1. \A w \in Visit : DOMAIN visit[w] = {"pc", "op", "at", "amount", "deal", "stage", "loaded",
                                           "todo", "shown", "narrative"}
  BY DEF DashShape, NewVisit
<1>2. /\ visit'[v].pc = pc /\ visit'[v].op = op /\ visit'[v].deal = deal
      /\ visit'[v].stage = stage /\ visit'[v].loaded = loaded
  BY <1>1 DEF DashShape, Loaded
<1>3.
      /\ visit'[v].at = visit[v].at /\ visit'[v].amount = visit[v].amount
      /\ visit'[v].shown = visit[v].shown
      /\ DOMAIN visit'[v] = DOMAIN visit[v]
  BY <1>1 DEF DashShape, Loaded
<1>4. OthersWait(v)
  BY DEF DashShape, Loaded, OthersWait
<1>5. visit' = [w \in Visit |-> visit'[w]]
  BY DEF DashShape, Loaded
<1> QED
  BY <1>2, <1>3, <1>4, <1>5 DEF DashShape, VisitShape, OthersWait

Opened(v, pc, op, todo) ==
  visit' = [visit EXCEPT ![v].pc = pc, ![v].op = op, ![v].todo = todo]

LEMMA OpenedFields ==
  ASSUME DashShape, NEW v \in Visit, NEW pc, NEW op, NEW todo, Opened(v, pc, op, todo)
  PROVE  /\ VisitShape' /\ OthersWait(v)
         /\ visit'[v].pc = pc /\ visit'[v].op = op /\ visit'[v].todo = todo
         /\ visit'[v].at = visit[v].at /\ visit'[v].amount = visit[v].amount
         /\ visit'[v].shown = visit[v].shown
<1>1. \A w \in Visit : DOMAIN visit[w] = {"pc", "op", "at", "amount", "deal", "stage", "loaded",
                                           "todo", "shown", "narrative"}
  BY DEF DashShape, NewVisit
<1>2. /\ visit'[v].pc = pc /\ visit'[v].op = op /\ visit'[v].todo = todo
  BY <1>1 DEF DashShape, Opened
<1>3.
      /\ visit'[v].at = visit[v].at /\ visit'[v].amount = visit[v].amount
      /\ visit'[v].shown = visit[v].shown
      /\ DOMAIN visit'[v] = DOMAIN visit[v]
  BY <1>1 DEF DashShape, Opened
<1>4. OthersWait(v)
  BY DEF DashShape, Opened, OthersWait
<1>5. visit' = [w \in Visit |-> visit'[w]]
  BY DEF DashShape, Opened
<1> QED
  BY <1>2, <1>3, <1>4, <1>5 DEF DashShape, VisitShape, OthersWait

Read(v, select, result, todo, pc) ==
  visit' = [visit EXCEPT ![v].shown[select] = result, ![v].todo = todo, ![v].pc = pc]

LEMMA ReadFields ==
  ASSUME DashShape, NEW v \in Visit, NEW select, NEW result, NEW todo, NEW pc, Read(v, select, result, todo, pc)
  PROVE  /\ VisitShape' /\ OthersWait(v)
         /\ visit'[v].shown = [visit[v].shown EXCEPT ![select] = result] /\ visit'[v].todo = todo
         /\ visit'[v].pc = pc
         /\ visit'[v].at = visit[v].at /\ visit'[v].amount = visit[v].amount
         /\ visit'[v].op = visit[v].op
         /\ visit'[v].deal = visit[v].deal
<1>1. \A w \in Visit : DOMAIN visit[w] = {"pc", "op", "at", "amount", "deal", "stage", "loaded",
                                           "todo", "shown", "narrative"}
  BY DEF DashShape, NewVisit
<1>2. /\ visit'[v].shown = [visit[v].shown EXCEPT ![select] = result] /\ visit'[v].todo = todo
      /\ visit'[v].pc = pc
  BY <1>1 DEF DashShape, Read
<1>3.
      /\ visit'[v].at = visit[v].at /\ visit'[v].amount = visit[v].amount /\ visit'[v].op = visit[v].op
      /\ visit'[v].deal = visit[v].deal /\ DOMAIN visit'[v] = DOMAIN visit[v]
  BY <1>1 DEF DashShape, Read
<1>4. OthersWait(v)
  BY DEF DashShape, Read, OthersWait
<1>5. visit' = [w \in Visit |-> visit'[w]]
  BY DEF DashShape, Read
<1> QED
  BY <1>2, <1>3, <1>4, <1>5 DEF DashShape, VisitShape, OthersWait

Told(v, pc, narrative) ==
  visit' = [visit EXCEPT ![v].pc = pc, ![v].narrative = narrative]

LEMMA ToldFields ==
  ASSUME DashShape, NEW v \in Visit, NEW pc, NEW narrative, Told(v, pc, narrative)
  PROVE  /\ VisitShape' /\ OthersWait(v)
         /\ visit'[v].pc = pc
         /\ visit'[v].op = visit[v].op
         /\ visit'[v].at = visit[v].at /\ visit'[v].amount = visit[v].amount
         /\ visit'[v].todo = visit[v].todo /\ visit'[v].shown = visit[v].shown
<1>1. \A w \in Visit : DOMAIN visit[w] = {"pc", "op", "at", "amount", "deal", "stage", "loaded",
                                           "todo", "shown", "narrative"}
  BY DEF DashShape, NewVisit
<1>2. /\ visit'[v].pc = pc
  BY <1>1 DEF DashShape, Told
<1>3. /\ visit'[v].op = visit[v].op
      /\ visit'[v].at = visit[v].at /\ visit'[v].amount = visit[v].amount
      /\ visit'[v].todo = visit[v].todo /\ visit'[v].shown = visit[v].shown
      /\ DOMAIN visit'[v] = DOMAIN visit[v]
  BY <1>1 DEF DashShape, Told
<1>4. OthersWait(v)
  BY DEF DashShape, Told, OthersWait
<1>5. visit' = [w \in Visit |-> visit'[w]]
  BY DEF DashShape, Told
<1> QED
  BY <1>2, <1>3, <1>4, <1>5 DEF DashShape, VisitShape, OthersWait

LEMMA DashShapeKept ==
  ASSUME DashInv, NEW v \in Visit, VisitShape', OthersWait(v),
         visit'[v].at \in Nat, visit'[v].amount \in Int,
         visit'[v].pc # "new", clock' \in Nat, rows' \in Seq(Row), total' \in Sums
  PROVE  DashShape'
BY DEF DashInv, DashShape, VisitShape, OthersWait

\* A step of a request that has no deal in hand, before or after
LEMMA QuietStep ==
  ASSUME DashInv, NEW v \in Visit, VisitShape', OthersWait(v),
         visit'[v].at \in Nat, visit'[v].amount \in Int,
         visit'[v].pc # "new", UNCHANGED <<clock, rows, total, deals, moves, mixed>>,
         Shows(visit'[v], rows, total), ~Moves(visit'[v]), ~Saved(visit[v])
  PROVE  DashInv'
<1>1. DashShape'
  BY DashShapeKept DEF DashInv, DashShape
<1>2. Knows(visit'[v], deals', mixed')
  BY DEF Knows
<1>3. Booked(rows, total, rows', total')
  BY BookedSame DEF DashInv, DashShape
<1> QED
  BY <1>1, <1>2, <1>3, DashFrame DEF OthersWait

LEMMA SaveGrows ==
  ASSUME rows \in Seq(Row), total \in Sums, NEW row \in Row, rows' = Append(rows, row),
         total' = [kind \in {"income", "expense"} |->
                    total[kind] + IF kind = row.kind THEN row.amount ELSE 0]
  PROVE  rows' \in Seq(Row) /\ total' \in Sums /\ Booked(rows, total, rows', total')
<1> DEFINE n == Len(rows)
<1>1. /\ n \in Nat /\ Len(rows') = n + 1 /\ rows' \in Seq(Row) /\ rows'[n + 1] = row
      /\ \A i \in DOMAIN rows : rows'[i] = rows[i]
  OBVIOUS
<1>2. row.amount \in Int /\ total.income \in Int /\ total.expense \in Int
  BY DEF Row, Sums
<1>3. /\ total'.income = total.income + IF row.kind = "income" THEN row.amount ELSE 0
      /\ total'.expense = total.expense + IF row.kind = "expense" THEN row.amount ELSE 0
  OBVIOUS
<1>4. total' \in Sums
  BY <1>2, <1>3 DEF Sums
<1>5. ASSUME total.income > total'.income PROVE Refund(rows', "income", n, n + 1)
  <2>1. row.kind = "income" /\ row.amount < 0
    BY <1>2, <1>3, <1>5
  <2>2. n + 1 \in (n + 1)..(n + 1)
    BY <1>1
  <2> QED
    BY <1>1, <2>1, <2>2 DEF Refund
<1>6. ASSUME total.expense > total'.expense PROVE Refund(rows', "expense", n, n + 1)
  <2>1. row.kind = "expense" /\ row.amount < 0
    BY <1>2, <1>3, <1>6
  <2>2. n + 1 \in (n + 1)..(n + 1)
    BY <1>1
  <2> QED
    BY <1>1, <2>1, <2>2 DEF Refund
<1> QED
  BY <1>1, <1>4, <1>5, <1>6 DEF Booked

LEMMA RecordSteps ==
  ASSUME DashInv, NEW v \in Visit, BeginRecord(v) \/ SaveRecord(v) \/ AuditRecord(v)
  PROVE  DashInv'
<1>0. /\ DashShape /\ Shows(visit[v], rows, total)
      /\ visit[v].at \in Nat /\ visit[v].amount \in Int /\ clock \in Nat
      /\ rows \in Seq(Row) /\ total \in Sums /\ Knows(visit[v], deals, mixed)
  BY DEF DashInv, DashShape
<1>1. CASE BeginRecord(v)
  <2>1. PICK kind \in Kind : \E amount \in Int : Noted(v, "save", kind, clock, amount)
    <3>1. PICK kind \in Kind : \E amount \in IF kind = "kpi" THEN {0} ELSE Amount :
                                Noted(v, "save", kind, clock, amount)
      BY <1>1 DEF BeginRecord, Noted
    <3>2. (IF kind = "kpi" THEN {0} ELSE Amount) \subseteq Int
      BY DashboardAssumption
    <3> QED
      BY <3>1, <3>2
  <2>a. PICK amount \in Int : Noted(v, "save", kind, clock, amount)
    BY <2>1
  <2>2. /\ VisitShape' /\ OthersWait(v)
        /\ visit'[v].pc = "save" /\ visit'[v].op = kind /\ visit'[v].at = clock
        /\ visit'[v].amount = amount
        /\ visit'[v].shown = visit[v].shown
    BY <1>0, <2>a, NotedFields
  <2>3. kind \notin Totalled /\ kind \notin DealOp
    BY DEF Kind, Totalled, DealOp
  <2>4. Shows(visit'[v], rows, total) /\ ~Moves(visit'[v])
    BY <1>0, <2>2, <2>3 DEF Shows, Moves
  <2>5. ~Saved(visit[v]) /\ UNCHANGED <<clock, rows, total, deals, moves, mixed>>
    BY <1>1 DEF BeginRecord, Saved
  <2> QED
    BY <1>0, <2>2, <2>4, <2>5, QuietStep
<1>2. CASE SaveRecord(v)
  <2> DEFINE row == [kind |-> visit[v].op, at |-> visit[v].at, amount |-> visit[v].amount]
  <2>1. /\ visit[v].pc = "save" /\ visit[v].op \in Kind /\ Went(v, "audit")
        /\ rows' = Append(rows, row)
        /\ total' = [kind \in {"income", "expense"} |->
                      total[kind] + IF kind = row.kind THEN row.amount ELSE 0]
        /\ UNCHANGED <<clock, deals, moves, mixed>>
    BY <1>2 DEF SaveRecord, Went
  <2>2. /\ VisitShape' /\ OthersWait(v)
        /\ visit'[v].pc = "audit" /\ visit'[v].op = visit[v].op
        /\ visit'[v].at = visit[v].at /\ visit'[v].amount = visit[v].amount
        /\ visit'[v].shown = visit[v].shown
    BY <1>0, <2>1, WentFields
  <2>3. visit[v].op \notin Totalled /\ visit[v].op \notin DealOp
    BY <2>1 DEF Kind, Totalled, DealOp
  <2>4. row \in Row
    BY <1>0, <2>1 DEF Row
  <2> HIDE DEF row
  <2>5. rows' \in Seq(Row) /\ total' \in Sums /\ Booked(rows, total, rows', total')
    BY <1>0, <2>1, <2>4, SaveGrows
  <2>6. Shows(visit'[v], rows', total') /\ ~Moves(visit'[v]) /\ ~Saved(visit[v])
    <3>1. Shows(visit[v], rows', total')
      BY <1>0, <2>5, ShowsOn
    <3> QED
      BY <2>2, <2>3, <3>1 DEF Shows, Moves, Saved
  <2>7. Knows(visit'[v], deals', mixed')
    BY <2>6 DEF Knows
  <2>8. DashShape'
    BY <1>0, <2>1, <2>2, <2>5, DashShapeKept
  <2> QED
    BY <2>1, <2>2, <2>5, <2>6, <2>7, <2>8, DashFrame DEF OthersWait
<1>3. CASE AuditRecord(v)
  <2>1. /\ visit[v].op \in Kind /\ Went(v, "done")
        /\ UNCHANGED <<clock, rows, total, deals, moves, mixed>>
    BY <1>3 DEF AuditRecord, Went
  <2>2. /\ VisitShape' /\ OthersWait(v)
        /\ visit'[v].pc = "done" /\ visit'[v].op = visit[v].op
        /\ visit'[v].at = visit[v].at /\ visit'[v].amount = visit[v].amount
        /\ visit'[v].shown = visit[v].shown
    BY <1>0, <2>1, WentFields
  <2>3. visit[v].op \notin Totalled /\ visit[v].op \notin DealOp
    BY <2>1 DEF Kind, Totalled, DealOp
  <2>4. Shows(visit'[v], rows, total) /\ ~Moves(visit'[v]) /\ ~Saved(visit[v])
    BY <1>0, <2>2, <2>3 DEF Shows, Moves, Saved
  <2> QED
    BY <1>0, <2>1, <2>2, <2>4, QuietStep
<1> QED
  BY <1>1, <1>2, <1>3

LEMMA TakeDealSteps ==
  ASSUME DashInv, NEW v \in Visit, BeginCreate(v) \/ LoadDeal(v)
  PROVE  DashInv'
<1>0. /\ DashShape /\ Shows(visit[v], rows, total)
      /\ visit[v].at \in Nat /\ visit[v].amount \in Int /\ clock \in Nat
      /\ rows \in Seq(Row) /\ total \in Sums /\ visit[v].pc = "new" /\ visit[v] = NewVisit
      /\ deals \in [Deal -> Stage \cup {"none"}] /\ ~Saved(visit[v])
  BY DEF DashInv, DashShape, DealShape, BeginCreate, LoadDeal, Saved
<1>1. visit[v].loaded = "none" /\ "lead" \in Stage /\ "none" \notin Stage
  BY <1>0, DashboardAssumption DEF NewVisit
<1>2. Booked(rows, total, rows, total)
  BY <1>0, BookedSame
<1>3. CASE BeginCreate(v)
  <2>1. PICK d \in Deal :
          /\ deals[d] = "none"
          /\ \A w \in Visit : visit[w].op = "create_deal" => visit[w].deal # d
          /\ Created(v, "save", "create_deal", d, "lead")
    BY <1>3 DEF BeginCreate, Created
  <2>2. /\ VisitShape' /\ OthersWait(v)
        /\ visit'[v].pc = "save" /\ visit'[v].op = "create_deal" /\ visit'[v].deal = d
        /\ visit'[v].stage = "lead"
        /\ visit'[v].at = visit[v].at /\ visit'[v].amount = visit[v].amount
        /\ visit'[v].loaded = visit[v].loaded
        /\ visit'[v].shown = visit[v].shown
    BY <1>0, <2>1, CreatedFields
  <2>3. UNCHANGED <<clock, rows, total, deals, moves, mixed>>
    BY <1>3 DEF BeginCreate
  <2>4. Shows(visit'[v], rows', total')
    BY <1>0, <2>2, <2>3 DEF Shows, Totalled
  <2>5. Knows(visit'[v], deals', mixed')
    BY <1>1, <2>2 DEF Knows
  <2>6. \A w \in Visit : Moves(visit[w]) => visit[w].deal # d
    BY <2>1 DEF DashInv, Knows, Moves, DealOp
  <2>7. DashShape'
    BY <1>0, <2>2, <2>3, DashShapeKept
  <2> QED
    BY <1>0, <1>2, <2>2, <2>3, <2>4, <2>5, <2>6, <2>7, DashFrame DEF OthersWait
<1>4. CASE LoadDeal(v)
  <2>1. PICK d \in Deal, stage \in Stage :
          \/ deals[d] = "none" /\ Missed(v, "done", "update_deal_stage") /\ mixed' = mixed
          \/ /\ deals[d] # "none" /\ Loaded(v, "save", "update_deal_stage", d, stage, deals[d])
             /\ mixed \subseteq mixed'
             /\ Moving(d) # {} => d \in mixed'
    BY <1>4 DEF LoadDeal, Missed, Loaded
  <2>2. UNCHANGED <<clock, rows, total, deals, moves>>
    BY <1>4 DEF LoadDeal
  <2>3. CASE Missed(v, "done", "update_deal_stage") /\ mixed' = mixed
    <3>1. /\ VisitShape' /\ OthersWait(v)
          /\ visit'[v].pc = "done" /\ visit'[v].op = "update_deal_stage"
          /\ visit'[v].at = visit[v].at /\ visit'[v].amount = visit[v].amount
          /\ visit'[v].shown = visit[v].shown
      BY <1>0, <2>3, MissedFields
    <3>2. Shows(visit'[v], rows, total) /\ ~Moves(visit'[v])
      BY <1>0, <3>1 DEF Shows, Moves, Totalled
    <3> QED
      BY <1>0, <2>2, <2>3, <3>1, <3>2, QuietStep
  <2>4. CASE /\ deals[d] # "none" /\ Loaded(v, "save", "update_deal_stage", d, stage, deals[d])
             /\ mixed \subseteq mixed'
             /\ Moving(d) # {} => d \in mixed'
    <3>1. /\ VisitShape' /\ OthersWait(v)
          /\ visit'[v].pc = "save" /\ visit'[v].op = "update_deal_stage" /\ visit'[v].deal = d
          /\ visit'[v].stage = stage
          /\ visit'[v].at = visit[v].at /\ visit'[v].amount = visit[v].amount
          /\ visit'[v].loaded = deals[d]
          /\ visit'[v].shown = visit[v].shown
      BY <1>0, <2>4, LoadedFields
    <3>2. Shows(visit'[v], rows', total')
      BY <1>0, <2>2, <3>1 DEF Shows, Totalled
    <3>3. Knows(visit'[v], deals', mixed')
      BY <2>2, <2>4, <3>1 DEF Knows
    <3>4. \A w \in Visit : Moves(visit[w]) /\ visit[w].deal = d => d \in mixed'
      BY <2>4 DEF Moves, Moving
    <3>5. DashShape'
      BY <1>0, <2>2, <3>1, DashShapeKept
    <3> QED
      BY <1>0, <1>2, <2>2, <2>4, <3>1, <3>2, <3>3, <3>4, <3>5, DashFrame DEF OthersWait
  <2> QED
    BY <2>1, <2>3, <2>4
<1> QED
  BY <1>3, <1>4

LEMMA SaveDealKeeps ==
  ASSUME DashInv, NEW v \in Visit, SaveDeal(v)
  PROVE  DashInv'
<1> DEFINE d == visit[v].deal
           stage == visit[v].stage
<1>1. /\ DashShape /\ Shows(visit[v], rows, total)
      /\ visit[v].at \in Nat /\ visit[v].amount \in Int /\ clock \in Nat
      /\ rows \in Seq(Row) /\ total \in Sums
      /\ visit[v].pc = "save" /\ Moves(visit[v]) /\ Knows(visit[v], deals, mixed)
      /\ deals \in [Deal -> Stage \cup {"none"}] /\ "none" \notin Stage
      /\ UNCHANGED <<clock, rows, total, moves, mixed>> /\ Went(v, "audit")
  BY DashboardAssumption DEF DashInv, DashShape, DealShape, SaveDeal, Moves, DealOp, Went
<1>2. d \in Deal /\ stage \in Stage
  BY <1>1 DEF Knows
<1>3. /\ deals' \in [Deal -> Stage \cup {"none"}]
      /\ \A e \in Deal : e # d => deals'[e] = deals[e]
      /\ deals'[d] = deals[d] \/ deals'[d] # "none"
      /\ d \notin mixed => deals'[d] = stage
  <2>1. CASE stage = visit[v].loaded
    <3>1. deals' = deals
      BY <2>1 DEF SaveDeal
    <3>2. visit[v].op = "update_deal_stage"
      BY <1>1, <1>2, <2>1 DEF Knows, Moves, DealOp
    <3> QED
      BY <1>1, <2>1, <3>1, <3>2 DEF Knows
  <2>2. CASE stage # visit[v].loaded
    <3>1. deals' = [deals EXCEPT ![d] = stage]
      BY <2>2 DEF SaveDeal
    <3> QED
      BY <1>1, <1>2, <3>1
  <2> QED
    BY <2>1, <2>2
<1>4. /\ VisitShape' /\ OthersWait(v)
      /\ visit'[v].pc = "audit" /\ visit'[v].op = visit[v].op
      /\ visit'[v].at = visit[v].at /\ visit'[v].amount = visit[v].amount
      /\ visit'[v].deal = d /\ visit'[v].stage = stage /\ visit'[v].loaded = visit[v].loaded
      /\ visit'[v].shown = visit[v].shown
  BY <1>1, WentFields
<1>5. DashShape'
  BY <1>1, <1>4, DashShapeKept
<1>6. \A w \in Visit : Shows(visit'[w], rows', total')
  <2>1. Shows(visit'[v], rows', total')
    BY <1>1, <1>4 DEF Shows, Moves, DealOp, Totalled
  <2> QED
    BY <1>1, <1>4, <2>1 DEF DashInv, OthersWait
<1>7. \A w \in Visit : Knows(visit'[w], deals', mixed')
  <2>1. Knows(visit'[v], deals', mixed')
    <3>1. visit[v].op = "update_deal_stage" => deals'[d] # "none"
      BY <1>1, <1>3 DEF Knows
    <3>2. visit[v].op = "create_deal" => visit'[v].loaded = "none"
      BY <1>1, <1>4 DEF Knows
    <3> QED
      BY <1>1, <1>2, <1>3, <1>4, <3>1, <3>2 DEF Knows
  <2>2. ASSUME NEW w \in Visit, w # v PROVE Knows(visit'[w], deals', mixed')
    <3>1. Knows(visit[w], deals, mixed)
      BY DEF DashInv
    <3>2. Moves(visit[w]) /\ visit[w].deal = d => d \in mixed
      BY <1>1, <2>2 DEF DashInv, MovesAlone
    <3>3. Moves(visit[w]) => visit[w].deal \in Deal
      BY <3>1 DEF Knows
    <3> HIDE DEF d, stage
    <3>4. CASE Moves(visit[w]) /\ visit[w].deal = d /\ deals'[d] # deals[d]
      <4>1. deals'[visit[w].deal] # "none" /\ visit[w].deal \in mixed'
        BY <1>1, <1>3, <3>2, <3>4
      <4> QED
        BY <1>1, <1>4, <2>2, <3>1, <4>1, KnowsOn DEF OthersWait
    <3>5. CASE ~(Moves(visit[w]) /\ visit[w].deal = d /\ deals'[d] # deals[d])
      <4>1. Moves(visit[w]) => deals'[visit[w].deal] = deals[visit[w].deal]
        BY <1>3, <3>3, <3>5
      <4> QED
        BY <1>1, <1>4, <2>2, <3>1, <4>1, KnowsOn DEF OthersWait
    <3> QED
      BY <3>4, <3>5
  <2> QED
    BY <2>1, <2>2
<1>8. MovesAlone'
  <2>1. \A w \in Visit : Moves(visit'[w]) => Moves(visit[w]) /\ visit'[w].deal = visit[w].deal
    BY <1>1, <1>4 DEF OthersWait
  <2> QED
    BY <1>1, <2>1 DEF DashInv, MovesAlone
<1>9. WordKept'
  <2> SUFFICES ASSUME NEW e \in Deal \ mixed', \A w \in Visit : Saved(visit'[w]) => visit'[w].deal # e
               PROVE  (\A i \in DOMAIN moves' : moves'[i][1] # e) \/ Latest(moves', e, deals'[e])
    BY DEF WordKept
  <2>1. Saved(visit'[v])
    BY <1>1, <1>4 DEF Saved, Moves
  <2>2. e # d /\ deals'[e] = deals[e]
    BY <1>3, <1>4, <2>1
  <2>3. \A w \in Visit : Saved(visit[w]) => visit[w].deal # e
    BY <1>4, <2>2 DEF OthersWait
  <2> QED
    BY <1>1, <2>2, <2>3 DEF DashInv, WordKept
<1>10. DealShape'
  BY <1>1, <1>3 DEF DashInv, DealShape
<1> QED
  BY <1>5, <1>6, <1>7, <1>8, <1>9, <1>10 DEF DashInv

LEMMA AuditDealKeeps ==
  ASSUME DashInv, NEW v \in Visit, AuditDeal(v)
  PROVE  DashInv'
<1> DEFINE d == visit[v].deal
           stage == visit[v].stage
           n == Len(moves)
<1>1. /\ DashShape /\ Shows(visit[v], rows, total)
      /\ visit[v].at \in Nat /\ visit[v].amount \in Int /\ clock \in Nat
      /\ rows \in Seq(Row) /\ total \in Sums
      /\ visit[v].pc = "audit" /\ Moves(visit[v]) /\ Knows(visit[v], deals, mixed)
      /\ moves \in Seq(Deal \X Stage) /\ moves' = Append(moves, <<d, stage>>)
      /\ UNCHANGED <<clock, rows, total, deals, mixed>> /\ Went(v, "done")
  BY DEF DashInv, DashShape, DealShape, AuditDeal, Moves, DealOp, Went
<1>2. d \in Deal /\ stage \in Stage /\ (d \notin mixed => deals[d] = stage)
  BY <1>1 DEF Knows
<1>3. /\ VisitShape' /\ OthersWait(v)
      /\ visit'[v].pc = "done" /\ visit'[v].op = visit[v].op
      /\ visit'[v].at = visit[v].at /\ visit'[v].amount = visit[v].amount
      /\ visit'[v].shown = visit[v].shown
  BY <1>1, WentFields
<1>4. /\ n \in Nat /\ DOMAIN moves = 1..n /\ DOMAIN moves' = 1..(n + 1)
      /\ \A i \in 1..n : moves'[i] = moves[i]
      /\ moves'[n + 1][1] = d /\ moves'[n + 1][2] = stage
      /\ moves' \in Seq(Deal \X Stage)
  BY <1>1, <1>2
<1> HIDE DEF d, stage, n
<1>5. DashShape'
  BY <1>1, <1>3, DashShapeKept
<1>6. \A w \in Visit : Shows(visit'[w], rows', total')
  <2>1. Shows(visit'[v], rows', total')
    BY <1>1, <1>3 DEF Shows, Moves, DealOp, Totalled
  <2> QED
    BY <1>1, <1>3, <2>1 DEF DashInv, OthersWait
<1>7. ~Moves(visit'[v])
  BY <1>3 DEF Moves
<1>8. \A w \in Visit : Knows(visit'[w], deals', mixed')
  <2>1. Knows(visit'[v], deals', mixed')
    BY <1>7 DEF Knows
  <2> QED
    BY <1>1, <1>3, <2>1 DEF DashInv, OthersWait
<1>9. MovesAlone'
  BY <1>1, <1>3, <1>7 DEF DashInv, MovesAlone, OthersWait
<1>10. WordKept'
  <2> SUFFICES ASSUME NEW e \in Deal \ mixed', \A w \in Visit : Saved(visit'[w]) => visit'[w].deal # e
               PROVE  (\A i \in DOMAIN moves' : moves'[i][1] # e) \/ Latest(moves', e, deals'[e])
    BY DEF WordKept
  <2>1. CASE e = d
    <3>1. moves'[n + 1][1] = e /\ moves'[n + 1][2] = deals'[e]
      BY <1>1, <1>2, <1>4, <2>1
    <3>2. n + 1 \in DOMAIN moves' /\ \A j \in DOMAIN moves' : j <= n + 1
      BY <1>4
    <3> QED
      BY <3>1, <3>2 DEF Latest
  <2>2. CASE e # d
    <3>1. \A w \in Visit : Saved(visit[w]) => visit[w].deal # e
      BY <1>3, <2>2 DEF OthersWait, d
    <3>2. (\A i \in DOMAIN moves : moves[i][1] # e) \/ Latest(moves, e, deals[e])
      BY <1>1, <3>1 DEF DashInv, WordKept
    <3>3. \A i \in DOMAIN moves' : moves'[i][1] = e => i \in 1..n /\ moves[i][1] = e
      BY <1>4, <2>2
    <3>4. ASSUME Latest(moves, e, deals[e]) PROVE Latest(moves', e, deals'[e])
      <4>1. PICK i \in DOMAIN moves : /\ moves[i][1] = e /\ moves[i][2] = deals[e]
                                      /\ \A j \in DOMAIN moves : moves[j][1] = e => j <= i
        BY <3>4 DEF Latest
      <4>2. i \in DOMAIN moves' /\ moves'[i] = moves[i]
        BY <1>4, <4>1
      <4>3. \A j \in DOMAIN moves' : moves'[j][1] = e => j <= i
        BY <1>4, <3>3, <4>1
      <4> QED
        BY <1>1, <4>1, <4>2, <4>3 DEF Latest
    <3> QED
      BY <1>4, <3>2, <3>3, <3>4
  <2> QED
    BY <2>1, <2>2
<1>11. DealShape'
  BY <1>1, <1>4 DEF DashInv, DealShape
<1> QED
  BY <1>5, <1>6, <1>8, <1>9, <1>10, <1>11 DEF DashInv

LEMMA BeginPageKeeps ==
  ASSUME DashInv, NEW v \in Visit, BeginPage(v)
  PROVE  DashInv'
<1>0. /\ DashShape /\ Shows(visit[v], rows, total)
      /\ visit[v].at \in Nat /\ visit[v].amount \in Int /\ clock \in Nat
      /\ rows \in Seq(Row) /\ total \in Sums /\ ~Saved(visit[v])
      /\ visit[v] = NewVisit /\ UNCHANGED <<clock, rows, total, deals, moves, mixed>>
  BY DEF DashInv, DashShape, BeginPage, Saved
<1>1. PICK page \in Page : Opened(v, "read", page, Selects(page))
  BY DEF BeginPage, Opened
<1>2. /\ VisitShape' /\ OthersWait(v)
      /\ visit'[v].pc = "read" /\ visit'[v].op = page /\ visit'[v].todo = Selects(page)
      /\ visit'[v].at = visit[v].at /\ visit'[v].amount = visit[v].amount
      /\ visit'[v].shown = visit[v].shown
  BY <1>0, <1>1, OpenedFields
<1>3. visit'[v].shown = Unread
  BY <1>0, <1>2 DEF NewVisit
<1>4. page \in Totalled => Selects(page) \in Agenda(page)
  BY DEF Totalled, Selects, Agenda
<1>5. /\ visit'[v].shown.recent = {} /\ DOMAIN visit'[v].shown = DOMAIN Unread
      /\ visit'[v].shown.income = visit'[v].shown.expense
  BY <1>3 DEF Unread
<1>6. Balanced(visit'[v], rows)
  BY <1>3 DEF Balanced, Unread, NoBooks
<1>7. Shows(visit'[v], rows, total)
  <2>1. Since(visit'[v].shown.income, rows, total) /\ Since(visit'[v].shown.expense, rows, total)
    BY <1>0, <1>2 DEF Shows
  <2> QED
    BY <1>2, <1>4, <1>5, <1>6, <2>1 DEF Shows
<1>8. ~Moves(visit'[v])
  BY <1>2 DEF Moves
<1> QED
  BY <1>0, <1>2, <1>7, <1>8, QuietStep

\* One select less to do
LEMMA Onward ==
  /\ Tail(<<"income", "expense", "recent">>) = <<"expense", "recent">>
  /\ Tail(<<"expense", "recent">>) = <<"recent">>
  /\ Tail(<<"open", "income", "expense">>) = <<"income", "expense">>
  /\ Tail(<<"income", "expense">>) = <<"expense">>
OBVIOUS

\* A list that is not full shows all there is.
LEMMA NewestFull ==
  ASSUME NEW set, IsFiniteSet(set), NEW top \in Newest(set), NEW i \in set \ top
  PROVE  Cardinality(top) = Limit /\ \A j \in top : rows[j].at >= rows[i].at
<1>1. /\ top \subseteq set
      /\ Cardinality(top) = IF Cardinality(set) < Limit THEN Cardinality(set) ELSE Limit
      /\ \A j \in top : rows[j].at >= rows[i].at
  BY DEF Newest
<1>2. Cardinality(top) # Cardinality(set)
  BY <1>1, FS_Subset
<1> QED
  BY <1>1, <1>2

LEMMA SelectsReturn ==
  ASSUME NEW result
  PROVE  /\ result \in Result("income") => result = Books
         /\ result \in Result("expense") => result = Books
         /\ result \in Result("recent") => result \in Newest(OfKind({"income", "expense"}))
BY DEF Result

\* A sum that has just been read
LEMMA BooksAgree ==
  ASSUME rows \in Seq(Row), total \in Sums
  PROVE  Since(Books, rows, total)
BY DEF Books, Since, Sums

LEMMA ReadNextKeeps ==
  ASSUME DashInv, NEW v \in Visit, ReadNext(v)
  PROVE  DashInv'
<1> DEFINE shown == visit[v].shown
           op == visit[v].op
<1>0. /\ DashShape /\ visit[v].at \in Nat /\ visit[v].amount \in Int /\ clock \in Nat
      /\ rows \in Seq(Row) /\ total \in Sums /\ ~Saved(visit[v])
      /\ Shows(visit[v], rows, total) /\ visit[v].pc = "read"
      /\ UNCHANGED <<clock, rows, total, deals, moves, mixed>>
  BY DEF DashInv, DashShape, ReadNext, Saved
<1>1. PICK select, rest, result, pc :
        /\ select = Head(visit[v].todo) /\ rest = Tail(visit[v].todo) /\ result \in Result(select)
        /\ Read(v, select, result, rest, pc)
        /\ pc = IF Len(visit[v].todo) > 1 THEN "read" ELSE IF op = "ceo_briefing" THEN "synthesize" ELSE "done"
  BY Zenon DEF ReadNext, Read
<1>2. /\ VisitShape' /\ OthersWait(v)
      /\ visit'[v].shown = [shown EXCEPT ![select] = result]
      /\ visit'[v].todo = rest /\ visit'[v].pc = pc
      /\ visit'[v].at = visit[v].at /\ visit'[v].amount = visit[v].amount /\ visit'[v].op = op
  <2>1. DashShape /\ Read(v, select, result, rest, pc)
    BY <1>0, <1>1
  <2>2. /\ VisitShape' /\ OthersWait(v) /\ visit'[v].op = op
        /\ visit'[v].at = visit[v].at /\ visit'[v].amount = visit[v].amount
    BY <2>1, ReadFields
  <2>3. visit'[v].shown = [visit[v].shown EXCEPT ![select] = result]
    <3>1. \A w \in Visit : DOMAIN visit[w] = {"pc", "op", "at", "amount", "deal", "stage", "loaded",
                                             "todo", "shown", "narrative"}
      BY <2>1 DEF DashShape, NewVisit
    <3> QED
      BY <2>1, <3>1 DEF DashShape, Read
  <2>4. DOMAIN visit[v] = {"pc", "op", "at", "amount", "deal", "stage", "loaded",
                                           "todo", "shown", "narrative"}
    BY <2>1 DEF DashShape, NewVisit
  <2>5. visit'[v].todo = rest /\ visit'[v].pc = pc
    BY <2>1, <2>4 DEF DashShape, Read
  <2> QED
    BY <2>2, <2>3, <2>5
<1>3. pc \in {"read", "synthesize", "done"}
  BY <1>1
<1>4. ~Moves(visit'[v])
  BY <1>2, <1>3 DEF Moves
<1>5. /\ DOMAIN visit'[v].shown = DOMAIN Unread
      /\ DOMAIN shown = {"income", "expense", "recent", "kpis", "open", "pipeline"}
  BY <1>0, <1>2 DEF Shows, Unread
<1>8. Since(visit'[v].shown.income, rows, total) /\ Since(visit'[v].shown.expense, rows, total)
  <2>1. /\ visit'[v].shown.income = IF select = "income" THEN Books ELSE shown.income
        /\ visit'[v].shown.expense = IF select = "expense" THEN Books ELSE shown.expense
    BY <1>1, <1>2, <1>5, SelectsReturn
  <2>2. Since(shown.income, rows, total) /\ Since(shown.expense, rows, total) /\ Since(Books, rows, total)
    BY <1>0, BooksAgree DEF Shows
  <2> QED
    BY <2>1, <2>2
<1>6. ASSUME op \in Totalled PROVE Shows(visit'[v], rows, total)
  <2>1. visit[v].todo \in Agenda(op) /\ shown.recent \subseteq DOMAIN rows
    BY <1>0, <1>6 DEF Shows
  <2>2. \A k : Since(k.shown.income, rows, total) /\ k.shown.expense = Books => Balanced(k, rows)
    BY DEF Since, Balanced, Books
  <2>3. CASE op = "financial_summary" /\ visit[v].todo = <<"income", "expense", "recent">>
    <3>1. select = "income" /\ rest = <<"expense", "recent">> /\ pc = "read"
      BY <1>1, <2>3, Onward
    <3>2. /\ visit'[v].shown.income = Books /\ visit'[v].shown.expense = shown.expense
          /\ visit'[v].shown.recent = shown.recent
      BY <1>1, <1>2, <1>5, <3>1, SelectsReturn
    <3>3. rest \in Agenda(op) /\ rest # <<"recent">>
      BY <2>3, <3>1 DEF Agenda
    <3> QED
      BY <1>8, <1>2, <1>5, <2>1, <3>1, <3>2, <3>3 DEF Shows
  <2>4. CASE op = "financial_summary" /\ visit[v].todo = <<"expense", "recent">>
    <3>1. select = "expense" /\ rest = <<"recent">> /\ pc = "read"
      BY <1>1, <2>4, Onward
    <3>2. /\ visit'[v].shown.expense = Books /\ visit'[v].shown.income = shown.income
          /\ visit'[v].shown.recent = shown.recent
      BY <1>1, <1>2, <1>5, <3>1, SelectsReturn
    <3>3. rest \in Agenda(op)
      BY <2>4, <3>1 DEF Agenda
    <3>4. Balanced(visit'[v], rows)
      BY <1>8, <2>2, <3>2
    <3> QED
      BY <1>8, <1>2, <1>5, <2>1, <3>1, <3>2, <3>3, <3>4 DEF Shows
  <2>5. CASE op = "financial_summary" /\ visit[v].todo = <<"recent">>
    <3>1. select = "recent" /\ pc = "done"
      BY <1>1, <2>5
    <3>2. /\ visit'[v].shown.expense = shown.expense /\ visit'[v].shown.income = shown.income
          /\ visit'[v].shown.recent = result
      BY <1>2, <1>5, <3>1
    <3>3. Balanced(visit'[v], rows)
      BY <1>0, <2>5, <3>2 DEF Shows, Balanced, Totalled
    <3>4. result \in Newest(OfKind({"income", "expense"}))
      BY <1>1, <3>1, SelectsReturn
    <3>5. Tallied(visit'[v], rows) \subseteq OfKind({"income", "expense"})
      BY DEF OfKind, Tallied
    <3>6. IsFiniteSet(OfKind({"income", "expense"})) /\ OfKind({"income", "expense"}) \subseteq DOMAIN rows
      <4>1. IsFiniteSet(1..Len(rows)) /\ DOMAIN rows = 1..Len(rows)
        BY <1>0, FS_Interval
      <4> QED
        BY <4>1, FS_Subset DEF OfKind
    <3>7. FullList(visit'[v], rows)
      BY <2>1, <3>2, <3>4, <3>5, <3>6, NewestFull DEF FullList
    <3>8. result \subseteq DOMAIN rows
      BY <3>4, <3>6 DEF Newest
    <3> QED
      BY <1>8, <1>2, <1>5, <2>1, <3>1, <3>2, <3>3, <3>7, <3>8 DEF Shows
  <2>6. CASE op = "ceo_briefing" /\ visit[v].todo = <<"open", "income", "expense">>
    <3>1. select = "open" /\ rest = <<"income", "expense">> /\ pc = "read"
      BY <1>1, <2>6, Onward
    <3>2. /\ visit'[v].shown.income = shown.income /\ visit'[v].shown.expense = shown.expense
          /\ visit'[v].shown.recent = shown.recent
      BY <1>2, <1>5, <3>1
    <3>3. rest \in Agenda(op) /\ rest # <<"recent">>
      BY <2>6, <3>1 DEF Agenda
    <3> QED
      BY <1>8, <1>2, <1>5, <2>1, <2>6, <3>1, <3>2, <3>3 DEF Shows
  <2>7. CASE op = "ceo_briefing" /\ visit[v].todo = <<"income", "expense">>
    <3>1. select = "income" /\ rest = <<"expense">> /\ pc = "read"
      BY <1>1, <2>7, Onward
    <3>2. /\ visit'[v].shown.income = Books /\ visit'[v].shown.expense = shown.expense
          /\ visit'[v].shown.recent = shown.recent
      BY <1>1, <1>2, <1>5, <3>1, SelectsReturn
    <3>3. rest \in Agenda(op) /\ rest # <<"recent">>
      BY <2>7, <3>1 DEF Agenda
    <3> QED
      BY <1>8, <1>2, <1>5, <2>1, <2>7, <3>1, <3>2, <3>3 DEF Shows
  <2>8. CASE op = "ceo_briefing" /\ visit[v].todo = <<"expense">>
    <3>1. select = "expense" /\ pc = "synthesize"
      BY <1>1, <2>8
    <3>2. /\ visit'[v].shown.expense = Books /\ visit'[v].shown.income = shown.income
          /\ visit'[v].shown.recent = shown.recent
      BY <1>1, <1>2, <1>5, <3>1, SelectsReturn
    <3>3. Balanced(visit'[v], rows)
      BY <1>8, <2>2, <3>2
    <3> QED
      BY <1>8, <1>2, <1>5, <2>1, <2>8, <3>1, <3>2, <3>3 DEF Shows
  <2> QED
    BY <1>6, <2>1, <2>3, <2>4, <2>5, <2>6, <2>7, <2>8 DEF Agenda, Totalled
<1>7. ASSUME op \notin Totalled PROVE Shows(visit'[v], rows, total)
  BY <1>2, <1>5, <1>7, <1>8 DEF Shows
<1> QED
  BY <1>0, <1>2, <1>3, <1>4, <1>6, <1>7, QuietStep

LEMMA PageEnds ==
  ASSUME DashInv, NEW v \in Visit, Synthesize(v) \/ CutVisit(v)
  PROVE  DashInv'
<1>0. /\ DashShape /\ visit[v].at \in Nat /\ visit[v].amount \in Int /\ clock \in Nat
      /\ rows \in Seq(Row) /\ total \in Sums
      /\ Shows(visit[v], rows, total) /\ Knows(visit[v], deals, mixed)
  BY DEF DashInv, DashShape
<1>1. CASE Synthesize(v)
  <2>1. PICK narrative : Told(v, "done", narrative)
    BY <1>1, Zenon DEF Synthesize, Told
  <2>2. /\ VisitShape' /\ OthersWait(v)
        /\ visit'[v].pc = "done" /\ visit'[v].op = visit[v].op
        /\ visit'[v].at = visit[v].at /\ visit'[v].amount = visit[v].amount
        /\ visit'[v].todo = visit[v].todo /\ visit'[v].shown = visit[v].shown
    BY <1>0, <2>1, ToldFields
  <2>3. visit[v].pc = "synthesize" /\ UNCHANGED <<clock, rows, total, deals, moves, mixed>>
    BY <1>1 DEF Synthesize
  <2>4. Shows(visit'[v], rows, total)
    BY <1>0, <2>2, <2>3 DEF Shows, Balanced, Tallied, FullList
  <2>5. ~Moves(visit'[v]) /\ ~Saved(visit[v])
    BY <2>2, <2>3 DEF Moves, Saved
  <2> QED
    BY <1>0, <2>2, <2>3, <2>4, <2>5, QuietStep
<1>2. CASE CutVisit(v)
  <2>1. /\ Went(v, "cut")
        /\ UNCHANGED <<clock, rows, total, deals, moves>> /\ mixed \subseteq mixed'
        /\ visit[v].pc = "audit" /\ visit[v].deal \in Deal => visit[v].deal \in mixed'
    BY <1>2 DEF CutVisit, Went
  <2>2. /\ VisitShape' /\ OthersWait(v)
        /\ visit'[v].pc = "cut" /\ visit'[v].op = visit[v].op
        /\ visit'[v].at = visit[v].at /\ visit'[v].amount = visit[v].amount
        /\ visit'[v].todo = visit[v].todo /\ visit'[v].shown = visit[v].shown
    BY <1>0, <2>1, WentFields
  <2>3. Saved(visit[v]) => visit[v].deal \in mixed'
    BY <1>0, <2>1 DEF Saved, Knows, Moves
  <2>4. Shows(visit'[v], rows', total')
    BY <1>0, <2>1, <2>2 DEF Shows, Balanced, Tallied, FullList
  <2>5. ~Moves(visit'[v])
    BY <2>2 DEF Moves
  <2>6. Knows(visit'[v], deals', mixed')
    BY <2>5 DEF Knows
  <2>7. DashShape'
    BY <1>0, <2>1, <2>2, DashShapeKept
  <2>8. Booked(rows, total, rows', total')
    BY <1>0, <2>1, BookedSame
  <2> QED
    BY <2>1, <2>2, <2>3, <2>4, <2>5, <2>6, <2>7, <2>8, DashFrame DEF OthersWait
<1> QED
  BY <1>1, <1>2

LEMMA DashStep == DashInv /\ [DashboardNext]_dashVars => DashInv'
<1> SUFFICES ASSUME DashInv, [DashboardNext]_dashVars PROVE DashInv'
  OBVIOUS
<1>1. CASE \E v \in Visit : VisitStep(v)
  <2>1. PICK v \in Visit : VisitStep(v)
    BY <1>1
  <2> QED
    BY <2>1, RecordSteps, TakeDealSteps, SaveDealKeeps, AuditDealKeeps, BeginPageKeeps, ReadNextKeeps, PageEnds
    DEF VisitStep
<1>2. CASE Tick \/ UNCHANGED dashVars
  <2>1. UNCHANGED <<rows, total, deals, moves, mixed, visit>> /\ clock' \in Nat
    BY <1>2 DEF Tick, dashVars, DashInv, DashShape
  <2>2. DashShape' /\ DealShape'
    BY <2>1 DEF DashInv, DashShape, DealShape
  <2>3. MovesAlone' /\ WordKept'
    BY <2>1 DEF DashInv, MovesAlone, WordKept
  <2> QED
    BY <2>1, <2>2, <2>3 DEF DashInv
<1> QED
  BY <1>1, <1>2 DEF DashboardNext

LEMMA DashStart == DashboardInit => DashInv
<1> SUFFICES ASSUME DashboardInit PROVE DashInv
  OBVIOUS
<1>1. /\ visit = [v \in Visit |-> NewVisit] /\ rows = <<>> /\ moves = <<>> /\ clock = 0
      /\ total = [income |-> 0, expense |-> 0]
      /\ deals \in [Deal -> {"none", "lead"}] /\ "lead" \in Stage
  BY DashboardAssumption DEF DashboardInit
<1>2. DashShape
  BY <1>1 DEF DashShape, NewVisit, Sums
<1>3. DealShape
  BY <1>1 DEF DealShape
<1>4. \A v \in Visit : visit[v] = NewVisit
  BY <1>1
<1>5. \A v \in Visit : Shows(visit[v], rows, total) /\ ~Moves(visit[v])
  BY <1>1, <1>4 DEF Shows, Since, Moves, NewVisit, Unread, NoBooks, Totalled
<1>6. WordKept
  BY <1>1 DEF WordKept
<1> QED
  BY <1>2, <1>3, <1>5, <1>6 DEF DashInv, Knows, MovesAlone

(***************************************************************************)
(* For any amounts, negative ones included, and however many are recorded  *)
(* between the selects of a summary or a briefing: its net is above the    *)
(* net at its first select only by a negative expense recorded in between, *)
(* above the net at its second only by a negative income; and a summary    *)
(* lists what it counts unless its list is full of newer transactions      *)
(* (app/dashboard/router.py, financial_summary and ceo_briefing).          *)
(***************************************************************************)
THEOREM TotalsAlwaysStand == DashboardSpec => []TotalsStand
<1>1. DashInv => OverstatedByRefundsOnly
  <2> SUFFICES ASSUME DashInv, NEW v \in Visit, Complete(v), visit[v].op \in Totalled
               PROVE  LET first == visit[v].shown.income
                          last == visit[v].shown.expense
                          net == first.income - last.expense
                      IN  /\ net > first.income - first.expense => Refunded("expense", first, last)
                          /\ net > last.income - last.expense => Refunded("income", first, last)
    BY DEF OverstatedByRefundsOnly, Totalled
  <2> DEFINE first == visit[v].shown.income
             last == visit[v].shown.expense
  <2>1. Since(first, rows, total) /\ Since(last, rows, total) /\ Balanced(visit[v], rows)
    BY DEF DashInv, Shows, Complete
  <2>2. first.income \in Int /\ first.expense \in Int /\ last.income \in Int /\ last.expense \in Int
    BY <2>1 DEF Since
  <2>3. ASSUME first.income - last.expense > first.income - first.expense
        PROVE  Refunded("expense", first, last)
    <3>1. first.expense > last.expense
      BY <2>2, <2>3
    <3> QED
      BY <2>1, <3>1 DEF Balanced, Refund, Refunded
  <2>4. ASSUME first.income - last.expense > last.income - last.expense
        PROVE  Refunded("income", first, last)
    <3>1. first.income > last.income
      BY <2>2, <2>4
    <3> QED
      BY <2>1, <3>1 DEF Balanced, Refund, Refunded
  <2> QED
    BY <2>3, <2>4
<1>2. DashInv => CountedThenListed
  <2> SUFFICES ASSUME DashInv, NEW v \in Visit, Complete(v), visit[v].op = "financial_summary",
                      NEW i \in Counted(v) \ visit[v].shown.recent
               PROVE  /\ Cardinality(visit[v].shown.recent) = Limit
                      /\ \A j \in visit[v].shown.recent : rows[j].at >= rows[i].at
    BY DEF CountedThenListed
  <2>1. FullList(visit[v], rows)
    BY DEF DashInv, Shows, Complete, Totalled
  <2>2. Counted(v) = Tallied(visit[v], rows)
    BY DEF Counted, Tallied
  <2> QED
    BY <2>1, <2>2 DEF FullList
<1>3. DashInv => TotalsStand
  BY <1>1, <1>2 DEF TotalsStand
<1> QED
  BY <1>3, DashStart, DashStep, PTL DEF DashboardSpec

(***************************************************************************)
(* The stage of a deal is the last one audited, unless updates of it have  *)
(* overlapped, one was cut before its entry or one is being made           *)
(* (app/dashboard/router.py, create_deal and update_deal_stage).           *)
(***************************************************************************)
THEOREM LastWordHolds == DashboardSpec => []LastWordStands
<1>1. DashInv => LastWordStands
  <2> SUFFICES ASSUME DashInv, NEW d \in Deal \ mixed, Audited(d) # {}, Moving(d) = {}
               PROVE  deals[d] = LastWord(d)
    BY DEF LastWordStands
  <2>1. \A v \in Visit : Saved(visit[v]) => visit[v].deal # d
    BY DEF Saved, Moving
  <2>2. Latest(moves, d, deals[d])
    BY <2>1 DEF DashInv, WordKept, Audited
  <2>3. PICK i \in Audited(d) : moves[i][2] = deals[d] /\ \A j \in Audited(d) : j <= i
    BY <2>2 DEF Latest, Audited
  <2>4. Audited(d) \subseteq Nat
    BY DEF Audited, DashInv, DealShape
  <2>5. \A x \in Audited(d) : (\A j \in Audited(d) : j <= x) => x = i
    BY <2>3, <2>4
  <2>6. (CHOOSE x \in Audited(d) : \A j \in Audited(d) : j <= x) = i
    BY <2>3, <2>5
  <2> QED
    BY <2>3, <2>6 DEF LastWord
<1> QED
  BY <1>1, DashStart, DashStep, PTL DEF DashboardSpec

(***************************************************************************)
(* A list shows rows that are there, whichever page it is on, and nothing  *)
(* is later than the clock stops.                                          *)
(***************************************************************************)
VisitTyped(k, r) ==
  /\ k.pc \in {"new", "save", "audit", "read", "synthesize", "done", "cut"}
  /\ k.op \in Kind \cup Page \cup {"none", "create_deal", "update_deal_stage"}
  /\ k.at <= MaxClock
  /\ k.shown.recent \subseteq DOMAIN r

DashTyped ==
  /\ clock <= MaxClock /\ mixed \subseteq Deal
  /\ \A i \in DOMAIN rows : rows[i].at <= MaxClock
  /\ \A v \in Visit : VisitTyped(visit[v], rows)

LEMMA ElementsIn ==
  ASSUME NEW S, NEW T, NEW s \in Seq(S), \A i \in 1..Len(s) : s[i] \in T
  PROVE  s \in Seq(T)
OBVIOUS

LEMMA VisitFrame ==
  ASSUME DashTyped, NEW v \in Visit, OthersWait(v), VisitTyped(visit'[v], rows),
         UNCHANGED <<clock, rows>>, mixed' \subseteq Deal
  PROVE  DashTyped'
<1>1. ASSUME NEW w \in Visit PROVE VisitTyped(visit'[w], rows)
  BY DEF OthersWait, DashTyped
<1> QED
  BY <1>1 DEF DashTyped, VisitTyped

LEMMA RecordTyped ==
  ASSUME DashInv, DashTyped, NEW v \in Visit, BeginRecord(v) \/ SaveRecord(v) \/ AuditRecord(v)
  PROVE  DashTyped'
<1>0. DashShape
      /\ rows \in Seq(Row) /\ total \in Sums /\ VisitTyped(visit[v], rows)
      /\ clock <= MaxClock /\ mixed \subseteq Deal
  BY DEF DashInv, DashShape, DashTyped
<1>1. CASE BeginRecord(v)
  <2>1. PICK kind \in Kind : \E amount : Noted(v, "save", kind, clock, amount)
    BY <1>1 DEF BeginRecord, Noted
  <2>2. /\ OthersWait(v) /\ visit'[v].shown = visit[v].shown
        /\ visit'[v].pc = "save" /\ visit'[v].op = kind /\ visit'[v].at = clock
    BY <1>0, <2>1, NotedFields
  <2>3. UNCHANGED <<clock, rows, mixed>>
    BY <1>1 DEF BeginRecord
  <2>4. VisitTyped(visit'[v], rows)
    BY <1>0, <2>2 DEF VisitTyped
  <2> QED
    BY <1>0, <2>2, <2>3, <2>4, VisitFrame
<1>2. CASE SaveRecord(v)
  <2> DEFINE row == [kind |-> visit[v].op, at |-> visit[v].at, amount |-> visit[v].amount]
  <2>1. /\ visit[v].op \in Kind /\ Went(v, "audit") /\ rows' = Append(rows, row)
        /\ UNCHANGED <<clock, mixed>>
    BY <1>2 DEF SaveRecord, Went
  <2>2. /\ OthersWait(v) /\ visit'[v].shown = visit[v].shown
        /\ visit'[v].pc = "audit" /\ visit'[v].op = visit[v].op
        /\ visit'[v].at = visit[v].at /\ visit'[v].amount = visit[v].amount
    BY <1>0, <2>1, WentFields
  <2>3. row \in Row /\ row.at <= MaxClock
    BY <1>0, <2>1 DEF DashInv, DashShape, Row, VisitTyped
  <2> HIDE DEF row
  <2>4. /\ DOMAIN rows \subseteq DOMAIN rows'
        /\ \A i \in DOMAIN rows' : rows'[i] = row \/ (i \in DOMAIN rows /\ rows'[i] = rows[i])
    BY <1>0, <2>1, <2>3, AppendProperties
  <2>5. VisitTyped(visit'[v], rows')
    BY <1>0, <2>2, <2>4 DEF VisitTyped
  <2>6. ASSUME NEW w \in Visit, w # v PROVE VisitTyped(visit'[w], rows')
    <3>1. VisitTyped(visit[w], rows) /\ visit'[w] = visit[w]
      BY <2>2, <2>6 DEF DashTyped, OthersWait
    <3> QED
      BY <2>4, <3>1 DEF VisitTyped
  <2>7. \A i \in DOMAIN rows' : rows'[i].at <= MaxClock
    BY <2>3, <2>4 DEF DashTyped
  <2> QED
    BY <1>0, <2>1, <2>5, <2>6, <2>7 DEF DashTyped
<1>3. CASE AuditRecord(v)
  <2>1. Went(v, "done") /\ UNCHANGED <<clock, rows, mixed>>
    BY <1>3 DEF AuditRecord, Went
  <2>2. /\ OthersWait(v) /\ visit'[v].shown = visit[v].shown
        /\ visit'[v].pc = "done" /\ visit'[v].op = visit[v].op
        /\ visit'[v].at = visit[v].at /\ visit'[v].amount = visit[v].amount
    BY <1>0, <2>1, WentFields
  <2>3. VisitTyped(visit'[v], rows)
    BY <1>0, <2>2 DEF VisitTyped
  <2> QED
    BY <1>0, <2>1, <2>2, <2>3, VisitFrame
<1> QED
  BY <1>1, <1>2, <1>3

LEMMA DealTyped ==
  ASSUME DashInv, DashTyped, NEW v \in Visit,
         BeginCreate(v) \/ LoadDeal(v) \/ SaveDeal(v) \/ AuditDeal(v)
  PROVE  DashTyped'
<1>0. DashShape /\ VisitTyped(visit[v], rows) /\ mixed \subseteq Deal
  BY DEF DashInv, DashTyped
<1>1. CASE BeginCreate(v)
  <2>1. PICK d \in Deal : Created(v, "save", "create_deal", d, "lead")
    BY <1>1 DEF BeginCreate, Created
  <2>2. /\ OthersWait(v) /\ visit'[v].shown = visit[v].shown
        /\ visit'[v].pc = "save" /\ visit'[v].op = "create_deal"
        /\ visit'[v].at = visit[v].at /\ visit'[v].amount = visit[v].amount
    BY <1>0, <2>1, CreatedFields
  <2>3. UNCHANGED <<clock, rows, mixed>>
    BY <1>1 DEF BeginCreate
  <2>4. VisitTyped(visit'[v], rows)
    BY <1>0, <2>2 DEF VisitTyped
  <2> QED
    BY <1>0, <2>2, <2>3, <2>4, VisitFrame
<1>2. CASE LoadDeal(v)
  <2>1. PICK d \in Deal, stage \in Stage :
          \/ Missed(v, "done", "update_deal_stage")
          \/ Loaded(v, "save", "update_deal_stage", d, stage, deals[d])
    BY <1>2 DEF LoadDeal, Missed, Loaded
  <2>2. UNCHANGED <<clock, rows>> /\ mixed' \subseteq Deal
    BY <1>0, <1>2 DEF LoadDeal
  <2>3. /\ OthersWait(v) /\ visit'[v].shown = visit[v].shown
        /\ visit'[v].at = visit[v].at /\ visit'[v].amount = visit[v].amount
        /\ visit'[v].pc \in {"done", "save"} /\ visit'[v].op = "update_deal_stage"
    <3>1. CASE Missed(v, "done", "update_deal_stage")
      BY <1>0, <3>1, MissedFields
    <3>2. CASE Loaded(v, "save", "update_deal_stage", d, stage, deals[d])
      BY <1>0, <3>2, LoadedFields
    <3> QED
      BY <2>1, <3>1, <3>2
  <2>4. VisitTyped(visit'[v], rows)
    BY <1>0, <2>3 DEF VisitTyped
  <2> QED
    BY <2>2, <2>3, <2>4, VisitFrame
<1>3. CASE SaveDeal(v) \/ AuditDeal(v)
  <2>1. PICK pc \in {"audit", "done"} : Went(v, pc)
    BY <1>3 DEF SaveDeal, AuditDeal, Went
  <2>2. /\ OthersWait(v) /\ visit'[v].shown = visit[v].shown
        /\ visit'[v].pc = pc /\ visit'[v].op = visit[v].op
        /\ visit'[v].at = visit[v].at /\ visit'[v].amount = visit[v].amount
    BY <1>0, <2>1, WentFields
  <2>3. UNCHANGED <<clock, rows, mixed>>
    BY <1>3 DEF SaveDeal, AuditDeal
  <2>4. VisitTyped(visit'[v], rows)
    BY <1>0, <2>2 DEF VisitTyped
  <2> QED
    BY <1>0, <2>2, <2>3, <2>4, VisitFrame
<1> QED
  BY <1>1, <1>2, <1>3

LEMMA PageTyped ==
  ASSUME DashInv, DashTyped, NEW v \in Visit,
         BeginPage(v) \/ ReadNext(v) \/ Synthesize(v) \/ CutVisit(v)
  PROVE  DashTyped'
<1>0. DashShape /\ Shows(visit[v], rows, total) /\ VisitTyped(visit[v], rows) /\ mixed \subseteq Deal
  BY DEF DashInv, DashTyped
<1>1. UNCHANGED <<clock, rows>> /\ mixed' \subseteq Deal
  BY <1>0 DEF BeginPage, ReadNext, Synthesize, CutVisit
<1>2. CASE BeginPage(v)
  <2>1. PICK page \in Page : Opened(v, "read", page, Selects(page))
    BY <1>2 DEF BeginPage, Opened
  <2>2. /\ OthersWait(v) /\ visit'[v].shown = visit[v].shown
        /\ visit'[v].pc = "read" /\ visit'[v].op = page
        /\ visit'[v].at = visit[v].at /\ visit'[v].amount = visit[v].amount
    BY <1>0, <2>1, OpenedFields
  <2>3. VisitTyped(visit'[v], rows)
    BY <1>0, <2>2 DEF VisitTyped
  <2> QED
    BY <1>1, <2>2, <2>3, VisitFrame
<1>3. CASE ReadNext(v)
  <2>1. PICK select, rest, result, pc :
          /\ result \in Result(select)
          /\ Read(v, select, result, rest, pc)
          /\ pc \in {"read", "synthesize", "done"}
    <3>1. PICK select, rest, result, pc :
            /\ result \in Result(select)
            /\ Read(v, select, result, rest, pc)
            /\ pc = IF Len(visit[v].todo) > 1 THEN "read"
                    ELSE IF visit[v].op = "ceo_briefing" THEN "synthesize" ELSE "done"
      BY <1>3, Zenon DEF ReadNext, Read
    <3>2. pc \in {"read", "synthesize", "done"}
      BY <3>1
    <3> QED
      BY <3>1, <3>2
  <2>0. DashShape /\ Read(v, select, result, rest, pc)
    BY <1>0, <2>1
  <2>2. OthersWait(v)
        /\ visit'[v].at = visit[v].at /\ visit'[v].amount = visit[v].amount
        /\ visit'[v].op = visit[v].op
    BY <2>0, ReadFields
  <2>3. visit'[v].shown = [visit[v].shown EXCEPT ![select] = result] /\ visit'[v].pc = pc
    <3>1. \A w \in Visit :
            DOMAIN visit[w] = {"pc", "op", "at", "amount", "deal", "stage", "loaded",
                                           "todo", "shown", "narrative"}
      BY <2>0 DEF DashShape, NewVisit
    <3> QED
      BY <2>0, <3>1 DEF DashShape, Read
  <2>4. DOMAIN visit[v].shown = {"income", "expense", "recent", "kpis", "open", "pipeline"}
    BY <1>0 DEF Shows, Unread
  <2>5. visit'[v].shown.recent \subseteq DOMAIN rows
    <3>1. CASE select = "recent"
      <4>1. result \subseteq DOMAIN rows
        BY <2>1, <3>1, SelectsReturn DEF Newest, OfKind
      <4> QED
        BY <2>3, <2>4, <3>1, <4>1
    <3>2. CASE select # "recent"
      <4>1. visit'[v].shown.recent = visit[v].shown.recent
        BY <2>3, <2>4, <3>2
      <4> QED
        BY <1>0, <4>1 DEF VisitTyped
    <3> QED
      BY <3>1, <3>2
  <2>6. VisitTyped(visit'[v], rows)
    BY <1>0, <2>1, <2>2, <2>3, <2>5 DEF VisitTyped
  <2> QED
    BY <1>1, <2>2, <2>6, VisitFrame
<1>4. CASE Synthesize(v)
  <2>1. PICK narrative : Told(v, "done", narrative)
    BY <1>4, Zenon DEF Synthesize, Told
  <2>2. /\ OthersWait(v) /\ visit'[v].shown = visit[v].shown
        /\ visit'[v].pc = "done" /\ visit'[v].op = visit[v].op
        /\ visit'[v].at = visit[v].at /\ visit'[v].amount = visit[v].amount
    BY <1>0, <2>1, ToldFields
  <2>3. VisitTyped(visit'[v], rows)
    BY <1>0, <2>2 DEF VisitTyped
  <2> QED
    BY <1>1, <2>2, <2>3, VisitFrame
<1>5. CASE CutVisit(v)
  <2>1. Went(v, "cut")
    BY <1>5 DEF CutVisit, Went
  <2>2. /\ OthersWait(v) /\ visit'[v].shown = visit[v].shown
        /\ visit'[v].pc = "cut" /\ visit'[v].op = visit[v].op
        /\ visit'[v].at = visit[v].at /\ visit'[v].amount = visit[v].amount
    BY <1>0, <2>1, WentFields
  <2>3. VisitTyped(visit'[v], rows)
    BY <1>0, <2>2 DEF VisitTyped
  <2> QED
    BY <1>1, <2>2, <2>3, VisitFrame
<1> QED
  BY <1>2, <1>3, <1>4, <1>5

\* For any number of requests, deals and rows: the tables hold what they should, and a
\* list shows rows of the table.
THEOREM DashboardTyped == DashboardSpec => []DashboardTypeOK
<1>1. DashboardInit => DashTyped
  <2> SUFFICES ASSUME DashboardInit PROVE DashTyped
    OBVIOUS
  <2>1. clock = 0 /\ rows = <<>> /\ mixed = {} /\ visit = [v \in Visit |-> NewVisit]
    BY DEF DashboardInit
  <2>2. 0 <= MaxClock /\ VisitTyped(NewVisit, rows)
    BY DashboardAssumption DEF VisitTyped, NewVisit, Unread
  <2> QED
    BY <2>1, <2>2 DEF DashTyped
<1>2. DashInv /\ DashTyped /\ [DashboardNext]_dashVars => DashTyped'
  <2> SUFFICES ASSUME DashInv, DashTyped, [DashboardNext]_dashVars PROVE DashTyped'
    OBVIOUS
  <2>1. CASE UNCHANGED dashVars
    BY <2>1 DEF dashVars, DashTyped, VisitTyped
  <2>2. CASE Tick
    <3>1. clock' <= MaxClock /\ UNCHANGED <<rows, mixed, visit>>
      BY <2>2, DashboardAssumption DEF Tick, DashInv, DashShape
    <3> QED
      BY <3>1 DEF DashTyped, VisitTyped
  <2>3. ASSUME NEW v \in Visit, VisitStep(v) PROVE DashTyped'
    BY <2>3, RecordTyped, DealTyped, PageTyped DEF VisitStep
  <2> QED
    BY <2>1, <2>2, <2>3 DEF DashboardNext
<1>3. DashInv /\ DashTyped => DashboardTypeOK
  <2> SUFFICES ASSUME DashInv, DashTyped PROVE DashboardTypeOK
    OBVIOUS
  <2>1. MaxClock \in Nat /\ rows \in Seq(Row) /\ total \in Sums /\ clock \in 0..MaxClock
    BY DashboardAssumption DEF DashInv, DashShape, DashTyped
  <2>2. \A i \in 1..Len(rows) : rows[i] \in [kind : Kind, at : 0..MaxClock, amount : Int]
    <3> TAKE i \in 1..Len(rows)
    <3>1. rows[i] \in Row /\ rows[i].at <= MaxClock
      BY <2>1 DEF DashTyped
    <3> QED
      BY <2>1, <3>1 DEF Row
  <2>3. rows \in Seq([kind : Kind, at : 0..MaxClock, amount : Int])
    BY <2>1, <2>2, ElementsIn
  <2> QED
    BY <2>1, <2>3 DEF DashInv, DashShape, Sums, DealShape, DashTyped, VisitTyped, DashboardTypeOK
<1> QED
  BY <1>1, <1>2, <1>3, DashStart, DashStep, PTL DEF DashboardSpec

--------------------------------------------------------------------------------
(* The knowledge base *)

\* The k-th row of an order is a row, and every row is one of them.
LEMMA RankingCovers ==
  ASSUME NEW set \in SUBSET Rank, NEW space, NEW r \in Rankings(set, space)
  PROVE  /\ Cardinality(set) \in Nat /\ r \in [1..Cardinality(set) -> set]
         /\ \A c \in set : \E i \in 1..Cardinality(set) : r[i] = c
<1> DEFINE N == Cardinality(set)
<1>1. IsFiniteSet(set) /\ N \in Nat
  <2>1. IsFiniteSet(Rank)
    BY FS_Interval, KnowledgeAssumption DEF Rank
  <2>2. IsFiniteSet(set)
    BY <2>1, FS_Subset
  <2> QED
    BY <2>2, FS_CardinalityType
<1> HIDE DEF N
<1>2. r \in [1..N -> set] /\ \A i, j \in 1..N : i < j => r[i] # r[j]
  BY DEF Rankings, N
<1>3. \A i, j \in 1..N : r[i] = r[j] => i = j
  BY <1>1, <1>2
<1>4. r \in Injection(1..N, set)
  BY <1>2, <1>3 DEF Injection, IsInjective
<1>5. Cardinality(1..N) = Cardinality(set)
  BY <1>1, FS_Interval DEF N
<1>6. r \in Surjection(1..N, set)
  BY <1>1, <1>4, <1>5, FS_Injection
<1> QED
  BY <1>1, <1>2, <1>6 DEF Surjection, N

\* How many of N entries a slice to k leaves
Length(N, k) ==
  IF k >= 0 THEN (IF k > N THEN N ELSE k) ELSE IF N + k >= 0 THEN N + k ELSE 0

\* What a list found, of a question in space, makes of the chunks before: it is sorted
\* and no longer than k, and leaves one out only for nearer ones, and k of them.
Ranked(found, before, space, k, ch) ==
  LET listed == {found[i] : i \in DOMAIN found}
  IN /\ k >= 0 => Len(found) <= k
     /\ \A c \in before \ listed :
          /\ k >= 0 => Len(found) = k
          /\ \A f \in listed : ch[c].space = space /\ ch[f].space = space => f < c
     /\ \A i, j \in DOMAIN found :
          i < j /\ ch[found[i]].space = space /\ ch[found[j]].space = space => found[i] < found[j]

LEMMA SliceRanks ==
  ASSUME NEW set \in SUBSET Rank, NEW space, NEW r \in Rankings(set, space), NEW k \in Int,
         NEW before \in SUBSET set
  PROVE  Ranked(Slice(r, k), before, space, k, chunks) /\ Slice(r, k) \in Seq(set)
<1>1. PICK N \in Nat : N = Cardinality(set) /\ r \in [1..N -> set] /\ \A c \in set : \E i \in 1..N : r[i] = c
  BY RankingCovers
<1>2. \A i, j \in 1..N : i < j /\ chunks[r[i]].space = space /\ chunks[r[j]].space = space => r[i] < r[j]
  BY <1>1 DEF Rankings
<1>9. PICK found : found = Slice(r, k)
  OBVIOUS
<1>0. /\ found \in Seq(set) /\ Len(found) = Length(N, k)
      /\ \A i \in 1..Len(found) : i <= N /\ found[i] = r[i]
  <2> DEFINE m == IF k < 0 THEN N + k ELSE IF k > N THEN N ELSE k
  <2>1. r \in Seq(set) /\ Len(r) = N
    BY <1>1
  <2>2. found = SubSeq(r, 1, m)
    BY <1>9, <2>1 DEF Slice
  <2>3. m \in Int /\ m <= N
    BY <1>1
  <2> HIDE DEF m
  <2>4. \A i \in 1..m : r[i] \in set
    BY <1>1, <2>3
  <2>5. /\ SubSeq(r, 1, m) \in Seq(set) /\ Len(SubSeq(r, 1, m)) = IF 1 <= m THEN m - 1 + 1 ELSE 0
        /\ \A i \in 1..(m - 1 + 1) : SubSeq(r, 1, m)[i] = r[1 + i - 1]
    BY <2>3, <2>4, SubSeqProperties
  <2>6. /\ Len(found) = IF m >= 0 THEN m ELSE 0
        /\ \A i \in 1..Len(found) : i <= N /\ found[i] = r[i]
    BY <1>1, <2>2, <2>3, <2>5
  <2>7. Length(N, k) = IF m >= 0 THEN m ELSE 0
    BY <1>1 DEF Length, m
  <2> QED
    BY <2>2, <2>5, <2>6, <2>7
<1> DEFINE listed == {found[i] : i \in DOMAIN found}
<1>4. PICK n \in 0..N : n = Len(found) /\ DOMAIN found = 1..n /\ n = Length(N, k)
  BY <1>0, <1>1 DEF Length
<1>3. \A i \in 1..n : found[i] = r[i]
  BY <1>0, <1>4
<1>7. k >= 0 => n = IF k > N THEN N ELSE k
  BY <1>4 DEF Length
<1>5. ASSUME NEW c \in before \ listed
      PROVE  /\ k >= 0 => Len(found) = k
             /\ \A f \in listed : chunks[c].space = space /\ chunks[f].space = space => f < c
  <2>1. PICK i \in 1..N : r[i] = c
    BY <1>1
  <2>2. i > n
    BY <1>3, <1>4, <1>5, <2>1
  <2>3. k >= 0 => Len(found) = k
    BY <1>1, <1>4, <1>7, <2>1, <2>2
  <2>4. ASSUME NEW f \in listed, chunks[c].space = space, chunks[f].space = space PROVE f < c
    <3>1. PICK j \in DOMAIN found : found[j] = f
      OBVIOUS
    <3>2. j \in 1..N /\ r[j] = f /\ j < i
      BY <1>1, <1>3, <1>4, <2>1, <2>2, <3>1
    <3> QED
      BY <1>2, <2>1, <2>4, <3>2
  <2> QED
    BY <2>3, <2>4
<1>6. ASSUME NEW i \in DOMAIN found, NEW j \in DOMAIN found, i < j,
             chunks[found[i]].space = space, chunks[found[j]].space = space
      PROVE  found[i] < found[j]
  <2>1. i \in 1..N /\ j \in 1..N /\ found[i] = r[i] /\ found[j] = r[j]
    BY <1>1, <1>3, <1>4
  <2> QED
    BY <1>2, <1>6, <2>1
<1>8. Ranked(found, before, space, k, chunks)
  <2>1. k >= 0 => Len(found) <= k
    BY <1>1, <1>4, <1>7
  <2> QED
    BY <1>5, <1>6, <2>1 DEF Ranked
<1> QED
  BY <1>0, <1>8, <1>9

\* The chunks of an area a search can come up with
Reachable(area, ch) ==
  {c \in Rank : ch[c].there /\ area \in {Anywhere, ch[c].area} /\ (setup.pgvector => ch[c].vector)}

\* What a search comes up with, whichever back end
LEMMA SearchRanks ==
  ASSUME NEW space, NEW k \in Int, NEW area, NEW outcome \in TopK(space, k, area),
         outcome.status = 200, NEW before \in SUBSET Reachable(area, chunks)
  PROVE  /\ outcome.found \in Seq(Reachable(area, chunks))
         /\ ~setup.pgvector \/ ColumnSize <= EfSearch \/ before = {} =>
              Ranked(outcome.found, before, space, k, chunks)
<1> DEFINE all == FiledUnder(area)
           reach == Reachable(area, chunks)
<1>1. all \subseteq Rank /\ reach \subseteq all /\ Vectors \subseteq Rank
  BY DEF Reachable, FiledUnder, Vectors
<1>2. CASE ~setup.pgvector
  <2>1. PICK r \in Rankings(all, space) : outcome = Found(Slice(r, k))
    BY <1>2 DEF TopK, MemoryTopK, Failed, Found
  <2>2. all = reach
    BY <1>2 DEF Reachable, FiledUnder
  <2>3. outcome.found = Slice(r, k)
    BY <2>1 DEF Found
  <2>4. r \in Rankings(reach, space) /\ reach \in SUBSET Rank /\ before \in SUBSET reach
    BY <1>1, <2>1, <2>2
  <2> HIDE DEF reach
  <2>5. Ranked(Slice(r, k), before, space, k, chunks) /\ Slice(r, k) \in Seq(reach)
    BY <2>4, SliceRanks
  <2> QED
    BY <2>3, <2>5 DEF reach
<1>3. CASE setup.pgvector
  <2>1. reach = all \cap Vectors
    BY <1>3 DEF Reachable, FiledUnder, Vectors
  <2>2. k >= 0 /\ outcome \in PgvectorTopK(space, k, area)
    <3>1. outcome \in PgvectorTopK(space, k, area)
      BY <1>3 DEF TopK
    <3>2. ASSUME k < 0 PROVE FALSE
      <4>1. outcome = Failed
        BY <3>1, <3>2 DEF PgvectorTopK
      <4> QED
        BY <4>1 DEF Failed
    <3> QED
      BY <3>1, <3>2
  <2>3. CASE Dimension[space] # ColumnDimension
    <3>1. reach = {} /\ outcome = Found(<<>>)
      BY <2>1, <2>2, <2>3 DEF PgvectorTopK, Failed
    <3>2. outcome.found = <<>> /\ before = {}
      BY <3>1 DEF Found
    <3> QED
      BY <3>2 DEF Ranked
  <2>4. CASE Dimension[space] = ColumnDimension
    <3>1. PICK some \in Candidates : outcome \in {Found(Slice(r, k)) : r \in Rankings(all \cap Vectors \cap some, space)}
      BY <2>2, <2>4 DEF PgvectorTopK
    <3>2. PICK r \in Rankings(reach \cap some, space) : outcome = Found(Slice(r, k))
      BY <2>1, <3>1
    <3>3. outcome.found = Slice(r, k)
      BY <3>2 DEF Found
    <3>4. Slice(r, k) \in Seq(reach \cap some) /\ Ranked(Slice(r, k), {}, space, k, chunks)
      <4>1. reach \cap some \in SUBSET Rank /\ {} \in SUBSET (reach \cap some)
        BY <1>1
      <4> HIDE DEF reach
      <4> QED
        BY <2>2, <3>2, <4>1, SliceRanks
    <3>5. Slice(r, k) \in Seq(reach)
      BY <3>4
    <3>6. ASSUME ColumnSize <= EfSearch PROVE Ranked(outcome.found, before, space, k, chunks)
      <4>1. some = Vectors
        BY <3>1, <3>6 DEF Candidates
      <4>2. reach \cap some = reach
        BY <2>1, <4>1
      <4>3. r \in Rankings(reach, space) /\ reach \in SUBSET Rank /\ before \in SUBSET reach
        BY <1>1, <4>2
      <4> HIDE DEF reach
      <4>4. Ranked(Slice(r, k), before, space, k, chunks)
        BY <2>2, <4>3, SliceRanks
      <4> QED
        BY <3>3, <4>4
    <3> QED
      BY <1>3, <3>3, <3>4, <3>5, <3>6
  <2> QED
    BY <2>3, <2>4
<1> QED
  BY <1>2, <1>3

\* What k may not leave out for nothing: all there was, if the index looks at everything
Missable(k) == IF k.exact THEN k.before ELSE {}

\* What request k is entitled to find of the chunks ch
Sound(k, ch) ==
  /\ k.op = "ingest" => k.pc \in {"insert", "vector", "audit", "done"}
  /\ k.op = "query" => k.pc \in {"search", "done"}
  /\ k.pc = "search" => k.op = "query" /\ k.k \in Int /\ k.before \subseteq Reachable(k.area, ch)
  /\ k.pc # "done" => k.status = 0
  /\ k.pc \in {"vector", "audit"} \/ k.status = 201 => k.chunk \in Rank /\ ch[k.chunk].there
  /\ k.pc \in {"insert", "vector", "audit"} => k.op = "ingest"
  /\ k.pc = "audit" \/ k.status = 201 => (setup.pgvector => ch[k.chunk].vector)
  /\ k.status = 201 => k.op = "ingest"
  /\ k.op = "query" /\ k.status = 200 =>
       /\ k.before \subseteq Reachable(k.area, ch)
       /\ k.found \in Seq(Reachable(k.area, ch))
       /\ Ranked(k.found, Missable(k), k.space, k.k, ch)

\* While the local model answers, it makes every embedding, and nothing breaks.
Local(k) ==
  setup.steady =>
    /\ k.pc \in {"insert", "vector", "search"} => k.space = "ollama"
    /\ k.status \in {500, 503} => k.k < 0

KShape ==
  /\ rag = [q \in Query |-> rag[q]]
  /\ \A q \in Query : DOMAIN rag[q] = DOMAIN NewRequest

ChunkShape ==
  /\ chunks = [c \in Rank |-> chunks[c]]
  /\ \A c \in Rank : DOMAIN chunks[c] = DOMAIN NoChunk
  /\ setup.steady => \A c \in Rank : chunks[c].there => chunks[c].space = "ollama"

(***************************************************************************)
(* A query may only leave out what was not stored when it began; what it   *)
(* compares it with stays as it was.  So the invariant has to say of every *)
(* ingest under way what it has stored, and that chunks stay.              *)
(***************************************************************************)
KnowledgeInv ==
  /\ KShape /\ ChunkShape
  /\ \A q \in Query : Sound(rag[q], chunks) /\ Local(rag[q])

\* Chunks are only added, and only given vectors.
Grown(ch, ch2) ==
  \A c \in Rank : ch[c].there =>
    /\ ch2[c].there /\ ch2[c].area = ch[c].area /\ ch2[c].space = ch[c].space
    /\ ch[c].vector => ch2[c].vector

LEMMA ReachableOn ==
  ASSUME NEW ch, NEW ch2, Grown(ch, ch2), NEW area
  PROVE  Reachable(area, ch) \subseteq Reachable(area, ch2)
BY DEF Grown, Reachable

LEMMA RankedOn ==
  ASSUME NEW ch, NEW ch2, Grown(ch, ch2), NEW area, NEW space, NEW k, NEW before, NEW found,
         before \subseteq Reachable(area, ch), found \in Seq(Reachable(area, ch)),
         Ranked(found, before, space, k, ch)
  PROVE  Ranked(found, before, space, k, ch2)
<1>1. \A c \in Reachable(area, ch) : ch2[c].space = ch[c].space
  BY DEF Reachable, Grown
<1>2. \A i \in DOMAIN found : found[i] \in Reachable(area, ch)
  OBVIOUS
<1>3. \A f \in {found[i] : i \in DOMAIN found} : f \in Reachable(area, ch)
  BY <1>2
<1> QED
  BY <1>1, <1>2, <1>3 DEF Ranked

LEMMA SoundOn ==
  ASSUME NEW k, NEW ch, NEW ch2, Grown(ch, ch2), Sound(k, ch)
  PROVE  Sound(k, ch2)
<1>1. Reachable(k.area, ch) \subseteq Reachable(k.area, ch2)
  BY ReachableOn
<1>2. k.chunk \in Rank /\ ch[k.chunk].there =>
        ch2[k.chunk].there /\ (ch[k.chunk].vector => ch2[k.chunk].vector)
  BY DEF Grown
<1>3. ASSUME k.op = "query", k.status = 200
      PROVE  /\ k.before \subseteq Reachable(k.area, ch2)
             /\ k.found \in Seq(Reachable(k.area, ch2))
             /\ Ranked(k.found, Missable(k), k.space, k.k, ch2)
  <2>1. /\ k.before \subseteq Reachable(k.area, ch)
        /\ k.found \in Seq(Reachable(k.area, ch))
        /\ Ranked(k.found, Missable(k), k.space, k.k, ch)
    BY <1>3 DEF Sound
  <2>2. k.found \in Seq(Reachable(k.area, ch2))
    BY <1>1, <2>1
  <2>3. Ranked(k.found, Missable(k), k.space, k.k, ch2)
    <3>1. Missable(k) \subseteq Reachable(k.area, ch)
      BY <2>1 DEF Missable
    <3> QED
      BY <2>1, <3>1, RankedOn
  <2> QED
    BY <1>1, <2>1, <2>2, <2>3
<1> QED
  BY <1>1, <1>2, <1>3 DEF Sound

LEMMA KnowledgeFrame ==
  ASSUME KnowledgeInv, NEW q \in Query, KShape', ChunkShape', \A p \in Query : p # q => rag'[p] = rag[p],
         UNCHANGED setup, Grown(chunks, chunks'), Sound(rag'[q], chunks'), Local(rag'[q])
  PROVE  KnowledgeInv'
<1>1. \A p \in Query : Sound(rag'[p], chunks')
  BY SoundOn DEF KnowledgeInv
<1>2. \A p \in Query : (Sound(rag[p], chunks) /\ Local(rag[p]))'
  <2> SUFFICES ASSUME NEW p \in Query PROVE (Sound(rag[p], chunks) /\ Local(rag[p]))'
    OBVIOUS
  <2>1. Local(rag'[p])
    BY DEF KnowledgeInv
  <2>2. Local(rag[p])'
    BY <2>1 DEF Local
  <2>3. PICK k, ch : k = rag'[p] /\ ch = chunks' /\ Sound(k, ch)
    BY <1>1
  <2>4. Reachable(k.area, ch)' = Reachable(k.area, ch)
    BY DEF Reachable
  <2>5. Sound(k, ch)'
    BY <2>3, <2>4 DEF Sound
  <2>6. Sound(rag[p], chunks)'
    BY <2>3, <2>5
  <2> QED
    BY <2>2, <2>6
<1> QED
  BY <1>2 DEF KnowledgeInv

LEMMA NothingGrown == Grown(chunks, chunks)
BY DEF Grown

\* Who makes an embedding: one of the models, or none; when steady, the local one.
LEMMA SteadyEmbeds ==
  ASSUME setup.steady, NEW space \in EmbedOutcomes(setup.keys, setup.steady)
  PROVE  space = "ollama"
<1> DEFINE chain == embedding_fallback_chain
<1>1. PICK up \in SUBSET (DOMAIN chain) :
        space = WalkChain(chain, Registry(setup.keys), up \cup {1})
  BY DEF EmbedOutcomes, Outcomes
<1> DEFINE hits == {i \in up \cup {1} : chain[i] \in Registry(setup.keys)}
<1>2. DOMAIN chain = 1..4 /\ chain[1] = "ollama"
  BY DEF embedding_fallback_chain
<1>3. 1 \in hits /\ \A i \in hits : i \in Nat /\ 1 <= i
  BY <1>2 DEF Registry
<1>4. (CHOOSE i \in hits : \A j \in hits : i <= j) = 1
  BY <1>3
<1> QED
  BY <1>1, <1>2, <1>3, <1>4 DEF WalkChain

\* What a request holds after it has been written to, field by field.
OthersAsk(q) == \A p \in Query : p # q => rag'[p] = rag[p]

LEMMA Replaced ==
  ASSUME KShape, NEW q \in Query, NEW new, DOMAIN new = DOMAIN NewRequest, rag' = [rag EXCEPT ![q] = new]
  PROVE  KShape' /\ OthersAsk(q) /\ rag'[q] = new
BY DEF KShape, OthersAsk

Filed(q, c, pc) == rag' = [rag EXCEPT ![q].chunk = c, ![q].pc = pc]

LEMMA FiledFields ==
  ASSUME KShape, NEW q \in Query, NEW c, NEW pc, Filed(q, c, pc)
  PROVE  /\ KShape' /\ OthersAsk(q)
         /\ rag'[q].chunk = c /\ rag'[q].pc = pc
         /\ rag'[q].op = rag[q].op /\ rag'[q].area = rag[q].area /\ rag'[q].space = rag[q].space
         /\ rag'[q].k = rag[q].k /\ rag'[q].before = rag[q].before /\ rag'[q].exact = rag[q].exact
         /\ rag'[q].status = rag[q].status /\ rag'[q].found = rag[q].found
<1>1. \A p \in Query : DOMAIN rag[p] = {"pc", "op", "area", "space", "k", "chunk", "before", "exact", "status", "found"}
  BY DEF KShape, NewRequest
<1>2. /\ rag'[q].chunk = c /\ rag'[q].pc = pc
  BY <1>1 DEF KShape, Filed
<1>3. /\ rag'[q].op = rag[q].op /\ rag'[q].area = rag[q].area /\ rag'[q].space = rag[q].space
      /\ rag'[q].k = rag[q].k /\ rag'[q].before = rag[q].before /\ rag'[q].exact = rag[q].exact
      /\ rag'[q].status = rag[q].status /\ rag'[q].found = rag[q].found
      /\ DOMAIN rag'[q] = DOMAIN rag[q]
  BY <1>1 DEF KShape, Filed
<1>4. OthersAsk(q)
  BY DEF KShape, Filed, OthersAsk
<1>5. rag' = [p \in Query |-> rag'[p]]
  BY DEF KShape, Filed
<1> QED
  BY <1>2, <1>3, <1>4, <1>5 DEF KShape, OthersAsk

Stepped(q, pc) == rag' = [rag EXCEPT ![q].pc = pc]

LEMMA SteppedFields ==
  ASSUME KShape, NEW q \in Query, NEW pc, Stepped(q, pc)
  PROVE  /\ KShape' /\ OthersAsk(q)
         /\ rag'[q].pc = pc
         /\ rag'[q].op = rag[q].op /\ rag'[q].area = rag[q].area /\ rag'[q].space = rag[q].space
         /\ rag'[q].k = rag[q].k /\ rag'[q].chunk = rag[q].chunk /\ rag'[q].before = rag[q].before
         /\ rag'[q].exact = rag[q].exact /\ rag'[q].status = rag[q].status
         /\ rag'[q].found = rag[q].found
<1>1. \A p \in Query : DOMAIN rag[p] = {"pc", "op", "area", "space", "k", "chunk", "before", "exact", "status", "found"}
  BY DEF KShape, NewRequest
<1>2. /\ rag'[q].pc = pc
  BY <1>1 DEF KShape, Stepped
<1>3. /\ rag'[q].op = rag[q].op /\ rag'[q].area = rag[q].area /\ rag'[q].space = rag[q].space
      /\ rag'[q].k = rag[q].k /\ rag'[q].chunk = rag[q].chunk /\ rag'[q].before = rag[q].before
      /\ rag'[q].exact = rag[q].exact /\ rag'[q].status = rag[q].status
      /\ rag'[q].found = rag[q].found /\ DOMAIN rag'[q] = DOMAIN rag[q]
  BY <1>1 DEF KShape, Stepped
<1>4. OthersAsk(q)
  BY DEF KShape, Stepped, OthersAsk
<1>5. rag' = [p \in Query |-> rag'[p]]
  BY DEF KShape, Stepped
<1> QED
  BY <1>2, <1>3, <1>4, <1>5 DEF KShape, OthersAsk

Ended(q, pc, status) == rag' = [rag EXCEPT ![q].pc = pc, ![q].status = status]

LEMMA EndedFields ==
  ASSUME KShape, NEW q \in Query, NEW pc, NEW status, Ended(q, pc, status)
  PROVE  /\ KShape' /\ OthersAsk(q)
         /\ rag'[q].pc = pc /\ rag'[q].status = status
         /\ rag'[q].op = rag[q].op /\ rag'[q].area = rag[q].area /\ rag'[q].space = rag[q].space
         /\ rag'[q].k = rag[q].k /\ rag'[q].chunk = rag[q].chunk /\ rag'[q].before = rag[q].before
         /\ rag'[q].exact = rag[q].exact /\ rag'[q].found = rag[q].found
<1>1. \A p \in Query : DOMAIN rag[p] = {"pc", "op", "area", "space", "k", "chunk", "before", "exact", "status", "found"}
  BY DEF KShape, NewRequest
<1>2. /\ rag'[q].pc = pc /\ rag'[q].status = status
  BY <1>1 DEF KShape, Ended
<1>3. /\ rag'[q].op = rag[q].op /\ rag'[q].area = rag[q].area /\ rag'[q].space = rag[q].space
      /\ rag'[q].k = rag[q].k /\ rag'[q].chunk = rag[q].chunk /\ rag'[q].before = rag[q].before
      /\ rag'[q].exact = rag[q].exact /\ rag'[q].found = rag[q].found
      /\ DOMAIN rag'[q] = DOMAIN rag[q]
  BY <1>1 DEF KShape, Ended
<1>4. OthersAsk(q)
  BY DEF KShape, Ended, OthersAsk
<1>5. rag' = [p \in Query |-> rag'[p]]
  BY DEF KShape, Ended
<1> QED
  BY <1>2, <1>3, <1>4, <1>5 DEF KShape, OthersAsk

Searched(q, pc, status, found, exact) == rag' = [rag EXCEPT ![q].pc = pc, ![q].status = status, ![q].found = found, ![q].exact = exact]

LEMMA SearchedFields ==
  ASSUME KShape, NEW q \in Query, NEW pc, NEW status, NEW found, NEW exact, Searched(q, pc, status, found, exact)
  PROVE  /\ KShape' /\ OthersAsk(q)
         /\ rag'[q].pc = pc /\ rag'[q].status = status /\ rag'[q].found = found
         /\ rag'[q].exact = exact
         /\ rag'[q].op = rag[q].op /\ rag'[q].area = rag[q].area /\ rag'[q].space = rag[q].space
         /\ rag'[q].k = rag[q].k /\ rag'[q].chunk = rag[q].chunk /\ rag'[q].before = rag[q].before
<1>1. \A p \in Query : DOMAIN rag[p] = {"pc", "op", "area", "space", "k", "chunk", "before", "exact", "status", "found"}
  BY DEF KShape, NewRequest
<1>2. /\ rag'[q].pc = pc /\ rag'[q].status = status /\ rag'[q].found = found
      /\ rag'[q].exact = exact
  BY <1>1 DEF KShape, Searched
<1>3. /\ rag'[q].op = rag[q].op /\ rag'[q].area = rag[q].area /\ rag'[q].space = rag[q].space
      /\ rag'[q].k = rag[q].k /\ rag'[q].chunk = rag[q].chunk /\ rag'[q].before = rag[q].before
      /\ DOMAIN rag'[q] = DOMAIN rag[q]
  BY <1>1 DEF KShape, Searched
<1>4. OthersAsk(q)
  BY DEF KShape, Searched, OthersAsk
<1>5. rag' = [p \in Query |-> rag'[p]]
  BY DEF KShape, Searched
<1> QED
  BY <1>2, <1>3, <1>4, <1>5 DEF KShape, OthersAsk


LEMMA BeginIngestKeeps ==
  ASSUME KnowledgeInv, NEW q \in Query, BeginIngest(q)
  PROVE  KnowledgeInv'
<1>1. PICK area \in Area \cup {General}, space \in EmbedOutcomes(setup.keys, setup.steady) :
        rag' = [rag EXCEPT ![q] =
                 IF space = NoAnswer
                 THEN [NewRequest EXCEPT !.op = "ingest", !.pc = "done", !.status = 503]
                 ELSE [NewRequest EXCEPT !.op = "ingest", !.pc = "insert", !.area = area, !.space = space]]
  BY DEF BeginIngest
<1>2. UNCHANGED <<setup, chunks>> /\ KShape /\ ChunkShape
  BY DEF BeginIngest, KnowledgeInv
<1>3. setup.steady => space = "ollama"
  BY SteadyEmbeds
<1>4. PICK new :
        /\ rag' = [rag EXCEPT ![q] = new] /\ DOMAIN new = DOMAIN NewRequest
        /\ new.op = "ingest"
        /\ \/ new.pc = "done" /\ new.status = 503 /\ space = NoAnswer
           \/ new.pc = "insert" /\ new.status = 0 /\ new.space = space
  <2>1. CASE space = NoAnswer
    <3> DEFINE new == [NewRequest EXCEPT !.op = "ingest", !.pc = "done", !.status = 503]
    <3>1. DOMAIN new = DOMAIN NewRequest /\ new.op = "ingest" /\ new.pc = "done" /\ new.status = 503
      BY DEF NewRequest
    <3>2. rag' = [rag EXCEPT ![q] = new]
      BY <1>1, <2>1
    <3> QED
      BY <2>1, <3>1, <3>2
  <2>2. CASE space # NoAnswer
    <3> DEFINE new == [NewRequest EXCEPT !.op = "ingest", !.pc = "insert", !.area = area, !.space = space]
    <3>1. /\ DOMAIN new = DOMAIN NewRequest /\ new.op = "ingest" /\ new.pc = "insert"
          /\ new.status = 0 /\ new.space = space
      BY DEF NewRequest
    <3>2. rag' = [rag EXCEPT ![q] = new]
      BY <1>1, <2>2
    <3> QED
      BY <3>1, <3>2
  <2> QED
    BY <2>1, <2>2
<1>5. KShape' /\ OthersAsk(q) /\ rag'[q] = new
  BY <1>2, <1>4, Replaced
<1>6. Sound(new, chunks) /\ Local(new)
  <2>1. setup.steady => new.pc = "insert" /\ new.status = 0 /\ new.space = "ollama"
    BY <1>3, <1>4 DEF NoAnswer
  <2>2. Local(new)
    BY <2>1 DEF Local
  <2>3. Sound(new, chunks)
    BY <1>4 DEF Sound
  <2> QED
    BY <2>2, <2>3
<1>7. ChunkShape' /\ Grown(chunks, chunks')
  BY <1>2, NothingGrown DEF ChunkShape
<1> QED
  BY <1>2, <1>5, <1>6, <1>7, KnowledgeFrame DEF OthersAsk

LEMMA BeginQueryKeeps ==
  ASSUME KnowledgeInv, NEW q \in Query, BeginQuery(q)
  PROVE  KnowledgeInv'
<1>1. PICK area \in Area \cup {Anywhere}, k \in Ks, space \in EmbedOutcomes(setup.keys, setup.steady) :
        rag' = [rag EXCEPT ![q] =
                 IF space = NoAnswer
                 THEN [NewRequest EXCEPT !.op = "query", !.pc = "done", !.status = 503]
                 ELSE [NewRequest EXCEPT !.op = "query", !.pc = "search", !.area = area, !.space = space,
                                         !.k = k, !.before = Stored \cap FiledUnder(area)]]
  BY DEF BeginQuery
<1>2. UNCHANGED <<setup, chunks>> /\ KShape /\ ChunkShape /\ k \in Int
  BY KnowledgeAssumption DEF BeginQuery, KnowledgeInv
<1>3. setup.steady => space = "ollama"
  BY SteadyEmbeds
<1> DEFINE before == Stored \cap FiledUnder(area)
<1>4. before \subseteq Reachable(area, chunks)
  <2>1. \A p \in Query : rag[p].status = 201 => (setup.pgvector => chunks[rag[p].chunk].vector)
    BY DEF KnowledgeInv, Sound
  <2> QED
    BY <2>1 DEF Stored, FiledUnder, Reachable
<1> HIDE DEF before
<1>5. PICK new :
        /\ rag' = [rag EXCEPT ![q] = new] /\ DOMAIN new = DOMAIN NewRequest
        /\ new.op = "query"
        /\ \/ new.pc = "done" /\ new.status = 503 /\ space = NoAnswer
           \/ /\ new.pc = "search" /\ new.status = 0 /\ new.space = space /\ new.k = k
              /\ new.area = area /\ new.before = before
  <2>1. CASE space = NoAnswer
    <3> DEFINE new == [NewRequest EXCEPT !.op = "query", !.pc = "done", !.status = 503]
    <3>1. DOMAIN new = DOMAIN NewRequest /\ new.op = "query" /\ new.pc = "done" /\ new.status = 503
      BY DEF NewRequest
    <3>2. rag' = [rag EXCEPT ![q] = new]
      BY <1>1, <2>1
    <3> QED
      BY <2>1, <3>1, <3>2
  <2>2. CASE space # NoAnswer
    <3> DEFINE new == [NewRequest EXCEPT !.op = "query", !.pc = "search", !.area = area, !.space = space,
                                         !.k = k, !.before = before]
    <3>1. /\ DOMAIN new = DOMAIN NewRequest /\ new.op = "query" /\ new.pc = "search" /\ new.status = 0
          /\ new.space = space /\ new.k = k /\ new.area = area /\ new.before = before
      BY DEF NewRequest
    <3>2. rag' = [rag EXCEPT ![q] = new]
      BY <1>1, <2>2 DEF before
    <3> QED
      BY <3>1, <3>2
  <2> QED
    BY <2>1, <2>2
<1>6. KShape' /\ OthersAsk(q) /\ rag'[q] = new
  BY <1>2, <1>5, Replaced
<1>7. Sound(new, chunks) /\ Local(new)
  <2>1. setup.steady => new.pc = "search" /\ new.status = 0 /\ new.space = "ollama"
    BY <1>3, <1>5 DEF NoAnswer
  <2>2. Local(new)
    BY <2>1 DEF Local
  <2>3. Sound(new, chunks)
    BY <1>2, <1>4, <1>5 DEF Sound
  <2> QED
    BY <2>2, <2>3
<1>8. ChunkShape' /\ Grown(chunks, chunks')
  BY <1>2, NothingGrown DEF ChunkShape
<1> QED
  BY <1>2, <1>6, <1>7, <1>8, KnowledgeFrame DEF OthersAsk

LEMMA InsertChunkKeeps ==
  ASSUME KnowledgeInv, NEW q \in Query, InsertChunk(q)
  PROVE  KnowledgeInv'
<1> DEFINE k == rag[q]
<1>0. KShape /\ ChunkShape /\ Sound(k, chunks) /\ Local(k) /\ k.pc = "insert" /\ UNCHANGED setup
  BY DEF KnowledgeInv, InsertChunk
<1>1. PICK c \in Rank, pc \in {"vector", "audit"} :
        /\ ~chunks[c].there
        /\ chunks' = [chunks EXCEPT ![c] = [there |-> TRUE, area |-> k.area, space |-> k.space, vector |-> FALSE]]
        /\ Filed(q, c, pc)
        /\ pc = "vector" \/ (pc = "audit" /\ ~setup.pgvector)
  <2>1. PICK c \in Rank :
          /\ ~chunks[c].there
          /\ chunks' = [chunks EXCEPT ![c] = [there |-> TRUE, area |-> k.area, space |-> k.space, vector |-> FALSE]]
          /\ rag' = [rag EXCEPT ![q].chunk = c, ![q].pc = IF setup.pgvector THEN "vector" ELSE "audit"]
    BY DEF InsertChunk
  <2>2. CASE setup.pgvector
    <3>1. Filed(q, c, "vector")
      BY <2>1, <2>2 DEF Filed
    <3> QED
      BY <2>1, <3>1
  <2>3. CASE ~setup.pgvector
    <3>1. Filed(q, c, "audit")
      BY <2>1, <2>3 DEF Filed
    <3> QED
      BY <2>1, <2>3, <3>1
  <2> QED
    BY <2>2, <2>3
<1>2. /\ KShape' /\ OthersAsk(q)
      /\ rag'[q].chunk = c /\ rag'[q].pc = pc
      /\ rag'[q].op = k.op /\ rag'[q].status = k.status /\ rag'[q].space = k.space
  BY <1>0, <1>1, FiledFields
<1>3. /\ chunks' = [d \in Rank |-> chunks'[d]]
      /\ chunks'[c] = [there |-> TRUE, area |-> k.area, space |-> k.space, vector |-> FALSE]
      /\ \A d \in Rank : d # c => chunks'[d] = chunks[d]
  BY <1>0, <1>1 DEF ChunkShape
<1>4. ChunkShape'
  <2>1. DOMAIN chunks'[c] = DOMAIN NoChunk /\ chunks'[c].space = k.space
    BY <1>3 DEF NoChunk
  <2>2. setup.steady => k.space = "ollama"
    BY <1>0 DEF Local
  <2> QED
    BY <1>0, <1>3, <2>1, <2>2 DEF ChunkShape
<1>5. Grown(chunks, chunks')
  BY <1>1, <1>3 DEF Grown
<1>6. k.op = "ingest" /\ k.status = 0
  BY <1>0 DEF Sound
<1>7. Sound(rag'[q], chunks')
  <2>1. chunks'[c].there
    BY <1>3
  <2> QED
    BY <1>1, <1>2, <1>6, <2>1 DEF Sound
<1>8. Local(rag'[q])
  BY <1>0, <1>2, <1>6 DEF Local
<1> QED
  BY <1>0, <1>2, <1>4, <1>5, <1>7, <1>8, KnowledgeFrame DEF OthersAsk

LEMMA SaveVectorKeeps ==
  ASSUME KnowledgeInv, NEW q \in Query, SaveVector(q)
  PROVE  KnowledgeInv'
<1> DEFINE k == rag[q]
<1>0. KShape /\ ChunkShape /\ Sound(k, chunks) /\ Local(k) /\ k.pc = "vector" /\ UNCHANGED setup
  BY DEF KnowledgeInv, SaveVector
<1>1. k.op = "ingest" /\ k.status = 0 /\ k.chunk \in Rank /\ chunks[k.chunk].there
  BY <1>0 DEF Sound
<1>2. CASE Dimension[k.space] = ColumnDimension
  <2>1. chunks' = [chunks EXCEPT ![k.chunk].vector = TRUE] /\ Stepped(q, "audit")
    BY <1>2 DEF SaveVector, Stepped
  <2>2. /\ KShape' /\ OthersAsk(q) /\ rag'[q].pc = "audit" /\ rag'[q].op = k.op
        /\ rag'[q].status = k.status /\ rag'[q].chunk = k.chunk
    BY <1>0, <2>1, SteppedFields
  <2>3. \A c \in Rank : DOMAIN chunks[c] = {"there", "area", "space", "vector"}
    BY <1>0 DEF ChunkShape, NoChunk
  <2>4. /\ chunks' = [c \in Rank |-> chunks'[c]] /\ chunks'[k.chunk].vector
        /\ \A c \in Rank : c # k.chunk => chunks'[c] = chunks[c]
        /\ chunks'[k.chunk].there = chunks[k.chunk].there /\ chunks'[k.chunk].area = chunks[k.chunk].area
        /\ chunks'[k.chunk].space = chunks[k.chunk].space
        /\ DOMAIN chunks'[k.chunk] = DOMAIN chunks[k.chunk]
    BY <1>0, <1>1, <2>1, <2>3 DEF ChunkShape
  <2>5. ChunkShape' /\ Grown(chunks, chunks')
    BY <1>0, <2>4 DEF ChunkShape, Grown
  <2>6. Sound(rag'[q], chunks')
    BY <1>1, <2>2, <2>4 DEF Sound
  <2>7. Local(rag'[q])
    BY <1>1, <2>2 DEF Local
  <2> QED
    BY <1>0, <2>2, <2>5, <2>6, <2>7, KnowledgeFrame DEF OthersAsk
<1>3. CASE Dimension[k.space] # ColumnDimension
  <2>1. chunks' = chunks /\ Ended(q, "done", 500)
    BY <1>3 DEF SaveVector, Ended
  <2>2. KShape' /\ OthersAsk(q) /\ rag'[q].pc = "done" /\ rag'[q].op = k.op /\ rag'[q].status = 500
    BY <1>0, <2>1, EndedFields
  <2>3. ~setup.steady
    BY <1>0, <1>3 DEF Local, Dimension, ColumnDimension
  <2>4. Sound(rag'[q], chunks') /\ Local(rag'[q])
    BY <1>1, <2>2, <2>3 DEF Sound, Local
  <2>5. ChunkShape' /\ Grown(chunks, chunks')
    BY <1>0, <2>1, NothingGrown DEF ChunkShape
  <2> QED
    BY <1>0, <2>2, <2>4, <2>5, KnowledgeFrame DEF OthersAsk
<1> QED
  BY <1>2, <1>3

LEMMA AuditIngestKeeps ==
  ASSUME KnowledgeInv, NEW q \in Query, AuditIngest(q)
  PROVE  KnowledgeInv'
<1> DEFINE k == rag[q]
<1>0. /\ KShape /\ ChunkShape /\ Sound(k, chunks) /\ k.pc = "audit" /\ UNCHANGED <<setup, chunks>>
      /\ Ended(q, "done", 201)
  BY DEF KnowledgeInv, AuditIngest, Ended
<1>1. /\ KShape' /\ OthersAsk(q) /\ rag'[q].pc = "done" /\ rag'[q].op = k.op /\ rag'[q].status = 201
      /\ rag'[q].chunk = k.chunk
  BY <1>0, EndedFields
<1>2. Sound(rag'[q], chunks') /\ Local(rag'[q])
  BY <1>0, <1>1 DEF Sound, Local
<1>3. ChunkShape' /\ Grown(chunks, chunks')
  BY <1>0, NothingGrown DEF ChunkShape
<1> QED
  BY <1>0, <1>1, <1>2, <1>3, KnowledgeFrame DEF OthersAsk

\* A search fails or finds; when steady, it fails only for a negative k.
LEMMA SearchAnswers ==
  ASSUME NEW space, NEW k \in Int, NEW area, NEW outcome \in TopK(space, k, area), ChunkShape
  PROVE  /\ outcome.status \in {200, 500}
         /\ outcome.status = 500 => outcome.found = <<>>
         /\ setup.steady /\ space = "ollama" /\ outcome.status = 500 => k < 0
<1>1. outcome = Failed \/ \E found : outcome = Found(found)
  <2>1. CASE ~setup.pgvector
    BY <2>1 DEF TopK, MemoryTopK
  <2>2. CASE setup.pgvector
    <3>1. outcome \in PgvectorTopK(space, k, area)
      BY <2>2 DEF TopK
    <3> QED
      BY <3>1 DEF PgvectorTopK
  <2> QED
    BY <2>1, <2>2
<1>2. outcome.status \in {200, 500}
  BY <1>1 DEF Failed, Found
<1>3. ASSUME setup.steady, space = "ollama", outcome = Failed PROVE k < 0
  <2>1. CASE ~setup.pgvector
    <3>1. \A c \in FiledUnder(area) : chunks[c].space = "ollama"
      BY <1>3 DEF ChunkShape, FiledUnder
    <3>2. outcome \in {Found(Slice(r, k)) : r \in Rankings(FiledUnder(area), space)}
      BY <1>3, <2>1, <3>1 DEF TopK, MemoryTopK
    <3>3. PICK r : outcome = Found(Slice(r, k))
      BY <3>2
    <3> QED
      BY <1>3, <3>3 DEF Failed, Found
  <2>2. CASE setup.pgvector /\ ~(k < 0)
    <3>1. Dimension[space] = ColumnDimension
      BY <1>3 DEF Dimension, ColumnDimension
    <3>2. outcome \in UNION {{Found(Slice(r, k)) : r \in Rankings((FiledUnder(area) \cap Vectors) \cap some, space)} :
                                some \in Candidates}
      BY <2>2, <3>1 DEF TopK, PgvectorTopK
    <3>3. PICK r : outcome = Found(Slice(r, k))
      BY <3>2
    <3> QED
      BY <1>3, <3>3 DEF Failed, Found
  <2> QED
    BY <2>1, <2>2
<1>4. outcome.status = 500 => outcome = Failed
  BY <1>1 DEF Failed, Found
<1>5. Failed.found = <<>>
  BY DEF Failed
<1> QED
  BY <1>2, <1>3, <1>4, <1>5

LEMMA SearchKeeps ==
  ASSUME KnowledgeInv, NEW q \in Query, Search(q)
  PROVE  KnowledgeInv'
<1> DEFINE k == rag[q]
<1>0. KShape /\ ChunkShape /\ Sound(k, chunks) /\ Local(k) /\ k.pc = "search" /\ UNCHANGED <<setup, chunks>>
  BY DEF KnowledgeInv, Search
<1>1. PICK outcome \in TopK(k.space, k.k, k.area) :
        \E exact :
          /\ exact = (~setup.pgvector \/ ColumnSize <= EfSearch)
          /\ Searched(q, "done", outcome.status, outcome.found, exact)
  BY Zenon DEF Search, Searched
<1>e. PICK exact :
        /\ exact = (~setup.pgvector \/ ColumnSize <= EfSearch)
        /\ Searched(q, "done", outcome.status, outcome.found, exact)
  BY <1>1, Zenon
<1>2. /\ KShape' /\ OthersAsk(q)
      /\ rag'[q].pc = "done" /\ rag'[q].status = outcome.status /\ rag'[q].found = outcome.found
      /\ rag'[q].exact = exact
      /\ rag'[q].op = k.op /\ rag'[q].area = k.area /\ rag'[q].space = k.space /\ rag'[q].k = k.k
      /\ rag'[q].before = k.before
  BY <1>0, <1>e, SearchedFields
<1>3. k.op = "query" /\ k.k \in Int /\ k.before \subseteq Reachable(k.area, chunks)
  BY <1>0 DEF Sound
<1>4. /\ outcome.status \in {200, 500}
      /\ setup.steady /\ k.space = "ollama" /\ outcome.status = 500 => k.k < 0
  BY <1>0, <1>3, SearchAnswers
<1>5. outcome.status = 200 =>
        /\ outcome.found \in Seq(Reachable(k.area, chunks))
        /\ Ranked(outcome.found, IF exact THEN k.before ELSE {}, k.space, k.k, chunks)
  <2> SUFFICES ASSUME outcome.status = 200
               PROVE  /\ outcome.found \in Seq(Reachable(k.area, chunks))
                      /\ Ranked(outcome.found, IF exact THEN k.before ELSE {}, k.space, k.k, chunks)
    OBVIOUS
  <2>1. PICK space : space = k.space
    OBVIOUS
  <2>2. PICK n : n = k.k
    OBVIOUS
  <2>3. PICK area : area = k.area
    OBVIOUS
  <2>4. PICK before : before = k.before
    OBVIOUS
  <2>5. /\ n \in Int /\ outcome \in TopK(space, n, area)
        /\ before \in SUBSET Reachable(area, chunks) /\ {} \in SUBSET Reachable(area, chunks)
    BY <1>3, <2>1, <2>2, <2>3, <2>4
  <2>6. outcome.found \in Seq(Reachable(area, chunks))
    BY <2>5, SearchRanks
  <2>7. CASE exact
    <3>1. ~setup.pgvector \/ ColumnSize <= EfSearch
      BY <1>e, <2>7
    <3>2. Ranked(outcome.found, before, space, n, chunks)
      BY <2>5, <3>1, SearchRanks
    <3> QED
      BY <2>1, <2>2, <2>3, <2>4, <2>6, <2>7, <3>2
  <2>8. CASE ~exact
    <3>1. Ranked(outcome.found, {}, space, n, chunks)
      BY <2>5, SearchRanks
    <3> QED
      BY <2>1, <2>2, <2>3, <2>6, <2>8, <3>1
  <2> QED
    BY <2>7, <2>8
<1>6. Sound(rag'[q], chunks')
  <2>1. Missable(rag'[q]) = IF exact THEN k.before ELSE {}
    BY <1>2 DEF Missable
  <2>2. rag'[q].status = 200 => Ranked(rag'[q].found, Missable(rag'[q]), rag'[q].space, rag'[q].k, chunks)
    BY <1>2, <1>5, <2>1
  <2> QED
    BY <1>0, <1>2, <1>3, <1>4, <1>5, <2>2 DEF Sound
<1>7. Local(rag'[q])
  BY <1>0, <1>2, <1>4 DEF Local
<1>8. ChunkShape' /\ Grown(chunks, chunks')
  BY <1>0, NothingGrown DEF ChunkShape
<1> QED
  BY <1>0, <1>2, <1>6, <1>7, <1>8, KnowledgeFrame DEF OthersAsk

LEMMA CutQueryKeeps ==
  ASSUME KnowledgeInv, NEW q \in Query, CutQuery(q)
  PROVE  KnowledgeInv'
<1> DEFINE new == [NewRequest EXCEPT !.pc = "cut"]
<1>0. KShape /\ ChunkShape /\ UNCHANGED <<setup, chunks>> /\ rag' = [rag EXCEPT ![q] = new]
  BY DEF KnowledgeInv, CutQuery
<1>1. DOMAIN new = DOMAIN NewRequest /\ new.pc = "cut" /\ new.op = "none" /\ new.status = 0
  BY DEF NewRequest
<1> HIDE DEF new
<1>2. KShape' /\ OthersAsk(q) /\ rag'[q] = new
  BY <1>0, <1>1, Replaced
<1>3. Sound(new, chunks) /\ Local(new)
  BY <1>1 DEF Sound, Local
<1>4. ChunkShape' /\ Grown(chunks, chunks')
  BY <1>0, NothingGrown DEF ChunkShape
<1> QED
  BY <1>0, <1>2, <1>3, <1>4, KnowledgeFrame DEF OthersAsk

LEMMA KnowledgeUnchanged ==
  ASSUME KnowledgeInv, UNCHANGED <<setup, chunks, rag>>
  PROVE  KnowledgeInv'
<1>1. KShape' /\ ChunkShape'
  BY DEF KnowledgeInv, KShape, ChunkShape
<1>2. ASSUME NEW q \in Query PROVE (Sound(rag[q], chunks) /\ Local(rag[q]))'
  <2>1. PICK k, ch : k = rag'[q] /\ ch = chunks' /\ Sound(k, ch) /\ Local(k)
    BY DEF KnowledgeInv
  <2>2. Reachable(k.area, ch)' = Reachable(k.area, ch)
    BY DEF Reachable
  <2>3. Sound(k, ch)' /\ Local(k)'
    BY <2>1, <2>2 DEF Sound, Local
  <2> QED
    BY <2>1, <2>3 DEF Local
<1> QED
  BY <1>1, <1>2 DEF KnowledgeInv

LEMMA KnowledgeKept == KnowledgeInv /\ [DepartmentsNext]_departmentsVars => KnowledgeInv'
<1> SUFFICES ASSUME KnowledgeInv, [DepartmentsNext]_departmentsVars PROVE KnowledgeInv'
  OBVIOUS
<1>1. CASE KnowledgeNext
  <2>1. PICK q \in Query : KnowledgeStep(q)
    BY <1>1 DEF KnowledgeNext
  <2> QED
    BY <2>1, BeginIngestKeeps, InsertChunkKeeps, SaveVectorKeeps, AuditIngestKeeps, BeginQueryKeeps,
       SearchKeeps, CutQueryKeeps
    DEF KnowledgeStep
<1>2. CASE UNCHANGED <<setup, chunks, rag>>
  BY <1>2, KnowledgeUnchanged
<1>3. ASSUME NEW v \in Invocation, InvocationStep(v) PROVE UNCHANGED <<setup, chunks, rag>>
  BY <1>3 DEF InvocationStep, BeginInvocation, Retrieve, Generate, RecordFailure, RecordInvoke,
              CreateEscalation, RecordEscalation, CutInvocation
<1> QED
  BY <1>1, <1>2, <1>3 DEF DepartmentsNext, departmentsVars

LEMMA KnowledgeStart == DepartmentsInit => KnowledgeInv
<1> SUFFICES ASSUME DepartmentsInit PROVE KnowledgeInv
  OBVIOUS
<1>1. chunks = [c \in Rank |-> NoChunk] /\ rag = [q \in Query |-> NewRequest]
  BY DEF DepartmentsInit, KnowledgeInit
<1>2. KShape
  BY <1>1 DEF KShape
<1>3. ChunkShape
  BY <1>1 DEF ChunkShape, NoChunk
<1>4. \A q \in Query : rag[q].pc = "new" /\ rag[q].op = "none" /\ rag[q].status = 0
  BY <1>1 DEF NewRequest
<1>5. \A q \in Query : Sound(rag[q], chunks) /\ Local(rag[q])
  BY <1>4 DEF Sound, Local
<1> QED
  BY <1>2, <1>3, <1>5 DEF KnowledgeInv

(***************************************************************************)
(* An answered query goes from near to far and lists no more than k; while *)
(* the index looks at everything, whatever it leaves out of what was       *)
(* stored when it began is no nearer than what it lists, and k are listed, *)
(* in memory as in the native column, while others ingest                  *)
(* (app/knowledge/vector_store.py, top_k of both back ends).               *)
(***************************************************************************)
THEOREM QueriesFindTheBest == DepartmentsSpec => []BestOfWhatWasStored
<1>1. KnowledgeInv => BestOfWhatWasStored
  BY DEF KnowledgeInv, Sound, Missable, Ranked, BestOfWhatWasStored, Listed, Comparable
<1> QED
  BY <1>1, KnowledgeStart, KnowledgeKept, PTL DEF DepartmentsSpec

(***************************************************************************)
(* While the local model never fails, no ingest and no query breaks, but   *)
(* for a negative k: two lengths of embeddings come only from falling back *)
(* to another model (app/ai_gateway/gateway.py, embed).                    *)
(***************************************************************************)
THEOREM SteadyNeverBreaks == DepartmentsSpec => []SteadySearchNeverBreaks
<1>1. KnowledgeInv => SteadySearchNeverBreaks
  BY DEF KnowledgeInv, Local, SteadySearchNeverBreaks
<1> QED
  BY <1>1, KnowledgeStart, KnowledgeKept, PTL DEF DepartmentsSpec

(***************************************************************************)
(* A vector in the native column has the length of the column, whoever     *)
(* made it, because an ingest still knows the space of its chunk when it   *)
(* saves the vector.                                                       *)
(***************************************************************************)
Asked(k, ch) ==
  /\ k.pc \in {"new", "insert", "vector", "audit", "search", "done", "cut"}
  /\ k.op \in {"none", "ingest", "query"}
  /\ k.status \in {0, 200, 201, 500, 503}
  /\ k.before \subseteq Rank
  /\ k.chunk \in 0..MaxChunks
  /\ k.found \in Seq(Rank)
  /\ k.area \in Area \cup {General, Anywhere}
  /\ k.space \in Embedders \cup {NoAnswer}
  /\ k.pc = "vector" => ch[k.chunk].space = k.space

ChunksTyped ==
  /\ setup \in Setup
  /\ chunks \in [Rank -> Chunk]
  /\ \A c \in Rank : chunks[c].vector => Dimension[chunks[c].space] = ColumnDimension

KnowledgeTyped == ChunksTyped /\ \A q \in Query : Asked(rag[q], chunks)

\* An embedding is made by one of the models, or by none.
LEMMA EmbedsKnown ==
  ASSUME NEW space \in EmbedOutcomes(setup.keys, setup.steady)
  PROVE  space \in Embedders \cup {NoAnswer}
<1> DEFINE chain == embedding_fallback_chain
           sure == IF setup.steady THEN {1} ELSE {}
<1>1. PICK up \in SUBSET (DOMAIN chain) : space = WalkChain(chain, Registry(setup.keys), up \cup sure)
  BY DEF EmbedOutcomes, Outcomes
<1> DEFINE hits == {i \in up \cup sure : chain[i] \in Registry(setup.keys)}
<1>2. /\ DOMAIN chain = 1..4 /\ \A i \in 1..4 : chain[i] \in Embedders
  BY DEF embedding_fallback_chain, Embedders
<1>3. hits \subseteq 1..4
  BY <1>2
<1>4. space = IF hits = {} THEN NoAnswer ELSE chain[CHOOSE i \in hits : \A j \in hits : i <= j]
  BY <1>1 DEF WalkChain
<1> HIDE DEF hits, chain
<1>5. ASSUME hits # {} PROVE (CHOOSE i \in hits : \A j \in hits : i <= j) \in hits
  <2>1. \E i \in hits : \A j \in hits : i <= j
    <3>1. \A j \in hits : j = 1 \/ j = 2 \/ j = 3 \/ j = 4
      BY <1>3
    <3>2. 1 \in hits \/ 2 \in hits \/ 3 \in hits \/ 4 \in hits
      BY <1>5, <3>1
    <3>3. CASE 1 \in hits
      BY <3>1, <3>3
    <3>4. CASE 1 \notin hits /\ 2 \in hits
      BY <3>1, <3>4
    <3>5. CASE 1 \notin hits /\ 2 \notin hits /\ 3 \in hits
      BY <3>1, <3>5
    <3>6. CASE 1 \notin hits /\ 2 \notin hits /\ 3 \notin hits /\ 4 \in hits
      BY <3>1, <3>6
    <3> QED
      BY <3>2, <3>3, <3>4, <3>5, <3>6
  <2> QED
    BY <2>1
<1>6. CASE hits = {}
  BY <1>4, <1>6
<1>7. CASE hits # {}
  BY <1>2, <1>3, <1>4, <1>5, <1>7
<1> QED
  BY <1>6, <1>7

\* Request q moves on, and the chunks are as typed as they were.
LEMMA AskedFrame ==
  ASSUME KnowledgeInv, KnowledgeTyped, NEW q \in Query, OthersAsk(q), UNCHANGED setup,
         Grown(chunks, chunks'), ChunksTyped', Asked(rag'[q], chunks')
  PROVE  KnowledgeTyped'
<1>1. ASSUME NEW p \in Query, p # q PROVE Asked(rag'[p], chunks')
  <2>1. rag'[p] = rag[p] /\ Asked(rag[p], chunks) /\ Sound(rag[p], chunks)
    BY <1>1 DEF OthersAsk, KnowledgeInv, KnowledgeTyped
  <2>2. rag[p].pc = "vector" => chunks'[rag[p].chunk].space = chunks[rag[p].chunk].space
    BY <2>1 DEF Sound, Grown
  <2> QED
    BY <2>1, <2>2 DEF Asked
<1>2. ASSUME NEW p \in Query PROVE Asked(rag'[p], chunks')
  BY <1>1
<1>3. (\A p \in Query : Asked(rag[p], chunks))'
  BY <1>2 DEF Asked, Rank
<1> QED
  BY <1>3 DEF KnowledgeTyped

LEMMA BeginTyped ==
  ASSUME KnowledgeInv, KnowledgeTyped, NEW q \in Query, BeginIngest(q) \/ BeginQuery(q)
  PROVE  KnowledgeTyped'
<1>0. KShape /\ ChunksTyped /\ UNCHANGED <<setup, chunks>>
  BY DEF KnowledgeInv, KnowledgeTyped, BeginIngest, BeginQuery
<1>1. /\ ChunksTyped' /\ Grown(chunks, chunks')
      /\ 0 \in 0..MaxChunks /\ <<>> \in Seq(Rank)
  BY <1>0, NothingGrown, KnowledgeAssumption DEF ChunksTyped, Setup, Chunk, Rank
<1>2. PICK new : /\ rag' = [rag EXCEPT ![q] = new] /\ DOMAIN new = DOMAIN NewRequest
                 /\ Asked(new, chunks)
  <2>1. CASE BeginIngest(q)
    <3>1. PICK area \in Area \cup {General}, space \in EmbedOutcomes(setup.keys, setup.steady) :
            rag' = [rag EXCEPT ![q] =
                     IF space = NoAnswer
                     THEN [NewRequest EXCEPT !.op = "ingest", !.pc = "done", !.status = 503]
                     ELSE [NewRequest EXCEPT !.op = "ingest", !.pc = "insert", !.area = area, !.space = space]]
      BY <2>1 DEF BeginIngest
    <3>2. space \in Embedders \cup {NoAnswer} /\ NoAnswer \in Embedders \cup {NoAnswer}
      BY EmbedsKnown
    <3>3. area \in Area \cup {General, Anywhere} /\ Anywhere \in Area \cup {General, Anywhere}
      OBVIOUS
    <3>4. CASE space = NoAnswer
      <4> DEFINE new == [NewRequest EXCEPT !.op = "ingest", !.pc = "done", !.status = 503]
      <4>1. rag' = [rag EXCEPT ![q] = new]
        BY <3>1, <3>4
      <4>2. DOMAIN new = DOMAIN NewRequest /\ Asked(new, chunks)
        BY <1>1, <3>2, <3>3 DEF NewRequest, Asked
      <4> QED
        BY <4>1, <4>2
    <3>5. CASE space # NoAnswer
      <4> DEFINE new == [NewRequest EXCEPT !.op = "ingest", !.pc = "insert", !.area = area, !.space = space]
      <4>1. rag' = [rag EXCEPT ![q] = new]
        BY <3>1, <3>5
      <4>2. DOMAIN new = DOMAIN NewRequest /\ Asked(new, chunks)
        BY <1>1, <3>2, <3>3 DEF NewRequest, Asked
      <4> QED
        BY <4>1, <4>2
    <3> QED
      BY <3>4, <3>5
  <2>2. CASE BeginQuery(q)
    <3>1. PICK area \in Area \cup {Anywhere}, k \in Ks, space \in EmbedOutcomes(setup.keys, setup.steady) :
            rag' = [rag EXCEPT ![q] =
                     IF space = NoAnswer
                     THEN [NewRequest EXCEPT !.op = "query", !.pc = "done", !.status = 503]
                     ELSE [NewRequest EXCEPT !.op = "query", !.pc = "search", !.area = area, !.space = space,
                                             !.k = k, !.before = Stored \cap FiledUnder(area)]]
      BY <2>2 DEF BeginQuery
    <3>2. space \in Embedders \cup {NoAnswer} /\ NoAnswer \in Embedders \cup {NoAnswer}
      BY EmbedsKnown
    <3>3. area \in Area \cup {General, Anywhere} /\ Anywhere \in Area \cup {General, Anywhere}
      OBVIOUS
    <3> DEFINE before == Stored \cap FiledUnder(area)
    <3>4. before \subseteq Rank
      BY DEF FiledUnder
    <3> HIDE DEF before
    <3>5. CASE space = NoAnswer
      <4> DEFINE new == [NewRequest EXCEPT !.op = "query", !.pc = "done", !.status = 503]
      <4>1. rag' = [rag EXCEPT ![q] = new]
        BY <3>1, <3>5
      <4>2. DOMAIN new = DOMAIN NewRequest /\ Asked(new, chunks)
        BY <1>1, <3>2, <3>3 DEF NewRequest, Asked
      <4> QED
        BY <4>1, <4>2
    <3>6. CASE space # NoAnswer
      <4> DEFINE new == [NewRequest EXCEPT !.op = "query", !.pc = "search", !.area = area, !.space = space,
                                           !.k = k, !.before = before]
      <4>1. rag' = [rag EXCEPT ![q] = new]
        BY <3>1, <3>6 DEF before
      <4>2. DOMAIN new = DOMAIN NewRequest /\ Asked(new, chunks)
        BY <1>1, <3>2, <3>3, <3>4 DEF NewRequest, Asked
      <4> QED
        BY <4>1, <4>2
    <3> QED
      BY <3>5, <3>6
  <2> QED
    BY <2>1, <2>2
<1>3. OthersAsk(q) /\ rag'[q] = new
  BY <1>0, <1>2, Replaced
<1> QED
  BY <1>0, <1>1, <1>2, <1>3, AskedFrame

LEMMA InsertTyped ==
  ASSUME KnowledgeInv, KnowledgeTyped, NEW q \in Query, InsertChunk(q)
  PROVE  KnowledgeTyped'
<1> DEFINE k == rag[q]
<1>0. KShape /\ ChunkShape /\ ChunksTyped /\ Asked(k, chunks) /\ UNCHANGED setup
  BY DEF KnowledgeInv, KnowledgeTyped, InsertChunk
<1>1. PICK c \in Rank, pc \in {"vector", "audit"} :
        /\ ~chunks[c].there
        /\ chunks' = [chunks EXCEPT ![c] = [there |-> TRUE, area |-> k.area, space |-> k.space, vector |-> FALSE]]
        /\ Filed(q, c, pc)
  <2>1. PICK c \in Rank :
          /\ ~chunks[c].there
          /\ chunks' = [chunks EXCEPT ![c] = [there |-> TRUE, area |-> k.area, space |-> k.space, vector |-> FALSE]]
          /\ rag' = [rag EXCEPT ![q].chunk = c, ![q].pc = IF setup.pgvector THEN "vector" ELSE "audit"]
    BY DEF InsertChunk
  <2>2. CASE setup.pgvector
    <3>1. Filed(q, c, "vector")
      BY <2>1, <2>2 DEF Filed
    <3> QED
      BY <2>1, <3>1
  <2>3. CASE ~setup.pgvector
    <3>1. Filed(q, c, "audit")
      BY <2>1, <2>3 DEF Filed
    <3> QED
      BY <2>1, <3>1
  <2> QED
    BY <2>2, <2>3
<1> DEFINE new == [there |-> TRUE, area |-> k.area, space |-> k.space, vector |-> FALSE]
<1>2. new \in Chunk /\ new.space = k.space /\ ~new.vector
  BY <1>0 DEF Asked, Chunk
<1> HIDE DEF new
<1>3. /\ chunks' \in [Rank -> Chunk] /\ chunks'[c] = new
      /\ \A d \in Rank : d # c => chunks'[d] = chunks[d]
  BY <1>0, <1>1, <1>2 DEF ChunksTyped, new
<1>4. ChunksTyped'
  <2>1. (\A d \in Rank : chunks[d].vector => Dimension[chunks[d].space] = ColumnDimension)'
    BY <1>0, <1>2, <1>3 DEF ChunksTyped, Rank
  <2>2. (setup \in Setup)' /\ (chunks \in [Rank -> Chunk])'
    BY <1>0, <1>3 DEF ChunksTyped, Setup, Chunk, Rank
  <2> QED
    BY <2>1, <2>2 DEF ChunksTyped
<1>5. Grown(chunks, chunks')
  BY <1>1, <1>3 DEF Grown
<1>6. /\ OthersAsk(q) /\ rag'[q].chunk = c /\ rag'[q].pc = pc
      /\ rag'[q].op = k.op /\ rag'[q].status = k.status /\ rag'[q].space = k.space
      /\ rag'[q].area = k.area /\ rag'[q].before = k.before /\ rag'[q].found = k.found
  BY <1>0, <1>1, FiledFields
<1>7. c \in 0..MaxChunks
  BY KnowledgeAssumption DEF Rank
<1>8. Asked(rag'[q], chunks')
  BY <1>0, <1>2, <1>3, <1>6, <1>7 DEF Asked
<1> QED
  BY <1>0, <1>4, <1>5, <1>6, <1>8, AskedFrame

LEMMA SaveTyped ==
  ASSUME KnowledgeInv, KnowledgeTyped, NEW q \in Query, SaveVector(q)
  PROVE  KnowledgeTyped'
<1> DEFINE k == rag[q]
<1>0. /\ KShape /\ ChunkShape /\ ChunksTyped /\ Asked(k, chunks) /\ Sound(k, chunks)
      /\ UNCHANGED setup /\ k.pc = "vector"
  BY DEF KnowledgeInv, KnowledgeTyped, SaveVector
<1>1. k.chunk \in Rank /\ chunks[k.chunk].there /\ chunks[k.chunk].space = k.space
  BY <1>0 DEF Sound, Asked
<1>2. CASE Dimension[k.space] = ColumnDimension
  <2>1. chunks' = [chunks EXCEPT ![k.chunk].vector = TRUE] /\ Stepped(q, "audit")
    BY <1>2 DEF SaveVector, Stepped
  <2>2. /\ OthersAsk(q) /\ rag'[q].pc = "audit" /\ rag'[q].op = k.op
        /\ rag'[q].status = k.status /\ rag'[q].chunk = k.chunk /\ rag'[q].space = k.space
        /\ rag'[q].area = k.area /\ rag'[q].before = k.before /\ rag'[q].found = k.found
    BY <1>0, <2>1, SteppedFields
  <2>3. /\ chunks' \in [Rank -> Chunk]
        /\ \A c \in Rank : c # k.chunk => chunks'[c] = chunks[c]
        /\ chunks'[k.chunk].there = chunks[k.chunk].there /\ chunks'[k.chunk].area = chunks[k.chunk].area
        /\ chunks'[k.chunk].space = chunks[k.chunk].space /\ chunks'[k.chunk].vector
    BY <1>0, <1>1, <2>1 DEF ChunksTyped, Chunk
  <2>4. ChunksTyped'
    <3>1. (\A c \in Rank : chunks[c].vector => Dimension[chunks[c].space] = ColumnDimension)'
      BY <1>0, <1>1, <1>2, <2>3 DEF ChunksTyped, Rank
    <3>2. (setup \in Setup)' /\ (chunks \in [Rank -> Chunk])'
      BY <1>0, <2>3 DEF ChunksTyped, Setup, Chunk, Rank
    <3> QED
      BY <3>1, <3>2 DEF ChunksTyped
  <2>5. Grown(chunks, chunks')
    BY <2>3 DEF Grown
  <2>6. Asked(rag'[q], chunks')
    BY <1>0, <2>2 DEF Asked
  <2> QED
    BY <1>0, <2>2, <2>4, <2>5, <2>6, AskedFrame
<1>3. CASE Dimension[k.space] # ColumnDimension
  <2>1. chunks' = chunks /\ Ended(q, "done", 500)
    BY <1>3 DEF SaveVector, Ended
  <2>2. /\ OthersAsk(q) /\ rag'[q].pc = "done" /\ rag'[q].op = k.op /\ rag'[q].status = 500
        /\ rag'[q].chunk = k.chunk /\ rag'[q].space = k.space
        /\ rag'[q].area = k.area /\ rag'[q].before = k.before /\ rag'[q].found = k.found
    BY <1>0, <2>1, EndedFields
  <2>3. ChunksTyped' /\ Grown(chunks, chunks')
    BY <1>0, <2>1, NothingGrown DEF ChunksTyped, Setup, Chunk, Rank
  <2>4. Asked(rag'[q], chunks')
    BY <1>0, <2>2 DEF Asked
  <2> QED
    BY <1>0, <2>2, <2>3, <2>4, AskedFrame
<1> QED
  BY <1>2, <1>3

LEMMA EndTyped ==
  ASSUME KnowledgeInv, KnowledgeTyped, NEW q \in Query, AuditIngest(q) \/ Search(q) \/ CutQuery(q)
  PROVE  KnowledgeTyped'
<1> DEFINE k == rag[q]
<1>0. /\ KShape /\ ChunkShape /\ ChunksTyped /\ Asked(k, chunks) /\ Sound(k, chunks)
      /\ UNCHANGED <<setup, chunks>>
  BY DEF KnowledgeInv, KnowledgeTyped, AuditIngest, Search, CutQuery
<1>1. ChunksTyped' /\ Grown(chunks, chunks')
  BY <1>0, NothingGrown DEF ChunksTyped, Setup, Chunk, Rank
<1>2. CASE AuditIngest(q)
  <2>1. Ended(q, "done", 201)
    BY <1>2 DEF AuditIngest, Ended
  <2>2. /\ OthersAsk(q) /\ rag'[q].pc = "done" /\ rag'[q].op = k.op /\ rag'[q].status = 201
        /\ rag'[q].chunk = k.chunk /\ rag'[q].space = k.space
        /\ rag'[q].area = k.area /\ rag'[q].before = k.before /\ rag'[q].found = k.found
    BY <1>0, <2>1, EndedFields
  <2>3. Asked(rag'[q], chunks')
    BY <1>0, <2>2 DEF Asked
  <2> QED
    BY <1>0, <1>1, <2>2, <2>3, AskedFrame
<1>3. CASE Search(q)
  <2>s. PICK outcome \in TopK(k.space, k.k, k.area) :
          \E exact : Searched(q, "done", outcome.status, outcome.found, exact)
    BY <1>3, Zenon DEF Search, Searched
  <2>1. PICK exact : Searched(q, "done", outcome.status, outcome.found, exact)
    BY <2>s, Zenon
  <2>2. /\ OthersAsk(q)
        /\ rag'[q].pc = "done" /\ rag'[q].status = outcome.status /\ rag'[q].found = outcome.found
        /\ rag'[q].op = k.op /\ rag'[q].chunk = k.chunk /\ rag'[q].space = k.space
        /\ rag'[q].area = k.area /\ rag'[q].before = k.before
    BY <1>0, <2>1, SearchedFields
  <2>3. k.k \in Int /\ k.before \subseteq Reachable(k.area, chunks)
    BY <1>0, <1>3 DEF Sound, Search
  <2>4. PICK space, n, area, before : space = k.space /\ n = k.k /\ area = k.area /\ before = k.before
    OBVIOUS
  <2>5. n \in Int /\ outcome \in TopK(space, n, area) /\ before \in SUBSET Reachable(area, chunks)
    BY <2>s, <2>3, <2>4
  <2>6. outcome.status \in {200, 500} /\ (outcome.status = 500 => outcome.found = <<>>)
    BY <1>0, <2>5, SearchAnswers
  <2>7. ASSUME outcome.status = 200 PROVE outcome.found \in Seq(Rank)
    <3>1. outcome.found \in Seq(Reachable(area, chunks))
      BY <2>5, <2>7, SearchRanks
    <3>2. Reachable(area, chunks) \subseteq Rank
      BY DEF Reachable
    <3> QED
      BY <3>1, <3>2
  <2>8. ASSUME outcome.status = 500 PROVE outcome.found \in Seq(Rank)
    <3>1. outcome.found = <<>>
      BY <2>6, <2>8
    <3>2. <<>> \in Seq(Rank)
      OBVIOUS
    <3> QED
      BY <3>1, <3>2
  <2>e. outcome.found \in Seq(Rank)
    BY <2>6, <2>7, <2>8
  <2>9. Asked(rag'[q], chunks')
    BY <1>0, <2>2, <2>6, <2>e DEF Asked
  <2> QED
    BY <1>0, <1>1, <2>2, <2>9, AskedFrame
<1>4. CASE CutQuery(q)
  <2> DEFINE new == [NewRequest EXCEPT !.pc = "cut"]
  <2>1. rag' = [rag EXCEPT ![q] = new] /\ DOMAIN new = DOMAIN NewRequest
    BY <1>4 DEF CutQuery, NewRequest
  <2>2. Asked(new, chunks)
    BY KnowledgeAssumption DEF Asked, NewRequest
  <2> HIDE DEF new
  <2>3. OthersAsk(q) /\ rag'[q] = new
    BY <1>0, <2>1, Replaced
  <2> QED
    BY <1>0, <1>1, <2>2, <2>3, AskedFrame
<1> QED
  BY <1>2, <1>3, <1>4

LEMMA KnowledgeTypedKept ==
  KnowledgeInv /\ KnowledgeTyped /\ [DepartmentsNext]_departmentsVars => KnowledgeTyped'
<1> SUFFICES ASSUME KnowledgeInv, KnowledgeTyped, [DepartmentsNext]_departmentsVars
             PROVE  KnowledgeTyped'
  OBVIOUS
<1>1. ASSUME NEW q \in Query, KnowledgeStep(q) PROVE KnowledgeTyped'
  BY <1>1, BeginTyped, InsertTyped, SaveTyped, EndTyped DEF KnowledgeStep
<1>2. CASE UNCHANGED <<setup, chunks, rag>>
  BY <1>2 DEF KnowledgeTyped, ChunksTyped, Asked, Setup, Chunk, Rank
<1>3. ASSUME NEW v \in Invocation, InvocationStep(v) PROVE UNCHANGED <<setup, chunks, rag>>
  BY <1>3 DEF InvocationStep, BeginInvocation, Retrieve, Generate, RecordFailure, RecordInvoke,
              CreateEscalation, RecordEscalation, CutInvocation
<1> QED
  BY <1>1, <1>2, <1>3 DEF DepartmentsNext, KnowledgeNext, departmentsVars

\* For any number of requests, invocations and chunks: the tables hold what they should,
\* and the native column holds only vectors of its length.
THEOREM DepartmentsTyped == DepartmentsSpec => []DepartmentsTypeOK
<1>1. DepartmentsInit => KnowledgeTyped
  <2> SUFFICES ASSUME DepartmentsInit PROVE KnowledgeTyped
    OBVIOUS
  <2>1. setup \in Setup /\ chunks = [c \in Rank |-> NoChunk] /\ rag = [q \in Query |-> NewRequest]
    BY DEF DepartmentsInit, KnowledgeInit
  <2>2. NoChunk \in Chunk /\ ~NoChunk.vector
    BY DEF NoChunk, Chunk
  <2>3. Asked(NewRequest, chunks)
    BY KnowledgeAssumption DEF Asked, NewRequest
  <2> HIDE DEF NoChunk, NewRequest
  <2> QED
    BY <2>1, <2>2, <2>3 DEF KnowledgeTyped, ChunksTyped
<1>2. KnowledgeTyped => KnowledgeTypeOK
  BY DEF KnowledgeTyped, ChunksTyped, Asked, KnowledgeTypeOK
<1>3. KnowledgeTypeOK /\ InvocationInv => DepartmentsTypeOK
  BY DEF InvocationInv, Written, Fits, DepartmentsTypeOK
<1> QED
  BY <1>1, <1>2, <1>3, KnowledgeStart, KnowledgeKept, KnowledgeTypedKept, InvocationStart, InvocationKept, PTL
  DEF DepartmentsSpec

--------------------------------------------------------------------------------
(* All of them, in one run *)

\* The parts share no state: a step of one is a step of its own, and the others stay.
LEMMA PartsStep ==
  ASSUME [RecordsNext]_recordsVars
  PROVE  /\ [DepartmentsNext]_departmentsVars /\ [DashboardNext]_dashVars
         /\ [RetentionNext]_retentionVars /\ [AccessNext]_accessVars
BY Zenon DEF RecordsNext, recordsVars, knowledgeVars, departmentsVars, dashVars, retentionVars, accessVars

(***************************************************************************)
(* The tables, the pages, the purges and the requests hold what they       *)
(* should, whichever part runs: lists are of rows of the table, purges     *)
(* delete rows of the log, requests hold roles of their tenant, vectors    *)
(* have the length of their column, entries are of known kinds.            *)
(***************************************************************************)
THEOREM RecordsTyped == RecordsSpec => []RecordsTypeOK
<1>1. RecordsInit => DepartmentsInit /\ DashboardInit /\ RetentionInit /\ AccessInit
  BY DEF RecordsInit
<1>2. RecordsSpec => DepartmentsSpec /\ DashboardSpec /\ RetentionSpec /\ AccessSpec
  BY <1>1, PartsStep, PTL DEF RecordsSpec, DepartmentsSpec, DashboardSpec, RetentionSpec, AccessSpec
<1>3. DepartmentsTypeOK /\ DashboardTypeOK /\ RetentionTypeOK /\ AccessTypeOK => RecordsTypeOK
  BY DEF RecordsTypeOK
<1> QED
  BY <1>2, <1>3, DepartmentsTyped, DashboardTyped, RetentionTyped, AccessTypesHold, PTL

================================================================================
