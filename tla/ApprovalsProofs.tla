---------------------------- MODULE ApprovalsProofs ----------------------------
(***************************************************************************)
(* Theorems about the approval queue, for any number of clerks, users and  *)
(* requests and any number of stopped handlers.                            *)
(***************************************************************************)
EXTENDS Approvals, TLAPS

\* A clerk about to record an audit entry has committed what the entry says.
ClerkOwesFact == \A c \in Clerk : clerk[c].pc = "audit" => Owed(c) \in happened

\* What makes the invariants of the queue inductive.
ApprovalsInv ==
  /\ ApprovalsTypeOK
  /\ VerdictsAccounted
  /\ ClerkOwesFact
  /\ ApprovalAuditBacked
  /\ ApprovalAuditComplete

LEMMA ApprovalsInitInv == ApprovalsInit => ApprovalsInv
<1> SUFFICES ASSUME ApprovalsInit PROVE ApprovalsInv
  OBVIOUS
<1> USE DEF ApprovalsInit
<1>1. ApprovalsTypeOK
  BY ConstantsAssumption DEF ApprovalsTypeOK, Absent, ApprovalRow, ClerkState, ClerkHolds, IdleClerk
<1>2. VerdictsAccounted
  BY DEF VerdictsAccounted, Absent, Decision
<1>3. ClerkOwesFact
  BY DEF ClerkOwesFact, IdleClerk
<1>4. ApprovalAuditBacked
  BY DEF ApprovalAuditBacked
<1>5. ApprovalAuditComplete
  BY DEF ApprovalAuditComplete
<1> QED
  BY <1>1, <1>2, <1>3, <1>4, <1>5 DEF ApprovalsInv

LEMMA ApprovalsTypeStep ==
  ASSUME ApprovalsTypeOK, ApprovalsNext
  PROVE  ApprovalsTypeOK'
<1> USE ConstantsAssumption
<1> USE DEF ApprovalsTypeOK, ClerkState, ClerkHolds, ApprovalRow, ApprovalStatus, Decision
<1>1. ASSUME NEW c \in Clerk, NEW u \in User, NEW a \in Approval, CreateRequest(c, u, a)
      PROVE  ApprovalsTypeOK'
  BY <1>1 DEF CreateRequest, CreateApproval
<1>2. ASSUME NEW c \in Clerk, NEW u \in User, NEW a \in Approval, NEW d \in Decision,
             DecideRead(c, u, a, d)
      PROVE  ApprovalsTypeOK'
  BY <1>2 DEF DecideRead, MayDecide
<1>3. ASSUME NEW c \in Clerk, DecideWrite(c)
      PROVE  ApprovalsTypeOK'
  <2> DEFINE row == [approvals[clerk[c].approval] EXCEPT !.status = clerk[c].verb,
                                                          !.decidedBy = clerk[c].user]
  <2>1. clerk[c].approval \in Approval /\ clerk[c].verb \in Decision /\ clerk[c].user \in Owner
    BY <1>3 DEF DecideWrite
  <2>2. row \in ApprovalRow
    <3> DEFINE old == approvals[clerk[c].approval]
    <3>1. old \in ApprovalRow
      BY <2>1
    <3> HIDE DEF old
    <3> QED
      BY <2>1, <3>1
  <2>3. approvals' = [approvals EXCEPT ![clerk[c].approval] = row]
    BY <1>3 DEF DecideWrite
  <2>4. approvals' \in [Approval -> ApprovalRow]
    BY <2>1, <2>2, <2>3
  <2>5. clerk' \in [Clerk -> ClerkState] /\ \A x \in Clerk : ClerkHolds(x)'
    BY <1>3, <2>1 DEF DecideWrite
  <2> QED
    BY <1>3, <2>4, <2>5 DEF DecideWrite
<1>4. ASSUME NEW c \in Clerk, ClerkAudit(c)
      PROVE  ApprovalsTypeOK'
  BY <1>4 DEF ClerkAudit, IdleClerk
<1>5. ASSUME NEW c \in Clerk, ClerkAbort(c)
      PROVE  ApprovalsTypeOK'
  BY <1>5 DEF ClerkAbort, IdleClerk
<1> QED
  BY <1>1, <1>2, <1>3, <1>4, <1>5 DEF ApprovalsNext

\* Entries are told apart by their fields.
LEMMA EntryEqual ==
  \A v1, v2, x1, x2, u1, u2 :
    Entry(v1, x1, u1) = Entry(v2, x2, u2) <=> v1 = v2 /\ x1 = x2 /\ u1 = u2
BY DEF Entry

LEMMA VerdictsStep ==
  ASSUME ApprovalsTypeOK, VerdictsAccounted, ApprovalsNext
  PROVE  VerdictsAccounted'
<1> USE DEF VerdictsAccounted
<1>1. ASSUME NEW c \in Clerk, NEW u \in User, NEW a \in Approval, CreateRequest(c, u, a)
      PROVE  VerdictsAccounted'
  <2>1. \A d \in Decision, x \in Approval, w \in User :
          Entry(d, x, w) \in happened' <=> Entry(d, x, w) \in happened
    BY <1>1, EntryEqual DEF CreateRequest, Decision
  <2>2. approvals' = [approvals EXCEPT ![a] =
          [status |-> "pending", run |-> NoRun, step |-> 0, decidedBy |-> NoUser]]
    BY <1>1 DEF CreateRequest, CreateApproval
  <2>3. approvals[a].status = "absent"
    BY <1>1 DEF CreateRequest, CreateApproval
  <2> QED
    BY <2>1, <2>2, <2>3, ConstantsAssumption DEF ApprovalsTypeOK, Decision
<1>2. ASSUME NEW c \in Clerk, DecideWrite(c)
      PROVE  VerdictsAccounted'
  <2> DEFINE a == clerk[c].approval  d == clerk[c].verb  u == clerk[c].user
  <2>1. a \in Approval /\ d \in Decision /\ u \in Owner
    BY <1>2 DEF DecideWrite, ApprovalsTypeOK, ClerkHolds
  <2>2. approvals' = [approvals EXCEPT ![a] = [@ EXCEPT !.status = d, !.decidedBy = u]]
    BY <1>2 DEF DecideWrite
  <2>3. happened' = happened \cup {Entry(d, a, u)}
    BY <1>2 DEF DecideWrite
  <2>4. approvals[a] \in ApprovalRow
    BY <2>1 DEF ApprovalsTypeOK
  <2> HIDE DEF a, d, u
  <2>5. approvals'[a].status = d /\ approvals'[a].decidedBy = u
    BY <2>1, <2>2, <2>4 DEF ApprovalsTypeOK, ApprovalRow
  <2>6. \A x \in Approval \ {a} : approvals'[x] = approvals[x]
    BY <2>2 DEF ApprovalsTypeOK
  <2>7. \A x \in Approval \ {a}, e \in Decision, w \in User :
          Entry(e, x, w) \in happened' <=> Entry(e, x, w) \in happened
    BY <2>3, EntryEqual
  <2>8. d \notin {"absent", "pending"}
    BY <2>1 DEF Decision
  <2>9. ASSUME NEW x \in Approval
        PROVE  /\ approvals'[x].status \in {"absent", "pending"}
                    => \A w \in User, e \in Decision : Entry(e, x, w) \notin happened'
               /\ approvals'[x].status \in Decision
                    => /\ approvals'[x].decidedBy \in Owner
                       /\ Entry(approvals'[x].status, x, approvals'[x].decidedBy) \in happened'
    <3>1. CASE x = a
      BY <3>1, <2>1, <2>3, <2>5, <2>8
    <3>2. CASE x # a
      BY <3>2, <2>3, <2>6, <2>7
    <3> QED
      BY <3>1, <3>2
  <2> QED
    BY <2>9
<1>3. CASE UNCHANGED <<approvals, happened>>
  BY <1>3
<1> QED
  BY <1>1, <1>2, <1>3 DEF ApprovalsNext, DecideRead, ClerkAudit, ClerkAbort

LEMMA AuditStep ==
  ASSUME ApprovalsTypeOK, ClerkOwesFact, ApprovalAuditBacked, ApprovalsNext
  PROVE  ClerkOwesFact' /\ ApprovalAuditBacked'
<1> USE DEF ClerkOwesFact, ApprovalAuditBacked, ApprovalsTypeOK, Owed
<1>1. ASSUME NEW c \in Clerk, NEW u \in User, NEW a \in Approval, CreateRequest(c, u, a)
      PROVE  ClerkOwesFact' /\ ApprovalAuditBacked'
  BY <1>1 DEF CreateRequest
<1>2. ASSUME NEW c \in Clerk, NEW u \in User, NEW a \in Approval, NEW d \in Decision,
             DecideRead(c, u, a, d)
      PROVE  ClerkOwesFact' /\ ApprovalAuditBacked'
  BY <1>2 DEF DecideRead
<1>3. ASSUME NEW c \in Clerk, DecideWrite(c)
      PROVE  ClerkOwesFact' /\ ApprovalAuditBacked'
  BY <1>3 DEF DecideWrite, ClerkState
<1>4. ASSUME NEW c \in Clerk, ClerkAudit(c)
      PROVE  ClerkOwesFact' /\ ApprovalAuditBacked'
  BY <1>4 DEF ClerkAudit, IdleClerk
<1>5. ASSUME NEW c \in Clerk, ClerkAbort(c)
      PROVE  ClerkOwesFact' /\ ApprovalAuditBacked'
  BY <1>5 DEF ClerkAbort, IdleClerk
<1> QED
  BY <1>1, <1>2, <1>3, <1>4, <1>5 DEF ApprovalsNext

\* An entry that is owed stays owed until its clerk records it or is stopped.
LEMMA CompleteStep ==
  ASSUME ApprovalsTypeOK, ApprovalAuditComplete, ApprovalsNext
  PROVE  ApprovalAuditComplete'
<1> USE DEF ApprovalAuditComplete, ApprovalsTypeOK
\* A clerk with nothing to record takes up work, or goes on with it.
<1>1. ASSUME NEW c \in Clerk, NEW new, clerk[c].pc # "audit", clerk' = [clerk EXCEPT ![c] = new],
             UNCHANGED <<audit, lost>>,
             \/ UNCHANGED happened
             \/ new.pc = "audit" /\ happened' = happened \cup {Entry(new.verb, new.approval, new.user)}
      PROVE  ApprovalAuditComplete'
  <2>1. clerk'[c] = new /\ \A x \in Clerk : x # c => clerk'[x] = clerk[x]
    BY <1>1
  <2> QED
    BY <1>1, <2>1 DEF Owed
<1>2. ASSUME NEW c \in Clerk, NEW u \in User, NEW a \in Approval, CreateRequest(c, u, a)
      PROVE  ApprovalAuditComplete'
  BY <1>1, <1>2 DEF CreateRequest
<1>3. ASSUME NEW c \in Clerk, NEW u \in User, NEW a \in Approval, NEW d \in Decision,
             DecideRead(c, u, a, d)
      PROVE  ApprovalAuditComplete'
  BY <1>1, <1>3 DEF DecideRead
<1>4. ASSUME NEW c \in Clerk, DecideWrite(c)
      PROVE  ApprovalAuditComplete'
  <2> DEFINE new == [clerk[c] EXCEPT !.pc = "audit"]
  <2>1. clerk[c] \in ClerkState
    OBVIOUS
  <2>2. /\ new.pc = "audit" /\ new.verb = clerk[c].verb
        /\ new.approval = clerk[c].approval /\ new.user = clerk[c].user
    BY <2>1 DEF ClerkState
  <2>3. clerk' = [clerk EXCEPT ![c] = new]
    BY <1>4 DEF DecideWrite
  <2> HIDE DEF new
  <2> QED
    BY <1>1, <1>4, <2>2, <2>3 DEF DecideWrite
<1>5. ASSUME NEW c \in Clerk, clerk' = [clerk EXCEPT ![c] = IdleClerk], UNCHANGED happened,
             audit \cup lost \subseteq audit' \cup lost',
             clerk[c].pc = "audit" => Owed(c) \in audit' \cup lost'
      PROVE  ApprovalAuditComplete'
  <2>1. \A x \in Clerk : x # c => clerk'[x] = clerk[x]
    BY <1>5
  <2> QED
    BY <1>5, <2>1 DEF Owed
<1>6. ASSUME NEW c \in Clerk, ClerkAudit(c) \/ ClerkAbort(c)
      PROVE  ApprovalAuditComplete'
  BY <1>5, <1>6 DEF ClerkAudit, ClerkAbort
<1> QED
  BY <1>2, <1>3, <1>4, <1>6 DEF ApprovalsNext

\* The step lemma: also what a module that composes the queue needs of it.
LEMMA ApprovalsInvStep ==
  ASSUME ApprovalsInv, [ApprovalsNext]_approvalVars
  PROVE  ApprovalsInv'
<1>1. CASE ApprovalsNext
  BY <1>1, ApprovalsTypeStep, VerdictsStep, AuditStep, CompleteStep DEF ApprovalsInv
<1>2. CASE UNCHANGED approvalVars
  BY <1>2 DEF ApprovalsInv, approvalVars, ApprovalsTypeOK, ClerkHolds, VerdictsAccounted,
              ClerkOwesFact, Owed, ApprovalAuditBacked, ApprovalAuditComplete
<1> QED
  BY <1>1, <1>2

\* The queue keeps its types, its verdicts are those of owners, its audit entries
\* tell what happened, and none is missing but those of stopped handlers, in every
\* interleaving of any number of requests.
THEOREM ApprovalsCorrect ==
  ApprovalsSpec =>
    [](ApprovalsTypeOK /\ VerdictsAccounted /\ ApprovalAuditBacked /\ ApprovalAuditComplete)
<1>1. ApprovalsSpec => []ApprovalsInv
  BY ApprovalsInitInv, ApprovalsInvStep, PTL DEF ApprovalsSpec
<1> QED
  BY <1>1, PTL DEF ApprovalsInv

--------------------------------------------------------------------------------

\* While decisions do not overlap, a clerk about to write still faces a pending
\* request, and is the only one to.
WritersExclude ==
  Serialised =>
    \A c \in Clerk : clerk[c].pc = "write" =>
      /\ approvals[clerk[c].approval].status = "pending"
      /\ \A other \in Clerk :
           clerk[other].pc = "write" /\ clerk[other].approval = clerk[c].approval => other = c

LEMMA WritersExcludeStep ==
  ASSUME ApprovalsTypeOK, WritersExclude, ApprovalsNext
  PROVE  WritersExclude'
<1> SUFFICES ASSUME Serialised PROVE WritersExclude'
  BY DEF WritersExclude
<1> USE DEF WritersExclude, ApprovalsTypeOK
<1>1. ASSUME NEW c \in Clerk, NEW u \in User, NEW a \in Approval, CreateRequest(c, u, a)
      PROVE  WritersExclude'
  BY <1>1 DEF CreateRequest, CreateApproval, ClerkHolds
<1>2. ASSUME NEW c \in Clerk, NEW u \in User, NEW a \in Approval, NEW d \in Decision,
             DecideRead(c, u, a, d)
      PROVE  WritersExclude'
  BY <1>2 DEF DecideRead, Decidable
<1>3. ASSUME NEW c \in Clerk, DecideWrite(c)
      PROVE  WritersExclude'
  <2>1. clerk' = [clerk EXCEPT ![c].pc = "audit"]
    BY <1>3 DEF DecideWrite
  <2>2. \A x \in Approval : x # clerk[c].approval => approvals'[x] = approvals[x]
    BY <1>3 DEF DecideWrite
  <2> QED
    BY <1>3, <2>1, <2>2 DEF DecideWrite, ClerkHolds, ClerkState
<1>4. ASSUME NEW c \in Clerk, ClerkAudit(c)
      PROVE  WritersExclude'
  BY <1>4 DEF ClerkAudit, IdleClerk
<1>5. ASSUME NEW c \in Clerk, ClerkAbort(c)
      PROVE  WritersExclude'
  BY <1>5 DEF ClerkAbort, IdleClerk
<1> QED
  BY <1>1, <1>2, <1>3, <1>4, <1>5 DEF ApprovalsNext

\* As long as owners do not decide the same request at the same time, a decision
\* is final.  (Without that the code does not keep it: run ApprovalsOverwritten.)
THEOREM SerialDecisionsFinal ==
  Serialised => (ApprovalsSpec => DecisionIsFinal)
<1> DEFINE Final == \A a \in Approval : approvals[a].status \in Decision => approvals'[a] = approvals[a]
<1> SUFFICES ASSUME Serialised PROVE ApprovalsSpec => DecisionIsFinal
  OBVIOUS
<1>1. ApprovalsInit => ApprovalsTypeOK /\ WritersExclude
  BY ApprovalsInitInv DEF ApprovalsInv, ApprovalsInit, WritersExclude, IdleClerk
<1>2. ApprovalsTypeOK /\ WritersExclude /\ [ApprovalsNext]_approvalVars
        => (ApprovalsTypeOK /\ WritersExclude)'
  <2>1. CASE UNCHANGED approvalVars
    BY <2>1 DEF approvalVars, ApprovalsTypeOK, ClerkHolds, WritersExclude
  <2> QED
    BY <2>1, ApprovalsTypeStep, WritersExcludeStep
<1>3. ApprovalsTypeOK /\ WritersExclude /\ [ApprovalsNext]_approvalVars => [Final]_approvals
  <2> SUFFICES ASSUME ApprovalsTypeOK, WritersExclude, ApprovalsNext,
                      NEW a \in Approval, approvals[a].status \in Decision
               PROVE  approvals'[a] = approvals[a]
    BY DEF approvalVars
  <2>1. ASSUME NEW c \in Clerk, NEW u \in User, NEW b \in Approval, CreateRequest(c, u, b)
        PROVE  approvals'[a] = approvals[a]
    BY <2>1 DEF CreateRequest, CreateApproval, ApprovalsTypeOK, Decision
  <2>2. ASSUME NEW c \in Clerk, DecideWrite(c)
        PROVE  approvals'[a] = approvals[a]
    BY <2>2 DEF DecideWrite, WritersExclude, ApprovalsTypeOK, Decision
  <2> QED
    BY <2>1, <2>2 DEF ApprovalsNext, DecideRead, ClerkAudit, ClerkAbort
<1> QED
  BY <1>1, <1>2, <1>3, PTL DEF ApprovalsSpec, DecisionIsFinal
================================================================================
