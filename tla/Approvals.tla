------------------------------- MODULE Approvals -------------------------------
(***************************************************************************)
(* The founder-approval queue: app/approvals (models.py, service.py,       *)
(* router.py) together with the audit record each of its endpoints writes. *)
(*                                                                         *)
(* A clerk is a slot of the web server that serves one approvals request   *)
(* at a time.  Every action is what a handler does between two commits, so *)
(* other requests interleave exactly where the code awaits the database.   *)
(***************************************************************************)
EXTENDS Naturals

CONSTANTS
  Clerk,        \* web-server slots serving /api/v1/approvals requests
  User,         \* users of the tenant
  Owner,        \* those who may decide: tenant owners and platform admins
  Approval,     \* identifiers of ApprovalRequest rows (bounds how many are created)
  Run,          \* identifiers of WorkflowRun rows
  NoApproval, NoRun, NoUser,
  Serialised,   \* TRUE: nobody sends a request while another on the same row is in flight
  MaxAborts     \* bound: handlers that stop between two commits

ASSUME ConstantsAssumption ==
  /\ Owner \subseteq User
  /\ NoApproval \notin Approval /\ NoRun \notin Run /\ NoUser \notin User
  /\ Serialised \in BOOLEAN
  /\ MaxAborts \in Nat

VARIABLES
  approvals,    \* table approval_requests
  clerk,        \* what each approvals handler in flight holds in its locals
  audit,        \* table audit_logs, as a set of entries
  happened,     \* history: the audited events whose own commit is done
  lost,         \* history: events whose handler stopped before recording them
  aborts        \* history: handlers stopped so far

approvalVars == <<approvals, clerk, audit, happened, lost, aborts>>

--------------------------------------------------------------------------------

Decision == {"approved", "rejected"}
ApprovalStatus == {"pending"} \cup Decision

\* An entry of the audit log: who did what to which row.
Entry(verb, about, actor) == [verb |-> verb, about |-> about, actor |-> actor]
ApprovalEntry == [verb : Decision \cup {"created"}, about : Approval, actor : User]

\* Not in the table yet; the identifier is a fresh UUID when it is.
Absent == [status |-> "absent", run |-> NoRun, step |-> 0, decidedBy |-> NoUser]

\* title and description name the workflow run and the step that asked, if one did.
ApprovalRow ==
  [status : ApprovalStatus \cup {"absent"}, run : Run \cup {NoRun}, step : Nat,
   decidedBy : User \cup {NoUser}]

IdleClerk == [pc |-> "idle", approval |-> NoApproval, verb |-> "none", user |-> NoUser]

ClerkState ==
  [pc : {"idle", "write", "audit"}, approval : Approval \cup {NoApproval},
   verb : Decision \cup {"created", "none"}, user : User \cup {NoUser}]

\* Past its checks a handler holds a row and a user; a decision, an owner's.
ClerkHolds(c) ==
  /\ clerk[c].pc # "idle" => clerk[c].approval \in Approval /\ clerk[c].user \in User
  /\ clerk[c].pc = "write" \/ (clerk[c].pc = "audit" /\ clerk[c].verb # "created")
       => clerk[c].verb \in Decision /\ clerk[c].user \in Owner

ApprovalsTypeOK ==
  /\ approvals \in [Approval -> ApprovalRow]
  /\ clerk \in [Clerk -> ClerkState]
  /\ \A c \in Clerk : ClerkHolds(c)
  /\ aborts \in 0..MaxAborts

ApprovalsInit ==
  /\ approvals = [a \in Approval |-> Absent]
  /\ clerk = [c \in Clerk |-> IdleClerk]
  /\ audit = {} /\ happened = {} /\ lost = {}
  /\ aborts = 0

--------------------------------------------------------------------------------

\* service.create_approval: insert a PENDING row under a fresh id and commit.
CreateApproval(a, run, step) ==
  /\ approvals[a].status = "absent"
  /\ approvals' = [approvals EXCEPT ![a] =
       [status |-> "pending", run |-> run, step |-> step, decidedBy |-> NoUser]]

\* POST /approvals: any user of the tenant may ask.
CreateRequest(c, u, a) ==
  /\ clerk[c].pc = "idle"
  /\ CreateApproval(a, NoRun, 0)
  /\ clerk' = [clerk EXCEPT ![c] =
       [pc |-> "audit", approval |-> a, verb |-> "created", user |-> u]]
  /\ happened' = happened \cup {Entry("created", a, u)}
  /\ UNCHANGED <<audit, lost, aborts>>

\* Mutant: every user of the tenant may decide.
AnyoneMayDecide(u) == u \in User

\* is_tenant_owner or is_platform_admin, else 403.
MayDecide(u) == u \in Owner

\* Mutant: a decided request may be decided again.
DecidableAgain(a) == approvals[a].status # "absent"

\* 409 for a request already decided.
Decidable(a) == approvals[a].status = "pending"

\* POST /approvals/{id}/decide, up to the PENDING check on the row just read.
DecideRead(c, u, a, d) ==
  /\ clerk[c].pc = "idle"
  /\ MayDecide(u)
  /\ Decidable(a)
  /\ Serialised => \A other \in Clerk : ~(clerk[other].pc = "write" /\ clerk[other].approval = a)
  /\ clerk' = [clerk EXCEPT ![c] = [pc |-> "write", approval |-> a, verb |-> d, user |-> u]]
  /\ UNCHANGED <<approvals, audit, happened, lost, aborts>>

\* Mutant: the row does not say who decided.
DecideAnonymously(c) ==
  /\ clerk[c].pc = "write"
  /\ LET a == clerk[c].approval  d == clerk[c].verb  u == clerk[c].user IN
       /\ approvals' = [approvals EXCEPT ![a].status = d]
       /\ happened' = happened \cup {Entry(d, a, u)}
  /\ clerk' = [clerk EXCEPT ![c].pc = "audit"]
  /\ UNCHANGED <<audit, lost, aborts>>

\* The rest of decide: status, decided_by and decided_at are written and
\* committed, whatever the row holds by now.
DecideWrite(c) ==
  /\ clerk[c].pc = "write"
  /\ LET a == clerk[c].approval  d == clerk[c].verb  u == clerk[c].user IN
       /\ approvals' = [approvals EXCEPT ![a] = [@ EXCEPT !.status = d, !.decidedBy = u]]
       /\ happened' = happened \cup {Entry(d, a, u)}
  /\ clerk' = [clerk EXCEPT ![c].pc = "audit"]
  /\ UNCHANGED <<audit, lost, aborts>>

\* The entry a clerk still has to record.
Owed(c) == Entry(clerk[c].verb, clerk[c].approval, clerk[c].user)

\* Mutant: the entry is recorded before the commit of what it is about.
AuditFirst(c) ==
  /\ clerk[c].pc \in {"write", "audit"}
  /\ audit' = audit \cup {Owed(c)}
  /\ clerk' = [clerk EXCEPT ![c] = IF clerk[c].pc = "audit" THEN IdleClerk ELSE clerk[c]]
  /\ UNCHANGED <<approvals, happened, lost, aborts>>

\* Mutant: a rejection is not recorded.
AuditApprovalsOnly(c) ==
  /\ clerk[c].pc = "audit"
  /\ audit' = IF clerk[c].verb = "rejected" THEN audit ELSE audit \cup {Owed(c)}
  /\ clerk' = [clerk EXCEPT ![c] = IdleClerk]
  /\ UNCHANGED <<approvals, happened, lost, aborts>>

\* record_audit: its own transaction, after the commit of what it records.
ClerkAudit(c) ==
  /\ clerk[c].pc = "audit"
  /\ audit' = audit \cup {Owed(c)}
  /\ clerk' = [clerk EXCEPT ![c] = IdleClerk]
  /\ UNCHANGED <<approvals, happened, lost, aborts>>

\* The handler stops here: the process is killed, the client's disconnect
\* cancels it, or the database refuses its next statement.
ClerkAbort(c) ==
  /\ clerk[c].pc # "idle"
  /\ aborts < MaxAborts
  /\ aborts' = aborts + 1
  /\ lost' = IF clerk[c].pc = "audit" THEN lost \cup {Owed(c)} ELSE lost
  /\ clerk' = [clerk EXCEPT ![c] = IdleClerk]
  /\ UNCHANGED <<approvals, audit, happened>>

ClerkStep(c) == DecideWrite(c) \/ ClerkAudit(c)

ApprovalsNext ==
  \E c \in Clerk :
    \/ \E u \in User, a \in Approval : CreateRequest(c, u, a)
    \/ \E u \in User, a \in Approval, d \in Decision : DecideRead(c, u, a, d)
    \/ DecideWrite(c)
    \/ ClerkAudit(c)
    \/ ClerkAbort(c)

ApprovalsSpec == ApprovalsInit /\ [][ApprovalsNext]_approvalVars

--------------------------------------------------------------------------------

\* An owner has, at some point, committed decision d on a.
EverDecided(a, d) == \E u \in Owner : Entry(d, a, u) \in happened

\* The row and the history of decisions agree: a row still pending was never
\* decided by anyone, and a decided one carries the verdict, and the name, of
\* an owner who did commit that verdict (router.py decide_approval), whatever
\* requests raced.
VerdictsAccounted ==
  \A a \in Approval :
    /\ approvals[a].status \in {"absent", "pending"}
         => \A u \in User, d \in Decision : Entry(d, a, u) \notin happened
    /\ approvals[a].status \in Decision
         => /\ approvals[a].decidedBy \in Owner
            /\ Entry(approvals[a].status, a, approvals[a].decidedBy) \in happened

\* The audit log never records a decision or a creation that did not happen:
\* record_audit runs only after the commit of what it records.
ApprovalAuditBacked == \A e \in audit : e \in ApprovalEntry => e \in happened

\* Nothing is missing from the audit log but what a handler is about to write
\* or what a stopped handler took with it.
ApprovalAuditComplete ==
  \A e \in happened \cap ApprovalEntry :
    \/ e \in audit \cup lost
    \/ \E c \in Clerk : clerk[c].pc = "audit" /\ Owed(c) = e

\* A decision is final: once approved or rejected, a request is never decided
\* again ("Approval already approved", 409).
DecisionIsFinal ==
  [][\A a \in Approval : approvals[a].status \in Decision => approvals'[a] = approvals[a]]_approvals

\* No stopped handler: every decision an owner commits reaches the audit log.
DecisionsGetAudited ==
  \A a \in Approval, d \in Decision, u \in User :
    (Entry(d, a, u) \in happened) ~> (Entry(d, a, u) \in audit)

================================================================================
