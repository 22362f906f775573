------------------------------ MODULE Departments ------------------------------
(***************************************************************************)
(* Invoking a department (app/api/v1/departments_router.py): retrieve what *)
(* the tenant knows, generate, record, and escalate if a rule of the       *)
(* department (app/departments) matches.  One action per await that        *)
(* matters; the knowledge base changes in between.  The checks of          *)
(* identity, permission and rate come first and are not repeated here.     *)
(*                                                                         *)
(* A text is the set of the topics it touches, and a rule is the topic its *)
(* keywords are about.                                                     *)
(***************************************************************************)
EXTENDS KnowledgeBase

CONSTANTS
  Invocation,    \* requests to /departments/{department}/invoke
  Department     \* the departments they go to

VARIABLE inv     \* the invocations, with what each has written

--------------------------------------------------------------------------------
\* The registry

Anything == "*"     \* ALWAYS_ESCALATE

\* Departments with keywords of their own; one rule each.
Differentiated ==
  {"human_resources", "engineering", "devops", "cyber_security", "sales", "finance",
   "legal", "compliance", "internal_audit", "procurement", "public_relations",
   "automation", "customer_success", "marketing"}

\* The executive office asks for flags that no caller passes: it has no rule that a
\* text can match.
EscalationRules(department) ==
  CASE department = "executive_office" -> <<>>
    [] department = "investor_relations" -> <<Anything>>
    [] department \in Differentiated -> <<department>>
    [] OTHER -> <<"commitment", "security">>

\* The topics that make a difference to a department
Topics(department) ==
  {EscalationRules(department)[i] : i \in DOMAIN EscalationRules(department)} \ {Anything}

TaskType(department) ==
  IF department = "executive_office" THEN "briefing_synthesis" ELSE "default"

\* Mutant: the loop over the rules returns with the first one, matched or not.
FirstRuleMatches(department, topics) ==
  \E i \in DOMAIN EscalationRules(department) :
    i = 1 /\ EscalationRules(department)[i] \in topics \cup {Anything}

\* should_escalate: does a rule match?
Escalates(department, topics) ==
  \E i \in DOMAIN EscalationRules(department) :
    EscalationRules(department)[i] \in topics \cup {Anything}

--------------------------------------------------------------------------------

DEFAULT_KNOWLEDGE_K == 3

NewInvocation ==
  [pc |-> "new", department |-> "", space |-> NoAnswer, topics |-> {}, audit |-> <<>>,
   approvals |-> 0, status |-> 0]

departmentsVars == <<setup, chunks, rag, inv>>

DepartmentsTypeOK ==
  /\ KnowledgeTypeOK
  /\ \A v \in Invocation :
       /\ inv[v].pc \in {"new", "retrieve", "generate", "record", "escalate", "note",
                         "failed", "done", "cut"}
       /\ inv[v].topics \subseteq Topics(inv[v].department)
       /\ inv[v].audit \in Seq({"invoke", "invoke_failed", "escalated"})
       /\ inv[v].status \in {0, 200, 500, 503}

DepartmentsInit == KnowledgeInit /\ inv = [v \in Invocation |-> NewInvocation]

BeginInvocation(v) ==
  /\ inv[v].pc = "new"
  /\ \E department \in Department :
       \/ inv' = [inv EXCEPT ![v].pc = "generate", ![v].department = department]
       \/ \E space \in EmbedOutcomes(setup.keys, setup.steady) :     \* use_knowledge
            inv' = [inv EXCEPT ![v].pc = IF space = NoAnswer THEN "failed" ELSE "retrieve",
                               ![v].department = department, ![v].space = space]
  /\ UNCHANGED <<setup, chunks, rag>>

\* _build_augmented_prompt.  Only AllProvidersFailedError is caught: a search that
\* breaks ends the request.
Retrieve(v) ==
  /\ inv[v].pc = "retrieve"
  /\ \E outcome \in TopK(inv[v].space, DEFAULT_KNOWLEDGE_K, inv[v].department) :
       inv' = IF outcome.status = 500
              THEN [inv EXCEPT ![v].pc = "done", ![v].status = 500, ![v].space = NoAnswer]
              ELSE [inv EXCEPT ![v].pc = "generate", ![v].space = NoAnswer]
  /\ UNCHANGED <<setup, chunks, rag>>

\* agent.run.  Prompt, context and response together touch some topics.
Generate(v) ==
  /\ inv[v].pc = "generate"
  /\ LET department == inv[v].department
     IN \E reply \in GenerateOutcomes(department, TaskType(department), setup.keys) :
          \/ reply = NoAnswer /\ inv' = [inv EXCEPT ![v].pc = "failed"]
          \/ /\ reply # NoAnswer
             /\ \E topics \in SUBSET Topics(department) :
                  inv' = [inv EXCEPT ![v].pc = "record", ![v].topics = topics]
  /\ UNCHANGED <<setup, chunks, rag>>

RecordFailure(v) ==
  /\ inv[v].pc = "failed"
  /\ inv' = [inv EXCEPT ![v].audit = Append(@, "invoke_failed"),
                        ![v].pc = "done", ![v].status = 503]
  /\ UNCHANGED <<setup, chunks, rag>>

RecordInvoke(v) ==
  /\ inv[v].pc = "record"
  /\ inv' = IF Escalates(inv[v].department, inv[v].topics)
            THEN [inv EXCEPT ![v].audit = Append(@, "invoke"), ![v].pc = "escalate"]
            ELSE [inv EXCEPT ![v].audit = Append(@, "invoke"),
                             ![v].pc = "done", ![v].status = 200]
  /\ UNCHANGED <<setup, chunks, rag>>

\* create_approval, in a transaction of its own
CreateEscalation(v) ==
  /\ inv[v].pc = "escalate"
  /\ inv' = [inv EXCEPT ![v].approvals = @ + 1, ![v].pc = "note"]
  /\ UNCHANGED <<setup, chunks, rag>>

RecordEscalation(v) ==
  /\ inv[v].pc = "note"
  /\ inv' = [inv EXCEPT ![v].audit = Append(@, "escalated"),
                        ![v].pc = "done", ![v].status = 200]
  /\ UNCHANGED <<setup, chunks, rag>>

\* The request stops between two awaits.
CutInvocation(v) ==
  /\ inv[v].pc \notin {"new", "done", "cut"}
  /\ inv' = [inv EXCEPT ![v].pc = "cut", ![v].space = NoAnswer]
  /\ UNCHANGED <<setup, chunks, rag>>

InvocationStep(v) ==
  \/ BeginInvocation(v) \/ Retrieve(v) \/ Generate(v) \/ RecordFailure(v) \/ RecordInvoke(v)
  \/ CreateEscalation(v) \/ RecordEscalation(v) \/ CutInvocation(v)

DepartmentsNext ==
  \/ KnowledgeNext /\ UNCHANGED inv
  \/ \E v \in Invocation : InvocationStep(v)

DepartmentsSpec == DepartmentsInit /\ [][DepartmentsNext]_departmentsVars

--------------------------------------------------------------------------------

\* What the mission of the department wants the founder to sign off.
NeedsFounder(v) ==
  LET rules == EscalationRules(inv[v].department)
  IN {rules[i] : i \in DOMAIN rules} \cap (inv[v].topics \cup {Anything}) # {}

\* An invocation that gives its client an answer has recorded it once, and has exactly
\* one approval request in the queue if and only if a rule of its department matched;
\* one that could not be served has recorded that, and nothing reaches the queue before
\* its invocation is on record, wherever the request stops.
InvocationsAccounted ==
  \A v \in Invocation :
    /\ inv[v].status = 200 =>
         IF NeedsFounder(v)
         THEN inv[v].audit = <<"invoke", "escalated">> /\ inv[v].approvals = 1
         ELSE inv[v].audit = <<"invoke">> /\ inv[v].approvals = 0
    /\ inv[v].status = 503 => inv[v].audit = <<"invoke_failed">> /\ inv[v].approvals = 0
    /\ inv[v].approvals > 0 => inv[v].audit # <<>> /\ inv[v].audit[1] = "invoke"
================================================================================
