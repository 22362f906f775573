------------------------------- MODULE MCRecords -------------------------------
(***************************************************************************)
(* Knowledge and departments, the dashboard, audit retention, and roles,   *)
(* in one run.  They share no state: part picks, once, the one that runs.  *)
(* EndpointRules has assumptions on constants for TLC to evaluate.         *)
(***************************************************************************)
EXTENDS Departments, Dashboard, AuditRetention, Access, EndpointRules, TLC

CONSTANTS
  r1, r2, r3,     \* requests; interchangeable, and there are three in each part
  i1, p1, p2, d1, x1, founder, member,
  MaxRequests     \* bound: requests to the knowledge base; an invocation takes the place of two

VARIABLE part

knowledgeVars == <<setup, chunks, rag, inv>>
recordsVars == <<part, setup, chunks, rag, inv, clock, rows, total, deals, moves, mixed, visit,
                 day, audit_logs, trigger, script, writer,
                 isolated, catalog, roles, links, trail, call>>

\* Ollama needs no key; the others bring shorter vectors, and ones of the same length.
FallbackKeys == {{"voyage", "gemini"}}
AskedFor == {-1, 1, 2}
Stages == {"lead", "won", "lost"}
Amounts == {-1, 1}

Symmetry == Permutations({r1, r2, r3})

RecordsTypeOK == DepartmentsTypeOK /\ DashboardTypeOK /\ RetentionTypeOK /\ AccessTypeOK

RecordsInit ==
  /\ part \in {"knowledge", "dashboard", "retention", "access"}
  /\ DepartmentsInit /\ DashboardInit /\ RetentionInit /\ AccessInit
  \* the parts that do not run start in one way only
  /\ part # "knowledge" => setup = [keys |-> {"voyage", "gemini"}, pgvector |-> FALSE,
                                    steady |-> TRUE, others |-> 0]
  /\ part # "dashboard" => \A d \in Deal : deals[d] = "none"
  /\ part # "access" => ~isolated /\ catalog = {} /\ roles = {}

Requests == Cardinality({q \in Query : rag[q].pc # "new"})
              + 2 * Cardinality({i \in Invocation : inv[i].pc # "new"})

\* Bounds: one request reads, a query or a page, and none of the others can see it; those
\* that write to the dashboard all write to one of its three tables.
OneQuery == \A q, r \in Query : rag[q].op = "query" /\ rag[r].op = "query" => q = r

Tables == {{"income", "expense"}, {"kpi"}, {"create_deal", "update_deal_stage"}}
OnePage ==
  /\ \A v, w \in Visit : visit[v].op \in Page /\ visit[w].op \in Page => v = w
  /\ \E table \in Tables : \A v \in Visit : visit[v].op \in table \cup Page \cup {"none"}

RecordsNext ==
  \/ /\ part = "knowledge" /\ DepartmentsNext /\ Requests' <= MaxRequests /\ OneQuery'
     /\ UNCHANGED <<part, dashVars, retentionVars, accessVars>>
  \/ /\ part = "dashboard" /\ DashboardNext /\ OnePage'
     /\ UNCHANGED <<part, knowledgeVars, retentionVars, accessVars>>
  \/ /\ part = "retention" /\ RetentionNext
     /\ UNCHANGED <<part, knowledgeVars, dashVars, accessVars>>
  \/ /\ part = "access" /\ AccessNext
     /\ UNCHANGED <<part, knowledgeVars, dashVars, retentionVars>>

RecordsSpec == RecordsInit /\ [][RecordsNext]_recordsVars
================================================================================
