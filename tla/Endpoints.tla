------------------------------- MODULE Endpoints -------------------------------
(***************************************************************************)
(* What the HTTP endpoints of app/ ask of the database, in order: one      *)
(* sequence of requests to the session for every way through a handler.    *)
(* TenantSessions says what each request does.                             *)
(*                                                                         *)
(*   context  set_tenant_context       bypass  set_platform_admin_context  *)
(*   find     a select of a row of a protected table the handler needs     *)
(*   list     any other select of a protected table                        *)
(*   write    a change of a protected table that gets an audit entry       *)
(*   put      a change of a protected table that gets none                 *)
(*   entry    the insert of the audit entry itself                         *)
(*   shared   a statement on a table without a row policy                  *)
(*   join     a change of such a table that gets an audit entry            *)
(*   lookup, claim   register: is the slug taken; insert the tenant        *)
(*   seed     ensure_permission_catalog_seeded                             *)
(*   save     the commit of a service function; commit, of the handler     *)
(*   answer   the await of an AI provider while the session is open        *)
(*   close    the end of the block `async with AsyncSessionLocal()`        *)
(***************************************************************************)
EXTENDS Sequences

Statement == {"context", "bypass", "find", "list", "write", "put", "entry", "shared", "join",
            "lookup", "claim", "seed", "save", "commit", "answer", "close"}

\* The tables with a row policy.
Protected ==
  {"users", "roles", "audit_logs", "approval_requests", "knowledge_chunks", "workflow_runs",
   "kpi_metrics", "sales_deals", "financial_transactions"}

Policed(tables, kind) == IF tables \cap Protected # {} THEN <<kind>> ELSE <<"shared">>

\* Selects in a row tell no more apart than one.
Find(tables) == Policed(tables, "find")
List(tables) == Policed(tables, "list")
Write(table) == IF table \in Protected THEN <<"write">> ELSE <<"join">>
Put(table) == Policed({table}, "put")
Context == <<"context">>
Commit == <<"commit">>
Save == <<"save">>
Close == <<"close">>
Seed == <<"seed">>

--------------------------------------------------------------------------------
(* Shared by the endpoints *)

get_current_user == Find({"tenants"}) \o Context \o Find({"users", "roles"}) \o Close

\* Mutant: the caller's tenant context is taken for granted.
RecordUnscoped == <<"entry">> \o Commit

\* Mutant: the entry is left to the caller to commit.
RecordUncommitted == Context \o <<"entry">>

record_audit == Context \o <<"entry">> \o Commit

\* A handler's own session, in its tenant.
Session(body) == Context \o body \o Close

\* A change, and its audit entry.
Audited(change) == Session(change \o record_audit)

--------------------------------------------------------------------------------
(* Authentication *)

register == <<"lookup", "claim">> \o Context \o Put("users") \o Commit \o Close

authenticate == Find({"tenants"}) \o Context \o List({"users"})

login == authenticate \o Close

login_submit == authenticate \o Close

--------------------------------------------------------------------------------
(* Approvals *)

CreateApproval == Write("approval_requests") \o Save

create_approval == get_current_user \o Audited(CreateApproval)

list_approvals == get_current_user \o Session(List({"approval_requests"}))

decide_approval ==
  get_current_user \o Audited(Find({"approval_requests"}) \o Write("approval_requests") \o Commit)

--------------------------------------------------------------------------------
(* Roles and permissions: the service, the JSON API, the admin pages *)

ListCatalog == Seed \o List({"permissions"})

ListTenantRoles == List({"roles"})

ListTenantUsers == List({"users"})

CreateRole == Write("roles") \o Save \o record_audit

AssignPermissionToRole ==
  Seed \o Find({"roles", "permissions"}) \o Write("role_permissions") \o Save \o record_audit

AssignRoleToUser == Find({"users", "roles"}) \o Write("user_roles") \o Save \o record_audit

list_permissions == get_current_user \o ListCatalog \o Close

list_roles == get_current_user \o Session(ListTenantRoles)

list_users == get_current_user \o Session(ListTenantUsers)

create_role == get_current_user \o Session(CreateRole)

assign_permission_to_role == get_current_user \o Session(AssignPermissionToRole)

assign_role_to_user == get_current_user \o Session(AssignRoleToUser)

admin_dashboard ==
  get_current_user \o Session(Find({"tenants"}) \o ListTenantRoles \o ListCatalog \o ListTenantUsers)

create_role_submit == get_current_user \o Session(CreateRole)

assign_permission_submit == get_current_user \o Session(AssignPermissionToRole)

assign_role_submit == get_current_user \o Session(AssignRoleToUser)

--------------------------------------------------------------------------------
(* Dashboard *)

record_kpi == get_current_user \o Audited(Write("kpi_metrics") \o Commit)

list_kpis == get_current_user \o Session(List({"kpi_metrics"}))

create_deal == get_current_user \o Audited(Write("sales_deals") \o Commit)

update_deal_stage ==
  get_current_user \o Audited(Find({"sales_deals"}) \o Write("sales_deals") \o Commit)

list_pipeline == get_current_user \o Session(List({"sales_deals"}))

record_transaction == get_current_user \o Audited(Write("financial_transactions") \o Commit)

financial_summary == get_current_user \o Session(List({"financial_transactions"}))

ceo_briefing ==
  get_current_user \o
    Session(List({"approval_requests", "audit_logs", "sales_deals", "financial_transactions"}))

--------------------------------------------------------------------------------
(* Knowledge base *)

\* The native vector is written in a second transaction, on pgvector only.
ingest(pgvector) ==
  get_current_user \o
    Audited(Write("knowledge_chunks") \o Commit
              \o (IF pgvector THEN Context \o Write("knowledge_chunks") \o Commit ELSE <<>>))

top_k == List({"knowledge_chunks"})

query == get_current_user \o Session(top_k)

--------------------------------------------------------------------------------
(* Departments *)

\* How an invocation can end; no provider answering is recorded as well.
Audit == Session(record_audit)

invoke_department(use_knowledge, escalates) ==
  get_current_user
    \o (IF use_knowledge THEN Session(top_k) ELSE <<>>)
    \o Audit
    \o (IF escalates THEN Audited(CreateApproval) ELSE <<>>)

--------------------------------------------------------------------------------
(* Workflows *)

start_run == get_current_user \o Session(Put("workflow_runs") \o Commit)

get_run == get_current_user \o Session(Find({"workflow_runs"}) \o List({"workflow_step_runs"}))

Answer == <<"answer">>

step_completed == Session(Answer \o Put("workflow_step_runs") \o Commit)

EndRun == Find({"workflow_runs"}) \o Write("workflow_runs") \o Commit

step_failed == Audited(Answer \o Put("workflow_step_runs") \o EndRun)

step_escalated ==
  Audited(Answer \o CreateApproval \o Put("workflow_step_runs") \o EndRun)

run_completed == Audited(EndRun)

resume_run ==
  get_current_user
    \o Session(Find({"workflow_runs", "approval_requests"}) \o List({"workflow_step_runs"}))
    \o Session(Find({"workflow_runs"}) \o Put("workflow_runs") \o Commit)

Executions == {step_failed, step_escalated, step_completed \o run_completed}

--------------------------------------------------------------------------------
(* Platform administration *)

Everywhere(body) == get_current_user \o <<"bypass">> \o body \o Close

list_tenants == Everywhere(List({"tenants"}))

tenant_detail ==
  Everywhere(Find({"tenants"}) \o List({"users", "approval_requests", "audit_logs"}))

platform_stats ==
  Everywhere(List({"tenants", "users", "audit_logs", "approval_requests"}))

tenant_audit_log == Everywhere(Find({"tenants"}) \o List({"audit_logs"}))

global_audit_log == Everywhere(List({"audit_logs"}))

--------------------------------------------------------------------------------

TenantEndpoints ==
  {login, login_submit, create_approval, list_approvals, decide_approval,
   list_permissions, list_roles, list_users, create_role, assign_permission_to_role,
   assign_role_to_user, admin_dashboard, create_role_submit, assign_permission_submit,
   assign_role_submit,
   record_kpi, list_kpis, create_deal, update_deal_stage, list_pipeline, record_transaction,
   financial_summary, ceo_briefing, get_run}
  \cup {ingest(p) : p \in BOOLEAN} \cup {query} \cup {invoke_department(k, e) : k \in BOOLEAN, e \in BOOLEAN}
  \cup Executions
  \cup {start_run \o x : x \in Executions \cup {<<>>}}
  \cup {resume_run \o x : x \in Executions}

PlatformEndpoints ==
  {list_tenants, tenant_detail, platform_stats, tenant_audit_log, global_audit_log}
================================================================================
