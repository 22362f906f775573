----------------------------- MODULE TenantSessions -----------------------------
(***************************************************************************)
(* Tenant isolation on PostgreSQL: app/core/database.py (sessions, the two *)
(* contexts), the row policies of alembic/versions, and what the endpoints *)
(* ask of them.                                                            *)
(*                                                                         *)
(* A session takes a pooled connection with its first statement and gives  *)
(* it back with every commit, and when it is closed.  The settings the row *)
(* policies read are local to a transaction.  A select is modelled without *)
(* its own tenant_id filter: what it sees is what the policies let it see. *)
(***************************************************************************)
EXTENDS Naturals, Sequences

CONSTANTS
  Request,       \* requests (and Celery tasks) in flight
  Tenant,        \* tenants, by slug
  Conn,          \* the connection pool
  NoTenant, NoConn,
  Scripts,       \* what endpoints for the users of a tenant do
  Operations,    \* what endpoints for platform administrators do
  Registration,  \* what register does
  Founded,       \* tenants registered from the start
  Seeded,        \* TRUE: the permission catalog is complete from the start
  MaxLeaks       \* bound: connections given back with their transaction still open

\* Every session is closed at the end of its block.
ASSUME ScriptsClose ==
  \A script \in Scripts \cup Operations \cup {Registration} :
    script \in Seq(STRING) /\ script # <<>> /\ script[Len(script)] = "close"

ASSUME SessionsAssumption ==
  /\ Founded \subseteq Tenant
  /\ NoTenant \notin Tenant /\ NoConn \notin Conn
  /\ Seeded \in BOOLEAN /\ MaxLeaks \in Nat

VARIABLES
  conn,      \* the settings of each connection
  req,       \* each request, with its session
  tenants,   \* table tenants
  catalog,   \* table permissions: does it hold every code of the registry?
  founders,  \* history: registrations completed, by slug
  leaks      \* history: connections given back unclean

vars == <<conn, req, tenants, catalog, founders, leaks>>

--------------------------------------------------------------------------------

Clean == [tenant |-> NoTenant, bypass |-> FALSE]
Settings == [tenant : Tenant \cup {NoTenant}, bypass : BOOLEAN]

\* A request for tenant t that still has todo to do.
Incoming(t, todo) ==
  [todo |-> todo, tenant |-> t, conn |-> NoConn, scope |-> "none", seeding |-> FALSE,
   claims |-> FALSE, unsaved |-> "nothing", owes |-> FALSE, saved |-> FALSE,
   hidden |-> "never", seen |-> {}, cut |-> FALSE]

Idle == Incoming(NoTenant, <<>>)

Scope == {"none", "own", "all"}

TypeOK ==
  /\ conn \in [Conn -> Settings]
  /\ \A r \in Request :
       /\ req[r].tenant \in Tenant \cup {NoTenant}
       /\ req[r].conn \in Conn \cup {NoConn}
       /\ req[r].scope \in Scope
       /\ req[r].conn = NoConn => req[r].scope = "none" /\ ~req[r].claims /\ req[r].seen = {}
       /\ req[r].conn # NoConn => req[r].todo # <<>> /\ req[r].tenant \in Tenant
       /\ req[r].seen \subseteq Scope \X Tenant
       /\ \A q \in Request : q # r /\ req[r].conn # NoConn => req[q].conn # req[r].conn
  /\ tenants \subseteq Tenant
  /\ catalog \in BOOLEAN

Init ==
  /\ conn = [c \in Conn |-> Clean]
  /\ req = [r \in Request |-> Idle]
  /\ tenants = Founded
  /\ catalog = Seeded
  /\ founders = [t \in Tenant |-> 0]
  /\ leaks = 0

--------------------------------------------------------------------------------

\* A request comes in for t (TenantContextMiddleware) from one of its users.
Begin(r, t, todo) ==
  /\ req[r].todo = <<>>
  /\ req' = [req EXCEPT ![r] = Incoming(t, todo)]
  /\ UNCHANGED <<conn, tenants, catalog, founders, leaks>>

NextIs(r, s) == req[r].todo # <<>> /\ Head(req[r].todo) = s

\* The session of r works on c: the connection it holds, or one that is free.
On(r, c) ==
  IF req[r].conn # NoConn THEN req[r].conn = c ELSE \A q \in Request : req[q].conn # c

\* r as it goes on, holding c.
Onward(r, c) == [req[r] EXCEPT !.todo = Tail(req[r].todo), !.conn = c]

\* Mutant: the context counts for the rest of the session (is_local FALSE).
ReleasedInScope(me) == [me EXCEPT !.conn = NoConn, !.claims = FALSE, !.unsaved = "nothing",
                                  !.seeding = FALSE, !.seen = {}]

\* r as its transaction is over.
Released(me) == [me EXCEPT !.conn = NoConn, !.scope = "none", !.claims = FALSE,
                           !.unsaved = "nothing", !.seeding = FALSE, !.seen = {}]

\* A request that has ended before its time: what it had left to do is not done.
Cut == [Idle EXCEPT !.cut = TRUE]

\* me, or what is left of it when it has nothing left to do.
Settled(me) == IF me.todo = <<>> THEN [Idle EXCEPT !.owes = me.owes] ELSE me

\* A connection goes back to the pool: rolled back, or (database.py, on what
\* Phase 6 saw) with its settings still in place.
GiveBack(c) ==
  IF c = NoConn THEN UNCHANGED <<conn, leaks>>
  ELSE \/ conn' = [conn EXCEPT ![c] = Clean] /\ UNCHANGED leaks
       \/ leaks < MaxLeaks /\ leaks' = leaks + 1 /\ UNCHANGED conn

\* Mutant: the bypass of whoever had the connection before stays on.
SetTenantOnly(r, c) ==
  /\ NextIs(r, "context") /\ On(r, c)
  /\ conn' = [conn EXCEPT ![c].tenant = req[r].tenant]
  /\ req' = [req EXCEPT ![r] = [Onward(r, c) EXCEPT !.scope = "own"]]
  /\ UNCHANGED <<tenants, catalog, founders, leaks>>

\* set_tenant_context: the tenant, and no bypass.
SetTenantContext(r, c) ==
  /\ NextIs(r, "context") /\ On(r, c)
  /\ conn' = [conn EXCEPT ![c] = [tenant |-> req[r].tenant, bypass |-> FALSE]]
  /\ req' = [req EXCEPT ![r] = [Onward(r, c) EXCEPT !.scope = "own"]]
  /\ UNCHANGED <<tenants, catalog, founders, leaks>>

\* set_platform_admin_context.
SetPlatformContext(r, c) ==
  /\ NextIs(r, "bypass") /\ On(r, c)
  /\ conn' = [conn EXCEPT ![c].bypass = TRUE]
  /\ req' = [req EXCEPT ![r] = [Onward(r, c) EXCEPT !.scope = "all"]]
  /\ UNCHANGED <<tenants, catalog, founders, leaks>>

\* The row policies: whose rows a statement on c can see or write.
Visible(c) == IF conn[c].bypass THEN Tenant ELSE {conn[c].tenant} \cap Tenant

\* me after a statement on a protected table.
Looking(me, c) ==
  [me EXCEPT !.seen = me.seen \cup {<<me.scope, t>> : t \in Visible(c)},
             !.hidden = IF me.tenant \in Visible(c) THEN me.hidden
                        ELSE IF me.saved THEN "after save" ELSE "otherwise"]

\* A select the handler can do without: hidden rows are missing, that is all.
SelectSome(r, c) ==
  /\ NextIs(r, "list") /\ On(r, c)
  /\ req' = [req EXCEPT ![r] = Looking(Onward(r, c), c)]
  /\ UNCHANGED <<conn, tenants, catalog, founders, leaks>>

\* A statement that needs the row, or is refused by the policy: 404, or an
\* exception, when the row is hidden.
NeedsRow == {"find", "write", "put", "entry"}

Unsaved(me, s) ==
  IF s = "entry" THEN "entry" ELSE IF s \in {"write", "join"} THEN "change" ELSE me.unsaved

TouchRow(r, c) ==
  \E s \in NeedsRow :
    /\ NextIs(r, s) /\ On(r, c)
    /\ IF req[r].tenant \in Visible(c)
       THEN /\ req' = [req EXCEPT ![r] = [Looking(Onward(r, c), c) EXCEPT !.unsaved = Unsaved(req[r], s)]]
            /\ UNCHANGED <<conn, leaks>>
       ELSE /\ req' = [req EXCEPT ![r] = [Cut EXCEPT !.hidden = Looking(req[r], c).hidden]]
            /\ GiveBack(c)
    /\ UNCHANGED <<tenants, catalog, founders>>

\* A statement on a table without a policy, or an AI provider's answer awaited
\* while the session is open.
TouchShared(r, c) ==
  \E s \in {"shared", "join", "answer"} :
    /\ NextIs(r, s) /\ On(r, c)
    /\ req' = [req EXCEPT ![r] = [Onward(r, c) EXCEPT !.unsaved = Unsaved(req[r], s)]]
    /\ UNCHANGED <<conn, tenants, catalog, founders, leaks>>

--------------------------------------------------------------------------------
(* Registration *)

\* register: 409 if the slug is taken.
LookUpSlug(r, c) ==
  /\ NextIs(r, "lookup") /\ On(r, c)
  /\ IF req[r].tenant \in tenants
     THEN req' = [req EXCEPT ![r] = Cut] /\ GiveBack(c)
     ELSE req' = [req EXCEPT ![r] = Onward(r, c)] /\ UNCHANGED <<conn, leaks>>
  /\ UNCHANGED <<tenants, catalog, founders>>

\* Mutant: slug is not unique.
ClaimAnyway(r, c) ==
  /\ NextIs(r, "claim") /\ On(r, c)
  /\ req' = [req EXCEPT ![r] = [Onward(r, c) EXCEPT !.claims = TRUE]]
  /\ UNCHANGED <<conn, tenants, catalog, founders, leaks>>

\* The flush that inserts the tenant: it waits for another transaction that has
\* inserted the slug, and raises IntegrityError, outside of the try, once one
\* has committed it.
ClaimSlug(r, c) ==
  /\ NextIs(r, "claim") /\ On(r, c)
  /\ \A q \in Request \ {r} : ~(req[q].claims /\ req[q].tenant = req[r].tenant)
  /\ IF req[r].tenant \in tenants
     THEN req' = [req EXCEPT ![r] = Cut] /\ GiveBack(c)
     ELSE /\ req' = [req EXCEPT ![r] = [Onward(r, c) EXCEPT !.claims = TRUE]]
          /\ UNCHANGED <<conn, leaks>>
  /\ UNCHANGED <<tenants, catalog, founders>>

--------------------------------------------------------------------------------
(* The end of a transaction *)

\* session.commit(), in the handler or in a service function it has called.
CommitTransaction(r) ==
  \E s \in {"commit", "save"} :
    /\ NextIs(r, s) /\ req[r].conn # NoConn
    /\ req' = [req EXCEPT ![r] =
         [Released(req[r]) EXCEPT
            !.todo = Tail(req[r].todo),
            !.saved = (req[r].saved \/ s = "save"),
            !.owes = IF req[r].unsaved = "nothing" THEN req[r].owes ELSE req[r].unsaved = "change"]]
    /\ conn' = [conn EXCEPT ![req[r].conn] = Clean]
    /\ tenants' = IF req[r].claims THEN tenants \cup {req[r].tenant} ELSE tenants
    /\ founders' = IF req[r].claims
                  THEN [founders EXCEPT ![req[r].tenant] = founders[req[r].tenant] + 1]
                  ELSE founders
    /\ UNCHANGED <<catalog, leaks>>

\* ensure_permission_catalog_seeded, its select: which codes are missing.
SeedRead(r, c) ==
  /\ NextIs(r, "seed") /\ ~req[r].seeding /\ On(r, c)
  /\ req' = [req EXCEPT ![r] = IF catalog THEN Onward(r, c)
                               ELSE [req[r] EXCEPT !.conn = c, !.seeding = TRUE]]
  /\ UNCHANGED <<conn, tenants, catalog, founders, leaks>>

\* Its insert and commit, in the session of the caller.  The codes are unique:
\* whoever comes second gets an IntegrityError.
SeedCommit(r) ==
  /\ NextIs(r, "seed") /\ req[r].seeding
  /\ IF catalog
     THEN req' = [req EXCEPT ![r] = Cut] /\ GiveBack(req[r].conn)
     ELSE /\ req' = [req EXCEPT ![r] =
               [Released(req[r]) EXCEPT !.todo = Tail(req[r].todo), !.saved = TRUE]]
          /\ conn' = [conn EXCEPT ![req[r].conn] = Clean]
          /\ UNCHANGED leaks
  /\ catalog' = TRUE
  /\ UNCHANGED <<tenants, founders>>

\* The end of the block `async with AsyncSessionLocal()`.
CloseSession(r) ==
  /\ NextIs(r, "close")
  /\ GiveBack(req[r].conn)
  /\ req' = [req EXCEPT ![r] = Settled([Released(req[r]) EXCEPT
                !.todo = Tail(req[r].todo), !.saved = FALSE, !.hidden = "never"])]
  /\ UNCHANGED <<tenants, catalog, founders>>

\* The handler returns early (400, 401, 403, 404, 409, 429), or an exception or
\* a cancelled request ends it; the session is closed all the same.
ReturnEarly(r) ==
  /\ req[r].todo # <<>>
  /\ GiveBack(req[r].conn)
  /\ req' = [req EXCEPT ![r] = Cut]
  /\ UNCHANGED <<tenants, catalog, founders>>

--------------------------------------------------------------------------------

Step(r) ==
  \/ \E c \in Conn :
       \/ SetTenantContext(r, c)
       \/ SetPlatformContext(r, c)
       \/ SelectSome(r, c)
       \/ TouchRow(r, c)
       \/ TouchShared(r, c)
       \/ LookUpSlug(r, c)
       \/ ClaimSlug(r, c)
       \/ SeedRead(r, c)
  \/ CommitTransaction(r)
  \/ SeedCommit(r)
  \/ CloseSession(r)

Next ==
  \E r \in Request :
    \/ \E t \in tenants, todo \in Scripts \cup Operations : Begin(r, t, todo)
    \/ \E t \in Tenant : Begin(r, t, Registration)
    \/ Step(r)
    \/ ReturnEarly(r)

Spec == Init /\ [][Next]_vars

--------------------------------------------------------------------------------

\* No statement in a tenant's context sees or writes rows of another tenant,
\* not even on a connection that still carries somebody else's settings; and,
\* as long as no connection does, neither does one without any context.
TenantsApart ==
  \A r \in Request : \A s \in req[r].seen :
    s[1] = "own" \/ (s[1] = "none" /\ leaks = 0) => s[2] = req[r].tenant

\* A row of its own tenant is hidden from a request only in a session in which
\* a service function has committed: what a handler or record_audit does
\* itself always has its context.
HiddenOnlyAfterSave == \A r \in Request : req[r].hidden # "otherwise"

\* No row of its own tenant is ever hidden from a request.
NothingHidden == \A r \in Request : req[r].hidden = "never"

\* A request that has not been cut short has recorded every change it committed.
ChangesAudited == \A r \in Request : req[r].todo = <<>> /\ ~req[r].cut => ~req[r].owes

\* However registrations of one slug overlap, at most one founds the tenant.
OneFounder == \A t \in Tenant : founders[t] <= 1
================================================================================
