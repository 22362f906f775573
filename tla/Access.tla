--------------------------------- MODULE Access ---------------------------------
(***************************************************************************)
(* Who may do what in one tenant: roles, their permissions and who has     *)
(* them (app/permissions, app/auth/models.py), and the check of a          *)
(* permission (app/auth/rbac.py).  An action is a select or a commit.      *)
(*                                                                         *)
(* Nothing takes a role or a permission away.  Persons other than the      *)
(* founder are put into the table outside of the application.              *)
(***************************************************************************)
EXTENDS Naturals, Sequences, FiniteSets

CONSTANTS
  Call,       \* requests
  Person,     \* users of the tenant
  Founder,    \* its owner
  Role,       \* roles it may create
  Code        \* the permissions the departments ask for

\* The audit entry of a new role is no assignment.
ASSUME AccessAssumption == Founder \in Person /\ "created" \notin Role \cup Code

VARIABLES
  isolated,   \* is row-level security in force?
  catalog,    \* table permissions, shared by all tenants
  roles,      \* table roles
  links,      \* tables role_permissions and user_roles
  trail,      \* audit log: what each entry says was created or assigned
  call        \* the requests

accessVars == <<isolated, catalog, roles, links, trail, call>>

Unknown == "unknown"      \* a permission no department asks for
Link == (Role \X (Code \cup {Unknown})) \cup (Person \X Role)

NewCall == [pc |-> "new", op |-> "none", who |-> Founder, about |-> <<>>, scoped |-> TRUE,
            missing |-> {}, held |-> {}, entitled |-> FALSE, status |-> 0]

AccessTypeOK ==
  /\ isolated \in BOOLEAN
  /\ catalog \subseteq Code
  /\ roles \subseteq Role
  /\ links \subseteq Link
  /\ trail \in Seq(Link \cup (Role \X {"created"}))
  /\ \A c \in Call :
       /\ call[c].pc \in {"new", "seed", "catalog", "load", "save", "audit", "roles",
                          "permissions", "done", "cut"}
       /\ call[c].op \in {"none", "list", "create_role", "assign_permission", "assign_role", "use"}
       /\ call[c].held \subseteq roles
       /\ call[c].status \in {0, 200, 403, 404, 500}

AccessInit ==
  /\ isolated \in BOOLEAN
  /\ catalog \in {{}, Code}
  /\ roles \in SUBSET Role
  /\ links = {}
  /\ trail = <<>>
  /\ call = [c \in Call |-> NewCall]

--------------------------------------------------------------------------------

\* is_owner_or_admin
is_owner_or_admin(person) == person = Founder

Answer(c, status) == [call EXCEPT ![c].pc = "done", ![c].status = status]

\* Roles are hidden from a transaction without a context.
Hidden(c) == isolated /\ ~call[c].scoped

\* A request that only the owner may make starts where its operation does.
Enter(c, op, about, pc) ==
  /\ call[c].pc = "new"
  /\ \E who \in Person :
       call' = [call EXCEPT ![c].op = op, ![c].who = who, ![c].about = about,
                            ![c].pc = IF is_owner_or_admin(who) THEN pc ELSE "done",
                            ![c].status = IF is_owner_or_admin(who) THEN 0 ELSE 403]
  /\ UNCHANGED <<isolated, catalog, roles, links, trail>>

list_permissions(c) == Enter(c, "list", <<>>, "seed")
create_role(c) ==
  \E role \in Role \ roles :
    /\ \A d \in Call : call[d].about # <<role, "created">>     \* a fresh id
    /\ Enter(c, "create_role", <<role, "created">>, "save")
assign_permission_to_role(c) ==
  \E link \in Role \X (Code \cup {Unknown}) : Enter(c, "assign_permission", link, "seed")
assign_role_to_user(c) == \E link \in Person \X Role : Enter(c, "assign_role", link, "load")

--------------------------------------------------------------------------------
\* ensure_permission_catalog_seeded

SeedRead(c) ==
  /\ call[c].pc = "seed"
  /\ LET after == IF call[c].op = "list" THEN "done" ELSE "load"
     IN call' = [call EXCEPT ![c].missing = Code \ catalog,
                             ![c].pc = IF Code \subseteq catalog THEN after ELSE "catalog",
                             ![c].status = IF Code \subseteq catalog /\ after = "done" THEN 200 ELSE 0]
  /\ UNCHANGED <<isolated, catalog, roles, links, trail>>

\* Codes are unique: of two requests that seed, the second fails, and with it what it
\* was for.  The commit ends the context of the caller.
SeedCommit(c) ==
  /\ call[c].pc = "catalog"
  /\ IF call[c].missing \cap catalog # {}
     THEN call' = Answer(c, 500) /\ UNCHANGED catalog
     ELSE /\ catalog' = catalog \cup call[c].missing
          /\ call' = IF call[c].op = "list" THEN Answer(c, 200)
                     ELSE [call EXCEPT ![c].pc = "load", ![c].scoped = FALSE]
  /\ UNCHANGED <<isolated, roles, links, trail>>

--------------------------------------------------------------------------------
\* The assignments

RoleOf(c) == IF call[c].op = "assign_role" THEN call[c].about[2] ELSE call[c].about[1]

\* Mutant: the missing role is ignored, and the client told all is well.
LoadOrIgnore(c) ==
  /\ call[c].pc = "load"
  /\ call' = IF Hidden(c) \/ RoleOf(c) \notin roles \/ call[c].about[2] = Unknown
                \/ call[c].about \in links
             THEN Answer(c, 200)
             ELSE [call EXCEPT ![c].pc = "save"]
  /\ UNCHANGED <<isolated, catalog, roles, links, trail>>

\* The selects.  What is assigned already is answered with 200 and leaves no entry.
Load(c) ==
  /\ call[c].pc = "load"
  /\ call' = IF Hidden(c) \/ RoleOf(c) \notin roles \/ call[c].about[2] = Unknown THEN Answer(c, 404)
             ELSE IF call[c].about \in links THEN Answer(c, 200)
             ELSE [call EXCEPT ![c].pc = "save"]
  /\ UNCHANGED <<isolated, catalog, roles, links, trail>>

\* Mutant: the tables of links have no primary key.
SaveAgain(c) ==
  /\ call[c].pc = "save"
  /\ IF call[c].op = "create_role"
     THEN roles' = roles \cup {RoleOf(c)} /\ UNCHANGED links
     ELSE links' = links \cup {call[c].about} /\ UNCHANGED roles
  /\ call' = [call EXCEPT ![c].pc = "audit"]
  /\ UNCHANGED <<isolated, catalog, trail>>

\* The commit.  A link is a primary key: of two requests that make it, the second fails.
Save(c) ==
  /\ call[c].pc = "save"
  /\ IF call[c].about \in links
     THEN call' = Answer(c, 500) /\ UNCHANGED <<roles, links>>
     ELSE /\ IF call[c].op = "create_role"
             THEN roles' = roles \cup {RoleOf(c)} /\ UNCHANGED links
             ELSE links' = links \cup {call[c].about} /\ UNCHANGED roles
          /\ call' = [call EXCEPT ![c].pc = "audit"]
  /\ UNCHANGED <<isolated, catalog, trail>>

Record(c) ==
  /\ call[c].pc = "audit"
  /\ trail' = Append(trail, call[c].about)
  /\ call' = Answer(c, 200)
  /\ UNCHANGED <<isolated, catalog, roles, links>>

--------------------------------------------------------------------------------
\* A request that takes a permission: get_current_user, require_permission

require_permission(person, held, code) ==
  is_owner_or_admin(person) \/ \E role \in held : <<role, code>> \in links

RolesOf(person) == {role \in roles : <<person, role>> \in links}

use(c) ==
  /\ call[c].pc = "new"
  /\ \E who \in Person, code \in Code :
       call' = [call EXCEPT ![c].op = "use", ![c].who = who, ![c].about = <<who, code>>,
                            ![c].pc = "roles",
                            ![c].entitled = \E role \in RolesOf(who) : <<role, code>> \in links]
  /\ UNCHANGED <<isolated, catalog, roles, links, trail>>

\* selectinload: the roles of the user, and in a select of its own what they permit.
ReadRoles(c) ==
  /\ call[c].pc = "roles"
  /\ call' = [call EXCEPT ![c].held = RolesOf(call[c].who), ![c].pc = "permissions"]
  /\ UNCHANGED <<isolated, catalog, roles, links, trail>>

ReadPermissions(c) ==
  /\ call[c].pc = "permissions"
  /\ call' = Answer(c, IF require_permission(call[c].who, call[c].held, call[c].about[2])
                       THEN 200 ELSE 403)
  /\ UNCHANGED <<isolated, catalog, roles, links, trail>>

\* The request stops between two awaits.
CutCall(c) ==
  /\ call[c].pc \notin {"new", "done", "cut"}
  /\ call' = [call EXCEPT ![c] = [NewCall EXCEPT !.pc = "cut", !.about =
                IF call[c].pc = "audit" THEN call[c].about ELSE <<>>]]
  /\ UNCHANGED <<isolated, catalog, roles, links, trail>>

CallStep(c) ==
  \/ list_permissions(c) \/ create_role(c) \/ assign_permission_to_role(c) \/ assign_role_to_user(c)
  \/ SeedRead(c) \/ SeedCommit(c) \/ Load(c) \/ Save(c) \/ Record(c)
  \/ use(c) \/ ReadRoles(c) \/ ReadPermissions(c) \/ CutCall(c)

AccessNext == \E c \in Call : CallStep(c)

AccessSpec == AccessInit /\ [][AccessNext]_accessVars

--------------------------------------------------------------------------------

Recorded(link) == Cardinality({i \in DOMAIN trail : trail[i] = link})
InFlight(link) == \E c \in Call : call[c].about = link /\ call[c].pc \in {"audit", "cut"}

\* Who may do what is what the audit log says, and what owners were told.  However
\* assignments overlap, one is in force exactly if it is recorded, once, or the request
\* that made it has still to record it or was cut before it could; one answered with 200
\* is in force; and a permission in force when a request begins is honoured, although
\* the roles of a user and what they permit are two selects.
GrantsAccounted ==
  /\ \A link \in links : Recorded(link) = 1 \/ (Recorded(link) = 0 /\ InFlight(link))
  /\ \A i \in DOMAIN trail : trail[i][2] = "created" \/ trail[i] \in links
  /\ \A c \in Call :
       /\ call[c].op \in {"assign_permission", "assign_role"} /\ call[c].status = 200 =>
            call[c].about \in links
       /\ call[c].op = "use" /\ call[c].entitled => call[c].status # 403
================================================================================
