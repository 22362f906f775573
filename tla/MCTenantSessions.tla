---------------------------- MODULE MCTenantSessions ----------------------------
EXTENDS TenantSessions, Endpoints, TLC
CONSTANTS acme, globex
Symmetry == Permutations(Request) \cup Permutations(Conn)
AssignPermission == {assign_permission_to_role}
Nobody == {}
OldTenants == {acme}
ASSUME \A s \in TenantEndpoints \cup PlatformEndpoints \cup {register} : s \in Seq(Statement)
================================================================================
