----------------------------- MODULE EndpointRules -----------------------------
(***************************************************************************)
(* The endpoints of app/ keep to SessionRules: the hypotheses of the       *)
(* theorems of TenantSessionsProofs about their statements.  MCRecords     *)
(* extends this module, so that TLC evaluates them.                        *)
(***************************************************************************)
EXTENDS SessionRules

E == INSTANCE Endpoints

Endpoint == E!TenantEndpoints \cup E!PlatformEndpoints \cup {E!register}

ASSUME EndpointsKeepContext == KeepsContext(Endpoint)
ASSUME EndpointsKeepRecords == KeepsRecords(Endpoint)
================================================================================
