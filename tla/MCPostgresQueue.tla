-------------------------- MODULE MCPostgresQueue ---------------------------
(***************************************************************************)
(* Small instances of PostgresQueue for TLC.                               *)
(***************************************************************************)
EXTENDS PostgresQueue, TLC

CONSTANTS j1, j2, j3, j4, j5, j6, r1, r2, s1, s2, k1

\* j1, j2 and j3 share a key, hence a tenant: j2 retries j1, j3 changes the payload.
\* The other requests have no key.
Keys == [j \in Job |-> IF j \in {j1, j2, j3} THEN k1 ELSE NoKey]
Prints == [j \in Job |-> IF j = j3 THEN "b" ELSE "a"]

\* Lease run: j4 is another tenant's, which r2 does not serve.
LeaseScopes == [j \in Job |-> IF j = j4 THEN s2 ELSE s1]
OneUnit == [j \in Job |-> 1]

\* Quota run: two requests exhaust the runs of the tenant, j4 and any other its
\* scenarios; j5 has no complete tenant scope.
QuotaScopes == [j \in Job |-> IF j = j5 THEN NoScope ELSE s1]
QuotaUnits == [j \in Job |-> IF j = j4 THEN 3 ELSE 1]

RunnerScopes == [r \in Runner |-> IF r = r1 THEN {s1, s2} ELSE {s1}]

=============================================================================
