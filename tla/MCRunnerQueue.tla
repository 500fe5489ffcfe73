--------------------------- MODULE MCRunnerQueue ----------------------------
(***************************************************************************)
(* Small instances of RunnerQueue for TLC.                                 *)
(***************************************************************************)
EXTENDS RunnerQueue, TLC

CONSTANTS j1, j2, j3, j4, r1, r2, s1, s2, k1

\* Requests of one tenant: j2 retries j1, j3 reuses their key with another, urgent
\* payload, and j4 has no key.  Any two fit the quota unless one is j3.
SharedKey == [j \in Job |-> IF j = j4 THEN NoKey ELSE k1]
Prints == [j \in Job |-> IF j = j3 THEN "b" ELSE "a"]
OneScope == [j \in Job |-> s1]
Weights == [j \in Job |-> IF j = j3 THEN 3 ELSE 1]
Priorities == [j \in Job |-> IF j = j3 THEN 1 ELSE 0]
Arrivals == [j \in Job |-> CASE j = j1 -> 1 [] j = j2 -> 2 [] j = j4 -> 3 [] j = j3 -> 4]

\* r1 serves the tenant, r2 another one.
RunnerScopes == [r \in Runner |-> IF r = r1 THEN {s1} ELSE {s2}]

=============================================================================
