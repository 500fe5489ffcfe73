-------------------------- MODULE MCApiIdempotency --------------------------
(***************************************************************************)
(* Small instances of ApiIdempotency for TLC: identical requests, and d4,  *)
(* which reuses their key for something else.                              *)
(***************************************************************************)
EXTENDS ApiIdempotency, TLC

CONSTANTS d1, d2, d3, d4

Fingerprints == [d \in Request |-> IF d = d4 THEN "b" ELSE "a"]

=============================================================================
