---------------------------- MODULE MCTenantQueue ----------------------------
(* Two tenants, one with up to three requests, the other with one. *)
EXTENDS TenantQueue, TLC

CONSTANTS a, b, a1, a2, a3, b1, w1, w2

MCTenantOf == [r \in Requests |-> IF r = b1 THEN b ELSE a]

\* The workers are alike, and so are the requests of tenant a but the first,
\* which may be cancelled.
Symmetry == Permutations({w1, w2}) \cup Permutations({a2, a3})

=============================================================================
