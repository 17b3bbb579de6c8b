---------------------------- MODULE MCApiRequests ----------------------------
(* Documents, tenants and runs of create_tenant are interchangeable. *)
EXTENDS ApiRequests, TLC

CONSTANTS a, b, c, t1, t2, c1, c2

Symmetric == Permutations({a, b, c}) \cup Permutations({t1, t2})
               \cup Permutations({c1, c2})
=============================================================================
