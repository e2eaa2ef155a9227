----------------------------- MODULE MCRateLimit -----------------------------
(* A small instance of RateLimit: a store that holds fewer keys than there are. *)
EXTENDS RateLimit, TLC

CONSTANTS u1, u2

MCScopes == {"user", "admin"}
MCUsers == {u1, u2}
MCLimit == [scope \in MCScopes |-> IF scope = "user" THEN 1 ELSE 2]

Symmetry == Permutations(Users)

=============================================================================
