----------------------------- MODULE MCIdentity -----------------------------
(* A small instance of Identity.                                           *)
EXTENDS Identity

CONSTANTS id1, id2, t1, t2

MCIds == {id1, id2}
MCTasks == {t1, t2}

=============================================================================
