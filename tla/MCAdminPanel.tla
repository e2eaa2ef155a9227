---------------------------- MODULE MCAdminPanel ----------------------------
(* Small instances of AdminPanel.                                          *)
EXTENDS AdminPanel, TLC

CONSTANTS p1, p2, c1, c2, s1, m1, k1, k2, k3

MCUpdates == {p1, p2}
MCOffered == [u \in MCUpdates |->
    IF u = p1 THEN Acts \ {"expire"} ELSE {"expire", "cancel"}]
MCOneUpdate == {p1}
MCOneOffered == [u \in MCOneUpdate |-> Acts]
MCCodes == {c1, c2}
MCSources == {s1}
MCMessages == {m1}
MCKeys == {k1, k2, k3}

Symmetry == Permutations(Codes) \cup Permutations(Keys)

=============================================================================
