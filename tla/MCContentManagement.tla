------------------------ MODULE MCContentManagement ------------------------
(* Small instances of ContentManagement.                                   *)
EXTENDS ContentManagement, TLC

CONSTANTS t1, t2, c1, c2, s1, s2, bad

MCTasks == {t1, t2}
MCCodes == {c1, c2}
MCOneCode == {c1}
MCSources == {s1, s2}
MCOneSource == {s1}
MCDays == {0, 2}
MCOneDay == {1}

TaskSymmetry == Permutations(Tasks)
Symmetry == Permutations(Tasks) \cup Permutations(Codes)

=============================================================================
