------------------------------ MODULE MCAccess ------------------------------
(* A small instance of Access.                                             *)
EXTENDS Access

CONSTANTS r1, r2, u1, c1, s1

MCRequests == {r1, r2}
MCUsers == {u1}
MCCodes == {c1}
MCSources == {s1}

\* One status that is in the channel, and the one that is easy to mistake for it.
MCStatuses == {"member", "restricted"}

=============================================================================
