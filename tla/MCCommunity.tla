----------------------------- MODULE MCCommunity ----------------------------
(* Small instances of Community for TLC.                                    *)
EXTENDS Community, TLC

CONSTANTS u1, u2, r1, r2, r3

\* A student, and a manager whom no channel but one of admins refuses.
SmallRole == [u \in Users |-> IF u = u1 THEN "student" ELSE "manager"]

\* Requests are interchangeable names.
RequestSymmetry == Permutations(Requests)
==============================================================================
