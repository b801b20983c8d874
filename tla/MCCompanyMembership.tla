------------------------- MODULE MCCompanyMembership ------------------------
(* Small instances of CompanyMembership for TLC.                            *)
EXTENDS CompanyMembership, TLC

CONSTANTS u1, u2, j1, j2, j3

\* A file of two users, one with a blank and a repeated row, and one whose
\* second row cannot be read.
SmallFiles == {<<u1, u2>>, <<u1, Blank, u1>>, <<u2, Short, u1>>}

\* Jobs are interchangeable names.
JobSymmetry == Permutations(Jobs)
==============================================================================
