---------------------------- MODULE MCQuizBattle ----------------------------
(* Small instances of QuizBattle for TLC.                                   *)
EXTENDS QuizBattle, TLC

CONSTANTS u1, u2, r1, r2, r3

\* Scores are compared, nothing else: among three answers there are at most
\* three different ones.
ThreeScores == 0 .. 2

Symmetric == Permutations(Requests) \cup Permutations(Users)
==============================================================================
