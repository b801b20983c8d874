--------------------------- MODULE MCGamification ---------------------------
(* Small instances of Gamification for TLC.                                 *)
EXTENDS Gamification, TLC

CONSTANTS w1, w2, s1, s2, s3, b1

\* s2 is worth two points, everything else one: the first level up may come
\* too early for the badge, and the badge's own reward adds to the total.
SmallXP == [r \in Refs |-> IF r = s2 THEN 2 ELSE 1]
SmallMinXp == [b \in Badges |-> 3]
SmallThresholds == <<0, 2, 3, 4>>
SmallMultipliers == {1}
==============================================================================
