---------------------------- MODULE MCDeployment -----------------------------
EXTENDS Deployment, TLC

CONSTANTS r1, r2, s1, s2, s3

SomeGoals == {6, 8, 17}
EmptyOrPrisma == {{}, LegacyTables}

\* What administrators name and remove: a company looked up by its name, a
\* battle looked up by its players, a post.
Created == {"companies", "quiz_battles"}
Deleted == {"companies", "posts"}

RunSymmetry == Permutations({s1, s2, s3}) \cup Permutations({r1, r2})
==============================================================================
