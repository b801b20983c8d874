----------------------------- MODULE Deployment ------------------------------
(* Revisions and seeds on one database, in the order README.md gives them:  *)
(* alembic runs while no seed does, and the other way round.                *)
EXTENDS Seeding

vars == <<migrationVars, seedVars>>

Init == MigrationInit /\ SeedInit

Migrating == \E r \in Runners : Running(r)
AnySeeding == \E s \in Seeds : Seeding(s)

\* The rows of a dropped table are gone.
RowsAfter(d) == [t \in Tables |-> IF t \in Names(d) THEN rows[t] ELSE 0]

MigrationStep ==
  /\ ~AnySeeding
  /\ MigrationNext
  /\ rows' = RowsAfter(db')
  /\ domain' = IF "tenants" \in Names(db') THEN domain ELSE "free"
  /\ UNCHANGED <<legacy, seeds, platformOps>>

SeedStep == ~Migrating /\ SeedNext /\ UNCHANGED migrationVars

Next == MigrationStep \/ SeedStep

Spec == Init /\ [][Next]_vars
==============================================================================
