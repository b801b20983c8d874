-------------------------- MODULE SchemaMigrations ---------------------------
(* `alembic upgrade` and `alembic downgrade` over the chain of revisions    *)
(* (alembic/env.py): runs that read the recorded revision, execute the      *)
(* revisions from there to their goal in one transaction and commit, while  *)
(* other runs do the same; statements are refused and connections are lost. *)
EXTENDS SchemaModels, FiniteSets

CONSTANTS
  Revisions,  \* the chain of revisions: the statements up and down of each
  Runners,    \* invocations of alembic
  Goals,      \* the revisions, counted from the base, they are told to reach
  Fresh       \* the sets of tables a database has that records no revision

LastRevision == Len(Revisions)

Database(ts) ==
  [version |-> 0, tables |-> ts, types |-> {}, columns |-> {}, values |-> {}]

\* What the upgrades up to a revision make of an empty database.
Upgraded ==
  LET f[v \in 0..LastRevision] ==
        IF v = 0 THEN Database({})
        ELSE [Execute(f[v - 1], Revisions[v].up).db EXCEPT !.version = v]
  IN  f

\* The databases at a revision that no downgrade has touched.
Untouched(v) == IF v = 0 THEN {Database(ts) : ts \in Fresh} ELSE {Upgraded[v]}

\* The same tables and columns, and at least the types.
Resembles(d, e) == d.tables = e.tables /\ d.columns = e.columns /\ e.types \subseteq d.types

\* And at least the values: what is left of the database e when nothing is lost.
Extends(d, e) == Resembles(d, e) /\ e.values \subseteq d.values

Operations == {"create table", "drop table", "drop if exists", "add key", "drop key",
               "add column", "drop column", "add value"}

Operational(ops) == Len(ops) \in Nat /\ \A i \in 1..Len(ops) : ops[i].op \in Operations
AddsNoValue(ops) == \A i \in 1..Len(ops) : ops[i].op # "add value"

ASSUME GoalsAssumption == Goals \subseteq 0..LastRevision

\* A revision is made of operations, and its downgrade adds no enum value.
ASSUME RevisionsAssumption ==
  /\ LastRevision \in Nat
  /\ \A v \in 1..LastRevision :
       /\ Operational(Revisions[v].up) /\ Operational(Revisions[v].down)
       /\ AddsNoValue(Revisions[v].down)

\* Each upgrade runs where the one before it has run, the first one on every
\* fresh database.
ASSUME UpgradesAssumption ==
  \A v \in 1..LastRevision : \A d \in Untouched(v - 1) :
    LET e == Execute(d, Revisions[v].up)
    IN  e.ok /\ [e.db EXCEPT !.version = v] \in Untouched(v)

\* A downgrade that runs undoes its upgrade but for the types and their values.
ASSUME DowngradesAssumption ==
  \A v \in 1..LastRevision : \A d \in Untouched(v) :
    LET e == Execute(d, Revisions[v].down)
    IN  e.ok => \E b \in Untouched(v - 1) : Extends(e.db, b)

VARIABLES
  db,       \* the committed database: version, tables, types, columns, values
  runs      \* of each runner: control point, goal, revision, uncommitted work

migrationVars == <<db, runs>>

Pcs == {"idle", "running"}

Idle == [pc |-> "idle", goal |-> 0, at |-> 0, wrote |-> FALSE, work |-> Database({})]

MigrationInit ==
  /\ \E ts \in Fresh : db = Database(ts)
  /\ runs = [r \in Runners |-> Idle]

Running(r) == runs[r].pc = "running"

\* READ COMMITTED: a run sees its own statements, else what is committed.
Seen(r) == IF runs[r].wrote THEN runs[r].work ELSE db

\* DDL locks what it touches until its transaction ends.
Locked(r) == \E o \in Runners \ {r} : Running(o) /\ runs[o].wrote

Upwards(r) == runs[r].at < runs[r].goal

\* Faulty variant: a downgrade records the goal at its first revision.
NextAtGoal(r) == IF Upwards(r) THEN runs[r].at + 1 ELSE runs[r].goal

\* The revision recorded with the next step.
NextAt(r) == IF Upwards(r) THEN runs[r].at + 1 ELSE runs[r].at - 1

\* What the next step executes.
Statements(r) ==
  IF Upwards(r) THEN Revisions[runs[r].at + 1].up ELSE Revisions[runs[r].at].down

\* alembic moves the recorded revision by UPDATE ... WHERE version_num = the
\* one it moves from, and fails unless that is one row.
Matches(d, v) == d.version = v

Migrated(r) ==
  LET e == Execute(Seen(r), Statements(r))
  IN  [ok |-> e.ok /\ Matches(Seen(r), runs[r].at), db |-> [e.db EXCEPT !.version = NextAt(r)]]

-----------------------------------------------------------------------------
(* The actions.                                                             *)

\* get_current_heads: the way to the goal is planned from here.
BeginRun(r, g) ==
  /\ ~Running(r)
  /\ runs' = [runs EXCEPT ![r] = [Idle EXCEPT !.pc = "running", !.goal = g,
                                              !.at = db.version]]
  /\ UNCHANGED db

RunRevision(r) ==
  /\ Running(r) /\ runs[r].at # runs[r].goal /\ ~Locked(r)
  /\ LET m == Migrated(r)
     IN  /\ m.ok
         /\ runs' = [runs EXCEPT ![r] = [@ EXCEPT !.at = NextAt(r), !.wrote = TRUE,
                                                  !.work = m.db]]
  /\ UNCHANGED db

\* Faulty variant: what was executed before the refusal stays.
RevisionRefusedInPlace(r) ==
  /\ Running(r) /\ runs[r].at # runs[r].goal /\ ~Locked(r)
  /\ ~Migrated(r).ok
  /\ runs' = [runs EXCEPT ![r] = Idle]
  /\ db' = [Migrated(r).db EXCEPT !.version = db.version]

\* A refused statement, or a version row somebody else has moved: the whole
\* run is rolled back.
RevisionRefused(r) ==
  /\ Running(r) /\ runs[r].at # runs[r].goal /\ ~Locked(r)
  /\ ~Migrated(r).ok
  /\ runs' = [runs EXCEPT ![r] = Idle]
  /\ UNCHANGED db

CommitRun(r) ==
  /\ Running(r) /\ runs[r].at = runs[r].goal
  /\ db' = Seen(r)
  /\ runs' = [runs EXCEPT ![r] = Idle]

ConnectionLost(r) ==
  /\ Running(r)
  /\ runs' = [runs EXCEPT ![r] = Idle]
  /\ UNCHANGED db

MigrationNext ==
  \E r \in Runners :
    \/ \E g \in Goals : BeginRun(r, g)
    \/ RunRevision(r) \/ RevisionRefused(r) \/ CommitRun(r) \/ ConnectionLost(r)

MigrationSpec == MigrationInit /\ [][MigrationNext]_migrationVars

-----------------------------------------------------------------------------
(* The properties.                                                          *)

\* The revision a database records tells its tables, keys and columns, however
\* runs up and down overlap, are refused or lose their connection
\* (alembic/env.py:46).
VersionTellsTables ==
  LET d == Upgraded[db.version]
  IN  IF db.version = 0 THEN db.tables \in Fresh
      ELSE db.tables = d.tables /\ db.columns = d.columns /\ d.types \subseteq db.types

\* An upgrade from the recorded revision is refused only where an earlier
\* downgrade has left enum types behind, which drop_table does not remove: on
\* any other database every upgrade runs to its goal.
OnlyLeftTypesBlockUpgrades ==
  \A r \in Runners :
    Running(r) /\ Upwards(r) /\ Matches(Seen(r), runs[r].at) =>
      Migrated(r).ok \/ Seen(r).types # Upgraded[runs[r].at].types

\* What app/models declares, key by key.
Serves(d) ==
  d.tables = Models /\ LaterColumns \subseteq d.columns /\ LaterValues \subseteq d.values

\* At the last revision the database is what the program's models declare,
\* whatever has been downgraded and upgraded again (alembic/env.py:12).
HeadServesModels == db.version = LastRevision => Serves(db)
==============================================================================
