------------------------------ MODULE Seeding --------------------------------
(* scripts/seed.py: the demonstration tenant, found or created class of     *)
(* rows by class of rows in one transaction that commits at the end, run    *)
(* again and again, beside other executions and beside the platform's use.  *)
(*                                                                          *)
(* All rows of one table that the script looks up are one class.  A stage   *)
(* (a seed_ function) is one step: what happens between two statements of   *)
(* a stage happens between two stages here.                                 *)
EXTENDS SchemaMigrations, SequencesExt

CONSTANTS
  Seeds,           \* executions of the script
  Creatable,       \* tables in which users make rows that match the script's keys
  Deletable,       \* tables in which users delete rows
  MaxPlatformOps   \* how often they do

ASSUME MaxPlatformOps \in Nat

\* The tables, beside the tenants', of the first two stages.
Setup == {"menu_configs", "companies"}

\* A unique index protects the tenants' slugs.
ASSUME SlugAssumption ==
  \A v \in 0..LastRevision : \A d \in Untouched(v) :
    "tenants" \in Names(d) => {"slug"} \in TableOf(d, "tenants").unique

\* From where these tables are, no revision that runs drops them.
ASSUME SetupAssumption ==
  \A v \in 1..LastRevision :
    /\ \A d \in Untouched(v - 1) :
         Setup \subseteq Names(d) => Setup \subseteq Names(Execute(d, Revisions[v].up).db)
    /\ \A d \in Untouched(v) :
         LET e == Execute(d, Revisions[v].down)
         IN  Setup \subseteq Names(d) /\ e.ok => Setup \subseteq Names(e.db)

VARIABLES
  rows,            \* committed rows that match each class's key, 0, 1 or many (2)
  legacy,          \* whether there is an account of the old domain, @acme.test
  domain,          \* localhost is "free", the script's tenant's "own", or "taken"
  seeds,           \* of each execution: control point, stage, what it wrote
  platformOps

seedVars == <<rows, legacy, domain, seeds, platformOps>>

-----------------------------------------------------------------------------
(* The script.  A class is a table, the columns of the WHERE it is looked   *)
(* up by, the tables it points at, and what becomes of a row that is found. *)

\* SELECT, and an INSERT if there is none.
Row(t, key, refs) == [table |-> t, key |-> key, refs |-> refs, found |-> "kept"]

\* one_or_create sets every value again; an UPDATE follows if one is different,
\* as dates from NOW, salted hashes and prices (a float is no Decimal) always are.
OneOrCreate(t, key, refs) == [Row(t, key, refs) EXCEPT !.found = "set"]
OneOrCreateAnew(t, key, refs) == [Row(t, key, refs) EXCEPT !.found = "rewritten"]

\* Found by way of other rows: any one of several will do.
Related(t, refs) == Row(t, {}, refs)

SeedTenant ==
  <<OneOrCreate("tenants", {"slug"}, {}),
    OneOrCreate("menu_configs", {"tenant_id", "role"}, {"tenants"})>>

SeedCompanies == <<OneOrCreateAnew("companies", {"tenant_id", "legal_name"}, {"tenants"})>>

SeedUsers == <<OneOrCreateAnew("users", {"tenant_id", "email"}, {"tenants", "companies"})>>

SeedCompanyMembers ==
  <<OneOrCreate("company_members", {"company_id", "user_id"}, {"companies", "users"}),
    OneOrCreateAnew("company_goals", {"company_id", "title"}, {"companies"})>>

SeedCourses ==
  <<OneOrCreate("courses", {"tenant_id", "slug"}, {"tenants", "users"}),
    OneOrCreate("modules", {"tenant_id", "course_id", "title"}, {"tenants", "courses"}),
    OneOrCreate("lessons", {"tenant_id", "module_id", "title"}, {"tenants", "modules"})>>

SeedCommunity ==
  <<OneOrCreate("spaces", {"tenant_id", "name"}, {"tenants"}),
    OneOrCreate("channels", {"tenant_id", "space_id", "name"}, {"tenants", "spaces"}),
    OneOrCreate("posts", {"tenant_id", "channel_id", "title"}, {"tenants", "channels", "users"}),
    Row("comments", {"post_id", "user_id", "body"}, {"tenants", "posts", "users"}),
    Row("post_likes", {"post_id", "user_id"}, {"posts", "users"})>>

SeedProducts ==
  <<OneOrCreateAnew("products", {"tenant_id", "slug"}, {"tenants"}),
    OneOrCreate("product_courses", {"product_id", "course_id"}, {"products", "courses"}),
    OneOrCreate("product_spaces", {"product_id", "space_id"}, {"products", "spaces"}),
    OneOrCreateAnew("enrollments", {"tenant_id", "user_id", "product_id"},
                    {"tenants", "users", "products"})>>

SeedGamification ==
  <<OneOrCreate("badges", {"tenant_id", "name"}, {"tenants"}),
    OneOrCreateAnew("lesson_progress", {"user_id", "lesson_id"}, {"users", "lessons"}),
    OneOrCreate("xp_events", {"tenant_id", "user_id", "reference_id"},
                {"tenants", "users", "companies"}),
    OneOrCreate("user_levels", {"tenant_id", "user_id"}, {"tenants", "users"}),
    OneOrCreateAnew("user_streaks", {"user_id"}, {"users", "companies"}),
    OneOrCreate("notes", {"user_id", "lesson_id"}, {"users", "lessons"}),
    OneOrCreate("user_badges", {"user_id", "badge_id"}, {"users", "badges"})>>

SeedMessaging ==
  <<Related("conversations", {"tenants"}),
    Related("conversation_participants", {"conversations", "users"}),
    Row("messages", {"conversation_id", "sender_id", "content"}, {"conversations", "users"})>>

SeedQuiz ==
  <<Row("quiz_battles", {"tenant_id", "challenger_id", "opponent_id", "status"},
        {"tenants", "users", "courses"}),
    Related("quiz_battle_answers", {"quiz_battles", "users"})>>

SeedEmail ==
  <<OneOrCreate("email_audiences", {"tenant_id", "name"}, {"tenants"}),
    OneOrCreate("email_templates", {"tenant_id", "name"}, {"tenants"}),
    OneOrCreate("email_automations", {"tenant_id", "name"}, {"tenants"}),
    OneOrCreateAnew("email_campaigns", {"tenant_id", "name"},
                    {"tenants", "email_templates", "email_audiences"}),
    Row("email_sends", {"campaign_id", "user_id"}, {"email_campaigns", "users"})>>

SeedWebhooks ==
  <<Row("webhook_logs", {"tenant_id", "provider", "event_type", "payload"}, {"tenants"}),
    Row("leads", {"tenant_id", "email"}, {"tenants"})>>

SeedLanding ==
  <<OneOrCreate("landing_pages", {"tenant_id", "slug"}, {"tenants", "products"}),
    OneOrCreate("page_views", {"page_id", "ip_hash"}, {"landing_pages"})>>

SeedNotifications ==
  <<OneOrCreate("notifications", {"tenant_id", "user_id", "title"}, {"tenants", "users"})>>

SeedAudit ==
  <<Row("audit_logs", {"tenant_id", "user_id", "action", "resource_type", "resource_id"},
        {"tenants", "users"})>>

\* Faulty variant: products are seeded before the spaces they open.
StagesProductsFirst ==
  <<SeedTenant, SeedCompanies, SeedUsers, SeedCompanyMembers, SeedCourses, SeedProducts,
    SeedCommunity, SeedGamification, SeedMessaging, SeedQuiz, SeedEmail, SeedWebhooks,
    SeedLanding, SeedNotifications, SeedAudit>>

\* run(), up to its commit.
Stages ==
  <<SeedTenant, SeedCompanies, SeedUsers, SeedCompanyMembers, SeedCourses, SeedCommunity,
    SeedProducts, SeedGamification, SeedMessaging, SeedQuiz, SeedEmail, SeedWebhooks,
    SeedLanding, SeedNotifications, SeedAudit>>

UsersStage == 3   \* the place of seed_users in run()

Classes == UNION {ToSet(Stages[i]) : i \in DOMAIN Stages}
ClassOf == [t \in {c.table : c \in Classes} |-> CHOOSE c \in Classes : c.table = t]
Tables == DOMAIN ClassOf

-----------------------------------------------------------------------------
(* What the database makes of it.                                           *)

NotRunning == [pc |-> "idle", stage |-> 1, mine |-> {}, holds |-> {}, purged |-> FALSE,
               behind |-> {}, disturbed |-> FALSE]

SeedInit ==
  /\ rows = [t \in Tables |-> 0]
  /\ legacy = FALSE
  /\ domain = "free"
  /\ seeds = [s \in Seeds |-> NotRunning]
  /\ platformOps = 0

Seeding(s) == seeds[s].pc = "running"
Others(s) == {o \in Seeds \ {s} : Seeding(o)}

\* The table is there, with the columns every SELECT of its model names.
Selectable(t) == t \in Names(db) /\ {c \in LaterColumns : c[1] = t} \subseteq db.columns

PointsAt(t, u) == \E k \in TableOf(db, t).keys : k[1] = u

\* Faulty variant: no unique index is enforced.
UniqueNever(c) == FALSE

\* An index of the migrated table forbids a second row with the key.
Unique(c) == \E u \in TableOf(db, c.table).unique : u \subseteq c.key

\* A foreign key of the row must find its row, committed or written by this
\* very execution.
Refers(c, mine) ==
  \A t \in c.refs : PointsAt(c.table, t) => rows[t] > 0 \/ t \in mine

\* scalar_one_or_none raises for a second row.
Ambiguous(c) == c.key # {} /\ rows[c.table] > 1

\* The tenant, found by its slug, is given the domain that another one has.
DomainTaken(c) ==
  /\ c.table = "tenants" /\ domain = "taken"
  /\ {"custom_domain"} \in TableOf(db, "tenants").unique

\* A row that is found gets an UPDATE: so does the tenant without its domain.
Rewrites(c) == c.found = "rewritten" \/ (c.table = "tenants" /\ domain # "own")

\* The class cannot be found or created by an execution that has written mine.
Refused(c, mine) ==
  LET writes == rows[c.table] = 0 \/ c.found # "kept"
  IN  \/ ~Selectable(c.table)
      \/ Ambiguous(c)
      \/ writes /\ ~Refers(c, mine)
      \/ DomainTaken(c)

\* Faulty variant: a row is only created along with a row it points at.
TakeWithOwner(a, c) ==
  LET created == rows[c.table] = 0 /\ (c.refs = {} \/ c.refs \cap a.mine # {})
  IN  IF ~a.ok \/ Refused(c, a.mine)
        THEN [a EXCEPT !.ok = FALSE]
        ELSE [a EXCEPT !.mine = IF created THEN @ \cup {c.table} ELSE @,
                       !.holds = IF rows[c.table] > 0 /\ Rewrites(c)
                                   THEN @ \cup {c.table} ELSE @]

\* Find or create the rows of one class.
Take(a, c) ==
  IF ~a.ok \/ Refused(c, a.mine)
    THEN [a EXCEPT !.ok = FALSE]
    ELSE [a EXCEPT !.mine = IF rows[c.table] = 0 THEN @ \cup {c.table} ELSE @,
                   !.holds = IF rows[c.table] > 0 /\ Rewrites(c)
                               THEN @ \cup {c.table} ELSE @]

Stage(s) == Stages[seeds[s].stage]

Staged(s) ==
  LET after[i \in 0..Len(Stage(s))] ==
        IF i = 0 THEN [ok |-> TRUE, mine |-> seeds[s].mine, holds |-> seeds[s].holds]
        ELSE Take(after[i - 1], Stage(s)[i])
  IN  after[Len(Stage(s))]

\* seed_users deletes the accounts of the old domain.
Purges(s) == seeds[s].purged \/ (seeds[s].stage = UsersStage /\ legacy)

\* The UPDATE of a row that another execution has updated waits for its end; so
\* does the INSERT of a key that another has inserted, and then fails if that
\* one committed.
UpdateWaits(s) ==
  \/ \E c \in ToSet(Stage(s)), o \in Others(s) :
       Rewrites(c) /\ rows[c.table] > 0 /\ c.table \in seeds[o].holds
  \/ seeds[s].stage = UsersStage /\ legacy /\ \E o \in Others(s) : seeds[o].purged

Colliding(s) ==
  {o \in Others(s) : \E c \in ToSet(Stage(s)) :
     /\ c.table \in Names(db) /\ Unique(c)
     /\ rows[c.table] = 0 /\ c.table \in seeds[o].mine}

-----------------------------------------------------------------------------
(* The actions of an execution.                                             *)

BeginSeed(s) ==
  /\ seeds[s].pc = "idle"
  /\ seeds' = [o \in Seeds |->
       IF o = s THEN [NotRunning EXCEPT !.pc = "running", !.disturbed = Others(s) # {}]
       ELSE [seeds[o] EXCEPT !.disturbed = TRUE]]
  /\ UNCHANGED <<rows, legacy, domain, platformOps>>

MayRun(s) ==
  /\ Seeding(s) /\ seeds[s].stage \in DOMAIN Stages /\ seeds[s].behind = {}
  /\ ~UpdateWaits(s)

RunStage(s) ==
  LET staged == Staged(s) IN
  /\ MayRun(s) /\ Colliding(s) = {} /\ staged.ok
  /\ seeds' = [seeds EXCEPT ![s] =
       [@ EXCEPT !.stage = seeds[s].stage + 1, !.mine = staged.mine, !.holds = staged.holds,
                 !.purged = Purges(s)]]
  /\ UNCHANGED <<rows, legacy, domain, platformOps>>

\* The exception leaves run(), and the session's end rolls everything back.
Abort(s) ==
  /\ seeds' = [seeds EXCEPT ![s] = [NotRunning EXCEPT !.pc = "failed"]]
  /\ UNCHANGED <<rows, legacy, domain, platformOps>>

StageFails(s) == MayRun(s) /\ Colliding(s) = {} /\ ~Staged(s).ok /\ Abort(s)

InsertWaits(s) ==
  /\ MayRun(s)
  /\ \E o \in Colliding(s) : seeds' = [seeds EXCEPT ![s].behind = {o}]
  /\ UNCHANGED <<rows, legacy, domain, platformOps>>

InsertFails(s) ==
  Seeding(s) /\ (\E o \in seeds[s].behind : seeds[o].pc = "done") /\ Abort(s)

InsertGoesOn(s) ==
  /\ Seeding(s) /\ \E o \in seeds[s].behind : seeds[o].pc = "failed"
  /\ seeds' = [seeds EXCEPT ![s].behind = {}]
  /\ UNCHANGED <<rows, legacy, domain, platformOps>>

CommitSeed(s) ==
  /\ Seeding(s) /\ seeds[s].stage \notin DOMAIN Stages
  /\ rows' = [t \in Tables |-> IF t \in seeds[s].mine /\ rows[t] < 2 THEN rows[t] + 1
                               ELSE rows[t]]
  /\ legacy' = (legacy /\ ~seeds[s].purged)
  /\ domain' = IF "tenants" \in seeds[s].mine \cup seeds[s].holds THEN "own" ELSE domain
  /\ seeds' = [seeds EXCEPT ![s] = [NotRunning EXCEPT !.pc = "done",
                                                      !.disturbed = seeds[s].disturbed]]
  /\ UNCHANGED platformOps

SeedDies(s) == Seeding(s) /\ Abort(s)

-----------------------------------------------------------------------------
(* The platform in use, while the database is at the last revision.         *)

PlatformStep ==
  /\ db.version = LastRevision
  /\ platformOps < MaxPlatformOps
  /\ platformOps' = platformOps + 1
  /\ seeds' = [s \in Seeds |-> IF Seeding(s) THEN [seeds[s] EXCEPT !.disturbed = TRUE]
                               ELSE seeds[s]]

\* A user makes a row that the script's key matches too.
PlatformCreates(t) ==
  /\ PlatformStep
  /\ rows[t] < 2 /\ Refers(ClassOf[t], {})
  /\ Unique(ClassOf[t]) =>
       rows[t] = 0 /\ \A s \in Seeds : Seeding(s) => t \notin seeds[s].mine
  /\ rows' = [rows EXCEPT ![t] = @ + 1]
  /\ UNCHANGED <<legacy, domain>>

\* What a DELETE takes along: the rows that point at it, and so on.  At the last
\* revision the keys are those of the models; no chain of them is longer than 8.
Dependents(S) ==
  {t \in Tables : \E m \in Models, u \in S \cap ClassOf[t].refs :
     m.name = t /\ <<u, "cascade">> \in m.keys}
Cascade ==
  [t \in Tables |-> FoldLeft(LAMBDA S, i : S \cup Dependents(S), {t}, [i \in 1..8 |-> i])]

\* A DELETE waits for whoever has updated the row or inserted one that points
\* at it.
PlatformDeletes(t) ==
  /\ PlatformStep
  /\ rows[t] > 0
  /\ \A s \in Seeds : Seeding(s) =>
       /\ seeds[s].holds \cap Cascade[t] = {}
       /\ \A u \in seeds[s].mine : ClassOf[u].refs \cap Cascade[t] = {}
  /\ rows' = [u \in Tables |-> IF u \in Cascade[t] THEN 0 ELSE rows[u]]
  /\ domain' = IF "tenants" \in Cascade[t] /\ domain = "own" THEN "free" ELSE domain
  /\ UNCHANGED legacy

\* Somebody registers with an address of the old domain.
PlatformRegisters ==
  /\ PlatformStep
  /\ ~legacy /\ rows["tenants"] > 0
  /\ legacy' = TRUE
  /\ UNCHANGED <<rows, domain>>

\* The super administrator gives localhost to a tenant, another or the script's,
\* or takes it away; who holds the script's row, or has inserted it, comes first.
PlatformMovesDomain(d) ==
  /\ PlatformStep
  /\ d # domain /\ "free" \in {d, domain}
  /\ d = "own" => rows["tenants"] > 0
  /\ \A s \in Seeds : Seeding(s) => "tenants" \notin seeds[s].mine \cup seeds[s].holds
  /\ domain' = d
  /\ UNCHANGED <<rows, legacy>>

SeedNext ==
  \/ \E s \in Seeds :
       \/ BeginSeed(s) \/ RunStage(s) \/ StageFails(s) \/ InsertWaits(s) \/ InsertFails(s)
       \/ InsertGoesOn(s) \/ CommitSeed(s) \/ SeedDies(s)
  \/ \E t \in Creatable : PlatformCreates(t)
  \/ \E t \in Deletable : PlatformDeletes(t)
  \/ PlatformRegisters
  \/ \E d \in {"free", "own", "taken"} : PlatformMovesDomain(d)

-----------------------------------------------------------------------------
(* The properties.                                                          *)

\* Executions alone never make a second row of a key, although most tables have
\* no index to forbid it and every execution looks before the others commit: an
\* execution that finds nothing stops at the tenant's slug, and one that finds
\* rows stops at the first it updates (seed.py:51).
SeedsNeverDuplicate == platformOps = 0 => \A t \in Tables : rows[t] <= 1

\* An execution that nobody disturbs runs to its end on any database at the last
\* revision, whatever was deleted from it before, unless a key has two rows or
\* another tenant has the domain of the script's (seed.py:53, 69, 115).
QuietSeedsSucceed ==
  \A s \in Seeds :
    Seeding(s) /\ ~seeds[s].disturbed /\ seeds[s].stage \in DOMAIN Stages
      /\ db.version = LastRevision =>
    \/ Staged(s).ok
    \/ \E c \in Classes : Ambiguous(c)
    \/ domain = "taken"

\* And then every class of rows is there again (seed.py:1224).
QuietSeedsRestore ==
  [][\A s \in Seeds :
       Seeding(s) /\ ~seeds[s].disturbed /\ seeds'[s].pc = "done" =>
         \A t \in Tables : rows'[t] > 0]_<<db, rows, seeds>>
==============================================================================
