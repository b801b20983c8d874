# lms-api: models, checks and proofs

A TLA+ development of lms-api, a multi-tenant learning platform: a FastAPI
application on PostgreSQL and Redis, with Celery workers. The models follow the code
under `src/app`, the revisions under `src/alembic` and the script `src/scripts/seed.py`.
Every definition that stands for code is listed with its lines in `PROJECT.json`
("map"), every property with a faulty variant of the code that breaks it ("mutants").

Check a model with `tlc -config <run>.cfg <MC module>`, a proof with
`tlapm <Module>Proofs.tla`.

## 1. The system

### What everything runs on

* **Requests.** FastAPI handles requests concurrently, interleaved at every
  `await` and spread over processes. `get_db` (core/database.py:26) gives each
  one its own SQLAlchemy session. `expire_on_commit` is off, so a session goes
  on deciding by the copy it first loaded; on commit it writes the attributes
  that changed, as absolute values.
* **PostgreSQL** runs READ COMMITTED: between a SELECT and the next statement
  anybody may commit. Only unique indexes and foreign keys stop a race.
* **Celery** takes messages from Redis and acknowledges them when they are
  *taken*. A task that raises is sent again with a countdown, at most
  `max_retries` (3) times; a worker that dies takes its message with it. Several
  worker processes run, and messages overtake each other because of countdowns.
* **Redis** also holds sessions, the tenant cache, the webhook test mode,
  transcription jobs, presence, and publish/subscribe channels.

In every model a step is therefore one transaction, or one SELECT or Redis
command whose answer is used by a later one. Nothing else is atomic.

### Inventory

| Component | State | Operations | Talks to | What is hard |
|---|---|---|---|---|
| Payment webhooks and enrollments (routers/webhooks, tasks/webhooks, services/webhook, services/enrollment) | webhook_logs, users, enrollments, products.gateway_ids, test mode in Redis | receive, dispatch, process, retry, replay, every administrator operation | gateways, queue, e-mail | races between tasks, retries and administrators; refunds that overtake purchases; failure between transactions |
| Quiz battles (services/quiz) | quiz_battles, quiz_battle_answers | create, list, view, submit | award_xp_task | overlapping submissions by stale copies; lazy expiry |
| Experience points, levels, badges (services/gamification, tasks/gamification) | xp_events, user_levels, user_badges, badges, user_streaks | award, evaluate badges, streaks, goals, badge administration | each other, through the queue | read-modify-write totals; unique-index races; a circle of tasks |
| Community (services/community) | posts, comments, likes with counters, spaces, reports | post, comment, like, report, moderate | enrollments, language model | counters; access by several enrollments |
| Accounts and sessions (services/auth, core/security) | users; refresh and magic-link keys in Redis | register, log in, refresh, log out, magic link, reset | e-mail | read-then-delete of tokens |
| Tenant resolution (core/middleware, core/dependencies, routers/admin/tenant, services/superadmin) | tenants; `tenant:host:*` in Redis | resolve, update branding and settings, superadmin update | every request | stale cache |
| Companies (services/company, public, manager) | companies, members, users.company_id, goals | invite, accept, import, update, remove | accounts, e-mail | invitations used again; failing rows of an import |
| Courses, progress, drip (services/course, drip, admin_course, product) | courses, modules, lessons, progress, products | browse, report progress, edit | enrollments | two drip rules; lost progress |
| Transcription (services/internal, tasks/transcription) | lessons' transcript and summary; pending jobs in Redis | submit, callback, summarise | AssemblyAI, Claude | a callback that overtakes its submission |
| E-mail marketing (services/email, tasks/email) | campaigns, sends | edit, send in batches | Resend | sending twice, failing half-way |
| Notifications and push (services/notification, tasks/notification, websockets) | notifications, push subscriptions | broadcast, publish, push, subscribe, prune, mark read | Redis, browsers | retries from the start; two rows of one endpoint |
| Messaging and presence (services/message, websockets) | conversations, messages; presence keys | converse, connect, heartbeat | Redis | two commits per conversation; commit before publish |
| Schema and migrations (alembic, models) | the catalog of PostgreSQL, the recorded revision | upgrade, downgrade | everything that queries | revisions that are refused; what a downgrade leaves; runs that overlap |
| Demonstration data (scripts/seed) | rows of 30 tables | find or create, stage by stage | migrations, the platform's users | running it again, beside itself or beside changes |
| Others | catalog, landing pages, menus, uploads, notes, audit log, hall of fame, external clients, start-up | | | single statements or pure I/O |

`PROJECT.json` lists the hazards found in them, each at its line and with the
properties that guard it.

What makes each component correct, in a sentence:

* webhooks: access follows the gateway's announcements and the administrators,
  and nothing else; no purchase is lost to a race; tasks end;
* battles: the stored result is the result of the answers given, once, for ever;
* gamification: totals equal the events, badges are rewarded once, tasks end;
* community: counters equal their rows, what is hidden stays hidden; companies: who
  accepts an invitation is a member, also again after a removal; every row of an
  import is accounted for;
* schema and seeds: the recorded revision tells the tables, the last one serves the
  models, and seeding again duplicates and loses nothing;
* lessons: what was watched stays watched, what opens is what the rule opens; the
  transcript, its search vector and its summary are of one recording;
* sessions: a token is good once, and not after a logout; tenant cache: an update is
  seen within the time to live; campaigns and broadcasts: everybody, nobody twice for
  one row; subscriptions and conversations: as the last request left them, whole.

## 2. Modules

| Module | What it is |
|---|---|
| `AccessLifecycle` | abstract: what payments and administrators may do to a buyer's access |
| `EnrollmentPipeline` | webhooks, workers, replays, administrators; implements `AccessLifecycle` |
| `EnrollmentProofs` | its types, its safety invariants and the refinement of `AccessLifecycle`, proved |
| `QuizBattle`, `QuizBattleProofs` | one battle between two users, with proofs |
| `Gamification`, `GamificationProofs` | points, level and badges of one user, with proofs |
| `Community`, `CommunityProofs` | one post: likes, comments, moderation, access; with proofs |
| `CompanyMembership`, `CompanyMembershipProofs` | the members of one company: import, invitation, removal; with proofs |
| `DatabaseSchema`, `SchemaModels` | the 17 revisions as DDL, the tables of the ORM |
| `SchemaMigrations` | runs of alembic over the chain |
| `Seeding` | executions of the seed script, extends `SchemaMigrations` |
| `Deployment`, `DeploymentProofs` | composes both on one database; proofs about the runs of alembic and the script |
| `CourseAccess`, `LessonTranscription`, `LessonProofs` | one lesson: who may see it, what was watched, its transcript and summary; with proofs |
| `Sessions`, `TenantCache`, `Campaigns` | one account's tokens and links; the cache of hosts; one campaign |
| `Broadcasts`, `PushSubscriptions`, `Conversations` | a broadcast; one endpoint; conversations and messages |
| `PlatformProofs` | proofs about the six |
| `MC...` | values for the constants of small instances; `MCServices` puts the eight service modules side by side |

The operators whose comment begins *Faulty variant* are not part of a model. Each
stands before the definition it distorts, the way a plausible bug would, and
shows that a property is sensitive to that definition.

### EnrollmentPipeline

State: the rows of `users` (by e-mail), `products.gateway_ids` (`catalog`), the
`enrollments` table (`enrollment`, with who created the row), each webhook log
(`stage`, `event`, `processed`, `error`), and each Celery task (`msg`, `pc`,
`retries` and what it read). A task is named after the log or the replay request
that sends it.

* `ReceiveWebhook`, `DispatchWebhook`, `ReceiverFails`: `receive_webhook`, cut
  where the log is committed (line 113): the broker is asked afterwards.
* `StartTask`, `ProductFound`/`ProductMissing`/`ProductAmbiguous`, `FindUser`,
  `CreateUser`, `Revoke`, `ReadEnrollment`, `Reactivate`, `InsertEnrollment`:
  `_process_webhook`, a commit or a decisive SELECT each. `CreateUser` and
  `InsertEnrollment` end in `Retry` when somebody else's row violates the unique
  constraint.
* `DatabaseFault` and `WorkerCrash` strike at every point of a task. A crash
  ends the task for good; a fault goes through the code's `except` clause.
* `AdminCreate` ... `AdminBulkStatus`: services/enrollment.py. `AdminLoad` and
  `AdminCommit` are the two halves of `update_enrollment`, which works on a
  copy. `AdminBulkStatus` writes the *name of the action* ("suspend"), as the
  code does, and PostgreSQL refuses what is no value of the enum (`Stored`).
* `ReplayWebhook` sends the arguments the code sends: no product, no buyer.

`welcome`, `created`, `latest`, `disturbed` and `everMapped` are history: no
guard reads them.

### QuizBattle

State: the battle's row, whether 24 hours have passed (`due`), the answers, and
per request its control point and the status in *its session* (`copy`).
`submit_answer` is cut at each SELECT and commit: `Submit` (load, maybe
expire), `CheckAnswered`, `InsertAnswer`, `CountAnswers`, `CompleteBattle`,
`SendAward`; `View` and `WriteExpired` are the other readers. Everything an ORM
session does by a stale copy is possible: completed overwritten by expired or
by active, two answers of one player, a result computed twice.

### Gamification

State: the queue as a count per message, each worker's control point and local
values (`work`), the `user_levels` row, the sum of the events (`earned`), the
user's badges and the badges' rows. `ReadLevel`/`CommitAward`/`AnnounceLevel` are
`award_xp_task`; `ListBadges`/`CheckBadge`/`CommitBadges`/`RewardBadge` are
`evaluate_badges_task`. `Updated` writes total and level as the ORM does: as
absolute values, each only if it differs from the session's copy.

### Community

State: one post's row, its likes, comments and reports, who is entitled to the
space by how many enrollments, who is suspended, and per request its control
point and the post as *its session* loaded it. `Begin`, `CheckAccess`,
`FindLike` and `Commit` cut `like_post`, `unlike_post` and `create_comment` at
their SELECTs. `Commit` writes one counter as the ORM does, an absolute value
computed from the copy, and is refused as a whole when the post is gone or the
unique index has the like already (`Accepted`). Likes are named by the requests that
made them: `FindLike` remembers the row it read, and an unlike deletes that row and no
later one; if another request has deleted it, the DELETE matches nothing and the
counter falls all the same. `Enters` is the query of
`user_has_space_access`: it succeeds for exactly one row.

### CompanyMembership

State: whether the company exists, the users (by e-mail), whose `company_id` it
is, the rows of `company_members`, who holds an invitation that has not expired,
and per job its control point, the row of its file and what it will answer. A
bulk import, an invitation and an acceptance are jobs over a file; the last two
have one row. `Begin` to `AcceptInvite` are their SELECTs and commits, shared
where the code repeats itself.

* An import catches what a row raises and goes on, but does not roll back: after
  a refused INSERT (`InsertMember`) its session takes no statement until the end
  (`healthy`), and the rows that follow are errors. A value that does not fit its
  column does the same (`ValueRefused`) and counts as a disturbance.
* It reads the columns of a row *before* it begins to catch: a row with missing
  columns (`Short`) ends the import with an error (`FindUser`), and what earlier rows
  committed stays. A row without an e-mail (`Blank`) is an error of the answer.
* `register_user` does roll back when it loses the race for an e-mail (`Taken`),
  which expires the company the import holds (`fresh`): its later welcomes, which
  name the company, fail and are only logged (`SendWelcome`).
* An acceptance writes the member and the user's `company_id` in one transaction.
  A `company_id` that was the company's already is not written (`same`), so a
  deleted company goes unnoticed if the member was seen, too.
* `RemoveMember` leaves `company_id` and invitations as they are, and imports
  and invitations never set `company_id`: only an acceptance does.

`maker`, `joined`, `accepted` and `disturbed` are history.

### DatabaseSchema, SchemaModels, SchemaMigrations

A table is its name, its foreign keys with what a DELETE does to them, the enum types
its CREATE makes and its unique keys. `Chain` gives every revision's `upgrade` and
`downgrade` as a sequence of such statements, `Accepts` and `Effect` what PostgreSQL
refuses and does; `Models` is what the ORM declares, file by file. `SchemaMigrations`
runs the chain: a run reads the recorded revision (`BeginRun`), executes revisions in
one transaction (`RunRevision`, alembic/env.py:45) on its own view of the database,
and commits. The UPDATE of `alembic_version` locks out a second run and, when it finds
another revision than it read, fails (`RevisionRefused`), as does a refused statement;
a lost connection rolls back. A runner that has ended may run again. The chain is a
constant, `Revisions`, whose assumptions say what the rest relies on; TLC evaluates
them on `Chain`.

### Seeding, Deployment

All rows of a table that the script looks up are one class; `rows` counts the copies
of it, and `Stages` lists the fifteen `seed_` functions with each class's lookup key,
its references and whether a found row is rewritten. An execution reads committed
rows, keeps its own (`mine`), waits where a unique index makes it wait for another
execution's uncommitted row, fails where the index or `scalar_one_or_none` fails, and
commits once, at the end. The tenant is looked up by its slug but gets a custom domain,
which is unique as well: `domain` says whether the script's tenant, another or nobody
has it, `DomainTaken` refuses the stage, and a tenant without it is updated, hence
locked, like a row that is rewritten (`Rewrites`). The super administrator gives and
takes the domain (`PlatformMovesDomain`). Beside it users create and delete rows, with the foreign
keys' cascades. `Deployment` puts revisions and seeds on one database, in the order
the repository's README gives; dropping a table drops its rows.

### CourseAccess

State: the lesson's drip rule, the enrollments and what their products hold, the
progress on the lesson that has to be completed first, and per request its control
point and what it read. A view is cut at its SELECTs: `OpenLesson`, `FindProducts`,
`MatchProduct` (*one* of the products that hold the course, in no order),
`ReadEnrollment` with `CheckDrip`, `CheckPrerequisite`. A report reads, merges in
Python (`Merged`) and writes the columns that changed (`Stored`). `OpenByRule` and
`OpenByEveryRule` state services/drip.py, which nothing in the program calls, so
`AnswersFollowTheRules` compares the two implementations of one rule.

### LessonTranscription

State: which job the text, the search vector and the summary are of, whose recordings
have no words (the constant `Silent`), the entry of the pending hash, and the control points of submissions, callbacks and summaries. A
callback is cut at every await (`FindLesson`, `LoadLesson`, `CommitTranscript`,
`ClearPending`, `SendSummary`) and may fail between any two; services repeat and
overlap callbacks. `CommitTranscript` is two statements: the ORM writes the text only
if it differs from the session's copy, the vector is always written (`Indexed`). The
summary's task leaves a text without words alone (`WorthSummarizing`), and with it the
summary there was.

### Sessions, TenantCache

`Sessions` cuts each request where it reads or deletes a key: `BeginRefresh`,
`FindUser`, `RevokeToken`, `CreateToken`; `BeginVerify`, `DeleteLink`; any of them can
fail in between, keys expire, users are suspended. `session` says which login a
token descends from. In `TenantCache` a reader misses, selects the row
(`SelectTenant`) and stores it later (`StoreTenant`); administrators commit, refresh
and invalidate the keys of the row as it is *now* (`KeysOf`); the platform's update
does not invalidate; `Tick` ages the entries. Rows carry a stamp instead of their
contents.

### Campaigns, Broadcasts

`send_campaign` writes a batch of rows, commits (`CommitBatch`) and hands the batch to
a worker (`DispatchBatch`), and marks the campaign at the end; a worker mails one row
after the other, and an exception is caught by the task, which passes over that
address and goes on (`AfterMailFails`). A broadcast commits a row per user at once and then sends a *task
per row*, each of which addresses every user of the tenant and, when it fails, starts
again with the first (`AfterNoticeFails`). What Redis publishes leaves no state.

### PushSubscriptions, Conversations

A request on an endpoint is cut between its SELECT (`Begin`) and its write; no unique
index exists, so two of them leave two rows, after which `scalar_one_or_none` raises
for every later request. A push task works on rows it read before and prunes those
the push service calls gone. A conversation is committed before its participants
(`CommitConversation`, `CommitParticipants`), who are one transaction: one unknown
identifier and there are none. A message is committed before the others are looked up
and told.

### How they meet

Modules are composed where their state meets: enrollments with webhooks and
administrators in `EnrollmentPipeline`, revisions and seeds in `Deployment`. The
others share no row and no key. A quiz battle meets gamification in a single message,
`SendAward`/`Dispatch`: `QuizBattle` says when and for whom it is sent, `Gamification`
what becomes of it however often it is sent. That message names an action
(`quiz_battle_won`) that the enum `xp_action_type` does not have, so today its award is
refused and given up; it is one of `Unlisted`. `CourseAccess` reads the enrollments
that `EnrollmentPipeline` writes; its `SetEnrollment` is any of those writes.

## 3. Runs

| Run | Question | Instance |
|---|---|---|
| `enrollment_safety` | do the safety properties hold, and is `AccessLifecycle` implemented? | 1 buyer, 1 product, 2 webhooks of any of six kinds, 1 replay, 1 administrator operation |
| `enrollment_liveness` | does every queued task end? | 2 products that may share a gateway identifier, purchases and refunds, 1 fault |
| `enrollment_spaced` | does the last event decide, when tasks do not overlap? | 3 payment events |
| `enrollment_refund_race` | ... and when they do? (violated) | a purchase and a refund |
| `enrollment_replay` | does a replay recover a lost purchase? (violated) | 1 webhook, 1 replay |
| `quiz_battle` | is the result right, stable and rewarded? | 2 users, 3 requests, scores 0..2 |
| `gamification` | do totals, badges and retries come out right, and does the circle end? | 2 workers, 3 sources (one with an unknown action), 1 badge, 1 fault |
| `community` | are counters exact without overlap, and does moderation stick? | a student and a manager, 3 requests, one product behind the space |
| `community_entitled` | does every entitled user enter? (violated) | 2 products behind the space |
| `companies` | is every row accounted for, and does membership follow acceptance, removal and deletion? | 2 users, 3 jobs, files of two users, of a user, a blank and the user again, and of a user, an unreadable row and another user |
| `deployment` | does the recorded revision tell the tables, does the last serve the models, and can one seed again? | 2 runners of alembic, again and again, to 3 goals from an empty database or the earlier Prisma one, 3 executions of the script, 2 operations of users and administrators |
| `services` | do the nine parts below keep their promises? | each on its own, see below |

**Bounds and why they suffice.** `MaxAdminOps` and `MaxFaults` bound what
administrators and the environment may do; `Logs`, `Replays`, `Requests`,
`Sources`, `Jobs` are the calls there are, `Files` what may be imported,
`MaxProducts` the products that open a space. Rows of different buyers, battles or
users never meet, so one of each shows every conflict over one row; in an import
they do meet, through the session they share, so `companies` has two users, a
file that repeats one across a blank row, and one that breaks off between two. Two webhooks
and an administrator give all pairs of writers, and one replay the third task
that retries need (`ConcurrencyNeverExhaustsRetries` bounds retries by two, so
a third racer matters); three quiz requests give both final answers plus a double
submission or a view. In `gamification`, thresholds 2, 3, 4 and awards of one and
two points make the user pass a level before, with and after the badge's
`min_xp` of 3, and the badge's own reward passes another level. The proofs then
remove the bounds.

`deployment`: the goals 6, 8 and 17 are the last revision and two below it: going down to
8 works and leaves types behind, going on to 6 is refused; two runners overlap and go up
and down any number of times, three executions give a pair that overlaps and one that
comes afterwards. In `services` the variable `part` picks what is checked: views (`access`) and reports
(`progress`) of a lesson, `transcript`, `sessions`, `cache`, `campaign`, `broadcast`,
`push`, `messages`. They share no row and no key, so every interleaving of two of them
is made of their own behaviours, and the parts that are not checked stand still.
Two products, two reports and one view show a product picked against another; two
submissions with a retry three jobs, a silent one between two that have words, and two
deliveries a pair of callbacks that overlap, one of each of two jobs, or a repetition;
two requests with three tokens a refresh beside a refresh or a logout, and one
more afterwards; two ticks of life in four of time an entry that expires and is
replaced; an audience of three in batches of two a last, shorter batch, sent by two
calls to two workers; two users, one of whom may register late, and one retry a
broadcast that starts over; two requests, one push task and three rows a doubled
endpoint and what is left of it; two users, an unknown one, two conversations and two
messages every failure between the commits. `MaxRetries`, `NoticeRetries` and
`PushRetries` are 1 where the code has 3, 3 and 2: the last retry and the one before
are what differs, and where the number matters the proofs take any.

Symmetry is used on names that nothing orders, in runs of safety and action
properties. Deadlock is not checked: gateways, users and administrators may stop, and
the histories are finite.

**Fairness.** `FairSpec` of `EnrollmentPipeline` is weak fairness of each task's
own steps and that of `Gamification` weak fairness of each worker's steps and of
taking a message: Celery workers run until they are stopped and a countdown
passes. Nothing is assumed of users, gateways, administrators, faults or crashes,
and a crash may end any task.

**Violations.** Three runs show the code doing other than what the repository
says; `PROJECT.json` quotes the lines under "findings".

1. A refund executed while its purchase is queued, retried or between its SELECT
   and its write leaves access open (tasks/webhooks.py:164, PRD.md:593).
2. A replay runs without the original arguments (services/webhook.py:113).
3. A user enrolled in two products that open one space is shut out of it
   (services/community.py:39, ROADMAP.md:24).

Seen on the way, not the subject of a run:

* *Enrollments.* The bulk suspend and cancel write values that the enum lacks and fail
  (services/enrollment.py:226; PRD.md:547 lists bulk suspension).
* *Battles, points.* An expired battle takes answers again once the expiry is stored
  (services/quiz.py:63, PRD.md:903). Overlapping awards make a user's total fall
  (xp.py:121, PRD.md:825), and an award whose `delay` fails after its commit is made
  twice (tasks/gamification.py:46; .specs/features/backend-mvp/tasks.md:1110 calls all
  tasks idempotent). `update_streak` subtracts a timestamp from a date (streaks.py:33)
  and fails from a user's second day on.
* *Community.* moderate_content_task is dispatched by nothing, and its report has no
  reporter_id, which the column requires (tasks/moderation.py:48, models/community.py:141);
  nobody subscribes to the `user:suspend` channel (admin_community.py:43), and nothing
  lifts a suspension; likes_count drifts when likes overlap (services/community.py:230), so
  `SerialCounts` is stated for requests that do not.
* *Companies.* A row of an import with missing columns ends it with an internal error
  after the rows before it were committed (services/company.py:159), and its answer,
  with the numbers and the errors so far, is lost.
* *Workers.* The worker of docker-compose.yml imports `app.tasks` only, whose `__init__`
  imports no task. log_admin_action is called by nothing.
* *Migrations.* The downgrade of 177afad4a430 creates a foreign key that exists and
  always fails, so `alembic downgrade -1` never gets below it; that of dab2aa28a1dd fails,
  too.
  Downgrades leave the enum types behind, so the next upgrade over the same revisions
  is refused: `OnlyLeftTypesBlockUpgrades` says that nothing else is.
* *Seeds.* A second execution sets likes_count and comments_count back to 0 and writes
  the transcript's text beside its old search vector; total_xp is not the sum of the
  seeded events; one more row that matches a lookup makes every later execution raise,
  and so does another tenant with the domain localhost (seed.py:69, models/tenant.py:17).
* *Lessons.* A locked lesson is answered with its content_url and embed_url;
  services/drip.py is called by nothing; submit_transcription's payload names no
  webhook_url, so a callback depends on the service's own settings; the second of two
  overlapping jobs is refused when the first one's callback clears the entry by lesson
  (services/internal.py:66). A silent recording replaces the transcript and leaves the
  summary of the one before (tasks/transcription.py:60).
* *Sessions, tenants.* Links open a session for a suspended user, passwords do not;
  a password reset ends no session. tenants.subdomain has no unique index: two rows
  make every request to that host fail. Settings invalidate the cache, the platform's
  update does not.
* *Outbound.* send_campaign does not look at the campaign's status and can be called
  twice; the batch task swallows its exceptions, so its max_retries is unused. With N
  users a broadcast sends N tasks of N publications and pushes each, most with another
  user's notification id; `redis` may be unbound in the task's `finally`. last_read_at
  is written by nothing, so unread counts never fall, and a message does not touch
  conversations.updated_at, by which conversations are ordered.

## 4. Proofs

For every value of the constants that satisfies the named assumptions, TLAPS
proves every safety property of the passing runs, invariants and action properties,
and the refinement; only the two liveness properties stay with TLC. Each argument is an
inductive invariant found with TLC's help. Some properties are proved and left out of the runs: the type
invariants, `OneWelcomePerRow`, `CreatedCounts`, `CommentsNeverOvercounted`, `NoOrphans`,
`BadgesAreEarned`, `DeletedIsGone`.

* **Types** (`TypeCorrect`, one per module). A type invariant alone is not
  inductive: what a task may dereference depends on where it is. `TaskShape`,
  `LogShape` (enrollment), `RequestShape` (quiz) and `WorkShape` (gamification)
  tie local values to control points.
* **`RacesEnd`**: races cost a task two retries at most. `RaceInv` charges
  each lost race to a row that did not exist before: one retry for the user's
  row, one for the enrollment's, and rows do not disappear while nothing has
  `disturbed` the pipeline. It needs `QueuedOnce`, that no task is queued twice.
* **`RowsEarned`**: `EarnedInv` carries the purchase's origin with the task, from
  the log to the row; what is announced and what was linked only grow (`Grows`).
* **`WelcomedOnce`**: the counter of mails is raised with the INSERT only.
* **`AccessAsAnnounced`**: the pipeline implements `AccessLifecycle`. The abstract state
  is what has been announced and how each buyer stands (`Given`). The crux is
  `RepeatsInv`: a task that names a product and a buyer repeats, word for word, a webhook
  that was dispatched; it survives because a replay names neither and an event never
  changes once it is logged (`RecordedStep`). Each
  step that writes no status is then an announcement or a stutter, and those that do open
  or close what was announced or administer.
* **`LatestWinsIfSpaced`** (`SpacedInv`, for `SpacedSpec`: no two tasks in flight): a
  dispatched call is being worked on, or the row already says what it says
  (`LatestApplied`). `UneventfulBefore` lets the invariant be claimed only of pasts in which
  nothing failed and nobody intervened: such a past never had another kind of step.
* **`SalesKept`**: `SaleInv` says that a task beyond its SELECT stands before
  its write or after a row was created, deleted rows included.
* **`ResultFollows`, `RewardForWinner`, `WinnerStays`** (quiz): `ResultInv` names
  two answers, one of each player, *once*: either nobody has decided yet, or
  every verdict, the stored winner and every reward follow from those two.
  `TwoAnswers` shows why all verdicts agree: a request decides only when it counts
  exactly two rows, rows are never deleted, so all that decide saw the same two.
* **`CrossingCompletes`** (`CrossingInv`): no memory of who answered last is needed. Both
  answers are in and nothing is decided: then some request has yet to count, and it will
  find both (`BothAnswersSeen`: of orderly requests there are no more answers than two).
* **`PointsAreEarned`, `PointsAddUp`**: a session's copy is not above the events
  (`AwardInv`), and is the current row as long as no two awards overlapped.
* **`RewardedOnce`, `BadgesEarned`** (`BadgeInv`): at most one worker is past the
  INSERT of a given badge, and a badge is rewarded by it or already has been; a
  deleted badge cannot be inserted again.
* **`RacesAreHarmless`**: without faults an award is retried for the first-row
  race only, and afterwards there is a row, so a listed award retries once.

* **`CountsExact`, `CommentsBounded`** (`CountInv`): without overlap the one
  request under way holds the row itself; with overlap no copy counts more
  comments than there are, because comments go only with their post. That an
  unlike takes exactly one like away needs `OneLikeEach`, the unique index's promise.
* **`NothingDangles`, `HiddenStaysHidden`**: a commit needs the post's row, and
  writes one counter of it and nothing else.
* **`EveryRowAccounted`** (`RowsInv`): of an import under way, every row before the
  current one is an error or its user has been a member; `RowDone` and `RowFailed`
  are the only ways on, and the first is taken only beside a member's row.
* **`CountsAreRight`** (`CountInv`): `created` grows with the INSERT that makes the
  job the account's maker, and by one, since the e-mail was free.
* **`NobodyInADeletedCompany`**: a member's row and a changed
  `company_id` need the company (foreign keys), and an unchanged one is not written.

* **`SerialSucceeds`, `AcceptanceJoins`** (`SerialInv`): as long as nothing overlapped, one
  job at most is under way; what it read still holds when it acts on it, its session is
  sound, and only the account of its present row may still wait for its mail
  (`Undisturbed`, `Pending`). So no row is refused, an import stops at a row that cannot
  be read and nowhere else, with everybody it made an account for written to, and an accepted user is a member.
* **`VersionTells`, `LeftTypesBlock`** (`MigrationsInv`): what is committed, and what a run
  has written, is *at* its revision (`IsAt`): it has the tables, keys and columns of a
  database that only upgrades have touched, and at least its types and their values.
  Revisions are executed on databases that are alike but for these, so the crux is
  `ExecutionsAlike`: statements that run where types were left also run where none
  were, unless they add a value to such a type, and leave the two databases alike.
  `Execute`, `Upgraded` and `Staged` are recursive functions; that they exist and obey
  their equations is shown here by induction over sets of numbers (`SetInduction`, from
  the well-foundedness of `<`, which needs no operator as a parameter). A second run that
  commits first is harmless because an UPDATE that finds another revision than its run
  read is refused.
* **`HeadServes`** (`MigrationsInv`): if what the upgrades alone lead to serves the models,
  so does every database at the last revision. The hypothesis, `UpgradesServe`, is about
  one database, which the run reaches before any downgrade.
* **`QuietRestores`** (`RestoreInv`): an execution that nobody disturbs has every class of
  the stages behind it, committed or among its own rows (`Furnished`): a stage that
  succeeds leaves each of its classes `Settled`, and the rows of an undisturbed execution
  only become more. At its commit all fifteen stages are behind it, and their classes are
  all the tables (`TablesSeeded`).
* **`QuietSucceeds`** (`RestoreInv`, `HeadServes`): every table of the script is one of the
  models (`TablesModelled`), and what a row points at comes before it in the script
  (`RefersBefore`), so it is furnished; what remains is a key with two rows, or another
  tenant with the script's domain.
* **`SeedsOnce`** (`OnceInv`, `KeepInv`): while there is no tenant, whoever has passed the
  first stage holds the tenant's slug and nobody else gets in (`SlugCollides`); while
  there is one, its companies are there, whoever has passed the second stage has updated
  them and nobody else gets past (`CompanyBlocks`). So one execution at a time writes what
  no index protects, and it writes only what is not there. That the tenant is never there
  without its menus and companies needs that no migration drops these two tables once
  both exist, in what is committed or in a run's own work (`KeepInv`).

* **`SecondsKept`, `CompletedForGood`** (`CourseAccess`): a report's copy is never above
  what was reported, and is the row itself as long as reports do not overlap; `Merged`
  only raises, and an UPDATE names a completion only to set it.
* **`AnswersByTheRules`** (`ViewInv`, `Follows`): a view that nobody disturbed has read
  what still holds: its products are the entitling ones, its lesson is the row, and what
  it calls open one of the enrollments opens.
* **`SearchFindsTheText`** (`IndexInv`): text and vector are written by one transaction,
  and are of the same job unless the session skipped the text as unchanged, which takes
  a copy that is the callback's own job.
* **`JobsStayPending`** (`PendingInv`): jobs are numbered as they are recorded, and the
  last entry goes only with a callback that stored it or was entangled with its recording.
* **`SummaryIsCurrent`** (`SummaryInv`, `Due`): between a transcript and its summary there
  is always a callback that has yet to send the task, or a task that has yet to read or
  holds the text, unless the text has no words or a fault took the last one away.
* **`SpentOnce`** (`LoginInv`, `LinkInv`): of a login's tokens one at most is live or held
  by a request that is past its deletion; a used link is gone or held by one request.
* **`StaleAtMostTtl`** (`StampsGrow`, `NotReplaced`, `Recent`): an entry's age and its time
  left add up; what a reader holds was current a tick ago. **`InvalidationShows`**
  (`Shown`) adds who holds which row at the commit.
* **`SentIsWhole`, `MailedAtMostOnce`** (`CallsHandOver`, `InOnePlace`): what a call has
  done it has handed over, rows and all; a row is in one message or with one worker, and
  leaves it when it is mailed.
* **`EverybodyReached`** (`RowsThenTasks`, `EachTryReaches`): the rows of a broadcast are
  all there before its first task, so a task that lists the users lists everybody with a
  row; per try it reaches each of them once at most.
* **`RowsFollowRequests`** (`FoundIsSo`, `PrunesGone`): without a crossing the one request
  under way knows the rows, whatever tasks prune meanwhile, because they prune only what
  is gone.
* **`WholeConversations`** (`FoundedAtOnce`, `PostedInside`): participants come in one step
  and stay, so whoever sends a message is among all of them.

Assumptions: bounds are natural numbers, identifiers are disjoint where the code's
are (`IdsAssumption`, `SourcesAssumption`, `NamesAssumption`, `ConversationAssumption`),
files are not empty and hold users, blanks and unreadable rows (`FilesAssumption`: an
empty import answers at once and does nothing), silent recordings are of some of the jobs
(`TranscriptionAssumption`), batches are not empty, `None` is no identifier. The chain
of revisions is any of which `RevisionsAssumption`, `UpgradesAssumption` and
`DowngradesAssumption` hold: its upgrades run in order, the first on every fresh database,
and a downgrade that runs undoes its upgrade but for the types and their values.
`SlugAssumption` and `SetupAssumption` are used by `SeedsOnce`: the tenants' slugs are
unique wherever that table exists, and where menus and companies both exist no revision
drops either. The latter holds of this chain because the downgrade of 177afad4a430, which
would drop the menus, always fails (section 3): whoever repairs it has to look at the
script again. TLC evaluates the assumptions in the runs of their modules, those about
revisions on the 17 of the repository.

**Only model-checked.** `TasksTerminate` and `ChainEnds`: liveness under fairness is
beyond the prover. `UpgradesServe`, the hypothesis of `HeadServes` and `QuietSucceeds`,
compares what one given chain computes with one given list of tables: `HeadServesModels`
is violated if it fails.

## 5. Not modelled

Each component without a model is listed with its reason in `PROJECT.json`: the parsers
of the gateways' payloads are pure functions whose result is an input of
`EnrollmentPipeline`; catalog, landing pages, menus, uploads, notes, audit log and hall of
fame are single statements; clients of external services and start-up keep no state.

Within the modelled parts these are left out: `expires_at`, `attempts` and `event_type` of
the payment tables (written, never read by a decision); the text of payloads, mails,
questions and messages; leaderboards and other listings (reads only); changes of a
badge's conditions; a company's fields, its goals and reports; streaks and goals, which
nothing dispatches; courses' and modules' own columns; templates, audiences and
automations; the tracking pixel; access tokens, which no state follows; presence, one
Redis key per user that is set for 60 seconds and renewed every 30; what WebSockets
deliver, for publish/subscribe keeps nothing.

Next: abstract specifications of sessions and of one versioned database, with refinement
proofs, and the presence keys beside the sockets of several processes.
