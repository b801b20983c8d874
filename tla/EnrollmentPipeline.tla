------------------------- MODULE EnrollmentPipeline -------------------------
(***************************************************************************)
(* The payment pipeline of one tenant: a gateway's webhook is logged and   *)
(* queued by the API (app/routers/webhooks.py), a Celery worker turns the  *)
(* queued task into a user and an enrollment (app/tasks/webhooks.py), and  *)
(* administrators edit the same rows (app/services/enrollment.py), replay  *)
(* logs and switch test mode (app/services/webhook.py).                    *)
(*                                                                         *)
(* An action is one database transaction, or one SELECT whose answer the   *)
(* code acts on in a later transaction: PostgreSQL runs READ COMMITTED, so *)
(* every such gap is a place where another task or request may run.        *)
(*                                                                         *)
(* Abstracted: WebhookLog.attempts and event_type and Enrollment.expires_at*)
(* (written, never read by a decision), the text of payloads and messages, *)
(* and every e-mail but the access-granted one.                            *)
(***************************************************************************)
EXTENDS Naturals, FiniteSets

CONSTANTS
  Buyers,          \* e-mail addresses of buyers, the key of the users table
  Products,        \* rows of the products table
  Gateways,        \* product identifiers at the payment gateway
  Events,          \* the webhook calls the gateways make (see EventType)
  Logs,            \* primary keys of webhook_logs
  Replays,         \* identifiers of replay requests
  None,            \* absent value
  WorkerTestMode,  \* settings.webhook_test_mode of the workers
  MaxAdminOps,     \* bound: administrator operations in a behaviour
  MaxFaults        \* bound: database faults in a behaviour

EnrollmentStatus == {"active", "expired", "suspended", "cancelled", "refunded"}
EventStatus == {"active", "refunded", "cancelled"}

\* What a parser of app/integrations/webhooks makes of a call: the signature
\* verdict, and the normalised status, product identifier and buyer, each
\* possibly absent.  A parser that raises is a call with valid = FALSE.
EventType ==
  [valid : BOOLEAN, status : EventStatus \cup {None},
   gw : Gateways \cup {None}, buyer : Buyers \cup {None}]

ASSUME EventsAssumption == Events \subseteq EventType
ASSUME NoneAssumption ==
  /\ None \notin Buyers \cup Products \cup Gateways \cup Logs
  /\ None \notin EventStatus
  /\ None \notin Events
ASSUME IdsAssumption == Logs \cap Replays = {}
ASSUME BoundsAssumption ==
  /\ WorkerTestMode \in BOOLEAN
  /\ MaxAdminOps \in Nat
  /\ MaxFaults \in Nat

\* Faulty variant: one retry only.
OneRetry == 1

\* len(BACKOFF_DELAYS), also the task's max_retries.
MaxRetries == 3

\* A log dispatches at most one task; a replay request dispatches one.
Tasks == Logs \cup Replays
Pairs == Buyers \X Products

VARIABLES
  users,       \* buyers that have a users row
  catalog,     \* [Products -> Gateways \cup {None}]: products.gateway_ids
  enrollment,  \* [Pairs -> Row]: the enrollments table
  stage,       \* [Logs -> how far receive_webhook got with the row]
  event,       \* [Logs -> Events \cup {None}]: the call that was logged
  processed,   \* [Logs -> BOOLEAN]: webhook_logs.processed
  error,       \* [Logs -> BOOLEAN]: webhook_logs.error_message is set
  msg,         \* [Tasks -> Message]: the arguments of the Celery task
  pc,          \* [Tasks -> where its execution is]
  retries,     \* [Tasks -> Nat]: self.request.retries
  product,     \* [Tasks -> the product the execution looked up]
  row,         \* [Tasks -> the id of the enrollment row it read]
  testMode,    \* the tenant's webhook:test_mode key exists in Redis
  admin,       \* the enrollment update request in progress
  adminOps,    \* administrator operations so far (bounds the model)
  faults,      \* database faults so far (bounds the model)
  created,     \* history: [Pairs -> Nat], rows ever inserted; gives row ids
  welcome,     \* history: [Pairs -> Nat], access-granted e-mails queued
  everMapped,  \* history: <<product, gateway id>> links that ever existed
  latest,      \* history: [Buyers \X Gateways -> last status dispatched]
  disturbed    \* history: something other than concurrency hit the workers

table == <<enrollment, created, welcome>>
logs == <<stage, event, processed, error>>
work == <<msg, pc, retries, product, row>>
requests == <<testMode, admin, adminOps, faults>>
history == <<everMapped, latest, disturbed>>
vars == <<users, catalog, table, logs, work, requests, history>>

NoRow == [id |-> 0, status |-> "none", by |-> "none"]
Row ==
  [id : Nat \ {0}, status : EnrollmentStatus, by : {"webhook", "admin"}] \cup {NoRow}
Exists(pr) == enrollment[pr] # NoRow

\* The control points of process_webhook_task.  "queued" is a message at the
\* broker (a retry waits there for its countdown); "done" a normal return;
\* "failed" an exception after the last retry; "lost" a worker that died:
\* messages are acknowledged before they run, so nobody runs them again.
Live == {"queued", "lookup", "user", "newuser", "apply", "reactivate", "insert"}
Ended == {"done", "failed", "lost"}

Message ==
  [log : Logs, gw : Gateways \cup {None}, buyer : Buyers \cup {None},
   status : EventStatus]

Idle == [pair |-> None, row |-> 0, old |-> "none", new |-> "none"]

Admin ==
  [pair : Pairs, row : Nat \ {0}, old : EnrollmentStatus, new : EnrollmentStatus]
    \cup {Idle}

TypeOK ==
  /\ users \subseteq Buyers
  /\ catalog \in [Products -> Gateways \cup {None}]
  /\ enrollment \in [Pairs -> Row]
  /\ stage \in [Logs -> {"free", "logged", "dispatched", "ended"}]
  /\ event \in [Logs -> Events \cup {None}]
  /\ processed \in [Logs -> BOOLEAN]
  /\ error \in [Logs -> BOOLEAN]
  /\ msg \in [Tasks -> Message \cup {None}]
  /\ pc \in [Tasks -> Live \cup Ended \cup {"none"}]
  /\ retries \in [Tasks -> Nat]
  /\ product \in [Tasks -> Products \cup {None}]
  /\ row \in [Tasks -> Nat]
  /\ testMode \in BOOLEAN
  /\ admin \in Admin
  /\ adminOps \in Nat
  /\ faults \in Nat
  /\ created \in [Pairs -> Nat]
  /\ welcome \in [Pairs -> Nat]
  /\ everMapped \subseteq Products \X Gateways
  /\ latest \in [Buyers \X Gateways -> EventStatus \cup {None}]
  /\ disturbed \in BOOLEAN

Init ==
  /\ users = {}
  /\ catalog \in [Products -> Gateways \cup {None}]
  /\ enrollment = [pr \in Pairs |-> NoRow]
  /\ stage = [l \in Logs |-> "free"]
  /\ event = [l \in Logs |-> None]
  /\ processed = [l \in Logs |-> FALSE]
  /\ error = [l \in Logs |-> FALSE]
  /\ msg = [t \in Tasks |-> None]
  /\ pc = [t \in Tasks |-> "none"]
  /\ retries = [t \in Tasks |-> 0]
  /\ product = [t \in Tasks |-> None]
  /\ row = [t \in Tasks |-> 0]
  /\ testMode = FALSE
  /\ admin = Idle
  /\ adminOps = 0
  /\ faults = 0
  /\ created = [pr \in Pairs |-> 0]
  /\ welcome = [pr \in Pairs |-> 0]
  /\ everMapped = {m \in Products \X Gateways : catalog[m[1]] = m[2]}
  /\ latest = [bg \in Buyers \X Gateways |-> None]
  /\ disturbed = FALSE

------------------------------------------------------------------------------
(* The API: receive_webhook                                                 *)

\* Faulty variant: the signature verdict is logged but not consulted.
AcceptedUnsigned(e) == e.status # None

\* Only a call with a valid signature and a known status is dispatched.
Accepted(e) == e.valid /\ e.status # None

\* A webhook arrives: whatever it is, it is logged and committed first.
ReceiveWebhook(l, e) ==
  /\ stage[l] = "free"
  /\ stage' = [stage EXCEPT ![l] = "logged"]
  /\ event' = [event EXCEPT ![l] = e]
  /\ UNCHANGED <<users, catalog, table, processed, error, work, requests, history>>

\* The Celery message of an accepted webhook.
EventMessage(l) ==
  [log |-> l, gw |-> event[l].gw, buyer |-> event[l].buyer,
   status |-> event[l].status]

\* Task t is queued at the broker with message m.
Queue(t, m) ==
  /\ msg' = [msg EXCEPT ![t] = m]
  /\ pc' = [pc EXCEPT ![t] = "queued"]
  /\ UNCHANGED <<retries, product, row>>

\* The handler's second half: the test-mode key is read after the commit, so
\* a switch between the two steps decides.
DispatchWebhook(l) ==
  /\ stage[l] = "logged"
  /\ IF Accepted(event[l]) /\ ~testMode
       THEN /\ Queue(l, EventMessage(l))
            /\ stage' = [stage EXCEPT ![l] = "dispatched"]
            /\ latest' = [bg \in Buyers \X Gateways |->
                            IF bg = <<event[l].buyer, event[l].gw>>
                              THEN event[l].status ELSE latest[bg]]
       ELSE /\ stage' = [stage EXCEPT ![l] = "ended"]
            /\ UNCHANGED <<work, latest>>
  /\ UNCHANGED <<users, catalog, table, event, processed, error, requests,
                 everMapped, disturbed>>

\* The API process dies, or Redis or the broker refuses, after the log's
\* commit: the row stays, no task exists, the gateway sees an error.
ReceiverFails(l) ==
  /\ stage[l] = "logged"
  /\ stage' = [stage EXCEPT ![l] = "ended"]
  /\ UNCHANGED <<users, catalog, table, event, processed, error, work, requests,
                 history>>

------------------------------------------------------------------------------
(* Webhook administration: set_test_mode, replay_webhook                    *)

\* SETEX; the key's expiry is TestModeExpires.
SetTestMode ==
  /\ testMode' = TRUE
  /\ UNCHANGED <<users, catalog, table, logs, work, admin, adminOps, faults, history>>

TestModeExpires ==
  /\ testMode
  /\ testMode' = FALSE
  /\ UNCHANGED <<users, catalog, table, logs, work, admin, adminOps, faults, history>>

\* Faulty variant: product and buyer are restored, the status is not.
ReplayMessageAsPurchase(l) ==
  [log |-> l, gw |-> event[l].gw, buyer |-> event[l].buyer, status |-> "active"]

\* The message of a replay: product, buyer and name are None, the status is
\* always "active", whatever the logged event was.
ReplayMessage(l) == [log |-> l, gw |-> None, buyer |-> None, status |-> "active"]

ReplayWebhook(r, l) ==
  /\ stage[l] # "free"
  /\ pc[r] = "none"
  /\ Queue(r, ReplayMessage(l))
  /\ UNCHANGED <<users, catalog, table, logs, requests, history>>

------------------------------------------------------------------------------
(* The worker: process_webhook_task and _process_webhook                    *)

Goto(t, there) == pc' = [pc EXCEPT ![t] = there]

\* Faulty variant: the number of retries is not consulted.
AfterFailureForever(t) == "queued"

\* Where an exception leads: another execution after the countdown, or failure.
AfterFailure(t) == IF retries[t] < MaxRetries THEN "queued" ELSE "failed"

\* Faulty variant: the handler logs the exception and returns.
RetrySwallow(t) == Goto(t, "done") /\ UNCHANGED <<msg, retries, product, row>>

\* The exception handler.  The next execution starts from the message alone.
Retry(t) ==
  /\ Goto(t, AfterFailure(t))
  /\ retries' = IF retries[t] < MaxRetries
                  THEN [retries EXCEPT ![t] = @ + 1] ELSE retries
  /\ product' = [product EXCEPT ![t] = None]
  /\ row' = [row EXCEPT ![t] = 0]
  /\ UNCHANGED msg

\* settings.webhook_test_mode is read before the database is touched.
SkipsTask == WorkerTestMode

\* A worker starts the task: the log is marked processed and committed before
\* anything is done; a task without product or buyer then simply returns.
StartTask(t) ==
  /\ pc[t] = "queued"
  /\ IF SkipsTask
       THEN Goto(t, "done") /\ UNCHANGED processed
       ELSE /\ processed' = [processed EXCEPT ![msg[t].log] = TRUE]
            /\ Goto(t, IF msg[t].gw = None \/ msg[t].buyer = None
                         THEN "done" ELSE "lookup")
  /\ UNCHANGED <<users, catalog, table, stage, event, error, msg, retries, product,
                 row, requests, history>>

Linked(g) == {p \in Products : catalog[p] = g}

\* No product carries the identifier: the task returns.
ProductMissing(t) ==
  /\ pc[t] = "lookup"
  /\ Linked(msg[t].gw) = {}
  /\ Goto(t, "done")
  /\ UNCHANGED <<users, catalog, table, logs, msg, retries, product, row, requests,
                 history>>

ProductFound(t, p) ==
  /\ pc[t] = "lookup"
  /\ Linked(msg[t].gw) = {p}
  /\ Goto(t, "user")
  /\ product' = [product EXCEPT ![t] = p]
  /\ UNCHANGED <<users, catalog, table, logs, msg, retries, row, requests, history>>

\* Two products carry it: scalar_one_or_none raises.  This is the one failure
\* whose message reaches the log, for the session is still usable.
ProductAmbiguous(t) ==
  /\ pc[t] = "lookup"
  /\ \E p, q \in Linked(msg[t].gw) : p # q
  /\ Retry(t)
  /\ error' = [error EXCEPT ![msg[t].log] = TRUE]
  /\ disturbed' = TRUE
  /\ UNCHANGED <<users, catalog, table, stage, event, processed, requests,
                 everMapped, latest>>

FindUser(t) ==
  /\ pc[t] = "user"
  /\ Goto(t, IF msg[t].buyer \in users THEN "apply" ELSE "newuser")
  /\ UNCHANGED <<users, catalog, table, logs, msg, retries, product, row, requests,
                 history>>

\* INSERT INTO users, a commit of its own; a buyer inserted meanwhile breaks
\* uq_users_tenant_email and the task is retried.  The handler's attempt to
\* note the error runs in the broken session and is swallowed.
CreateUser(t) ==
  /\ pc[t] = "newuser"
  /\ IF msg[t].buyer \notin users
       THEN /\ users' = users \cup {msg[t].buyer}
            /\ Goto(t, "apply")
            /\ UNCHANGED <<msg, retries, product, row>>
       ELSE Retry(t) /\ UNCHANGED users
  /\ UNCHANGED <<catalog, table, logs, requests, history>>

PairOf(t) == <<msg[t].buyer, product[t]>>

\* A refund or cancellation is one UPDATE; it may match no row.
Revoke(t) ==
  /\ pc[t] = "apply"
  /\ msg[t].status \in {"refunded", "cancelled"}
  /\ enrollment' = IF Exists(PairOf(t))
                     THEN [enrollment EXCEPT ![PairOf(t)].status = msg[t].status]
                     ELSE enrollment
  /\ Goto(t, "done")
  /\ UNCHANGED <<users, catalog, created, welcome, logs, msg, retries, product, row,
                 requests, history>>

\* Faulty variant: any existing row counts as access.
DecisionKeepsRow(r) == IF r = NoRow THEN "insert" ELSE "done"

\* What a purchase does about the enrollment row it reads.
Decision(r) ==
  IF r = NoRow THEN "insert"
  ELSE IF r.status = "active" THEN "done" ELSE "reactivate"

\* A purchase first reads the enrollment row.
ReadEnrollment(t) ==
  /\ pc[t] = "apply"
  /\ msg[t].status = "active"
  /\ Goto(t, Decision(enrollment[PairOf(t)]))
  /\ row' = [row EXCEPT ![t] = enrollment[PairOf(t)].id]
  /\ UNCHANGED <<users, catalog, table, logs, msg, retries, product, requests,
                 history>>

\* UPDATE ... WHERE id = the row that was read: it overwrites whatever status
\* the row has now, and raises StaleDataError if the row is gone.
Reactivate(t) ==
  /\ pc[t] = "reactivate"
  /\ IF enrollment[PairOf(t)].id = row[t]
       THEN /\ enrollment' = [enrollment EXCEPT ![PairOf(t)].status = "active"]
            /\ Goto(t, "done")
            /\ UNCHANGED <<msg, retries, product, row>>
       ELSE Retry(t) /\ UNCHANGED enrollment
  /\ UNCHANGED <<users, catalog, created, welcome, logs, requests, history>>

\* A row inserted by `by`; its id is the number of rows the pair ever had.
NewRow(pr, s, by) == [id |-> created[pr] + 1, status |-> s, by |-> by]

\* The access-granted e-mail is queued after a successful commit; a broker
\* that refuses it is ignored.
Welcomes(pr, inserted) ==
  IF inserted THEN {welcome, [welcome EXCEPT ![pr] = @ + 1]} ELSE {welcome}

\* INSERT, then the e-mail.  A row inserted meanwhile breaks the unique
\* constraint and the task is retried.
InsertEnrollment(t) ==
  LET pr == PairOf(t)
  IN
  /\ pc[t] = "insert"
  /\ IF ~Exists(pr)
       THEN /\ enrollment' = [enrollment EXCEPT ![pr] = NewRow(pr, "active", "webhook")]
            /\ created' = [created EXCEPT ![pr] = @ + 1]
            /\ Goto(t, "done")
            /\ UNCHANGED <<msg, retries, product, row>>
       ELSE Retry(t) /\ UNCHANGED <<enrollment, created>>
  /\ welcome' \in Welcomes(pr, ~Exists(pr))
  /\ UNCHANGED <<users, catalog, logs, requests, history>>

\* A statement fails (connection lost, deadlock, timeout): rolled back,
\* nothing noted in the log, retried.
DatabaseFault(t) ==
  /\ pc[t] \in Live
  /\ ~SkipsTask
  /\ faults < MaxFaults
  /\ faults' = faults + 1
  /\ Retry(t)
  /\ disturbed' = TRUE
  /\ UNCHANGED <<users, catalog, table, logs, testMode, admin, adminOps, everMapped,
                 latest>>

\* The worker process dies; the message is acknowledged just before the task
\* runs, so even one that had not begun its first transaction is gone.
WorkerCrash(t) ==
  /\ pc[t] \in Live
  /\ Goto(t, "lost")
  /\ UNCHANGED <<users, catalog, table, logs, msg, retries, product, row, requests,
                 history>>

------------------------------------------------------------------------------
(* Administrators: app/services/enrollment.py, product.py; other sign-ups   *)

\* register_user on behalf of any other part of the application.
RegisterUser(b) ==
  /\ b \notin users
  /\ users' = users \cup {b}
  /\ UNCHANGED <<catalog, table, logs, work, requests, history>>

AdminOperation ==
  /\ adminOps < MaxAdminOps
  /\ adminOps' = adminOps + 1
  /\ UNCHANGED <<users, logs, work, testMode, admin, faults, latest>>

\* update_product with a new gateway_ids.
LinkProduct(p, g) ==
  /\ AdminOperation
  /\ catalog[p] # g
  /\ catalog' = [catalog EXCEPT ![p] = g]
  /\ everMapped' = everMapped \cup ({<<p, g>>} \cap (Products \X Gateways))
  /\ disturbed' = TRUE
  /\ UNCHANGED table

\* bulk "enroll" inserts every row in one transaction: one duplicate aborts
\* all.  create_enrollment is the same with one buyer and a chosen status.
AdminEnroll(S, p, s) ==
  LET pairs == S \X {p}
  IN
  /\ AdminOperation
  /\ S # {} /\ S \subseteq users
  /\ \A pr \in pairs : ~Exists(pr)
  /\ enrollment' = [pr \in Pairs |->
                      IF pr \in pairs THEN NewRow(pr, s, "admin") ELSE enrollment[pr]]
  /\ created' = [pr \in Pairs |-> IF pr \in pairs THEN created[pr] + 1 ELSE created[pr]]
  /\ \E mailed \in SUBSET pairs :
       welcome' = [pr \in Pairs |-> IF pr \in mailed /\ s = "active"
                                      THEN welcome[pr] + 1 ELSE welcome[pr]]
  /\ UNCHANGED <<catalog, everMapped, disturbed>>

AdminCreate(b, p, s) == AdminEnroll({b}, p, s)
AdminBulkEnroll(S, p) == AdminEnroll(S, p, "active")

\* update_enrollment: SELECT the row ...
AdminLoad(pr, s) ==
  /\ adminOps < MaxAdminOps
  /\ admin = Idle
  /\ Exists(pr)
  /\ admin' = [pair |-> pr, row |-> enrollment[pr].id,
               old |-> enrollment[pr].status, new |-> s]
  /\ UNCHANGED <<users, catalog, table, logs, work, testMode, adminOps, faults, history>>

\* ... then UPDATE it.  The ORM writes the status only if it differs from the
\* one it loaded; if the row is gone it raises.
AdminCommit ==
  /\ admin # Idle
  /\ enrollment' = IF admin.new # admin.old /\ enrollment[admin.pair].id = admin.row
                     THEN [enrollment EXCEPT ![admin.pair].status = admin.new]
                     ELSE enrollment
  /\ admin' = Idle
  /\ adminOps' = adminOps + 1
  /\ UNCHANGED <<users, catalog, created, welcome, logs, work, testMode, faults,
                 history>>

\* delete_enrollment.
AdminDelete(pr) ==
  /\ AdminOperation
  /\ Exists(pr)
  /\ enrollment' = [enrollment EXCEPT ![pr] = NoRow]
  /\ disturbed' = TRUE
  /\ UNCHANGED <<catalog, created, welcome, everMapped>>

\* What the bulk UPDATE leaves in the column: it writes the name of the action,
\* and PostgreSQL refuses a string that is no enrollment_status.
Stored(pr, action) ==
  IF action \in EnrollmentStatus THEN action ELSE enrollment[pr].status

\* bulk "suspend" and "cancel": one UPDATE over the selected users.
AdminBulkStatus(S, p, action) ==
  /\ AdminOperation
  /\ enrollment' = [pr \in Pairs |->
       IF pr \in S \X {p} /\ Exists(pr)
         THEN [enrollment[pr] EXCEPT !.status = Stored(pr, action)]
         ELSE enrollment[pr]]
  /\ UNCHANGED <<catalog, created, welcome, everMapped, disturbed>>

------------------------------------------------------------------------------

Receiver(l) ==
  \/ \E e \in Events : ReceiveWebhook(l, e)
  \/ DispatchWebhook(l)
  \/ ReceiverFails(l)

\* The steps a running worker takes by itself.
Work(t) ==
  \/ StartTask(t)
  \/ ProductMissing(t)
  \/ \E p \in Products : ProductFound(t, p)
  \/ ProductAmbiguous(t)
  \/ FindUser(t)
  \/ CreateUser(t)
  \/ Revoke(t)
  \/ ReadEnrollment(t)
  \/ Reactivate(t)
  \/ InsertEnrollment(t)

WorkerFails(t) == DatabaseFault(t) \/ WorkerCrash(t)

Administration ==
  \/ SetTestMode
  \/ \E r \in Replays, l \in Logs : ReplayWebhook(r, l)
  \/ \E p \in Products, g \in Gateways \cup {None} : LinkProduct(p, g)
  \/ \E b \in Buyers, p \in Products, s \in EnrollmentStatus : AdminCreate(b, p, s)
  \/ \E S \in SUBSET Buyers, p \in Products : AdminBulkEnroll(S, p)
  \/ \E pr \in Pairs, s \in EnrollmentStatus : AdminLoad(pr, s)
  \/ AdminCommit
  \/ \E pr \in Pairs : AdminDelete(pr)
  \/ \E S \in SUBSET Buyers, p \in Products, a \in {"suspend", "cancel"} :
       AdminBulkStatus(S, p, a)

Next ==
  \/ \E l \in Logs : Receiver(l)
  \/ \E t \in Tasks : Work(t) \/ WorkerFails(t)
  \/ TestModeExpires
  \/ \E b \in Buyers : RegisterUser(b)
  \/ Administration

Spec == Init /\ [][Next]_vars

\* A worker that has a task, or finds one in the queue, keeps working: Celery
\* runs every message (a retry after its countdown).  Nothing is assumed of
\* gateways, administrators, crashes or faults.
FairSpec == Spec /\ \A t \in Tasks : WF_vars(Work(t))

\* A deployment in which calls are further apart than the time one takes to
\* be processed: no two tasks are ever in flight together.
AtMostOneLive == \A t, u \in Tasks : pc[t] \in Live /\ pc[u] \in Live => t = u
SpacedSpec == Init /\ [][Next /\ AtMostOneLive']_vars

------------------------------------------------------------------------------
(* Correctness                                                              *)

\* A webhook that authorises access of buyer b to product p: its signature
\* was valid, it was dispatched (not in test mode), it says "active" and its
\* gateway identifier has been linked to p.
Earned(b, p) ==
  \E l \in Logs :
    /\ stage[l] = "dispatched"
    /\ event[l].valid
    /\ event[l].status = "active"
    /\ event[l].buyer = b
    /\ <<p, event[l].gw>> \in everMapped

\* Every enrollment row that says it came from a webhook is explained by a
\* valid, dispatched purchase in webhook_logs, whatever interleaving of
\* retries, replays, catalogue edits and test-mode switches produced it, and
\* there is none when the workers run with WEBHOOK_TEST_MODE.
WebhookRowsAreEarned ==
  \A b \in Buyers, p \in Products :
    enrollment[<<b, p>>].by = "webhook" => Earned(b, p) /\ ~WorkerTestMode

\* Concurrency alone never uses up the retries: workers racing to create the
\* same user and the same enrollment, sign-ups and administrators who enroll
\* or edit all make a task fail at most twice, so as long as no database
\* fault, row deletion or catalogue problem occurs, no task ends in failure.
ConcurrencyNeverExhaustsRetries ==
  ~disturbed => \A t \in Tasks : retries[t] <= 2 /\ pc[t] # "failed"

\* The buyer is told "access granted" at most once per enrollment row: the
\* retries after a lost race or a fault queue no second e-mail.
OneWelcomePerRow == \A pr \in Pairs : welcome[pr] <= created[pr]

\* A purchase task that returns normally after finding its product has not
\* lost the sale: an enrollment row was created for the pair at some time.
DonePurchaseLeftARow ==
  \A t \in Tasks :
    /\ pc[t] = "done"
    /\ msg[t].status = "active"
    /\ product[t] # None
    => created[PairOf(t)] > 0

\* Whatever has been received has been executed, and without mishap.
Quiescent ==
  /\ \A l \in Logs : stage[l] # "logged"
  /\ \A t \in Tasks : pc[t] \in {"none", "done"}
  /\ ~disturbed /\ adminOps = 0 /\ ~WorkerTestMode

\* After a refund or cancellation has been executed, with no later purchase
\* dispatched, the buyer has no active access through the product.
RefundRevokesAccess ==
  Quiescent =>
    \A b \in Buyers, p \in Products :
      /\ catalog[p] # None
      /\ Linked(catalog[p]) = {p}
      /\ latest[<<b, catalog[p]>>] \in {"refunded", "cancelled"}
      => enrollment[<<b, p>>].status # "active"

\* The latest webhook decides in both directions, purchases included.
LatestEventWins ==
  /\ RefundRevokesAccess
  /\ Quiescent =>
       \A b \in Buyers, p \in Products :
         /\ catalog[p] # None
         /\ Linked(catalog[p]) = {p}
         /\ latest[<<b, catalog[p]>>] = "active"
         => enrollment[<<b, p>>].status = "active"

\* A replay runs the task with the original payload: once it and the log's own
\* task have ended, a logged purchase of a linked product has produced an
\* enrollment, even if that first task was lost or never dispatched.
ReplayRunsOriginalPayload ==
  \A r \in Replays :
    LET l == msg[r].log  e == event[l]
    IN  /\ pc[r] = "done"
        /\ stage[l] # "logged" /\ pc[l] \notin Live
        /\ adminOps = 0 /\ ~WorkerTestMode
        /\ Accepted(e) /\ e.status = "active" /\ e.buyer # None
        => \A p \in Products : Linked(e.gw) = {p} => created[<<e.buyer, p>>] > 0

\* Every queued task comes to an end: it returns, fails after its last retry
\* or dies with its worker; no race makes it circulate forever.
TasksTerminate == \A t \in Tasks : pc[t] \in Live ~> pc[t] \in Ended

\* What was announced: dispatched webhooks, for the products their gateway
\* identifier has been linked to.
Announced ==
  {a \in Pairs \X EventStatus :
     \E l \in Logs :
       /\ stage[l] = "dispatched"
       /\ event[l].buyer = a[1][1]
       /\ event[l].status = a[2]
       /\ <<a[1][2], event[l].gw>> \in everMapped}

Access == INSTANCE AccessLifecycle WITH
  Statuses <- EnrollmentStatus,
  access <- [pr \in Pairs |-> enrollment[pr].status],
  announced <- Announced

\* The pipeline, with its queue, races, retries, crashes and replays, changes
\* access only as AccessLifecycle allows: a purchase that was announced opens
\* it, an announced refund closes it, an administrator's request moves it.
ImplementsAccessLifecycle == Access!Spec
==============================================================================
