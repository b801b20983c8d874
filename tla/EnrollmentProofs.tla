------------------------- MODULE EnrollmentProofs -------------------------
(***************************************************************************)
(* Proofs about EnrollmentPipeline, for every set of buyers, products,     *)
(* gateway identifiers, webhook calls, logs and replays, and for all       *)
(* bounds: type correctness, what races between workers cost, which rows a *)
(* webhook may leave behind, how many e-mails a row is worth, that the     *)
(* pipeline implements AccessLifecycle, and that the latest call wins if   *)
(* calls are far apart.                                                    *)
(***************************************************************************)
EXTENDS EnrollmentPipeline, TLAPS

\* The control points at which the worker holds a product.
WithProduct == {"user", "newuser", "apply", "reactivate", "insert"}

\* What a task and a log carry at each control point.
TaskShape ==
  \A t \in Tasks :
    /\ pc[t] # "none" => msg[t] \in Message
    /\ pc[t] \in WithProduct \cup {"lookup"} =>
         /\ msg[t].gw \in Gateways
         /\ msg[t].buyer \in Buyers
         /\ ~WorkerTestMode
    /\ pc[t] \in WithProduct => product[t] \in Products
    /\ pc[t] \in {"reactivate", "insert"} => msg[t].status = "active"
    /\ pc[t] = "reactivate" => row[t] > 0

LogShape ==
  \A l \in Logs : stage[l] \in {"logged", "dispatched"} => event[l] \in Events

Typed == TypeOK /\ TaskShape /\ LogShape

------------------------------------------------------------------------------
(* Type correctness                                                         *)

LEMMA InitTyped == Init => Typed
  <1> SUFFICES ASSUME Init PROVE Typed
    OBVIOUS
  <1> USE DEF Init
  <1>1. TypeOK
    BY BoundsAssumption
       DEF TypeOK, Row, NoRow, EnrollmentStatus, Admin, Live, Ended
  <1>2. TaskShape
    BY DEF TaskShape, WithProduct
  <1>3. LogShape
    BY DEF LogShape
  <1>4. QED
    BY <1>1, <1>2, <1>3 DEF Typed

\* The exception handler keeps the task in its type, and its message.
LEMMA RetryTyped ==
  ASSUME Typed, NEW t \in Tasks, Retry(t)
  PROVE  /\ msg' = msg
         /\ pc' \in [Tasks -> Live \cup Ended \cup {"none"}]
         /\ retries' \in [Tasks -> Nat]
         /\ product' \in [Tasks -> Products \cup {None}]
         /\ row' \in [Tasks -> Nat]
         /\ \A u \in Tasks \ {t} :
              pc'[u] = pc[u] /\ product'[u] = product[u] /\ row'[u] = row[u]
         /\ pc'[t] \in {"queued", "failed"}
  BY DEF Typed, TypeOK, Retry, Goto, AfterFailure, Live, Ended

LEMMA RowStatusTyped ==
  ASSUME NEW r \in Row, r # NoRow, NEW s \in EnrollmentStatus
  PROVE  [r EXCEPT !.status = s] \in Row
  BY DEF Row

\* A worker that holds a product works on a pair of the tables.
LEMMA PairTyped ==
  ASSUME Typed, NEW t \in Tasks, pc[t] \in WithProduct
  PROVE  PairOf(t) \in Pairs
  BY DEF Typed, TaskShape, PairOf, Pairs, WithProduct

LEMMA NewRowTyped ==
  ASSUME TypeOK, NEW pr \in Pairs, NEW s \in EnrollmentStatus,
         NEW by \in {"webhook", "admin"}
  PROVE  NewRow(pr, s, by) \in Row
  BY DEF TypeOK, NewRow, Row

\* Every step keeps the variables in their types and the records in shape.
LEMMA NextTyped == Typed /\ [Next]_vars => Typed'
  <1> SUFFICES ASSUME Typed, [Next]_vars PROVE Typed'
    OBVIOUS
  <1> USE DEF Typed, TypeOK, table, logs, work, requests, history
  <1>1. ASSUME NEW l \in Logs, NEW e \in Events, ReceiveWebhook(l, e)
       PROVE  Typed'
    <2>1. TypeOK'
      BY <1>1 DEF ReceiveWebhook
    <2>2. TaskShape'
      BY <1>1 DEF ReceiveWebhook, TaskShape
    <2>3. LogShape'
      BY <1>1 DEF ReceiveWebhook, LogShape
    <2>4. QED
      BY <2>1, <2>2, <2>3
  <1>2. ASSUME NEW l \in Logs, DispatchWebhook(l)
       PROVE  Typed'
    <2>1. TypeOK'
      <3>1. CASE Accepted(event[l]) /\ ~testMode
        <4>1. event[l] \in Events /\ event[l].status \in EventStatus
          BY EventsAssumption, <1>2, <3>1 DEF DispatchWebhook, LogShape, EventType, Accepted
        <4>2. EventMessage(l) \in Message
          BY EventsAssumption, <4>1 DEF EventMessage, Message, EventType
        <4>3. /\ msg' \in [Tasks -> Message \cup {None}]
              /\ pc' \in [Tasks -> Live \cup Ended \cup {"none"}]
              /\ UNCHANGED <<retries, product, row>>
          BY <1>2, <3>1, <4>2 DEF DispatchWebhook, Queue, Live, Tasks
        <4>4. latest' \in [Buyers \X Gateways -> EventStatus \cup {None}]
          BY <1>2, <3>1, <4>1 DEF DispatchWebhook
        <4>5. QED
          BY <1>2, <3>1, <4>3, <4>4 DEF DispatchWebhook
      <3>2. CASE ~(Accepted(event[l]) /\ ~testMode)
        BY <1>2, <3>2 DEF DispatchWebhook
      <3>3. QED
        BY <3>1, <3>2
    <2>2. TaskShape'
      BY EventsAssumption, <1>2 DEF DispatchWebhook, Queue, EventMessage, Message, EventType, Accepted, EventStatus, Live, TaskShape, WithProduct, LogShape
    <2>3. LogShape'
      BY <1>2 DEF DispatchWebhook, LogShape
    <2>4. QED
      BY <2>1, <2>2, <2>3
  <1>3. ASSUME NEW l \in Logs, ReceiverFails(l)
       PROVE  Typed'
    <2>1. TypeOK'
      BY <1>3 DEF ReceiverFails
    <2>2. TaskShape'
      BY <1>3 DEF ReceiverFails, TaskShape
    <2>3. LogShape'
      BY <1>3 DEF ReceiverFails, LogShape
    <2>4. QED
      BY <2>1, <2>2, <2>3
  <1>4. ASSUME NEW t \in Tasks, StartTask(t)
       PROVE  Typed'
    <2>1. TypeOK'
      BY <1>4 DEF StartTask, Goto, Live, Ended, SkipsTask, Message, TaskShape
    <2>2. TaskShape'
      BY <1>4 DEF StartTask, Goto, SkipsTask, Message, TaskShape, WithProduct, Live
    <2>3. LogShape'
      BY <1>4 DEF StartTask, LogShape
    <2>4. QED
      BY <2>1, <2>2, <2>3
  <1>5. ASSUME NEW t \in Tasks, ProductMissing(t)
       PROVE  Typed'
    <2>1. TypeOK'
      BY <1>5 DEF ProductMissing, Goto, Live, Ended, TaskShape
    <2>2. TaskShape'
      BY <1>5 DEF ProductMissing, Goto, TaskShape, WithProduct, Live
    <2>3. LogShape'
      BY <1>5 DEF ProductMissing, LogShape
    <2>4. QED
      BY <2>1, <2>2, <2>3
  <1>6. ASSUME NEW t \in Tasks, NEW p \in Products, ProductFound(t, p)
       PROVE  Typed'
    <2>1. TypeOK'
      BY <1>6 DEF ProductFound, Goto, Live, Ended, TaskShape
    <2>2. TaskShape'
      BY <1>6 DEF ProductFound, Goto, TaskShape, WithProduct, Live
    <2>3. LogShape'
      BY <1>6 DEF ProductFound, LogShape
    <2>4. QED
      BY <2>1, <2>2, <2>3
  <1>7. ASSUME NEW t \in Tasks, ProductAmbiguous(t)
       PROVE  Typed'
    <2>1. TypeOK'
      BY RetryTyped, <1>7 DEF ProductAmbiguous
    <2>2. TaskShape'
      BY RetryTyped, <1>7 DEF ProductAmbiguous, TaskShape, WithProduct, Live
    <2>3. LogShape'
      BY <1>7 DEF ProductAmbiguous, LogShape
    <2>4. QED
      BY <2>1, <2>2, <2>3
  <1>8. ASSUME NEW t \in Tasks, FindUser(t)
       PROVE  Typed'
    <2>1. TypeOK'
      BY <1>8 DEF FindUser, Goto, Live, Ended, TaskShape
    <2>2. TaskShape'
      BY <1>8 DEF FindUser, Goto, TaskShape, WithProduct, Live
    <2>3. LogShape'
      BY <1>8 DEF FindUser, LogShape
    <2>4. QED
      BY <2>1, <2>2, <2>3
  <1>9. ASSUME NEW t \in Tasks, CreateUser(t)
       PROVE  Typed'
    <2>1. TypeOK'
      <3>1. msg[t].buyer \in Buyers
        BY <1>9 DEF CreateUser, TaskShape, WithProduct
      <3>2. QED
        BY RetryTyped, <1>9, <3>1 DEF CreateUser, Goto, Live
    <2>2. TaskShape'
      BY RetryTyped, <1>9 DEF CreateUser, Goto, TaskShape, WithProduct, Live
    <2>3. LogShape'
      BY <1>9 DEF CreateUser, LogShape
    <2>4. QED
      BY <2>1, <2>2, <2>3
  <1>10. ASSUME NEW t \in Tasks, Revoke(t)
       PROVE  Typed'
    <2>1. TypeOK'
      <3>1. PairOf(t) \in Pairs
        BY PairTyped, <1>10 DEF Revoke, WithProduct
      <3>2. Exists(PairOf(t)) =>
              [enrollment[PairOf(t)] EXCEPT !.status = msg[t].status] \in Row
        BY RowStatusTyped, <1>10, <3>1 DEF Revoke, EnrollmentStatus, Exists
      <3>3. enrollment' \in [Pairs -> Row]
        BY <1>10, <3>1, <3>2 DEF Revoke
      <3>4. QED
        BY <1>10, <3>3 DEF Revoke, Goto, Ended
    <2>2. TaskShape'
      BY <1>10 DEF Revoke, Goto, TaskShape, WithProduct, Live
    <2>3. LogShape'
      BY <1>10 DEF Revoke, LogShape
    <2>4. QED
      BY <2>1, <2>2, <2>3
  <1>11. ASSUME NEW t \in Tasks, ReadEnrollment(t)
       PROVE  Typed'
    <2>1. TypeOK'
      <3>1. PairOf(t) \in Pairs
        BY PairTyped, <1>11 DEF ReadEnrollment, WithProduct
      <3>2. enrollment[PairOf(t)].id \in Nat
        BY <3>1 DEF Row, NoRow
      <3>3. QED
        BY <1>11, <3>2 DEF ReadEnrollment, Goto, Decision, Live, Ended
    <2>2. TaskShape'
      <3>1. enrollment[PairOf(t)] \in Row
        BY PairTyped, <1>11 DEF ReadEnrollment, WithProduct
      <3>2. enrollment[PairOf(t)] # NoRow => enrollment[PairOf(t)].id > 0
        BY <3>1 DEF Row
      <3>3. Decision(enrollment[PairOf(t)]) \in {"insert", "done", "reactivate"}
        BY DEF Decision
      <3>4. Decision(enrollment[PairOf(t)]) = "reactivate" => row'[t] > 0
        BY <1>11, <3>2 DEF ReadEnrollment, Decision
      <3>5. ASSUME NEW u \in Tasks \ {t}
            PROVE  pc'[u] = pc[u] /\ row'[u] = row[u]
        BY <1>11 DEF ReadEnrollment, Goto
      <3>6. pc'[t] = Decision(enrollment[PairOf(t)])
        BY <1>11 DEF ReadEnrollment, Goto
      <3>7. QED
        BY <1>11, <3>3, <3>4, <3>5, <3>6
           DEF ReadEnrollment, TaskShape, WithProduct, Live
    <2>3. LogShape'
      BY <1>11 DEF ReadEnrollment, LogShape
    <2>4. QED
      BY <2>1, <2>2, <2>3
  <1>12. ASSUME NEW t \in Tasks, Reactivate(t)
       PROVE  Typed'
    <2>1. TypeOK'
      <3>1. PairOf(t) \in Pairs
        BY PairTyped, <1>12 DEF Reactivate, WithProduct
      <3>2. enrollment[PairOf(t)].id = row[t] =>
              [enrollment[PairOf(t)] EXCEPT !.status = "active"] \in Row
        <4>1. row[t] > 0
          BY <1>12 DEF Reactivate, TaskShape
        <4>2. enrollment[PairOf(t)].id = row[t] => enrollment[PairOf(t)] # NoRow
          BY <4>1 DEF NoRow
        <4>3. enrollment[PairOf(t)] \in Row
          BY <3>1
        <4>4. QED
          BY RowStatusTyped, <4>2, <4>3 DEF EnrollmentStatus
      <3>3. enrollment' \in [Pairs -> Row]
        BY <1>12, <3>1, <3>2 DEF Reactivate
      <3>4. QED
        BY RetryTyped, <1>12, <3>3 DEF Reactivate, Goto, Ended
    <2>2. TaskShape'
      BY RetryTyped, <1>12 DEF Reactivate, Goto, TaskShape, WithProduct, Live
    <2>3. LogShape'
      BY <1>12 DEF Reactivate, LogShape
    <2>4. QED
      BY <2>1, <2>2, <2>3
  <1>13. ASSUME NEW t \in Tasks, InsertEnrollment(t)
       PROVE  Typed'
    <2>1. TypeOK'
      <3>1. PairOf(t) \in Pairs
        BY PairTyped, <1>13 DEF InsertEnrollment, WithProduct
      <3>2. NewRow(PairOf(t), "active", "webhook") \in Row
        BY NewRowTyped, <3>1 DEF EnrollmentStatus
      <3>3. enrollment' \in [Pairs -> Row] /\ created' \in [Pairs -> Nat]
        BY <1>13, <3>1, <3>2 DEF InsertEnrollment
      <3>4. welcome' \in [Pairs -> Nat]
        BY <1>13, <3>1 DEF InsertEnrollment, Welcomes
      <3>5. QED
        BY RetryTyped, <1>13, <3>3, <3>4 DEF InsertEnrollment, Goto, Ended
    <2>2. TaskShape'
      BY RetryTyped, <1>13 DEF InsertEnrollment, Goto, TaskShape, WithProduct, Live
    <2>3. LogShape'
      BY <1>13 DEF InsertEnrollment, LogShape
    <2>4. QED
      BY <2>1, <2>2, <2>3
  <1>14. ASSUME NEW t \in Tasks, DatabaseFault(t)
       PROVE  Typed'
    <2>1. TypeOK'
      BY RetryTyped, <1>14 DEF DatabaseFault
    <2>2. TaskShape'
      BY RetryTyped, <1>14 DEF DatabaseFault, TaskShape, WithProduct, Live
    <2>3. LogShape'
      BY <1>14 DEF DatabaseFault, LogShape
    <2>4. QED
      BY <2>1, <2>2, <2>3
  <1>15. ASSUME NEW t \in Tasks, WorkerCrash(t)
       PROVE  Typed'
    <2>1. TypeOK'
      BY <1>15 DEF WorkerCrash, Goto, Live, Ended, TaskShape
    <2>2. TaskShape'
      BY <1>15 DEF WorkerCrash, Goto, TaskShape, WithProduct, Live
    <2>3. LogShape'
      BY <1>15 DEF WorkerCrash, LogShape
    <2>4. QED
      BY <2>1, <2>2, <2>3
  <1>16. ASSUME TestModeExpires
       PROVE  Typed'
    <2>1. TypeOK'
      BY <1>16 DEF TestModeExpires
    <2>2. TaskShape'
      BY <1>16 DEF TestModeExpires, TaskShape
    <2>3. LogShape'
      BY <1>16 DEF TestModeExpires, LogShape
    <2>4. QED
      BY <2>1, <2>2, <2>3
  <1>17. ASSUME NEW b \in Buyers, RegisterUser(b)
       PROVE  Typed'
    <2>1. TypeOK'
      BY <1>17 DEF RegisterUser
    <2>2. TaskShape'
      BY <1>17 DEF RegisterUser, TaskShape
    <2>3. LogShape'
      BY <1>17 DEF RegisterUser, LogShape
    <2>4. QED
      BY <2>1, <2>2, <2>3
  <1>18. ASSUME SetTestMode
       PROVE  Typed'
    <2>1. TypeOK'
      BY <1>18 DEF SetTestMode
    <2>2. TaskShape'
      BY <1>18 DEF SetTestMode, TaskShape
    <2>3. LogShape'
      BY <1>18 DEF SetTestMode, LogShape
    <2>4. QED
      BY <2>1, <2>2, <2>3
  <1>19. ASSUME NEW r \in Replays, NEW l \in Logs, ReplayWebhook(r, l)
       PROVE  Typed'
    <2>1. TypeOK'
      BY <1>19 DEF ReplayWebhook, Queue, ReplayMessage, Message, EventStatus, Live, TaskShape
    <2>2. TaskShape'
      BY <1>19 DEF ReplayWebhook, Queue, ReplayMessage, Message, EventStatus, Live, TaskShape, WithProduct
    <2>3. LogShape'
      BY <1>19 DEF ReplayWebhook, LogShape
    <2>4. QED
      BY <2>1, <2>2, <2>3
  <1>20. ASSUME NEW p \in Products, NEW g \in Gateways \cup {None}, LinkProduct(p, g)
       PROVE  Typed'
    <2>1. TypeOK'
      BY <1>20 DEF LinkProduct, AdminOperation
    <2>2. TaskShape'
      BY <1>20 DEF LinkProduct, AdminOperation, TaskShape
    <2>3. LogShape'
      BY <1>20 DEF LinkProduct, LogShape, AdminOperation
    <2>4. QED
      BY <2>1, <2>2, <2>3
  <1>21. ASSUME NEW S \in SUBSET Buyers, NEW p \in Products, NEW s \in EnrollmentStatus, AdminEnroll(S, p, s)
       PROVE  Typed'
    <2>1. TypeOK'
      BY <1>21 DEF AdminEnroll, AdminOperation, Row, NewRow, Pairs
    <2>2. TaskShape'
      BY <1>21 DEF AdminEnroll, AdminOperation, TaskShape
    <2>3. LogShape'
      BY <1>21 DEF AdminEnroll, LogShape, AdminOperation
    <2>4. QED
      BY <2>1, <2>2, <2>3
  <1>22. ASSUME NEW pr \in Pairs, NEW s \in EnrollmentStatus, AdminLoad(pr, s)
       PROVE  Typed'
    <2>1. TypeOK'
      <3>1. enrollment[pr] \in Row /\ enrollment[pr].status # "none"
        BY <1>22 DEF AdminLoad, Exists, Row, EnrollmentStatus
      <3>2. QED
        BY <1>22, <3>1 DEF AdminLoad, Admin, Row, Exists
    <2>2. TaskShape'
      BY <1>22 DEF AdminLoad, TaskShape
    <2>3. LogShape'
      BY <1>22 DEF AdminLoad, LogShape
    <2>4. QED
      BY <2>1, <2>2, <2>3
  <1>23. ASSUME AdminCommit
       PROVE  Typed'
    <2>1. TypeOK'
      <3>1. admin.pair \in Pairs /\ admin.new \in EnrollmentStatus
        BY <1>23 DEF AdminCommit, Admin
      <3>2. enrollment[admin.pair].id = admin.row =>
              [enrollment[admin.pair] EXCEPT !.status = admin.new] \in Row
        BY RowStatusTyped, <1>23, <3>1 DEF AdminCommit, Admin, NoRow
      <3>3. enrollment' \in [Pairs -> Row]
        BY <1>23, <3>1, <3>2 DEF AdminCommit
      <3>4. QED
        BY <1>23, <3>3 DEF AdminCommit, Admin
    <2>2. TaskShape'
      BY <1>23 DEF AdminCommit, TaskShape
    <2>3. LogShape'
      BY <1>23 DEF AdminCommit, LogShape
    <2>4. QED
      BY <2>1, <2>2, <2>3
  <1>24. ASSUME NEW pr \in Pairs, AdminDelete(pr)
       PROVE  Typed'
    <2>1. TypeOK'
      BY <1>24 DEF AdminDelete, AdminOperation, Row, NoRow
    <2>2. TaskShape'
      BY <1>24 DEF AdminDelete, AdminOperation, TaskShape
    <2>3. LogShape'
      BY <1>24 DEF AdminDelete, LogShape, AdminOperation
    <2>4. QED
      BY <2>1, <2>2, <2>3
  <1>25. ASSUME NEW S \in SUBSET Buyers, NEW p \in Products, NEW a \in {"suspend", "cancel"}, AdminBulkStatus(S, p, a)
       PROVE  Typed'
    <2>1. TypeOK'
      <3>1. \A pr \in Pairs : Exists(pr) => Stored(pr, a) \in EnrollmentStatus
        BY <1>25 DEF Stored, Row, Exists
      <3>2. \A pr \in Pairs : Exists(pr) =>
              [enrollment[pr] EXCEPT !.status = Stored(pr, a)] \in Row
        BY RowStatusTyped, <3>1 DEF Exists
      <3>3. enrollment' \in [Pairs -> Row]
        BY <1>25, <3>2 DEF AdminBulkStatus
      <3>4. QED
        BY <1>25, <3>3 DEF AdminBulkStatus, AdminOperation
    <2>2. TaskShape'
      BY <1>25 DEF AdminBulkStatus, AdminOperation, TaskShape
    <2>3. LogShape'
      BY <1>25 DEF AdminBulkStatus, LogShape, AdminOperation
    <2>4. QED
      BY <2>1, <2>2, <2>3
  <1>26. CASE UNCHANGED vars
    BY <1>26 DEF vars, TaskShape, LogShape
  <1>27. ASSUME NEW l \in Logs, Receiver(l) PROVE Typed'
    BY <1>1, <1>2, <1>3, <1>27 DEF Receiver
  <1>28. ASSUME NEW t \in Tasks, Work(t) \/ WorkerFails(t) PROVE Typed'
    BY <1>4, <1>5, <1>6, <1>7, <1>8, <1>9, <1>10, <1>11, <1>12, <1>13, <1>14, <1>15,
       <1>28 DEF Work, WorkerFails
  <1>29. ASSUME Administration PROVE Typed'
    <2>1. ASSUME NEW b \in Buyers, NEW p \in Products, NEW s \in EnrollmentStatus,
                 AdminCreate(b, p, s)
          PROVE  Typed'
      BY <1>21, <2>1 DEF AdminCreate
    <2>2. ASSUME NEW S \in SUBSET Buyers, NEW p \in Products, AdminBulkEnroll(S, p)
          PROVE  Typed'
      BY <1>21, <2>2 DEF AdminBulkEnroll, EnrollmentStatus
    <2>3. QED
      BY <1>18, <1>19, <1>20, <1>22, <1>23, <1>24, <1>25, <1>29, <2>1, <2>2
         DEF Administration
  <1>30. QED
    BY <1>16, <1>17, <1>26, <1>27, <1>28, <1>29 DEF Next

\* Every variable keeps its type, and a task or log carries what its control
\* point needs: a product and a buyer before it touches an enrollment, the id
\* of a row before it updates it (app/tasks/webhooks.py).
THEOREM TypeCorrect == Spec => []Typed
  BY InitTyped, NextTyped, PTL DEF Spec

\* The type invariant of the runs.
THEOREM TypeOKAlways == Spec => []TypeOK
  <1>1. Typed => TypeOK
    BY DEF Typed
  <1>2. QED
    BY <1>1, TypeCorrect, PTL

------------------------------------------------------------------------------
(* The safety properties                                                    *)


\* While nothing but concurrency has hit the workers, each retry a task has
\* used left something behind that rules out the same conflict: the first the
\* buyer's users row, the second the enrollment row.
TaskRace(t) ==
  /\ retries[t] <= 2
  /\ pc[t] # "failed"
  /\ retries[t] > 0 => msg[t].buyer \in users /\ pc[t] # "none"
  /\ pc[t] \in {"apply", "reactivate", "insert"} => msg[t].buyer \in users
  /\ pc[t] = "newuser" => retries[t] = 0
  /\ pc[t] = "insert" => retries[t] <= 1
  /\ pc[t] \in WithProduct => Linked(msg[t].gw) = {product[t]}
  /\ pc[t] = "reactivate" =>
       Exists(PairOf(t)) /\ enrollment[PairOf(t)].id = row[t]
  /\ retries[t] = 2 =>
       \A p \in Products : Linked(msg[t].gw) = {p} => Exists(<<msg[t].buyer, p>>)

\* A log's own task is queued once, when the log is dispatched.
QueuedOnce ==
  \A l \in Logs : stage[l] \in {"free", "logged"} => pc[l] = "none"

RaceInv == QueuedOnce /\ (~disturbed => \A t \in Tasks : TaskRace(t))

\* Webhook l authorises buyer b for gateway identifier g.
Authorises(l, b, g) ==
  /\ stage[l] = "dispatched"
  /\ event[l].valid
  /\ event[l].status = "active"
  /\ event[l].buyer = b
  /\ event[l].gw = g

\* A purchase task that names a product and a buyer stems from a webhook that
\* authorises it, and the product it holds has been linked to the identifier.
TaskEarned(t) ==
  /\ pc[t] \in Live /\ msg[t].status = "active"
       /\ msg[t].gw # None /\ msg[t].buyer # None
     => \E l \in Logs : Authorises(l, msg[t].buyer, msg[t].gw)
  /\ pc[t] \in WithProduct => <<product[t], msg[t].gw>> \in everMapped

EarnedInv ==
  /\ \A p \in Products, g \in Gateways : catalog[p] = g => <<p, g>> \in everMapped
  /\ \A t \in Tasks : TaskEarned(t)
  /\ WebhookRowsAreEarned

------------------------------------------------------------------------------
(* What the steps have in common                                            *)

\* Task u takes no part in the step.
Untouched(u) ==
  /\ pc'[u] = pc[u] /\ retries'[u] = retries[u] /\ msg'[u] = msg[u]
  /\ product'[u] = product[u] /\ row'[u] = row[u]

\* Users are not removed, rows keep their identity, the catalogue stands.
Grows ==
  /\ catalog' = catalog
  /\ users \subseteq users'
  /\ \A pr \in Pairs :
       Exists(pr) => /\ enrollment'[pr] # NoRow
                     /\ enrollment'[pr].id = enrollment[pr].id

LEMMA UntouchedRace ==
  ASSUME Typed, NEW u \in Tasks, TaskRace(u), Untouched(u), Grows
  PROVE  TaskRace(u)'
  <1>1. pc[u] \in WithProduct => PairOf(u) \in Pairs
    BY PairTyped
  <1>2. PairOf(u)' = PairOf(u)
    BY DEF Untouched, PairOf
  <1>3. ASSUME NEW p \in Products, retries[u] = 2, Linked(msg[u].gw) = {p}
        PROVE  enrollment'[<<msg[u].buyer, p>>] # NoRow
    <2>1. <<msg[u].buyer, p>> \in Pairs
      BY <1>3 DEF TaskRace, Typed, TypeOK, Pairs
    <2>2. Exists(<<msg[u].buyer, p>>)
      BY <1>3 DEF TaskRace
    <2>3. QED
      BY <2>1, <2>2 DEF Grows
  <1>4. Linked(msg[u].gw)' = Linked(msg[u].gw)
    BY DEF Grows, Linked, Untouched
  <1>5. pc[u] = "reactivate" =>
          enrollment'[PairOf(u)] # NoRow /\ enrollment'[PairOf(u)].id = row[u]
    BY <1>1 DEF TaskRace, Grows, WithProduct
  <1>6. QED
    BY <1>2, <1>3, <1>4, <1>5 DEF TaskRace, Untouched, Grows, Exists

\* A dispatched log is never queued again, whatever happens to its task.
LEMMA QueuedOnceStep == Typed /\ QueuedOnce /\ [Next]_vars => QueuedOnce'
  <1> SUFFICES ASSUME Typed, QueuedOnce, [Next]_vars PROVE QueuedOnce'
    OBVIOUS
  <1> USE DEF QueuedOnce, table, logs, work, requests, history
  <1>1. ASSUME NEW l \in Logs, Receiver(l) PROVE QueuedOnce'
    <2>1. CASE \E e \in Events : ReceiveWebhook(l, e)
      BY <2>1 DEF ReceiveWebhook, Typed, TypeOK
    <2>2. CASE DispatchWebhook(l)
      <3>1. stage'[l] \in {"dispatched", "ended"}
        BY <2>2 DEF DispatchWebhook, Typed, TypeOK
      <3>2. \A k \in Logs \ {l} : stage'[k] = stage[k] /\ pc'[k] = pc[k]
        BY <2>2 DEF DispatchWebhook, Queue, Typed, TypeOK, Tasks
      <3>3. QED
        BY <3>1, <3>2
    <2>3. CASE ReceiverFails(l)
      BY <2>3 DEF ReceiverFails, Typed, TypeOK
    <2>4. QED
      BY <1>1, <2>1, <2>2, <2>3 DEF Receiver
  <1>2. ASSUME NEW t \in Tasks, Work(t) \/ WorkerFails(t) PROVE QueuedOnce'
    <2>1. pc[t] # "none" /\ UNCHANGED stage
      BY <1>2 DEF Work, WorkerFails, StartTask, ProductMissing, ProductFound,
                  ProductAmbiguous, FindUser, CreateUser, Revoke, ReadEnrollment,
                  Reactivate, InsertEnrollment, DatabaseFault, WorkerCrash, Live
    <2>2. \A u \in Tasks \ {t} : pc'[u] = pc[u]
      BY <1>2 DEF Work, WorkerFails, StartTask, ProductMissing, ProductFound,
                  ProductAmbiguous, FindUser, CreateUser, Revoke, ReadEnrollment,
                  Reactivate, InsertEnrollment, DatabaseFault, WorkerCrash, Goto,
                  Retry, Typed, TypeOK
    <2>3. QED
      BY <2>1, <2>2 DEF Tasks
  <1>3. ASSUME NEW r \in Replays, NEW l \in Logs, ReplayWebhook(r, l)
        PROVE  QueuedOnce'
    BY <1>3, IdsAssumption DEF ReplayWebhook, Queue, Typed, TypeOK, Tasks
  <1>4. CASE TestModeExpires \/ (\E b \in Buyers : RegisterUser(b))
    BY <1>4 DEF TestModeExpires, RegisterUser
  <1>5. ASSUME Administration PROVE QueuedOnce'
    <2>1. CASE \E r \in Replays, l \in Logs : ReplayWebhook(r, l)
      BY <1>3, <2>1
    <2>2. CASE ~\E r \in Replays, l \in Logs : ReplayWebhook(r, l)
      BY <1>5, <2>2 DEF Administration, SetTestMode, LinkProduct, AdminCreate,
           AdminBulkEnroll, AdminEnroll, AdminLoad, AdminCommit, AdminDelete,
           AdminBulkStatus, AdminOperation
    <2>3. QED
      BY <2>1, <2>2
  <1>6. CASE UNCHANGED vars
    BY <1>6 DEF vars
  <1>7. QED
    BY <1>1, <1>2, <1>4, <1>5, <1>6 DEF Next

\* A step of task t alone: every other task keeps TaskRace.
LEMMA OthersRace ==
  ASSUME Typed, NEW t \in Tasks, \A u \in Tasks : TaskRace(u), Grows,
         \A u \in Tasks \ {t} : Untouched(u), TaskRace(t)'
  PROVE  \A u \in Tasks : TaskRace(u)'
  <1>1. ASSUME NEW u \in Tasks, u # t PROVE TaskRace(u)'
    BY <1>1, UntouchedRace
  <1>2. QED
    BY <1>1

LEMMA RetryRace ==
  ASSUME Typed, NEW t \in Tasks, Retry(t), retries[t] <= 1
  PROVE  /\ retries'[t] = retries[t] + 1
         /\ pc'[t] = "queued" /\ msg'[t] = msg[t]
         /\ \A u \in Tasks \ {t} : Untouched(u)
  BY DEF Typed, TypeOK, Retry, Goto, AfterFailure, MaxRetries, Untouched

\* The steps of a worker.
LEMMA WorkRace ==
  ASSUME Typed, NEW t \in Tasks, \A u \in Tasks : TaskRace(u),
         Work(t) \/ WorkerFails(t), ~disturbed'
  PROVE  \A u \in Tasks : TaskRace(u)'
  <1> USE DEF table, logs, work, requests, history
  <1>0. /\ TaskRace(t)
        /\ msg \in [Tasks -> Message \cup {None}]
        /\ pc \in [Tasks -> Live \cup Ended \cup {"none"}]
        /\ retries \in [Tasks -> Nat]
        /\ product \in [Tasks -> Products \cup {None}]
        /\ row \in [Tasks -> Nat]
        /\ enrollment \in [Pairs -> Row]
    BY DEF Typed, TypeOK
  <1>1. CASE StartTask(t)
    <2>1. Grows /\ \A u \in Tasks \ {t} : Untouched(u)
      BY <1>0, <1>1 DEF StartTask, Goto, Grows, Untouched, Exists
    <2>2. pc'[t] \in {"done", "lookup"} /\ UNCHANGED <<retries, msg, users, enrollment>>
      BY <1>0, <1>1 DEF StartTask, Goto
    <2>3. TaskRace(t)'
      BY <1>0, <2>1, <2>2 DEF TaskRace, WithProduct, Exists, Linked, Grows
    <2>4. QED
      BY <2>1, <2>3, OthersRace
  <1>2. CASE ProductMissing(t)
    <2>1. Grows /\ \A u \in Tasks \ {t} : Untouched(u)
      BY <1>2 DEF ProductMissing, Goto, Grows, Untouched, Exists
    <2>2. TaskRace(t)'
      BY <1>0, <1>2 DEF ProductMissing, Goto, TaskRace, WithProduct, Exists, Linked
    <2>3. QED
      BY <2>1, <2>2, OthersRace
  <1>3. ASSUME NEW p \in Products, ProductFound(t, p)
        PROVE  \A u \in Tasks : TaskRace(u)'
    <2>1. Grows /\ \A u \in Tasks \ {t} : Untouched(u)
      BY <1>3 DEF ProductFound, Goto, Grows, Untouched, Exists
    <2>2. TaskRace(t)'
      BY <1>0, <1>3 DEF ProductFound, Goto, TaskRace, WithProduct, Exists, Linked
    <2>3. QED
      BY <2>1, <2>2, OthersRace
  <1>4. CASE ProductAmbiguous(t)
    BY <1>4 DEF ProductAmbiguous
  <1>5. CASE FindUser(t)
    <2>1. Grows /\ \A u \in Tasks \ {t} : Untouched(u)
      BY <1>5 DEF FindUser, Goto, Grows, Untouched, Exists
    <2>2. TaskRace(t)'
      BY <1>0, <1>5 DEF FindUser, Goto, TaskRace, WithProduct, Exists, Linked
    <2>3. QED
      BY <2>1, <2>2, OthersRace
  <1>6. CASE CreateUser(t)
    <2>1. Grows
      BY <1>6 DEF CreateUser, Grows, Exists
    <2>2. retries[t] = 0 /\ Linked(msg[t].gw) = {product[t]}
      BY <1>0, <1>6 DEF CreateUser, TaskRace, WithProduct
    <2>3. CASE msg[t].buyer \notin users
      <3>1. TaskRace(t)'
        BY <1>0, <1>6, <2>2, <2>3
           DEF CreateUser, Goto, TaskRace, WithProduct, Exists, Linked
      <3>2. \A u \in Tasks \ {t} : Untouched(u)
        BY <1>0, <1>6, <2>3 DEF CreateUser, Goto, Untouched
      <3>3. QED
        BY <2>1, <3>1, <3>2, OthersRace
    <2>4. CASE msg[t].buyer \in users
      <3>1. Retry(t) /\ UNCHANGED users
        BY <1>6, <2>4 DEF CreateUser
      <3>2. /\ retries'[t] = 1
            /\ pc'[t] = "queued" /\ msg'[t] = msg[t]
            /\ \A u \in Tasks \ {t} : Untouched(u)
        BY <2>2, <3>1, RetryRace
      <3>3. TaskRace(t)'
        BY <2>4, <3>1, <3>2 DEF TaskRace, WithProduct
      <3>4. QED
        BY <2>1, <3>2, <3>3, OthersRace
    <2>5. QED
      BY <2>3, <2>4
  <1>7. CASE Revoke(t)
    <2>1. PairOf(t) \in Pairs
      BY <1>7, PairTyped DEF Revoke, WithProduct
    <2>2. Exists(PairOf(t)) =>
            /\ [enrollment[PairOf(t)] EXCEPT !.status = msg[t].status] # NoRow
            /\ [enrollment[PairOf(t)] EXCEPT !.status = msg[t].status].id
                 = enrollment[PairOf(t)].id
      BY <1>0, <2>1 DEF Exists, Row, NoRow
    <2>3. Grows
      BY <1>0, <1>7, <2>1, <2>2 DEF Revoke, Grows, Exists
    <2>4. \A u \in Tasks \ {t} : Untouched(u)
      BY <1>7 DEF Revoke, Goto, Untouched
    <2>5. ASSUME NEW p \in Products, retries[t] = 2, Linked(msg[t].gw) = {p}
          PROVE  enrollment'[<<msg[t].buyer, p>>] # NoRow
      <3>1. <<msg[t].buyer, p>> \in Pairs /\ Exists(<<msg[t].buyer, p>>)
        BY <1>0, <2>5 DEF TaskRace, Typed, TypeOK, Pairs
      <3>2. QED
        BY <2>3, <3>1 DEF Grows
    <2>6. TaskRace(t)'
      BY <1>0, <1>7, <2>5 DEF Revoke, Goto, TaskRace, WithProduct, Exists, Linked
    <2>7. QED
      BY <2>3, <2>4, <2>6, OthersRace
  <1>8. CASE ReadEnrollment(t)
    <2>1. Grows /\ \A u \in Tasks \ {t} : Untouched(u)
      BY <1>8 DEF ReadEnrollment, Goto, Grows, Untouched, Exists
    <2>2. PairOf(t) \in Pairs /\ product[t] \in Products
      BY <1>8, PairTyped DEF ReadEnrollment, Typed, TaskShape, WithProduct
    <2>3. Linked(msg[t].gw) = {product[t]} /\ msg[t].buyer \in users
      BY <1>0, <1>8 DEF ReadEnrollment, TaskRace, WithProduct
    <2>4. pc'[t] = Decision(enrollment[PairOf(t)])
      BY <1>0, <1>8 DEF ReadEnrollment, Goto
    <2>5. pc'[t] = "insert" => retries[t] <= 1
      BY <1>0, <2>2, <2>3, <2>4 DEF Decision, TaskRace, Exists, PairOf
    <2>6. pc'[t] = "reactivate" => enrollment[PairOf(t)] # NoRow
      BY <2>4 DEF Decision
    <2>7. pc'[t] \in {"insert", "done", "reactivate"}
      BY <2>4 DEF Decision
    <2>8. row'[t] = enrollment[PairOf(t)].id /\ PairOf(t)' = PairOf(t)
      BY <1>0, <1>8 DEF ReadEnrollment, PairOf
    <2>9. TaskRace(t)'
      BY <1>0, <1>8, <2>3, <2>5, <2>6, <2>7, <2>8
         DEF ReadEnrollment, TaskRace, WithProduct, Exists, Linked
    <2>10. QED
      BY <2>1, <2>9, OthersRace
  <1>9. CASE Reactivate(t)
    <2>1. PairOf(t) \in Pairs
      BY <1>9, PairTyped DEF Reactivate, WithProduct
    <2>2. Exists(PairOf(t)) /\ enrollment[PairOf(t)].id = row[t]
      BY <1>0, <1>9 DEF Reactivate, TaskRace
    <2>3. /\ [enrollment[PairOf(t)] EXCEPT !.status = "active"] # NoRow
          /\ [enrollment[PairOf(t)] EXCEPT !.status = "active"].id
               = enrollment[PairOf(t)].id
      BY <1>0, <2>1, <2>2 DEF Exists, Row, NoRow
    <2>4. Grows
      BY <1>0, <1>9, <2>1, <2>2, <2>3 DEF Reactivate, Grows, Exists
    <2>5. \A u \in Tasks \ {t} : Untouched(u)
      BY <1>0, <1>9, <2>2 DEF Reactivate, Goto, Untouched
    <2>6. ASSUME NEW p \in Products, retries[t] = 2, Linked(msg[t].gw) = {p}
          PROVE  enrollment'[<<msg[t].buyer, p>>] # NoRow
      <3>1. <<msg[t].buyer, p>> \in Pairs /\ Exists(<<msg[t].buyer, p>>)
        BY <1>0, <2>6 DEF TaskRace, Typed, TypeOK, Pairs
      <3>2. QED
        BY <2>4, <3>1 DEF Grows
    <2>7. TaskRace(t)'
      BY <1>0, <1>9, <2>2, <2>6
         DEF Reactivate, Goto, TaskRace, WithProduct, Exists, Linked
    <2>8. QED
      BY <2>4, <2>5, <2>7, OthersRace
  <1>10. CASE InsertEnrollment(t)
    <2>1. PairOf(t) \in Pairs
      BY <1>10, PairTyped DEF InsertEnrollment, WithProduct
    <2>2. /\ retries[t] <= 1 /\ msg[t].buyer \in users
          /\ Linked(msg[t].gw) = {product[t]}
      BY <1>0, <1>10 DEF InsertEnrollment, TaskRace, WithProduct
    <2>3. CASE ~Exists(PairOf(t))
      <3>1. NewRow(PairOf(t), "active", "webhook") # NoRow
        BY DEF NewRow, NoRow
      <3>2. Grows
        BY <1>0, <1>10, <2>1, <2>3, <3>1 DEF InsertEnrollment, Grows, Exists
      <3>3. \A u \in Tasks \ {t} : Untouched(u)
        BY <1>0, <1>10, <2>3 DEF InsertEnrollment, Goto, Untouched
      <3>4. TaskRace(t)'
        BY <1>0, <1>10, <2>2, <2>3
           DEF InsertEnrollment, Goto, TaskRace, WithProduct, Exists, Linked
      <3>5. QED
        BY <3>2, <3>3, <3>4, OthersRace
    <2>4. CASE Exists(PairOf(t))
      <3>1. Retry(t) /\ UNCHANGED <<users, catalog, enrollment>>
        BY <1>10, <2>4 DEF InsertEnrollment
      <3>2. /\ retries'[t] = retries[t] + 1
            /\ pc'[t] = "queued" /\ msg'[t] = msg[t]
            /\ \A u \in Tasks \ {t} : Untouched(u)
        BY <2>2, <3>1, RetryRace
      <3>3. \A p \in Products : Linked(msg[t].gw) = {p} => PairOf(t) = <<msg[t].buyer, p>>
        BY <2>2 DEF PairOf
      <3>4. TaskRace(t)'
        BY <1>0, <2>2, <2>4, <3>1, <3>2, <3>3
           DEF TaskRace, WithProduct, Exists, Linked
      <3>5. Grows
        BY <3>1 DEF Grows, Exists
      <3>6. QED
        BY <3>2, <3>4, <3>5, OthersRace
    <2>5. QED
      BY <2>3, <2>4
  <1>11. CASE DatabaseFault(t)
    BY <1>11 DEF DatabaseFault
  <1>12. CASE WorkerCrash(t)
    <2>1. Grows /\ \A u \in Tasks \ {t} : Untouched(u)
      BY <1>12 DEF WorkerCrash, Goto, Grows, Untouched, Exists
    <2>2. TaskRace(t)'
      BY <1>0, <1>12 DEF WorkerCrash, Goto, TaskRace, WithProduct, Exists, Linked
    <2>3. QED
      BY <2>1, <2>2, OthersRace
  <1>13. QED
    BY <1>1, <1>2, <1>3, <1>4, <1>5, <1>6, <1>7, <1>8, <1>9, <1>10, <1>11, <1>12
       DEF Work, WorkerFails

\* A new status leaves the row's identity alone.
LEMMA StatusKeepsRow ==
  ASSUME NEW r \in Row, NEW s, r # NoRow
  PROVE  [r EXCEPT !.status = s] # NoRow /\ [r EXCEPT !.status = s].id = r.id
  BY DEF Row, NoRow

\* A step that touches no task.
LEMMA NobodyRace ==
  ASSUME Typed, \A u \in Tasks : TaskRace(u), Grows, UNCHANGED work
  PROVE  \A u \in Tasks : TaskRace(u)'
  <1>1. \A u \in Tasks : Untouched(u)
    BY DEF Untouched, work
  <1>2. QED
    BY <1>1, UntouchedRace

\* A task that was idle is queued.
LEMMA QueueRace ==
  ASSUME Typed, NEW t \in Tasks, NEW m, \A u \in Tasks : TaskRace(u), Grows,
         pc[t] = "none", Queue(t, m)
  PROVE  \A u \in Tasks : TaskRace(u)'
  <1>1. /\ pc'[t] = "queued"
        /\ retries'[t] = 0
        /\ \A u \in Tasks \ {t} : Untouched(u)
    BY DEF TaskRace, Queue, Untouched, Typed, TypeOK
  <1>2. TaskRace(t)'
    BY <1>1 DEF TaskRace, WithProduct
  <1>3. QED
    BY <1>1, <1>2, OthersRace

LEMMA AdministrationRace ==
  ASSUME Typed, \A u \in Tasks : TaskRace(u), Administration, ~disturbed'
  PROVE  \A u \in Tasks : TaskRace(u)'
  <1> USE DEF table, logs, work, requests, history
  <1>0. enrollment \in [Pairs -> Row]
    BY DEF Typed, TypeOK
  <1>1. CASE SetTestMode
    BY <1>1, NobodyRace DEF SetTestMode, Grows, Exists
  <1>2. ASSUME NEW r \in Replays, NEW l \in Logs, ReplayWebhook(r, l)
        PROVE  \A u \in Tasks : TaskRace(u)'
    <2>1. Grows
      BY <1>2 DEF ReplayWebhook, Grows, Exists
    <2>2. r \in Tasks /\ pc[r] = "none" /\ Queue(r, ReplayMessage(l))
      BY <1>2 DEF ReplayWebhook, Tasks
    <2>3. QED
      BY <2>1, <2>2, QueueRace
  <1>3. ASSUME NEW S \in SUBSET Buyers, NEW p \in Products, NEW s \in EnrollmentStatus,
               AdminEnroll(S, p, s)
        PROVE  \A u \in Tasks : TaskRace(u)'
    <2>1. \A pr \in Pairs : Exists(pr) => pr \notin S \X {p}
      BY <1>3 DEF AdminEnroll
    <2>2. Grows
      BY <1>0, <1>3, <2>1 DEF AdminEnroll, AdminOperation, Grows, Exists
    <2>3. QED
      BY <1>3, <2>2, NobodyRace DEF AdminEnroll, AdminOperation
  <1>4. CASE \E pr \in Pairs, s \in EnrollmentStatus : AdminLoad(pr, s)
    BY <1>4, NobodyRace DEF AdminLoad, Grows, Exists
  <1>5. CASE AdminCommit
    <2>1. admin.pair \in Pairs /\ admin.row > 0
      BY <1>5 DEF AdminCommit, Admin, Typed, TypeOK
    <2>2. CASE enrollment[admin.pair].id = admin.row
      <3>1. enrollment[admin.pair] # NoRow
        BY <2>1, <2>2 DEF NoRow
      <3>2. /\ [enrollment[admin.pair] EXCEPT !.status = admin.new] # NoRow
            /\ [enrollment[admin.pair] EXCEPT !.status = admin.new].id
                 = enrollment[admin.pair].id
        BY <1>0, <2>1, <3>1, StatusKeepsRow
      <3>3. Grows
        BY <1>0, <1>5, <2>1, <3>2 DEF AdminCommit, Grows, Exists
      <3>4. QED
        BY <1>5, <3>3, NobodyRace DEF AdminCommit
    <2>3. CASE enrollment[admin.pair].id # admin.row
      BY <1>5, <2>3, NobodyRace DEF AdminCommit, Grows, Exists
    <2>4. QED
      BY <2>2, <2>3
  <1>6. ASSUME NEW S \in SUBSET Buyers, NEW p \in Products,
               NEW a \in {"suspend", "cancel"}, AdminBulkStatus(S, p, a)
        PROVE  \A u \in Tasks : TaskRace(u)'
    <2>1. ASSUME NEW pr \in Pairs, Exists(pr)
          PROVE  enrollment'[pr] # NoRow /\ enrollment'[pr].id = enrollment[pr].id
      <3>1. enrollment'[pr] \in
              {[enrollment[pr] EXCEPT !.status = Stored(pr, a)], enrollment[pr]}
        BY <1>6 DEF AdminBulkStatus
      <3>2. QED
        BY <1>0, <2>1, <3>1, StatusKeepsRow DEF Exists
    <2>2. Grows
      BY <1>6, <2>1 DEF AdminBulkStatus, AdminOperation, Grows
    <2>3. QED
      BY <1>6, <2>2, NobodyRace DEF AdminBulkStatus, AdminOperation
  <1>7. CASE \E p \in Products, g \in Gateways \cup {None} : LinkProduct(p, g)
    BY <1>7 DEF LinkProduct
  <1>8. CASE \E pr \in Pairs : AdminDelete(pr)
    BY <1>8 DEF AdminDelete
  <1>9. CASE \E b \in Buyers, p \in Products, s \in EnrollmentStatus : AdminCreate(b, p, s)
    BY <1>3, <1>9 DEF AdminCreate
  <1>10. CASE \E S \in SUBSET Buyers, p \in Products : AdminBulkEnroll(S, p)
    BY <1>3, <1>10 DEF AdminBulkEnroll, EnrollmentStatus
  <1>11. QED
    BY <1>1, <1>2, <1>4, <1>5, <1>6, <1>7, <1>8, <1>9, <1>10 DEF Administration

LEMMA RaceStep == Typed /\ RaceInv /\ [Next]_vars => RaceInv'
  <1> SUFFICES ASSUME Typed, RaceInv, [Next]_vars PROVE RaceInv'
    OBVIOUS
  <1> USE DEF table, logs, work, requests, history
  <1>1. QueuedOnce'
    BY QueuedOnceStep DEF RaceInv
  <1>2. ASSUME ~disturbed' PROVE \A u \in Tasks : TaskRace(u)'
    <2>1. ~disturbed
      <3>1. CASE \E l \in Logs : Receiver(l)
        BY <1>2, <3>1 DEF Receiver, ReceiveWebhook, DispatchWebhook, ReceiverFails
      <3>2. CASE \E t \in Tasks : Work(t) \/ WorkerFails(t)
        BY <1>2, <3>2 DEF Work, WorkerFails, StartTask, ProductMissing, ProductFound,
             ProductAmbiguous, FindUser, CreateUser, Revoke, ReadEnrollment,
             Reactivate, InsertEnrollment, DatabaseFault, WorkerCrash
      <3>3. CASE Administration
        BY <1>2, <3>3 DEF Administration, SetTestMode, ReplayWebhook, LinkProduct,
             AdminCreate, AdminBulkEnroll, AdminEnroll, AdminLoad, AdminCommit,
             AdminDelete, AdminBulkStatus
      <3>4. CASE TestModeExpires \/ (\E b \in Buyers : RegisterUser(b)) \/ UNCHANGED vars
        BY <1>2, <3>4 DEF TestModeExpires, RegisterUser, vars
      <3>5. QED
        BY <3>1, <3>2, <3>3, <3>4 DEF Next
    <2>2. \A u \in Tasks : TaskRace(u)
      BY <2>1 DEF RaceInv
    <2>3. ASSUME NEW l \in Logs, Receiver(l) PROVE \A u \in Tasks : TaskRace(u)'
      <3>1. CASE \E e \in Events : ReceiveWebhook(l, e)
        BY <2>2, <3>1, NobodyRace DEF ReceiveWebhook, Grows, Exists
      <3>2. CASE DispatchWebhook(l)
        <4>1. Grows
          BY <3>2 DEF DispatchWebhook, Grows, Exists
        <4>2. l \in Tasks /\ pc[l] = "none"
          BY <3>2 DEF DispatchWebhook, RaceInv, QueuedOnce, Tasks
        <4>3. CASE Queue(l, EventMessage(l))
          BY <2>2, <4>1, <4>2, <4>3, QueueRace
        <4>4. CASE UNCHANGED work
          BY <2>2, <4>1, <4>4, NobodyRace
        <4>5. QED
          BY <3>2, <4>3, <4>4 DEF DispatchWebhook
      <3>3. CASE ReceiverFails(l)
        BY <2>2, <3>3, NobodyRace DEF ReceiverFails, Grows, Exists
      <3>4. QED
        BY <2>3, <3>1, <3>2, <3>3 DEF Receiver
    <2>4. CASE \E t \in Tasks : Work(t) \/ WorkerFails(t)
      BY <1>2, <2>2, <2>4, WorkRace
    <2>5. CASE TestModeExpires
      BY <2>2, <2>5, NobodyRace DEF TestModeExpires, Grows, Exists
    <2>6. CASE \E b \in Buyers : RegisterUser(b)
      BY <2>2, <2>6, NobodyRace DEF RegisterUser, Grows, Exists
    <2>7. CASE Administration
      BY <1>2, <2>2, <2>7, AdministrationRace
    <2>8. CASE UNCHANGED vars
      BY <2>2, <2>8, NobodyRace DEF vars, Grows, Exists
    <2>9. QED
      BY <2>3, <2>4, <2>5, <2>6, <2>7, <2>8 DEF Next
  <1>3. QED
    BY <1>1, <1>2 DEF RaceInv

\* Workers racing for the same user and the same enrollment, sign-ups and
\* administrators never make a task of process_webhook_task use up its three
\* retries; only faults, deleted rows and catalogue edits do.
THEOREM RacesEnd == Spec => []ConcurrencyNeverExhaustsRetries
  <1>1. Init => RaceInv
    BY DEF Init, RaceInv, QueuedOnce, TaskRace, WithProduct, Tasks
  <1>2. RaceInv => ConcurrencyNeverExhaustsRetries
    BY Zenon DEF RaceInv, TaskRace, ConcurrencyNeverExhaustsRetries
  <1>3. QED
    BY <1>1, <1>2, RaceStep, TypeCorrect, PTL DEF Spec

------------------------------------------------------------------------------
(* Which rows a webhook may leave behind                                    *)

\* What authorised a task or a row stays on record.
Recorded ==
  /\ everMapped \subseteq everMapped'
  /\ \A l \in Logs : stage[l] = "dispatched" =>
                       stage'[l] = "dispatched" /\ event'[l] = event[l]

LEMMA EarnedKept ==
  ASSUME Recorded, NEW b, NEW p, Earned(b, p)
  PROVE  Earned(b, p)'
  BY DEF Recorded, Earned

LEMMA UntouchedEarned ==
  ASSUME NEW u \in Tasks, TaskEarned(u), Recorded,
         msg'[u] = msg[u], pc'[u] \in Live => pc[u] \in Live,
         pc'[u] \in WithProduct =>
           pc[u] \in WithProduct /\ product'[u] = product[u]
  PROVE  TaskEarned(u)'
  BY DEF TaskEarned, Recorded, Authorises

\* The step adds no row of a webhook's and links no product.
NoNewRow ==
  /\ catalog' = catalog
  /\ \A b \in Buyers, p \in Products :
       enrollment'[<<b, p>>].by = "webhook" => enrollment[<<b, p>>].by = "webhook"

LEMMA NoNewRowEarned ==
  ASSUME EarnedInv, Recorded, NoNewRow, \A u \in Tasks : TaskEarned(u)'
  PROVE  EarnedInv'
  <1>1. WebhookRowsAreEarned'
    BY EarnedKept DEF EarnedInv, WebhookRowsAreEarned, NoNewRow
  <1>2. QED
    BY <1>1 DEF EarnedInv, NoNewRow, Recorded

\* The steps of a worker.
LEMMA WorkEarned ==
  ASSUME Typed, EarnedInv, NEW t \in Tasks, Work(t) \/ WorkerFails(t)
  PROVE  EarnedInv'
  <1> USE DEF table, logs, work, requests, history
  <1>0. /\ \A u \in Tasks : TaskEarned(u)
        /\ msg \in [Tasks -> Message \cup {None}]
        /\ pc \in [Tasks -> Live \cup Ended \cup {"none"}]
        /\ product \in [Tasks -> Products \cup {None}]
        /\ enrollment \in [Pairs -> Row]
    BY DEF Typed, TypeOK, EarnedInv
  <1>1. Recorded
    BY DEF Recorded, Work, WorkerFails, StartTask, ProductMissing, ProductFound,
           ProductAmbiguous, FindUser, CreateUser, Revoke, ReadEnrollment,
           Reactivate, InsertEnrollment, DatabaseFault, WorkerCrash
  <1>2. UNCHANGED <<msg, catalog>>
    BY DEF Work, WorkerFails, StartTask, ProductMissing, ProductFound, Retry,
           ProductAmbiguous, FindUser, CreateUser, Revoke, ReadEnrollment,
           Reactivate, InsertEnrollment, DatabaseFault, WorkerCrash
  <1>3. ASSUME NEW u \in Tasks, u # t PROVE TaskEarned(u)'
    <2>1. pc'[u] = pc[u] /\ product'[u] = product[u]
      BY <1>0, <1>3
         DEF Work, WorkerFails, StartTask, ProductMissing, ProductFound, Retry, Goto,
           ProductAmbiguous, FindUser, CreateUser, Revoke, ReadEnrollment,
           Reactivate, InsertEnrollment, DatabaseFault, WorkerCrash
    <2>2. QED
      BY <1>0, <1>1, <1>2, <2>1, UntouchedEarned
  <1>4. ASSUME NEW p \in Products, ProductFound(t, p) PROVE EarnedInv'
    <2>1. catalog[p] = msg[t].gw /\ msg[t].gw \in Gateways /\ pc[t] \in Live
      BY <1>4 DEF ProductFound, Linked, Typed, TaskShape, Live
    <2>2. <<p, msg[t].gw>> \in everMapped
      BY <2>1 DEF EarnedInv
    <2>3. product'[t] = p /\ UNCHANGED <<everMapped, stage, event, enrollment>>
      BY <1>0, <1>4 DEF ProductFound
    <2>4. TaskEarned(t)'
      BY <1>0, <1>2, <2>1, <2>2, <2>3 DEF TaskEarned, Authorises
    <2>5. NoNewRow
      BY <1>2, <2>3 DEF NoNewRow
    <2>6. QED
      BY <1>1, <1>3, <2>4, <2>5, NoNewRowEarned
  <1>5. ASSUME ~\E p \in Products : ProductFound(t, p) PROVE TaskEarned(t)'
    <2>1. /\ pc'[t] \in WithProduct => pc[t] \in WithProduct /\ product'[t] = product[t]
          /\ pc'[t] \in Live => pc[t] \in Live
      BY <1>0, <1>5
         DEF Work, WorkerFails, StartTask, ProductMissing, Retry, Goto, Decision,
           AfterFailure, ProductAmbiguous, FindUser, CreateUser, Revoke,
           ReadEnrollment, Reactivate, InsertEnrollment, DatabaseFault, WorkerCrash,
           Live, WithProduct
    <2>2. QED
      BY <1>0, <1>1, <1>2, <2>1, UntouchedEarned
  <1>6. ASSUME InsertEnrollment(t) PROVE EarnedInv'
    <2>1. \A u \in Tasks : TaskEarned(u)'
      <3>1. ~\E p \in Products : ProductFound(t, p)
        BY <1>6 DEF InsertEnrollment, ProductFound
      <3>2. QED
        BY <1>3, <1>5, <3>1
    <2>2. /\ pc[t] = "insert" /\ pc[t] \in Live /\ pc[t] \in WithProduct
          /\ msg[t].gw \in Gateways /\ msg[t].buyer \in Buyers
          /\ msg[t].status = "active" /\ product[t] \in Products
          /\ ~WorkerTestMode
      BY <1>6 DEF InsertEnrollment, Live, WithProduct, Typed, TaskShape
    <2>3. \E l \in Logs : Authorises(l, msg[t].buyer, msg[t].gw)
      BY <1>0, <2>2, NoneAssumption DEF TaskEarned
    <2>4. <<product[t], msg[t].gw>> \in everMapped
      BY <1>0, <2>2 DEF TaskEarned
    <2>5. Earned(msg[t].buyer, product[t])
      BY <2>3, <2>4 DEF Earned, Authorises
    <2>6. ASSUME NEW b \in Buyers, NEW p \in Products,
                 enrollment'[<<b, p>>].by = "webhook"
          PROVE  Earned(b, p) /\ ~WorkerTestMode
      <3>1. CASE <<b, p>> = PairOf(t)
        BY <2>2, <2>5, <3>1 DEF PairOf
      <3>2. CASE <<b, p>> # PairOf(t)
        <4>1. enrollment'[<<b, p>>] = enrollment[<<b, p>>]
          BY <1>0, <1>6, <3>2 DEF InsertEnrollment, Pairs
        <4>2. QED
          BY <2>6, <4>1 DEF EarnedInv, WebhookRowsAreEarned
      <3>3. QED
        BY <3>1, <3>2
    <2>7. WebhookRowsAreEarned'
      BY <1>1, <2>6, EarnedKept DEF WebhookRowsAreEarned
    <2>8. QED
      BY <1>1, <1>2, <2>1, <2>7 DEF EarnedInv, Recorded
  <1>7. ASSUME ~InsertEnrollment(t) PROVE NoNewRow
    <2>1. ASSUME NEW b \in Buyers, NEW p \in Products
          PROVE  enrollment'[<<b, p>>].by = enrollment[<<b, p>>].by
      <3>1. <<b, p>> \in Pairs
        BY DEF Pairs
      <3>2. QED
        BY <1>0, <1>7, <3>1
           DEF Work, WorkerFails, StartTask, ProductMissing, ProductFound,
             ProductAmbiguous, FindUser, CreateUser, Revoke, ReadEnrollment,
             Reactivate, DatabaseFault, WorkerCrash, Row, NoRow
    <2>2. QED
      BY <1>2, <2>1 DEF NoNewRow
  <1>8. QED
    BY <1>1, <1>3, <1>4, <1>5, <1>6, <1>7, NoNewRowEarned

\* Everything that is not a worker's.
LEMMA OthersEarned ==
  ASSUME Typed, EarnedInv, QueuedOnce,
         \/ \E l \in Logs : Receiver(l)
         \/ TestModeExpires
         \/ \E b \in Buyers : RegisterUser(b)
         \/ Administration
         \/ UNCHANGED vars
  PROVE  EarnedInv'
  <1> USE DEF table, logs, work, requests, history
  <1>0. /\ \A u \in Tasks : TaskEarned(u)
        /\ msg \in [Tasks -> Message \cup {None}]
        /\ pc \in [Tasks -> Live \cup Ended \cup {"none"}]
        /\ stage \in [Logs -> {"free", "logged", "dispatched", "ended"}]
        /\ event \in [Logs -> Events \cup {None}]
        /\ enrollment \in [Pairs -> Row]
    BY DEF Typed, TypeOK, EarnedInv
  <1>1. ASSUME Recorded, NoNewRow, UNCHANGED <<msg, pc, product>> PROVE EarnedInv'
    BY <1>0, <1>1, UntouchedEarned, NoNewRowEarned
  <1>2. ASSUME NEW l \in Logs, Receiver(l) PROVE EarnedInv'
    <2>1. CASE \E e \in Events : ReceiveWebhook(l, e)
      <3>1. Recorded /\ NoNewRow
        BY <1>0, <2>1 DEF ReceiveWebhook, Recorded, NoNewRow
      <3>2. QED
        BY <1>1, <2>1, <3>1 DEF ReceiveWebhook
    <2>2. CASE ReceiverFails(l)
      BY <1>0, <1>1, <2>2 DEF ReceiverFails, Recorded, NoNewRow
    <2>3. CASE DispatchWebhook(l)
      <3>1. Recorded /\ NoNewRow
        BY <1>0, <2>3 DEF DispatchWebhook, Recorded, NoNewRow
      <3>2. CASE UNCHANGED work
        BY <1>1, <3>1, <3>2
      <3>3. CASE Accepted(event[l]) /\ Queue(l, EventMessage(l)) /\ stage'[l] = "dispatched"
        <4>1. l \in Tasks /\ pc'[l] = "queued" /\ msg'[l] = EventMessage(l)
          BY <1>0, <3>3 DEF Queue, Tasks
        <4>2. event' = event
          BY <2>3 DEF DispatchWebhook
        <4>3. TaskEarned(l)'
          BY <3>3, <4>1, <4>2
             DEF TaskEarned, Authorises, EventMessage, Accepted, WithProduct
        <4>4. \A u \in Tasks \ {l} : TaskEarned(u)'
          BY <1>0, <3>1, <3>3, UntouchedEarned DEF Queue
        <4>5. QED
          BY <3>1, <4>3, <4>4, NoNewRowEarned
      <3>4. QED
        BY <1>0, <2>3, <3>2, <3>3 DEF DispatchWebhook
    <2>4. QED
      BY <1>2, <2>1, <2>2, <2>3 DEF Receiver
  <1>3. CASE TestModeExpires \/ (\E b \in Buyers : RegisterUser(b)) \/ SetTestMode
    BY <1>1, <1>3 DEF TestModeExpires, RegisterUser, SetTestMode, Recorded, NoNewRow
  <1>4. ASSUME NEW r \in Replays, NEW l \in Logs, ReplayWebhook(r, l) PROVE EarnedInv'
    <2>1. Recorded /\ NoNewRow
      BY <1>4 DEF ReplayWebhook, Recorded, NoNewRow
    <2>2. r \in Tasks /\ pc'[r] = "queued" /\ msg'[r].gw = None
      BY <1>0, <1>4 DEF ReplayWebhook, Queue, Tasks, ReplayMessage
    <2>3. TaskEarned(r)'
      BY <2>2 DEF TaskEarned, WithProduct
    <2>4. \A u \in Tasks \ {r} : TaskEarned(u)'
      BY <1>0, <1>4, <2>1, UntouchedEarned DEF ReplayWebhook, Queue
    <2>5. QED
      BY <2>1, <2>3, <2>4, NoNewRowEarned
  <1>5. ASSUME NEW p \in Products, NEW g \in Gateways \cup {None}, LinkProduct(p, g)
        PROVE  EarnedInv'
    <2>1. Recorded /\ UNCHANGED <<msg, pc, product, enrollment>>
      BY <1>5 DEF LinkProduct, AdminOperation, Recorded
    <2>2. ASSUME NEW q \in Products, NEW h \in Gateways, catalog'[q] = h
          PROVE  <<q, h>> \in everMapped'
      BY <1>5, <2>2 DEF LinkProduct, EarnedInv, Typed, TypeOK
    <2>3. \A u \in Tasks : TaskEarned(u)'
      BY <1>0, <2>1, UntouchedEarned
    <2>4. WebhookRowsAreEarned'
      BY <2>1, EarnedKept DEF EarnedInv, WebhookRowsAreEarned
    <2>5. QED
      BY <2>2, <2>3, <2>4 DEF EarnedInv
  <1>6. ASSUME NEW S \in SUBSET Buyers, NEW p \in Products, NEW s \in EnrollmentStatus,
               AdminEnroll(S, p, s)
        PROVE  EarnedInv'
    <2>1. Recorded /\ UNCHANGED <<msg, pc, product, catalog>>
      BY <1>6 DEF AdminEnroll, AdminOperation, Recorded
    <2>2. NoNewRow
      BY <1>0, <1>6, <2>1 DEF AdminEnroll, NewRow, NoNewRow, Pairs
    <2>3. QED
      BY <1>1, <2>1, <2>2
  <1>7. CASE \E pr \in Pairs, s \in EnrollmentStatus : AdminLoad(pr, s)
    BY <1>1, <1>7 DEF AdminLoad, Recorded, NoNewRow
  <1>8. CASE AdminCommit
    <2>1. admin.pair \in Pairs
      BY <1>8 DEF AdminCommit, Admin, Typed, TypeOK
    <2>2. ASSUME NEW pr \in Pairs PROVE enrollment'[pr].by = enrollment[pr].by
      BY <1>0, <1>8, <2>1 DEF AdminCommit, Row, NoRow
    <2>3. NoNewRow /\ Recorded
      BY <1>8, <2>2 DEF AdminCommit, NoNewRow, Recorded, Pairs
    <2>4. QED
      BY <1>1, <1>8, <2>3 DEF AdminCommit
  <1>9. ASSUME NEW pr \in Pairs, AdminDelete(pr) PROVE EarnedInv'
    <2>1. Recorded /\ UNCHANGED <<msg, pc, product, catalog>>
      BY <1>9 DEF AdminDelete, AdminOperation, Recorded
    <2>2. NoNewRow
      BY <1>0, <1>9, <2>1 DEF AdminDelete, NoRow, NoNewRow, Pairs
    <2>3. QED
      BY <1>1, <2>1, <2>2
  <1>10. ASSUME NEW S \in SUBSET Buyers, NEW p \in Products,
                NEW a \in {"suspend", "cancel"}, AdminBulkStatus(S, p, a)
         PROVE  EarnedInv'
    <2>1. Recorded /\ UNCHANGED <<msg, pc, product, catalog>>
      BY <1>10 DEF AdminBulkStatus, AdminOperation, Recorded
    <2>2. ASSUME NEW pr \in Pairs PROVE enrollment'[pr].by = enrollment[pr].by
      BY <1>0, <1>10 DEF AdminBulkStatus, Row, NoRow
    <2>3. NoNewRow
      BY <2>1, <2>2 DEF NoNewRow, Pairs
    <2>4. QED
      BY <1>1, <2>1, <2>3
  <1>11. CASE Administration
    <2>1. CASE \E b \in Buyers, p \in Products, s \in EnrollmentStatus : AdminCreate(b, p, s)
      BY <1>6, <2>1 DEF AdminCreate
    <2>2. CASE \E S \in SUBSET Buyers, p \in Products : AdminBulkEnroll(S, p)
      BY <1>6, <2>2 DEF AdminBulkEnroll, EnrollmentStatus
    <2>3. QED
      BY <1>3, <1>4, <1>5, <1>7, <1>8, <1>9, <1>10, <1>11, <2>1, <2>2
         DEF Administration
  <1>12. CASE UNCHANGED vars
    BY <1>1, <1>12 DEF vars, Recorded, NoNewRow
  <1>13. QED
    BY <1>2, <1>3, <1>11, <1>12

LEMMA EarnedStep == Typed /\ QueuedOnce /\ EarnedInv /\ [Next]_vars => EarnedInv'
  BY WorkEarned, OthersEarned DEF Next

LEMMA InitEarned == Init => EarnedInv
  <1> SUFFICES ASSUME Init PROVE EarnedInv
    OBVIOUS
  <1>1. \A p \in Products, g \in Gateways : catalog[p] = g => <<p, g>> \in everMapped
    BY DEF Init
  <1>2. \A t \in Tasks : TaskEarned(t)
    BY DEF Init, TaskEarned, Live, WithProduct
  <1>3. WebhookRowsAreEarned
    BY DEF Init, WebhookRowsAreEarned, NoRow, Pairs
  <1>4. QED
    BY <1>1, <1>2, <1>3 DEF EarnedInv

\* A row that process_webhook_task inserted is explained by a logged purchase
\* with a valid signature, whatever was retried, replayed, relinked or lost.
THEOREM RowsEarned == Spec => []WebhookRowsAreEarned
  <1>1. EarnedInv => WebhookRowsAreEarned
    BY DEF EarnedInv
  <1>2. Init => QueuedOnce
    BY DEF Init, QueuedOnce, Tasks
  <1>3. QED
    BY <1>1, <1>2, InitEarned, EarnedStep, QueuedOnceStep, TypeCorrect, PTL DEF Spec

------------------------------------------------------------------------------
(* E-mails and sales                                                        *)

\* Rows are counted before the e-mails about them.
LEMMA WelcomeStep == Typed /\ OneWelcomePerRow /\ [Next]_vars => OneWelcomePerRow'
  <1> SUFFICES ASSUME Typed, OneWelcomePerRow, [Next]_vars PROVE OneWelcomePerRow'
    OBVIOUS
  <1> USE DEF table, logs, work, requests, history
  <1>0. created \in [Pairs -> Nat] /\ welcome \in [Pairs -> Nat]
    BY DEF Typed, TypeOK
  <1>1. CASE UNCHANGED <<created, welcome>>
    BY <1>1 DEF OneWelcomePerRow
  <1>2. ASSUME NEW t \in Tasks, InsertEnrollment(t) PROVE OneWelcomePerRow'
    <2>1. PairOf(t) \in Pairs
      BY <1>2, PairTyped DEF InsertEnrollment, WithProduct
    <2>2. CASE Exists(PairOf(t))
      BY <1>2, <2>2 DEF InsertEnrollment, Welcomes, OneWelcomePerRow
    <2>3. CASE ~Exists(PairOf(t))
      <3>1. /\ created' = [created EXCEPT ![PairOf(t)] = @ + 1]
            /\ \/ welcome' = welcome
               \/ welcome' = [welcome EXCEPT ![PairOf(t)] = @ + 1]
        BY <1>2, <2>3 DEF InsertEnrollment, Welcomes
      <3>2. QED
        BY <1>0, <2>1, <3>1 DEF OneWelcomePerRow
    <2>4. QED
      BY <2>2, <2>3
  <1>3. ASSUME NEW S \in SUBSET Buyers, NEW p \in Products, NEW s \in EnrollmentStatus,
               AdminEnroll(S, p, s)
        PROVE  OneWelcomePerRow'
    BY <1>0, <1>3 DEF AdminEnroll, OneWelcomePerRow
  <1>4. ASSUME NEW l \in Logs, Receiver(l) PROVE OneWelcomePerRow'
    BY <1>1, <1>4 DEF Receiver, ReceiveWebhook, DispatchWebhook, ReceiverFails
  <1>5. ASSUME NEW t \in Tasks, Work(t) \/ WorkerFails(t) PROVE OneWelcomePerRow'
    BY <1>1, <1>2, <1>5
       DEF Work, WorkerFails, StartTask, ProductMissing, ProductFound,
         ProductAmbiguous, FindUser, CreateUser, Revoke, ReadEnrollment,
         Reactivate, DatabaseFault, WorkerCrash
  <1>6. CASE TestModeExpires \/ (\E b \in Buyers : RegisterUser(b)) \/ UNCHANGED vars
    BY <1>1, <1>6 DEF TestModeExpires, RegisterUser, vars
  <1>7. CASE Administration
    <2>1. CASE \E b \in Buyers, p \in Products, s \in EnrollmentStatus : AdminCreate(b, p, s)
      BY <1>3, <2>1 DEF AdminCreate
    <2>2. CASE \E S \in SUBSET Buyers, p \in Products : AdminBulkEnroll(S, p)
      BY <1>3, <2>2 DEF AdminBulkEnroll, EnrollmentStatus
    <2>3. QED
      BY <1>1, <1>7, <2>1, <2>2
         DEF Administration, SetTestMode, ReplayWebhook, LinkProduct, AdminLoad,
           AdminCommit, AdminDelete, AdminBulkStatus
  <1>8. QED
    BY <1>4, <1>5, <1>6, <1>7 DEF Next

\* However often process_webhook_task is retried, a row of the enrollments
\* table is worth at most one access-granted e-mail.
THEOREM WelcomedOnce == Spec => []OneWelcomePerRow
  <1>1. Init => OneWelcomePerRow
    BY DEF Init, OneWelcomePerRow
  <1>2. QED
    BY <1>1, WelcomeStep, TypeCorrect, PTL DEF Spec

\* An execution that has not looked its product up holds none; a purchase that
\* held one and is done left a row.
SaleOf(t) ==
  /\ pc[t] \in {"none", "queued", "lookup"} => product[t] = None
  /\ product[t] # None => PairOf(t) \in Pairs
  /\ pc[t] = "done" /\ msg[t].status = "active" /\ product[t] # None
       => created[PairOf(t)] > 0

\* A row that exists was counted when it was made.
SaleInv ==
  /\ \A pr \in Pairs : Exists(pr) => created[pr] > 0
  /\ \A t \in Tasks : SaleOf(t)

LEMMA SaleStep == Typed /\ QueuedOnce /\ SaleInv /\ [Next]_vars => SaleInv'
  <1> SUFFICES ASSUME Typed, QueuedOnce, SaleInv, [Next]_vars PROVE SaleInv'
    OBVIOUS
  <1> USE DEF table, logs, work, requests, history
  <1>0. /\ created \in [Pairs -> Nat]
        /\ enrollment \in [Pairs -> Row]
        /\ msg \in [Tasks -> Message \cup {None}]
        /\ pc \in [Tasks -> Live \cup Ended \cup {"none"}]
        /\ product \in [Tasks -> Products \cup {None}]
    BY DEF Typed, TypeOK
  <1>a. created' \in [Pairs -> Nat]
    BY NextTyped DEF Typed, TypeOK
  <1>1. \A pr \in Pairs : created'[pr] >= created[pr]
    <2>1. ASSUME NEW t \in Tasks, InsertEnrollment(t)
          PROVE  \A pr \in Pairs : created'[pr] >= created[pr]
      BY <1>0, <2>1 DEF InsertEnrollment
    <2>2. ASSUME NEW S \in SUBSET Buyers, NEW p \in Products,
                 NEW s \in EnrollmentStatus, AdminEnroll(S, p, s)
          PROVE  \A pr \in Pairs : created'[pr] >= created[pr]
      BY <1>0, <2>2 DEF AdminEnroll
    <2>3. CASE UNCHANGED created
      BY <1>0, <2>3
    <2>4. QED
      BY <2>1, <2>2, <2>3
         DEF Next, vars, Receiver, ReceiveWebhook, DispatchWebhook, ReceiverFails,
           Work, WorkerFails, StartTask, ProductMissing, ProductFound,
           ProductAmbiguous, FindUser, CreateUser, Revoke, ReadEnrollment,
           Reactivate, DatabaseFault, WorkerCrash, TestModeExpires, RegisterUser,
           Administration, SetTestMode, ReplayWebhook, LinkProduct, AdminLoad,
           AdminCommit, AdminDelete, AdminBulkStatus, AdminCreate, AdminBulkEnroll,
           EnrollmentStatus
  <1>2. ASSUME NEW pr \in Pairs, enrollment'[pr] # NoRow
        PROVE  created'[pr] > 0
    <2>1. CASE enrollment[pr] # NoRow
      BY <1>0, <1>a, <1>1, <2>1 DEF SaleInv, Exists
    <2>2. ASSUME NEW t \in Tasks, InsertEnrollment(t) PROVE created'[pr] > 0
      <3>1. PairOf(t) \in Pairs
        BY <2>2, PairTyped DEF InsertEnrollment, WithProduct
      <3>2. CASE pr = PairOf(t) /\ ~Exists(pr)
        BY <1>0, <2>2, <3>2 DEF InsertEnrollment
      <3>3. CASE pr # PairOf(t) \/ Exists(pr)
        <4>1. enrollment[pr] # NoRow
          BY <1>0, <1>2, <2>2, <3>1, <3>3 DEF InsertEnrollment, Exists
        <4>2. QED
          BY <2>1, <4>1
      <3>4. QED
        BY <3>2, <3>3
    <2>3. ASSUME NEW S \in SUBSET Buyers, NEW p \in Products,
                 NEW s \in EnrollmentStatus, AdminEnroll(S, p, s)
          PROVE  created'[pr] > 0
      <3>1. CASE pr \in S \X {p}
        BY <1>0, <2>3, <3>1 DEF AdminEnroll
      <3>2. CASE pr \notin S \X {p}
        BY <1>2, <2>1, <2>3, <3>2 DEF AdminEnroll
      <3>3. QED
        BY <3>1, <3>2
    <2>4. ASSUME NEW t \in Tasks, Reactivate(t) PROVE created'[pr] > 0
      <3>1. row[t] > 0 /\ PairOf(t) \in Pairs
        BY <2>4, PairTyped DEF Reactivate, Typed, TaskShape, WithProduct
      <3>2. enrollment[pr] # NoRow
        BY <1>0, <1>2, <2>4, <3>1 DEF Reactivate, NoRow
      <3>3. QED
        BY <2>1, <3>2
    <2>5. ASSUME NEW t \in Tasks, Revoke(t) PROVE created'[pr] > 0
      BY <1>0, <1>2, <2>1, <2>5 DEF Revoke, Exists
    <2>6. CASE AdminCommit
      <3>1. admin.pair \in Pairs /\ admin.row > 0
        BY <2>6 DEF AdminCommit, Admin, Typed, TypeOK
      <3>2. enrollment[pr] # NoRow
        BY <1>0, <1>2, <2>6, <3>1 DEF AdminCommit, NoRow
      <3>3. QED
        BY <2>1, <3>2
    <2>7. ASSUME NEW q \in Pairs, AdminDelete(q) PROVE created'[pr] > 0
      BY <1>0, <1>2, <2>1, <2>7 DEF AdminDelete
    <2>8. ASSUME NEW S \in SUBSET Buyers, NEW p \in Products,
                 NEW a \in {"suspend", "cancel"}, AdminBulkStatus(S, p, a)
          PROVE  created'[pr] > 0
      BY <1>0, <1>2, <2>1, <2>8 DEF AdminBulkStatus, Exists
    <2>9. CASE UNCHANGED enrollment
      BY <1>2, <2>1, <2>9
    <2>10. QED
      BY <2>2, <2>3, <2>4, <2>5, <2>6, <2>7, <2>8, <2>9
         DEF Next, vars, Receiver, ReceiveWebhook, DispatchWebhook, ReceiverFails,
           Work, WorkerFails, StartTask, ProductMissing, ProductFound,
           ProductAmbiguous, FindUser, CreateUser, ReadEnrollment,
           DatabaseFault, WorkerCrash, TestModeExpires, RegisterUser,
           Administration, SetTestMode, ReplayWebhook, LinkProduct, AdminLoad,
           AdminCreate, AdminBulkEnroll, EnrollmentStatus
  <1>3. ASSUME NEW u \in Tasks, pc'[u] = pc[u], msg'[u] = msg[u], product'[u] = product[u]
        PROVE  SaleOf(u)'
    BY <1>0, <1>a, <1>1, <1>3 DEF SaleInv, SaleOf, PairOf
  <1>4. ASSUME NEW t \in Tasks, Work(t) \/ WorkerFails(t) PROVE SaleOf(t)'
    <2>1. CASE StartTask(t)
      BY <1>0, <2>1 DEF StartTask, Goto, SaleInv, SaleOf
    <2>2. CASE ProductMissing(t)
      BY <1>0, <2>2 DEF ProductMissing, Goto, SaleInv, SaleOf
    <2>3. ASSUME NEW p \in Products, ProductFound(t, p) PROVE SaleOf(t)'
      <3>1. msg[t].buyer \in Buyers
        BY <2>3 DEF ProductFound, Typed, TaskShape
      <3>2. QED
        BY <1>0, <2>3, <3>1 DEF ProductFound, Goto, SaleOf, PairOf, Pairs
    <2>4. ASSUME Retry(t) PROVE SaleOf(t)'
      BY <1>0, <2>4 DEF Retry, Goto, AfterFailure, SaleOf
    <2>5. CASE FindUser(t)
      BY <1>0, <2>5 DEF FindUser, Goto, SaleInv, SaleOf, PairOf
    <2>6. CASE CreateUser(t)
      BY <1>0, <2>4, <2>6 DEF CreateUser, Goto, SaleInv, SaleOf, PairOf
    <2>7. CASE Revoke(t)
      BY <1>0, <2>7 DEF Revoke, Goto, SaleInv, SaleOf, PairOf
    <2>8. CASE ReadEnrollment(t)
      <3>1. PairOf(t) \in Pairs
        BY <2>8, PairTyped DEF ReadEnrollment, WithProduct
      <3>2. pc'[t] = Decision(enrollment[PairOf(t)])
        BY <1>0, <2>8 DEF ReadEnrollment, Goto
      <3>3. pc'[t] = "done" => created[PairOf(t)] > 0
        BY <3>1, <3>2 DEF Decision, SaleInv, Exists
      <3>4. pc'[t] \in {"insert", "done", "reactivate"}
        BY <3>2 DEF Decision
      <3>5. QED
        BY <2>8, <3>1, <3>3, <3>4 DEF ReadEnrollment, SaleOf, PairOf
    <2>9. CASE Reactivate(t)
      <3>1. PairOf(t) \in Pairs /\ row[t] > 0
        BY <2>9, PairTyped DEF Reactivate, Typed, TaskShape, WithProduct
      <3>2. CASE enrollment[PairOf(t)].id = row[t]
        <4>1. created[PairOf(t)] > 0
          BY <3>1, <3>2 DEF SaleInv, Exists, NoRow
        <4>2. QED
          BY <1>0, <2>9, <3>1, <3>2, <4>1 DEF Reactivate, Goto, SaleOf, PairOf
      <3>3. CASE enrollment[PairOf(t)].id # row[t]
        BY <2>4, <2>9, <3>3 DEF Reactivate
      <3>4. QED
        BY <3>2, <3>3
    <2>10. CASE InsertEnrollment(t)
      <3>1. PairOf(t) \in Pairs
        BY <2>10, PairTyped DEF InsertEnrollment, WithProduct
      <3>2. CASE ~Exists(PairOf(t))
        <4>1. created'[PairOf(t)] > 0
          BY <1>0, <2>10, <3>1, <3>2 DEF InsertEnrollment
        <4>2. QED
          BY <1>0, <2>10, <3>1, <3>2, <4>1 DEF InsertEnrollment, Goto, SaleOf, PairOf
      <3>3. CASE Exists(PairOf(t))
        BY <2>4, <2>10, <3>3 DEF InsertEnrollment
      <3>4. QED
        BY <3>2, <3>3
    <2>11. CASE WorkerCrash(t)
      BY <1>0, <2>11 DEF WorkerCrash, Goto, SaleInv, SaleOf, PairOf
    <2>12. QED
      BY <1>4, <2>1, <2>2, <2>3, <2>4, <2>5, <2>6, <2>7, <2>8, <2>9, <2>10, <2>11
         DEF Work, WorkerFails, ProductAmbiguous, DatabaseFault
  <1>5. ASSUME NEW t \in Tasks, NEW m, pc[t] = "none", Queue(t, m)
        PROVE  \A u \in Tasks : SaleOf(u)'
    <2>1. SaleOf(t)'
      BY <1>0, <1>5 DEF Queue, SaleInv, SaleOf
    <2>2. \A u \in Tasks \ {t} : SaleOf(u)'
      BY <1>0, <1>3, <1>5 DEF Queue
    <2>3. QED
      BY <2>1, <2>2
  <1>6. \A u \in Tasks : SaleOf(u)'
    <2>1. CASE \E t \in Tasks : Work(t) \/ WorkerFails(t)
      <3>1. PICK t \in Tasks : Work(t) \/ WorkerFails(t)
        BY <2>1
      <3>2. ASSUME NEW u \in Tasks, u # t PROVE SaleOf(u)'
        <4>1. pc'[u] = pc[u] /\ msg'[u] = msg[u] /\ product'[u] = product[u]
          BY <1>0, <3>1, <3>2
             DEF Work, WorkerFails, StartTask, ProductMissing, ProductFound, Retry,
               Goto, ProductAmbiguous, FindUser, CreateUser, Revoke, ReadEnrollment,
               Reactivate, InsertEnrollment, DatabaseFault, WorkerCrash
        <4>2. QED
          BY <1>3, <4>1
      <3>3. QED
        BY <1>4, <3>1, <3>2
    <2>2. CASE UNCHANGED work
      BY <1>3, <2>2
    <2>3. ASSUME NEW l \in Logs, DispatchWebhook(l) PROVE \A u \in Tasks : SaleOf(u)'
      <3>1. l \in Tasks /\ pc[l] = "none"
        BY <2>3 DEF DispatchWebhook, QueuedOnce, Tasks
      <3>2. Queue(l, EventMessage(l)) \/ UNCHANGED work
        BY <2>3 DEF DispatchWebhook
      <3>3. QED
        BY <1>5, <2>2, <3>1, <3>2
    <2>4. ASSUME NEW r \in Replays, NEW l \in Logs, ReplayWebhook(r, l)
          PROVE  \A u \in Tasks : SaleOf(u)'
      BY <1>5, <2>4 DEF ReplayWebhook, Tasks
    <2>5. QED
      BY <2>1, <2>2, <2>3, <2>4
         DEF Next, vars, Receiver, ReceiveWebhook, ReceiverFails, TestModeExpires,
           RegisterUser, Administration, SetTestMode, LinkProduct, AdminCreate,
           AdminBulkEnroll, AdminEnroll, AdminLoad, AdminCommit, AdminDelete,
           AdminBulkStatus, AdminOperation
  <1>7. QED
    BY <1>2, <1>6 DEF SaleInv, Exists

\* A purchase task that returned after finding its product did leave a row,
\* even if its decision was based on a row that others changed meanwhile.
THEOREM SalesKept == Spec => []DonePurchaseLeftARow
  <1>1. Init => SaleInv /\ QueuedOnce
    BY DEF Init, SaleInv, SaleOf, QueuedOnce, Exists, Tasks
  <1>2. SaleInv => DonePurchaseLeftARow
    BY DEF SaleInv, SaleOf, DonePurchaseLeftARow
  <1>3. QED
    BY <1>1, <1>2, SaleStep, QueuedOnceStep, TypeCorrect, PTL DEF Spec
------------------------------------------------------------------------------
(* AccessLifecycle is implemented                                           *)

\* A dispatched webhook said what message m says.
Says(l, m) ==
  /\ stage[l] = "dispatched"
  /\ event[l].buyer = m.buyer
  /\ event[l].gw = m.gw
  /\ event[l].status = m.status

\* A task that names a product and a buyer repeats a webhook, refunds included.
TaskRepeats(t) ==
  pc[t] \in Live /\ msg[t].gw # None /\ msg[t].buyer # None
    => \E l \in Logs : Says(l, msg[t])

RepeatsInv == \A t \in Tasks : TaskRepeats(t)

LEMMA RecordedStep ==
  ASSUME Typed, [Next]_vars
  PROVE  Recorded
  <1> USE DEF table, logs, work, requests, history
  <1>1. /\ stage \in [Logs -> {"free", "logged", "dispatched", "ended"}]
        /\ event \in [Logs -> Events \cup {None}]
    BY DEF Typed, TypeOK
  <1>2. ASSUME NEW l \in Logs, Receiver(l) PROVE Recorded
    BY <1>1, <1>2 DEF Receiver, ReceiveWebhook, DispatchWebhook, ReceiverFails, Recorded
  <1>3. ASSUME NEW t \in Tasks, Work(t) \/ WorkerFails(t) PROVE Recorded
    BY <1>3 DEF Recorded, Work, WorkerFails, StartTask, ProductMissing, ProductFound,
      ProductAmbiguous, FindUser, CreateUser, Revoke, ReadEnrollment, Reactivate,
      InsertEnrollment, DatabaseFault, WorkerCrash
  <1>4. CASE Administration
    BY <1>4 DEF Recorded, Administration, SetTestMode, ReplayWebhook, LinkProduct,
      AdminCreate, AdminBulkEnroll, AdminEnroll, AdminOperation, AdminLoad, AdminCommit,
      AdminDelete, AdminBulkStatus
  <1>5. CASE TestModeExpires \/ (\E b \in Buyers : RegisterUser(b)) \/ UNCHANGED vars
    BY <1>5 DEF Recorded, TestModeExpires, RegisterUser, vars
  <1>6. QED
    BY <1>2, <1>3, <1>4, <1>5 DEF Next

LEMMA RepeatsKept ==
  ASSUME NEW u \in Tasks, TaskRepeats(u), Recorded,
         msg'[u] = msg[u], pc'[u] \in Live => pc[u] \in Live
  PROVE  TaskRepeats(u)'
  BY DEF TaskRepeats, Recorded, Says

LEMMA RepeatsStep == Typed /\ QueuedOnce /\ RepeatsInv /\ [Next]_vars => RepeatsInv'
  <1> SUFFICES ASSUME Typed, QueuedOnce, RepeatsInv, [Next]_vars PROVE RepeatsInv'
    OBVIOUS
  <1> USE DEF table, logs, work, requests, history
  <1>0. /\ \A u \in Tasks : TaskRepeats(u)
        /\ msg \in [Tasks -> Message \cup {None}]
        /\ pc \in [Tasks -> Live \cup Ended \cup {"none"}]
        /\ stage \in [Logs -> {"free", "logged", "dispatched", "ended"}]
    BY DEF Typed, TypeOK, RepeatsInv
  <1>1. Recorded
    BY RecordedStep
  <1>2. ASSUME UNCHANGED <<msg, pc>> PROVE RepeatsInv'
    BY <1>0, <1>1, <1>2, RepeatsKept DEF RepeatsInv
  <1>3. ASSUME NEW l \in Logs, DispatchWebhook(l) PROVE RepeatsInv'
    <2>1. CASE UNCHANGED work
      BY <1>2, <2>1
    <2>2. CASE Queue(l, EventMessage(l)) /\ stage'[l] = "dispatched"
      <3>1. l \in Tasks /\ msg'[l] = EventMessage(l) /\ event' = event
        BY <1>0, <1>3, <2>2 DEF Queue, Tasks, DispatchWebhook
      <3>2. TaskRepeats(l)'
        BY <2>2, <3>1 DEF TaskRepeats, Says, EventMessage
      <3>3. \A u \in Tasks \ {l} : TaskRepeats(u)'
        BY <1>0, <1>1, <2>2, RepeatsKept DEF Queue
      <3>4. QED
        BY <3>2, <3>3 DEF RepeatsInv
    <2>3. QED
      BY <1>0, <1>3, <2>1, <2>2 DEF DispatchWebhook
  <1>4. ASSUME NEW r \in Replays, NEW l \in Logs, ReplayWebhook(r, l) PROVE RepeatsInv'
    <2>1. r \in Tasks /\ msg'[r].gw = None
      BY <1>0, <1>4 DEF ReplayWebhook, Queue, Tasks, ReplayMessage
    <2>2. TaskRepeats(r)'
      BY <2>1 DEF TaskRepeats
    <2>3. \A u \in Tasks \ {r} : TaskRepeats(u)'
      BY <1>0, <1>1, <1>4, RepeatsKept DEF ReplayWebhook, Queue
    <2>4. QED
      BY <2>2, <2>3 DEF RepeatsInv
  <1>5. ASSUME NEW t \in Tasks, Work(t) \/ WorkerFails(t) PROVE RepeatsInv'
    <2>1. msg' = msg
      BY <1>5 DEF Work, WorkerFails, StartTask, ProductMissing, ProductFound, Retry,
           ProductAmbiguous, FindUser, CreateUser, Revoke, ReadEnrollment,
           Reactivate, InsertEnrollment, DatabaseFault, WorkerCrash
    <2>2. \A u \in Tasks : pc'[u] \in Live => pc[u] \in Live
      BY <1>0, <1>5
         DEF Work, WorkerFails, StartTask, ProductMissing, ProductFound, Retry, Goto,
           ProductAmbiguous, FindUser, CreateUser, Revoke, ReadEnrollment,
           Reactivate, InsertEnrollment, DatabaseFault, WorkerCrash, Live
    <2>3. QED
      BY <1>0, <1>1, <2>1, <2>2, RepeatsKept DEF RepeatsInv
  <1>6. CASE Administration
    BY <1>2, <1>4, <1>6
       DEF Administration, SetTestMode, LinkProduct, AdminCreate, AdminBulkEnroll,
         AdminEnroll, AdminOperation, AdminLoad, AdminCommit, AdminDelete, AdminBulkStatus
  <1>7. CASE TestModeExpires \/ (\E b \in Buyers : RegisterUser(b)) \/ UNCHANGED vars
    BY <1>2, <1>7 DEF TestModeExpires, RegisterUser, vars
  <1>8. ASSUME NEW l \in Logs, Receiver(l) PROVE RepeatsInv'
    BY <1>2, <1>3, <1>8 DEF Receiver, ReceiveWebhook, ReceiverFails
  <1>9. QED
    BY <1>5, <1>6, <1>7, <1>8 DEF Next

\* The access the table gives.
Given == [pr \in Pairs |-> enrollment[pr].status]

\* What is announced stays announced.
LEMMA AnnouncedGrows ==
  ASSUME Recorded
  PROVE  Announced \subseteq Announced'
  BY DEF Recorded, Announced

LEMMA AnnouncedStays ==
  ASSUME UNCHANGED <<stage, event, everMapped>>
  PROVE  Announced' = Announced
  BY DEF Announced

\* A worker that holds a product acts on an announcement.
LEMMA TaskAnnounced ==
  ASSUME Typed, EarnedInv, RepeatsInv, NEW t \in Tasks, pc[t] \in WithProduct
  PROVE  <<PairOf(t), msg[t].status>> \in Announced
  <1>1. /\ msg[t].gw \in Gateways /\ msg[t].buyer \in Buyers
        /\ product[t] \in Products /\ msg[t].status \in EventStatus
    BY DEF Typed, TaskShape, WithProduct, Message
  <1>2. pc[t] \in Live
    BY DEF WithProduct, Live
  <1>3. \E l \in Logs : Says(l, msg[t])
    BY <1>1, <1>2, NoneAssumption DEF RepeatsInv, TaskRepeats
  <1>4. <<product[t], msg[t].gw>> \in everMapped
    BY DEF EarnedInv, TaskEarned
  <1>5. QED
    BY <1>1, <1>3, <1>4 DEF Announced, Says, PairOf, Pairs

\* One row changes.
LEMMA GivenExcept ==
  ASSUME enrollment \in [Pairs -> Row], NEW pr \in Pairs, NEW r,
         enrollment' = [enrollment EXCEPT ![pr] = r]
  PROVE  Given' = [Given EXCEPT ![pr] = r.status]
  BY DEF Given

LEMMA GivenStatus ==
  ASSUME enrollment \in [Pairs -> Row], NEW pr \in Pairs, NEW s,
         enrollment' = [enrollment EXCEPT ![pr].status = s]
  PROVE  Given' = [Given EXCEPT ![pr] = s]
  <1> DEFINE r == [enrollment[pr] EXCEPT !.status = s]
  <1>1. enrollment[pr] \in Row
    OBVIOUS
  <1>2. r.status = s
    BY <1>1 DEF Row, NoRow
  <1>3. enrollment' = [enrollment EXCEPT ![pr] = r]
    OBVIOUS
  <1> HIDE DEF r
  <1>4. QED
    BY <1>2, <1>3, GivenExcept

\* Every step is one of AccessLifecycle, or does not touch what it speaks of.
LEMMA AccessStep ==
  Typed /\ EarnedInv /\ RepeatsInv /\ [Next]_vars => [Access!Next]_(Access!vars)
  <1> SUFFICES ASSUME Typed, EarnedInv, RepeatsInv, [Next]_vars
               PROVE  [Access!Next]_(Access!vars)
    OBVIOUS
  <1> USE DEF table, logs, work, requests, history
  <1>0. enrollment \in [Pairs -> Row]
    BY DEF Typed, TypeOK
  <1>1. Announced \subseteq Announced'
    BY RecordedStep, AnnouncedGrows
  <1>2. ASSUME UNCHANGED enrollment, adminOps' \in {adminOps, adminOps + 1}
        PROVE  [Access!Next]_(Access!vars)
    BY <1>1, <1>2 DEF Access!Next, Access!Announce
  <1>3. ASSUME NEW pr \in Pairs, NEW s \in {"active", "refunded", "cancelled"},
               <<pr, s>> \in Announced, s = "active" \/ Given[pr] # "none",
               Given' = [Given EXCEPT ![pr] = s],
               UNCHANGED <<stage, event, everMapped, adminOps>>
        PROVE  [Access!Next]_(Access!vars)
    <2>1. CASE s = "active"
      BY <1>3, <2>1, AnnouncedStays DEF Access!Next, Access!Open, Given
    <2>2. CASE s # "active"
      <3>1. Access!Close(pr, s)
        BY <1>3, <2>2, AnnouncedStays DEF Access!Close, Given
      <3>2. QED
        BY <3>1 DEF Access!Next, EnrollmentStatus
    <2>3. QED
      BY <2>1, <2>2
  <1>4. ASSUME NEW t \in Tasks, Revoke(t) PROVE [Access!Next]_(Access!vars)
    <2>1. pc[t] \in WithProduct /\ PairOf(t) \in Pairs
      BY <1>4, PairTyped DEF Revoke, WithProduct
    <2>2. /\ msg[t].status \in {"refunded", "cancelled"}
          /\ UNCHANGED <<stage, event, everMapped, adminOps>>
      BY <1>4 DEF Revoke
    <2>3. CASE ~Exists(PairOf(t))
      BY <1>2, <1>4, <2>3 DEF Revoke
    <2>4. CASE Exists(PairOf(t))
      <3>1. enrollment' = [enrollment EXCEPT ![PairOf(t)].status = msg[t].status]
        BY <1>4, <2>4 DEF Revoke
      <3>2. Given' = [Given EXCEPT ![PairOf(t)] = msg[t].status]
        BY <1>0, <2>1, <3>1, GivenStatus
      <3>3. Given[PairOf(t)] # "none"
        BY <1>0, <2>1, <2>4 DEF Given, Exists, Row, EnrollmentStatus
      <3>4. QED
        BY <1>3, <2>1, <2>2, <3>2, <3>3, TaskAnnounced
    <2>5. QED
      BY <2>3, <2>4
  <1>5. ASSUME NEW t \in Tasks, Reactivate(t) PROVE [Access!Next]_(Access!vars)
    <2>1. pc[t] \in WithProduct /\ PairOf(t) \in Pairs /\ msg[t].status = "active"
      BY <1>5, PairTyped DEF Reactivate, WithProduct, Typed, TaskShape
    <2>2. UNCHANGED <<stage, event, everMapped, adminOps>>
      BY <1>5 DEF Reactivate
    <2>3. CASE UNCHANGED enrollment
      BY <1>2, <2>2, <2>3
    <2>4. CASE enrollment' = [enrollment EXCEPT ![PairOf(t)].status = "active"]
      <3>1. Given' = [Given EXCEPT ![PairOf(t)] = "active"]
        BY <1>0, <2>1, <2>4, GivenStatus
      <3>2. QED
        BY <1>3, <2>1, <2>2, <3>1, TaskAnnounced
    <2>5. QED
      BY <1>5, <2>3, <2>4 DEF Reactivate
  <1>6. ASSUME NEW t \in Tasks, InsertEnrollment(t) PROVE [Access!Next]_(Access!vars)
    <2>1. pc[t] \in WithProduct /\ PairOf(t) \in Pairs /\ msg[t].status = "active"
      BY <1>6, PairTyped DEF InsertEnrollment, WithProduct, Typed, TaskShape
    <2>2. UNCHANGED <<stage, event, everMapped, adminOps>>
      BY <1>6 DEF InsertEnrollment
    <2>3. CASE UNCHANGED enrollment
      BY <1>2, <2>2, <2>3
    <2>4. CASE enrollment' = [enrollment EXCEPT
                 ![PairOf(t)] = NewRow(PairOf(t), "active", "webhook")]
      <3>1. NewRow(PairOf(t), "active", "webhook").status = "active"
        BY DEF NewRow
      <3>2. Given' = [Given EXCEPT ![PairOf(t)] = "active"]
        BY <1>0, <2>1, <2>4, <3>1, GivenExcept
      <3>3. QED
        BY <1>3, <2>1, <2>2, <3>2, TaskAnnounced
    <2>5. QED
      BY <1>6, <2>3, <2>4 DEF InsertEnrollment
  <1>7. ASSUME NEW t \in Tasks, Work(t) \/ WorkerFails(t)
        PROVE  [Access!Next]_(Access!vars)
    BY <1>2, <1>4, <1>5, <1>6, <1>7
       DEF Work, WorkerFails, StartTask, ProductMissing, ProductFound,
         ProductAmbiguous, FindUser, CreateUser, ReadEnrollment, DatabaseFault,
         WorkerCrash
  <1>8. ASSUME NEW pr \in Pairs, NEW s \in EnrollmentStatus \cup {"none"},
               Given' = [Given EXCEPT ![pr] = s], adminOps' = adminOps + 1,
               UNCHANGED <<stage, event, everMapped>>
        PROVE  [Access!Next]_(Access!vars)
    <2>1. Access!Administer(pr, s)
      BY <1>8, AnnouncedStays DEF Access!Administer, Given
    <2>2. QED
      BY <2>1 DEF Access!Next
  <1>9. ASSUME NEW S \in SUBSET Buyers, NEW p \in Products, NEW s \in EnrollmentStatus,
               AdminEnroll(S, p, s)
        PROVE  /\ \A pr \in S \X {p} : Given[pr] = "none"
               /\ Given' = [pr \in Pairs |-> IF pr \in S \X {p} THEN s ELSE Given[pr]]
               /\ adminOps' = adminOps + 1
               /\ UNCHANGED <<stage, event, everMapped>>
    BY <1>0, <1>9
       DEF AdminEnroll, AdminOperation, Given, NewRow, Exists, NoRow, Pairs
  <1>10. ASSUME NEW b \in Buyers, NEW p \in Products, NEW s \in EnrollmentStatus,
                AdminCreate(b, p, s)
         PROVE  [Access!Next]_(Access!vars)
    <2>1. /\ Given' = [pr \in Pairs |-> IF pr \in {b} \X {p} THEN s ELSE Given[pr]]
          /\ adminOps' = adminOps + 1
          /\ UNCHANGED <<stage, event, everMapped>>
      BY <1>0, <1>10
         DEF AdminCreate, AdminEnroll, AdminOperation, Given, NewRow, Pairs
    <2>2. <<b, p>> \in Pairs /\ {b} \X {p} = {<<b, p>>}
      BY DEF Pairs
    <2>3. Given' = [Given EXCEPT ![<<b, p>>] = s]
      BY <2>1, <2>2 DEF Given
    <2>4. QED
      BY <1>8, <2>1, <2>2, <2>3
  <1>11. ASSUME NEW S \in SUBSET Buyers, NEW p \in Products, AdminBulkEnroll(S, p)
         PROVE  [Access!Next]_(Access!vars)
    <2>1. /\ \A pr \in S \X {p} : Given[pr] = "none"
          /\ Given' = [pr \in Pairs |-> IF pr \in S \X {p} THEN "active" ELSE Given[pr]]
          /\ adminOps' = adminOps + 1
          /\ UNCHANGED <<stage, event, everMapped>>
      BY <1>9, <1>11 DEF AdminBulkEnroll, EnrollmentStatus
    <2>2. Access!EnrollMany(S \X {p})
      BY <2>1, AnnouncedStays DEF Access!EnrollMany, Given
    <2>3. S \X {p} \in SUBSET Pairs
      BY DEF Pairs
    <2>4. QED
      BY <2>2, <2>3 DEF Access!Next
  <1>12. CASE AdminCommit
    <2>1. CASE UNCHANGED enrollment
      BY <1>2, <1>12, <2>1 DEF AdminCommit
    <2>2. CASE admin # Idle /\ enrollment' = [enrollment EXCEPT ![admin.pair].status = admin.new]
      <3>1. admin.pair \in Pairs /\ admin.new \in EnrollmentStatus
        BY <2>2 DEF Typed, TypeOK, Admin
      <3>2. Given' = [Given EXCEPT ![admin.pair] = admin.new]
        BY <1>0, <2>2, <3>1, GivenStatus
      <3>3. QED
        BY <1>8, <1>12, <3>1, <3>2 DEF AdminCommit
    <2>3. QED
      BY <1>12, <2>1, <2>2 DEF AdminCommit
  <1>13. ASSUME NEW pr \in Pairs, AdminDelete(pr) PROVE [Access!Next]_(Access!vars)
    <2>1. Given' = [Given EXCEPT ![pr] = "none"]
      <3>1. enrollment' = [enrollment EXCEPT ![pr] = NoRow] /\ NoRow.status = "none"
        BY <1>13 DEF AdminDelete, NoRow
      <3>2. QED
        BY <1>0, <3>1, GivenExcept
    <2>2. QED
      BY <1>8, <1>13, <2>1 DEF AdminDelete, AdminOperation
  <1>14. ASSUME NEW S \in SUBSET Buyers, NEW p \in Products,
                NEW a \in {"suspend", "cancel"}, AdminBulkStatus(S, p, a)
         PROVE  [Access!Next]_(Access!vars)
    <2>1. Given' = Given
      BY <1>0, <1>14
         DEF AdminBulkStatus, Stored, EnrollmentStatus, Given, Row, NoRow
    <2>2. Access!Announce
      BY <1>1, <1>14, <2>1 DEF Access!Announce, Given, AdminBulkStatus, AdminOperation
    <2>3. QED
      BY <2>2 DEF Access!Next
  <1>15. CASE Administration
    BY <1>2, <1>10, <1>11, <1>12, <1>13, <1>14, <1>15
       DEF Administration, SetTestMode, ReplayWebhook, LinkProduct, AdminOperation,
         AdminLoad
  <1>16. ASSUME NEW l \in Logs, Receiver(l) PROVE [Access!Next]_(Access!vars)
    BY <1>2, <1>16 DEF Receiver, ReceiveWebhook, DispatchWebhook, ReceiverFails
  <1>17. CASE TestModeExpires \/ (\E b \in Buyers : RegisterUser(b)) \/ UNCHANGED vars
    BY <1>2, <1>17 DEF TestModeExpires, RegisterUser, vars
  <1>18. QED
    BY <1>7, <1>15, <1>16, <1>17 DEF Next

LEMMA AccessInit == Init => Access!Init
  <1> SUFFICES ASSUME Init PROVE Access!Init
    OBVIOUS
  <1>1. Announced = {}
    BY DEF Init, Announced
  <1>2. Given = [pr \in Pairs |-> "none"]
    BY DEF Init, Given, NoRow
  <1>3. QED
    BY <1>1, <1>2 DEF Init, Access!Init, Given

\* The pipeline implements AccessLifecycle, for any buyers, products, webhooks,
\* replays and bounds: whatever tasks, retries and administrators do, access moves
\* as announced or administered.
THEOREM AccessAsAnnounced == Spec => ImplementsAccessLifecycle
  <1>1. Init => QueuedOnce /\ RepeatsInv
    BY DEF Init, QueuedOnce, RepeatsInv, TaskRepeats, Tasks, Live
  <1>2. QED
    BY <1>1, AccessInit, AccessStep, InitEarned, EarnedStep, RepeatsStep, QueuedOnceStep,
       TypeCorrect, PTL
       DEF Spec, ImplementsAccessLifecycle, Access!Spec
------------------------------------------------------------------------------
(* Calls that are far apart                                                 *)

\* Nothing but webhooks has happened, and no task has come to a bad end.
Uneventful ==
  ~disturbed /\ adminOps = 0 /\ ~WorkerTestMode /\ \A t \in Tasks : pc[t] \notin {"failed", "lost"}

WorksFor(t, b, g) == pc[t] \in Live /\ msg[t].buyer = b /\ msg[t].gw = g

\* The buyer's access is what status s says.
Settled(b, p, s) ==
  /\ s = "active" => enrollment[<<b, p>>].status = "active"
  /\ s \in {"refunded", "cancelled"} => enrollment[<<b, p>>].status # "active"

\* A task that works for a buyer carries the latest status, and until it ends
\* nobody else does; when none works, that status has been applied.
LatestApplied ==
  \A b \in Buyers, g \in Gateways :
    /\ \A t \in Tasks : WorksFor(t, b, g) => msg[t].status = latest[<<b, g>>]
    /\ \A p \in Products :
         Linked(g) = {p} => (\E t \in Tasks : WorksFor(t, b, g)) \/ Settled(b, p, latest[<<b, g>>])

SpacedInv == AtMostOneLive /\ (Uneventful => LatestApplied)

LEMMA InitSpaced == Init => SpacedInv
  BY NoneAssumption
     DEF Init, SpacedInv, AtMostOneLive, LatestApplied, WorksFor, Settled, Live, EventStatus

\* What has happened stays on record: a step from an eventful past leads to one.
LEMMA UneventfulBefore ==
  ASSUME Typed, QueuedOnce, [Next]_vars, Uneventful'
  PROVE  Uneventful
  <1> USE DEF table, logs, work, requests, history, Uneventful
  <1>t. adminOps \in Nat /\ pc \in [Tasks -> Live \cup Ended \cup {"none"}]
    BY DEF Typed, TypeOK
  <1>1. ASSUME NEW l \in Logs, Receiver(l) PROVE Uneventful
    <2>1. CASE DispatchWebhook(l)
      <3>1. UNCHANGED <<disturbed, adminOps>>
        BY <2>1 DEF DispatchWebhook
      <3>2. pc[l] = "none" /\ l \in Tasks
        BY <2>1 DEF DispatchWebhook, QueuedOnce, Tasks
      <3>3. \A t \in Tasks \ {l} : pc'[t] = pc[t]
        BY <1>t, <2>1 DEF DispatchWebhook, Queue
      <3>4. QED
        BY <3>1, <3>2, <3>3
    <2>2. CASE ~DispatchWebhook(l)
      BY <1>1, <2>2 DEF Receiver, ReceiveWebhook, ReceiverFails
    <2>3. QED
      BY <2>1, <2>2
  <1>2. ASSUME NEW t \in Tasks, Work(t) \/ WorkerFails(t) PROVE Uneventful
    <2>1. pc[t] \in Live /\ adminOps' = adminOps /\ (disturbed => disturbed')
      BY <1>2 DEF Work, WorkerFails, StartTask, ProductMissing, ProductFound,
                  ProductAmbiguous, FindUser, CreateUser, Revoke, ReadEnrollment,
                  Reactivate, InsertEnrollment, DatabaseFault, WorkerCrash, Live
    <2>2. \A u \in Tasks \ {t} : pc'[u] = pc[u]
      BY <1>2, <1>t DEF Work, WorkerFails, StartTask, ProductMissing, ProductFound,
                  ProductAmbiguous, FindUser, CreateUser, Revoke, ReadEnrollment,
                  Reactivate, InsertEnrollment, DatabaseFault, WorkerCrash, Goto, Retry
    <2>3. QED
      BY <2>1, <2>2 DEF Live
  <1>3. ASSUME NEW r \in Replays, NEW l \in Logs, ReplayWebhook(r, l) PROVE Uneventful
    BY <1>3, <1>t DEF ReplayWebhook, Queue, Tasks
  <1>4. CASE Administration /\ ~\E r \in Replays, l \in Logs : ReplayWebhook(r, l)
    BY <1>4, <1>t DEF Administration, SetTestMode, LinkProduct, AdminCreate, AdminBulkEnroll,
         AdminEnroll, AdminLoad, AdminCommit, AdminDelete, AdminBulkStatus, AdminOperation
  <1>5. CASE TestModeExpires \/ (\E b \in Buyers : RegisterUser(b)) \/ UNCHANGED vars
    BY <1>5 DEF TestModeExpires, RegisterUser, vars
  <1>6. QED
    BY <1>1, <1>2, <1>3, <1>4, <1>5 DEF Next

\* A step of task t alone, which leaves the webhooks on record and writes no row
\* but that of its own buyer and product.
OwnStep(t) ==
  /\ pc[t] \in Live
  /\ UNCHANGED <<msg, catalog, latest>>
  /\ \A u \in Tasks \ {t} : pc'[u] = pc[u]
  /\ \A pr \in Pairs : enrollment'[pr] # enrollment[pr] => pc[t] \in WithProduct /\ pr = PairOf(t)

\* A task that returns had nothing to do, or has done it.
Finished(t) ==
  \/ Linked(msg[t].gw) = {} \/ msg[t].gw = None \/ msg[t].buyer = None
  \/ /\ pc[t] \in WithProduct /\ product' = product
     /\ Settled(msg[t].buyer, product[t], msg[t].status)'

LEMMA WorkFinishes ==
  ASSUME Typed, NEW t \in Tasks, Work(t), ~WorkerTestMode
  PROVE  OwnStep(t) /\ (pc'[t] \in Live \cup {"failed"} \/ Finished(t))
  <1> USE DEF table, logs, work, requests, history
  <1>t. /\ pc \in [Tasks -> Live \cup Ended \cup {"none"}]
        /\ enrollment \in [Pairs -> Row]
        /\ pc[t] \in WithProduct => PairOf(t) \in Pairs
        /\ pc[t] \in WithProduct \cup {"lookup"} => msg[t].gw \in Gateways /\ msg[t].buyer \in Buyers
        /\ pc[t] \in {"reactivate", "insert"} => msg[t].status = "active"
    BY PairTyped DEF Typed, TypeOK, TaskShape
  <1>r. ASSUME Retry(t)
        PROVE  /\ pc'[t] \in Live \cup {"failed"} /\ msg' = msg
               /\ \A u \in Tasks \ {t} : pc'[u] = pc[u]
    BY <1>r, <1>t DEF Retry, Goto, AfterFailure, Live
  <1>1. CASE StartTask(t)
    BY <1>1, <1>t DEF StartTask, SkipsTask, Goto, OwnStep, Finished, Live
  <1>2. CASE ProductMissing(t)
    BY <1>2, <1>t DEF ProductMissing, Goto, OwnStep, Finished, Live
  <1>3. CASE \E p \in Products : ProductFound(t, p)
    BY <1>3, <1>t DEF ProductFound, Goto, OwnStep, Live
  <1>4. CASE ProductAmbiguous(t)
    BY <1>4, <1>t, <1>r DEF ProductAmbiguous, OwnStep, Live
  <1>5. CASE FindUser(t)
    BY <1>5, <1>t DEF FindUser, Goto, OwnStep, Live
  <1>6. CASE CreateUser(t)
    <2>1. CASE Retry(t)
      BY <1>6, <1>t, <1>r, <2>1 DEF CreateUser, OwnStep, Live
    <2>2. CASE Goto(t, "apply") /\ msg' = msg
      BY <1>6, <1>t, <2>2 DEF CreateUser, Goto, OwnStep, Live
    <2>3. QED
      BY <1>6, <2>1, <2>2 DEF CreateUser
  <1>7. CASE Revoke(t)
    <2>1. PairOf(t) \in Pairs /\ pc[t] \in WithProduct
      BY <1>7, <1>t DEF Revoke, WithProduct
    <2>2. \A pr \in Pairs : pr # PairOf(t) => enrollment'[pr] = enrollment[pr]
      BY <1>7, <1>t DEF Revoke
    <2>3. enrollment'[PairOf(t)].status # "active"
      <3>1. CASE Exists(PairOf(t))
        BY <1>7, <1>t, <2>1, <3>1 DEF Revoke, Exists, Row
      <3>2. CASE ~Exists(PairOf(t))
        BY <1>7, <3>2 DEF Revoke, Exists, NoRow
      <3>3. QED
        BY <3>1, <3>2
    <2>4. QED
      BY <1>7, <1>t, <2>1, <2>2, <2>3 DEF Revoke, Goto, OwnStep, Finished, Settled, PairOf, Live
  <1>8. CASE ReadEnrollment(t)
    <2>1. PairOf(t) \in Pairs /\ pc[t] \in WithProduct
      BY <1>8, <1>t DEF ReadEnrollment, WithProduct
    <2>2. \/ pc'[t] \in Live
          \/ enrollment'[PairOf(t)].status = "active"
      BY <1>8, <1>t DEF ReadEnrollment, Goto, Decision, Live
    <2>3. QED
      BY <1>8, <1>t, <2>1, <2>2 DEF ReadEnrollment, Goto, OwnStep, Finished, Settled, PairOf, Live
  <1>9. CASE Reactivate(t)
    <2>1. PairOf(t) \in Pairs /\ pc[t] \in WithProduct /\ msg[t].status = "active"
      BY <1>9, <1>t DEF Reactivate, WithProduct
    <2>2. CASE Retry(t) /\ UNCHANGED enrollment
      BY <1>9, <1>t, <1>r, <2>2 DEF Reactivate, OwnStep, Live
    <2>3. CASE /\ enrollment[PairOf(t)].id = row[t]
               /\ enrollment' = [enrollment EXCEPT ![PairOf(t)].status = "active"]
               /\ Goto(t, "done") /\ UNCHANGED <<msg, product>>
      <3>1. enrollment[PairOf(t)] # NoRow
        BY <1>9, <2>3 DEF Reactivate, NoRow, Typed, TaskShape
      <3>2. enrollment'[PairOf(t)].status = "active"
        BY <1>t, <2>1, <2>3, <3>1 DEF Row
      <3>3. QED
        BY <1>9, <1>t, <2>1, <2>3, <3>2
           DEF Reactivate, Goto, OwnStep, Finished, Settled, PairOf, Live
    <2>4. QED
      BY <1>9, <2>2, <2>3 DEF Reactivate
  <1>10. CASE InsertEnrollment(t)
    <2>1. PairOf(t) \in Pairs /\ pc[t] \in WithProduct /\ msg[t].status = "active"
      BY <1>10, <1>t DEF InsertEnrollment, WithProduct
    <2>2. CASE Retry(t) /\ UNCHANGED enrollment
      BY <1>10, <1>t, <1>r, <2>2 DEF InsertEnrollment, OwnStep, Live
    <2>3. CASE /\ enrollment' = [enrollment EXCEPT ![PairOf(t)] =
                                   NewRow(PairOf(t), "active", "webhook")]
               /\ Goto(t, "done") /\ UNCHANGED <<msg, product>>
      <3>1. enrollment'[PairOf(t)].status = "active"
        BY <1>t, <2>1, <2>3 DEF NewRow
      <3>2. \A pr \in Pairs : enrollment'[pr] # enrollment[pr] => pr = PairOf(t)
        BY <1>t, <2>1, <2>3
      <3>3. UNCHANGED <<msg, product, catalog, latest>> /\ pc[t] \in Live
        BY <1>10, <2>3 DEF InsertEnrollment, Live
      <3>4. \A u \in Tasks \ {t} : pc'[u] = pc[u]
        BY <1>t, <2>3 DEF Goto
      <3>5. OwnStep(t)
        BY <2>1, <3>2, <3>3, <3>4 DEF OwnStep
      <3>6. Finished(t)
        BY <2>1, <3>1, <3>3 DEF Finished, Settled, PairOf
      <3>7. QED
        BY <3>5, <3>6
    <2>4. QED
      BY <1>10, <2>2, <2>3 DEF InsertEnrollment
  <1>11. QED
    BY <1>1, <1>2, <1>3, <1>4, <1>5, <1>6, <1>7, <1>8, <1>9, <1>10 DEF Work

\* The work of the one live task.
LEMMA WorkApplies ==
  ASSUME Typed, RaceInv, SpacedInv, Uneventful, Uneventful', NEW t \in Tasks, Work(t)
  PROVE  LatestApplied'
  <1> SUFFICES ASSUME NEW b \in Buyers, NEW g \in Gateways
               PROVE  /\ \A u \in Tasks : WorksFor(u, b, g)' => msg'[u].status = latest'[<<b, g>>]
                      /\ \A p \in Products :
                           Linked(g)' = {p} => \/ \E u \in Tasks : WorksFor(u, b, g)'
                                               \/ Settled(b, p, latest[<<b, g>>])'
    BY DEF LatestApplied
  <1>1. OwnStep(t) /\ (pc'[t] \in Live \/ Finished(t))
    BY WorkFinishes DEF Uneventful
  <1>2. \A u \in Tasks : pc[u] \in Live => u = t
    BY <1>1 DEF OwnStep, SpacedInv, AtMostOneLive
  <1>3. \A u \in Tasks : WorksFor(u, b, g)' => u = t /\ WorksFor(t, b, g)
    BY <1>1, <1>2 DEF OwnStep, WorksFor
  <1>4. \A p \in Products : Linked(g)' = {p} => Linked(g) = {p}
    BY <1>1 DEF OwnStep, Linked
  <1>5. TaskRace(t)
    BY DEF RaceInv, Uneventful
  <1>6. ASSUME NEW p \in Products, Linked(g) = {p}
        PROVE  \/ \E u \in Tasks : WorksFor(u, b, g)'
               \/ Settled(b, p, latest[<<b, g>>])'
    <2>1. CASE WorksFor(t, b, g)
      <3>1. msg[t].status = latest[<<b, g>>] /\ latest' = latest
        BY <1>1, <2>1 DEF OwnStep, SpacedInv, LatestApplied
      <3>2. CASE pc'[t] \in Live
        BY <1>1, <2>1, <3>2 DEF OwnStep, WorksFor
      <3>3. CASE Finished(t)
        <4>1. pc[t] \in WithProduct /\ product[t] = p
          BY <1>5, <1>6, <2>1, <3>3, NoneAssumption DEF Finished, WorksFor, TaskRace
        <4>2. QED
          BY <1>1, <1>6, <2>1, <3>1, <3>3, <4>1, NoneAssumption
             DEF Finished, WorksFor, Settled, OwnStep
      <3>4. QED
        BY <1>1, <3>2, <3>3
    <2>2. CASE ~WorksFor(t, b, g)
      <3>1. Settled(b, p, latest[<<b, g>>])
        BY <1>2, <1>6, <2>2 DEF SpacedInv, LatestApplied, WorksFor
      <3>2. pc[t] \in WithProduct => PairOf(t) # <<b, p>>
        <4>1. catalog[p] = g
          BY <1>6 DEF Linked
        <4>2. QED
          BY <1>1, <1>5, <1>6, <2>2, <4>1 DEF OwnStep, PairOf, TaskRace, Linked, WorksFor
      <3>3. enrollment'[<<b, p>>] = enrollment[<<b, p>>] /\ latest' = latest
        BY <1>1, <3>2 DEF OwnStep, Pairs
      <3>4. QED
        BY <3>1, <3>3 DEF Settled
    <2>3. QED
      BY <2>1, <2>2
  <1>7. QED
    BY <1>1, <1>3, <1>4, <1>6 DEF OwnStep, SpacedInv, LatestApplied

\* Steps that touch neither calls nor catalogue nor rows.
LEMMA NothingApplied ==
  ASSUME LatestApplied, UNCHANGED <<catalog, enrollment, latest>>,
         \A t \in Tasks, b \in Buyers, g \in Gateways :
           /\ WorksFor(t, b, g)' <=> WorksFor(t, b, g)
           /\ WorksFor(t, b, g) => msg'[t] = msg[t]
  PROVE  LatestApplied'
  BY DEF LatestApplied, Linked, Settled

\* A dispatched call is the latest of its buyer and identifier, and the only one
\* that is worked on.
LEMMA DispatchApplies ==
  ASSUME Typed, QueuedOnce, SpacedInv, Uneventful, AtMostOneLive',
         NEW l \in Logs, DispatchWebhook(l)
  PROVE  LatestApplied'
  <1> USE DEF work
  <1>t. /\ pc \in [Tasks -> Live \cup Ended \cup {"none"}]
        /\ msg \in [Tasks -> Message \cup {None}] /\ l \in Tasks
        /\ latest \in [Buyers \X Gateways -> EventStatus \cup {None}]
    BY DEF Typed, TypeOK, Tasks
  <1>0. LatestApplied /\ UNCHANGED <<catalog, enrollment>> /\ pc[l] = "none"
    BY DEF SpacedInv, DispatchWebhook, table, QueuedOnce
  <1>1. CASE UNCHANGED <<work, latest>>
    BY <1>0, <1>1, NothingApplied DEF WorksFor
  <1>2. CASE /\ Queue(l, EventMessage(l))
             /\ latest' = [bg \in Buyers \X Gateways |->
                             IF bg = <<event[l].buyer, event[l].gw>>
                               THEN event[l].status ELSE latest[bg]]
    <2>1. /\ pc'[l] = "queued" /\ msg'[l] = EventMessage(l)
          /\ \A u \in Tasks \ {l} : pc'[u] = pc[u] /\ msg'[u] = msg[u]
      BY <1>t, <1>2 DEF Queue
    <2>2. \A u \in Tasks : pc'[u] \in Live => u = l
      BY <1>t, <2>1 DEF AtMostOneLive, Live
    <2>3. \A u \in Tasks : pc[u] \notin Live
      BY <1>0, <2>1, <2>2 DEF Live
    <2>4. ASSUME NEW b \in Buyers, NEW g \in Gateways
          PROVE  /\ \A u \in Tasks : WorksFor(u, b, g)' => msg'[u].status = latest'[<<b, g>>]
                 /\ \A p \in Products :
                      Linked(g)' = {p} => \/ \E u \in Tasks : WorksFor(u, b, g)'
                                          \/ Settled(b, p, latest[<<b, g>>])'
      <3>1. WorksFor(l, b, g)' <=> <<b, g>> = <<event[l].buyer, event[l].gw>>
        BY <2>1 DEF WorksFor, EventMessage, Live
      <3>2. \A u \in Tasks : WorksFor(u, b, g)' => u = l
        BY <2>2 DEF WorksFor
      <3>3. latest'[<<b, g>>] = IF WorksFor(l, b, g)' THEN event[l].status ELSE latest[<<b, g>>]
        BY <1>2, <3>1
      <3>4. msg'[l].status = event[l].status
        BY <2>1 DEF EventMessage
      <3>5. ASSUME NEW p \in Products, Linked(g)' = {p}, ~WorksFor(l, b, g)'
            PROVE  Settled(b, p, latest[<<b, g>>])'
        <4>1. Linked(g) = {p}
          BY <1>0, <3>5 DEF Linked
        <4>2. Settled(b, p, latest[<<b, g>>])
          BY <1>0, <2>3, <4>1 DEF LatestApplied, WorksFor
        <4>3. QED
          BY <1>0, <3>3, <3>5, <4>2 DEF Settled
      <3>6. QED
        BY <1>t, <3>2, <3>3, <3>4, <3>5
    <2>5. QED
      BY <2>4 DEF LatestApplied
  <1>3. QED
    BY <1>1, <1>2 DEF DispatchWebhook

\* Every step of a deployment with calls far apart keeps the invariant.
LEMMA NextSpaced ==
  Typed /\ RaceInv /\ SpacedInv /\ [Next /\ AtMostOneLive']_vars => SpacedInv'
  <1> SUFFICES ASSUME Typed, RaceInv, SpacedInv, [Next /\ AtMostOneLive']_vars
               PROVE  SpacedInv'
    OBVIOUS
  <1> USE DEF table, logs, work, requests, history
  <1>1. AtMostOneLive'
    BY DEF SpacedInv, AtMostOneLive, vars
  <1>2. ASSUME Uneventful' PROVE LatestApplied'
    <2>1. Uneventful /\ LatestApplied /\ adminOps \in Nat
      BY <1>2, UneventfulBefore DEF RaceInv, SpacedInv, Typed, TypeOK
    <2>2. ASSUME NEW l \in Logs, Receiver(l) PROVE LatestApplied'
      BY <1>1, <2>1, <2>2, DispatchApplies, NothingApplied
         DEF Receiver, ReceiveWebhook, ReceiverFails, RaceInv, WorksFor
    <2>3. ASSUME NEW t \in Tasks, Work(t) PROVE LatestApplied'
      BY <1>2, <2>1, <2>3, WorkApplies
    <2>4. ASSUME NEW t \in Tasks, WorkerFails(t) PROVE LatestApplied'
      BY <1>2, <2>4 DEF WorkerFails, DatabaseFault, WorkerCrash, Goto, Uneventful, Typed, TypeOK
    <2>5. ASSUME NEW r \in Replays, NEW l \in Logs, ReplayWebhook(r, l) PROVE LatestApplied'
      <3>1. /\ r \in Tasks /\ pc[r] = "none"
            /\ msg' = [msg EXCEPT ![r] = ReplayMessage(l)] /\ pc' = [pc EXCEPT ![r] = "queued"]
        BY <2>5 DEF ReplayWebhook, Queue, Tasks
      <3>2. /\ \A u \in Tasks \ {r} : pc'[u] = pc[u] /\ msg'[u] = msg[u]
            /\ msg'[r].gw = None
        BY <3>1 DEF Typed, TypeOK, ReplayMessage
      <3>3. \A t \in Tasks, b \in Buyers, g \in Gateways :
              /\ WorksFor(t, b, g)' <=> WorksFor(t, b, g)
              /\ WorksFor(t, b, g) => msg'[t] = msg[t]
        BY <3>1, <3>2, NoneAssumption DEF WorksFor, Live
      <3>4. UNCHANGED <<catalog, enrollment, latest>>
        BY <2>5 DEF ReplayWebhook
      <3>5. QED
        BY <2>1, <3>3, <3>4, NothingApplied
    <2>6. CASE Administration /\ ~\E r \in Replays, l \in Logs : ReplayWebhook(r, l)
      <3>1. UNCHANGED <<catalog, enrollment, latest, pc, msg>>
        BY <1>2, <2>1, <2>6
           DEF Administration, SetTestMode, LinkProduct, AdminCreate, AdminBulkEnroll,
               AdminEnroll, AdminLoad, AdminCommit, AdminDelete, AdminBulkStatus,
               AdminOperation, Uneventful
      <3>2. QED
        BY <2>1, <3>1, NothingApplied DEF WorksFor
    <2>7. CASE TestModeExpires \/ (\E b \in Buyers : RegisterUser(b)) \/ UNCHANGED vars
      BY <2>1, <2>7, NothingApplied DEF TestModeExpires, RegisterUser, vars, WorksFor
    <2>8. QED
      BY <2>2, <2>3, <2>4, <2>5, <2>6, <2>7 DEF Next
  <1>3. QED
    BY <1>1, <1>2 DEF SpacedInv

\* If calls are further apart than the work on one takes, the latest one decides:
\* whatever sign-ups, replays and switches of the test mode come in between.
THEOREM LatestWinsIfSpaced == SpacedSpec => []LatestEventWins
  <1>1. Typed /\ SpacedInv => LatestEventWins
    <2> SUFFICES ASSUME Typed, SpacedInv, Quiescent,
                        NEW b \in Buyers, NEW p \in Products,
                        catalog[p] # None, Linked(catalog[p]) = {p}
                 PROVE  Settled(b, p, latest[<<b, catalog[p]>>])
      BY DEF LatestEventWins, RefundRevokesAccess, Settled
    <2>1. Uneventful /\ \A t \in Tasks : pc[t] \notin Live
      BY DEF Quiescent, Uneventful, Live
    <2>2. catalog[p] \in Gateways
      BY DEF Typed, TypeOK
    <2>3. QED
      BY <2>1, <2>2 DEF SpacedInv, LatestApplied, WorksFor
  <1>2. Init => RaceInv
    BY DEF Init, RaceInv, QueuedOnce, TaskRace, WithProduct, Tasks
  <1>3. [Next /\ AtMostOneLive']_vars => [Next]_vars
    OBVIOUS
  <1>4. QED
    BY <1>1, <1>2, <1>3, InitTyped, NextTyped, RaceStep, InitSpaced, NextSpaced, PTL
       DEF SpacedSpec
==============================================================================
