-------------------------- MODULE PushSubscriptions --------------------------
(* One endpoint of a user's browser: requests that subscribe it and take it *)
(* back (services/notification.py), and the push tasks that prune what the  *)
(* push service calls gone (dispatch_push_notification_task).  No unique    *)
(* index keeps two rows of one endpoint apart.                              *)
EXTENDS Integers, FiniteSets

CONSTANTS
  Browsers,           \* requests that may be under way at once
  Pushers,            \* tasks
  PushRetries,        \* max_retries of the task
  MaxSubscriptions    \* rows ever inserted

ASSUME PushAssumption == PushRetries \in Nat /\ MaxSubscriptions \in Nat

Subscriptions == 1..MaxSubscriptions

VARIABLES
  subscriptions,      \* the endpoint's rows of push_subscriptions
  inserted,           \* how many there have been
  gone,               \* the push service answers 404 or 410, for good
  browser,            \* of each request: control point, the row it found, and
                      \* whether it comes with other keys
  pusher,             \* of each task: control point, rows to do and rows to prune
  wanted,             \* history: the last request that succeeded was a subscription
  crossing            \* history: two requests were under way at once

pushVars == <<subscriptions, inserted, gone, browser, pusher, wanted, crossing>>

NoBrowser == [pc |-> "idle", row |-> 0, anew |-> FALSE]
NoPush == [pc |-> "none", todo |-> {}, stale |-> {}, tries |-> 0]

PushInit ==
  /\ subscriptions = {} /\ inserted = 0 /\ gone = FALSE
  /\ browser = [q \in Browsers |-> NoBrowser]
  /\ pusher = [p \in Pushers |-> NoPush]
  /\ wanted = FALSE /\ crossing = FALSE

Busy(q) == browser[q].pc # "idle"

-----------------------------------------------------------------------------
(* The requests.                                                            *)

\* Faulty variant: the row is looked up by its keys.
FoundByKeys(anew) == IF anew THEN {} ELSE subscriptions

\* SELECT by user and endpoint.
Found(anew) == subscriptions

\* scalar_one_or_none raises if there are two: such a request fails at once.
Begin(q, anew, none, one) ==
  /\ ~Busy(q)
  /\ \/ /\ Found(anew) = {}
        /\ browser' = [browser EXCEPT ![q] = [pc |-> none, row |-> 0, anew |-> anew]]
     \/ \E s \in Found(anew) :
          /\ Found(anew) = {s}
          /\ browser' = [browser EXCEPT ![q] = [pc |-> one, row |-> s, anew |-> anew]]
  /\ crossing' = (crossing \/ \E r \in Browsers : Busy(r))
  /\ UNCHANGED <<subscriptions, inserted, gone, pusher, wanted>>

BeginSubscribe(q, anew) == Begin(q, anew, "insert", "update")
BeginUnsubscribe(q) == Begin(q, FALSE, "nothing", "delete")

\* The request ends, and whoever sent it knows how it stands.
Ends(q, subscribed) ==
  /\ browser' = [browser EXCEPT ![q] = NoBrowser]
  /\ wanted' = subscribed
  /\ UNCHANGED <<gone, pusher, crossing>>

InsertSubscription(q) ==
  /\ browser[q].pc = "insert" /\ inserted < MaxSubscriptions
  /\ inserted' = inserted + 1
  /\ subscriptions' = subscriptions \cup {inserted + 1}
  /\ Ends(q, TRUE)

\* Keys that did not change are not written.  An UPDATE of a row that is gone
\* raises: PushRequestFails.
UpdateSubscription(q) ==
  /\ browser[q].pc = "update"
  /\ browser[q].anew => browser[q].row \in subscriptions
  /\ Ends(q, TRUE)
  /\ UNCHANGED <<subscriptions, inserted>>

DeleteSubscription(q) ==
  /\ browser[q].pc \in {"delete", "nothing"}
  /\ subscriptions' = subscriptions \ {browser[q].row}
  /\ Ends(q, FALSE)
  /\ UNCHANGED inserted

PushRequestFails(q) ==
  /\ Busy(q)
  /\ browser' = [browser EXCEPT ![q] = NoBrowser]
  /\ UNCHANGED <<subscriptions, inserted, gone, pusher, wanted, crossing>>

-----------------------------------------------------------------------------
(* The task, and the push service.                                          *)

PusherGoes(p, rec) ==
  /\ pusher' = [pusher EXCEPT ![p] = rec]
  /\ UNCHANGED <<inserted, gone, browser, wanted, crossing>>

ReadSubscriptions(p) ==
  /\ pusher[p].pc = "none"
  /\ PusherGoes(p, [pusher[p] EXCEPT !.pc = "sending", !.todo = subscriptions, !.stale = {}])
  /\ UNCHANGED subscriptions

\* Any other answer is logged, if it is not a success.
Push(p, s) ==
  /\ pusher[p].pc = "sending" /\ s \in pusher[p].todo
  /\ PusherGoes(p, [pusher[p] EXCEPT !.todo = @ \ {s},
                                     !.stale = IF gone THEN @ \cup {s} ELSE @])
  /\ UNCHANGED subscriptions

PruneStale(p) ==
  /\ pusher[p].pc = "sending" /\ pusher[p].todo = {}
  /\ subscriptions' = subscriptions \ pusher[p].stale
  /\ PusherGoes(p, [pusher[p] EXCEPT !.pc = "done"])

\* What is no WebPushException: self.retry starts from the SELECT.
PushFails(p) ==
  /\ pusher[p].pc = "sending"
  /\ PusherGoes(p, [NoPush EXCEPT
       !.pc = IF pusher[p].tries < PushRetries THEN "none" ELSE "failed",
       !.tries = pusher[p].tries + 1])
  /\ UNCHANGED subscriptions

PushDies(p) ==
  /\ pusher[p].pc \in {"none", "sending"}
  /\ PusherGoes(p, [pusher[p] EXCEPT !.pc = "lost"])
  /\ UNCHANGED subscriptions

EndpointGone ==
  /\ gone' = TRUE
  /\ UNCHANGED <<subscriptions, inserted, browser, pusher, wanted, crossing>>

PushNext ==
  \/ \E q \in Browsers :
       \/ \E anew \in BOOLEAN : BeginSubscribe(q, anew)
       \/ BeginUnsubscribe(q) \/ InsertSubscription(q) \/ UpdateSubscription(q)
       \/ DeleteSubscription(q) \/ PushRequestFails(q)
  \/ \E p \in Pushers :
       \/ ReadSubscriptions(p) \/ PruneStale(p) \/ PushFails(p) \/ PushDies(p)
       \/ \E s \in Subscriptions : Push(p, s)
  \/ EndpointGone

PushSpec == PushInit /\ [][PushNext]_pushVars

-----------------------------------------------------------------------------
(* The properties.                                                          *)

PushTypeOK ==
  /\ subscriptions \subseteq Subscriptions /\ inserted \in 0..MaxSubscriptions
  /\ gone \in BOOLEAN /\ wanted \in BOOLEAN /\ crossing \in BOOLEAN
  /\ browser \in [Browsers ->
       [pc : {"idle", "insert", "update", "delete", "nothing"},
        row : {0} \cup Subscriptions, anew : BOOLEAN]]
  /\ pusher \in [Pushers ->
       [pc : {"none", "sending", "done", "failed", "lost"},
        todo : SUBSET Subscriptions, stale : SUBSET Subscriptions, tries : Nat]]

\* Unless two requests crossed, the endpoint has one row while it is subscribed,
\* however often that is repeated, and none when it is not; push tasks remove it
\* only if the endpoint is gone.  Two crossing subscriptions leave two rows, which
\* no request can remove (services/notification.py:127, tasks/notification.py:137).
SubscriptionFollowsRequests ==
  ~crossing =>
    /\ Cardinality(subscriptions) <= 1
    /\ wanted => gone \/ subscriptions # {}
    /\ ~wanted => subscriptions = {}
==============================================================================
