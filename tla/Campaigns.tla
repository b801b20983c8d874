------------------------------ MODULE Campaigns ------------------------------
(* One e-mail campaign: requests that send it, which write a row for every  *)
(* user of the audience, batch by batch, and hand each batch to a worker    *)
(* after its commit (services/email.py, send_campaign), and the workers     *)
(* that mail the batches (tasks/email.py, send_campaign_batch_task).        *)
EXTENDS Integers

CONSTANTS
  Audience,       \* how many users the filter finds
  BatchSize,
  Senders,        \* calls of send_campaign
  Workers

ASSUME CampaignAssumption == Audience \in Nat /\ BatchSize \in Nat \ {0}

Users == 1..Audience
Sends == Senders \X Users   \* a row of email_sends, by its request and user

VARIABLES
  campaign,       \* email_campaigns.status
  sends,          \* the committed rows of email_sends
  sender,         \* of each call: control point and how many users it has done
  batches,        \* messages to the workers
  worker,         \* the rows each one has still to mail
  mailed,         \* how often each row was mailed
  handed          \* history: the rows that were in a message

campaignVars == <<campaign, sends, sender, batches, worker, mailed, handed>>

CampaignInit ==
  /\ campaign = "draft"
  /\ sends = {}
  /\ sender = [q \in Senders |-> [pc |-> "idle", done |-> 0]]
  /\ batches = {}
  /\ worker = [w \in Workers |-> {}]
  /\ mailed = [s \in Sends |-> 0]
  /\ handed = {}

\* The call's next users, a hundred or what is left.
Batch(q) == {q} \X {u \in Users : sender[q].done < u /\ u <= sender[q].done + BatchSize}

SenderAt(q, pc) == sender' = [sender EXCEPT ![q].pc = pc]

\* The campaign's status is not looked at: it can be sent again.
BeginSend(q) ==
  /\ sender[q].pc = "idle"
  /\ SenderAt(q, IF Audience = 0 THEN "finish" ELSE "batch")
  /\ UNCHANGED <<campaign, sends, batches, worker, mailed, handed>>

\* Faulty variant: the status is set before the first commit takes it along.
StatusAtCommitEarly == "sent"

StatusAtCommit == campaign

CommitBatch(q) ==
  /\ sender[q].pc = "batch"
  /\ sends' = sends \cup Batch(q)
  /\ campaign' = StatusAtCommit
  /\ SenderAt(q, "dispatch")
  /\ UNCHANGED <<batches, worker, mailed, handed>>

DispatchBatch(q) ==
  /\ sender[q].pc = "dispatch"
  /\ batches' = batches \cup {Batch(q)}
  /\ handed' = handed \cup Batch(q)
  /\ LET done == sender[q].done + BatchSize
     IN  sender' = [sender EXCEPT ![q] =
           [pc |-> IF done < Audience THEN "batch" ELSE "finish", done |-> done]]
  /\ UNCHANGED <<campaign, sends, worker, mailed>>

MarkSent(q) ==
  /\ sender[q].pc = "finish"
  /\ campaign' = "sent"
  /\ SenderAt(q, "answered")
  /\ UNCHANGED <<sends, batches, worker, mailed, handed>>

\* The database, the broker or the process: batches already handed over stay.
SendFails(q) ==
  /\ sender[q].pc \in {"batch", "dispatch", "finish"}
  /\ SenderAt(q, "failed")
  /\ UNCHANGED <<campaign, sends, batches, worker, mailed, handed>>

-----------------------------------------------------------------------------
(* The batch task.                                                          *)

TakeBatch(w, b) ==
  /\ worker[w] = {} /\ b \in batches
  /\ batches' = batches \ {b}
  /\ worker' = [worker EXCEPT ![w] = b]
  /\ UNCHANGED <<campaign, sends, sender, mailed, handed>>

\* In the order of the list.
IsFirst(s, b) == s \in b /\ \A r \in b : s[2] <= r[2]

MailOne(w) ==
  /\ \E s \in worker[w] :
       /\ IsFirst(s, worker[w])
       /\ mailed' = [mailed EXCEPT ![s] = @ + 1]
       /\ worker' = [worker EXCEPT ![w] = @ \ {s}]
  /\ UNCHANGED <<campaign, sends, sender, batches, handed>>

\* Faulty variant: the task is retried, with its whole batch.
AfterMailFailsRetry(b) == {s \in Sends : \E r \in b : s[1] = r[1] /\ s \in handed}

\* The exception is logged, and the next address is next.
AfterMailFails(b) == {s \in b : ~IsFirst(s, b)}

MailFails(w) ==
  /\ worker[w] # {}
  /\ worker' = [worker EXCEPT ![w] = AfterMailFails(@)]
  /\ UNCHANGED <<campaign, sends, sender, batches, mailed, handed>>

\* Its message was acknowledged before it ran.
BatchDies(w) ==
  /\ worker[w] # {}
  /\ worker' = [worker EXCEPT ![w] = {}]
  /\ UNCHANGED <<campaign, sends, sender, batches, mailed, handed>>

CampaignNext ==
  \/ \E q \in Senders :
       BeginSend(q) \/ CommitBatch(q) \/ DispatchBatch(q) \/ MarkSent(q) \/ SendFails(q)
  \/ \E w \in Workers :
       (\E b \in batches : TakeBatch(w, b)) \/ MailOne(w) \/ MailFails(w) \/ BatchDies(w)

CampaignSpec == CampaignInit /\ [][CampaignNext]_campaignVars

-----------------------------------------------------------------------------
(* The properties.                                                          *)

CampaignTypeOK ==
  /\ campaign \in {"draft", "sent"} /\ sends \subseteq Sends
  /\ sender \in [Senders ->
       [pc : {"idle", "batch", "dispatch", "finish", "answered", "failed"}, done : Nat]]
  /\ batches \subseteq SUBSET Sends /\ worker \in [Workers -> SUBSET Sends]
  /\ mailed \in [Sends -> Nat] /\ handed \subseteq Sends

\* A campaign that is marked sent has been: one call handed every user of the
\* audience to the workers, each with a row, the last batch included, wherever
\* others failed (services/email.py:201).
SentIsHandedOver ==
  campaign = "sent" =>
    \E q \in Senders : {q} \X Users \subseteq handed \cap sends

\* No row is mailed twice, and none that is not in the table, whose open could
\* not be tracked; whoever calls send_campaign twice makes other rows
\* (tasks/email.py:82).
RowsMailedOnce == \A s \in Sends : mailed[s] <= IF s \in sends THEN 1 ELSE 0
==============================================================================
