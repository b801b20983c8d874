--------------------------- MODULE PlatformProofs ----------------------------
(* Proofs about Sessions, TenantCache, Campaigns, Broadcasts,               *)
(* PushSubscriptions and Conversations for any number of tokens, links,     *)
(* hosts, requests, users and retries.                                      *)
EXTENDS Sessions, TenantCache, Campaigns, Broadcasts, PushSubscriptions, Conversations,
        FiniteSetTheorems, TLAPS

-----------------------------------------------------------------------------
(* Campaigns.                                                               *)

\* A call that goes on has handed over what it has done, rows and all; it ends
\* when it has done everybody, and only then is the campaign sent.
CallsHandOver ==
  \A q \in Senders :
    /\ sender[q].pc # "failed" =>
         {q} \X {u \in Users : u <= sender[q].done} \subseteq handed \cap sends
    /\ sender[q].pc = "dispatch" => Batch(q) \subseteq sends
    /\ sender[q].pc \in {"finish", "answered"} => Audience <= sender[q].done
SentByACall == campaign = "sent" => \E q \in Senders : sender[q].pc = "answered"

\* What was handed over has a row, and lies behind the call that did it.
HandedOver == handed \subseteq sends /\ \A s \in handed : s[2] <= sender[s[1]].done

\* A row that is in a message or with a worker is there only, and not mailed.
InOnePlace ==
  /\ \A b \in batches : b \subseteq handed
  /\ \A w \in Workers : worker[w] \subseteq handed
  /\ \A b, c \in batches : b # c => b \cap c = {}
  /\ \A w, x \in Workers : w # x => worker[w] \cap worker[x] = {}
  /\ \A b \in batches, w \in Workers : b \cap worker[w] = {}
MailedOnce ==
  \A s \in Sends :
    /\ mailed[s] <= 1
    /\ mailed[s] > 0 => s \in handed
    /\ (\E b \in batches : s \in b) => mailed[s] = 0
    /\ \A w \in Workers : s \in worker[w] => mailed[s] = 0

CampaignInv ==
  CampaignTypeOK /\ CallsHandOver /\ SentByACall /\ HandedOver /\ InOnePlace /\ MailedOnce

LEMMA BatchOfUsers ==
  ASSUME NEW q \in Senders
  PROVE  Batch(q) = {s \in Sends : /\ s[1] = q
                                   /\ sender[q].done < s[2]
                                   /\ s[2] <= sender[q].done + BatchSize}
  BY DEF Batch, Sends

LEMMA InitCampaign == CampaignInit => CampaignInv
  <1> SUFFICES ASSUME CampaignInit PROVE CampaignInv
    OBVIOUS
  <1> USE DEF CampaignInit
  <1>1. \A q \in Senders : {u \in Users : u <= sender[q].done} = {}
    BY CampaignAssumption DEF Users
  <1>2. CampaignTypeOK
    BY DEF CampaignTypeOK
  <1>3. CallsHandOver
    BY <1>1 DEF CallsHandOver
  <1>4. SentByACall /\ HandedOver /\ InOnePlace
    BY DEF SentByACall, HandedOver, InOnePlace
  <1>5. MailedOnce
    BY DEF MailedOnce
  <1>6. QED
    BY <1>2, <1>3, <1>4, <1>5 DEF CampaignInv

LEMMA SenderInv ==
  ASSUME CampaignInv, NEW q \in Senders,
         BeginSend(q) \/ CommitBatch(q) \/ MarkSent(q) \/ SendFails(q)
  PROVE  CampaignInv'
  <1> USE DEF CampaignInv
  <1>1. UNCHANGED <<batches, worker, mailed, handed>>
    BY DEF BeginSend, CommitBatch, MarkSent, SendFails
  <1>2. PICK pc \in {"batch", "dispatch", "finish", "answered", "failed"} :
          sender' = [sender EXCEPT ![q].pc = pc]
    BY DEF BeginSend, CommitBatch, MarkSent, SendFails, SenderAt
  <1>3. sender \in [Senders ->
          [pc : {"idle", "batch", "dispatch", "finish", "answered", "failed"}, done : Nat]]
    BY DEF CampaignTypeOK
  <1>4. /\ sender' \in [Senders ->
             [pc : {"idle", "batch", "dispatch", "finish", "answered", "failed"}, done : Nat]]
        /\ \A p \in Senders : /\ sender'[p].done = sender[p].done
                              /\ Batch(p)' = Batch(p)
                              /\ sender'[p].pc = IF p = q THEN pc ELSE sender[p].pc
    BY <1>2, <1>3 DEF Batch
  <1>5. Batch(q) \subseteq Sends
    BY BatchOfUsers
  <1>6. sends \subseteq sends' /\ sends' \subseteq Sends
    BY <1>5 DEF BeginSend, CommitBatch, MarkSent, SendFails, CampaignTypeOK
  <1>7. CampaignTypeOK'
    BY <1>1, <1>4, <1>6
    DEF CampaignTypeOK, BeginSend, CommitBatch, StatusAtCommit, MarkSent, SendFails
  <1>8. /\ sender[q].pc \in {"idle", "batch", "dispatch", "finish"}
        /\ pc = "dispatch" => Batch(q) \subseteq sends'
        /\ pc \in {"finish", "answered"} => Audience <= sender[q].done
    <2>1. sender'[q].pc = pc
      BY <1>4
    <2>2. CASE BeginSend(q)
      BY <2>1, <2>2, <1>2, <1>3 DEF BeginSend, SenderAt, CampaignTypeOK
    <2>3. CASE CommitBatch(q)
      BY <2>1, <2>3, <1>2, <1>3 DEF CommitBatch, SenderAt
    <2>4. CASE MarkSent(q)
      BY <2>1, <2>4, <1>2, <1>3 DEF MarkSent, SenderAt, CallsHandOver
    <2>5. CASE SendFails(q)
      BY <2>1, <2>5, <1>2, <1>3 DEF SendFails, SenderAt
    <2>6. QED
      BY <2>2, <2>3, <2>4, <2>5
  <1>9. CallsHandOver'
    BY <1>1, <1>4, <1>6, <1>8 DEF CallsHandOver
  <1>10. SentByACall'
    <2>1. CASE MarkSent(q)
      BY <2>1, <1>3 DEF MarkSent, SenderAt, SentByACall
    <2>2. CASE ~MarkSent(q)
      BY <2>2, <1>4, <1>8
      DEF SentByACall, BeginSend, CommitBatch, StatusAtCommit, SendFails
    <2>3. QED
      BY <2>1, <2>2
  <1>11. HandedOver'
    BY <1>1, <1>4, <1>6 DEF HandedOver, CampaignTypeOK, Sends
  <1>12. InOnePlace' /\ MailedOnce'
    BY <1>1 DEF InOnePlace, MailedOnce
  <1>13. QED
    BY <1>7, <1>9, <1>10, <1>11, <1>12

LEMMA DispatchInv ==
  ASSUME CampaignInv, NEW q \in Senders, DispatchBatch(q)
  PROVE  CampaignInv'
  <1> USE DEF CampaignInv, DispatchBatch
  <1> DEFINE done == sender[q].done + BatchSize
             b == Batch(q)
  <1>1. sender \in [Senders ->
          [pc : {"idle", "batch", "dispatch", "finish", "answered", "failed"}, done : Nat]]
    BY DEF CampaignTypeOK
  <1>2. /\ sender'[q].done = done /\ done \in Nat
        /\ sender'[q].pc = IF done < Audience THEN "batch" ELSE "finish"
        /\ \A p \in Senders : p # q => sender'[p] = sender[p]
        /\ sender' \in [Senders ->
             [pc : {"idle", "batch", "dispatch", "finish", "answered", "failed"}, done : Nat]]
    BY <1>1, CampaignAssumption
  <1>3. b = {s \in Sends : s[1] = q /\ sender[q].done < s[2] /\ s[2] <= done}
    BY BatchOfUsers
  <1>4. b \subseteq sends
    BY DEF CallsHandOver
  <1>5. b \cap handed = {}
    <2>1. ASSUME NEW s \in b, s \in handed PROVE FALSE
      <3>1. s[2] \in Nat /\ s[1] = q /\ sender[q].done < s[2]
        BY <1>3 DEF Sends, Users
      <3>2. s[2] <= sender[q].done
        BY <2>1, <3>1 DEF HandedOver
      <3>3. QED
        BY <3>1, <3>2, <1>1
    <2>2. QED
      BY <2>1
  <1> HIDE DEF b
  <1>6. batches' = batches \cup {b} /\ handed' = handed \cup b
    BY DEF b
  <1>7. CampaignTypeOK'
    BY <1>2, <1>3, <1>6 DEF CampaignTypeOK
  <1>8. {q} \X {u \in Users : u <= done} \subseteq handed' \cap sends'
    <2>1. ASSUME NEW u \in Users, u <= done PROVE <<q, u>> \in handed' \cap sends'
      <3>1. CASE u <= sender[q].done
        BY <3>1, <1>6 DEF CallsHandOver
      <3>2. CASE ~(u <= sender[q].done)
        <4>1. <<q, u>> \in b
          BY <2>1, <3>2, <1>1, <1>3 DEF Sends, Users
        <4>2. QED
          BY <4>1, <1>4, <1>6
      <3>3. QED
        BY <3>1, <3>2
    <2>2. QED
      BY <2>1
  <1>9. CallsHandOver'
    <2>1. ASSUME NEW p \in Senders, p # q
          PROVE  /\ Batch(p)' = Batch(p)
                 /\ {p} \X {u \in Users : u <= sender'[p].done} =
                    {p} \X {u \in Users : u <= sender[p].done}
      BY <2>1, <1>2 DEF Batch
    <2>2. Audience \in Nat
      BY CampaignAssumption
    <2>3. QED
      BY <1>2, <1>6, <1>8, <2>1, <2>2 DEF CallsHandOver
  <1>10. SentByACall'
    BY <1>2 DEF SentByACall
  <1>11. HandedOver'
    <2>1. ASSUME NEW s \in handed' PROVE s \in sends' /\ s[2] <= sender'[s[1]].done
      <3>1. s \in Sends
        BY <1>3, <1>6 DEF CampaignTypeOK
      <3>2. s[1] \in Senders /\ s[2] \in Nat
        BY <3>1 DEF Sends, Users
      <3>3. CASE s \in b
        BY <3>3, <1>2, <1>3, <1>4
      <3>4. CASE s \in handed
        <4>1. s \in sends /\ s[2] <= sender[s[1]].done
          BY <3>4 DEF HandedOver
        <4>2. sender[s[1]].done <= sender'[s[1]].done
          BY <3>2, <1>1, <1>2, CampaignAssumption
        <4>3. QED
          BY <3>2, <4>1, <4>2, <1>1, <1>2
      <3>5. QED
        BY <3>3, <3>4, <1>6
    <2>2. QED
      BY <2>1 DEF HandedOver
  <1>12. InOnePlace'
    BY <1>5, <1>6 DEF InOnePlace
  <1>13. MailedOnce'
    BY <1>3, <1>5, <1>6 DEF MailedOnce, CampaignTypeOK
  <1>14. QED
    BY <1>7, <1>9, <1>10, <1>11, <1>12, <1>13

LEMMA WorkerInv ==
  ASSUME CampaignInv, NEW w \in Workers,
         (\E b \in batches : TakeBatch(w, b)) \/ MailOne(w) \/ MailFails(w) \/ BatchDies(w)
  PROVE  CampaignInv'
  <1> USE DEF CampaignInv
  <1>1. UNCHANGED <<campaign, sends, sender, handed>>
    BY DEF TakeBatch, MailOne, MailFails, BatchDies
  <1>2. CallsHandOver' /\ SentByACall' /\ HandedOver'
    BY <1>1 DEF CallsHandOver, Batch, SentByACall, HandedOver
  <1>3. worker \in [Workers -> SUBSET Sends] /\ batches \subseteq SUBSET Sends
    BY DEF CampaignTypeOK
  <1>4. CASE \E b \in batches : TakeBatch(w, b)
    <2>1. PICK b \in batches : TakeBatch(w, b)
      BY <1>4
    <2>2. /\ batches' = batches \ {b} /\ mailed' = mailed
          /\ worker'[w] = b /\ \A x \in Workers : x # w => worker'[x] = worker[x]
          /\ worker' \in [Workers -> SUBSET Sends]
      BY <2>1, <1>3 DEF TakeBatch
    <2>3. CampaignTypeOK'
      BY <1>1, <2>2 DEF CampaignTypeOK
    <2>4. InOnePlace'
      BY <1>1, <2>2 DEF InOnePlace
    <2>5. MailedOnce'
      BY <1>1, <2>2 DEF MailedOnce
    <2>6. QED
      BY <1>2, <2>3, <2>4, <2>5
  <1>5. ASSUME NEW left \in SUBSET worker[w], worker' = [worker EXCEPT ![w] = left],
               UNCHANGED <<batches, mailed>>
        PROVE  CampaignInv'
    <2>1. /\ worker'[w] \subseteq worker[w]
          /\ \A x \in Workers : x # w => worker'[x] = worker[x]
          /\ worker' \in [Workers -> SUBSET Sends]
      BY <1>3, <1>5
    <2>2. CampaignTypeOK'
      BY <1>1, <1>5, <2>1 DEF CampaignTypeOK
    <2>3. InOnePlace' /\ MailedOnce'
      BY <1>1, <1>5, <2>1 DEF InOnePlace, MailedOnce
    <2>4. QED
      BY <1>2, <2>2, <2>3
  <1>6. CASE MailFails(w)
    <2>1. AfterMailFails(worker[w]) \in SUBSET worker[w]
      BY DEF AfterMailFails
    <2>2. QED
      BY <1>5, <1>6, <2>1 DEF MailFails
  <1>7. CASE BatchDies(w)
    BY <1>5, <1>7 DEF BatchDies
  <1>8. CASE MailOne(w)
    <2>1. PICK s \in worker[w] :
            /\ mailed' = [mailed EXCEPT ![s] = @ + 1]
            /\ worker' = [worker EXCEPT ![w] = @ \ {s}]
      BY <1>8 DEF MailOne
    <2>2. batches' = batches
      BY <1>8 DEF MailOne
    <2>3. /\ worker'[w] = worker[w] \ {s}
          /\ \A x \in Workers : x # w => worker'[x] = worker[x]
          /\ worker' \in [Workers -> SUBSET Sends]
      BY <1>3, <2>1
    <2>4. s \in Sends /\ mailed \in [Sends -> Nat]
      BY <1>3, <2>1 DEF CampaignTypeOK
    <2>5. mailed[s] = 0
      BY <2>1, <2>4 DEF MailedOnce
    <2>6. /\ mailed'[s] = 1 /\ \A r \in Sends : r # s => mailed'[r] = mailed[r]
          /\ mailed' \in [Sends -> Nat]
      BY <2>1, <2>4, <2>5
    <2>7. CampaignTypeOK'
      BY <1>1, <2>2, <2>3, <2>6 DEF CampaignTypeOK
    <2>8. InOnePlace'
      BY <1>1, <2>2, <2>3 DEF InOnePlace
    <2>9. s \in handed
      BY <2>1 DEF InOnePlace
    <2>10. /\ \A b \in batches : s \notin b
           /\ \A x \in Workers : s \notin worker'[x]
      BY <2>1, <2>3 DEF InOnePlace
    <2>11. MailedOnce'
      <3>1. ASSUME NEW r \in Sends
            PROVE  /\ mailed'[r] <= 1
                   /\ mailed'[r] > 0 => r \in handed
                   /\ (\E b \in batches : r \in b) => mailed'[r] = 0
                   /\ \A x \in Workers : r \in worker'[x] => mailed'[r] = 0
        <4>1. CASE r = s
          BY <4>1, <2>6, <2>9, <2>10
        <4>2. CASE r # s
          BY <4>2, <2>3, <2>6 DEF MailedOnce
        <4>3. QED
          BY <4>1, <4>2
      <3>2. QED
        BY <3>1, <1>1, <2>2 DEF MailedOnce
    <2>12. QED
      BY <1>2, <2>7, <2>8, <2>11
  <1>9. QED
    BY <1>4, <1>6, <1>7, <1>8

LEMMA AlwaysCampaign == CampaignSpec => []CampaignInv
  <1>1. CampaignInv /\ UNCHANGED campaignVars => CampaignInv'
    BY DEF CampaignInv, campaignVars, CampaignTypeOK, CallsHandOver, Batch, SentByACall,
           HandedOver, InOnePlace, MailedOnce
  <1>2. CampaignInv /\ [CampaignNext]_campaignVars => CampaignInv'
    BY <1>1, SenderInv, DispatchInv, WorkerInv DEF CampaignNext
  <1>3. QED
    BY InitCampaign, <1>2, PTL DEF CampaignSpec

\* A campaign that is marked sent was handed over whole by one of the calls
\* (services/email.py:201), for any audience, size of a batch and number of calls.
THEOREM SentIsWhole == CampaignSpec => []SentIsHandedOver
  <1>1. CampaignInv => SentIsHandedOver
    <2>1. ASSUME CampaignInv, NEW q \in Senders, sender[q].pc = "answered"
          PROVE  {q} \X Users \subseteq handed \cap sends
      <3>1. Audience <= sender[q].done /\ sender[q].done \in Nat
        BY <2>1 DEF CampaignInv, CallsHandOver, CampaignTypeOK
      <3>2. {u \in Users : u <= sender[q].done} = Users
        BY <3>1, CampaignAssumption DEF Users
      <3>3. QED
        BY <2>1, <3>2 DEF CampaignInv, CallsHandOver
    <2>2. QED
      BY <2>1 DEF CampaignInv, SentByACall, SentIsHandedOver
  <1>2. QED
    BY <1>1, AlwaysCampaign, PTL

\* No worker mails a row twice, nor one that is not stored (tasks/email.py:82).
THEOREM MailedAtMostOnce == CampaignSpec => []RowsMailedOnce
  <1>1. CampaignInv => RowsMailedOnce
    BY DEF CampaignInv, CampaignTypeOK, HandedOver, MailedOnce, RowsMailedOnce
  <1>2. QED
    BY <1>1, AlwaysCampaign, PTL

-----------------------------------------------------------------------------
(* The tenant cache.                                                        *)

StoredEntry == [tenant : Tenants, stamp : Stamps, ttl : 0..Ttl]

CacheTyped ==
  /\ CacheTypeOK
  /\ \A h \in Hosts : Cached(h) => cache[h] \in StoredEntry /\ cache[h].ttl > 0
  /\ \A r \in Readers : reader[r].pc = "store" =>
       reader[r].host \in Hosts /\ reader[r].entry \in StoredEntry /\ reader[r].entry.ttl = Ttl
  /\ \A e \in Editors : editor[e].pc # "idle" => editor[e].tenant \in Tenants

\* Stamps are given out once, and never taken back.
StampsGrow ==
  /\ \A t \in Tenants : tenants[t].stamp <= updates
  /\ \A h \in Hosts : Cached(h) => cache[h].stamp <= updates
  /\ \A r \in Readers : reader[r].pc = "store" => reader[r].entry.stamp <= updates

\* A row as it is, or as it could be to come, was not changed yet.
NotReplaced ==
  \A t \in Tenants, s \in Stamps :
    s = tenants[t].stamp \/ s > updates => replaced[t][s] = MaxTime

\* An entry was the row when its life began, or one tick before.
Recent ==
  /\ \A h \in Hosts : Cached(h) =>
       now + cache[h].ttl <= replaced[cache[h].tenant][cache[h].stamp] + Ttl + 1
  /\ \A r \in Readers : reader[r].pc = "store" =>
       now <= replaced[reader[r].entry.tenant][reader[r].entry.stamp]
              + (IF reader[r].late THEN 1 ELSE 0)

AgeInv == CacheTyped /\ StampsGrow /\ NotReplaced /\ Recent

LEMMA StoredEntries == StoredEntry \subseteq Entry /\ NoEntry \in Entry
  BY DEF StoredEntry, Entry

LEMMA InitAge == CacheInit => AgeInv
  <1> SUFFICES ASSUME CacheInit PROVE AgeInv
    OBVIOUS
  <1> USE DEF CacheInit
  <1>1. CacheTypeOK
    <2>1. tenants \in [Tenants -> TenantRow]
      BY CacheAssumption DEF TenantRow, Stamps
    <2>2. cache \in [Hosts -> Entry]
      BY StoredEntries
    <2>3. NoReader \in [pc : {"idle", "store"}, host : Domains, entry : Entry, late : BOOLEAN]
      BY StoredEntries DEF NoReader, Domains
    <2>4. NoEditor \in [pc : {"idle", "refresh", "invalidate"},
                        tenant : Tenants \cup {NoHost}, keys : SUBSET Hosts]
      BY DEF NoEditor
    <2>5. replaced \in [Tenants -> [Stamps -> 0..MaxTime]]
      BY CacheAssumption
    <2>6. now \in 0..MaxTime /\ updates \in 0..MaxUpdates /\ bypassed \in BOOLEAN
      <3>1. now = 0 /\ updates = 0 /\ bypassed = FALSE
        OBVIOUS
      <3>2. 0 \in 0..MaxTime /\ 0 \in 0..MaxUpdates
        BY CacheAssumption
      <3>3. QED
        BY <3>1, <3>2
    <2>7. QED
      BY <2>1, <2>2, <2>3, <2>4, <2>5, <2>6 DEF CacheTypeOK
  <1>2. /\ \A h \in Hosts : ~Cached(h)
        /\ \A r \in Readers : reader[r].pc = "idle"
        /\ \A e \in Editors : editor[e].pc = "idle"
    BY DEF Cached, NoReader, NoEditor
  <1>3. \A t \in Tenants : tenants[t].stamp = 0
    OBVIOUS
  <1>4. QED
    BY <1>1, <1>2, <1>3 DEF AgeInv, CacheTyped, StampsGrow, NotReplaced, Recent

\* An update: what it writes, whoever asked for it.
LEMMA UpdateAge ==
  ASSUME AgeInv, NEW t \in Tenants, NEW custom \in Domains, NEW sub \in Domains,
         Update(t, custom, sub), UNCHANGED <<cache, reader, now>>,
         editor' \in [Editors -> [pc : {"idle", "refresh", "invalidate"},
                                  tenant : Tenants \cup {NoHost}, keys : SUBSET Hosts]],
         \A e \in Editors : editor'[e].pc # "idle" => editor'[e].tenant \in Tenants,
         bypassed' \in BOOLEAN
  PROVE  AgeInv'
  <1> USE DEF AgeInv
  <1>1. /\ updates \in Nat /\ updates' = updates + 1 /\ updates' \in Stamps
        /\ now \in 0..MaxTime /\ tenants \in [Tenants -> TenantRow]
        /\ replaced \in [Tenants -> [Stamps -> 0..MaxTime]]
    BY CacheAssumption DEF Update, CacheTyped, CacheTypeOK, Stamps
  <1>2. tenants[t].stamp \in Stamps /\ tenants[t].stamp <= updates
    BY <1>1 DEF TenantRow, StampsGrow
  <1> DEFINE new == [custom |-> custom, sub |-> sub, stamp |-> updates + 1]
             was == tenants[t].stamp
  <1>3. new \in TenantRow /\ new.stamp = updates + 1
    BY <1>1 DEF TenantRow
  <1>4. tenants' = [tenants EXCEPT ![t] = new] /\ replaced' = [replaced EXCEPT ![t][was] = now]
    BY DEF Update
  <1> HIDE DEF new, was
  <1>5. /\ tenants' \in [Tenants -> TenantRow]
        /\ tenants'[t].stamp = updates + 1
        /\ \A u \in Tenants : u # t => tenants'[u] = tenants[u]
    BY <1>1, <1>3, <1>4
  <1>6. was \in Stamps /\ was <= updates /\ was = tenants[t].stamp
    BY <1>2 DEF was
  <1>7. /\ replaced' \in [Tenants -> [Stamps -> 0..MaxTime]]
        /\ replaced'[t][was] = now
        /\ \A u \in Tenants, s \in Stamps :
             ~(u = t /\ s = was) => replaced'[u][s] = replaced[u][s]
    BY <1>1, <1>4, <1>6
  <1>8. CacheTyped'
    BY <1>1, <1>5, <1>7 DEF CacheTyped, CacheTypeOK, Cached, Stamps
  <1>9. StampsGrow'
    <2>1. \A u \in Tenants : tenants[u].stamp \in Nat
      BY <1>1 DEF TenantRow, Stamps
    <2>2. \A h \in Hosts : Cached(h) => cache[h].stamp \in Nat
      BY DEF CacheTyped, StoredEntry, Stamps
    <2>3. \A r \in Readers : reader[r].pc = "store" => reader[r].entry.stamp \in Nat
      BY DEF CacheTyped, StoredEntry, Stamps
    <2>4. QED
      BY <1>1, <1>5, <2>1, <2>2, <2>3 DEF StampsGrow, Cached
  <1>10. NotReplaced'
    <2>1. ASSUME NEW u \in Tenants, NEW s \in Stamps,
                 s = tenants'[u].stamp \/ s > updates'
          PROVE  replaced'[u][s] = MaxTime
      <3>1. s \in Nat
        BY DEF Stamps
      <3>2. CASE u = t
        <4>1. s > updates
          BY <2>1, <3>1, <3>2, <1>1, <1>5
        <4>2. s # was
          BY <4>1, <3>1, <1>1, <1>6 DEF Stamps
        <4>3. QED
          BY <4>1, <4>2, <1>7 DEF NotReplaced
      <3>3. CASE u # t
        <4>1. s = tenants[u].stamp \/ s > updates
          BY <2>1, <3>1, <3>3, <1>1, <1>5
        <4>2. QED
          BY <4>1, <3>3, <1>7 DEF NotReplaced
      <3>4. QED
        BY <3>2, <3>3
    <2>2. QED
      BY <2>1 DEF NotReplaced
  <1>11. Recent'
    <2>1. ASSUME NEW h \in Hosts, Cached(h)
          PROVE  now + cache[h].ttl <= replaced'[cache[h].tenant][cache[h].stamp] + Ttl + 1
      <3>1. cache[h] \in StoredEntry
        BY <2>1 DEF CacheTyped
      <3>2. /\ cache[h].tenant \in Tenants /\ cache[h].stamp \in Stamps
            /\ cache[h].ttl \in 0..Ttl
        BY <3>1 DEF StoredEntry
      <3>3. CASE cache[h].tenant = t /\ cache[h].stamp = was
        BY <3>2, <3>3, <1>1, <1>7, CacheAssumption
      <3>4. CASE ~(cache[h].tenant = t /\ cache[h].stamp = was)
        BY <2>1, <3>2, <3>4, <1>7 DEF Recent
      <3>5. QED
        BY <3>3, <3>4
    <2>2. ASSUME NEW r \in Readers, reader[r].pc = "store"
          PROVE  now <= replaced'[reader[r].entry.tenant][reader[r].entry.stamp]
                        + (IF reader[r].late THEN 1 ELSE 0)
      <3>1. reader[r].entry \in StoredEntry
        BY <2>2 DEF CacheTyped
      <3>2. reader[r].entry.tenant \in Tenants /\ reader[r].entry.stamp \in Stamps
        BY <3>1 DEF StoredEntry
      <3>3. CASE reader[r].entry.tenant = t /\ reader[r].entry.stamp = was
        BY <3>3, <1>1, <1>7
      <3>4. CASE ~(reader[r].entry.tenant = t /\ reader[r].entry.stamp = was)
        BY <2>2, <3>2, <3>4, <1>7 DEF Recent
      <3>5. QED
        BY <3>3, <3>4
    <2>3. QED
      BY <2>1, <2>2 DEF Recent, Cached
  <1>12. QED
    BY <1>8, <1>9, <1>10, <1>11

LEMMA ReaderAge ==
  ASSUME AgeInv, NEW r \in Readers, NEW h \in Hosts,
         HitCache(h) \/ SelectTenant(r, h) \/ StoreTenant(r) \/ ReaderFails(r)
  PROVE  AgeInv'
  <1> USE DEF AgeInv
  <1>1. /\ cache \in [Hosts -> Entry]
        /\ reader \in [Readers -> [pc : {"idle", "store"}, host : Domains, entry : Entry,
                                    late : BOOLEAN]]
    BY DEF CacheTyped, CacheTypeOK
  <1>2. CASE HitCache(h)
    BY <1>2 DEF HitCache, AfterHit, CacheTyped, CacheTypeOK, StampsGrow, NotReplaced, Recent,
                Cached
  <1>3. ASSUME UNCHANGED <<tenants, editor, now, updates, replaced, bypassed>>,
               cache' = cache \/ (/\ reader[r].pc = "store"
                                  /\ cache' = [cache EXCEPT ![reader[r].host] = reader[r].entry]),
               reader' = [reader EXCEPT ![r] = NoReader]
        PROVE  AgeInv'
    <2>1. NoReader \in [pc : {"idle", "store"}, host : Domains, entry : Entry, late : BOOLEAN]
      BY StoredEntries DEF NoReader, Domains
    <2>2. /\ reader' \in [Readers -> [pc : {"idle", "store"}, host : Domains, entry : Entry,
                                       late : BOOLEAN]]
          /\ \A o \in Readers : reader'[o].pc = "store" => reader'[o] = reader[o]
      BY <1>1, <1>3, <2>1 DEF NoReader
    <2>3. /\ cache' \in [Hosts -> Entry]
          /\ \A k \in Hosts : \/ cache'[k] = cache[k]
                              \/ reader[r].pc = "store" /\ cache'[k] = reader[r].entry
      BY <1>1, <1>3 DEF CacheTyped
    <2>4. CacheTyped'
      BY <1>3, <2>2, <2>3, CacheAssumption DEF CacheTyped, CacheTypeOK, Cached
    <2>5. StampsGrow' /\ NotReplaced'
      BY <1>3, <2>2, <2>3 DEF StampsGrow, NotReplaced, Cached
    <2>6. ASSUME NEW k \in Hosts, Cached(k)'
          PROVE  now + cache'[k].ttl <= replaced[cache'[k].tenant][cache'[k].stamp] + Ttl + 1
      <3>1. CASE cache'[k] = cache[k]
        BY <2>6, <3>1 DEF Recent, Cached
      <3>2. CASE reader[r].pc = "store" /\ cache'[k] = reader[r].entry
        <4> DEFINE then == replaced[reader[r].entry.tenant][reader[r].entry.stamp]
        <4>1. reader[r].entry \in StoredEntry /\ reader[r].entry.ttl = Ttl
          BY <3>2 DEF CacheTyped
        <4>2. reader[r].entry.tenant \in Tenants /\ reader[r].entry.stamp \in Stamps
          BY <4>1 DEF StoredEntry
        <4>3. then \in 0..MaxTime /\ now \in 0..MaxTime
          BY <4>2 DEF CacheTyped, CacheTypeOK
        <4>4. now <= then + (IF reader[r].late THEN 1 ELSE 0)
          BY <3>2 DEF Recent
        <4> HIDE DEF then
        <4>5. now + Ttl <= then + Ttl + 1
          BY <4>3, <4>4, CacheAssumption
        <4>6. QED
          BY <3>2, <4>1, <4>5 DEF then
      <3>3. QED
        BY <2>3, <3>1, <3>2
    <2>7. Recent'
      BY <1>3, <2>2, <2>6 DEF Recent
    <2>8. QED
      BY <2>4, <2>5, <2>7
  <1>4. CASE StoreTenant(r)
    BY <1>3, <1>4 DEF StoreTenant
  <1>5. CASE ReaderFails(r)
    BY <1>3, <1>5 DEF ReaderFails
  <1>6. CASE SelectTenant(r, h)
    <2>1. PICK t \in Owners(h) :
            reader' = [reader EXCEPT ![r] =
              [pc |-> "store", host |-> h, late |-> FALSE,
               entry |-> [tenant |-> t, stamp |-> tenants[t].stamp, ttl |-> Ttl]]]
      BY <1>6 DEF SelectTenant
    <2> DEFINE entry == [tenant |-> t, stamp |-> tenants[t].stamp, ttl |-> Ttl]
               new == [pc |-> "store", host |-> h, late |-> FALSE, entry |-> entry]
    <2>2. UNCHANGED <<tenants, cache, editor, now, updates, replaced, bypassed>>
      BY <1>6 DEF SelectTenant
    <2>3. t \in Tenants /\ tenants[t].stamp \in Stamps
      BY DEF Owners, CacheTyped, CacheTypeOK, TenantRow
    <2>4. entry \in StoredEntry
      BY <2>3, CacheAssumption DEF StoredEntry
    <2>5. /\ entry.tenant = t /\ entry.stamp = tenants[t].stamp /\ entry.ttl = Ttl
      OBVIOUS
    <2> HIDE DEF entry
    <2>6. new \in [pc : {"idle", "store"}, host : Domains, entry : Entry, late : BOOLEAN]
      BY <2>4, StoredEntries DEF Domains
    <2>7. /\ reader' \in [Readers -> [pc : {"idle", "store"}, host : Domains, entry : Entry,
                                       late : BOOLEAN]]
          /\ reader'[r] = new /\ \A o \in Readers : o # r => reader'[o] = reader[o]
      BY <1>1, <2>1, <2>6 DEF entry
    <2>8. new.pc = "store" /\ new.host = h /\ new.entry = entry /\ new.late = FALSE
      OBVIOUS
    <2> HIDE DEF new
    <2>9. now <= replaced[t][entry.stamp]
      <3>1. replaced[t][entry.stamp] = MaxTime
        BY <2>3, <2>5 DEF NotReplaced
      <3>2. QED
        BY <3>1, CacheAssumption DEF CacheTyped, CacheTypeOK
    <2>10. CacheTyped'
      BY <2>2, <2>4, <2>5, <2>7, <2>8 DEF CacheTyped, CacheTypeOK, Cached
    <2>11. StampsGrow' /\ NotReplaced'
      BY <2>2, <2>3, <2>5, <2>7, <2>8 DEF StampsGrow, NotReplaced, Cached
    <2>12. now \in 0..MaxTime /\ replaced[t][entry.stamp] \in 0..MaxTime
      BY <2>3, <2>5 DEF CacheTyped, CacheTypeOK
    <2>13. Recent'
      BY <2>2, <2>5, <2>7, <2>8, <2>9, <2>12 DEF Recent, Cached
    <2>14. QED
      BY <2>10, <2>11, <2>13
  <1>7. QED
    BY <1>2, <1>4, <1>5, <1>6

LEMMA TickAge == ASSUME AgeInv, Tick PROVE AgeInv'
  <1> USE DEF AgeInv
  <1>1. /\ cache \in [Hosts -> Entry]
        /\ reader \in [Readers -> [pc : {"idle", "store"}, host : Domains, entry : Entry,
                                    late : BOOLEAN]]
        /\ now \in Nat /\ now' = now + 1 /\ now' \in 0..MaxTime
        /\ UNCHANGED <<tenants, editor, updates, replaced, bypassed>>
    BY CacheAssumption DEF Tick, CacheTyped, CacheTypeOK
  <1>2. ASSUME NEW h \in Hosts, cache'[h] # NoEntry
        PROVE  /\ cache[h] # NoEntry /\ cache[h] \in StoredEntry /\ cache'[h] \in StoredEntry
               /\ cache'[h].tenant = cache[h].tenant /\ cache'[h].stamp = cache[h].stamp
               /\ cache'[h].ttl = cache[h].ttl - 1 /\ cache'[h].ttl > 0
    <2>1. cache'[h] = [cache[h] EXCEPT !.ttl = cache[h].ttl - 1] /\ ~(cache[h].ttl <= 1)
      BY <1>2 DEF Tick
    <2>2. cache[h] # NoEntry
      BY <2>1 DEF NoEntry
    <2>3. cache[h] \in StoredEntry
      BY <2>2 DEF CacheTyped, Cached
    <2>4. QED
      BY <2>1, <2>2, <2>3, CacheAssumption DEF StoredEntry
  <1>3. cache' \in [Hosts -> Entry]
    <2>1. \A h \in Hosts : cache'[h] \in Entry
      BY <1>2, StoredEntries
    <2>2. QED
      BY <2>1 DEF Tick
  <1>4. ASSUME NEW r \in Readers
        PROVE  /\ reader'[r] \in [pc : {"idle", "store"}, host : Domains, entry : Entry,
                                   late : BOOLEAN]
               /\ reader'[r].pc = reader[r].pc /\ reader'[r].host = reader[r].host
               /\ reader'[r].entry = reader[r].entry
               /\ reader[r].pc = "store" => reader'[r].late /\ ~reader[r].late
    <2> DEFINE late == reader[r].pc = "store"
    <2>1. late \in BOOLEAN /\ reader'[r] = [reader[r] EXCEPT !.late = late]
      BY <1>1 DEF Tick
    <2>2. late = (reader[r].pc = "store") /\ ~reader[r].late
      BY DEF Tick
    <2> HIDE DEF late
    <2>3. reader[r] \in [pc : {"idle", "store"}, host : Domains, entry : Entry, late : BOOLEAN]
      BY <1>1
    <2>4. /\ reader'[r] \in [pc : {"idle", "store"}, host : Domains, entry : Entry,
                             late : BOOLEAN]
          /\ reader'[r].pc = reader[r].pc /\ reader'[r].host = reader[r].host
          /\ reader'[r].entry = reader[r].entry /\ reader'[r].late = late
      BY <2>1, <2>3
    <2>5. QED
      BY <2>2, <2>4
  <1>5. CacheTyped'
    <2>1. reader' \in [Readers -> [pc : {"idle", "store"}, host : Domains, entry : Entry,
                                   late : BOOLEAN]]
      BY <1>4 DEF Tick
    <2>2. CacheTypeOK'
      BY <1>1, <1>3, <2>1 DEF CacheTyped, CacheTypeOK
    <2>3. QED
      BY <1>1, <1>2, <1>4, <2>2 DEF CacheTyped, Cached
  <1>6. StampsGrow' /\ NotReplaced'
    BY <1>1, <1>2, <1>4 DEF StampsGrow, NotReplaced, Cached
  <1>7. ASSUME NEW h \in Hosts, cache'[h] # NoEntry
        PROVE  now' + cache'[h].ttl <= replaced[cache'[h].tenant][cache'[h].stamp] + Ttl + 1
    <2>1. now + cache[h].ttl <= replaced[cache[h].tenant][cache[h].stamp] + Ttl + 1
      BY <1>2, <1>7 DEF Recent, Cached
    <2>2. cache[h].ttl \in Nat
      BY <1>2, <1>7 DEF StoredEntry
    <2>3. now' + cache'[h].ttl = now + cache[h].ttl
      BY <1>1, <1>2, <1>7, <2>2
    <2>4. QED
      BY <1>2, <1>7, <2>1, <2>3
  <1>8. ASSUME NEW r \in Readers, reader'[r].pc = "store"
        PROVE  now' <= replaced[reader'[r].entry.tenant][reader'[r].entry.stamp]
                       + (IF reader'[r].late THEN 1 ELSE 0)
    <2> DEFINE then == replaced[reader[r].entry.tenant][reader[r].entry.stamp]
    <2>1. now <= then + (IF reader[r].late THEN 1 ELSE 0)
      BY <1>4, <1>8 DEF Recent
    <2>2. reader[r].entry \in StoredEntry
      BY <1>4, <1>8 DEF CacheTyped
    <2>3. then \in 0..MaxTime
      BY <2>2 DEF StoredEntry, CacheTyped, CacheTypeOK
    <2> HIDE DEF then
    <2>4. now' <= then + 1
      BY <1>1, <1>4, <1>8, <2>1, <2>3, CacheAssumption
    <2>5. QED
      BY <1>4, <1>8, <2>4 DEF then
  <1>9. Recent'
    BY <1>1, <1>7, <1>8 DEF Recent, Cached
  <1>10. QED
    BY <1>5, <1>6, <1>9

LEMMA WriterAge ==
  ASSUME AgeInv,
         \/ \E e \in Editors : (\E t \in Tenants : CommitSettings(e, t)) \/ RefreshTenant(e)
                               \/ InvalidateTenant(e) \/ EditorFails(e)
         \/ \E t \in Tenants, custom, sub \in Domains : UpdateTenant(t, custom, sub)
  PROVE  AgeInv'
  <1> USE DEF AgeInv
  <1> DEFINE EditorRow == [pc : {"idle", "refresh", "invalidate"},
                           tenant : Tenants \cup {NoHost}, keys : SUBSET Hosts]
  <1>1. editor \in [Editors -> EditorRow] /\ bypassed \in BOOLEAN
    BY DEF CacheTyped, CacheTypeOK
  <1>2. ASSUME NEW e \in Editors, NEW t \in Tenants, CommitSettings(e, t) PROVE AgeInv'
    <2> DEFINE new == [pc |-> "refresh", tenant |-> t, keys |-> {}]
    <2>1. new \in EditorRow /\ new.pc = "refresh" /\ new.tenant = t
      OBVIOUS
    <2>2. editor' = [editor EXCEPT ![e] = new]
      BY <1>2 DEF CommitSettings
    <2> HIDE DEF new
    <2>3. /\ editor' \in [Editors -> EditorRow]
          /\ \A f \in Editors : editor'[f].pc # "idle" => editor'[f].tenant \in Tenants
      BY <1>1, <2>1, <2>2 DEF CacheTyped
    <2>4. tenants[t].custom \in Domains /\ tenants[t].sub \in Domains
      BY DEF CacheTyped, CacheTypeOK, TenantRow
    <2>5. bypassed' \in BOOLEAN
      BY <1>1, <1>2 DEF CommitSettings
    <2>6. Update(t, tenants[t].custom, tenants[t].sub) /\ UNCHANGED <<cache, reader, now>>
      BY <1>2 DEF CommitSettings
    <2>7. QED
      BY <2>3, <2>4, <2>5, <2>6, UpdateAge
  <1>3. ASSUME NEW t \in Tenants, NEW custom \in Domains, NEW sub \in Domains,
               UpdateTenant(t, custom, sub)
        PROVE  AgeInv'
    <2>1. /\ Update(t, custom, sub) /\ UNCHANGED <<cache, reader, now>>
          /\ editor' = editor /\ bypassed' \in BOOLEAN
      BY <1>3 DEF UpdateTenant
    <2>2. \A e \in Editors : editor'[e].pc # "idle" => editor'[e].tenant \in Tenants
      BY <2>1 DEF CacheTyped
    <2>3. QED
      BY <1>1, <2>1, <2>2, UpdateAge
  <1>4. ASSUME NEW e \in Editors, NEW new \in EditorRow, editor' = [editor EXCEPT ![e] = new],
               new.pc = "idle" \/ new.tenant \in Tenants,
               cache' \in [Hosts -> Entry],
               \A h \in Hosts : cache'[h] # NoEntry => cache'[h] = cache[h],
               UNCHANGED <<tenants, reader, now, updates, replaced>>, bypassed' \in BOOLEAN
        PROVE  AgeInv'
    <2>1. editor' \in [Editors -> EditorRow]
      BY <1>1, <1>4
    <2>2. \A f \in Editors : editor'[f].pc # "idle" => editor'[f].tenant \in Tenants
      BY <1>1, <1>4 DEF CacheTyped
    <2>3. CacheTyped'
      BY <1>4, <2>1, <2>2 DEF CacheTyped, CacheTypeOK, Cached
    <2>4. QED
      BY <1>4, <2>3 DEF StampsGrow, NotReplaced, Recent, Cached
  <1>5. cache \in [Hosts -> Entry]
    BY DEF CacheTyped, CacheTypeOK
  <1>6. NoEditor \in EditorRow /\ NoEditor.pc = "idle"
    BY DEF NoEditor
  <1>7. ASSUME NEW e \in Editors, RefreshTenant(e) PROVE AgeInv'
    <2> DEFINE t == editor[e].tenant
               new == [pc |-> "invalidate", tenant |-> t, keys |-> KeysOf(t)]
    <2>1. t \in Tenants /\ KeysOf(t) \in SUBSET Hosts
      BY <1>7 DEF RefreshTenant, CacheTyped, KeysOf
    <2>2. new \in EditorRow /\ new.tenant \in Tenants
      BY <2>1
    <2>3. editor' = [editor EXCEPT ![e] = new]
      BY <1>1, <1>7 DEF RefreshTenant
    <2>4. UNCHANGED <<tenants, cache, reader, now, updates, replaced, bypassed>>
      BY <1>7 DEF RefreshTenant
    <2> HIDE DEF new
    <2>5. QED
      BY <1>1, <1>4, <1>5, <2>2, <2>3, <2>4
  <1>8. ASSUME NEW e \in Editors, InvalidateTenant(e) PROVE AgeInv'
    <2>1. /\ editor' = [editor EXCEPT ![e] = NoEditor]
          /\ UNCHANGED <<tenants, reader, now, updates, replaced, bypassed>>
          /\ cache' = [h \in Hosts |-> IF h \in editor[e].keys THEN NoEntry ELSE cache[h]]
      BY <1>8 DEF InvalidateTenant
    <2>2. /\ cache' \in [Hosts -> Entry]
          /\ \A h \in Hosts : cache'[h] # NoEntry => cache'[h] = cache[h]
      BY <1>5, <2>1, StoredEntries
    <2>3. QED
      BY <1>1, <1>4, <1>6, <2>1, <2>2
  <1>9. ASSUME NEW e \in Editors, EditorFails(e) PROVE AgeInv'
    <2>1. /\ editor' = [editor EXCEPT ![e] = NoEditor] /\ bypassed' \in BOOLEAN
          /\ UNCHANGED <<tenants, cache, reader, now, updates, replaced>>
      BY <1>9 DEF EditorFails
    <2>2. QED
      BY <1>4, <1>5, <1>6, <2>1
  <1>10. QED
    BY <1>2, <1>3, <1>7, <1>8, <1>9

LEMMA AlwaysAge == CacheSpec => []AgeInv
  <1>1. AgeInv /\ UNCHANGED cacheVars => AgeInv'
    BY DEF AgeInv, cacheVars, CacheTyped, CacheTypeOK, Cached, StampsGrow, NotReplaced, Recent
  <1>2. AgeInv /\ [CacheNext]_cacheVars => AgeInv'
    <2> SUFFICES ASSUME AgeInv, CacheNext PROVE AgeInv'
      BY <1>1
    <2>1. ASSUME NEW h \in Hosts, HitCache(h) PROVE AgeInv'
      BY <2>1 DEF HitCache, AfterHit, AgeInv, CacheTyped, CacheTypeOK, StampsGrow, NotReplaced,
                  Recent, Cached
    <2>2. ASSUME NEW r \in Readers, StoreTenant(r) \/ ReaderFails(r) PROVE AgeInv'
      <3>1. reader[r].pc = "store"
        BY <2>2 DEF StoreTenant, ReaderFails
      <3>2. reader[r].host \in Hosts
        BY <3>1 DEF AgeInv, CacheTyped
      <3>3. QED
        BY <2>2, <3>2, ReaderAge
    <2>3. QED
      BY <2>1, <2>2, ReaderAge, WriterAge, TickAge DEF CacheNext
  <1>3. QED
    BY InitAge, <1>2, PTL DEF CacheSpec

\* No entry of the cache is older than its time to live and one request's time
\* (core/middleware.py:70, services/superadmin.py:104), for any hosts, tenants,
\* readers and writers, however updates miss the cache.
THEOREM StaleAtMostTtl == CacheSpec => []StaleNoLongerThanTtl
  <1>1. ASSUME AgeInv, NEW h \in Hosts, Cached(h)
        PROVE  now < replaced[cache[h].tenant][cache[h].stamp] + Ttl + 1
    <2>1. /\ now + cache[h].ttl <= replaced[cache[h].tenant][cache[h].stamp] + Ttl + 1
          /\ cache[h] \in StoredEntry /\ cache[h].ttl > 0 /\ now \in Nat
      BY <1>1 DEF AgeInv, Recent, CacheTyped, CacheTypeOK
    <2>2. /\ cache[h].ttl \in Nat
          /\ replaced[cache[h].tenant][cache[h].stamp] \in Nat
      BY <1>1, <2>1 DEF StoredEntry, AgeInv, CacheTyped, CacheTypeOK
    <2>3. QED
      BY <2>1, <2>2, CacheAssumption
  <1>2. AgeInv => StaleNoLongerThanTtl
    BY <1>1 DEF StaleNoLongerThanTtl
  <1>3. QED
    BY <1>2, AlwaysAge, PTL

\* An editor that will delete the entry of h.
Pursues(e, h) ==
  /\ editor[e].pc # "idle" /\ editor[e].tenant = cache[h].tenant
  /\ editor[e].pc = "invalidate" => h \in editor[e].keys

HostsOf(t) == {tenants[t].custom, tenants[t].sub}

\* As long as every update invalidates, an entry is under one of its tenant's
\* hosts, and is the row or about to go; what a reader holds is the row.
Shown ==
  ~bypassed =>
    /\ \A h \in Hosts : Cached(h) =>
         /\ h \in HostsOf(cache[h].tenant)
         /\ \/ cache[h].stamp = tenants[cache[h].tenant].stamp
            \/ \E e \in Editors : Pursues(e, h)
    /\ \A r \in Readers : reader[r].pc = "store" =>
         /\ reader[r].host \in HostsOf(reader[r].entry.tenant)
         /\ reader[r].entry.stamp = tenants[reader[r].entry.tenant].stamp

LEMMA InitShown == CacheInit => Shown
  BY DEF CacheInit, Shown, Cached, NoReader

LEMMA NextShown == ASSUME AgeInv, Shown, [CacheNext]_cacheVars PROVE Shown'
  <1> SUFFICES ASSUME ~bypassed' PROVE Shown'
    BY DEF Shown
  <1> USE DEF Shown, HostsOf
  <1>1. /\ cache \in [Hosts -> Entry]
        /\ reader \in [Readers -> [pc : {"idle", "store"}, host : Domains, entry : Entry,
                                    late : BOOLEAN]]
        /\ tenants \in [Tenants -> TenantRow]
        /\ editor \in [Editors -> [pc : {"idle", "refresh", "invalidate"},
                                    tenant : Tenants \cup {NoHost}, keys : SUBSET Hosts]]
    BY DEF AgeInv, CacheTyped, CacheTypeOK
  <1>2. CASE UNCHANGED cacheVars
    BY <1>2 DEF cacheVars, Cached, Pursues
  <1>3. ASSUME NEW h \in Hosts, HitCache(h) PROVE Shown'
    BY <1>3 DEF HitCache, AfterHit, Cached, Pursues
  <1>4. ASSUME NEW h \in Hosts, NEW r \in Readers, SelectTenant(r, h) PROVE Shown'
    <2>1. PICK t \in Owners(h) :
            reader' = [reader EXCEPT ![r] =
              [pc |-> "store", host |-> h, late |-> FALSE,
               entry |-> [tenant |-> t, stamp |-> tenants[t].stamp, ttl |-> Ttl]]]
      BY <1>4 DEF SelectTenant
    <2>2. UNCHANGED <<tenants, cache, editor, bypassed>>
      BY <1>4 DEF SelectTenant
    <2>3. /\ reader'[r].host = h /\ reader'[r].entry.tenant = t
          /\ reader'[r].entry.stamp = tenants[t].stamp
          /\ \A o \in Readers : o # r => reader'[o] = reader[o]
      BY <1>1, <2>1
    <2>4. h \in HostsOf(t)
      BY DEF Owners
    <2>5. QED
      BY <2>2, <2>3, <2>4 DEF Cached, Pursues
  <1>5. ASSUME NEW r \in Readers, StoreTenant(r) PROVE Shown'
    <2>1. /\ reader[r].pc = "store"
          /\ cache' = [cache EXCEPT ![reader[r].host] = reader[r].entry]
          /\ reader' = [reader EXCEPT ![r] = NoReader]
          /\ UNCHANGED <<tenants, editor, bypassed>>
      BY <1>5 DEF StoreTenant
    <2>2. /\ reader[r].host \in Hosts /\ reader'[r].pc = "idle"
          /\ \A o \in Readers : o # r => reader'[o] = reader[o]
          /\ cache'[reader[r].host] = reader[r].entry
          /\ \A h \in Hosts : h # reader[r].host => cache'[h] = cache[h]
      BY <1>1, <2>1 DEF NoReader, AgeInv, CacheTyped
    <2>3. QED
      BY <2>1, <2>2 DEF Cached, Pursues
  <1>6. ASSUME NEW r \in Readers, ReaderFails(r) PROVE Shown'
    BY <1>1, <1>6 DEF ReaderFails, NoReader, Cached, Pursues
  <1>7. ASSUME NEW e \in Editors, NEW t \in Tenants, CommitSettings(e, t) PROVE Shown'
    <2>1. /\ ~bypassed /\ ~Holds(t) /\ editor[e].pc = "idle"
          /\ editor' = [editor EXCEPT ![e] = [pc |-> "refresh", tenant |-> t, keys |-> {}]]
          /\ tenants' = [tenants EXCEPT ![t] =
               [custom |-> tenants[t].custom, sub |-> tenants[t].sub, stamp |-> updates + 1]]
          /\ UNCHANGED <<cache, reader>>
      BY <1>7 DEF CommitSettings, Update
    <2>2. /\ \A u \in Tenants : HostsOf(u)' = HostsOf(u)
          /\ \A u \in Tenants : u # t => tenants'[u] = tenants[u]
      BY <1>1, <2>1
    <2>3. /\ editor'[e].pc = "refresh" /\ editor'[e].tenant = t
          /\ \A f \in Editors : f # e => editor'[f] = editor[f]
      BY <1>1, <2>1
    <2>4. ASSUME NEW h \in Hosts, Cached(h)
          PROVE  /\ h \in HostsOf(cache[h].tenant)'
                 /\ \/ cache[h].stamp = tenants'[cache[h].tenant].stamp
                    \/ \E f \in Editors : Pursues(f, h)'
      <3>1. cache[h].tenant \in Tenants
        BY <2>4 DEF AgeInv, CacheTyped, StoredEntry
      <3>2. CASE cache[h].tenant = t
        BY <2>1, <2>2, <2>3, <2>4, <3>1, <3>2 DEF Pursues
      <3>3. CASE cache[h].tenant # t
        <4>1. ASSUME NEW f \in Editors, Pursues(f, h) PROVE Pursues(f, h)'
          BY <2>1, <2>3, <4>1 DEF Pursues
        <4>2. QED
          BY <2>1, <2>2, <2>4, <3>1, <3>3, <4>1
      <3>4. QED
        BY <3>2, <3>3
    <2>5. ASSUME NEW r \in Readers, reader[r].pc = "store"
          PROVE  /\ reader[r].host \in HostsOf(reader[r].entry.tenant)'
                 /\ reader[r].entry.stamp = tenants'[reader[r].entry.tenant].stamp
      <3>1. reader[r].entry.tenant \in Tenants /\ reader[r].entry.tenant # t
        BY <2>1, <2>5 DEF AgeInv, CacheTyped, StoredEntry, Holds
      <3>2. QED
        BY <2>1, <2>2, <2>5, <3>1
    <2>6. QED
      BY <2>1, <2>4, <2>5 DEF Cached
  <1>8. ASSUME NEW e \in Editors, RefreshTenant(e) PROVE Shown'
    <2>1. /\ UNCHANGED <<tenants, cache, reader, bypassed>>
          /\ editor[e].pc = "refresh"
          /\ editor' = [editor EXCEPT ![e] =
               [pc |-> "invalidate", tenant |-> @.tenant, keys |-> KeysOf(@.tenant)]]
      BY <1>8 DEF RefreshTenant
    <2>2. /\ editor'[e].pc = "invalidate" /\ editor'[e].tenant = editor[e].tenant
          /\ editor'[e].keys = KeysOf(editor[e].tenant)
          /\ \A f \in Editors : f # e => editor'[f] = editor[f]
      BY <1>1, <2>1
    <2>3. ASSUME NEW h \in Hosts, Cached(h), NEW f \in Editors, Pursues(f, h)
          PROVE  Pursues(f, h)'
      <3>1. CASE f = e
        BY <2>1, <2>2, <2>3, <3>1 DEF Pursues, KeysOf
      <3>2. CASE f # e
        BY <2>1, <2>2, <2>3, <3>2 DEF Pursues
      <3>3. QED
        BY <3>1, <3>2
    <2>4. QED
      BY <2>1, <2>3 DEF Cached
  <1>9. ASSUME NEW e \in Editors, InvalidateTenant(e) PROVE Shown'
    <2>1. /\ UNCHANGED <<tenants, reader, bypassed>>
          /\ editor[e].pc = "invalidate"
          /\ editor' = [editor EXCEPT ![e] = NoEditor]
          /\ cache' = [h \in Hosts |-> IF h \in editor[e].keys THEN NoEntry ELSE cache[h]]
      BY <1>9 DEF InvalidateTenant
    <2>2. ASSUME NEW h \in Hosts, cache'[h] # NoEntry
          PROVE  cache'[h] = cache[h] /\ Cached(h) /\ h \notin editor[e].keys
      BY <2>1, <2>2 DEF Cached
    <2>3. ASSUME NEW h \in Hosts, cache'[h] # NoEntry, NEW f \in Editors, Pursues(f, h)
          PROVE  Pursues(f, h)'
      <3>1. f # e
        BY <2>1, <2>2, <2>3 DEF Pursues
      <3>2. editor'[f] = editor[f]
        BY <1>1, <2>1, <3>1
      <3>3. QED
        BY <2>2, <2>3, <3>2 DEF Pursues
    <2>4. QED
      BY <2>1, <2>2, <2>3 DEF Cached
  <1>10. ASSUME NEW e \in Editors, EditorFails(e) PROVE FALSE
    BY <1>10 DEF EditorFails
  <1>11. ASSUME NEW t \in Tenants, NEW custom \in Domains, NEW sub \in Domains,
                UpdateTenant(t, custom, sub)
         PROVE  FALSE
    BY <1>11 DEF UpdateTenant
  <1>12. CASE Tick
    <2>1. UNCHANGED <<tenants, editor, bypassed>>
      BY <1>12 DEF Tick
    <2>2. ASSUME NEW h \in Hosts, cache'[h] # NoEntry
          PROVE  /\ Cached(h) /\ cache'[h].tenant = cache[h].tenant
                 /\ cache'[h].stamp = cache[h].stamp
      <3>1. cache'[h] = [cache[h] EXCEPT !.ttl = @ - 1] /\ ~(cache[h].ttl <= 1)
        BY <1>12, <2>2 DEF Tick
      <3>2. Cached(h)
        BY <3>1 DEF NoEntry, Cached
      <3>3. cache[h] \in StoredEntry
        BY <3>2 DEF AgeInv, CacheTyped
      <3>4. QED
        BY <3>1, <3>2, <3>3 DEF StoredEntry
    <2>3. ASSUME NEW r \in Readers
          PROVE  /\ reader'[r].pc = reader[r].pc /\ reader'[r].host = reader[r].host
                 /\ reader'[r].entry = reader[r].entry
      BY <1>1, <1>12 DEF Tick
    <2>4. QED
      BY <2>1, <2>2, <2>3 DEF Cached, Pursues
  <1>13. QED
    BY <1>2, <1>3, <1>4, <1>5, <1>6, <1>7, <1>8, <1>9, <1>10, <1>11, <1>12 DEF CacheNext

\* An update by a tenant's administrator shows at once when no reader held the
\* old row (routers/admin/tenant.py:51, 92), for any hosts, readers and editors.
THEOREM InvalidationShows == CacheSpec => []UpdatesShowAtOnce
  <1>1. Shown => UpdatesShowAtOnce
    BY DEF Shown, UpdatesShowAtOnce, Pursues
  <1>2. Shown /\ AgeInv /\ [CacheNext]_cacheVars => Shown'
    BY NextShown
  <1>3. QED
    BY <1>1, <1>2, InitShown, AlwaysAge, PTL DEF CacheSpec

-----------------------------------------------------------------------------
(* Sessions.                                                                *)

RequestRow ==
  [pc : {"idle", "delete", "user", "revoke", "create", "password"},
   kind : {"none", "login", "refresh", "link", "reset"}, token : {0} \cup Tokens \cup Links]

\* Where a request can be, by what it is for, and what its token says.
RequestShape ==
  \A q \in Requests :
    /\ request[q].kind = "refresh" =>
         request[q].pc \in {"user", "revoke", "create"} /\ request[q].token \in 1..issued
    /\ request[q].kind \in {"link", "reset"} =>
         request[q].pc # "idle" /\ request[q].token \in 1..sent
    /\ request[q].pc = "revoke" => request[q].kind = "refresh"
    /\ request[q].pc = "delete" => request[q].kind \in {"link", "reset"}
    /\ request[q].pc = "password" => request[q].kind = "reset"
    /\ request[q].pc = "idle" => request[q] = NoRequest

\* Tokens and links are numbered as they are issued, a login by its first token.
Numbered ==
  /\ live \subseteq 1..issued /\ loggedOut \subseteq 1..issued
  /\ \A t \in Tokens : session[t] <= issued /\ (t <= issued => session[t] # 0)
  /\ links \subseteq 1..sent
  /\ \A l \in Links : l > sent => used[l] = 0

\* Unless it is shared, a login has one live token or one refresh under way; the
\* refresh has revoked it before it makes another.
LoginInv ==
  \A s \in Tokens \ sharedLogins :
    /\ \A t, u \in live : session[t] = s /\ session[u] = s => t = u
    /\ \A q, p \in Refreshing(s) : q = p
    /\ \A q \in Refreshing(s), t \in live :
         session[t] = s => t = request[q].token /\ request[q].pc # "create"
    /\ s \in loggedOut => Refreshing(s) = {} /\ \A t \in live : session[t] # s

\* Unless it is shared, a link is deleted before its only request uses it.
LinkInv ==
  \A l \in Links \ sharedLinks :
    /\ \A q, p \in Verifying(l) : q = p
    /\ \A q \in Verifying(l) : used[l] = 0 /\ (request[q].pc # "delete" => l \notin links)
    /\ used[l] <= 1 /\ (l \in links => used[l] = 0)

SessionsInv == SessionsTypeOK /\ RequestShape /\ Numbered /\ LoginInv /\ LinkInv

LEMMA InitSessions == SessionsInit => SessionsInv
  <1> SUFFICES ASSUME SessionsInit PROVE SessionsInv
    OBVIOUS
  <1> USE DEF SessionsInit, NoRequest
  <1>1. SessionsTypeOK
    <2>1. issued \in 0..MaxTokens /\ sent \in 0..MaxLinks
      <3>1. 0 \in 0..MaxTokens /\ 0 \in 0..MaxLinks
        BY SessionsAssumption
      <3>2. QED
        BY <3>1
    <2>2. NoRequest \in RequestRow
      BY DEF RequestRow
    <2>3. request \in [Requests -> RequestRow]
      BY <2>2
    <2>4. session \in [Tokens -> {0} \cup Tokens] /\ used \in [Links -> Nat]
      OBVIOUS
    <2>5. QED
      BY <2>1, <2>3, <2>4 DEF SessionsTypeOK, RequestRow
  <1>2. RequestShape
    BY DEF RequestShape
  <1>3. Numbered
    BY DEF Numbered, Tokens
  <1>4. LoginInv /\ LinkInv
    BY DEF LoginInv, LinkInv, Refreshing, Verifying
  <1>5. QED
    BY <1>1, <1>2, <1>3, <1>4 DEF SessionsInv

\* A step that neither begins a refresh, nor makes a token, nor logs out.
LEMMA LoginKept ==
  ASSUME SessionsInv, live' \subseteq live, UNCHANGED <<session, loggedOut, sharedLogins>>,
         \A q \in Requests : request'[q].kind = "refresh" =>
           /\ request[q].kind = "refresh" /\ request'[q].token = request[q].token
           /\ request'[q].pc = "create" =>
                request[q].pc = "create" \/ request[q].token \notin live'
  PROVE  LoginInv'
  <1>1. ASSUME NEW s \in Tokens PROVE Refreshing(s)' \subseteq Refreshing(s)
    BY DEF Refreshing
  <1>2. QED
    BY <1>1 DEF SessionsInv, LoginInv, Refreshing

\* A step that neither sends nor presents nor uses a link.
LEMMA LinkKept ==
  ASSUME SessionsInv, links' \subseteq links, UNCHANGED <<used, sharedLinks>>,
         \A q \in Requests : request'[q].kind \in {"link", "reset"} =>
           /\ request[q].kind \in {"link", "reset"} /\ request'[q].token = request[q].token
           /\ request'[q].pc # "delete" =>
                request[q].pc # "delete" \/ request[q].token \notin links'
  PROVE  LinkInv'
  <1>1. ASSUME NEW l \in Links PROVE Verifying(l)' \subseteq Verifying(l)
    BY DEF Verifying
  <1>2. QED
    BY <1>1 DEF SessionsInv, LinkInv, Verifying

\* Steps of a request that has begun, other than the one that makes a token.
LEMMA MovesOn ==
  ASSUME SessionsInv, NEW q \in Requests,
         DeleteLink(q) \/ FindUser(q) \/ RevokeToken(q) \/ SessionRequestFails(q)
  PROVE  SessionsInv'
  <1> USE DEF SessionsInv
  <1>1. request \in [Requests -> RequestRow]
    BY DEF SessionsTypeOK, RequestRow
  <1>2. NoRequest \in RequestRow
    BY DEF NoRequest, RequestRow
  <1>3. UNCHANGED <<issued, sent, suspended, sessionHistory>>
    BY DEF DeleteLink, FindUser, RevokeToken, SessionRequestFails, keys
  <1>4. links' \subseteq links /\ live' \subseteq live
    BY DEF DeleteLink, WithoutLink, FindUser, RevokeToken, Revoked, SessionRequestFails, keys
  <1>5. \E new \in RequestRow :
          /\ request' = [request EXCEPT ![q] = new]
          /\ \/ new = NoRequest
             \/ /\ new.kind = request[q].kind /\ new.token = request[q].token
                /\ \/ /\ request[q].pc = "delete" /\ new.pc = "user"
                      /\ request[q].token \notin links'
                   \/ /\ request[q].pc = "revoke" /\ new.pc = "create"
                      /\ request[q].token \notin live'
                   \/ request[q].pc = "user" /\ new.pc = AfterUser(request[q].kind)
    <2>1. ASSUME NEW pc \in {"user", "revoke", "create", "password"}
          PROVE  /\ [request[q] EXCEPT !.pc = pc] \in RequestRow
                 /\ [request[q] EXCEPT !.pc = pc].pc = pc
                 /\ [request[q] EXCEPT !.pc = pc].kind = request[q].kind
                 /\ [request[q] EXCEPT !.pc = pc].token = request[q].token
      BY <1>1 DEF RequestRow
    <2>2. CASE DeleteLink(q)
      <3>1. /\ request' = [request EXCEPT ![q] = [request[q] EXCEPT !.pc = "user"]]
            /\ request[q].pc = "delete" /\ request[q].token \notin links'
        BY <2>2 DEF DeleteLink, WithoutLink
      <3>2. QED
        BY <2>1, <3>1
    <2>3. CASE RevokeToken(q)
      <3>1. /\ request' = [request EXCEPT ![q] = [request[q] EXCEPT !.pc = "create"]]
            /\ request[q].pc = "revoke" /\ request[q].token \notin live'
        BY <2>3 DEF RevokeToken, Revoked
      <3>2. QED
        BY <2>1, <3>1
    <2>4. CASE FindUser(q)
      <3> DEFINE pc == AfterUser(request[q].kind)
      <3>1. pc \in {"user", "revoke", "create", "password"}
        BY DEF AfterUser
      <3>2. /\ request[q].pc = "user"
            /\ request' = [request EXCEPT ![q] =
                 IF Admitted(q) THEN [request[q] EXCEPT !.pc = pc] ELSE NoRequest]
        BY <2>4 DEF FindUser
      <3> HIDE DEF pc
      <3>3. CASE Admitted(q)
        BY <2>1, <3>1, <3>2, <3>3 DEF pc
      <3>4. CASE ~Admitted(q)
        BY <1>2, <3>2, <3>4
      <3>5. QED
        BY <3>3, <3>4
    <2>5. CASE SessionRequestFails(q)
      BY <1>2, <2>5 DEF SessionRequestFails
    <2>6. QED
      BY <2>2, <2>3, <2>4, <2>5
  <1>6. PICK new \in RequestRow :
          /\ request' = [request EXCEPT ![q] = new]
          /\ \/ new = NoRequest
             \/ /\ new.kind = request[q].kind /\ new.token = request[q].token
                /\ \/ /\ request[q].pc = "delete" /\ new.pc = "user"
                      /\ request[q].token \notin links'
                   \/ /\ request[q].pc = "revoke" /\ new.pc = "create"
                      /\ request[q].token \notin live'
                   \/ request[q].pc = "user" /\ new.pc = AfterUser(request[q].kind)
    BY <1>5
  <1>7. /\ request'[q] = new /\ request' \in [Requests -> RequestRow]
        /\ \A p \in Requests : p # q => request'[p] = request[p]
    BY <1>1, <1>6
  <1>8. SessionsTypeOK'
    BY <1>3, <1>4, <1>7 DEF SessionsTypeOK, RequestRow, sessionHistory
  <1>9. RequestShape'
    BY <1>3, <1>6, <1>7 DEF RequestShape, AfterUser, NoRequest
  <1>10. Numbered'
    BY <1>3, <1>4 DEF Numbered, sessionHistory
  <1>11. LoginInv'
    BY <1>3, <1>4, <1>6, <1>7, LoginKept DEF NoRequest, AfterUser, RequestShape, sessionHistory
  <1>12. LinkInv'
    BY <1>3, <1>4, <1>6, <1>7, LinkKept DEF NoRequest, RequestShape, sessionHistory
  <1>13. QED
    BY <1>8, <1>9, <1>10, <1>11, <1>12

\* A request comes in.
LEMMA AcceptShape ==
  ASSUME SessionsInv, NEW q \in Requests, NEW kind \in {"login", "refresh", "link", "reset"},
         NEW token \in {0} \cup Tokens \cup Links, NEW pc \in {"user", "delete"},
         Accept(q, kind, token, pc), UNCHANGED <<issued, sent>>,
         kind = "refresh" => token \in 1..issued /\ pc = "user",
         kind \in {"link", "reset"} => token \in 1..sent,
         kind = "login" => pc = "user"
  PROVE  /\ request' \in [Requests -> RequestRow] /\ RequestShape'
         /\ request[q].kind = "none"
         /\ request'[q].kind = kind /\ request'[q].pc = pc /\ request'[q].token = token
         /\ \A p \in Requests : p # q => request'[p] = request[p]
  <1> USE DEF SessionsInv
  <1> DEFINE new == [pc |-> pc, kind |-> kind, token |-> token]
  <1>1. /\ new \in RequestRow /\ new.pc = pc /\ new.kind = kind /\ new.token = token
    BY DEF RequestRow
  <1>2. request[q].pc = "idle" /\ request' = [request EXCEPT ![q] = new]
    BY DEF Accept
  <1> HIDE DEF new
  <1>3. request \in [Requests -> RequestRow]
    BY DEF SessionsTypeOK, RequestRow
  <1>4. /\ request' \in [Requests -> RequestRow] /\ request'[q] = new
        /\ \A p \in Requests : p # q => request'[p] = request[p]
    BY <1>1, <1>2, <1>3
  <1>5. request[q].kind = "none"
    BY <1>2 DEF RequestShape, NoRequest
  <1>6. RequestShape'
    BY <1>1, <1>4 DEF RequestShape
  <1>7. QED
    BY <1>1, <1>4, <1>5, <1>6

LEMMA LoginBegins == ASSUME SessionsInv, NEW q \in Requests, BeginLogin(q) PROVE SessionsInv'
  <1> USE DEF SessionsInv
  <1>1. Accept(q, "login", 0, "user") /\ UNCHANGED <<keys, suspended, sessionHistory>>
    BY DEF BeginLogin
  <1>2. /\ request' \in [Requests -> RequestRow] /\ RequestShape'
        /\ request'[q].kind = "login"
        /\ \A p \in Requests : p # q => request'[p] = request[p]
    BY <1>1, AcceptShape DEF keys
  <1>3. SessionsTypeOK' /\ Numbered'
    BY <1>1, <1>2 DEF SessionsTypeOK, RequestRow, Numbered, keys, sessionHistory
  <1>4. LoginInv' /\ LinkInv'
    BY <1>1, <1>2, LoginKept, LinkKept DEF keys, sessionHistory
  <1>5. QED
    BY <1>2, <1>3, <1>4

LEMMA RefreshBegins ==
  ASSUME SessionsInv, NEW q \in Requests, NEW t \in Tokens, BeginRefresh(q, t)
  PROVE  SessionsInv'
  <1> USE DEF SessionsInv
  <1>1. /\ t \in live /\ Accept(q, "refresh", t, "user")
        /\ sharedLogins' = IF Refreshing(session[t]) # {} THEN sharedLogins \cup {session[t]}
                           ELSE sharedLogins
        /\ UNCHANGED <<keys, suspended, session, loggedOut, used, sharedLinks>>
    BY DEF BeginRefresh
  <1>2. t \in 1..issued
    BY <1>1 DEF Numbered
  <1>3. /\ request' \in [Requests -> RequestRow] /\ RequestShape'
        /\ request[q].kind = "none"
        /\ request'[q].kind = "refresh" /\ request'[q].pc = "user" /\ request'[q].token = t
        /\ \A p \in Requests : p # q => request'[p] = request[p]
    BY <1>1, <1>2, AcceptShape DEF keys
  <1>4. session[t] \in Tokens
    <2>1. session[t] # 0 /\ session[t] \in {0} \cup Tokens
      BY <1>2, SessionsAssumption DEF Numbered, SessionsTypeOK
    <2>2. QED
      BY <2>1
  <1>5. SessionsTypeOK' /\ Numbered'
    <2>1. sharedLogins' \subseteq Tokens
      BY <1>1, <1>4 DEF SessionsTypeOK
    <2>2. QED
      BY <1>1, <1>3, <2>1 DEF SessionsTypeOK, RequestRow, Numbered, keys
  <1>6. LoginInv'
    <2>1. \A s \in Tokens : Refreshing(s)' =
            IF s = session[t] THEN Refreshing(s) \cup {q} ELSE Refreshing(s)
      BY <1>1, <1>3 DEF Refreshing
    <2>2. ASSUME NEW s \in Tokens \ sharedLogins'
          PROVE  /\ \A u, v \in live : session[u] = s /\ session[v] = s => u = v
                 /\ \A p, o \in Refreshing(s)' : p = o
                 /\ \A p \in Refreshing(s)', u \in live :
                      session[u] = s => u = request'[p].token /\ request'[p].pc # "create"
                 /\ s \in loggedOut => Refreshing(s)' = {} /\ \A u \in live : session[u] # s
      <3>1. s \in Tokens \ sharedLogins
        BY <1>1, <2>2
      <3>2. CASE s = session[t]
        <4>1. Refreshing(s) = {} /\ Refreshing(s)' = {q}
          BY <1>1, <2>1, <2>2, <3>2
        <4>2. s \notin loggedOut
          BY <1>1, <3>1, <3>2 DEF LoginInv
        <4>3. QED
          BY <1>1, <1>3, <3>1, <3>2, <4>1, <4>2 DEF LoginInv
      <3>3. CASE s # session[t]
        <4>1. Refreshing(s)' = Refreshing(s) /\ q \notin Refreshing(s)
          BY <1>3, <2>1, <3>3 DEF Refreshing
        <4>2. \A p \in Refreshing(s) : request'[p] = request[p]
          BY <1>3, <4>1 DEF Refreshing
        <4>3. QED
          BY <3>1, <4>1, <4>2 DEF LoginInv
      <3>4. QED
        BY <3>2, <3>3
    <2>3. QED
      BY <1>1, <2>2 DEF LoginInv, keys
  <1>7. LinkInv'
    BY <1>1, <1>3, LinkKept DEF keys
  <1>8. QED
    BY <1>3, <1>5, <1>6, <1>7

LEMMA VerifyBegins ==
  ASSUME SessionsInv, NEW q \in Requests, NEW l \in Links, NEW kind \in {"link", "reset"},
         BeginVerify(q, l, kind)
  PROVE  SessionsInv'
  <1> USE DEF SessionsInv
  <1>1. /\ l \in links /\ Accept(q, kind, l, "delete")
        /\ sharedLinks' = IF Verifying(l) # {} THEN sharedLinks \cup {l} ELSE sharedLinks
        /\ UNCHANGED <<keys, suspended, session, loggedOut, used, sharedLogins>>
    BY DEF BeginVerify
  <1>2. l \in 1..sent
    BY <1>1 DEF Numbered
  <1>3. /\ request' \in [Requests -> RequestRow] /\ RequestShape'
        /\ request[q].kind = "none"
        /\ request'[q].kind = kind /\ request'[q].pc = "delete" /\ request'[q].token = l
        /\ \A p \in Requests : p # q => request'[p] = request[p]
    BY <1>1, <1>2, AcceptShape DEF keys
  <1>4. SessionsTypeOK' /\ Numbered'
    BY <1>1, <1>3 DEF SessionsTypeOK, RequestRow, Numbered, keys
  <1>5. LoginInv'
    BY <1>1, <1>3, LoginKept DEF keys
  <1>6. LinkInv'
    <2>1. \A k \in Links : Verifying(k)' =
            IF k = l THEN Verifying(k) \cup {q} ELSE Verifying(k)
      BY <1>3 DEF Verifying
    <2>2. ASSUME NEW k \in Links \ sharedLinks'
          PROVE  /\ \A p, o \in Verifying(k)' : p = o
                 /\ \A p \in Verifying(k)' :
                      used[k] = 0 /\ (request'[p].pc # "delete" => k \notin links)
                 /\ used[k] <= 1 /\ (k \in links => used[k] = 0)
      <3>1. k \in Links \ sharedLinks
        BY <1>1, <2>2
      <3>2. CASE k = l
        <4>1. Verifying(k)' = {q}
          BY <1>1, <2>1, <2>2, <3>2
        <4>2. QED
          BY <1>1, <1>3, <3>1, <3>2, <4>1 DEF LinkInv
      <3>3. CASE k # l
        <4>1. Verifying(k)' = Verifying(k) /\ \A p \in Verifying(k) : request'[p] = request[p]
          BY <1>3, <2>1, <3>3 DEF Verifying
        <4>2. QED
          BY <3>1, <4>1 DEF LinkInv
      <3>4. QED
        BY <3>2, <3>3
    <2>3. QED
      BY <1>1, <2>2 DEF LinkInv, keys
  <1>7. QED
    BY <1>3, <1>4, <1>5, <1>6

\* A request that succeeds leaves, and has used its link, if it came with one.
LEMMA LinkUsed ==
  ASSUME SessionsInv, NEW q \in Requests, request[q].pc \in {"create", "password"},
         CountUse(q), request' = [request EXCEPT ![q] = NoRequest],
         UNCHANGED <<links, sent, sharedLinks>>
  PROVE  /\ request' \in [Requests -> RequestRow] /\ request'[q] = NoRequest
         /\ \A p \in Requests : p # q => request'[p] = request[p]
         /\ used' \in [Links -> Nat] /\ \A l \in Links : l > sent => used'[l] = 0
         /\ LinkInv'
  <1> USE DEF SessionsInv
  <1>1. NoRequest \in RequestRow
    BY DEF NoRequest, RequestRow
  <1>2. /\ request' \in [Requests -> RequestRow] /\ request'[q] = NoRequest
        /\ \A p \in Requests : p # q => request'[p] = request[p]
    BY <1>1 DEF SessionsTypeOK, RequestRow
  <1>3. \A l \in Links : Verifying(l)' = Verifying(l) \ {q}
    BY <1>2 DEF Verifying, NoRequest
  <1>4. used \in [Links -> Nat]
    BY DEF SessionsTypeOK
  <1>5. CASE request[q].kind \in {"link", "reset"}
    <2> DEFINE l == request[q].token
    <2>1. l \in 1..sent /\ sent \in 0..MaxLinks
      BY <1>5 DEF RequestShape, SessionsTypeOK
    <2>2. l \in Links /\ l \in Nat
      BY <2>1, SessionsAssumption DEF Links
    <2>3. used' = [used EXCEPT ![l] = @ + 1]
      BY <1>5 DEF CountUse
    <2>4. q \in Verifying(l)
      BY <1>5 DEF Verifying
    <2> HIDE DEF l
    <2>5. /\ used'[l] = used[l] + 1 /\ used' \in [Links -> Nat]
          /\ \A k \in Links : k # l => used'[k] = used[k]
      BY <1>4, <2>2, <2>3
    <2>6. \A k \in Links : k > sent => used'[k] = 0
      BY <2>1, <2>5 DEF Numbered
    <2>7. ASSUME NEW k \in Links \ sharedLinks
          PROVE  /\ \A p, o \in Verifying(k)' : p = o
                 /\ \A p \in Verifying(k)' :
                      used'[k] = 0 /\ (request'[p].pc # "delete" => k \notin links)
                 /\ used'[k] <= 1 /\ (k \in links => used'[k] = 0)
      <3>1. CASE k = l
        <4>1. used[k] = 0 /\ k \notin links /\ Verifying(k)' = {}
          BY <1>3, <2>4, <2>7, <3>1 DEF LinkInv
        <4>2. QED
          BY <2>5, <3>1, <4>1
      <3>2. CASE k # l
        BY <1>2, <1>3, <2>5, <2>7, <3>2 DEF LinkInv
      <3>3. QED
        BY <3>1, <3>2
    <2>8. QED
      BY <1>2, <2>5, <2>6, <2>7 DEF LinkInv
  <1>6. CASE request[q].kind \notin {"link", "reset"}
    <2>1. used' = used
      BY <1>6 DEF CountUse
    <2>2. LinkInv'
      BY <1>2, <2>1, LinkKept DEF NoRequest
    <2>3. QED
      BY <1>2, <1>4, <2>1, <2>2 DEF Numbered
  <1>7. QED
    BY <1>5, <1>6

LEMMA PasswordReset == ASSUME SessionsInv, NEW q \in Requests, ResetPassword(q) PROVE SessionsInv'
  <1> USE DEF SessionsInv
  <1>1. /\ request[q].pc = "password" /\ CountUse(q)
        /\ request' = [request EXCEPT ![q] = NoRequest]
        /\ UNCHANGED <<keys, suspended, session, loggedOut, sharedLogins, sharedLinks>>
    BY DEF ResetPassword
  <1>2. /\ request' \in [Requests -> RequestRow] /\ request'[q] = NoRequest
        /\ \A p \in Requests : p # q => request'[p] = request[p]
        /\ used' \in [Links -> Nat] /\ \A l \in Links : l > sent => used'[l] = 0
        /\ LinkInv'
    BY <1>1, LinkUsed DEF keys
  <1>3. SessionsTypeOK' /\ Numbered'
    BY <1>1, <1>2 DEF SessionsTypeOK, RequestRow, Numbered, keys
  <1>4. RequestShape'
    BY <1>1, <1>2 DEF RequestShape, NoRequest, keys
  <1>5. LoginInv'
    BY <1>1, <1>2, LoginKept DEF keys, NoRequest
  <1>6. QED
    BY <1>2, <1>3, <1>4, <1>5

LEMMA TokenCreated == ASSUME SessionsInv, NEW q \in Requests, CreateToken(q) PROVE SessionsInv'
  <1> USE DEF SessionsInv
  <1> DEFINE new == issued + 1
             login == IF request[q].kind = "refresh" THEN session[request[q].token] ELSE new
  <1>1. /\ request[q].pc = "create" /\ issued < MaxTokens /\ issued' = new
        /\ live' = live \cup {new} /\ session' = [session EXCEPT ![new] = login]
        /\ CountUse(q) /\ request' = [request EXCEPT ![q] = NoRequest]
        /\ UNCHANGED <<links, sent, suspended, loggedOut, sharedLogins, sharedLinks>>
    BY DEF CreateToken
  <1>2. /\ request' \in [Requests -> RequestRow] /\ request'[q] = NoRequest
        /\ \A p \in Requests : p # q => request'[p] = request[p]
        /\ used' \in [Links -> Nat] /\ \A l \in Links : l > sent => used'[l] = 0
        /\ LinkInv'
    BY <1>1, LinkUsed
  <1>3. issued \in 0..MaxTokens /\ new \in Tokens /\ new \in 1..MaxTokens
    BY <1>1, SessionsAssumption DEF SessionsTypeOK, Tokens
  <1>4. login \in Tokens /\ login <= new
    <2>1. CASE request[q].kind = "refresh"
      <3>1. request[q].token \in 1..issued
        BY <2>1 DEF RequestShape
      <3>2. request[q].token \in Tokens /\ request[q].token <= issued
        BY <1>3, <3>1, SessionsAssumption DEF Tokens
      <3>3. session[request[q].token] \in Tokens /\ session[request[q].token] <= issued
        BY <3>2 DEF Numbered, SessionsTypeOK
      <3>4. QED
        BY <2>1, <3>3, <1>3, SessionsAssumption DEF Tokens
    <2>2. CASE request[q].kind # "refresh"
      BY <2>2, <1>3
    <2>3. QED
      BY <2>1, <2>2
  <1>5. session \in [Tokens -> {0} \cup Tokens] /\ live \subseteq 1..issued
    BY DEF SessionsTypeOK, Numbered
  <1>6. new \notin live /\ new \notin loggedOut
    BY <1>3 DEF Numbered
  <1>7. (request[q].kind = "refresh" /\ login = session[request[q].token]) \/ login = new
    OBVIOUS
  <1> HIDE DEF login
  <1>8. /\ session' \in [Tokens -> {0} \cup Tokens] /\ session'[new] = login
        /\ \A t \in Tokens : t # new => session'[t] = session[t]
    BY <1>1, <1>3, <1>4, <1>5
  <1>9. SessionsTypeOK'
    <2>1. issued' \in 0..MaxTokens /\ live' \subseteq Tokens
      BY <1>1, <1>3, SessionsAssumption DEF SessionsTypeOK
    <2>2. QED
      BY <1>1, <1>2, <1>8, <2>1 DEF SessionsTypeOK, RequestRow
  <1>10. RequestShape'
    <2>1. \A i \in 1..issued : i \in 1..issued'
      BY <1>1, <1>3
    <2>2. QED
      BY <1>1, <1>2, <2>1 DEF RequestShape, NoRequest
  <1>11. Numbered'
    <2>1. live' \subseteq 1..issued' /\ loggedOut' \subseteq 1..issued'
      BY <1>1, <1>3 DEF Numbered
    <2>2. ASSUME NEW t \in Tokens
          PROVE  session'[t] <= issued' /\ (t <= issued' => session'[t] # 0)
      <3>1. CASE t = new
        BY <1>1, <1>4, <1>8, <3>1, SessionsAssumption DEF Tokens
      <3>2. CASE t # new
        <4>1. t \in Nat /\ session[t] \in Nat
          BY <1>5, SessionsAssumption DEF Tokens
        <4>2. QED
          BY <1>1, <1>3, <1>8, <3>2, <4>1 DEF Numbered
      <3>3. QED
        BY <3>1, <3>2
    <2>3. QED
      BY <1>1, <1>2, <2>1, <2>2 DEF Numbered
  <1>12. LoginInv'
    <2>1. \A p \in Requests : request[p].kind = "refresh" =>
            /\ request[p].token \in Tokens /\ request[p].token # new
            /\ session[request[p].token] # new
      <3>1. ASSUME NEW p \in Requests, request[p].kind = "refresh"
            PROVE  /\ request[p].token \in Tokens /\ request[p].token # new
                   /\ session[request[p].token] # new
        <4>1. request[p].token \in 1..issued
          BY <3>1 DEF RequestShape
        <4>2. request[p].token \in Tokens
          BY <4>1, <1>3, SessionsAssumption DEF Tokens
        <4>3. session[request[p].token] <= issued /\ session[request[p].token] \in Nat
          BY <4>2, <1>5 DEF Numbered, Tokens
        <4>4. QED
          BY <4>1, <4>2, <4>3, <1>3
      <3>2. QED
        BY <3>1
    <2>2. \A s \in Tokens : Refreshing(s)' = Refreshing(s) \ {q}
      BY <1>2, <1>8, <2>1 DEF Refreshing, NoRequest
    <2>3. \A t \in live : t \in Tokens /\ t # new /\ session'[t] = session[t]
      BY <1>6, <1>8 DEF SessionsTypeOK
    <2>4. ASSUME NEW s \in Tokens \ sharedLogins
          PROVE  /\ \A t, u \in live' : session'[t] = s /\ session'[u] = s => t = u
                 /\ \A p, o \in Refreshing(s)' : p = o
                 /\ \A p \in Refreshing(s)', t \in live' :
                      session'[t] = s => t = request'[p].token /\ request'[p].pc # "create"
                 /\ s \in loggedOut => Refreshing(s)' = {} /\ \A t \in live' : session'[t] # s
      <3>1. CASE s # login
        BY <1>1, <1>2, <1>8, <2>2, <2>3, <2>4, <3>1 DEF LoginInv
      <3>2. CASE s = login /\ login = new
        <4>1. \A t \in live : session[t] # new
          <5>1. ASSUME NEW t \in live PROVE session[t] # new
            <6>1. session[t] <= issued /\ session[t] \in Nat
              BY <1>5, <2>3 DEF Numbered, Tokens
            <6>2. QED
              BY <6>1, <1>3
          <5>2. QED
            BY <5>1
        <4>2. Refreshing(s) = {}
          BY <2>1, <3>2 DEF Refreshing
        <4>3. QED
          BY <1>1, <1>6, <1>8, <2>2, <2>3, <3>2, <4>1, <4>2
      <3>3. CASE s = login /\ request[q].kind = "refresh" /\ login = session[request[q].token]
        <4>1. q \in Refreshing(s)
          BY <3>3 DEF Refreshing
        <4>2. /\ Refreshing(s)' = {} /\ s \notin loggedOut
              /\ \A t \in live : session[t] # s
          BY <1>1, <2>2, <2>4, <4>1 DEF LoginInv
        <4>3. QED
          BY <1>1, <1>8, <2>3, <3>3, <4>2
      <3>4. QED
        BY <3>1, <3>2, <3>3, <1>7
    <2>5. QED
      BY <1>1, <2>4 DEF LoginInv
  <1>13. QED
    BY <1>2, <1>9, <1>10, <1>11, <1>12

LEMMA LoggedOut == ASSUME SessionsInv, NEW t \in Tokens, Logout(t) PROVE SessionsInv'
  <1> USE DEF SessionsInv
  <1>1. /\ t \in live /\ live' = live \ {t} /\ loggedOut' = loggedOut \cup {session[t]}
        /\ sharedLogins' = IF Refreshing(session[t]) # {} THEN sharedLogins \cup {session[t]}
                           ELSE sharedLogins
        /\ UNCHANGED <<links, issued, sent, suspended, request, session, used, sharedLinks>>
    BY DEF Logout
  <1>2. t \in 1..issued
    BY <1>1 DEF Numbered
  <1>3. session[t] \in Tokens /\ session[t] \in 1..issued
    <2>1. session[t] # 0 /\ session[t] \in {0} \cup Tokens /\ session[t] <= issued
      BY <1>2, SessionsAssumption DEF Numbered, SessionsTypeOK
    <2>2. QED
      BY <2>1, SessionsAssumption DEF Tokens, SessionsTypeOK
  <1>4. SessionsTypeOK' /\ RequestShape' /\ Numbered'
    BY <1>1, <1>3 DEF SessionsTypeOK, RequestShape, Numbered
  <1>5. LinkInv'
    BY <1>1, LinkKept
  <1>6. LoginInv'
    BY <1>1 DEF LoginInv, Refreshing
  <1>7. QED
    BY <1>4, <1>5, <1>6

LEMMA LinkSent == ASSUME SessionsInv, SendLink PROVE SessionsInv'
  <1> USE DEF SessionsInv
  <1>1. /\ sent < MaxLinks /\ sent' = sent + 1 /\ links' = links \cup {sent + 1}
        /\ UNCHANGED <<live, issued, suspended, request, sessionHistory>>
    BY DEF SendLink
  <1>2. sent \in 0..MaxLinks /\ sent' \in 0..MaxLinks /\ sent + 1 \in Links
    BY <1>1, SessionsAssumption DEF SessionsTypeOK, Links
  <1>3. SessionsTypeOK'
    BY <1>1, <1>2 DEF SessionsTypeOK, sessionHistory
  <1>4. RequestShape'
    BY <1>1, <1>2 DEF RequestShape
  <1>5. Numbered'
    BY <1>1, <1>2 DEF Numbered, sessionHistory, Links
  <1>6. LoginInv'
    BY <1>1, LoginKept DEF sessionHistory
  <1>7. LinkInv'
    <2>1. Verifying(sent + 1) = {} /\ used[sent + 1] = 0
      BY <1>2 DEF RequestShape, Verifying, Numbered
    <2>2. \A l \in Links : Verifying(l)' = Verifying(l)
      BY <1>1 DEF Verifying
    <2>3. QED
      BY <1>1, <2>1, <2>2 DEF LinkInv, sessionHistory
  <1>8. QED
    BY <1>3, <1>4, <1>5, <1>6, <1>7

LEMMA AlwaysSessions == SessionsSpec => []SessionsInv
  <1>1. SessionsInv /\ [SessionsNext]_sessionVars => SessionsInv'
    <2> SUFFICES ASSUME SessionsInv, [SessionsNext]_sessionVars PROVE SessionsInv'
      OBVIOUS
    <2> USE DEF SessionsInv
    <2>1. ASSUME live' \subseteq live, links' \subseteq links,
                 UNCHANGED <<issued, sent, request, sessionHistory>>, suspended' \in BOOLEAN
          PROVE  SessionsInv'
      <3>1. SessionsTypeOK' /\ RequestShape' /\ Numbered'
        BY <2>1 DEF SessionsTypeOK, RequestShape, Numbered, sessionHistory
      <3>2. LoginInv' /\ LinkInv'
        BY <2>1, LoginKept, LinkKept DEF sessionHistory
      <3>3. QED
        BY <3>1, <3>2
    <2>2. suspended \in BOOLEAN
      BY DEF SessionsTypeOK
    <2>3. CASE KeyExpires
      BY <2>1, <2>2, <2>3 DEF KeyExpires
    <2>4. CASE SuspendUser
      BY <2>1, <2>4 DEF SuspendUser, keys
    <2>5. CASE UNCHANGED sessionVars
      BY <2>1, <2>2, <2>5 DEF sessionVars, keys
    <2>6. QED
      BY <2>3, <2>4, <2>5, LoginBegins, RefreshBegins, VerifyBegins, MovesOn, TokenCreated,
         PasswordReset, LoggedOut, LinkSent DEF SessionsNext
  <1>2. QED
    BY InitSessions, <1>1, PTL DEF SessionsSpec

\* A refresh token ends with the refresh or the logout that presents it, and a
\* link with its use (services/auth.py:113, core/security.py:124), for any
\* number of requests, tokens and links, unless two present it at once.
THEOREM SpentOnce == SessionsSpec => []CredentialsAreSpent
  <1>1. ASSUME SessionsInv, NEW s \in Tokens \ sharedLogins
        PROVE  Cardinality({t \in live : session[t] = s}) <= 1
    <2> DEFINE S == {t \in live : session[t] = s}
    <2>1. \A t, u \in S : t = u
      BY <1>1 DEF SessionsInv, LoginInv
    <2>2. CASE S = {}
      BY <2>2, FS_EmptySet
    <2>3. ASSUME NEW t \in S PROVE Cardinality(S) = 1
      <3>1. S = {t}
        BY <2>1
      <3>2. QED
        BY <3>1, FS_Singleton
    <2>4. QED
      BY <2>2, <2>3
  <1>2. SessionsInv => OneTokenPerLogin
    BY <1>1 DEF SessionsInv, LoginInv, OneTokenPerLogin
  <1>3. SessionsInv => LinksWorkOnce
    BY DEF SessionsInv, LinkInv, LinksWorkOnce
  <1>4. SessionsInv => CredentialsAreSpent
    BY <1>2, <1>3 DEF CredentialsAreSpent
  <1>5. QED
    BY <1>4, AlwaysSessions, PTL

-----------------------------------------------------------------------------
(* Broadcasts.                                                              *)

\* The rows come first, for users there are; then the tasks, for all of them.
RowsThenTasks ==
  /\ \A a \in Announcements :
       /\ announcer[a].pc \in {"idle", "rows"} => \A u \in Members : <<a, u>> \notin notices
       /\ announcer[a].pc = "dispatch" =>
            \A u \in Members :
              /\ u \in announcer[a].todo =>
                   <<a, u>> \in notices /\ notifier[<<a, u>>].pc = "none"
              /\ <<a, u>> \in notices /\ u \notin announcer[a].todo =>
                   notifier[<<a, u>>].pc # "none"
       /\ announcer[a].pc = "answered" =>
            \A u \in Members : <<a, u>> \in notices => notifier[<<a, u>>].pc # "none"
       /\ announcer[a].todo \subseteq members
  /\ \A n \in Notices :
       /\ n \in notices => n[2] \in members
       /\ notifier[n].pc # "none" => n \in notices

\* A task that runs has reached whoever it has no more to do for, once more
\* often than it was retried at most.
EachReached(n, u) ==
  /\ pushes[n][u] <= notifier[n].tries + 1
  /\ notifier[n].pc \in {"none", "queued"} \/ u \in notifier[n].todo =>
       pushes[n][u] <= notifier[n].tries
  /\ notifier[n].pc \in {"running", "done"} /\ u \notin notifier[n].todo
       /\ <<n[1], u>> \in notices => pushes[n][u] > 0
  /\ notifier[n].pc = "done" => notifier[n].todo = {}
EachTryReaches == \A n \in Notices, u \in Members : EachReached(n, u)

BroadcastInv == BroadcastTypeOK /\ RowsThenTasks /\ EachTryReaches

LEMMA InitBroadcast == BroadcastInit => BroadcastInv
  BY DEF BroadcastInit, BroadcastInv, BroadcastTypeOK, RowsThenTasks, EachTryReaches,
    EachReached, Notices

LEMMA AnnouncerInv ==
  ASSUME BroadcastInv, NEW a \in Announcements,
         \/ ListMembers(a) \/ CommitNotices(a) \/ AnswerBroadcast(a) \/ BroadcastFails(a)
         \/ \E u \in Members : DispatchNotice(a, u)
  PROVE  BroadcastInv'
  <1> USE DEF BroadcastInv, AnnouncerGoes
  <1>1. CASE ListMembers(a)
    BY <1>1 DEF ListMembers, BroadcastTypeOK, RowsThenTasks, EachTryReaches, EachReached
  <1>2. CASE CommitNotices(a)
    <2>1. BroadcastTypeOK'
      BY <1>2 DEF CommitNotices, BroadcastTypeOK, Notices
    <2>2. RowsThenTasks'
      BY <1>2, <2>1 DEF CommitNotices, BroadcastTypeOK, RowsThenTasks, Notices
    <2>3. EachTryReaches'
      <3>1. ASSUME NEW n \in Notices, NEW u \in Members, notifier[n].pc \in {"running", "done"},
                   <<n[1], u>> \in notices'
            PROVE  <<n[1], u>> \in notices
        <4>1. n \in notices /\ n = <<n[1], n[2]>> /\ n[1] \in Announcements /\ n[2] \in Members
          BY <3>1 DEF RowsThenTasks, Notices
        <4>2. n[1] # a
          BY <4>1, <1>2 DEF CommitNotices, RowsThenTasks
        <4>3. QED
          BY <3>1, <4>2, <1>2 DEF CommitNotices
      <3>2. QED
        BY <1>2, <3>1 DEF CommitNotices, EachTryReaches, EachReached
    <2>4. QED
      BY <2>1, <2>2, <2>3
  <1>3. CASE AnswerBroadcast(a)
    BY <1>3 DEF AnswerBroadcast, BroadcastTypeOK, RowsThenTasks, EachTryReaches, EachReached
  <1>4. CASE BroadcastFails(a)
    BY <1>4 DEF BroadcastFails, BroadcastTypeOK, RowsThenTasks, EachTryReaches, EachReached
  <1>5. ASSUME NEW u \in Members, DispatchNotice(a, u) PROVE BroadcastInv'
    <2>1. /\ <<a, u>> \in Notices /\ <<a, u>> \in notices
          /\ notifier[<<a, u>>].pc = "none"
      BY <1>5 DEF DispatchNotice, RowsThenTasks, Notices
    <2>2. /\ announcer'[a] = [pc |-> "dispatch", todo |-> announcer[a].todo \ {u}]
          /\ \A b \in Announcements \ {a} : announcer'[b] = announcer[b]
          /\ notifier'[<<a, u>>].pc = "queued"
          /\ notifier'[<<a, u>>].todo = notifier[<<a, u>>].todo
          /\ notifier'[<<a, u>>].tries = notifier[<<a, u>>].tries
          /\ \A m \in Notices \ {<<a, u>>} : notifier'[m] = notifier[m]
          /\ UNCHANGED <<members, notices, pushes>>
      BY <1>5, <2>1 DEF DispatchNotice, BroadcastTypeOK
    <2>6. BroadcastTypeOK'
      <3>1. announcer' \in [Announcements ->
              [pc : {"idle", "rows", "dispatch", "answered", "failed"}, todo : SUBSET Members]]
        BY <1>5 DEF DispatchNotice, BroadcastTypeOK
      <3> DEFINE n == <<a, u>>
      <3>2. n \in Notices /\ notifier' = [notifier EXCEPT ![n].pc = "queued"]
        BY <1>5, <2>1 DEF DispatchNotice
      <3> HIDE DEF n
      <3>3. notifier' \in [Notices ->
              [pc : {"none", "queued", "running", "done", "failed", "lost"},
               todo : SUBSET Members, tries : Nat]]
        BY <3>2 DEF BroadcastTypeOK
      <3>4. QED
        BY <2>2, <3>1, <3>3 DEF BroadcastTypeOK
    <2>3. RowsThenTasks'
      BY <1>5, <2>1 DEF DispatchNotice, BroadcastTypeOK, RowsThenTasks, Notices
    <2>4. EachTryReaches'
      <3>1. ASSUME NEW m \in Notices
            PROVE  /\ notifier'[m].todo = notifier[m].todo
                   /\ notifier'[m].tries = notifier[m].tries
                   /\ \/ notifier'[m].pc = notifier[m].pc
                      \/ m = <<a, u>> /\ notifier'[m].pc = "queued"
        BY <2>2, <3>1
      <3>2. ASSUME NEW w \in Members
            PROVE  pushes[<<a, u>>][w] <= notifier[<<a, u>>].tries
        BY <2>1 DEF EachTryReaches, EachReached
      <3>3. QED
        BY <2>1, <2>2, <3>1, <3>2 DEF EachTryReaches, EachReached
    <2>5. QED
      BY <2>6, <2>3, <2>4
  <1>6. QED
    BY <1>1, <1>2, <1>3, <1>4, <1>5

LEMMA NotifierInv ==
  ASSUME BroadcastInv, NEW n \in Notices,
         \/ StartNotice(n) \/ NoticeDone(n) \/ NoticeFails(n) \/ NoticeDies(n)
         \/ \E u \in Members : PushTo(n, u)
  PROVE  BroadcastInv'
  <1> USE DEF BroadcastInv
  <1>0. notifier[n].pc # "none"
    BY DEF StartNotice, NoticeDone, NoticeFails, NoticeDies, PushTo
  <1>9. /\ notifier'[n].pc # "none"
        /\ \A m \in Notices \ {n} : notifier'[m] = notifier[m]
    BY BroadcastAssumption DEF StartNotice, NoticeDone, NoticeFails, AfterNoticeFails,
      NoticeDies, PushTo, BroadcastTypeOK
  <1>1. RowsThenTasks'
    <2>1. UNCHANGED <<members, notices, announcer>>
      BY DEF StartNotice, NoticeDone, NoticeFails, NoticeDies, PushTo
    <2>2. \A m \in Notices : notifier'[m].pc = "none" => notifier[m].pc = "none"
      BY <1>0, <1>9
    <2>4. \A m \in Notices : notifier[m].pc = "none" => notifier'[m].pc = "none"
      BY <1>0, <1>9
    <2>3. QED
      BY <2>1, <2>2, <2>4 DEF RowsThenTasks, BroadcastTypeOK, Notices
  <1>2. CASE StartNotice(n)
    <2>1. BroadcastTypeOK'
      BY <1>2 DEF StartNotice, BroadcastTypeOK
    <2>2. \A u \in Members : <<n[1], u>> \in notices => u \in members
      BY DEF RowsThenTasks, Notices
    <2>3. EachTryReaches'
      BY <1>2, <2>2 DEF StartNotice, BroadcastTypeOK, EachTryReaches, EachReached
    <2>4. QED
      BY <1>1, <2>1, <2>3
  <1>3. CASE NoticeDone(n)
    BY <1>1, <1>3 DEF NoticeDone, BroadcastTypeOK, EachTryReaches, EachReached
  <1>4. CASE NoticeFails(n)
    <2>1. BroadcastTypeOK'
      BY <1>4, BroadcastAssumption DEF NoticeFails, AfterNoticeFails, BroadcastTypeOK
    <2>4. /\ pushes' = pushes
          /\ \/ /\ notifier'[n].pc = "queued" /\ notifier'[n].todo = {}
                /\ notifier'[n].tries = notifier[n].tries + 1
             \/ /\ notifier'[n].pc = "failed" /\ notifier'[n].todo = notifier[n].todo
                /\ notifier'[n].tries = notifier[n].tries
      BY <1>4 DEF NoticeFails, AfterNoticeFails, BroadcastTypeOK
    <2>5. notices' = notices /\ notifier[n].tries \in Nat
      BY <1>4 DEF NoticeFails, BroadcastTypeOK
    <2>2. EachTryReaches'
      <3>1. ASSUME NEW u \in Members
            PROVE  pushes[n][u] <= notifier[n].tries + 1 /\ pushes[n][u] \in Nat
        BY DEF EachTryReaches, EachReached, BroadcastTypeOK
      <3>2. ASSUME NEW u \in Members PROVE EachReached(n, u)'
        <4>1. CASE notifier'[n].pc = "queued"
          BY <2>4, <2>5, <3>1, <4>1 DEF EachReached
        <4>2. CASE notifier'[n].pc = "failed"
          <5>1. u \in notifier[n].todo => pushes[n][u] <= notifier[n].tries
            BY DEF EachTryReaches, EachReached
          <5>2. QED
            BY <2>4, <2>5, <3>1, <4>2, <5>1 DEF EachReached
        <4>3. QED
          BY <2>4, <4>1, <4>2
      <3>3. \A m \in Notices \ {n}, u \in Members : EachReached(m, u)'
        BY <1>9, <2>4, <2>5 DEF EachTryReaches, EachReached
      <3>4. QED
        BY <3>2, <3>3 DEF EachTryReaches
    <2>3. QED
      BY <1>1, <2>1, <2>2
  <1>5. CASE NoticeDies(n)
    BY <1>1, <1>5 DEF NoticeDies, BroadcastTypeOK, EachTryReaches, EachReached
  <1>6. ASSUME NEW u \in Members, PushTo(n, u) PROVE BroadcastInv'
    <2>4. /\ notifier'[n].pc = "running" /\ notifier'[n].tries = notifier[n].tries
          /\ notifier'[n].todo = notifier[n].todo \ {u} /\ u \in notifier[n].todo
          /\ notifier[n].pc = "running" /\ notices' = notices
      BY <1>6 DEF PushTo, BroadcastTypeOK
    <2>5. /\ pushes'[n] = [pushes[n] EXCEPT ![u] = @ + 1]
          /\ \A m \in Notices \ {n} : pushes'[m] = pushes[m]
          /\ pushes[n] \in [Members -> Nat]
      BY <1>6 DEF PushTo, BroadcastTypeOK
    <2>6. /\ pushes'[n][u] = pushes[n][u] + 1 /\ pushes[n][u] \in Nat
          /\ \A w \in Members \ {u} : pushes'[n][w] = pushes[n][w]
      BY <2>5
    <2>1. BroadcastTypeOK'
      <3>1. pushes' \in [Notices -> [Members -> Nat]]
        <4>1. pushes' = [m \in Notices |-> pushes'[m]]
          BY <1>6 DEF PushTo, BroadcastTypeOK
        <4>4. \A m \in Notices \ {n} : pushes'[m] \in [Members -> Nat]
          BY <2>5 DEF BroadcastTypeOK
        <4>5. pushes'[n] \in [Members -> Nat]
          BY <2>5
        <4>2. \A m \in Notices : pushes'[m] \in [Members -> Nat]
          BY <4>4, <4>5
        <4>3. QED
          BY <4>1, <4>2
      <3>2. notifier' \in [Notices ->
              [pc : {"none", "queued", "running", "done", "failed", "lost"},
               todo : SUBSET Members, tries : Nat]]
        <4>1. notifier' = [notifier EXCEPT ![n].todo = @ \ {u}]
          BY <1>6 DEF PushTo
        <4>2. QED
          BY <4>1 DEF BroadcastTypeOK
      <3>3. QED
        BY <1>6, <3>1, <3>2 DEF PushTo, BroadcastTypeOK
    <2>2. EachTryReaches'
      <3>1. /\ notifier[n].tries \in Nat
            /\ \A w \in Members : pushes[n][w] <= notifier[n].tries + 1
        BY DEF EachTryReaches, EachReached, BroadcastTypeOK
      <3>2. pushes[n][u] <= notifier[n].tries
        BY <2>4 DEF EachTryReaches, EachReached
      <3>3. \A w \in Members \ {u} : EachReached(n, w)'
        BY <2>4, <2>6 DEF EachTryReaches, EachReached
      <3>4. EachReached(n, u)'
        BY <2>4, <2>6, <3>1, <3>2 DEF EachReached
      <3>5. \A m \in Notices \ {n}, w \in Members : EachReached(m, w)'
        BY <1>9, <2>4, <2>5 DEF EachTryReaches, EachReached
      <3>6. QED
        BY <3>3, <3>4, <3>5 DEF EachTryReaches
    <2>3. QED
      BY <1>1, <2>1, <2>2
  <1>7. QED
    BY <1>2, <1>3, <1>4, <1>5, <1>6

LEMMA AlwaysBroadcast == BroadcastSpec => []BroadcastInv
  <1>1. ASSUME BroadcastInv, NEW u \in Members, MemberRegisters(u) PROVE BroadcastInv'
    BY <1>1 DEF MemberRegisters, BroadcastInv, BroadcastTypeOK, RowsThenTasks,
      EachTryReaches, EachReached
  <1>2. BroadcastInv /\ UNCHANGED broadcastVars => BroadcastInv'
    BY DEF BroadcastInv, broadcastVars, BroadcastTypeOK, RowsThenTasks, EachTryReaches,
      EachReached
  <1>3. BroadcastInv /\ [BroadcastNext]_broadcastVars => BroadcastInv'
    BY <1>1, <1>2, AnnouncerInv, NotifierInv DEF BroadcastNext
  <1>4. QED
    BY InitBroadcast, <1>3, PTL DEF BroadcastSpec

\* A task that comes to its end has reached everybody with a row, and nobody
\* more often than it was tried; an answered broadcast has a task for every row
\* (tasks/notification.py:52), for any users, calls and retries.
THEOREM EverybodyReached == BroadcastSpec => []EverybodyIsNotified
  <1>1. BroadcastInv => EverybodyIsNotified
    <2> SUFFICES ASSUME BroadcastInv PROVE EverybodyIsNotified
      OBVIOUS
    <2> USE DEF BroadcastInv
    <2>1. ASSUME NEW n \in Notices
          PROVE  /\ n = <<n[1], n[2]>> /\ n[1] \in Announcements /\ n[2] \in Members
                 /\ notices \subseteq Notices
      BY <2>1 DEF Notices, BroadcastTypeOK
    <2>2. \A n \in Notices :
            n \in notices /\ announcer[n[1]].pc = "answered" => notifier[n].pc # "none"
      BY <2>1 DEF RowsThenTasks
    <2>4. \A n \in Notices : notifier[n].pc # "none" => n \in notices
      BY DEF RowsThenTasks
    <2>5. \A n \in Notices, u \in Members : pushes[n][u] <= notifier[n].tries + 1
      BY DEF EachTryReaches, EachReached
    <2>6. ASSUME NEW n \in notices, notifier[n].pc = "done", NEW u \in Members,
                 <<n[1], u>> \in notices
          PROVE  pushes[n][u] > 0
      BY <2>6 DEF EachTryReaches, EachReached, BroadcastTypeOK
    <2>3. QED
      BY <2>2, <2>4, <2>5, <2>6 DEF EverybodyIsNotified
  <1>2. QED
    BY <1>1, AlwaysBroadcast, PTL

-----------------------------------------------------------------------------
(* Push subscriptions.                                                      *)

BrowserRow ==
  [pc : {"idle", "insert", "update", "delete", "nothing"},
   row : {0} \cup Subscriptions, anew : BOOLEAN]
PusherRow ==
  [pc : {"none", "sending", "done", "failed", "lost"},
   todo : SUBSET Subscriptions, stale : SUBSET Subscriptions, tries : Nat]

PushTyped ==
  /\ subscriptions \subseteq Subscriptions /\ inserted \in 0..MaxSubscriptions
  /\ browser \in [Browsers -> BrowserRow]
  /\ pusher \in [Pushers -> PusherRow]

\* What a request found is how the rows are, if nobody else is under way.
FoundIsSo(q) ==
  /\ browser[q].pc \in {"insert", "nothing"} => subscriptions = {} /\ browser[q].row = 0
  /\ browser[q].pc \in {"update", "delete"} => subscriptions \subseteq {browser[q].row}
  /\ browser[q].pc = "update" => gone \/ browser[q].row \in subscriptions

SerialSubscriptions ==
  /\ \A q, r \in Browsers : Busy(q) /\ Busy(r) => q = r
  /\ \A q \in Browsers : FoundIsSo(q)
  /\ \A s, t \in subscriptions : s = t
  /\ wanted => gone \/ subscriptions # {}
  /\ ~wanted => subscriptions = {}

\* Only what is gone is pruned.
PrunesGone == \A p \in Pushers : pusher[p].stale # {} => gone

PushInv == PushTyped /\ PrunesGone /\ (crossing \/ SerialSubscriptions)

LEMMA InitPush == PushInit => PushInv
  <1> SUFFICES ASSUME PushInit PROVE PushInv
    OBVIOUS
  <1> USE DEF PushInit
  <1>1. 0 \in 0..MaxSubscriptions
    BY PushAssumption
  <1>2. browser \in [Browsers -> BrowserRow]
    BY DEF NoBrowser, BrowserRow
  <1>3. pusher \in [Pushers -> PusherRow]
    BY DEF NoPush, PusherRow
  <1>4. PrunesGone /\ SerialSubscriptions
    BY DEF PrunesGone, SerialSubscriptions, FoundIsSo, Busy, NoBrowser, NoPush
  <1>5. QED
    BY <1>1, <1>2, <1>3, <1>4 DEF PushInv, PushTyped

LEMMA BeginKeeps ==
  ASSUME PushInv, NEW q \in Browsers, NEW anew \in BOOLEAN,
         BeginSubscribe(q, anew) \/ BeginUnsubscribe(q)
  PROVE  PushInv'
  <1> USE DEF PushInv
  <1>1. /\ UNCHANGED <<subscriptions, inserted, gone, pusher, wanted>>
        /\ crossing' = (crossing \/ \E r \in Browsers : Busy(r))
    BY DEF BeginSubscribe, BeginUnsubscribe, Begin
  <1>2. PICK new \in BrowserRow :
          /\ browser' = [browser EXCEPT ![q] = new]
          /\ \/ new.pc \in {"insert", "nothing"} /\ new.row = 0 /\ subscriptions = {}
             \/ new.pc \in {"update", "delete"} /\ subscriptions = {new.row}
    <2>1. ASSUME NEW old \in BOOLEAN, NEW none \in {"insert", "nothing"},
                 NEW one \in {"update", "delete"}, Begin(q, old, none, one)
          PROVE  \E new \in BrowserRow :
                   /\ browser' = [browser EXCEPT ![q] = new]
                   /\ \/ new.pc \in {"insert", "nothing"} /\ new.row = 0 /\ subscriptions = {}
                      \/ new.pc \in {"update", "delete"} /\ subscriptions = {new.row}
      <3>1. CASE /\ subscriptions = {}
                 /\ browser' = [browser EXCEPT ![q] = [pc |-> none, row |-> 0, anew |-> old]]
        <4>1. [pc |-> none, row |-> 0, anew |-> old] \in BrowserRow
          BY DEF BrowserRow
        <4>2. QED
          BY <3>1, <4>1
      <3>2. ASSUME NEW s \in subscriptions, subscriptions = {s},
                   browser' = [browser EXCEPT ![q] = [pc |-> one, row |-> s, anew |-> old]]
            PROVE  \E new \in BrowserRow :
                     /\ browser' = [browser EXCEPT ![q] = new]
                     /\ \/ new.pc \in {"insert", "nothing"} /\ new.row = 0 /\ subscriptions = {}
                        \/ new.pc \in {"update", "delete"} /\ subscriptions = {new.row}
        <4>1. [pc |-> one, row |-> s, anew |-> old] \in BrowserRow
          BY <3>2 DEF BrowserRow, PushTyped
        <4>2. QED
          BY <3>2, <4>1
      <3>3. QED
        BY <2>1, <3>1, <3>2 DEF Begin, Found
    <2>2. CASE BeginSubscribe(q, anew)
      BY <2>1, <2>2 DEF BeginSubscribe
    <2>3. CASE BeginUnsubscribe(q)
      BY <2>1, <2>3 DEF BeginUnsubscribe
    <2>4. QED
      BY <2>2, <2>3
  <1>3. PushTyped'
    BY <1>1, <1>2 DEF PushTyped
  <1>4. PrunesGone'
    BY <1>1 DEF PrunesGone
  <1>5. ASSUME SerialSubscriptions, \A r \in Browsers : ~Busy(r)
        PROVE  SerialSubscriptions'
    <2>1. browser'[q] = new /\ \A r \in Browsers \ {q} : browser'[r] = browser[r]
      BY <1>2 DEF PushTyped
    <2>2. \A r \in Browsers \ {q} : ~Busy(r)' /\ FoundIsSo(r)'
      BY <1>1, <1>5, <2>1 DEF SerialSubscriptions, Busy, FoundIsSo
    <2>3. FoundIsSo(q)'
      BY <1>1, <1>2, <2>1 DEF FoundIsSo
    <2>4. QED
      BY <1>1, <1>5, <2>2, <2>3 DEF SerialSubscriptions
  <1>6. QED
    BY <1>1, <1>3, <1>4, <1>5

LEMMA EndKeeps ==
  ASSUME PushInv, NEW q \in Browsers,
         InsertSubscription(q) \/ UpdateSubscription(q) \/ DeleteSubscription(q)
           \/ PushRequestFails(q)
  PROVE  PushInv'
  <1> USE DEF PushInv
  <1>1. /\ browser' = [browser EXCEPT ![q] = NoBrowser]
        /\ UNCHANGED <<gone, pusher, crossing>> /\ Busy(q)
    BY DEF InsertSubscription, UpdateSubscription, DeleteSubscription, PushRequestFails, Ends,
      Busy
  <1>2. PushTyped'
    <2>1. browser' \in [Browsers -> BrowserRow]
      BY <1>1 DEF PushTyped, BrowserRow, NoBrowser
    <2>2. subscriptions' \subseteq Subscriptions /\ inserted' \in 0..MaxSubscriptions
      <3>1. subscriptions \subseteq Subscriptions /\ inserted \in 0..MaxSubscriptions
        BY DEF PushTyped
      <3>2. CASE InsertSubscription(q)
        BY <3>1, <3>2, PushAssumption DEF InsertSubscription, Subscriptions
      <3>3. CASE UpdateSubscription(q) \/ DeleteSubscription(q) \/ PushRequestFails(q)
        BY <3>1, <3>3 DEF UpdateSubscription, DeleteSubscription, PushRequestFails
      <3>4. QED
        BY <3>2, <3>3
    <2>3. QED
      BY <1>1, <2>1, <2>2 DEF PushTyped
  <1>3. PrunesGone'
    BY <1>1 DEF PrunesGone
  <1>4. ASSUME SerialSubscriptions PROVE SerialSubscriptions'
    <2>1. browser'[q] = NoBrowser /\ \A r \in Browsers \ {q} : browser'[r] = browser[r]
      BY <1>1 DEF PushTyped
    <2>2. \A r \in Browsers \ {q} : browser[r].pc = "idle"
      BY <1>1, <1>4 DEF SerialSubscriptions, Busy
    <2>3. \A r \in Browsers : ~Busy(r)' /\ FoundIsSo(r)'
      BY <2>1, <2>2 DEF Busy, FoundIsSo, NoBrowser
    <2>4. CASE InsertSubscription(q)
      BY <1>4, <2>3, <2>4 DEF InsertSubscription, Ends, SerialSubscriptions, FoundIsSo
    <2>5. CASE UpdateSubscription(q)
      BY <1>1, <1>4, <2>3, <2>5 DEF UpdateSubscription, Ends, SerialSubscriptions, FoundIsSo
    <2>6. CASE DeleteSubscription(q)
      BY <1>4, <2>3, <2>6 DEF DeleteSubscription, Ends, SerialSubscriptions, FoundIsSo
    <2>7. CASE PushRequestFails(q)
      BY <1>4, <2>3, <2>7 DEF PushRequestFails, SerialSubscriptions
    <2>8. QED
      BY <2>4, <2>5, <2>6, <2>7
  <1>5. QED
    BY <1>1, <1>2, <1>3, <1>4

LEMMA PusherKeeps ==
  ASSUME PushInv, NEW p \in Pushers,
         \/ ReadSubscriptions(p) \/ PruneStale(p) \/ PushFails(p) \/ PushDies(p)
         \/ \E s \in Subscriptions : Push(p, s)
  PROVE  PushInv'
  <1> USE DEF PushInv
  <1>1. /\ UNCHANGED <<inserted, gone, browser, wanted, crossing>>
        /\ subscriptions' \subseteq subscriptions
        /\ subscriptions' = subscriptions \/ pusher[p].stale # {}
    BY DEF ReadSubscriptions, PruneStale, PushFails, PushDies, Push, PusherGoes
  <1>2. PICK new \in PusherRow :
          pusher' = [pusher EXCEPT ![p] = new] /\ (new.stale # {} => gone)
    <2> DEFINE Goal == \E new \in PusherRow :
                 pusher' = [pusher EXCEPT ![p] = new] /\ (new.stale # {} => gone)
    <2>1. pusher[p] \in PusherRow /\ (pusher[p].stale # {} => gone)
      BY DEF PushTyped, PrunesGone
    <2>2. CASE ReadSubscriptions(p)
      <3> DEFINE new == [pusher[p] EXCEPT !.pc = "sending", !.todo = subscriptions,
                           !.stale = {}]
      <3>1. new \in PusherRow /\ new.stale = {}
        BY <2>1 DEF PushTyped, PusherRow
      <3>2. QED
        BY <2>2, <3>1 DEF ReadSubscriptions, PusherGoes
    <2>3. CASE PruneStale(p) \/ PushDies(p)
      <3>1. \A c \in {"done", "lost"} : [pusher[p] EXCEPT !.pc = c] \in PusherRow
        BY <2>1 DEF PusherRow
      <3>2. \A c \in {"done", "lost"} : [pusher[p] EXCEPT !.pc = c].stale = pusher[p].stale
        BY <2>1 DEF PusherRow
      <3>3. QED
        BY <2>1, <2>3, <3>1, <3>2 DEF PruneStale, PushDies, PusherGoes
    <2>4. CASE PushFails(p)
      <3>1. ASSUME NEW c \in {"none", "failed"}, NEW k \in Nat
            PROVE  /\ [NoPush EXCEPT !.pc = c, !.tries = k] \in PusherRow
                   /\ [NoPush EXCEPT !.pc = c, !.tries = k].stale = {}
        BY DEF NoPush, PusherRow
      <3>2. pusher[p].tries + 1 \in Nat
        BY <2>1 DEF PusherRow
      <3>3. QED
        BY <2>4, <3>1, <3>2 DEF PushFails, PusherGoes
    <2>5. ASSUME NEW s \in Subscriptions, Push(p, s) PROVE Goal
      <3> DEFINE new == [pusher[p] EXCEPT !.todo = @ \ {s},
                           !.stale = IF gone THEN @ \cup {s} ELSE @]
      <3>1. new \in PusherRow /\ (new.stale # {} => gone)
        BY <2>1 DEF PusherRow
      <3>2. pusher' = [pusher EXCEPT ![p] = new]
        BY <2>5 DEF Push, PusherGoes
      <3>3. QED
        BY <3>1, <3>2
    <2>6. QED
      BY <2>2, <2>3, <2>4, <2>5
  <1>3. PushTyped'
    BY <1>1, <1>2 DEF PushTyped
  <1>4. PrunesGone'
    BY <1>1, <1>2 DEF PrunesGone, PushTyped
  <1>5. subscriptions' = subscriptions \/ gone
    BY <1>1 DEF PrunesGone
  <1>6. ASSUME SerialSubscriptions PROVE SerialSubscriptions'
    <2>1. CASE subscriptions' = subscriptions
      BY <1>1, <1>6, <2>1 DEF SerialSubscriptions, FoundIsSo, Busy
    <2>2. CASE gone
      BY <1>1, <1>6, <2>2 DEF SerialSubscriptions, FoundIsSo, Busy
    <2>3. QED
      BY <1>5, <2>1, <2>2
  <1>7. QED
    BY <1>1, <1>3, <1>4, <1>6

LEMMA AlwaysPush == PushSpec => []PushInv
  <1>1. PushInv /\ UNCHANGED pushVars => PushInv'
    BY DEF PushInv, pushVars, PushTyped, PrunesGone, SerialSubscriptions, FoundIsSo, Busy
  <1>2. PushInv /\ EndpointGone => PushInv'
    BY DEF PushInv, EndpointGone, PushTyped, PrunesGone, SerialSubscriptions, FoundIsSo, Busy
  <1>3. PushInv /\ [PushNext]_pushVars => PushInv'
    BY <1>1, <1>2, BeginKeeps, EndKeeps, PusherKeeps DEF PushNext
  <1>4. QED
    BY InitPush, <1>3, PTL DEF PushSpec

\* Unless two requests crossed, the rows are as the last request left them,
\* whatever push tasks prune (services/notification.py:127), for any number of
\* requests, tasks and rows.
THEOREM RowsFollowRequests == PushSpec => []SubscriptionFollowsRequests
  <1>1. ASSUME SerialSubscriptions PROVE Cardinality(subscriptions) <= 1
    <2>1. CASE subscriptions = {}
      BY <2>1, FS_EmptySet
    <2>2. ASSUME NEW s \in subscriptions PROVE Cardinality(subscriptions) = 1
      <3>1. subscriptions = {s}
        BY <1>1 DEF SerialSubscriptions
      <3>2. QED
        BY <3>1, FS_Singleton
    <2>3. QED
      BY <2>1, <2>2
  <1>2. PushInv => SubscriptionFollowsRequests
    BY <1>1 DEF PushInv, SerialSubscriptions, SubscriptionFollowsRequests
  <1>3. QED
    BY <1>2, AlwaysPush, PTL

-----------------------------------------------------------------------------
(* Conversations.                                                           *)

\* A conversation gets its participants at once, and keeps them.
FoundedAtOnce ==
  \A c \in Founders :
    /\ ParticipantsOf(c) \in {{}, founder[c].named}
    /\ founder[c].pc \in {"idle", "participants"} => ParticipantsOf(c) = {}

Others(q) == ParticipantsOf(poster[q].into) \ {poster[q].by}
Informed(q) == {u \in People : <<q, u>> \in told}

\* A call that found the sender's conversation has stored its message before
\* it looks for the others, and has told whoever is not left.
PostedInside(q) ==
  /\ poster[q].pc # "idle" =>
       poster[q].into \in Founders /\ poster[q].by \in ParticipantsOf(poster[q].into)
  /\ q \in messages => poster[q].pc \notin {"idle", "insert"}
  /\ poster[q].pc \in {"recipients", "publish", "answered"} => q \in messages
  /\ Informed(q) \subseteq Others(q)
  /\ Informed(q) # {} => q \in messages
  /\ poster[q].pc = "publish" => Informed(q) \cup poster[q].left = Others(q)
  /\ poster[q].pc = "answered" => Informed(q) = Others(q)

ConversationInv ==
  ConversationTypeOK /\ FoundedAtOnce /\ \A q \in Posters : PostedInside(q)

LEMMA InitConversation == ConversationInit => ConversationInv
  BY DEF ConversationInit, ConversationInv, ConversationTypeOK, FoundedAtOnce, PostedInside,
    ParticipantsOf, Others, Informed

LEMMA FounderKeeps ==
  ASSUME ConversationInv, NEW c \in Founders,
         \/ \E u \in People, S \in SUBSET (People \cup Nobody) : CommitConversation(c, u, S)
         \/ CommitParticipants(c) \/ ConversationFails(c)
  PROVE  ConversationInv'
  <1> USE DEF ConversationInv, CommitConversation, CommitParticipants, ConversationFails
  <1>1. ConversationTypeOK'
    BY DEF ConversationTypeOK, Joined
  <1>2. FoundedAtOnce /\ founder[c].pc \in {"idle", "participants"} /\ ParticipantsOf(c) = {}
    BY DEF FoundedAtOnce
  <1>3. /\ \A d \in Founders \ {c} :
             ParticipantsOf(d)' = ParticipantsOf(d) /\ founder'[d] = founder[d]
        /\ UNCHANGED <<poster, messages, told>>
    BY DEF ParticipantsOf, ConversationTypeOK
  <1>4. /\ ParticipantsOf(c)' \in {{}, founder'[c].named}
        /\ founder'[c].pc \in {"idle", "participants"} => ParticipantsOf(c)' = {}
    BY <1>2 DEF ParticipantsOf, ConversationTypeOK, Joined
  <1>5. FoundedAtOnce'
    BY <1>2, <1>3, <1>4 DEF FoundedAtOnce
  <1>6. ASSUME NEW q \in Posters PROVE PostedInside(q)'
    <2>1. Informed(q)' = Informed(q)
      BY <1>3 DEF Informed
    <2>2. CASE poster[q].pc = "idle"
      <3>1. Informed(q) = {} /\ q \notin messages
        BY <2>2 DEF PostedInside
      <3>2. QED
        BY <1>3, <2>1, <2>2, <3>1 DEF PostedInside
    <2>3. CASE poster[q].pc # "idle"
      <3>1. ParticipantsOf(poster[q].into)' = ParticipantsOf(poster[q].into)
        BY <1>2, <1>3, <2>3 DEF PostedInside
      <3>2. Others(q)' = Others(q)
        BY <1>3, <3>1 DEF Others
      <3>3. QED
        BY <1>3, <2>1, <2>3, <3>1, <3>2 DEF PostedInside
    <2>4. QED
      BY <2>2, <2>3
  <1>7. QED
    BY <1>1, <1>5, <1>6

\* What a poster's step leaves alone.
LEMMA PosterFrame ==
  ASSUME ConversationInv, NEW q \in Posters, UNCHANGED <<participants, founder>>,
         \A r \in Posters \ {q} :
           /\ poster'[r] = poster[r]
           /\ r \in messages' <=> r \in messages
           /\ \A u \in People : <<r, u>> \in told' <=> <<r, u>> \in told
  PROVE  /\ FoundedAtOnce'
         /\ \A r \in Posters \ {q} : PostedInside(r)'
  <1>1. \A c \in Founders \cup {Nowhere} : ParticipantsOf(c)' = ParticipantsOf(c)
    BY DEF ParticipantsOf
  <1>2. FoundedAtOnce'
    BY <1>1 DEF ConversationInv, FoundedAtOnce
  <1>3. ASSUME NEW r \in Posters \ {q} PROVE PostedInside(r)'
    <2>1. poster[r].into \in Founders \cup {Nowhere}
      BY DEF ConversationInv, ConversationTypeOK
    <2>2. poster'[r] = poster[r] /\ (r \in messages' <=> r \in messages)
      OBVIOUS
    <2>3. Informed(r)' = Informed(r)
      BY DEF Informed
    <2>4. ParticipantsOf(poster[r].into)' = ParticipantsOf(poster[r].into)
      BY <1>1, <2>1, <2>2
    <2>5. Others(r)' = Others(r)
      BY <2>2, <2>4 DEF Others
    <2>6. QED
      BY <2>2, <2>3, <2>4, <2>5 DEF ConversationInv, PostedInside
  <1>4. QED
    BY <1>2, <1>3

LEMMA PosterKeeps ==
  ASSUME ConversationInv, NEW q \in Posters,
         \/ \E c \in Founders, u \in People : BeginMessage(q, c, u)
         \/ CommitMessage(q) \/ FindRecipients(q) \/ AnswerMessage(q) \/ MessageFails(q)
         \/ \E u \in People : PublishTo(q, u)
  PROVE  ConversationInv'
  <1> USE DEF ConversationInv
  <1>1. UNCHANGED <<conversations, participants, founder>>
    BY DEF BeginMessage, CommitMessage, FindRecipients, AnswerMessage, MessageFails, PublishTo
  <1>2. /\ FoundedAtOnce'
        /\ \A r \in Posters \ {q} : PostedInside(r)'
    BY <1>1, PosterFrame DEF BeginMessage, CommitMessage, FindRecipients, AnswerMessage,
      MessageFails, PublishTo, PosterGoes, ConversationTypeOK
  <1>3. \A c : ParticipantsOf(c)' = ParticipantsOf(c)
    BY <1>1 DEF ParticipantsOf
  <1>4. poster[q] \in [pc : {"idle", "insert", "recipients", "publish", "answered", "failed"},
          into : Founders \cup {Nowhere}, by : People \cup {Nowhere}, left : SUBSET People]
    BY DEF ConversationTypeOK
  <1>5. ASSUME NEW pc \in {"recipients", "publish", "answered", "failed"},
               NEW S \in SUBSET People, PosterGoes(q, pc, S)
        PROVE  /\ poster'[q].pc = pc /\ poster'[q].left = S
               /\ poster'[q].into = poster[q].into /\ poster'[q].by = poster[q].by
               /\ Others(q)' = Others(q)
               /\ poster' \in [Posters ->
                    [pc : {"idle", "insert", "recipients", "publish", "answered", "failed"},
                     into : Founders \cup {Nowhere}, by : People \cup {Nowhere},
                     left : SUBSET People]]
    <2>1. /\ poster'[q].pc = pc /\ poster'[q].left = S
          /\ poster'[q].into = poster[q].into /\ poster'[q].by = poster[q].by
      BY <1>4, <1>5 DEF PosterGoes, ConversationTypeOK
    <2>2. poster' \in [Posters ->
            [pc : {"idle", "insert", "recipients", "publish", "answered", "failed"},
             into : Founders \cup {Nowhere}, by : People \cup {Nowhere}, left : SUBSET People]]
      BY <1>5 DEF PosterGoes, ConversationTypeOK
    <2>3. QED
      BY <1>3, <2>1, <2>2 DEF Others
  <1>6. ASSUME NEW c \in Founders, NEW u \in People, BeginMessage(q, c, u)
        PROVE  ConversationInv'
    <2>1. /\ poster'[q] = [pc |-> "insert", into |-> c, by |-> u, left |-> {}]
          /\ UNCHANGED <<messages, told>> /\ poster[q].pc = "idle"
          /\ u \in ParticipantsOf(c)
      BY <1>6 DEF BeginMessage, ConversationTypeOK, ParticipantsOf
    <2>2. Informed(q)' = {} /\ q \notin messages
      BY <2>1 DEF PostedInside, Informed
    <2>3. PostedInside(q)'
      BY <1>3, <2>1, <2>2 DEF PostedInside
    <2>4. ConversationTypeOK'
      BY <1>1, <1>6 DEF BeginMessage, ConversationTypeOK
    <2>5. QED
      BY <1>2, <2>3, <2>4
  <1>7. CASE CommitMessage(q)
    <2>1. PosterGoes(q, "recipients", {}) /\ messages' = messages \cup {q} /\ told' = told
      BY <1>7 DEF CommitMessage
    <2>2. Informed(q)' = Informed(q)
      BY <2>1 DEF Informed
    <2>3. PostedInside(q)'
      BY <1>3, <1>5, <1>7, <2>1, <2>2 DEF CommitMessage, PostedInside
    <2>4. ConversationTypeOK'
      BY <1>1, <1>5, <2>1 DEF ConversationTypeOK
    <2>5. QED
      BY <1>2, <2>3, <2>4
  <1>8. CASE FindRecipients(q)
    <2>1. /\ PosterGoes(q, "publish", Others(q)) /\ UNCHANGED <<messages, told>>
          /\ poster[q].pc = "recipients"
      BY <1>8 DEF FindRecipients, Others
    <2>2. Informed(q)' = Informed(q) /\ Others(q) \in SUBSET People
      BY <2>1 DEF Informed, Others, ParticipantsOf
    <2>3. PostedInside(q)'
      BY <1>3, <1>5, <2>1, <2>2 DEF PostedInside
    <2>4. ConversationTypeOK'
      BY <1>1, <1>5, <2>1, <2>2 DEF ConversationTypeOK
    <2>5. QED
      BY <1>2, <2>3, <2>4
  <1>9. CASE AnswerMessage(q) \/ MessageFails(q)
    <2>1. PICK pc \in {"answered", "failed"} :
            /\ PosterGoes(q, pc, {}) /\ UNCHANGED <<messages, told>>
            /\ poster[q].pc \in {"insert", "recipients", "publish"}
            /\ pc = "answered" => poster[q].pc = "publish" /\ poster[q].left = {}
      BY <1>9 DEF AnswerMessage, MessageFails
    <2>2. Informed(q)' = Informed(q)
      BY <2>1 DEF Informed
    <2>3. PostedInside(q)'
      <3>1. poster[q].pc = "publish" /\ poster[q].left = {} => Informed(q) = Others(q)
        BY DEF PostedInside
      <3>2. /\ poster'[q].pc = pc /\ Others(q)' = Others(q)
            /\ poster'[q].into = poster[q].into /\ poster'[q].by = poster[q].by
        BY <1>5, <2>1
      <3>3. QED
        BY <1>3, <2>1, <2>2, <3>1, <3>2 DEF PostedInside
    <2>4. ConversationTypeOK'
      BY <1>1, <1>5, <2>1 DEF ConversationTypeOK
    <2>5. QED
      BY <1>2, <2>3, <2>4
  <1>10. ASSUME NEW u \in People, PublishTo(q, u) PROVE ConversationInv'
    <2>1. /\ PosterGoes(q, "publish", poster[q].left \ {u}) /\ messages' = messages
          /\ told' = told \cup {<<q, u>>} /\ poster[q].pc = "publish" /\ u \in poster[q].left
      BY <1>10 DEF PublishTo
    <2>2. /\ Informed(q)' = Informed(q) \cup {u}
          /\ poster[q].left \ {u} \in SUBSET People
      BY <1>4, <2>1 DEF Informed
    <2>3. PostedInside(q)'
      <3>1. Informed(q) \cup poster[q].left = Others(q) /\ q \in messages
        BY <2>1 DEF PostedInside
      <3>2. /\ Informed(q)' \subseteq Others(q)
            /\ Informed(q)' \cup (poster[q].left \ {u}) = Others(q)
        BY <2>1, <2>2, <3>1
      <3>3. QED
        BY <1>3, <1>5, <2>1, <2>2, <3>1, <3>2 DEF PostedInside
    <2>4. ConversationTypeOK'
      BY <1>1, <1>5, <2>1, <2>2 DEF ConversationTypeOK
    <2>5. QED
      BY <1>2, <2>3, <2>4
  <1>11. QED
    BY <1>6, <1>7, <1>8, <1>9, <1>10

LEMMA AlwaysConversation == ConversationSpec => []ConversationInv
  <1>1. ASSUME ConversationInv, UNCHANGED conversationVars PROVE ConversationInv'
    <2>1. ConversationTypeOK'
      BY <1>1 DEF ConversationInv, conversationVars, ConversationTypeOK
    <2>2. \A c : ParticipantsOf(c)' = ParticipantsOf(c)
      BY <1>1 DEF conversationVars, ParticipantsOf
    <2>3. FoundedAtOnce'
      BY <1>1, <2>2 DEF ConversationInv, conversationVars, FoundedAtOnce
    <2>4. ASSUME NEW q \in Posters PROVE PostedInside(q)'
      <3>1. Informed(q)' = Informed(q) /\ Others(q)' = Others(q)
        BY <1>1, <2>2 DEF conversationVars, Informed, Others
      <3>2. QED
        BY <1>1, <2>2, <3>1 DEF ConversationInv, conversationVars, PostedInside
    <2>5. QED
      BY <2>1, <2>3, <2>4 DEF ConversationInv
  <1>2. ConversationInv /\ [ConversationNext]_conversationVars => ConversationInv'
    BY <1>1, FounderKeeps, PosterKeeps DEF ConversationNext
  <1>3. QED
    BY InitConversation, <1>2, PTL DEF ConversationSpec

\* A conversation has everybody it was created for, or nobody; who is told of a
\* message takes part, and all the others are told once the sender is answered
\* (services/message.py:115), for any users, conversations and messages.
THEOREM WholeConversations == ConversationSpec => []ConversationsAreWhole
  <1>1. ConversationInv => ConversationsAreWhole
    <2> SUFFICES ASSUME ConversationInv PROVE ConversationsAreWhole
      OBVIOUS
    <2> USE DEF ConversationInv
    <2>1. ASSUME NEW q \in messages
          PROVE  /\ poster[q].by \in ParticipantsOf(poster[q].into)
                 /\ ParticipantsOf(poster[q].into) = founder[poster[q].into].named
                 /\ poster[q].pc = "answered" =>
                      {u \in People : <<q, u>> \in told}
                        = ParticipantsOf(poster[q].into) \ {poster[q].by}
      <3>1. q \in Posters /\ PostedInside(q)
        BY DEF ConversationTypeOK
      <3>2. QED
        BY <3>1 DEF PostedInside, FoundedAtOnce, Informed, Others
    <2>2. ASSUME NEW m \in told
          PROVE  /\ m[1] \in messages
                 /\ m[2] \in ParticipantsOf(poster[m[1]].into) \ {poster[m[1]].by}
      <3>1. m[1] \in Posters /\ m[2] \in People /\ m = <<m[1], m[2]>>
        BY DEF ConversationTypeOK
      <3>2. QED
        BY <3>1 DEF PostedInside, Informed, Others
    <2>3. QED
      BY <2>1, <2>2 DEF FoundedAtOnce, ConversationsAreWhole
  <1>2. QED
    BY <1>1, AlwaysConversation, PTL
==============================================================================
