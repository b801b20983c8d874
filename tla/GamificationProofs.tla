------------------------- MODULE GamificationProofs -------------------------
(***************************************************************************)
(* Proofs about Gamification for every set of workers, sources and badges, *)
(* all amounts, multipliers, thresholds and numbers of faults.             *)
(***************************************************************************)
EXTENDS Gamification, FiniteSetTheorems, TLAPS

\* A worker in the middle of a task holds a message of that task, and a row it
\* has read is not deleted.
WorkShape ==
  \A w \in Workers :
    /\ work[w].pc \in {"levels", "award", "announce"} => work[w].job \in Award
    /\ work[w].pc \in {"list", "check", "reward"} => work[w].job.task = "badges"
    /\ work[w].pc = "award" /\ work[w].copy # NoLevel => level # NoLevel

Typed == TypeOK /\ WorkShape

LEMMA LevelOfTyped == ASSUME NEW total \in Nat PROVE LevelOf(total) \in Nat \ {0}
  <1>1. Passed(total) \in SUBSET (1 .. Len(Thresholds)) /\ Len(Thresholds) \in Nat
    BY NumbersAssumption DEF Passed
  <1>2. IsFiniteSet(1 .. Len(Thresholds))
    BY <1>1, FS_Interval
  <1>3. IsFiniteSet(Passed(total))
    BY <1>1, <1>2, FS_Subset
  <1>4. /\ Cardinality(Passed(total)) \in Nat
        /\ Cardinality(Passed(total)) = 0 <=> Passed(total) = {}
    BY <1>3, FS_CardinalityType, FS_EmptySet
  <1>5. QED
    BY <1>4 DEF LevelOf

LEMMA InitTyped == Init => Typed
  <1> SUFFICES ASSUME Init PROVE Typed
    OBVIOUS
  <1>1. NoLevel \in Level /\ Idle \in Work
    BY DEF NoLevel, Level, Work
  <1>2. QED
    BY <1>1 DEF Init, Typed, TypeOK, WorkShape, Idle

\* A message that is sent keeps the queue in its type.
LEMMA SendTyped ==
  ASSUME Typed, NEW m \in Message, Send(m)
  PROVE  queue' \in [Message -> Nat]
  BY DEF Typed, TypeOK, Send

\* A worker that is not idle is in a record of its own type.
LEMMA BusyWorker ==
  ASSUME Typed, NEW w \in Workers, work[w].pc # "idle"
  PROVE  work[w] \in Busy /\ work[w].job \in Message
  BY DEF Typed, TypeOK, Work, Busy, Idle

\* Writing one worker's record keeps the type and the shape of all.
LEMMA WorkerWritten ==
  ASSUME Typed, NEW w \in Workers, NEW new \in Work,
         new.pc \in {"levels", "award", "announce"} => new.job \in Award,
         new.pc \in {"list", "check", "reward"} => new.job.task = "badges",
         new.pc = "award" /\ new.copy # NoLevel => level' # NoLevel,
         level' = level \/ level' # NoLevel,
         work' = [work EXCEPT ![w] = new]
  PROVE  work' \in [Workers -> Work] /\ WorkShape'
  BY DEF Typed, TypeOK, WorkShape

LEMMA IdleTyped ==
  ASSUME Typed, NEW w \in Workers, GoIdle(w), level' = level \/ level' # NoLevel
  PROVE  work' \in [Workers -> Work] /\ WorkShape'
  <1>1. Idle \in Work /\ Idle.pc = "idle"
    BY DEF Work, Idle
  <1>2. QED
    BY <1>1, WorkerWritten DEF GoIdle

LEMMA RetryTyped ==
  ASSUME Typed, NEW w \in Workers, work[w].pc # "idle", Retry(w), level' = level
  PROVE  /\ work' \in [Workers -> Work] /\ WorkShape'
         /\ queue' \in [Message -> Nat]
         /\ gaveUp' \subseteq Refs
  <1>1. work[w].job \in Message
    BY BusyWorker
  <1>2. work[w].job.tries < MaxRetries => NextTry(work[w].job) \in Message
    BY <1>1 DEF NextTry, Message, Award, MaxRetries
  <1>3. queue' \in [Message -> Nat]
    BY <1>2, SendTyped DEF Retry, Typed, TypeOK
  <1>4. gaveUp' \subseteq Refs
    BY <1>1 DEF Retry, Typed, TypeOK, Message, Award
  <1>5. GoIdle(w)
    BY DEF Retry
  <1>6. QED
    BY <1>3, <1>4, <1>5, IdleTyped

LEMMA UpdatedTyped ==
  ASSUME Typed, NEW copy \in Level, NEW gain \in Nat, ~RowConflict(copy),
         copy # NoLevel => level # NoLevel
  PROVE  Updated(copy, gain) \in Level \ {NoLevel}
  <1>1. copy.total \in Nat /\ copy.total + gain \in Nat
    BY DEF Level, NoLevel
  <1>2. LevelOf(copy.total + gain) \in Nat \ {0}
    BY <1>1, LevelOfTyped
  <1>3. copy # NoLevel => level.total \in Nat /\ level.level \in Nat \ {0}
    BY DEF Typed, TypeOK, Level
  <1>4. QED
    BY <1>1, <1>2, <1>3 DEF Updated, Level, NoLevel

\* Every step keeps the variables in their types and the workers in shape.
LEMMA NextTyped == Typed /\ [Next]_vars => Typed'
  <1> SUFFICES ASSUME Typed, [Next]_vars PROVE Typed'
    OBVIOUS
  <1> USE DEF Typed, TypeOK, badgeRows, history
  <1>1. ASSUME NEW s \in Sources, Dispatch(s) PROVE Typed'
    <2>1. AwardFor(s) \in Message
      BY DEF AwardFor, Message, Award, Refs, MaxRetries
    <2>2. QED
      BY <1>1, <2>1, SendTyped DEF Dispatch, WorkShape
  <1>2. ASSUME NEW w \in Workers, NEW m \in Message, TakeMessage(w, m) PROVE Typed'
    <2> DEFINE new == [Idle EXCEPT !.job = m, !.pc = IF m.task = "award" THEN "levels" ELSE "list"]
    <2>1. new \in Work /\ (new.pc \in {"levels", "award", "announce"} => new.job \in Award)
          /\ new.pc # "award"
          /\ (new.pc \in {"list", "check", "reward"} => new.job.task = "badges")
      BY DEF Work, Busy, Idle, NoLevel, Level, Message, Award
    <2>2. work' = [work EXCEPT ![w] = new]
      BY <1>2 DEF TakeMessage
    <2>3. work' \in [Workers -> Work] /\ WorkShape'
      BY <1>2, <2>1, <2>2, WorkerWritten DEF TakeMessage
    <2>4. queue' \in [Message -> Nat]
      BY <1>2 DEF TakeMessage
    <2>5. QED
      BY <1>2, <2>3, <2>4 DEF TakeMessage
  <1>3. ASSUME NEW w \in Workers, ReadLevel(w) PROVE Typed'
    <2>1. work[w] \in Busy /\ work[w].job \in Award
      BY <1>3, BusyWorker DEF ReadLevel, WorkShape
    <2>2. CASE work[w].job.ref \in Unlisted
      BY <1>3, <2>1, <2>2, RetryTyped DEF ReadLevel
    <2>3. CASE work[w].job.ref \notin Unlisted
      <3>1. PICK k \in Multipliers :
              work' = [work EXCEPT ![w].pc = "award", ![w].copy = level,
                                   ![w].gain = XP[work[w].job.ref] * k]
        BY <1>3, <2>3 DEF ReadLevel
      <3> DEFINE new == [work[w] EXCEPT !.pc = "award", !.copy = level,
                                        !.gain = XP[work[w].job.ref] * k]
      <3>2. XP[work[w].job.ref] \in Nat /\ k \in Nat
        BY <2>1, NumbersAssumption DEF Award
      <3>3. XP[work[w].job.ref] * k \in Nat
        BY <3>2
      <3>4. new \in Work /\ new.job \in Award /\ new.copy = level /\ new.pc = "award"
        BY <2>1, <3>3 DEF Work, Busy
      <3>5. work' = [work EXCEPT ![w] = new]
        BY <3>1
      <3>6. work' \in [Workers -> Work] /\ WorkShape'
        BY <1>3, <3>4, <3>5, WorkerWritten DEF ReadLevel
      <3>7. QED
        BY <1>3, <2>3, <3>6 DEF ReadLevel
    <2>4. QED
      BY <2>2, <2>3
  <1>4. ASSUME NEW w \in Workers, CommitAward(w) PROVE Typed'
    <2>1. work[w] \in Busy /\ work[w].job \in Award /\ work[w].copy \in Level /\ work[w].gain \in Nat
      BY <1>4, BusyWorker DEF CommitAward, WorkShape, Busy
    <2>2. CASE RowConflict(work[w].copy)
      BY <1>4, <2>2, RetryTyped DEF CommitAward
    <2>3. CASE ~RowConflict(work[w].copy)
      <3>1. level' \in Level \ {NoLevel}
        BY <1>4, <2>1, <2>3, UpdatedTyped DEF CommitAward, WorkShape
      <3>2. earned' \in Nat
        BY <1>4, <2>1, <2>3 DEF CommitAward, Recorded
      <3>3. CASE GoIdle(w)
        BY <1>4, <2>3, <3>1, <3>2, <3>3, IdleTyped DEF CommitAward
      <3>4. CASE work' = [work EXCEPT ![w].pc = "announce"]
        <4> DEFINE new == [work[w] EXCEPT !.pc = "announce"]
        <4>1. new \in Work /\ new.job \in Award /\ new.pc = "announce"
          BY <2>1 DEF Work, Busy
        <4>2. work' = [work EXCEPT ![w] = new]
          BY <3>4
        <4>3. work' \in [Workers -> Work] /\ WorkShape'
          BY <3>1, <4>1, <4>2, WorkerWritten
        <4>4. QED
          BY <1>4, <2>3, <3>1, <3>2, <4>3 DEF CommitAward
      <3>5. QED
        BY <1>4, <2>3, <3>3, <3>4 DEF CommitAward
    <2>4. QED
      BY <2>2, <2>3
  <1>5. ASSUME NEW w \in Workers, AnnounceLevel(w) PROVE Typed'
    <2>1. Evaluation \in Message
      BY DEF Evaluation, Message, MaxRetries
    <2>2. QED
      BY <1>5, <2>1, SendTyped, IdleTyped DEF AnnounceLevel
  <1>6. ASSUME NEW w \in Workers, NEW new \in Busy, new.pc \in {"list", "check", "reward"},
               new.job.task = "badges", work' = [work EXCEPT ![w] = new], level' = level
        PROVE  work' \in [Workers -> Work] /\ WorkShape'
    BY <1>6, WorkerWritten DEF Work
  <1>e. ASSUME NEW w \in Workers, work[w].pc \in {"list", "check", "reward"}
        PROVE  work[w] \in Busy /\ work[w].job.task = "badges"
    BY <1>e, BusyWorker DEF WorkShape
  <1>7. ASSUME NEW w \in Workers, ListBadges(w) PROVE Typed'
    <2> DEFINE new == [work[w] EXCEPT !.pc = "check", !.todo = {b \in Badges : badge[b] = "active"}]
    <2>1. new \in Busy /\ new.pc = "check" /\ new.job.task = "badges"
      BY <1>7, <1>e DEF ListBadges, Busy
    <2>2. work' = [work EXCEPT ![w] = new]
      BY <1>7 DEF ListBadges
    <2>3. QED
      BY <1>6, <1>7, <2>1, <2>2 DEF ListBadges
  <1>8. ASSUME NEW w \in Workers, NEW b \in Badges, CheckBadge(w, b) PROVE Typed'
    <2>1. PICK others \in BOOLEAN :
            work' = [work EXCEPT ![w].todo = @ \ {b},
                                 ![w].met = IF b \notin owned /\ EnoughXp(b) /\ others
                                              THEN @ \cup {b} ELSE @]
      BY <1>8 DEF CheckBadge
    <2> DEFINE new == [work[w] EXCEPT !.todo = @ \ {b},
                                      !.met = IF b \notin owned /\ EnoughXp(b) /\ others
                                                THEN @ \cup {b} ELSE @]
    <2>2. new \in Busy /\ new.pc = "check" /\ new.job.task = "badges"
      BY <1>8, <1>e DEF CheckBadge, Busy
    <2>3. work' = [work EXCEPT ![w] = new]
      BY <2>1
    <2>4. QED
      BY <1>6, <1>8, <2>2, <2>3 DEF CheckBadge
  <1>9. ASSUME NEW w \in Workers, CommitBadges(w) PROVE Typed'
    <2>1. work[w] \in Busy /\ work[w].job.task = "badges"
      BY <1>9, <1>e DEF CommitBadges
    <2>2. CASE \E b \in work[w].met : Refused(b)
      BY <1>9, <2>2, RetryTyped DEF CommitBadges
    <2>3. CASE ~ \E b \in work[w].met : Refused(b)
      <3>1. owned' \subseteq Badges
        BY <1>9, <2>1, <2>3 DEF CommitBadges, Busy
      <3>2. CASE GoIdle(w)
        BY <1>9, <2>3, <3>1, <3>2, IdleTyped DEF CommitBadges
      <3>3. CASE work' = [work EXCEPT ![w].pc = "reward"]
        <4> DEFINE new == [work[w] EXCEPT !.pc = "reward"]
        <4>1. new \in Busy /\ new.pc = "reward" /\ new.job.task = "badges"
          BY <2>1 DEF Busy
        <4>2. work' = [work EXCEPT ![w] = new]
          BY <3>3
        <4>3. QED
          BY <1>6, <1>9, <2>3, <3>1, <4>1, <4>2 DEF CommitBadges
      <3>4. QED
        BY <1>9, <2>3, <3>2, <3>3 DEF CommitBadges
    <2>4. QED
      BY <2>2, <2>3
  <1>10. ASSUME NEW w \in Workers, NEW b \in Badges, RewardBadge(w, b) PROVE Typed'
    <2>1. work[w] \in Busy /\ work[w].job.task = "badges"
      BY <1>10, <1>e DEF RewardBadge
    <2>2. AwardFor(b) \in Message
      BY DEF AwardFor, Message, Award, Refs, MaxRetries
    <2>3. queue' \in [Message -> Nat] /\ rewards' \in [Badges -> Nat]
      BY <1>10, <2>2, SendTyped DEF RewardBadge
    <2>4. CASE GoIdle(w)
      BY <1>10, <2>3, <2>4, IdleTyped DEF RewardBadge
    <2>5. CASE work' = [work EXCEPT ![w].met = @ \ {b}]
      <3> DEFINE new == [work[w] EXCEPT !.met = @ \ {b}]
      <3>1. new \in Busy /\ new.pc = "reward" /\ new.job.task = "badges"
        BY <1>10, <2>1 DEF RewardBadge, Busy
      <3>2. work' = [work EXCEPT ![w] = new]
        BY <2>5
      <3>3. QED
        BY <1>6, <1>10, <2>3, <3>1, <3>2 DEF RewardBadge
    <2>6. QED
      BY <1>10, <2>4, <2>5 DEF RewardBadge
  <1>11. ASSUME NEW w \in Workers, Fault(w) PROVE Typed'
    <2>1. CASE Retry(w)
      BY <1>11, <2>1, RetryTyped DEF Fault
    <2>2. CASE GoIdle(w) /\ UNCHANGED <<queue, gaveUp>>
      BY <1>11, <2>2, IdleTyped DEF Fault
    <2>3. QED
      BY <1>11, <2>1, <2>2 DEF Fault
  <1>12. ASSUME NEW b \in Badges, NEW state \in {"active", "inactive"}, SetBadge(b, state)
         PROVE  Typed'
    BY <1>12 DEF SetBadge, WorkShape
  <1>13. ASSUME NEW b \in Badges, DeleteBadge(b) PROVE Typed'
    BY <1>13 DEF DeleteBadge, WorkShape
  <1>14. CASE UNCHANGED vars
    BY <1>14 DEF vars, WorkShape
  <1>15. QED
    BY <1>1, <1>2, <1>3, <1>4, <1>5, <1>7, <1>8, <1>9, <1>10, <1>11, <1>12, <1>13, <1>14
       DEF Next, Step

\* The type invariant, for every instance.
THEOREM TypeCorrect == Spec => []TypeOK
  <1>1. Typed => TypeOK
    BY DEF Typed
  <1>2. QED
    BY <1>1, InitTyped, NextTyped, PTL DEF Spec

------------------------------------------------------------------------------
(* Experience points                                                        *)

\* Copies that wait for their commit are no more than the events either; and
\* as long as awards do not overlap, the only copy is the row.
AwardInv ==
  /\ XpIsEarned
  /\ \A w \in Workers : work[w].pc = "award" => work[w].copy.total <= earned
  /\ SerialAwardsAddUp
  /\ ~raced =>
       /\ \A w \in Workers : work[w].pc = "award" => work[w].copy = level
       /\ \A w, v \in Workers : work[w].pc = "award" /\ work[v].pc = "award" => w = v

LEMMA InitAward == Init => AwardInv
  BY DEF Init, AwardInv, XpIsEarned, SerialAwardsAddUp, Idle, NoLevel

\* A step after which no worker is in the middle of an award it was not in
\* before, and that writes no points, keeps the invariant.
LEMMA AwardUntouched ==
  ASSUME AwardInv, UNCHANGED <<level, earned>>, raced' = raced,
         \A w \in Workers : work'[w].pc = "award" =>
                              work[w].pc = "award" /\ work'[w].copy = work[w].copy
  PROVE  AwardInv'
  BY DEF AwardInv, XpIsEarned, SerialAwardsAddUp, LevelOf, Passed

LEMMA IdleIsNoAward ==
  ASSUME Typed, NEW w \in Workers, GoIdle(w)
  PROVE  \A v \in Workers : work'[v].pc = "award" =>
                              work[v].pc = "award" /\ work'[v].copy = work[v].copy /\ v # w
  BY DEF Typed, TypeOK, GoIdle, Idle

\* Without a race the commit writes what the events add up to.
LEMMA SerialCommit ==
  ASSUME Typed, NEW gain \in Nat, SerialAwardsAddUp, ~raced
  PROVE  /\ Updated(level, gain).total = earned + gain
         /\ Updated(level, gain).level = LevelOf(earned + gain)
  <1>1. level.total = earned /\ earned \in Nat
    BY DEF SerialAwardsAddUp, Typed, TypeOK, NoLevel
  <1>2. CASE level = NoLevel
    BY <1>1, <1>2 DEF Updated, NoLevel
  <1>3. CASE level # NoLevel
    BY <1>1, <1>3 DEF Updated
  <1>4. QED
    BY <1>2, <1>3

\* Every step keeps the invariant of the points.
LEMMA NextAward == Typed /\ AwardInv /\ [Next]_vars => AwardInv'
  <1> SUFFICES ASSUME Typed, AwardInv, [Next]_vars PROVE AwardInv'
    OBVIOUS
  <1> USE DEF badgeRows, history
  <1>t. work \in [Workers -> Work] /\ level \in Level /\ earned \in Nat
    BY DEF Typed, TypeOK
  <1>1. ASSUME NEW s \in Sources, Dispatch(s) PROVE AwardInv'
    BY <1>1, AwardUntouched DEF Dispatch
  <1>2. ASSUME NEW w \in Workers, NEW m \in Message, TakeMessage(w, m) PROVE AwardInv'
    BY <1>2, <1>t, AwardUntouched DEF TakeMessage, Idle
  <1>3. ASSUME NEW w \in Workers, ReadLevel(w) PROVE AwardInv'
    <2>1. CASE work[w].job.ref \in Unlisted
      BY <1>3, <2>1, AwardUntouched, IdleIsNoAward DEF ReadLevel, Retry
    <2>2. CASE work[w].job.ref \notin Unlisted
      <3>1. /\ work'[w].pc = "award" /\ work'[w].copy = level
            /\ \A v \in Workers \ {w} : work'[v] = work[v]
            /\ UNCHANGED <<level, earned>>
            /\ raced' = (raced \/ \E v \in Workers \ {w} : work[v].pc = "award")
        BY <1>3, <1>t, <2>2, BusyWorker DEF ReadLevel, Busy
      <3>2. XpIsEarned' /\ SerialAwardsAddUp'
        BY <3>1 DEF AwardInv, XpIsEarned, SerialAwardsAddUp, LevelOf, Passed
      <3>3. \A v \in Workers : work'[v].pc = "award" => work'[v].copy.total <= earned'
        BY <3>1 DEF AwardInv, XpIsEarned
      <3>4. ~raced' => /\ \A v \in Workers : work'[v].pc = "award" => v = w
                       /\ work'[w].copy = level'
        BY <3>1
      <3>5. QED
        BY <3>2, <3>3, <3>4 DEF AwardInv
    <2>3. QED
      BY <2>1, <2>2
  <1>4. ASSUME NEW w \in Workers, CommitAward(w) PROVE AwardInv'
    <2> DEFINE copy == work[w].copy
    <2> DEFINE gain == work[w].gain
    <2>1. copy \in Level /\ gain \in Nat /\ copy.total <= earned
      BY <1>4, BusyWorker DEF CommitAward, Busy, AwardInv
    <2>2. CASE RowConflict(copy)
      BY <1>4, <2>2, AwardUntouched, IdleIsNoAward DEF CommitAward, Retry
    <2>3. CASE ~RowConflict(copy)
      <3>1. /\ level' = Updated(copy, gain) /\ earned' = earned + gain
            /\ raced' = raced
            /\ \A v \in Workers : work'[v].pc = "award" =>
                 work[v].pc = "award" /\ work'[v].copy = work[v].copy /\ v # w
        <4>1. GoIdle(w) \/ work' = [work EXCEPT ![w].pc = "announce"]
          BY <1>4, <2>3 DEF CommitAward
        <4>2. \A v \in Workers : work'[v].pc = "award" =>
                work[v].pc = "award" /\ work'[v].copy = work[v].copy /\ v # w
          BY <1>4, <1>t, <4>1, IdleIsNoAward, BusyWorker DEF CommitAward, Busy
        <4>3. QED
          BY <1>4, <2>3, <4>2 DEF CommitAward, Recorded
      <3>2. copy.total \in Nat /\ level.total \in Nat
        BY <1>t, <2>1 DEF Level, NoLevel
      <3>3. level'.total <= earned'
        BY <1>t, <2>1, <3>1, <3>2 DEF Updated, NoLevel, AwardInv, XpIsEarned
      <3>4. \A v \in Workers : work'[v].pc = "award" => work'[v].copy.total <= earned'
        <4> SUFFICES ASSUME NEW v \in Workers, work'[v].pc = "award"
                     PROVE  work'[v].copy.total <= earned'
          OBVIOUS
        <4>1. work[v].copy.total <= earned /\ work'[v].copy = work[v].copy
          BY <3>1 DEF AwardInv
        <4>2. work[v].copy.total \in Nat
          BY <3>1, BusyWorker DEF Busy, Level, NoLevel
        <4>3. QED
          BY <1>t, <2>1, <3>1, <4>1, <4>2
      <3>5. ASSUME ~raced' PROVE SerialAwardsAddUp' /\ \A v \in Workers : work'[v].pc # "award"
        <4>1. copy = level /\ \A v \in Workers : work'[v].pc # "award"
          BY <1>4, <3>1, <3>5 DEF AwardInv, CommitAward
        <4>2. level'.total = earned' /\ level'.level = LevelOf(earned')
          BY <2>1, <3>1, <3>5, <4>1, SerialCommit DEF AwardInv
        <4>3. LevelOf(earned') # 0
          BY <1>t, <2>1, <3>1, LevelOfTyped
        <4>4. level' # NoLevel
          BY <4>2, <4>3 DEF NoLevel
        <4>5. LevelOf(earned') = LevelOf(earned)'
          BY DEF LevelOf, Passed
        <4>6. QED
          BY <4>1, <4>2, <4>4, <4>5 DEF SerialAwardsAddUp
      <3>6. QED
        BY <3>3, <3>4, <3>5 DEF AwardInv, XpIsEarned, SerialAwardsAddUp
    <2>4. QED
      BY <2>2, <2>3
  <1>5. ASSUME NEW w \in Workers, AnnounceLevel(w) PROVE AwardInv'
    BY <1>5, AwardUntouched, IdleIsNoAward DEF AnnounceLevel
  <1>6. ASSUME NEW w \in Workers, ListBadges(w) PROVE AwardInv'
    BY <1>6, <1>t, BusyWorker, AwardUntouched DEF ListBadges, Busy
  <1>7. ASSUME NEW w \in Workers, NEW b \in Badges, CheckBadge(w, b) PROVE AwardInv'
    <2>1. \A v \in Workers : work'[v].pc = work[v].pc /\ work'[v].copy = work[v].copy
      BY <1>7, <1>t, BusyWorker DEF CheckBadge, Busy
    <2>2. QED
      BY <1>7, <2>1, AwardUntouched DEF CheckBadge
  <1>8. ASSUME NEW w \in Workers, CommitBadges(w) PROVE AwardInv'
    <2>1. GoIdle(w) \/ work' = [work EXCEPT ![w].pc = "reward"]
      BY <1>8 DEF CommitBadges, Retry
    <2>2. \A v \in Workers : work'[v].pc = "award" =>
            work[v].pc = "award" /\ work'[v].copy = work[v].copy
      BY <1>8, <1>t, <2>1, IdleIsNoAward, BusyWorker DEF CommitBadges, Busy
    <2>3. QED
      BY <1>8, <2>2, AwardUntouched DEF CommitBadges
  <1>9. ASSUME NEW w \in Workers, NEW b \in Badges, RewardBadge(w, b) PROVE AwardInv'
    <2>1. GoIdle(w) \/ work' = [work EXCEPT ![w].met = @ \ {b}]
      BY <1>9 DEF RewardBadge
    <2>2. \A v \in Workers : work'[v].pc = "award" =>
            work[v].pc = "award" /\ work'[v].copy = work[v].copy
      BY <1>9, <1>t, <2>1, IdleIsNoAward, BusyWorker DEF RewardBadge, Busy
    <2>3. QED
      BY <1>9, <2>2, AwardUntouched DEF RewardBadge
  <1>10. ASSUME NEW w \in Workers, Fault(w) PROVE AwardInv'
    BY <1>10, AwardUntouched, IdleIsNoAward DEF Fault, Retry
  <1>11. ASSUME NEW b \in Badges, NEW state \in {"active", "inactive"}, SetBadge(b, state)
         PROVE  AwardInv'
    BY <1>11, AwardUntouched DEF SetBadge
  <1>12. ASSUME NEW b \in Badges, DeleteBadge(b) PROVE AwardInv'
    BY <1>12, AwardUntouched DEF DeleteBadge
  <1>13. CASE UNCHANGED vars
    BY <1>13, AwardUntouched DEF vars
  <1>14. QED
    BY <1>1, <1>2, <1>3, <1>4, <1>5, <1>6, <1>7, <1>8, <1>9, <1>10, <1>11, <1>12, <1>13
       DEF Next, Step

\* Nobody is shown more points than were recorded.
THEOREM PointsAreEarned == Spec => []XpIsEarned
  <1>1. AwardInv => XpIsEarned
    BY DEF AwardInv
  <1>2. QED
    BY <1>1, InitTyped, NextTyped, InitAward, NextAward, PTL DEF Spec

\* Awards that do not overlap are all counted, and the level is the right one.
THEOREM PointsAddUp == Spec => []SerialAwardsAddUp
  <1>1. AwardInv => SerialAwardsAddUp
    BY DEF AwardInv
  <1>2. QED
    BY <1>1, InitTyped, NextTyped, InitAward, NextAward, PTL DEF Spec

------------------------------------------------------------------------------
(* Badges                                                                   *)

\* A badge that a worker has found or the user holds is earned; a reward is
\* sent by the one worker whose INSERT of the user_badges row was committed,
\* and no second INSERT will ever be accepted.
BadgeInv ==
  /\ BadgesAreEarned
  /\ \A w \in Workers : \A b \in work[w].met : earned >= MinXp[b]
  /\ OneRewardPerBadge
  /\ \A b \in Badges : rewards[b] > 0 => Refused(b)
  /\ \A w \in Workers : work[w].pc = "reward" =>
       \A b \in work[w].met : rewards[b] = 0 /\ Refused(b)
  /\ \A w, v \in Workers : work[w].pc = "reward" /\ work[v].pc = "reward" =>
       w = v \/ work[w].met \cap work[v].met = {}

LEMMA InitBadge == Init => BadgeInv
  BY NumbersAssumption
     DEF Init, BadgeInv, BadgesAreEarned, OneRewardPerBadge, Idle

\* A step that gives no badge, finds none and rewards none.
LEMMA BadgeUntouched ==
  ASSUME Typed, BadgeInv, earned' \in Nat, earned' >= earned, owned' \subseteq owned,
         \A b \in Badges : Refused(b) => Refused(b)', rewards' = rewards,
         \A w \in Workers : /\ work'[w].met \subseteq work[w].met
                            /\ work'[w].pc = "reward" => work[w].pc = "reward"
  PROVE  BadgeInv'
  <1>1. \A b \in Badges : MinXp[b] \in Nat
    BY NumbersAssumption
  <1>2. earned \in Nat /\ owned \subseteq Badges /\ \A w \in Workers : work[w].met \subseteq Badges
    BY DEF Typed, TypeOK, Work, Busy, Idle
  <1>3. \A b \in Badges : earned >= MinXp[b] => earned' >= MinXp[b]
    BY <1>1, <1>2
  <1>4. BadgesAreEarned' /\ \A w \in Workers : \A b \in work'[w].met : earned' >= MinXp[b]
    BY <1>2, <1>3 DEF BadgeInv, BadgesAreEarned
  <1>5. OneRewardPerBadge' /\ \A b \in Badges : rewards'[b] > 0 => Refused(b)'
    BY DEF BadgeInv, OneRewardPerBadge
  <1>6. \A w \in Workers : work'[w].pc = "reward" =>
          \A b \in work'[w].met : rewards'[b] = 0 /\ Refused(b)'
    BY <1>2 DEF BadgeInv
  <1>7. QED
    BY <1>4, <1>5, <1>6 DEF BadgeInv

\* The effect of becoming idle on what workers have found.
LEMMA IdleFindsNothing ==
  ASSUME Typed, NEW w \in Workers, GoIdle(w)
  PROVE  \A v \in Workers : /\ work'[v].met \subseteq work[v].met
                            /\ work'[v].pc = "reward" => work[v].pc = "reward"
  BY DEF Typed, TypeOK, GoIdle, Idle

\* Every step keeps the invariant of the badges.
LEMMA NextBadge == Typed /\ BadgeInv /\ [Next]_vars => BadgeInv'
  <1> SUFFICES ASSUME Typed, BadgeInv, [Next]_vars PROVE BadgeInv'
    OBVIOUS
  <1> USE DEF badgeRows, history
  <1>t. /\ work \in [Workers -> Work] /\ earned \in Nat /\ earned >= earned
        /\ owned \subseteq Badges /\ rewards \in [Badges -> Nat]
    BY DEF Typed, TypeOK
  <1>1. ASSUME NEW w \in Workers, GoIdle(w), UNCHANGED <<earned, owned, badge, rewards>>
        PROVE  BadgeInv'
    BY <1>1, <1>t, BadgeUntouched, IdleFindsNothing DEF Refused
  <1>2. ASSUME UNCHANGED <<earned, badge, owned, rewards>>,
               \A v \in Workers : /\ work'[v].met \subseteq work[v].met
                                  /\ work'[v].pc = "reward" => work[v].pc = "reward"
        PROVE  BadgeInv'
    BY <1>2, <1>t, BadgeUntouched DEF Refused
  <1>3. ASSUME NEW s \in Sources, Dispatch(s) PROVE BadgeInv'
    BY <1>2, <1>3 DEF Dispatch
  <1>4. ASSUME NEW w \in Workers, NEW m \in Message, TakeMessage(w, m) PROVE BadgeInv'
    BY <1>2, <1>4, <1>t DEF TakeMessage, Idle
  <1>5. ASSUME NEW w \in Workers, ReadLevel(w) PROVE BadgeInv'
    <2>1. CASE work[w].job.ref \in Unlisted
      BY <1>1, <1>5, <2>1 DEF ReadLevel, Retry
    <2>2. CASE work[w].job.ref \notin Unlisted
      BY <1>2, <1>5, <1>t, <2>2, BusyWorker DEF ReadLevel, Busy
    <2>3. QED
      BY <2>1, <2>2
  <1>6. ASSUME NEW w \in Workers, CommitAward(w) PROVE BadgeInv'
    <2>1. work[w] \in Busy /\ work[w].gain \in Nat
      BY <1>6, BusyWorker DEF CommitAward, Busy
    <2>2. earned' \in Nat /\ earned' >= earned
      BY <1>6, <1>t, <2>1 DEF CommitAward, Recorded
    <2>3. GoIdle(w) \/ work' = [work EXCEPT ![w].pc = "announce"]
      BY <1>6 DEF CommitAward, Retry
    <2>4. \A v \in Workers : /\ work'[v].met \subseteq work[v].met
                             /\ work'[v].pc = "reward" => work[v].pc = "reward"
      BY <1>t, <2>1, <2>3, IdleFindsNothing DEF Busy
    <2>5. QED
      BY <1>6, <1>t, <2>2, <2>4, BadgeUntouched DEF CommitAward, Refused
  <1>7. ASSUME NEW w \in Workers, AnnounceLevel(w) PROVE BadgeInv'
    BY <1>1, <1>7 DEF AnnounceLevel
  <1>8. ASSUME NEW w \in Workers, ListBadges(w) PROVE BadgeInv'
    BY <1>2, <1>8, <1>t, BusyWorker DEF ListBadges, Busy
  <1>9. ASSUME NEW w \in Workers, NEW b \in Badges, CheckBadge(w, b) PROVE BadgeInv'
    <2>1. /\ UNCHANGED <<earned, owned, badge, rewards>>
          /\ \A v \in Workers : work'[v].pc = work[v].pc
          /\ \A v \in Workers : work[v].pc = "reward" => work'[v].met = work[v].met
          /\ \A v \in Workers : \A c \in work'[v].met :
               c \in work[v].met \/ (c = b /\ EnoughXp(b))
      BY <1>9, <1>t, BusyWorker DEF CheckBadge, Busy
    <2>2. \A v \in Workers : \A c \in work'[v].met : earned' >= MinXp[c]
      BY <2>1 DEF BadgeInv, EnoughXp
    <2>3. \A c \in Badges : Refused(c) <=> Refused(c)'
      BY <2>1 DEF Refused
    <2>4. BadgesAreEarned' /\ OneRewardPerBadge' /\ \A c \in Badges : rewards'[c] > 0 => Refused(c)'
      BY <2>1, <2>3 DEF BadgeInv, BadgesAreEarned, OneRewardPerBadge
    <2>5. \A v \in Workers : work'[v].pc = "reward" =>
            \A c \in work'[v].met : rewards'[c] = 0 /\ Refused(c)'
      BY <2>1 DEF BadgeInv, Refused
    <2>6. QED
      BY <2>1, <2>2, <2>4, <2>5 DEF BadgeInv
  <1>10. ASSUME NEW w \in Workers, CommitBadges(w) PROVE BadgeInv'
    <2>1. work[w] \in Busy /\ work[w].met \subseteq Badges
      BY <1>10, BusyWorker DEF CommitBadges, Busy
    <2>2. CASE \E b \in work[w].met : Refused(b)
      BY <1>1, <1>10, <2>2 DEF CommitBadges, Retry
    <2>3. CASE \A b \in work[w].met : ~Refused(b)
      <3>1. /\ owned' = owned \cup work[w].met /\ UNCHANGED <<earned, badge, rewards>>
            /\ (GoIdle(w) /\ work[w].met = {}) \/ work' = [work EXCEPT ![w].pc = "reward"]
        BY <1>10, <2>3 DEF CommitBadges
      <3>2. CASE GoIdle(w) /\ work[w].met = {}
        BY <1>1, <3>1, <3>2
      <3>3. CASE work' = [work EXCEPT ![w].pc = "reward"]
        <4>1. \A v \in Workers : /\ work'[v].met = work[v].met
                                 /\ v # w => work'[v].pc = work[v].pc
          BY <1>t, <2>1, <3>3 DEF Busy
        <4>2. \A b \in work[w].met : rewards[b] = 0 /\ Refused(b)'
          BY <1>t, <2>1, <2>3, <3>1 DEF BadgeInv, Refused
        <4>3. \A b \in Badges : Refused(b) => Refused(b)'
          BY <3>1 DEF Refused
        <4>4. BadgesAreEarned' /\ OneRewardPerBadge'
          BY <3>1 DEF BadgeInv, BadgesAreEarned, OneRewardPerBadge
        <4>5. \A v \in Workers : work'[v].pc = "reward" =>
                \A b \in work'[v].met : rewards'[b] = 0 /\ Refused(b)'
          <5>1. \A v \in Workers : work[v].met \subseteq Badges
            BY <1>t DEF Work, Busy, Idle
          <5>2. QED
            BY <3>1, <4>1, <4>2, <4>3, <5>1 DEF BadgeInv
        <4>6. \A v \in Workers \ {w} : work[v].pc = "reward" => work[v].met \cap work[w].met = {}
          BY <2>3 DEF BadgeInv
        <4>7. \A u, v \in Workers : work'[u].pc = "reward" /\ work'[v].pc = "reward" =>
                u = v \/ work'[u].met \cap work'[v].met = {}
          BY <4>1, <4>6 DEF BadgeInv
        <4>8. QED
          BY <3>1, <4>1, <4>3, <4>4, <4>5, <4>7 DEF BadgeInv
      <3>4. QED
        BY <3>1, <3>2, <3>3
    <2>4. QED
      BY <2>2, <2>3
  <1>11. ASSUME NEW w \in Workers, NEW b \in Badges, RewardBadge(w, b) PROVE BadgeInv'
    <2>1. work[w] \in Busy /\ rewards[b] = 0 /\ Refused(b)
      BY <1>11, BusyWorker DEF RewardBadge, BadgeInv
    <2>2. /\ UNCHANGED <<earned, owned, badge>>
          /\ rewards'[b] = 1 /\ \A c \in Badges \ {b} : rewards'[c] = rewards[c]
      BY <1>11, <1>t, <2>1 DEF RewardBadge
    <2>3. GoIdle(w) \/ work' = [work EXCEPT ![w].met = @ \ {b}]
      BY <1>11 DEF RewardBadge
    <2>4. /\ \A v \in Workers : work'[v].met \subseteq work[v].met \ IF v = w THEN {b} ELSE {}
          /\ \A v \in Workers : work'[v].pc = "reward" => work[v].pc = "reward"
      BY <1>11, <1>t, <2>1, <2>3 DEF GoIdle, Idle, Busy
    <2>5. \A v \in Workers : work'[v].pc = "reward" => b \notin work'[v].met
      BY <1>11, <2>4 DEF BadgeInv, RewardBadge
    <2>6. \A c \in Badges : Refused(c) => Refused(c)'
      BY <2>2 DEF Refused
    <2>7. \A v \in Workers : work[v].met \subseteq Badges
      BY <1>t DEF Work, Busy, Idle
    <2>8. BadgesAreEarned' /\ OneRewardPerBadge'
      BY <2>2 DEF BadgeInv, BadgesAreEarned, OneRewardPerBadge
    <2>9. \A c \in Badges : rewards'[c] > 0 => Refused(c)'
      BY <2>1, <2>2, <2>6 DEF BadgeInv
    <2>10. \A v \in Workers : work'[v].pc = "reward" =>
             \A c \in work'[v].met : rewards'[c] = 0 /\ Refused(c)'
      BY <2>2, <2>4, <2>5, <2>6, <2>7 DEF BadgeInv
    <2>11. QED
      BY <2>2, <2>4, <2>8, <2>9, <2>10 DEF BadgeInv
  <1>12. ASSUME NEW w \in Workers, Fault(w) PROVE BadgeInv'
    BY <1>1, <1>12 DEF Fault, Retry
  <1>13. ASSUME NEW b \in Badges, NEW state \in {"active", "inactive"}, SetBadge(b, state)
         PROVE  BadgeInv'
    <2>1. \A c \in Badges : Refused(c) => Refused(c)'
      BY <1>13 DEF SetBadge, Refused, Typed, TypeOK
    <2>2. QED
      BY <1>13, <1>t, <2>1, BadgeUntouched DEF SetBadge
  <1>14. ASSUME NEW b \in Badges, DeleteBadge(b) PROVE BadgeInv'
    <2>1. \A c \in Badges : Refused(c) => Refused(c)'
      BY <1>14 DEF DeleteBadge, Refused, Typed, TypeOK
    <2>2. QED
      BY <1>14, <1>t, <2>1, BadgeUntouched DEF DeleteBadge
  <1>15. CASE UNCHANGED vars
    BY <1>2, <1>15 DEF vars
  <1>16. QED
    BY <1>3, <1>4, <1>5, <1>6, <1>7, <1>8, <1>9, <1>10, <1>11, <1>12, <1>13, <1>14, <1>15
       DEF Next, Step

\* Badges are held by users who earned them.
THEOREM BadgesEarned == Spec => []BadgesAreEarned
  <1>1. BadgeInv => BadgesAreEarned
    BY DEF BadgeInv
  <1>2. QED
    BY <1>1, InitTyped, NextTyped, InitBadge, NextBadge, PTL DEF Spec

\* A badge is rewarded once.
THEOREM RewardedOnce == Spec => []OneRewardPerBadge
  <1>1. BadgeInv => OneRewardPerBadge
    BY DEF BadgeInv
  <1>2. QED
    BY <1>1, InitTyped, NextTyped, InitBadge, NextBadge, PTL DEF Spec

------------------------------------------------------------------------------
(* Races for the first row                                                  *)

\* A retry of an award the enum accepts.
Retried(m) == m \in Award /\ m.ref \notin Unlisted /\ m.tries > 0

\* Without faults such an award is retried once, for by then there is a row:
\* the retry reads it and updates it.
RaceInv ==
  faults = 0 =>
    /\ gaveUp \subseteq Unlisted
    /\ \A m \in Message : Retried(m) /\ queue[m] > 0 => m.tries = 1 /\ level # NoLevel
    /\ \A w \in Workers : work[w].pc # "idle" /\ Retried(work[w].job) =>
         /\ work[w].job.tries = 1 /\ level # NoLevel
         /\ work[w].pc = "award" => work[w].copy # NoLevel

LEMMA InitRace == Init => RaceInv
  BY DEF Init, RaceInv, Retried, Idle

\* A step that sends nothing that was retried.
LEMMA RaceUntouched ==
  ASSUME RaceInv, faults' = faults, gaveUp' = gaveUp, level # NoLevel => level' # NoLevel,
         \A m \in Message : Retried(m) /\ queue'[m] > 0 => queue[m] > 0,
         \A w \in Workers : work'[w].pc # "idle" /\ Retried(work'[w].job) =>
           /\ work[w].pc # "idle" /\ work'[w].job = work[w].job
           /\ work'[w].pc = "award" => work[w].pc = "award" /\ work'[w].copy = work[w].copy
  PROVE  RaceInv'
  BY DEF RaceInv, Retried

\* Messages that are sent for the first time.
LEMMA FirstTry ==
  ASSUME Typed, NEW n \in Message, n.tries = 0, Send(n)
  PROVE  \A m \in Message : Retried(m) /\ queue'[m] > 0 => queue[m] > 0
  BY DEF Typed, TypeOK, Send, Retried

LEMMA OthersStay ==
  ASSUME Typed, NEW w \in Workers, GoIdle(w)
  PROVE  \A v \in Workers : work'[v].pc # "idle" => work'[v] = work[v] /\ v # w
  BY DEF Typed, TypeOK, GoIdle, Idle

\* Every step keeps the invariant of the races.
LEMMA NextRace == Typed /\ RaceInv /\ [Next]_vars => RaceInv'
  <1> SUFFICES ASSUME Typed, RaceInv, [Next]_vars PROVE RaceInv'
    OBVIOUS
  <1> USE DEF badgeRows, history
  <1>t. /\ work \in [Workers -> Work] /\ queue \in [Message -> Nat] /\ level \in Level
        /\ faults \in Nat
    BY DEF Typed, TypeOK
  <1>1. ASSUME NEW w \in Workers, GoIdle(w), UNCHANGED <<faults, gaveUp>>,
               level # NoLevel => level' # NoLevel,
               \A m \in Message : Retried(m) /\ queue'[m] > 0 => queue[m] > 0
        PROVE  RaceInv'
    BY <1>1, OthersStay, RaceUntouched
  <1>2. ASSUME NEW w \in Workers, work[w].pc # "idle",
               UNCHANGED <<faults, gaveUp, queue>>, level # NoLevel => level' # NoLevel,
               \A v \in Workers \ {w} : work'[v] = work[v],
               work'[w].job = work[w].job,
               work'[w].pc = "award" => work[w].pc = "award" /\ work'[w].copy = work[w].copy
        PROVE  RaceInv'
    BY <1>2, RaceUntouched
  <1>3. ASSUME NEW s \in Sources, Dispatch(s) PROVE RaceInv'
    <2>1. AwardFor(s) \in Message /\ AwardFor(s).tries = 0
      BY DEF AwardFor, Message, Award, Refs, MaxRetries
    <2>2. QED
      BY <1>3, <2>1, FirstTry, RaceUntouched DEF Dispatch
  <1>4. ASSUME NEW w \in Workers, NEW m \in Message, TakeMessage(w, m) PROVE RaceInv'
    <2>1. /\ work'[w].job = m /\ work'[w].pc # "award"
          /\ \A v \in Workers \ {w} : work'[v] = work[v]
          /\ queue[m] > 0 /\ \A n \in Message : queue'[n] > 0 => queue[n] > 0
          /\ UNCHANGED <<faults, gaveUp, level>>
      BY <1>4, <1>t DEF TakeMessage, Idle
    <2>2. QED
      BY <2>1 DEF RaceInv, Retried
  <1>5. ASSUME NEW w \in Workers, ReadLevel(w) PROVE RaceInv'
    <2>1. work[w] \in Busy /\ work[w].job \in Award
      BY <1>5, BusyWorker DEF ReadLevel, Typed, WorkShape
    <2>2. CASE work[w].job.ref \in Unlisted
      <3>1. \A v \in Workers : work'[v].pc # "idle" => work'[v] = work[v]
        BY <1>5, <2>2, OthersStay DEF ReadLevel, Retry
      <3>2. NextTry(work[w].job) = [work[w].job EXCEPT !.tries = @ + 1]
        BY DEF NextTry
      <3>3. ~Retried(NextTry(work[w].job))
        BY <2>1, <2>2, <3>2 DEF Retried, Award
      <3>4. \A m \in Message : Retried(m) /\ queue'[m] > 0 => queue[m] > 0
        BY <1>5, <1>t, <2>2, <3>3 DEF ReadLevel, Retry, Send
      <3>5. gaveUp \subseteq Unlisted => gaveUp' \subseteq Unlisted
        BY <1>5, <2>2 DEF ReadLevel, Retry
      <3>6. QED
        BY <1>5, <2>2, <3>1, <3>4, <3>5 DEF ReadLevel, RaceInv
    <2>3. CASE work[w].job.ref \notin Unlisted
      <3>1. /\ work'[w].job = work[w].job /\ work'[w].copy = level
            /\ \A v \in Workers \ {w} : work'[v] = work[v]
            /\ UNCHANGED <<queue, gaveUp, level, faults>>
        BY <1>5, <1>t, <2>1, <2>3 DEF ReadLevel, Busy
      <3>2. work[w].pc # "idle"
        BY <1>5 DEF ReadLevel
      <3>3. QED
        BY <3>1, <3>2 DEF RaceInv
    <2>4. QED
      BY <2>2, <2>3
  <1>6. ASSUME NEW w \in Workers, CommitAward(w) PROVE RaceInv'
    <2>1. work[w] \in Busy /\ work[w].job \in Award /\ work[w].copy \in Level /\ work[w].gain \in Nat
      BY <1>6, BusyWorker DEF CommitAward, Typed, WorkShape, Busy
    <2>2. CASE RowConflict(work[w].copy)
      <3>1. work[w].copy = NoLevel /\ level # NoLevel /\ level' = level /\ faults' = faults
        BY <1>6, <2>2 DEF CommitAward, RowConflict
      <3>2. CASE faults = 0 /\ work[w].job.ref \notin Unlisted
        <4>1. work[w].job.tries = 0
          BY <1>6, <2>1, <3>1, <3>2 DEF RaceInv, Retried, CommitAward, Award
        <4>2. NextTry(work[w].job) \in Message /\ NextTry(work[w].job).tries = 1
          BY <2>1, <4>1 DEF NextTry, Message, Award, MaxRetries
        <4>3. Send(NextTry(work[w].job)) /\ gaveUp' = gaveUp /\ GoIdle(w)
          BY <1>6, <2>2, <4>1 DEF CommitAward, Retry, MaxRetries
        <4>4. \A m \in Message : queue'[m] > 0 => queue[m] > 0 \/ m.tries = 1
          BY <1>t, <4>2, <4>3 DEF Send
        <4>5. \A v \in Workers : work'[v].pc # "idle" => work'[v] = work[v]
          BY <4>3, OthersStay
        <4>6. QED
          BY <3>1, <3>2, <4>3, <4>4, <4>5 DEF RaceInv
      <3>3. CASE work[w].job.ref \in Unlisted
        <4>1. \A v \in Workers : work'[v].pc # "idle" => work'[v] = work[v]
          BY <1>6, <2>2, OthersStay DEF CommitAward, Retry
        <4>2. ~Retried(NextTry(work[w].job))
          BY <2>1, <3>3 DEF Retried, Award, NextTry
        <4>3. \A m \in Message : Retried(m) /\ queue'[m] > 0 => queue[m] > 0
          BY <1>6, <1>t, <2>2, <4>2 DEF CommitAward, Retry, Send
        <4>4. gaveUp \subseteq Unlisted => gaveUp' \subseteq Unlisted
          BY <1>6, <2>2, <3>3 DEF CommitAward, Retry
        <4>5. QED
          BY <3>1, <4>1, <4>3, <4>4 DEF RaceInv
      <3>4. CASE faults # 0
        BY <3>1, <3>4 DEF RaceInv
      <3>5. QED
        BY <3>2, <3>3, <3>4
    <2>3. CASE ~RowConflict(work[w].copy)
      <3>1. level' # NoLevel /\ UNCHANGED <<queue, gaveUp, faults>>
        BY <1>6, <2>1, <2>3, UpdatedTyped DEF CommitAward, Typed, WorkShape
      <3>2. GoIdle(w) \/ work' = [work EXCEPT ![w].pc = "announce"]
        BY <1>6, <2>3 DEF CommitAward
      <3>3. CASE GoIdle(w)
        BY <1>1, <3>1, <3>3
      <3>4. CASE work' = [work EXCEPT ![w].pc = "announce"]
        BY <1>2, <1>6, <1>t, <2>1, <3>1, <3>4 DEF CommitAward, Busy
      <3>5. QED
        BY <3>2, <3>3, <3>4
    <2>4. QED
      BY <2>2, <2>3
  <1>7. ASSUME NEW w \in Workers, AnnounceLevel(w) PROVE RaceInv'
    <2>1. Evaluation \in Message /\ Evaluation.tries = 0
      BY DEF Evaluation, Message, MaxRetries
    <2>2. QED
      BY <1>1, <1>7, <2>1, FirstTry DEF AnnounceLevel
  <1>8. ASSUME NEW w \in Workers, ListBadges(w) PROVE RaceInv'
    BY <1>2, <1>8, <1>t, BusyWorker DEF ListBadges, Busy
  <1>9. ASSUME NEW w \in Workers, NEW b \in Badges, CheckBadge(w, b) PROVE RaceInv'
    <2>1. /\ work'[w].job = work[w].job /\ work'[w].pc = "check" /\ work[w].pc # "idle"
          /\ \A v \in Workers \ {w} : work'[v] = work[v]
      BY <1>9, <1>t, BusyWorker DEF CheckBadge, Busy
    <2>2. QED
      BY <1>2, <1>9, <2>1 DEF CheckBadge
  <1>10. ASSUME NEW w \in Workers, work[w].pc \in {"list", "check", "reward"}, Retry(w),
                UNCHANGED <<level, faults>>
         PROVE  RaceInv'
    <2>1. work[w].job \in Message /\ work[w].job.task = "badges"
      BY <1>10, BusyWorker DEF Typed, WorkShape
    <2>2. ~Retried(NextTry(work[w].job)) /\ gaveUp' = gaveUp
      BY <1>10, <2>1 DEF Retried, NextTry, Award, Message, Retry
    <2>3. \A m \in Message : Retried(m) /\ queue'[m] > 0 => queue[m] > 0
      BY <1>10, <1>t, <2>2 DEF Retry, Send
    <2>4. GoIdle(w)
      BY <1>10 DEF Retry
    <2>5. QED
      BY <1>1, <1>10, <2>2, <2>3, <2>4
  <1>11. ASSUME NEW w \in Workers, CommitBadges(w) PROVE RaceInv'
    <2>1. CASE \E b \in work[w].met : Refused(b)
      BY <1>10, <1>11, <2>1 DEF CommitBadges
    <2>2. CASE ~ \E b \in work[w].met : Refused(b)
      <3>1. UNCHANGED <<queue, gaveUp, level, faults>>
        BY <1>11, <2>2 DEF CommitBadges
      <3>2. CASE GoIdle(w)
        BY <1>1, <3>1, <3>2
      <3>3. CASE work' = [work EXCEPT ![w].pc = "reward"]
        BY <1>2, <1>11, <1>t, <3>1, <3>3, BusyWorker DEF CommitBadges, Busy
      <3>4. QED
        BY <1>11, <2>2, <3>2, <3>3 DEF CommitBadges
    <2>3. QED
      BY <2>1, <2>2
  <1>12. ASSUME NEW w \in Workers, NEW b \in Badges, RewardBadge(w, b) PROVE RaceInv'
    <2>1. AwardFor(b) \in Message /\ AwardFor(b).tries = 0
      BY DEF AwardFor, Message, Award, Refs, MaxRetries
    <2>2. \A m \in Message : Retried(m) /\ queue'[m] > 0 => queue[m] > 0
      BY <1>12, <2>1, FirstTry DEF RewardBadge
    <2>3. \A v \in Workers : work'[v].pc # "idle" =>
            /\ work[v].pc # "idle" /\ work'[v].job = work[v].job
            /\ work'[v].pc = work[v].pc /\ work'[v].copy = work[v].copy
      <3>1. CASE GoIdle(w)
        BY <3>1, OthersStay
      <3>2. CASE work' = [work EXCEPT ![w].met = @ \ {b}]
        BY <1>t, <3>2, BusyWorker DEF Busy
      <3>3. QED
        BY <1>12, <3>1, <3>2 DEF RewardBadge
    <2>4. QED
      BY <1>12, <2>2, <2>3, RaceUntouched DEF RewardBadge
  <1>13. ASSUME NEW w \in Workers, Fault(w) PROVE RaceInv'
    BY <1>13, <1>t DEF Fault, RaceInv
  <1>14. ASSUME NEW b \in Badges, NEW state \in {"active", "inactive"}, SetBadge(b, state)
         PROVE  RaceInv'
    BY <1>14, RaceUntouched DEF SetBadge
  <1>15. ASSUME NEW b \in Badges, DeleteBadge(b) PROVE RaceInv'
    BY <1>15, RaceUntouched DEF DeleteBadge
  <1>16. CASE UNCHANGED vars
    BY <1>16, RaceUntouched DEF vars
  <1>17. QED
    BY <1>3, <1>4, <1>5, <1>6, <1>7, <1>8, <1>9, <1>11, <1>12, <1>13, <1>14, <1>15, <1>16
       DEF Next, Step

\* Concurrency alone loses no award.
THEOREM RacesAreHarmless == Spec => []RacesLoseNoAward
  <1>1. RaceInv => RacesLoseNoAward
    BY DEF RaceInv, RacesLoseNoAward
  <1>2. QED
    BY <1>1, InitTyped, NextTyped, InitRace, NextRace, PTL DEF Spec
==============================================================================
