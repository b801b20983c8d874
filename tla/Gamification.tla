---------------------------- MODULE Gamification ----------------------------
(***************************************************************************)
(* Experience points, levels and badges: award_xp_task and                 *)
(* evaluate_badges_task (app/tasks/gamification.py) on workers that run    *)
(* concurrently, with the statements of app/services/gamification/xp.py    *)
(* and badges.py as actions of their own, and the administrator's badge    *)
(* operations.  A task belongs to one user and touches that user's rows    *)
(* only, so there is one user.                                             *)
(*                                                                         *)
(* Abstracted: a message delay, for workers may take any message; the      *)
(* conditions of a badge other than min_xp, which may or may not hold (an  *)
(* update_badge that changes the conditions of a badge is left out); the   *)
(* tenant's table of amounts (a CONSTANT) and the special event that runs  *)
(* (one of the Multipliers).                                               *)
(***************************************************************************)
EXTENDS Naturals, Sequences, FiniteSets

CONSTANTS
  Workers,      \* worker processes
  Sources,      \* what experience points are sent for: lessons, battles ...
  Unlisted,     \* the sources with an action the enum xp_action_type lacks
  Badges,       \* badges with rule_event level_up, the only trigger sent
  XP,           \* [Sources \cup Badges -> amount]
  Multipliers,  \* what special events may multiply by, and 1
  Thresholds,   \* level_thresholds of the tenant
  MinXp,        \* [Badges -> min_xp condition]
  MaxFaults,    \* bound on database and broker faults and on crashes
  None          \* absent value

Refs == Sources \cup Badges

ASSUME SourcesAssumption == Unlisted \subseteq Sources /\ Sources \cap Badges = {}
ASSUME NumbersAssumption ==
  /\ XP \in [Refs -> Nat] /\ MinXp \in [Badges -> Nat]
  /\ Multipliers \subseteq Nat /\ Thresholds \in Seq(Nat)
ASSUME NoneAssumption == None \notin Refs

VARIABLES
  queue,   \* [Message -> how many of it wait or are delayed]
  work,    \* [Workers -> what the worker does]
  level,   \* the user_levels row
  earned,  \* the sum of the xp_events rows
  owned,   \* the user_badges rows
  badge,   \* [Badges -> state of the badges row]
  asked,   \* sources award_xp_task was sent for
  faults,  \* faults so far
  rewards, \* history: [Badges -> award_xp_task messages sent for the badge]
  raced,   \* history: two awards were between their read and their commit
  gaveUp   \* history: what the award tasks that used up their retries were for

badgeRows == <<owned, badge>>
history == <<rewards, raced, gaveUp>>
vars == <<queue, work, level, earned, badgeRows, asked, faults, history>>

\* Faulty variant: no retry at all.
NoRetries == 0

MaxRetries == 3

Award == [task : {"award"}, ref : Refs, tries : 0 .. MaxRetries]
Message == Award \cup [task : {"badges"}, ref : {None}, tries : 0 .. MaxRetries]

AwardFor(ref) == [task |-> "award", ref |-> ref, tries |-> 0]
Evaluation == [task |-> "badges", ref |-> None, tries |-> 0]

\* A row, or a session's copy of it; level 0 stands for no row.
NoLevel == [total |-> 0, level |-> 0]
Level == [total : Nat, level : Nat \ {0}] \cup {NoLevel}

Idle == [pc |-> "idle", job |-> None, copy |-> NoLevel, gain |-> 0, todo |-> {}, met |-> {}]

\* The first three control points are those of award_xp_task.
Busy ==
  [pc : {"levels", "award", "announce", "list", "check", "reward"}, job : Message,
   copy : Level, gain : Nat, todo : SUBSET Badges, met : SUBSET Badges]
Work == Busy \cup {Idle}

TypeOK ==
  /\ queue \in [Message -> Nat]
  /\ work \in [Workers -> Work]
  /\ level \in Level
  /\ earned \in Nat
  /\ owned \subseteq Badges
  /\ badge \in [Badges -> {"none", "active", "inactive", "deleted"}]
  /\ asked \subseteq Sources
  /\ faults \in Nat
  /\ rewards \in [Badges -> Nat]
  /\ raced \in BOOLEAN
  /\ gaveUp \subseteq Refs

Init ==
  /\ queue = [m \in Message |-> 0]
  /\ work = [w \in Workers |-> Idle]
  /\ level = NoLevel
  /\ earned = 0
  /\ owned = {}
  /\ badge = [b \in Badges |-> "none"]
  /\ asked = {}
  /\ faults = 0
  /\ rewards = [b \in Badges |-> 0]
  /\ raced = FALSE
  /\ gaveUp = {}

------------------------------------------------------------------------------
(* Messages and retries                                                     *)

Send(m) == queue' = [queue EXCEPT ![m] = @ + 1]

\* Something happened that is worth experience points.
Dispatch(s) ==
  /\ s \notin asked
  /\ asked' = asked \cup {s}
  /\ Send(AwardFor(s))
  /\ UNCHANGED <<work, level, earned, badgeRows, faults, history>>

\* A message is acknowledged as it is taken.
TakeMessage(w, m) ==
  /\ work[w] = Idle
  /\ queue[m] > 0
  /\ queue' = [queue EXCEPT ![m] = @ - 1]
  /\ work' = [work EXCEPT ![w].job = m,
                          ![w].pc = IF m.task = "award" THEN "levels" ELSE "list"]
  /\ UNCHANGED <<level, earned, badgeRows, asked, faults, history>>

GoIdle(w) == work' = [work EXCEPT ![w] = Idle]

\* Faulty variant: every retry looks like the first.
NextTryForgets(m) == [m EXCEPT !.tries = 1]

NextTry(m) == [m EXCEPT !.tries = @ + 1]

\* The exception handler of both tasks; the transaction is rolled back.
Retry(w) ==
  LET m == work[w].job
  IN  /\ GoIdle(w)
      /\ IF m.tries < MaxRetries
           THEN Send(NextTry(m)) /\ UNCHANGED gaveUp
           ELSE /\ gaveUp' = IF m.task = "award" THEN gaveUp \cup {m.ref} ELSE gaveUp
                /\ UNCHANGED queue

------------------------------------------------------------------------------
(* award_xp_task                                                            *)

\* Thresholds are passed one by one, up to the first that is not reached.
Passed(total) == {i \in DOMAIN Thresholds : \A j \in 1 .. i : total >= Thresholds[j]}

\* _compute_level
LevelOf(total) == IF Passed(total) = {} THEN 1 ELSE Cardinality(Passed(total))

\* The session INSERTs the event, which the enum may refuse, and reads the
\* user_levels row.
ReadLevel(w) ==
  /\ work[w].pc = "levels"
  /\ IF work[w].job.ref \in Unlisted
       THEN Retry(w) /\ UNCHANGED raced
       ELSE /\ \E k \in Multipliers :
                 work' = [work EXCEPT ![w].pc = "award", ![w].copy = level,
                                      ![w].gain = XP[work[w].job.ref] * k]
            /\ raced' = (raced \/ \E v \in Workers \ {w} : work[v].pc = "award")
            /\ UNCHANGED <<queue, gaveUp>>
  /\ UNCHANGED <<level, earned, badgeRows, asked, faults, rewards>>

\* The INSERT of a first row fails when somebody else's row is there.
RowConflict(copy) == copy = NoLevel /\ level # NoLevel

\* Faulty variant: the running total goes to the row without the event.
RecordedNot(gain) == 0

\* What the award adds to the events.
Recorded(gain) == gain

\* Faulty variant: the level is computed before the points are added.
UpdatedEarly(copy, gain) ==
  [total |-> copy.total + gain, level |-> LevelOf(copy.total)]

\* The row after the UPDATE: the ORM writes the total and the level if they
\* differ from the session's copy, as absolute values.
Updated(copy, gain) ==
  LET total == copy.total + gain
      old == IF copy = NoLevel THEN [total |-> 0, level |-> 1] ELSE copy
      row == IF copy = NoLevel THEN old ELSE level
  IN  [total |-> IF total # old.total THEN total ELSE row.total,
       level |-> IF LevelOf(total) # old.level THEN LevelOf(total) ELSE row.level]

LeveledUp(copy, gain) ==
  LevelOf(copy.total + gain) > IF copy = NoLevel THEN 1 ELSE copy.level

\* Event and row are one transaction.
CommitAward(w) ==
  LET copy == work[w].copy
      gain == work[w].gain
  IN  /\ work[w].pc = "award"
      /\ IF RowConflict(copy)
           THEN Retry(w) /\ UNCHANGED <<level, earned>>
           ELSE /\ level' = Updated(copy, gain)
                /\ earned' = earned + Recorded(gain)
                /\ IF LeveledUp(copy, gain)
                     THEN work' = [work EXCEPT ![w].pc = "announce"]
                     ELSE GoIdle(w)
                /\ UNCHANGED <<queue, gaveUp>>
      /\ UNCHANGED <<badgeRows, asked, faults, rewards, raced>>

\* evaluate_badges_task.delay, after the commit.
AnnounceLevel(w) ==
  /\ work[w].pc = "announce"
  /\ Send(Evaluation)
  /\ GoIdle(w)
  /\ UNCHANGED <<level, earned, badgeRows, asked, faults, history>>

------------------------------------------------------------------------------
(* evaluate_badges_task                                                     *)

ListBadges(w) ==
  /\ work[w].pc = "list"
  /\ work' = [work EXCEPT ![w].pc = "check",
                          ![w].todo = {b \in Badges : badge[b] = "active"}]
  /\ UNCHANGED <<queue, level, earned, badgeRows, asked, faults, history>>

EnoughXp(b) == earned >= MinXp[b]

\* One turn of the loop.  The other conditions of the badge may fail.
CheckBadge(w, b) ==
  /\ work[w].pc = "check" /\ b \in work[w].todo
  /\ \E others \in BOOLEAN :
       work' = [work EXCEPT ![w].todo = @ \ {b},
                            ![w].met = IF b \notin owned /\ EnoughXp(b) /\ others
                                         THEN @ \cup {b} ELSE @]
  /\ UNCHANGED <<queue, level, earned, badgeRows, asked, faults, history>>

\* Faulty variant: the unique index on user and badge is missing.
RefusedWithoutIndex(b) == badge[b] = "deleted"

\* The INSERT of a user_badges row violates the unique index or the foreign key.
Refused(b) == b \in owned \/ badge[b] = "deleted"

CommitBadges(w) ==
  LET met == work[w].met
  IN  /\ work[w].pc = "check" /\ work[w].todo = {}
      /\ IF \E b \in met : Refused(b)
           THEN Retry(w) /\ UNCHANGED owned
           ELSE /\ owned' = owned \cup met
                /\ IF met = {} THEN GoIdle(w) ELSE work' = [work EXCEPT ![w].pc = "reward"]
                /\ UNCHANGED <<queue, gaveUp>>
      /\ UNCHANGED <<level, earned, badge, asked, faults, rewards, raced>>

\* award_xp_task.delay for one of the badges, after the commit.
RewardBadge(w, b) ==
  /\ work[w].pc = "reward" /\ b \in work[w].met
  /\ Send(AwardFor(b))
  /\ rewards' = [rewards EXCEPT ![b] = @ + 1]
  /\ IF work[w].met = {b} THEN GoIdle(w) ELSE work' = [work EXCEPT ![w].met = @ \ {b}]
  /\ UNCHANGED <<level, earned, badgeRows, asked, faults, raced, gaveUp>>

------------------------------------------------------------------------------
(* Faults and administrators                                                *)

\* A statement or a send raises, and the task is retried; or the worker dies,
\* or the broker takes no retry either, and the message is gone.
Fault(w) ==
  /\ work[w].pc # "idle"
  /\ faults < MaxFaults
  /\ faults' = faults + 1
  /\ \/ Retry(w)
     \/ GoIdle(w) /\ UNCHANGED <<queue, gaveUp>>
  /\ UNCHANGED <<level, earned, badgeRows, asked, rewards, raced>>

\* create_badge and update_badge.  A new badge is a new row.
SetBadge(b, state) ==
  /\ badge[b] # "deleted" /\ state \in {"active", "inactive"} \ {badge[b]}
  /\ badge' = [badge EXCEPT ![b] = state]
  /\ UNCHANGED <<queue, work, level, earned, owned, asked, faults, history>>

\* delete_badge; the user_badges rows go with it.
DeleteBadge(b) ==
  /\ badge[b] \in {"active", "inactive"}
  /\ badge' = [badge EXCEPT ![b] = "deleted"]
  /\ owned' = owned \ {b}
  /\ UNCHANGED <<queue, work, level, earned, asked, faults, history>>

Step(w) ==
  \/ ReadLevel(w)
  \/ CommitAward(w)
  \/ AnnounceLevel(w)
  \/ ListBadges(w)
  \/ \E b \in Badges : CheckBadge(w, b) \/ RewardBadge(w, b)
  \/ CommitBadges(w)

Next ==
  \/ \E s \in Sources : Dispatch(s)
  \/ \E w \in Workers :
       Step(w) \/ Fault(w) \/ \E m \in Message : TakeMessage(w, m)
  \/ \E b \in Badges :
       DeleteBadge(b) \/ \E state \in {"active", "inactive"} : SetBadge(b, state)

Spec == Init /\ [][Next]_vars

\* Workers take messages and run what they took; nobody need dispatch anything.
FairSpec ==
  /\ Spec
  /\ \A w \in Workers : WF_vars(Step(w)) /\ WF_vars(\E m \in Message : TakeMessage(w, m))

------------------------------------------------------------------------------
(* Correctness                                                              *)

\* The total shown to a user never exceeds what the append-only events add up
\* to, in whatever order awards read, commit, fail and are retried.
XpIsEarned == level.total <= earned

\* As long as no two awards overlapped, crashes, retries and replays
\* notwithstanding, the total is the sum of the events and the level is the
\* one that sum deserves.
SerialAwardsAddUp ==
  ~raced => IF level = NoLevel THEN earned = 0
            ELSE level.total = earned /\ level.level = LevelOf(earned)

\* Concurrent evaluations and retries send the reward of a badge once at most.
OneRewardPerBadge == \A b \in Badges : rewards[b] <= 1

\* A badge is held by a user whose events reach its min_xp.
BadgesAreEarned == \A b \in owned : earned >= MinXp[b]

\* The race for the first user_levels row costs an award a retry, never the
\* award: without faults only actions the enum lacks are given up.
RacesLoseNoAward == faults = 0 => gaveUp \subseteq Unlisted

\* Awards raise levels, levels are evaluated for badges, badges are rewarded
\* with awards: that circle comes to an end.
Quiet == (\A m \in Message : queue[m] = 0) /\ \A w \in Workers : work[w] = Idle
ChainEnds == <>[]Quiet
==============================================================================
