-------------------------- MODULE QuizBattleProofs --------------------------
(***************************************************************************)
(* Proofs about QuizBattle for every set of users, scores and requests:    *)
(* type correctness, and that the result of a battle follows from the      *)
(* answers, never changes, is rewarded to the winner alone, and comes      *)
(* about however the answers cross.                                        *)
(***************************************************************************)
EXTENDS QuizBattle, FiniteSetTheorems, TLAPS

\* What a request carries at each control point, and that rows of a battle
\* are there only if the battle is.
RequestShape ==
  /\ \A r \in Requests :
       /\ pc[r] # "none" => battle # NoBattle /\ user[r] \in Players
       /\ pc[r] \in {"check", "insert"} => score[r] \in Scores
       /\ pc[r] = "complete" => verdict[r] \in Players \cup {None}
       /\ pc[r] = "award" => verdict[r] \in Players
  /\ battle # NoBattle => battle.challenger # battle.opponent
  /\ battle = NoBattle => answers = {}
  /\ IsFiniteSet(answers)

Typed == TypeOK /\ RequestShape

LEMMA InitTyped == Init => Typed
  <1> SUFFICES ASSUME Init PROVE Typed
    OBVIOUS
  <1>1. IsFiniteSet({})
    BY FS_EmptySet
  <1>2. QED
    BY <1>1 DEF Init, Typed, TypeOK, RequestShape, Battle, NoBattle

\* A row with the players of the battle.
SamePlayers(new) ==
  /\ new \in Battle /\ new # NoBattle
  /\ new.challenger = battle.challenger /\ new.opponent = battle.opponent

\* An UPDATE of an existing battle keeps the players and the type.
LEMMA StatusUpdated ==
  ASSUME Typed, battle # NoBattle, NEW s \in Status
  PROVE  SamePlayers([battle EXCEPT !.status = s])
  BY NoneAssumption DEF Typed, TypeOK, Battle, NoBattle, Status, SamePlayers

LEMMA ResultUpdated ==
  ASSUME Typed, battle # NoBattle, NEW s \in Status, NEW w \in Users \cup {None}
  PROVE  SamePlayers([battle EXCEPT !.status = s, !.winner = w])
  BY NoneAssumption DEF Typed, TypeOK, Battle, NoBattle, Status, SamePlayers

LEMMA WinnerTyped == ASSUME Typed, battle # NoBattle PROVE battle.winner \in Users \cup {None}
  BY DEF Typed, TypeOK, Battle

LEMMA PlayersAreUsers == ASSUME Typed, battle # NoBattle PROVE Players \subseteq Users
  BY DEF Typed, TypeOK, Battle, Players

LEMMA WinnerIsPlayer ==
  ASSUME Typed, NEW a \in AnswersOf(battle.challenger), NEW b \in AnswersOf(battle.opponent)
  PROVE  Winner(a, b) \in Players \cup {None}
  BY DEF Winner, AnswersOf, Players

\* Every step keeps the variables in their types and the requests in shape.
LEMMA NextTyped == Typed /\ [Next]_vars => Typed'
  <1> SUFFICES ASSUME Typed, [Next]_vars PROVE Typed'
    OBVIOUS
  <1> USE DEF Typed, TypeOK, RequestShape, session, Running
  <1>1. ASSUME NEW c \in Users, NEW o \in Users, CreateBattle(c, o) PROVE Typed'
    BY <1>1, NoneAssumption DEF CreateBattle, Battle, NoBattle, Status
  <1>2. CASE TimePasses
    BY <1>2 DEF TimePasses, Players
  <1>3. ASSUME NEW r \in Requests, NEW u \in Users, View(r, u) PROVE Typed'
    <2>1. battle.status \in Status /\ Players \subseteq Users
      BY <1>3, PlayersAreUsers DEF View, Load, Battle, Status
    <2>2. QED
      BY <1>3, <2>1 DEF View, Load, Goto, Players
  <1>4. ASSUME NEW r \in Requests, NEW u \in Users, NEW s \in Scores, Submit(r, u, s)
        PROVE  Typed'
    <2>1. battle.status \in Status /\ Players \subseteq Users
      BY <1>4, PlayersAreUsers DEF Submit, Load, Battle, Status
    <2>2. QED
      BY <1>4, <2>1 DEF Submit, Load, Goto, Players
  <1>5. ASSUME NEW r \in Requests, WriteExpired(r) PROVE Typed'
    <2>1. battle # NoBattle
      BY <1>5 DEF WriteExpired
    <2>2. SamePlayers(battle')
      BY <1>5, <2>1, StatusUpdated DEF WriteExpired, Status
    <2>3. QED
      BY <1>5, <2>1, <2>2 DEF SamePlayers, WriteExpired, Goto, Players
  <1>6. ASSUME NEW r \in Requests, CheckAnswered(r) PROVE Typed'
    BY <1>6 DEF CheckAnswered, Goto, Players
  <1>7. ASSUME NEW r \in Requests, InsertAnswer(r) PROVE Typed'
    <2>1. battle # NoBattle
      BY <1>7 DEF InsertAnswer
    <2>2. SamePlayers(battle')
      <3>1. CASE copy[r] = "pending"
        BY <1>7, <2>1, <3>1, StatusUpdated DEF InsertAnswer, Status
      <3>2. CASE copy[r] # "pending"
        BY <1>7, <2>1, <3>2 DEF InsertAnswer, SamePlayers
      <3>3. QED
        BY <3>1, <3>2
    <2>3. answers' \subseteq Answer
      BY <1>7, <2>1, PlayersAreUsers DEF InsertAnswer, Answer
    <2>4. IsFiniteSet(answers')
      BY <1>7, FS_AddElement DEF InsertAnswer
    <2>5. QED
      BY <1>7, <2>1, <2>2, <2>3, <2>4 DEF InsertAnswer, SamePlayers, Goto, Players, Status
  <1>8. ASSUME NEW r \in Requests, CountAnswers(r) PROVE Typed'
    <2>1. battle # NoBattle /\ Players \subseteq Users
      BY <1>8, PlayersAreUsers DEF CountAnswers
    <2>2. CASE verdict' = verdict /\ Goto(r, "ended")
      BY <1>8, <2>2 DEF CountAnswers, Goto, Players
    <2>3. CASE \E a \in AnswersOf(battle.challenger), b \in AnswersOf(battle.opponent) :
                 verdict' = [verdict EXCEPT ![r] = Winner(a, b)] /\ Goto(r, "complete")
      <3>1. PICK w \in Players \cup {None} :
              verdict' = [verdict EXCEPT ![r] = w] /\ Goto(r, "complete")
        BY <2>3, WinnerIsPlayer
      <3>2. QED
        BY <1>8, <2>1, <3>1 DEF CountAnswers, Goto, Players
    <2>4. QED
      BY <1>8, <2>2, <2>3 DEF CountAnswers
  <1>9. ASSUME NEW r \in Requests, CompleteBattle(r) PROVE Typed'
    <2>1. battle # NoBattle /\ Players \subseteq Users
      BY <1>9, PlayersAreUsers DEF CompleteBattle
    <2>2. SamePlayers(battle')
      BY <1>9, <2>1, ResultUpdated, WinnerTyped DEF CompleteBattle, Status
    <2>3. QED
      BY <1>9, <2>1, <2>2 DEF CompleteBattle, SamePlayers, Goto, Players, Status
  <1>10. ASSUME NEW r \in Requests, SendAward(r) PROVE Typed'
    <2>1. Awarded(r) \in Users
      BY <1>10, PlayersAreUsers DEF SendAward, Awarded
    <2>2. QED
      BY <1>10, <2>1 DEF SendAward, Goto, Players
  <1>11. ASSUME NEW r \in Requests, RequestFails(r) PROVE Typed'
    BY <1>11 DEF RequestFails, Goto, Players
  <1>12. CASE UNCHANGED vars
    BY <1>12 DEF vars, Players
  <1>13. QED
    BY <1>1, <1>2, <1>3, <1>4, <1>5, <1>6, <1>7, <1>8, <1>9, <1>10, <1>11, <1>12
       DEF Next, Run

\* The type invariant, for every instance.
THEOREM TypeCorrect == Spec => []TypeOK
  <1>1. Typed => TypeOK
    BY DEF Typed
  <1>2. QED
    BY <1>1, InitTyped, NextTyped, PTL DEF Spec

------------------------------------------------------------------------------
(* The result of a battle                                                   *)

\* Requests that have computed a result.
Decided == {r \in Requests : pc[r] \in {"complete", "award"}}

\* What is known of the result once the answers a and b have given it: every
\* request that computed one, and the row, agree.
GivenBy(a, b) ==
  /\ \A r \in Decided : verdict[r] = Winner(a, b)
  /\ battle.winner \in {None, Winner(a, b)}
  /\ battle.status = "completed" => battle.winner = Winner(a, b)

Undecided == Decided = {} /\ battle.winner = None /\ battle.status # "completed"

\* The inductive invariant.  The two answers are named once, so that further
\* answers, which the lookup for an earlier one may let through, do not matter.
ResultInv ==
  /\ \/ Undecided
     \/ \E a \in AnswersOf(battle.challenger), b \in AnswersOf(battle.opponent) : GivenBy(a, b)
  /\ \A r \in Requests : pc[r] = "award" => battle.winner = verdict[r]
  /\ OnlyWinnerAwarded

LEMMA TwoElements ==
  ASSUME NEW a, NEW b, a # b
  PROVE  Cardinality({a} \cup {b}) = 2
  <1>1. IsFiniteSet({a}) /\ Cardinality({a}) = 1
    BY FS_Singleton
  <1>2. b \notin {a}
    OBVIOUS
  <1>3. Cardinality({a} \cup {b}) = Cardinality({a}) + 1
    BY <1>1, <1>2, FS_AddElement
  <1>4. QED
    BY <1>1, <1>3

\* When there are exactly two answers, the player's answers among them are the
\* ones already found.
LEMMA TwoAnswers ==
  ASSUME Typed, battle # NoBattle, BothIn,
         NEW a \in AnswersOf(battle.challenger), NEW b \in AnswersOf(battle.opponent),
         NEW c \in AnswersOf(battle.challenger), NEW d \in AnswersOf(battle.opponent)
  PROVE  c = a /\ d = b
  <1>1. a # b /\ c # d /\ a # d /\ c # b
    BY DEF AnswersOf, Typed, RequestShape
  <1>2. Cardinality({a} \cup {b}) = 2
    BY <1>1, TwoElements
  <1>3. {a} \cup {b} \in SUBSET answers /\ IsFiniteSet(answers)
    BY DEF AnswersOf, Typed, RequestShape
  <1>4. answers = {a} \cup {b}
    BY <1>2, <1>3, FS_Subset DEF BothIn
  <1>5. QED
    BY <1>1, <1>4 DEF AnswersOf

LEMMA InitResult == Init => ResultInv
  BY DEF Init, ResultInv, Undecided, Decided, NoBattle, OnlyWinnerAwarded

\* A step that changes neither the result nor the requests that have one, and
\* keeps the answers, keeps the invariant.
LEMMA ResultUntouched ==
  ASSUME ResultInv, answers \subseteq answers', Decided' \subseteq Decided,
         \A r \in Decided' : pc'[r] = pc[r] /\ verdict'[r] = verdict[r],
         battle'.winner = battle.winner,
         battle'.status = "completed" => battle.status = "completed",
         battle'.challenger = battle.challenger, battle'.opponent = battle.opponent,
         awards' = awards
  PROVE  ResultInv'
  <1>1. \A r \in Requests : pc'[r] = "award" => battle'.winner = verdict'[r]
    BY DEF ResultInv, Decided
  <1>2. OnlyWinnerAwarded'
    BY DEF ResultInv, OnlyWinnerAwarded
  <1>3. CASE Undecided
    BY <1>1, <1>2, <1>3 DEF ResultInv, Undecided
  <1>4. ASSUME NEW a \in AnswersOf(battle.challenger), NEW b \in AnswersOf(battle.opponent),
               GivenBy(a, b)
        PROVE  ResultInv'
    <2>1. a \in AnswersOf(battle.challenger)' /\ b \in AnswersOf(battle.opponent)'
      BY DEF AnswersOf
    <2>2. GivenBy(a, b)'
      BY <1>4 DEF GivenBy, Winner
    <2>3. QED
      BY <1>1, <1>2, <2>1, <2>2 DEF ResultInv
  <1>5. QED
    BY <1>3, <1>4 DEF ResultInv

\* A stored winner is the result of the two answers.
LEMMA WinnerGiven ==
  ASSUME ResultInv, battle.winner # None
  PROVE  \E a \in AnswersOf(battle.challenger), b \in AnswersOf(battle.opponent) :
           GivenBy(a, b) /\ battle.winner = Winner(a, b)
  BY DEF ResultInv, Undecided, GivenBy

\* Every step keeps the invariant of the result.
LEMMA NextResult == Typed /\ ResultInv /\ [Next]_vars => ResultInv'
  <1> SUFFICES ASSUME Typed, ResultInv, [Next]_vars PROVE ResultInv'
    OBVIOUS
  <1>t. /\ pc \in [Requests -> Running \cup {"none", "ended"}]
        /\ verdict \in [Requests -> Users \cup {None}]
        /\ awards \in [Users -> Nat]
    BY DEF Typed, TypeOK
  <1>1. ASSUME NEW c \in Users, NEW o \in Users, CreateBattle(c, o) PROVE ResultInv'
    <2>1. Decided = {} /\ battle.winner = None
      BY <1>1 DEF CreateBattle, Typed, RequestShape, Decided, NoBattle
    <2>2. Decided' = {} /\ battle'.winner = None /\ battle'.status = "pending"
      BY <1>1, <2>1 DEF CreateBattle, Decided, session
    <2>3. \A u \in Users : awards'[u] = awards[u] /\ ~(awards[u] > 0)
      BY <1>1, <2>1, NoneAssumption DEF CreateBattle, ResultInv, OnlyWinnerAwarded
    <2>4. QED
      BY <2>2, <2>3 DEF ResultInv, Undecided, Decided, OnlyWinnerAwarded
  <1>2. CASE TimePasses
    BY <1>2, ResultUntouched DEF TimePasses, session, Decided
  <1>3. ASSUME NEW r \in Requests, NEW u \in Users, View(r, u) PROVE ResultInv'
    BY <1>3, <1>t, ResultUntouched DEF View, Load, Goto, Decided
  <1>4. ASSUME NEW r \in Requests, NEW u \in Users, NEW s \in Scores, Submit(r, u, s)
        PROVE  ResultInv'
    BY <1>4, <1>t, ResultUntouched DEF Submit, Load, Goto, Decided
  <1>5. ASSUME NEW r \in Requests, NEW s \in Status \ {"completed"}, NEW there \in {"count", "ended"},
               pc[r] \notin {"complete", "award"}, battle # NoBattle,
               battle' = [battle EXCEPT !.status = s], Goto(r, there),
               answers \subseteq answers', UNCHANGED <<verdict, awards>>
        PROVE  ResultInv'
    <2>1. Decided' \subseteq Decided /\ \A q \in Decided' : pc'[q] = pc[q]
      BY <1>5, <1>t DEF Goto, Decided
    <2>2. /\ battle'.winner = battle.winner /\ battle'.status = s
          /\ battle'.challenger = battle.challenger /\ battle'.opponent = battle.opponent
      BY <1>5 DEF Typed, TypeOK, Battle
    <2>3. QED
      BY <1>5, <2>1, <2>2, ResultUntouched
  <1>6. ASSUME NEW r \in Requests, WriteExpired(r) PROVE ResultInv'
    BY <1>5, <1>6 DEF WriteExpired, Status, Typed, RequestShape
  <1>7. ASSUME NEW r \in Requests, CheckAnswered(r) PROVE ResultInv'
    BY <1>7, <1>t, ResultUntouched DEF CheckAnswered, Goto, Decided
  <1>8. ASSUME NEW r \in Requests, InsertAnswer(r) PROVE ResultInv'
    <2>1. CASE copy[r] = "pending"
      BY <1>5, <1>8, <2>1 DEF InsertAnswer, Status, Typed, RequestShape
    <2>2. CASE copy[r] # "pending"
      BY <1>8, <1>t, <2>2, ResultUntouched DEF InsertAnswer, Goto, Decided
    <2>3. QED
      BY <2>1, <2>2
  <1>9. ASSUME NEW r \in Requests, CountAnswers(r) PROVE ResultInv'
    <2>1. CASE verdict' = verdict /\ Goto(r, "ended")
      BY <1>9, <1>t, <2>1, ResultUntouched DEF CountAnswers, Goto, Decided
    <2>2. ASSUME BothIn, Goto(r, "complete"),
                 NEW a \in AnswersOf(battle.challenger), NEW b \in AnswersOf(battle.opponent),
                 verdict' = [verdict EXCEPT ![r] = Winner(a, b)]
          PROVE  ResultInv'
      <3>1. battle # NoBattle /\ UNCHANGED <<battle, answers, awards>>
        BY <1>9 DEF CountAnswers, Typed, RequestShape
      <3>2. Decided' = Decided \cup {r} /\ verdict'[r] = Winner(a, b)
        BY <1>t, <2>2 DEF Goto, Decided
      <3>3. \A q \in Requests \ {r} : verdict'[q] = verdict[q] /\ pc'[q] = pc[q]
        BY <1>t, <2>2 DEF Goto
      <3>4. Undecided \/ GivenBy(a, b)
        BY <2>2, <3>1, TwoAnswers DEF ResultInv
      <3>5. GivenBy(a, b)'
        BY <3>1, <3>2, <3>3, <3>4 DEF GivenBy, Undecided, Winner, Decided
      <3>6. a \in AnswersOf(battle.challenger)' /\ b \in AnswersOf(battle.opponent)'
        BY <3>1 DEF AnswersOf
      <3>7. \A q \in Requests : pc'[q] = "award" => battle'.winner = verdict'[q]
        BY <1>t, <2>2, <3>1, <3>3 DEF Goto, ResultInv
      <3>8. QED
        BY <3>1, <3>5, <3>6, <3>7 DEF ResultInv, OnlyWinnerAwarded
    <2>3. QED
      BY <1>9, <2>1, <2>2 DEF CountAnswers
  <1>10. ASSUME NEW r \in Requests, CompleteBattle(r) PROVE ResultInv'
    <2>1. battle # NoBattle /\ r \in Decided
      BY <1>10 DEF CompleteBattle, Typed, RequestShape, Decided
    <2>2. PICK a \in AnswersOf(battle.challenger), b \in AnswersOf(battle.opponent) : GivenBy(a, b)
      BY <2>1 DEF ResultInv, Undecided
    <2>3. verdict[r] = Winner(a, b) /\ battle.winner \in {None, Winner(a, b)}
      BY <2>1, <2>2 DEF GivenBy
    <2>4. /\ battle'.winner = Winner(a, b)
          /\ battle'.challenger = battle.challenger /\ battle'.opponent = battle.opponent
      BY <1>10, <2>1, <2>3 DEF CompleteBattle, Typed, TypeOK, Battle
    <2>5. Decided' \subseteq Decided /\ UNCHANGED <<verdict, awards, answers>>
      BY <1>10, <1>t DEF CompleteBattle, Goto, Decided
    <2>6. GivenBy(a, b)'
      BY <2>2, <2>4, <2>5 DEF GivenBy, Winner
    <2>7. a \in AnswersOf(battle.challenger)' /\ b \in AnswersOf(battle.opponent)'
      BY <2>4, <2>5 DEF AnswersOf
    <2>8. \A q \in Requests : pc'[q] = "award" => battle'.winner = verdict'[q]
      <3>1. \A q \in Requests : pc'[q] = "award" => q \in Decided'
        BY DEF Decided
      <3>2. QED
        BY <2>4, <2>6, <3>1 DEF GivenBy, Winner
    <2>9. OnlyWinnerAwarded'
      <3>1. \A u \in Users : awards[u] > 0 => battle.winner = u /\ battle.winner # None
        BY NoneAssumption DEF ResultInv, OnlyWinnerAwarded
      <3>2. QED
        BY <2>3, <2>4, <2>5, <3>1 DEF OnlyWinnerAwarded
    <2>10. QED
      BY <2>6, <2>7, <2>8, <2>9 DEF ResultInv
  <1>11. ASSUME NEW r \in Requests, SendAward(r) PROVE ResultInv'
    <2>1. battle.winner = verdict[r] /\ Awarded(r) = verdict[r] /\ verdict[r] \in Users
      BY <1>11, <1>t, PlayersAreUsers
         DEF SendAward, ResultInv, Awarded, Typed, RequestShape
    <2>2. \A u \in Users : u # verdict[r] => awards'[u] = awards[u]
      BY <1>11, <1>t, <2>1 DEF SendAward
    <2>3. OnlyWinnerAwarded'
      BY <1>11, <2>1, <2>2 DEF SendAward, OnlyWinnerAwarded, ResultInv
    <2>4. /\ Decided' \subseteq Decided /\ UNCHANGED <<verdict, answers, battle>>
          /\ \A q \in Decided' : pc'[q] = pc[q]
      BY <1>11, <1>t DEF SendAward, Goto, Decided
    <2>5. PICK a \in AnswersOf(battle.challenger), b \in AnswersOf(battle.opponent) : GivenBy(a, b)
      BY <1>11 DEF SendAward, ResultInv, Undecided, Decided
    <2>6. GivenBy(a, b)' /\ a \in AnswersOf(battle.challenger)' /\ b \in AnswersOf(battle.opponent)'
      BY <2>4, <2>5 DEF GivenBy, Winner, AnswersOf
    <2>7. \A q \in Requests : pc'[q] = "award" => battle'.winner = verdict'[q]
      BY <2>4 DEF ResultInv, Decided
    <2>8. QED
      BY <2>3, <2>6, <2>7 DEF ResultInv
  <1>12. ASSUME NEW r \in Requests, RequestFails(r) PROVE ResultInv'
    BY <1>12, <1>t, ResultUntouched DEF RequestFails, Goto, Decided
  <1>13. CASE UNCHANGED vars
    BY <1>13, ResultUntouched DEF vars, session, Decided
  <1>14. QED
    BY <1>1, <1>2, <1>3, <1>4, <1>6, <1>7, <1>8, <1>9, <1>10, <1>11, <1>12, <1>13
       DEF Next, Run

\* The result in the database is the result of two answers that were given.
THEOREM ResultFollows == Spec => []ResultFollowsAnswers
  <1>1. Typed /\ ResultInv => ResultFollowsAnswers
    <2> SUFFICES ASSUME Typed, ResultInv, battle.winner # None \/ battle.status = "completed"
                 PROVE  ResultFollowsAnswers
      BY DEF ResultFollowsAnswers
    <2>1. PICK a \in AnswersOf(battle.challenger), b \in AnswersOf(battle.opponent) :
            battle.winner = Winner(a, b)
      BY DEF ResultInv, Undecided, GivenBy
    <2>2. a.score \in Nat /\ b.score \in Nat
      BY ScoresAssumption DEF Typed, TypeOK, AnswersOf, Answer
    <2>3. \/ battle.winner = a.user /\ a.score > b.score
          \/ battle.winner = b.user /\ b.score > a.score
          \/ battle.winner = None /\ a.score = b.score
      BY <2>1, <2>2 DEF Winner
    <2>4. QED
      BY <2>3 DEF ResultFollowsAnswers
  <1>2. QED
    BY <1>1, InitTyped, NextTyped, InitResult, NextResult, PTL DEF Spec

\* No message sends experience points to anybody but the winner.
THEOREM RewardForWinner == Spec => []OnlyWinnerAwarded
  <1>1. ResultInv => OnlyWinnerAwarded
    BY DEF ResultInv
  <1>2. QED
    BY <1>1, InitTyped, NextTyped, InitResult, NextResult, PTL DEF Spec

\* A winner stays the winner.
THEOREM WinnerStays == Spec => WinnerNeverChanges
  <1>1. Typed /\ ResultInv /\ [Next]_vars => [battle.winner # None => battle'.winner = battle.winner]_vars
    <2> SUFFICES ASSUME Typed, ResultInv, Next, battle.winner # None
                 PROVE  battle'.winner = battle.winner
      OBVIOUS
    <2>1. battle # NoBattle
      BY DEF NoBattle
    <2>2. CASE battle' = battle
      BY <2>2
    <2>3. ASSUME NEW s \in Status, battle' = [battle EXCEPT !.status = s]
          PROVE  battle'.winner = battle.winner
      BY <2>1, <2>3 DEF Typed, TypeOK, Battle
    <2>4. ASSUME NEW r \in Requests, CompleteBattle(r) PROVE battle'.winner = battle.winner
      <3>1. r \in Decided
        BY <2>4 DEF CompleteBattle, Decided
      <3>2. verdict[r] = battle.winner
        BY <3>1, WinnerGiven DEF GivenBy
      <3>3. QED
        BY <2>1, <2>4, <3>2 DEF CompleteBattle, Typed, TypeOK, Battle
    <2>5. ASSUME NEW r \in Requests, Run(r) PROVE battle'.winner = battle.winner
      <3>1. CASE WriteExpired(r) \/ InsertAnswer(r)
        BY <2>2, <2>3, <3>1 DEF WriteExpired, InsertAnswer, Status
      <3>2. CASE CheckAnswered(r) \/ CountAnswers(r) \/ SendAward(r)
        BY <2>2, <3>2 DEF CheckAnswered, CountAnswers, SendAward
      <3>3. QED
        BY <2>4, <2>5, <3>1, <3>2 DEF Run
    <2>6. QED
      BY <2>1, <2>2, <2>5
         DEF Next, CreateBattle, TimePasses, View, Submit, Load, RequestFails
  <1>2. QED
    BY <1>1, InitTyped, NextTyped, InitResult, NextResult, PTL DEF Spec, WinnerNeverChanges
------------------------------------------------------------------------------
(* Answers that cross                                                       *)

\* A request that somebody has yet to send belongs to nobody.
Unsent == \A r \in Requests : pc[r] = "none" => user[r] = None

\* While everybody sends one request, each answer is that of a request that has
\* inserted it, and of no other.
OneAnswerEach ==
  /\ \A a \in answers : user[a.by] = a.user /\ pc[a.by] \notin {"none", "check", "insert"}
  /\ \A a, b \in answers : a.by = b.by => a = b

\* Some request is past its insertion and has yet to look at the answers, or
\* has seen both.
Counting == \E r \in Requests : pc[r] \in {"count", "complete"}

\* The winner's experience points are sent, or about to be.
Rewarded ==
  battle.winner # None => awards[battle.winner] > 0 \/ \E r \in Requests : pc[r] = "award"

\* No memory of who answered last is needed: a request that has looked and gone
\* on found one answer missing, and whoever inserts that one has yet to look.
CrossingInv ==
  /\ Unsent
  /\ Orderly =>
       /\ \A r \in Requests : pc[r] # "expire"
       /\ OneAnswerEach
       /\ BothAnswered => Counting \/ (battle.status = "completed" /\ Rewarded)

\* Nobody sends a second request, so the answers of the two players are all.
LEMMA BothAnswersSeen ==
  ASSUME Typed, Orderly, OneAnswerEach, BothAnswered
  PROVE  BothIn
  <1>1. PICK a \in AnswersOf(battle.challenger), b \in AnswersOf(battle.opponent) : TRUE
    BY DEF BothAnswered, Players
  <1>2. a \in answers /\ b \in answers /\ a # b
    BY DEF AnswersOf, Typed, RequestShape, BothAnswered
  <1>3. ASSUME NEW x \in answers PROVE x = a \/ x = b
    <2>1. /\ x.by \in Requests /\ a.by \in Requests /\ b.by \in Requests
          /\ pc[x.by] # "none" /\ user[x.by] = x.user
          /\ user[a.by] = battle.challenger /\ user[b.by] = battle.opponent
      BY <1>2 DEF AnswersOf, OneAnswerEach, Typed, TypeOK, Answer
    <2>2. user[x.by] \in {user[a.by], user[b.by]} /\ user[x.by] # None
      BY <2>1, PlayersAreUsers, NoneAssumption DEF Typed, RequestShape, Players
    <2>3. x.by = a.by \/ x.by = b.by
      BY <2>1, <2>2 DEF Orderly
    <2>4. QED
      BY <1>2, <2>3 DEF OneAnswerEach
  <1>4. answers = {a} \cup {b}
    BY <1>2, <1>3
  <1>5. Cardinality({a} \cup {b}) = 2
    BY <1>2, TwoElements
  <1>6. QED
    BY <1>4, <1>5 DEF BothIn

LEMMA InitCrossing == Init => CrossingInv
  BY DEF Init, CrossingInv, Unsent, OneAnswerEach, BothAnswered

\* Whoever has sent a request stays its sender, and nobody takes his request back.
LEMMA SendersStay ==
  ASSUME Typed, Unsent, [Next]_vars
  PROVE  /\ Unsent'
         /\ Orderly' => Orderly
         /\ \A r \in Requests : pc[r] # "none" => pc'[r] # "none" /\ user'[r] = user[r]
  <1> USE DEF Typed, TypeOK, Unsent, Orderly, Running
  <1>1. ASSUME NEW r \in Requests, NEW u \in Users, Load(r, u), NEW there, Goto(r, there),
               there # "none"
        PROVE  /\ Unsent'
               /\ Orderly' => Orderly
               /\ \A q \in Requests : pc[q] # "none" => pc'[q] # "none" /\ user'[q] = user[q]
    BY <1>1 DEF Load, Goto
  <1>2. ASSUME NEW r \in Requests, NEW u \in Users,
               View(r, u) \/ \E s \in Scores : Submit(r, u, s)
        PROVE  /\ Unsent'
               /\ Orderly' => Orderly
               /\ \A q \in Requests : pc[q] # "none" => pc'[q] # "none" /\ user'[q] = user[q]
    BY <1>1, <1>2 DEF View, Submit
  <1>3. ASSUME NEW r \in Requests, pc[r] # "none", NEW there, Goto(r, there), there # "none",
               UNCHANGED <<user, due>>, died \in BOOLEAN, died => died'
        PROVE  /\ Unsent'
               /\ Orderly' => Orderly
               /\ \A q \in Requests : pc[q] # "none" => pc'[q] # "none" /\ user'[q] = user[q]
    BY <1>3 DEF Goto
  <1>4. ASSUME NEW r \in Requests, Run(r) \/ RequestFails(r)
        PROVE  /\ Unsent'
               /\ Orderly' => Orderly
               /\ \A q \in Requests : pc[q] # "none" => pc'[q] # "none" /\ user'[q] = user[q]
    BY <1>3, <1>4 DEF Run, WriteExpired, CheckAnswered, InsertAnswer, CountAnswers,
                      CompleteBattle, SendAward, RequestFails
  <1>5. ASSUME UNCHANGED <<pc, user, died>>, due => due'
        PROVE  /\ Unsent'
               /\ Orderly' => Orderly
               /\ \A q \in Requests : pc[q] # "none" => pc'[q] # "none" /\ user'[q] = user[q]
    BY <1>5
  <1>6. QED
    BY <1>2, <1>4, <1>5 DEF Next, CreateBattle, TimePasses, vars, session

\* A step that leaves the answers and their requests where they are.
LEMMA AnswersKept ==
  ASSUME Typed, OneAnswerEach, answers' = answers,
         \A r \in Requests : /\ pc[r] \notin {"none", "check", "insert"} =>
                                  pc'[r] \notin {"none", "check", "insert"}
                             /\ pc[r] # "none" => user'[r] = user[r]
  PROVE  OneAnswerEach'
  BY DEF OneAnswerEach, Typed, TypeOK, Answer

\* The players and their answers stay, and whatever is known of the result.
LEMMA CrossingUntouched ==
  ASSUME UNCHANGED <<answers, awards>>, UNCHANGED battle,
         BothAnswered => Counting \/ (battle.status = "completed" /\ Rewarded),
         \A r \in Requests : pc[r] \in {"count", "complete", "award"} => pc'[r] = pc[r]
  PROVE  (BothAnswered => Counting \/ (battle.status = "completed" /\ Rewarded))'
  BY DEF BothAnswered, Players, AnswersOf, Counting, Rewarded

\* Every step keeps it.
LEMMA NextCrossing == Typed /\ ResultInv /\ CrossingInv /\ [Next]_vars => CrossingInv'
  <1> SUFFICES ASSUME Typed, ResultInv, CrossingInv, [Next]_vars, Orderly'
               PROVE  /\ \A r \in Requests : pc'[r] # "expire"
                      /\ OneAnswerEach'
                      /\ BothAnswered' => Counting' \/ (battle'.status = "completed" /\ Rewarded')
    BY SendersStay DEF CrossingInv
  <1> DEFINE Kept == /\ \A r \in Requests : pc'[r] # "expire"
                     /\ OneAnswerEach'
                     /\ BothAnswered' => Counting' \/ (battle'.status = "completed" /\ Rewarded')
  <1>t. /\ pc \in [Requests -> Running \cup {"none", "ended"}]
        /\ user \in [Requests -> Users \cup {None}]
        /\ awards \in [Users -> Nat]
    BY DEF Typed, TypeOK
  <1>o. /\ Orderly /\ ~due /\ ~died'
        /\ \A r \in Requests : pc[r] # "none" => pc'[r] # "none" /\ user'[r] = user[r]
    BY SendersStay DEF CrossingInv, Orderly
  <1>i. /\ \A r \in Requests : pc[r] # "expire"
        /\ OneAnswerEach
        /\ BothAnswered => Counting \/ (battle.status = "completed" /\ Rewarded)
    BY <1>o DEF CrossingInv
  <1>1. ASSUME NEW c \in Users, NEW o \in Users, CreateBattle(c, o) PROVE Kept
    <2>1. answers' = {} /\ pc' = pc
      BY <1>1 DEF CreateBattle, Typed, RequestShape, session
    <2>2. ~BothAnswered'
      BY <2>1 DEF BothAnswered, Players, AnswersOf
    <2>3. QED
      BY <1>i, <2>1, <2>2 DEF OneAnswerEach
  <1>2. CASE TimePasses
    BY <1>2 DEF TimePasses, Orderly
  <1>3. ASSUME NEW r \in Requests, NEW u \in Users,
               View(r, u) \/ \E s \in Scores : Submit(r, u, s)
        PROVE  Kept
    <2>1. /\ UNCHANGED <<battle, answers, awards>> /\ pc[r] = "none"
          /\ pc' = [pc EXCEPT ![r] = pc'[r]] /\ pc'[r] \in {"check", "ended"}
      BY <1>3, <1>o, <1>t DEF View, Submit, Load, Goto, Overdue
    <2>2. QED
      BY <1>t, <1>o, <1>i, <2>1, AnswersKept, CrossingUntouched
  <1>4. ASSUME NEW r \in Requests, WriteExpired(r) PROVE Kept
    BY <1>4, <1>i DEF WriteExpired
  <1>5. ASSUME NEW r \in Requests, CheckAnswered(r) PROVE Kept
    <2>1. /\ UNCHANGED <<battle, answers, awards>> /\ pc[r] = "check"
          /\ pc' = [pc EXCEPT ![r] = pc'[r]] /\ pc'[r] \in {"insert", "ended"}
      BY <1>5, <1>t DEF CheckAnswered, Goto
    <2>2. QED
      BY <1>t, <1>o, <1>i, <2>1, AnswersKept, CrossingUntouched
  <1>6. ASSUME NEW r \in Requests, InsertAnswer(r) PROVE Kept
    <2> DEFINE new == [by |-> r, user |-> user[r], score |-> score[r]]
    <2>1. /\ pc[r] = "insert" /\ answers' = answers \cup {new} /\ user' = user
          /\ pc' = [pc EXCEPT ![r] = "count"]
      BY <1>6 DEF InsertAnswer, Goto
    <2>2. \A a \in answers : a.by # r /\ a.by \in Requests
      BY <1>i, <2>1 DEF OneAnswerEach, Typed, TypeOK, Answer
    <2>3. OneAnswerEach'
      BY <1>t, <1>i, <2>1, <2>2 DEF OneAnswerEach
    <2>4. Counting' /\ \A q \in Requests : pc'[q] # "expire"
      BY <1>t, <1>i, <2>1 DEF Counting
    <2>5. QED
      BY <2>3, <2>4
  <1>7. ASSUME NEW r \in Requests, CountAnswers(r) PROVE Kept
    <2>1. UNCHANGED <<battle, answers, awards>> /\ pc[r] = "count"
      BY <1>7 DEF CountAnswers
    <2>2. CASE BothAnswered
      <3>1. pc' = [pc EXCEPT ![r] = "complete"]
        BY <1>7, <1>o, <1>i, <2>2, BothAnswersSeen DEF CountAnswers, BothAnswered, Goto
      <3>2. Counting' /\ \A q \in Requests : pc'[q] # "expire"
        BY <1>t, <1>i, <3>1 DEF Counting
      <3>3. QED
        BY <1>t, <1>o, <1>i, <2>1, <3>1, <3>2, AnswersKept
    <2>3. CASE ~BothAnswered
      <3>1. pc' = [pc EXCEPT ![r] = pc'[r]] /\ pc'[r] \in {"complete", "ended"}
        BY <1>7, <1>t DEF CountAnswers, Goto
      <3>2. ~BothAnswered'
        BY <2>1, <2>3 DEF BothAnswered, Players, AnswersOf
      <3>3. QED
        BY <1>t, <1>o, <1>i, <2>1, <3>1, <3>2, AnswersKept
    <2>4. QED
      BY <2>2, <2>3
  <1>8. ASSUME NEW r \in Requests, CompleteBattle(r) PROVE Kept
    <2>1. battle # NoBattle /\ r \in Decided
      BY <1>8 DEF CompleteBattle, Typed, RequestShape, Decided
    <2>2. battle'.status = "completed"
      BY <1>8, <2>1 DEF CompleteBattle, Typed, TypeOK, Battle
    <2>3. pc' = [pc EXCEPT ![r] = IF verdict[r] = None THEN "ended" ELSE "award"]
      BY <1>8 DEF CompleteBattle, Goto
    <2>4. Rewarded'
      <3>1. CASE verdict[r] # None
        BY <1>t, <2>3, <3>1 DEF Rewarded
      <3>2. CASE verdict[r] = None
        <4>1. battle.winner = None
          BY <2>1, <3>2 DEF ResultInv, Undecided, GivenBy
        <4>2. battle'.winner = None
          BY <1>8, <2>1, <3>2, <4>1 DEF CompleteBattle, Typed, TypeOK, Battle
        <4>3. QED
          BY <4>2 DEF Rewarded
      <3>3. QED
        BY <3>1, <3>2
    <2>5. OneAnswerEach' /\ \A q \in Requests : pc'[q] # "expire"
      <3>1. answers' = answers
        BY <1>8 DEF CompleteBattle
      <3>2. QED
        BY <1>t, <1>o, <1>i, <2>3, <3>1, AnswersKept
    <2>6. QED
      BY <2>2, <2>4, <2>5
  <1>9. ASSUME NEW r \in Requests, SendAward(r) PROVE Kept
    <2>1. /\ UNCHANGED <<battle, answers>> /\ pc[r] = "award"
          /\ pc' = [pc EXCEPT ![r] = "ended"]
          /\ awards' = [awards EXCEPT ![verdict[r]] = @ + 1]
      BY <1>9 DEF SendAward, Goto, Awarded
    <2>2. battle.winner = verdict[r] /\ verdict[r] \in Users
      BY <2>1, PlayersAreUsers DEF ResultInv, Typed, RequestShape
    <2>3. Rewarded'
      BY <1>t, <2>1, <2>2 DEF Rewarded
    <2>4. Counting => Counting'
      BY <1>t, <2>1 DEF Counting
    <2>5. BothAnswered' => BothAnswered
      BY <2>1 DEF BothAnswered, Players, AnswersOf
    <2>6. OneAnswerEach' /\ \A q \in Requests : pc'[q] # "expire"
      BY <1>t, <1>o, <1>i, <2>1, AnswersKept
    <2>7. QED
      BY <1>i, <2>1, <2>3, <2>4, <2>5, <2>6
  <1>10. ASSUME NEW r \in Requests, RequestFails(r) PROVE Kept
    BY <1>10, <1>o DEF RequestFails
  <1>11. CASE UNCHANGED vars
    <2>1. UNCHANGED <<battle, answers, awards, pc>>
      BY <1>11 DEF vars, session
    <2>2. QED
      BY <1>o, <1>i, <2>1, AnswersKept, CrossingUntouched
  <1>12. QED
    BY <1>1, <1>2, <1>3, <1>4, <1>5, <1>6, <1>7, <1>8, <1>9, <1>10, <1>11 DEF Next, Run

\* Whatever the interleaving, of two answers that cross one request sees both:
\* the battle ends completed and rewarded.
THEOREM CrossingCompletes == Spec => []CrossingAnswersComplete
  <1>1. CrossingInv => CrossingAnswersComplete
    BY DEF CrossingInv, CrossingAnswersComplete, Quiet, Counting, Rewarded
  <1>2. QED
    BY <1>1, InitTyped, NextTyped, InitResult, NextResult, InitCrossing, NextCrossing, PTL
       DEF Spec
==============================================================================
