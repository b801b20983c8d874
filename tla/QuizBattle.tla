----------------------------- MODULE QuizBattle -----------------------------
(***************************************************************************)
(* A quiz battle between two users: app/services/quiz.py.  Every request   *)
(* loads the battle into its own database session and decides by that copy *)
(* while the row may change; the two SELECTs and the commits of            *)
(* submit_answer are actions of their own (READ COMMITTED).  There is one  *)
(* battle, for requests about different battles do not touch each other.   *)
(*                                                                         *)
(* Abstracted: the questions and the choices, of which only the score      *)
(* remains, and the course.                                                *)
(***************************************************************************)
EXTENDS Naturals, FiniteSets

CONSTANTS
  Users,     \* users of the tenant
  Scores,    \* the scores an answer can reach
  Requests,  \* identifiers of HTTP requests about the battle
  None       \* absent value

ASSUME ScoresAssumption == Scores \subseteq Nat
ASSUME NoneAssumption == None \notin Users

Status == {"pending", "active", "completed", "expired"}
Open == {"pending", "active"}

VARIABLES
  battle,   \* the quiz_battles row
  due,      \* expires_at has passed
  answers,  \* the quiz_battle_answers rows
  pc,       \* [Requests -> where the request is]
  copy,     \* [Requests -> the status in the request's session]
  user,     \* [Requests -> current_user]
  score,    \* [Requests -> score of the submitted answers]
  verdict,  \* [Requests -> the winner the request computed]
  awards,   \* history: [Users -> award_xp_task messages sent]
  died      \* history: some request did not run to its end

session == <<pc, copy, user, score, verdict>>
vars == <<battle, due, answers, session, awards, died>>

NoBattle == [challenger |-> None, opponent |-> None, status |-> "none", winner |-> None]
Battle ==
  [challenger : Users, opponent : Users, status : Status,
   winner : Users \cup {None}] \cup {NoBattle}

\* A row is named by the request that inserts it.
Answer == [by : Requests, user : Users, score : Scores]

Players == {battle.challenger, battle.opponent}
AnswersOf(u) == {a \in answers : a.user = u}

\* The requests in progress, by the statement they are about to run.
Running == {"expire", "check", "insert", "count", "complete", "award"}

TypeOK ==
  /\ battle \in Battle
  /\ due \in BOOLEAN
  /\ answers \subseteq Answer
  /\ pc \in [Requests -> Running \cup {"none", "ended"}]
  /\ copy \in [Requests -> Status \cup {"none"}]
  /\ user \in [Requests -> Users \cup {None}]
  /\ score \in [Requests -> Scores \cup {None}]
  /\ verdict \in [Requests -> Users \cup {None}]
  /\ awards \in [Users -> Nat]
  /\ died \in BOOLEAN

Init ==
  /\ battle = NoBattle
  /\ due = FALSE
  /\ answers = {}
  /\ pc = [r \in Requests |-> "none"]
  /\ copy = [r \in Requests |-> "none"]
  /\ user = [r \in Requests |-> None]
  /\ score = [r \in Requests |-> None]
  /\ verdict = [r \in Requests |-> None]
  /\ awards = [u \in Users |-> 0]
  /\ died = FALSE

------------------------------------------------------------------------------

\* Nobody can challenge himself.
CreateBattle(c, o) ==
  /\ battle = NoBattle
  /\ c # o
  /\ battle' = [challenger |-> c, opponent |-> o, status |-> "pending", winner |-> None]
  /\ UNCHANGED <<due, answers, session, awards, died>>

\* Twenty-four hours pass.
TimePasses ==
  /\ battle # NoBattle /\ ~due
  /\ due' = TRUE
  /\ UNCHANGED <<battle, answers, session, awards, died>>

Goto(r, there) == pc' = [pc EXCEPT ![r] = there]

\* What _maybe_expire_battle finds out about the session's copy.
Overdue(status) == status \in Open /\ due

\* The request loads the battle and looks at the clock.
Load(r, u) ==
  /\ pc[r] = "none"
  /\ battle # NoBattle /\ u \in Players
  /\ copy' = [copy EXCEPT ![r] = battle.status]
  /\ user' = [user EXCEPT ![r] = u]
  /\ UNCHANGED <<battle, due, answers, verdict, awards, died>>

\* get_battle and list_battles: beyond reading they only expire the battle.
View(r, u) ==
  /\ Load(r, u)
  /\ Goto(r, IF Overdue(battle.status) THEN "expire" ELSE "ended")
  /\ UNCHANGED score

\* submit_answer, up to its first SELECT on the answers.
Submit(r, u, s) ==
  /\ Load(r, u)
  /\ score' = [score EXCEPT ![r] = s]
  /\ Goto(r, IF Overdue(battle.status) THEN "expire"
             ELSE IF battle.status = "completed" THEN "ended" ELSE "check")

\* UPDATE quiz_battles SET status = 'expired' WHERE id = ...
WriteExpired(r) ==
  /\ pc[r] = "expire"
  /\ battle' = [battle EXCEPT !.status = "expired"]
  /\ Goto(r, "ended")
  /\ UNCHANGED <<due, answers, copy, user, score, verdict, awards, died>>

\* scalar_one_or_none: one earlier answer is refused, two raise.
MayAnswer(u) == AnswersOf(u) = {}

CheckAnswered(r) ==
  /\ pc[r] = "check"
  /\ Goto(r, IF MayAnswer(user[r]) THEN "insert" ELSE "ended")
  /\ UNCHANGED <<battle, due, answers, copy, user, score, verdict, awards, died>>

\* The answer and, if the copy says pending, the new status are one commit.
InsertAnswer(r) ==
  /\ pc[r] = "insert"
  /\ answers' = answers \cup {[by |-> r, user |-> user[r], score |-> score[r]]}
  /\ battle' = IF copy[r] = "pending" THEN [battle EXCEPT !.status = "active"] ELSE battle
  /\ copy' = [copy EXCEPT ![r] = IF @ = "pending" THEN "active" ELSE @]
  /\ Goto(r, "count")
  /\ UNCHANGED <<due, user, score, verdict, awards, died>>

\* Faulty variant: the challenger wins a tie.
WinnerByOrder(a, b) == IF a.score >= b.score THEN a.user ELSE b.user

\* The winner, given the challenger's and the opponent's answer.
Winner(a, b) ==
  IF a.score > b.score THEN a.user ELSE IF b.score > a.score THEN b.user ELSE None

\* Faulty variant: two or more rows make a result.
BothInLoose == Cardinality(answers) >= 2

\* Faulty variant: the request's own new answer is counted on top of two.
BothInLate == Cardinality(answers) > 2

\* len(all_answers) == 2
BothIn == Cardinality(answers) = 2

\* The second SELECT: the request that finds exactly two answers, one of each
\* player, computes the winner.
CountAnswers(r) ==
  /\ pc[r] = "count"
  /\ IF BothIn /\ \A u \in Players : AnswersOf(u) # {}
       THEN /\ \E a \in AnswersOf(battle.challenger), b \in AnswersOf(battle.opponent) :
                 verdict' = [verdict EXCEPT ![r] = Winner(a, b)]
            /\ Goto(r, "complete")
       ELSE Goto(r, "ended") /\ UNCHANGED verdict
  /\ UNCHANGED <<battle, due, answers, copy, user, score, awards, died>>

\* The commit of the result.  The ORM writes winner_id only if it is not None,
\* as the copy's winner_id still is.
CompleteBattle(r) ==
  /\ pc[r] = "complete"
  /\ battle' = [battle EXCEPT !.status = "completed",
                              !.winner = IF verdict[r] = None THEN @ ELSE verdict[r]]
  /\ copy' = [copy EXCEPT ![r] = "completed"]
  /\ Goto(r, IF verdict[r] = None THEN "ended" ELSE "award")
  /\ UNCHANGED <<due, answers, user, score, verdict, awards, died>>

\* Faulty variant: whoever's request comes last is awarded.
AwardedOfRequest(r) == user[r]

\* The user the award_xp_task is sent for.
Awarded(r) == verdict[r]

SendAward(r) ==
  /\ pc[r] = "award"
  /\ awards' = [awards EXCEPT ![Awarded(r)] = @ + 1]
  /\ Goto(r, "ended")
  /\ UNCHANGED <<battle, due, answers, copy, user, score, verdict, died>>

\* The process dies, a statement fails or the broker refuses the message.
RequestFails(r) ==
  /\ pc[r] \in Running
  /\ Goto(r, "ended")
  /\ died' = TRUE
  /\ UNCHANGED <<battle, due, answers, copy, user, score, verdict, awards>>

Run(r) ==
  \/ WriteExpired(r)
  \/ CheckAnswered(r)
  \/ InsertAnswer(r)
  \/ CountAnswers(r)
  \/ CompleteBattle(r)
  \/ SendAward(r)

Next ==
  \/ \E c, o \in Users : CreateBattle(c, o)
  \/ TimePasses
  \/ \E r \in Requests, u \in Users : View(r, u) \/ \E s \in Scores : Submit(r, u, s)
  \/ \E r \in Requests : Run(r) \/ RequestFails(r)

Spec == Init /\ [][Next]_vars

------------------------------------------------------------------------------
(* Correctness                                                              *)

\* The stored result is the result of two answers that were really given, one
\* by each player: whatever double submissions, late views and crashes came in
\* between, the winner scored strictly more, and a completed battle without a
\* winner is a tie.
ResultFollowsAnswers ==
  battle.winner # None \/ battle.status = "completed" =>
    \E a \in AnswersOf(battle.challenger), b \in AnswersOf(battle.opponent) :
      \/ battle.winner = a.user /\ a.score > b.score
      \/ battle.winner = b.user /\ b.score > a.score
      \/ battle.winner = None /\ a.score = b.score

\* A winner stays the winner: requests that compute the result together, and
\* answers that arrive after it, never name somebody else.
WinnerNeverChanges ==
  [][battle.winner # None => battle'.winner = battle.winner]_vars

\* Experience points are sent for the winner alone, and after the result is
\* in the database.
OnlyWinnerAwarded == \A u \in Users : awards[u] > 0 => battle.winner = u

\* Nothing is running any more.
Quiet == \A r \in Requests : pc[r] \in {"none", "ended"}

BothAnswered == battle # NoBattle /\ \A u \in Players : AnswersOf(u) # {}

\* Nobody sent two requests, nothing failed and the battle is not due.
Orderly ==
  /\ ~died /\ ~due
  /\ \A r, q \in Requests : user[r] = user[q] /\ user[r] # None => r = q

\* The two final answers may cross, each request having loaded the battle
\* before the other committed: one of them still sees both answers, and the
\* battle is completed, its winner awarded at least once.
CrossingAnswersComplete ==
  Quiet /\ BothAnswered /\ Orderly =>
    /\ battle.status = "completed"
    /\ battle.winner # None => awards[battle.winner] > 0
==============================================================================
