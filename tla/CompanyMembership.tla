-------------------------- MODULE CompanyMembership -------------------------
(***************************************************************************)
(* The members of one company: bulk import, invitations and their          *)
(* acceptance, removal (app/services/company.py, app/services/public.py).  *)
(*                                                                         *)
(* An import, an invitation and an acceptance are jobs over a file of      *)
(* e-mails (one e-mail but for imports), cut at every SELECT and commit.   *)
(* An import's session survives a failing row only if somebody rolls it    *)
(* back: register_user does, and thereby expires the company it holds; the *)
(* import itself does not.                                                 *)
(*                                                                         *)
(* Abstracted: names, passwords, teams and is_active (update_member), the  *)
(* fields of the company, goals and reports, which only read members.      *)
(* Users are not deleted.  A file that is not text is refused before its   *)
(* first row and is none of the files here.                                *)
(***************************************************************************)
EXTENDS Integers, Sequences, FiniteSets

CONSTANTS
  Users,   \* e-mails
  Blank,   \* a row of a file without an e-mail
  Short,   \* a row that cannot be read: columns are missing, or csv refuses it
  Files,   \* the files that may be imported: sequences of rows, each of one user
  Jobs,    \* identifiers of imports, invitations and acceptances
  None     \* absent value

ASSUME FilesAssumption ==
  Files \subseteq Seq(Users \cup {Blank, Short}) /\ <<>> \notin Files
ASSUME NamesAssumption ==
  Blank \notin Users /\ Short \notin Users /\ Short # Blank /\ None \notin Jobs

VARIABLES
  company,   \* "live" or "deleted"
  users,     \* users rows, by e-mail
  home,      \* users whose company_id is the company
  members,   \* users of the company_members rows
  invited,   \* users that hold an invitation that has not expired
  mailed,    \* users to whom a welcome or an invitation was queued
  job,       \* [Jobs -> what the job is, where it is, and what it answers]
  maker,     \* history: [Users -> the job that created the account]
  joined,    \* history: users that have been members
  accepted,  \* history: users that accepted since they were last removed
  disturbed  \* history: jobs overlapped, met a removal, a mail was not queued,
             \* or a value did not fit its column

tables == <<company, users, home, members>>
vars == <<tables, invited, mailed, job, maker, joined, accepted, disturbed>>

Kinds == {"import", "invite", "accept"}

\* healthy: the session takes statements; fresh: it holds the company's
\* columns; of an acceptance, seen: it found the member's row, same: the user's
\* company_id was the company already.
NotSent ==
  [pc |-> "none", kind |-> "invite", file |-> <<>>, row |-> 1, healthy |-> TRUE,
   fresh |-> TRUE, seen |-> FALSE, same |-> FALSE, created |-> 0, errors |-> {}]

Job ==
  [pc : {"none", "find", "register", "mail", "member", "insert", "token", "accept",
         "answered", "failed", "dead"},
   kind : Kinds, file : Files \cup {<<u>> : u \in Users} \cup {<<>>}, row : Nat \ {0},
   healthy : BOOLEAN, fresh : BOOLEAN, seen : BOOLEAN, same : BOOLEAN, created : Nat,
   errors : SUBSET Nat]

\* One type invariant: a job stands on a row of its file, and reports rows of
\* its file.
TypeOK ==
  /\ company \in {"live", "deleted"}
  /\ users \subseteq Users
  /\ home \subseteq users /\ members \subseteq users
  /\ invited \subseteq users /\ mailed \subseteq users
  /\ job \in [Jobs -> Job]
  /\ \A j \in Jobs :
       job[j] # NotSent => /\ job[j].row \in 1 .. Len(job[j].file)
                           /\ job[j].errors \subseteq 1 .. job[j].row
  /\ maker \in [Users -> Jobs \cup {None}]
  /\ joined \subseteq users /\ accepted \subseteq users
  /\ disturbed \in BOOLEAN

Underway(j) == job[j].pc \notin {"none", "answered", "failed", "dead"}
Row(j) == job[j].file[job[j].row]

Init ==
  /\ company = "live"
  /\ users \in SUBSET Users
  /\ home = {} /\ members = {} /\ invited = {} /\ mailed = {}
  /\ job = [j \in Jobs |-> NotSent]
  /\ maker = [u \in Users |-> None]
  /\ joined = {} /\ accepted = {}
  /\ disturbed = FALSE

------------------------------------------------------------------------------
(* Jobs                                                                     *)

Started(kind, file, same) ==
  [pc |-> IF kind = "accept" THEN "member" ELSE "find", kind |-> kind, file |-> file,
   row |-> 1, healthy |-> TRUE, fresh |-> TRUE, seen |-> FALSE, same |-> same,
   created |-> 0, errors |-> {}]

\* The company is looked up first, an acceptance's user before it.
Begin(j, kind, file) ==
  /\ job[j] = NotSent
  /\ company = "live"
  /\ kind = "import" => file \in Files
  /\ kind # "import" => \E u \in Users : file = <<u>>
  /\ kind = "accept" => file[1] \in invited
  /\ job' = [job EXCEPT ![j] = Started(kind, file, kind = "accept" /\ file[1] \in home)]
  /\ disturbed' = (disturbed \/ \E k \in Jobs : Underway(k))
  /\ UNCHANGED <<tables, invited, mailed, maker, joined, accepted>>

\* The job's record once its row is done: an import goes on to the next.
RowDone(state) ==
  IF state.kind = "invite" THEN [state EXCEPT !.pc = "token"]
  ELSE IF state.row < Len(state.file) THEN [state EXCEPT !.pc = "find", !.row = @ + 1]
  ELSE [state EXCEPT !.pc = "answered"]

\* Faulty variant: the row's error is only logged.
RowFailedSilently(state) ==
  IF state.kind = "import" THEN RowDone(state) ELSE [state EXCEPT !.pc = "failed"]

\* An import notes the error and goes on, the other jobs answer with it.
RowFailed(state) ==
  IF state.kind = "import" THEN RowDone([state EXCEPT !.errors = @ \cup {state.row}])
  ELSE [state EXCEPT !.pc = "failed"]

\* A row's columns are read before anything that catches errors: one that
\* cannot be read ends the whole import, whatever the rows before it left.
FindUser(j) ==
  /\ job[j].pc = "find"
  /\ job' = [job EXCEPT ![j] =
       IF Row(j) = Short THEN [job[j] EXCEPT !.pc = "failed"]
       ELSE IF Row(j) = Blank \/ ~job[j].healthy THEN RowFailed(job[j])
       ELSE [job[j] EXCEPT !.pc = IF Row(j) \in users THEN "member" ELSE "register"]]
  /\ UNCHANGED <<tables, invited, mailed, maker, joined, accepted, disturbed>>

\* What register_user's caller keeps of an e-mail that was taken meanwhile: it
\* was found by the second SELECT, or by the unique constraint, and then a
\* rollback expires what the session holds.
Taken(state, rolledBack) ==
  RowFailed([state EXCEPT !.fresh = @ /\ ~rolledBack])

Register(j) ==
  LET u == Row(j) IN
  /\ job[j].pc = "register"
  /\ \/ /\ u \in users
        /\ \E rolledBack \in BOOLEAN : job' = [job EXCEPT ![j] = Taken(job[j], rolledBack)]
        /\ UNCHANGED <<users, maker>>
     \/ /\ u \notin users
        /\ users' = users \cup {u}
        /\ maker' = [maker EXCEPT ![u] = j]
        /\ job' = [job EXCEPT ![j].created = @ + 1,
                              ![j].pc = IF job[j].kind = "import" THEN "mail" ELSE "member"]
  /\ UNCHANGED <<company, home, members, invited, mailed, joined, accepted, disturbed>>

\* A mail is queued unless the broker fails, which is only logged.
Queue(u) ==
  \/ mailed' = mailed \cup {u} /\ UNCHANGED disturbed
  \/ UNCHANGED mailed /\ disturbed' = TRUE

\* The welcome names the company: reading an expired column raises.
SendWelcome(j) ==
  /\ job[j].pc = "mail"
  /\ job' = [job EXCEPT ![j].pc = "member"]
  /\ IF job[j].fresh THEN Queue(Row(j)) ELSE UNCHANGED <<mailed, disturbed>>
  /\ UNCHANGED <<tables, invited, maker, joined, accepted>>

\* Faulty variant: nobody looks for the member.
IsMemberNever(u) == FALSE

\* The member's row is there already.
IsMember(u) == u \in members

FindMember(j) ==
  /\ job[j].pc = "member"
  /\ job' = [job EXCEPT ![j] =
       IF job[j].kind = "accept"
         THEN [job[j] EXCEPT !.pc = "accept", !.seen = IsMember(Row(j))]
       ELSE IF IsMember(Row(j)) THEN RowDone(job[j])
       ELSE [job[j] EXCEPT !.pc = "insert"]]
  /\ UNCHANGED <<tables, invited, mailed, maker, joined, accepted, disturbed>>

\* The foreign key and the unique constraint of company_members.
Insertable(u) == company = "live" /\ u \notin members

InsertMember(j) ==
  LET u == Row(j) IN
  /\ job[j].pc = "insert"
  /\ IF Insertable(u)
       THEN /\ members' = members \cup {u}
            /\ joined' = joined \cup {u}
            /\ job' = [job EXCEPT ![j] = RowDone(job[j])]
       ELSE /\ UNCHANGED <<members, joined>>
            /\ job' = [job EXCEPT ![j] = RowFailed([job[j] EXCEPT !.healthy = FALSE])]
  /\ UNCHANGED <<company, users, home, invited, mailed, maker, accepted, disturbed>>

\* A name, a team or a job role that does not fit its column: the INSERT of the
\* user or of the member fails, and nobody rolls the session back.
ValueRefused(j) ==
  /\ \/ job[j].pc = "register" /\ Row(j) \notin users
     \/ job[j].pc = "insert"
  /\ job' = [job EXCEPT ![j] = RowFailed([job[j] EXCEPT !.healthy = FALSE])]
  /\ disturbed' = TRUE
  /\ UNCHANGED <<tables, invited, mailed, maker, joined, accepted>>

\* The token is signed and kept nowhere.
IssueInvite(j) ==
  /\ job[j].pc = "token"
  /\ invited' = invited \cup {Row(j)}
  /\ Queue(Row(j))
  /\ job' = [job EXCEPT ![j].pc = "answered"]
  /\ UNCHANGED <<tables, maker, joined, accepted>>

\* Faulty variant: accepting relies on the row of the invitation.
RowsOfNobody(u, seen) == {}

\* The members' row that accepting adds.
RowsToAdd(u, seen) == IF seen THEN {} ELSE {u}

\* company_id and the member's row are one transaction; a company_id that
\* does not change is not written, and a company that is gone not noticed.
AcceptInvite(j) ==
  LET u == Row(j)
      new == RowsToAdd(u, job[j].seen)
  IN
  /\ job[j].pc = "accept"
  /\ IF (company = "live" \/ job[j].same) /\ \A m \in new : Insertable(m)
       THEN /\ home' = IF job[j].same THEN home ELSE home \cup {u}
            /\ members' = members \cup new
            /\ joined' = joined \cup new
            /\ accepted' = accepted \cup {u}
            /\ job' = [job EXCEPT ![j].pc = "answered"]
       ELSE /\ UNCHANGED <<home, members, joined, accepted>>
            /\ job' = [job EXCEPT ![j].pc = "failed"]
  /\ UNCHANGED <<company, users, invited, mailed, maker, disturbed>>

\* The process dies between two steps.
ProcessDies(j) ==
  /\ Underway(j)
  /\ job' = [job EXCEPT ![j].pc = "dead"]
  /\ disturbed' = TRUE
  /\ UNCHANGED <<tables, invited, mailed, maker, joined, accepted>>

------------------------------------------------------------------------------
(* Administration                                                           *)

\* The member's row goes; the user's company_id stays, and so do invitations.
RemoveMember(u) ==
  /\ company = "live" /\ u \in members
  /\ members' = members \ {u}
  /\ accepted' = accepted \ {u}
  /\ disturbed' = (disturbed \/ \E j \in Jobs : Underway(j))
  /\ UNCHANGED <<company, users, home, invited, mailed, job, maker, joined>>

\* Members go with the company, and company_id is set to null.
DeleteCompany ==
  /\ company = "live"
  /\ company' = "deleted"
  /\ members' = {} /\ home' = {} /\ accepted' = {}
  /\ disturbed' = (disturbed \/ \E j \in Jobs : Underway(j))
  /\ UNCHANGED <<users, invited, mailed, job, maker, joined>>

\* Seven days pass.
ExpireInvite(u) ==
  /\ u \in invited
  /\ invited' = invited \ {u}
  /\ UNCHANGED <<tables, mailed, job, maker, joined, accepted, disturbed>>

------------------------------------------------------------------------------
JobStep(j) ==
  \/ FindUser(j)
  \/ Register(j)
  \/ SendWelcome(j)
  \/ FindMember(j)
  \/ InsertMember(j)
  \/ ValueRefused(j)
  \/ IssueInvite(j)
  \/ AcceptInvite(j)

Next ==
  \/ \E j \in Jobs :
       \/ \E file \in Files : Begin(j, "import", file)
       \/ \E u \in Users, kind \in {"invite", "accept"} : Begin(j, kind, <<u>>)
       \/ JobStep(j)
       \/ ProcessDies(j)
  \/ \E u \in Users : RemoveMember(u) \/ ExpireInvite(u)
  \/ DeleteCompany

Spec == Init /\ [][Next]_vars

------------------------------------------------------------------------------
(* Properties                                                               *)

\* Whoever sent a file can tell from the answer what became of each row: it is
\* reported as an error, or its user became a member, however the session
\* broke and other jobs interfered.
RowsAccounted ==
  \A j \in Jobs :
    job[j].pc = "answered" /\ job[j].kind = "import" =>
      \A i \in 1 .. Len(job[j].file) : i \in job[j].errors \/ job[j].file[i] \in joined

\* The number of created accounts that an import answers is the number of
\* accounts that exist because of it: races for an e-mail count once.
CreatedCounts ==
  \A j \in Jobs : job[j].created = Cardinality({u \in Users : maker[u] = j})

\* Left to itself a job fails at a row that cannot be read and nowhere else, an
\* import reports blank rows only, and whoever got an account with a temporary
\* password has been written to, also from an import that failed further down.
SerialJobsSucceed ==
  ~disturbed =>
    \A j \in Jobs :
      /\ job[j].pc = "failed" => Row(j) = Short
      /\ \A i \in job[j].errors : job[j].file[i] = Blank
      /\ job[j].pc \in {"answered", "failed"} => {u \in Users : maker[u] = j} \subseteq mailed

\* Accepting an invitation makes a member also of a user who was removed since
\* the invitation.  Only a removal during the acceptance gets in between.
AcceptedAreMembers == ~disturbed => accepted \subseteq members

\* Nobody belongs to a deleted company, though jobs that found it are under way.
DeletedIsGone == company = "deleted" => members = {} /\ home = {}
==============================================================================
