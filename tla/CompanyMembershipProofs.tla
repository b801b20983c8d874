----------------------- MODULE CompanyMembershipProofs ----------------------
(***************************************************************************)
(* Proofs about CompanyMembership for every set of users and jobs and all  *)
(* files, of any length.                                                   *)
(***************************************************************************)
EXTENDS CompanyMembership, FiniteSetTheorems, TLAPS

\* Where a job may stand: an import on its file, an acceptance on one user,
\* and everybody beyond the lookup on an e-mail whose account is known.
Placed(s, known) ==
  s # NotSent =>
    /\ s.file \in Files \cup {<<u>> : u \in Users}
    /\ s.row \in 1 .. Len(s.file)
    /\ s.errors \subseteq 1 .. s.row
    /\ s.kind = "import" => s.pc \notin {"none", "token", "accept"}
    /\ s.kind = "import" /\ s.pc = "failed" => s.file[s.row] = Short
    /\ s.kind = "accept" => s.pc \in {"member", "accept", "answered", "failed", "dead"}
    /\ s.pc = "register" => s.file[s.row] \in Users
    /\ s.pc \in {"mail", "member", "insert", "token", "accept"} => s.file[s.row] \in known

Typed ==
  /\ TypeOK
  /\ \A j \in Jobs : Placed(job[j], users)
  /\ members \subseteq joined

LEMMA RowTyped ==
  ASSUME NEW f \in Files \cup {<<u>> : u \in Users}, NEW i \in 1 .. Len(f)
  PROVE  f[i] \in Users \cup {Blank, Short} /\ Len(f) \in Nat
  BY FilesAssumption

LEMMA FilesNotEmpty ==
  ASSUME NEW f \in Files \cup {<<u>> : u \in Users}
  PROVE  f # <<>> /\ f \in Seq(Users \cup {Blank, Short}) /\ Len(f) \in Nat \ {0}
  <1>1. CASE f \in Files
    BY <1>1, FilesAssumption
  <1>2. CASE \E u \in Users : f = <<u>>
    <2>1. PICK u \in Users : f = <<u>>
      BY <1>2
    <2>2. QED
      BY <2>1
  <1>3. QED
    BY <1>1, <1>2

\* What RowDone keeps, and where it leads.
LEMMA RowDoneFacts ==
  ASSUME NEW known, NEW s \in Job, s # NotSent, Placed(s, known), s.kind # "accept",
         s.kind = "invite" => s.file[s.row] \in known
  PROVE  /\ RowDone(s) \in Job /\ RowDone(s) # NotSent
         /\ Placed(RowDone(s), known)
         /\ RowDone(s).kind = s.kind /\ RowDone(s).file = s.file
         /\ RowDone(s).created = s.created /\ RowDone(s).errors = s.errors
         /\ RowDone(s).row \in {s.row, s.row + 1}
         /\ RowDone(s).pc = "answered" => RowDone(s).row = Len(s.file)
         /\ RowDone(s).pc = "answered" => RowDone(s).row = s.row
         /\ RowDone(s).pc # "failed"
  <1>1. /\ s.row \in 1 .. Len(s.file) /\ Len(s.file) \in Nat \ {0}
        /\ s.errors \subseteq 1 .. s.row /\ s.file # <<>>
    BY FilesNotEmpty DEF Placed
  <1>2. CASE s.kind = "invite"
    BY <1>1, <1>2 DEF RowDone, Job, Placed, NotSent
  <1>3. CASE s.kind = "import" /\ s.row < Len(s.file)
    <2>1. RowDone(s) = [s EXCEPT !.pc = "find", !.row = @ + 1]
      BY <1>3 DEF RowDone
    <2>2. s.row + 1 \in 1 .. Len(s.file) /\ s.errors \subseteq 1 .. (s.row + 1)
      BY <1>1, <1>3
    <2>3. /\ RowDone(s) \in Job /\ RowDone(s).file = s.file /\ RowDone(s).kind = "import"
          /\ RowDone(s).pc = "find" /\ RowDone(s).row = s.row + 1
          /\ RowDone(s).errors = s.errors /\ RowDone(s).created = s.created
      <3> DEFINE r == [s EXCEPT !.row = s.row + 1]
      <3>1. /\ r \in Job /\ r.file = s.file /\ r.kind = "import" /\ r.row = s.row + 1
            /\ r.errors = s.errors /\ r.created = s.created
        BY <1>1, <1>3 DEF Job
      <3>2. RowDone(s) = [r EXCEPT !.pc = "find"]
        BY <1>3, <2>1 DEF Job
      <3> HIDE DEF r
      <3>3. QED
        BY <3>1, <3>2 DEF Job
    <2>4. Placed(RowDone(s), known) /\ RowDone(s) # NotSent
      BY <1>1, <2>2, <2>3 DEF Placed, NotSent
    <2>5. QED
      BY <1>3, <2>3, <2>4
  <1>4. CASE s.kind = "import" /\ ~(s.row < Len(s.file))
    <2>1. RowDone(s) = [s EXCEPT !.pc = "answered"] /\ s.row = Len(s.file)
      BY <1>1, <1>4 DEF RowDone
    <2>2. QED
      BY <1>1, <1>4, <2>1 DEF Job, Placed, NotSent
  <1>5. QED
    BY <1>2, <1>3, <1>4 DEF Job, Kinds

\* What RowFailed keeps, and where it leads.
LEMMA RowFailedFacts ==
  ASSUME NEW known, NEW s \in Job, s # NotSent, Placed(s, known)
  PROVE  /\ RowFailed(s) \in Job /\ RowFailed(s) # NotSent
         /\ Placed(RowFailed(s), known)
         /\ RowFailed(s).kind = s.kind /\ RowFailed(s).file = s.file
         /\ RowFailed(s).created = s.created
         /\ s.kind = "import" =>
              /\ RowFailed(s).errors = s.errors \cup {s.row}
              /\ RowFailed(s).row \in {s.row, s.row + 1}
              /\ RowFailed(s).pc = "answered" => RowFailed(s).row = s.row
  <1>1. /\ s.row \in 1 .. Len(s.file) /\ Len(s.file) \in Nat \ {0}
        /\ s.errors \subseteq 1 .. s.row /\ s.file # <<>>
    BY FilesNotEmpty DEF Placed
  <1>2. CASE s.kind = "import"
    <2> DEFINE e == [s EXCEPT !.errors = @ \cup {s.row}]
    <2>1. /\ e \in Job /\ e # NotSent /\ Placed(e, known) /\ e.kind = "import"
          /\ e.file = s.file /\ e.row = s.row /\ e.created = s.created
          /\ e.errors = s.errors \cup {s.row}
      BY <1>1, <1>2 DEF Job, Placed, NotSent
    <2>2. RowFailed(s) = RowDone(e)
      BY <1>2 DEF RowFailed
    <2> HIDE DEF e
    <2>3. QED
      BY <1>2, <2>1, <2>2, RowDoneFacts
  <1>3. CASE s.kind # "import"
    BY <1>1, <1>3 DEF RowFailed, Job, Placed, NotSent
  <1>4. QED
    BY <1>2, <1>3

\* Writing one job's record keeps the types and places of all.
LEMMA JobWritten ==
  ASSUME Typed, NEW j \in Jobs, NEW s \in Job, users \subseteq users',
         Placed(s, users'), job' = [job EXCEPT ![j] = s]
  PROVE  /\ job' \in [Jobs -> Job]
         /\ \A k \in Jobs : Placed(job[k], users)'
         /\ \A k \in Jobs : (job[k] # NotSent => /\ job[k].row \in 1 .. Len(job[k].file)
                                                 /\ job[k].errors \subseteq 1 .. job[k].row)'
         /\ job'[j] = s /\ \A k \in Jobs \ {j} : job'[k] = job[k]
  <1>1. job' \in [Jobs -> Job] /\ job'[j] = s /\ \A k \in Jobs \ {j} : job'[k] = job[k]
    BY DEF Typed, TypeOK
  <1>2. \A k \in Jobs : Placed(job'[k], users')
    BY <1>1 DEF Typed, Placed
  <1>3. QED
    BY <1>1, <1>2 DEF Placed

\* A step that writes one job's record and at most history keeps the types.
LEMMA OnlyJobWritten ==
  ASSUME Typed, NEW j \in Jobs, NEW s \in Job, Placed(s, users),
         job' = [job EXCEPT ![j] = s],
         UNCHANGED <<tables, invited, mailed, maker, joined, accepted>>,
         disturbed' \in BOOLEAN
  PROVE  Typed'
  <1>1. /\ company' = company /\ users' = users /\ home' = home /\ members' = members
        /\ invited' = invited /\ mailed' = mailed /\ maker' = maker /\ joined' = joined
        /\ accepted' = accepted
    BY DEF tables
  <1>2. /\ job' \in [Jobs -> Job]
        /\ \A k \in Jobs : Placed(job[k], users)'
        /\ \A k \in Jobs : (job[k] # NotSent => /\ job[k].row \in 1 .. Len(job[k].file)
                                                /\ job[k].errors \subseteq 1 .. job[k].row)'
    BY <1>1, JobWritten
  <1>3. QED
    BY <1>1, <1>2 DEF Typed, TypeOK

LEMMA BusyJob ==
  ASSUME Typed, NEW j \in Jobs, Underway(j)
  PROVE  /\ job[j] \in Job /\ job[j] # NotSent /\ Placed(job[j], users)
         /\ job[j].row \in 1 .. Len(job[j].file)
         /\ Row(j) \in Users \cup {Blank, Short}
  BY RowTyped DEF Typed, TypeOK, Underway, NotSent, Placed, Row

LEMMA InitTyped == Init => Typed
  <1> SUFFICES ASSUME Init PROVE Typed
    OBVIOUS
  <1>1. NotSent \in Job
    BY DEF NotSent, Job, Kinds
  <1>2. QED
    BY <1>1 DEF Init, Typed, TypeOK, Placed

LEMMA BeginTyped ==
  ASSUME Typed, NEW j \in Jobs, NEW kind \in Kinds,
         NEW file \in Files \cup {<<u>> : u \in Users}, Begin(j, kind, file)
  PROVE  Typed'
  <1> DEFINE s == Started(kind, file, kind = "accept" /\ file[1] \in home)
  <1>1. job' = [job EXCEPT ![j] = s]
    BY DEF Begin
  <1>2. 1 \in 1 .. Len(file) /\ file # <<>>
    BY FilesNotEmpty
  <1>3. s \in Job
    BY DEF Job, Started
  <1>4. kind = "accept" => file[1] \in users
    BY DEF Begin, Typed, TypeOK
  <1>5. users' = users /\ Placed(s, users')
    BY <1>2, <1>4 DEF Placed, Begin, tables, Started
  <1> HIDE DEF s
  <1>6. disturbed' \in BOOLEAN /\ UNCHANGED <<tables, invited, mailed, maker, joined, accepted>>
    BY DEF Begin, Typed, TypeOK
  <1>7. QED
    BY <1>1, <1>3, <1>5, <1>6, OnlyJobWritten

LEMMA FindUserTyped ==
  ASSUME Typed, NEW j \in Jobs, FindUser(j) PROVE Typed'
  <1>0. disturbed' \in BOOLEAN /\ UNCHANGED <<tables, invited, mailed, maker, joined, accepted>>
    BY DEF FindUser, Typed, TypeOK
  <1>1. /\ job[j] \in Job /\ job[j] # NotSent /\ Placed(job[j], users)
        /\ Row(j) \in Users \cup {Blank, Short}
    BY BusyJob DEF FindUser, Underway
  <1>2. CASE Row(j) = Short
    <2> DEFINE s == [job[j] EXCEPT !.pc = "failed"]
    <2>1. job' = [job EXCEPT ![j] = s]
      BY <1>2 DEF FindUser
    <2>2. s \in Job /\ Placed(s, users)
      BY <1>1, <1>2 DEF FindUser, Placed, Job, Row, NotSent
    <2> HIDE DEF s
    <2>3. QED
      BY <1>0, <2>1, <2>2, OnlyJobWritten
  <1>3. CASE Row(j) # Short /\ (Row(j) = Blank \/ ~job[j].healthy)
    <2>1. job' = [job EXCEPT ![j] = RowFailed(job[j])] /\ users' = users
      BY <1>3 DEF FindUser, tables
    <2>2. RowFailed(job[j]) \in Job /\ Placed(RowFailed(job[j]), users)
      BY <1>1, RowFailedFacts
    <2>3. QED
      BY <1>0, <2>1, <2>2, OnlyJobWritten
  <1>4. CASE Row(j) # Short /\ ~(Row(j) = Blank \/ ~job[j].healthy)
    <2> DEFINE s == [job[j] EXCEPT !.pc = IF Row(j) \in users THEN "member" ELSE "register"]
    <2>1. job' = [job EXCEPT ![j] = s] /\ users' = users
      BY <1>4 DEF FindUser, tables
    <2>2. s \in Job /\ Placed(s, users)
      BY <1>1, <1>4 DEF FindUser, Placed, Job, Row, NotSent
    <2> HIDE DEF s
    <2>3. QED
      BY <1>0, <2>1, <2>2, OnlyJobWritten
  <1>5. QED
    BY <1>2, <1>3, <1>4

LEMMA RegisterTyped ==
  ASSUME Typed, NEW j \in Jobs, Register(j) PROVE Typed'
  <1>1. /\ job[j] \in Job /\ job[j] # NotSent /\ Placed(job[j], users)
        /\ Row(j) \in Users
    BY BusyJob DEF Register, Underway, Placed, Row
  <1>2. CASE Row(j) \in users
    <2>1. PICK rolledBack \in BOOLEAN : job' = [job EXCEPT ![j] = Taken(job[j], rolledBack)]
      BY <1>2 DEF Register
    <2> DEFINE s == [job[j] EXCEPT !.fresh = @ /\ ~rolledBack]
    <2>2. s \in Job /\ s # NotSent /\ Placed(s, users)
      BY <1>1 DEF Job, Placed, NotSent, Register
    <2>3. Taken(job[j], rolledBack) = RowFailed(s)
      BY DEF Taken
    <2> HIDE DEF s
    <2>4. RowFailed(s) \in Job /\ Placed(RowFailed(s), users)
      BY <2>2, RowFailedFacts
    <2>5. users' = users /\ maker' = maker
      BY <1>2 DEF Register
    <2>6. QED
      BY <2>1, <2>3, <2>4, <2>5, JobWritten DEF Register, Typed, TypeOK
  <1>3. CASE Row(j) \notin users
    <2> DEFINE s == [job[j] EXCEPT !.created = @ + 1,
                                   !.pc = IF job[j].kind = "import" THEN "mail" ELSE "member"]
    <2>1. /\ job' = [job EXCEPT ![j] = s]
          /\ users' = users \cup {Row(j)} /\ maker' = [maker EXCEPT ![Row(j)] = j]
      BY <1>3 DEF Register, Typed, TypeOK
    <2> DEFINE r == [job[j] EXCEPT !.created = job[j].created + 1]
    <2>2. s \in Job /\ Placed(s, users')
      <3>1. r \in Job /\ r # NotSent /\ Placed(r, users) /\ r.file[r.row] = Row(j)
        BY <1>1, <2>1 DEF Job, Placed, NotSent, Row, Register
      <3>2. s = [r EXCEPT !.pc = IF job[j].kind = "import" THEN "mail" ELSE "member"]
        BY <1>1 DEF Job
      <3>3. r.kind = job[j].kind /\ job[j].kind # "accept"
        BY <1>1 DEF Job, Placed, Register
      <3> HIDE DEF r, s
      <3>4. QED
        BY <2>1, <3>1, <3>2, <3>3 DEF Job, Placed, NotSent
    <2> HIDE DEF s
    <2>3. QED
      BY <1>1, <2>1, <2>2, JobWritten DEF Register, Typed, TypeOK
  <1>4. QED
    BY <1>2, <1>3

LEMMA SendWelcomeTyped ==
  ASSUME Typed, NEW j \in Jobs, SendWelcome(j) PROVE Typed'
  <1> DEFINE s == [job[j] EXCEPT !.pc = "member"]
  <1>1. /\ job[j] \in Job /\ job[j] # NotSent /\ Placed(job[j], users)
        /\ Row(j) \in users
    BY BusyJob DEF SendWelcome, Underway, Placed, Row
  <1>2. s \in Job /\ Placed(s, users)
    BY <1>1 DEF Job, Placed, Row, NotSent, SendWelcome
  <1>3. job' = [job EXCEPT ![j] = s]
    BY DEF SendWelcome
  <1> HIDE DEF s
  <1>4. /\ mailed' \subseteq users /\ disturbed' \in BOOLEAN
        /\ UNCHANGED <<tables, invited, maker, joined, accepted>>
    BY <1>1 DEF SendWelcome, Queue, Typed, TypeOK
  <1>5. users' = users
    BY <1>4 DEF tables
  <1>6. QED
    BY <1>2, <1>3, <1>4, <1>5, JobWritten DEF tables, Typed, TypeOK

LEMMA FindMemberTyped ==
  ASSUME Typed, NEW j \in Jobs, FindMember(j) PROVE Typed'
  <1>1. /\ job[j] \in Job /\ job[j] # NotSent /\ Placed(job[j], users)
        /\ Row(j) \in users /\ job[j].pc = "member"
    BY BusyJob DEF FindMember, Underway, Placed, Row
  <1>2. disturbed' \in BOOLEAN /\ UNCHANGED <<tables, invited, mailed, maker, joined, accepted>>
    BY DEF FindMember, Typed, TypeOK
  <1>3. CASE job[j].kind = "accept"
    <2> DEFINE found == IsMember(Row(j))
               r == [job[j] EXCEPT !.seen = found]
               s == [r EXCEPT !.pc = "accept"]
    <2>1. found \in BOOLEAN
      BY DEF IsMember
    <2>2. job' = [job EXCEPT ![j] = s]
      BY <1>1, <1>3 DEF FindMember, Job
    <2> HIDE DEF found
    <2>3. r \in Job /\ r.file = job[j].file /\ r.row = job[j].row /\ r.kind = "accept"
          /\ r.errors = job[j].errors /\ r # NotSent
      BY <1>1, <1>3, <2>1 DEF Job, NotSent
    <2> HIDE DEF r
    <2>4. s \in Job /\ Placed(s, users)
      BY <1>1, <1>3, <2>3 DEF Job, Placed, Row, NotSent
    <2> HIDE DEF s
    <2>5. QED
      BY <1>2, <2>2, <2>4, OnlyJobWritten
  <1>4. CASE job[j].kind # "accept" /\ IsMember(Row(j))
    <2>1. RowDone(job[j]) \in Job /\ Placed(RowDone(job[j]), users)
      BY <1>1, <1>4, RowDoneFacts DEF Row
    <2>2. job' = [job EXCEPT ![j] = RowDone(job[j])]
      BY <1>4 DEF FindMember
    <2>3. QED
      BY <1>2, <2>1, <2>2, OnlyJobWritten
  <1>5. CASE job[j].kind # "accept" /\ ~IsMember(Row(j))
    <2> DEFINE s == [job[j] EXCEPT !.pc = "insert"]
    <2>1. s \in Job /\ Placed(s, users)
      BY <1>1, <1>5 DEF Job, Placed, Row, NotSent
    <2>2. job' = [job EXCEPT ![j] = s]
      BY <1>5 DEF FindMember
    <2> HIDE DEF s
    <2>3. QED
      BY <1>2, <2>1, <2>2, OnlyJobWritten
  <1>6. QED
    BY <1>3, <1>4, <1>5

LEMMA InsertMemberTyped ==
  ASSUME Typed, NEW j \in Jobs, InsertMember(j) PROVE Typed'
  <1>1. /\ job[j] \in Job /\ job[j] # NotSent /\ Placed(job[j], users)
        /\ Row(j) \in users /\ job[j].pc = "insert" /\ job[j].kind # "accept"
    BY BusyJob DEF InsertMember, Underway, Placed, Row
  <1>2. UNCHANGED <<company, users, home, invited, mailed, maker, accepted, disturbed>>
    BY DEF InsertMember
  <1>3. CASE Insertable(Row(j))
    <2>1. /\ members' = members \cup {Row(j)} /\ joined' = joined \cup {Row(j)}
          /\ job' = [job EXCEPT ![j] = RowDone(job[j])]
      BY <1>3 DEF InsertMember
    <2>2. RowDone(job[j]) \in Job /\ Placed(RowDone(job[j]), users)
      BY <1>1, RowDoneFacts DEF Row
    <2>3. QED
      BY <1>1, <1>2, <2>1, <2>2, JobWritten DEF Typed, TypeOK
  <1>4. CASE ~Insertable(Row(j))
    <2> DEFINE s == [job[j] EXCEPT !.healthy = FALSE]
    <2>1. s \in Job /\ s # NotSent /\ Placed(s, users)
      BY <1>1 DEF Job, Placed, Row, NotSent
    <2>2. job' = [job EXCEPT ![j] = RowFailed(s)] /\ members' = members /\ joined' = joined
      BY <1>4 DEF InsertMember
    <2> HIDE DEF s
    <2>3. RowFailed(s) \in Job /\ Placed(RowFailed(s), users)
      BY <2>1, RowFailedFacts
    <2>4. QED
      BY <1>2, <2>2, <2>3, JobWritten DEF Typed, TypeOK
  <1>5. QED
    BY <1>3, <1>4

\* The record of a job whose row fails and whose session breaks.
LEMMA BrokenFacts ==
  ASSUME Typed, NEW j \in Jobs, Underway(j)
  PROVE  LET s == [job[j] EXCEPT !.healthy = FALSE]
         IN  /\ s \in Job /\ s # NotSent /\ Placed(s, users)
             /\ s.kind = job[j].kind /\ s.file = job[j].file /\ s.row = job[j].row
             /\ s.errors = job[j].errors /\ s.created = job[j].created /\ s.pc = job[j].pc
  BY BusyJob DEF Job, Placed, NotSent

LEMMA ValueRefusedTyped ==
  ASSUME Typed, NEW j \in Jobs, ValueRefused(j) PROVE Typed'
  <1> DEFINE s == [job[j] EXCEPT !.healthy = FALSE]
  <1>1. s \in Job /\ s # NotSent /\ Placed(s, users)
    BY BrokenFacts DEF ValueRefused, Underway
  <1>2. /\ job' = [job EXCEPT ![j] = RowFailed(s)] /\ disturbed' \in BOOLEAN
        /\ UNCHANGED <<tables, invited, mailed, maker, joined, accepted>>
    BY DEF ValueRefused
  <1> HIDE DEF s
  <1>3. RowFailed(s) \in Job /\ Placed(RowFailed(s), users)
    BY <1>1, RowFailedFacts
  <1>4. QED
    BY <1>2, <1>3, OnlyJobWritten

LEMMA IssueInviteTyped ==
  ASSUME Typed, NEW j \in Jobs, IssueInvite(j) PROVE Typed'
  <1> DEFINE s == [job[j] EXCEPT !.pc = "answered"]
  <1>1. /\ job[j] \in Job /\ job[j] # NotSent /\ Placed(job[j], users)
        /\ Row(j) \in users
    BY BusyJob DEF IssueInvite, Underway, Placed, Row
  <1>2. s \in Job /\ Placed(s, users)
    BY <1>1 DEF Job, Placed, NotSent
  <1>3. job' = [job EXCEPT ![j] = s] /\ invited' = invited \cup {Row(j)}
    BY DEF IssueInvite
  <1> HIDE DEF s
  <1>4. /\ mailed' \subseteq users /\ disturbed' \in BOOLEAN
        /\ UNCHANGED <<tables, maker, joined, accepted>>
    BY <1>1 DEF IssueInvite, Queue, Typed, TypeOK
  <1>5. users' = users
    BY <1>4 DEF tables
  <1>6. QED
    BY <1>1, <1>2, <1>3, <1>4, <1>5, JobWritten DEF tables, Typed, TypeOK

LEMMA AcceptInviteTyped ==
  ASSUME Typed, NEW j \in Jobs, AcceptInvite(j) PROVE Typed'
  <1>1. /\ job[j] \in Job /\ job[j] # NotSent /\ Placed(job[j], users)
        /\ Row(j) \in users /\ job[j].kind # "import"
    BY BusyJob DEF AcceptInvite, Underway, Placed, Row
  <1>2. PICK end \in {"answered", "failed"} : job' = [job EXCEPT ![j].pc = end]
    BY DEF AcceptInvite
  <1> DEFINE s == [job[j] EXCEPT !.pc = end]
  <1>3. s \in Job /\ Placed(s, users)
    BY <1>1 DEF Job, Placed, NotSent
  <1>4. job' = [job EXCEPT ![j] = s]
    BY <1>2
  <1> HIDE DEF s
  <1>5. /\ home' \subseteq users /\ accepted' \subseteq users
        /\ members' \subseteq joined' /\ joined' \subseteq users
        /\ UNCHANGED <<company, users, invited, mailed, maker, disturbed>>
    BY <1>1 DEF AcceptInvite, RowsToAdd, Typed, TypeOK
  <1>6. QED
    BY <1>3, <1>4, <1>5, JobWritten DEF Typed, TypeOK

LEMMA NextTyped == Typed /\ [Next]_vars => Typed'
  <1> SUFFICES ASSUME Typed, [Next]_vars PROVE Typed'
    OBVIOUS
  <1>1. ASSUME NEW j \in Jobs, NEW file \in Files, Begin(j, "import", file) PROVE Typed'
    BY <1>1, BeginTyped DEF Kinds
  <1>2. ASSUME NEW j \in Jobs, NEW u \in Users, NEW kind \in {"invite", "accept"},
               Begin(j, kind, <<u>>)
        PROVE  Typed'
    BY <1>2, BeginTyped DEF Kinds
  <1>3. ASSUME NEW j \in Jobs, JobStep(j) PROVE Typed'
    BY <1>3, FindUserTyped, RegisterTyped, SendWelcomeTyped, FindMemberTyped,
       InsertMemberTyped, ValueRefusedTyped, IssueInviteTyped, AcceptInviteTyped
    DEF JobStep
  <1>4. ASSUME NEW j \in Jobs, ProcessDies(j) PROVE Typed'
    <2> DEFINE s == [job[j] EXCEPT !.pc = "dead"]
    <2>1. s \in Job /\ Placed(s, users)
      BY <1>4, BusyJob DEF ProcessDies, Job, Placed, NotSent
    <2>2. /\ job' = [job EXCEPT ![j] = s] /\ disturbed' \in BOOLEAN
          /\ UNCHANGED <<tables, invited, mailed, maker, joined, accepted>>
      BY <1>4 DEF ProcessDies
    <2> HIDE DEF s
    <2>3. QED
      BY <2>1, <2>2, OnlyJobWritten
  <1>5. ASSUME NEW u \in Users, RemoveMember(u) \/ ExpireInvite(u) PROVE Typed'
    <2>1. /\ UNCHANGED <<company, users, home, mailed, job, maker, joined>>
          /\ members' \subseteq members /\ accepted' \subseteq accepted
          /\ invited' \subseteq invited /\ disturbed' \in BOOLEAN
      BY <1>5 DEF RemoveMember, ExpireInvite, tables, Typed, TypeOK
    <2>2. QED
      BY <2>1 DEF Typed, TypeOK, Placed
  <1>6. ASSUME DeleteCompany PROVE Typed'
    BY <1>6 DEF DeleteCompany, Typed, TypeOK, Placed
  <1>7. CASE UNCHANGED vars
    BY <1>7 DEF vars, tables, Typed, TypeOK, Placed
  <1>8. QED
    BY <1>1, <1>2, <1>3, <1>4, <1>5, <1>6, <1>7 DEF Next

LEMMA AlwaysTyped == Spec => []Typed
  BY InitTyped, NextTyped, PTL DEF Spec

\* Every variable keeps its type: a job stands on a row of its file and
\* reports rows it has seen, however long the file is.
THEOREM TypeCorrect == Spec => []TypeOK
  <1>1. Typed => TypeOK
    BY DEF Typed
  <1>2. QED
    BY <1>1, AlwaysTyped, PTL

------------------------------------------------------------------------------
(* A deleted company                                                        *)

LEMMA NextDeletedIsGone == DeletedIsGone /\ [Next]_vars => DeletedIsGone'
  <1> SUFFICES ASSUME DeletedIsGone, [Next]_vars PROVE DeletedIsGone'
    OBVIOUS
  <1>1. ASSUME NEW j \in Jobs, AcceptInvite(j) PROVE DeletedIsGone'
    <2>1. CASE company = "live"
      BY <1>1, <2>1 DEF AcceptInvite, DeletedIsGone
    <2>2. CASE company # "live"
      BY <1>1, <2>2 DEF AcceptInvite, RowsToAdd, Insertable, DeletedIsGone
    <2>3. QED
      BY <2>1, <2>2
  <1>2. ASSUME NEW j \in Jobs, InsertMember(j) PROVE DeletedIsGone'
    BY <1>2 DEF InsertMember, Insertable, DeletedIsGone
  <1>3. ASSUME NEW j \in Jobs, Register(j) PROVE DeletedIsGone'
    BY <1>3 DEF Register, DeletedIsGone
  <1>4. ASSUME (\E u \in Users : RemoveMember(u)) \/ DeleteCompany PROVE DeletedIsGone'
    BY <1>4 DEF RemoveMember, DeleteCompany, DeletedIsGone
  <1>5. CASE UNCHANGED tables
    BY <1>5 DEF tables, DeletedIsGone
  <1>6. QED
    BY <1>1, <1>2, <1>3, <1>4, <1>5
    DEF Next, JobStep, Begin, FindUser, SendWelcome, FindMember, ValueRefused, IssueInvite,
        ProcessDies, ExpireInvite, vars

\* Nobody belongs to a deleted company: jobs that found it alive fail at its
\* foreign key, or write nothing.
THEOREM NobodyInADeletedCompany == Spec => []DeletedIsGone
  <1>1. Init => DeletedIsGone
    BY DEF Init, DeletedIsGone
  <1>2. QED
    BY <1>1, NextDeletedIsGone, PTL DEF Spec

------------------------------------------------------------------------------
(* What an import answers                                                   *)

\* The rows a job has left behind are errors or members.
Accounted(s, known) ==
  s # NotSent /\ s.kind = "import" =>
    \A i \in 1 .. Len(s.file) :
      i < s.row \/ s.pc = "answered" => i \in s.errors \/ s.file[i] \in known

RowsInv == \A j \in Jobs : Accounted(job[j], joined)

LEMMA RowDoneAccounts ==
  ASSUME NEW known, NEW s \in Job, s # NotSent, Placed(s, known), s.kind # "accept",
         s.kind = "invite" => s.file[s.row] \in known, NEW were, Accounted(s, were),
         s.row \in s.errors \/ s.file[s.row] \in were
  PROVE  Accounted(RowDone(s), were)
  <1>1. /\ RowDone(s).kind = s.kind /\ RowDone(s).file = s.file
        /\ RowDone(s).errors = s.errors
        /\ RowDone(s).row \in {s.row, s.row + 1}
        /\ RowDone(s).pc = "answered" => RowDone(s).row = Len(s.file)
        /\ RowDone(s).pc = "answered" => RowDone(s).row = s.row
    BY RowDoneFacts
  <1>2. s.row \in Nat /\ Len(s.file) \in Nat
    BY FilesNotEmpty DEF Placed
  <1>3. QED
    BY <1>1, <1>2 DEF Accounted

LEMMA RowFailedAccounts ==
  ASSUME NEW known, NEW s \in Job, s # NotSent, Placed(s, known), NEW were,
         Accounted(s, were)
  PROVE  Accounted(RowFailed(s), were)
  <1>1. CASE s.kind = "import"
    <2> DEFINE e == [s EXCEPT !.errors = @ \cup {s.row}]
    <2>1. /\ e \in Job /\ e # NotSent /\ e.kind = "import"
          /\ e.file = s.file /\ e.row = s.row /\ e.pc = s.pc
          /\ e.errors = s.errors \cup {s.row}
      BY <1>1, FilesNotEmpty DEF Job, Placed, NotSent
    <2>2. Placed(e, known) /\ Accounted(e, were)
      BY <1>1, <2>1, FilesNotEmpty DEF Placed, Accounted
    <2>3. RowFailed(s) = RowDone(e)
      BY <1>1 DEF RowFailed
    <2> HIDE DEF e
    <2>4. QED
      BY <1>1, <2>1, <2>2, <2>3, RowDoneAccounts
  <1>2. CASE s.kind # "import"
    BY <1>2, RowFailedFacts DEF Accounted
  <1>3. QED
    BY <1>1, <1>2

\* Other jobs keep their account when members join.
LEMMA OthersAccounted ==
  ASSUME Typed, RowsInv, NEW j \in Jobs, NEW s, Accounted(s, joined'),
         job' = [job EXCEPT ![j] = s], joined \subseteq joined'
  PROVE  RowsInv'
  BY DEF Typed, TypeOK, RowsInv, Accounted

LEMMA NextRows == Typed /\ RowsInv /\ [Next]_vars => RowsInv'
  <1> SUFFICES ASSUME Typed, RowsInv, [Next]_vars PROVE RowsInv'
    OBVIOUS
  <1>1. ASSUME NEW j \in Jobs, NEW kind \in Kinds, NEW file, Begin(j, kind, file)
        PROVE  RowsInv'
    <2> DEFINE s == Started(kind, file, kind = "accept" /\ file[1] \in home)
    <2>1. job' = [job EXCEPT ![j] = s] /\ joined' = joined
      BY <1>1 DEF Begin
    <2>2. Accounted(s, joined')
      BY DEF Started, Accounted
    <2> HIDE DEF s
    <2>3. QED
      BY <2>1, <2>2, OthersAccounted
  <1>2. ASSUME NEW j \in Jobs, FindUser(j) PROVE RowsInv'
    <2>1. job[j] \in Job /\ job[j] # NotSent /\ Placed(job[j], users) /\ joined' = joined
      BY <1>2, BusyJob DEF FindUser, Underway
    <2>2. Accounted(RowFailed(job[j]), joined)
      BY <2>1, RowFailedAccounts DEF RowsInv
    <2>3. Accounted([job[j] EXCEPT !.pc = IF Row(j) \in users THEN "member" ELSE "register"],
                    joined)
      BY <1>2, <2>1 DEF RowsInv, Accounted, FindUser, Job
    <2>4. Accounted([job[j] EXCEPT !.pc = "failed"], joined)
      BY <1>2, <2>1 DEF RowsInv, Accounted, FindUser, Job
    <2>5. QED
      BY <1>2, <2>1, <2>2, <2>3, <2>4, OthersAccounted DEF FindUser
  <1>3. ASSUME NEW j \in Jobs, Register(j) PROVE RowsInv'
    <2>1. /\ job[j] \in Job /\ job[j] # NotSent /\ Placed(job[j], users) /\ joined' = joined
          /\ job[j].pc = "register"
      BY <1>3, BusyJob DEF Register, Underway
    <2>2. CASE Row(j) \in users
      <3>1. PICK rolledBack \in BOOLEAN : job' = [job EXCEPT ![j] = Taken(job[j], rolledBack)]
        BY <1>3, <2>2 DEF Register
      <3> DEFINE s == [job[j] EXCEPT !.fresh = @ /\ ~rolledBack]
      <3>2. s \in Job /\ s # NotSent /\ Placed(s, users) /\ Accounted(s, joined)
        BY <2>1 DEF Job, Placed, NotSent, RowsInv, Accounted
      <3>3. Taken(job[j], rolledBack) = RowFailed(s)
        BY DEF Taken
      <3> HIDE DEF s
      <3>4. QED
        BY <2>1, <3>1, <3>2, <3>3, RowFailedAccounts, OthersAccounted
    <2>3. CASE Row(j) \notin users
      <3> DEFINE s == [job[j] EXCEPT !.created = @ + 1,
                                     !.pc = IF job[j].kind = "import" THEN "mail" ELSE "member"]
      <3>1. job' = [job EXCEPT ![j] = s]
        BY <1>3, <2>3 DEF Register, Typed, TypeOK
      <3>2. Accounted(s, joined)
        BY <2>1 DEF RowsInv, Accounted, Job
      <3> HIDE DEF s
      <3>3. QED
        BY <2>1, <3>1, <3>2, OthersAccounted
    <2>4. QED
      BY <2>2, <2>3
  <1>4. ASSUME NEW j \in Jobs, NEW end \in {"member", "answered", "failed", "dead"},
               job' = [job EXCEPT ![j].pc = end], Underway(j),
               joined \subseteq joined', job[j].kind = "import" => end # "answered"
        PROVE  RowsInv'
    <2> DEFINE s == [job[j] EXCEPT !.pc = end]
    <2>1. job' = [job EXCEPT ![j] = s]
      BY <1>4
    <2>2. Accounted(s, joined')
      BY <1>4, BusyJob DEF RowsInv, Accounted, Job
    <2> HIDE DEF s
    <2>3. QED
      BY <1>4, <2>1, <2>2, OthersAccounted
  <1>5. ASSUME NEW j \in Jobs, FindMember(j) PROVE RowsInv'
    <2>1. /\ job[j] \in Job /\ job[j] # NotSent /\ Placed(job[j], users)
          /\ joined' = joined /\ job[j].pc = "member" /\ Row(j) \in users
      BY <1>5, BusyJob DEF FindMember, Underway, Placed, Row
    <2>2. CASE job[j].kind = "accept"
      <3> DEFINE s == [job[j] EXCEPT !.pc = "accept", !.seen = IsMember(Row(j))]
      <3>1. job' = [job EXCEPT ![j] = s]
        BY <1>5, <2>2 DEF FindMember
      <3>2. Accounted(s, joined)
        BY <2>1, <2>2 DEF Accounted, Job
      <3> HIDE DEF s
      <3>3. QED
        BY <2>1, <3>1, <3>2, OthersAccounted
    <2>3. CASE job[j].kind # "accept" /\ IsMember(Row(j))
      <3>1. job[j].file[job[j].row] \in joined
        BY <2>3 DEF IsMember, Row, Typed
      <3>2. Accounted(RowDone(job[j]), joined)
        BY <2>1, <2>3, <3>1, RowDoneAccounts DEF RowsInv, Row
      <3>3. QED
        BY <1>5, <2>1, <2>3, <3>2, OthersAccounted DEF FindMember
    <2>4. CASE job[j].kind # "accept" /\ ~IsMember(Row(j))
      <3>1. Accounted([job[j] EXCEPT !.pc = "insert"], joined)
        BY <2>1 DEF RowsInv, Accounted, Job
      <3>2. QED
        BY <1>5, <2>1, <2>4, <3>1, OthersAccounted DEF FindMember
    <2>5. QED
      BY <2>2, <2>3, <2>4
  <1>6. ASSUME NEW j \in Jobs, InsertMember(j) PROVE RowsInv'
    <2>1. /\ job[j] \in Job /\ job[j] # NotSent /\ Placed(job[j], users)
          /\ Row(j) \in users /\ job[j].pc = "insert" /\ job[j].kind # "accept"
      BY <1>6, BusyJob DEF InsertMember, Underway, Placed, Row
    <2>2. CASE Insertable(Row(j))
      <3>1. /\ joined' = joined \cup {Row(j)} /\ job' = [job EXCEPT ![j] = RowDone(job[j])]
        BY <1>6, <2>2 DEF InsertMember
      <3>2. Accounted(job[j], joined') /\ job[j].file[job[j].row] \in joined'
        BY <3>1 DEF RowsInv, Accounted, Row
      <3>3. Accounted(RowDone(job[j]), joined')
        BY <2>1, <3>2, RowDoneAccounts DEF Row
      <3>4. QED
        BY <3>1, <3>3, OthersAccounted
    <2>3. CASE ~Insertable(Row(j))
      <3> DEFINE s == [job[j] EXCEPT !.healthy = FALSE]
      <3>1. job' = [job EXCEPT ![j] = RowFailed(s)] /\ joined' = joined
        BY <1>6, <2>3 DEF InsertMember
      <3>2. s \in Job /\ s # NotSent /\ Placed(s, users) /\ Accounted(s, joined)
        BY <2>1 DEF Job, Placed, NotSent, RowsInv, Accounted
      <3> HIDE DEF s
      <3>3. QED
        BY <3>1, <3>2, RowFailedAccounts, OthersAccounted
    <2>4. QED
      BY <2>2, <2>3
  <1>7. ASSUME NEW j \in Jobs, AcceptInvite(j) PROVE RowsInv'
    <2>1. PICK end \in {"answered", "failed"} : job' = [job EXCEPT ![j].pc = end]
      BY <1>7 DEF AcceptInvite
    <2>2. Underway(j) /\ job[j].kind # "import" /\ joined \subseteq joined'
      BY <1>7, BusyJob DEF AcceptInvite, Underway, Placed
    <2>3. QED
      BY <1>4, <2>1, <2>2
  <1>8. ASSUME NEW j \in Jobs, IssueInvite(j) PROVE RowsInv'
    <2>1. /\ Underway(j) /\ job[j].kind # "import" /\ joined' = joined
          /\ job' = [job EXCEPT ![j].pc = "answered"]
      BY <1>8, BusyJob DEF IssueInvite, Underway, Placed
    <2>2. QED
      BY <1>4, <2>1
  <1>9. ASSUME NEW j \in Jobs, SendWelcome(j) \/ ProcessDies(j) PROVE RowsInv'
    <2>1. PICK end \in {"member", "dead"} : job' = [job EXCEPT ![j].pc = end]
      BY <1>9 DEF SendWelcome, ProcessDies
    <2>2. Underway(j) /\ joined' = joined
      BY <1>9 DEF SendWelcome, ProcessDies, Underway
    <2>3. QED
      BY <1>4, <2>1, <2>2
  <1>10. ASSUME NEW j \in Jobs, ValueRefused(j) PROVE RowsInv'
    <2> DEFINE s == [job[j] EXCEPT !.healthy = FALSE]
    <2>1. job' = [job EXCEPT ![j] = RowFailed(s)] /\ joined' = joined
      BY <1>10 DEF ValueRefused
    <2>2. Underway(j)
      BY <1>10 DEF ValueRefused, Underway
    <2>3. /\ s \in Job /\ s # NotSent /\ Placed(s, users)
          /\ s.kind = job[j].kind /\ s.file = job[j].file /\ s.row = job[j].row
          /\ s.errors = job[j].errors /\ s.pc = job[j].pc
      BY <2>2, BrokenFacts
    <2> HIDE DEF s
    <2>4. Accounted(s, joined)
      BY <2>2, <2>3, BusyJob DEF RowsInv, Accounted
    <2>5. QED
      BY <2>1, <2>3, <2>4, RowFailedAccounts, OthersAccounted
  <1>11. CASE job' = job /\ joined' = joined
    BY <1>11 DEF RowsInv, Accounted
  <1>12. QED
    BY <1>1, <1>2, <1>3, <1>5, <1>6, <1>7, <1>8, <1>9, <1>10, <1>11
    DEF Next, JobStep, RemoveMember, ExpireInvite, DeleteCompany, vars, tables, Kinds

\* Each row of an imported file is reported or has become a member, for files
\* of any length, whatever else goes on.
THEOREM EveryRowAccounted == Spec => []RowsAccounted
  <1>1. Init => RowsInv
    BY DEF Init, RowsInv, Accounted
  <1>2. Typed /\ RowsInv => RowsAccounted
    BY DEF Typed, TypeOK, RowsInv, Accounted, RowsAccounted, NotSent
  <1>3. QED
    BY <1>1, <1>2, NextRows, AlwaysTyped, PTL DEF Spec

------------------------------------------------------------------------------
(* The number of accounts that an import answers                            *)

Made(j) == {u \in Users : maker[u] = j}

\* The counts, and: who has no account has no maker.
CountInv ==
  /\ \A j \in Jobs : IsFiniteSet(Made(j)) /\ job[j].created = Cardinality(Made(j))
  /\ \A u \in Users \ users : maker[u] = None

\* A step that makes no account and changes no count.
LEMMA CountsKept ==
  ASSUME Typed, CountInv, maker' = maker, users' = users,
         NEW j \in Jobs, NEW s, job' = [job EXCEPT ![j] = s],
         s.created = job[j].created
  PROVE  CountInv'
  <1>1. \A k \in Jobs : job'[k].created = job[k].created /\ Made(k)' = Made(k)
    BY DEF Typed, TypeOK, Made
  <1>2. QED
    BY <1>1 DEF CountInv

LEMMA NextCounts == Typed /\ CountInv /\ [Next]_vars => CountInv'
  <1> SUFFICES ASSUME Typed, CountInv, [Next]_vars PROVE CountInv'
    OBVIOUS
  <1>1. ASSUME NEW j \in Jobs, NEW kind \in Kinds, NEW file, Begin(j, kind, file)
        PROVE  CountInv'
    <2> DEFINE s == Started(kind, file, kind = "accept" /\ file[1] \in home)
    <2>1. /\ job' = [job EXCEPT ![j] = s] /\ maker' = maker /\ users' = users
          /\ job[j] = NotSent
      BY <1>1 DEF Begin, tables
    <2>2. s.created = job[j].created
      BY <2>1 DEF Started, NotSent
    <2> HIDE DEF s
    <2>3. QED
      BY <2>1, <2>2, CountsKept
  <1>2. ASSUME NEW j \in Jobs, FindUser(j) PROVE CountInv'
    <2>1. /\ job[j] \in Job /\ job[j] # NotSent /\ Placed(job[j], users)
          /\ maker' = maker /\ users' = users
      BY <1>2, BusyJob DEF FindUser, Underway, tables
    <2>2. RowFailed(job[j]).created = job[j].created
      BY <2>1, RowFailedFacts
    <2>3. [job[j] EXCEPT !.pc = IF Row(j) \in users THEN "member" ELSE "register"].created
            = job[j].created
      BY <2>1 DEF Job
    <2>4. [job[j] EXCEPT !.pc = "failed"].created = job[j].created
      BY <2>1 DEF Job
    <2>5. QED
      BY <1>2, <2>1, <2>2, <2>3, <2>4, CountsKept DEF FindUser
  <1>3. ASSUME NEW j \in Jobs, Register(j) PROVE CountInv'
    <2>1. /\ job[j] \in Job /\ job[j] # NotSent /\ Placed(job[j], users)
          /\ Row(j) \in Users
      BY <1>3, BusyJob DEF Register, Underway, Placed, Row
    <2>2. CASE Row(j) \in users
      <3>1. PICK rolledBack \in BOOLEAN : job' = [job EXCEPT ![j] = Taken(job[j], rolledBack)]
        BY <1>3, <2>2 DEF Register
      <3> DEFINE s == [job[j] EXCEPT !.fresh = @ /\ ~rolledBack]
      <3>2. s \in Job /\ s # NotSent /\ Placed(s, users) /\ s.created = job[j].created
        BY <1>3, <2>1 DEF Job, Placed, NotSent
      <3>3. Taken(job[j], rolledBack) = RowFailed(s)
        BY DEF Taken
      <3> HIDE DEF s
      <3>4. RowFailed(s).created = job[j].created
        BY <3>2, RowFailedFacts
      <3>5. users' = users /\ maker' = maker
        BY <1>3, <2>2 DEF Register
      <3>6. QED
        BY <3>1, <3>3, <3>4, <3>5, CountsKept
    <2>3. CASE Row(j) \notin users
      <3>1. /\ users' = users \cup {Row(j)} /\ maker' = [maker EXCEPT ![Row(j)] = j]
            /\ job'[j].created = job[j].created + 1
            /\ \A k \in Jobs \ {j} : job'[k].created = job[k].created
        BY <1>3, <2>1, <2>3 DEF Register, Typed, TypeOK, Job
      <3>2. maker[Row(j)] = None
        BY <2>1, <2>3 DEF CountInv
      <3>3. Made(j)' = Made(j) \cup {Row(j)} /\ Row(j) \notin Made(j)
        BY <2>1, <3>1, <3>2, NamesAssumption DEF Made, Typed, TypeOK
      <3>4. \A k \in Jobs \ {j} : Made(k)' = Made(k)
        BY <2>1, <3>1, <3>2, NamesAssumption DEF Made, Typed, TypeOK
      <3>5. IsFiniteSet(Made(j)') /\ Cardinality(Made(j)') = Cardinality(Made(j)) + 1
        BY <3>3, FS_AddElement DEF CountInv
      <3>6. \A k \in Jobs : IsFiniteSet(Made(k)') /\ job'[k].created = Cardinality(Made(k)')
        BY <3>1, <3>4, <3>5 DEF CountInv
      <3>7. \A u \in Users \ users' : maker'[u] = None
        BY <2>1, <3>1 DEF CountInv, Typed, TypeOK
      <3>8. QED
        BY <3>6, <3>7 DEF CountInv
    <2>4. QED
      BY <2>2, <2>3
  <1>4. ASSUME NEW j \in Jobs, FindMember(j) PROVE CountInv'
    <2>1. /\ job[j] \in Job /\ job[j] # NotSent /\ Placed(job[j], users)
          /\ maker' = maker /\ users' = users /\ Row(j) \in users
      BY <1>4, BusyJob DEF FindMember, Underway, tables, Placed, Row
    <2>2. job[j].kind # "accept" => RowDone(job[j]).created = job[j].created
      BY <2>1, RowDoneFacts DEF Row
    <2>3. /\ [job[j] EXCEPT !.pc = "accept", !.seen = IsMember(Row(j))].created = job[j].created
          /\ [job[j] EXCEPT !.pc = "insert"].created = job[j].created
      BY <2>1 DEF Job
    <2>4. QED
      BY <1>4, <2>1, <2>2, <2>3, CountsKept DEF FindMember
  <1>5. ASSUME NEW j \in Jobs, InsertMember(j) PROVE CountInv'
    <2>1. /\ job[j] \in Job /\ job[j] # NotSent /\ Placed(job[j], users)
          /\ maker' = maker /\ users' = users /\ Row(j) \in users /\ job[j].kind # "accept"
      BY <1>5, BusyJob DEF InsertMember, Underway, Placed, Row
    <2>2. RowDone(job[j]).created = job[j].created
      BY <2>1, RowDoneFacts DEF Row
    <2> DEFINE s == [job[j] EXCEPT !.healthy = FALSE]
    <2>3. s \in Job /\ s # NotSent /\ Placed(s, users) /\ s.created = job[j].created
      BY <2>1 DEF Job, Placed, NotSent
    <2>4. \/ job' = [job EXCEPT ![j] = RowDone(job[j])]
          \/ job' = [job EXCEPT ![j] = RowFailed(s)]
      BY <1>5 DEF InsertMember
    <2> HIDE DEF s
    <2>5. RowFailed(s).created = job[j].created
      BY <2>3, RowFailedFacts
    <2>6. QED
      BY <2>1, <2>2, <2>4, <2>5, CountsKept
  <1>6. ASSUME NEW j \in Jobs, NEW end, job' = [job EXCEPT ![j].pc = end], Underway(j),
               maker' = maker, users' = users
        PROVE  CountInv'
    <2>1. [job[j] EXCEPT !.pc = end].created = job[j].created
      BY <1>6, BusyJob DEF Job
    <2>2. QED
      BY <1>6, <2>1, CountsKept
  <1>7. ASSUME NEW j \in Jobs,
               SendWelcome(j) \/ IssueInvite(j) \/ AcceptInvite(j) \/ ProcessDies(j)
        PROVE  CountInv'
    <2>1. \E end : job' = [job EXCEPT ![j].pc = end]
      BY <1>7 DEF SendWelcome, IssueInvite, AcceptInvite, ProcessDies
    <2>2. Underway(j) /\ maker' = maker /\ users' = users
      BY <1>7 DEF SendWelcome, IssueInvite, AcceptInvite, ProcessDies, Underway, tables
    <2>3. QED
      BY <1>6, <2>1, <2>2
  <1>8. ASSUME NEW j \in Jobs, ValueRefused(j) PROVE CountInv'
    <2> DEFINE s == [job[j] EXCEPT !.healthy = FALSE]
    <2>1. job' = [job EXCEPT ![j] = RowFailed(s)] /\ maker' = maker /\ users' = users
      BY <1>8 DEF ValueRefused, tables
    <2>2. s \in Job /\ s # NotSent /\ Placed(s, users) /\ s.created = job[j].created
      BY <1>8, BrokenFacts DEF ValueRefused, Underway
    <2> HIDE DEF s
    <2>3. QED
      BY <2>1, <2>2, RowFailedFacts, CountsKept
  <1>9. CASE job' = job /\ maker' = maker /\ users' = users
    BY <1>9 DEF CountInv, Made
  <1>10. QED
    BY <1>1, <1>2, <1>3, <1>4, <1>5, <1>7, <1>8, <1>9
    DEF Next, JobStep, RemoveMember, ExpireInvite, DeleteCompany, vars, tables, Kinds

\* An import answers how many accounts there are because of it, however it
\* races for them.
THEOREM CountsAreRight == Spec => []CreatedCounts
  <1>1. Init => CountInv
    <2> SUFFICES ASSUME Init PROVE CountInv
      OBVIOUS
    <2>1. \A j \in Jobs : Made(j) = {}
      BY NamesAssumption DEF Init, Made
    <2>2. QED
      BY <2>1, FS_EmptySet DEF Init, CountInv, NotSent
  <1>2. CountInv => CreatedCounts
    BY DEF CountInv, CreatedCounts, Made
  <1>3. QED
    BY <1>1, <1>2, NextCounts, AlwaysTyped, PTL DEF Spec
------------------------------------------------------------------------------
(* Jobs that nobody disturbs                                                *)

\* Whoever got an account in this row has yet to be written to.
Pending(s) == s.pc = "mail" \/ (s.kind = "invite" /\ s.pc \in {"member", "insert", "token"})

\* What a job has read still holds when it acts on it, and all of its accounts
\* but the row's have been written to.
Undisturbed(j) ==
  /\ job[j].pc = "failed" => Row(j) = Short
  /\ job[j].pc # "dead"
  /\ job[j] # NotSent /\ job[j].kind # "import" => Row(j) \in Users
  /\ \A i \in job[j].errors : job[j].file[i] = Blank
  /\ Underway(j) => job[j].healthy /\ job[j].fresh /\ company = "live"
  /\ job[j].pc = "register" => Row(j) \notin users
  /\ job[j].pc = "insert" => Row(j) \notin members
  /\ job[j].pc = "accept" => (job[j].seen <=> Row(j) \in members)
  /\ \A u \in Users : maker[u] = j => u \in mailed \/ (u = Row(j) /\ Pending(job[j]))

\* Until something disturbs the jobs they run one after the other.
SerialInv ==
  ~disturbed =>
    /\ \A j, k \in Jobs : Underway(j) /\ Underway(k) => j = k
    /\ \A j \in Jobs : Undisturbed(j)
    /\ accepted \subseteq members

\* A job that is not underway does not mind what the others do.
LEMMA IdleKept ==
  ASSUME NEW k \in Jobs, Undisturbed(k), ~Underway(k), job'[k] = job[k],
         \A u \in Users : maker'[u] = k => maker[u] = k, mailed \subseteq mailed'
  PROVE  Undisturbed(k)' /\ ~Underway(k)'
  BY DEF Undisturbed, Underway, Row, Pending

\* A step of one job while the others rest.
LEMMA OneSteps ==
  ASSUME Typed, SerialInv, ~disturbed, NEW j \in Jobs, NEW s,
         \A k \in Jobs \ {j} : ~Underway(k),
         job' = [job EXCEPT ![j] = s],
         \A u \in Users : maker'[u] # j => maker'[u] = maker[u],
         mailed \subseteq mailed', Undisturbed(j)', (accepted \subseteq members)'
  PROVE  SerialInv'
  <1>1. \A k \in Jobs \ {j} : job'[k] = job[k]
    BY DEF Typed, TypeOK
  <1>2. \A k \in Jobs \ {j} : Undisturbed(k)' /\ ~Underway(k)'
    BY <1>1, IdleKept DEF SerialInv
  <1>3. QED
    BY <1>2 DEF SerialInv

\* Where RowDone leads: what a job has read is kept.
LEMMA RowDoneReads ==
  ASSUME NEW known, NEW s \in Job, s # NotSent, Placed(s, known), s.kind # "accept",
         s.kind = "invite" => s.file[s.row] \in known
  PROVE  /\ RowDone(s).healthy = s.healthy /\ RowDone(s).fresh = s.fresh
         /\ RowDone(s).pc \in {"find", "answered", "token"}
         /\ s.kind = "invite" => RowDone(s).pc = "token" /\ RowDone(s).row = s.row
  <1>1. s.row \in 1 .. Len(s.file) /\ Len(s.file) \in Nat \ {0}
    BY FilesNotEmpty DEF Placed
  <1> DEFINE r == [s EXCEPT !.row = @ + 1]
  <1>2. CASE s.kind = "import" /\ s.row < Len(s.file)
    <2>1. r \in Job /\ r.healthy = s.healthy /\ r.fresh = s.fresh
      BY <1>1 DEF Job
    <2>2. RowDone(s) = [r EXCEPT !.pc = "find"]
      BY <1>2 DEF RowDone, Job
    <2> HIDE DEF r
    <2>3. QED
      BY <1>2, <2>1, <2>2 DEF Job
  <1>3. CASE ~(s.kind = "import" /\ s.row < Len(s.file))
    BY <1>1, <1>3 DEF RowDone, Job, Kinds
  <1>4. QED
    BY <1>2, <1>3

\* The row is done: its account, if it made one, is written to or about to be.
LEMMA DoneUndisturbed ==
  ASSUME Typed, NEW j \in Jobs, Undisturbed(j), Underway(j), job[j].kind # "accept",
         Row(j) \in users, job' = [job EXCEPT ![j] = RowDone(job[j])],
         company' = company, maker' = maker, mailed' = mailed,
         job[j].kind = "invite" => Pending(job[j]),
         job[j].kind = "import" => ~Pending(job[j])
  PROVE  Undisturbed(j)'
  <1>1. job[j] \in Job /\ job[j] # NotSent /\ Placed(job[j], users)
    BY BusyJob
  <1>2. /\ job'[j] = RowDone(job[j]) /\ job'[j].kind = job[j].kind
        /\ job'[j].file = job[j].file /\ job'[j].errors = job[j].errors
        /\ job'[j].healthy = job[j].healthy /\ job'[j].fresh = job[j].fresh
        /\ job'[j].pc \in {"find", "answered", "token"}
        /\ job[j].kind = "invite" => job'[j].pc = "token" /\ job'[j].row = job[j].row
    BY <1>1, RowDoneFacts, RowDoneReads DEF Typed, TypeOK, Row
  <1>3. job[j].kind \in {"import", "invite"}
    BY <1>1 DEF Job, Kinds
  <1>4. \A u \in Users : maker'[u] = j => u \in mailed' \/ (u = Row(j)' /\ Pending(job'[j]))
    BY <1>2, <1>3 DEF Undisturbed, Pending, Row
  <1>5. QED
    BY <1>1, <1>2, <1>3, <1>4 DEF Undisturbed, Underway, Row

LEMMA NextSerial == Typed /\ SerialInv /\ [Next]_vars => SerialInv'
  <1> SUFFICES ASSUME Typed, SerialInv, [Next]_vars, ~disturbed'
               PROVE  SerialInv'
    BY DEF SerialInv
  <1>1. ASSUME NEW j \in Jobs, NEW kind \in Kinds,
               NEW file \in Files \cup {<<u>> : u \in Users}, Begin(j, kind, file)
        PROVE  SerialInv'
    <2> DEFINE s == Started(kind, file, kind = "accept" /\ file[1] \in home)
    <2>1. /\ job' = [job EXCEPT ![j] = s] /\ ~disturbed /\ \A k \in Jobs : ~Underway(k)
          /\ UNCHANGED <<tables, invited, mailed, maker, joined, accepted>>
          /\ company = "live" /\ job[j] = NotSent
      BY <1>1 DEF Begin
    <2>2. /\ job'[j] = s /\ s.kind = kind /\ s.file = file /\ s.row = 1 /\ s.errors = {}
          /\ s.healthy = TRUE /\ s.fresh = TRUE /\ s.pc \in {"find", "member"}
          /\ kind # "import" => file[1] \in Users
      BY <1>1, <2>1 DEF Begin, Started, Typed, TypeOK
    <2> HIDE DEF s
    <2>3. \A u \in Users : maker'[u] = j => u \in mailed'
      BY <2>1 DEF SerialInv, Undisturbed, Pending, NotSent
    <2>4. Undisturbed(j)'
      BY <2>1, <2>2, <2>3 DEF Undisturbed, Underway, Row, tables
    <2>5. mailed \subseteq mailed' /\ maker' = maker /\ (accepted \subseteq members)'
      BY <2>1 DEF SerialInv, tables
    <2>6. QED
      BY <2>1, <2>4, <2>5, OneSteps
  <1>2. ASSUME NEW j \in Jobs, Underway(j), ~disturbed
        PROVE  /\ Undisturbed(j) /\ accepted \subseteq members
               /\ \A k \in Jobs \ {j} : ~Underway(k)
               /\ job[j].healthy /\ job[j].fresh /\ company = "live"
               /\ job[j] \in Job /\ job[j] # NotSent /\ Placed(job[j], users)
               /\ job[j].kind \in Kinds
    BY <1>2, BusyJob DEF SerialInv, Undisturbed, Job
  <1>3. ASSUME NEW j \in Jobs, FindUser(j) PROVE SerialInv'
    <2>1. /\ Underway(j) /\ ~disturbed /\ job[j].pc = "find" /\ job \in [Jobs -> Job]
          /\ UNCHANGED <<tables, invited, mailed, maker, joined, accepted>>
      BY <1>3 DEF FindUser, Underway, Typed, TypeOK
    <2>2. job[j].kind \in {"import", "invite"} /\ ~Pending(job[j])
      BY <1>2, <2>1 DEF Placed, Kinds, Pending
    <2>3. mailed \subseteq mailed' /\ maker' = maker /\ (accepted \subseteq members)'
      BY <1>2, <2>1 DEF tables
    <2>4. CASE Row(j) = Short
      <3> DEFINE s == [job[j] EXCEPT !.pc = "failed"]
      <3>1. job' = [job EXCEPT ![j] = s]
        BY <1>3, <2>4 DEF FindUser
      <3>2. /\ job'[j].kind = job[j].kind /\ job'[j].file = job[j].file
            /\ job'[j].row = job[j].row /\ job'[j].errors = job[j].errors
            /\ job'[j].pc = "failed"
        BY <1>2, <2>1, <3>1 DEF Job
      <3> HIDE DEF s
      <3>3. \A u \in Users : maker'[u] = j => u \in mailed'
        BY <1>2, <2>1, <2>2 DEF Undisturbed
      <3>4. Undisturbed(j)'
        BY <1>2, <2>1, <2>4, <3>2, <3>3 DEF Undisturbed, Underway, Row, tables, NotSent
      <3>5. QED
        BY <1>2, <2>1, <2>3, <3>1, <3>4, OneSteps
    <2>5. CASE Row(j) = Blank
      <3> DEFINE e == [job[j] EXCEPT !.errors = @ \cup {job[j].row}]
      <3>1. job[j].kind = "import"
        BY <1>2, <2>1, <2>2, <2>5, NamesAssumption DEF Undisturbed
      <3>2. job' = [job EXCEPT ![j] = RowDone(e)]
        BY <1>3, <2>5, <3>1, NamesAssumption DEF FindUser, RowFailed
      <3>3. /\ e \in Job /\ e # NotSent /\ Placed(e, users) /\ e.kind = "import"
            /\ e.file = job[j].file /\ e.healthy = job[j].healthy /\ e.fresh = job[j].fresh
            /\ e.errors = job[j].errors \cup {job[j].row}
        BY <1>2, <2>1, <3>1, FilesNotEmpty DEF Job, Placed, NotSent
      <3> HIDE DEF e
      <3>4. /\ job'[j].kind = "import" /\ job'[j].file = job[j].file
            /\ job'[j].errors = job[j].errors \cup {job[j].row}
            /\ job'[j].healthy /\ job'[j].fresh
            /\ job'[j].pc \in {"find", "answered", "token"}
        <4>1. job'[j] = RowDone(e)
          BY <2>1, <3>2
        <4>2. /\ RowDone(e).kind = e.kind /\ RowDone(e).file = e.file
              /\ RowDone(e).errors = e.errors
          BY <3>3, RowDoneFacts
        <4>3. /\ RowDone(e).healthy = e.healthy /\ RowDone(e).fresh = e.fresh
              /\ RowDone(e).pc \in {"find", "answered", "token"}
          BY <3>3, RowDoneReads
        <4>4. QED
          BY <1>2, <2>1, <3>3, <4>1, <4>2, <4>3
      <3>5. \A i \in job'[j].errors : job'[j].file[i] = Blank
        BY <1>2, <2>1, <2>5, <3>4 DEF Undisturbed, Row
      <3>6. Undisturbed(j)'
        BY <1>2, <2>1, <2>2, <3>4, <3>5 DEF Undisturbed, Underway, tables
      <3>7. QED
        BY <1>2, <2>1, <2>3, <3>2, <3>6, OneSteps
    <2>6. CASE Row(j) \notin {Blank, Short}
      <3> DEFINE s == [job[j] EXCEPT !.pc = IF Row(j) \in users THEN "member" ELSE "register"]
      <3>1. job' = [job EXCEPT ![j] = s]
        BY <1>2, <1>3, <2>1, <2>6 DEF FindUser
      <3>2. /\ job'[j].kind = job[j].kind /\ job'[j].file = job[j].file
            /\ job'[j].row = job[j].row /\ job'[j].errors = job[j].errors
            /\ job'[j].healthy = job[j].healthy /\ job'[j].fresh = job[j].fresh
            /\ job'[j].pc = IF Row(j) \in users THEN "member" ELSE "register"
        BY <1>2, <2>1, <3>1 DEF Job
      <3>3. \A u \in Users : maker'[u] = j => u \in mailed'
        BY <1>2, <2>1, <2>2 DEF Undisturbed
      <3>4. Undisturbed(j)'
        BY <1>2, <2>1, <3>2, <3>3 DEF Undisturbed, Underway, Row, tables, NotSent
      <3> HIDE DEF s
      <3>5. QED
        BY <1>2, <2>1, <2>3, <3>1, <3>4, OneSteps
    <2>7. QED
      BY <2>5, <2>6, <2>4
  <1>4. ASSUME NEW j \in Jobs, Register(j) PROVE SerialInv'
    <2>1. /\ Underway(j) /\ ~disturbed /\ job[j].pc = "register" /\ job \in [Jobs -> Job]
          /\ UNCHANGED <<company, home, members, invited, mailed, joined, accepted>>
      BY <1>4 DEF Register, Underway, Typed, TypeOK
    <2>2. /\ Row(j) \notin users /\ Row(j) \in Users /\ ~Pending(job[j])
          /\ job[j].kind \in {"import", "invite"}
      BY <1>2, <2>1 DEF Undisturbed, Placed, Row, Kinds, Pending
    <2> DEFINE s == [job[j] EXCEPT !.created = @ + 1,
                                   !.pc = IF job[j].kind = "import" THEN "mail" ELSE "member"]
    <2>3. /\ job' = [job EXCEPT ![j] = s]
          /\ users' = users \cup {Row(j)} /\ maker' = [maker EXCEPT ![Row(j)] = j]
      BY <1>4, <2>1, <2>2 DEF Register
    <2>4. /\ job'[j].kind = job[j].kind /\ job'[j].file = job[j].file
          /\ job'[j].row = job[j].row /\ job'[j].errors = job[j].errors
          /\ job'[j].healthy = job[j].healthy /\ job'[j].fresh = job[j].fresh
          /\ job'[j].pc = IF job[j].kind = "import" THEN "mail" ELSE "member"
      <3>1. /\ s.kind = job[j].kind /\ s.file = job[j].file
            /\ s.row = job[j].row /\ s.errors = job[j].errors
            /\ s.healthy = job[j].healthy /\ s.fresh = job[j].fresh
            /\ s.pc = IF job[j].kind = "import" THEN "mail" ELSE "member"
        BY <1>2, <2>1 DEF Job
      <3>2. job'[j] = s
        BY <2>1, <2>3
      <3> HIDE DEF s
      <3>3. QED
        BY <3>1, <3>2
    <2> HIDE DEF s
    <2>5. Pending(job'[j]) /\ Row(j)' = Row(j)
      BY <2>2, <2>4 DEF Pending, Row
    <2>6. \A u \in Users : maker'[u] = IF u = Row(j) THEN j ELSE maker[u]
      BY <2>2, <2>3 DEF Typed, TypeOK
    <2>7. \A u \in Users : maker'[u] = j => u \in mailed' \/ (u = Row(j)' /\ Pending(job'[j]))
      BY <1>2, <2>1, <2>2, <2>5, <2>6 DEF Undisturbed
    <2>8. Undisturbed(j)'
      BY <1>2, <2>1, <2>2, <2>4, <2>5, <2>7 DEF Undisturbed, Underway, Row
    <2>9. mailed \subseteq mailed' /\ (accepted \subseteq members)'
          /\ \A u \in Users : maker'[u] # j => maker'[u] = maker[u]
      BY <1>2, <2>1, <2>6
    <2>10. QED
      BY <1>2, <2>1, <2>3, <2>8, <2>9, OneSteps
  <1>5. ASSUME NEW j \in Jobs, SendWelcome(j) PROVE SerialInv'
    <2>1. /\ Underway(j) /\ job[j].pc = "mail" /\ job \in [Jobs -> Job]
          /\ UNCHANGED <<tables, invited, maker, joined, accepted>> /\ ~disturbed
      BY <1>5 DEF SendWelcome, Underway, Typed, TypeOK, Queue
    <2>2. mailed' = mailed \cup {Row(j)}
      BY <1>2, <1>5, <2>1 DEF SendWelcome, Queue
    <2> DEFINE s == [job[j] EXCEPT !.pc = "member"]
    <2>3. job' = [job EXCEPT ![j] = s]
      BY <1>5 DEF SendWelcome
    <2>4. /\ job'[j].kind = job[j].kind /\ job'[j].file = job[j].file
          /\ job'[j].row = job[j].row /\ job'[j].errors = job[j].errors
          /\ job'[j].healthy = job[j].healthy /\ job'[j].fresh = job[j].fresh
          /\ job'[j].pc = "member"
      BY <1>2, <2>1, <2>3 DEF Job
    <2> HIDE DEF s
    <2>5. \A u \in Users : maker'[u] = j => u \in mailed'
      BY <1>2, <2>1, <2>2 DEF Undisturbed
    <2>6. Undisturbed(j)'
      BY <1>2, <2>1, <2>4, <2>5 DEF Undisturbed, Underway, Row, tables
    <2>7. mailed \subseteq mailed' /\ maker' = maker /\ (accepted \subseteq members)'
      BY <1>2, <2>1, <2>2 DEF tables
    <2>8. QED
      BY <1>2, <2>1, <2>3, <2>6, <2>7, OneSteps
  <1>6. ASSUME NEW j \in Jobs, FindMember(j) PROVE SerialInv'
    <2>1. /\ Underway(j) /\ ~disturbed /\ job[j].pc = "member" /\ job \in [Jobs -> Job]
          /\ UNCHANGED <<tables, invited, mailed, maker, joined, accepted>>
      BY <1>6 DEF FindMember, Underway, Typed, TypeOK
    <2>2. /\ Row(j) \in users
          /\ job[j].kind = "invite" <=> Pending(job[j])
      BY <1>2, <2>1 DEF Placed, Row, Pending
    <2>3. mailed \subseteq mailed' /\ maker' = maker /\ (accepted \subseteq members)'
          /\ company' = company
      BY <1>2, <2>1 DEF tables
    <2>4. CASE job[j].kind = "accept"
      <3> DEFINE s == [job[j] EXCEPT !.pc = "accept", !.seen = IsMember(Row(j))]
      <3>1. job' = [job EXCEPT ![j] = s]
        BY <1>6, <2>4 DEF FindMember
      <3>2. /\ s.kind = job[j].kind /\ s.file = job[j].file
            /\ s.row = job[j].row /\ s.errors = job[j].errors
            /\ s.healthy = job[j].healthy /\ s.fresh = job[j].fresh
            /\ s.pc = "accept" /\ (s.seen <=> IsMember(Row(j)))
        BY <1>2, <2>1 DEF Job
      <3>3. job'[j] = s
        BY <2>1, <3>1
      <3> HIDE DEF s
      <3>4. \A u \in Users : maker'[u] = j => u \in mailed'
        BY <1>2, <2>1, <2>2, <2>4 DEF Undisturbed
      <3>5. Row(j)' = Row(j) /\ (job'[j].seen <=> Row(j)' \in members')
        BY <2>1, <3>2, <3>3 DEF Row, IsMember, tables
      <3>6. Undisturbed(j)'
        BY <1>2, <2>1, <3>2, <3>3, <3>4, <3>5 DEF Undisturbed, Underway, tables
      <3>7. QED
        BY <1>2, <2>1, <2>3, <3>1, <3>6, OneSteps
    <2>5. CASE job[j].kind # "accept" /\ IsMember(Row(j))
      <3>1. job' = [job EXCEPT ![j] = RowDone(job[j])]
        BY <1>6, <2>5 DEF FindMember
      <3>2. Undisturbed(j)'
        BY <1>2, <2>1, <2>2, <2>3, <2>5, <3>1, DoneUndisturbed
      <3>3. QED
        BY <1>2, <2>1, <2>3, <3>1, <3>2, OneSteps
    <2>6. CASE job[j].kind # "accept" /\ ~IsMember(Row(j))
      <3> DEFINE s == [job[j] EXCEPT !.pc = "insert"]
      <3>1. job' = [job EXCEPT ![j] = s]
        BY <1>6, <2>6 DEF FindMember
      <3>2. /\ job'[j].kind = job[j].kind /\ job'[j].file = job[j].file
            /\ job'[j].row = job[j].row /\ job'[j].errors = job[j].errors
            /\ job'[j].healthy = job[j].healthy /\ job'[j].fresh = job[j].fresh
            /\ job'[j].pc = "insert"
        BY <1>2, <2>1, <3>1 DEF Job
      <3> HIDE DEF s
      <3>3. Row(j)' = Row(j) /\ Row(j)' \notin members'
        BY <2>1, <2>6, <3>2 DEF Row, IsMember, tables
      <3>4. \A u \in Users :
              maker'[u] = j => u \in mailed' \/ (u = Row(j)' /\ Pending(job'[j]))
        BY <1>2, <2>1, <2>2, <3>2, <3>3 DEF Undisturbed, Pending
      <3>5. Undisturbed(j)'
        BY <1>2, <2>1, <3>2, <3>3, <3>4 DEF Undisturbed, Underway, tables
      <3>6. QED
        BY <1>2, <2>1, <2>3, <3>1, <3>5, OneSteps
    <2>7. QED
      BY <2>4, <2>5, <2>6
  <1>7. ASSUME NEW j \in Jobs, InsertMember(j) PROVE SerialInv'
    <2>1. /\ Underway(j) /\ ~disturbed /\ job[j].pc = "insert" /\ job \in [Jobs -> Job]
          /\ UNCHANGED <<company, users, home, invited, mailed, maker, accepted>>
      BY <1>7 DEF InsertMember, Underway, Typed, TypeOK
    <2>2. /\ Row(j) \in users /\ job[j].kind # "accept"
          /\ job[j].kind = "invite" <=> Pending(job[j])
      BY <1>2, <2>1 DEF Placed, Row, Pending
    <2>3. Insertable(Row(j))
      BY <1>2, <2>1 DEF Undisturbed, Insertable
    <2>4. job' = [job EXCEPT ![j] = RowDone(job[j])] /\ members' = members \cup {Row(j)}
      BY <1>7, <2>3 DEF InsertMember
    <2>5. Undisturbed(j)'
      BY <1>2, <2>1, <2>2, <2>4, DoneUndisturbed
    <2>6. mailed \subseteq mailed' /\ maker' = maker /\ (accepted \subseteq members)'
      BY <1>2, <2>1, <2>4
    <2>7. QED
      BY <1>2, <2>1, <2>4, <2>5, <2>6, OneSteps
  <1>8. ASSUME NEW j \in Jobs, IssueInvite(j) PROVE SerialInv'
    <2>1. /\ Underway(j) /\ job[j].pc = "token" /\ job \in [Jobs -> Job]
          /\ UNCHANGED <<tables, maker, joined, accepted>> /\ ~disturbed
          /\ mailed' = mailed \cup {Row(j)}
      BY <1>8 DEF IssueInvite, Underway, Typed, TypeOK, Queue
    <2> DEFINE s == [job[j] EXCEPT !.pc = "answered"]
    <2>2. job' = [job EXCEPT ![j] = s]
      BY <1>8 DEF IssueInvite
    <2>3. /\ job'[j].kind = job[j].kind /\ job'[j].file = job[j].file
          /\ job'[j].row = job[j].row /\ job'[j].errors = job[j].errors
          /\ job'[j].pc = "answered"
      BY <1>2, <2>1, <2>2 DEF Job
    <2> HIDE DEF s
    <2>4. \A u \in Users : maker'[u] = j => u \in mailed'
      BY <1>2, <2>1 DEF Undisturbed
    <2>5. Undisturbed(j)'
      BY <1>2, <2>1, <2>3, <2>4 DEF Undisturbed, Underway, Row
    <2>6. mailed \subseteq mailed' /\ maker' = maker /\ (accepted \subseteq members)'
      BY <1>2, <2>1 DEF tables
    <2>7. QED
      BY <1>2, <2>1, <2>2, <2>5, <2>6, OneSteps
  <1>9. ASSUME NEW j \in Jobs, AcceptInvite(j) PROVE SerialInv'
    <2>1. /\ Underway(j) /\ ~disturbed /\ job[j].pc = "accept" /\ job \in [Jobs -> Job]
          /\ UNCHANGED <<company, users, invited, mailed, maker>>
      BY <1>9 DEF AcceptInvite, Underway, Typed, TypeOK
    <2>2. ~Pending(job[j]) /\ (job[j].seen <=> Row(j) \in members)
      BY <1>2, <2>1 DEF Placed, Pending, Undisturbed
    <2>3. \A m \in RowsToAdd(Row(j), job[j].seen) : Insertable(m)
      BY <1>2, <2>1, <2>2 DEF RowsToAdd, Insertable
    <2> DEFINE s == [job[j] EXCEPT !.pc = "answered"]
    <2>4. /\ members' = members \cup RowsToAdd(Row(j), job[j].seen)
          /\ accepted' = accepted \cup {Row(j)}
          /\ job' = [job EXCEPT ![j] = s]
      BY <1>2, <1>9, <2>1, <2>3 DEF AcceptInvite
    <2>5. (accepted \subseteq members)'
      BY <1>2, <2>1, <2>2, <2>4 DEF RowsToAdd
    <2>6. /\ job'[j].kind = job[j].kind /\ job'[j].file = job[j].file
          /\ job'[j].row = job[j].row /\ job'[j].errors = job[j].errors
          /\ job'[j].pc = "answered"
      BY <1>2, <2>1, <2>4 DEF Job
    <2> HIDE DEF s
    <2>7. \A u \in Users : maker'[u] = j => u \in mailed'
      BY <1>2, <2>1, <2>2 DEF Undisturbed
    <2>8. Undisturbed(j)'
      BY <1>2, <2>1, <2>6, <2>7 DEF Undisturbed, Underway, Row
    <2>9. mailed \subseteq mailed' /\ maker' = maker
      BY <2>1
    <2>10. QED
      BY <1>2, <2>1, <2>4, <2>5, <2>8, <2>9, OneSteps
  <1>10. ASSUME NEW j \in Jobs, ProcessDies(j) \/ ValueRefused(j) PROVE SerialInv'
    BY <1>10 DEF ProcessDies, ValueRefused
  <1>11. ASSUME (\E u \in Users : RemoveMember(u)) \/ DeleteCompany PROVE SerialInv'
    <2>1. /\ ~disturbed /\ \A j \in Jobs : ~Underway(j)
          /\ job' = job /\ maker' = maker /\ mailed' = mailed
      BY <1>11 DEF RemoveMember, DeleteCompany
    <2>2. \A j \in Jobs : Undisturbed(j)' /\ ~Underway(j)'
      BY <2>1, IdleKept DEF SerialInv
    <2>3. (accepted \subseteq members)'
      BY <1>11, <2>1 DEF RemoveMember, DeleteCompany, SerialInv
    <2>4. QED
      BY <2>2, <2>3 DEF SerialInv
  <1>12. CASE UNCHANGED <<tables, mailed, job, maker, joined, accepted, disturbed>>
    BY <1>12 DEF SerialInv, Undisturbed, Underway, Row, Pending, tables
  <1>13. QED
    BY <1>1, <1>3, <1>4, <1>5, <1>6, <1>7, <1>8, <1>9, <1>10, <1>11, <1>12
    DEF Next, JobStep, ExpireInvite, vars, Kinds

LEMMA AlwaysSerial == Spec => []SerialInv
  <1>1. Init => SerialInv
    BY NamesAssumption DEF Init, SerialInv, Undisturbed, Underway, NotSent
  <1>2. QED
    BY <1>1, NextSerial, AlwaysTyped, PTL DEF Spec

\* Jobs that run one after the other fail only at a row that cannot be read: an
\* import reports the blank rows and nothing else, and who got an account with a
\* temporary password has been written to when the job answers or fails.
THEOREM SerialSucceeds == Spec => []SerialJobsSucceed
  <1>1. SerialInv => SerialJobsSucceed
    BY DEF SerialInv, Undisturbed, Pending, SerialJobsSucceed
  <1>2. QED
    BY <1>1, AlwaysSerial, PTL

\* An invitation that was accepted makes a member, also of a user who was
\* removed since it was sent, unless a removal overlaps the acceptance.
THEOREM AcceptanceJoins == Spec => []AcceptedAreMembers
  <1>1. SerialInv => AcceptedAreMembers
    BY DEF SerialInv, AcceptedAreMembers
  <1>2. QED
    BY <1>1, AlwaysSerial, PTL
==============================================================================
