---------------------------- MODULE LessonProofs -----------------------------
(* Proofs about CourseAccess, for any products, views, reports, rules and   *)
(* bounds, and about LessonTranscription, for any submissions, callbacks    *)
(* and summaries.                                                           *)
EXTENDS CourseAccess, LessonTranscription, TLAPS

-----------------------------------------------------------------------------
(* Type correctness.                                                        *)

\* A view's control point and copies, as AccessTypeOK has them.
ViewRow ==
  [pc : {"idle", "products", "course", "enrollment", "prerequisite", "served", "locked",
         "refused"},
   copy : LessonRow, products : SUBSET Products, product : Products \cup {None},
   open : BOOLEAN, wasOpen : BOOLEAN, disturbed : BOOLEAN]

\* A report under way carries what the client sent.
Bodies == \A r \in Reports : Reporting(r) => report[r].body \in Progress

Typed == AccessTypeOK /\ Bodies

LEMMA AtLeastTyped == ASSUME NEW a \in Progress, NEW b \in Progress
                      PROVE  AtLeast(a, b) \in Progress
  BY BoundsAssumption DEF AtLeast, Progress

LEMMA ChangedTyped ==
  ASSUME NEW a \in Progress, NEW b \in Progress, NEW c \in Progress
  PROVE  Changed(a, b, c) \in Progress
  BY DEF Changed, Progress

LEMMA StoredTyped ==
  ASSUME Typed, NEW r \in Reports, report[r].pc = "write", Storable(r)
  PROVE  Stored(r) \in Progress
  <1>1. report[r].body \in Progress /\ report[r].copy \in Progress \cup {None}
    BY DEF Typed, Bodies, Reporting, AccessTypeOK
  <1>2. CASE report[r].copy = None
    BY <1>1, <1>2 DEF Stored
  <1>3. CASE report[r].copy # None
    <2>1. progress \in Progress /\ report[r].copy \in Progress
      BY <1>1, <1>3 DEF Storable, Typed, AccessTypeOK
    <2>2. QED
      BY <1>1, <1>3, <2>1, AtLeastTyped, ChangedTyped DEF Stored, Merged
  <1>4. QED
    BY <1>2, <1>3

LEMMA InitTyped == AccessInit => Typed
  <1> SUFFICES ASSUME AccessInit PROVE Typed
    OBVIOUS
  <1> USE DEF AccessInit
  <1>1. enrollment \in [Products -> Enrolled]
    BY BoundsAssumption DEF Enrolled, Statuses
  <1>2. progress \in Progress \cup {None} /\ most \in Progress \cup {None}
    <2>1. CASE progress = None
      BY <2>1
    <2>2. CASE progress # None
      <3>1. PICK w \in Watched : progress = [watch |-> w, completed |-> FALSE]
        BY <2>2
      <3>2. QED
        BY <3>1, BoundsAssumption DEF Progress
    <2>3. QED
      BY <2>1, <2>2
  <1>3. view \in [Views -> ViewRow]
    BY DEF NoView, ViewRow, LessonRow, Rules
  <1>4. /\ report \in [Reports -> [pc : {"idle", "find", "write", "done"},
                                   body : Progress \cup {None}, copy : Progress \cup {None}]]
        /\ Bodies
    BY DEF NoReport, Bodies, Reporting
  <1>5. day \in 0..MaxDay /\ adminOps \in 0..MaxAdminOps
    BY BoundsAssumption
  <1>6. QED
    BY <1>1, <1>2, <1>3, <1>4, <1>5 DEF Typed, AccessTypeOK, ViewRow

LEMMA ViewTyped == ASSUME Typed, NEW v \in Views, ViewStep(v) PROVE Typed'
  <1> DEFINE it == view[v]
  <1>1. it \in ViewRow
    BY DEF Typed, AccessTypeOK, ViewRow
  <1>2. /\ NoView \in ViewRow
        /\ \A pc \in {"served", "locked", "refused"} : [NoView EXCEPT !.pc = pc] \in ViewRow
    BY DEF NoView, ViewRow, LessonRow, Rules
  <1>3. SUFFICES \E new \in ViewRow : view' = [view EXCEPT ![v] = new]
    BY DEF Typed, AccessTypeOK, Bodies, Reporting, ViewRow, ViewStep
  <1>4. CASE OpenLesson(v)
    <2>1. lesson \in LessonRow /\ OpenByEveryRule \in BOOLEAN
      BY DEF Typed, AccessTypeOK, OpenByEveryRule
    <2>2. [NoView EXCEPT !.pc = "products", !.copy = lesson, !.wasOpen = OpenByEveryRule]
            \in ViewRow
      BY <2>1 DEF NoView, ViewRow
    <2>3. QED
      BY <1>4, <2>2 DEF OpenLesson
  <1>5. ASSUME NotEnrolled(v) PROVE \E new \in ViewRow : view' = [view EXCEPT ![v] = new]
    <2>1. [it EXCEPT !.pc = "prerequisite"] \in ViewRow
      BY <1>1 DEF ViewRow
    <2>2. QED
      BY <1>2, <1>5, <2>1 DEF NotEnrolled, Answer
  <1>6. CASE FindProducts(v)
    <2>1. [it EXCEPT !.pc = "course", !.products = Active] \in ViewRow
      BY <1>1 DEF ViewRow, Active
    <2>2. QED
      BY <1>5, <1>6, <2>1 DEF FindProducts
  <1>7. CASE MatchProduct(v)
    <2>1. ASSUME NEW p \in Products
          PROVE  [it EXCEPT !.pc = "enrollment", !.product = p] \in ViewRow
      BY <1>1 DEF ViewRow
    <2>2. view[v].products \subseteq Products
      BY <1>1 DEF ViewRow
    <2>3. QED
      BY <1>5, <1>7, <2>1, <2>2 DEF MatchProduct
  <1>8. CASE ReadEnrollment(v)
    <2> DEFINE opened == it.product \in Active =>
                           CheckDrip(it.copy.rule, enrollment[it.product].since)
    <2>1. opened \in BOOLEAN
      OBVIOUS
    <2>2. view' = [view EXCEPT ![v] = [it EXCEPT !.pc = "prerequisite", !.open = opened]]
      BY <1>8 DEF ReadEnrollment
    <2> HIDE DEF opened
    <2>3. [it EXCEPT !.pc = "prerequisite", !.open = opened] \in ViewRow
      BY <1>1, <2>1 DEF ViewRow
    <2>4. QED
      BY <2>2, <2>3
  <1>9. CASE CheckPrerequisite(v)
    BY <1>2, <1>9 DEF CheckPrerequisite, Answer
  <1>10. QED
    BY <1>4, <1>6, <1>7, <1>8, <1>9 DEF ViewStep

LEMMA ReportTyped == ASSUME Typed, NEW r \in Reports, ReportStep(r) PROVE Typed'
  <1> USE DEF Typed, AccessTypeOK, Bodies, Reporting, ReportStep
  <1>1. CASE BeginReport(r)
    BY <1>1 DEF BeginReport
  <1>2. CASE FindProgress(r)
    BY <1>2 DEF FindProgress
  <1>3. CASE WriteProgress(r)
    <2>1. progress' \in Progress \cup {None}
      BY <1>3, StoredTyped DEF WriteProgress
    <2>2. most' \in Progress \cup {None}
      <3>1. report[r].body \in Progress
        BY <1>3 DEF WriteProgress
      <3>2. QED
        BY <1>3, <3>1, AtLeastTyped DEF WriteProgress
    <2>3. QED
      BY <1>3, <2>1, <2>2 DEF WriteProgress, NoReport
  <1>4. QED
    BY <1>1, <1>2, <1>3

LEMMA AdministerTyped == ASSUME Typed, Administer PROVE Typed'
  <1>1. ASSUME AdminStep
        PROVE  view' \in [Views -> ViewRow] /\ adminOps' \in 0..MaxAdminOps
               /\ UNCHANGED <<day, overlapped>>
    <2>1. ASSUME NEW v \in Views
          PROVE  view[v] \in ViewRow /\ [view[v] EXCEPT !.disturbed = TRUE] \in ViewRow
      BY DEF Typed, AccessTypeOK, ViewRow
    <2>2. view' \in [Views -> ViewRow]
      BY <1>1, <2>1 DEF AdminStep
    <2>3. adminOps' \in 0..MaxAdminOps
      BY <1>1, BoundsAssumption DEF AdminStep, Typed, AccessTypeOK
    <2>4. QED
      BY <1>1, <2>2, <2>3 DEF AdminStep
  <1> USE DEF Typed, AccessTypeOK, Bodies, Reporting, ViewRow
  <1>2. ASSUME NEW p \in Products, NEW s \in {"active", "suspended"}, SetEnrollment(p, s)
        PROVE  Typed'
    <2>1. enrollment' \in [Products -> Enrolled]
      BY <1>2 DEF SetEnrollment, Enrolled, Statuses
    <2>2. QED
      BY <1>1, <1>2, <2>1 DEF SetEnrollment
  <1>3. ASSUME NEW ps \in SUBSET Products, ReplaceProductCourses(ps) PROVE Typed'
    BY <1>1, <1>3 DEF ReplaceProductCourses
  <1>4. ASSUME NEW l \in LessonRow, UpdateLesson(l) PROVE Typed'
    BY <1>1, <1>4 DEF UpdateLesson
  <1>5. CASE DeleteLesson
    BY <1>1, <1>5 DEF DeleteLesson
  <1>6. QED
    BY <1>2, <1>3, <1>4, <1>5 DEF Administer

LEMMA NextTyped == ASSUME Typed, [AccessNext]_accessVars PROVE Typed'
  <1>1. CASE NextDay
    BY <1>1, BoundsAssumption
    DEF NextDay, Typed, AccessTypeOK, Bodies, Reporting
  <1>2. CASE UNCHANGED accessVars
    BY <1>2 DEF accessVars, Typed, AccessTypeOK, Bodies, Reporting
  <1>3. QED
    BY <1>1, <1>2, ViewTyped, ReportTyped, AdministerTyped DEF AccessNext

\* Type correctness (services/course.py): every variable keeps its type, and a
\* report under way carries a body, for any products, requests and bounds.
THEOREM TypeCorrect == AccessSpec => []Typed
  <1>1. QED
    BY InitTyped, NextTyped, PTL DEF AccessSpec

-----------------------------------------------------------------------------
(* Progress.                                                                *)

\* The foreign key: no progress without the lesson.
Cascaded == ~prerequisite => progress = None

\* While reports come one after the other, the row is what they said, and the
\* one under way knows it, or the lesson is gone.
Serial ==
  ~overlapped =>
    /\ progress = most
    /\ \A r, o \in Reports : Reporting(r) /\ Reporting(o) => r = o
    /\ \A r \in Reports : report[r].pc = "write" => report[r].copy = progress \/ ~prerequisite

ProgressInv == Typed /\ Cascaded /\ Serial

\* A row changed by what a copy equal to it lacks is the merged row.
LEMMA ChangedFresh ==
  ASSUME NEW a \in Progress, NEW b \in Progress
  PROVE  Changed(a, a, b) = b
  BY DEF Changed, Progress

LEMMA InitProgress == AccessInit => ProgressInv
  BY InitTyped DEF AccessInit, ProgressInv, Cascaded, Serial, Reporting, NoReport

LEMMA ReportProgress ==
  ASSUME ProgressInv, NEW r \in Reports, ReportStep(r)
  PROVE  (Cascaded /\ Serial)'
  <1> USE DEF ProgressInv, ReportStep
  <1>1. report \in [Reports -> [pc : {"idle", "find", "write", "done"},
                                body : Progress \cup {None}, copy : Progress \cup {None}]]
    BY DEF Typed, AccessTypeOK
  <1>2. CASE BeginReport(r)
    <2>1. PICK b \in Progress :
            report' = [report EXCEPT ![r] = [pc |-> "find", body |-> b, copy |-> None]]
      BY <1>2 DEF BeginReport
    <2>2. \A o \in Reports : o # r => report'[o] = report[o]
      BY <1>1, <2>1
    <2>3. report'[r].pc = "find"
      BY <1>1, <2>1
    <2>4. ~overlapped' => ~overlapped /\ \A o \in Reports : ~Reporting(o)
      BY <1>2 DEF BeginReport
    <2>5. UNCHANGED <<prerequisite, progress, most>>
      BY <1>2 DEF BeginReport
    <2>6. ~overlapped' => \A o \in Reports : Reporting(o)' => o = r
      BY <2>2, <2>4 DEF Reporting
    <2>7. QED
      BY <2>2, <2>3, <2>4, <2>5, <2>6 DEF Cascaded, Serial
  <1>3. CASE FindProgress(r)
    BY <1>1, <1>3 DEF FindProgress, Cascaded, Serial, Reporting
  <1>4. CASE WriteProgress(r)
    <2>1. Cascaded'
      BY <1>4 DEF WriteProgress, Storable, Cascaded
    <2>2. ASSUME ~overlapped PROVE progress' = most'
      <3>1. CASE ~Storable(r)
        BY <1>4, <2>2, <3>1 DEF WriteProgress, Serial
      <3>2. CASE Storable(r) /\ report[r].copy = None
        BY <1>4, <2>2, <3>2 DEF WriteProgress, Storable, Stored, Serial
      <3>3. CASE Storable(r) /\ report[r].copy # None
        <4>1. progress # None /\ prerequisite
          BY <3>3 DEF Storable, Cascaded
        <4>2. report[r].copy = progress /\ most = progress
          BY <1>4, <2>2, <4>1 DEF WriteProgress, Serial
        <4>3. progress \in Progress /\ report[r].body \in Progress
          BY <1>4, <4>1 DEF WriteProgress, Typed, AccessTypeOK, Bodies, Reporting
        <4>4. Stored(r) = AtLeast(progress, report[r].body)
          BY <3>3, <4>2, <4>3, AtLeastTyped, ChangedFresh DEF Stored, Merged
        <4>5. QED
          BY <1>4, <3>3, <4>1, <4>2, <4>4 DEF WriteProgress
      <3>4. QED
        BY <3>1, <3>2, <3>3
    <2>3. \A o \in Reports : report'[o].pc = "write" => o # r /\ report[o].pc = "write"
      BY <1>1, <1>4 DEF WriteProgress, NoReport
    <2>4. \A o \in Reports : Reporting(o)' => o # r /\ Reporting(o)
      BY <1>1, <1>4 DEF WriteProgress, NoReport, Reporting
    <2>5. ~overlapped => \A o \in Reports : ~Reporting(o)'
      BY <1>4, <2>4 DEF WriteProgress, Serial, Reporting
    <2>6. QED
      BY <1>4, <2>1, <2>2, <2>5 DEF WriteProgress, Serial, Reporting
  <1>5. QED
    BY <1>2, <1>3, <1>4

LEMMA AdministerProgress == ASSUME ProgressInv, Administer PROVE (Cascaded /\ Serial)'
  <1> USE DEF ProgressInv, Cascaded, Serial, Reporting, AdminStep
  <1>1. CASE DeleteLesson
    BY <1>1 DEF DeleteLesson
  <1>2. ASSUME UNCHANGED <<prerequisite, progress, report, most, overlapped>>
        PROVE  (Cascaded /\ Serial)'
    BY <1>2
  <1>3. QED
    BY <1>1, <1>2 DEF Administer, SetEnrollment, ReplaceProductCourses, UpdateLesson

LEMMA NextProgress == ASSUME ProgressInv, [AccessNext]_accessVars PROVE ProgressInv'
  <1>1. Typed'
    BY NextTyped DEF ProgressInv
  <1>2. UNCHANGED <<prerequisite, progress, report, most, overlapped>> =>
          (Cascaded /\ Serial)'
    BY DEF ProgressInv, Cascaded, Serial, Reporting
  <1>3. CASE UNCHANGED accessVars
    BY <1>1, <1>2, <1>3 DEF accessVars, ProgressInv
  <1>4. CASE NextDay
    BY <1>1, <1>2, <1>4 DEF NextDay, ProgressInv
  <1>5. ASSUME NEW v \in Views, ViewStep(v) PROVE (Cascaded /\ Serial)'
    BY <1>2, <1>5 DEF ViewStep
  <1>6. QED
    BY <1>1, <1>3, <1>4, <1>5, ReportProgress, AdministerProgress
    DEF AccessNext, ProgressInv

LEMMA AlwaysProgress == AccessSpec => []ProgressInv
  BY InitProgress, NextProgress, PTL DEF AccessSpec

\* As long as no two reports overlap, the row holds the longest time and the
\* completion that were reported (services/course.py:265), for any number of
\* reports, whatever is deleted meanwhile.
THEOREM SecondsKept == AccessSpec => []SerialReportsKeepMost
  <1>1. ProgressInv => SerialReportsKeepMost
    BY DEF ProgressInv, Serial, SerialReportsKeepMost
  <1>2. QED
    BY <1>1, AlwaysProgress, PTL

\* No report takes a completion away, however stale its copy
\* (services/course.py:267).
LEMMA StepSticks ==
  ASSUME ProgressInv, Completed, [AccessNext]_accessVars
  PROVE  Completed' \/ ~prerequisite'
  <1> USE DEF Completed
  <1>1. CASE UNCHANGED progress
    BY <1>1
  <1>2. CASE DeleteLesson
    BY <1>2 DEF DeleteLesson
  <1>3. ASSUME NEW r \in Reports, WriteProgress(r), Storable(r) PROVE Completed'
    <2>1. progress \in Progress /\ report[r].copy \in Progress /\ report[r].body \in Progress
      BY <1>3
      DEF WriteProgress, Storable, ProgressInv, Typed, AccessTypeOK, Bodies, Reporting
    <2>2. progress' = Changed(progress, report[r].copy,
                              AtLeast(report[r].copy, report[r].body))
      BY <1>3 DEF WriteProgress, Storable, Stored, Merged
    <2>3. progress'.completed
      BY <2>1, <2>2, Zenon DEF Changed, AtLeast, Progress
    <2>4. progress' # None
      BY <2>1, <2>2, AtLeastTyped, ChangedTyped, NoneAssumption
    <2>5. QED
      BY <2>3, <2>4
  <1>4. QED
    BY <1>1, <1>2, <1>3
    DEF AccessNext, accessVars, ViewStep, ReportStep, BeginReport, FindProgress,
        WriteProgress, NextDay, Administer, SetEnrollment, ReplaceProductCourses,
        UpdateLesson

\* A lesson that a user has completed stays completed while it exists
\* (services/course.py:267), however many reports race.
THEOREM CompletedForGood == AccessSpec => CompletionSticks
  <1>1. ProgressInv /\ [AccessNext]_accessVars =>
          [Completed => Completed' \/ ~prerequisite']_accessVars
    BY StepSticks
  <1>2. QED
    BY <1>1, AlwaysProgress, PTL DEF AccessSpec, CompletionSticks

-----------------------------------------------------------------------------
(* What a view answers.                                                     *)

\* An enrollment's rule is its drip and, if the rule says so, the lesson before.
LEMMA DripAndPrerequisite ==
  ASSUME Typed, NEW p \in Products
  PROVE  IsLessonAccessible(p) <=>
           /\ CheckDrip(lesson.rule, enrollment[p].since)
           /\ lesson.rule = "prerequisite" => Completed
  <1>1. lesson.rule \in Rules
    BY DEF Typed, AccessTypeOK, LessonRow
  <1>2. QED
    BY <1>1 DEF IsLessonAccessible, CheckDrip, Rules

\* As long as no administrator interferes, what a view has read is as it was; it
\* goes on without a product only if none entitles, and a drip that is open stays
\* open.
Follows(it) ==
  IF it.pc \in {"idle", "served", "locked", "refused"} THEN ~it.wasOpen
  ELSE ~it.disturbed =>
    /\ it.copy = lesson
    /\ it.wasOpen => OpenByEveryRule
    /\ it.pc # "prerequisite" => it.open
    /\ it.pc = "course" => it.products = Active
    /\ it.pc = "enrollment" => it.product \in Entitling
    /\ it.pc = "prerequisite" =>
         /\ it.wasOpen => it.open
         /\ \/ lesson.preview /\ Entitling = {}
            \/ \E p \in Entitling : it.open => CheckDrip(lesson.rule, enrollment[p].since)

ViewInv == \A v \in Views : Follows(view[v])

AnswersInv == ProgressInv /\ ViewInv

\* Time and reports open lessons, and never close one.
LEMMA StaysOpen ==
  ASSUME ProgressInv, [AccessNext]_accessVars, UNCHANGED <<lesson, prerequisite, enrollment, linked>>
  PROVE  /\ Active' = Active /\ Entitling' = Entitling
         /\ Completed => Completed'
         /\ \A p \in Products : CheckDrip(lesson.rule, enrollment[p].since) =>
                               CheckDrip(lesson.rule, enrollment[p].since)'
         /\ OpenByEveryRule => OpenByEveryRule'
  <1>1. Typed /\ Typed'
    BY NextTyped DEF ProgressInv
  <1>2. Active' = Active /\ Entitling' = Entitling /\ Entitling \subseteq Products
    BY DEF Active, Entitling
  <1>3. Completed => Completed'
    <2>1. Completed => prerequisite
      BY DEF Completed, ProgressInv, Cascaded
    <2>2. QED
      BY <2>1, StepSticks
  <1>4. day' \in Nat /\ day \in Nat /\ day <= day'
    <2>1. day' \in Nat /\ day \in Nat
      BY <1>1, BoundsAssumption DEF Typed, AccessTypeOK
    <2>2. day' = day \/ day' = day + 1
      BY DEF AccessNext, accessVars, ViewStep, ReportStep, NextDay, Administer, SetEnrollment,
             ReplaceProductCourses, UpdateLesson, DeleteLesson, AdminStep
    <2>3. QED
      BY <2>1, <2>2
  <1>5. ASSUME NEW p \in Products, CheckDrip(lesson.rule, enrollment[p].since)
        PROVE  CheckDrip(lesson.rule, enrollment[p].since)'
    <2>1. enrollment[p].since \in Nat
      BY <1>1, BoundsAssumption DEF Typed, AccessTypeOK, Enrolled
    <2>2. QED
      BY <1>4, <1>5, <2>1, BoundsAssumption DEF CheckDrip
  <1>6. ASSUME NEW p \in Products, IsLessonAccessible(p) PROVE IsLessonAccessible(p)'
    <2>1. /\ CheckDrip(lesson.rule, enrollment[p].since)
          /\ lesson.rule = "prerequisite" => Completed
      BY <1>1, <1>6, DripAndPrerequisite
    <2>2. lesson'.rule \in Rules
      BY <1>1 DEF Typed, AccessTypeOK, LessonRow
    <2>3. /\ CheckDrip(lesson.rule, enrollment[p].since)'
          /\ lesson'.rule = "prerequisite" => Completed'
      BY <1>3, <1>5, <2>1
    <2>4. QED
      BY <2>2, <2>3 DEF IsLessonAccessible, CheckDrip, Rules
  <1>7. OpenByEveryRule => OpenByEveryRule'
    BY <1>2, <1>6 DEF OpenByEveryRule
  <1>8. QED
    BY <1>2, <1>3, <1>5, <1>7

\* A step of a view leads to a row that follows.
LEMMA ViewFollows ==
  ASSUME AnswersInv, NEW v \in Views, ViewStep(v) PROVE ViewInv'
  <1> USE DEF AnswersInv, ProgressInv
  <1> DEFINE it == view[v]
  <1>1. it \in ViewRow /\ view \in [Views -> ViewRow]
    BY DEF Typed, AccessTypeOK, ViewRow
  <1>2. UNCHANGED <<day, lesson, prerequisite, enrollment, linked, progress>>
    BY DEF ViewStep
  <1>3. /\ Active' = Active /\ Entitling' = Entitling /\ OpenByEveryRule' = OpenByEveryRule
        /\ \A p \in Products : CheckDrip(lesson.rule, enrollment[p].since)' =
                              CheckDrip(lesson.rule, enrollment[p].since)
    BY <1>2 DEF Active, Entitling, OpenByEveryRule, IsLessonAccessible, CheckDrip, Completed
  <1>4. SUFFICES \E new : view' = [view EXCEPT ![v] = new] /\ Follows(new)
    <2>1. PICK new : view' = [view EXCEPT ![v] = new] /\ Follows(new)
      BY <1>4
    <2>2. ASSUME NEW u \in Views PROVE Follows(view'[u])
      <3>1. CASE u = v
        BY <1>1, <2>1, <3>1 DEF Follows
      <3>2. CASE u # v
        <4>1. view'[u] = view[u]
          BY <1>1, <2>1, <3>2
        <4>2. QED
          BY <4>1 DEF ViewInv
      <3>3. QED
        BY <3>1, <3>2
    <2>3. \A p \in Entitling : p \in Products
      BY DEF Entitling, Active
    <2>4. ASSUME NEW u \in Views PROVE Follows(view[u])'
      BY <1>2, <1>3, <2>2, <2>3 DEF Follows
    <2>5. QED
      BY <2>4 DEF ViewInv
  <1>5. Follows(it)
    BY DEF ViewInv
  <1>6. ASSUME NEW pc \in {"served", "locked", "refused"}, Answer(v, pc)
        PROVE  \E new : view' = [view EXCEPT ![v] = new] /\ Follows(new)
    <2>1. view' = [view EXCEPT ![v] = [NoView EXCEPT !.pc = pc]]
      BY <1>6 DEF Answer
    <2>2. [NoView EXCEPT !.pc = pc].pc = pc /\ ~[NoView EXCEPT !.pc = pc].wasOpen
      BY DEF NoView
    <2>3. Follows([NoView EXCEPT !.pc = pc])
      BY <2>2 DEF Follows
    <2>4. QED
      BY <2>1, <2>3
  <1>7. CASE OpenLesson(v)
    <2> DEFINE new == [NoView EXCEPT !.pc = "products", !.copy = lesson,
                                     !.wasOpen = OpenByEveryRule]
    <2>1. /\ new.pc = "products" /\ new.copy = lesson /\ new.open = TRUE
          /\ new.wasOpen = OpenByEveryRule
      BY DEF NoView
    <2>2. view' = [view EXCEPT ![v] = new]
      BY <1>7 DEF OpenLesson
    <2> HIDE DEF new
    <2>3. Follows(new)
      BY <2>1 DEF Follows
    <2>4. QED
      BY <2>2, <2>3
  <1>8. ASSUME NotEnrolled(v), it.pc \in {"products", "course"}, Entitling = {}
        PROVE  \E new : view' = [view EXCEPT ![v] = new] /\ Follows(new)
    <2>1. CASE view[v].copy.preview
      <3> DEFINE new == [it EXCEPT !.pc = "prerequisite"]
      <3>1. view' = [view EXCEPT ![v] = new]
        BY <1>8, <2>1 DEF NotEnrolled
      <3>2. /\ new.pc = "prerequisite" /\ new.copy = it.copy /\ new.open = it.open
            /\ new.wasOpen = it.wasOpen /\ new.disturbed = it.disturbed
        BY <1>1 DEF ViewRow
      <3> HIDE DEF new
      <3>3. Follows(new)
        BY <1>5, <1>8, <2>1, <3>2 DEF Follows
      <3>4. QED
        BY <3>1, <3>3
    <2>2. CASE ~view[v].copy.preview
      BY <1>6, <1>8, <2>2 DEF NotEnrolled
    <2>3. QED
      BY <2>1, <2>2
  <1>9. CASE FindProducts(v)
    <2>1. CASE Active = {}
      BY <1>8, <1>9, <2>1 DEF FindProducts, Entitling
    <2>2. CASE Active # {}
      <3> DEFINE new == [it EXCEPT !.pc = "course", !.products = Active]
      <3>1. view' = [view EXCEPT ![v] = new] /\ it.pc = "products"
        BY <1>9, <2>2 DEF FindProducts
      <3>2. /\ new.pc = "course" /\ new.copy = it.copy /\ new.open = it.open
            /\ new.wasOpen = it.wasOpen /\ new.disturbed = it.disturbed
            /\ new.products = Active
        BY <1>1 DEF ViewRow
      <3> HIDE DEF new
      <3>3. Follows(new)
        BY <1>5, <3>1, <3>2 DEF Follows
      <3>4. QED
        BY <3>1, <3>3
    <2>3. QED
      BY <2>1, <2>2
  <1>10. CASE MatchProduct(v)
    <2>1. it.pc = "course" /\ (~it.disturbed => it.products = Active)
      BY <1>5, <1>10 DEF MatchProduct, Follows
    <2>2. CASE it.products \cap linked = {} /\ NotEnrolled(v)
      <3>1. CASE it.disturbed
        <4>1. CASE view[v].copy.preview
          <5>1. view' = [view EXCEPT ![v] = [it EXCEPT !.pc = "prerequisite"]]
            BY <2>2, <4>1 DEF NotEnrolled
          <5>2. /\ [it EXCEPT !.pc = "prerequisite"].disturbed
                /\ [it EXCEPT !.pc = "prerequisite"].pc = "prerequisite"
            BY <1>1, <3>1 DEF ViewRow
          <5>3. QED
            BY <5>1, <5>2 DEF Follows
        <4>2. CASE ~view[v].copy.preview
          BY <1>6, <2>2, <4>2 DEF NotEnrolled
        <4>3. QED
          BY <4>1, <4>2
      <3>2. CASE ~it.disturbed
        BY <1>8, <2>1, <2>2, <3>2 DEF Entitling
      <3>3. QED
        BY <3>1, <3>2
    <2>3. ASSUME NEW p \in it.products \cap linked,
                 view' = [view EXCEPT ![v] = [it EXCEPT !.pc = "enrollment", !.product = p]]
          PROVE  \E new : view' = [view EXCEPT ![v] = new] /\ Follows(new)
      <3> DEFINE new == [it EXCEPT !.pc = "enrollment", !.product = p]
      <3>1. /\ new.pc = "enrollment" /\ new.copy = it.copy /\ new.open = it.open
            /\ new.wasOpen = it.wasOpen /\ new.disturbed = it.disturbed /\ new.product = p
        BY <1>1 DEF ViewRow
      <3>2. view' = [view EXCEPT ![v] = new]
        BY <2>3
      <3> HIDE DEF new
      <3>3. ~it.disturbed => p \in Entitling
        BY <2>1, <2>3 DEF Entitling
      <3>4. Follows(new)
        BY <1>5, <2>1, <3>1, <3>3 DEF Follows
      <3>5. QED
        BY <3>2, <3>4
    <2>4. QED
      BY <1>10, <2>2, <2>3 DEF MatchProduct
  <1>11. CASE ReadEnrollment(v)
    <2> DEFINE p == it.product
               opened == p \in Active => CheckDrip(it.copy.rule, enrollment[p].since)
               new == [it EXCEPT !.pc = "prerequisite", !.open = opened]
    <2>1. it.pc = "enrollment" /\ view' = [view EXCEPT ![v] = new]
      BY <1>11 DEF ReadEnrollment
    <2>2. opened \in BOOLEAN
      OBVIOUS
    <2>3. ASSUME ~it.disturbed
          PROVE  /\ p \in Entitling /\ p \in Products /\ it.copy = lesson
                 /\ opened => CheckDrip(lesson.rule, enrollment[p].since)
                 /\ it.wasOpen => opened
      <3>1. p \in Entitling /\ it.copy = lesson /\ (it.wasOpen => OpenByEveryRule)
        BY <1>5, <2>1, <2>3 DEF Follows
      <3>2. p \in Active /\ p \in Products
        BY <3>1 DEF Entitling, Active
      <3>3. opened <=> CheckDrip(lesson.rule, enrollment[p].since)
        BY <3>1, <3>2
      <3>4. OpenByEveryRule => CheckDrip(lesson.rule, enrollment[p].since)
        BY <3>1, <3>2, DripAndPrerequisite DEF OpenByEveryRule
      <3> HIDE DEF opened
      <3>5. QED
        BY <3>1, <3>2, <3>3, <3>4
    <2> HIDE DEF opened
    <2>4. /\ new.pc = "prerequisite" /\ new.copy = it.copy /\ new.open = opened
          /\ new.wasOpen = it.wasOpen /\ new.disturbed = it.disturbed
      BY <1>1 DEF ViewRow
    <2> HIDE DEF new
    <2>5. Follows(new)
      BY <1>5, <2>1, <2>3, <2>4 DEF Follows
    <2>6. QED
      BY <2>1, <2>5
  <1>12. CASE CheckPrerequisite(v)
    BY <1>6, <1>12 DEF CheckPrerequisite
  <1>13. QED
    BY <1>7, <1>9, <1>10, <1>11, <1>12 DEF ViewStep

LEMMA NextAnswers == ASSUME AnswersInv, [AccessNext]_accessVars PROVE AnswersInv'
  <1> USE DEF AnswersInv
  <1>1. ProgressInv'
    BY NextProgress
  <1>2. CASE Administer
    <2>1. view' = [v \in Views |-> IF Viewing(v) THEN [view[v] EXCEPT !.disturbed = TRUE]
                                  ELSE view[v]]
      BY <1>2 DEF Administer, SetEnrollment, ReplaceProductCourses, UpdateLesson, DeleteLesson,
                  AdminStep
    <2>2. ASSUME NEW v \in Views PROVE Follows(view[v])'
      <3>1. view[v] \in ViewRow /\ Follows(view[v])
        BY DEF ProgressInv, Typed, AccessTypeOK, ViewRow, ViewInv
      <3>2. CASE Viewing(v)
        <4>1. view'[v].disturbed /\ view'[v].pc = view[v].pc
          BY <2>1, <3>1, <3>2 DEF ViewRow
        <4>2. QED
          BY <3>2, <4>1 DEF Follows, Viewing
      <3>3. CASE ~Viewing(v)
        <4>1. view'[v] = view[v]
          BY <2>1, <3>3
        <4>2. QED
          BY <3>1, <3>3, <4>1 DEF Follows, Viewing
      <3>4. QED
        BY <3>2, <3>3
    <2>3. QED
      BY <1>1, <2>2 DEF ViewInv
  <1>3. ASSUME UNCHANGED <<lesson, prerequisite, enrollment, linked, view>> PROVE ViewInv'
    <2>1. /\ Active' = Active /\ Entitling' = Entitling
          /\ \A p \in Products : CheckDrip(lesson.rule, enrollment[p].since) =>
                                CheckDrip(lesson.rule, enrollment[p].since)'
          /\ OpenByEveryRule => OpenByEveryRule'
      BY <1>3, StaysOpen
    <2>2. Entitling \subseteq Products
      BY DEF Entitling, Active
    <2>3. ASSUME NEW v \in Views PROVE Follows(view[v])'
      <3>1. Follows(view[v])
        BY DEF ViewInv
      <3>2. QED
        BY <1>3, <2>1, <2>2, <3>1 DEF Follows
    <2>4. QED
      BY <2>3 DEF ViewInv
  <1>4. CASE NextDay \/ UNCHANGED accessVars \/ \E r \in Reports : ReportStep(r)
    BY <1>1, <1>3, <1>4 DEF NextDay, accessVars, ReportStep
  <1>5. QED
    BY <1>1, <1>2, <1>4, ViewFollows DEF AccessNext

\* What AnswersFollowTheRules says of one view.
Ruled(v) ==
  /\ view[v].pc # "served" /\ view'[v].pc = "served" /\ ~view[v].disturbed =>
       \/ OpenByRule
       \/ lesson.preview /\ Entitling = {} /\ (lesson.rule = "prerequisite" => Completed)
  /\ view[v].wasOpen /\ ~view[v].disturbed => view'[v].pc \notin {"locked", "refused"}

LEMMA StepRuled ==
  ASSUME AnswersInv, [AccessNext]_accessVars, NEW v \in Views PROVE Ruled(v)
  <1>1. /\ view[v] \in ViewRow /\ view \in [Views -> ViewRow] /\ Follows(view[v])
        /\ Typed /\ Entitling \subseteq Products
    BY DEF AnswersInv, ProgressInv, Typed, AccessTypeOK, ViewRow, ViewInv, Entitling, Active
  <1>2. CASE view'[v].pc = view[v].pc
    BY <1>1, <1>2 DEF Ruled, Follows
  <1>3. CASE view'[v].pc \notin {"served", "locked", "refused"}
    BY <1>3 DEF Ruled
  <1>4. ASSUME ~(\E u \in Views : ViewStep(u)) PROVE view'[v].pc = view[v].pc
    <2>1. CASE UNCHANGED view
      BY <2>1
    <2>2. CASE Administer
      <3>1. view' = [u \in Views |-> IF Viewing(u) THEN [view[u] EXCEPT !.disturbed = TRUE]
                                    ELSE view[u]]
        BY <2>2 DEF Administer, SetEnrollment, ReplaceProductCourses, UpdateLesson,
                    DeleteLesson, AdminStep
      <3>2. QED
        BY <1>1, <3>1 DEF ViewRow
    <2>3. QED
      BY <1>4, <2>1, <2>2 DEF AccessNext, accessVars, ReportStep, NextDay
  <1>5. ASSUME NEW u \in Views, u # v, ViewStep(u) PROVE view'[v] = view[v]
    BY <1>1, <1>5
    DEF ViewStep, OpenLesson, FindProducts, MatchProduct, ReadEnrollment, CheckPrerequisite,
        NotEnrolled, Answer
  <1>6. ASSUME ViewStep(v) PROVE Ruled(v)
    <2>1. CASE OpenLesson(v)
      <3>1. view'[v].pc = "products"
        BY <1>1, <2>1 DEF OpenLesson, NoView
      <3>2. QED
        BY <1>3, <3>1
    <2>2. ASSUME NotEnrolled(v), view[v].pc \in {"products", "course"},
                 ~view[v].disturbed => Entitling = {}
          PROVE  Ruled(v)
      <3>1. view'[v].pc \in {"prerequisite", "refused"}
        BY <1>1, <2>2 DEF NotEnrolled, Answer, NoView, ViewRow
      <3>2. ~(view[v].wasOpen /\ ~view[v].disturbed)
        BY <1>1, <2>2 DEF Follows, OpenByEveryRule
      <3>3. QED
        BY <3>1, <3>2 DEF Ruled
    <2>3. CASE FindProducts(v)
      <3>1. CASE Active = {}
        BY <2>2, <2>3, <3>1 DEF FindProducts, Entitling
      <3>2. CASE Active # {}
        <4>1. view'[v].pc = "course"
          BY <1>1, <2>3, <3>2 DEF FindProducts, ViewRow
        <4>2. QED
          BY <1>3, <4>1
      <3>3. QED
        BY <3>1, <3>2
    <2>4. CASE MatchProduct(v)
      <3>1. CASE view[v].products \cap linked = {} /\ NotEnrolled(v)
        BY <1>1, <2>2, <2>4, <3>1 DEF MatchProduct, Follows, Entitling
      <3>2. ASSUME NEW p \in view[v].products \cap linked,
                   view' = [view EXCEPT ![v] = [view[v] EXCEPT !.pc = "enrollment", !.product = p]]
            PROVE  Ruled(v)
        <4>1. view'[v].pc = "enrollment"
          BY <1>1, <3>2 DEF ViewRow
        <4>2. QED
          BY <1>3, <4>1
      <3>3. QED
        BY <2>4, <3>1, <3>2 DEF MatchProduct
    <2>5. CASE ReadEnrollment(v)
      <3>1. view'[v].pc = "prerequisite"
        BY <1>1, <2>5 DEF ReadEnrollment, ViewRow
      <3>2. QED
        BY <1>3, <3>1
    <2>6. CASE CheckPrerequisite(v)
      <3> DEFINE serves == view[v].open /\ (view[v].copy.rule = "prerequisite" => Completed)
      <3>1. /\ view[v].pc = "prerequisite"
            /\ view'[v].pc = IF serves THEN "served" ELSE "locked"
        BY <1>1, <2>6 DEF CheckPrerequisite, Answer, NoView
      <3>2. CASE view[v].disturbed
        BY <3>2 DEF Ruled
      <3>3. CASE ~view[v].disturbed
        <4>1. /\ view[v].copy = lesson /\ (view[v].wasOpen => OpenByEveryRule /\ view[v].open)
              /\ \/ lesson.preview /\ Entitling = {}
                 \/ \E p \in Entitling :
                      view[v].open => CheckDrip(lesson.rule, enrollment[p].since)
          BY <1>1, <3>1, <3>3 DEF Follows
        <4>2. serves => \/ OpenByRule
                        \/ /\ lesson.preview /\ Entitling = {}
                           /\ lesson.rule = "prerequisite" => Completed
          BY <1>1, <4>1, DripAndPrerequisite DEF OpenByRule
        <4>3. view[v].wasOpen => serves
          BY <1>1, <4>1, DripAndPrerequisite DEF OpenByEveryRule
        <4> HIDE DEF serves
        <4>4. QED
          BY <3>1, <4>2, <4>3 DEF Ruled
      <3>4. QED
        BY <3>2, <3>3
    <2>7. QED
      BY <1>6, <2>1, <2>3, <2>4, <2>5, <2>6 DEF ViewStep
  <1>7. QED
    BY <1>2, <1>4, <1>5, <1>6

\* A view answers by what services/drip.py says of one of the enrollments, and
\* serves what is open by all of them (services/course.py:51), for any products
\* and number of requests, if no administrator interferes meanwhile.
THEOREM AnswersByTheRules == AccessSpec => AnswersFollowTheRules
  <1>1. AccessInit => AnswersInv
    BY InitProgress DEF AccessInit, AnswersInv, ViewInv, Follows, NoView
  <1>2. AnswersInv /\ [AccessNext]_accessVars => AnswersInv'
    BY NextAnswers
  <1>3. AnswersInv /\ [AccessNext]_accessVars => \A v \in Views : Ruled(v)
    BY StepRuled
  <1>4. QED
    BY <1>1, <1>2, <1>3, PTL DEF AccessSpec, AnswersFollowTheRules, Ruled

-----------------------------------------------------------------------------
(* Transcription: types.                                                    *)

SubmissionRow == [pc : {"idle", "queued", "submitted", "done"}, job : JobOrNone,
                  tries : 0..MaxRetries]
CallbackRow == [pc : {"idle", "fetched", "found", "loaded", "committed", "cleared"},
                job : JobOrNone, copy : JobOrNone]
SummaryRow == [pc : {"idle", "queued", "writing"}, copy : JobOrNone, tries : 0..MaxRetries]

\* A callback under way is about a job.
JobsNamed == \A c \in Callbacks : callback[c].pc # "idle" => callback[c].job \in Jobs

TranscriptTyped == TranscriptionTypeOK /\ JobsNamed

LEMMA JobFacts == 0 \in JobOrNone /\ Jobs \subseteq JobOrNone /\ 0 \notin Jobs
  BY TranscriptionAssumption DEF JobOrNone, Jobs

LEMMA FreshRows == /\ NewSubmission \in SubmissionRow /\ NoCallback \in CallbackRow
                   /\ NoSummary \in SummaryRow
  BY JobFacts, TranscriptionAssumption
  DEF NewSubmission, NoCallback, NoSummary, SubmissionRow, CallbackRow, SummaryRow

LEMMA InitTranscript == TranscriptionInit => TranscriptTyped
  <1> SUFFICES ASSUME TranscriptionInit PROVE TranscriptTyped
    OBVIOUS
  <1> USE DEF TranscriptionInit
  <1>1. /\ submission \in [Submissions -> SubmissionRow]
        /\ callback \in [Callbacks -> CallbackRow]
        /\ summarizer \in [Summaries -> SummaryRow]
    BY FreshRows
  <1>2. 0 \in 0..MaxDeliveries /\ 0 \in 0..MaxRequests
    BY TranscriptionAssumption
  <1>3. JobsNamed
    BY DEF JobsNamed, NoCallback
  <1>4. TranscriptionTypeOK
    BY <1>1, <1>2, JobFacts
    DEF TranscriptionTypeOK, SubmissionRow, CallbackRow, SummaryRow
  <1>5. QED
    BY <1>3, <1>4 DEF TranscriptTyped

\* A submission changes its own row, the jobs, and what is pending.
LEMMA SubmissionTyped ==
  ASSUME TranscriptTyped, NEW s \in Submissions, SubmissionStep(s) PROVE TranscriptTyped'
  <1> USE DEF TranscriptTyped, SubmissionStep
  <1>1. submission \in [Submissions -> SubmissionRow] /\ submission[s] \in SubmissionRow
    BY DEF TranscriptionTypeOK, SubmissionRow
  <1>2. /\ submission[s].job \in JobOrNone /\ submission[s].tries \in 0..MaxRetries
    BY <1>1 DEF SubmissionRow
  <1>3. SUFFICES /\ \E new \in SubmissionRow : submission' = [submission EXCEPT ![s] = new]
                 /\ jobs' \in JobOrNone /\ pending' \in JobOrNone /\ latest' \in JobOrNone
                 /\ entangled' \in BOOLEAN
    <2>1. PICK new \in SubmissionRow : submission' = [submission EXCEPT ![s] = new]
      BY <1>3
    <2>2. submission' \in [Submissions -> SubmissionRow]
      BY <1>1, <2>1
    <2>3. JobsNamed'
      BY DEF JobsNamed
    <2>4. TranscriptionTypeOK'
      BY <1>3, <2>2 DEF TranscriptionTypeOK, SubmissionRow, row
    <2>5. QED
      BY <2>3, <2>4
  <1>4. /\ jobs \in JobOrNone /\ pending \in JobOrNone /\ latest \in JobOrNone
        /\ entangled \in BOOLEAN
    BY DEF TranscriptionTypeOK
  <1>5. ASSUME NEW pc \in {"idle", "queued", "submitted", "done"}
        PROVE  /\ [submission[s] EXCEPT !.pc = pc] \in SubmissionRow
               /\ [NewSubmission EXCEPT !.pc = pc] \in SubmissionRow
    BY <1>1, FreshRows DEF SubmissionRow
  <1>6. CASE TriggerTranscription(s)
    BY <1>4, <1>5, <1>6 DEF TriggerTranscription
  <1>7. CASE SubmitTranscription(s)
    <2>1. jobs + 1 \in JobOrNone
      BY <1>4, <1>7, TranscriptionAssumption DEF SubmitTranscription, JobOrNone
    <2> DEFINE new == [submission[s] EXCEPT !.pc = "submitted", !.job = jobs + 1]
    <2>2. new \in SubmissionRow
      BY <1>1, <2>1 DEF SubmissionRow
    <2>3. submission' = [submission EXCEPT ![s] = new]
      BY <1>1, <1>7 DEF SubmitTranscription
    <2>4. QED
      BY <1>4, <1>7, <2>1, <2>2, <2>3 DEF SubmitTranscription
  <1>8. CASE RecordJob(s)
    BY <1>2, <1>4, <1>5, <1>8 DEF RecordJob
  <1>9. CASE SubmissionFails(s)
    <2>1. CASE submission[s].tries < MaxRetries
      <3> DEFINE new == [NewSubmission EXCEPT !.pc = "queued", !.tries = submission[s].tries + 1]
      <3>1. submission[s].tries + 1 \in 0..MaxRetries
        BY <1>2, <2>1, TranscriptionAssumption
      <3>2. new \in SubmissionRow
        BY <3>1, FreshRows DEF SubmissionRow
      <3>3. submission' = [submission EXCEPT ![s] = new]
        BY <1>9, <2>1 DEF SubmissionFails
      <3>4. QED
        BY <1>4, <1>9, <3>2, <3>3 DEF SubmissionFails
    <2>2. CASE ~(submission[s].tries < MaxRetries)
      BY <1>4, <1>5, <1>9, <2>2 DEF SubmissionFails
    <2>3. QED
      BY <2>1, <2>2
  <1>10. CASE SubmissionDies(s)
    BY <1>4, <1>5, <1>10 DEF SubmissionDies
  <1>11. QED
    BY <1>6, <1>7, <1>8, <1>9, <1>10

\* The row a callback leaves behind.
LEMMA CallbackMoves ==
  ASSUME TranscriptTyped, NEW c \in Callbacks,
         NEW pc \in {"idle", "fetched", "found", "loaded", "committed", "cleared"}, Goto(c, pc)
  PROVE  /\ callback' \in [Callbacks -> CallbackRow]
         /\ callback'[c].pc = pc /\ callback'[c].copy \in {0, callback[c].copy}
         /\ pc # "idle" => callback'[c].job = callback[c].job /\ callback'[c].copy = callback[c].copy
         /\ \A d \in Callbacks : d # c => callback'[d] = callback[d]
  <1>1. callback \in [Callbacks -> CallbackRow] /\ callback[c] \in CallbackRow
    BY DEF TranscriptTyped, TranscriptionTypeOK, CallbackRow
  <1>2. CASE pc = "idle"
    <2>1. callback' = [callback EXCEPT ![c] = NoCallback]
      BY <1>2 DEF Goto
    <2>2. QED
      BY <1>1, <1>2, <2>1, FreshRows DEF NoCallback
  <1>3. CASE pc # "idle"
    <2>1. callback' = [callback EXCEPT ![c] = [callback[c] EXCEPT !.pc = pc]]
      BY <1>1, <1>3 DEF Goto
    <2>2. [callback[c] EXCEPT !.pc = pc] \in CallbackRow
      BY <1>1 DEF CallbackRow
    <2>3. QED
      BY <1>1, <1>3, <2>1, <2>2 DEF CallbackRow
  <1>4. QED
    BY <1>2, <1>3

\* The step that takes a callback from "found" to "loaded", told apart because
\* it alone copies the row; the others move on or go.
LEMMA CallbackRows ==
  ASSUME TranscriptTyped, NEW c \in Callbacks, CallbackStep(c)
  PROVE  /\ callback' \in [Callbacks -> CallbackRow] /\ JobsNamed'
         /\ \A d \in Callbacks : d # c => callback'[d] = callback[d]
  <1> USE DEF TranscriptTyped, CallbackStep
  <1>1. callback \in [Callbacks -> CallbackRow] /\ callback[c] \in CallbackRow
    BY DEF TranscriptionTypeOK, CallbackRow
  <1>2. CASE \E j \in Jobs : ReceiveCallback(c, j)
    <2>1. PICK j \in Jobs : callback' = [callback EXCEPT ![c] =
            [pc |-> "fetched", job |-> j, copy |-> 0]]
      BY <1>2 DEF ReceiveCallback
    <2>2. [pc |-> "fetched", job |-> j, copy |-> 0] \in CallbackRow
      BY JobFacts DEF CallbackRow
    <2>3. QED
      BY <1>1, <2>1, <2>2 DEF JobsNamed
  <1>3. CASE LoadLesson(c) /\ lessonThere
    <2> DEFINE new == [callback[c] EXCEPT !.pc = "loaded", !.copy = text]
    <2>1. callback' = [callback EXCEPT ![c] = new]
      BY <1>1, <1>3 DEF LoadLesson
    <2>2. new \in CallbackRow /\ new.job = callback[c].job
      BY <1>1 DEF CallbackRow, TranscriptionTypeOK
    <2>3. callback[c].pc # "idle"
      BY <1>3 DEF LoadLesson
    <2> HIDE DEF new
    <2>4. QED
      BY <1>1, <2>1, <2>2, <2>3 DEF JobsNamed
  <1>4. ASSUME NEW pc \in {"idle", "fetched", "found", "loaded", "committed", "cleared"},
               Goto(c, pc), callback[c].pc # "idle"
        PROVE  /\ callback' \in [Callbacks -> CallbackRow] /\ JobsNamed'
               /\ \A d \in Callbacks : d # c => callback'[d] = callback[d]
    BY <1>4, CallbackMoves DEF JobsNamed
  <1>5. CASE FindLesson(c)
    BY <1>4, <1>5 DEF FindLesson
  <1>6. CASE LoadLesson(c) /\ ~lessonThere
    BY <1>4, <1>6 DEF LoadLesson
  <1>7. CASE CommitTranscript(c)
    <2>1. callback[c].pc = "loaded"
      BY <1>7 DEF CommitTranscript
    <2>2. Goto(c, "committed") \/ Goto(c, "idle")
      BY <1>7 DEF CommitTranscript
    <2>3. QED
      BY <1>4, <2>1, <2>2
  <1>8. CASE ClearPending(c)
    BY <1>4, <1>8 DEF ClearPending
  <1>9. CASE SendSummary(c)
    BY <1>4, <1>9 DEF SendSummary
  <1>10. CASE CallbackFails(c)
    BY <1>4, <1>10 DEF CallbackFails
  <1>11. QED
    BY <1>2, <1>3, <1>5, <1>6, <1>7, <1>8, <1>9, <1>10

LEMMA QueueTyped ==
  ASSUME TranscriptTyped, QueueSummary
  PROVE  /\ summarizer' \in [Summaries -> SummaryRow]
         /\ \E z \in Summaries : /\ summarizer[z].pc = "idle" /\ summarizer'[z].pc = "queued"
                                 /\ \A y \in Summaries : y # z => summarizer'[y] = summarizer[y]
  <1>1. summarizer \in [Summaries -> SummaryRow]
    BY DEF TranscriptTyped, TranscriptionTypeOK, SummaryRow
  <1>2. PICK z \in Summaries :
          /\ summarizer[z].pc = "idle"
          /\ summarizer' = [summarizer EXCEPT ![z] = [summarizer[z] EXCEPT !.pc = "queued"]]
    BY DEF QueueSummary
  <1>3. [summarizer[z] EXCEPT !.pc = "queued"] \in SummaryRow
    BY <1>1 DEF SummaryRow
  <1>4. summarizer'[z].pc = "queued"
    BY <1>1, <1>2 DEF SummaryRow
  <1>5. QED
    BY <1>1, <1>2, <1>3, <1>4

LEMMA CallbackTyped ==
  ASSUME TranscriptTyped, NEW c \in Callbacks, CallbackStep(c) PROVE TranscriptTyped'
  <1> USE DEF TranscriptTyped
  <1>1. callback' \in [Callbacks -> CallbackRow] /\ JobsNamed'
    BY CallbackRows
  <1>2. UNCHANGED <<lessonThere, summary, jobs, submission, requests, latest, entangled, crossed>>
    BY DEF CallbackStep
  <1> DEFINE Rest == /\ text' \in JobOrNone /\ tsv' \in JobOrNone /\ pending' \in JobOrNone
                     /\ summarizer' \in [Summaries -> SummaryRow]
                     /\ deliveries' \in 0..MaxDeliveries /\ stored' \subseteq Jobs
                     /\ repeated' \in BOOLEAN /\ lost' \in BOOLEAN
  <1>3. SUFFICES Rest
    BY <1>1, <1>2, <1>3 DEF TranscriptionTypeOK, CallbackRow, SummaryRow
  <1>4. /\ text \in JobOrNone /\ tsv \in JobOrNone /\ pending \in JobOrNone
        /\ summarizer \in [Summaries -> SummaryRow]
        /\ deliveries \in 0..MaxDeliveries /\ stored \subseteq Jobs
        /\ repeated \in BOOLEAN /\ lost \in BOOLEAN
    BY DEF TranscriptionTypeOK, SummaryRow
  <1>5. CASE \E j \in Jobs : ReceiveCallback(c, j)
    <2>1. deliveries' \in 0..MaxDeliveries
      BY <1>4, <1>5, TranscriptionAssumption DEF ReceiveCallback
    <2>2. QED
      BY <1>4, <1>5, <2>1 DEF ReceiveCallback
  <1>6. CASE FindLesson(c)
    BY <1>4, <1>6 DEF FindLesson
  <1>7. CASE LoadLesson(c)
    BY <1>4, <1>7 DEF LoadLesson
  <1>8. CASE CommitTranscript(c)
    <2>1. callback[c].job \in Jobs /\ callback[c].job \in JobOrNone
      BY <1>8, JobFacts DEF CommitTranscript, JobsNamed
    <2>2. QED
      BY <1>4, <1>8, <2>1 DEF CommitTranscript, Indexed
  <1>9. CASE ClearPending(c)
    BY <1>4, <1>9, JobFacts DEF ClearPending
  <1>10. CASE SendSummary(c)
    BY <1>4, <1>10, QueueTyped DEF SendSummary
  <1>11. CASE CallbackFails(c)
    BY <1>4, <1>11 DEF CallbackFails
  <1>12. QED
    BY <1>5, <1>6, <1>7, <1>8, <1>9, <1>10, <1>11 DEF CallbackStep

LEMMA SummaryRows ==
  ASSUME TranscriptTyped, NEW z \in Summaries,
         ReadTranscript(z) \/ WriteSummary(z) \/ SummaryFails(z) \/ SummaryDies(z)
  PROVE  /\ summarizer' \in [Summaries -> SummaryRow]
         /\ \A y \in Summaries : y # z => summarizer'[y] = summarizer[y]
         /\ \/ summarizer'[z] = NoSummary
            \/ /\ ReadTranscript(z) /\ WorthSummarizing
               /\ summarizer'[z].pc = "writing" /\ summarizer'[z].copy = text
            \/ SummaryFails(z) /\ summarizer'[z].pc = "queued"
  <1>1. summarizer \in [Summaries -> SummaryRow] /\ summarizer[z] \in SummaryRow
    BY DEF TranscriptTyped, TranscriptionTypeOK, SummaryRow
  <1>2. SUFFICES \E new \in SummaryRow :
          /\ summarizer' = [summarizer EXCEPT ![z] = new]
          /\ \/ new = NoSummary
             \/ ReadTranscript(z) /\ WorthSummarizing /\ new.pc = "writing" /\ new.copy = text
             \/ SummaryFails(z) /\ new.pc = "queued"
    BY <1>1, FreshRows
  <1>3. CASE ReadTranscript(z)
    <2> DEFINE new == [summarizer[z] EXCEPT !.pc = "writing", !.copy = text]
    <2>1. new \in SummaryRow /\ new.pc = "writing" /\ new.copy = text
      BY <1>1 DEF SummaryRow, TranscriptTyped, TranscriptionTypeOK
    <2>2. summarizer' = [summarizer EXCEPT ![z] = IF WorthSummarizing THEN new ELSE NoSummary]
      BY <1>3 DEF ReadTranscript
    <2> HIDE DEF new
    <2>3. CASE WorthSummarizing
      BY <1>3, <2>1, <2>2, <2>3
    <2>4. CASE ~WorthSummarizing
      BY <2>2, <2>4, FreshRows
    <2>5. QED
      BY <2>3, <2>4
  <1>4. CASE WriteSummary(z)
    BY <1>4, FreshRows DEF WriteSummary
  <1>5. CASE SummaryDies(z)
    BY <1>5, FreshRows DEF SummaryDies
  <1>6. CASE SummaryFails(z)
    <2> DEFINE new == [NoSummary EXCEPT !.pc = "queued", !.tries = summarizer[z].tries + 1]
    <2>1. CASE summarizer[z].tries < MaxRetries
      <3>1. summarizer[z].tries + 1 \in 0..MaxRetries
        BY <1>1, <2>1, TranscriptionAssumption DEF SummaryRow
      <3>2. new \in SummaryRow /\ new.pc = "queued"
        BY <3>1, FreshRows DEF SummaryRow
      <3>3. summarizer' = [summarizer EXCEPT ![z] = new]
        BY <1>6, <2>1 DEF SummaryFails, AfterSummaryFails
      <3>4. QED
        BY <1>6, <3>2, <3>3
    <2>2. CASE ~(summarizer[z].tries < MaxRetries)
      BY <1>6, <2>2, FreshRows DEF SummaryFails, AfterSummaryFails
    <2>3. QED
      BY <2>1, <2>2
  <1>7. QED
    BY <1>3, <1>4, <1>5, <1>6

LEMMA SummaryTyped == ASSUME TranscriptTyped, SummaryStep PROVE TranscriptTyped'
  <1> USE DEF TranscriptTyped
  <1>1. UNCHANGED <<lessonThere, text, tsv, pending, jobs, submission, callback, deliveries,
                    latest, stored, entangled, repeated>>
    BY DEF SummaryStep
  <1>2. SUFFICES /\ summary' \in JobOrNone /\ summarizer' \in [Summaries -> SummaryRow]
                 /\ requests' \in 0..MaxRequests /\ crossed' \in BOOLEAN /\ lost' \in BOOLEAN
    BY <1>1, <1>2 DEF TranscriptionTypeOK, SummaryRow, JobsNamed
  <1>3. /\ summary \in JobOrNone /\ requests \in 0..MaxRequests
        /\ crossed \in BOOLEAN /\ lost \in BOOLEAN
        /\ \A z \in Summaries : summarizer[z].copy \in JobOrNone
    BY DEF TranscriptionTypeOK
  <1>4. CASE TriggerSummary
    <2>1. requests' \in 0..MaxRequests
      BY <1>3, <1>4, TranscriptionAssumption DEF TriggerSummary
    <2>2. QED
      BY <1>3, <1>4, <2>1, QueueTyped DEF TriggerSummary
  <1>5. ASSUME NEW z \in Summaries,
               ReadTranscript(z) \/ WriteSummary(z) \/ SummaryFails(z) \/ SummaryDies(z)
        PROVE  /\ summary' \in JobOrNone /\ summarizer' \in [Summaries -> SummaryRow]
               /\ requests' \in 0..MaxRequests /\ crossed' \in BOOLEAN /\ lost' \in BOOLEAN
    BY <1>3, <1>5, SummaryRows DEF ReadTranscript, WriteSummary, SummaryFails, SummaryDies
  <1>6. QED
    BY <1>4, <1>5 DEF SummaryStep

LEMMA NextTranscript ==
  ASSUME TranscriptTyped, [TranscriptionNext]_transcriptionVars PROVE TranscriptTyped'
  <1>1. CASE RemoveLesson
    BY <1>1, JobFacts
    DEF RemoveLesson, history, TranscriptTyped, TranscriptionTypeOK, JobsNamed
  <1>2. CASE UNCHANGED transcriptionVars
    BY <1>2 DEF transcriptionVars, row, history, TranscriptTyped, TranscriptionTypeOK, JobsNamed
  <1>3. QED
    BY <1>1, <1>2, SubmissionTyped, CallbackTyped, SummaryTyped DEF TranscriptionNext

-----------------------------------------------------------------------------
(* Transcription: text, index and the hash.                                 *)

\* A session that goes on to write the vector goes on to write the text.
IndexInv ==
  /\ TextAndIndexAgree
  /\ \A c \in Callbacks :
       callback[c].pc = "loaded" /\ ~repeated => callback[c].copy # callback[c].job

\* What the row or a copy of it holds was stored, and so was a callback's job
\* once it is committed.
StoredBefore ==
  /\ text # 0 => text \in stored
  /\ \A c \in Callbacks :
       /\ callback[c].copy # 0 => callback[c].copy \in stored
       /\ callback[c].pc = "committed" => callback[c].job \in stored

\* The hash holds the latest job or none; until a job is recorded in the middle
\* of a callback, the callback's job is the latest.
PendingInv ==
  /\ pending \in {0, latest}
  /\ ~entangled => \A c \in Callbacks :
       callback[c].pc \in {"found", "loaded", "committed"} => callback[c].job = latest
  /\ RecordedJobsStayPending

TranscriptInv == TranscriptTyped /\ IndexInv /\ StoredBefore /\ PendingInv

LEMMA CallbackTranscript ==
  ASSUME TranscriptInv, NEW c \in Callbacks, CallbackStep(c)
  PROVE  (IndexInv /\ StoredBefore /\ PendingInv)'
  <1> USE DEF TranscriptInv
  <1>1. UNCHANGED <<lessonThere, latest, entangled>>
    BY DEF CallbackStep
  <1>2. \A d \in Callbacks : d # c => callback'[d] = callback[d]
    BY CallbackRows
  <1>3. callback \in [Callbacks -> CallbackRow]
    BY DEF TranscriptTyped, TranscriptionTypeOK, CallbackRow
  <1> USE DEF IndexInv, StoredBefore, PendingInv, TextAndIndexAgree, RecordedJobsStayPending
  <1>4. CASE \E j \in Jobs : ReceiveCallback(c, j)
    <2>1. PICK j \in Jobs : callback' = [callback EXCEPT ![c] =
            [pc |-> "fetched", job |-> j, copy |-> 0]]
      BY <1>4 DEF ReceiveCallback
    <2>2. callback'[c].pc = "fetched" /\ callback'[c].copy = 0
      BY <1>3, <2>1
    <2>3. UNCHANGED <<text, tsv, pending, stored, repeated>>
      BY <1>4 DEF ReceiveCallback
    <2>4. QED
      BY <1>1, <1>2, <2>2, <2>3
  <1>5. CASE FindLesson(c)
    <2>1. UNCHANGED <<text, tsv, pending, stored, repeated>> /\ callback[c].pc = "fetched"
      BY <1>5 DEF FindLesson
    <2>2. callback[c].job # 0
      BY <2>1, JobFacts DEF TranscriptTyped, JobsNamed
    <2>3. CASE pending = callback[c].job
      <3>1. Goto(c, "found") /\ callback[c].job = latest
        BY <1>5, <2>2, <2>3 DEF FindLesson
      <3>2. callback'[c].pc = "found" /\ callback'[c].job = latest
            /\ callback'[c].copy = callback[c].copy
        BY <3>1, CallbackMoves
      <3>3. QED
        BY <1>1, <1>2, <2>1, <3>2
    <2>4. CASE pending # callback[c].job
      <3>1. callback'[c].pc = "idle" /\ callback'[c].copy \in {0, callback[c].copy}
        BY <1>5, <2>4, CallbackMoves DEF FindLesson
      <3>2. QED
        BY <1>1, <1>2, <2>1, <3>1
    <2>5. QED
      BY <2>3, <2>4
  <1>6. CASE LoadLesson(c) /\ lessonThere
    <2>1. /\ UNCHANGED <<text, tsv, pending, stored>> /\ callback[c].pc = "found"
          /\ callback' = [callback EXCEPT ![c].pc = "loaded", ![c].copy = text]
      BY <1>6 DEF LoadLesson
    <2>2. /\ callback'[c].pc = "loaded" /\ callback'[c].copy = text
          /\ callback'[c].job = callback[c].job
      BY <1>3, <2>1 DEF CallbackRow
    <2>3. ~repeated' => ~repeated /\ text # callback[c].job
      BY <1>6 DEF LoadLesson
    <2>4. IndexInv'
      BY <1>2, <2>1, <2>2, <2>3
    <2>5. StoredBefore'
      <3>1. UNCHANGED <<text, stored>> /\ (text # 0 => text \in stored)
        BY <2>1
      <3>2. ASSUME NEW d \in Callbacks
            PROVE  /\ callback'[d].copy # 0 => callback'[d].copy \in stored
                   /\ callback'[d].pc = "committed" => callback'[d].job \in stored
        <4>1. CASE d = c
          BY <2>2, <3>1, <4>1
        <4>2. CASE d # c
          BY <1>2, <4>2
        <4>3. QED
          BY <4>1, <4>2
      <3>3. QED
        BY <3>1, <3>2
    <2>6. PendingInv'
      BY <1>1, <1>2, <2>1, <2>2
    <2>7. QED
      BY <2>4, <2>5, <2>6
  <1>7. CASE LoadLesson(c) /\ ~lessonThere
    <2>1. /\ UNCHANGED <<text, tsv, pending, stored>> /\ Goto(c, "idle")
          /\ repeated' = repeated
      BY <1>7 DEF LoadLesson, TranscriptTyped, TranscriptionTypeOK
    <2>2. callback'[c].pc = "idle" /\ callback'[c].copy \in {0, callback[c].copy}
      BY <2>1, CallbackMoves
    <2>3. QED
      BY <1>1, <1>2, <2>1, <2>2
  <1>8. CASE CommitTranscript(c)
    <2> DEFINE j == callback[c].job
    <2>1. callback[c].pc = "loaded" /\ j \in Jobs /\ j # 0
      BY <1>8, JobFacts DEF CommitTranscript, TranscriptTyped, JobsNamed
    <2>2. UNCHANGED <<pending, repeated>>
      BY <1>8 DEF CommitTranscript
    <2>3. CASE lessonThere
      <3>1. /\ text' = (IF callback[c].copy # j THEN j ELSE text) /\ tsv' = j
            /\ stored' = stored \cup {j} /\ Goto(c, "committed")
        BY <1>8, <2>3 DEF CommitTranscript, Indexed
      <3>2. /\ callback'[c].pc = "committed" /\ callback'[c].job = j
            /\ callback'[c].copy = callback[c].copy
        BY <3>1, CallbackMoves
      <3> HIDE DEF j
      <3>3. QED
        BY <1>1, <1>2, <2>1, <2>2, <3>1, <3>2 DEF j
    <2>4. CASE ~lessonThere /\ callback[c].copy # j
      <3>1. UNCHANGED <<text, tsv, stored>> /\ Goto(c, "idle")
        BY <1>8, <2>4 DEF CommitTranscript
      <3>2. callback'[c].pc = "idle" /\ callback'[c].copy \in {0, callback[c].copy}
        BY <3>1, CallbackMoves
      <3>3. QED
        BY <1>1, <1>2, <2>2, <3>1, <3>2
    <2>5. CASE ~lessonThere /\ callback[c].copy = j
      <3>1. UNCHANGED <<text, tsv, stored>> /\ Goto(c, "committed")
        BY <1>8, <2>5 DEF CommitTranscript
      <3>2. /\ callback'[c].pc = "committed" /\ callback'[c].job = j
            /\ callback'[c].copy = callback[c].copy
        BY <3>1, CallbackMoves
      <3>3. QED
        BY <1>1, <1>2, <2>1, <2>2, <2>5, <3>1, <3>2
    <2>6. QED
      BY <2>3, <2>4, <2>5
  <1>9. CASE ClearPending(c)
    <2>1. /\ UNCHANGED <<text, tsv, stored, repeated>> /\ pending' = 0
          /\ callback[c].pc = "committed" /\ Goto(c, "cleared")
      BY <1>9 DEF ClearPending
    <2>2. callback'[c].pc = "cleared" /\ callback'[c].copy = callback[c].copy
      BY <2>1, CallbackMoves
    <2>3. ~entangled => latest \in stored
      BY <2>1
    <2>4. RecordedJobsStayPending'
      BY <1>1, <2>1, <2>3
    <2>5. /\ pending' \in {0, latest'}
          /\ ~entangled' => \A d \in Callbacks :
               callback'[d].pc \in {"found", "loaded", "committed"} => callback'[d].job = latest'
      BY <1>1, <1>2, <2>1, <2>2
    <2>6. IndexInv' /\ StoredBefore'
      BY <1>1, <1>2, <2>1, <2>2
    <2>7. QED
      BY <2>4, <2>5, <2>6
  <1>10. CASE SendSummary(c) \/ CallbackFails(c)
    <2>1. UNCHANGED <<text, tsv, pending, stored, repeated>> /\ Goto(c, "idle")
      BY <1>10 DEF SendSummary, CallbackFails
    <2>2. callback'[c].pc = "idle" /\ callback'[c].copy \in {0, callback[c].copy}
      BY <2>1, CallbackMoves
    <2>3. QED
      BY <1>1, <1>2, <2>1, <2>2
  <1>11. QED
    BY <1>4, <1>5, <1>6, <1>7, <1>8, <1>9, <1>10 DEF CallbackStep

LEMMA SubmissionTranscript ==
  ASSUME TranscriptInv, NEW s \in Submissions, SubmissionStep(s)
  PROVE  (IndexInv /\ StoredBefore /\ PendingInv)'
  <1> USE DEF TranscriptInv, IndexInv, StoredBefore, PendingInv, TextAndIndexAgree,
              RecordedJobsStayPending
  <1>1. UNCHANGED <<text, tsv, callback, stored, repeated>>
    BY DEF SubmissionStep, row
  <1>2. CASE RecordJob(s)
    BY <1>1, <1>2 DEF RecordJob
  <1>3. CASE UNCHANGED <<pending, latest, entangled>>
    BY <1>1, <1>3
  <1>4. QED
    BY <1>2, <1>3 DEF SubmissionStep, TriggerTranscription, SubmitTranscription,
                      SubmissionFails, SubmissionDies

LEMMA AlwaysTranscript == TranscriptionSpec => []TranscriptInv
  <1> DEFINE Inv == IndexInv /\ StoredBefore /\ PendingInv
  <1>1. TranscriptionInit => TranscriptInv
    BY InitTranscript
    DEF TranscriptionInit, TranscriptInv, IndexInv, StoredBefore, PendingInv, TextAndIndexAgree,
        RecordedJobsStayPending, NoCallback
  <1>2. ASSUME TranscriptInv, [TranscriptionNext]_transcriptionVars PROVE TranscriptInv'
    <2>1. TranscriptTyped'
      BY <1>2, NextTranscript DEF TranscriptInv
    <2>2. UNCHANGED <<text, tsv, pending, callback, latest, stored, entangled, repeated>> => Inv'
      BY <1>2 DEF TranscriptInv, IndexInv, StoredBefore, PendingInv, TextAndIndexAgree,
                  RecordedJobsStayPending
    <2>3. CASE SummaryStep
      BY <2>1, <2>2, <2>3 DEF SummaryStep, TranscriptInv
    <2>4. CASE UNCHANGED transcriptionVars
      BY <2>1, <2>2, <2>4 DEF transcriptionVars, row, history, TranscriptInv
    <2>5. CASE RemoveLesson
      BY <1>2, <2>1, <2>5
      DEF RemoveLesson, history, TranscriptInv, IndexInv, StoredBefore, PendingInv,
          TextAndIndexAgree, RecordedJobsStayPending
    <2>6. QED
      BY <1>2, <2>1, <2>3, <2>4, <2>5, CallbackTranscript, SubmissionTranscript
      DEF TranscriptionNext, TranscriptInv
  <1>3. QED
    BY <1>1, <1>2, PTL DEF TranscriptionSpec

\* Text and search vector are of one job (services/internal.py:54), for any
\* number of jobs and callbacks, unless a callback found its own text stored.
THEOREM SearchFindsTheText == TranscriptionSpec => []TextAndIndexAgree
  <1>1. TranscriptInv => TextAndIndexAgree
    BY DEF TranscriptInv, IndexInv
  <1>2. QED
    BY <1>1, AlwaysTranscript, PTL

\* The job recorded last waits in the hash until its transcript is stored
\* (services/internal.py:66), for any number of jobs and callbacks, unless it was
\* recorded in the middle of one.
THEOREM JobsStayPending == TranscriptionSpec => []RecordedJobsStayPending
  <1>1. TranscriptInv => RecordedJobsStayPending
    BY DEF TranscriptInv, PendingInv
  <1>2. QED
    BY <1>1, AlwaysTranscript, PTL

-----------------------------------------------------------------------------
(* Transcription: the summary.                                              *)

\* Somebody has still to read the transcript.
Due == \/ \E c \in Callbacks : callback[c].pc \in {"committed", "cleared"}
       \/ \E z \in Summaries : summarizer[z].pc = "queued"

Writing(z) == summarizer[z].pc = "writing"

\* If nobody has still to read, and there is something to read, the summary is the
\* text's or the text's is being written, and no other.
SummaryInv ==
  /\ ~lessonThere => text = 0 /\ summary = 0
  /\ lessonThere /\ text = 0 => summary = 0 /\ \A z \in Summaries : ~Writing(z)
  /\ lessonThere /\ ~lost /\ ~crossed =>
       \/ Due \/ text \in Silent
       \/ /\ summary = text \/ \E z \in Summaries : Writing(z)
          /\ \A z \in Summaries : Writing(z) => summarizer[z].copy = text

QuietInv == TranscriptTyped /\ SummaryInv

LEMMA CallbackSummary ==
  ASSUME QuietInv, NEW c \in Callbacks, CallbackStep(c) PROVE SummaryInv'
  <1> USE DEF QuietInv
  <1>1. UNCHANGED <<lessonThere, summary, crossed>>
    BY DEF CallbackStep
  <1>2. \A d \in Callbacks : d # c => callback'[d] = callback[d]
    BY CallbackRows
  <1>3. ASSUME UNCHANGED <<text, summarizer, lost>>,
               callback[c].pc \in {"committed", "cleared"} =>
                 callback'[c].pc \in {"committed", "cleared"}
        PROVE  SummaryInv'
    <2>1. Due => Due'
      <3>1. ASSUME NEW d \in Callbacks, callback[d].pc \in {"committed", "cleared"}
            PROVE  callback'[d].pc \in {"committed", "cleared"}
        BY <1>2, <1>3, <3>1
      <3>2. QED
        BY <1>3, <3>1 DEF Due
    <2>2. \A z \in Summaries : Writing(z)' = Writing(z)
      BY <1>3 DEF Writing
    <2>3. QED
      BY <1>1, <1>3, <2>1, <2>2 DEF SummaryInv
  <1>4. CASE \E j \in Jobs : ReceiveCallback(c, j)
    BY <1>3, <1>4 DEF ReceiveCallback
  <1>5. CASE FindLesson(c)
    BY <1>3, <1>5 DEF FindLesson
  <1>6. CASE LoadLesson(c)
    BY <1>3, <1>6 DEF LoadLesson
  <1>7. CASE CommitTranscript(c)
    <2>1. /\ UNCHANGED <<summarizer, lost>> /\ callback[c].pc = "loaded"
          /\ callback[c].job \in Jobs /\ callback[c].job # 0
      BY <1>7, JobFacts DEF CommitTranscript, TranscriptTyped, JobsNamed
    <2>2. CASE lessonThere
      <3>1. /\ text' = (IF callback[c].copy # callback[c].job THEN callback[c].job ELSE text)
            /\ Goto(c, "committed")
        BY <1>7, <2>2 DEF CommitTranscript
      <3>2. callback'[c].pc = "committed"
        BY <3>1, CallbackMoves
      <3>3. Due'
        BY <3>2 DEF Due
      <3>4. text' = 0 => text = 0
        BY <2>1, <3>1
      <3>5. QED
        BY <1>1, <2>1, <2>2, <3>3, <3>4 DEF SummaryInv, Writing
    <2>3. CASE ~lessonThere
      <3>1. text' = text
        BY <1>7, <2>3 DEF CommitTranscript
      <3>2. QED
        BY <1>1, <2>3, <3>1 DEF SummaryInv
    <2>4. QED
      BY <2>2, <2>3
  <1>8. CASE ClearPending(c)
    <2>1. callback'[c].pc = "cleared"
      BY <1>8, CallbackMoves DEF ClearPending
    <2>2. QED
      BY <1>3, <1>8, <2>1 DEF ClearPending
  <1>9. CASE SendSummary(c)
    <2>1. UNCHANGED <<text, lost>> /\ QueueSummary
      BY <1>9 DEF SendSummary
    <2>2. PICK z \in Summaries :
            /\ summarizer[z].pc = "idle" /\ summarizer'[z].pc = "queued"
            /\ \A y \in Summaries : y # z => summarizer'[y] = summarizer[y]
      BY <2>1, QueueTyped
    <2>3. Due' /\ \A y \in Summaries : Writing(y)' => Writing(y)
      BY <2>2 DEF Due, Writing
    <2>4. QED
      BY <1>1, <2>1, <2>3 DEF SummaryInv
  <1>10. CASE CallbackFails(c)
    <2>1. /\ UNCHANGED <<text, summarizer>>
          /\ ~lost' => ~lost /\ callback[c].pc \notin {"committed", "cleared"}
      BY <1>10 DEF CallbackFails
    <2>2. CASE lost'
      BY <1>1, <2>1, <2>2 DEF SummaryInv, Writing
    <2>3. CASE ~lost'
      <3>1. lost' = lost
        <4>1. lost \in BOOLEAN /\ lost' \in BOOLEAN
          BY CallbackTyped DEF TranscriptTyped, TranscriptionTypeOK
        <4>2. QED
          BY <2>1, <2>3, <4>1
      <3>2. QED
        BY <1>3, <2>1, <2>3, <3>1
    <2>4. QED
      BY <2>2, <2>3
  <1>11. QED
    BY <1>4, <1>5, <1>6, <1>7, <1>8, <1>9, <1>10 DEF CallbackStep

LEMMA SummarizerSummary == ASSUME QuietInv, SummaryStep PROVE SummaryInv'
  <1> USE DEF QuietInv
  <1>1. UNCHANGED <<lessonThere, text, callback>>
    BY DEF SummaryStep
  <1>2. CASE TriggerSummary
    <2>1. UNCHANGED <<summary, crossed, lost>> /\ QueueSummary
      BY <1>2 DEF TriggerSummary
    <2>2. PICK z \in Summaries :
            /\ summarizer[z].pc = "idle" /\ summarizer'[z].pc = "queued"
            /\ \A y \in Summaries : y # z => summarizer'[y] = summarizer[y]
      BY <2>1, QueueTyped
    <2>3. Due' /\ \A y \in Summaries : Writing(y)' => Writing(y)
      BY <2>2 DEF Due, Writing
    <2>4. QED
      BY <1>1, <2>1, <2>3 DEF SummaryInv
  <1>3. ASSUME NEW z \in Summaries,
               ReadTranscript(z) \/ WriteSummary(z) \/ SummaryFails(z) \/ SummaryDies(z)
        PROVE  SummaryInv'
    <2>1. /\ \A y \in Summaries : y # z => summarizer'[y] = summarizer[y]
          /\ \/ summarizer'[z] = NoSummary
             \/ /\ ReadTranscript(z) /\ WorthSummarizing
                /\ summarizer'[z].pc = "writing" /\ summarizer'[z].copy = text
             \/ SummaryFails(z) /\ summarizer'[z].pc = "queued"
      BY <1>3, SummaryRows
    <2>2. NoSummary.pc = "idle"
      BY DEF NoSummary
    <2>3. CASE ReadTranscript(z)
      <3>1. /\ UNCHANGED <<summary, lost>> /\ summarizer[z].pc = "queued"
            /\ ~crossed' => ~crossed /\ \A y \in Summaries : ~Writing(y)
        BY <2>3 DEF ReadTranscript, Writing
      <3>2. CASE WorthSummarizing
        <4>1. \/ summarizer'[z] = NoSummary
              \/ summarizer'[z].pc = "writing" /\ summarizer'[z].copy = text
              \/ summarizer'[z].pc = "queued"
          BY <2>1
        <4>2. summarizer'[z].pc = "writing" /\ summarizer'[z].copy = text
          <5>1. summarizer' = [summarizer EXCEPT ![z] =
                  [summarizer[z] EXCEPT !.pc = "writing", !.copy = text]]
            BY <2>3, <3>2 DEF ReadTranscript
          <5>2. QED
            BY <5>1 DEF TranscriptTyped, TranscriptionTypeOK
        <4>3. lessonThere /\ text # 0
          BY <3>2 DEF WorthSummarizing
        <4>4. ASSUME ~crossed'
              PROVE  /\ \E y \in Summaries : Writing(y)'
                     /\ \A y \in Summaries : Writing(y)' => summarizer'[y].copy = text
          BY <2>1, <3>1, <4>2, <4>4 DEF Writing
        <4>5. QED
          BY <1>1, <4>3, <4>4 DEF SummaryInv
      <3>3. CASE ~WorthSummarizing
        <4>1. summarizer'[z].pc = "idle"
          <5>1. summarizer' = [summarizer EXCEPT ![z] = NoSummary]
            BY <2>3, <3>3 DEF ReadTranscript
          <5>2. QED
            BY <5>1, <2>2 DEF TranscriptTyped, TranscriptionTypeOK
        <4>2. ~lessonThere \/ text = 0 \/ text \in Silent
          BY <3>3 DEF WorthSummarizing
        <4>3. \A y \in Summaries : Writing(y)' => Writing(y)
          BY <2>1, <4>1 DEF Writing
        <4>4. QED
          BY <1>1, <3>1, <4>2, <4>3 DEF SummaryInv
      <3>4. QED
        BY <3>2, <3>3
    <2>4. CASE WriteSummary(z)
      <3>1. /\ UNCHANGED <<crossed, lost>> /\ Writing(z) /\ lessonThere
            /\ summary' = summarizer[z].copy
        BY <2>4 DEF WriteSummary, Writing
      <3>2. summarizer'[z].pc = "idle"
        BY <2>1, <2>2, <2>4, <3>1 DEF WriteSummary, TranscriptTyped, TranscriptionTypeOK
      <3>3. text # 0
        BY <3>1 DEF SummaryInv
      <3>4. \A y \in Summaries :
              Writing(y)' => Writing(y) /\ summarizer'[y].copy = summarizer[y].copy
        BY <2>1, <3>2 DEF Writing
      <3>5. Due => Due'
        BY <1>1, <2>1, <3>1 DEF Due, Writing
      <3>6. QED
        BY <1>1, <3>1, <3>3, <3>4, <3>5 DEF SummaryInv
    <2>5. CASE SummaryFails(z)
      <3>1. UNCHANGED <<summary, crossed>> /\ (lost => lost')
        BY <2>5 DEF SummaryFails, AfterSummaryFails
      <3>2. \A y \in Summaries : Writing(y)' => Writing(y)
        BY <2>1, <2>2, <2>5 DEF Writing, ReadTranscript, SummaryFails
      <3>3. lost' \/ Due'
        <4>1. CASE summarizer[z].tries < MaxRetries
          <5>1. summarizer' = [summarizer EXCEPT ![z] =
                  [NoSummary EXCEPT !.pc = "queued", !.tries = summarizer[z].tries + 1]]
            BY <2>5, <4>1 DEF SummaryFails, AfterSummaryFails
          <5>2. summarizer'[z].pc = "queued"
            BY <5>1 DEF NoSummary, TranscriptTyped, TranscriptionTypeOK
          <5>3. QED
            BY <5>2 DEF Due
        <4>2. CASE ~(summarizer[z].tries < MaxRetries)
          <5>1. summarizer[z].tries \in 0..MaxRetries
            BY DEF TranscriptTyped, TranscriptionTypeOK
          <5>2. summarizer[z].tries = MaxRetries
            BY <4>2, <5>1, TranscriptionAssumption
          <5>3. QED
            BY <2>5, <5>2 DEF SummaryFails, AfterSummaryFails
        <4>3. QED
          BY <4>1, <4>2
      <3>4. QED
        BY <1>1, <3>1, <3>2, <3>3 DEF SummaryInv
    <2>6. CASE SummaryDies(z)
      <3>1. lost' /\ summary' = summary
        BY <2>6 DEF SummaryDies
      <3>2. summarizer' = [summarizer EXCEPT ![z] = NoSummary]
        BY <2>6 DEF SummaryDies
      <3>3. \A y \in Summaries : Writing(y)' => Writing(y)
        BY <2>2, <3>2 DEF Writing, TranscriptTyped, TranscriptionTypeOK
      <3>4. QED
        BY <1>1, <3>1, <3>3 DEF SummaryInv
    <2>7. QED
      BY <1>3, <2>3, <2>4, <2>5, <2>6
  <1>4. QED
    BY <1>2, <1>3 DEF SummaryStep

LEMMA AlwaysQuiet == TranscriptionSpec => []QuietInv
  <1>1. TranscriptionInit => QuietInv
    BY InitTranscript DEF TranscriptionInit, QuietInv, SummaryInv, Writing, NoSummary
  <1>2. ASSUME QuietInv, [TranscriptionNext]_transcriptionVars PROVE QuietInv'
    <2>1. TranscriptTyped'
      BY <1>2, NextTranscript DEF QuietInv
    <2>2. UNCHANGED <<lessonThere, text, summary, callback, summarizer, lost, crossed>> =>
            SummaryInv'
      BY <1>2 DEF QuietInv, SummaryInv, Due, Writing
    <2>3. CASE \E s \in Submissions : SubmissionStep(s)
      BY <2>1, <2>2, <2>3 DEF SubmissionStep, row, QuietInv
    <2>4. CASE UNCHANGED transcriptionVars
      BY <2>1, <2>2, <2>4 DEF transcriptionVars, row, history, QuietInv
    <2>5. CASE RemoveLesson
      BY <2>1, <2>5 DEF RemoveLesson, QuietInv, SummaryInv
    <2>6. QED
      BY <1>2, <2>1, <2>3, <2>4, <2>5, CallbackSummary, SummarizerSummary
      DEF TranscriptionNext, QuietInv
  <1>3. QED
    BY <1>1, <1>2, PTL DEF TranscriptionSpec

\* When the tasks are done, the summary is of the stored transcript
\* (tasks/transcription.py:52), unless that has no words, for any number of
\* callbacks, summaries and retries, if none was lost and no two were written at
\* once.
THEOREM SummaryIsCurrent == TranscriptionSpec => []QuietSummaryIsCurrent
  <1>1. QuietInv => QuietSummaryIsCurrent
    BY DEF QuietInv, SummaryInv, QuietSummaryIsCurrent, Due, Writing
  <1>2. QED
    BY <1>1, AlwaysQuiet, PTL
==============================================================================
