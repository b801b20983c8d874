----------------------------- MODULE CourseAccess ----------------------------
(* One student and one lesson that opens by a drip rule: the enrollments    *)
(* and the products that give the course, the progress on the lesson that   *)
(* has to be completed first, and the requests that view the one and report *)
(* on the other (services/course.py), beside administrators who change it   *)
(* all (services/enrollment.py, product.py, admin_course.py).               *)
EXTENDS Integers, FiniteSets

CONSTANTS
  Products,       \* products the student may have
  Views,          \* calls of get_lesson_detail
  Reports,        \* calls of update_lesson_progress
  Seconds,        \* watch_seconds they may send
  Watched,        \* those a row may have to begin with
  DripDay,        \* the date, and the days after enrollment, of the two timed rules
  MaxDay,
  MaxAdminOps,
  None

ASSUME BoundsAssumption ==
  /\ Seconds \subseteq Nat /\ Watched \subseteq Seconds
  /\ DripDay \in Nat /\ MaxDay \in Nat /\ MaxAdminOps \in Nat

Rules == {"immediate", "fixed_date", "days_after_enrollment", "prerequisite"}
Statuses == {"none", "active", "suspended"}

VARIABLES
  day,            \* the current date
  lesson,         \* the lesson's row: drip_type and is_free_preview
  prerequisite,   \* whether the lesson that comes first still exists
  enrollment,     \* of each product: status and date of creation
  linked,         \* the products that hold the course (product_courses)
  progress,       \* the row of lesson_progress for the lesson that comes first
  view, report,   \* of each request: control point and what it has read
  adminOps,
  most,           \* history: the most that the stored reports said
  overlapped      \* history: whether two reports were under way at once

accessVars == <<day, lesson, prerequisite, enrollment, linked, progress, view, report,
                adminOps, most, overlapped>>

Progress == [watch : Seconds, completed : BOOLEAN]
LessonRow == [rule : Rules, preview : BOOLEAN]
Enrolled == [status : Statuses, since : 0..MaxDay]

ASSUME NoneAssumption == None \notin Products /\ None \notin Progress

NoView == [pc |-> "idle", copy |-> [rule |-> "immediate", preview |-> FALSE],
           products |-> {}, product |-> None, open |-> TRUE, wasOpen |-> FALSE, disturbed |-> FALSE]
NoReport == [pc |-> "idle", body |-> None, copy |-> None]

AccessInit ==
  /\ day = 0
  /\ lesson \in LessonRow
  /\ prerequisite = TRUE
  /\ enrollment \in [Products -> {[status |-> s, since |-> 0] : s \in {"none", "active"}}]
  /\ linked = Products
  /\ progress \in {None} \cup {[watch |-> w, completed |-> FALSE] : w \in Watched}
  /\ view = [v \in Views |-> NoView]
  /\ report = [r \in Reports |-> NoReport]
  /\ adminOps = 0
  /\ most = progress
  /\ overlapped = FALSE

Active == {p \in Products : enrollment[p].status = "active"}
Completed == progress # None /\ progress.completed

-----------------------------------------------------------------------------
(* The drip rule, as services/drip.py states it and no request calls it.    *)

IsLessonAccessible(p) ==
  CASE lesson.rule = "immediate" -> TRUE
    [] lesson.rule = "fixed_date" -> day >= DripDay
    [] lesson.rule = "days_after_enrollment" -> day >= enrollment[p].since + DripDay
    [] lesson.rule = "prerequisite" -> Completed

Entitling == Active \cap linked
OpenByRule == \E p \in Entitling : IsLessonAccessible(p)
OpenByEveryRule == Entitling # {} /\ \A p \in Entitling : IsLessonAccessible(p)

-----------------------------------------------------------------------------
(* get_lesson_detail, a SELECT a step.                                      *)

Viewing(v) == view[v].pc \notin {"idle", "served", "locked", "refused"}

\* The lesson is read once; every later decision is by this copy.
OpenLesson(v) ==
  /\ view[v].pc = "idle"
  /\ view' = [view EXCEPT ![v] = [NoView EXCEPT !.pc = "products", !.copy = lesson,
                                                !.wasOpen = OpenByEveryRule]]

Answer(v, result) == view' = [view EXCEPT ![v] = [NoView EXCEPT !.pc = result]]

\* Without an enrollment only a free preview goes on, and only to the
\* prerequisite.
NotEnrolled(v) ==
  IF view[v].copy.preview THEN view' = [view EXCEPT ![v].pc = "prerequisite"]
  ELSE Answer(v, "refused")

FindProducts(v) ==
  /\ view[v].pc = "products"
  /\ IF Active = {} THEN NotEnrolled(v)
     ELSE view' = [view EXCEPT ![v] = [@ EXCEPT !.pc = "course", !.products = Active]]

\* LIMIT 1 without an order: any of the products that hold the course.
MatchProduct(v) ==
  /\ view[v].pc = "course"
  /\ \/ /\ view[v].products \cap linked = {}
        /\ NotEnrolled(v)
     \/ \E p \in view[v].products \cap linked :
          view' = [view EXCEPT ![v] = [@ EXCEPT !.pc = "enrollment", !.product = p]]

\* Faulty variant: the lesson opens on the day after.
CheckDripLate(rule, since) ==
  CASE rule = "fixed_date" -> day > DripDay
    [] rule = "days_after_enrollment" -> day > since + DripDay
    [] OTHER -> TRUE

CheckDrip(rule, since) ==
  CASE rule = "fixed_date" -> day >= DripDay
    [] rule = "days_after_enrollment" -> day >= since + DripDay
    [] OTHER -> TRUE

\* An enrollment that ended since its product was read is None, and no drip is
\* checked for it.
ReadEnrollment(v) ==
  /\ view[v].pc = "enrollment"
  /\ LET p == view[v].product
     IN  view' = [view EXCEPT ![v] = [@ EXCEPT !.pc = "prerequisite",
           !.open = p \in Active => CheckDrip(view[v].copy.rule, enrollment[p].since)]]

CheckPrerequisite(v) ==
  /\ view[v].pc = "prerequisite"
  /\ Answer(v, IF view[v].open /\ (view[v].copy.rule = "prerequisite" => Completed)
                 THEN "served" ELSE "locked")

ViewStep(v) ==
  /\ OpenLesson(v) \/ FindProducts(v) \/ MatchProduct(v) \/ ReadEnrollment(v)
     \/ CheckPrerequisite(v)
  /\ UNCHANGED <<day, lesson, prerequisite, enrollment, linked, progress, report, adminOps,
                 most, overlapped>>

-----------------------------------------------------------------------------
(* update_lesson_progress on the lesson that comes first.                   *)

Reporting(r) == report[r].pc \in {"find", "write"}

BeginReport(r) ==
  /\ report[r].pc = "idle" /\ prerequisite
  /\ \E b \in Progress :
       report' = [report EXCEPT ![r] = [pc |-> "find", body |-> b, copy |-> None]]
  /\ overlapped' = (overlapped \/ \E o \in Reports : Reporting(o))
  /\ UNCHANGED <<progress, most>>

FindProgress(r) ==
  /\ report[r].pc = "find"
  /\ report' = [report EXCEPT ![r] = [@ EXCEPT !.pc = "write", !.copy = progress]]
  /\ UNCHANGED <<progress, most, overlapped>>

\* The longer time, and a completion if there is one.
AtLeast(a, b) ==
  [watch |-> IF a.watch > b.watch THEN a.watch ELSE b.watch,
   completed |-> a.completed \/ b.completed]

\* Faulty variant: the time reported last is stored, however short.
MergedLast(copy, body) == [watch |-> body.watch, completed |-> copy.completed \/ body.completed]

\* Faulty variant: the time is kept, the completion is not.
MergedUncompleted(copy, body) == [AtLeast(copy, body) EXCEPT !.completed = body.completed]

\* The session's copy of the row with the report worked into it.
Merged(copy, body) == AtLeast(copy, body)

\* The UPDATE names the columns that differ from the copy, and only those.
Changed(row, old, new) ==
  [watch |-> IF new.watch # old.watch THEN new.watch ELSE row.watch,
   completed |-> IF new.completed # old.completed THEN new.completed ELSE row.completed]

Stored(r) ==
  LET copy == report[r].copy
      body == report[r].body
  IN  IF copy = None THEN body ELSE Changed(progress, copy, Merged(copy, body))

\* The INSERT needs the lesson and no other row, the UPDATE needs its row.
Storable(r) ==
  IF report[r].copy = None THEN prerequisite /\ progress = None ELSE progress # None

WriteProgress(r) ==
  /\ report[r].pc = "write"
  /\ IF Storable(r)
       THEN /\ progress' = Stored(r)
            /\ most' = IF most = None THEN report[r].body ELSE AtLeast(most, report[r].body)
       ELSE UNCHANGED <<progress, most>>   \* the request fails
  /\ report' = [report EXCEPT ![r] = [NoReport EXCEPT !.pc = "done"]]
  /\ UNCHANGED overlapped

ReportStep(r) ==
  /\ BeginReport(r) \/ FindProgress(r) \/ WriteProgress(r)
  /\ UNCHANGED <<day, lesson, prerequisite, enrollment, linked, view, adminOps>>

-----------------------------------------------------------------------------
(* Time and administrators.                                                 *)

NextDay ==
  /\ day < MaxDay
  /\ day' = day + 1
  /\ UNCHANGED <<lesson, prerequisite, enrollment, linked, progress, view, report, adminOps,
                 most, overlapped>>

AdminStep ==
  /\ adminOps < MaxAdminOps
  /\ adminOps' = adminOps + 1
  /\ view' = [v \in Views |-> IF Viewing(v) THEN [view[v] EXCEPT !.disturbed = TRUE]
                              ELSE view[v]]
  /\ UNCHANGED <<day, overlapped>>

\* An enrollment is created, suspended or made active again.
SetEnrollment(p, s) ==
  /\ AdminStep
  /\ enrollment' = [enrollment EXCEPT ![p] =
       [status |-> s, since |-> IF @.status = "none" THEN day ELSE @.since]]
  /\ UNCHANGED <<lesson, prerequisite, linked, progress, report, most>>

\* A product's links are deleted and inserted in one transaction.
ReplaceProductCourses(ps) ==
  /\ AdminStep
  /\ linked' = ps
  /\ UNCHANGED <<lesson, prerequisite, enrollment, progress, report, most>>

UpdateLesson(row) ==
  /\ AdminStep
  /\ lesson' = row
  /\ UNCHANGED <<prerequisite, enrollment, linked, progress, report, most>>

\* The progress goes with the lesson; drip_value goes on naming it.
DeleteLesson ==
  /\ AdminStep
  /\ prerequisite /\ prerequisite' = FALSE
  /\ progress' = None /\ most' = None
  /\ UNCHANGED <<lesson, enrollment, linked, report>>

Administer ==
  \/ \E p \in Products, s \in {"active", "suspended"} : SetEnrollment(p, s)
  \/ \E ps \in SUBSET Products : ReplaceProductCourses(ps)
  \/ \E row \in LessonRow : UpdateLesson(row)
  \/ DeleteLesson

AccessNext ==
  \/ \E v \in Views : ViewStep(v)
  \/ \E r \in Reports : ReportStep(r)
  \/ NextDay \/ Administer

AccessSpec == AccessInit /\ [][AccessNext]_accessVars

-----------------------------------------------------------------------------
(* The properties.                                                          *)

AccessTypeOK ==
  /\ day \in 0..MaxDay /\ lesson \in LessonRow /\ prerequisite \in BOOLEAN
  /\ enrollment \in [Products -> Enrolled] /\ linked \subseteq Products
  /\ progress \in Progress \cup {None}
  /\ view \in [Views -> [pc : {"idle", "products", "course", "enrollment", "prerequisite",
                               "served", "locked", "refused"},
                         copy : LessonRow, products : SUBSET Products,
                         product : Products \cup {None}, open : BOOLEAN,
                         wasOpen : BOOLEAN, disturbed : BOOLEAN]]
  /\ report \in [Reports -> [pc : {"idle", "find", "write", "done"},
                             body : Progress \cup {None}, copy : Progress \cup {None}]]
  /\ adminOps \in 0..MaxAdminOps /\ most \in Progress \cup {None} /\ overlapped \in BOOLEAN

\* A completed lesson stays completed while it exists, however many requests
\* report on it by older copies of its row (services/course.py:267).
CompletionSticks == [][Completed => Completed' \/ ~prerequisite']_accessVars

\* As long as no two reports overlap, the row holds the most that was reported:
\* the longest time, and a completion if there was one (services/course.py:265).
SerialReportsKeepMost == ~overlapped => progress = most

\* What a request answers, unless an administrator interfered meanwhile, is what
\* services/drip.py says of one of the student's enrollments; and a lesson that is
\* open by all of them when the request comes in is served, whichever it picks.
AnswersFollowTheRules ==
  [][\A v \in Views :
       /\ view[v].pc # "served" /\ view'[v].pc = "served" /\ ~view[v].disturbed =>
            \/ OpenByRule
            \/ lesson.preview /\ Entitling = {} /\ (lesson.rule = "prerequisite" => Completed)
       /\ view[v].wasOpen /\ ~view[v].disturbed =>
            view'[v].pc \notin {"locked", "refused"}]_accessVars
==============================================================================
