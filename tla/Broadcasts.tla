----------------------------- MODULE Broadcasts ------------------------------
(* Notifications for everybody: an administrator's request, which writes a  *)
(* row for every user and sends a task for every row                        *)
(* (services/notification.py, broadcast_notification), and the tasks, each  *)
(* of which publishes its notification to every user and sends a push task  *)
(* for each (tasks/notification.py, dispatch_broadcast_notification_task).  *)
(* What Redis publishes reaches whoever listens and leaves no state: it is  *)
(* left out, its exceptions being caught on the spot.                       *)
EXTENDS Integers

CONSTANTS
  Members,         \* users the tenant may have
  Announcements,   \* calls of broadcast_notification
  NoticeRetries    \* max_retries of the task

ASSUME BroadcastAssumption == NoticeRetries \in Nat

Notices == Announcements \X Members   \* a row of notifications, and its task

VARIABLES
  members,         \* the tenant's users; nothing in the program deletes one
  notices,         \* the committed rows
  announcer,       \* of each call: control point and the users still to do
  notifier,        \* of each task: the same, and its retries
  pushes           \* how many push tasks each task has sent to each user

broadcastVars == <<members, notices, announcer, notifier, pushes>>

BroadcastInit ==
  /\ members \in SUBSET Members
  /\ notices = {}
  /\ announcer = [a \in Announcements |-> [pc |-> "idle", todo |-> {}]]
  /\ notifier = [n \in Notices |-> [pc |-> "none", todo |-> {}, tries |-> 0]]
  /\ pushes = [n \in Notices |-> [u \in Members |-> 0]]

MemberRegisters(u) ==
  /\ members' = members \cup {u}
  /\ UNCHANGED <<notices, announcer, notifier, pushes>>

-----------------------------------------------------------------------------
(* The administrator's request.                                             *)

AnnouncerGoes(a, pc, S) == announcer' = [announcer EXCEPT ![a] = [pc |-> pc, todo |-> S]]

ListMembers(a) ==
  /\ announcer[a].pc = "idle"
  /\ AnnouncerGoes(a, "rows", members)
  /\ UNCHANGED <<members, notices, notifier, pushes>>

\* All rows in one transaction.
CommitNotices(a) ==
  /\ announcer[a].pc = "rows"
  /\ notices' = notices \cup ({a} \X announcer[a].todo)
  /\ AnnouncerGoes(a, "dispatch", announcer[a].todo)
  /\ UNCHANGED <<members, notifier, pushes>>

DispatchNotice(a, u) ==
  /\ announcer[a].pc = "dispatch" /\ u \in announcer[a].todo
  /\ notifier' = [notifier EXCEPT ![<<a, u>>].pc = "queued"]
  /\ AnnouncerGoes(a, "dispatch", announcer[a].todo \ {u})
  /\ UNCHANGED <<members, notices, pushes>>

AnswerBroadcast(a) ==
  /\ announcer[a].pc = "dispatch" /\ announcer[a].todo = {}
  /\ AnnouncerGoes(a, "answered", {})
  /\ UNCHANGED <<members, notices, notifier, pushes>>

\* The database or the broker: rows that are committed stay, with their tasks
\* or without.
BroadcastFails(a) ==
  /\ announcer[a].pc \in {"rows", "dispatch"}
  /\ AnnouncerGoes(a, "failed", {})
  /\ UNCHANGED <<members, notices, notifier, pushes>>

-----------------------------------------------------------------------------
(* The task.                                                                *)

\* It asks for the users of the tenant, whoever its notification is for.
StartNotice(n) ==
  /\ notifier[n].pc = "queued"
  /\ notifier' = [notifier EXCEPT ![n].pc = "running", ![n].todo = members]
  /\ UNCHANGED <<members, notices, announcer, pushes>>

PushTo(n, u) ==
  /\ notifier[n].pc = "running" /\ u \in notifier[n].todo
  /\ notifier' = [notifier EXCEPT ![n].todo = @ \ {u}]
  /\ pushes' = [pushes EXCEPT ![n][u] = @ + 1]
  /\ UNCHANGED <<members, notices, announcer>>

NoticeDone(n) ==
  /\ notifier[n].pc = "running" /\ notifier[n].todo = {}
  /\ notifier' = [notifier EXCEPT ![n].pc = "done"]
  /\ UNCHANGED <<members, notices, announcer, pushes>>

\* Faulty variant: the exception is logged like that of a publication.
AfterNoticeFailsLogged(n) == [notifier[n] EXCEPT !.pc = "done"]

\* self.retry starts again with the first user.
AfterNoticeFails(n) ==
  IF notifier[n].tries < NoticeRetries
    THEN [pc |-> "queued", todo |-> {}, tries |-> notifier[n].tries + 1]
    ELSE [notifier[n] EXCEPT !.pc = "failed"]

\* The SELECT, or the broker, for a push task.
NoticeFails(n) ==
  /\ notifier[n].pc \in {"queued", "running"}
  /\ notifier' = [notifier EXCEPT ![n] = AfterNoticeFails(n)]
  /\ UNCHANGED <<members, notices, announcer, pushes>>

NoticeDies(n) ==
  /\ notifier[n].pc \in {"queued", "running"}
  /\ notifier' = [notifier EXCEPT ![n].pc = "lost"]
  /\ UNCHANGED <<members, notices, announcer, pushes>>

BroadcastNext ==
  \/ \E u \in Members : MemberRegisters(u)
  \/ \E a \in Announcements :
       \/ ListMembers(a) \/ CommitNotices(a) \/ AnswerBroadcast(a) \/ BroadcastFails(a)
       \/ \E u \in Members : DispatchNotice(a, u)
  \/ \E n \in Notices :
       \/ StartNotice(n) \/ NoticeDone(n) \/ NoticeFails(n) \/ NoticeDies(n)
       \/ \E u \in Members : PushTo(n, u)

BroadcastSpec == BroadcastInit /\ [][BroadcastNext]_broadcastVars

-----------------------------------------------------------------------------
(* The properties.                                                          *)

BroadcastTypeOK ==
  /\ members \subseteq Members /\ notices \subseteq Notices
  /\ announcer \in [Announcements ->
       [pc : {"idle", "rows", "dispatch", "answered", "failed"}, todo : SUBSET Members]]
  /\ notifier \in [Notices ->
       [pc : {"none", "queued", "running", "done", "failed", "lost"},
        todo : SUBSET Members, tries : Nat]]
  /\ pushes \in [Notices -> [Members -> Nat]]

\* A broadcast that is answered has a row and a task for each of the same users,
\* and one that is not has for nobody a task without a row; a task that comes to
\* its end has reached everybody with a row, those included who were reached
\* before it was retried, and nobody more often than it was tried
\* (tasks/notification.py:52, services/notification.py:100).
EverybodyIsNotified ==
  /\ \A n \in Notices :
       /\ notifier[n].pc # "none" => n \in notices
       /\ n \in notices /\ announcer[n[1]].pc = "answered" => notifier[n].pc # "none"
       /\ \A u \in Members : pushes[n][u] <= notifier[n].tries + 1
  /\ \A n \in notices :
       notifier[n].pc = "done" =>
         \A u \in Members : <<n[1], u>> \in notices => pushes[n][u] > 0
==============================================================================
