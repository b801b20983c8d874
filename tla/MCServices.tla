------------------------------ MODULE MCServices ------------------------------
(* The services around a lesson and around an account: access to a lesson,  *)
(* the progress on it, its transcript, sessions, the tenant cache,          *)
(* campaigns, notifications, push subscriptions and conversations.  They    *)
(* share no row and no key, so each is checked on its own, one after the    *)
(* other, in one run.                                                       *)
EXTENDS CourseAccess, LessonTranscription, Sessions, TenantCache, Campaigns,
        Broadcasts, PushSubscriptions, Conversations, TLC

CONSTANTS a1, a2, b1, b2, x1, v1, v2

VARIABLE part

\* Three values: what is stored, what is reported, and what is lost in between.
SomeSeconds == {1, 2, 3}
OneSecond == {1}

\* Of three recordings the second is silent: one comes before it, one after.
SecondIsSilent == {2}

\* How a part starts while another one is checked.
Still == lesson = [rule |-> "immediate", preview |-> FALSE] /\ Active = {}
Hostless == \A t \in Tenants : tenants[t].custom = NoHost /\ tenants[t].sub = NoHost

Init ==
  /\ part \in {"access", "progress", "transcript", "sessions", "cache", "campaign",
              "broadcast", "push", "messages"}
  /\ AccessInit /\ TranscriptionInit /\ SessionsInit /\ CacheInit /\ CampaignInit
  /\ BroadcastInit /\ PushInit /\ ConversationInit
  /\ part # "progress" => progress = None
  /\ part # "access" => Still
  /\ part # "cache" => Hostless
  /\ part # "broadcast" => members = {}

\* How long a lesson was watched opens no other: one length will do for access.
ShortReports == \A r \in Reports : report'[r].body # None => report'[r].body.watch = 1

LessonNext ==
  \/ part = "access" /\ AccessNext /\ ShortReports /\ UNCHANGED transcriptionVars
  \/ /\ part = "progress" /\ (DeleteLesson \/ \E r \in Reports : ReportStep(r))
     /\ UNCHANGED transcriptionVars
  \/ part = "transcript" /\ TranscriptionNext /\ UNCHANGED accessVars

PlatformNext ==
  \/ part = "sessions" /\ SessionsNext /\ UNCHANGED <<cacheVars, campaignVars>>
  \/ part = "cache" /\ CacheNext /\ UNCHANGED <<sessionVars, campaignVars>>
  \/ part = "campaign" /\ CampaignNext /\ UNCHANGED <<sessionVars, cacheVars>>

MessageNext ==
  \/ part = "broadcast" /\ BroadcastNext /\ UNCHANGED <<pushVars, conversationVars>>
  \/ part = "push" /\ PushNext /\ UNCHANGED <<broadcastVars, conversationVars>>
  \/ part = "messages" /\ ConversationNext /\ UNCHANGED <<broadcastVars, pushVars>>

lessonVars == <<accessVars, transcriptionVars>>
platformVars == <<sessionVars, cacheVars, campaignVars>>
messageVars == <<broadcastVars, pushVars, conversationVars>>

Next ==
  /\ \/ LessonNext /\ UNCHANGED <<platformVars, messageVars>>
     \/ PlatformNext /\ UNCHANGED <<lessonVars, messageVars>>
     \/ MessageNext /\ UNCHANGED <<lessonVars, platformVars>>
  /\ UNCHANGED part

Spec == Init /\ [][Next]_<<part, lessonVars, platformVars, messageVars>>

\* The parts use the same model values.
Slots == Permutations({a1, a2}) \cup Permutations({b1, b2})
==============================================================================
