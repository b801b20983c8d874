---------------------------- MODULE Conversations ----------------------------
(* Conversations between users: requests that create one, which is          *)
(* committed before its participants are, and requests that write into one, *)
(* whose message is committed before the others are told                    *)
(* (services/message.py).  Redis is configured; without it nobody is told.  *)

CONSTANTS
  People,        \* the users
  Nobody,        \* identifiers no user has
  Founders,      \* calls of create_conversation; a conversation is its call
  Posters,       \* calls of send_message; a message is its call
  Nowhere        \* no conversation and no user

ASSUME ConversationAssumption ==
  People \cap Nobody = {} /\ Nowhere \notin Founders \cup People

VARIABLES
  conversations, \* the rows of conversations
  participants,  \* of conversation_participants: conversation and user
  founder,       \* of each call: control point and who shall take part
  poster,        \* of each call: control point, conversation, sender, who is left
  messages,      \* the rows of messages
  told           \* who has been told of which message

conversationVars == <<conversations, participants, founder, poster, messages, told>>

ConversationInit ==
  /\ conversations = {} /\ participants = {} /\ messages = {} /\ told = {}
  /\ founder = [c \in Founders |-> [pc |-> "idle", named |-> {}]]
  /\ poster = [q \in Posters |->
       [pc |-> "idle", into |-> Nowhere, by |-> Nowhere, left |-> {}]]

ParticipantsOf(c) == {u \in People : <<c, u>> \in participants}

-----------------------------------------------------------------------------
(* create_conversation.                                                     *)

CommitConversation(c, u, S) ==
  /\ founder[c].pc = "idle"
  /\ conversations' = conversations \cup {c}
  /\ founder' = [founder EXCEPT ![c] = [pc |-> "participants", named |-> S \cup {u}]]
  /\ UNCHANGED <<participants, poster, messages, told>>

\* Faulty variant: each participant has a commit of its own.
JoinedSingly(S) == S \cap People

\* One transaction; the foreign key refuses an identifier no user has.
Joined(S) == IF S \subseteq People THEN S ELSE {}

CommitParticipants(c) ==
  /\ founder[c].pc = "participants"
  /\ participants' = participants \cup ({c} \X Joined(founder[c].named))
  /\ founder' = [founder EXCEPT ![c].pc =
       IF founder[c].named \subseteq People THEN "answered" ELSE "failed"]
  /\ UNCHANGED <<conversations, poster, messages, told>>

ConversationFails(c) ==
  /\ founder[c].pc = "participants"
  /\ founder' = [founder EXCEPT ![c].pc = "failed"]
  /\ UNCHANGED <<conversations, participants, poster, messages, told>>

-----------------------------------------------------------------------------
(* send_message.                                                            *)

PosterGoes(q, pc, S) == poster' = [poster EXCEPT ![q].pc = pc, ![q].left = S]

\* get_conversation_or_404: whoever does not take part is answered 404.
BeginMessage(q, c, u) ==
  /\ poster[q].pc = "idle"
  /\ c \in conversations /\ <<c, u>> \in participants
  /\ poster' = [poster EXCEPT ![q] = [pc |-> "insert", into |-> c, by |-> u, left |-> {}]]
  /\ UNCHANGED <<conversations, participants, founder, messages, told>>

CommitMessage(q) ==
  /\ poster[q].pc = "insert"
  /\ messages' = messages \cup {q}
  /\ PosterGoes(q, "recipients", {})
  /\ UNCHANGED <<conversations, participants, founder, told>>

FindRecipients(q) ==
  /\ poster[q].pc = "recipients"
  /\ PosterGoes(q, "publish", ParticipantsOf(poster[q].into) \ {poster[q].by})
  /\ UNCHANGED <<conversations, participants, founder, messages, told>>

PublishTo(q, u) ==
  /\ poster[q].pc = "publish" /\ u \in poster[q].left
  /\ told' = told \cup {<<q, u>>}
  /\ PosterGoes(q, "publish", poster[q].left \ {u})
  /\ UNCHANGED <<conversations, participants, founder, messages>>

AnswerMessage(q) ==
  /\ poster[q].pc = "publish" /\ poster[q].left = {}
  /\ PosterGoes(q, "answered", {})
  /\ UNCHANGED <<conversations, participants, founder, messages, told>>

\* The database or Redis: the sender sees an error, a committed message stays.
MessageFails(q) ==
  /\ poster[q].pc \in {"insert", "recipients", "publish"}
  /\ PosterGoes(q, "failed", {})
  /\ UNCHANGED <<conversations, participants, founder, messages, told>>

ConversationNext ==
  \/ \E c \in Founders :
       \/ \E u \in People, S \in SUBSET (People \cup Nobody) : CommitConversation(c, u, S)
       \/ CommitParticipants(c) \/ ConversationFails(c)
  \/ \E q \in Posters :
       \/ \E c \in Founders, u \in People : BeginMessage(q, c, u)
       \/ CommitMessage(q) \/ FindRecipients(q) \/ AnswerMessage(q) \/ MessageFails(q)
       \/ \E u \in People : PublishTo(q, u)

ConversationSpec == ConversationInit /\ [][ConversationNext]_conversationVars

-----------------------------------------------------------------------------
(* The properties.                                                          *)

ConversationTypeOK ==
  /\ conversations \subseteq Founders /\ participants \subseteq Founders \X People
  /\ founder \in [Founders ->
       [pc : {"idle", "participants", "answered", "failed"},
        named : SUBSET (People \cup Nobody)]]
  /\ poster \in [Posters ->
       [pc : {"idle", "insert", "recipients", "publish", "answered", "failed"},
        into : Founders \cup {Nowhere}, by : People \cup {Nowhere}, left : SUBSET People]]
  /\ messages \subseteq Posters /\ told \subseteq Posters \X People

\* A conversation has everybody it was created for, or nobody at all; a message
\* is in one of the first kind, nobody but the others is told of it, and all of
\* them are once its sender is answered (services/message.py:115, 154).
ConversationsAreWhole ==
  /\ \A c \in Founders : ParticipantsOf(c) \in {{}, founder[c].named}
  /\ \A q \in messages :
       /\ poster[q].by \in ParticipantsOf(poster[q].into)
       /\ poster[q].pc = "answered" =>
            {u \in People : <<q, u>> \in told}
              = founder[poster[q].into].named \ {poster[q].by}
  /\ \A m \in told :
       /\ m[1] \in messages
       /\ m[2] \in ParticipantsOf(poster[m[1]].into) \ {poster[m[1]].by}
==============================================================================
