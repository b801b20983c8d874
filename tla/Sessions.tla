------------------------------ MODULE Sessions -------------------------------
(* One account's sessions: refresh tokens that a refresh exchanges for new  *)
(* ones, and links by e-mail that open a session or reset the password, all *)
(* keys in Redis (services/auth.py, core/security.py).  Access tokens carry *)
(* their own expiry and are left out.                                       *)
EXTENDS Integers, FiniteSets

CONSTANTS
  Requests,       \* requests that may be under way at once
  MaxTokens,      \* refresh tokens and
  MaxLinks        \* links ever issued

ASSUME SessionsAssumption == MaxTokens \in Nat /\ MaxLinks \in Nat

Tokens == 1..MaxTokens
Links == 1..MaxLinks

VARIABLES
  live,           \* the keys refresh:<token>
  links,          \* the keys magic_link:<token>
  issued,         \* how many tokens and links there have been
  sent,
  suspended,      \* users.is_suspended
  request,        \* of each request: control point and what it carries
  session,        \* history: the first token of the login each token descends from
  loggedOut,      \* history: logins that were logged out with a live token
  used,           \* history: how often each link was accepted
  sharedLogins,   \* history: logins two requests worked on at once
  sharedLinks     \* history: links two requests worked on at once

keys == <<live, links, issued, sent>>
sessionHistory == <<session, loggedOut, used, sharedLogins, sharedLinks>>
sessionVars == <<keys, suspended, request, sessionHistory>>

NoRequest == [pc |-> "idle", kind |-> "none", token |-> 0]

SessionsInit ==
  /\ live = {} /\ links = {} /\ issued = 0 /\ sent = 0
  /\ suspended = FALSE
  /\ request = [q \in Requests |-> NoRequest]
  /\ session = [t \in Tokens |-> 0]
  /\ loggedOut = {}
  /\ used = [l \in Links |-> 0]
  /\ sharedLogins = {} /\ sharedLinks = {}

\* Requests that work on a login, or on a link.
Refreshing(s) ==
  {q \in Requests : request[q].kind = "refresh" /\ session[request[q].token] = s}
Verifying(l) == {q \in Requests : request[q].kind \in {"link", "reset"} /\ request[q].token = l}

-----------------------------------------------------------------------------
(* The requests.                                                            *)

Accept(q, kind, token, pc) ==
  /\ request[q].pc = "idle"
  /\ request' = [request EXCEPT ![q] = [pc |-> pc, kind |-> kind, token |-> token]]

BeginLogin(q) ==
  /\ Accept(q, "login", 0, "user")
  /\ UNCHANGED <<keys, suspended, sessionHistory>>

\* GET refresh:<token>; a token that is not there is refused.
BeginRefresh(q, t) ==
  /\ t \in live
  /\ Accept(q, "refresh", t, "user")
  /\ sharedLogins' = IF Refreshing(session[t]) # {} THEN sharedLogins \cup {session[t]}
                     ELSE sharedLogins
  /\ UNCHANGED <<keys, suspended, session, loggedOut, used, sharedLinks>>

\* send_magic_link and send_password_reset: SETEX, and a message to the worker.
SendLink ==
  /\ sent < MaxLinks
  /\ sent' = sent + 1
  /\ links' = links \cup {sent + 1}
  /\ UNCHANGED <<live, issued, suspended, request, sessionHistory>>

\* verify_magic_link_token: GET, then DELETE.
BeginVerify(q, l, kind) ==
  /\ l \in links
  /\ Accept(q, kind, l, "delete")
  /\ sharedLinks' = IF Verifying(l) # {} THEN sharedLinks \cup {l} ELSE sharedLinks
  /\ UNCHANGED <<keys, suspended, session, loggedOut, used, sharedLogins>>

\* Faulty variant: the link stays until it expires.
WithoutLinkNever(l) == links

WithoutLink(l) == links \ {l}

DeleteLink(q) ==
  /\ request[q].pc = "delete"
  /\ links' = WithoutLink(request[q].token)
  /\ request' = [request EXCEPT ![q].pc = "user"]
  /\ UNCHANGED <<live, issued, sent, suspended, sessionHistory>>

\* login_user and refresh_access_token refuse who is suspended; the two that
\* come with a link do not look.
Admitted(q) == request[q].kind \in {"login", "refresh"} => ~suspended

AfterUser(kind) ==
  CASE kind = "refresh" -> "revoke"
    [] kind = "reset" -> "password"
    [] OTHER -> "create"

FindUser(q) ==
  /\ request[q].pc = "user"
  /\ request' = [request EXCEPT ![q] =
       IF Admitted(q) THEN [@ EXCEPT !.pc = AfterUser(request[q].kind)] ELSE NoRequest]
  /\ UNCHANGED <<keys, suspended, sessionHistory>>

\* Faulty variant: the old token lives on beside the new one.
RevokedNever(t) == live

Revoked(t) == live \ {t}

RevokeToken(q) ==
  /\ request[q].pc = "revoke"
  /\ live' = Revoked(request[q].token)
  /\ request' = [request EXCEPT ![q].pc = "create"]
  /\ UNCHANGED <<links, issued, sent, suspended, sessionHistory>>

CountUse(q) ==
  used' = IF request[q].kind \in {"link", "reset"}
            THEN [used EXCEPT ![request[q].token] = @ + 1] ELSE used

CreateToken(q) ==
  /\ request[q].pc = "create" /\ issued < MaxTokens
  /\ issued' = issued + 1
  /\ live' = live \cup {issued + 1}
  /\ session' = [session EXCEPT ![issued + 1] =
       IF request[q].kind = "refresh" THEN session[request[q].token] ELSE issued + 1]
  /\ CountUse(q)
  /\ request' = [request EXCEPT ![q] = NoRequest]
  /\ UNCHANGED <<links, sent, suspended, loggedOut, sharedLogins, sharedLinks>>

\* No session ends by it.
ResetPassword(q) ==
  /\ request[q].pc = "password"
  /\ CountUse(q)
  /\ request' = [request EXCEPT ![q] = NoRequest]
  /\ UNCHANGED <<keys, suspended, session, loggedOut, sharedLogins, sharedLinks>>

\* One DELETE, of the token the browser holds.
Logout(t) ==
  /\ t \in live
  /\ live' = live \ {t}
  /\ loggedOut' = loggedOut \cup {session[t]}
  /\ sharedLogins' = IF Refreshing(session[t]) # {} THEN sharedLogins \cup {session[t]}
                     ELSE sharedLogins
  /\ UNCHANGED <<links, issued, sent, suspended, request, session, used, sharedLinks>>

\* Redis, the database or the process fails.
SessionRequestFails(q) ==
  /\ request[q].pc # "idle"
  /\ request' = [request EXCEPT ![q] = NoRequest]
  /\ UNCHANGED <<keys, suspended, sessionHistory>>

KeyExpires ==
  /\ \/ \E t \in live : live' = live \ {t} /\ UNCHANGED links
     \/ \E l \in links : links' = links \ {l} /\ UNCHANGED live
  /\ UNCHANGED <<issued, sent, suspended, request, sessionHistory>>

\* For good: nothing lifts a suspension.
SuspendUser ==
  /\ ~suspended
  /\ suspended' = TRUE
  /\ UNCHANGED <<keys, request, sessionHistory>>

SessionsNext ==
  \/ \E q \in Requests :
       \/ BeginLogin(q) \/ (\E t \in Tokens : BeginRefresh(q, t))
       \/ (\E l \in Links, kind \in {"link", "reset"} : BeginVerify(q, l, kind))
       \/ DeleteLink(q) \/ FindUser(q) \/ RevokeToken(q) \/ CreateToken(q)
       \/ ResetPassword(q) \/ SessionRequestFails(q)
  \/ \E t \in Tokens : Logout(t)
  \/ SendLink \/ KeyExpires \/ SuspendUser

SessionsSpec == SessionsInit /\ [][SessionsNext]_sessionVars

-----------------------------------------------------------------------------
(* The properties.                                                          *)

SessionsTypeOK ==
  /\ live \subseteq Tokens /\ links \subseteq Links
  /\ issued \in 0..MaxTokens /\ sent \in 0..MaxLinks
  /\ suspended \in BOOLEAN
  /\ request \in [Requests ->
       [pc : {"idle", "delete", "user", "revoke", "create", "password"},
        kind : {"none", "login", "refresh", "link", "reset"},
        token : {0} \cup Tokens \cup Links]]
  /\ session \in [Tokens -> {0} \cup Tokens] /\ loggedOut \subseteq Tokens
  /\ used \in [Links -> Nat]
  /\ sharedLogins \subseteq Tokens /\ sharedLinks \subseteq Links

\* A login is one session: unless two requests worked on it at once, it has one
\* live token at most, however refreshes fail half-way, and none once somebody
\* has logged out (services/auth.py:113).
OneTokenPerLogin ==
  \A s \in Tokens \ sharedLogins :
    /\ Cardinality({t \in live : session[t] = s}) <= 1
    /\ s \in loggedOut => \A t \in live : session[t] # s

\* A link works once, for a session or for a password, unless two requests
\* presented it at once; who comes second is told so (core/security.py:124).
LinksWorkOnce == \A l \in Links \ sharedLinks : used[l] <= 1

\* Refresh tokens and links are spent when they are used: what two requests do
\* with one credential goes wrong only while both are under way.
CredentialsAreSpent == OneTokenPerLogin /\ LinksWorkOnce
==============================================================================
