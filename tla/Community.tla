----------------------------- MODULE Community ------------------------------
(***************************************************************************)
(* One post of a community space: likes, comments and their denormalised   *)
(* counters, moderation, and the access a space requires                   *)
(* (app/services/community.py, admin_community.py).  Nothing relates two   *)
(* posts, so there is one.                                                 *)
(*                                                                         *)
(* Liking, unliking and commenting decide by rows that were read           *)
(* statements earlier, and are requests with a step per statement.  The    *)
(* other operations read rows only to find them, and are one step.         *)
(*                                                                         *)
(* Abstracted: titles and bodies (hence update_post), is_pinned, the       *)
(* lists, and the products behind a space, of which a user is entitled to  *)
(* so many.  That a space is gated at all does not change.                 *)
(***************************************************************************)
EXTENDS Integers, FiniteSets

CONSTANTS
  Users,        \* users of the tenant
  Role,         \* [Users -> role]
  Policies,     \* the post policies the channel may have
  Requests,     \* identifiers of requests to like, unlike, comment or report
  MaxProducts,  \* bound: products that open the space
  None          \* absent value

Roles == {"student", "manager", "admin", "super_admin"}
PostPolicy == {"open", "moderators", "admins"}
ReportStatus == {"pending", "reviewed", "resolved"}

ASSUME RolesAssumption == Role \in [Users -> Roles] /\ Policies \subseteq PostPolicy
ASSUME ProductsAssumption == MaxProducts \in Nat
ASSUME NoneAssumption == None \notin Users

VARIABLES
  policy,     \* the channel's post_policy
  gated,      \* some product opens the space (product_spaces)
  entitled,   \* [Users -> such products the user is actively enrolled in]
  suspended,  \* users with is_suspended
  post,       \* the posts row
  likes,      \* the post_likes rows, named by their requests
  comments,   \* the comments rows, named by their requests
  hidden,     \* comments with is_hidden
  reports,    \* [Requests -> status of the report, or "none"]
  req,        \* [Requests -> where the request is and what it has read]
  overlapped, \* history: two requests were between load and commit together
  shutOut     \* history: a user with an enrollment was refused

space == <<policy, gated, entitled, suspended>>
rows == <<post, likes, comments, hidden, reports>>
vars == <<space, rows, req, overlapped, shutOut>>

NoPost == [state |-> "none", author |-> None, likes |-> 0, comments |-> 0, hidden |-> FALSE]
Post ==
  [state : {"live", "deleted"}, author : Users, likes : Int, comments : Nat,
   hidden : BOOLEAN] \cup {NoPost}

\* copy is the post as the request's session loaded it, found the user's like.
NotSent == [pc |-> "none", op |-> None, user |-> None, copy |-> NoPost, found |-> {}]
Request ==
  [pc : {"access", "find", "write", "ended"}, op : {"like", "unlike", "comment", "report"},
   user : Users, copy : Post, found : SUBSET Requests] \cup {NotSent}

\* One type invariant: likes_count may drift below zero, comments_count
\* may not, and only comments that exist are hidden.
TypeOK ==
  /\ policy \in PostPolicy
  /\ gated \in BOOLEAN
  /\ entitled \in [Users -> 0 .. MaxProducts]
  /\ suspended \subseteq Users
  /\ post \in Post
  /\ likes \subseteq Requests
  /\ hidden \subseteq comments /\ comments \subseteq Requests
  /\ reports \in [Requests -> ReportStatus \cup {"none"}]
  /\ req \in [Requests -> Request]
  /\ overlapped \in BOOLEAN /\ shutOut \in BOOLEAN

Init ==
  /\ policy \in Policies
  /\ gated \in BOOLEAN
  /\ entitled = [u \in Users |-> 0]
  /\ suspended = {}
  /\ post = NoPost
  /\ likes = {} /\ comments = {} /\ hidden = {}
  /\ reports = [r \in Requests |-> "none"]
  /\ req = [r \in Requests |-> NotSent]
  /\ overlapped = FALSE /\ shutOut = FALSE

------------------------------------------------------------------------------
(* Access                                                                   *)

\* An enrollment in a product that opens the space begins or ends.
ChangeEntitlement(u) ==
  /\ gated
  /\ \E n \in 0 .. MaxProducts :
       /\ n \in {entitled[u] - 1, entitled[u] + 1}
       /\ entitled' = [entitled EXCEPT ![u] = n]
  /\ UNCHANGED <<policy, gated, suspended, rows, req, overlapped, shutOut>>

\* user_has_space_access: several rows make scalar_one_or_none raise.
Enters(u) == Role[u] \in {"admin", "super_admin"} \/ ~gated \/ entitled[u] = 1

\* get_current_user lets nobody in who is suspended.
SuspendUser(u) ==
  /\ suspended' = suspended \cup {u}
  /\ UNCHANGED <<policy, gated, entitled, rows, req, overlapped, shutOut>>

MayPost(u) ==
  CASE policy = "admins"     -> Role[u] \notin {"student", "manager"}
    [] policy = "moderators" -> Role[u] # "student"
    [] policy = "open"       -> TRUE

CreatePost(u) ==
  /\ post = NoPost
  /\ u \notin suspended /\ Enters(u) /\ MayPost(u)
  /\ post' = [NoPost EXCEPT !.state = "live", !.author = u]
  /\ UNCHANGED <<space, likes, comments, hidden, reports, req, overlapped, shutOut>>

------------------------------------------------------------------------------
(* Likes and comments                                                       *)

Underway(r) == req[r].pc \in {"access", "find", "write"}

\* The request is authenticated and loads the post.
Begin(r, u, op) ==
  /\ req[r] = NotSent
  /\ u \notin suspended
  /\ post.state = "live"
  /\ req' = [req EXCEPT ![r] = [pc |-> "access", op |-> op, user |-> u, copy |-> post,
                               found |-> {}]]
  /\ overlapped' = (overlapped \/ \E q \in Requests : Underway(q))
  /\ UNCHANGED <<space, rows, shutOut>>

Goto(r, there) == req' = [req EXCEPT ![r].pc = there]

CheckAccess(r) ==
  LET u == req[r].user
  IN  /\ req[r].pc = "access"
      /\ Goto(r, IF ~Enters(u) THEN "ended"
                 ELSE IF req[r].op = "comment" THEN "write" ELSE "find")
      /\ shutOut' = (shutOut \/ (entitled[u] > 0 /\ ~Enters(u)))
      /\ UNCHANGED <<space, rows, overlapped>>

LikesOf(u) == {q \in likes : req[q].user = u}

\* Faulty variant: unlike does not look for the like.
RightToActLoose(op, u) == op = "like" => LikesOf(u) = {}

\* A like needs that there is none, an unlike that there is one.
RightToAct(op, u) == (op = "like") <=> LikesOf(u) = {}

FindLike(r) ==
  LET u == req[r].user IN
  /\ req[r].pc = "find"
  /\ req' = [req EXCEPT ![r] =
       IF RightToAct(req[r].op, u) THEN [@ EXCEPT !.pc = "write", !.found = LikesOf(u)]
       ELSE [@ EXCEPT !.pc = "ended"]]
  /\ UNCHANGED <<space, rows, overlapped, shutOut>>

\* Faulty variant: the session writes back every column it loaded.
WrittenWhole(r, field, by) == [req[r].copy EXCEPT ![field] = @ + by]

\* The UPDATE of one counter, to the session's copy and one.
Written(r, field, by) == [post EXCEPT ![field] = req[r].copy[field] + by]

\* The UPDATE must match the post, and the INSERT of a like the unique index;
\* the DELETE of a like that is gone only warns.
Accepted(r) ==
  /\ post.state = "live"
  /\ req[r].op = "like" => LikesOf(req[r].user) = {}

\* Counter and row are one transaction.
Commit(r) ==
  LET op == req[r].op
  IN  /\ req[r].pc = "write"
      /\ Goto(r, "ended")
      /\ IF ~Accepted(r) THEN UNCHANGED rows
         ELSE /\ \/ /\ op = "like"
                    /\ likes' = likes \cup {r}
                    /\ post' = Written(r, "likes", 1)
                    /\ UNCHANGED comments
                 \/ /\ op = "unlike"
                    /\ likes' = likes \ req[r].found
                    /\ post' = Written(r, "likes", -1)
                    /\ UNCHANGED comments
                 \/ /\ op = "comment"
                    /\ comments' = comments \cup {r}
                    /\ post' = Written(r, "comments", 1)
                    /\ UNCHANGED likes
              /\ UNCHANGED <<hidden, reports>>
      /\ UNCHANGED <<space, overlapped, shutOut>>

\* A statement fails or the process dies: nothing of the request remains.
RequestFails(r) ==
  /\ Underway(r)
  /\ Goto(r, "ended")
  /\ UNCHANGED <<space, rows, overlapped, shutOut>>

------------------------------------------------------------------------------
(* Moderation                                                               *)

\* What refers to a deleted post is deleted with it.
DeletePost(u) ==
  /\ post.state = "live" /\ u = post.author /\ u \notin suspended
  /\ post' = [post EXCEPT !.state = "deleted"]
  /\ likes' = {} /\ comments' = {} /\ hidden' = {}
  /\ reports' = [r \in Requests |-> "none"]
  /\ UNCHANGED <<space, req, overlapped, shutOut>>

\* A report is named by its request; no access is needed.
ReportPost(r, u) ==
  /\ req[r] = NotSent
  /\ post.state = "live" /\ u \notin suspended
  /\ reports' = [reports EXCEPT ![r] = "pending"]
  /\ req' = [req EXCEPT ![r] = [pc |-> "ended", op |-> "report", user |-> u, copy |-> NoPost,
                               found |-> {}]]
  /\ UNCHANGED <<space, post, likes, comments, hidden, overlapped, shutOut>>

\* An administrator may set any status, the first one included.
ResolveReport(r, status) ==
  /\ reports[r] # "none"
  /\ reports' = [reports EXCEPT ![r] = status]
  /\ UNCHANGED <<space, post, likes, comments, hidden, req, overlapped, shutOut>>

HidePost ==
  /\ post.state = "live"
  /\ post' = [post EXCEPT !.hidden = TRUE]
  /\ UNCHANGED <<space, likes, comments, hidden, reports, req, overlapped, shutOut>>

HideComment(r) ==
  /\ r \in comments
  /\ hidden' = hidden \cup {r}
  /\ UNCHANGED <<space, post, likes, comments, reports, req, overlapped, shutOut>>

------------------------------------------------------------------------------
RequestStep(r) == CheckAccess(r) \/ FindLike(r) \/ Commit(r) \/ RequestFails(r)

Next ==
  \/ \E u \in Users :
       \/ ChangeEntitlement(u)
       \/ SuspendUser(u)
       \/ CreatePost(u)
       \/ DeletePost(u)
       \/ \E r \in Requests :
            \/ ReportPost(r, u)
            \/ \E op \in {"like", "unlike", "comment"} : Begin(r, u, op)
  \/ \E r \in Requests :
       \/ RequestStep(r)
       \/ HideComment(r)
       \/ \E status \in ReportStatus : ResolveReport(r, status)
  \/ HidePost

Spec == Init /\ [][Next]_vars

------------------------------------------------------------------------------
(* Properties                                                               *)

\* As long as no two requests are between load and commit together, the
\* denormalised counters are the numbers of rows, whatever is refused, fails
\* or is deleted on the way.
SerialCounts ==
  ~overlapped /\ post.state = "live" =>
    /\ post.likes = Cardinality(likes)
    /\ post.comments = Cardinality(comments)

\* Requests that overlap lose counts and never invent any: a post shows at
\* most as many comments as it has.
CommentsNeverOvercounted ==
  post.state = "live" => post.comments \in 0 .. Cardinality(comments)

\* Nothing refers to a post that is gone, though requests that loaded it
\* before commit after it (foreign keys, StaleDataError).
NoOrphans ==
  post.state # "live" =>
    /\ likes = {} /\ comments = {}
    /\ \A r \in Requests : reports[r] = "none"

\* What a moderator hid does not come back, though requests write the same
\* rows from copies they read before: a session writes changed columns only.
ModerationSticks ==
  [][post'.state = "live" => /\ post.hidden => post'.hidden
                             /\ hidden \subseteq hidden']_vars

\* Who holds an enrollment that opens the space enters it
\* (app/core/error_codes.py, SPACE_ACCESS_REQUIRED: buy the product).  With
\* two such enrollments the query returns two rows, and the user is refused.
EntitledUsersEnter == ~shutOut
==============================================================================
