--------------------------- MODULE CommunityProofs --------------------------
(***************************************************************************)
(* Proofs about Community for every set of users and requests, all roles   *)
(* and policies, and any number of products behind the space.              *)
(***************************************************************************)
EXTENDS Community, FiniteSetTheorems, TLAPS

\* A request under way acts for a user on a post that was created; no like
\* and no comment is stored before its request ends.
RequestShape ==
  \A r \in Requests :
    /\ Underway(r) => /\ req[r].op \in {"like", "unlike", "comment"}
                      /\ req[r].user \in Users
                      /\ req[r].copy \in Post
                      /\ post # NoPost
    /\ req[r].pc # "ended" => r \notin likes /\ r \notin comments

FiniteRows == IsFiniteSet(likes) /\ IsFiniteSet(comments)

Typed == TypeOK /\ RequestShape /\ FiniteRows

LEMMA InitTyped == Init => Typed
  <1> SUFFICES ASSUME Init PROVE Typed
    OBVIOUS
  <1>1. NoPost \in Post /\ NotSent \in Request
    BY DEF Post, Request
  <1>2. TypeOK
    <2>1. entitled \in [Users -> 0 .. MaxProducts]
      BY ProductsAssumption DEF Init
    <2>2. QED
      BY <1>1, <2>1, RolesAssumption DEF Init, TypeOK
  <1>3. RequestShape
    BY DEF Init, RequestShape, Underway, NotSent
  <1>4. FiniteRows
    BY FS_EmptySet DEF Init, FiniteRows
  <1>5. QED
    BY <1>2, <1>3, <1>4 DEF Typed

\* What is true of an existing post's row and of the requests of its type.
LEMMA LivePost ==
  ASSUME Typed, post.state # "none"
  PROVE  /\ post \in [state : {"live", "deleted"}, author : Users, likes : Int,
                      comments : Nat, hidden : BOOLEAN]
         /\ post # NoPost
  BY DEF Typed, TypeOK, Post, NoPost

\* Moving a request on keeps the types and the shape of all requests.
LEMMA GotoTyped ==
  ASSUME Typed, NEW r \in Requests, Underway(r),
         NEW there \in {"access", "find", "write", "ended"}, Goto(r, there),
         post' = post, likes' = likes, comments' = comments
  PROVE  req' \in [Requests -> Request] /\ RequestShape'
  <1>1. req[r] \in Request /\ req[r] # NotSent
    BY DEF Typed, TypeOK, Underway, NotSent
  <1>2. [req[r] EXCEPT !.pc = there] \in Request
    BY <1>1 DEF Request
  <1>3. req' \in [Requests -> Request]
    BY <1>2 DEF Typed, TypeOK, Goto
  <1>4. RequestShape'
    BY <1>1 DEF Typed, TypeOK, RequestShape, Goto, Underway, Request
  <1>5. QED
    BY <1>3, <1>4

\* The row that a commit writes is a row, and the one there is but for one
\* counter.
LEMMA WrittenTyped ==
  ASSUME Typed, NEW r \in Requests, Underway(r), post.state = "live",
         NEW field \in {"likes", "comments"}, NEW by \in {1, -1},
         field = "comments" => by = 1
  PROVE  /\ Written(r, field, by) \in Post
         /\ Written(r, field, by).state = "live"
         /\ Written(r, field, by).hidden = post.hidden
         /\ Written(r, field, by).likes =
              IF field = "likes" THEN req[r].copy.likes + by ELSE post.likes
         /\ Written(r, field, by).comments =
              IF field = "comments" THEN req[r].copy.comments + by ELSE post.comments
  <1>1. post \in [state : {"live", "deleted"}, author : Users, likes : Int,
                  comments : Nat, hidden : BOOLEAN]
    BY LivePost
  <1>2. req[r].copy.likes \in Int /\ req[r].copy.comments \in Nat
    BY DEF Typed, RequestShape, Post, NoPost
  <1>3. CASE field = "likes"
    BY <1>1, <1>2, <1>3 DEF Written, Post
  <1>4. CASE field = "comments"
    BY <1>1, <1>2, <1>4 DEF Written, Post
  <1>5. QED
    BY <1>3, <1>4

LEMMA CommitTyped ==
  ASSUME Typed, NEW r \in Requests, Commit(r) PROVE Typed'
  <1>1. Underway(r) /\ req[r].user \in Users
    BY DEF Typed, RequestShape, Commit, Underway
  <1>2. CASE ~Accepted(r)
    <2>1. req' \in [Requests -> Request] /\ RequestShape'
      BY <1>1, <1>2, GotoTyped DEF Commit, rows
    <2>2. QED
      BY <1>2, <2>1 DEF Commit, rows, space, Typed, TypeOK, FiniteRows
  <1>3. CASE Accepted(r)
    <2>1. post.state = "live" /\ hidden' = hidden /\ reports' = reports
          /\ UNCHANGED <<policy, gated, entitled, suspended, overlapped, shutOut>>
      BY <1>3 DEF Commit, Accepted, space
    <2>2. post' \in Post /\ post'.state = "live"
      BY <1>1, <1>3, <2>1, WrittenTyped DEF Commit
    <2>3. /\ likes' \in {likes, likes \cup {r}, likes \ req[r].found}
          /\ comments' \in {comments, comments \cup {r}}
      BY <1>3 DEF Commit
    <2>4. likes' \subseteq Requests /\ hidden' \subseteq comments' /\ comments' \subseteq Requests
      BY <1>1, <2>1, <2>3 DEF Typed, TypeOK
    <2>5. FiniteRows'
      <3>1. IsFiniteSet(likes) /\ IsFiniteSet(comments)
        BY DEF Typed, FiniteRows
      <3>2. IsFiniteSet(likes \cup {r}) /\ IsFiniteSet(comments \cup {r})
        BY <3>1, FS_AddElement
      <3>3. IsFiniteSet(likes \ req[r].found)
        BY <3>1, FS_Difference
      <3>4. QED
        BY <2>3, <3>1, <3>2, <3>3 DEF FiniteRows
    <2>6. req[r] \in Request /\ req[r] # NotSent
      BY <1>1 DEF Typed, TypeOK, Underway, NotSent
    <2>7. [req[r] EXCEPT !.pc = "ended"] \in Request
      BY <2>6 DEF Request
    <2>8. req' = [req EXCEPT ![r] = [req[r] EXCEPT !.pc = "ended"]]
      BY DEF Commit, Goto, Typed, TypeOK
    <2>9. req' \in [Requests -> Request]
      BY <2>7, <2>8 DEF Typed, TypeOK
    <2>10. RequestShape'
      <3>1. req'[r].pc = "ended"
        BY <2>6, <2>8 DEF Typed, TypeOK, Request
      <3>2. \A q \in Requests \ {r} : req'[q] = req[q]
        BY <2>8 DEF Typed, TypeOK
      <3>3. post' # NoPost
        BY <2>2 DEF NoPost
      <3>4. QED
        BY <2>3, <3>1, <3>2, <3>3 DEF Typed, RequestShape, Underway
    <2>11. QED
      BY <2>1, <2>2, <2>4, <2>5, <2>9, <2>10 DEF Typed, TypeOK
  <1>4. QED
    BY <1>2, <1>3

LEMMA NextTyped == Typed /\ [Next]_vars => Typed'
  <1> SUFFICES ASSUME Typed, [Next]_vars PROVE Typed'
    OBVIOUS
  <1> USE DEF Typed
  <1>1. ASSUME NEW u \in Users, ChangeEntitlement(u) PROVE Typed'
    BY <1>1 DEF ChangeEntitlement, rows, TypeOK, RequestShape, FiniteRows, Underway
  <1>2. ASSUME NEW u \in Users, SuspendUser(u) PROVE Typed'
    BY <1>2 DEF SuspendUser, rows, TypeOK, RequestShape, FiniteRows, Underway
  <1>3. ASSUME NEW u \in Users, CreatePost(u) PROVE Typed'
    <2>1. post' \in Post
      <3>1. post' = [state |-> "live", author |-> u, likes |-> 0, comments |-> 0,
                     hidden |-> FALSE]
        BY <1>3 DEF CreatePost, NoPost
      <3>2. QED
        BY <3>1 DEF Post
    <2>2. RequestShape'
      BY <1>3 DEF CreatePost, RequestShape, Underway
    <2>3. QED
      BY <1>3, <2>1, <2>2 DEF CreatePost, space, TypeOK, FiniteRows
  <1>4. ASSUME NEW r \in Requests, NEW u \in Users,
               NEW op \in {"like", "unlike", "comment"}, Begin(r, u, op)
        PROVE  Typed'
    <2>1. req' \in [Requests -> Request] /\ req'[r].copy \in Post
      BY <1>4 DEF Begin, TypeOK, Request
    <2>2. r \notin likes /\ r \notin comments
      BY <1>4 DEF Begin, NotSent, RequestShape
    <2>3. post # NoPost
      BY <1>4 DEF Begin, NoPost
    <2>4. QED
      BY <1>4, <2>1, <2>2, <2>3 DEF Begin, rows, space, TypeOK, RequestShape, FiniteRows, Underway
  <1>5. ASSUME NEW r \in Requests, CheckAccess(r) PROVE Typed'
    <2>1. req' \in [Requests -> Request] /\ RequestShape'
      BY <1>5, GotoTyped DEF CheckAccess, Underway, rows
    <2>2. QED
      BY <1>5, <2>1 DEF CheckAccess, rows, space, TypeOK, FiniteRows
  <1>6. ASSUME NEW r \in Requests, FindLike(r) PROVE Typed'
    <2>1. req[r] \in Request /\ req[r] # NotSent /\ Underway(r)
      BY <1>6 DEF FindLike, Underway, TypeOK, NotSent
    <2>2. LikesOf(req[r].user) \in SUBSET Requests
      BY DEF LikesOf, TypeOK
    <2>3. req' \in [Requests -> Request] /\ RequestShape'
      BY <1>6, <2>1, <2>2 DEF FindLike, rows, TypeOK, RequestShape, Underway, Request
    <2>4. QED
      BY <1>6, <2>3 DEF FindLike, rows, space, TypeOK, FiniteRows
  <1>7. ASSUME NEW r \in Requests, RequestFails(r) PROVE Typed'
    <2>1. req' \in [Requests -> Request] /\ RequestShape'
      BY <1>7, GotoTyped DEF RequestFails, rows
    <2>2. QED
      BY <1>7, <2>1 DEF RequestFails, rows, space, TypeOK, FiniteRows
  <1>8. ASSUME NEW u \in Users, DeletePost(u) PROVE Typed'
    <2>1. post' \in Post /\ post' # NoPost
      BY <1>8, LivePost DEF DeletePost, Post, NoPost
    <2>2. QED
      BY <1>8, <2>1, FS_EmptySet DEF DeletePost, space, TypeOK, RequestShape, FiniteRows, Underway
  <1>9. ASSUME NEW r \in Requests, NEW u \in Users, ReportPost(r, u) PROVE Typed'
    <2>1. req' \in [Requests -> Request]
      BY <1>9 DEF ReportPost, TypeOK, Request, Post
    <2>2. RequestShape'
      BY <1>9 DEF ReportPost, TypeOK, RequestShape, Underway
    <2>3. QED
      BY <1>9, <2>1, <2>2 DEF ReportPost, space, TypeOK, FiniteRows, ReportStatus
  <1>10. ASSUME NEW r \in Requests, NEW status \in ReportStatus, ResolveReport(r, status)
         PROVE  Typed'
    BY <1>10 DEF ResolveReport, space, TypeOK, RequestShape, FiniteRows, Underway
  <1>11. ASSUME HidePost PROVE Typed'
    <2>1. post' \in Post /\ post' # NoPost
      BY <1>11, LivePost DEF HidePost, Post, NoPost
    <2>2. QED
      BY <1>11, <2>1 DEF HidePost, space, TypeOK, RequestShape, FiniteRows, Underway
  <1>12. ASSUME NEW r \in Requests, HideComment(r) PROVE Typed'
    BY <1>12 DEF HideComment, space, TypeOK, RequestShape, FiniteRows, Underway
  <1>13. CASE UNCHANGED vars
    BY <1>13 DEF vars, space, rows, TypeOK, RequestShape, FiniteRows, Underway
  <1>14. QED
    BY <1>1, <1>2, <1>3, <1>4, <1>5, <1>6, <1>7, <1>8, <1>9, <1>10, <1>11, <1>12,
       <1>13, CommitTyped DEF Next, RequestStep

\* Every variable keeps its type, however requests interleave: comments_count
\* is never negative, and only stored comments are hidden.
THEOREM TypeCorrect == Spec => []TypeOK
  <1>1. Typed => TypeOK
    BY DEF Typed
  <1>2. QED
    BY <1>1, InitTyped, NextTyped, PTL DEF Spec

THEOREM AlwaysTyped == Spec => []Typed
  BY InitTyped, NextTyped, PTL DEF Spec

------------------------------------------------------------------------------
(* A user's like                                                            *)

\* The unique index on the likes of a post: a user has one, made by a request
\* that is over.
OneLikeEach == \A p, q \in likes : req[p].user = req[q].user => p = q

LEMMA NextOneLike == Typed /\ OneLikeEach /\ [Next]_vars => OneLikeEach'
  <1> SUFFICES ASSUME Typed, OneLikeEach, [Next]_vars PROVE OneLikeEach'
    OBVIOUS
  <1>1. \A q \in likes : q \in Requests /\ req[q].pc = "ended"
    BY DEF Typed, TypeOK, RequestShape
  <1>2. ASSUME NEW u \in Users,
               ChangeEntitlement(u) \/ SuspendUser(u) \/ CreatePost(u) \/ DeletePost(u)
        PROVE  OneLikeEach'
    BY <1>2 DEF ChangeEntitlement, SuspendUser, CreatePost, DeletePost, rows, OneLikeEach
  <1>3. ASSUME NEW u \in Users, NEW r \in Requests,
               \/ ReportPost(r, u)
               \/ \E op \in {"like", "unlike", "comment"} : Begin(r, u, op)
        PROVE  OneLikeEach'
    <2>1. /\ likes' = likes /\ req[r].pc = "none"
          /\ \A q \in Requests \ {r} : req'[q] = req[q]
      BY <1>3 DEF ReportPost, Begin, rows, NotSent, Typed, TypeOK
    <2>2. QED
      BY <1>1, <2>1 DEF OneLikeEach
  <1>4. ASSUME NEW r \in Requests, CheckAccess(r) \/ FindLike(r) \/ RequestFails(r)
        PROVE  OneLikeEach'
    <2>1. /\ likes' = likes /\ req[r].pc # "ended"
          /\ \A q \in Requests \ {r} : req'[q] = req[q]
      BY <1>4 DEF CheckAccess, FindLike, RequestFails, Goto, Underway, rows, Typed, TypeOK
    <2>2. QED
      BY <1>1, <2>1 DEF OneLikeEach
  <1>5. ASSUME NEW r \in Requests, Commit(r) PROVE OneLikeEach'
    <2>1. req[r] \in Request /\ req[r] # NotSent /\ req[r].pc = "write"
      BY <1>5 DEF Commit, Typed, TypeOK, NotSent
    <2>2. req'[r].user = req[r].user /\ \A q \in Requests \ {r} : req'[q] = req[q]
      BY <1>5, <2>1 DEF Commit, Goto, Typed, TypeOK, Request
    <2>3. CASE likes' \subseteq likes
      BY <1>1, <2>1, <2>2, <2>3 DEF OneLikeEach
    <2>4. CASE likes' = likes \cup {r} /\ LikesOf(req[r].user) = {}
      <3>1. \A q \in likes : req[q].user # req[r].user
        BY <2>4 DEF LikesOf
      <3>2. QED
        BY <1>1, <2>1, <2>2, <2>4, <3>1 DEF OneLikeEach
    <2>5. QED
      BY <1>5, <2>3, <2>4 DEF Commit, Accepted, rows
  <1>6. ASSUME NEW r \in Requests,
               HideComment(r) \/ \E status \in ReportStatus : ResolveReport(r, status)
        PROVE  OneLikeEach'
    BY <1>6 DEF HideComment, ResolveReport, OneLikeEach
  <1>7. CASE HidePost \/ UNCHANGED vars
    BY <1>7 DEF HidePost, vars, rows, OneLikeEach
  <1>8. QED
    BY <1>2, <1>3, <1>4, <1>5, <1>6, <1>7 DEF Next, RequestStep

LEMMA AlwaysOneLike == Spec => []OneLikeEach
  <1>1. Init => OneLikeEach
    BY DEF Init, OneLikeEach
  <1>2. QED
    BY <1>1, NextOneLike, AlwaysTyped, PTL DEF Spec

------------------------------------------------------------------------------
(* What refers to the post, and what moderators hid                         *)

LEMMA NextNoOrphans == Typed /\ NoOrphans /\ [Next]_vars => NoOrphans'
  <1> SUFFICES ASSUME Typed, NoOrphans, [Next]_vars PROVE NoOrphans'
    OBVIOUS
  <1>1. ASSUME NEW u \in Users, ChangeEntitlement(u) \/ SuspendUser(u) PROVE NoOrphans'
    BY <1>1 DEF ChangeEntitlement, SuspendUser, rows, NoOrphans
  <1>2. ASSUME NEW u \in Users, CreatePost(u) PROVE NoOrphans'
    BY <1>2 DEF CreatePost, NoPost, NoOrphans
  <1>3. ASSUME NEW u \in Users, DeletePost(u) PROVE NoOrphans'
    BY <1>3 DEF DeletePost, NoOrphans
  <1>4. ASSUME NEW u \in Users, NEW r \in Requests,
               \/ ReportPost(r, u)
               \/ \E op \in {"like", "unlike", "comment"} : Begin(r, u, op)
        PROVE  NoOrphans'
    BY <1>4 DEF ReportPost, Begin, rows, NoOrphans
  <1>5. ASSUME NEW r \in Requests, CheckAccess(r) \/ FindLike(r) \/ RequestFails(r)
        PROVE  NoOrphans'
    BY <1>5 DEF CheckAccess, FindLike, RequestFails, rows, NoOrphans
  <1>6. ASSUME NEW r \in Requests, Commit(r) PROVE NoOrphans'
    <2>1. CASE ~Accepted(r)
      BY <1>6, <2>1 DEF Commit, rows, NoOrphans
    <2>2. CASE Accepted(r)
      <3>1. Underway(r) /\ post.state = "live"
        BY <1>6, <2>2 DEF Commit, Accepted, Underway
      <3>2. post'.state = "live"
        BY <1>6, <2>2, <3>1, WrittenTyped DEF Commit
      <3>3. QED
        BY <3>2 DEF NoOrphans
    <2>3. QED
      BY <2>1, <2>2
  <1>7. ASSUME NEW r \in Requests,
               HideComment(r) \/ \E status \in ReportStatus : ResolveReport(r, status)
        PROVE  NoOrphans'
    BY <1>7 DEF HideComment, ResolveReport, NoOrphans
  <1>8. ASSUME HidePost PROVE NoOrphans'
    BY <1>8 DEF HidePost, NoOrphans
  <1>9. CASE UNCHANGED vars
    BY <1>9 DEF vars, rows, NoOrphans
  <1>10. QED
    BY <1>1, <1>2, <1>3, <1>4, <1>5, <1>6, <1>7, <1>8, <1>9 DEF Next, RequestStep

\* Nothing refers to a deleted post, however requests that loaded it race
\* with its deletion.
THEOREM NothingDangles == Spec => []NoOrphans
  <1>1. Init => NoOrphans
    BY DEF Init, NoOrphans
  <1>2. QED
    BY <1>1, NextNoOrphans, AlwaysTyped, PTL DEF Spec

\* No step of a request, however old its copy, shows again what is hidden.
LEMMA NextKeepsHidden ==
  ASSUME Typed, [Next]_vars, post'.state = "live"
  PROVE  (post.hidden => post'.hidden) /\ hidden \subseteq hidden'
  <1>1. ASSUME NEW u \in Users, CreatePost(u) \/ DeletePost(u)
        PROVE  (post.hidden => post'.hidden) /\ hidden \subseteq hidden'
    <2>1. CASE CreatePost(u)
      BY <2>1 DEF CreatePost, NoPost
    <2>2. CASE DeletePost(u)
      <3>1. post \in [state : {"live", "deleted"}, author : Users, likes : Int,
                      comments : Nat, hidden : BOOLEAN]
        BY <2>2, LivePost DEF DeletePost
      <3>2. QED
        BY <2>2, <3>1 DEF DeletePost
    <2>3. QED
      BY <1>1, <2>1, <2>2
  <1>2. ASSUME NEW r \in Requests, Commit(r)
        PROVE  (post.hidden => post'.hidden) /\ hidden \subseteq hidden'
    <2>1. CASE ~Accepted(r)
      BY <1>2, <2>1 DEF Commit, rows
    <2>2. CASE Accepted(r)
      <3>1. Underway(r) /\ post.state = "live"
        BY <1>2, <2>2 DEF Commit, Accepted, Underway
      <3>2. post'.hidden = post.hidden
        BY <1>2, <2>2, <3>1, WrittenTyped DEF Commit
      <3>3. QED
        BY <1>2, <2>2, <3>2 DEF Commit
    <2>3. QED
      BY <2>1, <2>2
  <1>3. ASSUME HidePost \/ \E r \in Requests : HideComment(r)
        PROVE  (post.hidden => post'.hidden) /\ hidden \subseteq hidden'
    <2>1. CASE HidePost
      <3>1. post \in [state : {"live", "deleted"}, author : Users, likes : Int,
                      comments : Nat, hidden : BOOLEAN]
        BY <2>1, LivePost DEF HidePost
      <3>2. QED
        BY <2>1, <3>1 DEF HidePost
    <2>2. CASE \E r \in Requests : HideComment(r)
      BY <2>2 DEF HideComment
    <2>3. QED
      BY <1>3, <2>1, <2>2
  <1>4. CASE post' = post /\ hidden' = hidden
    BY <1>4
  <1>5. QED
    BY <1>1, <1>2, <1>3, <1>4
    DEF Next, RequestStep, ChangeEntitlement, SuspendUser, ReportPost, Begin, CheckAccess,
        FindLike, RequestFails, ResolveReport, rows, vars

\* Hidden posts and comments stay hidden until the post is deleted.
THEOREM HiddenStaysHidden == Spec => ModerationSticks
  <1>1. Typed /\ [Next]_vars
        => [post'.state = "live" => /\ post.hidden => post'.hidden
                                    /\ hidden \subseteq hidden']_vars
    BY NextKeepsHidden
  <1>2. QED
    BY <1>1, AlwaysTyped, PTL DEF Spec, ModerationSticks

------------------------------------------------------------------------------
(* The counters                                                             *)

\* Neither the row nor a session's copy counts more comments than there are.
CommentInv ==
  post.state = "live" =>
    /\ post.comments \in 0 .. Cardinality(comments)
    /\ \A r \in Requests :
         Underway(r) => req[r].copy.comments \in 0 .. Cardinality(comments)

\* Without overlap at most one request is under way, its copy is the row, and
\* an unlike that may write has found the like it deletes.
SerialInv ==
  ~overlapped =>
    /\ \A r, q \in Requests : Underway(r) /\ Underway(q) => r = q
    /\ post.state = "live" =>
         /\ post.likes = Cardinality(likes)
         /\ post.comments = Cardinality(comments)
         /\ \A r \in Requests :
              Underway(r) => /\ req[r].copy.likes = post.likes
                             /\ req[r].copy.comments = post.comments
                             /\ req[r].pc = "write" /\ req[r].op = "unlike"
                                  => \E q \in likes : req[r].found = {q}

CountInv == CommentInv /\ SerialInv

\* The counts carry over a step that changes no counter and no row, and begins
\* no request.
LEMMA CountsCarryOver ==
  ASSUME Typed, CountInv, overlapped' = overlapped, likes' = likes, comments' = comments,
         post'.state = "live" => /\ post.state = "live" /\ post'.likes = post.likes
                                 /\ post'.comments = post.comments,
         \A r \in Requests :
           Underway(r)' => /\ Underway(r)
                           /\ req'[r].copy = req[r].copy
                           /\ req'[r].op = req[r].op
                           /\ req'[r].pc = "write" /\ req'[r].op = "unlike"
                                => \/ req[r].pc = "write" /\ req'[r].found = req[r].found
                                   \/ \E q \in likes : req'[r].found = {q}
  PROVE  CountInv'
  <1>1. CommentInv'
    BY DEF CountInv, CommentInv
  <1>2. SerialInv'
    BY DEF CountInv, SerialInv
  <1>3. QED
    BY <1>1, <1>2 DEF CountInv

LEMMA BeginCounts ==
  ASSUME Typed, CountInv, NEW r \in Requests, NEW u \in Users,
         NEW op \in {"like", "unlike", "comment"}, Begin(r, u, op)
  PROVE  CountInv'
  <1>1. /\ post.state = "live" /\ post' = post /\ likes' = likes /\ comments' = comments
        /\ req'[r] = [pc |-> "access", op |-> op, user |-> u, copy |-> post, found |-> {}]
        /\ \A q \in Requests \ {r} : req'[q] = req[q]
        /\ overlapped' = (overlapped \/ \E q \in Requests : Underway(q))
    BY DEF Begin, rows, Typed, TypeOK
  <1>2. CommentInv'
    BY <1>1 DEF CountInv, CommentInv, Underway
  <1>3. SerialInv'
    <2> SUFFICES ASSUME ~overlapped' PROVE SerialInv'
      BY DEF SerialInv
    <2>1. ~overlapped /\ \A q \in Requests : ~Underway(q)
      BY <1>1
    <2>2. \A q \in Requests : Underway(q)' => q = r
      BY <1>1, <2>1 DEF Underway
    <2>3. /\ post.likes = Cardinality(likes) /\ post.comments = Cardinality(comments)
      BY <1>1, <2>1 DEF CountInv, SerialInv
    <2>4. QED
      BY <1>1, <2>2, <2>3 DEF SerialInv
  <1>4. QED
    BY <1>2, <1>3 DEF CountInv

LEMMA CommitCounts ==
  ASSUME Typed, CountInv, NEW r \in Requests, Commit(r)
  PROVE  CountInv'
  <1>1. /\ Underway(r) /\ req[r].pc = "write" /\ overlapped' = overlapped
        /\ r \notin likes /\ r \notin comments
    BY DEF Commit, Underway, Typed, RequestShape
  <1>2. req[r].copy.likes \in Int /\ req[r].copy.comments \in Nat
    BY <1>1 DEF Typed, RequestShape, Post, NoPost
  <1>3. ~Underway(r)' /\ \A q \in Requests \ {r} : req'[q] = req[q]
    BY <1>1 DEF Commit, Goto, Underway, Typed, TypeOK, Request, NotSent
  <1>4. CASE ~Accepted(r)
    <2>1. post' = post /\ likes' = likes /\ comments' = comments
      BY <1>4 DEF Commit, rows
    <2>2. QED
      BY <1>1, <1>3, <2>1, CountsCarryOver DEF Underway
  <1>5. CASE Accepted(r)
    <2>1. post.state = "live"
      BY <1>5 DEF Accepted
    <2>2. CASE req[r].op = "like"
      <3>1. likes' = likes \cup {r} /\ post' = Written(r, "likes", 1) /\ comments' = comments
        BY <1>5, <2>2 DEF Commit
      <3>2. post'.likes = req[r].copy.likes + 1 /\ post'.comments = post.comments
        BY <1>1, <2>1, <3>1, WrittenTyped
      <3>3. Cardinality(likes') = Cardinality(likes) + 1
        BY <1>1, <3>1, FS_AddElement DEF Typed, FiniteRows
      <3>4. CommentInv'
        BY <1>3, <2>1, <3>1, <3>2 DEF CountInv, CommentInv, Underway
      <3>5. SerialInv'
        BY <1>1, <1>3, <2>1, <3>1, <3>2, <3>3 DEF CountInv, SerialInv, Underway
      <3>6. QED
        BY <3>4, <3>5 DEF CountInv
    <2>3. CASE req[r].op = "unlike"
      <3>1. /\ likes' = likes \ req[r].found /\ post' = Written(r, "likes", -1)
            /\ comments' = comments
        BY <1>5, <2>3 DEF Commit
      <3>2. post'.likes = req[r].copy.likes + (-1) /\ post'.comments = post.comments
        BY <1>1, <2>1, <3>1, WrittenTyped
      <3>3. (\E q \in likes : req[r].found = {q}) => Cardinality(likes') = Cardinality(likes) - 1
        BY <3>1, FS_RemoveElement DEF Typed, FiniteRows
      <3>4. CommentInv'
        BY <1>3, <2>1, <3>1, <3>2 DEF CountInv, CommentInv, Underway
      <3>5. SerialInv'
        BY <1>1, <1>3, <2>1, <2>3, <3>1, <3>2, <3>3, <1>2 DEF CountInv, SerialInv, Underway
      <3>6. QED
        BY <3>4, <3>5 DEF CountInv
    <2>4. CASE req[r].op = "comment"
      <3>1. likes' = likes /\ post' = Written(r, "comments", 1) /\ comments' = comments \cup {r}
        BY <1>5, <2>4 DEF Commit
      <3>2. post'.likes = post.likes /\ post'.comments = req[r].copy.comments + 1
        BY <1>1, <2>1, <3>1, WrittenTyped
      <3>3. /\ Cardinality(comments') = Cardinality(comments) + 1
            /\ Cardinality(comments) \in Nat
        BY <1>1, <3>1, FS_AddElement, FS_CardinalityType DEF Typed, FiniteRows
      <3>4. CommentInv'
        <4>1. \A q \in Requests :
                Underway(q) => req[q].copy.comments \in 0 .. Cardinality(comments)
          BY <2>1 DEF CountInv, CommentInv
        <4>2. \A q \in Requests : Underway(q)' => Underway(q) /\ req'[q] = req[q]
          BY <1>3 DEF Underway
        <4>3. \A q \in Requests :
                Underway(q)' => req'[q].copy.comments \in 0 .. Cardinality(comments')
          BY <3>3, <4>1, <4>2
        <4>4. post'.comments \in 0 .. Cardinality(comments')
          BY <1>1, <3>2, <3>3, <4>1
        <4>5. QED
          BY <4>3, <4>4 DEF CommentInv
      <3>5. SerialInv'
        BY <1>1, <1>3, <2>1, <3>1, <3>2, <3>3 DEF CountInv, SerialInv, Underway
      <3>6. QED
        BY <3>4, <3>5 DEF CountInv
    <2>5. QED
      BY <1>1, <2>2, <2>3, <2>4 DEF Typed, RequestShape
  <1>6. QED
    BY <1>4, <1>5

LEMMA NextCounts == Typed /\ NoOrphans /\ OneLikeEach /\ CountInv /\ [Next]_vars => CountInv'
  <1> SUFFICES ASSUME Typed, NoOrphans, OneLikeEach, CountInv, [Next]_vars PROVE CountInv'
    OBVIOUS
  <1>1. ASSUME NEW u \in Users, CreatePost(u) PROVE CountInv'
    <2>1. /\ likes = {} /\ comments = {} /\ likes' = {} /\ comments' = {}
          /\ req' = req /\ overlapped' = overlapped
          /\ post'.likes = 0 /\ post'.comments = 0
      BY <1>1 DEF CreatePost, NoOrphans, NoPost
    <2>2. \A r \in Requests : ~Underway(r)'
      BY <1>1, <2>1 DEF CreatePost, Typed, RequestShape, Underway
    <2>3. Cardinality({}) = 0
      BY FS_EmptySet
    <2>4. CommentInv' /\ SerialInv'
      BY <2>1, <2>2, <2>3 DEF CommentInv, SerialInv
    <2>5. QED
      BY <2>4 DEF CountInv
  <1>2. ASSUME NEW u \in Users, DeletePost(u) PROVE CountInv'
    <2>1. post'.state = "deleted" /\ req' = req /\ overlapped' = overlapped
      <3>1. post \in [state : {"live", "deleted"}, author : Users, likes : Int,
                      comments : Nat, hidden : BOOLEAN]
        BY <1>2, LivePost DEF DeletePost
      <3>2. QED
        BY <1>2, <3>1 DEF DeletePost
    <2>2. CommentInv' /\ SerialInv'
      BY <2>1 DEF CountInv, CommentInv, SerialInv, Underway
    <2>3. QED
      BY <2>2 DEF CountInv
  <1>3. ASSUME NEW u \in Users, NEW r \in Requests, ReportPost(r, u) PROVE CountInv'
    <2>1. /\ post' = post /\ likes' = likes /\ comments' = comments /\ overlapped' = overlapped
          /\ ~Underway(r)' /\ \A q \in Requests \ {r} : req'[q] = req[q]
      BY <1>3 DEF ReportPost, Underway, Typed, TypeOK
    <2>2. QED
      BY <2>1, CountsCarryOver DEF Underway
  <1>4. ASSUME NEW r \in Requests, CheckAccess(r) PROVE CountInv'
    <2>1. /\ post' = post /\ likes' = likes /\ comments' = comments /\ overlapped' = overlapped
          /\ req[r] # NotSent /\ req[r] \in Request /\ Underway(r)
          /\ req'[r].pc = "write" => req[r].op = "comment"
          /\ req'[r].copy = req[r].copy /\ req'[r].op = req[r].op
          /\ \A q \in Requests \ {r} : req'[q] = req[q]
      BY <1>4 DEF CheckAccess, Goto, Underway, rows, Typed, TypeOK, Request, NotSent
    <2>2. QED
      BY <2>1, CountsCarryOver DEF Underway
  <1>5. ASSUME NEW r \in Requests, FindLike(r) PROVE CountInv'
    <2>1. /\ post' = post /\ likes' = likes /\ comments' = comments /\ overlapped' = overlapped
          /\ req[r] # NotSent /\ req[r] \in Request /\ Underway(r)
          /\ req'[r].pc = "write" => /\ RightToAct(req[r].op, req[r].user)
                                     /\ req'[r].found = LikesOf(req[r].user)
          /\ req'[r].copy = req[r].copy /\ req'[r].op = req[r].op
          /\ \A q \in Requests \ {r} : req'[q] = req[q]
      BY <1>5 DEF FindLike, Underway, rows, Typed, TypeOK, Request, NotSent
    <2>2. ASSUME LikesOf(req[r].user) # {}
          PROVE  \E q \in likes : LikesOf(req[r].user) = {q}
      <3>1. PICK q \in likes : req[q].user = req[r].user
        BY <2>2 DEF LikesOf
      <3>2. LikesOf(req[r].user) = {q}
        BY <3>1 DEF LikesOf, OneLikeEach
      <3>3. QED
        BY <3>2
    <2>3. QED
      BY <2>1, <2>2, CountsCarryOver DEF Underway, RightToAct
  <1>6. ASSUME NEW r \in Requests, RequestFails(r) PROVE CountInv'
    <2>1. /\ post' = post /\ likes' = likes /\ comments' = comments /\ overlapped' = overlapped
          /\ ~Underway(r)' /\ \A q \in Requests \ {r} : req'[q] = req[q]
      BY <1>6 DEF RequestFails, Goto, Underway, rows, Typed, TypeOK, Request, NotSent
    <2>2. QED
      BY <2>1, CountsCarryOver DEF Underway
  <1>7. ASSUME HidePost PROVE CountInv'
    <2>1. /\ post \in [state : {"live", "deleted"}, author : Users, likes : Int,
                       comments : Nat, hidden : BOOLEAN]
      BY <1>7, LivePost DEF HidePost
    <2>2. /\ post.state = "live" /\ post'.likes = post.likes /\ post'.comments = post.comments
          /\ likes' = likes /\ comments' = comments /\ overlapped' = overlapped /\ req' = req
      BY <1>7, <2>1 DEF HidePost
    <2>3. QED
      BY <2>2, CountsCarryOver DEF Underway
  <1>8. ASSUME post' = post, likes' = likes, comments' = comments,
               overlapped' = overlapped, req' = req
        PROVE  CountInv'
    BY <1>8, CountsCarryOver DEF Underway
  <1>9. QED
    BY <1>1, <1>2, <1>3, <1>4, <1>5, <1>6, <1>7, <1>8, BeginCounts, CommitCounts
    DEF Next, RequestStep, ChangeEntitlement, SuspendUser, ResolveReport, HideComment, rows, vars

LEMMA AlwaysCounted == Spec => []CountInv
  <1>1. Init => CountInv
    BY DEF Init, CountInv, CommentInv, SerialInv, NoPost, NotSent, Underway
  <1>2. QED
    BY <1>1, NextCounts, AlwaysTyped, AlwaysOneLike, NothingDangles, PTL DEF Spec

\* A post never shows more comments than it has, however many requests race.
THEOREM CommentsBounded == Spec => []CommentsNeverOvercounted
  <1>1. CountInv => CommentsNeverOvercounted
    BY DEF CountInv, CommentInv, CommentsNeverOvercounted
  <1>2. QED
    BY <1>1, AlwaysCounted, PTL

\* The counters are exact as long as no two requests overlap.
THEOREM CountsExact == Spec => []SerialCounts
  <1>1. CountInv => SerialCounts
    BY DEF CountInv, SerialInv, SerialCounts
  <1>2. QED
    BY <1>1, AlwaysCounted, PTL
==============================================================================
