--------------------------- MODULE PostEngagement ---------------------------
(***************************************************************************)
(* One post and what its readers do to it: like toggles of the post and of *)
(* its comments (posts/[id]/like, comments/[id]/like), comments and        *)
(* replies (posts/[id]/comments), edits and removals (comments/[id]), the  *)
(* Versos they earn (lib/social/versos.ts), the erasure of an account      *)
(* (jobs/hard-delete-accounts.ts) and the daily job that recounts          *)
(* (jobs/counter-reconcile.ts).                                            *)
(*                                                                         *)
(* A handler reads first and writes later; between the two any other       *)
(* handler may commit.  The writes of a transaction are one step: from its *)
(* first write on it holds the row of the like or comment it is about,     *)
(* then the post's, then the profile's, always in this order.  The checks  *)
(* of a request and the first read of its transaction are one step.        *)
(* Refused requests (not visible, comments disabled, rate limits) change   *)
(* nothing here and are left out.                                          *)
(***************************************************************************)
EXTENDS Integers, FiniteSets

CONSTANTS Users, Author,            \* readers, among them the post's author
          Comments,                 \* identities of Comment rows
          Requests,                 \* requests handled at the same time
          Post, NoUser, NoComment,
          Liked,                    \* bound: the items that requests like
          MinCount                  \* bound: no edit starts below this count

ASSUME IdentityAssumption ==
  /\ Author \in Users /\ NoUser \notin Users /\ IsFiniteSet(Users)
  /\ Post \notin Comments /\ NoComment \notin Comments \cup {Post}
  /\ IsFiniteSet(Comments)
ASSUME BoundAssumption == MinCount \in Int /\ Liked \subseteq {Post} \cup Comments

Items == {Post} \cup Comments       \* what can be liked
LikeReward == 1                     \* VERSOS_REWARDS
CommentReward == 2

VARIABLES likes,          \* PostLike and CommentLike rows: <<item, user>>
          likeCount,      \* Post.likeCount, Comment.likeCount
          status,         \* of a comment: "none", "shown", "removed", "gone"
          writer,         \* Comment.authorId
          parent,         \* Comment.parentCommentId
          commentCount,   \* Post.commentCount
          likeNotes,      \* "like" notifications to the author, per liker
          told,           \* "comment" notifications: <<comment, recipient>>
          likePaid,       \* PostLikeReward markers
          commentPaid,    \* CommentReward markers
          balance,        \* UserProfile.versosBalance earned on this post
          erased,         \* anonymised accounts
          req,            \* the handlers in progress
          job             \* the recount in progress

likeVars    == <<likes, likeCount, likeNotes, likePaid>>
commentVars == <<status, writer, parent, commentCount, told, commentPaid>>
vars == <<likeVars, commentVars, balance, erased, req, job>>

Handler == [pc : {"idle", "like", "unlike", "comment", "edit"},
            usr : Users \cup {NoUser}, item : Items \cup {NoComment}]
Idle == [pc |-> "idle", usr |-> NoUser, item |-> NoComment]

Job == [rows : SUBSET Items, likes : [Items -> Int], comments : Int]
NoJob == [rows |-> {}, likes |-> [i \in Items |-> 0], comments |-> 0]

TypeOK ==
  /\ likes \subseteq Items \X Users
  /\ likeCount \in [Items -> Int]
  /\ status \in [Comments -> {"none", "shown", "removed", "gone"}]
  /\ writer \in [Comments -> Users \cup {NoUser}]
  /\ parent \in [Comments -> Comments \cup {NoComment}]
  /\ commentCount \in Int
  /\ likeNotes \in [Users -> Nat]
  /\ told \subseteq Comments \X Users
  /\ likePaid \subseteq Users /\ commentPaid \subseteq Users
  /\ balance \in [Users -> Nat]
  /\ erased \subseteq Users
  /\ req \in [Requests -> Handler]
  /\ job \in Job

Init ==
  /\ likes = {} /\ likeCount = [i \in Items |-> 0]
  /\ status = [c \in Comments |-> "none"]
  /\ writer = [c \in Comments |-> NoUser]
  /\ parent = [c \in Comments |-> NoComment]
  /\ commentCount = 0
  /\ likeNotes = [u \in Users |-> 0] /\ told = {}
  /\ likePaid = {} /\ commentPaid = {}
  /\ balance = [u \in Users |-> 0]
  /\ erased = {}
  /\ req = [r \in Requests |-> Idle]
  /\ job = NoJob

-----------------------------------------------------------------------------
Shown == {c \in Comments : status[c] = "shown"}
Rows == {Post} \cup {c \in Comments : status[c] \in {"shown", "removed"}}
Likers(i) == {u \in Users : <<i, u>> \in likes}
Written(u) == {c \in Comments : writer[c] = u}

Running(r, step) == req[r].pc = step
Waiting(r, u) == Running(r, "idle") /\ u \in Users \ erased
Start(r, step, u, i) == req' = [req EXCEPT ![r] = [pc |-> step, usr |-> u, item |-> i]]
Finish(r) == req' = [req EXCEPT ![r] = Idle]

\* Mutant: the marker is not looked up.
EarnAgain(u, paid, amount) == balance' = [balance EXCEPT ![u] = @ + amount]

\* earnVersos, unless the marker of this reward exists.
Earn(u, paid, amount) ==
  balance' = [balance EXCEPT ![u] = IF u \in paid THEN @ ELSE @ + amount]

(* The like toggle: whether the row exists is read in the transaction, the  *)
(* write fails if that has changed since (P2002, P2025, or the comment is   *)
(* gone) and the transaction rolls back.                                    *)

LikeFind(r, u, i) ==
  /\ Waiting(r, u) /\ i \in Liked
  /\ Start(r, IF <<i, u>> \in likes THEN "unlike" ELSE "like", u, i)
  /\ UNCHANGED <<likeVars, commentVars, balance, erased, job>>

LikePost(r, u) == u # Author /\ LikeFind(r, u, Post)

LikeComment(r, u) == \E c \in Shown : LikeFind(r, u, c)

\* Mutant: an upsert, in place of a create that fails on the second row.
LikeUpserts(i, u) == i \in Rows

\* Mutant: the row carries no foreign key.
LikesDangling(i, u) == <<i, u>> \notin likes

\* What the unique index and the foreign key let through.
LikeCreates(i, u) == i \in Rows /\ <<i, u>> \notin likes

\* A like of the post is announced (deleteMany, create) and earns Versos ...
PostLiked(u) ==
  /\ likeNotes' = [likeNotes EXCEPT ![u] = 1]
  /\ Earn(u, likePaid, LikeReward)
  /\ likePaid' = likePaid \cup {u}

\* ... that of a comment is not.
CommentLiked == UNCHANGED <<likeNotes, likePaid, balance>>

Like(r) ==
  LET u == req[r].usr  i == req[r].item IN
  /\ Running(r, "like") /\ LikeCreates(i, u)
  /\ likes' = likes \cup {<<i, u>>}
  /\ likeCount' = [likeCount EXCEPT ![i] = @ + 1]
  /\ IF i = Post THEN PostLiked(u) ELSE CommentLiked
  /\ Finish(r)
  /\ UNCHANGED <<commentVars, erased, job>>

\* Mutant: the notification of the pair stays.
UnlikeKeepsNote(i, u) == likeNotes

\* The notification of the pair is deleted with a like of the post.
NotesAfterUnlike(i, u) == [likeNotes EXCEPT ![u] = IF i = Post THEN 0 ELSE @]

Unlike(r) ==
  LET u == req[r].usr  i == req[r].item IN
  /\ Running(r, "unlike") /\ i \in Rows /\ <<i, u>> \in likes
  /\ likes' = likes \ {<<i, u>>}
  /\ likeCount' = [likeCount EXCEPT ![i] = @ - 1]
  /\ likeNotes' = NotesAfterUnlike(i, u)
  /\ Finish(r)
  /\ UNCHANGED <<likePaid, commentVars, balance, erased, job>>

-----------------------------------------------------------------------------
(* A comment or reply: post and parent are read before the transaction, and *)
(* the parent only has to have been shown then.                             *)

CommentFind(r, u, p) ==
  /\ Waiting(r, u)
  /\ p = NoComment \/ (p \in Shown /\ parent[p] = NoComment)
  /\ Start(r, "comment", u, p)
  /\ UNCHANGED <<likeVars, commentVars, balance, erased, job>>

\* Mutant: the writer is not left out.
RecipientsWithWriter(u, p) == {Author} \cup {writer[q] : q \in {p} \ {NoComment}}

\* Mutant: the parent's id in place of its authorId.
RecipientsById(u, p) == {Author, p} \ {u, NoComment}

\* Who is told: the post's author and the parent's, never the writer.
Recipients(u, p) == ({Author} \cup {writer[q] : q \in {p} \ {NoComment}}) \ {u}

Comment(r) ==
  LET u == req[r].usr  p == req[r].item IN
  /\ Running(r, "comment") /\ p \in Rows \cup {NoComment}
  /\ \E c \in Comments :
       /\ status[c] = "none"
       /\ status' = [status EXCEPT ![c] = "shown"]
       /\ writer' = [writer EXCEPT ![c] = u]
       /\ parent' = [parent EXCEPT ![c] = p]
       /\ told' = told \cup ({c} \X Recipients(u, p))
  /\ commentCount' = commentCount + 1
  /\ Earn(u, commentPaid, CommentReward)
  /\ commentPaid' = commentPaid \cup {u}
  /\ Finish(r)
  /\ UNCHANGED <<likeVars, erased, job>>

\* PATCH: the marker is tested when the comment is read; the update has no test.
EditFind(r, u, c) ==
  /\ Waiting(r, u) /\ c \in Shown \cap Written(u)
  /\ commentCount >= MinCount
  /\ Start(r, "edit", u, c)
  /\ UNCHANGED <<likeVars, commentVars, balance, erased, job>>

Edit(r) ==
  LET c == req[r].item IN
  /\ Running(r, "edit") /\ c \in Rows
  /\ status' = [status EXCEPT ![c] = "shown"]
  /\ Finish(r)
  /\ UNCHANGED <<likeVars, writer, parent, commentCount, told, commentPaid,
                 balance, erased, job>>

\* DELETE flips a comment only if it does not carry the marker yet.
Removable(c) == c \in Shown

DeleteComment(u, c) ==
  /\ c \in Written(u) /\ Removable(c)
  /\ status' = [status EXCEPT ![c] = "removed"]
  /\ commentCount' = commentCount - 1
  /\ UNCHANGED <<likeVars, writer, parent, told, commentPaid, balance, erased,
                 req, job>>

\* P2002, P2025 or a missing parent; an await that rejects; the process stops.
Fail(r) ==
  /\ ~Running(r, "idle")
  /\ Finish(r)
  /\ UNCHANGED <<likeVars, commentVars, balance, erased, job>>

-----------------------------------------------------------------------------
\* anonymizeAccount, thirty days after u was last able to send a request: rows
\* go, replies and likes in cascade, and no counter is touched.  The erasure of
\* the author takes the post with it and is not modelled.
Erase(u) ==
  LET own  == {c \in Written(u) : c \in Rows}
      gone == own \cup {c \in Comments : parent[c] \in own}
      kept == {i \in Items : i \notin gone} IN
  /\ u \in Users \ (erased \cup {Author})
  /\ \A r \in Requests : req[r].usr # u
  /\ erased' = erased \cup {u}
  /\ likes' = {l \in likes : l[1] \in kept /\ l[2] # u}
  /\ likeCount' = [i \in Items |-> IF i \in kept THEN likeCount[i] ELSE 0]
  /\ status' = [c \in Comments |-> IF c \in gone THEN "gone" ELSE status[c]]
  /\ told' = {n \in told : n[2] # u}
  /\ balance' = [balance EXCEPT ![u] = 0]
  /\ UNCHANGED <<likeNotes, likePaid, writer, parent, commentCount, commentPaid,
                 req, job>>

\* Mutant: removed comments are counted.
RecountAll == {c \in Comments : status[c] \in {"shown", "removed"}}

Recounted == Shown

Miscounted(i) == \/ likeCount[i] # Cardinality(Likers(i))
                 \/ i = Post /\ commentCount # Cardinality(Recounted)

\* One UPDATE over the posts, one over the comments.  Both select the rows to
\* correct and count from the snapshot they start with; a row that another
\* transaction holds is then tested again, against the same counts.
RecountBegin(I) ==
  LET rows == {i \in I \cap Rows : Miscounted(i)} IN
  /\ job = NoJob /\ rows # {}
  /\ job' = [rows |-> rows, comments |-> Cardinality(Recounted),
             likes |-> [i \in Items |-> IF i \in rows THEN Cardinality(Likers(i)) ELSE 0]]
  /\ UNCHANGED <<likeVars, commentVars, balance, erased, req>>

RecountEnd ==
  /\ job # NoJob
  /\ likeCount' = [i \in Items |-> IF i \in job.rows \cap Rows THEN job.likes[i]
                                                                ELSE likeCount[i]]
  /\ commentCount' = IF Post \in job.rows THEN job.comments ELSE commentCount
  /\ job' = NoJob
  /\ UNCHANGED <<likes, likeNotes, likePaid, status, writer, parent, told,
                 commentPaid, balance, erased, req>>

RecountFails ==
  /\ job # NoJob
  /\ job' = NoJob
  /\ UNCHANGED <<likeVars, commentVars, balance, erased, req>>

Arrive(r) ==
  \E u \in Users :
    \/ LikePost(r, u) \/ LikeComment(r, u)
    \/ \E p \in Comments \cup {NoComment} : CommentFind(r, u, p)
    \/ \E c \in Comments : EditFind(r, u, c)

HandlerStep(r) == Like(r) \/ Unlike(r) \/ Comment(r) \/ Edit(r) \/ Fail(r)

Recount == RecountEnd \/ \E I \in {{Post}, Comments} : RecountBegin(I)

Next ==
  \/ \E r \in Requests : Arrive(r) \/ HandlerStep(r)
  \/ \E u \in Users : Erase(u) \/ \E c \in Comments : DeleteComment(u, c)
  \/ Recount \/ RecountFails

Spec == Init /\ [][Next]_vars

\* The scheduler calls the job every day, and it does not fail for ever.
FairSpec == Spec /\ WF_vars(Recount) /\ SF_vars(RecountEnd)

-----------------------------------------------------------------------------
LikeDrift(i) == likeCount[i] - Cardinality(Likers(i))
CommentDrift == commentCount - Cardinality(Shown)

(* Likes, comments and removals move the counters with the rows, however    *)
(* the requests overlap: only the cascades of an erasure, the job, and an   *)
(* edit that brings a removed comment back change the difference.           *)
DriftStays ==
  erased' = erased /\ job' = job =>
    /\ \A i \in Items : LikeDrift(i)' = LikeDrift(i)
    /\ \/ CommentDrift' = CommentDrift
       \/ \E c \in Comments : status[c] = "removed" /\ status'[c] = "shown"
CountersFollowRows == [][DriftStays]_vars

(* Toggling and commenting again earn nothing: an account holds exactly the *)
(* rewards its markers record, each of them once.  And the author is        *)
(* notified of a like once while it stands, and not at all once it is       *)
(* withdrawn.                                                               *)
RewardedOnce(u) ==
  balance[u] = (IF u \in likePaid THEN LikeReward ELSE 0)
               + (IF u \in commentPaid THEN CommentReward ELSE 0)

NotedOnce(u) == likeNotes[u] = IF <<Post, u>> \in likes THEN 1 ELSE 0

RewardedAndNotedOnce == \A u \in Users \ erased : RewardedOnce(u) /\ NotedOnce(u)

(* No comment outlives the parent it answers, nor a like its comment, and   *)
(* no account keeps rows or notifications after its erasure.                *)
NoOrphans ==
  /\ \A c \in Comments : c \in Rows => parent[c] \in Rows \cup {NoComment}
  /\ \A l \in likes : l[1] \in Rows /\ l[2] \notin erased
  /\ \A n \in told : n[2] \notin erased \cup {writer[n[1]]}
  /\ \A u \in erased : Written(u) \cap Rows = {}

(* Once requests stop, the daily job makes every counter exact, even after  *)
(* recounts that overlapped with requests.                                  *)
Quiet == \A r \in Requests : Running(r, "idle")
Exact == CommentDrift = 0 /\ \A i \in Rows : LikeDrift(i) = 0
CountersSettle == <>[]Quiet => <>[]Exact

(* lib/social/comments.ts:16-19: reads and mutations treat a comment with   *)
(* the marker as one that no longer exists; so it is never shown again.     *)
RemovedForGood ==
  [][\A c \in Comments : status[c] = "removed" => status'[c] # "shown"]_vars
=============================================================================
