------------------------- MODULE PostEngagementProofs -------------------------
(***************************************************************************)
(* The rows of a post and their counters, proved of PostEngagement for any *)
(* readers, comments and handlers in progress.                             *)
(***************************************************************************)
EXTENDS PostEngagementMC, FiniteSetTheorems, TLAPS

-----------------------------------------------------------------------------
(* The inductive invariant                                                 *)

Made(c) == c \in Comments /\ status[c] # "none"

\* A handler acts for an account that is still there, on an item of its kind;
\* a reply answers a comment that answers none.
HandlerInv ==
  \A r \in Requests :
    /\ req[r].pc # "idle" => req[r].usr \in Users \ erased
    /\ req[r].pc \in {"like", "unlike"} => req[r].item \in Items
    /\ req[r].pc = "edit" => req[r].item \in Comments
    /\ req[r].pc = "comment" =>
         \/ req[r].item = NoComment
         \/ Made(req[r].item) /\ parent[req[r].item] = NoComment

\* Threads are one level deep, and a comment that was made has its writer.
ThreadInv ==
  /\ \A c \in Comments : status[c] = "none" => parent[c] = NoComment
  /\ \A c \in Comments : parent[c] # NoComment =>
                           Made(parent[c]) /\ parent[parent[c]] = NoComment
  /\ \A c \in Comments : status[c] # "none" => writer[c] \in Users
  /\ \A c \in Comments : status[c] = "none" => writer[c] = NoUser

\* Only comments that were made are told of, and the author's account stays.
ToldInv == (\A n \in told : Made(n[1])) /\ Author \notin erased

IInv == TypeOK /\ HandlerInv /\ ThreadInv /\ ToldInv /\ RewardedAndNotedOnce /\ NoOrphans

LEMMA Initial ==
  ASSUME Init
  PROVE  IInv
<1>1. TypeOK
  <2>1. NoJob \in Job /\ Idle \in Handler
    BY DEF NoJob, Job, Items, Idle, Handler
  <2> QED
    BY <2>1 DEF Init, TypeOK, Items
<1>2. HandlerInv
  BY DEF Init, HandlerInv, Idle
<1>3. ThreadInv /\ ToldInv /\ RewardedAndNotedOnce
  BY DEF Init, ThreadInv, ToldInv, Made, RewardedAndNotedOnce, RewardedOnce, NotedOnce
<1>4. NoOrphans
  BY DEF Init, NoOrphans, Rows, Written
<1> QED
  BY <1>1, <1>2, <1>3, <1>4 DEF IInv

-----------------------------------------------------------------------------
(* What the steps have in common                                           *)

\* Only the handlers and the job move.
LEMMA RowsKept ==
  ASSUME IInv, UNCHANGED <<likeVars, commentVars, balance, erased>>,
         req' \in [Requests -> Handler], HandlerInv', job' \in Job
  PROVE  IInv'
<1>1. TypeOK'
  BY DEF IInv, TypeOK, likeVars, commentVars
<1>2. ThreadInv' /\ ToldInv' /\ RewardedAndNotedOnce'
  BY DEF IInv, ThreadInv, ToldInv, Made, RewardedAndNotedOnce, RewardedOnce, NotedOnce,
         likeVars, commentVars
<1>3. NoOrphans'
  BY DEF IInv, NoOrphans, Rows, Written, likeVars, commentVars
<1> QED
  BY <1>1, <1>2, <1>3 DEF IInv

\* A handler ends while the comments that were made stay made, where they were.
LEMMA FinishKeeps ==
  ASSUME TypeOK, HandlerInv, NEW r \in Requests, Finish(r), erased' = erased,
         \A c \in Comments : Made(c) => status'[c] # "none" /\ parent'[c] = parent[c]
  PROVE  req' \in [Requests -> Handler] /\ HandlerInv'
<1>1. Idle \in Handler /\ Idle.pc = "idle"
  BY DEF Idle, Handler
<1>2. req' = [req EXCEPT ![r] = Idle] /\ req \in [Requests -> Handler]
  BY DEF Finish, TypeOK
<1>3. req' \in [Requests -> Handler]
  BY <1>1, <1>2
<1>4. \A q \in Requests : req'[q] = req[q] \/ req'[q].pc = "idle"
  BY <1>1, <1>2
<1>5. HandlerInv'
  BY <1>4 DEF HandlerInv, Made
<1> QED
  BY <1>3, <1>5

\* A request is accepted.
LEMMA StartKeeps ==
  ASSUME IInv, NEW r \in Requests, NEW u \in Users \ erased,
         NEW step \in {"like", "unlike", "comment", "edit"}, NEW i \in Items \cup {NoComment},
         step \in {"like", "unlike"} => i \in Items,
         step = "edit" => i \in Comments,
         step = "comment" => i = NoComment \/ (Made(i) /\ parent[i] = NoComment),
         Start(r, step, u, i),
         UNCHANGED <<likeVars, commentVars, balance, erased, job>>
  PROVE  IInv'
<1> DEFINE h == [pc |-> step, usr |-> u, item |-> i]
<1>1. h \in Handler /\ h.pc = step /\ h.usr = u /\ h.item = i
  BY DEF Handler
<1>2. req' = [req EXCEPT ![r] = h] /\ req \in [Requests -> Handler] /\ job \in Job
  BY DEF Start, IInv, TypeOK
<1> HIDE DEF h
<1>3. req' \in [Requests -> Handler] /\ job' \in Job
  BY <1>1, <1>2
<1>4. \A q \in Requests : req'[q] = IF q = r THEN h ELSE req[q]
  BY <1>2
<1>5. HandlerInv'
  BY <1>1, <1>4 DEF IInv, HandlerInv, Made, commentVars
<1> QED
  BY <1>3, <1>5, RowsKept

LEMMA ArriveKeeps ==
  ASSUME IInv, NEW r \in Requests, Arrive(r)
  PROVE  IInv'
<1>1. ASSUME NEW u \in Users, NEW i \in Items, LikeFind(r, u, i)
      PROVE  IInv'
  <2>1. PICK step \in {"like", "unlike"} : Start(r, step, u, i)
    BY <1>1 DEF LikeFind
  <2>2. u \in Users \ erased /\ UNCHANGED <<likeVars, commentVars, balance, erased, job>>
    BY <1>1 DEF LikeFind, Waiting
  <2> QED
    BY <2>1, <2>2, StartKeeps
<1>2. ASSUME NEW u \in Users, NEW p \in Comments \cup {NoComment}, CommentFind(r, u, p)
      PROVE  IInv'
  <2>1. /\ p = NoComment \/ (Made(p) /\ parent[p] = NoComment)
        /\ u \in Users \ erased /\ Start(r, "comment", u, p)
        /\ UNCHANGED <<likeVars, commentVars, balance, erased, job>>
    BY <1>2 DEF CommentFind, Waiting, Shown, Made
  <2>2. p \in Items \cup {NoComment}
    BY DEF Items
  <2> QED
    BY <2>1, <2>2, StartKeeps
<1>3. ASSUME NEW u \in Users, NEW c \in Comments, EditFind(r, u, c)
      PROVE  IInv'
  <2>1. /\ u \in Users \ erased /\ Start(r, "edit", u, c)
        /\ UNCHANGED <<likeVars, commentVars, balance, erased, job>>
    BY <1>3 DEF EditFind, Waiting
  <2>2. c \in Items \cup {NoComment}
    BY DEF Items
  <2> QED
    BY <2>1, <2>2, StartKeeps
<1> QED
  BY <1>1, <1>2, <1>3 DEF Arrive, LikePost, LikeComment, Shown, Items

-----------------------------------------------------------------------------
(* One lemma for each handler and job                                      *)

LEMMA LikeKeeps ==
  ASSUME IInv, NEW r \in Requests, Like(r)
  PROVE  IInv'
<1> DEFINE u == req[r].usr
           i == req[r].item
<1>0. TypeOK /\ HandlerInv
  BY DEF IInv
<1>1. /\ req[r].pc = "like" /\ LikeCreates(i, u) /\ Finish(r)
      /\ likes' = likes \cup {<<i, u>>}
      /\ likeCount' = [likeCount EXCEPT ![i] = @ + 1]
      /\ UNCHANGED <<commentVars, erased, job>>
      /\ IF i = Post THEN PostLiked(u) ELSE CommentLiked
  BY DEF Like, Running
<1>2. u \in Users \ erased /\ i \in Items
  BY <1>0, <1>1 DEF HandlerInv
<1>3. req' \in [Requests -> Handler] /\ HandlerInv'
  BY <1>0, <1>1, FinishKeeps DEF commentVars, Made
<1> HIDE DEF u, i
<1>4. /\ likeNotes' \in [Users -> Nat] /\ likePaid' \subseteq Users /\ balance' \in [Users -> Nat]
      /\ \A v \in Users : v # u => /\ likeNotes'[v] = likeNotes[v] /\ balance'[v] = balance[v]
                                   /\ v \in likePaid' <=> v \in likePaid
      /\ i # Post => UNCHANGED <<likeNotes, likePaid, balance>>
      /\ i = Post => /\ likeNotes'[u] = 1 /\ u \in likePaid'
                     /\ balance'[u] = IF u \in likePaid THEN balance[u] ELSE balance[u] + 1
  <2>1. CASE i = Post
    BY <1>0, <1>1, <1>2, <2>1 DEF TypeOK, PostLiked, Earn, LikeReward
  <2>2. CASE i # Post
    BY <1>0, <1>1, <1>2, <2>2 DEF TypeOK, CommentLiked
  <2> QED
    BY <2>1, <2>2
<1>5. TypeOK'
  BY <1>0, <1>1, <1>2, <1>3, <1>4 DEF TypeOK, commentVars
<1>6. ThreadInv' /\ ToldInv'
  BY <1>1 DEF IInv, ThreadInv, ToldInv, Made, commentVars
<1>7. RewardedAndNotedOnce'
  <2> SUFFICES ASSUME NEW v \in Users \ erased
               PROVE  RewardedOnce(v)' /\ NotedOnce(v)'
    BY <1>1 DEF RewardedAndNotedOnce
  <2>1. RewardedOnce(v) /\ NotedOnce(v)
    BY DEF IInv, RewardedAndNotedOnce
  <2>2. balance[v] \in Nat /\ commentPaid' = commentPaid
    BY <1>0, <1>1 DEF TypeOK, commentVars
  <2>3. RewardedOnce(v)'
    BY <1>2, <1>4, <2>1, <2>2 DEF RewardedOnce, LikeReward, CommentReward
  <2>4. <<Post, v>> \in likes' <=> <<Post, v>> \in likes \/ (i = Post /\ v = u)
    BY <1>1
  <2>5. NotedOnce(v)'
    BY <1>2, <1>4, <2>1, <2>4 DEF NotedOnce
  <2> QED
    BY <2>3, <2>5
<1>8. NoOrphans'
  BY <1>1, <1>2 DEF IInv, NoOrphans, Rows, Written, commentVars, LikeCreates
<1> QED
  BY <1>3, <1>5, <1>6, <1>7, <1>8 DEF IInv

LEMMA UnlikeKeeps ==
  ASSUME IInv, NEW r \in Requests, Unlike(r)
  PROVE  IInv'
<1> DEFINE u == req[r].usr
           i == req[r].item
<1>0. TypeOK /\ HandlerInv
  BY DEF IInv
<1>1. /\ req[r].pc = "unlike" /\ Finish(r)
      /\ likes' = likes \ {<<i, u>>}
      /\ likeCount' = [likeCount EXCEPT ![i] = @ - 1]
      /\ likeNotes' = NotesAfterUnlike(i, u)
      /\ UNCHANGED <<likePaid, commentVars, balance, erased, job>>
  BY DEF Unlike, Running
<1>2. u \in Users \ erased /\ i \in Items
  BY <1>0, <1>1 DEF HandlerInv
<1>3. req' \in [Requests -> Handler] /\ HandlerInv'
  BY <1>0, <1>1, FinishKeeps DEF commentVars, Made
<1> HIDE DEF u, i
<1>4. likeNotes' \in [Users -> Nat]
      /\ \A v \in Users : likeNotes'[v] = IF v = u /\ i = Post THEN 0 ELSE likeNotes[v]
  BY <1>0, <1>1, <1>2 DEF TypeOK, NotesAfterUnlike
<1>5. TypeOK'
  BY <1>0, <1>1, <1>2, <1>3, <1>4 DEF TypeOK, commentVars
<1>6. ThreadInv' /\ ToldInv'
  BY <1>1 DEF IInv, ThreadInv, ToldInv, Made, commentVars
<1>7. RewardedAndNotedOnce'
  <2> SUFFICES ASSUME NEW v \in Users \ erased
               PROVE  RewardedOnce(v)' /\ NotedOnce(v)'
    BY <1>1 DEF RewardedAndNotedOnce
  <2>1. RewardedOnce(v) /\ NotedOnce(v)
    BY DEF IInv, RewardedAndNotedOnce
  <2>2. RewardedOnce(v)'
    BY <1>1, <2>1 DEF RewardedOnce, commentVars
  <2>3. <<Post, v>> \in likes' <=> <<Post, v>> \in likes /\ ~(i = Post /\ v = u)
    BY <1>1
  <2>4. NotedOnce(v)'
    BY <1>4, <2>1, <2>3 DEF NotedOnce
  <2> QED
    BY <2>2, <2>4
<1>8. NoOrphans'
  BY <1>1 DEF IInv, NoOrphans, Rows, Written, commentVars
<1> QED
  BY <1>3, <1>5, <1>6, <1>7, <1>8 DEF IInv

\* A new comment: its parent was there when it was looked up, and is in Rows now.
LEMMA CommentKeeps ==
  ASSUME IInv, NEW r \in Requests, Comment(r)
  PROVE  IInv'
<1> DEFINE u == req[r].usr
           p == req[r].item
<1>0. TypeOK /\ HandlerInv
  BY DEF IInv
<1>1. /\ req[r].pc = "comment" /\ p \in Rows \cup {NoComment} /\ Finish(r)
      /\ commentCount' = commentCount + 1
      /\ Earn(u, commentPaid, CommentReward)
      /\ commentPaid' = commentPaid \cup {u}
      /\ UNCHANGED <<likeVars, erased, job>>
  BY DEF Comment, Running
<1>2. PICK c \in Comments :
        /\ status[c] = "none"
        /\ status' = [status EXCEPT ![c] = "shown"]
        /\ writer' = [writer EXCEPT ![c] = u]
        /\ parent' = [parent EXCEPT ![c] = p]
        /\ told' = told \cup ({c} \X Recipients(u, p))
  BY DEF Comment
<1>3. /\ u \in Users \ erased
      /\ p = NoComment \/ (p \in Comments /\ status[p] # "none" /\ parent[p] = NoComment)
  BY <1>0, <1>1 DEF HandlerInv, Made
<1>4. req' \in [Requests -> Handler] /\ HandlerInv'
  BY <1>0, <1>1, <1>2, FinishKeeps DEF TypeOK, Made
<1> HIDE DEF u, p
<1>5. /\ status'[c] = "shown" /\ writer'[c] = u /\ parent'[c] = p
      /\ \A d \in Comments \ {c} :
           status'[d] = status[d] /\ writer'[d] = writer[d] /\ parent'[d] = parent[d]
  BY <1>0, <1>2 DEF TypeOK
<1>6. p # NoComment => /\ p \in Comments /\ p \in Rows /\ p # c
                       /\ writer[p] \in Users \ erased
  BY <1>1, <1>2, <1>3, IdentityAssumption DEF IInv, ThreadInv, NoOrphans, Rows, Written
<1>7. Recipients(u, p) \subseteq Users \ (erased \cup {u})
  BY <1>6, IdentityAssumption DEF IInv, ToldInv, Recipients
<1>8. /\ balance' \in [Users -> Nat]
      /\ \A v \in Users : v # u => balance'[v] = balance[v]
      /\ balance'[u] = IF u \in commentPaid THEN balance[u] ELSE balance[u] + 2
  BY <1>0, <1>1, <1>3 DEF TypeOK, Earn, CommentReward
<1>9. TypeOK'
  <2>1. /\ status' \in [Comments -> {"none", "shown", "removed", "gone"}]
        /\ writer' \in [Comments -> Users \cup {NoUser}]
        /\ parent' \in [Comments -> Comments \cup {NoComment}]
    BY <1>0, <1>2, <1>3 DEF TypeOK
  <2>2. commentCount' \in Int /\ told' \subseteq Comments \X Users /\ commentPaid' \subseteq Users
    BY <1>0, <1>1, <1>2, <1>3, <1>7 DEF TypeOK
  <2> QED
    BY <1>0, <1>1, <1>4, <1>8, <2>1, <2>2 DEF TypeOK, likeVars
<1>10. ThreadInv'
  <2>1. \A d \in Comments : status'[d] = "none" => d # c /\ status[d] = "none"
    BY <1>5
  <2>2. \A d \in Comments : status'[d] # "none" <=> status[d] # "none" \/ d = c
    BY <1>5
  <2>4. \A d \in Comments : parent'[d] # NoComment =>
          /\ parent'[d] \in Comments /\ status'[parent'[d]] # "none"
          /\ parent'[parent'[d]] = NoComment
    <3> SUFFICES ASSUME NEW d \in Comments, parent'[d] # NoComment
                 PROVE  /\ parent'[d] \in Comments /\ status'[parent'[d]] # "none"
                        /\ parent'[parent'[d]] = NoComment
      OBVIOUS
    <3>1. CASE d = c
      BY <1>3, <1>5, <1>6, <2>2, <3>1
    <3>2. CASE d # c
      <4>1. parent'[d] = parent[d] /\ Made(parent[d]) /\ parent[parent[d]] = NoComment
        BY <1>5, <3>2 DEF IInv, ThreadInv
      <4>2. parent[d] \in Comments /\ parent[d] # c
        BY <1>2, <4>1 DEF Made
      <4> QED
        BY <1>5, <2>2, <4>1, <4>2 DEF Made
    <3> QED
      BY <3>1, <3>2
  <2> QED
    BY <1>3, <1>5, <2>1, <2>4 DEF IInv, ThreadInv, Made
<1>11. ToldInv'
  BY <1>1, <1>2, <1>5 DEF IInv, ToldInv, Made
<1>12. RewardedAndNotedOnce'
  <2> SUFFICES ASSUME NEW v \in Users \ erased
               PROVE  RewardedOnce(v)' /\ NotedOnce(v)'
    BY <1>1 DEF RewardedAndNotedOnce
  <2>1. RewardedOnce(v) /\ NotedOnce(v)
    BY DEF IInv, RewardedAndNotedOnce
  <2>2. balance[v] \in Nat /\ UNCHANGED <<likes, likeNotes, likePaid>>
    BY <1>0, <1>1 DEF TypeOK, likeVars
  <2>3. RewardedOnce(v)'
    BY <1>1, <1>3, <1>8, <2>1, <2>2 DEF RewardedOnce, LikeReward, CommentReward
  <2> QED
    BY <2>1, <2>2, <2>3 DEF NotedOnce
<1>13. NoOrphans'
  <2>1. Rows' = Rows \cup {c} /\ c \notin Rows
    BY <1>2, <1>5, IdentityAssumption DEF Rows
  <2>2. \A d \in Comments : d \in Rows' => parent'[d] \in Rows' \cup {NoComment}
    BY <1>1, <1>5, <2>1 DEF IInv, NoOrphans
  <2>3. \A l \in likes' : l[1] \in Rows' /\ l[2] \notin erased'
    BY <1>1, <2>1 DEF IInv, NoOrphans, likeVars
  <2>4. \A n \in told' : n[2] \notin erased' \cup {writer'[n[1]]}
    <3> SUFFICES ASSUME NEW n \in told'
                 PROVE  n[2] \notin erased' \cup {writer'[n[1]]}
      OBVIOUS
    <3>1. CASE n \in told
      <4>1. n[1] \in Comments \ {c}
        BY <1>2, <3>1 DEF IInv, ToldInv, Made
      <4> QED
        BY <1>1, <1>5, <3>1, <4>1 DEF IInv, NoOrphans
    <3>2. CASE n \in {c} \X Recipients(u, p)
      BY <1>1, <1>5, <1>7, <3>2
    <3> QED
      BY <1>2, <3>1, <3>2
  <2>5. \A v \in erased' : Written(v)' \cap Rows' = {}
    BY <1>1, <1>3, <1>5, <2>1 DEF IInv, NoOrphans, Written
  <2> QED
    BY <2>2, <2>3, <2>4, <2>5 DEF NoOrphans
<1> QED
  BY <1>4, <1>9, <1>10, <1>11, <1>12, <1>13 DEF IInv

\* A row is edited or removed: it stays a row.
LEMMA StatusKeeps ==
  ASSUME IInv, NEW c \in Comments, c \in Rows, NEW to \in {"shown", "removed"},
         status' = [status EXCEPT ![c] = to], commentCount' \in Int,
         UNCHANGED <<likeVars, writer, parent, told, commentPaid, balance, erased, job>>,
         req' \in [Requests -> Handler], HandlerInv'
  PROVE  IInv'
<1>1. /\ status' \in [Comments -> {"none", "shown", "removed", "gone"}]
      /\ status'[c] = to /\ \A d \in Comments \ {c} : status'[d] = status[d]
      /\ status[c] \in {"shown", "removed"}
  BY IdentityAssumption DEF IInv, TypeOK, Rows
<1>2. TypeOK'
  BY <1>1 DEF IInv, TypeOK, likeVars
<1>3. Rows' = Rows /\ \A d \in Comments : status'[d] = "none" <=> status[d] = "none"
  BY <1>1 DEF Rows
<1>4. ThreadInv' /\ ToldInv'
  BY <1>3 DEF IInv, ThreadInv, ToldInv, Made
<1>5. RewardedAndNotedOnce'
  BY DEF IInv, RewardedAndNotedOnce, RewardedOnce, NotedOnce, likeVars
<1>6. NoOrphans'
  BY <1>3 DEF IInv, NoOrphans, Written, likeVars
<1> QED
  BY <1>2, <1>4, <1>5, <1>6 DEF IInv

LEMMA EditKeeps ==
  ASSUME IInv, NEW r \in Requests, Edit(r)
  PROVE  IInv'
<1> DEFINE c == req[r].item
<1>1. /\ c \in Rows /\ req[r].pc = "edit" /\ Finish(r)
      /\ status' = [status EXCEPT ![c] = "shown"]
      /\ UNCHANGED <<likeVars, writer, parent, commentCount, told, commentPaid, balance, erased, job>>
  BY DEF Edit, Running
<1>2. c \in Comments /\ commentCount' \in Int
  BY <1>1 DEF IInv, HandlerInv, TypeOK
<1>3. req' \in [Requests -> Handler] /\ HandlerInv'
  BY <1>1, <1>2, FinishKeeps DEF IInv, TypeOK, Made
<1> HIDE DEF c
<1> QED
  BY <1>1, <1>2, <1>3, StatusKeeps

LEMMA DeleteKeeps ==
  ASSUME IInv, NEW u \in Users, NEW c \in Comments, DeleteComment(u, c)
  PROVE  IInv'
<1>1. /\ c \in Rows /\ status' = [status EXCEPT ![c] = "removed"]
      /\ UNCHANGED <<likeVars, writer, parent, told, commentPaid, balance, erased, req, job>>
  BY DEF DeleteComment, Removable, Shown, Rows
<1>2. commentCount' \in Int /\ req' \in [Requests -> Handler]
  BY <1>1 DEF DeleteComment, IInv, TypeOK
<1>3. HandlerInv'
  BY <1>1 DEF IInv, TypeOK, HandlerInv, Made
<1> QED
  BY <1>1, <1>2, <1>3, StatusKeeps

LEMMA FailKeeps ==
  ASSUME IInv, NEW r \in Requests, Fail(r)
  PROVE  IInv'
<1>1. Finish(r) /\ UNCHANGED <<likeVars, commentVars, balance, erased, job>>
  BY DEF Fail
<1>2. req' \in [Requests -> Handler] /\ HandlerInv' /\ job' \in Job
  BY <1>1, FinishKeeps DEF IInv, TypeOK, commentVars, Made
<1> QED
  BY <1>1, <1>2, RowsKept

\* An erasure takes the account's rows with their replies and likes.
LEMMA EraseKeeps ==
  ASSUME IInv, NEW u \in Users, Erase(u)
  PROVE  IInv'
<1> DEFINE own == {c \in Written(u) : c \in Rows}
           gone == own \cup {c \in Comments : parent[c] \in own}
           kept == {i \in Items : i \notin gone}
<1>0. TypeOK
  BY DEF IInv
<1>1. /\ u \in Users \ (erased \cup {Author})
      /\ \A r \in Requests : req[r].usr # u
      /\ erased' = erased \cup {u}
      /\ likes' = {l \in likes : l[1] \in kept /\ l[2] # u}
      /\ likeCount' = [i \in Items |-> IF i \in kept THEN likeCount[i] ELSE 0]
      /\ status' = [c \in Comments |-> IF c \in gone THEN "gone" ELSE status[c]]
      /\ told' = {n \in told : n[2] # u}
      /\ balance' = [balance EXCEPT ![u] = 0]
      /\ UNCHANGED <<likeNotes, likePaid, writer, parent, commentCount, commentPaid, req, job>>
  BY DEF Erase
<1>2. gone \subseteq Comments /\ Post \notin gone /\ own \subseteq gone
  BY IdentityAssumption DEF Written
<1>3. \A c \in gone : status[c] # "none"
  <2>1. \A c \in own : status[c] # "none"
    BY IdentityAssumption DEF Rows, Written
  <2>2. \A c \in Comments : parent[c] \in own => status[c] # "none"
    BY IdentityAssumption DEF IInv, ThreadInv, Written
  <2> QED
    BY <2>1, <2>2
<1>4. \A c \in Comments : parent[c] \in gone => parent[c] \in own
  BY <1>2, IdentityAssumption DEF IInv, ThreadInv, Made, Written
<1>5. \A c \in Written(u) : c \in Rows => c \in own
  OBVIOUS
<1>6. \A c \in Comments : parent[c] \in own => c \in gone
  OBVIOUS
<1> HIDE DEF own, gone
<1>7. /\ \A c \in Comments : status'[c] = IF c \in gone THEN "gone" ELSE status[c]
      /\ \A c \in Comments : status'[c] = "none" <=> status[c] = "none"
      /\ \A i : i \in Rows' <=> i \in Rows /\ i \notin gone
  BY <1>1, <1>2, <1>3 DEF Rows
<1>8. TypeOK'
  BY <1>0, <1>1, <1>2 DEF TypeOK
<1>9. HandlerInv'
  BY <1>1, <1>7 DEF IInv, HandlerInv, Made
<1>10. ThreadInv'
  BY <1>1, <1>7 DEF IInv, ThreadInv, Made
<1>11. ToldInv'
  BY <1>1, <1>7 DEF IInv, ToldInv, Made
<1>12. RewardedAndNotedOnce'
  <2> SUFFICES ASSUME NEW v \in Users \ erased, v # u
               PROVE  RewardedOnce(v)' /\ NotedOnce(v)'
    BY <1>1 DEF RewardedAndNotedOnce
  <2>1. RewardedOnce(v) /\ NotedOnce(v) /\ balance'[v] = balance[v]
    BY <1>0, <1>1 DEF IInv, RewardedAndNotedOnce, TypeOK
  <2>2. <<Post, v>> \in likes' <=> <<Post, v>> \in likes
    BY <1>1, <1>2 DEF Items
  <2> QED
    BY <1>1, <2>1, <2>2 DEF RewardedOnce, NotedOnce
<1>13. NoOrphans'
  <2>1. \A c \in Comments : c \in Rows' => parent'[c] \in Rows' \cup {NoComment}
    BY <1>1, <1>4, <1>6, <1>7 DEF IInv, NoOrphans
  <2>2. \A l \in likes' : l[1] \in Rows' /\ l[2] \notin erased'
    BY <1>1, <1>7 DEF IInv, NoOrphans
  <2>3. \A n \in told' : n[2] \notin erased' \cup {writer'[n[1]]}
    BY <1>1 DEF IInv, NoOrphans
  <2>4. \A v \in erased' : Written(v)' \cap Rows' = {}
    BY <1>1, <1>2, <1>5, <1>7 DEF IInv, NoOrphans, Written
  <2> QED
    BY <2>1, <2>2, <2>3, <2>4 DEF NoOrphans
<1> QED
  BY <1>8, <1>9, <1>10, <1>11, <1>12, <1>13 DEF IInv

\* The number of likers and of comments shown, of finitely many.
LEMMA Counts ==
  ASSUME NEW i
  PROVE  /\ IsFiniteSet(Likers(i)) /\ Cardinality(Likers(i)) \in Nat
         /\ IsFiniteSet(Shown) /\ Cardinality(Shown) \in Nat
<1>1. Likers(i) \subseteq Users /\ Shown \subseteq Comments
  BY DEF Likers, Shown
<1> QED
  BY <1>1, IdentityAssumption, FS_Subset, FS_CardinalityType

LEMMA RecountKeeps ==
  ASSUME IInv, Recount \/ RecountFails
  PROVE  IInv'
<1>1. ASSUME NEW I \in {{Post}, Comments}, RecountBegin(I)
      PROVE  IInv'
  <2> DEFINE rows == {i \in I \cap Rows : Miscounted(i)}
             counts == [i \in Items |-> IF i \in rows THEN Cardinality(Likers(i)) ELSE 0]
  <2>1. /\ job' = [rows |-> rows, comments |-> Cardinality(Recounted), likes |-> counts]
        /\ UNCHANGED <<likeVars, commentVars, balance, erased, req>>
    BY <1>1 DEF RecountBegin
  <2>2. rows \subseteq Items /\ counts \in [Items -> Int] /\ Cardinality(Recounted) \in Int
    BY Counts DEF Items, Recounted
  <2> HIDE DEF rows, counts
  <2>3. job' \in Job
    BY <2>1, <2>2 DEF Job
  <2>4. req' \in [Requests -> Handler] /\ HandlerInv'
    BY <2>1 DEF IInv, TypeOK, HandlerInv, Made, commentVars
  <2> QED
    BY <2>1, <2>3, <2>4, RowsKept
<1>2. NoJob \in Job
  BY DEF NoJob, Job, Items
<1>3. CASE RecountEnd
  <2>1. job.likes \in [Items -> Int] /\ job.comments \in Int
    BY DEF IInv, TypeOK, Job
  <2>2. TypeOK'
    BY <1>2, <1>3, <2>1 DEF IInv, TypeOK, RecountEnd
  <2>3. HandlerInv' /\ ThreadInv' /\ ToldInv' /\ RewardedAndNotedOnce'
    BY <1>3 DEF IInv, RecountEnd, HandlerInv, ThreadInv, ToldInv, Made, RewardedAndNotedOnce,
                RewardedOnce, NotedOnce
  <2>4. NoOrphans'
    BY <1>3 DEF IInv, RecountEnd, NoOrphans, Rows, Written
  <2> QED
    BY <2>2, <2>3, <2>4 DEF IInv
<1>4. CASE RecountFails
  <2>1. job' \in Job /\ UNCHANGED <<likeVars, commentVars, balance, erased, req>>
    BY <1>2, <1>4 DEF RecountFails
  <2>2. req' \in [Requests -> Handler] /\ HandlerInv'
    BY <2>1 DEF IInv, TypeOK, HandlerInv, Made, commentVars
  <2> QED
    BY <2>1, <2>2, RowsKept
<1> QED
  BY <1>1, <1>3, <1>4 DEF Recount

-----------------------------------------------------------------------------
(* The theorems                                                            *)

THEOREM Inductive == IInv /\ [Next]_vars => IInv'
<1> SUFFICES ASSUME IInv, [Next]_vars
             PROVE  IInv'
  OBVIOUS
<1>1. CASE \E r \in Requests : Arrive(r) \/ HandlerStep(r)
  BY <1>1, ArriveKeeps, LikeKeeps, UnlikeKeeps, CommentKeeps, EditKeeps, FailKeeps
  DEF HandlerStep
<1>2. CASE \E u \in Users : Erase(u) \/ \E c \in Comments : DeleteComment(u, c)
  BY <1>2, EraseKeeps, DeleteKeeps
<1>3. CASE Recount \/ RecountFails
  BY <1>3, RecountKeeps
<1>4. CASE UNCHANGED vars
  <2>1. req' \in [Requests -> Handler] /\ HandlerInv' /\ job' \in Job
    BY <1>4 DEF IInv, TypeOK, HandlerInv, Made, vars, commentVars
  <2> QED
    BY <1>4, <2>1, RowsKept DEF vars
<1> QED
  BY <1>1, <1>2, <1>3, <1>4 DEF Next

\* A step of either instance is a step of PostEngagement.
LEMMA InRun == [NextMC]_<<vars, part>> => [Next]_vars
  BY DEF NextMC

LEMMA Invariance == SpecMC => []IInv
<1>1. InitMC => IInv
  BY Initial DEF InitMC
<1> QED
  BY <1>1, Inductive, InRun, PTL DEF SpecMC

\* However likes, comments, removals and erasures overlap: each reward is paid
\* and each notification written once, and no row outlives what it belongs to.
THEOREM RowsAlwaysSound == SpecMC => []RowsSound
<1>1. IInv => RowsSound
  BY DEF IInv, RowsSound
<1> QED
  BY <1>1, Invariance, PTL

-----------------------------------------------------------------------------
(* The counters                                                            *)

\* One more or one less of a finite set.
LEMMA OneMore ==
  ASSUME NEW S, NEW x, IsFiniteSet(S)
  PROVE  /\ Cardinality(S) \in Nat
         /\ x \notin S => Cardinality(S \cup {x}) = Cardinality(S) + 1
         /\ x \in S => Cardinality(S \ {x}) = Cardinality(S) - 1
  BY FS_AddElement, FS_RemoveElement, FS_CardinalityType

\* A like and its withdrawal move the counter of their item with its rows.
LEMMA LikesCounted ==
  ASSUME IInv, NEW r \in Requests, Like(r) \/ Unlike(r), NEW i \in Items
  PROVE  LikeDrift(i)' = LikeDrift(i)
<1> DEFINE u == req[r].usr
           own == req[r].item
<1>1. u \in Users /\ own \in Items /\ likeCount \in [Items -> Int]
  BY DEF Like, Unlike, Running, IInv, HandlerInv, TypeOK
<1>2. IsFiniteSet(Likers(i)) /\ Cardinality(Likers(i)) \in Nat
  BY Counts
<1>3. CASE Like(r)
  <2>1. /\ <<own, u>> \notin likes /\ likes' = likes \cup {<<own, u>>}
        /\ likeCount' = [likeCount EXCEPT ![own] = @ + 1]
    BY <1>3 DEF Like, LikeCreates
  <2> HIDE DEF own, u
  <2>2. CASE own = i
    <3>1. Likers(i)' = Likers(i) \cup {u} /\ u \notin Likers(i) /\ likeCount'[i] = likeCount[i] + 1
      BY <1>1, <2>1, <2>2 DEF Likers
    <3>2. Cardinality(Likers(i)') = Cardinality(Likers(i)) + 1
      BY <1>2, <3>1, OneMore
    <3> QED
      BY <1>1, <1>2, <3>1, <3>2 DEF LikeDrift
  <2>3. CASE own # i
    BY <1>1, <2>1, <2>3 DEF LikeDrift, Likers
  <2> QED
    BY <2>2, <2>3
<1>4. CASE Unlike(r)
  <2>1. /\ <<own, u>> \in likes /\ likes' = likes \ {<<own, u>>}
        /\ likeCount' = [likeCount EXCEPT ![own] = @ - 1]
    BY <1>4 DEF Unlike
  <2> HIDE DEF own, u
  <2>2. CASE own = i
    <3>1. Likers(i)' = Likers(i) \ {u} /\ u \in Likers(i) /\ likeCount'[i] = likeCount[i] - 1
      BY <1>1, <2>1, <2>2 DEF Likers
    <3>2. Cardinality(Likers(i)') = Cardinality(Likers(i)) - 1
      BY <1>2, <3>1, OneMore
    <3> QED
      BY <1>1, <1>2, <3>1, <3>2 DEF LikeDrift
  <2>3. CASE own # i
    BY <1>1, <2>1, <2>3 DEF LikeDrift, Likers
  <2> QED
    BY <2>2, <2>3
<1> QED
  BY <1>3, <1>4

\* A comment and its removal move the counter with what is shown.
LEMMA CommentsCounted ==
  ASSUME IInv,
         \/ \E r \in Requests : Comment(r) \/ Edit(r)
         \/ \E u \in Users, c \in Comments : DeleteComment(u, c)
  PROVE  \/ CommentDrift' = CommentDrift
         \/ \E c \in Comments : status[c] = "removed" /\ status'[c] = "shown"
<1>0. /\ status \in [Comments -> {"none", "shown", "removed", "gone"}] /\ commentCount \in Int
      /\ IsFiniteSet(Shown) /\ Cardinality(Shown) \in Nat
  BY Counts DEF IInv, TypeOK
<1>1. ASSUME NEW r \in Requests, Comment(r)
      PROVE  CommentDrift' = CommentDrift
  <2>1. PICK c \in Comments : status[c] = "none" /\ status' = [status EXCEPT ![c] = "shown"]
    BY <1>1 DEF Comment
  <2>2. Shown' = Shown \cup {c} /\ c \notin Shown /\ commentCount' = commentCount + 1
    BY <1>0, <1>1, <2>1 DEF Shown, Comment
  <2>3. Cardinality(Shown') = Cardinality(Shown) + 1
    BY <1>0, <2>2, OneMore
  <2> QED
    BY <1>0, <2>2, <2>3 DEF CommentDrift
<1>2. ASSUME NEW r \in Requests, Edit(r)
      PROVE  \/ CommentDrift' = CommentDrift
             \/ \E c \in Comments : status[c] = "removed" /\ status'[c] = "shown"
  <2>1. PICK c \in Comments : c \in Rows /\ status' = [status EXCEPT ![c] = "shown"]
    BY <1>2 DEF Edit, Running, IInv, HandlerInv
  <2>2. commentCount' = commentCount
    BY <1>2 DEF Edit
  <2>3. CASE status[c] = "removed"
    BY <1>0, <2>1, <2>3
  <2>4. CASE status[c] # "removed"
    <3>1. Shown' = Shown
      BY <1>0, <2>1, <2>4, IdentityAssumption DEF Shown, Rows
    <3> QED
      BY <2>2, <3>1 DEF CommentDrift
  <2> QED
    BY <2>3, <2>4
<1>3. ASSUME NEW u \in Users, NEW c \in Comments, DeleteComment(u, c)
      PROVE  CommentDrift' = CommentDrift
  <2>1. c \in Shown /\ Shown' = Shown \ {c} /\ commentCount' = commentCount - 1
    BY <1>0, <1>3 DEF DeleteComment, Removable, Shown
  <2>2. Cardinality(Shown') = Cardinality(Shown) - 1
    BY <1>0, <2>1, OneMore
  <2> QED
    BY <1>0, <2>1, <2>2 DEF CommentDrift
<1> QED
  BY <1>1, <1>2, <1>3

LEMMA StepsCount ==
  ASSUME IInv, Next
  PROVE  DriftStays
<1> SUFFICES ASSUME erased' = erased, job' = job
             PROVE  /\ \A i \in Items : LikeDrift(i)' = LikeDrift(i)
                    /\ \/ CommentDrift' = CommentDrift
                       \/ \E c \in Comments : status[c] = "removed" /\ status'[c] = "shown"
  BY DEF DriftStays
\* The rows and the counters of the likes stay, or those of the comments.
<1>1. UNCHANGED <<likes, likeCount>> => \A i \in Items : LikeDrift(i)' = LikeDrift(i)
  BY DEF LikeDrift, Likers
<1>2. UNCHANGED <<status, commentCount>> => CommentDrift' = CommentDrift
  BY DEF CommentDrift, Shown
<1>3. CASE \E r \in Requests : Arrive(r) \/ Fail(r)
  BY <1>1, <1>2, <1>3
  DEF Arrive, LikePost, LikeComment, LikeFind, CommentFind, EditFind, Fail, likeVars, commentVars
<1>4. CASE \E r \in Requests : Like(r) \/ Unlike(r)
  <2>1. UNCHANGED commentVars
    BY <1>4 DEF Like, Unlike
  <2> QED
    BY <1>2, <1>4, <2>1, LikesCounted DEF commentVars
<1>5. CASE \/ \E r \in Requests : Comment(r) \/ Edit(r)
           \/ \E u \in Users, c \in Comments : DeleteComment(u, c)
  <2>1. UNCHANGED likeVars
    BY <1>5 DEF Comment, Edit, DeleteComment
  <2> QED
    BY <1>1, <1>5, <2>1, CommentsCounted DEF likeVars
<1>6. CASE Recount \/ RecountFails
  BY <1>1, <1>2, <1>6 DEF Recount, RecountBegin, RecountEnd, RecountFails, likeVars, commentVars
<1>7. ASSUME NEW u \in Users
      PROVE  ~Erase(u)
  BY <1>7 DEF Erase
<1> QED
  BY <1>3, <1>4, <1>5, <1>6, <1>7 DEF Next, HandlerStep

\* In every step but an erasure and the job's, the counters move exactly with
\* the rows they count, except where an edit brings a removed comment back.
THEOREM CountersAlwaysMoveWithRows == SpecMC => CountersMoveWithRows
<1>1. IInv /\ [Next]_vars => [DriftStays]_vars
  BY StepsCount
<1> QED
  BY <1>1, Invariance, InRun, PTL DEF SpecMC, CountersMoveWithRows

=============================================================================
