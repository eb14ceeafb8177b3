---------------------------- MODULE FollowToggle ----------------------------
(***************************************************************************)
(* POST /api/v1/social/follow/:userId: one endpoint that follows or        *)
(* unfollows, with the row, its notification, its reward marker and the    *)
(* payment in one transaction, and the limit of followings checked under a *)
(* lock of the follower's User row.                                        *)
(*                                                                         *)
(* Row locks decide what overlaps.  SELECT ... FOR UPDATE of a User row    *)
(* excludes the FOR KEY SHARE lock that the foreign keys of a new follows  *)
(* row take on the rows of both users, and is excluded by it.              *)
(***************************************************************************)
EXTENDS Naturals, FiniteSets

CONSTANTS Users, NoUser,
          Requests,        \* requests handled at the same time
          MaxFollowing     \* User.maxFollowing, the same for all

ASSUME FollowAssumption == NoUser \notin Users /\ MaxFollowing \in Nat

VARIABLES follows,         \* Follow rows: <<follower, target>>
          rewarded,        \* FollowReward markers
          paid,            \* payments of the follow reward per follower
          notes,           \* "follow" notifications per pair
          available,       \* accounts that are active, not banned, not deleted
          everAvailable,   \* those that have been so all along
          req              \* the handlers in progress

rowVars  == <<follows, rewarded, paid, notes>>
userVars == <<available, everAvailable>>
vars == <<rowVars, userVars, req>>

Pairs == Users \X Users

Steps == {"idle", "unfollow", "target", "lock", "count", "insert", "inserted"}

Handler == [pc : Steps, usr : Users \cup {NoUser}, target : Users \cup {NoUser}]
Idle == [pc |-> "idle", usr |-> NoUser, target |-> NoUser]

TypeOK ==
  /\ follows \subseteq Pairs
  /\ rewarded \subseteq Pairs
  /\ paid \in [Users -> Nat]
  /\ notes \in [Pairs -> Nat]
  /\ available \subseteq Users
  /\ everAvailable \subseteq available
  /\ req \in [Requests -> Handler]

Init ==
  /\ follows = {}
  /\ rewarded = {}
  /\ paid = [u \in Users |-> 0]
  /\ notes = [p \in Pairs |-> 0]
  /\ available = Users
  /\ everAvailable = Users
  /\ req = [r \in Requests |-> Idle]

-----------------------------------------------------------------------------
At(r, step) == req[r].pc = step
Goto(r, step) == req' = [req EXCEPT ![r].pc = step]
Finish(r) == req' = [req EXCEPT ![r] = Idle]

\* Mutant: rows are keyed by the target alone.
PairByTarget(r) == req[r].target

Pair(r) == <<req[r].usr, req[r].target>>

\* Mutant: the follower's row is read without a lock.
HoldsForKey(r, u) == FALSE

\* Transactions that have the User row of u locked FOR UPDATE, and those that
\* have it locked FOR KEY SHARE for the foreign key of a follow of u.
HoldsForUpdate(r, u) == req[r].usr = u /\ req[r].pc \in {"count", "insert", "inserted"}
HoldsKeyShare(r, u) == req[r].target = u /\ At(r, "inserted")

\* r's next statement waits for a lock that q holds.
Waits(r, q) ==
  /\ r # q
  /\ \/ At(r, "lock") /\ (HoldsForUpdate(q, req[r].usr) \/ HoldsKeyShare(q, req[r].usr))
     \/ At(r, "insert") /\ HoldsForUpdate(q, req[r].target)

Granted(r) == \A q \in Requests : ~Waits(r, q)

\* Requests that wait for each other, in a cycle of any length.
Deadlocked(r) ==
  \E S \in SUBSET Requests : /\ r \in S
                             /\ \A p \in S : \E q \in S : Waits(p, q)

-----------------------------------------------------------------------------
\* The transaction's first read decides the direction.  The checks before it
\* (target exists, privacy of a new follow) only refuse.
Toggle(r, u, v) ==
  /\ At(r, "idle") /\ u # v
  /\ req' = [req EXCEPT ![r] =
               [pc |-> IF <<u, v>> \in follows THEN "unfollow" ELSE "target",
                usr |-> u, target |-> v]]
  /\ UNCHANGED <<rowVars, userVars>>

\* Mutant: the notification of the pair stays.
UnfollowNotes(p) == notes

NotesWithout(p) == [notes EXCEPT ![p] = 0]

\* The delete of a row that is gone fails (P2025) and rolls back: see Fail.
Unfollow(r) ==
  /\ At(r, "unfollow") /\ Pair(r) \in follows
  /\ follows' = follows \ {Pair(r)}
  /\ notes' = NotesWithout(Pair(r))
  /\ Finish(r)
  /\ UNCHANGED <<rewarded, paid, userVars>>

\* TargetUnavailableError if the target is gone by now.
CheckTarget(r) ==
  /\ At(r, "target")
  /\ IF req[r].target \in available THEN Goto(r, "lock") ELSE Finish(r)
  /\ UNCHANGED <<rowVars, userVars>>

LockFollower(r) ==
  /\ At(r, "lock") /\ Granted(r)
  /\ Goto(r, "count")
  /\ UNCHANGED <<rowVars, userVars>>

\* MaxFollowingError unless the followings that can be seen are below the limit.
CountFollowing(r) ==
  /\ At(r, "count")
  /\ IF Cardinality({v \in available : <<req[r].usr, v>> \in follows}) < MaxFollowing
       THEN Goto(r, "insert")
       ELSE Finish(r)
  /\ UNCHANGED <<rowVars, userVars>>

\* The unique index and the foreign keys; P2002 rolls back, as in Fail.
InsertFollow(r) ==
  /\ At(r, "insert") /\ Granted(r) /\ Pair(r) \notin follows
  /\ Goto(r, "inserted")
  /\ UNCHANGED <<rowVars, userVars>>

\* Mutant: the marker is not looked up.
AlwaysDue(p) == TRUE

RewardDue(p) == p \notin rewarded

\* Notification, marker and payment, then the commit.
CommitFollow(r) ==
  LET p == Pair(r) IN
  /\ At(r, "inserted")
  /\ follows' = follows \cup {p}
  /\ notes' = [notes EXCEPT ![p] = 1]                  \* deleteMany, create
  /\ paid' = [paid EXCEPT ![req[r].usr] = IF RewardDue(p) THEN @ + 1 ELSE @]
  /\ rewarded' = rewarded \cup {p}
  /\ Finish(r)
  /\ UNCHANGED userVars

\* P2002 or P2025, an await that rejects, a deadlock that Postgres resolves at
\* this request's cost, the end of the process: the transaction rolls back.
Fail(r) ==
  /\ ~At(r, "idle")
  /\ Finish(r)
  /\ UNCHANGED <<rowVars, userVars>>

\* Moderation, deletion, restoration of an account.
Suspend(u) ==
  /\ u \in available
  /\ available' = available \ {u}
  /\ everAvailable' = everAvailable \ {u}
  /\ UNCHANGED <<rowVars, req>>

Reinstate(u) ==
  /\ u \in Users \ available
  /\ available' = available \cup {u}
  /\ UNCHANGED <<rowVars, everAvailable, req>>

HandlerStep(r) ==
  \/ Unfollow(r)
  \/ CheckTarget(r)
  \/ LockFollower(r)
  \/ CountFollowing(r)
  \/ InsertFollow(r)
  \/ CommitFollow(r)

Next ==
  \/ \E r \in Requests : \/ \E u, v \in Users : Toggle(r, u, v)
                         \/ HandlerStep(r)
                         \/ Fail(r)
  \/ \E u \in Users : Suspend(u) \/ Reinstate(u)

Spec == Init /\ [][Next]_vars

-----------------------------------------------------------------------------
(* Toggles of one follower that overlap never take it past the limit among  *)
(* the accounts that were there all along (the count misses those that come *)
(* back later).                                                             *)
LimitKept ==
  \A u \in Users :
    Cardinality({v \in everAvailable : <<u, v>> \in follows}) <= MaxFollowing

(* A pair that was ever followed is paid for once, whatever is unfollowed   *)
(* and followed again, and no follow stands that was not paid for.          *)
PaidOnce ==
  /\ \A u \in Users : paid[u] = Cardinality({v \in Users : <<u, v>> \in rewarded})
  /\ follows \subseteq rewarded

(* The target has one notification of a follow while it stands, else none.  *)
OneNotePerFollow ==
  \A p \in Pairs : notes[p] = IF p \in follows THEN 1 ELSE 0

(* Rows, payments and notifications stay together, however toggles overlap. *)
FollowsSound == TypeOK /\ PaidOnce /\ OneNotePerFollow

(* follow/[userId]/route.ts:212: the lock serialises the toggles of the     *)
(* SAME follower, so the toggles of two followers never end in a deadlock.  *)
NoDeadlock == \A r \in Requests : ~Deadlocked(r)
=============================================================================
