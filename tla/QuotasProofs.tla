----------------------------- MODULE QuotasProofs -----------------------------
(***************************************************************************)
(* What a plan limits, for any number of users, overlapping requests and   *)
(* any limits: the toggles of FollowToggle, then the answers of AIQuota,   *)
(* then what the two promise in the run they share.                        *)
(***************************************************************************)
EXTENDS QuotasMC, FiniteSetTheorems, WellFoundedInduction, TLAPS

\* The steps of a transaction that has its follower's User row FOR UPDATE.
LockedSteps == {"count", "insert", "inserted"}

\* The followings of u that the limit is stated about, and those ever paid for.
Kept(u) == {v \in everAvailable : <<u, v>> \in follows}
Marked(u) == {v \in Users : <<u, v>> \in rewarded}

HandlerInv ==
  \A r \in Requests : ~At(r, "idle") => req[r].usr \in Users /\ req[r].target \in Users

\* The lock of a follower's row is held by one transaction at a time.
LockInv ==
  \A q, r \in Requests :
    /\ req[q].pc \in LockedSteps /\ req[r].pc \in LockedSteps
    /\ req[q].usr = req[r].usr
    => q = r

\* The count that let a transaction pass is still below the limit.
Room(r) ==
  req[r].pc \in {"insert", "inserted"} => Cardinality(Kept(req[r].usr)) < MaxFollowing

RoomInv == \A r \in Requests : Room(r)

FiniteInv == \A u \in Users : IsFiniteSet(Marked(u))

IInv == /\ TypeOK /\ HandlerInv /\ LockInv /\ RoomInv /\ FiniteInv
        /\ LimitKept /\ PaidOnce /\ OneNotePerFollow

USE FollowAssumption

LEMMA InitIInv == Init => IInv
<1> SUFFICES ASSUME Init PROVE IInv
  OBVIOUS
<1> USE DEF Init
<1>1. TypeOK /\ HandlerInv /\ LockInv /\ OneNotePerFollow
  BY DEF TypeOK, HandlerInv, LockInv, OneNotePerFollow, LockedSteps, Handler,
         Steps, Idle, At, Pairs
<1>2. \A u \in Users : Kept(u) = {} /\ Marked(u) = {}
  BY DEF Kept, Marked
<1>3. IsFiniteSet({}) /\ Cardinality({}) = 0
  BY FS_EmptySet
<1>4. RoomInv
  BY DEF RoomInv, Room, Idle
<1> QED BY <1>1, <1>2, <1>3, <1>4
           DEF IInv, FiniteInv, LimitKept, PaidOnce, Kept, Marked

\* Types survive a step because a handler past its first step names two users.
LEMMA HandlerSteps ==
  ASSUME TypeOK, HandlerInv, [Next]_vars
  PROVE  TypeOK' /\ HandlerInv'
<1> USE DEF TypeOK, HandlerInv, At, Goto, Finish, Idle, Handler, Steps, Pairs, Pair,
            rowVars, userVars
<1>1. ASSUME NEW r \in Requests, NEW u \in Users, NEW v \in Users, Toggle(r, u, v)
      PROVE TypeOK' /\ HandlerInv'
  BY <1>1 DEF Toggle
<1>2. ASSUME NEW r \in Requests, HandlerStep(r) PROVE TypeOK' /\ HandlerInv'
  <2>1. CASE Unfollow(r) BY <2>1 DEF Unfollow, NotesWithout
  <2>2. CASE CheckTarget(r) BY <2>2 DEF CheckTarget
  <2>3. CASE LockFollower(r) BY <2>3 DEF LockFollower
  <2>4. CASE CountFollowing(r) BY <2>4, SMTT(30) DEF CountFollowing
  <2>5. CASE InsertFollow(r) BY <2>5 DEF InsertFollow
  <2>6. CASE CommitFollow(r) BY <2>6 DEF CommitFollow
  <2> QED BY <1>2, <2>1, <2>2, <2>3, <2>4, <2>5, <2>6 DEF HandlerStep
<1>3. ASSUME NEW r \in Requests, Fail(r) PROVE TypeOK' /\ HandlerInv'
  BY <1>3 DEF Fail
<1>4. ASSUME NEW u \in Users, Suspend(u) \/ Reinstate(u) PROVE TypeOK' /\ HandlerInv'
  BY <1>4 DEF Suspend, Reinstate
<1>5. CASE UNCHANGED vars
  BY <1>5 DEF vars
<1> QED BY <1>1, <1>2, <1>3, <1>4, <1>5 DEF Next

\* A transaction enters the locked steps through LockFollower only, which waits
\* for whoever holds the row.
LEMMA LockStep ==
  ASSUME TypeOK, LockInv, [Next]_vars
  PROVE  LockInv'
<1> USE DEF TypeOK, LockInv, LockedSteps, At, Goto, Finish, Idle, Handler, Steps,
            rowVars, userVars
<1>1. ASSUME NEW r \in Requests, NEW u \in Users, NEW v \in Users, Toggle(r, u, v)
      PROVE LockInv'
  BY <1>1 DEF Toggle
<1>2. ASSUME NEW r \in Requests, HandlerStep(r) PROVE LockInv'
  <2>1. CASE Unfollow(r) BY <2>1 DEF Unfollow
  <2>2. CASE CheckTarget(r) BY <2>2 DEF CheckTarget
  <2>3. CASE LockFollower(r)
    BY <2>3 DEF LockFollower, Granted, Waits, HoldsForUpdate
  <2>4. CASE CountFollowing(r) BY <2>4 DEF CountFollowing
  <2>5. CASE InsertFollow(r) BY <2>5 DEF InsertFollow
  <2>6. CASE CommitFollow(r) BY <2>6 DEF CommitFollow
  <2> QED BY <1>2, <2>1, <2>2, <2>3, <2>4, <2>5, <2>6 DEF HandlerStep
<1>3. ASSUME NEW r \in Requests, Fail(r) PROVE LockInv'
  BY <1>3 DEF Fail
<1>4. ASSUME NEW u \in Users, Suspend(u) \/ Reinstate(u) PROVE LockInv'
  BY <1>4 DEF Suspend, Reinstate
<1>5. CASE UNCHANGED vars
  BY <1>5 DEF vars
<1> QED BY <1>1, <1>2, <1>3, <1>4, <1>5 DEF Next

\* What a step can do to the rows: nothing, end a follow, commit one; accounts
\* only ever leave everAvailable.
LEMMA RowSteps ==
  ASSUME [Next]_vars
  PROVE  \/ UNCHANGED rowVars /\ everAvailable' \subseteq everAvailable
         \/ \E r \in Requests : Unfollow(r)
         \/ \E r \in Requests : CommitFollow(r)
<1> USE DEF rowVars, userVars
<1>1. ASSUME NEW r \in Requests, NEW u \in Users, NEW v \in Users, Toggle(r, u, v)
      PROVE UNCHANGED rowVars /\ everAvailable' \subseteq everAvailable
  BY <1>1 DEF Toggle
<1>2. ASSUME NEW r \in Requests, HandlerStep(r)
      PROVE \/ UNCHANGED rowVars /\ everAvailable' \subseteq everAvailable
            \/ Unfollow(r) \/ CommitFollow(r)
  BY <1>2 DEF HandlerStep, CheckTarget, LockFollower, CountFollowing, InsertFollow
<1>3. ASSUME NEW r \in Requests, Fail(r)
      PROVE UNCHANGED rowVars /\ everAvailable' \subseteq everAvailable
  BY <1>3 DEF Fail
<1>4. ASSUME NEW u \in Users, Suspend(u) \/ Reinstate(u)
      PROVE UNCHANGED rowVars /\ everAvailable' \subseteq everAvailable
  BY <1>4 DEF Suspend, Reinstate
<1>5. CASE UNCHANGED vars
  BY <1>5 DEF vars
<1> QED BY <1>1, <1>2, <1>3, <1>4, <1>5 DEF Next

\* One payment, one marker and one notification are committed together.
LEMMA RewardStep ==
  ASSUME TypeOK, HandlerInv, FiniteInv, PaidOnce, OneNotePerFollow, [Next]_vars
  PROVE  FiniteInv' /\ PaidOnce' /\ OneNotePerFollow'
<1>1. CASE UNCHANGED rowVars
  BY <1>1 DEF rowVars, FiniteInv, Marked, PaidOnce, OneNotePerFollow
<1>2. ASSUME NEW r \in Requests, Unfollow(r)
      PROVE FiniteInv' /\ PaidOnce' /\ OneNotePerFollow'
  <2>1. FiniteInv' /\ PaidOnce'
    BY <1>2 DEF Unfollow, FiniteInv, Marked, PaidOnce
  <2>2. OneNotePerFollow'
    BY <1>2 DEF Unfollow, OneNotePerFollow, NotesWithout, TypeOK
  <2> QED BY <2>1, <2>2
<1>3. ASSUME NEW r \in Requests, CommitFollow(r)
      PROVE FiniteInv' /\ PaidOnce' /\ OneNotePerFollow'
  <2>1. PICK u \in Users, v \in Users : Pair(r) = <<u, v>> /\ req[r].usr = u
    BY <1>3 DEF CommitFollow, HandlerInv, At, Pair
  <2>2. /\ follows' = follows \cup {<<u, v>>}
        /\ rewarded' = rewarded \cup {<<u, v>>}
        /\ notes' = [notes EXCEPT ![<<u, v>>] = 1]
        /\ paid' = [paid EXCEPT ![u] = IF <<u, v>> \notin rewarded THEN @ + 1 ELSE @]
    BY <1>3, <2>1 DEF CommitFollow, RewardDue
  <2>3. OneNotePerFollow'
    BY <2>1, <2>2 DEF OneNotePerFollow, TypeOK
  <2>4. Marked(u)' = Marked(u) \cup {v} /\ (v \in Marked(u) <=> <<u, v>> \in rewarded)
    BY <2>1, <2>2 DEF Marked
  <2>5. ASSUME NEW w \in Users, w # u PROVE Marked(w)' = Marked(w)
    BY <2>2, <2>5 DEF Marked
  <2>6. /\ IsFiniteSet(Marked(u) \cup {v})
        /\ Cardinality(Marked(u) \cup {v})
             = IF v \in Marked(u) THEN Cardinality(Marked(u)) ELSE Cardinality(Marked(u)) + 1
    BY <2>1, FS_AddElement DEF FiniteInv
  <2>7. FiniteInv'
    <3>1. ASSUME NEW w \in Users PROVE IsFiniteSet(Marked(w)')
      BY <2>4, <2>5, <2>6 DEF FiniteInv
    <3> QED BY <3>1 DEF FiniteInv
  <2>8. ASSUME NEW w \in Users PROVE paid'[w] = Cardinality(Marked(w)')
    <3>1. paid[w] = Cardinality(Marked(w))
      BY DEF PaidOnce, Marked
    <3>2. CASE w = u
      BY <2>1, <2>2, <2>4, <2>6, <3>1, <3>2 DEF TypeOK
    <3>3. CASE w # u
      BY <2>1, <2>2, <2>5, <3>1, <3>3 DEF TypeOK
    <3> QED BY <3>2, <3>3
  <2>9. follows' \subseteq rewarded'
    BY <2>2 DEF PaidOnce
  <2> QED BY <2>3, <2>7, <2>8, <2>9 DEF PaidOnce, Marked
<1> QED BY <1>1, <1>2, <1>3, RowSteps

\* The followings that count are finite, being among those paid for.
LEMMA KeptFinite ==
  ASSUME TypeOK, FiniteInv, PaidOnce, NEW u \in Users
  PROVE  IsFiniteSet(Kept(u))
<1>1. Kept(u) \subseteq Marked(u)
  BY DEF TypeOK, PaidOnce, Kept, Marked
<1> QED BY <1>1, FS_Subset DEF FiniteInv

\* What a transaction that is past its count, or passes it in this step, knows.
LEMMA RoomBefore ==
  ASSUME IInv, [Next]_vars, NEW r \in Requests, req'[r].pc \in {"insert", "inserted"}
  PROVE  /\ req'[r].usr = req[r].usr /\ req[r].usr \in Users
         /\ req[r].pc \in LockedSteps
         /\ Cardinality(Kept(req[r].usr)) < MaxFollowing
<1> USE DEF IInv, TypeOK, HandlerInv, RoomInv, Room, LockedSteps, At, Goto, Finish, Idle,
            Handler, Steps
<1>1. CASE req'[r] = req[r]
  BY <1>1
<1>2. CASE CountFollowing(r)
  <2> DEFINE u == req[r].usr
             Seen == {v \in available : <<u, v>> \in follows}
  <2>1. u \in Users /\ Cardinality(Seen) < MaxFollowing
    BY <1>2 DEF CountFollowing
  <2>2. Kept(u) \subseteq Seen /\ Seen \subseteq Marked(u)
    BY DEF Kept, Marked, PaidOnce
  <2>3. IsFiniteSet(Seen)
    BY <2>1, <2>2, FS_Subset DEF FiniteInv
  <2> HIDE DEF Seen
  <2>4. Cardinality(Kept(u)) <= Cardinality(Seen) /\ Cardinality(Seen) \in Nat
        /\ Cardinality(Kept(u)) \in Nat
    BY <2>2, <2>3, FS_Subset, FS_CardinalityType
  <2> QED BY <1>2, <2>1, <2>4 DEF CountFollowing
<1>3. CASE InsertFollow(r)
  BY <1>3 DEF InsertFollow
<1>4. CASE req'[r] # req[r] /\ ~CountFollowing(r) /\ ~InsertFollow(r)
  <2>1. ASSUME NEW q \in Requests, NEW u \in Users, NEW v \in Users, Toggle(q, u, v)
        PROVE FALSE
    BY <1>4, <2>1 DEF Toggle
  <2>2. ASSUME NEW q \in Requests, HandlerStep(q) PROVE FALSE
    <3>1. CASE q = r
      BY <1>4, <2>2, <3>1
         DEF HandlerStep, Unfollow, CheckTarget, LockFollower, CommitFollow
    <3>2. CASE q # r
      BY <1>4, <2>2, <3>2
         DEF HandlerStep, Unfollow, CheckTarget, LockFollower, CommitFollow,
             CountFollowing, InsertFollow
    <3> QED BY <3>1, <3>2
  <2>3. ASSUME NEW q \in Requests, Fail(q) PROVE FALSE
    BY <1>4, <2>3 DEF Fail
  <2>4. ASSUME NEW u \in Users, Suspend(u) \/ Reinstate(u) PROVE FALSE
    BY <1>4, <2>4 DEF Suspend, Reinstate
  <2> QED BY <1>4, <2>1, <2>2, <2>3, <2>4 DEF Next, vars
<1> QED BY <1>1, <1>2, <1>3, <1>4

\* A commit is the only step that adds a following, of the follower whose row it
\* has locked; nobody else has a count of that follower outstanding.
LEMMA LimitStep ==
  ASSUME IInv, [Next]_vars
  PROVE  LimitKept' /\ RoomInv'
<1> USE DEF IInv
<1>1. ASSUME NEW u \in Users, Kept(u)' \subseteq Kept(u)
      PROVE /\ Cardinality(Kept(u)) \in Nat /\ Cardinality(Kept(u)') \in Nat
            /\ Cardinality(Kept(u)') <= Cardinality(Kept(u))
  BY <1>1, KeptFinite, FS_Subset, FS_CardinalityType
<1>2. ASSUME NEW u \in Users PROVE Cardinality(Kept(u)) <= MaxFollowing
  BY DEF LimitKept, Kept
<1>3. CASE \A u \in Users : Kept(u)' \subseteq Kept(u)
  <2>1. ASSUME NEW u \in Users PROVE Cardinality(Kept(u)') <= MaxFollowing
    BY <1>1, <1>2, <1>3
  <2>2. ASSUME NEW r \in Requests, req'[r].pc \in {"insert", "inserted"} PROVE Room(r)'
    <3>1. PICK u \in Users : u = req'[r].usr /\ Cardinality(Kept(u)) < MaxFollowing
      BY <2>2, RoomBefore
    <3>2. Cardinality(Kept(u)') < MaxFollowing
      BY <1>1, <1>3, <3>1
    <3> QED BY <3>1, <3>2 DEF Room, Kept
  <2>3. RoomInv'
    BY <2>2 DEF RoomInv, Room
  <2> QED BY <2>1, <2>3 DEF LimitKept, Kept
<1>4. ASSUME NEW q \in Requests, CommitFollow(q) PROVE LimitKept' /\ RoomInv'
  <2>1. PICK u \in Users, v \in Users :
          /\ req[q].usr = u /\ Pair(q) = <<u, v>>
          /\ Cardinality(Kept(u)) < MaxFollowing
    BY <1>4 DEF CommitFollow, HandlerInv, At, Pair, RoomInv, Room
  <2>2. /\ Kept(u)' = Kept(u) \cup {x \in {v} : v \in everAvailable}
        /\ \A w \in Users \ {u} : Kept(w)' \subseteq Kept(w)
    BY <1>4, <2>1 DEF CommitFollow, Kept, userVars
  <2>3. Cardinality(Kept(u)') <= MaxFollowing
    <3>1. CASE Kept(u)' = Kept(u)
      BY <1>2, <3>1
    <3>2. CASE Kept(u)' = Kept(u) \cup {v}
      <4>1. IsFiniteSet(Kept(u)) /\ Cardinality(Kept(u)) \in Nat
        BY KeptFinite, FS_CardinalityType
      <4>2. Cardinality(Kept(u) \cup {v})
              = IF v \in Kept(u) THEN Cardinality(Kept(u)) ELSE Cardinality(Kept(u)) + 1
        BY <4>1, FS_AddElement
      <4> QED BY <2>1, <3>2, <4>1, <4>2
    <3> QED BY <2>2, <3>1, <3>2
  <2>4. ASSUME NEW w \in Users PROVE Cardinality(Kept(w)') <= MaxFollowing
    BY <1>1, <1>2, <2>2, <2>3
  <2>5. ASSUME NEW r \in Requests, req'[r].pc \in {"insert", "inserted"} PROVE Room(r)'
    <3>1. PICK w \in Users : /\ w = req'[r].usr /\ w = req[r].usr
                             /\ Cardinality(Kept(w)) < MaxFollowing
      BY <2>5, RoomBefore
    <3>2. r # q
      BY <1>4, <2>5 DEF CommitFollow, Finish, Idle, TypeOK
    <3>3. w # u
      BY <1>4, <2>1, <2>5, <3>1, <3>2, RoomBefore DEF LockInv, LockedSteps, CommitFollow, At
    <3>4. Cardinality(Kept(w)') < MaxFollowing
      BY <1>1, <2>2, <3>1, <3>3
    <3> QED BY <3>1, <3>4 DEF Room, Kept
  <2>6. RoomInv'
    BY <2>5 DEF RoomInv, Room
  <2> QED BY <2>4, <2>6 DEF LimitKept, Kept
<1>5. (\E r \in Requests : CommitFollow(r)) \/ (\A u \in Users : Kept(u)' \subseteq Kept(u))
  BY RowSteps DEF Unfollow, Kept, rowVars, userVars
<1> QED BY <1>3, <1>4, <1>5

-----------------------------------------------------------------------------
(* The inductive invariant holds in every reachable state.                  *)
THEOREM Invariance == Spec => []IInv
<1>1. IInv /\ [Next]_vars => IInv'
  BY HandlerSteps, LockStep, RewardStep, LimitStep DEF IInv
<1> QED BY <1>1, InitIInv, PTL DEF Spec

(* Every variable keeps its type.                                           *)
THEOREM TypeCorrect == Spec => []TypeOK
  BY Invariance, PTL DEF IInv

(* No overlap of toggles, and no suspension or return of accounts, takes a  *)
(* follower past its limit among the accounts that were there all along.    *)
THEOREM WithinLimit == Spec => []LimitKept
  BY Invariance, PTL DEF IInv

(* However often a pair is followed and unfollowed, it is paid for once,    *)
(* and no follow stands without its payment.                                *)
THEOREM SinglePayment == Spec => []PaidOnce
  BY Invariance, PTL DEF IInv

(* A notification stands exactly while its follow does.                     *)
THEOREM NotesFollowRows == Spec => []OneNotePerFollow
  BY Invariance, PTL DEF IInv

(* Rows, payments and notifications stay together in every behaviour.       *)
THEOREM FollowsAlwaysSound == Spec => []FollowsSound
  BY TypeCorrect, SinglePayment, NotesFollowRows, PTL DEF FollowsSound

-----------------------------------------------------------------------------
(* The answers of the AI: what they charge and what the routes keep         *)
(*                                                                         *)
(* The inductive invariant                                                 *)

\* Whose a request is and what it has been charged, by where it stands.
Charged(q) ==
  LET follow == q.kind = "followUp" IN
  /\ q.pc # "idle" => q.usr \in AIUsers
  /\ q.consumed => follow
  /\ q.pc = "idle" => q = AI!Idle
  /\ q.pc = "increment" => follow /\ ~q.got /\ q.charges = 0 /\ ~q.consumed
  /\ q.pc = "ask" => follow /\ ~q.got /\ q.charges = 0 /\ q.consumed
  /\ q.pc = "stream" => q.charges = 0 /\ (follow <=> q.consumed)
  /\ q.pc = "commit" => ~follow /\ q.got /\ q.charges = 0
  /\ q.pc = "persist" => q.kind = "interpret" /\ q.got /\ q.charges = 1
  /\ q.pc = "answer" => follow /\ q.got /\ q.charges = 0 /\ q.consumed
  /\ q.pc \in {"compensate", "refund"} => follow /\ ~q.got /\ q.charges = 0
  /\ q.pc = "recommit" => q.got /\ q.charges \in {0, 1}
  /\ q.pc = "done" => q.got /\ IF follow THEN q.charges = 0 /\ q.consumed ELSE q.charges = 1
  /\ q.pc = "error" /\ ~q.got => q.charges = 0 /\ ~q.consumed

ChargedInv == \A r \in AIRequests : Charged(aiReq[r])

\* The turns of the conversation that a request has by then.
Held(r) ==
  /\ r \in turns => AI!IsFollowUp(r) /\ ~AI!At(r, "increment")
  /\ r \in turns /\ aiReq[r].pc \in {"refund", "error"} /\ ~aiReq[r].got => aiReq[r].lost
  /\ AI!IsFollowUp(r) /\ aiReq[r].pc \in {"stream", "answer"} => r \in turns
  /\ r \in answers => r \in turns /\ aiReq[r].got

TurnsInv == \A r \in AIRequests : Held(r)

QuotaInv == AI!TypeOK /\ ChargedInv /\ TurnsInv /\ AI!CacheIsWhole

LEMMA QuotaInit ==
  ASSUME AI!QuotaAssumption, AI!Init
  PROVE  QuotaInv
<1>1. AI!Idle \in AI!Request /\ Charged(AI!Idle)
  BY DEF AI!Idle, AI!Request, AI!Steps, AI!Ends, Charged
<1>2. AI!TypeOK
  BY <1>1 DEF AI!QuotaAssumption, AI!Init, AI!TypeOK
<1>3. ChargedInv /\ TurnsInv /\ AI!CacheIsWhole
  BY <1>1 DEF AI!Init, ChargedInv, TurnsInv, Held, AI!CacheIsWhole, AI!At, AI!IsFollowUp, AI!Idle
<1> QED
  BY <1>2, <1>3 DEF QuotaInv

-----------------------------------------------------------------------------
(* The step of a request                                                   *)

\* A request that arrives starts blank, at the stream or at its reservation.
LEMMA Arrival ==
  ASSUME AI!QuotaAssumption, NEW r \in AIRequests, AI!Arrive(r)
  PROVE  \E u \in AIUsers, h \in Hashes \cup {NoHash}, k \in Kinds,
            step \in {"stream", "increment", "refused"} :
           /\ AI!At(r, "idle")
           /\ aiReq' = [aiReq EXCEPT ![r] =
                [pc |-> step, kind |-> k, usr |-> u, hash |-> h,
                 got |-> FALSE, charges |-> 0, consumed |-> FALSE, lost |-> FALSE]]
           /\ k = "followUp" => step # "stream"
           /\ k # "followUp" => step # "increment"
           /\ UNCHANGED <<day, AI!usage, cached, AI!history>>
<1>1. CASE \E u \in AIUsers, h \in Hashes : AI!Interpret(r, u, h)
  BY <1>1 DEF AI!Interpret, AI!Admit
<1>2. CASE \E u \in AIUsers, h \in Hashes : AI!FollowUp(r, u, h)
  BY <1>2 DEF AI!FollowUp, AI!Admit
<1>3. CASE \E u \in AIUsers : AI!ArcanaInterpret(r, u)
  BY <1>3 DEF AI!ArcanaInterpret, AI!Admit
<1>4. CASE \E u \in AIUsers : AI!HoroscopeInterpret(r, u)
  BY <1>4 DEF AI!HoroscopeInterpret, AI!Admit
<1> QED
  BY <1>1, <1>2, <1>3, <1>4 DEF AI!Arrive

LEMMA Refunding ==
  ASSUME NEW r \in AIRequests, AI!Refund(r)
  PROVE  \E step \in {"error", "compensate"}, fails \in BOOLEAN :
           /\ AI!At(r, "refund")
           /\ step = "compensate" => aiReq[r].consumed
           /\ aiReq' = [aiReq EXCEPT ![r].pc = step, ![r].consumed = FALSE,
                                 ![r].lost = @ \/ fails]
           /\ UNCHANGED <<day, rows, interpretationCount, cached, AI!history>>
  BY DEF AI!Refund

\* A request moves alone, and a step that ends it well is its last.
LEMMA MovesAlone ==
  ASSUME AI!QuotaAssumption, QuotaInv, NEW r \in AIRequests, AI!Arrive(r) \/ AI!RouteStep(r) \/ AI!Crash(r)
  PROVE  /\ aiReq' \in [AIRequests -> AI!Request]
         /\ \A p \in AIRequests : p # r => aiReq'[p] = aiReq[p]
         /\ aiReq[r].pc \in AI!Steps
<1>0. aiReq \in [AIRequests -> AI!Request] /\ aiReq[r] \in AI!Request /\ Charged(aiReq[r])
  BY DEF QuotaInv, AI!TypeOK, ChargedInv
<1>1. CASE AI!Arrive(r)
  <2>1. PICK u \in AIUsers, h \in Hashes \cup {NoHash}, k \in Kinds,
              step \in {"stream", "increment", "refused"} :
           /\ AI!At(r, "idle")
           /\ aiReq' = [aiReq EXCEPT ![r] =
                [pc |-> step, kind |-> k, usr |-> u, hash |-> h,
                 got |-> FALSE, charges |-> 0, consumed |-> FALSE, lost |-> FALSE]]
           /\ k = "followUp" => step # "stream"
           /\ k # "followUp" => step # "increment"
           /\ UNCHANGED <<day, AI!usage, cached, AI!history>>
    BY <1>1, Arrival
  <2> DEFINE q == [pc |-> step, kind |-> k, usr |-> u, hash |-> h, got |-> FALSE,
                   charges |-> 0, consumed |-> FALSE, lost |-> FALSE]
  <2>3. aiReq' = [aiReq EXCEPT ![r] = q]
    BY <2>1
  <2>4. q \in AI!Request
    BY <2>1 DEF AI!Request, AI!Steps, AI!Ends
  <2> QED
    BY <1>0, <2>1, <2>3, <2>4 DEF AI!At, AI!Steps
<1>2. CASE AI!IncrementFollowUp(r)
  BY <1>0, <1>2 DEF AI!IncrementFollowUp, AI!At, AI!IsFollowUp, AI!Request, AI!Idle, AI!Steps, AI!Ends, Charged
<1>3. CASE AI!Ask(r)
  BY <1>0, <1>3 DEF AI!Ask, AI!Goto, AI!At, AI!IsFollowUp, AI!Request, AI!Idle, AI!Steps, AI!Ends, Charged
<1>4. CASE AI!Token(r)
  BY <1>0, <1>4 DEF AI!Token, AI!At, AI!IsFollowUp, AI!Request, AI!Idle, AI!Steps, AI!Ends, Charged
<1>5. CASE AI!StreamEnds(r)
  BY <1>0, <1>5 DEF AI!StreamEnds, AI!AfterStream, AI!Goto, AI!At, AI!IsFollowUp, AI!Request, AI!Idle, AI!Steps,
      AI!Ends, Charged
<1>6. CASE AI!Throw(r)
  BY <1>0, <1>6 DEF AI!Throw, AI!OnError, AI!Goto, AI!At, AI!IsFollowUp, AI!Request, AI!Idle, AI!Steps, AI!Ends,
      Charged
<1>7. CASE AI!Cancel(r)
  BY <1>0, <1>7 DEF AI!Cancel, AI!Goto, AI!At, AI!IsFollowUp, AI!Request, AI!Idle, AI!Steps, AI!Ends, Charged
<1>8. CASE AI!Commit(r)
  BY <1>0, <1>8 DEF AI!Commit, AI!Charge, AI!AfterCommit, AI!At, AI!IsFollowUp, AI!Request, AI!Idle, AI!Steps,
      AI!Ends, Charged
<1>9. CASE AI!Recommit(r)
  BY <1>0, <1>9 DEF AI!Recommit, AI!Charge, AI!At, AI!IsFollowUp, AI!Request, AI!Idle, AI!Steps, AI!Ends, Charged
<1>10. CASE AI!RecommitFails(r)
  BY <1>0, <1>10 DEF AI!RecommitFails, AI!At, AI!IsFollowUp, AI!Request, AI!Idle, AI!Steps, AI!Ends, Charged
<1>11. CASE AI!Persist(r)
  BY <1>0, <1>11 DEF AI!Persist, AI!OnError, AI!Goto, AI!At, AI!IsFollowUp, AI!Request, AI!Idle, AI!Steps, AI!Ends,
      Charged
<1>12. CASE AI!Answer(r)
  BY <1>0, <1>12 DEF AI!Answer, AI!OnError, AI!Goto, AI!At, AI!IsFollowUp, AI!Request, AI!Idle, AI!Steps, AI!Ends,
      Charged
<1>13. CASE AI!Compensate(r)
  BY <1>0, <1>13 DEF AI!Compensate, AI!Goto, AI!At, AI!IsFollowUp, AI!Request, AI!Idle, AI!Steps, AI!Ends, Charged
<1>14. CASE AI!Refund(r)
  <2>1. PICK step \in {"error", "compensate"}, fails \in BOOLEAN :
           /\ AI!At(r, "refund")
           /\ step = "compensate" => aiReq[r].consumed
           /\ aiReq' = [aiReq EXCEPT ![r].pc = step, ![r].consumed = FALSE,
                                 ![r].lost = @ \/ fails]
    BY <1>14, Refunding
  <2> DEFINE q == [aiReq[r] EXCEPT !.pc = step, !.consumed = FALSE, !.lost = @ \/ fails]
  <2>2. aiReq' = [aiReq EXCEPT ![r] = q]
    BY <2>1
  <2>3. q \in AI!Request
    <3>0. step \in AI!Steps \cup AI!Ends
      BY <2>1 DEF AI!Steps, AI!Ends
    <3>1. aiReq[r] \in AI!Request /\ step \in AI!Steps \cup AI!Ends
      BY <1>0, <3>0, Zenon
    <3>2. PICK l \in BOOLEAN : l = (aiReq[r].lost \/ fails)
      OBVIOUS
    <3>3. q = [aiReq[r] EXCEPT !.pc = step, !.consumed = FALSE, !.lost = l]
      BY <3>2, Zenon
    <3> HIDE DEF q
    <3> QED
      BY <3>1, <3>3 DEF AI!Request
  <2> QED
    BY <1>0, <2>1, <2>2, <2>3 DEF AI!At, AI!Steps
<1>15. CASE AI!Crash(r)
  BY <1>0, <1>15 DEF AI!Crash, AI!Goto, AI!At, AI!IsFollowUp, AI!Request, AI!Idle, AI!Steps, AI!Ends, Charged
<1> QED
  BY <1>1, <1>2, <1>3, <1>4, <1>5, <1>6, <1>7, <1>8, <1>9, <1>10, <1>11, <1>12, <1>13,
      <1>14, <1>15 DEF AI!RouteStep

LEMMA ChargedKept ==
  ASSUME AI!QuotaAssumption, QuotaInv, NEW r \in AIRequests, AI!Arrive(r) \/ AI!RouteStep(r) \/ AI!Crash(r)
  PROVE  ChargedInv'
<1>0. aiReq \in [AIRequests -> AI!Request] /\ aiReq[r] \in AI!Request /\ Charged(aiReq[r])
  BY DEF QuotaInv, AI!TypeOK, ChargedInv
<1> SUFFICES Charged(aiReq'[r])
  BY MovesAlone DEF QuotaInv, ChargedInv
<1>1. CASE AI!Arrive(r)
  <2>1. PICK u \in AIUsers, h \in Hashes \cup {NoHash}, k \in Kinds,
              step \in {"stream", "increment", "refused"} :
           /\ AI!At(r, "idle")
           /\ aiReq' = [aiReq EXCEPT ![r] =
                [pc |-> step, kind |-> k, usr |-> u, hash |-> h,
                 got |-> FALSE, charges |-> 0, consumed |-> FALSE, lost |-> FALSE]]
           /\ k = "followUp" => step # "stream"
           /\ k # "followUp" => step # "increment"
           /\ UNCHANGED <<day, AI!usage, cached, AI!history>>
    BY <1>1, Arrival
  <2> DEFINE q == [pc |-> step, kind |-> k, usr |-> u, hash |-> h, got |-> FALSE,
                   charges |-> 0, consumed |-> FALSE, lost |-> FALSE]
  <2>3. aiReq' = [aiReq EXCEPT ![r] = q]
    BY <2>1
  <2>4. Charged(q)
    BY <2>1 DEF Charged, AI!Idle
  <2> QED
    BY <1>0, <2>1, <2>3, <2>4 DEF AI!At, AI!Steps
<1>2. CASE AI!IncrementFollowUp(r)
  BY <1>0, <1>2 DEF AI!IncrementFollowUp, AI!At, AI!IsFollowUp, AI!Request, AI!Idle, Charged
<1>3. CASE AI!Ask(r)
  BY <1>0, <1>3 DEF AI!Ask, AI!Goto, AI!At, AI!IsFollowUp, AI!Request, AI!Idle, Charged
<1>4. CASE AI!Token(r)
  BY <1>0, <1>4 DEF AI!Token, AI!At, AI!IsFollowUp, AI!Request, AI!Idle, Charged
<1>5. CASE AI!StreamEnds(r)
  BY <1>0, <1>5 DEF AI!StreamEnds, AI!AfterStream, AI!Goto, AI!At, AI!IsFollowUp, AI!Request, AI!Idle, Charged
<1>6. CASE AI!Throw(r)
  BY <1>0, <1>6 DEF AI!Throw, AI!OnError, AI!Goto, AI!At, AI!IsFollowUp, AI!Request, AI!Idle, Charged
<1>7. CASE AI!Cancel(r)
  BY <1>0, <1>7 DEF AI!Cancel, AI!Goto, AI!At, AI!IsFollowUp, AI!Request, AI!Idle, Charged
<1>8. CASE AI!Commit(r)
  BY <1>0, <1>8 DEF AI!Commit, AI!Charge, AI!AfterCommit, AI!At, AI!IsFollowUp, AI!Request, AI!Idle, Charged
<1>9. CASE AI!Recommit(r)
  BY <1>0, <1>9 DEF AI!Recommit, AI!Charge, AI!At, AI!IsFollowUp, AI!Request, AI!Idle, Charged
<1>10. CASE AI!RecommitFails(r)
  BY <1>0, <1>10 DEF AI!RecommitFails, AI!At, AI!IsFollowUp, AI!Request, AI!Idle, Charged
<1>11. CASE AI!Persist(r)
  BY <1>0, <1>11 DEF AI!Persist, AI!OnError, AI!Goto, AI!At, AI!IsFollowUp, AI!Request, AI!Idle, Charged
<1>12. CASE AI!Answer(r)
  BY <1>0, <1>12 DEF AI!Answer, AI!OnError, AI!Goto, AI!At, AI!IsFollowUp, AI!Request, AI!Idle, Charged
<1>13. CASE AI!Compensate(r)
  BY <1>0, <1>13 DEF AI!Compensate, AI!Goto, AI!At, AI!IsFollowUp, AI!Request, AI!Idle, Charged
<1>14. CASE AI!Refund(r)
  <2>1. PICK step \in {"error", "compensate"}, fails \in BOOLEAN :
           /\ AI!At(r, "refund")
           /\ step = "compensate" => aiReq[r].consumed
           /\ aiReq' = [aiReq EXCEPT ![r].pc = step, ![r].consumed = FALSE,
                                 ![r].lost = @ \/ fails]
    BY <1>14, Refunding
  <2> DEFINE q == [aiReq[r] EXCEPT !.pc = step, !.consumed = FALSE, !.lost = @ \/ fails]
  <2>2. aiReq' = [aiReq EXCEPT ![r] = q]
    BY <2>1
  <2>3. Charged(q)
    BY <1>0, <2>1 DEF Charged, AI!At, AI!Request
  <2> QED
    BY <1>0, <2>1, <2>2, <2>3 DEF AI!At, AI!Steps
<1>15. CASE AI!Crash(r)
  BY <1>0, <1>15 DEF AI!Crash, AI!Goto, AI!At, AI!IsFollowUp, AI!Request, AI!Idle, Charged
<1> QED
  BY <1>1, <1>2, <1>3, <1>4, <1>5, <1>6, <1>7, <1>8, <1>9, <1>10, <1>11, <1>12, <1>13,
      <1>14, <1>15 DEF AI!RouteStep

\* The tables keep their types.
LEMMA TypeKept ==
  ASSUME AI!QuotaAssumption, QuotaInv, NEW r \in AIRequests, AI!Arrive(r) \/ AI!RouteStep(r) \/ AI!Crash(r)
  PROVE  AI!TypeOK'
<1>0. AI!TypeOK /\ Charged(aiReq[r]) /\ aiReq' \in [AIRequests -> AI!Request]
  BY MovesAlone DEF QuotaInv, ChargedInv
<1>1. aiReq[r].pc # "idle" => aiReq[r].usr \in AIUsers /\ AI!Today(r) \in AI!UserDays
  BY <1>0 DEF Charged, AI!Today, AI!UserDays, AI!TypeOK
<1>2. CASE \/ AI!Arrive(r) \/ AI!Token(r) \/ AI!StreamEnds(r) \/ AI!Throw(r) \/ AI!Cancel(r)
           \/ AI!RecommitFails(r) \/ AI!Crash(r)
  <2>1. UNCHANGED <<day, AI!usage, cached, AI!history>>
    BY <1>2, Arrival DEF AI!Token, AI!StreamEnds, AI!Throw, AI!Cancel, AI!RecommitFails, AI!Crash
  <2> QED
    BY <1>0, <2>1 DEF AI!TypeOK, AI!usage, AI!history
<1>3. CASE AI!IncrementFollowUp(r)
  BY <1>0, <1>1, <1>3 DEF AI!IncrementFollowUp, AI!TypeOK, AI!history, AI!At
<1>4. CASE AI!Commit(r) \/ AI!Recommit(r)
  BY <1>0, <1>1, <1>4 DEF AI!Commit, AI!Recommit, AI!Charge, AI!TypeOK, AI!history, AI!At
<1>5. CASE AI!Ask(r) \/ AI!Answer(r) \/ AI!Compensate(r)
  BY <1>0, <1>5 DEF AI!Ask, AI!Answer, AI!Compensate, AI!TurnsWithout, AI!TypeOK, AI!usage
<1>6. CASE AI!Persist(r)
  BY <1>0, <1>1, <1>6 DEF AI!Persist, AI!TypeOK, AI!usage, AI!history, AI!At
<1>7. CASE AI!Refund(r)
  <2>1. /\ \/ followUpCount' = followUpCount
           \/ followUpCount' = [followUpCount EXCEPT ![AI!Today(r)] = @ - 1]
        /\ UNCHANGED <<day, rows, interpretationCount, cached, AI!history>>
    BY <1>7 DEF AI!Refund
  <2> QED
    BY <1>0, <2>1 DEF AI!TypeOK, AI!history
<1> QED
  BY <1>2, <1>3, <1>4, <1>5, <1>6, <1>7 DEF AI!RouteStep

\* A completed request stays as it is, so what the cache has from it stays true.
LEMMA CacheKept ==
  ASSUME AI!QuotaAssumption, QuotaInv, NEW r \in AIRequests, AI!Arrive(r) \/ AI!RouteStep(r) \/ AI!Crash(r)
  PROVE  AI!CacheIsWhole'
<1>0. /\ aiReq \in [AIRequests -> AI!Request] /\ cached \in [Hashes -> AIUsers \cup {NoUser}]
      /\ Charged(aiReq[r])
  BY DEF QuotaInv, AI!TypeOK, ChargedInv
<1>1. \A p \in AIRequests : AI!At(p, "done") => aiReq'[p] = aiReq[p]
  BY MovesAlone DEF AI!At, AI!Steps
<1>2. CASE AI!Persist(r) /\ cached[aiReq[r].hash] = NoUser
  <2>1. /\ cached' = [cached EXCEPT ![aiReq[r].hash] = aiReq[r].usr]
        /\ aiReq' = [aiReq EXCEPT ![r].pc = "done"] /\ AI!At(r, "persist")
    BY <1>2 DEF AI!Persist, AI!Goto
  <2>2. /\ aiReq'[r].pc = "done" /\ aiReq'[r].charges = 1
        /\ aiReq'[r].hash = aiReq[r].hash /\ aiReq'[r].usr = aiReq[r].usr
    BY <1>0, <2>1 DEF Charged, AI!At, AI!Request
  <2> SUFFICES ASSUME NEW h \in Hashes, cached'[h] # NoUser
               PROVE  \E p \in AIRequests : /\ AI!At(p, "done")' /\ aiReq'[p].charges = 1
                                          /\ aiReq'[p].hash = h /\ aiReq'[p].usr = cached'[h]
    BY DEF AI!CacheIsWhole
  <2>3. CASE h = aiReq[r].hash
    BY <1>0, <2>1, <2>2, <2>3 DEF AI!At
  <2>4. CASE h # aiReq[r].hash
    BY <1>0, <1>1, <2>1, <2>4 DEF QuotaInv, AI!CacheIsWhole, AI!At
  <2> QED
    BY <2>3, <2>4
<1>3. CASE ~(AI!Persist(r) /\ cached[aiReq[r].hash] = NoUser)
  <2>1. cached' = cached
    BY <1>3, Arrival
    DEF AI!RouteStep, AI!IncrementFollowUp, AI!Ask, AI!Token, AI!StreamEnds, AI!Throw, AI!Cancel, AI!Commit,
      AI!Recommit,
        AI!RecommitFails, AI!Persist, AI!Answer, AI!Compensate, AI!Refund, AI!Crash, AI!Charge
  <2> QED
    BY <1>1, <2>1 DEF QuotaInv, AI!CacheIsWhole, AI!At
<1> QED
  BY <1>2, <1>3

\* What a step does to the conversation; every other request keeps its turns.
LEMMA ConversationKept ==
  ASSUME AI!QuotaAssumption, QuotaInv, NEW r \in AIRequests, AI!Arrive(r) \/ AI!RouteStep(r) \/ AI!Crash(r)
  PROVE  TurnsInv'
<1>0. /\ aiReq \in [AIRequests -> AI!Request] /\ aiReq[r] \in AI!Request /\ aiReq' \in [AIRequests -> AI!Request]
      /\ Charged(aiReq[r]) /\ Charged(aiReq'[r])
      /\ \A p \in AIRequests : p # r => aiReq'[p] = aiReq[p]
  BY MovesAlone, ChargedKept DEF QuotaInv, AI!TypeOK, ChargedInv
<1>1. \A p \in AIRequests : Held(p)
  BY DEF QuotaInv, TurnsInv
<1> DEFINE Alone ==
      \A p \in AIRequests :
        p # r => (p \in turns' <=> p \in turns) /\ (p \in answers' <=> p \in answers)
<1>2. ASSUME AI!IncrementFollowUp(r) PROVE Held(r)' /\ Alone
  BY <1>0, <1>1, <1>2 DEF Held, AI!IncrementFollowUp, AI!Request, AI!At, AI!IsFollowUp, Charged,
      AI!Idle, AI!history
<1>3. ASSUME AI!Ask(r) PROVE Held(r)' /\ Alone
  BY <1>0, <1>1, <1>3 DEF Held, AI!Ask, AI!Goto, AI!At, AI!IsFollowUp, Charged, AI!Idle, AI!history
<1>4. ASSUME AI!Token(r) PROVE Held(r)' /\ Alone
  BY <1>0, <1>1, <1>4 DEF Held, AI!Token, AI!At, AI!IsFollowUp, Charged, AI!Idle, AI!history
<1>5. ASSUME AI!StreamEnds(r) PROVE Held(r)' /\ Alone
  BY <1>0, <1>1, <1>5 DEF Held, AI!StreamEnds, AI!AfterStream, AI!Goto, AI!At, AI!IsFollowUp, Charged,
      AI!Idle, AI!history
<1>6. ASSUME AI!Throw(r) PROVE Held(r)' /\ Alone
  BY <1>0, <1>1, <1>6 DEF Held, AI!Throw, AI!OnError, AI!Goto, AI!At, AI!IsFollowUp, Charged, AI!Idle, AI!history
<1>7. ASSUME AI!Cancel(r) PROVE Held(r)' /\ Alone
  BY <1>0, <1>1, <1>7 DEF Held, AI!Cancel, AI!Goto, AI!At, AI!IsFollowUp, Charged, AI!Idle, AI!history
<1>8. ASSUME AI!Commit(r) PROVE Held(r)' /\ Alone
  BY <1>0, <1>1, <1>8 DEF Held, AI!Commit, AI!Charge, AI!AfterCommit, AI!At, AI!IsFollowUp, Charged,
      AI!Idle, AI!history
<1>9. ASSUME AI!Recommit(r) PROVE Held(r)' /\ Alone
  BY <1>0, <1>1, <1>9 DEF Held, AI!Recommit, AI!Charge, AI!At, AI!IsFollowUp, Charged, AI!Idle, AI!history
<1>10. ASSUME AI!RecommitFails(r) PROVE Held(r)' /\ Alone
  BY <1>0, <1>1, <1>10 DEF Held, AI!RecommitFails, AI!At, AI!IsFollowUp, Charged, AI!Idle, AI!history
<1>11. ASSUME AI!Persist(r) PROVE Held(r)' /\ Alone
  <2>1. /\ AI!At(r, "persist") /\ UNCHANGED <<turns, answers>> /\ aiReq[r].got
        /\ aiReq'[r].pc \in {"done", "recommit"}
        /\ aiReq'[r].kind = aiReq[r].kind /\ aiReq'[r].got = aiReq[r].got
    BY <1>0, <1>11 DEF AI!Persist, AI!OnError, AI!Goto, AI!At, Charged, AI!history, AI!Request
  <2> QED
    BY <1>1, <2>1 DEF Held, AI!At, AI!IsFollowUp
<1>12. ASSUME AI!Answer(r) PROVE Held(r)' /\ Alone
  BY <1>0, <1>1, <1>12 DEF Held, AI!Answer, AI!OnError, AI!Goto, AI!At, AI!IsFollowUp, Charged, AI!Idle,
      AI!history
<1>13. ASSUME AI!Compensate(r) PROVE Held(r)' /\ Alone
  <2>1. /\ AI!At(r, "compensate") /\ UNCHANGED answers /\ aiReq'[r].pc = "refund"
        /\ aiReq'[r].kind = aiReq[r].kind /\ aiReq'[r].got = aiReq[r].got
        /\ turns' = turns \ {r} \/ (UNCHANGED turns /\ aiReq'[r].lost)
    BY <1>0, <1>13 DEF AI!Compensate, AI!TurnsWithout, AI!Goto, AI!Request
  <2> QED
    BY <1>0, <1>1, <2>1 DEF Held, AI!At, AI!IsFollowUp, Charged
<1>14. ASSUME AI!Refund(r) PROVE Held(r)' /\ Alone
  <2>1. PICK step \in {"error", "compensate"}, fails \in BOOLEAN :
           /\ AI!At(r, "refund")
           /\ step = "compensate" => aiReq[r].consumed
           /\ aiReq' = [aiReq EXCEPT ![r].pc = step, ![r].consumed = FALSE,
                                 ![r].lost = @ \/ fails]
           /\ UNCHANGED <<day, rows, interpretationCount, cached, AI!history>>
    BY <1>14, Refunding
  <2> DEFINE q == [aiReq[r] EXCEPT !.pc = step, !.consumed = FALSE, !.lost = @ \/ fails]
  <2>2. /\ aiReq'[r] = q /\ q.pc = step /\ q.kind = aiReq[r].kind /\ q.got = aiReq[r].got
        /\ aiReq[r].lost => q.lost
    BY <1>0, <2>1 DEF AI!Request
  <2> QED
    BY <1>1, <2>1, <2>2 DEF Held, AI!At, AI!IsFollowUp, AI!history
<1>15. ASSUME AI!Crash(r) PROVE Held(r)' /\ Alone
  BY <1>0, <1>1, <1>15 DEF Held, AI!Crash, AI!Goto, AI!At, AI!IsFollowUp, Charged, AI!Idle, AI!history
<1>16. ASSUME AI!Arrive(r) PROVE Held(r)' /\ Alone
  BY <1>0, <1>1, <1>16, Arrival DEF Held, AI!At, AI!IsFollowUp, Charged, AI!Idle, AI!history
<1>17. Held(r)' /\ Alone
  BY <1>2, <1>3, <1>4, <1>5, <1>6, <1>7, <1>8, <1>9, <1>10, <1>11, <1>12, <1>13, <1>14,
     <1>15, <1>16 DEF AI!RouteStep
<1>18. ASSUME NEW p \in AIRequests PROVE Held(p)'
  <2>1. CASE p = r
    BY <1>17, <2>1
  <2>2. CASE p # r
    <3>1. (p \in turns' <=> p \in turns) /\ (p \in answers' <=> p \in answers)
      BY <1>17, <2>2
    <3>2. aiReq'[p] = aiReq[p]
      BY <1>0, <2>2
    <3> QED
      BY <1>1, <3>1, <3>2 DEF Held, AI!At, AI!IsFollowUp
  <2> QED
    BY <2>1, <2>2
<1> QED
  BY <1>18 DEF TurnsInv

-----------------------------------------------------------------------------
(* The theorems                                                            *)

LEMMA QuotaInductive ==
  ASSUME AI!QuotaAssumption, QuotaInv, [AI!Next]_AI!vars
  PROVE  QuotaInv'
<1>1. CASE \E r \in AIRequests : AI!Arrive(r) \/ AI!RouteStep(r) \/ AI!Crash(r)
  BY <1>1, TypeKept, ChargedKept, ConversationKept, CacheKept DEF QuotaInv
<1>2. CASE AI!Midnight \/ UNCHANGED AI!vars
  <2>1. UNCHANGED <<rows, interpretationCount, followUpCount, cached, turns, answers, aiReq>>
    BY <1>2 DEF AI!Midnight, AI!vars, AI!usage, AI!history
  <2>2. day' \in 0..MaxDay
    BY <1>2 DEF QuotaInv, AI!TypeOK, AI!Midnight, AI!vars, AI!QuotaAssumption
  <2> QED
    BY <2>1, <2>2 DEF QuotaInv, AI!TypeOK, ChargedInv, TurnsInv, Held, AI!CacheIsWhole, AI!At, AI!IsFollowUp
<1> QED
  BY <1>1, <1>2 DEF AI!Next

\* What a request was charged, what it left in the conversation and in the
\* cache, at every await of every route.
THEOREM QuotaInvariance ==
  ASSUME AI!QuotaAssumption
  PROVE  AI!Spec => []QuotaInv
  BY QuotaInit, QuotaInductive, PTL DEF AI!Spec

\* The tables and the requests have their types.
THEOREM QuotaTyped ==
  ASSUME AI!QuotaAssumption
  PROVE  AI!Spec => []AI!TypeOK
<1>1. QuotaInv => AI!TypeOK
  BY DEF QuotaInv
<1> QED
  BY <1>1, QuotaInvariance, PTL

\* An answer that ended well cost one unit of its kind, an error before the
\* first token nothing.
THEOREM AnswersAreCharged ==
  ASSUME AI!QuotaAssumption
  PROVE  AI!Spec => []AI!ChargedAsAnswered
<1>1. QuotaInv => AI!ChargedAsAnswered
  BY DEF QuotaInv, ChargedInv, Charged, AI!ChargedAsAnswered, AI!At, AI!IsFollowUp
<1> QED
  BY <1>1, QuotaInvariance, PTL

\* A request that fails before its first token takes its turn back, unless the
\* deletion failed, and no answer stands without its question.
THEOREM NothingToRepeat ==
  ASSUME AI!QuotaAssumption
  PROVE  AI!Spec => []AI!NoTurnToRepeat
<1>1. QuotaInv => AI!NoTurnToRepeat
  BY DEF QuotaInv, AI!TypeOK, TurnsInv, Held, AI!NoTurnToRepeat, AI!At
<1> QED
  BY <1>1, QuotaInvariance, PTL

\* What the cache serves was streamed to its end and charged to its owner.
THEOREM CacheAlwaysWhole ==
  ASSUME AI!QuotaAssumption
  PROVE  AI!Spec => []AI!CacheIsWhole
<1>1. QuotaInv => AI!CacheIsWhole
  BY DEF QuotaInv
<1> QED
  BY <1>1, QuotaInvariance, PTL

-----------------------------------------------------------------------------
(* The follow-up counter                                                   *)

LEMMA QuotaSizes ==
  /\ \A S : AI!IsFiniteSet(S) <=> IsFiniteSet(S)
  /\ \A S : AI!Cardinality(S) = Cardinality(S)
<1>1. \A S : AI!IsFiniteSet(S) <=> IsFiniteSet(S)
  BY DEF AI!IsFiniteSet, IsFiniteSet
<1>2. \A S : AI!Cardinality(S) = Cardinality(S)
  BY DEF AI!Cardinality, Cardinality
<1> QED
  BY <1>1, <1>2

\* What holds of a day whenever it holds of the days before it holds of every day.
LEMMA EveryDay ==
  ASSUME MaxDay \in Nat, NEW G \in SUBSET (0..MaxDay),
         \A d \in 0..MaxDay : (\A e \in 0..MaxDay : e < d => e \in G) => d \in G
  PROVE  G = 0..MaxDay
<1> DEFINE R == OpToRel(<, Nat)
           Bad == (0..MaxDay) \ G
<1>1. IsWellFoundedOn(R, Nat)
  BY NatLessThanWellFounded
<1>2. \A x, y \in Nat : y < x => <<y, x>> \in R
  BY DEF OpToRel
<1> HIDE DEF R
<1>3. ASSUME Bad # {} PROVE FALSE
  <2>1. Bad \subseteq Nat
    OBVIOUS
  <2>2. PICK x \in Bad : \A y \in Bad : ~ (<<y, x>> \in R)
    BY <1>1, <1>3, <2>1, WFMin
  <2>3. \A y \in Bad : ~ (y < x)
    BY <1>2, <2>1, <2>2
  <2>4. \A e \in 0..MaxDay : e < x => e \in G
    BY <2>3
  <2> QED
    BY <2>2, <2>4
<1> QED
  BY <1>3

\* The running sum of the days exists ...
Adds(s, c, u, d) == s[d] = c[<<u, d>>] + (IF d = 0 THEN 0 ELSE s[d - 1])

LEMMA RunningSum ==
  ASSUME MaxDay \in Nat, NEW u \in AIUsers, NEW c \in [AI!UserDays -> Int]
  PROVE  \E s \in [0..MaxDay -> Int] : \A d \in 0..MaxDay : Adds(s, c, u, d)
<1> DEFINE G == {n \in 0..MaxDay : \E s \in [0..n -> Int] : \A d \in 0..n : Adds(s, c, u, d)}
<1>1. \A d \in 0..MaxDay : c[<<u, d>>] \in Int
  BY DEF AI!UserDays
<1>2. ASSUME NEW n \in 0..MaxDay, \A e \in 0..MaxDay : e < n => e \in G
      PROVE  n \in G
  <2>1. CASE n = 0
    <3>1. /\ [d \in 0..n |-> c[<<u, 0>>]] \in [0..n -> Int]
          /\ \A d \in 0..n : Adds([e \in 0..n |-> c[<<u, 0>>]], c, u, d)
      BY <1>1, <2>1 DEF Adds
    <3> QED
      BY <3>1
  <2>2. CASE n # 0
    <3>1. n - 1 \in 0..MaxDay /\ n - 1 < n
      BY <2>2
    <3>2. PICK s \in [0..(n - 1) -> Int] : \A d \in 0..(n - 1) : Adds(s, c, u, d)
      BY <1>2, <3>1
    <3> DEFINE t == [d \in 0..n |-> IF d = n THEN c[<<u, n>>] + s[n - 1] ELSE s[d]]
    <3>3. t \in [0..n -> Int]
      BY <1>1, <3>1, <3>2
    <3>4. ASSUME NEW d \in 0..n PROVE Adds(t, c, u, d)
      <4>1. CASE d = n
        BY <2>2, <3>1, <4>1 DEF Adds
      <4>2. CASE d # n
        <5>1. d \in 0..(n - 1) /\ (d # 0 => d - 1 \in 0..(n - 1))
          BY <4>2
        <5>2. t[d] = s[d] /\ (d # 0 => t[d - 1] = s[d - 1])
          BY <4>2, <5>1
        <5> QED
          BY <3>2, <5>1, <5>2 DEF Adds
      <4> QED
        BY <4>1, <4>2
    <3> QED
      BY <3>3, <3>4
  <2> QED
    BY <2>1, <2>2
<1>3. MaxDay \in G
  <2> HIDE DEF G
  <2>1. G \in SUBSET (0..MaxDay)
    BY DEF G
  <2> QED
    BY <1>2, <2>1, EveryDay
<1> QED
  BY <1>3

\* ... and FollowUpsOf is its last value.
Counted(c, u) ==
  LET upTo[d \in 0..MaxDay] == c[<<u, d>>] + (IF d = 0 THEN 0 ELSE upTo[d - 1])
  IN upTo[MaxDay]

LEMMA CountedIs ==
  ASSUME MaxDay \in Nat, NEW u \in AIUsers, NEW c \in [AI!UserDays -> Int]
  PROVE  \E s \in [0..MaxDay -> Int] :
           /\ \A d \in 0..MaxDay : Adds(s, c, u, d)
           /\ Counted(c, u) = s[MaxDay]
<1> DEFINE Sums(s) == s = [d \in 0..MaxDay |-> c[<<u, d>>] + (IF d = 0 THEN 0 ELSE s[d - 1])]
           U == CHOOSE s : Sums(s)
<1>1. \E s : Sums(s)
  <2>1. PICK s \in [0..MaxDay -> Int] : \A d \in 0..MaxDay : Adds(s, c, u, d)
    BY RunningSum
  <2>2. Sums(s)
    BY <2>1 DEF Adds
  <2> QED
    BY <2>2
<1>2. Sums(U)
  BY <1>1
<1>3. Counted(c, u) = U[MaxDay]
  BY DEF Counted
<1> HIDE DEF U
<1>4. \A d \in 0..MaxDay : Adds(U, c, u, d)
  BY <1>2 DEF Adds
<1>5. U \in [0..MaxDay -> Int]
  <2> DEFINE G == {d \in 0..MaxDay : U[d] \in Int}
  <2>1. \A d \in 0..MaxDay : c[<<u, d>>] \in Int
    BY DEF AI!UserDays
  <2>2. ASSUME NEW d \in 0..MaxDay, \A e \in 0..MaxDay : e < d => e \in G
        PROVE  d \in G
    <3>1. d # 0 => d - 1 \in 0..MaxDay /\ d - 1 < d
      OBVIOUS
    <3>2. CASE d = 0
      <4>1. U[d] = c[<<u, d>>] + 0
        BY <1>4, <3>2 DEF Adds
      <4>2. c[<<u, d>>] \in Int
        BY <2>1
      <4> QED
        BY <4>1, <4>2
    <3>3. CASE d # 0
      <4>1. U[d - 1] \in Int
        BY <2>2, <3>1, <3>3
      <4>2. U[d] = c[<<u, d>>] + U[d - 1]
        BY <1>4, <3>3 DEF Adds
      <4> QED
        BY <2>1, <4>1, <4>2
    <3> QED
      BY <3>2, <3>3
  <2>3. G = 0..MaxDay
    <3> HIDE DEF G
    <3>1. G \in SUBSET (0..MaxDay)
      BY DEF G
    <3> QED
      BY <2>2, <3>1, EveryDay
  <2>4. \A d \in 0..MaxDay : U[d] \in Int
    BY <2>3
  <2>5. U = [d \in 0..MaxDay |-> c[<<u, d>>] + (IF d = 0 THEN 0 ELSE U[d - 1])]
    BY <1>2
  <2> QED
    BY <2>4, <2>5
<1> QED
  BY <1>3, <1>4, <1>5

Moved(c, e, v, d, k) == e = [c EXCEPT ![<<v, d>>] = @ + k]

\* A question more or less on one day is one more or less in the count of its
\* user, and nothing in the count of another.
LEMMA CountedOnce ==
  ASSUME MaxDay \in Nat, NEW u \in AIUsers, NEW v \in AIUsers, NEW day0 \in 0..MaxDay, NEW k \in Int,
         NEW c \in [AI!UserDays -> Int], NEW e \in [AI!UserDays -> Int],
         Moved(c, e, v, day0, k)
  PROVE  Counted(e, u) = Counted(c, u) + (IF u = v THEN k ELSE 0)
<1>1. PICK s \in [0..MaxDay -> Int] :
        (\A d \in 0..MaxDay : Adds(s, c, u, d)) /\ Counted(c, u) = s[MaxDay]
  BY CountedIs
<1>2. PICK t \in [0..MaxDay -> Int] :
        (\A d \in 0..MaxDay : Adds(t, e, u, d)) /\ Counted(e, u) = t[MaxDay]
  BY CountedIs
<1> DEFINE By == [d \in 0..MaxDay |-> IF u = v /\ d >= day0 THEN k ELSE 0]
           G == {d \in 0..MaxDay : t[d] = s[d] + By[d]}
<1>3. \A d \in 0..MaxDay : /\ c[<<u, d>>] \in Int
                           /\ e[<<u, d>>] = c[<<u, d>>] + (IF u = v /\ d = day0 THEN k ELSE 0)
  <2> SUFFICES ASSUME NEW d \in 0..MaxDay
               PROVE  /\ c[<<u, d>>] \in Int
                      /\ e[<<u, d>>] = c[<<u, d>>] + (IF u = v /\ d = day0 THEN k ELSE 0)
    OBVIOUS
  <2>1. <<u, d>> \in AI!UserDays /\ <<v, day0>> \in AI!UserDays
    BY DEF AI!UserDays
  <2>2. CASE u = v /\ d = day0
    BY <2>1, <2>2 DEF Moved
  <2>3. CASE ~(u = v /\ d = day0)
    <3>1. <<u, d>> # <<v, day0>>
      BY <2>3
    <3>2. e[<<u, d>>] = c[<<u, d>>]
      BY <2>1, <3>1 DEF Moved
    <3> QED
      BY <2>1, <2>3, <3>2
  <2> QED
    BY <2>2, <2>3
<1> HIDE DEF By
<1>4. By \in [0..MaxDay -> Int]
  BY DEF By
<1>5. ASSUME NEW d \in 0..MaxDay, \A x \in 0..MaxDay : x < d => x \in G
      PROVE  d \in G
  <2>1. d # 0 => d - 1 \in 0..MaxDay /\ t[d - 1] = s[d - 1] + By[d - 1]
    BY <1>5
  <2>2. /\ s[d] = c[<<u, d>>] + (IF d = 0 THEN 0 ELSE s[d - 1])
        /\ t[d] = e[<<u, d>>] + (IF d = 0 THEN 0 ELSE t[d - 1])
    BY <1>1, <1>2 DEF Adds
  <2>3. c[<<u, d>>] \in Int /\ s[d] \in Int /\ t[d] \in Int
    BY <1>3
  <2>4. CASE d = 0
    BY <1>3, <2>2, <2>3, <2>4 DEF By
  <2>5. CASE d # 0
    <3>1. s[d - 1] \in Int /\ t[d - 1] \in Int
      BY <2>5
    <3>2. d >= day0 <=> d - 1 >= day0 \/ d = day0
      BY <2>5
    <3>3. /\ s[d] = c[<<u, d>>] + s[d - 1] /\ t[d] = e[<<u, d>>] + t[d - 1]
          /\ t[d - 1] = s[d - 1] + By[d - 1]
      BY <2>1, <2>2, <2>5
    <3>4. By[d] \in Int /\ By[d - 1] \in Int
      BY <1>4, <2>1, <2>5
    <3>5. CASE u = v /\ d = day0
      <4>1. e[<<u, d>>] = c[<<u, d>>] + k /\ By[d - 1] = 0 /\ By[d] = k
        BY <1>3, <2>5, <3>2, <3>5 DEF By
      <4>2. t[d - 1] = s[d - 1]
        BY <3>1, <3>3, <4>1, SMTT(30)
      <4>3. (c[<<u, d>>] + k) + s[d - 1] = (c[<<u, d>>] + s[d - 1]) + k
        <5>1. c[<<u, d>>] \in Int /\ s[d - 1] \in Int
          BY <2>3, <3>1
        <5>2. \A x, y \in Int : (x + k) + y = (x + y) + k
          OBVIOUS
        <5> QED
          BY <5>1, <5>2
      <4> QED
        BY <3>3, <4>1, <4>2, <4>3
    <3>6. CASE ~(u = v /\ d = day0)
      <4>1. (d >= day0 <=> d - 1 >= day0) \/ u # v
        BY <3>2, <3>6
      <4>2. By[d - 1] = By[d]
        BY <2>1, <2>5, <4>1 DEF By
      <4>3. e[<<u, d>>] = c[<<u, d>>]
        BY <1>3, <3>6
      <4>4. c[<<u, d>>] + (s[d - 1] + By[d]) = (c[<<u, d>>] + s[d - 1]) + By[d]
        <5>1. c[<<u, d>>] \in Int /\ s[d - 1] \in Int
          BY <2>3, <3>1
        <5>2. PICK z \in Int : z = By[d]
          BY <3>4
        <5>3. \A x, y \in Int : x + (y + z) = (x + y) + z
          OBVIOUS
        <5>4. c[<<u, d>>] + (s[d - 1] + z) = (c[<<u, d>>] + s[d - 1]) + z
          BY <5>1, <5>3
        <5> QED
          BY <5>2, <5>4
      <4> QED
        BY <3>3, <4>2, <4>3, <4>4
    <3> QED
      BY <3>5, <3>6
  <2>6. t[d] = s[d] + By[d]
    BY <2>4, <2>5
  <2> QED
    BY <2>6
<1>6. MaxDay \in G
  <2> HIDE DEF G
  <2>1. G \in SUBSET (0..MaxDay)
    BY DEF G
  <2>2. G = 0..MaxDay
    BY <1>5, <2>1, EveryDay
  <2> QED
    BY <2>2
<1> QED
  BY <1>1, <1>2, <1>6 DEF By

-----------------------------------------------------------------------------
\* While it is the first day, the row that a reservation was counted in is today's.
CountedToday ==
  day = 0 => \A r \in AIRequests : aiReq[r].consumed => <<aiReq[r].usr, 0>> \in rows

FollowUpInv == QuotaInv /\ CountedToday /\ AI!FollowUpsAccounted

Taken(r) ==
  /\ ~aiReq[r].consumed /\ aiReq'[r].consumed /\ aiReq'[r].usr = aiReq[r].usr
  /\ followUpCount' = [followUpCount EXCEPT ![AI!Today(r)] = @ + 1]
  /\ AI!Today(r) \in rows'

GivenBack(r) ==
  /\ ~aiReq'[r].consumed /\ aiReq'[r].usr = aiReq[r].usr
  /\ \/ /\ aiReq[r].consumed /\ AI!Today(r) \in rows
        /\ followUpCount' = [followUpCount EXCEPT ![AI!Today(r)] = @ - 1]
     \/ /\ followUpCount' = followUpCount
        /\ aiReq[r].consumed => aiReq'[r].lost \/ AI!Today(r) \notin rows

Untouched(r) ==
  /\ followUpCount' = followUpCount
  /\ aiReq'[r].consumed = aiReq[r].consumed
  /\ aiReq[r].consumed => aiReq'[r].usr = aiReq[r].usr

\* What a step does to the reservation of its request.
LEMMA Reserving ==
  ASSUME AI!QuotaAssumption, QuotaInv, NEW r \in AIRequests, AI!Arrive(r) \/ AI!RouteStep(r) \/ AI!Crash(r)
  PROVE  /\ day' = day /\ rows \subseteq rows'
         /\ aiReq[r].lost => aiReq'[r].lost
         /\ Untouched(r) \/ Taken(r) \/ GivenBack(r)
<1>0. aiReq \in [AIRequests -> AI!Request] /\ aiReq[r] \in AI!Request /\ Charged(aiReq[r])
  BY DEF QuotaInv, AI!TypeOK, ChargedInv
<1> DEFINE Goal == /\ day' = day /\ rows \subseteq rows'
                   /\ aiReq[r].lost => aiReq'[r].lost
                   /\ Untouched(r) \/ Taken(r) \/ GivenBack(r)
<1>1. ASSUME AI!Arrive(r) PROVE Goal
  <2>1. PICK u \in AIUsers, h \in Hashes \cup {NoHash}, k \in Kinds,
              step \in {"stream", "increment", "refused"} :
           /\ AI!At(r, "idle")
           /\ aiReq' = [aiReq EXCEPT ![r] =
                [pc |-> step, kind |-> k, usr |-> u, hash |-> h,
                 got |-> FALSE, charges |-> 0, consumed |-> FALSE, lost |-> FALSE]]
           /\ k = "followUp" => step # "stream"
           /\ k # "followUp" => step # "increment"
           /\ UNCHANGED <<day, AI!usage, cached, AI!history>>
    BY <1>1, Arrival
  <2>2. aiReq[r] = AI!Idle
    BY <1>0, <2>1 DEF Charged, AI!At
  <2>3. aiReq[r].consumed = FALSE /\ aiReq[r].lost = FALSE
    BY <2>2 DEF AI!Idle
  <2>4. aiReq'[r].consumed = FALSE
    BY <1>0, <2>1
  <2> QED
    BY <2>1, <2>3, <2>4 DEF Untouched, AI!usage
<1>2. ASSUME AI!IncrementFollowUp(r) PROVE Goal
  BY <1>0, <1>2 DEF AI!IncrementFollowUp, AI!At, AI!Request, Charged, Taken
<1>3. ASSUME AI!Ask(r) \/ AI!StreamEnds(r) \/ AI!Throw(r) \/ AI!Cancel(r) \/ AI!Answer(r) \/ AI!Crash(r)
      PROVE  Goal
  <2>1. UNCHANGED <<day, rows, followUpCount>> /\ \E step : aiReq' = [aiReq EXCEPT ![r].pc = step]
    BY <1>3 DEF AI!Ask, AI!StreamEnds, AI!Throw, AI!Cancel, AI!Answer, AI!Crash, AI!Goto, AI!usage
  <2> QED
    BY <1>0, <2>1 DEF AI!Request, Untouched
<1>4. ASSUME AI!Token(r) \/ AI!Commit(r) \/ AI!Recommit(r) PROVE Goal
  <2>1. UNCHANGED <<day, followUpCount>> /\ rows \subseteq rows'
    BY <1>4 DEF AI!Token, AI!Commit, AI!Recommit, AI!Charge, AI!usage
  <2>2. /\ aiReq'[r].consumed = aiReq[r].consumed /\ aiReq'[r].usr = aiReq[r].usr
        /\ aiReq'[r].lost = aiReq[r].lost
    BY <1>0, <1>4 DEF AI!Token, AI!Commit, AI!Recommit, AI!Charge, AI!Request
  <2> QED
    BY <2>1, <2>2 DEF Untouched
<1>5. ASSUME AI!RecommitFails(r) \/ AI!Persist(r) \/ AI!Compensate(r) PROVE Goal
  <2>1. UNCHANGED <<day, rows, followUpCount>>
    BY <1>5 DEF AI!RecommitFails, AI!Persist, AI!Compensate, AI!usage
  <2>2. /\ aiReq'[r].consumed = aiReq[r].consumed /\ aiReq'[r].usr = aiReq[r].usr
        /\ aiReq[r].lost => aiReq'[r].lost
    BY <1>0, <1>5 DEF AI!RecommitFails, AI!Persist, AI!Compensate, AI!Goto, AI!Request
  <2> QED
    BY <2>1, <2>2 DEF Untouched
<1>6. ASSUME AI!Refund(r) PROVE Goal
  <2>1. PICK step \in {"error"} \cup (IF aiReq[r].consumed THEN {"compensate"} ELSE {}),
             fails \in (IF aiReq[r].consumed THEN BOOLEAN ELSE {FALSE}) :
       /\ aiReq' = [aiReq EXCEPT ![r].pc = step, ![r].consumed = FALSE, ![r].lost = @ \/ fails]
       /\ followUpCount' = IF AI!Refundable(r) /\ ~fails
                             THEN [followUpCount EXCEPT ![AI!Today(r)] = @ - 1]
                             ELSE followUpCount
       /\ UNCHANGED <<day, rows>>
    BY <1>6 DEF AI!Refund
  <2>2. fails \in BOOLEAN
    BY <2>1
  <2> DEFINE q == [aiReq[r] EXCEPT !.pc = step, !.consumed = FALSE, !.lost = @ \/ fails]
  <2>3. aiReq'[r] = q
    BY <1>0, <2>1
  <2>4. q.consumed = FALSE /\ q.usr = aiReq[r].usr
    BY <1>0 DEF AI!Request
  <2>5. q.lost <=> aiReq[r].lost \/ fails
    BY <1>0 DEF AI!Request
  <2>6. aiReq[r].lost => aiReq'[r].lost
    BY <2>3, <2>5
  <2>7. CASE AI!Refundable(r) /\ ~fails
    <3>1. GivenBack(r)
      BY <2>1, <2>3, <2>4, <2>7 DEF GivenBack, AI!Refundable
    <3> QED
      BY <2>1, <2>6, <3>1
  <2>8. CASE ~(AI!Refundable(r) /\ ~fails)
    <3>1. followUpCount' = followUpCount
      BY <2>1, <2>8
    <3>2. aiReq[r].consumed => aiReq'[r].lost \/ AI!Today(r) \notin rows
      BY <2>3, <2>5, <2>8 DEF AI!Refundable
    <3>3. GivenBack(r)
      BY <2>3, <2>4, <3>1, <3>2 DEF GivenBack
    <3> QED
      BY <2>1, <2>6, <3>3
  <2> QED
    BY <2>7, <2>8
<1> QED
  BY <1>1, <1>2, <1>3, <1>4, <1>5, <1>6 DEF AI!RouteStep

LEMMA CountedTodayKept ==
  ASSUME AI!QuotaAssumption, FollowUpInv, NEW r \in AIRequests, AI!Arrive(r) \/ AI!RouteStep(r) \/ AI!Crash(r)
  PROVE  CountedToday'
<1> SUFFICES ASSUME day' = 0, NEW p \in AIRequests, aiReq'[p].consumed
             PROVE  <<aiReq'[p].usr, 0>> \in rows'
  BY DEF CountedToday
<1>1. /\ day = 0 /\ rows \subseteq rows'
      /\ Untouched(r) \/ Taken(r) \/ GivenBack(r)
      /\ p # r => aiReq'[p] = aiReq[p]
  BY Reserving, MovesAlone DEF FollowUpInv
<1>2. CASE p = r /\ Taken(r)
  BY <1>1, <1>2 DEF Taken, AI!Today
<1>3. CASE ~(p = r /\ Taken(r))
  <2>1. aiReq[p].consumed /\ aiReq'[p].usr = aiReq[p].usr
    BY <1>1, <1>3 DEF Untouched, GivenBack
  <2> QED
    BY <1>1, <2>1 DEF FollowUpInv, CountedToday
<1> QED
  BY <1>2, <1>3

\* The reservations of a user, before and after a step.
LEMMA ReservedSizes ==
  ASSUME AI!QuotaAssumption, NEW u
  PROVE  /\ IsFiniteSet(AI!Reserved(u)) /\ Cardinality(AI!Reserved(u)) \in Nat
         /\ AI!Cardinality(AI!Reserved(u)) = Cardinality(AI!Reserved(u))
<1>1. IsFiniteSet(AIRequests)
  BY QuotaSizes DEF AI!QuotaAssumption
<1>2. AI!Reserved(u) \subseteq AIRequests
  BY DEF AI!Reserved
<1> QED
  BY <1>1, <1>2, QuotaSizes, FS_Subset, FS_CardinalityType

LEMMA ReservedStep ==
  ASSUME AI!QuotaAssumption, QuotaInv, NEW r \in AIRequests, AI!Arrive(r) \/ AI!RouteStep(r) \/ AI!Crash(r),
         NEW u \in AIUsers
  PROVE  LET n == Cardinality(AI!Reserved(u))
             m == Cardinality(AI!Reserved(u)')
         IN /\ Untouched(r) \/ aiReq[r].usr # u => m = n
            /\ Taken(r) /\ aiReq[r].usr = u => m = n + 1
            /\ GivenBack(r) /\ aiReq[r].usr = u => m = IF aiReq[r].consumed THEN n - 1 ELSE n
<1>0. /\ \A p \in AIRequests : p # r => aiReq'[p] = aiReq[p]
      /\ Untouched(r) \/ Taken(r) \/ GivenBack(r)
  BY MovesAlone, Reserving
<1>1. IsFiniteSet(AI!Reserved(u)) /\ Cardinality(AI!Reserved(u)) \in Nat
  BY ReservedSizes
<1>2. \A p : p \in AI!Reserved(u) <=> p \in AIRequests /\ aiReq[p].usr = u /\ aiReq[p].consumed
  BY DEF AI!Reserved
<1>3. \A p : p \in AI!Reserved(u)' <=> p \in AIRequests /\ aiReq'[p].usr = u /\ aiReq'[p].consumed
  BY DEF AI!Reserved
<1>4. ASSUME Untouched(r) \/ (aiReq[r].usr # u /\ (Taken(r) \/ GivenBack(r)))
      PROVE  AI!Reserved(u)' = AI!Reserved(u)
  <2>1. aiReq'[r].usr = u /\ aiReq'[r].consumed <=> aiReq[r].usr = u /\ aiReq[r].consumed
    BY <1>4 DEF Untouched, Taken, GivenBack
  <2> QED
    BY <1>0, <1>2, <1>3, <2>1
<1>5. ASSUME Taken(r), aiReq[r].usr = u
      PROVE  Cardinality(AI!Reserved(u)') = Cardinality(AI!Reserved(u)) + 1
  <2>1. r \notin AI!Reserved(u) /\ AI!Reserved(u)' = AI!Reserved(u) \cup {r}
    BY <1>0, <1>2, <1>3, <1>5 DEF Taken
  <2> QED
    BY <1>1, <2>1, FS_AddElement
<1>6. ASSUME GivenBack(r), aiReq[r].usr = u
      PROVE  Cardinality(AI!Reserved(u)')
               = IF aiReq[r].consumed THEN Cardinality(AI!Reserved(u)) - 1 ELSE Cardinality(AI!Reserved(u))
  <2>1. AI!Reserved(u)' = AI!Reserved(u) \ {r} /\ (r \in AI!Reserved(u) <=> aiReq[r].consumed)
    BY <1>0, <1>2, <1>3, <1>6 DEF GivenBack
  <2> QED
    BY <1>1, <2>1, FS_RemoveElement
<1> QED
  BY <1>0, <1>4, <1>5, <1>6

\* A step changes the count of a user by what it reserves or gives back.
LEMMA CountStep ==
  ASSUME AI!QuotaAssumption, QuotaInv, NEW r \in AIRequests, AI!Arrive(r) \/ AI!RouteStep(r) \/ AI!Crash(r),
         NEW u \in AIUsers, NEW k \in Int, aiReq[r].consumed \/ aiReq'[r].consumed,
         aiReq'[r].usr = aiReq[r].usr,
         Moved(followUpCount, followUpCount', aiReq[r].usr, day, k)
  PROVE  AI!FollowUpsOf(u)' = AI!FollowUpsOf(u) + (IF aiReq[r].usr = u THEN k ELSE 0)
<1>0. MaxDay \in Nat
  BY DEF AI!QuotaAssumption
<1>1. /\ followUpCount \in [AI!UserDays -> Int] /\ followUpCount' \in [AI!UserDays -> Int]
      /\ day \in 0..MaxDay
  BY TypeKept DEF QuotaInv, AI!TypeOK
<1>2. aiReq[r].usr \in AIUsers
  <2>1. Charged(aiReq[r]) /\ Charged(aiReq'[r])
    BY ChargedKept DEF QuotaInv, ChargedInv
  <2>2. ASSUME NEW q, Charged(q), q.consumed PROVE q.usr \in AIUsers
    BY <2>2 DEF Charged, AI!Idle
  <2> QED
    BY <2>1, <2>2
<1>3. Counted(followUpCount', u) = Counted(followUpCount, u) + (IF u = aiReq[r].usr THEN k ELSE 0)
  BY <1>0, <1>1, <1>2, CountedOnce
<1> QED
  BY <1>3 DEF AI!FollowUpsOf, Counted

LEMMA CountTyped ==
  ASSUME AI!QuotaAssumption, AI!TypeOK, NEW u \in AIUsers
  PROVE  AI!FollowUpsOf(u) \in Int
<1>1. MaxDay \in Nat /\ followUpCount \in [AI!UserDays -> Int] /\ MaxDay \in 0..MaxDay
  BY DEF AI!QuotaAssumption, AI!TypeOK
<1>2. Counted(followUpCount, u) \in Int
  BY <1>1, CountedIs
<1> QED
  BY <1>2 DEF AI!FollowUpsOf, Counted

LEMMA AccountedKept ==
  ASSUME AI!QuotaAssumption, FollowUpInv, NEW r \in AIRequests, AI!Arrive(r) \/ AI!RouteStep(r) \/ AI!Crash(r)
  PROVE  AI!FollowUpsAccounted'
<1>0. /\ QuotaInv /\ CountedToday /\ day' = day
      /\ aiReq[r].lost => aiReq'[r].lost
      /\ Untouched(r) \/ Taken(r) \/ GivenBack(r)
      /\ \A p \in AIRequests : p # r => aiReq'[p] = aiReq[p]
  BY Reserving, MovesAlone DEF FollowUpInv
<1> DEFINE Lost == \E p \in AIRequests : aiReq[p].lost
           LostNow == \E p \in AIRequests : aiReq'[p].lost
<1>1. Lost => LostNow
  BY <1>0
<1> SUFFICES ASSUME NEW u \in AIUsers
             PROVE  /\ AI!FollowUpsOf(u)' >= Cardinality(AI!Reserved(u)')
                    /\ day' = 0 /\ ~LostNow => AI!FollowUpsOf(u)' = Cardinality(AI!Reserved(u)')
  BY QuotaSizes DEF AI!FollowUpsAccounted
<1> DEFINE n == Cardinality(AI!Reserved(u))
           m == Cardinality(AI!Reserved(u)')
           f == AI!FollowUpsOf(u)
           g == AI!FollowUpsOf(u)'
<1>2. /\ n \in Nat /\ f \in Int
      /\ f >= n
      /\ day = 0 /\ ~Lost => f = n
  BY ReservedSizes, CountTyped DEF FollowUpInv, QuotaInv, AI!FollowUpsAccounted
<1>3. /\ Untouched(r) \/ aiReq[r].usr # u => m = n
      /\ Taken(r) /\ aiReq[r].usr = u => m = n + 1
      /\ GivenBack(r) /\ aiReq[r].usr = u => m = IF aiReq[r].consumed THEN n - 1 ELSE n
  BY <1>0, ReservedStep
<1>4. followUpCount' = followUpCount => g = f
  BY DEF AI!FollowUpsOf
<1> HIDE DEF n, m, f, g
<1> SUFFICES g >= m /\ (day' = 0 /\ ~LostNow => g = m)
  BY DEF m, g
<1>5. CASE Untouched(r)
  BY <1>0, <1>1, <1>2, <1>3, <1>4, <1>5 DEF Untouched
<1>6. CASE Taken(r)
  <2>1. g = f + (IF aiReq[r].usr = u THEN 1 ELSE 0)
    <3>1. Moved(followUpCount, followUpCount', aiReq[r].usr, day, 1)
      BY <1>6 DEF Taken, Moved, AI!Today
    <3>2. aiReq'[r].consumed /\ aiReq'[r].usr = aiReq[r].usr
      BY <1>6 DEF Taken
    <3> QED
      BY <1>0, <3>1, <3>2, CountStep DEF f, g
  <2> QED
    BY <1>0, <1>1, <1>2, <1>3, <1>6, <2>1
<1>7. CASE /\ GivenBack(r) /\ aiReq[r].consumed
           /\ followUpCount' = [followUpCount EXCEPT ![AI!Today(r)] = @ - 1]
  <2>1. aiReq[r].consumed /\ aiReq'[r].usr = aiReq[r].usr
        /\ followUpCount' = [followUpCount EXCEPT ![AI!Today(r)] = @ - 1]
    BY <1>7 DEF GivenBack
  <2>2. Moved(followUpCount, followUpCount', aiReq[r].usr, day, -1)
    <3>1. followUpCount \in [AI!UserDays -> Int]
      BY <1>0 DEF QuotaInv, AI!TypeOK
    <3>2. LET p == <<aiReq[r].usr, day>>
          IN p \in AI!UserDays => followUpCount[p] - 1 = followUpCount[p] + (-1)
      BY <3>1
    <3> QED
      BY <2>1, <3>1, <3>2 DEF Moved, AI!Today
  <2>3. g = f + (IF aiReq[r].usr = u THEN -1 ELSE 0)
    <3>1. -1 \in Int
      OBVIOUS
    <3> QED
      BY <1>0, <2>1, <2>2, <3>1, CountStep DEF f, g
  <2> QED
    BY <1>0, <1>1, <1>2, <1>3, <1>7, <2>1, <2>3
<1>8. CASE /\ GivenBack(r) /\ followUpCount' = followUpCount
           /\ aiReq[r].consumed => aiReq'[r].lost \/ AI!Today(r) \notin rows
  <2>1. aiReq[r].consumed /\ day = 0 => AI!Today(r) \in rows
    BY <1>0 DEF CountedToday, AI!Today
  <2>2. g = f /\ (day' = 0 /\ ~LostNow => ~aiReq[r].consumed /\ day = 0 /\ ~Lost)
    <3>1. aiReq'[r].lost => LostNow
      OBVIOUS
    <3> HIDE DEF Lost, LostNow
    <3> QED
      BY <1>0, <1>1, <1>4, <1>8, <2>1, <3>1
  <2>3. m = n \/ (m = n - 1 /\ aiReq[r].consumed)
    BY <1>3, <1>8
  <2> QED
    BY <1>2, <2>2, <2>3
<1> QED
  BY <1>0, <1>5, <1>6, <1>7, <1>8 DEF GivenBack

LEMMA FollowUpsInitially ==
  ASSUME AI!QuotaAssumption, AI!Init
  PROVE  FollowUpInv
<1>1. QuotaInv /\ MaxDay \in Nat
  BY QuotaInit DEF AI!QuotaAssumption
<1>2. CountedToday /\ \A r \in AIRequests : ~aiReq[r].consumed
  BY DEF AI!Init, AI!Idle, CountedToday
<1>3. ASSUME NEW u \in AIUsers PROVE AI!FollowUpsOf(u) = 0 /\ Cardinality(AI!Reserved(u)) = 0
  <2>1. followUpCount \in [AI!UserDays -> Int] /\ \A d \in 0..MaxDay : followUpCount[<<u, d>>] = 0
    BY DEF AI!Init, AI!UserDays
  <2>2. PICK s \in [0..MaxDay -> Int] :
          (\A d \in 0..MaxDay : Adds(s, followUpCount, u, d)) /\ Counted(followUpCount, u) = s[MaxDay]
    BY <1>1, <2>1, CountedIs
  <2> DEFINE G == {d \in 0..MaxDay : s[d] = 0}
  <2>3. ASSUME NEW d \in 0..MaxDay, \A e \in 0..MaxDay : e < d => e \in G PROVE d \in G
    <3>1. CASE d = 0
      <4>1. s[d] = followUpCount[<<u, d>>] + 0
        BY <2>2, <3>1 DEF Adds
      <4>2. s[d] = 0
        BY <2>1, <4>1
      <4> QED
        BY <4>2
    <3>2. CASE d # 0
      <4>1. d - 1 \in 0..MaxDay /\ d - 1 < d
        BY <1>1, <3>2
      <4>2. s[d - 1] = 0
        BY <2>3, <4>1
      <4>3. s[d] = followUpCount[<<u, d>>] + s[d - 1]
        BY <2>2, <3>2 DEF Adds
      <4> QED
        BY <2>1, <4>2, <4>3
    <3> QED
      BY <3>1, <3>2
  <2>4. G = 0..MaxDay
    <3> HIDE DEF G
    <3>1. G \in SUBSET (0..MaxDay)
      BY DEF G
    <3> QED
      BY <1>1, <2>3, <3>1, EveryDay
  <2>5. s[MaxDay] = 0
    BY <1>1, <2>4
  <2>6. AI!Reserved(u) = {}
    BY <1>2 DEF AI!Reserved
  <2> QED
    BY <2>2, <2>5, <2>6, FS_EmptySet DEF AI!FollowUpsOf, Counted
<1> QED
  BY <1>1, <1>2, <1>3, QuotaSizes DEF FollowUpInv, AI!FollowUpsAccounted

LEMMA FollowUpsInductive ==
  ASSUME AI!QuotaAssumption, FollowUpInv, [AI!Next]_AI!vars
  PROVE  FollowUpInv'
<1>0. QuotaInv'
  BY QuotaInductive DEF FollowUpInv
<1>1. CASE \E r \in AIRequests : AI!Arrive(r) \/ AI!RouteStep(r) \/ AI!Crash(r)
  BY <1>0, <1>1, CountedTodayKept, AccountedKept DEF FollowUpInv
<1>2. CASE AI!Midnight \/ UNCHANGED AI!vars
  <2>1. UNCHANGED <<rows, followUpCount, aiReq>> /\ (day' = 0 => day = 0)
    BY <1>2 DEF AI!Midnight, AI!vars, AI!usage, FollowUpInv, QuotaInv, AI!TypeOK
  <2>2. \A u : AI!FollowUpsOf(u)' = AI!FollowUpsOf(u) /\ AI!Reserved(u)' = AI!Reserved(u)
    BY <2>1 DEF AI!FollowUpsOf, AI!Reserved
  <2>3. AI!FollowUpsAccounted'
    BY <2>1, <2>2 DEF FollowUpInv, AI!FollowUpsAccounted
  <2> QED
    BY <1>0, <2>1, <2>3 DEF FollowUpInv, CountedToday
<1> QED
  BY <1>1, <1>2 DEF AI!Next

\* The follow-up counters cover every reservation that was not given back, and
\* nothing else until a refund fails or misses its row at midnight.
THEOREM FollowUpsCovered ==
  ASSUME AI!QuotaAssumption
  PROVE  AI!Spec => []AI!FollowUpsAccounted
<1>1. FollowUpInv => AI!FollowUpsAccounted
  BY DEF FollowUpInv
<1> QED
  BY <1>1, FollowUpsInitially, FollowUpsInductive, PTL DEF AI!Spec

-----------------------------------------------------------------------------
(* Both in one run                                                         *)

LEMMA QuotaInRun == SpecMC => AI!Spec
<1>1. InitMC => AI!Init
  BY DEF InitMC
<1>2. [NextMC]_<<vars, aiVars, part>> => [AI!Next]_AI!vars
  BY DEF NextMC, aiVars, AI!vars, AI!usage, AI!history
<1> QED
  BY <1>1, <1>2, PTL DEF SpecMC, AI!Spec

\* What a client saw decides what it pays, in every run of the quota.
THEOREM RunCharges == SpecMC => []ChargedAsAnswered
<1>1. AI!ChargedAsAnswered => ChargedAsAnswered
  BY DEF ChargedAsAnswered
<1>2. AI!Spec => []AI!ChargedAsAnswered
  BY QuotasAssumption, AnswersAreCharged
<1> QED
  BY <1>1, <1>2, QuotaInRun, PTL

\* The cache serves nothing that was broken off, empty or unpaid.
THEOREM RunCaches == SpecMC => []CacheSound
<1>1. AI!TypeOK /\ AI!CacheIsWhole => CacheSound
  BY DEF CacheSound
<1>2. AI!Spec => []AI!TypeOK
  BY QuotasAssumption, QuotaTyped
<1>3. AI!Spec => []AI!CacheIsWhole
  BY QuotasAssumption, CacheAlwaysWhole
<1> QED
  BY <1>1, <1>2, <1>3, QuotaInRun, PTL

\* A question is taken back when it fails before its first token, and the
\* follow-up counter covers exactly the questions kept, in every run of the quota.
THEOREM RunFollowUps == SpecMC => []FollowUpsSound
<1>1. AI!FollowUpsAccounted /\ AI!NoTurnToRepeat => FollowUpsSound
  BY DEF FollowUpsSound
<1>2. AI!Spec => []AI!FollowUpsAccounted
  BY QuotasAssumption, FollowUpsCovered
<1>3. AI!Spec => []AI!NoTurnToRepeat
  BY QuotasAssumption, NothingToRepeat
<1> QED
  BY <1>1, <1>2, <1>3, QuotaInRun, PTL
=============================================================================
