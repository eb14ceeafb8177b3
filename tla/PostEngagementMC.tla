-------------------------- MODULE PostEngagementMC --------------------------
(***************************************************************************)
(* Two instances of PostEngagement in one run: "counters" is small enough  *)
(* for the liveness of the daily job, "threads" has a third account and    *)
(* replies, and no likes.  part says which one a behaviour runs.           *)
(***************************************************************************)
EXTENDS PostEngagement

CONSTANTS CounterUsers, CounterComments    \* bound: the accounts and comments of "counters"

VARIABLE part

\* What an instance leaves out.
Smaller ==
  /\ \A r \in Requests : req[r].usr \in CounterUsers \cup {NoUser}
  /\ erased \subseteq CounterUsers
  /\ \A c \in Comments \ CounterComments : status[c] = "none"

WithoutLikes == \A r \in Requests : req[r].pc \notin {"like", "unlike"}

Bounded ==
  /\ part = "counters" => Smaller
  /\ part = "threads" => WithoutLikes

InitMC == part \in {"counters", "threads"} /\ Init

NextMC == Next /\ UNCHANGED part /\ Bounded'

\* The fairness of PostEngagement!FairSpec.
SpecMC == /\ InitMC /\ [][NextMC]_<<vars, part>>
          /\ WF_vars(part = "counters" /\ Recount)
          /\ SF_vars(part = "counters" /\ RecountEnd)

(* Rewards are paid and notifications written once, and rows do not outlive *)
(* what they belong to, in either instance.                                 *)
RowsSound == TypeOK /\ RewardedAndNotedOnce /\ NoOrphans

(* CountersFollowRows, in either instance. *)
CountersMoveWithRows == [][DriftStays]_vars

(* CountersSettle, in the instance whose job is fair. *)
CountersEndExact == <>[]Quiet => <>[](part = "threads" \/ Exact)
=============================================================================
