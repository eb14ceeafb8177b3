----------------------------- MODULE QuotasMC -------------------------------
(***************************************************************************)
(* What a plan limits, in one run: the accounts a user follows ("follow")  *)
(* and the answers of the AI ("quota").  They share no state: part says    *)
(* which one a behaviour runs, the other stays as it began.                *)
(***************************************************************************)
EXTENDS FollowToggle, TLC

CONSTANTS AIUsers, AIRequests, Hashes, NoHash, Kinds, Limit, FollowUpLimit, MaxDay

VARIABLES part,
          day, rows, interpretationCount, followUpCount, cached, turns, answers, aiReq

AI == INSTANCE AIQuota WITH Users <- AIUsers, Requests <- AIRequests, req <- aiReq

ASSUME QuotasAssumption == AI!QuotaAssumption

aiVars == <<day, rows, interpretationCount, followUpCount, cached, turns, answers, aiReq>>

InitMC == part \in {"follow", "quota"} /\ Init /\ AI!Init

NextMC == /\ \/ part = "follow" /\ Next /\ UNCHANGED aiVars
             \/ part = "quota" /\ AI!Next /\ UNCHANGED vars
          /\ UNCHANGED part

SpecMC == InitMC /\ [][NextMC]_<<vars, aiVars, part>>

\* AIRequests and AIUsers are the same model values as Users and Requests: a name
\* means nothing, and so one symmetry serves both parts.
Symmetry == Permutations(Users) \cup Permutations(Requests)

-----------------------------------------------------------------------------
(* What the client saw decides what it pays, interpretation or follow-up.   *)
ChargedAsAnswered == part = "quota" => AI!ChargedAsAnswered

(* A request takes its question back when it fails before its first token,  *)
(* and a refund its unit, so that the follow-up counter covers exactly the  *)
(* questions kept.                                                          *)
FollowUpsSound == part = "quota" => AI!FollowUpsAccounted /\ AI!NoTurnToRepeat

(* What the cache serves was streamed to its end and charged to its owner.  *)
CacheSound == part = "quota" => AI!TypeOK /\ AI!CacheIsWhole
=============================================================================
