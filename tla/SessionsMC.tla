----------------------------- MODULE SessionsMC -----------------------------
(***************************************************************************)
(* Both ends of a session in one run: the server's refresh sessions and    *)
(* token versions ("server"), and the page that caches an access token,    *)
(* refreshes it and logs out ("page").  TokenService lets any request      *)
(* arrive, ClientSession has its own account of the server: part says      *)
(* which one a behaviour runs, the other stays as it began.                *)
(***************************************************************************)
EXTENDS TokenService, TLC

CONSTANTS PageUsers, PageRequests, Lookups, NoLookup, Unverified, MaxToken

VARIABLES part,
          pageIssued, owner, family, spent, pageExpired, refreshCookie, sessionCookie,
          cached, lookup, sessionPromise, refresh, call, storeWaits, loginSent, user,
          rotated, ended

Page == INSTANCE ClientSession WITH Users <- PageUsers, Requests <- PageRequests,
                                    issued <- pageIssued, expired <- pageExpired

ASSUME PageAssumption == Page!SessionAssumption

pageVars == <<pageIssued, owner, family, spent, pageExpired, refreshCookie, sessionCookie,
              cached, lookup, sessionPromise, refresh, call, storeWaits, loginSent, user,
              rotated, ended>>

InitMC == part \in {"server", "page"} /\ Init /\ Page!Init

NextMC == /\ \/ part = "server" /\ Next /\ UNCHANGED pageVars
             \/ part = "page" /\ Page!Next /\ UNCHANGED vars
          /\ UNCHANGED part

SpecMC == InitMC /\ [][NextMC]_<<vars, pageVars, part>>

\* The lookups of the page are given the values of the requests of the server,
\* so that one set of permutations serves both.
Symmetry == Permutations(Sessions) \cup Permutations(Requests)

-----------------------------------------------------------------------------
(* The page shows a rotated refresh token only if its answer was lost, no   *)
(* lookup, refresh or login brings a user back after a full logout, and     *)
(* the store waits for no refresh that is over.                             *)
PageSound ==
  part = "page" => Page!ShownOnce /\ Page!LogoutSticks /\ Page!StoreWaitsInFlight

(* Only the answer of a refresh replaces a token in the cache.              *)
RefreshWins == Page!RefreshWins
=============================================================================
