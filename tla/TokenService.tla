---------------------------- MODULE TokenService ----------------------------
(***************************************************************************)
(* src/services/token-service.ts with the account-service and the auth     *)
(* routes that drive it: refresh sessions (rotation with reuse detection), *)
(* the token version of an account, and its mirror in Redis.               *)
(*                                                                         *)
(* Requests of different clients interleave at every await.  A statement   *)
(* runs under Postgres READ COMMITTED: updateMany sees the rows committed  *)
(* when it starts (Snapshot), waits for the rows another transaction has   *)
(* updated (Locked), and never sees a row inserted in the meantime.        *)
(* A step may fail, or the server stop, at any await (Fail).               *)
(***************************************************************************)
EXTENDS Naturals, FiniteSets

CONSTANTS Users,       \* accounts
          Sessions,    \* identities of Session rows, issued once each
          Requests,    \* HTTP requests the server handles at the same time
          NoUser, NoSession, NoVersion,
          MaxVersion   \* bound: no request that bumps beyond it is submitted

ASSUME SentinelAssumption == /\ NoUser \notin Users
                             /\ NoSession \notin Sessions
                             /\ NoVersion \notin Nat

VARIABLES rows,        \* ids of the Session rows in the database
          familyOf,    \* Session.familyId: the id of the family's first row
          ownerOf,     \* Session.userId
          replacedBy,  \* Session.replacedByTokenId
          revoked,     \* rows with revokedAt set
          expired,     \* rows whose expiresAt has passed
          active,      \* isActive /\ deletedAt = null
          version,     \* User.tokenVersion
          mirror,      \* Redis auth:tokenVersion:{userId}
          issued,      \* access tokens signed so far claim versions below this
          req          \* the handlers in progress

sessionVars == <<rows, familyOf, ownerOf, replacedBy, revoked, expired>>
accountVars == <<active, version>>
tokenVars   == <<mirror, issued>>
vars == <<sessionVars, accountVars, tokenVars, req>>

Steps == {"idle",
          "readUser", "signRotate", "rotate", "rotating",      \* rotateRefresh
          "revokeFamily", "revokingFamily",
          "signLogin", "create",                               \* login
          "logoutUpdate",                                      \* logout
          "loggingOutAll", "deleting",                         \* all sessions
          "mirrorRead", "mirrorSet"}                           \* mirrorTokenVersion

Handler == [pc : Steps, usr : Users \cup {NoUser},
            tok : Sessions \cup {NoSession},  \* row the handler works on
            seen : Nat,                       \* token version it has read
            snap : SUBSET Sessions]           \* rows its updateMany selected

Idle == [pc |-> "idle", usr |-> NoUser, tok |-> NoSession,
         seen |-> 0, snap |-> {}]

TypeOK ==
  /\ rows \subseteq Sessions
  /\ familyOf \in [Sessions -> Sessions]
  /\ ownerOf \in [Sessions -> Users \cup {NoUser}]
  /\ replacedBy \in [Sessions -> Sessions \cup {NoSession}]
  /\ revoked \subseteq Sessions
  /\ expired \subseteq Sessions
  /\ active \in [Users -> BOOLEAN]
  /\ version \in [Users -> Nat]
  /\ mirror \in [Users -> Nat \cup {NoVersion}]
  /\ issued \in [Users -> Nat]
  /\ req \in [Requests -> Handler]

Init ==
  /\ rows = {}
  /\ familyOf = [s \in Sessions |-> s]
  /\ ownerOf = [s \in Sessions |-> NoUser]
  /\ replacedBy = [s \in Sessions |-> NoSession]
  /\ revoked = {}
  /\ expired = {}
  /\ active = [u \in Users |-> TRUE]
  /\ version = [u \in Users |-> 0]
  /\ mirror = [u \in Users |-> NoVersion]
  /\ issued = [u \in Users |-> 0]
  /\ req = [r \in Requests |-> Idle]

-----------------------------------------------------------------------------
At(r, step) == req[r].pc = step
Goto(r, step) == req' = [req EXCEPT ![r].pc = step]
Finish(r) == req' = [req EXCEPT ![r] = Idle]
Handle(r, step, u, s, v, F) ==
  req' = [req EXCEPT ![r] = [pc |-> step, usr |-> u, tok |-> s, seen |-> v, snap |-> F]]

Live(s) == s \in rows \ revoked
Family(s) == {t \in rows : familyOf[t] = familyOf[s]}
SessionsOf(u) == {t \in rows : ownerOf[t] = u}

\* Mutant: the row is taken FOR UPDATE before the conditional update as well.
LockedFromTheRead(s) ==
  \E r \in Requests : req[r].pc \in {"rotate", "rotating"} /\ req[r].tok = s

\* A rotation whose conditional update matched holds the row until it commits.
Locked(s) == \E r \in Requests : At(r, "rotating") /\ req[r].tok = s

\* Bounds of the model: room for the rows and versions of admitted requests.
Inserting == {r \in Requests : req[r].pc \in
                {"readUser", "signRotate", "rotate", "rotating", "signLogin", "create"}}
RowsLeft == Cardinality(rows) + Cardinality(Inserting) < Cardinality(Sessions)
Bumping(u) == {r \in Requests : /\ req[r].pc \in {"loggingOutAll", "deleting"}
                                /\ req[r].usr = u}
VersionsLeft(u) == version[u] + Cardinality(Bumping(u)) < MaxVersion

-----------------------------------------------------------------------------
(* rotateRefresh: POST /auth/refresh with the token of row s.  The replies  *)
(* to a token that is unknown, expired, or revoked without a successor      *)
(* change nothing and are left out.                                         *)

RefreshFind(r, s) ==
  /\ At(r, "idle") /\ s \in rows
  /\ \/ /\ replacedBy[s] # NoSession          \* reuse, tested before revokedAt
        /\ Handle(r, "revokeFamily", ownerOf[s], s, 0, {})
     \/ /\ replacedBy[s] = NoSession
        /\ s \notin revoked \cup expired
        /\ RowsLeft
        /\ Handle(r, "readUser", ownerOf[s], s, 0, {})
  /\ UNCHANGED <<sessionVars, accountVars, tokenVars>>

RefreshReadUser(r) ==
  /\ At(r, "readUser")
  /\ LET u == req[r].usr IN
       IF active[u] THEN Handle(r, "signRotate", u, req[r].tok, version[u], {})
                    ELSE Finish(r)
  /\ UNCHANGED <<sessionVars, accountVars, tokenVars>>

\* signAccessToken, then SET NX of the mirror; a Redis failure is swallowed.
SignAccessToken(r, step, next) ==
  LET u == req[r].usr
      v == req[r].seen IN
  /\ At(r, step)
  /\ issued' = [issued EXCEPT ![u] = IF @ > v THEN @ ELSE v + 1]
  /\ \/ mirror' = [mirror EXCEPT ![u] = IF @ = NoVersion THEN v ELSE @]
     \/ UNCHANGED mirror
  /\ Goto(r, next)
  /\ UNCHANGED <<sessionVars, accountVars>>

\* Mutant: the conditional update no longer tests replacedByTokenId and revokedAt.
RotateClaimUnconditional(r) ==
  /\ At(r, "rotate") /\ ~Locked(req[r].tok)
  /\ Goto(r, "rotating")
  /\ UNCHANGED <<sessionVars, accountVars, tokenVars>>

\* Mutant: the conditional update tests the successor only.
RotateClaimRevoked(r) ==
  LET s == req[r].tok IN
  /\ At(r, "rotate") /\ ~Locked(s)
  /\ IF s \in rows \ expired /\ replacedBy[s] = NoSession
       THEN Goto(r, "rotating")
       ELSE Goto(r, "revokeFamily")
  /\ UNCHANGED <<sessionVars, accountVars, tokenVars>>

\* The conditional updateMany, once no other transaction holds the row.
RotateClaim(r) ==
  LET s == req[r].tok IN
  /\ At(r, "rotate") /\ ~Locked(s)
  /\ IF Live(s) /\ replacedBy[s] = NoSession /\ s \notin expired
       THEN Goto(r, "rotating")
       ELSE Goto(r, "revokeFamily")
  /\ UNCHANGED <<sessionVars, accountVars, tokenVars>>

\* Mutant: the update of the old row sets replacedByTokenId, not revokedAt.
RotateCommitUnrevoked(r) ==
  LET s == req[r].tok IN
  /\ At(r, "rotating")
  /\ \E n \in Sessions \ rows :
       /\ rows' = rows \cup {n}
       /\ familyOf' = [familyOf EXCEPT ![n] = familyOf[s]]
       /\ ownerOf' = [ownerOf EXCEPT ![n] = req[r].usr]
       /\ replacedBy' = [replacedBy EXCEPT ![s] = n]
  /\ Finish(r)
  /\ UNCHANGED <<revoked, expired, accountVars, tokenVars>>

\* The rest of the transaction: insert the successor and commit both writes.
RotateCommit(r) ==
  LET s == req[r].tok IN
  /\ At(r, "rotating")
  /\ \E n \in Sessions \ rows :
       /\ rows' = rows \cup {n}
       /\ familyOf' = [familyOf EXCEPT ![n] = familyOf[s]]
       /\ ownerOf' = [ownerOf EXCEPT ![n] = req[r].usr]
       /\ replacedBy' = [replacedBy EXCEPT ![s] = n]
       /\ revoked' = revoked \cup {s}
  /\ Finish(r)
  /\ UNCHANGED <<expired, accountVars, tokenVars>>

RevokeFamilyBegin(r) ==
  /\ At(r, "revokeFamily")
  /\ LET s == req[r].tok IN Handle(r, "revokingFamily", req[r].usr, s, 0, Family(s))
  /\ UNCHANGED <<sessionVars, accountVars, tokenVars>>

RevokeFamilyEnd(r) ==
  /\ At(r, "revokingFamily")
  /\ \A s \in req[r].snap : ~Locked(s)
  /\ revoked' = revoked \cup req[r].snap
  /\ Finish(r)
  /\ UNCHANGED <<rows, familyOf, ownerOf, replacedBy, expired, accountVars, tokenVars>>

-----------------------------------------------------------------------------
(* A login (password, magic link, OAuth): read the account, sign the access *)
(* token, then createRefreshSession opens a family of its own.              *)

LoginRead(r, u) ==
  /\ At(r, "idle") /\ active[u] /\ RowsLeft
  /\ Handle(r, "signLogin", u, NoSession, version[u], {})
  /\ UNCHANGED <<sessionVars, accountVars, tokenVars>>

CreateRefreshSession(r) ==
  /\ At(r, "create")
  /\ \E n \in Sessions \ rows :
       /\ rows' = rows \cup {n}
       /\ familyOf' = [familyOf EXCEPT ![n] = n]
       /\ ownerOf' = [ownerOf EXCEPT ![n] = req[r].usr]
  /\ Finish(r)
  /\ UNCHANGED <<replacedBy, revoked, expired, accountVars, tokenVars>>

-----------------------------------------------------------------------------
(* revokeRefreshSession: logout on one device, with the cookie's token s.   *)

LogoutFind(r, s) ==
  /\ At(r, "idle") /\ Live(s)
  /\ Handle(r, "logoutUpdate", ownerOf[s], s, 0, {})
  /\ UNCHANGED <<sessionVars, accountVars, tokenVars>>

LogoutUpdate(r) ==
  /\ At(r, "logoutUpdate") /\ ~Locked(req[r].tok)
  /\ revoked' = revoked \cup {req[r].tok}
  /\ Finish(r)
  /\ UNCHANGED <<rows, familyOf, ownerOf, replacedBy, expired, accountVars, tokenVars>>

(* revokeAllSessions (step "loggingOutAll") and softDeleteAccount           *)
(* ("deleting") are one transaction each: the updateMany over the user's    *)
(* sessions, the update of the user, the commit; then the mirror.           *)

RevokeAllBegin(r, u, step) ==
  /\ At(r, "idle") /\ VersionsLeft(u)
  /\ Handle(r, step, u, NoSession, 0, SessionsOf(u))
  /\ UNCHANGED <<sessionVars, accountVars, tokenVars>>

\* Mutant: softDeleteAccount leaves tokenVersion alone.
RevokeAllCommitUnbumped(r) ==
  LET u == req[r].usr IN
  /\ req[r].pc \in {"loggingOutAll", "deleting"}
  /\ \A s \in req[r].snap : ~Locked(s)
  /\ revoked' = revoked \cup req[r].snap
  /\ version' = [version EXCEPT ![u] = IF At(r, "deleting") THEN @ ELSE @ + 1]
  /\ active' = [active EXCEPT ![u] = @ /\ At(r, "loggingOutAll")]
  /\ Handle(r, "mirrorRead", u, NoSession, 0, {})
  /\ UNCHANGED <<rows, familyOf, ownerOf, replacedBy, expired, tokenVars>>

RevokeAllCommit(r) ==
  LET u == req[r].usr IN
  /\ req[r].pc \in {"loggingOutAll", "deleting"}
  /\ \A s \in req[r].snap : ~Locked(s)
  /\ revoked' = revoked \cup req[r].snap
  /\ version' = [version EXCEPT ![u] = @ + 1]
  /\ active' = [active EXCEPT ![u] = @ /\ At(r, "loggingOutAll")]
  /\ Handle(r, "mirrorRead", u, NoSession, 0, {})
  /\ UNCHANGED <<rows, familyOf, ownerOf, replacedBy, expired, tokenVars>>

\* bumpTokenVersion, called when an e-mail address is verified.
BumpTokenVersion(r, u) ==
  /\ At(r, "idle") /\ VersionsLeft(u)
  /\ version' = [version EXCEPT ![u] = @ + 1]
  /\ Handle(r, "mirrorRead", u, NoSession, 0, {})
  /\ UNCHANGED <<sessionVars, active, tokenVars>>

\* restoreAccount: the conditional update repeats every test made before it.
RestoreAccount(r, u) ==
  /\ At(r, "idle") /\ ~active[u] /\ VersionsLeft(u)
  /\ active' = [active EXCEPT ![u] = TRUE]
  /\ version' = [version EXCEPT ![u] = @ + 1]
  /\ Handle(r, "mirrorRead", u, NoSession, 0, {})
  /\ UNCHANGED <<sessionVars, tokenVars>>

\* Mutant: the bumped value is computed here instead of read.
MirrorReadPlusOne(r) ==
  /\ At(r, "mirrorRead")
  /\ LET u == req[r].usr IN Handle(r, "mirrorSet", u, NoSession, version[u] + 1, {})
  /\ UNCHANGED <<sessionVars, accountVars, tokenVars>>

\* Mutant: the bumped value is read back from the mirror.
MirrorReadCached(r) ==
  /\ At(r, "mirrorRead")
  /\ LET u == req[r].usr IN Handle(r, "mirrorSet", u, NoSession, mirror[u], {})
  /\ UNCHANGED <<sessionVars, accountVars, tokenVars>>

\* mirrorTokenVersion: read the version again, then SET; two awaits.
MirrorRead(r) ==
  /\ At(r, "mirrorRead")
  /\ LET u == req[r].usr IN Handle(r, "mirrorSet", u, NoSession, version[u], {})
  /\ UNCHANGED <<sessionVars, accountVars, tokenVars>>

MirrorSet(r) ==
  /\ At(r, "mirrorSet")
  /\ mirror' = [mirror EXCEPT ![req[r].usr] = req[r].seen]
  /\ Finish(r)
  /\ UNCHANGED <<sessionVars, accountVars, issued>>

-----------------------------------------------------------------------------
\* An await rejects (500), the process stops, or Redis fails in the mirror:
\* an open transaction rolls back and the rest of the handler is not run.
Fail(r) ==
  /\ ~At(r, "idle")
  /\ Finish(r)
  /\ UNCHANGED <<sessionVars, accountVars, tokenVars>>

\* Mutant: the key is SET without EX.
MirrorStays(u) == mirror[u] # NoVersion /\ UNCHANGED vars

\* The key's EX elapses, or Redis is flushed.
MirrorExpires(u) ==
  /\ mirror[u] # NoVersion
  /\ mirror' = [mirror EXCEPT ![u] = NoVersion]
  /\ UNCHANGED <<sessionVars, accountVars, issued, req>>

SessionExpires(s) ==
  /\ s \in rows \ expired
  /\ expired' = expired \cup {s}
  /\ UNCHANGED <<rows, familyOf, ownerOf, replacedBy, revoked, accountVars,
                 tokenVars, req>>

\* The server's own next step of a handler.
HandlerStep(r) ==
  \/ RefreshReadUser(r)
  \/ SignAccessToken(r, "signRotate", "rotate")
  \/ SignAccessToken(r, "signLogin", "create")
  \/ RotateClaim(r)
  \/ RotateCommit(r)
  \/ RevokeFamilyBegin(r)
  \/ RevokeFamilyEnd(r)
  \/ CreateRefreshSession(r)
  \/ LogoutUpdate(r)
  \/ RevokeAllCommit(r)
  \/ MirrorRead(r)
  \/ MirrorSet(r)

\* A client's request arrives.
Arrive(r) ==
  \/ \E s \in Sessions : RefreshFind(r, s) \/ LogoutFind(r, s)
  \/ \E u \in Users : \/ LoginRead(r, u)
                      \/ RevokeAllBegin(r, u, "loggingOutAll")
                      \/ RevokeAllBegin(r, u, "deleting")
                      \/ BumpTokenVersion(r, u)
                      \/ RestoreAccount(r, u)

Next ==
  \/ \E r \in Requests : Arrive(r) \/ HandlerStep(r) \/ Fail(r)
  \/ \E u \in Users : MirrorExpires(u)
  \/ \E s \in Sessions : SessionExpires(s)

Spec == Init /\ [][Next]_vars

\* The event loop runs every handler on, and Postgres grants a row to those
\* that wait for it in turn (strong fairness); Redis expires keys.  Clients
\* owe nothing, and nothing has to fail.
Fairness == /\ \A r \in Requests : SF_vars(HandlerStep(r))
            /\ \A u \in Users : WF_vars(MirrorExpires(u))

FairSpec == Spec /\ Fairness

-----------------------------------------------------------------------------
\* verifyAccessToken on a token of u that claims version v.
Accepts(u, v) == IF mirror[u] # NoVersion THEN mirror[u] = v
                                          ELSE version[u] = v /\ active[u]

(* A family of refresh tokens never holds two live rows, whatever refreshes *)
(* of the same token, logouts and revocations overlap (rotateRefresh's      *)
(* conditional update and the insert in its transaction).                   *)
OneLivePerFamily ==
  \A s, t \in Sessions : Live(s) /\ Live(t) /\ familyOf[s] = familyOf[t] => s = t

(* A refresh token is exchanged at most once, and what it was exchanged for *)
(* stays on record (reuse detection relies on replacedByTokenId).           *)
RotatedOnce ==
  [][\A s \in Sessions : replacedBy[s] # NoSession => replacedBy'[s] = replacedBy[s]]_vars

(* The table implements the abstract families: what reads, claims, inserts  *)
(* and revocations of overlapping requests do to a family is always one     *)
(* opening, one replacement of its only live token, or a final closing.     *)
Families == INSTANCE RefreshFamily
              WITH Tokens <- Sessions, used <- rows,
                   current <- [f \in Sessions |->
                                 {s \in Sessions : Live(s) /\ familyOf[s] = f}]
RefreshFamilies == Families!Spec

(* While an account is deleted no access token carries its current version: *)
(* with the bump of restoreAccount, none signed before a deletion is valid  *)
(* after the restoration, not even one signed by a handler that overlaps.   *)
DeletionOutdatesTokens ==
  \A u \in Users : ~active[u] => issued[u] <= version[u]

(* The mirror never runs ahead of the account it caches, in any order of    *)
(* overlapping sign-time warm-ups and mirrorTokenVersion calls.             *)
MirrorNeverAhead == \A u \in Users : mirror[u] # NoVersion => mirror[u] <= version[u]

(* The table, the versions and the mirror agree: the four facts above.      *)
TokensSound ==
  TypeOK /\ OneLivePerFamily /\ DeletionOutdatesTokens /\ MirrorNeverAhead

(* Every handler ends: the row waits of rotations and revocations never     *)
(* form a cycle.                                                            *)
RequestsEnd == \A r \in Requests : ~At(r, "idle") ~> At(r, "idle")

(* A token of an old version is, from some moment on, never accepted again, *)
(* although the mirror may be set late, out of order, or not at all.        *)
OldTokensDie ==
  \A u \in Users, v \in 0..(MaxVersion - 1) : version[u] > v ~> []~Accepts(u, v)

-----------------------------------------------------------------------------
(* docs/modules/auth.md:57 has the rotation's revalidation close the race   *)
(* of rotation and revocation.  When revokeAllSessions or softDeleteAccount *)
(* commits, a live row of the user would then be the first of its family:   *)
(* from a login, not from the rotation of a row it revoked.                 *)
RevokeAllBeatsRotation ==
  [][\A r \in Requests, s \in Sessions :
       /\ req[r].pc \in {"loggingOutAll", "deleting"}
       /\ req'[r].pc = "mirrorRead"
       /\ s \in rows /\ ownerOf[s] = req[r].usr /\ familyOf[s] # s
       => s \in revoked']_vars
=============================================================================
