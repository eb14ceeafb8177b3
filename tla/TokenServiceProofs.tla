------------------------- MODULE TokenServiceProofs -------------------------
(***************************************************************************)
(* What TokenService does for any number of accounts, sessions and         *)
(* overlapping requests, and the page that holds a session for any number  *)
(* of calls and lookups in flight and of tokens issued.                    *)
(***************************************************************************)
EXTENDS SessionsMC, TLAPS

\* The handler steps in which tok names a row, and those in which usr is set.
TokSteps == {"readUser", "signRotate", "rotate", "rotating", "revokeFamily",
             "revokingFamily", "logoutUpdate"}

\* The table: ids outside it are blank, families and owners are well-founded,
\* a replaced row is revoked.
TableInv ==
  /\ \A s \in Sessions \ rows :
       familyOf[s] = s /\ replacedBy[s] = NoSession /\ s \notin revoked
  /\ \A s \in rows : familyOf[s] \in rows /\ ownerOf[s] \in Users
  /\ \A s \in Sessions : replacedBy[s] # NoSession => s \in revoked

\* The handlers: what each remembers is in the table, and a rotation that holds
\* its row is alone in holding it and finds it unrevoked when it commits.
HandlerInv ==
  /\ \A r \in Requests :
       /\ ~At(r, "idle") => req[r].usr \in Users
       /\ req[r].pc \in TokSteps => req[r].tok \in rows
       /\ req[r].snap \subseteq rows
       /\ At(r, "rotating") => req[r].tok \notin revoked
  /\ \A q, r \in Requests :
       At(q, "rotating") /\ At(r, "rotating") /\ req[q].tok = req[r].tok => q = r

IInv == TypeOK /\ TableInv /\ HandlerInv /\ OneLivePerFamily

USE SentinelAssumption

LEMMA InitIInv == Init => IInv
  BY DEF Init, IInv, TypeOK, TableInv, HandlerInv, OneLivePerFamily, Live, At,
         Idle, Handler, Steps, TokSteps

\* Types survive a step because a handler past its first step names a user.
LEMMA TypeStep == TypeOK /\ HandlerInv /\ [Next]_vars => TypeOK'
<1> SUFFICES ASSUME TypeOK, HandlerInv, [Next]_vars PROVE TypeOK'
  OBVIOUS
<1> USE DEF TypeOK, HandlerInv, At, Goto, Handle, Finish, Idle, Handler, Steps,
            sessionVars, accountVars, tokenVars, TokSteps
<1>1. ASSUME NEW r \in Requests, Arrive(r) PROVE TypeOK'
  <2>1. ASSUME NEW s \in Sessions, RefreshFind(r, s) PROVE TypeOK'
    BY <2>1 DEF RefreshFind
  <2>2. ASSUME NEW s \in Sessions, LogoutFind(r, s) PROVE TypeOK'
    BY <2>2 DEF LogoutFind
  <2>3. ASSUME NEW u \in Users, LoginRead(r, u) PROVE TypeOK'
    BY <2>3 DEF LoginRead
  <2>4. ASSUME NEW u \in Users, NEW step \in {"loggingOutAll", "deleting"},
               RevokeAllBegin(r, u, step)
        PROVE TypeOK'
    BY <2>4 DEF RevokeAllBegin, SessionsOf
  <2>5. ASSUME NEW u \in Users, BumpTokenVersion(r, u) PROVE TypeOK'
    BY <2>5 DEF BumpTokenVersion
  <2>6. ASSUME NEW u \in Users, RestoreAccount(r, u) PROVE TypeOK'
    BY <2>6 DEF RestoreAccount
  <2> QED BY <1>1, <2>1, <2>2, <2>3, <2>4, <2>5, <2>6 DEF Arrive
<1>2. ASSUME NEW r \in Requests, HandlerStep(r) PROVE TypeOK'
  <2>1. CASE RefreshReadUser(r) BY <2>1 DEF RefreshReadUser
  <2>2. ASSUME NEW step \in {"signRotate", "signLogin"}, NEW next \in {"rotate", "create"},
               SignAccessToken(r, step, next)
        PROVE TypeOK'
    BY <2>2, SMTT(30) DEF SignAccessToken
  <2>3. CASE RotateClaim(r) BY <2>3 DEF RotateClaim
  <2>4. CASE RotateCommit(r) BY <2>4 DEF RotateCommit
  <2>5. CASE RevokeFamilyBegin(r) BY <2>5 DEF RevokeFamilyBegin, Family
  <2>6. CASE RevokeFamilyEnd(r) BY <2>6 DEF RevokeFamilyEnd
  <2>7. CASE CreateRefreshSession(r) BY <2>7 DEF CreateRefreshSession
  <2>8. CASE LogoutUpdate(r) BY <2>8 DEF LogoutUpdate
  <2>9. CASE RevokeAllCommit(r) BY <2>9 DEF RevokeAllCommit
  <2>10. CASE MirrorRead(r) BY <2>10 DEF MirrorRead
  <2>11. CASE MirrorSet(r) BY <2>11 DEF MirrorSet
  <2> QED BY <1>2, <2>1, <2>2, <2>3, <2>4, <2>5, <2>6, <2>7, <2>8, <2>9, <2>10, <2>11
             DEF HandlerStep
<1>3. ASSUME NEW r \in Requests, Fail(r) PROVE TypeOK'
  BY <1>3 DEF Fail
<1>4. ASSUME NEW u \in Users, MirrorExpires(u) PROVE TypeOK'
  BY <1>4 DEF MirrorExpires
<1>5. ASSUME NEW s \in Sessions, SessionExpires(s) PROVE TypeOK'
  BY <1>5 DEF SessionExpires
<1>6. CASE UNCHANGED vars
  BY <1>6 DEF vars
<1> QED BY <1>1, <1>2, <1>3, <1>4, <1>5, <1>6 DEF Next

\* What a step can do to the table: revoke rows that no rotation holds (or
\* none), commit one rotation, or open one family.
LEMMA TableSteps ==
  ASSUME IInv, [Next]_vars
  PROVE  \/ \E F \in SUBSET rows :
              /\ revoked' = revoked \cup F
              /\ \A s \in F : ~Locked(s)
              /\ UNCHANGED <<rows, familyOf, ownerOf, replacedBy>>
         \/ \E r \in Requests : RotateCommit(r)
         \/ \E r \in Requests : CreateRefreshSession(r)
<1> DEFINE Revoking(F) == /\ F \subseteq rows
                          /\ revoked' = revoked \cup F
                          /\ \A s \in F : ~Locked(s)
                          /\ UNCHANGED <<rows, familyOf, ownerOf, replacedBy>>
           Untouched == UNCHANGED <<rows, familyOf, ownerOf, replacedBy, revoked>>
<1> SUFFICES ASSUME \A r \in Requests : ~RotateCommit(r) /\ ~CreateRefreshSession(r)
             PROVE \E F : Revoking(F)
  OBVIOUS
<1>0. Untouched => \E F : Revoking(F)
  <2>1. Untouched => Revoking({})
    OBVIOUS
  <2> HIDE DEF Untouched, Revoking
  <2> QED BY <2>1
<1>1. ASSUME NEW r \in Requests, Arrive(r) PROVE Untouched
  BY <1>1 DEF Arrive, RefreshFind, LogoutFind, LoginRead, RevokeAllBegin,
              BumpTokenVersion, RestoreAccount, sessionVars
<1>2. ASSUME NEW r \in Requests, HandlerStep(r) PROVE \E F : Revoking(F)
  <2>1. RevokeFamilyEnd(r) => Revoking(req[r].snap)
    BY DEF RevokeFamilyEnd, IInv, HandlerInv
  <2>2. LogoutUpdate(r) => Revoking({req[r].tok})
    BY DEF LogoutUpdate, IInv, HandlerInv, TokSteps, At
  <2>3. RevokeAllCommit(r) => Revoking(req[r].snap)
    BY DEF RevokeAllCommit, IInv, HandlerInv
  <2>4. \/ RefreshReadUser(r) \/ RotateClaim(r) \/ RevokeFamilyBegin(r)
        \/ MirrorRead(r) \/ MirrorSet(r)
        \/ SignAccessToken(r, "signRotate", "rotate")
        \/ SignAccessToken(r, "signLogin", "create")
        => Untouched
    BY DEF RefreshReadUser, RotateClaim, RevokeFamilyBegin, MirrorRead,
           MirrorSet, SignAccessToken, sessionVars
  <2> HIDE DEF Untouched, Revoking
  <2> QED BY <1>0, <1>2, <2>1, <2>2, <2>3, <2>4 DEF HandlerStep
<1>3. ASSUME NEW r \in Requests, Fail(r) PROVE Untouched
  BY <1>3 DEF Fail, sessionVars
<1>4. ASSUME NEW u \in Users, MirrorExpires(u) PROVE Untouched
  BY <1>4 DEF MirrorExpires, sessionVars
<1>5. ASSUME NEW s \in Sessions, SessionExpires(s) PROVE Untouched
  BY <1>5 DEF SessionExpires
<1>6. UNCHANGED vars => Untouched
  BY DEF vars, sessionVars
<1> HIDE DEF Untouched, Revoking
<1> QED BY <1>0, <1>1, <1>2, <1>3, <1>4, <1>5, <1>6 DEF Next

LEMMA TableStep == IInv /\ [Next]_vars => TableInv'
<1> SUFFICES ASSUME IInv, [Next]_vars PROVE TableInv'
  OBVIOUS
<1> USE DEF IInv, TypeOK, TableInv, HandlerInv, At, TokSteps
<1>1. CASE \E F \in SUBSET rows :
             /\ revoked' = revoked \cup F
             /\ UNCHANGED <<rows, familyOf, ownerOf, replacedBy>>
  BY <1>1
<1>2. ASSUME NEW r \in Requests, RotateCommit(r) PROVE TableInv'
  BY <1>2 DEF RotateCommit
<1>3. ASSUME NEW r \in Requests, CreateRefreshSession(r) PROVE TableInv'
  BY <1>3 DEF CreateRefreshSession
<1> QED BY <1>1, <1>2, <1>3, TableSteps

\* Only a login and a rotation add a live row: one in a new family, one in the
\* place of the row the rotation revokes.
LEMMA OneLiveStep == IInv /\ [Next]_vars => OneLivePerFamily'
<1> SUFFICES ASSUME IInv, [Next]_vars PROVE OneLivePerFamily'
  OBVIOUS
<1> USE DEF IInv, TypeOK, TableInv, HandlerInv, OneLivePerFamily, Live, At, TokSteps
<1>1. CASE \E F \in SUBSET rows :
             /\ revoked' = revoked \cup F
             /\ UNCHANGED <<rows, familyOf, ownerOf, replacedBy>>
  BY <1>1
<1>2. ASSUME NEW r \in Requests, RotateCommit(r) PROVE OneLivePerFamily'
  BY <1>2 DEF RotateCommit
<1>3. ASSUME NEW r \in Requests, CreateRefreshSession(r) PROVE OneLivePerFamily'
  BY <1>3 DEF CreateRefreshSession
<1> QED BY <1>1, <1>2, <1>3, TableSteps

\* A row held by a rotation is changed by nobody else until the rotation ends.
LEMMA HandlerStepInv == IInv /\ [Next]_vars => HandlerInv'
<1> SUFFICES ASSUME IInv, [Next]_vars PROVE HandlerInv'
  OBVIOUS
<1> USE DEF IInv, TypeOK, At, Goto, Handle, Finish, Idle, Handler, Steps,
            sessionVars, accountVars, tokenVars, TokSteps, TableInv, HandlerInv, Live
<1>1. ASSUME NEW r \in Requests, Arrive(r) PROVE HandlerInv'
  <2>1. ASSUME NEW s \in Sessions, RefreshFind(r, s) PROVE HandlerInv'
    <3>1. PICK step \in {"readUser", "revokeFamily"} :
            Handle(r, step, ownerOf[s], s, 0, {})
      BY <2>1 DEF RefreshFind
    <3>2. /\ req' = [req EXCEPT ![r] = [pc |-> step, usr |-> ownerOf[s], tok |-> s,
                                         seen |-> 0, snap |-> {}]]
          /\ s \in rows /\ rows' = rows /\ revoked' = revoked
      BY <2>1, <3>1 DEF RefreshFind
    <3> QED BY <3>2
  <2>2. ASSUME NEW s \in Sessions, LogoutFind(r, s) PROVE HandlerInv'
    BY <2>2 DEF LogoutFind
  <2>3. ASSUME NEW u \in Users, LoginRead(r, u) PROVE HandlerInv'
    BY <2>3 DEF LoginRead
  <2>4. ASSUME NEW u \in Users, NEW step \in {"loggingOutAll", "deleting"},
               RevokeAllBegin(r, u, step)
        PROVE HandlerInv'
    BY <2>4 DEF RevokeAllBegin, SessionsOf
  <2>5. ASSUME NEW u \in Users, BumpTokenVersion(r, u) PROVE HandlerInv'
    BY <2>5 DEF BumpTokenVersion
  <2>6. ASSUME NEW u \in Users, RestoreAccount(r, u) PROVE HandlerInv'
    BY <2>6 DEF RestoreAccount
  <2> QED BY <1>1, <2>1, <2>2, <2>3, <2>4, <2>5, <2>6 DEF Arrive
<1>2. ASSUME NEW r \in Requests, HandlerStep(r) PROVE HandlerInv'
  <2>0. ASSUME NEW step \in {"signRotate", "signLogin"}, NEW next \in {"rotate", "create"},
               SignAccessToken(r, step, next), step = "signRotate" <=> next = "rotate"
        PROVE HandlerInv'
    BY <2>0 DEF SignAccessToken
  <2>1. CASE RefreshReadUser(r) BY <2>1, SMTT(30) DEF RefreshReadUser
  <2>2. CASE RotateClaim(r) BY <2>2 DEF RotateClaim, Locked
  <2>3. CASE RotateCommit(r)
    <3>1. PICK n \in Sessions \ rows : rows' = rows \cup {n}
      BY <2>3 DEF RotateCommit
    <3>2. /\ revoked' = revoked \cup {req[r].tok}
          /\ req' = [req EXCEPT ![r] = Idle]
          /\ At(r, "rotating")
      BY <2>3 DEF RotateCommit
    <3>3. ASSUME NEW q \in Requests
          PROVE /\ q # r => req'[q] = req[q]
                /\ req'[r] = Idle
      BY <3>2
    <3> QED BY <3>1, <3>2, <3>3
  <2>4. CASE RevokeFamilyBegin(r) BY <2>4 DEF RevokeFamilyBegin, Family
  <2>5. CASE RevokeFamilyEnd(r) BY <2>5 DEF RevokeFamilyEnd, Locked
  <2>6. CASE CreateRefreshSession(r) BY <2>6 DEF CreateRefreshSession
  <2>7. CASE LogoutUpdate(r) BY <2>7 DEF LogoutUpdate, Locked
  <2>8. CASE RevokeAllCommit(r) BY <2>8 DEF RevokeAllCommit, Locked
  <2>9. CASE MirrorRead(r) BY <2>9 DEF MirrorRead
  <2>10. CASE MirrorSet(r) BY <2>10 DEF MirrorSet
  <2> QED BY <1>2, <2>0, <2>1, <2>2, <2>3, <2>4, <2>5, <2>6, <2>7, <2>8, <2>9, <2>10
             DEF HandlerStep
<1>3. ASSUME NEW r \in Requests, Fail(r) PROVE HandlerInv'
  BY <1>3 DEF Fail
<1>4. ASSUME NEW u \in Users, MirrorExpires(u) PROVE HandlerInv'
  BY <1>4 DEF MirrorExpires
<1>5. ASSUME NEW s \in Sessions, SessionExpires(s) PROVE HandlerInv'
  BY <1>5 DEF SessionExpires
<1>6. CASE UNCHANGED vars
  BY <1>6 DEF vars
<1> QED BY <1>1, <1>2, <1>3, <1>4, <1>5, <1>6 DEF Next

THEOREM Invariance == Spec => []IInv
<1>1. Init => IInv
  BY InitIInv
<1>2. IInv /\ [Next]_vars => IInv'
  BY TypeStep, TableStep, HandlerStepInv, OneLiveStep DEF IInv
<1> QED BY <1>1, <1>2, PTL DEF Spec

(* The variables keep their types in every reachable state.                 *)
THEOREM TypeCorrect == Spec => []TypeOK
<1>1. IInv => TypeOK
  BY DEF IInv
<1> QED BY <1>1, Invariance, PTL

(* No family of refresh tokens ever has two live rows, for any number of    *)
(* concurrent refreshes, logouts, revocations and failures.                 *)
THEOREM OneLive == Spec => []OneLivePerFamily
<1>1. IInv => OneLivePerFamily
  BY DEF IInv
<1> QED BY <1>1, Invariance, PTL

(* A row that has a successor keeps it: no refresh token is exchanged twice. *)
THEOREM ExchangedOnce == Spec => RotatedOnce
<1>1. IInv /\ [Next]_vars =>
        [\A s \in Sessions : replacedBy[s] # NoSession => replacedBy'[s] = replacedBy[s]]_vars
  <2> SUFFICES ASSUME IInv, [Next]_vars, NEW s \in Sessions, replacedBy[s] # NoSession
               PROVE replacedBy'[s] = replacedBy[s]
    OBVIOUS
  <2>1. ASSUME NEW r \in Requests, RotateCommit(r) PROVE replacedBy'[s] = replacedBy[s]
    <3>1. s # req[r].tok
      BY <2>1 DEF RotateCommit, IInv, TableInv, HandlerInv
    <3> QED BY <2>1, <3>1 DEF RotateCommit, IInv, TypeOK
  <2>2. ASSUME NEW r \in Requests, CreateRefreshSession(r) PROVE replacedBy' = replacedBy
    BY <2>2 DEF CreateRefreshSession
  <2> QED BY <2>1, <2>2, TableSteps
<1> QED BY <1>1, Invariance, PTL DEF Spec, RotatedOnce

-----------------------------------------------------------------------------
LiveOf == [f \in Sessions |-> {s \in Sessions : Live(s) /\ familyOf[s] = f}]

\* Revoking rows closes the families whose live row is among them.
LEMMA RevocationCloses ==
  ASSUME IInv, NEW F \in SUBSET rows, revoked' = revoked \cup F,
         UNCHANGED <<rows, familyOf, ownerOf, replacedBy>>
  PROVE  \E C \in SUBSET Sessions : Families!Close(C)
<1>0. PICK C \in SUBSET Sessions :
        C = {f \in Sessions : \E s \in F : Live(s) /\ familyOf[s] = f}
  OBVIOUS
<1>1. ASSUME NEW f \in Sessions
      PROVE  LiveOf'[f] = IF f \in C THEN {} ELSE LiveOf[f]
  <2>1. ASSUME NEW s \in Sessions PROVE Live(s)' <=> Live(s) /\ s \notin F
    BY DEF Live
  <2>2. CASE f \in C
    <3>1. PICK s \in F : Live(s) /\ familyOf[s] = f
      BY <1>0, <2>2
    <3>2. \A t \in Sessions : Live(t) /\ familyOf[t] = f => t = s
      BY <3>1 DEF IInv, OneLivePerFamily, TypeOK
    <3> QED BY <2>1, <2>2, <3>1, <3>2 DEF LiveOf
  <2>3. CASE f \notin C
    <3>1. \A t \in Sessions : Live(t) /\ familyOf[t] = f => t \notin F
      BY <1>0, <2>3
    <3> QED BY <2>1, <2>3, <3>1 DEF LiveOf
  <2> QED BY <2>2, <2>3
<1> QED BY <1>1 DEF Families!Close, LiveOf

\* A rotation replaces the only live row of its family by a fresh one.
LEMMA RotationReplaces ==
  ASSUME IInv, NEW r \in Requests, RotateCommit(r)
  PROVE  \E f \in Sessions : Families!Replace(f)
<1> DEFINE s == req[r].tok
<1>0. s \in rows /\ s \in Sessions /\ Live(s) /\ familyOf[s] \in Sessions
  BY DEF RotateCommit, IInv, TypeOK, HandlerInv, Live, At, TokSteps
<1> PICK g \in Sessions : g = familyOf[s]
  BY <1>0
<1>1. PICK n \in Sessions \ rows :
        /\ rows' = rows \cup {n}
        /\ familyOf' = [familyOf EXCEPT ![n] = familyOf[s]]
        /\ revoked' = revoked \cup {s}
  BY DEF RotateCommit
<1>2. LiveOf[g] = {s}
  BY <1>0 DEF LiveOf, IInv, OneLivePerFamily
<1>3. ASSUME NEW t \in Sessions
      PROVE  Live(t)' <=> (Live(t) /\ t # s) \/ t = n
  BY <1>0, <1>1 DEF Live, IInv, TableInv, TypeOK
<1>4. ASSUME NEW f \in Sessions
      PROVE  LiveOf'[f] = IF f = g THEN {n} ELSE LiveOf[f]
  <2>1. \A t \in Sessions : familyOf'[t] = IF t = n THEN g ELSE familyOf[t]
    BY <1>1 DEF IInv, TypeOK
  <2>2. ~Live(n)
    BY DEF Live
  <2>3. CASE f = g
    <3>1. \A t \in Sessions : Live(t) /\ familyOf[t] = f => t = s
      BY <1>0, <2>3 DEF IInv, OneLivePerFamily
    <3> QED BY <1>3, <2>1, <2>3, <3>1 DEF LiveOf
  <2>4. CASE f # g
    BY <1>3, <2>1, <2>2, <2>4 DEF LiveOf
  <2> QED BY <2>3, <2>4
<1>5. LiveOf' = [LiveOf EXCEPT ![g] = {n}]
  BY <1>4, ZenonT(30) DEF LiveOf
<1> QED BY <1>0, <1>1, <1>2, <1>5 DEF Families!Replace, LiveOf

\* createRefreshSession opens a family that no row had.
LEMMA LoginOpens ==
  ASSUME IInv, NEW r \in Requests, CreateRefreshSession(r)
  PROVE  \E f \in Sessions : Families!Open(f)
<1>1. PICK n \in Sessions \ rows :
        /\ rows' = rows \cup {n}
        /\ familyOf' = [familyOf EXCEPT ![n] = n]
        /\ revoked' = revoked
  BY DEF CreateRefreshSession
<1>2. ASSUME NEW t \in Sessions
      PROVE  /\ Live(t)' <=> Live(t) \/ t = n
             /\ familyOf'[t] = IF t = n THEN n ELSE familyOf[t]
             /\ Live(t) => familyOf[t] # n
  BY <1>1 DEF Live, IInv, TableInv, TypeOK
<1>3. ASSUME NEW f \in Sessions
      PROVE  LiveOf'[f] = IF f = n THEN {n} ELSE LiveOf[f]
  <2>1. ~Live(n)
    BY DEF Live
  <2> QED BY <1>2, <2>1 DEF LiveOf
<1>4. LiveOf' = [LiveOf EXCEPT ![n] = {n}]
  BY <1>3 DEF LiveOf
<1> QED BY <1>1, <1>4 DEF Families!Open, LiveOf

(* The session table implements the abstract families of RefreshFamily:     *)
(* every step of every handler is one opening, one replacement of the only  *)
(* live row, one final closing, or invisible.                               *)
THEOREM Refinement == Spec => RefreshFamilies
<1>1. Init => Families!Init
  BY DEF Init, Families!Init, Live
<1>2. IInv /\ [Next]_vars => [Families!Next]_<<rows, LiveOf>>
  <2> SUFFICES ASSUME IInv, [Next]_vars PROVE [Families!Next]_<<rows, LiveOf>>
    OBVIOUS
  <2>1. ASSUME NEW F \in SUBSET rows, revoked' = revoked \cup F,
               UNCHANGED <<rows, familyOf, ownerOf, replacedBy>>
        PROVE  Families!Next
    BY <2>1, RevocationCloses DEF Families!Next
  <2>2. ASSUME NEW r \in Requests, RotateCommit(r) PROVE Families!Next
    BY <2>2, RotationReplaces DEF Families!Next
  <2>3. ASSUME NEW r \in Requests, CreateRefreshSession(r) PROVE Families!Next
    BY <2>3, LoginOpens DEF Families!Next
  <2> QED BY <2>1, <2>2, <2>3, TableSteps
<1> QED BY <1>1, <1>2, Invariance, PTL DEF Spec, RefreshFamilies, Families!Spec, LiveOf

-----------------------------------------------------------------------------
\* Nothing runs ahead of the account: what a handler has read of its version,
\* what the mirror holds, what tokens claim.  What a handler is about to sign
\* was read while the account was active: deleted since, it is outdated.
VersionInv ==
  /\ \A u \in Users : /\ issued[u] <= version[u] + 1
                      /\ ~active[u] => issued[u] <= version[u]
                      /\ mirror[u] # NoVersion => mirror[u] <= version[u]
  /\ \A r \in Requests :
       LET u == req[r].usr IN
       /\ req[r].pc \in {"signRotate", "signLogin"}
            => /\ req[r].seen <= version[u]
               /\ ~active[u] => req[r].seen < version[u]
       /\ At(r, "mirrorSet") => req[r].seen <= version[u]

\* A bump outdates what was read before it; a deletion bumps, and what is read
\* afterwards for signing is read from an active account only.
LEMMA VersionStep == IInv /\ VersionInv /\ [Next]_vars => VersionInv'
<1> SUFFICES ASSUME IInv, VersionInv, [Next]_vars PROVE VersionInv'
  OBVIOUS
<1> USE DEF IInv, TypeOK, At, Goto, Handle, Finish, Idle, Handler,
            sessionVars, accountVars, tokenVars, TokSteps, HandlerInv, VersionInv
<1>1. ASSUME NEW r \in Requests, Arrive(r) PROVE VersionInv'
  <2>1. ASSUME NEW s \in Sessions, RefreshFind(r, s) PROVE VersionInv'
    BY <2>1 DEF RefreshFind
  <2>2. ASSUME NEW s \in Sessions, LogoutFind(r, s) PROVE VersionInv'
    BY <2>2 DEF LogoutFind
  <2>3. ASSUME NEW u \in Users, LoginRead(r, u) PROVE VersionInv'
    BY <2>3 DEF LoginRead
  <2>4. ASSUME NEW u \in Users, NEW step \in {"loggingOutAll", "deleting"},
               RevokeAllBegin(r, u, step)
        PROVE VersionInv'
    BY <2>4 DEF RevokeAllBegin
  <2>5. ASSUME NEW u \in Users, BumpTokenVersion(r, u) PROVE VersionInv'
    BY <2>5 DEF BumpTokenVersion
  <2>6. ASSUME NEW u \in Users, RestoreAccount(r, u) PROVE VersionInv'
    BY <2>6 DEF RestoreAccount
  <2> QED BY <1>1, <2>1, <2>2, <2>3, <2>4, <2>5, <2>6 DEF Arrive
<1>2. ASSUME NEW r \in Requests, HandlerStep(r) PROVE VersionInv'
  <2>0. ASSUME NEW step \in {"signRotate", "signLogin"}, NEW next \in {"rotate", "create"},
               SignAccessToken(r, step, next)
        PROVE VersionInv'
    BY <2>0 DEF SignAccessToken
  <2>1. CASE RefreshReadUser(r) BY <2>1 DEF RefreshReadUser
  <2>2. CASE RotateClaim(r) BY <2>2 DEF RotateClaim
  <2>3. CASE RotateCommit(r) BY <2>3 DEF RotateCommit
  <2>4. CASE RevokeFamilyBegin(r) BY <2>4 DEF RevokeFamilyBegin
  <2>5. CASE RevokeFamilyEnd(r) BY <2>5 DEF RevokeFamilyEnd
  <2>6. CASE CreateRefreshSession(r) BY <2>6 DEF CreateRefreshSession
  <2>7. CASE LogoutUpdate(r) BY <2>7 DEF LogoutUpdate
  <2>8. CASE RevokeAllCommit(r) BY <2>8 DEF RevokeAllCommit
  <2>9. CASE MirrorRead(r) BY <2>9 DEF MirrorRead
  <2>10. CASE MirrorSet(r) BY <2>10 DEF MirrorSet
  <2> QED BY <1>2, <2>0, <2>1, <2>2, <2>3, <2>4, <2>5, <2>6, <2>7, <2>8, <2>9, <2>10
             DEF HandlerStep
<1>3. ASSUME NEW r \in Requests, Fail(r) PROVE VersionInv'
  BY <1>3 DEF Fail
<1>4. ASSUME NEW u \in Users, MirrorExpires(u) PROVE VersionInv'
  BY <1>4 DEF MirrorExpires
<1>5. ASSUME NEW s \in Sessions, SessionExpires(s) PROVE VersionInv'
  BY <1>5 DEF SessionExpires
<1>6. CASE UNCHANGED vars
  BY <1>6 DEF vars
<1> QED BY <1>1, <1>2, <1>3, <1>4, <1>5, <1>6 DEF Next

LEMMA VersionInvariance == Spec => []VersionInv
<1>1. Init => VersionInv
  BY DEF Init, VersionInv, At, Idle
<1>2. IInv /\ VersionInv /\ [Next]_vars => VersionInv'
  BY VersionStep
<1> QED BY <1>1, <1>2, Invariance, PTL DEF Spec

(* No access token of a deleted account carries its current version, even   *)
(* one signed by a login or refresh that read the account before.           *)
THEOREM DeletionOutdates == Spec => []DeletionOutdatesTokens
<1>1. VersionInv => DeletionOutdatesTokens
  BY DEF VersionInv, DeletionOutdatesTokens
<1> QED BY <1>1, VersionInvariance, PTL

(* The Redis mirror never holds a version the account has not reached.      *)
THEOREM NeverAhead == Spec => []MirrorNeverAhead
<1>1. VersionInv => MirrorNeverAhead
  BY DEF VersionInv, MirrorNeverAhead
<1> QED BY <1>1, VersionInvariance, PTL

\* All of it at once, for any sets of users, sessions and requests.
THEOREM TokensAlwaysSound == Spec => []TokensSound
  BY TypeCorrect, OneLive, DeletionOutdates, NeverAhead, PTL DEF TokensSound

-----------------------------------------------------------------------------
(* The page.  A refresh token is shown again only if the answer to its      *)
(* rotation never came; what a lookup brings enters the cache only while    *)
(* its generation is the cache's.                                           *)

\* Whatever holds a pair of tokens holds one that was issued.
IssuedInv ==
  /\ refreshCookie <= pageIssued /\ refresh.cookie <= pageIssued /\ refresh.tok <= pageIssued
  /\ \A n \in rotated : n <= pageIssued

\* The page holds a rotated token only while the answer that replaces it is on
\* its way, which is not a token it had rotated.
RotatedInv ==
  /\ refreshCookie \in rotated =>
       refresh.pc = "served" /\ refresh.tok # 0 /\ refresh.cookie = refreshCookie
  /\ refresh.pc = "sent" => refresh.cookie \notin rotated
  /\ refresh.pc = "served" => refresh.tok \notin rotated

\* After a full logout there is nothing left that could bring a token back.
EndedInv ==
  ended = "full" =>
    /\ refreshCookie = 0 /\ sessionCookie = 0 /\ cached = 0 /\ ~Page!isAuthenticated
    /\ refresh.cookie = 0 /\ refresh.tok = 0
    /\ \A l \in Lookups : lookup[l].tok = 0

\* With a token in the cache no lookup in flight is of its generation.
StaleInv == cached # 0 => \A l \in Lookups : lookup[l].pc = "sent" => lookup[l].stale

\* A refresh that is over has left nothing behind.
IdleInv ==
  /\ refresh.pc = "idle" => refresh = Page!NoRefresh
  /\ refresh.pc = "sent" => refresh.tok = 0
  /\ \A l \in Lookups : lookup[l].pc = "idle" => lookup[l].tok = 0

PageInv == /\ Page!TypeOK /\ IssuedInv /\ RotatedInv /\ EndedInv /\ StaleInv /\ IdleInv
        /\ Page!StoreWaitsInFlight

LEMMA PageInitial ==
  ASSUME Page!SessionAssumption, Page!Init
  PROVE  PageInv
<1>1. Page!NoCall \in Page!Call /\ Page!NoRefresh \in [pc : {"idle", "sent", "served"}, cookie : Page!Opt, tok : Page!Opt]
      /\ Page!NoLookupSent \in [pc : {"idle", "sent"}, tok : Page!Opt, stale : BOOLEAN]
  BY DEF Page!SessionAssumption, Page!NoCall, Page!Call, Page!NoRefresh, Page!NoLookupSent, Page!Opt
<1>2. 0 \in Page!Opt
  BY DEF Page!SessionAssumption, Page!Opt
<1>3. Page!TypeOK
  BY <1>1, <1>2 DEF Page!Init, Page!TypeOK
<1>4. IssuedInv /\ RotatedInv /\ StaleInv /\ IdleInv /\ Page!StoreWaitsInFlight
  BY DEF Page!Init, IssuedInv, RotatedInv, StaleInv, IdleInv, Page!StoreWaitsInFlight, Page!NoRefresh, Page!NoLookupSent
<1>5. EndedInv
  BY DEF Page!Init, EndedInv
<1> QED
  BY <1>3, <1>4, <1>5 DEF PageInv

-----------------------------------------------------------------------------
LookupRecord == [pc : {"idle", "sent"}, tok : Page!Opt, stale : BOOLEAN]
RefreshRecord == [pc : {"idle", "sent", "served"}, cookie : Page!Opt, tok : Page!Opt]

\* Numbers, and the records of nothing.
LEMMA PageBlanks ==
  ASSUME Page!SessionAssumption, Page!TypeOK
  PROVE  /\ pageIssued \in Nat /\ pageIssued <= MaxToken /\ 0 \in Page!Opt
         /\ \A n \in Page!Opt : n \in Nat /\ (n # 0 => n \in Page!Tokens)
         /\ \A n \in Page!Tokens : n \in Page!Opt /\ n # 0
         /\ pageIssued < MaxToken => pageIssued + 1 \in Page!Tokens /\ pageIssued + 1 \in Page!Opt
         /\ Page!NoCall \in Page!Call /\ Page!NoCall.lk = NoLookup /\ Page!NoCall.tok = 0 /\ Page!NoCall.pc = "idle"
         /\ Page!NoRefresh \in RefreshRecord /\ Page!NoRefresh.pc = "idle" /\ Page!NoRefresh.cookie = 0 /\ Page!NoRefresh.tok = 0
         /\ Page!NoLookupSent \in LookupRecord /\ Page!NoLookupSent.pc = "idle" /\ Page!NoLookupSent.tok = 0
         /\ ~Page!NoLookupSent.stale
         /\ refresh \in RefreshRecord /\ lookup \in [Lookups -> LookupRecord]
         /\ refreshCookie \in Page!Opt /\ sessionCookie \in Page!Opt /\ cached \in Page!Opt
         /\ spent \subseteq Page!Tokens /\ rotated \subseteq Page!Tokens
         /\ call \in [Page!Callers -> Page!Call]
<1>1. /\ Page!NoCall \in Page!Call /\ Page!NoCall.lk = NoLookup /\ Page!NoCall.tok = 0 /\ Page!NoCall.pc = "idle"
      /\ Page!NoRefresh \in RefreshRecord /\ Page!NoRefresh.pc = "idle" /\ Page!NoRefresh.cookie = 0 /\ Page!NoRefresh.tok = 0
      /\ Page!NoLookupSent \in LookupRecord /\ Page!NoLookupSent.pc = "idle" /\ Page!NoLookupSent.tok = 0
      /\ ~Page!NoLookupSent.stale
  BY DEF Page!SessionAssumption, Page!NoCall, Page!Call, Page!NoRefresh, RefreshRecord, Page!NoLookupSent, LookupRecord, Page!Opt
<1>2. /\ pageIssued \in Nat /\ pageIssued <= MaxToken /\ 0 \in Page!Opt
      /\ \A n \in Page!Opt : n \in Nat /\ (n # 0 => n \in Page!Tokens)
      /\ \A n \in Page!Tokens : n \in Page!Opt /\ n # 0
      /\ pageIssued < MaxToken => pageIssued + 1 \in Page!Tokens /\ pageIssued + 1 \in Page!Opt
  BY DEF Page!SessionAssumption, Page!TypeOK, Page!Opt, Page!Tokens
<1>3. /\ refresh \in RefreshRecord /\ lookup \in [Lookups -> LookupRecord]
      /\ refreshCookie \in Page!Opt /\ sessionCookie \in Page!Opt /\ cached \in Page!Opt
      /\ spent \subseteq Page!Tokens /\ rotated \subseteq Page!Tokens
      /\ call \in [Page!Callers -> Page!Call]
  BY DEF Page!TypeOK, RefreshRecord, LookupRecord
<1> QED
  BY <1>1, <1>2, <1>3

\* A token is read, or a lookup joined or sent, when the cache is empty.
LEMMA ResolveEffect ==
  ASSUME Page!SessionAssumption, Page!TypeOK, NEW c \in Page!Callers, NEW rec \in Page!Call, Page!Resolve(c, rec)
  PROVE  /\ call' \in [Page!Callers -> Page!Call]
         /\ \/ UNCHANGED Page!tokens
            \/ \E l \in Lookups :
                 /\ cached = 0 /\ lookup[l].pc = "idle"
                 /\ lookup' = [lookup EXCEPT ![l] =
                                 [pc |-> "sent", tok |-> sessionCookie, stale |-> FALSE]]
                 /\ sessionPromise' = l /\ UNCHANGED cached
<1>0. /\ call \in [Page!Callers -> Page!Call] /\ cached \in Page!Opt
      /\ sessionPromise \in Lookups \cup {NoLookup}
  BY DEF Page!TypeOK
<1>1. CASE cached # 0
  <2>1. [rec EXCEPT !.pc = "sent", !.tok = cached] \in Page!Call
    BY <1>0 DEF Page!Call
  <2> QED
    BY <1>0, <1>1, <2>1 DEF Page!Resolve
<1>2. CASE cached = 0 /\ sessionPromise # NoLookup
  <2>1. [rec EXCEPT !.pc = "token", !.lk = sessionPromise] \in Page!Call
    BY <1>0 DEF Page!Call
  <2> QED
    BY <1>0, <1>2, <2>1 DEF Page!Resolve
<1>3. CASE cached = 0 /\ sessionPromise = NoLookup
  <2>1. PICK l \in Lookups :
          /\ lookup[l].pc = "idle"
          /\ lookup' = [lookup EXCEPT ![l] =
               [pc |-> "sent", tok |-> sessionCookie, stale |-> FALSE]]
          /\ sessionPromise' = l
          /\ call' = [call EXCEPT ![c] = [rec EXCEPT !.pc = "token", !.lk = l]]
          /\ UNCHANGED cached
    BY <1>3 DEF Page!Resolve
  <2>2. [rec EXCEPT !.pc = "token", !.lk = l] \in Page!Call
    BY <1>0 DEF Page!Call
  <2> QED
    BY <1>0, <1>3, <2>1, <2>2
<1> QED
  BY <1>1, <1>2, <1>3

\* The refresh that is sent, or joined.
LEMMA SendEffect ==
  ASSUME Page!SessionAssumption, Page!TypeOK, Page!SendRefresh
  PROVE  /\ refresh' \in RefreshRecord /\ refresh'.pc # "idle"
         /\ \/ refresh' = refresh
            \/ /\ refresh.pc = "idle" /\ refresh'.pc = "sent"
               /\ refresh'.cookie = refreshCookie /\ refresh'.tok = 0
<1>1. [pc |-> "sent", cookie |-> refreshCookie, tok |-> 0] \in RefreshRecord
  BY PageBlanks DEF RefreshRecord
<1> QED
  BY <1>1, PageBlanks DEF Page!SendRefresh

\* Another pair of tokens.
LEMMA IssueTypes ==
  ASSUME Page!SessionAssumption, Page!TypeOK, NEW u \in PageUsers \cup {NoUser}, NEW first \in Page!Opt, Page!Issue(u, first)
  PROVE  /\ pageIssued' = pageIssued + 1 /\ pageIssued' \in Page!Opt /\ pageIssued' \in Page!Tokens
         /\ owner' \in [Page!Tokens -> PageUsers \cup {NoUser}] /\ family' \in [Page!Tokens -> Page!Opt]
<1>1. /\ pageIssued' = pageIssued + 1 /\ pageIssued + 1 \in Page!Tokens /\ pageIssued + 1 \in Page!Opt
  BY PageBlanks DEF Page!Issue
<1> QED
  BY <1>1 DEF Page!Issue, Page!TypeOK

\* Those that wait for the outcome of the refresh go on.
LEMMA ResumeTypes ==
  ASSUME Page!SessionAssumption, Page!TypeOK, NEW tok \in Page!Opt, Page!Resume(tok)
  PROVE  call' \in [Page!Callers -> Page!Call]
<1>1. \A rec \in Page!Call : [rec EXCEPT !.pc = "sent", !.tok = tok, !.retried = TRUE] \in Page!Call
  BY DEF Page!Call
<1> QED
  BY <1>1, PageBlanks DEF Page!Resume

\* The generation moves: every lookup in flight is of an older one.
LEMMA WriteEffect ==
  ASSUME Page!SessionAssumption, Page!TypeOK, NEW tok \in Page!Opt, Page!WriteCache(tok)
  PROVE  /\ cached' = tok /\ lookup' \in [Lookups -> LookupRecord]
         /\ \A l \in Lookups : /\ lookup'[l].pc = lookup[l].pc /\ lookup'[l].tok = lookup[l].tok
                               /\ lookup'[l].pc = "sent" => lookup'[l].stale
<1> DEFINE moved(rec) == [rec EXCEPT !.stale = rec.pc # "idle"]
<1>1. \A rec \in LookupRecord : moved(rec) \in LookupRecord
  BY DEF LookupRecord
<1>2. \A rec \in LookupRecord : moved(rec).pc = rec.pc /\ moved(rec).tok = rec.tok
  BY DEF LookupRecord
<1>3. \A rec \in LookupRecord : rec.pc = "sent" => moved(rec).stale
  BY DEF LookupRecord
<1>4. /\ cached' = tok /\ lookup' = [l \in Lookups |-> moved(lookup[l])]
      /\ lookup \in [Lookups -> LookupRecord]
  BY PageBlanks DEF Page!WriteCache, Page!Outdated
<1> HIDE DEF moved
<1>5. lookup' \in [Lookups -> LookupRecord]
  BY <1>1, <1>4
<1>6. ASSUME NEW l \in Lookups
      PROVE  /\ lookup'[l].pc = lookup[l].pc /\ lookup'[l].tok = lookup[l].tok
             /\ lookup'[l].pc = "sent" => lookup'[l].stale
  <2>1. lookup'[l] = moved(lookup[l]) /\ lookup[l] \in LookupRecord
    BY <1>4
  <2>2. lookup'[l].pc = lookup[l].pc /\ lookup'[l].tok = lookup[l].tok
    BY <1>2, <2>1
  <2>3. lookup[l].pc = "sent" => lookup'[l].stale
    BY <1>3, <2>1
  <2> QED
    BY <2>2, <2>3
<1> QED
  BY <1>4, <1>5, <1>6

-----------------------------------------------------------------------------
(* Types                                                                   *)

LEMMA PageTypes ==
  ASSUME Page!SessionAssumption, Page!TypeOK, [Page!Next]_Page!vars
  PROVE  Page!TypeOK'
<1> USE DEF Page!TypeOK, Page!server, Page!jar, Page!tokens, Page!history
<1>1. CASE UNCHANGED Page!vars
  BY <1>1 DEF Page!vars
<1>2. CASE Page!AccessExpires
  <2>1. 1..pageIssued \subseteq Page!Tokens
    BY PageBlanks DEF Page!SessionAssumption, Page!Tokens
  <2>2. pageExpired' \subseteq Page!Tokens
    BY <1>2, <2>1 DEF Page!AccessExpires
  <2> QED
    BY <1>2, <2>2 DEF Page!AccessExpires
<1>3. CASE Page!CacheExpires
  BY <1>3, PageBlanks DEF Page!CacheExpires
<1>4. CASE Page!ServeRefresh
  <2> DEFINE n == refresh.cookie
  <2>1. n \in Page!Opt /\ refresh.tok \in Page!Opt /\ refresh \in RefreshRecord
    BY PageBlanks DEF RefreshRecord
  <2>2. UNCHANGED <<pageExpired, Page!jar, Page!tokens, call, storeWaits, loginSent, user, ended>>
    BY <1>4 DEF Page!ServeRefresh
  <2>3. CASE n = 0 \/ n \in spent
    <3>1. /\ spent' = IF n = 0 THEN spent ELSE spent \cup Page!FamilyOf(n)
          /\ refresh' = [refresh EXCEPT !.pc = "served"]
          /\ UNCHANGED <<pageIssued, owner, family, rotated>>
      BY <1>4, <2>3 DEF Page!ServeRefresh
    <3>2. refresh' \in RefreshRecord /\ spent' \subseteq Page!Tokens
      BY <2>1, <3>1 DEF RefreshRecord, Page!FamilyOf
    <3> QED
      BY <2>2, <3>1, <3>2 DEF RefreshRecord
  <2>4. CASE ~(n = 0 \/ n \in spent)
    <3>1. /\ Page!Issue(owner[n], family[n])
          /\ spent' = spent \cup {n} /\ rotated' = rotated \cup {n}
          /\ refresh' = [refresh EXCEPT !.pc = "served", !.tok = pageIssued + 1]
      BY <1>4, <2>4 DEF Page!ServeRefresh
    <3>2. n \in Page!Tokens /\ owner[n] \in PageUsers \cup {NoUser} /\ family[n] \in Page!Opt
      BY <2>1, <2>4, PageBlanks
    <3>3. /\ pageIssued' = pageIssued + 1 /\ pageIssued' \in Page!Opt
          /\ owner' \in [Page!Tokens -> PageUsers \cup {NoUser}] /\ family' \in [Page!Tokens -> Page!Opt]
      BY <3>1, <3>2, IssueTypes
    <3>4. refresh' \in RefreshRecord
      BY <2>1, <3>1, <3>3 DEF RefreshRecord
    <3> QED
      BY <2>2, <3>1, <3>2, <3>3, <3>4 DEF RefreshRecord
  <2> QED
    BY <2>3, <2>4
<1>5. ASSUME NEW l \in Lookups, Page!LookupAnswers(l)
      PROVE  Page!TypeOK'
  <2>1. PICK tok \in {lookup[l].tok, 0} :
          LET found == CASE tok = 0 -> 0
                         [] Page!Stores(l, tok) -> tok
                         [] cached # 0 -> cached
                         [] OTHER -> tok
          IN /\ call' = [c \in Page!Callers |->
                  IF call[c].lk = l
                    THEN [call[c] EXCEPT !.pc = "sent", !.tok = found, !.lk = NoLookup]
                    ELSE call[c]]
             /\ cached' = IF Page!Stores(l, tok) THEN tok ELSE cached
             /\ lookup' = [k \in Lookups |->
                  IF k = l THEN Page!NoLookupSent
                  ELSE [lookup[k] EXCEPT !.stale =
                          @ \/ (Page!Stores(l, tok) /\ lookup[k].pc # "idle")]]
             /\ sessionCookie' = IF tok # 0 THEN tok ELSE sessionCookie
    BY <1>5 DEF Page!LookupAnswers
  <2> DEFINE found == CASE tok = 0 -> 0
                        [] Page!Stores(l, tok) -> tok
                        [] cached # 0 -> cached
                        [] OTHER -> tok
  <2>2. tok \in Page!Opt /\ found \in Page!Opt
    <3>1. lookup[l].tok \in Page!Opt
      BY PageBlanks DEF LookupRecord
    <3>2. tok \in Page!Opt /\ cached \in Page!Opt /\ 0 \in Page!Opt
      BY <3>1, PageBlanks
    <3> QED
      BY <3>2
  <2> HIDE DEF found
  <2>3. \A rec \in Page!Call : [rec EXCEPT !.pc = "sent", !.tok = found, !.lk = NoLookup] \in Page!Call
    BY <2>2 DEF Page!Call
  <2>4. call' \in [Page!Callers -> Page!Call]
    <3>1. call' = [c \in Page!Callers |->
                     IF call[c].lk = l
                       THEN [call[c] EXCEPT !.pc = "sent", !.tok = found, !.lk = NoLookup]
                       ELSE call[c]]
      BY <2>1 DEF found
    <3> QED
      BY <2>3, <3>1
  <2>5. \A rec \in LookupRecord, b \in BOOLEAN : [rec EXCEPT !.stale = @ \/ b] \in LookupRecord
    BY DEF LookupRecord
  <2>6. lookup' \in [Lookups -> LookupRecord]
    <3> DEFINE b(k) == Page!Stores(l, tok) /\ lookup[k].pc # "idle"
    <3>1. \A k \in Lookups : b(k) \in BOOLEAN
      BY DEF Page!Stores
    <3>2. lookup' = [k \in Lookups |-> IF k = l THEN Page!NoLookupSent
                                        ELSE [lookup[k] EXCEPT !.stale = @ \/ b(k)]]
      BY <2>1
    <3> HIDE DEF b
    <3> QED
      BY <2>5, <3>1, <3>2, PageBlanks
  <2>7. cached' \in Page!Opt /\ sessionCookie' \in Page!Opt
    BY <2>1, <2>2, PageBlanks
  <2>8. /\ sessionPromise' \in Lookups \cup {NoLookup}
        /\ UNCHANGED <<Page!server, refreshCookie, refresh, storeWaits, loginSent, user, Page!history>>
    BY <1>5 DEF Page!LookupAnswers
  <2> QED
    BY <2>4, <2>6, <2>7, <2>8 DEF LookupRecord
<1>6. CASE Page!RefreshAnswers
  <2> DEFINE n == refresh.tok
  <2>1. n \in Page!Opt /\ (n # 0 => n \in Page!Tokens)
    BY PageBlanks DEF RefreshRecord
  <2>2. Page!WriteCache(n) /\ Page!Resume(n)
    BY <1>6 DEF Page!RefreshAnswers
  <2>3. call' \in [Page!Callers -> Page!Call] /\ cached' \in Page!Opt /\ lookup' \in [Lookups -> LookupRecord]
    BY <2>1, <2>2, ResumeTypes, WriteEffect
  <2>4. /\ refreshCookie' \in Page!Opt /\ sessionCookie' \in Page!Opt
        /\ user' \in PageUsers \cup {NoUser, Unverified}
        /\ sessionPromise' = NoLookup /\ refresh' = Page!NoRefresh /\ ~storeWaits' /\ storeWaits' \in BOOLEAN
        /\ UNCHANGED <<Page!server, loginSent, Page!history>>
    BY <1>6, <2>1 DEF Page!RefreshAnswers
  <2> QED
    BY <2>3, <2>4, PageBlanks DEF LookupRecord, RefreshRecord
<1>7. CASE Page!RefreshGarbled
  <2>1. refresh.tok \in Page!Opt
    BY PageBlanks DEF RefreshRecord
  <2>2. call' \in [Page!Callers -> Page!Call]
    BY <1>7, PageBlanks, ResumeTypes DEF Page!RefreshGarbled
  <2> QED
    BY <1>7, <2>1, <2>2, PageBlanks DEF Page!RefreshGarbled, RefreshRecord
<1>8. Page!NeverHeard => spent' \subseteq Page!Tokens /\ rotated' \subseteq Page!Tokens
  BY PageBlanks DEF Page!NeverHeard, Page!FamilyOf, RefreshRecord
<1>9. CASE Page!RefreshFails
  <2>1. call' \in [Page!Callers -> Page!Call]
    BY <1>9, PageBlanks, ResumeTypes DEF Page!RefreshFails
  <2> QED
    BY <1>8, <1>9, <2>1, PageBlanks DEF Page!RefreshFails, RefreshRecord
<1>10. CASE Page!RefreshSession
  BY <1>10, SendEffect DEF Page!RefreshSession, RefreshRecord
<1>11. ASSUME NEW r \in PageRequests, Page!RequestStart(r)
       PROVE  Page!TypeOK'
  <2>1. r \in Page!Callers /\ Page!NoCall \in Page!Call /\ Page!Resolve(r, Page!NoCall)
        /\ UNCHANGED <<Page!server, Page!jar, refresh, storeWaits, loginSent, user, Page!history>>
    BY <1>11, PageBlanks DEF Page!RequestStart, Page!Callers
  <2>2. call' \in [Page!Callers -> Page!Call]
    BY <2>1, ResolveEffect
  <2>3. CASE UNCHANGED Page!tokens
    BY <2>1, <2>2, <2>3
  <2>4. ASSUME NEW l \in Lookups, sessionPromise' = l, UNCHANGED cached,
               lookup' = [lookup EXCEPT ![l] = [pc |-> "sent", tok |-> sessionCookie, stale |-> FALSE]]
        PROVE  Page!TypeOK'
    BY <2>1, <2>2, <2>4
  <2> QED
    BY <2>1, <2>3, <2>4, ResolveEffect
<1>12. ASSUME NEW r \in PageRequests, Page!RequestAnswers(r)
       PROVE  Page!TypeOK'
  BY <1>12, PageBlanks DEF Page!RequestAnswers
<1>13. ASSUME NEW r \in PageRequests, Page!RequestRefused(r)
       PROVE  Page!TypeOK'
  <2>1. \A rec \in Page!Call : [rec EXCEPT !.pc = "refresh"] \in Page!Call
    BY DEF Page!Call
  <2>2. call' = [call EXCEPT ![r] = [call[r] EXCEPT !.pc = "refresh"]]
    BY <1>13 DEF Page!RequestRefused
  <2>3. call' \in [Page!Callers -> Page!Call]
    BY <2>1, <2>2 DEF Page!Callers
  <2> QED
    BY <1>13, <2>3, SendEffect DEF Page!RequestRefused, RefreshRecord
<1>14. CASE Page!LoginSend
  BY <1>14 DEF Page!LoginSend
<1>15. CASE Page!LoginAnswers
  <2>1. /\ pageIssued' \in Page!Opt /\ owner' \in [Page!Tokens -> PageUsers \cup {NoUser}] /\ family' \in [Page!Tokens -> Page!Opt]
    BY <1>15, PageBlanks, IssueTypes DEF Page!LoginAnswers
  <2> QED
    BY <1>15, <2>1 DEF Page!LoginAnswers
<1>16. CASE Page!LoginFails
  BY <1>16 DEF Page!LoginFails
<1>17. CASE Page!LogoutBegin
  <2>1. PICK kind \in {"logout", "delete"} : Page!Resolve(Page!Out, [Page!NoCall EXCEPT !.kind = kind])
    BY <1>17 DEF Page!LogoutBegin
  <2>2. [Page!NoCall EXCEPT !.kind = kind] \in Page!Call
    <3>1. \A rec \in Page!Call : [rec EXCEPT !.kind = kind] \in Page!Call
      BY DEF Page!Call
    <3> QED
      BY <3>1, PageBlanks
  <2>3. UNCHANGED <<Page!server, Page!jar, refresh, storeWaits, loginSent, user, Page!history>> /\ Page!Out \in Page!Callers
    BY <1>17 DEF Page!LogoutBegin, Page!Callers
  <2>4. call' \in [Page!Callers -> Page!Call]
    BY <2>1, <2>2, <2>3, ResolveEffect
  <2>5. CASE UNCHANGED Page!tokens
    BY <2>3, <2>4, <2>5
  <2>6. ASSUME NEW l \in Lookups, sessionPromise' = l, UNCHANGED cached,
               lookup' = [lookup EXCEPT ![l] = [pc |-> "sent", tok |-> sessionCookie, stale |-> FALSE]]
        PROVE  Page!TypeOK'
    BY <2>3, <2>4, <2>6
  <2> QED
    BY <2>1, <2>2, <2>3, <2>5, <2>6, ResolveEffect
<1>18. CASE Page!LogoutPost \/ Page!LogoutUnheard
  <2>1. \A rec \in Page!Call : /\ [rec EXCEPT !.pc = "signout"] \in Page!Call
                          /\ [rec EXCEPT !.pc = "signout", !.kind = "unheard"] \in Page!Call
    BY DEF Page!Call
  <2>2. \/ call' = [call EXCEPT ![Page!Out] = [call[Page!Out] EXCEPT !.pc = "signout"]]
        \/ call' = [call EXCEPT ![Page!Out] = [call[Page!Out] EXCEPT !.pc = "signout", !.kind = "unheard"]]
    BY <1>18 DEF Page!LogoutPost, Page!LogoutUnheard, Page!Callers
  <2>3. call' \in [Page!Callers -> Page!Call]
    <3>1. call \in [Page!Callers -> Page!Call] /\ Page!Out \in Page!Callers
      BY DEF Page!Callers
    <3>2. /\ [call[Page!Out] EXCEPT !.pc = "signout"] \in Page!Call
          /\ [call[Page!Out] EXCEPT !.pc = "signout", !.kind = "unheard"] \in Page!Call
      BY <2>1, <3>1
    <3> QED
      BY <2>2, <3>1, <3>2
  <2> QED
    BY <1>18, <2>3, PageBlanks DEF Page!LogoutPost, Page!LogoutUnheard
<1>19. CASE Page!DeletePost
  <2>1. \A rec \in Page!Call : [rec EXCEPT !.pc = "signout"] \in Page!Call
    BY DEF Page!Call
  <2>2. \/ call' = [call EXCEPT ![Page!Out] = [call[Page!Out] EXCEPT !.pc = "signout"]]
        \/ call' = [call EXCEPT ![Page!Out] = Page!NoCall]
    BY <1>19 DEF Page!DeletePost
  <2>3. call' \in [Page!Callers -> Page!Call]
    BY <2>1, <2>2, PageBlanks DEF Page!Callers
  <2>4. spent' \subseteq Page!Tokens /\ pageExpired' \subseteq Page!Tokens
    BY <1>19 DEF Page!DeletePost
  <2> QED
    BY <1>19, <2>3, <2>4, PageBlanks DEF Page!DeletePost
<1>20. CASE Page!SignOut
  <2>1. Page!WriteCache(0) /\ sessionPromise' = NoLookup
    BY <1>20 DEF Page!SignOut, Page!ResetSession
  <2>2. cached' \in Page!Opt /\ lookup' \in [Lookups -> LookupRecord]
    BY <2>1, PageBlanks, WriteEffect
  <2>3. call' \in [Page!Callers -> Page!Call]
    BY <1>20, PageBlanks DEF Page!SignOut
  <2>4. ended' \in {"no", "partly", "full"} /\ sessionCookie' \in Page!Opt /\ user' = NoUser
    BY <1>20, PageBlanks DEF Page!SignOut
  <2>5. UNCHANGED <<Page!server, refreshCookie, refresh, storeWaits, loginSent, rotated>>
    BY <1>20 DEF Page!SignOut
  <2> QED
    BY <2>1, <2>2, <2>3, <2>4, <2>5 DEF LookupRecord
<1>21. CASE Page!Reload
  <2>1. spent' \subseteq Page!Tokens /\ rotated' \subseteq Page!Tokens
    BY <1>8, <1>21 DEF Page!Reload
  <2>2. call' \in [Page!Callers -> Page!Call] /\ lookup' \in [Lookups -> LookupRecord] /\ refresh' \in RefreshRecord
    BY <1>21, PageBlanks DEF Page!Reload
  <2> QED
    BY <1>21, <2>1, <2>2, PageBlanks DEF Page!Reload, LookupRecord, RefreshRecord
<1> QED
  BY <1>1, <1>2, <1>3, <1>4, <1>5, <1>6, <1>7, <1>9, <1>10, <1>11, <1>12, <1>13, <1>14, <1>15,
     <1>16, <1>17, <1>18, <1>19, <1>20, <1>21 DEF Page!Next

-----------------------------------------------------------------------------
(* The invariant                                                           *)

PageRest == IssuedInv /\ RotatedInv /\ EndedInv /\ StaleInv /\ IdleInv /\ Page!StoreWaitsInFlight

LEMMA PageUntouched ==
  ASSUME PageInv, UNCHANGED <<pageIssued, Page!jar, cached, lookup, refresh, rotated, ended, user, storeWaits>>
  PROVE  PageRest'
  BY DEF PageInv, PageRest, IssuedInv, RotatedInv, EndedInv, StaleInv, IdleInv, Page!StoreWaitsInFlight,
         Page!jar, Page!isAuthenticated

\* A lookup is sent with the cookie of the session.
LEMMA LookupKeeps ==
  ASSUME Page!SessionAssumption, PageInv, NEW l \in Lookups, cached = 0, UNCHANGED cached,
         lookup' = [lookup EXCEPT ![l] = [pc |-> "sent", tok |-> sessionCookie, stale |-> FALSE]],
         UNCHANGED <<pageIssued, Page!jar, refresh, rotated, ended, user, storeWaits>>
  PROVE  PageRest'
<1>1. /\ lookup'[l].pc = "sent" /\ lookup'[l].tok = sessionCookie
      /\ \A k \in Lookups \ {l} : lookup'[k] = lookup[k]
  BY PageBlanks DEF PageInv
<1>2. IssuedInv' /\ RotatedInv' /\ Page!StoreWaitsInFlight'
  BY DEF PageInv, IssuedInv, RotatedInv, Page!StoreWaitsInFlight, Page!jar
<1>3. EndedInv' /\ StaleInv' /\ IdleInv'
  BY <1>1 DEF PageInv, EndedInv, StaleInv, IdleInv, Page!jar, Page!isAuthenticated
<1> QED
  BY <1>2, <1>3 DEF PageRest

\* A refresh is sent with the cookie of the page, or joined.
LEMMA SendKeeps ==
  ASSUME Page!SessionAssumption, PageInv, Page!SendRefresh,
         UNCHANGED <<pageIssued, Page!jar, cached, lookup, rotated, ended, user>>
  PROVE  PageRest'
<1>1. /\ refresh'.pc # "idle"
      /\ \/ refresh' = refresh
         \/ /\ refresh.pc = "idle" /\ refresh'.pc = "sent"
            /\ refresh'.cookie = refreshCookie /\ refresh'.tok = 0
  BY SendEffect DEF PageInv
<1>2. Page!StoreWaitsInFlight' /\ StaleInv' /\ IdleInv'
  BY <1>1 DEF PageInv, Page!StoreWaitsInFlight, StaleInv, IdleInv
<1>3. CASE refresh' = refresh
  BY <1>2, <1>3 DEF PageInv, PageRest, IssuedInv, RotatedInv, EndedInv, Page!jar, Page!isAuthenticated
<1>4. CASE /\ refresh.pc = "idle" /\ refresh'.pc = "sent"
           /\ refresh'.cookie = refreshCookie /\ refresh'.tok = 0
  <2>1. IssuedInv' /\ RotatedInv'
    BY <1>4, PageBlanks DEF PageInv, IssuedInv, RotatedInv, Page!jar
  <2>2. EndedInv'
    BY <1>4 DEF PageInv, EndedInv, Page!jar, Page!isAuthenticated
  <2> QED
    BY <1>2, <2>1, <2>2 DEF PageRest
<1> QED
  BY <1>1, <1>3, <1>4

\* A refresh is over: what it left in the cookies was not rotated.
LEMMA RefreshOver ==
  ASSUME Page!SessionAssumption, PageInv, refresh' = Page!NoRefresh, ~storeWaits', pageIssued' = pageIssued,
         rotated' \subseteq rotated, refreshCookie' <= pageIssued, refreshCookie' \notin rotated',
         UNCHANGED ended
  PROVE  IssuedInv' /\ RotatedInv' /\ Page!StoreWaitsInFlight' /\ refresh'.pc = "idle"
<1>1. refresh'.pc = "idle" /\ refresh'.cookie = 0 /\ refresh'.tok = 0 /\ pageIssued \in Nat
  BY PageBlanks DEF PageInv
<1> QED
  BY <1>1 DEF PageInv, IssuedInv, RotatedInv, Page!StoreWaitsInFlight

LEMMA ServeKeeps ==
  ASSUME Page!SessionAssumption, PageInv, Page!ServeRefresh
  PROVE  PageRest'
<1> DEFINE n == refresh.cookie
<1>0. /\ Page!TypeOK /\ refresh.pc = "sent" /\ n \in Nat /\ pageIssued \in Nat /\ n <= pageIssued
      /\ UNCHANGED <<Page!jar, cached, lookup, user, storeWaits, ended>>
  BY PageBlanks DEF PageInv, Page!ServeRefresh, RefreshRecord, Page!tokens, IssuedInv
<1>1. CASE n = 0 \/ n \in spent
  <2>1. refresh' = [refresh EXCEPT !.pc = "served"] /\ UNCHANGED <<pageIssued, rotated>>
    BY <1>1 DEF Page!ServeRefresh
  <2>2. refresh'.pc = "served" /\ refresh'.cookie = n /\ refresh'.tok = refresh.tok
    BY <2>1, PageBlanks, <1>0 DEF RefreshRecord
  <2>3. refreshCookie \notin rotated
    BY <1>0 DEF PageInv, RotatedInv
  <2>4. refresh.tok = 0 /\ 0 \notin rotated
    BY <1>0, PageBlanks DEF PageInv, IdleInv
  <2> QED
    BY <1>0, <2>1, <2>2, <2>3, <2>4
    DEF PageInv, PageRest, IssuedInv, RotatedInv, EndedInv, StaleInv, IdleInv, Page!StoreWaitsInFlight, Page!jar,
        Page!isAuthenticated
<1>2. CASE ~(n = 0 \/ n \in spent)
  <2>1. /\ Page!Issue(owner[n], family[n]) /\ rotated' = rotated \cup {n}
        /\ refresh' = [refresh EXCEPT !.pc = "served", !.tok = pageIssued + 1]
    BY <1>2 DEF Page!ServeRefresh
  <2>2. refresh'.pc = "served" /\ refresh'.cookie = n /\ refresh'.tok = pageIssued + 1
    BY <2>1, PageBlanks, <1>0 DEF RefreshRecord
  <2>3. pageIssued' = pageIssued + 1
    BY <2>1 DEF Page!Issue
  <2>4. /\ \A k \in rotated : k <= pageIssued /\ k \in Nat
        /\ refreshCookie \in Nat /\ refreshCookie <= pageIssued /\ refreshCookie \notin rotated
    BY <1>0, PageBlanks DEF PageInv, IssuedInv, RotatedInv
  <2>5. IssuedInv' /\ RotatedInv'
    BY <1>0, <1>2, <2>1, <2>2, <2>3, <2>4 DEF IssuedInv, RotatedInv, Page!jar
  <2>6. EndedInv'
    BY <1>0, <1>2 DEF PageInv, EndedInv
  <2>7. StaleInv' /\ IdleInv' /\ Page!StoreWaitsInFlight'
    BY <1>0, <2>2 DEF PageInv, StaleInv, IdleInv, Page!StoreWaitsInFlight
  <2> QED
    BY <2>5, <2>6, <2>7 DEF PageRest
<1> QED
  BY <1>1, <1>2

\* The answer of a lookup: it enters an empty cache, or one of no later generation.
LEMMA LookupAnswerKeeps ==
  ASSUME Page!SessionAssumption, PageInv, NEW l \in Lookups, Page!LookupAnswers(l)
  PROVE  /\ PageRest'
         /\ cached # 0 => cached' = cached
<1>0. Page!TypeOK
  BY DEF PageInv
<1>1. PICK tok \in {lookup[l].tok, 0} :
        /\ cached' = IF Page!Stores(l, tok) THEN tok ELSE cached
        /\ lookup' = [k \in Lookups |->
             IF k = l THEN Page!NoLookupSent
             ELSE [lookup[k] EXCEPT !.stale =
                     @ \/ (Page!Stores(l, tok) /\ lookup[k].pc # "idle")]]
        /\ sessionCookie' = IF tok # 0 THEN tok ELSE sessionCookie
  BY DEF Page!LookupAnswers
<1>2. /\ lookup[l].pc = "sent"
      /\ UNCHANGED <<pageIssued, refreshCookie, refresh, storeWaits, user, rotated, ended>>
  BY DEF Page!LookupAnswers, Page!server, Page!history
<1>3. cached # 0 => ~Page!Stores(l, tok)
  BY <1>2 DEF PageInv, StaleInv, Page!Stores
<1>4. \A rec \in LookupRecord, b \in BOOLEAN :
        /\ [rec EXCEPT !.stale = @ \/ b].pc = rec.pc /\ [rec EXCEPT !.stale = @ \/ b].tok = rec.tok
        /\ [rec EXCEPT !.stale = @ \/ b].stale <=> rec.stale \/ b
  BY DEF LookupRecord
<1>5. ASSUME NEW k \in Lookups \ {l}
      PROVE  /\ lookup'[k].pc = lookup[k].pc /\ lookup'[k].tok = lookup[k].tok
             /\ lookup'[k].stale <=> lookup[k].stale \/ (Page!Stores(l, tok) /\ lookup[k].pc # "idle")
  <2> DEFINE b == Page!Stores(l, tok) /\ lookup[k].pc # "idle"
             rec == lookup[k]
             new == [rec EXCEPT !.stale = @ \/ b]
  <2>1. rec \in LookupRecord /\ b \in BOOLEAN
    BY <1>0, PageBlanks DEF Page!Stores
  <2>2. new.pc = rec.pc /\ new.tok = rec.tok /\ (new.stale <=> rec.stale \/ b)
    BY <1>4, <2>1, ZenonT(30)
  <2>3. lookup'[k] = new
    BY <1>1
  <2> HIDE DEF new
  <2> QED
    BY <2>2, <2>3
<1>6. lookup'[l].pc = "idle" /\ lookup'[l].tok = 0
  BY <1>0, <1>1, PageBlanks
<1>7. IssuedInv' /\ RotatedInv' /\ Page!StoreWaitsInFlight'
  BY <1>2 DEF PageInv, IssuedInv, RotatedInv, Page!StoreWaitsInFlight
<1>8. IdleInv'
  BY <1>2, <1>5, <1>6 DEF PageInv, IdleInv
<1>9. StaleInv'
  <2> SUFFICES ASSUME cached' # 0, NEW k \in Lookups, lookup'[k].pc = "sent"
               PROVE  lookup'[k].stale
    BY DEF StaleInv
  <2>1. k # l /\ lookup[k].pc = "sent"
    BY <1>5, <1>6
  <2>2. CASE Page!Stores(l, tok)
    BY <1>5, <2>1, <2>2
  <2>3. CASE ~Page!Stores(l, tok)
    BY <1>1, <1>5, <2>1, <2>3 DEF PageInv, StaleInv
  <2> QED
    BY <2>2, <2>3
<1>10. EndedInv'
  <2> SUFFICES ASSUME ended = "full"
               PROVE  EndedInv'
    BY <1>2 DEF EndedInv
  <2>1. tok = 0
    BY <1>1 DEF PageInv, EndedInv
  <2>2. cached' = cached /\ sessionCookie' = sessionCookie
    BY <1>1, <2>1 DEF Page!Stores
  <2> QED
    BY <1>2, <1>5, <1>6, <2>2 DEF PageInv, EndedInv, Page!isAuthenticated
<1> QED
  BY <1>1, <1>3, <1>7, <1>8, <1>9, <1>10 DEF PageRest

\* How a refresh ends, and with what in the cache and the cookies.
LEMMA RefreshEnds ==
  ASSUME Page!SessionAssumption, PageInv, Page!RefreshAnswers \/ Page!RefreshGarbled
  PROVE  PageRest'
<1> DEFINE n == refresh.tok
<1>0. /\ Page!TypeOK /\ n \in Page!Opt /\ n \in Nat /\ n <= pageIssued /\ n \notin rotated /\ refresh.pc = "served"
  BY PageBlanks DEF PageInv, IssuedInv, RotatedInv, Page!RefreshAnswers, Page!RefreshGarbled, RefreshRecord
<1>1. /\ refresh' = Page!NoRefresh /\ ~storeWaits' /\ UNCHANGED <<pageIssued, rotated, ended>>
      /\ IF n = 0 THEN UNCHANGED Page!jar ELSE refreshCookie' = n /\ sessionCookie' = n
  BY DEF Page!RefreshAnswers, Page!RefreshGarbled, Page!server, Page!history
<1>2. refreshCookie' <= pageIssued /\ refreshCookie' \notin rotated
  BY <1>0, <1>1 DEF PageInv, IssuedInv, RotatedInv, Page!jar
<1>3. /\ IssuedInv' /\ RotatedInv' /\ Page!StoreWaitsInFlight'
      /\ refresh'.pc = "idle" /\ refresh'.cookie = 0 /\ refresh'.tok = 0
  BY <1>0, <1>1, <1>2, RefreshOver, PageBlanks DEF PageInv
<1>4. CASE Page!RefreshAnswers
  <2>1. Page!WriteCache(n)
    BY <1>4 DEF Page!RefreshAnswers
  <2>2. /\ cached' = n
        /\ \A l \in Lookups : /\ lookup'[l].pc = lookup[l].pc /\ lookup'[l].tok = lookup[l].tok
                              /\ lookup'[l].pc = "sent" => lookup'[l].stale
    BY <1>0, <2>1, WriteEffect
  <2>3. StaleInv' /\ IdleInv'
    BY <1>1, <1>3, <2>2 DEF PageInv, StaleInv, IdleInv
  <2>4. ended = "full" => n = 0
    BY DEF PageInv, EndedInv
  <2>5. user' \in {user, NoUser} \/ n # 0
    BY <1>4 DEF Page!RefreshAnswers
  <2>6. EndedInv'
    BY <1>1, <1>3, <2>2, <2>4, <2>5 DEF PageInv, EndedInv, Page!jar, Page!isAuthenticated, Page!SessionAssumption
  <2> QED
    BY <1>3, <2>3, <2>6 DEF PageRest
<1>5. CASE Page!RefreshGarbled
  <2>1. UNCHANGED Page!tokens /\ user' \in {user, NoUser}
    BY <1>5 DEF Page!RefreshGarbled
  <2>2. StaleInv' /\ IdleInv'
    BY <1>1, <1>3, <2>1 DEF PageInv, StaleInv, IdleInv, Page!tokens
  <2>3. EndedInv'
    BY <1>1, <1>3, <2>1 DEF PageInv, EndedInv, Page!jar, Page!tokens, Page!isAuthenticated, Page!SessionAssumption
  <2> QED
    BY <1>3, <2>2, <2>3 DEF PageRest
<1> QED
  BY <1>4, <1>5

\* A refresh nobody hears the end of counts as rotated by no one.
LEMMA UnheardKeeps ==
  ASSUME Page!SessionAssumption, PageInv, Page!NeverHeard \/ (refresh.pc = "idle" /\ UNCHANGED rotated)
  PROVE  rotated' \subseteq rotated /\ refreshCookie \notin rotated'
  BY DEF PageInv, RotatedInv, Page!NeverHeard

LEMMA RefreshFailKeeps ==
  ASSUME Page!SessionAssumption, PageInv, Page!RefreshFails
  PROVE  PageRest'
<1>1. /\ refresh' = Page!NoRefresh /\ ~storeWaits' /\ Page!NeverHeard
      /\ UNCHANGED <<pageIssued, Page!jar, Page!tokens, user, ended>>
  BY DEF Page!RefreshFails
<1>2. /\ IssuedInv' /\ RotatedInv' /\ Page!StoreWaitsInFlight'
      /\ refresh'.pc = "idle" /\ refresh'.cookie = 0 /\ refresh'.tok = 0
  BY <1>1, UnheardKeeps, RefreshOver, PageBlanks DEF PageInv, IssuedInv, Page!jar
<1>3. EndedInv' /\ StaleInv' /\ IdleInv'
  BY <1>1, <1>2 DEF PageInv, EndedInv, StaleInv, IdleInv, Page!jar, Page!tokens, Page!isAuthenticated
<1> QED
  BY <1>2, <1>3 DEF PageRest

LEMMA ReloadKeeps ==
  ASSUME Page!SessionAssumption, PageInv, Page!Reload
  PROVE  PageRest'
<1>0. Page!TypeOK
  BY DEF PageInv
<1>1. /\ refresh' = Page!NoRefresh /\ ~storeWaits' /\ UNCHANGED <<pageIssued, Page!jar, user, ended>>
      /\ cached' = 0 /\ lookup' = [l \in Lookups |-> Page!NoLookupSent]
      /\ Page!NeverHeard \/ (refresh.pc = "idle" /\ UNCHANGED rotated)
  BY DEF Page!Reload
<1>2. /\ IssuedInv' /\ RotatedInv' /\ Page!StoreWaitsInFlight'
      /\ refresh'.pc = "idle" /\ refresh'.cookie = 0 /\ refresh'.tok = 0
  BY <1>0, <1>1, UnheardKeeps, RefreshOver, PageBlanks DEF PageInv, IssuedInv, Page!jar
<1>3. \A l \in Lookups : lookup'[l].tok = 0
  BY <1>0, <1>1, PageBlanks
<1>4. EndedInv' /\ StaleInv' /\ IdleInv'
  BY <1>1, <1>2, <1>3 DEF PageInv, EndedInv, StaleInv, IdleInv, Page!jar, Page!isAuthenticated
<1> QED
  BY <1>2, <1>4 DEF PageRest

\* A new login: a pair nobody has seen.
LEMMA PageLoginKeeps ==
  ASSUME Page!SessionAssumption, PageInv, Page!LoginAnswers
  PROVE  PageRest'
<1>1. /\ Page!Issue(loginSent, 0) /\ refreshCookie' = pageIssued' /\ ended' = "no"
      /\ UNCHANGED <<cached, lookup, refresh, storeWaits, rotated>>
  BY DEF Page!LoginAnswers, Page!tokens
<1>2. pageIssued' = pageIssued + 1
  BY <1>1 DEF Page!Issue
<1>3. pageIssued \in Nat /\ refresh \in RefreshRecord /\ rotated \subseteq Page!Tokens
  BY PageBlanks DEF PageInv
<1>4. refresh.cookie \in Nat /\ refresh.tok \in Nat /\ \A k \in rotated : k \in Nat
  BY <1>3, PageBlanks DEF RefreshRecord, PageInv
<1>5. IssuedInv' /\ RotatedInv'
  BY <1>1, <1>2, <1>3, <1>4 DEF PageInv, IssuedInv, RotatedInv
<1>6. EndedInv' /\ StaleInv' /\ IdleInv' /\ Page!StoreWaitsInFlight'
  BY <1>1 DEF PageInv, EndedInv, StaleInv, IdleInv, Page!StoreWaitsInFlight
<1> QED
  BY <1>5, <1>6 DEF PageRest

\* The cookies go.
LEMMA CookiesKeep ==
  ASSUME Page!SessionAssumption, PageInv, UNCHANGED Page!jar \/ (refreshCookie' = 0 /\ sessionCookie' = 0),
         UNCHANGED <<pageIssued, cached, lookup, refresh, rotated, ended, user, storeWaits>>
  PROVE  PageRest'
<1>1. 0 \notin rotated /\ pageIssued \in Nat
  BY PageBlanks DEF PageInv
<1>2. IssuedInv' /\ RotatedInv'
  BY <1>1 DEF PageInv, IssuedInv, RotatedInv, Page!jar
<1>3. EndedInv' /\ StaleInv' /\ IdleInv' /\ Page!StoreWaitsInFlight'
  BY DEF PageInv, EndedInv, StaleInv, IdleInv, Page!StoreWaitsInFlight, Page!jar, Page!isAuthenticated
<1> QED
  BY <1>2, <1>3 DEF PageRest

\* The page is reset: only a logout with nothing left in flight is a full one.
LEMMA SignOutKeeps ==
  ASSUME Page!SessionAssumption, PageInv, Page!SignOut
  PROVE  PageRest'
<1>1. /\ Page!WriteCache(0) /\ user' = NoUser
      /\ UNCHANGED <<pageIssued, refreshCookie, refresh, storeWaits, rotated>>
      /\ ended' = "full" => /\ refreshCookie = 0 /\ sessionCookie' = 0 /\ refresh.pc = "idle"
                            /\ \A l \in Lookups : lookup[l].pc = "idle"
  BY DEF Page!SignOut, Page!ResetSession, Page!server
<1>2. /\ cached' = 0 /\ 0 \in Page!Opt
      /\ \A l \in Lookups : /\ lookup'[l].pc = lookup[l].pc /\ lookup'[l].tok = lookup[l].tok
                            /\ lookup'[l].pc = "sent" => lookup'[l].stale
  BY <1>1, WriteEffect, PageBlanks DEF PageInv
<1>3. Page!NoRefresh.cookie = 0 /\ Page!NoRefresh.tok = 0
  BY PageBlanks DEF PageInv
<1>4. EndedInv'
  BY <1>1, <1>2, <1>3 DEF PageInv, IdleInv, EndedInv, Page!isAuthenticated, Page!SessionAssumption
<1>5. IssuedInv' /\ RotatedInv' /\ StaleInv' /\ IdleInv' /\ Page!StoreWaitsInFlight'
  BY <1>1, <1>2 DEF PageInv, IssuedInv, RotatedInv, StaleInv, IdleInv, Page!StoreWaitsInFlight
<1> QED
  BY <1>4, <1>5 DEF PageRest

-----------------------------------------------------------------------------
LEMMA PageInductive ==
  ASSUME Page!SessionAssumption
  PROVE  PageInv /\ [Page!Next]_Page!vars => PageInv'
<1> SUFFICES ASSUME PageInv, [Page!Next]_Page!vars
             PROVE  PageRest'
  BY PageTypes DEF PageInv, PageRest
<1> USE DEF Page!server, Page!jar, Page!tokens, Page!history
<1>1. CASE Page!AccessExpires \/ Page!LogoutUnheard \/ Page!LoginSend \/ UNCHANGED Page!vars
  BY <1>1, PageUntouched DEF Page!AccessExpires, Page!LogoutUnheard, Page!LoginSend, Page!vars
<1>2. CASE \E r \in PageRequests : Page!RequestAnswers(r)
  BY <1>2, PageUntouched DEF Page!RequestAnswers
<1>3. CASE Page!CacheExpires
  BY <1>3 DEF Page!CacheExpires, PageInv, PageRest, IssuedInv, RotatedInv, EndedInv, StaleInv, IdleInv,
              Page!StoreWaitsInFlight, Page!isAuthenticated
<1>4. CASE Page!ServeRefresh
  BY <1>4, ServeKeeps
<1>5. CASE \E l \in Lookups : Page!LookupAnswers(l)
  BY <1>5, LookupAnswerKeeps
<1>6. CASE Page!RefreshAnswers \/ Page!RefreshGarbled
  BY <1>6, RefreshEnds
<1>7. CASE Page!RefreshFails
  BY <1>7, RefreshFailKeeps
<1>8. CASE Page!RefreshSession
  BY <1>8, SendKeeps DEF Page!RefreshSession
<1>9. ASSUME NEW c \in Page!Callers, NEW rec \in Page!Call, Page!Resolve(c, rec),
             UNCHANGED <<Page!server, Page!jar, refresh, storeWaits, loginSent, user, Page!history>>
      PROVE  PageRest'
  <2>1. CASE UNCHANGED Page!tokens
    BY <1>9, <2>1, PageUntouched
  <2>2. ASSUME NEW l \in Lookups, cached = 0, UNCHANGED cached,
               lookup' = [lookup EXCEPT ![l] = [pc |-> "sent", tok |-> sessionCookie, stale |-> FALSE]]
        PROVE  PageRest'
    BY <1>9, <2>2, LookupKeeps
  <2> QED
    BY <1>9, <2>1, <2>2, ResolveEffect DEF PageInv
<1>10. CASE \E r \in PageRequests : Page!RequestStart(r)
  BY <1>9, <1>10, PageBlanks DEF Page!RequestStart, Page!Callers, PageInv
<1>11. CASE Page!LogoutBegin
  <2>1. PICK kind \in {"logout", "delete"} : Page!Resolve(Page!Out, [Page!NoCall EXCEPT !.kind = kind])
    BY <1>11 DEF Page!LogoutBegin
  <2>2. [Page!NoCall EXCEPT !.kind = kind] \in Page!Call /\ Page!Out \in Page!Callers
    <3>1. \A rec \in Page!Call : [rec EXCEPT !.kind = kind] \in Page!Call
      BY DEF Page!Call
    <3> QED
      BY <3>1, PageBlanks DEF PageInv, Page!Callers
  <2> QED
    BY <1>9, <1>11, <2>1, <2>2 DEF Page!LogoutBegin
<1>12. CASE \E r \in PageRequests : Page!RequestRefused(r)
  BY <1>12, SendKeeps DEF Page!RequestRefused
<1>13. CASE Page!LoginAnswers
  BY <1>13, PageLoginKeeps
<1>14. CASE Page!LoginFails
  <2>1. ~Page!isAuthenticated => ~Page!isAuthenticated'
    BY <1>14 DEF Page!LoginFails, Page!isAuthenticated, Page!SessionAssumption
  <2> QED
    BY <1>14, <2>1 DEF Page!LoginFails, PageInv, PageRest, IssuedInv, RotatedInv, EndedInv, StaleInv, IdleInv,
                       Page!StoreWaitsInFlight
<1>15. CASE Page!LogoutPost \/ Page!DeletePost
  BY <1>15, CookiesKeep DEF Page!LogoutPost, Page!DeletePost
<1>16. CASE Page!SignOut
  BY <1>16, SignOutKeeps
<1>17. CASE Page!Reload
  BY <1>17, ReloadKeeps
<1> QED
  BY <1>1, <1>2, <1>3, <1>4, <1>5, <1>6, <1>7, <1>8, <1>10, <1>11, <1>12, <1>13, <1>14, <1>15,
     <1>16, <1>17 DEF Page!Next

\* What the invariant gives.
LEMMA PageSafe ==
  ASSUME Page!SessionAssumption, PageInv
  PROVE  Page!ShownOnce /\ Page!LogoutSticks /\ Page!StoreWaitsInFlight
  BY DEF PageInv, RotatedInv, EndedInv, Page!ShownOnce, Page!LogoutSticks

\* Only a lookup whose generation is still that of the cache writes to it.
LEMMA CacheWrites ==
  ASSUME Page!SessionAssumption, PageInv, [Page!Next]_Page!vars, cached # 0, cached' \notin {0, cached}
  PROVE  refresh.pc = "served"
<1> USE DEF Page!server, Page!jar, Page!tokens, Page!history
<1>1. ASSUME NEW c \in Page!Callers, NEW rec \in Page!Call, Page!Resolve(c, rec)
      PROVE  FALSE
  BY <1>1, ResolveEffect DEF PageInv
<1>2. ASSUME NEW r \in PageRequests, Page!RequestStart(r)
      PROVE  FALSE
  BY <1>1, <1>2, PageBlanks DEF Page!RequestStart, Page!Callers, PageInv
<1>3. CASE Page!LogoutBegin
  <2>1. PICK kind \in {"logout", "delete"} : Page!Resolve(Page!Out, [Page!NoCall EXCEPT !.kind = kind])
    BY <1>3 DEF Page!LogoutBegin
  <2>2. cached' = cached
    BY <2>1 DEF Page!Resolve
  <2> QED
    BY <2>2
<1>4. ASSUME NEW l \in Lookups, Page!LookupAnswers(l)
      PROVE  FALSE
  BY <1>4, LookupAnswerKeeps
<1>5. CASE Page!RefreshAnswers
  BY <1>5 DEF Page!RefreshAnswers
<1> QED
  BY <1>2, <1>3, <1>4, <1>5
  DEF Page!Next, Page!vars, Page!AccessExpires, Page!CacheExpires, Page!ServeRefresh, Page!RefreshGarbled, Page!RefreshFails,
      Page!RefreshSession, Page!RequestAnswers, Page!RequestRefused, Page!LoginSend, Page!LoginAnswers, Page!LoginFails,
      Page!LogoutPost, Page!LogoutUnheard, Page!DeletePost, Page!SignOut, Page!ResetSession, Page!WriteCache, Page!Reload

-----------------------------------------------------------------------------
(* The page in the run of both                                             *)

LEMMA PageStep ==
  [NextMC]_<<vars, pageVars, part>> => [Page!Next]_Page!vars
  BY DEF NextMC, pageVars, Page!vars, Page!server, Page!jar, Page!tokens, Page!history

LEMMA PageInRun == SpecMC => []PageInv
<1>1. InitMC => PageInv
  BY PageAssumption, PageInitial DEF InitMC
<1>2. PageInv /\ [Page!Next]_Page!vars => PageInv'
  BY PageAssumption, PageInductive
<1> QED
  BY <1>1, <1>2, PageStep, PTL DEF SpecMC

\* However refreshes, lookups, logins and logouts overlap, the page shows a
\* rotated token only when an answer was lost, a full logout sticks, and the
\* store waits for no refresh that is over.
THEOREM PageAlwaysSound == SpecMC => []PageSound
<1>1. PageInv => PageSound
  BY PageAssumption, PageSafe DEF PageSound, PageInv
<1> QED
  BY <1>1, PageInRun, PTL

\* And only the answer of a refresh ever replaces a token in its cache.
THEOREM RefreshAlwaysWins == SpecMC => RefreshWins
<1>1. PageInv /\ [Page!Next]_Page!vars =>
        [cached # 0 /\ cached' \notin {0, cached} => refresh.pc = "served"]_Page!vars
  BY PageAssumption, CacheWrites
<1> QED
  BY <1>1, PageInRun, PageStep, PTL DEF SpecMC, RefreshWins, Page!RefreshWins
=============================================================================
