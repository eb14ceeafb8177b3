----------------------- MODULE AccountLifecycleProofs -----------------------
(***************************************************************************)
(* What AccountLifecycle does for any number of accounts that follow one   *)
(* another on an address, of links, passwords and overlapping requests.    *)
(***************************************************************************)
EXTENDS AccountLifecycle, TLAPS

\* The steps in which a handler relies on an account that it found active.
OnAccount == {"issue", "resend", "claim", "verify", "sign", "revoke", "password",
              "emit", "delete"}

\* What a handler remembers names rows; a token it holds is not issued again.
HandlerOK(r) ==
  /\ req[r].pc \in OnAccount \cup Restoring \cup {"anonymize"} => req[r].usr \in Users
  /\ req[r].pc \in {"account", "claim", "drop"} => req[r].tok \in Tokens
  /\ req[r].pc \in {"signUp", "emit"} => req[r].tok = NoToken
  /\ req[r].tok \in Tokens => kind[req[r].tok] \in {req[r].type, "none"}

\* The 30 days do not pass while a handler relies on an account.
AccountOK(r) == req[r].pc \in OnAccount => status[req[r].usr] \in {"active", "deleted"}

\* Whoever signs in or is sent a magic link has a verified address.
VerifiedOK(r) ==
  /\ req[r].pc = "sign" => req[r].usr \in verified
  /\ req[r].pc = "issue" /\ req[r].type = "MAGIC_LINK" => req[r].usr \in verified

HandlerInv == \A r \in Requests : HandlerOK(r)
AccountInv == \A r \in Requests : AccountOK(r)
VerifiedInv == \A r \in Requests : VerifiedOK(r)

\* One account at a time has the address; a magic link is out only if it is verified.
OneHolder == \A u, v \in Holders : u = v
MagicInv == (\E t \in Tokens : kind[t] = "MAGIC_LINK") => Holders \subseteq verified

\* The action that ErasureAfterWindow is about.
ErasedRightly ==
  \A u \in Users :
    /\ status'[u] = "erased" => status[u] \in {"overdue", "erased"}
    /\ status[u] = "erased" => status'[u] = "erased"

IInv == /\ TypeOK /\ HandlerInv /\ AccountInv /\ VerifiedInv /\ OneHolder /\ MagicInv
        /\ ActsOnce /\ SessionsVerified /\ ErasedIsBlank
USE AccountAssumption

\* A fresh row and a fresh token are what their names say.
LEMMA Fresh ==
  /\ NewUsers # {} => NewUser \in Users /\ status[NewUser] = "none"
  /\ NewTokens # {} => /\ NewToken \in Tokens /\ kind[NewToken] = "none"
                       /\ \A r \in Requests :
                             req[r].tok # NewToken /\ NewToken \notin req[r].seen
<1>1. NewUsers # {} => NewUser \in NewUsers
  BY DEF NewUser
<1>2. NewTokens # {} => NewToken \in NewTokens
  BY DEF NewToken
<1> QED BY <1>1, <1>2 DEF NewUsers, NewTokens

\* A handler goes on with an account it has found, or with the rows it has seen.
LEMMA Found ==
  ASSUME TypeOK, NEW r \in Requests
  PROVE  /\ RedeemAccount(r) =>
              /\ req' \in [Requests -> Handler]
              /\ \/ req'[r].pc = "drop" /\ req'[r].usr = req[r].usr
                 \/ req'[r].pc = "claim" /\ req'[r].usr \in Active
              /\ req'[r].tok = req[r].tok /\ req'[r].type = req[r].type
         /\ ResendBegin(r) =>
              /\ req' \in [Requests -> Handler]
              /\ req'[r].pc = "resend" /\ req'[r].usr = req[r].usr
              /\ req'[r].tok = req[r].tok /\ req'[r].type = req[r].type
         /\ SignUp(r) =>
              /\ req' \in [Requests -> Handler]
              /\ \/ req'[r] = Idle /\ UNCHANGED status
                 \/ /\ Holders = {} /\ NewUsers # {}
                    /\ req'[r].pc = "emit" /\ req'[r].usr = NewUser
                    /\ status' = [status EXCEPT ![NewUser] = "active"]
                    /\ req'[r].tok = req[r].tok /\ req'[r].type = req[r].type
         /\ RedeemAccount(r) \/ ResendBegin(r) \/ SignUp(r) =>
              \A q \in Requests : q # r => req'[q] = req[q]
<1> USE DEF TypeOK
<1>0. req[r] \in Handler /\ Active \subseteq Users
  BY DEF Active, Holders
<1>1. ASSUME RedeemAccount(r)
      PROVE /\ req' \in [Requests -> Handler]
            /\ \/ req'[r].pc = "drop" /\ req'[r].usr = req[r].usr
               \/ req'[r].pc = "claim" /\ req'[r].usr \in Active
            /\ req'[r].tok = req[r].tok /\ req'[r].type = req[r].type
  <2>1. CASE Goto(r, "drop")
    BY <1>0, <2>1 DEF Goto, Handler, Steps
  <2>2. ASSUME NEW u \in Active,
               req' = [req EXCEPT ![r] = [@ EXCEPT !.pc = "claim", !.usr = u]]
        PROVE /\ req' \in [Requests -> Handler]
              /\ req'[r].pc = "claim" /\ req'[r].usr = u
              /\ req'[r].tok = req[r].tok /\ req'[r].type = req[r].type
    <3>0. PICK k : k = [req[r] EXCEPT !.pc = "claim", !.usr = u]
      OBVIOUS
    <3>1. /\ k \in Handler /\ k.pc = "claim" /\ k.usr = u
          /\ k.tok = req[r].tok /\ k.type = req[r].type
      <4>1. "claim" \in Steps /\ u \in Users \cup {NoUser}
        BY <1>0 DEF Steps
      <4> QED BY <1>0, <3>0, <4>1 DEF Handler
    <3>2. req' = [req EXCEPT ![r] = k]
      BY <2>2, <3>0
    <3> QED BY <3>1, <3>2
  <2> QED BY <1>1, <2>1, <2>2 DEF RedeemAccount
<1>2. ASSUME ResendBegin(r)
      PROVE /\ req' \in [Requests -> Handler]
            /\ req'[r].pc = "resend" /\ req'[r].usr = req[r].usr
            /\ req'[r].tok = req[r].tok /\ req'[r].type = req[r].type
  <2>0. PICK k : k = [req[r] EXCEPT !.pc = "resend",
                                    !.seen = {t \in Tokens : kind[t] = "EMAIL"}]
    OBVIOUS
  <2>1. /\ k \in Handler /\ k.pc = "resend" /\ k.usr = req[r].usr
        /\ k.tok = req[r].tok /\ k.type = req[r].type
    <3>1. "resend" \in Steps /\ {t \in Tokens : kind[t] = "EMAIL"} \in SUBSET Tokens
      BY DEF Steps
    <3> QED BY <1>0, <2>0, <3>1 DEF Handler
  <2>2. req' = [req EXCEPT ![r] = k]
    BY <1>2, <2>0 DEF ResendBegin
  <2> QED BY <2>1, <2>2
<1>3. ASSUME SignUp(r)
      PROVE /\ req' \in [Requests -> Handler]
            /\ \/ req'[r] = Idle /\ UNCHANGED status
               \/ /\ Holders = {} /\ NewUsers # {}
                  /\ req'[r].pc = "emit" /\ req'[r].usr = NewUser
                  /\ status' = [status EXCEPT ![NewUser] = "active"]
                  /\ req'[r].tok = req[r].tok /\ req'[r].type = req[r].type
  <2>1. CASE Holders # {}
    BY <1>3, <2>1 DEF SignUp, Finish, Idle, Handler, Steps
  <2>2. CASE Holders = {}
    <3>0. PICK k : k = [req[r] EXCEPT !.pc = "emit", !.usr = NewUser]
      OBVIOUS
    <3>1. /\ k \in Handler /\ k.pc = "emit" /\ k.usr = NewUser
          /\ k.tok = req[r].tok /\ k.type = req[r].type
      <4>1. "emit" \in Steps /\ NewUser \in Users \cup {NoUser}
        BY <1>3, <2>2, Fresh DEF SignUp, Steps
      <4> QED BY <1>0, <3>0, <4>1 DEF Handler
    <3>2. /\ NewUsers # {} /\ req' = [req EXCEPT ![r] = k]
          /\ status' = [status EXCEPT ![NewUser] = "active"]
      BY <1>3, <2>2, <3>0 DEF SignUp
    <3> QED BY <2>2, <3>1, <3>2
  <2> QED BY <2>1, <2>2
<1>4. ASSUME RedeemAccount(r) \/ ResendBegin(r) \/ SignUp(r), NEW q \in Requests, q # r
      PROVE req'[q] = req[q]
  BY <1>4 DEF RedeemAccount, ResendBegin, SignUp, Goto, Finish
<1> QED BY <1>1, <1>2, <1>3, <1>4

\* Types survive a step, because a handler that acts knows its account.
LEMMA TypeStep ==
  ASSUME TypeOK, HandlerInv, [Next]_vars
  PROVE  TypeOK'
<1> USE DEF TypeOK, At, Goto, Finish, Idle, Handler, Steps, Acting, Restoring, userVars,
            linkVars, Statuses, LinkTypes, HandlerInv, HandlerOK, OnAccount
<1>1. ASSUME NEW r \in Requests, RequestArrives(r) PROVE TypeOK'
  <2>1. CASE RegisterFind(r)
    BY <2>1 DEF RegisterFind, Start
  <2>2. CASE GoogleFind(r)
    <3>1. Active \subseteq Users
      BY DEF Active, Holders
    <3>2. UNCHANGED <<userVars, linkVars, signedIn>>
      BY <2>2 DEF GoogleFind
    <3>3. CASE Active = {}
      BY <2>2, <3>3 DEF GoogleFind, Start
    <3>4. ASSUME NEW u \in Active, Start(r, [Idle EXCEPT !.pc = "emit", !.usr = u])
          PROVE TypeOK'
      BY <3>1, <3>2, <3>4 DEF Start
    <3> QED BY <2>2, <3>3, <3>4 DEF GoogleFind
  <2>3. ASSUME NEW u \in Users, NEW type \in LinkTypes, LinkRequest(r, u, type)
        PROVE TypeOK'
    BY <2>3 DEF LinkRequest, Start
  <2>4. ASSUME NEW t \in Tokens, RedeemFind(r, t) PROVE TypeOK'
    BY <2>4, ZenonT(30) DEF RedeemFind, Start
  <2>5. ASSUME NEW u \in Users, NEW pw \in Passwords, LoginFind(r, u, pw) PROVE TypeOK'
    BY <2>5 DEF LoginFind, Start
  <2>6. ASSUME NEW u \in Users, NEW pw \in Passwords, RestoreFind(r, u, pw)
        PROVE TypeOK'
    BY <2>6 DEF RestoreFind, Start
  <2>7. ASSUME NEW u \in Users, DeleteFind(r, u) PROVE TypeOK'
    BY <2>7 DEF DeleteFind, Start
  <2> QED BY <1>1, <2>1, <2>2, <2>3, <2>4, <2>5, <2>6, <2>7 DEF RequestArrives
<1>2. ASSUME NEW r \in Requests, HandlerStep(r) PROVE TypeOK'
  <2>1. CASE RegisterCreate(r)
    BY <2>1, Fresh, SMTT(30) DEF RegisterCreate
  <2>2. CASE Issue(r)
    BY <2>2, Fresh DEF Issue
  <2>3. CASE ResendBegin(r)
    <3> HIDE DEF Handler
    <3> QED BY <2>3, Found DEF ResendBegin
  <2>4. CASE ResendCommit(r)
    BY <2>4, Fresh DEF ResendCommit
  <2>5. CASE RedeemAccount(r)
    <3> HIDE DEF Handler
    <3>1. Active \subseteq Users
      BY DEF Active, Holders
    <3>2. UNCHANGED <<userVars, linkVars, signedIn>>
      BY <2>5 DEF RedeemAccount
    <3> QED BY <2>5, <3>1, <3>2, Found
  <2>6. CASE Drop(r)
    BY <2>6 DEF DeleteLink, Drop
  <2>7. CASE Claim(r)
    BY <2>7 DEF DeleteLink, StillValid, Claim
  <2>8. CASE MarkVerified(r)
    BY <2>8 DEF MarkVerified
  <2>9. CASE SignIn(r)
    BY <2>9 DEF SignIn
  <2>10. CASE RevokeSessions(r)
    BY <2>10 DEF RevokeSessions
  <2>11. CASE SetPassword(r)
    BY <2>11 DEF SetPassword
  <2>12. CASE SignUp(r)
    <3> HIDE DEF Handler
    <3>1. /\ UNCHANGED <<password, verified, linkVars, signedIn>>
          /\ status' \in [Users -> Statuses]
      BY <2>12, Found, Fresh DEF SignUp
    <3> QED BY <2>12, <3>1, Found
  <2>13. CASE Emit(r)
    BY <2>13 DEF Emit
  <2>14. CASE Delete(r)
    BY <2>14 DEF Delete
  <2>15. CASE RestoreWindow(r)
    BY <2>15 DEF RestoreWindow
  <2>16. CASE Restore(r)
    BY <2>16 DEF Restorable, Restore
  <2>17. CASE Anonymize(r)
    BY <2>17 DEF RowsOf, Anonymize
  <2> QED BY <1>2, <2>1, <2>2, <2>3, <2>4, <2>5, <2>6, <2>7, <2>8, <2>9, <2>10,
             <2>11, <2>12, <2>13, <2>14, <2>15, <2>16, <2>17 DEF HandlerStep
<1>3. ASSUME NEW r \in Requests, Fail(r) PROVE TypeOK'
  BY <1>3 DEF Fail
<1>4. ASSUME NEW r \in Requests, NEW u \in Users, EraseFind(r, u) PROVE TypeOK'
  BY <1>4 DEF EraseFind, Due, Start
<1>5. ASSUME NEW u \in signedIn, SessionsEnd(u) PROVE TypeOK'
  BY <1>5 DEF SessionsEnd
<1>6. ASSUME NEW t \in Tokens, LinkExpires(t) PROVE TypeOK'
  BY <1>6 DEF LinkExpires
<1>7. ASSUME NEW u \in Users, WindowPasses(u) PROVE TypeOK'
  BY <1>7 DEF WindowPasses, Late
<1>8. CASE UNCHANGED vars
  BY <1>8 DEF vars
<1> QED BY <1>1, <1>2, <1>3, <1>4, <1>5, <1>6, <1>7, <1>8 DEF Next

\* What handlers remember stays true: a token they hold is not issued again.
LEMMA HandlerStepInv ==
  ASSUME TypeOK, HandlerInv, [Next]_vars
  PROVE  HandlerInv'
<1> USE DEF TypeOK, At, Goto, Finish, Idle, Handler, Steps, Acting, Restoring, userVars,
            linkVars, LinkTypes, HandlerInv, HandlerOK, OnAccount
<1>1. ASSUME NEW r \in Requests, RequestArrives(r) PROVE HandlerInv'
  <2>1. CASE RegisterFind(r)
    BY <2>1 DEF RegisterFind, Start
  <2>2. CASE GoogleFind(r)
    <3>1. Active \subseteq Users
      BY DEF Active, Holders
    <3>2. UNCHANGED <<userVars, linkVars, signedIn>>
      BY <2>2 DEF GoogleFind
    <3>3. CASE Active = {}
      BY <2>2, <3>3 DEF GoogleFind, Start
    <3>4. ASSUME NEW u \in Active, Start(r, [Idle EXCEPT !.pc = "emit", !.usr = u])
          PROVE HandlerInv'
      BY <3>1, <3>2, <3>4 DEF Start
    <3> QED BY <2>2, <3>3, <3>4 DEF GoogleFind
  <2>3. ASSUME NEW u \in Users, NEW type \in LinkTypes, LinkRequest(r, u, type)
        PROVE HandlerInv'
    BY <2>3 DEF LinkRequest, Start
  <2>4. ASSUME NEW t \in Tokens, RedeemFind(r, t) PROVE HandlerInv'
    BY <2>4 DEF RedeemFind, Start
  <2>5. ASSUME NEW u \in Users, NEW pw \in Passwords, LoginFind(r, u, pw)
        PROVE HandlerInv'
    BY <2>5 DEF LoginFind, Start
  <2>6. ASSUME NEW u \in Users, NEW pw \in Passwords, RestoreFind(r, u, pw)
        PROVE HandlerInv'
    BY <2>6 DEF RestoreFind, Start
  <2>7. ASSUME NEW u \in Users, DeleteFind(r, u) PROVE HandlerInv'
    BY <2>7 DEF DeleteFind, Start
  <2> QED BY <1>1, <2>1, <2>2, <2>3, <2>4, <2>5, <2>6, <2>7 DEF RequestArrives
<1>2. ASSUME NEW r \in Requests, HandlerStep(r) PROVE HandlerInv'
  <2>1. CASE RegisterCreate(r)
    BY <2>1, Fresh DEF RegisterCreate
  <2>2. CASE Issue(r)
    BY <2>2, Fresh DEF Issue
  <2>3. CASE ResendBegin(r)
    <3> HIDE DEF Handler
    <3>1. UNCHANGED linkVars /\ req[r].pc = "issue"
      BY <2>3 DEF ResendBegin
    <3>2. HandlerOK(r)'
      BY <2>3, <3>1, Found
    <3>3. ASSUME NEW q \in Requests, q # r PROVE HandlerOK(q)'
      <4>1. req'[q] = req[q]
        BY <2>3, <3>3, Found
      <4> QED BY <3>1, <3>3, <4>1
    <3> QED BY <3>2, <3>3
  <2>4. CASE ResendCommit(r)
    BY <2>4, Fresh DEF ResendCommit
  <2>5. CASE RedeemAccount(r)
    <3> HIDE DEF Handler
    <3>1. UNCHANGED linkVars /\ Active \subseteq Users /\ req[r].pc = "account"
      BY <2>5 DEF RedeemAccount, Active, Holders
    <3>2. HandlerOK(r)'
      BY <2>5, <3>1, Found
    <3>3. ASSUME NEW q \in Requests, q # r PROVE HandlerOK(q)'
      <4>1. req'[q] = req[q]
        BY <2>5, <3>3, Found
      <4> QED BY <3>1, <3>3, <4>1
    <3> QED BY <3>2, <3>3
  <2>6. CASE Drop(r)
    BY <2>6 DEF DeleteLink, Drop
  <2>7. CASE Claim(r)
    BY <2>7 DEF DeleteLink, StillValid, Claim
  <2>8. CASE MarkVerified(r)
    BY <2>8 DEF MarkVerified
  <2>9. CASE SignIn(r)
    BY <2>9 DEF SignIn
  <2>10. CASE RevokeSessions(r)
    BY <2>10 DEF RevokeSessions
  <2>11. CASE SetPassword(r)
    BY <2>11 DEF SetPassword
  <2>12. CASE SignUp(r)
    <3> HIDE DEF Handler
    <3>1. UNCHANGED linkVars /\ req[r].pc = "signUp"
      BY <2>12 DEF SignUp
    <3>2. HandlerOK(r)'
      BY <2>12, <3>1, Found, Fresh
    <3>3. ASSUME NEW q \in Requests, q # r PROVE HandlerOK(q)'
      <4>1. req'[q] = req[q]
        BY <2>12, <3>3, Found
      <4> QED BY <3>1, <3>3, <4>1
    <3> QED BY <3>2, <3>3
  <2>13. CASE Emit(r)
    BY <2>13 DEF Emit
  <2>14. CASE Delete(r)
    BY <2>14 DEF Delete
  <2>15. CASE RestoreWindow(r)
    BY <2>15 DEF RestoreWindow
  <2>16. CASE Restore(r)
    BY <2>16 DEF Restorable, Restore
  <2>17. CASE Anonymize(r)
    BY <2>17 DEF RowsOf, Anonymize
  <2> QED BY <1>2, <2>1, <2>2, <2>3, <2>4, <2>5, <2>6, <2>7, <2>8, <2>9, <2>10,
             <2>11, <2>12, <2>13, <2>14, <2>15, <2>16, <2>17 DEF HandlerStep
<1>3. ASSUME NEW r \in Requests, Fail(r) PROVE HandlerInv'
  BY <1>3 DEF Fail
<1>4. ASSUME NEW r \in Requests, NEW u \in Users, EraseFind(r, u) PROVE HandlerInv'
  BY <1>4 DEF EraseFind, Due, Start
<1>5. ASSUME NEW u \in signedIn, SessionsEnd(u) PROVE HandlerInv'
  BY <1>5 DEF SessionsEnd
<1>6. ASSUME NEW t \in Tokens, LinkExpires(t) PROVE HandlerInv'
  BY <1>6 DEF LinkExpires
<1>7. ASSUME NEW u \in Users, WindowPasses(u) PROVE HandlerInv'
  BY <1>7 DEF WindowPasses, Late
<1>8. CASE UNCHANGED vars
  BY <1>8 DEF vars
<1> QED BY <1>1, <1>2, <1>3, <1>4, <1>5, <1>6, <1>7, <1>8 DEF Next

\* The address has one holder, and the 30 days pass under no handler's feet.
LEMMA AccountStep ==
  ASSUME TypeOK, HandlerInv, AccountInv, OneHolder, [Next]_vars
  PROVE  AccountInv' /\ OneHolder'
<1> USE DEF TypeOK, At, Goto, Finish, Idle, Handler, Steps, Acting, Restoring, userVars,
            linkVars, HandlerInv, HandlerOK, AccountInv, AccountOK, OnAccount,
            OneHolder, Holders
<1>1. ASSUME NEW r \in Requests, RequestArrives(r) PROVE AccountInv' /\ OneHolder'
  <2>1. CASE RegisterFind(r)
    BY <2>1 DEF RegisterFind, Start
  <2>2. CASE GoogleFind(r)
    <3>1. Active \subseteq Users
      BY DEF Active, Holders
    <3>2. UNCHANGED <<userVars, linkVars, signedIn>>
      BY <2>2 DEF GoogleFind
    <3>3. CASE Active = {}
      BY <2>2, <3>3 DEF GoogleFind, Start
    <3>4. ASSUME NEW u \in Active, Start(r, [Idle EXCEPT !.pc = "emit", !.usr = u])
          PROVE AccountInv' /\ OneHolder'
      BY <3>1, <3>2, <3>4 DEF Start, Active
    <3> QED BY <2>2, <3>3, <3>4 DEF GoogleFind
  <2>3. ASSUME NEW u \in Users, NEW type \in LinkTypes, LinkRequest(r, u, type)
        PROVE AccountInv' /\ OneHolder'
    BY <2>3 DEF Active, LinkRequest, Start
  <2>4. ASSUME NEW t \in Tokens, RedeemFind(r, t) PROVE AccountInv' /\ OneHolder'
    BY <2>4 DEF RedeemFind, Start
  <2>5. ASSUME NEW u \in Users, NEW pw \in Passwords, LoginFind(r, u, pw)
        PROVE AccountInv' /\ OneHolder'
    BY <2>5 DEF Active, LoginFind, Start
  <2>6. ASSUME NEW u \in Users, NEW pw \in Passwords, RestoreFind(r, u, pw)
        PROVE AccountInv' /\ OneHolder'
    BY <2>6 DEF RestoreFind, Start
  <2>7. ASSUME NEW u \in Users, DeleteFind(r, u) PROVE AccountInv' /\ OneHolder'
    BY <2>7 DEF Active, DeleteFind, Start
  <2> QED BY <1>1, <2>1, <2>2, <2>3, <2>4, <2>5, <2>6, <2>7 DEF RequestArrives
<1>2. ASSUME NEW r \in Requests, HandlerStep(r) PROVE AccountInv' /\ OneHolder'
  <2>1. CASE RegisterCreate(r)
    BY <2>1, Fresh DEF RegisterCreate
  <2>2. CASE Issue(r)
    BY <2>2 DEF Issue
  <2>3. CASE ResendBegin(r)
    <3> HIDE DEF Handler
    <3>1. UNCHANGED status /\ req[r].pc = "issue"
      BY <2>3 DEF ResendBegin
    <3>2. AccountOK(r)'
      BY <2>3, <3>1, Found
    <3>3. ASSUME NEW q \in Requests, q # r PROVE AccountOK(q)'
      <4>1. req'[q] = req[q]
        BY <2>3, <3>3, Found
      <4> QED BY <3>1, <3>3, <4>1
    <3>4. OneHolder'
      BY <3>1
    <3> QED BY <3>2, <3>3, <3>4
  <2>4. CASE ResendCommit(r)
    BY <2>4 DEF ResendCommit
  <2>5. CASE RedeemAccount(r)
    <3> HIDE DEF Handler
    <3>1. UNCHANGED status
      BY <2>5 DEF RedeemAccount
    <3>2. AccountOK(r)'
      BY <2>5, <3>1, Found DEF Active
    <3>3. ASSUME NEW q \in Requests, q # r PROVE AccountOK(q)'
      <4>1. req'[q] = req[q]
        BY <2>5, <3>3, Found
      <4> QED BY <3>1, <3>3, <4>1
    <3>4. OneHolder'
      BY <3>1
    <3> QED BY <3>2, <3>3, <3>4
  <2>6. CASE Drop(r)
    BY <2>6 DEF DeleteLink, Drop
  <2>7. CASE Claim(r)
    BY <2>7 DEF DeleteLink, StillValid, Claim
  <2>8. CASE MarkVerified(r)
    BY <2>8 DEF MarkVerified
  <2>9. CASE SignIn(r)
    BY <2>9 DEF SignIn
  <2>10. CASE RevokeSessions(r)
    BY <2>10 DEF RevokeSessions
  <2>11. CASE SetPassword(r)
    BY <2>11 DEF SetPassword
  <2>12. CASE SignUp(r)
    <3> HIDE DEF Handler
    <3>1. \/ UNCHANGED status
          \/ /\ Holders = {} /\ NewUser \in Users /\ status[NewUser] = "none"
             /\ status' = [status EXCEPT ![NewUser] = "active"]
      BY <2>12, Found, Fresh
    <3>2. AccountOK(r)'
      BY <2>12, <3>1, Found, Fresh
    <3>3. ASSUME NEW q \in Requests, q # r PROVE AccountOK(q)'
      <4>1. req'[q] = req[q]
        BY <2>12, <3>3, Found
      <4> QED BY <3>1, <3>3, <4>1
    <3>4. OneHolder'
      BY <3>1
    <3> QED BY <3>2, <3>3, <3>4
  <2>13. CASE Emit(r)
    BY <2>13 DEF Emit
  <2>14. CASE Delete(r)
    BY <2>14 DEF Delete
  <2>15. CASE RestoreWindow(r)
    BY <2>15 DEF RestoreWindow
  <2>16. CASE Restore(r)
    BY <2>16 DEF Restorable, Restore
  <2>17. CASE Anonymize(r)
    BY <2>17 DEF RowsOf, Anonymize
  <2> QED BY <1>2, <2>1, <2>2, <2>3, <2>4, <2>5, <2>6, <2>7, <2>8, <2>9, <2>10,
             <2>11, <2>12, <2>13, <2>14, <2>15, <2>16, <2>17 DEF HandlerStep
<1>3. ASSUME NEW r \in Requests, Fail(r) PROVE AccountInv' /\ OneHolder'
  BY <1>3 DEF Fail
<1>4. ASSUME NEW r \in Requests, NEW u \in Users, EraseFind(r, u)
      PROVE AccountInv' /\ OneHolder'
  BY <1>4 DEF EraseFind, Due, Start
<1>5. ASSUME NEW u \in signedIn, SessionsEnd(u) PROVE AccountInv' /\ OneHolder'
  BY <1>5 DEF SessionsEnd
<1>6. ASSUME NEW t \in Tokens, LinkExpires(t) PROVE AccountInv' /\ OneHolder'
  BY <1>6 DEF LinkExpires
<1>7. ASSUME NEW u \in Users, WindowPasses(u) PROVE AccountInv' /\ OneHolder'
  BY <1>7 DEF WindowPasses, Late
<1>8. CASE UNCHANGED vars
  BY <1>8 DEF vars
<1> QED BY <1>1, <1>2, <1>3, <1>4, <1>5, <1>6, <1>7, <1>8 DEF Next

\* Only the deletion of a link's row lets a handler act, and it happens once.
LEMMA ActsStep ==
  ASSUME TypeOK, HandlerInv, ActsOnce, [Next]_vars
  PROVE  ActsOnce'
<1> USE DEF TypeOK, At, Goto, Finish, Idle, Handler, Steps, Acting, Restoring, userVars,
            linkVars, HandlerInv, HandlerOK, OnAccount, ActsOnce
<1>1. ASSUME NEW r \in Requests, RequestArrives(r) PROVE ActsOnce'
  <2>1. CASE RegisterFind(r)
    BY <2>1 DEF RegisterFind, Start
  <2>2. CASE GoogleFind(r)
    <3>1. Active \subseteq Users
      BY DEF Active, Holders
    <3>2. UNCHANGED <<userVars, linkVars, signedIn>>
      BY <2>2 DEF GoogleFind
    <3>3. CASE Active = {}
      BY <2>2, <3>3 DEF GoogleFind, Start
    <3>4. ASSUME NEW u \in Active, Start(r, [Idle EXCEPT !.pc = "emit", !.usr = u])
          PROVE ActsOnce'
      BY <3>1, <3>2, <3>4 DEF Start
    <3> QED BY <2>2, <3>3, <3>4 DEF GoogleFind
  <2>3. ASSUME NEW u \in Users, NEW type \in LinkTypes, LinkRequest(r, u, type)
        PROVE ActsOnce'
    BY <2>3 DEF LinkRequest, Start
  <2>4. ASSUME NEW t \in Tokens, RedeemFind(r, t) PROVE ActsOnce'
    BY <2>4 DEF RedeemFind, Start
  <2>5. ASSUME NEW u \in Users, NEW pw \in Passwords, LoginFind(r, u, pw)
        PROVE ActsOnce'
    BY <2>5 DEF LoginFind, Start
  <2>6. ASSUME NEW u \in Users, NEW pw \in Passwords, RestoreFind(r, u, pw)
        PROVE ActsOnce'
    BY <2>6 DEF RestoreFind, Start
  <2>7. ASSUME NEW u \in Users, DeleteFind(r, u) PROVE ActsOnce'
    BY <2>7 DEF DeleteFind, Start
  <2> QED BY <1>1, <2>1, <2>2, <2>3, <2>4, <2>5, <2>6, <2>7 DEF RequestArrives
<1>2. ASSUME NEW r \in Requests, HandlerStep(r) PROVE ActsOnce'
  <2>1. CASE RegisterCreate(r)
    BY <2>1, Fresh DEF RegisterCreate
  <2>2. CASE Issue(r)
    BY <2>2, Fresh DEF Issue
  <2>3. CASE ResendBegin(r)
    <3> HIDE DEF Handler
    <3>1. UNCHANGED kind
      BY <2>3 DEF ResendBegin
    <3>2. \A q \in Requests : q # r => req'[q] = req[q]
      BY <2>3, Found
    <3>3. req'[r].pc \notin Acting \/ req'[r].tok = NoToken
      BY <2>3, Found
    <3> QED BY <3>1, <3>2, <3>3
  <2>4. CASE ResendCommit(r)
    BY <2>4, Fresh DEF ResendCommit
  <2>5. CASE RedeemAccount(r)
    <3> HIDE DEF Handler
    <3>1. UNCHANGED kind
      BY <2>5 DEF RedeemAccount
    <3>2. \A q \in Requests : q # r => req'[q] = req[q]
      BY <2>5, Found
    <3>3. req'[r].pc \notin Acting \/ req'[r].tok = NoToken
      BY <2>5, Found
    <3> QED BY <3>1, <3>2, <3>3
  <2>6. CASE Drop(r)
    BY <2>6 DEF DeleteLink, Drop
  <2>7. CASE Claim(r)
    BY <2>7 DEF DeleteLink, StillValid, Claim
  <2>8. CASE MarkVerified(r)
    BY <2>8 DEF MarkVerified
  <2>9. CASE SignIn(r)
    BY <2>9 DEF SignIn
  <2>10. CASE RevokeSessions(r)
    BY <2>10 DEF RevokeSessions
  <2>11. CASE SetPassword(r)
    BY <2>11 DEF SetPassword
  <2>12. CASE SignUp(r)
    <3> HIDE DEF Handler
    <3>1. UNCHANGED kind
      BY <2>12 DEF SignUp
    <3>2. \A q \in Requests : q # r => req'[q] = req[q]
      BY <2>12, Found
    <3>3. req'[r].pc \notin Acting \/ req'[r].tok = NoToken
      BY <2>12, Found
    <3> QED BY <3>1, <3>2, <3>3
  <2>13. CASE Emit(r)
    BY <2>13 DEF Emit
  <2>14. CASE Delete(r)
    BY <2>14 DEF Delete
  <2>15. CASE RestoreWindow(r)
    BY <2>15 DEF RestoreWindow
  <2>16. CASE Restore(r)
    BY <2>16 DEF Restorable, Restore
  <2>17. CASE Anonymize(r)
    BY <2>17 DEF RowsOf, Anonymize
  <2> QED BY <1>2, <2>1, <2>2, <2>3, <2>4, <2>5, <2>6, <2>7, <2>8, <2>9, <2>10,
             <2>11, <2>12, <2>13, <2>14, <2>15, <2>16, <2>17 DEF HandlerStep
<1>3. ASSUME NEW r \in Requests, Fail(r) PROVE ActsOnce'
  BY <1>3 DEF Fail
<1>4. ASSUME NEW r \in Requests, NEW u \in Users, EraseFind(r, u) PROVE ActsOnce'
  BY <1>4 DEF EraseFind, Due, Start
<1>5. ASSUME NEW u \in signedIn, SessionsEnd(u) PROVE ActsOnce'
  BY <1>5 DEF SessionsEnd
<1>6. ASSUME NEW t \in Tokens, LinkExpires(t) PROVE ActsOnce'
  BY <1>6 DEF LinkExpires
<1>7. ASSUME NEW u \in Users, WindowPasses(u) PROVE ActsOnce'
  BY <1>7 DEF WindowPasses, Late
<1>8. CASE UNCHANGED vars
  BY <1>8 DEF vars
<1> QED BY <1>1, <1>2, <1>3, <1>4, <1>5, <1>6, <1>7, <1>8 DEF Next

\* Every way into the step "sign" has found or made the address verified.
LEMMA VerifiedStep ==
  ASSUME TypeOK, HandlerInv, AccountInv, VerifiedInv, OneHolder, MagicInv, [Next]_vars
  PROVE  VerifiedInv'
<1> USE DEF TypeOK, At, Goto, Finish, Idle, Handler, Steps, Acting, Restoring, userVars,
            linkVars, HandlerInv, HandlerOK, OnAccount, AccountInv, AccountOK,
            VerifiedInv, VerifiedOK
<1>1. ASSUME NEW r \in Requests, RequestArrives(r) PROVE VerifiedInv'
  <2>1. CASE RegisterFind(r)
    BY <2>1 DEF RegisterFind, Start
  <2>2. CASE GoogleFind(r)
    <3>1. Active \subseteq Users
      BY DEF Active, Holders
    <3>2. UNCHANGED <<userVars, linkVars, signedIn>>
      BY <2>2 DEF GoogleFind
    <3>3. CASE Active = {}
      BY <2>2, <3>3 DEF GoogleFind, Start
    <3>4. ASSUME NEW u \in Active, Start(r, [Idle EXCEPT !.pc = "emit", !.usr = u])
          PROVE VerifiedInv'
      BY <3>1, <3>2, <3>4 DEF Start
    <3> QED BY <2>2, <3>3, <3>4 DEF GoogleFind
  <2>3. ASSUME NEW u \in Users, NEW type \in LinkTypes, LinkRequest(r, u, type)
        PROVE VerifiedInv'
    BY <2>3 DEF MayIssue, LinkRequest, Start
  <2>4. ASSUME NEW t \in Tokens, RedeemFind(r, t) PROVE VerifiedInv'
    BY <2>4 DEF RedeemFind, Start
  <2>5. ASSUME NEW u \in Users, NEW pw \in Passwords, LoginFind(r, u, pw)
        PROVE VerifiedInv'
    BY <2>5 DEF LoginFind, Start
  <2>6. ASSUME NEW u \in Users, NEW pw \in Passwords, RestoreFind(r, u, pw)
        PROVE VerifiedInv'
    BY <2>6 DEF RestoreFind, Start
  <2>7. ASSUME NEW u \in Users, DeleteFind(r, u) PROVE VerifiedInv'
    BY <2>7 DEF DeleteFind, Start
  <2> QED BY <1>1, <2>1, <2>2, <2>3, <2>4, <2>5, <2>6, <2>7 DEF RequestArrives
<1>2. ASSUME NEW r \in Requests, HandlerStep(r) PROVE VerifiedInv'
  <2>1. CASE RegisterCreate(r)
    BY <2>1 DEF RegisterCreate
  <2>2. CASE Issue(r)
    BY <2>2 DEF Issue
  <2>3. CASE ResendBegin(r)
    <3> HIDE DEF Handler
    <3>1. UNCHANGED verified
      BY <2>3 DEF ResendBegin
    <3>2. VerifiedOK(r)'
      BY <2>3, <3>1, Found
    <3>3. ASSUME NEW q \in Requests, q # r PROVE VerifiedOK(q)'
      <4>1. req'[q] = req[q]
        BY <2>3, <3>3, Found
      <4> QED BY <3>1, <3>3, <4>1
    <3> QED BY <3>2, <3>3
  <2>4. CASE ResendCommit(r)
    BY <2>4 DEF ResendCommit
  <2>5. CASE RedeemAccount(r)
    <3> HIDE DEF Handler
    <3>1. UNCHANGED verified
      BY <2>5 DEF RedeemAccount
    <3>2. VerifiedOK(r)'
      BY <2>5, <3>1, Found
    <3>3. ASSUME NEW q \in Requests, q # r PROVE VerifiedOK(q)'
      <4>1. req'[q] = req[q]
        BY <2>5, <3>3, Found
      <4> QED BY <3>1, <3>3, <4>1
    <3> QED BY <3>2, <3>3
  <2>6. CASE Drop(r)
    BY <2>6 DEF Drop
  <2>7. CASE Claim(r)
    BY <2>7 DEF DeleteLink, StillValid, OneHolder, MagicInv, Holders, Claim
  <2>8. CASE MarkVerified(r)
    BY <2>8 DEF MarkVerified
  <2>9. CASE SignIn(r)
    BY <2>9 DEF SignIn
  <2>10. CASE RevokeSessions(r)
    BY <2>10 DEF RevokeSessions
  <2>11. CASE SetPassword(r)
    BY <2>11 DEF SetPassword
  <2>12. CASE SignUp(r)
    <3> HIDE DEF Handler
    <3>1. UNCHANGED verified
      BY <2>12 DEF SignUp
    <3>2. VerifiedOK(r)'
      BY <2>12, <3>1, Found
    <3>3. ASSUME NEW q \in Requests, q # r PROVE VerifiedOK(q)'
      <4>1. req'[q] = req[q]
        BY <2>12, <3>3, Found
      <4> QED BY <3>1, <3>3, <4>1
    <3> QED BY <3>2, <3>3
  <2>13. CASE Emit(r)
    BY <2>13 DEF Emit
  <2>14. CASE Delete(r)
    BY <2>14 DEF Delete
  <2>15. CASE RestoreWindow(r)
    BY <2>15 DEF RestoreWindow
  <2>16. CASE Restore(r)
    BY <2>16 DEF Restorable, Restore
  <2>17. CASE Anonymize(r)
    BY <2>17 DEF RowsOf, Anonymize
  <2> QED BY <1>2, <2>1, <2>2, <2>3, <2>4, <2>5, <2>6, <2>7, <2>8, <2>9, <2>10,
             <2>11, <2>12, <2>13, <2>14, <2>15, <2>16, <2>17 DEF HandlerStep
<1>3. ASSUME NEW r \in Requests, Fail(r) PROVE VerifiedInv'
  BY <1>3 DEF Fail
<1>4. ASSUME NEW r \in Requests, NEW u \in Users, EraseFind(r, u) PROVE VerifiedInv'
  BY <1>4 DEF EraseFind, Due, Start
<1>5. ASSUME NEW u \in signedIn, SessionsEnd(u) PROVE VerifiedInv'
  BY <1>5 DEF SessionsEnd
<1>6. ASSUME NEW t \in Tokens, LinkExpires(t) PROVE VerifiedInv'
  BY <1>6 DEF LinkExpires
<1>7. ASSUME NEW u \in Users, WindowPasses(u) PROVE VerifiedInv'
  BY <1>7 DEF WindowPasses, Late
<1>8. CASE UNCHANGED vars
  BY <1>8 DEF vars
<1> QED BY <1>1, <1>2, <1>3, <1>4, <1>5, <1>6, <1>7, <1>8 DEF Next

\* A magic link is out only while the account of the address is verified.
LEMMA MagicStep ==
  ASSUME TypeOK, HandlerInv, AccountInv, VerifiedInv, OneHolder, MagicInv, ErasedIsBlank,
         [Next]_vars
  PROVE  MagicInv'
<1> USE DEF TypeOK, At, Goto, Finish, Idle, Handler, Steps, Acting, Restoring, userVars,
            linkVars, HandlerInv, HandlerOK, OnAccount, AccountInv, AccountOK,
            VerifiedInv, VerifiedOK, Holders, OneHolder, MagicInv, ErasedIsBlank
<1>1. ASSUME NEW r \in Requests, RequestArrives(r) PROVE MagicInv'
  <2>1. CASE RegisterFind(r)
    BY <2>1 DEF RegisterFind, Start
  <2>2. CASE GoogleFind(r)
    <3>1. UNCHANGED <<userVars, linkVars, signedIn>>
      BY <2>2 DEF GoogleFind
    <3> QED BY <3>1
  <2>3. ASSUME NEW u \in Users, NEW type \in LinkTypes, LinkRequest(r, u, type)
        PROVE MagicInv'
    BY <2>3 DEF LinkRequest, Start
  <2>4. ASSUME NEW t \in Tokens, RedeemFind(r, t) PROVE MagicInv'
    BY <2>4 DEF RedeemFind, Start
  <2>5. ASSUME NEW u \in Users, NEW pw \in Passwords, LoginFind(r, u, pw)
        PROVE MagicInv'
    BY <2>5 DEF LoginFind, Start
  <2>6. ASSUME NEW u \in Users, NEW pw \in Passwords, RestoreFind(r, u, pw)
        PROVE MagicInv'
    BY <2>6 DEF RestoreFind, Start
  <2>7. ASSUME NEW u \in Users, DeleteFind(r, u) PROVE MagicInv'
    BY <2>7 DEF DeleteFind, Start
  <2> QED BY <1>1, <2>1, <2>2, <2>3, <2>4, <2>5, <2>6, <2>7 DEF RequestArrives
<1>2. ASSUME NEW r \in Requests, HandlerStep(r) PROVE MagicInv'
  <2>1. CASE RegisterCreate(r)
    BY <2>1, Fresh DEF RegisterCreate
  <2>2. CASE Issue(r)
    BY <2>2, Fresh DEF Issue
  <2>3. CASE ResendBegin(r)
    <3>1. UNCHANGED <<userVars, linkVars, signedIn>>
      BY <2>3 DEF ResendBegin
    <3> QED BY <3>1
  <2>4. CASE ResendCommit(r)
    BY <2>4, Fresh DEF ResendCommit
  <2>5. CASE RedeemAccount(r)
    <3>1. UNCHANGED <<userVars, linkVars, signedIn>>
      BY <2>5 DEF RedeemAccount
    <3> QED BY <3>1
  <2>6. CASE Drop(r)
    BY <2>6 DEF DeleteLink, Drop
  <2>7. CASE Claim(r)
    BY <2>7 DEF DeleteLink, StillValid, Claim
  <2>8. CASE MarkVerified(r)
    BY <2>8 DEF MarkVerified
  <2>9. CASE SignIn(r)
    BY <2>9 DEF SignIn
  <2>10. CASE RevokeSessions(r)
    BY <2>10 DEF RevokeSessions
  <2>11. CASE SetPassword(r)
    BY <2>11 DEF SetPassword
  <2>12. CASE SignUp(r)
    BY <2>12, Fresh DEF NewUsers, SignUp
  <2>13. CASE Emit(r)
    BY <2>13 DEF Emit
  <2>14. CASE Delete(r)
    BY <2>14 DEF Delete
  <2>15. CASE RestoreWindow(r)
    BY <2>15 DEF RestoreWindow
  <2>16. CASE Restore(r)
    BY <2>16 DEF Restorable, Restore
  <2>17. CASE Anonymize(r)
    BY <2>17 DEF RowsOf, Anonymize
  <2> QED BY <1>2, <2>1, <2>2, <2>3, <2>4, <2>5, <2>6, <2>7, <2>8, <2>9, <2>10,
             <2>11, <2>12, <2>13, <2>14, <2>15, <2>16, <2>17 DEF HandlerStep
<1>3. ASSUME NEW r \in Requests, Fail(r) PROVE MagicInv'
  BY <1>3 DEF Fail
<1>4. ASSUME NEW r \in Requests, NEW u \in Users, EraseFind(r, u) PROVE MagicInv'
  BY <1>4 DEF EraseFind, Due, Start
<1>5. ASSUME NEW u \in signedIn, SessionsEnd(u) PROVE MagicInv'
  BY <1>5 DEF SessionsEnd
<1>6. ASSUME NEW t \in Tokens, LinkExpires(t) PROVE MagicInv'
  BY <1>6 DEF LinkExpires
<1>7. ASSUME NEW u \in Users, WindowPasses(u) PROVE MagicInv'
  BY <1>7 DEF WindowPasses, Late
<1>8. CASE UNCHANGED vars
  BY <1>8 DEF vars
<1> QED BY <1>1, <1>2, <1>3, <1>4, <1>5, <1>6, <1>7, <1>8 DEF Next

\* Verifications end with an erasure, which ends the sessions with them.
LEMMA BlankStep ==
  ASSUME TypeOK, HandlerInv, AccountInv, VerifiedInv, SessionsVerified, ErasedIsBlank,
         [Next]_vars
  PROVE  SessionsVerified' /\ ErasedIsBlank'
<1> USE DEF TypeOK, At, Goto, Finish, Idle, Handler, Steps, Acting, Restoring, userVars,
            linkVars, HandlerInv, HandlerOK, OnAccount, AccountInv, AccountOK,
            VerifiedInv, VerifiedOK, Holders, SessionsVerified, ErasedIsBlank
<1>1. ASSUME NEW r \in Requests, RequestArrives(r)
      PROVE SessionsVerified' /\ ErasedIsBlank'
  <2>1. CASE RegisterFind(r)
    BY <2>1 DEF RegisterFind, Start
  <2>2. CASE GoogleFind(r)
    <3>1. UNCHANGED <<userVars, linkVars, signedIn>>
      BY <2>2 DEF GoogleFind
    <3> QED BY <3>1
  <2>3. ASSUME NEW u \in Users, NEW type \in LinkTypes, LinkRequest(r, u, type)
        PROVE SessionsVerified' /\ ErasedIsBlank'
    BY <2>3 DEF LinkRequest, Start
  <2>4. ASSUME NEW t \in Tokens, RedeemFind(r, t)
        PROVE SessionsVerified' /\ ErasedIsBlank'
    BY <2>4 DEF RedeemFind, Start
  <2>5. ASSUME NEW u \in Users, NEW pw \in Passwords, LoginFind(r, u, pw)
        PROVE SessionsVerified' /\ ErasedIsBlank'
    BY <2>5 DEF LoginFind, Start
  <2>6. ASSUME NEW u \in Users, NEW pw \in Passwords, RestoreFind(r, u, pw)
        PROVE SessionsVerified' /\ ErasedIsBlank'
    BY <2>6 DEF RestoreFind, Start
  <2>7. ASSUME NEW u \in Users, DeleteFind(r, u)
        PROVE SessionsVerified' /\ ErasedIsBlank'
    BY <2>7 DEF DeleteFind, Start
  <2> QED BY <1>1, <2>1, <2>2, <2>3, <2>4, <2>5, <2>6, <2>7 DEF RequestArrives
<1>2. ASSUME NEW r \in Requests, HandlerStep(r)
      PROVE SessionsVerified' /\ ErasedIsBlank'
  <2>1. CASE RegisterCreate(r)
    BY <2>1, Fresh DEF RegisterCreate
  <2>2. CASE Issue(r)
    BY <2>2, Fresh DEF Issue
  <2>3. CASE ResendBegin(r)
    <3>1. UNCHANGED <<userVars, linkVars, signedIn>>
      BY <2>3 DEF ResendBegin
    <3> QED BY <3>1
  <2>4. CASE ResendCommit(r)
    BY <2>4, Fresh DEF ResendCommit
  <2>5. CASE RedeemAccount(r)
    <3>1. UNCHANGED <<userVars, linkVars, signedIn>>
      BY <2>5 DEF RedeemAccount
    <3> QED BY <3>1
  <2>6. CASE Drop(r)
    BY <2>6 DEF DeleteLink, Drop
  <2>7. CASE Claim(r)
    BY <2>7 DEF DeleteLink, StillValid, Claim
  <2>8. CASE MarkVerified(r)
    BY <2>8 DEF MarkVerified
  <2>9. CASE SignIn(r)
    BY <2>9 DEF SignIn
  <2>10. CASE RevokeSessions(r)
    BY <2>10 DEF RevokeSessions
  <2>11. CASE SetPassword(r)
    BY <2>11 DEF SetPassword
  <2>12. CASE SignUp(r)
    BY <2>12, Fresh DEF NewUsers, SignUp
  <2>13. CASE Emit(r)
    BY <2>13 DEF Emit
  <2>14. CASE Delete(r)
    BY <2>14 DEF Delete
  <2>15. CASE RestoreWindow(r)
    BY <2>15 DEF RestoreWindow
  <2>16. CASE Restore(r)
    BY <2>16 DEF Restorable, Restore
  <2>17. CASE Anonymize(r)
    BY <2>17, SMTT(30) DEF RowsOf, Anonymize
  <2> QED BY <1>2, <2>1, <2>2, <2>3, <2>4, <2>5, <2>6, <2>7, <2>8, <2>9, <2>10,
             <2>11, <2>12, <2>13, <2>14, <2>15, <2>16, <2>17 DEF HandlerStep
<1>3. ASSUME NEW r \in Requests, Fail(r) PROVE SessionsVerified' /\ ErasedIsBlank'
  BY <1>3 DEF Fail
<1>4. ASSUME NEW r \in Requests, NEW u \in Users, EraseFind(r, u)
      PROVE SessionsVerified' /\ ErasedIsBlank'
  BY <1>4 DEF EraseFind, Due, Start
<1>5. ASSUME NEW u \in signedIn, SessionsEnd(u)
      PROVE SessionsVerified' /\ ErasedIsBlank'
  BY <1>5 DEF SessionsEnd
<1>6. ASSUME NEW t \in Tokens, LinkExpires(t) PROVE SessionsVerified' /\ ErasedIsBlank'
  BY <1>6 DEF LinkExpires
<1>7. ASSUME NEW u \in Users, WindowPasses(u) PROVE SessionsVerified' /\ ErasedIsBlank'
  BY <1>7 DEF WindowPasses, Late
<1>8. CASE UNCHANGED vars
  BY <1>8 DEF vars
<1> QED BY <1>1, <1>2, <1>3, <1>4, <1>5, <1>6, <1>7, <1>8 DEF Next

\* A claim of the job and a claim of a restoration exclude each other.
LEMMA EraseStep ==
  ASSUME TypeOK, HandlerInv, AccountInv, [Next]_vars
  PROVE  ErasedRightly
<1> USE DEF TypeOK, At, Goto, Finish, Idle, Handler, Steps, Acting, Restoring, userVars,
            linkVars, HandlerInv, HandlerOK, OnAccount, AccountInv, AccountOK,
            ErasedRightly
<1>1. ASSUME NEW r \in Requests, RequestArrives(r) PROVE ErasedRightly
  <2>1. CASE RegisterFind(r)
    BY <2>1 DEF RegisterFind, Start
  <2>2. CASE GoogleFind(r)
    <3>1. UNCHANGED <<userVars, linkVars, signedIn>>
      BY <2>2 DEF GoogleFind
    <3> QED BY <3>1
  <2>3. ASSUME NEW u \in Users, NEW type \in LinkTypes, LinkRequest(r, u, type)
        PROVE ErasedRightly
    BY <2>3 DEF LinkRequest, Start
  <2>4. ASSUME NEW t \in Tokens, RedeemFind(r, t) PROVE ErasedRightly
    BY <2>4 DEF RedeemFind, Start
  <2>5. ASSUME NEW u \in Users, NEW pw \in Passwords, LoginFind(r, u, pw)
        PROVE ErasedRightly
    BY <2>5 DEF LoginFind, Start
  <2>6. ASSUME NEW u \in Users, NEW pw \in Passwords, RestoreFind(r, u, pw)
        PROVE ErasedRightly
    BY <2>6 DEF RestoreFind, Start
  <2>7. ASSUME NEW u \in Users, DeleteFind(r, u) PROVE ErasedRightly
    BY <2>7 DEF DeleteFind, Start
  <2> QED BY <1>1, <2>1, <2>2, <2>3, <2>4, <2>5, <2>6, <2>7 DEF RequestArrives
<1>2. ASSUME NEW r \in Requests, HandlerStep(r) PROVE ErasedRightly
  <2>1. CASE RegisterCreate(r)
    BY <2>1, Fresh DEF RegisterCreate
  <2>2. CASE Issue(r)
    BY <2>2, Fresh DEF Issue
  <2>3. CASE ResendBegin(r)
    <3>1. UNCHANGED <<userVars, linkVars, signedIn>>
      BY <2>3 DEF ResendBegin
    <3> QED BY <3>1
  <2>4. CASE ResendCommit(r)
    BY <2>4, Fresh DEF ResendCommit
  <2>5. CASE RedeemAccount(r)
    <3>1. UNCHANGED <<userVars, linkVars, signedIn>>
      BY <2>5 DEF RedeemAccount
    <3> QED BY <3>1
  <2>6. CASE Drop(r)
    BY <2>6 DEF DeleteLink, Drop
  <2>7. CASE Claim(r)
    BY <2>7 DEF DeleteLink, StillValid, Claim
  <2>8. CASE MarkVerified(r)
    BY <2>8 DEF MarkVerified
  <2>9. CASE SignIn(r)
    BY <2>9 DEF SignIn
  <2>10. CASE RevokeSessions(r)
    BY <2>10 DEF RevokeSessions
  <2>11. CASE SetPassword(r)
    BY <2>11 DEF SetPassword
  <2>12. CASE SignUp(r)
    BY <2>12, Fresh DEF SignUp
  <2>13. CASE Emit(r)
    BY <2>13 DEF Emit
  <2>14. CASE Delete(r)
    BY <2>14 DEF Delete
  <2>15. CASE RestoreWindow(r)
    BY <2>15 DEF RestoreWindow
  <2>16. CASE Restore(r)
    BY <2>16 DEF Restorable, Restore
  <2>17. CASE Anonymize(r)
    BY <2>17 DEF RowsOf, Anonymize
  <2> QED BY <1>2, <2>1, <2>2, <2>3, <2>4, <2>5, <2>6, <2>7, <2>8, <2>9, <2>10,
             <2>11, <2>12, <2>13, <2>14, <2>15, <2>16, <2>17 DEF HandlerStep
<1>3. ASSUME NEW r \in Requests, Fail(r) PROVE ErasedRightly
  BY <1>3 DEF Fail
<1>4. ASSUME NEW r \in Requests, NEW u \in Users, EraseFind(r, u) PROVE ErasedRightly
  BY <1>4 DEF EraseFind, Due, Start
<1>5. ASSUME NEW u \in signedIn, SessionsEnd(u) PROVE ErasedRightly
  BY <1>5 DEF SessionsEnd
<1>6. ASSUME NEW t \in Tokens, LinkExpires(t) PROVE ErasedRightly
  BY <1>6 DEF LinkExpires
<1>7. ASSUME NEW u \in Users, WindowPasses(u) PROVE ErasedRightly
  BY <1>7 DEF WindowPasses, Late
<1>8. CASE UNCHANGED vars
  BY <1>8 DEF vars
<1> QED BY <1>1, <1>2, <1>3, <1>4, <1>5, <1>6, <1>7, <1>8 DEF Next

LEMMA InitIInv == Init => IInv
<1> SUFFICES ASSUME Init PROVE IInv
  OBVIOUS
<1> USE DEF Init, Idle
<1>1. TypeOK
  BY DEF TypeOK, Statuses, Handler, Steps, Acting, Restoring
<1>2. HandlerInv /\ AccountInv /\ VerifiedInv /\ ActsOnce
  BY DEF HandlerInv, HandlerOK, AccountInv, AccountOK, VerifiedInv, VerifiedOK, ActsOnce,
         OnAccount, Acting, Restoring
<1>3. OneHolder /\ MagicInv /\ SessionsVerified /\ ErasedIsBlank
  BY DEF OneHolder, MagicInv, SessionsVerified, ErasedIsBlank, Holders
<1> QED BY <1>1, <1>2, <1>3 DEF IInv

LEMMA NextIInv == IInv /\ [Next]_vars => IInv'
BY TypeStep, HandlerStepInv, AccountStep, ActsStep, VerifiedStep, MagicStep, BlankStep
   DEF IInv

-----------------------------------------------------------------------------
(* The inductive invariant holds in every reachable state.                  *)
THEOREM Invariance == Spec => []IInv
BY InitIInv, NextIInv, PTL DEF Spec

(* Handlers and rows have their types, whatever fails and overlaps.         *)
THEOREM TypeCorrect == Spec => []TypeOK
BY Invariance, PTL DEF IInv

(* However many requests redeem a link at once, one of them acts on it.     *)
THEOREM LinksActOnce == Spec => []ActsOnce
BY Invariance, PTL DEF IInv

(* Only accounts whose address was verified are ever signed in to.          *)
THEOREM SignedInVerified == Spec => []SessionsVerified
BY Invariance, PTL DEF IInv

(* What an erasure has blanked stays blank, and no link outlives its account.*)
THEOREM ErasedStaysBlank == Spec => []ErasedIsBlank
BY Invariance, PTL DEF IInv

(* Both hold together with the types, for any accounts, links and requests. *)
THEOREM AccountsAlwaysSound == Spec => []AccountsSound
BY TypeCorrect, SignedInVerified, ErasedStaysBlank, PTL DEF AccountsSound

(* An erasure takes an account that is overdue at that moment, and is final. *)
THEOREM ErasureIsFinal == Spec => ErasureAfterWindow
<1>1. IInv /\ [Next]_vars => [ErasedRightly]_vars
  BY EraseStep DEF IInv
<1> QED BY <1>1, Invariance, PTL DEF Spec, ErasureAfterWindow, ErasedRightly
=============================================================================
