-------------------------- MODULE AccountLifecycle --------------------------
(***************************************************************************)
(* The accounts of one e-mail address: registration, one-time links        *)
(* (verification, magic link, password reset), password and Google login,  *)
(* deletion, restoration within 30 days, erasure afterwards.               *)
(*                                                                         *)
(* A link is a VerificationToken row, found by its token and deleted when  *)
(* it is redeemed.  What a sign-in leaves behind is a session; the rows of *)
(* the Session table, their rotation and the versions of access tokens are *)
(* in TokenService.  The 30 days are longer than any request and than the  *)
(* lifetime of any link.  The e-mail link of the Auth.js library is left   *)
(* out: these routes never find its rows, which hold a hash of the token.  *)
(***************************************************************************)
EXTENDS FiniteSets

CONSTANTS Users, NoUser,          \* User rows, the ones to come included
          Tokens, NoToken,        \* one-time tokens
          Passwords, NoPassword,
          Requests                \* requests handled at the same time

ASSUME AccountAssumption ==
  /\ NoUser \notin Users
  /\ NoToken \notin Tokens
  /\ NoPassword \notin Passwords

VARIABLES status,       \* of each User row, see Statuses
          password,     \* User.passwordHash, by the password it is the hash of
          verified,     \* users whose emailVerified is set
          kind,         \* type of the VerificationToken row of a token, "none" without
          stale,        \* tokens past expiresAt
          signedIn,     \* users with a live session
          req           \* the handlers in progress

userVars == <<status, password, verified>>
linkVars == <<kind, stale>>
vars == <<userVars, linkVars, signedIn, req>>

\* "deleted" is a deletedAt within the last 30 days, "overdue" an older one; an
\* erased row has given its e-mail address away, a "none" row is not there yet.
Statuses == {"none", "active", "deleted", "overdue", "erased"}
LinkTypes == {"EMAIL", "MAGIC_LINK", "PASSWORD_RESET"}

\* The steps in which a redeemed link does what it is for.
Acting == {"verify", "sign", "revoke", "password"}
Restoring == {"window", "restore", "restoreAfter"}
\* The steps of requests that began when the account was deleted.
Late == Restoring \cup {"idle", "drop", "signUp"}
Steps == {"idle", "create", "issue", "resend", "account", "claim", "drop", "signUp",
          "emit", "delete", "anonymize"} \cup Acting \cup Restoring

Handler == [pc : Steps, usr : Users \cup {NoUser}, tok : Tokens \cup {NoToken},
            type : LinkTypes \cup {"none"}, seen : SUBSET Tokens]
Idle == [pc |-> "idle", usr |-> NoUser, tok |-> NoToken, type |-> "none",
         seen |-> {}]

TypeOK ==
  /\ status \in [Users -> Statuses]
  /\ password \in [Users -> Passwords \cup {NoPassword}]
  /\ verified \subseteq Users
  /\ kind \in [Tokens -> LinkTypes \cup {"none"}]
  /\ stale \subseteq {t \in Tokens : kind[t] # "none"}
  /\ signedIn \subseteq Users
  /\ req \in [Requests -> Handler]
  /\ \A r \in Requests : req[r].pc \in Acting \cup Restoring => req[r].usr \in Users

Init ==
  /\ status = [u \in Users |-> "none"]
  /\ password = [u \in Users |-> NoPassword]
  /\ verified = {}
  /\ kind = [t \in Tokens |-> "none"]
  /\ stale = {}
  /\ signedIn = {}
  /\ req = [r \in Requests |-> Idle]

-----------------------------------------------------------------------------
At(r, step) == req[r].pc = step
Goto(r, step) == req' = [req EXCEPT ![r].pc = step]
Start(r, handler) == At(r, "idle") /\ req' = [req EXCEPT ![r] = handler]
Finish(r) == req' = [req EXCEPT ![r] = Idle]

\* The rows that have the e-mail address: the unique index admits one.
Holders == {u \in Users : status[u] \in {"active", "deleted", "overdue"}}
Active == {u \in Holders : status[u] = "active"}
NewUsers == {u \in Users : status[u] = "none"}
NewUser == CHOOSE u \in NewUsers : TRUE

\* A token that no row, no link in a mailbox and no handler names.
NewTokens == {t \in Tokens : /\ kind[t] = "none"
                             /\ \A r \in Requests : req[r].tok # t /\ t \notin req[r].seen}
NewToken == CHOOSE t \in NewTokens : TRUE

-----------------------------------------------------------------------------
(* Registration *)

\* An address that is taken, be it by a deleted account, changes nothing.
RegisterFind(r) ==
  /\ Holders = {} /\ NewUsers # {}
  /\ Start(r, [Idle EXCEPT !.pc = "create"])
  /\ UNCHANGED <<userVars, linkVars, signedIn>>

\* One transaction; a registration that came first makes the index refuse it.
RegisterCreate(r) ==
  /\ At(r, "create")
  /\ IF Holders # {} THEN UNCHANGED <<userVars, linkVars>>
     ELSE /\ NewUsers # {} /\ NewTokens # {}
          /\ status' = [status EXCEPT ![NewUser] = "active"]
          /\ \E pw \in Passwords : password' = [password EXCEPT ![NewUser] = pw]
          /\ kind' = [kind EXCEPT ![NewToken] = "EMAIL"]
          /\ UNCHANGED <<verified, stale>>
  /\ Finish(r)
  /\ UNCHANGED signedIn

-----------------------------------------------------------------------------
(* Asking for a link *)

\* Mutant: a magic link is sent to an address that is not verified.
MayIssueAny(u, type) == type = "EMAIL" => u \notin verified

MayIssue(u, type) ==
  /\ type = "EMAIL" => u \notin verified
  /\ type = "MAGIC_LINK" => u \in verified

LinkRequest(r, u, type) ==
  /\ u \in Active
  /\ MayIssue(u, type)
  /\ Start(r, [Idle EXCEPT !.pc = "issue", !.usr = u, !.type = type])
  /\ UNCHANGED <<userVars, linkVars, signedIn>>

Issue(r) ==
  /\ At(r, "issue") /\ req[r].type # "EMAIL"
  /\ NewTokens # {}
  /\ kind' = [kind EXCEPT ![NewToken] = req[r].type]
  /\ Finish(r)
  /\ UNCHANGED <<userVars, stale, signedIn>>

\* The resent link replaces the earlier ones that its deleteMany sees.
ResendBegin(r) ==
  /\ At(r, "issue") /\ req[r].type = "EMAIL"
  /\ req' = [req EXCEPT ![r] = [@ EXCEPT !.pc = "resend",
                                         !.seen = {t \in Tokens : kind[t] = "EMAIL"}]]
  /\ UNCHANGED <<userVars, linkVars, signedIn>>

ResendCommit(r) ==
  /\ At(r, "resend")
  /\ NewTokens # {}
  /\ kind' = [t \in Tokens |-> IF t = NewToken THEN "EMAIL"
                               ELSE IF t \in req[r].seen THEN "none" ELSE kind[t]]
  /\ stale' = stale \ req[r].seen
  /\ Finish(r)
  /\ UNCHANGED <<userVars, signedIn>>

-----------------------------------------------------------------------------
(* Redeeming a link: find the row, find the account, delete the row, act *)

RedeemFind(r, t) ==
  /\ kind[t] # "none"
  /\ Start(r, [Idle EXCEPT !.pc = IF t \in stale THEN "drop" ELSE "account",
                           !.tok = t, !.type = kind[t]])
  /\ UNCHANGED <<userVars, linkVars, signedIn>>

\* Mutant: the account that was not found is used all the same.
RedeemUnguarded(r) ==
  /\ At(r, "account")
  /\ Goto(r, "claim")
  /\ UNCHANGED <<userVars, linkVars, signedIn>>

RedeemAccount(r) ==
  /\ At(r, "account")
  /\ IF Active = {} THEN Goto(r, "drop")
     ELSE \E u \in Active : req' = [req EXCEPT ![r] = [@ EXCEPT !.pc = "claim", !.usr = u]]
  /\ UNCHANGED <<userVars, linkVars, signedIn>>

\* deleteMany of a row that may be gone already.
DeleteLink(r) ==
  /\ kind' = [kind EXCEPT ![req[r].tok] = "none"]
  /\ stale' = stale \ {req[r].tok}

Drop(r) ==
  /\ At(r, "drop")
  /\ DeleteLink(r)
  /\ Finish(r)
  /\ UNCHANGED <<userVars, signedIn>>

\* Mutant: the number of rows that the deletion returns is not looked at.
StillValidAny(r) == TRUE

\* deleteMany with expiresAt > now counts one row.
StillValid(r) == kind[req[r].tok] # "none" /\ req[r].tok \notin stale

Claim(r) ==
  /\ At(r, "claim")
  /\ IF StillValid(r)
     THEN /\ DeleteLink(r)
          /\ Goto(r, CASE req[r].type = "EMAIL" -> "verify"
                       [] req[r].type = "MAGIC_LINK" -> "sign"
                       [] OTHER -> "revoke")
     ELSE UNCHANGED linkVars /\ Finish(r)
  /\ UNCHANGED <<userVars, signedIn>>

\* The last step of a verification, a step of a Google login.
MarkVerified(r) ==
  /\ At(r, "verify")
  /\ verified' = verified \cup {req[r].usr}
  /\ IF req[r].type = "EMAIL" THEN Finish(r) ELSE Goto(r, "sign")
  /\ UNCHANGED <<status, password, linkVars, signedIn>>

SignIn(r) ==
  /\ At(r, "sign")
  /\ signedIn' = signedIn \cup {req[r].usr}
  /\ Finish(r)
  /\ UNCHANGED <<userVars, linkVars>>

\* A reset revokes the sessions in one transaction and writes the password after it.
RevokeSessions(r) ==
  /\ At(r, "revoke")
  /\ signedIn' = signedIn \ {req[r].usr}
  /\ Goto(r, "password")
  /\ UNCHANGED <<userVars, linkVars>>

SetPassword(r) ==
  /\ At(r, "password")
  /\ \E pw \in Passwords : password' = [password EXCEPT ![req[r].usr] = pw]
  /\ Finish(r)
  /\ UNCHANGED <<status, verified, linkVars, signedIn>>

-----------------------------------------------------------------------------
(* Logins *)

LoginFind(r, u, pw) ==
  /\ u \in Active /\ u \in verified
  /\ password[u] = pw
  /\ Start(r, [Idle EXCEPT !.pc = "sign", !.usr = u])
  /\ UNCHANGED <<userVars, linkVars, signedIn>>

\* Auth.js looks for an active account with Google's e-mail address.
GoogleFind(r) ==
  /\ IF Active = {} THEN /\ NewUsers # {}
                         /\ Start(r, [Idle EXCEPT !.pc = "signUp"])
     ELSE \E u \in Active : Start(r, [Idle EXCEPT !.pc = "emit", !.usr = u])
  /\ UNCHANGED <<userVars, linkVars, signedIn>>

\* A deleted account still has the address: createUser throws.
SignUp(r) ==
  /\ At(r, "signUp")
  /\ IF Holders # {} THEN UNCHANGED status /\ Finish(r)
     ELSE /\ NewUsers # {}
          /\ status' = [status EXCEPT ![NewUser] = "active"]
          /\ req' = [req EXCEPT ![r] = [@ EXCEPT !.pc = "emit", !.usr = NewUser]]
  /\ UNCHANGED <<password, verified, linkVars, signedIn>>

Emit(r) ==
  /\ At(r, "emit")
  /\ IF req[r].usr \in Active
     THEN Goto(r, IF req[r].usr \in verified THEN "sign" ELSE "verify")
     ELSE Finish(r)
  /\ UNCHANGED <<userVars, linkVars, signedIn>>

\* Logout, reuse of a refresh token, expiry.
SessionsEnd(u) ==
  /\ signedIn' = signedIn \ {u}
  /\ UNCHANGED <<userVars, linkVars, req>>

-----------------------------------------------------------------------------
(* Deletion, restoration, erasure *)

\* The bearer of an access token: it was issued to a verified account.
DeleteFind(r, u) ==
  /\ u \in Active /\ u \in verified
  /\ Start(r, [Idle EXCEPT !.pc = "delete", !.usr = u])
  /\ UNCHANGED <<userVars, linkVars, signedIn>>

\* softDeleteAccount, by id alone.
Delete(r) ==
  /\ At(r, "delete")
  /\ status' = [status EXCEPT ![req[r].usr] = "deleted"]
  /\ signedIn' = signedIn \ {req[r].usr}
  /\ Finish(r)
  /\ UNCHANGED <<password, verified, linkVars>>

RestoreFind(r, u, pw) ==
  /\ status[u] = "deleted" /\ password[u] = pw
  /\ Start(r, [Idle EXCEPT !.pc = "window", !.usr = u])
  /\ UNCHANGED <<userVars, linkVars, signedIn>>

\* The start of the window, taken before the statement that uses it.
RestoreWindow(r) ==
  /\ At(r, "window")
  /\ Goto(r, IF status[req[r].usr] = "overdue" THEN "restoreAfter" ELSE "restore")
  /\ UNCHANGED <<userVars, linkVars, signedIn>>

\* Mutant: the row is updated by its id alone.
RestorableById(r) == TRUE

Restorable(r) ==
  \/ status[req[r].usr] = "deleted"
  \/ status[req[r].usr] = "overdue" /\ At(r, "restore")

Restore(r) ==
  /\ At(r, "restore") \/ At(r, "restoreAfter")
  /\ status' = IF Restorable(r) THEN [status EXCEPT ![req[r].usr] = "active"] ELSE status
  /\ Finish(r)
  /\ UNCHANGED <<password, verified, linkVars, signedIn>>

\* Mutant: the job's query leaves out the accounts of Google users.
DueWithPassword(u) == status[u] = "overdue" /\ password[u] # NoPassword

Due(u) == status[u] = "overdue"

\* The daily job reads the accounts whose 30 days are over, then erases each.
EraseFind(r, u) ==
  /\ Due(u)
  /\ Start(r, [Idle EXCEPT !.pc = "anonymize", !.usr = u])
  /\ UNCHANGED <<userVars, linkVars, signedIn>>

\* Mutant: the sessions are left to expire.
KeepsSessions(u) == {}

RowsOf(u) == {u}

\* One transaction: claim the row, blank it, delete what belongs to it or to its
\* address.
Anonymize(r) ==
  LET u == req[r].usr IN
  /\ At(r, "anonymize")
  /\ IF status[u] = "overdue"
     THEN /\ status' = [status EXCEPT ![u] = "erased"]
          /\ password' = [password EXCEPT ![u] = NoPassword]
          /\ verified' = verified \ {u}
          /\ signedIn' = signedIn \ RowsOf(u)
          /\ kind' = [t \in Tokens |-> "none"]
          /\ stale' = {}
     ELSE UNCHANGED <<userVars, linkVars, signedIn>>
  /\ Finish(r)

-----------------------------------------------------------------------------
(* An await rejects or the process ends: the transaction is rolled back. *)
Fail(r) ==
  /\ ~At(r, "idle")
  /\ Finish(r)
  /\ UNCHANGED <<userVars, linkVars, signedIn>>

LinkExpires(t) ==
  /\ kind[t] # "none"
  /\ stale' = stale \cup {t}
  /\ UNCHANGED <<userVars, kind, signedIn, req>>

\* 30 days after a deletion no link of before it lives and no request of before
\* it runs; a restoration, or a Google login, may have begun on the last day.
WindowPasses(u) ==
  /\ status[u] = "deleted"
  /\ \A t \in Tokens : kind[t] # "none" => t \in stale
  /\ \A r \in Requests : req[r].pc \in Late
  /\ status' = [status EXCEPT ![u] = "overdue"]
  /\ UNCHANGED <<password, verified, linkVars, signedIn, req>>

RequestArrives(r) ==
  \/ RegisterFind(r) \/ GoogleFind(r)
  \/ \E u \in Users, type \in LinkTypes : LinkRequest(r, u, type)
  \/ \E t \in Tokens : RedeemFind(r, t)
  \/ \E u \in Users, pw \in Passwords : LoginFind(r, u, pw) \/ RestoreFind(r, u, pw)
  \/ \E u \in Users : DeleteFind(r, u)

HandlerStep(r) ==
  \/ RegisterCreate(r) \/ Issue(r) \/ ResendBegin(r) \/ ResendCommit(r)
  \/ RedeemAccount(r) \/ Drop(r) \/ Claim(r) \/ MarkVerified(r) \/ SignIn(r)
  \/ RevokeSessions(r) \/ SetPassword(r) \/ SignUp(r) \/ Emit(r) \/ Delete(r)
  \/ RestoreWindow(r) \/ Restore(r) \/ Anonymize(r)

Next ==
  \/ \E r \in Requests : RequestArrives(r) \/ HandlerStep(r) \/ Fail(r)
  \/ \E r \in Requests, u \in Users : EraseFind(r, u)
  \/ \E u \in signedIn : SessionsEnd(u)
  \/ \E t \in Tokens : LinkExpires(t)
  \/ \E u \in Users : WindowPasses(u)

Spec == Init /\ [][Next]_vars

\* A handler that has started runs on; the job is called every day, and does not
\* fail for ever on the same account.
Fairness ==
  /\ \A r \in Requests : WF_vars(HandlerStep(r))
  /\ SF_vars(\E r \in Requests, u \in Users : EraseFind(r, u))
  /\ SF_vars(\E r \in Requests : Anonymize(r))

FairSpec == Spec /\ Fairness

-----------------------------------------------------------------------------
(* A link acts once: while a request acts on it its row is gone, and no     *)
(* other request acts on it.                                                *)
ActsOnce ==
  \A q, r \in Requests :
    /\ req[r].tok # NoToken
    /\ req[r].pc \in Acting
    => /\ kind[req[r].tok] = "none"
       /\ q # r /\ req[q].pc \in Acting => req[q].tok # req[r].tok

(* Nobody is signed in to an account whose address was not shown to be      *)
(* theirs, be it by password, magic link or Google, and whatever deletion,  *)
(* restoration or erasure happened between the check and the sign-in.       *)
SessionsVerified == signedIn \subseteq verified

(* An erased account keeps no password, verification or session, and an     *)
(* address without an account has no link that could act for the next one.  *)
ErasedIsBlank ==
  /\ \A u \in Users : status[u] = "erased" =>
       password[u] = NoPassword /\ u \notin verified /\ u \notin signedIn
  /\ Holders = {} => \A t \in Tokens : kind[t] = "none"

(* What the sign-ins, deletions and erasures leave is never at odds.        *)
AccountsSound == TypeOK /\ SessionsVerified /\ ErasedIsBlank

(* Only an account that has stayed deleted for 30 days is erased, and an    *)
(* erased one stays so: a restoration and the job, whatever they read,      *)
(* never both take effect on one deletion.                                  *)
ErasureAfterWindow ==
  [][\A u \in Users :
       /\ status'[u] = "erased" => status[u] \in {"overdue", "erased"}
       /\ status[u] = "erased" => status'[u] = "erased"]_vars

(* The promise of the law: an account whose 30 days are over is erased in   *)
(* the end, unless a restoration that had begun in time still wins.         *)
ErasedInTheEnd ==
  \A u \in Users : status[u] = "overdue" ~> status[u] \in {"erased", "active"}
=============================================================================
