---------------------------- MODULE ClientSession ----------------------------
(***************************************************************************)
(* The session of one page of the browser: the token cache and the single  *)
(* flights of lib/auth-refresh.ts, the authenticated calls of lib/api.ts,  *)
(* and the user, login, refreshSession, logout and deleteAccount of        *)
(* stores/auth-store.ts.                                                   *)
(*                                                                         *)
(* The n-th pair of tokens the server issues is the number n: access token *)
(* n lives in the Auth.js session cookie, refresh token n in its own.  A   *)
(* continuation of a promise runs before the next answer arrives, so it is *)
(* part of the step that settles the promise.  GET /api/auth/session       *)
(* answers with the content of the cookie it was sent and sets it again.   *)
(***************************************************************************)
EXTENDS Integers, FiniteSets

CONSTANTS Users,
          Requests,            \* calls through authApi and authStreamFetch
          Lookups,             \* GET /api/auth/session in flight
          NoUser, NoLookup,
          Unverified,          \* the stored e-mail of a login before verification
          MaxToken             \* bound: pairs of tokens issued

SessionAssumption ==
  /\ MaxToken \in Nat
  /\ {NoUser, Unverified} \cap Users = {} /\ NoLookup \notin Lookups

VARIABLES
  \* the server and the cookie jar
  issued,                      \* pairs of tokens issued so far
  owner,                       \* whose they are
  family,                      \* the first pair of the login
  spent,                       \* refresh tokens rotated or revoked
  expired,                     \* access tokens past their 15 minutes
  refreshCookie, sessionCookie,
  \* lib/auth-refresh.ts
  cached,                      \* cachedAccessToken, 0 for null
  lookup,                      \* session lookups
  sessionPromise,
  refresh,                     \* refreshInFlight and its request
  \* lib/api.ts and stores/auth-store.ts
  call,                        \* requests and the logout, by where they wait
  storeWaits,                  \* refreshInFlight of the store
  loginSent,                   \* the user whose login is in flight
  user,
  \* history
  rotated,                     \* refresh tokens rotated, unless the answer never came
  ended                        \* how the last logout ended

server == <<issued, owner, family, spent, expired>>
jar == <<refreshCookie, sessionCookie>>
tokens == <<cached, lookup, sessionPromise>>
history == <<rotated, ended>>
vars == <<server, jar, tokens, refresh, call, storeWaits, loginSent, user, history>>

Tokens == 1..MaxToken
Opt == 0..MaxToken             \* a token or none
Out == "logout"
Callers == Requests \cup {Out}

NoCall == [pc |-> "idle", tok |-> 0, lk |-> NoLookup, retried |-> FALSE, kind |-> "call"]
Call == [pc : {"idle", "token", "sent", "refresh", "signout"}, tok : Opt,
         lk : Lookups \cup {NoLookup}, retried : BOOLEAN,
         kind : {"call", "logout", "delete", "unheard"}]
\* stale: the generation has moved since the lookup was sent.
NoLookupSent == [pc |-> "idle", tok |-> 0, stale |-> FALSE]
NoRefresh == [pc |-> "idle", cookie |-> 0, tok |-> 0]

TypeOK ==
  /\ issued \in Opt
  /\ owner \in [Tokens -> Users \cup {NoUser}] /\ family \in [Tokens -> Opt]
  /\ spent \subseteq Tokens /\ expired \subseteq Tokens
  /\ refreshCookie \in Opt /\ sessionCookie \in Opt /\ cached \in Opt
  /\ lookup \in [Lookups -> [pc : {"idle", "sent"}, tok : Opt, stale : BOOLEAN]]
  /\ sessionPromise \in Lookups \cup {NoLookup}
  /\ refresh \in [pc : {"idle", "sent", "served"}, cookie : Opt, tok : Opt]
  /\ call \in [Callers -> Call]
  /\ storeWaits \in BOOLEAN /\ loginSent \in Users \cup {NoUser}
  /\ user \in Users \cup {NoUser, Unverified}
  /\ rotated \subseteq Tokens
  /\ ended \in {"no", "partly", "full"}

Init ==
  /\ issued = 0 /\ owner = [n \in Tokens |-> NoUser] /\ family = [n \in Tokens |-> 0]
  /\ spent = {} /\ expired = {} /\ refreshCookie = 0 /\ sessionCookie = 0
  /\ cached = 0 /\ lookup = [l \in Lookups |-> NoLookupSent]
  /\ sessionPromise = NoLookup /\ refresh = NoRefresh
  /\ call = [c \in Callers |-> NoCall] /\ storeWaits = FALSE /\ loginSent = NoUser
  /\ user = NoUser /\ rotated = {} /\ ended = "no"

-----------------------------------------------------------------------------
(* The server                                                              *)

Issue(u, first) ==
  /\ issued < MaxToken
  /\ issued' = issued + 1
  /\ owner' = [owner EXCEPT ![issued + 1] = u]
  /\ family' = [family EXCEPT ![issued + 1] = IF first = 0 THEN issued + 1 ELSE first]

FamilyOf(n) == {k \in Tokens : family[k] = family[n]}
Accepted(tok) == tok # 0 /\ tok \notin expired

\* Fifteen minutes after their issue, so in that order.
AccessExpires ==
  /\ \E n \in 1..issued : n \notin expired /\ 1..(n - 1) \subseteq expired
                            /\ expired' = expired \cup {n}
  /\ UNCHANGED <<issued, owner, family, spent, jar, tokens, refresh, call, storeWaits,
                 loginSent, user, history>>

-----------------------------------------------------------------------------
(* lib/auth-refresh.ts                                                     *)

\* setCachedAccessToken and clearCachedAccessToken move the generation.
Outdated == [l \in Lookups |-> [lookup[l] EXCEPT !.stale = lookup[l].pc # "idle"]]

WriteCache(tok) == cached' = tok /\ lookup' = Outdated
ResetSession == WriteCache(0) /\ sessionPromise' = NoLookup

CacheExpires ==
  /\ cached # 0
  /\ cached' = 0
  /\ UNCHANGED <<server, jar, lookup, sessionPromise, refresh, call, storeWaits,
                 loginSent, user, history>>

\* resolveAccessToken for a caller with this record: the cache, the lookup in
\* flight, or a lookup of its own.
Resolve(c, rec) ==
  IF cached # 0
    THEN /\ call' = [call EXCEPT ![c] = [rec EXCEPT !.pc = "sent", !.tok = cached]]
         /\ UNCHANGED tokens
  ELSE IF sessionPromise # NoLookup
    THEN /\ call' = [call EXCEPT ![c] = [rec EXCEPT !.pc = "token", !.lk = sessionPromise]]
         /\ UNCHANGED tokens
  ELSE \E l \in Lookups :
         /\ lookup[l].pc = "idle"
         /\ lookup' = [lookup EXCEPT ![l] =
              [pc |-> "sent", tok |-> sessionCookie, stale |-> FALSE]]
         /\ sessionPromise' = l
         /\ call' = [call EXCEPT ![c] = [rec EXCEPT !.pc = "token", !.lk = l]]
         /\ UNCHANGED cached

\* Mutant: the generation is not compared.
StoresAlways(l, tok) == tok # 0

\* generation === cachedAccessTokenGeneration
Stores(l, tok) == tok # 0 /\ ~lookup[l].stale

\* loadFromSession answers (null when it failed) and everyone who joined it
\* goes on with the same token.
LookupAnswers(l) ==
  /\ lookup[l].pc = "sent"
  /\ \E tok \in {lookup[l].tok, 0} :
       LET found == CASE tok = 0 -> 0
                      [] Stores(l, tok) -> tok
                      [] cached # 0 -> cached
                      [] OTHER -> tok
       IN /\ call' = [c \in Callers |->
               IF call[c].lk = l
                 THEN [call[c] EXCEPT !.pc = "sent", !.tok = found, !.lk = NoLookup]
                 ELSE call[c]]
          /\ cached' = IF Stores(l, tok) THEN tok ELSE cached
          /\ lookup' = [k \in Lookups |->
               IF k = l THEN NoLookupSent
               ELSE [lookup[k] EXCEPT !.stale =
                       @ \/ (Stores(l, tok) /\ lookup[k].pc # "idle")]]
          /\ sessionCookie' = IF tok # 0 THEN tok ELSE sessionCookie
  /\ sessionPromise' = IF sessionPromise = l THEN NoLookup ELSE sessionPromise
  /\ UNCHANGED <<server, refreshCookie, refresh, storeWaits, loginSent, user, history>>

\* Mutant: every caller sends a refresh of its own.
SendRefreshAgain == refresh' = [pc |-> "sent", cookie |-> refreshCookie, tok |-> 0]

\* refreshAccessTokenOnce
SendRefresh ==
  refresh' = IF refresh.pc # "idle" THEN refresh
             ELSE [pc |-> "sent", cookie |-> refreshCookie, tok |-> 0]

\* The server meets the request: a token it has seen ends its family.
ServeRefresh ==
  /\ refresh.pc = "sent"
  /\ LET n == refresh.cookie IN
     /\ IF n = 0 \/ n \in spent
          THEN /\ spent' = IF n = 0 THEN spent ELSE spent \cup FamilyOf(n)
               /\ refresh' = [refresh EXCEPT !.pc = "served"]
               /\ UNCHANGED <<issued, owner, family, rotated>>
          ELSE /\ Issue(owner[n], family[n])
               /\ spent' = spent \cup {n} /\ rotated' = rotated \cup {n}
               /\ refresh' = [refresh EXCEPT !.pc = "served", !.tok = issued + 1]
  /\ UNCHANGED <<expired, jar, tokens, call, storeWaits, loginSent, user, ended>>

\* What the outcome does to the requests that await it: one retry each.
Resume(tok) ==
  call' = [c \in Callers |->
    IF call[c].pc # "refresh" THEN call[c]
    ELSE IF tok = 0 THEN NoCall
    ELSE [call[c] EXCEPT !.pc = "sent", !.tok = tok, !.retried = TRUE]]

\* performRefresh: success, or 401/403.
RefreshAnswers ==
  /\ refresh.pc = "served"
  /\ LET n == refresh.tok IN
     /\ WriteCache(n)
     /\ Resume(n)
     /\ IF n = 0 THEN UNCHANGED jar ELSE refreshCookie' = n /\ sessionCookie' = n
     /\ user' = IF ~storeWaits THEN user ELSE IF n = 0 THEN NoUser ELSE owner[n]
  /\ sessionPromise' = NoLookup
  /\ refresh' = NoRefresh /\ storeWaits' = FALSE
  /\ UNCHANGED <<server, loginSent, history>>

\* The headers arrive but the body is not JSON: bad_response.
RefreshGarbled ==
  /\ refresh.pc = "served"
  /\ LET n == refresh.tok IN
     IF n = 0 THEN UNCHANGED jar ELSE refreshCookie' = n /\ sessionCookie' = n
  /\ Resume(0)
  /\ user' = IF storeWaits THEN NoUser ELSE user
  /\ refresh' = NoRefresh /\ storeWaits' = FALSE
  /\ UNCHANGED <<server, tokens, loginSent, history>>

\* The answer is not read, whether or not the server met the request.
NeverHeard ==
  LET n == refresh.cookie IN
  /\ \/ spent' = spent
     \/ /\ refresh.pc = "sent" /\ n # 0
        /\ spent' = spent \cup (IF n \in spent THEN FamilyOf(n) ELSE {n})
  /\ rotated' = rotated \ {n}

\* The 15 seconds pass, the network fails or the server answers 5xx, before
\* or after it rotated the token: the session and the caches are kept.
RefreshFails ==
  /\ refresh.pc # "idle"
  /\ NeverHeard
  /\ Resume(0)
  /\ refresh' = NoRefresh /\ storeWaits' = FALSE
  /\ UNCHANGED <<issued, owner, family, expired, jar, tokens, loginSent, user, ended>>

-----------------------------------------------------------------------------
(* lib/api.ts: one call, with one retry after a 401                        *)

RequestStart(r) ==
  /\ call[r].pc = "idle"
  /\ Resolve(r, NoCall)
  /\ UNCHANGED <<server, jar, refresh, storeWaits, loginSent, user, history>>

RequestAnswers(r) ==
  /\ call[r].pc = "sent"
  /\ Accepted(call[r].tok) \/ call[r].retried
  /\ call' = [call EXCEPT ![r] = NoCall]
  /\ UNCHANGED <<server, jar, tokens, refresh, storeWaits, loginSent, user, history>>

RequestRefused(r) ==
  /\ call[r].pc = "sent" /\ ~Accepted(call[r].tok) /\ ~call[r].retried
  /\ call' = [call EXCEPT ![r].pc = "refresh"]
  /\ SendRefresh
  /\ UNCHANGED <<server, jar, tokens, storeWaits, loginSent, user, history>>

-----------------------------------------------------------------------------
(* stores/auth-store.ts                                                    *)

\* refreshSession, at the mount of AuthGuard and of the login form.
RefreshSession ==
  /\ ~storeWaits
  /\ storeWaits' = TRUE
  /\ SendRefresh
  /\ UNCHANGED <<server, jar, tokens, call, loginSent, user, history>>

isAuthenticated == user \in Users

\* login and verifyMagicLink do not touch the token cache.
LoginSend ==
  /\ loginSent = NoUser /\ ~isAuthenticated /\ call[Out].pc = "idle"
  /\ \E u \in Users : loginSent' = u
  /\ UNCHANGED <<server, jar, tokens, refresh, call, storeWaits, user, history>>

LoginAnswers ==
  /\ loginSent # NoUser
  /\ Issue(loginSent, 0)
  /\ refreshCookie' = issued' /\ sessionCookie' = issued'
  /\ user' = loginSent /\ loginSent' = NoUser /\ ended' = "no"
  /\ UNCHANGED <<spent, expired, tokens, refresh, call, storeWaits, rotated>>

\* AUTH_EMAIL_NOT_VERIFIED keeps the e-mail for the page that resends the link.
LoginFails ==
  /\ loginSent # NoUser
  /\ loginSent' = NoUser
  /\ \/ user' = Unverified
     \/ UNCHANGED user
  /\ UNCHANGED <<server, jar, tokens, refresh, call, storeWaits, history>>

LogoutBegin ==
  /\ call[Out].pc = "idle" /\ isAuthenticated /\ loginSent = NoUser
  /\ \E kind \in {"logout", "delete"} : Resolve(Out, [NoCall EXCEPT !.kind = kind])
  /\ UNCHANGED <<server, jar, refresh, storeWaits, loginSent, user, history>>

\* POST /api/v1/auth/logout revokes the refresh session of the cookie if it
\* is the bearer's own, and expires both cookies; a 401 does neither.
LogoutPost ==
  /\ call[Out].pc = "sent" /\ call[Out].kind = "logout" /\ call[Out].tok # 0
  /\ LET tok == call[Out].tok IN
     IF ~Accepted(tok) THEN UNCHANGED <<spent, jar>>
     ELSE /\ spent' = IF refreshCookie # 0 /\ owner[refreshCookie] = owner[tok]
                        THEN spent \cup {refreshCookie} ELSE spent
          /\ refreshCookie' = 0 /\ sessionCookie' = 0
  /\ call' = [call EXCEPT ![Out].pc = "signout"]
  /\ UNCHANGED <<issued, owner, family, expired, tokens, refresh, storeWaits, loginSent,
                 user, history>>

\* Without a token there is no request, or it is lost; the local session ends
\* all the same.
LogoutUnheard ==
  /\ call[Out].pc = "sent" /\ call[Out].kind = "logout"
  /\ call' = [call EXCEPT ![Out].pc = "signout", ![Out].kind = "unheard"]
  /\ UNCHANGED <<server, jar, tokens, refresh, storeWaits, loginSent, user, history>>

\* deleteAccount: without a token or an ok answer nothing else is done.
DeletePost ==
  /\ call[Out].pc = "sent" /\ call[Out].kind = "delete"
  /\ LET tok == call[Out].tok
         own == {n \in Tokens : tok # 0 /\ owner[n] = owner[tok]} IN
     \/ /\ Accepted(tok)
        /\ spent' = spent \cup own /\ expired' = expired \cup own
        /\ refreshCookie' = 0 /\ sessionCookie' = 0
        /\ call' = [call EXCEPT ![Out].pc = "signout"]
     \/ call' = [call EXCEPT ![Out] = NoCall] /\ UNCHANGED <<spent, expired, jar>>
  /\ UNCHANGED <<issued, owner, family, tokens, refresh, storeWaits, loginSent, user, history>>

\* Mutant: the token cache outlives the session.
SignOutKeepsCache ==
  /\ call[Out].pc = "signout"
  /\ sessionCookie' = 0 /\ user' = NoUser
  /\ ended' = IF refreshCookie = 0 /\ refresh.pc = "idle"
                   /\ \A l \in Lookups : lookup[l].pc = "idle" THEN "full" ELSE "partly"
  /\ call' = [call EXCEPT ![Out] = NoCall]
  /\ UNCHANGED <<server, refreshCookie, tokens, refresh, storeWaits, loginSent,
                 rotated>>

\* signOut of Auth.js (which may fail), then the reset of the page.  The
\* history notes whether anything was still in flight.
SignOut ==
  /\ call[Out].pc = "signout"
  /\ sessionCookie' \in {0, sessionCookie}
  /\ user' = NoUser
  /\ ResetSession
  /\ ended' = CASE call[Out].kind = "unheard" -> "no"
                [] /\ refreshCookie = 0 /\ sessionCookie' = 0 /\ refresh.pc = "idle"
                   /\ \A l \in Lookups : lookup[l].pc = "idle" -> "full"
                [] OTHER -> "partly"
  /\ call' = [call EXCEPT ![Out] = NoCall]
  /\ UNCHANGED <<server, refreshCookie, refresh, storeWaits, loginSent, rotated>>

\* The page is loaded again: the persisted user and the cookies are left.
Reload ==
  /\ cached' = 0 /\ lookup' = [l \in Lookups |-> NoLookupSent]
  /\ sessionPromise' = NoLookup /\ refresh' = NoRefresh
  /\ IF refresh.pc = "idle" THEN UNCHANGED <<spent, rotated>> ELSE NeverHeard
  /\ call' = [c \in Callers |-> NoCall]
  /\ storeWaits' = FALSE /\ loginSent' = NoUser
  /\ UNCHANGED <<issued, owner, family, expired, jar, user, ended>>

-----------------------------------------------------------------------------
Next ==
  \/ AccessExpires \/ CacheExpires \/ ServeRefresh
  \/ \E l \in Lookups : LookupAnswers(l)
  \/ RefreshAnswers \/ RefreshGarbled \/ RefreshFails \/ RefreshSession
  \/ \E r \in Requests : RequestStart(r) \/ RequestAnswers(r) \/ RequestRefused(r)
  \/ LoginSend \/ LoginAnswers \/ LoginFails
  \/ LogoutBegin \/ LogoutPost \/ LogoutUnheard \/ DeletePost \/ SignOut \/ Reload

Spec == Init /\ [][Next]_vars

-----------------------------------------------------------------------------
(* Properties                                                              *)

\* The page shows a rotated refresh token to the server only when the answer to
\* its rotation never came: a token shown again ends the family and logs the
\* user out on every page (refreshAccessTokenOnce).
ShownOnce ==
  TypeOK /\ (refresh.pc = "sent" => refresh.cookie \notin rotated)

\* A session lookup never replaces a token in the cache: only the answer of a
\* refresh does, however the two overlap (cachedAccessTokenGeneration).
RefreshWins ==
  [][cached # 0 /\ cached' \notin {0, cached} => refresh.pc = "served"]_vars

\* After a logout with nothing in flight and both cookies gone the page stays
\* without user and token until the next login.
LogoutSticks == ended = "full" => ~isAuthenticated /\ cached = 0

\* The store waits for no refresh that was already answered or given up.
StoreWaitsInFlight == storeWaits => refresh.pc # "idle"
=============================================================================
