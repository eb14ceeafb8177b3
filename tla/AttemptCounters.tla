--------------------------- MODULE AttemptCounters ---------------------------
(***************************************************************************)
(* The counters of attempts in memory, lib/rate-limit.ts, and the auth     *)
(* routes that check and record them.  An entry counts what is recorded    *)
(* for a key until its window, fixed when the entry was made, is over.     *)
(*                                                                         *)
(* The routes that send a link record at once, before their first await.   *)
(* The login and the register check when they begin and record what became *)
(* of the attempt some awaits later.  "link" stands for the magic link,    *)
(* the reset and the resend of the verification, which have the same form. *)
(***************************************************************************)
EXTENDS Integers, FiniteSets

CONSTANTS Requests,   \* logins and registers that may overlap
          Emails, Ips,
          Window,     \* length of the window of each key
          MaxOf,      \* its limit
          MaxIpAdmin, \* MAX_IP_ATTEMPTS_ADMIN
          MaxTime     \* bound on the clock

Routes == {"login", "link", "register"}
Keys == Routes \X (Emails \cup Ips)

AttemptAssumption ==
  /\ Window \in [Keys -> Nat \ {0}] /\ MaxOf \in [Keys -> Nat \ {0}]
  /\ MaxIpAdmin \in Nat \ {0} /\ MaxTime \in Nat \ {0}
  /\ IsFiniteSet(Requests) /\ Requests # {}
  /\ Emails \cap Ips = {}

VARIABLES now,
          store,      \* the entries by key
          req,        \* the logins and registers in flight
          passed      \* history: what "link" routes let through, in one process

vars == <<now, store, req, passed>>

NoEntry == [count |-> 0, resetAt |-> 0]

Idle == [pc |-> "idle", email |-> "", ip |-> ""]
Request == {Idle} \cup [pc : {"find", "compare", "session", "register"},
                        email : Emails, ip : Ips]

Init ==
  /\ now = 1
  /\ store = [k \in Keys |-> NoEntry]
  /\ req = [r \in Requests |-> Idle]
  /\ passed = {}

-----------------------------------------------------------------------------
Live(k) == store[k].resetAt > now

\* Mutant: one more than the limit.
LimitedLate(k, max) == Live(k) /\ store[k].count > max

\* The isXLimited functions and isAccountLocked.
Limited(k, max) == Live(k) /\ store[k].count >= max

\* prune: an entry whose window is over goes.
Pruned(k) == IF Live(k) THEN store[k] ELSE NoEntry

\* Mutant: the window ends an instant early.
RecordedShort(k) ==
  IF Live(k) THEN [store[k] EXCEPT !.count = @ + 1]
             ELSE [count |-> 1, resetAt |-> now + Window[k] - 1]

\* record
Recorded(k) ==
  IF Live(k) THEN [store[k] EXCEPT !.count = @ + 1]
             ELSE [count |-> 1, resetAt |-> now + Window[k]]

\* What a handler checks on its way and then records.
Count(checked, recorded) ==
  store' = [k \in Keys |-> IF k \in recorded THEN Recorded(k)
                           ELSE IF k \in checked THEN Pruned(k) ELSE store[k]]

Passes(key) ==
  passed' = passed \cup {[key |-> key, at |-> now, until |-> Recorded(key).resetAt,
                          nth |-> Recorded(key).count]}

-----------------------------------------------------------------------------
(* magic-link, forgot-password, verify-email/resend: the address of the     *)
(* sender is counted even if the mailbox turns out to be at its limit.      *)
Link(e, ip) ==
  LET box == <<"link", e>>
      from == <<"link", ip>>
  IN /\ \/ /\ Limited(from, MaxOf[from])
           /\ Count({from}, {}) /\ UNCHANGED passed
        \/ /\ ~Limited(from, MaxOf[from]) /\ Limited(box, MaxOf[box])
           /\ Count({box}, {from}) /\ UNCHANGED passed
        \/ /\ ~Limited(from, MaxOf[from]) /\ ~Limited(box, MaxOf[box])
           /\ Count({}, {from, box}) /\ Passes(box)
     /\ UNCHANGED <<now, req>>

\* restore-account shares the mailbox's counter of the reset.
Restore(e) ==
  LET box == <<"link", e>> IN
  /\ IF Limited(box, MaxOf[box]) THEN Count({box}, {}) /\ UNCHANGED passed
                                 ELSE Count({}, {box}) /\ Passes(box)
  /\ UNCHANGED <<now, req>>

-----------------------------------------------------------------------------
Done(r) == req' = [req EXCEPT ![r] = Idle]
Goto(r, step) == req' = [req EXCEPT ![r].pc = step]
Account(r) == <<"login", req[r].email>>
From(r) == <<"login", req[r].ip>>

\* Mutant: the lock is not looked at.
LoginUnlocked(r, e, ip) ==
  /\ req[r] = Idle
  /\ Count({<<"login", e>>}, {})
  /\ req' = [req EXCEPT ![r] = [pc |-> "find", email |-> e, ip |-> ip]]
  /\ UNCHANGED <<now, passed>>

\* A login begins, unless its account is locked.
Login(r, e, ip) ==
  /\ req[r] = Idle
  /\ Count({<<"login", e>>}, {})
  /\ IF Limited(<<"login", e>>, MaxOf[<<"login", e>>])
       THEN UNCHANGED req
       ELSE req' = [req EXCEPT ![r] = [pc |-> "find", email |-> e, ip |-> ip]]
  /\ UNCHANGED <<now, passed>>

\* The account is not found: a failure at once, unless the address is limited.
LoginUnknown(r) ==
  /\ req[r].pc = "find"
  /\ IF Limited(From(r), MaxOf[From(r)]) THEN Count({From(r)}, {})
                                         ELSE Count({}, {Account(r), From(r)})
  /\ Done(r)
  /\ UNCHANGED <<now, passed>>

\* The account is found: its role sets the limit of the address.  It may be
\* suspended or not verified.
LoginKnown(r) ==
  /\ req[r].pc = "find"
  /\ \E max \in {MaxOf[From(r)], MaxIpAdmin} :
       IF Limited(From(r), max) THEN Done(r) ELSE Goto(r, "compare") \/ Done(r)
  /\ Count({From(r)}, {})
  /\ UNCHANGED <<now, passed>>

\* bcrypt.compare: a wrong password is recorded, a right one goes on.
LoginCompared(r) ==
  /\ req[r].pc = "compare"
  /\ \/ Count({}, {Account(r), From(r)}) /\ Done(r)
     \/ Goto(r, "session") /\ UNCHANGED store
  /\ UNCHANGED <<now, passed>>

\* The session is created: resetLoginFailures.
LoginSucceeds(r) ==
  /\ req[r].pc = "session"
  /\ store' = [store EXCEPT ![Account(r)] = NoEntry]
  /\ Done(r)
  /\ UNCHANGED <<now, passed>>

Register(r, e, ip) ==
  LET box == <<"register", e>>
      from == <<"register", ip>>
  IN /\ req[r] = Idle
     /\ IF Limited(from, MaxOf[from]) THEN Count({from}, {}) /\ UNCHANGED req
        ELSE /\ Count({from, box}, {})
             /\ IF Limited(box, MaxOf[box]) THEN UNCHANGED req
                ELSE req' = [req EXCEPT ![r] = [pc |-> "register", email |-> e, ip |-> ip]]
     /\ UNCHANGED <<now, passed>>

\* The account is created, or it was there before: either is recorded.
Registered(r) ==
  /\ req[r].pc = "register"
  /\ Count({}, {<<"register", req[r].email>>, <<"register", req[r].ip>>})
  /\ Done(r)
  /\ UNCHANGED <<now, passed>>

\* An await rejects: nothing is recorded.
Fail(r) ==
  /\ req[r] # Idle
  /\ Done(r)
  /\ UNCHANGED <<now, store, passed>>

-----------------------------------------------------------------------------
\* The interval of five minutes.
Cleanup ==
  /\ Count(Keys, {})
  /\ UNCHANGED <<now, req, passed>>

\* The process stops and another one starts with no entries.
Restart ==
  /\ store' = [k \in Keys |-> NoEntry]
  /\ req' = [r \in Requests |-> Idle]
  /\ passed' = {}
  /\ UNCHANGED now

Tick ==
  /\ now < MaxTime
  /\ now' = now + 1
  /\ UNCHANGED <<store, req, passed>>

RequestStep(r) ==
  \/ \E e \in Emails, ip \in Ips : Login(r, e, ip) \/ Register(r, e, ip)
  \/ LoginUnknown(r) \/ LoginKnown(r) \/ LoginCompared(r) \/ LoginSucceeds(r)
  \/ Registered(r) \/ Fail(r)

Next ==
  \/ \E e \in Emails : Restore(e) \/ \E ip \in Ips : Link(e, ip)
  \/ \E r \in Requests : RequestStep(r)
  \/ Cleanup \/ Restart \/ Tick

Spec == Init /\ [][Next]_vars

-----------------------------------------------------------------------------
TypeOK ==
  /\ now \in 1..MaxTime
  /\ store \in [Keys -> [count : Nat, resetAt : Nat]]
  /\ req \in [Requests -> Request]
  /\ \A p \in passed : p.key \in Keys /\ p.at \in 1..now /\ p.until \in Nat /\ p.nth \in Nat

(* The window is fixed, not sliding, and begins with what it counts first:  *)
(* a mailbox gets less than twice the limit in any stretch of its length,   *)
(* while the process runs.                                                  *)
BelowTwice ==
  \A k \in Keys : \A t \in 1..now :
    Cardinality({p \in passed : p.key = k /\ p.at \in t..(t + Window[k] - 1)})
      < 2 * MaxOf[k]

\* The highest limit a key may be held to.
Highest(k) ==
  IF k[1] = "login" /\ k[2] \in Ips /\ MaxIpAdmin > MaxOf[k] THEN MaxIpAdmin ELSE MaxOf[k]

(* Guesses and registrations are recorded late, so those that overlap pass  *)
(* together: a counter passes its limit by no more than their number less   *)
(* one, and that of a mailbox never.                                        *)
OvershootBounded ==
  \A k \in Keys :
    store[k].count <= IF k[1] = "link" THEN MaxOf[k]
                                       ELSE Highest(k) + Cardinality(Requests) - 1
=============================================================================
