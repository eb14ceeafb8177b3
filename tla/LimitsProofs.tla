------------------------------ MODULE LimitsProofs ------------------------------
(***************************************************************************)
(* The limits beyond the small instance of the run: those of likes and     *)
(* posts that Redis keeps, for any windows, limits and outages, and those  *)
(* of the counters in memory, for any keys, limits and requests.           *)
(***************************************************************************)
EXTENDS PagesMC, FiniteSetTheorems, FunctionTheorems, TLAPS

LEMMA LimitSets ==
  /\ \A S : L!IsFiniteSet(S) <=> IsFiniteSet(S)
  /\ \A S : L!Cardinality(S) = Cardinality(S)
<1>1. \A S : L!IsFiniteSet(S) <=> IsFiniteSet(S)
  BY DEF L!IsFiniteSet, IsFiniteSet
<1>2. \A S : L!Cardinality(S) = Cardinality(S)
  BY DEF L!Cardinality, Cardinality
<1> QED
  BY <1>1, <1>2


-----------------------------------------------------------------------------
(* Days                                                                    *)

LEMMA Division ==
  ASSUME NEW Span \in Nat \ {0}, NEW x \in Int
  PROVE  x % Span \in 0..(Span - 1) /\ x \div Span \in Int /\ x = Span * (x \div Span) + (x % Span)
  BY SMTT(20)

LEMMA Multiples ==
  ASSUME NEW Span \in Nat \ {0}, NEW a \in Int, NEW b \in Int, a < b
  PROVE  Span * a + Span <= Span * b
  BY SMTT(20)

\* A midnight less than a day before x is the start of its day.
LEMMA StartOfDay ==
  ASSUME NEW Span \in Nat \ {0}, NEW x \in Int, NEW k \in Int, x - Span * k \in 0..(Span - 1)
  PROVE  x - (x % Span) = Span * k
<1> DEFINE q == x \div Span
<1>1. /\ x % Span \in 0..(Span - 1) /\ q \in Int /\ x = Span * q + (x % Span)
      /\ Span * q \in Int /\ Span * k \in Int
  BY Division
<1>2. CASE q < k
  <2>1. Span * q + Span <= Span * k
    BY <1>1, <1>2, Multiples
  <2> QED
    BY <1>1, <2>1
<1>3. CASE k < q
  <2>1. Span * k + Span <= Span * q
    BY <1>1, <1>3, Multiples
  <2> QED
    BY <1>1, <2>1
<1>4. CASE k = q
  BY <1>1, <1>4
<1> QED
  BY <1>1, <1>2, <1>3, <1>4

\* The start of the day does not go back.
LEMMA DaysGoOn ==
  ASSUME NEW Span \in Nat \ {0}, NEW x \in Int
  PROVE  (x + 1) - ((x + 1) % Span) >= x - (x % Span)
<1> DEFINE q == x \div Span
<1>1. x % Span \in 0..(Span - 1) /\ q \in Int /\ x = Span * q + (x % Span) /\ Span * q \in Int
  BY Division
<1> HIDE DEF q
<1>2. CASE x % Span < Span - 1
  <2>1. (x + 1) - Span * q \in 0..(Span - 1)
    BY <1>1, <1>2
  <2>2. (x + 1) - ((x + 1) % Span) = Span * q
    <3>1. q \in Int /\ x + 1 \in Int
      BY <1>1
    <3> QED
      BY <3>1, <2>1, StartOfDay
  <2> QED
    BY <1>1, <2>2
<1>3. CASE x % Span = Span - 1
  <2>1. Span * (q + 1) = Span * q + Span
    BY <1>1
  <2>2. (x + 1) - Span * (q + 1) \in 0..(Span - 1)
    BY <1>1, <1>3, <2>1
  <2>3. (x + 1) - ((x + 1) % Span) = Span * (q + 1)
    <3>1. q + 1 \in Int /\ x + 1 \in Int
      BY <1>1
    <3> QED
      BY <3>1, <2>2, StartOfDay
  <2> QED
    BY <1>1, <2>1, <2>3
<1> QED
  BY <1>1, <1>2, <1>3

-----------------------------------------------------------------------------
(* The inductive invariant                                                 *)

Entries == [by : LimitRequests, at : 1..limitNow]

TypeInv ==
  /\ L!TypeOK
  /\ zset \in [L!Limits -> SUBSET Entries]
  /\ passed \subseteq [by : LimitRequests, limit : L!Limits, house : {"redis", "database"}, at : 1..limitNow]
  /\ IsFiniteSet(passed) /\ \A l \in L!Limits : IsFiniteSet(zset[l])

\* Whatever Redis let through and would still count is in its set: an outage
\* leaves the set as it was.
RecordedInv ==
  \A p \in passed :
    p.house = "redis" /\ p.at > L!PruneBefore(p.limit) => [by |-> p.by, at |-> p.at] \in zset[p.limit]

Through(l, from, to) ==
  {p \in passed : p.limit = l /\ p.house = "redis" /\ p.at \in from..to}

\* The two limits, for stretches and days of any time, past or to come.
SlideInv ==
  \A t \in Int : Cardinality(Through("like", t - Window + 1, t)) <= MaxLikes

DayInv ==
  \A k \in Int : Cardinality(Through("post", Day * k + 1, Day * k + Day - 1)) <= MaxPosts

LimitsInv == TypeInv /\ RecordedInv /\ SlideInv /\ DayInv

LEMMA LimitNumbers ==
  ASSUME L!LimitsAssumption, TypeInv
  PROVE  /\ limitNow \in Nat \ {0} /\ limitNow \in Int
         /\ Window \in Nat \ {0} /\ Day \in Nat \ {0} /\ LimitTime \in Nat \ {0}
         /\ MaxLikes \in Nat /\ MaxPosts \in Nat
         /\ L!startOfUtcDay(limitNow) \in Int /\ L!startOfUtcDay(limitNow) <= limitNow
         /\ \A l \in L!Limits : L!PruneBefore(l) \in Int /\ L!PruneBefore(l) <= limitNow /\ L!MaxOf(l) \in Nat
<1>1. /\ limitNow \in Nat \ {0} /\ Window \in Nat \ {0} /\ Day \in Nat \ {0} /\ LimitTime \in Nat \ {0}
      /\ MaxLikes \in Nat /\ MaxPosts \in Nat
  BY DEF L!LimitsAssumption, TypeInv, L!TypeOK
<1>2. limitNow % Day \in 0..(Day - 1)
  BY <1>1, Division
<1> QED
  BY <1>1, <1>2 DEF L!startOfUtcDay, L!PruneBefore, L!MaxOf, L!Limits

LEMMA LimitsInit ==
  ASSUME L!LimitsAssumption, L!Init
  PROVE  LimitsInv
<1>1. TypeInv
  BY FS_EmptySet DEF L!LimitsAssumption, L!Init, TypeInv, L!TypeOK, L!Limits, Entries
<1>2. RecordedInv
  BY DEF L!Init, RecordedInv
<1>3. \A l, from, to : Through(l, from, to) = {}
  BY DEF L!Init, Through
<1>4. Cardinality({}) = 0 /\ MaxLikes \in Nat /\ MaxPosts \in Nat
  BY FS_EmptySet DEF L!LimitsAssumption
<1>5. SlideInv
  <2> SUFFICES ASSUME NEW t \in Int
               PROVE  Cardinality(Through("like", t - Window + 1, t)) <= MaxLikes
    BY DEF SlideInv
  <2>1. Through("like", t - Window + 1, t) = {}
    BY <1>3
  <2> QED
    BY <1>4, <2>1
<1>6. DayInv
  <2> SUFFICES ASSUME NEW k \in Int
               PROVE  Cardinality(Through("post", Day * k + 1, Day * k + Day - 1)) <= MaxPosts
    BY DEF DayInv
  <2>1. Through("post", Day * k + 1, Day * k + Day - 1) = {}
    BY <1>3
  <2> QED
    BY <1>4, <2>1
<1> QED
  BY <1>1, <1>2, <1>5, <1>6 DEF LimitsInv

-----------------------------------------------------------------------------
(* Counting                                                                *)

\* The script counts everything it let through after the bound.
LEMMA Counted ==
  ASSUME L!LimitsAssumption, TypeInv, RecordedInv, NEW l \in L!Limits, NEW from \in Int, NEW to \in Int,
         from > L!PruneBefore(l)
  PROVE  /\ IsFiniteSet(Through(l, from, to)) /\ IsFiniteSet(L!Kept(l))
         /\ Cardinality(Through(l, from, to)) \in Nat /\ Cardinality(L!Kept(l)) \in Nat
         /\ Cardinality(Through(l, from, to)) <= Cardinality(L!Kept(l))
<1> DEFINE T == Through(l, from, to)
           f == [p \in T |-> [by |-> p.by, at |-> p.at]]
<1>1. IsFiniteSet(L!Kept(l)) /\ Cardinality(L!Kept(l)) \in Nat
  <2>1. IsFiniteSet(zset[l]) /\ L!Kept(l) \in SUBSET zset[l]
    BY DEF TypeInv, L!Kept
  <2> QED
    BY <2>1, FS_Subset, FS_CardinalityType
<1>2. \A p \in T : /\ p \in passed
                   /\ p \in [by : LimitRequests, limit : L!Limits, house : {"redis", "database"}, at : 1..limitNow]
                   /\ p.limit = l /\ p.house = "redis" /\ p.at > L!PruneBefore(l)
  BY LimitNumbers DEF Through, TypeInv
<1>3. f \in [T -> L!Kept(l)]
  <2>1. \A p \in T : [by |-> p.by, at |-> p.at] \in L!Kept(l)
    BY <1>2 DEF RecordedInv, L!Kept
  <2> QED
    BY <2>1
<1>4. \A p, q \in T : f[p] = f[q] => p = q
  BY <1>2
<1>5. f \in Injection(T, L!Kept(l))
  BY <1>3, <1>4, Fun_IsInj
<1> QED
  BY <1>1, <1>5, FS_Injection, FS_CardinalityType

-----------------------------------------------------------------------------
(* The steps                                                               *)

\* A request let through by the script found room, and adds one to what was
\* counted; a stretch that has not reached the present keeps its count.
LEMMA OneMore ==
  ASSUME L!LimitsAssumption, TypeInv, RecordedInv, NEW r \in LimitRequests, NEW l \in L!Limits, L!Room(l),
         L!Pass(r, l, "redis"), NEW m \in L!Limits, NEW from \in Int, NEW to \in Int,
         m = l /\ limitNow \in from..to => from > L!PruneBefore(l),
         Cardinality(Through(m, from, to)) <= L!MaxOf(m)
  PROVE  Cardinality(Through(m, from, to)') <= L!MaxOf(m)
<1> DEFINE n == [by |-> r, limit |-> l, house |-> "redis", at |-> limitNow]
<1>0. passed' = passed \cup {n}
  BY DEF L!Pass
<1>1. CASE m = l /\ limitNow \in from..to
  <2>1. /\ IsFiniteSet(Through(m, from, to))
        /\ Cardinality(Through(m, from, to)) \in Nat /\ Cardinality(L!Kept(l)) \in Nat
        /\ Cardinality(Through(m, from, to)) <= Cardinality(L!Kept(l))
    BY <1>1, Counted
  <2>2. Through(m, from, to)' = Through(m, from, to) \cup {n}
    BY <1>0, <1>1 DEF Through
  <2>3. Cardinality(Through(m, from, to)') <= Cardinality(Through(m, from, to)) + 1
    <3> DEFINE S == Through(m, from, to)
    <3>1. IsFiniteSet(S) /\ Cardinality(S) \in Nat
      BY <2>1
    <3> HIDE DEF S, n
    <3>2. Cardinality(S \cup {n}) = IF n \in S THEN Cardinality(S) ELSE Cardinality(S) + 1
      BY <3>1, FS_AddElement
    <3>3. Cardinality(S \cup {n}) <= Cardinality(S) + 1
      BY <3>1, <3>2
    <3> QED
      BY <2>2, <3>3 DEF S
  <2>4. Cardinality(L!Kept(l)) < L!MaxOf(l) /\ L!MaxOf(l) \in Nat
    BY LimitSets, LimitNumbers DEF L!Room
  <2>5. Cardinality(Through(m, from, to)') \in Nat
    BY <2>1, <2>2, FS_AddElement, FS_CardinalityType
  <2> QED
    BY <1>1, <2>1, <2>3, <2>4, <2>5
<1>2. CASE ~(m = l /\ limitNow \in from..to)
  <2>1. Through(m, from, to)' = Through(m, from, to)
    BY <1>0, <1>2 DEF Through
  <2> QED
    BY <2>1
<1> QED
  BY <1>1, <1>2

LEMMA InRedisKeeps ==
  ASSUME L!LimitsAssumption, LimitsInv, NEW r \in LimitRequests, NEW l \in L!Limits, L!CheckInRedis(r, l)
  PROVE  LimitsInv'
<1>0. /\ TypeInv /\ RecordedInv /\ SlideInv /\ DayInv
      /\ UNCHANGED <<limitNow, redis, limitPosts, outages>>
      /\ limitNow \in Nat \ {0}
      /\ \A m \in L!Limits : L!PruneBefore(m)' = L!PruneBefore(m)
  BY LimitNumbers DEF LimitsInv, L!CheckInRedis, L!PruneBefore, L!startOfUtcDay
<1>1. IsFiniteSet(L!Kept(l)) /\ L!Kept(l) \subseteq zset[l]
  <2>1. IsFiniteSet(zset[l]) /\ L!Kept(l) \in SUBSET zset[l]
    BY <1>0 DEF TypeInv, L!Kept
  <2> QED
    BY <2>1, FS_Subset
<1>2. CASE L!Room(l)
  <2> DEFINE e == [by |-> r, at |-> limitNow]
             n == [by |-> r, limit |-> l, house |-> "redis", at |-> limitNow]
  <2>1. /\ zset' = [zset EXCEPT ![l] = L!Kept(l) \cup {e}] /\ L!Pass(r, l, "redis")
        /\ passed' = passed \cup {n}
    BY <1>2 DEF L!CheckInRedis, L!Pass
  <2>2. IsFiniteSet(L!Kept(l) \cup {e}) /\ IsFiniteSet(passed \cup {n})
    BY <1>0, <1>1, FS_AddElement DEF TypeInv
  <2>3. TypeInv'
    BY <1>0, <1>1, <2>1, <2>2 DEF TypeInv, L!TypeOK, Entries
  <2>4. RecordedInv'
    BY <1>0, <2>1 DEF TypeInv, RecordedInv, L!Kept
  <2>5. SlideInv'
    <3> SUFFICES ASSUME NEW t \in Int
                 PROVE  Cardinality(Through("like", t - Window + 1, t)') <= MaxLikes
      BY DEF SlideInv
    <3>1. t - Window + 1 \in Int /\ "like" \in L!Limits /\ L!MaxOf("like") = MaxLikes
      BY <1>0, LimitNumbers DEF L!Limits, L!MaxOf
    <3>2. "like" = l /\ limitNow \in (t - Window + 1)..t => t - Window + 1 > L!PruneBefore(l)
      BY <1>0, LimitNumbers DEF L!PruneBefore
    <3>3. Cardinality(Through("like", t - Window + 1, t)) <= L!MaxOf("like")
      BY <1>0, <3>1 DEF SlideInv
    <3> QED
      BY <1>0, <1>2, <2>1, <3>1, <3>2, <3>3, OneMore
  <2>6. DayInv'
    <3> SUFFICES ASSUME NEW k \in Int
                 PROVE  Cardinality(Through("post", Day * k + 1, Day * k + Day - 1)') <= MaxPosts
      BY DEF DayInv
    <3> DEFINE from == Day * k + 1
               to == Day * k + Day - 1
    <3>1. /\ from \in Int /\ to \in Int /\ Day * k \in Int /\ limitNow \in Int /\ Day \in Nat \ {0}
          /\ "post" \in L!Limits /\ L!MaxOf("post") = MaxPosts
      BY <1>0, LimitNumbers DEF L!Limits, L!MaxOf
    <3>2. ASSUME "post" = l, limitNow \in from..to
          PROVE  from > L!PruneBefore(l)
      <4>1. limitNow - Day * k \in 0..(Day - 1)
        BY <3>1, <3>2
      <4>2. L!startOfUtcDay(limitNow) = Day * k
        BY <3>1, <4>1, StartOfDay DEF L!startOfUtcDay
      <4> QED
        BY <3>1, <3>2, <4>2 DEF L!PruneBefore
    <3>3. Cardinality(Through("post", from, to)) <= L!MaxOf("post")
      BY <1>0, <3>1 DEF DayInv
    <3> HIDE DEF from, to
    <3>4. Cardinality(Through("post", from, to)') <= L!MaxOf("post")
      BY <1>0, <1>2, <2>1, <3>1, <3>2, <3>3, OneMore
    <3> QED
      BY <3>1, <3>4 DEF from, to
  <2> QED
    BY <2>3, <2>4, <2>5, <2>6 DEF LimitsInv
<1>3. CASE ~L!Room(l)
  <2>1. zset' = [zset EXCEPT ![l] = L!Kept(l)] /\ UNCHANGED passed
    BY <1>3 DEF L!CheckInRedis, L!Refuse
  <2>2. TypeInv'
    BY <1>0, <1>1, <2>1 DEF TypeInv, L!TypeOK, Entries
  <2>3. RecordedInv'
    BY <1>0, <2>1 DEF TypeInv, RecordedInv, L!Kept
  <2>4. SlideInv' /\ DayInv'
    BY <1>0, <2>1 DEF SlideInv, DayInv, Through
  <2> QED
    BY <2>2, <2>3, <2>4 DEF LimitsInv
<1> QED
  BY <1>2, <1>3

\* What the database lets through in an outage is not Redis's.
LEMMA InDatabaseKeeps ==
  ASSUME L!LimitsAssumption, LimitsInv, NEW r \in LimitRequests, NEW l \in L!Limits, L!CheckInDatabase(r, l)
  PROVE  LimitsInv'
<1> DEFINE n == [by |-> r, limit |-> l, house |-> "database", at |-> limitNow]
<1>0. /\ UNCHANGED <<limitNow, redis, zset, limitPosts, outages>>
      /\ passed' = passed \/ passed' = passed \cup {n}
      /\ limitNow \in Nat \ {0}
      /\ \A m \in L!Limits : L!PruneBefore(m)' = L!PruneBefore(m)
  BY LimitNumbers DEF LimitsInv, L!CheckInDatabase, L!Pass, L!Refuse, L!PruneBefore, L!startOfUtcDay
<1>1. IsFiniteSet(passed')
  <2>1. IsFiniteSet(passed) /\ IsFiniteSet(passed \cup {n})
    BY FS_AddElement DEF LimitsInv, TypeInv
  <2> QED
    BY <1>0, <2>1
<1>2. TypeInv'
  BY <1>0, <1>1 DEF LimitsInv, TypeInv, L!TypeOK, Entries
<1>3. RecordedInv'
  BY <1>0 DEF LimitsInv, TypeInv, RecordedInv
<1>4. \A m, from, to : Through(m, from, to)' = Through(m, from, to)
  BY <1>0 DEF Through
<1>5. SlideInv' /\ DayInv'
  BY <1>4 DEF LimitsInv, SlideInv, DayInv
<1> QED
  BY <1>2, <1>3, <1>5 DEF LimitsInv

\* As time passes the bounds only go on, so the sets need hold no more.
LEMMA TickKeeps ==
  ASSUME L!LimitsAssumption, LimitsInv, L!Tick
  PROVE  LimitsInv'
<1>0. /\ limitNow' = limitNow + 1 /\ limitNow < LimitTime /\ limitNow \in Nat \ {0} /\ LimitTime \in Nat
      /\ Window \in Nat /\ Day \in Nat \ {0}
      /\ UNCHANGED <<redis, zset, limitPosts, passed, pc, outages>>
  BY LimitNumbers DEF LimitsInv, L!Tick
<1>1. L!startOfUtcDay(limitNow)' >= L!startOfUtcDay(limitNow)
  <2>1. (limitNow + 1) - ((limitNow + 1) % Day) >= limitNow - (limitNow % Day)
    <3>1. limitNow \in Int /\ Day \in Nat \ {0}
      BY <1>0
    <3> QED
      BY <3>1, DaysGoOn, Zenon
  <2> QED
    BY <1>0, <2>1 DEF L!startOfUtcDay
<1>2. L!startOfUtcDay(limitNow)' \in Int /\ L!startOfUtcDay(limitNow) \in Int
  <2>1. limitNow' % Day \in Int /\ limitNow' \in Int
    BY <1>0, Division
  <2> QED
    BY <2>1, LimitNumbers DEF LimitsInv, L!startOfUtcDay
<1>3. \A m \in L!Limits : /\ L!PruneBefore(m)' \in Int /\ L!PruneBefore(m) \in Int
                        /\ L!PruneBefore(m)' >= L!PruneBefore(m)
  BY <1>0, <1>1, <1>2 DEF L!PruneBefore, L!startOfUtcDay
<1>4. 1..limitNow \subseteq 1..limitNow' /\ limitNow' \in 1..LimitTime
  BY <1>0
<1>5. TypeInv'
  BY <1>0, <1>4 DEF LimitsInv, TypeInv, L!TypeOK, Entries
<1>6. RecordedInv'
  BY <1>0, <1>3 DEF LimitsInv, TypeInv, RecordedInv
<1>7. SlideInv' /\ DayInv'
  BY <1>0 DEF LimitsInv, SlideInv, DayInv, Through
<1> QED
  BY <1>5, <1>6, <1>7 DEF LimitsInv

LEMMA OtherKeeps ==
  ASSUME L!LimitsAssumption, LimitsInv,
         (\E r \in LimitRequests : L!CreatePost(r)) \/ L!Outage \/ UNCHANGED L!vars
  PROVE  LimitsInv'
<1>0. /\ UNCHANGED <<limitNow, zset, passed>> /\ redis' \in BOOLEAN
      /\ limitPosts' \subseteq [by : LimitRequests, at : 1..limitNow] /\ limitNow \in Nat \ {0}
  <2>1. L!TypeOK /\ limitNow \in Nat \ {0}
    BY LimitNumbers DEF LimitsInv, TypeInv
  <2>2. CASE \E r \in LimitRequests : L!CreatePost(r)
    <3>1. PICK r \in LimitRequests : L!CreatePost(r)
      BY <2>2
    <3>2. [by |-> r, at |-> limitNow] \in [by : LimitRequests, at : 1..limitNow]
      BY <2>1
    <3> QED
      BY <2>1, <3>1, <3>2 DEF L!TypeOK, L!CreatePost
  <2>3. CASE L!Outage \/ UNCHANGED L!vars
    BY <2>1, <2>3 DEF L!TypeOK, L!Outage, L!vars
  <2> QED
    BY <2>2, <2>3
<1>1. TypeInv'
  BY <1>0 DEF LimitsInv, TypeInv, L!TypeOK, Entries
<1>2. RecordedInv' /\ SlideInv' /\ DayInv'
  BY <1>0 DEF LimitsInv, RecordedInv, SlideInv, DayInv, Through, L!PruneBefore, L!startOfUtcDay
<1> QED
  BY <1>1, <1>2 DEF LimitsInv

-----------------------------------------------------------------------------
(* The theorems                                                            *)

LEMMA LimitsInductive ==
  ASSUME L!LimitsAssumption, LimitsInv, [L!Next]_L!vars
  PROVE  LimitsInv'
<1>1. CASE \E r \in LimitRequests, l \in L!Limits : L!CheckInRedis(r, l)
  BY <1>1, InRedisKeeps
<1>2. CASE \E r \in LimitRequests, l \in L!Limits : L!CheckInDatabase(r, l)
  BY <1>2, InDatabaseKeeps
<1>3. CASE L!Tick
  BY <1>3, TickKeeps
<1>4. CASE (\E r \in LimitRequests : L!CreatePost(r)) \/ L!Outage \/ UNCHANGED L!vars
  BY <1>4, OtherKeeps
<1> QED
  BY <1>1, <1>2, <1>3, <1>4 DEF L!Next


\* In no stretch of the length of the window are more actions let through by
\* Redis than the limit, whatever outages there were meanwhile.
LEMMA SlidesWithin ==
  ASSUME L!LimitsAssumption, LimitsInv
  PROVE  L!SlidingWindow
<1> SUFFICES ASSUME NEW t \in 1..limitNow
             PROVE  Cardinality(Through("like", t - Window + 1, t)) <= MaxLikes
  BY LimitSets DEF L!SlidingWindow, L!PassedIn, Through
<1>1. t \in Int
  OBVIOUS
<1> QED
  BY <1>1 DEF LimitsInv, SlideInv

\* On no day, the instant of midnight apart, are more posts let through by
\* Redis than the limit.
LEMMA DaysWithin ==
  ASSUME L!LimitsAssumption, LimitsInv
  PROVE  L!DailyCapAfterMidnight
<1> SUFFICES ASSUME NEW t \in 1..limitNow
             PROVE  LET d == L!startOfUtcDay(t)
                    IN  Cardinality(Through("post", d + 1, d + Day - 1)) <= MaxPosts
  BY LimitSets DEF L!DailyCapAfterMidnight, L!PassedIn, Through
<1> DEFINE k == t \div Day
<1>1. Day \in Nat \ {0} /\ t \in Int
  BY LimitNumbers DEF LimitsInv
<1>2. k \in Int /\ L!startOfUtcDay(t) = Day * k
  <2>1. t % Day \in 0..(Day - 1) /\ k \in Int /\ t = Day * k + (t % Day) /\ Day * k \in Int
    BY <1>1, Division
  <2> HIDE DEF k
  <2> QED
    BY <1>1, <2>1 DEF L!startOfUtcDay
<1> HIDE DEF k
<1> QED
  BY <1>2 DEF LimitsInv, DayInv

-----------------------------------------------------------------------------
(* The counters of attempts.  Links: what went through stands behind the    *)
(* entry of its mailbox, in windows that do not overlap.  Guesses and       *)
(* registrations: those that have looked at a counter and may still record  *)
(* have room above the limit that each of them found.                       *)

LEMMA AttemptSets ==
  /\ \A S : A!IsFiniteSet(S) <=> IsFiniteSet(S)
  /\ \A S : A!Cardinality(S) = Cardinality(S)
<1>1. \A S : A!IsFiniteSet(S) <=> IsFiniteSet(S)
  BY DEF A!IsFiniteSet, IsFiniteSet
<1>2. \A S : A!Cardinality(S) = Cardinality(S)
  BY DEF A!Cardinality, Cardinality
<1> QED
  BY <1>1, <1>2

Mailboxes == {"link"} \X Emails

Passing == [key : Mailboxes, at : Nat, until : Nat, nth : Nat]

\* An entry that counts has counted, and ends within a window of now.
EntryInv ==
  \A k \in A!Keys : A!Live(k) => counters[k].count >= 1 /\ counters[k].resetAt <= attemptNow + MCWindow[k]

\* What went through is a link; it was counted within the window it bears, the
\* first of a window when the window began.
PassedInv ==
  /\ linksPassed \subseteq Passing
  /\ \A p \in linksPassed :
       /\ p.nth \in 1..MCMaxOf[p.key]
       /\ p.at <= attemptNow /\ p.until - MCWindow[p.key] <= p.at /\ p.at < p.until
       /\ p.nth = 1 => p.at = p.until - MCWindow[p.key]

\* What went through is behind the entry of its key, in its window or in one
\* that was over when the entry began.
BehindInv ==
  \A p \in linksPassed :
    /\ p.until > attemptNow => A!Live(p.key)
    /\ A!Live(p.key) => \/ p.until = counters[p.key].resetAt /\ p.nth <= counters[p.key].count
                      \/ p.until + MCWindow[p.key] <= counters[p.key].resetAt

\* The windows of a key do not overlap, and none counts the same number twice.
ApartInv ==
  \A p, q \in linksPassed : p.key = q.key =>
    /\ p.until < q.until => p.until + MCWindow[p.key] <= q.until
    /\ p.until = q.until /\ p.nth = q.nth => p = q

\* Those that may still record k, without another look at its counter.
Pending(k) ==
  {r \in AttemptRequests :
     \/ attempts[r].pc \in {"find", "compare"} /\ k = <<"login", attempts[r].email>>
     \/ attempts[r].pc = "compare" /\ k = <<"login", attempts[r].ip>>
     \/ attempts[r].pc = "register" /\ k \in {<<"register", attempts[r].email>>, <<"register", attempts[r].ip>>}}

\* They have room above the limit that each of them was below.
PendingInv ==
  \A k \in A!Keys :
    IF k[1] = "link" THEN counters[k].count <= MCMaxOf[k]
    ELSE counters[k].count + Cardinality(Pending(k)) <= A!Highest(k) - 1 + Cardinality(AttemptRequests)

AttemptsInv == A!TypeOK /\ EntryInv /\ PassedInv /\ BehindInv /\ ApartInv /\ PendingInv

LEMMA AttemptNumbers ==
  ASSUME A!AttemptAssumption
  PROVE  /\ MaxIpAdmin \in Nat \ {0} /\ AttemptTime \in Nat \ {0}
         /\ Mailboxes \subseteq A!Keys
         /\ Cardinality(AttemptRequests) \in Nat
         /\ \A k \in A!Keys : /\ MCWindow[k] \in Nat \ {0} /\ MCMaxOf[k] \in Nat \ {0}
                            /\ A!Highest(k) \in Nat \ {0} /\ MCMaxOf[k] <= A!Highest(k)
         /\ \A ip \in Ips : MaxIpAdmin <= A!Highest(<<"login", ip>>)
<1>1. \A k \in A!Keys : MCWindow[k] \in Nat \ {0} /\ MCMaxOf[k] \in Nat \ {0}
  BY DEF A!AttemptAssumption
<1>2. Mailboxes \subseteq A!Keys
  BY DEF Mailboxes, A!Keys, A!Routes
<1>3. Cardinality(AttemptRequests) \in Nat
  BY AttemptSets, FS_CardinalityType DEF A!AttemptAssumption
<1>4. MaxIpAdmin \in Nat \ {0} /\ AttemptTime \in Nat \ {0}
  BY DEF A!AttemptAssumption
<1>5. \A k \in A!Keys : A!Highest(k) \in Nat \ {0} /\ MCMaxOf[k] <= A!Highest(k)
  BY <1>1, <1>4 DEF A!Highest
<1>6. ASSUME NEW ip \in Ips
      PROVE  MaxIpAdmin <= A!Highest(<<"login", ip>>)
  <2> DEFINE k == <<"login", ip>>
  <2>1. k \in A!Keys /\ k[1] = "login" /\ k[2] = ip
    BY DEF A!Keys, A!Routes
  <2>2. MCMaxOf[k] \in Nat
    BY <1>1, <2>1
  <2> QED
    BY <1>4, <2>1, <2>2 DEF A!Highest
<1> QED
  BY <1>1, <1>2, <1>3, <1>4, <1>5, <1>6

LEMMA EntryFields ==
  ASSUME A!AttemptAssumption, A!TypeOK, NEW k \in A!Keys
  PROVE  /\ attemptNow \in Nat /\ counters[k].count \in Nat /\ counters[k].resetAt \in Nat
         /\ MCWindow[k] \in Nat \ {0} /\ MCMaxOf[k] \in Nat \ {0}
         /\ A!NoEntry \in [count : Nat, resetAt : Nat] /\ A!NoEntry.count = 0 /\ A!NoEntry.resetAt = 0
         /\ counters[k] \in [count : Nat, resetAt : Nat]
  BY AttemptNumbers DEF A!TypeOK, A!NoEntry

\* What a key's entry becomes when it is recorded or looked at.
LEMMA EntrySteps ==
  ASSUME A!AttemptAssumption, A!TypeOK, NEW k \in A!Keys
  PROVE  /\ A!Recorded(k) \in [count : Nat, resetAt : Nat]
         /\ A!Pruned(k) \in [count : Nat, resetAt : Nat]
         /\ A!Live(k) => /\ A!Recorded(k).count = counters[k].count + 1
                       /\ A!Recorded(k).resetAt = counters[k].resetAt
                       /\ A!Pruned(k) = counters[k]
         /\ ~A!Live(k) => /\ A!Recorded(k).count = 1 /\ A!Recorded(k).resetAt = attemptNow + MCWindow[k]
                        /\ A!Pruned(k).count = 0 /\ A!Pruned(k).resetAt = 0
  BY EntryFields DEF A!Recorded, A!Pruned

LEMMA EntriesCounted ==
  ASSUME A!AttemptAssumption, A!TypeOK, NEW checked, NEW recorded, A!Count(checked, recorded)
  PROVE  /\ counters' \in [A!Keys -> [count : Nat, resetAt : Nat]]
         /\ \A k \in A!Keys : k \in recorded => counters'[k] = A!Recorded(k)
         /\ \A k \in A!Keys : k \in checked /\ k \notin recorded => counters'[k] = A!Pruned(k)
         /\ \A k \in A!Keys : k \notin checked /\ k \notin recorded => counters'[k] = counters[k]
  BY EntryFields, EntrySteps DEF A!Count

LEMMA AttemptsInit ==
  ASSUME A!AttemptAssumption, A!Init
  PROVE  AttemptsInv
<1>1. A!TypeOK
  BY DEF A!AttemptAssumption, A!Init, A!TypeOK, A!NoEntry, A!Request
<1>2. \A k \in A!Keys : counters[k].count = 0 /\ ~A!Live(k)
  BY DEF A!Init, A!NoEntry, A!Live
<1>3. \A k \in A!Keys : Pending(k) = {}
  BY DEF A!Init, Pending, A!Idle
<1>4. PendingInv
  <2> SUFFICES ASSUME NEW k \in A!Keys
               PROVE  IF k[1] = "link" THEN counters[k].count <= MCMaxOf[k]
                      ELSE counters[k].count + Cardinality(Pending(k)) <= A!Highest(k) - 1 + Cardinality(AttemptRequests)
    BY DEF PendingInv
  <2>1. Cardinality(Pending(k)) = 0
    BY <1>3, FS_EmptySet
  <2> QED
    BY <1>2, <2>1, AttemptNumbers
<1> QED
  BY <1>1, <1>2, <1>4 DEF A!Init, AttemptsInv, EntryInv, PassedInv, BehindInv, ApartInv

-----------------------------------------------------------------------------
(* Kinds of step                                                           *)

\* A mailbox that is not recorded keeps its entry, unless that was over.
Left(k) == counters'[k] \in {counters[k], A!Pruned(k)}

Quiet ==
  /\ UNCHANGED <<attemptNow, linksPassed>>
  /\ \A k \in Mailboxes : Left(k)

Sends(box) ==
  /\ ~A!Limited(box, MCMaxOf[box]) /\ A!Passes(box) /\ attemptNow' = attemptNow
  /\ counters'[box] = A!Recorded(box)
  /\ \A k \in Mailboxes \ {box} : Left(k)

LEMMA QuietCount ==
  ASSUME A!AttemptAssumption, A!TypeOK, NEW checked, NEW recorded, A!Count(checked, recorded),
         UNCHANGED <<attemptNow, linksPassed>>, recorded \cap Mailboxes = {}
  PROVE  Quiet
  BY EntriesCounted, AttemptNumbers DEF Quiet, Left

LEMMA LoginKeys ==
  ASSUME A!AttemptAssumption, A!TypeOK
  PROVE  /\ \A x : {<<"login", x>>} \cap Mailboxes = {}
         /\ \A x, y : {<<"login", x>>, <<"login", y>>} \cap Mailboxes = {}
         /\ \A x, y : {<<"register", x>>, <<"register", y>>} \cap Mailboxes = {}
         /\ \A ip \in Ips : <<"link", ip>> \notin Mailboxes
         /\ \A e \in Emails : <<"link", e>> \in Mailboxes
  BY DEF Mailboxes, A!AttemptAssumption

LEMMA AttemptSteps ==
  ASSUME A!AttemptAssumption, A!TypeOK, [A!Next]_A!vars
  PROVE  Quiet \/ (\E box \in Mailboxes : Sends(box)) \/ A!Restart \/ A!Tick
<1>1. CASE \E e \in Emails : A!Restore(e)
  <2>1. PICK e \in Emails : A!Restore(e)
    BY <1>1
  <2>2. <<"link", e>> \in Mailboxes
    BY LoginKeys
  <2>3. CASE A!Limited(<<"link", e>>, MCMaxOf[<<"link", e>>])
    <3>1. A!Count({<<"link", e>>}, {}) /\ UNCHANGED <<attemptNow, linksPassed>>
      BY <2>1, <2>3 DEF A!Restore
    <3> QED
      BY <3>1, QuietCount
  <2>4. CASE ~A!Limited(<<"link", e>>, MCMaxOf[<<"link", e>>])
    <3>1. A!Count({}, {<<"link", e>>}) /\ A!Passes(<<"link", e>>) /\ attemptNow' = attemptNow
      BY <2>1, <2>4 DEF A!Restore
    <3>2. Sends(<<"link", e>>)
      BY <2>2, <2>4, <3>1, EntriesCounted, AttemptNumbers DEF Sends, Left
    <3> QED
      BY <2>2, <3>2
  <2> QED
    BY <2>3, <2>4
<1>2. CASE \E e \in Emails, ip \in Ips : A!Link(e, ip)
  <2>1. PICK e \in Emails, ip \in Ips : A!Link(e, ip)
    BY <1>2
  <2> DEFINE box == <<"link", e>>
             from == <<"link", ip>>
  <2>2. box \in Mailboxes /\ from \notin Mailboxes
    BY LoginKeys
  <2>3. CASE ~A!Limited(from, MCMaxOf[from]) /\ ~A!Limited(box, MCMaxOf[box]) /\ A!Count({}, {from, box}) /\ A!Passes(box)
    <3>1. attemptNow' = attemptNow
      BY <2>1 DEF A!Link
    <3>2. Sends(box)
      BY <2>2, <2>3, <3>1, EntriesCounted, AttemptNumbers DEF Sends, Left
    <3> QED
      BY <2>2, <3>2
  <2>4. CASE A!Count({from}, {}) /\ UNCHANGED <<attemptNow, linksPassed>>
    BY <2>4, QuietCount
  <2>5. CASE A!Count({box}, {from}) /\ UNCHANGED <<attemptNow, linksPassed>>
    <3>1. {from} \cap Mailboxes = {}
      BY <2>2
    <3> QED
      BY <2>5, <3>1, QuietCount
  <2> QED
    BY <2>1, <2>3, <2>4, <2>5 DEF A!Link
<1>3. CASE \E r \in AttemptRequests : A!RequestStep(r)
  <2>1. PICK r \in AttemptRequests : A!RequestStep(r)
    BY <1>3
  <2>2. CASE \E e \in Emails, ip \in Ips : A!Login(r, e, ip)
    BY <2>2, QuietCount DEF A!Login
  <2>3. CASE \E e \in Emails, ip \in Ips : A!Register(r, e, ip)
    <3>1. \E checked : A!Count(checked, {}) /\ UNCHANGED <<attemptNow, linksPassed>>
      BY <2>3 DEF A!Register
    <3> QED
      BY <3>1, QuietCount
  <2>4. CASE A!LoginUnknown(r)
    BY <2>4, QuietCount, LoginKeys DEF A!LoginUnknown, A!From, A!Account
  <2>5. CASE A!LoginKnown(r)
    BY <2>5, QuietCount DEF A!LoginKnown
  <2>6. CASE A!LoginCompared(r)
    <3>1. CASE A!Count({}, {A!Account(r), A!From(r)})
      BY <2>6, <3>1, QuietCount, LoginKeys DEF A!LoginCompared, A!From, A!Account
    <3>2. CASE UNCHANGED counters
      BY <2>6, <3>2 DEF A!LoginCompared, Quiet, Left
    <3> QED
      BY <2>6, <3>1, <3>2 DEF A!LoginCompared
  <2>7. CASE A!LoginSucceeds(r)
    <3>1. A!Account(r) \notin Mailboxes
      BY LoginKeys DEF A!Account
    <3>2. \A k \in Mailboxes : counters'[k] = counters[k]
      BY <2>7, <3>1, AttemptNumbers DEF A!LoginSucceeds, A!TypeOK
    <3> QED
      BY <2>7, <3>2 DEF A!LoginSucceeds, Quiet, Left
  <2>8. CASE A!Registered(r)
    BY <2>8, QuietCount, LoginKeys DEF A!Registered
  <2>9. CASE A!Fail(r)
    BY <2>9 DEF A!Fail, Quiet, Left
  <2> QED
    BY <2>1, <2>2, <2>3, <2>4, <2>5, <2>6, <2>7, <2>8, <2>9 DEF A!RequestStep
<1>4. CASE A!Cleanup
  BY <1>4, QuietCount DEF A!Cleanup
<1>5. CASE UNCHANGED A!vars
  BY <1>5 DEF A!vars, Quiet, Left
<1> QED
  BY <1>1, <1>2, <1>3, <1>4, <1>5 DEF A!Next

-----------------------------------------------------------------------------
(* What the links leave behind                                             *)

LEMMA TypeStep ==
  ASSUME A!AttemptAssumption, AttemptsInv, [A!Next]_A!vars
  PROVE  A!TypeOK'
<1> USE DEF AttemptsInv
<1>0. A!TypeOK /\ attemptNow \in Nat
  BY DEF A!TypeOK
<1>1. /\ AttemptTime \in Nat \ {0} /\ attemptNow \in 1..AttemptTime /\ attempts \in [AttemptRequests -> A!Request]
      /\ counters \in [A!Keys -> [count : Nat, resetAt : Nat]]
  BY AttemptNumbers DEF A!TypeOK
<1>2. attemptNow' \in 1..AttemptTime /\ attemptNow <= attemptNow'
  BY <1>0, <1>1, AttemptSteps DEF Quiet, Sends, A!Restart, A!Tick
<1>3. \A checked, recorded : A!Count(checked, recorded) => counters' \in [A!Keys -> [count : Nat, resetAt : Nat]]
  BY <1>0, EntriesCounted
<1>4. A!NoEntry \in [count : Nat, resetAt : Nat]
  BY DEF A!NoEntry
<1>5. counters' \in [A!Keys -> [count : Nat, resetAt : Nat]]
  <2>1. CASE \E r \in AttemptRequests : A!LoginSucceeds(r)
    BY <1>1, <1>4, <2>1 DEF A!LoginSucceeds
  <2>2. CASE A!Restart
    BY <1>4, <2>2 DEF A!Restart
  <2>3. CASE UNCHANGED counters
    BY <1>1, <2>3
  <2>4. CASE \E checked, recorded : A!Count(checked, recorded)
    BY <1>3, <2>4
  <2>5. ASSUME NEW r \in AttemptRequests, A!RequestStep(r)
        PROVE  A!LoginSucceeds(r) \/ UNCHANGED counters \/ \E checked, recorded : A!Count(checked, recorded)
    <3>1. ASSUME NEW e \in Emails, NEW ip \in Ips, A!Login(r, e, ip) \/ A!Register(r, e, ip)
          PROVE  \E checked, recorded : A!Count(checked, recorded)
      BY <3>1 DEF A!Login, A!Register
    <3>2. CASE A!LoginUnknown(r)
      BY <3>2 DEF A!LoginUnknown
    <3>3. CASE A!LoginKnown(r)
      BY <3>3 DEF A!LoginKnown
    <3>4. CASE A!LoginCompared(r)
      BY <3>4 DEF A!LoginCompared
    <3>5. CASE A!Registered(r)
      BY <3>5 DEF A!Registered
    <3>6. CASE A!Fail(r)
      BY <3>6 DEF A!Fail
    <3> QED
      BY <2>5, <3>1, <3>2, <3>3, <3>4, <3>5, <3>6 DEF A!RequestStep
  <2>6. CASE \E e \in Emails : A!Restore(e) \/ \E ip \in Ips : A!Link(e, ip)
    <3>1. ASSUME NEW e \in Emails, A!Restore(e)
          PROVE  \E checked, recorded : A!Count(checked, recorded)
      BY <3>1 DEF A!Restore
    <3>2. ASSUME NEW e \in Emails, NEW ip \in Ips, A!Link(e, ip)
          PROVE  \E checked, recorded : A!Count(checked, recorded)
      BY <3>2 DEF A!Link
    <3> QED
      BY <2>4, <2>6, <3>1, <3>2
  <2>7. CASE A!Cleanup \/ A!Tick \/ UNCHANGED A!vars
    BY <2>3, <2>4, <2>7 DEF A!Cleanup, A!Tick, A!vars
  <2> QED
    BY <2>1, <2>2, <2>3, <2>4, <2>5, <2>6, <2>7 DEF A!Next
<1>6. attempts' \in [AttemptRequests -> A!Request]
  <2>1. A!Idle \in A!Request
    BY DEF A!Request
  <2>2. ASSUME NEW r \in AttemptRequests, A!RequestStep(r)
        PROVE  attempts' \in [AttemptRequests -> A!Request]
    <3>1. A!Done(r) => attempts' \in [AttemptRequests -> A!Request]
      BY <1>1, <2>1 DEF A!Done
    <3>2. ASSUME NEW step \in {"compare", "session"}, attempts[r].pc \in {"find", "compare"}, A!Goto(r, step)
          PROVE  attempts' \in [AttemptRequests -> A!Request]
      <4>1. attempts[r] \in [pc : {"find", "compare", "session", "register"}, email : Emails, ip : Ips]
        <5>1. attempts[r] \in A!Request /\ attempts[r].pc # "idle"
          BY <1>1, <3>2
        <5>2. A!Idle.pc = "idle"
          BY DEF A!Idle
        <5> QED
          BY <5>1, <5>2 DEF A!Request
      <4>2. [attempts[r] EXCEPT !.pc = step] \in A!Request
        BY <4>1 DEF A!Request
      <4> QED
        BY <1>1, <3>2, <4>2 DEF A!Goto
    <3>3. ASSUME NEW e \in Emails, NEW ip \in Ips, NEW step \in {"find", "register"},
                 attempts' = [attempts EXCEPT ![r] = [pc |-> step, email |-> e, ip |-> ip]]
          PROVE  attempts' \in [AttemptRequests -> A!Request]
      <4>1. [pc |-> step, email |-> e, ip |-> ip] \in A!Request
        BY DEF A!Request
      <4> QED
        BY <1>1, <3>3, <4>1
    <3>4. ASSUME NEW e \in Emails, NEW ip \in Ips, A!Login(r, e, ip) \/ A!Register(r, e, ip)
          PROVE  attempts' \in [AttemptRequests -> A!Request]
      BY <1>1, <3>3, <3>4 DEF A!Login, A!Register
    <3>5. CASE A!LoginUnknown(r)
      BY <3>1, <3>5 DEF A!LoginUnknown
    <3>6. CASE A!LoginKnown(r)
      BY <3>1, <3>2, <3>6 DEF A!LoginKnown
    <3>7. CASE A!LoginCompared(r)
      BY <3>1, <3>2, <3>7 DEF A!LoginCompared
    <3>8. CASE A!LoginSucceeds(r) \/ A!Registered(r) \/ A!Fail(r)
      BY <3>1, <3>8 DEF A!LoginSucceeds, A!Registered, A!Fail
    <3> QED
      BY <2>2, <3>4, <3>5, <3>6, <3>7, <3>8 DEF A!RequestStep
  <2>3. CASE \E e \in Emails : A!Restore(e) \/ \E ip \in Ips : A!Link(e, ip)
    BY <1>1, <2>3 DEF A!Restore, A!Link
  <2>4. CASE A!Cleanup \/ A!Tick \/ UNCHANGED A!vars
    BY <1>1, <2>4 DEF A!Cleanup, A!Tick, A!vars
  <2>5. CASE A!Restart
    BY <2>1, <2>5 DEF A!Restart
  <2> QED
    BY <2>2, <2>3, <2>4, <2>5 DEF A!Next
<1>7. \A p \in linksPassed' : p.key \in A!Keys /\ p.at \in 1..attemptNow' /\ p.until \in Nat /\ p.nth \in Nat
  <2>1. \A p \in linksPassed : p.key \in A!Keys /\ p.at \in 1..attemptNow' /\ p.until \in Nat /\ p.nth \in Nat
    BY <1>0, <1>1, <1>2 DEF A!TypeOK
  <2>2. ASSUME NEW box \in Mailboxes, Sends(box), NEW p \in linksPassed'
        PROVE  p.key \in A!Keys /\ p.at \in 1..attemptNow' /\ p.until \in Nat /\ p.nth \in Nat
    <3>1. A!Recorded(box) \in [count : Nat, resetAt : Nat] /\ box \in A!Keys
      BY <1>0, EntrySteps, AttemptNumbers
    <3>2. \/ p \in linksPassed
          \/ p = [key |-> box, at |-> attemptNow, until |-> A!Recorded(box).resetAt, nth |-> A!Recorded(box).count]
      BY <2>2 DEF Sends, A!Passes
    <3>3. attemptNow' = attemptNow
      BY <2>2 DEF Sends
    <3> QED
      BY <1>1, <2>1, <3>1, <3>2, <3>3
  <2>3. CASE Quiet \/ A!Restart \/ A!Tick
    BY <2>1, <2>3 DEF Quiet, A!Restart, A!Tick
  <2> QED
    BY <1>0, <2>2, <2>3, AttemptSteps
<1> QED
  BY <1>2, <1>5, <1>6, <1>7 DEF A!TypeOK

\* What becomes of any entry.
LEMMA EntryMoves ==
  ASSUME A!AttemptAssumption, A!TypeOK, [A!Next]_A!vars, NEW k \in A!Keys
  PROVE  /\ counters'[k] \in {counters[k], A!Pruned(k), A!Recorded(k), A!NoEntry}
         /\ attemptNow' = attemptNow \/ counters'[k] = counters[k]
         /\ attemptNow' \in {attemptNow, attemptNow + 1}
<1>1. ASSUME NEW checked, NEW recorded, A!Count(checked, recorded)
      PROVE  counters'[k] \in {counters[k], A!Pruned(k), A!Recorded(k)}
  BY <1>1, EntriesCounted
<1>2. ASSUME NEW r \in AttemptRequests, A!RequestStep(r)
      PROVE  counters'[k] \in {counters[k], A!Pruned(k), A!Recorded(k), A!NoEntry} /\ attemptNow' = attemptNow
  <2>1. ASSUME NEW e \in Emails, NEW ip \in Ips, A!Login(r, e, ip) \/ A!Register(r, e, ip)
        PROVE  counters'[k] \in {counters[k], A!Pruned(k), A!Recorded(k), A!NoEntry} /\ attemptNow' = attemptNow
    BY <1>1, <2>1 DEF A!Login, A!Register
  <2>2. CASE A!LoginUnknown(r)
    BY <1>1, <2>2 DEF A!LoginUnknown
  <2>3. CASE A!LoginKnown(r)
    BY <1>1, <2>3 DEF A!LoginKnown
  <2>4. CASE A!LoginCompared(r)
    BY <1>1, <2>4 DEF A!LoginCompared
  <2>5. CASE A!LoginSucceeds(r)
    BY <2>5 DEF A!LoginSucceeds, A!TypeOK
  <2>6. CASE A!Registered(r)
    BY <1>1, <2>6 DEF A!Registered
  <2>7. CASE A!Fail(r)
    BY <2>7 DEF A!Fail
  <2> QED
    BY <1>2, <2>1, <2>2, <2>3, <2>4, <2>5, <2>6, <2>7 DEF A!RequestStep
<1>3. CASE \E e \in Emails : A!Restore(e) \/ \E ip \in Ips : A!Link(e, ip)
  <2>1. ASSUME NEW e \in Emails, A!Restore(e)
        PROVE  counters'[k] \in {counters[k], A!Pruned(k), A!Recorded(k)} /\ attemptNow' = attemptNow
    BY <1>1, <2>1 DEF A!Restore
  <2>2. ASSUME NEW e \in Emails, NEW ip \in Ips, A!Link(e, ip)
        PROVE  counters'[k] \in {counters[k], A!Pruned(k), A!Recorded(k)} /\ attemptNow' = attemptNow
    BY <1>1, <2>2 DEF A!Link
  <2> QED
    BY <1>3, <2>1, <2>2
<1>4. CASE A!Cleanup
  BY <1>1, <1>4 DEF A!Cleanup
<1>5. CASE A!Restart \/ A!Tick \/ UNCHANGED A!vars
  BY <1>5 DEF A!Restart, A!Tick, A!vars
<1> QED
  BY <1>2, <1>3, <1>4, <1>5 DEF A!Next

LEMMA EntryStep ==
  ASSUME A!AttemptAssumption, AttemptsInv, [A!Next]_A!vars
  PROVE  EntryInv'
<1> SUFFICES ASSUME NEW k \in A!Keys, A!Live(k)'
             PROVE  counters'[k].count >= 1 /\ counters'[k].resetAt <= attemptNow' + MCWindow[k]
  BY DEF EntryInv
<1>0. A!TypeOK /\ (A!Live(k) => counters[k].count >= 1 /\ counters[k].resetAt <= attemptNow + MCWindow[k])
  BY DEF AttemptsInv, EntryInv
<1>1. /\ counters'[k] \in {counters[k], A!Pruned(k), A!Recorded(k), A!NoEntry}
      /\ attemptNow' = attemptNow \/ counters'[k] = counters[k]
      /\ attemptNow' \in {attemptNow, attemptNow + 1}
  BY <1>0, EntryMoves
<1>2. /\ attemptNow \in Nat /\ counters[k].count \in Nat /\ counters[k].resetAt \in Nat /\ MCWindow[k] \in Nat \ {0}
      /\ A!NoEntry.resetAt = 0
  BY <1>0, EntryFields
<1>3. counters'[k].resetAt > attemptNow'
  BY DEF A!Live
<1>4. CASE counters'[k] = counters[k]
  BY <1>0, <1>1, <1>2, <1>3, <1>4 DEF A!Live
<1>5. CASE counters'[k] # counters[k] /\ counters'[k] \in {A!Pruned(k), A!NoEntry}
  BY <1>0, <1>1, <1>2, <1>3, <1>5, EntrySteps
<1>6. CASE counters'[k] # counters[k] /\ counters'[k] = A!Recorded(k)
  BY <1>0, <1>1, <1>2, <1>3, <1>6, EntrySteps
<1> QED
  BY <1>1, <1>4, <1>5, <1>6

\* The new one, counted in a window that is its own or goes on.
LEMMA NewPass ==
  ASSUME A!AttemptAssumption, AttemptsInv, NEW box \in Mailboxes, Sends(box)
  PROVE  \E n \in Passing :
           /\ linksPassed' = linksPassed \cup {n}
           /\ n.key = box /\ n.at = attemptNow
           /\ n.until = counters'[box].resetAt /\ n.nth = counters'[box].count
           /\ n.nth \in 1..MCMaxOf[box] /\ n.until - MCWindow[box] <= attemptNow /\ attemptNow < n.until
           /\ n.nth = 1 => attemptNow = n.until - MCWindow[box]
           /\ \A p \in linksPassed : p.key = box =>
                \/ p.until = n.until /\ p.nth < n.nth
                \/ p.until + MCWindow[box] <= n.until
<1> DEFINE n == [key |-> box, at |-> attemptNow, until |-> A!Recorded(box).resetAt, nth |-> A!Recorded(box).count]
<1>0. A!TypeOK /\ box \in A!Keys /\ PassedInv /\ EntryInv /\ BehindInv
  BY AttemptNumbers DEF AttemptsInv
<1>1. /\ attemptNow \in Nat /\ counters[box].count \in Nat /\ counters[box].resetAt \in Nat
      /\ MCWindow[box] \in Nat \ {0} /\ MCMaxOf[box] \in Nat \ {0}
      /\ A!Recorded(box) \in [count : Nat, resetAt : Nat]
  BY <1>0, EntryFields, EntrySteps
<1>2. /\ linksPassed' = linksPassed \cup {n} /\ counters'[box] = A!Recorded(box)
      /\ A!Live(box) => counters[box].count < MCMaxOf[box]
  BY <1>1 DEF Sends, A!Passes, A!Limited
<1>3. n \in Passing
  BY <1>1 DEF Passing
<1>6. /\ n.key = box /\ n.at = attemptNow
      /\ n.until = A!Recorded(box).resetAt /\ n.nth = A!Recorded(box).count
  OBVIOUS
<1> HIDE DEF n
<1>4. CASE A!Live(box)
  <2>1. /\ A!Recorded(box).count = counters[box].count + 1 /\ A!Recorded(box).resetAt = counters[box].resetAt
        /\ counters[box].count >= 1 /\ counters[box].resetAt <= attemptNow + MCWindow[box]
        /\ counters[box].resetAt > attemptNow
    BY <1>0, <1>4, EntrySteps DEF EntryInv, A!Live
  <2>2. ASSUME NEW p \in linksPassed, p.key = box
        PROVE  \/ p.until = n.until /\ p.nth < n.nth
               \/ p.until + MCWindow[box] <= n.until
    <3>1. p \in Passing
      BY <1>0 DEF PassedInv
    <3> QED
      BY <1>0, <1>1, <1>4, <1>6, <2>1, <2>2, <3>1 DEF BehindInv, Passing
  <2>3. n.nth \in 1..MCMaxOf[box] /\ n.until - MCWindow[box] <= attemptNow /\ attemptNow < n.until /\ n.nth # 1
    BY <1>1, <1>2, <1>4, <1>6, <2>1
  <2> QED
    BY <1>2, <1>3, <1>6, <2>2, <2>3
<1>5. CASE ~A!Live(box)
  <2>1. A!Recorded(box).count = 1 /\ A!Recorded(box).resetAt = attemptNow + MCWindow[box]
    BY <1>0, <1>5, EntrySteps
  <2>2. ASSUME NEW p \in linksPassed, p.key = box
        PROVE  p.until + MCWindow[box] <= n.until
    <3>1. p \in Passing /\ ~(p.until > attemptNow)
      BY <1>0, <1>5, <2>2 DEF PassedInv, BehindInv
    <3> QED
      BY <1>1, <1>6, <2>1, <3>1 DEF Passing
  <2>3. n.nth \in 1..MCMaxOf[box] /\ n.until - MCWindow[box] <= attemptNow /\ attemptNow < n.until /\ attemptNow = n.until - MCWindow[box]
    BY <1>1, <1>6, <2>1
  <2> QED
    BY <1>2, <1>3, <1>6, <2>2, <2>3
<1> QED
  BY <1>4, <1>5

LEMMA PassedStep ==
  ASSUME A!AttemptAssumption, AttemptsInv, [A!Next]_A!vars
  PROVE  PassedInv'
<1>0. A!TypeOK /\ PassedInv /\ attemptNow \in Nat
  BY DEF AttemptsInv, A!TypeOK
<1>1. CASE Quiet
  BY <1>0, <1>1 DEF Quiet, PassedInv
<1>2. ASSUME NEW box \in Mailboxes, Sends(box)
      PROVE  PassedInv'
  <2>1. PICK n \in Passing :
           /\ linksPassed' = linksPassed \cup {n}
           /\ n.key = box /\ n.at = attemptNow
           /\ n.nth \in 1..MCMaxOf[box] /\ n.until - MCWindow[box] <= attemptNow /\ attemptNow < n.until
           /\ n.nth = 1 => attemptNow = n.until - MCWindow[box]
    BY <1>2, NewPass
  <2>2. attemptNow' = attemptNow
    BY <1>2 DEF Sends
  <2> QED
    BY <1>0, <2>1, <2>2 DEF PassedInv
<1>3. CASE A!Restart
  BY <1>3 DEF A!Restart, PassedInv
<1>4. CASE A!Tick
  <2>1. \A p \in linksPassed : p.at <= attemptNow => p.at <= attemptNow'
    BY <1>0, <1>4 DEF A!Tick, PassedInv, Passing
  <2> QED
    BY <1>0, <1>4, <2>1 DEF A!Tick, PassedInv
<1> QED
  BY <1>0, <1>1, <1>2, <1>3, <1>4, AttemptSteps

LEMMA BehindStep ==
  ASSUME A!AttemptAssumption, AttemptsInv, [A!Next]_A!vars
  PROVE  BehindInv'
<1>0. A!TypeOK /\ PassedInv /\ BehindInv /\ attemptNow \in Nat
  BY DEF AttemptsInv, A!TypeOK
\* What passed stays behind an entry that is left.
<1>1. ASSUME NEW p \in linksPassed, Left(p.key), attemptNow' = attemptNow
      PROVE  /\ p.until > attemptNow => A!Live(p.key)'
             /\ A!Live(p.key)' => \/ p.until = counters'[p.key].resetAt /\ p.nth <= counters'[p.key].count
                                \/ p.until + MCWindow[p.key] <= counters'[p.key].resetAt
  <2>1. p.key \in A!Keys /\ p \in Passing
    BY <1>0, AttemptNumbers DEF PassedInv, Passing
  <2>2. CASE counters'[p.key] = counters[p.key]
    BY <1>0, <1>1, <2>2 DEF BehindInv, A!Live
  <2>3. CASE counters'[p.key] = A!Pruned(p.key) /\ ~A!Live(p.key)
    <3>1. A!Pruned(p.key).resetAt = 0
      BY <1>0, <2>1, <2>3, EntrySteps
    <3>2. ~A!Live(p.key)'
      BY <1>0, <1>1, <2>3, <3>1 DEF A!Live
    <3> QED
      BY <1>0, <2>3, <3>2 DEF BehindInv
  <2> QED
    BY <1>0, <1>1, <2>1, <2>2, <2>3, EntrySteps DEF Left
<1>2. CASE Quiet
  <2>1. \A p \in linksPassed : p.key \in Mailboxes
    BY <1>0 DEF PassedInv, Passing
  <2> QED
    BY <1>1, <1>2, <2>1 DEF Quiet, BehindInv
<1>3. ASSUME NEW box \in Mailboxes, Sends(box)
      PROVE  BehindInv'
  <2>1. PICK n \in Passing :
           /\ linksPassed' = linksPassed \cup {n}
           /\ n.key = box
           /\ n.until = counters'[box].resetAt /\ n.nth = counters'[box].count
           /\ attemptNow < n.until
           /\ \A p \in linksPassed : p.key = box =>
                \/ p.until = n.until /\ p.nth < n.nth
                \/ p.until + MCWindow[box] <= n.until
    BY <1>3, NewPass
  <2>2. attemptNow' = attemptNow /\ \A k \in Mailboxes \ {box} : Left(k)
    BY <1>3 DEF Sends
  <2> SUFFICES ASSUME NEW p \in linksPassed'
               PROVE  /\ p.until > attemptNow => A!Live(p.key)'
                      /\ A!Live(p.key)' => \/ p.until = counters'[p.key].resetAt /\ p.nth <= counters'[p.key].count
                                         \/ p.until + MCWindow[p.key] <= counters'[p.key].resetAt
    BY <2>2 DEF BehindInv
  <2>3. A!Live(box)'
    BY <2>1, <2>2 DEF A!Live
  <2>4. CASE p = n
    BY <2>1, <2>3, <2>4 DEF Passing
  <2>5. CASE p \in linksPassed /\ p.key = box
    <3>1. p \in Passing
      BY <1>0, <2>5 DEF PassedInv
    <3> QED
      BY <2>1, <2>3, <2>5, <3>1 DEF Passing
  <2>6. CASE p \in linksPassed /\ p.key # box
    <3>1. p.key \in Mailboxes \ {box}
      BY <1>0, <2>6 DEF PassedInv, Passing
    <3> QED
      BY <1>1, <2>2, <2>6, <3>1
  <2> QED
    BY <2>1, <2>4, <2>5, <2>6
<1>4. CASE A!Restart
  BY <1>4 DEF A!Restart, BehindInv
<1>5. CASE A!Tick
  <2> SUFFICES ASSUME NEW p \in linksPassed
               PROVE  /\ p.until > attemptNow' => A!Live(p.key)'
                      /\ A!Live(p.key)' => \/ p.until = counters'[p.key].resetAt /\ p.nth <= counters'[p.key].count
                                         \/ p.until + MCWindow[p.key] <= counters'[p.key].resetAt
    BY <1>5 DEF BehindInv, A!Tick
  <2>1. p.key \in A!Keys /\ p.until \in Nat /\ p.nth \in Nat
    BY <1>0, AttemptNumbers DEF PassedInv, Passing
  <2>2. counters'[p.key] = counters[p.key] /\ attemptNow' = attemptNow + 1
    BY <1>5 DEF A!Tick
  <2>3. counters[p.key].resetAt \in Nat /\ MCWindow[p.key] \in Nat \ {0}
    BY <1>0, <2>1, EntryFields
  <2>4. A!Live(p.key)' => A!Live(p.key)
    BY <1>0, <2>2, <2>3 DEF A!Live
  <2>5. ASSUME p.until > attemptNow' PROVE A!Live(p.key)'
    <3>1. A!Live(p.key) /\ p.until <= counters[p.key].resetAt
      BY <1>0, <2>1, <2>2, <2>3, <2>5 DEF BehindInv
    <3> QED
      BY <1>0, <2>1, <2>2, <2>3, <2>5, <3>1 DEF A!Live
  <2> QED
    BY <1>0, <2>2, <2>4, <2>5 DEF BehindInv
<1> QED
  BY <1>0, <1>2, <1>3, <1>4, <1>5, AttemptSteps

LEMMA ApartStep ==
  ASSUME A!AttemptAssumption, AttemptsInv, [A!Next]_A!vars
  PROVE  ApartInv'
<1>0. A!TypeOK /\ PassedInv /\ ApartInv
  BY DEF AttemptsInv
<1>1. ASSUME NEW box \in Mailboxes, Sends(box)
      PROVE  ApartInv'
  <2>1. PICK n \in Passing :
           /\ linksPassed' = linksPassed \cup {n}
           /\ n.key = box
           /\ \A p \in linksPassed : p.key = box =>
                \/ p.until = n.until /\ p.nth < n.nth
                \/ p.until + MCWindow[box] <= n.until
    BY <1>1, NewPass
  <2>2. linksPassed \subseteq Passing /\ MCWindow[box] \in Nat \ {0}
    BY <1>0, AttemptNumbers DEF PassedInv
  <2>3. ASSUME NEW p \in linksPassed, p.key = box
        PROVE  /\ p.until < n.until => p.until + MCWindow[box] <= n.until
               /\ ~(n.until < p.until)
               /\ ~(p.until = n.until /\ p.nth = n.nth)
    BY <2>1, <2>2, <2>3 DEF Passing
  <2>4. ASSUME NEW p \in linksPassed', NEW q \in linksPassed', p.key = q.key
        PROVE  /\ p.until < q.until => p.until + MCWindow[p.key] <= q.until
               /\ p.until = q.until /\ p.nth = q.nth => p = q
    <3>1. CASE p \in linksPassed /\ q \in linksPassed
      BY <1>0, <2>4, <3>1 DEF ApartInv
    <3>2. CASE p \in linksPassed /\ q = n
      BY <2>1, <2>3, <2>4, <3>2
    <3>3. CASE p = n /\ q \in linksPassed
      BY <2>1, <2>3, <2>4, <3>3
    <3>4. CASE p = n /\ q = n
      BY <2>1, <3>4 DEF Passing
    <3> QED
      BY <2>1, <2>4, <3>1, <3>2, <3>3, <3>4
  <2> QED
    BY <2>4 DEF ApartInv
<1>2. CASE Quiet \/ A!Restart \/ A!Tick
  BY <1>0, <1>2 DEF Quiet, A!Restart, A!Tick, ApartInv
<1> QED
  BY <1>0, <1>1, <1>2, AttemptSteps

-----------------------------------------------------------------------------
(* Those that overlap                                                      *)

LEMMA PendingCounted ==
  ASSUME A!AttemptAssumption, NEW S \in SUBSET AttemptRequests
  PROVE  /\ IsFiniteSet(S) /\ Cardinality(S) \in Nat /\ Cardinality(S) <= Cardinality(AttemptRequests)
         /\ Cardinality(AttemptRequests) \in Nat
         /\ \A r \in AttemptRequests \ S : Cardinality(S) + 1 <= Cardinality(AttemptRequests)
<1>1. IsFiniteSet(AttemptRequests)
  BY AttemptSets DEF A!AttemptAssumption
<1>2. IsFiniteSet(S) /\ Cardinality(S) <= Cardinality(AttemptRequests)
  BY <1>1, FS_Subset
<1>3. Cardinality(S) \in Nat /\ Cardinality(AttemptRequests) \in Nat
  BY <1>1, <1>2, FS_CardinalityType
<1>4. ASSUME NEW r \in AttemptRequests \ S
      PROVE  Cardinality(S) + 1 <= Cardinality(AttemptRequests)
  <2>1. Cardinality(S \cup {r}) = Cardinality(S) + 1
    BY <1>2, FS_AddElement
  <2>2. S \cup {r} \in SUBSET AttemptRequests
    OBVIOUS
  <2>3. Cardinality(S \cup {r}) <= Cardinality(AttemptRequests)
    BY <1>1, <2>2, FS_Subset
  <2> QED
    BY <2>1, <2>3
<1> QED
  BY <1>2, <1>3, <1>4

CountWithin(k) ==
  IF k[1] = "link" THEN counters[k].count <= MCMaxOf[k]
  ELSE counters[k].count + Cardinality(Pending(k)) <= A!Highest(k) - 1 + Cardinality(AttemptRequests)

\* Nobody new holds a look at the counter, and nothing is added to it.
LEMMA KeyLeft ==
  ASSUME A!AttemptAssumption, AttemptsInv, NEW k \in A!Keys, counters'[k] \in {counters[k], A!Pruned(k), A!NoEntry},
         Pending(k)' \subseteq Pending(k)
  PROVE  CountWithin(k)'
<1>0. A!TypeOK /\ CountWithin(k)
  BY DEF AttemptsInv, PendingInv, CountWithin
<1>1. /\ counters[k].count \in Nat /\ counters'[k].count \in Nat /\ counters'[k].count <= counters[k].count
      /\ MCMaxOf[k] \in Nat /\ A!Highest(k) \in Nat
  BY <1>0, EntryFields, EntrySteps, AttemptNumbers
<1>2. Cardinality(Pending(k)') \in Nat /\ Cardinality(Pending(k)) \in Nat
      /\ Cardinality(Pending(k)') <= Cardinality(Pending(k)) /\ Cardinality(AttemptRequests) \in Nat
  <2>1. Pending(k) \in SUBSET AttemptRequests /\ Pending(k)' \in SUBSET AttemptRequests
    BY DEF Pending
  <2>2. IsFiniteSet(Pending(k))
    BY <2>1, PendingCounted
  <2>3. Cardinality(Pending(k)') <= Cardinality(Pending(k))
    BY <2>2, FS_Subset
  <2> QED
    BY <2>1, <2>3, PendingCounted
<1> QED
  BY <1>0, <1>1, <1>2 DEF CountWithin

\* One of those that held a look records it.
LEMMA KeyRecorded ==
  ASSUME A!AttemptAssumption, AttemptsInv, NEW k \in A!Keys, k[1] # "link", counters'[k] = A!Recorded(k),
         NEW r \in Pending(k), Pending(k)' \subseteq Pending(k) \ {r}
  PROVE  CountWithin(k)'
<1>0. A!TypeOK /\ CountWithin(k)
  BY DEF AttemptsInv, PendingInv, CountWithin
<1>1. /\ counters[k].count \in Nat /\ A!Highest(k) \in Nat \ {0}
      /\ counters'[k].count \in {1, counters[k].count + 1}
  BY <1>0, EntryFields, EntrySteps, AttemptNumbers
<1>2. Pending(k) \in SUBSET AttemptRequests /\ Pending(k)' \in SUBSET AttemptRequests /\ r \in AttemptRequests
  BY DEF Pending
<1>3. /\ Cardinality(Pending(k)) \in Nat /\ Cardinality(Pending(k)') \in Nat
      /\ Cardinality(AttemptRequests) \in Nat
      /\ Cardinality(Pending(k)') + 1 <= Cardinality(AttemptRequests)
  BY <1>2, PendingCounted
<1>4. Cardinality(Pending(k)') + 1 <= Cardinality(Pending(k))
  <2>1. IsFiniteSet(Pending(k))
    BY <1>2, PendingCounted
  <2>2. IsFiniteSet(Pending(k) \ {r}) /\ Cardinality(Pending(k) \ {r}) = Cardinality(Pending(k)) - 1
    BY <2>1, FS_RemoveElement
  <2>3. Cardinality(Pending(k)') <= Cardinality(Pending(k) \ {r})
    BY <2>2, FS_Subset
  <2> QED
    BY <1>3, <2>2, <2>3
<1> QED
  BY <1>0, <1>1, <1>3, <1>4 DEF CountWithin

\* One that finds the counter below a limit, whoever else holds a look.
LEMMA KeyChecked ==
  ASSUME A!AttemptAssumption, AttemptsInv, NEW k \in A!Keys, k[1] # "link",
         NEW max \in Nat \ {0}, max <= A!Highest(k), ~A!Limited(k, max), counters'[k] = A!Pruned(k)
  PROVE  CountWithin(k)'
<1>0. A!TypeOK
  BY DEF AttemptsInv
<1>1. /\ counters[k].count \in Nat /\ A!Highest(k) \in Nat \ {0}
      /\ counters'[k].count \in Nat /\ counters'[k].count <= A!Highest(k) - 1
  BY <1>0, EntryFields, EntrySteps, AttemptNumbers DEF A!Limited
<1>2. Pending(k)' \in SUBSET AttemptRequests
  BY DEF Pending
<1>3. /\ Cardinality(Pending(k)') \in Nat /\ Cardinality(AttemptRequests) \in Nat
      /\ Cardinality(Pending(k)') <= Cardinality(AttemptRequests)
  BY <1>2, PendingCounted
<1> QED
  BY <1>1, <1>3 DEF CountWithin

\* One that finds it below its limit and records at once.
LEMMA KeyCheckedRecorded ==
  ASSUME A!AttemptAssumption, AttemptsInv, NEW k \in A!Keys,
         ~A!Limited(k, MCMaxOf[k]), counters'[k] = A!Recorded(k),
         k[1] = "link" \/ \E r \in AttemptRequests : r \notin Pending(k)'
  PROVE  CountWithin(k)'
<1>0. A!TypeOK
  BY DEF AttemptsInv
<1>1. /\ counters[k].count \in Nat /\ A!Highest(k) \in Nat \ {0} /\ MCMaxOf[k] \in Nat \ {0}
      /\ MCMaxOf[k] <= A!Highest(k)
      /\ counters'[k].count \in Nat /\ counters'[k].count <= MCMaxOf[k]
  BY <1>0, EntryFields, EntrySteps, AttemptNumbers DEF A!Limited
<1>2. Pending(k)' \in SUBSET AttemptRequests
  BY DEF Pending
<1>3. /\ Cardinality(Pending(k)') \in Nat /\ Cardinality(AttemptRequests) \in Nat
      /\ \A r \in AttemptRequests \ Pending(k)' : Cardinality(Pending(k)') + 1 <= Cardinality(AttemptRequests)
  BY <1>2, PendingCounted
<1> QED
  BY <1>1, <1>3 DEF CountWithin

\* A request that goes leaves what the others hold.
LEMMA OneGoes ==
  ASSUME A!AttemptAssumption, A!TypeOK, NEW r \in AttemptRequests, A!Done(r), NEW k \in A!Keys
  PROVE  Pending(k)' \subseteq Pending(k) \ {r}
<1>1. /\ attempts' = [attempts EXCEPT ![r] = A!Idle] /\ attempts \in [AttemptRequests -> A!Request] /\ A!Idle.pc = "idle"
  BY DEF A!Done, A!TypeOK, A!Idle
<1>2. \A s \in AttemptRequests \ {r} : attempts'[s] = attempts[s]
  BY <1>1
<1>3. attempts'[r].pc = "idle"
  BY <1>1
<1> QED
  BY <1>2, <1>3 DEF Pending

\* A request that begins or moves changes what it alone holds.
LEMMA OneMoves ==
  ASSUME A!AttemptAssumption, A!TypeOK, NEW r \in AttemptRequests, NEW v, attempts' = [attempts EXCEPT ![r] = v],
         NEW k \in A!Keys
  PROVE  /\ attempts'[r] = v
         /\ Pending(k)' \ {r} = Pending(k) \ {r}
<1>1. attempts \in [AttemptRequests -> A!Request]
  BY DEF A!TypeOK
<1>2. \A s \in AttemptRequests \ {r} : attempts'[s] = attempts[s]
  BY <1>1
<1> QED
  BY <1>1, <1>2 DEF Pending

LEMMA PendingStep ==
  ASSUME A!AttemptAssumption, AttemptsInv, [A!Next]_A!vars
  PROVE  PendingInv'
<1>0. A!TypeOK /\ PendingInv /\ attempts \in [AttemptRequests -> A!Request]
  BY DEF AttemptsInv, A!TypeOK
<1> SUFFICES ASSUME NEW k \in A!Keys
             PROVE  CountWithin(k)'
  BY DEF PendingInv, CountWithin
\* A counter looked at, or left, and nobody new.
<1>1. ASSUME NEW checked, NEW recorded, A!Count(checked, recorded), k \notin recorded,
             Pending(k)' \subseteq Pending(k)
      PROVE  CountWithin(k)'
  <2>1. counters'[k] \in {counters[k], A!Pruned(k)}
    BY <1>0, <1>1, EntriesCounted
  <2>2. Pending(k)' \subseteq Pending(k) /\ counters'[k] \in {counters[k], A!Pruned(k), A!NoEntry}
    BY <1>1, <2>1
  <2> QED
    BY <2>2, KeyLeft
<1>2. UNCHANGED attempts => Pending(k)' \subseteq Pending(k)
  BY DEF Pending
\* The links record what they looked at, and hold nothing.
<1>3. ASSUME NEW checked, NEW recorded, A!Count(checked, recorded), UNCHANGED attempts,
             \A j \in recorded : j[1] = "link" /\ ~A!Limited(j, MCMaxOf[j])
      PROVE  CountWithin(k)'
  <2>1. CASE k \in recorded
    <3>1. counters'[k] = A!Recorded(k)
      BY <1>0, <1>3, <2>1, EntriesCounted
    <3> QED
      BY <1>3, <2>1, <3>1, KeyCheckedRecorded
  <2>2. CASE k \notin recorded
    BY <1>1, <1>2, <1>3, <2>2
  <2> QED
    BY <2>1, <2>2
<1>4. ASSUME NEW r \in AttemptRequests, A!RequestStep(r)
      PROVE  CountWithin(k)'
  <2>0. A!Done(r) => Pending(k)' \subseteq Pending(k) \ {r}
    BY <1>0, OneGoes
  <2>1. ASSUME NEW e \in Emails, NEW ip \in Ips, A!Login(r, e, ip)
        PROVE  CountWithin(k)'
    <3> DEFINE a == <<"login", e>>
    <3>1. A!Count({a}, {}) /\ attempts[r] = A!Idle
      BY <2>1 DEF A!Login
    <3>2. CASE A!Limited(a, MCMaxOf[a])
      <4>1. UNCHANGED attempts
        BY <2>1, <3>2 DEF A!Login
      <4> QED
        BY <1>1, <1>2, <3>1, <4>1
    <3>3. CASE ~A!Limited(a, MCMaxOf[a])
      <4>1. attempts' = [attempts EXCEPT ![r] = [pc |-> "find", email |-> e, ip |-> ip]]
        BY <2>1, <3>3 DEF A!Login
      <4>2. CASE k = a
        <5>1. counters'[k] = A!Pruned(k) /\ k[1] # "link" /\ MCMaxOf[k] \in Nat \ {0} /\ MCMaxOf[k] <= A!Highest(k)
          BY <1>0, <3>1, <4>2, EntriesCounted, AttemptNumbers
        <5> QED
          BY <3>3, <4>2, <5>1, KeyChecked
      <4>3. CASE k # a
        <5>1. /\ attempts'[r] = [pc |-> "find", email |-> e, ip |-> ip]
              /\ Pending(k)' \ {r} = Pending(k) \ {r}
          BY <1>0, <4>1, OneMoves
        <5>2. attempts'[r].pc = "find" /\ attempts'[r].email = e
          BY <5>1
        <5>3. r \notin Pending(k)'
          BY <4>3, <5>2 DEF Pending
        <5> QED
          BY <1>1, <3>1, <5>1, <5>3
      <4> QED
        BY <4>2, <4>3
    <3> QED
      BY <3>2, <3>3
  <2>2. ASSUME NEW e \in Emails, NEW ip \in Ips, A!Register(r, e, ip)
        PROVE  CountWithin(k)'
    <3> DEFINE box == <<"register", e>>
               from == <<"register", ip>>
    <3>1. CASE UNCHANGED attempts
      <4>1. \E checked : A!Count(checked, {})
        BY <2>2 DEF A!Register
      <4> QED
        BY <1>1, <1>2, <3>1, <4>1
    <3>2. CASE /\ A!Count({from, box}, {}) /\ ~A!Limited(from, MCMaxOf[from]) /\ ~A!Limited(box, MCMaxOf[box])
               /\ attempts' = [attempts EXCEPT ![r] = [pc |-> "register", email |-> e, ip |-> ip]]
      <4>1. CASE k \in {box, from}
        <5>1. counters'[k] = A!Pruned(k) /\ k[1] # "link" /\ MCMaxOf[k] \in Nat \ {0} /\ MCMaxOf[k] <= A!Highest(k)
          BY <1>0, <3>2, <4>1, EntriesCounted, AttemptNumbers
        <5> QED
          BY <3>2, <4>1, <5>1, KeyChecked
      <4>2. CASE k \notin {box, from}
        <5>1. /\ attempts'[r] = [pc |-> "register", email |-> e, ip |-> ip]
              /\ Pending(k)' \ {r} = Pending(k) \ {r}
          BY <1>0, <3>2, OneMoves
        <5>2. attempts'[r].pc = "register" /\ attempts'[r].email = e /\ attempts'[r].ip = ip
          BY <5>1
        <5>3. r \notin Pending(k)'
          BY <4>2, <5>2 DEF Pending
        <5> QED
          BY <1>1, <3>2, <5>1, <5>3
      <4> QED
        BY <4>1, <4>2
    <3> QED
      BY <2>2, <3>1, <3>2 DEF A!Register
  <2>3. CASE A!LoginUnknown(r)
    <3>1. A!Done(r) /\ attempts[r].pc = "find"
      BY <2>3 DEF A!LoginUnknown
    <3>2. CASE A!Limited(A!From(r), MCMaxOf[A!From(r)])
      <4>1. A!Count({A!From(r)}, {})
        BY <2>3, <3>2 DEF A!LoginUnknown
      <4> QED
        BY <1>1, <2>0, <3>1, <4>1
    <3>3. CASE ~A!Limited(A!From(r), MCMaxOf[A!From(r)])
      <4>1. A!Count({}, {A!Account(r), A!From(r)})
        BY <2>3, <3>3 DEF A!LoginUnknown
      <4>2. CASE k = A!From(r)
        <5>1. counters'[k] = A!Recorded(k)
          BY <1>0, <4>1, <4>2, EntriesCounted
        <5> QED
          BY <2>0, <3>1, <3>3, <4>2, <5>1, KeyCheckedRecorded
      <4>3. CASE k = A!Account(r)
        <5>1. counters'[k] = A!Recorded(k) /\ k[1] # "link"
          BY <1>0, <4>1, <4>3, EntriesCounted DEF A!Account
        <5>2. r \in Pending(k)
          BY <3>1, <4>3 DEF Pending, A!Account
        <5> QED
          BY <2>0, <3>1, <5>1, <5>2, KeyRecorded
      <4>4. CASE k \notin {A!Account(r), A!From(r)}
        BY <1>1, <2>0, <3>1, <4>1, <4>4
      <4> QED
        BY <4>2, <4>3, <4>4
    <3> QED
      BY <3>2, <3>3
  <2>4. CASE A!LoginKnown(r)
    <3>1. attempts[r].pc = "find" /\ A!Count({A!From(r)}, {})
      BY <2>4 DEF A!LoginKnown
    <3>2. CASE A!Done(r)
      BY <1>1, <2>0, <3>1, <3>2
    <3>3. CASE /\ A!Goto(r, "compare")
               /\ \E max \in {MCMaxOf[A!From(r)], MaxIpAdmin} : ~A!Limited(A!From(r), max)
      <4>1. PICK max \in {MCMaxOf[A!From(r)], MaxIpAdmin} : ~A!Limited(A!From(r), max)
        BY <3>3
      <4>2. CASE k = A!From(r)
        <5>1. counters'[k] = A!Pruned(k) /\ k[1] # "link"
          BY <1>0, <3>1, <4>2, EntriesCounted DEF A!From
        <5>2. attempts[r] \in A!Request /\ attempts[r].pc # "idle" /\ A!Idle.pc = "idle"
          BY <1>0, <3>1 DEF A!Idle
        <5>3. attempts[r].ip \in Ips
          BY <5>2 DEF A!Request
        <5>4. max \in Nat \ {0} /\ max <= A!Highest(k)
          BY <4>1, <4>2, <5>3, AttemptNumbers DEF A!From
        <5> QED
          BY <4>1, <4>2, <5>1, <5>4, KeyChecked
      <4>3. CASE k # A!From(r)
        <5> DEFINE v == [attempts[r] EXCEPT !.pc = "compare"]
        <5>1. attempts' = [attempts EXCEPT ![r] = v]
          BY <3>3 DEF A!Goto
        <5>2. attempts'[r] = v /\ Pending(k)' \ {r} = Pending(k) \ {r}
          BY <1>0, <5>1, OneMoves
        <5>3. attempts[r] \in A!Request /\ attempts[r].pc # "idle" /\ A!Idle.pc = "idle"
          BY <1>0, <3>1 DEF A!Idle
        <5>4. attempts[r] \in [pc : {"find", "compare", "session", "register"}, email : Emails, ip : Ips]
          BY <5>3 DEF A!Request
        <5>5. attempts'[r].pc = "compare" /\ attempts'[r].email = attempts[r].email /\ attempts'[r].ip = attempts[r].ip
          BY <5>2, <5>4
        <5>6. r \in Pending(k)' => r \in Pending(k)
          BY <3>1, <4>3, <5>5 DEF Pending, A!From
        <5> QED
          BY <1>1, <3>1, <5>2, <5>6
      <4> QED
        BY <4>2, <4>3
    <3> QED
      BY <2>4, <3>2, <3>3 DEF A!LoginKnown
  <2>5. CASE A!LoginCompared(r)
    <3>0. attempts[r].pc = "compare"
      BY <2>5 DEF A!LoginCompared
    <3>1. CASE A!Count({}, {A!Account(r), A!From(r)}) /\ A!Done(r)
      <4>1. CASE k \in {A!Account(r), A!From(r)}
        <5>1. counters'[k] = A!Recorded(k) /\ k[1] # "link"
          BY <1>0, <3>1, <4>1, EntriesCounted DEF A!Account, A!From
        <5>2. r \in Pending(k)
          BY <3>0, <4>1 DEF Pending, A!Account, A!From
        <5> QED
          BY <2>0, <3>1, <5>1, <5>2, KeyRecorded
      <4>2. CASE k \notin {A!Account(r), A!From(r)}
        BY <1>1, <2>0, <3>1, <4>2
      <4> QED
        BY <4>1, <4>2
    <3>2. CASE A!Goto(r, "session") /\ UNCHANGED counters
      <4> DEFINE v == [attempts[r] EXCEPT !.pc = "session"]
      <4>1. attempts' = [attempts EXCEPT ![r] = v]
        BY <3>2 DEF A!Goto
      <4>2. attempts'[r] = v /\ Pending(k)' \ {r} = Pending(k) \ {r}
        BY <1>0, <4>1, OneMoves
      <4>3. attempts[r] \in A!Request /\ attempts[r].pc # "idle" /\ A!Idle.pc = "idle"
        BY <1>0, <3>0 DEF A!Idle
      <4>4. attempts[r] \in [pc : {"find", "compare", "session", "register"}, email : Emails, ip : Ips]
        BY <4>3 DEF A!Request
      <4>5. attempts'[r].pc = "session"
        BY <4>2, <4>4
      <4>6. r \notin Pending(k)'
        BY <4>5 DEF Pending
      <4> QED
        BY <3>2, <4>2, <4>6, KeyLeft
    <3> QED
      BY <2>5, <3>1, <3>2 DEF A!LoginCompared
  <2>6. CASE A!LoginSucceeds(r)
    <3>1. counters'[k] \in {counters[k], A!NoEntry} /\ A!Done(r)
      BY <1>0, <2>6 DEF A!LoginSucceeds, A!TypeOK
    <3> QED
      BY <2>0, <3>1, KeyLeft
  <2>7. CASE A!Registered(r)
    <3> DEFINE held == {<<"register", attempts[r].email>>, <<"register", attempts[r].ip>>}
    <3>1. attempts[r].pc = "register" /\ A!Count({}, held) /\ A!Done(r)
      BY <2>7 DEF A!Registered
    <3>2. CASE k \in held
      <4>1. counters'[k] = A!Recorded(k) /\ k[1] # "link"
        BY <1>0, <3>1, <3>2, EntriesCounted
      <4>2. r \in Pending(k)
        BY <3>1, <3>2 DEF Pending
      <4> QED
        BY <2>0, <3>1, <4>1, <4>2, KeyRecorded
    <3>3. CASE k \notin held
      BY <1>1, <2>0, <3>1, <3>3
    <3> QED
      BY <3>2, <3>3
  <2>8. CASE A!Fail(r)
    BY <2>0, <2>8, KeyLeft DEF A!Fail
  <2> QED
    BY <1>4, <2>1, <2>2, <2>3, <2>4, <2>5, <2>6, <2>7, <2>8 DEF A!RequestStep
<1>5. ASSUME NEW e \in Emails, NEW ip \in Ips, A!Link(e, ip)
      PROVE  CountWithin(k)'
  <2> DEFINE box == <<"link", e>>
             from == <<"link", ip>>
  <2>1. UNCHANGED attempts /\ box[1] = "link" /\ from[1] = "link"
    BY <1>5 DEF A!Link
  <2>2. CASE A!Count({from}, {})
    BY <1>3, <2>1, <2>2
  <2>3. CASE ~A!Limited(from, MCMaxOf[from]) /\ A!Count({box}, {from})
    BY <1>3, <2>1, <2>3
  <2>4. CASE ~A!Limited(from, MCMaxOf[from]) /\ ~A!Limited(box, MCMaxOf[box]) /\ A!Count({}, {from, box})
    BY <1>3, <2>1, <2>4
  <2> QED
    BY <1>5, <2>2, <2>3, <2>4 DEF A!Link
<1>6. ASSUME NEW e \in Emails, A!Restore(e)
      PROVE  CountWithin(k)'
  <2> DEFINE box == <<"link", e>>
  <2>1. UNCHANGED attempts /\ box[1] = "link"
    BY <1>6 DEF A!Restore
  <2>2. CASE A!Count({box}, {})
    BY <1>3, <2>1, <2>2
  <2>3. CASE ~A!Limited(box, MCMaxOf[box]) /\ A!Count({}, {box})
    BY <1>3, <2>1, <2>3
  <2> QED
    BY <1>6, <2>2, <2>3 DEF A!Restore
<1>7. CASE A!Cleanup
  BY <1>1, <1>2, <1>7 DEF A!Cleanup
<1>8. CASE A!Restart
  <2>1. counters'[k] = A!NoEntry /\ \A r \in AttemptRequests : attempts'[r] = A!Idle
    BY <1>8 DEF A!Restart
  <2>2. Pending(k)' = {}
    <3>1. A!Idle.pc = "idle"
      BY DEF A!Idle
    <3>2. \A r \in AttemptRequests : attempts'[r].pc = "idle"
      BY <2>1, <3>1
    <3> QED
      BY <3>2 DEF Pending
  <2> QED
    BY <2>1, <2>2, KeyLeft
<1>9. CASE A!Tick \/ UNCHANGED A!vars
  <2>1. UNCHANGED <<counters, attempts>>
    BY <1>9 DEF A!Tick, A!vars
  <2> QED
    BY <1>2, <2>1, KeyLeft
<1> QED
  BY <1>4, <1>5, <1>6, <1>7, <1>8, <1>9 DEF A!Next

-----------------------------------------------------------------------------
LEMMA AttemptsInductive ==
  ASSUME A!AttemptAssumption
  PROVE  AttemptsInv /\ [A!Next]_A!vars => AttemptsInv'
<1>1. AttemptsInv /\ [A!Next]_A!vars => A!TypeOK'
  BY TypeStep
<1>2. AttemptsInv /\ [A!Next]_A!vars => EntryInv'
  BY EntryStep
<1>3. AttemptsInv /\ [A!Next]_A!vars => PassedInv' /\ BehindInv' /\ ApartInv'
  BY PassedStep, BehindStep, ApartStep
<1>4. AttemptsInv /\ [A!Next]_A!vars => PendingInv'
  BY PendingStep
<1> QED
  BY <1>1, <1>2, <1>3, <1>4 DEF AttemptsInv

\* Two windows at most reach into a stretch as long as one, and the earlier
\* one began before it: what it counted first is not in the stretch.
LEMMA TwoWindows ==
  ASSUME A!AttemptAssumption, AttemptsInv, NEW k \in A!Keys, NEW t \in Nat
  PROVE  Cardinality({p \in linksPassed : p.key = k /\ p.at \in t..(t + MCWindow[k] - 1)}) < 2 * MCMaxOf[k]
<1> DEFINE S == {p \in linksPassed : p.key = k /\ p.at \in t..(t + MCWindow[k] - 1)}
           W == MCWindow[k]
           M == MCMaxOf[k]
<1>1. W \in Nat \ {0} /\ M \in Nat \ {0} /\ 2 * M \in Nat /\ 2 * M - 1 \in Nat /\ M < 2 * M
  BY AttemptNumbers
<1>2. \A p \in S : /\ p \in linksPassed /\ p.key = k
                   /\ p.at \in Nat /\ p.until \in Nat /\ p.nth \in 1..M
                   /\ t <= p.at /\ p.at <= t + W - 1
                   /\ p.until - W <= p.at /\ p.at < p.until
                   /\ p.nth = 1 => p.at = p.until - W
  BY <1>1 DEF AttemptsInv, PassedInv, Passing
<1>3. \A p, q \in S : /\ p.until < q.until => p.until + W <= q.until
                      /\ p.until = q.until /\ p.nth = q.nth => p = q
  BY <1>2 DEF AttemptsInv, ApartInv
<1> HIDE DEF S, W, M
<1>4. CASE \A p, q \in S : p.until = q.until
  <2> DEFINE f == [p \in S |-> p.nth]
  <2>1. f \in [S -> 1..M]
    BY <1>2
  <2>2. \A p, q \in S : f[p] = f[q] => p = q
    BY <1>3, <1>4
  <2>3. f \in Injection(S, 1..M)
    BY <2>1, <2>2, Fun_IsInj
  <2>4. IsFiniteSet(1..M) /\ Cardinality(1..M) = M
    BY <1>1, FS_Interval
  <2>5. Cardinality(S) <= M /\ Cardinality(S) \in Nat
    BY <2>3, <2>4, FS_Injection, FS_CardinalityType
  <2> QED
    BY <1>1, <2>5 DEF S, W, M
<1>5. CASE \E p, q \in S : p.until < q.until
  <2>1. PICK p, q \in S : p.until < q.until
    BY <1>5
  <2> DEFINE u == p.until
             v == q.until
             f == [x \in S |-> IF x.until = u THEN x.nth - 1 ELSE M - 1 + x.nth]
  <2>2. u \in Nat /\ v \in Nat /\ u + W <= v /\ u - W < t
    BY <1>1, <1>2, <1>3, <2>1
  <2>3. ASSUME NEW x \in S
        PROVE  x.until \in {u, v} /\ (x.until = u => x.nth # 1)
    <3>1. /\ x.until \in Nat /\ t < x.until /\ x.until < t + W + W /\ t \in Nat
          /\ t < u /\ v < t + W + W
      BY <1>1, <1>2, <2>1
    <3>2. /\ x.until < u => x.until + W <= u
          /\ u < x.until => u + W <= x.until
          /\ x.until < v => x.until + W <= v
          /\ v < x.until => v + W <= x.until
      BY <1>3, <2>1
    <3>3. x.until \in {u, v}
      BY <1>1, <2>2, <3>1, <3>2
    <3>4. x.until = u => x.nth # 1
      BY <1>1, <1>2, <2>2
    <3> QED
      BY <3>3, <3>4
  <2>4. f \in [S -> 1..(2 * M - 1)]
    <3>1. \A x \in S : (IF x.until = u THEN x.nth - 1 ELSE M - 1 + x.nth) \in 1..(2 * M - 1)
      BY <1>1, <1>2, <2>3
    <3> QED
      BY <3>1
  <2>5. \A x, y \in S : f[x] = f[y] => x = y
    <3> SUFFICES ASSUME NEW x \in S, NEW y \in S, f[x] = f[y]
                 PROVE  x = y
      OBVIOUS
    <3>1. x.nth \in 1..M /\ y.nth \in 1..M
      BY <1>2
    <3>2. x.until \in {u, v} /\ y.until \in {u, v}
      BY <2>3
    <3>3. x.until = y.until /\ x.nth = y.nth
      BY <1>1, <2>1, <3>1, <3>2
    <3> QED
      BY <1>3, <3>3
  <2>6. f \in Injection(S, 1..(2 * M - 1))
    BY <2>4, <2>5, Fun_IsInj
  <2>7. IsFiniteSet(1..(2 * M - 1)) /\ Cardinality(1..(2 * M - 1)) = 2 * M - 1
    BY <1>1, FS_Interval
  <2>8. Cardinality(S) <= 2 * M - 1 /\ Cardinality(S) \in Nat
    BY <2>6, <2>7, FS_Injection, FS_CardinalityType
  <2> QED
    BY <1>1, <2>8 DEF S, W, M
<1> QED
  <2>1. \A p, q \in S : p.until = q.until \/ p.until < q.until \/ q.until < p.until
    BY <1>2
  <2> QED
    BY <1>4, <1>5, <2>1

LEMMA AttemptsSafe ==
  ASSUME A!AttemptAssumption, AttemptsInv
  PROVE  A!TypeOK /\ A!BelowTwice /\ A!OvershootBounded
<1>1. A!BelowTwice
  BY AttemptSets, TwoWindows DEF A!BelowTwice
<1>2. A!OvershootBounded
  <2> SUFFICES ASSUME NEW k \in A!Keys
               PROVE  counters[k].count <= IF k[1] = "link" THEN MCMaxOf[k]
                                        ELSE A!Highest(k) + Cardinality(AttemptRequests) - 1
    BY AttemptSets DEF A!OvershootBounded
  <2>1. CountWithin(k) /\ A!TypeOK
    BY DEF AttemptsInv, PendingInv, CountWithin
  <2>2. Pending(k) \in SUBSET AttemptRequests
    BY DEF Pending
  <2>3. Cardinality(Pending(k)) \in Nat /\ Cardinality(AttemptRequests) \in Nat
    BY <2>2, PendingCounted
  <2>4. counters[k].count \in Nat /\ A!Highest(k) \in Nat
    BY <2>1, EntryFields, AttemptNumbers
  <2> QED
    BY <2>1, <2>3, <2>4 DEF CountWithin
<1> QED
  BY <1>1, <1>2 DEF AttemptsInv

-----------------------------------------------------------------------------
(* The two in the run of the pages                                         *)

LEMMA LimitsStep ==
  [NextMC]_<<vars, limitVars, attemptVars, feedVars, commentVars, pillVars, drawVars,
             panelVars, busVars, part>> => [L!Next]_L!vars
  BY DEF NextMC, limitVars, L!vars

LEMMA AttemptsStep ==
  [NextMC]_<<vars, limitVars, attemptVars, feedVars, commentVars, pillVars, drawVars,
             panelVars, busVars, part>> => [A!Next]_A!vars
  BY DEF NextMC, attemptVars, A!vars

LEMMA LimitsInRun == SpecMC => []LimitsInv
<1>1. InitMC => LimitsInv
  BY PagesAssumption, LimitsInit DEF InitMC
<1>2. LimitsInv /\ [L!Next]_L!vars => LimitsInv'
  BY PagesAssumption, LimitsInductive
<1> QED
  BY <1>1, <1>2, LimitsStep, PTL DEF SpecMC

LEMMA AttemptsInRun == SpecMC => []AttemptsInv
<1>1. InitMC => AttemptsInv
  BY PagesAssumption, AttemptsInit DEF InitMC
<1>2. AttemptsInv /\ [A!Next]_A!vars => AttemptsInv'
  BY PagesAssumption, AttemptsInductive
<1> QED
  BY <1>1, <1>2, AttemptsStep, PTL DEF SpecMC

\* Redis never lets more likes through in a window than the limit, nor posts on
\* a day past the instant of midnight; a mailbox never gets twice its limit of
\* links in a window, and guesses pass theirs only by overlapping.
THEOREM LimitsAlwaysSound == SpecMC => []LimitsSound
<1>1. LimitsInv => L!TypeOK /\ L!SlidingWindow /\ L!DailyCapAfterMidnight
  BY PagesAssumption, SlidesWithin, DaysWithin DEF LimitsInv, TypeInv
<1>2. AttemptsInv => A!TypeOK /\ A!BelowTwice /\ A!OvershootBounded
  BY PagesAssumption, AttemptsSafe
<1>3. LimitsInv /\ AttemptsInv => LimitsSound
  BY <1>1, <1>2 DEF LimitsSound
<1> QED
  BY <1>3, LimitsInRun, AttemptsInRun, PTL
=============================================================================
