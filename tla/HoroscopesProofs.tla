--------------------------- MODULE HoroscopesProofs ---------------------------
(***************************************************************************)
(* The horoscopes beyond the small instance of the run: the readings of    *)
(* every civil date, where the walk of Signs covers sixty years; the queue *)
(* of HoroscopeJobs for any rows, slots, crons and attempts; and the ticks *)
(* of HoroscopeTicks for any users, systems and hours.                     *)
(***************************************************************************)
EXTENDS HoroscopesMC, WellFoundedInduction, SequenceTheorems, TLAPS

-----------------------------------------------------------------------------
(* The calendar                                                            *)

\* The days of the calendar from the year 1 on.
Civil(d) ==
    /\ d \in [year : Nat \ {0}, month : 1..12, day : 1..31]
    /\ d.day <= MonthLength(d.year, d.month)

\* The kin read as a tone and a seal, for every number of days: 159 is 19
\* modulo 20 and 3 modulo 13, and both divide 260.
LEMMA KinSplits ==
    ASSUME NEW n \in Int
    PROVE  LET kin == ((n + 159) % 260) + 1
           IN  /\ kin \in 1..260
               /\ (kin - 1) % 20 = (n + 19) % 20
               /\ ((kin - 1) % 13) + 1 = ((n + 3) % 13) + 1
  BY SMTT(60)

\* One more day is the next kin of the round.
LEMMA KinGoesOn ==
    ASSUME NEW n \in Int
    PROVE  ((n + 1 + 159) % 260) + 1 = ((((n + 159) % 260) + 1) % 260) + 1
  BY SMTT(60)

\* The Julian day number of a date is an integer.
LEMMA JdnInt ==
    ASSUME NEW d, Civil(d)
    PROVE  gregorianToJdn(d) \in Int
  BY SMT DEF Civil, gregorianToJdn

\* The calendar goes from date to date.
LEMMA AfterCivil ==
    ASSUME NEW d, Civil(d)
    PROVE  Civil(After(d))
  BY SMT DEF Civil, After, Day, MonthLength, Leap

\* What the leap days of a year add to the count.
LEMMA LeapDays ==
    ASSUME NEW y \in Nat \ {0}
    PROVE  LET Days(z) == (z \div 4) - (z \div 100) + (z \div 400)
           IN  Days(y + 4800) - Days(y + 4800 - 1) = IF Leap(y) THEN 1 ELSE 0
  BY SMTT(60) DEF Leap

\* The Julian day number goes on by one from a day to the next, across months,
\* leap years and centuries.
THEOREM JdnGoesOn ==
    ASSUME NEW d, Civil(d)
    PROVE  gregorianToJdn(After(d)) = gregorianToJdn(d) + 1
<1> DEFINE y == d.year
           m == d.month
<1>0. /\ y \in Nat \ {0} /\ m \in 1..12 /\ d.day \in 1..31
      /\ d.day <= MonthLength(y, m)
  BY DEF Civil
<1>1. CASE d.day < MonthLength(y, m)
  <2>1. After(d) = Day(y, m, d.day + 1)
    BY <1>1 DEF After
  <2> QED
    BY <1>0, <2>1, SMT DEF Day, gregorianToJdn
<1>2. CASE d.day = MonthLength(y, m) /\ m = 12
  <2>1. After(d) = Day(y + 1, 1, 1) /\ d.day = 31
    BY <1>0, <1>2, SMT DEF After, MonthLength
  <2> QED
    BY <1>0, <1>2, <2>1, SMT DEF Day, gregorianToJdn
<1>3. CASE d.day = MonthLength(y, m) /\ m < 12 /\ m # 2
  <2>1. After(d) = Day(y, m + 1, 1)
    BY <1>0, <1>3, SMT DEF After
  <2>2. d.day = IF m \in {4, 6, 9, 11} THEN 30 ELSE 31
    BY <1>3 DEF MonthLength
  <2> QED
    BY <1>0, <1>3, <2>1, <2>2, SMTT(60) DEF Day, gregorianToJdn
<1>4. CASE d.day = MonthLength(y, m) /\ m = 2
  <2>1. After(d) = Day(y, 3, 1)
    BY <1>0, <1>4, SMT DEF After
  <2>2. d.day = 28 + (IF Leap(y) THEN 1 ELSE 0)
    BY <1>4, SMT DEF MonthLength, Leap
  <2> QED
    BY <1>0, <1>4, <2>1, <2>2, LeapDays, SMTT(60) DEF Day, gregorianToJdn
<1>5. MonthLength(y, m) \in Nat
  BY DEF MonthLength
<1> HIDE DEF y, m
<1>6. \/ d.day < MonthLength(y, m)
      \/ d.day = MonthLength(y, m) /\ (m = 12 \/ (m < 12 /\ m # 2) \/ m = 2)
  BY <1>0, <1>5, SMT
<1> QED
  BY <1>1, <1>2, <1>3, <1>4, <1>6

-----------------------------------------------------------------------------
\* The walk stays in the calendar.
LEMMA WalkCivil ==
    ASSUME Years \subseteq Nat \ {0}
    PROVE  Spec => []Civil(date)
<1>1. Init => Civil(date)
  BY SMT DEF Init, Civil, Day, MonthLength
<1>2. Civil(date) /\ [Next]_date => Civil(date)'
  <2> SUFFICES ASSUME Civil(date), [Next]_date PROVE Civil(date')
    BY DEF Civil
  <2> QED
    BY AfterCivil DEF Next, NextDay
<1> QED
  BY <1>1, <1>2, PTL DEF Spec

\* Every date's kin carries the tone and the seal the date itself has
\* (maya.ts:345-347 and :357-368).
LEMMA KinOfDay ==
    ASSUME Civil(date)
    PROVE  KinIsWhole
<1>1. gregorianToJdn(date) - GMT_CORRELATION_JDN \in Int
  BY JdnInt DEF GMT_CORRELATION_JDN
<1> QED
  BY <1>1, KinSplits DEF KinIsWhole, gregorianToMayanLongCount, kinToSealTone

\* The kin goes on with the Julian day.
LEMMA KinOfNextDay ==
    ASSUME Civil(date), NextDay
    PROVE  KinDayAfter
<1> DEFINE n == gregorianToJdn(date) - GMT_CORRELATION_JDN
<1>1. gregorianToJdn(date') = gregorianToJdn(date) + 1
  BY JdnGoesOn DEF NextDay
<1>2. n \in Int /\ gregorianToJdn(date) \in Int
  BY JdnInt DEF GMT_CORRELATION_JDN
<1>3. gregorianToJdn(date') - GMT_CORRELATION_JDN = n + 1
  BY <1>1, <1>2 DEF GMT_CORRELATION_JDN
<1>4. calculateKinMaya(date) = ((n + 159) % 260) + 1
  BY DEF calculateKinMaya, gregorianToMayanLongCount
<1>5. calculateKinMaya(date') = ((n + 1 + 159) % 260) + 1
  BY <1>3 DEF calculateKinMaya, gregorianToMayanLongCount
<1> QED
  BY <1>1, <1>2, <1>4, <1>5, KinGoesOn DEF KinDayAfter

-----------------------------------------------------------------------------
(* The readings of one day.                                                *)

\* The wave of a kin, for every kin of the round.
InWave(kin, start) ==
    /\ start \in 1..248 /\ kin \in start..(start + 12)
    /\ (start - 1) % 20 \in 0..19
    /\ \A p \in 2..12 : /\ start + p - 1 \in 1..260
                        /\ ((start + p - 1 - 1) % 13) + 1 = p

LEMMA WaveOfKin ==
    ASSUME NEW kin \in 1..260
    PROVE  InWave(kin, ((kin - 1) \div 13) * 13 + 1)
<1>0. PICK start \in Int : start = ((kin - 1) \div 13) * 13 + 1
  BY SMT
<1>1. PICK q \in 0..19 : start = q * 13 + 1 /\ 13 * q <= kin - 1 /\ kin - 1 <= 13 * q + 12
  BY <1>0, SMTT(60)
<1>2. ASSUME NEW p \in 2..12
      PROVE  start + p - 1 \in 1..260 /\ ((start + p - 1 - 1) % 13) + 1 = p
  BY <1>1, SMTT(60)
<1>3. start \in 1..248 /\ kin \in start..(start + 12) /\ (start - 1) % 20 \in 0..19
  BY <1>1, SMTT(60)
<1>4. InWave(kin, start)
  BY <1>2, <1>3 DEF InWave
<1> QED
  BY <1>0, <1>4

\* The tone of a kin.
LEMMA ToneOfKin ==
    \A k : kinToSealTone(k).toneId = ((k - 1) % 13) + 1
  BY DEF kinToSealTone

\* The wave of the day: its kin and its nine chambers.
LEMMA WaveOfDay ==
    ASSUME Civil(date)
    PROVE  WaveHoldsItsKin
<1> DEFINE kin == calculateKinMaya(date)
           start == ((kin - 1) \div 13) * 13 + 1
           wave == getMayanOndaEncantada(kin)
<1>1. kin \in 1..260
  <2>1. gregorianToJdn(date) - GMT_CORRELATION_JDN \in Int
    BY JdnInt DEF GMT_CORRELATION_JDN
  <2> QED
    BY <2>1, KinSplits DEF calculateKinMaya, gregorianToMayanLongCount
<1> HIDE DEF kin
<1>2. /\ start \in 1..248 /\ kin \in start..(start + 12)
      /\ (start - 1) % 20 \in 0..19
      /\ \A p \in 2..12 : /\ start + p - 1 \in 1..260
                          /\ ((start + p - 1 - 1) % 13) + 1 = p
  <2>1. InWave(kin, start)
    BY <1>1, WaveOfKin
  <2> HIDE DEF start
  <2> QED
    BY <2>1 DEF InWave
<1> DEFINE C(i) == [position  |-> CAMARA_POSITIONS[i],
                    kinNumber |-> start + CAMARA_POSITIONS[i] - 1,
                    is        |-> kinToSealTone(start + CAMARA_POSITIONS[i] - 1)]
<1>3. wave = [waveStartKin |-> start, waveSeal |-> (start - 1) % 20,
              chambers |-> [i \in DOMAIN CAMARA_POSITIONS |-> C(i)]]
  BY DEF getMayanOndaEncantada
<1>4. /\ wave.waveStartKin = start /\ wave.waveSeal = (start - 1) % 20
      /\ DOMAIN wave.chambers = DOMAIN CAMARA_POSITIONS
      /\ \A i \in DOMAIN CAMARA_POSITIONS :
           /\ wave.chambers[i].position = CAMARA_POSITIONS[i]
           /\ wave.chambers[i].kinNumber = start + CAMARA_POSITIONS[i] - 1
           /\ wave.chambers[i].is = kinToSealTone(start + CAMARA_POSITIONS[i] - 1)
  <2>1. \A i : /\ C(i).position = CAMARA_POSITIONS[i]
               /\ C(i).kinNumber = start + CAMARA_POSITIONS[i] - 1
               /\ C(i).is = kinToSealTone(start + CAMARA_POSITIONS[i] - 1)
    OBVIOUS
  <2> HIDE DEF C, wave, start
  <2> QED
    BY <1>3, <2>1
<1>5. \A i \in DOMAIN CAMARA_POSITIONS : CAMARA_POSITIONS[i] \in 2..12
  BY DEF CAMARA_POSITIONS
<1> HIDE DEF wave, start
<1>6. wave.waveSeal \in DOMAIN MAYAN_SEALS
  BY <1>2, <1>4 DEF MAYAN_SEALS
<1>7. \A i \in DOMAIN wave.chambers :
              /\ wave.chambers[i].kinNumber \in 1..260
              /\ wave.chambers[i].is.toneId = wave.chambers[i].position
              /\ wave.chambers[i].is.toneId \in MAYAN_TONES
  <2> SUFFICES ASSUME NEW i \in DOMAIN CAMARA_POSITIONS
               PROVE  /\ wave.chambers[i].kinNumber \in 1..260
                      /\ wave.chambers[i].is.toneId = wave.chambers[i].position
                      /\ wave.chambers[i].is.toneId \in MAYAN_TONES
    BY <1>4
  <2>1. PICK p \in 2..12 : p = CAMARA_POSITIONS[i]
    BY <1>5
  <2>2. start + p - 1 \in 1..260 /\ ((start + p - 1 - 1) % 13) + 1 = p
    BY <1>2
  <2>3. p \in MAYAN_TONES
    BY DEF MAYAN_TONES
  <2>4. wave.chambers[i].is = kinToSealTone(start + p - 1) /\ kinToSealTone(start + p - 1).toneId = p
    <3>1. PICK k \in Int : k = start + p - 1
      BY <2>2
    <3>2. ((k - 1) % 13) + 1 = p
      BY <1>2, <2>2, <3>1
    <3>3. kinToSealTone(k).toneId = p
      BY <3>2, ToneOfKin
    <3> QED
      BY <1>4, <2>1, <3>1, <3>3
  <2> QED
    BY <1>4, <2>1, <2>2, <2>3, <2>4
<1> QED
  BY <1>2, <1>4, <1>6, <1>7 DEF WaveHoldsItsKin, wave, kin

\* The sign of a day by the day its month's sign begins on.
Cusps == <<20, 19, 21, 20, 21, 21, 23, 23, 23, 23, 22, 22>>
Entered == <<11, 12, 1, 2, 3, 4, 5, 6, 7, 8, 9, 10>>
Left(i) == IF i = 1 THEN 12 ELSE i - 1

\* The sign of the d-th day of the month m.
SignIn(m, d) == IF d >= Cusps[m] THEN Entered[m] ELSE Left(Entered[m])

\* Exactly one range of the catalogue holds the day, of whatever month.
LEMMA SignsOfDay ==
    ASSUME NEW m \in 1..12, NEW d \in 1..31
    PROVE  SignsOf(m * 100 + d) = {SignIn(m, d)} /\ SignIn(m, d) \in 1..12
<1>1. CASE m = 1
  BY <1>1, SMTT(60) DEF SignsOf, WESTERN_SIGNS, Sign, SignIn, Cusps, Entered, Left
<1>2. CASE m = 2
  BY <1>2, SMTT(60) DEF SignsOf, WESTERN_SIGNS, Sign, SignIn, Cusps, Entered, Left
<1>3. CASE m = 3
  BY <1>3, SMTT(60) DEF SignsOf, WESTERN_SIGNS, Sign, SignIn, Cusps, Entered, Left
<1>4. CASE m = 4
  BY <1>4, SMTT(60) DEF SignsOf, WESTERN_SIGNS, Sign, SignIn, Cusps, Entered, Left
<1>5. CASE m = 5
  BY <1>5, SMTT(60) DEF SignsOf, WESTERN_SIGNS, Sign, SignIn, Cusps, Entered, Left
<1>6. CASE m = 6
  BY <1>6, SMTT(60) DEF SignsOf, WESTERN_SIGNS, Sign, SignIn, Cusps, Entered, Left
<1>7. CASE m = 7
  BY <1>7, SMTT(60) DEF SignsOf, WESTERN_SIGNS, Sign, SignIn, Cusps, Entered, Left
<1>8. CASE m = 8
  BY <1>8, SMTT(60) DEF SignsOf, WESTERN_SIGNS, Sign, SignIn, Cusps, Entered, Left
<1>9. CASE m = 9
  BY <1>9, SMTT(60) DEF SignsOf, WESTERN_SIGNS, Sign, SignIn, Cusps, Entered, Left
<1>10. CASE m = 10
  BY <1>10, SMTT(60) DEF SignsOf, WESTERN_SIGNS, Sign, SignIn, Cusps, Entered, Left
<1>11. CASE m = 11
  BY <1>11, SMTT(60) DEF SignsOf, WESTERN_SIGNS, Sign, SignIn, Cusps, Entered, Left
<1>12. CASE m = 12
  BY <1>12, SMTT(60) DEF SignsOf, WESTERN_SIGNS, Sign, SignIn, Cusps, Entered, Left
<1> QED
  BY <1>1, <1>2, <1>3, <1>4, <1>5, <1>6, <1>7, <1>8, <1>9, <1>10, <1>11, <1>12

\* The two tables name the same sign.
LEMMA TablesAgree ==
    ASSUME NEW d, Civil(d)
    PROVE  /\ calculateZodiacSign(d) = WESTERN_SIGNS[SignIn(d.month, d.day)].id
           /\ WESTERN_SIGNS[SignIn(d.month, d.day)].id # NONE
<1>1. d.month \in 1..12 /\ d.day \in 1..31
  BY DEF Civil
<1> DEFINE m == d.month
<1>2. \E i \in DOMAIN ZODIAC : ZODIAC[i][2] = m
  BY <1>1, SMTT(60) DEF ZODIAC
<1>3. \A i, j \in DOMAIN ZODIAC : ZODIAC[i][2] = ZODIAC[j][2] => i = j
  BY SMTT(60) DEF ZODIAC
<1>4. (CHOOSE i \in DOMAIN ZODIAC : ZODIAC[i][2] = m) = (m % 12) + 1
  BY <1>1, <1>2, <1>3, SMTT(60) DEF ZODIAC
<1> QED
  BY <1>1, <1>4, SMTT(60)
     DEF calculateZodiacSign, ZODIAC, WESTERN_SIGNS, Sign, SignIn, Cusps, Entered, Left, NONE

\* The one sign of a civil date.
LEMMA SignsOfCivil ==
    ASSUME NEW d, Civil(d)
    PROVE  /\ SignsOf(d.month * 100 + d.day) = {SignIn(d.month, d.day)}
           /\ SignIn(d.month, d.day) \in 1..12
           /\ getWesternSign(d) = SignIn(d.month, d.day)
<1>1. d.month \in 1..12 /\ d.day \in 1..31
  BY DEF Civil
<1>2. SignsOf(d.month * 100 + d.day) = {SignIn(d.month, d.day)} /\ SignIn(d.month, d.day) \in 1..12
  BY <1>1, SignsOfDay
<1> HIDE DEF SignIn
<1>3. SignIn(d.month, d.day) <= SignIn(d.month, d.day)
  BY <1>2
<1> QED
  BY <1>2, <1>3 DEF getWesternSign

\* The two tables agree on the day.
LEMMA SignsOfDate ==
    ASSUME Civil(date)
    PROVE  SignsAgree
<1>1. /\ SignsOf(date.month * 100 + date.day) = {SignIn(date.month, date.day)}
      /\ SignIn(date.month, date.day) \in DOMAIN WESTERN_SIGNS
      /\ getWesternSign(date) = SignIn(date.month, date.day)
  BY SignsOfCivil DEF WESTERN_SIGNS
<1>2. date # NoDay
  BY DEF Civil, NoDay, Day
<1>3. resolveUserSign("western", [birthDate |-> date, astrologicalSign |-> NONE])
        = [type |-> "western", signId |-> WESTERN_SIGNS[getWesternSign(date)].id, element |-> NONE]
  BY <1>2 DEF resolveUserSign
<1>4. ASSUME NEW id, id # NONE
      PROVE  resolveUserSign("western", [birthDate |-> NoDay, astrologicalSign |-> id])
               = [type |-> "western", signId |-> id, element |-> NONE]
  BY <1>4 DEF resolveUserSign
<1> QED
  BY <1>1, <1>3, <1>4, TablesAgree DEF SignsAgree

\* The sign of the day after: the same or the next of the catalogue.
LEMMA SignGoesOn ==
    ASSUME NEW d, Civil(d)
    PROVE  SignIn(After(d).month, After(d).day) \in
             {SignIn(d.month, d.day), (SignIn(d.month, d.day) % 12) + 1}
<1>1. d.month \in 1..12 /\ d.day \in 1..31 /\ d.day <= MonthLength(d.year, d.month)
  BY DEF Civil
<1>2. CASE d.day < MonthLength(d.year, d.month)
  BY <1>1, <1>2, SMTT(60) DEF After, Day, SignIn, Cusps, Entered, Left
<1>3. CASE ~(d.day < MonthLength(d.year, d.month))
  <2>1. d.day >= 28
    BY <1>1, <1>3, SMT DEF MonthLength
  <2>2. SignIn(d.month, d.day) = Entered[d.month]
    BY <1>1, <2>1, SMTT(60) DEF SignIn, Cusps
  <2>3. After(d).day = 1 /\ After(d).month = (d.month % 12) + 1
    BY <1>1, <1>3, SMTT(60) DEF After, Day
  <2>4. SignIn((d.month % 12) + 1, 1) = Entered[d.month]
    BY <1>1, SMTT(60) DEF SignIn, Cusps, Entered, Left
  <2> QED
    BY <2>2, <2>3, <2>4
<1> QED
  BY <1>2, <1>3

\* The western sign of the walk.
LEMMA WesternGoesOn ==
    ASSUME Civil(date), NextDay
    PROVE  WesternDayAfter
<1>1. date' = After(date) /\ Civil(After(date))
  BY AfterCivil DEF NextDay
<1> QED
  BY <1>1, SignsOfCivil, SignGoesOn DEF WesternDayAfter

-----------------------------------------------------------------------------
(* The Chinese year.                                                       *)

\* It begins between 21 January and 20 February.
LEMMA NewYearIn ==
    ASSUME NEW y \in Int
    PROVE  getChineseNewYear(y) \in 121..220
<1>1. CASE y - 1979 \in 1..56
  BY <1>1, SMTT(60) DEF getChineseNewYear, CHINESE_NEW_YEAR_DATES
<1>2. CASE y - 1979 \notin 1..56
  BY <1>2, SMTT(60) DEF getChineseNewYear, CHINESE_NEW_YEAR_DATES
<1> QED
  BY <1>1, <1>2

\* The pair of a year in the round of sixty: 12 and 10 divide it.
LEMMA PairOfYear ==
    ASSUME NEW y \in Int
    PROVE  CHINESE_COMBOS[(y - 1984) % 60]
             = [animalId |-> CHINESE_ANIMALS[((y - 1984) % 12) + 1], element |-> chineseYearElement(y)]
<1>1. (y - 1984) % 60 \in 0..59 /\ ((y - 1984) % 60) % 12 = (y - 1984) % 12
  BY SMTT(60)
<1>2. (1984 + ((y - 1984) % 60) - 4) % 10 = (y - 4) % 10
  BY SMTT(60)
<1>3. chineseYearElement(1984 + ((y - 1984) % 60)) = chineseYearElement(y)
  BY <1>2 DEF chineseYearElement
<1> QED
  BY <1>1, <1>3 DEF CHINESE_COMBOS

\* The Chinese year of a date, and the sign of a year.
ZodiacYear(d) ==
    IF d.month * 100 + d.day < getChineseNewYear(d.year) THEN d.year - 1 ELSE d.year

ZodiacOf(y) ==
    [animal |-> CHINESE_ANIMALS[((y - 1984) % 12) + 1], element |-> chineseYearElement(y), year |-> y]

\* The sign of a date is the one of its Chinese year.
LEMMA ZodiacOfDay ==
    ASSUME NEW d, Civil(d)
    PROVE  getChineseZodiac(d) = ZodiacOf(ZodiacYear(d)) /\ ZodiacYear(d) \in Nat
  BY SMT, NewYearIn DEF getChineseZodiac, ZodiacOf, ZodiacYear, Civil

\* The Chinese year changes on a New Year only, and by one.
LEMMA ZodiacYearGoesOn ==
    ASSUME NEW d, Civil(d), ZodiacYear(After(d)) # ZodiacYear(d)
    PROVE  /\ After(d).month * 100 + After(d).day \in 121..220
           /\ ZodiacYear(After(d)) = ZodiacYear(d) + 1
           /\ ZodiacYear(After(d)) = After(d).year
<1>1. /\ d.month \in 1..12 /\ d.day \in 1..31 /\ d.year \in Nat \ {0}
      /\ d.day <= MonthLength(d.year, d.month)
  BY DEF Civil
<1>2. getChineseNewYear(d.year) \in 121..220 /\ getChineseNewYear(d.year + 1) \in 121..220
  BY <1>1, NewYearIn
<1>3. CASE d.day < MonthLength(d.year, d.month)
  <2>1. After(d).year = d.year /\ After(d).month = d.month /\ After(d).day = d.day + 1
    BY <1>3 DEF After, Day
  <2>2. PICK n \in 121..220 : n = getChineseNewYear(d.year)
    BY <1>2
  <2>3. PICK x \in Int : x = d.month * 100 + d.day
    BY <1>1
  <2>4. After(d).month * 100 + After(d).day = x + 1
    BY <1>1, <2>1, <2>3
  <2>5. /\ ZodiacYear(d) = IF x < n THEN d.year - 1 ELSE d.year
        /\ ZodiacYear(After(d)) = IF x + 1 < n THEN d.year - 1 ELSE d.year
    BY <2>1, <2>2, <2>3, <2>4 DEF ZodiacYear
  <2> QED
    BY <1>1, <2>1, <2>2, <2>3, <2>4, <2>5
<1>4. CASE ~(d.day < MonthLength(d.year, d.month))
  <2>1. d.day >= 28 /\ (d.month = 12 => d.day = 31)
    BY <1>1, <1>4, SMT DEF MonthLength
  <2> QED
    BY <1>1, <1>2, <1>4, <2>1, SMTT(60) DEF After, Day, ZodiacYear
<1> QED
  BY <1>3, <1>4

\* The Chinese sign of the walk.
LEMMA ChineseGoesOn ==
    ASSUME Civil(date), NextDay
    PROVE  ChineseDayAfter
<1>1. date' = After(date) /\ Civil(After(date))
  BY AfterCivil DEF NextDay
<1>2. getChineseZodiac(date) = ZodiacOf(ZodiacYear(date)) /\ ZodiacYear(date) \in Nat
  BY ZodiacOfDay
<1>3. getChineseZodiac(date') = ZodiacOf(ZodiacYear(date')) /\ ZodiacYear(date') \in Nat
  BY <1>1, ZodiacOfDay
<1>4. \A y : ZodiacOf(y).year = y /\ ZodiacOf(y).element = chineseYearElement(y)
             /\ ZodiacOf(y).animal = CHINESE_ANIMALS[((y - 1984) % 12) + 1]
  BY DEF ZodiacOf
<1>5. [animalId |-> getChineseZodiac(date').animal, element |-> getChineseZodiac(date').element]
        = CHINESE_COMBOS[(getChineseZodiac(date').year - 1984) % 60]
  <2> DEFINE y == ZodiacYear(date')
  <2>1. PICK z \in Int : z = y
    BY <1>3
  <2>2. CHINESE_COMBOS[(z - 1984) % 60]
          = [animalId |-> CHINESE_ANIMALS[((z - 1984) % 12) + 1], element |-> chineseYearElement(z)]
    BY PairOfYear
  <2> HIDE DEF y
  <2>3. /\ getChineseZodiac(date').year = z /\ getChineseZodiac(date').element = chineseYearElement(z)
        /\ getChineseZodiac(date').animal = CHINESE_ANIMALS[((z - 1984) % 12) + 1]
    BY <1>3, <1>4, <2>1 DEF y
  <2> QED
    BY <2>2, <2>3
<1>6. ASSUME getChineseZodiac(date') # getChineseZodiac(date)
      PROVE  /\ date'.month * 100 + date'.day \in 121..220
             /\ getChineseZodiac(date').year = getChineseZodiac(date).year + 1
             /\ getChineseZodiac(date').year = date'.year
  <2>1. ZodiacYear(After(date)) # ZodiacYear(date)
    BY <1>1, <1>2, <1>3, <1>6
  <2> QED
    BY <1>1, <1>2, <1>3, <1>4, <2>1, ZodiacYearGoesOn
<1> QED
  BY <1>5, <1>6 DEF ChineseDayAfter

-----------------------------------------------------------------------------
(* The long count.                                                         *)

\* The days of twenty baktuns.
Countable(n) == n \in Int /\ n >= 0 /\ n < 2880000

\* The quotients and the rests that the long count is made of.
Units(n, b, r, k, s, t, u, w, x) ==
    /\ Countable(n)
    /\ b = n \div 144000 /\ r = n % 144000 /\ k = r \div 7200 /\ s = n % 7200
    /\ t = s \div 360 /\ u = n % 360 /\ w = u \div 20 /\ x = n % 20

\* The number that the long count reads as.
Total(n, b, k, t, w, x) ==
    n = 144000 * (b % 20) + 7200 * (k % 20) + 360 * (t % 20) + 20 * (w % 18) + x

\* The units of the long count fit into one another, and the days of thirteen
\* baktuns and seven more into the first.
LEMMA LongCountIs ==
    ASSUME NEW n \in Int, NEW b \in Int, NEW r \in Int, NEW k \in Int, NEW s \in Int,
           NEW t \in Int, NEW u \in Int, NEW w \in Int, NEW x \in Int,
           Units(n, b, r, k, s, t, u, w, x)
    PROVE  Total(n, b, k, t, w, x)
<1>1. n = 144000 * b + r /\ 0 <= r /\ r < 144000 /\ 0 <= b /\ b < 20
  BY SMT DEF Units, Countable
<1>2. s = r % 7200 /\ u = s % 360 /\ x = u % 20
  BY SMT DEF Units, Countable
<1>3. r = 7200 * k + s /\ 0 <= k /\ k < 20 /\ 0 <= s /\ s < 7200
  BY <1>1, <1>2, SMT DEF Units, Countable
<1>4. s = 360 * t + u /\ 0 <= t /\ t < 20 /\ 0 <= u /\ u < 360
  BY <1>2, <1>3, SMT DEF Units, Countable
<1>5. u = 20 * w + x /\ 0 <= w /\ w < 18
  BY <1>2, <1>4, SMT DEF Units, Countable
<1>6. b % 20 = b /\ k % 20 = k /\ t % 20 = t /\ w % 18 = w
  BY <1>1, <1>3, <1>4, <1>5, SMT DEF Units, Countable
<1> QED
  BY <1>1, <1>3, <1>4, <1>5, <1>6, SMT DEF Total

\* The days since the correlation, within the twenty baktuns that the code's
\* long count can tell apart.
DaysOf(d) == gregorianToJdn(d) - GMT_CORRELATION_JDN

LongCountOf(d) ==
    LET l == gregorianToMayanLongCount(d).longCount
    IN  144000 * l.baktun + 7200 * l.katun + 360 * l.tun + 20 * l.uinal + l.kin

\* Of every such day the long count is the number of days.
LEMMA CountOfDay ==
    ASSUME NEW d, Countable(DaysOf(d))
    PROVE  LongCountOf(d) = DaysOf(d)
<1>1. PICK n \in Int : n = DaysOf(d) /\ Countable(n)
  BY DEF Countable
<1>2. PICK b \in Int, r \in Int, k \in Int, s \in Int, t \in Int, u \in Int, w \in Int, x \in Int :
        Units(n, b, r, k, s, t, u, w, x)
  BY <1>1, SMT DEF Units, Countable
<1>3. Total(n, b, k, t, w, x)
  BY <1>2, LongCountIs, Zenon
<1>4. gregorianToMayanLongCount(d).longCount
        = [baktun |-> b % 20, katun |-> k % 20, tun |-> t % 20, uinal |-> w % 18, kin |-> x]
  BY <1>1, <1>2, SMT DEF gregorianToMayanLongCount, DaysOf, Units
<1> QED
  BY <1>1, <1>3, <1>4, SMT DEF LongCountOf, Total

\* The years from 1 to 4771 lie within them (the next date's year included).
LEMMA DaysInRange ==
    ASSUME NEW d, Civil(d), d.year <= 4771
    PROVE  DaysOf(d) \in Int /\ DaysOf(d) >= 0 /\ DaysOf(d) < 2879999
<1>1. d.month \in 1..12 /\ d.day \in 1..31 /\ d.year \in Nat \ {0}
  BY DEF Civil
<1>2. PICK Y \in Int, M \in Int, D \in Int :
        /\ Y = d.year /\ M = d.month /\ D = d.day
        /\ Y >= 1 /\ Y <= 4771 /\ M >= 1 /\ M <= 12 /\ D >= 1 /\ D <= 31
  BY <1>1, SMT
<1>3. PICK a \in Int, y \in Int, m \in Int :
        a = (14 - M) \div 12 /\ y = Y + 4800 - a /\ m = M + 12 * a - 3
  <2>1. PICK a \in Int : a = (14 - M) \div 12
    BY SMT
  <2>2. PICK b \in Int : b = 12 * a
    BY SMT
  <2>3. Y + 4800 - a \in Int /\ M + b - 3 \in Int
    BY SMT
  <2> QED
    BY <2>1, <2>2, <2>3
<1>4. y >= 4800 /\ y <= 9571 /\ m >= 0 /\ m <= 11
  BY <1>2, <1>3, SMT
<1>5. PICK e \in Int : e = (153 * m + 2) \div 5 /\ e >= 0 /\ e <= 337
  BY <1>4, SMT
<1>6. PICK p \in Int : p = y \div 4 /\ p >= 0 /\ 4 * p <= y
  BY <1>4, SMT
<1>7. PICK q \in Int : q = y \div 100 /\ 100 * q <= y /\ 100 * q >= y - 99
  BY <1>4, SMT
<1>8. PICK r \in Int : r = y \div 400 /\ r >= 0 /\ 400 * r <= y
  BY <1>4, SMT
<1>9. gregorianToJdn(d) = D + e + 365 * y + p - q + r - 32045
  BY <1>2, <1>3, <1>5, <1>6, <1>7, <1>8, SMT DEF gregorianToJdn
<1>10. DaysOf(d) = D + e + 365 * y + p - q + r - 32045 - 584283
  BY <1>9, SMT DEF DaysOf, GMT_CORRELATION_JDN
<1> QED
  BY <1>2, <1>4, <1>5, <1>6, <1>7, <1>8, <1>10, SMT

\* The long count of the walk.
LEMMA CountGoesOn ==
    ASSUME Civil(date), NextDay, date.year <= 4771
    PROVE  CountDayAfter
<1>1. DaysOf(date) \in Int /\ DaysOf(date) >= 0 /\ DaysOf(date) < 2879999
  BY DaysInRange
<1>2. DaysOf(date') = DaysOf(date) + 1
  <2>1. gregorianToJdn(date') = gregorianToJdn(date) + 1 /\ gregorianToJdn(date) \in Int
    BY JdnGoesOn, JdnInt DEF NextDay
  <2> QED
    BY <2>1, SMT DEF DaysOf, GMT_CORRELATION_JDN
<1>3. Countable(DaysOf(date)) /\ Countable(DaysOf(date'))
  BY <1>1, <1>2, SMT DEF Countable
<1>4. LongCountOf(date) = DaysOf(date) /\ LongCountOf(date') = DaysOf(date')
  BY <1>3, CountOfDay, SMT
<1>5. LongCountOf(date') = LongCountOf(date) + 1
  BY <1>2, <1>4, SMT
<1> QED
  BY <1>5, SMT DEF CountDayAfter, LongCountOf

-----------------------------------------------------------------------------
(* The keys of the periods.                                                *)

\* The two counts of days differ by a constant.
LEMMA UtcIsJdn ==
    ASSUME NEW d, Civil(d)
    PROVE  UTC(d) = gregorianToJdn(d) - 1721425 /\ UTC(d) \in Int
<1> DEFINE m == d.month
           B == DaysBeforeMonth[m] + (IF m > 2 THEN 1 ELSE 0)
<1>0. d.month \in 1..12 /\ d.day \in 1..31 /\ d.year \in Nat \ {0}
  BY DEF Civil
<1>1. PICK Y \in Int, D \in Int : Y = d.year /\ D = d.day /\ Y >= 1
  BY <1>0
<1>2. PICK L \in Int : L = (Y \div 4) - (Y \div 100) + (Y \div 400)
  BY SMT
<1>3. PICK K \in Int : K = ((Y - 1) \div 4) - ((Y - 1) \div 100) + ((Y - 1) \div 400)
  BY SMT
<1>4. L = K + (IF Leap(Y) THEN 1 ELSE 0)
  BY <1>1, <1>2, <1>3, SMTT(60) DEF Leap
<1>5. /\ (Y + 4800) \div 4 - ((Y + 4800) \div 100) + ((Y + 4800) \div 400) = L + 1164
      /\ (Y + 4799) \div 4 - ((Y + 4799) \div 100) + ((Y + 4799) \div 400) = K + 1164
  <2> SUFFICES ASSUME NEW y \in Int
               PROVE  (y + 4800) \div 4 - ((y + 4800) \div 100) + ((y + 4800) \div 400)
                        = (y \div 4) - (y \div 100) + (y \div 400) + 1164
    <3>1. (Y - 1) + 4800 = Y + 4799
      BY SMT
    <3> QED
      BY <1>2, <1>3, <3>1, SMT
  <2>1. PICK a \in Int, b \in Int, c \in Int : a = y \div 4 /\ b = y \div 100 /\ c = y \div 400
    BY SMT
  <2>2. (y + 4800) \div 4 = a + 1200 /\ (y + 4800) \div 100 = b + 48 /\ (y + 4800) \div 400 = c + 12
    BY <2>1, SMT
  <2> QED
    BY <2>1, <2>2, SMT
<1>6. UTC(d) = 365 * (Y - 1) + K + DaysBeforeMonth[m] + D + (IF m > 2 /\ Leap(Y) THEN 1 ELSE 0)
  BY <1>1, <1>3, SMT DEF UTC
<1>7. PICK e \in Int : e = IF Leap(Y) THEN 1 ELSE 0
  OBVIOUS
<1>8. L = K + e
  BY <1>4, <1>7
<1>9. CASE m \in {1, 2}
  <2>1. gregorianToJdn(d) = D + (IF m = 1 THEN 306 ELSE 337) + 365 * (Y + 4799) + (K + 1164) - 32045
    BY <1>1, <1>5, <1>9, SMTT(30) DEF gregorianToJdn
  <2>2. DaysBeforeMonth[m] = IF m = 1 THEN 0 ELSE 31
    BY <1>9, SMT DEF DaysBeforeMonth
  <2> QED
    BY <1>6, <1>9, <2>1, <2>2, SMTT(30)
<1>10. CASE m \in 3..12
  <2>1. gregorianToJdn(d) = D + ((153 * (m - 3) + 2) \div 5) + 365 * (Y + 4800) + (L + 1164) - 32045
    <3>1. (14 - m) \div 12 = 0
      BY <1>10, SMT
    <3>2. PICK p \in Int : p = (153 * (m - 3) + 2) \div 5
      BY <1>10, SMT
    <3>3. gregorianToJdn(d) = D + p + 365 * (Y + 4800)
            + ((Y + 4800) \div 4 - ((Y + 4800) \div 100) + ((Y + 4800) \div 400)) - 32045
      BY <1>1, <1>10, <3>1, <3>2, SMT DEF gregorianToJdn
    <3> QED
      BY <1>1, <1>5, <3>2, <3>3, SMT
  <2>2. DaysBeforeMonth[m] = ((153 * (m - 3) + 2) \div 5) + 59
    BY <1>10, SMTT(30) DEF DaysBeforeMonth
  <2>3. UTC(d) = 365 * (Y - 1) + K + DaysBeforeMonth[m] + D + e
    BY <1>6, <1>7, <1>10
  <2> QED
    BY <1>8, <1>10, <2>1, <2>2, <2>3, SMTT(30)
<1> QED
  BY <1>0, <1>9, <1>10

\* The count of days goes on by one.
LEMMA UtcGoesOn ==
    ASSUME NEW d, Civil(d)
    PROVE  UTC(After(d)) = UTC(d) + 1
<1>1. Civil(After(d)) /\ gregorianToJdn(d) \in Int /\ gregorianToJdn(After(d)) = gregorianToJdn(d) + 1
  BY AfterCivil, JdnInt, JdnGoesOn
<1>2. UTC(d) = gregorianToJdn(d) - 1721425 /\ UTC(After(d)) = gregorianToJdn(After(d)) - 1721425
  BY <1>1, UtcIsJdn
<1> QED
  BY <1>1, <1>2, SMT

\* The first of January of a year, and the Thursday of a day's week.
YearStart(y) == UTC(Day(y, 1, 1))

ThursdayOf(n) == n - (((n % 7) + 6) % 7) + 3

\* The day t lies in the year y.
InYear(t, y) == YearStart(y) <= t /\ t < YearStart(y + 1)

\* The year of a date's ISO week.
IsoYear(d) ==
    CHOOSE y \in {d.year - 1, d.year, d.year + 1} : InYear(ThursdayOf(UTC(d)), y)

\* A year has 365 or 366 days.
LEMMA YearLength ==
    ASSUME NEW y \in Int
    PROVE  YearStart(y) \in Int /\ YearStart(y + 1) - YearStart(y) \in 365..366
<1> DEFINE F(z) == (z \div 4) - (z \div 100) + (z \div 400)
<1>1. YearStart(y) = 365 * (y - 1) + F(y - 1) + 1
  BY SMT DEF YearStart, UTC, Day, DaysBeforeMonth
<1>2. YearStart(y + 1) = 365 * y + F(y) + 1
  BY SMT DEF YearStart, UTC, Day, DaysBeforeMonth
<1>3. F(y) \in Int /\ F(y - 1) \in Int /\ F(y) - F(y - 1) \in 0..1
  BY SMTT(60)
<1> HIDE DEF F
<1> QED
  BY <1>1, <1>2, <1>3, SMT

\* A date lies in its year.
LEMMA InItsYear ==
    ASSUME NEW d, Civil(d)
    PROVE  InYear(UTC(d), d.year)
<1> DEFINE m == d.month
<1>0. d.month \in 1..12 /\ d.day \in 1..31 /\ d.year \in Nat \ {0} /\ d.day <= MonthLength(d.year, m)
  BY DEF Civil
<1>1. PICK Y \in Int, D \in Int, e \in Int :
        /\ Y = d.year /\ D = d.day /\ Y >= 1 /\ D >= 1 /\ D <= MonthLength(Y, m)
        /\ e = IF Leap(Y) THEN 1 ELSE 0
  BY <1>0
<1>2. PICK K \in Int : K = ((Y - 1) \div 4) - ((Y - 1) \div 100) + ((Y - 1) \div 400)
  BY SMT
<1>3. UTC(d) = 365 * (Y - 1) + K + DaysBeforeMonth[m] + D + (IF m > 2 THEN e ELSE 0)
  BY <1>1, <1>2, SMT DEF UTC
<1>4. YearStart(Y) = 365 * (Y - 1) + K + 1
  BY <1>2, SMT DEF YearStart, UTC, Day, DaysBeforeMonth
<1>5. YearStart(Y + 1) = YearStart(Y) + 365 + e
  <2>1. YearStart(Y + 1) = 365 * Y + ((Y \div 4) - (Y \div 100) + (Y \div 400)) + 1
    BY SMT DEF YearStart, UTC, Day, DaysBeforeMonth
  <2>2. PICK L \in Int : L = (Y \div 4) - (Y \div 100) + (Y \div 400)
    BY SMT
  <2>3. L = K + e
    BY <1>1, <1>2, <2>2, SMTT(60) DEF Leap
  <2> QED
    BY <1>4, <2>1, <2>2, <2>3, SMT
<1>6. MonthLength(Y, m) = IF m = 2 THEN 28 + e ELSE IF m \in {4, 6, 9, 11} THEN 30 ELSE 31
  BY <1>1, SMT DEF MonthLength, Leap
<1>7. PICK B \in Int : B = DaysBeforeMonth[m]
        /\ B >= 0 /\ B + (IF m = 2 THEN 28 ELSE IF m \in {4, 6, 9, 11} THEN 30 ELSE 31) <= 365
        /\ (m <= 2 => B <= 31)
  BY <1>0, SMTT(30) DEF DaysBeforeMonth
<1>8. e \in 0..1
  BY <1>1
<1>9. YearStart(Y) <= UTC(d) /\ UTC(d) < YearStart(Y + 1)
  BY <1>0, <1>1, <1>3, <1>4, <1>5, <1>6, <1>7, <1>8, SMTT(30)
<1> QED
  BY <1>1, <1>9 DEF InYear

\* The Thursday of a week: three days away at most, and the same all week.
LEMMA Thursdays ==
    ASSUME NEW n \in Int
    PROVE  /\ ThursdayOf(n) \in Int /\ ThursdayOf(n) % 7 = 4
           /\ n - 3 <= ThursdayOf(n) /\ ThursdayOf(n) <= n + 3
           /\ (n + 1) % 7 # 1 => ThursdayOf(n + 1) = ThursdayOf(n)
           /\ (n + 1) % 7 = 1 => ThursdayOf(n + 1) = ThursdayOf(n) + 7
<1>1. PICK r \in Int : r = n % 7 /\ r \in 0..6
  BY SMT
<1>2. PICK s \in Int : s = (r + 6) % 7 /\ s = IF r = 0 THEN 6 ELSE r - 1
  BY <1>1, SMT
<1>3. ThursdayOf(n) = n - s + 3
  BY <1>1, <1>2 DEF ThursdayOf
<1>4. (n - s + 3) % 7 = 4
  BY <1>1, <1>2, SMTT(60)
<1>5. PICK q \in Int : q = (n + 1) % 7 /\ q = IF r = 6 THEN 0 ELSE r + 1
  BY <1>1, SMTT(60)
<1>6. PICK z \in Int : z = (q + 6) % 7 /\ z = IF q = 0 THEN 6 ELSE q - 1
  BY <1>1, <1>5, SMT
<1>7. ThursdayOf(n + 1) = n + 1 - z + 3
  BY <1>5, <1>6 DEF ThursdayOf
<1> QED
  BY <1>1, <1>2, <1>3, <1>4, <1>5, <1>6, <1>7, SMT

\* One year holds the Thursday of a date's week.
LEMMA IsoYearIs ==
    ASSUME NEW d, Civil(d)
    PROVE  /\ IsoYear(d) \in (d.year - 1)..(d.year + 1)
           /\ InYear(ThursdayOf(UTC(d)), IsoYear(d))
<1>1. PICK Y \in Int, n \in Int, t \in Int :
        Y = d.year /\ n = UTC(d) /\ t = ThursdayOf(n) /\ n - 3 <= t /\ t <= n + 3
  <2>1. UTC(d) \in Int
    BY UtcIsJdn, SMT
  <2>2. d.year \in Int
    BY DEF Civil
  <2> QED
    BY <2>1, <2>2, Thursdays
<1>2. YearStart(Y) <= n /\ n < YearStart(Y + 1)
  BY <1>1, InItsYear DEF InYear
<1>3. /\ YearStart(Y - 1) \in Int /\ YearStart(Y) \in Int
      /\ YearStart(Y + 1) \in Int /\ YearStart(Y + 2) \in Int
      /\ YearStart(Y) >= YearStart(Y - 1) + 365 /\ YearStart(Y + 2) >= YearStart(Y + 1) + 365
  <2>1. YearStart(Y - 1) \in Int /\ YearStart((Y - 1) + 1) - YearStart(Y - 1) \in 365..366
    BY YearLength
  <2>2. YearStart(Y + 1) \in Int /\ YearStart((Y + 1) + 1) - YearStart(Y + 1) \in 365..366
    BY YearLength
  <2>3. YearStart(Y) \in Int /\ YearStart(Y + 2) \in Int
    BY YearLength
  <2>4. (Y - 1) + 1 = Y /\ (Y + 1) + 1 = Y + 2
    OBVIOUS
  <2> QED
    BY <2>1, <2>2, <2>3, <2>4
<1>4. (Y - 1) + 1 = Y /\ (Y + 1) + 1 = Y + 2
  OBVIOUS
<1>5. InYear(t, Y - 1) \/ InYear(t, Y) \/ InYear(t, Y + 1)
  BY <1>1, <1>2, <1>3, <1>4 DEF InYear
<1>6. \E y \in {Y - 1, Y, Y + 1} : InYear(t, y)
  BY <1>5
<1>7. IsoYear(d) \in {Y - 1, Y, Y + 1} /\ InYear(t, IsoYear(d))
  BY <1>1, <1>6 DEF IsoYear
<1> QED
  BY <1>1, <1>7

\* Years do not overlap.
LEMMA OneIsoYear ==
    ASSUME NEW t \in Int, NEW Y \in Int, NEW a \in (Y - 1)..(Y + 2), NEW b \in (Y - 1)..(Y + 2),
           InYear(t, a), InYear(t, b)
    PROVE  a = b
<1>1. \A y \in Int : YearStart(y) \in Int /\ YearStart(y + 1) >= YearStart(y) + 365
  BY YearLength
<1>2. ASSUME NEW x \in (Y - 1)..(Y + 2), NEW z \in (Y - 1)..(Y + 2), x < z
      PROVE  YearStart(x + 1) <= YearStart(z)
  <2>1. z \in {x + 1, x + 2, x + 3} /\ (x + 1) + 1 = x + 2 /\ (x + 2) + 1 = x + 3
    BY <1>2
  <2>2. /\ YearStart(x + 1) \in Int /\ YearStart(x + 2) \in Int /\ YearStart(x + 3) \in Int
        /\ YearStart((x + 1) + 1) >= YearStart(x + 1) + 365
        /\ YearStart((x + 2) + 1) >= YearStart(x + 2) + 365
    BY <1>1
  <2> QED
    BY <2>1, <2>2
<1>3. /\ YearStart(a) <= t /\ t < YearStart(a + 1) /\ YearStart(b) <= t /\ t < YearStart(b + 1)
      /\ YearStart(a) \in Int /\ YearStart(b) \in Int /\ YearStart(a + 1) \in Int /\ YearStart(b + 1) \in Int
  BY <1>1 DEF InYear
<1>4. ~(a < b) /\ ~(b < a)
  BY <1>2, <1>3
<1> QED
  BY <1>4

\* The Thursday of the week of the fourth of January is the year's first.
FirstThursday(y) == ThursdayOf(UTC(Day(y, 1, 4)))

\* The number of the week of a Thursday in a year.
WeekNumber(t, y) == 1 + ((t - FirstThursday(y)) \div 7)

\* It lies in the first seven days of the year.
LEMMA FirstOfYear ==
    ASSUME NEW y \in Int
    PROVE  /\ FirstThursday(y) \in Int /\ FirstThursday(y) % 7 = 4
           /\ YearStart(y) <= FirstThursday(y) /\ FirstThursday(y) <= YearStart(y) + 6
<1>1. PICK n \in Int : n = YearStart(y)
  BY YearLength
<1>2. UTC(Day(y, 1, 4)) = n + 3
  <2>1. PICK K \in Int : K = ((y - 1) \div 4) - ((y - 1) \div 100) + ((y - 1) \div 400)
    BY SMT
  <2> QED
    BY <1>1, <2>1, SMT DEF YearStart, UTC, Day, DaysBeforeMonth
<1>3. PICK t \in Int : t = ThursdayOf(n + 3) /\ t % 7 = 4 /\ (n + 3) - 3 <= t /\ t <= (n + 3) + 3
  BY Thursdays
<1> QED
  BY <1>1, <1>2, <1>3 DEF FirstThursday

\* The week's key by its Thursday.
LEMMA WeekOf ==
    ASSUME NEW d, Civil(d)
    PROVE  isoWeekFromFlat(d)
             = [year |-> IsoYear(d), week |-> WeekNumber(ThursdayOf(UTC(d)), IsoYear(d))]
  BY DEF isoWeekFromFlat, IsoYear, InYear, YearStart, WeekNumber, FirstThursday, ThursdayOf, getUTCDay

\* The year of the day after.
LEMMA YearAfter ==
    ASSUME NEW d, Civil(d)
    PROVE  d.year \in Int /\ After(d).year \in {d.year, d.year + 1}
  BY DEF Civil, After, Day

\* What the week of a day and of the day after have to do with each other, by
\* their Thursdays.
LEMMA SameThursday ==
    ASSUME NEW d, Civil(d), ThursdayOf(UTC(After(d))) = ThursdayOf(UTC(d))
    PROVE  IsoYear(After(d)) = IsoYear(d)
<1>1. /\ Civil(After(d)) /\ d.year \in Int /\ After(d).year \in {d.year, d.year + 1}
      /\ ThursdayOf(UTC(d)) \in Int
  <2>1. UTC(d) \in Int
    BY UtcIsJdn, SMT
  <2> QED
    BY <2>1, AfterCivil, YearAfter, Thursdays
<1>2. PICK Y \in Int, t \in Int : Y = d.year /\ t = ThursdayOf(UTC(d))
  BY <1>1
<1>3. IsoYear(d) \in (Y - 1)..(Y + 1) /\ InYear(t, IsoYear(d))
  BY <1>2, IsoYearIs
<1>4. IsoYear(After(d)) \in (After(d).year - 1)..(After(d).year + 1) /\ InYear(t, IsoYear(After(d)))
  BY <1>1, <1>2, IsoYearIs
<1>5. IsoYear(d) \in (Y - 1)..(Y + 2) /\ IsoYear(After(d)) \in (Y - 1)..(Y + 2)
  BY <1>1, <1>2, <1>3, <1>4
<1> QED
  BY <1>3, <1>4, <1>5, OneIsoYear

\* From a Thursday to the next: the next week of the year, or its first.
LEMMA NextThursday ==
    ASSUME NEW d, Civil(d), ThursdayOf(UTC(After(d))) = ThursdayOf(UTC(d)) + 7
    PROVE  LET y == IsoYear(d)
               z == IsoYear(After(d))
               t == ThursdayOf(UTC(d))
           IN  \/ z = y /\ WeekNumber(t + 7, z) = WeekNumber(t, y) + 1
               \/ z = y + 1 /\ WeekNumber(t + 7, z) = 1 /\ WeekNumber(t, y) \in {52, 53}
<1>0. UTC(d) \in Int
  BY UtcIsJdn, SMT
<1>1. /\ Civil(After(d)) /\ d.year \in Int /\ After(d).year \in {d.year, d.year + 1}
      /\ ThursdayOf(UTC(d)) \in Int /\ ThursdayOf(UTC(d)) % 7 = 4
  BY <1>0, AfterCivil, YearAfter, Thursdays
<1>2. PICK Y \in Int, t \in Int : Y = d.year /\ t = ThursdayOf(UTC(d)) /\ t % 7 = 4
  BY <1>1
<1>3. PICK y \in (Y - 1)..(Y + 1) : y = IsoYear(d) /\ InYear(t, y)
  BY <1>2, IsoYearIs
<1>4. PICK z \in (Y - 1)..(Y + 2) : z = IsoYear(After(d)) /\ InYear(t + 7, z)
  <2>1. IsoYear(After(d)) \in (After(d).year - 1)..(After(d).year + 1) /\ InYear(t + 7, IsoYear(After(d)))
    BY <1>1, <1>2, IsoYearIs
  <2> QED
    BY <1>1, <1>2, <2>1
<1>5. /\ y \in Int /\ YearStart(y) \in Int /\ YearStart(y + 1) \in Int
      /\ YearStart(y + 1) >= YearStart(y) + 365 /\ YearStart(y + 1) <= YearStart(y) + 366
      /\ YearStart((y + 1) + 1) \in Int /\ YearStart((y + 1) + 1) >= YearStart(y + 1) + 365
  <2>1. y \in Int /\ y + 1 \in Int
    OBVIOUS
  <2> QED
    BY <2>1, YearLength
<1>6. PICK f \in Int : f = FirstThursday(y) /\ f % 7 = 4 /\ YearStart(y) <= f /\ f <= YearStart(y) + 6
  BY <1>5, FirstOfYear
<1>7. PICK g \in Int : g = FirstThursday(y + 1) /\ g % 7 = 4
        /\ YearStart(y + 1) <= g /\ g <= YearStart(y + 1) + 6
  BY <1>5, FirstOfYear
<1>8. YearStart(y) <= t /\ t < YearStart(y + 1)
  BY <1>3 DEF InYear
<1>9. CASE t + 7 < YearStart(y + 1)
  <2>1. InYear(t + 7, y)
    BY <1>5, <1>8, <1>9 DEF InYear
  <2>2. z = y
    BY <1>4, <2>1, OneIsoYear
  <2>3. (t + 7 - f) \div 7 = ((t - f) \div 7) + 1
    BY SMT
  <2>4. WeekNumber(t + 7, y) = WeekNumber(t, y) + 1
    <3>1. PICK q \in Int : q = (t - f) \div 7
      BY SMT
    <3> QED
      BY <1>6, <2>3, <3>1 DEF WeekNumber
  <2> QED
    BY <1>2, <1>3, <1>4, <2>2, <2>4
<1>10. CASE ~(t + 7 < YearStart(y + 1))
  <2>1. InYear(t + 7, y + 1)
    BY <1>5, <1>8, <1>10 DEF InYear
  <2>2. z = y + 1
    BY <1>4, <2>1, OneIsoYear
  <2>3. PICK s \in Int, r \in Int : s = YearStart(y + 1) /\ r = YearStart(y)
    BY <1>5
  <2>4. g = t + 7
    BY <1>2, <1>5, <1>7, <1>8, <1>10, <2>3, SMTT(30)
  <2>5. (t + 7 - g) \div 7 = 0
    BY <2>4, SMT
  <2>6. (t - f) \div 7 \in {51, 52}
    BY <1>2, <1>5, <1>6, <1>8, <1>10, <2>3, SMTT(30)
  <2>7. WeekNumber(t + 7, y + 1) = 1 /\ WeekNumber(t, y) \in {52, 53}
    BY <1>6, <1>7, <2>5, <2>6 DEF WeekNumber
  <2> QED
    BY <1>2, <1>3, <1>4, <2>2, <2>7
<1> QED
  BY <1>9, <1>10

\* A month's key changes on its first day.
LEMMA MonthKey ==
    ASSUME Civil(date), NextDay
    PROVE  periodRowKey("monthly", date') # periodRowKey("monthly", date) <=> date'.day = 1
<1>1. /\ date.month \in 1..12 /\ date.day \in 1..31 /\ date.year \in Nat \ {0}
      /\ date.day <= MonthLength(date.year, date.month)
  BY DEF Civil
<1>2. \A d : periodRowKey("monthly", d) = [year |-> d.year, month |-> d.month]
  BY DEF periodRowKey
<1>3. date'.day = 1 <=> ~(date'.year = date.year /\ date'.month = date.month)
  <2>1. date' = After(date)
    BY DEF NextDay
  <2>2. CASE date.day < MonthLength(date.year, date.month)
    <3>1. After(date) = Day(date.year, date.month, date.day + 1)
      BY <2>2 DEF After
    <3> QED
      BY <1>1, <2>1, <3>1 DEF Day
  <2>3. CASE ~(date.day < MonthLength(date.year, date.month)) /\ date.month < 12
    <3>1. After(date) = Day(date.year, date.month + 1, 1)
      BY <2>3 DEF After
    <3> QED
      BY <1>1, <2>1, <3>1 DEF Day
  <2>4. CASE ~(date.day < MonthLength(date.year, date.month)) /\ ~(date.month < 12)
    <3>1. After(date) = Day(date.year + 1, 1, 1)
      BY <2>4 DEF After
    <3> QED
      BY <1>1, <2>1, <3>1 DEF Day
  <2> QED
    BY <2>2, <2>3, <2>4
<1> QED
  BY <1>2, <1>3

\* The keys of the walk.
LEMMA KeysGoOn ==
    ASSUME Civil(date), NextDay
    PROVE  KeysDayAfter
<1>0. PICK n \in Int : n = UTC(date)
  BY UtcIsJdn, SMT
<1>1. date' = After(date) /\ Civil(After(date)) /\ UTC(After(date)) = n + 1
  BY <1>0, AfterCivil, UtcGoesOn DEF NextDay
<1> DEFINE t == ThursdayOf(UTC(date))
           y == IsoYear(date)
           z == IsoYear(After(date))
<1>2. /\ periodRowKey("weekly", date) = [year |-> y, week |-> WeekNumber(t, y)]
      /\ periodRowKey("weekly", date')
           = [year |-> z, week |-> WeekNumber(ThursdayOf(UTC(After(date))), z)]
  BY <1>1, WeekOf DEF periodRowKey
<1>3. getUTCDay(UTC(date')) = (n + 1) % 7
  BY <1>1 DEF getUTCDay
<1>4. CASE (n + 1) % 7 # 1
  <2>1. ThursdayOf(UTC(After(date))) = t
    BY <1>0, <1>1, <1>4, Thursdays
  <2>2. z = y
    BY <2>1, SameThursday
  <2>3. periodRowKey("weekly", date') = periodRowKey("weekly", date)
    BY <1>2, <2>1, <2>2
  <2> QED
    BY <1>3, <1>4, <2>3, MonthKey DEF KeysDayAfter
<1>5. CASE (n + 1) % 7 = 1
  <2>1. ThursdayOf(UTC(After(date))) = t + 7
    BY <1>0, <1>1, <1>5, Thursdays
  <2>2. \/ z = y /\ WeekNumber(t + 7, z) = WeekNumber(t, y) + 1
        \/ z = y + 1 /\ WeekNumber(t + 7, z) = 1 /\ WeekNumber(t, y) \in {52, 53}
    BY <2>1, NextThursday
  <2>3. y \in Int
    BY IsoYearIs DEF Civil
  <2>4. WeekNumber(t, y) \in Int
    <3>1. t \in Int /\ FirstThursday(y) \in Int
      BY <1>0, <2>3, Thursdays, FirstOfYear
    <3> QED
      BY <3>1, SMT DEF WeekNumber
  <2> DEFINE w == periodRowKey("weekly", date)
             v == periodRowKey("weekly", date')
  <2>5. w.year = y /\ w.week = WeekNumber(t, y) /\ v.year = z /\ v.week = WeekNumber(t + 7, z)
    BY <1>2, <2>1
  <2> HIDE DEF t, y, z, w, v
  <2>6. v # w
    BY <2>2, <2>3, <2>4, <2>5
  <2>7. \/ v.year = w.year /\ v.week = w.week + 1
        \/ v.year = w.year + 1 /\ v.week = 1 /\ w.week \in {52, 53}
    BY <2>2, <2>5
  <2> QED
    BY <1>3, <1>5, <2>6, <2>7, MonthKey DEF KeysDayAfter, v, w
<1> QED
  BY <1>4, <1>5

\* From a day to the next the kin, the keys of the week and of the month and the
\* Chinese and the western sign go on as their calendars do, whatever the date:
\* no month's end, leap year, New Year or century breaks them.
THEOREM ReadingsAlwaysGoOn ==
    ASSUME Years \subseteq Nat \ {0}
    PROVE  Spec => [][KinDayAfter /\ KeysDayAfter /\ ChineseDayAfter /\ WesternDayAfter]_date
<1>1. ASSUME Civil(date), NextDay
      PROVE  KinDayAfter /\ KeysDayAfter /\ ChineseDayAfter /\ WesternDayAfter
  BY <1>1, KinOfNextDay, KeysGoOn, ChineseGoesOn, WesternGoesOn
<1> QED
  BY <1>1, WalkCivil, PTL DEF Spec, Next

\* The long count of the code has twenty baktuns, and they end in 4772.
LastFullYear == 4771

\* From a day to the next every reading goes on as its calendar does, for all
\* the years that the long count of the code tells apart.
THEOREM CyclesAlwaysAdvance ==
    ASSUME Years \subseteq Nat \ {0}, \A y \in Years : y <= LastFullYear
    PROVE  Spec => CyclesAdvance
<1>1. ASSUME Civil(date), NextDay
      PROVE  KinDayAfter /\ CountDayAfter /\ KeysDayAfter /\ ChineseDayAfter /\ WesternDayAfter
  <2>1. date.year <= LastFullYear
    BY <1>1 DEF NextDay
  <2> QED
    BY <1>1, <2>1, KinOfNextDay, CountGoesOn, KeysGoOn, ChineseGoesOn, WesternGoesOn, SMT
       DEF LastFullYear
<1>2. Spec => []Civil(date)
  BY WalkCivil
<1> QED
  BY <1>1, <1>2, PTL DEF Spec, Next, CyclesAdvance

-----------------------------------------------------------------------------
(* Functions that recur on smaller numbers.                                *)

\* What holds of a number whenever it holds of all smaller ones holds of every
\* number.
LEMMA EveryNumber ==
    ASSUME NEW G \in SUBSET Nat,
           \A n \in Nat : (\A k \in Nat : k < n => k \in G) => n \in G
    PROVE  G = Nat
<1> DEFINE R == OpToRel(<, Nat)
           Bad == Nat \ G
<1>1. IsWellFoundedOn(R, Nat)
  BY NatLessThanWellFounded
<1>2. \A x, y \in Nat : y < x => <<y, x>> \in R
  BY DEF OpToRel
<1> HIDE DEF R
<1>3. ASSUME Bad # {} PROVE FALSE
  <2>1. Bad \subseteq Nat
    OBVIOUS
  <2>2. PICK x \in Bad : \A y \in Bad : ~ (<<y, x>> \in R)
    BY <1>1, <1>3, <2>1, WFMin
  <2>3. \A y \in Bad : ~ (y < x)
    BY <1>2, <2>1, <2>2
  <2>4. \A k \in Nat : k < x => k \in G
    BY <2>3
  <2> QED
    BY <2>2, <2>4
<1> QED
  BY <1>3

\* The value at n of a function that is given on Base and goes on from its
\* value at down[n] elsewhere.
At(f, n, Base, base, step, down) ==
    f[n] = IF n \in Base THEN base[n] ELSE step[n][f[down[n]]]

\* Up to any number it exists if down[n] is always less than n ...
LEMMA UpToExists ==
    ASSUME NEW Base \in SUBSET Nat, NEW V, NEW base \in [Base -> V],
           NEW step \in [Nat -> [V -> V]], NEW down \in [Nat -> Nat],
           \A n \in Nat \ Base : down[n] < n
    PROVE  \A n \in Nat : \E g \in [0..n -> V] :
             \A k \in 0..n : At(g, k, Base, base, step, down)
<1> DEFINE Good(g, n) == \A k \in 0..n : At(g, k, Base, base, step, down)
           G == {n \in Nat : \E g \in [0..n -> V] : Good(g, n)}
<1>1. ASSUME NEW n \in Nat, \A k \in Nat : k < n => k \in G
      PROVE  n \in G
  <2>1. CASE n = 0
    <3>1. n \in Base /\ 0..n = {n}
      BY <2>1
    <3> DEFINE g == [k \in 0..n |-> base[n]]
    <3>2. g \in [0..n -> V] /\ g[n] = base[n]
      BY <3>1
    <3>3. Good(g, n)
      BY <3>1, <3>2 DEF At
    <3> QED
      BY <3>2, <3>3
  <2>2. CASE n > 0
    <3>1. n - 1 \in Nat /\ n - 1 < n
      BY <2>2
    <3>2. PICK g \in [0..(n - 1) -> V] : Good(g, n - 1)
      BY <1>1, <3>1
    <3> DEFINE v == IF n \in Base THEN base[n] ELSE step[n][g[down[n]]]
               h == [k \in 0..n |-> IF k = n THEN v ELSE g[k]]
    <3>3. v \in V
      <4>1. CASE n \in Base
        BY <4>1
      <4>2. CASE n \notin Base
        <5>1. down[n] \in 0..(n - 1)
          BY <3>1, <4>2
        <5>2. g[down[n]] \in V /\ step[n] \in [V -> V]
          BY <5>1
        <5> QED
          BY <4>2, <5>2
      <4> QED
        BY <4>1, <4>2
    <3> HIDE DEF v
    <3>4. h \in [0..n -> V] /\ h[n] = v /\ \A k \in 0..(n - 1) : h[k] = g[k]
      BY <3>1, <3>3
    <3> HIDE DEF h
    <3>5. \A k \in 0..n : At(h, k, Base, base, step, down)
      <4> SUFFICES ASSUME NEW k \in 0..n
                   PROVE  At(h, k, Base, base, step, down)
        OBVIOUS
      <4>1. k \notin Base => down[k] \in 0..(n - 1)
        BY <3>1
      <4>2. CASE k = n
        BY <3>4, <4>1, <4>2 DEF At, v
      <4>3. CASE k \in 0..(n - 1)
        <5>1. At(g, k, Base, base, step, down)
          BY <3>2, <4>3
        <5> QED
          BY <3>4, <4>1, <4>3, <5>1 DEF At
      <4> QED
        BY <3>1, <4>2, <4>3
    <3> QED
      BY <3>4, <3>5
  <2> HIDE DEF G
  <2> QED
    BY <2>1, <2>2
<1>2. G = Nat
  BY <1>1, EveryNumber
<1> QED
  BY <1>2

\* Such a function up to n.
UpTo(g, n, Base, base, step, down) ==
    \A k \in 0..n : At(g, k, Base, base, step, down)

\* ... and is the only one ...
LEMMA UpToUnique ==
    ASSUME NEW Base, NEW base, NEW step, NEW down,
           \A n \in Nat \ Base : down[n] \in Nat /\ down[n] < n,
           NEW n \in Nat, NEW m \in Nat, NEW g, NEW h,
           UpTo(g, n, Base, base, step, down), UpTo(h, m, Base, base, step, down)
    PROVE  \A k \in Nat : k <= n /\ k <= m => g[k] = h[k]
<1> DEFINE G == {k \in Nat : k <= n /\ k <= m => g[k] = h[k]}
<1>1. ASSUME NEW k \in Nat, \A l \in Nat : l < k => l \in G
      PROVE  k \in G
  <2> SUFFICES ASSUME k <= n, k <= m PROVE g[k] = h[k]
    OBVIOUS
  <2>1. At(g, k, Base, base, step, down) /\ At(h, k, Base, base, step, down)
    BY DEF UpTo
  <2>2. k \notin Base => g[down[k]] = h[down[k]]
    BY <1>1
  <2> QED
    BY <2>1, <2>2 DEF At
<1>2. G = Nat
  BY <1>1, EveryNumber
<1> QED
  BY <1>2

\* ... so that it exists on all the numbers.
LEMMA Recursion ==
    ASSUME NEW Base \in SUBSET Nat, NEW V, NEW base \in [Base -> V],
           NEW step \in [Nat -> [V -> V]], NEW down \in [Nat -> Nat],
           \A n \in Nat \ Base : down[n] < n
    PROVE  \E f \in [Nat -> V] :
             \A n \in Nat : At(f, n, Base, base, step, down)
<1> DEFINE Good(g, n) == \A k \in 0..n : At(g, k, Base, base, step, down)
           U(n) == CHOOSE g \in [0..n -> V] : Good(g, n)
           f == [n \in Nat |-> U(n)[n]]
<1>1. \A n \in Nat : U(n) \in [0..n -> V] /\ Good(U(n), n)
  BY UpToExists
<1> HIDE DEF U
<1>2. \A n \in Nat, k \in Nat : k <= n => U(k)[k] = U(n)[k]
  <2> SUFFICES ASSUME NEW n \in Nat, NEW k \in Nat, k <= n
               PROVE  U(k)[k] = U(n)[k]
    OBVIOUS
  <2>1. UpTo(U(k), k, Base, base, step, down) /\ UpTo(U(n), n, Base, base, step, down)
    BY <1>1 DEF UpTo
  <2>2. \A x \in Nat \ Base : down[x] \in Nat /\ down[x] < x
    OBVIOUS
  <2>3. \A x \in Nat : x <= k /\ x <= n => U(k)[x] = U(n)[x]
    BY <2>1, <2>2, UpToUnique
  <2> QED
    BY <2>3
<1>3. f \in [Nat -> V]
  BY <1>1
<1>4. ASSUME NEW n \in Nat
      PROVE  At(f, n, Base, base, step, down)
  <2>1. At(U(n), n, Base, base, step, down)
    BY <1>1
  <2>2. n \notin Base => down[n] \in Nat /\ down[n] <= n
    OBVIOUS
  <2>3. f[n] = U(n)[n] /\ (n \notin Base => f[down[n]] = U(n)[down[n]])
    BY <1>2, <2>2
  <2> QED
    BY <2>1, <2>3 DEF At
<1> QED
  BY <1>3, <1>4
-----------------------------------------------------------------------------
(* The arcana.                                                             *)

\* The sum of the digits is such a function.
LEMMA DigitsIs ==
    /\ Digits \in [Nat -> Nat]
    /\ \A n \in Nat : Digits[n] = IF n < 10 THEN n ELSE (n % 10) + Digits[n \div 10]
<1> DEFINE Is(f) == f = [n \in Nat |-> IF n < 10 THEN n ELSE (n % 10) + f[n \div 10]]
           base == [n \in 0..9 |-> n]
           step == [n \in Nat |-> [v \in Nat |-> (n % 10) + v]]
           down == [n \in Nat |-> n \div 10]
<1>1. \A n \in Nat : n \div 10 \in Nat /\ n % 10 \in Nat /\ (n >= 10 => n \div 10 < n)
  BY SMT
<1>2. \E f \in [Nat -> Nat] : \A n \in Nat : At(f, n, 0..9, base, step, down)
  <2>1. base \in [0..9 -> Nat] /\ 0..9 \in SUBSET Nat
    OBVIOUS
  <2>2. step \in [Nat -> [Nat -> Nat]]
    BY <1>1
  <2>3. down \in [Nat -> Nat] /\ \A n \in Nat \ (0..9) : down[n] < n
    BY <1>1
  <2> HIDE DEF base, step, down
  <2> QED
    BY <2>1, <2>2, <2>3, Recursion
<1>3. PICK f \in [Nat -> Nat] : \A n \in Nat : At(f, n, 0..9, base, step, down)
  BY <1>2
<1>4. ASSUME NEW n \in Nat
      PROVE  f[n] = IF n < 10 THEN n ELSE (n % 10) + f[n \div 10]
  <2>1. At(f, n, 0..9, base, step, down)
    BY <1>3
  <2>2. f[n \div 10] \in Nat /\ n \div 10 \in Nat
    BY <1>1
  <2>3. down[n] = n \div 10 /\ (n < 10 => base[n] = n)
    OBVIOUS
  <2>4. step[n][f[n \div 10]] = (n % 10) + f[n \div 10]
    BY <2>2
  <2> HIDE DEF base, step, down
  <2> QED
    BY <2>1, <2>3, <2>4 DEF At
<1>5. Is(f)
  BY <1>4
<1>6. Is(CHOOSE g : Is(g))
  BY <1>5, Zenon
<1>7. Is(Digits)
  BY <1>6 DEF Digits
<1>8. \A n \in Nat : Digits[n] = IF n < 10 THEN n ELSE (n % 10) + Digits[n \div 10]
  BY <1>7
<1>9. ASSUME NEW n \in Nat, \A k \in Nat : k < n => k \in {x \in Nat : Digits[x] \in Nat}
      PROVE  n \in {x \in Nat : Digits[x] \in Nat}
  <2>1. n >= 10 => Digits[n \div 10] \in Nat
    BY <1>1, <1>9
  <2> QED
    BY <1>1, <1>8, <2>1
<1>10. {x \in Nat : Digits[x] \in Nat} = Nat
  BY <1>9, EveryNumber
<1>11. Digits \in [Nat -> Nat]
  <2>1. Digits = [n \in Nat |-> IF n < 10 THEN n ELSE (n % 10) + Digits[n \div 10]]
    BY <1>7
  <2>2. \A n \in Nat : Digits[n] \in Nat
    BY <1>10
  <2> QED
    BY <1>8, <2>1, <2>2
<1> QED
  BY <1>8, <1>11

\* It leaves the same rest by nine, and is smaller than a number of two digits
\* or more.
DigitsKeep(n) ==
    /\ Digits[n] \in Nat /\ Digits[n] % 9 = n % 9
    /\ n > 0 => Digits[n] > 0
    /\ Digits[n] <= n /\ (n >= 10 => Digits[n] < n)

LEMMA DigitsSum == \A n \in Nat : DigitsKeep(n)
<1>1. ASSUME NEW n \in Nat, \A k \in Nat : k < n => k \in {x \in Nat : DigitsKeep(x)}
      PROVE  n \in {x \in Nat : DigitsKeep(x)}
  <2>1. CASE n < 10
    <3>1. Digits[n] = n
      BY <2>1, DigitsIs
    <3> QED
      BY <2>1, <3>1 DEF DigitsKeep
  <2>2. CASE n >= 10
    <3>1. PICK q \in Nat, r \in 0..9 : q = n \div 10 /\ r = n % 10 /\ n = 10 * q + r /\ q > 0 /\ q < n
      BY <2>2, SMTT(30)
    <3>2. PICK s \in Nat : s = Digits[q] /\ s % 9 = q % 9 /\ s > 0 /\ s <= q
      BY <1>1, <3>1 DEF DigitsKeep
    <3>3. Digits[n] = r + s
      BY <2>2, <3>1, <3>2, DigitsIs
    <3>4. (r + s) % 9 = (10 * q + r) % 9
      <4>1. PICK a \in Int, b \in Int, c \in 0..8 : s = 9 * a + c /\ q = 9 * b + c
        BY <3>2, SMT
      <4>2. \A k \in Int, x \in Int : (9 * k + x) % 9 = x % 9
        BY SMT
      <4>3. r + s = 9 * a + (c + r) /\ 10 * q + r = 9 * (10 * b + c) + (c + r)
        BY <3>1, <4>1, SMT
      <4>4. a \in Int /\ 10 * b + c \in Int /\ c + r \in Int
        BY <3>1, <4>1, SMT
      <4> QED
        BY <4>2, <4>3, <4>4
    <3> QED
      BY <3>1, <3>2, <3>3, <3>4 DEF DigitsKeep
  <2> QED
    BY <2>1, <2>2
<1>2. {x \in Nat : DigitsKeep(x)} = Nat
  BY <1>1, EveryNumber
<1> QED
  BY <1>2

\* The reduction to at most 22 is such a function.
LEMMA ReducedIs ==
    \A n \in Nat : Reduced[n] = IF n > 22 THEN Reduced[Digits[n]] ELSE n
<1> DEFINE Is(f) == f = [n \in Nat |-> IF n > 22 THEN f[Digits[n]] ELSE n]
           base == [n \in 0..22 |-> n]
           step == [n \in Nat |-> [v \in Nat |-> v]]
<1>1. Digits \in [Nat -> Nat] /\ \A n \in Nat \ (0..22) : Digits[n] < n
  BY DigitsIs, DigitsSum DEF DigitsKeep
<1>2. PICK f \in [Nat -> Nat] : \A n \in Nat : At(f, n, 0..22, base, step, Digits)
  <2>1. base \in [0..22 -> Nat] /\ 0..22 \in SUBSET Nat /\ step \in [Nat -> [Nat -> Nat]]
    OBVIOUS
  <2> HIDE DEF base, step
  <2> QED
    BY <1>1, <2>1, Recursion
<1>3. ASSUME NEW n \in Nat
      PROVE  f[n] = IF n > 22 THEN f[Digits[n]] ELSE n
  <2>1. At(f, n, 0..22, base, step, Digits)
    BY <1>2
  <2>2. step[n][f[Digits[n]]] = f[Digits[n]] /\ (n <= 22 => base[n] = n)
    BY <1>1
  <2> HIDE DEF base, step
  <2> QED
    BY <2>1, <2>2 DEF At
<1>4. Is(f)
  BY <1>3
<1>5. Is(CHOOSE g : Is(g))
  BY <1>4, Zenon
<1> QED
  BY <1>5 DEF Reduced

\* It keeps the rest by nine, and is 0 of 0 alone.
ReducedKeeps(n) ==
    Reduced[n] \in 0..22 /\ Reduced[n] % 9 = n % 9 /\ (n > 0 => Reduced[n] > 0)

LEMMA ReducedKept == \A n \in Nat : ReducedKeeps(n)
<1>1. ASSUME NEW n \in Nat, \A k \in Nat : k < n => k \in {x \in Nat : ReducedKeeps(x)}
      PROVE  n \in {x \in Nat : ReducedKeeps(x)}
  <2>1. CASE n > 22
    <3>1. Digits[n] \in Nat /\ Digits[n] < n /\ Digits[n] > 0 /\ Digits[n] % 9 = n % 9
      BY <2>1, DigitsSum DEF DigitsKeep
    <3> QED
      BY <1>1, <2>1, <3>1, ReducedIs DEF ReducedKeeps
  <2>2. CASE ~(n > 22)
    BY <2>2, ReducedIs DEF ReducedKeeps
  <2> QED
    BY <2>1, <2>2
<1>2. {x \in Nat : ReducedKeeps(x)} = Nat
  BY <1>1, EveryNumber
<1> QED
  BY <1>2

\* The chain of reductions is such a function as well.
LEMMA ReductionsAre ==
    \A n \in Nat : /\ n > 22 => Reductions[n] = <<n>> \o Reductions[Digits[n]]
                   /\ n = 0 => Reductions[n] = <<0, 22>>
                   /\ n \in 1..22 => Reductions[n] = <<n>>
<1> DEFINE Is(f) == f = [n \in Nat |-> CASE n > 22 -> <<n>> \o f[Digits[n]]
                                         [] n = 0  -> <<0, 22>>
                                         [] OTHER  -> <<n>>]
           V == Seq(Nat)
           base == [n \in 0..22 |-> IF n = 0 THEN <<0, 22>> ELSE <<n>>]
           step == [n \in Nat |-> [v \in V |-> <<n>> \o v]]
<1>1. Digits \in [Nat -> Nat] /\ \A n \in Nat \ (0..22) : Digits[n] < n
  BY DigitsIs, DigitsSum DEF DigitsKeep
<1>2. \A n \in Nat, v \in V : <<n>> \in V /\ <<0, 22>> \in V /\ <<n>> \o v \in V
  OBVIOUS
<1>3. base \in [0..22 -> V] /\ 0..22 \in SUBSET Nat /\ step \in [Nat -> [V -> V]]
  <2> HIDE DEF V
  <2>1. \A n \in 0..22 : base[n] \in V
    <3>1. \A n \in 0..22 : <<n>> \in V /\ <<0, 22>> \in V
      <4>1. \A n \in 0..22 : n \in Nat
        OBVIOUS
      <4>2. <<>> \in V
        BY DEF V
      <4> QED
        BY <1>2, <4>1, <4>2, Zenon
    <3> QED
      BY <3>1
  <2>2. \A n \in Nat : [v \in V |-> <<n>> \o v] \in [V -> V]
    BY <1>2
  <2> QED
    BY <2>1, <2>2
<1>4. PICK f \in [Nat -> V] : \A n \in Nat : At(f, n, 0..22, base, step, Digits)
  <2> HIDE DEF base, step, V
  <2> QED
    BY <1>1, <1>3, Recursion
<1>5. ASSUME NEW n \in Nat
      PROVE  f[n] = CASE n > 22 -> <<n>> \o f[Digits[n]]
                      [] n = 0  -> <<0, 22>>
                      [] OTHER  -> <<n>>
  <2>1. At(f, n, 0..22, base, step, Digits)
    BY <1>4
  <2>2. f[Digits[n]] \in V
    BY <1>1, <1>4
  <2>3. step[n][f[Digits[n]]] = <<n>> \o f[Digits[n]]
    <3> HIDE DEF V
    <3> QED
      BY <2>2
  <2>4. n <= 22 => base[n] = IF n = 0 THEN <<0, 22>> ELSE <<n>>
    <3>1. n <= 22 => n \in 0..22
      OBVIOUS
    <3> QED
      BY <3>1, Zenon
  <2> HIDE DEF base, step, V
  <2>5. CASE n > 22
    <3>1. f[n] = <<n>> \o f[Digits[n]]
      BY <2>1, <2>3, <2>5 DEF At
    <3> QED
      BY <2>5, <3>1
  <2>6. CASE ~(n > 22)
    <3>1. f[n] = IF n = 0 THEN <<0, 22>> ELSE <<n>>
      BY <2>1, <2>4, <2>6 DEF At
    <3> QED
      BY <2>6, <3>1
  <2> QED
    BY <2>5, <2>6
<1>6. Is(f)
  <2> HIDE DEF base, step
  <2>1. f = [n \in Nat |-> f[n]]
    BY <1>4
  <2> QED
    BY <1>5, <2>1
<1>7. Is(CHOOSE g : Is(g))
  BY <1>6, Zenon
<1> HIDE DEF V
<1>8. Is(Reductions)
  BY <1>7 DEF Reductions
<1>9. \A n \in Nat : Reductions[n] = CASE n > 22 -> <<n>> \o Reductions[Digits[n]]
                                         [] n = 0  -> <<0, 22>>
                                         [] OTHER  -> <<n>>
  BY <1>8
<1> HIDE DEF Is, base, step
<1>10. ASSUME NEW n \in Nat, n > 22 PROVE Reductions[n] = <<n>> \o Reductions[Digits[n]]
  <2>1. ~(n = 0)
    BY <1>10
  <2> DEFINE r == <<n>> \o Reductions[Digits[n]]
  <2>2. Reductions[n] = CASE n > 22 -> r
                          [] n = 0  -> <<0, 22>>
                          [] OTHER  -> <<n>>
    BY <1>9, Zenon
  <2> HIDE DEF r
  <2>3. Reductions[n] = r
    BY <1>10, <2>1, <2>2
  <2> QED
    BY <2>3 DEF r
<1>11. Reductions[0] = <<0, 22>>
  <2>1. ~(0 > 22)
    OBVIOUS
  <2> QED
    BY <1>9, <2>1
<1>12. ASSUME NEW n \in 1..22 PROVE Reductions[n] = <<n>>
  <2>1. n \in Nat /\ ~(n > 22) /\ ~(n = 0)
    OBVIOUS
  <2> QED
    BY <1>9, <2>1
<1> QED
  BY <1>10, <1>11, <1>12

\* It ends in the arcana.
ChainEnds(n) ==
    /\ Reductions[n] \in Seq(Nat) /\ Reductions[n] # <<>>
    /\ Last(Reductions[n]) = IF Reduced[n] = 0 THEN 22 ELSE Reduced[n]

LEMMA ChainEnd == \A n \in Nat : ChainEnds(n)
<1>1. ASSUME NEW n \in Nat, \A k \in Nat : k < n => k \in {x \in Nat : ChainEnds(x)}
      PROVE  n \in {x \in Nat : ChainEnds(x)}
  <2>1. CASE n > 22
    <3>1. PICK k \in Nat : k = Digits[n] /\ k < n
      BY <2>1, DigitsSum DEF DigitsKeep
    <3>2. ChainEnds(k)
      BY <1>1, <3>1
    <3>3. PICK s \in Seq(Nat) : s = Reductions[k] /\ Len(s) > 0
      BY <3>2 DEF ChainEnds
    <3>4. Reductions[n] = <<n>> \o s
      BY <2>1, <3>1, <3>3, ReductionsAre
    <3>5. /\ <<n>> \o s \in Seq(Nat) /\ Len(<<n>> \o s) = Len(s) + 1
          /\ (<<n>> \o s)[Len(s) + 1] = s[Len(s)]
      BY <3>3
    <3>6. Last(Reductions[n]) = Last(Reductions[k])
      BY <3>3, <3>4, <3>5 DEF Last
    <3>7. Reduced[n] = Reduced[k]
      BY <2>1, <3>1, ReducedIs
    <3>8. Reductions[n] # <<>>
      BY <3>3, <3>4, <3>5
    <3> QED
      BY <3>2, <3>4, <3>5, <3>6, <3>7, <3>8 DEF ChainEnds
  <2>2. CASE n = 0
    <3>0. Reductions[n] = <<0, 22>>
      BY <2>2, ReductionsAre
    <3>1. Reductions[n] = <<0, 22>> /\ Reduced[n] = 0
      BY <2>2, <3>0, ReducedIs
    <3>2. <<0, 22>> \in Seq(Nat) /\ Len(<<0, 22>>) = 2 /\ <<0, 22>>[2] = 22
      OBVIOUS
    <3>3. <<0, 22>> # <<>> /\ Last(<<0, 22>>) = 22
      BY <3>2 DEF Last
    <3> QED
      BY <3>1, <3>2, <3>3 DEF ChainEnds
  <2>3. CASE n > 0 /\ ~(n > 22)
    <3>1. Reductions[n] = <<n>>
      <4>1. n \in 1..22
        BY <2>3
      <4> QED
        BY <4>1, ReductionsAre, Zenon
    <3>2. Reduced[n] = n /\ n # 0
      BY <2>3, ReducedIs
    <3>3. <<n>> \in Seq(Nat) /\ <<n>> # <<>> /\ Last(<<n>>) = n
      BY DEF Last
    <3> QED
      BY <3>1, <3>2, <3>3 DEF ChainEnds
  <2> QED
    BY <2>1, <2>2, <2>3
<1>2. {x \in Nat : ChainEnds(x)} = Nat
  BY <1>1, EveryNumber
<1> QED
  BY <1>2

\* The arcana of every number.
LEMMA ArcanaOfSum ==
    ASSUME NEW sum \in Nat
    PROVE  ArcanaOf(sum, reduceToArcana(sum))
<1>1. Reduced[sum] \in 0..22 /\ Reduced[sum] % 9 = sum % 9 /\ (sum > 0 => Reduced[sum] > 0)
  BY ReducedKept DEF ReducedKeeps
<1>2. Last(Reductions[sum]) = IF Reduced[sum] = 0 THEN 22 ELSE Reduced[sum]
  BY ChainEnd DEF ChainEnds
<1> QED
  BY <1>1, <1>2 DEF ArcanaOf, reduceToArcana, explainReduction

\* The sum of a name's letters.
LEMMA NameSums ==
    ASSUME NEW name \in Seq(0..26)
    PROVE  NameSum(name) \in Nat /\ (name = <<>> => NameSum(name) = 0)
<1> DEFINE n == Len(name)
           L(i) == getLetterValue(name[i])
           Is(f) == f = [i \in 0..n |-> IF i = 0 THEN 0 ELSE f[i - 1] + L(i)]
           base == [i \in {0} |-> 0]
           step == [i \in Nat |-> [v \in Nat |-> IF i \in 1..n THEN v + L(i) ELSE v]]
           down == [i \in Nat |-> IF i = 0 THEN 0 ELSE i - 1]
<1>0. n \in Nat
  OBVIOUS
<1>1. \A i \in 1..n : L(i) \in Nat
  <2>1. \A letter \in 0..26 : getLetterValue(letter) \in Nat
    BY SMT DEF getLetterValue
  <2>2. \A i \in 1..n : name[i] \in 0..26
    BY ElementOfSeq DEF n
  <2> QED
    BY <2>1, <2>2
<1> HIDE DEF L, n
<1>2. PICK g \in [Nat -> Nat] : \A i \in Nat : At(g, i, {0}, base, step, down)
  <2>1. base \in [{0} -> Nat] /\ {0} \in SUBSET Nat
    OBVIOUS
  <2>2. step \in [Nat -> [Nat -> Nat]]
    BY <1>1
  <2>3. down \in [Nat -> Nat] /\ \A i \in Nat \ {0} : down[i] < i
    OBVIOUS
  <2> HIDE DEF base, step, down
  <2> QED
    BY <2>1, <2>2, <2>3, Recursion
<1> DEFINE f == [i \in 0..n |-> g[i]]
<1>3. ASSUME NEW i \in 0..n
      PROVE  g[i] = IF i = 0 THEN 0 ELSE g[i - 1] + L(i)
  <2>1. At(g, i, {0}, base, step, down)
    <3>1. i \in Nat
      BY <1>0
    <3> HIDE DEF base, step, down
    <3> QED
      BY <1>2, <3>1
  <2>2. CASE i = 0
    BY <2>1, <2>2 DEF At
  <2>3. CASE i # 0
    <3>1. i \in 1..n /\ i - 1 \in Nat /\ i \in Nat
      BY <1>0, <2>3
    <3>2. down[i] = i - 1 /\ g[i - 1] \in Nat
      BY <2>3, <3>1
    <3>3. step[i][g[i - 1]] = g[i - 1] + L(i)
      BY <3>1, <3>2
    <3> HIDE DEF base, step, down
    <3> QED
      BY <2>1, <2>3, <3>2, <3>3 DEF At
  <2> QED
    BY <2>2, <2>3
<1>4. Is(f)
  <2>1. \A i \in 0..n : i # 0 => i - 1 \in 0..n
    BY <1>0
  <2> QED
    BY <1>3, <2>1
<1>5. Is(CHOOSE h : Is(h))
  BY <1>4, Zenon
<1> DEFINE U == CHOOSE h : Is(h)
<1>6. NameSum(name) = U[n]
  BY DEF NameSum, L, n
<1> HIDE DEF U
<1>7. \A i \in 0..n : U[i] = IF i = 0 THEN 0 ELSE U[i - 1] + L(i)
  <2>1. U = [i \in 0..n |-> IF i = 0 THEN 0 ELSE U[i - 1] + L(i)]
    BY <1>5 DEF U
  <2> QED
    BY <2>1
<1> DEFINE G == {i \in Nat : i <= n => U[i] \in Nat}
<1>8. ASSUME NEW i \in Nat, \A k \in Nat : k < i => k \in G
      PROVE  i \in G
  <2>1. i # 0 => i - 1 \in Nat /\ i - 1 < i
    OBVIOUS
  <2> SUFFICES ASSUME i <= n PROVE U[i] \in Nat
    OBVIOUS
  <2>2. CASE i = 0
    BY <1>0, <1>7, <2>2
  <2>3. CASE i # 0
    <3>1. U[i - 1] \in Nat /\ i \in 1..n /\ U[i] = U[i - 1] + L(i)
      BY <1>0, <1>7, <1>8, <2>1, <2>3
    <3>2. L(i) \in Nat
      BY <1>1, <3>1
    <3>3. \A u \in Nat, l \in Nat : u + l \in Nat
      OBVIOUS
    <3> QED
      BY <3>1, <3>2, <3>3, Zenon
  <2> QED
    BY <2>2, <2>3
<1>9. G = Nat
  BY <1>8, EveryNumber
<1>10. U[n] \in Nat
  <2>1. n \in G
    BY <1>0, <1>9
  <2>2. n <= n
    BY <1>0
  <2> QED
    BY <2>1, <2>2, Zenon
<1>11. name = <<>> => n = 0
  BY DEF n
<1> QED
  BY <1>0, <1>6, <1>7, <1>10, <1>11

\* The arcana of the day and of every name.
LEMMA ArcanaOfDay ==
    ASSUME Civil(date)
    PROVE  ArcanaKept
<1>1. DateSum(date) \in Nat
  <2>1. date.year \in Nat /\ date.month \in Nat /\ date.day \in Nat
    BY DEF Civil
  <2> QED
    BY <2>1, DigitsIs DEF DateSum
<1>2. ArcanaOf(DateSum(date), calculateArcanaByDate(date))
  BY <1>1, ArcanaOfSum DEF calculateArcanaByDate
<1>3. ASSUME NEW name \in Names
      PROVE  /\ ArcanaOf(NameSum(name), calculateArcanaByName(name))
             /\ name # <<>> => ArcanaOf(DateSum(date) + NameSum(name),
                                        calculatePersonalArcana(date, name))
  <2>1. NameSum(name) \in Nat /\ (name = <<>> => NameSum(name) = 0)
    BY NamesAssumption, NameSums
  <2>2. ArcanaOf(NameSum(name), reduceToArcana(NameSum(name)))
    BY <2>1, ArcanaOfSum
  <2>3. DateSum(date) + NameSum(name) \in Nat
    BY <1>1, <2>1
  <2>4. ArcanaOf(DateSum(date) + NameSum(name), reduceToArcana(DateSum(date) + NameSum(name)))
    BY <2>3, ArcanaOfSum
  <2>5. reduceToArcana(0) = 22
    BY ReducedIs DEF reduceToArcana
  <2>6. ArcanaOf(NameSum(name), calculateArcanaByName(name))
    BY <2>1, <2>2, <2>5 DEF calculateArcanaByName
  <2> QED
    BY <2>4, <2>6 DEF calculatePersonalArcana
<1> QED
  BY <1>2, <1>3 DEF ArcanaKept
-----------------------------------------------------------------------------
(* The templates.                                                          *)

\* What an answer owes to its sign.
Answers(sign, text, system) ==
    /\ sign \in SeededSigns
    /\ text # NoTemplate
    /\ text.signId = sign.signId
    /\ text.element = sign.element
    /\ text.luckyNumber \in 1..99
    /\ text.compatibility # text.signId
    /\ text.compatibility \in SeededIds[system]

\* A sign as the code names it.
Signed(system, id, element) == [type |-> system, signId |-> id, element |-> element]

\* What a template holds, and that none is the missing one.
Holds(t, id, element, number, other) ==
    /\ t.signId = id /\ t.element = element
    /\ t.luckyNumber = number /\ t.compatibility = other
    /\ t # NoTemplate

LEMMA TemplateHolds ==
    ASSUME NEW id, NEW element, NEW number \in 1..99, NEW other
    PROVE  Holds(Template(id, element, number, other), id, element, number, other)
<1>1. Template(id, element, number, other).luckyNumber = number
  BY DEF Template
<1>2. NoTemplate.luckyNumber = 0
  BY DEF NoTemplate, Template
<1> QED
  BY <1>1, <1>2 DEF Holds, Template

\* A sign of a system is written by the seed under its identifier.
LEMMA SeededId ==
    ASSUME NEW sign \in SeededSigns, sign.type \in Systems
    PROVE  sign.signId \in SeededIds[sign.type]
<1>1. sign \in {r \in SeededSigns : r.type = sign.type}
  OBVIOUS
<1>2. SeededIds[sign.type] = {s.signId : s \in {r \in SeededSigns : r.type = sign.type}}
  BY DEF SeededIds
<1> QED
  BY <1>1, <1>2

\* Western: the template of the sign's name, whatever entry is found.
LEMMA WesternAnswers ==
    ASSUME NEW i \in DOMAIN WESTERN_SIGNS
    PROVE  LET sign == Signed("western", WESTERN_SIGNS[i].id, NONE)
           IN  Answers(sign, buildFallbackFor(sign), "western")
<1> DEFINE sign == Signed("western", WESTERN_SIGNS[i].id, NONE)
           found == {k \in DOMAIN WESTERN_SIGNS : WESTERN_SIGNS[k].id = sign.signId}
           k == CHOOSE k \in found : TRUE
           next == (k % 12) + 1
           text == buildWesternFallback(k)
<1>1. sign.type = "western" /\ sign.signId = WESTERN_SIGNS[i].id /\ sign.element = NONE
  BY DEF Signed
<1>2. i \in found
  BY <1>1
<1>3. k \in found
  BY <1>2
<1>4. DOMAIN WESTERN_SIGNS = 1..12
  BY DEF WESTERN_SIGNS
<1>5. k \in 1..12 /\ WESTERN_SIGNS[k].id = sign.signId
  BY <1>3, <1>4
<1>6. buildFallbackFor(sign) = text
  BY <1>1, <1>2 DEF buildFallbackFor
<1>7. \A x \in 1..12 : Signed("western", WESTERN_SIGNS[x].id, NONE) \in SeededSigns
  BY <1>4 DEF SeededSigns, Signed
<1>8. next \in 1..12 /\ next # k /\ (((k - 1) * 7 + 3) % 99) + 1 \in 1..99
  <2>1. \A x \in 1..12 : /\ (x % 12) + 1 \in 1..12 /\ (x % 12) + 1 # x
                        /\ (((x - 1) * 7 + 3) % 99) + 1 \in 1..99
    BY SMT
  <2> HIDE DEF k
  <2> QED
    BY <1>5, <2>1
<1> HIDE DEF k, found, sign
<1>9. WESTERN_SIGNS[next].id # WESTERN_SIGNS[k].id
  <2>1. \A x, y \in 1..12 : WESTERN_SIGNS[x].id = WESTERN_SIGNS[y].id => x = y
    BY SMTT(60) DEF WESTERN_SIGNS, Sign
  <2> QED
    BY <1>5, <1>8, <2>1
<1>10. text = Template(WESTERN_SIGNS[k].id, NONE, (((k - 1) * 7 + 3) % 99) + 1, WESTERN_SIGNS[next].id)
  BY DEF buildWesternFallback
<1>11. WESTERN_SIGNS[next].id \in SeededIds["western"]
  <2>1. Signed("western", WESTERN_SIGNS[next].id, NONE) \in SeededSigns
    BY <1>7, <1>8
  <2>2. /\ Signed("western", WESTERN_SIGNS[next].id, NONE).type = "western"
        /\ Signed("western", WESTERN_SIGNS[next].id, NONE).signId = WESTERN_SIGNS[next].id
    BY DEF Signed
  <2>3. "western" \in Systems
    BY DEF Systems
  <2> QED
    BY <2>1, <2>2, <2>3, SeededId
<1>12. sign \in SeededSigns
  BY <1>4, <1>7 DEF sign
<1> HIDE DEF next, text
<1>13. /\ text.signId = WESTERN_SIGNS[k].id /\ text.element = NONE
       /\ text.luckyNumber \in 1..99 /\ text.compatibility = WESTERN_SIGNS[next].id
       /\ text # NoTemplate
  <2>1. PICK n \in 1..99 : text = Template(WESTERN_SIGNS[k].id, NONE, n, WESTERN_SIGNS[next].id)
    BY <1>8, <1>10
  <2>2. Holds(text, WESTERN_SIGNS[k].id, NONE, n, WESTERN_SIGNS[next].id)
    BY <2>1, TemplateHolds
  <2> QED
    BY <2>2 DEF Holds
<1>14. Answers(sign, text, "western")
  BY <1>1, <1>5, <1>9, <1>11, <1>12, <1>13 DEF Answers
<1> QED
  BY <1>6, <1>14 DEF sign

\* Maya: kins are told apart by how they are written.
LEMMA MayaAnswers ==
    ASSUME NEW i \in 1..260
    PROVE  LET sign == Signed("maya", KinIds[i], NONE)
           IN  Answers(sign, buildFallbackFor(sign), "maya")
<1> DEFINE sign == Signed("maya", KinIds[i], NONE)
           found == {k \in DOMAIN KinIds : KinIds[k] = sign.signId}
           k == CHOOSE k \in found : TRUE
           next == ((k + 64) % MAYAN_KIN_COUNT) + 1
           text == buildMayaFallback(k)
<1>1. sign.type = "maya" /\ sign.signId = KinIds[i] /\ sign.element = NONE
  BY DEF Signed
<1>2. DOMAIN KinIds = 1..260
  BY DEF KinIds
<1>3. i \in found
  BY <1>1, <1>2
<1>4. k \in found
  BY <1>3
<1>5. k \in 1..260 /\ KinIds[k] = sign.signId
  BY <1>2, <1>4
<1>6. buildFallbackFor(sign) = text
  BY <1>1, <1>3 DEF buildFallbackFor
<1>7. \A x \in 1..260 : Signed("maya", KinIds[x], NONE) \in SeededSigns
  BY DEF SeededSigns, Signed, MAYAN_KIN_COUNT
<1>8. next \in 1..260 /\ next # k /\ ((k * 13 + 1) % 99) + 1 \in 1..99
  <2>1. \A x \in 1..260 : /\ ((x + 64) % 260) + 1 \in 1..260 /\ ((x + 64) % 260) + 1 # x
                         /\ ((x * 13 + 1) % 99) + 1 \in 1..99
    BY SMT
  <2> HIDE DEF k
  <2> QED
    BY <1>5, <2>1 DEF MAYAN_KIN_COUNT
<1> HIDE DEF k, found, sign, next
<1>9. KinIds[next] # KinIds[k]
  BY <1>5, <1>8, KinIdsAssumption
<1>10. text = Template(KinIds[k], NONE, ((k * 13 + 1) % 99) + 1, KinIds[next])
  BY DEF buildMayaFallback, next
<1>11. KinIds[next] \in SeededIds["maya"]
  <2>1. Signed("maya", KinIds[next], NONE) \in SeededSigns
    BY <1>7, <1>8
  <2>2. /\ Signed("maya", KinIds[next], NONE).type = "maya"
        /\ Signed("maya", KinIds[next], NONE).signId = KinIds[next]
    BY DEF Signed
  <2>3. "maya" \in Systems
    BY DEF Systems
  <2> QED
    BY <2>1, <2>2, <2>3, SeededId
<1>12. sign \in SeededSigns
  BY <1>7 DEF sign
<1> HIDE DEF text
<1>13. /\ text.signId = KinIds[k] /\ text.element = NONE
       /\ text.luckyNumber \in 1..99 /\ text.compatibility = KinIds[next]
       /\ text # NoTemplate
  <2>1. PICK n \in 1..99 : text = Template(KinIds[k], NONE, n, KinIds[next])
    BY <1>8, <1>10
  <2>2. Holds(text, KinIds[k], NONE, n, KinIds[next])
    BY <2>1, TemplateHolds
  <2> QED
    BY <2>2 DEF Holds
<1>14. Answers(sign, text, "maya")
  BY <1>1, <1>5, <1>9, <1>11, <1>12, <1>13 DEF Answers
<1> QED
  BY <1>6, <1>14 DEF sign

\* Chinese: the least pair of the sixty that has the animal and the element.
LEMMA ChineseAnswers ==
    ASSUME NEW y \in 0..59
    PROVE  LET sign == Signed("chinese", CHINESE_COMBOS[y].animalId, CHINESE_COMBOS[y].element)
           IN  Answers(sign, buildFallbackFor(sign), "chinese")
<1> DEFINE sign == Signed("chinese", CHINESE_COMBOS[y].animalId, CHINESE_COMBOS[y].element)
           found == CombosOf(sign)
           k == CHOOSE k \in found : \A z \in found : k <= z
           next == (k + 1) % 60
           text == buildChineseFallback(k)
<1>1. /\ sign.type = "chinese" /\ sign.signId = CHINESE_COMBOS[y].animalId
      /\ sign.element = CHINESE_COMBOS[y].element
  BY DEF Signed
<1>2. \A x \in 0..59 : CHINESE_COMBOS[x].element # NONE
  <2> DEFINE E == <<"madeira", "fogo", "terra", "metal", "agua">>
             I(x) == (((1984 + x - 4) % 10) \div 2) + 1
  <2>1. \A x \in 0..59 : I(x) \in 1..5
    BY SMT
  <2>2. \A n \in 1..5 : E[n] # "none"
    OBVIOUS
  <2>3. \A x \in 0..59 : CHINESE_COMBOS[x].element = E[I(x)]
    BY DEF CHINESE_COMBOS, chineseYearElement
  <2> HIDE DEF E, I
  <2> QED
    BY <2>1, <2>2, <2>3, Zenon DEF NONE
<1>3. y \in found /\ found \subseteq 0..59
  BY <1>1 DEF CombosOf
<1>4. \E m \in found : \A z \in found : m <= z
  <2> DEFINE G == {n \in Nat : n \notin found}
  <2>1. ASSUME \A m \in found : \E z \in found : ~(m <= z)
        PROVE  FALSE
    <3>1. ASSUME NEW n \in Nat, \A m \in Nat : m < n => m \in G
          PROVE  n \in G
      <4>1. CASE n \in found
        <5>1. PICK z \in found : ~(n <= z)
          BY <2>1, <4>1
        <5>2. z \in Nat /\ z < n
          BY <1>3, <5>1
        <5> QED
          BY <3>1, <5>1, <5>2
      <4> QED
        BY <4>1
    <3>2. G = Nat
      <4>1. G \in SUBSET Nat
        OBVIOUS
      <4> HIDE DEF G
      <4> QED
        BY <3>1, <4>1, EveryNumber
    <3>3. y \in Nat
      OBVIOUS
    <3> QED
      BY <1>3, <3>2, <3>3
  <2> QED
    BY <2>1
<1>5. k \in found
  BY <1>4
<1>6. k \in 0..59 /\ CHINESE_COMBOS[k].animalId = sign.signId /\ CHINESE_COMBOS[k].element = sign.element
  BY <1>1, <1>2, <1>5 DEF CombosOf
<1>7. buildFallbackFor(sign) = text
  BY <1>1, <1>3 DEF buildFallbackFor
<1>8. \A x \in 0..59 : Signed("chinese", CHINESE_COMBOS[x].animalId, CHINESE_COMBOS[x].element) \in SeededSigns
  BY DEF SeededSigns, Signed
<1> HIDE DEF k, found, sign
<1>9. \A x \in 0..59 : CHINESE_COMBOS[x].animalId = CHINESE_ANIMALS[(x % 12) + 1]
  BY DEF CHINESE_COMBOS
<1>10. /\ next \in 0..59 /\ next % 12 = (k + 1) % 12 /\ k % 60 = k
       /\ (k % 12) + 1 \in 1..12 /\ ((k + 1) % 12) + 1 \in 1..12
       /\ ((k + 1) % 12) + 1 # (k % 12) + 1
       /\ ((k * 7 + 5) % 99) + 1 \in 1..99
  BY <1>6, SMTT(30)
<1>11. CHINESE_ANIMALS[((k + 1) % 12) + 1] # CHINESE_ANIMALS[(k % 12) + 1]
  <2>1. \A a, b \in 1..12 : CHINESE_ANIMALS[a] = CHINESE_ANIMALS[b] => a = b
    BY SMTT(60) DEF CHINESE_ANIMALS
  <2> QED
    BY <1>10, <2>1
<1>12. text = Template(CHINESE_ANIMALS[(k % 12) + 1], CHINESE_COMBOS[k].element,
                       ((k * 7 + 5) % 99) + 1, CHINESE_ANIMALS[((k + 1) % 12) + 1])
  BY <1>10 DEF buildChineseFallback
<1>13. CHINESE_ANIMALS[((k + 1) % 12) + 1] \in SeededIds["chinese"]
  <2> DEFINE other == Signed("chinese", CHINESE_COMBOS[next].animalId, CHINESE_COMBOS[next].element)
  <2>1. other \in SeededSigns
    BY <1>8, <1>10
  <2>2. other.type = "chinese" /\ other.signId = CHINESE_ANIMALS[((k + 1) % 12) + 1]
    BY <1>9, <1>10 DEF Signed
  <2>3. "chinese" \in Systems
    BY DEF Systems
  <2> HIDE DEF other
  <2> QED
    BY <2>1, <2>2, <2>3, SeededId
<1>14. sign \in SeededSigns
  BY <1>8 DEF sign
<1> HIDE DEF next, text
<1>15. /\ text.signId = CHINESE_ANIMALS[(k % 12) + 1] /\ text.element = CHINESE_COMBOS[k].element
       /\ text.luckyNumber \in 1..99 /\ text.compatibility = CHINESE_ANIMALS[((k + 1) % 12) + 1]
       /\ text # NoTemplate
  <2>1. PICK n \in 1..99 : text = Template(CHINESE_ANIMALS[(k % 12) + 1], CHINESE_COMBOS[k].element,
                                           n, CHINESE_ANIMALS[((k + 1) % 12) + 1])
    BY <1>10, <1>12
  <2>2. Holds(text, CHINESE_ANIMALS[(k % 12) + 1], CHINESE_COMBOS[k].element,
              n, CHINESE_ANIMALS[((k + 1) % 12) + 1])
    BY <2>1, TemplateHolds
  <2> QED
    BY <2>2 DEF Holds
<1>16. Answers(sign, text, "chinese")
  BY <1>6, <1>9, <1>11, <1>13, <1>14, <1>15 DEF Answers
<1> QED
  BY <1>7, <1>16 DEF sign

\* The rows of a day's answer are the ones the seed wrote, under the day.
LEMMA RowsOfDay ==
    ASSUME NEW system, NEW user, NEW period \in Periods
    PROVE  LET row == resolveSystem(system, user, date).rows[period]
           IN  row.key \in fallbackDates(date)[period] /\ row.date = date
<1>1. /\ resolveSystem(system, user, date).rows[period].key = periodRowKey(period, date)
      /\ resolveSystem(system, user, date).rows[period].date
           = contentDateFor(periodRowKey(period, date), date)
  BY DEF resolveSystem
<1>2. periodRowKey(period, date) \in fallbackDates(date)[period]
  BY DEF periodRowKey, fallbackDates, Periods
<1>3. contentDateFor(periodRowKey(period, date), date) = date
  <2>1. CASE period = "daily"
    BY <2>1 DEF periodRowKey, contentDateFor
  <2>2. CASE period = "weekly"
    <3>1. DOMAIN periodRowKey(period, date) = {"year", "week"}
      BY <2>2 DEF periodRowKey, isoWeekFromFlat
    <3> QED
      BY <3>1 DEF contentDateFor
  <2>3. CASE period = "monthly"
    <3>1. DOMAIN periodRowKey(period, date) = {"year", "month"}
      BY <2>3 DEF periodRowKey
    <3> QED
      BY <3>1 DEF contentDateFor
  <2> QED
    BY <2>1, <2>2, <2>3 DEF Periods
<1> QED
  BY <1>1, <1>2, <1>3

\* Whoever was born on a civil date gets an answer.
LEMMA TemplatesOfDay ==
    ASSUME Civil(date)
    PROVE  EverySignHasTemplate
<1> DEFINE user == [birthDate |-> date, astrologicalSign |-> NONE]
<1>1. user.birthDate = date /\ user.birthDate # NoDay
  BY DEF Civil, NoDay, Day
<1>2. Answers(resolveUserSign("western", user), buildFallbackFor(resolveUserSign("western", user)), "western")
  <2>1. resolveUserSign("western", user) = Signed("western", WESTERN_SIGNS[getWesternSign(date)].id, NONE)
    BY <1>1 DEF resolveUserSign, Signed
  <2>2. getWesternSign(date) \in DOMAIN WESTERN_SIGNS
    BY SignsOfCivil DEF WESTERN_SIGNS
  <2> QED
    BY <2>1, <2>2, WesternAnswers
<1>3. Answers(resolveUserSign("chinese", user), buildFallbackFor(resolveUserSign("chinese", user)), "chinese")
  <2>1. resolveUserSign("chinese", user)
          = Signed("chinese", getChineseZodiac(date).animal, getChineseZodiac(date).element)
    BY <1>1 DEF resolveUserSign, Signed
  <2>2. PICK z \in Nat : z = ZodiacYear(date) /\ getChineseZodiac(date) = ZodiacOf(z)
    BY ZodiacOfDay
  <2>3. (z - 1984) % 60 \in 0..59
    BY SMT
  <2>4. CHINESE_COMBOS[(z - 1984) % 60]
          = [animalId |-> CHINESE_ANIMALS[((z - 1984) % 12) + 1], element |-> chineseYearElement(z)]
    BY PairOfYear
  <2>5. /\ CHINESE_COMBOS[(z - 1984) % 60].animalId = getChineseZodiac(date).animal
        /\ CHINESE_COMBOS[(z - 1984) % 60].element = getChineseZodiac(date).element
    BY <2>2, <2>4 DEF ZodiacOf
  <2>6. PICK y \in 0..59 : y = (z - 1984) % 60
    BY <2>3
  <2>7. resolveUserSign("chinese", user)
          = Signed("chinese", CHINESE_COMBOS[y].animalId, CHINESE_COMBOS[y].element)
    BY <2>1, <2>5, <2>6
  <2> QED
    BY <2>7, ChineseAnswers
<1>4. Answers(resolveUserSign("maya", user), buildFallbackFor(resolveUserSign("maya", user)), "maya")
  <2>1. resolveUserSign("maya", user) = Signed("maya", KinIds[calculateKinMaya(date)], NONE)
    BY <1>1 DEF resolveUserSign, Signed
  <2>2. calculateKinMaya(date) \in 1..260
    <3>1. gregorianToJdn(date) - GMT_CORRELATION_JDN \in Int
      BY JdnInt DEF GMT_CORRELATION_JDN
    <3> QED
      BY <3>1, KinSplits DEF calculateKinMaya, gregorianToMayanLongCount
  <2> QED
    BY <2>1, <2>2, MayaAnswers
<1>5. \A system \in Systems :
        /\ resolveSystem(system, user, date).sign = resolveUserSign(system, user)
        /\ resolveSystem(system, user, date).content = buildFallbackFor(resolveUserSign(system, user))
  BY DEF resolveSystem
<1>6. \A system \in Systems :
        Answers(resolveUserSign(system, user), buildFallbackFor(resolveUserSign(system, user)), system)
  BY <1>2, <1>3, <1>4 DEF Systems
<1>7. \A system \in Systems, period \in Periods :
        /\ resolveSystem(system, user, date).rows[period].key \in fallbackDates(date)[period]
        /\ resolveSystem(system, user, date).rows[period].date = date
  BY RowsOfDay
<1> HIDE DEF user
<1> QED
  BY <1>5, <1>6, <1>7 DEF EverySignHasTemplate, Answers, user

\* The readings of every day agree with one another.
THEOREM DayAlwaysWhole ==
    ASSUME Years \subseteq Nat \ {0}
    PROVE  Spec => []DayReadsWhole
<1>1. ASSUME Civil(date) PROVE DayReadsWhole
  BY <1>1, KinOfDay, WaveOfDay, SignsOfDate, TemplatesOfDay, ArcanaOfDay DEF DayReadsWhole
<1> QED
  BY <1>1, WalkCivil, PTL

-----------------------------------------------------------------------------
(* The queue: what was generated stays, a row has one run that holds its   *)
(* lock, and a completed job has left its row readable.  A job always      *)
(* bears a date of the period its id names, so that the id of a run is the *)
(* row it writes; and a job of which a run holds the lock is active, so    *)
(* that the queue gives it to nobody else.                                 *)

\* The date of a job lies in the period its id names.
DateInv == \A j \in Jobs!Keys : job[j].state # "absent" => Jobs!RowKey(j, job[j].date) = j

\* A run that goes on writes the row its job is named for.
RunInv == \A s \in Slots : ~Jobs!Free(s) => run[s].id \in Jobs!Keys /\ Jobs!Row(s) = run[s].id

\* The lock of a job that is active, and one run's only.
LockInv ==
  /\ \A s \in Slots : run[s].lock => ~Jobs!Free(s) /\ job[run[s].id].state = "active"
  /\ \A s, t \in Slots : run[s].lock /\ run[t].lock /\ run[s].id = run[t].id => s = t

\* There is something to store when it comes to storing.
ContentInv ==
  \A s \in Slots : run[s].pc \in {"update", "create"} => run[s].content # "none"

\* CompletedHasRow, by the row the id names.
RowInv == \A j \in Jobs!Keys : job[j].state = "completed" => rows[j] # "none" \/ j \in lost

JobsInv == Jobs!TypeOK /\ DateInv /\ RunInv /\ LockInv /\ ContentInv /\ RowInv

\* Nothing is running, queued or stored by a run at the start.
LEMMA JobsInit ==
  ASSUME Jobs!QueueAssumption, Jobs!Init
  PROVE  JobsInv
<1>1. Jobs!TypeOK
  BY DEF Jobs!QueueAssumption, Jobs!Init, Jobs!TypeOK, Jobs!NoJob, Jobs!Job, Jobs!NoRun, Jobs!Run, Jobs!NoCron, Jobs!Cron, Jobs!Days,
         Jobs!Contents, Jobs!Ends
<1>2. DateInv /\ RowInv
  BY DEF Jobs!Init, Jobs!NoJob, DateInv, RowInv
<1>3. RunInv /\ LockInv /\ ContentInv
  BY DEF Jobs!Init, Jobs!NoRun, Jobs!Free, Jobs!Ends, RunInv, LockInv, ContentInv
<1> QED  BY <1>1, <1>2, <1>3 DEF JobsInv

-----------------------------------------------------------------------------
\* A run goes on to its next step, with its job and at most its lock.
LEMMA Advance ==
  ASSUME JobsInv, NEW s \in Slots, NEW q \in Jobs!Run,
         ~Jobs!Free(s), q.pc \notin Jobs!Ends, q.id = run[s].id, q.date = run[s].date,
         q.lock => run[s].lock,
         q.pc \in {"update", "create"} => q.content # "none",
         run' = [run EXCEPT ![s] = q], UNCHANGED <<day, rows, job, cron, lost>>
  PROVE  JobsInv'
<1>1. run \in [Slots -> Jobs!Run]
  BY DEF JobsInv, Jobs!TypeOK
<1>2. run'[s] = q /\ \A t \in Slots : t # s => run'[t] = run[t]
  BY <1>1
<1>3. Jobs!TypeOK'
  BY <1>1 DEF JobsInv, Jobs!TypeOK
<1>4. DateInv' /\ RowInv'
  BY DEF JobsInv, DateInv, RowInv, Jobs!RowKey, Jobs!periodRowKey
<1>5. RunInv'
  BY <1>2 DEF JobsInv, RunInv, Jobs!Free, Jobs!Row, Jobs!RowKey, Jobs!periodRowKey
<1>6. LockInv'
  BY <1>2 DEF JobsInv, LockInv, Jobs!Free
<1>7. ContentInv'
  BY <1>2 DEF JobsInv, ContentInv
<1> QED  BY <1>3, <1>4, <1>5, <1>6, <1>7 DEF JobsInv

\* A run ends: it writes its row or not, and settles its job if it has the lock.
LEMMA Finish ==
  ASSUME JobsInv, NEW s \in Slots, NEW q \in Jobs!Run, NEW b \in Jobs!Job,
         ~Jobs!Free(s), q.pc \in Jobs!Ends, ~q.lock,
         b.date = job[run[s].id].date, b.state # "absent",
         run' = [run EXCEPT ![s] = q],
         job' = IF run[s].lock THEN [job EXCEPT ![run[s].id] = b] ELSE job,
         rows' \in [Jobs!Keys -> Jobs!Contents], lost' \subseteq Jobs!Keys, lost \subseteq lost',
         \A r \in Jobs!Keys : rows[r] # "none" => rows'[r] # "none",
         b.state = "completed" => rows'[Jobs!Row(s)] # "none" \/ Jobs!Row(s) \in lost',
         UNCHANGED <<day, cron>>
  PROVE  JobsInv'
<1> DEFINE j == run[s].id
<1>1. run \in [Slots -> Jobs!Run] /\ job \in [Jobs!Keys -> Jobs!Job] /\ j \in Jobs!Keys /\ Jobs!Row(s) = j
  BY DEF JobsInv, Jobs!TypeOK, RunInv
<1>2. run'[s] = q /\ \A t \in Slots : t # s => run'[t] = run[t]
  BY <1>1
<1>3. Jobs!TypeOK'
  BY <1>1 DEF JobsInv, Jobs!TypeOK
<1>4. DateInv'
  <2>1. CASE run[s].lock
    <3>1. job'[j] = b /\ \A k \in Jobs!Keys : k # j => job'[k] = job[k]
      BY <1>1, <2>1
    <3>2. job[j].state # "absent"
      BY <2>1 DEF JobsInv, LockInv
    <3> QED  BY <1>1, <3>1, <3>2 DEF JobsInv, DateInv, Jobs!RowKey, Jobs!periodRowKey
  <2>2. CASE ~run[s].lock
    BY <2>2 DEF JobsInv, DateInv, Jobs!RowKey, Jobs!periodRowKey
  <2> QED  BY <2>1, <2>2
<1>5. RunInv'
  BY <1>2 DEF JobsInv, RunInv, Jobs!Free, Jobs!Row, Jobs!RowKey, Jobs!periodRowKey
<1>6. LockInv'
  <2>1. ~run'[s].lock
    BY <1>2
  <2>2. ASSUME NEW t \in Slots, run'[t].lock
        PROVE  ~Jobs!Free(t)' /\ job'[run'[t].id].state = "active"
    <3>1. t # s /\ run'[t] = run[t] /\ run[t].lock
      BY <1>2, <2>1, <2>2
    <3>2. ~Jobs!Free(t) /\ job[run[t].id].state = "active" /\ run[t].id \in Jobs!Keys
      BY <3>1 DEF JobsInv, LockInv, RunInv
    <3>3. run[s].lock => run[t].id # j
      BY <3>1 DEF JobsInv, LockInv
    <3>4. job'[run[t].id] = job[run[t].id]
      BY <1>1, <3>2, <3>3
    <3> QED  BY <3>1, <3>2, <3>4 DEF Jobs!Free
  <2>3. ASSUME NEW t \in Slots, NEW u \in Slots,
               run'[t].lock, run'[u].lock, run'[t].id = run'[u].id
        PROVE  t = u
    BY <1>2, <2>1, <2>3 DEF JobsInv, LockInv
  <2> QED  BY <2>2, <2>3 DEF LockInv
<1>7. ContentInv'
  BY <1>2 DEF JobsInv, ContentInv, Jobs!Ends
<1>8. RowInv'
  <2>1. CASE run[s].lock
    <3>1. job'[j] = b /\ \A k \in Jobs!Keys : k # j => job'[k] = job[k]
      BY <1>1, <2>1
    <3> QED  BY <1>1, <3>1 DEF JobsInv, RowInv
  <2>2. CASE ~run[s].lock
    BY <2>2 DEF JobsInv, RowInv
  <2> QED  BY <2>1, <2>2
<1> QED  BY <1>3, <1>4, <1>5, <1>6, <1>7, <1>8 DEF JobsInv

\* The queue changes a job of which no run holds the lock.
LEMMA Queued ==
  ASSUME JobsInv, NEW j, NEW b \in Jobs!Job,
         \A s \in Slots : run[s].lock => run[s].id # j,
         b.state # "completed", b.state # "absent" => Jobs!RowKey(j, b.date) = j,
         job' = [job EXCEPT ![j] = b], cron' \in [Crons -> Jobs!Cron],
         UNCHANGED <<day, rows, run, lost>>
  PROVE  JobsInv'
<1>1. job \in [Jobs!Keys -> Jobs!Job]
  BY DEF JobsInv, Jobs!TypeOK
<1>2. \A k \in Jobs!Keys : job'[k] = IF k = j THEN b ELSE job[k]
  BY <1>1
<1>3. Jobs!TypeOK'
  BY <1>1 DEF JobsInv, Jobs!TypeOK
<1>4. DateInv'
  BY <1>2 DEF JobsInv, DateInv, Jobs!RowKey, Jobs!periodRowKey
<1>5. RunInv' /\ ContentInv'
  BY DEF JobsInv, RunInv, ContentInv, Jobs!Free, Jobs!Row, Jobs!RowKey, Jobs!periodRowKey
<1>6. LockInv'
  BY <1>2 DEF JobsInv, LockInv, RunInv, Jobs!Free
<1>7. RowInv'
  BY <1>2 DEF JobsInv, RowInv
<1> QED  BY <1>3, <1>4, <1>5, <1>6, <1>7 DEF JobsInv

\* A step of the cron that touches no job, and midnight.
LEMMA Elsewhere ==
  ASSUME JobsInv, day' \in Jobs!Days, cron' \in [Crons -> Jobs!Cron],
         UNCHANGED <<rows, job, run, lost>>
  PROVE  JobsInv'
  BY DEF JobsInv, Jobs!TypeOK, DateInv, RunInv, LockInv, ContentInv, RowInv, Jobs!Free, Jobs!Row,
         Jobs!RowKey, Jobs!periodRowKey
-----------------------------------------------------------------------------
\* The run returns with its row in place.
LEMMA Returns ==
  ASSUME Jobs!QueueAssumption, JobsInv, NEW s \in Slots, NEW status \in Jobs!Ends, ~Jobs!Free(s), Jobs!Return(s, status),
         rows' \in [Jobs!Keys -> Jobs!Contents], lost' \subseteq Jobs!Keys, lost \subseteq lost',
         \A r \in Jobs!Keys : rows[r] # "none" => rows'[r] # "none",
         rows'[Jobs!Row(s)] # "none" \/ Jobs!Row(s) \in lost',
         UNCHANGED <<day, cron>>
  PROVE  JobsInv'
<1> DEFINE j == run[s].id
           q == [pc |-> status, id |-> j, date |-> run[s].date,
                 content |-> "none", lock |-> FALSE]
           b == IF run[s].lock THEN [job[j] EXCEPT !.state = "completed", !.at = day]
                               ELSE [job[j] EXCEPT !.state = "completed"]
<1>1. run[s] \in Jobs!Run /\ job \in [Jobs!Keys -> Jobs!Job] /\ j \in Jobs!Keys /\ day \in Jobs!Days
  BY DEF JobsInv, Jobs!TypeOK, RunInv
<1>2. q \in Jobs!Run /\ q.pc \in Jobs!Ends /\ ~q.lock
  BY <1>1 DEF Jobs!Run, Jobs!Contents
<1>3. b \in Jobs!Job /\ b.date = job[j].date /\ b.state = "completed"
  <2>1. job[j] \in Jobs!Job
    BY <1>1
  <2>2. CASE run[s].lock
    BY <1>1, <2>1, <2>2 DEF Jobs!Job
  <2>3. CASE ~run[s].lock
    BY <2>1, <2>3 DEF Jobs!Job
  <2> QED
    BY <2>2, <2>3
<1>4. run' = [run EXCEPT ![s] = q]
  BY DEF Jobs!Return
<1>5. job' = IF run[s].lock THEN [job EXCEPT ![j] = b] ELSE job
  <2>1. CASE run[s].lock
    BY <1>1, <2>1 DEF Jobs!Return
  <2>2. CASE ~run[s].lock
    BY <2>2 DEF Jobs!Return
  <2> QED  BY <2>1, <2>2
<1> HIDE DEF q, b
<1> QED  BY <1>2, <1>3, <1>4, <1>5, Finish

\* The run of s goes on.
LEMMA RunSteps ==
  ASSUME Jobs!QueueAssumption, Jobs!SlotAssumption, JobsInv, NEW s \in Slots, Jobs!RunStep(s)
  PROVE  JobsInv'
<1>1. /\ run \in [Slots -> Jobs!Run] /\ run[s] \in Jobs!Run /\ rows \in [Jobs!Keys -> Jobs!Contents]
      /\ lost \subseteq Jobs!Keys /\ job \in [Jobs!Keys -> Jobs!Job] /\ day \in Jobs!Days
  BY DEF JobsInv, Jobs!TypeOK
<1>2. run[s].pc \in {"find", "generate", "guard", "update", "create"} => ~Jobs!Free(s)
  BY DEF Jobs!Free, Jobs!Ends
<1>3. ASSUME ~Jobs!Free(s)
      PROVE  Jobs!Row(s) \in Jobs!Keys /\ run[s].id = Jobs!Row(s)
  BY <1>3 DEF JobsInv, RunInv
<1>4. \A r \in Jobs!Keys : Jobs!Generated(rows[r]) => rows[r] # "none"
  BY DEF Jobs!SlotAssumption, Jobs!Generated
<1>5. ASSUME Jobs!Find(s)  PROVE JobsInv'
  <2>1. ~Jobs!Free(s)
    BY <1>2, <1>5 DEF Jobs!Find, Jobs!At
  <2>2. CASE Jobs!Generated(rows[Jobs!Row(s)])
    BY <1>1, <1>3, <1>4, <1>5, <2>1, <2>2, Returns DEF Jobs!Find, Jobs!Ends
  <2>3. CASE ~Jobs!Generated(rows[Jobs!Row(s)])
    <3> DEFINE q == [run[s] EXCEPT !.pc = "generate"]
    <3>1. q \in Jobs!Run /\ q.pc = "generate" /\ q.id = run[s].id /\ q.date = run[s].date
          /\ q.lock = run[s].lock
      BY <1>1 DEF Jobs!Run
    <3>2. run' = [run EXCEPT ![s] = q] /\ UNCHANGED <<day, rows, job, cron, lost>>
      BY <1>5, <2>3 DEF Jobs!Find, Jobs!Goto
    <3> HIDE DEF q
    <3> QED  BY <2>1, <3>1, <3>2, Advance DEF Jobs!Ends
  <2> QED  BY <2>2, <2>3
<1>6. ASSUME Jobs!Generate(s)  PROVE JobsInv'
  <2>1. ~Jobs!Free(s) /\ UNCHANGED <<day, rows, job, cron, lost>>
    BY <1>2, <1>6 DEF Jobs!Generate, Jobs!At
  <2>2. CASE run' = [run EXCEPT ![s].pc = "update", ![s].content = s]
    <3> DEFINE q == [run[s] EXCEPT !.pc = "update", !.content = s]
    <3>1. q \in Jobs!Run /\ q.pc = "update" /\ q.id = run[s].id /\ q.date = run[s].date
          /\ q.lock = run[s].lock /\ q.content = s
      BY <1>1 DEF Jobs!Run, Jobs!Contents
    <3>2. run' = [run EXCEPT ![s] = q]
      BY <1>1, <2>2
    <3> HIDE DEF q
    <3> QED  BY <2>1, <3>1, <3>2, Advance DEF Jobs!Ends, Jobs!SlotAssumption
  <2>3. CASE Jobs!Goto(s, "guard")
    <3> DEFINE q == [run[s] EXCEPT !.pc = "guard"]
    <3>1. q \in Jobs!Run /\ q.pc = "guard" /\ q.id = run[s].id /\ q.date = run[s].date
          /\ q.lock = run[s].lock
      BY <1>1 DEF Jobs!Run
    <3>2. run' = [run EXCEPT ![s] = q]
      BY <2>3 DEF Jobs!Goto
    <3> HIDE DEF q
    <3> QED  BY <2>1, <3>1, <3>2, Advance DEF Jobs!Ends
  <2> QED  BY <1>6, <2>2, <2>3 DEF Jobs!Generate
<1>7. ASSUME Jobs!UpdateFails(s)  PROVE JobsInv'
  <2> DEFINE q == [run[s] EXCEPT !.pc = "guard", !.content = "none"]
  <2>1. ~Jobs!Free(s) /\ UNCHANGED <<day, rows, job, cron, lost>>
    BY <1>2, <1>7 DEF Jobs!UpdateFails, Jobs!At
  <2>2. q \in Jobs!Run /\ q.pc = "guard" /\ q.id = run[s].id /\ q.date = run[s].date
        /\ q.lock = run[s].lock
    BY <1>1 DEF Jobs!Run, Jobs!Contents
  <2>3. run' = [run EXCEPT ![s] = q]
    BY <1>1, <1>7 DEF Jobs!UpdateFails
  <2> HIDE DEF q
  <2> QED  BY <2>1, <2>2, <2>3, Advance DEF Jobs!Ends
<1>8. ASSUME Jobs!Guard(s)  PROVE JobsInv'
  <2>1. ~Jobs!Free(s)
    BY <1>2, <1>8 DEF Jobs!Guard, Jobs!At
  <2>2. CASE Jobs!Generated(rows[Jobs!Row(s)])
    BY <1>1, <1>3, <1>4, <1>8, <2>1, <2>2, Returns DEF Jobs!Guard, Jobs!Ends
  <2>3. CASE ~Jobs!Generated(rows[Jobs!Row(s)])
    <3> DEFINE q == [run[s] EXCEPT !.pc = "update", !.content = "fallback"]
    <3>1. q \in Jobs!Run /\ q.pc = "update" /\ q.id = run[s].id /\ q.date = run[s].date
          /\ q.lock = run[s].lock /\ q.content = "fallback"
      BY <1>1 DEF Jobs!Run, Jobs!Contents
    <3>2. run' = [run EXCEPT ![s] = q] /\ UNCHANGED <<day, rows, job, cron, lost>>
      BY <1>1, <1>8, <2>3 DEF Jobs!Guard
    <3> HIDE DEF q
    <3> QED  BY <2>1, <3>1, <3>2, Advance DEF Jobs!Ends
  <2> QED  BY <2>2, <2>3
<1>9. ASSUME Jobs!Update(s)  PROVE JobsInv'
  <2>1. ~Jobs!Free(s) /\ Jobs!Row(s) \in Jobs!Keys /\ run[s].content # "none" /\ run[s].content \in Jobs!Contents
    BY <1>1, <1>2, <1>3, <1>9 DEF Jobs!Update, Jobs!At, JobsInv, ContentInv, Jobs!Run
  <2>2. CASE Jobs!Updates(Jobs!Row(s))
    <3>1. Jobs!Return(s, Jobs!Status(s)) /\ Jobs!Status(s) \in Jobs!Ends
          /\ rows' = [rows EXCEPT ![Jobs!Row(s)] = run[s].content]
          /\ UNCHANGED <<day, cron, lost>>
      BY <1>9, <2>2 DEF Jobs!Update, Jobs!Status, Jobs!Ends
    <3>2. rows' \in [Jobs!Keys -> Jobs!Contents] /\ rows'[Jobs!Row(s)] # "none"
          /\ \A r \in Jobs!Keys : rows[r] # "none" => rows'[r] # "none"
      BY <1>1, <2>1, <3>1
    <3> QED  BY <1>1, <2>1, <3>1, <3>2, Returns
  <2>3. CASE ~Jobs!Updates(Jobs!Row(s))
    <3> DEFINE q == [run[s] EXCEPT !.pc = "create"]
    <3>1. q \in Jobs!Run /\ q.pc = "create" /\ q.id = run[s].id /\ q.date = run[s].date
          /\ q.lock = run[s].lock /\ q.content = run[s].content
      BY <1>1 DEF Jobs!Run
    <3>2. run' = [run EXCEPT ![s] = q] /\ UNCHANGED <<day, rows, job, cron, lost>>
      BY <1>9, <2>3 DEF Jobs!Update, Jobs!Goto
    <3> HIDE DEF q
    <3> QED  BY <2>1, <3>1, <3>2, Advance DEF Jobs!Ends
  <2> QED  BY <2>2, <2>3
<1>10. ASSUME Jobs!Create(s)  PROVE JobsInv'
  <2>1. ~Jobs!Free(s) /\ Jobs!Row(s) \in Jobs!Keys /\ run[s].content # "none" /\ run[s].content \in Jobs!Contents
    BY <1>1, <1>2, <1>3, <1>10 DEF Jobs!Create, Jobs!At, JobsInv, ContentInv, Jobs!Run
  <2>2. Jobs!Return(s, Jobs!Status(s)) /\ Jobs!Status(s) \in Jobs!Ends /\ UNCHANGED <<day, cron>>
    BY <1>10 DEF Jobs!Create, Jobs!Status, Jobs!Ends
  <2>3. /\ rows' \in [Jobs!Keys -> Jobs!Contents] /\ lost' \subseteq Jobs!Keys /\ lost \subseteq lost'
        /\ \A r \in Jobs!Keys : rows[r] # "none" => rows'[r] # "none"
        /\ rows'[Jobs!Row(s)] # "none" \/ Jobs!Row(s) \in lost'
    BY <1>1, <1>10, <2>1 DEF Jobs!Create
  <2> QED  BY <2>1, <2>2, <2>3, Returns
<1>11. ASSUME Jobs!Throw(s)  PROVE JobsInv'
  <2> DEFINE j == run[s].id
             b == IF run[s].lock THEN Jobs!AfterFailure(j) ELSE [job[j] EXCEPT !.state = "failed"]
  <2>1. ~Jobs!Free(s) /\ j \in Jobs!Keys /\ job[j] \in Jobs!Job
    BY <1>1, <1>2, <1>3, <1>11 DEF Jobs!Throw, Jobs!At
  <2>2. Jobs!NoRun \in Jobs!Run /\ Jobs!NoRun.pc \in Jobs!Ends /\ ~Jobs!NoRun.lock
    BY DEF Jobs!NoRun, Jobs!Run, Jobs!Ends, Jobs!Contents, Jobs!Days, Jobs!QueueAssumption
  <2>3. b \in Jobs!Job /\ b.date = job[j].date /\ b.state \in {"waiting", "failed"}
    <3>1. Attempts \in Nat /\ Attempts > 0 /\ job[j].tries \in 0..Attempts
      BY <2>1 DEF Jobs!Job, Jobs!QueueAssumption
    <3>2. CASE ~run[s].lock
      BY <2>1, <3>2 DEF Jobs!Job
    <3>3. CASE run[s].lock /\ job[j].tries + 1 < Attempts
      <4> DEFINE c == [job[j] EXCEPT !.state = "waiting", !.tries = @ + 1]
      <4>1. job[j].tries + 1 \in 0..Attempts /\ b = c
        BY <3>1, <3>3 DEF Jobs!AfterFailure
      <4>2. c \in Jobs!Job /\ c.date = job[j].date /\ c.state = "waiting"
        BY <2>1, <4>1 DEF Jobs!Job
      <4> QED  BY <4>1, <4>2
    <3>4. CASE run[s].lock /\ ~(job[j].tries + 1 < Attempts)
      <4> DEFINE c == [job[j] EXCEPT !.state = "failed", !.tries = Attempts, !.at = day]
      <4>1. Attempts \in 0..Attempts /\ b = c
        BY <3>1, <3>4 DEF Jobs!AfterFailure
      <4>2. c \in Jobs!Job /\ c.date = job[j].date /\ c.state = "failed"
        BY <1>1, <2>1, <4>1 DEF Jobs!Job
      <4> QED  BY <4>1, <4>2
    <3> QED  BY <3>2, <3>3, <3>4
  <2>4. run' = [run EXCEPT ![s] = Jobs!NoRun] /\ UNCHANGED <<day, rows, cron, lost>>
        /\ job' = IF run[s].lock THEN [job EXCEPT ![j] = b] ELSE job
    BY <1>11 DEF Jobs!Throw
  <2> HIDE DEF b
  <2> QED  BY <1>1, <2>1, <2>2, <2>3, <2>4, Finish
<1> QED  BY <1>5, <1>6, <1>7, <1>8, <1>9, <1>10, <1>11 DEF Jobs!RunStep
-----------------------------------------------------------------------------
\* The cron, the queue and the clock.
LEMMA OtherSteps ==
  ASSUME Jobs!QueueAssumption, JobsInv, [Jobs!Next]_Jobs!vars, \A s \in Slots : ~Jobs!RunStep(s)
  PROVE  JobsInv'
<1>1. /\ run \in [Slots -> Jobs!Run] /\ job \in [Jobs!Keys -> Jobs!Job] /\ cron \in [Crons -> Jobs!Cron]
      /\ rows \in [Jobs!Keys -> Jobs!Contents] /\ lost \subseteq Jobs!Keys /\ day \in Jobs!Days
  BY DEF JobsInv, Jobs!TypeOK
<1>2. Jobs!NoCron \in Jobs!Cron /\ Jobs!NoRun \in Jobs!Run /\ Jobs!NoJob \in Jobs!Job
  BY DEF Jobs!NoCron, Jobs!Cron, Jobs!NoRun, Jobs!Run, Jobs!Ends, Jobs!Contents, Jobs!NoJob, Jobs!Job, Jobs!Days, Jobs!QueueAssumption
<1>3. ASSUME NEW c \in Crons, Jobs!CronStart(c)  PROVE JobsInv'
  <2> DEFINE n == [cron[c] EXCEPT !.date = day, !.periods = JobPeriods]
  <2>1. n \in Jobs!Cron
    BY <1>1 DEF Jobs!Cron
  <2>2. cron' = [cron EXCEPT ![c] = n]
    BY <1>1, <1>3 DEF Jobs!CronStart
  <2> HIDE DEF n
  <2> QED  BY <1>1, <1>3, <2>1, <2>2, Elsewhere DEF Jobs!CronStart
<1>4. ASSUME NEW c \in Crons, Jobs!CronRead(c)  PROVE JobsInv'
  <2>1. PICK p \in cron[c].periods :
          cron' = [cron EXCEPT ![c].periods = @ \ {p},
                     ![c].pending = {<<sign, p>> : sign \in {sg \in JobSigns :
                        ~Jobs!Generated(rows[<<sg, p, Jobs!periodRowKey(p, cron[c].date)>>])}}]
    BY <1>4 DEF Jobs!CronRead
  <2> DEFINE some == {<<sign, p>> : sign \in {sg \in JobSigns :
                        ~Jobs!Generated(rows[<<sg, p, Jobs!periodRowKey(p, cron[c].date)>>])}}
             n == [cron[c] EXCEPT !.periods = @ \ {p}, !.pending = some]
  <2>2. some \in SUBSET (JobSigns \X JobPeriods) /\ cron[c] \in Jobs!Cron
    <3>1. cron[c] \in Jobs!Cron /\ p \in JobPeriods
      BY <1>1 DEF Jobs!Cron
    <3>2. \A sign \in JobSigns : <<sign, p>> \in JobSigns \X JobPeriods
      BY <3>1
    <3>3. some \subseteq JobSigns \X JobPeriods
      BY <3>2
    <3> QED  BY <3>1, <3>3
  <2>3. cron' = [cron EXCEPT ![c] = n]
    BY <1>1, <2>1
  <2> HIDE DEF some
  <2>4. n \in Jobs!Cron
    BY <2>2 DEF Jobs!Cron
  <2> HIDE DEF n
  <2> QED  BY <1>1, <1>4, <2>3, <2>4, Elsewhere DEF Jobs!CronRead
<1>5. ASSUME NEW c \in Crons, Jobs!CronEnqueue(c)  PROVE JobsInv'
  <2>1. PICK next \in cron[c].pending :
          LET id == Jobs!JobId(next[1], next[2], cron[c].date) IN
          /\ cron' = [cron EXCEPT ![c].pending = @ \ {next}]
          /\ job' = IF job[id].state # "absent" THEN job
                    ELSE [job EXCEPT ![id] = [state |-> "waiting", date |-> cron[c].date,
                                              tries |-> 0, stalls |-> 0, at |-> 0]]
          /\ UNCHANGED <<day, rows, run, lost>>
    BY <1>5 DEF Jobs!CronEnqueue
  <2> DEFINE id == Jobs!JobId(next[1], next[2], cron[c].date)
             n == [cron[c] EXCEPT !.pending = @ \ {next}]
             b == [state |-> "waiting", date |-> cron[c].date,
                   tries |-> 0, stalls |-> 0, at |-> 0]
  <2>2. n \in Jobs!Cron /\ cron[c].date \in Jobs!Days
    BY <1>1 DEF Jobs!Cron
  <2>3. cron' = [cron EXCEPT ![c] = n]
    BY <1>1, <2>1
  <2>4. cron' \in [Crons -> Jobs!Cron]
    BY <1>1, <2>2, <2>3
  <2>5. b \in Jobs!Job
    BY <2>2 DEF Jobs!Job, Jobs!Days, Jobs!QueueAssumption
  <2>6. Jobs!RowKey(id, b.date) = id
    BY DEF Jobs!JobId, Jobs!RowKey, Jobs!periodRowKey
  <2>7. CASE job[id].state # "absent"
    BY <1>1, <2>1, <2>4, <2>7, Elsewhere
  <2>8. CASE job[id].state = "absent"
    <3>1. \A s \in Slots : run[s].lock => run[s].id # id
      BY <2>8 DEF JobsInv, LockInv
    <3>2. job' = [job EXCEPT ![id] = b] /\ UNCHANGED <<day, rows, run, lost>>
      BY <2>1, <2>8
    <3>3. b.state = "waiting"
      OBVIOUS
    <3> HIDE DEF id, b
    <3> QED  BY <2>4, <2>5, <2>6, <3>1, <3>2, <3>3, Queued
  <2> QED  BY <2>7, <2>8
<1>6. ASSUME NEW c \in Crons, Jobs!CronFails(c)  PROVE JobsInv'
  BY <1>1, <1>2, <1>6, Elsewhere DEF Jobs!CronFails
<1>7. ASSUME NEW s \in Slots, Jobs!Start(s)  PROVE JobsInv'
  <2>1. PICK j \in Jobs!Keys :
          /\ job[j].state = "waiting"
          /\ job' = [job EXCEPT ![j].state = "active"]
          /\ run' = [run EXCEPT ![s] = [pc |-> "find", id |-> j, date |-> job[j].date,
                                        content |-> "none", lock |-> TRUE]]
    BY <1>7 DEF Jobs!Start
  <2> DEFINE b == [job[j] EXCEPT !.state = "active"]
             q == [pc |-> "find", id |-> j, date |-> job[j].date,
                   content |-> "none", lock |-> TRUE]
  <2>2. b \in Jobs!Job /\ b.date = job[j].date /\ b.state = "active" /\ job[j].date \in Jobs!Days
    BY <1>1 DEF Jobs!Job
  <2>3. q \in Jobs!Run
    BY <2>2 DEF Jobs!Run, Jobs!Contents
  <2>4. job'[j] = b /\ \A k \in Jobs!Keys : k # j => job'[k] = job[k]
    BY <1>1, <2>1
  <2>5. run'[s] = q /\ \A t \in Slots : t # s => run'[t] = run[t]
    BY <1>1, <2>1
  <2>6. job' \in [Jobs!Keys -> Jobs!Job] /\ run' \in [Slots -> Jobs!Run]
    BY <1>1, <2>1, <2>2, <2>3
  <2>7. Jobs!RowKey(j, job[j].date) = j
    BY <2>1 DEF JobsInv, DateInv
  <2>8. q.pc = "find" /\ q.id = j /\ q.date = job[j].date /\ q.lock
    OBVIOUS
  <2>9. \A t \in Slots : run[t].lock => run[t].id # j
    BY <2>1 DEF JobsInv, LockInv
  <2>10. UNCHANGED <<day, rows, cron, lost>>
    BY <1>7 DEF Jobs!Start
  <2> HIDE DEF b, q
  <2>11. Jobs!TypeOK'
    BY <2>6, <2>10 DEF JobsInv, Jobs!TypeOK
  <2>12. DateInv' /\ RowInv'
    BY <2>2, <2>4, <2>7, <2>10 DEF JobsInv, DateInv, RowInv, Jobs!RowKey, Jobs!periodRowKey
  <2>13. RunInv'
    BY <2>5, <2>7, <2>8 DEF JobsInv, RunInv, Jobs!Row, Jobs!RowKey, Jobs!periodRowKey, Jobs!Free
  <2>14. ContentInv'
    BY <2>5, <2>8 DEF JobsInv, ContentInv
  <2>15. LockInv'
    <3>1. ASSUME NEW t \in Slots, run'[t].lock
          PROVE  ~Jobs!Free(t)' /\ job'[run'[t].id].state = "active"
      <4>1. CASE t = s
        BY <2>2, <2>4, <2>5, <2>8, <4>1 DEF Jobs!Free, Jobs!Ends
      <4>2. CASE t # s
        BY <2>4, <2>5, <2>9, <3>1, <4>2 DEF JobsInv, LockInv, RunInv, Jobs!Free
      <4> QED  BY <4>1, <4>2
    <3>2. ASSUME NEW t \in Slots, NEW u \in Slots,
                 run'[t].lock, run'[u].lock, run'[t].id = run'[u].id
          PROVE  t = u
      BY <2>5, <2>8, <2>9, <3>2 DEF JobsInv, LockInv
    <3> QED  BY <3>1, <3>2 DEF LockInv
  <2> QED  BY <2>11, <2>12, <2>13, <2>14, <2>15 DEF JobsInv
<1>8. ASSUME NEW s \in Slots, Jobs!LockExpires(s)  PROVE JobsInv'
  <2> DEFINE q == [run[s] EXCEPT !.lock = FALSE]
  <2>1. ~Jobs!Free(s)
    BY <1>8 DEF Jobs!LockExpires, JobsInv, LockInv
  <2>2. q \in Jobs!Run /\ q.pc = run[s].pc /\ q.id = run[s].id /\ q.date = run[s].date
        /\ ~q.lock /\ q.content = run[s].content
    BY <1>1 DEF Jobs!Run
  <2>3. run' = [run EXCEPT ![s] = q] /\ UNCHANGED <<day, rows, job, cron, lost>>
    BY <1>8 DEF Jobs!LockExpires
  <2>4. q.pc \in {"update", "create"} => q.content # "none"
    BY <2>2 DEF JobsInv, ContentInv
  <2> HIDE DEF q
  <2> QED  BY <2>1, <2>2, <2>3, <2>4, Advance DEF Jobs!Free
<1>9. ASSUME NEW j \in Jobs!Keys, Jobs!Stalled(j)  PROVE JobsInv'
  <2>1. job[j] \in Jobs!Job /\ job[j].state = "active" /\ Jobs!RowKey(j, job[j].date) = j
        /\ \A s \in Slots : run[s].lock => run[s].id # j
    BY <1>1, <1>9 DEF Jobs!Stalled, JobsInv, DateInv
  <2>2. Jobs!AfterStall(j) \in Jobs!Job /\ Jobs!AfterStall(j).date = job[j].date
        /\ Jobs!AfterStall(j).state \in {"waiting", "failed"}
    <3> DEFINE a == job[j]
    <3>1. a \in Jobs!Job /\ day \in Jobs!Days
      BY <1>1, <2>1
    <3>2. 1 \in 0..2 /\ 2 \in 0..2
      OBVIOUS
    <3>3. CASE job[j].stalls = 0
      <4> DEFINE b == [a EXCEPT !.state = "waiting", !.stalls = 1]
      <4>1. b \in Jobs!Job /\ b.date = a.date /\ b.state = "waiting"
        <5> HIDE DEF a
        <5> QED  BY <3>1, <3>2 DEF Jobs!Job
      <4> QED  BY <3>3, <4>1 DEF Jobs!AfterStall
    <3>4. CASE job[j].stalls # 0
      <4> DEFINE b == [a EXCEPT !.state = "failed", !.stalls = 2, !.at = day]
      <4>1. b \in Jobs!Job /\ b.date = a.date /\ b.state = "failed"
        <5> HIDE DEF a
        <5> QED  BY <3>1, <3>2 DEF Jobs!Job
      <4> QED  BY <3>4, <4>1 DEF Jobs!AfterStall
    <3> QED  BY <3>3, <3>4
  <2>3. job' = [job EXCEPT ![j] = Jobs!AfterStall(j)] /\ cron' \in [Crons -> Jobs!Cron]
        /\ UNCHANGED <<day, rows, run, lost>>
    BY <1>1, <1>9 DEF Jobs!Stalled
  <2> QED  BY <2>1, <2>2, <2>3, Queued
<1>10. ASSUME NEW j \in Jobs!Keys, Jobs!Forget(j)  PROVE JobsInv'
  <2>1. \A s \in Slots : run[s].lock => run[s].id # j
    BY <1>10 DEF Jobs!Forget, JobsInv, LockInv
  <2>2. job' = [job EXCEPT ![j] = Jobs!NoJob] /\ cron' \in [Crons -> Jobs!Cron]
        /\ UNCHANGED <<day, rows, run, lost>>
    BY <1>1, <1>10 DEF Jobs!Forget
  <2> QED  BY <1>2, <2>1, <2>2, Queued DEF Jobs!NoJob
<1>11. ASSUME Jobs!Crash  PROVE JobsInv'
  <2>1. run' = [s \in Slots |-> Jobs!NoRun] /\ UNCHANGED <<day, rows, job, cron, lost>>
    BY <1>11 DEF Jobs!Crash
  <2>2. Jobs!TypeOK' /\ DateInv' /\ RowInv'
    BY <1>2, <2>1 DEF JobsInv, Jobs!TypeOK, DateInv, RowInv, Jobs!RowKey, Jobs!periodRowKey
  <2>3. RunInv' /\ LockInv' /\ ContentInv'
    BY <2>1 DEF Jobs!NoRun, Jobs!Free, Jobs!Ends, RunInv, LockInv, ContentInv
  <2> QED  BY <2>2, <2>3 DEF JobsInv
<1>12. ASSUME Jobs!Midnight  PROVE JobsInv'
  BY <1>1, <1>12, Elsewhere DEF Jobs!Midnight, Jobs!Days, Jobs!QueueAssumption
<1>13. ASSUME UNCHANGED Jobs!vars  PROVE JobsInv'
  BY <1>1, <1>13, Elsewhere DEF Jobs!vars
<1> QED  BY <1>3, <1>4, <1>5, <1>6, <1>7, <1>8, <1>9, <1>10, <1>11, <1>12, <1>13 DEF Jobs!Next

LEMMA JobsInductive ==
  ASSUME Jobs!QueueAssumption, Jobs!SlotAssumption, JobsInv, [Jobs!Next]_Jobs!vars
  PROVE  JobsInv'
  BY RunSteps, OtherSteps

\* For all values of the constants that satisfy the assumptions.
THEOREM JobsInvariance ==
  ASSUME Jobs!QueueAssumption, Jobs!SlotAssumption
  PROVE  Jobs!Spec => []JobsInv
<1>1. Jobs!Init => JobsInv
  BY JobsInit
<1>2. JobsInv /\ [Jobs!Next]_Jobs!vars => JobsInv'
  BY JobsInductive
<1> QED  BY <1>1, <1>2, PTL DEF Jobs!Spec

\* horoscope-queue.ts:56-58: two runs that hold their locks write different
\* rows, though a week's row is asked for on each of its days.
THEOREM RunsApart ==
  ASSUME Jobs!QueueAssumption, Jobs!SlotAssumption
  PROVE  Jobs!Spec => []Jobs!OneRunPerRow
<1>1. JobsInv => Jobs!OneRunPerRow
  BY DEF JobsInv, LockInv, RunInv, Jobs!OneRunPerRow
<1> QED  BY <1>1, JobsInvariance, PTL

\* horoscope-worker.ts:203-279: a job that completed has left its row there to
\* be read, unless an error of the create itself was swallowed.
THEOREM RowsInPlace ==
  ASSUME Jobs!QueueAssumption, Jobs!SlotAssumption
  PROVE  Jobs!Spec => []Jobs!CompletedHasRow
<1>1. JobsInv => Jobs!CompletedHasRow
  BY DEF JobsInv, RowInv, DateInv, Jobs!CompletedHasRow
<1> QED  BY <1>1, JobsInvariance, PTL

\* horoscope-worker.ts:166-167: no run, however late, with its lock or without,
\* overwrites what another has generated.
LEMMA StoredStays ==
  ASSUME Jobs!QueueAssumption, Jobs!SlotAssumption, JobsInv, [Jobs!Next]_Jobs!vars
  PROVE  [\A r \in Jobs!Keys : Jobs!Generated(rows[r]) => rows'[r] = rows[r]]_rows
  <1>1. rows \in [Jobs!Keys -> Jobs!Contents]
    BY DEF JobsInv, Jobs!TypeOK
  <1>2. CASE UNCHANGED rows
    BY <1>2
  <1>3. ASSUME NEW s \in Slots, Jobs!Update(s) \/ Jobs!Create(s)
        PROVE  \A r \in Jobs!Keys : Jobs!Generated(rows[r]) => rows'[r] = rows[r]
    BY <1>1, <1>3 DEF Jobs!Update, Jobs!Updates, Jobs!Create, Jobs!Generated, Jobs!SlotAssumption
  <1>4. (\E s \in Slots : Jobs!Update(s) \/ Jobs!Create(s)) \/ UNCHANGED rows
    BY DEF Jobs!Next, Jobs!vars, Jobs!RunStep, Jobs!CronStart, Jobs!CronRead, Jobs!CronEnqueue, Jobs!CronFails, Jobs!Start,
       Jobs!Find, Jobs!Generate, Jobs!UpdateFails, Jobs!Guard, Jobs!Throw, Jobs!LockExpires, Jobs!Stalled, Jobs!Forget, Jobs!Crash,
       Jobs!Midnight
  <1> QED  BY <1>2, <1>3, <1>4

-----------------------------------------------------------------------------
(* The ticks: whoever is owed a notification waits at a boundary that has  *)
(* not fired, behind a tick that is asked to run again, or in a tick in    *)
(* flight; and what a tick is about to create, no other has.               *)

\* One tick at a time, within the process, that remembers its own hour; a
\* notification is about to be created only where the look-up found none.
TickInv ==
  /\ proc = "down" => tick = Ticks!NoTick /\ timer = Ticks!NoTimer /\ ~pendingTick
  /\ tick.pc # "idle" => tick.date <= Ticks!civilDateBrt
  /\ tick.pc = "create" => \A s \in tick.sub : \A d \in Ticks!Days : d >= tick.date => notes[s][d] = 0
  /\ tick.pc # "create" => tick.sub = {}
  /\ \A s, t \in tick.sub : s = t

\* The timer is due now or next, or not armed.  The chain of ticks it started
\* has disarmed it, and a boundary that met a tick was crossed by it.
TimerInv ==
  /\ timer \in {Ticks!NoTimer, now, now + 1}
  /\ tick.pc # "idle" /\ tick.rearm => timer = Ticks!NoTimer
  /\ tick.pc # "idle" /\ Ticks!Expired => tick.crossed >= 1
  /\ pendingTick => tick.pc # "idle" /\ tick.crossed >= 1 /\ ~Ticks!Expired

\* Where a subscription that is owed its hour will be served from.
Awaited(s) ==
  \/ Ticks!Expired /\ s \in Ticks!DueAt(Ticks!civilHourBrt)
  \/ pendingTick /\ s \in Ticks!DueAt(Ticks!civilHourBrt)
  \/ tick.pc = "load" /\ s \in Ticks!DueAt(tick.hour)
  \/ tick.pc \in {"scan", "create"} /\ s \in tick.todo \cup tick.sub

OwedInv == \A s \in Ticks!Subs : <<s, TRUE>> \in owed => Awaited(s)

TicksInv == Ticks!TypeOK /\ TickInv /\ TimerInv /\ OwedInv

LEMMA Quotients ==
  ASSUME NEW D \in Nat \ {0}, NEW a \in Nat, NEW b \in Nat, a <= b
  PROVE  /\ a % D \in 0..(D - 1) /\ a \div D \in Nat /\ a \div D <= b \div D
<1>1. /\ a % D \in 0..(D - 1) /\ a \div D \in Int /\ a = D * (a \div D) + (a % D)
      /\ b % D \in 0..(D - 1) /\ b \div D \in Int /\ b = D * (b \div D) + (b % D)
  BY SMTT(20)
<1> DEFINE p == a \div D
           q == b \div D
<1> HIDE DEF p, q
<1>2. \A i, j \in Int : i < j => D * i + D <= D * j
  BY SMTT(20)
<1>3. p <= q
  <2> SUFFICES ASSUME q < p PROVE FALSE
    BY <1>1 DEF p, q
  <2>1. D * q + D <= D * p /\ D * q \in Int /\ D * p \in Int
    BY <1>1, <1>2 DEF p, q
  <2> QED
    BY <1>1, <2>1 DEF p, q
<1>4. p >= 0
  <2> SUFFICES ASSUME p < 0 PROVE FALSE
    BY <1>1 DEF p
  <2>1. D * p + D <= D * 0 /\ D * p \in Int
    BY <1>1, <1>2 DEF p
  <2> QED
    BY <1>1, <2>1 DEF p
<1> QED
  BY <1>1, <1>3, <1>4 DEF p, q

\* The hour and the date of every instant of the run.
LEMMA ClockReads ==
  ASSUME Ticks!HourAssumption, now \in 0..MaxHour
  PROVE  /\ now \in Nat /\ MaxHour \in Nat /\ TickHours \in Nat
         /\ Ticks!civilHourBrt \in Ticks!Hours /\ Ticks!civilDateBrt \in Ticks!Days
         /\ Ticks!Days \subseteq Nat /\ Ticks!Hours \subseteq Nat /\ Ticks!NoHour \notin Ticks!Hours
         /\ Ticks!civilDateBrt <= (now + 1) \div HoursPerDay
<1>1. now \in Nat /\ MaxHour \in Nat /\ TickHours \in Nat /\ now <= MaxHour /\ HoursPerDay \in Nat \ {0}
  BY DEF Ticks!HourAssumption
<1>2. /\ now % HoursPerDay \in 0..(HoursPerDay - 1) /\ now \div HoursPerDay \in Nat
      /\ now \div HoursPerDay <= MaxHour \div HoursPerDay
  BY <1>1, Quotients
<1>3. now + 1 \in Nat /\ now \div HoursPerDay <= (now + 1) \div HoursPerDay
  BY <1>1, Quotients
<1>4. MaxHour \div HoursPerDay \in Nat
  BY <1>1, Quotients
<1> QED
  BY <1>1, <1>2, <1>3, <1>4 DEF Ticks!civilHourBrt, Ticks!civilDateBrt, Ticks!Hours, Ticks!Days, Ticks!NoHour

LEMMA Resting ==
  ASSUME Ticks!HourAssumption
  PROVE  Ticks!NoTick \in Ticks!Tick /\ Ticks!NoTick.pc = "idle" /\ Ticks!NoTick.sub = {}
<1>1. 0 \in Ticks!Hours /\ 0 \in 0..TickHours /\ 0 \in Ticks!Days
  <2>1. HoursPerDay \in Nat \ {0} /\ MaxHour \in Nat /\ TickHours \in Nat
    BY DEF Ticks!HourAssumption
  <2>2. MaxHour \div HoursPerDay \in Nat
    BY <2>1, Quotients
  <2> QED
    BY <2>1, <2>2 DEF Ticks!Hours, Ticks!Days
<1> QED
  BY <1>1 DEF Ticks!NoTick, Ticks!Tick

\* A tick that starts knows the hour and the date.
LEMMA Starting ==
  ASSUME Ticks!HourAssumption, Ticks!TypeOK, NEW rearm \in BOOLEAN
  PROVE  LET t == Ticks!StartTick(rearm)
         IN  /\ t \in Ticks!Tick /\ t.pc = "load" /\ t.hour = Ticks!civilHourBrt /\ t.date = Ticks!civilDateBrt
             /\ t.todo = {} /\ t.sub = {} /\ t.rearm = rearm /\ t.crossed = 0
<1>1. Ticks!civilHourBrt \in Ticks!Hours /\ Ticks!civilDateBrt \in Ticks!Days
  BY ClockReads DEF Ticks!TypeOK
<1>2. Ticks!NoTick \in Ticks!Tick /\ Ticks!NoTick.todo = {} /\ Ticks!NoTick.sub = {} /\ Ticks!NoTick.crossed = 0
  BY Resting DEF Ticks!NoTick
<1> QED
  BY <1>1, <1>2 DEF Ticks!StartTick, Ticks!Tick

LEMMA TicksInit ==
  ASSUME Ticks!HourAssumption, Ticks!Init
  PROVE  TicksInv
<1>1. Ticks!NoTick \in Ticks!Tick /\ Ticks!NoTick.pc = "idle" /\ Ticks!NoTick.sub = {}
  BY Resting
<1>2. now = 0 /\ now \in 0..MaxHour /\ timer \in 0..(MaxHour + 1)
  BY DEF Ticks!HourAssumption, Ticks!Init, Ticks!NoTimer
<1>3. Ticks!TypeOK
  <2>1. notes \in [Ticks!Subs -> [Ticks!Days -> 0..1]]
    BY DEF Ticks!Init
  <2>2. hour \in [Users -> Ticks!Hours \cup {Ticks!NoHour}]
    BY DEF Ticks!Init
  <2> QED
    BY <1>1, <1>2, <2>1, <2>2 DEF Ticks!Init, Ticks!TypeOK
<1>4. TickInv /\ TimerInv /\ OwedInv
  BY <1>1, <1>2 DEF Ticks!Init, TickInv, TimerInv, OwedInv, Ticks!NoTimer
<1> QED
  BY <1>3, <1>4 DEF TicksInv

-----------------------------------------------------------------------------
(* Every step                                                              *)

LEMMA AfterTypes ==
  ASSUME Ticks!HourAssumption, Ticks!TypeOK, Ticks!AfterTick
  PROVE  /\ tick' \in Ticks!Tick /\ pendingTick' \in BOOLEAN /\ timer' \in 0..(MaxHour + 1)
         /\ tick'.sub = {} /\ tick'.pc \in {"idle", "load"}
         /\ tick'.pc # "idle" => tick'.date = Ticks!civilDateBrt
<1>1. tick.rearm \in BOOLEAN /\ now \in Nat /\ now <= MaxHour /\ timer \in 0..(MaxHour + 1) /\ MaxHour \in Nat
      /\ pendingTick \in BOOLEAN
  BY DEF Ticks!TypeOK, Ticks!Tick, Ticks!HourAssumption
<1>2. CASE pendingTick
  BY <1>1, <1>2, Starting DEF Ticks!AfterTick, Ticks!TypeOK
<1>3. CASE ~pendingTick
  BY <1>1, <1>3, Resting DEF Ticks!AfterTick, Ticks!msUntilNextHourTick
<1> QED
  BY <1>1, <1>2, <1>3

LEMMA TicksTyped ==
  ASSUME Ticks!HourAssumption, Ticks!TypeOK, TickInv, [Ticks!Next]_Ticks!vars
  PROVE  Ticks!TypeOK' /\ TickInv'
<1>0. /\ now \in Nat /\ MaxHour \in Nat /\ TickHours \in Nat /\ now <= MaxHour
      /\ Ticks!civilHourBrt \in Ticks!Hours /\ Ticks!civilDateBrt \in Ticks!Days /\ Ticks!Days \subseteq Nat
      /\ Ticks!civilDateBrt <= (now + 1) \div HoursPerDay
      /\ tick \in Ticks!Tick /\ tick.crossed \in 0..TickHours /\ tick.date \in Ticks!Days
      /\ Ticks!NoTick \in Ticks!Tick /\ Ticks!NoTick.pc = "idle" /\ Ticks!NoTick.sub = {}
  BY ClockReads, Resting DEF Ticks!TypeOK, Ticks!Tick
<1>a. /\ Ticks!civilDateBrt \in Nat /\ Ticks!civilDateBrt <= Ticks!civilDateBrt
      /\ UNCHANGED now => Ticks!civilDateBrt' = Ticks!civilDateBrt
  <2>1. UNCHANGED now => Ticks!civilDateBrt' = Ticks!civilDateBrt
    BY DEF Ticks!civilDateBrt
  <2>2. Ticks!civilDateBrt \in Nat
    BY <1>0
  <2> QED
    BY <2>1, <2>2
<1>1. CASE Ticks!Clock
  <2>1. now' \in 0..MaxHour /\ now' = now + 1
    BY <1>0, <1>1 DEF Ticks!Clock
  <2>2. tick' \in Ticks!Tick /\ tick'.pc = tick.pc /\ tick'.sub = tick.sub /\ tick'.date = tick.date
        /\ (tick.pc = "idle" => tick' = tick)
    <3> DEFINE t == [tick EXCEPT !.crossed = @ + 1]
    <3>1. CASE tick.pc = "idle"
      BY <1>0, <1>1, <3>1 DEF Ticks!Clock
    <3>2. CASE tick.pc # "idle"
      <4>1. tick.crossed + 1 \in 0..TickHours /\ tick' = t
        BY <1>0, <1>1, <3>2 DEF Ticks!Clock
      <4>2. t \in Ticks!Tick /\ t.pc = tick.pc /\ t.sub = tick.sub /\ t.date = tick.date
        BY <1>0, <4>1 DEF Ticks!Tick
      <4> QED
        BY <3>2, <4>1, <4>2
    <3> QED
      BY <3>1, <3>2
  <2>3. owed' \subseteq Ticks!Subs \X BOOLEAN
    <3>1. Ticks!DueAt(now' % HoursPerDay) \subseteq Ticks!Subs
      BY DEF Ticks!DueAt, Ticks!TypeOK
    <3> QED
      BY <1>1, <3>1 DEF Ticks!Clock, Ticks!TypeOK
  <2>4. Ticks!civilDateBrt' = (now + 1) \div HoursPerDay
    BY <2>1 DEF Ticks!civilDateBrt
  <2>5. Ticks!civilDateBrt' \in Nat /\ Ticks!civilDateBrt \in Nat
    BY <1>0, <2>1, <2>4, Quotients DEF Ticks!HourAssumption
  <2>8. Ticks!civilDateBrt <= Ticks!civilDateBrt'
    BY <1>0, <2>4
  <2>6. Ticks!TypeOK'
    BY <1>1, <2>1, <2>2, <2>3 DEF Ticks!Clock, Ticks!TypeOK
  <2>7. (tick.pc # "idle" => tick.date <= Ticks!civilDateBrt)'
    <3>1. tick.date \in Nat /\ (tick.pc # "idle" => tick.date <= Ticks!civilDateBrt)
      BY <1>0 DEF TickInv
    <3> HIDE DEF TickInv
    <3> QED
      BY <2>2, <2>5, <2>8, <3>1
  <2>9. proc' = "down" => tick' = Ticks!NoTick /\ timer' = Ticks!NoTimer /\ ~pendingTick'
    BY <1>0, <1>1, <2>2 DEF Ticks!Clock, TickInv
  <2>10. UNCHANGED notes
    BY <1>1 DEF Ticks!Clock
  <2>11. TickInv'
    BY <2>2, <2>7, <2>9, <2>10 DEF TickInv
  <2> QED
    BY <2>6, <2>11
<1>2. ASSUME NEW u \in Users, Ticks!Patch(u) PROVE Ticks!TypeOK' /\ TickInv'
  <2>1. enabled' \subseteq Ticks!Subs
    BY <1>2 DEF Ticks!Patch, Ticks!TypeOK, Ticks!Subs
  <2>2. hour' \in [Users -> Ticks!Hours \cup {Ticks!NoHour}]
    BY <1>2 DEF Ticks!Patch, Ticks!TypeOK
  <2>3. owed' \subseteq owed
    BY <1>2 DEF Ticks!Patch, Ticks!WithoutUser
  <2> QED
    BY <1>2, <2>1, <2>2, <2>3 DEF Ticks!Patch, Ticks!TypeOK, TickInv, Ticks!civilDateBrt
<1>3. CASE Ticks!Boot
  <2>1. now + 1 \in 0..(MaxHour + 1)
    BY <1>0
  <2>2. /\ tick' = Ticks!StartTick(FALSE) /\ timer' = now + 1 /\ pendingTick' = FALSE /\ proc' = "up"
        /\ owed' = {} /\ UNCHANGED <<now, hour, enabled, notes>>
    BY <1>3 DEF Ticks!Boot, Ticks!msUntilNextHourTick
  <2>3. /\ tick' \in Ticks!Tick /\ tick'.pc = "load" /\ tick'.sub = {} /\ tick'.date = Ticks!civilDateBrt
    BY <2>2, Starting
  <2>4. Ticks!TypeOK'
    BY <2>1, <2>2, <2>3 DEF Ticks!TypeOK
  <2>5. TickInv'
    BY <1>0, <1>a, <2>2, <2>3 DEF TickInv
  <2> QED
    BY <2>4, <2>5
<1>4. CASE Ticks!Fire
  <2>1. now + 1 \in 0..(MaxHour + 1) /\ Ticks!NoTimer \in 0..(MaxHour + 1)
    BY <1>0 DEF Ticks!NoTimer
  <2>2. proc # "down" /\ UNCHANGED <<now, proc, hour, enabled, notes, owed>>
    BY <1>4 DEF Ticks!Fire
  <2>3. CASE tick.pc = "idle"
    <3>1. tick' = Ticks!StartTick(TRUE) /\ timer' = Ticks!NoTimer /\ UNCHANGED pendingTick
      BY <1>4, <2>3 DEF Ticks!Fire
    <3>2. tick' \in Ticks!Tick /\ tick'.pc = "load" /\ tick'.sub = {} /\ tick'.date = Ticks!civilDateBrt
      BY <3>1, Starting
    <3>3. Ticks!TypeOK'
      BY <2>1, <2>2, <3>1, <3>2 DEF Ticks!TypeOK
    <3>4. TickInv'
      BY <1>0, <1>a, <2>2, <3>1, <3>2 DEF TickInv
    <3> QED
      BY <3>3, <3>4
  <2>4. CASE tick.pc # "idle"
    <3>1. tick' = tick /\ timer' = now + 1 /\ pendingTick' = TRUE
      BY <1>4, <2>4 DEF Ticks!Fire, Ticks!msUntilNextHourTick
    <3>2. Ticks!TypeOK'
      BY <2>1, <2>2, <3>1 DEF Ticks!TypeOK
    <3>3. TickInv'
      BY <2>2, <3>1 DEF TickInv, Ticks!civilDateBrt
    <3> QED
      BY <3>2, <3>3
  <2> QED
    BY <2>3, <2>4
<1>5. CASE Ticks!Load
  <2>1. Ticks!DueAt(tick.hour) \subseteq Ticks!Subs
    BY DEF Ticks!DueAt, Ticks!TypeOK
  <2> DEFINE t == [tick EXCEPT !.pc = "scan", !.todo = Ticks!DueAt(tick.hour)]
  <2>2. t \in Ticks!Tick /\ t.pc = "scan" /\ t.sub = tick.sub /\ t.date = tick.date
    BY <1>0, <2>1 DEF Ticks!Tick
  <2>3. tick' = t /\ tick.pc = "load" /\ UNCHANGED <<now, proc, timer, pendingTick, hour, enabled, notes, owed>>
    BY <1>5 DEF Ticks!Load
  <2> HIDE DEF t
  <2>4. Ticks!TypeOK'
    BY <2>2, <2>3 DEF Ticks!TypeOK
  <2>5. TickInv'
    BY <1>0, <2>2, <2>3 DEF TickInv, Ticks!civilDateBrt
  <2> QED
    BY <2>4, <2>5
<1>6. CASE Ticks!Scan
  <2>1. PICK s \in tick.todo :
          IF Ticks!Notified(s)
            THEN tick' = [tick EXCEPT !.todo = @ \ {s}] /\ owed' = Ticks!Served(s)
            ELSE tick' = [tick EXCEPT !.pc = "create", !.todo = @ \ {s}, !.sub = {s}] /\ UNCHANGED owed
    BY <1>6 DEF Ticks!Scan
  <2>2. owed' \subseteq owed
    BY <2>1 DEF Ticks!Served
  <2>3. tick.pc = "scan" /\ UNCHANGED <<now, proc, timer, pendingTick, hour, enabled, notes>>
    BY <1>6 DEF Ticks!Scan
  <2>4. CASE Ticks!Notified(s)
    <3> DEFINE t == [tick EXCEPT !.todo = @ \ {s}]
    <3>1. t \in Ticks!Tick /\ t.pc = tick.pc /\ t.sub = tick.sub /\ t.date = tick.date
      BY <1>0 DEF Ticks!Tick
    <3>2. tick' = t
      BY <2>1, <2>4
    <3> HIDE DEF t
    <3>3. Ticks!TypeOK'
      BY <2>2, <2>3, <3>1, <3>2 DEF Ticks!TypeOK
    <3>4. TickInv'
      BY <1>0, <2>3, <3>1, <3>2 DEF TickInv, Ticks!civilDateBrt
    <3> QED
      BY <3>3, <3>4
  <2>5. CASE ~Ticks!Notified(s)
    <3> DEFINE t == [tick EXCEPT !.pc = "create", !.todo = @ \ {s}, !.sub = {s}]
    <3>1. t \in Ticks!Tick /\ t.pc = "create" /\ t.sub = {s} /\ t.date = tick.date
      BY <1>0 DEF Ticks!Tick
    <3>2. s \in Ticks!Subs
      BY <1>0 DEF Ticks!Tick
    <3>3. \A d \in Ticks!Days : d >= tick.date => notes[s][d] = 0
      BY <2>5, <3>2 DEF Ticks!Notified, Ticks!TypeOK
    <3>4. tick' = t
      BY <2>1, <2>5
    <3> HIDE DEF t
    <3>5. Ticks!TypeOK'
      BY <2>2, <2>3, <3>1, <3>4 DEF Ticks!TypeOK
    <3>6. TickInv'
      BY <1>0, <2>3, <3>1, <3>3, <3>4 DEF TickInv, Ticks!civilDateBrt
    <3> QED
      BY <3>5, <3>6
  <2> QED
    BY <2>4, <2>5
<1>7. CASE Ticks!Create
  <2>0. tick.pc = "create" /\ UNCHANGED <<now, proc, timer, pendingTick, hour, enabled>>
        /\ tick' = [tick EXCEPT !.pc = "scan", !.sub = {}]
    BY <1>7 DEF Ticks!Create
  <2>1. PICK s \in tick.sub : notes' = [notes EXCEPT ![s][Ticks!civilDateBrt] = @ + 1] /\ owed' = Ticks!Served(s)
    BY <1>7 DEF Ticks!Create
  <2>2. s \in Ticks!Subs /\ notes[s][Ticks!civilDateBrt] = 0
    BY <1>0, <2>0 DEF TickInv, Ticks!Tick
  <2>3. notes' \in [Ticks!Subs -> [Ticks!Days -> 0..1]]
    <3>1. notes[s] \in [Ticks!Days -> 0..1] /\ 1 \in 0..1
      BY <2>2 DEF Ticks!TypeOK
    <3>2. [notes[s] EXCEPT ![Ticks!civilDateBrt] = @ + 1] \in [Ticks!Days -> 0..1]
      BY <1>0, <2>2, <3>1
    <3> QED
      BY <2>1, <2>2, <3>2 DEF Ticks!TypeOK
  <2>4. tick' \in Ticks!Tick /\ tick'.pc = "scan" /\ tick'.sub = {} /\ tick'.date = tick.date
    BY <1>0, <2>0 DEF Ticks!Tick
  <2>5. owed' \subseteq owed
    BY <2>1 DEF Ticks!Served
  <2>6. Ticks!TypeOK'
    BY <2>0, <2>3, <2>4, <2>5 DEF Ticks!TypeOK
  <2>7. TickInv'
    BY <1>0, <2>0, <2>4 DEF TickInv, Ticks!civilDateBrt
  <2> QED
    BY <2>6, <2>7
<1>8. CASE Ticks!TickEnds \/ Ticks!TickFails
  <2>1. Ticks!AfterTick /\ UNCHANGED <<now, proc, hour, enabled, notes>> /\ owed' \subseteq owed /\ tick.pc # "idle"
    BY <1>8 DEF Ticks!TickEnds, Ticks!TickFails
  <2>2. proc # "down"
    BY <1>0, <2>1 DEF TickInv
  <2>3. /\ tick' \in Ticks!Tick /\ pendingTick' \in BOOLEAN /\ timer' \in 0..(MaxHour + 1)
        /\ tick'.sub = {} /\ tick'.pc \in {"idle", "load"}
        /\ tick'.pc # "idle" => tick'.date = Ticks!civilDateBrt
    BY <2>1, AfterTypes
  <2>4. Ticks!TypeOK'
    BY <2>1, <2>3 DEF Ticks!TypeOK
  <2>5. TickInv'
    BY <1>0, <1>a, <2>1, <2>2, <2>3 DEF TickInv
  <2> QED
    BY <2>4, <2>5
<1>9. CASE Ticks!Signal \/ Ticks!Drain
  <2>1. Ticks!NoTimer \in 0..(MaxHour + 1)
    BY <1>0 DEF Ticks!NoTimer
  <2> QED
    BY <1>9, <2>1 DEF Ticks!Signal, Ticks!Drain, Ticks!TypeOK, TickInv, Ticks!civilDateBrt
<1>10. CASE Ticks!Exit \/ Ticks!Kill
  <2>1. Ticks!NoTimer \in 0..(MaxHour + 1)
    BY <1>0 DEF Ticks!NoTimer
  <2> QED
    BY <1>10, <2>1, Resting DEF Ticks!Exit, Ticks!Kill, Ticks!Volatile, Ticks!TypeOK, TickInv, Ticks!civilDateBrt
<1>11. CASE UNCHANGED Ticks!vars
  BY <1>11 DEF Ticks!vars, Ticks!TypeOK, TickInv, Ticks!civilDateBrt
<1> QED
  BY <1>1, <1>2, <1>3, <1>4, <1>5, <1>6, <1>7, <1>8, <1>9, <1>10, <1>11 DEF Ticks!Next, Ticks!Run

\* The timer and the ticks keep step, as long as no tick lasts past the second
\* boundary it meets.
LEMMA TimerKept ==
  ASSUME Ticks!HourAssumption, TickHours <= 1, Ticks!TypeOK, TickInv, TimerInv, [Ticks!Next]_Ticks!vars
  PROVE  TimerInv'
<1>0. /\ now \in Nat /\ TickHours \in Nat /\ tick.crossed \in 0..TickHours
      /\ Ticks!NoTimer = 0 /\ Ticks!NoTick.pc = "idle"
  BY ClockReads, Resting DEF Ticks!TypeOK, Ticks!Tick, Ticks!NoTimer
<1>1. CASE Ticks!Clock
  <2>1. /\ now' = now + 1 /\ ~Ticks!Expired /\ UNCHANGED <<timer, pendingTick>>
        /\ tick.pc # "idle" => tick.crossed < TickHours
    BY <1>1 DEF Ticks!Clock
  <2>2. ~pendingTick
    BY <1>0, <2>1 DEF TimerInv
  <2>3. /\ tick'.pc = tick.pc /\ tick'.rearm = tick.rearm
        /\ tick.pc # "idle" => tick'.crossed = tick.crossed + 1
    BY <1>1 DEF Ticks!Clock, Ticks!TypeOK, Ticks!Tick
  <2> QED
    BY <1>0, <2>1, <2>2, <2>3 DEF TimerInv, Ticks!Expired
<1>2. CASE Ticks!Boot
  <2>1. /\ tick' = Ticks!StartTick(FALSE) /\ timer' = now + 1 /\ pendingTick' = FALSE /\ UNCHANGED now
    BY <1>2 DEF Ticks!Boot, Ticks!msUntilNextHourTick
  <2>2. ~tick'.rearm
    BY <2>1, Starting
  <2>3. ~Ticks!Expired' /\ timer' \in {now', now' + 1} /\ ~pendingTick'
    BY <1>0, <2>1 DEF Ticks!Expired
  <2> QED
    BY <2>2, <2>3 DEF TimerInv
<1>3. CASE Ticks!Fire
  <2>1. Ticks!Expired /\ UNCHANGED now
    BY <1>3 DEF Ticks!Fire
  <2>2. CASE tick.pc = "idle"
    <3>1. tick' = Ticks!StartTick(TRUE) /\ timer' = Ticks!NoTimer /\ UNCHANGED pendingTick
      BY <1>3, <2>2 DEF Ticks!Fire
    <3>2. tick'.pc = "load" /\ tick'.crossed = 0 /\ ~pendingTick
      BY <2>1, <2>2, <3>1, Starting DEF TimerInv
    <3> QED
      BY <1>0, <2>1, <3>1, <3>2 DEF TimerInv, Ticks!Expired
  <2>3. CASE tick.pc # "idle"
    <3>1. tick' = tick /\ timer' = now + 1 /\ pendingTick' = TRUE
      BY <1>3, <2>3 DEF Ticks!Fire, Ticks!msUntilNextHourTick
    <3> QED
      BY <1>0, <2>1, <2>3, <3>1 DEF TimerInv, Ticks!Expired
  <2> QED
    BY <2>2, <2>3
<1>4. CASE Ticks!TickEnds \/ Ticks!TickFails
  <2>1. Ticks!AfterTick /\ UNCHANGED now /\ tick.pc # "idle"
    BY <1>4 DEF Ticks!TickEnds, Ticks!TickFails
  <2>2. CASE pendingTick
    <3>1. tick' = Ticks!StartTick(tick.rearm) /\ pendingTick' = FALSE /\ UNCHANGED timer
      BY <2>1, <2>2 DEF Ticks!AfterTick
    <3>2. tick'.pc = "load" /\ tick'.rearm = tick.rearm
      BY <3>1, Starting DEF Ticks!TypeOK, Ticks!Tick
    <3> QED
      BY <1>0, <2>1, <2>2, <3>1, <3>2 DEF TimerInv, Ticks!Expired
  <2>3. CASE ~pendingTick
    <3>1. tick' = Ticks!NoTick /\ UNCHANGED pendingTick /\ timer' \in {timer, now + 1}
      BY <2>1, <2>3 DEF Ticks!AfterTick, Ticks!msUntilNextHourTick
    <3> QED
      BY <1>0, <2>1, <2>3, <3>1 DEF TimerInv, Ticks!Expired
  <2> QED
    BY <2>2, <2>3
<1>5. CASE Ticks!Load
  <2>1. UNCHANGED <<now, timer, pendingTick>> /\ tick.pc = "load"
        /\ tick'.pc = "scan" /\ tick'.rearm = tick.rearm /\ tick'.crossed = tick.crossed
    BY <1>5 DEF Ticks!Load, Ticks!TypeOK, Ticks!Tick
  <2> QED
    BY <1>0, <2>1 DEF TimerInv, Ticks!Expired
<1>6. CASE Ticks!Scan
  <2>1. UNCHANGED <<now, timer, pendingTick>> /\ tick.pc = "scan"
        /\ tick'.pc \in {"scan", "create"} /\ tick'.rearm = tick.rearm /\ tick'.crossed = tick.crossed
    BY <1>6 DEF Ticks!Scan, Ticks!TypeOK, Ticks!Tick
  <2> QED
    BY <1>0, <2>1 DEF TimerInv, Ticks!Expired
<1>7. CASE Ticks!Create
  <2>1. UNCHANGED <<now, timer, pendingTick>> /\ tick.pc = "create"
        /\ tick'.pc = "scan" /\ tick'.rearm = tick.rearm /\ tick'.crossed = tick.crossed
    BY <1>7 DEF Ticks!Create, Ticks!TypeOK, Ticks!Tick
  <2> QED
    BY <1>0, <2>1 DEF TimerInv, Ticks!Expired
<1>8. CASE Ticks!Signal
  BY <1>0, <1>8 DEF Ticks!Signal, TimerInv, Ticks!Expired
<1>9. CASE Ticks!Exit \/ Ticks!Kill
  BY <1>0, <1>9 DEF Ticks!Exit, Ticks!Kill, Ticks!Volatile, TimerInv, Ticks!Expired
<1>10. CASE Ticks!Drain \/ (\E u \in Users : Ticks!Patch(u)) \/ UNCHANGED Ticks!vars
  BY <1>10 DEF Ticks!Drain, Ticks!Patch, Ticks!vars, TimerInv, Ticks!Expired
<1> QED
  BY <1>1, <1>2, <1>3, <1>4, <1>5, <1>6, <1>7, <1>8, <1>9, <1>10 DEF Ticks!Next, Ticks!Run

\* What is owed is on its way to be served.
LEMMA OwedKept ==
  ASSUME Ticks!HourAssumption, TickHours <= 1, Ticks!TypeOK, TickInv, TimerInv, OwedInv, [Ticks!Next]_Ticks!vars
  PROVE  OwedInv'
<1> SUFFICES ASSUME NEW s \in Ticks!Subs, <<s, TRUE>> \in owed'
             PROVE  Awaited(s)'
  BY DEF OwedInv
<1>0. /\ now \in Nat /\ TickHours \in Nat /\ tick.crossed \in 0..TickHours
      /\ Ticks!NoTimer = 0 /\ Ticks!NoTick.pc = "idle"
  BY ClockReads, Resting DEF Ticks!TypeOK, Ticks!Tick, Ticks!NoTimer
<1>a. <<s, TRUE>> \in owed => Awaited(s)
  BY DEF OwedInv
<1>1. CASE Ticks!Clock
  <2>1. /\ now' = now + 1 /\ ~Ticks!Expired /\ UNCHANGED <<timer, pendingTick, hour, enabled>>
        /\ tick.pc # "idle" => tick.crossed < TickHours
    BY <1>1 DEF Ticks!Clock
  <2>2. ~pendingTick
    BY <1>0, <2>1 DEF TimerInv
  <2>3. /\ tick'.pc = tick.pc /\ tick'.hour = tick.hour /\ tick'.todo = tick.todo /\ tick'.sub = tick.sub
    BY <1>1 DEF Ticks!Clock, Ticks!TypeOK, Ticks!Tick
  <2>4. CASE <<s, TRUE>> \in owed
    BY <1>a, <2>1, <2>2, <2>3, <2>4 DEF Awaited, Ticks!DueAt
  <2>5. CASE <<s, TRUE>> \notin owed
    <3>1. <<s, TRUE>> \in Ticks!DueAt(now' % HoursPerDay) \X {timer = now'}
      BY <1>1, <2>5 DEF Ticks!Clock
    <3>2. s \in Ticks!DueAt(now' % HoursPerDay) /\ timer = now'
      BY <3>1
    <3>3. Ticks!Expired' /\ Ticks!DueAt(now' % HoursPerDay) = Ticks!DueAt(Ticks!civilHourBrt)'
      BY <1>0, <2>1, <3>2 DEF Ticks!Expired, Ticks!DueAt, Ticks!civilHourBrt
    <3> QED
      BY <3>2, <3>3 DEF Awaited
  <2> QED
    BY <2>4, <2>5
<1>2. ASSUME NEW u \in Users, Ticks!Patch(u) PROVE Awaited(s)'
  <2>1. <<s, TRUE>> \in owed /\ s[1] # u
    BY <1>2 DEF Ticks!Patch, Ticks!WithoutUser
  <2>2. \A h : s \in Ticks!DueAt(h) => s \in Ticks!DueAt(h)'
    BY <1>2, <2>1 DEF Ticks!Patch, Ticks!DueAt, Ticks!TypeOK, Ticks!Subs
  <2>3. UNCHANGED <<now, timer, tick, pendingTick>> /\ (Ticks!civilHourBrt' = Ticks!civilHourBrt) /\ (Ticks!Expired' <=> Ticks!Expired)
    BY <1>2 DEF Ticks!Patch, Ticks!civilHourBrt, Ticks!Expired
  <2> QED
    BY <1>a, <2>1, <2>2, <2>3 DEF Awaited
<1>3. CASE Ticks!Boot \/ Ticks!Signal \/ Ticks!Exit \/ Ticks!Kill \/ Ticks!TickFails
  BY <1>3 DEF Ticks!Boot, Ticks!Signal, Ticks!Exit, Ticks!Kill, Ticks!Volatile, Ticks!TickFails
<1>4. CASE Ticks!Fire
  <2>1. Ticks!Expired /\ UNCHANGED <<now, hour, enabled, owed>>
    BY <1>4 DEF Ticks!Fire
  <2>a. Ticks!civilHourBrt' = Ticks!civilHourBrt /\ \A h : Ticks!DueAt(h)' = Ticks!DueAt(h)
    BY <2>1 DEF Ticks!civilHourBrt, Ticks!DueAt
  <2>2. CASE tick.pc = "idle"
    <3>1. tick' = Ticks!StartTick(TRUE)
      BY <1>4, <2>2 DEF Ticks!Fire
    <3>2. tick'.pc = "load" /\ tick'.hour = Ticks!civilHourBrt
      BY <3>1, Starting
    <3>3. ~pendingTick
      BY <2>1 DEF TimerInv
    <3> QED
      BY <1>a, <2>1, <2>a, <2>2, <3>2, <3>3 DEF Awaited
  <2>3. CASE tick.pc # "idle"
    <3>1. tick' = tick /\ timer' = now + 1 /\ pendingTick' = TRUE
      BY <1>4, <2>3 DEF Ticks!Fire, Ticks!msUntilNextHourTick
    <3> QED
      BY <1>a, <2>1, <2>a, <2>3, <3>1 DEF Awaited
  <2> QED
    BY <2>2, <2>3
<1>5. CASE Ticks!TickEnds
  <2>1. Ticks!AfterTick /\ UNCHANGED <<now, hour, enabled, owed>> /\ tick.pc = "scan" /\ tick.todo = {}
    BY <1>5 DEF Ticks!TickEnds
  <2>a. Ticks!civilHourBrt' = Ticks!civilHourBrt /\ \A h : Ticks!DueAt(h)' = Ticks!DueAt(h)
    BY <2>1 DEF Ticks!civilHourBrt, Ticks!DueAt
  <2>2. (Ticks!Expired \/ pendingTick) /\ s \in Ticks!DueAt(Ticks!civilHourBrt)
    BY <1>a, <2>1 DEF Awaited, TickInv
  <2>3. CASE pendingTick
    <3>1. tick' = Ticks!StartTick(tick.rearm)
      BY <2>1, <2>3 DEF Ticks!AfterTick
    <3>2. tick'.pc = "load" /\ tick'.hour = Ticks!civilHourBrt
      BY <3>1, Starting DEF Ticks!TypeOK, Ticks!Tick
    <3> QED
      BY <2>a, <2>2, <3>2 DEF Awaited
  <2>4. CASE ~pendingTick
    <3>1. Ticks!Expired /\ ~tick.rearm
      BY <2>1, <2>2, <2>4 DEF TimerInv, Ticks!Expired
    <3>2. timer' = timer
      BY <2>1, <2>4, <3>1 DEF Ticks!AfterTick
    <3> QED
      BY <2>1, <2>a, <2>2, <3>1, <3>2 DEF Awaited, Ticks!Expired
  <2> QED
    BY <2>3, <2>4
<1>6. CASE Ticks!Load
  <2>1. /\ UNCHANGED <<now, timer, pendingTick, hour, enabled, owed>> /\ tick.pc = "load"
        /\ tick'.pc = "scan" /\ tick'.todo = Ticks!DueAt(tick.hour)
    BY <1>6 DEF Ticks!Load, Ticks!TypeOK, Ticks!Tick
  <2>2. Ticks!civilHourBrt' = Ticks!civilHourBrt /\ (Ticks!Expired' <=> Ticks!Expired) /\ \A h : Ticks!DueAt(h)' = Ticks!DueAt(h)
    BY <2>1 DEF Ticks!civilHourBrt, Ticks!DueAt, Ticks!Expired
  <2> QED
    BY <1>a, <2>1, <2>2 DEF Awaited
<1>7. CASE Ticks!Scan
  <2>1. /\ UNCHANGED <<now, timer, pendingTick, hour, enabled>> /\ tick.pc = "scan"
    BY <1>7 DEF Ticks!Scan
  <2>2. Ticks!civilHourBrt' = Ticks!civilHourBrt /\ (Ticks!Expired' <=> Ticks!Expired) /\ \A h : Ticks!DueAt(h)' = Ticks!DueAt(h)
    BY <2>1 DEF Ticks!civilHourBrt, Ticks!DueAt, Ticks!Expired
  <2>3. PICK x \in tick.todo :
          IF Ticks!Notified(x)
            THEN tick' = [tick EXCEPT !.todo = @ \ {x}] /\ owed' = Ticks!Served(x)
            ELSE tick' = [tick EXCEPT !.pc = "create", !.todo = @ \ {x}, !.sub = {x}] /\ UNCHANGED owed
    BY <1>7 DEF Ticks!Scan
  <2>4. CASE Ticks!Notified(x)
    <3>1. /\ tick'.pc = tick.pc /\ tick'.todo = tick.todo \ {x} /\ tick'.sub = tick.sub
          /\ <<s, TRUE>> \in owed /\ s # x
      BY <2>3, <2>4 DEF Ticks!TypeOK, Ticks!Tick, Ticks!Served
    <3> QED
      BY <1>a, <2>1, <2>2, <3>1 DEF Awaited
  <2>5. CASE ~Ticks!Notified(x)
    <3>1. /\ tick'.pc = "create" /\ tick'.todo = tick.todo \ {x} /\ tick'.sub = {x}
          /\ <<s, TRUE>> \in owed
      BY <2>3, <2>5 DEF Ticks!TypeOK, Ticks!Tick
    <3>2. tick.sub = {}
      BY <2>1 DEF TickInv
    <3> QED
      BY <1>a, <2>1, <2>2, <3>1, <3>2 DEF Awaited
  <2> QED
    BY <2>4, <2>5
<1>8. CASE Ticks!Create
  <2>1. /\ UNCHANGED <<now, timer, pendingTick, hour, enabled>> /\ tick.pc = "create"
        /\ tick'.pc = "scan" /\ tick'.todo = tick.todo
    BY <1>8 DEF Ticks!Create, Ticks!TypeOK, Ticks!Tick
  <2>2. Ticks!civilHourBrt' = Ticks!civilHourBrt /\ (Ticks!Expired' <=> Ticks!Expired) /\ \A h : Ticks!DueAt(h)' = Ticks!DueAt(h)
    BY <2>1 DEF Ticks!civilHourBrt, Ticks!DueAt, Ticks!Expired
  <2>3. <<s, TRUE>> \in owed /\ s \notin tick.sub
    <3>1. PICK x \in tick.sub : owed' = Ticks!Served(x)
      BY <1>8 DEF Ticks!Create
    <3>2. \A y \in tick.sub : y = x
      BY <3>1 DEF TickInv
    <3> QED
      BY <3>1, <3>2 DEF Ticks!Served
  <2> QED
    BY <1>a, <2>1, <2>2, <2>3 DEF Awaited
<1>9. CASE Ticks!Drain \/ UNCHANGED Ticks!vars
  BY <1>a, <1>9 DEF Ticks!Drain, Ticks!vars, Awaited, Ticks!Expired, Ticks!DueAt, Ticks!civilHourBrt
<1> QED
  BY <1>1, <1>2, <1>3, <1>4, <1>5, <1>6, <1>7, <1>8, <1>9 DEF Ticks!Next, Ticks!Run

LEMMA AtMostOnce ==
  ASSUME Ticks!HourAssumption
  PROVE  Ticks!Init /\ [][Ticks!Next]_Ticks!vars => []Ticks!OncePerDay
<1>1. Ticks!Init => Ticks!TypeOK /\ TickInv
  BY TicksInit DEF TicksInv
<1>2. Ticks!TypeOK /\ TickInv /\ [Ticks!Next]_Ticks!vars => Ticks!TypeOK' /\ TickInv'
  BY TicksTyped
<1>3. Ticks!TypeOK => Ticks!OncePerDay
  BY DEF Ticks!TypeOK, Ticks!OncePerDay
<1> QED
  BY <1>1, <1>2, <1>3, PTL

LEMMA EveryHour ==
  ASSUME Ticks!HourAssumption, TickHours <= 1
  PROVE  Ticks!Init /\ [][Ticks!Next]_Ticks!vars => []Ticks!HourServed
<1>1. Ticks!Init => TicksInv
  BY TicksInit
<1>2. TicksInv /\ [Ticks!Next]_Ticks!vars => TicksInv'
  BY TicksTyped, TimerKept, OwedKept DEF TicksInv
<1>3. ASSUME TicksInv, Ticks!Quiet, NEW s \in Ticks!Subs PROVE <<s, TRUE>> \notin owed
  <2>1. ~pendingTick
    BY <1>3 DEF TicksInv, Ticks!Quiet, TimerInv
  <2>2. ~Ticks!Expired
    BY <1>3, ClockReads DEF TicksInv, Ticks!TypeOK, Ticks!Quiet, Ticks!Expired
  <2> QED
    BY <1>3, <2>1, <2>2 DEF TicksInv, OwedInv, Awaited, Ticks!Quiet
<1>4. TicksInv => Ticks!HourServed
  BY <1>3 DEF Ticks!HourServed
<1> QED
  BY <1>1, <1>2, <1>4, PTL

-----------------------------------------------------------------------------
(* The three in one run                                                    *)

LEMMA JobsStep ==
  [NextMC]_<<date, jobVars, tickVars, part>> => [Jobs!Next]_Jobs!vars
  BY DEF NextMC, jobVars, Jobs!vars

LEMMA TicksStep ==
  [NextMC]_<<date, jobVars, tickVars, part>> => [Ticks!Next]_Ticks!vars
  BY DEF NextMC, tickVars, Ticks!vars

LEMMA JobsInRun == SpecMC => []JobsInv
<1>1. InitMC => JobsInv
  BY HoroscopesAssumption, JobsInit DEF InitMC
<1>2. JobsInv /\ [Jobs!Next]_Jobs!vars => JobsInv'
  BY HoroscopesAssumption, JobsInductive
<1> QED
  BY <1>1, <1>2, JobsStep, PTL DEF SpecMC

\* In every run of the queue, two runs that hold their locks write different
\* rows, and what the queue calls completed can be read.
THEOREM QueueAlwaysSound == SpecMC => []JobsSound
<1>1. JobsInv => JobsSound
  BY DEF JobsInv, LockInv, RunInv, RowInv, DateInv, Jobs!OneRunPerRow, Jobs!CompletedHasRow, JobsSound
<1> QED
  BY <1>1, JobsInRun, PTL

\* Nothing that was generated is overwritten.
THEOREM GeneratedAlwaysStays == SpecMC => GeneratedStays
<1>1. JobsInv /\ [Jobs!Next]_Jobs!vars
        => [\A r \in Jobs!Keys : Jobs!Generated(rows[r]) => rows'[r] = rows[r]]_rows
  BY HoroscopesAssumption, StoredStays
<1> QED
  BY <1>1, JobsInRun, JobsStep, PTL DEF SpecMC, GeneratedStays, Jobs!GeneratedStays

LEMMA TicksInRun == SpecMC => Ticks!Init /\ [][Ticks!Next]_Ticks!vars
<1>1. InitMC => Ticks!Init
  BY DEF InitMC
<1> QED
  BY <1>1, TicksStep, PTL DEF SpecMC

\* No user is told twice on a day, however ticks, catch-ups, changes of the
\* hour and restarts meet.
THEOREM NeverToldTwice == SpecMC => []Ticks!OncePerDay
<1>1. Ticks!Init /\ [][Ticks!Next]_Ticks!vars => []Ticks!OncePerDay
  BY HoroscopesAssumption, AtMostOnce
<1> QED
  BY <1>1, TicksInRun, PTL

\* No hour that began with the timer armed is left out, as long as no tick
\* lasts past the second boundary it meets.
THEOREM TicksAlwaysSound ==
  ASSUME TickHours <= 1
  PROVE  SpecMC => []TicksSound
<1>1. Ticks!Init /\ [][Ticks!Next]_Ticks!vars => []Ticks!HourServed
  BY HoroscopesAssumption, EveryHour
<1>2. Ticks!OncePerDay /\ Ticks!HourServed => TicksSound
  BY DEF TicksSound
<1> QED
  BY <1>1, <1>2, NeverToldTwice, TicksInRun, PTL

\* The calendar of the run is the walk of Signs.
LEMMA WalkInRun == SpecMC => Spec
<1>1. InitMC => Init
  BY DEF InitMC
<1>2. [NextMC]_<<date, jobVars, tickVars, part>> => [Next]_date
  BY DEF NextMC
<1> QED
  BY <1>1, <1>2, PTL DEF SpecMC, Spec

\* In the run of the horoscopes the readings of any day agree with one another:
\* kin, seal and tone, the wave, the one western sign, a template for every
\* sign, the arcana.
THEOREM SignsAlwaysAgree ==
    ASSUME Years \subseteq Nat \ {0}
    PROVE  SpecMC => []SignsAgreeDaily
<1>1. DayReadsWhole => SignsAgreeDaily
  BY DEF SignsAgreeDaily
<1> QED
  BY <1>1, WalkInRun, DayAlwaysWhole, PTL

\* And they follow from those of the day before.
THEOREM RunAdvances ==
    ASSUME Years \subseteq Nat \ {0}, \A y \in Years : y <= LastFullYear
    PROVE  SpecMC => CyclesAdvance
<1>1. Spec => CyclesAdvance
  BY CyclesAlwaysAdvance
<1> QED
  BY <1>1, WalkInRun, PTL
=============================================================================
