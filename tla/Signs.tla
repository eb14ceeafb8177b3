------------------------------- MODULE Signs -------------------------------
(***************************************************************************)
(* What the application computes from a civil date: the western, Chinese   *)
(* and Maya sign of a person (src/lib/horoscopes, src/lib/calculations),   *)
(* the arcana of a birth date and a name (src/lib/arcana), the row keys of *)
(* a day, a week and a month (dates.ts), and the templates the seed and    *)
(* the horoscope routes fall back to (fallback.ts).  The functions are     *)
(* pure; the specification walks through the days, so that each of them is *)
(* compared with itself one day later and with the others on the same day. *)
(*                                                                         *)
(* Texts (names, keywords, meanings, templates' wording) are left out.     *)
(***************************************************************************)
EXTENDS Integers, Sequences, SequencesExt, TLC

CONSTANTS
    Years,      \* bound: the years whose days are walked through
    Names       \* the names whose arcana is computed, as sequences of letters

\* Of a letter only its place in the alphabet matters, 0 for any other sign.
ASSUME NamesAssumption == Names \subseteq Seq(0..26)

VARIABLE date   \* the civil day: a birth date, and the day of a request

NONE == "none"

-----------------------------------------------------------------------------
(* The civil calendar: JavaScript's Date in UTC.                           *)

Leap(y) == (y % 4 = 0 /\ y % 100 # 0) \/ y % 400 = 0

MonthLength(y, m) ==
    IF m = 2 THEN IF Leap(y) THEN 29 ELSE 28
             ELSE IF m \in {4, 6, 9, 11} THEN 30 ELSE 31

Day(y, m, d) == [year |-> y, month |-> m, day |-> d]

After(d) ==
    IF d.day < MonthLength(d.year, d.month) THEN Day(d.year, d.month, d.day + 1)
    ELSE IF d.month < 12 THEN Day(d.year, d.month + 1, 1)
                         ELSE Day(d.year + 1, 1, 1)

\* In place of a birth date that is not known.
NoDay == Day(0, 0, 0)

\* Days since the first of January of the year 1, which was a Monday.
DaysBeforeMonth ==
    <<0, 31, 59, 90, 120, 151, 181, 212, 243, 273, 304, 334>>

UTC(d) ==
    LET y == d.year - 1
    IN  365 * y + (y \div 4) - (y \div 100) + (y \div 400)
          + DaysBeforeMonth[d.month] + d.day
          + (IF d.month > 2 /\ Leap(d.year) THEN 1 ELSE 0)

getUTCDay(n) == n % 7

-----------------------------------------------------------------------------
(* Maya: the Tzolkin and the long count, by the GMT correlation.           *)

GMT_CORRELATION_JDN == 584283

gregorianToJdn(d) ==
    LET a == (14 - d.month) \div 12
        y == d.year + 4800 - a
        m == d.month + 12 * a - 3
    IN  d.day + ((153 * m + 2) \div 5) + 365 * y
          + (y \div 4) - (y \div 100) + (y \div 400) - 32045

\* Mutant: the kin of the design's pseudo-code (maya.ts:9).
DesignCount(d) ==
    LET n    == gregorianToJdn(d) - GMT_CORRELATION_JDN
        tone == ((n + 3) % 13) + 1
        seal == (n + 19) % 20
    IN  [longCount |-> [baktun |-> 0, katun |-> 0, tun |-> 0, uinal |-> 0, kin |-> n],
         tzolkinTone |-> tone, tzolkinSeal |-> seal,
         kinNumber |-> (tone - 1) * 20 + seal + 1]

gregorianToMayanLongCount(d) ==
    LET n == gregorianToJdn(d) - GMT_CORRELATION_JDN
    IN  [longCount   |-> [baktun |-> (n \div 144000) % 20,
                          katun  |-> ((n % 144000) \div 7200) % 20,
                          tun    |-> ((n % 7200) \div 360) % 20,
                          uinal  |-> ((n % 360) \div 20) % 18,
                          kin    |-> n % 20],
         tzolkinTone |-> ((n + 3) % 13) + 1,
         tzolkinSeal |-> (n + 19) % 20,
         kinNumber   |-> ((n + 159) % 260) + 1]

calculateKinMaya(d) == gregorianToMayanLongCount(d).kinNumber

\* A kin as the sign identifier of a row.
KinIds == [kin \in 1..260 |-> ToString(kin)]

\* Different kins are written differently.
ASSUME KinIdsAssumption ==
    \A k, l \in 1..260 : KinIds[k] = KinIds[l] => k = l

kinToSealTone(kin) ==
    [sealIndex |-> (kin - 1) % 20, toneId |-> ((kin - 1) % 13) + 1]

MAYAN_KIN_COUNT == 260

\* The twenty seals, by their colour, and the thirteen tones.
MAYAN_SEALS ==
    [id \in 0..19 |-> <<"vermelho", "branco", "azul", "amarelo">>[(id % 4) + 1]]
MAYAN_TONES == 1..13

CAMARA_POSITIONS == <<2, 3, 4, 6, 7, 8, 10, 11, 12>>

getMayanOndaEncantada(kin) ==
    LET start == ((kin - 1) \div 13) * 13 + 1
    IN  [waveStartKin |-> start,
         waveSeal     |-> (start - 1) % 20,
         chambers     |-> [i \in DOMAIN CAMARA_POSITIONS |->
             [position  |-> CAMARA_POSITIONS[i],
              kinNumber |-> start + CAMARA_POSITIONS[i] - 1,
              is        |-> kinToSealTone(start + CAMARA_POSITIONS[i] - 1)]]]

-----------------------------------------------------------------------------
(* Western: the catalogue and the older table of the profile.              *)

Sign(id, from, to) == [id |-> id, start |-> from, end |-> to]

\* Month and day as month * 100 + day.
WESTERN_SIGNS ==
    << Sign("aries", 321, 419),        Sign("touro", 420, 520),
       Sign("gemeos", 521, 620),       Sign("cancer", 621, 722),
       Sign("leao", 723, 822),         Sign("virgem", 823, 922),
       Sign("libra", 923, 1022),       Sign("escorpiao", 1023, 1121),
       Sign("sagitario", 1122, 1221),  Sign("capricornio", 1222, 119),
       Sign("aquario", 120, 218),      Sign("peixes", 219, 320) >>

\* The signs whose range holds the day; Capricorn crosses the year.
SignsOf(mmdd) ==
    {i \in DOMAIN WESTERN_SIGNS :
        LET s == WESTERN_SIGNS[i]
        IN  IF s.start > s.end THEN mmdd >= s.start \/ mmdd <= s.end
                               ELSE mmdd >= s.start /\ mmdd <= s.end}

\* The position of the first sign that holds the day.
getWesternSign(d) ==
    LET found == SignsOf(d.month * 100 + d.day)
    IN  CHOOSE i \in found : \A j \in found : i <= j

ZODIAC ==
    << <<"capricornio", 12, 22>>, <<"aquario", 1, 20>>,  <<"peixes", 2, 19>>,
       <<"aries", 3, 21>>,        <<"touro", 4, 20>>,    <<"gemeos", 5, 21>>,
       <<"cancer", 6, 21>>,       <<"leao", 7, 23>>,     <<"virgem", 8, 23>>,
       <<"libra", 9, 23>>,        <<"escorpiao", 10, 23>>,
       <<"sagitario", 11, 22>> >>

\* The sign the profile stores: the entry of the month, or the one before it.
calculateZodiacSign(d) ==
    LET i == CHOOSE i \in DOMAIN ZODIAC : ZODIAC[i][2] = d.month
    IN  IF d.day >= ZODIAC[i][3] THEN ZODIAC[i][1]
        ELSE ZODIAC[IF i = 1 THEN Len(ZODIAC) ELSE i - 1][1]

-----------------------------------------------------------------------------
(* Chinese: the year begins with the Chinese New Year.                     *)

\* From 1980 on, one entry a year.
CHINESE_NEW_YEAR_DATES ==
    <<216, 205, 125, 213, 202, 220, 209, 129, 217, 206,
      127, 215, 204, 123, 210, 131, 219, 207, 128, 216,
      205, 124, 212, 201, 122, 209, 129, 218, 207, 126,
      214, 203, 123, 210, 131, 219, 208, 128, 216, 205,
      125, 212, 201, 122, 210, 129, 217, 206, 126, 213,
      203, 123, 211, 131, 219, 208>>

getChineseNewYear(y) ==
    IF y - 1979 \in DOMAIN CHINESE_NEW_YEAR_DATES
    THEN CHINESE_NEW_YEAR_DATES[y - 1979] ELSE 204

CHINESE_ANIMALS ==
    <<"rato", "boi", "tigre", "coelho", "dragao", "serpente",
      "cavalo", "cabra", "macaco", "galo", "cao", "porco">>

chineseYearElement(y) ==
    <<"madeira", "fogo", "terra", "metal", "agua">>[(((y - 4) % 10) \div 2) + 1]

\* Mutant: the civil year, whenever the Chinese one begins.
ZodiacOfCivilYear(d) ==
    [animal  |-> CHINESE_ANIMALS[((d.year - 1984) % 12) + 1],
     element |-> chineseYearElement(d.year),
     year    |-> d.year]

getChineseZodiac(d) ==
    LET y == IF d.month * 100 + d.day < getChineseNewYear(d.year)
             THEN d.year - 1 ELSE d.year
    IN  [animal  |-> CHINESE_ANIMALS[((y - 1984) % 12) + 1],
         element |-> chineseYearElement(y),
         year    |-> y]

-----------------------------------------------------------------------------
(* The arcana of a birth date and a name.                                  *)

\* A = 1 ... Z = 26, after accents and case are removed; 0 is any other sign.
getLetterValue(letter) == IF letter = 0 THEN 0 ELSE ((letter - 1) % 9) + 1

Digits[n \in Nat] == IF n < 10 THEN n ELSE (n % 10) + Digits[n \div 10]

Reduced[n \in Nat] == IF n > 22 THEN Reduced[Digits[n]] ELSE n

reduceToArcana(n) == IF Reduced[n] = 0 THEN 22 ELSE Reduced[n]

Reductions[n \in Nat] ==
    CASE n > 22 -> <<n>> \o Reductions[Digits[n]]
      [] n = 0  -> <<0, 22>>
      [] OTHER  -> <<n>>

explainReduction(n) == Reductions[n]

DateSum(d) == Digits[d.year] + Digits[d.month] + Digits[d.day]

NameSum(name) ==
    LET upTo[i \in 0..Len(name)] ==
            IF i = 0 THEN 0 ELSE upTo[i - 1] + getLetterValue(name[i])
    IN  upTo[Len(name)]

calculateArcanaByDate(d) == reduceToArcana(DateSum(d))

calculateArcanaByName(name) ==
    IF name = <<>> THEN 22 ELSE reduceToArcana(NameSum(name))

calculatePersonalArcana(d, name) ==
    IF name = <<>> THEN NONE ELSE reduceToArcana(DateSum(d) + NameSum(name))

-----------------------------------------------------------------------------
(* The row keys of a day, its week and its month.                          *)

\* The ISO week: the year of its Thursday and the weeks since the first one.
isoWeekFromFlat(d) ==
    LET Monday0(n)    == (getUTCDay(n) + 6) % 7
        Thursday(n)   == n - Monday0(n) + 3
        thursday      == Thursday(UTC(d))
        isoYear       == CHOOSE y \in {d.year - 1, d.year, d.year + 1} :
                            UTC(Day(y, 1, 1)) <= thursday
                              /\ thursday < UTC(Day(y + 1, 1, 1))
        firstThursday == Thursday(UTC(Day(isoYear, 1, 4)))
    IN  [year |-> isoYear, week |-> 1 + (thursday - firstThursday) \div 7]

periodRowKey(period, d) ==
    CASE period = "weekly"  -> isoWeekFromFlat(d)
      [] period = "monthly" -> [year |-> d.year, month |-> d.month]
      [] OTHER              -> d

Periods == {"daily", "weekly", "monthly"}
Systems == {"western", "chinese", "maya"}

\* A template's own date is a plain day: a week's or a month's key becomes
\* the current day.
contentDateFor(key, today) ==
    IF DOMAIN key = {"year", "month", "day"} THEN key ELSE today

-----------------------------------------------------------------------------
(* The sign of a user, and the template of a sign.                         *)

resolveUserSign(system, user) ==
    LET d == user.birthDate
        resolved(id, element) ==
            [type |-> system, signId |-> id, element |-> element]
    IN  CASE system = "western" /\ d # NoDay ->
               resolved(WESTERN_SIGNS[getWesternSign(d)].id, NONE)
          [] system = "western" /\ d = NoDay /\ user.astrologicalSign # NONE ->
               resolved(user.astrologicalSign, NONE)
          [] system = "chinese" /\ d # NoDay ->
               resolved(getChineseZodiac(d).animal, getChineseZodiac(d).element)
          [] system = "maya" /\ d # NoDay -> resolved(KinIds[calculateKinMaya(d)], NONE)
          [] OTHER -> resolved(NONE, NONE)

\* The sixty pairs of an animal and an element, from the year 1984 on.
CHINESE_COMBOS ==
    [y \in 0..59 |-> [animalId |-> CHINESE_ANIMALS[(y % 12) + 1],
                      element  |-> chineseYearElement(1984 + y)]]

Template(id, element, number, other) ==
    [signId |-> id, element |-> element,
     luckyNumber |-> number, compatibility |-> other]

buildWesternFallback(index) ==
    Template(WESTERN_SIGNS[index].id, NONE, (((index - 1) * 7 + 3) % 99) + 1,
             WESTERN_SIGNS[(index % 12) + 1].id)

buildChineseFallback(y) ==
    Template(CHINESE_ANIMALS[(y % 12) + 1], CHINESE_COMBOS[y % 60].element,
             ((y * 7 + 5) % 99) + 1, CHINESE_ANIMALS[((y + 1) % 12) + 1])

buildMayaFallback(kin) ==
    Template(KinIds[kin], NONE, ((kin * 13 + 1) % 99) + 1,
             KinIds[((kin + 64) % MAYAN_KIN_COUNT) + 1])

CombosOf(sign) ==
    {y \in 0..59 : /\ CHINESE_COMBOS[y].animalId = sign.signId
                   /\ sign.element \in {NONE, CHINESE_COMBOS[y].element}}

\* Where the code throws: no sign of the system has this name.
NoTemplate == Template(NONE, NONE, 0, NONE)

buildFallbackFor(sign) ==
    CASE sign.type = "western" ->
           LET found == {i \in DOMAIN WESTERN_SIGNS :
                            WESTERN_SIGNS[i].id = sign.signId}
           IN  IF found = {} THEN NoTemplate
               ELSE buildWesternFallback(CHOOSE i \in found : TRUE)
      [] sign.type = "chinese" ->
           LET found == CombosOf(sign)
           IN  IF found = {} THEN NoTemplate
               ELSE buildChineseFallback(
                        CHOOSE y \in found : \A z \in found : y <= z)
      [] OTHER ->
           LET found == {kin \in DOMAIN KinIds : KinIds[kin] = sign.signId}
           IN  IF found = {} THEN NoTemplate
               ELSE buildMayaFallback(CHOOSE kin \in found : TRUE)

\* The rows the seed writes on a day: every sign, for these keys.
SeededSigns ==
    {[type |-> "western", signId |-> WESTERN_SIGNS[i].id, element |-> NONE] :
        i \in DOMAIN WESTERN_SIGNS}
    \cup {[type |-> "chinese", signId |-> CHINESE_COMBOS[y].animalId,
           element |-> CHINESE_COMBOS[y].element] : y \in 0..59}
    \cup {[type |-> "maya", signId |-> KinIds[kin], element |-> NONE] :
        kin \in 1..MAYAN_KIN_COUNT}

SeededIds ==
    [system \in Systems |-> {s.signId : s \in {r \in SeededSigns : r.type = system}}]

fallbackDates(today) ==
    [daily   |-> {today, After(today)},
     weekly  |-> {isoWeekFromFlat(today)},
     monthly |-> {[year |-> today.year, month |-> today.month]}]

\* One of the three parts of my-horoscope, for each period, when no generated
\* row is stored.
resolveSystem(system, user, today) ==
    LET sign == resolveUserSign(system, user)
    IN  [sign |-> sign,
         content |-> buildFallbackFor(sign),
         rows |-> [period \in Periods |->
             [key  |-> periodRowKey(period, today),
              date |-> contentDateFor(periodRowKey(period, today), today)]]]

-----------------------------------------------------------------------------
Init == date \in {Day(y, 1, 1) : y \in Years}

NextDay ==
    /\ date.year \in Years
    /\ date' = After(date)

Next == NextDay

Spec == Init /\ [][Next]_date

-----------------------------------------------------------------------------
(* Properties                                                              *)

\* The kin of a day carries its tone and its seal (maya.ts:8): what the kin
\* is split into (maya.ts:357) is what the day itself gives (maya.ts:345).
KinIsWhole ==
    LET maya == gregorianToMayanLongCount(date)
        kin  == maya.kinNumber
    IN  /\ kin \in 1..260
        /\ kinToSealTone(kin).sealIndex = maya.tzolkinSeal
        /\ kinToSealTone(kin).toneId = maya.tzolkinTone

\* The wave of thirteen days holds its kin, and each of its nine chambers is
\* a kin of the calendar whose tone is its position in the wave.
WaveHoldsItsKin ==
    LET kin  == calculateKinMaya(date)
        wave == getMayanOndaEncantada(kin)
    IN  /\ kin \in wave.waveStartKin .. (wave.waveStartKin + 12)
        /\ wave.waveSeal \in DOMAIN MAYAN_SEALS
        /\ \A i \in DOMAIN wave.chambers :
              /\ wave.chambers[i].kinNumber \in 1..260
              /\ wave.chambers[i].is.toneId = wave.chambers[i].position
              /\ wave.chambers[i].is.toneId \in MAYAN_TONES

\* A day has exactly one western sign, and the sign the profile stores is the
\* one its birth date resolves to (western.ts:3: the same boundaries).
SignsAgree ==
    /\ \E i \in DOMAIN WESTERN_SIGNS :
          SignsOf(date.month * 100 + date.day) = {i}
    /\ resolveUserSign("western", [birthDate |-> date, astrologicalSign |-> NONE])
         = resolveUserSign("western", [birthDate |-> NoDay,
                              astrologicalSign |-> calculateZodiacSign(date)])

\* Whoever was born on this day gets an answer for each system and period:
\* the seed wrote its row, and the template is the one of that very sign and
\* element, with another sign of the same system as its match.
EverySignHasTemplate ==
    \A system \in Systems :
        LET answer == resolveSystem(system,
                        [birthDate |-> date, astrologicalSign |-> NONE], date)
            text   == answer.content
        IN  /\ answer.sign \in SeededSigns
            /\ text # NoTemplate
            /\ text.signId = answer.sign.signId
            /\ text.element = answer.sign.element
            /\ text.luckyNumber \in 1..99
            /\ text.compatibility # text.signId
            /\ text.compatibility \in SeededIds[system]
            /\ \A period \in Periods :
                  /\ answer.rows[period].key \in fallbackDates(date)[period]
                  /\ answer.rows[period].date = date

\* The arcana of the day and of a name is one of the 22, leaves the same rest
\* by nine as the digits it was reduced from, and is where the shown chain of
\* reductions ends.
ArcanaOf(sum, arcana) ==
    /\ arcana \in 1..22
    /\ sum > 0 => arcana % 9 = sum % 9
    /\ Last(explainReduction(sum)) = arcana

ArcanaKept ==
    /\ ArcanaOf(DateSum(date), calculateArcanaByDate(date))
    /\ \A name \in Names :
          /\ ArcanaOf(NameSum(name), calculateArcanaByName(name))
          /\ name # <<>> => ArcanaOf(DateSum(date) + NameSum(name),
                                     calculatePersonalArcana(date, name))

\* The readings of one day agree with one another.
DayReadsWhole ==
    /\ KinIsWhole
    /\ WaveHoldsItsKin
    /\ SignsAgree
    /\ EverySignHasTemplate
    /\ ArcanaKept

\* From a day to the next the Maya round goes on by one: the Julian day, and
\* with it the kin of the round of 260.
KinDayAfter ==
    /\ gregorianToJdn(date') = gregorianToJdn(date) + 1
    /\ calculateKinMaya(date') = (calculateKinMaya(date) % 260) + 1

\* The long count, read as one number, counts one more day.
CountDayAfter ==
    LET Count(d) == LET l == gregorianToMayanLongCount(d).longCount
                    IN  144000 * l.baktun + 7200 * l.katun + 360 * l.tun
                          + 20 * l.uinal + l.kin
    IN  Count(date') = Count(date) + 1

\* The week's key changes on Mondays and at no other day, and always to a
\* later one (two weeks never share a row); a month's on its first day.
KeysDayAfter ==
    LET Week(d) == periodRowKey("weekly", d)
    IN  /\ Week(date') # Week(date) <=> getUTCDay(UTC(date')) = 1
        /\ Week(date') # Week(date) =>
              \/ Week(date').year = Week(date).year
                   /\ Week(date').week = Week(date).week + 1
              \/ /\ Week(date').year = Week(date).year + 1
                 /\ Week(date').week = 1
                 /\ Week(date).week \in {52, 53}
        /\ periodRowKey("monthly", date') # periodRowKey("monthly", date)
              <=> date'.day = 1

\* The Chinese sign is the pair of its year in the round of sixty, and it
\* changes once a year, between 21 January and 20 February (chinese.ts:170), to
\* the next pair.
ChineseDayAfter ==
    LET Zodiac(d) == getChineseZodiac(d)
        Pair(d)   == [animalId |-> Zodiac(d).animal, element |-> Zodiac(d).element]
    IN  /\ Pair(date') = CHINESE_COMBOS[(Zodiac(date').year - 1984) % 60]
        /\ Zodiac(date') # Zodiac(date) =>
              /\ date'.month * 100 + date'.day \in 121..220
              /\ Zodiac(date').year = Zodiac(date).year + 1
              /\ Zodiac(date').year = date'.year

\* The western sign changes to the next of the catalogue.
WesternDayAfter ==
    getWesternSign(date') \in
        {getWesternSign(date), (getWesternSign(date) % 12) + 1}

\* The readings of a day follow from those of the day before.
CyclesAdvance ==
    [][ /\ KinDayAfter
        /\ CountDayAfter
        /\ KeysDayAfter
        /\ ChineseDayAfter
        /\ WesternDayAfter ]_date
=============================================================================
