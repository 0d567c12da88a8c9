----------------------------- MODULE DeskProofs -----------------------------
(***************************************************************************)
(* Theorems about burnmon-dev's three parts: the Microsoft To Do panel     *)
(* (DevTodo.tla), for every set of sign-ins; the totals of today and of    *)
(* half a year (DevTotals.tla), for every length of a day and every stretch*)
(* of time; the sample history and the page's copy of it (DevHistory.tla), *)
(* for every length of the windows and of the sampling intervals, every    *)
(* number of lost and failing calls, and every stretch of time.            *)
(***************************************************************************)
EXTENDS DevTodo, DevTotals, DevHistory, Books, TLAPS, FiniteSetTheorems, SequenceTheorems,
        WellFoundedInduction

(***************************************************************************)
(* The To Do panel.  A check that found no token and is still current was  *)
(* right about the disk, or since then a sign-in has been saved, which is  *)
(* about to show itself, or a refresh has put back a token that was gone.  *)
(***************************************************************************)
FetchStates == {"idle", "asked", "refreshing", "refused"}

TodoTypes ==
  /\ token \in {"none", "fresh", "expired", "revoked"}
  /\ signedIn \in BOOLEAN
  /\ check \in [at: {"idle", "begun", "read"}, was: BOOLEAN, found: BOOLEAN, current: BOOLEAN,
             back: BOOLEAN]
  /\ login \in [Logins -> {"idle", "waiting", "saved", "over"}]
  /\ fetch \in [Fetchers -> FetchStates]

CheckHolds ==
  (check.at = "read" /\ check.current /\ ~ check.found)
    => (token = "none" \/ check.back \/ \E l \in Logins : login[l] = "saved")

TodoInv == TodoTypes /\ CheckHolds

LEMMA TodoInvInit == TodoInit => TodoInv
<1>. SUFFICES ASSUME TodoInit PROVE TodoInv
  OBVIOUS
<1>1. TodoTypes
  BY DEF TodoInit, NoCheck, TodoTypes, FetchStates
<1>2. CheckHolds
  BY DEF TodoInit, NoCheck, CheckHolds
<1>. QED BY <1>1, <1>2 DEF TodoInv

LEMMA TodoInvStep == TodoInv /\ [TodoNext]_todoVars => TodoInv'
<1>. SUFFICES ASSUME TodoInv, [TodoNext]_todoVars PROVE TodoInv'
  OBVIOUS
<1>. USE DEF TodoInv, TodoTypes, CheckHolds, FetchStates
<1>1. CASE CheckBegins
  BY <1>1 DEF CheckBegins, NoCheck
<1>2. CASE CheckReads
  BY <1>2 DEF CheckReads
<1>3. CASE CheckEnds
  BY <1>3 DEF CheckEnds, NoCheck, Found, Fetchers
<1>4. CASE TaskTick
  BY <1>4 DEF TaskTick, Fetchers
<1>5. CASE Expires
  BY <1>5 DEF Expires
<1>6. CASE Revoked
  BY <1>6 DEF Revoked
<1>7. ASSUME NEW l \in Logins, StartLogin(l) PROVE TodoInv'
  BY <1>7 DEF StartLogin
<1>8. ASSUME NEW l \in Logins, FinishLogin(l) PROVE TodoInv'
  BY <1>8 DEF FinishLogin
<1>9. ASSUME NEW l \in Logins, LoginFails(l) PROVE TodoInv'
  BY <1>9 DEF LoginFails
<1>10. ASSUME NEW l \in Logins, LoginShown(l) PROVE TodoInv'
  BY <1>10 DEF LoginShown, Fetchers
<1>11. ASSUME NEW f \in Fetchers, AccessToken(f) PROVE TodoInv'
  BY <1>11 DEF AccessToken, Shows
<1>12. ASSUME NEW f \in Fetchers, Refresh(f) PROVE TodoInv'
  BY <1>12 DEF Refresh, Shows
<1>13. ASSUME NEW f \in Fetchers, Refused(f) PROVE TodoInv'
  BY <1>13 DEF Refused, Shows
<1>14. ASSUME NEW f \in Fetchers, Withheld(f) PROVE TodoInv'
  BY <1>14 DEF Withheld
<1>15. CASE UNCHANGED todoVars
  BY <1>15 DEF todoVars
<1>. QED BY <1>1, <1>2, <1>3, <1>4, <1>5, <1>6, <1>7, <1>8, <1>9, <1>10, <1>11, <1>12, <1>13,
            <1>14, <1>15 DEF TodoNext

LEMMA OnlyCheckSignsOut == TodoInv /\ [TodoNext]_todoVars => [StaysSignedIn]_todoVars
<1>. SUFFICES ASSUME TodoInv, TodoNext, signedIn, ~ signedIn' PROVE StaysSignedIn
  BY DEF StaysSignedIn
<1>1. CheckEnds
  BY DEF TodoNext, CheckBegins, CheckReads, CheckEnds, TaskTick, Expires, Revoked, StartLogin,
         FinishLogin, LoginFails, LoginShown, AccessToken, Refresh, Withheld, Refused
<1>2. check.at = "read" /\ check.current /\ ~ check.found
  BY <1>1 DEF CheckEnds, Found
<1>. QED BY <1>2 DEF TodoInv, CheckHolds, StaysSignedIn

(* The panel goes back to "sign in" only when the token is gone, a sign-in *)
(* is about to show itself, or a refresh has put back a token that another *)
(* one's Logout had removed, however the status loop's look at the disk,   *)
(* sign-ins, refreshes and withdrawn consents overlap.                     *)
THEOREM SignInHolds == TodoSpec => SignInStands
BY TodoInvInit, TodoInvStep, OnlyCheckSignsOut, PTL DEF TodoSpec, SignInStands

-----------------------------------------------------------------------------
(***************************************************************************)
(* Days and instants.                                                      *)
(***************************************************************************)
LEMMA DayBounds ==
  ASSUME NEW t \in Nat
  PROVE  DayAt(t) \in Nat /\ DayStart(DayAt(t)) <= t /\ t < DayStart(DayAt(t) + 1)
BY TotalsAssumption DEF DayAt, DayStart

LEMMA DayBefore ==
  ASSUME NEW t \in Nat, NEW d \in Nat
  PROVE  DayStart(d) \in Nat /\ (t < DayStart(d) <=> DayAt(t) < d)
BY TotalsAssumption DEF DayAt, DayStart

LEMMA SameSecond ==
  ASSUME NEW t \in Nat
  PROVE  ToSecond(t) \in Nat /\ ToSecond(t) <= t /\ DayAt(ToSecond(t)) = DayAt(t)
<1>. DEFINE r == ToSecond(t)
            d == DayAt(t)
<1>1. r \in Nat /\ r <= t /\ (r = t \/ (t = r + 1 /\ t % 2 = 1))
  BY DEF ToSecond
<1>2. d \in Nat /\ DayStart(d) \in Nat /\ DayStart(d) <= t /\ t < DayStart(d + 1)
  BY DayBounds, DayBefore
<1>3. DayStart(d) % 2 = 0
  <2>1. PICK k \in Nat : DayTicks = 2 * k
    BY TotalsAssumption
  <2>2. DayStart(d) = 2 * (d * k)
    BY <1>2, <2>1 DEF DayStart
  <2>3. d * k \in Nat
    BY <1>2, <2>1
  <2>. HIDE DEF d
  <2>. QED BY <2>2, <2>3
<1>4. DayStart(d) <= r
  <2>. HIDE DEF d, r
  <2>. QED BY <1>1, <1>2, <1>3
<1>5. DayAt(r) \in Nat /\ ~ (DayAt(r) < d) /\ DayAt(r) < d + 1
  <2>. HIDE DEF d, r
  <2>1. r < DayStart(d + 1) /\ d + 1 \in Nat /\ DayStart(d + 1) \in Nat
    BY <1>1, <1>2, DayBefore
  <2>. QED BY <1>1, <1>2, <1>4, <2>1, DayBefore, DayBounds
<1>. QED BY <1>1, <1>2, <1>5

(***************************************************************************)
(* Every set of days up to some day has its sequence in order: the least   *)
(* bound at which one were without would have it without its largest day.  *)
(***************************************************************************)
Ordered(s, days) ==
  /\ s \in [1..Cardinality(days) -> days]
  /\ \A i, j \in DOMAIN s : i < j => s[i] < s[j]
  /\ \A d \in days : \E i \in DOMAIN s : s[i] = d

OrderedUpTo(n) ==
  \A days \in SUBSET (0..(n - 1)) : IsFiniteSet(days) /\ \E s : Ordered(s, days)

LEMMA OneMoreDay ==
  ASSUME NEW n \in Nat, n > 0, OrderedUpTo(n - 1), NEW days \in SUBSET (0..(n - 1))
  PROVE  IsFiniteSet(days) /\ \E s : Ordered(s, days)
<1>. DEFINE m == n - 1
            rest == days \ {m}
<1>1. rest \in SUBSET (0..(m - 1)) /\ m \in Nat
  OBVIOUS
<1>2. IsFiniteSet(rest) /\ \E s : Ordered(s, rest)
  BY <1>1 DEF OrderedUpTo
<1>3. CASE m \notin days
  <2>1. rest = days
    BY <1>3
  <2>. QED BY <1>2, <2>1
<1>4. CASE m \in days
  <2>1. days = rest \cup {m} /\ m \notin rest
    BY <1>4
  <2>2. IsFiniteSet(days) /\ Cardinality(days) = Cardinality(rest) + 1 /\ Cardinality(rest) \in Nat
    <3>. HIDE DEF m, rest
    <3>. QED BY <1>2, <2>1, FS_AddElement, FS_CardinalityType
  <2>3. PICK s : Ordered(s, rest)
    BY <1>2
  <2>. DEFINE k == Cardinality(rest)
              t == [i \in 1..(k + 1) |-> IF i = k + 1 THEN m ELSE s[i]]
  <2>4. k \in Nat /\ DOMAIN s = 1..k /\ \A i \in 1..k : s[i] \in rest
    BY <2>2, <2>3 DEF Ordered
  <2>5. \A d \in rest : d \in Nat /\ d < m
    BY <1>1
  <2>. HIDE DEF k, m, rest
  <2>6. \A i \in 1..k : i \in 1..(k + 1) /\ t[i] = s[i] /\ i # k + 1
    BY <2>4
  <2>7. k + 1 \in 1..(k + 1) /\ t[k + 1] = m
    BY <2>4
  <2>8. DOMAIN t = 1..(k + 1) /\ \A i \in 1..(k + 1) : i \in 1..k \/ i = k + 1
    BY <2>4
  <2>9. t \in [1..Cardinality(days) -> days]
    <3>1. Cardinality(days) = k + 1
      BY <2>2 DEF k
    <3>2. \A i \in 1..(k + 1) : t[i] \in days
      BY <2>1, <2>4, <2>6, <2>7, <2>8
    <3>. QED BY <3>1, <3>2
  <2>. HIDE DEF t
  <2>10. \A i, j \in DOMAIN t : i < j => t[i] < t[j]
    <3>1. ASSUME NEW i \in 1..(k + 1), NEW j \in 1..(k + 1), i < j PROVE t[i] < t[j]
      <4>1. i \in 1..k
        BY <2>4, <3>1
      <4>2. CASE j \in 1..k
        BY <2>3, <2>4, <2>6, <3>1, <4>1, <4>2 DEF Ordered
      <4>3. CASE j = k + 1
        BY <2>4, <2>5, <2>6, <2>7, <4>1, <4>3
      <4>. QED BY <2>8, <4>2, <4>3
    <3>. QED BY <2>8, <3>1
  <2>11. \A d \in days : \E i \in DOMAIN t : t[i] = d
    BY <2>1, <2>3, <2>4, <2>6, <2>7, <2>8 DEF Ordered
  <2>. QED BY <2>2, <2>9, <2>10, <2>11 DEF Ordered
<1>. QED BY <1>3, <1>4

LEMMA AlwaysOrdered == \A n \in Nat : OrderedUpTo(n)
<1>. SUFFICES ASSUME NEW n0 \in Nat, ~ OrderedUpTo(n0) PROVE FALSE
  OBVIOUS
<1>. DEFINE T == {n \in Nat : ~ OrderedUpTo(n)}
            R == {e \in Nat \X Nat : e[1] < e[2]}
<1>1. IsWellFoundedOn(R, Nat)
  <2>1. R = OpToRel(<, Nat)
    BY Zenon DEF OpToRel
  <2>. QED BY <2>1, NatLessThanWellFounded, Zenon
<1>2. T \subseteq Nat /\ T # {}
  OBVIOUS
<1>3. PICK n \in T : \A u \in T : ~ (u < n)
  <2>1. PICK n \in T : \A u \in T : ~ (<<u, n>> \in R)
    <3>. HIDE DEF T, R
    <3>. QED BY <1>1, <1>2, WFMin
  <2>2. \A u \in T : u \in Nat /\ n \in Nat
    BY <1>2
  <2>. QED BY <2>1, <2>2
<1>4. n \in Nat /\ ~ OrderedUpTo(n)
  OBVIOUS
<1>5. CASE n = 0
  <2>1. \A days \in SUBSET (0..(n - 1)) : days = {}
    BY <1>5
  <2>2. IsFiniteSet({}) /\ Cardinality({}) = 0
    BY FS_EmptySet
  <2>3. Ordered(<<>>, {})
    BY <2>2 DEF Ordered
  <2>. QED BY <1>4, <2>1, <2>2, <2>3 DEF OrderedUpTo
<1>6. CASE n > 0
  <2>1. n - 1 \in Nat /\ n - 1 < n
    BY <1>4, <1>6
  <2>2. OrderedUpTo(n - 1)
    BY <1>3, <2>1
  <2>3. OrderedUpTo(n)
    BY <1>4, <1>6, <2>2, OneMoreDay DEF OrderedUpTo
  <2>. QED BY <1>4, <2>3
<1>. QED BY <1>4, <1>5, <1>6

LEMMA DaysInOrderIs ==
  ASSUME NEW n \in Nat, NEW days \in SUBSET (0..n)
  PROVE  Ordered(DaysInOrder(days), days) /\ IsFiniteSet(days)
<1>1. n + 1 \in Nat /\ days \in SUBSET (0..((n + 1) - 1))
  OBVIOUS
<1>2. IsFiniteSet(days) /\ \E s : Ordered(s, days)
  BY <1>1, AlwaysOrdered DEF OrderedUpTo
<1>. QED BY <1>2 DEF DaysInOrder, Ordered

-----------------------------------------------------------------------------
(***************************************************************************)
(* The totals.  A strip counted turns of the day of its stamp and later;   *)
(* the rows a refresh holds are of closed days, each once and in order,    *)
(* and hold what was stored when it began, or when those began that it     *)
(* took from the cache.                                                    *)
(***************************************************************************)
StripHolds(c) ==
  /\ c.counted \subseteq turns
  /\ c.at \in Nat \cup {NoDay}
  /\ c.at # NoDay => c.counted \subseteq Since(turns, DayStart(DayAt(c.at)))

CountingHolds ==
  /\ counting.now \in Nat
  /\ counting.at = "counted" => counting.counted \subseteq Since(turns, DayStart(DayAt(counting.now)))

CopyHolds ==
  /\ tick.now \in Nat
  /\ tick.had \subseteq OfDay(turns, DayAt(tick.now))
  /\ StripHolds(tick.strip)

HeaderTyped == header.day \in Int /\ header.tokens \in Int /\ header.twice \subseteq turns

(* Rows of days before a given one, in order.                              *)
Ascending(days) == \A i, j \in DOMAIN days : i < j => days[i].day < days[j].day

ClosedRows(days, d) ==
  /\ days \in Seq([day: Nat, turns: SUBSET Nat])
  /\ Ascending(days)
  /\ \A i \in DOMAIN days : days[i].day < d

Covers(ts, days) == \A t \in ts : \E i \in DOMAIN days : t \in days[i].turns

ClosedOfItsDay ==
  closed.day # NoDay =>
    /\ closed.day \in Nat
    /\ ClosedRows(closed.days, closed.day)
    /\ closed.seen \subseteq {t \in turns : DayAt(t) < closed.day}
    /\ Covers(closed.seen, closed.days)

RefreshHolds ==
  refresh.at # "idle" =>
    /\ refresh.day \in Nat
    /\ refresh.seen \subseteq {t \in turns : DayAt(t) <= refresh.day}
    /\ refresh.at \in {"built", "closed"} =>
         /\ ClosedRows(refresh.days, refresh.day)
         /\ Covers({t \in refresh.seen : DayAt(t) < refresh.day}, refresh.days)

RefreshStates == refresh.at \in {"idle", "query", "built", "closed"}

(* The two halves share the turns, which they only read.                   *)
HeaderInv ==
  /\ StripHolds(strip) /\ CountingHolds /\ CopyHolds
  /\ HeaderTyped /\ HeadlineOfItsDay

HeatmapInv ==
  /\ ClosedOfItsDay
  /\ RefreshStates /\ RefreshHolds
  /\ HeatmapOfOneDay

TurnsTyped == instant \in Nat /\ turns \subseteq 0..instant

TotalsInv == TurnsTyped /\ HeaderInv /\ HeatmapInv

(* The turns of a day are finitely many, and there are only more later.    *)
LEMMA TurnsCounted ==
  ASSUME NEW n \in Nat, NEW ts \in SUBSET (0..n), NEW us \in SUBSET ts
  PROVE  /\ IsFiniteSet(us) /\ Cardinality(us) \in Nat
         /\ Cardinality(us) <= Cardinality(ts)
<1>1. IsFiniteSet(0..n)
  BY FS_Interval
<1>2. IsFiniteSet(ts) /\ IsFiniteSet(us)
  BY <1>1, FS_Subset
<1>. QED BY <1>2, FS_Subset, FS_CardinalityType

(* A function of the first k numbers is a sequence.                        *)
LEMMA FirstNumbersSeq ==
  ASSUME NEW S, NEW k \in Nat, NEW f \in [1..k -> S]
  PROVE  f \in Seq(S)
OBVIOUS

(* What DayRows makes of turns before a day.                               *)
LEMMA DayRowsClosed ==
  ASSUME NEW n \in Nat, NEW ts \in SUBSET (0..n), NEW d \in Nat,
         \A t \in ts : t < DayStart(d)
  PROVE  ClosedRows(DayRows(ts), d) /\ Covers(ts, DayRows(ts))
<1>. DEFINE days == {DayAt(t) : t \in ts}
            s == DaysInOrder(days)
            rows1 == DayRows(ts)
<1>1. \A t \in ts : t \in Nat /\ DayAt(t) \in Nat /\ DayAt(t) < d
  BY DayBounds, DayBefore
<1>2. days \in SUBSET (0..d)
  BY <1>1
<1>3. Ordered(s, days) /\ IsFiniteSet(days)
  <2>. HIDE DEF days
  <2>. QED BY <1>2, DaysInOrderIs
<1>4. Cardinality(days) \in Nat /\ DOMAIN s = 1..Cardinality(days)
  <2>. HIDE DEF days, s
  <2>. QED BY <1>3, FS_CardinalityType DEF Ordered
<1>5. rows1 = [i \in DOMAIN s |-> [day |-> s[i], turns |-> OfDay(ts, s[i])]]
  BY DEF DayRows
<1>6. \A i \in DOMAIN s : s[i] \in days /\ s[i] \in Nat /\ s[i] < d
  <2>1. \A i \in DOMAIN s : s[i] \in days
    <3>. HIDE DEF days, s
    <3>. QED BY <1>3, <1>4 DEF Ordered
  <2>. HIDE DEF s
  <2>. QED BY <1>1, <2>1
<1>7. \A x : OfDay(ts, x) \subseteq Nat
  BY <1>1 DEF OfDay
<1>8. \A t \in ts : \E i \in DOMAIN s : t \in OfDay(ts, s[i])
  <2>1. ASSUME NEW t \in ts PROVE \E i \in DOMAIN s : t \in OfDay(ts, s[i])
    <3>1. DayAt(t) \in days
      OBVIOUS
    <3>2. PICK i \in DOMAIN s : s[i] = DayAt(t)
      <4>. HIDE DEF days, s
      <4>. QED BY <1>3, <3>1 DEF Ordered
    <3>. QED BY <3>2 DEF OfDay
  <2>. QED BY <2>1
<1>9. \A i, j \in DOMAIN s : i < j => s[i] < s[j]
  BY <1>3 DEF Ordered
<1>. HIDE DEF days, s, rows1
<1>10. rows1 \in Seq([day: Nat, turns: SUBSET Nat]) /\ DOMAIN rows1 = DOMAIN s
  <2>1. rows1 \in [1..Cardinality(days) -> [day: Nat, turns: SUBSET Nat]]
    BY <1>4, <1>5, <1>6, <1>7
  <2>2. DOMAIN rows1 = DOMAIN s
    BY <1>5
  <2>3. rows1 \in Seq([day: Nat, turns: SUBSET Nat])
    <3>. DEFINE Row == [day: Nat, turns: SUBSET Nat]
    <3>. HIDE DEF Row
    <3>1. \A k \in Nat : \A f \in [1..k -> Row] : f \in Seq(Row)
      BY FirstNumbersSeq
    <3>2. rows1 \in [1..Cardinality(days) -> Row]
      BY <2>1 DEF Row
    <3>3. rows1 \in Seq(Row)
      BY <1>4, <3>1, <3>2
    <3>. QED BY <3>3 DEF Row
  <2>. QED BY <2>2, <2>3
<1>11. \A i \in DOMAIN s : rows1[i].day = s[i] /\ rows1[i].turns = OfDay(ts, s[i])
  BY <1>5
<1>. QED BY <1>6, <1>8, <1>9, <1>10, <1>11 DEF ClosedRows, Ascending, Covers, rows1

LEMMA TotalsInvInit == TotalsInit => TotalsInv
<1>. SUFFICES ASSUME TotalsInit PROVE TotalsInv
  OBVIOUS
<1>1. TurnsTyped /\ HeatmapInv
  BY DEF TotalsInit, NoDay, NoRefresh, TurnsTyped, HeatmapInv, ClosedOfItsDay, RefreshStates,
         RefreshHolds, HeatmapOfOneDay
<1>2. StripHolds(strip) /\ CountingHolds /\ CopyHolds
  BY DEF TotalsInit, NoDay, NoStrip, NoCount, NoTick, StripHolds, CountingHolds, CopyHolds
<1>3. HeaderTyped /\ HeadlineOfItsDay
  <2>1. header = [day |-> -1, tokens |-> 0, owed |-> {}, twice |-> {}] /\ turns = {}
    BY DEF TotalsInit, NoDay
  <2>2. Cardinality({}) = 0
    BY FS_EmptySet
  <2>3. Since(turns, DayStart(header.day)) = {}
    BY <2>1 DEF Since
  <2>4. HeaderTyped
    BY <2>1 DEF HeaderTyped
  <2>5. /\ Cardinality(header.owed) = 0 /\ Cardinality(header.twice) = 0 /\ header.tokens = 0
        /\ Cardinality(Since(turns, DayStart(header.day))) = 0
    BY <2>1, <2>2, <2>3
  <2>. QED BY <2>4, <2>5 DEF HeadlineOfItsDay
<1>. QED BY <1>1, <1>2, <1>3 DEF TotalsInv, HeaderInv

(* No day is later than now's.                                             *)
LEMMA UpToToday ==
  ASSUME instant \in Nat, turns \subseteq 0..instant, NEW t \in turns
  PROVE  t \in Nat /\ DayAt(t) \in Nat /\ DayAt(instant) \in Nat /\ DayAt(t) <= DayAt(instant)
<1>1. t \in Nat /\ t <= instant
  OBVIOUS
<1>2. /\ DayAt(instant) \in Nat /\ DayAt(instant) + 1 \in Nat
      /\ instant < DayStart(DayAt(instant) + 1) /\ DayStart(DayAt(instant) + 1) \in Nat
  BY DayBounds, DayBefore
<1>3. DayAt(t) < DayAt(instant) + 1 /\ DayAt(t) \in Nat
  BY <1>1, <1>2, DayBounds, DayBefore
<1>. QED BY <1>1, <1>2, <1>3

(* What a refresh has seen is of the day it is for, or of a day before.    *)
LEMMA SeenSoFar ==
  ASSUME NEW n \in Nat, NEW ts \in SUBSET (0..n), NEW d \in Nat,
         NEW t \in {u \in ts : DayAt(u) <= d}
  PROVE  /\ t \in ts /\ t \in Nat /\ DayAt(t) \in Nat /\ DayAt(t) <= d
         /\ DayStart(d) \in Nat /\ (t < DayStart(d) <=> DayAt(t) < d)
<1>1. t \in ts /\ DayAt(t) <= d
  OBVIOUS
<1>2. t \in Nat
  BY <1>1
<1>. QED BY <1>1, <1>2, DayBounds, DayBefore

(* A turn of a day is not before it began.                                 *)
LEMMA SinceItsDay ==
  ASSUME NEW t \in Nat, NEW d \in Nat
  PROVE  DayStart(d) \in Nat /\ DayAt(t) \in Nat /\ (t >= DayStart(d) <=> DayAt(t) >= d)
<1>1. DayStart(d) \in Nat /\ DayAt(t) \in Nat /\ (t < DayStart(d) <=> DayAt(t) < d)
  BY DayBounds, DayBefore
<1>. QED BY <1>1

LEMMA StoreTurnHolds ==
  ASSUME TotalsInv, NEW t \in 0..instant, StoreTurn(t)
  PROVE  TotalsInv'
<1>1. /\ turns' = turns \cup {t} /\ turns' \subseteq 0..instant /\ instant' = instant
      /\ strip' = strip /\ counting' = counting /\ tick' = tick /\ header' = header
      /\ closed' = closed /\ refresh' = refresh /\ rows' = rows
  BY DEF StoreTurn, TotalsInv, TurnsTyped, headerVars, heatmapVars
<1>2. \A t0 : Since(turns, t0) \subseteq Since(turns', t0)
  BY <1>1 DEF Since
<1>3. ASSUME NEW c, StripHolds(c) PROVE StripHolds(c)'
  BY <1>1, <1>2, <1>3 DEF StripHolds
<1>4. StripHolds(strip)' /\ CountingHolds'
  <2>1. StripHolds(strip)'
    BY <1>1, <1>3 DEF TotalsInv, HeaderInv, StripHolds
  <2>2. CountingHolds'
    BY <1>1, <1>2 DEF TotalsInv, HeaderInv, CountingHolds
  <2>. QED BY <2>1, <2>2
<1>5. CopyHolds'
  <2>1. StripHolds(tick.strip)'
    BY <1>1, <1>3 DEF TotalsInv, HeaderInv, CopyHolds, StripHolds
  <2>2. OfDay(turns, DayAt(tick.now)) \subseteq OfDay(turns', DayAt(tick.now))
    BY <1>1 DEF OfDay
  <2>. QED BY <1>1, <2>1, <2>2 DEF TotalsInv, HeaderInv, CopyHolds
<1>6. HeaderTyped' /\ HeadlineOfItsDay'
  <2>. DEFINE was == Since(turns, DayStart(header.day))
              is == Since(turns', DayStart(header.day))
  <2>1. was \in SUBSET is /\ is \in SUBSET (0..instant) /\ instant \in Nat
    BY <1>1, <1>2 DEF Since, TotalsInv, TurnsTyped
  <2>2. Cardinality(was) \in Nat /\ Cardinality(is) \in Nat /\ Cardinality(was) <= Cardinality(is)
    <3>. HIDE DEF was, is
    <3>. QED BY <2>1, TurnsCounted
  <2>3. header.twice \in SUBSET turns /\ turns \in SUBSET (0..instant)
    BY DEF TotalsInv, TurnsTyped, HeaderInv, HeaderTyped
  <2>4. Cardinality(header.twice) \in Nat
    BY <2>1, <2>3, TurnsCounted
  <2>5. /\ Cardinality(header.owed) <= header.tokens /\ header.tokens \in Int
        /\ header.tokens <= Cardinality(was) + Cardinality(header.twice)
    BY DEF TotalsInv, HeaderInv, HeaderTyped, HeadlineOfItsDay
  <2>6. HeaderTyped'
    BY <1>1 DEF TotalsInv, HeaderInv, HeaderTyped
  <2>7. header.tokens <= Cardinality(is) + Cardinality(header.twice)
    <3>. HIDE DEF was, is
    <3>. QED BY <2>2, <2>4, <2>5
  <2>. QED BY <1>1, <2>5, <2>6, <2>7 DEF HeadlineOfItsDay
<1>7. HeatmapInv'
  <2>1. ClosedOfItsDay'
    <3>1. {u \in turns : DayAt(u) < closed.day} \subseteq {u \in turns' : DayAt(u) < closed.day}
      BY <1>1
    <3>. QED BY <1>1, <3>1 DEF TotalsInv, HeatmapInv, ClosedOfItsDay
  <2>2. RefreshHolds'
    <3>1. {u \in turns : DayAt(u) <= refresh.day} \subseteq {u \in turns' : DayAt(u) <= refresh.day}
      BY <1>1
    <3>. QED BY <1>1, <3>1 DEF TotalsInv, HeatmapInv, RefreshHolds
  <2>. QED BY <1>1, <2>1, <2>2 DEF TotalsInv, HeatmapInv, RefreshStates, HeatmapOfOneDay
<1>. QED BY <1>1, <1>4, <1>5, <1>6, <1>7 DEF TotalsInv, TurnsTyped, HeaderInv

LEMMA HeatmapRests ==
  ASSUME TotalsInv, UNCHANGED <<turns, heatmapVars>>
  PROVE  HeatmapInv'
BY DEF TotalsInv, heatmapVars, HeatmapInv, ClosedOfItsDay, RefreshStates, RefreshHolds,
       HeatmapOfOneDay

LEMMA HeaderRests ==
  ASSUME TotalsInv, UNCHANGED <<turns, headerVars>>
  PROVE  HeaderInv'
BY DEF TotalsInv, headerVars, HeaderInv, StripHolds, CountingHolds, CopyHolds, HeaderTyped,
       HeadlineOfItsDay

LEMMA StripStepHolds ==
  ASSUME TotalsInv, StripBegins \/ StripCounts \/ StripFails \/ CacheStrip
  PROVE  TotalsInv'
<1>1. UNCHANGED <<instant, turns, tick, header, heatmapVars>>
  BY DEF StripBegins, StripCounts, StripFails, CacheStrip, StripUnchanged
<1>2. TurnsTyped' /\ HeatmapInv' /\ HeaderTyped' /\ HeadlineOfItsDay'
  BY <1>1, HeatmapRests DEF TotalsInv, TurnsTyped, HeaderInv, HeaderTyped, HeadlineOfItsDay
<1>3. CopyHolds'
  BY <1>1 DEF TotalsInv, HeaderInv, CopyHolds, StripHolds
<1>4. CountingHolds'
  <2>1. instant \in Nat /\ counting.now \in Nat
    BY DEF TotalsInv, TurnsTyped, HeaderInv, CountingHolds
  <2>2. CASE StripBegins
    BY <1>1, <2>1, <2>2 DEF StripBegins, CountingHolds, TotalsInv, HeaderInv
  <2>3. CASE StripCounts
    BY <1>1, <2>1, <2>3 DEF StripCounts, CountingHolds, TotalsInv, HeaderInv
  <2>4. CASE StripFails \/ CacheStrip
    BY <1>1, <2>4 DEF StripFails, CacheStrip, NoCount, CountingHolds
  <2>. QED BY <2>2, <2>3, <2>4
<1>5. StripHolds(strip)'
  <2>1. CASE strip' = strip
    BY <1>1, <2>1 DEF TotalsInv, HeaderInv, StripHolds
  <2>2. CASE CacheStrip
    <3>1. /\ counting.now \in Nat
          /\ counting.counted \subseteq Since(turns, DayStart(DayAt(counting.now)))
          /\ strip' = [counted |-> counting.counted, at |-> ToSecond(counting.now)]
      BY <2>2 DEF CacheStrip, TotalsInv, HeaderInv, CountingHolds
    <3>2. /\ ToSecond(counting.now) \in Nat
          /\ DayAt(ToSecond(counting.now)) = DayAt(counting.now)
      BY <3>1, SameSecond
    <3>3. Since(turns, DayStart(DayAt(counting.now))) \subseteq turns
      BY DEF Since
    <3>. QED BY <1>1, <3>1, <3>2, <3>3 DEF StripHolds
  <2>. QED BY <2>1, <2>2 DEF StripBegins, StripCounts, StripFails
<1>. QED BY <1>2, <1>3, <1>4, <1>5 DEF TotalsInv, HeaderInv

LEMMA TickStepHolds ==
  ASSUME TotalsInv, TickBegins \/ TickCopies \/ TickFails
  PROVE  TotalsInv'
<1>1. UNCHANGED <<instant, turns, strip, counting, header, heatmapVars>>
  BY DEF TickBegins, TickCopies, TickFails, TickUnchanged
<1>2. TurnsTyped' /\ HeatmapInv' /\ HeaderTyped' /\ HeadlineOfItsDay'
  BY <1>1, HeatmapRests DEF TotalsInv, TurnsTyped, HeaderInv, HeaderTyped, HeadlineOfItsDay
<1>3. StripHolds(strip)' /\ CountingHolds'
  BY <1>1 DEF TotalsInv, HeaderInv, StripHolds, CountingHolds
<1>4. CopyHolds'
  <2>1. CASE TickBegins
    <3>1. /\ tick'.now = instant /\ tick'.had = OfDay(turns, DayAt(instant))
          /\ tick'.strip = tick.strip
      BY <2>1 DEF TickBegins, TotalsInv, HeaderInv, CopyHolds
    <3>. QED BY <1>1, <3>1 DEF TotalsInv, TurnsTyped, HeaderInv, CopyHolds, StripHolds
  <2>2. CASE TickCopies
    <3>1. tick'.now = tick.now /\ tick'.had = tick.had /\ tick'.strip = strip
      BY <2>2 DEF TickCopies, TotalsInv, HeaderInv, CopyHolds
    <3>. QED BY <1>1, <3>1 DEF TotalsInv, HeaderInv, CopyHolds, StripHolds
  <2>3. CASE TickFails
    <3>1. tick' = NoTick
      BY <2>3 DEF TickFails
    <3>. QED BY <1>1, <3>1 DEF NoTick, NoStrip, NoDay, CopyHolds, StripHolds
  <2>. QED BY <2>1, <2>2, <2>3
<1>. QED BY <1>2, <1>3, <1>4 DEF TotalsInv, HeaderInv

(***************************************************************************)
(* What a tick shows: what the strip it copied counted and what the window *)
(* adds are turns of its day and later, in both at most if they are later  *)
(* than the strip's stamp, and together they hold what the tick owes.      *)
(***************************************************************************)
LEMMA HeadlineCounts ==
  ASSUME NEW n \in Nat, turns \in SUBSET (0..n), NEW now \in Nat,
         NEW c, StripHolds(c), NEW had \in SUBSET OfDay(turns, DayAt(now))
  PROVE  LET all == Since(turns, DayStart(DayAt(now)))
             later == {t \in c.counted : t > c.at}
             owed == IF Reaches(c, now) THEN had \ Late(c, now) ELSE {}
         IN /\ HeadlineToday(c, now) \in Nat
            /\ HeadlineToday(c, now) <= Cardinality(all) + Cardinality(later)
            /\ Cardinality(owed) \in Nat /\ Cardinality(owed) <= HeadlineToday(c, now)
<1>. DEFINE day == DayAt(now)
            all == Since(turns, DayStart(day))
            later == {t \in c.counted : t > c.at}
            owed == IF Reaches(c, now) THEN had \ Late(c, now) ELSE {}
            base == IF UsesStrip(c, now) THEN c.counted ELSE {}
            added == AddedNow(c, now)
<1>1. /\ c.counted \subseteq turns /\ c.at \in Int /\ day \in Nat /\ DayStart(day) \in Nat
      /\ \A t \in turns : t \in Nat /\ DayAt(t) \in Nat /\ (t >= DayStart(day) <=> DayAt(t) >= day)
  <2>1. day \in Nat
    BY DayBounds
  <2>2. \A t \in turns : t \in Nat
    OBVIOUS
  <2>. HIDE DEF day
  <2>. QED BY <2>1, <2>2, SinceItsDay DEF StripHolds, NoDay
<1>2. base \subseteq all
  <2>1. ASSUME NEW t \in c.counted, UsesStrip(c, now) PROVE t \in all
    <3>1. c.at \in Nat /\ c.at >= DayStart(day) /\ t \in Since(turns, DayStart(DayAt(c.at)))
      BY <2>1 DEF UsesStrip, StripHolds
    <3>2. t \in turns /\ t \in Nat /\ t >= DayStart(DayAt(c.at))
      BY <1>1, <2>1, <3>1 DEF Since
    <3>. HIDE DEF day
    <3>3. DayAt(c.at) \in Nat /\ DayAt(c.at) >= day
      BY <1>1, <3>1, SinceItsDay
    <3>4. DayAt(t) \in Nat /\ DayAt(t) >= DayAt(c.at)
      BY <3>2, <3>3, SinceItsDay
    <3>5. t >= DayStart(day)
      BY <1>1, <3>2, <3>3, <3>4
    <3>. QED BY <3>2, <3>5 DEF Since
  <2>. QED BY <2>1
<1>3. added \subseteq all
  BY DEF AddedNow, Since
<1>4. base \cap added \subseteq later
  BY DEF AddedNow, Since
<1>5. owed \subseteq base \cup added
  <2>1. ASSUME NEW t \in had, Reaches(c, now), t \notin Late(c, now) PROVE t \in base \cup added
    <3>1. t \in turns /\ t \in Nat /\ t >= DayStart(day)
      <4>1. t \in turns /\ DayAt(t) = day
        BY DEF OfDay
      <4>. HIDE DEF day
      <4>. QED BY <1>1, <4>1
    <3>2. CASE ~ UsesStrip(c, now)
      <4>1. DayStart(day) >= now - TickWindow
        BY <2>1, <3>2 DEF Reaches
      <4>2. now - TickWindow \in Int
        BY TotalsAssumption
      <4>3. t >= now - TickWindow
        <5>. HIDE DEF day
        <5>. QED BY <1>1, <3>1, <4>1, <4>2
      <4>. QED BY <3>1, <3>2, <4>3 DEF AddedNow, Since
    <3>3. CASE UsesStrip(c, now) /\ t \notin c.counted
      <4>1. c.at >= now - TickWindow /\ ~ (t <= c.at)
        BY <2>1, <3>1, <3>3 DEF Reaches, Late
      <4>2. now - TickWindow \in Int
        BY TotalsAssumption
      <4>3. t > c.at /\ t >= now - TickWindow
        <5>. HIDE DEF day
        <5>. QED BY <1>1, <3>1, <4>1, <4>2
      <4>. QED BY <3>1, <3>3, <4>3 DEF AddedNow, Since
    <3>. QED BY <3>2, <3>3
  <2>. QED BY <2>1
<1>6. all \in SUBSET turns /\ later \in SUBSET turns
  BY <1>1 DEF Since
<1>7. HeadlineToday(c, now) = Cardinality(base) + Cardinality(added)
  BY DEF HeadlineToday
<1>. HIDE DEF all, later, owed, base, added
<1>8. /\ base \cup added \in SUBSET all /\ base \cap added \in SUBSET later
      /\ base \in SUBSET turns /\ added \in SUBSET turns /\ owed \in SUBSET (base \cup added)
      /\ base \cup added \in SUBSET turns /\ base \cap added \in SUBSET turns
  BY <1>2, <1>3, <1>4, <1>5, <1>6
<1>9. \A us \in SUBSET turns : us \in SUBSET (0..n) /\ IsFiniteSet(us) /\ Cardinality(us) \in Nat
  BY TurnsCounted
<1>10. Cardinality(base \cup added) = Cardinality(base) + Cardinality(added) - Cardinality(base \cap added)
  BY <1>8, <1>9, FS_Union
<1>11. Cardinality(base \cup added) <= Cardinality(all)
  BY <1>6, <1>8, <1>9, TurnsCounted
<1>12. Cardinality(base \cap added) <= Cardinality(later)
  BY <1>6, <1>8, <1>9, TurnsCounted
<1>13. Cardinality(owed) <= Cardinality(base \cup added) /\ Cardinality(owed) \in Nat
  BY <1>8, <1>9, TurnsCounted
<1>14. /\ Cardinality(base) \in Nat /\ Cardinality(added) \in Nat
       /\ Cardinality(all) \in Nat /\ Cardinality(later) \in Nat
       /\ Cardinality(base \cup added) \in Nat /\ Cardinality(base \cap added) \in Nat
  BY <1>6, <1>8, <1>9
<1>15. /\ HeadlineToday(c, now) \in Nat
       /\ HeadlineToday(c, now) <= Cardinality(all) + Cardinality(later)
       /\ Cardinality(owed) \in Nat /\ Cardinality(owed) <= HeadlineToday(c, now)
  BY <1>7, <1>10, <1>11, <1>12, <1>13, <1>14
<1>. QED BY <1>15 DEF all, later, owed

LEMMA ShowHeadlineHolds ==
  ASSUME TotalsInv, ShowHeadline
  PROVE  TotalsInv'
<1>. DEFINE day == DayAt(tick.now)
            c == tick.strip
            candidate == HeadlineToday(c, tick.now)
            all == Since(turns, DayStart(day))
            later == {t \in c.counted : t > c.at}
            owed == IF Reaches(c, tick.now) THEN tick.had \ Late(c, tick.now) ELSE {}
            before == IF header.day = day THEN header.twice ELSE {}
            floor == IF header.day = day THEN header.tokens ELSE candidate
            shown == IF candidate < floor THEN floor ELSE candidate
            twice == before \cup later
<1>1. /\ instant \in Nat /\ turns \in SUBSET (0..instant)
      /\ tick.now \in Nat /\ StripHolds(c) /\ tick.had \in SUBSET OfDay(turns, day)
      /\ header.tokens \in Int /\ header.twice \in SUBSET turns /\ c.counted \subseteq turns
  BY DEF TotalsInv, TurnsTyped, HeaderInv, CopyHolds, HeaderTyped, StripHolds
<1>2. /\ UNCHANGED <<instant, turns, strip, counting, heatmapVars>>
      /\ tick' = NoTick
      /\ header' = [day |-> day, tokens |-> shown, owed |-> owed, twice |-> twice]
  BY DEF ShowHeadline, TickUnchanged
<1>3. /\ candidate \in Nat /\ candidate <= Cardinality(all) + Cardinality(later)
      /\ Cardinality(owed) \in Nat /\ Cardinality(owed) <= candidate
  BY <1>1, HeadlineCounts
<1>4. /\ later \in SUBSET turns /\ all \in SUBSET turns /\ before \in SUBSET turns
      /\ twice \in SUBSET turns /\ later \in SUBSET twice /\ before \in SUBSET twice
  BY <1>1 DEF Since
<1>5. day \in Nat
  BY <1>1, DayBounds
<1>6. header.day = day => header.tokens <= Cardinality(all) + Cardinality(before)
  BY DEF TotalsInv, HeaderInv, HeadlineOfItsDay
<1>7. shown = IF candidate < floor THEN floor ELSE candidate
  OBVIOUS
<1>8. (floor = header.tokens /\ header.day = day) \/ floor = candidate
  OBVIOUS
<1>. HIDE DEF day, c, candidate, all, later, owed, before, twice, floor, shown
<1>9. /\ Cardinality(all) \in Nat /\ Cardinality(later) \in Nat /\ Cardinality(before) \in Nat
      /\ Cardinality(twice) \in Nat /\ Cardinality(later) <= Cardinality(twice)
      /\ Cardinality(before) <= Cardinality(twice)
  <2>1. \A us \in SUBSET turns : us \in SUBSET (0..instant) /\ Cardinality(us) \in Nat
    BY <1>1, TurnsCounted
  <2>2. Cardinality(later) <= Cardinality(twice) /\ Cardinality(before) <= Cardinality(twice)
    BY <1>1, <1>4, <2>1, TurnsCounted
  <2>. QED BY <1>4, <2>1, <2>2
<1>10. floor \in Int /\ floor <= Cardinality(all) + Cardinality(twice)
  BY <1>1, <1>3, <1>6, <1>8, <1>9
<1>11. /\ shown \in Int /\ Cardinality(owed) <= shown
       /\ shown <= Cardinality(all) + Cardinality(twice)
  BY <1>3, <1>7, <1>9, <1>10
<1>12. HeaderTyped' /\ HeadlineOfItsDay'
  <2>1. HeaderTyped'
    BY <1>2, <1>4, <1>5, <1>11 DEF HeaderTyped
  <2>2. Since(turns', DayStart(header'.day)) = all
    BY <1>2 DEF all
  <2>. QED BY <1>2, <1>11, <2>1, <2>2 DEF HeadlineOfItsDay
<1>13. StripHolds(strip)' /\ CountingHolds' /\ CopyHolds'
  <2>1. StripHolds(strip)' /\ CountingHolds'
    BY <1>2 DEF TotalsInv, HeaderInv, StripHolds, CountingHolds
  <2>. QED BY <1>2, <2>1 DEF NoTick, NoStrip, NoDay, CopyHolds, StripHolds
<1>14. TurnsTyped' /\ HeatmapInv'
  BY <1>2, HeatmapRests DEF TotalsInv, TurnsTyped
<1>. QED BY <1>12, <1>13, <1>14 DEF TotalsInv, HeaderInv

LEMMA HeatmapBeginsHolds ==
  ASSUME TotalsInv, HeatmapBegins
  PROVE  TotalsInv'
<1>. DEFINE day == DayAt(instant)
            seen == closed.seen \cup OfDay(turns, day)
<1>1. instant \in Nat /\ turns \subseteq 0..instant /\ day \in Nat
  BY DayBounds DEF TotalsInv, TurnsTyped
<1>2. \A t \in turns : DayAt(t) <= day
  BY <1>1, UpToToday
<1>3. UNCHANGED <<instant, turns, headerVars, closed, rows>>
  BY DEF HeatmapBegins
<1>4. RefreshStates' /\ RefreshHolds'
  <2>1. CASE closed.day = day
    <3>1. refresh' = [at |-> "closed", day |-> day, days |-> closed.days, seen |-> seen]
      BY <2>1 DEF HeatmapBegins
    <3>2. /\ ClosedRows(closed.days, day) /\ Covers(closed.seen, closed.days)
          /\ closed.seen \subseteq {t \in turns : DayAt(t) < day}
      BY <1>1, <2>1 DEF TotalsInv, HeatmapInv, ClosedOfItsDay, NoDay
    <3>3. OfDay(turns, day) \subseteq {t \in turns : DayAt(t) <= day}
      BY <1>2 DEF OfDay
    <3>4. seen \subseteq {t \in turns : DayAt(t) <= day}
      <4>. HIDE DEF day
      <4>. QED BY <1>2, <3>2, <3>3
    <3>5. {t \in seen : DayAt(t) < day} \subseteq closed.seen
      BY <1>1 DEF OfDay
    <3>6. Covers({t \in seen : DayAt(t) < day}, closed.days)
      <4>. HIDE DEF day, seen
      <4>. QED BY <3>2, <3>5 DEF Covers
    <3>. HIDE DEF day, seen
    <3>. QED BY <1>1, <1>3, <3>1, <3>2, <3>4, <3>6 DEF RefreshStates, RefreshHolds
  <2>2. CASE closed.day # day
    <3>1. refresh' = [at |-> "query", day |-> day, days |-> <<>>, seen |-> turns]
      BY <2>2 DEF HeatmapBegins
    <3>. QED BY <1>1, <1>2, <1>3, <3>1 DEF RefreshStates, RefreshHolds
  <2>. QED BY <2>1, <2>2
<1>. QED BY <1>1, <1>3, <1>4, HeaderRests
         DEF TotalsInv, TurnsTyped, HeatmapInv, ClosedOfItsDay, HeatmapOfOneDay

LEMMA HeatmapFailsHolds ==
  ASSUME TotalsInv, HeatmapFails
  PROVE  TotalsInv'
<1>1. refresh' = NoRefresh /\ UNCHANGED <<instant, turns, headerVars, closed, rows>>
  BY DEF HeatmapFails
<1>2. RefreshStates' /\ RefreshHolds'
  BY <1>1 DEF NoRefresh, RefreshStates, RefreshHolds
<1>. QED BY <1>1, <1>2, HeaderRests
         DEF TotalsInv, TurnsTyped, HeatmapInv, ClosedOfItsDay, HeatmapOfOneDay

LEMMA ReadClosedDaysHolds ==
  ASSUME TotalsInv, ReadClosedDays
  PROVE  TotalsInv'
<1>. DEFINE day == refresh.day
            ts == {t \in turns : t < DayStart(day)}
            days == DayRows(ts)
<1>1. /\ instant \in Nat /\ turns \subseteq 0..instant /\ day \in Nat
      /\ refresh.seen \subseteq {t \in turns : DayAt(t) <= day}
  BY DEF ReadClosedDays, TotalsInv, TurnsTyped, HeatmapInv, RefreshHolds
<1>2. UNCHANGED <<instant, turns, headerVars, closed, rows>>
  BY DEF ReadClosedDays
<1>3. ClosedRows(days, day) /\ Covers(ts, days)
  <2>1. ts \in SUBSET (0..instant) /\ \A t \in ts : t < DayStart(day)
    BY <1>1
  <2>. HIDE DEF ts, day
  <2>. QED BY <1>1, <2>1, DayRowsClosed
<1>4. Covers({t \in refresh.seen : DayAt(t) < day}, days)
  <2>1. ASSUME NEW t \in refresh.seen, DayAt(t) < day PROVE t \in ts
    <3>. HIDE DEF day
    <3>1. t \in {u \in turns : DayAt(u) <= day}
      BY <1>1, <2>1
    <3>2. t \in turns /\ t < DayStart(day)
      BY <1>1, <2>1, <3>1, SeenSoFar
    <3>. QED BY <3>2
  <2>. HIDE DEF ts, days
  <2>. QED BY <1>3, <2>1 DEF Covers
<1>5. /\ refresh'.at = "built" /\ refresh'.day = day /\ refresh'.seen = refresh.seen
      /\ refresh'.days = days
  BY DEF ReadClosedDays, TotalsInv, HeatmapInv
<1>. HIDE DEF days, day
<1>6. RefreshStates' /\ RefreshHolds'
  BY <1>1, <1>2, <1>3, <1>4, <1>5 DEF RefreshStates, RefreshHolds
<1>. QED BY <1>1, <1>2, <1>6, HeaderRests
         DEF TotalsInv, TurnsTyped, HeatmapInv, ClosedOfItsDay, HeatmapOfOneDay

LEMMA CacheClosedDaysHolds ==
  ASSUME TotalsInv, CacheClosedDays
  PROVE  TotalsInv'
<1>. DEFINE seen == {t \in refresh.seen : DayAt(t) < refresh.day}
<1>1. /\ refresh.day \in Nat /\ ClosedRows(refresh.days, refresh.day)
      /\ refresh.seen \subseteq {t \in turns : DayAt(t) <= refresh.day}
      /\ Covers(seen, refresh.days)
      /\ refresh.at = "built"
  BY DEF CacheClosedDays, TotalsInv, HeatmapInv, RefreshHolds
<1>2. /\ UNCHANGED <<instant, turns, headerVars, rows>>
      /\ refresh' = [refresh EXCEPT !.at = "closed"]
  BY DEF CacheClosedDays
<1>3. ClosedOfItsDay'
  <2>1. CASE closed' = [day |-> refresh.day, days |-> refresh.days, seen |-> seen]
    <3>1. seen \subseteq {t \in turns : DayAt(t) < refresh.day}
      BY <1>1
    <3>. HIDE DEF seen
    <3>. QED BY <1>1, <1>2, <2>1, <3>1 DEF ClosedOfItsDay
  <2>2. CASE closed' = closed
    BY <1>2, <2>2 DEF TotalsInv, HeatmapInv, ClosedOfItsDay
  <2>. QED BY <2>1, <2>2 DEF CacheClosedDays
<1>4. RefreshStates' /\ RefreshHolds'
  <2>1. /\ refresh'.at = "closed" /\ refresh'.day = refresh.day /\ refresh'.seen = refresh.seen
        /\ refresh'.days = refresh.days
    BY <1>2 DEF CacheClosedDays, TotalsInv, HeatmapInv, RefreshHolds
  <2>. QED BY <1>1, <1>2, <2>1 DEF RefreshStates, RefreshHolds
<1>. QED BY <1>2, <1>3, <1>4, HeaderRests
         DEF TotalsInv, TurnsTyped, HeatmapInv, HeatmapOfOneDay

LEMMA ReadTodayHolds ==
  ASSUME TotalsInv, ReadToday
  PROVE  TotalsInv'
<1>. DEFINE day == refresh.day
            today == [day |-> day, turns |-> OfDay(turns, day)]
            n == Len(refresh.days)
            days == Append(refresh.days, today)
<1>1. /\ day \in Nat /\ ClosedRows(refresh.days, day)
      /\ refresh.seen \subseteq {t \in turns : DayAt(t) <= day}
      /\ Covers({t \in refresh.seen : DayAt(t) < day}, refresh.days)
      /\ instant \in Nat /\ turns \subseteq 0..instant
  BY DEF ReadToday, TotalsInv, TurnsTyped, HeatmapInv, RefreshHolds
<1>2. /\ rows' = [day |-> day, seen |-> refresh.seen, days |-> days]
      /\ refresh' = NoRefresh
      /\ UNCHANGED <<instant, turns, headerVars, closed>>
  BY DEF ReadToday, Today
<1>3. today \in [day: Nat, turns: SUBSET Nat]
  <2>1. turns \subseteq Nat
    BY <1>1
  <2>2. OfDay(turns, day) \subseteq Nat
    <3>. HIDE DEF day
    <3>. QED BY <2>1 DEF OfDay
  <2>. QED BY <1>1, <2>2
<1>4. refresh.days \in Seq([day: Nat, turns: SUBSET Nat])
  BY <1>1 DEF ClosedRows
<1>5. /\ n \in Nat /\ DOMAIN days = 1..(n + 1) /\ Len(days) = n + 1
      /\ days[n + 1] = today
      /\ \A i \in 1..n : days[i] = refresh.days[i] /\ i \in DOMAIN refresh.days
  <2>. HIDE DEF today
  <2>. QED BY <1>3, <1>4
<1>6. \A i \in 1..n : days[i].day < day /\ days[i].day \in Nat
  <2>1. ASSUME NEW i \in 1..n PROVE days[i].day < day /\ days[i].day \in Nat
    <3>1. i \in DOMAIN refresh.days /\ days[i] = refresh.days[i]
      BY <1>5, <2>1
    <3>2. refresh.days[i] \in [day: Nat, turns: SUBSET Nat]
      <4>. DEFINE Row == [day: Nat, turns: SUBSET Nat]
      <4>1. refresh.days \in Seq(Row)
        BY <1>4
      <4>. HIDE DEF Row
      <4>2. refresh.days[i] \in Row
        BY <3>1, <4>1
      <4>. QED BY <4>2 DEF Row
    <3>3. refresh.days[i].day < day
      BY <1>1, <3>1 DEF ClosedRows
    <3>. HIDE DEF days, day
    <3>. QED BY <3>1, <3>2, <3>3
  <2>. QED BY <2>1
<1>7. \A i, j \in DOMAIN days : i < j => days[i].day < days[j].day
  <2>1. ASSUME NEW i \in 1..(n + 1), NEW j \in 1..(n + 1), i < j
        PROVE  days[i].day < days[j].day
    <3>1. i \in 1..n
      BY <1>5, <2>1
    <3>2. CASE j \in 1..n
      BY <1>1, <1>5, <2>1, <3>1, <3>2 DEF ClosedRows, Ascending
    <3>3. CASE j = n + 1
      BY <1>5, <1>6, <3>1, <3>3
    <3>. QED BY <1>5, <3>2, <3>3
  <2>. QED BY <1>5, <2>1
<1>8. Last(days).day = day
  BY <1>5 DEF Last
<1>9. refresh.seen \subseteq UNION {days[i].turns : i \in DOMAIN days}
  <2>1. ASSUME NEW t \in refresh.seen PROVE \E i \in DOMAIN days : t \in days[i].turns
    <3>1. t \in turns /\ DayAt(t) <= day /\ t \in Nat /\ DayAt(t) \in Nat
      <4>. HIDE DEF day
      <4>1. t \in {u \in turns : DayAt(u) <= day}
        BY <1>1, <2>1
      <4>. QED BY <1>1, <4>1, SeenSoFar
    <3>2. CASE DayAt(t) = day
      BY <1>5, <3>1, <3>2 DEF OfDay
    <3>3. CASE DayAt(t) < day
      <4>1. PICK i \in DOMAIN refresh.days : t \in refresh.days[i].turns
        BY <1>1, <2>1, <3>3 DEF Covers
      <4>2. i \in 1..n
        BY <1>4, <4>1
      <4>. QED BY <1>5, <4>1, <4>2
    <3>. HIDE DEF day
    <3>. QED BY <1>1, <3>1, <3>2, <3>3
  <2>. HIDE DEF days
  <2>. QED BY <2>1
<1>. HIDE DEF days, day
<1>10. HeatmapOfOneDay'
  BY <1>2, <1>7, <1>8, <1>9 DEF HeatmapOfOneDay
<1>11. RefreshStates' /\ RefreshHolds'
  BY <1>2 DEF NoRefresh, RefreshStates, RefreshHolds
<1>. QED BY <1>1, <1>2, <1>10, <1>11, HeaderRests
         DEF TotalsInv, TurnsTyped, HeatmapInv, ClosedOfItsDay

LEMMA TotalsInvStep == TotalsInv /\ [TotalsNext]_totalsVars => TotalsInv'
<1>. SUFFICES ASSUME TotalsInv, [TotalsNext]_totalsVars PROVE TotalsInv'
  OBVIOUS
<1>1. ASSUME instant' \in Nat, instant <= instant', UNCHANGED <<turns, headerVars, heatmapVars>>
      PROVE  TotalsInv'
  <2>1. TurnsTyped'
    BY <1>1 DEF TotalsInv, TurnsTyped
  <2>. QED BY <1>1, <2>1, HeaderRests, HeatmapRests DEF TotalsInv
<1>2. CASE InstantPasses
  BY <1>1, <1>2 DEF InstantPasses, TotalsInv, TurnsTyped
<1>3. CASE InitialCollectDone
  BY <1>1, <1>3 DEF InitialCollectDone, TotalsInv, TurnsTyped
<1>4. CASE UNCHANGED totalsVars
  BY <1>1, <1>4 DEF totalsVars, TotalsInv, TurnsTyped
<1>. QED BY <1>2, <1>3, <1>4, StripStepHolds, TickStepHolds, ShowHeadlineHolds, StoreTurnHolds,
            HeatmapBeginsHolds, HeatmapFailsHolds, ReadClosedDaysHolds, CacheClosedDaysHolds,
            ReadTodayHolds
         DEF TotalsNext

(* The heatmap has one row per day, today's last, and misses no turn that  *)
(* was stored when its refresh began or, of cached closed days, when the   *)
(* refresh began that cached them.  The header leaves out no turn of its   *)
(* day stored when its tick began, if the strip it copied and the window   *)
(* reach back over the day, but those stored late; it shows none of an     *)
(* earlier day, and none twice but those a strip counted though later than *)
(* its stamp.  All this also if midnight passes between any two reads.     *)
THEOREM TotalsStayOfTheirDay == TotalsSpec => []TotalsOfTheirDay
<1>1. TotalsInv => TotalsOfTheirDay
  BY DEF TotalsInv, HeaderInv, HeatmapInv, TotalsOfTheirDay
<1>. QED BY <1>1, TotalsInvInit, TotalsInvStep, PTL DEF TotalsSpec

-----------------------------------------------------------------------------
(***************************************************************************)
(* Sequences of rising times.                                              *)
(***************************************************************************)
LEMMA CutExists ==
  ASSUME NEW s \in Seq(Nat), NEW t \in Int
  PROVE  \E n \in 0..Len(s) : Past(s, t, n)
<1>. DEFINE T == {n \in 0..Len(s) : n < Len(s) => t <= s[n + 1]}
            R == {e \in Nat \X Nat : e[1] < e[2]}
<1>1. IsWellFoundedOn(R, Nat)
  <2>1. R = OpToRel(<, Nat)
    BY Zenon DEF OpToRel
  <2>. QED BY <2>1, NatLessThanWellFounded, Zenon
<1>2. T \subseteq Nat /\ T # {} /\ Len(s) \in Nat
  <2>1. Len(s) \in Nat /\ Len(s) \in T
    OBVIOUS
  <2>. QED BY <2>1
<1>3. PICK n \in T : \A u \in T : ~ (u < n)
  <2>1. PICK n \in T : \A u \in T : ~ (<<u, n>> \in R)
    <3>. HIDE DEF T, R
    <3>. QED BY <1>1, <1>2, WFMin
  <2>2. \A u \in T : u \in Nat /\ n \in Nat
    BY <1>2
  <2>. QED BY <2>1, <2>2
<1>4. ASSUME NEW i \in 1..n PROVE s[i] < t
  <2>1. i - 1 \in 0..Len(s) /\ i - 1 < n /\ i \in 1..Len(s) /\ i - 1 < Len(s)
    BY <1>2, <1>3
  <2>2. i - 1 \notin T
    BY <1>3, <2>1
  <2>3. ~ (t <= s[i - 1 + 1]) /\ i - 1 + 1 = i
    BY <2>1, <2>2
  <2>4. s[i] \in Nat
    BY <2>1
  <2>. QED BY <2>3, <2>4
<1>. QED BY <1>3, <1>4 DEF Past

(* What is left after a cut is what is not before it, still in order.      *)
LEMMA FromCuts ==
  ASSUME NEW s \in Seq(Nat), Rising(s), NEW t \in Int
  PROVE  /\ From(s, t) \in Seq(Nat) /\ Rising(From(s, t))
         /\ Range(From(s, t)) = {e \in Range(s) : t <= e}
<1>. DEFINE n == CHOOSE k \in 0..Len(s) : Past(s, t, k)
            cut == From(s, t)
<1>1. n \in 0..Len(s) /\ Past(s, t, n)
  BY CutExists
<1>2. cut = SubSeq(s, 1 + n, Len(s))
  BY DEF From
<1>. HIDE DEF n, cut
<1>3. Len(s) \in Nat /\ n \in Nat /\ n <= Len(s) /\ \A i \in 1..Len(s) : s[i] \in Nat
  BY <1>1
<1>4. /\ cut \in Seq(Nat)
      /\ Len(cut) = Len(s) - n
      /\ \A i \in 1..(Len(s) - n) : cut[i] = s[i + n]
  <2>1. 1 + n \in Int /\ Len(s) \in Int /\ \A i \in (1 + n)..Len(s) : s[i] \in Nat
    BY <1>3
  <2>2. /\ SubSeq(s, 1 + n, Len(s)) \in Seq(Nat)
        /\ Len(SubSeq(s, 1 + n, Len(s))) = IF 1 + n <= Len(s) THEN Len(s) - (1 + n) + 1 ELSE 0
        /\ \A i \in 1..(Len(s) - (1 + n) + 1) : SubSeq(s, 1 + n, Len(s))[i] = s[1 + n + i - 1]
    BY <2>1, SubSeqProperties
  <2>3. ASSUME NEW i \in 1..(Len(s) - n) PROVE cut[i] = s[i + n]
    <3>1. i \in 1..(Len(s) - (1 + n) + 1) /\ 1 + n + i - 1 = i + n
      BY <1>3
    <3>. QED BY <1>2, <2>2, <3>1
  <2>. QED BY <1>2, <1>3, <2>2, <2>3
<1>5. DOMAIN cut = 1..(Len(s) - n) /\ DOMAIN s = 1..Len(s)
  BY <1>4
<1>6. Rising(cut)
  <2>1. ASSUME NEW i \in 1..(Len(s) - n), NEW j \in 1..(Len(s) - n), i < j PROVE cut[i] < cut[j]
    <3>1. i + n \in DOMAIN s /\ j + n \in DOMAIN s /\ i + n < j + n
      BY <1>3, <1>5, <2>1
    <3>. QED BY <1>4, <3>1 DEF Rising
  <2>. QED BY <1>5, <2>1 DEF Rising
<1>7. Range(cut) \subseteq {e \in Range(s) : t <= e}
  <2>1. ASSUME NEW i \in 1..(Len(s) - n) PROVE cut[i] \in Range(s) /\ t <= cut[i]
    <3>1. i + n \in DOMAIN s /\ n + 1 \in DOMAIN s /\ n + 1 <= i + n /\ n < Len(s)
      BY <1>3, <1>5
    <3>2. t <= s[n + 1]
      BY <1>1, <3>1 DEF Past
    <3>3. s[n + 1] <= s[i + n]
      <4>1. CASE i = 1
        BY <1>3, <1>5, <3>1, <4>1
      <4>2. CASE i > 1
        <5>1. n + 1 < i + n
          BY <1>3, <4>2
        <5>2. s[n + 1] < s[i + n]
          BY <3>1, <5>1 DEF Rising
        <5>. QED BY <1>3, <1>5, <3>1, <5>2
      <4>. QED BY <4>1, <4>2
    <3>4. cut[i] = s[i + n] /\ s[i + n] \in Nat /\ s[n + 1] \in Nat
      BY <1>3, <1>4, <1>5, <3>1
    <3>. QED BY <3>1, <3>2, <3>3, <3>4 DEF Range
  <2>. QED BY <1>5, <2>1 DEF Range
<1>8. {e \in Range(s) : t <= e} \subseteq Range(cut)
  <2>1. ASSUME NEW i \in 1..Len(s), t <= s[i] PROVE s[i] \in Range(cut)
    <3>1. ~ (i \in 1..n)
      BY <1>1, <1>3, <2>1 DEF Past
    <3>2. i - n \in 1..(Len(s) - n) /\ i - n + n = i
      BY <1>3, <3>1
    <3>3. cut[i - n] = s[i]
      BY <1>4, <3>2
    <3>. QED BY <1>5, <3>2, <3>3 DEF Range
  <2>. QED BY <1>5, <2>1 DEF Range
<1>9. cut \in Seq(Nat)
  BY <1>4
<1>. QED BY <1>6, <1>7, <1>8, <1>9 DEF cut

LEMMA AfterCuts ==
  ASSUME NEW s \in Seq(Nat), Rising(s), NEW t \in Nat
  PROVE  /\ After(s, t) \in Seq(Nat) /\ Rising(After(s, t))
         /\ Range(After(s, t)) = {e \in Range(s) : t < e}
<1>1. t + 1 \in Int /\ \A e \in Range(s) : e \in Nat /\ (t + 1 <= e <=> t < e)
  BY DEF Range
<1>2. /\ From(s, t + 1) \in Seq(Nat) /\ Rising(From(s, t + 1))
      /\ Range(From(s, t + 1)) = {e \in Range(s) : t + 1 <= e}
  BY <1>1, FromCuts
<1>. QED BY <1>1, <1>2 DEF After

LEMMA ConcatRises ==
  ASSUME NEW r \in Seq(Nat), NEW s \in Seq(Nat), Rising(r), Rising(s),
         \A a \in Range(r), b \in Range(s) : a < b
  PROVE  /\ r \o s \in Seq(Nat) /\ Rising(r \o s)
         /\ Range(r \o s) = Range(r) \cup Range(s)
<1>. DEFINE both == r \o s
<1>1. /\ both \in Seq(Nat) /\ Len(both) = Len(r) + Len(s)
      /\ \A i \in 1..(Len(r) + Len(s)) : both[i] = IF i <= Len(r) THEN r[i] ELSE s[i - Len(r)]
  BY ConcatProperties
<1>. HIDE DEF both
<1>2. /\ Len(r) \in Nat /\ Len(s) \in Nat
      /\ DOMAIN r = 1..Len(r) /\ DOMAIN s = 1..Len(s) /\ DOMAIN both = 1..(Len(r) + Len(s))
  BY <1>1
<1>3. /\ \A i \in DOMAIN r : i \in DOMAIN both /\ both[i] = r[i]
      /\ \A i \in DOMAIN s : i + Len(r) \in DOMAIN both /\ both[i + Len(r)] = s[i]
  <2>1. ASSUME NEW i \in DOMAIN s PROVE i + Len(r) \in DOMAIN both /\ both[i + Len(r)] = s[i]
    <3>1. /\ i + Len(r) \in 1..(Len(r) + Len(s)) /\ ~ (i + Len(r) <= Len(r))
          /\ i + Len(r) - Len(r) = i
      BY <1>2
    <3>. QED BY <1>1, <1>2, <3>1
  <2>2. ASSUME NEW i \in DOMAIN r PROVE i \in DOMAIN both /\ both[i] = r[i]
    <3>1. i \in 1..(Len(r) + Len(s)) /\ i <= Len(r)
      BY <1>2
    <3>. QED BY <1>1, <1>2, <3>1
  <2>. QED BY <2>1, <2>2
<1>4. \A i \in DOMAIN both : \/ i \in DOMAIN r /\ both[i] = r[i]
                             \/ /\ i > Len(r) /\ i - Len(r) \in DOMAIN s
                                /\ both[i] = s[i - Len(r)]
  <2>1. ASSUME NEW i \in DOMAIN both
        PROVE  \/ i \in DOMAIN r /\ both[i] = r[i]
               \/ /\ i > Len(r) /\ i - Len(r) \in DOMAIN s
                  /\ both[i] = s[i - Len(r)]
    <3>1. CASE i <= Len(r)
      <4>1. i \in DOMAIN r
        BY <1>2, <3>1
      <4>. QED BY <1>3, <4>1
    <3>2. CASE i > Len(r)
      <4>1. i - Len(r) \in DOMAIN s /\ ~ (i <= Len(r))
        BY <1>2, <3>2
      <4>. QED BY <1>1, <1>2, <3>2, <4>1
    <3>. QED BY <1>2, <3>1, <3>2
  <2>. QED BY <2>1
<1>5. Range(both) = Range(r) \cup Range(s)
  BY <1>3, <1>4 DEF Range
<1>6. Rising(both)
  <2>1. ASSUME NEW i \in DOMAIN both, NEW j \in DOMAIN both, i < j PROVE both[i] < both[j]
    <3>1. CASE j \in DOMAIN r
      <4>1. i \in DOMAIN r
        BY <1>2, <2>1, <3>1
      <4>. QED BY <1>3, <2>1, <3>1, <4>1 DEF Rising
    <3>2. CASE j \notin DOMAIN r /\ i \in DOMAIN r
      <4>1. both[i] \in Range(r) /\ both[j] \in Range(s)
        BY <1>3, <1>4, <3>2 DEF Range
      <4>. QED BY <4>1
    <3>3. CASE j \notin DOMAIN r /\ i \notin DOMAIN r
      <4>1. /\ i - Len(r) \in DOMAIN s /\ both[i] = s[i - Len(r)]
            /\ j - Len(r) \in DOMAIN s /\ both[j] = s[j - Len(r)]
        BY <1>4, <3>3
      <4>2. i - Len(r) < j - Len(r)
        BY <1>2, <2>1
      <4>. QED BY <4>1, <4>2 DEF Rising
    <3>. QED BY <3>1, <3>2, <3>3
  <2>. QED BY <2>1 DEF Rising
<1>. QED BY <1>1, <1>5, <1>6 DEF both

LEMMA AppendRises ==
  ASSUME NEW s \in Seq(Nat), Rising(s), NEW t \in Nat, \A e \in Range(s) : e < t
  PROVE  /\ Append(s, t) \in Seq(Nat) /\ Rising(Append(s, t))
         /\ Range(Append(s, t)) = Range(s) \cup {t}
<1>. DEFINE one == <<t>>
<1>1. Append(s, t) = s \o one
  BY AppendIsConcat
<1>2. one \in Seq(Nat) /\ DOMAIN one = {1} /\ one[1] = t
  OBVIOUS
<1>. HIDE DEF one
<1>3. Rising(one) /\ Range(one) = {t}
  BY <1>2 DEF Rising, Range
<1>4. \A a \in Range(s), b \in Range(one) : a < b
  BY <1>3
<1>. QED BY <1>1, <1>2, <1>3, <1>4, ConcatRises

(* The newest of them is the greatest, and is 0 if there is none.          *)
LEMMA NewestIs ==
  ASSUME NEW s \in Seq(Nat), Rising(s)
  PROVE  /\ Newest(s) \in Nat
         /\ \A e \in Range(s) : e \in Nat /\ e <= Newest(s)
         /\ Range(s) = {} => Newest(s) = 0
         /\ Range(s) # {} => Newest(s) \in Range(s)
<1>1. Len(s) \in Nat /\ DOMAIN s = 1..Len(s) /\ \A i \in DOMAIN s : s[i] \in Nat
  OBVIOUS
<1>2. CASE s = <<>>
  <2>1. Newest(s) = 0 /\ DOMAIN s = {}
    BY <1>2 DEF Newest
  <2>2. Range(s) = {}
    BY <2>1 DEF Range
  <2>. QED BY <2>1, <2>2
<1>3. CASE s # <<>>
  <2>1. Len(s) \in DOMAIN s /\ Newest(s) = s[Len(s)]
    BY <1>1, <1>3, EmptySeq DEF Newest, Last
  <2>2. Newest(s) \in Range(s) /\ Newest(s) \in Nat
    BY <1>1, <2>1 DEF Range
  <2>3. ASSUME NEW i \in DOMAIN s PROVE s[i] <= Newest(s)
    <3>1. CASE i = Len(s)
      BY <2>1, <2>2, <3>1
    <3>2. CASE i # Len(s)
      <4>1. i < Len(s)
        BY <1>1, <3>2
      <4>2. s[i] < s[Len(s)]
        BY <2>1, <4>1 DEF Rising
      <4>. QED BY <1>1, <2>1, <2>2, <4>2
    <3>. QED BY <3>1, <3>2
  <2>4. \A e \in Range(s) : e \in Nat /\ e <= Newest(s)
    BY <1>1, <2>3 DEF Range
  <2>. QED BY <2>2, <2>4
<1>. QED BY <1>2, <1>3

-----------------------------------------------------------------------------
(***************************************************************************)
(* The calls in flight: one is the latest, at most one was given up on,    *)
(* and the latest is answered after it.                                    *)
(***************************************************************************)
Reply == [delta: BOOLEAN, rows: Seq(Nat)]
Call == [at: {"sent", "answered", "lost"}, latest: BOOLEAN, abandoned: BOOLEAN, stale: BOOLEAN,
         cursor: [Buffers -> Nat], now: Nat, rows: [Buffers -> Reply]]

HistoryTyped ==
  /\ time \in Nat
  /\ hist \in [Buffers -> Seq(Nat)]
  /\ view \in [ring: [Buffers -> Seq(Nat)], waited: Nat, now: Nat]
  /\ asked \subseteq Call
  /\ ghost \in [taken: [Buffers -> Seq(Nat)], hides: Nat, bad: Nat]

Span(b) == IF b = "system" THEN ChartTicks ELSE HistTicks
Taken(b) == Range(ghost.taken[b])

SamplesRise ==
  \A b \in Buffers : Rising(ghost.taken[b]) /\ \A s \in Taken(b) : 1 <= s /\ s <= time

(* A buffer has a sample with every later one, and all of the last ones.   *)
BuffersHold ==
  \A b \in Buffers :
    LET held == Range(hist[b])
    IN /\ Rising(hist[b])
       /\ held \subseteq Taken(b)
       /\ \A h \in held, s \in Taken(b) : h <= s => s \in held
       /\ \A s \in Taken(b) : time - HistTicks <= s => s \in held

(* The page's rings are the samples of its windows, up to their newest.    *)
RingsHold ==
  /\ view.now <= time
  /\ \A b \in Buffers :
       /\ Rising(view.ring[b])
       /\ Newest(view.ring[b]) <= view.now
       /\ Range(view.ring[b]) = {s \in Taken(b) : view.now - Span(b) <= s /\ s <= Newest(view.ring[b])}

OneOfEach ==
  \A c, d \in asked :
    /\ c.abandoned = ~ c.latest
    /\ c.latest = d.latest => c = d
    /\ (c.latest /\ c.at = "answered") => d.at # "sent"
    /\ c.at = "lost" => c.stale

(* What an answer brings: all that was taken after the cursor, or all that *)
(* was taken in the window.                                                *)
Brings(a, b, cursor, now) ==
  /\ Rising(a.rows)
  /\ a.delta => Range(a.rows) = {s \in Taken(b) : cursor < s /\ s <= now}
  /\ ~ a.delta => /\ {s \in Taken(b) : now - Span(b) <= s /\ s <= now} \subseteq Range(a.rows)
                  /\ Range(a.rows) \subseteq {s \in Taken(b) : s <= now}

CallHolds(c) ==
  ~ c.stale =>
    /\ \A b \in Buffers : \/ c.cursor[b] <= Newest(view.ring[b])
                          \/ c.cursor[b] < view.now - Span(b)
    /\ c.at = "answered" =>
         /\ view.now <= c.now /\ c.now <= time
         /\ \A b \in Buffers : Brings(c.rows[b], b, c.cursor[b], c.now)

CallsHold == \A c \in asked : CallHolds(c)

AnsweredInTurn ==
  \A c, d \in asked :
    (~ c.stale /\ ~ d.stale /\ ~ c.latest /\ d.latest /\ c.at = "answered" /\ d.at = "answered")
      => c.now <= d.now

HistoryInv ==
  /\ HistoryTyped
  /\ SamplesRise /\ BuffersHold /\ RingsHold
  /\ OneOfEach /\ CallsHold /\ AnsweredInTurn

LEMMA HistoryInvInit == HistoryInit => HistoryInv
<1>. SUFFICES ASSUME HistoryInit PROVE HistoryInv
  OBVIOUS
<1>1. HistoryTyped
  BY DEF HistoryInit, HistoryTyped
<1>2. \A b \in Buffers : /\ hist[b] = <<>> /\ view.ring[b] = <<>> /\ ghost.taken[b] = <<>>
                         /\ Taken(b) = {}
  BY DEF HistoryInit, Taken, Range
<1>3. time = 0 /\ view.now = 0 /\ asked = {}
  BY DEF HistoryInit
<1>4. Rising(<<>>) /\ Range(<<>>) = {} /\ Newest(<<>>) = 0
  BY DEF Rising, Range, Newest
<1>5. SamplesRise /\ BuffersHold /\ RingsHold
  BY <1>2, <1>3, <1>4 DEF SamplesRise, BuffersHold, RingsHold
<1>6. OneOfEach /\ CallsHold /\ AnsweredInTurn
  BY <1>3 DEF OneOfEach, CallsHold, AnsweredInTurn
<1>. QED BY <1>1, <1>5, <1>6 DEF HistoryInv

(* What is known of one buffer and of one ring.                            *)
LEMMA OfBuffer ==
  ASSUME HistoryInv, NEW b \in Buffers
  PROVE  /\ time \in Nat /\ view.now \in Nat /\ view.now <= time
         /\ Span(b) \in Nat /\ Span(b) <= HistTicks /\ HistTicks \in Nat /\ ChartTicks \in Nat
         /\ hist[b] \in Seq(Nat) /\ Rising(hist[b])
         /\ view.ring[b] \in Seq(Nat) /\ Rising(view.ring[b])
         /\ ghost.taken[b] \in Seq(Nat) /\ Rising(ghost.taken[b])
         /\ \A s \in Taken(b) : s \in Nat /\ 1 <= s /\ s <= time
<1>1. ghost.taken[b] \in Seq(Nat)
  BY DEF HistoryInv, HistoryTyped
<1>2. \A s \in Taken(b) : s \in Nat
  BY <1>1 DEF Taken, Range
<1>. QED BY <1>1, <1>2, HistoryAssumption
         DEF HistoryInv, HistoryTyped, SamplesRise, BuffersHold, RingsHold, Span

(* An answer brings all there is after the cursor, or all of the window.   *)
LEMMA SystemBrings ==
  ASSUME HistoryInv, NEW cursor \in Nat
  PROVE  LET a == SysHistSince(hist["system"], cursor, time - ChartTicks)
         IN a \in Reply /\ Brings(a, "system", cursor, time)
<1>. DEFINE buf == hist["system"]
            start == time - ChartTicks
            a == SysHistSince(buf, cursor, start)
<1>1. "system" \in Buffers /\ Span("system") = ChartTicks
  BY DEF Buffers, Span
<1>2. /\ buf \in Seq(Nat) /\ Rising(buf) /\ start \in Int
      /\ time \in Nat /\ ChartTicks \in Nat /\ HistTicks \in Nat /\ ChartTicks <= HistTicks
      /\ \A s \in Taken("system") : s \in Nat /\ s <= time
  BY <1>1, OfBuffer
<1>3. /\ Range(buf) \subseteq Taken("system")
      /\ \A s \in Taken("system") : start <= s => s \in Range(buf)
  <2>1. \A s \in Taken("system") : start <= s => time - HistTicks <= s
    BY <1>2
  <2>. QED BY <1>1, <2>1 DEF HistoryInv, BuffersHold
<1>4. CASE a.delta
  <2>1. ~ (cursor < start) /\ a = [delta |-> TRUE, rows |-> After(buf, cursor)]
    BY <1>4 DEF SysHistSince
  <2>. HIDE DEF a, buf, start
  <2>2. /\ After(buf, cursor) \in Seq(Nat) /\ Rising(After(buf, cursor))
        /\ Range(After(buf, cursor)) = {e \in Range(buf) : cursor < e}
    BY <1>2, AfterCuts
  <2>3. {e \in Range(buf) : cursor < e} = {s \in Taken("system") : cursor < s /\ s <= time}
    BY <1>2, <1>3, <2>1
  <2>4. a \in Reply
    BY <2>1, <2>2 DEF Reply
  <2>5. Brings(a, "system", cursor, time)
    BY <1>4, <2>1, <2>2, <2>3 DEF Brings
  <2>. QED BY <2>4, <2>5 DEF a, buf, start
<1>5. CASE ~ a.delta
  <2>1. a = [delta |-> FALSE, rows |-> From(buf, start)]
    BY <1>5 DEF SysHistSince
  <2>2. /\ From(buf, start) \in Seq(Nat) /\ Rising(From(buf, start))
        /\ Range(From(buf, start)) = {e \in Range(buf) : start <= e}
    <3>. HIDE DEF buf, start
    <3>. QED BY <1>2, FromCuts
  <2>3. /\ {s \in Taken("system") : start <= s /\ s <= time} \subseteq {e \in Range(buf) : start <= e}
        /\ {e \in Range(buf) : start <= e} \subseteq {s \in Taken("system") : s <= time}
    <3>. HIDE DEF buf, start
    <3>. QED BY <1>2, <1>3
  <2>. HIDE DEF a, buf
  <2>4. a \in Reply
    BY <2>1, <2>2 DEF Reply
  <2>5. Brings(a, "system", cursor, time)
    BY <1>1, <1>5, <2>1, <2>2, <2>3 DEF Brings
  <2>. QED BY <2>4, <2>5 DEF a, buf
<1>. QED BY <1>4, <1>5

LEMMA GroupsBring ==
  ASSUME HistoryInv, NEW cursor \in Nat
  PROVE  LET a == GroupsHistSince(hist["groups"], cursor)
         IN a \in Reply /\ Brings(a, "groups", cursor, time)
<1>. DEFINE buf == hist["groups"]
            a == GroupsHistSince(buf, cursor)
<1>1. "groups" \in Buffers /\ Span("groups") = HistTicks
  BY DEF Buffers, Span
<1>2. /\ buf \in Seq(Nat) /\ Rising(buf) /\ time \in Nat /\ HistTicks \in Nat
      /\ \A s \in Taken("groups") : s \in Nat /\ s <= time
  BY <1>1, OfBuffer
<1>3. /\ Range(buf) \subseteq Taken("groups")
      /\ \A h \in Range(buf), s \in Taken("groups") : h <= s => s \in Range(buf)
      /\ \A s \in Taken("groups") : time - HistTicks <= s => s \in Range(buf)
  BY <1>1 DEF HistoryInv, BuffersHold
<1>4. CASE a.delta
  <2>1. buf # <<>> /\ ~ (cursor < buf[1]) /\ a = [delta |-> TRUE, rows |-> After(buf, cursor)]
    BY <1>4 DEF GroupsHistSince
  <2>. HIDE DEF a, buf
  <2>2. /\ After(buf, cursor) \in Seq(Nat) /\ Rising(After(buf, cursor))
        /\ Range(After(buf, cursor)) = {e \in Range(buf) : cursor < e}
    BY <1>2, AfterCuts
  <2>3. 1 \in DOMAIN buf /\ buf[1] \in Nat /\ buf[1] \in Range(buf)
    <3>1. 1 \in DOMAIN buf
      BY <1>2, <2>1, EmptySeq
    <3>. QED BY <1>2, <3>1 DEF Range
  <2>4. {e \in Range(buf) : cursor < e} = {s \in Taken("groups") : cursor < s /\ s <= time}
    <3>1. ASSUME NEW s \in Taken("groups"), cursor < s PROVE s \in Range(buf)
      <4>1. buf[1] <= s
        BY <1>2, <2>1, <2>3, <3>1
      <4>. QED BY <1>3, <2>3, <4>1
    <3>. QED BY <1>2, <1>3, <3>1
  <2>. QED BY <2>1, <2>2, <2>4 DEF Brings, Reply, a, buf
<1>5. CASE ~ a.delta
  <2>1. a = [delta |-> FALSE, rows |-> buf]
    BY <1>5 DEF GroupsHistSince
  <2>2. /\ {s \in Taken("groups") : time - HistTicks <= s /\ s <= time} \subseteq Range(buf)
        /\ Range(buf) \subseteq {s \in Taken("groups") : s <= time}
    <3>. HIDE DEF buf
    <3>. QED BY <1>2, <1>3
  <2>. HIDE DEF a, buf
  <2>3. a \in Reply
    BY <1>2, <2>1 DEF Reply
  <2>4. Brings(a, "groups", cursor, time)
    BY <1>1, <1>2, <1>5, <2>1, <2>2 DEF Brings
  <2>. QED BY <2>3, <2>4 DEF a, buf
<1>. QED BY <1>4, <1>5

(* An answer that is applied leaves in a ring what was taken in the window *)
(* that ends when it was given; a cursor that was sent is still in it, or  *)
(* out of the window.                                                      *)
LEMMA AbsorbedRing ==
  ASSUME HistoryInv, NEW b \in Buffers, NEW c \in asked, ~ c.stale, c.at = "answered"
  PROVE  LET ring == From(MergeRing(view.ring[b], c.rows[b]), c.now - Span(b))
         IN /\ ring \in Seq(Nat) /\ Rising(ring)
            /\ Newest(ring) <= c.now
            /\ Range(ring) = {s \in Taken(b) : c.now - Span(b) <= s /\ s <= Newest(ring)}
            /\ \A k \in Nat : (k <= Newest(view.ring[b]) \/ k < view.now - Span(b))
                                => (k <= Newest(ring) \/ k < c.now - Span(b))
<1>. DEFINE old == view.ring[b]
            a == c.rows[b]
            merged == MergeRing(old, a)
            from == c.now - Span(b)
            n == Newest(old)
            ring == From(merged, from)
            cursor == c.cursor[b]
<1>1. /\ c.now \in Nat /\ cursor \in Nat /\ a \in Reply
      /\ view.now <= c.now /\ c.now <= time
      /\ Brings(a, b, cursor, c.now)
      /\ cursor <= n \/ cursor < view.now - Span(b)
  BY DEF HistoryInv, HistoryTyped, Call, CallsHold, CallHolds
<1>2. /\ time \in Nat /\ view.now \in Nat /\ Span(b) \in Nat
      /\ old \in Seq(Nat) /\ Rising(old)
      /\ \A s \in Taken(b) : s \in Nat /\ 1 <= s /\ s <= time
  BY OfBuffer
<1>3. /\ n <= view.now
      /\ Range(old) = {s \in Taken(b) : view.now - Span(b) <= s /\ s <= n}
  BY DEF HistoryInv, RingsHold
<1>4. a.rows \in Seq(Nat) /\ Rising(a.rows)
  BY <1>1 DEF Reply, Brings
<1>. HIDE DEF old, a, cursor
<1>5. /\ n \in Nat
      /\ \A e \in Range(old) : e \in Nat /\ e <= n
      /\ Range(old) = {} => n = 0
      /\ Range(old) # {} => n \in Range(old)
  BY <1>2, NewestIs
<1>6. /\ merged \in Seq(Nat) /\ Rising(merged)
      /\ Range(merged) \subseteq {s \in Taken(b) : s <= c.now}
      /\ \A s \in Taken(b) : from <= s /\ s <= c.now => s \in Range(merged)
  <2>1. CASE a.delta
    <3>1. merged = old \o After(a.rows, n)
      BY <2>1 DEF MergeRing
    <3>2. /\ After(a.rows, n) \in Seq(Nat) /\ Rising(After(a.rows, n))
          /\ Range(After(a.rows, n)) = {e \in Range(a.rows) : n < e}
      BY <1>4, <1>5, AfterCuts
    <3>3. Range(a.rows) = {s \in Taken(b) : cursor < s /\ s <= c.now}
      BY <1>1, <2>1 DEF Brings
    <3>. HIDE DEF n, merged
    <3>4. \A x \in Range(old), y \in Range(After(a.rows, n)) : x < y
      BY <1>2, <1>5, <3>2, <3>3
    <3>5. /\ merged \in Seq(Nat) /\ Rising(merged)
          /\ Range(merged) = Range(old) \cup Range(After(a.rows, n))
      BY <1>2, <3>1, <3>2, <3>4, ConcatRises
    <3>6. Range(merged) \subseteq {s \in Taken(b) : s <= c.now}
      BY <1>1, <1>2, <1>3, <1>5, <3>2, <3>3, <3>5
    <3>7. ASSUME NEW s \in Taken(b), from <= s, s <= c.now PROVE s \in Range(merged)
      <4>1. CASE s <= n
        BY <1>1, <1>2, <1>3, <3>5, <3>7, <4>1
      <4>2. CASE n < s
        <5>1. cursor < s
          BY <1>1, <1>2, <1>5, <3>7, <4>2
        <5>. QED BY <3>2, <3>3, <3>5, <3>7, <4>2, <5>1
      <4>. QED BY <1>2, <1>5, <4>1, <4>2
    <3>. QED BY <3>5, <3>6, <3>7
  <2>2. CASE ~ a.delta
    <3>1. merged = a.rows
      BY <2>2 DEF MergeRing
    <3>. QED BY <1>1, <1>4, <2>2, <3>1 DEF Brings
  <2>. QED BY <2>1, <2>2
<1>7. /\ ring \in Seq(Nat) /\ Rising(ring)
      /\ Range(ring) = {e \in Range(merged) : from <= e}
  <2>1. from \in Int
    BY <1>1, <1>2
  <2>. HIDE DEF merged, from
  <2>. QED BY <1>6, <2>1, FromCuts
<1>8. Range(ring) = {s \in Taken(b) : from <= s /\ s <= c.now}
  <2>. HIDE DEF ring, merged, from
  <2>. QED BY <1>6, <1>7
<1>9. /\ Newest(ring) \in Nat
      /\ \A e \in Range(ring) : e \in Nat /\ e <= Newest(ring)
      /\ Range(ring) = {} => Newest(ring) = 0
      /\ Range(ring) # {} => Newest(ring) \in Range(ring)
  <2>. HIDE DEF ring
  <2>. QED BY <1>7, NewestIs
<1>. HIDE DEF ring, merged, n
<1>10. Newest(ring) <= c.now
  BY <1>1, <1>8, <1>9
<1>11. Range(ring) = {s \in Taken(b) : from <= s /\ s <= Newest(ring)}
  <2>1. {s \in Taken(b) : from <= s /\ s <= Newest(ring)} \subseteq Range(ring)
    BY <1>1, <1>2, <1>8, <1>9, <1>10
  <2>. QED BY <1>8, <1>9, <2>1
<1>12. ASSUME NEW k \in Nat, k <= n \/ k < view.now - Span(b)
       PROVE  k <= Newest(ring) \/ k < from
  <2>1. CASE k < view.now - Span(b)
    BY <1>1, <1>2, <2>1
  <2>2. CASE k <= n /\ Range(old) = {}
    BY <1>5, <1>9, <2>2
  <2>3. CASE k <= n /\ Range(old) # {}
    <3>1. n \in Taken(b) /\ n <= c.now
      BY <1>1, <1>2, <1>3, <1>5, <2>3
    <3>2. CASE from <= n
      <4>1. n <= Newest(ring)
        BY <1>8, <1>9, <3>1, <3>2
      <4>. QED BY <1>5, <1>9, <2>3, <4>1
    <3>3. CASE ~ (from <= n)
      BY <1>1, <1>2, <1>5, <2>3, <3>3
    <3>. QED BY <3>2, <3>3
  <2>. QED BY <1>12, <2>1, <2>2, <2>3
<1>. QED BY <1>7, <1>10, <1>11, <1>12 DEF ring, merged, old, a, n

-----------------------------------------------------------------------------
(* The steps.                                                              *)

LEMMA UnansweredTyped == Unanswered \in [Buffers -> Reply]
<1>1. <<>> \in Seq(Nat)
  OBVIOUS
<1>2. [delta |-> FALSE, rows |-> <<>>] \in Reply
  BY <1>1 DEF Reply
<1>. QED BY <1>2 DEF Unanswered

LEMMA StaleTyped ==
  ASSUME NEW c \in Call
  PROVE  /\ Stale(c) \in Call /\ Stale(c).stale
         /\ Stale(c).at = c.at /\ Stale(c).latest = c.latest /\ Stale(c).abandoned = c.abandoned
<1>1. [b \in Buffers |-> 0] \in [Buffers -> Nat]
  OBVIOUS
<1>. QED BY <1>1, UnansweredTyped DEF Stale, Call

(* A sample goes to the end of a buffer, of which what is old is cut.      *)
LEMMA BufferCut ==
  ASSUME HistoryInv, NEW b \in Buffers
  PROVE  LET t == time + 1
             taken == Append(ghost.taken[b], t)
             held == From(Append(hist[b], t), t - HistTicks)
         IN /\ taken \in Seq(Nat) /\ Rising(taken) /\ Range(taken) = Taken(b) \cup {t}
            /\ held \in Seq(Nat) /\ Rising(held)
            /\ Range(held) \subseteq Range(taken)
            /\ \A h \in Range(held), s \in Range(taken) : h <= s => s \in Range(held)
            /\ \A s \in Range(taken) : t - HistTicks <= s => s \in Range(held)
<1>. DEFINE t == time + 1
            taken == Append(ghost.taken[b], t)
            held == From(Append(hist[b], t), t - HistTicks)
<1>1. /\ time \in Nat /\ HistTicks \in Nat
      /\ hist[b] \in Seq(Nat) /\ Rising(hist[b])
      /\ ghost.taken[b] \in Seq(Nat) /\ Rising(ghost.taken[b])
      /\ \A s \in Taken(b) : s \in Nat /\ s <= time
  BY OfBuffer
<1>2. /\ Range(hist[b]) \subseteq Taken(b)
      /\ \A h \in Range(hist[b]), s \in Taken(b) : h <= s => s \in Range(hist[b])
      /\ \A s \in Taken(b) : time - HistTicks <= s => s \in Range(hist[b])
  BY DEF HistoryInv, BuffersHold
<1>3. t \in Nat /\ t - HistTicks \in Int /\ \A s \in Taken(b) : s < t
  BY <1>1
<1>4. taken \in Seq(Nat) /\ Rising(taken) /\ Range(taken) = Taken(b) \cup {t}
  <2>. HIDE DEF t
  <2>. QED BY <1>1, <1>3, AppendRises DEF Taken
<1>5. /\ Append(hist[b], t) \in Seq(Nat) /\ Rising(Append(hist[b], t))
      /\ Range(Append(hist[b], t)) = Range(hist[b]) \cup {t}
  <2>. HIDE DEF t
  <2>. QED BY <1>1, <1>2, <1>3, AppendRises
<1>6. /\ held \in Seq(Nat) /\ Rising(held)
      /\ Range(held) = {s \in Range(hist[b]) \cup {t} : t - HistTicks <= s}
  <2>. HIDE DEF t
  <2>. QED BY <1>3, <1>5, FromCuts
<1>. HIDE DEF taken, held
<1>7. ASSUME NEW s \in Range(taken), t - HistTicks <= s PROVE s \in Range(held)
  <2>1. CASE s = t
    BY <1>6, <1>7, <2>1
  <2>2. CASE s \in Taken(b)
    <3>1. time - HistTicks <= s
      BY <1>1, <1>7, <2>2
    <3>. QED BY <1>2, <1>6, <1>7, <2>2, <3>1
  <2>. QED BY <1>4, <2>1, <2>2
<1>8. ASSUME NEW h \in Range(held), NEW s \in Range(taken), h <= s PROVE s \in Range(held)
  <2>1. t - HistTicks <= h /\ h \in Nat /\ s \in Nat
    BY <1>1, <1>2, <1>3, <1>4, <1>6
  <2>2. t - HistTicks <= s
    BY <1>3, <1>8, <2>1
  <2>. QED BY <1>7, <2>2
<1>9. Range(held) \subseteq Range(taken)
  BY <1>2, <1>4, <1>6
<1>. QED BY <1>4, <1>6, <1>7, <1>8, <1>9 DEF taken, held

LEMMA SampleHolds ==
  ASSUME HistoryInv, Sample
  PROVE  HistoryInv'
<1>. DEFINE t == time + 1
<1>1. PICK took \in {Buffers, {"system"}, {}} :
        /\ hist' = Cut(hist, took, t)
        /\ \E bad \in {ghost.bad, ghost.bad + 1} :
          ghost' = [ghost EXCEPT
            !.taken = [b \in Buffers |-> IF b \in took THEN Append(ghost.taken[b], t)
                                                      ELSE ghost.taken[b]],
            !.bad = bad]
  <2>1. PICK took \in {Buffers, {"system"}, {}} :
          /\ hist' = Cut(hist, took, time')
          /\ ghost' = [ghost EXCEPT
               !.taken = [b \in Buffers |-> IF b \in took THEN Append(@[b], time') ELSE @[b]],
               !.bad = IF took # Buffers /\ (hidden => time' - Newest(hist["system"]) >= HiddenTicks)
                       THEN @ + 1 ELSE @]
    BY DEF Sample
  <2>2. time' = t
    BY DEF Sample
  <2>. QED BY <2>1, <2>2
<1>11. PICK bad \in {ghost.bad, ghost.bad + 1} :
        ghost' = [ghost EXCEPT
            !.taken = [b \in Buffers |-> IF b \in took THEN Append(ghost.taken[b], t)
                                                      ELSE ghost.taken[b]],
            !.bad = bad]
  BY <1>1
<1>12. ghost \in [taken: [Buffers -> Seq(Nat)], hides: Nat, bad: Nat] /\ bad \in Nat
  BY DEF HistoryInv, HistoryTyped
<1>13. ghost'.taken = [b \in Buffers |-> IF b \in took THEN Append(ghost.taken[b], t)
                                                   ELSE ghost.taken[b]]
  <2>. HIDE DEF t
  <2>. QED BY <1>11, <1>12
<1>2. time' = t /\ time \in Nat /\ view' = view /\ asked' = asked
  BY DEF Sample, HistoryInv, HistoryTyped
<1>3. ASSUME NEW b \in Buffers
      PROVE  /\ ghost'.taken[b] \in Seq(Nat) /\ Rising(ghost'.taken[b])
             /\ Taken(b)' \subseteq Taken(b) \cup {t} /\ Taken(b) \subseteq Taken(b)'
             /\ hist'[b] \in Seq(Nat) /\ Rising(hist'[b])
             /\ Range(hist'[b]) \subseteq Taken(b)'
             /\ \A h \in Range(hist'[b]), s \in Taken(b)' : h <= s => s \in Range(hist'[b])
             /\ \A s \in Taken(b)' : t - HistTicks <= s => s \in Range(hist'[b])
  <2>1. CASE b \in took
    <3>1. ghost'.taken[b] = Append(ghost.taken[b], t)
      BY <1>13, <2>1
    <3>2. hist'[b] = From(Append(hist[b], t), t - HistTicks)
      BY <1>1, <2>1 DEF Cut
    <3>. QED BY <3>1, <3>2, BufferCut DEF Taken
  <2>2. CASE b \notin took
    <3>1. ghost'.taken[b] = ghost.taken[b] /\ hist'[b] = hist[b]
      BY <1>1, <1>13, <2>2 DEF Cut
    <3>2. /\ hist[b] \in Seq(Nat) /\ Rising(hist[b]) /\ HistTicks \in Nat
          /\ ghost.taken[b] \in Seq(Nat) /\ Rising(ghost.taken[b])
          /\ \A s \in Taken(b) : s \in Nat
      BY OfBuffer
    <3>3. Taken(b)' = Taken(b)
      BY <3>1 DEF Taken
    <3>4. /\ Range(hist[b]) \subseteq Taken(b)
          /\ \A h \in Range(hist[b]), s \in Taken(b) : h <= s => s \in Range(hist[b])
          /\ \A s \in Taken(b) : time - HistTicks <= s => s \in Range(hist[b])
      BY DEF HistoryInv, BuffersHold
    <3>5. \A s \in Taken(b) : t - HistTicks <= s => time - HistTicks <= s
      BY <1>2, <3>2
    <3>. HIDE DEF t
    <3>. QED BY <3>1, <3>2, <3>3, <3>4, <3>5
  <2>. QED BY <2>1, <2>2
<1>4. \A b \in Buffers : \A s \in Taken(b) : s \in Nat /\ 1 <= s /\ s <= time
  BY OfBuffer
<1>5. HistoryTyped'
  <2>1. ghost' \in [taken: [Buffers -> Seq(Nat)], hides: Nat, bad: Nat]
    <3>1. ghost'.taken \in [Buffers -> Seq(Nat)]
      BY <1>13, <1>3
    <3>. HIDE DEF t
    <3>. QED BY <1>11, <1>12, <1>13, <3>1
  <2>2. hist' \in [Buffers -> Seq(Nat)]
    BY <1>1, <1>3 DEF Cut
  <2>3. time' \in Nat
    BY <1>2
  <2>. QED BY <1>2, <2>1, <2>2, <2>3 DEF HistoryInv, HistoryTyped
<1>6. SamplesRise'
  <2>1. ASSUME NEW b \in Buffers, NEW s \in Taken(b)' PROVE 1 <= s /\ s <= time'
    BY <1>2, <1>3, <1>4
  <2>. QED BY <1>3, <2>1 DEF SamplesRise
<1>7. BuffersHold'
  BY <1>2, <1>3 DEF BuffersHold
<1>8. RingsHold'
  <2>1. ASSUME NEW b \in Buffers
        PROVE  {s \in Taken(b)' : view.now - Span(b) <= s /\ s <= Newest(view.ring[b])}
                 = {s \in Taken(b) : view.now - Span(b) <= s /\ s <= Newest(view.ring[b])}
    <3>1. Newest(view.ring[b]) \in Nat /\ Newest(view.ring[b]) <= time
      <4>1. view.ring[b] \in Seq(Nat) /\ Rising(view.ring[b])
        BY OfBuffer
      <4>2. Newest(view.ring[b]) <= view.now /\ view.now <= time /\ view.now \in Nat
        BY DEF HistoryInv, RingsHold, HistoryTyped
      <4>. QED BY <1>2, <4>1, <4>2, NewestIs
    <3>2. ~ (t <= Newest(view.ring[b]))
      BY <1>2, <3>1
    <3>. HIDE DEF t
    <3>. QED BY <1>3, <3>2
  <2>2. view.now <= time'
    BY <1>2 DEF HistoryInv, HistoryTyped, RingsHold
  <2>3. \A b \in Buffers : Span(b)' = Span(b)
    BY DEF Span
  <2>. QED BY <1>2, <2>1, <2>2, <2>3 DEF HistoryInv, RingsHold
<1>9. ASSUME NEW c \in asked PROVE CallHolds(c)'
  <2>1. CallHolds(c) /\ c.now \in Nat /\ c.rows \in [Buffers -> Reply]
    BY DEF HistoryInv, HistoryTyped, CallsHold, Call
  <2>2. ASSUME NEW b \in Buffers, c.now <= time, Brings(c.rows[b], b, c.cursor[b], c.now)
        PROVE  Brings(c.rows[b], b, c.cursor[b], c.now)'
    <3>1. \A s \in Taken(b)' : s <= c.now => s \in Taken(b)
      BY <1>2, <1>3, <2>1, <2>2
    <3>2. Span(b)' = Span(b)
      BY DEF Span
    <3>. HIDE DEF t
    <3>. QED BY <1>3, <2>2, <3>1, <3>2 DEF Brings
  <2>3. \A b \in Buffers : Span(b)' = Span(b)
    BY DEF Span
  <2>4. c.at = "answered" /\ ~ c.stale => c.now <= time'
    BY <1>2, <2>1 DEF CallHolds
  <2>. QED BY <1>2, <2>1, <2>2, <2>3, <2>4 DEF CallHolds
<1>10. CallsHold'
  BY <1>2, <1>9 DEF CallsHold
<1>. QED BY <1>2, <1>5, <1>6, <1>7, <1>8, <1>10
         DEF HistoryInv, OneOfEach, AnsweredInTurn

(* What the calls in flight need to be what they should be.                *)
LEMMA CallsStep ==
  ASSUME HistoryInv, UNCHANGED <<time, hist>>, UNCHANGED ghost.taken,
         view' \in [ring: [Buffers -> Seq(Nat)], waited: Nat, now: Nat],
         UNCHANGED <<view.ring, view.now>>,
         ghost' \in [taken: [Buffers -> Seq(Nat)], hides: Nat, bad: Nat],
         asked' \subseteq Call,
         \A c \in asked' : CallHolds(c),
         OneOfEach', AnsweredInTurn'
  PROVE  HistoryInv'
<1>1. CallsHold'
  BY DEF CallsHold, CallHolds, Brings, Taken, Span
<1>. QED BY <1>1
         DEF HistoryInv, HistoryTyped, SamplesRise, BuffersHold, RingsHold, Taken, Span

LEMMA AnswerHolds ==
  ASSUME HistoryInv, NEW c \in asked, Answer(c)
  PROVE  HistoryInv'
<1>. DEFINE got == [system |-> SysHistSince(hist["system"], c.cursor["system"], time - ChartTicks),
                    groups |-> GroupsHistSince(hist["groups"], c.cursor["groups"])]
            new == [c EXCEPT !.at = "answered", !.now = time, !.rows = got]
<1>1. /\ asked' = (asked \ {c}) \cup {new} /\ c.at = "sent"
      /\ c.latest => \A d \in asked : d.at = "sent" => d = c
      /\ UNCHANGED <<time, hist, view, ghost>>
  BY DEF Answer, Turn
<1>2. c \in Call /\ CallHolds(c) /\ time \in Nat /\ asked \subseteq Call
  BY DEF HistoryInv, HistoryTyped, CallsHold
<1>3. /\ got \in [Buffers -> Reply]
      /\ \A b \in Buffers : Brings(got[b], b, c.cursor[b], time)
  <2>1. c.cursor["system"] \in Nat /\ c.cursor["groups"] \in Nat
    BY <1>2 DEF Call, Buffers
  <2>2. got["system"] \in Reply /\ Brings(got["system"], "system", c.cursor["system"], time)
    BY <2>1, SystemBrings
  <2>3. got["groups"] \in Reply /\ Brings(got["groups"], "groups", c.cursor["groups"], time)
    BY <2>1, GroupsBring
  <2>4. DOMAIN got = Buffers /\ got = [b \in Buffers |-> got[b]]
    BY DEF Buffers
  <2>. HIDE DEF got
  <2>. QED BY <2>2, <2>3, <2>4 DEF Buffers
<1>. HIDE DEF got
<1>4. /\ new \in Call /\ new.at = "answered" /\ new.now = time /\ new.rows = got
      /\ new.cursor = c.cursor /\ new.latest = c.latest /\ new.abandoned = c.abandoned
      /\ new.stale = c.stale
  BY <1>2, <1>3 DEF Call
<1>. HIDE DEF new
<1>5. CallHolds(new)
  <2>1. view.now <= time
    BY DEF HistoryInv, RingsHold
  <2>. QED BY <1>2, <1>3, <1>4, <2>1 DEF CallHolds
<1>6. \A d \in asked' : (d \in asked /\ d # c) \/ d = new
  BY <1>1
<1>7. asked' \subseteq Call /\ \A d \in asked' : CallHolds(d)
  BY <1>1, <1>2, <1>4, <1>5 DEF HistoryInv, CallsHold
<1>8. OneOfEach'
  <2>1. OneOfEach
    BY DEF HistoryInv
  <2>2. ASSUME NEW d \in asked', NEW e \in asked'
        PROVE  /\ d.abandoned = ~ d.latest
               /\ d.latest = e.latest => d = e
               /\ (d.latest /\ d.at = "answered") => e.at # "sent"
               /\ d.at = "lost" => d.stale
    <3>1. CASE d \in asked /\ e \in asked
      BY <2>1, <3>1 DEF OneOfEach
    <3>2. CASE d = new /\ e = new
      BY <1>4, <2>1, <3>2 DEF OneOfEach
    <3>3. CASE d = new /\ e \in asked /\ e # c
      BY <1>1, <1>4, <2>1, <3>3 DEF OneOfEach
    <3>4. CASE d \in asked /\ d # c /\ e = new
      BY <1>1, <1>4, <2>1, <3>4 DEF OneOfEach
    <3>. QED BY <1>6, <3>1, <3>2, <3>3, <3>4
  <2>. QED BY <2>2 DEF OneOfEach
<1>9. AnsweredInTurn'
  <2>1. ASSUME NEW d \in asked', NEW e \in asked', ~ d.stale, ~ e.stale, ~ d.latest, e.latest,
               d.at = "answered", e.at = "answered"
        PROVE  d.now <= e.now
    <3>1. CASE d \in asked /\ e \in asked
      BY <2>1, <3>1 DEF HistoryInv, AnsweredInTurn
    <3>2. CASE d \in asked /\ e = new
      BY <1>4, <2>1, <3>2 DEF HistoryInv, CallsHold, CallHolds
    <3>3. CASE d = new /\ e \in asked
      BY <1>1, <2>1, <3>3 DEF HistoryInv, OneOfEach
    <3>4. CASE d = new /\ e = new
      BY <2>1, <3>4
    <3>. QED BY <1>6, <3>1, <3>2, <3>3, <3>4
  <2>. QED BY <2>1 DEF AnsweredInTurn
<1>. QED BY <1>1, <1>7, <1>8, <1>9, CallsStep DEF HistoryInv, HistoryTyped

(* A call becomes stale, or is settled and forgotten.                      *)
LEMMA StaleHolds ==
  ASSUME NEW c, c.stale
  PROVE  CallHolds(c)
BY DEF CallHolds

LEMMA LostHolds ==
  ASSUME HistoryInv, NEW c \in asked, Lost(c)
  PROVE  HistoryInv'
<1>. DEFINE new == [Stale(c) EXCEPT !.at = "lost"]
<1>1. /\ asked' = (asked \ {c}) \cup {new} /\ c.at = "answered"
      /\ UNCHANGED <<time, hist, view>>
      /\ ghost' = [ghost EXCEPT !.bad = @ + 1]
  BY DEF Lost, Bad
<1>2. c \in Call /\ asked \subseteq Call
  BY DEF HistoryInv, HistoryTyped
<1>3. /\ new \in Call /\ new.at = "lost" /\ new.stale
      /\ new.latest = c.latest /\ new.abandoned = c.abandoned
  BY <1>2, StaleTyped DEF Call
<1>. HIDE DEF new
<1>4. \A d \in asked' : (d \in asked /\ d # c) \/ d = new
  BY <1>1
<1>5. asked' \subseteq Call /\ \A d \in asked' : CallHolds(d)
  BY <1>1, <1>2, <1>3, StaleHolds DEF HistoryInv, CallsHold
<1>6. OneOfEach'
  <2>1. OneOfEach
    BY DEF HistoryInv
  <2>2. ASSUME NEW d \in asked', NEW e \in asked'
        PROVE  /\ d.abandoned = ~ d.latest
               /\ d.latest = e.latest => d = e
               /\ (d.latest /\ d.at = "answered") => e.at # "sent"
               /\ d.at = "lost" => d.stale
    BY <1>3, <1>4, <2>1 DEF OneOfEach
  <2>. QED BY <2>2 DEF OneOfEach
<1>7. AnsweredInTurn'
  BY <1>3, <1>4 DEF HistoryInv, AnsweredInTurn
<1>8. ghost' \in [taken: [Buffers -> Seq(Nat)], hides: Nat, bad: Nat] /\ ghost'.taken = ghost.taken
  <2>1. ghost \in [taken: [Buffers -> Seq(Nat)], hides: Nat, bad: Nat]
    BY DEF HistoryInv, HistoryTyped
  <2>. QED BY <1>1, <2>1
<1>. QED BY <1>1, <1>5, <1>6, <1>7, <1>8, CallsStep DEF HistoryInv, HistoryTyped

LEMMA RejectHolds ==
  ASSUME HistoryInv, NEW c \in asked, Reject(c)
  PROVE  HistoryInv'
<1>1. /\ asked' = asked \ {c}
      /\ UNCHANGED <<time, hist, view>>
      /\ ghost' = [ghost EXCEPT !.bad = @ + 1]
  BY DEF Reject, Bad
<1>2. asked' \subseteq Call /\ \A d \in asked' : CallHolds(d)
  BY <1>1 DEF HistoryInv, HistoryTyped, CallsHold
<1>3. OneOfEach' /\ AnsweredInTurn'
  BY <1>1 DEF HistoryInv, OneOfEach, AnsweredInTurn
<1>4. ghost' \in [taken: [Buffers -> Seq(Nat)], hides: Nat, bad: Nat] /\ ghost'.taken = ghost.taken
  <2>1. ghost \in [taken: [Buffers -> Seq(Nat)], hides: Nat, bad: Nat]
    BY DEF HistoryInv, HistoryTyped
  <2>. QED BY <1>1, <2>1
<1>. QED BY <1>1, <1>2, <1>3, <1>4, CallsStep DEF HistoryInv, HistoryTyped

(* A call is sent with what the rings end in for its cursors.              *)
LEMMA SendHolds ==
  ASSUME HistoryInv, NEW calls \in SUBSET Call,
         \A c \in calls : /\ CallHolds(c) /\ ~ c.latest /\ c.abandoned
                          /\ c.at = "lost" => c.stale,
         \A c, d \in calls : c = d
  PROVE  LET sent == Send(calls)
         IN /\ sent \subseteq Call
            /\ \A c \in sent : CallHolds(c)
            /\ \A c, d \in sent :
                 /\ c.abandoned = ~ c.latest
                 /\ c.latest = d.latest => c = d
                 /\ (c.latest /\ c.at = "answered") => d.at # "sent"
                 /\ c.at = "lost" => c.stale
                 /\ c.latest => c.at = "sent"
<1>. DEFINE new == [at |-> "sent", latest |-> TRUE, abandoned |-> FALSE, stale |-> FALSE,
                    cursor |-> [b \in Buffers |-> Newest(view.ring[b])], now |-> 0,
                    rows |-> Unanswered]
<1>1. \A b \in Buffers : Newest(view.ring[b]) \in Nat
  BY OfBuffer, NewestIs
<1>2. Send(calls) = calls \cup {new}
  BY DEF Send
<1>3. new \in Call
  BY <1>1, UnansweredTyped DEF Call
<1>4. CallHolds(new)
  <2>1. \A b \in Buffers : new.cursor[b] <= Newest(view.ring[b])
    BY <1>1
  <2>. QED BY <2>1 DEF CallHolds
<1>5. new.latest /\ new.abandoned = FALSE /\ new.at = "sent"
  OBVIOUS
<1>. HIDE DEF new
<1>6. \A c \in Send(calls) : c \in calls \/ c = new
  BY <1>2
<1>7. ASSUME NEW c \in Send(calls), NEW d \in Send(calls)
      PROVE  /\ c.abandoned = ~ c.latest
             /\ c.latest = d.latest => c = d
             /\ (c.latest /\ c.at = "answered") => d.at # "sent"
             /\ c.at = "lost" => c.stale
             /\ c.latest => c.at = "sent"
  <2>1. CASE c \in calls
    <3>1. c.abandoned = TRUE /\ c.latest = FALSE
      BY <2>1 DEF Call
    <3>. QED BY <1>5, <1>6, <2>1, <3>1
  <2>2. CASE c = new
    <3>1. c.abandoned = FALSE /\ c.latest = TRUE
      BY <1>3, <1>5, <2>2 DEF Call
    <3>. QED BY <1>5, <1>6, <2>2, <3>1
  <2>. QED BY <1>6, <2>1, <2>2
<1>. QED BY <1>2, <1>3, <1>4, <1>7

LEMMA TickHolds ==
  ASSUME HistoryInv, PageTick
  PROVE  HistoryInv'
<1>1. UNCHANGED <<time, hidden, hist, ghost>>
  BY DEF PageTick, Tick
<1>2. /\ view \in [ring: [Buffers -> Seq(Nat)], waited: Nat, now: Nat]
      /\ ghost \in [taken: [Buffers -> Seq(Nat)], hides: Nat, bad: Nat]
      /\ asked \subseteq Call
  BY DEF HistoryInv, HistoryTyped
<1>3. /\ view' \in [ring: [Buffers -> Seq(Nat)], waited: Nat, now: Nat]
      /\ UNCHANGED <<view.ring, view.now>>
  <2>1. \E w \in Nat : view' = [view EXCEPT !.waited = w]
    <3>1. view.waited + 1 \in Nat /\ 0 \in Nat
      BY <1>2
    <3>. QED BY <3>1 DEF PageTick, Tick
  <2>. QED BY <1>2, <2>1
<1>4. \A c, d \in asked :
        /\ c.abandoned = ~ c.latest
        /\ c.latest = d.latest => c = d
        /\ c.at = "lost" => c.stale
  BY DEF HistoryInv, OneOfEach
<1>5. \A c \in asked : CallHolds(c) /\ c \in Call
  BY <1>2 DEF HistoryInv, CallsHold
<1>6. CASE asked' = asked
  BY <1>1, <1>2, <1>3, <1>5, <1>6, CallsStep DEF HistoryInv, OneOfEach, AnsweredInTurn
<1>7. ASSUME NEW calls \in SUBSET Call, asked' = Send(calls),
             \A c \in calls : /\ CallHolds(c) /\ ~ c.latest /\ c.abandoned
                              /\ c.at = "lost" => c.stale,
             \A c, d \in calls : c = d
      PROVE  HistoryInv'
  <2>1. /\ asked' \subseteq Call
        /\ \A c \in asked' : CallHolds(c)
        /\ \A c, d \in asked' :
             /\ c.abandoned = ~ c.latest
             /\ c.latest = d.latest => c = d
             /\ (c.latest /\ c.at = "answered") => d.at # "sent"
             /\ c.at = "lost" => c.stale
             /\ c.latest => c.at = "sent"
    BY <1>7, SendHolds
  <2>2. OneOfEach' /\ AnsweredInTurn'
    BY <2>1 DEF OneOfEach, AnsweredInTurn
  <2>. QED BY <1>1, <1>2, <1>3, <2>1, <2>2, CallsStep
<1>8. CASE ~ InFlight /\ asked' = Send(asked)
  <2>1. \A c \in asked : ~ c.latest /\ c.abandoned
    BY <1>4, <1>8 DEF InFlight
  <2>2. \A c, d \in asked : c = d
    <3>1. \A c \in asked : c.latest = FALSE
      BY <1>5, <2>1 DEF Call
    <3>. QED BY <1>4, <3>1
  <2>. QED BY <1>2, <1>4, <1>5, <1>7, <1>8, <2>1, <2>2
<1>9. CASE /\ ~ GivenUp
           /\ asked' = Send({[c EXCEPT !.abandoned = c.latest, !.latest = FALSE] : c \in asked})
  <2>. DEFINE Left(c) == [c EXCEPT !.abandoned = c.latest, !.latest = FALSE]
              calls == {Left(c) : c \in asked}
  <2>1. ASSUME NEW c \in asked
        PROVE  /\ c.latest
               /\ Left(c) \in Call
               /\ CallHolds(Left(c)) /\ ~ Left(c).latest /\ Left(c).abandoned
               /\ Left(c).at = "lost" => Left(c).stale
    <3>1. c.latest
      BY <1>4, <1>9 DEF GivenUp
    <3>2. /\ Left(c) \in Call /\ Left(c).latest = FALSE /\ Left(c).abandoned = c.latest
          /\ Left(c).at = c.at /\ Left(c).stale = c.stale /\ Left(c).cursor = c.cursor
          /\ Left(c).now = c.now /\ Left(c).rows = c.rows
      BY <1>5 DEF Call
    <3>. HIDE DEF Left
    <3>3. CallHolds(Left(c))
      BY <1>5, <3>2 DEF CallHolds
    <3>. QED BY <1>4, <3>1, <3>2, <3>3
  <2>2. \A c, d \in asked : c = d
    <3>1. \A c \in asked : c.latest = TRUE
      BY <1>5, <2>1 DEF Call
    <3>. QED BY <1>4, <3>1
  <2>3. calls \in SUBSET Call
    <3>. HIDE DEF Left
    <3>. QED BY <2>1
  <2>4. /\ \A c \in calls : /\ CallHolds(c) /\ ~ c.latest /\ c.abandoned
                            /\ c.at = "lost" => c.stale
        /\ \A c, d \in calls : c = d
    <3>. HIDE DEF Left
    <3>. QED BY <2>1, <2>2
  <2>5. asked' = Send(calls)
    BY <1>9
  <2>. HIDE DEF calls
  <2>. QED BY <1>7, <2>3, <2>4, <2>5
<1>. QED BY <1>6, <1>8, <1>9 DEF PageTick, Tick

(* An answer that comes too late to be applied only settles its call.      *)
LEMMA DeliverLateHolds ==
  ASSUME HistoryInv, NEW c \in asked, c.stale, Deliver(c)
  PROVE  HistoryInv'
<1>1. asked' = asked \ {c} /\ UNCHANGED <<time, hist, view, ghost>>
  BY DEF Deliver, StillAsked
<1>2. asked' \subseteq Call /\ \A d \in asked' : CallHolds(d)
  BY <1>1 DEF HistoryInv, HistoryTyped, CallsHold
<1>3. OneOfEach' /\ AnsweredInTurn'
  BY <1>1 DEF HistoryInv, OneOfEach, AnsweredInTurn
<1>. QED BY <1>1, <1>2, <1>3, CallsStep DEF HistoryInv, HistoryTyped

LEMMA DeliverHolds ==
  ASSUME HistoryInv, NEW c \in asked, ~ c.stale, Deliver(c)
  PROVE  HistoryInv'
<1>1. /\ c.at = "answered"
      /\ asked' = IF c.latest THEN {Stale(d) : d \in asked \ {c}} ELSE asked \ {c}
      /\ view' = [view EXCEPT !.ring = Absorb(@, c), !.now = IF c.now > @ THEN c.now ELSE @]
      /\ UNCHANGED <<time, hist, ghost>>
  BY DEF Deliver, StillAsked
<1>2. /\ view \in [ring: [Buffers -> Seq(Nat)], waited: Nat, now: Nat]
      /\ c \in Call /\ asked \subseteq Call
      /\ view.now <= c.now /\ c.now <= time /\ c.now \in Nat /\ time \in Nat
  BY <1>1 DEF HistoryInv, HistoryTyped, CallsHold, CallHolds, Call
<1>3. /\ view'.now = c.now /\ view'.ring = Absorb(view.ring, c) /\ view'.waited = view.waited
      /\ view' = [view EXCEPT !.ring = view'.ring, !.now = c.now]
  <2>. DEFINE ring == Absorb(view.ring, c)
  <2>1. (IF c.now > view.now THEN c.now ELSE view.now) = c.now
    BY <1>2
  <2>2. view' = [view EXCEPT !.ring = ring, !.now = c.now]
    BY <1>1, <2>1
  <2>. HIDE DEF ring
  <2>3. view'.now = c.now /\ view'.ring = ring /\ view'.waited = view.waited
    BY <1>2, <2>2
  <2>. QED BY <2>2, <2>3 DEF ring
<1>4. ASSUME NEW b \in Buffers
      PROVE  view'.ring[b] = From(MergeRing(view.ring[b], c.rows[b]), c.now - Span(b))
  BY <1>3 DEF Absorb, Buffers, Span
<1>5. ASSUME NEW b \in Buffers
      PROVE  /\ view'.ring[b] \in Seq(Nat) /\ Rising(view'.ring[b])
             /\ Newest(view'.ring[b]) <= c.now
             /\ Range(view'.ring[b]) = {s \in Taken(b) : /\ c.now - Span(b) <= s
                                                        /\ s <= Newest(view'.ring[b])}
             /\ \A k \in Nat : (k <= Newest(view.ring[b]) \/ k < view.now - Span(b))
                                => (k <= Newest(view'.ring[b]) \/ k < c.now - Span(b))
  BY <1>1, <1>4, AbsorbedRing
<1>6. view' \in [ring: [Buffers -> Seq(Nat)], waited: Nat, now: Nat]
  <2>1. DOMAIN view'.ring = Buffers /\ view'.ring = [b \in Buffers |-> view'.ring[b]]
    BY <1>3 DEF Absorb, Buffers
  <2>2. view'.ring \in [Buffers -> Seq(Nat)]
    BY <1>5, <2>1
  <2>. QED BY <1>2, <1>3, <2>2
<1>7. RingsHold'
  <2>1. \A b \in Buffers : Taken(b)' = Taken(b) /\ Span(b)' = Span(b)
    BY <1>1 DEF Taken, Span
  <2>2. view'.now <= time'
    BY <1>1, <1>2, <1>3
  <2>. QED BY <1>3, <1>5, <2>1, <2>2 DEF RingsHold
<1>8. ASSUME NEW d \in asked, d # c, ~ c.latest PROVE CallHolds(d)'
  <2>1. CallHolds(d) /\ d \in Call
    BY <1>2 DEF HistoryInv, CallsHold
  <2>2. \A b \in Buffers : d.cursor[b] \in Nat
    BY <2>1 DEF Call
  <2>3. ~ d.stale /\ d.at = "answered" => c.now <= d.now /\ d.now <= time
    <3>1. ASSUME ~ d.stale, d.at = "answered" PROVE c.now <= d.now
      <4>1. d.latest
        <5>1. c.latest = FALSE /\ d.latest \in BOOLEAN
          BY <1>2, <1>8, <2>1 DEF Call
        <5>2. c.latest # d.latest
          BY <1>8 DEF HistoryInv, OneOfEach
        <5>. QED BY <5>1, <5>2
      <4>. QED BY <1>1, <1>8, <3>1, <4>1 DEF HistoryInv, AnsweredInTurn
    <3>2. ASSUME ~ d.stale, d.at = "answered" PROVE d.now <= time
      BY <2>1, <3>2 DEF CallHolds
    <3>. QED BY <3>1, <3>2
  <2>4. ~ d.stale => \A b \in Buffers : \/ d.cursor[b] <= Newest(view'.ring[b])
                                        \/ d.cursor[b] < c.now - Span(b)
    BY <1>5, <2>1, <2>2 DEF CallHolds
  <2>5. ASSUME NEW b \in Buffers
        PROVE  Brings(d.rows[b], b, d.cursor[b], d.now)' = Brings(d.rows[b], b, d.cursor[b], d.now)
    BY <1>1 DEF Brings, Taken, Span
  <2>6. \A b \in Buffers : Span(b)' = Span(b)
    BY DEF Span
  <2>. QED BY <1>1, <1>3, <2>1, <2>3, <2>4, <2>5, <2>6 DEF CallHolds
<1>9. asked' \subseteq Call /\ CallsHold' /\ OneOfEach' /\ AnsweredInTurn'
  <2>1. CASE ~ c.latest
    <3>1. asked' = asked \ {c}
      BY <1>1, <2>1
    <3>2. asked' \subseteq Call /\ CallsHold'
      BY <1>2, <1>8, <2>1, <3>1 DEF CallsHold
    <3>. QED BY <3>1, <3>2 DEF HistoryInv, OneOfEach, AnsweredInTurn
  <2>2. CASE c.latest
    <3>1. asked' = {Stale(d) : d \in asked \ {c}}
      BY <1>1, <2>2
    <3>2. ASSUME NEW d \in asked, d # c
          PROVE  /\ Stale(d) \in Call /\ Stale(d).stale
                 /\ Stale(d).latest = d.latest /\ Stale(d).abandoned = d.abandoned
                 /\ ~ d.latest /\ d.latest = FALSE /\ d.abandoned = TRUE
      <4>1. d \in Call
        BY <1>2
      <4>2. c.latest = TRUE /\ d.latest \in BOOLEAN
        BY <1>2, <2>2, <4>1 DEF Call
      <4>3. c.latest # d.latest /\ d.abandoned = ~ d.latest
        BY <3>2 DEF HistoryInv, OneOfEach
      <4>. QED BY <4>1, <4>2, <4>3, StaleTyped
    <3>3. \A d, e \in asked \ {c} : d = e
      <4>1. ASSUME NEW d \in asked \ {c}, NEW e \in asked \ {c} PROVE d = e
        <5>1. d.latest = e.latest
          BY <3>2
        <5>. QED BY <5>1 DEF HistoryInv, OneOfEach
      <4>. QED BY <4>1
    <3>4. \A d \in asked' : /\ d \in Call /\ d.stale /\ d.latest = FALSE /\ d.abandoned = TRUE
      BY <3>1, <3>2
    <3>5. \A d, e \in asked' : d = e
      BY <3>1, <3>3
    <3>6. CallsHold'
      BY <3>4 DEF CallsHold, CallHolds
    <3>7. OneOfEach'
      BY <3>4, <3>5 DEF OneOfEach
    <3>8. AnsweredInTurn'
      BY <3>4 DEF AnsweredInTurn
    <3>. QED BY <3>4, <3>6, <3>7, <3>8
  <2>. QED BY <2>1, <2>2
<1>. QED BY <1>1, <1>6, <1>7, <1>9
         DEF HistoryInv, HistoryTyped, SamplesRise, BuffersHold, Taken

LEMMA HistoryInvStep == HistoryInv /\ [HistoryNext]_historyVars => HistoryInv'
<1>. SUFFICES ASSUME HistoryInv, [HistoryNext]_historyVars PROVE HistoryInv'
  OBVIOUS
<1>1. ASSUME UNCHANGED <<time, hist, view, asked>>,
             ghost' \in [taken: [Buffers -> Seq(Nat)], hides: Nat, bad: Nat],
             UNCHANGED ghost.taken
      PROVE  HistoryInv'
  <2>1. asked' \subseteq Call /\ \A c \in asked' : CallHolds(c)
    BY <1>1 DEF HistoryInv, HistoryTyped, CallsHold
  <2>2. OneOfEach' /\ AnsweredInTurn'
    BY <1>1 DEF HistoryInv, OneOfEach, AnsweredInTurn
  <2>. QED BY <1>1, <2>1, <2>2, CallsStep DEF HistoryInv, HistoryTyped
<1>2. ghost \in [taken: [Buffers -> Seq(Nat)], hides: Nat, bad: Nat]
  BY DEF HistoryInv, HistoryTyped
<1>3. CASE Hide
  <2>1. UNCHANGED <<time, hist, view, asked>> /\ ghost' = [ghost EXCEPT !.hides = @ + 1]
    BY <1>3 DEF Hide
  <2>. QED BY <1>1, <1>2, <2>1
<1>4. CASE Show \/ UNCHANGED historyVars
  BY <1>1, <1>2, <1>4 DEF Show, historyVars
<1>5. CASE \E c \in asked : Answer(c) \/ Lost(c) \/ Deliver(c) \/ Reject(c)
  BY <1>5, AnswerHolds, LostHolds, DeliverHolds, DeliverLateHolds, RejectHolds
<1>. QED BY <1>3, <1>4, <1>5, SampleHolds, TickHolds DEF HistoryNext

LEMMA RingsAreWindows == HistoryInv => PageRingIsWindow
<1>. SUFFICES ASSUME HistoryInv, NEW b \in Buffers
              PROVE  LET ring == From(view.ring[b], WindowOf(b))
                     IN /\ Rising(ring)
                        /\ Range(ring) = {s \in Taken(b) : WindowOf(b) <= s /\ s <= Newest(ring)}
  BY DEF PageRingIsWindow, Taken
<1>. DEFINE full == view.ring[b]
            from == WindowOf(b)
            ring == From(full, from)
<1>1. /\ full \in Seq(Nat) /\ Rising(full) /\ view.now \in Nat /\ Span(b) \in Nat
      /\ \A s \in Taken(b) : s \in Nat /\ 1 <= s
  BY OfBuffer
<1>2. Range(full) = {s \in Taken(b) : view.now - Span(b) <= s /\ s <= Newest(full)}
  BY DEF HistoryInv, RingsHold
<1>3. from \in Int /\ view.now - Span(b) <= from
  <2>1. CASE b = "system"
    BY <1>1, <2>1 DEF WindowOf, Span
  <2>2. CASE b # "system"
    <3>1. "system" \in Buffers
      BY DEF Buffers
    <3>2. Newest(hist["system"]) \in Nat
      BY <3>1, OfBuffer, NewestIs
    <3>. QED BY <1>1, <2>2, <3>2 DEF WindowOf, Later, Span
  <2>. QED BY <2>1, <2>2
<1>. HIDE DEF full, from
<1>4. /\ ring \in Seq(Nat) /\ Rising(ring)
      /\ Range(ring) = {e \in Range(full) : from <= e}
  BY <1>1, <1>3, FromCuts
<1>5. /\ Newest(full) \in Nat /\ \A e \in Range(full) : e <= Newest(full)
      /\ Range(full) # {} => Newest(full) \in Range(full)
  BY <1>1, NewestIs
<1>. HIDE DEF ring
<1>6. /\ Newest(ring) \in Nat /\ \A e \in Range(ring) : e \in Nat /\ e <= Newest(ring)
      /\ Range(ring) = {} => Newest(ring) = 0
      /\ Range(ring) # {} => Newest(ring) \in Range(ring)
  BY <1>4, NewestIs
<1>7. Range(ring) \subseteq {s \in Taken(b) : from <= s /\ s <= Newest(ring)}
  BY <1>2, <1>4, <1>6
<1>8. ASSUME NEW s \in Taken(b), from <= s, s <= Newest(ring) PROVE s \in Range(ring)
  <2>1. Range(ring) # {}
    BY <1>1, <1>6, <1>8
  <2>2. Newest(ring) \in Range(full)
    BY <1>4, <1>6, <2>1
  <2>3. view.now - Span(b) <= s /\ s <= Newest(full)
    BY <1>1, <1>3, <1>5, <1>6, <1>8, <2>2
  <2>. QED BY <1>2, <1>4, <1>8, <2>3
<1>. QED BY <1>4, <1>7, <1>8 DEF ring, full, from

(* The page's copies of the histories hold every sample taken since their  *)
(* window's start, up to their newest one, once each and in order, whatever*)
(* answers were late, lost, failed, given up on or overtaken, and however  *)
(* long the window was hidden.                                             *)
THEOREM PageKeepsTheWindow == HistorySpec => []PageRingIsWindow
BY HistoryInvInit, HistoryInvStep, RingsAreWindows, PTL DEF HistorySpec

-----------------------------------------------------------------------------
(***************************************************************************)
(* The books of the forecast (Books.tla), for any viewers, turns and       *)
(* instants.  A week has one row, so that what names its row by its week   *)
(* meets that one; a view that has planned its week or found it planned    *)
(* has it on the books for good, and so has every week it is through with  *)
(* its actual, whoever was faster.                                         *)
(***************************************************************************)
ScoreRows == \A s \in scores : s = [week |-> s.week, plan |-> s.plan, actual |-> s.actual]
RowPerWeek == \A r, s \in scores : r.week = s.week => r = s

CallsAre(views) ==
  /\ views = [v \in Viewers |-> views[v]]
  /\ \A v \in Viewers :
       views[v] = [pc |-> views[v].pc, now |-> views[v].now, tokens |-> views[v].tokens,
                   due |-> views[v].due, listed |-> views[v].listed]

Known(w) == \E s \in scores : s.week = w
Scored(w) == \E s \in scores : s.week = w /\ s.actual # <<>>

ViewHolds(call) ==
  /\ call.pc \in {"list", "score", "record", "done"} => Known(WeekOf(LocalDay(call.now)))
  /\ call.pc \in {"score", "record", "done"} =>
       /\ \A w \in call.listed : Known(w)
       /\ \A w \in call.listed \ call.due : Scored(w)
  /\ call.pc = "done" => call.due = {}

BooksInv == ScoreRows /\ RowPerWeek /\ CallsAre(viewing) /\ \A v \in Viewers : ViewHolds(viewing[v])

LEMMA BooksInvInit == BooksInit => BooksInv
<1>. SUFFICES ASSUME BooksInit PROVE BooksInv
  OBVIOUS
<1>1. ScoreRows /\ RowPerWeek
  BY DEF BooksInit, ScoreRows, RowPerWeek
<1>2. CallsAre(viewing)
  BY DEF BooksInit, CallsAre, NoViewing
<1>3. \A v \in Viewers : ViewHolds(viewing[v])
  BY DEF BooksInit, ViewHolds, NoViewing
<1>. QED BY <1>1, <1>2, <1>3 DEF BooksInv

(* InsertForecastPlan adds the row of a week that has none.                *)
LEMMA PlanKept ==
  ASSUME NEW w, NEW plan, ScoreRows, RowPerWeek, scores' = InsertForecastPlan(scores, w, plan)
  PROVE  ScoreRows' /\ RowPerWeek' /\ Recorded /\ Known(w)'
<1>1. CASE ForecastScore(scores, w) # {}
  <2>1. scores' = scores /\ Known(w)
    BY <1>1 DEF InsertForecastPlan, ForecastScore, Known
  <2>. QED BY <2>1 DEF ScoreRows, RowPerWeek, Recorded, Known
<1>2. CASE ForecastScore(scores, w) = {}
  <2>. DEFINE new == [week |-> w, plan |-> plan, actual |-> <<>>]
  <2>1. scores' = scores \cup {new}
    BY <1>2 DEF InsertForecastPlan
  <2>2. \A s \in scores : s.week # w
    BY <1>2 DEF ForecastScore
  <2>3. new = [week |-> new.week, plan |-> new.plan, actual |-> new.actual] /\ new.week = w
    OBVIOUS
  <2>. HIDE DEF new
  <2>. QED BY <2>1, <2>2, <2>3 DEF ScoreRows, RowPerWeek, Recorded, Known
<1>. QED BY <1>1, <1>2

(* RecordForecastActual fills in the actual of a row that has none.        *)
LEMMA ActualKept ==
  ASSUME NEW w, NEW n, ScoreRows, RowPerWeek, scores' = RecordForecastActual(scores, w, n)
  PROVE  ScoreRows' /\ RowPerWeek' /\ Recorded /\ (Known(w) => Scored(w)')
<1>. DEFINE after(s) == IF s.week = w /\ s.actual = <<>> THEN [s EXCEPT !.actual = <<n>>] ELSE s
<1>1. scores' = {after(s) : s \in scores}
  BY DEF RecordForecastActual
<1>2. ASSUME NEW s \in scores
      PROVE  /\ after(s) = [week |-> s.week, plan |-> s.plan, actual |-> after(s).actual]
             /\ after(s).week = s.week /\ after(s).plan = s.plan
             /\ s.actual # <<>> => after(s).actual = s.actual
             /\ s.week = w => after(s).actual # <<>>
  <2>1. s = [week |-> s.week, plan |-> s.plan, actual |-> s.actual]
    BY DEF ScoreRows
  <2>2. CASE s.week = w /\ s.actual = <<>>
    <3>1. after(s) = [week |-> s.week, plan |-> s.plan, actual |-> <<n>>]
      BY <2>1, <2>2
    <3>2. <<n>> # <<>>
      OBVIOUS
    <3>. HIDE DEF after
    <3>. QED BY <2>2, <3>1, <3>2
  <2>3. CASE ~ (s.week = w /\ s.actual = <<>>)
    BY <2>1, <2>3
  <2>. QED BY <2>2, <2>3
<1>. HIDE DEF after
<1>3. ScoreRows'
  BY <1>1, <1>2 DEF ScoreRows
<1>4. RowPerWeek'
  BY <1>1, <1>2 DEF RowPerWeek
<1>5. Recorded /\ (Known(w) => Scored(w)')
  BY <1>1, <1>2 DEF Recorded, Known, Scored
<1>. QED BY <1>3, <1>4, <1>5

(* What is on the books stays on them.                                     *)
LEMMA BooksStay ==
  ASSUME Recorded
  PROVE  /\ \A w : Known(w) => Known(w)'
         /\ \A w : Scored(w) => Scored(w)'
         /\ \A call : ViewHolds(call) => ViewHolds(call)'
<1>1. ASSUME NEW w PROVE (Known(w) => Known(w)') /\ (Scored(w) => Scored(w)')
  BY DEF Recorded, Known, Scored
<1>2. ASSUME NEW call PROVE ViewHolds(call) => ViewHolds(call)'
  BY <1>1 DEF ViewHolds
<1>. QED BY <1>1, <1>2

(* A step of one view leaves the others what they had.                     *)
LEMMA OneView ==
  ASSUME BooksInv, NEW v \in Viewers, NEW call, WithViewing(v, call), ScoreRows', RowPerWeek',
         Recorded, ViewHolds(call)',
         call = [pc |-> call.pc, now |-> call.now, tokens |-> call.tokens, due |-> call.due,
                 listed |-> call.listed]
  PROVE  BooksInv' /\ Recorded
<1>1. viewing = [u \in Viewers |-> viewing[u]]
  BY DEF BooksInv, CallsAre
<1>2. viewing'[v] = call /\ (\A u \in Viewers : u # v => viewing'[u] = viewing[u])
      /\ viewing' = [u \in Viewers |-> viewing'[u]]
  BY <1>1 DEF WithViewing
<1>3. CallsAre(viewing')
  BY <1>2 DEF BooksInv, CallsAre
<1>4. ASSUME NEW u \in Viewers PROVE ViewHolds(viewing[u])' 
  <2>1. CASE u = v
    BY <1>2, <2>1
  <2>2. CASE u # v
    BY <1>2, <2>2, BooksStay DEF BooksInv
  <2>. QED BY <2>1, <2>2
<1>. QED BY <1>3, <1>4 DEF BooksInv

(* What the steps make of a view's EnsureScored.                           *)
LEMMA CallAfter ==
  ASSUME NEW c, NEW pc, NEW n, NEW due, NEW listed,
         c = [pc |-> c.pc, now |-> c.now, tokens |-> c.tokens, due |-> c.due, listed |-> c.listed]
  PROVE  /\ [c EXCEPT !.pc = pc] = [pc |-> pc, now |-> c.now, tokens |-> c.tokens,
                                    due |-> c.due, listed |-> c.listed]
         /\ [c EXCEPT !.pc = pc, !.tokens = n] = [pc |-> pc, now |-> c.now, tokens |-> n,
                                                  due |-> c.due, listed |-> c.listed]
         /\ [c EXCEPT !.pc = pc, !.due = due] = [pc |-> pc, now |-> c.now, tokens |-> c.tokens,
                                                 due |-> due, listed |-> c.listed]
         /\ [c EXCEPT !.pc = pc, !.due = due, !.listed = listed]
              = [pc |-> pc, now |-> c.now, tokens |-> c.tokens, due |-> due, listed |-> listed]
<1>. DEFINE Rec(p, m, d, l) == [pc |-> p, now |-> c.now, tokens |-> m, due |-> d, listed |-> l]
<1>1. [c EXCEPT !.pc = pc] = Rec(pc, c.tokens, c.due, c.listed)
  OBVIOUS
<1>2. [Rec(pc, c.tokens, c.due, c.listed) EXCEPT !.tokens = n] = Rec(pc, n, c.due, c.listed)
  OBVIOUS
<1>3. [Rec(pc, c.tokens, c.due, c.listed) EXCEPT !.due = due] = Rec(pc, c.tokens, due, c.listed)
  OBVIOUS
<1>4. [Rec(pc, c.tokens, due, c.listed) EXCEPT !.listed = listed] = Rec(pc, c.tokens, due, listed)
  OBVIOUS
<1>5. [c EXCEPT !.pc = pc, !.tokens = n] = Rec(pc, n, c.due, c.listed)
  <2>. HIDE DEF Rec
  <2>. QED BY <1>1, <1>2
<1>6. [c EXCEPT !.pc = pc, !.due = due] = Rec(pc, c.tokens, due, c.listed)
  <2>. HIDE DEF Rec
  <2>. QED BY <1>1, <1>3
<1>7. [c EXCEPT !.pc = pc, !.due = due, !.listed = listed] = Rec(pc, c.tokens, due, listed)
  <2>. HIDE DEF Rec
  <2>. QED BY <1>1, <1>3, <1>4
<1>. QED BY <1>1, <1>5, <1>6, <1>7

LEMMA BooksStep ==
  ASSUME BooksInv, [BooksNext]_booksVars
  PROVE  BooksInv' /\ Recorded
<1>1. ASSUME NEW v \in Viewers
      PROVE  /\ viewing[v] = [pc |-> viewing[v].pc, now |-> viewing[v].now,
                               tokens |-> viewing[v].tokens, due |-> viewing[v].due,
                               listed |-> viewing[v].listed]
             /\ ViewHolds(viewing[v]) /\ ScoreRows /\ RowPerWeek
  BY DEF BooksInv, CallsAre
<1>2. ASSUME UNCHANGED scores PROVE ScoreRows' /\ RowPerWeek' /\ Recorded
  BY <1>2 DEF BooksInv, ScoreRows, RowPerWeek, Recorded
<1>3. ASSUME NEW v \in Viewers, ViewForecast(v) PROVE BooksInv' /\ Recorded
  <2>1. PICK now, known, call :
          /\ known = (ForecastScore(scores, WeekOf(LocalDay(now))) # {})
          /\ call = [NoViewing EXCEPT !.pc = IF known THEN "list" ELSE "plan", !.now = now]
          /\ WithViewing(v, call) /\ UNCHANGED scores
    BY <1>3 DEF ViewForecast
  <2>2. call = [pc |-> IF known THEN "list" ELSE "plan", now |-> now, tokens |-> 0,
                due |-> {}, listed |-> {}]
    BY <2>1 DEF NoViewing
  <2>3. known => Known(WeekOf(LocalDay(now)))
    BY <2>1 DEF Known, ForecastScore
  <2>4. ViewHolds(call)
    BY <2>2, <2>3 DEF ViewHolds
  <2>. QED BY <1>2, <2>1, <2>2, <2>4, BooksStay, OneView
<1>4. ASSUME NEW v \in Viewers, ReadPlan(v) PROVE BooksInv' /\ Recorded
  <2>1. PICK n, call :
          /\ call = [viewing[v] EXCEPT !.pc = "insert", !.tokens = n]
          /\ WithViewing(v, call) /\ UNCHANGED scores
    BY <1>4 DEF ReadPlan
  <2>2. call = [pc |-> "insert", now |-> viewing[v].now, tokens |-> n, due |-> viewing[v].due,
                listed |-> viewing[v].listed]
    BY <1>1, <2>1, CallAfter
  <2>3. ViewHolds(call)
    BY <2>2 DEF ViewHolds
  <2>. QED BY <1>2, <2>1, <2>2, <2>3, BooksStay, OneView
<1>5. ASSUME NEW v \in Viewers, InsertPlan(v) PROVE BooksInv' /\ Recorded
  <2>1. PICK w, n, call :
          /\ w = WeekOf(LocalDay(viewing[v].now)) /\ call = [viewing[v] EXCEPT !.pc = "list"]
          /\ WithViewing(v, call) /\ scores' = InsertForecastPlan(scores, w, n)
    BY <1>5 DEF InsertPlan, ThisWeek
  <2>2. PICK old : old = viewing[v]
    OBVIOUS
  <2>3. call = [pc |-> "list", now |-> old.now, tokens |-> old.tokens, due |-> old.due,
                listed |-> old.listed]
    BY <1>1, <2>1, <2>2, CallAfter
  <2>4. ScoreRows' /\ RowPerWeek' /\ Recorded /\ Known(w)'
    BY <1>1, <2>1, PlanKept
  <2>5. w = WeekOf(LocalDay(call.now)) /\ call.pc = "list"
    BY <2>1, <2>2, <2>3
  <2>6. ViewHolds(call)'
    BY <2>4, <2>5 DEF ViewHolds
  <2>. QED BY <2>1, <2>3, <2>4, <2>6, OneView
<1>6. ASSUME NEW v \in Viewers, ListWeeks(v) PROVE BooksInv' /\ Recorded
  <2>1. PICK due, call :
          /\ due = Due(scores, viewing[v].now)
          /\ call = [viewing[v] EXCEPT !.pc = NextWeek(due), !.due = due, !.listed = due]
          /\ WithViewing(v, call) /\ UNCHANGED scores /\ ViewAt(v, "list")
    BY <1>6 DEF ListWeeks
  <2>2. call = [pc |-> NextWeek(due), now |-> viewing[v].now, tokens |-> viewing[v].tokens,
                due |-> due, listed |-> due]
    BY <1>1, <2>1, CallAfter
  <2>3. \A w \in due : Known(w)
    BY <2>1 DEF Due, Known
  <2>4. Known(WeekOf(LocalDay(viewing[v].now)))
    BY <1>1, <2>1 DEF ViewHolds, ViewAt
  <2>5. ViewHolds(call)
    BY <2>2, <2>3, <2>4 DEF ViewHolds, NextWeek
  <2>. QED BY <1>2, <2>1, <2>2, <2>5, BooksStay, OneView
<1>7. ASSUME NEW v \in Viewers, ReadActual(v) PROVE BooksInv' /\ Recorded
  <2>1. PICK n, call :
          /\ call = [viewing[v] EXCEPT !.pc = "record", !.tokens = n]
          /\ WithViewing(v, call) /\ UNCHANGED scores /\ ViewAt(v, "score")
    BY <1>7 DEF ReadActual
  <2>2. call = [pc |-> "record", now |-> viewing[v].now, tokens |-> n, due |-> viewing[v].due,
                listed |-> viewing[v].listed]
    BY <1>1, <2>1, CallAfter
  <2>3. ViewHolds(call)
    BY <1>1, <2>1, <2>2 DEF ViewHolds, ViewAt
  <2>. QED BY <1>2, <2>1, <2>2, <2>3, BooksStay, OneView
<1>8. ASSUME NEW v \in Viewers, RecordActual(v) PROVE BooksInv' /\ Recorded
  <2>1. PICK w, n, rest, call :
          /\ rest = viewing[v].due \ {w}
          /\ call = [viewing[v] EXCEPT !.pc = NextWeek(rest), !.due = rest]
          /\ WithViewing(v, call) /\ scores' = RecordForecastActual(scores, w, n)
          /\ ViewAt(v, "record")
    BY <1>8 DEF RecordActual
  <2>2. PICK old : old = viewing[v]
    OBVIOUS
  <2>3. call = [pc |-> NextWeek(rest), now |-> old.now, tokens |-> old.tokens, due |-> rest,
                listed |-> old.listed]
    <3>1. PICK pc : pc = NextWeek(rest)
      OBVIOUS
    <3>2. call = [old EXCEPT !.pc = pc, !.due = rest]
      BY <2>1, <2>2, <3>1
    <3>3. old = [pc |-> old.pc, now |-> old.now, tokens |-> old.tokens, due |-> old.due,
                 listed |-> old.listed]
      BY <1>1, <2>2
    <3>. QED BY <3>1, <3>2, <3>3, CallAfter
  <2>4. ScoreRows' /\ RowPerWeek' /\ Recorded /\ (Known(w) => Scored(w)')
    BY <1>1, <2>1, ActualKept
  <2>5. /\ Known(WeekOf(LocalDay(old.now)))
        /\ \A x \in old.listed : Known(x)
        /\ \A x \in old.listed \ old.due : Scored(x)
    BY <1>1, <2>1, <2>2 DEF ViewHolds, ViewAt
  <2>6. /\ Known(WeekOf(LocalDay(old.now)))'
        /\ \A x \in old.listed : Known(x)'
        /\ \A x \in old.listed \ rest : Scored(x)'
    BY <2>1, <2>2, <2>4, <2>5, BooksStay
  <2>7. ViewHolds(call)'
    BY <2>3, <2>6 DEF ViewHolds, NextWeek
  <2>. QED BY <2>1, <2>3, <2>4, <2>7, OneView
<1>9. ASSUME NEW v \in Viewers, LeaveForecast(v) PROVE BooksInv' /\ Recorded
  <2>1. PICK call : call = NoViewing
    OBVIOUS
  <2>2. WithViewing(v, call) /\ UNCHANGED scores
    BY <1>9, <2>1 DEF LeaveForecast
  <2>3. call = [pc |-> "idle", now |-> 0, tokens |-> 0, due |-> {}, listed |-> {}]
    BY <2>1 DEF NoViewing
  <2>4. ViewHolds(call)
    BY <2>3 DEF ViewHolds
  <2>. QED BY <1>2, <2>2, <2>3, <2>4, BooksStay, OneView
<1>10. ASSUME UNCHANGED <<scores, viewing>> PROVE BooksInv' /\ Recorded
  BY <1>2, <1>10, BooksStay DEF BooksInv, CallsAre
<1>. QED
  BY <1>3, <1>4, <1>5, <1>6, <1>7, <1>8, <1>9, <1>10
     DEF BooksNext, booksVars, LateTurn, NextMoment

(* A week's plan is written once and its actual once, whatever views       *)
(* overlap, fail half-way or write what they read long ago, and whatever   *)
(* turns are stored late; and a view that comes through leaves its week    *)
(* planned and scored every week it found due (forecast.EnsureScored over  *)
(* store.InsertForecastPlan and RecordForecastActual).                     *)
THEOREM ScoresStayFinal == BooksInit /\ [][BooksNext]_booksVars => ScoresAreFinal
<1>1. BooksInv => Served
  <2>1. SUFFICES ASSUME BooksInv, NEW v \in Viewers, ViewAt(v, "done")
                 PROVE  /\ ForecastScore(scores, ThisWeek(v)) # {}
                        /\ \A w \in viewing[v].listed :
                             \A s \in ForecastScore(scores, w) : s.actual # <<>>
    BY DEF Served
  <2>2. /\ Known(ThisWeek(v))
        /\ \A w \in viewing[v].listed : Scored(w)
    BY <2>1 DEF BooksInv, ViewHolds, ViewAt, ThisWeek
  <2>3. RowPerWeek
    BY <2>1 DEF BooksInv
  <2>. QED BY <2>2, <2>3 DEF Known, Scored, RowPerWeek, ForecastScore
<1>2. BooksInv /\ [BooksNext]_booksVars => [Recorded]_booksVars
  BY BooksStep
<1>. QED BY <1>1, <1>2, BooksInvInit, BooksStep, PTL DEF ScoresAreFinal
=============================================================================
