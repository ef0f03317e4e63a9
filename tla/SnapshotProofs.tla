--------------------------- MODULE SnapshotProofs ---------------------------
(***************************************************************************)
(* Proofs about Snapshot: a report that is not marked stale is the one     *)
(* generate would store now, no interim rate is forgotten, and one         *)
(* undisturbed run of the job repairs its window.                          *)
(***************************************************************************)
EXTENDS Snapshot, SetTheorems, FiniteSetTheorems, TLAPS

-----------------------------------------------------------------------------
(* Days and months. *)

\* A product of numbers grows with either factor.
LEMMA TimesMonotone ==
    ASSUME NEW a \in Int, NEW b \in Int, NEW n \in Nat, a <= b
    PROVE  a * n <= b * n
OBVIOUS

\* Dividing leaves a remainder below the divisor.
LEMMA DivFacts ==
    ASSUME NEW x \in Int, NEW n \in Nat \ {0}
    PROVE  /\ x \div n \in Int
           /\ (x \div n) * n <= x
           /\ x < ((x \div n) + 1) * n
OBVIOUS

\* Later days are in later months.
LEMMA DivMonotone ==
    ASSUME NEW x \in Int, NEW y \in Int, NEW n \in Nat \ {0}, x <= y
    PROVE  x \div n <= y \div n
<1>1. PICK p \in Int : p = x \div n
  BY DivFacts
<1>2. PICK q \in Int : q = y \div n
  BY DivFacts
<1>3. p * n <= x /\ y < (q + 1) * n
  BY <1>1, <1>2, DivFacts
<1>4. ASSUME q < p PROVE FALSE
  <2>1. q + 1 <= p
    BY <1>4
  <2>2. (q + 1) * n <= p * n
    BY <2>1, TimesMonotone
  <2> QED
    BY <1>3, <2>2
<1> QED
  BY <1>1, <1>2, <1>4

\* The months of the days are numbered from 1 on, in order, and a day before a
\* month's first is in an earlier one.
LEMMA MonthFacts ==
    /\ \A d \in Days : Month(d) \in Months /\ 1 <= Month(d)
    /\ \A d, e \in Days : d <= e => Month(d) <= Month(e)
    /\ \A d \in Days, m \in Months : d < FirstDay(m) => Month(d) < m
    /\ Months \subseteq Nat /\ Month(MaxDay) \in Nat /\ IsFiniteSet(Months)
<1>1. MaxDay \in Nat \ {0} /\ MonthLength \in Nat \ {0}
  BY ConstantsAssumption
<1>2. \A d \in Days : d \in Int /\ 1 <= d /\ d <= MaxDay
  BY <1>1 DEF Days
<1>3. ASSUME NEW d \in Days, NEW e \in Days, d <= e
      PROVE  Month(d) <= Month(e) /\ Month(d) \in Int /\ Month(e) \in Int
  <2>1. d - 1 \in Int /\ e - 1 \in Int /\ d - 1 <= e - 1
    BY <1>2, <1>3
  <2>2. (d - 1) \div MonthLength <= (e - 1) \div MonthLength
    BY <1>1, <2>1, DivMonotone
  <2>3. (d - 1) \div MonthLength \in Int /\ (e - 1) \div MonthLength \in Int
    BY <1>1, <2>1, DivFacts
  <2> QED
    BY <2>2, <2>3 DEF Month
<1>4. 1 \in Days /\ MaxDay \in Days
  BY <1>1 DEF Days
<1>5. Month(1) = 1
  <2>1. 0 \div MonthLength = 0
    BY <1>1
  <2> QED
    BY <2>1 DEF Month
<1>6. \A d \in Days : Month(d) \in Int /\ 1 <= Month(d) /\ Month(d) <= Month(MaxDay)
  BY <1>2, <1>3, <1>4, <1>5
<1>7. ASSUME NEW d \in Days, NEW m \in Months, d < FirstDay(m)
      PROVE  Month(d) < m
  <2>1. PICK q \in Int : q = (d - 1) \div MonthLength
    BY <1>1, <1>2, DivFacts
  <2>2. q * MonthLength <= d - 1
    BY <1>1, <1>2, <2>1, DivFacts
  <2>3. m \in Int
    BY <1>4, <1>6 DEF Months
  <2>4. ASSUME m - 1 <= q PROVE FALSE
    <3>1. (m - 1) * MonthLength <= q * MonthLength
      BY <1>1, <2>3, <2>4, TimesMonotone
    <3>2. PICK a \in Int : a = (m - 1) * MonthLength
      BY <1>1, <2>3
    <3>3. PICK b \in Int : b = q * MonthLength
      BY <1>1
    <3>4. d - 1 < a
      <4>1. d < a + 1
        BY <1>7, <3>2 DEF FirstDay
      <4> QED
        BY <1>2, <4>1
    <3> QED
      BY <1>2, <2>2, <3>1, <3>2, <3>3, <3>4
  <2> QED
    BY <2>1, <2>3, <2>4 DEF Month
<1>8. Month(MaxDay) \in Nat
  BY <1>4, <1>6
<1>9. IsFiniteSet(Months) /\ Months \subseteq Nat /\ \A d \in Days : Month(d) \in Months
  BY <1>6, <1>8, FS_Interval DEF Months
<1> QED
  BY <1>3, <1>6, <1>7, <1>8, <1>9

-----------------------------------------------------------------------------
(* What valuation finds. *)

\* The calendar and its days.
LEMMA DayFacts ==
    /\ MaxDay \in Nat \ {0} /\ Days \subseteq Nat /\ IsFiniteSet(Days)
    /\ NoDay = 0 /\ NoDay \notin Days
    /\ \A d \in Days : 1 <= d /\ d <= MaxDay
    /\ \A d \in Days, e \in Int : 1 <= e /\ e <= d => e \in Days
BY ConstantsAssumption, FS_Interval DEF Days, NoDay

\* Days and months are numbers.
LEMMA Numbers ==
    Days \cup {NoDay} \subseteq Int /\ Months \subseteq Int
<1>1. Months \subseteq Int
  BY MonthFacts
<1>2. Days \subseteq Int /\ NoDay \in Int
  BY DayFacts
<1> QED
  BY <1>1, <1>2

\* Numbers between two others are finitely many.
LEMMA Bounded ==
    ASSUME NEW a \in Int, NEW b \in Int, NEW S, S \subseteq a .. b
    PROVE  IsFiniteSet(S) /\ S \subseteq Int
<1>1. IsFiniteSet(a .. b)
  BY FS_Interval
<1>2. IsFiniteSet(S)
  BY <1>1, FS_Subset, Zenon
<1>3. S \subseteq Int
  OBVIOUS
<1> QED
  BY <1>2, <1>3

\* The valuation day is a day not after the date, or none.
LEMMA ValuationDayFacts ==
    ASSUME TypeOK, NEW l \in Listings, NEW d \in Days
    PROVE  /\ ValuationDay(l, d) \in Days \cup {NoDay}
           /\ ValuationDay(l, d) <= d
           /\ ValuationDay(l, d) # NoDay => ValuationDay(l, d) \in TradingDays(l, d)
<1> DEFINE S == {NoDay} \cup TradingDays(l, d)
<1>1. S \subseteq 0 .. d /\ S # {}
  BY DayFacts DEF TradingDays, NoDay
<1>2. IsFiniteSet(S) /\ S \subseteq Int
  <2>1. 0 \in Int /\ d \in Int
    BY DayFacts
  <2> HIDE DEF S
  <2> QED
    BY <1>1, <2>1, Bounded
<1>3. Max(S) \in S
  <2> HIDE DEF S
  <2> QED
    BY <1>1, <1>2, MaxFacts
<1>4. ValuationDay(l, d) = Max(S)
  BY DEF ValuationDay
<1>5. \A k \in TradingDays(l, d) : k \in Days /\ k <= d
  BY DayFacts DEF TradingDays
<1> QED
  BY <1>3, <1>4, <1>5, DayFacts

\* The price taken is the day's own when there is one, else an earlier one.
LEMMA PriceDaysFacts ==
    ASSUME TypeOK, NEW l \in Listings, NEW v \in Days, PriceDays(l, v) # {}
    PROVE  /\ Max(PriceDays(l, v)) \in Days
           /\ price[l][Max(PriceDays(l, v))] \in Figures
           /\ Max(PriceDays(l, v)) < v <=> ~IsOk(price[l][v])
           /\ IsOk(price[l][v]) => Max(PriceDays(l, v)) = v
<1> DEFINE S == PriceDays(l, v)
<1>1. /\ S \subseteq 1 .. v
      /\ \A k \in S : IsOk(price[l][k])
      /\ IsOk(price[l][v]) => S = {v}
  BY DayFacts DEF PriceDays
<1>2. IsFiniteSet(S) /\ S \subseteq Int /\ S # {}
  <2> HIDE DEF S
  <2>1. v \in Int
    BY DayFacts
  <2> QED
    BY <1>1, <2>1, Bounded DEF S
<1>3. Max(S) \in S
  <2> HIDE DEF S
  <2> QED
    BY <1>2, MaxFacts
<1>4. PICK m \in S : m = Max(S)
  BY <1>3
<1>5. m \in Days /\ m <= v /\ IsOk(price[l][m])
  <2>1. m \in 1 .. v /\ IsOk(price[l][m])
    BY <1>1
  <2> QED
    BY <2>1, DayFacts
<1>6. price[l][m] \in Figures
  <2>1. price[l][m] \in Figures \cup {None, Error}
    BY <1>5 DEF TypeOK
  <2>2. ~IsOk(None) /\ ~IsOk(Error)
    BY DEF IsOk, None, Error
  <2> QED
    BY <1>5, <2>1, <2>2
<1>7. IsOk(price[l][v]) => m = v
  BY <1>1
<1>8. m < v <=> ~IsOk(price[l][v])
  BY <1>5, <1>7, DayFacts
<1> QED
  BY <1>4, <1>5, <1>6, <1>7, <1>8

\* The rate taken is the month's own when there is one, else an earlier one.
LEMMA RateMonthsFacts ==
    ASSUME TypeOK, NEW v \in Days, RateMonths(v) # {}
    PROVE  /\ Max(RateMonths(v)) \in Months
           /\ rate[Max(RateMonths(v))] \in Figures
           /\ Max(RateMonths(v)) < Month(v) <=> rate[Month(v)] = None
           /\ rate[Month(v)] # None => Max(RateMonths(v)) = Month(v)
<1> DEFINE S == RateMonths(v)
<1>1. S \subseteq Months /\ \A m \in S : m <= Month(v) /\ rate[m] # None
  BY DEF RateMonths
<1>2. IsFiniteSet(S) /\ S \subseteq Int /\ S # {}
  <2>1. S # {} /\ IsFiniteSet(Months) /\ Months \subseteq Int
    BY MonthFacts
  <2> HIDE DEF S
  <2> QED
    BY <1>1, <2>1, FS_Subset
<1>3. Max(S) \in S /\ \A x \in S : x <= Max(S)
  <2> HIDE DEF S
  <2> QED
    BY <1>2, MaxFacts
<1>4. PICK m \in S : m = Max(S) /\ \A x \in S : x <= m
  BY <1>3
<1>5. m \in Months /\ m <= Month(v) /\ rate[m] # None /\ m \in Int /\ Month(v) \in Int
  <2>1. Month(v) \in Months /\ Months \subseteq Int
    BY MonthFacts
  <2> HIDE DEF S
  <2> QED
    BY <1>1, <2>1
<1>6. rate[m] \in Figures
  BY <1>5 DEF TypeOK, None
<1>7. rate[Month(v)] # None => Month(v) \in S
  <2>1. Month(v) \in Months /\ FallbackMonths \in Nat
    BY MonthFacts, ConstantsAssumption
  <2> QED
    BY <1>5, <2>1 DEF RateMonths
<1>8. rate[Month(v)] # None => m = Month(v)
  BY <1>4, <1>5, <1>7
<1>9. m < Month(v) <=> rate[Month(v)] = None
  BY <1>5, <1>8
<1> QED
  BY <1>4, <1>5, <1>6, <1>8, <1>9

\* What is stored for a listing that is valued.
LEMMA ValuedFacts ==
    ASSUME TypeOK, NEW l \in Listings, NEW v \in Days,
           PriceDays(l, v) # {}, RateMonths(v) # {}
    PROVE  /\ Valued(l, v) \in Entries /\ Valued(l, v).is = "valued"
           /\ Valued(l, v).carried <=> ~IsOk(price[l][v])
           /\ IsOk(price[l][v]) => Valued(l, v).price = price[l][v]
           /\ Valued(l, v).provisional <=> rate[Month(v)] = None
           /\ rate[Month(v)] # None => Valued(l, v).rate = rate[Month(v)]
<1>1. PICK k \in Days : /\ k = Max(PriceDays(l, v)) /\ price[l][k] \in Figures
                        /\ k < v <=> ~IsOk(price[l][v])
                        /\ IsOk(price[l][v]) => k = v
  BY PriceDaysFacts
<1>2. PICK m \in Months : /\ m = Max(RateMonths(v)) /\ rate[m] \in Figures
                          /\ m < Month(v) <=> rate[Month(v)] = None
                          /\ rate[Month(v)] # None => m = Month(v)
  BY RateMonthsFacts
<1>3. Valued(l, v) = [is |-> "valued", price |-> price[l][k], rate |-> rate[m],
                      provisional |-> m < Month(v), carried |-> k < v]
  BY <1>1, <1>2 DEF Valued
<1>4. Valued(l, v) \in Entries
  <2>1. (m < Month(v)) \in BOOLEAN /\ (k < v) \in BOOLEAN
    OBVIOUS
  <2> QED
    BY <1>1, <1>2, <1>3, <2>1 DEF Entries
<1>5. /\ Valued(l, v).is = "valued" /\ Valued(l, v).price = price[l][k]
      /\ Valued(l, v).rate = rate[m]
      /\ Valued(l, v).provisional = (m < Month(v))
      /\ Valued(l, v).carried = (k < v)
  BY <1>3
<1> QED
  BY <1>1, <1>2, <1>4, <1>5

\* Nothing blocks a listing of a date that generate can store.
LEMMA GenerableFacts ==
    ASSUME TypeOK, NEW d \in Days, NEW now, Generable(d, now),
           NEW l \in HeldOn(d)
    PROVE  /\ l \in Listings /\ ValuationDay(l, d) \in Days
           /\ ~IsExcluded(l, d) => /\ PriceDays(l, ValuationDay(l, d)) # {}
                                   /\ RateMonths(ValuationDay(l, d)) # {}
                                   /\ Report(d)[l] = Valued(l, ValuationDay(l, d))
           /\ IsExcluded(l, d) => Report(d)[l] = Excluded
<1>1. l \in Listings /\ d \in held[l]
  BY DEF HeldOn
<1>2. ~IsBlocked(l, d, now)
  BY DEF Generable
<1>3. ValuationDay(l, d) \in Days
  BY <1>1, <1>2, ValuationDayFacts DEF IsBlocked
<1> QED
  BY <1>1, <1>2, <1>3 DEF IsBlocked, Report

\* What generate stores is a report.
LEMMA ReportTyped ==
    ASSUME TypeOK, NEW d \in Days, NEW now, Generable(d, now)
    PROVE  Fresh(Report(d)) \in Snaps
<1>1. Absent \in Entries /\ Excluded \in Entries
  BY DEF Entries
<1>2. ASSUME NEW l \in Listings PROVE Report(d)[l] \in Entries
  <2>1. CASE l \in HeldOn(d)
    BY <1>1, <2>1, GenerableFacts, ValuedFacts
  <2>2. CASE l \notin HeldOn(d)
    BY <1>1, <2>2 DEF Report
  <2> QED
    BY <2>1, <2>2
<1>3. Report(d) \in [Listings -> Entries]
  <2>1. Report(d) = [l \in Listings |-> Report(d)[l]]
    BY DEF Report
  <2> QED
    BY <1>2, <2>1
<1> QED
  BY <1>3 DEF Fresh, Snaps

\* The report's line for a listing that is valued.
Says(l, d, v) ==
    /\ Report(d)[l].is = "valued"
    /\ Report(d)[l].carried <=> ~IsOk(price[l][v])
    /\ IsOk(price[l][v]) => Report(d)[l].price = price[l][v]
    /\ Report(d)[l].provisional <=> rate[Month(v)] = None
    /\ rate[Month(v)] # None => Report(d)[l].rate = rate[Month(v)]

IsValuedAt(l, d, v) ==
    /\ d \in held[l] /\ v = ValuationDay(l, d) /\ ~IsExcluded(l, d)
    /\ PriceDays(l, v) # {} /\ RateMonths(v) # {}

ReportsSay ==
    TypeOK => \A d, v \in Days, l \in Listings : IsValuedAt(l, d, v) => Says(l, d, v)

\* A line of a report says the price and the rate its valuation day selects.
LEMMA ReportLines == ReportsSay
<1> SUFFICES ASSUME TypeOK, NEW d \in Days, NEW v \in Days, NEW l \in Listings,
                    IsValuedAt(l, d, v)
             PROVE  Says(l, d, v)
  BY DEF ReportsSay
<1>1. Report(d)[l] = Valued(l, v)
  BY DEF IsValuedAt, Report, HeldOn
<1>2. PriceDays(l, v) # {} /\ RateMonths(v) # {}
  BY DEF IsValuedAt
<1> QED
  BY <1>1, <1>2, ValuedFacts DEF Says

\* So it is in the next state.
LEMMA ReportLinesNext == ReportsSay'
BY ReportLines, PTL

-----------------------------------------------------------------------------
(* Steps that leave the valuation of a date alone. *)

\* The price that values a listing on a valuation day, and the rate, stay, but
\* for a price that was carried forward and a rate that was interim.
PriceKept(l, v) ==
    /\ PriceDays(l, v) # {} => PriceDays(l, v)' # {}
    /\ IsOk(price[l][v]) => price'[l][v] = price[l][v]

RateKept(v) ==
    /\ RateMonths(v) # {} => RateMonths(v)' # {}
    /\ rate[Month(v)] # None => rate'[Month(v)] = rate[Month(v)]

ListingKept(l, d) ==
    /\ ValuationDay(l, d)' = ValuationDay(l, d)
    /\ IsExcluded(l, d)' <=> IsExcluded(l, d)
    /\ \A v \in Days : (v = ValuationDay(l, d) /\ ~IsExcluded(l, d))
                          => PriceKept(l, v) /\ RateKept(v)

Undisturbed(d) ==
    \A l \in Listings : /\ (d \in held'[l]) <=> (d \in held[l])
                        /\ d \in held[l] => ListingKept(l, d)

\* A date that could be stored still can, whatever clock it is held against.
LEMMA StaysGenerable ==
    ASSUME TypeOK, NEW d \in Days, NEW now, Generable(d, now), Undisturbed(d)
    PROVE  Generable(d, now)'
<1>1. HeldOn(d)' = HeldOn(d)
  BY DEF HeldOn, Undisturbed
<1>2. ASSUME NEW l \in HeldOn(d)
      PROVE  /\ ~IsBlocked(l, d, now)'
             /\ ~IsExcluded(l, d) => ~IsExcluded(l, d)'
  <2>1. l \in Listings /\ d \in held[l] /\ ListingKept(l, d) /\ ~IsBlocked(l, d, now)
    BY DEF HeldOn, Undisturbed, Generable
  <2>2. PICK v : v = ValuationDay(l, d)
    OBVIOUS
  <2>3. v # NoDay /\ ValuationDay(l, d)' = v
    BY <2>1, <2>2 DEF IsBlocked, ListingKept
  <2>4. CASE IsExcluded(l, d)
    BY <2>1, <2>3, <2>4 DEF IsBlocked, ListingKept
  <2>5. CASE ~IsExcluded(l, d)
    <3>1. ~(v > now[l]) /\ PriceDays(l, v) # {} /\ RateMonths(v) # {}
      BY <2>1, <2>2, <2>5 DEF IsBlocked
    <3>2. v \in Days
      BY <2>1, <2>2, <2>3, ValuationDayFacts
    <3>3. PriceDays(l, v)' # {} /\ RateMonths(v)' # {}
      BY <2>1, <2>2, <2>5, <3>1, <3>2 DEF ListingKept, PriceKept, RateKept
    <3>4. ~IsExcluded(l, d)'
      BY <2>1, <2>5 DEF ListingKept
    <3> QED
      BY <2>3, <3>1, <3>3, <3>4 DEF IsBlocked
  <2> QED
    BY <2>4, <2>5
<1> QED
  BY <1>1, <1>2 DEF Generable

\* StillTrue chains: what is still true of a line that was still true.
LEMMA StillTrueChain ==
    ASSUME NEW a, NEW b, NEW c, StillTrue(a, b), StillTrue(b, c)
    PROVE  StillTrue(a, c)
BY DEF StillTrue

\* The lines of its report stay true.
LEMMA LinesStay ==
    ASSUME TypeOK, TypeOK', NEW d \in Days, NEW now, Generable(d, now), Undisturbed(d),
           NEW l \in Listings
    PROVE  StillTrue(Report(d)[l], (Report(d)[l])')
<1>0. Generable(d, now)'
  BY StaysGenerable
<1>1. (l \in HeldOn(d)') <=> (l \in HeldOn(d))
  BY DEF HeldOn, Undisturbed
<1>2. CASE l \notin HeldOn(d)
  <2>1. Report(d)[l] = Absent /\ (Report(d)[l])' = Absent
    BY <1>1, <1>2 DEF Report
  <2> QED
    BY <2>1 DEF StillTrue, Absent
<1>3. CASE l \in HeldOn(d) /\ IsExcluded(l, d)
  <2>1. IsExcluded(l, d)'
    BY <1>3 DEF Undisturbed, ListingKept, HeldOn
  <2>2. Report(d)[l] = Excluded /\ (Report(d)[l])' = Excluded
    BY <1>1, <1>3, <2>1 DEF Report
  <2> QED
    BY <2>2 DEF StillTrue, Excluded, Absent
<1>4. CASE l \in HeldOn(d) /\ ~IsExcluded(l, d)
  <2>1. PICK v \in Days : v = ValuationDay(l, d)
    BY <1>4, GenerableFacts
  <2>2. PriceDays(l, v) # {} /\ RateMonths(v) # {}
    BY <1>4, <2>1, GenerableFacts
  <2>3. d \in held[l] /\ d \in held'[l] /\ ListingKept(l, d)
    BY <1>4 DEF Undisturbed, HeldOn
  <2>4. PriceKept(l, v) /\ RateKept(v)
    BY <1>4, <2>1, <2>3 DEF ListingKept
  <2>5. IsValuedAt(l, d, v)
    BY <1>4, <2>1, <2>2, <2>3 DEF IsValuedAt
  <2>6. IsValuedAt(l, d, v)'
    <3>1. ValuationDay(l, d)' = v /\ ~IsExcluded(l, d)'
      BY <1>4, <2>1, <2>3 DEF ListingKept
    <3>2. PriceDays(l, v)' # {} /\ RateMonths(v)' # {}
      BY <2>2, <2>4 DEF PriceKept, RateKept
    <3> QED
      BY <2>3, <3>1, <3>2 DEF IsValuedAt
  <2>7. Says(l, d, v)
    BY <2>5, ReportLines DEF ReportsSay
  <2>8. Says(l, d, v)'
    BY <2>6, ReportLinesNext DEF ReportsSay
  <2>9. /\ (Report(d)[l].is)' = Report(d)[l].is
        /\ IsOk(price[l][v]) => /\ IsOk(price'[l][v])
                                /\ (Report(d)[l].price)' = Report(d)[l].price
        /\ rate[Month(v)] # None => /\ rate'[Month(v)] # None
                                    /\ (Report(d)[l].rate)' = Report(d)[l].rate
    BY <2>4, <2>7, <2>8 DEF PriceKept, RateKept, Says
  <2> QED
    BY <2>7, <2>8, <2>9 DEF Says, StillTrue
<1> QED
  BY <1>2, <1>3, <1>4

\* A listing whose calendar, markers and prices are untouched, and the rates,
\* is valued as before.
LEMMA ListingUntouched ==
    ASSUME NEW l \in Listings, NEW d \in Days,
           holidays'[l] = holidays[l], before'[l] = before[l], from'[l] = from[l],
           price'[l] = price[l], \A v \in Days : v <= d => RateKept(v), TypeOK
    PROVE  ListingKept(l, d)
<1>1. TradingDays(l, d)' = TradingDays(l, d)
  BY DEF TradingDays
<1>2. ValuationDay(l, d)' = ValuationDay(l, d)
  BY <1>1 DEF ValuationDay
<1>3. IsExcluded(l, d)' <=> IsExcluded(l, d)
  BY <1>2 DEF IsExcluded
<1>4. ASSUME NEW v \in Days, v = ValuationDay(l, d)
      PROVE  PriceKept(l, v) /\ RateKept(v)
  <2>1. PriceDays(l, v)' = PriceDays(l, v)
    BY DEF PriceDays, Unpriced
  <2>2. v <= d
    BY <1>4, ValuationDayFacts
  <2> QED
    BY <2>1, <2>2 DEF PriceKept
<1> QED
  BY <1>2, <1>3, <1>4 DEF ListingKept

\* A step that leaves the rates alone keeps the rate of every day.
LEMMA RateUntouched ==
    ASSUME NEW v \in Days, UNCHANGED rate
    PROVE  RateKept(v)
<1>1. RateMonths(v)' = RateMonths(v)
  BY DEF RateMonths
<1> QED
  BY <1>1 DEF RateKept

\* A step that writes no fact.
LEMMA NoWriteKeeps ==
    ASSUME TypeOK, NEW d \in Days, UNCHANGED <<facts, rate>>
    PROVE  Undisturbed(d)
<1>1. \A v \in Days : RateKept(v)
  BY RateUntouched
<1>2. \A l \in Listings : ListingKept(l, d)
  BY <1>1, ListingUntouched DEF facts
<1> QED
  BY <1>2 DEF Undisturbed, facts

\* A price that is written where there was none, or after the date.
LEMMA PriceWriteKeeps ==
    ASSUME TypeOK, NEW l \in Listings, NEW k \in Days, NEW p,
           price' = [price EXCEPT ![l][k] = p],
           UNCHANGED <<holidays, held, before, from, rate>>,
           NEW d \in Days, ~Revised(price[l][k], p) \/ d < k
    PROVE  Undisturbed(d)
<1>1. \A v \in Days : RateKept(v)
  BY RateUntouched
<1>2. /\ \A j \in Listings : j # l => price'[j] = price[j]
      /\ \A j \in Days : j # k => price'[l][j] = price[l][j]
      /\ price'[l][k] = p
  BY DEF TypeOK
<1>3. \A j \in Listings : j # l => ListingKept(j, d)
  BY <1>1, <1>2, ListingUntouched
<1>4. ListingKept(l, d)
  <2>1. TradingDays(l, d)' = TradingDays(l, d)
    BY DEF TradingDays
  <2>2. ValuationDay(l, d)' = ValuationDay(l, d)
    BY <2>1 DEF ValuationDay
  <2>3. IsExcluded(l, d)' <=> IsExcluded(l, d)
    BY <2>2 DEF IsExcluded
  <2>4. ASSUME NEW v \in Days, v = ValuationDay(l, d)
        PROVE  PriceKept(l, v)
    <3>1. v <= d
      BY <2>4, ValuationDayFacts
    <3>2. ASSUME NEW j \in Days, j <= v, IsOk(price[l][j])
          PROVE  price'[l][j] = price[l][j]
      <4>1. CASE d < k
        BY <1>2, <3>1, <3>2, <4>1, DayFacts
      <4>2. CASE ~Revised(price[l][k], p)
        BY <1>2, <3>2, <4>2 DEF Revised
      <4> QED
        BY <4>1, <4>2
    <3>3. v \in Int /\ v <= v /\ \A j \in 1 .. v : j \in Days /\ j <= v
      BY DayFacts
    <3>4. IsOk(price[l][v]) => price'[l][v] = price[l][v]
      BY <3>2, <3>3
    <3>5. ASSUME PriceDays(l, v) # {} PROVE PriceDays(l, v)' # {}
      <4>1. CASE IsOk(price'[l][v])
        BY <4>1 DEF PriceDays
      <4>2. CASE ~IsOk(price'[l][v])
        <5>1. ~IsOk(price[l][v])
          BY <3>4, <4>2
        <5>2. PICK j \in PriceDays(l, v) : TRUE
          BY <3>5
        <5>3. /\ j \in 1 .. v /\ Unpriced(l, v) /\ IsOk(price[l][j])
              /\ before[l] # NoDay => j >= before[l]
          BY <5>1, <5>2 DEF PriceDays
        <5>4. IsOk(price'[l][j])
          BY <3>2, <3>3, <5>3
        <5>5. Unpriced(l, v)' /\ before'[l] = before[l]
          BY <5>3 DEF Unpriced
        <5> QED
          BY <4>2, <5>3, <5>4, <5>5 DEF PriceDays
      <4> QED
        BY <4>1, <4>2
    <3> QED
      BY <3>4, <3>5 DEF PriceKept
  <2> QED
    BY <1>1, <2>2, <2>3, <2>4 DEF ListingKept
<1> QED
  BY <1>3, <1>4 DEF Undisturbed

\* A holiday after the date.
LEMMA HolidayKeeps ==
    ASSUME TypeOK, NEW l \in Listings, NEW k \in Days,
           holidays' = [holidays EXCEPT ![l] = IF k \in @ THEN @ \ {k} ELSE @ \cup {k}],
           UNCHANGED <<price, held, before, from, rate>>,
           NEW d \in Days, d < k
    PROVE  Undisturbed(d)
<1>1. \A v \in Days : RateKept(v)
  BY RateUntouched
<1>2. \A j \in Listings : j # l => holidays'[j] = holidays[j]
  BY DEF TypeOK
<1>3. \A j \in Listings : j # l => ListingKept(j, d)
  BY <1>1, <1>2, ListingUntouched
<1>4. ListingKept(l, d)
  <2>1. TradingDays(l, d)' = TradingDays(l, d)
    <3>1. ASSUME NEW j \in 1 .. d PROVE j \in holidays'[l] <=> j \in holidays[l]
      BY DayFacts DEF TypeOK
    <3> QED
      BY <3>1 DEF TradingDays
  <2>2. ValuationDay(l, d)' = ValuationDay(l, d)
    BY <2>1 DEF ValuationDay
  <2>3. IsExcluded(l, d)' <=> IsExcluded(l, d)
    BY <2>2 DEF IsExcluded
  <2>4. ASSUME NEW v \in Days PROVE PriceKept(l, v)
    <3>1. PriceDays(l, v)' = PriceDays(l, v)
      BY DEF PriceDays, Unpriced
    <3> QED
      BY <3>1 DEF PriceKept
  <2> QED
    BY <1>1, <2>2, <2>3, <2>4 DEF ListingKept
<1> QED
  BY <1>3, <1>4 DEF Undisturbed

\* A trade after the date.
LEMMA TradeKeeps ==
    ASSUME TypeOK, NEW l \in Listings, NEW k \in Days, NEW days \in SUBSET Days,
           held' = [held EXCEPT ![l] = {j \in @ : j < k} \cup {j \in days : j >= k}],
           UNCHANGED <<holidays, price, before, from, rate>>,
           NEW d \in Days, d < k
    PROVE  Undisturbed(d)
<1>1. \A v \in Days : RateKept(v)
  BY RateUntouched
<1>2. \A j \in Listings : ListingKept(j, d)
  BY <1>1, ListingUntouched
<1>3. \A j \in Listings : (d \in held'[j]) <=> (d \in held[j])
  <2>1. \A j \in Listings : j # l => held'[j] = held[j]
    BY DEF TypeOK
  <2>2. held'[l] = {j \in held[l] : j < k} \cup {j \in days : j >= k}
    BY DEF TypeOK
  <2>3. ~(d >= k)
    BY DayFacts
  <2> QED
    BY <2>1, <2>2, <2>3
<1> QED
  BY <1>2, <1>3 DEF Undisturbed

\* A rate where there was none, or for a month after the date.
LEMMA RateWriteKeeps ==
    ASSUME TypeOK, NEW m \in Months, NEW f \in Figures,
           rate' = [rate EXCEPT ![m] = f], UNCHANGED facts,
           NEW d \in Days, rate[m] = None \/ d < FirstDay(m)
    PROVE  Undisturbed(d)
<1>1. /\ \A j \in Months : j # m => rate'[j] = rate[j]
      /\ rate'[m] = f /\ f # None
  BY ConstantsAssumption DEF TypeOK, None
<1>2. ASSUME NEW v \in Days, v <= d PROVE RateKept(v)
  <2>1. Month(v) \in Months
    BY MonthFacts
  <2>2. ASSUME RateMonths(v) # {} PROVE RateMonths(v)' # {}
    <3>1. PICK j \in RateMonths(v) : TRUE
      BY <2>2
    <3>2. j \in RateMonths(v)'
      BY <1>1, <3>1 DEF RateMonths
    <3> QED
      BY <3>2
  <2>3. ASSUME rate[Month(v)] # None PROVE Month(v) # m
    <3>1. CASE rate[m] = None
      BY <2>3, <3>1
    <3>2. CASE d < FirstDay(m)
      <4>1. Month(d) < m /\ Month(v) <= Month(d)
        BY <1>2, <3>2, MonthFacts
      <4>2. Month(d) \in Months /\ Month(v) \in Months /\ Months \subseteq Int
        BY MonthFacts, Numbers
      <4>3. Month(d) \in Int /\ Month(v) \in Int /\ m \in Int
        BY <4>2
      <4> QED
        BY <4>1, <4>3
    <3> QED
      BY <3>1, <3>2
  <2> QED
    BY <1>1, <2>1, <2>2, <2>3 DEF RateKept
<1>3. \A j \in Listings : ListingKept(j, d)
  BY <1>2, ListingUntouched DEF facts
<1> QED
  BY <1>3 DEF Undisturbed, facts

\* The dates the trigger on the markers leaves alone are before the old and the
\* new unpriced_from, and not before the old and the new unpriced_before.
LEMMA MarkerDaysFacts ==
    ASSUME TypeOK, NEW l \in Listings, NEW b \in Days \cup {NoDay},
           NEW fr \in Days \cup {NoDay}, NEW d \in Days, d \notin MarkerDays(l, b, fr)
    PROVE  /\ fr # from[l] => /\ from[l] # NoDay => d < from[l]
                              /\ fr # NoDay => d < fr
           /\ b # before[l] => /\ before[l] # NoDay => before[l] <= d
                               /\ b # NoDay => b <= d
<1>1. before[l] \in Days \cup {NoDay} /\ from[l] \in Days \cup {NoDay}
  BY DEF TypeOK
<1>2. ASSUME NEW x \in Days \cup {NoDay}, NEW y \in Days \cup {NoDay}, x # y
      PROVE  /\ Min(OldOrNew(x, y)) \in Int /\ Max(OldOrNew(x, y)) \in Int
             /\ \A z \in {x, y} : z # NoDay => Min(OldOrNew(x, y)) <= z
             /\ \A z \in {x, y} : z # NoDay => z <= Max(OldOrNew(x, y))
  <2>1. OldOrNew(x, y) # {} /\ OldOrNew(x, y) \subseteq Int
    BY <1>2, DayFacts DEF OldOrNew
  <2>2. OldOrNew(x, y) \subseteq 1 .. MaxDay
    BY <1>2, DayFacts DEF OldOrNew
  <2>3. IsFiniteSet(OldOrNew(x, y))
    BY <2>2, DayFacts, Bounded
  <2>4. \A z \in {x, y} : z # NoDay => z \in OldOrNew(x, y)
    BY DEF OldOrNew
  <2>5. PICK S : S = OldOrNew(x, y)
    OBVIOUS
  <2>6. Min(S) \in S /\ \A z \in S : Min(S) <= z
    BY <2>1, <2>3, <2>5, MinFacts
  <2>7. Max(S) \in S /\ \A z \in S : z <= Max(S)
    BY <2>1, <2>3, <2>5, MaxFacts
  <2> QED
    BY <2>1, <2>4, <2>5, <2>6, <2>7
<1>3. ASSUME fr # from[l]
      PROVE  /\ from[l] # NoDay => d < from[l]
             /\ fr # NoDay => d < fr
  <2>1. ~(d >= Min(OldOrNew(from[l], fr)))
    BY <1>3 DEF MarkerDays
  <2>2. PICK n \in Int : /\ n = Min(OldOrNew(from[l], fr))
                         /\ \A z \in {from[l], fr} : z # NoDay => n <= z
    BY <1>1, <1>2, <1>3
  <2>3. from[l] \in Int /\ fr \in Int /\ d \in Int
    BY <1>1, Numbers
  <2> QED
    BY <2>1, <2>2, <2>3
<1>4. ASSUME b # before[l]
      PROVE  /\ before[l] # NoDay => before[l] <= d
             /\ b # NoDay => b <= d
  <2>1. ~(d < Max(OldOrNew(before[l], b)))
    BY <1>4 DEF MarkerDays
  <2>2. PICK n \in Int : /\ n = Max(OldOrNew(before[l], b))
                         /\ \A z \in {before[l], b} : z # NoDay => z <= n
    BY <1>1, <1>2, <1>4
  <2>3. before[l] \in Int /\ b \in Int /\ d \in Int
    BY <1>1, Numbers
  <2> QED
    BY <2>1, <2>2, <2>3
<1> QED
  BY <1>3, <1>4

\* Markers set where the trigger leaves a date alone that they do not divide
\* from its valuation day: a listing served on that day stays served, and one
\* carried forward finds an ok price in the span the markers must leave it.
LEMMA MarkersKeep ==
    ASSUME TypeOK, NEW l \in Listings, NEW b \in Days \cup {NoDay},
           NEW fr \in Days \cup {NoDay}, MarkersAllowed(l, b, fr),
           before' = [before EXCEPT ![l] = b], from' = [from EXCEPT ![l] = fr],
           UNCHANGED <<holidays, held, price, rate>>,
           NEW d \in Days, d \notin MarkerDays(l, b, fr), ~Divided(d), ~Divided(d)'
    PROVE  Undisturbed(d)
<1>1. \A v \in Days : RateKept(v)
  BY RateUntouched
<1>2. /\ \A j \in Listings : j # l => before'[j] = before[j] /\ from'[j] = from[j]
      /\ before'[l] = b /\ from'[l] = fr
  BY DEF TypeOK
<1>3. \A j \in Listings : j # l => ListingKept(j, d)
  BY <1>1, <1>2, ListingUntouched
<1>4. ASSUME d \in held[l] PROVE ListingKept(l, d)
  <2>1. TradingDays(l, d)' = TradingDays(l, d)
    BY DEF TradingDays
  <2>2. ValuationDay(l, d)' = ValuationDay(l, d)
    BY <2>1 DEF ValuationDay
  <2>3. ~MarkerInGap(l, d) /\ ~MarkerInGap(l, d)'
    BY <1>4 DEF Divided, HeldOn
  <2>4. PICK w \in Days \cup {NoDay} : w = ValuationDay(l, d) /\ w <= d
    BY ValuationDayFacts
  <2>5. IsExcluded(l, d)' <=> IsExcluded(l, d)
    <3>1. CASE b = before[l]
      BY <1>2, <2>2, <3>1 DEF IsExcluded
    <3>2. CASE b # before[l]
      <4>1. /\ before[l] # NoDay => before[l] <= d
            /\ b # NoDay => b <= d
        BY <3>2, MarkerDaysFacts
      <4>2. ~IsExcluded(l, d)
        BY <2>3, <4>1 DEF IsExcluded, MarkerInGap
      <4>3. ~IsExcluded(l, d)'
        BY <1>2, <2>3, <4>1 DEF IsExcluded, MarkerInGap
      <4> QED
        BY <4>2, <4>3
    <3> QED
      BY <3>1, <3>2
  <2>6. ASSUME NEW v \in Days, v = ValuationDay(l, d), PriceDays(l, v) # {}
        PROVE  PriceDays(l, v)' # {}
    <3>1. CASE IsOk(price[l][v])
      BY <3>1 DEF PriceDays
    <3>2. CASE ~IsOk(price[l][v])
      <4>1. from[l] # NoDay /\ v >= from[l]
        BY <2>6, <3>2 DEF PriceDays, Unpriced
      <4>2. v <= d /\ v \in Int /\ d \in Int /\ from[l] \in Int
        <5>1. from[l] \in Days \cup {NoDay}
          BY DEF TypeOK
        <5> QED
          BY <2>4, <2>6, <5>1, Numbers
      <4>3. fr = from[l]
        BY <4>1, <4>2, MarkerDaysFacts
      <4>4. PICK k \in Days : /\ IsOk(price[l][k]) /\ k < fr
                              /\ b # NoDay => k >= b
        BY <4>1, <4>3 DEF MarkersAllowed
      <4>5. k \in 1 .. v
        BY <4>1, <4>2, <4>3, <4>4, DayFacts
      <4>6. k \in PriceDays(l, v)'
        BY <1>2, <3>2, <4>1, <4>3, <4>4, <4>5 DEF PriceDays, Unpriced
      <4> QED
        BY <4>6
    <3> QED
      BY <3>1, <3>2
  <2>7. \A v \in Days : v = ValuationDay(l, d) => PriceKept(l, v)
    BY <2>6 DEF PriceKept
  <2> QED
    BY <1>1, <2>2, <2>5, <2>7 DEF ListingKept
<1> QED
  BY <1>3, <1>4 DEF Undisturbed

-----------------------------------------------------------------------------
(* Type correctness. *)

Runs == [todo : SUBSET Days, now : [Listings -> Days \cup {NoDay}]]

\* An idle run and an absent snapshot have their types.
LEMMA IdleTyped == Idle \in Runs /\ NoSnap \in Snaps
BY DEF Idle, Runs, NoSnap, Snaps, Absent, Entries

\* The triggers only turn fresh snapshots stale.
LEMMA StaledFacts ==
    ASSUME TypeOK, NEW days, snap' = Staled(days)
    PROVE  /\ snap' \in [Days -> Snaps]
           /\ \A d \in Days : snap'[d].state = "fresh" => d \notin days /\ snap'[d] = snap[d]
           /\ \A d \in Days : snap'[d].report = snap[d].report
<1>1. ASSUME NEW d \in Days
      PROVE  /\ snap'[d] \in Snaps /\ snap'[d].report = snap[d].report
             /\ snap'[d].state = "fresh" => d \notin days /\ snap'[d] = snap[d]
  <2>1. snap[d] \in Snaps
    BY DEF TypeOK
  <2>2. CASE d \in days /\ snap[d].state = "fresh"
    <3>1. snap'[d] = [snap[d] EXCEPT !.state = "stale"]
      BY <2>2 DEF Staled
    <3> QED
      BY <2>1, <3>1 DEF Snaps
  <2>3. CASE ~(d \in days /\ snap[d].state = "fresh")
    <3>1. snap'[d] = snap[d]
      BY <2>3 DEF Staled
    <3> QED
      BY <2>1, <2>3, <3>1
  <2> QED
    BY <2>2, <2>3
<1>2. snap' = [d \in Days |-> snap'[d]]
  BY DEF Staled
<1> QED
  BY <1>1, <1>2

\* A run that starts with its dates has its type.
LEMMA StartTyped ==
    ASSUME TypeOK, NEW r \in Runners, NEW dates \in SUBSET Days, Start(r, dates),
           importing' \subseteq Importers, edits' \in 0 .. MaxEdits
    PROVE  TypeOK'
<1>1. [todo |-> dates, now |-> closed] \in Runs
  BY DEF TypeOK, Runs
<1>2. run' \in [Runners -> Runs]
  BY <1>1 DEF Start, TypeOK, Runs
<1>3. alone' \in BOOLEAN
  BY DEF Start
<1> QED
  BY <1>2, <1>3 DEF TypeOK, Start, facts, stored, Runs

\* An edit counts against the bound and stays within it.
LEMMA EditTyped == TypeOK /\ Edit => edits' \in 0 .. MaxEdits
BY ConstantsAssumption DEF Edit, TypeOK

\* The job, the requests and the imports are the runners, and no import is the job.
LEMMA RunnersAre ==
    /\ Job \in Runners /\ \A h \in Handlers : h \in Runners
    /\ \A i \in Importers : i \in Runners /\ i # Job
BY ConstantsAssumption DEF Runners

\* A run that moves on keeps its type, and the other runs are left alone.
LEMMA ProceedTyped ==
    ASSUME TypeOK, NEW r \in Runners, NEW todo \in SUBSET Days, Proceed(r, todo)
    PROVE  /\ run' \in [Runners -> Runs]
           /\ \A q \in Runners : q # r => run'[q] = run[q]
           /\ run'[r].todo = todo
           /\ todo # {} => run'[r].now = run[r].now
           /\ todo = {} => run'[r] = Idle
<1>1. run[r] \in Runs
  BY DEF TypeOK, Runs
<1>2. [run[r] EXCEPT !.todo = todo] \in Runs
  BY <1>1 DEF Runs
<1>3. run' = [run EXCEPT ![r] = IF todo = {} THEN Idle ELSE [run[r] EXCEPT !.todo = todo]]
  BY DEF Proceed
<1>4. run \in [Runners -> Runs]
  BY DEF TypeOK, Runs
<1>5. CASE todo = {}
  BY <1>3, <1>4, <1>5, IdleTyped DEF Idle
<1>6. CASE todo # {}
  <2>1. run' = [run EXCEPT ![r] = [run[r] EXCEPT !.todo = todo]]
    BY <1>3, <1>6
  <2> QED
    BY <1>1, <1>2, <1>4, <1>6, <2>1 DEF Runs
<1> QED
  BY <1>5, <1>6

\* Storing a snapshot keeps the types.
LEMMA StoreTyped ==
    ASSUME TypeOK, NEW d \in Days, NEW now, Generable(d, now), Store(d)
    PROVE  snap' \in [Days -> Snaps] /\ gapped' \in SUBSET Days
<1>1. Fresh(Report(d)) \in Snaps
  BY ReportTyped
<1> QED
  BY <1>1 DEF Store, TypeOK

\* Every step of a generation keeps the types.
LEMMA GenerationTyped == TypeOK /\ Generation => TypeOK'
<1> SUFFICES ASSUME TypeOK, Generation PROVE TypeOK'
  OBVIOUS
<1>0. importing \subseteq Importers /\ edits \in 0 .. MaxEdits
  BY DEF TypeOK
<1>1. CASE StartJob
  <2>1. JobDates \in SUBSET Days
    BY DEF JobDates
  <2> QED
    BY <1>0, <1>1, <2>1, StartTyped, RunnersAre DEF StartJob
<1>2. ASSUME NEW h \in Handlers, NEW a \in Days, NEW b \in Days, RegenerateAll(h, a, b)
      PROVE  TypeOK'
  <2>1. {d \in a .. b : HeldOn(d) # {}} \in SUBSET Days
    <3>1. MaxDay \in Int
      BY DayFacts
    <3>2. ASSUME NEW d \in a .. b PROVE d \in Days
      BY <3>1 DEF Days
    <3> QED
      BY <3>2
  <2> QED
    BY <1>0, <1>2, <2>1, StartTyped, RunnersAre, EditTyped DEF RegenerateAll
<1>3. ProvisionalDates \in SUBSET Days
  BY DEF ProvisionalDates, Stored
<1>4. ASSUME NEW h \in Handlers, RegenerateProvisional(h)
      PROVE  TypeOK'
  BY <1>0, <1>3, <1>4, StartTyped, RunnersAre, EditTyped DEF RegenerateProvisional
<1>5. ASSUME NEW i \in Importers, TrueUp(i)
      PROVE  TypeOK'
  <2>1. importing' \subseteq Importers /\ edits' \in 0 .. MaxEdits
    BY <1>0, <1>5 DEF TrueUp
  <2>2. CASE ProvisionalDates = {}
    BY <1>5, <2>1, <2>2 DEF TrueUp, TypeOK, facts, stored
  <2>3. CASE ProvisionalDates # {}
    BY <1>3, <1>5, <2>1, <2>3, StartTyped, RunnersAre DEF TrueUp
  <2> QED
    BY <2>2, <2>3
<1>6. ASSUME NEW i \in Importers, ImportFails(i)
      PROVE  TypeOK'
  <2>1. importing' \subseteq Importers /\ edits' \in 0 .. MaxEdits
    BY <1>0, <1>6, EditTyped DEF ImportFails
  <2> QED
    BY <1>6, <2>1 DEF ImportFails, TypeOK, facts, stored
<1>7. ASSUME NEW r \in Runners, GenerateNext(r)
      PROVE  TypeOK'
  <2>1. PICK d : d = Min(run[r].todo)
    OBVIOUS
  <2>2. d \in Days /\ run[r].todo \ {d} \in SUBSET Days
    <3>1. run[r].todo \subseteq Days /\ run[r].todo # {}
      BY <1>7 DEF TypeOK, GenerateNext
    <3>2. IsFiniteSet(run[r].todo) /\ run[r].todo \subseteq Int
      <4>1. IsFiniteSet(Days) /\ Days \subseteq Int
        BY DayFacts, Numbers
      <4>2. PICK S : S = run[r].todo
        OBVIOUS
      <4> QED
        BY <3>1, <4>1, <4>2, FS_Subset
    <3> QED
      BY <2>1, <3>1, <3>2, MinFacts
  <2>3. run' \in [Runners -> Runs]
    BY <1>7, <2>1, <2>2, ProceedTyped DEF GenerateNext
  <2>4. snap' \in [Days -> Snaps] /\ gapped' \in SUBSET Days
    <3>1. CASE Generable(d, run[r].now)
      BY <1>7, <2>1, <2>2, <3>1, StoreTyped DEF GenerateNext
    <3>2. CASE ~Generable(d, run[r].now)
      BY <1>7, <2>1, <3>2 DEF GenerateNext, stored, TypeOK
    <3> QED
      BY <3>1, <3>2
  <2>5. alone' \in BOOLEAN
    BY <1>7 DEF GenerateNext
  <2> QED
    BY <1>7, <2>3, <2>4, <2>5 DEF GenerateNext, TypeOK, facts, Runs
<1>8. ASSUME NEW r \in Runners, GenerateFails(r)
      PROVE  TypeOK'
  <2>1. run' \in [Runners -> Runs]
    <3>1. run[r].todo \subseteq Days
      BY DEF TypeOK
    <3>2. PICK todo \in SUBSET Days : Proceed(r, todo)
      BY <1>8, <3>1 DEF GenerateFails
    <3> QED
      BY <3>2, ProceedTyped
  <2>2. edits' \in 0 .. MaxEdits /\ cut' \in BOOLEAN
    BY <1>8, EditTyped DEF GenerateFails
  <2> QED
    BY <1>8, <2>1, <2>2 DEF GenerateFails, TypeOK, facts, stored, Runs
<1>9. ASSUME NEW d \in Days, GenerateOne(d)
      PROVE  TypeOK'
  <2>1. snap' \in [Days -> Snaps] /\ gapped' \in SUBSET Days
    BY <1>9, StoreTyped DEF GenerateOne
  <2>2. edits' \in 0 .. MaxEdits
    BY <1>9, EditTyped DEF GenerateOne
  <2> QED
    BY <1>9, <2>1, <2>2 DEF GenerateOne, TypeOK, facts
<1>10. ASSUME Kill
       PROVE  TypeOK'
  <2>1. edits' \in 0 .. MaxEdits /\ cut' \in BOOLEAN
    BY <1>10, EditTyped DEF Kill
  <2>2. run' \in [Runners -> Runs]
    BY <1>10, IdleTyped DEF Kill
  <2> QED
    BY <1>10, <2>1, <2>2 DEF Kill, TypeOK, facts, stored, Runs
<1> QED
  BY <1>1, <1>2, <1>4, <1>5, <1>6, <1>7, <1>8, <1>9, <1>10 DEF Generation

\* There is a smallest figure: one smallest of those up to any given one.
LEMMA FirstFigureTyped == FirstFigure \in Figures
<1>1. PICK x : x \in Figures
  BY ConstantsAssumption
<1>2. Figures \subseteq Nat
  BY ConstantsAssumption
<1>3. PICK S : S = {y \in Figures : y <= x}
  OBVIOUS
<1>4. S \subseteq 0 .. x /\ x \in S /\ x \in Int
  <2>1. x \in Nat /\ x <= x
    BY <1>1, <1>2
  <2>2. x \in S
    BY <1>1, <1>3, <2>1
  <2>3. ASSUME NEW y \in S PROVE y \in 0 .. x
    <3>1. y \in Nat /\ y <= x
      BY <1>2, <1>3
    <3> QED
      BY <2>1, <3>1
  <2> QED
    BY <2>1, <2>2, <2>3
<1>5. IsFiniteSet(S) /\ S \subseteq Int
  <2>1. 0 \in Int /\ x \in Int /\ S \subseteq 0 .. x
    BY <1>4
  <2>2. IsFiniteSet(S)
    BY <2>1, Bounded
  <2>3. S \subseteq Int
    BY <2>1
  <2> QED
    BY <2>2, <2>3
<1>6. PICK m \in S : \A y \in S : m <= y
  BY <1>4, <1>5, HasMin
<1>7. \A y \in Figures : m =< y
  <2>1. m \in Figures /\ m \in Int /\ m <= x
    BY <1>2, <1>3, <1>6
  <2>2. ASSUME NEW y \in Figures PROVE m =< y
    <3>1. y \in Int /\ (y <= x => y \in S)
      BY <1>2, <1>3
    <3> QED
      BY <1>4, <1>6, <2>1, <3>1
  <2> QED
    BY <2>2
<1>8. m \in Figures
  BY <1>3, <1>6
<1>9. Min(Figures) \in Figures
  BY <1>7, <1>8, Zenon DEF Min
<1> QED
  BY <1>9 DEF FirstFigure

\* The trigger of a price write.
PriceTrigger(l, d, p) ==
    IF Revised(price[l][d], p) THEN StaleFrom(d) ELSE UNCHANGED stored

\* The trigger on a price marks snapshots and keeps their types.
LEMMA TriggerTyped ==
    ASSUME TypeOK, NEW l, NEW d, NEW p, PriceTrigger(l, d, p)
    PROVE  snap' \in [Days -> Snaps] /\ gapped' \in SUBSET Days
<1>1. gapped' = gapped
  BY DEF PriceTrigger, StaleFrom, stored
<1>2. snap' \in [Days -> Snaps]
  <2>1. CASE Revised(price[l][d], p)
    <3>1. snap' = Staled(d .. MaxDay)
      BY <2>1 DEF PriceTrigger, StaleFrom
    <3> QED
      BY <3>1, StaledFacts
  <2>2. CASE ~Revised(price[l][d], p)
    BY <2>2 DEF PriceTrigger, stored, TypeOK
  <2> QED
    BY <2>1, <2>2
<1> QED
  BY <1>1, <1>2 DEF TypeOK

\* A price write keeps the types.
LEMMA PriceTyped ==
    ASSUME TypeOK, NEW l \in Listings, NEW d \in Days,
           NEW p \in Figures \cup {None, Error},
           price' = [price EXCEPT ![l][d] = p], PriceTrigger(l, d, p), Between,
           UNCHANGED <<holidays, held, before, from, rate>>, edits' \in 0 .. MaxEdits
    PROVE  TypeOK'
<1>1. price' \in [Listings -> [Days -> Figures \cup {None, Error}]]
  BY DEF TypeOK
<1> QED
  BY <1>1, TriggerTyped DEF TypeOK, Between

\* Every write of a fact keeps the types.
LEMMA FactWriteTyped == TypeOK /\ FactWrite => TypeOK'
<1> SUFFICES ASSUME TypeOK, FactWrite PROVE TypeOK'
  OBVIOUS
<1>0. edits \in 0 .. MaxEdits /\ alone \in BOOLEAN
  BY DEF TypeOK
<1>1. ASSUME NEW l \in Listings, NEW d \in Days, CollectPrice(l, d)
      PROVE  TypeOK'
  <2>1. FirstFigure \in Figures \cup {None, Error}
    BY FirstFigureTyped
  <2>2. PICK p \in Figures \cup {None, Error} : StorePrice(l, d, p)
    BY <1>1, <2>1 DEF CollectPrice
  <2>3. edits' \in 0 .. MaxEdits
    BY <1>0, <1>1 DEF CollectPrice
  <2> QED
    BY <2>2, <2>3, PriceTyped DEF StorePrice, PriceTrigger
<1>2. ASSUME NEW l \in Listings, NEW d \in Days, DeletePrice(l, d)
      PROVE  TypeOK'
  <2>1. edits' \in 0 .. MaxEdits
    BY <1>2, EditTyped DEF DeletePrice
  <2> QED
    BY <1>2, <2>1, PriceTyped DEF DeletePrice, PriceTrigger
<1>3. ASSUME NEW l \in Listings, NEW d \in Days, NEW p \in Figures \cup {Error},
             RevisePrice(l, d, p)
      PROVE  TypeOK'
  <2>1. edits' \in 0 .. MaxEdits
    BY <1>3, EditTyped DEF RevisePrice
  <2> QED
    BY <1>3, <2>1, PriceTyped DEF RevisePrice, StorePrice, PriceTrigger
<1>4. ASSUME NEW l \in Listings, NEW b \in MarkerDates \cup {NoDay},
             NEW fr \in MarkerDates \cup {NoDay}, SetMarkers(l, b, fr)
      PROVE  TypeOK'
  <2>1. edits' \in 0 .. MaxEdits
    BY <1>4, EditTyped DEF SetMarkers
  <2>2. b \in Days \cup {NoDay} /\ fr \in Days \cup {NoDay}
    BY ConstantsAssumption
  <2>3. before' \in [Listings -> Days \cup {NoDay}] /\ from' \in [Listings -> Days \cup {NoDay}]
    BY <1>4, <2>2 DEF SetMarkers, TypeOK
  <2>4. snap' \in [Days -> Snaps]
    BY <1>4, StaledFacts DEF SetMarkers
  <2>5. gapped' \in SUBSET Days
    BY <1>4 DEF SetMarkers, TypeOK
  <2> QED
    BY <1>4, <2>1, <2>3, <2>4, <2>5 DEF SetMarkers, TypeOK, Between
<1>5. ASSUME NEW l \in Listings, NEW d \in HolidayDates, EditHoliday(l, d)
      PROVE  TypeOK'
  <2>1. edits' \in 0 .. MaxEdits
    BY <1>5, EditTyped DEF EditHoliday
  <2>2. d \in Days
    BY ConstantsAssumption
  <2>3. holidays' \in [Listings -> SUBSET Days]
    BY <1>5, <2>2 DEF EditHoliday, TypeOK
  <2>4. snap' \in [Days -> Snaps] /\ gapped' = gapped
    BY <1>5, StaledFacts DEF EditHoliday, StaleFrom
  <2> QED
    BY <1>5, <2>1, <2>3, <2>4 DEF EditHoliday, TypeOK, Between
<1>6. ASSUME NEW l \in Listings, NEW d \in Days, NEW days \in SUBSET Days,
             RecordTrade(l, d, days)
      PROVE  TypeOK'
  <2>1. edits' \in 0 .. MaxEdits
    BY <1>6, EditTyped DEF RecordTrade
  <2>3. held' \in [Listings -> SUBSET Days]
    BY <1>6 DEF RecordTrade, TypeOK
  <2>4. snap' \in [Days -> Snaps] /\ gapped' = gapped
    BY <1>6, StaledFacts DEF RecordTrade, StaleFrom
  <2> QED
    BY <1>6, <2>1, <2>3, <2>4 DEF RecordTrade, TypeOK, Between
<1>7. ASSUME NEW i \in Importers, NEW m \in Months, ImportRate(i, m, FirstFigure)
      PROVE  TypeOK'
  <2>1. rate' \in [Months -> Figures \cup {None}] /\ importing' \subseteq Importers
    BY <1>7, FirstFigureTyped DEF ImportRate, TypeOK
  <2> QED
    BY <1>7, <2>1 DEF ImportRate, TypeOK, facts, stored
<1>8. ASSUME NEW m \in Months, NEW f \in Figures, CorrectRate(m, f)
      PROVE  TypeOK'
  <2>1. edits' \in 0 .. MaxEdits
    BY <1>8, EditTyped DEF CorrectRate
  <2>2. rate' \in [Months -> Figures \cup {None}]
    BY <1>8 DEF CorrectRate, TypeOK
  <2>4. snap' \in [Days -> Snaps] /\ gapped' = gapped
    BY <1>8, StaledFacts DEF CorrectRate, StaleFrom
  <2> QED
    BY <1>8, <2>1, <2>2, <2>4 DEF CorrectRate, TypeOK, Between, facts
<1> QED
  BY <1>1, <1>2, <1>3, <1>4, <1>5, <1>6, <1>7, <1>8 DEF FactWrite

\* Every step keeps the types.
LEMMA NextTyped == TypeOK /\ [Next]_vars => TypeOK'
<1> SUFFICES ASSUME TypeOK, [Next]_vars PROVE TypeOK'
  OBVIOUS
<1>1. ASSUME NEW l \in Listings, Close(l) PROVE TypeOK'
  <2>1. closed[l] \in Days /\ closed[l] + 1 \in Days
    BY <1>1, DayFacts DEF Close, TypeOK, Days
  <2>2. closed' \in [Listings -> Days]
    BY <1>1, <2>1 DEF Close, TypeOK
  <2> QED
    BY <1>1, <2>2 DEF Close, TypeOK, facts, stored
<1>2. CASE UNCHANGED vars
  BY <1>2 DEF vars, TypeOK, facts, stored
<1> QED
  BY <1>1, <1>2, GenerationTyped, FactWriteTyped DEF Next

-----------------------------------------------------------------------------
(* What a step does to a date whose snapshot is fresh after it. *)

\* A run holds its dates against the closes there were when it started.
RunsBehind == \A r \in Runners, l \in Listings : run[r].now[l] <= closed[l]

\* A fresh snapshot that a marker divides from its valuation day is known to be.
GapsKnown ==
    \A d \in Days : (snap[d].state = "fresh" /\ d \notin gapped) => ~Divided(d)

Clocks == [Listings -> Days \cup {NoDay}]

\* A clock that is not ahead of the closes, against which the date can be stored.
Storable(d) ==
    \E now \in Clocks : Generable(d, now) /\ \A l \in Listings : now[l] <= closed[l]

\* The least a generation does.
Generates == \E d \in Days : Storable(d) /\ Store(d)

\* A generation step writes no facts, and either stores one date or leaves the snapshots alone.
LEMMA GenerationShape ==
    ASSUME TypeOK, RunsBehind, Generation
    PROVE  UNCHANGED <<closed, facts, rate>> /\ (UNCHANGED stored \/ Generates)
<1>1. ASSUME NEW r \in Runners, GenerateNext(r)
      PROVE  UNCHANGED <<closed, facts, rate>> /\ (UNCHANGED stored \/ Generates)
  <2>1. PICK d : d = Min(run[r].todo)
    OBVIOUS
  <2>2. d \in Days
    <3>1. run[r].todo \subseteq Days /\ run[r].todo # {}
      BY <1>1 DEF TypeOK, GenerateNext
    <3>2. IsFiniteSet(Days) /\ Days \subseteq Int
      BY DayFacts, Numbers
    <3>3. PICK S : S = run[r].todo
      OBVIOUS
    <3>4. IsFiniteSet(S) /\ S \subseteq Int /\ S # {}
      BY <3>1, <3>2, <3>3, FS_Subset
    <3>5. Min(S) \in S
      BY <3>4, MinFacts
    <3> QED
      BY <2>1, <3>1, <3>3, <3>5
  <2>3. CASE Generable(d, run[r].now)
    <3>1. run[r].now \in Clocks /\ \A l \in Listings : run[r].now[l] <= closed[l]
      BY DEF TypeOK, RunsBehind, Clocks
    <3>2. Store(d)
      BY <1>1, <2>1, <2>3 DEF GenerateNext
    <3>3. Storable(d)
      BY <2>3, <3>1 DEF Storable
    <3> QED
      BY <1>1, <2>2, <3>2, <3>3 DEF GenerateNext, Generates
  <2>4. CASE ~Generable(d, run[r].now)
    BY <1>1, <2>1, <2>4 DEF GenerateNext
  <2> QED
    BY <2>3, <2>4
<1>2. ASSUME NEW d \in Days, GenerateOne(d)
      PROVE  UNCHANGED <<closed, facts, rate>> /\ Generates
  <2>1. closed \in Clocks /\ \A l \in Listings : closed[l] <= closed[l]
    <3>1. \A l \in Listings : closed[l] \in Days
      BY DEF TypeOK
    <3>2. \A l \in Listings : closed[l] \in Int
      BY <3>1, Numbers
    <3>3. closed \in Clocks
      BY DEF TypeOK, Clocks
    <3> QED
      BY <3>2, <3>3
  <2>2. Storable(d)
    BY <1>2, <2>1 DEF GenerateOne, Storable
  <2> QED
    BY <1>2, <2>2 DEF GenerateOne, Generates
<1>3. CASE \/ StartJob
           \/ \E h \in Handlers, a, b \in Days : RegenerateAll(h, a, b)
           \/ \E h \in Handlers : RegenerateProvisional(h)
           \/ \E i \in Importers : TrueUp(i) \/ ImportFails(i)
           \/ \E r \in Runners : GenerateFails(r)
           \/ Kill
  BY <1>3 DEF StartJob, RegenerateAll, RegenerateProvisional, TrueUp, ImportFails,
              GenerateFails, Kill, Start
<1> QED
  BY <1>1, <1>2, <1>3 DEF Generation

\* The date was stored by the step, from what there is.
Regenerated(d) ==
    /\ UNCHANGED <<closed, facts, rate>>
    /\ Storable(d) /\ ~Divided(d)
    /\ snap'[d] = Fresh(Report(d))

\* Or the step left its snapshot and its valuation alone.
LeftAlone(d) ==
    /\ Undisturbed(d)
    /\ snap'[d] = snap[d] /\ d \notin gapped
    /\ ~Divided(d)'

\* A step that leaves a date's valuation and the markers alone does not change whether a marker divides it.
LEMMA DividedSame ==
    ASSUME TypeOK, NEW d \in Days, Undisturbed(d), UNCHANGED before
    PROVE  Divided(d)' <=> Divided(d)
<1>1. HeldOn(d)' = HeldOn(d)
  BY DEF HeldOn, Undisturbed
<1>2. ASSUME NEW l \in HeldOn(d) PROVE MarkerInGap(l, d)' <=> MarkerInGap(l, d)
  <2>1. ValuationDay(l, d)' = ValuationDay(l, d)
    BY DEF HeldOn, Undisturbed, ListingKept
  <2> QED
    BY <2>1 DEF MarkerInGap
<1> QED
  BY <1>1, <1>2 DEF Divided

\* A date fresh and undivided after a step that writes a fact was so before it,
\* and its valuation stands.
LEMMA FactWriteLeaves ==
    ASSUME TypeOK, GapsKnown, FactWrite, NEW d \in Days,
           snap'[d].state = "fresh", d \notin gapped'
    PROVE  LeftAlone(d)
<1>0. ASSUME UNCHANGED before, snap'[d] = snap[d], d \notin gapped, Undisturbed(d)
      PROVE  LeftAlone(d)
  BY <1>0, DividedSame DEF LeftAlone, GapsKnown
<1>1. ASSUME NEW l \in Listings, NEW k \in Days, NEW p,
             price' = [price EXCEPT ![l][k] = p], PriceTrigger(l, k, p),
             UNCHANGED <<holidays, held, before, from, rate>>
      PROVE  LeftAlone(d)
  <2>1. CASE Revised(price[l][k], p)
    <3>1. snap' = Staled(k .. MaxDay) /\ gapped' = gapped
      BY <1>1, <2>1 DEF PriceTrigger, StaleFrom
    <3>2. d \notin k .. MaxDay /\ snap'[d] = snap[d]
      BY <3>1, StaledFacts
    <3>3. d < k
      BY <3>2, DayFacts
    <3>4. Undisturbed(d)
      BY <1>1, <3>3, PriceWriteKeeps
    <3> QED
      BY <1>0, <1>1, <3>1, <3>2, <3>4
  <2>2. CASE ~Revised(price[l][k], p)
    <3>1. Undisturbed(d)
      BY <1>1, <2>2, PriceWriteKeeps
    <3>2. UNCHANGED stored
      BY <1>1, <2>2 DEF PriceTrigger
    <3> QED
      BY <1>0, <1>1, <3>1, <3>2 DEF stored
  <2> QED
    BY <2>1, <2>2
<1>2. ASSUME NEW l \in Listings, NEW k \in Days,
             \/ CollectPrice(l, k) \/ DeletePrice(l, k)
             \/ \E p \in Figures \cup {Error} : RevisePrice(l, k, p)
      PROVE  LeftAlone(d)
  <2>1. CASE DeletePrice(l, k)
    BY <1>1, <2>1 DEF DeletePrice, PriceTrigger
  <2>2. ASSUME NEW p, StorePrice(l, k, p) PROVE LeftAlone(d)
    BY <1>1, <2>2 DEF StorePrice, PriceTrigger
  <2> QED
    BY <1>2, <2>1, <2>2 DEF CollectPrice, RevisePrice
<1>3. ASSUME NEW k \in Days, StaleFrom(k)
      PROVE  d < k /\ snap'[d] = snap[d] /\ d \notin gapped
  <2>1. snap' = Staled(k .. MaxDay) /\ gapped' = gapped
    BY <1>3 DEF StaleFrom
  <2>2. d \notin k .. MaxDay /\ snap'[d] = snap[d]
    BY <2>1, StaledFacts
  <2> QED
    BY <2>1, <2>2, DayFacts
<1>4. ASSUME NEW l \in Listings, NEW b \in MarkerDates \cup {NoDay},
             NEW fr \in MarkerDates \cup {NoDay}, SetMarkers(l, b, fr)
      PROVE  LeftAlone(d)
  <2>1. snap' = Staled(MarkerDays(l, b, fr))
    BY <1>4 DEF SetMarkers
  <2>2. d \notin MarkerDays(l, b, fr) /\ snap'[d] = snap[d]
    BY <2>1, StaledFacts
  <2>3. d \notin gapped /\ ~Divided(d)'
    BY <1>4 DEF SetMarkers
  <2>4. ~Divided(d)
    BY <2>2, <2>3 DEF GapsKnown
  <2>5. b \in Days \cup {NoDay} /\ fr \in Days \cup {NoDay}
    BY ConstantsAssumption
  <2>6. Undisturbed(d)
    BY <1>4, <2>2, <2>3, <2>4, <2>5, MarkersKeep DEF SetMarkers
  <2> QED
    BY <2>2, <2>3, <2>6 DEF LeftAlone
<1>5. ASSUME NEW l \in Listings, NEW k \in HolidayDates, EditHoliday(l, k)
      PROVE  LeftAlone(d)
  <2>1. k \in Days
    BY ConstantsAssumption
  <2>2. d < k /\ snap'[d] = snap[d] /\ d \notin gapped
    BY <1>3, <1>5, <2>1 DEF EditHoliday
  <2>3. Undisturbed(d)
    BY <1>5, <2>1, <2>2, HolidayKeeps DEF EditHoliday
  <2> QED
    BY <1>0, <1>5, <2>2, <2>3 DEF EditHoliday
<1>6. ASSUME NEW l \in Listings, NEW k \in Days, NEW days \in SUBSET Days,
             RecordTrade(l, k, days)
      PROVE  LeftAlone(d)
  <2>2. d < k /\ snap'[d] = snap[d] /\ d \notin gapped
    BY <1>3, <1>6 DEF RecordTrade
  <2>3. Undisturbed(d)
    BY <1>6, <2>2, TradeKeeps DEF RecordTrade
  <2> QED
    BY <1>0, <1>6, <2>2, <2>3 DEF RecordTrade
<1>7. ASSUME NEW i \in Importers, NEW m \in Months, ImportRate(i, m, FirstFigure)
      PROVE  LeftAlone(d)
  <2>1. Undisturbed(d)
    BY <1>7, RateWriteKeeps, FirstFigureTyped DEF ImportRate
  <2>2. snap'[d] = snap[d] /\ d \notin gapped /\ UNCHANGED before
    BY <1>7 DEF ImportRate, stored, facts
  <2> QED
    BY <1>0, <2>1, <2>2
<1>8. ASSUME NEW m \in Months, NEW f \in Figures, CorrectRate(m, f)
      PROVE  LeftAlone(d)
  <2>1. snap' = Staled(FirstDay(m) .. MaxDay) /\ gapped' = gapped
    BY <1>8 DEF CorrectRate, StaleFrom
  <2>2. d \notin FirstDay(m) .. MaxDay /\ snap'[d] = snap[d]
    BY <2>1, StaledFacts
  <2>3. d < FirstDay(m)
    <3>1. FirstDay(m) \in Int
      <4>1. m - 1 \in Int /\ MonthLength \in Int
        BY Numbers, ConstantsAssumption
      <4> QED
        BY <4>1 DEF FirstDay
    <3>2. d \in Int /\ MaxDay \in Int /\ d <= MaxDay
      BY DayFacts
    <3>3. PICK f1 \in Int : f1 = FirstDay(m)
      BY <3>1
    <3>4. d \notin f1 .. MaxDay
      BY <2>2, <3>3
    <3>5. d < f1
      BY <3>2, <3>4
    <3> QED
      BY <3>3, <3>5
  <2>4. Undisturbed(d)
    BY <1>8, <2>3, RateWriteKeeps DEF CorrectRate
  <2> QED
    BY <1>0, <1>8, <2>1, <2>2, <2>4 DEF CorrectRate, facts
<1> QED
  BY <1>2, <1>4, <1>5, <1>6, <1>7, <1>8 DEF FactWrite

\* Every step.
LEMMA StepStands ==
    ASSUME TypeOK, RunsBehind, GapsKnown, [Next]_vars, NEW d \in Days,
           snap'[d].state = "fresh", d \notin gapped'
    PROVE  Regenerated(d) \/ LeftAlone(d)
<1>1. ASSUME UNCHANGED <<facts, rate>>, snap'[d] = snap[d], d \notin gapped
      PROVE  LeftAlone(d)
  <2>1. Undisturbed(d) /\ UNCHANGED before
    BY <1>1, NoWriteKeeps DEF facts
  <2>2. ~Divided(d)
    BY <1>1 DEF GapsKnown
  <2> QED
    BY <1>1, <2>1, <2>2, DividedSame DEF LeftAlone
<1>2. CASE Generation
  <2>1. UNCHANGED <<closed, facts, rate>> /\ (UNCHANGED stored \/ Generates)
    BY <1>2, GenerationShape
  <2>2. CASE UNCHANGED stored
    BY <1>1, <2>1, <2>2 DEF stored
  <2>3. CASE Generates
    <3>1. PICK k \in Days : Storable(k) /\ Store(k)
      BY <2>3 DEF Generates
    <3>2. CASE d = k
      <4>1. ~Divided(d)
        BY <3>1, <3>2 DEF Store
      <4>2. snap'[d] = Fresh(Report(d))
        BY <3>1, <3>2 DEF Store, TypeOK
      <4> QED
        BY <2>1, <3>1, <3>2, <4>1, <4>2 DEF Regenerated
    <3>3. CASE d # k
      <4>1. snap'[d] = snap[d] /\ d \notin gapped
        BY <3>1, <3>3 DEF Store, TypeOK
      <4> QED
        BY <1>1, <2>1, <4>1
    <3> QED
      BY <3>2, <3>3
  <2> QED
    BY <2>1, <2>2, <2>3
<1>3. CASE FactWrite
  BY <1>3, FactWriteLeaves
<1>4. CASE UNCHANGED vars \/ \E l \in Listings : Close(l)
  <2>1. UNCHANGED <<facts, rate, stored>>
    BY <1>4 DEF vars, Close
  <2> QED
    BY <1>1, <2>1 DEF stored
<1> QED
  BY <1>2, <1>3, <1>4 DEF Next

-----------------------------------------------------------------------------
(* A fresh snapshot is what generate would store now. *)

\* The closes only advance.
LEMMA ClosesAdvance ==
    ASSUME TypeOK, [Next]_vars, NEW l \in Listings
    PROVE  closed[l] <= closed'[l] /\ closed[l] \in Int /\ closed'[l] \in Int
<1>1. \A j \in Listings : closed[j] \in Int
  <2>1. \A j \in Listings : closed[j] \in Days
    BY DEF TypeOK
  <2> QED
    BY <2>1, Numbers
<1>2. CASE closed' = closed
  BY <1>1, <1>2
<1>3. ASSUME NEW j \in Listings, Close(j)
      PROVE  closed[l] <= closed'[l] /\ closed'[l] \in Int
  <2>1. closed' = [closed EXCEPT ![j] = closed[j] + 1]
    BY <1>3 DEF Close
  <2>2. closed'[l] = IF l = j THEN closed[l] + 1 ELSE closed[l]
    BY <2>1 DEF TypeOK
  <2> QED
    BY <1>1, <2>2
<1>4. CASE Generation \/ FactWrite
  <2>1. closed' = closed
    BY <1>4 DEF Generation, StartJob, RegenerateAll, RegenerateProvisional, TrueUp,
       ImportFails, GenerateNext, GenerateFails, GenerateOne, Kill, Start, FactWrite,
       CollectPrice, DeletePrice, RevisePrice, StorePrice, SetMarkers, EditHoliday,
       RecordTrade, ImportRate, CorrectRate, Between
  <2> QED
    BY <1>2, <2>1
<1> QED
  BY <1>1, <1>2, <1>3, <1>4 DEF Next, vars

\* What each step does to the runs under way.
LEMMA RunShape ==
    ASSUME TypeOK, [Next]_vars, NEW r \in Runners
    PROVE  \/ run'[r] = Idle
           \/ run'[r].now = run[r].now /\ run'[r].todo \subseteq run[r].todo
           \/ run'[r].now = closed /\ closed' = closed
<1>0. run[r] \in Runs
  BY DEF TypeOK, Runs
<1>1. ASSUME UNCHANGED run
      PROVE  run'[r].now = run[r].now /\ run'[r].todo \subseteq run[r].todo
  BY <1>1
<1>2. ASSUME NEW q \in Runners, NEW dates, Start(q, dates)
      PROVE  \/ run'[r].now = run[r].now /\ run'[r].todo \subseteq run[r].todo
             \/ run'[r].now = closed /\ closed' = closed
  <2>1. CASE q = r
    <3>1. run'[r] = [todo |-> dates, now |-> closed] /\ closed' = closed
      BY <1>2, <2>1 DEF Start, TypeOK
    <3> QED
      BY <3>1
  <2>2. CASE q # r
    <3>1. run'[r] = run[r]
      BY <1>2, <2>2 DEF Start, TypeOK
    <3> QED
      BY <3>1
  <2> QED
    BY <2>1, <2>2
<1>3. ASSUME NEW q \in Runners, NEW todo \in SUBSET run[q].todo, Proceed(q, todo)
      PROVE  \/ run'[r] = Idle
             \/ run'[r].now = run[r].now /\ run'[r].todo \subseteq run[r].todo
  <2>1. todo \in SUBSET Days
    BY <1>3 DEF TypeOK
  <2>2. CASE q = r
    <3>1. CASE todo = {}
      BY <1>3, <2>1, <2>2, <3>1, ProceedTyped
    <3>2. CASE todo # {}
      BY <1>3, <2>1, <2>2, <3>2, ProceedTyped
    <3> QED
      BY <3>1, <3>2
  <2>3. CASE q # r
    <3>1. run'[r] = run[r]
      BY <1>3, <2>1, <2>3, ProceedTyped
    <3> QED
      BY <3>1
  <2> QED
    BY <2>2, <2>3
<1>4. CASE Generation
  <2>1. CASE StartJob
    BY <1>2, <2>1, RunnersAre DEF StartJob
  <2>2. ASSUME NEW h \in Handlers, NEW a \in Days, NEW b \in Days, RegenerateAll(h, a, b)
        PROVE  \/ run'[r].now = run[r].now /\ run'[r].todo \subseteq run[r].todo
               \/ run'[r].now = closed /\ closed' = closed
    BY <1>2, <2>2, RunnersAre DEF RegenerateAll
  <2>3. ASSUME NEW h \in Handlers, RegenerateProvisional(h)
        PROVE  \/ run'[r].now = run[r].now /\ run'[r].todo \subseteq run[r].todo
               \/ run'[r].now = closed /\ closed' = closed
    BY <1>2, <2>3, RunnersAre DEF RegenerateProvisional
  <2>4. ASSUME NEW i \in Importers, TrueUp(i)
        PROVE  \/ run'[r].now = run[r].now /\ run'[r].todo \subseteq run[r].todo
               \/ run'[r].now = closed /\ closed' = closed
    BY <1>1, <1>2, <2>4, RunnersAre DEF TrueUp
  <2>5. ASSUME NEW q \in Runners, GenerateNext(q) \/ GenerateFails(q)
        PROVE  \/ run'[r] = Idle
               \/ run'[r].now = run[r].now /\ run'[r].todo \subseteq run[r].todo
    <3>1. PICK todo \in SUBSET run[q].todo : Proceed(q, todo)
      BY <2>5 DEF GenerateNext, GenerateFails
    <3> QED
      BY <1>3, <3>1
  <2>6. CASE Kill
    BY <2>6 DEF Kill
  <2>7. CASE (\E i \in Importers : ImportFails(i)) \/ (\E d \in Days : GenerateOne(d))
    BY <1>1, <2>7 DEF ImportFails, GenerateOne
  <2> QED
    BY <1>4, <2>1, <2>2, <2>3, <2>4, <2>5, <2>6, <2>7 DEF Generation
<1>5. CASE FactWrite \/ UNCHANGED vars \/ \E l \in Listings : Close(l)
  <2>1. UNCHANGED run
    BY <1>5 DEF FactWrite, CollectPrice, DeletePrice, RevisePrice, StorePrice,
       SetMarkers, EditHoliday, RecordTrade, ImportRate, CorrectRate, Between, vars, Close
  <2> QED
    BY <1>1, <2>1
<1> QED
  BY <1>4, <1>5 DEF Next

\* No run's clock gets ahead of the markets' last closed days.
LEMMA RunsStayBehind ==
    ASSUME TypeOK, RunsBehind, [Next]_vars
    PROVE  RunsBehind'
<1> SUFFICES ASSUME NEW r \in Runners, NEW l \in Listings
             PROVE  run'[r].now[l] <= closed'[l]
  BY DEF RunsBehind
<1>1. closed[l] <= closed'[l] /\ closed[l] \in Int /\ closed'[l] \in Int
  BY ClosesAdvance
<1>2. CASE run'[r] = Idle
  <2>1. run'[r].now[l] = NoDay
    BY <1>2 DEF Idle
  <2>2. TypeOK'
    BY NextTyped
  <2>3. closed'[l] \in Days
    BY <2>2 DEF TypeOK
  <2>4. closed'[l] >= 0 /\ NoDay = 0
    <3>1. \A k \in Days : k >= 0
      BY DayFacts
    <3> QED
      BY <2>3, <3>1 DEF NoDay
  <2> QED
    BY <1>1, <2>1, <2>4
<1>3. CASE run'[r].now = run[r].now
  <2>1. run[r].now[l] \in Days \cup {NoDay}
    BY DEF TypeOK
  <2>2. run[r].now[l] \in Int
    BY <2>1, Numbers
  <2>3. run[r].now[l] <= closed[l]
    BY DEF RunsBehind
  <2> QED
    BY <1>1, <1>3, <2>2, <2>3
<1>4. CASE run'[r].now = closed
  BY <1>1, <1>4
<1> QED
  BY <1>2, <1>3, <1>4, RunShape

\* What can be stored against a clock can be against a later one.
LaterClocks ==
    TypeOK => \A d \in Days, a, b \in Clocks :
                  (Generable(d, a) /\ \A l \in Listings : a[l] <= b[l]) => Generable(d, b)

\* A date whose report can be generated at one clock can be at any later one.
LEMMA LaterClock == LaterClocks
<1> SUFFICES ASSUME TypeOK, NEW d \in Days, NEW a \in Clocks, NEW b \in Clocks,
                    Generable(d, a), \A l \in Listings : a[l] <= b[l]
             PROVE  Generable(d, b)
  BY DEF LaterClocks
<1>1. ASSUME NEW l \in HeldOn(d) PROVE ~IsBlocked(l, d, b)
  <2>1. l \in Listings /\ ~IsBlocked(l, d, a) /\ a[l] <= b[l]
    BY DEF HeldOn, Generable
  <2>2. PICK v \in Days : v = ValuationDay(l, d)
    BY GenerableFacts
  <2>3. v \in Int /\ a[l] \in Int /\ b[l] \in Int
    BY <2>1, <2>2, Numbers DEF Clocks
  <2>4. v > b[l] => v > a[l]
    BY <2>1, <2>3
  <2> QED
    BY <2>1, <2>2, <2>4 DEF IsBlocked
<1> QED
  BY <1>1 DEF Generable

\* The same of the next state.
LEMMA LaterClockNext == LaterClocks'
BY LaterClock, PTL

\* The date of a snapshot left alone can be stored against any clock that is
\* not ahead, if it could be against an earlier one.
LEMMA StaysStorable ==
    ASSUME TypeOK, TypeOK', NEW d \in Days, Undisturbed(d), NEW a \in Clocks,
           Generable(d, a), \A l \in Listings : a[l] <= closed'[l]
    PROVE  Generable(d, closed)'
<1>1. PICK b : b = closed'
  OBVIOUS
<1>2. b \in Clocks /\ \A l \in Listings : a[l] <= b[l]
  BY <1>1 DEF TypeOK, Clocks
<1>3. Generable(d, a)'
  BY StaysGenerable
<1>4. Generable(d, b)'
  BY <1>2, <1>3, LaterClockNext DEF LaterClocks
<1> QED
  BY <1>1, <1>4 DEF Generable, IsBlocked

\* A line of a fresh, undivided snapshot is true after every step.
LEMMA FreshStaysTrue ==
    ASSUME TypeOK, RunsBehind, GapsKnown, FreshIsTrue, [Next]_vars
    PROVE  FreshIsTrue'
<1>0. TypeOK'
  BY NextTyped
<1> SUFFICES ASSUME NEW d \in Days, snap'[d].state = "fresh", d \notin gapped'
             PROVE  /\ Generable(d, closed)'
                    /\ \A l \in Listings :
                          StillTrue(snap'[d].report[l], (Report(d)[l])')
  BY DEF FreshIsTrue
<1>1. CASE Regenerated(d)
  <2>1. Undisturbed(d)
    BY <1>1, NoWriteKeeps DEF Regenerated
  <2>2. PICK a \in Clocks : Generable(d, a) /\ \A l \in Listings : a[l] <= closed[l]
    BY <1>1 DEF Regenerated, Storable
  <2>3. Generable(d, closed)'
    BY <1>0, <1>1, <2>1, <2>2, StaysStorable DEF Regenerated
  <2>4. \A l \in Listings : StillTrue(Report(d)[l], (Report(d)[l])')
    BY <1>0, <2>1, <2>2, LinesStay
  <2>5. snap'[d].report = Report(d)
    BY <1>1 DEF Regenerated, Fresh
  <2> QED
    BY <2>3, <2>4, <2>5
<1>2. CASE LeftAlone(d)
  <2>1. snap[d].state = "fresh" /\ d \notin gapped /\ snap'[d] = snap[d] /\ Undisturbed(d)
    BY <1>2 DEF LeftAlone
  <2>2. PICK a : a = closed
    OBVIOUS
  <2>3. Generable(d, a) /\ a \in Clocks /\ \A l \in Listings : a[l] <= closed'[l]
    BY <2>1, <2>2, ClosesAdvance DEF FreshIsTrue, TypeOK, Clocks
  <2>4. Generable(d, closed)'
    BY <1>0, <2>1, <2>3, StaysStorable
  <2>5. ASSUME NEW l \in Listings
        PROVE  StillTrue(snap[d].report[l], (Report(d)[l])')
    <3>1. StillTrue(snap[d].report[l], Report(d)[l])
      BY <2>1 DEF FreshIsTrue
    <3>2. StillTrue(Report(d)[l], (Report(d)[l])')
      BY <1>0, <2>1, <2>3, LinesStay
    <3>3. PICK x : x = snap[d].report[l]
      OBVIOUS
    <3>4. PICK y : y = Report(d)[l]
      OBVIOUS
    <3>5. PICK z : z = (Report(d)[l])'
      OBVIOUS
    <3>6. StillTrue(x, y) /\ StillTrue(y, z)
      BY <3>1, <3>2, <3>3, <3>4, <3>5
    <3>7. StillTrue(x, z)
      BY <3>6, StillTrueChain
    <3> QED
      BY <3>3, <3>5, <3>7
  <2> QED
    BY <2>1, <2>4, <2>5
<1> QED
  BY <1>0, <1>1, <1>2, StepStands

\* The inductive invariant.
FreshInv == TypeOK /\ RunsBehind /\ GapsKnown /\ FreshIsTrue

\* An empty snapshot table satisfies the invariant.
LEMMA InitFreshInv == Init => FreshInv
<1> SUFFICES ASSUME Init PROVE FreshInv
  OBVIOUS
<1>1. TypeOK
  <2>1. 1 \in Days
    BY DayFacts DEF Days
  <2>2. run \in [Runners -> Runs] /\ snap \in [Days -> Snaps]
    BY IdleTyped DEF Init
  <2>3. held \in [Listings -> SUBSET Days]
    BY DEF Init
  <2>4. edits \in 0 .. MaxEdits
    BY ConstantsAssumption DEF Init
  <2> QED
    BY <2>1, <2>2, <2>3, <2>4 DEF Init, TypeOK, Runs
<1>2. RunsBehind
  <2>1. 0 <= 1
    OBVIOUS
  <2> QED
    BY <2>1 DEF Init, RunsBehind, Idle, NoDay
<1>3. \A d \in Days : snap[d].state = "none"
  BY DEF Init, NoSnap
<1> QED
  BY <1>1, <1>2, <1>3 DEF FreshInv, GapsKnown, FreshIsTrue

\* Every step keeps the invariant.
LEMMA NextFreshInv == FreshInv /\ [Next]_vars => FreshInv'
<1> SUFFICES ASSUME FreshInv, [Next]_vars PROVE FreshInv'
  OBVIOUS
<1> USE DEF FreshInv
<1>1. ASSUME NEW d \in Days, snap'[d].state = "fresh", d \notin gapped'
      PROVE  ~Divided(d)'
  <2>1. CASE Regenerated(d)
    <3>1. Undisturbed(d) /\ UNCHANGED before
      BY <2>1, NoWriteKeeps DEF Regenerated, facts
    <3> QED
      BY <2>1, <3>1, DividedSame DEF Regenerated
  <2>2. CASE LeftAlone(d)
    BY <2>2 DEF LeftAlone
  <2> QED
    BY <1>1, <2>1, <2>2, StepStands
<1>2. GapsKnown'
  BY <1>1 DEF GapsKnown
<1> QED
  BY <1>2, NextTyped, RunsStayBehind, FreshStaysTrue

\* A snapshot that is not marked stale is what generate would store now: the
\* triggers of the migrations miss no write that changes what it says, in any
\* interleaving of the job, the true-ups, the requests and the edits.
THEOREM FreshAlwaysTrue == Spec => []FreshIsTrue
<1>1. FreshInv => FreshIsTrue
  BY DEF FreshInv
<1> QED
  BY <1>1, InitFreshInv, NextFreshInv, PTL DEF Spec

-----------------------------------------------------------------------------
(* No interim rate is forgotten. *)

\* Where no month gains or loses its rate, a report stays final or provisional.
LEMMA ProvisionalSame ==
    ASSUME TypeOK, TypeOK', NEW d \in Days, NEW now, Generable(d, now), Undisturbed(d),
           \A m \in Months : (rate'[m] = None) <=> (rate[m] = None)
    PROVE  IsProvisional(Report(d))' <=> IsProvisional(Report(d))
<1>0. Generable(d, now)'
  BY StaysGenerable
<1>1. ASSUME NEW l \in Listings
      PROVE  (Report(d)[l].provisional)' <=> Report(d)[l].provisional
  <2>1. (l \in HeldOn(d)') <=> (l \in HeldOn(d))
    BY DEF HeldOn, Undisturbed
  <2>2. CASE l \notin HeldOn(d)
    <3>1. Report(d)[l] = Absent /\ (Report(d)[l])' = Absent
      BY <2>1, <2>2 DEF Report
    <3> QED
      BY <3>1 DEF Absent
  <2>3. CASE l \in HeldOn(d) /\ IsExcluded(l, d)
    <3>1. IsExcluded(l, d)'
      BY <2>3 DEF Undisturbed, ListingKept, HeldOn
    <3>2. Report(d)[l] = Excluded /\ (Report(d)[l])' = Excluded
      BY <2>1, <2>3, <3>1 DEF Report
    <3> QED
      BY <3>2 DEF Excluded, Absent
  <2>4. CASE l \in HeldOn(d) /\ ~IsExcluded(l, d)
    <3>1. PICK v \in Days : v = ValuationDay(l, d)
      BY <2>4, GenerableFacts
    <3>2. PriceDays(l, v) # {} /\ RateMonths(v) # {}
      BY <2>4, <3>1, GenerableFacts
    <3>3. d \in held[l] /\ d \in held'[l] /\ ListingKept(l, d)
      BY <2>4 DEF Undisturbed, HeldOn
    <3>4. PriceKept(l, v) /\ RateKept(v)
      BY <2>4, <3>1, <3>3 DEF ListingKept
    <3>5. IsValuedAt(l, d, v)
      BY <2>4, <3>1, <3>2, <3>3 DEF IsValuedAt
    <3>6. IsValuedAt(l, d, v)'
      <4>1. ValuationDay(l, d)' = v /\ ~IsExcluded(l, d)'
        BY <2>4, <3>1, <3>3 DEF ListingKept
      <4>2. PriceDays(l, v)' # {} /\ RateMonths(v)' # {}
        BY <3>2, <3>4 DEF PriceKept, RateKept
      <4> QED
        BY <3>3, <4>1, <4>2 DEF IsValuedAt
    <3>7. Says(l, d, v)
      BY <3>5, ReportLines DEF ReportsSay
    <3>8. Says(l, d, v)'
      BY <3>6, ReportLinesNext DEF ReportsSay
    <3>9. Month(v) \in Months
      BY MonthFacts
    <3> QED
      BY <3>7, <3>8, <3>9 DEF Says
  <2> QED
    BY <2>2, <2>3, <2>4
<1> QED
  BY <1>1 DEF IsProvisional

\* A fresh provisional snapshot that the rates there are would make final.
Overdue(d) ==
    /\ snap[d].state = "fresh" /\ d \notin gapped
    /\ IsProvisional(snap[d].report) /\ ~IsProvisional(Report(d))

\* A true-up has the date yet to do, and nothing will block it.
DueIn(i, d) == d \in run[i].todo /\ Generable(d, run[i].now)

PendingInv ==
    ~cut => \A d \in Days : Overdue(d) => importing # {} \/ \E i \in Importers : DueIn(i, d)

\* The step stores the date, or may as well have.
StoresNow(d) == Store(d) /\ UNCHANGED <<facts, rate>>

\* A true-up loses a date only by storing it or being cut short.
LEMMA TrueUpStep ==
    ASSUME TypeOK, [Next]_vars, ~cut', NEW i \in Importers, NEW d \in Days, DueIn(i, d)
    PROVE  \/ run'[i].now = run[i].now /\ d \in run'[i].todo
           \/ StoresNow(d)
<1>0. i \in Runners /\ i # Job /\ run[i] # Idle
  BY RunnersAre DEF DueIn, Idle
<1>1. CASE UNCHANGED run
  BY <1>1 DEF DueIn
<1>2. ASSUME NEW q \in Runners, NEW dates, Start(q, dates)
      PROVE  run'[i].now = run[i].now /\ d \in run'[i].todo
  <2>1. q # i
    BY <1>0, <1>2 DEF Start
  <2>2. run'[i] = run[i]
    BY <1>0, <1>2, <2>1 DEF Start, TypeOK
  <2> QED
    BY <2>2 DEF DueIn
<1>3. ASSUME NEW q \in Runners, GenerateNext(q)
      PROVE  \/ run'[i].now = run[i].now /\ d \in run'[i].todo
             \/ StoresNow(d)
  <2>1. PICK k : k = Min(run[q].todo)
    OBVIOUS
  <2>2. Proceed(q, run[q].todo \ {k})
    BY <1>3, <2>1 DEF GenerateNext
  <2>3. run[q].todo \ {k} \in SUBSET Days
    BY DEF TypeOK
  <2>4. CASE q # i
    <3>1. run'[i] = run[i]
      BY <1>0, <2>2, <2>3, <2>4, ProceedTyped
    <3> QED
      BY <3>1 DEF DueIn
  <2>5. CASE q = i /\ k # d
    <3>1. d \in run[q].todo \ {k}
      BY <2>5 DEF DueIn
    <3>2. run'[q].todo = run[q].todo \ {k} /\ run'[q].now = run[q].now
      BY <2>2, <2>3, <3>1, ProceedTyped
    <3> QED
      BY <2>5, <3>1, <3>2
  <2>6. CASE q = i /\ k = d
    <3>1. Store(d)
      BY <1>3, <2>1, <2>6 DEF GenerateNext, DueIn
    <3> QED
      BY <1>3, <3>1 DEF GenerateNext, StoresNow
  <2> QED
    BY <2>4, <2>5, <2>6
<1>4. ASSUME NEW q \in Runners, GenerateFails(q)
      PROVE  run'[i].now = run[i].now /\ d \in run'[i].todo
  <2>1. q # i
    BY <1>4 DEF GenerateFails
  <2>2. PICK todo \in SUBSET Days : Proceed(q, todo)
    <3>1. run[q].todo \subseteq Days
      BY DEF TypeOK
    <3> QED
      BY <1>4, <3>1 DEF GenerateFails
  <2>3. run'[i] = run[i]
    BY <1>0, <2>1, <2>2, ProceedTyped
  <2> QED
    BY <2>3 DEF DueIn
<1>5. CASE Generation
  <2>1. CASE StartJob
    BY <1>2, <2>1, RunnersAre DEF StartJob
  <2>2. CASE \E h \in Handlers, a, b \in Days : RegenerateAll(h, a, b)
    BY <1>2, <2>2, RunnersAre DEF RegenerateAll
  <2>3. CASE \E h \in Handlers : RegenerateProvisional(h)
    BY <1>2, <2>3, RunnersAre DEF RegenerateProvisional
  <2>4. CASE \E j \in Importers : TrueUp(j)
    BY <1>1, <1>2, <2>4, RunnersAre DEF TrueUp
  <2>5. CASE (\E j \in Importers : ImportFails(j)) \/ (\E k \in Days : GenerateOne(k))
    BY <1>1, <2>5 DEF ImportFails, GenerateOne
  <2>6. CASE Kill
    BY <1>0, <2>6 DEF Kill
  <2> QED
    BY <1>3, <1>4, <1>5, <2>1, <2>2, <2>3, <2>4, <2>5, <2>6 DEF Generation
<1>6. CASE FactWrite \/ UNCHANGED vars \/ \E l \in Listings : Close(l)
  <2>1. UNCHANGED run
    BY <1>6 DEF FactWrite, CollectPrice, DeletePrice, RevisePrice, StorePrice,
       SetMarkers, EditHoliday, RecordTrade, ImportRate, CorrectRate, Between, vars, Close
  <2> QED
    BY <1>1, <2>1
<1> QED
  BY <1>5, <1>6 DEF Next

\* An import that inserted a rate ends in its true-up or is cut short.
LEMMA ImportStep ==
    ASSUME TypeOK, [Next]_vars, ~cut', importing # {}
    PROVE  importing' # {} \/ \E i \in Importers : TrueUp(i)
<1>1. CASE Generation
  <2>1. CASE \/ StartJob
             \/ \E h \in Handlers, a, b \in Days : RegenerateAll(h, a, b)
             \/ \E h \in Handlers : RegenerateProvisional(h)
             \/ \E r \in Runners : GenerateNext(r) \/ GenerateFails(r)
             \/ \E d \in Days : GenerateOne(d)
    BY <2>1 DEF StartJob, RegenerateAll, RegenerateProvisional, GenerateNext,
                GenerateFails, GenerateOne
  <2>2. CASE Kill \/ \E i \in Importers : ImportFails(i)
    BY <2>2 DEF Kill, ImportFails
  <2> QED
    BY <1>1, <2>1, <2>2 DEF Generation
<1>2. CASE FactWrite \/ UNCHANGED vars \/ \E l \in Listings : Close(l)
  BY <1>2 DEF FactWrite, CollectPrice, DeletePrice, RevisePrice, StorePrice,
       SetMarkers, EditHoliday, RecordTrade, ImportRate, CorrectRate, Between, vars, Close
<1> QED
  BY <1>1, <1>2 DEF Next

\* What was cut short stays so, and only an import gives a month a rate.
LEMMA CutStays ==
    ASSUME TypeOK, [Next]_vars
    PROVE  /\ ~cut' => ~cut
           /\ \/ importing' # {}
              \/ \A m \in Months : (rate'[m] = None) <=> (rate[m] = None)
<1>1. ASSUME NEW m \in Months, NEW f \in Figures, CorrectRate(m, f)
      PROVE  /\ UNCHANGED cut
             /\ \A j \in Months : (rate'[j] = None) <=> (rate[j] = None)
  <2>1. f # None
    BY ConstantsAssumption DEF None
  <2>2. rate[m] # None /\ rate' = [rate EXCEPT ![m] = f] /\ UNCHANGED cut
    BY <1>1 DEF CorrectRate, Between
  <2>3. \A j \in Months : rate'[j] = IF j = m THEN f ELSE rate[j]
    BY <2>2 DEF TypeOK
  <2> QED
    BY <2>1, <2>2, <2>3
<1>2. ASSUME NEW i \in Importers, NEW m \in Months, ImportRate(i, m, FirstFigure)
      PROVE  UNCHANGED cut /\ importing' # {}
  BY <1>2 DEF ImportRate
<1>3. CASE Generation
  <2>1. rate' = rate
    BY <1>3 DEF Generation, StartJob, RegenerateAll, RegenerateProvisional, TrueUp,
       ImportFails, GenerateNext, GenerateFails, GenerateOne, Kill, Start
  <2>2. cut \in BOOLEAN
    BY DEF TypeOK
  <2>3. cut => cut'
    BY <1>3, <2>2 DEF Generation, StartJob, RegenerateAll, RegenerateProvisional, TrueUp,
       ImportFails, GenerateNext, GenerateFails, GenerateOne, Kill, Start
  <2> QED
    BY <2>1, <2>3
<1>4. CASE \/ UNCHANGED vars \/ \E l \in Listings : Close(l)
           \/ \E l \in Listings, d \in Days : CollectPrice(l, d) \/ DeletePrice(l, d)
           \/ \E l \in Listings, d \in Days, p \in Figures \cup {Error} : RevisePrice(l, d, p)
           \/ \E l \in Listings, b, fr \in MarkerDates \cup {NoDay} : SetMarkers(l, b, fr)
           \/ \E l \in Listings, d \in HolidayDates : EditHoliday(l, d)
           \/ \E l \in Listings, d \in Days, days \in SUBSET Days : RecordTrade(l, d, days)
  BY <1>4 DEF CollectPrice, DeletePrice, RevisePrice, StorePrice,
       SetMarkers, EditHoliday, RecordTrade, Between, vars, Close
<1> QED
  BY <1>1, <1>2, <1>3, <1>4 DEF Next, FactWrite

\* A step that stores a date from what there is leaves nothing overdue in it.
LEMMA StoredNotOverdue ==
    ASSUME TypeOK, TypeOK', NEW d \in Days, NEW now, Generable(d, now),
           UNCHANGED <<facts, rate>>, snap'[d] = Fresh(Report(d))
    PROVE  ~Overdue(d)'
<1>1. Undisturbed(d)
  BY NoWriteKeeps
<1>2. \A m \in Months : (rate'[m] = None) <=> (rate[m] = None)
  OBVIOUS
<1>3. IsProvisional(Report(d))' <=> IsProvisional(Report(d))
  BY <1>1, <1>2, ProvisionalSame
<1>4. snap'[d].report = Report(d)
  BY DEF Fresh
<1>5. IsProvisional(snap[d].report)' <=> IsProvisional(Report(d))
  BY <1>4 DEF IsProvisional
<1> QED
  BY <1>3, <1>5 DEF Overdue

\* Every step keeps the interim rates pending their true-up.
LEMMA PendingStays ==
    ASSUME FreshInv, PendingInv, [Next]_vars
    PROVE  PendingInv'
<1>0. TypeOK /\ TypeOK' /\ FreshIsTrue /\ FreshInv'
  BY NextFreshInv DEF FreshInv
<1> SUFFICES ASSUME ~cut', NEW d \in Days, Overdue(d)', importing' = {}
             PROVE  \E i \in Importers : DueIn(i, d)'
  BY DEF PendingInv
<1>1. ~cut /\ \A m \in Months : (rate'[m] = None) <=> (rate[m] = None)
  BY <1>0, CutStays
<1>2. ~Regenerated(d)
  <2>1. ASSUME Regenerated(d) PROVE FALSE
    <3>1. PICK now \in Clocks : Generable(d, now)
      BY <2>1 DEF Regenerated, Storable
    <3> QED
      BY <1>0, <2>1, <3>1, StoredNotOverdue DEF Regenerated
  <2> QED
    BY <2>1
<1>3. LeftAlone(d)
  BY <1>2, StepStands DEF Overdue, FreshInv
<1>4. Undisturbed(d) /\ snap'[d] = snap[d] /\ d \notin gapped /\ snap[d].state = "fresh"
  BY <1>3 DEF LeftAlone, Overdue
<1>5. PICK c : c = closed
  OBVIOUS
<1>6. Generable(d, c)
  BY <1>0, <1>4, <1>5 DEF FreshIsTrue
<1>7. Overdue(d)
  <2>1. IsProvisional(Report(d))' <=> IsProvisional(Report(d))
    BY <1>0, <1>1, <1>4, <1>6, ProvisionalSame
  <2>2. IsProvisional(snap[d].report)' <=> IsProvisional(snap[d].report)
    BY <1>4 DEF IsProvisional
  <2> QED
    BY <1>4, <2>1, <2>2 DEF Overdue
<1>8. CASE importing # {}
  <2>1. PICK i \in Importers : TrueUp(i)
    BY <1>0, <1>8, ImportStep
  <2>2. d \in ProvisionalDates
    BY <1>7 DEF ProvisionalDates, Stored, Overdue
  <2>3. Start(i, ProvisionalDates)
    BY <2>1, <2>2 DEF TrueUp
  <2>4. run'[i] = [todo |-> ProvisionalDates, now |-> closed]
    BY <1>0, <2>3, RunnersAre DEF Start, TypeOK
  <2>5. Generable(d, c)'
    BY <1>0, <1>4, <1>6, StaysGenerable
  <2>6. d \in run'[i].todo /\ run'[i].now = c
    BY <1>5, <2>2, <2>4
  <2>7. DueIn(i, d)'
    BY <2>5, <2>6 DEF DueIn, Generable, IsBlocked
  <2> QED
    BY <2>7
<1>9. CASE importing = {}
  <2>1. PICK i \in Importers : DueIn(i, d)
    BY <1>1, <1>7, <1>9 DEF PendingInv
  <2>2. PICK now : now = run[i].now
    OBVIOUS
  <2>3. Generable(d, now)
    BY <2>1, <2>2 DEF DueIn
  <2>4. ~StoresNow(d)
    <3>1. ASSUME StoresNow(d) PROVE FALSE
      <4>1. snap'[d] = Fresh(Report(d))
        BY <1>0, <3>1 DEF StoresNow, Store, TypeOK
      <4> QED
        BY <1>0, <2>3, <3>1, <4>1, StoredNotOverdue DEF StoresNow
    <3> QED
      BY <3>1
  <2>5. run'[i].now = now /\ d \in run'[i].todo
    BY <1>0, <2>1, <2>2, <2>4, TrueUpStep
  <2>6. Generable(d, now)'
    BY <1>0, <1>4, <2>3, StaysGenerable
  <2>7. DueIn(i, d)'
    BY <2>5, <2>6 DEF DueIn, Generable, IsBlocked
  <2> QED
    BY <2>7
<1> QED
  BY <1>8, <1>9

\* No interim rate is forgotten: a fresh snapshot that the imported rates could
\* make final is with an import that is still to look for it, or with its
\* true-up, which nothing will block when it comes to the date.
THEOREM TrueUpsStayPending == Spec => []TrueUpPending
<1>1. Init => PendingInv
  BY DEF Init, PendingInv, Overdue, NoSnap
<1>2. PendingInv => TrueUpPending
  BY DEF PendingInv, TrueUpPending, Overdue, DueIn
<1>3. FreshInv /\ PendingInv /\ [Next]_vars => PendingInv'
  BY PendingStays
<1> QED
  BY <1>1, <1>2, <1>3, InitFreshInv, NextFreshInv, PTL DEF Spec

-----------------------------------------------------------------------------
(* One undisturbed run of the job repairs its window. *)

\* While no fact is written the same dates can be stored,
LEMMA GenerableSame ==
    ASSUME UNCHANGED <<facts, rate>>, NEW d, NEW now
    PROVE  Generable(d, now)' <=> Generable(d, now)
<1>1. HeldOn(d)' = HeldOn(d)
  BY DEF HeldOn, facts
<1>2. ASSUME NEW l
      PROVE  /\ IsBlocked(l, d, now)' <=> IsBlocked(l, d, now)
             /\ IsExcluded(l, d)' <=> IsExcluded(l, d)
  <2>1. PICK v : v = ValuationDay(l, d)
    OBVIOUS
  <2>2. TradingDays(l, d)' = TradingDays(l, d)
    BY DEF TradingDays, facts
  <2>3. ValuationDay(l, d)' = v
    BY <2>1, <2>2 DEF ValuationDay
  <2>4. IsExcluded(l, d)' <=> IsExcluded(l, d)
    BY <2>1, <2>3 DEF IsExcluded, facts
  <2>5. PriceDays(l, v)' = PriceDays(l, v)
    BY DEF PriceDays, Unpriced, facts
  <2>6. RateMonths(v)' = RateMonths(v)
    BY DEF RateMonths
  <2>7. IsBlocked(l, d, now) <=>
          \/ v = NoDay
          \/ ~IsExcluded(l, d) /\ (v > now[l] \/ PriceDays(l, v) = {} \/ RateMonths(v) = {})
    BY <2>1 DEF IsBlocked
  <2>8. IsBlocked(l, d, now)' <=>
          \/ v = NoDay
          \/ ~IsExcluded(l, d)' /\ (v > now[l] \/ PriceDays(l, v)' = {} \/ RateMonths(v)' = {})
    BY <2>3 DEF IsBlocked
  <2> QED
    BY <2>4, <2>5, <2>6, <2>7, <2>8
<1> QED
  BY <1>1, <1>2 DEF Generable

\* and the window ends on the same day.
LEMMA LatestSame ==
    ASSUME UNCHANGED <<closed, facts>>
    PROVE  LatestDate' = LatestDate
<1>1. HeldNow' = HeldNow
  BY DEF HeldNow, facts
<1>2. \A l, d : ValuationDay(l, d)' = ValuationDay(l, d)
  <2>1. \A l, d : TradingDays(l, d)' = TradingDays(l, d)
    BY DEF TradingDays, facts
  <2> QED
    BY <2>1 DEF ValuationDay
<1>3. \A l : LatestComplete(l)' = LatestComplete(l)
  <2>1. ASSUME NEW l PROVE LatestComplete(l)' = LatestComplete(l)
    <3>1. PICK c : c = closed[l]
      OBVIOUS
    <3>2. closed'[l] = c
      BY <3>1
    <3>3. LatestComplete(l) = ValuationDay(l, c)
      BY <3>1 DEF LatestComplete
    <3>4. LatestComplete(l)' = ValuationDay(l, c)'
      BY <3>2 DEF LatestComplete, ValuationDay, TradingDays
    <3> QED
      BY <1>2, <3>3, <3>4
  <2> QED
    BY <2>1
<1> QED
  BY <1>1, <1>2, <1>3 DEF LatestDate

Repaired(d) ==
    /\ snap[d].state = "fresh"
    /\ IsProvisional(snap[d].report) => IsProvisional(Report(d))

\* What an undisturbed run has to do: the dates of its window that it has yet to
\* come to, against the closes there are; the others are repaired.
JobInv ==
    alone => /\ run[Job].todo # {} => run[Job].now = closed
             /\ \A d \in run[Job].todo : InWindow(d)
             /\ \A d \in Days : (InWindow(d) /\ Generable(d, closed))
                                   => d \in run[Job].todo \/ Repaired(d)

\* Only the job's own steps leave it alone.
LEMMA AloneStep ==
    ASSUME TypeOK, [Next]_vars, alone'
    PROVE  StartJob \/ (alone /\ GenerateNext(Job)) \/ UNCHANGED vars
<1>1. ASSUME NEW r \in Runners, r # Job, NEW dates, Start(r, dates)
      PROVE  FALSE
  BY <1>1 DEF Start
<1>2. \A h \in Handlers : h \in Runners /\ h # Job
  BY RunnersAre, ConstantsAssumption
<1>3. CASE Generation
  <2>1. ASSUME NEW h \in Handlers, NEW a \in Days, NEW b \in Days, RegenerateAll(h, a, b)
        PROVE  FALSE
    BY <1>1, <1>2, <2>1 DEF RegenerateAll
  <2>2. ASSUME NEW h \in Handlers, RegenerateProvisional(h) PROVE FALSE
    BY <1>1, <1>2, <2>2 DEF RegenerateProvisional
  <2>3. ASSUME NEW i \in Importers, TrueUp(i) \/ ImportFails(i) PROVE FALSE
    BY <1>1, <2>3, RunnersAre DEF TrueUp, ImportFails
  <2>4. ASSUME NEW r \in Runners, GenerateNext(r) \/ GenerateFails(r)
        PROVE  alone /\ GenerateNext(Job)
    <3>1. GenerateNext(r) /\ alone /\ r = Job
      BY <2>4 DEF GenerateNext, GenerateFails
    <3> QED
      BY <3>1
  <2>5. ~Kill /\ \A d \in Days : ~GenerateOne(d)
    BY DEF Kill, GenerateOne
  <2> QED
    BY <1>3, <2>1, <2>2, <2>3, <2>4, <2>5 DEF Generation
<1>4. ~FactWrite /\ \A l \in Listings : ~Close(l)
  BY DEF FactWrite, CollectPrice, DeletePrice, RevisePrice, StorePrice, SetMarkers,
         EditHoliday, RecordTrade, ImportRate, CorrectRate, Between, Close
<1> QED
  BY <1>3, <1>4 DEF Next

\* A date that stays repaired while nothing but its own snapshot could change.
LEMMA RepairedStays ==
    ASSUME TypeOK, TypeOK', NEW d \in Days, NEW now, Generable(d, now),
           UNCHANGED <<facts, rate>>, Repaired(d), snap'[d] = snap[d]
    PROVE  Repaired(d)'
<1>1. Undisturbed(d)
  BY NoWriteKeeps
<1>2. \A m \in Months : (rate'[m] = None) <=> (rate[m] = None)
  OBVIOUS
<1>3. IsProvisional(Report(d))' <=> IsProvisional(Report(d))
  BY <1>1, <1>2, ProvisionalSame
<1>4. IsProvisional(snap[d].report)' <=> IsProvisional(snap[d].report)
  BY DEF IsProvisional
<1> QED
  BY <1>3, <1>4 DEF Repaired

\* A date that has just been stored is repaired.
LEMMA StoredIsRepaired ==
    ASSUME TypeOK, TypeOK', NEW d \in Days, NEW now, Generable(d, now),
           UNCHANGED <<facts, rate>>, snap'[d] = Fresh(Report(d))
    PROVE  Repaired(d)'
<1>1. Undisturbed(d)
  BY NoWriteKeeps
<1>2. \A m \in Months : (rate'[m] = None) <=> (rate[m] = None)
  OBVIOUS
<1>3. IsProvisional(Report(d))' <=> IsProvisional(Report(d))
  BY <1>1, <1>2, ProvisionalSame
<1>4. snap'[d].report = Report(d) /\ snap'[d].state = "fresh"
  BY DEF Fresh
<1>5. IsProvisional(snap[d].report)' <=> IsProvisional(Report(d))
  BY <1>4 DEF IsProvisional
<1> QED
  BY <1>3, <1>4, <1>5 DEF Repaired

\* Storing a date of the window changes no other date's place in it.
LEMMA WindowSame ==
    ASSUME TypeOK, TypeOK', UNCHANGED <<closed, facts>>, NEW k \in Days, InWindow(k),
           \A j \in Days : j # k => snap'[j] = snap[j],
           snap[k].state # "none" => snap'[k].state # "none",
           NEW d \in Days
    PROVE  /\ InWindow(d)' => InWindow(d)
           /\ d # k => (InWindow(d) => InWindow(d)')
<1>1. LatestDate' = LatestDate
  BY LatestSame
<1>2. Stored \subseteq Stored' /\ Stored' \subseteq Stored \cup {k}
  BY DEF Stored
<1>3. InWindow(d)' <=> /\ IF Stored' = {} THEN d = LatestDate ELSE \E j \in Stored' : j <= d
                       /\ d \in LatestDate - Lookback + 1 .. LatestDate
  BY <1>1 DEF InWindow
<1>4. k \in Int /\ d \in Int /\ \A j \in Stored : j \in Int
  BY Numbers DEF Stored
<1>5. CASE Stored = {}
  <2>1. k = LatestDate
    BY <1>5 DEF InWindow
  <2>2. ASSUME InWindow(d)' PROVE InWindow(d)
    <3>1. CASE Stored' = {}
      BY <1>3, <1>5, <2>2, <3>1 DEF InWindow
    <3>2. CASE Stored' # {}
      <4>1. Stored' = {k}
        BY <1>2, <1>5, <3>2
      <4>2. k <= d
        BY <1>3, <2>2, <3>2, <4>1
      <4>3. d \in k - Lookback + 1 .. k
        BY <1>3, <2>1, <2>2
      <4>4. d <= k
        BY <1>4, <4>3, ConstantsAssumption
      <4>5. d = k
        BY <1>4, <4>2, <4>4
      <4> QED
        BY <4>5
    <3> QED
      BY <3>1, <3>2
  <2>3. InWindow(d) => d = k
    BY <1>5, <2>1 DEF InWindow
  <2> QED
    BY <2>2, <2>3
<1>6. CASE Stored # {}
  <2>1. Stored' # {}
    BY <1>2, <1>6
  <2>2. PICK j \in Stored : j <= k
    BY <1>6 DEF InWindow
  <2>3. (\E i \in Stored' : i <= d) <=> (\E i \in Stored : i <= d)
    <3>1. ASSUME NEW i \in Stored', i <= d PROVE \E n \in Stored : n <= d
      <4>1. CASE i = k
        <5>1. j <= d
          BY <1>4, <2>2, <3>1, <4>1
        <5> QED
          BY <5>1
      <4>2. CASE i # k
        BY <1>2, <3>1, <4>2
      <4> QED
        BY <4>1, <4>2
    <3> QED
      BY <1>2, <3>1
  <2> QED
    BY <1>3, <1>6, <2>1, <2>3 DEF InWindow
<1> QED
  BY <1>5, <1>6

\* Every step keeps the dates an undisturbed job run has passed repaired.
LEMMA JobStays ==
    ASSUME TypeOK, JobInv, [Next]_vars
    PROVE  JobInv'
<1>0. TypeOK'
  BY NextTyped
<1> SUFFICES ASSUME alone'
             PROVE  /\ run'[Job].todo # {} => run'[Job].now = closed'
                    /\ \A d \in run'[Job].todo : InWindow(d)'
                    /\ \A d \in Days : (InWindow(d)' /\ Generable(d, closed)')
                                          => d \in run'[Job].todo \/ Repaired(d)'
  BY DEF JobInv
<1>1. PICK c : c = closed
  OBVIOUS
<1>2. ASSUME UNCHANGED <<closed, facts, rate>>, NEW d
      PROVE  Generable(d, closed)' <=> Generable(d, closed)
  <2>1. Generable(d, c)' <=> Generable(d, c)
    BY <1>2, GenerableSame
  <2>2. Generable(d, closed)' <=> Generable(d, c)'
    BY <1>1, <1>2 DEF Generable, IsBlocked
  <2> QED
    BY <1>1, <2>1, <2>2
<1>3. ASSUME UNCHANGED <<closed, facts, snap>>, NEW d
      PROVE  InWindow(d)' <=> InWindow(d)
  <2>1. LatestDate' = LatestDate
    BY <1>3, LatestSame
  <2>2. Stored' = Stored
    BY <1>3 DEF Stored
  <2> QED
    BY <2>1, <2>2 DEF InWindow
<1>4. ASSUME UNCHANGED <<facts, rate, snap>>, NEW d \in Days, Generable(d, closed), Repaired(d)
      PROVE  Repaired(d)'
  <2>1. Generable(d, c)
    BY <1>1, <1>4
  <2>2. snap'[d] = snap[d]
    BY <1>4
  <2> QED
    BY <1>0, <1>4, <2>1, <2>2, RepairedStays
<1>5. CASE StartJob
  <2>1. /\ UNCHANGED <<closed, facts, rate, stored>>
        /\ run'[Job] = [todo |-> JobDates, now |-> closed]
    BY <1>5, RunnersAre DEF StartJob, Start, TypeOK
  <2>2. run'[Job].todo = JobDates /\ run'[Job].now = closed'
    BY <2>1
  <2>3. ASSUME NEW d \in Days, InWindow(d)', Generable(d, closed)', d \notin JobDates
        PROVE  Repaired(d)'
    <3>1. InWindow(d) /\ Generable(d, closed)
      BY <1>2, <1>3, <2>1, <2>3 DEF stored
    <3>2. HeldOn(d) # {}
      BY <3>1 DEF Generable
    <3>3. ~NeedsGeneration(d)
      BY <2>3, <3>1, <3>2 DEF JobDates
    <3>4. Repaired(d)
      BY <3>3 DEF NeedsGeneration, Repaired
    <3> QED
      BY <1>4, <2>1, <3>1, <3>4 DEF stored
  <2>4. \A d \in JobDates : InWindow(d)'
    BY <1>3, <2>1 DEF stored, JobDates
  <2> QED
    BY <2>2, <2>3, <2>4
<1>6. CASE UNCHANGED vars
  <2>1. UNCHANGED <<closed, facts, rate, snap, run, alone>>
    BY <1>6 DEF vars, stored
  <2>2. ASSUME NEW d \in Days, InWindow(d)', Generable(d, closed)', d \notin run[Job].todo
        PROVE  Repaired(d)'
    <3>1. InWindow(d) /\ Generable(d, closed)
      BY <1>2, <1>3, <2>1, <2>2
    <3>2. Repaired(d)
      BY <2>1, <2>2, <3>1 DEF JobInv
    <3> QED
      BY <1>4, <2>1, <3>1, <3>2
  <2>3. \A d \in run[Job].todo : InWindow(d)'
    BY <1>3, <2>1 DEF JobInv
  <2> QED
    BY <2>1, <2>2, <2>3 DEF JobInv
<1>7. CASE alone /\ GenerateNext(Job)
  <2>1. PICK k : k = Min(run[Job].todo)
    OBVIOUS
  <2>2. /\ UNCHANGED <<closed, facts, rate>> /\ run[Job].todo # {}
        /\ Proceed(Job, run[Job].todo \ {k})
        /\ IF Generable(k, run[Job].now) THEN Store(k) ELSE UNCHANGED stored
    BY <1>7, <2>1 DEF GenerateNext
  <2>3. run[Job].todo \subseteq Days /\ run[Job].now = c
    BY <1>1, <1>7, <2>2, RunnersAre DEF TypeOK, JobInv
  <2>4. k \in run[Job].todo /\ k \in Days
    <3>1. IsFiniteSet(Days) /\ Days \subseteq Int
      BY DayFacts, Numbers
    <3>2. PICK S : S = run[Job].todo
      OBVIOUS
    <3>3. IsFiniteSet(S) /\ S \subseteq Int /\ S # {}
      BY <2>2, <2>3, <3>1, <3>2, FS_Subset
    <3>4. Min(S) \in S
      BY <3>3, MinFacts
    <3> QED
      BY <2>1, <2>3, <3>2, <3>4
  <2>5. InWindow(k)
    BY <1>7, <2>4 DEF JobInv
  <2>6. /\ run'[Job].todo = run[Job].todo \ {k}
        /\ run'[Job].todo # {} => run'[Job].now = c
    <3>1. run[Job].todo \ {k} \in SUBSET Days
      BY <2>3
    <3> QED
      BY <2>2, <2>3, <3>1, ProceedTyped, RunnersAre
  <2>7. /\ \A j \in Days : j # k => snap'[j] = snap[j]
        /\ snap[k].state # "none" => snap'[k].state # "none"
        /\ Generable(k, c) => snap'[k] = Fresh(Report(k))
    <3>1. CASE Generable(k, c)
      <4>1. snap' = [snap EXCEPT ![k] = Fresh(Report(k))]
        BY <2>2, <2>3, <3>1 DEF Store
      <4>2. Fresh(Report(k)).state = "fresh"
        BY DEF Fresh
      <4> QED
        BY <2>4, <4>1, <4>2 DEF TypeOK
    <3>2. CASE ~Generable(k, c)
      BY <2>2, <2>3, <3>2 DEF stored
    <3> QED
      BY <3>1, <3>2
  <2>8. \A d \in Days : /\ InWindow(d)' => InWindow(d)
                        /\ d # k => (InWindow(d) => InWindow(d)')
    BY <1>0, <2>2, <2>4, <2>5, <2>7, WindowSame
  <2>9. ASSUME NEW d \in Days, InWindow(d)', Generable(d, closed)', d \notin run'[Job].todo
        PROVE  Repaired(d)'
    <3>1. InWindow(d) /\ Generable(d, c)
      BY <1>1, <1>2, <2>2, <2>8, <2>9
    <3>2. CASE d = k
      BY <1>0, <2>2, <2>7, <3>1, <3>2, StoredIsRepaired
    <3>3. CASE d # k
      <4>1. d \notin run[Job].todo
        BY <2>6, <2>9, <3>3
      <4>2. Repaired(d)
        BY <1>1, <1>7, <3>1, <4>1 DEF JobInv
      <4>3. snap'[d] = snap[d]
        BY <2>7, <3>3
      <4> QED
        BY <1>0, <2>2, <3>1, <4>2, <4>3, RepairedStays
    <3> QED
      BY <3>2, <3>3
  <2>10. \A d \in run'[Job].todo : InWindow(d)'
    BY <1>7, <2>3, <2>6, <2>8 DEF JobInv
  <2> QED
    BY <1>1, <2>2, <2>6, <2>9, <2>10
<1> QED
  BY <1>5, <1>6, <1>7, AloneStep

\* One run of the job that nothing disturbs repairs every date of its window
\* that can be valued, the holes of blocked, killed and failed runs included.
THEOREM JobCatchesUp == Spec => []CaughtUp
<1>1. Init => JobInv
  BY DEF Init, JobInv
<1>2. JobInv => CaughtUp
  BY DEF JobInv, CaughtUp, Repaired, Idle
<1>3. TypeOK /\ JobInv /\ [Next]_vars => JobInv'
  BY JobStays
<1>4. FreshInv => TypeOK
  BY DEF FreshInv
<1> QED
  BY <1>1, <1>2, <1>3, <1>4, InitFreshInv, NextFreshInv, PTL DEF Spec
=============================================================================
