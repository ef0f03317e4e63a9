------------------------------- MODULE Snapshot -------------------------------
(***************************************************************************)
(* The stored report snapshots (reports/snapshot.rs), the valuation they   *)
(* are computed from (reports/valuation.rs), the triggers of the           *)
(* migrations that mark them stale, and the runs that regenerate them: the *)
(* scheduled job, the true-up that follows an FX import, the bulk          *)
(* requests and the single-date request.                                   *)
(*                                                                         *)
(* generate is one write transaction; a run of several dates is one such   *)
(* transaction each, over dates chosen when it started.  The three reports *)
(* of a date are written together and are one snapshot here.  A fact is    *)
(* its effect on which listings are held at the end of a day, a price and  *)
(* a rate are small numbers, and all listings are quoted in one foreign    *)
(* currency.                                                               *)
(***************************************************************************)
EXTENDS Integers, FiniteSets, FiniteSetsExt

CONSTANTS Listings,      \* each on an exchange of its own
          HeldAtStart,   \* those bought before the first day
          MaxDay,        \* bound: the last calendar day
          MonthLength,   \* days in a month
          FallbackMonths,\* VALUATION_FALLBACK_MONTHS
          Lookback,      \* CATCHUP_LOOKBACK_DAYS
          Figures,       \* the prices and rates there can be
          Handlers,      \* requests that regenerate several dates
          Job,           \* the report-snapshot job
          Importers,     \* imports of FX rates, scheduled or requested
          MarkerDates,   \* bounds: days the markers
          HolidayDates,  \*   and holidays may be given
          MaxEdits       \* bound: edits, failures and kills

Days   == 1 .. MaxDay
NoDay  == 0
None   == 0              \* no price row, or no rate
Error  == -1             \* an errored price row
(* Month 0 is the one before the first day.                                *)
Month(d) == 1 + (d - 1) \div MonthLength
Months   == 0 .. Month(MaxDay)
FirstDay(m) == (m - 1) * MonthLength + 1
FirstFigure == Min(Figures)  \* bound: what a first collection or import brings
Runners  == Handlers \cup Importers \cup {Job}

ASSUME ConstantsAssumption ==
    /\ IsFiniteSet(Listings) /\ Listings # {} /\ HeldAtStart \subseteq Listings
    /\ MaxDay \in Nat \ {0} /\ MonthLength \in Nat \ {0}
    /\ FallbackMonths \in Nat /\ Lookback \in Nat \ {0} /\ MaxEdits \in Nat
    /\ Figures \subseteq Nat \ {0} /\ Figures # {}
    /\ Handlers \cap Importers = {} /\ Job \notin Handlers \cup Importers
    /\ MarkerDates \subseteq Days /\ HolidayDates \subseteq Days

VARIABLES
    closed,    \* per listing, the latest day whose close is final
    holidays,  \* exchange_holidays, per listing
    held,      \* the days at whose end a listing is held
    price,     \* closing_prices
    before,    \* listings.unpriced_before
    from,      \* listings.unpriced_from
    rate,      \* rba_fx_rates
    snap,      \* report_snapshots
    gapped,    \* ghost: days a marker divided from a valuation day (MarkerInGap)
               \*   when their snapshot was stored, or since
    run,       \* the dates each runner has yet to generate
    importing, \* the imports in progress that have inserted a rate
    cut,       \* ghost: a true-up was killed or failed part way
    alone,     \* ghost: only the job has stepped since it last started
    edits      \* bound

facts == <<holidays, held, price, before, from>>
stored == <<snap, gapped>>
vars  == <<closed, facts, rate, stored, run, importing, cut, alone, edits>>

-----------------------------------------------------------------------------
(* Valuation.                                                              *)

IsOk(p) == p > None

TradingDays(l, d) == {k \in 1 .. d : k \notin holidays[l]}

(* latest_trading_day_on_or_before.                                        *)
ValuationDay(l, d) == Max({NoDay} \cup TradingDays(l, d))

Unpriced(l, day) == from[l] # NoDay /\ day >= from[l]

(* The days whose ok price may value the listing on a valuation day: its   *)
(* own, or in an unpriced run an earlier one of the served span.           *)
PriceDays(l, day) ==
    IF IsOk(price[l][day]) THEN {day}
    ELSE {k \in 1 .. day : /\ Unpriced(l, day)
                           /\ IsOk(price[l][k])
                           /\ before[l] # NoDay => k >= before[l]}

(* valuation_months: the month's own rate or a bounded fallback.           *)
RateMonths(day) ==
    {m \in Months : /\ m <= Month(day) /\ m >= Month(day) - FallbackMonths
                    /\ rate[m] # None}

IsExcluded(l, d) == before[l] # NoDay /\ ValuationDay(l, d) < before[l]

(* A listing that blocks the date: no trading day, a close that is not     *)
(* final, no price, no rate.                                               *)
IsBlocked(l, d, now) ==
    LET day == ValuationDay(l, d)
    IN  \/ day = NoDay
        \/ /\ ~IsExcluded(l, d)
           /\ day > now[l] \/ PriceDays(l, day) = {} \/ RateMonths(day) = {}

Absent   == [is |-> "absent", price |-> None, rate |-> None,
             provisional |-> FALSE, carried |-> FALSE]
Excluded == [Absent EXCEPT !.is = "excluded"]

Valued(l, day) ==
    LET k == Max(PriceDays(l, day))
        m == Max(RateMonths(day))
    IN  [is |-> "valued", price |-> price[l][k], rate |-> rate[m],
         provisional |-> m < Month(day), carried |-> k < day]

Entries == {Absent, Excluded} \cup
           [is : {"valued"}, price : Figures, rate : Figures,
            provisional : BOOLEAN, carried : BOOLEAN]

HeldOn(d) == {l \in Listings : d \in held[l]}

(* A marker dated on a day the market was closed divides it from the       *)
(* trading day that values it.                                             *)
MarkerInGap(l, d) == before[l] # NoDay /\ ValuationDay(l, d) < before[l] /\ before[l] <= d

Divided(d) == \E l \in HeldOn(d) : MarkerInGap(l, d)

Generable(d, now) ==
    /\ \A l \in HeldOn(d) : ~IsBlocked(l, d, now)
    /\ \E l \in HeldOn(d) : ~IsExcluded(l, d)

Report(d) ==
    [l \in Listings |->
        IF l \notin HeldOn(d) THEN Absent
        ELSE IF IsExcluded(l, d) THEN Excluded
        ELSE Valued(l, ValuationDay(l, d))]

NoSnap == [state |-> "none", report |-> [l \in Listings |-> Absent]]
Fresh(report) == [state |-> "fresh", report |-> report]
Snaps  == [state : {"none", "fresh", "stale"}, report : [Listings -> Entries]]

IsProvisional(report) == \E l \in Listings : report[l].provisional

-----------------------------------------------------------------------------
(* The runs.                                                               *)

Idle == [todo |-> {}, now |-> [l \in Listings |-> NoDay]]

HeldNow == {l \in Listings : MaxDay \in held[l]}

LatestComplete(l) == ValuationDay(l, closed[l])

HasLatest == HeldNow # {} /\ \A l \in HeldNow : LatestComplete(l) # NoDay

(* latest_snapshot_date: the newest day, up to the newest close, on which  *)
(* every held market's close is final.  The walk's floor, the oldest of    *)
(* the markets' latest closes, is such a day.                              *)
LatestDate ==
    Max({d \in Days : /\ \E l \in HeldNow : d <= LatestComplete(l)
                      /\ \A l \in HeldNow : ValuationDay(l, d) <= LatestComplete(l)})

Stored == {d \in Days : snap[d].state # "none"}

(* From the first stored date, at most Lookback days.                      *)
InWindow(d) ==
    /\ IF Stored = {} THEN d = LatestDate ELSE \E k \in Stored : k <= d
    /\ d \in LatestDate - Lookback + 1 .. LatestDate

NeedsGeneration(d) == snap[d].state # "fresh" \/ IsProvisional(snap[d].report)

(* Mutant: only the days after the stored ones are candidates.             *)
JobDatesAfterStored ==
    {d \in Days : HeldOn(d) # {} /\ InWindow(d) /\ \A k \in Stored : k < d}

(* The dates of one scheduled run.                                         *)
JobDates ==
    {d \in Days : NeedsGeneration(d) /\ HeldOn(d) # {} /\ InWindow(d)}

(* Mutant: only what a trigger has marked stale.                           *)
ProvisionalStale == {d \in Stored : snap[d].state = "stale" /\ IsProvisional(snap[d].report)}

(* regenerate_provisional: inside the window or not.                       *)
ProvisionalDates == {d \in Stored : IsProvisional(snap[d].report)}

Start(r, dates) ==
    /\ run[r] = Idle
    /\ UNCHANGED <<closed, facts, rate, stored, cut>>
    /\ dates # {}
    /\ run' = [run EXCEPT ![r] = [todo |-> dates, now |-> closed]]
    /\ alone' = (r = Job)

Edit == edits < MaxEdits /\ edits' = edits + 1

StartJob ==
    /\ run[Job] = Idle
    /\ UNCHANGED <<importing, edits>>
    /\ HasLatest
    /\ Start(Job, JobDates)

(* regenerate_all: the held dates of the range, from the first held one.   *)
RegenerateAll(h, a, b) ==
    /\ HasLatest
    /\ Edit
    /\ Start(h, {d \in a .. b : HeldOn(d) # {}})
    /\ UNCHANGED importing

RegenerateProvisional(h) ==
    /\ Edit
    /\ Start(h, ProvisionalDates)
    /\ UNCHANGED importing

(* true_up_provisional_snapshots, after an import that inserted a rate.    *)
TrueUp(i) ==
    /\ i \in importing
    /\ importing' = importing \ {i}
    /\ IF ProvisionalDates = {}
       THEN alone' = FALSE /\ UNCHANGED <<closed, facts, rate, stored, run, cut>>
       ELSE Start(i, ProvisionalDates)
    /\ UNCHANGED edits

(* A later insert of the import, or the true-up's own query, fails.        *)
ImportFails(i) ==
    /\ Edit
    /\ i \in importing
    /\ importing' = importing \ {i}
    /\ cut' = TRUE
    /\ alone' = FALSE
    /\ UNCHANGED <<closed, facts, rate, stored, run>>

Proceed(r, todo) ==
    run' = [run EXCEPT ![r] = IF todo = {} THEN Idle ELSE [@ EXCEPT !.todo = todo]]

Store(d) ==
    /\ snap' = [snap EXCEPT ![d] = Fresh(Report(d))]
    /\ gapped' = IF Divided(d) THEN gapped \cup {d} ELSE gapped \ {d}

(* One generate: the snapshot is replaced, or the date is blocked and its  *)
(* snapshot left as it is.                                                 *)
GenerateNext(r) ==
    /\ run[r].todo # {}
    /\ alone' = (alone /\ r = Job)
    /\ UNCHANGED <<closed, facts, rate, importing, cut, edits>>
    /\ LET d == Min(run[r].todo)
       IN  /\ Proceed(r, run[r].todo \ {d})
           /\ IF Generable(d, run[r].now) THEN Store(d) ELSE UNCHANGED stored

(* The transaction fails: the job gives up, a bulk regeneration goes on.   *)
GenerateFails(r) ==
    /\ Edit
    /\ run[r].todo # {}
    /\ Proceed(r, IF r = Job THEN {} ELSE run[r].todo \ {Min(run[r].todo)})
    /\ cut' = (cut \/ r \in Importers)
    /\ alone' = FALSE
    /\ UNCHANGED <<closed, facts, rate, stored, importing>>

(* POST /report_snapshots/generate.                                        *)
GenerateOne(d) ==
    /\ Edit
    /\ Generable(d, closed)
    /\ Store(d)
    /\ alone' = FALSE
    /\ UNCHANGED <<closed, facts, rate, run, importing, cut>>

(* The process dies.                                                       *)
Kill ==
    /\ Edit
    /\ run' = [r \in Runners |-> Idle]
    /\ importing' = {}
    /\ cut' = (cut \/ importing # {} \/ \E i \in Importers : run[i] # Idle)
    /\ alone' = FALSE
    /\ UNCHANGED <<closed, facts, rate, stored>>

-----------------------------------------------------------------------------
(* The facts, each write with its triggers.                                *)

Staled(days) ==
    [d \in Days |-> IF d \in days /\ snap[d].state = "fresh"
                    THEN [snap[d] EXCEPT !.state = "stale"] ELSE snap[d]]

(* Mutant: only the day itself.                                            *)
StaleDay(d) == snap' = Staled({d}) /\ UNCHANGED gapped

StaleFrom(d) == snap' = Staled(d .. MaxDay) /\ UNCHANGED gapped

Between == alone' = FALSE /\ UNCHANGED <<closed, run, importing, cut>>

(* The condition of closing_prices_stale_snapshots_update and _delete.     *)
Revised(old, new) == IsOk(old) /\ new # old

(* A price row is inserted or replaced: fetched, re-based or by hand.      *)
StorePrice(l, d, p) ==
    /\ d \in TradingDays(l, closed[l])
    /\ p # price[l][d]
    /\ price' = [price EXCEPT ![l][d] = p]
    /\ IF Revised(price[l][d], p) THEN StaleFrom(d) ELSE UNCHANGED stored
    /\ Between
    /\ UNCHANGED <<holidays, held, before, from, rate>>

(* The first ok price of a day, which collection brings of itself.         *)
CollectPrice(l, d) ==
    /\ ~IsOk(price[l][d])
    /\ StorePrice(l, d, FirstFigure)
    /\ UNCHANGED edits

RevisePrice(l, d, p) == Edit /\ StorePrice(l, d, p)

(* closing_price::delete_one; a bulk clear is one of these after another.  *)
DeletePrice(l, d) ==
    /\ Edit
    /\ price[l][d] = Error \/ (IsOk(price[l][d]) /\ before[l] # NoDay /\ d < before[l])
    /\ price' = [price EXCEPT ![l][d] = None]
    /\ IF Revised(price[l][d], None) THEN StaleFrom(d) ELSE UNCHANGED stored
    /\ Between
    /\ UNCHANGED <<holidays, held, before, from, rate>>

(* The markers may be set when they leave a span to serve and, for         *)
(* unpriced_from, an ok price within it to carry forward.  A fetched price *)
(* on or after unpriced_from is refused as well; the model has no origins, *)
(* and a price stored there may be one entered by hand.                    *)
MarkersAllowed(l, b, fr) ==
    /\ (b # NoDay /\ fr # NoDay) => b < fr
    /\ fr # NoDay => \E k \in Days : /\ IsOk(price[l][k]) /\ k < fr
                                     /\ b # NoDay => k >= b

(* listings_stale_snapshots_update: an absent date gives way to the other. *)
OldOrNew(old, new) == {old, new} \ {NoDay}

MarkerDays(l, b, fr) ==
    {d \in Days :
        \/ fr # from[l] /\ d >= Min(OldOrNew(from[l], fr))
        \/ b # before[l] /\ d < Max(OldOrNew(before[l], b))}

SetMarkers(l, b, fr) ==
    /\ Edit
    /\ <<b, fr>> # <<before[l], from[l]>>
    /\ MarkersAllowed(l, b, fr)
    /\ before' = [before EXCEPT ![l] = b]
    /\ from' = [from EXCEPT ![l] = fr]
    /\ snap' = Staled(MarkerDays(l, b, fr))
    /\ Between
    /\ UNCHANGED <<holidays, held, price, rate>>
    /\ gapped' = gapped \cup {d \in Days : Divided(d)'}

EditHoliday(l, d) ==
    /\ Edit
    /\ holidays' = [holidays EXCEPT ![l] = IF d \in @ THEN @ \ {d} ELSE @ \cup {d}]
    /\ StaleFrom(d)
    /\ Between
    /\ UNCHANGED <<held, price, before, from, rate>>

(* A trade dated d is recorded, edited or deleted: from d on the listing   *)
(* is held on other days; after today nothing is traded.                   *)
Today == Max({closed[l] : l \in Listings})

RecordTrade(l, d, days) ==
    /\ Edit
    /\ d <= Today
    /\ \A k \in Today .. MaxDay : k \in days <=> Today \in days
    /\ held' = [held EXCEPT ![l] = {k \in @ : k < d} \cup {k \in days : k >= d}]
    /\ held' # held
    /\ StaleFrom(d)
    /\ Between
    /\ UNCHANGED <<holidays, price, before, from, rate>>

(* db_import_rate: a month that has no rate gets one, and nothing is       *)
(* staled.                                                                 *)
ImportRate(i, m, f) ==
    /\ run[i] = Idle
    /\ rate[m] = None
    /\ rate' = [rate EXCEPT ![m] = f]
    /\ importing' = importing \cup {i}
    /\ alone' = FALSE
    /\ UNCHANGED <<closed, facts, stored, run, cut, edits>>

(* db_correct_rate, with rba_fx_rates_stale_snapshots_update.              *)
CorrectRate(m, f) ==
    /\ Edit
    /\ rate[m] \notin {None, f}
    /\ rate' = [rate EXCEPT ![m] = f]
    /\ StaleFrom(FirstDay(m))
    /\ Between
    /\ UNCHANGED facts

(* A market closes: none is more than a day ahead of another.              *)
Close(l) ==
    /\ closed[l] < MaxDay
    /\ \A k \in Listings : closed[k] >= closed[l]
    /\ closed' = [closed EXCEPT ![l] = @ + 1]
    /\ alone' = FALSE
    /\ UNCHANGED <<facts, rate, stored, run, importing, cut, edits>>

-----------------------------------------------------------------------------
Init ==
    /\ closed = [l \in Listings |-> 1]
    /\ holidays = [l \in Listings |-> {}]
    /\ held = [l \in Listings |-> IF l \in HeldAtStart THEN Days ELSE {}]
    /\ price = [l \in Listings |-> [d \in Days |-> None]]
    /\ before = [l \in Listings |-> NoDay]
    /\ from = [l \in Listings |-> NoDay]
    /\ rate = [m \in Months |-> None]
    /\ snap = [d \in Days |-> NoSnap]
    /\ gapped = {}
    /\ run = [r \in Runners |-> Idle]
    /\ importing = {}
    /\ cut = FALSE
    /\ alone = FALSE
    /\ edits = 0

Generation ==
    \/ StartJob
    \/ \E h \in Handlers, a, b \in Days : RegenerateAll(h, a, b)
    \/ \E h \in Handlers : RegenerateProvisional(h)
    \/ \E i \in Importers : TrueUp(i) \/ ImportFails(i)
    \/ \E r \in Runners : GenerateNext(r) \/ GenerateFails(r)
    \/ \E d \in Days : GenerateOne(d)
    \/ Kill

FactWrite ==
    \/ \E l \in Listings, d \in Days : CollectPrice(l, d) \/ DeletePrice(l, d)
    \/ \E l \in Listings, d \in Days, p \in Figures \cup {Error} : RevisePrice(l, d, p)
    \/ \E l \in Listings, b, fr \in MarkerDates \cup {NoDay} : SetMarkers(l, b, fr)
    \/ \E l \in Listings, d \in HolidayDates : EditHoliday(l, d)
    \/ \E l \in Listings, d \in Days, days \in SUBSET Days : RecordTrade(l, d, days)
    \/ \E i \in Importers, m \in Months : ImportRate(i, m, FirstFigure)
    \/ \E m \in Months, f \in Figures : CorrectRate(m, f)

Next ==
    \/ Generation
    \/ FactWrite
    \/ \E l \in Listings : Close(l)

Spec == Init /\ [][Next]_vars

-----------------------------------------------------------------------------
TypeOK ==
    /\ closed \in [Listings -> Days]
    /\ holidays \in [Listings -> SUBSET Days]
    /\ held \in [Listings -> SUBSET Days]
    /\ price \in [Listings -> [Days -> Figures \cup {None, Error}]]
    /\ before \in [Listings -> Days \cup {NoDay}]
    /\ from \in [Listings -> Days \cup {NoDay}]
    /\ rate \in [Months -> Figures \cup {None}]
    /\ snap \in [Days -> Snaps]
    /\ gapped \subseteq Days
    /\ run \in [Runners -> [todo : SUBSET Days, now : [Listings -> Days \cup {NoDay}]]]
    /\ importing \subseteq Importers
    /\ cut \in BOOLEAN
    /\ alone \in BOOLEAN
    /\ edits \in 0 .. MaxEdits

(* The entry still stands: the same listing held, at the price and the     *)
(* rate there are now, but for a rate that was interim and a price that    *)
(* was carried forward.                                                    *)
StillTrue(old, new) ==
    /\ new.is = old.is
    /\ ~old.carried => new.price = old.price /\ ~new.carried
    /\ ~old.provisional => new.rate = old.rate /\ ~new.provisional

(* A snapshot that is not marked stale is what generate would store now:   *)
(* every write that changes a held listing, its valuation day, its price,  *)
(* its markers or its rate marked the dates it reached, whatever ran in    *)
(* between.  Two figures may move unmarked: an interim rate (the true-up's *)
(* business) and a carried-forward price overtaken by one entered by hand; *)
(* and the trigger on the markers compares them with the snapshot's date   *)
(* where valuation compares them with the valuation day, so a snapshot is  *)
(* excepted from the time such a marker divides the two until it is stored *)
(* again: moving the marker away does not mark it either.                  *)
FreshIsTrue ==
    \A d \in Days :
        (snap[d].state = "fresh" /\ d \notin gapped) =>
            /\ Generable(d, closed)
            /\ \A l \in Listings : StillTrue(snap[d].report[l], Report(d)[l])

(* No interim rate is forgotten: while no true-up was killed or failed, a  *)
(* fresh provisional snapshot that the stored rates could make final is    *)
(* still on the way to being regenerated.                                  *)
TrueUpPending ==
    ~cut => \A d \in Days :
        (/\ snap[d].state = "fresh"
         /\ IsProvisional(snap[d].report)
         /\ d \notin gapped
         /\ ~IsProvisional(Report(d)))
            => importing # {} \/ \E i \in Importers : d \in run[i].todo

(* One run of the job that nothing disturbs repairs its whole window:      *)
(* every date of it that can be valued is stored, fresh, and provisional   *)
(* only while its month's rate is missing, the holes of earlier runs that  *)
(* were blocked, killed or failed included (run_snapshot_job: a hole is    *)
(* retried while it stays in the window).                                  *)
CaughtUp ==
    (alone /\ run[Job] = Idle) =>
        \A d \in Days :
            (InWindow(d) /\ Generable(d, closed)) =>
                /\ snap[d].state = "fresh"
                /\ IsProvisional(snap[d].report) => IsProvisional(Report(d))
====
