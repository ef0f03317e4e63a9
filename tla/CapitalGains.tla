----------------------------- MODULE CapitalGains -----------------------------
(***************************************************************************)
(* How recorded facts become capital gains: the realised gains of sells    *)
(* (reports/realised_gains.rs), the cost base they are measured against    *)
(* (domain/cost_base.rs), the gains that arise without a disposal and the  *)
(* netting of a year (reports/net_capital_gain.rs), and the what-if report *)
(* that rehearses a sell before it is recorded.                            *)
(*                                                                         *)
(* One listing in AUD.  Amounts are in ticks, CentGrain of them to a cent, *)
(* so that to_cents really rounds.  Splits, rollovers and rights are not   *)
(* in this module: units are as acquired and none is carried out of its    *)
(* parcel.  The reports are functions of the recorded sells, because the   *)
(* what-if report asks them of sells that are not recorded.                *)
(***************************************************************************)
EXTENDS Integers, Sequences, FiniteSets, FiniteSetsExt, Sums

CONSTANTS
    CgtParcels,     \* trade ids of acquisitions
    CgtDays,        \* bound: facts are dated 1..CgtDays
    FyLength,       \* days in an income year, which is also twelve months
    SettleLag,      \* days from contract to settlement
    CentGrain,      \* ticks in a cent
    BuyDays, LotUnits, UnitCosts,     \* a parcel's date, units and unit cost
    SellDays, UnitProceeds,           \* a sell's date and proceeds per unit
    PayDays, PayRates, RecordGaps,    \* payments; NoRecord: no record date
    StatementYears, StatementRates, AttributedGains,  \* AMMA statements
    OpeningLosses,  \* cgt_settings.opening_capital_loss
    AmitFrom,       \* the first income year the listing is an AMIT
    MaxCgtWrites    \* bound: writes after the first parcel

NoRecord == -1

(* The divisions below are exact: amounts per unit divide by every count of
   units a parcel or a sell can have.  No entered gain or loss is negative. *)
ASSUME CgtAssumption ==
    /\ CgtParcels \subseteq Nat \ {0} /\ IsFiniteSet(CgtParcels)
    /\ LotUnits \subseteq 1..3
    /\ {CgtDays, FyLength, CentGrain} \subseteq Nat \ {0}
    /\ SettleLag \in Nat
    /\ BuyDays \union PayDays \union SellDays \subseteq 1..CgtDays
    /\ StatementYears \subseteq 1..((CgtDays - 1) \div FyLength + 1)
    /\ 1 \in CgtParcels /\ MaxCgtWrites \in Nat
    /\ RecordGaps \subseteq Nat \union {NoRecord}
    /\ AttributedGains \union OpeningLosses \subseteq Nat
    /\ UnitCosts \union PayRates \union StatementRates \union UnitProceeds \subseteq Int
    /\ \A r \in UnitCosts \union PayRates \union StatementRates \union UnitProceeds :
          r % 6 = 0

VARIABLES
    parcels,        \* trades that acquire: [day, units, cost], NoLot for none
    payments,    \* ReturnOfCapital actions: [date, rate, record]
    statements,  \* amma_statements: [year, rate, gain]
    coverage,    \* amit_adjustments: units of a parcel covered in a year
    sells,       \* Sells: [date, proceeds, take], take the units per parcel
    openingLoss, \* the capital loss entered in cgt_settings
    cgtWrites

cgtVars == <<parcels, payments, statements, coverage, sells, openingLoss, cgtWrites>>

NoLot == [day |-> 0, units |-> 0, cost |-> 0]
Bought == {p \in CgtParcels : parcels[p] # NoLot}

CgtDay == 1..CgtDays
FyOf(d) == (d - 1) \div FyLength + 1
FyEnd(y) == y * FyLength
FyStart(y) == FyEnd(y - 1) + 1
Fys == 1..FyOf(CgtDays)
LastDay == FyEnd(FyOf(CgtDays))

(* What the members of a set of items come to. *)
Total(items) == SumOver([g \in items |-> g.amount], items)

Least(a, b) == Min({a, b})
Most(a, b) == Max({a, b})

(* infra::decimal::to_cents, half away from zero, as a number of ticks. *)
ToCents(x) ==
    LET cents(v) == (2 * v + CentGrain) \div (2 * CentGrain)
    IN  CentGrain * (IF x < 0 THEN -cents(-x) ELSE cents(x))

(* domain::cgt_discount::discount_eligible: more than twelve months. *)
DiscountEligible(acquired, on) == on - FyLength > acquired

-----------------------------------------------------------------------------
(* domain::cost_base *)

UnitsTaken(S, p, from, to) ==
    Total({[sell |-> i, amount |-> S[i].take[p]] :
             i \in {j \in DOMAIN S : from <= S[j].date /\ S[j].date <= to}})

(* db_cost_base_reduction_events: the AMMA statement of year y as it reaches
   parcel p when the sells S are recorded. *)
AmitEvent(S, p, s) ==
    [year |-> s.year, rate |-> s.rate, covered |-> coverage[p][s.year],
     disposedByYearEnd |-> UnitsTaken(S, p, 1, FyEnd(s.year)),
     disposedBeforeYearStart |-> UnitsTaken(S, p, 1, FyStart(s.year) - 1)]

AmitEvents(S, p) ==
    {AmitEvent(S, p, s) : s \in {t \in statements : coverage[p][t.year] > 0}}

(* domain::contemplated_disposal::events_with_disposal. *)
EventsWithDisposal(events, units, on) ==
    {[e EXCEPT !.disposedByYearEnd = @ + (IF on <= FyEnd(e.year) THEN units ELSE 0),
               !.disposedBeforeYearStart = @ + (IF on < FyStart(e.year) THEN units ELSE 0)]
       : e \in events}

StillHeld == 0

(* Mutant: the spill also reaches units sold before the year. *)
SpillOverAllSold(e, quantity, units, left) ==
    LET disposed == Least(e.disposedByYearEnd, quantity)
        held == quantity - disposed
        spill == Least(Most(e.covered - held, 0), disposed)
    IN  IF left # StillHeld /\ left <= FyEnd(e.year)
        THEN (e.rate * spill * units) \div disposed
        ELSE IF held = 0 THEN 0
             ELSE (e.rate * Least(e.covered, held) * units) \div held

(* AmitReductionEvent::reduction_for_units.  The units still held are covered
   first, then the ones sold during the statement's year; within each group
   the coverage is spread evenly. *)
ReductionForUnits(e, quantity, units, left) ==
    LET disposed == Least(e.disposedByYearEnd, quantity)
        held == quantity - disposed
        sold == Most(disposed - e.disposedBeforeYearStart, 0)
        spread(cover, group) ==
            IF group = 0 THEN 0 ELSE (e.rate * cover * units) \div group
    IN  CASE left # StillHeld /\ left < FyStart(e.year) -> 0
          [] left \in FyStart(e.year)..FyEnd(e.year) ->
                spread(Least(Most(e.covered - held, 0), sold), sold)
          [] OTHER -> spread(Least(e.covered, held), held)

Settled(d) == d + SettleLag

(* RocEvent::per_unit_for: on the register when the payment was fixed. *)
Entitled(p, pay) ==
    Settled(parcels[p].day) <= IF pay.record = NoRecord THEN pay.date ELSE pay.record

ProratedCost(p, units) == (parcels[p].cost * units) \div parcels[p].units

(* The statements that end on day d, over `units` that left on day `left`. *)
AmitReduction(p, units, left, events, d) ==
    Total({[event |-> e,
            amount |-> ReductionForUnits(e, parcels[p].units, units, left)] :
             e \in {f \in events : FyEnd(f.year) = d}})

PaymentsOn(p, d) == {pay \in payments : pay.date = d /\ Entitled(p, pay)}
Paid(pays, units) == Total({[pay |-> pay, amount |-> pay.rate * units] : pay \in pays})

(* reduction_walk and adjusted_cost_base of units disposed of on day `on`:
   in date order, a statement before a payment, floored at nil each time. *)
AdjustedCostBase(p, units, events, on) ==
    LET running[d \in 0..LastDay] ==
            IF d = 0 THEN ProratedCost(p, units)
            ELSE LET before == running[d - 1]
                     after == Most(before - AmitReduction(p, units, on, events, d), 0)
                 IN  IF d > on THEN after
                     ELSE Most(after - Paid(PaymentsOn(p, d), units), 0)
    IN  running[LastDay]

-----------------------------------------------------------------------------
(* reports::realised_gains *)

UnitsSold(sell) == Total({[parcel |-> p, amount |-> sell.take[p]] : p \in CgtParcels})
Picked(sell) == {p \in CgtParcels : sell.take[p] > 0}

(* cumulative_share, before any rounding to the cent. *)
ProceedsShare(sell, p) == (sell.proceeds * sell.take[p]) \div UnitsSold(sell)

(* The parcels of a sell in the order their proceeds round in. *)
UpTo(p) == {q \in CgtParcels : \/ parcels[q].day < parcels[p].day
                               \/ parcels[q].day = parcels[p].day /\ q <= p}

(* parcels_at_the_cent: the proceeds round cumulatively, so that the parcels
   add up to the sell. *)
RoundedProceeds(sell, p) ==
    LET running(Q) == ToCents(Total({[parcel |-> q, amount |-> ProceedsShare(sell, q)] : q \in Q}))
    IN  running(UpTo(p) \cap Picked(sell)) - running((UpTo(p) \ {p}) \cap Picked(sell))

(* The gain (or, negative, the loss) of one parcel of a sell, at the cent. *)
ParcelGain(sell, p, cost) == RoundedProceeds(sell, p) - ToCents(cost)

(* compute_realised_gains: parcel p of recorded sell i. *)
RealisedCost(S, i, p) ==
    AdjustedCostBase(p, S[i].take[p], AmitEvents(S, p), S[i].date)

RealisedGain(S, i, p) == ParcelGain(S[i], p, RealisedCost(S, i, p))

-----------------------------------------------------------------------------
(* reports::net_capital_gain: gains without a disposal *)

(* unit_cohorts: the units of a parcel by the sell that took them. *)
Cohorts(S, p) ==
    LET sold == {[sell |-> i, left |-> S[i].date, units |-> S[i].take[p]] :
                   i \in {j \in DOMAIN S : S[j].take[p] > 0}}
        rest == parcels[p].units - UnitsTaken(S, p, 1, CgtDays)
    IN  sold \union IF rest > 0
                    THEN {[sell |-> 0, left |-> StillHeld, units |-> rest]}
                    ELSE {}

(* Reduction::reduction_for_units of a payment: units still held then. *)
RocReduction(p, c, d) ==
    IF parcels[p].day <= d /\ (c.left = StillHeld \/ c.left >= d)
    THEN Paid(PaymentsOn(p, d), c.units) ELSE 0

CohortCost(p, c) == ProratedCost(p, c.units)

(* C2: registered at the record date, sold before the payment. *)
RightsEnded(p, c, d) ==
    IF c.left = StillHeld \/ c.left >= d THEN 0
    ELSE Paid({pay \in PaymentsOn(p, d) : pay.record # NoRecord
                                          /\ Settled(c.left) > pay.record}, c.units)

(* non_disposal_gains, one cohort: the gains of each day a reduction or a
   payment falls on.  E10 and G1 are what the day takes past nil. *)
NonDisposalGains(p, c, events) ==
    LET drawn(left, amount) == Most(left - amount, 0)
        excess(left, amount) == Most(amount - left, 0)
        walk[d \in 0..LastDay] ==
            IF d = 0 THEN [left |-> CohortCost(p, c), gains |-> <<>>]
            ELSE LET before == walk[d - 1]
                     amit == AmitReduction(p, c.units, c.left, events, d)
                     roc == RocReduction(p, c, d)
                     after == drawn(before.left, amit)
                     gain == excess(before.left, amit) + excess(after, roc)
                             + RightsEnded(p, c, d)
                 IN  [left |-> drawn(after, roc),
                      gains |-> IF gain = 0 THEN before.gains
                                ELSE Append(before.gains, [day |-> d, amount |-> gain])]
    IN  walk[LastDay].gains

(* Gains made by the units of p that cohort c holds. *)
CohortGains(p, c, events) ==
    LET gains == NonDisposalGains(p, c, events)
    IN  {[parcel |-> p, cohort |-> c.sell, day |-> gains[i].day,
          amount |-> gains[i].amount] : i \in DOMAIN gains}

-----------------------------------------------------------------------------
(* reports::net_capital_gain: the years *)

(* The realised gains of the sells S, one item a parcel of a sell. *)
RealisedItems(S) ==
    {[sell |-> x[1], parcel |-> x[2], day |-> S[x[1]].date,
      amount |-> RealisedGain(S, x[1], x[2])] :
        x \in {z \in (DOMAIN S) \X Bought : S[z[1]].take[z[2]] > 0}}

(* all_non_disposal_gains, with the contemplated sells of `extra` gone from
   their parcels: they end cohorts and move statements, but realise nothing
   here. *)
EventItems(S, extra) ==
    UNION {LET events == IF extra = <<>> THEN AmitEvents(S, p)
                         ELSE EventsWithDisposal(AmitEvents(S, p),
                                                 extra[1].take[p], extra[1].date)
           IN  UNION {CohortGains(p, c, events) : c \in Cohorts(S \o extra, p)} :
             p \in Bought}

(* The attributed discount gains are halved already: grossed up again. *)
StatementBucket(y) ==
    Total({[statement |-> s, amount |-> 2 * s.gain] :
             s \in {x \in statements : x.year = y}})

(* gross_buckets: each gain goes to the discount or the other bucket of its
   year, each loss to the losses. *)
GrossBuckets(items, y) ==
    LET ofYear == {g \in items : FyOf(g.day) = y}
        gains  == {g \in ofYear : g.amount > 0}
        held   == {g \in gains : DiscountEligible(parcels[g.parcel].day, g.day)}
    IN  [discount |-> Total(held) + StatementBucket(y),
         other    |-> Total(gains \ held),
         losses   |-> -Total(ofYear \ gains)]

(* A row of the report: losses meet other gains before discountable ones by
   the amounts given, and half of what is left of those is not taxed. *)
Row(b, broughtForward, toOther, toDiscount) ==
    LET discount == ToCents(b.discount)
        other    == ToCents(b.other)
        losses   == ToCents(b.losses)
        netDiscount == discount - toDiscount
    IN  [discount |-> discount, other |-> other, losses |-> losses,
         broughtForward |-> broughtForward,
         netOther |-> other - toOther, netDiscount |-> netDiscount,
         gain |-> other - toOther + (netDiscount - ToCents(netDiscount \div 2)),
         carried |-> losses + broughtForward - toOther - toDiscount]

(* Mutant: losses meet the discountable gains first. *)
NetYearDiscountFirst(b, broughtForward) ==
    LET available == ToCents(b.losses) + broughtForward
        toDiscount == Least(ToCents(b.discount), available)
        toOther    == Least(ToCents(b.other), available - toDiscount)
    IN  Row(b, broughtForward, toOther, toDiscount)

(* net_years, one year of it. *)
NetYear(b, broughtForward) ==
    LET available == ToCents(b.losses) + broughtForward
        toOther    == Least(ToCents(b.other), available)
        toDiscount == Least(ToCents(b.discount), available - toOther)
    IN  Row(b, broughtForward, toOther, toDiscount)

(* net_years: the loss a year leaves is the next year's. *)
NetYears(items) ==
    LET rows[y \in 0..FyOf(CgtDays)] ==
            IF y = 0 THEN <<>>
            ELSE LET before == rows[y - 1]
                     broughtForward == IF y = 1 THEN ToCents(openingLoss)
                                       ELSE before[y - 1].carried
                 IN  Append(before, NetYear(GrossBuckets(items, y), broughtForward))
    IN  rows[FyOf(CgtDays)]

(* The gains of every year, from the sells S. *)
Items(S) == RealisedItems(S) \union EventItems(S, <<>>)

Report(S) == NetYears(Items(S))

(* What the rehearsed sell would realise, each pick costed as disposed of. *)
ContemplatedItems(S, sell) ==
    {[sell |-> 0, parcel |-> p, day |-> sell.date,
      amount |-> ParcelGain(sell, p,
                 AdjustedCostBase(
                     p, sell.take[p],
                     EventsWithDisposal(AmitEvents(S, p), sell.take[p], sell.date),
                     sell.date))] : p \in Picked(sell)}

(* Mutant: the rehearsed units stay in their parcels. *)
WhatIfUnitsStay(S, sell) ==
    LET items == Items(S) \union ContemplatedItems(S, sell)
    IN  NetYears(items)[FyOf(sell.date)]

(* what_if_handler: the "with" row. *)
WhatIf(S, sell) ==
    LET items == RealisedItems(S) \union EventItems(S, <<sell>>)
                 \union ContemplatedItems(S, sell)
    IN  NetYears(items)[FyOf(sell.date)]

-----------------------------------------------------------------------------
(* The writes. *)

CgtWrite == cgtWrites < MaxCgtWrites /\ cgtWrites' = cgtWrites + 1

NewLot(d, n, c) == [day |-> d, units |-> n, cost |-> c * n]

(* The books hold one parcel and perhaps a loss from before them. *)
CgtInit ==
    /\ \E d \in BuyDays, n \in LotUnits, c \in UnitCosts :
          parcels = [p \in CgtParcels |-> IF p = 1 THEN NewLot(d, n, c) ELSE NoLot]
    /\ payments = {} /\ statements = {}
    /\ coverage = [p \in CgtParcels |-> [y \in Fys |-> 0]]
    /\ sells = <<>>
    /\ openingLoss \in OpeningLosses
    /\ cgtWrites = 0

AcquireParcel(p, d, n, c) ==
    /\ CgtWrite
    /\ parcels[p] = NoLot
    /\ parcels' = [parcels EXCEPT ![p] = NewLot(d, n, c)]
    /\ UNCHANGED <<payments, statements, coverage, sells, openingLoss>>

(* A ReturnOfCapital is refused in a year the listing is an AMIT. *)
PayCapital(d, r, gap) ==
    /\ CgtWrite
    /\ FyOf(d) < AmitFrom
    /\ payments' = payments \union
                     {[date |-> d, rate |-> r,
                       record |-> IF gap = NoRecord THEN NoRecord ELSE d - gap]}
    /\ UNCHANGED <<parcels, statements, coverage, sells, openingLoss>>

EnterStatement(y, r, g) ==
    /\ CgtWrite
    /\ \A s \in statements : s.year # y
    /\ statements' = statements \union {[year |-> y, rate |-> r, gain |-> g]}
    /\ UNCHANGED <<parcels, payments, coverage, sells, openingLoss>>

(* amit_adjustment::db_write_on: at most the units held during the year. *)
CoverUnits(p, s, n) ==
    /\ CgtWrite
    /\ p \in Bought
    /\ coverage[p][s.year] = 0
    /\ n <= parcels[p].units - UnitsTaken(sells, p, 1, FyStart(s.year) - 1)
    /\ coverage' = [coverage EXCEPT ![p][s.year] = n]
    /\ UNCHANGED <<parcels, payments, statements, sells, openingLoss>>

(* Mutant: a sell is measured against the units open at its date. *)
AvailableAtDate(take, d) ==
    \A p \in CgtParcels : take[p] > 0 =>
        /\ p \in Bought /\ parcels[p].day <= d
        /\ take[p] <= parcels[p].units - UnitsTaken(sells, p, 1, d)

(* The units a sell takes are open in parcels bought by its date. *)
Available(take, d) ==
    \A p \in CgtParcels : take[p] > 0 =>
        /\ p \in Bought /\ parcels[p].day <= d
        /\ take[p] <= parcels[p].units - UnitsTaken(sells, p, 1, CgtDays)

RecordSell(d, take, price) ==
    /\ CgtWrite
    /\ \E p \in CgtParcels : take[p] > 0
    /\ Available(take, d)
    /\ LET n == UnitsSold([take |-> take])
       IN  sells' = Append(sells, [date |-> d, proceeds |-> price * n, take |-> take])
    /\ UNCHANGED <<parcels, payments, statements, coverage, openingLoss>>

CgtNext ==
    \/ \E p \in CgtParcels, d \in BuyDays, n \in LotUnits, c \in UnitCosts :
          AcquireParcel(p, d, n, c)
    \/ \E d \in PayDays, r \in PayRates, gap \in RecordGaps : PayCapital(d, r, gap)
    \/ \E y \in StatementYears, r \in StatementRates, g \in AttributedGains :
          EnterStatement(y, r, g)
    \/ \E p \in CgtParcels, s \in statements, n \in 1..Max(LotUnits) :
          CoverUnits(p, s, n)
    \/ \E d \in SellDays, take \in [CgtParcels -> 0..Max(LotUnits)],
          price \in UnitProceeds : RecordSell(d, take, price)

CgtSpec == CgtInit /\ [][CgtNext]_cgtVars

-----------------------------------------------------------------------------
CgtTypeOK ==
    /\ \A p \in CgtParcels :
          \/ parcels[p] = NoLot
          \/ parcels[p].day \in BuyDays /\ parcels[p].units \in LotUnits
    /\ \A pay \in payments : pay.date \in PayDays /\ pay.rate \in PayRates
    /\ \A s \in statements : s.year \in Fys /\ s.rate \in StatementRates
    /\ coverage \in [CgtParcels -> [Fys -> Nat]]
    /\ \A p \in CgtParcels : UnitsTaken(sells, p, 1, CgtDays) <= parcels[p].units
    /\ openingLoss \in OpeningLosses

(* Reference: what the registry pays on the units of a cohort, if they had
   joined it when the payment was fixed and were not sold before the payment,
   or had not left it when the payment was fixed. *)
PaidOn(p, c, pay) ==
    LET fixed == IF pay.record = NoRecord THEN pay.date ELSE pay.record
        registered == /\ Settled(parcels[p].day) <= fixed
                      /\ \/ c.left = StillHeld \/ c.left >= pay.date
                         \/ pay.record # NoRecord /\ Settled(c.left) > fixed
    IN  IF registered THEN pay.rate * c.units ELSE 0

(* Reference: what a statement takes off a parcel, its per-unit amount for
   each unit it covers and the parcel held during the year. *)
StatementTakes(p, s) ==
    s.rate * Least(coverage[p][s.year],
                   parcels[p].units - UnitsTaken(sells, p, 1, FyStart(s.year) - 1))

(***************************************************************************)
(* Every dollar of a parcel that is sold out is taxed once.  What the two  *)
(* reports make of it, the gains and losses of its sells and the E10, G1   *)
(* and C2 gains of its units, adds up to the money it brought: proceeds    *)
(* and returns of capital, plus what statements took off its cost, less    *)
(* that cost.  The two are computed by separate walks, over units grouped  *)
(* by the sell that took them, with a floor at nil in each.                *)
(***************************************************************************)
EveryDollarTaxedOnce ==
    \A p \in Bought :
        UnitsTaken(sells, p, 1, CgtDays) = parcels[p].units =>
            LET events == AmitEvents(sells, p)
                cohorts == Cohorts(sells, p)
                taxed(c) == ProceedsShare(sells[c.sell], p)
                            - RealisedCost(sells, c.sell, p)
                            + Total(CohortGains(p, c, events))
                brought(c) == ProceedsShare(sells[c.sell], p)
                              + Total({[pay |-> pay, amount |-> PaidOn(p, c, pay)] :
                                         pay \in payments})
            IN  Total({[cohort |-> c, amount |-> taxed(c) - brought(c)] : c \in cohorts})
                = Total({[statement |-> s, amount |-> StatementTakes(p, s)] :
                           s \in statements}) - parcels[p].cost

(* Reference: of all the ways to use the losses of a row, none leaves less. *)
RowUsesLossesBest(row, broughtForward) ==
    LET used == row.discount + row.other - row.netOther - row.netDiscount
        net(x, z) == row.other - x + (row.discount - z) - ToCents((row.discount - z) \div 2)
    IN  /\ row.losses + broughtForward = used + row.carried
        /\ row.carried > 0 => used = row.discount + row.other
        /\ \A x \in {CentGrain * k : k \in 0..(row.other \div CentGrain)} :
              used - x \in 0..row.discount => row.gain <= net(x, used - x)

(***************************************************************************)
(* The losses of a year, its own and the ones brought forward, are applied *)
(* in the order that leaves the least net capital gain of all orders, to   *)
(* the cent; a loss is used as soon as there is a gain to use it on, and   *)
(* over the years none is used twice or dropped.                           *)
(***************************************************************************)
LossesUsedBest ==
    sells # <<>> \/ statements # {} \/ payments # {} =>
        LET rows == Report(sells)
        IN  \A y \in Fys :
              RowUsesLossesBest(rows[y], IF y = 1 THEN ToCents(openingLoss)
                                         ELSE rows[y - 1].carried)

(***************************************************************************)
(* What the what-if report says of a sell is what the year's record says   *)
(* once the sell is recorded, unless a statement of that year covers units *)
(* of a parcel it picks: then recording it spreads the statement over the  *)
(* year's other disposals anew, which the report does not rehearse.        *)
(***************************************************************************)
WhatIfForetells ==
    [][Len(sells') > Len(sells) =>
         LET sell == sells'[Len(sells')]
             y == FyOf(sell.date)
         IN  (\A p \in Picked(sell) : coverage[p][y] = 0)
               => WhatIf(sells, sell) = Report(sells')[y]]_cgtVars
====
