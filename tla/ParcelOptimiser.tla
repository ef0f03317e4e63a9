--------------------------- MODULE ParcelOptimiser ---------------------------
(***************************************************************************)
(* The parcel-selection optimiser (reports/parcel_optimiser.rs): which     *)
(* open parcels a contemplated sale should draw on, under each strategy,   *)
(* and the Sell that records what it proposed.                             *)
(*                                                                         *)
(* One listing in one account, quantities in whole units.  A parcel's cost *)
(* is spread evenly over its units, which is how the strategies rank it.   *)
(* min_gain's exact minimum is compared with every allocation there is.    *)
(***************************************************************************)
EXTENDS Integers, Sequences, FiniteSets, FiniteSetsExt, Sums

CONSTANTS
    MaxOptParcels,  \* bound: parcels bought, trade ids 1..MaxOptParcels
    OptBuyDays,     \* days parcels are acquired on
    OptSaleDays,    \* days sales are contemplated for
    DiscountDays,   \* days of ownership a discount needs more than
    OptQuantities,  \* units a parcel is bought with
    OptUnitCosts,   \* cost base per unit
    OptPrices,      \* price per unit of a contemplated sale
    MaxOptSells     \* bound: sells recorded

ASSUME OptAssumption ==
    /\ {MaxOptParcels, MaxOptSells, DiscountDays} \subseteq Nat
    /\ OptQuantities \subseteq Nat \ {0} /\ OptQuantities # {}
    /\ OptBuyDays \union OptSaleDays \subseteq Nat \ {0} /\ IsFiniteSet(OptSaleDays)
    /\ OptUnitCosts \subseteq Nat /\ OptPrices \subseteq Nat

VARIABLES
    held,     \* parcels bought, by trade id: [acquired, quantity, unitCost]
    disposed, \* sells recorded: set of [n, date, picks]
    advice    \* the last response, NoAdvice once a write follows it

optVars == <<held, disposed, advice>>

Strategies == {"fifo", "min_gain", "max_discount", "harvest_losses"}
NoAdvice == [date |-> 0]

(* Units of p that sells took, up to day d. *)
TakenBy(p, d) ==
    LET taking == {s \in disposed : s.date <= d /\ p \in DOMAIN s.picks}
    IN  SumOver([s \in taking |-> s.picks[p]], taking)

(* db_candidate_parcels: what was open on the sale's date. *)
RemainingAt(p, d) == held[p].quantity - TakenBy(p, d)
Unsold(p) == RemainingAt(p, Max(OptSaleDays))

(* Mutant: parcels bought after the date are offered too. *)
CandidatesEver(d) == {p \in DOMAIN held : RemainingAt(p, d) > 0}

CandidatesAt(d) == {p \in DOMAIN held : held[p].acquired <= d /\ RemainingAt(p, d) > 0}

Quantity(cands, P) == SumOver([p \in P |-> cands[p].quantity], P)

(* An order of parcels as a relation, ties by acquisition date and trade id. *)
EarlierThan(cands, p, q) ==
    \/ cands[p].acquired < cands[q].acquired
    \/ cands[p].acquired = cands[q].acquired /\ p < q

CheaperThan(cands, p, q) ==
    \/ cands[p].gain < cands[q].gain
    \/ cands[p].gain = cands[q].gain /\ EarlierThan(cands, p, q)

(* Mutant: whole parcels until the units are met. *)
TakeWhole(c, n, ahead) == IF ahead < n THEN c.quantity ELSE 0

(* remaining_quantity.min(left), nothing once the units are met. *)
TakeOf(c, n, ahead) == Max({0, Min({c.quantity, n - ahead})})

(* The loop of allocate_parcels: n units from the parcels P in an order. *)
TakeInOrder(cands, P, n, Before(_, _)) ==
    [p \in P |-> TakeOf(cands[p], n, Quantity(cands, {q \in P : Before(q, p)}))]

-----------------------------------------------------------------------------
(* min_gain_picks *)

LossParcels(cands) == {p \in DOMAIN cands : cands[p].gain <= 0}
DiscountedParcels(cands) ==
    {p \in DOMAIN cands : cands[p].gain > 0 /\ cands[p].eligible}
OtherParcels(cands) ==
    {p \in DOMAIN cands : cands[p].gain > 0 /\ ~cands[p].eligible}

GainOf(cands, picks) ==
    SumOver([p \in DOMAIN picks |-> cands[p].gain * picks[p]], DOMAIN picks)

(* prefix_gain: the gain of the cheapest k units of a class. *)
Cheapest(cands, P, k) ==
    TakeInOrder(cands, P, k, LAMBDA p, q : CheaperThan(cands, p, q))
PrefixGain(cands, P, k) == GainOf(cands, Cheapest(cands, P, k))

(* The units of `other` at which its gain overtakes the loss, both ways
   rounded to a whole unit. *)
Crossings(cands, other, loss) ==
    UNION {LET ahead == {q \in other : CheaperThan(cands, q, p)}
               before == GainOf(cands, [q \in ahead |-> cands[q].quantity])
               units == Quantity(cands, ahead)
               g == cands[p].gain
           IN  IF before < loss /\ loss <= before + g * cands[p].quantity
               THEN {units + (loss - before) \div g,
                     units + (loss - before + g - 1) \div g}
               ELSE {} : p \in other}

(* Mutant: the crossing is not a breakpoint. *)
BreakpointsOfParcels(cands, other, discounted, left, loss) ==
    LET upTo(P, p) == {q \in P : q = p \/ CheaperThan(cands, q, p)}
    IN  {Quantity(cands, upTo(other, p)) : p \in other}
        \union {left - Quantity(cands, upTo(discounted, p)) : p \in discounted}

Breakpoints(cands, other, discounted, left, loss) ==
    LET upTo(P, p) == {q \in P : q = p \/ CheaperThan(cands, q, p)}
    IN  Crossings(cands, other, loss)
        \union {Quantity(cands, upTo(other, p)) : p \in other}
        \union {left - Quantity(cands, upTo(discounted, p)) : p \in discounted}

(* Losses first; then the k non-discountable units, of the breakpoints within
   reach, that cost least, and discount-eligible units for the rest. *)
MinGainPicks(cands, n) ==
    LET losses == LossParcels(cands)
        other == OtherParcels(cands)
        discounted == DiscountedParcels(cands)
        lossPicks == Cheapest(cands, losses, n)
        left == n - Min({n, Quantity(cands, losses)})
        loss == -GainOf(cands, lossPicks)
        lo == Max({0, left - Quantity(cands, discounted)})
        hi == Min({left, Quantity(cands, other)})
        cost(k) == LET o == PrefixGain(cands, other, k)
                   IN  o + PrefixGain(cands, discounted, left - k) + Max({o - loss, 0})
        within == {k \in {lo, hi} \union
                         Breakpoints(cands, other, discounted, left, loss) :
                     k \in lo..hi}
        costs == {<<cost(k), k>> : k \in within}
        best == CHOOSE c \in costs : \A x \in costs :
                    c[1] < x[1] \/ (c[1] = x[1] /\ c[2] <= x[2])
        otherPicks == Cheapest(cands, other, best[2])
        discountedPicks == Cheapest(cands, discounted, left - best[2])
    IN  [p \in DOMAIN cands |->
            IF p \in losses THEN lossPicks[p]
            ELSE IF p \in other THEN otherPicks[p] ELSE discountedPicks[p]]

(* Mutant: the smallest losses are harvested first. *)
HarvestsSmallest(cands, p, q) ==
    LET lp == cands[p].gain < 0
        lq == cands[q].gain < 0
    IN  \/ lp /\ ~lq
        \/ lp /\ lq /\ CheaperThan(cands, q, p)
        \/ ~lp /\ ~lq /\ EarlierThan(cands, p, q)

HarvestsBefore(cands, p, q) ==
    LET lp == cands[p].gain < 0
        lq == cands[q].gain < 0
    IN  \/ lp /\ ~lq
        \/ lp /\ lq /\ CheaperThan(cands, p, q)
        \/ ~lp /\ ~lq /\ EarlierThan(cands, p, q)

DiscountGroup(c) == IF c.gain > 0 /\ c.eligible THEN 0 ELSE IF c.gain <= 0 THEN 1 ELSE 2

DiscountsBefore(cands, p, q) ==
    \/ DiscountGroup(cands[p]) < DiscountGroup(cands[q])
    \/ DiscountGroup(cands[p]) = DiscountGroup(cands[q]) /\ EarlierThan(cands, p, q)

(* allocate_parcels: the units each strategy takes of each candidate. *)
Allocate(cands, n, strategy) ==
    LET all == DOMAIN cands
    IN  CASE strategy = "fifo" ->
                TakeInOrder(cands, all, n, LAMBDA p, q : EarlierThan(cands, p, q))
          [] strategy = "min_gain" -> MinGainPicks(cands, n)
          [] strategy = "max_discount" ->
                TakeInOrder(cands, all, n, LAMBDA p, q : DiscountsBefore(cands, p, q))
          [] strategy = "harvest_losses" ->
                TakeInOrder(cands, all, n, LAMBDA p, q : HarvestsBefore(cands, p, q))

-----------------------------------------------------------------------------
OptInit ==
    /\ held = <<>>
    /\ disposed = {}
    /\ advice = NoAdvice

BuyParcel(d, n, c) ==
    /\ Len(held) < MaxOptParcels
    /\ held' = Append(held, [acquired |-> d, quantity |-> n, unitCost |-> c])
    /\ advice' = NoAdvice
    /\ UNCHANGED disposed

(* optimiser_handler: refused past the units open on the date. *)
Optimise(d, n, price) ==
    LET open == CandidatesAt(d)
        cands == [p \in open |-> [acquired |-> held[p].acquired,
                                  quantity |-> RemainingAt(p, d),
                                  gain |-> price - held[p].unitCost,
                                  eligible |-> d - DiscountDays > held[p].acquired]]
    IN  /\ advice = NoAdvice
        /\ n <= Quantity(cands, open)
        /\ advice' = [date |-> d, units |-> n, cands |-> cands,
                      picks |-> [s \in Strategies |-> Allocate(cands, n, s)]]
        /\ UNCHANGED <<held, disposed>>

(* sell.rs: the units no sell, whatever its date, has taken yet. *)
Accepts(picks, d) ==
    \A p \in DOMAIN picks : held[p].acquired <= d /\ picks[p] <= Unsold(p)

RecordAdvised(s) ==
    /\ advice # NoAdvice
    /\ Cardinality(disposed) < MaxOptSells
    /\ Accepts(advice.picks[s], advice.date)
    /\ disposed' = disposed \union {[n |-> Cardinality(disposed) + 1,
                                     date |-> advice.date, picks |-> advice.picks[s]]}
    /\ advice' = NoAdvice
    /\ UNCHANGED held

OptNext ==
    \/ \E d \in OptBuyDays, n \in OptQuantities, c \in OptUnitCosts : BuyParcel(d, n, c)
    \/ \E d \in OptSaleDays, price \in OptPrices :
          \E n \in 1..(MaxOptParcels * Max(OptQuantities)) : Optimise(d, n, price)
    \/ \E s \in Strategies : RecordAdvised(s)

OptSpec == OptInit /\ [][OptNext]_optVars

-----------------------------------------------------------------------------
(* Every strategy allocates the units asked for, within what it may take;
   no parcel is sold past its units. *)
OptTypeOK ==
    /\ advice # NoAdvice => \A s \in Strategies :
          /\ \A p \in DOMAIN advice.cands :
                advice.picks[s][p] \in 0..advice.cands[p].quantity
          /\ SumOver(advice.picks[s], DOMAIN advice.cands) = advice.units
    /\ \A p \in DOMAIN held : Unsold(p) >= 0

(* Reference: all the ways to draw n units. *)
Allocations(cands, n) ==
    LET most == Max({cands[p].quantity : p \in DOMAIN cands})
    IN  {a \in [DOMAIN cands -> 0..most] :
            /\ \A p \in DOMAIN cands : a[p] <= cands[p].quantity
            /\ SumOver(a, DOMAIN cands) = n}

(* Reference: twice the gain an allocation adds to a year with nothing else,
   netted as net_years does. *)
AssessableTwice(cands, a) ==
    LET part(P) == SumOver([p \in P |-> cands[p].gain * a[p]], P)
        loss == -part(LossParcels(cands))
        other == part(OtherParcels(cands))
        discounted == part(DiscountedParcels(cands))
        rest == Max({0, loss - other})
    IN  2 * Max({0, other - loss}) + Max({0, discounted - rest})

(***************************************************************************)
(* min_gain is the exact minimum docs/API.md promises: no allocation of    *)
(* the same units nets to a smaller assessable gain.  The code looks at a  *)
(* handful of breakpoints only; the convexity that makes those enough has  *)
(* its edge where a loss runs out in the middle of a parcel.  And          *)
(* harvest_losses realises the largest capital loss the units can realise. *)
(***************************************************************************)
StrategiesOptimal ==
    LET losses == LossParcels(advice.cands)
        lossOf(a) == -SumOver([p \in losses |-> advice.cands[p].gain * a[p]], losses)
    IN  advice # NoAdvice =>
            LET least == AssessableTwice(advice.cands, advice.picks["min_gain"])
                most == lossOf(advice.picks["harvest_losses"])
            IN  \A a \in Allocations(advice.cands, advice.units) :
                    least <= AssessableTwice(advice.cands, a) /\ lossOf(a) <= most

(***************************************************************************)
(* What the optimiser proposes can be recorded as the Sell it describes,   *)
(* unless a parcel it offers was drawn on by a sell dated later: the       *)
(* candidates are the parcels open on the sale's date, the Sell wants      *)
(* units that no sell has taken.                                           *)
(***************************************************************************)
AdviceRecordable ==
    advice # NoAdvice =>
        \/ \A s \in Strategies : Accepts(advice.picks[s], advice.date)
        \/ \E sale \in disposed, p \in DOMAIN advice.cands :
              sale.date > advice.date /\ p \in DOMAIN sale.picks /\ sale.picks[p] > 0
====
