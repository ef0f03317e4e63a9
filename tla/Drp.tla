---------------------------------- MODULE Drp ----------------------------------
(***************************************************************************)
(* Dividend reinvestment of one listing in one holding account: the dated  *)
(* enrolment periods (src/entities/drp_enrolment.rs), the distributions    *)
(* (src/entities/income.rs) and the DRP trades a reinvestment makes of     *)
(* them (src/entities/drp_reinvestment.rs).                                *)
(*                                                                         *)
(* Each reinvestment leaves some cash over.  The next reinvestment of its  *)
(* period brings it forward, or it is refunded: which of the two is stored *)
(* on the trade but derived from the period and from the trade's place in  *)
(* the chain, so every write of either re-derives it.                      *)
(*                                                                         *)
(* Every handler is one write transaction.  Its refusals that rest on      *)
(* other tables (a drawn-on parcel, a whole-holding operation, the unit    *)
(* grid, the listing's currency, an unrepresentable figure) leave the      *)
(* state as it is and are steps not taken here.                            *)
(***************************************************************************)
EXTENDS Integers, FiniteSets, FiniteSetsExt

CONSTANTS
    Distributions,  \* income row ids
    MaxPeriods,     \* bound: enrolment periods
    DrpDays,        \* bound: dates are 1..DrpDays
    Cash,           \* net_cash_received of a distribution
    UnitPrice       \* the reinvestment price

ASSUME DrpAssumption ==
    /\ {DrpDays, MaxPeriods} \subseteq Nat
    /\ Cash \subseteq Nat
    /\ UnitPrice \in Nat \ {0}

DrpDates == 1..DrpDays
Open == DrpDays + 1             \* no unenrolment date
Handlings == {"CarryForward", "PayOut"}
NoDistribution == [ex |-> 0, cash |-> 0, trade |-> 0]

Period == [start : DrpDates, end : 2..Open, handling : Handlings]

VARIABLES
    periods,    \* drp_enrolments; no two rows are alike
    income,     \* the distributions: entitlement date, cash, reinvestment_trade_id
    drpTrades,  \* the DRP trades: id, date and the three residual columns
    reshaped,   \* history: trades of a chain that a period write re-shaped
    undone      \* history: trades that an undo has left as the tail since the
                \* last re-derivation

drpVars == <<periods, income, drpTrades, reshaped, undone>>

-----------------------------------------------------------------------------
(* PERIOD_TRADES_FROM_WHERE: a period covers the reinvestments of the      *)
(* distributions whose entitlement date it contains.                       *)

Covers(p, d) == p.start <= d /\ d < p.end

FundedBy(t) == {i \in Distributions : income[i].trade = t.id}

Covered(inc, trades, p) ==
    {t \in trades : \E i \in Distributions :
        inc[i].trade = t.id /\ Covers(p, inc[i].ex)}

(* Payment order: (date, id). *)
Before(s, t) == s.date < t.date \/ (s.date = t.date /\ s.id < t.id)

Leftover(t) == t.carried + t.paid

(* DrpEnrolment::residual_split. *)
Refunded(p, isTail) ==
    p.handling = "PayOut" \/ (isTail /\ p.end # Open)

ResidualSplit(p, left, isTail) ==
    IF Refunded(p, isTail) THEN [carried |-> 0, paid |-> left]
                           ELSE [carried |-> left, paid |-> 0]

IsTail(t, chain) == \A s \in chain : ~Before(t, s)

(* Mutant: re-deriving only ever moves a leftover from carried to paid. *)
RederivedOneWay(t, p, chain) ==
    IF Refunded(p, IsTail(t, chain))
    THEN [t EXCEPT !.carried = 0, !.paid = Leftover(t)] ELSE t

Rederived(t, p, chain) ==
    LET split == ResidualSplit(p, Leftover(t), IsTail(t, chain))
    IN  [t EXCEPT !.carried = split.carried, !.paid = split.paid]

(* recompute_residuals: the whole chain of one period. *)
RecomputeResiduals(inc, trades, p) ==
    LET chain == Covered(inc, trades, p)
    IN  (trades \ chain) \union {Rederived(t, p, chain) : t \in chain}

-----------------------------------------------------------------------------
DrpInit ==
    /\ periods = {}
    /\ income = [i \in Distributions |-> NoDistribution]
    /\ drpTrades = {}
    /\ reshaped = {} /\ undone = {}

(* income::db_upsert, an edit included: while the row is not reinvested    *)
(* every figure may change, while it is none of these may.                 *)
PutDistribution(i, ex, cash) ==
    /\ income[i].trade = 0
    /\ income' = [income EXCEPT ![i] = [ex |-> ex, cash |-> cash, trade |-> 0]]
    /\ UNCHANGED <<periods, drpTrades, reshaped, undone>>

(* Mutant: a reinvested row can be deleted too. *)
DeleteDistributionLinked(i) ==
    /\ income[i] # NoDistribution
    /\ income' = [income EXCEPT ![i] = NoDistribution]
    /\ UNCHANGED <<periods, drpTrades, reshaped, undone>>

(* income::db_delete. *)
DeleteDistribution(i) ==
    /\ income[i] # NoDistribution
    /\ income[i].trade = 0
    /\ income' = [income EXCEPT ![i] = NoDistribution]
    /\ UNCHANGED <<periods, drpTrades, reshaped, undone>>

(* Mutant: only a period that starts inside the new one is seen. *)
OverlapsInside(p, q) == p.start <= q.start /\ q.start < p.end

Overlaps(p, q) == p.start < q.end /\ q.start < p.end

Ids(trades) == {t.id : t \in trades}

ChainOf(p) == Covered(income, drpTrades, p)

(* The trades of a chain whose members or handling change when period old  *)
(* becomes new.                                                            *)
ReshapedBy(old, new) ==
    IF ChainOf(old) = ChainOf(new) /\ old.handling = new.handling THEN {}
    ELSE Ids(ChainOf(old) \union ChainOf(new))

PeriodFits(p, others) == p.start < p.end /\ \A q \in others : ~Overlaps(p, q)

(* drp_enrolment::write of a new row. *)
CreatePeriod(p) ==
    /\ Cardinality(periods) < MaxPeriods
    /\ PeriodFits(p, periods)
    /\ periods' = periods \union {p}
    /\ drpTrades' = RecomputeResiduals(income, drpTrades, p)
    /\ reshaped' = reshaped \union Ids(ChainOf(p))
    /\ undone' = undone \ Ids(ChainOf(p))
    /\ UNCHANGED income

(* drp_enrolment::write over an existing row. *)
ReplacePeriod(old, p) ==
    /\ PeriodFits(p, periods \ {old})
    /\ periods' = (periods \ {old}) \union {p}
    /\ drpTrades' = RecomputeResiduals(income, drpTrades, p)
    /\ reshaped' = reshaped \union ReshapedBy(old, p)
    /\ undone' = undone \ Ids(ChainOf(p))
    /\ UNCHANGED income

(* drp_enrolment::write naming another listing or account: the period      *)
(* leaves this chain and the residuals of the other one are re-derived.    *)
MovePeriodAway(p) ==
    /\ periods' = periods \ {p}
    /\ reshaped' = reshaped \union Ids(ChainOf(p))
    /\ UNCHANGED <<income, drpTrades, undone>>

(* drp_enrolment::db_delete. *)
DeletePeriod(p) ==
    /\ ChainOf(p) = {}
    /\ periods' = periods \ {p}
    /\ UNCHANGED <<income, drpTrades, reshaped, undone>>

(* The new row's id exceeds every existing one. *)
NextTradeId == 1 + Max(Ids(drpTrades) \union {0})

(* No reinvestment of the period is dated after this one. *)
JoinsAtTail(chain, date) == \A t \in chain : t.date <= date

(* Mutant: the prior trade's carried column is taken as the answer. *)
StoredCarry(p, chain) ==
    IF chain = {} THEN 0
    ELSE (CHOOSE t \in chain : IsTail(t, chain)).carried

(* What the prior trade leaves over, split for the place it is about to    *)
(* take in the chain.                                                      *)
BroughtForward(p, chain) ==
    IF chain = {} THEN 0
    ELSE ResidualSplit(p, Leftover(CHOOSE t \in chain : IsTail(t, chain)), FALSE).carried

(* Units are computed, or stated as a whole count: in both the cash that   *)
(* buys no whole unit is left over, unless the statement rounded the count *)
(* up.  Units stated to decimals leave nothing over.                       *)
Leftovers(available) == {available % UnitPrice, 0}

(* drp_reinvestment::execute in Commit mode; a dry run rolls it back. *)
Reinvest(i, date) ==
    \E p \in periods, left \in 0..(UnitPrice - 1) :
        LET chain == ChainOf(p)
            bf == BroughtForward(p, {t \in chain : t.date <= date})
            split == ResidualSplit(p, left, TRUE)
            new == [id |-> NextTradeId, date |-> date, bf |-> bf,
                    carried |-> split.carried, paid |-> split.paid]
        IN  /\ income[i] # NoDistribution
            /\ income[i].trade = 0
            /\ Covers(p, income[i].ex)
            /\ JoinsAtTail(chain, date)
            /\ left \in Leftovers(income[i].cash + bf)
            /\ income' = [income EXCEPT ![i].trade = new.id]
            /\ drpTrades' = RecomputeResiduals(income', drpTrades \union {new}, p)
            /\ undone' = undone \ Ids(chain)
            /\ UNCHANGED <<periods, reshaped>>

(* No later DRP trade of the listing and account, in any period. *)
IsLast(t) == \A s \in drpTrades : ~Before(t, s)

(* db_unreinvest: the link is cleared and the trade deleted. *)
Unreinvest(i) ==
    \E t \in drpTrades :
        /\ income[i].trade = t.id
        /\ IsLast(t)
        /\ income' = [income EXCEPT ![i].trade = 0]
        /\ drpTrades' = drpTrades \ {t}
        /\ reshaped' = reshaped \ {t.id}
        /\ undone' = (undone \ {t.id}) \union
               Ids({s \in drpTrades \ {t} : \E p \in periods :
                      /\ {s, t} \subseteq ChainOf(p)
                      /\ IsTail(s, ChainOf(p) \ {t})})
        /\ UNCHANGED periods

DrpNext ==
    \/ \E i \in Distributions :
          \/ \E ex \in DrpDates, cash \in Cash : PutDistribution(i, ex, cash)
          \/ DeleteDistribution(i)
          \/ \E date \in DrpDates : Reinvest(i, date)
          \/ Unreinvest(i)
    \/ \E p \in Period : CreatePeriod(p)
    \/ \E p \in periods :
          \/ \E q \in Period : ReplacePeriod(p, q)
          \/ MovePeriodAway(p)
          \/ DeletePeriod(p)

DrpSpec == DrpInit /\ [][DrpNext]_drpVars

-----------------------------------------------------------------------------
(* Periods do not overlap, and every DRP trade has exactly one distribution
   that funded it. *)
DrpTypeOK ==
    /\ periods \subseteq Period /\ Cardinality(periods) <= MaxPeriods
    /\ \A p, q \in periods : p # q => ~Overlaps(p, q)
    /\ income \in [Distributions ->
            [ex : DrpDates, cash : Cash, trade : Nat] \union {NoDistribution}]
    /\ drpTrades \subseteq [id : Nat \ {0}, date : DrpDates,
            bf : 0..(UnitPrice - 1), carried : 0..(UnitPrice - 1),
            paid : 0..(UnitPrice - 1)]
    /\ \A s, t \in drpTrades : s.id = t.id => s = t
    /\ \A t \in drpTrades : Cardinality(FundedBy(t)) = 1
    /\ reshaped \subseteq Ids(drpTrades) /\ undone \subseteq Ids(drpTrades)

(***************************************************************************)
(* Cash is brought forward once and from where it was left: between two    *)
(* neighbours of a period's chain that no period write re-shaped, the      *)
(* later one brought forward exactly what the earlier one carries, so no   *)
(* leftover is both refunded and spent, spent twice or lost.               *)
(***************************************************************************)
Neighbours(s, t, chain) ==
    Before(s, t) /\ \A u \in chain : ~(Before(s, u) /\ Before(u, t))

ChainConserved ==
    \A p \in periods : \A s, t \in ChainOf(p) :
        Neighbours(s, t, ChainOf(p)) /\ {s.id, t.id} \cap reshaped = {}
            => t.bf = s.carried

(***************************************************************************)
(* The stored split of every covered reinvestment is the one its period    *)
(* and its place in the chain give, through every write of either; the     *)
(* exception is a trade that an undo made the last of its chain, which     *)
(* nothing re-derives until the next write of the period.                  *)
(***************************************************************************)
SplitDerived ==
    \A p \in periods : \A t \in ChainOf(p) :
        t.id \notin undone =>
            [carried |-> t.carried, paid |-> t.paid]
                = ResidualSplit(p, Leftover(t), IsTail(t, ChainOf(p)))
====
