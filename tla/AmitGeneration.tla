---------------------------- MODULE AmitGeneration ----------------------------
(***************************************************************************)
(* Applying an AMMA statement to the parcels it covers: the generation of  *)
(* a statement's AMIT adjustments (src/entities/amit_adjustment_generation *)
(* .rs) and the checks every adjustment row passes, typed or generated     *)
(* (src/entities/amit_adjustment.rs), over the parcels of one fund as they *)
(* are bought, sold, transferred between accounts and exchanged.           *)
(*                                                                         *)
(* A statement is a listing, an account and a year end, and may be written *)
(* anew with other ones (src/entities/amma.rs).  Its units are the ones    *)
(* open in the account at the year end; what a later transfer moved is     *)
(* followed into the parcel it was moved into, as often as it moved.  Unit *)
(* bases (splits) are left out: every quantity is in one basis.            *)
(***************************************************************************)
EXTENDS Integers, FiniteSets, FiniteSetsExt, SequencesExt, Sums

CONSTANTS
    FundAccounts,   \* the holding accounts
    Holders,        \* the accounts that receive AMMA statements
    StatementIds,   \* bound: the ids of statements
    FundDays,       \* bound: dates are 1..FundDays
    YearLength,     \* days in a financial year
    LotSizes,       \* quantities of a purchase
    MaxLots,        \* bound: parcels
    MaxFundWrites,  \* bound: writes to trades and of stored statements
    MaxTyped        \* bound: stored rows when one more is typed in

ASSUME AmitAssumption ==
    /\ Holders \subseteq FundAccounts
    /\ {FundDays, YearLength, MaxLots} \subseteq Nat \ {0}
    /\ {MaxFundWrites, MaxTyped} \subseteq Nat
    /\ LotSizes \subseteq Nat \ {0}

FundDates == 1..FundDays
YearEnds == {d \in FundDates : d % YearLength = 0}
YearStart(end) == end - YearLength + 1

(* What a statement may say: of the fund or of the listing it is exchanged *)
(* for, to whom, and of the year that ends when.                           *)
Statements == [fund : BOOLEAN, account : Holders, end : YearEnds]

VARIABLES
    lots,        \* the parcels: trades of type Buy and DRP, by id
    draws,       \* parcel_allocations, each with its sale's date and group
    ammaStatements,  \* amma_statements: what each one stored says, by id
    adjustments, \* amit_adjustments; `of` is a ghost, the holding that its
                 \* statement was for when the row was checked
    fundWrites

amitVars == <<lots, draws, ammaStatements, adjustments, fundWrites>>

Units(set) == SumOver([x \in set |-> x.units], set)

DrawsOn(l) == {d \in draws : d.lot = l}
RolloversOf(l) == {d \in DrawsOn(l) : d.kind # "sell"}
Remaining(l) == lots[l].units - Units(DrawsOn(l))
GroupLots(g) == {l \in DOMAIN lots : lots[l].group = g}
NextLot == 1 + Max(DOMAIN lots \union {0})
NextGroup == 1 + Max({d.group : d \in draws} \union {0})

(* open_parcels::load as at a date, for the statement's own holding. *)
UnitsAt(l, date) ==
    lots[l].units - Units({d \in DrawsOn(l) : d.date <= date})

OfHolding(l, s) == lots[l].fund = s.fund /\ lots[l].account = s.account

HeldFor(s) ==
    {l \in DOMAIN lots : /\ OfHolding(l, s)
                         /\ lots[l].date <= s.end /\ UnitsAt(l, s.end) > 0}

-----------------------------------------------------------------------------
(* Where a statement's units are now. *)

(* Mutant: every parcel that looks like the one moved. *)
MatchingAll(d, acquired) ==
    IF d.kind # "transfer" THEN {}
    ELSE {r \in GroupLots(d.group) :
            lots[r].units = d.units /\ lots[r].acquired = acquired}

(* Movement::matching_replacement: the transfer-in parcel with the units   *)
(* moved and the acquisition date they keep; the first of several.         *)
MatchingReplacement(d, acquired) ==
    IF d.kind # "transfer" THEN {}
    ELSE LET like == {r \in GroupLots(d.group) :
                        lots[r].units = d.units /\ lots[r].acquired = acquired}
         IN  IF like = {} THEN {} ELSE {Min(like)}

(* Holding: some units that a parcel held at the year end (its root), and  *)
(* the moves since that brought them to the parcel they are in.            *)
Holding == [root : Nat, lot : Nat, units : Nat, moves : SUBSET draws]

(* db_rollovers_of, the ones after the year end. *)
MovedSince(l, end) == {d \in RolloversOf(l) : d.date > end}
OlderMove(c, d) == c.date < d.date \/ (c.date = d.date /\ c.group < d.group)

(* What the older moves of the parcel leave of a holding. *)
LeftBy(h, d, end) == h.units - Units({c \in MovedSince(h.lot, end) : OlderMove(c, d)})

(* The moves that carry some of a holding, and what one carries into r. *)
Carriers(h, end) == {d \in MovedSince(h.lot, end) : LeftBy(h, d, end) > 0}
Carried(h, d, r, end) ==
    [root |-> h.root, lot |-> r, units |-> Min({LeftBy(h, d, end), d.units}),
     moves |-> h.moves \union {d}]

Placed(h, units, moves, by) ==
    {[root |-> h.root, lot |-> h.lot, units |-> units, moves |-> moves, by |-> by]}

(* What stays behind is a row; what moved is followed where it can be told, *)
(* and left for hand entry where it cannot.                                *)
PlacedFrom(h, end, follow) ==
    LET staying == h.units - Units(MovedSince(h.lot, end))
        into(d) == MatchingReplacement(d, lots[h.lot].acquired)
    IN  (IF staying > 0 THEN Placed(h, staying, h.moves, "row") ELSE {})
        \union UNION {IF into(d) = {} THEN Placed(h, d.units, h.moves \union {d}, "hand")
                      ELSE UNION {follow[Carried(h, d, r, end)] : r \in into(d)}
                        : d \in Carriers(h, end)}

(* Placement::place: the rows written for the units of a parcel held at    *)
(* the year end, and the units left for hand entry.                        *)
Place(root, units, end) ==
    LET follow[h \in Holding] == PlacedFrom(h, end, follow)
    IN  follow[[root |-> root, lot |-> root, units |-> units, moves |-> {}]]

Placement(s) ==
    UNION {Place(l, UnitsAt(l, s.end), s.end) : l \in HeldFor(s)}

GeneratedRows(s) == {p \in Placement(s) : p.by = "row"}

-----------------------------------------------------------------------------
(* db_write_on: the checks of one row. *)

(* rollover::group_sources: the parcels consumed by the group that made l. *)
Sources(l) == {d.lot : d \in {e \in draws : lots[l].group # 0 /\ e.group = lots[l].group}}

(* rollover::source_ancestors: its sources, theirs, and so on.  The depth  *)
(* of the walk is not bounded here.                                        *)
Ancestors(l) ==
    {k \in DOMAIN lots :
        \A set \in SUBSET DOMAIN lots :
            Sources(l) \subseteq set /\ (\A m \in set : Sources(m) \subseteq set) => k \in set}

TracesBack(l, s) == OfHolding(l, s) \/ \E k \in Ancestors(l) : OfHolding(k, s)

(* Mutant: units sold are not left to adjust. *)
AdjustableOpen(l) == lots[l].units - Units(DrawsOn(l))

Adjustable(l) == lots[l].units - Units(RolloversOf(l))

HeldInYear(l, s) ==
    lots[l].units - Units({d \in DrawsOn(l) : d.date < YearStart(s.end)})

RowAllowed(s, l, units) ==
    /\ l \in DOMAIN lots
    /\ TracesBack(l, s)
    /\ units <= lots[l].units
    /\ units <= Adjustable(l)
    /\ units <= HeldInYear(l, s)

RowsOf(i) == {a \in adjustments : a.statement = i}

(* Every generated row passes, no two of them on one parcel. *)
GenerationAllowed(s) ==
    LET rows == GeneratedRows(s)
    IN  /\ \A r \in rows : RowAllowed(s, r.lot, r.units)
        /\ Cardinality({r.lot : r \in rows}) = Cardinality(rows)

-----------------------------------------------------------------------------
AmitInit ==
    /\ lots = <<>> /\ draws = {} /\ ammaStatements = <<>>
    /\ adjustments = {} /\ fundWrites = 0

FundWrite ==
    /\ fundWrites < MaxFundWrites
    /\ fundWrites' = fundWrites + 1
    /\ UNCHANGED <<ammaStatements, adjustments>>

WithLot(l, r) == [k \in DOMAIN lots \union {l} |-> IF k = l THEN r ELSE lots[k]]

ExchangedAfter(date) == \E d \in draws : d.kind = "exchange" /\ d.date >= date

BuyLot(account, date, units) ==
    /\ FundWrite
    /\ Cardinality(DOMAIN lots) < MaxLots
    /\ ~ExchangedAfter(date)
    /\ lots' = WithLot(NextLot, [account |-> account, fund |-> TRUE, date |-> date,
                                 units |-> units, acquired |-> date, group |-> 0])
    /\ UNCHANGED draws

Adjusted(l) == \E a \in adjustments : a.lot = l

(* Mutant: only allocations freeze the account of a parcel. *)
FreezingAllocated(l) == DrawsOn(l) # {}

(* drawn_on: what freezes the account of a parcel. *)
Freezing(l) == DrawsOn(l) # {} \/ Adjusted(l)

(* trade::db_upsert over a bought parcel: its size covers what was drawn   *)
(* and adjusted, and it stays in its account while anything is.            *)
EditLot(l, account, units) ==
    /\ FundWrite
    /\ lots[l].group = 0
    /\ account # lots[l].account => ~Freezing(l)
    /\ units >= Units(DrawsOn(l))
    /\ \A a \in adjustments : a.lot = l => units >= a.units
    /\ lots' = [lots EXCEPT ![l].account = account, ![l].units = units]
    /\ UNCHANGED draws

SellLot(l, date, units) ==
    /\ FundWrite
    /\ lots[l].date <= date /\ units <= Remaining(l)
    /\ draws' = draws \union {[lot |-> l, date |-> date, units |-> units,
                               kind |-> "sell", group |-> NextGroup]}
    /\ UNCHANGED lots

(* The ids of one new parcel for each of a set. *)
NewLots(set) == NextLot..(NextLot + Cardinality(set) - 1)

(* A transfer of some units of each of a set of parcels of one account: a  *)
(* transfer-in parcel for each, in the order given.                        *)
TransferLots(moved, from, to, date) ==
    LET ids == SetToSeq(DOMAIN moved)
        new == [i \in DOMAIN ids |->
                  [account |-> to, fund |-> TRUE, date |-> date,
                   units |-> moved[ids[i]], acquired |-> lots[ids[i]].acquired,
                   group |-> NextGroup]]
    IN  /\ FundWrite
        /\ Cardinality(DOMAIN lots) + Cardinality(DOMAIN moved) <= MaxLots
        /\ from # to
        /\ ~ExchangedAfter(date)
        /\ \A l \in DOMAIN moved : /\ lots[l].fund /\ lots[l].account = from
                                   /\ lots[l].date <= date
                                   /\ moved[l] <= Remaining(l)
        /\ draws' = draws \union
              {[lot |-> l, date |-> date, units |-> moved[l], kind |-> "transfer",
                group |-> NextGroup] : l \in DOMAIN moved}
        /\ lots' = [k \in DOMAIN lots \union NewLots(DOMAIN moved) |->
                      IF k \in DOMAIN lots THEN lots[k] ELSE new[k - NextLot + 1]]

(* Mutant: a transfer-in parcel with adjustments goes with its transfer. *)
DeletableDrawnOnly(g) == \A l \in GroupLots(g) : DrawsOn(l) = {}

(* Nothing draws on, and nothing adjusts, a parcel the group made. *)
Deletable(g) == \A l \in GroupLots(g) : DrawsOn(l) = {} /\ ~Adjusted(l)

(* transfer::db_delete and, for an exchange, the delete of its closing Sell. *)
DeleteGroup(g) ==
    /\ FundWrite
    /\ Deletable(g)
    /\ draws' = {d \in draws : d.group # g}
    /\ lots' = [k \in DOMAIN lots \ GroupLots(g) |-> lots[k]]

(* scrip_exchange: every open parcel of the fund becomes twice its units   *)
(* of another listing, in its own account.                                 *)
ExchangeFund(date) ==
    LET open == {l \in DOMAIN lots : lots[l].fund /\ lots[l].date <= date /\ Remaining(l) > 0}
        ids == SetToSeq(open)
    IN  /\ FundWrite
        /\ open # {}
        /\ ~ExchangedAfter(date)
        /\ \A d \in draws : d.date <= date
        /\ Cardinality(DOMAIN lots) + Cardinality(open) <= MaxLots
        /\ draws' = draws \union
              {[lot |-> l, date |-> date, units |-> Remaining(l), kind |-> "exchange",
                group |-> NextGroup] : l \in open}
        /\ lots' = [k \in DOMAIN lots \union NewLots(open) |->
              IF k \in DOMAIN lots THEN lots[k]
              ELSE LET l == ids[k - NextLot + 1] IN
                   [account |-> lots[l].account, fund |-> FALSE, date |-> date,
                    units |-> 2 * Remaining(l), acquired |-> lots[l].acquired,
                    group |-> NextGroup]]

WithStatement(i, s) ==
    [k \in DOMAIN ammaStatements \union {i} |-> IF k = i THEN s ELSE ammaStatements[k]]

(* amma::write: the figures of the new statement are checked, never the    *)
(* rows that adjust parcels for the old one.                               *)
CreateStatement(i, s) ==
    /\ i \notin DOMAIN ammaStatements
    /\ ammaStatements' = WithStatement(i, s)
    /\ UNCHANGED <<lots, draws, adjustments, fundWrites>>

ReplaceStatement(i, s) ==
    /\ fundWrites < MaxFundWrites
    /\ fundWrites' = fundWrites + 1
    /\ ammaStatements' = WithStatement(i, s)
    /\ UNCHANGED <<lots, draws, adjustments>>

(* The foreign key of amit_adjustments keeps a statement that has rows.    *)
DeleteStatement(i) ==
    /\ RowsOf(i) = {}
    /\ ammaStatements' = [k \in DOMAIN ammaStatements \ {i} |-> ammaStatements[k]]
    /\ UNCHANGED <<lots, draws, adjustments, fundWrites>>

(* The holding a statement is for, and a row of it. *)
HoldingOf(s) == [fund |-> s.fund, account |-> s.account]
RowFor(i, l, units) ==
    [statement |-> i, of |-> HoldingOf(ammaStatements[i]), lot |-> l, units |-> units]

(* db_generate in Commit mode.  The transaction fails whole when a row is  *)
(* refused; replace deletes the statement's rows, typed ones too.          *)
Generate(i, replace) ==
    /\ RowsOf(i) = {} \/ replace
    /\ HeldFor(ammaStatements[i]) # {}
    /\ GenerationAllowed(ammaStatements[i])
    /\ adjustments' = (adjustments \ RowsOf(i)) \union
          {RowFor(i, r.lot, r.units) : r \in GeneratedRows(ammaStatements[i])}
    /\ UNCHANGED <<lots, draws, ammaStatements, fundWrites>>

(* Mutant: a second row for the same parcel is taken. *)
EnterAgain(i, l, units) ==
    /\ Cardinality(adjustments) <= MaxTyped
    /\ RowAllowed(ammaStatements[i], l, units)
    /\ adjustments' = adjustments \union {RowFor(i, l, units)}
    /\ UNCHANGED <<lots, draws, ammaStatements, fundWrites>>

(* amit_adjustment::db_create and db_upsert. *)
EnterAdjustment(i, l, units) ==
    LET others == {a \in adjustments : a.statement # i \/ a.lot # l}
    IN  /\ Cardinality(adjustments) <= MaxTyped
        /\ RowAllowed(ammaStatements[i], l, units)
        /\ adjustments' = others \union {RowFor(i, l, units)}
        /\ UNCHANGED <<lots, draws, ammaStatements, fundWrites>>

DeleteAdjustment(a) ==
    /\ adjustments' = adjustments \ {a}
    /\ UNCHANGED <<lots, draws, ammaStatements, fundWrites>>

Movable(l) == 1..Remaining(l)

AmitNext ==
    \/ \E c \in FundAccounts, d \in FundDates, u \in LotSizes : BuyLot(c, d, u)
    \/ \E l \in DOMAIN lots :
          \/ \E c \in FundAccounts, u \in LotSizes : EditLot(l, c, u)
          \/ \E d \in FundDates, u \in Movable(l) : SellLot(l, d, u)
    \/ \E set \in (SUBSET DOMAIN lots) \ {{}}, from, to \in FundAccounts, d \in FundDates :
          \E m \in [set -> UNION {Movable(l) : l \in set}] : TransferLots(m, from, to, d)
    \/ \E d \in draws : d.kind # "sell" /\ DeleteGroup(d.group)
    \/ \E d \in FundDates : ExchangeFund(d)
    \/ \E i \in StatementIds, s \in Statements : CreateStatement(i, s)
    \/ \E i \in DOMAIN ammaStatements :
          \/ \E s \in Statements : ReplaceStatement(i, s)
          \/ DeleteStatement(i)
          \/ \E replace \in BOOLEAN : Generate(i, replace)
          \/ \E l \in DOMAIN lots : \E u \in 1..lots[l].units : EnterAdjustment(i, l, u)
    \/ \E a \in adjustments : DeleteAdjustment(a)

AmitSpec == AmitInit /\ [][AmitNext]_amitVars

-----------------------------------------------------------------------------
AmitTypeOK ==
    /\ DOMAIN lots \subseteq Nat
    /\ fundWrites \in 0..MaxFundWrites
    /\ \A l \in DOMAIN lots :
          lots[l] \in [account : FundAccounts, fund : BOOLEAN, date : FundDates,
                       units : Nat \ {0}, acquired : FundDates, group : Nat]
    /\ draws \subseteq [lot : Nat, date : FundDates, units : Nat \ {0},
                        kind : {"sell", "transfer", "exchange"}, group : Nat]
    /\ DOMAIN ammaStatements \subseteq StatementIds
    /\ \A i \in DOMAIN ammaStatements : ammaStatements[i] \in Statements
    /\ adjustments \subseteq [statement : DOMAIN ammaStatements,
                              of : [fund : BOOLEAN, account : Holders],
                              lot : Nat, units : Nat \ {0}]
    /\ \A a, b \in adjustments : a.statement = b.statement /\ a.lot = b.lot => a = b

(***************************************************************************)
(* Generation accounts for every unit the statement's account held at the  *)
(* year end exactly once, as a row or as units left for hand entry, after  *)
(* any transfers, exchanges and sales before and since.                    *)
(***************************************************************************)
EveryUnitPlaced ==
    \A s \in Statements :
        Units(Placement(s)) =
            LET held == HeldFor(s)
            IN  SumOver([l \in held |-> UnitsAt(l, s.end)], held)

(* Two parcels that one transfer moved the same units of, acquired on the  *)
(* same day: their transfer-in parcels cannot be told apart.               *)
Twins ==
    \E c, d \in draws : /\ c # d /\ c.kind = "transfer" /\ c.group = d.group
                        /\ c.units = d.units
                        /\ lots[c.lot].acquired = lots[d.lot].acquired

(***************************************************************************)
(* The rows generation derives are rows the write path accepts: a run that *)
(* has something to place is never refused half way, unless one transfer   *)
(* moved two parcels that are alike.                                       *)
(***************************************************************************)
GenerationNeverRefused ==
    Twins \/ \A s \in Statements : GenerationAllowed(s)

(* The statement of a row was written anew since the row was checked, and  *)
(* is for another holding now.                                             *)
Repointed(a) == HoldingOf(ammaStatements[a.statement]) # a.of

(***************************************************************************)
(* An adjustment reaches units of its own statement's holding for as long  *)
(* as the statement is for that holding: its parcel exists, is the         *)
(* statement's or traces back to it, and has at least the units the row    *)
(* adjusts, through every later sale, move, edit and undo.  No check of    *)
(* amma::write keeps a statement with rows from being re-pointed to        *)
(* another listing or account; a row it leaves behind keeps its parcel and *)
(* its units but need not trace back to the new holding.                   *)
(***************************************************************************)
AdjustmentsReachUnits ==
    \A a \in adjustments :
        /\ a.lot \in DOMAIN lots /\ a.units <= lots[a.lot].units
        /\ Repointed(a) \/ TracesBack(a.lot, ammaStatements[a.statement])
====
