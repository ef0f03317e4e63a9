---------------------------- MODULE ParcelLedger ----------------------------
(***************************************************************************)
(* The trade ledger: parcels (Buys), disposals (Sells), the allocations    *)
(* that say which parcel a disposal drew on, account transfers, and the    *)
(* corporate-action operations that close parcels and issue replacements   *)
(* (src/entities/{trade,sell,transfer,scrip_exchange,demerger,worthless,   *)
(* buyback_participation}, src/domain/{whole_holding,rollover}).           *)
(*                                                                         *)
(* Every handler runs in one BEGIN IMMEDIATE transaction (infra::db::      *)
(* write_tx), so each is one atomic action, and a handler that answers     *)
(* with an error or runs as a dry run leaves the ledger as it was, a       *)
(* stuttering step.  Prices, currencies, brokerage, cost bases and         *)
(* settlement dates are left out: no guard modelled here reads them.       *)
(* Corporate actions are recorded beforehand (Terms); splits, rights,      *)
(* reinvestments, ESS vests and inheritances are outside this module, so   *)
(* acquired units and units at the sale's date coincide.                   *)
(***************************************************************************)
EXTENDS Integers, FiniteSets, Sums

CONSTANTS
  MaxTrades,       \* bound: ids of the trades table are 1..MaxTrades
  MaxEntered,      \* bound: trades entered by hand on record at a time
  MaxQty,          \* bound: the largest quantity a request body states
  MaxDate,         \* bound: days are 1..MaxDate
  Listings,
  Accounts,        \* holding accounts
  DefaultAccount,  \* holding_account::DEFAULT_HOLDING_ACCOUNT_ID
  TransferIds,     \* bound: ids of the transfers table
  Actions,         \* the corporate actions on record
  Terms,           \* Terms[a]: kind, listing, dest, date, ratio, dividend
  None             \* SQL NULL, and "no row"

TradeIds == 1..MaxTrades
Dates == 1..MaxDate
Quantities == 1..MaxQty

\* The three kinds that consume every open parcel, and buy-backs.
WholeHoldingKinds == {"scrip", "demerger", "worthless"}
Kinds == WholeHoldingKinds \cup {"buyback"}

ASSUME BoundsAssumption ==
  MaxTrades \in Nat /\ MaxEntered \in Nat /\ MaxQty \in Nat /\ MaxDate \in Nat

ASSUME AccountAssumption == DefaultAccount \in Accounts

\* An exchange or a demerger issues units of another listing (corporate_action
\* refuses an action whose destination is its own listing).
ASSUME TermsAssumption ==
  /\ \A a \in Actions :
       /\ Terms[a].kind \in Kinds
       /\ Terms[a].listing \in Listings
       /\ Terms[a].date \in Dates
       /\ Terms[a].dividend \in BOOLEAN
       /\ Terms[a].kind \in {"scrip", "demerger"} =>
            /\ Terms[a].dest \in Listings \ {Terms[a].listing}
            /\ Terms[a].ratio \in Nat \ {0}

ASSUME NoneAssumption ==
  /\ None \notin Actions \cup TransferIds \cup TradeIds
  /\ Actions \cap TransferIds = {}

\* The provenance columns of a trade: at most one is set.
Provenance == Actions \cup TransferIds \cup {None}

Trade ==
  [type : {"Buy", "Sell"}, listing : Listings, account : Accounts,
   date : Dates, qty : Nat \ {0}, by : Provenance]

ASSUME NoneIsNoRow == None \notin Trade \cup [fee : TradeIds \cup {None}]

VARIABLES
  trades,      \* trades[i]: the row with id i, or None
  allocs,      \* allocs[s][p]: units of parcel p sold by s; 0 is no row
  transfers,   \* transfers[t]: the row with id t, or None
  dividends    \* ids of Sells with an income row (income.buyback_trade_id)

vars == <<trades, allocs, transfers, dividends>>

-----------------------------------------------------------------------------
(* Reading the ledger.                                                     *)

IsBuy(i) == trades[i] # None /\ trades[i].type = "Buy"
IsSell(i) == trades[i] # None /\ trades[i].type = "Sell"
Buys == {i \in TradeIds : IsBuy(i)}
Sells == {i \in TradeIds : IsSell(i)}
Group(by) == {i \in TradeIds : trades[i] # None /\ trades[i].by = by}

ClosesWholeHolding(by) ==
  by \in Actions /\ Terms[by].kind \in WholeHoldingKinds

\* What is sold of parcel p, and what is left of it.
Sold(p) == SumOver([s \in TradeIds |-> allocs[s][p]], TradeIds)
Remaining(p) == trades[p].qty - Sold(p)

DrawnOn(p) == \E s \in TradeIds : allocs[s][p] > 0
HasAllocations(s) == \E p \in TradeIds : allocs[s][p] > 0

\* Closing Sells of the whole-holding operations of a listing that already
\* ran on or after a day.
ExecutedFrom(l, d) ==
  {s \in Sells : /\ trades[s].listing = l
                 /\ trades[s].date >= d
                 /\ ClosesWholeHolding(trades[s].by)}

\* Mutant of BackDated: an operation of the same day is overlooked.
BackDatedStrictly(l, d) == ExecutedFrom(l, d + 1) # {}

\* A fresh parcel at (l, d) would land behind such an operation.
BackDated(l, d) == ExecutedFrom(l, d) # {}

\* The parcels of a listing with units left: what an operation consumes.
OpenParcels(l) == {p \in Buys : trades[p].listing = l /\ Remaining(p) > 0}

TradedOnOrAfter(l, d) ==
  \E i \in TradeIds : /\ trades[i] # None
                      /\ trades[i].listing = l
                      /\ trades[i].date >= d

\* Mutant of IsTransferFeeSale: looked for by provenance, which a fee sale
\* does not carry.
FeeSaleByProvenance(s) == trades[s].by \in TransferIds

IsTransferFeeSale(s) ==
  \E t \in TransferIds : transfers[t] # None /\ transfers[t].fee = s

-----------------------------------------------------------------------------
(* Ids.  AUTOINCREMENT assigns an id above every other; only    *)
(* the order of ids matters here, so the numbers skipped by deleted rows   *)
(* at the top are closed up, which keeps the table within MaxTrades.  A    *)
(* client may also name an unused id (PUT).                                *)

NextIds ==
  {n \in TradeIds : /\ \A i \in TradeIds : trades[i] # None => i < n
                    /\ n = 1 \/ trades[n - 1] # None}

ClientIds ==
  {i \in TradeIds : /\ trades[i] = None
                    /\ i = 1 \/ \E j \in TradeIds : j >= i - 1 /\ trades[j] # None}

\* Place of p among the parcels P as a query lists them, ORDER BY date, id.
Place(P, p) ==
  Cardinality({q \in P : \/ trades[q].date < trades[p].date
                         \/ trades[q].date = trades[p].date /\ q <= p})

-----------------------------------------------------------------------------
(* Writing a Sell.                                                         *)

\* A body's allocations: parcel -> units, 0 where the body names no line.  A
\* body naming a trade that is no Buy of the listing is refused: left out.
AllocationBodies(l) ==
  LET P == {p \in Buys : trades[p].listing = l}
  IN {[p \in TradeIds |-> IF p \in P THEN f[p] ELSE 0] : f \in [P -> 0..MaxQty]}
Lines(al) == {p \in TradeIds : al[p] > 0}
Total(al) == SumOver(al, TradeIds)

SellRow(l, ac, d, q, by) ==
  [type |-> "Sell", listing |-> l, account |-> ac, date |-> d, qty |-> q, by |-> by]
BuyRow(l, ac, d, q, by) ==
  [type |-> "Buy", listing |-> l, account |-> ac, date |-> d, qty |-> q, by |-> by]

\* What the Sells other than s sold of each parcel: an edit of s deletes the
\* lines s held before the new ones are checked.
SoldByOthers(s) == [p \in TradeIds |-> Sold(p) - allocs[s][p]]

LineAllowed(r, al, taken, p) ==
  /\ IsBuy(p)
  /\ trades[p].account = r.account \/ ClosesWholeHolding(r.by)
  /\ trades[p].listing = r.listing
  /\ trades[p].date <= r.date
  /\ taken[p] + al[p] <= trades[p].qty

\* upsert_sell_in_tx's checks of a Sell with row r and allocations al, with
\* taken[p] units of parcel p sold elsewhere.  No line is negative; a body
\* with no lines has quantity 0, which check_amounts refuses.
SellAllowed(r, al, taken) ==
  /\ Lines(al) # {}
  /\ al \in [TradeIds -> Nat]
  /\ r.qty \in Nat \ {0}
  /\ r.qty = Total(al)
  /\ \A p \in Lines(al) : LineAllowed(r, al, taken, p)

\* Mutant of Allocated: an edit adds its lines to the ones already there.
AllocatedOver(s, al) ==
  [allocs EXCEPT ![s] = [p \in TradeIds |-> IF al[p] > 0 THEN al[p] ELSE @[p]]]

\* allocs once Sell s holds exactly the lines al.
Allocated(s, al) == [allocs EXCEPT ![s] = al]

\* allocs without the lines of the Sells S.
NoLines == [p \in TradeIds |-> 0]
Released(S) == [s \in TradeIds |-> IF s \in S THEN NoLines ELSE allocs[s]]

\* Rows deleted from the trades table.
Without(S) == [i \in TradeIds |-> IF i \in S THEN None ELSE trades[i]]

-----------------------------------------------------------------------------
(* The parcel endpoints: POST and PUT /trades, DELETE /trades/:id.         *)

CreateBuy(id, l, ac, d, q) ==
  /\ id \in ClientIds /\ Cardinality(Group(None)) < MaxEntered
  /\ ~BackDated(l, d)
  /\ trades' = [trades EXCEPT ![id] = BuyRow(l, ac, d, q, None)]
  /\ UNCHANGED <<allocs, transfers, dividends>>

\* Mutant of DatePrecedesSales: the disposals are not asked for their dates.
\* Mutant of QuantityCoversSales: each disposal is compared alone, not their sum.
DateUnchecked(id, d) == d \in Dates
QuantityCoversEachSale(id, q) == \A s \in TradeIds : q >= allocs[s][id]

\* A parcel may not be moved past the earliest disposal that drew on it, nor
\* shrunk below what its disposals drew.
DatePrecedesSales(id, d) ==
  d > trades[id].date => \A s \in TradeIds : allocs[s][id] > 0 => d <= trades[s].date
QuantityCoversSales(id, q) == q >= Sold(id)

\* An edit of a parcel already behind an executed operation is let through.
EditBuy(id, l, ac, d, q) ==
  /\ IsBuy(id)
  /\ trades[id].by = None
  /\ trades[id].listing # l \/ trades[id].account # ac => ~DrawnOn(id)
  /\ DatePrecedesSales(id, d)
  /\ QuantityCoversSales(id, q)
  /\ BackDated(l, d) => BackDated(trades[id].listing, trades[id].date)
  /\ trades' = [trades EXCEPT ![id] = BuyRow(l, ac, d, q, None)]
  /\ UNCHANGED <<allocs, transfers, dividends>>

\* provenance::deleted_alone: of the provenances modelled, buy-backs only.
DeletedAlone(by) ==
  by = None \/ (by \in Actions /\ Terms[by].kind = "buyback")

DeleteTrade(id) ==
  /\ trades[id] # None
  /\ DeletedAlone(trades[id].by)
  /\ ~DrawnOn(id) /\ ~HasAllocations(id) /\ id \notin dividends
  /\ trades' = Without({id})
  /\ UNCHANGED <<allocs, transfers, dividends>>

-----------------------------------------------------------------------------
(* The disposal endpoints: POST and PUT /sells, DELETE /sells/:id.         *)

CreateSell(id, l, ac, d, al) ==
  LET r == SellRow(l, ac, d, Total(al), None) IN
  /\ id \in ClientIds /\ Cardinality(Group(None)) < MaxEntered
  /\ SellAllowed(r, al, SoldByOthers(id))
  /\ trades' = [trades EXCEPT ![id] = r]
  /\ allocs' = Allocated(id, al)
  /\ UNCHANGED <<transfers, dividends>>

\* Only a plain Sell is rewritten; a transfer's fee sale carries no
\* provenance column and is refused by the transfer that names it.
EditSell(id, l, ac, d, al) ==
  LET r == SellRow(l, ac, d, Total(al), None) IN
  /\ IsSell(id)
  /\ trades[id].by = None
  /\ ~IsTransferFeeSale(id)
  /\ SellAllowed(r, al, SoldByOthers(id))
  /\ trades' = [trades EXCEPT ![id] = r]
  /\ allocs' = Allocated(id, al)
  /\ UNCHANGED <<transfers, dividends>>

\* Mutant of ReplacementsOf: a demerger's replacements are forgotten.
ScripReplacementsOf(s) ==
  LET by == trades[s].by IN
  IF by \in Actions /\ Terms[by].kind = "scrip" THEN Group(by) \ {s} ELSE {}

\* What goes with a Sell: the replacements of the exchange or demerger it
\* closes.
ReplacementsOf(s) ==
  LET by == trades[s].by IN
  IF by \in Actions /\ Terms[by].kind \in {"scrip", "demerger"}
  THEN Group(by) \ {s} ELSE {}

DeleteSell(s) ==
  /\ IsSell(s)
  /\ trades[s].by \notin TransferIds
  /\ ~IsTransferFeeSale(s)
  /\ \A i \in ReplacementsOf(s) : ~DrawnOn(i) /\ ~HasAllocations(i) /\ i \notin dividends
  /\ trades' = Without(ReplacementsOf(s) \cup {s})
  /\ allocs' = Released({s})
  /\ dividends' = dividends \ {s}
  /\ UNCHANGED transfers

-----------------------------------------------------------------------------
(* Transfers between holding accounts: POST /transfers, DELETE             *)
(* /transfers/:id.  A closing Sell out of one account, a Buy per allocated *)
(* parcel into the other, and the fee burnt on the way as a Sell of its    *)
(* own, checked after the closing Sell's allocations are in.               *)

Transfer(t, n, l, d, from, to, al, feeAl) ==
  LET P == Lines(al)
      in(p) == n + Place(P, p)
      fee == IF Lines(feeAl) = {} THEN None ELSE n + Cardinality(P) + 1
      out == SellRow(l, from, d, Total(al), t)
      feeSale == SellRow(l, from, d, Total(feeAl), None)
  IN
  /\ from # to
  /\ n + Cardinality(P) \in TradeIds
  /\ ~BackDated(l, d)
  /\ SellAllowed(out, al, SoldByOthers(n))
  /\ fee # None =>
       /\ fee \in TradeIds
       /\ SellAllowed(feeSale, feeAl, [p \in TradeIds |-> Sold(p) + al[p]])
  /\ trades' = [i \in TradeIds |->
       IF i = n THEN out
       ELSE IF i = fee THEN feeSale
       ELSE IF \E p \in P : in(p) = i
            THEN LET p == CHOOSE p \in P : in(p) = i IN BuyRow(l, to, d, al[p], t)
            ELSE trades[i]]
  /\ allocs' = [s \in TradeIds |->
       IF s = n THEN al ELSE IF s = fee THEN feeAl ELSE allocs[s]]
  /\ transfers' = [transfers EXCEPT ![t] = [fee |-> fee]]
  /\ UNCHANGED dividends

DeleteTransfer(t) ==
  LET gone == Group(t) \cup ({transfers[t].fee} \ {None}) IN
  /\ transfers[t] # None
  /\ \A i \in Group(t) : IsBuy(i) => ~DrawnOn(i)
  /\ trades' = Without(gone)
  /\ allocs' = Released(gone)
  /\ transfers' = [transfers EXCEPT ![t] = None]
  /\ UNCHANGED dividends

-----------------------------------------------------------------------------
(* The whole-holding operations.  Each closes every open parcel of the     *)
(* action's listing, in every account, with one Sell in the default        *)
(* account.                                                                *)

\* The closing Sell's allocations: all that is left of every open parcel.
ClosingLines(l) ==
  [p \in TradeIds |-> IF p \in OpenParcels(l) THEN Remaining(p) ELSE 0]

\* check_exchangeable, check_demergeable and recognise's own checks.
Executable(a) ==
  /\ Group(a) = {}
  /\ ~TradedOnOrAfter(Terms[a].listing, Terms[a].date)
  /\ OpenParcels(Terms[a].listing) # {}

ClosingSell(a) ==
  SellRow(Terms[a].listing, DefaultAccount, Terms[a].date,
          Total(ClosingLines(Terms[a].listing)), a)

\* POST /corporate_actions/:id/exchange: one replacement Buy per parcel, in
\* the parcel's account.
Exchange(a, n) ==
  LET T == Terms[a]
      P == OpenParcels(T.listing)
      al == ClosingLines(T.listing)
  IN
  /\ T.kind = "scrip"
  /\ Executable(a)
  /\ ~BackDated(T.dest, T.date)
  /\ n + Cardinality(P) \in TradeIds
  /\ SellAllowed(ClosingSell(a), al, SoldByOthers(n))
  /\ trades' = [i \in TradeIds |->
       IF i = n THEN ClosingSell(a)
       ELSE IF \E p \in P : n + Place(P, p) = i
            THEN LET p == CHOOSE p \in P : n + Place(P, p) = i
                 IN BuyRow(T.dest, trades[p].account, T.date, al[p] * T.ratio, a)
            ELSE trades[i]]
  /\ allocs' = Allocated(n, al)
  /\ UNCHANGED <<transfers, dividends>>

\* POST /corporate_actions/:id/demerge: two Buys per parcel, the head
\* company's at once followed by the demerged entity's.
Demerge(a, n) ==
  LET T == Terms[a]
      P == OpenParcels(T.listing)
      al == ClosingLines(T.listing)
      head(p) == n + 2 * Place(P, p) - 1
  IN
  /\ T.kind = "demerger"
  /\ Executable(a)
  /\ ~BackDated(T.dest, T.date)
  /\ n + 2 * Cardinality(P) \in TradeIds
  /\ SellAllowed(ClosingSell(a), al, SoldByOthers(n))
  /\ trades' = [i \in TradeIds |->
       IF i = n THEN ClosingSell(a)
       ELSE IF \E p \in P : i \in {head(p), head(p) + 1}
            THEN LET p == CHOOSE p \in P : i \in {head(p), head(p) + 1} IN
                 IF i = head(p)
                 THEN BuyRow(T.listing, trades[p].account, T.date, al[p], a)
                 ELSE BuyRow(T.dest, trades[p].account, T.date, al[p] * T.ratio, a)
            ELSE trades[i]]
  /\ allocs' = Allocated(n, al)
  /\ UNCHANGED <<transfers, dividends>>

\* POST /corporate_actions/:id/recognise: no replacement.
Recognise(a, n) ==
  LET al == ClosingLines(Terms[a].listing) IN
  /\ Terms[a].kind = "worthless"
  /\ Executable(a)
  /\ SellAllowed(ClosingSell(a), al, SoldByOthers(n))
  /\ trades' = [trades EXCEPT ![n] = ClosingSell(a)]
  /\ allocs' = Allocated(n, al)
  /\ UNCHANGED <<transfers, dividends>>

\* POST /corporate_actions/:id/participate: the units a holder tenders into a
\* buy-back, with an income row when the price has a dividend component.
Participate(a, n, ac, d, al) ==
  LET r == SellRow(Terms[a].listing, ac, d, Total(al), a) IN
  /\ Terms[a].kind = "buyback"
  /\ d >= Terms[a].date
  /\ SellAllowed(r, al, SoldByOthers(n))
  /\ trades' = [trades EXCEPT ![n] = r]
  /\ allocs' = Allocated(n, al)
  /\ dividends' = IF Terms[a].dividend THEN dividends \cup {n} ELSE dividends
  /\ UNCHANGED transfers

-----------------------------------------------------------------------------
Init ==
  /\ trades = [i \in TradeIds |-> None]
  /\ allocs = [s \in TradeIds |-> NoLines]
  /\ transfers = [t \in TransferIds |-> None]
  /\ dividends = {}

TradeStep ==
  \/ \E id \in TradeIds, l \in Listings, ac \in Accounts, d \in Dates, q \in Quantities :
       CreateBuy(id, l, ac, d, q) \/ EditBuy(id, l, ac, d, q)
  \/ \E id \in TradeIds : DeleteTrade(id)

SellStep ==
  \/ \E l \in Listings : \E al \in AllocationBodies(l) :
       \E id \in TradeIds, ac \in Accounts, d \in Dates :
         CreateSell(id, l, ac, d, al) \/ EditSell(id, l, ac, d, al)
  \/ \E id \in TradeIds : DeleteSell(id)

TransferStep ==
  \/ \E t \in TransferIds, n \in NextIds, l \in Listings :
       /\ transfers[t] = None
       /\ \E al, feeAl \in AllocationBodies(l), d \in Dates, from, to \in Accounts :
            Transfer(t, n, l, d, from, to, al, feeAl)
  \/ \E t \in TransferIds : DeleteTransfer(t)

ActionStep ==
  \E a \in Actions, n \in NextIds :
    \/ Exchange(a, n) \/ Demerge(a, n) \/ Recognise(a, n)
    \/ \E ac \in Accounts, d \in Dates, al \in AllocationBodies(Terms[a].listing) :
         Participate(a, n, ac, d, al)

Next == TradeStep \/ SellStep \/ TransferStep \/ ActionStep

Spec == Init /\ [][Next]_vars

-----------------------------------------------------------------------------
(* Properties.                                                             *)

TypeOK ==
  /\ trades \in [TradeIds -> Trade \cup {None}]
  /\ allocs \in [TradeIds -> [TradeIds -> Nat]]
  /\ transfers \in [TransferIds -> [fee : TradeIds \cup {None}] \cup {None}]
  /\ dividends \subseteq TradeIds

\* What an allocation line says of the two rows it joins.
LineSound(s, p) ==
  /\ IsSell(s) /\ IsBuy(p)
  /\ trades[p].listing = trades[s].listing
  /\ trades[p].date <= trades[s].date
  /\ trades[p].account = trades[s].account \/ ClosesWholeHolding(trades[s].by)

\* Whatever order parcels, disposals, transfers and operations are entered,
\* edited and deleted in, every allocation line joins an existing Sell to an
\* existing parcel of the same listing and account acquired no later (only a
\* whole-holding operation's closing Sell crosses accounts), and no Sell is
\* left without lines.  upsert_sell_in_tx checks this when a line is written;
\* the edit and delete handlers have to keep it.
AllocationsSound ==
  /\ \A s, p \in TradeIds : allocs[s][p] > 0 => LineSound(s, p)
  /\ \A s \in TradeIds : IsSell(s) => HasAllocations(s)

\* No parcel is sold beyond its quantity, by any mix of disposals, fee sales,
\* transfers, operations and later edits of the parcel.
NoParcelOversold == \A p \in Buys : Remaining(p) >= 0

\* A Sell's quantity is what its lines draw, after any edit.
SaleFullyAllocated ==
  \A s \in Sells : trades[s].qty = Total(allocs[s])

Units(S) == SumOver([i \in S |-> trades[i].qty], S)

\* What transfer t left when out is its closing Sell.
MovedWhole(t, out) ==
  /\ Group(t) \cap Sells = {out}
  /\ Units(Group(t) \cap Buys) = trades[out].qty
  /\ Cardinality(Group(t) \cap Buys) = Cardinality({p \in TradeIds : allocs[out][p] > 0})
  /\ \A i \in Group(t) \cap Buys :
       /\ trades[i].account # trades[out].account
       /\ trades[i].date = trades[out].date
  /\ transfers[t].fee # None =>
       /\ IsSell(transfers[t].fee)
       /\ trades[transfers[t].fee].by = None
       /\ trades[transfers[t].fee].account = trades[out].account
       /\ trades[transfers[t].fee].date = trades[out].date

TransferWhole(t) ==
  IF transfers[t] = None THEN Group(t) = {}
  ELSE \E out \in Group(t) \cap Sells : MovedWhole(t, out)

\* A recorded transfer moves what it closes: one Sell out, one Buy in for each
\* line of it, the same units in total on the same day, and a fee sale that
\* nothing else edits or deletes; a transfer no longer on record left no trade.
TransfersWhole == \A t \in TransferIds : TransferWhole(t)

\* What operation a left when s is its closing Sell.
IssuedWhole(a, s) ==
  LET new == Group(a) \cap Buys
      issued == {i \in new : trades[i].listing # Terms[a].listing}
      lines == Cardinality({p \in TradeIds : allocs[s][p] > 0})
  IN
  /\ Group(a) \cap Sells = {s}
  /\ CASE Terms[a].kind = "worthless" -> new = {}
       [] Terms[a].kind = "scrip" -> new = issued /\ Cardinality(new) = lines
       [] Terms[a].kind = "demerger" ->
            /\ Cardinality(new) = 2 * lines
            /\ Units(new \ issued) = trades[s].qty
  /\ Terms[a].kind # "worthless" => Units(issued) = Terms[a].ratio * trades[s].qty

OperationWhole(a) ==
  Terms[a].kind \in WholeHoldingKinds /\ Group(a) # {} =>
    \E s \in Group(a) \cap Sells : IssuedWhole(a, s)

PaysDividend(s) ==
  /\ trades[s].by \in Actions
  /\ Terms[trades[s].by].kind = "buyback"
  /\ Terms[trades[s].by].dividend

\* What an executed operation wrote stays whole until its closing Sell is
\* deleted, and then all of it goes: an exchange keeps one replacement per
\* line of its closing Sell and a demerger two, in the action's ratio; a
\* worthless-shares recognise issues none; a buy-back Sell has its dividend
\* row exactly when the action pays one.
OperationsWhole ==
  /\ \A a \in Actions : OperationWhole(a)
  /\ dividends = {s \in Sells : PaysDividend(s)}

\* The executed operations a parcel is dated on or before, its own excepted:
\* an operation's replacements carry its date.
Behind(p) ==
  {s \in ExecutedFrom(trades[p].listing, trades[p].date) : trades[s].by # trades[p].by}

Stranded(p) == IsBuy(p) /\ Behind(p) # {} /\ Remaining(p) > 0

\* No write strands units that were clear of every executed whole-holding
\* operation: a parcel with units left behind one was behind one already.
\* (Deleting or shrinking a disposal of units an operation found sold does
\* reopen them; the rollover-consistency report is there for that.)
NothingNewlyStranded ==
  [][\A p \in TradeIds : Stranded(p)' => IsBuy(p) /\ Behind(p) # {}]_vars

\* What db_back_dated_parcel documents of an edit: it is refused when it puts
\* the parcel behind an operation it was not already behind.
EditNeverNewlyBehind ==
  [][\A p \in TradeIds :
       IsBuy(p) /\ IsBuy(p)' /\ trades'[p] # trades[p] => Behind(p)' \subseteq Behind(p)]_vars
=============================================================================
