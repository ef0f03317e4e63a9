------------------------ MODULE ParcelLedgerProofs ------------------------
(***************************************************************************)
(* Proofs about ParcelLedger, for any listings, accounts, transfers and    *)
(* corporate actions and any bounds.                                       *)
(*                                                                         *)
(* First its types, and that every allocation line stays sound.            *)
(*                                                                         *)
(* AllocationsSound is not inductive alone.  A deletion must not take a    *)
(* row a line still names; deleting a transfer takes the fee sale the      *)
(* transfer names, so that id must be a Sell's (FeesSound), no other       *)
(* transfer's, and a Sell without lines, which DELETE /trades would take,  *)
(* must not exist (the second half of AllocationsSound).                   *)
(*                                                                         *)
(* Then the units: no parcel is oversold, every Sell is allocated in full, *)
(* nothing is newly stranded; and that what a transfer and what an         *)
(* executed operation wrote stays whole.                                   *)
(***************************************************************************)
EXTENDS ParcelLedger, SetTheorems, FiniteSetTheorems, TLAPS

\* The fee sale a transfer names is a plain Sell, and no other transfer's.
FeesSound ==
  \A t \in TransferIds : transfers[t] # None /\ transfers[t].fee # None =>
    /\ transfers[t].fee \in TradeIds
    /\ IsSell(transfers[t].fee)
    /\ trades[transfers[t].fee].by = None
    /\ \A u \in TransferIds : u # t /\ transfers[u] # None =>
         transfers[u].fee # transfers[t].fee

IInv == TypeOK /\ AllocationsSound /\ FeesSound

-----------------------------------------------------------------------------
(* Ids and rows.                                                           *)

\* An assigned id is above every row's, so it is free.
LEMMA NextIdFresh ==
  ASSUME TypeOK, NEW n \in NextIds
  PROVE  /\ n \in TradeIds
         /\ trades[n] = None
         /\ \A i \in TradeIds : trades[i] # None => i < n
BY DEF NextIds, TradeIds

\* Places are counted from 1.
LEMMA PlacePositive ==
  ASSUME TypeOK, NEW P \in SUBSET TradeIds, NEW p \in P
  PROVE  Place(P, p) \in Nat \ {0}
<1> DEFINE Q == {q \in P : \/ trades[q].date < trades[p].date
                           \/ trades[q].date = trades[p].date /\ q <= p}
<1>1. IsFiniteSet(TradeIds)
  BY BoundsAssumption, FS_Interval DEF TradeIds
<1>2. IsFiniteSet(Q)
  BY <1>1, FS_Subset
<1>3. p \in Q
  BY DEF TradeIds
<1>4. Cardinality(Q) \in Nat /\ Cardinality(Q) # 0
  BY <1>2, <1>3, FS_CardinalityType, FS_EmptySet
<1> QED
  BY <1>4 DEF Place

\* A set of trades has a cardinality.
LEMMA CardinalityNat ==
  ASSUME NEW P \in SUBSET TradeIds
  PROVE  Cardinality(P) \in Nat
<1>1. IsFiniteSet(TradeIds)
  BY BoundsAssumption, FS_Interval DEF TradeIds
<1> QED
  BY <1>1, FS_Subset, FS_CardinalityType

\* The row of a Buy is a trade.
LEMMA BuyRowTyped ==
  ASSUME NEW l \in Listings, NEW ac \in Accounts, NEW d \in Dates,
         NEW q \in Nat \ {0}, NEW by \in Provenance
  PROVE  /\ BuyRow(l, ac, d, q, by) \in Trade
         /\ BuyRow(l, ac, d, q, by) # None
         /\ BuyRow(l, ac, d, q, by).type = "Buy"
BY NoneIsNoRow DEF BuyRow, Trade

\* The row of a Sell is a trade.
LEMMA SellRowTyped ==
  ASSUME NEW l \in Listings, NEW ac \in Accounts, NEW d \in Dates,
         NEW q \in Nat \ {0}, NEW by \in Provenance
  PROVE  /\ SellRow(l, ac, d, q, by) \in Trade
         /\ SellRow(l, ac, d, q, by) # None
         /\ SellRow(l, ac, d, q, by).type = "Sell"
         /\ SellRow(l, ac, d, q, by).by = by
         /\ SellRow(l, ac, d, q, by).qty = q
BY NoneIsNoRow DEF SellRow, Trade

\* What upsert_sell_in_tx's checks leave of a Sell at (l, ac, d) by an
\* operation: it draws on parcels it may draw on.
MayDraw(l, ac, d, by, al) ==
  /\ Total(al) \in Nat \ {0}
  /\ al \in [TradeIds -> Nat]
  /\ Lines(al) # {}
  /\ \A p \in TradeIds : al[p] > 0 =>
       /\ IsBuy(p)
       /\ trades[p].account = ac \/ ClosesWholeHolding(by)
       /\ trades[p].listing = l
       /\ trades[p].date <= d

\* A Sell that is allowed draws on parcels it may draw on.
LEMMA SellAllowedFacts ==
  ASSUME NEW l \in Listings, NEW ac \in Accounts, NEW d \in Dates,
         NEW al, NEW taken, NEW by \in Provenance,
         SellAllowed(SellRow(l, ac, d, Total(al), by), al, taken)
  PROVE  MayDraw(l, ac, d, by, al)
BY DEF SellAllowed, LineAllowed, Lines, SellRow, MayDraw

-----------------------------------------------------------------------------
\* Writing one Sell at a free id, with any number of new parcels beside it,
\* keeps the lines and the fee sales sound.
LEMMA NewSellSound ==
  ASSUME IInv, NEW n \in TradeIds, trades[n] = None,
         NEW l \in Listings, NEW ac \in Accounts, NEW d \in Dates,
         NEW STATE al, NEW by \in Provenance, MayDraw(l, ac, d, by, al),
         trades' \in [TradeIds -> Trade \cup {None}],
         trades'[n] = SellRow(l, ac, d, Total(al), by),
         \A i \in TradeIds : trades[i] # None => trades'[i] = trades[i],
         \A i \in TradeIds \ {n} :
           trades'[i] # None => trades'[i] = trades[i] \/ trades'[i].type = "Buy",
         allocs' = Allocated(n, al),
         UNCHANGED transfers
  PROVE  /\ allocs' \in [TradeIds -> [TradeIds -> Nat]]
         /\ AllocationsSound'
         /\ FeesSound'
<1>1. /\ Total(al) \in Nat \ {0}
      /\ al \in [TradeIds -> Nat]
      /\ Lines(al) # {}
      /\ \A p \in TradeIds : al[p] > 0 =>
           /\ IsBuy(p)
           /\ trades[p].account = ac \/ ClosesWholeHolding(by)
           /\ trades[p].listing = l
           /\ trades[p].date <= d
  BY DEF MayDraw
<1>2. allocs' \in [TradeIds -> [TradeIds -> Nat]]
  BY <1>1 DEF Allocated, IInv, TypeOK
<1>3. /\ trades'[n] # None
      /\ trades'[n].type = "Sell"
      /\ trades'[n].by = by
      /\ trades'[n].listing = l
      /\ trades'[n].account = ac
      /\ trades'[n].date = d
  BY <1>1, SellRowTyped DEF SellRow
<1>4. ASSUME NEW s \in TradeIds, NEW p \in TradeIds, allocs'[s][p] > 0
      PROVE  LineSound(s, p)'
  <2>1. CASE s = n
    <3>1. al[p] > 0
      BY <1>4, <2>1 DEF Allocated, IInv, TypeOK
    <3>2. trades'[p] = trades[p] /\ IsBuy(p)
      BY <3>1, <1>1 DEF IsBuy
    <3> QED
      BY <1>1, <1>3, <2>1, <3>1, <3>2 DEF LineSound, IsBuy, IsSell, ClosesWholeHolding
  <2>2. CASE s # n
    <3>1. allocs[s][p] > 0
      BY <1>4, <2>2 DEF Allocated
    <3>2. LineSound(s, p)
      BY <3>1 DEF IInv, AllocationsSound
    <3>3. trades'[s] = trades[s] /\ trades'[p] = trades[p]
      BY <3>2 DEF LineSound, IsBuy, IsSell
    <3> QED
      BY <3>2, <3>3 DEF LineSound, IsBuy, IsSell, ClosesWholeHolding
  <2> QED
    BY <2>1, <2>2
<1>5. ASSUME NEW s \in TradeIds, IsSell(s)'
      PROVE  HasAllocations(s)'
  <2>1. CASE s = n
    <3>1. PICK p \in TradeIds : al[p] > 0
      BY <1>1 DEF Lines
    <3> QED
      BY <2>1, <3>1 DEF Allocated, HasAllocations, IInv, TypeOK
  <2>2. CASE s # n
    <3>1. trades'[s] = trades[s]
      BY <1>5, <2>2 DEF IsSell
    <3>2. HasAllocations(s)
      BY <1>5, <3>1 DEF IInv, AllocationsSound, IsSell
    <3> QED
      BY <2>2, <3>2 DEF HasAllocations, Allocated
  <2> QED
    BY <2>1, <2>2
<1>6. AllocationsSound'
  BY <1>4, <1>5 DEF AllocationsSound
<1>7. FeesSound'
  BY DEF IInv, FeesSound, IsSell
<1> QED
  BY <1>2, <1>6, <1>7

-----------------------------------------------------------------------------
(* One lemma per action.                                                   *)

\* Recording a Buy keeps the invariant.
LEMMA CreateBuyKeeps ==
  ASSUME IInv, NEW id \in TradeIds, NEW l \in Listings, NEW ac \in Accounts,
         NEW d \in Dates, NEW q \in Quantities, CreateBuy(id, l, ac, d, q)
  PROVE  IInv'
<1> DEFINE r == BuyRow(l, ac, d, q, None)
<1>1. r \in Trade /\ r # None /\ r.type = "Buy"
  BY BuyRowTyped, BoundsAssumption DEF Quantities, Provenance
<1>2. /\ trades' = [trades EXCEPT ![id] = r]
      /\ trades[id] = None
      /\ UNCHANGED <<allocs, transfers, dividends>>
  BY DEF CreateBuy, ClientIds
<1>3. TypeOK'
  BY <1>1, <1>2 DEF IInv, TypeOK
<1>4. \A i \in TradeIds : trades[i] # None => trades'[i] = trades[i]
  BY <1>2 DEF IInv, TypeOK
<1>5. \A i \in TradeIds : IsSell(i)' => IsSell(i) /\ trades'[i] = trades[i]
  BY <1>1, <1>2 DEF IInv, TypeOK, IsSell
<1>6. AllocationsSound'
  <2>1. ASSUME NEW s \in TradeIds, NEW p \in TradeIds, allocs'[s][p] > 0
        PROVE  LineSound(s, p)'
    <3>1. LineSound(s, p)
      BY <2>1, <1>2 DEF IInv, AllocationsSound
    <3>2. trades'[s] = trades[s] /\ trades'[p] = trades[p]
      BY <3>1, <1>4 DEF LineSound, IsBuy, IsSell
    <3> QED
      BY <3>1, <3>2 DEF LineSound, IsBuy, IsSell, ClosesWholeHolding
  <2>2. ASSUME NEW s \in TradeIds, IsSell(s)'
        PROVE  HasAllocations(s)'
    BY <2>2, <1>2, <1>5 DEF IInv, AllocationsSound, HasAllocations
  <2> QED
    BY <2>1, <2>2 DEF AllocationsSound
<1>7. FeesSound'
  BY <1>2, <1>4 DEF IInv, FeesSound, IsSell
<1> QED
  BY <1>3, <1>6, <1>7 DEF IInv

\* The edit keeps listing and account while the parcel is drawn on, and its
\* date no later than the disposals.
LEMMA EditBuyKeeps ==
  ASSUME IInv, NEW id \in TradeIds, NEW l \in Listings, NEW ac \in Accounts,
         NEW d \in Dates, NEW q \in Quantities, EditBuy(id, l, ac, d, q)
  PROVE  IInv'
<1> DEFINE r == BuyRow(l, ac, d, q, None)
<1>1. r \in Trade /\ r # None /\ r.type = "Buy"
  BY BuyRowTyped, BoundsAssumption DEF Quantities, Provenance
<1>2. /\ trades' = [trades EXCEPT ![id] = r]
      /\ IsBuy(id)
      /\ DatePrecedesSales(id, d)
      /\ DrawnOn(id) => trades[id].listing = l /\ trades[id].account = ac
      /\ UNCHANGED <<allocs, transfers, dividends>>
  BY DEF EditBuy
<1>3. TypeOK'
  BY <1>1, <1>2 DEF IInv, TypeOK
<1>4. \A i \in TradeIds : i # id => trades'[i] = trades[i]
  BY <1>2 DEF IInv, TypeOK
<1>5. trades'[id] = r
  BY <1>2 DEF IInv, TypeOK
<1>6. AllocationsSound'
  <2>1. ASSUME NEW s \in TradeIds, NEW p \in TradeIds, allocs'[s][p] > 0
        PROVE  LineSound(s, p)'
    <3>1. LineSound(s, p) /\ allocs[s][p] > 0
      BY <2>1, <1>2 DEF IInv, AllocationsSound
    <3>2. trades'[s] = trades[s]
      BY <3>1, <1>2, <1>4 DEF LineSound, IsBuy, IsSell
    <3>3. CASE p # id
      BY <3>1, <3>2, <3>3, <1>4 DEF LineSound, IsBuy, IsSell, ClosesWholeHolding
    <3>4. CASE p = id
      <4>0. /\ allocs[s][id] > 0
            /\ trades[s] # None /\ trades[s].type = "Sell"
            /\ trades[id].listing = trades[s].listing
            /\ trades[id].date <= trades[s].date
            /\ trades[id].account = trades[s].account \/ ClosesWholeHolding(trades[s].by)
        BY <3>1, <3>4 DEF LineSound, IsSell
      <4>1. trades[id].listing = l /\ trades[id].account = ac
        BY <4>0, <1>2 DEF DrawnOn
      <4>2. trades[id].date \in Dates /\ trades[s].date \in Dates
        BY <4>0, <1>2 DEF IInv, TypeOK, Trade, IsBuy
      <4>3. d > trades[id].date => d <= trades[s].date
        BY <4>0, <1>2 DEF DatePrecedesSales
      <4>4. d <= trades[s].date
        <5>1. trades[id].date \in Int /\ trades[s].date \in Int /\ d \in Int
          BY <4>2 DEF Dates
        <5>2. trades[id].date <= trades[s].date
          BY <4>0
        <5> QED
          BY <5>1, <5>2, <4>3
      <4>5. r.listing = l /\ r.account = ac /\ r.date = d
        BY DEF BuyRow
      <4>6. IsSell(s)' /\ IsBuy(id)'
        BY <4>0, <3>2, <1>1, <1>5 DEF IsBuy, IsSell
      <4> HIDE DEF r
      <4>7. /\ trades'[id].listing = trades'[s].listing
            /\ trades'[id].date <= trades'[s].date
        BY <4>0, <3>2, <4>1, <4>4, <4>5, <1>5
      <4>8. trades'[id].account = trades'[s].account \/ ClosesWholeHolding(trades'[s].by)
        BY <4>0, <3>2, <4>1, <4>5, <1>5
      <4> QED
        BY <3>4, <4>6, <4>7, <4>8 DEF LineSound, ClosesWholeHolding
    <3> QED
      BY <3>3, <3>4
  <2>2. ASSUME NEW s \in TradeIds, IsSell(s)'
        PROVE  HasAllocations(s)'
    <3>1. IsSell(s)
      BY <2>2, <1>1, <1>4, <1>5 DEF IsSell
    <3> QED
      BY <3>1, <1>2 DEF IInv, AllocationsSound, HasAllocations
  <2> QED
    BY <2>1, <2>2 DEF AllocationsSound
<1>7. FeesSound'
  <2>1. \A i \in TradeIds : IsSell(i) => trades'[i] = trades[i]
    BY <1>2, <1>4 DEF IsSell, IsBuy
  <2> QED
    BY <1>2, <2>1 DEF IInv, FeesSound, IsSell
<1> QED
  BY <1>3, <1>6, <1>7 DEF IInv

\* Deleting a trade keeps the invariant.
LEMMA DeleteTradeKeeps ==
  ASSUME IInv, NEW id \in TradeIds, DeleteTrade(id)
  PROVE  IInv'
<1>1. /\ ~DrawnOn(id) /\ ~HasAllocations(id)
      /\ UNCHANGED <<allocs, transfers, dividends>>
      /\ trades' = Without({id})
  BY DEF DeleteTrade
<1>2. /\ trades' \in [TradeIds -> Trade \cup {None}]
      /\ trades'[id] = None
      /\ \A i \in TradeIds : i # id => trades'[i] = trades[i]
  BY <1>1 DEF IInv, TypeOK, Without
<1>3. TypeOK'
  BY <1>1, <1>2 DEF IInv, TypeOK
<1>4. AllocationsSound'
  <2>1. ASSUME NEW s \in TradeIds, NEW p \in TradeIds, allocs'[s][p] > 0
        PROVE  LineSound(s, p)'
    <3>1. LineSound(s, p) /\ s # id /\ p # id
      BY <2>1, <1>1 DEF IInv, AllocationsSound, DrawnOn, HasAllocations
    <3> QED
      BY <3>1, <1>2 DEF LineSound, IsBuy, IsSell, ClosesWholeHolding
  <2>2. ASSUME NEW s \in TradeIds, IsSell(s)'
        PROVE  HasAllocations(s)'
    BY <2>2, <1>1, <1>2 DEF IInv, AllocationsSound, HasAllocations, IsSell
  <2> QED
    BY <2>1, <2>2 DEF AllocationsSound
<1>5. FeesSound'
  <2>1. ~IsSell(id)
    BY <1>1 DEF IInv, AllocationsSound
  <2> QED
    BY <1>1, <1>2, <2>1 DEF IInv, FeesSound, IsSell
<1> QED
  BY <1>3, <1>4, <1>5 DEF IInv

\* Recording a Sell keeps the invariant.
LEMMA CreateSellKeeps ==
  ASSUME IInv, NEW id \in TradeIds, NEW l \in Listings, NEW ac \in Accounts,
         NEW d \in Dates, NEW al, CreateSell(id, l, ac, d, al)
  PROVE  IInv'
<1> DEFINE r == SellRow(l, ac, d, Total(al), None)
<1>1. /\ trades[id] = None
      /\ SellAllowed(r, al, SoldByOthers(id))
      /\ trades' = [trades EXCEPT ![id] = r]
      /\ allocs' = Allocated(id, al)
      /\ UNCHANGED <<transfers, dividends>>
  BY DEF CreateSell, ClientIds
<1>2. r \in Trade
  BY <1>1, SellAllowedFacts, SellRowTyped DEF Provenance, MayDraw
<1>3. /\ trades' \in [TradeIds -> Trade \cup {None}]
      /\ trades'[id] = r
      /\ \A i \in TradeIds : trades[i] # None => trades'[i] = trades[i]
      /\ \A i \in TradeIds \ {id} : trades'[i] = trades[i]
  BY <1>1, <1>2 DEF IInv, TypeOK
<1>4. None \in Provenance
  BY DEF Provenance
<1>5. /\ allocs' \in [TradeIds -> [TradeIds -> Nat]]
      /\ AllocationsSound'
      /\ FeesSound'
  <2> HIDE DEF r
  <2>1. MayDraw(l, ac, d, None, al)
    BY <1>1, <1>4, SellAllowedFacts DEF r
  <2>2. trades'[id] = SellRow(l, ac, d, Total(al), None)
    BY <1>3 DEF r
  <2> QED
    BY <1>1, <1>3, <1>4, <2>1, <2>2, NewSellSound
<1> QED
  BY <1>1, <1>3, <1>5 DEF IInv, TypeOK

\* The lines of the Sell are replaced; nothing draws on a Sell.
LEMMA EditSellKeeps ==
  ASSUME IInv, NEW id \in TradeIds, NEW l \in Listings, NEW ac \in Accounts,
         NEW d \in Dates, NEW al, EditSell(id, l, ac, d, al)
  PROVE  IInv'
<1> DEFINE r == SellRow(l, ac, d, Total(al), None)
<1>1. /\ IsSell(id)
      /\ ~IsTransferFeeSale(id)
      /\ SellAllowed(r, al, SoldByOthers(id))
      /\ trades' = [trades EXCEPT ![id] = r]
      /\ allocs' = Allocated(id, al)
      /\ UNCHANGED <<transfers, dividends>>
  BY DEF EditSell
<1>2. None \in Provenance
  BY DEF Provenance
<1>3. /\ Total(al) \in Nat \ {0}
      /\ al \in [TradeIds -> Nat]
      /\ Lines(al) # {}
      /\ \A p \in TradeIds : al[p] > 0 =>
           /\ IsBuy(p)
           /\ trades[p].account = ac \/ ClosesWholeHolding(None)
           /\ trades[p].listing = l
           /\ trades[p].date <= d
  BY <1>1, <1>2, SellAllowedFacts DEF MayDraw
<1>4. r \in Trade /\ r # None /\ r.type = "Sell"
  BY <1>2, <1>3, SellRowTyped
<1>5. /\ trades' \in [TradeIds -> Trade \cup {None}]
      /\ trades'[id] = r
      /\ \A i \in TradeIds : i # id => trades'[i] = trades[i]
  BY <1>1, <1>4 DEF IInv, TypeOK
<1>6. TypeOK'
  BY <1>1, <1>3, <1>5 DEF IInv, TypeOK, Allocated
<1>7. AllocationsSound'
  <2>1. ASSUME NEW s \in TradeIds, NEW p \in TradeIds, allocs'[s][p] > 0
        PROVE  LineSound(s, p)'
    <3>1. CASE s = id
      <4>1. al[p] > 0
        BY <2>1, <3>1, <1>1 DEF Allocated, IInv, TypeOK
      <4>2. IsBuy(p) /\ p # id
        BY <4>1, <1>1, <1>3 DEF IsBuy, IsSell
      <4>3. trades'[p] = trades[p]
        BY <4>2, <1>5
      <4>4. r.listing = l /\ r.account = ac /\ r.date = d /\ r.by = None
        BY DEF SellRow
      <4> QED
        BY <1>3, <1>4, <1>5, <3>1, <4>1, <4>2, <4>3, <4>4
        DEF LineSound, IsBuy, IsSell, ClosesWholeHolding
    <3>2. CASE s # id
      <4>1. LineSound(s, p)
        BY <2>1, <3>2, <1>1 DEF IInv, AllocationsSound, Allocated
      <4>2. trades'[s] = trades[s] /\ trades'[p] = trades[p]
        BY <4>1, <3>2, <1>1, <1>5 DEF LineSound, IsBuy, IsSell
      <4> QED
        BY <4>1, <4>2 DEF LineSound, IsBuy, IsSell, ClosesWholeHolding
    <3> QED
      BY <3>1, <3>2
  <2>2. ASSUME NEW s \in TradeIds, IsSell(s)'
        PROVE  HasAllocations(s)'
    <3>1. CASE s = id
      <4>1. PICK p \in TradeIds : al[p] > 0
        BY <1>3 DEF Lines
      <4> QED
        BY <3>1, <4>1, <1>1 DEF HasAllocations, Allocated, IInv, TypeOK
    <3>2. CASE s # id
      <4>1. HasAllocations(s)
        BY <2>2, <3>2, <1>5 DEF IInv, AllocationsSound, IsSell
      <4> QED
        BY <3>2, <4>1, <1>1 DEF HasAllocations, Allocated
    <3> QED
      BY <3>1, <3>2
  <2> QED
    BY <2>1, <2>2 DEF AllocationsSound
<1>8. FeesSound'
  <2>1. \A t \in TransferIds : transfers[t] # None => transfers[t].fee # id
    BY <1>1 DEF IsTransferFeeSale
  <2> QED
    BY <1>1, <1>5, <2>1 DEF IInv, FeesSound, IsSell
<1> QED
  BY <1>6, <1>7, <1>8 DEF IInv

\* The replacements that go with a closing Sell are drawn on by no line, and
\* no transfer's fee sale is among them.
LEMMA DeleteSellKeeps ==
  ASSUME IInv, NEW id \in TradeIds, DeleteSell(id)
  PROVE  IInv'
<1> DEFINE gone == ReplacementsOf(id) \cup {id}
<1>1. /\ IsSell(id)
      /\ ~IsTransferFeeSale(id)
      /\ \A i \in ReplacementsOf(id) : ~DrawnOn(i) /\ ~HasAllocations(i)
      /\ trades' = Without(gone)
      /\ allocs' = Released({id})
      /\ dividends' = dividends \ {id}
      /\ UNCHANGED transfers
  BY DEF DeleteSell
<1>2. \A i \in ReplacementsOf(id) : trades[i].by \in Actions
  BY DEF ReplacementsOf, Group
<1> HIDE DEF gone
<1>3. /\ trades' \in [TradeIds -> Trade \cup {None}]
      /\ \A i \in TradeIds : i \in gone => trades'[i] = None
      /\ \A i \in TradeIds : i \notin gone => trades'[i] = trades[i]
      /\ allocs' \in [TradeIds -> [TradeIds -> Nat]]
  BY <1>1 DEF IInv, TypeOK, Without, Released, NoLines
<1>4. TypeOK'
  BY <1>1, <1>3 DEF IInv, TypeOK
<1>5. AllocationsSound'
  <2>1. ASSUME NEW s \in TradeIds, NEW p \in TradeIds, allocs'[s][p] > 0
        PROVE  LineSound(s, p)'
    <3>0. allocs'[s][p] = IF s \in {id} THEN 0 ELSE allocs[s][p]
      BY <1>1 DEF Released, NoLines
    <3>1. s # id /\ allocs[s][p] > 0
      BY <2>1, <3>0
    <3>2. LineSound(s, p)
      BY <3>1 DEF IInv, AllocationsSound
    <3>3. p # id
      BY <3>2, <1>1 DEF LineSound, IsBuy, IsSell
    <3>4. s \notin gone /\ p \notin gone
      BY <3>1, <3>3, <1>1 DEF gone, DrawnOn, HasAllocations
    <3> QED
      BY <3>2, <3>4, <1>3 DEF LineSound, IsBuy, IsSell, ClosesWholeHolding
  <2>2. ASSUME NEW s \in TradeIds, IsSell(s)'
        PROVE  HasAllocations(s)'
    <3>1. s \notin gone /\ IsSell(s)
      BY <2>2, <1>3 DEF IsSell
    <3>2. HasAllocations(s) /\ s # id
      BY <3>1 DEF IInv, AllocationsSound, gone
    <3> QED
      BY <3>2, <1>1 DEF HasAllocations, Released
  <2> QED
    BY <2>1, <2>2 DEF AllocationsSound
<1>6. FeesSound'
  <2>1. ASSUME NEW t \in TransferIds, transfers[t] # None, transfers[t].fee # None
        PROVE  transfers[t].fee \in TradeIds \ gone
    <3>1. /\ transfers[t].fee \in TradeIds
          /\ trades[transfers[t].fee].by = None
          /\ transfers[t].fee # id
      BY <2>1, <1>1 DEF IInv, FeesSound, IsTransferFeeSale
    <3> QED
      BY <3>1, <1>2, NoneAssumption DEF gone
  <2> QED
    BY <1>1, <1>3, <2>1 DEF IInv, FeesSound, IsSell
<1> QED
  BY <1>4, <1>5, <1>6 DEF IInv

\* The transfer's rows go with the fee sale it names, and with every line of
\* theirs.
LEMMA DeleteTransferKeeps ==
  ASSUME IInv, NEW t \in TransferIds, DeleteTransfer(t)
  PROVE  IInv'
<1> DEFINE gone == Group(t) \cup ({transfers[t].fee} \ {None})
<1>1. /\ transfers[t] # None
      /\ \A i \in Group(t) : IsBuy(i) => ~DrawnOn(i)
      /\ trades' = Without(gone)
      /\ allocs' = Released(gone)
      /\ transfers' = [transfers EXCEPT ![t] = None]
      /\ UNCHANGED dividends
  BY DEF DeleteTransfer
<1>2. \A i \in TradeIds : i \in gone => (IsBuy(i) => i \in Group(t))
  BY <1>1 DEF IInv, FeesSound, IsBuy, IsSell
<1>3. \A i \in gone : trades[i].by = t \/ i = transfers[t].fee
  BY DEF Group
<1> HIDE DEF gone
<1>4. /\ trades' \in [TradeIds -> Trade \cup {None}]
      /\ \A i \in TradeIds : i \in gone => trades'[i] = None
      /\ \A i \in TradeIds : i \notin gone => trades'[i] = trades[i]
      /\ allocs' \in [TradeIds -> [TradeIds -> Nat]]
  BY <1>1 DEF IInv, TypeOK, Without, Released, NoLines
<1>5. /\ transfers' \in [TransferIds -> [fee : TradeIds \cup {None}] \cup {None}]
      /\ transfers'[t] = None
      /\ \A u \in TransferIds : u # t => transfers'[u] = transfers[u]
  BY <1>1 DEF IInv, TypeOK
<1>6. TypeOK'
  BY <1>1, <1>4, <1>5 DEF IInv, TypeOK
<1>7. AllocationsSound'
  <2>1. ASSUME NEW s \in TradeIds, NEW p \in TradeIds, allocs'[s][p] > 0
        PROVE  LineSound(s, p)'
    <3>0. allocs'[s][p] = IF s \in gone THEN 0 ELSE allocs[s][p]
      BY <1>1 DEF Released, NoLines
    <3>1. s \notin gone /\ allocs[s][p] > 0
      BY <2>1, <3>0
    <3>2. LineSound(s, p)
      BY <3>1 DEF IInv, AllocationsSound
    <3>3. IsBuy(p) /\ DrawnOn(p)
      BY <3>1, <3>2 DEF LineSound, DrawnOn, IsBuy
    <3>4. p \notin gone
      BY <3>3, <1>1, <1>2
    <3> QED
      BY <3>1, <3>2, <3>4, <1>4 DEF LineSound, IsBuy, IsSell, ClosesWholeHolding
  <2>2. ASSUME NEW s \in TradeIds, IsSell(s)'
        PROVE  HasAllocations(s)'
    <3>1. s \notin gone /\ IsSell(s)
      BY <2>2, <1>4 DEF IsSell
    <3>2. HasAllocations(s)
      BY <3>1 DEF IInv, AllocationsSound
    <3> QED
      BY <3>1, <3>2, <1>1 DEF HasAllocations, Released
  <2> QED
    BY <2>1, <2>2 DEF AllocationsSound
<1>8. FeesSound'
  <2>1. ASSUME NEW u \in TransferIds, transfers'[u] # None, transfers'[u].fee # None
        PROVE  /\ u # t
               /\ transfers'[u] = transfers[u]
               /\ transfers[u].fee \in TradeIds \ gone
    <3>1. u # t /\ transfers'[u] = transfers[u]
      BY <2>1, <1>5
    <3>2. /\ transfers[u].fee \in TradeIds
          /\ trades[transfers[u].fee].by = None
          /\ transfers[u].fee # transfers[t].fee
      BY <2>1, <3>1, <1>1 DEF IInv, FeesSound
    <3> QED
      BY <3>1, <3>2, <1>3, NoneAssumption
  <2>2. ASSUME NEW u \in TransferIds, transfers'[u] # None, transfers'[u].fee # None
        PROVE  /\ transfers'[u].fee \in TradeIds
               /\ trades'[transfers'[u].fee] # None
               /\ trades'[transfers'[u].fee].type = "Sell"
               /\ trades'[transfers'[u].fee].by = None
    BY <2>1, <2>2, <1>4 DEF IInv, FeesSound, IsSell
  <2>3. ASSUME NEW u \in TransferIds, transfers'[u] # None, transfers'[u].fee # None,
               NEW v \in TransferIds, v # u, transfers'[v] # None
        PROVE  transfers'[v].fee # transfers'[u].fee
    BY <2>1, <2>3, <1>5 DEF IInv, FeesSound
  <2> QED
    BY <2>2, <2>3 DEF FeesSound, IsSell
<1> QED
  BY <1>6, <1>7, <1>8 DEF IInv

\* The closing Sell and the fee sale are new Sells with sound lines, and the
\* units moved arrive as new parcels.
LEMMA TransferKeeps ==
  ASSUME IInv, NEW t \in TransferIds, transfers[t] = None, NEW n \in NextIds,
         NEW l \in Listings, NEW d \in Dates, NEW from \in Accounts, NEW to \in Accounts,
         NEW al, NEW feeAl, Transfer(t, n, l, d, from, to, al, feeAl)
  PROVE  IInv'
<1> DEFINE P == Lines(al)
           in(p) == n + Place(P, p)
           fee == IF Lines(feeAl) = {} THEN None ELSE n + Cardinality(P) + 1
           out == SellRow(l, from, d, Total(al), t)
           feeSale == SellRow(l, from, d, Total(feeAl), None)
           moved(i) == \E p \in P : in(p) = i
           arrived(i) == BuyRow(l, to, d, al[CHOOSE p \in P : in(p) = i], t)
<1>1. /\ SellAllowed(out, al, SoldByOthers(n))
      /\ fee # None =>
           /\ fee \in TradeIds
           /\ SellAllowed(feeSale, feeAl, [p \in TradeIds |-> Sold(p) + al[p]])
      /\ trades' = [i \in TradeIds |->
           IF i = n THEN out
           ELSE IF i = fee THEN feeSale
           ELSE IF moved(i) THEN arrived(i) ELSE trades[i]]
      /\ allocs' = [s \in TradeIds |->
           IF s = n THEN al ELSE IF s = fee THEN feeAl ELSE allocs[s]]
      /\ transfers' = [transfers EXCEPT ![t] = [fee |-> fee]]
      /\ UNCHANGED dividends
  BY DEF Transfer
<1>2. t \in Provenance /\ None \in Provenance
  BY DEF Provenance
<1>3. MayDraw(l, from, d, t, al)
  BY <1>1, <1>2, SellAllowedFacts
<1>4. fee # None => MayDraw(l, from, d, None, feeAl)
  BY <1>1, <1>2, SellAllowedFacts
<1>5. /\ n \in TradeIds
      /\ trades[n] = None
      /\ \A i \in TradeIds : trades[i] # None => i < n
  BY NextIdFresh DEF IInv
<1>6. Cardinality(P) \in Nat /\ P \in SUBSET TradeIds
  BY CardinalityNat DEF Lines
<1>7. fee # None => fee > n
  BY <1>5, <1>6 DEF TradeIds
<1>8. \A p \in P : in(p) > n
  <2> SUFFICES ASSUME NEW p \in P PROVE in(p) > n
    OBVIOUS
  <2>1. Place(P, p) \in Nat \ {0}
    BY <1>6, PlacePositive DEF IInv
  <2> QED
    BY <2>1, <1>5 DEF TradeIds
<1>9. out \in Trade /\ out # None /\ out.type = "Sell"
  BY <1>2, <1>3, SellRowTyped DEF MayDraw
<1>10. fee # None => feeSale \in Trade /\ feeSale # None /\ feeSale.type = "Sell" /\ feeSale.by = None
  BY <1>2, <1>4, SellRowTyped DEF MayDraw
<1>11. \A i : moved(i) => arrived(i) \in Trade /\ arrived(i) # None /\ arrived(i).type = "Buy"
  <2> SUFFICES ASSUME NEW i, moved(i)
               PROVE  arrived(i) \in Trade /\ arrived(i) # None /\ arrived(i).type = "Buy"
    OBVIOUS
  <2> DEFINE p == CHOOSE q \in P : in(q) = i
  <2>1. p \in P
    OBVIOUS
  <2>2. al[p] \in Nat \ {0}
    BY <2>1, <1>3 DEF MayDraw, Lines
  <2> QED
    BY <2>2, <1>2, BuyRowTyped
<1>12. None \notin TradeIds
  BY NoneAssumption
<1>13. /\ out.listing = l /\ out.account = from /\ out.date = d /\ out.by = t
       /\ feeSale.listing = l /\ feeSale.account = from /\ feeSale.date = d
  BY DEF SellRow
<1> HIDE DEF P, in, fee, out, feeSale, moved, arrived
<1>14. \A i \in TradeIds : trades[i] # None => trades'[i] = trades[i]
  <2> SUFFICES ASSUME NEW i \in TradeIds, trades[i] # None PROVE trades'[i] = trades[i]
    OBVIOUS
  <2>1. i < n /\ i \in Int /\ n \in Int
    BY <1>5 DEF TradeIds
  <2>2. i # n /\ i # fee
    BY <2>1, <1>1, <1>7, <1>12 DEF TradeIds
  <2>3. ~moved(i)
    BY <2>1, <1>8 DEF moved
  <2> QED
    BY <2>2, <2>3, <1>1
<1>15. /\ trades'[n] = out
       /\ fee # None => fee # n /\ trades'[fee] = feeSale
  BY <1>1, <1>5, <1>7, <1>12 DEF TradeIds
<1>16. \A i \in TradeIds : i # n /\ i # fee /\ trades'[i] # None =>
         trades'[i] = trades[i] \/ trades'[i].type = "Buy"
  BY <1>1, <1>11
<1>17. trades' \in [TradeIds -> Trade \cup {None}]
  <2>1. \A i \in TradeIds : i = fee => fee # None
    BY <1>12
  <2>2. \A i \in TradeIds :
          (IF i = n THEN out
           ELSE IF i = fee THEN feeSale
           ELSE IF moved(i) THEN arrived(i) ELSE trades[i]) \in Trade \cup {None}
    BY <2>1, <1>9, <1>10, <1>11 DEF IInv, TypeOK
  <2> QED
    BY <2>2, <1>1
<1>18. allocs' \in [TradeIds -> [TradeIds -> Nat]]
  <2>1. \A s \in TradeIds :
          (IF s = n THEN al ELSE IF s = fee THEN feeAl ELSE allocs[s]) \in [TradeIds -> Nat]
    BY <1>3, <1>4, <1>12 DEF MayDraw, IInv, TypeOK
  <2> QED
    BY <2>1, <1>1
<1>19. /\ transfers' \in [TransferIds -> [fee : TradeIds \cup {None}] \cup {None}]
       /\ transfers'[t].fee = fee
       /\ \A u \in TransferIds : u # t => transfers'[u] = transfers[u]
  BY <1>1 DEF IInv, TypeOK
<1>20. TypeOK'
  BY <1>1, <1>17, <1>18, <1>19 DEF IInv, TypeOK
<1>21. ASSUME NEW s \in TradeIds, NEW p \in TradeIds, NEW a,
              allocs'[s][p] > 0, allocs'[s][p] = a[p],
              NEW by, MayDraw(l, from, d, by, a),
              trades'[s] # None, trades'[s].type = "Sell",
              trades'[s].listing = l, trades'[s].account = from, trades'[s].date = d,
              trades'[s].by = by
       PROVE  LineSound(s, p)'
  <2>1. /\ IsBuy(p)
        /\ trades[p].account = from \/ ClosesWholeHolding(by)
        /\ trades[p].listing = l
        /\ trades[p].date <= d
    BY <1>21 DEF MayDraw
  <2>2. trades'[p] = trades[p]
    BY <2>1, <1>14 DEF IsBuy
  <2> QED
    BY <1>21, <2>1, <2>2 DEF LineSound, IsBuy, IsSell, ClosesWholeHolding
<1>22. AllocationsSound'
  <2>1. ASSUME NEW s \in TradeIds, NEW p \in TradeIds, allocs'[s][p] > 0
        PROVE  LineSound(s, p)'
    <3>1. CASE s = n
      <4>1. allocs'[s][p] = al[p]
        BY <3>1, <1>1
      <4> QED
        BY <2>1, <3>1, <4>1, <1>3, <1>9, <1>13, <1>15, <1>21
    <3>2. CASE s # n /\ s = fee
      <4>1. allocs'[s][p] = feeAl[p] /\ fee # None
        BY <3>2, <1>1, <1>12
      <4> QED
        BY <2>1, <3>2, <4>1, <1>4, <1>10, <1>13, <1>15, <1>21
    <3>3. CASE s # n /\ s # fee
      <4>1. allocs[s][p] > 0
        BY <2>1, <3>3, <1>1
      <4>2. LineSound(s, p)
        BY <4>1 DEF IInv, AllocationsSound
      <4>3. trades'[s] = trades[s] /\ trades'[p] = trades[p]
        BY <4>2, <1>14 DEF LineSound, IsBuy, IsSell
      <4> QED
        BY <4>2, <4>3 DEF LineSound, IsBuy, IsSell, ClosesWholeHolding
    <3> QED
      BY <3>1, <3>2, <3>3
  <2>2. ASSUME NEW s \in TradeIds, IsSell(s)'
        PROVE  HasAllocations(s)'
    <3>1. CASE s = n
      <4>1. PICK p \in TradeIds : al[p] > 0
        BY <1>3 DEF MayDraw, Lines
      <4> QED
        BY <3>1, <4>1, <1>1 DEF HasAllocations
    <3>2. CASE s # n /\ s = fee
      <4>1. PICK p \in TradeIds : feeAl[p] > 0
        BY <3>2, <1>4, <1>12 DEF MayDraw, Lines
      <4> QED
        BY <3>2, <4>1, <1>1 DEF HasAllocations
    <3>3. CASE s # n /\ s # fee
      <4>1. trades'[s] = trades[s]
        BY <2>2, <3>3, <1>16 DEF IsSell
      <4>2. HasAllocations(s)
        BY <2>2, <4>1 DEF IInv, AllocationsSound, IsSell
      <4> QED
        BY <3>3, <4>2, <1>1 DEF HasAllocations
    <3> QED
      BY <3>1, <3>2, <3>3
  <2> QED
    BY <2>1, <2>2 DEF AllocationsSound
<1>23. FeesSound'
  <2>1. ASSUME NEW u \in TransferIds, u # t, transfers[u] # None, transfers[u].fee # None
        PROVE  transfers[u].fee # fee
    <3>1. transfers[u].fee \in TradeIds /\ trades[transfers[u].fee] # None
      BY <2>1 DEF IInv, FeesSound, IsSell
    <3>2. transfers[u].fee < n
      BY <3>1, <1>5
    <3> QED
      BY <3>1, <3>2, <1>1, <1>5, <1>7, <1>12 DEF TradeIds
  <2>2. ASSUME NEW u \in TransferIds, transfers'[u] # None, transfers'[u].fee # None
        PROVE  /\ transfers'[u].fee \in TradeIds
               /\ trades'[transfers'[u].fee] # None
               /\ trades'[transfers'[u].fee].type = "Sell"
               /\ trades'[transfers'[u].fee].by = None
    <3>1. CASE u = t
      BY <2>2, <3>1, <1>1, <1>10, <1>15, <1>19 DEF IsSell
    <3>2. CASE u # t
      <4>1. /\ transfers[u].fee \in TradeIds
            /\ IsSell(transfers[u].fee)
            /\ trades[transfers[u].fee].by = None
            /\ transfers'[u] = transfers[u]
        BY <2>2, <3>2, <1>19 DEF IInv, FeesSound
      <4> QED
        BY <4>1, <1>14 DEF IsSell
    <3> QED
      BY <3>1, <3>2
  <2>3. ASSUME NEW u \in TransferIds, transfers'[u] # None, transfers'[u].fee # None,
               NEW v \in TransferIds, v # u, transfers'[v] # None
        PROVE  transfers'[v].fee # transfers'[u].fee
    <3>1. CASE u = t
      BY <2>1, <2>3, <3>1, <1>19
    <3>2. CASE v = t
      BY <2>1, <2>3, <3>2, <1>19
    <3>3. CASE u # t /\ v # t
      BY <2>3, <3>3, <1>19 DEF IInv, FeesSound
    <3> QED
      BY <3>1, <3>2, <3>3
  <2> QED
    BY <2>2, <2>3 DEF FeesSound, IsSell
<1> QED
  BY <1>20, <1>22, <1>23 DEF IInv

\* What the whole-holding operations share: the closing Sell is a Sell of the
\* action's listing at its date, and a replacement's units are a quantity.
LEMMA ClosingFacts ==
  ASSUME IInv, NEW a \in Actions, NEW n \in NextIds,
         SellAllowed(ClosingSell(a), ClosingLines(Terms[a].listing), SoldByOthers(n))
  PROVE  /\ ClosingSell(a) \in Trade
         /\ MayDraw(Terms[a].listing, DefaultAccount, Terms[a].date, a,
                    ClosingLines(Terms[a].listing))
         /\ \A p \in OpenParcels(Terms[a].listing) :
              /\ p \in TradeIds
              /\ trades[p].account \in Accounts
              /\ ClosingLines(Terms[a].listing)[p] \in Nat \ {0}
<1> DEFINE l == Terms[a].listing
           d == Terms[a].date
           al == ClosingLines(l)
<1>1. l \in Listings /\ d \in Dates /\ DefaultAccount \in Accounts /\ a \in Provenance
  BY TermsAssumption, AccountAssumption DEF Provenance
<1>2. MayDraw(l, DefaultAccount, d, a, al)
  <2>1. SellAllowed(SellRow(l, DefaultAccount, d, Total(al), a), al, SoldByOthers(n))
    BY DEF ClosingSell
  <2> HIDE DEF l, d, al
  <2> QED
    BY <1>1, <2>1, SellAllowedFacts
<1>3. ClosingSell(a) \in Trade
  BY <1>1, <1>2, SellRowTyped DEF ClosingSell, MayDraw
<1>4. ASSUME NEW p \in OpenParcels(l)
      PROVE  p \in TradeIds /\ trades[p].account \in Accounts /\ al[p] \in Nat \ {0}
  <2>1. p \in TradeIds /\ IsBuy(p) /\ Remaining(p) > 0
    BY DEF OpenParcels, Buys
  <2>2. trades[p].account \in Accounts
    BY <2>1 DEF IInv, TypeOK, IsBuy, Trade
  <2>3. al[p] = Remaining(p)
    BY <2>1 DEF ClosingLines
  <2>4. al[p] \in Nat
    BY <2>1, <1>2 DEF MayDraw
  <2> QED
    BY <2>1, <2>2, <2>3, <2>4
<1> QED
  BY <1>2, <1>3, <1>4

\* The open parcels of a listing are trades.
LEMMA OpenParcelsAreIds ==
  ASSUME NEW l
  PROVE  OpenParcels(l) \in SUBSET TradeIds
BY DEF OpenParcels, Buys

\* Units times a ratio are units.
LEMMA ProductPositive ==
  ASSUME NEW x \in Nat \ {0}, NEW y \in Nat \ {0}
  PROVE  x * y \in Nat \ {0}
<1>1. x * y \in Nat
  OBVIOUS
<1>2. x * y # 0
  OBVIOUS
<1> QED
  BY <1>1, <1>2

\* A scrip exchange keeps the invariant.
LEMMA ExchangeKeeps ==
  ASSUME IInv, NEW a \in Actions, NEW n \in NextIds, Exchange(a, n)
  PROVE  IInv'
<1> DEFINE T == Terms[a]
           P == OpenParcels(T.listing)
           al == ClosingLines(T.listing)
           new(i) == \E p \in P : n + Place(P, p) = i
           row(i) == LET p == CHOOSE p \in P : n + Place(P, p) = i
                     IN BuyRow(T.dest, trades[p].account, T.date, al[p] * T.ratio, a)
<1>1. /\ T.kind = "scrip"
      /\ SellAllowed(ClosingSell(a), al, SoldByOthers(n))
      /\ trades' = [i \in TradeIds |->
           IF i = n THEN ClosingSell(a) ELSE IF new(i) THEN row(i) ELSE trades[i]]
      /\ allocs' = Allocated(n, al)
      /\ UNCHANGED <<transfers, dividends>>
  BY DEF Exchange
<1>2. /\ ClosingSell(a) \in Trade
      /\ MayDraw(T.listing, DefaultAccount, T.date, a, al)
      /\ \A p \in P : /\ p \in TradeIds
                      /\ trades[p].account \in Accounts
                      /\ al[p] \in Nat \ {0}
  BY <1>1, ClosingFacts
<1>3. /\ n \in TradeIds
      /\ trades[n] = None
      /\ \A i \in TradeIds : trades[i] # None => i < n
  BY NextIdFresh DEF IInv
<1>4. /\ T.listing \in Listings /\ T.dest \in Listings /\ T.date \in Dates
      /\ T.ratio \in Nat \ {0}
      /\ DefaultAccount \in Accounts /\ a \in Provenance
  BY <1>1, TermsAssumption, AccountAssumption DEF Provenance
<1>5. \A p \in P : Place(P, p) \in Nat \ {0}
  BY PlacePositive, OpenParcelsAreIds DEF IInv
<1>6. ASSUME NEW i, new(i)
      PROVE  row(i) \in Trade /\ row(i).type = "Buy" /\ i # n /\ n < i
  <2> DEFINE p == CHOOSE p \in P : n + Place(P, p) = i
  <2>1. p \in P /\ n + Place(P, p) = i
    BY <1>6
  <2>2. al[p] * T.ratio \in Nat \ {0}
    BY <2>1, <1>2, <1>4, ProductPositive
  <2>3. trades[p].account \in Accounts
    BY <2>1, <1>2
  <2>4. row(i) \in Trade /\ row(i).type = "Buy"
    BY <2>2, <2>3, <1>4, BuyRowTyped
  <2>5. n < i
    <3> HIDE DEF p
    <3> QED
      BY <2>1, <1>3, <1>5 DEF TradeIds
  <2> QED
    BY <2>4, <2>5, <1>3 DEF TradeIds
<1> HIDE DEF T, P, al, new, row
<1>7. trades' \in [TradeIds -> Trade \cup {None}]
  BY <1>1, <1>2, <1>6 DEF IInv, TypeOK
<1>8. \A i \in TradeIds : trades[i] # None => trades'[i] = trades[i]
  <2> SUFFICES ASSUME NEW i \in TradeIds, trades[i] # None PROVE trades'[i] = trades[i]
    OBVIOUS
  <2>1. i < n /\ ~(n < i) /\ i # n
    BY <1>3 DEF TradeIds
  <2>2. ~new(i)
    BY <2>1, <1>6
  <2> QED
    BY <2>1, <2>2, <1>1
<1>9. \A i \in TradeIds \ {n} :
        trades'[i] # None => trades'[i] = trades[i] \/ trades'[i].type = "Buy"
  BY <1>1, <1>6
<1>10. trades'[n] = SellRow(T.listing, DefaultAccount, T.date, Total(al), a)
  BY <1>1, <1>3 DEF ClosingSell, T, al
<1>11. /\ allocs' \in [TradeIds -> [TradeIds -> Nat]]
       /\ AllocationsSound'
       /\ FeesSound'
  BY <1>1, <1>2, <1>3, <1>4, <1>7, <1>8, <1>9, <1>10, NewSellSound
<1> QED
  BY <1>1, <1>7, <1>11 DEF IInv, TypeOK

\* A demerger keeps the invariant.
LEMMA DemergeKeeps ==
  ASSUME IInv, NEW a \in Actions, NEW n \in NextIds, Demerge(a, n)
  PROVE  IInv'
<1> DEFINE T == Terms[a]
           P == OpenParcels(T.listing)
           al == ClosingLines(T.listing)
           head(p) == n + 2 * Place(P, p) - 1
           new(i) == \E p \in P : i \in {head(p), head(p) + 1}
           row(i) == LET p == CHOOSE p \in P : i \in {head(p), head(p) + 1} IN
                     IF i = head(p)
                     THEN BuyRow(T.listing, trades[p].account, T.date, al[p], a)
                     ELSE BuyRow(T.dest, trades[p].account, T.date, al[p] * T.ratio, a)
<1>1. /\ T.kind = "demerger"
      /\ SellAllowed(ClosingSell(a), al, SoldByOthers(n))
      /\ trades' = [i \in TradeIds |->
           IF i = n THEN ClosingSell(a) ELSE IF new(i) THEN row(i) ELSE trades[i]]
      /\ allocs' = Allocated(n, al)
      /\ UNCHANGED <<transfers, dividends>>
  BY DEF Demerge
<1>2. /\ ClosingSell(a) \in Trade
      /\ MayDraw(T.listing, DefaultAccount, T.date, a, al)
      /\ \A p \in P : /\ p \in TradeIds
                      /\ trades[p].account \in Accounts
                      /\ al[p] \in Nat \ {0}
  BY <1>1, ClosingFacts
<1>3. /\ n \in TradeIds
      /\ trades[n] = None
      /\ \A i \in TradeIds : trades[i] # None => i < n
  BY NextIdFresh DEF IInv
<1>4. /\ T.listing \in Listings /\ T.dest \in Listings /\ T.date \in Dates
      /\ T.ratio \in Nat \ {0}
      /\ DefaultAccount \in Accounts /\ a \in Provenance
  BY <1>1, TermsAssumption, AccountAssumption DEF Provenance
<1>5. \A p \in P : Place(P, p) \in Nat \ {0}
  BY PlacePositive, OpenParcelsAreIds DEF IInv
<1>6. ASSUME NEW i, new(i)
      PROVE  row(i) \in Trade /\ row(i).type = "Buy" /\ i # n /\ n < i
  <2> DEFINE p == CHOOSE p \in P : i \in {head(p), head(p) + 1}
             headRow == BuyRow(T.listing, trades[p].account, T.date, al[p], a)
             destRow == BuyRow(T.dest, trades[p].account, T.date, al[p] * T.ratio, a)
  <2>1. p \in P /\ i \in {head(p), head(p) + 1}
    BY <1>6
  <2>2. al[p] \in Nat \ {0} /\ al[p] * T.ratio \in Nat \ {0}
    BY <2>1, <1>2, <1>4, ProductPositive
  <2>3. trades[p].account \in Accounts
    BY <2>1, <1>2
  <2>4. headRow \in Trade /\ headRow.type = "Buy"
    BY <2>2, <2>3, <1>4, BuyRowTyped
  <2>5. destRow \in Trade /\ destRow.type = "Buy"
    BY <2>2, <2>3, <1>4, BuyRowTyped
  <2>6. row(i) = headRow \/ row(i) = destRow
    OBVIOUS
  <2>7. n < i /\ i # n
    <3> DEFINE k == Place(P, p)
    <3>1. k \in Nat \ {0} /\ n \in Int
      BY <2>1, <1>3, <1>5 DEF TradeIds
    <3>2. i = n + 2 * k - 1 \/ i = n + 2 * k - 1 + 1
      BY <2>1
    <3> HIDE DEF k
    <3> QED
      BY <3>1, <3>2
  <2> HIDE DEF headRow, destRow
  <2>8. row(i) \in Trade /\ row(i).type = "Buy"
    BY <2>4, <2>5, <2>6
  <2> QED
    BY <2>7, <2>8
<1> HIDE DEF T, P, al, head, new, row
<1>7. trades' \in [TradeIds -> Trade \cup {None}]
  BY <1>1, <1>2, <1>6 DEF IInv, TypeOK
<1>8. \A i \in TradeIds : trades[i] # None => trades'[i] = trades[i]
  <2> SUFFICES ASSUME NEW i \in TradeIds, trades[i] # None PROVE trades'[i] = trades[i]
    OBVIOUS
  <2>1. i < n /\ ~(n < i) /\ i # n
    BY <1>3 DEF TradeIds
  <2>2. ~new(i)
    BY <2>1, <1>6
  <2> QED
    BY <2>1, <2>2, <1>1
<1>9. \A i \in TradeIds \ {n} :
        trades'[i] # None => trades'[i] = trades[i] \/ trades'[i].type = "Buy"
  BY <1>1, <1>6
<1>10. trades'[n] = SellRow(T.listing, DefaultAccount, T.date, Total(al), a)
  BY <1>1, <1>3 DEF ClosingSell, T, al
<1>11. /\ allocs' \in [TradeIds -> [TradeIds -> Nat]]
       /\ AllocationsSound'
       /\ FeesSound'
  BY <1>1, <1>2, <1>3, <1>4, <1>7, <1>8, <1>9, <1>10, NewSellSound
<1> QED
  BY <1>1, <1>7, <1>11 DEF IInv, TypeOK

\* Recognising worthless shares keeps the invariant.
LEMMA RecogniseKeeps ==
  ASSUME IInv, NEW a \in Actions, NEW n \in NextIds, Recognise(a, n)
  PROVE  IInv'
<1> DEFINE T == Terms[a]
           al == ClosingLines(T.listing)
<1>1. /\ SellAllowed(ClosingSell(a), al, SoldByOthers(n))
      /\ trades' = [trades EXCEPT ![n] = ClosingSell(a)]
      /\ allocs' = Allocated(n, al)
      /\ UNCHANGED <<transfers, dividends>>
  BY DEF Recognise
<1>2. /\ ClosingSell(a) \in Trade
      /\ MayDraw(T.listing, DefaultAccount, T.date, a, al)
  BY <1>1, ClosingFacts
<1>3. n \in TradeIds /\ trades[n] = None
  BY NextIdFresh DEF IInv
<1>4. /\ T.listing \in Listings /\ T.date \in Dates
      /\ DefaultAccount \in Accounts /\ a \in Provenance
  BY TermsAssumption, AccountAssumption DEF Provenance
<1> HIDE DEF T, al
<1>5. /\ trades' \in [TradeIds -> Trade \cup {None}]
      /\ \A i \in TradeIds : i # n => trades'[i] = trades[i]
  BY <1>1, <1>2, <1>3 DEF IInv, TypeOK
<1>6. trades'[n] = SellRow(T.listing, DefaultAccount, T.date, Total(al), a)
  BY <1>1, <1>3 DEF ClosingSell, T, al, IInv, TypeOK
<1>7. /\ allocs' \in [TradeIds -> [TradeIds -> Nat]]
      /\ AllocationsSound'
      /\ FeesSound'
  BY <1>1, <1>2, <1>3, <1>4, <1>5, <1>6, NewSellSound
<1> QED
  BY <1>1, <1>5, <1>7 DEF IInv, TypeOK

\* Taking part in a buy-back keeps the invariant.
LEMMA ParticipateKeeps ==
  ASSUME IInv, NEW a \in Actions, NEW n \in NextIds, NEW ac \in Accounts,
         NEW d \in Dates, NEW al, Participate(a, n, ac, d, al)
  PROVE  IInv'
<1> DEFINE l == Terms[a].listing
           r == SellRow(l, ac, d, Total(al), a)
<1>1. /\ SellAllowed(r, al, SoldByOthers(n))
      /\ trades' = [trades EXCEPT ![n] = r]
      /\ allocs' = Allocated(n, al)
      /\ dividends' = dividends \/ dividends' = dividends \cup {n}
      /\ UNCHANGED transfers
  BY DEF Participate
<1>2. n \in TradeIds /\ trades[n] = None
  BY NextIdFresh DEF IInv
<1>3. l \in Listings /\ a \in Provenance
  BY TermsAssumption DEF Provenance
<1> HIDE DEF l
<1>4. MayDraw(l, ac, d, a, al)
  BY <1>1, <1>3, SellAllowedFacts
<1>5. r \in Trade
  BY <1>3, <1>4, SellRowTyped DEF MayDraw
<1>6. /\ trades' \in [TradeIds -> Trade \cup {None}]
      /\ trades'[n] = SellRow(l, ac, d, Total(al), a)
      /\ \A i \in TradeIds : i # n => trades'[i] = trades[i]
  BY <1>1, <1>2, <1>5 DEF IInv, TypeOK
<1>7. /\ allocs' \in [TradeIds -> [TradeIds -> Nat]]
      /\ AllocationsSound'
      /\ FeesSound'
  BY <1>1, <1>2, <1>3, <1>4, <1>6, NewSellSound
<1> QED
  BY <1>1, <1>2, <1>6, <1>7 DEF IInv, TypeOK

-----------------------------------------------------------------------------
(* The invariant, and the theorems.                                        *)

\* An empty ledger satisfies the invariant.
LEMMA InitIInv == Init => IInv
<1> SUFFICES ASSUME Init PROVE IInv
  OBVIOUS
<1>1. /\ \A i \in TradeIds : trades[i] = None
      /\ \A s, p \in TradeIds : allocs[s][p] = 0
      /\ \A t \in TransferIds : transfers[t] = None
  BY DEF Init, NoLines
<1>2. TypeOK
  BY DEF Init, NoLines, TypeOK
<1>3. AllocationsSound
  <2>1. \A s, p \in TradeIds : ~(allocs[s][p] > 0)
    BY <1>1
  <2> QED
    BY <1>1, <2>1 DEF AllocationsSound, IsSell
<1>4. FeesSound
  BY <1>1 DEF FeesSound
<1> QED
  BY <1>2, <1>3, <1>4 DEF IInv

\* Every operation keeps the invariant.
LEMMA NextIInv == IInv /\ [Next]_vars => IInv'
<1> SUFFICES ASSUME IInv, [Next]_vars PROVE IInv'
  OBVIOUS
<1>1. CASE TradeStep
  BY <1>1, CreateBuyKeeps, EditBuyKeeps, DeleteTradeKeeps DEF TradeStep
<1>2. CASE SellStep
  BY <1>2, CreateSellKeeps, EditSellKeeps, DeleteSellKeeps DEF SellStep
<1>3. CASE TransferStep
  BY <1>3, TransferKeeps, DeleteTransferKeeps DEF TransferStep
<1>4. CASE ActionStep
  BY <1>4, ExchangeKeeps, DemergeKeeps, RecogniseKeeps, ParticipateKeeps DEF ActionStep
<1>5. CASE UNCHANGED vars
  BY <1>5 DEF vars, IInv, TypeOK, AllocationsSound, FeesSound, LineSound,
              HasAllocations, IsBuy, IsSell, ClosesWholeHolding
<1> QED
  BY <1>1, <1>2, <1>3, <1>4, <1>5 DEF Next

\* In every behaviour of the ledger the rows have their types: no write of any
\* handler gives a trade a quantity of zero or an unknown reference.
THEOREM TypeCorrect == Spec => []TypeOK
<1>1. IInv => TypeOK
  BY DEF IInv
<1> QED
  BY InitIInv, NextIInv, <1>1, PTL DEF Spec

\* In every behaviour of the ledger each allocation line joins an existing Sell
\* to an existing parcel it may draw on, and each Sell has one: no order of
\* entries, edits, transfers, operations and deletions leaves a dangling or a
\* misdated line (trade::write, sell::write, transfer::db_delete and the rest).
THEOREM AllocationsSoundAlways == Spec => []AllocationsSound
<1>1. IInv => AllocationsSound
  BY DEF IInv
<1> QED
  BY InitIInv, NextIInv, <1>1, PTL DEF Spec

-----------------------------------------------------------------------------
(* Sums of allocation lines.                                               *)

\* The ids are finitely many, so every sum over them is defined.
LEMMA TradeIdsFinite == IsFiniteSet(TradeIds)
BY BoundsAssumption, FS_Interval DEF TradeIds

\* What is sold of a parcel is a natural number of units.
LEMMA SoldNat ==
  ASSUME TypeOK, NEW p \in TradeIds
  PROVE  Sold(p) \in Nat
<1> DEFINE f == [s \in TradeIds |-> allocs[s][p]]
<1>1. \A s \in TradeIds : f[s] \in Nat
  BY DEF TypeOK
<1> HIDE DEF f
<1>2. SumOver(f, TradeIds) \in Nat
  BY <1>1, TradeIdsFinite, SumNat
<1> QED
  BY <1>2 DEF Sold, f

\* Nothing is sold of what is no parcel.
LEMMA Unsold ==
  ASSUME IInv, NEW p \in TradeIds, ~IsBuy(p)
  PROVE  Sold(p) = 0 /\ \A s \in TradeIds : allocs[s][p] = 0
<1>1. \A s \in TradeIds : allocs[s][p] = 0
  <2> SUFFICES ASSUME NEW s \in TradeIds PROVE allocs[s][p] = 0
    OBVIOUS
  <2>1. allocs[s][p] \in Nat /\ ~(allocs[s][p] > 0)
    BY DEF IInv, TypeOK, AllocationsSound, LineSound
  <2> QED
    BY <2>1
<1> DEFINE f == [s \in TradeIds |-> allocs[s][p]]
<1>2. \A s \in TradeIds : f[s] = 0
  BY <1>1
<1> HIDE DEF f
<1>3. SumOver(f, TradeIds) = 0
  BY <1>2, TradeIdsFinite, SumZero
<1> QED
  BY <1>1, <1>3 DEF Sold, f

\* Rewriting the lines of one Sell moves each parcel's sum by the difference.
LEMMA SoldAfterWrite ==
  ASSUME TypeOK, NEW n \in TradeIds, NEW STATE al, al \in [TradeIds -> Nat],
         allocs' = Allocated(n, al), NEW p \in TradeIds
  PROVE  Sold(p)' = (Sold(p) - allocs[n][p]) + al[p]
<1> DEFINE f == [s \in TradeIds |-> allocs[s][p]]
           g == [s \in TradeIds |-> allocs'[s][p]]
<1>1. /\ \A s \in TradeIds : f[s] \in Int /\ g[s] \in Int
      /\ \A s \in TradeIds \ {n} : g[s] = f[s]
      /\ f[n] = allocs[n][p] /\ g[n] = al[p]
  BY DEF TypeOK, Allocated
<1> HIDE DEF f, g
<1>2. SumOver(g, TradeIds) = (SumOver(f, TradeIds) - f[n]) + g[n]
  BY <1>1, TradeIdsFinite, SumChange
<1> QED
  BY <1>1, <1>2 DEF Sold, f, g

\* Taking lines away never raises what is sold of a parcel.
LEMMA SoldAfterRelease ==
  ASSUME TypeOK, NEW S, allocs' = Released(S), NEW p \in TradeIds
  PROVE  Sold(p)' <= Sold(p) /\ Sold(p)' \in Nat
<1> DEFINE f == [s \in TradeIds |-> allocs[s][p]]
           g == [s \in TradeIds |-> allocs'[s][p]]
<1>1. \A s \in TradeIds : f[s] \in Nat /\ g[s] \in Nat /\ g[s] <= f[s]
  <2> SUFFICES ASSUME NEW s \in TradeIds PROVE f[s] \in Nat /\ g[s] \in Nat /\ g[s] <= f[s]
    OBVIOUS
  <2>1. f[s] \in Nat /\ g[s] \in {0, f[s]}
    BY DEF TypeOK, Released, NoLines
  <2> QED
    BY <2>1
<1> HIDE DEF f, g
<1>2. SumOver(g, TradeIds) <= SumOver(f, TradeIds) /\ SumOver(g, TradeIds) \in Nat
  BY <1>1, TradeIdsFinite, SumAtMost, SumNat
<1> QED
  BY <1>2 DEF Sold, f, g

-----------------------------------------------------------------------------
(* No parcel is oversold.  A write that leaves the lines alone must keep   *)
(* each parcel's quantity above its sum; one that rewrites a Sell's lines  *)
(* has checked each line against what the other Sells drew.                *)

Covered == IInv /\ NoParcelOversold

\* A parcel's quantity covers its sum.
LEMMA CoveredFacts ==
  ASSUME Covered, NEW p \in TradeIds, IsBuy(p)
  PROVE  /\ Sold(p) <= trades[p].qty
         /\ Sold(p) \in Nat /\ trades[p].qty \in Nat
<1>1. Sold(p) \in Nat
  BY SoldNat DEF Covered, IInv
<1>2. trades[p].qty \in Nat
  BY DEF Covered, IInv, TypeOK, IsBuy, Trade
<1>3. trades[p].qty - Sold(p) >= 0
  BY DEF Covered, NoParcelOversold, Buys, Remaining
<1> QED
  BY <1>1, <1>2, <1>3

\* If each parcel's sum stays within its quantity, none is oversold.
LEMMA CoveredAfter ==
  ASSUME \A p \in TradeIds : IsBuy(p)' =>
           Sold(p)' \in Int /\ trades'[p].qty \in Int /\ Sold(p)' <= trades'[p].qty
  PROVE  NoParcelOversold'
BY DEF NoParcelOversold, Buys, Remaining

\* Rewriting the lines of one Sell, when each line fits what the others left.
LEMMA WriteCovers ==
  ASSUME Covered, NEW n \in TradeIds, ~IsBuy(n),
         NEW STATE al, al \in [TradeIds -> Nat],
         \A p \in TradeIds : al[p] > 0 =>
           IsBuy(p) /\ SoldByOthers(n)[p] + al[p] <= trades[p].qty,
         allocs' = Allocated(n, al),
         trades' \in [TradeIds -> Trade \cup {None}],
         \A p \in TradeIds : IsBuy(p)' => trades'[p] = trades[p] \/ ~IsBuy(p)
  PROVE  NoParcelOversold'
<1> SUFFICES ASSUME NEW p \in TradeIds, IsBuy(p)'
             PROVE  Sold(p)' \in Int /\ trades'[p].qty \in Int /\ Sold(p)' <= trades'[p].qty
  BY CoveredAfter
<1>1. TypeOK
  BY DEF Covered, IInv
<1>2. Sold(p)' = (Sold(p) - allocs[n][p]) + al[p]
  BY <1>1, SoldAfterWrite
<1>3. Sold(p) \in Nat /\ allocs[n][p] \in Nat /\ al[p] \in Nat
  BY <1>1, SoldNat DEF TypeOK
<1>4. trades'[p].qty \in Nat
  BY DEF IsBuy, Trade
<1>5. CASE ~IsBuy(p)
  <2>1. Sold(p) = 0 /\ al[p] = 0
    BY <1>3, <1>5, Unsold DEF Covered
  <2> QED
    BY <2>1, <1>2, <1>3, <1>4
<1>6. CASE IsBuy(p) /\ al[p] = 0
  <2>1. Sold(p) <= trades[p].qty /\ trades'[p] = trades[p]
    BY <1>6, CoveredFacts
  <2> QED
    BY <2>1, <1>2, <1>3, <1>4, <1>6
<1>7. CASE IsBuy(p) /\ al[p] # 0
  <2>1. al[p] > 0
    BY <1>3, <1>7
  <2>2. (Sold(p) - allocs[n][p]) + al[p] <= trades[p].qty
    BY <2>1 DEF SoldByOthers
  <2> QED
    BY <2>2, <1>2, <1>3, <1>4, <1>7
<1> QED
  BY <1>5, <1>6, <1>7

\* The checks of a Sell give what WriteCovers asks of its lines.
LEMMA LinesFit ==
  ASSUME NEW r, NEW al, NEW taken, SellAllowed(r, al, taken), NEW p \in TradeIds, al[p] > 0
  PROVE  IsBuy(p) /\ taken[p] + al[p] <= trades[p].qty
BY DEF SellAllowed, LineAllowed, Lines

\* A new Buy is a parcel nothing has drawn on.
LEMMA CreateBuyCovers ==
  ASSUME Covered, NEW id \in TradeIds, NEW l \in Listings, NEW ac \in Accounts,
         NEW d \in Dates, NEW q \in Quantities, CreateBuy(id, l, ac, d, q)
  PROVE  NoParcelOversold'
<1> SUFFICES ASSUME NEW p \in TradeIds, IsBuy(p)'
             PROVE  Sold(p)' \in Int /\ trades'[p].qty \in Int /\ Sold(p)' <= trades'[p].qty
  BY CoveredAfter
<1>1. /\ trades' = [trades EXCEPT ![id] = BuyRow(l, ac, d, q, None)]
      /\ trades[id] = None
      /\ allocs' = allocs
      /\ trades \in [TradeIds -> Trade \cup {None}]
  BY DEF CreateBuy, ClientIds, Covered, IInv, TypeOK
<1>2. Sold(p)' = Sold(p)
  BY <1>1 DEF Sold
<1>3. CASE p = id
  <2>1. Sold(p) = 0
    BY <1>1, <1>3, Unsold DEF IsBuy, Covered
  <2>2. trades'[p].qty = q /\ q \in Nat
    BY <1>1, <1>3, BoundsAssumption DEF BuyRow, Quantities
  <2> QED
    BY <2>1, <2>2, <1>2
<1>4. CASE p # id
  <2>1. trades'[p] = trades[p] /\ IsBuy(p)
    BY <1>1, <1>4 DEF IsBuy
  <2> QED
    BY <2>1, <1>2, CoveredFacts
<1> QED
  BY <1>3, <1>4

\* An edit does not shrink a parcel below what its disposals drew.
LEMMA EditBuyCovers ==
  ASSUME Covered, NEW id \in TradeIds, NEW l \in Listings, NEW ac \in Accounts,
         NEW d \in Dates, NEW q \in Quantities, EditBuy(id, l, ac, d, q)
  PROVE  NoParcelOversold'
<1> SUFFICES ASSUME NEW p \in TradeIds, IsBuy(p)'
             PROVE  Sold(p)' \in Int /\ trades'[p].qty \in Int /\ Sold(p)' <= trades'[p].qty
  BY CoveredAfter
<1>1. /\ trades' = [trades EXCEPT ![id] = BuyRow(l, ac, d, q, None)]
      /\ IsBuy(id)
      /\ q >= Sold(id)
      /\ allocs' = allocs
      /\ trades \in [TradeIds -> Trade \cup {None}]
  BY DEF EditBuy, QuantityCoversSales, Covered, IInv, TypeOK
<1>2. Sold(p)' = Sold(p)
  BY <1>1 DEF Sold
<1>3. CASE p = id
  <2>1. trades'[p].qty = q /\ q \in Nat
    BY <1>1, <1>3, BoundsAssumption DEF BuyRow, Quantities
  <2> QED
    BY <2>1, <1>1, <1>2, <1>3, CoveredFacts
<1>4. CASE p # id
  <2>1. trades'[p] = trades[p] /\ IsBuy(p)
    BY <1>1, <1>4 DEF IsBuy
  <2> QED
    BY <2>1, <1>2, CoveredFacts
<1> QED
  BY <1>3, <1>4

\* Deleting rows and the lines of some Sells.
LEMMA DeletionCovers ==
  ASSUME Covered, NEW S, NEW gone, allocs' = Released(S), trades' = Without(gone)
  PROVE  NoParcelOversold'
<1> SUFFICES ASSUME NEW p \in TradeIds, IsBuy(p)'
             PROVE  Sold(p)' \in Int /\ trades'[p].qty \in Int /\ Sold(p)' <= trades'[p].qty
  BY CoveredAfter
<1>1. trades'[p] = trades[p] /\ IsBuy(p)
  BY DEF Without, IsBuy
<1>2. Sold(p)' <= Sold(p) /\ Sold(p)' \in Nat
  BY SoldAfterRelease DEF Covered, IInv
<1>3. /\ Sold(p) <= trades[p].qty
      /\ Sold(p) \in Nat /\ trades[p].qty \in Nat
  BY <1>1, CoveredFacts
<1> QED
  BY <1>1, <1>2, <1>3

\* A deleted trade draws on nothing, and a parcel drawn on is not deleted.
LEMMA DeleteTradeCovers ==
  ASSUME Covered, NEW id \in TradeIds, DeleteTrade(id)
  PROVE  NoParcelOversold'
<1>1. trades' = Without({id}) /\ allocs' = allocs
  BY DEF DeleteTrade
<1>2. allocs' = Released({})
  BY <1>1 DEF Released, Covered, IInv, TypeOK
<1> QED
  BY <1>1, <1>2, DeletionCovers

\* A new Sell takes what is left of each parcel at most.
LEMMA CreateSellCovers ==
  ASSUME Covered, NEW id \in TradeIds, NEW l \in Listings, NEW ac \in Accounts,
         NEW d \in Dates, NEW al, CreateSell(id, l, ac, d, al)
  PROVE  NoParcelOversold'
<1> DEFINE r == SellRow(l, ac, d, Total(al), None)
<1>1. /\ trades[id] = None
      /\ SellAllowed(r, al, SoldByOthers(id))
      /\ trades' = [trades EXCEPT ![id] = r]
      /\ allocs' = Allocated(id, al)
  BY DEF CreateSell, ClientIds
<1>2. IInv /\ IInv'
  BY CreateSellKeeps DEF Covered
<1>3. trades' \in [TradeIds -> Trade \cup {None}] /\ al \in [TradeIds -> Nat]
  BY <1>1, <1>2 DEF IInv, TypeOK, SellAllowed
<1>4. \A p \in TradeIds : IsBuy(p)' => trades'[p] = trades[p] \/ ~IsBuy(p)
  BY <1>1 DEF IsBuy
<1>5. \A p \in TradeIds : al[p] > 0 =>
        IsBuy(p) /\ SoldByOthers(id)[p] + al[p] <= trades[p].qty
  BY <1>1, LinesFit
<1>6. ~IsBuy(id)
  BY <1>1 DEF IsBuy
<1> HIDE DEF r
<1> QED
  BY <1>1, <1>3, <1>4, <1>5, <1>6, WriteCovers

\* An edited Sell takes what the other Sells leave of each parcel at most.
LEMMA EditSellCovers ==
  ASSUME Covered, NEW id \in TradeIds, NEW l \in Listings, NEW ac \in Accounts,
         NEW d \in Dates, NEW al, EditSell(id, l, ac, d, al)
  PROVE  NoParcelOversold'
<1> DEFINE r == SellRow(l, ac, d, Total(al), None)
<1>1. /\ IsSell(id)
      /\ SellAllowed(r, al, SoldByOthers(id))
      /\ trades' = [trades EXCEPT ![id] = r]
      /\ allocs' = Allocated(id, al)
  BY DEF EditSell
<1>2. IInv /\ IInv'
  BY EditSellKeeps DEF Covered
<1>3. trades' \in [TradeIds -> Trade \cup {None}] /\ al \in [TradeIds -> Nat]
  BY <1>1, <1>2 DEF IInv, TypeOK, SellAllowed
<1>4. ~IsBuy(id)
  BY <1>1 DEF IsSell, IsBuy
<1>5. \A p \in TradeIds : IsBuy(p)' => trades'[p] = trades[p] \/ ~IsBuy(p)
  BY <1>1, <1>4 DEF IsBuy
<1>6. \A p \in TradeIds : al[p] > 0 =>
        IsBuy(p) /\ SoldByOthers(id)[p] + al[p] <= trades[p].qty
  BY <1>1, LinesFit
<1> HIDE DEF r
<1> QED
  BY <1>1, <1>3, <1>4, <1>5, <1>6, WriteCovers

-----------------------------------------------------------------------------
(* The places a query gives to parcels, and so the ids of what a transfer, *)
(* an exchange or a demerger issues for them.                              *)

\* Places are at most the number of parcels.
LEMMA PlaceBounded ==
  ASSUME NEW P \in SUBSET TradeIds, NEW p \in P
  PROVE  Place(P, p) <= Cardinality(P)
<1> DEFINE Q == {q \in P : \/ trades[q].date < trades[p].date
                           \/ trades[q].date = trades[p].date /\ q <= p}
<1>1. IsFiniteSet(P) /\ Q \in SUBSET P
  BY TradeIdsFinite, FS_Subset
<1>2. Cardinality(Q) <= Cardinality(P)
  BY <1>1, FS_Subset
<1> QED
  BY <1>2 DEF Place

\* No two parcels have the same place: ORDER BY date, id is a total order.
LEMMA PlaceInjective ==
  ASSUME NEW P \in SUBSET TradeIds, \A q \in P : trades[q].date \in Nat,
         NEW p \in P, NEW q \in P, Place(P, p) = Place(P, q)
  PROVE  p = q
<1> DEFINE B(x) == {y \in P : \/ trades[y].date < trades[x].date
                              \/ trades[y].date = trades[x].date /\ y <= x}
<1>1. ASSUME NEW x \in P, NEW y \in P,
             \/ trades[x].date < trades[y].date
             \/ trades[x].date = trades[y].date /\ x < y
      PROVE  Cardinality(B(x)) # Cardinality(B(y))
  <2>0. \A z \in P : z \in Int /\ trades[z].date \in Int
    BY DEF TradeIds
  <2>1. B(x) \subseteq B(y)
    BY <2>0, <1>1
  <2>2. y \in B(y) /\ y \notin B(x)
    BY <2>0, <1>1
  <2>3. IsFiniteSet(B(y))
    BY TradeIdsFinite, FS_Subset
  <2> HIDE DEF B
  <2> QED
    BY <2>1, <2>2, <2>3, FS_Subset
<1>2. Cardinality(B(p)) = Cardinality(B(q))
  BY DEF Place
<1> HIDE DEF B
<1>3. /\ p \in Int /\ q \in Int
      /\ trades[p].date \in Int /\ trades[q].date \in Int
  BY DEF TradeIds
<1> QED
  BY <1>1, <1>2, <1>3

\* The places of parcels: 1 up to how many there are, each its own.
LEMMA PlaceFacts ==
  ASSUME IInv, NEW P \in SUBSET Buys
  PROVE  /\ Cardinality(P) \in Nat
         /\ \A p \in P : Place(P, p) \in 1..Cardinality(P)
         /\ \A p, q \in P : Place(P, p) = Place(P, q) => p = q
<1>1. P \in SUBSET TradeIds /\ \A q \in P : trades[q].date \in Nat
  BY DEF Buys, IsBuy, IInv, TypeOK, Trade, Dates
<1>2. Cardinality(P) \in Nat
  BY <1>1, CardinalityNat
<1>3. \A p \in P : Place(P, p) \in 1..Cardinality(P)
  <2> SUFFICES ASSUME NEW p \in P PROVE Place(P, p) \in 1..Cardinality(P)
    OBVIOUS
  <2>1. Place(P, p) \in Nat \ {0} /\ Place(P, p) <= Cardinality(P)
    BY <1>1, PlacePositive, PlaceBounded DEF IInv
  <2> QED
    BY <1>2, <2>1
<1> QED
  BY <1>1, <1>2, <1>3, PlaceInjective

\* The columns of the rows a handler writes.
LEMMA RowFields ==
  ASSUME NEW l, NEW ac, NEW d, NEW q, NEW by
  PROVE  /\ BuyRow(l, ac, d, q, by).type = "Buy"
         /\ BuyRow(l, ac, d, q, by).listing = l
         /\ BuyRow(l, ac, d, q, by).account = ac
         /\ BuyRow(l, ac, d, q, by).date = d
         /\ BuyRow(l, ac, d, q, by).qty = q
         /\ BuyRow(l, ac, d, q, by).by = by
         /\ SellRow(l, ac, d, q, by).type = "Sell"
         /\ SellRow(l, ac, d, q, by).listing = l
         /\ SellRow(l, ac, d, q, by).account = ac
         /\ SellRow(l, ac, d, q, by).date = d
         /\ SellRow(l, ac, d, q, by).qty = q
         /\ SellRow(l, ac, d, q, by).by = by
BY DEF BuyRow, SellRow

\* What an exchange writes: the rows on record stay, the closing Sell takes
\* the next id, and each open parcel gets a replacement behind it.
ExchangeWrote(a, n) ==
  LET P == OpenParcels(Terms[a].listing)
      al == ClosingLines(Terms[a].listing)
      in(p) == n + Place(P, p)
  IN
  /\ n \in TradeIds /\ trades[n] = None
  /\ \A i \in TradeIds : trades[i] # None => trades'[i] = trades[i] /\ i # n
  /\ trades'[n] = ClosingSell(a)
  /\ \A p \in P :
       /\ in(p) \in TradeIds \ {n}
       /\ trades[in(p)] = None
       /\ trades'[in(p)] = BuyRow(Terms[a].dest, trades[p].account, Terms[a].date,
                                 al[p] * Terms[a].ratio, a)
  /\ \A p, q \in P : in(p) = in(q) => p = q
  /\ \A i \in TradeIds : i = n \/ (\E p \in P : i = in(p)) \/ trades'[i] = trades[i]

\* The rows a scrip exchange writes.
LEMMA ExchangeRows ==
  ASSUME IInv, NEW a \in Actions, NEW n \in NextIds, Exchange(a, n)
  PROVE  ExchangeWrote(a, n)
<1> DEFINE P == OpenParcels(Terms[a].listing)
           al == ClosingLines(Terms[a].listing)
           in(p) == n + Place(P, p)
           row(p) == BuyRow(Terms[a].dest, trades[p].account, Terms[a].date,
                            al[p] * Terms[a].ratio, a)
<1>1. /\ n + Cardinality(P) \in TradeIds
      /\ trades' = [i \in TradeIds |->
           IF i = n THEN ClosingSell(a)
           ELSE IF \E p \in P : in(p) = i THEN row(CHOOSE p \in P : in(p) = i)
           ELSE trades[i]]
  BY DEF Exchange
<1>2. /\ n \in TradeIds
      /\ trades[n] = None
      /\ \A i \in TradeIds : trades[i] # None => i < n
  BY NextIdFresh DEF IInv
<1>3. /\ Cardinality(P) \in Nat
      /\ \A p \in P : Place(P, p) \in 1..Cardinality(P)
      /\ \A p, q \in P : Place(P, p) = Place(P, q) => p = q
  <2>1. P \in SUBSET Buys
    BY DEF OpenParcels
  <2> QED
    BY <2>1, PlaceFacts
<1>4. ASSUME NEW p \in P PROVE in(p) \in TradeIds /\ in(p) > n
  <2> DEFINE k == Place(P, p)
             m == Cardinality(P)
  <2>1. k \in 1..m /\ m \in Nat /\ n \in 1..MaxTrades /\ n + m \in 1..MaxTrades
    BY <1>1, <1>2, <1>3 DEF TradeIds
  <2> HIDE DEF k, m
  <2>2. n + k \in 1..MaxTrades /\ n + k > n
    BY <2>1, BoundsAssumption
  <2> QED
    BY <2>2 DEF k, TradeIds
<1>5. ASSUME NEW p \in P, NEW q \in P, in(p) = in(q) PROVE p = q
  <2> DEFINE k == Place(P, p)
             m == Place(P, q)
  <2>1. k \in Int /\ m \in Int /\ n \in Int /\ n + k = n + m
    BY <1>2, <1>3, <1>5 DEF TradeIds
  <2>2. k = m => p = q
    BY <1>3
  <2> HIDE DEF k, m
  <2> QED
    BY <2>1, <2>2
<1> HIDE DEF in, row
<1>6. \A p \in P : trades'[in(p)] = row(p)
  <2> SUFFICES ASSUME NEW p \in P PROVE trades'[in(p)] = row(p)
    OBVIOUS
  <2>1. in(p) \in TradeIds /\ in(p) # n
    BY <1>2, <1>4 DEF TradeIds
  <2>2. (CHOOSE q \in P : in(q) = in(p)) = p
    BY <1>5
  <2> QED
    BY <1>1, <2>1, <2>2
<1>7. \A p \in P : trades[in(p)] = None /\ in(p) # n
  BY <1>2, <1>4 DEF TradeIds
<1>8. \A i \in TradeIds : trades[i] # None => trades'[i] = trades[i] /\ i # n
  <2> SUFFICES ASSUME NEW i \in TradeIds, trades[i] # None
               PROVE  trades'[i] = trades[i] /\ i # n
    OBVIOUS
  <2> QED
    BY <1>1, <1>2, <1>7
<1>9. \A i \in TradeIds : i = n \/ (\E p \in P : i = in(p)) \/ trades'[i] = trades[i]
  BY <1>1
<1>10. trades'[n] = ClosingSell(a)
  BY <1>1, <1>2
<1> HIDE DEF P, al
<1>11. /\ \A p \in P : in(p) \in TradeIds \ {n} /\ trades[in(p)] = None /\ trades'[in(p)] = row(p)
       /\ \A p, q \in P : in(p) = in(q) => p = q
  BY <1>4, <1>5, <1>6, <1>7
<1> QED
  BY <1>2, <1>8, <1>9, <1>10, <1>11 DEF in, row, P, al, ExchangeWrote

\* What a demerger writes: as an exchange, but two parcels for each open one.
DemergeWrote(a, n) ==
  LET P == OpenParcels(Terms[a].listing)
      al == ClosingLines(Terms[a].listing)
      head(p) == n + 2 * Place(P, p) - 1
  IN
  /\ n \in TradeIds /\ trades[n] = None
  /\ \A i \in TradeIds : trades[i] # None => trades'[i] = trades[i] /\ i # n
  /\ trades'[n] = ClosingSell(a)
  /\ \A p \in P :
       /\ head(p) \in TradeIds \ {n} /\ head(p) + 1 \in TradeIds \ {n}
       /\ trades[head(p)] = None /\ trades[head(p) + 1] = None
       /\ trades'[head(p)] = BuyRow(Terms[a].listing, trades[p].account, Terms[a].date, al[p], a)
       /\ trades'[head(p) + 1] = BuyRow(Terms[a].dest, trades[p].account, Terms[a].date,
                                       al[p] * Terms[a].ratio, a)
  /\ \A p, q \in P : {head(p), head(p) + 1} \cap {head(q), head(q) + 1} # {} => p = q
  /\ \A i \in TradeIds :
       i = n \/ (\E p \in P : i \in {head(p), head(p) + 1}) \/ trades'[i] = trades[i]

\* The rows a demerger writes.
LEMMA DemergeRows ==
  ASSUME IInv, NEW a \in Actions, NEW n \in NextIds, Demerge(a, n)
  PROVE  DemergeWrote(a, n)
<1> DEFINE P == OpenParcels(Terms[a].listing)
           al == ClosingLines(Terms[a].listing)
           head(p) == n + 2 * Place(P, p) - 1
           headRow(p) == BuyRow(Terms[a].listing, trades[p].account, Terms[a].date, al[p], a)
           destRow(p) == BuyRow(Terms[a].dest, trades[p].account, Terms[a].date,
                                al[p] * Terms[a].ratio, a)
           of(i) == CHOOSE p \in P : i \in {head(p), head(p) + 1}
<1>1. /\ n + 2 * Cardinality(P) \in TradeIds
      /\ trades' = [i \in TradeIds |->
           IF i = n THEN ClosingSell(a)
           ELSE IF \E p \in P : i \in {head(p), head(p) + 1}
                THEN IF i = head(of(i)) THEN headRow(of(i)) ELSE destRow(of(i))
                ELSE trades[i]]
  BY DEF Demerge
<1>2. /\ n \in TradeIds
      /\ trades[n] = None
      /\ \A i \in TradeIds : trades[i] # None => i < n
  BY NextIdFresh DEF IInv
<1>3. /\ Cardinality(P) \in Nat
      /\ \A p \in P : Place(P, p) \in 1..Cardinality(P)
      /\ \A p, q \in P : Place(P, p) = Place(P, q) => p = q
  <2>1. P \in SUBSET Buys
    BY DEF OpenParcels
  <2> QED
    BY <2>1, PlaceFacts
<1>4. ASSUME NEW p \in P
      PROVE  /\ head(p) \in TradeIds /\ head(p) + 1 \in TradeIds /\ head(p) > n
             /\ head(p) # head(p) + 1 /\ head(p) # n /\ head(p) + 1 # n
             /\ head(p) + 1 > n
  <2> DEFINE k == Place(P, p)
             m == Cardinality(P)
  <2>1. k \in 1..m /\ m \in Nat /\ n \in 1..MaxTrades /\ n + 2 * m \in 1..MaxTrades
    BY <1>1, <1>2, <1>3 DEF TradeIds
  <2>2. head(p) = n + 2 * k - 1
    OBVIOUS
  <2> HIDE DEF k, m, head
  <2> QED
    BY <2>1, <2>2, BoundsAssumption DEF TradeIds
<1>5. ASSUME NEW p \in P, NEW q \in P, NEW i, i \in {head(p), head(p) + 1},
             i \in {head(q), head(q) + 1}
      PROVE  p = q
  <2> DEFINE k == Place(P, p)
             m == Place(P, q)
  <2>1. k \in Int /\ m \in Int /\ n \in Int
    BY <1>2, <1>3 DEF TradeIds
  <2>2. i \in {n + 2 * k - 1, n + 2 * k - 1 + 1} /\ i \in {n + 2 * m - 1, n + 2 * m - 1 + 1}
    BY <1>5
  <2>3. k = m => p = q
    BY <1>3
  <2> HIDE DEF k, m
  <2>4. k = m
    BY <2>1, <2>2
  <2> QED
    BY <2>3, <2>4
<1> HIDE DEF head, headRow, destRow
<1>6. ASSUME NEW p \in P
      PROVE  trades'[head(p)] = headRow(p) /\ trades'[head(p) + 1] = destRow(p)
  <2>1. of(head(p)) = p /\ of(head(p) + 1) = p
    BY <1>5
  <2> HIDE DEF of
  <2> QED
    BY <1>1, <1>4, <2>1
<1>7. \A p \in P : trades[head(p)] = None /\ trades[head(p) + 1] = None
  BY <1>2, <1>4 DEF TradeIds
<1>8. \A i \in TradeIds : trades[i] # None => trades'[i] = trades[i] /\ i # n
  <2> SUFFICES ASSUME NEW i \in TradeIds, trades[i] # None
               PROVE  trades'[i] = trades[i] /\ i # n
    OBVIOUS
  <2> HIDE DEF of
  <2> QED
    BY <1>1, <1>2, <1>7
<1>9. \A i \in TradeIds :
        i = n \/ (\E p \in P : i \in {head(p), head(p) + 1}) \/ trades'[i] = trades[i]
  BY <1>1
<1>10. trades'[n] = ClosingSell(a)
  BY <1>1, <1>2
<1> HIDE DEF P, al
<1>11. /\ \A p \in P :
            /\ head(p) \in TradeIds \ {n} /\ head(p) + 1 \in TradeIds \ {n}
            /\ trades[head(p)] = None /\ trades[head(p) + 1] = None
            /\ trades'[head(p)] = headRow(p) /\ trades'[head(p) + 1] = destRow(p)
       /\ \A p, q \in P : {head(p), head(p) + 1} \cap {head(q), head(q) + 1} # {} => p = q
  BY <1>4, <1>5, <1>6, <1>7
<1> QED
  BY <1>2, <1>8, <1>9, <1>10, <1>11 DEF head, headRow, destRow, P, al, DemergeWrote

\* The id of a transfer's fee sale: behind the parcels that arrive.
FeeId(n, al, feeAl) ==
  IF Lines(feeAl) = {} THEN None ELSE n + Cardinality(Lines(al)) + 1

\* What a transfer writes: the closing Sell, a parcel for each line of it, and
\* behind those the fee sale, if units are burnt on the way.
TransferWrote(t, n, l, d, from, to, al, feeAl) ==
  LET P == Lines(al)
      fee == FeeId(n, al, feeAl)
      in(p) == n + Place(P, p)
  IN
  /\ n \in TradeIds /\ trades[n] = None
  /\ MayDraw(l, from, d, t, al)
  /\ \A i \in TradeIds : trades[i] # None => trades'[i] = trades[i] /\ i # n /\ i # fee
  /\ trades'[n] = SellRow(l, from, d, Total(al), t)
  /\ fee # None =>
       /\ fee \in TradeIds \ {n}
       /\ MayDraw(l, from, d, None, feeAl)
       /\ trades'[fee] = SellRow(l, from, d, Total(feeAl), None)
  /\ \A p \in P :
       /\ in(p) \in TradeIds \ {n, fee}
       /\ trades[in(p)] = None
       /\ trades'[in(p)] = BuyRow(l, to, d, al[p], t)
  /\ \A p, q \in P : in(p) = in(q) => p = q
  /\ \A i \in TradeIds :
       i = n \/ i = fee \/ (\E p \in P : i = in(p)) \/ trades'[i] = trades[i]
  /\ allocs' = [s \in TradeIds |-> IF s = n THEN al ELSE IF s = fee THEN feeAl ELSE allocs[s]]

\* The rows a transfer writes.
LEMMA TransferRows ==
  ASSUME IInv, NEW t \in TransferIds, transfers[t] = None, NEW n \in NextIds,
         NEW l \in Listings, NEW d \in Dates, NEW from \in Accounts, NEW to \in Accounts,
         NEW al, NEW feeAl, Transfer(t, n, l, d, from, to, al, feeAl)
  PROVE  TransferWrote(t, n, l, d, from, to, al, feeAl)
<1> DEFINE P == Lines(al)
           fee == FeeId(n, al, feeAl)
           in(p) == n + Place(P, p)
           out == SellRow(l, from, d, Total(al), t)
           feeSale == SellRow(l, from, d, Total(feeAl), None)
           row(p) == BuyRow(l, to, d, al[p], t)
<1>1. /\ n + Cardinality(P) \in TradeIds
      /\ SellAllowed(out, al, SoldByOthers(n))
      /\ fee # None =>
           /\ fee \in TradeIds
           /\ SellAllowed(feeSale, feeAl, [p \in TradeIds |-> Sold(p) + al[p]])
      /\ trades' = [i \in TradeIds |->
           IF i = n THEN out
           ELSE IF i = fee THEN feeSale
           ELSE IF \E p \in P : in(p) = i THEN row(CHOOSE p \in P : in(p) = i)
           ELSE trades[i]]
      /\ allocs' = [s \in TradeIds |->
           IF s = n THEN al ELSE IF s = fee THEN feeAl ELSE allocs[s]]
  BY DEF Transfer, FeeId
<1>2. MayDraw(l, from, d, t, al) /\ (fee # None => MayDraw(l, from, d, None, feeAl))
  BY <1>1, SellAllowedFacts DEF Provenance
<1>3. /\ n \in TradeIds
      /\ trades[n] = None
      /\ \A i \in TradeIds : trades[i] # None => i < n
  BY NextIdFresh DEF IInv
<1>4. /\ Cardinality(P) \in Nat
      /\ \A p \in P : Place(P, p) \in 1..Cardinality(P)
      /\ \A p, q \in P : Place(P, p) = Place(P, q) => p = q
  <2>1. P \in SUBSET Buys
    BY <1>2 DEF MayDraw, Lines, Buys
  <2> QED
    BY <2>1, PlaceFacts
<1>5. None \notin TradeIds
  BY NoneAssumption
<1>6. ASSUME NEW p \in P PROVE in(p) \in TradeIds /\ in(p) > n /\ in(p) # fee
  <2> DEFINE k == Place(P, p)
             m == Cardinality(P)
  <2>1. k \in 1..m /\ m \in Nat /\ n \in 1..MaxTrades /\ n + m \in 1..MaxTrades
    BY <1>1, <1>3, <1>4 DEF TradeIds
  <2>2. fee = None \/ fee = n + m + 1
    BY DEF FeeId
  <2> HIDE DEF k, m
  <2>3. n + k \in 1..MaxTrades /\ n + k > n /\ n + k # n + m + 1
    BY <2>1, BoundsAssumption
  <2> QED
    BY <2>2, <2>3, <1>5 DEF k, TradeIds
<1>7. ASSUME NEW p \in P, NEW q \in P, in(p) = in(q) PROVE p = q
  <2> DEFINE k == Place(P, p)
             m == Place(P, q)
  <2>1. k \in Int /\ m \in Int /\ n \in Int /\ n + k = n + m
    BY <1>3, <1>4, <1>7 DEF TradeIds
  <2>2. k = m => p = q
    BY <1>4
  <2> HIDE DEF k, m
  <2> QED
    BY <2>1, <2>2
<1>8. fee # None => fee > n
  BY <1>3, <1>4 DEF TradeIds, FeeId
<1> HIDE DEF in, row, out, feeSale
<1>9. \A p \in P : trades'[in(p)] = row(p)
  <2> SUFFICES ASSUME NEW p \in P PROVE trades'[in(p)] = row(p)
    OBVIOUS
  <2>1. in(p) \in TradeIds /\ in(p) # n /\ in(p) # fee
    BY <1>3, <1>6 DEF TradeIds
  <2>2. (CHOOSE q \in P : in(q) = in(p)) = p
    BY <1>7
  <2> QED
    BY <1>1, <2>1, <2>2
<1>10. \A p \in P : trades[in(p)] = None /\ in(p) # n
  BY <1>3, <1>6 DEF TradeIds
<1>11. fee # None => fee # n /\ trades[fee] = None
  BY <1>1, <1>3, <1>8 DEF TradeIds
<1>12. \A i \in TradeIds : trades[i] # None => trades'[i] = trades[i] /\ i # n /\ i # fee
  <2> SUFFICES ASSUME NEW i \in TradeIds, trades[i] # None
               PROVE  trades'[i] = trades[i] /\ i # n /\ i # fee
    OBVIOUS
  <2> QED
    BY <1>1, <1>3, <1>5, <1>10, <1>11
<1>13. \A i \in TradeIds :
         i = n \/ i = fee \/ (\E p \in P : i = in(p)) \/ trades'[i] = trades[i]
  BY <1>1
<1>14. trades'[n] = out /\ (fee # None => trades'[fee] = feeSale)
  BY <1>1, <1>3, <1>11
<1> HIDE DEF in, P, fee
<1>15. /\ \A p \in P : in(p) \in TradeIds \ {n, fee} /\ trades[in(p)] = None /\ trades'[in(p)] = row(p)
       /\ \A p, q \in P : in(p) = in(q) => p = q
       /\ fee # None => fee \in TradeIds \ {n} /\ MayDraw(l, from, d, None, feeAl)
  BY <1>1, <1>2, <1>6, <1>7, <1>9, <1>10, <1>11
<1> QED
  BY <1>1, <1>2, <1>3, <1>12, <1>13, <1>14, <1>15
  DEF in, row, out, feeSale, P, fee, TransferWrote

-----------------------------------------------------------------------------
(* The remaining handlers keep each parcel covered.                        *)

\* An id that is no Sell's has no lines.
LEMMA NoLinesElsewhere ==
  ASSUME IInv, NEW s \in TradeIds, ~IsSell(s), NEW p \in TradeIds
  PROVE  allocs[s][p] = 0
<1>1. allocs[s][p] \in Nat /\ ~(allocs[s][p] > 0)
  BY DEF IInv, TypeOK, AllocationsSound, LineSound
<1> QED
  BY <1>1

\* A transfer adds the moved units and the fee to what is sold.
LEMMA SoldAfterTransfer ==
  ASSUME IInv, NEW n \in TradeIds, NEW fee \in TradeIds \ {n}, ~IsSell(n), ~IsSell(fee),
         NEW al \in [TradeIds -> Nat], NEW feeAl \in [TradeIds -> Nat],
         allocs' = [s \in TradeIds |->
           IF s = n THEN al ELSE IF s = fee THEN feeAl ELSE allocs[s]],
         NEW p \in TradeIds
  PROVE  Sold(p)' = (Sold(p) + al[p]) + feeAl[p]
<1> DEFINE f == [s \in TradeIds |-> allocs[s][p]]
           h == [s \in TradeIds |-> IF s = n THEN al[p] ELSE allocs[s][p]]
           g == [s \in TradeIds |-> allocs'[s][p]]
<1>1. allocs[n][p] = 0 /\ allocs[fee][p] = 0
  BY NoLinesElsewhere
<1>2. /\ \A s \in TradeIds : f[s] \in Int /\ g[s] \in Int /\ h[s] \in Int
      /\ \A s \in TradeIds \ {n} : h[s] = f[s]
      /\ \A s \in TradeIds \ {fee} : g[s] = h[s]
      /\ f[n] = 0 /\ h[n] = al[p] /\ h[fee] = 0 /\ g[fee] = feeAl[p]
  BY <1>1 DEF IInv, TypeOK
<1> HIDE DEF f, g, h
<1>3. SumOver(h, TradeIds) = (SumOver(f, TradeIds) - f[n]) + h[n]
  BY <1>2, TradeIdsFinite, SumChange
<1>4. SumOver(g, TradeIds) = (SumOver(h, TradeIds) - h[fee]) + g[fee]
  BY <1>2, TradeIdsFinite, SumChange
<1>5. SumOver(f, TradeIds) \in Int
  BY <1>2, TradeIdsFinite, SumInt
<1>6. SumOver(g, TradeIds) = (SumOver(f, TradeIds) + al[p]) + feeAl[p]
  BY <1>2, <1>3, <1>4, <1>5
<1> QED
  BY <1>6 DEF Sold, f, g

\* The two Sells of a transfer together take what is left of each parcel at most.
LEMMA TransferCovers ==
  ASSUME Covered, NEW t \in TransferIds, transfers[t] = None, NEW n \in NextIds,
         NEW l \in Listings, NEW d \in Dates, NEW from \in Accounts, NEW to \in Accounts,
         NEW al, NEW feeAl, Transfer(t, n, l, d, from, to, al, feeAl)
  PROVE  NoParcelOversold'
<1> DEFINE P == Lines(al)
           fee == FeeId(n, al, feeAl)
           out == SellRow(l, from, d, Total(al), t)
           feeSale == SellRow(l, from, d, Total(feeAl), None)
<1>1. /\ SellAllowed(out, al, SoldByOthers(n))
      /\ fee # None => SellAllowed(feeSale, feeAl, [p \in TradeIds |-> Sold(p) + al[p]])
      /\ allocs' = [s \in TradeIds |->
           IF s = n THEN al ELSE IF s = fee THEN feeAl ELSE allocs[s]]
  BY DEF Transfer, FeeId
<1>2. IInv /\ IInv'
  BY TransferKeeps DEF Covered
<1>3. /\ n \in TradeIds /\ trades[n] = None
      /\ \A i \in TradeIds : trades[i] # None => trades'[i] = trades[i] /\ i # n /\ i # fee
      /\ fee # None => fee \in TradeIds \ {n}
  <2>1. TransferWrote(t, n, l, d, from, to, al, feeAl)
    BY <1>2, TransferRows
  <2> QED
    BY <2>1 DEF TransferWrote
<1>4. al \in [TradeIds -> Nat] /\ (fee # None => feeAl \in [TradeIds -> Nat])
  BY <1>1 DEF SellAllowed
<1>5. \A p \in TradeIds : al[p] > 0 =>
        IsBuy(p) /\ SoldByOthers(n)[p] + al[p] <= trades[p].qty
  BY <1>1, LinesFit
<1>6. \A p \in TradeIds : fee # None /\ feeAl[p] > 0 =>
        IsBuy(p) /\ (Sold(p) + al[p]) + feeAl[p] <= trades[p].qty
  <2> SUFFICES ASSUME NEW p \in TradeIds, fee # None, feeAl[p] > 0
               PROVE  IsBuy(p) /\ (Sold(p) + al[p]) + feeAl[p] <= trades[p].qty
    OBVIOUS
  <2> DEFINE taken == [q \in TradeIds |-> Sold(q) + al[q]]
  <2>1. taken[p] = Sold(p) + al[p]
    OBVIOUS
  <2> HIDE DEF taken, feeSale, fee
  <2>2. IsBuy(p) /\ taken[p] + feeAl[p] <= trades[p].qty
    BY <1>1, LinesFit DEF taken
  <2> QED
    BY <2>1, <2>2
<1>7. ~IsSell(n) /\ ~IsBuy(n)
  BY <1>3 DEF IsSell, IsBuy
<1>8. \A p \in TradeIds : IsBuy(p)' => trades'[p] = trades[p] \/ ~IsBuy(p)
  BY <1>3 DEF IsBuy
<1> HIDE DEF fee, out, feeSale, P
<1>9. CASE fee = None
  <2>1. allocs' = Allocated(n, al)
    BY <1>1, <1>2, <1>9, NoneAssumption DEF Allocated, IInv, TypeOK
  <2> QED
    BY <2>1, <1>2, <1>3, <1>4, <1>5, <1>7, <1>8, WriteCovers DEF IInv, TypeOK
<1>10. CASE fee # None
  <2> SUFFICES ASSUME NEW p \in TradeIds, IsBuy(p)'
               PROVE  Sold(p)' \in Int /\ trades'[p].qty \in Int /\ Sold(p)' <= trades'[p].qty
    BY CoveredAfter
  <2>1. ~IsSell(fee)
    BY <1>3, <1>10 DEF IsSell
  <2>2. Sold(p)' = (Sold(p) + al[p]) + feeAl[p]
    BY <2>1, <1>1, <1>2, <1>3, <1>4, <1>7, <1>10, SoldAfterTransfer
  <2>3. Sold(p) \in Nat /\ al[p] \in Nat /\ feeAl[p] \in Nat
    BY <1>2, <1>4, <1>10, SoldNat DEF IInv
  <2>4. trades'[p].qty \in Nat
    BY <1>2 DEF IInv, TypeOK, IsBuy, Trade
  <2>5. allocs[n][p] = 0
    BY <1>2, <1>3, <1>7, NoLinesElsewhere
  <2>6. al[p] > 0 => IsBuy(p) /\ Sold(p) + al[p] <= trades[p].qty
    BY <1>5, <2>3, <2>5 DEF SoldByOthers
  <2>7. CASE ~IsBuy(p)
    <3>1. Sold(p) = 0 /\ al[p] = 0 /\ feeAl[p] = 0
      BY <1>2, <1>6, <1>10, <2>3, <2>6, <2>7, Unsold
    <3> QED
      BY <3>1, <2>2, <2>4
  <2>8. CASE IsBuy(p)
    <3>1. Sold(p) <= trades[p].qty /\ trades'[p] = trades[p]
      BY <2>8, <1>8, CoveredFacts
    <3>2. feeAl[p] > 0 => (Sold(p) + al[p]) + feeAl[p] <= trades[p].qty
      BY <1>6, <1>10
    <3> QED
      BY <3>1, <3>2, <2>2, <2>3, <2>4, <2>6
  <2> QED
    BY <2>7, <2>8
<1> QED
  BY <1>9, <1>10

\* An operation whose closing Sell is allowed oversells nothing.
LEMMA ActionCovers ==
  ASSUME Covered, IInv', NEW n \in TradeIds, trades[n] = None,
         NEW r, NEW STATE al, SellAllowed(r, al, SoldByOthers(n)),
         allocs' = Allocated(n, al),
         \A i \in TradeIds : trades[i] # None => trades'[i] = trades[i]
  PROVE  NoParcelOversold'
<1>1. al \in [TradeIds -> Nat] /\ trades' \in [TradeIds -> Trade \cup {None}]
  BY DEF IInv, TypeOK, SellAllowed
<1>2. \A p \in TradeIds : al[p] > 0 =>
        IsBuy(p) /\ SoldByOthers(n)[p] + al[p] <= trades[p].qty
  BY LinesFit
<1>3. ~IsBuy(n) /\ \A p \in TradeIds : IsBuy(p)' => trades'[p] = trades[p] \/ ~IsBuy(p)
  BY DEF IsBuy
<1> QED
  BY <1>1, <1>2, <1>3, WriteCovers

\* No operation over a whole holding oversells a parcel.
LEMMA OperationCovers ==
  ASSUME Covered, NEW a \in Actions, NEW n \in NextIds,
         Exchange(a, n) \/ Demerge(a, n) \/ Recognise(a, n)
  PROVE  NoParcelOversold'
<1> DEFINE al == ClosingLines(Terms[a].listing)
<1>1. SellAllowed(ClosingSell(a), al, SoldByOthers(n)) /\ allocs' = Allocated(n, al)
  BY DEF Exchange, Demerge, Recognise
<1>2. IInv /\ IInv'
  BY ExchangeKeeps, DemergeKeeps, RecogniseKeeps DEF Covered
<1>3. /\ n \in TradeIds /\ trades[n] = None
      /\ \A i \in TradeIds : trades[i] # None => trades'[i] = trades[i]
  <2>1. CASE Exchange(a, n)
    BY <2>1, <1>2, ExchangeRows DEF ExchangeWrote
  <2>2. CASE Demerge(a, n)
    BY <2>2, <1>2, DemergeRows DEF DemergeWrote
  <2>3. CASE Recognise(a, n)
    BY <2>3, <1>2, NextIdFresh DEF Recognise, IInv
  <2> QED
    BY <2>1, <2>2, <2>3
<1> HIDE DEF al
<1> QED
  BY <1>1, <1>2, <1>3, ActionCovers

\* Taking part in a buy-back oversells no parcel.
LEMMA ParticipateCovers ==
  ASSUME Covered, NEW a \in Actions, NEW n \in NextIds, NEW ac \in Accounts,
         NEW d \in Dates, NEW al, Participate(a, n, ac, d, al)
  PROVE  NoParcelOversold'
<1> DEFINE r == SellRow(Terms[a].listing, ac, d, Total(al), a)
<1>1. /\ SellAllowed(r, al, SoldByOthers(n))
      /\ trades' = [trades EXCEPT ![n] = r]
      /\ allocs' = Allocated(n, al)
  BY DEF Participate
<1>2. IInv /\ IInv'
  BY ParticipateKeeps DEF Covered
<1>3. n \in TradeIds /\ trades[n] = None
  BY <1>2, NextIdFresh DEF IInv
<1>4. \A i \in TradeIds : trades[i] # None => trades'[i] = trades[i]
  BY <1>1, <1>3
<1> HIDE DEF r
<1> QED
  BY <1>1, <1>2, <1>3, <1>4, ActionCovers

\* Every operation keeps every parcel covered.
LEMMA NextCovered == Covered /\ [Next]_vars => Covered'
<1> SUFFICES ASSUME Covered, [Next]_vars PROVE Covered'
  OBVIOUS
<1>1. IInv'
  BY NextIInv DEF Covered
<1> SUFFICES NoParcelOversold'
  BY <1>1 DEF Covered
<1>2. CASE TradeStep
  BY <1>2, CreateBuyCovers, EditBuyCovers, DeleteTradeCovers DEF TradeStep
<1>3. CASE SellStep
  <2>1. ASSUME NEW id \in TradeIds, DeleteSell(id) PROVE NoParcelOversold'
    <3>1. trades' = Without(ReplacementsOf(id) \cup {id}) /\ allocs' = Released({id})
      BY <2>1 DEF DeleteSell
    <3> QED
      BY <3>1, DeletionCovers
  <2> QED
    BY <1>3, <2>1, CreateSellCovers, EditSellCovers DEF SellStep
<1>4. CASE TransferStep
  <2>1. ASSUME NEW t \in TransferIds, DeleteTransfer(t) PROVE NoParcelOversold'
    <3> DEFINE gone == Group(t) \cup ({transfers[t].fee} \ {None})
    <3>1. trades' = Without(gone) /\ allocs' = Released(gone)
      BY <2>1 DEF DeleteTransfer
    <3> QED
      BY <3>1, DeletionCovers
  <2> QED
    BY <1>4, <2>1, TransferCovers DEF TransferStep
<1>5. CASE ActionStep
  BY <1>5, OperationCovers, ParticipateCovers DEF ActionStep
<1>6. CASE UNCHANGED vars
  BY <1>6 DEF vars, Covered, NoParcelOversold, Buys, IsBuy, Remaining, Sold
<1> QED
  BY <1>1, <1>2, <1>3, <1>4, <1>5, <1>6 DEF Next

\* An empty ledger is covered.
LEMMA InitCovered == Init => Covered
<1>1. ASSUME Init PROVE NoParcelOversold
  BY <1>1 DEF Init, NoParcelOversold, Buys, IsBuy
<1> QED
  BY <1>1, InitIInv DEF Covered

\* In every behaviour of the ledger no parcel is sold beyond its quantity: the
\* check of each new or edited disposal against what the others drew
\* (sell::db_upsert), of a parcel's edit against its sum (trade::db_upsert) and
\* of a transfer's fee after its closing Sell hold it whatever the order of
\* entries, and no deletion or operation undoes it.
THEOREM NeverOversold == Spec => []NoParcelOversold
<1>1. Covered => NoParcelOversold
  BY DEF Covered
<1> QED
  BY InitCovered, NextCovered, <1>1, PTL DEF Spec

-----------------------------------------------------------------------------
(* A Sell's quantity is what its lines draw.                               *)

Drawn == IInv /\ SaleFullyAllocated

\* A Sell is either as it was or was written with its lines.
LEMMA DrawnAfter ==
  ASSUME Drawn,
         \A s \in TradeIds : IsSell(s)' =>
           \/ IsSell(s) /\ trades'[s] = trades[s] /\ allocs'[s] = allocs[s]
           \/ trades'[s].qty = Total(allocs'[s])
  PROVE  SaleFullyAllocated'
<1> SUFFICES ASSUME NEW s \in TradeIds, IsSell(s)'
             PROVE  trades'[s].qty = Total(allocs'[s])
  BY DEF SaleFullyAllocated, Sells, Total
<1>1. IsSell(s) => trades[s].qty = Total(allocs[s])
  BY DEF Drawn, SaleFullyAllocated, Sells
<1> QED
  BY <1>1

\* Deletions: a Sell that stays keeps its lines.
LEMMA DeletionDrawn ==
  ASSUME Drawn, NEW S, NEW gone, S \subseteq gone,
         allocs' = Released(S), trades' = Without(gone)
  PROVE  SaleFullyAllocated'
<1>1. ASSUME NEW s \in TradeIds, IsSell(s)'
      PROVE  IsSell(s) /\ trades'[s] = trades[s] /\ allocs'[s] = allocs[s]
  BY <1>1 DEF IsSell, Without, Released
<1> QED
  BY <1>1, DrawnAfter

\* One Sell is written with its lines, and every other stays as it was.
LEMMA WriteDrawn ==
  ASSUME Drawn, NEW n \in TradeIds, NEW STATE al, allocs' = Allocated(n, al),
         trades'[n].qty = Total(al),
         \A i \in TradeIds \ {n} : IsSell(i)' => trades'[i] = trades[i]
  PROVE  SaleFullyAllocated'
<1>1. allocs'[n] = al /\ \A s \in TradeIds \ {n} : allocs'[s] = allocs[s]
  BY DEF Allocated, Drawn, IInv, TypeOK
<1>2. ASSUME NEW s \in TradeIds, IsSell(s)'
      PROVE  \/ IsSell(s) /\ trades'[s] = trades[s] /\ allocs'[s] = allocs[s]
             \/ trades'[s].qty = Total(allocs'[s])
  BY <1>1, <1>2 DEF IsSell
<1> QED
  BY <1>2, DrawnAfter

\* Buys and deletions leave every Sell fully allocated.
LEMMA TradeStepDrawn ==
  ASSUME Drawn, TradeStep
  PROVE  SaleFullyAllocated'
<1>1. ASSUME NEW id \in TradeIds, NEW l \in Listings, NEW ac \in Accounts,
             NEW d \in Dates, NEW q \in Quantities,
             CreateBuy(id, l, ac, d, q) \/ EditBuy(id, l, ac, d, q)
      PROVE  SaleFullyAllocated'
  <2>1. trades' = [trades EXCEPT ![id] = BuyRow(l, ac, d, q, None)] /\ allocs' = allocs
    BY <1>1 DEF CreateBuy, EditBuy
  <2>2. ASSUME NEW s \in TradeIds, IsSell(s)'
        PROVE  IsSell(s) /\ trades'[s] = trades[s] /\ allocs'[s] = allocs[s]
    BY <2>1, <2>2 DEF IsSell, BuyRow, Drawn, IInv, TypeOK
  <2> QED
    BY <2>2, DrawnAfter
<1>2. ASSUME NEW id \in TradeIds, DeleteTrade(id) PROVE SaleFullyAllocated'
  <2>1. trades' = Without({id}) /\ allocs' = allocs
    BY <1>2 DEF DeleteTrade
  <2>2. allocs' = Released({})
    BY <2>1 DEF Released, Drawn, IInv, TypeOK
  <2> QED
    BY <2>1, <2>2, DeletionDrawn
<1> QED
  BY <1>1, <1>2 DEF TradeStep

\* A new or edited Sell is fully allocated, and no other Sell changes.
LEMMA SellStepDrawn ==
  ASSUME Drawn, SellStep
  PROVE  SaleFullyAllocated'
<1>1. ASSUME NEW id \in TradeIds, NEW l \in Listings, NEW ac \in Accounts,
             NEW d \in Dates, NEW al,
             CreateSell(id, l, ac, d, al) \/ EditSell(id, l, ac, d, al)
      PROVE  SaleFullyAllocated'
  <2> DEFINE r == SellRow(l, ac, d, Total(al), None)
  <2>1. trades' = [trades EXCEPT ![id] = r] /\ allocs' = Allocated(id, al)
    BY <1>1 DEF CreateSell, EditSell
  <2>2. r.qty = Total(al)
    BY DEF SellRow
  <2> HIDE DEF r
  <2>3. trades'[id].qty = Total(al) /\ \A i \in TradeIds \ {id} : trades'[i] = trades[i]
    BY <2>1, <2>2 DEF Drawn, IInv, TypeOK
  <2> QED
    BY <2>1, <2>3, WriteDrawn
<1>2. ASSUME NEW id \in TradeIds, DeleteSell(id) PROVE SaleFullyAllocated'
  <2>1. trades' = Without(ReplacementsOf(id) \cup {id}) /\ allocs' = Released({id})
    BY <1>2 DEF DeleteSell
  <2> QED
    BY <2>1, DeletionDrawn
<1> QED
  BY <1>1, <1>2 DEF SellStep

\* Recording or undoing a transfer leaves every Sell fully allocated.
LEMMA TransferStepDrawn ==
  ASSUME Drawn, TransferStep
  PROVE  SaleFullyAllocated'
<1>1. ASSUME NEW t \in TransferIds, transfers[t] = None, NEW n \in NextIds,
             NEW l \in Listings, NEW d \in Dates, NEW from \in Accounts, NEW to \in Accounts,
             NEW al, NEW feeAl, Transfer(t, n, l, d, from, to, al, feeAl)
      PROVE  SaleFullyAllocated'
  <2> DEFINE P == Lines(al)
             fee == FeeId(n, al, feeAl)
             in(p) == n + Place(P, p)
  <2>1. TransferWrote(t, n, l, d, from, to, al, feeAl)
    BY <1>1, TransferRows DEF Drawn
  <2>2. /\ n \in TradeIds
        /\ trades'[n] = SellRow(l, from, d, Total(al), t)
        /\ fee # None => fee # n /\ trades'[fee] = SellRow(l, from, d, Total(feeAl), None)
        /\ \A p \in P : trades'[in(p)] = BuyRow(l, to, d, al[p], t)
        /\ \A i \in TradeIds :
             i = n \/ i = fee \/ (\E p \in P : i = in(p)) \/ trades'[i] = trades[i]
        /\ allocs' = [s \in TradeIds |-> IF s = n THEN al ELSE IF s = fee THEN feeAl ELSE allocs[s]]
    BY <2>1 DEF TransferWrote
  <2> HIDE DEF P, fee, in
  <2>3. ASSUME NEW s \in TradeIds, IsSell(s)'
        PROVE  \/ IsSell(s) /\ trades'[s] = trades[s] /\ allocs'[s] = allocs[s]
               \/ trades'[s].qty = Total(allocs'[s])
    <3>1. CASE s = n
      BY <3>1, <2>2 DEF SellRow
    <3>2. CASE s # n /\ s = fee
      BY <3>2, <2>2, NoneAssumption DEF SellRow
    <3>3. CASE \E p \in P : s = in(p)
      <4>1. PICK p \in P : s = in(p)
        BY <3>3
      <4>2. trades'[s] = BuyRow(l, to, d, al[p], t)
        BY <2>2, <4>1
      <4> QED
        BY <2>3, <4>2 DEF BuyRow, IsSell
    <3>4. CASE s # n /\ s # fee /\ trades'[s] = trades[s]
      BY <3>4, <2>2, <2>3 DEF IsSell
    <3> QED
      BY <2>2, <3>1, <3>2, <3>3, <3>4
  <2> QED
    BY <2>3, DrawnAfter
<1>2. ASSUME NEW t \in TransferIds, DeleteTransfer(t) PROVE SaleFullyAllocated'
  <2> DEFINE gone == Group(t) \cup ({transfers[t].fee} \ {None})
  <2>1. trades' = Without(gone) /\ allocs' = Released(gone)
    BY <1>2 DEF DeleteTransfer
  <2> QED
    BY <2>1, DeletionDrawn
<1> QED
  BY <1>1, <1>2 DEF TransferStep

\* Executing an operation, or taking part in one, leaves every Sell fully allocated.
LEMMA ActionStepDrawn ==
  ASSUME Drawn, ActionStep
  PROVE  SaleFullyAllocated'
<1>1. ASSUME NEW a \in Actions, NEW n \in NextIds,
             Exchange(a, n) \/ Demerge(a, n) \/ Recognise(a, n)
      PROVE  SaleFullyAllocated'
  <2> DEFINE al == ClosingLines(Terms[a].listing)
             P == OpenParcels(Terms[a].listing)
  <2>1. allocs' = Allocated(n, al)
    BY <1>1 DEF Exchange, Demerge, Recognise
  <2>2. /\ n \in TradeIds
        /\ trades'[n] = ClosingSell(a)
        /\ \A i \in TradeIds \ {n} : IsSell(i)' => trades'[i] = trades[i]
    <3>1. CASE Exchange(a, n)
      <4> DEFINE in(p) == n + Place(P, p)
      <4>1. ExchangeWrote(a, n)
        BY <3>1, ExchangeRows DEF Drawn
      <4>2. /\ n \in TradeIds /\ trades'[n] = ClosingSell(a)
            /\ \A p \in P : trades'[in(p)].type = "Buy"
            /\ \A i \in TradeIds : i = n \/ (\E p \in P : i = in(p)) \/ trades'[i] = trades[i]
        BY <4>1, RowFields DEF ExchangeWrote
      <4> HIDE DEF P, in
      <4> QED
        BY <4>2 DEF IsSell
    <3>2. CASE Demerge(a, n)
      <4> DEFINE head(p) == n + 2 * Place(P, p) - 1
      <4>1. DemergeWrote(a, n)
        BY <3>2, DemergeRows DEF Drawn
      <4>2. /\ n \in TradeIds /\ trades'[n] = ClosingSell(a)
            /\ \A p \in P : trades'[head(p)].type = "Buy" /\ trades'[head(p) + 1].type = "Buy"
            /\ \A i \in TradeIds :
                 i = n \/ (\E p \in P : i \in {head(p), head(p) + 1}) \/ trades'[i] = trades[i]
        BY <4>1, RowFields DEF DemergeWrote
      <4> HIDE DEF P, head
      <4> QED
        BY <4>2 DEF IsSell
    <3>3. CASE Recognise(a, n)
      BY <3>3, NextIdFresh DEF Recognise, Drawn, IInv, TypeOK
    <3> QED
      BY <1>1, <3>1, <3>2, <3>3
  <2>3. trades'[n].qty = Total(al)
    BY <2>2 DEF ClosingSell, SellRow
  <2> HIDE DEF al
  <2> QED
    BY <2>1, <2>2, <2>3, WriteDrawn
<1>2. ASSUME NEW a \in Actions, NEW n \in NextIds, NEW ac \in Accounts,
             NEW d \in Dates, NEW al, Participate(a, n, ac, d, al)
      PROVE  SaleFullyAllocated'
  <2> DEFINE r == SellRow(Terms[a].listing, ac, d, Total(al), a)
  <2>1. trades' = [trades EXCEPT ![n] = r] /\ allocs' = Allocated(n, al) /\ n \in TradeIds
    BY <1>2 DEF Participate, NextIds
  <2>2. r.qty = Total(al)
    BY DEF SellRow
  <2> HIDE DEF r
  <2>3. trades'[n].qty = Total(al) /\ \A i \in TradeIds \ {n} : trades'[i] = trades[i]
    BY <2>1, <2>2 DEF Drawn, IInv, TypeOK
  <2> QED
    BY <2>1, <2>3, WriteDrawn
<1> QED
  BY <1>1, <1>2 DEF ActionStep

\* In every behaviour of the ledger each Sell's quantity is the sum of its
\* lines, through every edit and every deletion around it (sell::db_upsert
\* checks it once; nothing else may touch one side without the other).
THEOREM AlwaysFullyAllocated == Spec => []SaleFullyAllocated
<1>1. Init => Drawn
  BY InitIInv DEF Init, Drawn, SaleFullyAllocated, Sells, IsSell
<1>2. Drawn /\ [Next]_vars => Drawn'
  <2> SUFFICES ASSUME Drawn, [Next]_vars PROVE SaleFullyAllocated'
    BY NextIInv DEF Drawn
  <2>1. CASE UNCHANGED vars
    BY <2>1, DrawnAfter DEF vars, IsSell
  <2> QED
    BY <2>1, TradeStepDrawn, SellStepDrawn, TransferStepDrawn, ActionStepDrawn DEF Next
<1>3. Drawn => SaleFullyAllocated
  BY DEF Drawn
<1> QED
  BY <1>1, <1>2, <1>3, PTL DEF Spec

-----------------------------------------------------------------------------
(* No write strands units behind an executed whole-holding operation.      *)

StrandsNothing ==
  \A p \in TradeIds : Stranded(p)' => IsBuy(p) /\ Behind(p) # {}

\* What puts a parcel behind an operation.
LEMMA BehindFacts ==
  ASSUME NEW p \in TradeIds, NEW s, s \in Behind(p)'
  PROVE  /\ s \in TradeIds /\ IsSell(s)'
         /\ trades'[s].listing = trades'[p].listing
         /\ trades'[s].date >= trades'[p].date
         /\ ClosesWholeHolding(trades'[s].by)
         /\ trades'[s].by # trades'[p].by
BY DEF Behind, ExecutedFrom, Sells, ClosesWholeHolding

\* An unchanged parcel is behind an unchanged closing Sell only if it was.
LEMMA BehindBefore ==
  ASSUME NEW p \in TradeIds, trades'[p] = trades[p],
         NEW s, s \in Behind(p)', trades'[s] = trades[s]
  PROVE  s \in Behind(p)
BY DEF Behind, ExecutedFrom, Sells, IsSell, ClosesWholeHolding

\* A parcel written at a place no operation ran after is behind none, as long
\* as only its own operation's closing Sell is new.
LEMMA NotBehindWhereClear ==
  ASSUME NEW p \in TradeIds, ~BackDated(trades'[p].listing, trades'[p].date),
         NEW s, s \in Behind(p)', trades'[s] = trades[s]
  PROVE  FALSE
<1>1. s \in ExecutedFrom(trades'[p].listing, trades'[p].date)
  BY BehindFacts DEF ExecutedFrom, Sells, IsSell
<1> QED
  BY <1>1 DEF BackDated

\* A write that changes no closing Sell strands nothing if each new or moved
\* parcel lies clear of the operations on record.
LEMMA StrandsNothingAfter ==
  ASSUME \A s \in TradeIds :
           IsSell(s)' /\ ClosesWholeHolding(trades'[s].by) => trades'[s] = trades[s],
         \A p \in TradeIds : IsBuy(p)' =>
           \/ trades'[p] = trades[p]
           \/ ~BackDated(trades'[p].listing, trades'[p].date)
  PROVE  StrandsNothing
<1> SUFFICES ASSUME NEW p \in TradeIds, Stranded(p)'
             PROVE  IsBuy(p) /\ Behind(p) # {}
  BY DEF StrandsNothing
<1>1. IsBuy(p)' /\ Behind(p)' # {}
  BY DEF Stranded
<1>2. PICK s : s \in Behind(p)'
  BY <1>1
<1>3. s \in TradeIds /\ trades'[s] = trades[s]
  BY <1>2, BehindFacts
<1>4. trades'[p] = trades[p]
  BY <1>1, <1>2, <1>3, NotBehindWhereClear
<1>5. s \in Behind(p)
  BY <1>2, <1>3, <1>4, BehindBefore
<1> QED
  BY <1>1, <1>4, <1>5 DEF IsBuy

\* An edit may move a parcel behind an operation only if it was behind one.
LEMMA TradeStepStrands ==
  ASSUME Covered, TradeStep
  PROVE  StrandsNothing
<1>1. ASSUME NEW id \in TradeIds, NEW l \in Listings, NEW ac \in Accounts,
             NEW d \in Dates, NEW q \in Quantities, CreateBuy(id, l, ac, d, q)
      PROVE  StrandsNothing
  <2>1. trades' = [trades EXCEPT ![id] = BuyRow(l, ac, d, q, None)] /\ ~BackDated(l, d)
    BY <1>1 DEF CreateBuy
  <2>2. /\ trades'[id] = BuyRow(l, ac, d, q, None)
        /\ \A i \in TradeIds \ {id} : trades'[i] = trades[i]
    BY <2>1 DEF Covered, IInv, TypeOK
  <2>3. /\ trades'[id].listing = l /\ trades'[id].date = d /\ ~IsSell(id)'
    BY <2>2, RowFields DEF IsSell
  <2> QED
    BY <2>1, <2>2, <2>3, StrandsNothingAfter
<1>2. ASSUME NEW id \in TradeIds, NEW l \in Listings, NEW ac \in Accounts,
             NEW d \in Dates, NEW q \in Quantities, EditBuy(id, l, ac, d, q)
      PROVE  StrandsNothing
  <2>1. /\ trades' = [trades EXCEPT ![id] = BuyRow(l, ac, d, q, None)]
        /\ IsBuy(id) /\ trades[id].by = None
        /\ BackDated(l, d) => BackDated(trades[id].listing, trades[id].date)
    BY <1>2 DEF EditBuy
  <2>2. /\ trades'[id] = BuyRow(l, ac, d, q, None)
        /\ \A i \in TradeIds \ {id} : trades'[i] = trades[i]
    BY <2>1 DEF Covered, IInv, TypeOK
  <2>3. trades'[id].listing = l /\ trades'[id].date = d /\ ~IsSell(id)'
    BY <2>2, RowFields DEF IsSell
  <2>4. CASE ~BackDated(l, d)
    BY <2>2, <2>3, <2>4, StrandsNothingAfter
  <2>5. CASE BackDated(l, d)
    <3>1. PICK s : s \in ExecutedFrom(trades[id].listing, trades[id].date)
      BY <2>1, <2>5 DEF BackDated
    <3>2. s \in Behind(id)
      BY <3>1, <2>1, NoneAssumption DEF Behind, ExecutedFrom, ClosesWholeHolding
    <3> SUFFICES ASSUME NEW p \in TradeIds, Stranded(p)'
                 PROVE  IsBuy(p) /\ Behind(p) # {}
      BY DEF StrandsNothing
    <3>3. CASE p = id
      BY <3>2, <3>3, <2>1
    <3>4. CASE p # id
      <4>1. IsBuy(p)' /\ trades'[p] = trades[p]
        BY <3>4, <2>2 DEF Stranded
      <4>2. PICK u : u \in Behind(p)'
        BY DEF Stranded
      <4>3. u \in TradeIds /\ trades'[u] = trades[u]
        BY <4>2, <2>2, <2>3, BehindFacts
      <4> QED
        BY <4>1, <4>2, <4>3, BehindBefore DEF IsBuy
    <3> QED
      BY <3>3, <3>4
  <2> QED
    BY <2>4, <2>5
<1>3. ASSUME NEW id \in TradeIds, DeleteTrade(id) PROVE StrandsNothing
  <2>1. \A i \in TradeIds : trades'[i] # None => trades'[i] = trades[i]
    BY <1>3 DEF DeleteTrade, Without
  <2> QED
    BY <2>1, StrandsNothingAfter DEF IsBuy, IsSell
<1> QED
  BY <1>1, <1>2, <1>3 DEF TradeStep

\* An ordinary Sell closes nothing, and a deletion only takes closing Sells away.
LEMMA SellStepStrands ==
  ASSUME Covered, SellStep
  PROVE  StrandsNothing
<1>1. ASSUME NEW id \in TradeIds, NEW l \in Listings, NEW ac \in Accounts,
             NEW d \in Dates, NEW al,
             CreateSell(id, l, ac, d, al) \/ EditSell(id, l, ac, d, al)
      PROVE  StrandsNothing
  <2>1. trades' = [trades EXCEPT ![id] = SellRow(l, ac, d, Total(al), None)]
    BY <1>1 DEF CreateSell, EditSell
  <2>2. /\ trades'[id] = SellRow(l, ac, d, Total(al), None)
        /\ \A i \in TradeIds \ {id} : trades'[i] = trades[i]
    BY <2>1 DEF Covered, IInv, TypeOK
  <2>3. ~IsBuy(id)' /\ ~ClosesWholeHolding(trades'[id].by)
    BY <2>2, RowFields, NoneAssumption DEF IsBuy, ClosesWholeHolding
  <2> QED
    BY <2>2, <2>3, StrandsNothingAfter
<1>2. ASSUME NEW id \in TradeIds, DeleteSell(id) PROVE StrandsNothing
  <2>1. \A i \in TradeIds : trades'[i] # None => trades'[i] = trades[i]
    BY <1>2 DEF DeleteSell, Without
  <2> QED
    BY <2>1, StrandsNothingAfter DEF IsBuy, IsSell
<1> QED
  BY <1>1, <1>2 DEF SellStep

\* A transfer is refused where an operation already ran after its date.
LEMMA TransferStepStrands ==
  ASSUME Covered, TransferStep
  PROVE  StrandsNothing
<1>1. ASSUME NEW t \in TransferIds, transfers[t] = None, NEW n \in NextIds,
             NEW l \in Listings, NEW d \in Dates, NEW from \in Accounts, NEW to \in Accounts,
             NEW al, NEW feeAl, Transfer(t, n, l, d, from, to, al, feeAl)
      PROVE  StrandsNothing
  <2> DEFINE P == Lines(al)
             fee == FeeId(n, al, feeAl)
             in(p) == n + Place(P, p)
  <2>1. TransferWrote(t, n, l, d, from, to, al, feeAl) /\ ~BackDated(l, d)
    BY <1>1, TransferRows DEF Covered, Transfer
  <2>2. /\ trades'[n] = SellRow(l, from, d, Total(al), t)
        /\ fee # None => trades'[fee] = SellRow(l, from, d, Total(feeAl), None)
        /\ \A p \in P : trades'[in(p)] = BuyRow(l, to, d, al[p], t)
        /\ \A i \in TradeIds :
             i = n \/ i = fee \/ (\E p \in P : i = in(p)) \/ trades'[i] = trades[i]
    BY <2>1 DEF TransferWrote
  <2> HIDE DEF P, fee, in
  <2>3. /\ trades'[n].type = "Sell" /\ trades'[n].by = t
        /\ fee # None => trades'[fee].type = "Sell" /\ trades'[fee].by = None
        /\ \A p \in P : /\ trades'[in(p)].type = "Buy"
                        /\ trades'[in(p)].listing = l /\ trades'[in(p)].date = d
    BY <2>2, RowFields
  <2>4. None \notin TradeIds /\ ~ClosesWholeHolding(t) /\ ~ClosesWholeHolding(None)
    BY <1>1, NoneAssumption DEF ClosesWholeHolding
  <2>5. ASSUME NEW s \in TradeIds, IsSell(s)', ClosesWholeHolding(trades'[s].by)
        PROVE  trades'[s] = trades[s]
    BY <2>2, <2>3, <2>4, <2>5 DEF IsSell
  <2>6. ASSUME NEW p \in TradeIds, IsBuy(p)'
        PROVE  trades'[p] = trades[p] \/ ~BackDated(trades'[p].listing, trades'[p].date)
    BY <2>1, <2>2, <2>3, <2>4, <2>6 DEF IsBuy
  <2> QED
    BY <2>5, <2>6, StrandsNothingAfter
<1>2. ASSUME NEW t \in TransferIds, DeleteTransfer(t) PROVE StrandsNothing
  <2>1. \A i \in TradeIds : trades'[i] # None => trades'[i] = trades[i]
    BY <1>2 DEF DeleteTransfer, Without
  <2> QED
    BY <2>1, StrandsNothingAfter DEF IsBuy, IsSell
<1> QED
  BY <1>1, <1>2 DEF TransferStep

\* A closing Sell leaves nothing of any parcel of its listing.
LEMMA ClosedOut ==
  ASSUME Covered, NEW l, NEW n \in TradeIds, ~IsSell(n),
         ClosingLines(l) \in [TradeIds -> Nat], allocs' = Allocated(n, ClosingLines(l)),
         NEW p \in TradeIds, IsBuy(p), trades'[p] = trades[p], trades[p].listing = l
  PROVE  ~(Remaining(p)' > 0)
<1> DEFINE al == ClosingLines(l)
<1>1. Sold(p)' = (Sold(p) - allocs[n][p]) + al[p]
  <2> HIDE DEF al
  <2> QED
    BY SoldAfterWrite DEF Covered, IInv, al
<1>2. allocs[n][p] = 0
  BY NoLinesElsewhere DEF Covered
<1>3. Sold(p) \in Nat /\ trades[p].qty \in Nat /\ Sold(p) <= trades[p].qty
  BY CoveredFacts
<1>4. al[p] = IF Remaining(p) > 0 THEN Remaining(p) ELSE 0
  BY DEF ClosingLines, OpenParcels, Buys
<1>5. Remaining(p)' = trades'[p].qty - Sold(p)'
  BY DEF Remaining
<1>6. Remaining(p) = trades[p].qty - Sold(p)
  BY DEF Remaining
<1> HIDE DEF al
<1> QED
  BY <1>1, <1>2, <1>3, <1>4, <1>5, <1>6

\* An operation strands nothing if its closing Sell takes the next id, the
\* parcels on record stay, and what it issues is dated at the operation, in
\* its listing or in one no operation ran in since.
LEMMA OperationStrands ==
  ASSUME Covered, NEW a \in Actions, NEW n \in TradeIds, trades[n] = None,
         Executable(a),
         ClosingLines(Terms[a].listing) \in [TradeIds -> Nat],
         allocs' = Allocated(n, ClosingLines(Terms[a].listing)),
         trades'[n] = ClosingSell(a),
         \A i \in TradeIds : trades[i] # None => trades'[i] = trades[i],
         \A i \in TradeIds \ {n} :
           \/ trades'[i] = trades[i]
           \/ /\ ~IsSell(i)' /\ trades'[i].by = a /\ trades'[i].date = Terms[a].date
              /\ \/ trades'[i].listing = Terms[a].listing
                 \/ ~BackDated(trades'[i].listing, trades'[i].date)
  PROVE  StrandsNothing
<1> SUFFICES ASSUME NEW p \in TradeIds, Stranded(p)'
             PROVE  IsBuy(p) /\ Behind(p) # {}
  BY DEF StrandsNothing
<1>1. IsBuy(p)' /\ Remaining(p)' > 0
  BY DEF Stranded
<1>2. PICK s : s \in Behind(p)'
  BY DEF Stranded
<1>3. /\ s \in TradeIds /\ IsSell(s)'
      /\ trades'[s].listing = trades'[p].listing
      /\ trades'[s].date >= trades'[p].date
      /\ trades'[s].by # trades'[p].by
  BY <1>2, BehindFacts
<1>4. /\ trades'[n].listing = Terms[a].listing /\ trades'[n].by = a /\ ~IsBuy(n)'
  BY RowFields DEF ClosingSell, IsBuy
<1>5. s = n \/ trades'[s] = trades[s]
  BY <1>3
<1>6. p # n
  BY <1>1, <1>4
<1>7. CASE trades'[p] = trades[p]
  <2>1. IsBuy(p)
    BY <1>1, <1>7 DEF IsBuy
  <2>2. CASE s = n
    <3>1. trades[p].listing = Terms[a].listing /\ ~IsSell(n)
      BY <1>3, <1>4, <1>7, <2>2 DEF IsSell
    <3> QED
      BY <1>1, <1>7, <2>1, <3>1, ClosedOut
  <2>3. CASE s # n
    BY <1>2, <1>5, <1>7, <2>1, <2>3, BehindBefore
  <2> QED
    BY <2>2, <2>3
<1>8. CASE trades'[p] # trades[p]
  <2>1. trades'[p].by = a /\ trades'[p].date = Terms[a].date
    BY <1>6, <1>8
  <2>2. s # n /\ trades'[s] = trades[s]
    BY <1>3, <1>4, <1>5, <2>1
  <2>3. CASE trades'[p].listing = Terms[a].listing
    BY <1>3, <2>1, <2>2, <2>3 DEF Executable, TradedOnOrAfter, IsSell
  <2>4. CASE ~BackDated(trades'[p].listing, trades'[p].date)
    BY <1>2, <2>2, <2>4, NotBehindWhereClear
  <2> QED
    BY <1>6, <1>8, <2>3, <2>4
<1> QED
  BY <1>7, <1>8

\* An operation strands no units of an earlier one.
LEMMA ActionStepStrands ==
  ASSUME Covered, ActionStep
  PROVE  StrandsNothing
<1>1. ASSUME NEW a \in Actions, NEW n \in NextIds, Exchange(a, n) PROVE StrandsNothing
  <2> DEFINE P == OpenParcels(Terms[a].listing)
             in(p) == n + Place(P, p)
  <2>1. /\ ExchangeWrote(a, n)
        /\ Executable(a) /\ ~BackDated(Terms[a].dest, Terms[a].date)
        /\ allocs' = Allocated(n, ClosingLines(Terms[a].listing))
        /\ ClosingLines(Terms[a].listing) \in [TradeIds -> Nat]
    BY <1>1, ExchangeRows DEF Covered, Exchange, SellAllowed
  <2>2. \A p \in P : /\ trades'[in(p)].type = "Buy" /\ trades'[in(p)].by = a
                     /\ trades'[in(p)].date = Terms[a].date
                     /\ trades'[in(p)].listing = Terms[a].dest
    BY <2>1, RowFields DEF ExchangeWrote
  <2>3. /\ n \in TradeIds /\ trades[n] = None /\ trades'[n] = ClosingSell(a)
        /\ \A i \in TradeIds : trades[i] # None => trades'[i] = trades[i]
        /\ \A i \in TradeIds : i = n \/ (\E p \in P : i = in(p)) \/ trades'[i] = trades[i]
    BY <2>1 DEF ExchangeWrote
  <2> HIDE DEF P, in
  <2>4. \A i \in TradeIds \ {n} :
           \/ trades'[i] = trades[i]
           \/ /\ ~IsSell(i)' /\ trades'[i].by = a /\ trades'[i].date = Terms[a].date
              /\ \/ trades'[i].listing = Terms[a].listing
                 \/ ~BackDated(trades'[i].listing, trades'[i].date)
    BY <2>1, <2>2, <2>3 DEF IsSell
  <2> QED
    BY <2>1, <2>3, <2>4, OperationStrands
<1>2. ASSUME NEW a \in Actions, NEW n \in NextIds, Demerge(a, n) PROVE StrandsNothing
  <2> DEFINE P == OpenParcels(Terms[a].listing)
             head(p) == n + 2 * Place(P, p) - 1
  <2>1. /\ DemergeWrote(a, n)
        /\ Executable(a) /\ ~BackDated(Terms[a].dest, Terms[a].date)
        /\ allocs' = Allocated(n, ClosingLines(Terms[a].listing))
        /\ ClosingLines(Terms[a].listing) \in [TradeIds -> Nat]
    BY <1>2, DemergeRows DEF Covered, Demerge, SellAllowed
  <2>2. \A p \in P : \A i \in {head(p), head(p) + 1} :
          /\ trades'[i].type = "Buy" /\ trades'[i].by = a
          /\ trades'[i].date = Terms[a].date
          /\ trades'[i].listing \in {Terms[a].listing, Terms[a].dest}
    BY <2>1, RowFields DEF DemergeWrote
  <2>3. /\ n \in TradeIds /\ trades[n] = None /\ trades'[n] = ClosingSell(a)
        /\ \A i \in TradeIds : trades[i] # None => trades'[i] = trades[i]
        /\ \A i \in TradeIds :
             i = n \/ (\E p \in P : i \in {head(p), head(p) + 1}) \/ trades'[i] = trades[i]
    BY <2>1 DEF DemergeWrote
  <2> HIDE DEF P, head
  <2>4. \A i \in TradeIds \ {n} :
           \/ trades'[i] = trades[i]
           \/ /\ ~IsSell(i)' /\ trades'[i].by = a /\ trades'[i].date = Terms[a].date
              /\ \/ trades'[i].listing = Terms[a].listing
                 \/ ~BackDated(trades'[i].listing, trades'[i].date)
    BY <2>1, <2>2, <2>3 DEF IsSell
  <2> QED
    BY <2>1, <2>3, <2>4, OperationStrands
<1>3. ASSUME NEW a \in Actions, NEW n \in NextIds, Recognise(a, n) PROVE StrandsNothing
  <2>1. /\ Executable(a)
        /\ trades' = [trades EXCEPT ![n] = ClosingSell(a)]
        /\ allocs' = Allocated(n, ClosingLines(Terms[a].listing))
        /\ ClosingLines(Terms[a].listing) \in [TradeIds -> Nat]
    BY <1>3 DEF Recognise, SellAllowed
  <2>2. n \in TradeIds /\ trades[n] = None
    BY NextIdFresh DEF Covered, IInv
  <2>3. trades'[n] = ClosingSell(a) /\ \A i \in TradeIds \ {n} : trades'[i] = trades[i]
    BY <2>1, <2>2 DEF Covered, IInv, TypeOK
  <2> QED
    BY <2>1, <2>2, <2>3, OperationStrands
<1>4. ASSUME NEW a \in Actions, NEW n \in NextIds, NEW ac \in Accounts,
             NEW d \in Dates, NEW al, Participate(a, n, ac, d, al)
      PROVE  StrandsNothing
  <2> DEFINE r == SellRow(Terms[a].listing, ac, d, Total(al), a)
  <2>1. trades' = [trades EXCEPT ![n] = r] /\ n \in TradeIds /\ Terms[a].kind = "buyback"
    BY <1>4 DEF Participate, NextIds
  <2>2. trades'[n] = r /\ \A i \in TradeIds \ {n} : trades'[i] = trades[i]
    BY <2>1 DEF Covered, IInv, TypeOK
  <2>3. ~IsBuy(n)' /\ ~ClosesWholeHolding(trades'[n].by)
    BY <2>1, <2>2, RowFields DEF IsBuy, ClosesWholeHolding, WholeHoldingKinds
  <2> QED
    BY <2>2, <2>3, StrandsNothingAfter
<1> QED
  BY <1>1, <1>2, <1>3, <1>4 DEF ActionStep

\* In no step of any behaviour of the ledger does a handler leave units behind
\* an executed whole-holding operation on a parcel that was clear of them all:
\* trade::db_back_dated_parcel's question, asked by each handler that dates a
\* parcel, is enough for every order of entries, operations and deletions.
THEOREM NeverNewlyStranded == Spec => NothingNewlyStranded
<1>1. Covered /\ [Next]_vars => [StrandsNothing]_vars
  BY TradeStepStrands, SellStepStrands, TransferStepStrands, ActionStepStrands DEF Next
<1>2. Spec => [][StrandsNothing]_vars
  BY InitCovered, NextCovered, <1>1, PTL DEF Spec
<1> QED
  BY <1>2 DEF NothingNewlyStranded, StrandsNothing

-----------------------------------------------------------------------------
(* Transfers and operations stay whole: what one wrote stays as it is,     *)
(* whatever is entered, edited or deleted around it, until it is taken     *)
(* back, and then all of it goes.                                          *)

\* Renaming the members of a finite set one to one keeps their number.
LEMMA ImageSize ==
  ASSUME NEW b, NEW S, IsFiniteSet(S), \A x, y \in S : b[x] = b[y] => x = y
  PROVE  /\ IsFiniteSet({b[x] : x \in S})
         /\ Cardinality({b[x] : x \in S}) = Cardinality(S)
<1> DEFINE T == {b[x] : x \in S}
           f == [x \in S |-> b[x]]
<1>1. f \in Bijection(S, T)
  BY DEF Bijection, Injection, Surjection, IsInjective
<1>2. ExistsBijection(S, T)
  BY <1>1 DEF ExistsBijection
<1> HIDE DEF T
<1>3. IsFiniteSet(T) /\ Cardinality(T) = Cardinality(S)
  BY <1>2, FS_Bijection
<1> QED
  BY <1>3 DEF T

\* The lines of a body are all it draws.
LEMMA TotalOfLines ==
  ASSUME NEW al \in [TradeIds -> Nat]
  PROVE  Total(al) = SumOver(al, Lines(al))
<1>1. Lines(al) \in SUBSET TradeIds /\ \A p \in TradeIds \ Lines(al) : al[p] = 0
  BY DEF Lines
<1>2. \A p \in TradeIds : al[p] \in Int
  OBVIOUS
<1>3. SumOver(al, TradeIds) = SumOver(al, Lines(al))
  BY <1>1, <1>2, TradeIdsFinite, SumSupport
<1> QED
  BY <1>3 DEF Total

\* The rows of one provenance are the same if none is written or deleted.
LEMMA GroupKept ==
  ASSUME NEW x,
         \A i \in TradeIds :
           \/ trades'[i] = trades[i]
           \/ /\ trades[i] = None \/ trades[i].by # x
              /\ trades'[i] = None \/ trades'[i].by # x
  PROVE  /\ Group(x)' = Group(x)
         /\ \A i \in Group(x) : trades'[i] = trades[i]
         /\ (Group(x) \cap Buys)' = Group(x) \cap Buys
         /\ (Group(x) \cap Sells)' = Group(x) \cap Sells
BY DEF Group, Buys, Sells, IsBuy, IsSell

\* The units of unchanged rows are the same.
LEMMA UnitsKept ==
  ASSUME NEW S \in SUBSET TradeIds, \A i \in S : trades'[i] = trades[i]
  PROVE  SumOver([i \in S |-> trades'[i].qty], S) = Units(S)
<1> DEFINE f == [i \in S |-> trades[i].qty]
           g == [i \in S |-> trades'[i].qty]
<1>1. \A i \in S : g[i] = f[i]
  OBVIOUS
<1>2. IsFiniteSet(S)
  BY TradeIdsFinite, FS_Subset
<1> HIDE DEF f, g
<1>3. SumOver(g, S) = SumOver(f, S)
  BY <1>1, <1>2, SumCong
<1> QED
  BY <1>3 DEF Units, f, g

-----------------------------------------------------------------------------
(* What a write leaves alone stays whole.                                  *)

Whole == IInv /\ TransfersWhole /\ OperationsWhole

\* Row i is as it was, or is no row of provenance x before or after.
Apart(x, i) ==
  \/ trades'[i] = trades[i]
  \/ /\ trades[i] = None \/ trades[i].by # x
     /\ trades'[i] = None \/ trades'[i].by # x

\* A transfer stays whole when its row, its trades with their lines and its
\* fee sale are left alone.
LEMMA TransferKept ==
  ASSUME Whole, NEW t \in TransferIds, transfers'[t] = transfers[t],
         \A i \in TradeIds : Apart(t, i),
         \A s \in TradeIds : trades[s] # None /\ trades[s].by = t => allocs'[s] = allocs[s],
         transfers[t] # None /\ transfers[t].fee # None =>
           trades'[transfers[t].fee] = trades[transfers[t].fee]
  PROVE  TransferWhole(t)'
<1>1. /\ Group(t)' = Group(t)
      /\ \A i \in Group(t) : trades'[i] = trades[i]
      /\ (Group(t) \cap Buys)' = Group(t) \cap Buys
      /\ (Group(t) \cap Sells)' = Group(t) \cap Sells
  BY GroupKept DEF Apart
<1>2. CASE transfers[t] = None
  BY <1>1, <1>2 DEF Whole, TransfersWhole, TransferWhole
<1>3. CASE transfers[t] # None
  <2>1. PICK out \in Group(t) \cap Sells : MovedWhole(t, out)
    BY <1>3 DEF Whole, TransfersWhole, TransferWhole
  <2>2. trades'[out] = trades[out] /\ allocs'[out] = allocs[out] /\ out \in TradeIds
    BY <2>1, <1>1 DEF Group
  <2>3. Units(Group(t) \cap Buys)' = Units(Group(t) \cap Buys)
    <3> DEFINE B == Group(t) \cap Buys
    <3>1. B \in SUBSET TradeIds /\ \A i \in B : trades'[i] = trades[i]
      BY <1>1 DEF Group
    <3>2. SumOver([i \in B |-> trades'[i].qty], B) = Units(B)
      <4> HIDE DEF B
      <4> QED
        BY <3>1, UnitsKept
    <3>3. Units(Group(t) \cap Buys)' = SumOver([i \in B |-> trades'[i].qty], B)
      BY <1>1 DEF Units
    <3> QED
      BY <3>2, <3>3
  <2>4. /\ (Group(t) \cap Sells)' = {out}
        /\ Units(Group(t) \cap Buys)' = trades'[out].qty
    BY <2>1, <2>2, <2>3, <1>1 DEF MovedWhole
  <2>5. Cardinality((Group(t) \cap Buys)') = Cardinality({p \in TradeIds : allocs'[out][p] > 0})
    BY <2>1, <2>2, <1>1 DEF MovedWhole
  <2>6. \A i \in (Group(t) \cap Buys)' :
          /\ trades'[i].account # trades'[out].account
          /\ trades'[i].date = trades'[out].date
    BY <2>1, <2>2, <1>1 DEF MovedWhole
  <2>7. transfers'[t].fee # None =>
          /\ trades'[transfers'[t].fee] = trades[transfers[t].fee]
          /\ trades[transfers[t].fee] # None
          /\ trades[transfers[t].fee].type = "Sell"
          /\ trades'[transfers'[t].fee].by = None
          /\ trades'[transfers'[t].fee].account = trades'[out].account
          /\ trades'[transfers'[t].fee].date = trades'[out].date
    BY <1>3, <2>1, <2>2 DEF MovedWhole, IsSell
  <2>8. MovedWhole(t, out)'
    BY <2>4, <2>5, <2>6, <2>7 DEF MovedWhole, IsSell
  <2> QED
    BY <1>1, <1>3, <2>1, <2>8 DEF TransferWhole
<1> QED
  BY <1>2, <1>3

\* An executed operation stays whole when its trades and their lines are left
\* alone.
LEMMA OperationKept ==
  ASSUME Whole, NEW a \in Actions,
         \A i \in TradeIds : Apart(a, i),
         \A s \in TradeIds : trades[s] # None /\ trades[s].by = a => allocs'[s] = allocs[s]
  PROVE  OperationWhole(a)'
<1>1. /\ Group(a)' = Group(a)
      /\ \A i \in Group(a) : trades'[i] = trades[i]
      /\ (Group(a) \cap Buys)' = Group(a) \cap Buys
      /\ (Group(a) \cap Sells)' = Group(a) \cap Sells
  BY GroupKept DEF Apart
<1> SUFFICES ASSUME Terms[a].kind \in WholeHoldingKinds, Group(a) # {}
             PROVE  \E s \in (Group(a) \cap Sells)' : IssuedWhole(a, s)'
  BY <1>1 DEF OperationWhole
<1>2. PICK s \in Group(a) \cap Sells : IssuedWhole(a, s)
  BY DEF Whole, OperationsWhole, OperationWhole
<1>3. trades'[s] = trades[s] /\ allocs'[s] = allocs[s]
  BY <1>1, <1>2 DEF Group
<1> DEFINE new == Group(a) \cap Buys
           issued == {i \in new : trades[i].listing # Terms[a].listing}
           lines == Cardinality({p \in TradeIds : allocs[s][p] > 0})
           newP == (Group(a) \cap Buys)'
           issuedP == {i \in newP : trades'[i].listing # Terms[a].listing}
           linesP == Cardinality({p \in TradeIds : allocs'[s][p] > 0})
           unitsP(S) == SumOver([i \in S |-> trades'[i].qty], S)
<1>4. newP = new /\ issuedP = issued /\ linesP = lines
  BY <1>1, <1>3
<1>5. unitsP(issued) = Units(issued) /\ unitsP(new \ issued) = Units(new \ issued)
  <2>1. /\ issued \in SUBSET TradeIds /\ \A i \in issued : trades'[i] = trades[i]
        /\ new \ issued \in SUBSET TradeIds /\ \A i \in new \ issued : trades'[i] = trades[i]
    BY <1>1 DEF Group
  <2> HIDE DEF new, issued
  <2> QED
    BY <2>1, UnitsKept
<1>6. IssuedWhole(a, s)' =
        (/\ (Group(a) \cap Sells)' = {s}
         /\ CASE Terms[a].kind = "worthless" -> newP = {}
              [] Terms[a].kind = "scrip" -> newP = issuedP /\ Cardinality(newP) = linesP
              [] Terms[a].kind = "demerger" ->
                   /\ Cardinality(newP) = 2 * linesP
                   /\ unitsP(newP \ issuedP) = trades'[s].qty
         /\ Terms[a].kind # "worthless" => unitsP(issuedP) = Terms[a].ratio * trades'[s].qty)
  BY DEF IssuedWhole, Units
<1>7. /\ Group(a) \cap Sells = {s}
      /\ CASE Terms[a].kind = "worthless" -> new = {}
           [] Terms[a].kind = "scrip" -> new = issued /\ Cardinality(new) = lines
           [] Terms[a].kind = "demerger" ->
                /\ Cardinality(new) = 2 * lines
                /\ Units(new \ issued) = trades[s].qty
      /\ Terms[a].kind # "worthless" => Units(issued) = Terms[a].ratio * trades[s].qty
  BY <1>2 DEF IssuedWhole
<1>8. IssuedWhole(a, s)'
  <2> HIDE DEF new, issued, lines, newP, issuedP, linesP, unitsP
  <2> QED
    BY <1>1, <1>3, <1>4, <1>5, <1>6, <1>7
<1> QED
  BY <1>1, <1>2, <1>8

\* The dividend rows still match when no Sell that has one is written.
LEMMA DividendsKept ==
  ASSUME Whole, dividends' = dividends,
         \A s \in TradeIds :
           \/ trades'[s] = trades[s]
           \/ /\ IsSell(s) => ~PaysDividend(s)
              /\ IsSell(s)' => ~PaysDividend(s)'
  PROVE  dividends' = {s \in Sells : PaysDividend(s)}'
<1>1. \A s \in TradeIds : (IsSell(s) /\ PaysDividend(s))' <=> (IsSell(s) /\ PaysDividend(s))
  BY DEF IsSell, PaysDividend
<1>2. dividends = {s \in Sells : PaysDividend(s)}
  BY DEF Whole, OperationsWhole
<1> QED
  BY <1>1, <1>2 DEF Sells

\* A fee sale that some transfer names is a Sell entered with no provenance.
LEMMA FeeFacts ==
  ASSUME Whole, NEW t \in TransferIds, transfers[t] # None, transfers[t].fee # None
  PROVE  /\ transfers[t].fee \in TradeIds
         /\ IsSell(transfers[t].fee) /\ trades[transfers[t].fee] # None
         /\ trades[transfers[t].fee].by = None
BY DEF Whole, IInv, FeesSound, IsSell

\* Writing one plain trade, not a fee sale, leaves all groups whole.
LEMMA PlainWriteWhole ==
  ASSUME Whole, NEW id \in TradeIds, trades[id] = None \/ trades[id].by = None,
         trades'[id] = None \/ trades'[id].by = None,
         \A i \in TradeIds \ {id} : trades'[i] = trades[i] /\ allocs'[i] = allocs[i],
         \A t \in TransferIds : transfers[t] # None => transfers[t].fee # id,
         UNCHANGED <<transfers, dividends>>
  PROVE  TransfersWhole' /\ OperationsWhole'
<1>1. \A x \in Actions \cup TransferIds : \A i \in TradeIds : Apart(x, i)
  BY NoneAssumption DEF Apart
<1>2. \A x \in Actions \cup TransferIds : \A s \in TradeIds :
        trades[s] # None /\ trades[s].by = x => allocs'[s] = allocs[s]
  BY NoneAssumption
<1>3. ASSUME NEW t \in TransferIds PROVE TransferWhole(t)'
  <2>1. transfers[t] # None /\ transfers[t].fee # None =>
          trades'[transfers[t].fee] = trades[transfers[t].fee]
    BY FeeFacts
  <2> QED
    BY <1>1, <1>2, <2>1, TransferKept
<1>4. ASSUME NEW a \in Actions PROVE OperationWhole(a)'
  BY <1>1, <1>2, OperationKept
<1>5. dividends' = {s \in Sells : PaysDividend(s)}'
  BY DividendsKept, NoneAssumption DEF PaysDividend, IsSell
<1> QED
  BY <1>3, <1>4, <1>5 DEF TransfersWhole, OperationsWhole

\* No transfer's fee sale is at a free id or at a parcel's.
LEMMA NotAFee ==
  ASSUME Whole, NEW id \in TradeIds, ~IsSell(id)
  PROVE  \A t \in TransferIds : transfers[t] # None => transfers[t].fee # id
BY FeeFacts, NoneAssumption

\* Buys, their edits and deletions touch no transfer and no operation in part.
LEMMA TradeStepWhole ==
  ASSUME Whole, TradeStep
  PROVE  TransfersWhole' /\ OperationsWhole'
<1>1. ASSUME NEW id \in TradeIds, NEW l \in Listings, NEW ac \in Accounts,
             NEW d \in Dates, NEW q \in Quantities,
             CreateBuy(id, l, ac, d, q) \/ EditBuy(id, l, ac, d, q)
      PROVE  TransfersWhole' /\ OperationsWhole'
  <2>1. /\ trades' = [trades EXCEPT ![id] = BuyRow(l, ac, d, q, None)]
        /\ trades[id] = None \/ trades[id].by = None
        /\ ~IsSell(id)
        /\ UNCHANGED <<allocs, transfers, dividends>>
    BY <1>1 DEF CreateBuy, EditBuy, ClientIds, IsBuy, IsSell
  <2>2. trades'[id].by = None /\ \A i \in TradeIds \ {id} : trades'[i] = trades[i]
    BY <2>1, RowFields DEF Whole, IInv, TypeOK
  <2> QED
    BY <2>1, <2>2, NotAFee, PlainWriteWhole
<1>2. ASSUME NEW id \in TradeIds, DeleteTrade(id)
      PROVE  TransfersWhole' /\ OperationsWhole'
  <2>1. /\ trades' = Without({id}) /\ DeletedAlone(trades[id].by) /\ trades[id] # None
        /\ ~HasAllocations(id)
        /\ UNCHANGED <<allocs, transfers, dividends>>
    BY <1>2 DEF DeleteTrade
  <2>2. ~IsSell(id)
    BY <2>1 DEF Whole, IInv, AllocationsSound
  <2>3. trades'[id] = None /\ \A i \in TradeIds \ {id} : trades'[i] = trades[i]
    BY <2>1 DEF Without
  <2>4. ASSUME NEW t \in TransferIds PROVE TransferWhole(t)'
    <3>1. \A i \in TradeIds : Apart(t, i)
      BY <2>1, <2>3, NoneAssumption DEF Apart, DeletedAlone
    <3>2. transfers[t] # None /\ transfers[t].fee # None =>
            trades'[transfers[t].fee] = trades[transfers[t].fee]
      BY <2>2, <2>3, FeeFacts
    <3> QED
      BY <2>1, <3>1, <3>2, TransferKept
  <2>5. ASSUME NEW a \in Actions PROVE OperationWhole(a)'
    <3>1. CASE trades[id].by = a
      BY <2>1, <3>1, NoneAssumption DEF DeletedAlone, OperationWhole, WholeHoldingKinds
    <3>2. CASE trades[id].by # a
      BY <2>1, <2>3, <3>2, OperationKept DEF Apart
    <3> QED
      BY <3>1, <3>2
  <2>6. dividends' = {s \in Sells : PaysDividend(s)}'
    BY <2>1, <2>2, <2>3, DividendsKept DEF IsSell
  <2> QED
    BY <2>4, <2>5, <2>6 DEF TransfersWhole, OperationsWhole
<1> QED
  BY <1>1, <1>2 DEF TradeStep

\* A deleted closing Sell takes with it all its operation wrote.
LEMMA DeleteSellWhole ==
  ASSUME Whole, NEW id \in TradeIds, DeleteSell(id)
  PROVE  TransfersWhole' /\ OperationsWhole'
<1> DEFINE gone == ReplacementsOf(id) \cup {id}
           by == trades[id].by
<1>1. /\ IsSell(id) /\ by \notin TransferIds
      /\ ~IsTransferFeeSale(id)
      /\ trades' = Without(gone)
      /\ allocs' = Released({id})
      /\ dividends' = dividends \ {id}
      /\ transfers' = transfers
  BY DEF DeleteSell
<1>2. /\ \A i \in gone : i = id \/ (trades[i].by = by /\ by \in Actions /\ Terms[by].kind # "buyback")
      /\ \A i \in gone : trades[i].by = by
  BY DEF ReplacementsOf, Group
<1>3. /\ \A i \in TradeIds : i \in gone => trades'[i] = None
      /\ \A i \in TradeIds : i \notin gone => trades'[i] = trades[i]
      /\ \A s \in TradeIds \ {id} : allocs'[s] = allocs[s]
  BY <1>1 DEF Without, Released
<1>4. ASSUME NEW t \in TransferIds PROVE TransferWhole(t)'
  <2>1. \A i \in TradeIds : Apart(t, i)
    <3> HIDE DEF gone
    <3> QED
      BY <1>1, <1>2, <1>3 DEF Apart
  <2>2. \A s \in TradeIds : trades[s] # None /\ trades[s].by = t => allocs'[s] = allocs[s]
    BY <1>1, <1>3
  <2>3. ASSUME transfers[t] # None, transfers[t].fee # None
        PROVE  trades'[transfers[t].fee] = trades[transfers[t].fee]
    <3>1. transfers[t].fee \in TradeIds /\ trades[transfers[t].fee].by = None /\ transfers[t].fee # id
      BY <1>1, <2>3, FeeFacts DEF IsTransferFeeSale
    <3>2. transfers[t].fee \notin gone
      <4> HIDE DEF gone
      <4> QED
        BY <1>2, <3>1, NoneAssumption
    <3> QED
      BY <1>3, <3>1, <3>2
  <2> QED
    BY <1>1, <2>1, <2>2, <2>3, TransferKept
<1>5. ASSUME NEW a \in Actions PROVE OperationWhole(a)'
  <2>1. CASE by # a
    <3>1. \A i \in TradeIds : Apart(a, i)
      <4> HIDE DEF gone
      <4> QED
        BY <1>2, <1>3, <2>1 DEF Apart
    <3>2. \A s \in TradeIds : trades[s] # None /\ trades[s].by = a => allocs'[s] = allocs[s]
      BY <1>3, <2>1
    <3> QED
      BY <3>1, <3>2, OperationKept
  <2>2. CASE by = a /\ Terms[a].kind \in WholeHoldingKinds
    <3>1. Group(a) \subseteq gone
      <4>1. CASE Terms[a].kind \in {"scrip", "demerger"}
        BY <4>1, <2>2 DEF ReplacementsOf
      <4>2. CASE Terms[a].kind = "worthless"
        <5>1. id \in Group(a) \cap Sells
          BY <1>1, <2>2 DEF Group, Sells, IsSell
        <5>2. PICK s \in Group(a) \cap Sells : IssuedWhole(a, s)
          BY <2>2, <5>1 DEF Whole, OperationsWhole, OperationWhole
        <5>3. Group(a) \cap Sells = {s} /\ Group(a) \cap Buys = {}
          BY <4>2, <5>2 DEF IssuedWhole
        <5>4. \A i \in Group(a) : i \in Buys \/ i \in Sells
          BY DEF Group, Buys, Sells, IsBuy, IsSell, Whole, IInv, TypeOK, Trade
        <5> QED
          BY <5>1, <5>3, <5>4
      <4> QED
        BY <2>2, <4>1, <4>2 DEF WholeHoldingKinds
    <3>2. Group(a)' = {}
      <4>1. \A i \in TradeIds : ~(trades'[i] # None /\ trades'[i].by = a)
        <5> SUFFICES ASSUME NEW i \in TradeIds, trades'[i] # None, trades'[i].by = a PROVE FALSE
          OBVIOUS
        <5>1. i \notin gone /\ trades'[i] = trades[i]
          BY <1>3
        <5> QED
          BY <3>1, <5>1 DEF Group
      <4> QED
        BY <4>1 DEF Group
    <3> QED
      BY <3>2 DEF OperationWhole
  <2>3. CASE Terms[a].kind \notin WholeHoldingKinds
    BY <2>3 DEF OperationWhole
  <2> QED
    BY <2>1, <2>2, <2>3
<1>6. dividends' = {s \in Sells : PaysDividend(s)}'
  <2>1. dividends = {s \in Sells : PaysDividend(s)}
    BY DEF Whole, OperationsWhole
  <2>2. ASSUME NEW s \in TradeIds
        PROVE  (IsSell(s) /\ PaysDividend(s))' <=> (IsSell(s) /\ PaysDividend(s) /\ s # id)
    <3>1. CASE s = id
      BY <1>3, <3>1 DEF IsSell
    <3>2. CASE s # id /\ s \in gone
      <4>1. ~PaysDividend(s)
        <5> HIDE DEF gone
        <5> QED
          BY <1>2, <3>2 DEF PaysDividend
      <4>2. trades'[s] = None
        BY <1>3, <3>2
      <4> QED
        BY <4>1, <4>2 DEF IsSell
    <3>3. CASE s # id /\ s \notin gone
      <4>1. trades'[s] = trades[s]
        BY <1>3, <3>3
      <4> QED
        BY <3>3, <4>1 DEF IsSell, PaysDividend
    <3> QED
      BY <3>1, <3>2, <3>3
  <2>3. {s \in Sells : PaysDividend(s)}' = {s \in Sells : PaysDividend(s)} \ {id}
    BY <2>2 DEF Sells
  <2> QED
    BY <1>1, <2>1, <2>3
<1> QED
  BY <1>4, <1>5, <1>6 DEF TransfersWhole, OperationsWhole

\* Sells and their edits touch no transfer and no operation in part.
LEMMA SellStepWhole ==
  ASSUME Whole, SellStep
  PROVE  TransfersWhole' /\ OperationsWhole'
<1>1. ASSUME NEW id \in TradeIds, NEW l \in Listings, NEW ac \in Accounts,
             NEW d \in Dates, NEW al,
             CreateSell(id, l, ac, d, al) \/ EditSell(id, l, ac, d, al)
      PROVE  TransfersWhole' /\ OperationsWhole'
  <2>1. /\ trades' = [trades EXCEPT ![id] = SellRow(l, ac, d, Total(al), None)]
        /\ allocs' = Allocated(id, al)
        /\ trades[id] = None \/ (trades[id].by = None /\ ~IsTransferFeeSale(id))
        /\ UNCHANGED <<transfers, dividends>>
    BY <1>1 DEF CreateSell, EditSell, ClientIds
  <2>2. /\ trades'[id].by = None
        /\ \A i \in TradeIds \ {id} : trades'[i] = trades[i] /\ allocs'[i] = allocs[i]
    BY <2>1, RowFields DEF Whole, IInv, TypeOK, Allocated
  <2>3. \A t \in TransferIds : transfers[t] # None => transfers[t].fee # id
    BY <2>1, NotAFee DEF IsTransferFeeSale, IsSell
  <2> QED
    BY <2>1, <2>2, <2>3, PlainWriteWhole
<1> QED
  BY <1>1, DeleteSellWhole DEF SellStep

-----------------------------------------------------------------------------
(* Transfers.                                                              *)

\* A deleted transfer leaves no trade of its own, and no other's is taken.
LEMMA DeleteTransferWhole ==
  ASSUME Whole, NEW t \in TransferIds, DeleteTransfer(t)
  PROVE  TransfersWhole' /\ OperationsWhole'
<1> DEFINE gone == Group(t) \cup ({transfers[t].fee} \ {None})
<1>1. /\ transfers[t] # None
      /\ trades' = Without(gone)
      /\ allocs' = Released(gone)
      /\ transfers' = [transfers EXCEPT ![t] = None]
      /\ dividends' = dividends
  BY DEF DeleteTransfer
<1>2. \A i \in gone : trades[i].by = t \/ (i = transfers[t].fee /\ i # None)
  BY DEF Group
<1>3. \A i \in TradeIds : trades[i] # None /\ trades[i].by = t => i \in gone
  BY DEF Group
<1> HIDE DEF gone
<1>4. /\ \A i \in TradeIds : i \in gone => trades'[i] = None
      /\ \A i \in TradeIds : i \notin gone => trades'[i] = trades[i] /\ allocs'[i] = allocs[i]
  BY <1>1 DEF Without, Released
<1>5. \A i \in gone : trades[i].by \in {t, None}
  BY <1>1, <1>2, FeeFacts
<1>6. ASSUME NEW x \in Actions \cup TransferIds, x # t
      PROVE  /\ \A i \in TradeIds : Apart(x, i)
             /\ \A s \in TradeIds : trades[s] # None /\ trades[s].by = x => allocs'[s] = allocs[s]
  BY <1>4, <1>5, <1>6, NoneAssumption DEF Apart
<1>7. ASSUME NEW u \in TransferIds PROVE TransferWhole(u)'
  <2>1. CASE u = t
    <3>1. \A i \in TradeIds : ~(trades'[i] # None /\ trades'[i].by = t)
      BY <1>3, <1>4
    <3>2. Group(t)' = {}
      BY <3>1 DEF Group
    <3>3. transfers'[t] = None
      BY <1>1 DEF Whole, IInv, TypeOK
    <3> QED
      BY <2>1, <3>2, <3>3 DEF TransferWhole
  <2>2. CASE u # t
    <3>1. transfers'[u] = transfers[u]
      BY <1>1, <2>2 DEF Whole, IInv, TypeOK
    <3>2. ASSUME transfers[u] # None, transfers[u].fee # None
          PROVE  trades'[transfers[u].fee] = trades[transfers[u].fee]
      <4>1. /\ transfers[u].fee \in TradeIds /\ trades[transfers[u].fee].by = None
            /\ transfers[t].fee # transfers[u].fee
        BY <1>1, <2>2, <3>2, FeeFacts DEF Whole, IInv, FeesSound
      <4>2. transfers[u].fee \notin gone
        BY <1>2, <4>1, NoneAssumption
      <4> QED
        BY <1>4, <4>1, <4>2
    <3> QED
      BY <1>6, <2>2, <3>1, <3>2, TransferKept
  <2> QED
    BY <2>1, <2>2
<1>8. ASSUME NEW a \in Actions PROVE OperationWhole(a)'
  BY <1>6, OperationKept, NoneAssumption
<1>9. dividends' = {s \in Sells : PaysDividend(s)}'
  <2>1. \A s \in TradeIds : trades'[s] = trades[s] \/ (~PaysDividend(s) /\ ~IsSell(s)')
    BY <1>4, <1>5, NoneAssumption DEF PaysDividend, IsSell
  <2> QED
    BY <1>1, <2>1, DividendsKept
<1> QED
  BY <1>7, <1>8, <1>9 DEF TransfersWhole, OperationsWhole

\* A recorded transfer is whole: a parcel for each line of its closing Sell.
LEMMA TransferMakesWhole ==
  ASSUME Whole, NEW t \in TransferIds, transfers[t] = None, NEW n \in NextIds,
         NEW l \in Listings, NEW d \in Dates, NEW from \in Accounts, NEW to \in Accounts,
         NEW al, NEW feeAl, Transfer(t, n, l, d, from, to, al, feeAl)
  PROVE  TransferWhole(t)'
<1> DEFINE P == Lines(al)
           fee == FeeId(n, al, feeAl)
           in == [p \in P |-> n + Place(P, p)]
           B == (Group(t) \cap Buys)'
<1>1. TransferWrote(t, n, l, d, from, to, al, feeAl)
  BY TransferRows DEF Whole
<1>2. from # to /\ transfers' = [transfers EXCEPT ![t] = [fee |-> fee]]
  BY DEF Transfer, FeeId
<1>3. \A i \in TradeIds : trades[i] = None \/ trades[i].by # t
  BY DEF Whole, TransfersWhole, TransferWhole, Group
<1>4. /\ n \in TradeIds
      /\ trades'[n] = SellRow(l, from, d, Total(al), t)
      /\ fee # None => /\ fee \in TradeIds \ {n}
                       /\ trades'[fee] = SellRow(l, from, d, Total(feeAl), None)
                       /\ MayDraw(l, from, d, None, feeAl)
      /\ MayDraw(l, from, d, t, al)
      /\ allocs'[n] = al
  BY <1>1 DEF TransferWrote
<1>5. /\ \A p \in P : in[p] \in TradeIds \ {n, fee} /\ trades'[in[p]] = BuyRow(l, to, d, al[p], t)
      /\ \A p, q \in P : in[p] = in[q] => p = q
      /\ \A i \in TradeIds : i = n \/ i = fee \/ (\E p \in P : i = in[p]) \/ trades'[i] = trades[i]
  BY <1>1 DEF TransferWrote
<1> HIDE DEF P, fee, in
<1>6. /\ al \in [TradeIds -> Nat] /\ Total(al) \in Nat \ {0}
      /\ fee # None => Total(feeAl) \in Nat \ {0}
  BY <1>4 DEF MayDraw
<1>7. P \in SUBSET TradeIds /\ IsFiniteSet(P) /\ \A p \in P : al[p] \in Nat \ {0}
  BY <1>6, TradeIdsFinite, FS_Subset DEF P, Lines
<1>8. /\ trades'[n] # None
      /\ fee # None => trades'[fee] # None
      /\ \A p \in P : trades'[in[p]] # None
  <2>1. t \in Provenance /\ None \in Provenance
    BY DEF Provenance
  <2> QED
    BY <2>1, <1>4, <1>5, <1>6, <1>7, BuyRowTyped, SellRowTyped
<1>9. /\ trades'[n].type = "Sell" /\ trades'[n].by = t /\ trades'[n].qty = Total(al)
      /\ trades'[n].account = from /\ trades'[n].date = d
      /\ fee # None => /\ trades'[fee].type = "Sell" /\ trades'[fee].by = None
                       /\ trades'[fee].account = from /\ trades'[fee].date = d
      /\ \A p \in P : /\ trades'[in[p]].type = "Buy" /\ trades'[in[p]].by = t
                      /\ trades'[in[p]].qty = al[p]
                      /\ trades'[in[p]].account = to /\ trades'[in[p]].date = d
  BY <1>4, <1>5, RowFields
<1>10. \A i \in TradeIds :
         (trades'[i] # None /\ trades'[i].by = t) <=> (i = n \/ \E p \in P : i = in[p])
  BY <1>3, <1>4, <1>5, <1>8, <1>9, NoneAssumption
<1>11. (Group(t) \cap Sells)' = {n}
  <2>1. \A i \in TradeIds :
          (trades'[i] # None /\ trades'[i].by = t /\ trades'[i].type = "Sell") <=> i = n
    BY <1>4, <1>8, <1>9, <1>10
  <2> QED
    BY <2>1, <1>4 DEF Group, Sells, IsSell
<1>12. B = {in[p] : p \in P}
  <2>1. \A i \in TradeIds :
          (trades'[i] # None /\ trades'[i].by = t /\ trades'[i].type = "Buy")
            <=> \E p \in P : i = in[p]
    BY <1>4, <1>8, <1>9, <1>10
  <2>2. \A i : i \in B <=> i \in TradeIds /\ \E p \in P : i = in[p]
    BY <2>1 DEF Group, Buys, IsBuy
  <2> HIDE DEF B
  <2> QED
    BY <2>2, <1>5
<1>13. Cardinality(B) = Cardinality(P)
  <2> HIDE DEF B
  <2>0. IsFiniteSet(P) /\ \A x, y \in P : in[x] = in[y] => x = y
    BY <1>5, <1>7
  <2>1. Cardinality({in[x] : x \in P}) = Cardinality(P)
    BY <2>0, ImageSize
  <2> QED
    BY <2>1, <1>12
<1>14. SumOver([i \in B |-> trades'[i].qty], B) = Total(al)
  <2> DEFINE g == [i \in B |-> trades'[i].qty]
  <2>1. \A p \in P : al[p] \in Int /\ g[in[p]] = al[p]
    BY <1>7, <1>9, <1>12
  <2> HIDE DEF g, B
  <2>2. SumOver(g, {in[p] : p \in P}) = SumOver(al, P)
    BY <2>1, <1>5, <1>7, SumReindex
  <2>3. SumOver(al, P) = Total(al)
    BY <1>6, TotalOfLines DEF P
  <2> QED
    BY <2>2, <2>3, <1>12 DEF g
<1>15. Units(Group(t) \cap Buys)' = SumOver([i \in B |-> trades'[i].qty], B)
  BY DEF Units
<1>16. P = {p \in TradeIds : allocs'[n][p] > 0}
  BY <1>4 DEF P, Lines
<1>17. \A i \in B : trades'[i].account # trades'[n].account /\ trades'[i].date = trades'[n].date
  BY <1>2, <1>9, <1>12
<1>18. transfers'[t] = [fee |-> fee] /\ transfers'[t] # None
  <2>1. transfers'[t] = [fee |-> fee]
    BY <1>2 DEF Whole, IInv, TypeOK
  <2>2. fee \in TradeIds \cup {None}
    BY <1>4
  <2>3. [fee |-> fee] \in [fee : TradeIds \cup {None}]
    BY <2>2
  <2> QED
    BY <2>1, <2>3, NoneIsNoRow
<1> HIDE DEF B
<1>19. MovedWhole(t, n)'
  BY <1>4, <1>8, <1>9, <1>11, <1>13, <1>14, <1>15, <1>16, <1>17, <1>18 DEF MovedWhole, IsSell, B
<1> QED
  BY <1>11, <1>18, <1>19 DEF TransferWhole

\* A recorded transfer leaves every other group as it was.
LEMMA TransferLeaves ==
  ASSUME Whole, NEW t \in TransferIds, transfers[t] = None, NEW n \in NextIds,
         NEW l \in Listings, NEW d \in Dates, NEW from \in Accounts, NEW to \in Accounts,
         NEW al, NEW feeAl, Transfer(t, n, l, d, from, to, al, feeAl)
  PROVE  /\ \A i \in TradeIds : trades[i] # None =>
              trades'[i] = trades[i] /\ allocs'[i] = allocs[i]
         /\ \A i \in TradeIds :
              \/ trades'[i] = trades[i]
              \/ trades[i] = None /\ trades'[i].by \in {t, None}
         /\ \A u \in TransferIds \ {t} : transfers'[u] = transfers[u]
         /\ dividends' = dividends
<1> DEFINE P == Lines(al)
           fee == FeeId(n, al, feeAl)
           in == [p \in P |-> n + Place(P, p)]
<1>1. TransferWrote(t, n, l, d, from, to, al, feeAl)
  BY TransferRows DEF Whole
<1>2. transfers' = [transfers EXCEPT ![t] = [fee |-> fee]] /\ dividends' = dividends
  BY DEF Transfer, FeeId
<1>3. /\ \A i \in TradeIds : trades[i] # None => trades'[i] = trades[i] /\ i # n /\ i # fee
      /\ trades'[n] = SellRow(l, from, d, Total(al), t)
      /\ fee # None => trades'[fee] = SellRow(l, from, d, Total(feeAl), None)
      /\ \A p \in P : trades'[in[p]] = BuyRow(l, to, d, al[p], t)
      /\ \A i \in TradeIds : i = n \/ i = fee \/ (\E p \in P : i = in[p]) \/ trades'[i] = trades[i]
      /\ allocs' = [s \in TradeIds |-> IF s = n THEN al ELSE IF s = fee THEN feeAl ELSE allocs[s]]
  BY <1>1 DEF TransferWrote
<1> HIDE DEF P, fee, in
<1>4. /\ trades'[n].by = t
      /\ fee # None => trades'[fee].by = None
      /\ \A p \in P : trades'[in[p]].by = t
  BY <1>3, RowFields
<1>5. \A i \in TradeIds :
        trades'[i] = trades[i] \/ (trades[i] = None /\ trades'[i].by \in {t, None})
  BY <1>3, <1>4, NoneAssumption
<1>6. \A i \in TradeIds : trades[i] # None =>
        trades'[i] = trades[i] /\ allocs'[i] = allocs[i]
  BY <1>3
<1> QED
  BY <1>2, <1>5, <1>6 DEF Whole, IInv, TypeOK

\* Recording or deleting a transfer keeps every transfer and operation whole.
LEMMA TransferStepWhole ==
  ASSUME Whole, TransferStep
  PROVE  TransfersWhole' /\ OperationsWhole'
<1>1. ASSUME NEW t \in TransferIds, transfers[t] = None, NEW n \in NextIds,
             NEW l \in Listings, NEW d \in Dates, NEW from \in Accounts, NEW to \in Accounts,
             NEW al, NEW feeAl, Transfer(t, n, l, d, from, to, al, feeAl)
      PROVE  TransfersWhole' /\ OperationsWhole'
  <2>1. /\ \A i \in TradeIds : trades[i] # None =>
              trades'[i] = trades[i] /\ allocs'[i] = allocs[i]
        /\ \A i \in TradeIds :
              \/ trades'[i] = trades[i]
              \/ trades[i] = None /\ trades'[i].by \in {t, None}
        /\ \A u \in TransferIds \ {t} : transfers'[u] = transfers[u]
        /\ dividends' = dividends
    BY <1>1, TransferLeaves
  <2>2. ASSUME NEW x \in Actions \cup TransferIds, x # t
        PROVE  /\ \A i \in TradeIds : Apart(x, i)
               /\ \A s \in TradeIds : trades[s] # None /\ trades[s].by = x => allocs'[s] = allocs[s]
    BY <2>1, <2>2, NoneAssumption DEF Apart
  <2>3. ASSUME NEW u \in TransferIds, u # t PROVE TransferWhole(u)'
    <3>1. transfers[u] # None /\ transfers[u].fee # None =>
            trades'[transfers[u].fee] = trades[transfers[u].fee]
      BY <2>1, FeeFacts
    <3> QED
      BY <2>1, <2>2, <2>3, <3>1, TransferKept
  <2>4. TransferWhole(t)'
    BY <1>1, TransferMakesWhole
  <2>5. ASSUME NEW a \in Actions PROVE OperationWhole(a)'
    BY <2>2, OperationKept, NoneAssumption
  <2>6. dividends' = {s \in Sells : PaysDividend(s)}'
    <3>1. \A s \in TradeIds :
            \/ trades'[s] = trades[s]
            \/ ~IsSell(s) /\ ~PaysDividend(s)'
      BY <2>1, NoneAssumption DEF IsSell, PaysDividend
    <3> QED
      BY <2>1, <3>1, DividendsKept
  <2> QED
    BY <2>3, <2>4, <2>5, <2>6 DEF TransfersWhole, OperationsWhole
<1> QED
  BY <1>1, DeleteTransferWhole DEF TransferStep

-----------------------------------------------------------------------------
(* The whole-holding operations and buy-backs.                             *)

\* An operation leaves every other group as it was: it writes only rows of its
\* own, at free ids.
LEMMA OthersKept ==
  ASSUME Whole, NEW a \in Actions, NEW n \in TradeIds, trades[n] = None,
         \A i \in TradeIds : trades[i] # None => trades'[i] = trades[i],
         \A i \in TradeIds : trades'[i] = trades[i] \/ trades'[i].by = a,
         \A s \in TradeIds \ {n} : allocs'[s] = allocs[s],
         transfers' = transfers
  PROVE  TransfersWhole' /\ \A b \in Actions \ {a} : OperationWhole(b)'
<1>1. ASSUME NEW x \in Actions \cup TransferIds, x # a
      PROVE  /\ \A i \in TradeIds : Apart(x, i)
             /\ \A s \in TradeIds : trades[s] # None /\ trades[s].by = x => allocs'[s] = allocs[s]
  BY <1>1 DEF Apart
<1>2. ASSUME NEW t \in TransferIds PROVE TransferWhole(t)'
  <2>1. t # a
    BY NoneAssumption
  <2>2. transfers[t] # None /\ transfers[t].fee # None =>
          trades'[transfers[t].fee] = trades[transfers[t].fee]
    BY FeeFacts
  <2> QED
    BY <1>1, <2>1, <2>2, TransferKept
<1>3. ASSUME NEW b \in Actions \ {a} PROVE OperationWhole(b)'
  BY <1>1, OperationKept
<1> QED
  BY <1>2, <1>3 DEF TransfersWhole

\* What the closing lines of a listing come to.
LEMMA ClosingTotal ==
  ASSUME NEW l, ClosingLines(l) \in [TradeIds -> Nat]
  PROVE  /\ Lines(ClosingLines(l)) = OpenParcels(l)
         /\ Total(ClosingLines(l)) = SumOver(ClosingLines(l), OpenParcels(l))
<1>1. Lines(ClosingLines(l)) = OpenParcels(l)
  BY DEF Lines, ClosingLines, OpenParcels, Buys
<1> DEFINE f == [p \in TradeIds |-> IF p \in OpenParcels(l) THEN Remaining(p) ELSE 0]
<1>2. SumOver(f, TradeIds) = SumOver(f, OpenParcels(l))
  <2>1. \A p \in TradeIds : f[p] \in Int
    BY DEF ClosingLines
  <2>2. \A p \in TradeIds \ OpenParcels(l) : f[p] = 0
    OBVIOUS
  <2>3. OpenParcels(l) \in SUBSET TradeIds
    BY OpenParcelsAreIds
  <2> HIDE DEF f
  <2> QED
    BY <2>1, <2>2, <2>3, TradeIdsFinite, SumSupport
<1> QED
  BY <1>1, <1>2 DEF Total, ClosingLines, f

\* What IssuedWhole asks of the rows an operation just wrote: new, of which
\* issued are of the destination listing.
LEMMA IssuedAfter ==
  ASSUME NEW a \in Actions, NEW n, NEW new, NEW issued,
         (Group(a) \cap Sells)' = {n},
         (Group(a) \cap Buys)' = new,
         {i \in new : trades'[i].listing # Terms[a].listing} = issued,
         LET lines == Cardinality({p \in TradeIds : allocs'[n][p] > 0}) IN
         CASE Terms[a].kind = "worthless" -> new = {}
           [] Terms[a].kind = "scrip" -> new = issued /\ Cardinality(new) = lines
           [] Terms[a].kind = "demerger" ->
                /\ Cardinality(new) = 2 * lines
                /\ SumOver([i \in new \ issued |-> trades'[i].qty], new \ issued) = trades'[n].qty,
         Terms[a].kind # "worthless" =>
           SumOver([i \in issued |-> trades'[i].qty], issued) = Terms[a].ratio * trades'[n].qty
  PROVE  OperationWhole(a)'
<1>1. IssuedWhole(a, n)'
  BY DEF IssuedWhole, Units
<1> QED
  BY <1>1 DEF OperationWhole

\* An exchange issues a parcel of the destination for each it closed, in ratio.
LEMMA ExchangeMakesWhole ==
  ASSUME Whole, NEW a \in Actions, NEW n \in NextIds, Exchange(a, n)
  PROVE  OperationWhole(a)'
<1> DEFINE l == Terms[a].listing
           P == OpenParcels(l)
           al == ClosingLines(l)
           in == [p \in P |-> n + Place(P, p)]
           k == Terms[a].ratio
           I == {in[p] : p \in P}
<1>1. ExchangeWrote(a, n)
  BY ExchangeRows DEF Whole
<1>2. /\ Terms[a].kind = "scrip" /\ Group(a) = {}
      /\ SellAllowed(ClosingSell(a), al, SoldByOthers(n))
      /\ allocs' = Allocated(n, al)
  BY DEF Exchange, Executable
<1>3. /\ n \in TradeIds /\ trades'[n] = ClosingSell(a)
      /\ \A p \in P : /\ in[p] \in TradeIds \ {n}
                      /\ trades'[in[p]] = BuyRow(Terms[a].dest, trades[p].account,
                                                Terms[a].date, al[p] * k, a)
      /\ \A p, q \in P : in[p] = in[q] => p = q
      /\ \A i \in TradeIds : i = n \/ (\E p \in P : i = in[p]) \/ trades'[i] = trades[i]
  BY <1>1 DEF ExchangeWrote
<1>4. /\ ClosingSell(a) \in Trade
      /\ al \in [TradeIds -> Nat]
      /\ \A p \in P : al[p] \in Nat \ {0} /\ trades[p].account \in Accounts
      /\ P \in SUBSET TradeIds
  BY <1>2, ClosingFacts, OpenParcelsAreIds DEF Whole, MayDraw
<1>5. /\ Terms[a].dest \in Listings \ {l} /\ k \in Nat \ {0} /\ Terms[a].date \in Dates
      /\ a \in Provenance
  BY <1>2, TermsAssumption DEF Provenance
<1>6. Lines(al) = P /\ Total(al) = SumOver(al, P)
  BY <1>4, ClosingTotal
<1>7. /\ trades'[n].type = "Sell" /\ trades'[n].by = a /\ trades'[n].qty = Total(al)
      /\ trades'[n] # None
  BY <1>3, <1>4, RowFields, NoneIsNoRow DEF ClosingSell
<1> HIDE DEF P, al, in, l, k
<1>8. ASSUME NEW p \in P
      PROVE  /\ trades'[in[p]].type = "Buy" /\ trades'[in[p]].by = a
             /\ trades'[in[p]].listing = Terms[a].dest
             /\ trades'[in[p]].qty = k * al[p]
             /\ trades'[in[p]] # None
  <2>1. al[p] * k \in Nat \ {0} /\ al[p] * k = k * al[p]
    BY <1>4, <1>5, ProductPositive
  <2>2. trades'[in[p]] # None
    BY <2>1, <1>3, <1>4, <1>5, BuyRowTyped
  <2> QED
    BY <2>1, <2>2, <1>3, RowFields
<1>9. \A i \in TradeIds :
        (trades'[i] # None /\ trades'[i].by = a) <=> (i = n \/ \E p \in P : i = in[p])
  BY <1>2, <1>3, <1>7, <1>8 DEF Group
<1>10. (Group(a) \cap Sells)' = {n}
  <2>1. \A i \in TradeIds :
          (trades'[i] # None /\ trades'[i].by = a /\ trades'[i].type = "Sell") <=> i = n
    BY <1>3, <1>7, <1>8, <1>9
  <2> QED
    BY <2>1, <1>3 DEF Group, Sells, IsSell
<1>11. (Group(a) \cap Buys)' = I
  <2>1. \A i \in TradeIds :
          (trades'[i] # None /\ trades'[i].by = a /\ trades'[i].type = "Buy")
            <=> \E p \in P : i = in[p]
    BY <1>3, <1>7, <1>8, <1>9
  <2>2. \A i : i \in (Group(a) \cap Buys)' <=> i \in TradeIds /\ \E p \in P : i = in[p]
    BY <2>1 DEF Group, Buys, IsBuy
  <2> QED
    BY <2>2, <1>3
<1>12. {i \in I : trades'[i].listing # Terms[a].listing} = I
  BY <1>5, <1>8 DEF l
<1>13. /\ Cardinality(I) = Cardinality(P)
       /\ SumOver([i \in I |-> trades'[i].qty], I) = k * SumOver(al, P)
  <2> DEFINE g == [i \in I |-> trades'[i].qty]
             h == [p \in P |-> k * al[p]]
  <2>1. /\ \A p \in P : al[p] \in Int /\ h[p] = k * al[p]
        /\ \A p \in P : g[in[p]] = h[p]
        /\ k \in Int
    BY <1>4, <1>5, <1>8
  <2>2. IsFiniteSet(P) /\ P \in SUBSET TradeIds /\ \A p, q \in P : in[p] = in[q] => p = q
    BY <1>3, <1>4, TradeIdsFinite, FS_Subset
  <2>3. Cardinality({in[p] : p \in P}) = Cardinality(P)
    BY <2>2, ImageSize
  <2> HIDE DEF g, h
  <2>4. \A p \in P : h[p] \in Int /\ g[in[p]] = h[p]
    BY <2>1
  <2>5. SumOver(g, {in[p] : p \in P}) = SumOver(h, P)
    BY <2>2, <2>4, SumReindex
  <2>6. SumOver(h, P) = k * SumOver(al, P)
    BY <2>1, <2>2, SumTimes
  <2> HIDE DEF I
  <2> QED
    BY <2>3, <2>5, <2>6 DEF g, I
<1>14. {p \in TradeIds : allocs'[n][p] > 0} = P
  BY <1>2, <1>3, <1>6 DEF Lines, Allocated, Whole, IInv, TypeOK
<1>15. SumOver([i \in I |-> trades'[i].qty], I) = Terms[a].ratio * trades'[n].qty
  BY <1>6, <1>7, <1>13 DEF k
<1> HIDE DEF I
<1> QED
  BY <1>2, <1>10, <1>11, <1>12, <1>13, <1>14, <1>15, IssuedAfter

\* A demerger issues two parcels for each it closed: the head company's with
\* its units, and the demerged entity's in ratio.
LEMMA DemergeMakesWhole ==
  ASSUME Whole, NEW a \in Actions, NEW n \in NextIds, Demerge(a, n)
  PROVE  OperationWhole(a)'
<1> DEFINE l == Terms[a].listing
           P == OpenParcels(l)
           al == ClosingLines(l)
           head == [p \in P |-> n + 2 * Place(P, p) - 1]
           dest == [p \in P |-> head[p] + 1]
           k == Terms[a].ratio
           H == {head[p] : p \in P}
           D == {dest[p] : p \in P}
<1>1. DemergeWrote(a, n)
  BY DemergeRows DEF Whole
<1>2. /\ Terms[a].kind = "demerger" /\ Group(a) = {}
      /\ SellAllowed(ClosingSell(a), al, SoldByOthers(n))
      /\ allocs' = Allocated(n, al)
  BY DEF Demerge, Executable
<1>3. /\ n \in TradeIds /\ trades'[n] = ClosingSell(a)
      /\ \A p \in P :
           /\ head[p] \in TradeIds \ {n} /\ dest[p] \in TradeIds \ {n}
           /\ trades'[head[p]] = BuyRow(l, trades[p].account, Terms[a].date, al[p], a)
           /\ trades'[dest[p]] = BuyRow(Terms[a].dest, trades[p].account,
                                        Terms[a].date, al[p] * k, a)
      /\ \A p, q \in P : head[p] = head[q] => p = q
      /\ \A p, q \in P : dest[p] = dest[q] => p = q
      /\ \A i \in TradeIds :
           \/ i = n \/ (\E p \in P : i = head[p]) \/ (\E p \in P : i = dest[p])
           \/ trades'[i] = trades[i]
  <2> DEFINE hd(p) == n + 2 * Place(P, p) - 1
  <2>1. /\ n \in TradeIds /\ trades'[n] = ClosingSell(a)
        /\ \A p \in P :
             /\ hd(p) \in TradeIds \ {n} /\ hd(p) + 1 \in TradeIds \ {n}
             /\ trades'[hd(p)] = BuyRow(l, trades[p].account, Terms[a].date, al[p], a)
             /\ trades'[hd(p) + 1] = BuyRow(Terms[a].dest, trades[p].account,
                                           Terms[a].date, al[p] * k, a)
        /\ \A p, q \in P : {hd(p), hd(p) + 1} \cap {hd(q), hd(q) + 1} # {} => p = q
        /\ \A i \in TradeIds :
             i = n \/ (\E p \in P : i \in {hd(p), hd(p) + 1}) \/ trades'[i] = trades[i]
    BY <1>1 DEF DemergeWrote
  <2>2. \A p \in P : head[p] = hd(p) /\ dest[p] = hd(p) + 1
    OBVIOUS
  <2> HIDE DEF hd, head, dest, P, al, l, k
  <2>3. \A p, q \in P : head[p] = head[q] => p = q
    <3> SUFFICES ASSUME NEW p \in P, NEW q \in P, head[p] = head[q] PROVE p = q
      OBVIOUS
    <3>1. hd(p) \in {hd(p), hd(p) + 1} \cap {hd(q), hd(q) + 1}
      BY <2>2
    <3> QED
      BY <2>1, <3>1
  <2>4. \A p, q \in P : dest[p] = dest[q] => p = q
    <3> SUFFICES ASSUME NEW p \in P, NEW q \in P, dest[p] = dest[q] PROVE p = q
      OBVIOUS
    <3>1. hd(p) + 1 \in {hd(p), hd(p) + 1} \cap {hd(q), hd(q) + 1}
      BY <2>2
    <3> QED
      BY <2>1, <3>1
  <2>5. \A p \in P :
          /\ head[p] \in TradeIds \ {n} /\ dest[p] \in TradeIds \ {n}
          /\ trades'[head[p]] = BuyRow(l, trades[p].account, Terms[a].date, al[p], a)
          /\ trades'[dest[p]] = BuyRow(Terms[a].dest, trades[p].account,
                                       Terms[a].date, al[p] * k, a)
    BY <2>1, <2>2
  <2>6. \A i \in TradeIds :
          \/ i = n \/ (\E p \in P : i = head[p]) \/ (\E p \in P : i = dest[p])
          \/ trades'[i] = trades[i]
    BY <2>1, <2>2
  <2> QED
    BY <2>1, <2>3, <2>4, <2>5, <2>6
<1>4. /\ ClosingSell(a) \in Trade
      /\ al \in [TradeIds -> Nat]
      /\ \A p \in P : al[p] \in Nat \ {0} /\ trades[p].account \in Accounts
      /\ P \in SUBSET TradeIds
  BY <1>2, ClosingFacts, OpenParcelsAreIds DEF Whole, MayDraw
<1>5. /\ l \in Listings /\ Terms[a].dest \in Listings \ {l}
      /\ k \in Nat \ {0} /\ Terms[a].date \in Dates /\ a \in Provenance
  BY <1>2, TermsAssumption DEF Provenance
<1>6. Lines(al) = P /\ Total(al) = SumOver(al, P)
  BY <1>4, ClosingTotal
<1>7. /\ trades'[n].type = "Sell" /\ trades'[n].by = a /\ trades'[n].qty = Total(al)
      /\ trades'[n] # None
  BY <1>3, <1>4, RowFields, NoneIsNoRow DEF ClosingSell
<1> HIDE DEF P, al, head, dest, l, k
<1>8. ASSUME NEW p \in P
      PROVE  /\ trades'[head[p]].type = "Buy" /\ trades'[head[p]].by = a
             /\ trades'[head[p]].listing = l
             /\ trades'[head[p]].qty = al[p]
             /\ trades'[head[p]] # None
             /\ trades'[dest[p]].type = "Buy" /\ trades'[dest[p]].by = a
             /\ trades'[dest[p]].listing = Terms[a].dest
             /\ trades'[dest[p]].qty = k * al[p]
             /\ trades'[dest[p]] # None
  <2>1. al[p] * k \in Nat \ {0} /\ al[p] * k = k * al[p]
    BY <1>4, <1>5, ProductPositive
  <2>2. trades'[dest[p]] # None
    BY <2>1, <1>3, <1>4, <1>5, BuyRowTyped
  <2>3. trades'[head[p]] # None
    BY <1>3, <1>4, <1>5, BuyRowTyped
  <2> QED
    BY <2>1, <2>2, <2>3, <1>3, RowFields
<1>9. \A i \in TradeIds :
        (trades'[i] # None /\ trades'[i].by = a) <=> (i = n \/ i \in H \/ i \in D)
  BY <1>2, <1>3, <1>7, <1>8 DEF Group
<1>10. (Group(a) \cap Sells)' = {n}
  <2>1. \A i \in TradeIds :
          (trades'[i] # None /\ trades'[i].by = a /\ trades'[i].type = "Sell") <=> i = n
    BY <1>3, <1>7, <1>8, <1>9
  <2> QED
    BY <2>1, <1>3 DEF Group, Sells, IsSell
<1>11. (Group(a) \cap Buys)' = H \cup D
  <2>1. \A i \in TradeIds :
          (trades'[i] # None /\ trades'[i].by = a /\ trades'[i].type = "Buy")
            <=> (i \in H \/ i \in D)
    BY <1>3, <1>7, <1>8, <1>9
  <2>2. \A i : i \in (Group(a) \cap Buys)' <=> i \in TradeIds /\ (i \in H \/ i \in D)
    <3> HIDE DEF H, D
    <3> QED
      BY <2>1 DEF Group, Buys, IsBuy
  <2>3. H \cup D \subseteq TradeIds
    BY <1>3
  <2> HIDE DEF H, D
  <2> QED
    BY <2>2, <2>3
<1>12. /\ {i \in H \cup D : trades'[i].listing # Terms[a].listing} = D
       /\ H \cap D = {}
  BY <1>5, <1>8 DEF l
<1>13. /\ IsFiniteSet(H) /\ Cardinality(H) = Cardinality(P)
       /\ IsFiniteSet(D) /\ Cardinality(D) = Cardinality(P)
       /\ IsFiniteSet(P)
  <2>1. /\ IsFiniteSet(P)
        /\ \A p, q \in P : head[p] = head[q] => p = q
        /\ \A p, q \in P : dest[p] = dest[q] => p = q
    BY <1>3, <1>4, TradeIdsFinite, FS_Subset
  <2> QED
    BY <2>1, ImageSize
<1>14. Cardinality(H \cup D) = 2 * Cardinality(P)
  <2> HIDE DEF H, D
  <2>1. Cardinality(H \cup D) = Cardinality(H) + Cardinality(D) - Cardinality(H \cap D)
    BY <1>13, FS_Union
  <2>2. Cardinality(H \cap D) = 0
    BY <1>12, FS_EmptySet
  <2>3. Cardinality(P) \in Nat
    BY <1>13, FS_CardinalityType
  <2> QED
    BY <2>1, <2>2, <2>3, <1>13
<1>15. SumOver([i \in D |-> trades'[i].qty], D) = k * SumOver(al, P)
  <2> DEFINE g == [i \in D |-> trades'[i].qty]
             h == [p \in P |-> k * al[p]]
  <2>1. /\ \A p \in P : al[p] \in Int /\ h[p] = k * al[p]
        /\ \A p \in P : g[dest[p]] = h[p]
        /\ k \in Int
    BY <1>4, <1>5, <1>8
  <2>2. \A p, q \in P : dest[p] = dest[q] => p = q
    BY <1>3
  <2> HIDE DEF g, h
  <2>4. \A p \in P : h[p] \in Int /\ g[dest[p]] = h[p]
    BY <2>1
  <2>5. SumOver(g, {dest[p] : p \in P}) = SumOver(h, P)
    BY <1>13, <2>2, <2>4, SumReindex
  <2>6. SumOver(h, P) = k * SumOver(al, P)
    BY <2>1, <1>13, SumTimes
  <2> HIDE DEF D
  <2> QED
    BY <2>5, <2>6 DEF g, D
<1>16. SumOver([i \in H |-> trades'[i].qty], H) = SumOver(al, P)
  <2> DEFINE g == [i \in H |-> trades'[i].qty]
  <2>1. \A p \in P : al[p] \in Int /\ g[head[p]] = al[p]
    BY <1>4, <1>8
  <2>2. \A p, q \in P : head[p] = head[q] => p = q
    BY <1>3
  <2> HIDE DEF g
  <2>3. SumOver(g, {head[p] : p \in P}) = SumOver(al, P)
    BY <1>13, <2>1, <2>2, SumReindex
  <2> HIDE DEF H
  <2> QED
    BY <2>3 DEF g, H
<1>17. {p \in TradeIds : allocs'[n][p] > 0} = P
  BY <1>2, <1>3, <1>6 DEF Lines, Allocated, Whole, IInv, TypeOK
<1>18. SumOver([i \in D |-> trades'[i].qty], D) = Terms[a].ratio * trades'[n].qty
  BY <1>6, <1>7, <1>15 DEF k
<1>19. SumOver([i \in H |-> trades'[i].qty], H) = trades'[n].qty
  BY <1>6, <1>7, <1>16
<1> HIDE DEF H, D
<1> DEFINE N == H \cup D
<1>20. N \ D = H /\ N = H \cup D
  BY <1>12
<1>21. SumOver([i \in N \ D |-> trades'[i].qty], N \ D) = trades'[n].qty
  BY <1>19, <1>20
<1> HIDE DEF N
<1> QED
  BY <1>2, <1>10, <1>11, <1>12, <1>14, <1>17, <1>18, <1>20, <1>21, IssuedAfter

\* Recognising worthless shares writes the closing Sell and nothing else.
LEMMA RecogniseMakesWhole ==
  ASSUME Whole, NEW a \in Actions, NEW n \in NextIds, Recognise(a, n)
  PROVE  OperationWhole(a)'
<1>1. /\ Terms[a].kind = "worthless" /\ Group(a) = {}
      /\ SellAllowed(ClosingSell(a), ClosingLines(Terms[a].listing), SoldByOthers(n))
      /\ trades' = [trades EXCEPT ![n] = ClosingSell(a)]
  BY DEF Recognise, Executable
<1>2. n \in TradeIds
  BY NextIdFresh DEF Whole, IInv
<1>3. ClosingSell(a) \in Trade
  BY <1>1, ClosingFacts DEF Whole
<1>4. /\ trades'[n] = ClosingSell(a)
      /\ \A i \in TradeIds \ {n} : trades'[i] = trades[i]
  BY <1>1, <1>2 DEF Whole, IInv, TypeOK
<1>5. trades'[n].type = "Sell" /\ trades'[n].by = a /\ trades'[n] # None
  BY <1>3, <1>4, RowFields, NoneIsNoRow DEF ClosingSell
<1>6. (Group(a) \cap Sells)' = {n} /\ (Group(a) \cap Buys)' = {}
  BY <1>1, <1>2, <1>4, <1>5 DEF Group, Sells, Buys, IsSell, IsBuy
<1>7. {i \in {} : trades'[i].listing # Terms[a].listing} = {}
  OBVIOUS
<1> QED
  BY <1>1, <1>6, <1>7, IssuedAfter

\* The three operations write only rows of their own, the closing Sell at n.
LEMMA OperationLeaves ==
  ASSUME Whole, NEW a \in Actions, NEW n \in NextIds,
         Exchange(a, n) \/ Demerge(a, n) \/ Recognise(a, n)
  PROVE  /\ n \in TradeIds /\ trades[n] = None
         /\ \A i \in TradeIds : trades[i] # None => trades'[i] = trades[i]
         /\ \A i \in TradeIds : trades'[i] = trades[i] \/ trades'[i].by = a
         /\ \A s \in TradeIds \ {n} : allocs'[s] = allocs[s]
         /\ transfers' = transfers /\ dividends' = dividends
         /\ Terms[a].kind # "buyback"
<1>1. /\ transfers' = transfers /\ dividends' = dividends
      /\ allocs' = Allocated(n, ClosingLines(Terms[a].listing))
      /\ Terms[a].kind # "buyback"
  BY DEF Exchange, Demerge, Recognise
<1>2. \A s \in TradeIds \ {n} : allocs'[s] = allocs[s]
  BY <1>1 DEF Allocated
<1>3. ClosingSell(a).by = a
  BY RowFields DEF ClosingSell
<1>4. /\ n \in TradeIds /\ trades[n] = None
      /\ \A i \in TradeIds : trades[i] # None => trades'[i] = trades[i]
      /\ \A i \in TradeIds : trades'[i] = trades[i] \/ trades'[i].by = a
  <2> DEFINE P == OpenParcels(Terms[a].listing)
             al == ClosingLines(Terms[a].listing)
  <2>1. CASE Exchange(a, n)
    <3> DEFINE in(p) == n + Place(P, p)
    <3>1. ExchangeWrote(a, n)
      BY <2>1, ExchangeRows DEF Whole
    <3>2. /\ n \in TradeIds /\ trades[n] = None /\ trades'[n] = ClosingSell(a)
          /\ \A i \in TradeIds : trades[i] # None => trades'[i] = trades[i]
          /\ \A p \in P : trades'[in(p)].by = a
          /\ \A i \in TradeIds : i = n \/ (\E p \in P : i = in(p)) \/ trades'[i] = trades[i]
      BY <3>1, RowFields DEF ExchangeWrote
    <3> HIDE DEF P, in
    <3> QED
      BY <3>2, <1>3
  <2>2. CASE Demerge(a, n)
    <3> DEFINE head(p) == n + 2 * Place(P, p) - 1
    <3>1. DemergeWrote(a, n)
      BY <2>2, DemergeRows DEF Whole
    <3>2. /\ n \in TradeIds /\ trades[n] = None /\ trades'[n] = ClosingSell(a)
          /\ \A i \in TradeIds : trades[i] # None => trades'[i] = trades[i]
          /\ \A p \in P : trades'[head(p)].by = a /\ trades'[head(p) + 1].by = a
          /\ \A i \in TradeIds :
               i = n \/ (\E p \in P : i \in {head(p), head(p) + 1}) \/ trades'[i] = trades[i]
      BY <3>1, RowFields DEF DemergeWrote
    <3> HIDE DEF P, head
    <3> QED
      BY <3>2, <1>3
  <2>3. CASE Recognise(a, n)
    BY <2>3, <1>3, NextIdFresh DEF Recognise, Whole, IInv, TypeOK
  <2> QED
    BY <2>1, <2>2, <2>3
<1> QED
  BY <1>1, <1>2, <1>4

\* An operation keeps every group whole, its own included.
LEMMA OperationStepWhole ==
  ASSUME Whole, NEW a \in Actions, NEW n \in NextIds,
         Exchange(a, n) \/ Demerge(a, n) \/ Recognise(a, n)
  PROVE  TransfersWhole' /\ OperationsWhole'
<1>1. /\ n \in TradeIds /\ trades[n] = None
      /\ \A i \in TradeIds : trades[i] # None => trades'[i] = trades[i]
      /\ \A i \in TradeIds : trades'[i] = trades[i] \/ trades'[i].by = a
      /\ \A s \in TradeIds \ {n} : allocs'[s] = allocs[s]
      /\ transfers' = transfers /\ dividends' = dividends
      /\ Terms[a].kind # "buyback"
  BY OperationLeaves
<1>2. TransfersWhole' /\ \A b \in Actions \ {a} : OperationWhole(b)'
  BY <1>1, OthersKept
<1>3. OperationWhole(a)'
  BY ExchangeMakesWhole, DemergeMakesWhole, RecogniseMakesWhole
<1>4. dividends' = {s \in Sells : PaysDividend(s)}'
  <2>1. \A s \in TradeIds : trades'[s] = trades[s] \/ (~IsSell(s) /\ ~PaysDividend(s)')
    BY <1>1 DEF IsSell, PaysDividend
  <2> QED
    BY <1>1, <2>1, DividendsKept
<1> QED
  BY <1>2, <1>3, <1>4 DEF OperationsWhole

\* A participation pays a dividend exactly when the buy-back has one.
LEMMA ParticipateWhole ==
  ASSUME Whole, NEW a \in Actions, NEW n \in NextIds, NEW ac \in Accounts,
         NEW d \in Dates, NEW al, Participate(a, n, ac, d, al)
  PROVE  TransfersWhole' /\ OperationsWhole'
<1> DEFINE r == SellRow(Terms[a].listing, ac, d, Total(al), a)
<1>1. /\ Terms[a].kind = "buyback"
      /\ SellAllowed(r, al, SoldByOthers(n))
      /\ trades' = [trades EXCEPT ![n] = r]
      /\ allocs' = Allocated(n, al)
      /\ dividends' = IF Terms[a].dividend THEN dividends \cup {n} ELSE dividends
      /\ transfers' = transfers
  BY DEF Participate
<1>2. n \in TradeIds /\ trades[n] = None
  BY NextIdFresh DEF Whole, IInv
<1>3. /\ trades'[n] = r
      /\ \A i \in TradeIds \ {n} : trades'[i] = trades[i]
      /\ \A s \in TradeIds \ {n} : allocs'[s] = allocs[s]
  BY <1>1, <1>2 DEF Whole, IInv, TypeOK, Allocated
<1>4. r \in Trade
  <2>1. Terms[a].listing \in Listings /\ a \in Provenance
    BY TermsAssumption DEF Provenance
  <2> DEFINE l == Terms[a].listing
  <2>2. SellAllowed(SellRow(l, ac, d, Total(al), a), al, SoldByOthers(n))
    BY <1>1
  <2> HIDE DEF l
  <2>3. MayDraw(l, ac, d, a, al)
    BY <2>1, <2>2, SellAllowedFacts DEF l
  <2> QED
    BY <2>1, <2>3, SellRowTyped DEF MayDraw, l
<1>5. r.type = "Sell" /\ r.by = a /\ r # None
  BY <1>4, RowFields, NoneIsNoRow
<1> HIDE DEF r
<1>6. TransfersWhole' /\ \A b \in Actions \ {a} : OperationWhole(b)'
  BY <1>1, <1>2, <1>3, <1>5, OthersKept
<1>7. OperationWhole(a)'
  BY <1>1 DEF OperationWhole, WholeHoldingKinds
<1>8. dividends' = {s \in Sells : PaysDividend(s)}'
  <2>1. \A s \in TradeIds \ {n} :
          (IsSell(s) /\ PaysDividend(s))' <=> (IsSell(s) /\ PaysDividend(s))
    BY <1>3 DEF IsSell, PaysDividend
  <2>2. (IsSell(n) /\ PaysDividend(n))' <=> Terms[a].dividend
    BY <1>1, <1>3, <1>5 DEF IsSell, PaysDividend
  <2>3. ~IsSell(n)
    BY <1>2 DEF IsSell
  <2>4. dividends = {s \in Sells : PaysDividend(s)}
    BY DEF Whole, OperationsWhole
  <2>5. \A s : s \in dividends <=> s \in TradeIds /\ IsSell(s) /\ PaysDividend(s)
    BY <2>4 DEF Sells
  <2>6. \A s : s \in dividends' <=> s \in dividends \/ (s = n /\ Terms[a].dividend)
    BY <1>1
  <2>7. \A s : s \in dividends' <=> s \in TradeIds /\ (IsSell(s) /\ PaysDividend(s))'
    BY <1>2, <2>1, <2>2, <2>3, <2>5, <2>6
  <2>8. \A s : s \in {x \in Sells : PaysDividend(x)}' <=> s \in TradeIds /\ (IsSell(s) /\ PaysDividend(s))'
    BY DEF Sells
  <2> QED
    BY <2>7, <2>8
<1> QED
  BY <1>6, <1>7, <1>8 DEF OperationsWhole

-----------------------------------------------------------------------------
(* The invariant, and the theorems.                                        *)

\* An empty ledger has no group to break.
LEMMA InitWhole == Init => Whole
<1> SUFFICES ASSUME Init PROVE TransfersWhole /\ OperationsWhole
  BY InitIInv DEF Whole
<1>1. /\ \A i \in TradeIds : trades[i] = None
      /\ \A t \in TransferIds : transfers[t] = None
      /\ dividends = {}
  BY DEF Init
<1>2. \A x : Group(x) = {}
  BY <1>1 DEF Group
<1>3. Sells = {}
  BY <1>1 DEF Sells, IsSell
<1> QED
  BY <1>1, <1>2, <1>3 DEF TransfersWhole, TransferWhole, OperationsWhole, OperationWhole

\* A step that writes nothing breaks nothing.
LEMMA StutterWhole ==
  ASSUME Whole, UNCHANGED vars
  PROVE  TransfersWhole' /\ OperationsWhole'
<1>1. /\ trades' = trades /\ allocs' = allocs
      /\ transfers' = transfers /\ dividends' = dividends
  BY DEF vars
<1>2. ASSUME NEW t \in TransferIds PROVE TransferWhole(t)'
  BY <1>1, TransferKept DEF Apart
<1>3. ASSUME NEW a \in Actions PROVE OperationWhole(a)'
  BY <1>1, OperationKept DEF Apart
<1>4. dividends' = {s \in Sells : PaysDividend(s)}'
  BY <1>1, DividendsKept
<1> QED
  BY <1>2, <1>3, <1>4 DEF TransfersWhole, OperationsWhole

\* Every step of the ledger keeps every transfer and operation whole.
LEMMA NextWhole == Whole /\ [Next]_vars => Whole'
<1> SUFFICES ASSUME Whole, [Next]_vars PROVE TransfersWhole' /\ OperationsWhole'
  BY NextIInv DEF Whole
<1>1. CASE ActionStep
  <2>1. PICK a \in Actions, n \in NextIds :
          \/ Exchange(a, n) \/ Demerge(a, n) \/ Recognise(a, n)
          \/ \E ac \in Accounts, d \in Dates, al \in AllocationBodies(Terms[a].listing) :
               Participate(a, n, ac, d, al)
    BY <1>1 DEF ActionStep
  <2> QED
    BY <2>1, OperationStepWhole, ParticipateWhole
<1>2. CASE UNCHANGED vars
  BY <1>2, StutterWhole
<1> QED
  BY <1>1, <1>2, TradeStepWhole, SellStepWhole, TransferStepWhole DEF Next

\* In every behaviour of the ledger a transfer on record is a closing Sell, one
\* Buy per line of it in the other account with the same units in total, and
\* its fee sale, all of the same day; a deleted one left nothing behind.  The
\* ordinary endpoints cannot take part of it away (provenance::deleted_alone,
\* sell::db_delete's and EditSell's guards, transfer::db_delete).
THEOREM TransfersStayWhole == Spec => []TransfersWhole
<1>1. Whole => TransfersWhole
  BY DEF Whole
<1> QED
  BY InitWhole, NextWhole, <1>1, PTL DEF Spec

\* In every behaviour of the ledger an executed exchange or demerger has all the
\* replacements it issued, in the action's ratio to what it closed, until its
\* closing Sell is deleted and takes them all; a buy-back Sell has its dividend
\* row exactly when the action pays one.
THEOREM OperationsStayWhole == Spec => []OperationsWhole
<1>1. Whole => OperationsWhole
  BY DEF Whole
<1> QED
  BY InitWhole, NextWhole, <1>1, PTL DEF Spec
=============================================================================
