----------------------------- MODULE RecordsProofs -----------------------------
(***************************************************************************)
(* Proofs about components that share no state: Drp, where the residual of *)
(* every reinvestment is split as its period and its place in the chain    *)
(* say, and what one carries is what the next brings forward; and          *)
(* AmitGeneration, whose rows keep reaching units of their statement's     *)
(* holding, and which places every unit of a statement.  MCRecords puts    *)
(* them beside the two components of GainsProofs.                          *)
(*                                                                         *)
(* Every write of Drp re-derives at most one chain.  So the argument is    *)
(* about one chain at a time: what a re-derivation makes of it, and that   *)
(* it leaves the others alone.                                             *)
(***************************************************************************)
EXTENDS MCRecords, GainsProofs, SetTheorems, FiniteSetTheorems, TLAPS

-----------------------------------------------------------------------------
(* The tables. *)

Figures == 0 .. (UnitPrice - 1)

DrpTrade == [id : Nat \ {0}, date : DrpDates, bf : Figures, carried : Figures, paid : Figures]

IncomeRow == [ex : DrpDates, cash : Cash, trade : Nat] \cup {NoDistribution}

\* Ids are not shared, and a trade and the distribution it reinvests go together.
Linked(inc, trs) ==
    /\ \A s, t \in trs : s.id = t.id => s = t
    /\ \A i \in Distributions : inc[i].trade # 0 => \E t \in trs : t.id = inc[i].trade
    /\ \A t \in trs : \E i \in Distributions : inc[i].trade = t.id
    /\ \A i, j \in Distributions : inc[i].trade = inc[j].trade /\ inc[i].trade # 0 => i = j

\* A leftover buys no whole unit.
Leftovered(trs) == \A t \in trs : Leftover(t) \in Figures

Tables(inc, trs) ==
    /\ inc \in [Distributions -> IncomeRow]
    /\ trs \in SUBSET DrpTrade /\ IsFiniteSet(trs)
    /\ Linked(inc, trs)
    /\ Leftovered(trs)

\* Of two trades with ids of their own one comes before the other.
LEMMA BeforeTotal ==
    ASSUME NEW trs \in SUBSET DrpTrade, \A s, t \in trs : s.id = t.id => s = t
    PROVE  /\ \A s, t \in trs : s = t \/ Before(s, t) \/ Before(t, s)
           /\ \A s, t \in trs : ~(Before(s, t) /\ Before(t, s))
           /\ \A s, t, u \in trs : Before(s, t) /\ Before(t, u) => Before(s, u)
<1>1. \A t \in trs : t.id \in Int /\ t.date \in Int
  BY DEF DrpTrade, DrpDates
<1> QED
  BY <1>1 DEF Before

\* A chain that is not empty has one last trade.
LEMMA OneTail ==
    ASSUME NEW trs \in SUBSET DrpTrade, \A s, t \in trs : s.id = t.id => s = t,
           IsFiniteSet(trs), NEW chain \in SUBSET trs, chain # {}
    PROVE  \E t \in chain : IsTail(t, chain) /\ \A s \in chain : IsTail(s, chain) => s = t
<1> DEFINE cut == [y \in chain |-> {x \in chain : Before(y, x)}]
<1>1. IsFiniteSet(chain)
  BY FS_Subset
<1>2. HasLeast(chain, cut)
  <2>1. Cuts(chain, cut)
    BY DEF Cuts
  <2> HIDE DEF cut
  <2> QED
    BY <1>1, <2>1, LeastCut
<1>3. PICK m \in chain : \A y \in chain : cut[y] \subseteq cut[m] => cut[y] = cut[m]
  BY <1>2 DEF HasLeast
<1>4. ASSUME NEW y \in chain, Before(m, y) PROVE FALSE
  <2>1. cut[y] \subseteq cut[m]
    BY <1>4, BeforeTotal
  <2>2. y \in cut[m] /\ y \notin cut[y]
    BY <1>4, BeforeTotal
  <2> QED
    BY <1>3, <2>1, <2>2
<1>5. IsTail(m, chain)
  BY <1>4 DEF IsTail
<1>6. \A s \in chain : IsTail(s, chain) => s = m
  BY <1>5, BeforeTotal DEF IsTail
<1> QED
  BY <1>5, <1>6

\* A trade is in the chain of one period.
LEMMA OneChain ==
    ASSUME NEW inc, NEW trs, Tables(inc, trs), NEW p \in Period, NEW q \in Period,
           ~Overlaps(p, q), NEW s \in Covered(inc, trs, p), NEW t \in Covered(inc, trs, q)
    PROVE  s.id # t.id
<1> SUFFICES ASSUME s.id = t.id PROVE FALSE
  OBVIOUS
<1>1. PICK i \in Distributions : inc[i].trade = s.id /\ Covers(p, inc[i].ex)
  BY DEF Covered
<1>2. PICK j \in Distributions : inc[j].trade = t.id /\ Covers(q, inc[j].ex)
  BY DEF Covered
<1>3. s.id # 0
  BY DEF Covered, Tables, DrpTrade
<1>4. i = j
  BY <1>1, <1>2, <1>3 DEF Tables, Linked
<1>5. inc[i].ex \in Int /\ {p.start, p.end, q.start, q.end} \subseteq Int
  BY DEF Tables, IncomeRow, NoDistribution, DrpDates, Open, Period
<1> QED
  BY <1>1, <1>2, <1>4, <1>5 DEF Covers, Overlaps

-----------------------------------------------------------------------------
(* What re-deriving the residuals leaves as it was. *)

\* Every trade of new is one of trs with its leftover split anew.
SamePlace(x, y) ==
    x.id = y.id /\ x.date = y.date /\ x.bf = y.bf /\ Leftover(x) = Leftover(y)

Told(f, trs) == {f[y] : y \in trs}

Retold(f, trs, new) ==
    /\ new = Told(f, trs)
    /\ \A y \in trs : f[y] \in DrpTrade /\ SamePlace(f[y], y)

\* The two halves of a split make up the leftover, and are a trade's columns.
LEMMA RederivedFacts ==
    ASSUME NEW t \in DrpTrade, Leftover(t) \in Figures, NEW p, NEW chain
    PROVE  /\ Rederived(t, p, chain) \in DrpTrade
           /\ SamePlace(Rederived(t, p, chain), t)
           /\ [carried |-> Rederived(t, p, chain).carried, paid |-> Rederived(t, p, chain).paid]
                 = ResidualSplit(p, Leftover(t), IsTail(t, chain))
<1>1. PICK left \in Figures : left = Leftover(t)
  OBVIOUS
<1>2. 0 \in Figures /\ Figures \subseteq Int
  BY DrpAssumption DEF Figures
<1>3. PICK split \in [carried : Figures, paid : Figures] :
         /\ split = ResidualSplit(p, left, IsTail(t, chain))
         /\ split.carried + split.paid = left
         /\ split = [carried |-> split.carried, paid |-> split.paid]
  <2>1. /\ [carried |-> 0, paid |-> left] \in [carried : Figures, paid : Figures]
        /\ [carried |-> left, paid |-> 0] \in [carried : Figures, paid : Figures]
        /\ 0 + left = left /\ left + 0 = left
    BY <1>2
  <2> QED
    BY <2>1 DEF ResidualSplit
<1>4. Rederived(t, p, chain) = [t EXCEPT !.carried = split.carried, !.paid = split.paid]
  BY <1>1, <1>3 DEF Rederived
<1> QED
  BY <1>1, <1>3, <1>4 DEF SamePlace, Leftover, DrpTrade

\* recompute_residuals re-derives one chain and nothing else.
LEMMA RecomputeRetells ==
    ASSUME NEW inc, NEW trs, Tables(inc, trs), NEW p
    PROVE  \E f : /\ Retold(f, trs, RecomputeResiduals(inc, trs, p))
                  /\ \A y \in Covered(inc, trs, p) :
                        f[y] = Rederived(y, p, Covered(inc, trs, p))
                  /\ \A y \in trs \ Covered(inc, trs, p) : f[y] = y
<1> DEFINE chain == Covered(inc, trs, p)
           f == [y \in trs |-> IF y \in chain THEN Rederived(y, p, chain) ELSE y]
<1>1. chain \subseteq trs
  BY DEF Covered
<1> HIDE DEF chain
<1>2. RecomputeResiduals(inc, trs, p) = (trs \ chain) \cup {Rederived(t, p, chain) : t \in chain}
  BY DEF RecomputeResiduals, chain
<1>3. RecomputeResiduals(inc, trs, p) = {f[y] : y \in trs}
  BY <1>1, <1>2
<1>4. ASSUME NEW y \in trs PROVE f[y] \in DrpTrade /\ SamePlace(f[y], y)
  <2>1. y \in DrpTrade /\ Leftover(y) \in Figures
    BY DEF Tables, Leftovered
  <2> QED
    BY <2>1, RederivedFacts DEF SamePlace
<1>5. Retold(f, trs, RecomputeResiduals(inc, trs, p))
  BY <1>3, <1>4 DEF Retold, Told
<1>6. /\ \A y \in chain : f[y] = Rederived(y, p, chain)
      /\ \A y \in trs \ chain : f[y] = y
  BY <1>1
<1> HIDE DEF f
<1> QED
  BY <1>5, <1>6 DEF chain

\* Trades keep their chains and their places in them.
LEMMA RetoldFacts ==
    ASSUME NEW inc, NEW trs, NEW new, Tables(inc, trs), NEW f, Retold(f, trs, new), NEW p
    PROVE  /\ Covered(inc, new, p) = Told(f, Covered(inc, trs, p))
           /\ \A x, y \in trs : Before(f[x], f[y]) <=> Before(x, y)
           /\ \A y \in trs : IsTail(f[y], Covered(inc, new, p))
                                <=> IsTail(y, Covered(inc, trs, p))
           /\ \A x, y \in trs : Neighbours(f[x], f[y], Covered(inc, new, p))
                                   <=> Neighbours(x, y, Covered(inc, trs, p))
<1>1. Covered(inc, trs, p) \subseteq trs
  BY DEF Covered
<1>2. Covered(inc, new, p) = {f[y] : y \in Covered(inc, trs, p)}
  BY DEF Retold, Told, SamePlace, Covered
<1>3. \A x, y \in trs : Before(f[x], f[y]) <=> Before(x, y)
  BY DEF Retold, Told, SamePlace, Before
<1>4. \A y \in trs : IsTail(f[y], Covered(inc, new, p)) <=> IsTail(y, Covered(inc, trs, p))
  BY <1>1, <1>2, <1>3 DEF IsTail
<1>5. \A x, y \in trs : Neighbours(f[x], f[y], Covered(inc, new, p))
                           <=> Neighbours(x, y, Covered(inc, trs, p))
  BY <1>1, <1>2, <1>3 DEF Neighbours
<1> QED
  BY <1>2, <1>3, <1>4, <1>5 DEF Told

\* The tables stay linked.
LEMMA RetoldTables ==
    ASSUME NEW inc, NEW trs, NEW new, Tables(inc, trs), NEW f, Retold(f, trs, new)
    PROVE  Tables(inc, new) /\ Ids(new) = Ids(trs)
<1>1. new \in SUBSET DrpTrade
  BY DEF Retold, Told
<1>2. IsFiniteSet(new)
  <2>1. \A x \in new : \E y \in trs : x = f[y]
    BY DEF Retold, Told
  <2>2. PICK g \in [trs -> new] : \A y \in trs : g[y] = f[y]
    <3>1. [y \in trs |-> f[y]] \in [trs -> new]
      BY DEF Retold, Told
    <3> QED
      BY <3>1
  <2>3. g \in Surjection(trs, new)
    BY <2>1, <2>2 DEF Surjection
  <2> QED
    BY <2>3, FS_Surjection DEF Tables
<1>3. Linked(inc, new)
  <2>1. \A x, y \in trs : f[x].id = f[y].id => x = y
    BY DEF Retold, Told, SamePlace, Tables, Linked
  <2>2. \A s, t \in new : s.id = t.id => s = t
    BY <2>1 DEF Retold, Told
  <2>3. /\ \A i \in Distributions : inc[i].trade # 0 => \E t \in new : t.id = inc[i].trade
        /\ \A t \in new : \E i \in Distributions : inc[i].trade = t.id
    BY DEF Retold, Told, SamePlace, Tables, Linked
  <2> QED
    BY <2>2, <2>3 DEF Tables, Linked
<1>4. Leftovered(new)
  BY DEF Retold, Told, SamePlace, Tables, Leftovered
<1>5. Ids(new) = Ids(trs)
  BY DEF Retold, Told, SamePlace, Ids
<1> QED
  BY <1>1, <1>2, <1>3, <1>4, <1>5 DEF Tables

-----------------------------------------------------------------------------
(* What is right about one chain, and a write of it. *)

SplitAs(t, p, isTail) ==
    [carried |-> t.carried, paid |-> t.paid] = ResidualSplit(p, Leftover(t), isTail)

\* ChainConserved and SplitDerived of one period, and that what an undo leaves
\* underived is the last of its chain: a neighbour before another is always
\* derived.
ChainOK(chain, resh, und, p) ==
    /\ \A s, t \in chain : Neighbours(s, t, chain) /\ {s.id, t.id} \cap resh = {}
                              => t.bf = s.carried
    /\ \A t \in chain : t.id \notin und => SplitAs(t, p, IsTail(t, chain))
    /\ \A t \in chain : t.id \in und => IsTail(t, chain)

\* What the chain would carry when derived for period p is what it brings forward.
Brings(chain, resh, p) ==
    \A s, t \in chain : Neighbours(s, t, chain) /\ {s.id, t.id} \cap resh = {}
        => t.bf = ResidualSplit(p, Leftover(s), FALSE).carried

\* A split depends on whether the trade is the last.
LEMMA SameSplit ==
    ASSUME NEW p, NEW left, NEW a, NEW b, a <=> b
    PROVE  ResidualSplit(p, left, a) = ResidualSplit(p, left, b)
BY DEF ResidualSplit, Refunded

\* A chain that is right brings forward what any period with the same handling
\* would have it carry, wherever that period ends.
LEMMA ChainBrings ==
    ASSUME NEW chain, NEW resh, NEW und, NEW old, NEW p, ChainOK(chain, resh, und, old),
           old.handling = p.handling
    PROVE  Brings(chain, resh, p)
<1> SUFFICES ASSUME NEW s \in chain, NEW t \in chain, Neighbours(s, t, chain),
                    {s.id, t.id} \cap resh = {}
             PROVE  t.bf = ResidualSplit(p, Leftover(s), FALSE).carried
  BY DEF Brings
<1>1. ~IsTail(s, chain)
  BY DEF Neighbours, IsTail
<1>2. s.id \notin und
  BY <1>1 DEF ChainOK
<1>3. t.bf = s.carried
  BY DEF ChainOK
<1>4. [carried |-> s.carried, paid |-> s.paid] = ResidualSplit(old, Leftover(s), FALSE)
  <2>1. SplitAs(s, old, IsTail(s, chain))
    BY <1>2 DEF ChainOK
  <2>2. ResidualSplit(old, Leftover(s), IsTail(s, chain)) = ResidualSplit(old, Leftover(s), FALSE)
    BY <1>1, SameSplit
  <2> QED
    BY <2>1, <2>2 DEF SplitAs
<1>5. ResidualSplit(old, Leftover(s), FALSE) = ResidualSplit(p, Leftover(s), FALSE)
  BY DEF ResidualSplit, Refunded
<1>6. s.carried = [carried |-> s.carried, paid |-> s.paid].carried
  OBVIOUS
<1> QED
  BY <1>3, <1>4, <1>5, <1>6

\* Re-derivation makes its chain right.
LEMMA RecomputedChain ==
    ASSUME NEW inc, NEW trs, Tables(inc, trs), NEW p, NEW resh, NEW und,
           \A t \in Covered(inc, trs, p) : t.id \notin und,
           Brings(Covered(inc, trs, p), resh, p)
    PROVE  ChainOK(Covered(inc, RecomputeResiduals(inc, trs, p), p), resh, und, p)
<1>1. PICK chain \in SUBSET trs : chain = Covered(inc, trs, p)
  BY DEF Covered
<1>2. PICK new : new = RecomputeResiduals(inc, trs, p)
  OBVIOUS
<1>3. PICK f : Retold(f, trs, new) /\ \A y \in chain : f[y] = Rederived(y, p, chain)
  BY <1>1, <1>2, RecomputeRetells
<1>4. PICK after : after = Covered(inc, new, p)
  OBVIOUS
<1>5. /\ after = {f[y] : y \in chain}
      /\ \A y \in trs : IsTail(f[y], after) <=> IsTail(y, chain)
      /\ \A x, y \in trs : Neighbours(f[x], f[y], after) <=> Neighbours(x, y, chain)
  <2>1. /\ Covered(inc, new, p) = Told(f, Covered(inc, trs, p))
        /\ \A y \in trs : IsTail(f[y], Covered(inc, new, p))
                             <=> IsTail(y, Covered(inc, trs, p))
        /\ \A x, y \in trs : Neighbours(f[x], f[y], Covered(inc, new, p))
                                <=> Neighbours(x, y, Covered(inc, trs, p))
    BY <1>3, RetoldFacts
  <2> QED
    BY <1>1, <1>4, <2>1 DEF Told
<1>6. ASSUME NEW y \in chain
      PROVE  /\ f[y].id = y.id /\ f[y].bf = y.bf /\ Leftover(f[y]) = Leftover(y)
             /\ SplitAs(f[y], p, IsTail(y, chain))
             /\ f[y].carried = ResidualSplit(p, Leftover(y), IsTail(y, chain)).carried
  <2>1. y \in DrpTrade /\ Leftover(y) \in Figures
    BY <1>1 DEF Tables, Leftovered
  <2>2. SamePlace(f[y], y)
    BY <1>3, <2>1, RederivedFacts
  <2>3. [carried |-> f[y].carried, paid |-> f[y].paid]
           = ResidualSplit(p, Leftover(y), IsTail(y, chain))
    BY <1>3, <2>1, RederivedFacts
  <2>4. f[y].carried = [carried |-> f[y].carried, paid |-> f[y].paid].carried
    OBVIOUS
  <2> QED
    BY <2>2, <2>3, <2>4 DEF SamePlace, SplitAs
<1>7. ASSUME NEW x \in chain, NEW y \in chain, Neighbours(f[x], f[y], after),
             {f[x].id, f[y].id} \cap resh = {}
      PROVE  f[y].bf = f[x].carried
  <2>1. Neighbours(x, y, chain)
    BY <1>5, <1>7
  <2>2. ~IsTail(x, chain)
    BY <2>1 DEF Neighbours, IsTail
  <2>3. y.bf = ResidualSplit(p, Leftover(x), FALSE).carried
    BY <1>1, <1>6, <1>7, <2>1 DEF Brings
  <2>4. ResidualSplit(p, Leftover(x), IsTail(x, chain)) = ResidualSplit(p, Leftover(x), FALSE)
    BY <2>2, SameSplit
  <2> QED
    BY <1>6, <2>3, <2>4
<1>8. ASSUME NEW y \in chain PROVE SplitAs(f[y], p, IsTail(f[y], after))
  <2>1. IsTail(f[y], after) <=> IsTail(y, chain)
    BY <1>1, <1>5
  <2>2. ResidualSplit(p, Leftover(f[y]), IsTail(f[y], after))
           = ResidualSplit(p, Leftover(f[y]), IsTail(y, chain))
    BY <2>1, SameSplit
  <2> QED
    BY <1>6, <2>2 DEF SplitAs
<1>9. \A y \in chain : f[y].id \notin und
  BY <1>1, <1>6
<1>10. /\ \A s, t \in after : Neighbours(s, t, after) /\ {s.id, t.id} \cap resh = {}
                                   => t.bf = s.carried
       /\ \A t \in after : t.id \notin und /\ SplitAs(t, p, IsTail(t, after))
  <2>1. ASSUME NEW s \in after, NEW t \in after, Neighbours(s, t, after),
               {s.id, t.id} \cap resh = {}
        PROVE  t.bf = s.carried
    <3>1. PICK x \in chain, y \in chain : s = f[x] /\ t = f[y]
      BY <1>5
    <3> QED
      BY <1>7, <2>1, <3>1
  <2>2. ASSUME NEW t \in after
        PROVE  t.id \notin und /\ SplitAs(t, p, IsTail(t, after))
    <3>1. PICK y \in chain : t = f[y]
      BY <1>5
    <3> QED
      BY <1>8, <1>9, <3>1
  <2> QED
    BY <2>1, <2>2
<1> QED
  BY <1>2, <1>4, <1>10 DEF ChainOK

\* And leaves a chain that shares no trade with it alone.
LEMMA OtherChain ==
    ASSUME NEW inc, NEW trs, Tables(inc, trs), NEW p, NEW q,
           Covered(inc, trs, p) \cap Covered(inc, trs, q) = {}
    PROVE  Covered(inc, RecomputeResiduals(inc, trs, p), q) = Covered(inc, trs, q)
<1>0. PICK new : new = RecomputeResiduals(inc, trs, p)
  OBVIOUS
<1>1. PICK f : Retold(f, trs, new) /\ \A y \in trs \ Covered(inc, trs, p) : f[y] = y
  BY <1>0, RecomputeRetells
<1>2. Covered(inc, new, q) = Told(f, Covered(inc, trs, q))
  BY <1>1, RetoldFacts
<1>3. \A y \in Covered(inc, trs, q) : f[y] = y
  BY <1>1 DEF Covered
<1> QED
  BY <1>0, <1>2, <1>3 DEF Told

\* More trades may be reshaped, and others than the chain's undone.
LEMMA ChainKept ==
    ASSUME NEW chain, NEW resh, NEW und, NEW resh1, NEW und1, NEW p,
           ChainOK(chain, resh, und, p),
           \A t \in chain : /\ t.id \in resh => t.id \in resh1
                            /\ t.id \in und <=> t.id \in und1
    PROVE  ChainOK(chain, resh1, und1, p)
BY DEF ChainOK

ChainsOK(inc, trs, ps, resh, und) ==
    \A q \in ps : ChainOK(Covered(inc, trs, q), resh, und, q)

\* A write that re-derives the chain of p, which overlaps no other period.
Derives(inc, trs, p, others, resh, und, resh1, und1, new) ==
    /\ p \in Period /\ others \in SUBSET Period
    /\ \A q \in others : ~Overlaps(p, q)
    /\ ChainsOK(inc, trs, others, resh, und)
    /\ resh \subseteq resh1 /\ und1 \subseteq und
    /\ und \ und1 \subseteq Ids(Covered(inc, trs, p))
    /\ Ids(Covered(inc, trs, p)) \cap und1 = {}
    /\ Brings(Covered(inc, trs, p), resh1, p)
    /\ new = RecomputeResiduals(inc, trs, p)

\* Such a write leaves every chain right.
LEMMA WriteChain ==
    ASSUME NEW inc, NEW trs, Tables(inc, trs), NEW p, NEW others,
           NEW resh, NEW und, NEW resh1, NEW und1, NEW new,
           Derives(inc, trs, p, others, resh, und, resh1, und1, new)
    PROVE  /\ Tables(inc, new) /\ Ids(new) = Ids(trs)
           /\ ChainsOK(inc, new, others \cup {p}, resh1, und1)
<1>1. Tables(inc, new) /\ Ids(new) = Ids(trs)
  BY RecomputeRetells, RetoldTables DEF Derives
<1>2. ChainOK(Covered(inc, new, p), resh1, und1, p)
  <2>1. \A t \in Covered(inc, trs, p) : t.id \notin und1
    BY DEF Ids, Derives
  <2> QED
    BY <2>1, RecomputedChain DEF Derives
<1>3. ASSUME NEW q \in others PROVE ChainOK(Covered(inc, new, q), resh1, und1, q)
  <2>1. p \in Period /\ q \in Period /\ ~Overlaps(p, q)
    BY DEF Derives
  <2>2. \A s \in Covered(inc, trs, p), t \in Covered(inc, trs, q) : s.id # t.id
    BY <2>1, OneChain
  <2>3. Covered(inc, new, q) = Covered(inc, trs, q)
    BY <2>2, OtherChain DEF Derives
  <2>4. \A t \in Covered(inc, trs, q) : /\ t.id \in resh => t.id \in resh1
                                        /\ t.id \in und <=> t.id \in und1
    BY <2>2 DEF Ids, Derives
  <2> QED
    BY <2>3, <2>4, ChainKept DEF ChainsOK, Derives
<1> QED
  BY <1>1, <1>2, <1>3 DEF ChainsOK

-----------------------------------------------------------------------------
(* The inductive invariant, and the handlers. *)

PeriodsOK ==
    /\ periods \in SUBSET Period /\ IsFiniteSet(periods) /\ Cardinality(periods) <= MaxPeriods
    /\ \A p, q \in periods : p # q => ~Overlaps(p, q)

DrpInv ==
    /\ PeriodsOK
    /\ Tables(income, drpTrades)
    /\ reshaped \subseteq Ids(drpTrades) /\ undone \subseteq Ids(drpTrades)
    /\ \A p \in periods : ChainOK(ChainOf(p), reshaped, undone, p)

\* The invariant is the types and the two properties, and more.
LEMMA DrpInvSays == DrpInv => DrpTypeOK /\ ChainConserved /\ SplitDerived
<1> SUFFICES ASSUME DrpInv PROVE DrpTypeOK /\ ChainConserved /\ SplitDerived
  OBVIOUS
<1>1. ChainConserved /\ SplitDerived
  BY DEF DrpInv, ChainOK, SplitAs, ChainConserved, SplitDerived
<1>2. \A t \in drpTrades : Cardinality(FundedBy(t)) = 1
  <2> SUFFICES ASSUME NEW t \in drpTrades PROVE Cardinality(FundedBy(t)) = 1
    OBVIOUS
  <2>1. t.id # 0
    BY DEF DrpInv, Tables, DrpTrade
  <2>2. PICK i \in Distributions : income[i].trade = t.id
    BY DEF DrpInv, Tables, Linked
  <2>3. FundedBy(t) = {i}
    BY <2>1, <2>2 DEF DrpInv, Tables, Linked, FundedBy
  <2> QED
    BY <2>3, FS_Singleton
<1>3. /\ income \in [Distributions -> IncomeRow] /\ drpTrades \subseteq DrpTrade
      /\ \A s, t \in drpTrades : s.id = t.id => s = t
  BY DEF DrpInv, Tables, Linked
<1>4. DrpTypeOK
  BY <1>2, <1>3 DEF DrpInv, PeriodsOK, DrpTypeOK, IncomeRow, DrpTrade, Figures
<1> QED
  BY <1>1, <1>4

\* Before anything is recorded.
LEMMA InitDrpInv == DrpInit => DrpInv
<1> SUFFICES ASSUME DrpInit PROVE DrpInv
  OBVIOUS
<1>1. IsFiniteSet({}) /\ Cardinality({}) = 0
  BY FS_EmptySet
<1>2. PeriodsOK
  BY <1>1, DrpAssumption DEF DrpInit, PeriodsOK
<1>3. Tables(income, drpTrades)
  BY <1>1 DEF DrpInit, Tables, Linked, Leftovered, IncomeRow, NoDistribution
<1> QED
  BY <1>2, <1>3 DEF DrpInv, DrpInit, Ids

\* A distribution that nothing reinvests is in no chain.
LEMMA RowKeepsChains ==
    ASSUME DrpInv, NEW i \in Distributions, income[i].trade = 0,
           NEW row \in IncomeRow, row.trade = 0,
           income' = [income EXCEPT ![i] = row],
           UNCHANGED <<periods, drpTrades, reshaped, undone>>
    PROVE  DrpInv'
<1>1. /\ income' \in [Distributions -> IncomeRow]
      /\ income'[i].trade = 0
      /\ \A j \in Distributions \ {i} : income'[j] = income[j]
  BY DEF DrpInv, Tables
<1>2. Linked(income', drpTrades)
  <2>1. \A j \in Distributions : income'[j].trade = income[j].trade
    BY <1>1
  <2> QED
    BY <2>1 DEF DrpInv, Tables, Linked
<1>3. \A t \in drpTrades : t.id # 0
  BY DEF DrpInv, Tables, DrpTrade
<1>4. ASSUME NEW p \in periods PROVE ChainOf(p)' = ChainOf(p)
  BY <1>1, <1>3 DEF ChainOf, Covered
<1>5. Tables(income, drpTrades)'
  BY <1>1, <1>2 DEF DrpInv, Tables
<1> QED
  BY <1>4, <1>5 DEF DrpInv, PeriodsOK

\* A period is written over others that it does not overlap, and its chain
\* re-derived.
LEMMA PeriodWritten ==
    ASSUME DrpInv, NEW p \in Period, NEW others \in SUBSET periods, PeriodFits(p, others),
           periods' = others \cup {p}, IsFiniteSet(periods'),
           Cardinality(periods') <= MaxPeriods,
           UNCHANGED income,
           drpTrades' = RecomputeResiduals(income, drpTrades, p),
           reshaped \subseteq reshaped', reshaped' \subseteq Ids(drpTrades),
           undone' = undone \ Ids(ChainOf(p)),
           Brings(ChainOf(p), reshaped', p)
    PROVE  DrpInv'
<1>1. /\ Tables(income, drpTrades)
      /\ \A q \in others : q \in Period /\ ~Overlaps(p, q)
      /\ \A q \in others : ChainOK(Covered(income, drpTrades, q), reshaped, undone, q)
      /\ undone \subseteq Ids(drpTrades)
  BY DEF DrpInv, PeriodsOK, PeriodFits, ChainOf
<1>2. PICK inc, trs, und, resh, new, resh1, und1 :
         /\ inc = income /\ trs = drpTrades /\ und = undone /\ resh = reshaped
         /\ new = drpTrades' /\ resh1 = reshaped' /\ und1 = undone'
  OBVIOUS
<1>3. /\ Tables(inc, new) /\ Ids(new) = Ids(trs)
      /\ ChainsOK(inc, new, others \cup {p}, resh1, und1)
  <2>1. /\ Tables(inc, trs) /\ \A q \in others : ~Overlaps(p, q)
        /\ ChainsOK(inc, trs, others, resh, und)
        /\ resh \subseteq resh1
        /\ Brings(Covered(inc, trs, p), resh1, p)
        /\ new = RecomputeResiduals(inc, trs, p)
    BY <1>1, <1>2 DEF ChainOf, ChainsOK
  <2>2. /\ und1 \subseteq und /\ und \ und1 \subseteq Ids(Covered(inc, trs, p))
        /\ Ids(Covered(inc, trs, p)) \cap und1 = {}
    BY <1>2 DEF ChainOf
  <2>3. others \in SUBSET Period
    BY <1>1
  <2>4. Derives(inc, trs, p, others, resh, und, resh1, und1, new)
    BY <2>1, <2>2, <2>3 DEF Derives
  <2> QED
    BY <2>1, <2>4, WriteChain
<1>4. PeriodsOK'
  <2>1. \A q \in others : ~Overlaps(p, q) /\ ~Overlaps(q, p)
    BY <1>1 DEF Overlaps
  <2> QED
    BY <2>1 DEF DrpInv, PeriodsOK
<1>5. Tables(income, drpTrades)' /\ (reshaped \subseteq Ids(drpTrades))'
      /\ (undone \subseteq Ids(drpTrades))'
  BY <1>1, <1>2, <1>3
<1>6. \A q \in periods' : ChainOK(ChainOf(q), reshaped, undone, q)'
  BY <1>2, <1>3 DEF ChainOf, ChainsOK
<1> QED
  BY <1>4, <1>5, <1>6 DEF DrpInv

\* A new row grows the table by one, and an old one written over does not.
LEMMA PeriodsCount ==
    ASSUME PeriodsOK, NEW p
    PROVE  /\ IsFiniteSet(periods \cup {p})
           /\ Cardinality(periods) < MaxPeriods => Cardinality(periods \cup {p}) <= MaxPeriods
           /\ \A old \in periods : /\ IsFiniteSet((periods \ {old}) \cup {p})
                                   /\ Cardinality((periods \ {old}) \cup {p}) <= MaxPeriods
                                   /\ IsFiniteSet(periods \ {old})
                                   /\ Cardinality(periods \ {old}) <= MaxPeriods
<1>1. IsFiniteSet(periods) /\ Cardinality(periods) \in Nat /\ Cardinality(periods) <= MaxPeriods
  BY FS_CardinalityType DEF PeriodsOK
<1>2. MaxPeriods \in Nat
  BY DrpAssumption
<1>3. /\ IsFiniteSet(periods \cup {p})
      /\ Cardinality(periods \cup {p}) <= Cardinality(periods) + 1
      /\ Cardinality(periods \cup {p}) \in Nat
  BY <1>1, FS_AddElement, FS_CardinalityType
<1>4. ASSUME NEW old \in periods
      PROVE  /\ IsFiniteSet((periods \ {old}) \cup {p})
             /\ Cardinality((periods \ {old}) \cup {p}) <= MaxPeriods
             /\ IsFiniteSet(periods \ {old})
             /\ Cardinality(periods \ {old}) <= MaxPeriods
  <2>1. PICK rest : rest = periods \ {old}
    OBVIOUS
  <2>2. IsFiniteSet(rest) /\ Cardinality(rest) = Cardinality(periods) - 1
    BY <1>1, <2>1, FS_RemoveElement
  <2>3. /\ IsFiniteSet(rest \cup {p}) /\ Cardinality(rest) \in Nat
        /\ Cardinality(rest \cup {p}) = Cardinality(rest)
             \/ Cardinality(rest \cup {p}) = Cardinality(rest) + 1
    BY <2>2, FS_AddElement, FS_CardinalityType
  <2> QED
    BY <1>1, <1>2, <2>1, <2>2, <2>3
<1> QED
  BY <1>1, <1>2, <1>3, <1>4

\* Enrolling: every trade the new period covers counts as reshaped.
LEMMA CreateKeeps ==
    ASSUME DrpInv, NEW p \in Period, CreatePeriod(p)
    PROVE  DrpInv'
<1>1. Brings(ChainOf(p), reshaped', p)
  BY DEF CreatePeriod, Brings, Ids
<1>2. reshaped' \subseteq Ids(drpTrades)
  BY DEF CreatePeriod, DrpInv, ChainOf, Covered, Ids
<1>3. IsFiniteSet(periods') /\ Cardinality(periods') <= MaxPeriods
  BY PeriodsCount DEF CreatePeriod, DrpInv
<1>4. periods \in SUBSET periods
  OBVIOUS
<1> QED
  BY <1>1, <1>2, <1>3, <1>4, PeriodWritten DEF CreatePeriod

\* A period written over: its chain is reshaped, or is the same chain, and then
\* only the end of the period can have changed.
LEMMA ReplaceKeeps ==
    ASSUME DrpInv, NEW old \in periods, NEW p \in Period, ReplacePeriod(old, p)
    PROVE  DrpInv'
<1>1. Brings(ChainOf(p), reshaped', p)
  <2>1. CASE ChainOf(old) = ChainOf(p) /\ old.handling = p.handling
    <3>1. ChainOK(ChainOf(old), reshaped, undone, old)
      BY DEF DrpInv
    <3>2. Brings(ChainOf(p), reshaped, p)
      BY <2>1, <3>1, ChainBrings
    <3>3. reshaped' = reshaped
      BY <2>1 DEF ReplacePeriod, ReshapedBy
    <3> QED
      BY <3>2, <3>3
  <2>2. CASE ~(ChainOf(old) = ChainOf(p) /\ old.handling = p.handling)
    <3>1. \A t \in ChainOf(p) : t.id \in reshaped'
      BY <2>2 DEF ReplacePeriod, ReshapedBy, Ids
    <3> QED
      BY <3>1 DEF Brings
  <2> QED
    BY <2>1, <2>2
<1>2. reshaped \subseteq reshaped' /\ reshaped' \subseteq Ids(drpTrades)
  BY DEF ReplacePeriod, ReshapedBy, DrpInv, ChainOf, Covered, Ids
<1>3. IsFiniteSet(periods') /\ Cardinality(periods') <= MaxPeriods
  BY PeriodsCount DEF ReplacePeriod, DrpInv
<1>4. periods \ {old} \in SUBSET periods
  OBVIOUS
<1> QED
  BY <1>1, <1>2, <1>3, <1>4, PeriodWritten DEF ReplacePeriod

\* A period taken away leaves the others as they were.
LEMMA RemoveKeeps ==
    ASSUME DrpInv, NEW p \in periods, MovePeriodAway(p) \/ DeletePeriod(p)
    PROVE  DrpInv'
<1>1. /\ periods' = periods \ {p} /\ UNCHANGED <<income, drpTrades, undone>>
      /\ reshaped \subseteq reshaped' /\ reshaped' \subseteq Ids(drpTrades)
  BY DEF MovePeriodAway, DeletePeriod, DrpInv, ChainOf, Covered, Ids
<1>2. PeriodsOK'
  BY <1>1, PeriodsCount DEF DrpInv, PeriodsOK
<1>3. ASSUME NEW q \in periods' PROVE ChainOK(ChainOf(q), reshaped, undone, q)'
  <2>1. PICK chain, resh, resh1, und :
           chain = ChainOf(q) /\ resh = reshaped /\ resh1 = reshaped' /\ und = undone
    OBVIOUS
  <2>2. ChainOK(chain, resh, und, q)
    BY <1>1, <2>1 DEF DrpInv
  <2>3. ChainOK(chain, resh1, und, q)
    BY <1>1, <2>1, <2>2, ChainKept
  <2>4. ChainOf(q)' = chain /\ undone' = und
    BY <1>1, <2>1 DEF ChainOf
  <2> QED
    BY <2>1, <2>3, <2>4
<1> QED
  BY <1>1, <1>2, <1>3 DEF DrpInv, Tables, Linked, Leftovered

\* The next id is above every one there is.
LEMMA NextIdFacts ==
    ASSUME Tables(income, drpTrades)
    PROVE  NextTradeId \in Nat \ {0} /\ \A t \in drpTrades : t.id < NextTradeId
<1>1. PICK S : S = Ids(drpTrades) \cup {0}
  OBVIOUS
<1>2. /\ \A t \in drpTrades : t.id \in S /\ t.id \in Int
      /\ S \subseteq Int /\ 0 \in S
  BY <1>1 DEF Tables, DrpTrade, Ids
<1>3. IsFiniteSet(S)
  <2>1. PICK T : T = Ids(drpTrades)
    OBVIOUS
  <2>2. PICK g \in [drpTrades -> T] : \A t \in drpTrades : g[t] = t.id
    <3>1. [t \in drpTrades |-> t.id] \in [drpTrades -> T]
      BY <2>1 DEF Ids
    <3> QED
      BY <3>1
  <2>3. g \in Surjection(drpTrades, T)
    BY <2>1, <2>2 DEF Surjection, Ids
  <2>4. IsFiniteSet(T)
    BY <2>3, FS_Surjection DEF Tables
  <2> QED
    BY <1>1, <2>1, <2>4, FS_AddElement
<1>4. Max(S) \in Int /\ \A x \in S : x <= Max(S)
  BY <1>2, <1>3, MaxFacts
<1>5. NextTradeId = 1 + Max(S)
  BY <1>1 DEF NextTradeId
<1> QED
  BY <1>2, <1>4, <1>5

\* What the prior reinvestment of the period, if there is one, has left over.
LEMMA BroughtFacts ==
    ASSUME NEW trs \in SUBSET DrpTrade, \A s, t \in trs : s.id = t.id => s = t,
           IsFiniteSet(trs), Leftovered(trs), NEW chain \in SUBSET trs, NEW p
    PROVE  /\ BroughtForward(p, chain) \in Figures
           /\ \A s \in chain : IsTail(s, chain) =>
                 BroughtForward(p, chain) = ResidualSplit(p, Leftover(s), FALSE).carried
<1>1. 0 \in Figures
  BY DrpAssumption DEF Figures
<1>2. CASE chain = {}
  BY <1>1, <1>2 DEF BroughtForward
<1>3. CASE chain # {}
  <2>1. PICK t \in chain : IsTail(t, chain) /\ \A s \in chain : IsTail(s, chain) => s = t
    BY <1>3, OneTail
  <2>2. t = CHOOSE s \in chain : IsTail(s, chain)
    BY <2>1
  <2>3. BroughtForward(p, chain) = ResidualSplit(p, Leftover(t), FALSE).carried
    BY <1>3, <2>2 DEF BroughtForward
  <2>4. Leftover(t) \in Figures
    BY DEF Leftovered
  <2>5. ResidualSplit(p, Leftover(t), FALSE).carried \in {0, Leftover(t)}
    BY DEF ResidualSplit
  <2> QED
    BY <1>1, <2>1, <2>3, <2>4, <2>5
<1> QED
  BY <1>2, <1>3

\* Trade n is in the chain of every period that covers its distribution i.
Joined(inc, trs, inc1, trs1, i, n) ==
    \A q \in Period :
        /\ Covers(q, inc[i].ex) => Covered(inc1, trs1, q) = Covered(inc, trs, q) \cup {n}
        /\ ~Covers(q, inc[i].ex) => Covered(inc1, trs1, q) = Covered(inc, trs, q)

\* The distribution is linked to the trade it funds, or unlinked (0).
LinkedTo(inc, i, id) == [inc EXCEPT ![i].trade = id]

\* A new trade at the end of a chain: what it is, and that it funds one row.
LEMMA AddedTables ==
    ASSUME NEW inc, NEW trs, NEW n \in DrpTrade, Tables(inc, trs), Leftover(n) \in Figures,
           \A t \in trs : t.id < n.id,
           NEW i \in Distributions, inc[i].trade = 0, inc[i] # NoDistribution,
           NEW inc1, inc1 = LinkedTo(inc, i, n.id),
           NEW trs1, trs1 = trs \cup {n}
    PROVE  Tables(inc1, trs1) /\ Joined(inc, trs, inc1, trs1, i, n)
<1>1. /\ n.id \in Nat \ {0} /\ n \notin trs
      /\ \A t \in trs : t.id \in Nat \ {0} /\ t.id # n.id
  BY DEF Tables, DrpTrade
<1>2. /\ inc1 \in [Distributions -> IncomeRow]
      /\ inc1[i].trade = n.id /\ inc1[i].ex = inc[i].ex
      /\ \A j \in Distributions \ {i} : inc1[j] = inc[j]
  <2>1. inc[i] \in [ex : DrpDates, cash : Cash, trade : Nat]
    BY DEF Tables, IncomeRow
  <2>2. PICK row : row = [inc[i] EXCEPT !.trade = n.id]
    OBVIOUS
  <2>3. row \in [ex : DrpDates, cash : Cash, trade : Nat] /\ row.trade = n.id /\ row.ex = inc[i].ex
    BY <1>1, <2>1, <2>2
  <2>4. inc1 = [inc EXCEPT ![i] = row] /\ row \in IncomeRow
    BY <2>2, <2>3 DEF IncomeRow, LinkedTo
  <2> QED
    BY <2>3, <2>4 DEF Tables
<1>3. /\ \A j \in Distributions : inc[j].trade # n.id
      /\ \A j \in Distributions : inc1[j].trade = IF j = i THEN n.id ELSE inc[j].trade
  BY <1>1, <1>2 DEF Tables, Linked
<1>4. Linked(inc1, trs \cup {n})
  <2>1. \A s, t \in trs \cup {n} : s.id = t.id => s = t
    BY <1>1 DEF Tables, Linked
  <2>2. \A j \in Distributions : inc1[j].trade # 0 => \E t \in trs \cup {n} : t.id = inc1[j].trade
    BY <1>3 DEF Tables, Linked
  <2>3. \A t \in trs : \E j \in Distributions : j # i /\ inc[j].trade = t.id
    BY <1>1 DEF Tables, Linked
  <2>4. \A t \in trs \cup {n} : \E j \in Distributions : inc1[j].trade = t.id
    BY <1>3, <2>3
  <2>5. \A j, k \in Distributions :
           inc1[j].trade = inc1[k].trade /\ inc1[j].trade # 0 => j = k
    BY <1>3 DEF Tables, Linked
  <2> QED
    BY <2>1, <2>2, <2>4, <2>5 DEF Linked
<1>5. IsFiniteSet(trs \cup {n}) /\ Leftovered(trs \cup {n})
  BY FS_AddElement DEF Tables, Leftovered
<1>6. ASSUME NEW q \in Period
      PROVE  Covered(inc1, trs \cup {n}, q)
                = Covered(inc, trs, q) \cup (IF Covers(q, inc[i].ex) THEN {n} ELSE {})
  <2>1. \A t \in trs : t \in Covered(inc1, trs \cup {n}, q) <=> t \in Covered(inc, trs, q)
    BY <1>1, <1>2, <1>3 DEF Covered
  <2>2. n \in Covered(inc1, trs \cup {n}, q) <=> Covers(q, inc[i].ex)
    BY <1>2, <1>3 DEF Covered
  <2>3. /\ Covered(inc, trs, q) \subseteq trs
        /\ Covered(inc1, trs \cup {n}, q) \subseteq trs \cup {n}
    BY DEF Covered
  <2> QED
    BY <2>1, <2>2, <2>3
<1> QED
  BY <1>2, <1>4, <1>5, <1>6 DEF Tables, Joined

\* A chain with a new last trade: it brings forward what its prior has left.
LEMMA JoinedBrings ==
    ASSUME NEW inc, NEW trs, Tables(inc, trs), NEW chain \in SUBSET trs, NEW n \in DrpTrade,
           \A t \in trs : t.id < n.id, \A t \in chain : t.date <= n.date,
           NEW p, NEW resh, NEW und, ChainOK(chain, resh, und, p),
           n.bf = BroughtForward(p, chain)
    PROVE  Brings(chain \cup {n}, resh, p)
<1> SUFFICES ASSUME NEW s \in chain \cup {n}, NEW t \in chain \cup {n},
                    Neighbours(s, t, chain \cup {n}), {s.id, t.id} \cap resh = {}
             PROVE  t.bf = ResidualSplit(p, Leftover(s), FALSE).carried
  BY DEF Brings
<1>1. \A u \in chain : u.id \in Int /\ u.date \in Int /\ u.id < n.id /\ u.date <= n.date
  BY DEF Tables, DrpTrade, DrpDates
<1>2. n.id \in Int /\ n.date \in Int
  BY DEF DrpTrade, DrpDates
<1>3. \A u \in chain : Before(u, n) /\ ~Before(n, u)
  BY <1>1, <1>2 DEF Before
<1>4. s \in chain
  BY <1>2, <1>3 DEF Neighbours, Before
<1>5. CASE t = n
  <2>1. IsTail(s, chain)
    BY <1>3, <1>4, <1>5 DEF Neighbours, IsTail
  <2>2. /\ trs \in SUBSET DrpTrade /\ IsFiniteSet(trs) /\ Leftovered(trs)
        /\ \A x, y \in trs : x.id = y.id => x = y
    BY DEF Tables, Linked
  <2>3. BroughtForward(p, chain) = ResidualSplit(p, Leftover(s), FALSE).carried
    BY <1>4, <2>1, <2>2, BroughtFacts
  <2> QED
    BY <1>5, <2>3
<1>6. CASE t # n
  <2>1. Neighbours(s, t, chain)
    BY <1>4, <1>6 DEF Neighbours
  <2>2. Brings(chain, resh, p)
    BY ChainBrings
  <2> QED
    BY <1>4, <1>6, <2>1, <2>2 DEF Brings
<1> QED
  BY <1>5, <1>6

\* A reinvestment joins its period's chain at the end, which is then re-derived.
LEMMA ReinvestKeeps ==
    ASSUME DrpInv, NEW i \in Distributions, NEW date \in DrpDates, Reinvest(i, date)
    PROVE  DrpInv'
<1>0. \A p \in periods : ChainOf(p) \in SUBSET drpTrades
  BY DEF ChainOf, Covered
<1>1. PICK p \in periods, left \in Figures, chain \in SUBSET drpTrades :
        LET bf == BroughtForward(p, {t \in chain : t.date <= date})
            split == ResidualSplit(p, left, TRUE)
            new == [id |-> NextTradeId, date |-> date, bf |-> bf,
                    carried |-> split.carried, paid |-> split.paid]
        IN  /\ chain = ChainOf(p)
            /\ income[i] # NoDistribution
            /\ income[i].trade = 0
            /\ Covers(p, income[i].ex)
            /\ JoinsAtTail(chain, date)
            /\ income' = [income EXCEPT ![i].trade = new.id]
            /\ drpTrades' = RecomputeResiduals(income', drpTrades \cup {new}, p)
            /\ undone' = undone \ Ids(chain)
            /\ UNCHANGED <<periods, reshaped>>
  BY <1>0 DEF Reinvest, Figures
<1>2. /\ Tables(income, drpTrades) /\ periods \in SUBSET Period
      /\ \A q \in periods : q # p => ~Overlaps(p, q)
      /\ chain \in SUBSET drpTrades
      /\ reshaped \subseteq Ids(drpTrades) /\ undone \subseteq Ids(drpTrades)
  BY <1>1 DEF DrpInv, PeriodsOK, ChainOf, Covered
<1>3. PICK bf \in Figures : bf = BroughtForward(p, chain)
  <2>1. /\ drpTrades \in SUBSET DrpTrade /\ IsFiniteSet(drpTrades) /\ Leftovered(drpTrades)
        /\ \A x, y \in drpTrades : x.id = y.id => x = y
    BY <1>2 DEF Tables, Linked
  <2> QED
    BY <1>2, <2>1, BroughtFacts
<1>4. {t \in chain : t.date <= date} = chain
  BY <1>1 DEF JoinsAtTail
<1>5. PICK c \in Figures, d \in Figures :
         /\ c = ResidualSplit(p, left, TRUE).carried
         /\ d = ResidualSplit(p, left, TRUE).paid
         /\ c + d = left
  <2>1. 0 \in Figures /\ left \in Int /\ 0 + left = left /\ left + 0 = left
    BY DrpAssumption DEF Figures
  <2> QED
    BY <2>1 DEF ResidualSplit
<1>6. PICK id : id = NextTradeId
  OBVIOUS
<1>7. id \in Nat \ {0} /\ \A t \in drpTrades : t.id < id
  BY <1>2, <1>6, NextIdFacts
<1>8. PICK n \in DrpTrade :
         /\ n = [id |-> id, date |-> date, bf |-> bf, carried |-> c, paid |-> d]
         /\ Leftover(n) = left
  <2>1. PICK n : n = [id |-> id, date |-> date, bf |-> bf, carried |-> c, paid |-> d]
    OBVIOUS
  <2>2. n \in DrpTrade
    BY <1>7, <2>1 DEF DrpTrade
  <2>3. Leftover(n) = left
    BY <1>5, <2>1 DEF Leftover
  <2> QED
    BY <2>1, <2>2, <2>3
<1>9. PICK inc, trs, inc1, trs1, und, und1, resh, new :
         /\ inc = income /\ trs = drpTrades /\ und = undone /\ resh = reshaped
         /\ inc1 = income' /\ new = drpTrades' /\ und1 = undone'
         /\ trs1 = trs \cup {n}
  OBVIOUS
<1>10. /\ inc1 = [inc EXCEPT ![i].trade = n.id]
       /\ new = RecomputeResiduals(inc1, trs1, p)
       /\ und1 = und \ Ids(chain)
       /\ UNCHANGED <<periods, reshaped>>
       /\ inc[i] # NoDistribution /\ inc[i].trade = 0 /\ Covers(p, inc[i].ex)
  BY <1>1, <1>3, <1>4, <1>5, <1>6, <1>8, <1>9
<1>11. /\ Tables(inc, trs) /\ \A t \in trs : t.id < n.id
       /\ Leftover(n) \in Figures
  BY <1>2, <1>7, <1>8, <1>9
<1>12. Tables(inc1, trs1) /\ Joined(inc, trs, inc1, trs1, i, n)
  <2>1. inc1 = LinkedTo(inc, i, n.id)
    BY <1>10 DEF LinkedTo
  <2>2. trs1 = trs \cup {n} /\ inc[i].trade = 0 /\ inc[i] # NoDistribution
    BY <1>9, <1>10
  <2> QED
    BY <1>11, <2>1, <2>2, AddedTables
<1>13. \A q \in periods \ {p} : ~Overlaps(p, q) /\ ~Covers(q, inc[i].ex)
  <2> SUFFICES ASSUME NEW q \in periods \ {p} PROVE ~Overlaps(p, q) /\ ~Covers(q, inc[i].ex)
    OBVIOUS
  <2>1. ~Overlaps(p, q)
    BY <1>2
  <2>2. inc[i].ex \in Int /\ {p.start, p.end, q.start, q.end} \subseteq Int
    BY <1>2, <1>11 DEF Tables, IncomeRow, NoDistribution, DrpDates, Open, Period
  <2> QED
    BY <1>10, <2>1, <2>2 DEF Covers, Overlaps
<1>14. /\ Covered(inc1, trs1, p) = chain \cup {n}
       /\ \A q \in periods \ {p} : Covered(inc1, trs1, q) = Covered(inc, trs, q)
  <2>1. chain = Covered(inc, trs, p)
    BY <1>1, <1>9 DEF ChainOf
  <2>2. p \in Period /\ \A q \in periods \ {p} : q \in Period /\ ~Covers(q, inc[i].ex)
    BY <1>2, <1>13
  <2> QED
    BY <1>10, <1>12, <2>1, <2>2 DEF Joined
<1>15. \A q \in periods : ChainOK(Covered(inc, trs, q), resh, und, q)
  BY <1>9 DEF DrpInv, ChainOf
<1>16. Brings(chain \cup {n}, resh, p)
  <2>1. ChainOK(chain, resh, und, p)
    BY <1>1, <1>9, <1>15 DEF ChainOf
  <2>2. \A t \in chain : t.date <= n.date
    BY <1>1, <1>8 DEF JoinsAtTail
  <2>3. n.bf = BroughtForward(p, chain) /\ chain \in SUBSET trs
    BY <1>2, <1>3, <1>8, <1>9
  <2> QED
    BY <1>11, <2>1, <2>2, <2>3, JoinedBrings
<1>17. /\ und1 \subseteq und /\ und \ und1 \subseteq Ids(chain \cup {n})
       /\ Ids(chain \cup {n}) \cap und1 = {}
  <2>1. n.id \notin und
    BY <1>2, <1>9, <1>11 DEF Ids, Tables, DrpTrade
  <2> QED
    BY <1>10, <2>1 DEF Ids
<1>18. /\ Tables(inc1, new) /\ Ids(new) = Ids(trs1)
       /\ ChainsOK(inc1, new, (periods \ {p}) \cup {p}, resh, und1)
  <2>1. PICK others \in SUBSET Period : others = periods \ {p}
    BY <1>2
  <2>2. /\ \A q \in others : ~Overlaps(p, q)
        /\ ChainsOK(inc1, trs1, others, resh, und)
    BY <1>13, <1>14, <1>15, <2>1 DEF ChainsOK
  <2>3. p \in Period /\ Tables(inc1, trs1) /\ resh \subseteq resh
    BY <1>2, <1>12
  <2>4. /\ und1 \subseteq und /\ und \ und1 \subseteq Ids(Covered(inc1, trs1, p))
        /\ Ids(Covered(inc1, trs1, p)) \cap und1 = {}
        /\ Brings(Covered(inc1, trs1, p), resh, p)
        /\ new = RecomputeResiduals(inc1, trs1, p)
    BY <1>10, <1>14, <1>16, <1>17
  <2>5. Derives(inc1, trs1, p, others, resh, und, resh, und1, new)
    BY <2>1, <2>2, <2>3, <2>4 DEF Derives
  <2>6. /\ Tables(inc1, new) /\ Ids(new) = Ids(trs1)
        /\ ChainsOK(inc1, new, others \cup {p}, resh, und1)
    BY <2>3, <2>5, WriteChain
  <2> QED
    BY <2>1, <2>6
<1>19. Tables(income, drpTrades)' /\ (reshaped \subseteq Ids(drpTrades))'
       /\ (undone \subseteq Ids(drpTrades))'
  <2>1. Ids(trs) \subseteq Ids(trs1)
    BY <1>9 DEF Ids
  <2>2. resh \subseteq Ids(trs) /\ und1 \subseteq Ids(trs)
    BY <1>2, <1>9, <1>10
  <2>3. resh = reshaped'
    BY <1>9, <1>10
  <2> QED
    BY <1>9, <1>18, <2>1, <2>2, <2>3
<1>20. \A q \in periods' : ChainOK(ChainOf(q), reshaped, undone, q)'
  BY <1>9, <1>10, <1>18 DEF ChainOf, ChainsOK
<1>21. PeriodsOK'
  BY <1>10 DEF DrpInv, PeriodsOK
<1> QED
  BY <1>19, <1>20, <1>21 DEF DrpInv

\* The last trade of all is taken off the end of the chain it is in.
LEMMA LastTaken ==
    ASSUME NEW trs \in SUBSET DrpTrade, \A x, y \in trs : x.id = y.id => x = y,
           NEW t \in trs, IsTail(t, trs), NEW chain \in SUBSET trs,
           NEW resh, NEW und, NEW und1, NEW p, ChainOK(chain, resh, und, p),
           \A s \in chain \ {t} :
              s.id \in und1 <=> (s.id \in und \/ (t \in chain /\ IsTail(s, chain \ {t})))
    PROVE  ChainOK(chain \ {t}, resh \ {t.id}, und1, p)
<1>1. PICK rest : rest = chain \ {t}
  OBVIOUS
<1>2. ASSUME NEW s \in rest, NEW u \in rest, Neighbours(s, u, rest),
             {s.id, u.id} \cap (resh \ {t.id}) = {}
      PROVE  u.bf = s.carried
  <2>1. ~Before(t, u)
    BY <1>1 DEF IsTail
  <2>2. Neighbours(s, u, chain)
    BY <1>1, <1>2, <2>1 DEF Neighbours
  <2>3. s.id # t.id /\ u.id # t.id
    BY <1>1
  <2> QED
    BY <1>1, <1>2, <2>2, <2>3 DEF ChainOK
<1>3. ASSUME NEW s \in rest, s.id \notin und1 PROVE SplitAs(s, p, IsTail(s, rest))
  <2>1. s.id \notin und /\ (t \in chain => ~IsTail(s, rest))
    BY <1>1, <1>3
  <2>2. IsTail(s, rest) <=> IsTail(s, chain)
    BY <1>1, <2>1 DEF IsTail
  <2>3. ResidualSplit(p, Leftover(s), IsTail(s, rest))
           = ResidualSplit(p, Leftover(s), IsTail(s, chain))
    BY <2>2, SameSplit
  <2> QED
    BY <1>1, <2>1, <2>3 DEF ChainOK, SplitAs
<1>4. ASSUME NEW s \in rest, s.id \in und1 PROVE IsTail(s, rest)
  <2>1. CASE s.id \in und
    BY <1>1, <2>1 DEF ChainOK, IsTail
  <2>2. CASE s.id \notin und
    BY <1>1, <1>4, <2>2
  <2> QED
    BY <2>1, <2>2
<1> QED
  BY <1>1, <1>2, <1>3, <1>4 DEF ChainOK

\* A trade deleted with its link: every chain is as it was but for the trade.
LEMMA RemovedTables ==
    ASSUME NEW inc, NEW trs, Tables(inc, trs), NEW t \in trs,
           NEW i \in Distributions, inc[i].trade = t.id,
           NEW inc1, inc1 = LinkedTo(inc, i, 0)
    PROVE  /\ Tables(inc1, trs \ {t})
           /\ \A q : Covered(inc1, trs \ {t}, q) = Covered(inc, trs, q) \ {t}
<1>1. \A s \in trs : s.id \in Nat \ {0} /\ (s # t => s.id # t.id)
  BY DEF Tables, Linked, DrpTrade
<1>2. /\ inc1 \in [Distributions -> IncomeRow]
      /\ inc1[i].trade = 0
      /\ \A j \in Distributions \ {i} : inc1[j] = inc[j]
  <2>1. inc[i] \in [ex : DrpDates, cash : Cash, trade : Nat]
    <3>1. inc[i].trade # 0
      BY <1>1
    <3>2. inc[i] # NoDistribution
      BY <3>1 DEF NoDistribution
    <3> QED
      BY <3>2 DEF Tables, IncomeRow
  <2>2. PICK row : row = [inc[i] EXCEPT !.trade = 0]
    OBVIOUS
  <2>3. row \in [ex : DrpDates, cash : Cash, trade : Nat] /\ row.trade = 0
    BY <2>1, <2>2
  <2>4. inc1 = [inc EXCEPT ![i] = row] /\ row \in IncomeRow
    BY <2>2, <2>3 DEF IncomeRow, LinkedTo
  <2> QED
    BY <2>3, <2>4 DEF Tables
<1>3. \A j \in Distributions : inc[j].trade = t.id => j = i
  BY <1>1 DEF Tables, Linked
<1>4. Linked(inc1, trs \ {t})
  <2>1. \A x, y \in trs \ {t} : x.id = y.id => x = y
    BY DEF Tables, Linked
  <2>2. \A j \in Distributions : inc1[j].trade # 0 => \E s \in trs \ {t} : s.id = inc1[j].trade
    BY <1>2, <1>3 DEF Tables, Linked
  <2>3. \A s \in trs \ {t} : \E j \in Distributions : inc1[j].trade = s.id
    BY <1>1, <1>2 DEF Tables, Linked
  <2>4. \A j, k \in Distributions :
           inc1[j].trade = inc1[k].trade /\ inc1[j].trade # 0 => j = k
    BY <1>2 DEF Tables, Linked
  <2> QED
    BY <2>1, <2>2, <2>3, <2>4 DEF Linked
<1>5. IsFiniteSet(trs \ {t}) /\ Leftovered(trs \ {t})
  BY FS_RemoveElement DEF Tables, Leftovered
<1>6. ASSUME NEW q PROVE Covered(inc1, trs \ {t}, q) = Covered(inc, trs, q) \ {t}
  <2>1. \A s \in trs \ {t} : s \in Covered(inc1, trs \ {t}, q) <=> s \in Covered(inc, trs, q)
    BY <1>1, <1>2 DEF Covered
  <2>2. /\ Covered(inc, trs, q) \subseteq trs
        /\ Covered(inc1, trs \ {t}, q) \subseteq trs \ {t}
    BY DEF Covered
  <2> QED
    BY <2>1, <2>2
<1> QED
  BY <1>2, <1>4, <1>5, <1>6 DEF Tables

\* The trades an undo of t makes the last of their chain.
NewTails(inc, trs, ps, t) ==
    {s \in trs \ {t} : \E p \in ps :
        /\ {s, t} \subseteq Covered(inc, trs, p)
        /\ IsTail(s, Covered(inc, trs, p) \ {t})}

\* They are counted as underived, and only they.
LEMMA NewTailsFacts ==
    ASSUME NEW inc, NEW trs, Tables(inc, trs), NEW ps \in SUBSET Period,
           \A p, q \in ps : p # q => ~Overlaps(p, q),
           NEW t \in trs, NEW und, NEW p \in ps, NEW s \in Covered(inc, trs, p) \ {t}
    PROVE  s.id \in (und \ {t.id}) \cup Ids(NewTails(inc, trs, ps, t))
              <=> \/ s.id \in und
                  \/ t \in Covered(inc, trs, p) /\ IsTail(s, Covered(inc, trs, p) \ {t})
<1>1. s \in trs /\ s.id # t.id /\ \A x \in trs : x.id = s.id => x = s
  BY DEF Tables, Linked, Covered
<1>2. s.id \in Ids(NewTails(inc, trs, ps, t)) <=> s \in NewTails(inc, trs, ps, t)
  BY <1>1 DEF Ids, NewTails
<1>3. \A q \in ps : s \in Covered(inc, trs, q) => q = p
  BY OneChain
<1>4. s \in NewTails(inc, trs, ps, t)
         <=> t \in Covered(inc, trs, p) /\ IsTail(s, Covered(inc, trs, p) \ {t})
  BY <1>1, <1>3 DEF NewTails
<1> QED
  BY <1>1, <1>2, <1>4

\* An undo takes the last trade of all off its chain, underived.
LEMMA UnreinvestKeeps ==
    ASSUME DrpInv, NEW i \in Distributions, Unreinvest(i)
    PROVE  DrpInv'
<1>1. PICK t \in drpTrades :
        /\ income[i].trade = t.id /\ IsTail(t, drpTrades)
        /\ income' = LinkedTo(income, i, 0)
        /\ drpTrades' = drpTrades \ {t}
        /\ reshaped' = reshaped \ {t.id}
        /\ undone' = (undone \ {t.id}) \cup Ids(NewTails(income, drpTrades, periods, t))
        /\ UNCHANGED periods
  BY DEF Unreinvest, IsLast, IsTail, LinkedTo, NewTails, ChainOf
<1>2. PICK inc, trs, und, resh, inc1, trs1, und1 :
         /\ inc = income /\ trs = drpTrades /\ und = undone /\ resh = reshaped
         /\ inc1 = income' /\ trs1 = drpTrades' /\ und1 = undone'
  OBVIOUS
<1>3. PICK ps \in SUBSET Period : ps = periods /\ \A p, q \in ps : p # q => ~Overlaps(p, q)
  BY DEF DrpInv, PeriodsOK
<1>4. /\ Tables(inc, trs) /\ t \in trs /\ inc[i].trade = t.id /\ IsTail(t, trs)
      /\ inc1 = LinkedTo(inc, i, 0) /\ trs1 = trs \ {t}
      /\ und1 = (und \ {t.id}) \cup Ids(NewTails(inc, trs, ps, t))
      /\ resh \subseteq Ids(trs) /\ und \subseteq Ids(trs)
      /\ ChainsOK(inc, trs, ps, resh, und)
  BY <1>1, <1>2, <1>3 DEF DrpInv, ChainOf, ChainsOK
<1>5. Tables(inc1, trs1) /\ \A q : Covered(inc1, trs1, q) = Covered(inc, trs, q) \ {t}
  BY <1>4, RemovedTables
<1>6. ASSUME NEW p \in ps PROVE ChainOK(Covered(inc1, trs1, p), resh \ {t.id}, und1, p)
  <2>1. PICK chain \in SUBSET trs : chain = Covered(inc, trs, p)
    BY DEF Covered
  <2>2. ChainOK(chain, resh, und, p)
    BY <1>4, <2>1 DEF ChainsOK
  <2>3. \A s \in chain \ {t} :
           s.id \in und1 <=> (s.id \in und \/ (t \in chain /\ IsTail(s, chain \ {t})))
    BY <1>3, <1>4, <2>1, NewTailsFacts
  <2>4. trs \in SUBSET DrpTrade /\ \A x, y \in trs : x.id = y.id => x = y
    BY <1>4 DEF Tables, Linked
  <2>5. ChainOK(chain \ {t}, resh \ {t.id}, und1, p)
    BY <1>4, <2>2, <2>3, <2>4, LastTaken
  <2> QED
    BY <1>5, <2>1, <2>5
<1>7. \A s \in trs : s # t => s.id # t.id
  BY <1>4 DEF Tables, Linked
<1>8. resh \ {t.id} \subseteq Ids(trs1) /\ und1 \subseteq Ids(trs1)
  BY <1>4, <1>7 DEF Ids, NewTails
<1>9. \A p \in periods' : ChainOK(ChainOf(p), reshaped, undone, p)'
  BY <1>1, <1>2, <1>3, <1>6 DEF ChainOf
<1>10. PeriodsOK'
  BY <1>1 DEF DrpInv, PeriodsOK
<1> QED
  BY <1>1, <1>2, <1>5, <1>8, <1>9, <1>10 DEF DrpInv

-----------------------------------------------------------------------------
(* The theorems. *)

\* Every handler keeps the invariant, and so does a step that changes nothing.
LEMMA NextDrpInv == DrpInv /\ [DrpNext]_drpVars => DrpInv'
<1> SUFFICES ASSUME DrpInv, [DrpNext]_drpVars PROVE DrpInv'
  OBVIOUS
<1>1. ASSUME NEW i \in Distributions, NEW ex \in DrpDates, NEW cash \in Cash,
             PutDistribution(i, ex, cash)
      PROVE  DrpInv'
  <2>1. PICK row \in IncomeRow : row = [ex |-> ex, cash |-> cash, trade |-> 0]
    BY DEF IncomeRow
  <2>2. /\ row.trade = 0 /\ income[i].trade = 0
        /\ income' = [income EXCEPT ![i] = row]
        /\ UNCHANGED <<periods, drpTrades, reshaped, undone>>
    BY <1>1, <2>1 DEF PutDistribution
  <2> QED
    BY <2>2, RowKeepsChains
<1>2. ASSUME NEW i \in Distributions, DeleteDistribution(i) PROVE DrpInv'
  <2>1. PICK row \in IncomeRow : row = NoDistribution
    BY DEF IncomeRow
  <2>2. /\ row.trade = 0 /\ income[i].trade = 0
        /\ income' = [income EXCEPT ![i] = row]
        /\ UNCHANGED <<periods, drpTrades, reshaped, undone>>
    BY <1>2, <2>1 DEF DeleteDistribution, NoDistribution
  <2> QED
    BY <2>2, RowKeepsChains
<1>3. ASSUME NEW i \in Distributions, NEW date \in DrpDates, Reinvest(i, date) PROVE DrpInv'
  BY <1>3, ReinvestKeeps
<1>4. ASSUME NEW i \in Distributions, Unreinvest(i) PROVE DrpInv'
  BY <1>4, UnreinvestKeeps
<1>5. ASSUME NEW p \in Period, CreatePeriod(p) PROVE DrpInv'
  BY <1>5, CreateKeeps
<1>6. ASSUME NEW p \in periods, NEW q \in Period, ReplacePeriod(p, q) PROVE DrpInv'
  BY <1>6, ReplaceKeeps
<1>7. ASSUME NEW p \in periods, MovePeriodAway(p) \/ DeletePeriod(p) PROVE DrpInv'
  BY <1>7, RemoveKeeps
<1>8. CASE UNCHANGED drpVars
  <2>1. PeriodsOK' /\ Tables(income, drpTrades)' /\ \A p \in periods : ChainOf(p)' = ChainOf(p)
    BY <1>8 DEF drpVars, DrpInv, PeriodsOK, ChainOf
  <2> QED
    BY <1>8, <2>1 DEF drpVars, DrpInv
<1> QED
  BY <1>1, <1>2, <1>3, <1>4, <1>5, <1>6, <1>7, <1>8 DEF DrpNext

\* The invariant, in every reachable state.
LEMMA DrpAlwaysInv == DrpSpec => []DrpInv
<1>1. DrpInit => DrpInv
  BY InitDrpInv
<1>2. DrpInv /\ [DrpNext]_drpVars => DrpInv'
  BY NextDrpInv
<1> QED
  BY <1>1, <1>2, PTL DEF DrpSpec

\* The tables keep their types: enrolment periods never overlap (the check of
\* drp_enrolment::write), every DRP trade is funded by exactly one distribution
\* (income.reinvestment_trade_id, set and cleared by drp_reinvestment::execute
\* and db_unreinvest), and no residual buys a unit.
THEOREM DrpTypeCorrect == DrpSpec => []DrpTypeOK
<1>1. DrpInv => DrpTypeOK
  BY DrpInvSays
<1> QED
  BY <1>1, DrpAlwaysInv, PTL

\* Cash left over is brought forward once and from where it was left: between
\* two neighbouring reinvestments of a period that no period write re-shaped,
\* the later brings forward exactly what the earlier carries, through every
\* re-derivation (drp_enrolment::recompute_residuals), reinvestment and undo.
THEOREM ChainsStayConserved == DrpSpec => []ChainConserved
<1>1. DrpInv => ChainConserved
  BY DrpInvSays
<1> QED
  BY <1>1, DrpAlwaysInv, PTL

\* The stored split of a residual is the one its period's handling and its
\* place in the chain give (DrpEnrolment::residual_split), through every write
\* of either, but for a trade that db_unreinvest made the last of its chain.
THEOREM SplitsStayDerived == DrpSpec => []SplitDerived
<1>1. DrpInv => SplitDerived
  BY DrpInvSays
<1> QED
  BY <1>1, DrpAlwaysInv, PTL

-----------------------------------------------------------------------------
(* What an adjustment reaches. *)

\* A stored row reaches units of the holding its statement was for when the row was
\* checked.
Reaches(a) ==
    /\ a.lot \in DOMAIN lots
    /\ TracesBack(a.lot, a.of)
    /\ a.units <= lots[a.lot].units

AllReach == \A a \in adjustments : Reaches(a)

\* The parcels are some ids, and what was drawn was drawn on one of them.
LotsOK ==
    /\ IsFiniteSet(DOMAIN lots) /\ DOMAIN lots \in SUBSET Nat
    /\ \A d \in draws : d.lot \in DOMAIN lots

AmitInv == LotsOK /\ AllReach

\* A parcel traces back to a statement as it does to the statement's holding.
LEMMA HoldingTraces ==
    ASSUME NEW l, NEW s
    PROVE  TracesBack(l, HoldingOf(s)) <=> TracesBack(l, s)
BY DEF TracesBack, OfHolding, HoldingOf

\* So a row reaches its statement's holding until the statement is re-pointed.
LEMMA ReachesStatement == AmitInv => AdjustmentsReachUnits
<1> SUFFICES ASSUME AmitInv, NEW a \in adjustments, ~Repointed(a)
             PROVE  /\ a.lot \in DOMAIN lots /\ a.units <= lots[a.lot].units
                    /\ TracesBack(a.lot, ammaStatements[a.statement])
  BY DEF AdjustmentsReachUnits, AmitInv, AllReach, Reaches
<1>1. Reaches(a)
  BY DEF AmitInv, AllReach
<1>2. PICK s : s = ammaStatements[a.statement]
  OBVIOUS
<1>3. TracesBack(a.lot, HoldingOf(s))
  BY <1>1, <1>2 DEF Reaches, Repointed
<1> QED
  BY <1>1, <1>2, <1>3, HoldingTraces DEF Reaches

\* The parcels of `kept` stay what they are, and come from what they came from.
Keeps(kept) ==
    /\ kept \subseteq DOMAIN lots /\ kept \subseteq DOMAIN lots'
    /\ \A l \in kept : /\ Sources(l) \subseteq kept /\ Sources(l) \subseteq Sources(l)'
                       /\ lots'[l].fund = lots[l].fund /\ lots'[l].account = lots[l].account

\* Where the ancestors of a parcel that stays are kept, it still has them.
LEMMA AncestorsKept ==
    ASSUME NEW kept, Keeps(kept), NEW l \in kept
    PROVE  Ancestors(l) \subseteq kept /\ Ancestors(l) \subseteq Ancestors(l)'
<1>1. kept \in SUBSET DOMAIN lots /\ kept \in SUBSET DOMAIN lots'
  BY DEF Keeps
<1>2. \A m \in kept : Sources(m) \subseteq kept /\ Sources(m) \subseteq Sources(m)'
  BY DEF Keeps
<1>3. Ancestors(l) \subseteq kept
  BY <1>1, <1>2 DEF Ancestors
<1>4. ASSUME NEW k \in Ancestors(l) PROVE k \in Ancestors(l)'
  <2>1. k \in kept /\ k \in DOMAIN lots'
    BY <1>1, <1>3, <1>4
  <2>2. ASSUME NEW set \in SUBSET DOMAIN lots',
               Sources(l)' \subseteq set, \A m \in set : Sources(m)' \subseteq set
        PROVE  k \in set
    <3>1. PICK inside \in SUBSET DOMAIN lots : inside = set \cap kept
      BY <1>1
    <3>2. Sources(l) \subseteq inside
      BY <1>2, <2>2, <3>1
    <3>3. \A m \in inside : Sources(m) \subseteq inside
      BY <1>2, <2>2, <3>1
    <3>4. k \in inside
      BY <1>4, <3>2, <3>3 DEF Ancestors
    <3> QED
      BY <3>1, <3>4
  <2> QED
    BY <2>1, <2>2 DEF Ancestors
<1> QED
  BY <1>3, <1>4

\* So a row on a parcel that stays keeps its hold.
LEMMA ReachKept ==
    ASSUME NEW kept, Keeps(kept), NEW a, a.lot \in kept, Reaches(a),
           a.units <= lots'[a.lot].units
    PROVE  Reaches(a)'
<1>1. PICK l, s : l = a.lot /\ s = a.of
  OBVIOUS
<1>2. TracesBack(l, s)
  BY <1>1 DEF Reaches
<1>3. Ancestors(l) \subseteq kept /\ Ancestors(l) \subseteq Ancestors(l)'
  BY <1>1, AncestorsKept
<1>4. \A k \in kept : OfHolding(k, s) => OfHolding(k, s)'
  BY DEF Keeps, OfHolding
<1>5. TracesBack(l, s)'
  BY <1>1, <1>2, <1>3, <1>4 DEF TracesBack
<1>6. TracesBack(a.lot, a.of)'
  BY <1>1, <1>5
<1> QED
  BY <1>6 DEF Reaches, Keeps

\* Every parcel stays what it is, new parcels and the units of an edited one aside.
Grows ==
    /\ DOMAIN lots \subseteq DOMAIN lots' /\ draws \subseteq draws'
    /\ \A l \in DOMAIN lots : /\ lots'[l].fund = lots[l].fund
                             /\ lots'[l].account = lots[l].account
                             /\ lots'[l].group = lots[l].group
    /\ \A a \in adjustments : a.units <= lots[a.lot].units => a.units <= lots'[a.lot].units
    /\ UNCHANGED adjustments

\* More parcels and more drawn on them take nothing from the stored rows.
LEMMA GrowthReaches ==
    ASSUME AmitInv, Grows
    PROVE  AllReach'
<1>1. Keeps(DOMAIN lots)
  <2>1. \A l \in DOMAIN lots : Sources(l) \subseteq DOMAIN lots
    BY DEF AmitInv, LotsOK, Sources
  <2>2. \A l \in DOMAIN lots : Sources(l) \subseteq Sources(l)'
    BY DEF Grows, Sources
  <2> QED
    BY <2>1, <2>2 DEF Keeps, Grows
<1>2. ASSUME NEW a \in adjustments PROVE Reaches(a)'
  <2>1. Reaches(a)
    BY <1>2 DEF AmitInv, AllReach, Reaches
  <2>2. a.lot \in DOMAIN lots /\ a.units <= lots'[a.lot].units
    BY <1>2, <2>1 DEF Reaches, Grows
  <2> QED
    BY <1>1, <2>1, <2>2, ReachKept
<1> QED
  BY <1>2 DEF AllReach, Grows

\* A new parcel's id is new, and above the others.
LEMMA NextLotNew ==
    ASSUME LotsOK
    PROVE  NextLot \in Nat /\ NextLot \notin DOMAIN lots /\ \A l \in DOMAIN lots : l < NextLot
<1>1. PICK S : S = DOMAIN lots \union {0}
  OBVIOUS
<1>2. IsFiniteSet(S)
  BY <1>1, FS_AddElement DEF LotsOK
<1>3. S \subseteq Int /\ S # {} /\ S \subseteq Nat
  BY <1>1 DEF LotsOK
<1>4. Max(S) \in S /\ \A x \in S : x <= Max(S)
  BY <1>2, <1>3, MaxFacts
<1>5. NextLot = 1 + Max(S)
  BY <1>1 DEF NextLot
<1>6. PICK m \in Nat : m = Max(S) /\ \A x \in S : x <= m
  BY <1>3, <1>4
<1>7. NextLot = 1 + m /\ NextLot \in Nat
  BY <1>5, <1>6
<1>8. NextLot \notin S /\ \A l \in S : l < NextLot
  BY <1>3, <1>6, <1>7
<1> QED
  BY <1>1, <1>7, <1>8

\* A purchase.
LEMMA BuyReaches ==
    ASSUME AmitInv, NEW c, NEW d, NEW u, BuyLot(c, d, u)
    PROVE  AmitInv'
<1>1. PICK n, r : n = NextLot /\ lots' = WithLot(n, r)
  BY DEF BuyLot
<1>2. n \in Nat /\ n \notin DOMAIN lots
  BY <1>1, NextLotNew DEF AmitInv
<1>3. /\ DOMAIN lots' = DOMAIN lots \union {n}
      /\ \A l \in DOMAIN lots : lots'[l] = lots[l]
  BY <1>1, <1>2 DEF WithLot
<1>4. UNCHANGED <<draws, adjustments>>
  BY DEF BuyLot, FundWrite
<1>5. LotsOK'
  <2>1. IsFiniteSet(DOMAIN lots \union {n})
    BY FS_AddElement DEF AmitInv, LotsOK
  <2> QED
    BY <1>2, <1>3, <1>4, <2>1 DEF AmitInv, LotsOK
<1>6. Grows
  BY <1>3, <1>4 DEF AmitInv, AllReach, Reaches, Grows
<1> QED
  BY <1>5, <1>6, GrowthReaches DEF AmitInv

\* An edited purchase covers the rows on it, and changes accounts only when there
\* are none and nothing was drawn on it, so that no row's way back leads through it.
LEMMA EditReaches ==
    ASSUME AmitInv, NEW l \in DOMAIN lots, NEW c, NEW u, EditLot(l, c, u)
    PROVE  AmitInv'
<1>1. /\ lots' = [lots EXCEPT ![l].account = c, ![l].units = u]
      /\ UNCHANGED <<draws, adjustments>>
      /\ \A a \in adjustments : a.lot = l => u >= a.units
      /\ c # lots[l].account => ~Freezing(l)
  BY DEF EditLot, FundWrite
<1>2. DOMAIN lots' = DOMAIN lots
  BY <1>1
<1>3. LotsOK'
  BY <1>1, <1>2 DEF AmitInv, LotsOK
<1>4. \A k \in DOMAIN lots : k # l => lots'[k] = lots[k]
  BY <1>1
<1>5. lots'[l] = [lots[l] EXCEPT !.account = c, !.units = u]
  BY <1>1
<1>6. CASE c = lots[l].account
  <2>1. lots'[l].account = lots[l].account
    BY <1>5, <1>6
  <2>2. lots'[l].fund = lots[l].fund /\ lots'[l].group = lots[l].group
    BY <1>5
  <2>3. ASSUME NEW a \in adjustments PROVE a.units <= lots'[a.lot].units
    <3>1. a.lot \in DOMAIN lots /\ a.units <= lots[a.lot].units
      BY <2>3 DEF AmitInv, AllReach, Reaches
    <3>2. CASE a.lot = l
      <4>1. u >= a.units
        BY <1>1, <3>2
      <4>2. lots'[l].units = u
        BY <1>5
      <4> QED
        BY <3>2, <4>1, <4>2
    <3>3. CASE a.lot # l
      BY <1>4, <3>1, <3>3
    <3> QED
      BY <3>2, <3>3
  <2>4. Grows
    BY <1>1, <1>2, <1>4, <2>1, <2>2, <2>3 DEF Grows
  <2> QED
    BY <1>3, <2>4, GrowthReaches DEF AmitInv
<1>7. CASE c # lots[l].account
  <2>1. DrawsOn(l) = {} /\ \A a \in adjustments : a.lot # l
    BY <1>1, <1>7 DEF Freezing, Adjusted
  <2>2. PICK kept : kept = DOMAIN lots \ {l}
    OBVIOUS
  <2>3. \A d \in draws : d.lot \in kept
    BY <2>1, <2>2 DEF AmitInv, LotsOK, DrawsOn
  <2>4. \A k \in kept : lots'[k] = lots[k]
    BY <1>4, <2>2
  <2>5. Keeps(kept)
    <3>1. \A k \in kept : Sources(k) \subseteq kept
      BY <2>3 DEF Sources
    <3>2. \A k \in kept : Sources(k) \subseteq Sources(k)'
      BY <1>1, <2>4 DEF Sources
    <3> QED
      BY <1>2, <2>2, <2>4, <3>1, <3>2 DEF Keeps
  <2>6. ASSUME NEW a \in adjustments PROVE Reaches(a)'
    <3>1. Reaches(a) /\ a.lot \in DOMAIN lots /\ a.units <= lots[a.lot].units
      BY <2>6 DEF AmitInv, AllReach, Reaches
    <3>2. a.lot \in kept
      BY <2>1, <2>2, <2>6, <3>1
    <3> QED
      BY <2>4, <2>5, <3>1, <3>2, ReachKept
  <2>7. AllReach'
    BY <1>1, <2>6 DEF AllReach
  <2> QED
    BY <1>3, <2>7 DEF AmitInv
<1> QED
  BY <1>6, <1>7

\* A sale.
LEMMA SellReaches ==
    ASSUME AmitInv, NEW l \in DOMAIN lots, NEW d, NEW u, SellLot(l, d, u)
    PROVE  AmitInv'
<1>1. PICK e : draws' = draws \union {e} /\ e.lot = l
  <2>1. PICK e : e = [lot |-> l, date |-> d, units |-> u, kind |-> "sell", group |-> NextGroup]
    OBVIOUS
  <2> QED
    BY <2>1 DEF SellLot
<1>2. UNCHANGED <<lots, adjustments>>
  BY DEF SellLot, FundWrite
<1>3. LotsOK'
  BY <1>1, <1>2 DEF AmitInv, LotsOK
<1>4. Grows
  BY <1>1, <1>2 DEF Grows
<1> QED
  BY <1>3, <1>4, GrowthReaches DEF AmitInv

\* New parcels for some old ones, whose units were drawn.
LEMMA MoveReaches ==
    ASSUME AmitInv, NEW set \in SUBSET DOMAIN lots, NEW drawn,
           DOMAIN lots' = DOMAIN lots \union NewLots(set),
           \A l \in DOMAIN lots : lots'[l] = lots[l],
           draws' = draws \union drawn, \A d \in drawn : d.lot \in set,
           UNCHANGED adjustments
    PROVE  AmitInv'
<1>1. IsFiniteSet(NewLots(set)) /\ NewLots(set) \subseteq Nat
  <2>1. Cardinality(set) \in Nat
    BY FS_Subset, FS_CardinalityType DEF AmitInv, LotsOK
  <2>2. PICK n \in Int, m \in Int : n = NextLot /\ m = NextLot + Cardinality(set) - 1 /\ n >= 0
    BY <2>1, NextLotNew DEF AmitInv
  <2>3. IsFiniteSet(n .. m)
    BY FS_Interval
  <2> QED
    BY <2>2, <2>3 DEF NewLots
<1>2. LotsOK'
  <2>1. IsFiniteSet(DOMAIN lots \union NewLots(set))
    BY <1>1, FS_Union DEF AmitInv, LotsOK
  <2> QED
    BY <1>1, <2>1 DEF AmitInv, LotsOK
<1>3. Grows
  BY DEF AmitInv, AllReach, Reaches, Grows
<1> QED
  BY <1>2, <1>3, GrowthReaches DEF AmitInv

\* A transfer between accounts.
LEMMA TransferReaches ==
    ASSUME AmitInv, NEW set \in SUBSET DOMAIN lots, NEW moved, DOMAIN moved = set,
           NEW from, NEW to, NEW date, TransferLots(moved, from, to, date)
    PROVE  AmitInv'
<1>1. PICK drawn : drawn = {[lot |-> l, date |-> date, units |-> moved[l],
                             kind |-> "transfer", group |-> NextGroup] : l \in set}
  OBVIOUS
<1>2. /\ draws' = draws \union drawn /\ UNCHANGED adjustments
      /\ DOMAIN lots' = DOMAIN lots \union NewLots(set)
      /\ \A l \in DOMAIN lots : lots'[l] = lots[l]
  BY <1>1 DEF TransferLots, FundWrite
<1>3. \A d \in drawn : d.lot \in set
  BY <1>1
<1> QED
  BY <1>2, <1>3, MoveReaches

\* An exchange of the fund for another listing.
LEMMA ExchangeReaches ==
    ASSUME AmitInv, NEW date, ExchangeFund(date)
    PROVE  AmitInv'
<1>1. PICK set \in SUBSET DOMAIN lots :
        set = {l \in DOMAIN lots : lots[l].fund /\ lots[l].date <= date /\ Remaining(l) > 0}
  OBVIOUS
<1>2. PICK drawn : drawn = {[lot |-> l, date |-> date, units |-> Remaining(l),
                             kind |-> "exchange", group |-> NextGroup] : l \in set}
  OBVIOUS
<1>3. /\ draws' = draws \union drawn /\ UNCHANGED adjustments
      /\ DOMAIN lots' = DOMAIN lots \union NewLots(set)
      /\ \A l \in DOMAIN lots : lots'[l] = lots[l]
  BY <1>1, <1>2 DEF ExchangeFund, FundWrite
<1>4. \A d \in drawn : d.lot \in set
  BY <1>2
<1> QED
  BY <1>3, <1>4, MoveReaches

\* What a group made is deleted only when nothing is drawn on it, so that no
\* row's way back to its holding leads through it.
LEMMA DeleteReaches ==
    ASSUME AmitInv, NEW g, DeleteGroup(g)
    PROVE  AmitInv'
<1>1. PICK kept : kept = DOMAIN lots \ GroupLots(g)
  OBVIOUS
<1>2. /\ lots' = [k \in kept |-> lots[k]] /\ draws' = {d \in draws : d.group # g}
      /\ UNCHANGED adjustments
      /\ \A l \in GroupLots(g) : DrawsOn(l) = {} /\ ~Adjusted(l)
  BY <1>1 DEF DeleteGroup, FundWrite, Deletable
<1>3. DOMAIN lots' = kept /\ \A l \in kept : lots'[l] = lots[l]
  BY <1>2
<1>4. \A d \in draws : d.lot \in kept
  BY <1>1, <1>2 DEF AmitInv, LotsOK, DrawsOn
<1>5. \A l \in kept : lots[l].group # g
  BY <1>1 DEF GroupLots
<1>6. Keeps(kept)
  <2>1. \A l \in kept : Sources(l) \subseteq kept
    BY <1>4 DEF Sources
  <2>2. \A l \in kept : Sources(l) \subseteq Sources(l)'
    BY <1>2, <1>3, <1>5 DEF Sources
  <2> QED
    BY <1>1, <1>3, <2>1, <2>2 DEF Keeps
<1>7. ASSUME NEW a \in adjustments PROVE Reaches(a)'
  <2>1. Reaches(a) /\ a.lot \in DOMAIN lots /\ a.units <= lots[a.lot].units
    BY <1>7 DEF AmitInv, AllReach, Reaches
  <2>2. a.lot \in kept
    BY <1>1, <1>2, <1>7, <2>1 DEF Adjusted
  <2> QED
    BY <1>3, <1>6, <2>1, <2>2, ReachKept
<1>8. AllReach'
  BY <1>2, <1>7 DEF AllReach
<1>9. LotsOK'
  <2>1. IsFiniteSet(kept)
    BY <1>1, FS_Subset DEF AmitInv, LotsOK
  <2> QED
    BY <1>1, <1>2, <1>3, <1>4, <2>1 DEF AmitInv, LotsOK
<1> QED
  BY <1>8, <1>9 DEF AmitInv

\* With the parcels as they are, rows that reach units may come and any may go.
LEMMA RowsReach ==
    ASSUME AmitInv, UNCHANGED <<lots, draws>>,
           \A a \in adjustments' : a \in adjustments \/ Reaches(a)
    PROVE  AmitInv'
<1>1. LotsOK'
  BY DEF AmitInv, LotsOK
<1>2. \A l : Ancestors(l)' = Ancestors(l)
  BY DEF Ancestors, Sources
<1>3. \A l, s : TracesBack(l, s)' = TracesBack(l, s)
  BY <1>2 DEF TracesBack, OfHolding
<1>4. \A a \in adjustments' : Reaches(a)
  BY DEF AmitInv, AllReach, Reaches
<1>5. AllReach'
  BY <1>3, <1>4 DEF AllReach, Reaches
<1> QED
  BY <1>1, <1>5 DEF AmitInv

\* A row that passes the checks reaches what it is for.
LEMMA RowReaches ==
    ASSUME NEW i, NEW l, NEW u, RowAllowed(ammaStatements[i], l, u)
    PROVE  Reaches(RowFor(i, l, u))
<1>1. PICK s : s = ammaStatements[i]
  OBVIOUS
<1>2. PICK h : h = HoldingOf(s)
  OBVIOUS
<1>3. /\ l \in DOMAIN lots /\ u <= lots[l].units /\ TracesBack(l, h)
  BY <1>1, <1>2, HoldingTraces DEF RowAllowed
<1>4. PICK e : e = [statement |-> i, of |-> h, lot |-> l, units |-> u]
  OBVIOUS
<1>5. e.lot = l /\ e.of = h /\ e.units = u
  BY <1>4
<1>6. Reaches(e)
  BY <1>3, <1>5 DEF Reaches
<1> QED
  BY <1>1, <1>2, <1>4, <1>6 DEF RowFor

\* A typed row, or one derived from the statement.
LEMMA EntryReaches ==
    ASSUME AmitInv, NEW i, NEW l, NEW u, EnterAdjustment(i, l, u)
    PROVE  AmitInv'
<1>1. PICK e : e = RowFor(i, l, u)
  OBVIOUS
<1>2. \A a \in adjustments' : a \in adjustments \/ a = e
  BY <1>1 DEF EnterAdjustment
<1>3. Reaches(e)
  BY <1>1, RowReaches DEF EnterAdjustment
<1>4. UNCHANGED <<lots, draws>>
  BY DEF EnterAdjustment
<1> QED
  BY <1>2, <1>3, <1>4, RowsReach

\* Generated rows pass the checks of a typed one.
LEMMA GenerationReaches ==
    ASSUME AmitInv, NEW i, NEW replace, Generate(i, replace)
    PROVE  AmitInv'
<1>1. \A r \in GeneratedRows(ammaStatements[i]) :
         RowAllowed(ammaStatements[i], r.lot, r.units)
  BY DEF Generate, GenerationAllowed
<1>2. \A a \in adjustments' :
         \/ a \in adjustments
         \/ \E r \in GeneratedRows(ammaStatements[i]) : a = RowFor(i, r.lot, r.units)
  BY DEF Generate
<1>3. \A a \in adjustments' : a \in adjustments \/ Reaches(a)
  BY <1>1, <1>2, RowReaches
<1>4. UNCHANGED <<lots, draws>>
  BY DEF Generate
<1> QED
  BY <1>3, <1>4, RowsReach

\* A statement is created, replaced or deleted.
StatementWritten ==
    \/ \E i \in StatementIds, s \in Statements : CreateStatement(i, s)
    \/ \E i \in DOMAIN ammaStatements :
          \/ \E s \in Statements : ReplaceStatement(i, s)
          \/ DeleteStatement(i)

\* Which is nothing to the parcels and the rows.
LEMMA WrittenKeeps ==
    ASSUME StatementWritten
    PROVE  UNCHANGED <<lots, draws, adjustments>>
BY DEF StatementWritten, CreateStatement, ReplaceStatement, DeleteStatement

\* Every write keeps the rows' hold.
LEMMA NextAmitInv == AmitInv /\ [AmitNext]_amitVars => AmitInv'
<1> SUFFICES ASSUME AmitInv, [AmitNext]_amitVars PROVE AmitInv'
  OBVIOUS
<1>1. CASE \E c \in FundAccounts, d \in FundDates, u \in LotSizes : BuyLot(c, d, u)
  BY <1>1, BuyReaches
<1>2. CASE \E l \in DOMAIN lots : \E c \in FundAccounts, u \in LotSizes : EditLot(l, c, u)
  BY <1>2, EditReaches
<1>3. CASE \E l \in DOMAIN lots : \E d \in FundDates, u \in Movable(l) : SellLot(l, d, u)
  BY <1>3, SellReaches
<1>4. ASSUME NEW set \in (SUBSET DOMAIN lots) \ {{}}, NEW from \in FundAccounts,
             NEW to \in FundAccounts, NEW d \in FundDates,
             NEW m \in [set -> UNION {Movable(l) : l \in set}], TransferLots(m, from, to, d)
      PROVE  AmitInv'
  BY <1>4, TransferReaches
<1>5. CASE \E d \in draws : d.kind # "sell" /\ DeleteGroup(d.group)
  BY <1>5, DeleteReaches
<1>6. CASE \E d \in FundDates : ExchangeFund(d)
  BY <1>6, ExchangeReaches
<1>7. CASE \E i \in DOMAIN ammaStatements, replace \in BOOLEAN : Generate(i, replace)
  BY <1>7, GenerationReaches
<1>8. CASE \E i \in DOMAIN ammaStatements, l \in DOMAIN lots :
              \E u \in 1 .. lots[l].units : EnterAdjustment(i, l, u)
  BY <1>8, EntryReaches
<1>9. CASE \E a \in adjustments : DeleteAdjustment(a)
  <2>1. UNCHANGED <<lots, draws>> /\ \A a \in adjustments' : a \in adjustments
    BY <1>9 DEF DeleteAdjustment
  <2> QED
    BY <2>1, RowsReach
<1>10. CASE UNCHANGED amitVars
  <2>1. UNCHANGED <<lots, draws>> /\ \A a \in adjustments' : a \in adjustments
    BY <1>10 DEF amitVars
  <2> QED
    BY <2>1, RowsReach
<1>11. CASE StatementWritten
  <2>1. UNCHANGED <<lots, draws>> /\ \A a \in adjustments' : a \in adjustments
    BY <1>11, WrittenKeeps
  <2> QED
    BY <2>1, RowsReach
<1> QED
  BY <1>1, <1>2, <1>3, <1>4, <1>5, <1>6, <1>7, <1>8, <1>9, <1>10, <1>11
  DEF AmitNext, StatementWritten

(***************************************************************************)
(* A stored adjustment keeps reaching units of its own statement's holding *)
(* however the parcels are bought, edited, sold, moved, exchanged and      *)
(* undone, for any accounts, statements and number of parcels: what        *)
(* amit_adjustment::db_write_on checked once, no later handler undoes, but *)
(* for amma::write, which may re-point the statement.                      *)
(***************************************************************************)
THEOREM RowsAlwaysReachUnits == AmitSpec => []AdjustmentsReachUnits
<1>1. AmitInit => AmitInv
  <2> SUFFICES ASSUME AmitInit PROVE AmitInv
    OBVIOUS
  <2>1. DOMAIN lots = {} /\ draws = {} /\ adjustments = {}
    BY DEF AmitInit
  <2> QED
    BY <2>1, FS_EmptySet DEF AmitInv, LotsOK, AllReach
<1>2. AmitInv => AdjustmentsReachUnits
  BY ReachesStatement
<1> QED
  BY <1>1, <1>2, NextAmitInv, PTL DEF AmitSpec

-----------------------------------------------------------------------------
(* Units, and where they are. *)

\* The units of some rows are a sum over them.
LEMMA UnitsAre ==
    ASSUME NEW T, IsFiniteSet(T), \A t \in T : t.units \in Nat,
           NEW w, \A t \in T : w[t] = t.units
    PROVE  Units(T) = SumOver(w, T) /\ Units(T) \in Nat
<1>1. PICK v : v = [t \in T |-> t.units]
  OBVIOUS
<1>2. \A t \in T : v[t] = w[t] /\ v[t] \in Nat
  BY <1>1
<1>3. SumOver(v, T) = SumOver(w, T) /\ SumOver(v, T) \in Nat
  BY <1>2, SumCong, SumNat
<1>4. Units(T) = SumOver(v, T)
  BY <1>1 DEF Units
<1> QED
  BY <1>3, <1>4

\* The units of two lots of rows together.
LEMMA UnitsTogether ==
    ASSUME NEW S, IsFiniteSet(S), NEW T, IsFiniteSet(T), S \cap T = {},
           \A t \in S \union T : t.units \in Nat
    PROVE  /\ Units(S \union T) = Units(S) + Units(T)
           /\ Units(S) \in Nat /\ Units(T) \in Nat /\ Units(S \union T) \in Nat
<1>1. PICK w : w = [t \in S \union T |-> t.units]
  OBVIOUS
<1>2. \A t \in S \union T : w[t] = t.units /\ w[t] \in Int
  BY <1>1
<1>3. IsFiniteSet(S \union T)
  BY FS_Union
<1>4. SumOver(w, S \union T) = SumOver(w, S) + SumOver(w, T)
  BY <1>2, SumDisjoint
<1>5. Units(S \union T) = SumOver(w, S \union T) /\ Units(S \union T) \in Nat
  BY <1>2, <1>3, UnitsAre
<1>6. Units(S) = SumOver(w, S) /\ Units(S) \in Nat
  BY <1>2, UnitsAre
<1>7. Units(T) = SumOver(w, T) /\ Units(T) \in Nat
  BY <1>2, UnitsAre
<1> QED
  BY <1>4, <1>5, <1>6, <1>7

\* Some of the rows have no more units than all of them.
LEMMA UnitsWithin ==
    ASSUME NEW T, IsFiniteSet(T), \A t \in T : t.units \in Nat, NEW S \in SUBSET T
    PROVE  Units(S) \in Nat /\ Units(T) \in Nat /\ Units(S) <= Units(T)
<1>1. PICK R : R = T \ S
  OBVIOUS
<1>2. IsFiniteSet(S) /\ IsFiniteSet(R) /\ S \cap R = {} /\ S \union R = T
  BY <1>1, FS_Subset
<1>3. /\ Units(S \union R) = Units(S) + Units(R)
      /\ Units(S) \in Nat /\ Units(R) \in Nat
  BY <1>2, UnitsTogether
<1>4. PICK a \in Nat, b \in Nat : a = Units(S) /\ b = Units(R)
  BY <1>3
<1>5. a <= a + b /\ a + b \in Nat
  OBVIOUS
<1> QED
  BY <1>2, <1>3, <1>4, <1>5

\* One row has its own, and no row none.
LEMMA UnitsOfOne ==
    ASSUME NEW t, t.units \in Nat
    PROVE  Units({t}) = t.units /\ Units({}) = 0
<1>1. PICK w : w = [x \in {t} |-> x.units]
  OBVIOUS
<1>2. w[t] = t.units
  BY <1>1
<1>3. IsFiniteSet({t})
  BY FS_Singleton
<1>4. SumOver(w, {t}) = w[t] + SumOver(w, {t} \ {t})
  BY <1>2, <1>3, SumSplit
<1>5. {t} \ {t} = {}
  OBVIOUS
<1>6. SumOver(w, {}) = 0
  BY SumEmpty
<1>7. SumOver(w, {t}) = t.units
  BY <1>2, <1>4, <1>5, <1>6
<1>8. Units({t}) = t.units
  BY <1>1, <1>7 DEF Units
<1>9. Units({}) = 0
  BY SumEmpty DEF Units
<1> QED
  BY <1>8, <1>9

\* A parcel and a draw.
Lot == [account : FundAccounts, fund : BOOLEAN, date : FundDates, units : Nat \ {0},
        acquired : FundDates, group : Nat]
Draw == [lot : Nat, date : FundDates, units : Nat \ {0},
         kind : {"sell", "transfer", "exchange"}, group : Nat]

\* A transfer moved units of a draw into r, as far as one can tell.
LedInto(c, r) ==
    /\ c.kind = "transfer" /\ r \in GroupLots(c.group)
    /\ lots[r].units = c.units /\ lots[r].acquired = lots[c.lot].acquired

\* What the writes keep of the parcels and the draws: no parcel is overdrawn or
\* drawn on before it is there, what a group made is dated as the group and newer
\* than what it drew on, and every transfer has a parcel for what it moved.
MovesOK ==
    /\ \A l \in DOMAIN lots : lots[l] \in Lot
    /\ IsFiniteSet(draws) /\ draws \subseteq Draw
    /\ \A d \in draws : d.group > 0 /\ lots[d.lot].date <= d.date
    /\ \A l \in DOMAIN lots : Units(DrawsOn(l)) <= lots[l].units
    /\ \A l \in DOMAIN lots : lots[l].group # 0 => \E d \in draws : d.group = lots[l].group
    /\ \A d \in draws : \A r \in GroupLots(d.group) : d.lot < r /\ lots[r].date = d.date
    /\ \A d \in draws : d.kind = "transfer" => \E r \in DOMAIN lots : LedInto(d, r)

\* The units of any draws.
LEMMA DrawnUnits ==
    ASSUME MovesOK, NEW S \in SUBSET draws, NEW T \in SUBSET S
    PROVE  /\ IsFiniteSet(S) /\ IsFiniteSet(T) /\ \A t \in S : t.units \in Nat
           /\ Units(S) \in Nat /\ Units(T) \in Nat /\ Units(T) <= Units(S)
<1>1. IsFiniteSet(S)
  BY FS_Subset DEF MovesOK
<1>2. \A t \in S : t.units \in Nat
  BY DEF MovesOK, Draw
<1>3. IsFiniteSet(T)
  BY <1>1, FS_Subset
<1> QED
  BY <1>1, <1>2, <1>3, UnitsWithin

\* A move takes its units somewhere newer.
LEMMA CarriedIs ==
    ASSUME LotsOK, MovesOK, NEW h \in Holding, NEW end, NEW d \in Carriers(h, end),
           NEW r \in GroupLots(d.group)
    PROVE  /\ Carried(h, d, r, end) \in Holding
           /\ Carried(h, d, r, end).lot = r
           /\ r \in DOMAIN lots /\ h.lot < r
<1>1. d \in draws /\ d.lot = h.lot /\ LeftBy(h, d, end) > 0 /\ d \in Draw
  BY DEF Carriers, MovedSince, RolloversOf, DrawsOn, MovesOK
<1>2. r \in DOMAIN lots /\ h.lot < r /\ r \in Nat
  BY <1>1 DEF GroupLots, MovesOK, LotsOK
<1>3. PICK n : n = Min({LeftBy(h, d, end), d.units})
  OBVIOUS
<1>4. n \in Nat
  <2>1. PICK older \in SUBSET draws : older = {c \in MovedSince(h.lot, end) : OlderMove(c, d)}
    BY DEF MovedSince, RolloversOf, DrawsOn
  <2>2. PICK u \in Nat : u = Units(older)
    BY DrawnUnits
  <2>3. PICK k \in Nat, e \in Nat : k = h.units /\ e = d.units
    BY <1>1 DEF Holding, Draw
  <2>4. PICK a \in Int : a = k - u
    OBVIOUS
  <2>5. LeftBy(h, d, end) = a
    BY <2>1, <2>2, <2>3, <2>4 DEF LeftBy
  <2>6. a > 0
    BY <1>1, <2>5
  <2>7. Min({a, e}) = IF a <= e THEN a ELSE e
    BY MinMaxOfTwo
  <2>8. Min({a, e}) \in Nat
    BY <2>6, <2>7
  <2> QED
    BY <1>3, <2>3, <2>5, <2>8
<1>5. PICK k : k = [root |-> h.root, lot |-> r, units |-> n, moves |-> h.moves \union {d}]
  OBVIOUS
<1>6. k \in Holding /\ k.lot = r
  BY <1>1, <1>2, <1>4, <1>5 DEF Holding
<1>7. Carried(h, d, r, end) = k
  BY <1>3, <1>5 DEF Carried
<1> QED
  BY <1>2, <1>6, <1>7

\* Where a transfer's units went is one of the parcels it led into.
LEMMA IntoIs ==
    ASSUME LotsOK, MovesOK, NEW d \in draws, NEW a, a = lots[d.lot].acquired
    PROVE  /\ \A r \in MatchingReplacement(d, a) : LedInto(d, r)
           /\ \/ MatchingReplacement(d, a) = {}
              \/ \E r : MatchingReplacement(d, a) = {r}
<1>1. PICK like : like = {r \in GroupLots(d.group) : lots[r].units = d.units /\ lots[r].acquired = a}
  OBVIOUS
<1>2. CASE d.kind # "transfer" \/ like = {}
  <2>1. MatchingReplacement(d, a) = {}
    BY <1>1, <1>2 DEF MatchingReplacement
  <2> QED
    BY <2>1
<1>3. CASE d.kind = "transfer" /\ like # {}
  <2>1. MatchingReplacement(d, a) = {Min(like)}
    BY <1>1, <1>3 DEF MatchingReplacement
  <2>2. like \in SUBSET DOMAIN lots
    BY <1>1 DEF GroupLots
  <2>3. IsFiniteSet(like) /\ like \subseteq Int
    BY <2>2, FS_Subset DEF LotsOK
  <2>4. Min(like) \in like
    BY <1>3, <2>3, MinFacts
  <2> QED
    BY <1>1, <1>3, <2>1, <2>4 DEF LedInto
<1> QED
  BY <1>2, <1>3

\* What is placed from a holding depends only on what is placed of newer parcels.
LEMMA PlacedAlike ==
    ASSUME LotsOK, MovesOK, NEW h \in Holding, NEW end, NEW f, NEW g,
           \A k \in Holding : k.lot > h.lot /\ k.lot \in DOMAIN lots => f[k] = g[k]
    PROVE  PlacedFrom(h, end, f) = PlacedFrom(h, end, g)
<1>1. ASSUME NEW d \in Carriers(h, end),
             NEW r \in MatchingReplacement(d, lots[h.lot].acquired)
      PROVE  f[Carried(h, d, r, end)] = g[Carried(h, d, r, end)]
  <2>1. r \in GroupLots(d.group)
    <3>1. d \in draws /\ d.lot = h.lot
      BY DEF Carriers, MovedSince, RolloversOf, DrawsOn
    <3>2. LedInto(d, r)
      BY <1>1, <3>1, IntoIs
    <3> QED
      BY <3>2 DEF LedInto
  <2>2. /\ Carried(h, d, r, end) \in Holding /\ Carried(h, d, r, end).lot = r
        /\ r \in DOMAIN lots /\ h.lot < r
    BY <2>1, CarriedIs
  <2>3. r > h.lot
    BY <2>2 DEF LotsOK, Holding
  <2> QED
    BY <2>2, <2>3
<1>2. ASSUME NEW d \in Carriers(h, end)
      PROVE  {f[Carried(h, d, r, end)] : r \in MatchingReplacement(d, lots[h.lot].acquired)}
             = {g[Carried(h, d, r, end)] : r \in MatchingReplacement(d, lots[h.lot].acquired)}
  BY <1>1
<1> DEFINE into(d) == MatchingReplacement(d, lots[h.lot].acquired)
           put(d, e) == IF into(d) = {} THEN Placed(h, d.units, h.moves \union {d}, "hand")
                         ELSE UNION {e[Carried(h, d, r, end)] : r \in into(d)}
<1>3. \A d \in Carriers(h, end) : put(d, f) = put(d, g)
  BY <1>2
<1>4. \A e : PlacedFrom(h, end, e) =
        (IF h.units - Units(MovedSince(h.lot, end)) > 0
         THEN Placed(h, h.units - Units(MovedSince(h.lot, end)), h.moves, "row") ELSE {})
        \union UNION {put(d, e) : d \in Carriers(h, end)}
  BY DEF PlacedFrom
<1>5. {put(d, f) : d \in Carriers(h, end)} = {put(d, g) : d \in Carriers(h, end)}
  <2> HIDE DEF put
  <2> QED
    BY <1>3
<1> HIDE DEF put
<1> QED
  BY <1>4, <1>5

\* The walk that placement takes.
Follows(f, end) == f = [h \in Holding |-> PlacedFrom(h, end, f)]

\* There is one, as moves only lead to newer parcels.
LEMMA FollowExists ==
    ASSUME LotsOK, MovesOK, NEW end
    PROVE  \E f : Follows(f, end)
<1>1. PICK K \in Nat : \A l \in DOMAIN lots : l < K
  <2>1. PICK T : T = DOMAIN lots \union {0}
    OBVIOUS
  <2>2. IsFiniteSet(T) /\ T \subseteq Int /\ T # {} /\ T \subseteq Nat
    BY <2>1, FS_AddElement DEF LotsOK
  <2>3. PICK m \in T : \A x \in T : x <= m
    BY <2>2, HasMax
  <2>4. m + 1 \in Nat /\ \A l \in DOMAIN lots : l < m + 1
    BY <2>1, <2>2, <2>3
  <2> QED
    BY <2>4
<1>2. PICK S : S = {k \in 0 .. K : \E f : \A h \in Holding :
                      h.lot >= K - k => f[h] = PlacedFrom(h, end, f)}
  OBVIOUS
<1>3. 0 \in S
  <2>1. PICK e : e = <<>>
    OBVIOUS
  <2>2. PICK f : f = [h \in Holding |-> PlacedFrom(h, end, e)]
    OBVIOUS
  <2>3. ASSUME NEW h \in Holding, h.lot >= K - 0 PROVE f[h] = PlacedFrom(h, end, f)
    <3>1. \A k \in Holding : k.lot > h.lot /\ k.lot \in DOMAIN lots => e[k] = f[k]
      BY <1>1, <2>3 DEF Holding
    <3>2. PlacedFrom(h, end, e) = PlacedFrom(h, end, f)
      BY <3>1, PlacedAlike
    <3> QED
      BY <2>2, <3>2
  <2> QED
    BY <1>2, <2>3
<1>4. ASSUME NEW k \in 1 .. K, k - 1 \in S PROVE k \in S
  <2>1. PICK f : \A h \in Holding : h.lot >= K - (k - 1) => f[h] = PlacedFrom(h, end, f)
    BY <1>2, <1>4
  <2>2. PICK g : g = [h \in Holding |-> PlacedFrom(h, end, f)]
    OBVIOUS
  <2>3. ASSUME NEW h \in Holding, h.lot >= K - k PROVE g[h] = PlacedFrom(h, end, g)
    <3>1. ASSUME NEW m \in Holding, m.lot > h.lot, m.lot \in DOMAIN lots PROVE f[m] = g[m]
      <4>1. m.lot >= K - (k - 1)
        BY <2>3, <3>1 DEF Holding
      <4> QED
        BY <2>1, <2>2, <4>1
    <3>2. PlacedFrom(h, end, f) = PlacedFrom(h, end, g)
      BY <3>1, PlacedAlike
    <3> QED
      BY <2>2, <3>2
  <2>4. k \in 0 .. K
    OBVIOUS
  <2> QED
    BY <1>2, <2>3, <2>4
<1>5. K \in S
  <2>1. \A k \in 0 .. K : k \in S
    BY <1>3, <1>4, Climb
  <2> QED
    BY <2>1
<1>6. PICK f : \A h \in Holding : h.lot >= K - K => f[h] = PlacedFrom(h, end, f)
  BY <1>2, <1>5
<1>7. \A h \in Holding : f[h] = PlacedFrom(h, end, f)
  <2>1. \A h \in Holding : h.lot >= K - K
    BY DEF Holding
  <2> QED
    BY <1>6, <2>1
<1>8. PICK g : g = [h \in Holding |-> f[h]]
  OBVIOUS
<1>9. ASSUME NEW h \in Holding PROVE g[h] = PlacedFrom(h, end, g)
  <2>1. PlacedFrom(h, end, f) = PlacedFrom(h, end, g)
    BY <1>8, PlacedAlike
  <2> QED
    BY <1>7, <1>8, <2>1
<1>10. g = [h \in Holding |-> PlacedFrom(h, end, g)]
  BY <1>8, <1>9
<1> QED
  BY <1>10 DEF Follows

\* What is placed of a root's units is what such a walk says of it.
LEMMA PlaceIs ==
    ASSUME LotsOK, MovesOK, NEW root, NEW units, NEW end
    PROVE  \E f : /\ Follows(f, end)
                  /\ Place(root, units, end) =
                       f[[root |-> root, lot |-> root, units |-> units, moves |-> {}]]
<1>1. PICK f : f = (CHOOSE g : Follows(g, end)) /\ Follows(f, end)
  BY FollowExists
<1>2. Place(root, units, end) = f[[root |-> root, lot |-> root, units |-> units, moves |-> {}]]
  BY <1>1 DEF Place, Follows
<1> QED
  BY <1>1, <1>2

\* What of a parcel is where it was at the end of a year.
StayingOf(l, end) == UnitsAt(l, end) - Units(MovedSince(l, end))

\* No more moved since a year end than was there, and what did not is adjustable
\* by the statement of that year.
LEMMA UnitsStay ==
    ASSUME LotsOK, MovesOK, NEW l \in DOMAIN lots, NEW s \in Statements
    PROVE  /\ UnitsAt(l, s.end) \in Nat
           /\ Units(MovedSince(l, s.end)) \in Nat
           /\ Units(MovedSince(l, s.end)) <= UnitsAt(l, s.end)
           /\ StayingOf(l, s.end) <= lots[l].units
           /\ StayingOf(l, s.end) <= Adjustable(l)
           /\ StayingOf(l, s.end) <= HeldInYear(l, s)
<1>1. PICK end \in Nat : end = s.end
  BY AmitAssumption DEF Statements, YearEnds, FundDates
<1>2. PICK D \in SUBSET draws : D = DrawsOn(l)
  BY DEF DrawsOn
<1>3. PICK A : A = {d \in D : d.date <= end}
  OBVIOUS
<1>4. PICK B : B = {d \in D : d.date < YearStart(end)}
  OBVIOUS
<1>5. PICK R : R = RolloversOf(l)
  OBVIOUS
<1>6. PICK M : M = MovedSince(l, end)
  OBVIOUS
<1>7. A \in SUBSET D /\ B \in SUBSET D /\ R \in SUBSET D /\ M \in SUBSET D
  BY <1>2, <1>3, <1>4, <1>5, <1>6 DEF MovedSince, RolloversOf
<1>8. \A d \in D : d.date \in Nat
  BY <1>2, AmitAssumption DEF MovesOK, Draw, FundDates
<1>9. A \cap M = {}
  BY <1>2, <1>3, <1>6, <1>8 DEF MovedSince, RolloversOf
<1>10. B \subseteq A
  <2>1. PICK y \in Nat \ {0} : y = YearLength
    BY AmitAssumption
  <2>2. YearStart(end) \in Int /\ YearStart(end) <= end
    BY <2>1 DEF YearStart
  <2> QED
    BY <1>3, <1>4, <1>8, <2>2
<1>11. R \subseteq A \union M
  BY <1>1, <1>2, <1>3, <1>5, <1>6, <1>8 DEF MovedSince, RolloversOf
<1>12. PICK T \in SUBSET D : T = A \union M
  BY <1>7
<1>13. /\ IsFiniteSet(A) /\ IsFiniteSet(M) /\ \A t \in A \union M : t.units \in Nat
  BY <1>7, DrawnUnits
<1>14. Units(T) = Units(A) + Units(M)
  BY <1>9, <1>12, <1>13, UnitsTogether
<1>15. /\ Units(A) \in Nat /\ Units(B) \in Nat /\ Units(R) \in Nat /\ Units(M) \in Nat
       /\ Units(T) \in Nat /\ Units(D) \in Nat /\ Units(T) <= Units(D)
  BY <1>7, DrawnUnits
<1>16. Units(B) <= Units(A)
  BY <1>7, <1>10, DrawnUnits
<1>17. Units(R) <= Units(T)
  BY <1>7, <1>11, <1>12, DrawnUnits
<1>18. Units(D) <= lots[l].units /\ lots[l].units \in Nat
  BY <1>2 DEF MovesOK, Lot
<1>19. PICK a \in Nat, b \in Nat, r \in Nat, m \in Nat, u \in Nat, e \in Nat :
         /\ a = Units(A) /\ b = Units(B) /\ r = Units(R) /\ m = Units(M)
         /\ u = lots[l].units /\ e = Units(D)
  BY <1>15, <1>18
<1>20. b <= a /\ r <= a + m /\ a + m <= e /\ e <= u
  BY <1>14, <1>15, <1>16, <1>17, <1>18, <1>19
<1>21. UnitsAt(l, end) = u - a
  BY <1>2, <1>3, <1>19 DEF UnitsAt
<1>22. Adjustable(l) = u - r
  BY <1>5, <1>19 DEF Adjustable
<1>23. HeldInYear(l, s) = u - b
  BY <1>1, <1>2, <1>4, <1>19 DEF HeldInYear
<1>24. StayingOf(l, end) = (u - a) - m
  BY <1>6, <1>19, <1>21 DEF StayingOf
<1>25. /\ u - a \in Nat /\ m <= u - a /\ (u - a) - m <= u /\ (u - a) - m <= u - r
       /\ (u - a) - m <= u - b
  BY <1>20
<1> QED
  BY <1>1, <1>6, <1>19, <1>21, <1>22, <1>23, <1>24, <1>25

\* A move since the year end brought units to r.
CameBy(c, r, end) == LedInto(c, r) /\ c.date > end

\* The moves of a holding are the way from its root to where it is.
OnWay(h, end) ==
    /\ h.root \in DOMAIN lots /\ lots[h.root].date <= end
    /\ \/ h.moves = {} /\ h.lot = h.root
       \/ \E c \in h.moves : CameBy(c, h.lot, end)
    /\ \A d \in h.moves : d.lot = h.root \/ \E c \in h.moves : CameBy(c, d.lot, end)
    /\ \A c \in h.moves : CameBy(c, h.lot, end) \/ \E d \in h.moves : CameBy(c, d.lot, end)

\* A holding that the walk comes by: all its parcel had at the year end or got since.
Sits(h, s) ==
    /\ h \in Holding /\ h.lot \in DOMAIN lots
    /\ h.units = UnitsAt(h.lot, s.end)
    /\ \A d \in h.moves : d.lot < h.lot
    /\ TracesBack(h.lot, s)
    /\ OnWay(h, s.end)

\* What a group made traces back to what its sources trace back to.
LEMMA TraceOn ==
    ASSUME MovesOK, LotsOK, NEW s, NEW d \in draws, NEW r \in GroupLots(d.group), TracesBack(d.lot, s)
    PROVE  TracesBack(r, s)
<1>1. PICK l : l = d.lot /\ l \in DOMAIN lots
  BY DEF LotsOK
<1>2. l \in Sources(r)
  BY <1>1 DEF MovesOK, GroupLots, Sources
<1>3. l \in Ancestors(r)
  BY <1>1, <1>2 DEF Ancestors
<1>4. Ancestors(l) \subseteq Ancestors(r)
  BY <1>2 DEF Ancestors
<1> QED
  BY <1>1, <1>3, <1>4 DEF TracesBack

\* Every move of such a holding's parcel carries all of its own units, into a
\* parcel that has just these.
LEMMA CarrySits ==
    ASSUME LotsOK, MovesOK, NEW s \in Statements, NEW h, Sits(h, s),
           NEW d \in MovedSince(h.lot, s.end)
    PROVE  /\ d \in Carriers(h, s.end)
           /\ \A r : LedInto(d, r) =>
                 LET k == Carried(h, d, r, s.end)
                 IN  /\ Sits(k, s) /\ k.lot = r /\ k.units = d.units /\ k.root = h.root
                     /\ k.moves = h.moves \union {d} /\ h.lot < r
<1>1. PICK end \in Nat : end = s.end
  BY AmitAssumption DEF Statements, YearEnds, FundDates
<1>2. PICK l \in DOMAIN lots : l = h.lot
  BY DEF Sits
<1>3. /\ d \in draws /\ d.lot = l /\ d.date > end /\ d.kind # "sell"
      /\ d.units \in Nat \ {0} /\ d.date \in Nat
  BY <1>1, <1>2, AmitAssumption DEF MovedSince, RolloversOf, DrawsOn, MovesOK, Draw, FundDates
<1>4. LeftBy(h, d, end) \in Int /\ LeftBy(h, d, end) >= d.units
  <2>1. PICK M \in SUBSET draws : M = MovedSince(l, end)
    BY DEF MovedSince, RolloversOf, DrawsOn
  <2>2. PICK E \in SUBSET M : E = {c \in M : OlderMove(c, d)}
    OBVIOUS
  <2>3. d \in M /\ d \notin E
    BY <1>1, <1>2, <1>3, <2>1, <2>2, AmitAssumption DEF OlderMove, MovesOK, Draw
  <2>4. PICK F \in SUBSET M : F = E \union {d}
    BY <2>3
  <2>5. IsFiniteSet(E) /\ IsFiniteSet({d}) /\ E \cap {d} = {} /\ \A t \in E \union {d} : t.units \in Nat
    BY <1>3, <2>3, DrawnUnits, FS_Singleton
  <2>6. Units(F) = Units(E) + Units({d}) /\ Units(E) \in Nat
    BY <2>4, <2>5, UnitsTogether
  <2>7. Units({d}) = d.units
    BY <1>3, UnitsOfOne
  <2>8. Units(F) <= Units(M)
    BY DrawnUnits
  <2>9. Units(M) \in Nat /\ Units(M) <= UnitsAt(l, end) /\ UnitsAt(l, end) \in Nat
    BY <1>1, <2>1, UnitsStay
  <2>10. PICK u \in Nat, e \in Nat, m \in Nat, n \in Nat :
            /\ u = d.units /\ e = Units(E) /\ m = Units(M) /\ n = UnitsAt(l, end)
    BY <1>3, <2>6, <2>9
  <2>11. e + u <= m /\ m <= n
    BY <2>6, <2>7, <2>8, <2>9, <2>10
  <2>12. LeftBy(h, d, end) = n - e
    BY <1>1, <1>2, <2>1, <2>2, <2>10 DEF LeftBy, Sits
  <2>13. n - e \in Int /\ n - e >= u
    BY <2>11
  <2> QED
    BY <2>10, <2>12, <2>13
<1>5. d \in Carriers(h, end)
  <2>1. PICK a \in Int, u \in Nat \ {0} : a = LeftBy(h, d, end) /\ u = d.units
    BY <1>3, <1>4
  <2>2. a > 0
    BY <1>4, <2>1
  <2> QED
    BY <1>1, <2>1, <2>2 DEF Carriers
<1>6. ASSUME NEW r, LedInto(d, r), NEW k, k = Carried(h, d, r, end)
      PROVE  /\ Sits(k, s) /\ k.lot = r /\ k.units = d.units /\ k.root = h.root
             /\ k.moves = h.moves \union {d} /\ h.lot < r
  <2>1. r \in GroupLots(d.group) /\ lots[r].units = d.units
    BY <1>6 DEF LedInto
  <2>2. h \in Holding
    BY DEF Sits
  <2>3. k \in Holding /\ k.lot = r /\ r \in DOMAIN lots /\ h.lot < r
    BY <1>5, <1>6, <2>1, <2>2, CarriedIs
  <2>4. k.root = h.root /\ k.moves = h.moves \union {d}
        /\ k.units = Min({LeftBy(h, d, end), d.units})
    BY <1>6 DEF Carried
  <2>5. k.units = d.units
    <3>1. PICK a \in Int, u \in Int : a = LeftBy(h, d, end) /\ u = d.units
      BY <1>3, <1>4
    <3>2. Min({a, u}) = IF a <= u THEN a ELSE u
      BY MinMaxOfTwo
    <3>3. Min({a, u}) = u
      BY <1>4, <3>1, <3>2
    <3> QED
      BY <2>4, <3>1, <3>3
  <2>6. UnitsAt(r, end) = d.units
    <3>1. \A c \in DrawsOn(r) : ~(c.date <= end)
      <4> SUFFICES ASSUME NEW c \in DrawsOn(r) PROVE ~(c.date <= end)
        OBVIOUS
      <4>1. c \in draws /\ c.lot = r /\ c.date \in Nat
        BY AmitAssumption DEF DrawsOn, MovesOK, Draw, FundDates
      <4>2. lots[r].date <= c.date /\ lots[r].date = d.date
        BY <1>3, <2>1, <4>1 DEF MovesOK
      <4> QED
        BY <1>3, <4>1, <4>2
    <3>2. {c \in DrawsOn(r) : c.date <= end} = {}
      BY <3>1
    <3>3. Units({}) = 0
      BY <1>3, UnitsOfOne
    <3>4. PICK u \in Nat : u = lots[r].units /\ u = d.units
      BY <1>3, <2>1
    <3>5. u - 0 = u
      OBVIOUS
    <3> QED
      BY <3>2, <3>3, <3>4, <3>5 DEF UnitsAt
  <2>7. \A c \in k.moves : c.lot < k.lot
    <3>1. \A c \in h.moves : c.lot < h.lot
      BY DEF Sits
    <3>2. \A c \in h.moves : c.lot \in Nat
      BY <2>2 DEF Holding, MovesOK, Draw
    <3>3. h.lot \in Nat /\ r \in Nat
      BY <2>2, <2>3 DEF Holding
    <3> QED
      BY <1>2, <1>3, <2>3, <2>4, <3>1, <3>2, <3>3
  <2>8. TracesBack(k.lot, s)
    <3>1. TracesBack(d.lot, s)
      BY <1>2, <1>3 DEF Sits
    <3>2. TracesBack(r, s)
      BY <1>3, <2>1, <3>1, TraceOn
    <3> QED
      BY <2>3, <3>2
  <2>9. OnWay(k, end)
    <3>1. CameBy(d, k.lot, end) /\ d \in k.moves
      BY <1>3, <1>6, <2>3, <2>4 DEF CameBy
    <3>2. OnWay(h, end)
      BY <1>1 DEF Sits
    <3>3. \A c \in k.moves : c.lot = k.root \/ \E b \in k.moves : CameBy(b, c.lot, end)
      BY <1>2, <1>3, <2>4, <3>2 DEF OnWay
    <3>4. \A c \in k.moves : CameBy(c, k.lot, end) \/ \E b \in k.moves : CameBy(c, b.lot, end)
      BY <1>2, <1>3, <2>4, <3>1, <3>2 DEF OnWay
    <3> QED
      BY <2>4, <3>1, <3>2, <3>3, <3>4 DEF OnWay
  <2>10. Sits(k, s)
    BY <1>1, <2>3, <2>5, <2>6, <2>7, <2>8, <2>9 DEF Sits
  <2> QED
    BY <2>3, <2>4, <2>5, <2>10
<1> QED
  BY <1>1, <1>5, <1>6

\* A row of a placement: what stays in a parcel that traces back to the statement's
\* holding, and the way there.
RowIs(p, s) ==
    /\ p = [root |-> p.root, lot |-> p.lot, units |-> StayingOf(p.lot, s.end),
            moves |-> p.moves, by |-> "row"]
    /\ p.lot \in DOMAIN lots /\ p.moves \in SUBSET draws
    /\ TracesBack(p.lot, s) /\ OnWay(p, s.end)

\* P places the units of a holding, every one once, by ways that lead on from it.
PlacedWell(P, h, s) ==
    /\ IsFiniteSet(P) /\ Units(P) = h.units
    /\ \A p \in P : /\ p.units \in Nat \ {0} /\ p.root = h.root
                    /\ h.moves \subseteq p.moves
                    /\ \A d \in p.moves \ h.moves : d.lot \in Nat /\ d.lot >= h.lot
                    /\ p.by = "row" => RowIs(p, s)

\* What is placed of what one move carried.
PartOf(h, d, end, f) ==
    LET into == MatchingReplacement(d, lots[h.lot].acquired)
    IN  IF into = {} THEN Placed(h, d.units, h.moves \union {d}, "hand")
        ELSE UNION {f[Carried(h, d, r, end)] : r \in into}

\* P places what d carried of a holding, by ways that begin with it.
PartPlaced(P, h, d, s) ==
    /\ IsFiniteSet(P) /\ Units(P) = d.units
    /\ \A p \in P : /\ p.units \in Nat \ {0} /\ p.root = h.root
                    /\ h.moves \union {d} \subseteq p.moves
                    /\ \A e \in p.moves \ (h.moves \union {d}) :
                          e.lot \in Nat /\ h.lot < e.lot
                    /\ p.by = "row" => RowIs(p, s)

\* The holdings in newer parcels are placed well.
NewerWell(f, h, s) == \A k : Sits(k, s) /\ h.lot < k.lot => PlacedWell(f[k], k, s)

\* So is what a move carried into one of them.
LEMMA PartWell ==
    ASSUME LotsOK, MovesOK, NEW s \in Statements, NEW h, Sits(h, s),
           NEW f, NewerWell(f, h, s),
           NEW d \in MovedSince(h.lot, s.end), NEW P, P = PartOf(h, d, s.end, f)
    PROVE  PartPlaced(P, h, d, s)
<1> USE DEF PartPlaced
<1>1. d \in draws /\ d.lot = h.lot /\ d.units \in Nat \ {0}
  BY DEF MovedSince, RolloversOf, DrawsOn, MovesOK, Draw
<1>2. PICK into : into = MatchingReplacement(d, lots[h.lot].acquired)
  OBVIOUS
<1>3. /\ \A r \in into : LedInto(d, r)
      /\ into = {} \/ \E r : into = {r}
  BY <1>1, <1>2, IntoIs
<1>4. CASE into = {}
  <2>1. PICK q : q = [root |-> h.root, lot |-> h.lot, units |-> d.units,
                      moves |-> h.moves \union {d}, by |-> "hand"]
    OBVIOUS
  <2>2. P = {q}
    BY <1>2, <1>4, <2>1 DEF PartOf, Placed
  <2>3. /\ q.units = d.units /\ q.root = h.root /\ q.moves = h.moves \union {d}
        /\ q.by = "hand"
    BY <2>1
  <2>4. IsFiniteSet({q})
    BY FS_Singleton
  <2>5. Units({q}) = d.units
    <3>1. Units({q}) = q.units
      BY <1>1, <2>3, UnitsOfOne
    <3> QED
      BY <2>3, <3>1
  <2> QED
    BY <1>1, <2>2, <2>3, <2>4, <2>5
<1>5. CASE into # {}
  <2>1. PICK r : into = {r} /\ LedInto(d, r)
    BY <1>3, <1>5
  <2>2. PICK k : k = Carried(h, d, r, s.end)
    OBVIOUS
  <2>3. P = f[k]
    <3>1. P = UNION {f[Carried(h, d, x, s.end)] : x \in into}
      BY <1>2, <1>5 DEF PartOf
    <3>2. {f[Carried(h, d, x, s.end)] : x \in {r}} = {f[k]}
      BY <2>2
    <3> QED
      BY <2>1, <3>1, <3>2
  <2>4. /\ Sits(k, s) /\ k.lot = r /\ k.units = d.units /\ k.root = h.root
        /\ k.moves = h.moves \union {d} /\ h.lot < r
    BY <2>1, <2>2, CarrySits
  <2>5. PlacedWell(P, k, s)
    BY <2>3, <2>4 DEF NewerWell
  <2>6. h.lot \in Nat /\ r \in Nat
    BY <2>4 DEF Sits, Holding
  <2>7. IsFiniteSet(P) /\ Units(P) = d.units
    BY <2>4, <2>5 DEF PlacedWell
  <2>8. ASSUME NEW p \in P
        PROVE  /\ p.units \in Nat \ {0} /\ p.root = h.root
               /\ h.moves \union {d} \subseteq p.moves
               /\ \A e \in p.moves \ (h.moves \union {d}) :
                     e.lot \in Nat /\ h.lot < e.lot
               /\ p.by = "row" => RowIs(p, s)
    <3>1. /\ p.units \in Nat \ {0} /\ p.root = k.root /\ k.moves \subseteq p.moves
          /\ \A e \in p.moves \ k.moves : e.lot \in Nat /\ e.lot >= k.lot
          /\ p.by = "row" => RowIs(p, s)
      BY <2>5 DEF PlacedWell
    <3>2. ASSUME NEW e \in p.moves \ (h.moves \union {d}) PROVE e.lot \in Nat /\ h.lot < e.lot
      <4>1. e.lot \in Nat /\ e.lot >= r
        BY <2>4, <3>1, <3>2
      <4> QED
        BY <2>4, <2>6, <4>1
    <3> QED
      BY <2>4, <3>1, <3>2
  <2> QED
    BY <2>7, <2>8
<1> QED
  BY <1>4, <1>5

\* The units of many parts are the units of all of them.
LEMMA UnitsOfParts ==
    ASSUME NEW C, IsFiniteSet(C), \A d \in C : d.units \in Nat,
           NEW F, \A d \in C : /\ IsFiniteSet(F[d]) /\ \A p \in F[d] : p.units \in Nat
                               /\ Units(F[d]) = d.units,
           \A d, e \in C : d # e => F[d] \cap F[e] = {}
    PROVE  LET U == UNION {F[d] : d \in C}
           IN  IsFiniteSet(U) /\ (\A p \in U : p.units \in Nat) /\ Units(U) = Units(C)
<1>1. PICK U : U = UNION {F[d] : d \in C}
  OBVIOUS
<1>2. PICK g : g = [p \in U |-> p.units]
  OBVIOUS
<1>3. PICK t : t = [d \in C |-> d.units]
  OBVIOUS
<1>4. \A d \in C : \A p \in F[d] : p \in U /\ g[p] = p.units /\ g[p] \in Int
  BY <1>1, <1>2
<1>5. ASSUME NEW d \in C PROVE t[d] = SumOver(g, F[d])
  <2>1. IsFiniteSet(F[d]) /\ \A p \in F[d] : p.units \in Nat /\ g[p] = p.units
    BY <1>4
  <2>2. Units(F[d]) = SumOver(g, F[d])
    BY <2>1, UnitsAre
  <2> QED
    BY <1>3, <2>2
<1>6. IsFiniteSet(U) /\ SumOver(g, U) = SumOver(t, C)
  <2>1. NoneShared(F, C)
    BY DEF NoneShared
  <2>2. SumsAre(g, F, t, C)
    BY <1>4, <1>5 DEF SumsAre
  <2>3. IsFiniteSet(AllOf(F, C)) /\ SumOver(g, AllOf(F, C)) = SumOver(t, C)
    BY <2>1, <2>2, SumOfParts
  <2> QED
    BY <1>1, <2>3 DEF AllOf
<1>7. \A p \in U : p.units \in Nat /\ g[p] = p.units
  BY <1>1, <1>2
<1>8. Units(U) = SumOver(g, U)
  BY <1>6, <1>7, UnitsAre
<1>9. Units(C) = SumOver(t, C)
  BY <1>3, UnitsAre
<1> QED
  BY <1>1, <1>6, <1>7, <1>8, <1>9

\* If newer holdings are placed well, so is this one.
LEMMA PlacedWellHere ==
    ASSUME LotsOK, MovesOK, NEW s \in Statements, NEW h, Sits(h, s),
           NEW f, Follows(f, s.end),
           \A k : Sits(k, s) /\ h.lot < k.lot => PlacedWell(f[k], k, s)
    PROVE  PlacedWell(f[h], h, s)
<1>1. PICK l \in DOMAIN lots : l = h.lot /\ l \in Nat
  BY DEF Sits, LotsOK
<1>2. PICK M \in SUBSET draws : M = MovedSince(l, s.end)
  BY DEF MovedSince, RolloversOf, DrawsOn
<1>3. Carriers(h, s.end) = M
  <2>1. \A d \in M : d \in Carriers(h, s.end)
    BY <1>1, <1>2, CarrySits
  <2> QED
    BY <1>1, <1>2, <2>1 DEF Carriers
<1>4. PICK F : F = [d \in M |-> PartOf(h, d, s.end, f)]
  OBVIOUS
<1>5. ASSUME NEW d \in M
      PROVE  /\ IsFiniteSet(F[d]) /\ Units(F[d]) = d.units
             /\ \A p \in F[d] : /\ p.units \in Nat \ {0} /\ p.root = h.root
                                /\ h.moves \union {d} \subseteq p.moves
                                /\ \A e \in p.moves \ (h.moves \union {d}) :
                                      e.lot \in Nat /\ h.lot < e.lot
                                /\ p.by = "row" => RowIs(p, s)
  <2>1. d \in MovedSince(h.lot, s.end)
    BY <1>1, <1>2
  <2>2. PICK P : P = F[d]
    OBVIOUS
  <2>3. P = PartOf(h, d, s.end, f)
    BY <1>4, <2>2
  <2>4. NewerWell(f, h, s)
    BY DEF NewerWell
  <2>5. PartPlaced(P, h, d, s)
    BY <2>1, <2>3, <2>4, PartWell
  <2> QED
    BY <2>2, <2>5 DEF PartPlaced
<1>6. \A d \in M : d.lot = l /\ d \notin h.moves /\ d.units \in Nat
  <2>1. \A d \in M : d \in draws /\ d.lot = l /\ d.units \in Nat
    BY <1>2 DEF MovedSince, RolloversOf, DrawsOn, MovesOK, Draw
  <2>2. \A d \in h.moves : d.lot < l
    BY <1>1 DEF Sits
  <2> QED
    BY <1>1, <2>1, <2>2
<1>7. \A d, e \in M : d # e => F[d] \cap F[e] = {}
  <2> SUFFICES ASSUME NEW d \in M, NEW e \in M, d # e, NEW p \in F[d], p \in F[e] PROVE FALSE
    OBVIOUS
  <2>1. d \in p.moves
    BY <1>5
  <2>2. d \notin h.moves \union {e}
    BY <1>6
  <2>3. h.lot < d.lot
    BY <1>5, <2>1, <2>2
  <2> QED
    BY <1>1, <1>6, <2>3
<1>8. PICK U : U = UNION {F[d] : d \in M}
  OBVIOUS
<1>9. IsFiniteSet(U) /\ (\A p \in U : p.units \in Nat) /\ Units(U) = Units(M)
  <2>1. IsFiniteSet(M) /\ \A d \in M : d.units \in Nat
    BY DrawnUnits
  <2>2. \A d \in M : /\ IsFiniteSet(F[d]) /\ \A p \in F[d] : p.units \in Nat
                     /\ Units(F[d]) = d.units
    BY <1>5
  <2>3. LET V == UNION {F[d] : d \in M}
        IN  IsFiniteSet(V) /\ (\A p \in V : p.units \in Nat) /\ Units(V) = Units(M)
    BY <1>7, <2>1, <2>2, UnitsOfParts
  <2> QED
    BY <1>8, <2>3
<1>10. PICK n \in Nat : n = h.units - Units(M) /\ n = StayingOf(l, s.end)
  <2>1. PICK a \in Nat, b \in Nat : a = UnitsAt(l, s.end) /\ b = Units(M) /\ b <= a
    BY <1>2, UnitsStay
  <2>2. PICK c \in Nat : c = a - b
    BY <2>1
  <2>3. h.units = a
    BY <1>1, <2>1 DEF Sits
  <2> QED
    BY <1>2, <2>1, <2>2, <2>3 DEF StayingOf
<1>11. PICK q : q = [root |-> h.root, lot |-> h.lot, units |-> n, moves |-> h.moves, by |-> "row"]
  OBVIOUS
<1>12. PICK Z : Z = IF n > 0 THEN {q} ELSE {}
  OBVIOUS
<1>13. f[h] = Z \union U
  <2>1. f[h] = PlacedFrom(h, s.end, f)
    BY DEF Follows, Sits
  <2>2. U = UNION {PartOf(h, d, s.end, f) : d \in M}
    BY <1>4, <1>8
  <2>3. Z = IF h.units - Units(MovedSince(h.lot, s.end)) > 0
            THEN Placed(h, h.units - Units(MovedSince(h.lot, s.end)), h.moves, "row") ELSE {}
    BY <1>1, <1>2, <1>10, <1>11, <1>12 DEF Placed
  <2>4. PlacedFrom(h, s.end, f) =
          (IF h.units - Units(MovedSince(h.lot, s.end)) > 0
           THEN Placed(h, h.units - Units(MovedSince(h.lot, s.end)), h.moves, "row") ELSE {})
          \union UNION {PartOf(h, d, s.end, f) : d \in Carriers(h, s.end)}
    BY DEF PlacedFrom, PartOf
  <2> QED
    BY <1>3, <2>1, <2>2, <2>3, <2>4
<1>14. /\ q.root = h.root /\ q.lot = l /\ q.units = n /\ q.moves = h.moves /\ q.by = "row"
  BY <1>1, <1>11
<1>15. RowIs(q, s)
  <2>1. OnWay(h, s.end) /\ TracesBack(l, s) /\ h.moves \in SUBSET draws
    BY <1>1 DEF Sits, Holding
  <2>2. OnWay(q, s.end)
    BY <1>1, <1>14, <2>1 DEF OnWay
  <2> QED
    BY <1>1, <1>10, <1>11, <1>14, <2>1, <2>2 DEF RowIs
<1>16. IsFiniteSet(Z) /\ Z \cap U = {} /\ (\A p \in Z : p.units \in Nat) /\ Units(Z) = n
  <2>1. CASE n > 0
    <3>1. Z = {q} /\ IsFiniteSet({q})
      BY <1>12, <2>1, FS_Singleton
    <3>2. Units({q}) = n
      <4>1. Units({q}) = q.units
        BY <1>14, UnitsOfOne
      <4> QED
        BY <1>14, <4>1
    <3>3. q \notin U
      BY <1>5, <1>6, <1>8, <1>14
    <3> QED
      BY <1>14, <3>1, <3>2, <3>3
  <2>2. CASE n = 0
    <3>1. Z = {}
      BY <1>12, <2>2
    <3>2. Units({}) = 0
      BY <1>14, UnitsOfOne
    <3> QED
      BY <2>2, <3>1, <3>2, FS_EmptySet
  <2> QED
    BY <2>1, <2>2
<1>17. IsFiniteSet(f[h]) /\ Units(f[h]) = h.units
  <2>1. IsFiniteSet(Z \union U)
    BY <1>9, <1>16, FS_Union
  <2>2. Units(Z \union U) = Units(Z) + Units(U)
    BY <1>9, <1>16, UnitsTogether
  <2>3. PICK a \in Nat, b \in Nat : a = h.units /\ b = Units(M)
    <3>1. Units(M) \in Nat /\ h.units \in Nat
      BY <1>1, <1>2, UnitsStay DEF Sits
    <3> QED
      BY <3>1
  <2>4. n = a - b /\ n + b = a
    BY <1>10, <2>3
  <2> QED
    BY <1>9, <1>13, <1>16, <2>1, <2>2, <2>3, <2>4
<1>18. ASSUME NEW p \in f[h]
       PROVE  /\ p.units \in Nat \ {0} /\ p.root = h.root
              /\ h.moves \subseteq p.moves
              /\ \A d \in p.moves \ h.moves : d.lot \in Nat /\ d.lot >= h.lot
              /\ p.by = "row" => RowIs(p, s)
  <2>1. CASE p \in Z
    <3>1. p = q /\ n > 0
      BY <1>12, <2>1
    <3> QED
      BY <1>14, <1>15, <3>1
  <2>2. CASE p \in U
    <3>1. PICK d \in M : p \in F[d]
      BY <1>8, <2>2
    <3>2. \A e \in p.moves \ h.moves : e.lot \in Nat /\ e.lot >= h.lot
      <4> SUFFICES ASSUME NEW e \in p.moves \ h.moves PROVE e.lot \in Nat /\ e.lot >= h.lot
        OBVIOUS
      <4>1. CASE e = d
        BY <1>1, <1>6, <4>1
      <4>2. CASE e # d
        <5>1. e.lot \in Nat /\ h.lot < e.lot
          BY <1>5, <3>1, <4>2
        <5> QED
          BY <1>1, <5>1
      <4> QED
        BY <4>1, <4>2
    <3> QED
      BY <1>5, <3>1, <3>2
  <2> QED
    BY <1>13, <2>1, <2>2
<1> QED
  BY <1>17, <1>18 DEF PlacedWell

\* So every holding that the walk comes by is placed well.
LEMMA AllPlacedWell ==
    ASSUME LotsOK, MovesOK, NEW s \in Statements, NEW f, Follows(f, s.end),
           NEW h, Sits(h, s)
    PROVE  PlacedWell(f[h], h, s)
<1>1. PICK K \in Nat : \A l \in DOMAIN lots : l < K
  <2>1. PICK T : T = DOMAIN lots \union {0}
    OBVIOUS
  <2>2. IsFiniteSet(T) /\ T \subseteq Int /\ T # {} /\ T \subseteq Nat
    BY <2>1, FS_AddElement DEF LotsOK
  <2>3. PICK m \in T : \A x \in T : x <= m
    BY <2>2, HasMax
  <2>4. m + 1 \in Nat /\ \A l \in DOMAIN lots : l < m + 1
    BY <2>1, <2>2, <2>3
  <2> QED
    BY <2>4
<1>2. PICK S : S = {k \in 0 .. K : \A m : Sits(m, s) /\ m.lot >= K - k => PlacedWell(f[m], m, s)}
  OBVIOUS
<1>3. \A m : Sits(m, s) => m.lot \in DOMAIN lots /\ m.lot \in Nat
  BY DEF Sits, LotsOK
<1>4. 0 \in S
  <2>1. \A m : Sits(m, s) => ~(m.lot >= K - 0)
    BY <1>1, <1>3
  <2> QED
    BY <1>2, <2>1
<1>5. ASSUME NEW k \in 1 .. K, k - 1 \in S PROVE k \in S
  <2>1. \A m : Sits(m, s) /\ m.lot >= K - (k - 1) => PlacedWell(f[m], m, s)
    BY <1>2, <1>5
  <2>2. ASSUME NEW m, Sits(m, s), m.lot >= K - k PROVE PlacedWell(f[m], m, s)
    <3>1. ASSUME NEW j, Sits(j, s), m.lot < j.lot PROVE PlacedWell(f[j], j, s)
      <4>1. j.lot >= K - (k - 1)
        BY <1>3, <2>2, <3>1
      <4> QED
        BY <2>1, <3>1, <4>1
    <3> QED
      BY <2>2, <3>1, PlacedWellHere
  <2>3. k \in 0 .. K
    OBVIOUS
  <2> QED
    BY <1>2, <2>2, <2>3
<1>6. K \in S
  <2>1. \A k \in 0 .. K : k \in S
    BY <1>4, <1>5, Climb
  <2> QED
    BY <2>1
<1>7. h.lot >= K - K
  BY <1>3
<1> QED
  BY <1>2, <1>6, <1>7

-----------------------------------------------------------------------------
(* The rows of a statement. *)

\* The units of a parcel held at the year end, where they were then.
RootOf(l, end) == [root |-> l, lot |-> l, units |-> UnitsAt(l, end), moves |-> {}]

\* They are placed well.
LEMMA RootPlaced ==
    ASSUME LotsOK, MovesOK, NEW s \in Statements, NEW l \in HeldFor(s)
    PROVE  PlacedWell(Place(l, UnitsAt(l, s.end), s.end), RootOf(l, s.end), s)
<1>1. /\ l \in DOMAIN lots /\ l \in Nat /\ OfHolding(l, s)
      /\ lots[l].date <= s.end
  BY DEF HeldFor, LotsOK
<1>2. UnitsAt(l, s.end) \in Nat
  BY <1>1, UnitsStay
<1>3. PICK h : h = RootOf(l, s.end)
  OBVIOUS
<1>4. /\ h.root = l /\ h.lot = l /\ h.units = UnitsAt(l, s.end) /\ h.moves = {}
      /\ h \in Holding
  BY <1>1, <1>2, <1>3 DEF RootOf, Holding
<1>5. OnWay(h, s.end)
  BY <1>1, <1>4 DEF OnWay
<1>6. TracesBack(l, s)
  BY <1>1 DEF TracesBack
<1>7. Sits(h, s)
  BY <1>1, <1>4, <1>5, <1>6 DEF Sits
<1>8. PICK f : Follows(f, s.end) /\ Place(l, UnitsAt(l, s.end), s.end) = f[h]
  BY <1>3, PlaceIs DEF RootOf
<1>9. PlacedWell(f[h], h, s)
  BY <1>7, <1>8, AllPlacedWell
<1> QED
  BY <1>3, <1>8, <1>9

\* All of a statement's units are placed, and each of them once.
LEMMA PlacementWell ==
    ASSUME LotsOK, MovesOK, NEW s \in Statements
    PROVE  /\ IsFiniteSet(Placement(s))
           /\ \A p \in Placement(s) : /\ p.units \in Nat \ {0}
                                      /\ p.by = "row" => RowIs(p, s)
           /\ Units(Placement(s)) =
                 SumOver([l \in HeldFor(s) |-> UnitsAt(l, s.end)], HeldFor(s))
<1>1. PICK own : own = HeldFor(s)
  OBVIOUS
<1>2. IsFiniteSet(own)
  BY <1>1, FS_Subset DEF HeldFor, LotsOK
<1>3. PICK F : F = [l \in own |-> Place(l, UnitsAt(l, s.end), s.end)]
  OBVIOUS
<1>4. PICK t : t = [l \in own |-> UnitsAt(l, s.end)]
  OBVIOUS
<1>5. PICK U : U = Placement(s)
  OBVIOUS
<1>6. U = AllOf(F, own)
  BY <1>1, <1>3, <1>5 DEF AllOf, Placement
<1>7. PICK g : g = [p \in U |-> p.units]
  OBVIOUS
<1>8. ASSUME NEW l \in own
      PROVE  /\ IsFiniteSet(F[l]) /\ Units(F[l]) = t[l]
             /\ \A p \in F[l] : /\ p.units \in Nat \ {0} /\ p.root = l
                                /\ p.by = "row" => RowIs(p, s)
  <2>1. PICK h : h = RootOf(l, s.end)
    OBVIOUS
  <2>2. PICK P : P = F[l]
    OBVIOUS
  <2>3. P = Place(l, UnitsAt(l, s.end), s.end)
    BY <1>3, <2>2
  <2>4. PlacedWell(P, h, s)
    BY <1>1, <2>1, <2>3, RootPlaced
  <2>5. h.root = l /\ h.units = t[l]
    BY <1>4, <2>1 DEF RootOf
  <2> QED
    BY <2>2, <2>4, <2>5 DEF PlacedWell
<1>9. NoneShared(F, own)
  BY <1>8 DEF NoneShared
<1>10. \A l \in own : \A p \in F[l] : p \in U /\ g[p] = p.units
  BY <1>6, <1>7 DEF AllOf
<1>11. SumsAre(g, F, t, own)
  <2>1. ASSUME NEW l \in own
        PROVE  /\ IsFiniteSet(F[l]) /\ t[l] = SumOver(g, F[l])
               /\ \A z \in F[l] : g[z] \in Int
    <3>1. PICK P : P = F[l]
      OBVIOUS
    <3>2. IsFiniteSet(P) /\ Units(P) = t[l] /\ \A p \in P : p.units \in Nat /\ g[p] = p.units
      BY <1>8, <1>10, <3>1
    <3>3. Units(P) = SumOver(g, P)
      BY <3>2, UnitsAre
    <3> QED
      BY <3>1, <3>2, <3>3
  <2> QED
    BY <2>1 DEF SumsAre
<1>12. IsFiniteSet(U) /\ SumOver(g, U) = SumOver(t, own)
  BY <1>2, <1>6, <1>9, <1>11, SumOfParts
<1>13. \A p \in U : p.units \in Nat \ {0} /\ (p.by = "row" => RowIs(p, s)) /\ g[p] = p.units
  BY <1>6, <1>7, <1>8 DEF AllOf
<1>14. Units(U) = SumOver(g, U)
  BY <1>12, <1>13, UnitsAre
<1> QED
  BY <1>1, <1>4, <1>5, <1>12, <1>13, <1>14

\* No two moves have brought units to one parcel.
LEMMA CameByOne ==
    ASSUME ~Twins, NEW c \in draws, NEW d \in draws, NEW r, NEW end,
           CameBy(c, r, end), CameBy(d, r, end)
    PROVE  c = d
BY DEF Twins, CameBy, LedInto, GroupLots

\* Two ways that end at one parcel: every move of one is a move of the other.
LEMMA WayWithin ==
    ASSUME LotsOK, MovesOK, ~Twins, NEW end \in Nat,
           NEW p, NEW q, OnWay(p, end), OnWay(q, end), p.lot = q.lot,
           p.moves \in SUBSET draws, q.moves \in SUBSET draws
    PROVE  p.moves \subseteq q.moves
<1> SUFFICES ASSUME ~(p.moves \subseteq q.moves) PROVE FALSE
  OBVIOUS
<1>1. PICK X : X = {c \in p.moves : c \notin q.moves}
  OBVIOUS
<1>2. PICK L : L = {l \in DOMAIN lots : \E c \in X : c.lot = l}
  OBVIOUS
<1>3. IsFiniteSet(L) /\ L \subseteq Int /\ L \subseteq Nat /\ L # {}
  BY <1>1, <1>2, FS_Subset DEF LotsOK
<1>4. PICK m \in L : \A x \in L : x <= m
  BY <1>3, HasMax
<1>5. PICK c \in X : c.lot = m
  BY <1>2
<1>6. \A r : CameBy(c, r, end) => /\ r \in DOMAIN lots /\ c.lot < r
                                  /\ lots[r].date > end
  BY <1>1, <1>5 DEF CameBy, LedInto, GroupLots, MovesOK
<1>7. \A r : r = q.root => ~CameBy(c, r, end)
  <2>1. q.root \in DOMAIN lots /\ lots[q.root].date <= end
    BY DEF OnWay
  <2>2. lots[q.root].date \in Nat
    BY <2>1, AmitAssumption DEF MovesOK, Lot, FundDates
  <2> QED
    BY <1>6, <2>1, <2>2
<1>8. CASE CameBy(c, p.lot, end)
  <2>1. q.lot # q.root
    BY <1>7, <1>8
  <2>2. PICK d \in q.moves : CameBy(d, q.lot, end)
    BY <2>1 DEF OnWay
  <2>3. c = d
    BY <1>1, <1>5, <1>8, <2>2, CameByOne
  <2> QED
    BY <1>1, <1>5, <2>3
<1>9. CASE \E d \in p.moves : CameBy(c, d.lot, end)
  <2>1. PICK d \in p.moves : CameBy(c, d.lot, end)
    BY <1>9
  <2>2. d.lot \in DOMAIN lots /\ m < d.lot
    BY <1>5, <1>6, <2>1
  <2>3. d.lot \notin L
    BY <1>3, <1>4, <2>2 DEF LotsOK
  <2>4. d \in q.moves
    BY <1>1, <1>2, <2>1, <2>2, <2>3
  <2>5. d.lot # q.root
    BY <1>7, <2>1
  <2>6. PICK e \in q.moves : CameBy(e, d.lot, end)
    BY <2>4, <2>5 DEF OnWay
  <2>7. c = e
    BY <1>1, <1>5, <2>1, <2>6, CameByOne
  <2> QED
    BY <1>1, <1>5, <2>6, <2>7
<1>10. CameBy(c, p.lot, end) \/ \E d \in p.moves : CameBy(c, d.lot, end)
  BY <1>1, <1>5 DEF OnWay
<1> QED
  BY <1>8, <1>9, <1>10

\* So both are the same way, from the same parcel.
LEMMA WayUnique ==
    ASSUME LotsOK, MovesOK, ~Twins, NEW end \in Nat,
           NEW p, NEW q, OnWay(p, end), OnWay(q, end), p.lot = q.lot,
           p.moves \in SUBSET draws, q.moves \in SUBSET draws
    PROVE  p.moves = q.moves /\ p.root = q.root
<1>1. p.moves = q.moves
  BY WayWithin
<1>2. CASE p.moves = {}
  BY <1>1, <1>2 DEF OnWay
<1>3. CASE p.moves # {}
  <2>1. PICK L : L = {l \in DOMAIN lots : \E c \in p.moves : c.lot = l}
    OBVIOUS
  <2>2. IsFiniteSet(L) /\ L \subseteq Int /\ L \subseteq Nat /\ L # {}
    BY <1>3, <2>1, FS_Subset DEF LotsOK
  <2>3. PICK m \in L : \A x \in L : m <= x
    BY <2>2, HasMin
  <2>4. PICK d \in p.moves : d.lot = m
    BY <2>1
  <2>5. ASSUME NEW c \in p.moves PROVE ~CameBy(c, d.lot, end)
    <3>1. SUFFICES ASSUME CameBy(c, d.lot, end) PROVE FALSE
      OBVIOUS
    <3>2. c.lot < m /\ c.lot \in L
      BY <2>1, <2>4, <3>1 DEF CameBy, LedInto, MovesOK, LotsOK
    <3>3. PICK k : k = c.lot
      OBVIOUS
    <3>4. k \in Int /\ m \in Int /\ m <= k /\ k < m
      BY <2>2, <2>3, <3>2, <3>3
    <3> QED
      BY <3>4
  <2>6. d.lot = p.root
    BY <2>5 DEF OnWay
  <2>7. d.lot = q.root
    BY <1>1, <2>5 DEF OnWay
  <2> QED
    BY <1>1, <2>6, <2>7
<1> QED
  BY <1>2, <1>3

\* Rows are as many as their parcels when each is on a parcel of its own.
LEMMA RowsOnLots ==
    ASSUME NEW T, IsFiniteSet(T)
    PROVE  Cardinality({r.lot : r \in T}) = Cardinality(T)
              <=> \A p, q \in T : p.lot = q.lot => p = q
<1>1. PICK V : V = {r.lot : r \in T}
  OBVIOUS
<1>2. PICK b : b = [r \in T |-> r.lot]
  OBVIOUS
<1>3. b \in [T -> V] /\ \A v \in V : \E r \in T : b[r] = v
  BY <1>1, <1>2
<1>4. b \in Surjection(T, V)
  BY <1>3 DEF Surjection
<1>5. b \in Injection(T, V) <=> \A p, q \in T : p.lot = q.lot => p = q
  <2>1. \A p, q \in T : b[p] = b[q] <=> p.lot = q.lot
    BY <1>2
  <2>2. b \in Injection(T, V) <=> \A p, q \in T : b[p] = b[q] => p = q
    BY <1>3 DEF Injection, IsInjective
  <2> QED
    BY <2>1, <2>2
<1>6. Cardinality(V) = Cardinality(T) <=> b \in Injection(T, V)
  BY <1>4, FS_Surjection
<1> QED
  BY <1>1, <1>5, <1>6

\* The rows derived from a statement are rows a hand could have entered.
LEMMA RowsAllowed ==
    ASSUME LotsOK, MovesOK, NEW s \in Statements
    PROVE  \A r \in GeneratedRows(s) : RowAllowed(s, r.lot, r.units) /\ r.units \in Nat \ {0}
<1> SUFFICES ASSUME NEW r \in GeneratedRows(s)
             PROVE  RowAllowed(s, r.lot, r.units) /\ r.units \in Nat \ {0}
  OBVIOUS
<1>1. RowIs(r, s) /\ r.units \in Nat \ {0}
  BY PlacementWell DEF GeneratedRows
<1>2. PICK l : l = r.lot
  OBVIOUS
<1>3. l \in DOMAIN lots /\ TracesBack(l, s)
  BY <1>1, <1>2 DEF RowIs
<1>4. r.units = StayingOf(l, s.end)
  <2>1. PICK e : e = [root |-> r.root, lot |-> r.lot, units |-> StayingOf(r.lot, s.end),
                      moves |-> r.moves, by |-> "row"]
    OBVIOUS
  <2>2. e.units = StayingOf(r.lot, s.end)
    BY <2>1
  <2>3. r = e
    BY <1>1, <2>1 DEF RowIs
  <2> QED
    BY <1>2, <2>2, <2>3
<1>5. RowAllowed(s, l, r.units)
  BY <1>3, <1>4, UnitsStay DEF RowAllowed
<1> QED
  BY <1>1, <1>2, <1>5

\* And there is one for a parcel, unless a transfer moved two that are alike.
LEMMA RowsUnique ==
    ASSUME LotsOK, MovesOK, ~Twins, NEW s \in Statements
    PROVE  \A p, q \in GeneratedRows(s) : p.lot = q.lot => p = q
<1> SUFFICES ASSUME NEW p \in GeneratedRows(s), NEW q \in GeneratedRows(s), p.lot = q.lot
             PROVE  p = q
  OBVIOUS
<1>1. RowIs(p, s) /\ RowIs(q, s)
  BY PlacementWell DEF GeneratedRows
<1>2. s.end \in Nat
  BY AmitAssumption DEF Statements, YearEnds, FundDates
<1>3. p.moves = q.moves /\ p.root = q.root
  BY <1>1, <1>2, WayUnique DEF RowIs
<1>4. PICK e : e = [root |-> p.root, lot |-> p.lot, units |-> StayingOf(p.lot, s.end),
                    moves |-> p.moves, by |-> "row"]
  OBVIOUS
<1>5. p = e
  BY <1>1, <1>4 DEF RowIs
<1>6. q = e
  BY <1>1, <1>3, <1>4 DEF RowIs
<1> QED
  BY <1>5, <1>6

\* What the writes keep makes both properties of a placement hold.
LEMMA PlacementHolds ==
    ASSUME LotsOK, MovesOK
    PROVE  EveryUnitPlaced /\ GenerationNeverRefused
<1>1. EveryUnitPlaced
  BY PlacementWell DEF EveryUnitPlaced
<1>2. ASSUME ~Twins, NEW s \in Statements PROVE GenerationAllowed(s)
  <2>1. PICK T : T = GeneratedRows(s)
    OBVIOUS
  <2>2. IsFiniteSet(T)
    <3>1. IsFiniteSet(Placement(s)) /\ T \in SUBSET Placement(s)
      BY <2>1, PlacementWell DEF GeneratedRows
    <3> QED
      BY <3>1, FS_Subset
  <2>3. \A p, q \in T : p.lot = q.lot => p = q
    BY <1>2, <2>1, RowsUnique
  <2>4. Cardinality({r.lot : r \in T}) = Cardinality(T)
    BY <2>2, <2>3, RowsOnLots
  <2>5. \A r \in T : RowAllowed(s, r.lot, r.units)
    BY <2>1, RowsAllowed
  <2> QED
    BY <2>1, <2>4, <2>5 DEF GenerationAllowed
<1> QED
  BY <1>1, <1>2 DEF GenerationNeverRefused

-----------------------------------------------------------------------------
(* What the writes keep of the parcels and the draws. *)

\* A new group's number is new to the draws and to the parcels.
LEMMA NextGroupNew ==
    ASSUME LotsOK, MovesOK
    PROVE  /\ NextGroup \in Nat /\ NextGroup > 0
           /\ \A d \in draws : d.group # NextGroup
           /\ \A l \in DOMAIN lots : lots[l].group # NextGroup
<1>1. PICK G : G = {d.group : d \in draws}
  OBVIOUS
<1>2. IsFiniteSet(G) /\ G \subseteq Nat
  <2>1. PICK f : f = [d \in draws |-> d.group]
    OBVIOUS
  <2>2. G = {f[d] : d \in draws}
    BY <1>1, <2>1
  <2>3. IsFiniteSet({f[d] : d \in draws})
    BY <2>1, MadeFinite DEF MovesOK
  <2> QED
    BY <1>1, <2>2, <2>3 DEF MovesOK, Draw
<1>3. PICK S : S = G \union {0}
  OBVIOUS
<1>4. IsFiniteSet(S) /\ S \subseteq Int /\ S \subseteq Nat /\ S # {}
  BY <1>2, <1>3, FS_AddElement
<1>5. Max(S) \in S /\ \A x \in S : x <= Max(S)
  BY <1>4, MaxFacts
<1>6. PICK m \in Nat : m = Max(S) /\ \A x \in S : x <= m
  BY <1>4, <1>5
<1>7. NextGroup = 1 + m
  BY <1>1, <1>3, <1>6 DEF NextGroup
<1>8. NextGroup \in Nat /\ NextGroup > 0 /\ NextGroup \notin S
  BY <1>4, <1>6, <1>7
<1>9. \A d \in draws : d.group # NextGroup
  BY <1>1, <1>3, <1>8
<1>10. \A l \in DOMAIN lots : lots[l].group # NextGroup
  <2> SUFFICES ASSUME NEW l \in DOMAIN lots, lots[l].group = NextGroup PROVE FALSE
    OBVIOUS
  <2>1. lots[l].group # 0
    BY <1>8
  <2> QED
    BY <1>9, <2>1 DEF MovesOK
<1> QED
  BY <1>8, <1>9, <1>10

\* A group's draws, each on a parcel of its own that has the units and is there by then.
GroupDrawn(drawn) ==
    /\ IsFiniteSet(drawn) /\ drawn \subseteq Draw
    /\ \A d \in drawn : /\ d.group = NextGroup /\ d.lot \in DOMAIN lots
                        /\ lots[d.lot].date <= d.date /\ d.units <= Remaining(d.lot)
    /\ \A d, e \in drawn : d.lot = e.lot => d = e

\* New parcels, bought or made by that group, with one for what each transfer moved.
GroupMade(drawn) ==
    /\ DOMAIN lots \subseteq DOMAIN lots' /\ \A l \in DOMAIN lots : lots'[l] = lots[l]
    /\ \A n \in DOMAIN lots' \ DOMAIN lots :
          /\ n \in Nat /\ n >= NextLot /\ lots'[n] \in Lot
          /\ \/ lots'[n].group = 0
             \/ /\ lots'[n].group = NextGroup /\ drawn # {}
                /\ \A d \in drawn : lots'[n].date = d.date
    /\ \A d \in drawn : d.kind = "transfer" =>
          \E n \in DOMAIN lots' \ DOMAIN lots :
             /\ lots'[n].group = NextGroup /\ lots'[n].units = d.units
             /\ lots'[n].acquired = lots[d.lot].acquired

\* No parcel is overdrawn by such a group.
LEMMA GroupFits ==
    ASSUME LotsOK, MovesOK, NEW drawn, GroupDrawn(drawn), draws' = draws \union drawn,
           NEW l \in DOMAIN lots
    PROVE  Units(DrawsOn(l)') <= lots[l].units
<1>1. PICK D \in SUBSET draws : D = DrawsOn(l)
  BY DEF DrawsOn
<1>2. PICK E : E = {d \in drawn : d.lot = l}
  OBVIOUS
<1>3. DrawsOn(l)' = D \union E
  BY <1>1, <1>2 DEF DrawsOn
<1>4. Units(D) \in Nat /\ Units(D) <= lots[l].units /\ lots[l].units \in Nat
  BY <1>1, DrawnUnits DEF MovesOK, Lot
<1>5. CASE E = {}
  BY <1>3, <1>4, <1>5
<1>6. CASE E # {}
  <2>1. PICK d \in E : TRUE
    BY <1>6
  <2>2. E = {d} /\ d.units \in Nat /\ d.group = NextGroup /\ d.units <= Remaining(l)
    BY <1>2, <2>1 DEF GroupDrawn, Draw
  <2>3. IsFiniteSet({d})
    BY FS_Singleton
  <2>4. D \cap {d} = {}
    BY <2>2, NextGroupNew
  <2>5. IsFiniteSet(D) /\ \A t \in D \union {d} : t.units \in Nat
    BY <2>2, DrawnUnits
  <2>6. Units(D \union {d}) = Units(D) + Units({d})
    BY <2>3, <2>4, <2>5, UnitsTogether
  <2>7. Units({d}) = d.units
    BY <2>2, UnitsOfOne
  <2>8. PICK a \in Nat, b \in Nat, u \in Nat : a = Units(D) /\ b = d.units /\ u = lots[l].units
    BY <1>4, <2>2
  <2>9. b <= u - a
    BY <1>1, <2>2, <2>8 DEF Remaining
  <2>10. a + b <= u
    BY <2>9
  <2> QED
    BY <1>3, <2>2, <2>6, <2>7, <2>8, <2>10
<1> QED
  BY <1>5, <1>6

\* What is kept stays so when a group of draws and parcels is added.
LEMMA GroupKeeps ==
    ASSUME LotsOK, MovesOK, NEW drawn, GroupDrawn(drawn), GroupMade(drawn),
           draws' = draws \union drawn
    PROVE  MovesOK'
<1>1. /\ NextGroup \in Nat /\ NextGroup > 0
      /\ \A d \in draws : d.group # NextGroup
      /\ \A l \in DOMAIN lots : lots[l].group # NextGroup
  BY NextGroupNew
<1>2. NextLot \in Nat /\ \A l \in DOMAIN lots : l < NextLot
  BY NextLotNew
<1>3. PICK G, K : G = NextGroup /\ K = NextLot
  OBVIOUS
<1>4. \A l \in DOMAIN lots' : lots'[l] \in Lot
  BY DEF GroupMade, MovesOK
<1>5. IsFiniteSet(draws') /\ draws' \subseteq Draw
  <2>1. IsFiniteSet(draws \union drawn)
    BY FS_Union DEF GroupDrawn, MovesOK
  <2> QED
    BY <2>1 DEF GroupDrawn, MovesOK
<1>6. \A d \in draws' : d.lot \in DOMAIN lots
  BY DEF GroupDrawn, LotsOK
<1>7. \A d \in draws' : d.group > 0 /\ lots'[d.lot].date <= d.date
  BY <1>1, <1>6 DEF GroupDrawn, GroupMade, MovesOK, LotsOK
<1>8. ASSUME NEW l \in DOMAIN lots' PROVE Units(DrawsOn(l)') <= lots'[l].units
  <2>1. CASE l \in DOMAIN lots
    BY <2>1, GroupFits DEF GroupMade
  <2>2. CASE l \notin DOMAIN lots
    <3>1. DrawsOn(l)' = {}
      BY <1>6, <2>2 DEF DrawsOn
    <3>2. Units({}) = 0
      BY SumEmpty DEF Units
    <3>3. lots'[l].units \in Nat
      BY <1>4 DEF Lot
    <3> QED
      BY <3>1, <3>2, <3>3
  <2> QED
    BY <2>1, <2>2
<1>9. ASSUME NEW l \in DOMAIN lots', lots'[l].group # 0
      PROVE  \E d \in draws' : d.group = lots'[l].group
  <2>1. CASE l \in DOMAIN lots
    <3>1. lots[l].group # 0 /\ lots'[l].group = lots[l].group
      BY <1>9, <2>1 DEF GroupMade
    <3>2. PICK d \in draws : d.group = lots[l].group
      BY <2>1, <3>1 DEF MovesOK
    <3> QED
      BY <3>1, <3>2
  <2>2. CASE l \notin DOMAIN lots
    <3>1. lots'[l].group = NextGroup /\ drawn # {}
      BY <1>9, <2>2 DEF GroupMade
    <3>2. PICK d \in drawn : d.group = NextGroup
      BY <3>1 DEF GroupDrawn
    <3> QED
      BY <3>1, <3>2
  <2> QED
    BY <2>1, <2>2
<1>10. ASSUME NEW d \in draws', NEW r \in GroupLots(d.group)'
       PROVE  d.lot < r /\ lots'[r].date = d.date
  <2>1. r \in DOMAIN lots' /\ lots'[r].group = d.group /\ d.group > 0
    BY <1>7 DEF GroupLots
  <2>2. CASE r \in DOMAIN lots
    <3>1. lots[r].group = d.group /\ lots'[r] = lots[r]
      BY <2>1, <2>2 DEF GroupMade
    <3>2. d \in draws
      BY <1>1, <2>2, <3>1 DEF GroupDrawn
    <3>3. r \in GroupLots(d.group)
      BY <2>2, <3>1 DEF GroupLots
    <3> QED
      BY <3>1, <3>2, <3>3 DEF MovesOK
  <2>3. CASE r \notin DOMAIN lots
    <3>1. /\ r \in Nat /\ r >= NextLot /\ lots'[r].group = NextGroup
          /\ \A e \in drawn : lots'[r].date = e.date
      BY <2>1, <2>3 DEF GroupMade
    <3>2. d \in drawn
      BY <1>1, <2>1, <3>1
    <3>3. d.lot < NextLot /\ d.lot \in Nat
      BY <1>2, <1>6 DEF LotsOK
    <3> QED
      BY <1>2, <3>1, <3>2, <3>3
  <2> QED
    BY <2>1, <2>2, <2>3
<1>11. ASSUME NEW d \in draws', d.kind = "transfer" PROVE \E r \in DOMAIN lots' : LedInto(d, r)'
  <2>1. CASE d \in draws
    <3>1. PICK r \in DOMAIN lots : LedInto(d, r)
      BY <1>11, <2>1 DEF MovesOK
    <3>2. r \in DOMAIN lots' /\ lots'[r] = lots[r] /\ lots'[d.lot] = lots[d.lot]
      BY <1>6, <3>1 DEF GroupMade
    <3> QED
      BY <3>1, <3>2 DEF LedInto, GroupLots
  <2>2. CASE d \in drawn
    <3>1. PICK n \in DOMAIN lots' \ DOMAIN lots :
             /\ lots'[n].group = NextGroup /\ lots'[n].units = d.units
             /\ lots'[n].acquired = lots[d.lot].acquired
      BY <1>11, <2>2 DEF GroupMade
    <3>2. d.group = NextGroup /\ lots'[d.lot] = lots[d.lot]
      BY <1>6, <2>2 DEF GroupDrawn, GroupMade
    <3> QED
      BY <1>11, <3>1, <3>2 DEF LedInto, GroupLots
  <2> QED
    BY <2>1, <2>2
<1> QED
  BY <1>4, <1>5, <1>7, <1>8, <1>9, <1>10, <1>11 DEF MovesOK

\* A purchase.
LEMMA BuyMoves ==
    ASSUME LotsOK, MovesOK, NEW c \in FundAccounts, NEW d \in FundDates, NEW u \in LotSizes,
           BuyLot(c, d, u)
    PROVE  MovesOK'
<1>1. PICK r : r = [account |-> c, fund |-> TRUE, date |-> d, units |-> u,
                    acquired |-> d, group |-> 0]
  OBVIOUS
<1>2. r \in Lot /\ r.group = 0
  BY <1>1, AmitAssumption DEF Lot
<1>3. PICK n : n = NextLot /\ n \in Nat /\ n \notin DOMAIN lots
  BY NextLotNew
<1>4. lots' = WithLot(n, r) /\ UNCHANGED draws
  BY <1>1, <1>3 DEF BuyLot
<1>5. /\ DOMAIN lots' = DOMAIN lots \union {n} /\ lots'[n] = r
      /\ \A l \in DOMAIN lots : lots'[l] = lots[l]
  BY <1>3, <1>4 DEF WithLot
<1>6. GroupDrawn({})
  BY FS_EmptySet DEF GroupDrawn
<1>7. GroupMade({})
  BY <1>2, <1>3, <1>5 DEF GroupMade
<1>8. draws' = draws \union {}
  BY <1>4
<1> QED
  BY <1>6, <1>7, <1>8, GroupKeeps

\* A sale.
LEMMA SellMoves ==
    ASSUME LotsOK, MovesOK, NEW l \in DOMAIN lots, NEW d \in FundDates, NEW u \in Movable(l),
           SellLot(l, d, u)
    PROVE  MovesOK'
<1>1. PICK e : e = [lot |-> l, date |-> d, units |-> u, kind |-> "sell", group |-> NextGroup]
  OBVIOUS
<1>2. /\ draws' = draws \union {e} /\ UNCHANGED lots
      /\ lots[l].date <= d /\ u <= Remaining(l)
  BY <1>1 DEF SellLot
<1>3. u \in Nat \ {0} /\ l \in Nat /\ NextGroup \in Nat
  BY NextGroupNew DEF Movable, LotsOK
<1>4. /\ e \in Draw /\ e.group = NextGroup /\ e.lot = l /\ e.date = d /\ e.units = u
      /\ e.kind = "sell"
  BY <1>1, <1>3 DEF Draw
<1>5. GroupDrawn({e})
  <2>1. IsFiniteSet({e})
    BY FS_Singleton
  <2> QED
    BY <1>2, <1>4, <2>1 DEF GroupDrawn
<1>6. GroupMade({e})
  BY <1>2, <1>4 DEF GroupMade
<1> QED
  BY <1>2, <1>5, <1>6, GroupKeeps

\* The sequence that the parcels of a set are moved in has each of them.
LEMMA SeqOfSet ==
    ASSUME NEW S, IsFiniteSet(S), NEW n, n = Cardinality(S), NEW ids, ids = SetToSeq(S)
    PROVE  /\ n \in Nat /\ ids \in [1 .. n -> S] /\ \A x \in S : \E i \in 1 .. n : ids[i] = x
<1>1. n \in Nat
  BY FS_CardinalityType
<1>2. PICK b : b \in Bijection(1 .. n, S)
  BY FS_CardinalityType DEF ExistsBijection
<1>3. b \in [1 .. n -> S] /\ IsInjective(b)
  BY <1>2 DEF Bijection, Injection
<1>4. ids \in [1 .. n -> S] /\ IsInjective(ids)
  BY <1>3 DEF SetToSeq
<1>5. ids \in Injection(1 .. n, S)
  BY <1>4 DEF Injection
<1>6. Cardinality(1 .. n) = n
  BY <1>1, FS_Interval
<1>7. ids \in Surjection(1 .. n, S)
  BY <1>5, <1>6, FS_Injection
<1> QED
  BY <1>1, <1>4, <1>7 DEF Surjection

\* New parcels for those of a set, and where each of them is.
LEMMA NewFor ==
    ASSUME LotsOK, NEW set \in SUBSET DOMAIN lots, NEW ids, ids = SetToSeq(set)
    PROVE  /\ IsFiniteSet(set) /\ DOMAIN ids = 1 .. Cardinality(set)
           /\ \A k \in NewLots(set) : /\ k \in Nat /\ k >= NextLot /\ k \notin DOMAIN lots
                                      /\ k - NextLot + 1 \in DOMAIN ids
                                      /\ ids[k - NextLot + 1] \in set
           /\ \A l \in set : \E k \in NewLots(set) : ids[k - NextLot + 1] = l
<1>1. IsFiniteSet(set)
  BY FS_Subset DEF LotsOK
<1>2. PICK n : n = Cardinality(set)
  OBVIOUS
<1>3. n \in Nat /\ ids \in [1 .. n -> set] /\ \A x \in set : \E i \in 1 .. n : ids[i] = x
  BY <1>1, <1>2, SeqOfSet
<1>4. PICK m \in Nat : m = NextLot /\ \A l \in DOMAIN lots : l < m
  BY NextLotNew
<1>5. NewLots(set) = m .. (m + n - 1)
  BY <1>2, <1>4 DEF NewLots
<1>6. ASSUME NEW k \in NewLots(set)
      PROVE  k \in Nat /\ k >= m /\ k \notin DOMAIN lots /\ k - m + 1 \in 1 .. n
  <2>1. k \in Nat /\ k >= m /\ k - m + 1 \in 1 .. n
    BY <1>3, <1>5
  <2> QED
    BY <1>4, <2>1
<1>7. ASSUME NEW l \in set PROVE \E k \in NewLots(set) : ids[k - m + 1] = l
  <2>1. PICK i \in 1 .. n : ids[i] = l
    BY <1>3
  <2>2. PICK k \in Int : k = m + i - 1
    OBVIOUS
  <2>3. k \in m .. (m + n - 1) /\ k - m + 1 = i
    BY <1>3, <2>2
  <2> QED
    BY <1>5, <2>1, <2>3
<1> QED
  BY <1>1, <1>2, <1>3, <1>4, <1>6, <1>7

\* A transfer between accounts.
LEMMA TransferMoves ==
    ASSUME LotsOK, MovesOK, NEW set \in (SUBSET DOMAIN lots) \ {{}},
           NEW from \in FundAccounts, NEW to \in FundAccounts, NEW date \in FundDates,
           NEW moved \in [set -> UNION {Movable(l) : l \in set}],
           TransferLots(moved, from, to, date)
    PROVE  MovesOK'
<1>1. PICK G : G = NextGroup /\ G \in Nat /\ G > 0
  BY NextGroupNew
<1>2. PICK ids : ids = SetToSeq(set)
  OBVIOUS
<1>3. PICK w : w = [l \in set |-> [lot |-> l, date |-> date, units |-> moved[l],
                                   kind |-> "transfer", group |-> G]]
  OBVIOUS
<1>4. PICK drawn : drawn = {w[l] : l \in set}
  OBVIOUS
<1>5. PICK new : new = [i \in DOMAIN ids |->
                          [account |-> to, fund |-> TRUE, date |-> date,
                           units |-> moved[ids[i]], acquired |-> lots[ids[i]].acquired,
                           group |-> G]]
  OBVIOUS
<1>6. DOMAIN moved = set
  OBVIOUS
<1>7. /\ draws' = draws \union drawn
      /\ lots' = [k \in DOMAIN lots \union NewLots(set) |->
                     IF k \in DOMAIN lots THEN lots[k] ELSE new[k - NextLot + 1]]
  <2>1. drawn = {[lot |-> l, date |-> date, units |-> moved[l], kind |-> "transfer",
                  group |-> NextGroup] : l \in set}
    BY <1>1, <1>3, <1>4
  <2>2. draws' = draws \union drawn
    BY <1>6, <2>1 DEF TransferLots
  <2>3. lots' = [k \in DOMAIN lots \union NewLots(set) |->
                     IF k \in DOMAIN lots THEN lots[k] ELSE new[k - NextLot + 1]]
    BY <1>1, <1>2, <1>5, <1>6 DEF TransferLots
  <2> QED
    BY <2>2, <2>3
<1>8. /\ IsFiniteSet(set)
      /\ \A k \in NewLots(set) : /\ k \in Nat /\ k >= NextLot /\ k \notin DOMAIN lots
                                 /\ k - NextLot + 1 \in DOMAIN ids
                                 /\ ids[k - NextLot + 1] \in set
      /\ \A l \in set : \E k \in NewLots(set) : ids[k - NextLot + 1] = l
  BY <1>2, NewFor
<1>9. ASSUME NEW l \in set
      PROVE  /\ l \in DOMAIN lots /\ l \in Nat /\ moved[l] \in Nat \ {0}
             /\ moved[l] <= Remaining(l) /\ lots[l].date <= date
             /\ lots[l].acquired \in FundDates
  <2>1. l \in DOMAIN lots /\ l \in Nat /\ lots[l].acquired \in FundDates
    BY DEF LotsOK, MovesOK, Lot
  <2>2. moved[l] <= Remaining(l) /\ lots[l].date <= date
    BY <1>6 DEF TransferLots
  <2>3. moved[l] \in Nat \ {0}
    <3>1. PICK k \in set : moved[l] \in Movable(k)
      BY <1>6
    <3> QED
      BY <3>1 DEF Movable
  <2> QED
    BY <2>1, <2>2, <2>3
<1>10. \A l \in set : /\ w[l] \in drawn /\ w[l] \in Draw /\ w[l].lot = l /\ w[l].date = date
                      /\ w[l].units = moved[l] /\ w[l].kind = "transfer" /\ w[l].group = G
  BY <1>1, <1>3, <1>4, <1>9 DEF Draw
<1>11. GroupDrawn(drawn)
  <2>1. IsFiniteSet(drawn)
    <3>1. DOMAIN w = set
      BY <1>3
    <3>2. IsFiniteSet({w[l] : l \in set})
      BY <1>8, <3>1, MadeFinite
    <3> QED
      BY <1>4, <3>2
  <2>2. \A d \in drawn : \E l \in set : d = w[l]
    BY <1>4
  <2>3. \A d \in drawn : /\ d.group = NextGroup /\ d.lot \in DOMAIN lots /\ d \in Draw
                         /\ lots[d.lot].date <= d.date /\ d.units <= Remaining(d.lot)
    BY <1>1, <1>9, <1>10, <2>2
  <2>4. \A d, e \in drawn : d.lot = e.lot => d = e
    BY <1>10, <2>2
  <2> QED
    BY <2>1, <2>3, <2>4 DEF GroupDrawn
<1>12. ASSUME NEW k \in NewLots(set)
       PROVE  \E l \in set : /\ l = ids[k - NextLot + 1] /\ lots'[k] \in Lot
                             /\ lots'[k].date = date /\ lots'[k].group = G
                             /\ lots'[k].units = moved[l] /\ lots'[k].acquired = lots[l].acquired
  <2>1. PICK i : i = k - NextLot + 1
    OBVIOUS
  <2>2. PICK l \in set : l = ids[i] /\ i \in DOMAIN ids
    BY <1>8, <2>1
  <2>3. lots'[k] = new[i]
    BY <1>7, <1>8, <2>1
  <2>4. new[i] = [account |-> to, fund |-> TRUE, date |-> date, units |-> moved[l],
                  acquired |-> lots[l].acquired, group |-> G]
    BY <1>5, <2>2
  <2> QED
    BY <1>1, <1>9, <2>1, <2>2, <2>3, <2>4 DEF Lot
<1>13. GroupMade(drawn)
  <2>1. /\ DOMAIN lots' = DOMAIN lots \union NewLots(set)
        /\ \A l \in DOMAIN lots : lots'[l] = lots[l]
    BY <1>7
  <2>2. ASSUME NEW n \in NewLots(set)
        PROVE  /\ n \in Nat /\ n >= NextLot /\ lots'[n] \in Lot
               /\ lots'[n].group = NextGroup /\ drawn # {}
               /\ \A d \in drawn : lots'[n].date = d.date
    <3>1. lots'[n] \in Lot /\ lots'[n].date = date /\ lots'[n].group = G
      BY <1>12
    <3>2. \A d \in drawn : d.date = date
      BY <1>4, <1>10
    <3>3. drawn # {}
      BY <1>4
    <3> QED
      BY <1>1, <1>8, <3>1, <3>2, <3>3
  <2>3. ASSUME NEW d \in drawn
        PROVE  \E n \in DOMAIN lots' \ DOMAIN lots :
                  /\ lots'[n].group = NextGroup /\ lots'[n].units = d.units
                  /\ lots'[n].acquired = lots[d.lot].acquired
    <3>1. PICK l \in set : d = w[l]
      BY <1>4
    <3>2. PICK n \in NewLots(set) : ids[n - NextLot + 1] = l
      BY <1>8
    <3>3. /\ lots'[n].group = G /\ lots'[n].units = moved[l]
          /\ lots'[n].acquired = lots[l].acquired
      BY <1>12, <3>2
    <3>4. n \in DOMAIN lots' \ DOMAIN lots
      BY <1>8, <2>1
    <3> QED
      BY <1>1, <1>10, <3>1, <3>3, <3>4
  <2>4. DOMAIN lots' \ DOMAIN lots \subseteq NewLots(set)
    BY <2>1
  <2> QED
    BY <2>1, <2>2, <2>3, <2>4 DEF GroupMade
<1> QED
  BY <1>7, <1>11, <1>13, GroupKeeps

\* An exchange of the fund for another listing.
LEMMA ExchangeMoves ==
    ASSUME LotsOK, MovesOK, NEW date \in FundDates, ExchangeFund(date)
    PROVE  MovesOK'
<1>1. PICK G : G = NextGroup /\ G \in Nat /\ G > 0
  BY NextGroupNew
<1>2. PICK set \in SUBSET DOMAIN lots :
        set = {l \in DOMAIN lots : lots[l].fund /\ lots[l].date <= date /\ Remaining(l) > 0}
  OBVIOUS
<1>3. PICK ids : ids = SetToSeq(set)
  OBVIOUS
<1>4. PICK w : w = [l \in set |-> [lot |-> l, date |-> date, units |-> Remaining(l),
                                   kind |-> "exchange", group |-> G]]
  OBVIOUS
<1>5. PICK drawn : drawn = {w[l] : l \in set}
  OBVIOUS
<1>6. /\ draws' = draws \union drawn /\ set # {}
      /\ lots' = [k \in DOMAIN lots \union NewLots(set) |->
              IF k \in DOMAIN lots THEN lots[k]
              ELSE [account |-> lots[ids[k - NextLot + 1]].account, fund |-> FALSE, date |-> date,
                    units |-> 2 * Remaining(ids[k - NextLot + 1]),
                    acquired |-> lots[ids[k - NextLot + 1]].acquired, group |-> G]]
  <2>1. drawn = {[lot |-> l, date |-> date, units |-> Remaining(l), kind |-> "exchange",
                  group |-> NextGroup] : l \in set}
    BY <1>1, <1>4, <1>5
  <2>2. draws' = draws \union drawn /\ set # {}
    BY <1>2, <2>1 DEF ExchangeFund
  <2>3. lots' = [k \in DOMAIN lots \union NewLots(set) |->
              IF k \in DOMAIN lots THEN lots[k]
              ELSE [account |-> lots[ids[k - NextLot + 1]].account, fund |-> FALSE, date |-> date,
                    units |-> 2 * Remaining(ids[k - NextLot + 1]),
                    acquired |-> lots[ids[k - NextLot + 1]].acquired, group |-> G]]
    BY <1>1, <1>2, <1>3 DEF ExchangeFund
  <2> QED
    BY <2>2, <2>3
<1>7. /\ IsFiniteSet(set)
      /\ \A k \in NewLots(set) : /\ k \in Nat /\ k >= NextLot /\ k \notin DOMAIN lots
                                 /\ ids[k - NextLot + 1] \in set
  BY <1>3, NewFor
<1>8. ASSUME NEW l \in set
      PROVE  /\ l \in DOMAIN lots /\ l \in Nat /\ Remaining(l) \in Nat \ {0}
             /\ 2 * Remaining(l) \in Nat \ {0} /\ lots[l].date <= date
             /\ lots[l].acquired \in FundDates /\ lots[l].account \in FundAccounts
  <2>1. /\ l \in DOMAIN lots /\ l \in Nat /\ lots[l].acquired \in FundDates
        /\ lots[l].account \in FundAccounts /\ lots[l].units \in Nat /\ lots[l].date <= date
    BY <1>2 DEF LotsOK, MovesOK, Lot
  <2>2. Units(DrawsOn(l)) \in Nat
    <3>1. PICK D \in SUBSET draws : D = DrawsOn(l)
      BY DEF DrawsOn
    <3> QED
      BY <3>1, DrawnUnits
  <2>3. PICK r \in Int : r = Remaining(l)
    BY <2>1, <2>2 DEF Remaining
  <2>4. r > 0
    BY <1>2, <2>3
  <2>5. r \in Nat \ {0} /\ 2 * r \in Nat \ {0}
    BY <2>4
  <2> QED
    BY <2>1, <2>3, <2>5
<1>9. \A l \in set : /\ w[l] \in drawn /\ w[l] \in Draw /\ w[l].lot = l /\ w[l].date = date
                     /\ w[l].units = Remaining(l) /\ w[l].kind = "exchange" /\ w[l].group = G
  BY <1>1, <1>4, <1>5, <1>8 DEF Draw
<1>10. \A d \in drawn : \E l \in set : d = w[l]
  BY <1>5
<1>11. GroupDrawn(drawn)
  <2>1. IsFiniteSet(drawn)
    <3>1. DOMAIN w = set
      BY <1>4
    <3>2. IsFiniteSet({w[l] : l \in set})
      BY <1>7, <3>1, MadeFinite
    <3> QED
      BY <1>5, <3>2
  <2>2. \A d \in drawn : /\ d.group = NextGroup /\ d.lot \in DOMAIN lots /\ d \in Draw
                         /\ lots[d.lot].date <= d.date
    BY <1>1, <1>8, <1>9, <1>10
  <2>3. ASSUME NEW d \in drawn PROVE d.units <= Remaining(d.lot)
    <3>1. PICK l \in set : d = w[l]
      BY <1>10
    <3>2. d.lot = l /\ d.units = Remaining(l) /\ Remaining(l) \in Nat
      BY <1>8, <1>9, <3>1
    <3> QED
      BY <3>2
  <2>4. \A d, e \in drawn : d.lot = e.lot => d = e
    BY <1>9, <1>10
  <2> QED
    BY <2>1, <2>2, <2>3, <2>4 DEF GroupDrawn
<1>12. GroupMade(drawn)
  <2>1. /\ DOMAIN lots' = DOMAIN lots \union NewLots(set)
        /\ \A l \in DOMAIN lots : lots'[l] = lots[l]
    BY <1>6
  <2>2. ASSUME NEW n \in NewLots(set)
        PROVE  /\ n \in Nat /\ n >= NextLot /\ lots'[n] \in Lot
               /\ lots'[n].group = NextGroup /\ drawn # {}
               /\ \A d \in drawn : lots'[n].date = d.date
    <3>1. PICK l \in set : l = ids[n - NextLot + 1]
      BY <1>7
    <3>2. lots'[n] = [account |-> lots[l].account, fund |-> FALSE, date |-> date,
                      units |-> 2 * Remaining(l), acquired |-> lots[l].acquired, group |-> G]
      BY <1>6, <1>7, <3>1
    <3>3. lots'[n] \in Lot /\ lots'[n].date = date /\ lots'[n].group = G
      BY <1>1, <1>8, <3>2 DEF Lot
    <3>4. \A d \in drawn : d.date = date
      BY <1>9, <1>10
    <3>5. drawn # {}
      BY <1>9
    <3> QED
      BY <1>1, <1>7, <3>3, <3>4, <3>5
  <2>3. \A d \in drawn : d.kind # "transfer"
    BY <1>9, <1>10
  <2>4. DOMAIN lots' \ DOMAIN lots \subseteq NewLots(set)
    BY <2>1
  <2> QED
    BY <2>1, <2>2, <2>3, <2>4 DEF GroupMade
<1> QED
  BY <1>6, <1>11, <1>12, GroupKeeps

\* A purchase of another size or in another account.
LEMMA EditMoves ==
    ASSUME LotsOK, MovesOK, NEW l \in DOMAIN lots, NEW c \in FundAccounts,
           NEW u \in LotSizes, EditLot(l, c, u)
    PROVE  MovesOK'
<1>1. PICK e : e = [lots[l] EXCEPT !.account = c, !.units = u]
  OBVIOUS
<1>2. /\ DOMAIN lots' = DOMAIN lots /\ lots'[l] = e
      /\ \A k \in DOMAIN lots : k # l => lots'[k] = lots[k]
      /\ UNCHANGED draws /\ lots[l].group = 0 /\ u >= Units(DrawsOn(l))
  BY <1>1 DEF EditLot
<1>3. u \in Nat \ {0}
  BY AmitAssumption
<1>4. lots[l] \in Lot
  BY DEF MovesOK
<1>5. /\ e \in Lot /\ e.group = 0 /\ e.date = lots[l].date /\ e.units = u
      /\ e.acquired = lots[l].acquired
  BY <1>1, <1>2, <1>3, <1>4 DEF Lot
<1>6. \A k \in DOMAIN lots : /\ lots'[k] \in Lot /\ lots'[k].group = lots[k].group
                             /\ lots'[k].date = lots[k].date
                             /\ lots'[k].acquired = lots[k].acquired
                             /\ lots[k].group # 0 => lots'[k] = lots[k]
  BY <1>2, <1>5 DEF MovesOK
<1>7. \A k : DrawsOn(k)' = DrawsOn(k)
  BY <1>2 DEF DrawsOn
<1>8. ASSUME NEW k \in DOMAIN lots' PROVE Units(DrawsOn(k)') <= lots'[k].units
  <2>1. CASE k = l
    <3>1. PICK D \in SUBSET draws : D = DrawsOn(l)
      BY DEF DrawsOn
    <3>2. PICK n \in Nat : n = Units(D)
      BY DrawnUnits
    <3>3. n <= u
      BY <1>2, <1>3, <3>1, <3>2
    <3> QED
      BY <1>2, <1>5, <1>7, <2>1, <3>1, <3>2, <3>3
  <2>2. CASE k # l
    BY <1>2, <1>7, <2>2 DEF MovesOK
  <2> QED
    BY <2>1, <2>2
<1>9. \A g : GroupLots(g)' = GroupLots(g)
  BY <1>2, <1>6 DEF GroupLots
<1>10. IsFiniteSet(draws') /\ draws' \subseteq Draw
  BY <1>2 DEF MovesOK
<1>11. \A d \in draws' : d.group > 0 /\ lots'[d.lot].date <= d.date
  BY <1>2, <1>6 DEF MovesOK, LotsOK
<1>12. \A k \in DOMAIN lots' : lots'[k].group # 0 => \E d \in draws' : d.group = lots'[k].group
  BY <1>2, <1>6 DEF MovesOK
<1>13. \A d \in draws' : \A r \in GroupLots(d.group)' : d.lot < r /\ lots'[r].date = d.date
  <2>1. \A g : \A r \in GroupLots(g) : r \in DOMAIN lots
    BY DEF GroupLots
  <2> QED
    BY <1>2, <1>6, <1>9, <2>1 DEF MovesOK
<1>14. ASSUME NEW d \in draws', d.kind = "transfer" PROVE \E r \in DOMAIN lots' : LedInto(d, r)'
  <2>1. d \in draws /\ d.lot \in DOMAIN lots /\ d.group > 0
    BY <1>2 DEF MovesOK, LotsOK
  <2>2. PICK r \in DOMAIN lots : LedInto(d, r)
    BY <1>14, <2>1 DEF MovesOK
  <2>3. lots[r].group # 0
    BY <2>1, <2>2 DEF LedInto, GroupLots
  <2>4. lots'[r] = lots[r] /\ lots'[d.lot].acquired = lots[d.lot].acquired
    BY <1>6, <2>1, <2>3
  <2>5. LedInto(d, r)'
    BY <1>9, <2>2, <2>4 DEF LedInto
  <2> QED
    BY <1>2, <2>5
<1> QED
  BY <1>2, <1>6, <1>8, <1>10, <1>11, <1>12, <1>13, <1>14 DEF MovesOK

\* A group deleted with what it drew and made.
LEMMA DeleteMoves ==
    ASSUME LotsOK, MovesOK, NEW g, DeleteGroup(g)
    PROVE  MovesOK'
<1>1. /\ DOMAIN lots' = DOMAIN lots \ GroupLots(g)
      /\ \A l \in DOMAIN lots' : lots'[l] = lots[l]
      /\ draws' = {d \in draws : d.group # g}
      /\ \A l \in GroupLots(g) : DrawsOn(l) = {}
  BY DEF DeleteGroup, Deletable
<1>2. \A d \in draws' : d \in draws /\ d.group # g /\ d.lot \in DOMAIN lots'
  BY <1>1 DEF LotsOK, DrawsOn
<1>3. \A l \in DOMAIN lots' : l \in DOMAIN lots /\ lots[l].group # g
  BY <1>1 DEF GroupLots
<1>4. ASSUME NEW l \in DOMAIN lots' PROVE Units(DrawsOn(l)') <= lots'[l].units
  <2>1. PICK D \in SUBSET draws : D = DrawsOn(l)
    BY DEF DrawsOn
  <2>2. PICK E \in SUBSET D : E = DrawsOn(l)'
    BY <1>2, <2>1 DEF DrawsOn
  <2>3. Units(E) \in Nat /\ Units(D) \in Nat /\ Units(E) <= Units(D)
    BY DrawnUnits
  <2>4. Units(D) <= lots[l].units /\ lots[l].units \in Nat
    BY <1>3, <2>1 DEF MovesOK, Lot
  <2>5. PICK a \in Nat, b \in Nat, c \in Nat : a = Units(E) /\ b = Units(D) /\ c = lots[l].units
    BY <2>3, <2>4
  <2>6. a <= c
    BY <2>3, <2>4, <2>5
  <2> QED
    BY <1>1, <2>2, <2>5, <2>6
<1>5. IsFiniteSet(draws') /\ draws' \subseteq Draw
  <2>1. IsFiniteSet({d \in draws : d.group # g})
    BY FS_Subset DEF MovesOK
  <2> QED
    BY <1>1, <1>2, <2>1 DEF MovesOK
<1>6. \A l \in DOMAIN lots' : lots'[l] \in Lot
  BY <1>1, <1>3 DEF MovesOK
<1>7. \A d \in draws' : d.group > 0 /\ lots'[d.lot].date <= d.date
  BY <1>1, <1>2 DEF MovesOK
<1>8. \A l \in DOMAIN lots' : lots'[l].group # 0 => \E d \in draws' : d.group = lots'[l].group
  BY <1>1, <1>3 DEF MovesOK
<1>9. \A h : \A r \in GroupLots(h)' : r \in GroupLots(h) /\ r \in DOMAIN lots' /\ lots'[r] = lots[r]
  BY <1>1, <1>3 DEF GroupLots
<1>10. \A d \in draws' : \A r \in GroupLots(d.group)' : d.lot < r /\ lots'[r].date = d.date
  BY <1>2, <1>9 DEF MovesOK
<1>11. ASSUME NEW d \in draws', d.kind = "transfer" PROVE \E r \in DOMAIN lots' : LedInto(d, r)'
  <2>1. PICK r \in DOMAIN lots : LedInto(d, r)
    BY <1>2, <1>11 DEF MovesOK
  <2>2. r \in DOMAIN lots' /\ d.lot \in DOMAIN lots'
    BY <1>1, <1>2, <2>1 DEF LedInto, GroupLots
  <2>3. r \in GroupLots(d.group)'
    BY <1>1, <2>1, <2>2 DEF LedInto, GroupLots
  <2> QED
    BY <1>1, <2>1, <2>2, <2>3 DEF LedInto
<1> QED
  BY <1>4, <1>5, <1>6, <1>7, <1>8, <1>10, <1>11 DEF MovesOK

\* And where neither the parcels nor the draws change.
LEMMA SameMoves ==
    ASSUME MovesOK, UNCHANGED <<lots, draws>>
    PROVE  MovesOK'
<1>1. \A d, r : LedInto(d, r)' <=> LedInto(d, r)
  BY DEF LedInto, GroupLots
<1>2. \A l : DrawsOn(l)' = DrawsOn(l) /\ GroupLots(l)' = GroupLots(l)
  BY DEF DrawsOn, GroupLots
<1> QED
  BY <1>1, <1>2 DEF MovesOK

\* Every write keeps it all.
LEMMA NextMoves == LotsOK /\ MovesOK /\ [AmitNext]_amitVars => MovesOK'
<1> SUFFICES ASSUME LotsOK, MovesOK, [AmitNext]_amitVars PROVE MovesOK'
  OBVIOUS
<1>1. CASE \E c \in FundAccounts, d \in FundDates, u \in LotSizes : BuyLot(c, d, u)
  BY <1>1, BuyMoves
<1>2. CASE \E l \in DOMAIN lots : \E c \in FundAccounts, u \in LotSizes : EditLot(l, c, u)
  BY <1>2, EditMoves
<1>3. CASE \E l \in DOMAIN lots : \E d \in FundDates, u \in Movable(l) : SellLot(l, d, u)
  BY <1>3, SellMoves
<1>4. ASSUME NEW set \in (SUBSET DOMAIN lots) \ {{}}, NEW from \in FundAccounts,
             NEW to \in FundAccounts, NEW d \in FundDates,
             NEW m \in [set -> UNION {Movable(l) : l \in set}], TransferLots(m, from, to, d)
      PROVE  MovesOK'
  BY <1>4, TransferMoves
<1>5. CASE \E d \in draws : d.kind # "sell" /\ DeleteGroup(d.group)
  BY <1>5, DeleteMoves
<1>6. CASE \E d \in FundDates : ExchangeFund(d)
  BY <1>6, ExchangeMoves
<1>7. CASE UNCHANGED <<lots, draws>>
  BY <1>7, SameMoves
<1>8. CASE \E i \in DOMAIN ammaStatements, replace \in BOOLEAN : Generate(i, replace)
  BY <1>7, <1>8 DEF Generate
<1>9. CASE \E i \in DOMAIN ammaStatements, l \in DOMAIN lots :
              \E u \in 1 .. lots[l].units : EnterAdjustment(i, l, u)
  BY <1>7, <1>9 DEF EnterAdjustment
<1>10. CASE \E a \in adjustments : DeleteAdjustment(a)
  BY <1>7, <1>10 DEF DeleteAdjustment
<1>11. CASE UNCHANGED amitVars
  BY <1>7, <1>11 DEF amitVars
<1>12. CASE StatementWritten
  BY <1>7, <1>12, WrittenKeeps
<1> QED
  BY <1>1, <1>2, <1>3, <1>4, <1>5, <1>6, <1>8, <1>9, <1>10, <1>11, <1>12
  DEF AmitNext, StatementWritten

-----------------------------------------------------------------------------
(* The theorems on placement. *)

\* What the stored statements say, and their rows: one for a statement and a parcel.
AdjustmentRow == [statement : DOMAIN ammaStatements,
                  of : [fund : BOOLEAN, account : Holders],
                  lot : Nat, units : Nat \ {0}]

RowsTyped ==
    /\ DOMAIN ammaStatements \subseteq StatementIds
    /\ \A i \in DOMAIN ammaStatements : ammaStatements[i] \in Statements
    /\ adjustments \subseteq AdjustmentRow
    /\ \A a, b \in adjustments : a.statement = b.statement /\ a.lot = b.lot => a = b

WritesTyped == fundWrites \in 0 .. MaxFundWrites

\* A row of a stored statement.
LEMMA RowTyped ==
    ASSUME RowsTyped, NEW i \in DOMAIN ammaStatements, NEW l \in Nat, NEW u \in Nat \ {0}
    PROVE  /\ RowFor(i, l, u) \in AdjustmentRow
           /\ RowFor(i, l, u).statement = i /\ RowFor(i, l, u).lot = l
<1>1. PICK s \in Statements : s = ammaStatements[i]
  BY DEF RowsTyped
<1>2. HoldingOf(s) \in [fund : BOOLEAN, account : Holders]
  BY DEF HoldingOf, Statements
<1> QED
  BY <1>1, <1>2 DEF RowFor, AdjustmentRow

\* A run of generation leaves them so.
LEMMA GenerationTyped ==
    ASSUME LotsOK, MovesOK, RowsTyped, NEW i \in DOMAIN ammaStatements, NEW replace,
           Generate(i, replace)
    PROVE  RowsTyped'
<1>1. PICK s \in Statements : s = ammaStatements[i]
  BY DEF RowsTyped
<1>2. PICK T : T = GeneratedRows(s)
  OBVIOUS
<1>3. IsFiniteSet(T)
  <2>1. IsFiniteSet(Placement(s)) /\ T \in SUBSET Placement(s)
    BY <1>2, PlacementWell DEF GeneratedRows
  <2> QED
    BY <2>1, FS_Subset
<1>4. PICK row : row = [r \in T |-> RowFor(i, r.lot, r.units)]
  OBVIOUS
<1>5. adjustments' = (adjustments \ RowsOf(i)) \union {row[r] : r \in T}
  <2>1. {row[r] : r \in T} = {RowFor(i, r.lot, r.units) : r \in T}
    BY <1>4
  <2> QED
    BY <1>1, <1>2, <2>1 DEF Generate
<1>6. \A r \in T : r.lot \in Nat /\ r.units \in Nat \ {0}
  <2>1. \A r \in T : RowAllowed(s, r.lot, r.units) /\ r.units \in Nat \ {0}
    BY <1>1, <1>2, RowsAllowed
  <2> QED
    BY <2>1 DEF RowAllowed, LotsOK
<1>7. \A p, q \in T : p.lot = q.lot => p = q
  <2>1. Cardinality({r.lot : r \in T}) = Cardinality(T)
    BY <1>1, <1>2 DEF Generate, GenerationAllowed
  <2> QED
    BY <1>3, <2>1, RowsOnLots
<1>8. \A r \in T : row[r] \in AdjustmentRow /\ row[r].statement = i /\ row[r].lot = r.lot
  BY <1>4, <1>6, RowTyped
<1>9. \A a \in adjustments \ RowsOf(i) : a \in adjustments /\ a.statement # i
  BY DEF RowsOf
<1>10. UNCHANGED ammaStatements /\ AdjustmentRow' = AdjustmentRow
  BY DEF Generate, AdjustmentRow
<1> QED
  BY <1>5, <1>7, <1>8, <1>9, <1>10 DEF RowsTyped

\* So does a typed row.
LEMMA EntryTyped ==
    ASSUME LotsOK, MovesOK, RowsTyped, NEW i \in DOMAIN ammaStatements,
           NEW l \in DOMAIN lots, NEW u \in 1 .. lots[l].units, EnterAdjustment(i, l, u)
    PROVE  RowsTyped'
<1>1. PICK e : e = RowFor(i, l, u)
  OBVIOUS
<1>2. PICK others : others = {a \in adjustments : a.statement # i \/ a.lot # l}
  OBVIOUS
<1>3. adjustments' = others \union {e}
  BY <1>1, <1>2 DEF EnterAdjustment
<1>4. l \in Nat /\ u \in Nat \ {0}
  BY DEF LotsOK, MovesOK, Lot
<1>5. e \in AdjustmentRow /\ e.statement = i /\ e.lot = l
  BY <1>1, <1>4, RowTyped
<1>6. UNCHANGED ammaStatements /\ AdjustmentRow' = AdjustmentRow
  BY DEF EnterAdjustment, AdjustmentRow
<1> QED
  BY <1>2, <1>3, <1>5, <1>6 DEF RowsTyped

\* A statement that goes has no rows.
LEMMA WrittenTyped ==
    ASSUME RowsTyped, StatementWritten
    PROVE  RowsTyped'
<1>1. UNCHANGED adjustments
  BY WrittenKeeps
<1>2. ASSUME NEW i \in StatementIds, NEW s \in Statements, ammaStatements' = WithStatement(i, s)
      PROVE  RowsTyped'
  <2>1. /\ DOMAIN ammaStatements' = DOMAIN ammaStatements \union {i}
        /\ \A k \in DOMAIN ammaStatements' :
              ammaStatements'[k] = IF k = i THEN s ELSE ammaStatements[k]
    BY <1>2 DEF WithStatement
  <2>2. AdjustmentRow \subseteq AdjustmentRow'
    BY <2>1 DEF AdjustmentRow
  <2> QED
    BY <1>1, <2>1, <2>2 DEF RowsTyped
<1>3. CASE \E i \in StatementIds, s \in Statements : CreateStatement(i, s)
  BY <1>2, <1>3 DEF CreateStatement
<1>4. CASE \E i \in DOMAIN ammaStatements : \E s \in Statements : ReplaceStatement(i, s)
  BY <1>2, <1>4 DEF ReplaceStatement, RowsTyped
<1>5. ASSUME NEW i \in DOMAIN ammaStatements, DeleteStatement(i) PROVE RowsTyped'
  <2>1. /\ DOMAIN ammaStatements' = DOMAIN ammaStatements \ {i}
        /\ \A k \in DOMAIN ammaStatements' : ammaStatements'[k] = ammaStatements[k]
    BY <1>5 DEF DeleteStatement
  <2>2. \A a \in adjustments : a.statement # i
    BY <1>5 DEF DeleteStatement, RowsOf
  <2>3. adjustments \subseteq AdjustmentRow'
    BY <2>1, <2>2 DEF AdjustmentRow, RowsTyped
  <2> QED
    BY <1>1, <2>1, <2>3 DEF RowsTyped
<1> QED
  BY <1>3, <1>4, <1>5 DEF StatementWritten

\* The inductive invariant of the parcels, the draws and the rows.
AmitBooks == AmitInv /\ MovesOK /\ RowsTyped /\ WritesTyped

\* To begin with there is nothing.
LEMMA InitAmitBooks == AmitInit => AmitBooks
<1> SUFFICES ASSUME AmitInit PROVE AmitBooks
  OBVIOUS
<1>1. /\ DOMAIN lots = {} /\ draws = {} /\ adjustments = {} /\ fundWrites = 0
      /\ DOMAIN ammaStatements = {}
  BY DEF AmitInit
<1>2. AmitInv
  BY <1>1, FS_EmptySet DEF AmitInv, LotsOK, AllReach
<1>3. MovesOK
  BY <1>1, FS_EmptySet DEF MovesOK
<1>4. RowsTyped
  BY <1>1 DEF RowsTyped
<1>5. WritesTyped
  BY <1>1, AmitAssumption DEF WritesTyped
<1> QED
  BY <1>2, <1>3, <1>4, <1>5 DEF AmitBooks

\* Every write keeps it.
LEMMA NextAmitBooks == AmitBooks /\ [AmitNext]_amitVars => AmitBooks'
<1> SUFFICES ASSUME AmitBooks, [AmitNext]_amitVars PROVE AmitBooks'
  OBVIOUS
<1>1. AmitInv /\ LotsOK /\ MovesOK /\ RowsTyped /\ WritesTyped
  BY DEF AmitBooks, AmitInv
<1>2. AmitInv'
  BY <1>1, NextAmitInv
<1>3. MovesOK'
  BY <1>1, NextMoves
<1>4. RowsTyped' /\ WritesTyped'
  <2>1. ASSUME UNCHANGED adjustments, FundWrite PROVE RowsTyped' /\ WritesTyped'
    BY <1>1, <2>1, AmitAssumption DEF FundWrite, RowsTyped, AdjustmentRow, WritesTyped
  <2>2. CASE \E c \in FundAccounts, d \in FundDates, u \in LotSizes : BuyLot(c, d, u)
    BY <2>1, <2>2 DEF BuyLot, FundWrite
  <2>3. CASE \E l \in DOMAIN lots : \E c \in FundAccounts, u \in LotSizes : EditLot(l, c, u)
    BY <2>1, <2>3 DEF EditLot, FundWrite
  <2>4. CASE \E l \in DOMAIN lots : \E d \in FundDates, u \in Movable(l) : SellLot(l, d, u)
    BY <2>1, <2>4 DEF SellLot, FundWrite
  <2>5. ASSUME NEW m, NEW from, NEW to, NEW d, TransferLots(m, from, to, d)
        PROVE  RowsTyped' /\ WritesTyped'
    BY <2>1, <2>5 DEF TransferLots, FundWrite
  <2>6. CASE \E d \in draws : d.kind # "sell" /\ DeleteGroup(d.group)
    BY <2>1, <2>6 DEF DeleteGroup, FundWrite
  <2>7. CASE \E d \in FundDates : ExchangeFund(d)
    BY <2>1, <2>7 DEF ExchangeFund, FundWrite
  <2>8. ASSUME UNCHANGED fundWrites PROVE WritesTyped'
    BY <1>1, <2>8 DEF WritesTyped
  <2>9. CASE \E i \in DOMAIN ammaStatements, replace \in BOOLEAN : Generate(i, replace)
    BY <1>1, <2>8, <2>9, GenerationTyped DEF Generate
  <2>10. CASE \E i \in DOMAIN ammaStatements, l \in DOMAIN lots :
                \E u \in 1 .. lots[l].units : EnterAdjustment(i, l, u)
    BY <1>1, <2>8, <2>10, EntryTyped DEF EnterAdjustment
  <2>11. CASE \E a \in adjustments : DeleteAdjustment(a)
    BY <1>1, <2>8, <2>11 DEF DeleteAdjustment, RowsTyped, AdjustmentRow
  <2>12. CASE UNCHANGED amitVars
    BY <1>1, <2>8, <2>12 DEF amitVars, RowsTyped, AdjustmentRow
  <2>13. CASE StatementWritten
    <3>1. \/ UNCHANGED fundWrites
          \/ fundWrites < MaxFundWrites /\ fundWrites' = fundWrites + 1
      BY <2>13
      DEF StatementWritten, CreateStatement, ReplaceStatement, DeleteStatement
    <3>2. WritesTyped'
      BY <1>1, <3>1, AmitAssumption DEF WritesTyped
    <3> QED
      BY <1>1, <2>13, <3>2, WrittenTyped
  <2> QED
    BY <2>2, <2>3, <2>4, <2>5, <2>6, <2>7, <2>9, <2>10, <2>11, <2>12, <2>13
    DEF AmitNext, StatementWritten
<1> QED
  BY <1>2, <1>3, <1>4 DEF AmitBooks

\* It has the types in it.
LEMMA AmitBooksTyped == AmitBooks => AmitTypeOK
<1> SUFFICES ASSUME AmitBooks PROVE AmitTypeOK
  OBVIOUS
<1>1. DOMAIN lots \subseteq Nat
  BY DEF AmitBooks, AmitInv, LotsOK
<1>2. \A l \in DOMAIN lots :
         lots[l] \in [account : FundAccounts, fund : BOOLEAN, date : FundDates,
                      units : Nat \ {0}, acquired : FundDates, group : Nat]
  BY DEF AmitBooks, MovesOK, Lot
<1>3. draws \subseteq [lot : Nat, date : FundDates, units : Nat \ {0},
                       kind : {"sell", "transfer", "exchange"}, group : Nat]
  BY DEF AmitBooks, MovesOK, Draw
<1> QED
  BY <1>1, <1>2, <1>3 DEF AmitTypeOK, AmitBooks, RowsTyped, AdjustmentRow, WritesTyped

\* At all times.
LEMMA AlwaysAmitBooks == AmitSpec => []AmitBooks
BY InitAmitBooks, NextAmitBooks, PTL DEF AmitSpec

(***************************************************************************)
(* The parcels, what was drawn on them and the adjustments are well formed *)
(* after any writes, and a statement has one row for a parcel, typed or    *)
(* generated, for any accounts, dates and number of parcels.               *)
(***************************************************************************)
THEOREM AmitTypeCorrect == AmitSpec => []AmitTypeOK
<1>1. AmitBooks => AmitTypeOK
  BY AmitBooksTyped
<1> QED
  BY <1>1, AlwaysAmitBooks, PTL

(***************************************************************************)
(* Placement::place puts every unit that a statement's account held at the *)
(* year end in a row or in the list for hand entry, once, however often    *)
(* the units have been moved since, sold or exchanged, for any number of   *)
(* parcels and moves.                                                      *)
(***************************************************************************)
THEOREM EveryUnitAlwaysPlaced == AmitSpec => []EveryUnitPlaced
<1>1. AmitBooks => EveryUnitPlaced
  BY PlacementHolds DEF AmitBooks, AmitInv
<1> QED
  BY <1>1, AlwaysAmitBooks, PTL

(***************************************************************************)
(* The rows that db_generate derives pass db_write_on's checks and are on  *)
(* different parcels, unless one transfer moved two parcels that are alike *)
(* in units and acquisition date.                                          *)
(***************************************************************************)
THEOREM GenerationAlwaysTaken == AmitSpec => []GenerationNeverRefused
<1>1. AmitBooks => GenerationNeverRefused
  BY PlacementHolds DEF AmitBooks, AmitInv
<1> QED
  BY <1>1, AlwaysAmitBooks, PTL

-----------------------------------------------------------------------------
(* The four side by side. *)

\* A behaviour of one of them, the others at rest, is a behaviour of each.
LEMMA RecordsSteps ==
    ASSUME [RecordsNext]_<<part, drpVars, amitVars, cgtVars, optVars>>
    PROVE  /\ [DrpNext]_drpVars /\ [AmitNext]_amitVars
           /\ [CgtNext]_cgtVars /\ [OptNext]_optVars
<1>1. CASE RecordsNext
  BY <1>1 DEF RecordsNext
<1>2. CASE UNCHANGED <<part, drpVars, amitVars, cgtVars, optVars>>
  BY <1>2
<1> QED
  BY <1>1, <1>2

(***************************************************************************)
(* The rows of each part fit each other, whatever is edited or undone:     *)
(* periods, trades and distributions (db_create, db_unreinvest), one row   *)
(* for a statement and a parcel (amit_adjustment::db_create), and sells    *)
(* that take nothing another one took, for any of their constants.         *)
(***************************************************************************)
THEOREM RecordsStayWellFormed == RecordsSpec => []RecordsWellFormed
<1>1. RecordsInit => DrpInit /\ AmitInit /\ CgtInit /\ OptInit
  BY DEF RecordsInit
<1>2. [RecordsNext]_<<part, drpVars, amitVars, cgtVars, optVars>>
        => /\ [DrpNext]_drpVars /\ [AmitNext]_amitVars
           /\ [CgtNext]_cgtVars /\ [OptNext]_optVars
  BY RecordsSteps
<1>3. RecordsSpec => DrpSpec
  BY <1>1, <1>2, PTL DEF RecordsSpec, DrpSpec
<1>4. RecordsSpec => AmitSpec
  BY <1>1, <1>2, PTL DEF RecordsSpec, AmitSpec
<1>5. RecordsSpec => CgtSpec
  BY <1>1, <1>2, PTL DEF RecordsSpec, CgtSpec
<1>6. RecordsSpec => OptSpec
  BY <1>1, <1>2, PTL DEF RecordsSpec, OptSpec
<1>7. DrpTypeOK /\ AmitTypeOK /\ CgtTypeOK /\ OptTypeOK => RecordsWellFormed
  BY DEF RecordsWellFormed
<1> QED
  BY <1>3, <1>4, <1>5, <1>6, <1>7,
     DrpTypeCorrect, AmitTypeCorrect, CgtTypeCorrect, OptTypeCorrect, PTL
=============================================================================
