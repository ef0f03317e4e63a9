----------------------------- MODULE GainsProofs -----------------------------
(***************************************************************************)
(* Proofs about what a sale leaves to be taxed: CapitalGains, whose years  *)
(* use their losses best, whose rehearsed sells become the recorded ones,  *)
(* and which taxes every dollar once; and ParcelOptimiser, whose advice    *)
(* can be recorded and is the best there is.                               *)
(***************************************************************************)
EXTENDS CapitalGains, ParcelOptimiser, SetTheorems, FiniteSetTheorems, TLAPS


-----------------------------------------------------------------------------
(* One year's losses. *)

\* The lesser of two amounts, and the greater.
LEMMA LeastMost ==
    ASSUME NEW a \in Int, NEW b \in Int
    PROVE  /\ Least(a, b) \in Int /\ Most(a, b) \in Int
           /\ Least(a, b) = IF a <= b THEN a ELSE b
           /\ Most(a, b) = IF a <= b THEN b ELSE a
  BY MinMaxOfTwo DEF Least, Most

\* Rounding an amount keeps its sign, and the order of amounts.
LEMMA CentsFacts ==
    ASSUME NEW x \in Int
    PROVE  ToCents(x) \in Int /\ (x >= 0 => ToCents(x) \in Nat)
<1>1. PICK g \in Int : g = CentGrain /\ g > 0
  BY CgtAssumption
<1>2. ASSUME NEW v \in Int PROVE (2 * v + g) \div (2 * g) \in Int
  <2>1. PICK d \in Int, w \in Int : d = 2 * g /\ w = 2 * v + g /\ d > 0
    BY <1>1
  <2>2. w \div d \in Int
    BY <2>1
  <2> QED
    BY <2>1, <2>2
<1>3. x >= 0 => (2 * x + g) \div (2 * g) \in Nat
  <2> SUFFICES ASSUME x >= 0 PROVE (2 * x + g) \div (2 * g) \in Nat
    OBVIOUS
  <2>1. PICK d \in Int, w \in Int, z \in Int : d = 2 * g /\ w = 2 * x + g /\ z = 0
    OBVIOUS
  <2>2. z \div d <= w \div d /\ w \div d \in Int
    BY <1>1, <2>1, DivUp
  <2>3. z \div d = 0
    BY <1>1, <2>1
  <2> QED
    BY <2>1, <2>2, <2>3
<1>4. PICK c \in Int : c = IF x < 0 THEN -((2 * (-x) + g) \div (2 * g))
                           ELSE (2 * x + g) \div (2 * g)
  <2>1. PICK m \in Int, n \in Int :
          m = (2 * (-x) + g) \div (2 * g) /\ n = (2 * x + g) \div (2 * g)
    <3>1. -x \in Int
      OBVIOUS
    <3> QED
      BY <1>2, <3>1
  <2> QED
    BY <2>1
<1>5. ToCents(x) = g * c
  BY <1>1, <1>4 DEF ToCents
<1>6. x >= 0 => c >= 0
  BY <1>3, <1>4
<1> QED
  BY <1>1, <1>5, <1>6

\* And of halves of amounts.
LEMMA HalfUp ==
    ASSUME NEW x \in Nat, NEW y \in Nat, x <= y
    PROVE  /\ ToCents(x \div 2) \in Int /\ ToCents(y \div 2) \in Int
           /\ ToCents(x \div 2) <= ToCents(y \div 2)
<1>1. PICK g \in Int : g = CentGrain /\ g > 0
  BY CgtAssumption
<1>2. PICK a \in Nat, b \in Nat : a = x \div 2 /\ b = y \div 2 /\ a <= b
  OBVIOUS
<1>3. PICK d \in Int, v \in Int, w \in Int : d = 2 * g /\ v = 2 * a + g /\ w = 2 * b + g
  OBVIOUS
<1>4. v \div d \in Int /\ w \div d \in Int /\ v \div d <= w \div d
  BY <1>1, <1>2, <1>3, DivUp
<1>5. ToCents(a) = g * (v \div d) /\ ToCents(b) = g * (w \div d)
  BY <1>1, <1>2, <1>3 DEF ToCents
<1>6. PICK m \in Int, n \in Int : m = v \div d /\ n = w \div d /\ m <= n
  BY <1>4
<1>7. g * m <= g * n
  <2>1. g * (n - m) >= 0 /\ g * (n - m) = g * n - g * m
    BY <1>1, <1>6
  <2> QED
    BY <2>1
<1> QED
  BY <1>2, <1>5, <1>6, <1>7, CentsFacts

\* The gains and losses of a year, neither negative.
Bucket == [discount : Nat, other : Nat, losses : Nat]

\* A row of the report: what its amounts come to.
YearRow == [discount : Nat, other : Nat, losses : Nat, broughtForward : Nat,
            netOther : Int, netDiscount : Int, gain : Int, carried : Nat]

\* Losses meet other gains first, and no other way of using them leaves less.
LEMMA NetYearBest ==
    ASSUME NEW b \in Bucket, NEW bf \in Nat
    PROVE  NetYear(b, bf) \in YearRow /\ RowUsesLossesBest(NetYear(b, bf), bf)
<1>1. PICK D \in Nat, O \in Nat, L \in Nat :
        D = ToCents(b.discount) /\ O = ToCents(b.other) /\ L = ToCents(b.losses)
  BY CentsFacts DEF Bucket
<1>a. PICK A \in Int : A = L + bf
  OBVIOUS
<1>b. PICK x0 \in Int : x0 = Least(O, A) /\ x0 = IF O <= A THEN O ELSE A
  <2>1. O \in Int /\ A \in Int
    OBVIOUS
  <2>2. Least(O, A) \in Int /\ Least(O, A) = IF O <= A THEN O ELSE A
    BY <2>1, LeastMost
  <2> QED
    BY <2>2
<1>c. PICK B \in Int : B = A - x0
  OBVIOUS
<1>d. PICK z0 \in Int : z0 = Least(D, B) /\ z0 = IF D <= B THEN D ELSE B
  <2>1. D \in Int /\ B \in Int
    OBVIOUS
  <2>2. Least(D, B) \in Int /\ Least(D, B) = IF D <= B THEN D ELSE B
    BY <2>1, LeastMost
  <2> QED
    BY <2>2
<1>2. x0 = Least(O, L + bf) /\ z0 = Least(D, L + bf - x0)
  BY <1>a, <1>b, <1>c, <1>d
<1>3. /\ x0 = IF O <= L + bf THEN O ELSE L + bf
      /\ z0 = IF D <= L + bf - x0 THEN D ELSE L + bf - x0
  BY <1>a, <1>b, <1>c, <1>d
<1>4. PICK row : row = NetYear(b, bf)
  OBVIOUS
<1>5. PICK T \in Int : T = ToCents((D - z0) \div 2)
  BY CentsFacts
<1>6. row = [discount |-> D, other |-> O, losses |-> L, broughtForward |-> bf,
             netOther |-> O - x0, netDiscount |-> D - z0,
             gain |-> O - x0 + (D - z0 - T),
             carried |-> L + bf - x0 - z0]
  BY <1>1, <1>2, <1>4, <1>5 DEF NetYear, Row
<1>7. L + bf - x0 - z0 \in Nat /\ x0 >= 0 /\ z0 >= 0 /\ z0 <= D /\ x0 <= O
  BY <1>3
<1>8. row \in YearRow
  BY <1>6, <1>7 DEF YearRow
<1>9. PICK used \in Int : used = x0 + z0
  OBVIOUS
<1>10. row.discount + row.other - row.netOther - row.netDiscount = used
  BY <1>6, <1>9
<1>11. row.losses + bf = used + row.carried
  BY <1>6, <1>9
<1>12. row.carried > 0 => used = row.discount + row.other
  BY <1>3, <1>6, <1>9
<1>13. ASSUME NEW x \in Int, x >= 0, x <= O, used - x >= 0, used - x <= D
       PROVE  row.gain <= O - x + (D - (used - x)) - ToCents((D - (used - x)) \div 2)
  <2>1. PICK u \in Nat, v \in Nat : u = D - (used - x) /\ v = D - z0
    BY <1>7, <1>13
  <2>2. u <= v
    BY <1>3, <1>9, <1>13, <2>1
  <2>3. PICK s \in Int, t \in Int : s = ToCents(u \div 2) /\ t = ToCents(v \div 2) /\ s <= t
    BY <2>2, HalfUp
  <2>4. row.gain = O - x0 + (D - z0 - t)
    BY <1>5, <1>6, <2>1, <2>3
  <2>5. O - x0 + (D - z0 - t) <= O - x + u - s
    BY <1>9, <2>1, <2>3
  <2> QED
    BY <2>1, <2>3, <2>4, <2>5
<1>14. \A x \in {CentGrain * k : k \in 0 .. (O \div CentGrain)} :
          used - x \in 0 .. D => x \in Int /\ x >= 0 /\ x <= O
  <2>1. PICK g \in Int : g = CentGrain /\ g > 0
    BY CgtAssumption
  <2>2. ASSUME NEW k \in 0 .. (O \div g) PROVE g * k \in Int /\ g * k >= 0 /\ g * k <= O
    <3>1. PICK q \in Int, r \in Int : q = O \div g /\ r = O % g /\ r >= 0
      BY <2>1
    <3>2. q * g + r = O
      BY <2>1, <3>1, SMTT(30)
    <3>3. k \in Int /\ k >= 0 /\ k <= q
      BY <2>2, <3>1
    <3>4. g * k >= 0 /\ (q - k) * g >= 0 /\ (q - k) * g = q * g - g * k
      BY <2>1, <3>3
    <3> QED
      BY <3>1, <3>2, <3>3, <3>4
  <2> QED
    BY <2>1, <2>2
<1>15. RowUsesLossesBest(row, bf)
  <2>1. row.other = O /\ row.discount = D
    BY <1>6
  <2>2. \A x \in {CentGrain * k : k \in 0 .. (O \div CentGrain)} :
          used - x \in 0 .. D =>
              row.gain <= O - x + (D - (used - x)) - ToCents((D - (used - x)) \div 2)
    BY <1>13, <1>14
  <2> QED
    BY <1>10, <1>11, <1>12, <2>1, <2>2 DEF RowUsesLossesBest
<1> QED
  BY <1>4, <1>8, <1>15

-----------------------------------------------------------------------------
(* The rows of the years. *)

\* The loss the report of `rows` brings into year y.
Brought(rows, y) == IF y = 1 THEN ToCents(openingLoss) ELSE rows[y - 1].carried

\* The rows of the first n years, with buckets b.
Netted(b, n) ==
    {rows \in Seq(YearRow) :
        /\ Len(rows) = n
        /\ \A y \in 1 .. n : rows[y] = NetYear(b[y], Brought(rows, y))}

\* One year more.
LEMMA NettedNext ==
    ASSUME openingLoss \in Nat, NEW b, NEW n \in Nat \ {0}, b[n] \in Bucket,
           NEW rows \in Netted(b, n - 1)
    PROVE  /\ Append(rows, NetYear(b[n], Brought(rows, n))) \in Netted(b, n)
           /\ Brought(rows, n) \in Nat
<1>1. rows \in Seq(YearRow) /\ Len(rows) = n - 1
  BY DEF Netted
<1>2. Brought(rows, n) \in Nat
  <2>1. ToCents(openingLoss) \in Nat
    BY CentsFacts
  <2>2. n # 1 => rows[n - 1] \in YearRow
    BY <1>1
  <2> QED
    BY <2>1, <2>2 DEF Brought, YearRow
<1>3. PICK row \in YearRow : row = NetYear(b[n], Brought(rows, n))
  BY <1>2, NetYearBest
<1>4. PICK more : more = Append(rows, row)
  OBVIOUS
<1>5. /\ more \in Seq(YearRow) /\ Len(more) = n /\ more[n] = row
      /\ \A y \in 1 .. (n - 1) : more[y] = rows[y]
  <2>1. more \in Seq(YearRow) /\ Len(more) = n
    BY <1>1, <1>4
  <2> QED
    BY <1>1, <1>4, <2>1
<1>6. \A y \in 1 .. n : Brought(more, y) = Brought(rows, y)
  BY <1>5 DEF Brought
<1>7. \A y \in 1 .. (n - 1) : rows[y] = NetYear(b[y], Brought(rows, y))
  BY DEF Netted
<1>8. \A y \in 1 .. n : more[y] = NetYear(b[y], Brought(more, y))
  BY <1>3, <1>5, <1>6, <1>7
<1> QED
  BY <1>2, <1>3, <1>4, <1>5, <1>8 DEF Netted

\* There are some years.
LEMMA SomeYears == FyOf(CgtDays) \in Nat \ {0} /\ Fys = 1 .. FyOf(CgtDays)
<1>1. PICK n \in Nat, f \in Int, z \in Int : n = CgtDays - 1 /\ f = FyLength /\ f > 0 /\ z = 0
  BY CgtAssumption
<1>2. z \div f <= n \div f /\ n \div f \in Int /\ z \div f = 0
  BY <1>1, DivUp
<1> QED
  BY <1>1, <1>2 DEF FyOf, Fys

\* The report's rows, each from its bucket and what the row before carries.
LEMMA NetYearsAre ==
    ASSUME openingLoss \in Nat, NEW items,
           \A y \in Fys : GrossBuckets(items, y) \in Bucket
    PROVE  NetYears(items) \in Netted([y \in Fys |-> GrossBuckets(items, y)], FyOf(CgtDays))
<1>0. PICK N \in Nat \ {0} : N = FyOf(CgtDays)
  BY SomeYears
<1>1. PICK b : N = FyOf(CgtDays) /\ b = [y \in 1 .. N |-> GrossBuckets(items, y)]
  BY <1>0
<1>2. \A y \in 1 .. N : b[y] = GrossBuckets(items, y) /\ b[y] \in Bucket
  BY <1>1, SomeYears
<1>3. PICK V : V = [n \in 0 .. N |-> Netted(b, n)]
  OBVIOUS
<1>4. PICK step : step = [x \in Seq(YearRow) \X (1 .. N) |->
                            Append(x[1], NetYear(b[x[2]], Brought(x[1], x[2])))]
  OBVIOUS
<1>5. \A y \in 1 .. N : \A rows \in Seq(YearRow) :
          step[<<rows, y>>] = Append(rows, NetYear(b[y], Brought(rows, y)))
  BY <1>4
<1>6. <<>> \in V[0]
  BY <1>1, <1>3 DEF Netted
<1>7. ASSUME NEW y \in 1 .. N, NEW rows \in V[y - 1]
      PROVE  /\ step[<<rows, y>>] \in V[y]
             /\ step[<<rows, y>>] = Append(rows, NetYear(b[y], Brought(rows, y)))
             /\ rows \in Seq(YearRow)
  <2>1. rows \in Netted(b, y - 1) /\ y \in Nat \ {0} /\ V[y] = Netted(b, y)
    BY <1>3, <1>7
  <2>2. rows \in Seq(YearRow)
    BY <2>1 DEF Netted
  <2>3. Append(rows, NetYear(b[y], Brought(rows, y))) \in Netted(b, y)
    BY <1>2, <2>1, NettedNext
  <2> QED
    BY <1>5, <2>1, <2>2, <2>3
<1>8. PICK f : Walk(f, N, <<>>, step) /\ \A y \in 0 .. N : f[y] \in V[y]
  BY <1>1, <1>6, <1>7, WalkStays
<1> DEFINE Years(r) == r = [y \in 0 .. N |->
                  IF y = 0 THEN <<>>
                  ELSE Append(r[y - 1],
                              NetYear(GrossBuckets(items, y),
                                      IF y = 1 THEN ToCents(openingLoss)
                                      ELSE r[y - 1][y - 1].carried))]
<1>9. Years(f)
  <2>1. f[0] = <<>> /\ \A y \in 1 .. N : f[y] = step[<<f[y - 1], y>>]
    BY <1>8 DEF Walk
  <2>2. ASSUME NEW y \in 1 .. N
        PROVE  f[y] = Append(f[y - 1], NetYear(b[y], Brought(f[y - 1], y)))
    <3>1. y - 1 \in 0 .. N
      OBVIOUS
    <3>2. f[y - 1] \in V[y - 1]
      BY <1>8, <3>1
    <3>3. step[<<f[y - 1], y>>] = Append(f[y - 1], NetYear(b[y], Brought(f[y - 1], y)))
      BY <1>7, <3>2
    <3> QED
      BY <2>1, <3>3
  <2>3. ASSUME NEW y \in 0 .. N
        PROVE  f[y] = IF y = 0 THEN <<>>
                      ELSE Append(f[y - 1],
                                  NetYear(GrossBuckets(items, y),
                                          IF y = 1 THEN ToCents(openingLoss)
                                          ELSE f[y - 1][y - 1].carried))
    <3>1. CASE y = 0
      BY <2>1, <3>1
    <3>2. CASE y \in 1 .. N
      <4>1. Brought(f[y - 1], y) = IF y = 1 THEN ToCents(openingLoss)
                                   ELSE f[y - 1][y - 1].carried
        BY DEF Brought
      <4>2. y # 0 /\ b[y] = GrossBuckets(items, y)
        BY <1>2, <3>2
      <4>3. f[y] = Append(f[y - 1], NetYear(b[y], Brought(f[y - 1], y)))
        BY <2>2, <3>2
      <4> QED
        BY <4>1, <4>2, <4>3
    <3> QED
      BY <3>1, <3>2
  <2>4. f = [y \in 0 .. N |-> f[y]]
    BY <1>8 DEF Walk
  <2> QED
    BY <2>3, <2>4
<1> HIDE DEF Years
<1>10. PICK r : r = (CHOOSE g : Years(g)) /\ Years(r)
  BY <1>9
<1>11. NetYears(items) = r[N]
  BY <1>1, <1>10 DEF NetYears, Years
<1>a. /\ r[0] = <<>>
      /\ \A y \in 1 .. N : r[y] = Append(r[y - 1], NetYear(b[y], Brought(r[y - 1], y)))
  <2>1. r[0] = <<>>
    <3>1. 0 \in 0 .. N
      OBVIOUS
    <3> QED
      BY <1>10, <3>1 DEF Years
  <2>2. ASSUME NEW y \in 1 .. N
        PROVE  r[y] = Append(r[y - 1], NetYear(b[y], Brought(r[y - 1], y)))
    <3>1. y \in 0 .. N /\ y # 0
      OBVIOUS
    <3>2. r[y] = Append(r[y - 1], NetYear(b[y], Brought(r[y - 1], y)))
      <4>1. Brought(r[y - 1], y) = IF y = 1 THEN ToCents(openingLoss)
                                   ELSE r[y - 1][y - 1].carried
        BY DEF Brought
      <4>2. b[y] = GrossBuckets(items, y)
        BY <1>2
      <4>3. r[y] = Append(r[y - 1], NetYear(GrossBuckets(items, y),
                                            IF y = 1 THEN ToCents(openingLoss)
                                            ELSE r[y - 1][y - 1].carried))
        BY <1>10, <3>1 DEF Years
      <4> QED
        BY <4>1, <4>2, <4>3
    <3> QED
      BY <3>2
  <2> QED
    BY <2>1, <2>2
<1>12. r[N] \in Netted(b, N)
  <2>1. PICK S : S = {y \in 0 .. N : r[y] \in V[y]}
    OBVIOUS
  <2>2. 0 \in S
    BY <1>6, <1>a, <2>1
  <2>3. ASSUME NEW y \in 1 .. N, y - 1 \in S PROVE y \in S
    <3>1. r[y - 1] \in V[y - 1]
      BY <2>1, <2>3
    <3>2. r[y] = Append(r[y - 1], NetYear(b[y], Brought(r[y - 1], y)))
      BY <1>a
    <3>a. /\ step[<<r[y - 1], y>>] \in V[y]
          /\ step[<<r[y - 1], y>>] = Append(r[y - 1], NetYear(b[y], Brought(r[y - 1], y)))
      BY <1>7, <3>1
    <3>3. r[y] \in V[y] /\ y \in 0 .. N
      BY <3>2, <3>a
    <3> QED
      BY <2>1, <3>3
  <2>4. \A y \in 0 .. N : y \in S
    BY <2>2, <2>3, Climb
  <2>5. N \in S
    BY <2>4
  <2> QED
    BY <1>3, <2>1, <2>5
<1> QED
  BY <1>1, <1>11, <1>12, SomeYears

\* Each row uses its losses best.
LEMMA NetYearsFacts ==
    ASSUME openingLoss \in Nat, NEW items,
           \A y \in Fys : GrossBuckets(items, y) \in Bucket
    PROVE  \A y \in Fys : RowUsesLossesBest(NetYears(items)[y], Brought(NetYears(items), y))
<1>1. PICK N \in Nat \ {0} : N = FyOf(CgtDays)
  BY SomeYears
<1>2. PICK b : b = [y \in Fys |-> GrossBuckets(items, y)]
  OBVIOUS
<1>3. \A y \in 1 .. N : b[y] \in Bucket
  BY <1>1, <1>2, SomeYears
<1>4. ASSUME NEW y \in 1 .. N, NEW rows \in Netted(b, N)
      PROVE  RowUsesLossesBest(rows[y], Brought(rows, y))
  <2>1. rows[y] = NetYear(b[y], Brought(rows, y)) /\ rows \in Seq(YearRow) /\ Len(rows) = N
    BY <1>4 DEF Netted
  <2>2. Brought(rows, y) \in Nat
    <3>1. ToCents(openingLoss) \in Nat
      BY CentsFacts
    <3>2. y # 1 => rows[y - 1] \in YearRow
      BY <2>1
    <3> QED
      BY <3>1, <3>2 DEF Brought, YearRow
  <2> QED
    BY <1>3, <2>1, <2>2, NetYearBest
<1> QED
  BY <1>1, <1>2, <1>4, NetYearsAre, SomeYears

-----------------------------------------------------------------------------
(* Totals. *)

\* Items with whole amounts come to a whole amount, of their sign.
LEMMA TotalFacts ==
    ASSUME NEW items, IsFiniteSet(items), \A g \in items : g.amount \in Int
    PROVE  /\ Total(items) \in Int
           /\ (\A g \in items : g.amount >= 0) => Total(items) \in Nat
           /\ (\A g \in items : g.amount <= 0) => -Total(items) \in Nat
<1>1. PICK f : f = [g \in items |-> g.amount]
  OBVIOUS
<1>2. PICK z : z = [g \in items |-> 0]
  OBVIOUS
<1>3. Total(items) = SumOver(f, items)
  BY <1>1 DEF Total
<1>4. \A g \in items : f[g] = g.amount /\ f[g] \in Int /\ z[g] = 0 /\ z[g] \in Int
  BY <1>1, <1>2
<1>5. SumOver(f, items) \in Int
  BY <1>4, SumInt
<1>6. ASSUME \A g \in items : g.amount >= 0 PROVE SumOver(f, items) \in Nat
  <2>1. \A g \in items : f[g] \in Nat
    BY <1>4, <1>6
  <2> QED
    BY <2>1, SumNat
<1>7. ASSUME \A g \in items : g.amount <= 0 PROVE SumOver(f, items) <= 0
  <2>1. SumOver(z, items) = 0
    BY <1>4, SumZero
  <2>2. \A g \in items : f[g] \in Int /\ z[g] \in Int /\ f[g] <= z[g]
    BY <1>4, <1>7
  <2>3. SumOver(f, items) <= SumOver(z, items)
    BY <2>2, SumAtMost
  <2> QED
    BY <2>1, <2>3
<1>8. PICK s \in Int : s = SumOver(f, items)
  BY <1>5
<1> QED
  BY <1>3, <1>6, <1>7, <1>8

\* The attributed gains of a year: no statement's is negative.
StatementsOK ==
    /\ IsFiniteSet(statements)
    /\ statements \in SUBSET [year : Fys, rate : Int, gain : Nat]

\* Items with whole amounts make the buckets of every year.
LEMMA BucketsFacts ==
    ASSUME NEW items, IsFiniteSet(items), \A g \in items : g.amount \in Int,
           StatementsOK, NEW y
    PROVE  GrossBuckets(items, y) \in Bucket
<1>1. PICK ofYear \in SUBSET items : ofYear = {g \in items : FyOf(g.day) = y}
  OBVIOUS
<1>2. PICK gains \in SUBSET ofYear : gains = {g \in ofYear : g.amount > 0}
  OBVIOUS
<1>3. PICK old \in SUBSET gains :
        old = {g \in gains : DiscountEligible(parcels[g.parcel].day, g.day)}
  OBVIOUS
<1>4. /\ IsFiniteSet(old) /\ IsFiniteSet(gains \ old) /\ IsFiniteSet(ofYear \ gains)
  <2>1. old \subseteq items /\ gains \ old \subseteq items /\ ofYear \ gains \subseteq items
    OBVIOUS
  <2>2. \A S \in SUBSET items : IsFiniteSet(S)
    BY FS_Subset
  <2> QED
    BY <2>1, <2>2
<1>5. Total(old) \in Nat
  <2>1. \A g \in old : g.amount \in Int /\ g.amount >= 0
    BY <1>2
  <2> QED
    BY <1>4, <2>1, TotalFacts
<1>6. Total(gains \ old) \in Nat
  <2>1. \A g \in gains \ old : g.amount \in Int /\ g.amount >= 0
    BY <1>2
  <2> QED
    BY <1>4, <2>1, TotalFacts
<1>7. -Total(ofYear \ gains) \in Nat
  <2>1. \A g \in ofYear \ gains : g.amount \in Int /\ g.amount <= 0
    BY <1>2
  <2> QED
    BY <1>4, <2>1, TotalFacts
<1>8. StatementBucket(y) \in Nat
  <2>1. PICK S \in SUBSET statements : S = {x \in statements : x.year = y}
    OBVIOUS
  <2>2. PICK f : f = [s \in S |-> [statement |-> s, amount |-> 2 * s.gain]]
    OBVIOUS
  <2>3. PICK T : T = {f[s] : s \in S}
    OBVIOUS
  <2>4. IsFiniteSet(S)
    BY FS_Subset DEF StatementsOK
  <2>5. IsFiniteSet(T)
    BY <2>2, <2>3, <2>4, MadeFinite
  <2>6. \A s \in S : s.gain \in Nat
    BY DEF StatementsOK
  <2>7. \A g \in T : g.amount \in Int /\ g.amount >= 0
    BY <2>2, <2>3, <2>6
  <2>8. StatementBucket(y) = Total(T)
    BY <2>1, <2>2, <2>3 DEF StatementBucket
  <2> QED
    BY <2>5, <2>7, <2>8, TotalFacts
<1>9. PICK D, O, L : D = Total(old) + StatementBucket(y) /\ O = Total(gains \ old)
                     /\ L = -Total(ofYear \ gains)
  OBVIOUS
<1>10. D \in Nat /\ O \in Nat /\ L \in Nat
  BY <1>5, <1>6, <1>7, <1>8, <1>9
<1>11. GrossBuckets(items, y) = [discount |-> D, other |-> O, losses |-> L]
  BY <1>1, <1>2, <1>3, <1>9 DEF GrossBuckets
<1> QED
  BY <1>10, <1>11 DEF Bucket

-----------------------------------------------------------------------------
(* The amounts the reports are made of. *)

\* A sell takes some units.
Sell == {s \in [date : Int, proceeds : Int, take : [CgtParcels -> Nat]] :
           UnitsSold(s) \in Nat \ {0}}

\* What every write keeps: a parcel has units, a sell takes some, and what was
\* entered is finite and whole.
CgtInv ==
    /\ parcels \in [CgtParcels -> [day : Nat, units : Nat, cost : Int]]
    /\ \A p \in Bought : parcels[p].units \in Nat \ {0}
    /\ IsFiniteSet(payments)
    /\ payments \in SUBSET [date : Int, rate : Int, record : Int]
    /\ StatementsOK
    /\ coverage \in [CgtParcels -> [Fys -> Nat]]
    /\ sells \in Seq(Sell)
    /\ openingLoss \in Nat

\* What is made of the members of a finite set comes to a whole amount.
LEMMA MadeTotal ==
    ASSUME NEW S, IsFiniteSet(S), NEW f, DOMAIN f = S, \A x \in S : f[x].amount \in Int
    PROVE  /\ Total({f[x] : x \in S}) \in Int
           /\ (\A x \in S : f[x].amount >= 0) => Total({f[x] : x \in S}) \in Nat
<1>1. PICK T : T = {f[x] : x \in S}
  OBVIOUS
<1>2. IsFiniteSet(T)
  BY <1>1, MadeFinite
<1>3. \A g \in T : g.amount \in Int
  BY <1>1
<1>4. (\A x \in S : f[x].amount >= 0) => \A g \in T : g.amount >= 0
  BY <1>1
<1> QED
  BY <1>1, <1>2, <1>3, <1>4, TotalFacts

\* The units that the sells of a time took of a parcel.
LEMMA TakenFacts ==
    ASSUME NEW S \in Seq(Sell), NEW p \in CgtParcels, NEW from, NEW to
    PROVE  UnitsTaken(S, p, from, to) \in Nat
<1>1. PICK J \in SUBSET (1 .. Len(S)) :
        J = {j \in DOMAIN S : from <= S[j].date /\ S[j].date <= to}
  <2>1. DOMAIN S = 1 .. Len(S)
    OBVIOUS
  <2> QED
    BY <2>1
<1>2. IsFiniteSet(J)
  <2>1. IsFiniteSet(1 .. Len(S))
    BY FS_Interval
  <2> QED
    BY <2>1, FS_Subset
<1>3. PICK f : f = [i \in J |-> [sell |-> i, amount |-> S[i].take[p]]]
  OBVIOUS
<1>4. \A i \in J : f[i].amount \in Int /\ f[i].amount >= 0
  <2>1. \A i \in J : S[i] \in Sell
    OBVIOUS
  <2>2. \A i \in J : S[i].take[p] \in Nat
    BY <2>1 DEF Sell
  <2> QED
    BY <1>3, <2>2
<1>5. UnitsTaken(S, p, from, to) = Total({f[i] : i \in J})
  BY <1>1, <1>3 DEF UnitsTaken
<1>6. Total({f[i] : i \in J}) \in Nat
  <2>1. DOMAIN f = J /\ \A i \in J : f[i].amount \in Int
    BY <1>3, <1>4
  <2>2. (\A i \in J : f[i].amount >= 0) => Total({f[i] : i \in J}) \in Nat
    BY <1>2, <2>1, MadeTotal
  <2> QED
    BY <1>4, <2>2
<1> QED
  BY <1>5, <1>6

\* The years of the reports, as days.
LEMMA YearDays ==
    ASSUME NEW y \in Int
    PROVE  FyEnd(y) \in Int /\ FyStart(y) \in Int
<1>1. PICK f \in Int : f = FyLength
  BY CgtAssumption
<1>2. y * f \in Int /\ (y - 1) * f \in Int
  OBVIOUS
<1> QED
  BY <1>1, <1>2 DEF FyEnd, FyStart

\* The last day of the reports.
LEMMA LastDayNat == LastDay \in Nat
<1>1. PICK f \in Nat, n \in Nat : f = FyLength /\ n = FyOf(CgtDays)
  BY CgtAssumption, SomeYears
<1>2. n * f \in Nat
  OBVIOUS
<1> QED
  BY <1>1, <1>2 DEF LastDay, FyEnd

\* A statement as it reaches a parcel.
Event == [year : Int, rate : Int, covered : Nat,
          disposedByYearEnd : Nat, disposedBeforeYearStart : Nat]

\* There are finitely many.
LEMMA EventsFacts ==
    ASSUME CgtInv, NEW S \in Seq(Sell), NEW p \in CgtParcels
    PROVE  IsFiniteSet(AmitEvents(S, p)) /\ AmitEvents(S, p) \in SUBSET Event
<1>1. PICK T \in SUBSET statements : T = {t \in statements : coverage[p][t.year] > 0}
  OBVIOUS
<1>2. IsFiniteSet(T)
  BY FS_Subset DEF CgtInv, StatementsOK
<1>3. PICK f : f = [s \in T |-> AmitEvent(S, p, s)]
  OBVIOUS
<1>4. AmitEvents(S, p) = {f[s] : s \in T}
  BY <1>1, <1>3 DEF AmitEvents
<1>5. \A s \in T : s.year \in Fys /\ s.rate \in Int /\ s.year \in Int
  BY SomeYears DEF CgtInv, StatementsOK
<1>6. \A s \in T : coverage[p][s.year] \in Nat
  BY <1>5 DEF CgtInv
<1>7. \A s \in T : AmitEvent(S, p, s) \in Event
  BY <1>5, <1>6, TakenFacts DEF AmitEvent, Event
<1>8. \A s \in T : f[s] \in Event
  BY <1>3, <1>7
<1> QED
  BY <1>2, <1>3, <1>4, <1>8, MadeFinite

\* What a statement takes off some units.
LEMMA ReductionFacts ==
    ASSUME NEW e \in Event, NEW quantity \in Nat, NEW units \in Nat, NEW left \in Int
    PROVE  ReductionForUnits(e, quantity, units, left) \in Int
<1>1. PICK byEnd \in Int, before \in Int, rate \in Int, covered \in Int :
        /\ byEnd = e.disposedByYearEnd /\ before = e.disposedBeforeYearStart
        /\ rate = e.rate /\ covered = e.covered
  BY DEF Event
<1>2. PICK gone \in Int : gone = Least(byEnd, quantity) /\ gone <= quantity
  BY LeastMost
<1>3. PICK staying \in Int : staying = quantity - gone /\ staying >= 0
  BY <1>2
<1>4. PICK sold \in Int : sold = Most(gone - before, 0) /\ sold >= 0
  <2>1. PICK x \in Int, z \in Int : x = gone - before /\ z = 0
    OBVIOUS
  <2>2. PICK m \in Int : m = Most(x, z) /\ m = IF x <= z THEN z ELSE x
    BY LeastMost
  <2>3. m >= z
    BY <2>2
  <2> QED
    BY <2>1, <2>2, <2>3
<1>5. ASSUME NEW cover \in Int, NEW group \in Int, group >= 0
      PROVE  (IF group = 0 THEN 0 ELSE (rate * cover * units) \div group) \in Int
  <2>1. CASE group = 0
    BY <2>1
  <2>2. CASE group # 0
    <3>1. PICK x \in Int : x = rate * cover * units
      OBVIOUS
    <3>2. x \div group \in Int
      BY <1>5, <2>2, Quotient
    <3> QED
      BY <2>2, <3>1, <3>2
  <2> QED
    BY <2>1, <2>2
<1>6. PICK spill \in Int : spill = Least(Most(covered - staying, 0), sold)
  <2>1. PICK x \in Int, z \in Int : x = covered - staying /\ z = 0
    OBVIOUS
  <2>2. PICK m \in Int : m = Most(x, z)
    BY LeastMost
  <2>3. Least(m, sold) \in Int
    BY LeastMost
  <2> QED
    BY <2>1, <2>2, <2>3
<1>7. PICK kept \in Int : kept = Least(covered, staying)
  BY LeastMost
<1>8. PICK a \in Int, b \in Int :
        /\ a = IF sold = 0 THEN 0 ELSE (rate * spill * units) \div sold
        /\ b = IF staying = 0 THEN 0 ELSE (rate * kept * units) \div staying
  BY <1>3, <1>4, <1>5
<1>9. ReductionForUnits(e, quantity, units, left) =
        CASE left # StillHeld /\ left < FyStart(e.year) -> 0
          [] left \in FyStart(e.year)..FyEnd(e.year) -> a
          [] OTHER -> b
  BY <1>1, <1>2, <1>3, <1>4, <1>6, <1>7, <1>8 DEF ReductionForUnits
<1> QED
  BY <1>9

\* What the statements ending on a day take off some units.
LEMMA AmitReductionInt ==
    ASSUME CgtInv, NEW p \in CgtParcels, NEW units \in Nat, NEW left \in Int,
           NEW events \in SUBSET Event, IsFiniteSet(events), NEW d
    PROVE  AmitReduction(p, units, left, events, d) \in Int
<1>1. PICK E \in SUBSET events : E = {f \in events : FyEnd(f.year) = d}
  OBVIOUS
<1>2. IsFiniteSet(E)
  BY FS_Subset
<1>3. PICK f : f = [e \in E |->
                     [event |-> e,
                      amount |-> ReductionForUnits(e, parcels[p].units, units, left)]]
  OBVIOUS
<1>4. parcels[p].units \in Nat
  BY DEF CgtInv
<1>5. \A e \in E : ReductionForUnits(e, parcels[p].units, units, left) \in Int
  BY <1>4, ReductionFacts
<1>6. Total({f[e] : e \in E}) \in Int
  <2>1. DOMAIN f = E /\ \A e \in E : f[e].amount \in Int
    BY <1>3, <1>5
  <2> QED
    BY <1>2, <2>1, MadeTotal
<1>7. AmitReduction(p, units, left, events, d) = Total({f[e] : e \in E})
  BY <1>1, <1>3 DEF AmitReduction
<1> QED
  BY <1>6, <1>7

\* What payments pay on some units.
LEMMA PaidInt ==
    ASSUME CgtInv, NEW pays \in SUBSET payments, NEW units \in Nat
    PROVE  Paid(pays, units) \in Int
<1>1. IsFiniteSet(pays)
  BY FS_Subset DEF CgtInv
<1>2. PICK f : f = [pay \in pays |-> [pay |-> pay, amount |-> pay.rate * units]]
  OBVIOUS
<1>3. \A pay \in pays : pay.rate \in Int
  BY DEF CgtInv
<1>4. \A pay \in pays : pay.rate * units \in Int
  BY <1>3
<1>5. Total({f[pay] : pay \in pays}) \in Int
  <2>1. DOMAIN f = pays /\ \A pay \in pays : f[pay].amount \in Int
    BY <1>2, <1>4
  <2> QED
    BY <1>1, <2>1, MadeTotal
<1>6. Paid(pays, units) = Total({f[pay] : pay \in pays})
  BY <1>2 DEF Paid
<1> QED
  BY <1>5, <1>6

\* The part of a parcel's cost that is of some units.
LEMMA ProratedInt ==
    ASSUME CgtInv, NEW p \in Bought, NEW units \in Nat
    PROVE  ProratedCost(p, units) \in Int
<1>1. PICK c \in Int, n \in Nat \ {0} : c = parcels[p].cost /\ n = parcels[p].units
  BY DEF CgtInv, Bought
<1>2. PICK x \in Int : x = c * units
  OBVIOUS
<1>3. x \div n \in Int
  BY Quotient
<1> QED
  BY <1>1, <1>2, <1>3 DEF ProratedCost

\* What a day of reduction_walk leaves of the cost.
CostAfter(p, units, events, on, before, d) ==
    LET after == Most(before - AmitReduction(p, units, on, events, d), 0)
    IN  IF d > on THEN after ELSE Most(after - Paid(PaymentsOn(p, d), units), 0)

\* Still a whole amount.
LEMMA CostAfterInt ==
    ASSUME CgtInv, NEW p \in CgtParcels, NEW units \in Nat, NEW on \in Int,
           NEW events \in SUBSET Event, IsFiniteSet(events), NEW before \in Int, NEW d \in Int
    PROVE  CostAfter(p, units, events, on, before, d) \in Int
<1>1. PICK a \in Int : a = AmitReduction(p, units, on, events, d)
  BY AmitReductionInt
<1>2. PICK r \in Int : r = Paid(PaymentsOn(p, d), units)
  <2>1. PaymentsOn(p, d) \in SUBSET payments
    BY DEF PaymentsOn
  <2> QED
    BY <2>1, PaidInt
<1>3. PICK after \in Int : after = Most(before - a, 0)
  <2>1. PICK x \in Int, z \in Int : x = before - a /\ z = 0
    OBVIOUS
  <2> QED
    BY <2>1, LeastMost
<1>4. Most(after - r, 0) \in Int
  <2>1. PICK x \in Int, z \in Int : x = after - r /\ z = 0
    OBVIOUS
  <2> QED
    BY <2>1, LeastMost
<1> QED
  BY <1>1, <1>2, <1>3, <1>4 DEF CostAfter

\* What each day leaves of the cost.
Costs(r, p, units, events, on) ==
    r = [d \in 0 .. LastDay |->
           IF d = 0 THEN ProratedCost(p, units) ELSE CostAfter(p, units, events, on, r[d - 1], d)]

\* The adjusted cost base of some units is what the last day leaves.
LEMMA CostBaseIs ==
    ASSUME CgtInv, NEW p \in Bought, NEW units \in Nat, NEW on \in Int,
           NEW events \in SUBSET Event, IsFiniteSet(events)
    PROVE  \E r : /\ Costs(r, p, units, events, on)
                  /\ AdjustedCostBase(p, units, events, on) = r[LastDay]
                  /\ \A d \in 0 .. LastDay : r[d] \in Int
<1>1. PICK N \in Nat, a \in Int : N = LastDay /\ a = ProratedCost(p, units)
  BY LastDayNat, ProratedInt
<1>2. PICK step : step = [x \in Int \X (1 .. N) |-> CostAfter(p, units, events, on, x[1], x[2])]
  OBVIOUS
<1>3. p \in CgtParcels
  BY DEF Bought
<1>4. \A v \in Int : \A d \in 1 .. N :
         /\ step[<<v, d>>] = CostAfter(p, units, events, on, v, d)
         /\ step[<<v, d>>] \in Int
  BY <1>2, <1>3, CostAfterInt
<1>5. step \in [Int \X (1 .. N) -> Int]
  BY <1>2, <1>4
<1>6. WalksIn(N, Int, a, step)
  BY <1>5, WalkIn
<1>7. PICK f : Walk(f, N, a, step) /\ \A d \in 0 .. N : f[d] \in Int
  BY <1>6 DEF WalksIn
<1>8. Costs(f, p, units, events, on)
  <2>1. \A d \in 0 .. N : f[d] = IF d = 0 THEN a ELSE step[<<f[d - 1], d>>]
    BY <1>7 DEF Walk
  <2>2. \A d \in 1 .. N : step[<<f[d - 1], d>>] = CostAfter(p, units, events, on, f[d - 1], d)
    BY <1>4, <1>7
  <2>a. \A d \in 0 .. N : d # 0 => d \in 1 .. N
    OBVIOUS
  <2>3. \A d \in 0 .. N : f[d] = IF d = 0 THEN a ELSE CostAfter(p, units, events, on, f[d - 1], d)
    BY <2>1, <2>2, <2>a, Zenon
  <2>4. f = [d \in 0 .. N |-> f[d]]
    BY <1>7 DEF Walk
  <2> QED
    BY <1>1, <2>3, <2>4 DEF Costs
<1>9. PICK r : r = (CHOOSE g : Costs(g, p, units, events, on)) /\ Costs(r, p, units, events, on)
  BY <1>8
<1>10. AdjustedCostBase(p, units, events, on) = r[N]
  BY <1>1, <1>9 DEF AdjustedCostBase, Costs, CostAfter
<1>11. /\ r[0] = a
       /\ \A d \in 1 .. N : r[d - 1] \in Int => r[d] = step[<<r[d - 1], d>>]
  <2>1. \A d \in 0 .. N : r[d] = IF d = 0 THEN a ELSE CostAfter(p, units, events, on, r[d - 1], d)
    BY <1>1, <1>9 DEF Costs
  <2>2. 0 \in 0 .. N /\ \A d \in 1 .. N : d \in 0 .. N /\ d # 0
    OBVIOUS
  <2>3. r[0] = a
    BY <2>1, <2>2
  <2>4. \A d \in 1 .. N : r[d] = CostAfter(p, units, events, on, r[d - 1], d)
    BY <2>1, <2>2
  <2> QED
    BY <1>4, <2>3, <2>4
<1>12. \A d \in 0 .. N : r[d] \in Int
  BY <1>6, <1>11 DEF WalksIn
<1> QED
  BY <1>1, <1>9, <1>10, <1>12

\* So it is a whole amount.
LEMMA CostBaseInt ==
    ASSUME CgtInv, NEW p \in Bought, NEW units \in Nat, NEW on \in Int,
           NEW events \in SUBSET Event, IsFiniteSet(events)
    PROVE  AdjustedCostBase(p, units, events, on) \in Int
<1>1. LastDay \in 0 .. LastDay
  BY LastDayNat
<1> QED
  BY <1>1, CostBaseIs

\* The units of a parcel that left on a day, or are still held.
Cohort == [sell : Nat, left : Int, units : Nat]

\* A gain that arises without a disposal.
Gains == Seq([day : Int, amount : Int])

\* Where a day of non_disposal_gains leaves the cost and the gains.
GainsAfter(p, c, events, before, d) ==
    LET amit == AmitReduction(p, c.units, c.left, events, d)
        roc == RocReduction(p, c, d)
        after == Most(before.left - amit, 0)
        gain == Most(amit - before.left, 0) + Most(roc - after, 0) + RightsEnded(p, c, d)
    IN  [left |-> Most(after - roc, 0),
         gains |-> IF gain = 0 THEN before.gains
                   ELSE Append(before.gains, [day |-> d, amount |-> gain])]

\* Each gain is a whole amount.
LEMMA GainsAfterTyped ==
    ASSUME CgtInv, NEW p \in CgtParcels, NEW c \in Cohort,
           NEW events \in SUBSET Event, IsFiniteSet(events),
           NEW before \in [left : Int, gains : Gains], NEW d \in Int
    PROVE  GainsAfter(p, c, events, before, d) \in [left : Int, gains : Gains]
<1>1. c.units \in Nat /\ c.left \in Int /\ before.left \in Int /\ before.gains \in Gains
  BY DEF Cohort
<1>2. PICK amit \in Int : amit = AmitReduction(p, c.units, c.left, events, d)
  BY <1>1, AmitReductionInt
<1>3. PICK roc \in Int : roc = RocReduction(p, c, d)
  <2>1. PaymentsOn(p, d) \in SUBSET payments
    BY DEF PaymentsOn
  <2>2. Paid(PaymentsOn(p, d), c.units) \in Int
    BY <1>1, <2>1, PaidInt
  <2>3. RocReduction(p, c, d) \in Int
    BY <2>2 DEF RocReduction
  <2> QED
    BY <2>3
<1>4. PICK ended \in Int : ended = RightsEnded(p, c, d)
  <2>1. PICK pays \in SUBSET payments :
          pays = {pay \in PaymentsOn(p, d) : pay.record # NoRecord
                                             /\ Settled(c.left) > pay.record}
    BY DEF PaymentsOn
  <2>2. Paid(pays, c.units) \in Int
    BY <1>1, PaidInt
  <2>3. RightsEnded(p, c, d) \in Int
    BY <2>1, <2>2 DEF RightsEnded
  <2> QED
    BY <2>3
<1>5. PICK left \in Int : left = before.left
  BY <1>1
<1>6. \A x, y \in Int : Most(x - y, 0) \in Int
  <2> SUFFICES ASSUME NEW x \in Int, NEW y \in Int PROVE Most(x - y, 0) \in Int
    OBVIOUS
  <2>1. PICK w \in Int, z \in Int : w = x - y /\ z = 0
    OBVIOUS
  <2> QED
    BY <2>1, LeastMost
<1>7. PICK after \in Int : after = Most(left - amit, 0)
  BY <1>6
<1>8. PICK g \in Int : g = Most(amit - left, 0) + Most(roc - after, 0) + ended
  <2>1. Most(amit - left, 0) \in Int /\ Most(roc - after, 0) \in Int
    BY <1>6
  <2> QED
    BY <2>1
<1>9. Most(after - roc, 0) \in Int
  BY <1>6
<1>10. PICK gains \in Gains :
         gains = IF g = 0 THEN before.gains
                 ELSE Append(before.gains, [day |-> d, amount |-> g])
  <2>1. Append(before.gains, [day |-> d, amount |-> g]) \in Gains
    <3>1. PICK T, x : T = [day : Int, amount : Int] /\ x = [day |-> d, amount |-> g]
      OBVIOUS
    <3>2. x \in T /\ before.gains \in Seq(T)
      BY <1>1, <3>1 DEF Gains
    <3>3. Append(before.gains, x) \in Seq(T)
      BY <3>2
    <3> QED
      BY <3>1, <3>3 DEF Gains
  <2> QED
    BY <1>1, <2>1
<1>11. GainsAfter(p, c, events, before, d) = [left |-> Most(after - roc, 0), gains |-> gains]
  BY <1>2, <1>3, <1>4, <1>5, <1>7, <1>8, <1>10 DEF GainsAfter
<1> QED
  BY <1>9, <1>11

\* Where each day leaves the cost and the gains of a cohort, day by day.
GainsWalk(r, p, c, events) ==
    /\ r[0] = [left |-> CohortCost(p, c), gains |-> <<>>]
    /\ \A d \in 1 .. LastDay : r[d] = GainsAfter(p, c, events, r[d - 1], d)
    /\ \A d \in 0 .. LastDay : r[d] \in [left : Int, gains : Gains]

\* The gains of a cohort are those that the last day leaves.
LEMMA NonDisposalIs ==
    ASSUME CgtInv, NEW p \in Bought, NEW c \in Cohort,
           NEW events \in SUBSET Event, IsFiniteSet(events)
    PROVE  \E r : /\ GainsWalk(r, p, c, events)
                  /\ NonDisposalGains(p, c, events) = r[LastDay].gains
<1>0. PICK V : V = [left : Int, gains : Gains]
  OBVIOUS
<1>1. PICK N \in Nat, a \in V :
        N = LastDay /\ a = [left |-> CohortCost(p, c), gains |-> <<>>]
  <2>1. CohortCost(p, c) \in Int
    BY ProratedInt DEF CohortCost, Cohort
  <2>2. <<>> \in Gains
    BY DEF Gains
  <2> QED
    BY <1>0, <2>1, <2>2, LastDayNat
<1>2. PICK step : step = [x \in V \X (1 .. N) |-> GainsAfter(p, c, events, x[1], x[2])]
  OBVIOUS
<1>3. p \in CgtParcels
  BY DEF Bought
<1>4. \A v \in V : \A d \in 1 .. N :
         /\ step[<<v, d>>] = GainsAfter(p, c, events, v, d)
         /\ step[<<v, d>>] \in V
  <2> SUFFICES ASSUME NEW v \in V, NEW d \in 1 .. N
               PROVE  /\ step[<<v, d>>] = GainsAfter(p, c, events, v, d)
                      /\ step[<<v, d>>] \in V
    OBVIOUS
  <2>1. d \in Int /\ v \in [left : Int, gains : Gains]
    BY <1>0
  <2>2. GainsAfter(p, c, events, v, d) \in V
    BY <1>0, <1>3, <2>1, GainsAfterTyped
  <2> QED
    BY <1>2, <2>2
<1>5. step \in [V \X (1 .. N) -> V]
  BY <1>2, <1>4
<1>6. WalksIn(N, V, a, step)
  BY <1>5, WalkIn
<1> DEFINE Walks(r) == r = [d \in 0 .. N |->
                  IF d = 0 THEN a ELSE GainsAfter(p, c, events, r[d - 1], d)]
<1>7. PICK f : Walk(f, N, a, step) /\ \A d \in 0 .. N : f[d] \in V
  BY <1>6 DEF WalksIn
<1>8. Walks(f)
  <2>1. \A d \in 0 .. N : f[d] = IF d = 0 THEN a ELSE step[<<f[d - 1], d>>]
    BY <1>7 DEF Walk
  <2>2. \A d \in 1 .. N : step[<<f[d - 1], d>>] = GainsAfter(p, c, events, f[d - 1], d)
    <3>1. \A d \in 1 .. N : d - 1 \in 0 .. N
      OBVIOUS
    <3>2. \A d \in 1 .. N : f[d - 1] \in V
      BY <1>7, <3>1
    <3> QED
      BY <1>4, <3>2
  <2>a. \A d \in 0 .. N : d # 0 => d \in 1 .. N
    OBVIOUS
  <2>3. \A d \in 0 .. N : f[d] = IF d = 0 THEN a ELSE GainsAfter(p, c, events, f[d - 1], d)
    BY <2>1, <2>2, <2>a, Zenon
  <2>4. f = [d \in 0 .. N |-> f[d]]
    BY <1>7 DEF Walk
  <2> QED
    BY <2>3, <2>4
<1> HIDE DEF Walks
<1>9. PICK r : r = (CHOOSE g : Walks(g)) /\ Walks(r)
  BY <1>8
<1>10. NonDisposalGains(p, c, events) = r[N].gains
  BY <1>1, <1>9 DEF NonDisposalGains, Walks, GainsAfter
<1>11. /\ r[0] = a
       /\ \A d \in 1 .. N : r[d] = GainsAfter(p, c, events, r[d - 1], d)
       /\ \A d \in 1 .. N : r[d - 1] \in V => r[d] = step[<<r[d - 1], d>>]
  <2>1. \A d \in 0 .. N : r[d] = IF d = 0 THEN a ELSE GainsAfter(p, c, events, r[d - 1], d)
    BY <1>9 DEF Walks
  <2>2. 0 \in 0 .. N /\ \A d \in 1 .. N : d \in 0 .. N /\ d # 0
    OBVIOUS
  <2>3. r[0] = a
    BY <2>1, <2>2
  <2>4. \A d \in 1 .. N : r[d] = GainsAfter(p, c, events, r[d - 1], d)
    BY <2>1, <2>2
  <2> QED
    BY <1>4, <2>3, <2>4
<1>12. \A d \in 0 .. N : r[d] \in V
  BY <1>6, <1>11 DEF WalksIn
<1>13. GainsWalk(r, p, c, events)
  BY <1>0, <1>1, <1>11, <1>12 DEF GainsWalk
<1> QED
  BY <1>1, <1>10, <1>13

\* Whole amounts all of them.
LEMMA NonDisposalTyped ==
    ASSUME CgtInv, NEW p \in Bought, NEW c \in Cohort,
           NEW events \in SUBSET Event, IsFiniteSet(events)
    PROVE  NonDisposalGains(p, c, events) \in Gains
<1>1. PICK r : /\ GainsWalk(r, p, c, events)
               /\ NonDisposalGains(p, c, events) = r[LastDay].gains
  BY NonDisposalIs
<1>2. LastDay \in 0 .. LastDay
  BY LastDayNat
<1>3. r[LastDay] \in [left : Int, gains : Gains]
  BY <1>1, <1>2 DEF GainsWalk
<1> QED
  BY <1>1, <1>3

-----------------------------------------------------------------------------
(* The items of the reports. *)

\* What a pick of a sell brings, before and after rounding.
LEMMA ProceedsFacts ==
    ASSUME NEW sell \in Sell, NEW p \in CgtParcels
    PROVE  RoundedProceeds(sell, p) \in Int
<1>1. PICK f : f = [q \in CgtParcels |-> [parcel |-> q, amount |-> ProceedsShare(sell, q)]]
  OBVIOUS
<1>2. \A q \in CgtParcels : ProceedsShare(sell, q) \in Int
  <2> SUFFICES ASSUME NEW q \in CgtParcels PROVE ProceedsShare(sell, q) \in Int
    OBVIOUS
  <2>1. PICK m \in Int, t \in Int, n \in Nat \ {0} :
          m = sell.proceeds /\ t = sell.take[q] /\ n = UnitsSold(sell)
    BY DEF Sell
  <2>2. PICK x \in Int : x = m * t
    OBVIOUS
  <2>3. x \div n \in Int
    BY Quotient
  <2> QED
    BY <2>1, <2>2, <2>3 DEF ProceedsShare
<1>3. ASSUME NEW Q \in SUBSET CgtParcels
      PROVE  ToCents(Total({[parcel |-> q, amount |-> ProceedsShare(sell, q)] : q \in Q})) \in Int
  <2>1. IsFiniteSet(Q)
    BY CgtAssumption, FS_Subset
  <2>2. PICK h : h = [q \in Q |-> [parcel |-> q, amount |-> ProceedsShare(sell, q)]]
    OBVIOUS
  <2>3. DOMAIN h = Q /\ \A q \in Q : h[q].amount \in Int
    BY <1>2, <2>2
  <2>4. Total({h[q] : q \in Q}) \in Int
    BY <2>1, <2>3, MadeTotal
  <2>5. {[parcel |-> q, amount |-> ProceedsShare(sell, q)] : q \in Q} = {h[q] : q \in Q}
    BY <2>2
  <2> QED
    BY <2>4, <2>5, CentsFacts
<1>4. PICK A \in SUBSET CgtParcels, B \in SUBSET CgtParcels :
        /\ A = UpTo(p) \cap Picked(sell)
        /\ B = (UpTo(p) \ {p}) \cap Picked(sell)
  BY DEF Picked
<1>5. PICK x \in Int, y \in Int :
        /\ x = ToCents(Total({[parcel |-> q, amount |-> ProceedsShare(sell, q)] : q \in A}))
        /\ y = ToCents(Total({[parcel |-> q, amount |-> ProceedsShare(sell, q)] : q \in B}))
  BY <1>3
<1>6. RoundedProceeds(sell, p) = x - y
  BY <1>4, <1>5 DEF RoundedProceeds
<1> QED
  BY <1>6

\* What has finitely many members with whole amounts.
Whole(items) == IsFiniteSet(items) /\ \A g \in items : g.amount \in Int

\* The realised gains.
LEMMA RealisedFacts ==
    ASSUME CgtInv, NEW S \in Seq(Sell)
    PROVE  Whole(RealisedItems(S))
<1>1. PICK Z \in SUBSET ((1 .. Len(S)) \X CgtParcels) :
        Z = {z \in (DOMAIN S) \X Bought : S[z[1]].take[z[2]] > 0}
  <2>1. DOMAIN S = 1 .. Len(S) /\ Bought \subseteq CgtParcels
    BY DEF Bought
  <2> QED
    BY <2>1
<1>2. IsFiniteSet(Z)
  <2>1. IsFiniteSet(1 .. Len(S)) /\ IsFiniteSet(CgtParcels)
    BY CgtAssumption, FS_Interval
  <2>2. IsFiniteSet((1 .. Len(S)) \X CgtParcels)
    BY <2>1, FS_Product
  <2> QED
    BY <2>2, FS_Subset
<1>3. PICK f : f = [x \in Z |-> [sell |-> x[1], parcel |-> x[2], day |-> S[x[1]].date,
                                 amount |-> RealisedGain(S, x[1], x[2])]]
  OBVIOUS
<1>4. ASSUME NEW i \in DOMAIN S, NEW p \in Bought PROVE RealisedGain(S, i, p) \in Int
  <2>1. PICK sell \in Sell : sell = S[i]
    OBVIOUS
  <2>2. p \in CgtParcels /\ sell.take \in [CgtParcels -> Nat] /\ sell.date \in Int
    BY DEF Bought, Sell
  <2>3. sell.take[p] \in Nat
    BY <2>2
  <2>4. IsFiniteSet(AmitEvents(S, p)) /\ AmitEvents(S, p) \in SUBSET Event
    BY <2>2, EventsFacts
  <2>5. PICK cost \in Int : cost = AdjustedCostBase(p, sell.take[p], AmitEvents(S, p), sell.date)
    BY <2>2, <2>3, <2>4, CostBaseInt
  <2>6. RoundedProceeds(sell, p) \in Int /\ ToCents(cost) \in Int
    BY <2>2, ProceedsFacts, CentsFacts
  <2>7. RealisedGain(S, i, p) = RoundedProceeds(sell, p) - ToCents(cost)
    BY <2>1, <2>5 DEF RealisedGain, RealisedCost, ParcelGain
  <2> QED
    BY <2>6, <2>7
<1>5. \A x \in Z : f[x].amount \in Int
  <2>1. \A x \in Z : x[1] \in DOMAIN S /\ x[2] \in Bought
    BY <1>1
  <2> QED
    BY <1>3, <1>4, <2>1
<1>6. RealisedItems(S) = {f[x] : x \in Z}
  BY <1>1, <1>3 DEF RealisedItems
<1>7. IsFiniteSet({f[x] : x \in Z})
  <2>1. DOMAIN f = Z
    BY <1>3
  <2> QED
    BY <1>2, <2>1, MadeFinite
<1> QED
  BY <1>5, <1>6, <1>7 DEF Whole

\* The cohorts of a parcel.
LEMMA CohortsFacts ==
    ASSUME CgtInv, NEW S \in Seq(Sell), NEW p \in Bought
    PROVE  IsFiniteSet(Cohorts(S, p)) /\ Cohorts(S, p) \in SUBSET Cohort
<1>1. PICK J \in SUBSET (1 .. Len(S)) : J = {j \in DOMAIN S : S[j].take[p] > 0}
  <2>1. DOMAIN S = 1 .. Len(S)
    OBVIOUS
  <2> QED
    BY <2>1
<1>2. IsFiniteSet(J)
  <2>1. IsFiniteSet(1 .. Len(S))
    BY FS_Interval
  <2> QED
    BY <2>1, FS_Subset
<1>3. PICK f : f = [i \in J |-> [sell |-> i, left |-> S[i].date, units |-> S[i].take[p]]]
  OBVIOUS
<1>4. PICK sold : sold = {f[i] : i \in J}
  OBVIOUS
<1>5. IsFiniteSet(sold)
  <2>1. DOMAIN f = J
    BY <1>3
  <2> QED
    BY <1>2, <1>4, <2>1, MadeFinite
<1>6. sold \subseteq Cohort
  <2>1. p \in CgtParcels /\ \A i \in J : S[i] \in Sell /\ i \in Nat
    BY DEF Bought
  <2>2. \A i \in J : S[i].take[p] \in Nat /\ S[i].date \in Int
    BY <2>1 DEF Sell
  <2> QED
    BY <1>3, <1>4, <2>1, <2>2 DEF Cohort
<1>7. PICK rest \in Int : rest = parcels[p].units - UnitsTaken(S, p, 1, CgtDays)
  <2>1. p \in CgtParcels
    BY DEF Bought
  <2>2. UnitsTaken(S, p, 1, CgtDays) \in Nat
    BY <2>1, TakenFacts
  <2>3. parcels[p].units \in Nat
    BY DEF CgtInv
  <2> QED
    BY <2>2, <2>3
<1>8. PICK staying : staying = [sell |-> 0, left |-> StillHeld, units |-> rest]
  OBVIOUS
<1>9. Cohorts(S, p) = sold \union IF rest > 0 THEN {staying} ELSE {}
  BY <1>1, <1>3, <1>4, <1>7, <1>8 DEF Cohorts
<1>10. IsFiniteSet(sold \union {staying})
  BY <1>5, FS_AddElement
<1>11. rest > 0 => staying \in Cohort
  BY <1>8 DEF Cohort, StillHeld
<1>12. CASE rest > 0
  BY <1>6, <1>9, <1>10, <1>11, <1>12
<1>13. CASE ~(rest > 0)
  <2>1. Cohorts(S, p) = sold
    BY <1>9, <1>13
  <2> QED
    BY <1>5, <1>6, <2>1
<1> QED
  BY <1>12, <1>13

\* Finitely many whole lots of items are whole together.
LEMMA WholeUnion ==
    ASSUME NEW S, IsFiniteSet(S), NEW f, DOMAIN f = S, \A x \in S : Whole(f[x])
    PROVE  Whole(UNION {f[x] : x \in S})
<1>1. PICK T : T = {f[x] : x \in S}
  OBVIOUS
<1>2. IsFiniteSet(T)
  BY <1>1, MadeFinite
<1>3. \A t \in T : IsFiniteSet(t)
  BY <1>1 DEF Whole
<1>4. IsFiniteSet(UNION T)
  BY <1>2, <1>3, FS_UNION
<1>5. \A g \in UNION T : g.amount \in Int
  BY <1>1 DEF Whole
<1> QED
  BY <1>1, <1>4, <1>5 DEF Whole

\* The gains of a cohort, and of all.
LEMMA EventItemsFacts ==
    ASSUME CgtInv, NEW S \in Seq(Sell)
    PROVE  Whole(EventItems(S, <<>>))
<1>1. ASSUME NEW p \in Bought, NEW c \in Cohort PROVE Whole(CohortGains(p, c, AmitEvents(S, p)))
  <2>1. p \in CgtParcels
    BY DEF Bought
  <2>2. IsFiniteSet(AmitEvents(S, p)) /\ AmitEvents(S, p) \in SUBSET Event
    BY <2>1, EventsFacts
  <2>3. PICK gains \in Gains : gains = NonDisposalGains(p, c, AmitEvents(S, p))
    BY <1>1, <2>2, NonDisposalTyped
  <2>4. PICK f : f = [i \in DOMAIN gains |->
                        [parcel |-> p, cohort |-> c.sell, day |-> gains[i].day,
                         amount |-> gains[i].amount]]
    OBVIOUS
  <2>5. IsFiniteSet(DOMAIN gains)
    <3>1. DOMAIN gains = 1 .. Len(gains)
      BY DEF Gains
    <3>2. Len(gains) \in Nat
      BY DEF Gains
    <3>3. IsFiniteSet(1 .. Len(gains))
      BY <3>2, FS_Interval
    <3> QED
      BY <3>1, <3>3
  <2>6. \A i \in DOMAIN gains : gains[i].amount \in Int
    <3>1. PICK G : G = [day : Int, amount : Int]
      OBVIOUS
    <3>2. gains \in Seq(G)
      BY <3>1 DEF Gains
    <3>3. \A i \in DOMAIN gains : gains[i] \in G
      BY <3>2
    <3> QED
      BY <3>1, <3>3
  <2>7. CohortGains(p, c, AmitEvents(S, p)) = {f[i] : i \in DOMAIN gains}
    BY <2>3, <2>4 DEF CohortGains
  <2>8. IsFiniteSet({f[i] : i \in DOMAIN gains})
    BY <2>4, <2>5, MadeFinite
  <2> QED
    BY <2>4, <2>6, <2>7, <2>8 DEF Whole
<1>2. PICK h : h = [p \in Bought |->
                      UNION {CohortGains(p, c, AmitEvents(S, p)) : c \in Cohorts(S, p)}]
  OBVIOUS
<1>3. ASSUME NEW p \in Bought PROVE Whole(h[p])
  <2>1. PICK f : f = [c \in Cohorts(S, p) |-> CohortGains(p, c, AmitEvents(S, p))]
    OBVIOUS
  <2>2. IsFiniteSet(Cohorts(S, p)) /\ Cohorts(S, p) \in SUBSET Cohort
    BY CohortsFacts
  <2>3. \A c \in Cohorts(S, p) : Whole(f[c])
    BY <1>1, <2>1, <2>2
  <2>4. Whole(UNION {f[c] : c \in Cohorts(S, p)})
    BY <2>1, <2>2, <2>3, WholeUnion
  <2>5. h[p] = UNION {f[c] : c \in Cohorts(S, p)}
    BY <1>2, <2>1
  <2> QED
    BY <2>4, <2>5
<1>4. IsFiniteSet(Bought)
  BY CgtAssumption, FS_Subset DEF Bought
<1>5. Whole(UNION {h[p] : p \in Bought})
  BY <1>2, <1>3, <1>4, WholeUnion
<1>6. EventItems(S, <<>>) = UNION {h[p] : p \in Bought}
  <2>1. S \o <<>> = S
    OBVIOUS
  <2>2. \A p \in Bought : h[p] = UNION {CohortGains(p, c, AmitEvents(S, p)) : c \in Cohorts(S, p)}
    BY <1>2
  <2> QED
    BY <2>1, <2>2 DEF EventItems
<1> QED
  BY <1>5, <1>6

-----------------------------------------------------------------------------
(* The writes keep what the reports rest on. *)

\* A sell that takes units of a parcel takes some.
LEMMA TakesSome ==
    ASSUME NEW sell, sell.take \in [CgtParcels -> Nat],
           NEW p \in CgtParcels, sell.take[p] > 0
    PROVE  UnitsSold(sell) \in Nat \ {0}
<1>1. PICK h : h = [q \in CgtParcels |-> [parcel |-> q, amount |-> sell.take[q]]]
  OBVIOUS
<1>2. PICK items : items = {h[q] : q \in CgtParcels}
  OBVIOUS
<1>3. UnitsSold(sell) = Total(items)
  BY <1>1, <1>2 DEF UnitsSold
<1>4. IsFiniteSet(items)
  <2>1. DOMAIN h = CgtParcels
    BY <1>1
  <2>2. IsFiniteSet(CgtParcels)
    BY CgtAssumption
  <2>3. IsFiniteSet({h[q] : q \in CgtParcels})
    BY <2>1, <2>2, MadeFinite
  <2> QED
    BY <1>2, <2>3
<1>5. PICK f : f = [g \in items |-> g.amount]
  OBVIOUS
<1>6. \A g \in items : f[g] \in Nat /\ f[g] \in Int
  BY <1>1, <1>2, <1>5
<1>7. h[p] \in items /\ f[h[p]] > 0
  BY <1>1, <1>2, <1>5
<1>8. PICK x : x = h[p]
  OBVIOUS
<1>9. SumOver(f, items) = f[x] + SumOver(f, items \ {x})
  BY <1>4, <1>6, <1>7, <1>8, SumSplit
<1>10. SumOver(f, items \ {x}) \in Nat
  <2>1. IsFiniteSet(items \ {x})
    BY <1>4, FS_Subset
  <2>2. \A g \in items \ {x} : f[g] \in Nat
    BY <1>6
  <2> QED
    BY <2>1, <2>2, SumNat
<1>11. PICK m \in Nat, n \in Nat : m = f[x] /\ m > 0 /\ n = SumOver(f, items \ {x})
  BY <1>6, <1>7, <1>8, <1>10
<1>12. SumOver(f, items) = m + n
  BY <1>9, <1>11
<1>13. Total(items) = SumOver(f, items)
  BY <1>5 DEF Total
<1> QED
  BY <1>3, <1>11, <1>12, <1>13

\* A parcel as it is bought.
LEMMA LotFacts ==
    ASSUME NEW d \in BuyDays, NEW n \in LotUnits, NEW c \in UnitCosts
    PROVE  /\ NewLot(d, n, c) \in [day : Nat, units : Nat, cost : Int]
           /\ NewLot(d, n, c).units \in Nat \ {0}
<1>1. d \in Nat /\ n \in Nat \ {0} /\ c \in Int
  BY CgtAssumption
<1>2. c * n \in Int
  BY <1>1
<1> QED
  BY <1>1, <1>2 DEF NewLot

\* The books as they open.
LEMMA CgtStart == CgtInit => CgtInv
<1> SUFFICES ASSUME CgtInit PROVE CgtInv
  OBVIOUS
<1>1. PICK d \in BuyDays, n \in LotUnits, c \in UnitCosts :
        parcels = [p \in CgtParcels |-> IF p = 1 THEN NewLot(d, n, c) ELSE NoLot]
  BY DEF CgtInit
<1>2. NoLot \in [day : Nat, units : Nat, cost : Int]
  BY DEF NoLot
<1>3. parcels \in [CgtParcels -> [day : Nat, units : Nat, cost : Int]]
  BY <1>1, <1>2, LotFacts
<1>4. \A p \in Bought : parcels[p].units \in Nat \ {0}
  BY <1>1, LotFacts DEF Bought
<1>5. /\ payments = {} /\ statements = {} /\ sells = <<>>
      /\ coverage = [p \in CgtParcels |-> [y \in Fys |-> 0]]
      /\ openingLoss \in OpeningLosses
  BY DEF CgtInit
<1>6. IsFiniteSet({})
  BY FS_EmptySet
<1>7. coverage \in [CgtParcels -> [Fys -> Nat]] /\ openingLoss \in Nat
  BY <1>5, CgtAssumption
<1> QED
  BY <1>3, <1>4, <1>5, <1>6, <1>7 DEF CgtInv, StatementsOK

\* And every write.
LEMMA CgtStep == CgtInv /\ [CgtNext]_cgtVars => CgtInv'
<1> SUFFICES ASSUME CgtInv, [CgtNext]_cgtVars PROVE CgtInv'
  OBVIOUS
<1> USE DEF CgtInv
<1>1. CASE UNCHANGED cgtVars
  BY <1>1 DEF cgtVars, StatementsOK, Bought, Sell
<1>2. ASSUME NEW p \in CgtParcels, NEW d \in BuyDays, NEW n \in LotUnits, NEW c \in UnitCosts,
             AcquireParcel(p, d, n, c)
      PROVE  CgtInv'
  <2>1. /\ parcels' = [parcels EXCEPT ![p] = NewLot(d, n, c)]
        /\ UNCHANGED <<payments, statements, coverage, sells, openingLoss>>
    BY <1>2 DEF AcquireParcel
  <2>2. parcels' \in [CgtParcels -> [day : Nat, units : Nat, cost : Int]]
    BY <2>1, LotFacts
  <2>3. ASSUME NEW q \in Bought' PROVE parcels'[q].units \in Nat \ {0}
    <3>1. q \in CgtParcels /\ parcels'[q] # NoLot
      BY <2>3 DEF Bought
    <3>2. CASE q = p
      BY <2>1, <3>2, LotFacts
    <3>3. CASE q # p
      BY <2>1, <3>1, <3>3 DEF Bought
    <3> QED
      BY <3>2, <3>3
  <2> QED
    BY <2>1, <2>2, <2>3 DEF StatementsOK
<1>3. ASSUME NEW d \in PayDays, NEW r \in PayRates, NEW gap \in RecordGaps,
             PayCapital(d, r, gap)
      PROVE  CgtInv'
  <2>1. PICK pay : pay = [date |-> d, rate |-> r,
                          record |-> IF gap = NoRecord THEN NoRecord ELSE d - gap]
    OBVIOUS
  <2>2. payments' = payments \union {pay}
        /\ UNCHANGED <<parcels, statements, coverage, sells, openingLoss>>
    BY <1>3, <2>1 DEF PayCapital
  <2>3. pay \in [date : Int, rate : Int, record : Int]
    <3>1. d \in Int /\ r \in Int /\ gap \in Int
      BY CgtAssumption DEF NoRecord
    <3>2. (IF gap = NoRecord THEN NoRecord ELSE d - gap) \in Int
      BY <3>1 DEF NoRecord
    <3> QED
      BY <2>1, <3>1, <3>2
  <2>4. IsFiniteSet(payments \union {pay})
    BY FS_AddElement
  <2> QED
    BY <2>2, <2>3, <2>4 DEF StatementsOK, Bought
<1>4. ASSUME NEW y \in StatementYears, NEW r \in StatementRates, NEW g \in AttributedGains,
             EnterStatement(y, r, g)
      PROVE  CgtInv'
  <2>1. PICK s : s = [year |-> y, rate |-> r, gain |-> g]
    OBVIOUS
  <2>2. statements' = statements \union {s}
        /\ UNCHANGED <<parcels, payments, coverage, sells, openingLoss>>
    BY <1>4, <2>1 DEF EnterStatement
  <2>3. s \in [year : Fys, rate : Int, gain : Nat]
    <3>1. y \in Fys /\ r \in Int /\ g \in Nat
      BY CgtAssumption DEF Fys, FyOf
    <3> QED
      BY <2>1, <3>1
  <2>4. IsFiniteSet(statements \union {s})
    BY FS_AddElement DEF StatementsOK
  <2>5. StatementsOK'
    BY <2>2, <2>3, <2>4 DEF StatementsOK
  <2> QED
    BY <2>2, <2>5 DEF Bought
<1>5. ASSUME NEW p \in CgtParcels, NEW s \in statements, NEW n \in 1 .. Max(LotUnits),
             CoverUnits(p, s, n)
      PROVE  CgtInv'
  <2>1. coverage' = [coverage EXCEPT ![p][s.year] = n]
        /\ UNCHANGED <<parcels, payments, statements, sells, openingLoss>>
    BY <1>5 DEF CoverUnits
  <2>2. n \in Nat
    OBVIOUS
  <2>3. coverage' \in [CgtParcels -> [Fys -> Nat]]
    BY <2>1, <2>2
  <2> QED
    BY <2>1, <2>3 DEF StatementsOK, Bought
<1>6. ASSUME NEW d \in SellDays, NEW take \in [CgtParcels -> 0 .. Max(LotUnits)],
             NEW price \in UnitProceeds, RecordSell(d, take, price)
      PROVE  CgtInv'
  <2>1. PICK n : n = UnitsSold([take |-> take])
    OBVIOUS
  <2>2. PICK sell : sell = [date |-> d, proceeds |-> price * n, take |-> take]
    OBVIOUS
  <2>3. sells' = Append(sells, sell)
        /\ UNCHANGED <<parcels, payments, statements, coverage, openingLoss>>
    BY <1>6, <2>1, <2>2 DEF RecordSell
  <2>4. take \in [CgtParcels -> Nat]
    OBVIOUS
  <2>5. UnitsSold(sell) = n
    BY <2>1, <2>2 DEF UnitsSold
  <2>6. n \in Nat \ {0}
    <3>1. PICK p \in CgtParcels : take[p] > 0
      BY <1>6 DEF RecordSell
    <3>2. sell.take = take
      BY <2>2
    <3>3. UnitsSold(sell) \in Nat \ {0}
      BY <2>4, <3>1, <3>2, TakesSome
    <3> QED
      BY <2>5, <3>3
  <2>7. sell \in Sell
    <3>1. price \in Int /\ d \in Int
      BY CgtAssumption
    <3>2. price * n \in Int
      BY <2>6, <3>1
    <3> QED
      BY <2>2, <2>4, <2>5, <2>6, <3>1, <3>2 DEF Sell
  <2>8. sells' \in Seq(Sell)
    BY <2>3, <2>7
  <2> QED
    BY <2>3, <2>8 DEF StatementsOK, Bought
<1> QED
  BY <1>1, <1>2, <1>3, <1>4, <1>5, <1>6 DEF CgtNext

\* From them the losses of every year are used best.
LEMMA CgtUsesBest == CgtInv => LossesUsedBest
<1> SUFFICES ASSUME CgtInv PROVE LossesUsedBest
  OBVIOUS
<1>1. PICK items : items = Items(sells)
  OBVIOUS
<1>2. IsFiniteSet(items) /\ \A g \in items : g.amount \in Int
  <2>1. sells \in Seq(Sell)
    BY DEF CgtInv
  <2>2. PICK A, B : A = RealisedItems(sells) /\ B = EventItems(sells, <<>>)
    OBVIOUS
  <2>3. Whole(A) /\ Whole(B)
    BY <2>1, <2>2, RealisedFacts, EventItemsFacts
  <2>4. items = A \union B
    BY <1>1, <2>2 DEF Items
  <2>5. IsFiniteSet(A \union B)
    BY <2>3, FS_Union DEF Whole
  <2> QED
    BY <2>3, <2>4, <2>5 DEF Whole
<1>3. \A y \in Fys : GrossBuckets(items, y) \in Bucket
  BY <1>2, BucketsFacts DEF CgtInv
<1>4. \A y \in Fys : RowUsesLossesBest(NetYears(items)[y], Brought(NetYears(items), y))
  BY <1>3, NetYearsFacts DEF CgtInv
<1> QED
  BY <1>1, <1>4 DEF LossesUsedBest, Report, Brought

\* Whatever is recorded, each year's losses, its own and the ones brought
\* forward, are applied in the order that leaves the least net capital gain,
\* as soon as there is a gain to meet, and none is used twice or dropped
\* (net_years of reports/net_capital_gain.rs).
THEOREM LossesAlwaysUsedBest == CgtSpec => []LossesUsedBest
<1>1. CgtInit => CgtInv
  BY CgtStart
<1>2. CgtInv /\ [CgtNext]_cgtVars => CgtInv'
  BY CgtStep
<1>3. CgtInv => LossesUsedBest
  BY CgtUsesBest
<1> QED
  BY <1>1, <1>2, <1>3, PTL DEF CgtSpec

-----------------------------------------------------------------------------
(* One sell more. *)

\* What is made of the members of a finite set, all different, comes to the sum.
LEMMA MadeSum ==
    ASSUME NEW S, IsFiniteSet(S), NEW f, NEW g, \A x \in S : g[x] \in Int /\ f[x].amount = g[x],
           \A x, y \in S : f[x] = f[y] => x = y
    PROVE  Total({f[x] : x \in S}) = SumOver(g, S)
<1>1. PICK T : T = {f[x] : x \in S}
  OBVIOUS
<1>2. PICK h : h = [t \in T |-> t.amount]
  OBVIOUS
<1>3. \A x \in S : g[x] \in Int /\ h[f[x]] = g[x]
  BY <1>1, <1>2
<1>4. SumOver(h, {f[x] : x \in S}) = SumOver(g, S)
  BY <1>3, SumReindex
<1> QED
  BY <1>1, <1>2, <1>4 DEF Total

\* The units taken with one sell more.
LEMMA TakenMore ==
    ASSUME NEW S \in Seq(Sell), NEW x \in Sell, NEW p \in CgtParcels, NEW from, NEW to
    PROVE  UnitsTaken(Append(S, x), p, from, to) =
             UnitsTaken(S, p, from, to) + IF from <= x.date /\ x.date <= to THEN x.take[p] ELSE 0
<1>a. PICK n \in Nat : n = Len(S)
  OBVIOUS
<1>b. PICK M : M = Append(S, x)
  OBVIOUS
<1>1. n = Len(S) /\ M = Append(S, x)
  BY <1>a, <1>b
<1>2. /\ M \in Seq(Sell) /\ DOMAIN M = 1 .. (n + 1) /\ DOMAIN S = 1 .. n
      /\ M[n + 1] = x /\ \A i \in 1 .. n : M[i] = S[i]
  BY <1>1
<1>3. PICK J : J = {j \in DOMAIN S : from <= S[j].date /\ S[j].date <= to}
  OBVIOUS
<1>4. PICK K : K = {j \in DOMAIN M : from <= M[j].date /\ M[j].date <= to}
  OBVIOUS
<1>d. J \subseteq 1 .. n /\ K \subseteq 1 .. (n + 1)
  BY <1>2, <1>3, <1>4
<1>5. IsFiniteSet(J) /\ IsFiniteSet(K)
  <2>1. IsFiniteSet(1 .. n) /\ IsFiniteSet(1 .. (n + 1))
    BY FS_Interval
  <2> QED
    BY <1>d, <2>1, FS_Subset
<1>6. PICK g : g = [i \in 1 .. (n + 1) |-> M[i].take[p]]
  OBVIOUS
<1>7. \A i \in 1 .. (n + 1) : g[i] = M[i].take[p] /\ g[i] \in Int
  <2>1. \A i \in 1 .. (n + 1) : M[i] \in Sell
    BY <1>2
  <2>2. \A i \in 1 .. (n + 1) : M[i].take[p] \in Nat
    BY <2>1 DEF Sell
  <2> QED
    BY <1>6, <2>2
<1>8. UnitsTaken(S, p, from, to) = SumOver(g, J)
  <2>1. PICK f : f = [i \in J |-> [sell |-> i, amount |-> S[i].take[p]]]
    OBVIOUS
  <2>2. ASSUME NEW i \in J PROVE g[i] \in Int /\ f[i].amount = g[i] /\ f[i].sell = i
    <3>1. i \in 1 .. n /\ i \in 1 .. (n + 1)
      BY <1>d
    <3>2. g[i] = M[i].take[p] /\ g[i] \in Int
      BY <1>7, <3>1
    <3>3. M[i] = S[i]
      BY <1>2, <3>1
    <3>4. f[i] = [sell |-> i, amount |-> S[i].take[p]]
      BY <2>1
    <3> QED
      BY <3>2, <3>3, <3>4
  <2>a. \A i, j \in J : f[i] = f[j] => i = j
    BY <2>2
  <2>b. \A i \in J : g[i] \in Int /\ f[i].amount = g[i]
    BY <2>2
  <2>3. Total({f[i] : i \in J}) = SumOver(g, J)
    BY <1>5, <2>a, <2>b, MadeSum
  <2>4. UnitsTaken(S, p, from, to) = Total({f[i] : i \in J})
    BY <1>3, <2>1 DEF UnitsTaken
  <2> QED
    BY <2>3, <2>4
<1>9. UnitsTaken(M, p, from, to) = SumOver(g, K)
  <2>1. PICK f : f = [i \in K |-> [sell |-> i, amount |-> M[i].take[p]]]
    OBVIOUS
  <2>2. \A i \in K : g[i] \in Int /\ f[i].amount = g[i] /\ f[i].sell = i
    BY <1>7, <1>d, <2>1
  <2>a. \A i, j \in K : f[i] = f[j] => i = j
    BY <2>2
  <2>b. \A i \in K : g[i] \in Int /\ f[i].amount = g[i]
    BY <2>2
  <2>3. Total({f[i] : i \in K}) = SumOver(g, K)
    BY <1>5, <2>a, <2>b, MadeSum
  <2>4. UnitsTaken(M, p, from, to) = Total({f[i] : i \in K})
    BY <1>4, <2>1 DEF UnitsTaken
  <2> QED
    BY <2>3, <2>4
<1>10. \A i \in 1 .. n : i \in K <=> i \in J
  BY <1>2, <1>3, <1>4
<1>c. (\A i \in J : g[i] \in Int) /\ (\A i \in K : g[i] \in Int)
  BY <1>7, <1>d
<1>11. SumOver(g, J) \in Int
  BY <1>5, <1>c, SumInt
<1>12. CASE from <= x.date /\ x.date <= to
  <2>1. n + 1 \in K /\ K \ {n + 1} = J
    <3>1. n + 1 \in DOMAIN M /\ M[n + 1] = x
      BY <1>2
    <3>2. n + 1 \in K
      BY <1>4, <1>12, <3>1
    <3>3. \A i \in 1 .. (n + 1) : i # n + 1 <=> i \in 1 .. n
      OBVIOUS
    <3> QED
      BY <1>d, <1>10, <3>2, <3>3
  <2>a. PICK m : m = n + 1
    OBVIOUS
  <2>b. m \in K
    BY <2>1, <2>a
  <2>c. SumOver(g, K) = g[m] + SumOver(g, K \ {m})
    BY <1>5, <1>c, <2>b, SumSplit
  <2>2. SumOver(g, K) = g[n + 1] + SumOver(g, K \ {n + 1})
    BY <2>a, <2>c
  <2>3. PICK a \in Int, b \in Int : a = g[n + 1] /\ b = SumOver(g, J) /\ a = x.take[p]
    BY <1>2, <1>7, <1>11, <2>1
  <2>4. SumOver(g, K) = a + b
    BY <2>1, <2>2, <2>3
  <2>5. a + b = b + a
    OBVIOUS
  <2> QED
    BY <1>1, <1>8, <1>9, <1>12, <2>3, <2>4, <2>5
<1>13. CASE ~(from <= x.date /\ x.date <= to)
  <2>1. K = J
    BY <1>2, <1>3, <1>4, <1>10, <1>13
  <2>2. PICK b \in Int : b = SumOver(g, J)
    BY <1>11
  <2>3. b = b + 0
    OBVIOUS
  <2> QED
    BY <1>1, <1>8, <1>9, <1>13, <2>1, <2>2, <2>3
<1> QED
  BY <1>12, <1>13

\* A statement with `units` more gone on day `on`.
Moved(e, units, on) ==
    [e EXCEPT !.disposedByYearEnd = @ + (IF on <= FyEnd(e.year) THEN units ELSE 0),
              !.disposedBeforeYearStart = @ + (IF on < FyStart(e.year) THEN units ELSE 0)]

\* What it is made of.
MovedFields(e, units, on) ==
    /\ Moved(e, units, on).year = e.year
    /\ Moved(e, units, on).rate = e.rate
    /\ Moved(e, units, on).covered = e.covered
    /\ Moved(e, units, on).disposedByYearEnd
         = e.disposedByYearEnd + (IF on <= FyEnd(e.year) THEN units ELSE 0)
    /\ Moved(e, units, on).disposedBeforeYearStart
         = e.disposedBeforeYearStart + (IF on < FyStart(e.year) THEN units ELSE 0)

\* A statement stays one when more units are gone from its parcel.
LEMMA MovedIs ==
    ASSUME NEW e \in Event, NEW units \in Nat, NEW on
    PROVE  MovedFields(e, units, on) /\ Moved(e, units, on) \in Event
<1>1. PICK k \in Nat, l \in Nat : /\ k = (IF on <= FyEnd(e.year) THEN units ELSE 0)
                                  /\ l = (IF on < FyStart(e.year) THEN units ELSE 0)
  OBVIOUS
<1>2. PICK t \in Nat, v \in Nat : t = e.disposedByYearEnd /\ v = e.disposedBeforeYearStart
  BY DEF Event
<1>3. PICK i \in Nat, j \in Nat : i = t + k /\ j = v + l
  OBVIOUS
<1>4. PICK f : f = [e EXCEPT !.disposedByYearEnd = i, !.disposedBeforeYearStart = j]
  OBVIOUS
<1>5. Moved(e, units, on) = f
  BY <1>1, <1>2, <1>3, <1>4 DEF Moved
<1>6. /\ f.year = e.year /\ f.rate = e.rate /\ f.covered = e.covered
      /\ f.disposedByYearEnd = i /\ f.disposedBeforeYearStart = j /\ f \in Event
  BY <1>4 DEF Event
<1> QED
  BY <1>1, <1>2, <1>3, <1>5, <1>6 DEF MovedFields

\* The statements as a sell more leaves them are what contemplated_disposal says.
LEMMA EventsMore ==
    ASSUME CgtInv, NEW S \in Seq(Sell), NEW x \in Sell, x.date >= 1, NEW p \in CgtParcels
    PROVE  /\ AmitEvents(Append(S, x), p) = {Moved(e, x.take[p], x.date) : e \in AmitEvents(S, p)}
           /\ EventsWithDisposal(AmitEvents(S, p), x.take[p], x.date) = AmitEvents(Append(S, x), p)
<1>1. PICK M, u : M = Append(S, x) /\ u = x.take[p]
  OBVIOUS
<1>2. PICK T : T = {t \in statements : coverage[p][t.year] > 0}
  OBVIOUS
<1>3. ASSUME NEW s \in T PROVE AmitEvent(M, p, s) = Moved(AmitEvent(S, p, s), u, x.date)
  <2>1. s.year \in Int
    BY <1>2, SomeYears DEF CgtInv, StatementsOK
  <2>2. PICK a \in Int, b \in Int : a = FyEnd(s.year) /\ b = FyStart(s.year)
    BY <2>1, YearDays
  <2>3. PICK d \in Int : d = x.date /\ d >= 1
    BY DEF Sell
  <2>4. /\ UnitsTaken(M, p, 1, a) = UnitsTaken(S, p, 1, a) + IF 1 <= d /\ d <= a THEN u ELSE 0
        /\ UnitsTaken(M, p, 1, b - 1) =
             UnitsTaken(S, p, 1, b - 1) + IF 1 <= d /\ d <= b - 1 THEN u ELSE 0
    BY <1>1, <2>3, TakenMore
  <2>5. (1 <= d /\ d <= a <=> d <= a) /\ (1 <= d /\ d <= b - 1 <=> d < b)
    BY <2>3
  <2>6. /\ UnitsTaken(M, p, 1, a) = UnitsTaken(S, p, 1, a) + IF d <= a THEN u ELSE 0
        /\ UnitsTaken(M, p, 1, b - 1) = UnitsTaken(S, p, 1, b - 1) + IF d < b THEN u ELSE 0
    BY <2>4, <2>5
  <2>7. AmitEvent(S, p, s) =
          [year |-> s.year, rate |-> s.rate, covered |-> coverage[p][s.year],
           disposedByYearEnd |-> UnitsTaken(S, p, 1, a),
           disposedBeforeYearStart |-> UnitsTaken(S, p, 1, b - 1)]
    BY <2>2 DEF AmitEvent
  <2>8. AmitEvent(M, p, s) =
          [year |-> s.year, rate |-> s.rate, covered |-> coverage[p][s.year],
           disposedByYearEnd |-> UnitsTaken(S, p, 1, a) + IF d <= a THEN u ELSE 0,
           disposedBeforeYearStart |-> UnitsTaken(S, p, 1, b - 1) + IF d < b THEN u ELSE 0]
    BY <2>2, <2>6 DEF AmitEvent
  <2>9. Moved(AmitEvent(S, p, s), u, d) = AmitEvent(M, p, s)
    <3>1. PICK e : e = AmitEvent(S, p, s)
      OBVIOUS
    <3>2. PICK t, v, c, r : /\ t = UnitsTaken(S, p, 1, a) /\ v = UnitsTaken(S, p, 1, b - 1)
                            /\ c = coverage[p][s.year] /\ r = s.rate
      OBVIOUS
    <3>3. PICK y : y = s.year /\ a = FyEnd(y) /\ b = FyStart(y)
      BY <2>2
    <3>4. e = [year |-> y, rate |-> r, covered |-> c,
               disposedByYearEnd |-> t, disposedBeforeYearStart |-> v]
      BY <2>7, <3>1, <3>2, <3>3
    <3>5. Moved(e, u, d) =
            [year |-> y, rate |-> r, covered |-> c,
             disposedByYearEnd |-> t + (IF d <= a THEN u ELSE 0),
             disposedBeforeYearStart |-> v + (IF d < b THEN u ELSE 0)]
      <4>1. PICK k, l : /\ k = (IF d <= FyEnd(e.year) THEN u ELSE 0)
                        /\ l = (IF d < FyStart(e.year) THEN u ELSE 0)
        OBVIOUS
      <4>2. k = (IF d <= a THEN u ELSE 0) /\ l = (IF d < b THEN u ELSE 0)
        BY <3>3, <3>4, <4>1
      <4>3. PICK i, j : i = t + k /\ j = v + l
        OBVIOUS
      <4>4. PICK f : f = [e EXCEPT !.disposedByYearEnd = i, !.disposedBeforeYearStart = j]
        OBVIOUS
      <4>5. /\ e = [year |-> e.year, rate |-> e.rate, covered |-> e.covered,
                    disposedByYearEnd |-> e.disposedByYearEnd,
                    disposedBeforeYearStart |-> e.disposedBeforeYearStart]
            /\ e.year = y /\ e.rate = r /\ e.covered = c
            /\ e.disposedByYearEnd = t /\ e.disposedBeforeYearStart = v
        BY <3>4
      <4>6. f = [year |-> e.year, rate |-> e.rate, covered |-> e.covered,
                 disposedByYearEnd |-> i, disposedBeforeYearStart |-> j]
        BY <4>4, <4>5
      <4>7. Moved(e, u, d) = f
        BY <4>1, <4>3, <4>4, <4>5 DEF Moved
      <4> QED
        BY <4>2, <4>3, <4>5, <4>6, <4>7
    <3> QED
      BY <2>8, <3>1, <3>2, <3>3, <3>5
  <2> QED
    BY <2>3, <2>9
<1>4. AmitEvents(M, p) = {AmitEvent(M, p, s) : s \in T}
  BY <1>2 DEF AmitEvents
<1>5. AmitEvents(S, p) = {AmitEvent(S, p, s) : s \in T}
  BY <1>2 DEF AmitEvents
<1>6. AmitEvents(M, p) = {Moved(e, u, x.date) : e \in AmitEvents(S, p)}
  <2>1. {AmitEvent(M, p, s) : s \in T} = {Moved(AmitEvent(S, p, s), u, x.date) : s \in T}
    BY <1>3
  <2>2. {Moved(e, u, x.date) : e \in {AmitEvent(S, p, s) : s \in T}}
        = {Moved(AmitEvent(S, p, s), u, x.date) : s \in T}
    OBVIOUS
  <2> QED
    BY <1>4, <1>5, <2>1, <2>2
<1> QED
  BY <1>1, <1>6 DEF EventsWithDisposal, Moved

\* The gains without a disposal are rehearsed as they will be recorded.
LEMMA EventItemsMore ==
    ASSUME CgtInv, NEW S \in Seq(Sell), NEW x \in Sell, x.date >= 1
    PROVE  EventItems(S, <<x>>) = EventItems(Append(S, x), <<>>)
<1>1. PICK M, one : M = Append(S, x) /\ one = <<x>>
  OBVIOUS
<1>2. M \in Seq(Sell) /\ S \o one = M /\ M \o <<>> = M /\ one # <<>> /\ one[1] = x
  BY <1>1
<1>3. \A p \in Bought : p \in CgtParcels
  BY DEF Bought
<1>4. \A p \in Bought : EventsWithDisposal(AmitEvents(S, p), one[1].take[p], one[1].date)
                        = AmitEvents(M, p)
  BY <1>1, <1>2, <1>3, EventsMore
<1>5. EventItems(S, one) =
        UNION {UNION {CohortGains(p, c, AmitEvents(M, p)) : c \in Cohorts(M, p)} : p \in Bought}
  BY <1>2, <1>4 DEF EventItems
<1>6. EventItems(M, <<>>) =
        UNION {UNION {CohortGains(p, c, AmitEvents(M, p)) : c \in Cohorts(M, p)} : p \in Bought}
  BY <1>2 DEF EventItems
<1> QED
  BY <1>1, <1>5, <1>6

\* Statements that take the same of some units leave them the same cost.
LEMMA CostBaseAlike ==
    ASSUME CgtInv, NEW p \in Bought, NEW units \in Nat, NEW on \in Int,
           NEW E \in SUBSET Event, IsFiniteSet(E), NEW F \in SUBSET Event, IsFiniteSet(F),
           \A d \in Int : AmitReduction(p, units, on, E, d) = AmitReduction(p, units, on, F, d)
    PROVE  AdjustedCostBase(p, units, E, on) = AdjustedCostBase(p, units, F, on)
<1>1. PICK N \in Nat : N = LastDay
  BY LastDayNat
<1>2. PICK r : /\ Costs(r, p, units, E, on)
               /\ AdjustedCostBase(p, units, E, on) = r[LastDay]
  BY CostBaseIs
<1>3. PICK q : /\ Costs(q, p, units, F, on)
               /\ AdjustedCostBase(p, units, F, on) = q[LastDay]
  BY CostBaseIs
<1>4. /\ \A d \in 0 .. N : r[d] = IF d = 0 THEN ProratedCost(p, units)
                                  ELSE CostAfter(p, units, E, on, r[d - 1], d)
      /\ \A d \in 0 .. N : q[d] = IF d = 0 THEN ProratedCost(p, units)
                                  ELSE CostAfter(p, units, F, on, q[d - 1], d)
  BY <1>1, <1>2, <1>3 DEF Costs
<1>5. 0 \in 0 .. N /\ \A d \in 1 .. N : d \in 0 .. N /\ d # 0 /\ d \in Int
  OBVIOUS
<1>6. r[0] = q[0]
  BY <1>4, <1>5
<1>7. ASSUME NEW d \in 1 .. N, r[d - 1] = q[d - 1] PROVE r[d] = q[d]
  <2>1. /\ r[d] = CostAfter(p, units, E, on, r[d - 1], d)
        /\ q[d] = CostAfter(p, units, F, on, q[d - 1], d)
    BY <1>4, <1>5
  <2>2. AmitReduction(p, units, on, E, d) = AmitReduction(p, units, on, F, d)
    BY <1>5
  <2>3. PICK b : b = r[d - 1]
    OBVIOUS
  <2>4. CostAfter(p, units, E, on, b, d) = CostAfter(p, units, F, on, b, d)
    BY <2>2 DEF CostAfter
  <2> QED
    BY <1>7, <2>1, <2>3, <2>4
<1>8. \A d \in 0 .. N : r[d] = q[d]
  <2>1. \A d \in 1 .. N : r[d - 1] = q[d - 1] => r[d] = q[d]
    BY <1>7
  <2> QED
    BY <1>6, <2>1, WalksAlike, ZenonT(60)
<1>9. N \in 0 .. N
  OBVIOUS
<1> QED
  BY <1>1, <1>2, <1>3, <1>8, <1>9

\* Statements that are moved one by one, each taking what it did, take the same.
LEMMA ReductionAlike ==
    ASSUME CgtInv, NEW p \in CgtParcels, NEW units \in Nat, NEW left \in Int,
           NEW E \in SUBSET Event, IsFiniteSet(E), NEW n \in Nat, NEW on \in Int,
           \A e \in E : ReductionForUnits(Moved(e, n, on), parcels[p].units, units, left)
                          = ReductionForUnits(e, parcels[p].units, units, left),
           NEW d
    PROVE  AmitReduction(p, units, left, {Moved(e, n, on) : e \in E}, d)
             = AmitReduction(p, units, left, E, d)
<1>1. PICK D : D = {e \in E : FyEnd(e.year) = d}
  OBVIOUS
<1>2. PICK g : g = [e \in D |-> ReductionForUnits(e, parcels[p].units, units, left)]
  OBVIOUS
<1>3. PICK f, h :
        /\ f = [e \in D |-> [event |-> e, amount |-> g[e]]]
        /\ h = [e \in D |-> [event |-> Moved(e, n, on), amount |-> g[e]]]
  OBVIOUS
<1>4. IsFiniteSet(D)
  BY <1>1, FS_Subset
<1>5. \A e \in D : g[e] \in Int /\ f[e].amount = g[e] /\ h[e].amount = g[e]
  <2>1. parcels[p].units \in Nat
    BY DEF CgtInv
  <2>2. \A e \in D : e \in Event
    BY <1>1
  <2>3. \A e \in D : ReductionForUnits(e, parcels[p].units, units, left) \in Int
    BY <2>1, <2>2, ReductionFacts
  <2> QED
    BY <1>2, <1>3, <2>3
<1>6. \A e, k \in D : f[e] = f[k] => e = k
  BY <1>3
<1>7. ASSUME NEW e \in D, NEW k \in D, Moved(e, n, on) = Moved(k, n, on) PROVE e = k
  <2>1. e \in Event /\ k \in Event
    BY <1>1
  <2>2. MovedFields(e, n, on) /\ MovedFields(k, n, on)
    BY <2>1, MovedIs
  <2> QED
    BY <1>7, <2>1, <2>2 DEF MovedFields, Event
<1>8. \A e, k \in D : h[e] = h[k] => e = k
  BY <1>3, <1>7
<1>9. Total({f[e] : e \in D}) = SumOver(g, D) /\ Total({h[e] : e \in D}) = SumOver(g, D)
  <2>1. \A e \in D : g[e] \in Int /\ f[e].amount = g[e]
    BY <1>5
  <2>2. \A e \in D : g[e] \in Int /\ h[e].amount = g[e]
    BY <1>5
  <2> QED
    BY <1>4, <1>6, <1>8, <2>1, <2>2, MadeSum
<1>10. AmitReduction(p, units, left, E, d) = Total({f[e] : e \in D})
  BY <1>1, <1>2, <1>3 DEF AmitReduction
<1>11. AmitReduction(p, units, left, {Moved(e, n, on) : e \in E}, d) = Total({h[e] : e \in D})
  <2>1. PICK F : F = {e \in {Moved(e, n, on) : e \in E} : FyEnd(e.year) = d}
    OBVIOUS
  <2>2. \A e \in E : Moved(e, n, on).year = e.year
    BY MovedIs DEF MovedFields
  <2>3. F = {Moved(e, n, on) : e \in D}
    BY <1>1, <2>1, <2>2
  <2>4. AmitReduction(p, units, left, {Moved(e, n, on) : e \in E}, d)
          = Total({[event |-> e,
                    amount |-> ReductionForUnits(e, parcels[p].units, units, left)] : e \in F})
    BY <2>1 DEF AmitReduction
  <2>5. \A e \in D : h[e] = [event |-> Moved(e, n, on),
                             amount |-> ReductionForUnits(Moved(e, n, on), parcels[p].units,
                                                          units, left)]
    BY <1>1, <1>2, <1>3
  <2>6. {[event |-> e, amount |-> ReductionForUnits(e, parcels[p].units, units, left)] : e \in F}
          = {h[e] : e \in D}
    <3> DEFINE G(z) == [event |-> z,
                        amount |-> ReductionForUnits(z, parcels[p].units, units, left)]
    <3>1. \A e \in D : h[e] = G(Moved(e, n, on))
      BY <2>5
    <3> HIDE DEF G
    <3>2. {G(z) : z \in F} = {G(Moved(e, n, on)) : e \in D}
      BY <2>3
    <3>3. {G(z) : z \in F} = {h[e] : e \in D}
      BY <3>1, <3>2
    <3> QED
      BY <3>3 DEF G
  <2> QED
    BY <2>4, <2>6
<1> QED
  BY <1>9, <1>10, <1>11

\* The year of a day is a number.
LEMMA YearInt ==
    ASSUME NEW d \in Int
    PROVE  FyOf(d) \in Int
<1>1. PICK f \in Nat \ {0}, n \in Int : f = FyLength /\ n = d - 1
  BY CgtAssumption
<1>2. n \div f \in Int
  BY <1>1, Quotient
<1> QED
  BY <1>1, <1>2 DEF FyOf

\* A year ends before the days of later ones.
LEMMA YearsApart ==
    ASSUME NEW y \in Int, NEW d \in Int, y < FyOf(d)
    PROVE  FyEnd(y) < d /\ FyStart(y) <= d
<1>1. PICK f \in Nat \ {0}, n \in Int : f = FyLength /\ n = d - 1
  BY CgtAssumption
<1>2. PICK k \in Int : k = n \div f /\ f * k <= n
  BY <1>1, QuotientFloor
<1>3. y <= k
  BY <1>1, <1>2 DEF FyOf
<1>4. y * f <= n
  BY <1>1, <1>2, <1>3
<1>5. (y - 1) * f + 1 <= y * f + 1
  BY <1>1
<1> QED
  BY <1>1, <1>4, <1>5 DEF FyEnd, FyStart

\* And starts after the days of earlier ones.
LEMMA YearsAhead ==
    ASSUME NEW y \in Int, NEW d \in Int, FyOf(d) < y
    PROVE  d < FyStart(y)
<1>1. PICK f \in Nat \ {0}, n \in Int : f = FyLength /\ n = d - 1
  BY CgtAssumption
<1>2. PICK k \in Int : k = n \div f /\ n < f * k + f
  BY <1>1, QuotientFloor
<1>3. k <= y - 2
  BY <1>1, <1>2 DEF FyOf
<1>4. PICK z \in Int : z = y - 2 /\ k <= z
  BY <1>3
<1>5. f * k <= f * z
  BY <1>4
<1>6. n < f * z + f
  BY <1>2, <1>5
<1>7. f * z + f = (y - 1) * f
  BY <1>4
<1>8. FyStart(y) = (y - 1) * f + 1
  BY <1>1 DEF FyStart, FyEnd
<1>9. d = n + 1
  BY <1>1
<1> QED
  BY <1>6, <1>7, <1>8, <1>9

\* A statement takes nothing of what left before its year.
LEMMA NothingBefore ==
    ASSUME NEW e \in Event, NEW quantity, NEW units, NEW left \in Int,
           left # StillHeld, left < FyStart(e.year)
    PROVE  ReductionForUnits(e, quantity, units, left) = 0
<1>1. PICK a \in Int, b \in Int : a = FyStart(e.year) /\ b = FyEnd(e.year)
  BY YearDays DEF Event
<1>2. ~(left \in a .. b)
  BY <1>1
<1> QED
  BY <1>1, <1>2 DEF ReductionForUnits

\* A sell more leaves the costs of the sells up to the end of its year as they
\* were, if no statement of that year covers a parcel it draws on.
LEMMA CostsStand ==
    ASSUME CgtInv, NEW S \in Seq(Sell), NEW x \in Sell, x.date \in CgtDay,
           NEW p \in Bought, NEW units \in Nat, NEW on \in Int, on >= 1,
           FyOf(on) <= FyOf(x.date), x.take[p] > 0 => coverage[p][FyOf(x.date)] = 0
    PROVE  AdjustedCostBase(p, units, AmitEvents(Append(S, x), p), on)
             = AdjustedCostBase(p, units, AmitEvents(S, p), on)
<1>1. PICK M, E, F : M = Append(S, x) /\ E = AmitEvents(S, p) /\ F = AmitEvents(M, p)
  OBVIOUS
<1>2. p \in CgtParcels /\ M \in Seq(Sell) /\ x.date \in Int /\ x.date >= 1
  BY <1>1, CgtAssumption DEF Bought, CgtDay
<1>3. PICK n \in Nat, m \in Int : n = x.take[p] /\ m = x.date
  BY <1>2 DEF Sell
<1>4. /\ IsFiniteSet(E) /\ E \in SUBSET Event /\ IsFiniteSet(F) /\ F \in SUBSET Event
      /\ F = {Moved(e, n, m) : e \in E}
  <2>1. IsFiniteSet(E) /\ E \in SUBSET Event /\ IsFiniteSet(F) /\ F \in SUBSET Event
    BY <1>1, <1>2, EventsFacts
  <2>2. F = {Moved(e, x.take[p], x.date) : e \in E}
    BY <1>1, <1>2, EventsMore
  <2> QED
    BY <1>3, <2>1, <2>2
<1>5. PICK quantity \in Nat : quantity = parcels[p].units
  BY <1>2 DEF CgtInv
<1>6. ASSUME NEW e \in E
      PROVE  ReductionForUnits(Moved(e, n, m), quantity, units, on)
               = ReductionForUnits(e, quantity, units, on)
  <2>1. e \in Event /\ MovedFields(e, n, m) /\ Moved(e, n, m) \in Event
    BY <1>4, MovedIs
  <2>2. coverage[p][e.year] > 0
    BY <1>1 DEF AmitEvents, AmitEvent
  <2>3. PICK y \in Int : y = e.year
    BY <2>1 DEF Event
  <2>4. CASE n = 0
    <3>1. Moved(e, n, m) = e
      <4>1. /\ Moved(e, n, m).year = e.year /\ Moved(e, n, m).rate = e.rate
            /\ Moved(e, n, m).covered = e.covered
            /\ Moved(e, n, m).disposedByYearEnd = e.disposedByYearEnd
            /\ Moved(e, n, m).disposedBeforeYearStart = e.disposedBeforeYearStart
        BY <2>1, <2>4 DEF MovedFields, Event
      <4> QED
        BY <2>1, <4>1 DEF Event
    <3> QED
      BY <3>1
  <2>5. CASE n > 0
    <3>1. y # FyOf(m)
      BY <1>3, <2>2, <2>3, <2>5
    <3>2. CASE y < FyOf(m)
      <4>1. FyEnd(y) < m /\ FyStart(y) <= m
        BY <1>2, <1>3, <3>2, YearsApart
      <4>2. /\ Moved(e, n, m).year = e.year /\ Moved(e, n, m).rate = e.rate
            /\ Moved(e, n, m).covered = e.covered
            /\ Moved(e, n, m).disposedByYearEnd = e.disposedByYearEnd
            /\ Moved(e, n, m).disposedBeforeYearStart = e.disposedBeforeYearStart
        <5>1. FyEnd(y) \in Int /\ FyStart(y) \in Int
          BY YearDays
        <5>2. ~(m <= FyEnd(e.year)) /\ ~(m < FyStart(e.year))
          BY <2>3, <4>1, <5>1
        <5> QED
          BY <2>1, <5>2 DEF MovedFields, Event
      <4>3. Moved(e, n, m) = e
        BY <2>1, <4>2 DEF Event
      <4> QED
        BY <4>3
    <3>3. CASE y > FyOf(m)
      <4>1. FyOf(m) \in Int /\ FyOf(on) \in Int
        BY <1>3, YearInt
      <4>2. FyOf(on) < y
        BY <1>3, <3>3, <4>1
      <4>3. on < FyStart(y)
        BY <4>2, YearsAhead
      <4>4. on # StillHeld
        BY DEF StillHeld
      <4>5. Moved(e, n, m).year = y
        BY <2>1, <2>3 DEF MovedFields
      <4>6. ReductionForUnits(e, quantity, units, on) = 0
        BY <2>1, <2>3, <4>3, <4>4, NothingBefore
      <4>7. ReductionForUnits(Moved(e, n, m), quantity, units, on) = 0
        BY <2>1, <4>3, <4>4, <4>5, NothingBefore
      <4> QED
        BY <4>6, <4>7
    <3>4. FyOf(m) \in Int
      BY YearInt
    <3> QED
      BY <3>1, <3>2, <3>3, <3>4
  <2> QED
    BY <2>4, <2>5
<1>7. \A d \in Int : AmitReduction(p, units, on, F, d) = AmitReduction(p, units, on, E, d)
  <2>1. \A e \in E : ReductionForUnits(Moved(e, n, m), parcels[p].units, units, on)
                       = ReductionForUnits(e, parcels[p].units, units, on)
    BY <1>5, <1>6
  <2> QED
    BY <1>2, <1>4, <2>1, ReductionAlike
<1>8. AdjustedCostBase(p, units, F, on) = AdjustedCostBase(p, units, E, on)
  BY <1>4, <1>7, CostBaseAlike
<1> QED
  BY <1>1, <1>8

-----------------------------------------------------------------------------
(* The rehearsed sell and the recorded one. *)

\* Items that are told apart by other names come to the same.
LEMMA TotalRenamed ==
    ASSUME NEW T, IsFiniteSet(T), \A g \in T : g.amount \in Int,
           NEW b, \A g \in T : b[g].amount = g.amount,
           \A g, h \in T : b[g] = b[h] => g = h
    PROVE  Total({b[g] : g \in T}) = Total(T)
<1>1. PICK f : f = [g \in T |-> g.amount]
  OBVIOUS
<1>2. PICK B : B = {b[g] : g \in T}
  OBVIOUS
<1>3. PICK h : h = [t \in B |-> t.amount]
  OBVIOUS
<1>4. \A g \in T : f[g] \in Int /\ h[b[g]] = f[g]
  BY <1>1, <1>2, <1>3
<1>5. SumOver(h, {b[g] : g \in T}) = SumOver(f, T)
  BY <1>4, SumReindex
<1> QED
  BY <1>1, <1>2, <1>3, <1>5 DEF Total

\* They make the same buckets.
LEMMA BucketsRenamed ==
    ASSUME NEW A, IsFiniteSet(A), \A g \in A : g.amount \in Int, NEW B, NEW z,
           NEW b,
           {g \in B : FyOf(g.day) = z} = {b[g] : g \in {h \in A : FyOf(h.day) = z}},
           \A g \in A : FyOf(g.day) = z =>
              b[g].amount = g.amount /\ b[g].day = g.day /\ b[g].parcel = g.parcel,
           \A g, h \in A : FyOf(g.day) = z /\ FyOf(h.day) = z /\ b[g] = b[h] => g = h
    PROVE  GrossBuckets(A, z) = GrossBuckets(B, z)
<1>1. PICK Az, Bz : Az = {g \in A : FyOf(g.day) = z} /\ Bz = {g \in B : FyOf(g.day) = z}
  OBVIOUS
<1>2. PICK Ag, Bg : Ag = {g \in Az : g.amount > 0} /\ Bg = {g \in Bz : g.amount > 0}
  OBVIOUS
<1>3. PICK Ah, Bh :
        /\ Ah = {g \in Ag : DiscountEligible(parcels[g.parcel].day, g.day)}
        /\ Bh = {g \in Bg : DiscountEligible(parcels[g.parcel].day, g.day)}
  OBVIOUS
<1>4. Bz = {b[g] : g \in Az}
  BY <1>1
<1>5. \A g \in Az : b[g].amount = g.amount /\ b[g].day = g.day /\ b[g].parcel = g.parcel
  BY <1>1
<1>6. \A g, h \in Az : b[g] = b[h] => g = h
  BY <1>1
<1>7. Bg = {b[g] : g \in Ag}
  BY <1>2, <1>4, <1>5
<1>8. Bh = {b[g] : g \in Ah}
  <2>1. \A g \in Ag : b[g].day = g.day /\ b[g].parcel = g.parcel
    BY <1>2, <1>5
  <2> QED
    BY <1>3, <1>7, <2>1
<1>9. Bg \ Bh = {b[g] : g \in Ag \ Ah}
  <2>1. Ah \subseteq Ag /\ Ag \subseteq Az
    BY <1>2, <1>3
  <2> QED
    BY <1>6, <1>7, <1>8, <2>1
<1>10. Bz \ Bg = {b[g] : g \in Az \ Ag}
  <2>1. Ag \subseteq Az
    BY <1>2
  <2> QED
    BY <1>4, <1>6, <1>7, <2>1
<1>11. ASSUME NEW T \in SUBSET Az PROVE Total({b[g] : g \in T}) = Total(T)
  <2>1. IsFiniteSet(T)
    BY <1>1, FS_Subset
  <2>2. \A g \in T : g.amount \in Int /\ b[g].amount = g.amount
    BY <1>1, <1>5
  <2>3. \A g, h \in T : b[g] = b[h] => g = h
    BY <1>6
  <2> QED
    BY <2>1, <2>2, <2>3, TotalRenamed
<1>12. Ah \subseteq Az /\ Ag \ Ah \subseteq Az /\ Az \ Ag \subseteq Az
  BY <1>2, <1>3
<1>13. Total(Bh) = Total(Ah) /\ Total(Bg \ Bh) = Total(Ag \ Ah) /\ Total(Bz \ Bg) = Total(Az \ Ag)
  BY <1>8, <1>9, <1>10, <1>11, <1>12
<1>14. GrossBuckets(A, z) = [discount |-> Total(Ah) + StatementBucket(z),
                             other |-> Total(Ag \ Ah), losses |-> -Total(Az \ Ag)]
  BY <1>1, <1>2, <1>3 DEF GrossBuckets
<1>15. GrossBuckets(B, z) = [discount |-> Total(Bh) + StatementBucket(z),
                             other |-> Total(Bg \ Bh), losses |-> -Total(Bz \ Bg)]
  BY <1>1, <1>2, <1>3 DEF GrossBuckets
<1> QED
  BY <1>13, <1>14, <1>15

\* A year's row is made of the buckets of the years up to it.
LEMMA RowsAlike ==
    ASSUME openingLoss \in Nat, NEW A, NEW B,
           \A z \in Fys : GrossBuckets(A, z) \in Bucket /\ GrossBuckets(B, z) \in Bucket,
           NEW y \in Fys, \A z \in 1 .. y : GrossBuckets(A, z) = GrossBuckets(B, z)
    PROVE  NetYears(A)[y] = NetYears(B)[y]
<1>1. PICK N \in Nat \ {0} : N = FyOf(CgtDays)
  BY SomeYears
<1>2. PICK a, b : /\ a = [z \in Fys |-> GrossBuckets(A, z)]
                  /\ b = [z \in Fys |-> GrossBuckets(B, z)]
  OBVIOUS
<1>3. PICK r, q : r = NetYears(A) /\ q = NetYears(B)
  OBVIOUS
<1>4. r \in Netted(a, N) /\ q \in Netted(b, N)
  BY <1>1, <1>2, <1>3, NetYearsAre
<1>5. /\ \A z \in 1 .. N : r[z] = NetYear(a[z], Brought(r, z))
      /\ \A z \in 1 .. N : q[z] = NetYear(b[z], Brought(q, z))
  BY <1>4 DEF Netted
<1>6. y \in Nat /\ \A z \in 1 .. y : z \in 1 .. N /\ z \in Fys
  BY <1>1, SomeYears
<1>7. \A z \in 1 .. y : a[z] = b[z]
  BY <1>2, <1>6
<1>8. PICK S : S = {z \in 0 .. y : z = 0 \/ r[z] = q[z]}
  OBVIOUS
<1>9. 0 \in S
  BY <1>6, <1>8
<1>10. ASSUME NEW z \in 1 .. y, z - 1 \in S PROVE z \in S
  <2>1. Brought(r, z) = Brought(q, z)
    <3>1. z = 1 \/ (z # 1 /\ z - 1 # 0)
      OBVIOUS
    <3> QED
      BY <1>8, <1>10, <3>1 DEF Brought
  <2>2. r[z] = q[z]
    BY <1>5, <1>6, <1>7, <2>1
  <2>3. z \in 0 .. y
    OBVIOUS
  <2> QED
    BY <1>8, <2>2, <2>3
<1>11. \A z \in 0 .. y : z \in S
  BY <1>6, <1>9, <1>10, Climb
<1>12. y \in 0 .. y /\ y # 0
  BY <1>1, SomeYears
<1> QED
  BY <1>3, <1>8, <1>11, <1>12

\* The gains of a sell, and those without one.
SellItem == [sell : Nat, parcel : CgtParcels, day : Int, amount : Int]
EventItem == [parcel : CgtParcels, cohort : Nat, day : Int, amount : Int]

\* The two are told apart.
LEMMA ItemKinds == \A g \in SellItem : g \notin EventItem
<1>1. \A g \in SellItem : "sell" \in DOMAIN g
  BY DEF SellItem
<1>2. \A g \in EventItem : DOMAIN g = {"parcel", "cohort", "day", "amount"}
  BY DEF EventItem
<1> QED
  BY <1>1, <1>2

\* The sells that the realised gains are of.
LEMMA RealisedKind ==
    ASSUME CgtInv, NEW S \in Seq(Sell)
    PROVE  \A g \in RealisedItems(S) :
             /\ g \in SellItem
             /\ g.sell \in 1 .. Len(S) /\ g.parcel \in Bought
             /\ S[g.sell].take[g.parcel] > 0 /\ g.day = S[g.sell].date
             /\ g.amount = RealisedGain(S, g.sell, g.parcel)
<1> SUFFICES ASSUME NEW g \in RealisedItems(S)
             PROVE  /\ g \in SellItem
                    /\ g.sell \in 1 .. Len(S) /\ g.parcel \in Bought
                    /\ S[g.sell].take[g.parcel] > 0 /\ g.day = S[g.sell].date
                    /\ g.amount = RealisedGain(S, g.sell, g.parcel)
  OBVIOUS
<1>1. g.amount \in Int
  BY RealisedFacts DEF Whole
<1>2. PICK z \in (DOMAIN S) \X Bought :
        /\ S[z[1]].take[z[2]] > 0
        /\ g = [sell |-> z[1], parcel |-> z[2], day |-> S[z[1]].date,
                amount |-> RealisedGain(S, z[1], z[2])]
  BY DEF RealisedItems
<1>3. PICK i, p : i = z[1] /\ p = z[2]
  OBVIOUS
<1>4. i \in 1 .. Len(S) /\ p \in Bought /\ p \in CgtParcels
  BY <1>3 DEF Bought
<1>5. S[i] \in Sell /\ i \in Nat
  BY <1>4
<1>6. S[i].date \in Int
  BY <1>5 DEF Sell
<1> QED
  BY <1>1, <1>2, <1>3, <1>4, <1>5, <1>6 DEF SellItem

\* The gains without a disposal.
LEMMA EventKind ==
    ASSUME CgtInv, NEW S \in Seq(Sell)
    PROVE  EventItems(S, <<>>) \subseteq EventItem
<1> SUFFICES ASSUME NEW g \in EventItems(S, <<>>) PROVE g \in EventItem
  OBVIOUS
<1>1. S \o <<>> = S
  OBVIOUS
<1>a. PICK p \in Bought : \E c \in Cohorts(S, p) : g \in CohortGains(p, c, AmitEvents(S, p))
  BY <1>1 DEF EventItems
<1>2. PICK c \in Cohorts(S, p) : g \in CohortGains(p, c, AmitEvents(S, p))
  BY <1>a
<1>3. p \in CgtParcels /\ c \in Cohort
  BY <1>2, CohortsFacts DEF Bought
<1>4. IsFiniteSet(AmitEvents(S, p)) /\ AmitEvents(S, p) \in SUBSET Event
  BY <1>3, EventsFacts
<1>5. PICK gains \in Gains : gains = NonDisposalGains(p, c, AmitEvents(S, p))
  BY <1>3, <1>4, NonDisposalTyped
<1>6. PICK i \in DOMAIN gains : g = [parcel |-> p, cohort |-> c.sell, day |-> gains[i].day,
                                     amount |-> gains[i].amount]
  BY <1>2, <1>5 DEF CohortGains
<1>7. gains[i].day \in Int /\ gains[i].amount \in Int
  <2>1. PICK G : G = [day : Int, amount : Int]
    OBVIOUS
  <2>2. gains \in Seq(G)
    BY <2>1 DEF Gains
  <2>3. gains[i] \in G
    BY <2>2
  <2> QED
    BY <2>1, <2>3
<1>8. c.sell \in Nat
  BY <1>3 DEF Cohort
<1> QED
  BY <1>3, <1>6, <1>7, <1>8 DEF EventItem

\* What the sell x may take: parcels there are, none of them covered by a
\* statement of its year.
Foretellable(x) ==
    /\ x \in Sell /\ x.date \in CgtDay
    /\ Picked(x) \subseteq Bought
    /\ \A p \in Picked(x) : coverage[p][FyOf(x.date)] = 0

\* The rehearsed gains are those of the sell once it is recorded.
LEMMA ContemplatedIs ==
    ASSUME CgtInv, NEW S \in Seq(Sell), NEW x, Foretellable(x)
    PROVE  /\ ContemplatedItems(S, x) =
                {[sell |-> 0, parcel |-> p, day |-> x.date,
                  amount |-> RealisedGain(Append(S, x), Len(S) + 1, p)] : p \in Picked(x)}
           /\ \A p \in Picked(x) : RealisedGain(Append(S, x), Len(S) + 1, p) \in Int
<1>1. PICK M : M = Append(S, x)
  OBVIOUS
<1>2. PICK n : n = Len(S) + 1
  OBVIOUS
<1>3. M \in Seq(Sell) /\ n \in DOMAIN M /\ M[n] = x /\ x \in Sell
  BY <1>1, <1>2 DEF Foretellable
<1>4. x.date >= 1
  BY CgtAssumption DEF Foretellable, CgtDay
<1>5. \A p \in Picked(x) : EventsWithDisposal(AmitEvents(S, p), x.take[p], x.date) = AmitEvents(M, p)
  BY <1>1, <1>3, <1>4, EventsMore DEF Picked
<1>6. \A p \in Picked(x) :
        ParcelGain(x, p, AdjustedCostBase(p, x.take[p],
                           EventsWithDisposal(AmitEvents(S, p), x.take[p], x.date), x.date))
          = RealisedGain(M, n, p)
  BY <1>3, <1>5 DEF RealisedGain, RealisedCost
<1>7. ASSUME NEW p \in Picked(x) PROVE RealisedGain(M, n, p) \in Int
  <2>1. p \in Bought /\ x.take[p] > 0
    BY DEF Foretellable, Picked
  <2>2. PICK g : g = [sell |-> n, parcel |-> p, day |-> M[n].date, amount |-> RealisedGain(M, n, p)]
    OBVIOUS
  <2>3. PICK z : z = <<n, p>>
    OBVIOUS
  <2>4. z \in (DOMAIN M) \X Bought /\ M[z[1]].take[z[2]] > 0
    BY <1>3, <2>1, <2>3
  <2>5. g \in RealisedItems(M)
    BY <2>2, <2>3, <2>4 DEF RealisedItems
  <2>6. Whole(RealisedItems(M))
    BY <1>3, RealisedFacts
  <2> QED
    BY <2>2, <2>5, <2>6 DEF Whole
<1> QED
  BY <1>1, <1>2, <1>6, <1>7 DEF ContemplatedItems

\* All the sells are of days of the reports.
Dated(S) == \A i \in DOMAIN S : S[i].date \in CgtDay

\* Up to the year of the sell, the realised gains are the same but for its own.
LEMMA RealisedMore ==
    ASSUME CgtInv, NEW S \in Seq(Sell), Dated(S), NEW x, Foretellable(x),
           NEW g \in SellItem, FyOf(g.day) <= FyOf(x.date), g.sell # Len(S) + 1
    PROVE  g \in RealisedItems(S) <=> g \in RealisedItems(Append(S, x))
<1>1. PICK M : M = Append(S, x)
  OBVIOUS
<1>2. PICK n \in Nat : n = Len(S)
  OBVIOUS
<1>3. x \in Sell /\ x.date \in CgtDay
  BY DEF Foretellable
<1>4. /\ M \in Seq(Sell) /\ Len(M) = n + 1 /\ DOMAIN M = 1 .. (n + 1) /\ DOMAIN S = 1 .. n
      /\ \A i \in 1 .. n : M[i] = S[i]
  BY <1>1, <1>2, <1>3
<1>5. PICK k, p : k = g.sell /\ p = g.parcel
  OBVIOUS
<1>6. ASSUME k \in 1 .. n, p \in Bought, g.day = S[k].date, S[k].take[p] > 0
      PROVE  RealisedGain(M, k, p) = RealisedGain(S, k, p)
  <2>1. PICK sell \in Sell : sell = S[k] /\ sell = M[k]
    BY <1>4, <1>6
  <2>2. p \in CgtParcels /\ sell.take[p] \in Nat /\ sell.date \in Int
    BY <1>6, <2>1 DEF Sell, Bought
  <2>3. k \in DOMAIN S
    BY <1>4, <1>6
  <2>4. sell.date \in CgtDay
    BY <2>1, <2>3 DEF Dated
  <2>5. sell.date >= 1
    BY <2>4, CgtAssumption DEF CgtDay
  <2>6. FyOf(sell.date) <= FyOf(x.date)
    BY <1>6, <2>1
  <2>7. x.take[p] > 0 => coverage[p][FyOf(x.date)] = 0
    BY <2>2 DEF Foretellable, Picked
  <2>8. PICK units \in Nat, on \in Int : units = sell.take[p] /\ on = sell.date
    BY <2>2
  <2>9. AdjustedCostBase(p, units, AmitEvents(M, p), on)
          = AdjustedCostBase(p, units, AmitEvents(S, p), on)
    BY <1>1, <1>3, <1>6, <2>5, <2>6, <2>7, <2>8, CostsStand
  <2> QED
    BY <2>1, <2>8, <2>9 DEF RealisedGain, RealisedCost
<1>7. ASSUME g \in RealisedItems(S) PROVE g \in RealisedItems(M)
  <2>1. /\ k \in 1 .. n /\ p \in Bought /\ S[k].take[p] > 0 /\ g.day = S[k].date
        /\ g.amount = RealisedGain(S, k, p)
    BY <1>2, <1>5, <1>7, RealisedKind
  <2>2. PICK z : z = <<k, p>>
    OBVIOUS
  <2>3. z \in (DOMAIN M) \X Bought /\ M[z[1]].take[z[2]] > 0
    BY <1>4, <2>1, <2>2
  <2>4. M[k] = S[k] /\ RealisedGain(M, k, p) = RealisedGain(S, k, p)
    BY <1>4, <1>6, <2>1
  <2>5. g = [sell |-> z[1], parcel |-> z[2], day |-> M[z[1]].date,
             amount |-> RealisedGain(M, z[1], z[2])]
    <3>1. g = [sell |-> g.sell, parcel |-> g.parcel, day |-> g.day, amount |-> g.amount]
      BY DEF SellItem
    <3>2. z[1] = k /\ z[2] = p
      BY <2>2
    <3> QED
      BY <1>5, <2>1, <2>4, <3>1, <3>2
  <2> QED
    BY <2>3, <2>5 DEF RealisedItems
<1>8. ASSUME g \in RealisedItems(M) PROVE g \in RealisedItems(S)
  <2>1. /\ k \in 1 .. (n + 1) /\ p \in Bought /\ M[k].take[p] > 0 /\ g.day = M[k].date
        /\ g.amount = RealisedGain(M, k, p)
    BY <1>4, <1>5, <1>8, RealisedKind
  <2>a. k \in 1 .. n
    BY <1>2, <1>5, <2>1
  <2>2. PICK z : z = <<k, p>>
    OBVIOUS
  <2>b. M[k] = S[k]
    BY <1>4, <2>a
  <2>3. z \in (DOMAIN S) \X Bought /\ S[z[1]].take[z[2]] > 0
    BY <1>4, <2>1, <2>2, <2>a, <2>b
  <2>4. RealisedGain(M, k, p) = RealisedGain(S, k, p)
    BY <1>6, <2>1, <2>a, <2>b
  <2>5. g = [sell |-> z[1], parcel |-> z[2], day |-> S[z[1]].date,
             amount |-> RealisedGain(S, z[1], z[2])]
    <3>1. g = [sell |-> g.sell, parcel |-> g.parcel, day |-> g.day, amount |-> g.amount]
      BY DEF SellItem
    <3>2. z[1] = k /\ z[2] = p
      BY <2>2
    <3> QED
      BY <1>5, <2>1, <2>4, <2>b, <3>1, <3>2
  <2> QED
    BY <2>3, <2>5 DEF RealisedItems
<1> QED
  BY <1>1, <1>7, <1>8

\* The items of the rehearsal are those of the record up to the sell's year, its
\* own with another name.
LEMMA ItemsForetold ==
    ASSUME CgtInv, NEW S \in Seq(Sell), Dated(S), NEW x, Foretellable(x),
           NEW A, A = RealisedItems(S) \union EventItems(S, <<x>>) \union ContemplatedItems(S, x),
           NEW B, B = Items(Append(S, x)), NEW z \in Int, z <= FyOf(x.date)
    PROVE  /\ Whole(A) /\ Whole(B)
           /\ GrossBuckets(A, z) = GrossBuckets(B, z)
<1>1. PICK M : M = Append(S, x)
  OBVIOUS
<1>2. PICK n \in Nat : n = Len(S)
  OBVIOUS
<1>3. x \in Sell /\ x.date \in CgtDay /\ x.date \in Int /\ x.date >= 1
  BY CgtAssumption DEF Foretellable, CgtDay
<1>4. /\ M \in Seq(Sell) /\ Len(M) = n + 1 /\ DOMAIN M = 1 .. (n + 1) /\ M[n + 1] = x
  BY <1>1, <1>2, <1>3
<1>5. PICK R, Q, V, C : /\ R = RealisedItems(S) /\ Q = RealisedItems(M)
                        /\ V = EventItems(M, <<>>) /\ C = ContemplatedItems(S, x)
  OBVIOUS
<1>6. A = R \union V \union C /\ B = Q \union V
  BY <1>1, <1>3, <1>5, EventItemsMore DEF Items
<1>7. \A g \in R : g \in SellItem /\ g.sell \in 1 .. n
  BY <1>2, <1>5, RealisedKind
<1>8. \A g \in Q : /\ g \in SellItem /\ g.sell \in 1 .. (n + 1) /\ g.parcel \in Bought
                   /\ M[g.sell].take[g.parcel] > 0 /\ g.day = M[g.sell].date
                   /\ g.amount = RealisedGain(M, g.sell, g.parcel)
  BY <1>4, <1>5, RealisedKind
<1>9. \A g \in V : g \in EventItem
  BY <1>4, <1>5, EventKind
<1>10. PICK P : P = Picked(x)
  OBVIOUS
<1>11. /\ C = {[sell |-> 0, parcel |-> p, day |-> x.date,
                amount |-> RealisedGain(M, n + 1, p)] : p \in P}
       /\ \A p \in P : RealisedGain(M, n + 1, p) \in Int
  BY <1>1, <1>2, <1>5, <1>10, ContemplatedIs
<1>12. \A p \in P : p \in Bought /\ p \in CgtParcels /\ x.take[p] > 0
  BY <1>10 DEF Foretellable, Picked
<1>13. \A g \in C : /\ g \in SellItem /\ g.sell = 0 /\ g.parcel \in P /\ g.day = x.date
                    /\ g.amount = RealisedGain(M, n + 1, g.parcel)
  BY <1>3, <1>11, <1>12 DEF SellItem
<1>14. PICK b : b = [g \in A |-> IF g \in C
                                 THEN [sell |-> n + 1, parcel |-> g.parcel, day |-> g.day,
                                       amount |-> g.amount]
                                 ELSE g]
  OBVIOUS
<1>15. /\ \A g \in R : g \notin C /\ b[g] = g
       /\ \A g \in V : g \notin C /\ b[g] = g /\ g \notin SellItem
  <2>1. \A g \in R : g \notin C
    BY <1>7, <1>13
  <2>2. \A g \in V : g \notin SellItem
    BY <1>9, ItemKinds
  <2>3. \A g \in V : g \notin C
    BY <1>13, <2>2
  <2> QED
    BY <1>6, <1>14, <2>1, <2>2, <2>3
<1>16. \A g \in C : b[g] = [sell |-> n + 1, parcel |-> g.parcel, day |-> g.day, amount |-> g.amount]
  BY <1>6, <1>14
<1>17. \A g \in C : b[g] \in Q /\ b[g].sell = n + 1
  <2> SUFFICES ASSUME NEW g \in C PROVE b[g] \in Q /\ b[g].sell = n + 1
    OBVIOUS
  <2>1. PICK p : p = g.parcel
    OBVIOUS
  <2>2. PICK w : w = <<n + 1, p>>
    OBVIOUS
  <2>3. p \in P /\ g.day = x.date /\ g.amount = RealisedGain(M, n + 1, p)
    BY <1>13, <2>1
  <2>4. w \in (DOMAIN M) \X Bought /\ M[w[1]].take[w[2]] > 0
    BY <1>4, <1>12, <2>2, <2>3
  <2>5. b[g] = [sell |-> w[1], parcel |-> w[2], day |-> M[w[1]].date,
                amount |-> RealisedGain(M, w[1], w[2])]
    BY <1>4, <1>16, <2>1, <2>2, <2>3
  <2>6. b[g] \in Q
    BY <1>5, <2>4, <2>5 DEF RealisedItems
  <2>7. b[g].sell = n + 1
    <3>1. b[g] = [sell |-> n + 1, parcel |-> g.parcel, day |-> g.day, amount |-> g.amount]
      BY <1>16
    <3>2. PICK k, a, d, c : k = n + 1 /\ a = g.parcel /\ d = g.day /\ c = g.amount
      OBVIOUS
    <3>3. b[g] = [sell |-> k, parcel |-> a, day |-> d, amount |-> c]
      BY <3>1, <3>2
    <3> QED
      BY <3>2, <3>3
  <2> QED
    BY <2>6, <2>7
<1>18. \A h \in Q : h.sell = n + 1 => \E g \in C : b[g] = h
  <2> SUFFICES ASSUME NEW h \in Q, h.sell = n + 1 PROVE \E g \in C : b[g] = h
    OBVIOUS
  <2>1. PICK p : p = h.parcel
    OBVIOUS
  <2>2. /\ h \in SellItem /\ p \in Bought /\ x.take[p] > 0 /\ h.day = x.date
        /\ h.amount = RealisedGain(M, n + 1, p)
    BY <1>4, <1>8, <2>1
  <2>3. p \in P
    BY <1>10, <2>2 DEF Picked, Bought
  <2>4. PICK g : g = [sell |-> 0, parcel |-> p, day |-> x.date,
                      amount |-> RealisedGain(M, n + 1, p)]
    OBVIOUS
  <2>5. g \in C
    BY <1>11, <2>3, <2>4
  <2>6. b[g] = [sell |-> n + 1, parcel |-> p, day |-> x.date,
                amount |-> RealisedGain(M, n + 1, p)]
    BY <1>16, <2>4, <2>5
  <2>7. h = [sell |-> h.sell, parcel |-> h.parcel, day |-> h.day, amount |-> h.amount]
    BY <2>2 DEF SellItem
  <2>8. h = b[g]
    BY <2>1, <2>2, <2>6, <2>7
  <2> QED
    BY <2>5, <2>8
<1>19. PICK Az, Bz : Az = {g \in A : FyOf(g.day) = z} /\ Bz = {g \in B : FyOf(g.day) = z}
  OBVIOUS
<1>20. \A g \in A : b[g].amount = g.amount /\ b[g].day = g.day /\ b[g].parcel = g.parcel
  <2>1. ASSUME NEW g \in C
        PROVE  b[g].amount = g.amount /\ b[g].day = g.day /\ b[g].parcel = g.parcel
    <3>1. b[g] = [sell |-> n + 1, parcel |-> g.parcel, day |-> g.day, amount |-> g.amount]
      BY <1>16
    <3>2. PICK k, a, d, c : k = n + 1 /\ a = g.parcel /\ d = g.day /\ c = g.amount
      OBVIOUS
    <3>3. b[g] = [sell |-> k, parcel |-> a, day |-> d, amount |-> c]
      BY <3>1, <3>2
    <3> QED
      BY <3>2, <3>3
  <2>2. \A g \in A : g \in C \/ b[g] = g
    BY <1>6, <1>15
  <2> QED
    BY <2>1, <2>2
<1>21. \A g \in SellItem : FyOf(g.day) = z /\ g.sell # n + 1 => (g \in R <=> g \in Q)
  BY <1>1, <1>2, <1>5, RealisedMore
<1>22. \A g \in Az : b[g] \in Bz
  <2> SUFFICES ASSUME NEW g \in Az PROVE b[g] \in B
    BY <1>19, <1>20
  <2>1. CASE g \in R
    <3>1. g \in SellItem /\ g.sell # n + 1 /\ FyOf(g.day) = z
      BY <1>7, <1>19, <2>1
    <3> QED
      BY <1>6, <1>15, <1>21, <2>1, <3>1
  <2>2. CASE g \in V
    BY <1>6, <1>15, <2>2
  <2>3. CASE g \in C
    BY <1>6, <1>17, <2>3
  <2> QED
    BY <1>6, <1>19, <2>1, <2>2, <2>3
<1>23. \A h \in Bz : \E g \in Az : b[g] = h
  <2> SUFFICES ASSUME NEW h \in Bz PROVE \E g \in A : b[g] = h
    BY <1>19, <1>20
  <2>1. CASE h \in V
    BY <1>6, <1>15, <2>1
  <2>2. CASE h \in Q /\ h.sell = n + 1
    BY <1>6, <1>18, <2>2
  <2>3. CASE h \in Q /\ h.sell # n + 1
    <3>1. h \in SellItem /\ FyOf(h.day) = z
      BY <1>8, <1>19, <2>3
    <3>2. h \in R
      BY <1>21, <2>3, <3>1
    <3> QED
      BY <1>6, <1>15, <3>2
  <2> QED
    BY <1>6, <1>19, <2>1, <2>2, <2>3
<1>24. Bz = {b[g] : g \in Az}
  BY <1>22, <1>23
<1>25. \A g, h \in A : b[g] = b[h] => g = h
  <2> SUFFICES ASSUME NEW g \in A, NEW h \in A, b[g] = b[h] PROVE g = h
    OBVIOUS
  <2>1. CASE g \in C /\ h \in C
    <3>1. /\ g = [sell |-> 0, parcel |-> g.parcel, day |-> g.day, amount |-> g.amount]
          /\ h = [sell |-> 0, parcel |-> h.parcel, day |-> h.day, amount |-> h.amount]
      BY <1>13, <2>1 DEF SellItem
    <3>2. g.parcel = h.parcel /\ g.day = h.day /\ g.amount = h.amount
      BY <1>20
    <3> QED
      BY <3>1, <3>2
  <2>2. ASSUME NEW k \in C, NEW l \in R \union V PROVE b[k] # b[l]
    <3>1. b[k] \in SellItem /\ b[k].sell = n + 1
      BY <1>8, <1>17
    <3>2. l \in V => b[l] \notin SellItem
      BY <1>15
    <3>3. l \in R => b[l].sell \in 1 .. n
      BY <1>7, <1>15
    <3> QED
      BY <3>1, <3>2, <3>3
  <2>3. CASE g \notin C /\ h \notin C
    BY <1>6, <1>15, <2>3
  <2> QED
    BY <1>6, <2>1, <2>2, <2>3
<1>26. Whole(B)
  <2>1. Whole(Q) /\ Whole(V)
    BY <1>4, <1>5, RealisedFacts, EventItemsFacts
  <2>2. IsFiniteSet(Q \union V)
    BY <2>1, FS_Union DEF Whole
  <2> QED
    BY <1>6, <2>1, <2>2 DEF Whole
<1>27. Whole(A)
  <2>1. Whole(R) /\ Whole(V)
    BY <1>4, <1>5, RealisedFacts, EventItemsFacts
  <2>2. PICK f : f = [p \in P |-> [sell |-> 0, parcel |-> p, day |-> x.date,
                                   amount |-> RealisedGain(M, n + 1, p)]]
    OBVIOUS
  <2>3. IsFiniteSet(P)
    <3>1. P \subseteq CgtParcels /\ IsFiniteSet(CgtParcels)
      BY <1>12, CgtAssumption
    <3> QED
      BY <3>1, FS_Subset
  <2>4. DOMAIN f = P /\ C = {f[p] : p \in P}
    BY <1>11, <2>2
  <2>5. IsFiniteSet(C)
    BY <2>3, <2>4, MadeFinite
  <2>6. \A g \in C : g.amount \in Int
    BY <1>13 DEF SellItem
  <2>7. IsFiniteSet(R \union V)
    BY <2>1, FS_Union DEF Whole
  <2>8. IsFiniteSet((R \union V) \union C)
    BY <2>5, <2>7, FS_Union
  <2> QED
    BY <1>6, <2>1, <2>6, <2>8 DEF Whole
<1>28. GrossBuckets(A, z) = GrossBuckets(B, z)
  <2>1. {g \in B : FyOf(g.day) = z} = {b[g] : g \in {h \in A : FyOf(h.day) = z}}
    BY <1>19, <1>24
  <2>2. \A g \in A : FyOf(g.day) = z =>
            b[g].amount = g.amount /\ b[g].day = g.day /\ b[g].parcel = g.parcel
    BY <1>20
  <2>3. \A g, h \in A : FyOf(g.day) = z /\ FyOf(h.day) = z /\ b[g] = b[h] => g = h
    BY <1>25
  <2>4. IsFiniteSet(A) /\ \A g \in A : g.amount \in Int
    BY <1>27 DEF Whole
  <2> QED
    BY <2>1, <2>2, <2>3, <2>4, BucketsRenamed
<1> QED
  BY <1>26, <1>27, <1>28

\* The days of the reports are in their years.
LEMMA YearOfDay ==
    ASSUME NEW d \in CgtDay
    PROVE  FyOf(d) \in Fys
<1>1. PICK f \in Nat \ {0}, m \in Int, n \in Int, z \in Int :
        f = FyLength /\ m = d - 1 /\ n = CgtDays - 1 /\ m <= n /\ z = 0 /\ z <= m
  BY CgtAssumption DEF CgtDay
<1>2. /\ m \div f \in Int /\ n \div f \in Int /\ z \div f = 0
      /\ m \div f <= n \div f /\ z \div f <= m \div f
  BY <1>1, DivUp
<1> QED
  BY <1>1, <1>2 DEF FyOf, Fys

\* So the year's row is foretold.
LEMMA WhatIfIs ==
    ASSUME CgtInv, NEW S \in Seq(Sell), Dated(S), NEW x, Foretellable(x)
    PROVE  WhatIf(S, x) = Report(Append(S, x))[FyOf(x.date)]
<1>1. PICK A, B :
        /\ A = RealisedItems(S) \union EventItems(S, <<x>>) \union ContemplatedItems(S, x)
        /\ B = Items(Append(S, x))
  OBVIOUS
<1>2. PICK y : y = FyOf(x.date)
  OBVIOUS
<1>3. y \in Fys /\ y \in Int
  BY <1>2, YearOfDay, SomeYears DEF Foretellable
<1>4. \A z \in Int : z <= y => Whole(A) /\ Whole(B) /\ GrossBuckets(A, z) = GrossBuckets(B, z)
  BY <1>1, <1>2, ItemsForetold
<1>5. Whole(A) /\ Whole(B)
  BY <1>3, <1>4
<1>6. \A z \in Fys : GrossBuckets(A, z) \in Bucket /\ GrossBuckets(B, z) \in Bucket
  BY <1>5, BucketsFacts DEF Whole, CgtInv
<1>7. \A z \in 1 .. y : GrossBuckets(A, z) = GrossBuckets(B, z)
  BY <1>3, <1>4
<1>8. NetYears(A)[y] = NetYears(B)[y]
  BY <1>3, <1>6, <1>7, RowsAlike DEF CgtInv
<1> QED
  BY <1>1, <1>2, <1>8 DEF WhatIf, Report

-----------------------------------------------------------------------------
(* The books of every step. *)

\* What was entered is of the days, units and rates there are, and no parcel is
\* sold beyond its units.
CgtBooks ==
    /\ CgtInv
    /\ Dated(sells)
    /\ CgtTypeOK

\* The books as they open.
LEMMA BooksStart == CgtInit => CgtBooks
<1> SUFFICES ASSUME CgtInit PROVE CgtBooks
  OBVIOUS
<1>1. CgtInv
  BY CgtStart
<1>2. sells = <<>> /\ payments = {} /\ statements = {} /\ openingLoss \in OpeningLosses
  BY DEF CgtInit
<1>3. PICK d \in BuyDays, n \in LotUnits, c \in UnitCosts :
        parcels = [p \in CgtParcels |-> IF p = 1 THEN NewLot(d, n, c) ELSE NoLot]
  BY DEF CgtInit
<1>4. \A p \in CgtParcels :
        parcels[p] = NoLot \/ (parcels[p].day \in BuyDays /\ parcels[p].units \in LotUnits)
  BY <1>3 DEF NewLot
<1>5. ASSUME NEW p \in CgtParcels PROVE UnitsTaken(sells, p, 1, CgtDays) <= parcels[p].units
  <2>1. UnitsTaken(sells, p, 1, CgtDays) = Total({})
    <3>1. PICK J : J = {j \in DOMAIN sells : 1 <= sells[j].date /\ sells[j].date <= CgtDays}
      OBVIOUS
    <3>2. J = {}
      BY <1>2, <3>1
    <3>3. UnitsTaken(sells, p, 1, CgtDays)
            = Total({[sell |-> i, amount |-> sells[i].take[p]] : i \in J})
      BY <3>1 DEF UnitsTaken
    <3> QED
      BY <3>2, <3>3
  <2>2. PICK f : f = [g \in {} |-> g.amount]
    OBVIOUS
  <2>3. Total({}) = SumOver(f, {})
    BY <2>2 DEF Total
  <2>4. SumOver(f, {}) = 0
    BY SumEmpty
  <2>5. parcels[p].units \in Nat
    BY <1>1 DEF CgtInv
  <2> QED
    BY <2>1, <2>3, <2>4, <2>5
<1> QED
  BY <1>1, <1>2, <1>4, <1>5 DEF CgtBooks, CgtTypeOK, Dated, CgtInv

\* A recorded sell, and what it may take.
LEMMA RecordedSell ==
    ASSUME CgtInv, CgtInv', NEW d \in SellDays, NEW take \in [CgtParcels -> 0 .. Max(LotUnits)],
           NEW price \in UnitProceeds, RecordSell(d, take, price)
    PROVE  \E x \in Sell :
             /\ sells' = Append(sells, x) /\ x.date = d /\ x.take = take
             /\ d \in CgtDay /\ Picked(x) \subseteq Bought
             /\ \A p \in CgtParcels :
                   take[p] > 0 => take[p] <= parcels[p].units - UnitsTaken(sells, p, 1, CgtDays)
<1>1. PICK x : x = [date |-> d, proceeds |-> price * UnitsSold([take |-> take]), take |-> take]
  OBVIOUS
<1>2. sells' = Append(sells, x)
  BY <1>1 DEF RecordSell
<1>3. x \in Sell
  <2>1. sells \in Seq(Sell) /\ sells' \in Seq(Sell')
    BY DEF CgtInv
  <2>2. Sell' = Sell
    BY DEF Sell, UnitsSold, Total
  <2>3. PICK m \in Nat : m = Len(sells)
    BY <2>1
  <2>4. m + 1 \in DOMAIN sells' /\ sells'[m + 1] = x
    BY <1>2, <2>1, <2>3
  <2> QED
    BY <2>1, <2>2, <2>4
<1>4. \A p \in CgtParcels : take[p] > 0 =>
        p \in Bought /\ take[p] <= parcels[p].units - UnitsTaken(sells, p, 1, CgtDays)
  BY DEF RecordSell, Available
<1>5. d \in CgtDay
  BY CgtAssumption DEF CgtDay
<1> QED
  BY <1>1, <1>2, <1>3, <1>4, <1>5 DEF Picked

\* And every write keeps them.
LEMMA BooksStep == CgtBooks /\ [CgtNext]_cgtVars => CgtBooks'
<1> SUFFICES ASSUME CgtBooks, [CgtNext]_cgtVars PROVE CgtBooks'
  OBVIOUS
<1>1. CgtInv /\ Dated(sells) /\ CgtTypeOK
  BY DEF CgtBooks
<1>2. CgtInv'
  BY <1>1, CgtStep
<1> DEFINE Lots == \A p \in CgtParcels :
              parcels[p] = NoLot \/ (parcels[p].day \in BuyDays /\ parcels[p].units \in LotUnits)
           Pays == \A pay \in payments : pay.date \in PayDays /\ pay.rate \in PayRates
           Stats == \A s \in statements : s.year \in Fys /\ s.rate \in StatementRates
           Within == \A p \in CgtParcels : UnitsTaken(sells, p, 1, CgtDays) <= parcels[p].units
<1>3. Lots /\ Pays /\ Stats /\ Within /\ openingLoss \in OpeningLosses
  BY <1>1 DEF CgtTypeOK
<1>4. ASSUME Dated(sells'), Lots', Pays', Stats', Within', openingLoss' = openingLoss
      PROVE  CgtBooks'
  BY <1>2, <1>3, <1>4 DEF CgtBooks, CgtTypeOK, Dated, CgtInv
<1>5. ASSUME sells' = sells PROVE Dated(sells')
  BY <1>1, <1>5
<1>6. ASSUME sells' = sells, parcels' = parcels PROVE Within'
  BY <1>3, <1>6 DEF UnitsTaken, Total
<1>7. CASE UNCHANGED cgtVars
  <2>1. /\ parcels' = parcels /\ payments' = payments /\ statements' = statements
        /\ sells' = sells /\ openingLoss' = openingLoss
    BY <1>7 DEF cgtVars
  <2>2. Lots' /\ Pays' /\ Stats'
    BY <1>3, <2>1
  <2> QED
    BY <1>4, <1>5, <1>6, <2>1, <2>2
<1>8. ASSUME NEW p \in CgtParcels, NEW d \in BuyDays, NEW n \in LotUnits, NEW c \in UnitCosts,
             AcquireParcel(p, d, n, c)
      PROVE  CgtBooks'
  <2>1. /\ parcels' = [parcels EXCEPT ![p] = NewLot(d, n, c)] /\ parcels[p] = NoLot
        /\ payments' = payments /\ statements' = statements
        /\ sells' = sells /\ openingLoss' = openingLoss
    BY <1>8 DEF AcquireParcel
  <2>2. Pays' /\ Stats'
    BY <1>3, <2>1
  <2>3. \A q \in CgtParcels : parcels'[q] = IF q = p THEN NewLot(d, n, c) ELSE parcels[q]
    BY <1>1, <2>1 DEF CgtInv
  <2>4. Lots'
    BY <1>3, <2>3 DEF NewLot
  <2>5. Within'
    <3> SUFFICES ASSUME NEW q \in CgtParcels
                 PROVE  UnitsTaken(sells, q, 1, CgtDays) <= parcels'[q].units
      BY <2>1 DEF UnitsTaken, Total
    <3>1. CASE q # p
      BY <1>3, <2>3, <3>1
    <3>2. CASE q = p
      <4>1. PICK t \in Int, m \in Nat : t = UnitsTaken(sells, q, 1, CgtDays) /\ m = n
        <5>1. sells \in Seq(Sell)
          BY <1>1 DEF CgtInv
        <5>2. UnitsTaken(sells, q, 1, CgtDays) \in Nat
          BY <5>1, TakenFacts
        <5>3. n \in Nat
          BY CgtAssumption
        <5> QED
          BY <5>2, <5>3
      <4>2. t <= 0
        BY <1>3, <2>1, <3>2, <4>1 DEF NoLot
      <4>3. parcels'[q].units = m
        BY <2>3, <3>2, <4>1 DEF NewLot
      <4> QED
        BY <4>1, <4>2, <4>3
    <3> QED
      BY <3>1, <3>2
  <2> QED
    BY <1>4, <1>5, <2>1, <2>2, <2>4, <2>5
<1>9. ASSUME NEW d \in PayDays, NEW r \in PayRates, NEW gap \in RecordGaps,
             PayCapital(d, r, gap)
      PROVE  CgtBooks'
  <2>1. PICK pay : /\ payments' = payments \union {pay}
                   /\ pay.date = d /\ pay.rate = r
    <3>1. PICK record : payments' = payments \union {[date |-> d, rate |-> r, record |-> record]}
      BY <1>9 DEF PayCapital
    <3>2. PICK pay : pay = [date |-> d, rate |-> r, record |-> record]
      OBVIOUS
    <3>3. pay.date = d /\ pay.rate = r
      BY <3>2
    <3> QED
      BY <3>1, <3>2, <3>3
  <2>2. /\ parcels' = parcels /\ statements' = statements
        /\ sells' = sells /\ openingLoss' = openingLoss
    BY <1>9 DEF PayCapital
  <2>3. Lots' /\ Pays' /\ Stats'
    BY <1>3, <2>1, <2>2
  <2> QED
    BY <1>4, <1>5, <1>6, <2>2, <2>3
<1>10. ASSUME NEW y \in StatementYears, NEW r \in StatementRates, NEW g \in AttributedGains,
              EnterStatement(y, r, g)
       PROVE  CgtBooks'
  <2>1. PICK s : /\ statements' = statements \union {s}
                 /\ s.year = y /\ s.rate = r
    <3>1. PICK s : s = [year |-> y, rate |-> r, gain |-> g]
      OBVIOUS
    <3>2. statements' = statements \union {s}
      BY <1>10, <3>1 DEF EnterStatement
    <3>3. s.year = y /\ s.rate = r
      BY <3>1
    <3> QED
      BY <3>2, <3>3
  <2>2. /\ parcels' = parcels /\ payments' = payments
        /\ sells' = sells /\ openingLoss' = openingLoss
    BY <1>10 DEF EnterStatement
  <2>3. y \in Fys
    BY CgtAssumption DEF Fys, FyOf
  <2>4. Lots' /\ Pays' /\ Stats'
    BY <1>3, <2>1, <2>2, <2>3
  <2> QED
    BY <1>4, <1>5, <1>6, <2>2, <2>4
<1>11. ASSUME NEW p \in CgtParcels, NEW s \in statements, NEW n \in 1 .. Max(LotUnits),
              CoverUnits(p, s, n)
       PROVE  CgtBooks'
  <2>1. /\ parcels' = parcels /\ payments' = payments /\ statements' = statements
        /\ sells' = sells /\ openingLoss' = openingLoss
    BY <1>11 DEF CoverUnits
  <2>2. Lots' /\ Pays' /\ Stats'
    BY <1>3, <2>1
  <2> QED
    BY <1>4, <1>5, <1>6, <2>1, <2>2
<1>12. ASSUME NEW d \in SellDays, NEW take \in [CgtParcels -> 0 .. Max(LotUnits)],
              NEW price \in UnitProceeds, RecordSell(d, take, price)
       PROVE  CgtBooks'
  <2>1. PICK x \in Sell :
          /\ sells' = Append(sells, x) /\ x.date = d /\ x.take = take
          /\ d \in CgtDay /\ Picked(x) \subseteq Bought
          /\ \A p \in CgtParcels :
                take[p] > 0 => take[p] <= parcels[p].units - UnitsTaken(sells, p, 1, CgtDays)
    BY <1>1, <1>2, <1>12, RecordedSell
  <2>2. /\ parcels' = parcels /\ payments' = payments /\ statements' = statements
        /\ openingLoss' = openingLoss
    BY <1>12 DEF RecordSell
  <2>3. Lots' /\ Pays' /\ Stats'
    BY <1>3, <2>2
  <2>4. sells \in Seq(Sell)
    BY <1>1 DEF CgtInv
  <2>5. Dated(sells')
    BY <1>1, <2>1, <2>4 DEF Dated
  <2>6. Within'
    <3> SUFFICES ASSUME NEW p \in CgtParcels
                 PROVE  UnitsTaken(sells', p, 1, CgtDays) <= parcels[p].units
      BY <2>2 DEF UnitsTaken, Total
    <3>1. PICK t \in Int, u \in Int, a \in Int :
            t = UnitsTaken(sells, p, 1, CgtDays) /\ u = parcels[p].units /\ a = x.take[p]
      <4>1. UnitsTaken(sells, p, 1, CgtDays) \in Int
        BY <2>4, TakenFacts
      <4>2. parcels[p].units \in Int
        BY <1>1 DEF CgtInv
      <4>3. x.take[p] \in Int
        BY DEF Sell
      <4> QED
        BY <4>1, <4>2, <4>3
    <3>2. t <= u /\ a >= 0
      BY <1>3, <3>1 DEF Sell
    <3>3. a > 0 => a <= u - t
      BY <2>1, <3>1
    <3>4. 1 <= d /\ d <= CgtDays
      BY <2>1, CgtAssumption DEF CgtDay
    <3>5. UnitsTaken(sells', p, 1, CgtDays) = t + a
      BY <2>1, <2>4, <3>1, <3>4, TakenMore
    <3>6. t + a <= u
      BY <3>2, <3>3
    <3> QED
      BY <3>1, <3>5, <3>6
  <2> QED
    BY <1>4, <2>2, <2>3, <2>5, <2>6
<1> QED
  BY <1>7, <1>8, <1>9, <1>10, <1>11, <1>12 DEF CgtNext

\* No sell takes units another one took, and what was entered stays of the years
\* and days there are (the availability check of sell.rs).
THEOREM CgtTypeCorrect == CgtSpec => []CgtTypeOK
<1>1. CgtInit => CgtBooks
  BY BooksStart
<1>2. CgtBooks /\ [CgtNext]_cgtVars => CgtBooks'
  BY BooksStep
<1>3. CgtBooks => CgtTypeOK
  BY DEF CgtBooks
<1> QED
  BY <1>1, <1>2, <1>3, PTL DEF CgtSpec

\* A step that records a sell makes the year's row the one foretold.
LEMMA StepForetold ==
    ASSUME CgtBooks, CgtBooks', [CgtNext]_cgtVars, Len(sells') > Len(sells)
    PROVE  LET sell == sells'[Len(sells')]
               y == FyOf(sell.date)
           IN  (\A p \in Picked(sell) : coverage[p][y] = 0)
                 => WhatIf(sells, sell) = Report(sells')[y]
<1>1. CgtInv /\ CgtInv' /\ Dated(sells) /\ sells \in Seq(Sell)
  BY DEF CgtBooks, CgtInv
<1>2. ASSUME sells' = sells PROVE FALSE
  <2>1. PICK m \in Nat : m = Len(sells)
    BY <1>1
  <2> QED
    BY <1>2, <2>1
<1>3. PICK d \in SellDays, take \in [CgtParcels -> 0 .. Max(LotUnits)], price \in UnitProceeds :
        RecordSell(d, take, price)
  BY <1>2 DEF CgtNext, cgtVars, AcquireParcel, PayCapital, EnterStatement, CoverUnits
<1>4. PICK x \in Sell : /\ sells' = Append(sells, x) /\ x.date = d
                        /\ d \in CgtDay /\ Picked(x) \subseteq Bought
  BY <1>1, <1>3, RecordedSell
<1>5. sells'[Len(sells')] = x
  BY <1>1, <1>4
<1>6. ASSUME \A p \in Picked(x) : coverage[p][FyOf(x.date)] = 0
      PROVE  WhatIf(sells, x) = Report(sells')[FyOf(x.date)]
  <2>1. Foretellable(x)
    BY <1>4, <1>6 DEF Foretellable
  <2>2. WhatIf(sells, x) = Report(Append(sells, x))[FyOf(x.date)]
    BY <1>1, <2>1, WhatIfIs
  <2> QED
    BY <1>4, <2>2
<1> QED
  BY <1>5, <1>6

\* Whatever is recorded, the what-if report's row for a sell is the row its year
\* has once the sell is recorded, unless a statement of that year covers a parcel
\* it draws on (what_if_handler of reports/net_capital_gain.rs).
THEOREM WhatIfAlwaysForetells == CgtSpec => WhatIfForetells
<1>1. CgtInit => CgtBooks
  BY BooksStart
<1>2. CgtBooks /\ [CgtNext]_cgtVars => CgtBooks'
  BY BooksStep
<1>3. CgtBooks /\ CgtBooks' /\ [CgtNext]_cgtVars
        => [Len(sells') > Len(sells) =>
              LET sell == sells'[Len(sells')]
                  y == FyOf(sell.date)
              IN  (\A p \in Picked(sell) : coverage[p][y] = 0)
                    => WhatIf(sells, sell) = Report(sells')[y]]_cgtVars
  BY StepForetold
<1> QED
  BY <1>1, <1>2, <1>3, PTL DEF CgtSpec, WhatIfForetells

-----------------------------------------------------------------------------
(* Every dollar of a parcel that is sold out. *)

\* What was entered, more closely: a statement a year, payments to who was on the
\* register by then, costs and rates that divide by the units of a parcel.
CgtSources ==
    /\ \A s, t \in statements : s.year = t.year => s = t
    /\ \A s \in statements : s.rate \in StatementRates
    /\ \A pay \in payments : pay.date \in CgtDay /\ pay.record <= pay.date
    /\ \A p \in Bought : /\ parcels[p].units \in LotUnits
                         /\ \E c \in Int : parcels[p].cost = c * parcels[p].units

\* What falls on a day: what comes off the cost of a cohort's units, or is paid for
\* a right they had.
DayPaid(p, c, d) == RocReduction(p, c, d) + RightsEnded(p, c, d)
DayTakes(p, c, events, d) == AmitReduction(p, c.units, c.left, events, d) + DayPaid(p, c, d)

\* All of it whole amounts.
LEMMA DayTypes ==
    ASSUME CgtInv, NEW p \in CgtParcels, NEW c \in Cohort,
           NEW events \in SUBSET Event, IsFiniteSet(events), NEW d
    PROVE  /\ AmitReduction(p, c.units, c.left, events, d) \in Int
           /\ RocReduction(p, c, d) \in Int
           /\ RightsEnded(p, c, d) \in Int
<1>1. c.units \in Nat /\ c.left \in Int
  BY DEF Cohort
<1>2. AmitReduction(p, c.units, c.left, events, d) \in Int
  BY <1>1, AmitReductionInt
<1>3. RocReduction(p, c, d) \in Int
  <2>1. PaymentsOn(p, d) \in SUBSET payments
    BY DEF PaymentsOn
  <2>2. Paid(PaymentsOn(p, d), c.units) \in Int
    BY <1>1, <2>1, PaidInt
  <2> QED
    BY <2>2 DEF RocReduction
<1>4. RightsEnded(p, c, d) \in Int
  <2>1. PICK pays \in SUBSET payments :
          pays = {pay \in PaymentsOn(p, d) : pay.record # NoRecord
                                             /\ Settled(c.left) > pay.record}
    BY DEF PaymentsOn
  <2>2. Paid(pays, c.units) \in Int
    BY <1>1, PaidInt
  <2> QED
    BY <2>1, <2>2 DEF RightsEnded
<1> QED
  BY <1>2, <1>3, <1>4

\* No payments pay nothing.
LEMMA NothingPaid == \A units : Paid({}, units) = 0
<1> SUFFICES ASSUME NEW units PROVE Paid({}, units) = 0
  OBVIOUS
<1>1. PICK f : f = [g \in {} |-> g.amount]
  OBVIOUS
<1>2. Paid({}, units) = Total({})
  BY DEF Paid
<1>3. Total({}) = SumOver(f, {})
  BY <1>1 DEF Total
<1> QED
  BY <1>2, <1>3, SumEmpty

\* Who is entitled to a payment had the parcel by then.
LEMMA EntitledBy ==
    ASSUME CgtInv, CgtSources, NEW p \in CgtParcels, NEW d \in Int, ~(parcels[p].day <= d)
    PROVE  PaymentsOn(p, d) = {}
<1>1. SUFFICES ASSUME NEW pay \in PaymentsOn(p, d) PROVE FALSE
  OBVIOUS
<1>2. pay \in payments /\ pay.date = d /\ Entitled(p, pay)
  BY DEF PaymentsOn
<1>3. PICK bought \in Int, lag \in Nat, rec \in Int :
        bought = parcels[p].day /\ lag = SettleLag /\ rec = pay.record
  <2>1. parcels[p].day \in Int
    BY DEF CgtInv
  <2>2. pay.record \in Int
    BY <1>2 DEF CgtInv
  <2>3. SettleLag \in Nat
    BY CgtAssumption
  <2> QED
    BY <2>1, <2>2, <2>3
<1>4. rec <= d
  BY <1>2, <1>3 DEF CgtSources
<1>5. bought + lag <= IF rec = NoRecord THEN d ELSE rec
  BY <1>2, <1>3 DEF Entitled, Settled
<1>6. bought + lag <= d
  BY <1>4, <1>5
<1>7. bought <= d
  BY <1>3, <1>6
<1> QED
  BY <1>3, <1>7

\* Both walks take the same off the cost of units that left.
LEMMA DayLeaves ==
    ASSUME CgtInv, CgtSources, NEW p \in Bought, NEW c \in Cohort, c.left > 0,
           NEW events \in SUBSET Event, IsFiniteSet(events),
           NEW before \in [left : Int, gains : Gains], NEW d \in Int
    PROVE  GainsAfter(p, c, events, before, d).left
             = CostAfter(p, c.units, events, c.left, before.left, d)
<1>1. p \in CgtParcels /\ c.left \in Int /\ c.units \in Nat
  BY DEF Bought, Cohort
<1>2. PICK amit \in Int, roc \in Int :
        amit = AmitReduction(p, c.units, c.left, events, d) /\ roc = RocReduction(p, c, d)
  BY <1>1, DayTypes
<1>3. PICK x \in Int : x = before.left - amit
  OBVIOUS
<1>4. PICK after \in Int : after = Most(x, 0) /\ after >= 0
  <2>1. PICK z \in Int : z = 0
    OBVIOUS
  <2>2. Most(x, z) \in Int /\ Most(x, z) = IF x <= z THEN z ELSE x
    BY LeastMost
  <2> QED
    BY <2>1, <2>2
<1>5. GainsAfter(p, c, events, before, d).left = Most(after - roc, 0)
  BY <1>2, <1>3, <1>4 DEF GainsAfter
<1>6. CostAfter(p, c.units, events, c.left, before.left, d)
        = IF d > c.left THEN after ELSE Most(after - Paid(PaymentsOn(p, d), c.units), 0)
  BY <1>2, <1>3, <1>4 DEF CostAfter
<1>7. CASE d > c.left
  <2>1. c.left # StillHeld /\ ~(c.left >= d)
    BY <1>1, <1>7 DEF StillHeld
  <2>2. roc = 0
    BY <1>2, <2>1 DEF RocReduction
  <2>3. PICK z \in Int, w \in Int : z = 0 /\ w = after
    OBVIOUS
  <2>4. Most(w, z) = IF w <= z THEN z ELSE w
    BY LeastMost
  <2>5. w = after - roc
    BY <2>2, <2>3
  <2>6. Most(w, z) = after
    BY <1>4, <2>3, <2>4
  <2> QED
    BY <1>5, <1>6, <1>7, <2>3, <2>5, <2>6
<1>8. CASE ~(d > c.left)
  <2>1. c.left >= d
    BY <1>1, <1>8
  <2>2. roc = Paid(PaymentsOn(p, d), c.units)
    <3>1. CASE parcels[p].day <= d
      BY <1>2, <2>1, <3>1 DEF RocReduction
    <3>2. CASE ~(parcels[p].day <= d)
      <4>1. PaymentsOn(p, d) = {}
        BY <1>1, <3>2, EntitledBy
      <4> QED
        BY <1>2, <3>2, <4>1, NothingPaid DEF RocReduction
    <3> QED
      BY <3>1, <3>2
  <2> QED
    BY <1>5, <1>6, <1>8, <2>2
<1> QED
  BY <1>7, <1>8

\* One item more.
LEMMA TotalMore ==
    ASSUME NEW items, Whole(items), NEW g, g \notin items, g.amount \in Int
    PROVE  /\ Whole(items \union {g}) /\ Total(items) \in Int
           /\ Total(items \union {g}) = Total(items) + g.amount
<1>1. PICK A : A = items \union {g}
  OBVIOUS
<1>2. Whole(A)
  BY <1>1, FS_AddElement DEF Whole
<1>3. PICK f : f = [x \in A |-> x.amount]
  OBVIOUS
<1>4. PICK h : h = [x \in items |-> x.amount]
  OBVIOUS
<1>5. IsFiniteSet(A) /\ IsFiniteSet(items) /\ \A x \in A : f[x] \in Int
  BY <1>2, <1>3 DEF Whole
<1>6. g \in A /\ A \ {g} = items /\ f[g] = g.amount /\ \A x \in items : f[x] = h[x]
  BY <1>1, <1>3, <1>4
<1>7. SumOver(f, A) = f[g] + SumOver(f, A \ {g})
  BY <1>5, <1>6, SumSplit
<1>8. SumOver(f, items) = SumOver(h, items)
  BY <1>5, <1>6, SumCong
<1>9. SumOver(h, items) \in Int
  BY <1>4, SumInt DEF Whole
<1>10. Total(A) = SumOver(f, A) /\ Total(items) = SumOver(h, items)
  BY <1>3, <1>4 DEF Total
<1>11. PICK a \in Int, b \in Int : a = g.amount /\ b = SumOver(h, items)
  BY <1>9
<1>12. a + b = b + a
  OBVIOUS
<1>13. SumOver(f, A) = a + b
  BY <1>6, <1>7, <1>8, <1>11
<1>14. SumOver(f, A) = Total(items) + g.amount
  BY <1>10, <1>11, <1>12, <1>13
<1> QED
  BY <1>1, <1>2, <1>9, <1>10, <1>14

\* No items come to nothing.
LEMMA TotalNone == Total({}) = 0
<1>1. PICK f : f = [g \in {} |-> g.amount]
  OBVIOUS
<1>2. Total({}) = SumOver(f, {})
  BY <1>1 DEF Total
<1> QED
  BY <1>2, SumEmpty

\* What days up to d come to.
LEMMA SumDays ==
    ASSUME NEW N \in Nat, NEW f, \A k \in 1 .. N : f[k] \in Int, NEW d \in 1 .. N
    PROVE  SumOver(f, 1 .. d) = SumOver(f, 1 .. (d - 1)) + f[d] /\ SumOver(f, 1 .. (d - 1)) \in Int
<1>1. PICK S, R : S = 1 .. d /\ R = 1 .. (d - 1)
  OBVIOUS
<1>2. d \in S /\ R = S \ {d} /\ \A k \in S : k \in 1 .. N
  BY <1>1
<1>3. IsFiniteSet(S) /\ IsFiniteSet(R)
  BY <1>1, FS_Interval
<1>4. \A k \in S : f[k] \in Int
  BY <1>2
<1>5. SumOver(f, S) = f[d] + SumOver(f, R)
  <2>1. PICK x \in S : x = d
    BY <1>2
  <2>2. SumOver(f, S) = f[x] + SumOver(f, S \ {x})
    BY <1>3, <1>4, SumSplit
  <2>3. SumOver(f, S) = f[d] + SumOver(f, S \ {d})
    BY <2>1, <2>2
  <2> QED
    BY <1>2, <2>3
<1>6. SumOver(f, R) \in Int
  BY <1>2, <1>3, <1>4, SumInt
<1>7. PICK a \in Int, b \in Int : a = f[d] /\ b = SumOver(f, R)
  BY <1>2, <1>4, <1>6
<1>8. a + b = b + a
  OBVIOUS
<1> QED
  BY <1>1, <1>5, <1>6, <1>7, <1>8

\* The items that the gains of a cohort make.
ItemOf(p, c, g) == [parcel |-> p, cohort |-> c.sell, day |-> g.day, amount |-> g.amount]
ItemsOf(p, c, gains) == {ItemOf(p, c, gains[i]) : i \in DOMAIN gains}

\* One gain more is one item more.
LEMMA ItemsMore ==
    ASSUME NEW p, NEW c, NEW gains \in Gains, NEW g
    PROVE  ItemsOf(p, c, Append(gains, g)) = ItemsOf(p, c, gains) \union {ItemOf(p, c, g)}
<1>1. PICK n \in Nat : n = Len(gains)
  BY DEF Gains
<1>2. PICK M : M = Append(gains, g)
  OBVIOUS
<1>3. DOMAIN M = 1 .. (n + 1) /\ DOMAIN gains = 1 .. n
  BY <1>1, <1>2 DEF Gains
<1>4. M[n + 1] = g /\ \A i \in 1 .. n : M[i] = gains[i]
  BY <1>1, <1>2 DEF Gains
<1>5. 1 .. (n + 1) = (1 .. n) \union {n + 1}
  OBVIOUS
<1>6. ItemsOf(p, c, M) = {ItemOf(p, c, M[i]) : i \in (1 .. n) \union {n + 1}}
  BY <1>3, <1>5 DEF ItemsOf
<1>7. ItemsOf(p, c, gains) = {ItemOf(p, c, M[i]) : i \in 1 .. n}
  BY <1>3, <1>4 DEF ItemsOf
<1> QED
  BY <1>2, <1>4, <1>6, <1>7

\* The gains up to day d and what is left of the cost: the cost less what the days
\* took of it.
Accounted(p, c, K, w, r, d) ==
    /\ Whole(ItemsOf(p, c, r.gains))
    /\ \A g \in ItemsOf(p, c, r.gains) : g.day <= d
    /\ Total(ItemsOf(p, c, r.gains)) = (r.left - K) + SumOver(w, 1 .. d)

\* What a day takes of the cost past nil is a gain.
LEMMA DayAccounted ==
    ASSUME CgtInv, NEW p \in Bought, NEW c \in Cohort,
           NEW events \in SUBSET Event, IsFiniteSet(events),
           NEW before \in [left : Int, gains : Gains], NEW K \in Int, NEW N \in Nat, NEW d \in 1 .. N,
           NEW w, \A k \in 1 .. N : w[k] \in Int, w[d] = DayTakes(p, c, events, d),
           Accounted(p, c, K, w, before, d - 1)
    PROVE  Accounted(p, c, K, w, GainsAfter(p, c, events, before, d), d)
<1>1. p \in CgtParcels /\ c.left \in Int /\ c.units \in Nat /\ d \in Int
  BY DEF Bought, Cohort
<1>2. PICK amit \in Int, roc \in Int, ended \in Int :
        /\ amit = AmitReduction(p, c.units, c.left, events, d)
        /\ roc = RocReduction(p, c, d) /\ ended = RightsEnded(p, c, d)
  BY <1>1, DayTypes
<1>3. PICK left \in Int, gains \in Gains : left = before.left /\ gains = before.gains
  OBVIOUS
<1>4. \A i \in DOMAIN gains : gains[i].day \in Int
  <2>1. PICK G : G = [day : Int, amount : Int]
    OBVIOUS
  <2>2. gains \in Seq(G)
    BY <2>1 DEF Gains
  <2>3. \A i \in DOMAIN gains : gains[i] \in G
    BY <2>2
  <2> QED
    BY <2>1, <2>3
<1>5. ASSUME NEW x \in Int, NEW y \in Int
      PROVE  Most(x - y, 0) \in Int /\ Most(x - y, 0) = (x - y) + Most(y - x, 0)
  <2>1. PICK u \in Int, v \in Int, z \in Int : u = x - y /\ v = y - x /\ z = 0 /\ v = -u
    OBVIOUS
  <2>2. /\ Most(u, z) = IF u <= z THEN z ELSE u
        /\ Most(v, z) = IF v <= z THEN z ELSE v
    BY LeastMost
  <2>3. Most(u, z) \in Int /\ Most(u, z) = u + Most(v, z)
    <3>1. CASE u <= 0
      BY <2>1, <2>2, <3>1
    <3>2. CASE u > 0
      BY <2>1, <2>2, <3>2
    <3> QED
      BY <3>1, <3>2
  <2> QED
    BY <2>1, <2>3
<1>6. PICK after \in Int, past \in Int :
        after = Most(left - amit, 0) /\ past = Most(amit - left, 0) /\ after = (left - amit) + past
  <2>1. /\ Most(left - amit, 0) \in Int
        /\ Most(left - amit, 0) = (left - amit) + Most(amit - left, 0)
    BY <1>5
  <2>2. Most(amit - left, 0) \in Int
    BY <1>5
  <2> QED
    BY <2>1, <2>2
<1>7. PICK rest \in Int, over \in Int :
        rest = Most(after - roc, 0) /\ over = Most(roc - after, 0) /\ rest = (after - roc) + over
  <2>1. /\ Most(after - roc, 0) \in Int
        /\ Most(after - roc, 0) = (after - roc) + Most(roc - after, 0)
    BY <1>5
  <2>2. Most(roc - after, 0) \in Int
    BY <1>5
  <2> QED
    BY <2>1, <2>2
<1>8. PICK g \in Int : g = past + over + ended
  OBVIOUS
<1>9. PICK next : next = GainsAfter(p, c, events, before, d)
  OBVIOUS
<1>10. /\ next.left = rest
      /\ next.gains = IF g = 0 THEN gains ELSE Append(gains, [day |-> d, amount |-> g])
  BY <1>2, <1>3, <1>6, <1>7, <1>8, <1>9 DEF GainsAfter
<1>11. PICK t \in Int : t = w[d] /\ t = amit + (roc + ended)
  BY <1>2 DEF DayTakes, DayPaid
<1>12. PICK s \in Int : s = SumOver(w, 1 .. (d - 1)) /\ SumOver(w, 1 .. d) = s + t
  BY <1>11, SumDays
<1>13. PICK items : items = ItemsOf(p, c, gains)
  OBVIOUS
<1>14. /\ Whole(items) /\ \A x \in items : x.day <= d - 1
       /\ Total(items) = (left - K) + s
  BY <1>3, <1>12, <1>13 DEF Accounted
<1>15. PICK j \in Int : j = (left - K) + s
  OBVIOUS
<1>16. j + g = (rest - K) + (s + t)
  BY <1>6, <1>7, <1>8, <1>11, <1>15
<1>17. CASE g = 0
  <2>1. ItemsOf(p, c, next.gains) = items
    BY <1>10, <1>13, <1>17
  <2>2. \A x \in items : x.day <= d
    <3> SUFFICES ASSUME NEW x \in items PROVE x.day <= d
      OBVIOUS
    <3>1. PICK i \in DOMAIN gains : x.day = gains[i].day
      BY <1>13 DEF ItemsOf, ItemOf
    <3>2. gains[i].day \in Int
      BY <1>4, <3>1
    <3>3. x.day <= d - 1
      BY <1>14
    <3> QED
      BY <3>1, <3>2, <3>3
  <2>3. Total(items) = (rest - K) + (s + t)
    BY <1>14, <1>15, <1>16, <1>17
  <2> QED
    BY <1>9, <1>10, <1>12, <1>14, <2>1, <2>2, <2>3 DEF Accounted
<1>18. CASE g # 0
  <2>1. PICK x : x = [day |-> d, amount |-> g]
    OBVIOUS
  <2>2. PICK new : new = ItemOf(p, c, x)
    OBVIOUS
  <2>3. new.day = d /\ new.amount = g
    BY <2>1, <2>2 DEF ItemOf
  <2>4. ItemsOf(p, c, next.gains) = items \union {new}
    BY <1>10, <1>13, <1>18, <2>1, <2>2, ItemsMore
  <2>5. \A y \in items : y.day \in Int /\ y.day <= d - 1
    <3> SUFFICES ASSUME NEW y \in items PROVE y.day \in Int
      BY <1>14
    <3>1. PICK i \in DOMAIN gains : y.day = gains[i].day
      BY <1>13 DEF ItemsOf, ItemOf
    <3>2. gains[i].day \in Int
      BY <1>4, <3>1
    <3> QED
      BY <3>1, <3>2
  <2>6. new \notin items
    BY <2>3, <2>5
  <2>7. \A y \in items \union {new} : y.day <= d
    BY <2>3, <2>5
  <2>8. Whole(items \union {new}) /\ Total(items \union {new}) = Total(items) + g
    BY <1>14, <2>3, <2>6, TotalMore
  <2>9. Total(items \union {new}) = (rest - K) + (s + t)
    BY <1>14, <1>15, <1>16, <2>8
  <2> QED
    BY <1>9, <1>10, <1>12, <2>4, <2>7, <2>8, <2>9 DEF Accounted
<1> QED
  BY <1>17, <1>18

\* What the days take of the cost of a cohort's units.
Takings(p, c, events) == [d \in 1 .. LastDay |-> DayTakes(p, c, events, d)]

\* A cohort's gains and what is left of its cost when it goes: all that fell on its days.
LEMMA CohortComes ==
    ASSUME CgtInv, CgtSources, NEW p \in Bought, NEW c \in Cohort, c.left > 0,
           NEW events \in SUBSET Event, IsFiniteSet(events)
    PROVE  Total(CohortGains(p, c, events))
             = (AdjustedCostBase(p, c.units, events, c.left) - ProratedCost(p, c.units))
               + SumOver(Takings(p, c, events), 1 .. LastDay)
<1>1. PICK N \in Nat, K \in Int : N = LastDay /\ K = ProratedCost(p, c.units)
  BY LastDayNat, ProratedInt DEF Cohort
<1>2. PICK w : w = Takings(p, c, events)
  OBVIOUS
<1>3. /\ N \in Nat /\ K \in Int
      /\ N = LastDay /\ K = ProratedCost(p, c.units) /\ w = Takings(p, c, events)
  BY <1>1, <1>2
<1>4. c.units \in Nat /\ c.left \in Int /\ p \in CgtParcels
  BY DEF Cohort, Bought
<1>5. \A k \in 1 .. N : w[k] = DayTakes(p, c, events, k) /\ w[k] \in Int
  <2> SUFFICES ASSUME NEW k \in 1 .. N
               PROVE  w[k] = DayTakes(p, c, events, k) /\ w[k] \in Int
    OBVIOUS
  <2>1. PICK amit \in Int, roc \in Int, ended \in Int :
          /\ amit = AmitReduction(p, c.units, c.left, events, k)
          /\ roc = RocReduction(p, c, k) /\ ended = RightsEnded(p, c, k)
    BY <1>4, DayTypes
  <2>2. w[k] = DayTakes(p, c, events, k)
    BY <1>3 DEF Takings
  <2>3. DayTakes(p, c, events, k) = amit + (roc + ended)
    BY <2>1 DEF DayTakes, DayPaid
  <2> QED
    BY <2>2, <2>3
<1>6. PICK r : /\ GainsWalk(r, p, c, events)
               /\ NonDisposalGains(p, c, events) = r[N].gains
  BY <1>3, NonDisposalIs
<1>7. PICK q : /\ Costs(q, p, c.units, events, c.left)
               /\ AdjustedCostBase(p, c.units, events, c.left) = q[N]
               /\ \A d \in 0 .. N : q[d] \in Int
  BY <1>3, <1>4, CostBaseIs
<1>8. PICK S : S = {d \in 0 .. N : r[d].left = q[d] /\ Accounted(p, c, K, w, r[d], d)}
  OBVIOUS
<1>9. 0 \in S
  <2>1. r[0] = [left |-> K, gains |-> <<>>]
    BY <1>3, <1>6 DEF GainsWalk, CohortCost
  <2>2. q[0] = K
    BY <1>3, <1>7 DEF Costs
  <2>3. ItemsOf(p, c, <<>>) = {}
    BY DEF ItemsOf
  <2>4. Whole({}) /\ Total({}) = 0
    BY TotalNone, FS_EmptySet DEF Whole
  <2>5. SumOver(w, 1 .. 0) = 0
    <3>1. 1 .. 0 = {}
      OBVIOUS
    <3> QED
      BY <3>1, SumEmpty
  <2>6. 0 = (K - K) + 0
    OBVIOUS
  <2>7. ItemsOf(p, c, r[0].gains) = {} /\ r[0].left = K
    BY <2>1, <2>3
  <2>8. Total(ItemsOf(p, c, r[0].gains)) = (r[0].left - K) + SumOver(w, 1 .. 0)
    BY <2>4, <2>5, <2>6, <2>7
  <2>9. Accounted(p, c, K, w, r[0], 0)
    BY <2>4, <2>7, <2>8 DEF Accounted
  <2> QED
    BY <1>8, <2>1, <2>2, <2>9
<1>10. ASSUME NEW d \in 1 .. N, d - 1 \in S PROVE d \in S
  <2>1. d \in 0 .. N /\ d # 0 /\ d - 1 \in 0 .. N
    OBVIOUS
  <2>2. r[d - 1].left = q[d - 1] /\ Accounted(p, c, K, w, r[d - 1], d - 1)
    BY <1>8, <1>10
  <2>3. PICK before \in [left : Int, gains : Gains] : before = r[d - 1]
    BY <1>3, <1>6, <2>1 DEF GainsWalk
  <2>4. r[d] = GainsAfter(p, c, events, before, d)
    BY <1>3, <1>6, <2>3 DEF GainsWalk
  <2>5. q[d] = CostAfter(p, c.units, events, c.left, before.left, d)
    BY <1>3, <1>7, <2>1, <2>2, <2>3 DEF Costs
  <2>6. r[d].left = q[d]
    BY <2>4, <2>5, DayLeaves
  <2>7. Accounted(p, c, K, w, r[d], d)
    BY <1>5, <2>2, <2>3, <2>4, DayAccounted
  <2> QED
    BY <1>8, <2>1, <2>6, <2>7
<1>11. N \in S
  <2>1. N \in 0 .. N /\ \A d \in 0 .. N : d \in S
    BY <1>9, <1>10, Climb
  <2> QED
    BY <2>1
<1>12. CohortGains(p, c, events) = ItemsOf(p, c, r[N].gains)
  BY <1>6 DEF CohortGains, ItemsOf, ItemOf
<1> QED
  BY <1>3, <1>7, <1>8, <1>11, <1>12 DEF Accounted

\* What a set of payments pays, as a sum.
LEMMA PaidIs ==
    ASSUME CgtInv, NEW pays \in SUBSET payments, NEW units \in Nat,
           NEW f, \A pay \in pays : f[pay] = pay.rate * units
    PROVE  Paid(pays, units) = SumOver(f, pays)
<1>1. IsFiniteSet(pays)
  BY FS_Subset DEF CgtInv
<1>2. \A pay \in pays : pay.rate \in Int
  BY DEF CgtInv
<1>3. \A pay \in pays : pay.rate * units \in Int
  BY <1>2
<1>4. PICK h : h = [pay \in pays |-> [pay |-> pay, amount |-> pay.rate * units]]
  OBVIOUS
<1>5. \A pay \in pays : f[pay] \in Int /\ h[pay].amount = f[pay]
  BY <1>3, <1>4
<1>6. \A x, y \in pays : h[x] = h[y] => x = y
  BY <1>4
<1>7. Total({h[pay] : pay \in pays}) = SumOver(f, pays)
  BY <1>1, <1>5, <1>6, MadeSum
<1>8. Paid(pays, units) = Total({h[pay] : pay \in pays})
  BY <1>4 DEF Paid
<1> QED
  BY <1>7, <1>8

\* The registry pays on the units of a cohort.
Registered(p, c, pay) ==
    LET fixed == IF pay.record = NoRecord THEN pay.date ELSE pay.record
    IN  /\ Settled(parcels[p].day) <= fixed
        /\ \/ c.left = StillHeld \/ c.left >= pay.date
           \/ pay.record # NoRecord /\ Settled(c.left) > fixed

\* The payments of a day.
PaidThen(d) == {pay \in payments : pay.date = d}

\* What it pays on a day is what comes off the cost, or ends a right.
LEMMA DayPays ==
    ASSUME CgtInv, CgtSources, NEW p \in Bought, NEW c \in Cohort, c.left > 0, NEW d \in Int,
           NEW f, f = [pay \in payments |-> PaidOn(p, c, pay)]
    PROVE  /\ DayPaid(p, c, d) = SumOver(f, PaidThen(d))
           /\ \A pay \in payments : f[pay] \in Int
<1>1. p \in CgtParcels /\ c.left \in Int /\ c.units \in Nat /\ c.left # StillHeld
  BY DEF Bought, Cohort, StillHeld
<1>2. PICK D : D = PaidThen(d)
  OBVIOUS
<1>3. PICK Q : Q = {pay \in D : Registered(p, c, pay)}
  OBVIOUS
<1>4. D \in SUBSET payments /\ Q \in SUBSET payments /\ Q \in SUBSET D
  BY <1>2, <1>3 DEF PaidThen
<1>5. \A pay \in payments : f[pay] = IF Registered(p, c, pay) THEN pay.rate * c.units ELSE 0
  BY DEF PaidOn, Registered
<1>6. \A pay \in payments : f[pay] \in Int
  <2> SUFFICES ASSUME NEW pay \in payments PROVE f[pay] \in Int
    OBVIOUS
  <2>1. PICK r \in Int, n \in Int : r = pay.rate /\ n = c.units
    BY <1>1 DEF CgtInv
  <2>2. r * n \in Int
    OBVIOUS
  <2> QED
    BY <1>5, <2>1, <2>2
<1>7. Paid(Q, c.units) = SumOver(f, Q)
  <2>1. \A pay \in Q : f[pay] = pay.rate * c.units
    BY <1>3, <1>4, <1>5
  <2> QED
    BY <1>1, <1>4, <2>1, PaidIs
<1>8. SumOver(f, D) = SumOver(f, Q)
  <2>1. IsFiniteSet(D)
    BY <1>4, FS_Subset DEF CgtInv
  <2>2. \A pay \in D : f[pay] \in Int
    BY <1>4, <1>6
  <2>3. \A pay \in D \ Q : f[pay] = 0
    BY <1>3, <1>4, <1>5
  <2> QED
    BY <1>4, <2>1, <2>2, <2>3, SumSupport
<1>9. DayPaid(p, c, d) = Paid(Q, c.units)
  <2>1. CASE c.left >= d
    <3>1. Q = PaymentsOn(p, d)
      BY <1>2, <1>3, <2>1 DEF PaidThen, Registered, PaymentsOn, Entitled
    <3>2. RightsEnded(p, c, d) = 0
      BY <2>1 DEF RightsEnded
    <3>3. RocReduction(p, c, d) = Paid(PaymentsOn(p, d), c.units)
      <4>1. CASE parcels[p].day <= d
        BY <2>1, <4>1 DEF RocReduction
      <4>2. CASE ~(parcels[p].day <= d)
        BY <1>1, <4>2, EntitledBy, NothingPaid DEF RocReduction
      <4> QED
        BY <4>1, <4>2
    <3>4. PICK x \in Int : x = RocReduction(p, c, d)
      <4>1. PaymentsOn(p, d) \in SUBSET payments
        BY DEF PaymentsOn
      <4> QED
        BY <1>1, <3>3, <4>1, PaidInt
    <3>5. x + 0 = x
      OBVIOUS
    <3> QED
      BY <3>1, <3>2, <3>3, <3>4, <3>5 DEF DayPaid
  <2>2. CASE ~(c.left >= d)
    <3>1. RocReduction(p, c, d) = 0
      BY <1>1, <2>2 DEF RocReduction
    <3>2. Q = {pay \in PaymentsOn(p, d) : pay.record # NoRecord
                                          /\ Settled(c.left) > pay.record}
      BY <1>1, <1>2, <1>3, <2>2 DEF PaidThen, Registered, PaymentsOn, Entitled
    <3>3. RightsEnded(p, c, d) = Paid(Q, c.units)
      BY <1>1, <2>2, <3>2 DEF RightsEnded
    <3>4. PICK x \in Int : x = Paid(Q, c.units)
      BY <1>1, <1>4, PaidInt
    <3>5. 0 + x = x
      OBVIOUS
    <3> QED
      BY <3>1, <3>3, <3>4, <3>5 DEF DayPaid
  <2> QED
    BY <2>1, <2>2
<1> QED
  BY <1>2, <1>6, <1>7, <1>8, <1>9

\* The days of the reports are those of their years.
LEMMA DaysInYears ==
    /\ \A d \in CgtDay : d \in 1 .. LastDay
    /\ \A y \in Fys : FyEnd(y) \in 1 .. LastDay
<1>1. PICK f \in Nat \ {0}, m \in Nat \ {0} : f = FyLength /\ m = CgtDays
  BY CgtAssumption
<1>2. PICK x \in Int : x = m - 1
  OBVIOUS
<1>3. PICK q \in Int : q = x \div f /\ x < f * q + f
  BY <1>1, QuotientFloor
<1>4. PICK n \in Nat \ {0} : n = FyOf(CgtDays) /\ Fys = 1 .. n
  BY SomeYears
<1>5. n = q + 1
  BY <1>1, <1>2, <1>3, <1>4 DEF FyOf
<1>6. n * f = f * q + f
  BY <1>5
<1>7. PICK l \in Int : l = n * f
  OBVIOUS
<1>8. LastDay = l /\ m <= l
  <2>1. LastDay = l
    BY <1>1, <1>4, <1>7 DEF LastDay, FyEnd
  <2>2. m - 1 < l
    BY <1>2, <1>3, <1>6, <1>7
  <2> QED
    BY <2>1, <2>2
<1>9. \A d \in CgtDay : d \in 1 .. LastDay
  BY <1>1, <1>8 DEF CgtDay
<1>10. ASSUME NEW y \in Fys PROVE FyEnd(y) \in 1 .. LastDay
  <2>1. y \in Int /\ 1 <= y /\ y <= n
    BY <1>4
  <2>2. PICK a \in Int, k \in Int : a = y * f /\ k = n - y /\ k >= 0
    BY <2>1
  <2>3. k * f >= 0 /\ y * f >= 1
    BY <2>1, <2>2
  <2>4. l = a + k * f
    BY <1>7, <2>1, <2>2
  <2>5. a >= 1 /\ a <= l
    BY <2>2, <2>3, <2>4
  <2>6. FyEnd(y) = a
    BY <1>1, <2>2 DEF FyEnd
  <2> QED
    BY <1>8, <2>5, <2>6
<1> QED
  BY <1>9, <1>10

\* So all that is paid on a cohort is the days' together.
LEMMA PaymentsCome ==
    ASSUME CgtInv, CgtSources, NEW p \in Bought, NEW c \in Cohort, c.left > 0,
           NEW w, \A d \in 1 .. LastDay : w[d] = DayPaid(p, c, d)
    PROVE  /\ SumOver(w, 1 .. LastDay)
                = Total({[pay |-> pay, amount |-> PaidOn(p, c, pay)] : pay \in payments})
           /\ \A d \in 1 .. LastDay : w[d] \in Int
<1>1. PICK N \in Nat : N = LastDay
  BY LastDayNat
<1>2. PICK f : f = [pay \in payments |-> PaidOn(p, c, pay)]
  OBVIOUS
<1>3. PICK D : D = 1 .. N
  OBVIOUS
<1>4. PICK F : F = [d \in D |-> PaidThen(d)]
  OBVIOUS
<1>5. IsFiniteSet(payments) /\ IsFiniteSet(D) /\ \A d \in D : d \in Int
  BY <1>3, FS_Interval DEF CgtInv
<1>6. \A d \in D : w[d] = SumOver(f, F[d]) /\ \A pay \in payments : f[pay] \in Int
  BY <1>1, <1>2, <1>3, <1>4, <1>5, DayPays
<1>7. \A d \in D : IsFiniteSet(F[d]) /\ F[d] \subseteq payments
  BY <1>4, <1>5, FS_Subset DEF PaidThen
<1>8. NoneShared(F, D)
  BY <1>4 DEF NoneShared, PaidThen
<1>9. AllOf(F, D) = payments
  <2>1. AllOf(F, D) \subseteq payments
    BY <1>7 DEF AllOf
  <2>2. \A pay \in payments : pay.date \in D /\ pay \in F[pay.date]
    BY <1>1, <1>3, <1>4, DaysInYears DEF PaidThen, CgtSources
  <2> QED
    BY <2>1, <2>2 DEF AllOf
<1>10. SumsAre(f, F, w, D)
  BY <1>6, <1>7 DEF SumsAre
<1>11. SumOver(f, payments) = SumOver(w, D)
  BY <1>5, <1>8, <1>9, <1>10, SumOfParts
<1>12. \A pay \in payments : f[pay] \in Int
  BY <1>2, DayPays
<1>13. PICK h : h = [pay \in payments |-> [pay |-> pay, amount |-> f[pay]]]
  OBVIOUS
<1>14. Total({h[pay] : pay \in payments}) = SumOver(f, payments)
  <2>1. \A pay \in payments : f[pay] \in Int /\ h[pay].amount = f[pay]
    BY <1>12, <1>13
  <2>2. \A x, y \in payments : h[x] = h[y] => x = y
    BY <1>13
  <2> QED
    BY <1>5, <2>1, <2>2, MadeSum
<1>15. {h[pay] : pay \in payments}
         = {[pay |-> pay, amount |-> PaidOn(p, c, pay)] : pay \in payments}
  BY <1>2, <1>13
<1>16. \A d \in D : w[d] \in Int
  BY <1>6, <1>7, <1>12, SumInt
<1> QED
  BY <1>1, <1>3, <1>11, <1>14, <1>15, <1>16

\* What statement e takes of each unit's cost goes by the day it ends.
LEMMA ReductionsCome ==
    ASSUME CgtInv, NEW p \in Bought, NEW c \in Cohort,
           NEW events \in SUBSET Event, IsFiniteSet(events), \A e \in events : e.year \in Fys,
           NEW w, \A d \in 1 .. LastDay : w[d] = AmitReduction(p, c.units, c.left, events, d),
           NEW f, \A e \in events :
                    f[e] = ReductionForUnits(e, parcels[p].units, c.units, c.left)
    PROVE  /\ SumOver(w, 1 .. LastDay) = SumOver(f, events)
           /\ \A e \in events : f[e] \in Int
<1>1. PICK N \in Nat : N = LastDay
  BY LastDayNat
<1>2. PICK D : D = 1 .. N
  OBVIOUS
<1>3. N \in Nat /\ N = LastDay /\ D = 1 .. N
  BY <1>1, <1>2
<1>4. PICK F : F = [d \in D |-> {e \in events : FyEnd(e.year) = d}]
  OBVIOUS
<1>5. p \in CgtParcels /\ c.left \in Int /\ c.units \in Nat /\ parcels[p].units \in Nat
  BY DEF Bought, Cohort, CgtInv
<1>6. \A e \in events : f[e] \in Int
  BY <1>5, ReductionFacts
<1>7. \A d \in D : IsFiniteSet(F[d]) /\ F[d] \subseteq events
  BY <1>4, FS_Subset
<1>8. ASSUME NEW d \in D PROVE w[d] = SumOver(f, F[d])
  <2>1. PICK E : E = F[d]
    OBVIOUS
  <2>2. PICK h : h = [e \in E |-> [event |-> e,
                          amount |-> ReductionForUnits(e, parcels[p].units, c.units, c.left)]]
    OBVIOUS
  <2>3. \A e \in E : f[e] \in Int /\ h[e].amount = f[e]
    BY <1>6, <1>7, <2>1, <2>2
  <2>4. \A x, y \in E : h[x] = h[y] => x = y
    BY <2>2
  <2>5. Total({h[e] : e \in E}) = SumOver(f, E)
    BY <1>7, <2>1, <2>3, <2>4, MadeSum
  <2>6. E = {e \in events : FyEnd(e.year) = d}
    BY <1>4, <2>1
  <2>7. AmitReduction(p, c.units, c.left, events, d) = Total({h[e] : e \in E})
    BY <2>2, <2>6 DEF AmitReduction
  <2>8. w[d] = AmitReduction(p, c.units, c.left, events, d)
    BY <1>3
  <2> QED
    BY <2>1, <2>5, <2>7, <2>8
<1>9. NoneShared(F, D)
  BY <1>4 DEF NoneShared
<1>10. AllOf(F, D) = events
  <2>1. AllOf(F, D) \subseteq events
    BY <1>7 DEF AllOf
  <2>2. \A e \in events : FyEnd(e.year) \in D /\ e \in F[FyEnd(e.year)]
    BY <1>3, <1>4, DaysInYears
  <2> QED
    BY <2>1, <2>2 DEF AllOf
<1>11. SumsAre(f, F, w, D)
  BY <1>6, <1>7, <1>8 DEF SumsAre
<1>12. IsFiniteSet(D)
  BY <1>3, FS_Interval
<1>13. SumOver(f, events) = SumOver(w, D)
  BY <1>9, <1>10, <1>11, <1>12, SumOfParts
<1> QED
  BY <1>3, <1>6, <1>13

\* Amounts per unit divide by every count of units (CgtAssumption).
LEMMA EvenSpread ==
    ASSUME NEW r \in Int, r % 6 = 0, NEW g \in 1 .. 3
    PROVE  \E m \in Int : r = g * m /\ \A x \in Int : (r * x) \div g = m * x
<1>1. PICK t \in Int : r = 6 * t
  <2>1. r = 6 * (r \div 6) + (r % 6) /\ r \div 6 \in Int
    OBVIOUS
  <2> QED
    BY <2>1
<1>2. PICK m \in Int : r = g * m
  <2>1. CASE g = 1
    BY <2>1
  <2>2. CASE g = 2
    <3>1. 3 * t \in Int /\ r = 2 * (3 * t)
      BY <1>1
    <3> QED
      BY <2>2, <3>1
  <2>3. CASE g = 3
    <3>1. 2 * t \in Int /\ r = 3 * (2 * t)
      BY <1>1
    <3> QED
      BY <2>3, <3>1
  <2> QED
    BY <2>1, <2>2, <2>3
<1>3. ASSUME NEW x \in Int PROVE (r * x) \div g = m * x
  <2>1. PICK y \in Int : y = m * x
    OBVIOUS
  <2>2. r * x = g * y
    BY <1>2, <2>1
  <2>3. (g * y) \div g = y
    OBVIOUS
  <2> QED
    BY <2>1, <2>2, <2>3
<1> QED
  BY <1>2, <1>3

\* Spread evenly over a group of units, all of an amount is spread.
LEMMA SpreadAll ==
    ASSUME NEW J, IsFiniteSet(J), NEW u, \A j \in J : u[j] \in Nat,
           NEW g, g = SumOver(u, J), g \in 0 .. 3,
           NEW r \in Int, r % 6 = 0, NEW cover \in Nat, cover <= g,
           NEW f, \A j \in J : f[j] = IF g = 0 THEN 0 ELSE (r * cover * u[j]) \div g
    PROVE  SumOver(f, J) = r * cover /\ \A j \in J : f[j] \in Int
<1>1. CASE g = 0
  <2>1. cover = 0 /\ \A j \in J : f[j] = 0
    BY <1>1
  <2>2. SumOver(f, J) = 0
    BY <2>1, SumZero
  <2>3. r * 0 = 0
    OBVIOUS
  <2> QED
    BY <2>1, <2>2, <2>3
<1>2. CASE g # 0
  <2>1. PICK m \in Int : r = g * m /\ \A x \in Int : (r * x) \div g = m * x
    <3>1. g \in 1 .. 3
      BY <1>2
    <3> QED
      BY <3>1, EvenSpread
  <2>2. PICK k \in Int : k = m * cover
    OBVIOUS
  <2>3. ASSUME NEW j \in J PROVE u[j] \in Int /\ f[j] = k * u[j] /\ f[j] \in Int
    <3>1. PICK v \in Int : v = u[j]
      OBVIOUS
    <3>2. PICK x \in Int : x = cover * v
      OBVIOUS
    <3>3. r * cover * v = r * x
      BY <3>2
    <3>4. (r * x) \div g = m * x
      BY <2>1
    <3>5. m * x = k * v
      BY <2>2, <3>2
    <3>6. f[j] = (r * cover * v) \div g
      BY <1>2, <3>1
    <3>7. k * v \in Int
      OBVIOUS
    <3> QED
      BY <3>1, <3>3, <3>4, <3>5, <3>6, <3>7
  <2>4. SumOver(f, J) = k * SumOver(u, J)
    BY <2>3, SumTimes
  <2>5. k * g = r * cover
    <3>1. PICK h \in Int : h = g
      OBVIOUS
    <3>2. k * h = (h * m) * cover
      BY <2>2
    <3> QED
      BY <2>1, <3>1, <3>2
  <2> QED
    BY <2>3, <2>4, <2>5
<1> QED
  BY <1>1, <1>2

\* The sells that took units of a parcel, and how many each took.
Takers(S, p) == {j \in DOMAIN S : S[j].take[p] > 0}
TakerUnits(S, p) == [j \in Takers(S, p) |-> S[j].take[p]]
TakersIn(S, p, from, to) == {j \in Takers(S, p) : from <= S[j].date /\ S[j].date <= to}

\* The units that the sells of a time took, of the sells that took some.
LEMMA TakenOver ==
    ASSUME NEW S \in Seq(Sell), NEW p \in CgtParcels, NEW from, NEW to
    PROVE  /\ UnitsTaken(S, p, from, to)
                = SumOver(TakerUnits(S, p), TakersIn(S, p, from, to))
           /\ IsFiniteSet(Takers(S, p)) /\ \A j \in Takers(S, p) : TakerUnits(S, p)[j] \in Nat
<1>1. PICK J, u : J = Takers(S, p) /\ u = TakerUnits(S, p)
  OBVIOUS
<1>2. J = {j \in DOMAIN S : S[j].take[p] > 0} /\ \A j \in J : u[j] = S[j].take[p]
  BY <1>1 DEF Takers, TakerUnits
<1>3. TakersIn(S, p, from, to) = {j \in J : from <= S[j].date /\ S[j].date <= to}
  BY <1>1 DEF TakersIn
<1>4. PICK D : D = {j \in DOMAIN S : from <= S[j].date /\ S[j].date <= to}
  OBVIOUS
<1>5. PICK K : K = {j \in J : from <= S[j].date /\ S[j].date <= to}
  OBVIOUS
<1>6. \A j \in DOMAIN S : S[j].take[p] \in Nat
  <2>1. \A j \in DOMAIN S : S[j] \in Sell
    OBVIOUS
  <2> QED
    BY <2>1 DEF Sell
<1>7. IsFiniteSet(DOMAIN S) /\ IsFiniteSet(D) /\ IsFiniteSet(J)
  <2>1. DOMAIN S = 1 .. Len(S) /\ Len(S) \in Nat
    OBVIOUS
  <2>2. IsFiniteSet(1 .. Len(S))
    BY <2>1, FS_Interval
  <2> QED
    BY <1>4, <1>2, <2>1, <2>2, FS_Subset
<1>8. PICK t : t = [j \in D |-> S[j].take[p]]
  OBVIOUS
<1>9. PICK f : f = [i \in D |-> [sell |-> i, amount |-> S[i].take[p]]]
  OBVIOUS
<1>10. UnitsTaken(S, p, from, to) = Total({f[i] : i \in D})
  BY <1>4, <1>9 DEF UnitsTaken
<1>11. Total({f[i] : i \in D}) = SumOver(t, D)
  <2>1. \A x \in D : t[x] \in Int /\ f[x].amount = t[x]
    BY <1>4, <1>6, <1>8, <1>9
  <2>2. \A x, y \in D : f[x] = f[y] => x = y
    BY <1>9
  <2>3. IsFiniteSet(D)
    BY <1>7
  <2> HIDE <1>4
  <2> QED
    BY <2>1, <2>2, <2>3, MadeSum
<1>12. K \in SUBSET D
  BY <1>4, <1>5, <1>2
<1>13. SumOver(t, D) = SumOver(t, K)
  <2>1. \A x \in D : t[x] \in Int
    BY <1>4, <1>6, <1>8
  <2>2. \A x \in D \ K : t[x] = 0
    <3> SUFFICES ASSUME NEW x \in D \ K PROVE t[x] = 0
      OBVIOUS
    <3>1. x \in DOMAIN S /\ x \notin J
      BY <1>4, <1>5
    <3>2. S[x].take[p] \in Nat /\ ~(S[x].take[p] > 0)
      BY <1>6, <1>2, <3>1
    <3> QED
      BY <1>8, <3>2
  <2> QED
    BY <1>7, <1>12, <2>1, <2>2, SumSupport
<1>14. SumOver(t, K) = SumOver(u, K)
  <2>1. \A x \in K : t[x] = u[x]
    BY <1>4, <1>5, <1>8, <1>2
  <2>2. IsFiniteSet(K)
    BY <1>7, <1>12, FS_Subset
  <2> QED
    BY <2>1, <2>2, SumCong
<1> QED
  BY <1>1, <1>2, <1>3, <1>5, <1>6, <1>7, <1>10, <1>11, <1>13, <1>14

\* The days of a year.
LEMMA YearSpan ==
    ASSUME NEW y \in Fys
    PROVE  FyStart(y) \in Int /\ FyEnd(y) \in Int /\ 1 <= FyStart(y) /\ FyStart(y) <= FyEnd(y)
<1>1. PICK f \in Int, n \in Int : f = FyLength /\ n = y - 1 /\ f >= 1 /\ n >= 0 /\ y = n + 1
  BY SomeYears, CgtAssumption
<1>2. PICK a \in Int : a = n * f /\ a >= 0 /\ (n + 1) * f = a + f
  BY <1>1
<1>3. FyStart(y) = a + 1 /\ FyEnd(y) = a + f
  BY <1>1, <1>2 DEF FyStart, FyEnd
<1> QED
  BY <1>1, <1>2, <1>3

\* The sells that took units of p before year y, in it and after it.
TookBefore(p, y) == {j \in Takers(sells, p) : sells[j].date < FyStart(y)}
TookIn(p, y) == {j \in Takers(sells, p) : /\ FyStart(y) <= sells[j].date
                                         /\ sells[j].date <= FyEnd(y)}
TookAfter(p, y) == {j \in Takers(sells, p) : FyEnd(y) < sells[j].date}

\* How many units of p the sells D took.
Took(p, D) == SumOver(TakerUnits(sells, p), D)

\* The sells of a sold-out parcel by a year: the units taken before it, in it and
\* after it.
LEMMA ByYear ==
    ASSUME CgtInv, Dated(sells), NEW p \in Bought,
           UnitsTaken(sells, p, 1, CgtDays) = parcels[p].units, NEW y \in Fys
    PROVE  /\ IsFiniteSet(TookBefore(p, y)) /\ IsFiniteSet(TookIn(p, y))
           /\ IsFiniteSet(TookAfter(p, y))
           /\ Took(p, TookBefore(p, y)) \in Nat /\ Took(p, TookIn(p, y)) \in Nat
           /\ Took(p, TookAfter(p, y)) \in Nat
           /\ UnitsTaken(sells, p, 1, FyStart(y) - 1) = Took(p, TookBefore(p, y))
           /\ UnitsTaken(sells, p, 1, FyEnd(y))
                = Took(p, TookBefore(p, y)) + Took(p, TookIn(p, y))
           /\ parcels[p].units = (Took(p, TookBefore(p, y)) + Took(p, TookIn(p, y)))
                                 + Took(p, TookAfter(p, y))
<1>1. PICK A, B, C, u :
        /\ A = TookBefore(p, y) /\ B = TookIn(p, y) /\ C = TookAfter(p, y)
        /\ u = TakerUnits(sells, p)
  OBVIOUS
<1>2. PICK J : J = Takers(sells, p)
  OBVIOUS
<1>3. /\ A = {j \in J : sells[j].date < FyStart(y)}
      /\ B = {j \in J : FyStart(y) <= sells[j].date /\ sells[j].date <= FyEnd(y)}
      /\ C = {j \in J : FyEnd(y) < sells[j].date}
  BY <1>1, <1>2 DEF TookBefore, TookIn, TookAfter
<1>4. \A D : Took(p, D) = SumOver(u, D)
  BY <1>1 DEF Took
<1>5. J = Takers(sells, p)
  BY <1>2
<1>6. J = {j \in DOMAIN sells : sells[j].take[p] > 0} /\ sells \in Seq(Sell) /\ p \in CgtParcels
  BY <1>5 DEF Takers, CgtInv, Bought
<1>7. /\ IsFiniteSet(J) /\ \A j \in J : u[j] \in Nat
      /\ UnitsTaken(sells, p, 1, FyStart(y) - 1)
           = SumOver(u, {j \in J : 1 <= sells[j].date /\ sells[j].date <= FyStart(y) - 1})
      /\ UnitsTaken(sells, p, 1, FyEnd(y))
           = SumOver(u, {j \in J : 1 <= sells[j].date /\ sells[j].date <= FyEnd(y)})
      /\ UnitsTaken(sells, p, 1, CgtDays)
           = SumOver(u, {j \in J : 1 <= sells[j].date /\ sells[j].date <= CgtDays})
  <2>1. PICK S \in Seq(Sell) : S = sells
    BY <1>6
  <2>2. /\ IsFiniteSet(Takers(S, p)) /\ \A j \in Takers(S, p) : TakerUnits(S, p)[j] \in Nat
        /\ \A from, to : UnitsTaken(S, p, from, to) = SumOver(TakerUnits(S, p), TakersIn(S, p, from, to))
    BY <1>6, TakenOver
  <2>3. \A from, to : TakersIn(S, p, from, to)
                        = {j \in J : from <= sells[j].date /\ sells[j].date <= to}
    BY <1>5, <2>1 DEF TakersIn
  <2>4. ASSUME NEW to
        PROVE  UnitsTaken(sells, p, 1, to)
                 = SumOver(u, {j \in J : 1 <= sells[j].date /\ sells[j].date <= to})
    <3>1. UnitsTaken(S, p, 1, to) = SumOver(TakerUnits(S, p), TakersIn(S, p, 1, to))
      BY <2>2
    <3>2. TakersIn(S, p, 1, to) = {j \in J : 1 <= sells[j].date /\ sells[j].date <= to}
      BY <2>3
    <3> QED
      BY <1>1, <2>1, <3>1, <3>2
  <2>5. IsFiniteSet(J) /\ \A j \in J : u[j] \in Nat
    BY <1>5, <1>1, <2>1, <2>2
  <2>6. UnitsTaken(sells, p, 1, FyStart(y) - 1)
          = SumOver(u, {j \in J : 1 <= sells[j].date /\ sells[j].date <= FyStart(y) - 1})
    BY <2>4
  <2>7. UnitsTaken(sells, p, 1, FyEnd(y))
          = SumOver(u, {j \in J : 1 <= sells[j].date /\ sells[j].date <= FyEnd(y)})
    BY <2>4
  <2>8. UnitsTaken(sells, p, 1, CgtDays)
          = SumOver(u, {j \in J : 1 <= sells[j].date /\ sells[j].date <= CgtDays})
    BY <2>4
  <2> QED
    BY <2>5, <2>6, <2>7, <2>8
<1>8. PICK s \in Int, e \in Int : s = FyStart(y) /\ e = FyEnd(y) /\ 1 <= s /\ s <= e
  BY YearSpan
<1>9. \A j \in J : sells[j].date \in Int /\ 1 <= sells[j].date /\ sells[j].date <= CgtDays
  BY <1>6, CgtAssumption DEF Dated, CgtDay
<1>10. {j \in J : 1 <= sells[j].date /\ sells[j].date <= s - 1} = A
  BY <1>3, <1>8, <1>9
<1>11. {j \in J : 1 <= sells[j].date /\ sells[j].date <= e} = A \union B
  BY <1>3, <1>8, <1>9
<1>12. {j \in J : 1 <= sells[j].date /\ sells[j].date <= CgtDays} = (A \union B) \union C
  BY <1>3, <1>8, <1>9
<1>13. A \cap B = {} /\ (A \union B) \cap C = {}
  BY <1>3, <1>8, <1>9
<1>14. A \subseteq J /\ B \subseteq J /\ C \subseteq J
  BY <1>3
<1>15. IsFiniteSet(A) /\ IsFiniteSet(B) /\ IsFiniteSet(C) /\ IsFiniteSet(A \union B)
  <2>1. A \union B \subseteq J
    BY <1>14
  <2> QED
    BY <1>7, <1>14, <2>1, FS_Subset
<1>16. SumOver(u, A) \in Nat /\ SumOver(u, B) \in Nat /\ SumOver(u, C) \in Nat
  BY <1>7, <1>14, <1>15, SumNat
<1>17. SumOver(u, A \union B) = SumOver(u, A) + SumOver(u, B)
  <2>1. \A j \in A \union B : u[j] \in Int
    BY <1>7, <1>14
  <2> QED
    BY <1>13, <1>15, <2>1, SumDisjoint
<1>18. SumOver(u, (A \union B) \union C) = SumOver(u, A \union B) + SumOver(u, C)
  <2>1. (A \union B) \union C \subseteq J
    BY <1>14
  <2>2. \A j \in (A \union B) \union C : u[j] \in Int
    BY <1>7, <2>1
  <2> QED
    BY <1>13, <1>15, <2>2, SumDisjoint
<1> QED
  BY <1>1, <1>4, <1>7, <1>8, <1>10, <1>11, <1>12, <1>15, <1>16, <1>17, <1>18

\* Of k units covered, some are of the h still held after the year and the others of
\* the d sold during it, as far as they go.
Spill(k, d, h) ==
    \E kept, spill \in Nat :
        /\ kept = Least(k, h) /\ kept <= h
        /\ spill = Least(Most(k - h, 0), d) /\ spill <= d
        /\ kept + spill = Least(k, d + h)

\* All that were held at some time of the year, if there are enough.
LEMMA SpillFacts ==
    ASSUME NEW k \in Nat, NEW d \in Nat, NEW h \in Nat
    PROVE  Spill(k, d, h)
<1>1. PICK x, t : x = k - h /\ t = d + h
  OBVIOUS
<1>2. PICK z \in Int : z = 0
  OBVIOUS
<1>3. k \in Int /\ d \in Int /\ x \in Int /\ t \in Int /\ h \in Int
  BY <1>1
<1>4. PICK m \in Int : m = Most(x, z) /\ m = IF x <= z THEN z ELSE x
  <2>1. Most(x, z) \in Int /\ Most(x, z) = IF x <= z THEN z ELSE x
    BY <1>3, <1>2, LeastMost, Zenon
  <2> QED
    BY <2>1
<1>5. Least(k, h) = (IF k <= h THEN k ELSE h) /\ Least(m, d) = IF m <= d THEN m ELSE d
  BY <1>3, <1>4, LeastMost, Zenon
<1>6. Least(k, t) = IF k <= t THEN k ELSE t
  BY <1>3, LeastMost, Zenon
<1>7. PICK a \in Int, c \in Int, o \in Int :
        /\ a = Least(k, h) /\ c = Least(m, d) /\ o = Least(k, t)
        /\ a = (IF k <= h THEN k ELSE h) /\ c = (IF m <= d THEN m ELSE d)
        /\ o = IF k <= t THEN k ELSE t
  BY <1>3, <1>5, <1>6
<1>8. a \in Nat /\ a <= h /\ c \in Nat /\ c <= d /\ a + c = o
  BY <1>1, <1>2, <1>4, <1>7
<1>9. /\ a = Least(k, h) /\ c = Least(Most(k - h, 0), d) /\ o = Least(k, d + h)
  BY <1>1, <1>2, <1>4, <1>7
<1> QED
  BY <1>8, <1>9 DEF Spill

\* A statement takes the same off the units of a sold-out parcel together, whichever
\* sells took them: its amount a unit for each unit held in its year that it covers.
LEMMA StatementComes ==
    ASSUME CgtInv, CgtSources, Dated(sells), NEW p \in Bought,
           UnitsTaken(sells, p, 1, CgtDays) = parcels[p].units, NEW s \in statements,
           NEW f, \A j \in Takers(sells, p) :
                    f[j] = ReductionForUnits(AmitEvent(sells, p, s), parcels[p].units,
                                             sells[j].take[p], sells[j].date)
    PROVE  /\ SumOver(f, Takers(sells, p)) = StatementTakes(p, s)
           /\ coverage[p][s.year] = 0 => StatementTakes(p, s) = 0
           /\ StatementTakes(p, s) \in Int
           /\ \A j \in Takers(sells, p) : f[j] \in Int
<1>1. PICK y \in Fys : y = s.year
  <2>1. s.year \in Fys
    BY DEF CgtInv, StatementsOK
  <2> QED
    BY <2>1
<1>2. PICK J, u : J = Takers(sells, p) /\ u = TakerUnits(sells, p)
  OBVIOUS
<1>3. J = Takers(sells, p) /\ u = TakerUnits(sells, p) /\ y = s.year
  BY <1>1, <1>2
<1>4. PICK A, B, C : A = TookBefore(p, y) /\ B = TookIn(p, y) /\ C = TookAfter(p, y)
  OBVIOUS
<1>5. /\ A = {j \in J : sells[j].date < FyStart(y)}
      /\ B = {j \in J : FyStart(y) <= sells[j].date /\ sells[j].date <= FyEnd(y)}
      /\ C = {j \in J : FyEnd(y) < sells[j].date}
  BY <1>3, <1>4 DEF TookBefore, TookIn, TookAfter
<1>6. PICK b \in Nat, d \in Nat, h \in Nat :
        /\ b = SumOver(u, A) /\ d = SumOver(u, B) /\ h = SumOver(u, C)
        /\ IsFiniteSet(A) /\ IsFiniteSet(B) /\ IsFiniteSet(C)
        /\ UnitsTaken(sells, p, 1, FyStart(y) - 1) = b
        /\ UnitsTaken(sells, p, 1, FyEnd(y)) = b + d
        /\ parcels[p].units = b + d + h
  <2>1. /\ IsFiniteSet(A) /\ IsFiniteSet(B) /\ IsFiniteSet(C)
        /\ Took(p, A) \in Nat /\ Took(p, B) \in Nat /\ Took(p, C) \in Nat
        /\ UnitsTaken(sells, p, 1, FyStart(y) - 1) = Took(p, A)
        /\ UnitsTaken(sells, p, 1, FyEnd(y)) = Took(p, A) + Took(p, B)
        /\ parcels[p].units = (Took(p, A) + Took(p, B)) + Took(p, C)
    BY <1>1, <1>4, ByYear
  <2>2. \A D : Took(p, D) = SumOver(u, D)
    BY <1>3 DEF Took
  <2> QED
    BY <2>1, <2>2
<1>7. PICK r \in Int, k \in Nat : r = s.rate /\ k = coverage[p][y]
  <2>1. s.rate \in Int
    BY DEF CgtInv, StatementsOK
  <2>2. coverage[p][y] \in Nat
    BY DEF CgtInv, Bought
  <2> QED
    BY <2>1, <2>2
<1>8. r % 6 = 0 /\ b + d + h \in 1 .. 3
  <2>1. r \in StatementRates
    BY <1>7 DEF CgtSources
  <2>2. parcels[p].units \in LotUnits
    BY DEF CgtSources
  <2> QED
    BY <1>6, <2>1, <2>2, CgtAssumption
<1>9. PICK w, n, x, t :
        w = b + d /\ n = b + d + h /\ x = k - h /\ t = d + h
  BY <1>6, <1>7
<1>10. k \in Int /\ d \in Int /\ t \in Int /\ w \in Int /\ n \in Int
  BY <1>6, <1>7, <1>9
<1>11. PICK kept \in Nat, spill \in Nat :
        kept = Least(k, h) /\ kept <= h /\ spill = Least(Most(x, 0), d) /\ spill <= d
        /\ kept + spill = Least(k, t)
  <2>1. Spill(k, d, h)
    BY <1>6, <1>7, SpillFacts
  <2>2. PICK kept, spill \in Nat :
          /\ kept = Least(k, h) /\ kept <= h
          /\ spill = Least(Most(k - h, 0), d) /\ spill <= d
          /\ kept + spill = Least(k, d + h)
    BY <2>1 DEF Spill
  <2> QED
    BY <1>9, <2>2
<1>12. Least(w, n) = w
  <2>1. Least(w, n) = IF w <= n THEN w ELSE n
    BY <1>10, LeastMost, Zenon
  <2> QED
    BY <1>6, <1>9, <2>1
<1>13. Most(d, 0) = d
  <2>1. PICK z \in Int : z = 0
    OBVIOUS
  <2>2. Most(d, z) = IF d <= z THEN z ELSE d
    BY <1>10, <2>1, LeastMost, Zenon
  <2> QED
    BY <1>6, <2>1, <2>2
<1>14. n - w = h /\ w - b = d /\ n - b = t
  BY <1>6, <1>9
<1>15. PICK e : e = AmitEvent(sells, p, s)
  OBVIOUS
<1>16. /\ e.year = y /\ e.rate = r /\ e.covered = k
      /\ e.disposedByYearEnd = w /\ e.disposedBeforeYearStart = b
  BY <1>3, <1>6, <1>7, <1>15, <1>9 DEF AmitEvent
<1>17. ASSUME NEW units, NEW left
       PROVE  ReductionForUnits(e, n, units, left) =
                CASE left # StillHeld /\ left < FyStart(y) -> 0
                  [] left \in FyStart(y)..FyEnd(y) ->
                        IF d = 0 THEN 0 ELSE (r * spill * units) \div d
                  [] OTHER -> IF h = 0 THEN 0 ELSE (r * kept * units) \div h
  BY <1>11, <1>16, <1>14, <1>9, <1>12, <1>13 DEF ReductionForUnits
<1>18. \A j \in J : sells[j].date \in Int /\ 1 <= sells[j].date
  BY <1>3 DEF Dated, CgtDay, Takers
<1>19. FyStart(y) \in Int /\ FyEnd(y) \in Int /\ FyStart(y) <= FyEnd(y)
  BY YearSpan
<1>20. \A j \in J : u[j] \in Nat /\ u[j] = sells[j].take[p]
  <2>1. PICK S \in Seq(Sell) : S = sells
    BY DEF CgtInv
  <2>2. \A j \in Takers(S, p) : TakerUnits(S, p)[j] \in Nat
    BY <2>1, TakenOver DEF Bought
  <2> QED
    BY <1>3, <2>1, <2>2 DEF TakerUnits
<1>21. ASSUME NEW j \in J
       PROVE f[j] = ReductionForUnits(e, n, u[j], sells[j].date)
  BY <1>3, <1>6, <1>15, <1>20, <1>9
<1>22. \A j \in A : f[j] = 0
  <2> SUFFICES ASSUME NEW j \in A PROVE f[j] = 0
    OBVIOUS
  <2>1. j \in J /\ sells[j].date < FyStart(y) /\ sells[j].date # StillHeld
    BY <1>5, <1>18 DEF StillHeld
  <2>2. f[j] = ReductionForUnits(e, n, u[j], sells[j].date)
    BY <1>21, <2>1
  <2>3. PICK left \in Int : left = sells[j].date
    BY <1>18, <2>1
  <2>4. e \in Event
    <3>1. y \in Int
      BY SomeYears
    <3> QED
      BY <1>6, <1>7, <1>15, <1>3, <3>1 DEF AmitEvent, Event
  <2>5. ReductionForUnits(e, n, u[j], left) = 0
    BY <1>16, <2>1, <2>3, <2>4, NothingBefore
  <2> QED
    BY <2>2, <2>3, <2>5
<1>23. \A j \in B : f[j] = IF d = 0 THEN 0 ELSE (r * spill * u[j]) \div d
  <2> SUFFICES ASSUME NEW j \in B
               PROVE  f[j] = IF d = 0 THEN 0 ELSE (r * spill * u[j]) \div d
    OBVIOUS
  <2>1. /\ j \in J /\ ~(sells[j].date < FyStart(y))
        /\ sells[j].date \in FyStart(y) .. FyEnd(y)
    BY <1>5, <1>18, <1>19
  <2>2. f[j] = ReductionForUnits(e, n, u[j], sells[j].date)
    BY <1>21, <2>1
  <2> QED
    BY <1>17, <2>1, <2>2
<1>24. \A j \in C : f[j] = IF h = 0 THEN 0 ELSE (r * kept * u[j]) \div h
  <2> SUFFICES ASSUME NEW j \in C
               PROVE  f[j] = IF h = 0 THEN 0 ELSE (r * kept * u[j]) \div h
    OBVIOUS
  <2>1. /\ j \in J /\ ~(sells[j].date < FyStart(y))
        /\ sells[j].date \notin FyStart(y) .. FyEnd(y)
    BY <1>5, <1>18, <1>19
  <2>2. f[j] = ReductionForUnits(e, n, u[j], sells[j].date)
    BY <1>21, <2>1
  <2> QED
    BY <1>17, <2>1, <2>2
<1>25. SumOver(f, A) = 0 /\ \A j \in A : f[j] \in Int
  <2>1. SumOver(f, A) = 0
    BY <1>6, <1>22, SumZero
  <2> QED
    BY <1>22, <2>1
<1>26. SumOver(f, B) = r * spill /\ \A j \in B : f[j] \in Int
  <2>1. \A j \in B : u[j] \in Nat
    BY <1>5, <1>20
  <2>2. d \in 0 .. 3
    BY <1>8
  <2>3. IsFiniteSet(B) /\ d = SumOver(u, B)
    BY <1>6
  <2>4. spill <= d
    BY <1>11
  <2>5. \A j \in B : f[j] = IF d = 0 THEN 0 ELSE (r * spill * u[j]) \div d
    BY <1>23
  <2> QED
    BY <1>8, <2>1, <2>2, <2>3, <2>4, <2>5, SpreadAll
<1>27. SumOver(f, C) = r * kept /\ \A j \in C : f[j] \in Int
  <2>1. \A j \in C : u[j] \in Nat
    BY <1>5, <1>20
  <2>2. h \in 0 .. 3
    BY <1>8
  <2>3. IsFiniteSet(C) /\ h = SumOver(u, C)
    BY <1>6
  <2>4. kept <= h
    BY <1>11
  <2>5. \A j \in C : f[j] = IF h = 0 THEN 0 ELSE (r * kept * u[j]) \div h
    BY <1>24
  <2> QED
    BY <1>8, <2>1, <2>2, <2>3, <2>4, <2>5, SpreadAll
<1>28. J = (A \union B) \union C /\ A \cap B = {} /\ (A \union B) \cap C = {}
  BY <1>5, <1>18, <1>19
<1>29. \A j \in J : f[j] \in Int
  BY <1>25, <1>26, <1>27, <1>28
<1>30. SumOver(f, J) = r * spill + r * kept
  <2>1. IsFiniteSet(A \union B)
    BY <1>6, FS_Union
  <2>2. SumOver(f, A \union B) = SumOver(f, A) + SumOver(f, B)
    BY <1>6, <1>28, <1>29, SumDisjoint
  <2>3. SumOver(f, (A \union B) \union C) = SumOver(f, A \union B) + SumOver(f, C)
    BY <1>6, <1>28, <1>29, <2>1, SumDisjoint
  <2>4. PICK q \in Int, z \in Int : q = r * spill /\ z = r * kept
    OBVIOUS
  <2>5. SumOver(f, A \union B) = q
    BY <1>25, <1>26, <2>2, <2>4
  <2> QED
    BY <1>27, <1>28, <2>3, <2>4, <2>5
<1>31. PICK g \in Nat : g = kept + spill /\ g = Least(k, t)
  BY <1>11
<1>32. r * spill + r * kept = r * g
  BY <1>7, <1>11, <1>31
<1>33. StatementTakes(p, s) = r * g
  BY <1>3, <1>6, <1>7, <1>14, <1>31, <1>9 DEF StatementTakes
<1>34. k = 0 => g = 0
  <2>1. Least(k, t) = IF k <= t THEN k ELSE t
    BY <1>10, LeastMost, Zenon
  <2>2. t >= 0
    BY <1>6, <1>9
  <2> QED
    BY <1>7, <1>31, <1>9, <2>1, <2>2
<1>35. r * g \in Int /\ (g = 0 => r * g = 0)
  BY <1>7, <1>31
<1> QED
  BY <1>3, <1>7, <1>29, <1>30, <1>32, <1>33, <1>34, <1>35

\* The units of p that sell j took.
CohortOf(p, j) == [sell |-> j, left |-> sells[j].date, units |-> sells[j].take[p]]

\* What the taken units of a sold-out parcel are together.
LEMMA SoldOut ==
    ASSUME CgtInv, Dated(sells), NEW p \in Bought,
           UnitsTaken(sells, p, 1, CgtDays) = parcels[p].units
    PROVE  /\ Cohorts(sells, p) = {CohortOf(p, j) : j \in Takers(sells, p)}
           /\ IsFiniteSet(Takers(sells, p))
           /\ \A j \in Takers(sells, p) : TakerUnits(sells, p)[j] \in Nat
           /\ SumOver(TakerUnits(sells, p), Takers(sells, p)) = parcels[p].units
<1>1. PICK S \in Seq(Sell) : S = sells
  BY DEF CgtInv
<1>2. /\ IsFiniteSet(Takers(S, p)) /\ \A j \in Takers(S, p) : TakerUnits(S, p)[j] \in Nat
      /\ UnitsTaken(S, p, 1, CgtDays) = SumOver(TakerUnits(S, p), TakersIn(S, p, 1, CgtDays))
  BY <1>1, TakenOver DEF Bought
<1>3. TakersIn(S, p, 1, CgtDays) = Takers(S, p)
  BY <1>1, CgtAssumption DEF TakersIn, Takers, Dated, CgtDay
<1>4. Cohorts(sells, p) = {CohortOf(p, j) : j \in Takers(sells, p)}
  <2>1. PICK n \in Nat : n = parcels[p].units
    BY DEF CgtInv, Bought
  <2>2. n - n = 0 /\ ~(0 > 0)
    OBVIOUS
  <2>3. Cohorts(sells, p) = {[sell |-> i, left |-> sells[i].date, units |-> sells[i].take[p]] :
                               i \in {j \in DOMAIN sells : sells[j].take[p] > 0}}
    BY <2>1, <2>2 DEF Cohorts
  <2> QED
    BY <2>3 DEF CohortOf, Takers
<1> QED
  BY <1>1, <1>2, <1>3, <1>4

\* The costs of the units of a parcel that is sold out are its cost.
LEMMA CostsCome ==
    ASSUME CgtInv, CgtSources, Dated(sells), NEW p \in Bought,
           UnitsTaken(sells, p, 1, CgtDays) = parcels[p].units,
           NEW f, \A j \in Takers(sells, p) : f[j] = ProratedCost(p, sells[j].take[p])
    PROVE  /\ SumOver(f, Takers(sells, p)) = parcels[p].cost
           /\ \A j \in Takers(sells, p) : f[j] \in Int
<1>1. PICK J, u : J = Takers(sells, p) /\ u = TakerUnits(sells, p)
  OBVIOUS
<1>2. /\ IsFiniteSet(J) /\ \A j \in J : u[j] \in Nat
      /\ SumOver(u, J) = parcels[p].units
  BY <1>1, SoldOut
<1>3. \A j \in J : u[j] = sells[j].take[p]
  BY <1>1 DEF TakerUnits
<1>4. PICK n \in Nat \ {0} : n = parcels[p].units
  BY DEF CgtInv
<1>5. PICK c \in Int : parcels[p].cost = c * n
  BY <1>4 DEF CgtSources
<1>6. ASSUME NEW j \in J PROVE u[j] \in Int /\ f[j] = c * u[j] /\ f[j] \in Int
  <2>1. PICK v \in Int : v = u[j]
    BY <1>2
  <2>2. PICK x \in Int : x = c * v
    BY <1>5
  <2>3. (c * n) * v = n * x
    BY <1>4, <1>5, <2>1, <2>2
  <2>4. (n * x) \div n = x
    BY <1>4, <2>2
  <2>5. f[j] = ((c * n) * v) \div n
    BY <1>1, <1>3, <1>4, <1>5, <2>1 DEF ProratedCost
  <2> QED
    BY <2>1, <2>2, <2>3, <2>4, <2>5
<1>7. SumOver(f, J) = c * SumOver(u, J)
  BY <1>2, <1>5, <1>6, SumTimes
<1> QED
  BY <1>1, <1>2, <1>4, <1>5, <1>6, <1>7

\* What a sell of a parcel brings and what is taxed of it: what is not the same in
\* both is the cost, and what the statements took off it.
LEMMA CohortNets ==
    ASSUME CgtInv, CgtSources, Dated(sells), NEW p \in Bought, NEW j \in Takers(sells, p),
           NEW events, events = AmitEvents(sells, p),
           NEW c, c = CohortOf(p, j),
           NEW f, f = [e \in events |-> ReductionForUnits(e, parcels[p].units, c.units, c.left)]
    PROVE  /\ (ProceedsShare(sells[c.sell], p) - RealisedCost(sells, c.sell, p)
               + Total(CohortGains(p, c, events)))
                - (ProceedsShare(sells[c.sell], p)
                   + Total({[pay |-> pay, amount |-> PaidOn(p, c, pay)] : pay \in payments}))
              = SumOver(f, events) - ProratedCost(p, c.units)
           /\ SumOver(f, events) \in Int /\ ProratedCost(p, c.units) \in Int
           /\ \A e \in events : f[e] \in Int
<1>1. /\ j \in DOMAIN sells /\ j \in Nat /\ sells[j] \in Sell /\ sells[j].take[p] \in Nat
      /\ sells[j].date \in CgtDay /\ p \in CgtParcels
  <2>1. j \in DOMAIN sells /\ sells \in Seq(Sell) /\ p \in CgtParcels
    BY DEF Takers, CgtInv, Bought
  <2>2. sells[j] \in Sell /\ j \in Nat
    BY <2>1
  <2> QED
    BY <2>1, <2>2 DEF Sell, Dated
<1>2. /\ c.sell = j /\ c.left = sells[j].date /\ c.units = sells[j].take[p]
      /\ c \in Cohort /\ c.left > 0 /\ c.units \in Nat /\ c.left \in Int
  BY <1>1, CgtAssumption DEF CohortOf, Cohort, CgtDay
<1>3. events \in SUBSET Event /\ IsFiniteSet(events)
  <2>1. PICK S \in Seq(Sell) : S = sells
    BY DEF CgtInv
  <2>2. IsFiniteSet(AmitEvents(S, p)) /\ AmitEvents(S, p) \in SUBSET Event
    BY <1>1, EventsFacts
  <2> QED
    BY <2>1, <2>2
<1>4. \A e \in events : e.year \in Fys
  <2>1. \A t \in statements : t.year \in Fys
    BY DEF CgtInv, StatementsOK
  <2> QED
    BY <2>1 DEF AmitEvents, AmitEvent
<1>5. PICK N \in Nat : N = LastDay
  BY LastDayNat
<1>6. PICK a, w, t : /\ a = [d \in 1 .. N |-> AmitReduction(p, c.units, c.left, events, d)]
                     /\ w = [d \in 1 .. N |-> DayPaid(p, c, d)]
                     /\ t = Takings(p, c, events)
  OBVIOUS
<1>7. SumOver(a, 1 .. N) = SumOver(f, events) /\ \A e \in events : f[e] \in Int
  <2>1. \A d \in 1 .. LastDay : a[d] = AmitReduction(p, c.units, c.left, events, d)
    BY <1>5, <1>6
  <2>2. \A e \in events : f[e] = ReductionForUnits(e, parcels[p].units, c.units, c.left)
    OBVIOUS
  <2> QED
    BY <1>2, <1>3, <1>4, <1>5, <2>1, <2>2, ReductionsCome
<1>8. PICK pays : pays = Total({[pay |-> pay, amount |-> PaidOn(p, c, pay)] : pay \in payments})
  OBVIOUS
<1>9. SumOver(w, 1 .. N) = pays /\ \A d \in 1 .. N : w[d] \in Int
  <2>1. \A d \in 1 .. LastDay : w[d] = DayPaid(p, c, d)
    BY <1>5, <1>6
  <2> QED
    BY <1>2, <1>5, <1>8, <2>1, PaymentsCome
<1>10. \A d \in 1 .. N : a[d] \in Int /\ t[d] = a[d] + w[d]
  <2> SUFFICES ASSUME NEW d \in 1 .. N PROVE a[d] \in Int /\ t[d] = a[d] + w[d]
    OBVIOUS
  <2>1. AmitReduction(p, c.units, c.left, events, d) \in Int
    BY <1>1, <1>2, <1>3, AmitReductionInt
  <2>2. t[d] = DayTakes(p, c, events, d)
    BY <1>5, <1>6 DEF Takings
  <2> QED
    BY <1>6, <2>1, <2>2 DEF DayTakes
<1>11. SumOver(t, 1 .. N) = SumOver(a, 1 .. N) + SumOver(w, 1 .. N)
  <2>1. IsFiniteSet(1 .. N)
    BY <1>5, FS_Interval
  <2> QED
    BY <1>9, <1>10, <2>1, SumPlus
<1>12. Total(CohortGains(p, c, events))
         = (AdjustedCostBase(p, c.units, events, c.left) - ProratedCost(p, c.units))
           + SumOver(t, 1 .. N)
  BY <1>2, <1>3, <1>5, <1>6, CohortComes
<1>13. RealisedCost(sells, c.sell, p) = AdjustedCostBase(p, c.units, events, c.left)
  BY <1>2 DEF RealisedCost
<1>14. PICK cost \in Int : cost = AdjustedCostBase(p, c.units, events, c.left)
  BY <1>2, <1>3, CostBaseInt
<1>15. PICK paid \in Int : paid = pays
  <2>1. IsFiniteSet(1 .. N)
    BY <1>5, FS_Interval
  <2>2. SumOver(w, 1 .. N) \in Int
    BY <1>9, <2>1, SumInt
  <2> QED
    BY <1>9, <2>2
<1>16. PICK took \in Int : took = SumOver(f, events)
  BY <1>3, <1>7, SumInt
<1>17. PICK own \in Int : own = ProratedCost(p, c.units)
  BY <1>2, ProratedInt
<1>18. PICK share \in Int : share = ProceedsShare(sells[c.sell], p)
  <2>1. PICK x \in Int, n \in Nat \ {0}, y \in Int :
          x = sells[j].proceeds /\ n = UnitsSold(sells[j]) /\ y = sells[j].take[p]
    BY <1>1 DEF Sell
  <2>2. (x * y) \div n \in Int
    <3>1. PICK z \in Int : z = x * y
      BY <2>1
    <3>2. z \div n \in Int
      BY <2>1, <3>1, Quotient
    <3> QED
      BY <3>1, <3>2
  <2>3. ProceedsShare(sells[j], p) = (x * y) \div n
    BY <2>1 DEF ProceedsShare
  <2> QED
    BY <1>2, <2>2, <2>3
<1>19. Total(CohortGains(p, c, events)) = (cost - own) + (took + paid)
  BY <1>7, <1>9, <1>11, <1>12, <1>14, <1>15, <1>16, <1>17
<1>20. PICK gains \in Int : gains = Total(CohortGains(p, c, events)) /\ gains = (cost - own) + (took + paid)
  BY <1>14, <1>15, <1>16, <1>17, <1>19
<1>21. (share - cost + gains) - (share + paid) = took - own
  BY <1>14, <1>15, <1>16, <1>17, <1>18, <1>20
<1> QED
  BY <1>7, <1>8, <1>13, <1>14, <1>15, <1>16, <1>17, <1>18, <1>20, <1>21

\* The statements that reach p.
Reaching(p) == {t \in statements : coverage[p][t.year] > 0}

\* A statement is told by what reaches the parcel of it.
LEMMA StatementTold ==
    ASSUME CgtInv, CgtSources, NEW p \in Bought
    PROVE  /\ IsFiniteSet(Reaching(p))
           /\ AmitEvents(sells, p) = {AmitEvent(sells, p, s) : s \in Reaching(p)}
           /\ \A s, t \in Reaching(p) : AmitEvent(sells, p, s) = AmitEvent(sells, p, t) => s = t
<1>1. IsFiniteSet(Reaching(p))
  BY FS_Subset DEF CgtInv, StatementsOK, Reaching
<1>2. AmitEvents(sells, p) = {AmitEvent(sells, p, s) : s \in Reaching(p)}
  BY DEF AmitEvents, Reaching
<1>3. ASSUME NEW s \in Reaching(p), NEW t \in Reaching(p),
             AmitEvent(sells, p, s) = AmitEvent(sells, p, t)
      PROVE  s = t
  <2>1. AmitEvent(sells, p, s).year = s.year /\ AmitEvent(sells, p, t).year = t.year
    BY DEF AmitEvent
  <2> QED
    BY <1>3, <2>1 DEF CgtSources, Reaching
<1> QED
  BY <1>1, <1>2, <1>3

\* What the statements take of a sold-out parcel, sell by sell or statement by
\* statement.
LEMMA StatementsCome ==
    ASSUME CgtInv, CgtSources, Dated(sells), NEW p \in Bought,
           UnitsTaken(sells, p, 1, CgtDays) = parcels[p].units,
           NEW v, \A j \in Takers(sells, p) :
                    v[j] = SumOver([e \in AmitEvents(sells, p) |->
                                      ReductionForUnits(e, parcels[p].units,
                                                        sells[j].take[p], sells[j].date)],
                                   AmitEvents(sells, p)),
           NEW x, \A s \in statements : x[s] = StatementTakes(p, s)
    PROVE  /\ SumOver(v, Takers(sells, p)) = SumOver(x, statements)
           /\ \A s \in statements : x[s] \in Int
<1>1. PICK J, T, E : J = Takers(sells, p) /\ T = Reaching(p) /\ E = AmitEvents(sells, p)
  OBVIOUS
<1>2. PICK ev : ev = [s \in T |-> AmitEvent(sells, p, s)]
  OBVIOUS
<1>3. /\ IsFiniteSet(T) /\ E = {ev[s] : s \in T}
      /\ \A s, t \in T : ev[s] = ev[t] => s = t
  BY <1>1, <1>2, StatementTold
<1>4. IsFiniteSet(J) /\ T \subseteq statements /\ IsFiniteSet(statements)
  BY <1>1, SoldOut DEF Reaching, CgtInv, StatementsOK
<1>5. PICK f : f = [j \in J |-> [s \in T |->
                     ReductionForUnits(ev[s], parcels[p].units, sells[j].take[p], sells[j].date)]]
  OBVIOUS
<1>6. ASSUME NEW s \in statements PROVE x[s] \in Int /\ (s \notin T => x[s] = 0)
  <2>1. PICK h : h = [j \in J |-> ReductionForUnits(AmitEvent(sells, p, s), parcels[p].units,
                                                   sells[j].take[p], sells[j].date)]
    OBVIOUS
  <2>2. StatementTakes(p, s) \in Int /\ (coverage[p][s.year] = 0 => StatementTakes(p, s) = 0)
    BY <1>1, <2>1, StatementComes
  <2>3. coverage[p][s.year] \in Nat
    <3>1. s.year \in Fys
      BY DEF CgtInv, StatementsOK
    <3> QED
      BY <3>1 DEF CgtInv, Bought
  <2>4. s \notin T => coverage[p][s.year] = 0
    BY <1>1, <2>3 DEF Reaching
  <2> QED
    BY <2>2, <2>4
<1>7. ASSUME NEW s \in T
      PROVE  SumOver(Column(f, J, s), J) = x[s] /\ \A j \in J : f[j][s] \in Int
  <2>1. PICK h : h = Column(f, J, s)
    OBVIOUS
  <2>2. \A j \in J : h[j] = f[j][s]
    BY <2>1 DEF Column
  <2>3. \A j \in J : h[j] = ReductionForUnits(AmitEvent(sells, p, s), parcels[p].units,
                                              sells[j].take[p], sells[j].date)
    BY <1>2, <1>5, <2>2
  <2>4. SumOver(h, J) = StatementTakes(p, s) /\ \A j \in J : h[j] \in Int
    BY <1>1, <1>4, <2>3, StatementComes
  <2> QED
    BY <1>4, <2>1, <2>2, <2>4
<1>8. SumOver(RowSums(f, J, T), J) = SumOver(ColumnSums(f, J, T), T)
  <2>1. \A j \in J : \A s \in T : f[j][s] \in Int
    BY <1>7
  <2> QED
    BY <1>3, <1>4, <2>1, SumSwap
<1>9. ASSUME NEW j \in J PROVE v[j] = RowSums(f, J, T)[j]
  <2>1. PICK g, row : /\ g = [e \in E |-> ReductionForUnits(e, parcels[p].units,
                                                           sells[j].take[p], sells[j].date)]
                      /\ row = f[j]
    OBVIOUS
  <2>2. \A s \in T : row[s] \in Int /\ g[ev[s]] = row[s]
    BY <1>3, <1>5, <1>7, <2>1
  <2>3. SumOver(g, {ev[s] : s \in T}) = SumOver(row, T)
    BY <1>3, <2>2, SumReindex
  <2>4. v[j] = SumOver(g, E)
    BY <1>1, <2>1
  <2> QED
    BY <1>3, <2>1, <2>3, <2>4 DEF RowSums
<1>10. SumOver(v, J) = SumOver(RowSums(f, J, T), J)
  BY <1>4, <1>9, SumCong
<1>11. SumOver(ColumnSums(f, J, T), T) = SumOver(x, T)
  <2>1. \A s \in T : ColumnSums(f, J, T)[s] = x[s]
    BY <1>7 DEF ColumnSums
  <2> QED
    BY <1>3, <2>1, SumCong
<1>12. SumOver(x, statements) = SumOver(x, T)
  BY <1>4, <1>6, SumSupport
<1> QED
  BY <1>1, <1>6, <1>8, <1>10, <1>11, <1>12

\* Each sold-out parcel is taxed for what it brought.
LEMMA BooksTaxOnce == CgtBooks /\ CgtSources => EveryDollarTaxedOnce
<1> SUFFICES ASSUME CgtInv, CgtSources, Dated(sells)
             PROVE  EveryDollarTaxedOnce
  BY DEF CgtBooks
<1> SUFFICES ASSUME NEW p \in Bought, UnitsTaken(sells, p, 1, CgtDays) = parcels[p].units
             PROVE  LET events == AmitEvents(sells, p)
                        cohorts == Cohorts(sells, p)
                        taxed(c) == ProceedsShare(sells[c.sell], p)
                                    - RealisedCost(sells, c.sell, p)
                                    + Total(CohortGains(p, c, events))
                        brought(c) == ProceedsShare(sells[c.sell], p)
                                      + Total({[pay |-> pay, amount |-> PaidOn(p, c, pay)] :
                                                 pay \in payments})
                    IN  Total({[cohort |-> c, amount |-> taxed(c) - brought(c)] : c \in cohorts})
                        = Total({[statement |-> s, amount |-> StatementTakes(p, s)] :
                                   s \in statements}) - parcels[p].cost
  BY DEF EveryDollarTaxedOnce
<1> DEFINE Net(c) == (ProceedsShare(sells[c.sell], p) - RealisedCost(sells, c.sell, p)
                      + Total(CohortGains(p, c, AmitEvents(sells, p))))
                     - (ProceedsShare(sells[c.sell], p)
                        + Total({[pay |-> pay, amount |-> PaidOn(p, c, pay)] : pay \in payments}))
<1>1. PICK J, E : J = Takers(sells, p) /\ E = AmitEvents(sells, p)
  OBVIOUS
<1>2. IsFiniteSet(J) /\ Cohorts(sells, p) = {CohortOf(p, j) : j \in J}
  BY <1>1, SoldOut
<1>3. PICK v, o, n :
        /\ v = [j \in J |-> SumOver([e \in E |-> ReductionForUnits(e, parcels[p].units,
                                                   sells[j].take[p], sells[j].date)], E)]
        /\ o = [j \in J |-> ProratedCost(p, sells[j].take[p])]
        /\ n = [j \in J |-> Net(CohortOf(p, j))]
  OBVIOUS
<1>4. \A j \in J : v[j] \in Int /\ o[j] \in Int /\ n[j] = v[j] - o[j]
  <2> SUFFICES ASSUME NEW j \in J PROVE v[j] \in Int /\ o[j] \in Int /\ n[j] = v[j] - o[j]
    OBVIOUS
  <2>1. PICK c : c = CohortOf(p, j)
    OBVIOUS
  <2>2. c.units = sells[j].take[p] /\ c.left = sells[j].date
    BY <2>1 DEF CohortOf
  <2>3. PICK f : f = [e \in E |-> ReductionForUnits(e, parcels[p].units, c.units, c.left)]
    OBVIOUS
  <2>4. /\ Net(c) = SumOver(f, E) - ProratedCost(p, c.units)
        /\ SumOver(f, E) \in Int /\ ProratedCost(p, c.units) \in Int
    BY <1>1, <2>1, <2>3, CohortNets
  <2>5. v[j] = SumOver(f, E) /\ o[j] = ProratedCost(p, c.units)
    BY <1>3, <2>2, <2>3
  <2>6. n[j] = Net(c)
    BY <1>3, <2>1
  <2> QED
    BY <2>4, <2>5, <2>6
<1>5. PICK x : x = [s \in statements |-> StatementTakes(p, s)]
  OBVIOUS
<1>6. SumOver(v, J) = SumOver(x, statements) /\ \A s \in statements : x[s] \in Int
  <2>1. \A j \in Takers(sells, p) :
          v[j] = SumOver([e \in AmitEvents(sells, p) |->
                            ReductionForUnits(e, parcels[p].units, sells[j].take[p], sells[j].date)],
                         AmitEvents(sells, p))
    BY <1>1, <1>3
  <2>2. \A s \in statements : x[s] = StatementTakes(p, s)
    BY <1>5
  <2>3. SumOver(v, Takers(sells, p)) = SumOver(x, statements) /\ \A s \in statements : x[s] \in Int
    BY <2>1, <2>2, StatementsCome
  <2> QED
    BY <1>1, <2>3
<1>7. SumOver(o, J) = parcels[p].cost
  <2>1. \A j \in Takers(sells, p) : o[j] = ProratedCost(p, sells[j].take[p])
    BY <1>1, <1>3
  <2> QED
    BY <1>1, <2>1, CostsCome
<1>8. SumOver(n, J) = SumOver(v, J) - SumOver(o, J) /\ \A j \in J : n[j] \in Int
  <2>1. \A j \in J : n[j] \in Int
    BY <1>4
  <2>2. \A j \in J : v[j] = n[j] + o[j]
    <3> SUFFICES ASSUME NEW j \in J PROVE v[j] = n[j] + o[j]
      OBVIOUS
    <3>1. PICK a \in Int, b \in Int : a = v[j] /\ b = o[j] /\ n[j] = a - b
      BY <1>4
    <3> QED
      BY <3>1
  <2>3. SumOver(v, J) = SumOver(n, J) + SumOver(o, J)
    BY <1>2, <1>4, <2>1, <2>2, SumPlus
  <2>4. PICK a \in Int, b \in Int : a = SumOver(n, J) /\ b = SumOver(o, J)
    BY <1>2, <1>4, <2>1, SumInt
  <2>5. a = (a + b) - b
    OBVIOUS
  <2> QED
    BY <2>1, <2>3, <2>4, <2>5
<1>9. Total({[cohort |-> c, amount |-> Net(c)] : c \in Cohorts(sells, p)}) = SumOver(n, J)
  <2>1. PICK g : g = [j \in J |-> [cohort |-> CohortOf(p, j), amount |-> Net(CohortOf(p, j))]]
    OBVIOUS
  <2>2. \A j \in J : n[j] \in Int /\ g[j].amount = n[j]
    BY <1>3, <1>8, <2>1
  <2>3. \A i, j \in J : g[i] = g[j] => i = j
    <3> SUFFICES ASSUME NEW i \in J, NEW j \in J, g[i] = g[j] PROVE i = j
      OBVIOUS
    <3>1. g[i].cohort = CohortOf(p, i) /\ g[j].cohort = CohortOf(p, j)
      BY <2>1
    <3>2. CohortOf(p, i).sell = i /\ CohortOf(p, j).sell = j
      BY DEF CohortOf
    <3> QED
      BY <3>1, <3>2
  <2>4. Total({g[j] : j \in J}) = SumOver(n, J)
    BY <1>2, <2>2, <2>3, MadeSum
  <2> HIDE DEF Net
  <2>5. {[cohort |-> c, amount |-> Net(c)] : c \in Cohorts(sells, p)} = {g[j] : j \in J}
    BY <1>2, <2>1
  <2> QED
    BY <2>4, <2>5
<1>10. Total({[statement |-> s, amount |-> StatementTakes(p, s)] : s \in statements})
         = SumOver(x, statements)
  <2>1. PICK g : g = [s \in statements |-> [statement |-> s, amount |-> StatementTakes(p, s)]]
    OBVIOUS
  <2>2. \A s \in statements : x[s] \in Int /\ g[s].amount = x[s]
    BY <1>5, <1>6, <2>1
  <2>3. \A s, t \in statements : g[s] = g[t] => s = t
    BY <2>1
  <2>4. IsFiniteSet(statements)
    BY DEF CgtInv, StatementsOK
  <2>5. Total({g[s] : s \in statements}) = SumOver(x, statements)
    BY <2>2, <2>3, <2>4, MadeSum
  <2> QED
    BY <2>1, <2>5
<1>11. Total({[cohort |-> c, amount |-> Net(c)] : c \in Cohorts(sells, p)})
         = Total({[statement |-> s, amount |-> StatementTakes(p, s)] : s \in statements})
           - parcels[p].cost
  <2> HIDE DEF Net
  <2> QED
    BY <1>6, <1>7, <1>8, <1>9, <1>10
<1> QED
  BY <1>11

\* A parcel as it is bought costs so much a unit.
LEMMA LotCost ==
    ASSUME NEW d \in BuyDays, NEW n \in LotUnits, NEW c \in UnitCosts
    PROVE  /\ NewLot(d, n, c).units \in LotUnits
           /\ \E u \in Int : NewLot(d, n, c).cost = u * NewLot(d, n, c).units
<1>1. c \in Int
  BY CgtAssumption
<1>2. NewLot(d, n, c).units = n /\ NewLot(d, n, c).cost = c * n
  BY DEF NewLot
<1> QED
  BY <1>1, <1>2

\* What was entered to begin with.
LEMMA SourcesStart == CgtInit => CgtSources
<1> SUFFICES ASSUME CgtInit PROVE CgtSources
  OBVIOUS
<1>1. PICK d \in BuyDays, n \in LotUnits, c \in UnitCosts :
        parcels = [p \in CgtParcels |-> IF p = 1 THEN NewLot(d, n, c) ELSE NoLot]
  BY DEF CgtInit
<1>2. payments = {} /\ statements = {}
  BY DEF CgtInit
<1>3. ASSUME NEW p \in Bought
      PROVE  parcels[p].units \in LotUnits /\ \E u \in Int : parcels[p].cost = u * parcels[p].units
  <2>1. parcels[p] = NewLot(d, n, c)
    BY <1>1 DEF Bought
  <2> QED
    BY <2>1, LotCost
<1> QED
  BY <1>2, <1>3 DEF CgtSources

\* Every write keeps a statement a year, records that are not after their payments, and
\* amounts that divide.
LEMMA SourcesStep == CgtSources /\ [CgtNext]_cgtVars => CgtSources'
<1> SUFFICES ASSUME CgtSources, [CgtNext]_cgtVars PROVE CgtSources'
  OBVIOUS
<1> USE DEF CgtSources
<1>1. CASE UNCHANGED <<parcels, payments, statements>>
  BY <1>1 DEF Bought
<1>2. ASSUME NEW p \in CgtParcels, NEW d \in BuyDays, NEW n \in LotUnits, NEW c \in UnitCosts,
             AcquireParcel(p, d, n, c)
      PROVE  CgtSources'
  <2>1. /\ parcels' = [parcels EXCEPT ![p] = NewLot(d, n, c)] /\ parcels[p] = NoLot
        /\ UNCHANGED <<payments, statements>>
    BY <1>2 DEF AcquireParcel
  <2>2. ASSUME NEW q \in Bought'
        PROVE  /\ parcels'[q].units \in LotUnits
               /\ \E u \in Int : parcels'[q].cost = u * parcels'[q].units
    <3>1. q \in CgtParcels /\ parcels'[q] # NoLot
      BY <2>2 DEF Bought
    <3>2. parcels'[q] = IF q = p /\ p \in DOMAIN parcels THEN NewLot(d, n, c) ELSE parcels[q]
      BY <2>1, <3>1
    <3>3. CASE parcels'[q] = NewLot(d, n, c)
      BY <3>3, LotCost
    <3>4. CASE parcels'[q] = parcels[q]
      BY <3>1, <3>4 DEF Bought
    <3> QED
      BY <3>2, <3>3, <3>4
  <2> QED
    BY <2>1, <2>2
<1>3. ASSUME NEW d \in PayDays, NEW r \in PayRates, NEW gap \in RecordGaps,
             PayCapital(d, r, gap)
      PROVE  CgtSources'
  <2>1. PICK pay : pay = [date |-> d, rate |-> r,
                          record |-> IF gap = NoRecord THEN NoRecord ELSE d - gap]
    OBVIOUS
  <2>2. payments' = payments \union {pay} /\ UNCHANGED <<parcels, statements>>
    BY <1>3, <2>1 DEF PayCapital
  <2>3. d \in CgtDay /\ d \in Nat
    BY CgtAssumption DEF CgtDay
  <2>4. gap \in Nat \/ gap = NoRecord
    BY CgtAssumption
  <2>5. pay.date \in CgtDay /\ pay.record <= pay.date
    BY <2>1, <2>3, <2>4 DEF NoRecord
  <2> QED
    BY <2>2, <2>5 DEF Bought
<1>4. ASSUME NEW y \in StatementYears, NEW r \in StatementRates, NEW g \in AttributedGains,
             EnterStatement(y, r, g)
      PROVE  CgtSources'
  <2>1. PICK s : s = [year |-> y, rate |-> r, gain |-> g]
    OBVIOUS
  <2>2. statements' = statements \union {s} /\ UNCHANGED <<parcels, payments>>
    BY <1>4, <2>1 DEF EnterStatement
  <2>3. \A t \in statements : t.year # y
    BY <1>4 DEF EnterStatement
  <2> QED
    BY <2>1, <2>2, <2>3 DEF Bought
<1>5. ASSUME NEW p \in CgtParcels, NEW s \in statements, NEW n \in 1 .. Max(LotUnits),
             CoverUnits(p, s, n)
      PROVE  CgtSources'
  BY <1>1, <1>5 DEF CoverUnits
<1>6. ASSUME NEW d \in SellDays, NEW take \in [CgtParcels -> 0 .. Max(LotUnits)],
             NEW price \in UnitProceeds, RecordSell(d, take, price)
      PROVE  CgtSources'
  BY <1>1, <1>6 DEF RecordSell
<1> QED
  BY <1>1, <1>2, <1>3, <1>4, <1>5, <1>6 DEF CgtNext, cgtVars

(***************************************************************************)
(* Of a parcel that is sold out, every dollar is taxed once: the gains and *)
(* losses of its sells (compute_realised_gains) and the gains without a    *)
(* disposal (non_disposal_gains) add up to the money it brought and what   *)
(* statements took off its cost, less that cost, for any parcels, days,    *)
(* payments, statements and order of the writes.                           *)
(***************************************************************************)
THEOREM EveryDollarAlwaysTaxedOnce == CgtSpec => []EveryDollarTaxedOnce
<1>1. CgtInit => CgtBooks /\ CgtSources
  BY BooksStart, SourcesStart
<1>2. (CgtBooks /\ CgtSources) /\ [CgtNext]_cgtVars => (CgtBooks /\ CgtSources)'
  BY BooksStep, SourcesStep
<1>3. CgtBooks /\ CgtSources => EveryDollarTaxedOnce
  BY BooksTaxOnce
<1> QED
  BY <1>1, <1>2, <1>3, PTL DEF CgtSpec

-----------------------------------------------------------------------------
(* The orders parcels are taken in. *)

\* A candidate parcel.
Cand == [acquired : Nat, quantity : Nat, gain : Int, eligible : BOOLEAN]

\* Candidates, by trade id.
CandsOK(cands) ==
    IsFiniteSet(DOMAIN cands) /\ DOMAIN cands \subseteq Nat /\ cands \in [DOMAIN cands -> Cand]

\* The order of the books is strict and of all parcels.
LEMMA EarlierIsOrder ==
    ASSUME NEW cands, CandsOK(cands), NEW p \in DOMAIN cands, NEW q \in DOMAIN cands,
           NEW r \in DOMAIN cands
    PROVE  /\ ~EarlierThan(cands, p, p)
           /\ EarlierThan(cands, p, q) /\ EarlierThan(cands, q, r) => EarlierThan(cands, p, r)
           /\ p # q => EarlierThan(cands, p, q) \/ EarlierThan(cands, q, p)
<1>1. PICK a \in Nat, b \in Nat, c \in Nat :
        a = cands[p].acquired /\ b = cands[q].acquired /\ c = cands[r].acquired
  BY DEF CandsOK, Cand
<1>2. p \in Nat /\ q \in Nat /\ r \in Nat
  BY DEF CandsOK
<1> QED
  BY <1>1, <1>2 DEF EarlierThan

\* So is the one by the gain a unit makes.
LEMMA CheaperIsOrder ==
    ASSUME NEW cands, CandsOK(cands), NEW p \in DOMAIN cands, NEW q \in DOMAIN cands,
           NEW r \in DOMAIN cands
    PROVE  /\ ~CheaperThan(cands, p, p)
           /\ CheaperThan(cands, p, q) /\ CheaperThan(cands, q, r) => CheaperThan(cands, p, r)
           /\ p # q => CheaperThan(cands, p, q) \/ CheaperThan(cands, q, p)
<1>1. PICK a \in Int, b \in Int, c \in Int :
        a = cands[p].gain /\ b = cands[q].gain /\ c = cands[r].gain
  BY DEF CandsOK, Cand
<1>2. /\ ~EarlierThan(cands, p, p)
      /\ EarlierThan(cands, p, q) /\ EarlierThan(cands, q, r) => EarlierThan(cands, p, r)
      /\ p # q => EarlierThan(cands, p, q) \/ EarlierThan(cands, q, p)
  BY EarlierIsOrder
<1> QED
  BY <1>1, <1>2 DEF CheaperThan

\* And the ones of the strategies max_discount,
LEMMA DiscountsIsOrder ==
    ASSUME NEW cands, CandsOK(cands), NEW p \in DOMAIN cands, NEW q \in DOMAIN cands,
           NEW r \in DOMAIN cands
    PROVE  /\ ~DiscountsBefore(cands, p, p)
           /\ DiscountsBefore(cands, p, q) /\ DiscountsBefore(cands, q, r)
                => DiscountsBefore(cands, p, r)
           /\ p # q => DiscountsBefore(cands, p, q) \/ DiscountsBefore(cands, q, p)
<1>1. PICK a \in Int, b \in Int, c \in Int :
        a = DiscountGroup(cands[p]) /\ b = DiscountGroup(cands[q]) /\ c = DiscountGroup(cands[r])
  BY DEF DiscountGroup
<1>2. /\ ~EarlierThan(cands, p, p)
      /\ EarlierThan(cands, p, q) /\ EarlierThan(cands, q, r) => EarlierThan(cands, p, r)
      /\ p # q => EarlierThan(cands, p, q) \/ EarlierThan(cands, q, p)
  BY EarlierIsOrder
<1> QED
  BY <1>1, <1>2 DEF DiscountsBefore

\* and harvest_losses.
LEMMA HarvestsIsOrder ==
    ASSUME NEW cands, CandsOK(cands), NEW p \in DOMAIN cands, NEW q \in DOMAIN cands,
           NEW r \in DOMAIN cands
    PROVE  /\ ~HarvestsBefore(cands, p, p)
           /\ HarvestsBefore(cands, p, q) /\ HarvestsBefore(cands, q, r)
                => HarvestsBefore(cands, p, r)
           /\ p # q => HarvestsBefore(cands, p, q) \/ HarvestsBefore(cands, q, p)
<1>1. PICK a \in Int, b \in Int, c \in Int :
        a = cands[p].gain /\ b = cands[q].gain /\ c = cands[r].gain
  BY DEF CandsOK, Cand
<1>2. /\ ~EarlierThan(cands, p, p)
      /\ EarlierThan(cands, p, q) /\ EarlierThan(cands, q, r) => EarlierThan(cands, p, r)
      /\ p # q => EarlierThan(cands, p, q) \/ EarlierThan(cands, q, p)
  BY EarlierIsOrder
<1>3. /\ ~CheaperThan(cands, p, p)
      /\ CheaperThan(cands, p, q) /\ CheaperThan(cands, q, r) => CheaperThan(cands, p, r)
      /\ p # q => CheaperThan(cands, p, q) \/ CheaperThan(cands, q, p)
  BY CheaperIsOrder
<1> QED
  BY <1>1, <1>2, <1>3 DEF HarvestsBefore

-----------------------------------------------------------------------------
(* What is taken of the parcels of an order. *)

\* The picks of parcels P, n units of them or all there are.
FairPicks(cands, P, n, picks) ==
    /\ picks \in [P -> Nat]
    /\ \A p \in P : picks[p] <= cands[p].quantity
    /\ Quantity(cands, P) \in Nat
    /\ SumOver(picks, P) = IF n <= Quantity(cands, P) THEN n ELSE Quantity(cands, P)

\* remaining_quantity.min(left).
LEMMA TakeOfIs ==
    ASSUME NEW c, c.quantity \in Nat, NEW n \in Nat, NEW behind \in Nat
    PROVE  TakeOf(c, n, behind) = TakenOf(n, c.quantity, behind)
<1>1. PICK x \in Int, y \in Int, z \in Int : x = c.quantity /\ y = n - behind /\ z = 0 /\ x >= 0
  OBVIOUS
<1>2. PICK m \in Int : m = Min({x, y}) /\ m = IF x <= y THEN x ELSE y
  BY MinMaxOfTwo
<1>3. Max({z, m}) = IF z <= m THEN m ELSE z
  BY MinMaxOfTwo
<1>4. TakeOf(c, n, behind) = Max({z, m})
  BY <1>1, <1>2 DEF TakeOf
<1>5. TakenOf(n, c.quantity, behind) = IF y <= z THEN z ELSE IF x <= y THEN x ELSE y
  BY <1>1 DEF TakenOf
<1>6. (IF z <= m THEN m ELSE z) = IF y <= z THEN z ELSE IF x <= y THEN x ELSE y
  <2>1. z = 0 /\ x >= 0
    BY <1>1
  <2>2. m = IF x <= y THEN x ELSE y
    BY <1>2
  <2>3. CASE y <= z
    BY <2>1, <2>2, <2>3
  <2>4. CASE ~(y <= z)
    BY <2>1, <2>2, <2>4
  <2> QED
    BY <2>3, <2>4
<1> QED
  BY <1>3, <1>4, <1>5, <1>6

\* Any order gives fair picks.
LEMMA OrderIsFair ==
    ASSUME NEW cands, CandsOK(cands), NEW P \in SUBSET DOMAIN cands, NEW n \in Nat,
           NEW ahead, Ordered(P, ahead), NEW picks,
           picks = [p \in P |-> TakeOf(cands[p], n, Quantity(cands, ahead[p]))]
    PROVE  FairPicks(cands, P, n, picks)
<1>1. PICK q : q = [p \in P |-> cands[p].quantity]
  OBVIOUS
<1>2. IsFiniteSet(P) /\ \A p \in P : cands[p].quantity \in Nat /\ q[p] = cands[p].quantity
  BY <1>1, FS_Subset DEF CandsOK, Cand
<1>3. ASSUME NEW A \in SUBSET P
      PROVE  Quantity(cands, A) = SumOver(q, A) /\ Quantity(cands, A) \in Nat
  <2>1. PICK f : f = [p \in A |-> cands[p].quantity]
    OBVIOUS
  <2>2. IsFiniteSet(A) /\ \A p \in A : f[p] = q[p] /\ f[p] \in Nat
    BY <1>2, <2>1, FS_Subset
  <2>3. SumOver(f, A) = SumOver(q, A)
    BY <2>2, SumCong
  <2>4. SumOver(f, A) \in Nat
    BY <2>2, SumNat
  <2> QED
    BY <2>1, <2>3, <2>4 DEF Quantity
<1>4. \A p \in P : picks[p] = TakenOf(n, q[p], SumOver(q, ahead[p]))
  <2> SUFFICES ASSUME NEW p \in P PROVE picks[p] = TakenOf(n, q[p], SumOver(q, ahead[p]))
    OBVIOUS
  <2>1. ahead[p] \in SUBSET P
    BY DEF Ordered
  <2>2. PICK b \in Nat : b = Quantity(cands, ahead[p]) /\ b = SumOver(q, ahead[p])
    BY <1>3, <2>1
  <2>3. TakeOf(cands[p], n, b) = TakenOf(n, cands[p].quantity, b)
    BY <1>2, TakeOfIs
  <2> QED
    BY <1>2, <2>2, <2>3
<1>5. /\ \A p \in P : picks[p] \in Nat /\ picks[p] <= q[p]
      /\ SumOver(picks, P) = IF n <= SumOver(q, P) THEN n ELSE SumOver(q, P)
  BY <1>2, <1>4, TakingInOrder
<1>6. picks \in [P -> Nat] /\ \A p \in P : picks[p] <= cands[p].quantity
  BY <1>2, <1>5
<1>7. Quantity(cands, P) = SumOver(q, P) /\ Quantity(cands, P) \in Nat
  BY <1>3
<1> QED
  BY <1>5, <1>6, <1>7 DEF FairPicks

\* The cheapest units of any of the parcels.
LEMMA CheapestIsFair ==
    ASSUME NEW cands, CandsOK(cands), NEW P \in SUBSET DOMAIN cands, NEW n \in Nat
    PROVE  FairPicks(cands, P, n, Cheapest(cands, P, n))
<1>1. PICK ahead : ahead = [p \in P |-> {q \in P : CheaperThan(cands, q, p)}]
  OBVIOUS
<1>2. Ordered(P, ahead)
  BY <1>1, CheaperIsOrder DEF Ordered
<1>3. Cheapest(cands, P, n) = [p \in P |-> TakeOf(cands[p], n, Quantity(cands, ahead[p]))]
  BY <1>1 DEF Cheapest, TakeInOrder
<1> QED
  BY <1>2, <1>3, OrderIsFair

\* The units of the three classes of parcels make up what there is.
LEMMA ThreeClasses ==
    ASSUME NEW cands, CandsOK(cands), NEW f, \A p \in DOMAIN cands : f[p] \in Int
    PROVE  SumOver(f, DOMAIN cands) = SumOver(f, LossParcels(cands))
             + (SumOver(f, OtherParcels(cands)) + SumOver(f, DiscountedParcels(cands)))
<1>1. PICK L \in SUBSET DOMAIN cands, O \in SUBSET DOMAIN cands, D \in SUBSET DOMAIN cands :
        L = LossParcels(cands) /\ O = OtherParcels(cands) /\ D = DiscountedParcels(cands)
  BY DEF LossParcels, OtherParcels, DiscountedParcels
<1>2. L \union (O \union D) = DOMAIN cands /\ L \cap (O \union D) = {} /\ O \cap D = {}
  <2>1. \A p \in DOMAIN cands : cands[p].gain \in Int
    BY DEF CandsOK, Cand
  <2>2. \A p \in DOMAIN cands : (cands[p].gain <= 0) <=> ~(cands[p].gain > 0)
    BY <2>1
  <2>3. \A p \in DOMAIN cands :
          /\ p \in L <=> ~(cands[p].gain > 0)
          /\ p \in O <=> cands[p].gain > 0 /\ ~cands[p].eligible
          /\ p \in D <=> cands[p].gain > 0 /\ cands[p].eligible
    BY <1>1, <2>2, Zenon DEF LossParcels, OtherParcels, DiscountedParcels
  <2> QED
    BY <2>3, Zenon
<1>3. IsFiniteSet(L) /\ IsFiniteSet(O) /\ IsFiniteSet(D) /\ IsFiniteSet(O \union D)
  <2>1. \A T \in SUBSET DOMAIN cands : IsFiniteSet(T)
    BY FS_Subset DEF CandsOK
  <2>2. O \union D \in SUBSET DOMAIN cands
    OBVIOUS
  <2> QED
    BY <2>1, <2>2
<1>4. SumOver(f, O \union D) = SumOver(f, O) + SumOver(f, D)
  BY <1>2, <1>3, SumDisjoint
<1>5. SumOver(f, L \union (O \union D)) = SumOver(f, L) + SumOver(f, O \union D)
  BY <1>2, <1>3, SumDisjoint
<1> QED
  BY <1>1, <1>2, <1>4, <1>5

-----------------------------------------------------------------------------
(* The strategies. *)

\* The units of some candidates.
LEMMA QuantityFacts ==
    ASSUME NEW cands, CandsOK(cands), NEW q, q = [p \in DOMAIN cands |-> cands[p].quantity],
           NEW P \in SUBSET DOMAIN cands
    PROVE  Quantity(cands, P) = SumOver(q, P) /\ Quantity(cands, P) \in Nat
<1>1. PICK f : f = [p \in P |-> cands[p].quantity]
  OBVIOUS
<1>2. IsFiniteSet(P) /\ \A p \in P : f[p] = q[p] /\ f[p] \in Nat
  BY <1>1, FS_Subset DEF CandsOK, Cand
<1>3. SumOver(f, P) = SumOver(q, P)
  BY <1>2, SumCong
<1>4. SumOver(f, P) \in Nat
  BY <1>2, SumNat
<1> QED
  BY <1>1, <1>3, <1>4 DEF Quantity

\* The gain of some picks is a whole amount.
LEMMA GainInt ==
    ASSUME NEW cands, CandsOK(cands), NEW P \in SUBSET DOMAIN cands, NEW picks \in [P -> Nat]
    PROVE  GainOf(cands, picks) \in Int
<1>1. PICK f : f = [p \in P |-> cands[p].gain * picks[p]]
  OBVIOUS
<1>2. \A p \in P : cands[p].gain \in Int /\ picks[p] \in Int
  BY DEF CandsOK, Cand
<1>3. \A p \in P : cands[p].gain * picks[p] \in Int
  BY <1>2
<1>4. IsFiniteSet(P) /\ \A p \in P : f[p] \in Int
  BY <1>1, <1>3, FS_Subset DEF CandsOK
<1>5. SumOver(f, P) \in Int
  BY <1>4, SumInt
<1>6. DOMAIN picks = P
  OBVIOUS
<1> QED
  BY <1>1, <1>5, <1>6 DEF GainOf

\* What is above nothing.
Above(x) == IF 0 <= x THEN x ELSE 0

\* A cost that falls and then does not, where each class goes straight on, turns
\* within a unit of where the loss runs out.
LEMMA TurnsAtLoss ==
    ASSUME NEW o \in Int, NEW g \in Int, g > 0, NEW c \in Int, NEW h \in Int, NEW loss \in Int,
           o + c + Above(o - loss) <= (o + g) + (c - h) + Above((o + g) - loss),
           o + c + Above(o - loss) < (o - g) + (c + h) + Above((o - g) - loss)
    PROVE  o - g < loss /\ loss < o + g
<1>1. CASE loss <= o - g
  <2>1. /\ Above(o - loss) = o - loss /\ Above((o + g) - loss) = (o + g) - loss
        /\ Above((o - g) - loss) = (o - g) - loss
    BY <1>1 DEF Above
  <2> QED
    BY <2>1
<1>2. CASE o + g <= loss
  <2>1. /\ Above(o - loss) = 0 /\ Above((o + g) - loss) = 0
        /\ Above((o - g) - loss) = 0
    BY <1>2 DEF Above
  <2> QED
    BY <2>1
<1> QED
  BY <1>1, <1>2

\* Who is cheaper in a class, and what each candidate has and makes a unit.
AheadIn(cands, P) == [p \in P |-> {q \in P : CheaperThan(cands, q, p)}]
UnitsOf(cands) == [p \in DOMAIN cands |-> cands[p].quantity]
GainsOf(cands) == [p \in DOMAIN cands |-> cands[p].gain]

\* The cheapest units are the first in the order of their gains.
LEMMA CheapestPriced ==
    ASSUME NEW cands, CandsOK(cands), NEW P \in SUBSET DOMAIN cands
    PROVE  /\ Priced(P, AheadIn(cands, P), UnitsOf(cands), GainsOf(cands))
           /\ \A n \in Nat : Cheapest(cands, P, n)
                               = FirstUnits(P, AheadIn(cands, P), UnitsOf(cands), n)
           /\ \A A \in SUBSET P : Quantity(cands, A) = SumOver(UnitsOf(cands), A)
<1>1. PICK q, v, ahead : /\ q = UnitsOf(cands) /\ v = GainsOf(cands)
                         /\ ahead = AheadIn(cands, P)
  OBVIOUS
<1>2. \A p \in P : /\ q[p] \in Nat /\ q[p] = cands[p].quantity
                   /\ v[p] \in Int /\ v[p] = cands[p].gain
  BY <1>1 DEF UnitsOf, GainsOf, CandsOK, Cand
<1>3. \A p \in P : ahead[p] = {r \in P : CheaperThan(cands, r, p)}
  BY <1>1 DEF AheadIn
<1>4. IsFiniteSet(P)
  BY FS_Subset DEF CandsOK
<1>5. Ordered(P, ahead)
  BY <1>3, CheaperIsOrder DEF Ordered
<1>6. \A p \in P : \A r \in ahead[p] : v[r] <= v[p]
  <2> SUFFICES ASSUME NEW p \in P, NEW r \in ahead[p] PROVE v[r] <= v[p]
    OBVIOUS
  <2>1. r \in P /\ CheaperThan(cands, r, p)
    BY <1>3
  <2>2. cands[r].gain < cands[p].gain \/ cands[r].gain = cands[p].gain
    BY <2>1 DEF CheaperThan
  <2> QED
    BY <1>2, <2>1, <2>2
<1>7. \A A \in SUBSET P : Quantity(cands, A) = SumOver(q, A)
  <2> SUFFICES ASSUME NEW A \in SUBSET P PROVE Quantity(cands, A) = SumOver(q, A)
    OBVIOUS
  <2>1. A \in SUBSET DOMAIN cands /\ q = [p \in DOMAIN cands |-> cands[p].quantity]
    BY <1>1 DEF UnitsOf
  <2> QED
    BY <2>1, QuantityFacts
<1>8. ASSUME NEW n \in Nat
      PROVE  Cheapest(cands, P, n) = FirstUnits(P, ahead, q, n)
  <2>1. PICK t : t = Cheapest(cands, P, n)
    OBVIOUS
  <2>2. t = [p \in P |-> TakeOf(cands[p], n, Quantity(cands, ahead[p]))]
    BY <1>1, <2>1 DEF Cheapest, TakeInOrder, AheadIn
  <2>3. ASSUME NEW p \in P PROVE t[p] = TakenOf(n, q[p], SumOver(q, ahead[p]))
    <3>1. ahead[p] \in SUBSET P
      BY <1>3
    <3>2. SumOver(q, ahead[p]) \in Nat
      BY <1>2, <1>4, <3>1, SumPart
    <3>3. PICK b \in Nat : b = Quantity(cands, ahead[p]) /\ b = SumOver(q, ahead[p])
      BY <1>7, <3>1, <3>2
    <3>4. TakeOf(cands[p], n, b) = TakenOf(n, cands[p].quantity, b)
      BY <1>2, TakeOfIs
    <3> QED
      BY <1>2, <2>2, <3>3, <3>4
  <2> QED
    BY <2>1, <2>2, <2>3 DEF FirstUnits
<1> QED
  BY <1>1, <1>2, <1>4, <1>5, <1>6, <1>7, <1>8 DEF Priced

\* What picks of some of the parcels gain.
LEMMA GainIsWorth ==
    ASSUME NEW cands, CandsOK(cands), NEW P \in SUBSET DOMAIN cands, NEW picks,
           DOMAIN picks = P
    PROVE  GainOf(cands, picks) = WorthOf(P, GainsOf(cands), picks)
<1>1. \A p \in P : GainsOf(cands)[p] = cands[p].gain
  BY DEF GainsOf
<1>2. [p \in P |-> cands[p].gain * picks[p]] = Products(P, GainsOf(cands), picks)
  BY <1>1 DEF Products
<1> QED
  BY <1>2 DEF GainOf, WorthOf

\* And so the gain of the cheapest units.
LEMMA PrefixIsWorth ==
    ASSUME NEW cands, CandsOK(cands), NEW P \in SUBSET DOMAIN cands, NEW n \in Nat
    PROVE  /\ PrefixGain(cands, P, n) = WorthOf(P, GainsOf(cands),
                 FirstUnits(P, AheadIn(cands, P), UnitsOf(cands), n))
           /\ PrefixGain(cands, P, n) \in Int
<1>1. Cheapest(cands, P, n) = FirstUnits(P, AheadIn(cands, P), UnitsOf(cands), n)
  BY CheapestPriced
<1>2. PICK t : t = Cheapest(cands, P, n)
  OBVIOUS
<1>3. t \in [P -> Nat]
  BY <1>2, CheapestIsFair DEF FairPicks
<1>4. GainOf(cands, t) = WorthOf(P, GainsOf(cands), t)
  BY <1>3, GainIsWorth
<1>5. GainOf(cands, t) \in Int
  BY <1>3, GainInt
<1> QED
  BY <1>1, <1>2, <1>4, <1>5 DEF PrefixGain

\* The cheaper ones and the parcel itself.
LEMMA UpToParcel ==
    ASSUME NEW cands, CandsOK(cands), NEW P \in SUBSET DOMAIN cands, NEW p \in P
    PROVE  /\ Quantity(cands, {r \in P : r = p \/ CheaperThan(cands, r, p)})
                = SumOver(UnitsOf(cands), AheadIn(cands, P)[p]) + UnitsOf(cands)[p]
           /\ SumOver(UnitsOf(cands), AheadIn(cands, P)[p]) \in Nat
<1>1. PICK q : q = UnitsOf(cands)
  OBVIOUS
<1>2. PICK A \in SUBSET P : A = AheadIn(cands, P)[p] /\ A = {r \in P : CheaperThan(cands, r, p)}
  BY DEF AheadIn
<1>3. p \notin A
  BY <1>2, CheaperIsOrder
<1>4. PICK T \in SUBSET P : T = A \union {p}
  OBVIOUS
<1>5. {r \in P : r = p \/ CheaperThan(cands, r, p)} = T
  BY <1>2, <1>4
<1>6. IsFiniteSet(P) /\ IsFiniteSet(T) /\ IsFiniteSet(A) /\ p \in T /\ T \ {p} = A
  BY <1>3, <1>4, FS_Subset DEF CandsOK
<1>7. \A r \in P : q[r] \in Nat /\ q[r] \in Int
  BY <1>1 DEF UnitsOf, CandsOK, Cand
<1>8. SumOver(q, T) = q[p] + SumOver(q, T \ {p})
  BY <1>6, <1>7, SumSplit
<1>9. SumOver(q, A) \in Nat
  BY <1>6, <1>7, SumNat
<1>10. PICK x \in Nat, y \in Nat : x = q[p] /\ y = SumOver(q, A)
  BY <1>7, <1>9
<1>11. SumOver(q, T) = y + x
  <2>1. SumOver(q, T) = x + y
    BY <1>6, <1>8, <1>10
  <2> QED
    BY <2>1
<1>12. Quantity(cands, T) = SumOver(q, T)
  BY <1>1, CheapestPriced
<1> QED
  BY <1>1, <1>2, <1>5, <1>10, <1>11, <1>12

\* What the parcels ahead gain, sold out.
LEMMA GainAhead ==
    ASSUME NEW cands, CandsOK(cands), NEW P \in SUBSET DOMAIN cands, NEW p \in P
    PROVE  LET ahead == {q \in P : CheaperThan(cands, q, p)}
           IN  GainOf(cands, [q \in ahead |-> cands[q].quantity])
                 = SumOver(Products(P, GainsOf(cands), UnitsOf(cands)), AheadIn(cands, P)[p])
<1>1. PICK A \in SUBSET P : A = AheadIn(cands, P)[p] /\ A = {r \in P : CheaperThan(cands, r, p)}
  BY DEF AheadIn
<1>2. PICK picks : picks = [r \in A |-> cands[r].quantity]
  OBVIOUS
<1>3. PICK f, g : /\ f = [r \in A |-> cands[r].gain * picks[r]]
                  /\ g = Products(P, GainsOf(cands), UnitsOf(cands))
  OBVIOUS
<1>4. \A r \in A : f[r] = g[r]
  BY <1>2, <1>3 DEF Products, GainsOf, UnitsOf
<1>5. IsFiniteSet(A)
  BY FS_Subset DEF CandsOK
<1>6. SumOver(f, A) = SumOver(g, A)
  BY <1>4, <1>5, SumCong
<1>7. GainOf(cands, picks) = SumOver(f, A)
  BY <1>2, <1>3 DEF GainOf
<1> QED
  BY <1>1, <1>2, <1>3, <1>6, <1>7

\* How many units min_gain may take of the others, what that costs, and the
\* numbers it looks at: the ends of what it may take, and the breakpoints.
InReach(cands, left, k) ==
    /\ k \in Nat /\ left - k \in Nat
    /\ k <= Quantity(cands, OtherParcels(cands))
    /\ left - k <= Quantity(cands, DiscountedParcels(cands))

MixCost(cands, left, loss, k) ==
    PrefixGain(cands, OtherParcels(cands), k)
      + PrefixGain(cands, DiscountedParcels(cands), left - k)
      + Above(PrefixGain(cands, OtherParcels(cands), k) - loss)

Looked(cands, left, loss, k) ==
    \/ k \in Breakpoints(cands, OtherParcels(cands), DiscountedParcels(cands), left, loss)
    \/ ~InReach(cands, left, k - 1) \/ ~InReach(cands, left, k + 1)

\* How many units there are up to and with each parcel of a class.
EndsOf(cands, P) ==
    [p \in P |-> SumOver(UnitsOf(cands), AheadIn(cands, P)[p]) + UnitsOf(cands)[p]]

\* Counted from all the units there are to take.
EndBack(cands, P, left, p) == left - EndsOf(cands, P)[p]

\* The breakpoints of the parcels' ends.
LEMMA EndsAreBreakpoints ==
    ASSUME NEW cands, CandsOK(cands), NEW P \in SUBSET DOMAIN cands,
           NEW R \in SUBSET DOMAIN cands, NEW left, NEW loss
    PROVE  /\ \A p \in P : EndsOf(cands, P)[p] \in Breakpoints(cands, P, R, left, loss)
           /\ \A p \in R : EndBack(cands, R, left, p) \in Breakpoints(cands, P, R, left, loss)
<1>1. ASSUME NEW p \in P
      PROVE  EndsOf(cands, P)[p] \in Breakpoints(cands, P, R, left, loss)
  <2>1. PICK x : x = Quantity(cands, {r \in P : r = p \/ CheaperThan(cands, r, p)})
    OBVIOUS
  <2>2. x \in Breakpoints(cands, P, R, left, loss)
    BY <2>1 DEF Breakpoints
  <2>3. x = EndsOf(cands, P)[p]
    BY <2>1, UpToParcel DEF EndsOf
  <2> QED
    BY <2>2, <2>3
<1>2. ASSUME NEW p \in R
      PROVE  EndBack(cands, R, left, p) \in Breakpoints(cands, P, R, left, loss)
  <2>1. PICK x : x = Quantity(cands, {r \in R : r = p \/ CheaperThan(cands, r, p)})
    OBVIOUS
  <2>2. left - x \in Breakpoints(cands, P, R, left, loss)
    BY <2>1 DEF Breakpoints
  <2>3. x = EndsOf(cands, R)[p]
    BY <2>1, UpToParcel DEF EndsOf
  <2> QED
    BY <2>2, <2>3 DEF EndBack
<1> QED
  BY <1>1, <1>2

\* p of the class P, with b units and a gain of x ahead of it, has u units that gain g each.
LotIs(cands, P, p, b, x, g, u) ==
    /\ p \in P /\ b \in Nat /\ x \in Int /\ g \in Int /\ u \in Nat
    /\ b = SumOver(UnitsOf(cands), AheadIn(cands, P)[p])
    /\ x = SumOver(Products(P, GainsOf(cands), UnitsOf(cands)), AheadIn(cands, P)[p])
    /\ g = GainsOf(cands)[p] /\ u = UnitsOf(cands)[p]

\* And where the loss runs out in a parcel.
LEMMA CrossingIsBreakpoint ==
    ASSUME NEW cands, CandsOK(cands), NEW P \in SUBSET DOMAIN cands, NEW R, NEW left,
           NEW loss \in Int, NEW p, NEW b, NEW x, NEW g, NEW u, LotIs(cands, P, p, b, x, g, u),
           x < loss, loss <= x + g * u, NEW y, y = loss - x,
           NEW n, n = y \div g \/ n = (y + g - 1) \div g, NEW m, m = b + n
    PROVE  m \in Breakpoints(cands, P, R, left, loss)
<1>1. PICK A \in SUBSET P : A = {q \in P : CheaperThan(cands, q, p)} /\ A = AheadIn(cands, P)[p]
  BY DEF AheadIn, LotIs
<1>2. GainOf(cands, [q \in A |-> cands[q].quantity]) = x
  BY <1>1, GainAhead DEF LotIs
<1>3. Quantity(cands, A) = b
  BY <1>1, CheapestPriced DEF LotIs
<1>4. /\ p \in P /\ cands[p].gain = g /\ cands[p].quantity = u
      /\ b \in Nat /\ x \in Int /\ g \in Int /\ u \in Nat
  BY DEF GainsOf, UnitsOf, LotIs
<1>5. PICK C : C = {b + (loss - x) \div g, b + (loss - x + g - 1) \div g}
  OBVIOUS
<1>6. C \subseteq Crossings(cands, P, loss)
  <2> DEFINE behind(r) == {s \in P : CheaperThan(cands, s, r)}
             before(r) == GainOf(cands, [s \in behind(r) |-> cands[s].quantity])
             near(r) == IF before(r) < loss /\ loss <= before(r) + cands[r].gain * cands[r].quantity
                        THEN {Quantity(cands, behind(r)) + (loss - before(r)) \div cands[r].gain,
                              Quantity(cands, behind(r))
                                + (loss - before(r) + cands[r].gain - 1) \div cands[r].gain}
                        ELSE {}
  <2>1. Crossings(cands, P, loss) = UNION {near(r) : r \in P}
    BY DEF Crossings
  <2>2. behind(p) = A
    BY <1>1
  <2>3. before(p) = x
    BY <1>2, <2>2
  <2> HIDE DEF behind, before
  <2>4. near(p) = C
    BY <1>3, <1>4, <1>5, <2>2, <2>3
  <2> HIDE DEF near
  <2> QED
    BY <1>4, <2>1, <2>4
<1>7. Crossings(cands, P, loss) \subseteq Breakpoints(cands, P, R, left, loss)
  BY DEF Breakpoints
<1>8. m \in C
  BY <1>5
<1> QED
  BY <1>6, <1>7, <1>8

\* Around m, the cheapest units of the class P are p's.
GoesStraight(cands, P, m, p, b, x, g, u) ==
    /\ LotIs(cands, P, p, b, x, g, u)
    /\ b < m /\ m < b + u
    /\ PrefixGain(cands, P, m) = x + g * (m - b)
    /\ PrefixGain(cands, P, m + 1) = x + g * ((m + 1) - b)
    /\ PrefixGain(cands, P, m - 1) = x + g * ((m - 1) - b)

\* Strictly between the ends of the parcels, the units are of one parcel.
LEMMA ClassGoesStraight ==
    ASSUME NEW cands, CandsOK(cands), NEW P \in SUBSET DOMAIN cands, NEW m \in Nat,
           0 < m, m < Quantity(cands, P), \A p \in P : m # EndsOf(cands, P)[p]
    PROVE  \E p, b, x, g, u : GoesStraight(cands, P, m, p, b, x, g, u)
<1>1. PICK q, v, ahead : q = UnitsOf(cands) /\ v = GainsOf(cands) /\ ahead = AheadIn(cands, P)
  OBVIOUS
<1>2. Priced(P, ahead, q, v) /\ Quantity(cands, P) = SumOver(q, P)
  BY <1>1, CheapestPriced
<1>3. Straight(P, ahead, q, v, m)
  <2>1. \A p \in P : m # SumOver(q, ahead[p]) + q[p]
    BY <1>1 DEF EndsOf
  <2> QED
    BY <1>2, <2>1, InsideParcel
<1>4. PICK p \in P :
       /\ SumOver(q, ahead[p]) \in Nat /\ SumOver(Products(P, v, q), ahead[p]) \in Int
       /\ SumOver(q, ahead[p]) < m /\ m < SumOver(q, ahead[p]) + q[p]
       /\ \A k \in {m - 1, m, m + 1} :
             WorthOf(P, v, FirstUnits(P, ahead, q, k))
               = SumOver(Products(P, v, q), ahead[p]) + v[p] * (k - SumOver(q, ahead[p]))
  BY <1>3 DEF Straight
<1>5. v[p] \in Int /\ q[p] \in Nat
  BY <1>2 DEF Priced
<1>6. PICK b \in Nat, x \in Int, g \in Int, u \in Nat :
        /\ b = SumOver(q, ahead[p]) /\ x = SumOver(Products(P, v, q), ahead[p])
        /\ g = v[p] /\ u = q[p]
  BY <1>4, <1>5
<1>7. ASSUME NEW k \in {m - 1, m, m + 1} PROVE PrefixGain(cands, P, k) = x + g * (k - b)
  <2>1. k \in Nat
    OBVIOUS
  <2>2. PrefixGain(cands, P, k) = WorthOf(P, v, FirstUnits(P, ahead, q, k))
    BY <1>1, <2>1, PrefixIsWorth
  <2> QED
    BY <1>4, <1>6, <2>2
<1>8. b < m /\ m < b + u
  BY <1>4, <1>6
<1>9. LotIs(cands, P, p, b, x, g, u)
  BY <1>1, <1>6 DEF LotIs
<1>10. GoesStraight(cands, P, m, p, b, x, g, u)
  BY <1>7, <1>8, <1>9 DEF GoesStraight
<1> QED
  BY <1>10

\* Of the numbers within reach, the looked-at ones have the least cost among them.
LEMMA LeastIsLooked ==
    ASSUME NEW cands, CandsOK(cands), NEW left \in Nat, NEW loss \in Int, NEW k,
           InReach(cands, left, k),
           \A x : InReach(cands, left, x) /\ Looked(cands, left, loss, x)
                    => MixCost(cands, left, loss, k) <= MixCost(cands, left, loss, x)
    PROVE  \A x : InReach(cands, left, x)
                    => /\ MixCost(cands, left, loss, k) \in Int
                       /\ MixCost(cands, left, loss, x) \in Int
                       /\ MixCost(cands, left, loss, k) <= MixCost(cands, left, loss, x)
<1>1. PICK O \in SUBSET DOMAIN cands, D \in SUBSET DOMAIN cands :
        O = OtherParcels(cands) /\ D = DiscountedParcels(cands)
  BY DEF OtherParcels, DiscountedParcels
<1>2. PICK W \in SUBSET (0 .. left) : W = {x \in 0 .. left : InReach(cands, left, x)}
  OBVIOUS
<1>3. \A x : x \in W <=> InReach(cands, left, x)
  BY <1>2 DEF InReach
<1>4. IsFiniteSet(W) /\ W \subseteq Int /\ k \in W
  <2>1. IsFiniteSet(0 .. left)
    BY FS_Interval
  <2>2. IsFiniteSet(W)
    BY <2>1, FS_Subset
  <2> QED
    BY <1>3, <2>2
<1>5. PICK f : f = [x \in W |-> MixCost(cands, left, loss, x)]
  OBVIOUS
<1>6. ASSUME NEW x \in W
      PROVE  \E o \in Int, d \in Int :
                /\ o = PrefixGain(cands, O, x) /\ d = PrefixGain(cands, D, left - x)
                /\ f[x] = o + d + Above(o - loss) /\ f[x] \in Int
  <2>1. x \in Nat /\ left - x \in Nat
    BY <1>3 DEF InReach
  <2>2. PICK o \in Int, d \in Int :
          o = PrefixGain(cands, O, x) /\ d = PrefixGain(cands, D, left - x)
    BY <2>1, PrefixIsWorth
  <2>3. f[x] = o + d + Above(o - loss)
    BY <1>1, <1>5, <2>2 DEF MixCost
  <2>4. Above(o - loss) \in Int
    BY DEF Above
  <2> QED
    BY <2>2, <2>3, <2>4
<1>7. PICK m \in W : \A x \in W : f[m] < f[x] \/ (f[m] = f[x] /\ m <= x)
  <2>1. \A x \in W : f[x] \in Int
    BY <1>6
  <2>2. W # {}
    BY <1>4
  <2> QED
    BY <1>4, <2>1, <2>2, CheapestNumber
<1>8. Looked(cands, left, loss, m)
  <2> SUFFICES ASSUME ~Looked(cands, left, loss, m) PROVE FALSE
    OBVIOUS
  <2>1. m \notin Breakpoints(cands, O, D, left, loss) /\ m - 1 \in W /\ m + 1 \in W
    BY <1>1, <1>3 DEF Looked
  <2>2. PICK Qo \in Nat, Qd \in Nat : Qo = Quantity(cands, O) /\ Qd = Quantity(cands, D)
    <3>1. UnitsOf(cands) = [p \in DOMAIN cands |-> cands[p].quantity]
      BY DEF UnitsOf
    <3> QED
      BY <3>1, QuantityFacts
  <2>3. PICK w \in Nat : w = left - m
    BY <1>3 DEF InReach
  <2>4. m \in Nat /\ 0 < m /\ m < Qo
    <3>1. m - 1 \in Nat /\ m + 1 <= Qo /\ m \in Nat
      BY <1>1, <1>3, <2>1, <2>2 DEF InReach
    <3> QED
      BY <3>1
  <2>5. 0 < w /\ w < Qd
    <3>1. left - (m + 1) \in Nat /\ left - (m - 1) <= Qd
      BY <1>1, <1>3, <2>1, <2>2 DEF InReach
    <3> QED
      BY <2>3, <2>4, <3>1
  <2>6. \A p \in O : m # EndsOf(cands, O)[p]
    <3>1. \A p \in O : EndsOf(cands, O)[p] \in Breakpoints(cands, O, D, left, loss)
      BY EndsAreBreakpoints, Zenon
    <3> QED
      BY <2>1, <3>1
  <2>7. \A p \in D : w # EndsOf(cands, D)[p]
    <3>1. \A p \in D : EndBack(cands, D, left, p) \in Breakpoints(cands, O, D, left, loss)
      BY EndsAreBreakpoints, Zenon
    <3>2. left - w = m
      BY <2>3, <2>4
    <3> QED
      BY <2>1, <3>1, <3>2 DEF EndBack
  <2>8. \E p, b, x, g, u : GoesStraight(cands, O, m, p, b, x, g, u)
    BY <2>2, <2>4, <2>6, ClassGoesStraight
  <2>9. \A p, b, x, g, u : GoesStraight(cands, O, m, p, b, x, g, u)
           => p \in O /\ b \in Nat /\ x \in Int /\ g \in Int /\ u \in Nat
    BY DEF GoesStraight, LotIs
  <2>10. PICK p \in O, b \in Nat, x \in Int, g \in Int, u \in Nat :
           GoesStraight(cands, O, m, p, b, x, g, u)
    BY <2>8, <2>9
  <2>11. /\ LotIs(cands, O, p, b, x, g, u)
         /\ p \in O /\ b \in Nat /\ x \in Int /\ g \in Int /\ u \in Nat /\ g = GainsOf(cands)[p]
         /\ b < m /\ m < b + u
         /\ PrefixGain(cands, O, m) = x + g * (m - b)
         /\ PrefixGain(cands, O, m + 1) = x + g * ((m + 1) - b)
         /\ PrefixGain(cands, O, m - 1) = x + g * ((m - 1) - b)
    BY <2>10 DEF GoesStraight, LotIs
  <2>12. PICK c \in Int, h \in Int :
              /\ PrefixGain(cands, D, w) = c
              /\ PrefixGain(cands, D, w + 1) = c + h
              /\ PrefixGain(cands, D, w - 1) = c - h
    <3>1. \E r, bb, y, hh, uu : GoesStraight(cands, D, w, r, bb, y, hh, uu)
      BY <2>2, <2>5, <2>7, ClassGoesStraight
    <3>2. PICK bb \in Nat, y \in Int, hh \in Int :
              /\ PrefixGain(cands, D, w) = y + hh * (w - bb)
              /\ PrefixGain(cands, D, w + 1) = y + hh * ((w + 1) - bb)
              /\ PrefixGain(cands, D, w - 1) = y + hh * ((w - 1) - bb)
      BY <3>1 DEF GoesStraight, LotIs
    <3>3. PICK e \in Int : e = hh * (w - bb)
      OBVIOUS
    <3>4. hh * ((w + 1) - bb) = e + hh /\ hh * ((w - 1) - bb) = e - hh
      BY <3>3
    <3>5. PICK c \in Int : c = y + e
      OBVIOUS
    <3>6. PrefixGain(cands, D, w + 1) = c + hh
      BY <3>2, <3>4, <3>5
    <3>7. PrefixGain(cands, D, w - 1) = c - hh
      BY <3>2, <3>4, <3>5
    <3> QED
      BY <3>2, <3>3, <3>5, <3>6, <3>7
  <2>13. PICK z \in Int, o \in Int : z = g * (m - b) /\ o = x + z
    OBVIOUS
  <2>14. /\ PrefixGain(cands, O, m) = o
         /\ PrefixGain(cands, O, m + 1) = o + g
         /\ PrefixGain(cands, O, m - 1) = o - g
    <3>1. g * ((m + 1) - b) = z + g /\ g * ((m - 1) - b) = z - g
      BY <2>13
    <3>2. x + (z + g) = o + g /\ x + (z - g) = o - g
      BY <2>13
    <3> QED
      BY <2>11, <2>13, <3>1, <3>2
  <2>15. /\ left - m = w /\ left - (m + 1) = w - 1 /\ left - (m - 1) = w + 1
    BY <2>3, <2>4
  <2>16. /\ f[m] = o + c + Above(o - loss)
         /\ f[m + 1] = (o + g) + (c - h) + Above((o + g) - loss)
         /\ f[m - 1] = (o - g) + (c + h) + Above((o - g) - loss)
    <3>1. f[m] = o + c + Above(o - loss)
      BY <1>6, <2>12, <2>14, <2>15
    <3>2. f[m + 1] = (o + g) + (c - h) + Above((o + g) - loss)
      BY <1>6, <2>1, <2>12, <2>14, <2>15
    <3>3. f[m - 1] = (o - g) + (c + h) + Above((o - g) - loss)
      BY <1>6, <2>1, <2>12, <2>14, <2>15
    <3> QED
      BY <3>1, <3>2, <3>3
  <2>17. f[m] <= f[m + 1] /\ f[m] < f[m - 1]
    <3>1. f[m] \in Int /\ f[m + 1] \in Int /\ f[m - 1] \in Int
      BY <1>6, <2>1
    <3>2. ~(m <= m - 1)
      BY <2>4
    <3> QED
      BY <1>7, <2>1, <3>1, <3>2
  <2>18. g > 0
    <3>1. cands[p].gain > 0 /\ p \in DOMAIN cands
      BY <1>1 DEF OtherParcels
    <3> QED
      BY <2>11, <3>1 DEF GainsOf
  <2>19. o - g < loss /\ loss < o + g
    <3>1. o + c + Above(o - loss) <= (o + g) + (c - h) + Above((o + g) - loss)
      BY <2>16, <2>17
    <3>2. o + c + Above(o - loss) < (o - g) + (c + h) + Above((o - g) - loss)
      BY <2>16, <2>17
    <3> QED
      BY <2>18, <3>1, <3>2, TurnsAtLoss
  <2>20. PICK n \in Int, y \in Int : n = m - b /\ y = loss - x
    OBVIOUS
  <2>21. g * n - g < y /\ y < g * n + g
    <3>1. z = g * n
      BY <2>13, <2>20
    <3>2. z - g < y /\ y < z + g
      BY <2>13, <2>19, <2>20
    <3> QED
      BY <3>1, <3>2
  <2>22. n = y \div g \/ n = (y + g - 1) \div g
    BY <2>18, <2>21, LossRunsOutAt
  <2>23. n >= 1 /\ n + 1 <= u
    BY <2>4, <2>11, <2>20
  <2>24. x < loss /\ loss <= x + g * u
    <3>1. g * n >= g
      BY <2>18, <2>23
    <3>2. g * n + g <= g * u
      <4>1. PICK e \in Nat : u = n + 1 + e
        <5>1. u - (n + 1) \in Nat
          BY <2>23
        <5>2. u = n + 1 + (u - (n + 1))
          OBVIOUS
        <5> QED
          BY <5>1, <5>2
      <4>2. g * u = g * n + g + g * e
        BY <4>1
      <4>3. g * e >= 0
        BY <2>18
      <4>4. PICK i \in Int, j \in Int : i = g * n /\ j = g * e
        OBVIOUS
      <4> QED
        BY <4>2, <4>3, <4>4
    <3>3. PICK i \in Int, j \in Int : i = g * n /\ j = g * u
      OBVIOUS
    <3>4. i >= g /\ i + g <= j /\ i - g < y /\ y < i + g
      BY <2>21, <3>1, <3>2, <3>3
    <3>5. 0 < y /\ y <= j
      BY <3>4
    <3> QED
      BY <2>20, <3>3, <3>5
  <2>25. m = b + n
    BY <2>4, <2>20, <2>11
  <2>26. m \in Breakpoints(cands, O, D, left, loss)
    BY <2>20, <2>22, <2>24, <2>25, <2>11, CrossingIsBreakpoint
  <2> QED
    BY <2>1, <2>26
<1>9. f[k] <= f[m]
  <2>1. MixCost(cands, left, loss, k) <= MixCost(cands, left, loss, m)
    BY <1>3, <1>8
  <2> QED
    BY <1>4, <1>5, <2>1
<1>10. ASSUME NEW x \in W PROVE f[k] \in Int /\ f[x] \in Int /\ f[k] <= f[x]
  <2>1. PICK i \in Int, j \in Int, l \in Int : i = f[k] /\ j = f[x] /\ l = f[m]
    BY <1>4, <1>6
  <2>2. i <= l /\ l <= j
    BY <1>7, <1>9, <2>1
  <2> QED
    BY <2>1, <2>2
<1> QED
  BY <1>3, <1>4, <1>5, <1>10

\* What min_gain takes: losses first, some units of the others, and
\* discountable ones for the rest.
MixedPicks(cands, n, k, left) ==
    [p \in DOMAIN cands |->
        IF p \in LossParcels(cands) THEN Cheapest(cands, LossParcels(cands), n)[p]
        ELSE IF p \in OtherParcels(cands) THEN Cheapest(cands, OtherParcels(cands), k)[p]
        ELSE Cheapest(cands, DiscountedParcels(cands), left - k)[p]]

\* The loss that the cheapest of the losing parcels' units make.
LossMade(cands, n) == -GainOf(cands, Cheapest(cands, LossParcels(cands), n))

\* Of the numbers looked at within reach, none costs less than k.
LeastLooked(cands, left, loss, k) ==
    \A x : InReach(cands, left, x) /\ Looked(cands, left, loss, x)
             => MixCost(cands, left, loss, k) <= MixCost(cands, left, loss, x)

\* How many units it may take of the others.
LEMMA MinGainMixes ==
    ASSUME NEW cands, CandsOK(cands), NEW n \in Nat,
           n <= Quantity(cands, DOMAIN cands)
    PROVE  \E left \in Nat, k \in Nat :
              /\ left = n - (IF n <= Quantity(cands, LossParcels(cands)) THEN n
                             ELSE Quantity(cands, LossParcels(cands)))
              /\ k <= Quantity(cands, OtherParcels(cands)) /\ k <= left
              /\ left - k <= Quantity(cands, DiscountedParcels(cands))
              /\ MinGainPicks(cands, n) = MixedPicks(cands, n, k, left)
              /\ LeastLooked(cands, left, LossMade(cands, n), k)
<1> DEFINE losses == LossParcels(cands)
           other == OtherParcels(cands)
           discounted == DiscountedParcels(cands)
           lossPicks == Cheapest(cands, losses, n)
           left == n - Min({n, Quantity(cands, losses)})
           loss == -GainOf(cands, lossPicks)
           lo == Max({0, left - Quantity(cands, discounted)})
           hi == Min({left, Quantity(cands, other)})
           cost(k) == LET o == PrefixGain(cands, other, k)
                      IN  o + PrefixGain(cands, discounted, left - k) + Max({o - loss, 0})
           within == {k \in {lo, hi} \union
                            Breakpoints(cands, other, discounted, left, loss) :
                        k \in lo..hi}
           costs == {<<cost(k), k>> : k \in within}
           best == CHOOSE c \in costs : \A x \in costs :
                       c[1] < x[1] \/ (c[1] = x[1] /\ c[2] <= x[2])
<1>1. MinGainPicks(cands, n) = MixedPicks(cands, n, best[2], left)
  BY DEF MinGainPicks, MixedPicks
<1>2. PICK q : q = [p \in DOMAIN cands |-> cands[p].quantity]
  OBVIOUS
<1>3. /\ losses \in SUBSET DOMAIN cands /\ other \in SUBSET DOMAIN cands
      /\ discounted \in SUBSET DOMAIN cands
  BY DEF LossParcels, OtherParcels, DiscountedParcels
<1>4. PICK Ql \in Nat, Qo \in Nat, Qd \in Nat, Q \in Nat :
        /\ Ql = Quantity(cands, losses) /\ Ql = SumOver(q, losses)
        /\ Qo = Quantity(cands, other) /\ Qo = SumOver(q, other)
        /\ Qd = Quantity(cands, discounted) /\ Qd = SumOver(q, discounted)
        /\ Q = Quantity(cands, DOMAIN cands) /\ Q = SumOver(q, DOMAIN cands)
  <2>1. DOMAIN cands \in SUBSET DOMAIN cands
    OBVIOUS
  <2> HIDE DEF losses, other, discounted
  <2> QED
    BY <1>2, <1>3, <2>1, QuantityFacts
<1>5. Q = Ql + (Qo + Qd)
  <2>1. \A p \in DOMAIN cands : q[p] \in Int
    BY <1>2 DEF CandsOK, Cand
  <2>2. SumOver(q, DOMAIN cands) = SumOver(q, losses) + (SumOver(q, other) + SumOver(q, discounted))
    BY <2>1, ThreeClasses
  <2> QED
    BY <1>4, <2>2
<1>6. PICK l \in Nat : l = left /\ l = n - (IF n <= Ql THEN n ELSE Ql)
  <2>1. PICK m \in Int : m = Min({n, Ql}) /\ m = IF n <= Ql THEN n ELSE Ql
    BY MinMaxOfTwo
  <2>2. left = n - m
    BY <1>4, <2>1
  <2> QED
    BY <2>1, <2>2
<1>7. PICK a \in Int : a = lo /\ a = IF 0 <= l - Qd THEN l - Qd ELSE 0
  <2>1. PICK x \in Int, z \in Int : x = l - Qd /\ z = 0
    OBVIOUS
  <2>2. Max({z, x}) \in Int /\ Max({z, x}) = IF z <= x THEN x ELSE z
    BY MinMaxOfTwo
  <2>3. lo = Max({z, x})
    BY <1>4, <1>6, <2>1
  <2> QED
    BY <2>1, <2>2, <2>3
<1>8. PICK b \in Int : b = hi /\ b = IF l <= Qo THEN l ELSE Qo
  <2>1. PICK x \in Int : x = Min({l, Qo}) /\ x = IF l <= Qo THEN l ELSE Qo
    BY MinMaxOfTwo
  <2> QED
    BY <1>4, <1>6, <2>1
<1>9. a <= b /\ a >= 0
  <2>1. n <= Ql + (Qo + Qd)
    BY <1>4, <1>5
  <2>2. l = n - (IF n <= Ql THEN n ELSE Ql)
    BY <1>6
  <2>3. l <= Qo + Qd
    BY <2>1, <2>2
  <2>4. a = (IF 0 <= l - Qd THEN l - Qd ELSE 0) /\ b = IF l <= Qo THEN l ELSE Qo
    BY <1>7, <1>8
  <2> QED
    BY <2>3, <2>4
<1> HIDE DEF left, lo, hi
<1>10. IsFiniteSet(within) /\ within \subseteq a .. b /\ within # {}
  <2>1. IsFiniteSet(a .. b)
    BY FS_Interval
  <2>2. within \subseteq a .. b
    BY <1>7, <1>8
  <2>3. a \in within
    BY <1>7, <1>8, <1>9
  <2> HIDE DEF within
  <2>4. IsFiniteSet(within)
    BY <2>1, <2>2, FS_Subset
  <2> QED
    BY <2>2, <2>3, <2>4
<1>11. PICK ls \in Int : ls = loss
  <2>1. lossPicks \in [losses -> Nat]
    BY <1>3, CheapestIsFair DEF FairPicks
  <2> HIDE DEF losses, lossPicks
  <2>2. PICK g \in Int : g = GainOf(cands, lossPicks)
    BY <1>3, <2>1, GainInt
  <2> QED
    BY <2>2
<1> HIDE DEF loss, losses, other, discounted
<1>12. ASSUME NEW k \in within
       PROVE  cost(k) \in Int /\ cost(k) = MixCost(cands, left, ls, k)
  <2>1. k \in Nat /\ l - k \in Nat
    BY <1>8, <1>9, <1>10
  <2>2. \A P \in SUBSET DOMAIN cands : \A m \in Nat : PrefixGain(cands, P, m) \in Int
    <3> SUFFICES ASSUME NEW P \in SUBSET DOMAIN cands, NEW m \in Nat
                 PROVE PrefixGain(cands, P, m) \in Int
      OBVIOUS
    <3>1. Cheapest(cands, P, m) \in [P -> Nat]
      BY CheapestIsFair DEF FairPicks
    <3> QED
      BY <3>1, GainInt DEF PrefixGain
  <2>3. PICK o \in Int, d \in Int :
          o = PrefixGain(cands, other, k) /\ d = PrefixGain(cands, discounted, left - k)
    BY <1>3, <1>6, <2>1, <2>2
  <2>4. PICK x \in Int, z \in Int : x = o - ls /\ z = 0
    OBVIOUS
  <2>5. PICK w \in Int : w = Max({x, z}) /\ w = IF x <= z THEN z ELSE x
    BY MinMaxOfTwo
  <2>6. cost(k) = o + d + w
    BY <1>11, <2>3, <2>4, <2>5
  <2>7. w = Above(o - ls)
    BY <2>4, <2>5 DEF Above
  <2>8. MixCost(cands, left, ls, k) = o + d + Above(o - ls)
    BY <2>3 DEF MixCost, other, discounted
  <2> QED
    BY <2>6, <2>7, <2>8
<1>13. best[2] \in within /\ \A y \in within : cost(best[2]) <= cost(y)
  <2>1. PICK f : f = [k \in within |-> cost(k)]
    OBVIOUS
  <2>2. \A k \in within : f[k] \in Int /\ f[k] = cost(k)
    BY <1>12, <2>1
  <2> HIDE DEF within, cost
  <2>3. within \subseteq Int
    BY <1>10
  <2>4. PICK k \in within : \A x \in within : f[k] < f[x] \/ (f[k] = f[x] /\ k <= x)
    BY <1>10, <2>2, <2>3, CheapestNumber
  <2>5. <<cost(k), k>> \in costs
    OBVIOUS
  <2>6. \A x \in costs : \E y \in within : x = <<cost(y), y>>
    OBVIOUS
  <2>7. \A x \in costs : \/ <<cost(k), k>>[1] < x[1]
                         \/ <<cost(k), k>>[1] = x[1] /\ <<cost(k), k>>[2] <= x[2]
    BY <2>2, <2>4, <2>6
  <2>8. best \in costs
    <3> HIDE DEF costs
    <3> QED
      BY <2>5, <2>7
  <2>9. \A x \in costs : best[1] < x[1] \/ (best[1] = x[1] /\ best[2] <= x[2])
    <3> HIDE DEF costs
    <3> QED
      BY <2>5, <2>7
  <2> HIDE DEF best
  <2>10. best[2] \in within /\ best[1] = cost(best[2])
    BY <2>6, <2>8
  <2>11. ASSUME NEW y \in within PROVE cost(best[2]) <= cost(y)
    <3>1. <<cost(y), y>> \in costs
      OBVIOUS
    <3>2. best[1] < cost(y) \/ best[1] = cost(y)
      BY <2>9, <3>1
    <3>3. cost(y) \in Int /\ cost(best[2]) \in Int
      BY <1>12, <2>10
    <3> QED
      BY <2>10, <3>2, <3>3
  <2> QED
    BY <2>10, <2>11
<1>14. PICK k \in Nat : k = best[2] /\ a <= k /\ k <= b
  <2> HIDE DEF best, within
  <2>1. best[2] \in a .. b
    BY <1>10, <1>13
  <2> QED
    BY <1>9, <2>1
<1>15. k <= Qo /\ k <= l /\ l - k <= Qd
  BY <1>7, <1>8, <1>14
<1>16. ls = LossMade(cands, n)
  BY <1>11 DEF LossMade, loss, losses
<1>17. ASSUME NEW x, InReach(cands, left, x), Looked(cands, left, ls, x)
       PROVE  MixCost(cands, left, ls, k) <= MixCost(cands, left, ls, x)
  <2>1. \A y : InReach(cands, left, y)
                <=> y \in Nat /\ l - y \in Nat /\ y <= Qo /\ l - y <= Qd
    BY <1>4, <1>6 DEF InReach, other, discounted
  <2>2. x \in Nat /\ l - x \in Nat /\ x <= Qo /\ l - x <= Qd
    BY <1>17, <2>1
  <2>3. a <= x /\ x <= b
    BY <1>7, <1>8, <2>2
  <2>4. x \in lo .. hi
    BY <1>7, <1>8, <2>2, <2>3
  <2>5. \/ x \in Breakpoints(cands, other, discounted, left, loss)
        \/ x \in {lo, hi}
    <3>1. CASE x \in Breakpoints(cands, other, discounted, left, ls)
      BY <1>11, <3>1
    <3>2. CASE ~InReach(cands, left, x - 1)
      <4>1. ~(x - 1 \in Nat /\ l - (x - 1) \in Nat /\ x - 1 <= Qo /\ l - (x - 1) <= Qd)
        BY <2>1, <3>2
      <4>2. x = a
        BY <1>7, <2>2, <4>1
      <4> QED
        BY <1>7, <4>2
    <3>3. CASE ~InReach(cands, left, x + 1)
      <4>1. ~(x + 1 \in Nat /\ l - (x + 1) \in Nat /\ x + 1 <= Qo /\ l - (x + 1) <= Qd)
        BY <2>1, <3>3
      <4>2. x = b
        BY <1>8, <2>2, <4>1
      <4> QED
        BY <1>8, <4>2
    <3> QED
      BY <1>17, <3>1, <3>2, <3>3 DEF Looked, other, discounted
  <2>6. x \in within
    BY <2>4, <2>5
  <2> HIDE DEF within, cost, best
  <2>7. cost(k) <= cost(x)
    BY <1>13, <1>14, <2>6
  <2> QED
    BY <1>12, <1>13, <1>14, <2>6, <2>7
<1> HIDE DEF best
<1> QED
  BY <1>1, <1>4, <1>6, <1>14, <1>15, <1>16, <1>17
     DEF losses, other, discounted, LeastLooked

\* Each parcel is of one class.
LEMMA OneClass ==
    ASSUME NEW cands, CandsOK(cands), NEW p \in DOMAIN cands
    PROVE  /\ \/ p \in LossParcels(cands) /\ p \notin OtherParcels(cands)
                 /\ p \notin DiscountedParcels(cands)
              \/ p \notin LossParcels(cands) /\ p \in OtherParcels(cands)
                 /\ p \notin DiscountedParcels(cands)
              \/ p \notin LossParcels(cands) /\ p \notin OtherParcels(cands)
                 /\ p \in DiscountedParcels(cands)
<1>1. PICK g \in Int : g = cands[p].gain
  BY DEF CandsOK, Cand
<1>2. (g <= 0) <=> ~(g > 0)
  OBVIOUS
<1> QED
  BY <1>1, <1>2 DEF LossParcels, OtherParcels, DiscountedParcels

\* min_gain takes the units asked for.
LEMMA MinGainIsFair ==
    ASSUME NEW cands, CandsOK(cands), NEW n \in Nat, n <= Quantity(cands, DOMAIN cands)
    PROVE  FairPicks(cands, DOMAIN cands, n, MinGainPicks(cands, n))
<1>1. PICK L \in SUBSET DOMAIN cands, O \in SUBSET DOMAIN cands, D \in SUBSET DOMAIN cands :
        L = LossParcels(cands) /\ O = OtherParcels(cands) /\ D = DiscountedParcels(cands)
  BY DEF LossParcels, OtherParcels, DiscountedParcels
<1>2. PICK left \in Nat, k \in Nat :
        /\ left = n - (IF n <= Quantity(cands, L) THEN n ELSE Quantity(cands, L))
        /\ k <= Quantity(cands, O) /\ k <= left
        /\ left - k <= Quantity(cands, D)
        /\ MinGainPicks(cands, n) = MixedPicks(cands, n, k, left)
  BY <1>1, MinGainMixes
<1>3. left - k \in Nat
  BY <1>2
<1>4. PICK lp, op, dp : /\ lp = Cheapest(cands, L, n) /\ op = Cheapest(cands, O, k)
                        /\ dp = Cheapest(cands, D, left - k)
  OBVIOUS
<1>5. FairPicks(cands, L, n, lp) /\ FairPicks(cands, O, k, op) /\ FairPicks(cands, D, left - k, dp)
  BY <1>3, <1>4, CheapestIsFair
<1>6. PICK picks : picks = MinGainPicks(cands, n)
  OBVIOUS
<1>7. picks = [p \in DOMAIN cands |-> IF p \in L THEN lp[p] ELSE IF p \in O THEN op[p] ELSE dp[p]]
  BY <1>1, <1>2, <1>4, <1>6 DEF MixedPicks
<1>8. \A p \in DOMAIN cands : \/ p \in L /\ p \notin O /\ p \notin D
                              \/ p \notin L /\ p \in O /\ p \notin D
                              \/ p \notin L /\ p \notin O /\ p \in D
  BY <1>1, OneClass
<1>9. /\ \A p \in L : picks[p] = lp[p]
      /\ \A p \in O : picks[p] = op[p]
      /\ \A p \in D : picks[p] = dp[p]
  BY <1>7, <1>8
<1>10. \A p \in DOMAIN cands : picks[p] \in Nat /\ picks[p] <= cands[p].quantity
  <2> SUFFICES ASSUME NEW p \in DOMAIN cands
               PROVE picks[p] \in Nat /\ picks[p] <= cands[p].quantity
    OBVIOUS
  <2>1. CASE p \in L
    BY <1>5, <1>9, <2>1 DEF FairPicks
  <2>2. CASE p \in O
    BY <1>5, <1>9, <2>2 DEF FairPicks
  <2>3. CASE p \in D
    BY <1>5, <1>9, <2>3 DEF FairPicks
  <2> QED
    BY <1>8, <2>1, <2>2, <2>3
<1>11. SumOver(picks, DOMAIN cands) =
         SumOver(picks, L) + (SumOver(picks, O) + SumOver(picks, D))
  <2>1. \A p \in DOMAIN cands : picks[p] \in Int
    BY <1>10
  <2> QED
    BY <1>1, <2>1, ThreeClasses
<1>12. /\ SumOver(picks, L) = SumOver(lp, L) /\ SumOver(picks, O) = SumOver(op, O)
       /\ SumOver(picks, D) = SumOver(dp, D)
  <2>1. \A T \in SUBSET DOMAIN cands : IsFiniteSet(T)
    BY FS_Subset DEF CandsOK
  <2> QED
    BY <1>9, <2>1, SumCong
<1>13. PICK Ql \in Nat, Qo \in Nat, Qd \in Nat :
         Ql = Quantity(cands, L) /\ Qo = Quantity(cands, O) /\ Qd = Quantity(cands, D)
  BY <1>5 DEF FairPicks
<1>14. /\ SumOver(lp, L) = IF n <= Ql THEN n ELSE Ql
       /\ SumOver(op, O) = k /\ SumOver(dp, D) = left - k
  <2>1. SumOver(lp, L) = IF n <= Ql THEN n ELSE Ql
    BY <1>5, <1>13 DEF FairPicks
  <2>2. SumOver(op, O) = IF k <= Qo THEN k ELSE Qo
    BY <1>5, <1>13 DEF FairPicks
  <2>3. SumOver(dp, D) = IF left - k <= Qd THEN left - k ELSE Qd
    BY <1>5, <1>13 DEF FairPicks
  <2> QED
    BY <1>2, <1>13, <2>1, <2>2, <2>3
<1>15. SumOver(picks, DOMAIN cands) = n
  <2>1. PICK m \in Int : m = IF n <= Ql THEN n ELSE Ql
    OBVIOUS
  <2>2. left = n - m
    BY <1>2, <1>13, <2>1
  <2>3. SumOver(picks, DOMAIN cands) = m + (k + (left - k))
    BY <1>11, <1>12, <1>14, <2>1
  <2> QED
    BY <2>2, <2>3
<1>16. Quantity(cands, DOMAIN cands) \in Nat
  BY QuantityFacts
<1> QED
  BY <1>6, <1>7, <1>10, <1>15, <1>16 DEF FairPicks

\* And so does every strategy.
LEMMA AllocationIsFair ==
    ASSUME NEW cands, CandsOK(cands), NEW n \in Nat, n <= Quantity(cands, DOMAIN cands),
           NEW s \in Strategies
    PROVE  FairPicks(cands, DOMAIN cands, n, Allocate(cands, n, s))
<1>1. ASSUME s = "fifo" PROVE FairPicks(cands, DOMAIN cands, n, Allocate(cands, n, s))
  <2>1. PICK ahead : ahead = [p \in DOMAIN cands |-> {q \in DOMAIN cands : EarlierThan(cands, q, p)}]
    OBVIOUS
  <2>2. Ordered(DOMAIN cands, ahead)
    BY <2>1, EarlierIsOrder DEF Ordered
  <2>3. Allocate(cands, n, s) =
          [p \in DOMAIN cands |-> TakeOf(cands[p], n, Quantity(cands, ahead[p]))]
    BY <1>1, <2>1 DEF Allocate, TakeInOrder
  <2> QED
    BY <2>2, <2>3, OrderIsFair
<1>2. ASSUME s = "min_gain" PROVE FairPicks(cands, DOMAIN cands, n, Allocate(cands, n, s))
  <2>1. Allocate(cands, n, s) = MinGainPicks(cands, n)
    BY <1>2 DEF Allocate
  <2> QED
    BY <2>1, MinGainIsFair
<1>3. ASSUME s = "max_discount" PROVE FairPicks(cands, DOMAIN cands, n, Allocate(cands, n, s))
  <2>1. PICK ahead : ahead = [p \in DOMAIN cands |-> {q \in DOMAIN cands : DiscountsBefore(cands, q, p)}]
    OBVIOUS
  <2>2. Ordered(DOMAIN cands, ahead)
    BY <2>1, DiscountsIsOrder DEF Ordered
  <2>3. Allocate(cands, n, s) =
          [p \in DOMAIN cands |-> TakeOf(cands[p], n, Quantity(cands, ahead[p]))]
    BY <1>3, <2>1 DEF Allocate, TakeInOrder
  <2> QED
    BY <2>2, <2>3, OrderIsFair
<1>4. ASSUME s = "harvest_losses" PROVE FairPicks(cands, DOMAIN cands, n, Allocate(cands, n, s))
  <2>1. PICK ahead : ahead = [p \in DOMAIN cands |-> {q \in DOMAIN cands : HarvestsBefore(cands, q, p)}]
    OBVIOUS
  <2>2. Ordered(DOMAIN cands, ahead)
    BY <2>1, HarvestsIsOrder DEF Ordered
  <2>3. Allocate(cands, n, s) =
          [p \in DOMAIN cands |-> TakeOf(cands[p], n, Quantity(cands, ahead[p]))]
    BY <1>4, <2>1 DEF Allocate, TakeInOrder
  <2> QED
    BY <2>2, <2>3, OrderIsFair
<1> QED
  BY <1>1, <1>2, <1>3, <1>4 DEF Strategies

-----------------------------------------------------------------------------
(* That they are the best. *)

\* n units of the candidates, in any way.
IsDraw(cands, a, n) ==
    /\ \A p \in DOMAIN cands : a[p] \in Nat /\ a[p] <= cands[p].quantity
    /\ SumOver(a, DOMAIN cands) = n

\* The reference allocations are those.
LEMMA AllocationsAreDraws ==
    ASSUME NEW cands, CandsOK(cands), NEW n, NEW a \in Allocations(cands, n)
    PROVE  IsDraw(cands, a, n)
<1>1. PICK most : most = Max({cands[p].quantity : p \in DOMAIN cands})
  OBVIOUS
<1>2. /\ a \in [DOMAIN cands -> 0 .. most] /\ SumOver(a, DOMAIN cands) = n
      /\ \A p \in DOMAIN cands : a[p] <= cands[p].quantity
  BY <1>1 DEF Allocations
<1>3. ASSUME NEW p \in DOMAIN cands PROVE a[p] \in Nat
  <2>1. PICK Q : Q = {UnitsOf(cands)[r] : r \in DOMAIN cands}
    OBVIOUS
  <2>2. Q = {cands[r].quantity : r \in DOMAIN cands}
    BY <2>1 DEF UnitsOf
  <2>3. IsFiniteSet(Q)
    <3>1. DOMAIN UnitsOf(cands) = DOMAIN cands /\ IsFiniteSet(DOMAIN cands)
      BY DEF UnitsOf, CandsOK
    <3> QED
      BY <2>1, <3>1, MadeFinite
  <2>4. Q \subseteq Int /\ Q # {}
    BY <2>2 DEF CandsOK, Cand
  <2>5. most \in Int
    BY <1>1, <2>2, <2>3, <2>4, MaxFacts
  <2> QED
    BY <1>2, <2>5
<1> QED
  BY <1>2, <1>3 DEF IsDraw

\* The gain an allocation makes on a class.
PartGain(cands, P, a) == SumOver([p \in P |-> cands[p].gain * a[p]], P)

\* It is the worth of those units.
LEMMA PartIsWorth ==
    ASSUME NEW cands, CandsOK(cands), NEW P \in SUBSET DOMAIN cands, NEW a,
           \A p \in P : a[p] \in Nat
    PROVE  /\ PartGain(cands, P, a) = WorthOf(P, GainsOf(cands), a)
           /\ PartGain(cands, P, a) \in Int
<1>1. \A p \in P : GainsOf(cands)[p] = cands[p].gain /\ GainsOf(cands)[p] \in Int /\ a[p] \in Int
  BY DEF GainsOf, CandsOK, Cand
<1>2. [p \in P |-> cands[p].gain * a[p]] = Products(P, GainsOf(cands), a)
  BY <1>1 DEF Products
<1>3. PartGain(cands, P, a) = WorthOf(P, GainsOf(cands), a)
  BY <1>2 DEF PartGain, WorthOf
<1>4. IsFiniteSet(P)
  BY FS_Subset DEF CandsOK
<1>5. WorthOf(P, GainsOf(cands), a) \in Int
  BY <1>1, <1>4, WorthInt
<1> QED
  BY <1>3, <1>5

\* Of a class whose units all lose or all gain, no units gain less than the cheapest.
LEMMA CheapestIsLeast ==
    ASSUME NEW cands, CandsOK(cands), NEW P \in SUBSET DOMAIN cands, NEW k \in Nat,
           k <= Quantity(cands, P), NEW a,
           \A p \in P : a[p] \in Nat /\ a[p] <= cands[p].quantity,
           \/ (\A p \in P : cands[p].gain <= 0) /\ SumOver(a, P) <= k
           \/ (\A p \in P : cands[p].gain > 0) /\ k <= SumOver(a, P)
    PROVE  PrefixGain(cands, P, k) <= PartGain(cands, P, a)
<1>1. PICK q, v, ahead : q = UnitsOf(cands) /\ v = GainsOf(cands) /\ ahead = AheadIn(cands, P)
  OBVIOUS
<1>2. PICK t : t = FirstUnits(P, ahead, q, k)
  OBVIOUS
<1>3. Priced(P, ahead, q, v) /\ Quantity(cands, P) = SumOver(q, P)
  BY <1>1, CheapestPriced
<1>4. SumOver(t, P) = k
  BY <1>2, <1>3, FirstUnitsFacts
<1>5. \A p \in P : q[p] = cands[p].quantity /\ v[p] = cands[p].gain /\ v[p] \in Int
  BY <1>1 DEF UnitsOf, GainsOf, CandsOK, Cand
<1>6. SameSide(P, v, a, t)
  <2>1. CASE (\A p \in P : cands[p].gain <= 0) /\ SumOver(a, P) <= k
    BY <1>4, <1>5, <2>1 DEF SameSide
  <2>2. CASE (\A p \in P : cands[p].gain > 0) /\ k <= SumOver(a, P)
    <3>1. \A p \in P : 0 <= v[p]
      BY <1>5, <2>2
    <3> QED
      BY <1>4, <2>2, <3>1 DEF SameSide
  <2> QED
    BY <2>1, <2>2
<1>7. \A p \in P : a[p] \in Nat /\ a[p] <= q[p]
  BY <1>5
<1>8. WorthOf(P, v, t) <= WorthOf(P, v, a)
  BY <1>2, <1>3, <1>6, <1>7, GreedyLeast
<1>9. PrefixGain(cands, P, k) = WorthOf(P, v, t)
  BY <1>1, <1>2, PrefixIsWorth
<1>10. PartGain(cands, P, a) = WorthOf(P, v, a)
  BY <1>1, PartIsWorth
<1> QED
  BY <1>8, <1>9, <1>10

\* No n units of the losing parcels and others lose more than the cheapest n of them.
LEMMA LossesAreMost ==
    ASSUME NEW cands, CandsOK(cands), NEW n \in Nat, NEW a, IsDraw(cands, a, n),
           SumOver(a, LossParcels(cands)) \in Nat, SumOver(a, LossParcels(cands)) <= n
    PROVE  GainOf(cands, Cheapest(cands, LossParcels(cands), n))
             <= PartGain(cands, LossParcels(cands), a)
<1>1. PICK P \in SUBSET DOMAIN cands : P = LossParcels(cands)
  BY DEF LossParcels
<1>2. PICK q, v, ahead : q = UnitsOf(cands) /\ v = GainsOf(cands) /\ ahead = AheadIn(cands, P)
  OBVIOUS
<1>3. PICK t : t = FirstUnits(P, ahead, q, n)
  OBVIOUS
<1>4. Priced(P, ahead, q, v)
  BY <1>2, CheapestPriced
<1>5. SumOver(t, P) = IF n <= SumOver(q, P) THEN n ELSE SumOver(q, P)
  BY <1>3, <1>4, FirstUnitsFacts
<1>6. \A p \in P : /\ q[p] = cands[p].quantity /\ v[p] = cands[p].gain /\ v[p] \in Int
                   /\ v[p] <= 0 /\ q[p] \in Nat
  BY <1>1, <1>2 DEF UnitsOf, GainsOf, CandsOK, Cand, LossParcels
<1>7. \A p \in P : a[p] \in Nat /\ a[p] <= q[p]
  BY <1>6 DEF IsDraw
<1>8. SumOver(a, P) <= SumOver(q, P)
  <2>1. IsFiniteSet(P)
    BY FS_Subset DEF CandsOK
  <2>2. \A p \in P : a[p] \in Int /\ q[p] \in Int /\ a[p] <= q[p]
    BY <1>6, <1>7
  <2> QED
    BY <2>1, <2>2, SumAtMost
<1>9. SumOver(a, P) <= SumOver(t, P)
  BY <1>1, <1>5, <1>8
<1>10. SameSide(P, v, a, t)
  BY <1>6, <1>9 DEF SameSide
<1>11. WorthOf(P, v, t) <= WorthOf(P, v, a)
  BY <1>3, <1>4, <1>7, <1>10, GreedyLeast
<1>12. PrefixGain(cands, P, n) = WorthOf(P, v, t)
  BY <1>2, <1>3, PrefixIsWorth
<1>13. PartGain(cands, P, a) = WorthOf(P, v, a)
  BY <1>2, <1>7, PartIsWorth
<1> QED
  BY <1>1, <1>11, <1>12, <1>13 DEF PrefixGain

\* The gain of a class that gains is not below nothing.
LEMMA PartAbove ==
    ASSUME NEW cands, CandsOK(cands), NEW P \in SUBSET DOMAIN cands, NEW a,
           \A p \in P : a[p] \in Nat, \A p \in P : cands[p].gain > 0
    PROVE  PartGain(cands, P, a) \in Nat
<1>1. PICK f : f = [p \in P |-> cands[p].gain * a[p]]
  OBVIOUS
<1>2. ASSUME NEW p \in P PROVE f[p] \in Nat
  <2>1. PICK x \in Nat, y \in Nat : x = cands[p].gain /\ y = a[p]
    <3>1. cands[p].gain \in Int /\ cands[p].gain > 0
      BY DEF CandsOK, Cand
    <3>2. cands[p].gain \in Nat
      BY <3>1
    <3> QED
      BY <3>2
  <2>2. x * y \in Nat
    OBVIOUS
  <2> QED
    BY <1>1, <2>1, <2>2
<1>3. IsFiniteSet(P)
  BY FS_Subset DEF CandsOK
<1>4. SumOver(f, P) \in Nat
  BY <1>2, <1>3, SumNat
<1> QED
  BY <1>1, <1>4 DEF PartGain

\* Netting a loss against undiscounted gains first, and the rest against the others.
LEMMA NettedIs ==
    ASSUME NEW l \in Int, NEW o \in Int, NEW d \in Nat
    PROVE  2 * Max({0, o - l}) + Max({0, d - Max({0, l - o})})
             = Above(o + d + Above(o - l) - l)
<1>1. PICK z \in Int, x \in Int, y \in Int : z = 0 /\ x = o - l /\ y = l - o
  OBVIOUS
<1>2. PICK w \in Int : w = Max({z, x}) /\ w = IF z <= x THEN x ELSE z
  BY MinMaxOfTwo
<1>3. PICK r \in Int : r = Max({z, y}) /\ r = IF z <= y THEN y ELSE z
  BY MinMaxOfTwo
<1>4. PICK e \in Int : e = d - r
  OBVIOUS
<1>5. PICK s \in Int : s = Max({z, e}) /\ s = IF z <= e THEN e ELSE z
  BY MinMaxOfTwo
<1>6. 2 * Max({0, o - l}) + Max({0, d - Max({0, l - o})}) = 2 * w + s
  BY <1>1, <1>2, <1>3, <1>4, <1>5
<1>7. CASE l <= o
  <2>1. w = x /\ (r = 0 \/ r = y) /\ r = 0
    BY <1>1, <1>2, <1>3, <1>7
  <2>2. s = d
    BY <1>1, <1>4, <1>5, <2>1
  <2>3. Above(o + d + Above(o - l) - l) = o + d + (o - l) - l
    BY <1>7 DEF Above
  <2>4. 2 * w + s = o + d + (o - l) - l
    BY <1>1, <2>1, <2>2
  <2> QED
    BY <1>6, <2>3, <2>4
<1>8. CASE ~(l <= o)
  <2>1. w = 0 /\ r = y
    BY <1>1, <1>2, <1>3, <1>8
  <2>2. s = IF 0 <= e THEN e ELSE 0
    BY <1>1, <1>5
  <2>3. Above(o + d + Above(o - l) - l) = IF 0 <= o + d - l THEN o + d - l ELSE 0
    BY <1>8 DEF Above
  <2>4. e = o + d - l
    BY <1>1, <1>4, <2>1
  <2> QED
    BY <1>6, <2>1, <2>2, <2>3, <2>4
<1> QED
  BY <1>7, <1>8

\* What an allocation adds to the year's net gain, twice.
LEMMA AssessableIs ==
    ASSUME NEW cands, CandsOK(cands), NEW a, \A p \in DOMAIN cands : a[p] \in Nat
    PROVE  \E l \in Int, o \in Int, d \in Nat :
              /\ l = -PartGain(cands, LossParcels(cands), a)
              /\ o = PartGain(cands, OtherParcels(cands), a)
              /\ d = PartGain(cands, DiscountedParcels(cands), a)
              /\ AssessableTwice(cands, a) = Above(o + d + Above(o - l) - l)
<1>1. PICK L \in SUBSET DOMAIN cands, O \in SUBSET DOMAIN cands, D \in SUBSET DOMAIN cands :
        L = LossParcels(cands) /\ O = OtherParcels(cands) /\ D = DiscountedParcels(cands)
  BY DEF LossParcels, OtherParcels, DiscountedParcels
<1>2. PartGain(cands, L, a) \in Int /\ PartGain(cands, O, a) \in Int
  BY PartIsWorth
<1>3. PartGain(cands, D, a) \in Nat
  <2>1. \A p \in D : cands[p].gain > 0
    BY <1>1 DEF DiscountedParcels
  <2> QED
    BY <2>1, PartAbove
<1>4. PICK l \in Int, o \in Int, d \in Nat :
        l = -PartGain(cands, L, a) /\ o = PartGain(cands, O, a) /\ d = PartGain(cands, D, a)
  BY <1>2, <1>3
<1>5. AssessableTwice(cands, a) = 2 * Max({0, o - l}) + Max({0, d - Max({0, l - o})})
  BY <1>1, <1>4 DEF AssessableTwice, PartGain
<1>6. AssessableTwice(cands, a) = Above(o + d + Above(o - l) - l)
  BY <1>5, NettedIs
<1> QED
  BY <1>1, <1>4, <1>6

\* A gain beyond a loss, and what gains and a loss leave assessable.
Beyond(o, l) == Above(o - l)
Assessed(l, o, d) == Above(o + d + Above(o - l) - l)

\* More gains and less of a loss leave no less assessable.
LEMMA AssessedLess ==
    ASSUME NEW o \in Int, NEW d \in Int, NEW l \in Int, NEW oo \in Int, NEW dd \in Int,
           NEW ll \in Int, NEW c \in Int, o <= oo, d <= dd, ll <= l,
           c <= o + d + Beyond(o, l)
    PROVE  Beyond(c, l) <= Assessed(ll, oo, dd)
<1>0. PICK e, x, y : e = Beyond(o, l) /\ x = Beyond(c, l) /\ y = Assessed(ll, oo, dd)
  OBVIOUS
<1>1. PICK i \in Int, j \in Int : i = o - l /\ j = oo - ll /\ i <= j
  OBVIOUS
<1>2. PICK f \in Int : f = Above(j) /\ e \in Int /\ e <= f
  <2>1. Above(i) \in Int /\ Above(j) \in Int /\ Above(i) <= Above(j)
    BY <1>1 DEF Above
  <2> QED
    BY <1>0, <1>1, <2>1 DEF Beyond
<1>3. c - l <= oo + dd + f - ll
  BY <1>0, <1>2
<1>4. PICK g \in Int, h \in Int : g = c - l /\ h = oo + dd + f - ll /\ g <= h
  BY <1>3
<1>5. Above(g) <= Above(h)
  BY <1>4 DEF Above
<1>6. y = Above(h) /\ x = Above(g)
  BY <1>0, <1>1, <1>2, <1>4 DEF Assessed, Beyond
<1> QED
  BY <1>0, <1>5, <1>6

\* min_gain's picks, by class.
LEMMA MixedParts ==
    ASSUME NEW cands, CandsOK(cands), NEW n \in Nat, NEW left \in Nat, NEW k \in Nat,
           left - k \in Nat
    PROVE  LET a == MixedPicks(cands, n, k, left)
           IN  /\ \A p \in DOMAIN cands : a[p] \in Nat
               /\ -PartGain(cands, LossParcels(cands), a) = LossMade(cands, n)
               /\ PartGain(cands, OtherParcels(cands), a)
                    = PrefixGain(cands, OtherParcels(cands), k)
               /\ PartGain(cands, DiscountedParcels(cands), a)
                    = PrefixGain(cands, DiscountedParcels(cands), left - k)
<1>1. PICK L \in SUBSET DOMAIN cands, O \in SUBSET DOMAIN cands, D \in SUBSET DOMAIN cands :
        L = LossParcels(cands) /\ O = OtherParcels(cands) /\ D = DiscountedParcels(cands)
  BY DEF LossParcels, OtherParcels, DiscountedParcels
<1>2. PICK lp, op, dp : /\ lp = Cheapest(cands, L, n) /\ op = Cheapest(cands, O, k)
                        /\ dp = Cheapest(cands, D, left - k)
  OBVIOUS
<1>3. lp \in [L -> Nat] /\ op \in [O -> Nat] /\ dp \in [D -> Nat]
  BY <1>2, CheapestIsFair DEF FairPicks
<1>4. PICK a : a = MixedPicks(cands, n, k, left)
  OBVIOUS
<1>5. a = [p \in DOMAIN cands |-> IF p \in L THEN lp[p] ELSE IF p \in O THEN op[p] ELSE dp[p]]
  BY <1>1, <1>2, <1>4 DEF MixedPicks
<1>6. \A p \in DOMAIN cands : \/ p \in L /\ p \notin O /\ p \notin D
                              \/ p \notin L /\ p \in O /\ p \notin D
                              \/ p \notin L /\ p \notin O /\ p \in D
  BY <1>1, OneClass
<1>7. /\ \A p \in L : a[p] = lp[p]
      /\ \A p \in O : a[p] = op[p]
      /\ \A p \in D : a[p] = dp[p]
  BY <1>5, <1>6
<1>8. \A p \in DOMAIN cands : a[p] \in Nat
  BY <1>3, <1>6, <1>7
<1>9. PartGain(cands, L, a) = GainOf(cands, lp)
  BY <1>3, <1>7 DEF PartGain, GainOf
<1>10. PartGain(cands, O, a) = GainOf(cands, op)
  BY <1>3, <1>7 DEF PartGain, GainOf
<1>11. PartGain(cands, D, a) = GainOf(cands, dp)
  BY <1>3, <1>7 DEF PartGain, GainOf
<1> QED
  BY <1>1, <1>2, <1>4, <1>8, <1>9, <1>10, <1>11 DEF LossMade, PrefixGain

\* Where n units are drawn from, by class.
DrawnBy(cands, a, n, s, o, d) ==
    /\ s \in Nat /\ o \in Nat /\ d \in Nat /\ s + (o + d) = n
    /\ s = SumOver(a, LossParcels(cands)) /\ s <= Quantity(cands, LossParcels(cands))
    /\ o = SumOver(a, OtherParcels(cands)) /\ o <= Quantity(cands, OtherParcels(cands))
    /\ d = SumOver(a, DiscountedParcels(cands)) /\ d <= Quantity(cands, DiscountedParcels(cands))

\* They are drawn from one class or another.
LEMMA DrawsByClass ==
    ASSUME NEW cands, CandsOK(cands), NEW n \in Nat, NEW a, IsDraw(cands, a, n)
    PROVE  \E s, o, d : DrawnBy(cands, a, n, s, o, d)
<1>1. ASSUME NEW P \in SUBSET DOMAIN cands
      PROVE  SumOver(a, P) \in Nat /\ SumOver(a, P) <= Quantity(cands, P)
  <2>1. PICK q : q = UnitsOf(cands)
    OBVIOUS
  <2>2. /\ IsFiniteSet(P)
        /\ \A p \in P : /\ a[p] \in Nat /\ a[p] \in Int /\ q[p] \in Int /\ a[p] <= q[p]
    BY <2>1, FS_Subset DEF IsDraw, UnitsOf, CandsOK, Cand
  <2>3. SumOver(a, P) \in Nat
    BY <2>2, SumNat
  <2>4. SumOver(a, P) <= SumOver(q, P)
    BY <2>2, SumAtMost
  <2>5. q = [p \in DOMAIN cands |-> cands[p].quantity]
    BY <2>1 DEF UnitsOf
  <2>6. Quantity(cands, P) = SumOver(q, P)
    BY <2>5, QuantityFacts
  <2> QED
    BY <2>3, <2>4, <2>6
<1>2. PICK L \in SUBSET DOMAIN cands, O \in SUBSET DOMAIN cands, D \in SUBSET DOMAIN cands :
        L = LossParcels(cands) /\ O = OtherParcels(cands) /\ D = DiscountedParcels(cands)
  BY DEF LossParcels, OtherParcels, DiscountedParcels
<1>3. PICK s \in Nat, o \in Nat, d \in Nat :
        s = SumOver(a, L) /\ o = SumOver(a, O) /\ d = SumOver(a, D)
  BY <1>1
<1>4. SumOver(a, DOMAIN cands) = SumOver(a, L) + (SumOver(a, O) + SumOver(a, D))
  <2>1. \A p \in DOMAIN cands : a[p] \in Int
    BY DEF IsDraw
  <2> QED
    BY <1>2, <2>1, ThreeClasses
<1>5. s + (o + d) = n
  BY <1>3, <1>4 DEF IsDraw
<1>6. s <= Quantity(cands, L) /\ o <= Quantity(cands, O) /\ d <= Quantity(cands, D)
  BY <1>1, <1>3
<1>7. DrawnBy(cands, a, n, s, o, d)
  BY <1>2, <1>3, <1>5, <1>6 DEF DrawnBy
<1> QED
  BY <1>7

\* No n units add less to the year than min_gain's.
LEMMA MinGainIsLeast ==
    ASSUME NEW cands, CandsOK(cands), NEW n \in Nat, n <= Quantity(cands, DOMAIN cands),
           NEW a, IsDraw(cands, a, n)
    PROVE  AssessableTwice(cands, MinGainPicks(cands, n)) <= AssessableTwice(cands, a)
<1>1. PICK L \in SUBSET DOMAIN cands, O \in SUBSET DOMAIN cands, D \in SUBSET DOMAIN cands :
        L = LossParcels(cands) /\ O = OtherParcels(cands) /\ D = DiscountedParcels(cands)
  BY DEF LossParcels, OtherParcels, DiscountedParcels
<1>2. PICK left \in Nat, k \in Nat :
        /\ left = n - (IF n <= Quantity(cands, L) THEN n ELSE Quantity(cands, L))
        /\ k <= Quantity(cands, O) /\ k <= left
        /\ left - k <= Quantity(cands, D)
        /\ MinGainPicks(cands, n) = MixedPicks(cands, n, k, left)
        /\ LeastLooked(cands, left, LossMade(cands, n), k)
  BY <1>1, MinGainMixes
<1>3. PICK l \in Int : l = LossMade(cands, n)
  <2>1. Cheapest(cands, L, n) \in [L -> Nat]
    BY CheapestIsFair DEF FairPicks
  <2>2. PICK g \in Int : g = GainOf(cands, Cheapest(cands, L, n))
    BY <2>1, GainInt
  <2> QED
    BY <1>1, <2>2 DEF LossMade
<1>4. left - k \in Nat /\ InReach(cands, left, k)
  BY <1>1, <1>2 DEF InReach
<1>5. \A x : InReach(cands, left, x)
               => /\ MixCost(cands, left, l, k) \in Int
                  /\ MixCost(cands, left, l, x) \in Int
                  /\ MixCost(cands, left, l, k) <= MixCost(cands, left, l, x)
  <2>1. \A x : InReach(cands, left, x) /\ Looked(cands, left, l, x)
                 => MixCost(cands, left, l, k) <= MixCost(cands, left, l, x)
    BY <1>2, <1>3 DEF LeastLooked
  <2> QED
    BY <1>4, <2>1, LeastIsLooked
<1>6. PICK s, o, d : DrawnBy(cands, a, n, s, o, d)
  BY DrawsByClass
<1>7. /\ s \in Nat /\ o \in Nat /\ d \in Nat /\ s + (o + d) = n
      /\ s = SumOver(a, L) /\ s <= Quantity(cands, L)
      /\ o = SumOver(a, O) /\ o <= Quantity(cands, O)
      /\ d = SumOver(a, D) /\ d <= Quantity(cands, D)
  BY <1>1, <1>6 DEF DrawnBy
<1>8. PICK Ql \in Nat, Qo \in Nat, Qd \in Nat :
        Ql = Quantity(cands, L) /\ Qo = Quantity(cands, O) /\ Qd = Quantity(cands, D)
  <2>1. UnitsOf(cands) = [p \in DOMAIN cands |-> cands[p].quantity]
    BY DEF UnitsOf
  <2> QED
    BY <2>1, QuantityFacts
<1>9. PICK x \in Nat, y \in Nat : y = left - x /\ x <= o /\ y <= d
  <2>1. left <= o + d
    BY <1>2, <1>7, <1>8
  <2>2. CASE o <= left
    <3>1. left - o \in Nat /\ o <= o /\ left - o <= d
      BY <1>7, <2>1, <2>2
    <3> QED
      BY <1>7, <3>1
  <2>3. CASE ~(o <= left)
    <3>1. left - left = 0 /\ left <= o /\ 0 <= d
      BY <1>7, <2>3
    <3> QED
      BY <3>1
  <2> QED
    BY <2>2, <2>3
<1>10. x <= Qo /\ y <= Qd /\ InReach(cands, left, x)
  <2>1. x <= Qo /\ y <= Qd
    BY <1>7, <1>8, <1>9
  <2> QED
    BY <1>1, <1>8, <1>9, <2>1 DEF InReach
<1>11. \A p \in DOMAIN cands : a[p] \in Nat /\ a[p] <= cands[p].quantity
  BY DEF IsDraw
<1>12. PrefixGain(cands, O, x) <= PartGain(cands, O, a)
  <2>1. (\A p \in O : cands[p].gain > 0) /\ x <= SumOver(a, O)
    BY <1>1, <1>7, <1>9 DEF OtherParcels
  <2> QED
    BY <1>8, <1>10, <1>11, <2>1, CheapestIsLeast
<1>13. PrefixGain(cands, D, y) <= PartGain(cands, D, a)
  <2>1. (\A p \in D : cands[p].gain > 0) /\ y <= SumOver(a, D)
    BY <1>1, <1>7, <1>9 DEF DiscountedParcels
  <2> QED
    BY <1>8, <1>10, <1>11, <2>1, CheapestIsLeast
<1>14. GainOf(cands, Cheapest(cands, L, n)) <= PartGain(cands, L, a)
  <2>1. SumOver(a, L) \in Nat /\ SumOver(a, L) <= n
    BY <1>7
  <2> QED
    BY <1>1, <2>1, LossesAreMost
<1>15. PICK la \in Int, oa \in Int, da \in Nat :
         /\ la = -PartGain(cands, L, a) /\ oa = PartGain(cands, O, a)
         /\ da = PartGain(cands, D, a)
         /\ AssessableTwice(cands, a) = Above(oa + da + Above(oa - la) - la)
  BY <1>1, <1>11, AssessableIs
<1>16. PICK b : b = MixedPicks(cands, n, k, left)
  OBVIOUS
<1>17. /\ \A p \in DOMAIN cands : b[p] \in Nat
       /\ -PartGain(cands, L, b) = l
       /\ PartGain(cands, O, b) = PrefixGain(cands, O, k)
       /\ PartGain(cands, D, b) = PrefixGain(cands, D, left - k)
  BY <1>1, <1>3, <1>4, <1>16, MixedParts
<1>18. PICK lb \in Int, ob \in Int, db \in Nat :
         /\ lb = -PartGain(cands, L, b) /\ ob = PartGain(cands, O, b)
         /\ db = PartGain(cands, D, b)
         /\ AssessableTwice(cands, b) = Above(ob + db + Above(ob - lb) - lb)
  BY <1>1, <1>17, AssessableIs
<1>19. PICK c \in Int : c = MixCost(cands, left, l, k) /\ c <= MixCost(cands, left, l, x)
  BY <1>5, <1>10
<1>20. c = ob + db + Above(ob - l) /\ lb = l
  BY <1>1, <1>17, <1>18, <1>19 DEF MixCost
<1>21. AssessableTwice(cands, b) = Above(c - l)
  <2>1. PICK e \in Int : e = Above(ob - l)
    BY DEF Above
  <2>2. c = ob + db + e
    BY <1>20, <2>1
  <2>3. ob + db + e - l = c - l
    BY <2>2
  <2>4. AssessableTwice(cands, b) = Above(ob + db + e - l)
    BY <1>18, <1>20, <2>1
  <2> QED
    BY <2>3, <2>4
<1>22. PICK ox \in Int, dx \in Int : ox = PrefixGain(cands, O, x) /\ dx = PrefixGain(cands, D, y)
  BY PrefixIsWorth
<1>23. c <= ox + dx + Above(ox - l)
  BY <1>1, <1>9, <1>19, <1>22 DEF MixCost
<1>24. ox <= oa /\ dx <= da
  BY <1>12, <1>13, <1>15, <1>22
<1>25. la <= l
  <2>1. PICK g \in Int : g = GainOf(cands, Cheapest(cands, L, n)) /\ l = -g
    <3>1. Cheapest(cands, L, n) \in [L -> Nat]
      BY CheapestIsFair DEF FairPicks
    <3>2. PICK g \in Int : g = GainOf(cands, Cheapest(cands, L, n))
      BY <3>1, GainInt
    <3> QED
      BY <1>1, <1>3, <3>2 DEF LossMade
  <2>2. PICK h \in Int : h = PartGain(cands, L, a) /\ la = -h
    <3>1. PartGain(cands, L, a) \in Int
      BY <1>11, PartIsWorth
    <3> QED
      BY <1>15, <3>1
  <2>3. g <= h
    BY <1>14, <2>1, <2>2
  <2> QED
    BY <2>1, <2>2, <2>3
<1>26. c <= ox + dx + Beyond(ox, l)
  BY <1>23 DEF Beyond
<1>27. Beyond(c, l) <= Assessed(la, oa, da)
  <2>1. da \in Int
    OBVIOUS
  <2> QED
    BY <1>24, <1>25, <1>26, <2>1, AssessedLess
<1>28. Above(c - l) <= Above(oa + da + Above(oa - la) - la)
  BY <1>27 DEF Beyond, Assessed
<1> QED
  BY <1>2, <1>15, <1>16, <1>21, <1>28

\* What a unit of each candidate loses.
LossesOf(cands) == [p \in DOMAIN cands |-> IF cands[p].gain < 0 THEN cands[p].gain ELSE 0]

\* What some units lose is what they gain on the losing parcels.
LEMMA LossIsPart ==
    ASSUME NEW cands, CandsOK(cands), NEW a, \A p \in DOMAIN cands : a[p] \in Nat
    PROVE  WorthOf(DOMAIN cands, LossesOf(cands), a) = PartGain(cands, LossParcels(cands), a)
<1>1. PICK L \in SUBSET DOMAIN cands : L = LossParcels(cands)
  BY DEF LossParcels
<1>2. PICK f, g : /\ f = Products(DOMAIN cands, LossesOf(cands), a)
                  /\ g = [p \in L |-> cands[p].gain * a[p]]
  OBVIOUS
<1>3. IsFiniteSet(DOMAIN cands) /\ IsFiniteSet(L)
  BY FS_Subset DEF CandsOK
<1>4. \A p \in DOMAIN cands : LossesOf(cands)[p] \in Int /\ a[p] \in Int
  BY DEF LossesOf, CandsOK, Cand
<1>5. \A p \in DOMAIN cands : f[p] \in Int /\ f[p] = LossesOf(cands)[p] * a[p]
  BY <1>2, <1>3, <1>4, WorthInt
<1>6. ASSUME NEW p \in DOMAIN cands
      PROVE  /\ p \in L => f[p] = g[p]
             /\ p \notin L => f[p] = 0
  <2>1. PICK x \in Int, y \in Nat, w \in Int : x = cands[p].gain /\ y = a[p] /\ w = LossesOf(cands)[p]
    BY <1>4 DEF CandsOK, Cand
  <2>2. w = IF x < 0 THEN x ELSE 0
    BY <2>1 DEF LossesOf
  <2>3. p \in L <=> x <= 0
    BY <1>1, <2>1 DEF LossParcels
  <2>4. f[p] = w * y
    BY <1>5, <2>1
  <2>5. CASE p \in L
    <3>1. w = x
      BY <2>2, <2>3, <2>5
    <3>2. g[p] = x * y
      BY <1>2, <2>1, <2>5
    <3> QED
      BY <2>4, <2>5, <3>1, <3>2
  <2>6. CASE p \notin L
    <3>1. w = 0
      BY <2>2, <2>3, <2>6
    <3>2. 0 * y = 0
      OBVIOUS
    <3> QED
      BY <2>4, <2>6, <3>1, <3>2
  <2> QED
    BY <2>5, <2>6
<1>7. SumOver(f, DOMAIN cands) = SumOver(f, L)
  BY <1>3, <1>5, <1>6, SumSupport
<1>8. SumOver(f, L) = SumOver(g, L)
  BY <1>3, <1>6, SumCong
<1> QED
  BY <1>1, <1>2, <1>7, <1>8 DEF WorthOf, PartGain

\* The order harvest_losses takes the parcels in.
HarvestAhead(cands) ==
    [p \in DOMAIN cands |-> {q \in DOMAIN cands : HarvestsBefore(cands, q, p)}]

\* It takes the largest losses first.
LEMMA HarvestPriced ==
    ASSUME NEW cands, CandsOK(cands), NEW n \in Nat
    PROVE  /\ Priced(DOMAIN cands, HarvestAhead(cands), UnitsOf(cands), LossesOf(cands))
           /\ Allocate(cands, n, "harvest_losses")
                = FirstUnits(DOMAIN cands, HarvestAhead(cands), UnitsOf(cands), n)
<1>1. PICK S, q, v, ahead : /\ S = DOMAIN cands /\ q = UnitsOf(cands) /\ v = LossesOf(cands)
                            /\ ahead = HarvestAhead(cands)
  OBVIOUS
<1>2. \A p \in S : /\ q[p] \in Nat /\ q[p] = cands[p].quantity
                   /\ v[p] \in Int /\ v[p] = IF cands[p].gain < 0 THEN cands[p].gain ELSE 0
  BY <1>1 DEF UnitsOf, LossesOf, CandsOK, Cand
<1>3. \A p \in S : ahead[p] = {r \in S : HarvestsBefore(cands, r, p)}
  BY <1>1 DEF HarvestAhead
<1>4. IsFiniteSet(S)
  BY <1>1 DEF CandsOK
<1>5. Ordered(S, ahead)
  BY <1>1, <1>3, HarvestsIsOrder DEF Ordered
<1>6. \A p \in S : \A r \in ahead[p] : v[r] <= v[p]
  <2> SUFFICES ASSUME NEW p \in S, NEW r \in ahead[p] PROVE v[r] <= v[p]
    OBVIOUS
  <2>1. r \in S /\ HarvestsBefore(cands, r, p)
    BY <1>3
  <2>2. PICK x \in Int, y \in Int : x = cands[r].gain /\ y = cands[p].gain
    BY <1>1, <2>1 DEF CandsOK, Cand
  <2>3. \/ x < 0 /\ ~(y < 0)
        \/ x < 0 /\ y < 0 /\ x <= y
        \/ ~(x < 0) /\ ~(y < 0)
    BY <2>1, <2>2 DEF HarvestsBefore, CheaperThan
  <2>4. v[r] = (IF x < 0 THEN x ELSE 0) /\ v[p] = IF y < 0 THEN y ELSE 0
    BY <1>2, <2>1, <2>2
  <2> QED
    BY <2>3, <2>4
<1>7. PICK t : t = Allocate(cands, n, "harvest_losses")
  OBVIOUS
<1>8. t = [p \in S |-> TakeOf(cands[p], n, Quantity(cands, ahead[p]))]
  BY <1>1, <1>7 DEF Allocate, TakeInOrder, HarvestAhead
<1>9. ASSUME NEW p \in S PROVE t[p] = TakenOf(n, q[p], SumOver(q, ahead[p]))
  <2>1. ahead[p] \in SUBSET S
    BY <1>3
  <2>2. q = [r \in DOMAIN cands |-> cands[r].quantity]
    BY <1>1 DEF UnitsOf
  <2>3. PICK b \in Nat : b = Quantity(cands, ahead[p]) /\ b = SumOver(q, ahead[p])
    BY <1>1, <2>1, <2>2, QuantityFacts
  <2>4. TakeOf(cands[p], n, b) = TakenOf(n, cands[p].quantity, b)
    BY <1>2, TakeOfIs
  <2> QED
    BY <1>2, <1>8, <2>3, <2>4
<1>10. t = FirstUnits(S, ahead, q, n)
  BY <1>8, <1>9 DEF FirstUnits
<1> QED
  BY <1>1, <1>2, <1>4, <1>5, <1>6, <1>7, <1>10 DEF Priced

\* No n units lose more than harvest_losses takes.
LEMMA HarvestIsMost ==
    ASSUME NEW cands, CandsOK(cands), NEW n \in Nat, n <= Quantity(cands, DOMAIN cands),
           NEW a, IsDraw(cands, a, n)
    PROVE  /\ PartGain(cands, LossParcels(cands), Allocate(cands, n, "harvest_losses"))
                <= PartGain(cands, LossParcels(cands), a)
           /\ PartGain(cands, LossParcels(cands), Allocate(cands, n, "harvest_losses")) \in Int
           /\ PartGain(cands, LossParcels(cands), a) \in Int
<1>1. PICK S, q, v, ahead : /\ S = DOMAIN cands /\ q = UnitsOf(cands) /\ v = LossesOf(cands)
                            /\ ahead = HarvestAhead(cands)
  OBVIOUS
<1>2. PICK t : t = Allocate(cands, n, "harvest_losses")
  OBVIOUS
<1>3. Priced(S, ahead, q, v) /\ t = FirstUnits(S, ahead, q, n)
  BY <1>1, <1>2, HarvestPriced
<1>4. /\ \A p \in S : t[p] \in Nat
      /\ SumOver(t, S) = IF n <= SumOver(q, S) THEN n ELSE SumOver(q, S)
  BY <1>3, FirstUnitsFacts
<1>5. n <= SumOver(q, S)
  <2>1. q = [p \in DOMAIN cands |-> cands[p].quantity] /\ S \in SUBSET DOMAIN cands
    BY <1>1 DEF UnitsOf
  <2>2. Quantity(cands, S) = SumOver(q, S)
    BY <2>1, QuantityFacts
  <2> QED
    BY <1>1, <2>2
<1>6. \A p \in S : a[p] \in Nat /\ a[p] <= q[p]
  BY <1>1 DEF IsDraw, UnitsOf
<1>7. SumOver(a, S) = n
  BY <1>1 DEF IsDraw
<1>8. \A p \in S : v[p] <= 0
  <2> SUFFICES ASSUME NEW p \in S PROVE v[p] <= 0
    OBVIOUS
  <2>1. PICK x \in Int : x = cands[p].gain
    BY <1>1 DEF CandsOK, Cand
  <2>2. v[p] = IF x < 0 THEN x ELSE 0
    BY <1>1, <2>1 DEF LossesOf
  <2> QED
    BY <2>2
<1>9. SumOver(a, S) <= SumOver(t, S)
  BY <1>4, <1>5, <1>7
<1>10. SameSide(S, v, a, t)
  BY <1>8, <1>9 DEF SameSide
<1>11. /\ WorthOf(S, v, t) \in Int /\ WorthOf(S, v, a) \in Int
       /\ WorthOf(S, v, t) <= WorthOf(S, v, a)
  BY <1>3, <1>6, <1>10, GreedyLeast
<1>12. WorthOf(S, v, t) = PartGain(cands, LossParcels(cands), t)
  BY <1>1, <1>4, LossIsPart
<1>13. WorthOf(S, v, a) = PartGain(cands, LossParcels(cands), a)
  BY <1>1, <1>6, LossIsPart
<1> QED
  BY <1>2, <1>11, <1>12, <1>13

-----------------------------------------------------------------------------
(* The books and the advice. *)

\* A parcel as it was bought.
OptParcel == [acquired : Nat, quantity : Nat \ {0}, unitCost : Nat]

\* A sell on a day that sells are for, of parcels of `of`.
SaleOK(s, of) ==
    /\ s.date \in OptSaleDays
    /\ DOMAIN s.picks \subseteq of
    /\ \A p \in DOMAIN s.picks : s.picks[p] \in Nat

\* The response is about the parcels open on its date, as they are.
AdviceOK ==
    /\ advice.date \in OptSaleDays /\ advice.units \in Nat
    /\ CandsOK(advice.cands)
    /\ DOMAIN advice.cands = CandidatesAt(advice.date)
    /\ \A p \in DOMAIN advice.cands : advice.cands[p].quantity = RemainingAt(p, advice.date)
    /\ advice.units <= Quantity(advice.cands, DOMAIN advice.cands)
    /\ \A s \in Strategies :
          /\ FairPicks(advice.cands, DOMAIN advice.cands, advice.units, advice.picks[s])
          /\ advice.picks[s] = Allocate(advice.cands, advice.units, s)

OptInv ==
    /\ held \in Seq(OptParcel)
    /\ IsFiniteSet(disposed) /\ \A s \in disposed : SaleOK(s, DOMAIN held)
    /\ \A p \in DOMAIN held : Unsold(p) \in Nat
    /\ advice # NoAdvice => AdviceOK

\* Units of p that the sells D took up to day d.
TakenFrom(D, p, d) ==
    LET taking == {s \in D : s.date <= d /\ p \in DOMAIN s.picks}
    IN  SumOver([s \in taking |-> s.picks[p]], taking)

\* It is a number.
LEMMA TakenFromNat ==
    ASSUME NEW D, IsFiniteSet(D), NEW of, \A s \in D : SaleOK(s, of), NEW p, NEW d
    PROVE  TakenFrom(D, p, d) \in Nat
<1>1. PICK T \in SUBSET D : T = {s \in D : s.date <= d /\ p \in DOMAIN s.picks}
  OBVIOUS
<1>2. PICK f : f = [s \in T |-> s.picks[p]]
  OBVIOUS
<1>3. \A s \in T : f[s] \in Nat
  BY <1>1, <1>2 DEF SaleOK
<1>4. IsFiniteSet(T)
  BY FS_Subset
<1>5. SumOver(f, T) \in Nat
  BY <1>3, <1>4, SumNat
<1> QED
  BY <1>1, <1>2, <1>5 DEF TakenFrom

\* Another sell takes what it picks.
LEMMA TakenWithSale ==
    ASSUME NEW D, IsFiniteSet(D), NEW of, \A s \in D : SaleOK(s, of),
           NEW sale, SaleOK(sale, of), sale \notin D, NEW p, NEW d
    PROVE  TakenFrom(D \union {sale}, p, d) =
             IF sale.date <= d /\ p \in DOMAIN sale.picks
             THEN TakenFrom(D, p, d) + sale.picks[p] ELSE TakenFrom(D, p, d)
<1>1. PICK T \in SUBSET D : T = {s \in D : s.date <= d /\ p \in DOMAIN s.picks}
  OBVIOUS
<1>2. PICK f : f = [s \in T |-> s.picks[p]]
  OBVIOUS
<1>3. TakenFrom(D, p, d) = SumOver(f, T)
  BY <1>1, <1>2 DEF TakenFrom
<1>4. CASE ~(sale.date <= d /\ p \in DOMAIN sale.picks)
  <2>1. {s \in D \union {sale} : s.date <= d /\ p \in DOMAIN s.picks} = T
    BY <1>1, <1>4
  <2>2. TakenFrom(D \union {sale}, p, d) = SumOver(f, T)
    BY <1>2, <2>1 DEF TakenFrom
  <2> QED
    BY <1>3, <1>4, <2>2
<1>5. CASE sale.date <= d /\ p \in DOMAIN sale.picks
  <2>1. PICK U : U = T \union {sale}
    OBVIOUS
  <2>2. {s \in D \union {sale} : s.date <= d /\ p \in DOMAIN s.picks} = U
    BY <1>1, <1>5, <2>1
  <2>3. PICK g : g = [s \in U |-> s.picks[p]]
    OBVIOUS
  <2>4. TakenFrom(D \union {sale}, p, d) = SumOver(g, U)
    BY <2>2, <2>3 DEF TakenFrom
  <2>5. IsFiniteSet(T) /\ IsFiniteSet(U)
    BY <2>1, FS_Subset, FS_AddElement
  <2>6. \A s \in U : g[s] \in Int
    BY <1>1, <1>5, <2>1, <2>3 DEF SaleOK
  <2>7. sale \in U /\ U \ {sale} = T
    BY <1>1, <2>1
  <2>8. SumOver(g, U) = g[sale] + SumOver(g, U \ {sale})
    BY <2>5, <2>6, <2>7, SumSplit
  <2>9. \A s \in T : g[s] = f[s]
    BY <1>2, <2>1, <2>3
  <2>10. SumOver(g, T) = SumOver(f, T)
    BY <2>5, <2>9, SumCong
  <2>11. PICK a \in Int, b \in Int : a = g[sale] /\ b = SumOver(f, T) /\ a = sale.picks[p]
    <3>1. g[sale] = sale.picks[p] /\ g[sale] \in Int
      BY <2>3, <2>6, <2>7
    <3>2. \A s \in T : f[s] \in Int
      BY <2>1, <2>6, <2>9
    <3>3. SumOver(f, T) \in Int
      BY <2>5, <3>2, SumInt
    <3> QED
      BY <3>1, <3>3
  <2>12. SumOver(g, U) = b + a
    <3>1. SumOver(g, U) = a + b
      <4>1. SumOver(g, U \ {sale}) = b
        <5>1. SumOver(g, U \ {sale}) = SumOver(g, T)
          BY <2>7
        <5> QED
          BY <5>1, <2>10, <2>11
      <4> QED
        BY <2>8, <2>11, <4>1
    <3>2. a + b = b + a
      OBVIOUS
    <3> QED
      BY <3>1, <3>2
  <2> QED
    BY <1>3, <1>5, <2>4, <2>11, <2>12
<1> QED
  BY <1>4, <1>5

\* If the later sells took none, what is open on a day is what is unsold.
LEMMA TakenByThen ==
    ASSUME NEW D, IsFiniteSet(D), NEW of, \A s \in D : SaleOK(s, of), NEW p,
           NEW d \in Int, NEW e \in Int, d <= e,
           \A s \in D : s.date > d /\ p \in DOMAIN s.picks => ~(s.picks[p] > 0)
    PROVE  TakenFrom(D, p, e) = TakenFrom(D, p, d)
<1>1. PICK T \in SUBSET D : T = {s \in D : s.date <= d /\ p \in DOMAIN s.picks}
  OBVIOUS
<1>2. PICK U \in SUBSET D : U = {s \in D : s.date <= e /\ p \in DOMAIN s.picks}
  OBVIOUS
<1>3. PICK f, g : f = [s \in T |-> s.picks[p]] /\ g = [s \in U |-> s.picks[p]]
  OBVIOUS
<1>4. \A s \in D : s.date \in Int
  BY OptAssumption DEF SaleOK
<1>5. T \subseteq U
  BY <1>1, <1>2, <1>4
<1>6. \A s \in U : g[s] \in Nat /\ g[s] \in Int
  BY <1>2, <1>3 DEF SaleOK
<1>7. \A s \in U \ T : g[s] = 0
  <2> SUFFICES ASSUME NEW s \in U \ T PROVE g[s] = 0
    OBVIOUS
  <2>1. s \in D /\ p \in DOMAIN s.picks /\ ~(s.date <= d) /\ s.date \in Int
    BY <1>1, <1>2, <1>4
  <2>2. s.date > d
    BY <2>1
  <2>3. ~(s.picks[p] > 0) /\ g[s] = s.picks[p]
    BY <1>3, <2>1, <2>2
  <2>4. g[s] \in Nat /\ ~(g[s] > 0)
    BY <1>6, <2>3
  <2> QED
    BY <2>4
<1>8. IsFiniteSet(U) /\ IsFiniteSet(T)
  BY FS_Subset
<1>9. SumOver(g, U) = SumOver(g, T)
  BY <1>5, <1>6, <1>7, <1>8, SumSupport
<1>10. SumOver(g, T) = SumOver(f, T)
  <2>1. \A s \in T : g[s] = f[s]
    BY <1>3, <1>5
  <2> QED
    BY <1>8, <2>1, SumCong
<1>11. TakenFrom(D, p, e) = SumOver(g, U) /\ TakenFrom(D, p, d) = SumOver(f, T)
  BY <1>1, <1>2, <1>3 DEF TakenFrom
<1> QED
  BY <1>9, <1>10, <1>11

\* What is open of a parcel, in terms of the sells.
LEMMA Remainders ==
    /\ \A p, d : TakenBy(p, d) = TakenFrom(disposed, p, d)
    /\ \A p, d : RemainingAt(p, d) = held[p].quantity - TakenFrom(disposed, p, d)
    /\ \A p : Unsold(p) = held[p].quantity - TakenFrom(disposed, p, Max(OptSaleDays))
BY DEF TakenBy, TakenFrom, RemainingAt, Unsold

\* What is advised can be recorded.
LEMMA OptRecordable == OptInv => AdviceRecordable
<1> SUFFICES ASSUME OptInv, advice # NoAdvice,
                    \A sale \in disposed, p \in DOMAIN advice.cands :
                       ~(sale.date > advice.date /\ p \in DOMAIN sale.picks /\ sale.picks[p] > 0)
             PROVE  \A s \in Strategies : Accepts(advice.picks[s], advice.date)
  BY DEF AdviceRecordable
<1>1. AdviceOK
  BY DEF OptInv
<1>2. PICK d \in Nat, e \in Nat : d = advice.date /\ e = Max(OptSaleDays) /\ d <= e
  <2>1. IsFiniteSet(OptSaleDays) /\ OptSaleDays \subseteq Int /\ OptSaleDays # {}
    BY <1>1, OptAssumption DEF AdviceOK
  <2>2. Max(OptSaleDays) \in OptSaleDays /\ \A x \in OptSaleDays : x <= Max(OptSaleDays)
    BY <2>1, MaxFacts
  <2> QED
    BY <1>1, <2>2, OptAssumption DEF AdviceOK
<1>3. ASSUME NEW s \in Strategies, NEW p \in DOMAIN advice.picks[s]
      PROVE  held[p].acquired <= d /\ advice.picks[s][p] <= Unsold(p)
  <2>1. /\ p \in DOMAIN advice.cands
        /\ advice.picks[s][p] <= advice.cands[p].quantity
        /\ p \in CandidatesAt(d)
        /\ advice.cands[p].quantity = RemainingAt(p, d)
    BY <1>1, <1>2, <1>3 DEF AdviceOK, FairPicks
  <2>2. \A x \in disposed : x.date > d /\ p \in DOMAIN x.picks => ~(x.picks[p] > 0)
    BY <1>2, <2>1
  <2>3. IsFiniteSet(disposed) /\ \A x \in disposed : SaleOK(x, DOMAIN held)
    BY DEF OptInv
  <2>4. d \in Int /\ e \in Int
    OBVIOUS
  <2>5. TakenFrom(disposed, p, e) = TakenFrom(disposed, p, d)
    BY <1>2, <2>2, <2>3, <2>4, TakenByThen
  <2>6. Unsold(p) = RemainingAt(p, d)
    BY <1>2, <2>5, Remainders
  <2>7. held[p].acquired <= d
    BY <2>1 DEF CandidatesAt
  <2> QED
    BY <2>1, <2>6, <2>7
<1> QED
  BY <1>2, <1>3 DEF Accepts

\* What is advised is the best of its kind.
LEMMA AdviceIsBest ==
    ASSUME OptInv, advice # NoAdvice
    PROVE  StrategiesOptimal
<1>1. PICK cands, n : cands = advice.cands /\ n = advice.units
  OBVIOUS
<1>2. CandsOK(cands) /\ n \in Nat /\ n <= Quantity(cands, DOMAIN cands)
  BY <1>1 DEF OptInv, AdviceOK
<1>3. PICK x, y : x = advice.picks["min_gain"] /\ y = advice.picks["harvest_losses"]
  OBVIOUS
<1>4. x = MinGainPicks(cands, n) /\ y = Allocate(cands, n, "harvest_losses")
  <2>1. "min_gain" \in Strategies /\ "harvest_losses" \in Strategies
    BY DEF Strategies
  <2>2. Allocate(cands, n, "min_gain") = MinGainPicks(cands, n)
    BY DEF Allocate
  <2>3. /\ x = Allocate(cands, n, "min_gain")
        /\ y = Allocate(cands, n, "harvest_losses")
    BY <1>1, <1>3, <2>1 DEF OptInv, AdviceOK
  <2> QED
    BY <2>2, <2>3
<1>5. ASSUME NEW a \in Allocations(cands, n)
      PROVE  /\ AssessableTwice(cands, x) <= AssessableTwice(cands, a)
             /\ -PartGain(cands, LossParcels(cands), a) <= -PartGain(cands, LossParcels(cands), y)
  <2>1. IsDraw(cands, a, n)
    BY <1>2, AllocationsAreDraws
  <2>2. AssessableTwice(cands, x) <= AssessableTwice(cands, a)
    BY <1>2, <1>4, <2>1, MinGainIsLeast
  <2>3. PICK i \in Int, j \in Int :
          /\ i = PartGain(cands, LossParcels(cands), y)
          /\ j = PartGain(cands, LossParcels(cands), a) /\ i <= j
    BY <1>2, <1>4, <2>1, HarvestIsMost
  <2> QED
    BY <2>2, <2>3
<1> QED
  BY <1>1, <1>3, <1>5 DEF StrategiesOptimal, PartGain

\* Every strategy takes the units asked for, and no parcel is oversold.
LEMMA OptTyped == OptInv => OptTypeOK
<1> SUFFICES ASSUME OptInv PROVE OptTypeOK
  OBVIOUS
<1>1. \A p \in DOMAIN held : Unsold(p) >= 0
  BY DEF OptInv
<1>2. ASSUME advice # NoAdvice, NEW s \in Strategies
      PROVE  /\ \A p \in DOMAIN advice.cands :
                   advice.picks[s][p] \in 0 .. advice.cands[p].quantity
             /\ SumOver(advice.picks[s], DOMAIN advice.cands) = advice.units
  <2>1. AdviceOK
    BY <1>2 DEF OptInv
  <2>2. FairPicks(advice.cands, DOMAIN advice.cands, advice.units, advice.picks[s])
    BY <2>1 DEF AdviceOK
  <2>3. \A p \in DOMAIN advice.cands : advice.cands[p].quantity \in Nat
    BY <2>1 DEF AdviceOK, CandsOK, Cand
  <2>4. SumOver(advice.picks[s], DOMAIN advice.cands) = advice.units
    BY <2>1, <2>2 DEF AdviceOK, FairPicks
  <2> QED
    BY <2>2, <2>3, <2>4 DEF FairPicks
<1> QED
  BY <1>1, <1>2 DEF OptTypeOK

-----------------------------------------------------------------------------
(* The steps. *)

\* Nothing is bought or advised yet.
LEMMA OptStart == OptInit => OptInv
BY FS_EmptySet DEF OptInit, OptInv

\* Another parcel is bought.
LEMMA BuyKeeps ==
    ASSUME OptInv, NEW d \in OptBuyDays, NEW n \in OptQuantities, NEW c \in OptUnitCosts,
           BuyParcel(d, n, c)
    PROVE  OptInv'
<1>1. PICK lot \in OptParcel : lot = [acquired |-> d, quantity |-> n, unitCost |-> c]
  BY OptAssumption DEF OptParcel
<1>2. held' = Append(held, lot) /\ advice' = NoAdvice /\ disposed' = disposed
  BY <1>1 DEF BuyParcel
<1>3. held \in Seq(OptParcel) /\ IsFiniteSet(disposed) /\ \A s \in disposed : SaleOK(s, DOMAIN held)
  BY DEF OptInv
<1>4. /\ held' \in Seq(OptParcel) /\ DOMAIN held' = DOMAIN held \union {Len(held) + 1}
      /\ held'[Len(held) + 1] = lot /\ \A p \in DOMAIN held : held'[p] = held[p]
      /\ Len(held) + 1 \notin DOMAIN held
  BY <1>2, <1>3
<1>5. \A s \in disposed' : SaleOK(s, DOMAIN held')
  BY <1>2, <1>3, <1>4 DEF SaleOK
<1>6. PICK e : e = Max(OptSaleDays)
  OBVIOUS
<1>7. \A p : Unsold(p)' = held'[p].quantity - TakenFrom(disposed, p, e)
  BY <1>2, <1>6 DEF Unsold, RemainingAt, TakenBy, TakenFrom
<1>8. ASSUME NEW p \in DOMAIN held' PROVE Unsold(p)' \in Nat
  <2>1. CASE p \in DOMAIN held
    <3>1. Unsold(p)' = Unsold(p)
      BY <1>4, <1>6, <1>7, <2>1, Remainders
    <3> QED
      BY <2>1, <3>1 DEF OptInv
  <2>2. CASE p = Len(held) + 1
    <3>1. {s \in disposed : s.date <= e /\ p \in DOMAIN s.picks} = {}
      BY <1>3, <1>4, <2>2 DEF SaleOK
    <3>2. TakenFrom(disposed, p, e) = 0
      BY <3>1, SumEmpty DEF TakenFrom
    <3>3. held'[p].quantity \in Nat
      BY <1>1, <1>4, <2>2 DEF OptParcel
    <3>4. Unsold(p)' = held'[p].quantity
      BY <1>7, <3>2, <3>3
    <3> QED
      BY <3>3, <3>4
  <2> QED
    BY <1>4, <2>1, <2>2
<1> QED
  BY <1>2, <1>3, <1>4, <1>5, <1>8 DEF OptInv

\* An advice.
LEMMA OptimiseKeeps ==
    ASSUME OptInv, NEW d \in OptSaleDays, NEW price \in OptPrices, NEW n \in Nat,
           Optimise(d, n, price)
    PROVE  OptInv'
<1>1. PICK open : open = CandidatesAt(d)
  OBVIOUS
<1>2. PICK cands : cands = [p \in open |-> [acquired |-> held[p].acquired,
                                  quantity |-> RemainingAt(p, d),
                                  gain |-> price - held[p].unitCost,
                                  eligible |-> d - DiscountDays > held[p].acquired]]
  OBVIOUS
<1>3. /\ n <= Quantity(cands, open)
      /\ advice' = [date |-> d, units |-> n, cands |-> cands,
                    picks |-> [s \in Strategies |-> Allocate(cands, n, s)]]
      /\ held' = held /\ disposed' = disposed
  BY <1>1, <1>2 DEF Optimise
<1>4. held \in Seq(OptParcel) /\ IsFiniteSet(disposed) /\ \A s \in disposed : SaleOK(s, DOMAIN held)
  BY DEF OptInv
<1>5. open \subseteq DOMAIN held /\ DOMAIN held = 1 .. Len(held)
  BY <1>1, <1>4 DEF CandidatesAt
<1>6. IsFiniteSet(open) /\ open \subseteq Nat
  <2>1. IsFiniteSet(1 .. Len(held))
    BY <1>4, FS_Interval
  <2>2. open \subseteq 1 .. Len(held)
    BY <1>5
  <2>3. IsFiniteSet(open)
    BY <2>1, <2>2, FS_Subset
  <2> QED
    BY <2>2, <2>3
<1>7. ASSUME NEW p \in open PROVE cands[p] \in Cand
  <2>1. held[p] \in OptParcel
    BY <1>4, <1>5
  <2>2. PICK a \in Nat, q \in Nat, u \in Nat :
          a = held[p].acquired /\ q = held[p].quantity /\ u = held[p].unitCost
    BY <2>1 DEF OptParcel
  <2>3. TakenFrom(disposed, p, d) \in Nat
    BY <1>4, TakenFromNat
  <2>4. RemainingAt(p, d) \in Int /\ RemainingAt(p, d) > 0
    BY <1>1, <2>2, <2>3, Remainders DEF CandidatesAt
  <2>5. RemainingAt(p, d) \in Nat
    BY <2>4
  <2>6. price \in Int /\ price - u \in Int
    BY OptAssumption
  <2>7. (d - DiscountDays > a) \in BOOLEAN
    OBVIOUS
  <2>8. cands[p] = [acquired |-> a, quantity |-> RemainingAt(p, d), gain |-> price - u,
                    eligible |-> (d - DiscountDays > a)]
    BY <1>2, <2>2
  <2> QED
    BY <2>5, <2>6, <2>7, <2>8 DEF Cand
<1>8. DOMAIN cands = open /\ CandsOK(cands)
  BY <1>2, <1>6, <1>7 DEF CandsOK
<1>9. \A s \in Strategies : FairPicks(cands, open, n, Allocate(cands, n, s))
  BY <1>3, <1>8, AllocationIsFair
<1>10. CandidatesAt(d)' = open /\ \A p \in open : RemainingAt(p, d)' = cands[p].quantity
  BY <1>1, <1>2, <1>3 DEF CandidatesAt, RemainingAt, TakenBy
<1>11. AdviceOK'
  <2>1. /\ advice'.date = d /\ advice'.units = n /\ advice'.cands = cands
        /\ \A s \in Strategies : advice'.picks[s] = Allocate(cands, n, s)
    BY <1>3
  <2> QED
    BY <1>3, <1>8, <1>9, <1>10, <2>1 DEF AdviceOK
<1>12. \A p \in DOMAIN held' : Unsold(p)' \in Nat
  <2>1. \A p : Unsold(p)' = Unsold(p)
    BY <1>3 DEF Unsold, RemainingAt, TakenBy
  <2> QED
    BY <1>3, <2>1 DEF OptInv
<1> QED
  BY <1>3, <1>4, <1>11, <1>12 DEF OptInv

\* The sell an advice describes.
LEMMA RecordKeeps ==
    ASSUME OptInv, NEW s \in Strategies, RecordAdvised(s)
    PROVE  OptInv'
<1>1. AdviceOK
  BY DEF OptInv, RecordAdvised
<1>2. PICK sale : sale = [n |-> Cardinality(disposed) + 1, date |-> advice.date,
                          picks |-> advice.picks[s]]
  OBVIOUS
<1>3. disposed' = disposed \union {sale} /\ advice' = NoAdvice /\ held' = held
  BY <1>2 DEF RecordAdvised
<1>4. IsFiniteSet(disposed) /\ \A x \in disposed : SaleOK(x, DOMAIN held)
  BY DEF OptInv
<1>5. SaleOK(sale, DOMAIN held)
  BY <1>1, <1>2 DEF AdviceOK, SaleOK, FairPicks, CandidatesAt
<1>6. IsFiniteSet(disposed') /\ \A x \in disposed' : SaleOK(x, DOMAIN held')
  <2>1. IsFiniteSet(disposed \union {sale})
    BY <1>4, FS_AddElement
  <2> QED
    BY <1>3, <1>4, <1>5, <2>1
<1>7. PICK e : e = Max(OptSaleDays)
  OBVIOUS
<1>8. ASSUME NEW p \in DOMAIN held' PROVE Unsold(p)' \in Nat
  <2>1. Unsold(p)' = held[p].quantity - TakenFrom(disposed', p, e)
    BY <1>3, <1>7 DEF Unsold, RemainingAt, TakenBy, TakenFrom
  <2>2. Unsold(p) = held[p].quantity - TakenFrom(disposed, p, e) /\ Unsold(p) \in Nat
    BY <1>3, <1>7, <1>8, Remainders DEF OptInv
  <2>3. CASE sale \in disposed
    <3>1. disposed' = disposed
      BY <1>3, <2>3
    <3> QED
      BY <2>1, <2>2, <3>1
  <2>4. CASE sale \notin disposed
    <3>1. TakenFrom(disposed', p, e) =
             IF sale.date <= e /\ p \in DOMAIN sale.picks
             THEN TakenFrom(disposed, p, e) + sale.picks[p] ELSE TakenFrom(disposed, p, e)
      BY <1>3, <1>4, <1>5, <2>4, TakenWithSale
    <3>2. p \in DOMAIN sale.picks => sale.picks[p] \in Nat /\ sale.picks[p] <= Unsold(p)
      BY <1>2, <1>5 DEF RecordAdvised, Accepts, SaleOK
    <3>3. PICK q \in Int, t \in Nat : q = held[p].quantity /\ t = TakenFrom(disposed, p, e)
      <4>1. held[p] \in OptParcel
        BY <1>3, <1>8 DEF OptInv
      <4>2. held[p].quantity \in Int
        BY <4>1 DEF OptParcel
      <4> QED
        BY <1>4, <4>2, TakenFromNat
    <3>4. CASE sale.date <= e /\ p \in DOMAIN sale.picks
      <4>1. PICK x \in Nat : x = sale.picks[p] /\ x <= q - t
        BY <2>2, <3>2, <3>3, <3>4
      <4>2. Unsold(p)' = q - (t + x)
        BY <2>1, <3>1, <3>3, <3>4, <4>1
      <4> QED
        BY <4>1, <4>2
    <3>5. CASE ~(sale.date <= e /\ p \in DOMAIN sale.picks)
      BY <2>1, <2>2, <3>1, <3>5
    <3> QED
      BY <3>4, <3>5
  <2> QED
    BY <2>3, <2>4
<1> QED
  BY <1>3, <1>6, <1>8 DEF OptInv

\* Every step.
LEMMA OptStep == OptInv /\ [OptNext]_optVars => OptInv'
<1> SUFFICES ASSUME OptInv, [OptNext]_optVars PROVE OptInv'
  OBVIOUS
<1>1. CASE UNCHANGED optVars
  BY <1>1 DEF optVars, OptInv, AdviceOK, Unsold, RemainingAt, TakenBy, CandidatesAt
<1>2. ASSUME NEW d \in OptBuyDays, NEW n \in OptQuantities, NEW c \in OptUnitCosts,
             BuyParcel(d, n, c)
      PROVE  OptInv'
  BY <1>2, BuyKeeps
<1>3. ASSUME NEW d \in OptSaleDays, NEW price \in OptPrices,
             NEW n \in 1 .. (MaxOptParcels * Max(OptQuantities)), Optimise(d, n, price)
      PROVE  OptInv'
  <2>1. n \in Nat
    OBVIOUS
  <2> QED
    BY <1>3, <2>1, OptimiseKeeps
<1>4. ASSUME NEW s \in Strategies, RecordAdvised(s) PROVE OptInv'
  BY <1>4, RecordKeeps
<1> QED
  BY <1>1, <1>2, <1>3, <1>4 DEF OptNext

\* Every strategy allocates exactly the units asked for, within what is open of
\* each parcel, and no sell recorded from one oversells a parcel
\* (allocate_parcels of reports/parcel_optimiser.rs).
THEOREM OptTypeCorrect == OptSpec => []OptTypeOK
<1>1. OptInit => OptInv
  BY OptStart
<1>2. OptInv /\ [OptNext]_optVars => OptInv'
  BY OptStep
<1>3. OptInv => OptTypeOK
  BY OptTyped
<1> QED
  BY <1>1, <1>2, <1>3, PTL DEF OptSpec

\* Whatever was bought and sold before, the Sell an advice describes is one that
\* sell.rs records, unless a later-dated sell drew on a parcel it offers.
THEOREM AdviceAlwaysRecordable == OptSpec => []AdviceRecordable
<1>1. OptInit => OptInv
  BY OptStart
<1>2. OptInv /\ [OptNext]_optVars => OptInv'
  BY OptStep
<1>3. OptInv => AdviceRecordable
  BY OptRecordable
<1> QED
  BY <1>1, <1>2, <1>3, PTL DEF OptSpec

(***************************************************************************)
(* min_gain is the exact minimum docs/API.md promises, for any parcels,    *)
(* gains, sales before and units: no allocation of the units adds less to  *)
(* the year's net gain than the one min_gain_picks finds among a handful   *)
(* of breakpoints; and none loses more than harvest_losses does.           *)
(***************************************************************************)
THEOREM StrategiesAlwaysOptimal == OptSpec => []StrategiesOptimal
<1>1. OptInit => OptInv
  BY OptStart
<1>2. OptInv /\ [OptNext]_optVars => OptInv'
  BY OptStep
<1>3. OptInv => StrategiesOptimal
  <2>1. CASE advice = NoAdvice
    BY <2>1 DEF StrategiesOptimal
  <2>2. CASE advice # NoAdvice
    BY <2>2, AdviceIsBest
  <2> QED
    BY <2>1, <2>2
<1> QED
  BY <1>1, <1>2, <1>3, PTL DEF OptSpec
=============================================================================
