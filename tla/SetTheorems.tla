---------------------------- MODULE SetTheorems ----------------------------
(***************************************************************************)
(* Facts about SumOver, proved from its definition: CHOOSE of a recursive  *)
(* function over the subsets of S.  The induction over a finite set is by  *)
(* a least counterexample (LeastSubset), which needs the library's         *)
(* well-foundedness of strict inclusion and no operator parameter.  Then   *)
(* the extremes of finite sets of numbers, along the same argument; walks: *)
(* what holds of a function that gives each day's value from that of the   *)
(* day before; and orders: what is taken from each, in an order, until     *)
(* there is enough.                                                        *)
(***************************************************************************)
EXTENDS Sums, FiniteSetTheorems, WellFoundedInduction, TLAPS

\* The element a sum takes first, and the recursion it follows.
Pick(s) == CHOOSE x \in s : TRUE

Rec(f, S, g) ==
  g = [s \in SUBSET S |-> IF s = {} THEN 0 ELSE f[Pick(s)] + g[s \ {Pick(s)}]]

\* The sum is read off whatever function satisfies the recursion.
LEMMA SumIsRec ==
  ASSUME NEW f, NEW S
  PROVE  SumOver(f, S) = (CHOOSE g : Rec(f, S, g))[S]
BY DEF SumOver, MapThenSumSet, MapThenFoldSet, Pick, Rec

\* Among the subsets of a finite set that have some property, one has no
\* smaller one below it: the induction the lemmas on sums rest on.
LEMMA LeastSubset ==
  ASSUME NEW S, IsFiniteSet(S), NEW B \in SUBSET SUBSET S, B # {}
  PROVE  \E T \in B : \A U \in SUBSET T : U # T => U \notin B
<1>1. B \subseteq FiniteSubsetsOf(S)
  BY FS_Subset DEF FiniteSubsetsOf
<1>2. PICK T \in B : \A U \in B : <<U, T>> \notin StrictSubsetOrdering(S)
  BY <1>1, FS_StrictSubsetOrderingWellFounded, WFMin, Zenon
<1> QED
  BY <1>1, <1>2 DEF StrictSubsetOrdering

\* Taking the picked element away leaves a smaller set.
LEMMA PickFacts ==
  ASSUME NEW s, s # {}
  PROVE  Pick(s) \in s /\ s \ {Pick(s)} \subseteq s /\ s \ {Pick(s)} # s
BY DEF Pick

\* Functions satisfying the recursion agree wherever both are defined.
LEMMA RecUnique ==
  ASSUME NEW f, NEW S, IsFiniteSet(S), NEW T1 \in SUBSET S, NEW T2 \in SUBSET S,
         NEW g1, NEW g2, Rec(f, T1, g1), Rec(f, T2, g2),
         NEW s \in SUBSET (T1 \cap T2)
  PROVE  g1[s] = g2[s]
<1> DEFINE B == {u \in SUBSET (T1 \cap T2) : g1[u] # g2[u]}
<1> SUFFICES ASSUME B # {} PROVE FALSE
  OBVIOUS
<1>1. B \in SUBSET SUBSET S
  OBVIOUS
<1>2. PICK u \in B : \A v \in SUBSET u : v # u => v \notin B
  <2> HIDE DEF B
  <2> QED
    BY <1>1, LeastSubset
<1>3. \A v \in SUBSET (T1 \cap T2) :
        /\ g1[v] = IF v = {} THEN 0 ELSE f[Pick(v)] + g1[v \ {Pick(v)}]
        /\ g2[v] = IF v = {} THEN 0 ELSE f[Pick(v)] + g2[v \ {Pick(v)}]
  BY DEF Rec
<1>4. u # {}
  BY <1>3
<1>5. g1[u \ {Pick(u)}] = g2[u \ {Pick(u)}]
  BY <1>2, <1>4, PickFacts
<1> QED
  BY <1>3, <1>4, <1>5

\* Over a finite set some function satisfies the recursion.
LEMMA RecExists ==
  ASSUME NEW f, NEW S, IsFiniteSet(S)
  PROVE  \E g : Rec(f, S, g)
<1> DEFINE B == {T \in SUBSET S : ~ \E g : Rec(f, T, g)}
           G(T) == CHOOSE g : Rec(f, T, g)
<1> SUFFICES ASSUME B # {} PROVE FALSE
  OBVIOUS
<1>1. PICK T \in B : \A U \in SUBSET T : U # T => U \notin B
  <2>1. B \in SUBSET SUBSET S
    OBVIOUS
  <2> HIDE DEF B
  <2> QED
    BY <2>1, LeastSubset
<1>2. \A U \in SUBSET T : U # T => Rec(f, U, G(U))
  BY <1>1
<1> HIDE DEF G
<1> DEFINE h == [s \in SUBSET T |-> IF s = {} THEN 0
                   ELSE f[Pick(s)] + G(s \ {Pick(s)})[s \ {Pick(s)}]]
<1>3. ASSUME NEW u \in SUBSET T, u # T PROVE h[u] = G(u)[u]
  <2>1. Rec(f, u, G(u))
    BY <1>2, <1>3
  <2>2. G(u)[u] = IF u = {} THEN 0 ELSE f[Pick(u)] + G(u)[u \ {Pick(u)}]
    BY <2>1 DEF Rec
  <2>3. CASE u = {}
    BY <2>2, <2>3
  <2>4. CASE u # {}
    <3> DEFINE v == u \ {Pick(u)}
    <3>1. v \in SUBSET u /\ v # T /\ v \in SUBSET T
      BY <1>3, <2>4, PickFacts
    <3>2. Rec(f, v, G(v))
      BY <1>2, <3>1
    <3>3. u \in SUBSET S /\ v \in SUBSET S /\ v \in SUBSET (u \cap v)
      BY <3>1
    <3>4. G(u)[v] = G(v)[v]
      BY <2>1, <3>2, <3>3, RecUnique
    <3> QED
      BY <2>2, <2>4, <3>4
  <2> QED
    BY <2>3, <2>4
<1>4. \A s \in SUBSET T : s # {} => s \ {Pick(s)} \in SUBSET T /\ s \ {Pick(s)} # T
  BY PickFacts
<1>5. Rec(f, T, h)
  BY <1>3, <1>4 DEF Rec
<1> QED
  BY <1>1, <1>5

\* A sum is its picked term and the sum of the rest.
LEMMA SumUnfold ==
  ASSUME NEW f, NEW S, IsFiniteSet(S)
  PROVE  SumOver(f, S) = IF S = {} THEN 0 ELSE f[Pick(S)] + SumOver(f, S \ {Pick(S)})
<1> DEFINE G(T) == CHOOSE g : Rec(f, T, g)
           T == S \ {Pick(S)}
<1>1. Rec(f, S, G(S)) /\ SumOver(f, S) = G(S)[S]
  BY RecExists, SumIsRec
<1>2. G(S)[S] = IF S = {} THEN 0 ELSE f[Pick(S)] + G(S)[T]
  BY <1>1 DEF Rec
<1>3. IsFiniteSet(T)
  BY FS_Subset
<1>4. Rec(f, T, G(T)) /\ SumOver(f, T) = G(T)[T]
  BY <1>3, RecExists, SumIsRec
<1>5. G(S)[T] = G(T)[T]
  BY <1>1, <1>4, RecUnique
<1> QED
  BY <1>1, <1>2, <1>4, <1>5

\* No rows sum to 0: the COALESCE(SUM(..), 0) of the queries.
LEMMA SumEmpty ==
  ASSUME NEW f
  PROVE  SumOver(f, {}) = 0
BY SumUnfold, FS_EmptySet

\* A sum of integers is an integer.
LEMMA SumInt ==
  ASSUME NEW f, NEW S, IsFiniteSet(S), \A x \in S : f[x] \in Int
  PROVE  SumOver(f, S) \in Int
<1> DEFINE B == {T \in SUBSET S : SumOver(f, T) \notin Int}
<1> SUFFICES ASSUME B # {} PROVE FALSE
  OBVIOUS
<1>1. PICK T \in B : \A U \in SUBSET T : U # T => U \notin B
  <2>1. B \in SUBSET SUBSET S
    OBVIOUS
  <2> HIDE DEF B
  <2> QED
    BY <2>1, LeastSubset
<1>2. T # {}
  <2>1. SumOver(f, {}) \in Int
    BY SumEmpty
  <2> QED
    BY <2>1
<1>3. Pick(T) \in S /\ SumOver(f, T \ {Pick(T)}) \in Int
  BY <1>1, <1>2, PickFacts
<1>4. SumOver(f, T) = f[Pick(T)] + SumOver(f, T \ {Pick(T)})
  BY <1>2, SumUnfold, FS_Subset
<1> QED
  BY <1>1, <1>3, <1>4

\* Any one term can be taken out of a sum: the order of the rows is no matter.
LEMMA SumSplit ==
  ASSUME NEW f, NEW S, IsFiniteSet(S), \A y \in S : f[y] \in Int, NEW x \in S
  PROVE  SumOver(f, S) = f[x] + SumOver(f, S \ {x})
<1> DEFINE B == {T \in SUBSET S : \E y \in T : SumOver(f, T) # f[y] + SumOver(f, T \ {y})}
<1> SUFFICES ASSUME B # {} PROVE FALSE
  OBVIOUS
<1>1. PICK T \in B : \A U \in SUBSET T : U # T => U \notin B
  <2>1. B \in SUBSET SUBSET S
    OBVIOUS
  <2> HIDE DEF B
  <2> QED
    BY <2>1, LeastSubset
<1>2. PICK y \in T : SumOver(f, T) # f[y] + SumOver(f, T \ {y})
  BY <1>1
<1> DEFINE z == Pick(T)
<1>3. IsFiniteSet(T)
  BY FS_Subset
<1>4. z \in T /\ SumOver(f, T) = f[z] + SumOver(f, T \ {z})
  BY <1>3, SumUnfold, PickFacts
<1> HIDE DEF z
<1>5. y # z
  BY <1>2, <1>4
<1>6. SumOver(f, T \ {z}) = f[y] + SumOver(f, (T \ {z}) \ {y})
  BY <1>1, <1>4, <1>5
<1>7. SumOver(f, T \ {y}) = f[z] + SumOver(f, (T \ {y}) \ {z})
  BY <1>1, <1>4, <1>5
<1>8. (T \ {z}) \ {y} = (T \ {y}) \ {z}
  OBVIOUS
<1>9. SumOver(f, (T \ {z}) \ {y}) \in Int /\ f[y] \in Int /\ f[z] \in Int
  BY <1>3, <1>4, SumInt, FS_Subset
<1> HIDE DEF B
<1>10. SumOver(f, T) = f[y] + SumOver(f, T \ {y})
  <2> DEFINE c == SumOver(f, (T \ {y}) \ {z})
  <2>1. c \in Int /\ f[y] \in Int /\ f[z] \in Int
    BY <1>8, <1>9
  <2>2. SumOver(f, T) = f[z] + (f[y] + c)
    BY <1>4, <1>6, <1>8
  <2>3. SumOver(f, T \ {y}) = f[z] + c
    BY <1>7
  <2> HIDE DEF c
  <2>4. f[z] + (f[y] + c) = f[y] + (f[z] + c)
    BY <2>1
  <2> QED
    BY <2>2, <2>3, <2>4
<1> QED
  BY <1>2, <1>10

\* Functions equal on a set have equal sums over it.
LEMMA SumCong ==
  ASSUME NEW f, NEW g, NEW S, IsFiniteSet(S), \A x \in S : f[x] = g[x]
  PROVE  SumOver(f, S) = SumOver(g, S)
<1> DEFINE B == {T \in SUBSET S : SumOver(f, T) # SumOver(g, T)}
<1> SUFFICES ASSUME B # {} PROVE FALSE
  OBVIOUS
<1>1. PICK T \in B : \A U \in SUBSET T : U # T => U \notin B
  <2>1. B \in SUBSET SUBSET S
    OBVIOUS
  <2> HIDE DEF B
  <2> QED
    BY <2>1, LeastSubset
<1>2. IsFiniteSet(T)
  BY FS_Subset
<1>3. T # {}
  <2>1. SumOver(f, {}) = SumOver(g, {})
    BY SumEmpty
  <2> QED
    BY <2>1
<1>4. Pick(T) \in T /\ SumOver(f, T \ {Pick(T)}) = SumOver(g, T \ {Pick(T)})
  BY <1>1, <1>3, PickFacts
<1>5. SumOver(f, T) = SumOver(g, T)
  BY <1>2, <1>3, <1>4, SumUnfold
<1> QED
  BY <1>5

\* Lowering terms never raises a sum.
LEMMA SumAtMost ==
  ASSUME NEW f, NEW g, NEW S, IsFiniteSet(S),
         \A x \in S : f[x] \in Int /\ g[x] \in Int /\ f[x] <= g[x]
  PROVE  SumOver(f, S) <= SumOver(g, S)
<1> DEFINE B == {T \in SUBSET S : ~(SumOver(f, T) <= SumOver(g, T))}
<1> SUFFICES ASSUME B # {} PROVE FALSE
  OBVIOUS
<1>1. PICK T \in B : \A U \in SUBSET T : U # T => U \notin B
  <2>1. B \in SUBSET SUBSET S
    OBVIOUS
  <2> HIDE DEF B
  <2> QED
    BY <2>1, LeastSubset
<1> DEFINE x == Pick(T)
           R == T \ {x}
<1>2. IsFiniteSet(T) /\ IsFiniteSet(R)
  BY FS_Subset
<1>3. T # {}
  <2>1. SumOver(f, {}) <= SumOver(g, {})
    BY SumEmpty
  <2> QED
    BY <2>1
<1>4. x \in T /\ SumOver(f, R) <= SumOver(g, R)
  BY <1>1, <1>3, PickFacts
<1>5. SumOver(f, T) = f[x] + SumOver(f, R) /\ SumOver(g, T) = g[x] + SumOver(g, R)
  BY <1>2, <1>3, SumUnfold
<1>6. SumOver(f, R) \in Int /\ SumOver(g, R) \in Int
  BY <1>2, SumInt
<1>7. f[x] \in Int /\ g[x] \in Int /\ f[x] <= g[x]
  BY <1>4
<1> HIDE DEF B, x, R
<1>8. SumOver(f, T) <= SumOver(g, T)
  BY <1>4, <1>5, <1>6, <1>7
<1> QED
  BY <1>8 DEF B

\* A sum of zeros is 0.
LEMMA SumZero ==
  ASSUME NEW f, NEW S, IsFiniteSet(S), \A x \in S : f[x] = 0
  PROVE  SumOver(f, S) = 0
<1> DEFINE B == {T \in SUBSET S : SumOver(f, T) # 0}
<1> SUFFICES ASSUME B # {} PROVE FALSE
  OBVIOUS
<1>1. PICK T \in B : \A U \in SUBSET T : U # T => U \notin B
  <2>1. B \in SUBSET SUBSET S
    OBVIOUS
  <2> HIDE DEF B
  <2> QED
    BY <2>1, LeastSubset
<1>2. IsFiniteSet(T)
  BY FS_Subset
<1>3. T # {}
  BY SumEmpty
<1>4. Pick(T) \in S /\ SumOver(f, T \ {Pick(T)}) = 0
  BY <1>1, <1>3, PickFacts
<1>5. SumOver(f, T) = 0
  BY <1>2, <1>3, <1>4, SumUnfold
<1> QED
  BY <1>5

\* A sum of naturals is a natural.
LEMMA SumNat ==
  ASSUME NEW f, NEW S, IsFiniteSet(S), \A x \in S : f[x] \in Nat
  PROVE  SumOver(f, S) \in Nat
<1> DEFINE z == [x \in S |-> 0]
<1>1. SumOver(z, S) = 0
  BY SumZero
<1>2. SumOver(z, S) <= SumOver(f, S) /\ SumOver(f, S) \in Int
  BY SumAtMost, SumInt
<1> QED
  BY <1>1, <1>2

\* Sums over disjoint sets add up.
LEMMA SumDisjoint ==
  ASSUME NEW f, NEW S, NEW T, IsFiniteSet(S), IsFiniteSet(T), S \cap T = {},
         \A x \in S \cup T : f[x] \in Int
  PROVE  SumOver(f, S \cup T) = SumOver(f, S) + SumOver(f, T)
<1> DEFINE B == {U \in SUBSET T : SumOver(f, S \cup U) # SumOver(f, S) + SumOver(f, U)}
<1> SUFFICES ASSUME B # {} PROVE FALSE
  OBVIOUS
<1>1. PICK U \in B : \A V \in SUBSET U : V # U => V \notin B
  <2>1. B \in SUBSET SUBSET T
    OBVIOUS
  <2> HIDE DEF B
  <2> QED
    BY <2>1, LeastSubset
<1>2. U \in SUBSET T /\ SumOver(f, S \cup U) # SumOver(f, S) + SumOver(f, U)
  BY <1>1
<1>3. IsFiniteSet(U) /\ IsFiniteSet(S \cup U)
  BY FS_Subset, FS_Union
<1>4. SumOver(f, S) \in Int
  BY SumInt
<1>5. U # {}
  <2>1. S \cup {} = S /\ SumOver(f, {}) = 0
    BY SumEmpty
  <2> QED
    BY <1>2, <1>4, <2>1
<1>6. PICK x \in U : TRUE
  BY <1>5
<1> DEFINE V == U \ {x}
<1>7. SumOver(f, S \cup V) = SumOver(f, S) + SumOver(f, V)
  BY <1>1
<1>8. (S \cup U) \ {x} = S \cup V
  OBVIOUS
<1>9. SumOver(f, S \cup U) = f[x] + SumOver(f, S \cup V)
  BY <1>3, <1>8, SumSplit
<1>10. SumOver(f, U) = f[x] + SumOver(f, V) /\ SumOver(f, V) \in Int /\ f[x] \in Int
  BY <1>3, SumSplit, SumInt, FS_Subset
<1> HIDE DEF B, V
<1> QED
  BY <1>2, <1>4, <1>7, <1>9, <1>10

\* Changing one term changes the sum by the difference.
LEMMA SumChange ==
  ASSUME NEW f, NEW g, NEW S, IsFiniteSet(S), NEW x \in S,
         \A y \in S : f[y] \in Int /\ g[y] \in Int,
         \A y \in S \ {x} : g[y] = f[y]
  PROVE  SumOver(g, S) = (SumOver(f, S) - f[x]) + g[x]
<1> DEFINE R == S \ {x}
<1>1. IsFiniteSet(R)
  BY FS_Subset
<1>2. SumOver(f, S) = f[x] + SumOver(f, R) /\ SumOver(g, S) = g[x] + SumOver(g, R)
  BY SumSplit
<1>3. SumOver(f, R) = SumOver(g, R) /\ SumOver(f, R) \in Int
  BY <1>1, SumCong, SumInt
<1> HIDE DEF R
<1> QED
  BY <1>2, <1>3

\* Terms that are 0 may be left out of a sum.
LEMMA SumSupport ==
  ASSUME NEW f, NEW S, IsFiniteSet(S), NEW T \in SUBSET S,
         \A x \in S : f[x] \in Int, \A x \in S \ T : f[x] = 0
  PROVE  SumOver(f, S) = SumOver(f, T)
<1>1. IsFiniteSet(T) /\ IsFiniteSet(S \ T) /\ T \cup (S \ T) = S
  BY FS_Subset
<1>2. SumOver(f, T \cup (S \ T)) = SumOver(f, T) + SumOver(f, S \ T)
  BY <1>1, SumDisjoint
<1>3. SumOver(f, S \ T) = 0 /\ SumOver(f, T) \in Int
  BY <1>1, SumZero, SumInt
<1>4. SumOver(f, T \cup (S \ T)) = SumOver(f, S)
  BY <1>1
<1> QED
  BY <1>2, <1>3, <1>4

\* A sum over renamed rows is the sum over the rows, if no two rows get
\* the same name.
LEMMA SumReindex ==
  ASSUME NEW b, NEW f, NEW g, NEW S, IsFiniteSet(S),
         \A x \in S : f[x] \in Int /\ g[b[x]] = f[x],
         \A x, y \in S : b[x] = b[y] => x = y
  PROVE  /\ IsFiniteSet({b[x] : x \in S})
         /\ SumOver(g, {b[x] : x \in S}) = SumOver(f, S)
<1> DEFINE Im(U) == {b[x] : x \in U}
           B == {U \in SUBSET S : ~(/\ IsFiniteSet(Im(U))
                                    /\ SumOver(g, Im(U)) = SumOver(f, U))}
<1> SUFFICES ASSUME B # {} PROVE FALSE
  <2> S \in SUBSET S
    OBVIOUS
  <2> QED
    OBVIOUS
<1>1. PICK U \in B : \A V \in SUBSET U : V # U => V \notin B
  <2>1. B \in SUBSET SUBSET S
    OBVIOUS
  <2> HIDE DEF B
  <2> QED
    BY <2>1, LeastSubset
<1>2. U \in SUBSET S /\ IsFiniteSet(U)
  BY <1>1, FS_Subset
<1>3. U # {}
  <2>1. Im({}) = {} /\ IsFiniteSet({}) /\ SumOver(g, {}) = SumOver(f, {})
    BY SumEmpty, FS_EmptySet
  <2> HIDE DEF Im
  <2> QED
    BY <2>1
<1>4. PICK x \in U : TRUE
  BY <1>3
<1> DEFINE V == U \ {x}
<1>5. IsFiniteSet(Im(V)) /\ SumOver(g, Im(V)) = SumOver(f, V)
  <2>1. V \in SUBSET U /\ V # U /\ V \in SUBSET S
    BY <1>2
  <2> HIDE DEF V, Im
  <2> QED
    BY <1>1, <2>1
<1>6. Im(U) = Im(V) \cup {b[x]} /\ b[x] \notin Im(V) /\ Im(U) \ {b[x]} = Im(V)
  BY <1>2, <1>4
<1>7. IsFiniteSet(Im(U))
  <2> HIDE DEF Im, V
  <2> QED
    BY <1>5, <1>6, FS_AddElement
<1>8. \A y \in Im(U) : g[y] \in Int
  BY <1>2
<1>9. SumOver(g, Im(U)) = g[b[x]] + SumOver(g, Im(V))
  <2> HIDE DEF Im, V
  <2> QED
    BY <1>6, <1>7, <1>8, SumSplit
<1>10. SumOver(f, U) = f[x] + SumOver(f, V)
  BY <1>2, SumSplit
<1>11. g[b[x]] = f[x]
  BY <1>2
<1>12. SumOver(g, Im(U)) = SumOver(f, U)
  BY <1>5, <1>9, <1>10, <1>11
<1> HIDE DEF Im
<1> QED
  BY <1>1, <1>7, <1>12

\* A factor of every term is a factor of the sum.
LEMMA SumTimes ==
  ASSUME NEW f, NEW g, NEW S, IsFiniteSet(S), NEW k \in Int,
         \A x \in S : f[x] \in Int /\ g[x] = k * f[x]
  PROVE  SumOver(g, S) = k * SumOver(f, S)
<1> DEFINE B == {T \in SUBSET S : SumOver(g, T) # k * SumOver(f, T)}
<1> SUFFICES ASSUME B # {} PROVE FALSE
  OBVIOUS
<1>1. PICK T \in B : \A U \in SUBSET T : U # T => U \notin B
  <2>1. B \in SUBSET SUBSET S
    OBVIOUS
  <2> HIDE DEF B
  <2> QED
    BY <2>1, LeastSubset
<1>2. IsFiniteSet(T)
  BY FS_Subset
<1>3. T # {}
  <2>1. SumOver(f, {}) = 0 /\ SumOver(g, {}) = 0 /\ k * 0 = 0
    BY SumEmpty
  <2>2. SumOver(g, {}) = k * SumOver(f, {})
    BY <2>1
  <2> QED
    BY <2>2
<1> DEFINE x == Pick(T)
           R == T \ {x}
<1>4. x \in S /\ SumOver(g, R) = k * SumOver(f, R)
  BY <1>1, <1>3, PickFacts
<1>5. SumOver(f, T) = f[x] + SumOver(f, R) /\ SumOver(g, T) = g[x] + SumOver(g, R)
  BY <1>2, <1>3, SumUnfold
<1>6. SumOver(f, R) \in Int /\ f[x] \in Int /\ g[x] = k * f[x]
  BY <1>2, <1>4, SumInt, FS_Subset
<1>7. \A m, n \in Int : k * m + k * n = k * (m + n)
  OBVIOUS
<1> HIDE DEF B, x, R
<1>8. SumOver(g, T) = k * SumOver(f, T)
  BY <1>4, <1>5, <1>6, <1>7
<1> QED
  BY <1>8 DEF B

-----------------------------------------------------------------------------
(* Largest and smallest members. *)

\* A part of S for each of its members.
Cuts(S, cut) == \A d \in S : cut[d] \subseteq S

\* A member of S has a part that properly includes no other's.
HasLeast(S, cut) == \E m \in S : \A y \in S : cut[y] \subseteq cut[m] => cut[y] = cut[m]

\* Of the cuts of a finite set, one has no smaller cut.
LEMMA LeastCut ==
    ASSUME NEW S, NEW cut, IsFiniteSet(S), S # {}, Cuts(S, cut)
    PROVE  HasLeast(S, cut)
<1> DEFINE B == {cut[d] : d \in S}
<1>1. B \subseteq FiniteSubsetsOf(S) /\ B # {}
  <2>1. \A T \in SUBSET S : T \in FiniteSubsetsOf(S)
    BY FS_Subset DEF FiniteSubsetsOf
  <2> QED
    BY <2>1 DEF Cuts
<1>2. PICK T \in B : \A U \in B : <<U, T>> \notin StrictSubsetOrdering(S)
  <2> HIDE DEF B
  <2> QED
    BY <1>1, FS_StrictSubsetOrderingWellFounded, WFMin, Zenon
<1>3. PICK m \in S : T = cut[m]
  OBVIOUS
<1>4. ASSUME NEW y \in S, cut[y] \subseteq cut[m], cut[y] # cut[m]
      PROVE  FALSE
  <2>1. <<cut[y], cut[m]>> \in StrictSubsetOrdering(S)
    BY <1>4 DEF StrictSubsetOrdering, Cuts
  <2>2. cut[y] \in B
    OBVIOUS
  <2> HIDE DEF B
  <2> QED
    BY <1>2, <1>3, <2>1, <2>2
<1> QED
  BY <1>4 DEF HasLeast

\* A finite set of numbers has a largest member: the one with the fewest
\* members above it.
LEMMA HasMax ==
    ASSUME NEW S, IsFiniteSet(S), S \subseteq Int, S # {}
    PROVE  \E m \in S : \A x \in S : x <= m
<1>0. PICK above : above = [d \in S |-> {x \in S : x > d}]
  OBVIOUS
<1>1. PICK m \in S : \A y \in S : above[y] \subseteq above[m] => above[y] = above[m]
  <2>1. Cuts(S, above)
    BY <1>0 DEF Cuts
  <2>2. HasLeast(S, above)
    BY <2>1, LeastCut
  <2> QED
    BY <2>2 DEF HasLeast
<1>3. \A d, x \in S : x \in above[d] <=> x > d
  BY <1>0
<1>4. \A d \in S : above[d] \subseteq S
  BY <1>0
<1>2. ASSUME NEW y \in S, y > m
      PROVE  FALSE
  <2>1. above[y] \subseteq above[m]
    <3>1. ASSUME NEW x \in above[y]
          PROVE  x \in above[m]
      <4>1. x \in S /\ x \in Int /\ y \in Int /\ m \in Int /\ x > y
        BY <1>3, <1>4
      <4> QED
        BY <1>2, <1>3, <4>1
    <3> QED
      BY <3>1
  <2>2. y \in above[m] /\ y \notin above[y]
    <3>1. y \in Int /\ ~(y > y)
      OBVIOUS
    <3> QED
      BY <1>2, <1>3, <3>1
  <2> QED
    BY <1>1, <2>1, <2>2
<1> QED
  BY <1>2

\* And a smallest one.
LEMMA HasMin ==
    ASSUME NEW S, IsFiniteSet(S), S \subseteq Int, S # {}
    PROVE  \E m \in S : \A x \in S : m <= x
<1>0. PICK below : below = [d \in S |-> {x \in S : x < d}]
  OBVIOUS
<1>1. PICK m \in S : \A y \in S : below[y] \subseteq below[m] => below[y] = below[m]
  <2>1. Cuts(S, below)
    BY <1>0 DEF Cuts
  <2>2. HasLeast(S, below)
    BY <2>1, LeastCut
  <2> QED
    BY <2>2 DEF HasLeast
<1>3. \A d, x \in S : x \in below[d] <=> x < d
  BY <1>0
<1>4. \A d \in S : below[d] \subseteq S
  BY <1>0
<1>2. ASSUME NEW y \in S, y < m
      PROVE  FALSE
  <2>1. below[y] \subseteq below[m]
    <3>1. ASSUME NEW x \in below[y]
          PROVE  x \in below[m]
      <4>1. x \in S /\ x \in Int /\ y \in Int /\ m \in Int /\ x < y
        BY <1>3, <1>4
      <4> QED
        BY <1>2, <1>3, <4>1
    <3> QED
      BY <3>1
  <2>2. y \in below[m] /\ y \notin below[y]
    <3>1. y \in Int /\ ~(y < y)
      OBVIOUS
    <3> QED
      BY <1>2, <1>3, <3>1
  <2> QED
    BY <1>1, <2>1, <2>2
<1> QED
  BY <1>2

\* Max and Min are what they say.
LEMMA MaxFacts ==
    ASSUME NEW S, IsFiniteSet(S), S \subseteq Int, S # {}
    PROVE  Max(S) \in S /\ \A x \in S : x <= Max(S)
<1>1. \E m \in S : \A x \in S : x <= m
  BY HasMax
<1>2. \E m \in S : \A x \in S : m >= x
  BY <1>1
<1>3. Max(S) \in S /\ \A x \in S : Max(S) >= x
  BY <1>2, Zenon DEF Max
<1> QED
  BY <1>3

\* A finite non-empty set of integers has its least member.
LEMMA MinFacts ==
    ASSUME NEW S, IsFiniteSet(S), S \subseteq Int, S # {}
    PROVE  Min(S) \in S /\ \A x \in S : Min(S) <= x
<1>1. \E m \in S : \A x \in S : m =< x
  BY HasMin
<1> QED
  BY <1>1, Zenon DEF Min

\* The largest member of a set is told by its being one and above the others.
LEMMA MaxIs ==
    ASSUME NEW S, IsFiniteSet(S), S \subseteq Int,
           NEW m \in S, \A x \in S : x <= m
    PROVE  Max(S) = m
<1>1. Max(S) \in S /\ \A x \in S : x <= Max(S)
  BY MaxFacts
<1>2. m \in Int /\ Max(S) \in Int /\ m <= Max(S) /\ Max(S) <= m
  BY <1>1
<1> QED
  BY <1>2

-----------------------------------------------------------------------------
(* Division, and what is made of finite sets. *)

\* Division by a positive number keeps the order.
LEMMA DivUp ==
    ASSUME NEW d \in Int, d > 0, NEW x \in Int, NEW y \in Int, x <= y
    PROVE  x \div d \in Int /\ y \div d \in Int /\ x \div d <= y \div d
<1>1. \A w \in Int : w \div d \in Int /\ w % d \in Int /\ w % d >= 0 /\ w % d < d
  OBVIOUS
<1>2. (x \div d) * d + (x % d) = x /\ (y \div d) * d + (y % d) = y
  BY SMTT(30)
<1>3. PICK a \in Int, b \in Int, r \in Int, s \in Int :
        a = x \div d /\ b = y \div d /\ r = x % d /\ s = y % d
  BY <1>1
<1>4. r >= 0 /\ s < d /\ a * d + r = x /\ b * d + s = y
  BY <1>1, <1>2, <1>3
<1>5. a <= b
  <2> SUFFICES ASSUME a >= b + 1 PROVE FALSE
    OBVIOUS
  <2>1. (a - b - 1) * d >= 0
    OBVIOUS
  <2>2. (a - b - 1) * d = a * d - b * d - d
    OBVIOUS
  <2> HIDE <1>1, <1>2
  <2> QED
    BY <1>4, <2>1, <2>2
<1> QED
  BY <1>3, <1>5

\* A whole number of units of any amount.
LEMMA Quotient ==
    ASSUME NEW x \in Int, NEW d \in Int, d > 0
    PROVE  x \div d \in Int
OBVIOUS

\* What is made of the members of a finite set is finite.
LEMMA MadeFinite ==
    ASSUME NEW S, IsFiniteSet(S), NEW f, DOMAIN f = S
    PROVE  IsFiniteSet({f[x] : x \in S})
<1>1. PICK T : T = {f[x] : x \in S}
  OBVIOUS
<1>2. PICK g : g = [x \in S |-> f[x]]
  OBVIOUS
<1>3. g \in Surjection(S, T)
  BY <1>1, <1>2 DEF Surjection
<1>4. IsFiniteSet(T)
  BY <1>3, FS_Surjection
<1> QED
  BY <1>1, <1>4

-----------------------------------------------------------------------------
(* Walks over days or years, each step from the one before. *)

\* What holds at the start and from each step to the next holds throughout.
LEMMA Climb ==
    ASSUME NEW N \in Nat, NEW S, 0 \in S, \A d \in 1 .. N : d - 1 \in S => d \in S
    PROVE  \A d \in 0 .. N : d \in S
<1>1. PICK B : B = {d \in 0 .. N : d \notin S}
  OBVIOUS
<1> SUFFICES ASSUME B # {} PROVE FALSE
  BY <1>1
<1>2. IsFiniteSet(B) /\ B \subseteq Int
  <2>1. IsFiniteSet(0 .. N)
    BY FS_Interval
  <2>2. B \subseteq 0 .. N /\ B \subseteq Int
    BY <1>1
  <2>3. IsFiniteSet(B)
    BY <2>1, <2>2, FS_Subset
  <2> QED
    BY <2>2, <2>3
<1>3. PICK m \in B : \A x \in B : m <= x
  BY <1>2, HasMin
<1>4. m \in 1 .. N /\ m - 1 \in 0 .. N
  BY <1>1, <1>3
<1>5. m - 1 \in S
  <2>1. ~(m <= m - 1)
    BY <1>4
  <2> QED
    BY <1>1, <1>3, <1>4, <2>1
<1> QED
  BY <1>1, <1>3, <1>4, <1>5

\* f walks n steps from a.
Walk(f, n, a, step) == f = [d \in 0 .. n |-> IF d = 0 THEN a ELSE step[<<f[d - 1], d>>]]

\* There is a walk of any length.
LEMMA WalkExists ==
    ASSUME NEW N \in Nat, NEW a, NEW step
    PROVE  \E f : Walk(f, N, a, step)
<1>1. PICK S : S = {n \in 0 .. N : \E f : Walk(f, n, a, step)}
  OBVIOUS
<1>2. 0 \in S
  <2>1. PICK f : f = [d \in 0 .. 0 |-> a]
    OBVIOUS
  <2>2. Walk(f, 0, a, step)
    BY <2>1 DEF Walk
  <2> QED
    BY <1>1, <2>2
<1>3. ASSUME NEW n \in 1 .. N, n - 1 \in S PROVE n \in S
  <2>1. PICK f : Walk(f, n - 1, a, step)
    BY <1>1, <1>3
  <2>2. PICK g : g = [d \in 0 .. n |-> IF d = n THEN step[<<f[n - 1], n>>] ELSE f[d]]
    OBVIOUS
  <2>3. \A d \in 0 .. (n - 1) : f[d] = IF d = 0 THEN a ELSE step[<<f[d - 1], d>>]
    BY <2>1 DEF Walk
  <2>4. \A d \in 0 .. (n - 1) : g[d] = f[d]
    BY <2>2
  <2>5. ASSUME NEW d \in 0 .. n PROVE g[d] = IF d = 0 THEN a ELSE step[<<g[d - 1], d>>]
    <3>1. CASE d = n
      <4>1. n - 1 \in 0 .. (n - 1) /\ d # 0
        BY <3>1
      <4>2. g[n - 1] = f[n - 1]
        BY <2>4, <4>1
      <4>3. g[n] = step[<<f[n - 1], n>>]
        BY <2>2
      <4> QED
        BY <3>1, <4>1, <4>2, <4>3
    <3>2. CASE d \in 0 .. (n - 1)
      <4>1. d # 0 => g[d - 1] = f[d - 1]
        BY <2>4, <3>2
      <4> QED
        BY <2>3, <2>4, <3>2, <4>1
    <3> QED
      BY <3>1, <3>2
  <2>6. g = [d \in 0 .. n |-> IF d = 0 THEN a ELSE step[<<g[d - 1], d>>]]
    <3>1. g = [d \in 0 .. n |-> g[d]]
      BY <2>2
    <3> QED
      BY <2>5, <3>1
  <2> QED
    BY <1>1, <2>6 DEF Walk
<1> QED
  BY <1>1, <1>2, <1>3, Climb

\* One whose values are where each step leads.
LEMMA WalkStays ==
    ASSUME NEW N \in Nat, NEW a, NEW step, NEW V, a \in V[0],
           \A d \in 1 .. N : \A v \in V[d - 1] : step[<<v, d>>] \in V[d]
    PROVE  \E f : Walk(f, N, a, step) /\ \A d \in 0 .. N : f[d] \in V[d]
<1>1. PICK f : Walk(f, N, a, step)
  BY WalkExists
<1>2. PICK S : S = {d \in 0 .. N : f[d] \in V[d]}
  OBVIOUS
<1>3. f[0] = a /\ \A d \in 1 .. N : f[d] = step[<<f[d - 1], d>>]
  BY <1>1 DEF Walk
<1>4. 0 \in S
  <2>1. 0 \in 0 .. N /\ f[0] \in V[0]
    BY <1>3
  <2> QED
    BY <1>2, <2>1
<1>5. ASSUME NEW d \in 1 .. N, d - 1 \in S PROVE d \in S
  <2>1. f[d - 1] \in V[d - 1] /\ d \in 0 .. N
    BY <1>2, <1>5
  <2>2. step[<<f[d - 1], d>>] \in V[d]
    BY <2>1
  <2>3. f[d] \in V[d]
    BY <1>3, <2>2
  <2> QED
    BY <1>2, <2>1, <2>3
<1> QED
  BY <1>1, <1>2, <1>4, <1>5, Climb

\* There is such a walk in V, and whatever goes by its steps stays in V.
WalksIn(N, V, a, step) ==
    /\ \E f : Walk(f, N, a, step) /\ \A d \in 0 .. N : f[d] \in V
    /\ \A r : (/\ r[0] = a
               /\ \A d \in 1 .. N : r[d - 1] \in V => r[d] = step[<<r[d - 1], d>>])
              => \A d \in 0 .. N : r[d] \in V

\* A walk whose every step stays in a set.
LEMMA WalkIn ==
    ASSUME NEW N \in Nat, NEW V, NEW a \in V, NEW step \in [V \X (1 .. N) -> V]
    PROVE  WalksIn(N, V, a, step)
<1>1. PICK W : W = [d \in 0 .. N |-> V]
  OBVIOUS
<1>2. \A d \in 0 .. N : W[d] = V
  BY <1>1
<1>3. a \in W[0] /\ \A d \in 1 .. N : \A v \in W[d - 1] : step[<<v, d>>] \in W[d]
  <2>1. 0 \in 0 .. N
    OBVIOUS
  <2>2. ASSUME NEW d \in 1 .. N, NEW v \in W[d - 1] PROVE step[<<v, d>>] \in W[d]
    <3>1. d - 1 \in 0 .. N /\ d \in 0 .. N
      OBVIOUS
    <3>2. v \in V /\ W[d] = V
      BY <1>2, <3>1
    <3> QED
      BY <3>2
  <2> QED
    BY <1>2, <2>1, <2>2
<1>4. \E f : Walk(f, N, a, step) /\ \A d \in 0 .. N : f[d] \in W[d]
  BY <1>3, WalkStays
<1>5. ASSUME NEW r, r[0] = a,
             \A d \in 1 .. N : r[d - 1] \in V => r[d] = step[<<r[d - 1], d>>]
      PROVE  \A d \in 0 .. N : r[d] \in V
  <2>1. PICK S : S = {d \in 0 .. N : r[d] \in V}
    OBVIOUS
  <2>2. 0 \in S
    BY <1>5, <2>1
  <2>3. ASSUME NEW d \in 1 .. N, d - 1 \in S PROVE d \in S
    <3>1. r[d - 1] \in V /\ d \in 0 .. N
      BY <2>1, <2>3
    <3>2. r[d] = step[<<r[d - 1], d>>]
      BY <1>5, <3>1
    <3>3. step[<<r[d - 1], d>>] \in V
      BY <3>1
    <3> QED
      BY <2>1, <3>1, <3>2, <3>3
  <2>4. \A d \in 0 .. N : d \in S
    BY <2>2, <2>3, Climb
  <2> QED
    BY <2>1, <2>4
<1> QED
  BY <1>2, <1>4, <1>5 DEF WalksIn

-----------------------------------------------------------------------------
(* Orders. *)

\* The lesser of two numbers, and the greater.
LEMMA MinMaxOfTwo ==
    ASSUME NEW a \in Int, NEW b \in Int
    PROVE  /\ Min({a, b}) \in Int /\ Max({a, b}) \in Int
           /\ Min({a, b}) = IF a <= b THEN a ELSE b
           /\ Max({a, b}) = IF a <= b THEN b ELSE a
<1>1. PICK S : S = {a, b}
  OBVIOUS
<1>2. IsFiniteSet(S) /\ S \subseteq Int /\ S # {}
  <2>1. IsFiniteSet({}) /\ {} \union {a} = {a} /\ {a} \union {b} = S
    BY <1>1, FS_EmptySet
  <2>2. IsFiniteSet({a}) /\ IsFiniteSet(S)
    BY <2>1, FS_AddElement
  <2> QED
    BY <1>1, <2>2
<1>3. Min(S) \in S /\ \A x \in S : Min(S) <= x
  BY <1>2, MinFacts
<1>4. Max(S) \in S /\ \A x \in S : x <= Max(S)
  BY <1>2, MaxFacts
<1>5. PICK m, n : m = Min(S) /\ n = Max(S)
  OBVIOUS
<1>6. m \in {a, b} /\ n \in {a, b} /\ m <= a /\ m <= b /\ a <= n /\ b <= n
  BY <1>1, <1>3, <1>4, <1>5
<1> QED
  BY <1>1, <1>5, <1>6

\* Who is ahead of whom in a strict order of all of S.
Ordered(S, ahead) ==
    /\ \A p \in S : ahead[p] \subseteq S /\ p \notin ahead[p]
    /\ \A p, q \in S : q \in ahead[p] => ahead[q] \subseteq ahead[p]
    /\ \A p, q \in S : p # q => p \in ahead[q] \/ q \in ahead[p]

\* Of finitely many, one comes last.
LEMMA LastInOrder ==
    ASSUME NEW S, NEW ahead, Ordered(S, ahead), NEW D \in SUBSET S,
           IsFiniteSet(D), D # {}
    PROVE  \E m \in D : D \ {m} \subseteq ahead[m]
<1>1. PICK cut : cut = [p \in D |-> D \ ahead[p]]
  OBVIOUS
<1>2. \A p \in D : cut[p] = D \ ahead[p]
  BY <1>1
<1>3. Cuts(D, cut)
  BY <1>2 DEF Cuts
<1>4. HasLeast(D, cut)
  BY <1>3, LeastCut
<1>5. PICK m \in D : \A y \in D : cut[y] \subseteq cut[m] => cut[y] = cut[m]
  BY <1>4 DEF HasLeast
<1>6. ASSUME NEW q \in D, q # m, q \notin ahead[m] PROVE FALSE
  <2>1. m \in ahead[q] /\ ahead[m] \subseteq ahead[q] /\ m \notin ahead[m]
    BY <1>6 DEF Ordered
  <2>2. cut[q] \subseteq cut[m]
    BY <1>2, <2>1
  <2>3. m \in cut[m] /\ m \notin cut[q]
    BY <1>2, <2>1
  <2> QED
    BY <1>5, <2>2, <2>3
<1> QED
  BY <1>6

\* What is left of n once the ones ahead have taken theirs, as far as it goes.
TakenOf(n, q, behind) == IF n - behind <= 0 THEN 0 ELSE IF q <= n - behind THEN q ELSE n - behind

\* Taking in an order what each has, up to n in all, takes n or everything.
LEMMA TakingInOrder ==
    ASSUME NEW S, IsFiniteSet(S), NEW ahead, Ordered(S, ahead), NEW n \in Nat,
           NEW q, \A p \in S : q[p] \in Nat, NEW take,
           \A p \in S : take[p] = TakenOf(n, q[p], SumOver(q, ahead[p]))
    PROVE  /\ \A p \in S : take[p] \in Nat /\ take[p] <= q[p]
           /\ SumOver(q, S) \in Nat
           /\ SumOver(take, S) = IF n <= SumOver(q, S) THEN n ELSE SumOver(q, S)
<1>1. \A D \in SUBSET S : IsFiniteSet(D) /\ SumOver(q, D) \in Nat
  <2> SUFFICES ASSUME NEW D \in SUBSET S PROVE IsFiniteSet(D) /\ SumOver(q, D) \in Nat
    OBVIOUS
  <2>1. IsFiniteSet(D)
    BY FS_Subset
  <2>2. \A p \in D : q[p] \in Nat
    OBVIOUS
  <2> QED
    BY <2>1, <2>2, SumNat
<1>2. ASSUME NEW p \in S PROVE take[p] \in Nat /\ take[p] <= q[p]
  <2>1. ahead[p] \in SUBSET S
    BY DEF Ordered
  <2>2. PICK b \in Nat, c \in Nat : b = SumOver(q, ahead[p]) /\ c = q[p]
    BY <1>1, <2>1
  <2>3. take[p] = TakenOf(n, c, b)
    BY <2>2
  <2> QED
    BY <2>2, <2>3 DEF TakenOf
<1> DEFINE Fair(D) == SumOver(take, D) = IF n <= SumOver(q, D) THEN n ELSE SumOver(q, D)
           B == {D \in SUBSET S : (\A p \in D : ahead[p] \subseteq D) /\ ~Fair(D)}
<1>3. B = {}
  <2> SUFFICES ASSUME B # {} PROVE FALSE
    OBVIOUS
  <2>1. PICK D \in B : \A U \in SUBSET D : U # D => U \notin B
    <3>1. B \in SUBSET SUBSET S
      OBVIOUS
    <3> HIDE DEF B
    <3> QED
      BY <3>1, LeastSubset
  <2>2. D \in SUBSET S /\ ~Fair(D) /\ \A p \in D : ahead[p] \subseteq D
    OBVIOUS
  <2>3. D # {}
    <3>1. SumOver(take, {}) = 0 /\ SumOver(q, {}) = 0
      BY SumEmpty
    <3>2. Fair({})
      BY <3>1
    <3> HIDE DEF Fair
    <3> QED
      BY <2>2, <3>2
  <2>4. PICK m \in D : D \ {m} \subseteq ahead[m]
    BY <1>1, <2>2, <2>3, LastInOrder
  <2>5. PICK E : E = D \ {m}
    OBVIOUS
  <2>6. ahead[m] = E /\ m \in S /\ E \in SUBSET S
    <3>1. ahead[m] \subseteq D /\ m \notin ahead[m]
      BY <2>2 DEF Ordered
    <3> QED
      BY <2>2, <2>4, <2>5, <3>1
  <2>7. \A p \in E : ahead[p] \subseteq E
    <3> SUFFICES ASSUME NEW p \in E PROVE ahead[p] \subseteq E
      OBVIOUS
    <3>1. p \in ahead[m] /\ p \in S
      BY <2>6
    <3>2. ahead[p] \subseteq ahead[m]
      BY <2>6, <3>1 DEF Ordered
    <3> QED
      BY <2>6, <3>2
  <2>8. Fair(E)
    <3>1. E \in SUBSET D /\ E # D
      BY <2>5
    <3>2. E \notin B
      BY <2>1, <3>1
    <3> HIDE DEF Fair
    <3> QED
      BY <2>6, <2>7, <3>2
  <2>9. PICK a \in Nat, c \in Nat, t \in Nat :
          a = SumOver(q, E) /\ c = q[m] /\ t = take[m] /\ t = TakenOf(n, c, a)
    BY <1>1, <1>2, <2>6
  <2>10. SumOver(q, D) = c + a
    <3>1. IsFiniteSet(D) /\ \A y \in D : q[y] \in Int
      BY <1>1, <2>2
    <3>2. SumOver(q, D) = q[m] + SumOver(q, D \ {m})
      BY <3>1, SumSplit
    <3> QED
      BY <2>5, <2>9, <3>2
  <2>11. SumOver(take, D) = t + SumOver(take, E)
    <3>1. IsFiniteSet(D) /\ \A y \in D : take[y] \in Int
      BY <1>1, <1>2, <2>2
    <3>2. SumOver(take, D) = take[m] + SumOver(take, D \ {m})
      BY <3>1, SumSplit
    <3> QED
      BY <2>5, <2>9, <3>2
  <2>12. SumOver(take, E) = IF n <= a THEN n ELSE a
    BY <2>8, <2>9
  <2>13. t + (IF n <= a THEN n ELSE a) = IF n <= c + a THEN n ELSE c + a
    BY <2>9 DEF TakenOf
  <2>14. Fair(D)
    BY <2>10, <2>11, <2>12, <2>13
  <2> HIDE DEF Fair
  <2> QED
    BY <2>2, <2>14
<1>4. Fair(S)
  <2>1. S \in SUBSET S /\ \A p \in S : ahead[p] \subseteq S
    BY DEF Ordered
  <2> HIDE DEF Fair
  <2> QED
    BY <1>3, <2>1
<1> QED
  BY <1>1, <1>2, <1>4

\* Of finitely many numbers, one is the first among those of least cost.
LEMMA CheapestNumber ==
    ASSUME NEW W, IsFiniteSet(W), W \subseteq Int, W # {}, NEW f, \A k \in W : f[k] \in Int
    PROVE  \E k \in W : \A x \in W : f[k] < f[x] \/ (f[k] = f[x] /\ k <= x)
<1>1. PICK g : g = [k \in W |-> f[k]]
  OBVIOUS
<1>2. PICK C : C = {g[k] : k \in W}
  OBVIOUS
<1>3. IsFiniteSet(C) /\ C \subseteq Int /\ C # {}
  <2>1. DOMAIN g = W
    BY <1>1
  <2>2. IsFiniteSet(C)
    BY <1>2, <2>1, MadeFinite
  <2> QED
    BY <1>1, <1>2, <2>2
<1>4. PICK c \in C : \A x \in C : c <= x
  BY <1>3, HasMin
<1>5. PICK V \in SUBSET W : V = {k \in W : f[k] = c}
  OBVIOUS
<1>6. V # {}
  BY <1>1, <1>2, <1>4, <1>5
<1>7. IsFiniteSet(V) /\ V \subseteq Int
  BY FS_Subset
<1>8. PICK k \in V : \A x \in V : k <= x
  BY <1>6, <1>7, HasMin
<1>9. ASSUME NEW x \in W PROVE f[k] < f[x] \/ (f[k] = f[x] /\ k <= x)
  <2>1. f[k] = c /\ f[x] \in C /\ c \in Int /\ f[x] \in Int
    BY <1>1, <1>2, <1>3, <1>5
  <2>2. c <= f[x]
    BY <1>4, <2>1
  <2>3. f[x] = c => k <= x
    BY <1>5, <1>8
  <2> QED
    BY <2>1, <2>2, <2>3
<1> QED
  BY <1>9

\* Two walks that start alike and step alike from the same amount are one.
LEMMA WalksAlike ==
    ASSUME NEW N \in Nat, NEW r, NEW q, r[0] = q[0],
           \A d \in 1 .. N : r[d - 1] = q[d - 1] => r[d] = q[d]
    PROVE  \A d \in 0 .. N : r[d] = q[d]
<1>1. PICK S : S = {d \in 0 .. N : r[d] = q[d]}
  OBVIOUS
<1>2. 0 \in S
  BY <1>1
<1>3. ASSUME NEW d \in 1 .. N, d - 1 \in S PROVE d \in S
  <2>1. d \in 0 .. N
    OBVIOUS
  <2> QED
    BY <1>1, <1>3, <2>1
<1>4. \A d \in 0 .. N : d \in S
  BY <1>2, <1>3, Climb
<1> QED
  BY <1>1, <1>4

\* A quotient is the most that goes into a number.
LEMMA QuotientFloor ==
    ASSUME NEW x \in Int, NEW d \in Int, d > 0
    PROVE  x \div d \in Int /\ d * (x \div d) <= x /\ x < d * (x \div d) + d
<1>1. x \div d \in Int /\ x % d \in Int /\ x % d >= 0 /\ x % d < d
  OBVIOUS
<1>2. d * (x \div d) + (x % d) = x
  BY SMTT(30)
<1>3. PICK q \in Int, r \in Int : q = d * (x \div d) /\ r = x % d
  BY <1>1
<1> QED
  BY <1>1, <1>2, <1>3

\* All that some parts have, and parts that have nothing in common, whose sums t says.
AllOf(F, S) == UNION {F[x] : x \in S}
NoneShared(F, S) == \A x, y \in S : x # y => F[x] \cap F[y] = {}
SumsAre(g, F, t, S) ==
    \A x \in S : /\ IsFiniteSet(F[x]) /\ t[x] = SumOver(g, F[x])
                 /\ \A z \in F[x] : g[z] \in Int

\* The sum over parts that have nothing in common is the sum of the parts' sums.
LEMMA SumOfParts ==
    ASSUME NEW S, IsFiniteSet(S), NEW F, NoneShared(F, S), NEW g, NEW t, SumsAre(g, F, t, S)
    PROVE  IsFiniteSet(AllOf(F, S)) /\ SumOver(g, AllOf(F, S)) = SumOver(t, S)
<1> USE DEF NoneShared, SumsAre, AllOf
<1> DEFINE All(U) == UNION {F[x] : x \in U}
           Fine(U) == IsFiniteSet(All(U)) /\ SumOver(g, All(U)) = SumOver(t, U)
           B == {U \in SUBSET S : ~Fine(U)}
<1> SUFFICES ASSUME B # {} PROVE FALSE
  BY DEF B
<1>1. B \in SUBSET SUBSET S
  OBVIOUS
<1>2. PICK U \in B : \A V \in SUBSET U : V # U => V \notin B
  <2> HIDE DEF B
  <2> QED
    BY <1>1, LeastSubset
<1>3. U \in SUBSET S /\ ~Fine(U)
  OBVIOUS
<1>4. U # {}
  <2>1. SUFFICES ASSUME U = {} PROVE FALSE
    OBVIOUS
  <2>2. All(U) = {}
    BY <2>1
  <2>3. Fine(U)
    BY <2>1, <2>2, SumEmpty, FS_EmptySet
  <2> QED
    BY <1>3, <2>3
<1>5. PICK x \in U : TRUE
  BY <1>4
<1>6. PICK V : V = U \ {x}
  OBVIOUS
<1>7. V \in SUBSET U /\ V # U /\ V \in SUBSET S /\ x \in S /\ x \notin V
  BY <1>3, <1>5, <1>6
<1>8. Fine(V)
  BY <1>2, <1>7
<1>9. All(U) = All(V) \union F[x]
  BY <1>5, <1>6
<1>10. All(V) \cap F[x] = {}
  BY <1>7
<1>11. IsFiniteSet(All(V)) /\ IsFiniteSet(F[x])
  BY <1>7, <1>8
<1>12. IsFiniteSet(All(U))
  <2>1. PICK W : W = All(V)
    OBVIOUS
  <2>2. IsFiniteSet(W \union F[x])
    BY <1>11, <2>1, FS_Union
  <2> QED
    BY <1>9, <2>1, <2>2
<1>13. \A z \in All(V) \union F[x] : g[z] \in Int
  BY <1>7
<1>14. SumOver(g, All(V) \union F[x]) = SumOver(g, All(V)) + SumOver(g, F[x])
  <2>1. PICK W : W = All(V)
    OBVIOUS
  <2>2. IsFiniteSet(W) /\ W \cap F[x] = {} /\ \A z \in W \union F[x] : g[z] \in Int
    BY <1>10, <1>11, <1>13, <2>1
  <2>3. SumOver(g, W \union F[x]) = SumOver(g, W) + SumOver(g, F[x])
    BY <1>11, <2>2, SumDisjoint
  <2> QED
    BY <2>1, <2>3
<1>15. \A y \in U : t[y] \in Int
  <2>1. \A y \in S : SumOver(g, F[y]) \in Int
    BY SumInt
  <2> QED
    BY <1>3, <2>1
<1>16. SumOver(t, U) = t[x] + SumOver(t, V)
  <2>1. IsFiniteSet(U)
    BY <1>3, FS_Subset
  <2> QED
    BY <1>5, <1>6, <1>15, <2>1, SumSplit
<1>17. t[x] = SumOver(g, F[x]) /\ t[x] \in Int /\ SumOver(g, All(V)) = SumOver(t, V)
  BY <1>5, <1>7, <1>8, <1>15
<1>18. SumOver(t, V) \in Int
  <2>1. IsFiniteSet(V) /\ \A y \in V : t[y] \in Int
    BY <1>7, <1>15, FS_Subset
  <2> QED
    BY <2>1, SumInt
<1>19. PICK a \in Int, b \in Int : a = t[x] /\ b = SumOver(t, V)
  BY <1>17, <1>18
<1>20. SumOver(g, All(U)) = b + a /\ SumOver(t, U) = a + b
  BY <1>9, <1>14, <1>16, <1>17, <1>19
<1>21. b + a = a + b
  OBVIOUS
<1>22. Fine(U)
  BY <1>12, <1>20, <1>21
<1> QED
  BY <1>3, <1>22

\* The sum of two terms for each is the two sums together.
LEMMA SumPlus ==
    ASSUME NEW S, IsFiniteSet(S), NEW f, NEW g, NEW h,
           \A x \in S : f[x] \in Int /\ g[x] \in Int /\ h[x] = f[x] + g[x]
    PROVE  SumOver(h, S) = SumOver(f, S) + SumOver(g, S)
<1> DEFINE Fine(U) == SumOver(h, U) = SumOver(f, U) + SumOver(g, U)
           B == {U \in SUBSET S : ~Fine(U)}
<1> SUFFICES ASSUME B # {} PROVE FALSE
  BY DEF B
<1>1. B \in SUBSET SUBSET S
  OBVIOUS
<1>2. PICK U \in B : \A V \in SUBSET U : V # U => V \notin B
  <2> HIDE DEF B
  <2> QED
    BY <1>1, LeastSubset
<1>3. U \in SUBSET S /\ ~Fine(U)
  OBVIOUS
<1>4. U # {}
  <2>1. Fine({})
    BY SumEmpty
  <2> QED
    BY <1>3, <2>1
<1>5. PICK x : x \in U
  BY <1>4
<1>6. PICK V : V = U \ {x}
  OBVIOUS
<1>7. x \in U /\ V = U \ {x}
  BY <1>5, <1>6
<1>8. V \in SUBSET U /\ V # U /\ V \in SUBSET S /\ x \in S
  BY <1>3, <1>7
<1>9. Fine(V)
  BY <1>2, <1>8
<1>10. IsFiniteSet(U) /\ IsFiniteSet(V)
  BY <1>3, <1>8, FS_Subset
<1>11. \A y \in U : f[y] \in Int /\ g[y] \in Int /\ h[y] \in Int
  BY <1>3
<1>12. /\ SumOver(f, U) = f[x] + SumOver(f, V) /\ SumOver(g, U) = g[x] + SumOver(g, V)
       /\ SumOver(h, U) = h[x] + SumOver(h, V)
  BY <1>7, <1>10, <1>11, SumSplit
<1>13. PICK a \in Int, b \in Int, c \in Int, d \in Int :
         a = f[x] /\ b = g[x] /\ c = SumOver(f, V) /\ d = SumOver(g, V)
  <2>1. SumOver(f, V) \in Int /\ SumOver(g, V) \in Int
    BY <1>8, <1>10, <1>11, SumInt
  <2> QED
    BY <1>8, <2>1
<1>14. h[x] = a + b /\ SumOver(h, V) = c + d
  BY <1>8, <1>9, <1>13
<1>15. (a + b) + (c + d) = (a + c) + (b + d)
  OBVIOUS
<1>16. Fine(U)
  BY <1>12, <1>13, <1>14, <1>15
<1> QED
  BY <1>3, <1>16

\* The sums of the rows, and of the columns, of a table.
RowSums(f, S, T) == [x \in S |-> SumOver(f[x], T)]
Column(f, S, y) == [x \in S |-> f[x][y]]
ColumnSums(f, S, T) == [y \in T |-> SumOver(Column(f, S, y), S)]

\* A table comes to the same by rows and by columns.
LEMMA SumSwap ==
    ASSUME NEW S, IsFiniteSet(S), NEW T, IsFiniteSet(T), NEW f,
           \A x \in S : \A y \in T : f[x][y] \in Int
    PROVE  SumOver(RowSums(f, S, T), S) = SumOver(ColumnSums(f, S, T), T)
<1> DEFINE Fine(U) == SumOver(RowSums(f, U, T), U) = SumOver(ColumnSums(f, U, T), T)
           B == {U \in SUBSET S : ~Fine(U)}
<1> SUFFICES ASSUME B # {} PROVE FALSE
  BY DEF B
<1>1. B \in SUBSET SUBSET S
  OBVIOUS
<1>2. PICK U \in B : \A V \in SUBSET U : V # U => V \notin B
  <2> HIDE DEF B
  <2> QED
    BY <1>1, LeastSubset
<1>3. U \in SUBSET S /\ ~Fine(U)
  OBVIOUS
<1>4. U # {}
  <2>1. \A y \in T : ColumnSums(f, {}, T)[y] = 0
    BY SumEmpty DEF ColumnSums
  <2>2. SumOver(ColumnSums(f, {}, T), T) = 0
    BY <2>1, SumZero
  <2>3. SumOver(RowSums(f, {}, T), {}) = 0
    BY SumEmpty
  <2>4. Fine({})
    BY <2>2, <2>3
  <2> QED
    BY <1>3, <2>4
<1>5. PICK x : x \in U
  BY <1>4
<1>6. PICK V : V = U \ {x}
  OBVIOUS
<1>7. x \in U /\ V = U \ {x}
  BY <1>5, <1>6
<1>8. V \in SUBSET U /\ V # U /\ V \in SUBSET S /\ x \in S
  BY <1>3, <1>7
<1>9. Fine(V)
  BY <1>2, <1>8
<1>10. IsFiniteSet(U) /\ IsFiniteSet(V)
  BY <1>3, <1>8, FS_Subset
<1>11. \A z \in U : RowSums(f, U, T)[z] = SumOver(f[z], T) /\ SumOver(f[z], T) \in Int
  <2>1. \A z \in U : \A y \in T : f[z][y] \in Int
    BY <1>3
  <2> QED
    BY <2>1, SumInt DEF RowSums
<1>12. SumOver(RowSums(f, U, T), U) = SumOver(f[x], T) + SumOver(RowSums(f, V, T), V)
  <2>1. PICK r : r = RowSums(f, U, T)
    OBVIOUS
  <2>2. \A z \in U : r[z] \in Int
    BY <1>11, <2>1
  <2>3. SumOver(r, U) = r[x] + SumOver(r, V)
    BY <1>7, <1>10, <2>2, SumSplit
  <2>4. \A z \in V : r[z] = RowSums(f, V, T)[z]
    BY <1>8, <2>1 DEF RowSums
  <2>5. SumOver(r, V) = SumOver(RowSums(f, V, T), V)
    BY <1>10, <2>4, SumCong
  <2> QED
    BY <1>7, <1>11, <2>1, <2>3, <2>5
<1>13. ASSUME NEW y \in T
       PROVE  /\ ColumnSums(f, U, T)[y] = f[x][y] + ColumnSums(f, V, T)[y]
              /\ ColumnSums(f, V, T)[y] \in Int /\ f[x][y] \in Int
  <2>1. PICK r : r = Column(f, U, y)
    OBVIOUS
  <2>2. \A z \in U : r[z] = f[z][y] /\ r[z] \in Int
    BY <1>3, <2>1 DEF Column
  <2>3. SumOver(r, U) = r[x] + SumOver(r, V)
    BY <1>7, <1>10, <2>2, SumSplit
  <2>4. \A z \in V : r[z] = Column(f, V, y)[z]
    BY <1>8, <2>1 DEF Column
  <2>5. SumOver(r, V) = SumOver(Column(f, V, y), V)
    BY <1>10, <2>4, SumCong
  <2>6. SumOver(r, V) \in Int
    BY <1>8, <1>10, <2>2, SumInt
  <2> QED
    BY <1>7, <2>1, <2>2, <2>3, <2>5, <2>6 DEF ColumnSums
<1>14. SumOver(ColumnSums(f, U, T), T) = SumOver(f[x], T) + SumOver(ColumnSums(f, V, T), T)
  BY <1>13, SumPlus
<1>15. Fine(U)
  BY <1>9, <1>12, <1>14
<1> QED
  BY <1>3, <1>15

-----------------------------------------------------------------------------
(* What the first units of an order are worth. *)

\* Parcels in an order of what a unit is worth: what each has, q, and the worth v.
Priced(S, ahead, q, v) ==
    /\ IsFiniteSet(S) /\ Ordered(S, ahead)
    /\ \A p \in S : q[p] \in Nat /\ v[p] \in Int
    /\ \A p \in S : \A r \in ahead[p] : v[r] <= v[p]

\* The first n units of them, and what some units are worth.
FirstUnits(S, ahead, q, n) == [p \in S |-> TakenOf(n, q[p], SumOver(q, ahead[p]))]
Products(S, v, a) == [p \in S |-> v[p] * a[p]]
WorthOf(S, v, a) == SumOver(Products(S, v, a), S)

\* Part of some amounts is no more than all.
LEMMA SumPart ==
    ASSUME NEW S, IsFiniteSet(S), NEW f, \A x \in S : f[x] \in Nat, NEW A \in SUBSET S
    PROVE  SumOver(f, A) \in Nat /\ SumOver(f, S) \in Nat /\ SumOver(f, A) <= SumOver(f, S)
<1>1. IsFiniteSet(A) /\ IsFiniteSet(S \ A) /\ A \cup (S \ A) = S
  BY FS_Subset
<1>2. SumOver(f, A) \in Nat /\ SumOver(f, S \ A) \in Nat
  BY <1>1, SumNat
<1>3. SumOver(f, A \cup (S \ A)) = SumOver(f, A) + SumOver(f, S \ A)
  BY <1>1, SumDisjoint
<1>4. SumOver(f, S) = SumOver(f, A) + SumOver(f, S \ A)
  BY <1>1, <1>3
<1>5. PICK x \in Nat, y \in Nat : x = SumOver(f, A) /\ y = SumOver(f, S \ A)
  BY <1>2
<1>6. SumOver(f, S) = x + y
  BY <1>4, <1>5
<1> QED
  BY <1>5, <1>6

\* What is ahead of one, and that one, is ahead of those behind it.
LEMMA AheadFull ==
    ASSUME NEW S, NEW ahead, NEW q, NEW v, Priced(S, ahead, q, v),
           NEW p \in S, NEW r \in ahead[p]
    PROVE  /\ r \in S
           /\ SumOver(q, ahead[r]) \in Nat /\ SumOver(q, ahead[p]) \in Nat
           /\ SumOver(q, ahead[r]) + q[r] <= SumOver(q, ahead[p])
<1>1. /\ ahead[p] \in SUBSET S /\ r \in S /\ ahead[r] \in SUBSET S
      /\ ahead[r] \subseteq ahead[p] /\ r \notin ahead[r]
  BY DEF Priced, Ordered
<1>2. PICK A \in SUBSET S, B \in SUBSET S, C \in SUBSET S :
        A = ahead[p] /\ B = ahead[r] /\ C = B \cup {r}
  BY <1>1
<1>3. /\ IsFiniteSet(A) /\ IsFiniteSet(B) /\ IsFiniteSet(C)
      /\ \A x \in S : q[x] \in Nat /\ q[x] \in Int
      /\ B \in SUBSET A /\ C \in SUBSET A /\ r \in C /\ C \ {r} = B
  BY <1>1, <1>2, FS_Subset DEF Priced
<1>4. SumOver(q, C) = q[r] + SumOver(q, C \ {r})
  BY <1>3, SumSplit
<1>5. SumOver(q, C) \in Nat /\ SumOver(q, A) \in Nat /\ SumOver(q, C) <= SumOver(q, A)
  BY <1>3, SumPart
<1>6. SumOver(q, B) \in Nat
  BY <1>3, SumPart
<1>7. PICK b \in Nat, c \in Nat, x \in Nat : b = SumOver(q, B) /\ c = SumOver(q, A) /\ x = q[r]
  BY <1>1, <1>3, <1>5, <1>6
<1>8. SumOver(q, C) = x + b
  BY <1>3, <1>4, <1>7
<1>9. x + b <= c
  BY <1>5, <1>7, <1>8
<1>10. b + x <= c
  BY <1>9
<1> QED
  BY <1>1, <1>2, <1>7, <1>10

\* The first units of an order are of the parcels, within what they have.
LEMMA FirstUnitsFacts ==
    ASSUME NEW S, NEW ahead, NEW q, NEW v, Priced(S, ahead, q, v), NEW n \in Nat, NEW t,
           t = FirstUnits(S, ahead, q, n)
    PROVE  /\ \A p \in S : t[p] \in Nat /\ t[p] <= q[p]
           /\ \A p \in S : t[p] = TakenOf(n, q[p], SumOver(q, ahead[p]))
           /\ SumOver(q, S) \in Nat
           /\ SumOver(t, S) = IF n <= SumOver(q, S) THEN n ELSE SumOver(q, S)
<1>1. \A p \in S : t[p] = TakenOf(n, q[p], SumOver(q, ahead[p]))
  BY DEF FirstUnits
<1>2. IsFiniteSet(S) /\ Ordered(S, ahead) /\ \A p \in S : q[p] \in Nat
  BY DEF Priced
<1> QED
  BY <1>1, <1>2, TakingInOrder

\* What some units are worth is a whole amount.
LEMMA WorthInt ==
    ASSUME NEW S, IsFiniteSet(S), NEW v, NEW a, \A p \in S : v[p] \in Int /\ a[p] \in Int
    PROVE  /\ \A p \in S : Products(S, v, a)[p] \in Int /\ Products(S, v, a)[p] = v[p] * a[p]
           /\ WorthOf(S, v, a) \in Int
<1>1. PICK f : f = Products(S, v, a)
  OBVIOUS
<1>2. \A p \in S : f[p] = v[p] * a[p]
  BY <1>1 DEF Products
<1>3. \A p \in S : v[p] * a[p] \in Int
  <2> SUFFICES ASSUME NEW p \in S PROVE v[p] * a[p] \in Int
    OBVIOUS
  <2>1. PICK x \in Int, y \in Int : x = v[p] /\ y = a[p]
    OBVIOUS
  <2>2. x * y \in Int
    OBVIOUS
  <2> QED
    BY <2>1, <2>2
<1>4. \A p \in S : f[p] \in Int
  BY <1>2, <1>3
<1>5. SumOver(f, S) \in Int
  BY <1>4, SumInt
<1> QED
  BY <1>1, <1>2, <1>4, <1>5 DEF WorthOf

\* Some units and the first n: of one parcel.
LEMMA ExchangeTerm ==
    ASSUME NEW x \in Int, NEW m \in Int, NEW s \in Int, NEW c \in Int,
           \/ x = m
           \/ x <= m /\ c <= s
           \/ m <= x /\ s <= c
    PROVE  x * s + m * c <= x * c + m * s
<1>1. PICK d \in Int, e \in Int : d = m - x /\ e = c - s
  OBVIOUS
<1>2. d * e <= 0
  <2>1. \/ d = 0
        \/ d >= 0 /\ e <= 0
        \/ d <= 0 /\ e >= 0
    BY <1>1
  <2> QED
    BY <2>1
<1>3. d * e = (m * c + x * s) - (m * s + x * c)
  BY <1>1
<1>4. PICK f \in Int, g \in Int : f = m * c + x * s /\ g = m * s + x * c
  OBVIOUS
<1>5. f - g <= 0
  BY <1>2, <1>3, <1>4
<1>6. f <= g
  BY <1>5
<1> QED
  BY <1>4, <1>6

\* Where the worths are of one sign, and some units are no more than the first
\* ones (of worth below nothing) or no fewer (of worth above).
SameSide(S, v, a, t) ==
    \/ (\A p \in S : v[p] <= 0) /\ SumOver(a, S) <= SumOver(t, S)
    \/ (\A p \in S : 0 <= v[p]) /\ SumOver(t, S) <= SumOver(a, S)

\* No units are worth less than the first ones.
LEMMA GreedyLeast ==
    ASSUME NEW S, NEW ahead, NEW q, NEW v, Priced(S, ahead, q, v), NEW n \in Nat, NEW t,
           t = FirstUnits(S, ahead, q, n), NEW a, \A p \in S : a[p] \in Nat /\ a[p] <= q[p],
           SameSide(S, v, a, t)
    PROVE  /\ WorthOf(S, v, t) \in Int /\ WorthOf(S, v, a) \in Int
           /\ WorthOf(S, v, t) <= WorthOf(S, v, a)
<1>1. /\ \A p \in S : t[p] \in Nat /\ t[p] <= q[p]
      /\ \A p \in S : t[p] = TakenOf(n, q[p], SumOver(q, ahead[p]))
  BY FirstUnitsFacts
<1>2. IsFiniteSet(S) /\ \A p \in S : v[p] \in Int /\ t[p] \in Int /\ a[p] \in Int
  BY <1>1 DEF Priced
<1>3. PICK vt, va : vt = Products(S, v, t) /\ va = Products(S, v, a)
  OBVIOUS
<1>4. /\ \A p \in S : vt[p] \in Int /\ vt[p] = v[p] * t[p]
      /\ SumOver(vt, S) \in Int /\ SumOver(vt, S) = WorthOf(S, v, t)
  BY <1>2, <1>3, WorthInt DEF WorthOf
<1>5. /\ \A p \in S : va[p] \in Int /\ va[p] = v[p] * a[p]
      /\ SumOver(va, S) \in Int /\ SumOver(va, S) = WorthOf(S, v, a)
  BY <1>2, <1>3, WorthInt DEF WorthOf
<1>6. PICK D \in SUBSET S : D = {p \in S : t[p] > 0}
  OBVIOUS
<1>7. CASE D = {}
  <2>1. \A p \in S : t[p] = 0
    BY <1>1, <1>6, <1>7
  <2>2. SumOver(t, S) = 0
    BY <1>2, <2>1, SumZero
  <2>3. ASSUME NEW p \in S PROVE vt[p] <= va[p]
    <3>1. PICK x \in Int, y \in Nat : x = v[p] /\ y = a[p]
      BY <1>2
    <3>2. vt[p] = 0 /\ va[p] = x * y
      BY <1>4, <1>5, <2>1, <3>1
    <3>3. CASE (\A r \in S : v[r] <= 0) /\ SumOver(a, S) <= SumOver(t, S)
      <4>1. {p} \in SUBSET S /\ \A r \in S : a[r] \in Nat
        OBVIOUS
      <4>2. SumOver(a, {p}) <= SumOver(a, S) /\ SumOver(a, {p}) \in Nat /\ SumOver(a, S) \in Nat
        BY <1>2, <4>1, SumPart
      <4>3. SumOver(a, {p}) = a[p] + SumOver(a, {})
        <5>1. IsFiniteSet({p}) /\ \A r \in {p} : a[r] \in Int
          BY <1>2, FS_Singleton
        <5>2. SumOver(a, {p}) = a[p] + SumOver(a, {p} \ {p})
          BY <5>1, SumSplit
        <5>3. {p} \ {p} = {}
          OBVIOUS
        <5> QED
          BY <5>2, <5>3
      <4>4. y = 0
        BY <2>2, <3>1, <3>3, <4>2, <4>3, SumEmpty
      <4> QED
        BY <3>2, <4>4
    <3>4. CASE (\A r \in S : 0 <= v[r]) /\ SumOver(t, S) <= SumOver(a, S)
      <4>1. 0 <= x
        BY <3>1, <3>4
      <4>2. 0 <= x * y
        BY <4>1
      <4> QED
        BY <3>2, <4>2
    <3> QED
      BY <3>3, <3>4 DEF SameSide
  <2>4. SumOver(vt, S) <= SumOver(va, S)
    BY <1>2, <1>4, <1>5, <2>3, SumAtMost
  <2> QED
    BY <1>4, <1>5, <2>4
<1>8. CASE D # {}
  <2>1. Ordered(S, ahead) /\ IsFiniteSet(D)
    BY <1>2, FS_Subset DEF Priced
  <2>2. PICK z \in D : D \ {z} \subseteq ahead[z]
    BY <1>8, <2>1, LastInOrder
  <2>3. z \in S
    BY <2>2
  <2>4. PICK m \in Int : m = v[z]
    BY <1>2, <2>3
  <2>5. PICK mt, ma : mt = [p \in S |-> m * t[p]] /\ ma = [p \in S |-> m * a[p]]
    OBVIOUS
  <2>6. ASSUME NEW p \in S
        PROVE  vt[p] + ma[p] <= va[p] + mt[p]
    <3>1. PICK x \in Int, s \in Int, c \in Int : x = v[p] /\ s = t[p] /\ c = a[p]
      BY <1>2
    <3>2. vt[p] = x * s /\ va[p] = x * c /\ mt[p] = m * s /\ ma[p] = m * c
      BY <1>4, <1>5, <2>5, <3>1
    <3>3. \/ x = m
          \/ x <= m /\ c <= s
          \/ m <= x /\ s <= c
      <4>1. CASE p = z
        BY <2>4, <3>1, <4>1
      <4>2. CASE p \in ahead[z]
        <5>1. x <= m
          BY <2>3, <2>4, <3>1, <4>2 DEF Priced
        <5>2. /\ SumOver(q, ahead[p]) \in Nat /\ SumOver(q, ahead[z]) \in Nat
              /\ SumOver(q, ahead[p]) + q[p] <= SumOver(q, ahead[z])
          BY <2>3, <4>2, AheadFull
        <5>3. PICK b \in Nat, w \in Nat, k \in Nat :
                b = SumOver(q, ahead[p]) /\ w = SumOver(q, ahead[z]) /\ k = q[p]
          BY <5>2 DEF Priced
        <5>4. b + k <= w
          BY <5>2, <5>3
        <5>5. t[z] > 0 /\ t[z] = TakenOf(n, q[z], w)
          BY <1>1, <1>6, <2>2, <2>3, <5>3
        <5>6. w < n
          BY <5>3, <5>5 DEF TakenOf
        <5>7. s = TakenOf(n, k, b)
          BY <1>1, <3>1, <5>3
        <5>8. s = k
          BY <5>3, <5>4, <5>6, <5>7 DEF TakenOf
        <5>9. c <= k
          BY <3>1, <5>3
        <5> QED
          BY <5>1, <5>8, <5>9
      <4>3. CASE p # z /\ p \notin ahead[z]
        <5>1. z \in ahead[p]
          BY <2>3, <4>3 DEF Priced, Ordered
        <5>2. m <= x
          BY <2>4, <3>1, <5>1 DEF Priced
        <5>3. p \notin D
          BY <2>2, <4>3
        <5>4. s = 0
          BY <1>1, <1>6, <3>1, <5>3
        <5>5. c >= 0
          BY <3>1
        <5> QED
          BY <5>2, <5>4, <5>5
      <4> QED
        BY <4>1, <4>2, <4>3
    <3>4. x * s + m * c <= x * c + m * s
      BY <3>3, ExchangeTerm
    <3> QED
      BY <3>2, <3>4
  <2>7. /\ \A p \in S : mt[p] \in Int /\ ma[p] \in Int
        /\ SumOver(mt, S) = m * SumOver(t, S) /\ SumOver(ma, S) = m * SumOver(a, S)
        /\ SumOver(mt, S) \in Int /\ SumOver(ma, S) \in Int
    <3>1. \A p \in S : mt[p] = m * t[p] /\ ma[p] = m * a[p]
      BY <2>5
    <3>2. ASSUME NEW p \in S PROVE mt[p] \in Int /\ ma[p] \in Int
      <4>1. PICK x \in Int, y \in Int : x = t[p] /\ y = a[p]
        BY <1>2
      <4>2. m * x \in Int /\ m * y \in Int
        OBVIOUS
      <4> QED
        BY <3>1, <4>1, <4>2
    <3>3. SumOver(mt, S) = m * SumOver(t, S)
      BY <1>2, <3>1, SumTimes
    <3>4. SumOver(ma, S) = m * SumOver(a, S)
      BY <1>2, <3>1, SumTimes
    <3>5. SumOver(mt, S) \in Int /\ SumOver(ma, S) \in Int
      BY <1>2, <3>2, SumInt
    <3> QED
      BY <3>2, <3>3, <3>4, <3>5
  <2>8. PICK f, g : f = [p \in S |-> vt[p] + ma[p]] /\ g = [p \in S |-> va[p] + mt[p]]
    OBVIOUS
  <2>9. \A p \in S : /\ f[p] = vt[p] + ma[p] /\ g[p] = va[p] + mt[p]
                     /\ f[p] \in Int /\ g[p] \in Int /\ f[p] <= g[p]
    BY <1>4, <1>5, <2>6, <2>7, <2>8
  <2>10. SumOver(f, S) = SumOver(vt, S) + SumOver(ma, S)
    BY <1>2, <1>4, <2>7, <2>9, SumPlus
  <2>11. SumOver(g, S) = SumOver(va, S) + SumOver(mt, S)
    BY <1>2, <1>5, <2>7, <2>9, SumPlus
  <2>12. SumOver(f, S) <= SumOver(g, S)
    BY <1>2, <2>9, SumAtMost
  <2>13. SumOver(mt, S) <= SumOver(ma, S)
    <3>1. SumOver(t, S) \in Int /\ SumOver(a, S) \in Int
      BY <1>2, SumInt
    <3>2. PICK x \in Int, y \in Int : x = SumOver(t, S) /\ y = SumOver(a, S)
      BY <3>1
    <3>3. (m <= 0 /\ y <= x) \/ (0 <= m /\ x <= y)
      BY <2>3, <2>4, <3>2 DEF SameSide
    <3>4. m * x <= m * y
      BY <3>3
    <3> QED
      BY <2>7, <3>2, <3>4
  <2>14. PICK i \in Int, j \in Int, k \in Int, l \in Int :
           /\ i = SumOver(vt, S) /\ j = SumOver(ma, S)
           /\ k = SumOver(va, S) /\ l = SumOver(mt, S)
    BY <1>4, <1>5, <2>7
  <2>15. i + j <= k + l /\ l <= j
    BY <2>10, <2>11, <2>12, <2>13, <2>14
  <2>16. i <= k
    BY <2>15
  <2> QED
    BY <1>4, <1>5, <2>14, <2>16
<1> QED
  BY <1>7, <1>8

\* While the last of the units is one of p's, each adds p's worth.
LEMMA GreedySpan ==
    ASSUME NEW S, NEW ahead, NEW q, NEW v, Priced(S, ahead, q, v), NEW k \in Nat,
           NEW p \in S, NEW b, b = SumOver(q, ahead[p]), b <= k, k <= b + q[p]
    PROVE  /\ SumOver(Products(S, v, q), ahead[p]) \in Int
           /\ WorthOf(S, v, FirstUnits(S, ahead, q, k))
                = SumOver(Products(S, v, q), ahead[p]) + v[p] * (k - b)
<1>1. PICK t : t = FirstUnits(S, ahead, q, k)
  OBVIOUS
<1>2. /\ \A r \in S : t[r] \in Nat /\ t[r] <= q[r]
      /\ \A r \in S : t[r] = TakenOf(k, q[r], SumOver(q, ahead[r]))
  BY <1>1, FirstUnitsFacts
<1>3. PICK A \in SUBSET S : A = ahead[p]
  BY DEF Priced, Ordered
<1>4. /\ IsFiniteSet(S) /\ IsFiniteSet(A) /\ p \notin A
      /\ \A r \in S : q[r] \in Nat /\ q[r] \in Int /\ v[r] \in Int /\ t[r] \in Int
  BY <1>2, <1>3, FS_Subset DEF Priced, Ordered
<1>5. \A B \in SUBSET S : SumOver(q, B) \in Nat
  BY <1>4, SumPart
<1>6. b \in Nat
  BY <1>3, <1>5
<1>7. ASSUME NEW r \in A PROVE t[r] = q[r]
  <2>1. PICK c \in Nat, u \in Nat : c = SumOver(q, ahead[r]) /\ u = q[r]
    BY <1>3, <1>4, AheadFull
  <2>2. c + u <= b
    BY <1>3, <2>1, AheadFull
  <2>3. t[r] = TakenOf(k, u, c)
    BY <1>2, <2>1
  <2>4. TakenOf(k, u, c) = u
    BY <1>6, <2>1, <2>2 DEF TakenOf
  <2> QED
    BY <2>1, <2>3, <2>4
<1>8. t[p] = k - b
  <2>1. PICK u \in Nat : u = q[p]
    BY <1>4
  <2>2. t[p] = TakenOf(k, u, b)
    BY <1>2, <2>1
  <2>3. TakenOf(k, u, b) = k - b
    BY <1>6, <2>1 DEF TakenOf
  <2> QED
    BY <2>2, <2>3
<1>9. ASSUME NEW r \in S, r \notin A, r # p PROVE t[r] = 0
  <2>1. p \in ahead[r]
    BY <1>3, <1>9 DEF Priced, Ordered
  <2>2. PICK c \in Nat, u \in Nat, w \in Nat : c = SumOver(q, ahead[r]) /\ u = q[r] /\ w = q[p]
    BY <1>4, <2>1, AheadFull
  <2>3. b + w <= c
    BY <2>1, <2>2, AheadFull
  <2>4. t[r] = TakenOf(k, u, c)
    BY <1>2, <2>2
  <2>5. k <= c
    BY <1>6, <2>2, <2>3
  <2>6. TakenOf(k, u, c) = 0
    BY <2>2, <2>5 DEF TakenOf
  <2> QED
    BY <2>4, <2>6
<1>10. PICK vt, vq : vt = Products(S, v, t) /\ vq = Products(S, v, q)
  OBVIOUS
<1>11. \A r \in S : vt[r] \in Int /\ vt[r] = v[r] * t[r]
  BY <1>4, <1>10, WorthInt
<1>12. \A r \in S : vq[r] \in Int /\ vq[r] = v[r] * q[r]
  BY <1>4, <1>10, WorthInt
<1>13. PICK T \in SUBSET S : T = A \cup {p}
  OBVIOUS
<1>14. IsFiniteSet(T) /\ p \in T /\ T \ {p} = A
  BY <1>4, <1>13, FS_Subset
<1>15. \A r \in S \ T : vt[r] = 0
  <2> SUFFICES ASSUME NEW r \in S \ T PROVE vt[r] = 0
    OBVIOUS
  <2>1. t[r] = 0
    BY <1>9, <1>13
  <2>2. PICK x \in Int : x = v[r]
    BY <1>4
  <2>3. vt[r] = x * 0
    BY <1>11, <2>1, <2>2
  <2> QED
    BY <2>3
<1>16. SumOver(vt, S) = SumOver(vt, T)
  BY <1>4, <1>11, <1>15, SumSupport
<1>17. SumOver(vt, T) = vt[p] + SumOver(vt, T \ {p})
  BY <1>11, <1>14, SumSplit
<1>18. SumOver(vt, A) = SumOver(vq, A)
  <2>1. \A r \in A : vt[r] = vq[r]
    BY <1>7, <1>11, <1>12
  <2> QED
    BY <1>4, <2>1, SumCong
<1>19. SumOver(vq, A) \in Int
  BY <1>4, <1>12, SumInt
<1>20. PICK x \in Int, y \in Int : x = vt[p] /\ y = SumOver(vq, A)
  BY <1>11, <1>19
<1>21. SumOver(vt, S) = x + y
  BY <1>14, <1>16, <1>17, <1>18, <1>20
<1>22. x + y = y + x
  OBVIOUS
<1>23. x = v[p] * (k - b)
  BY <1>8, <1>11, <1>20
<1> QED
  BY <1>1, <1>3, <1>10, <1>19, <1>20, <1>21, <1>22, <1>23 DEF WorthOf

\* Each of the units is one of some parcel's.
LEMMA Margin ==
    ASSUME NEW S, NEW ahead, NEW q, NEW v, Priced(S, ahead, q, v), NEW m \in Nat,
           0 < m, m <= SumOver(q, S)
    PROVE  \E p \in S : /\ SumOver(q, ahead[p]) \in Nat
                        /\ SumOver(q, ahead[p]) < m /\ m <= SumOver(q, ahead[p]) + q[p]
<1>1. PICK t : t = FirstUnits(S, ahead, q, m)
  OBVIOUS
<1>2. /\ \A r \in S : t[r] \in Nat /\ t[r] <= q[r]
      /\ \A r \in S : t[r] = TakenOf(m, q[r], SumOver(q, ahead[r]))
      /\ SumOver(t, S) = m
  BY <1>1, FirstUnitsFacts
<1>3. /\ IsFiniteSet(S) /\ Ordered(S, ahead)
      /\ \A r \in S : q[r] \in Nat /\ q[r] \in Int /\ t[r] \in Int /\ ahead[r] \in SUBSET S
  BY <1>2 DEF Priced, Ordered
<1>4. \A B \in SUBSET S : SumOver(q, B) \in Nat /\ IsFiniteSet(B)
  BY <1>3, SumPart, FS_Subset
<1>5. PICK D \in SUBSET S : D = {r \in S : SumOver(q, ahead[r]) < m}
  OBVIOUS
<1>6. ASSUME NEW r \in S \ D PROVE t[r] = 0
  <2>1. PICK c \in Nat, u \in Nat : c = SumOver(q, ahead[r]) /\ u = q[r]
    BY <1>3, <1>4
  <2>2. ~(c < m)
    BY <1>5, <2>1
  <2>3. t[r] = TakenOf(m, u, c)
    BY <1>2, <2>1
  <2>4. TakenOf(m, u, c) = 0
    BY <2>1, <2>2 DEF TakenOf
  <2> QED
    BY <2>3, <2>4
<1>7. SumOver(t, S) = SumOver(t, D)
  BY <1>3, <1>6, SumSupport
<1>8. D # {}
  BY <1>2, <1>7, SumEmpty
<1>9. PICK p \in D : D \ {p} \subseteq ahead[p]
  <2>1. IsFiniteSet(D) /\ Ordered(S, ahead)
    BY <1>3, <1>4
  <2> QED
    BY <1>8, <2>1, LastInOrder
<1>10. PICK A \in SUBSET S, T \in SUBSET S : A = ahead[p] /\ T = A \cup {p}
  BY <1>3
<1>11. p \in S /\ p \notin A /\ p \in T /\ T \ {p} = A /\ D \in SUBSET T
  BY <1>9, <1>10 DEF Priced, Ordered
<1>12. SumOver(q, T) = q[p] + SumOver(q, T \ {p})
  BY <1>3, <1>4, <1>11, SumSplit
<1>13. SumOver(q, D) <= SumOver(q, T)
  BY <1>3, <1>4, <1>11, SumPart
<1>14. SumOver(t, D) <= SumOver(q, D)
  BY <1>2, <1>3, <1>4, SumAtMost
<1>15. PICK b \in Nat, u \in Nat, d \in Nat : b = SumOver(q, A) /\ u = q[p] /\ d = SumOver(q, D)
  BY <1>3, <1>4, <1>11
<1>16. m <= d /\ d <= u + b
  BY <1>2, <1>7, <1>11, <1>12, <1>13, <1>14, <1>15
<1>17. m <= b + u
  BY <1>16
<1>18. b < m
  BY <1>5, <1>9, <1>10, <1>15
<1> QED
  BY <1>10, <1>11, <1>15, <1>17, <1>18

\* Around a number of units that is not where a parcel ends, units are of one parcel.
Straight(S, ahead, q, v, m) ==
    \E p \in S :
       /\ SumOver(q, ahead[p]) \in Nat /\ SumOver(Products(S, v, q), ahead[p]) \in Int
       /\ SumOver(q, ahead[p]) < m /\ m < SumOver(q, ahead[p]) + q[p]
       /\ \A k \in {m - 1, m, m + 1} :
             WorthOf(S, v, FirstUnits(S, ahead, q, k))
               = SumOver(Products(S, v, q), ahead[p]) + v[p] * (k - SumOver(q, ahead[p]))

\* Such a number is inside some parcel.
LEMMA InsideParcel ==
    ASSUME NEW S, NEW ahead, NEW q, NEW v, Priced(S, ahead, q, v), NEW m \in Nat,
           0 < m, m < SumOver(q, S), \A p \in S : m # SumOver(q, ahead[p]) + q[p]
    PROVE  Straight(S, ahead, q, v, m)
<1>1. SumOver(q, S) \in Nat
  BY SumPart DEF Priced
<1>2. PICK p \in S : /\ SumOver(q, ahead[p]) \in Nat
                     /\ SumOver(q, ahead[p]) < m /\ m <= SumOver(q, ahead[p]) + q[p]
  BY <1>1, Margin
<1>3. PICK b \in Nat, u \in Nat : b = SumOver(q, ahead[p]) /\ u = q[p]
  BY <1>2 DEF Priced
<1>4. b < m /\ m < b + u
  BY <1>2, <1>3
<1>5. ASSUME NEW k \in {m - 1, m, m + 1}
      PROVE  /\ SumOver(Products(S, v, q), ahead[p]) \in Int
             /\ WorthOf(S, v, FirstUnits(S, ahead, q, k))
                  = SumOver(Products(S, v, q), ahead[p]) + v[p] * (k - b)
  <2>1. k \in Nat /\ b <= k /\ k <= b + u
    BY <1>4
  <2> QED
    BY <1>3, <2>1, GreedySpan
<1> QED
  BY <1>3, <1>4, <1>5 DEF Straight

\* A number is as many times g, rounded down, as fit in it.
LEMMA QuotientIs ==
    ASSUME NEW x \in Int, NEW g \in Int, g > 0, NEW u \in Int, g * u <= x, x < g * u + g
    PROVE  x \div g = u
<1>1. PICK z \in Int : z = x \div g /\ g * z <= x /\ x < g * z + g
  BY QuotientFloor
<1>2. PICK d \in Int : d = u - z
  OBVIOUS
<1>3. g * d = g * u - g * z
  BY <1>2
<1>4. PICK a \in Int, b \in Int : a = g * u /\ b = g * z
  OBVIOUS
<1>5. g * d = a - b /\ a - b < g /\ b - a < g
  BY <1>1, <1>3, <1>4
<1>6. g * d < g /\ -g < g * d
  BY <1>5
<1>7. d = 0
  <2>1. CASE d >= 1
    <3>1. g * d >= g
      BY <2>1
    <3> QED
      BY <1>6, <3>1
  <2>2. CASE d <= -1
    <3>1. g * d <= -g
      BY <2>2
    <3> QED
      BY <1>6, <3>1
  <2> QED
    BY <2>1, <2>2
<1> QED
  BY <1>1, <1>2, <1>7

\* Where a loss runs out within a unit of u, u is one of the two ways to round.
LEMMA LossRunsOutAt ==
    ASSUME NEW y \in Int, NEW g \in Int, g > 0, NEW u \in Int, g * u - g < y, y < g * u + g
    PROVE  u = y \div g \/ u = (y + g - 1) \div g
<1>1. PICK w \in Int : w = g * u
  OBVIOUS
<1>2. CASE w <= y
  BY <1>1, <1>2, QuotientIs
<1>3. CASE y < w
  <2>1. PICK x \in Int : x = y + g - 1
    OBVIOUS
  <2>2. g * u <= x /\ x < g * u + g
    BY <1>1, <1>3, <2>1
  <2>3. x \div g = u
    BY <2>2, QuotientIs
  <2> QED
    BY <2>1, <2>3
<1> QED
  BY <1>1, <1>2, <1>3

=============================================================================
