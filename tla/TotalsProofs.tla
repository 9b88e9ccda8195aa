---------------------------- MODULE TotalsProofs -----------------------------
(***************************************************************************)
(* The laws of totals, from those of cardinalities.                         *)
(***************************************************************************)
EXTENDS Totals, FiniteSetTheorems, TLAPS

(* What the units of a function are. *)
LEMMA UnitsPointwise ==
    ASSUME NEW D, NEW g \in [D -> Nat]
    PROVE  \A u : u \in UnitsOf(g) <=> \E x \in D, i \in Nat : u = <<x, i>> /\ 1 <= i /\ i <= g[x]
<1>1. DOMAIN g = D
  OBVIOUS
<1>2. ASSUME NEW u \in UnitsOf(g)
      PROVE  \E x \in D, i \in Nat : u = <<x, i>> /\ 1 <= i /\ i <= g[x]
  <2>1. PICK x \in D : u \in {x} \X (1..g[x])
    BY <1>1, <1>2 DEF UnitsOf
  <2>2. PICK i \in 1..g[x] : u = <<x, i>>
    BY <2>1
  <2>3. g[x] \in Nat /\ i \in Nat /\ 1 <= i /\ i <= g[x]
    BY <2>2
  <2> QED
    BY <2>2, <2>3
<1>3. ASSUME NEW x \in D, NEW i \in Nat, 1 <= i, i <= g[x]
      PROVE  <<x, i>> \in UnitsOf(g)
  <2>1. g[x] \in Nat
    OBVIOUS
  <2>2. i \in 1..g[x]
    BY <1>3, <2>1
  <2>3. <<x, i>> \in {x} \X (1..g[x])
    BY <2>2
  <2> QED
    BY <1>1, <2>3 DEF UnitsOf
<1> QED
  BY <1>2, <1>3

(* The units of one argument. *)
LEMMA Column ==
    ASSUME NEW x, NEW n \in Nat
    PROVE  IsFiniteSet({x} \X (1..n)) /\ Cardinality({x} \X (1..n)) = n
<1>1. IsFiniteSet({x}) /\ Cardinality({x}) = 1
  BY FS_Singleton
<1>2. IsFiniteSet(1..n) /\ Cardinality(1..n) = n
  <2>1. IsFiniteSet(1..n) /\ Cardinality(1..n) = IF 1 > n THEN 0 ELSE n - 1 + 1
    BY FS_Interval
  <2> QED
    BY <2>1
<1>3. /\ IsFiniteSet({x} \X (1..n))
      /\ Cardinality({x} \X (1..n)) = Cardinality({x}) * Cardinality(1..n)
  BY <1>1, <1>2, FS_Product
<1>4. 1 * n = n
  OBVIOUS
<1> QED
  BY <1>1, <1>2, <1>3, <1>4

(* A total over a finite domain is a natural number. *)
LEMMA TotalIsNat ==
    ASSUME NEW D, IsFiniteSet(D), NEW g \in [D -> Nat]
    PROVE  IsFiniteSet(UnitsOf(g)) /\ Total(g) \in Nat
<1> DEFINE column == [x \in D |-> {x} \X (1..g[x])]
           Columns == {{x} \X (1..g[x]) : x \in DOMAIN g}
<1>1. column \in Surjection(D, Columns)
  <2>1. column \in [D -> Columns]
    OBVIOUS
  <2>2. \A C \in Columns : \E x \in D : column[x] = C
    OBVIOUS
  <2> QED
    BY <2>1, <2>2 DEF Surjection
<1>2. IsFiniteSet(Columns)
  <2> HIDE DEF column, Columns
  <2> QED
    BY <1>1, FS_Surjection
<1>3. \A C \in Columns : IsFiniteSet(C)
  <2>1. ASSUME NEW x \in D
        PROVE  IsFiniteSet({x} \X (1..g[x]))
    <3>1. g[x] \in Nat
      OBVIOUS
    <3> QED
      BY <3>1, Column, Zenon
  <2> QED
    BY <2>1
<1>4. IsFiniteSet(UNION Columns)
  <2> HIDE DEF Columns
  <2> QED
    BY <1>2, <1>3, FS_UNION
<1>5. IsFiniteSet(UnitsOf(g))
  BY <1>4 DEF UnitsOf
<1> QED
  BY <1>5, FS_CardinalityType DEF Total

(* Two functions with the same units have the same total. *)
LEMMA TotalOfUnion ==
    ASSUME NEW D, IsFiniteSet(D), NEW g \in [D -> Nat],
           NEW E, IsFiniteSet(E), E \cap UnitsOf(g) = {},
           NEW F, NEW h \in [F -> Nat], UnitsOf(h) = UnitsOf(g) \cup E
    PROVE  Total(h) = Total(g) + Cardinality(E)
<1>1. IsFiniteSet(UnitsOf(g)) /\ Total(g) \in Nat
  BY TotalIsNat
<1>2. Cardinality(E) \in Nat
  BY FS_CardinalityType
<1>3. /\ Cardinality(UnitsOf(g) \cup E)
          = Cardinality(UnitsOf(g)) + Cardinality(E) - Cardinality(UnitsOf(g) \cap E)
  BY <1>1, FS_Union
<1>4. UnitsOf(g) \cap E = {} /\ Cardinality({}) = 0
  BY FS_EmptySet
<1> QED
  BY <1>1, <1>2, <1>3, <1>4 DEF Total

(* One more argument. *)
LEMMA TotalExtends ==
    ASSUME NEW D, IsFiniteSet(D), NEW F, NEW x \in F, D = F \ {x},
           NEW g \in [D -> Nat], NEW h \in [F -> Nat],
           \A y \in D : h[y] = g[y]
    PROVE  Total(h) = Total(g) + h[x]
<1> DEFINE E == {x} \X (1..h[x])
<1>0. h[x] \in Nat
  OBVIOUS
<1>1. IsFiniteSet(E) /\ Cardinality(E) = h[x]
  BY <1>0, Column
<1>2. \A u : u \in E <=> \E i \in Nat : u = <<x, i>> /\ 1 <= i /\ i <= h[x]
  BY <1>0
<1>3. \A u : u \in UnitsOf(g) <=> \E y \in D, i \in Nat : u = <<y, i>> /\ 1 <= i /\ i <= g[y]
  BY UnitsPointwise
<1>4. \A u : u \in UnitsOf(h) <=>
        \E y \in F, i \in Nat : u = <<y, i>> /\ 1 <= i /\ i <= h[y]
  BY UnitsPointwise
<1> HIDE DEF E
<1>5. E \cap UnitsOf(g) = {}
  BY <1>2, <1>3
<1>6. UnitsOf(h) = UnitsOf(g) \cup E
  BY <1>2, <1>3, <1>4
<1> QED
  BY <1>1, <1>5, <1>6, TotalOfUnion

LEMMA TotalOfRestriction ==
    ASSUME NEW R, NEW a \in [R -> Nat], NEW F, F \subseteq R, IsFiniteSet(F),
           NEW x \in F, NEW D, D = F \ {x}
    PROVE  /\ Total([y \in D |-> a[y]]) \in Nat
           /\ Total([y \in F |-> a[y]]) = Total([y \in D |-> a[y]]) + a[x]
<1> DEFINE g == [y \in D |-> a[y]]
           h == [y \in F |-> a[y]]
<1>1. /\ g \in [D -> Nat] /\ h \in [F -> Nat]
      /\ \A y \in D : h[y] = g[y]
      /\ h[x] = a[x]
  OBVIOUS
<1>2. IsFiniteSet(D)
  BY FS_RemoveElement
<1> HIDE DEF g, h
<1>3. Total(g) \in Nat /\ Total(h) = Total(g) + h[x]
  BY <1>1, <1>2, TotalIsNat, TotalExtends
<1> QED
  BY <1>1, <1>3 DEF g, h

(* A function that is zero but for one argument. *)
LEMMA TotalOfPoint ==
    ASSUME NEW D, NEW x \in D, NEW g \in [D -> Nat], \A y \in D : y # x => g[y] = 0
    PROVE  Total(g) = g[x]
<1>0. g[x] \in Nat
  OBVIOUS
<1>1. \A u : u \in UnitsOf(g) <=> \E y \in D, i \in Nat : u = <<y, i>> /\ 1 <= i /\ i <= g[y]
  BY UnitsPointwise
<1>2. \A u : u \in {x} \X (1..g[x]) <=> \E i \in Nat : u = <<x, i>> /\ 1 <= i /\ i <= g[x]
  BY <1>0
<1>3. \A y \in D, i \in Nat : 1 <= i /\ i <= g[y] => y = x
  OBVIOUS
<1>4. UnitsOf(g) = {x} \X (1..g[x])
  BY <1>1, <1>2, <1>3
<1>5. Cardinality({x} \X (1..g[x])) = g[x]
  BY <1>0, Column, Zenon
<1> QED
  BY <1>4, <1>5 DEF Total

LEMMA TotalOfZero ==
    ASSUME NEW D, NEW g \in [D -> Nat], \A y \in D : g[y] = 0
    PROVE  Total(g) = 0
<1>1. \A u : u \in UnitsOf(g) <=> \E y \in D, i \in Nat : u = <<y, i>> /\ 1 <= i /\ i <= g[y]
  BY UnitsPointwise
<1>2. UnitsOf(g) = {}
  BY <1>1
<1> QED
  BY <1>2, FS_EmptySet DEF Total

(* Totals add pointwise: the units of g + h are those of g and, shifted     *)
(* above them, those of h.                                                  *)
LEMMA TotalAdds ==
    ASSUME NEW D, IsFiniteSet(D),
           NEW f \in [D -> Nat], NEW g \in [D -> Nat], NEW h \in [D -> Nat],
           \A x \in D : f[x] = g[x] + h[x]
    PROVE  Total(f) = Total(g) + Total(h)
<1> DEFINE E == {u \in UnitsOf(f) : u[2] > g[u[1]]}
           shift == [u \in UnitsOf(h) |-> <<u[1], u[2] + g[u[1]]>>]
<1>1. \A u : u \in UnitsOf(f) <=> \E x \in D, i \in Nat : u = <<x, i>> /\ 1 <= i /\ i <= f[x]
  BY UnitsPointwise
<1>2. \A u : u \in UnitsOf(g) <=> \E x \in D, i \in Nat : u = <<x, i>> /\ 1 <= i /\ i <= g[x]
  BY UnitsPointwise
<1>3. \A u : u \in UnitsOf(h) <=> \E x \in D, i \in Nat : u = <<x, i>> /\ 1 <= i /\ i <= h[x]
  BY UnitsPointwise
<1>4. \A u : u \in E <=> \E x \in D, i \in Nat : u = <<x, i>> /\ g[x] < i /\ i <= f[x]
  <2>1. ASSUME NEW u \in E
        PROVE  \E x \in D, i \in Nat : u = <<x, i>> /\ g[x] < i /\ i <= f[x]
    <3>1. PICK x \in D, i \in Nat : u = <<x, i>> /\ 1 <= i /\ i <= f[x]
      BY <1>1
    <3>2. u[1] = x /\ u[2] = i
      BY <3>1
    <3>3. g[x] < i
      BY <3>2
    <3> QED
      BY <3>1, <3>3
  <2>2. ASSUME NEW x \in D, NEW i \in Nat, g[x] < i, i <= f[x]
        PROVE  <<x, i>> \in E
    <3>1. <<x, i>> \in UnitsOf(f)
      BY <1>1, <2>2
    <3> QED
      BY <3>1, <2>2
  <2> HIDE DEF E
  <2> QED
    BY <2>1, <2>2
<1>5. UnitsOf(f) = UnitsOf(g) \cup E
  <2> HIDE DEF E
  <2>1. ASSUME NEW x \in D, NEW i \in Nat
        PROVE  (1 <= i /\ i <= f[x]) <=> (1 <= i /\ i <= g[x]) \/ (g[x] < i /\ i <= f[x])
    OBVIOUS
  <2> QED
    BY <1>1, <1>2, <1>4, <2>1
<1>6. E \cap UnitsOf(g) = {}
  <2> HIDE DEF E
  <2>1. ASSUME NEW u \in E, u \in UnitsOf(g)
        PROVE  FALSE
    <3>1. PICK x \in D, i \in Nat : u = <<x, i>> /\ g[x] < i
      BY <1>4
    <3>2. PICK y \in D, j \in Nat : u = <<y, j>> /\ j <= g[y]
      BY <1>2, <2>1
    <3> QED
      BY <3>1, <3>2
  <2> QED
    BY <2>1
<1>7. shift \in Bijection(UnitsOf(h), E)
  <2>1. ASSUME NEW u \in UnitsOf(h)
        PROVE  shift[u] \in E
    <3>1. PICK x \in D, i \in Nat : u = <<x, i>> /\ 1 <= i /\ i <= h[x]
      BY <1>3
    <3>2. shift[u] = <<x, i + g[x]>>
      BY <3>1
    <3>3. i + g[x] \in Nat /\ g[x] < i + g[x] /\ i + g[x] <= f[x]
      BY <3>1
    <3> HIDE DEF shift, E
    <3> QED
      BY <1>4, <3>2, <3>3
  <2>2. ASSUME NEW u \in UnitsOf(h), NEW v \in UnitsOf(h), shift[u] = shift[v]
        PROVE  u = v
    <3>1. PICK x \in D, i \in Nat : u = <<x, i>>
      BY <1>3
    <3>2. PICK y \in D, j \in Nat : v = <<y, j>>
      BY <1>3
    <3>3. shift[u] = <<x, i + g[x]>> /\ shift[v] = <<y, j + g[y]>>
      BY <3>1, <3>2
    <3>4. x = y /\ i + g[x] = j + g[x]
      BY <2>2, <3>3
    <3>5. g[x] \in Nat
      OBVIOUS
    <3>6. i = j
      <4> DEFINE n == g[x]
      <4>1. i + n = j + n /\ n \in Nat
        BY <3>4, <3>5
      <4> HIDE DEF n
      <4> QED
        BY <4>1
    <3> QED
      BY <3>1, <3>2, <3>4, <3>6
  <2>3. ASSUME NEW w \in E
        PROVE  \E u \in UnitsOf(h) : shift[u] = w
    <3>1. PICK x \in D, i \in Nat : w = <<x, i>> /\ g[x] < i /\ i <= f[x]
      BY <1>4
    <3>2. i - g[x] \in Nat /\ 1 <= i - g[x] /\ i - g[x] <= h[x]
      BY <3>1
    <3>3. <<x, i - g[x]>> \in UnitsOf(h)
      BY <1>3, <3>2
    <3>4. shift[<<x, i - g[x]>>] = <<x, (i - g[x]) + g[x]>>
      BY <3>3
    <3>5. (i - g[x]) + g[x] = i
      OBVIOUS
    <3> QED
      BY <3>1, <3>3, <3>4, <3>5
  <2> HIDE DEF E
  <2>4. shift \in [UnitsOf(h) -> E]
    BY <2>1
  <2> HIDE DEF shift
  <2> QED
    BY <2>2, <2>3, <2>4 DEF Bijection, Injection, IsInjective, Surjection
<1>8. IsFiniteSet(UnitsOf(h)) /\ IsFiniteSet(UnitsOf(g))
  BY TotalIsNat
<1> HIDE DEF E, shift
<1>9. IsFiniteSet(E) /\ Cardinality(E) = Total(h)
  <2>1. ExistsBijection(UnitsOf(h), E)
    BY <1>7 DEF ExistsBijection
  <2> QED
    BY <1>8, <2>1, FS_Bijection DEF Total
<1> QED
  BY <1>5, <1>6, <1>9, TotalOfUnion

(* A total is monotonic. *)
LEMMA TotalMonotonic ==
    ASSUME NEW D, IsFiniteSet(D), NEW g \in [D -> Nat], NEW h \in [D -> Nat],
           \A x \in D : g[x] <= h[x]
    PROVE  Total(g) <= Total(h)
<1> DEFINE rest == [x \in D |-> h[x] - g[x]]
<1>1. rest \in [D -> Nat] /\ \A x \in D : h[x] = g[x] + rest[x]
  OBVIOUS
<1> HIDE DEF rest
<1>2. Total(h) = Total(g) + Total(rest)
  BY <1>1, TotalAdds
<1>3. Total(g) \in Nat /\ Total(rest) \in Nat
  BY <1>1, TotalIsNat
<1> QED
  BY <1>2, <1>3
=============================================================================
