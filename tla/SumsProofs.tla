------------------------------ MODULE SumsProofs ------------------------------
(***************************************************************************)
(* Facts about sums over any finite set, for the proofs about money.       *)
(***************************************************************************)
EXTENDS Sums, FiniteSetTheorems, TLAPS

\* What the pieces of a set are.
LEMMA PieceOf ==
  ASSUME NEW S, NEW amount, NEW u
  PROVE  u \in Pieces(S, amount) <=>
           /\ u = <<u[1], u[2]>> /\ u[1] \in S
           /\ u[2] \in 1 .. amount[u[1]]
BY DEF Pieces

\* Finitely many numbers have a sum.
LEMMA SumType ==
  ASSUME NEW S, IsFiniteSet(S), NEW amount, \A x \in S : amount[x] \in Nat
  PROVE  IsFiniteSet(Pieces(S, amount)) /\ Sum(S, amount) \in Nat
<1> DEFINE piecesOf == [x \in S |-> {x} \X (1 .. amount[x])]
           families == {{x} \X (1 .. amount[x]) : x \in S}
<1>1. piecesOf \in Surjection(S, families)
  BY DEF Surjection
<1>2. IsFiniteSet(families)
  <2> HIDE DEF piecesOf, families
  <2>1. QED
    BY <1>1, FS_Surjection
<1>3. ASSUME NEW F \in families PROVE IsFiniteSet(F)
  <2>1. PICK x \in S : F = {x} \X (1 .. amount[x])
    OBVIOUS
  <2>2. IsFiniteSet(1 .. amount[x])
    BY FS_Interval
  <2>3. IsFiniteSet({x})
    BY FS_Singleton
  <2>4. QED
    BY <2>1, <2>2, <2>3, FS_Product
<1>4. IsFiniteSet(UNION families)
  <2> HIDE DEF families
  <2>1. QED
    BY <1>2, <1>3, FS_UNION
<1>5. IsFiniteSet(Pieces(S, amount))
  BY <1>4 DEF Pieces
<1>6. QED
  BY <1>5, FS_CardinalityType DEF Sum

\* A sum asks for the amounts of its set only.
LEMMA SumAgrees ==
  ASSUME NEW S, NEW a, NEW b, \A x \in S : a[x] = b[x]
  PROVE  Sum(S, a) = Sum(S, b)
<1>1. Pieces(S, a) = Pieces(S, b)
  BY DEF Pieces
<1>2. QED
  BY <1>1 DEF Sum

\* Nothing comes to nothing.
LEMMA SumOfNothing ==
  ASSUME NEW S, NEW amount, \A x \in S : amount[x] = 0
  PROVE  Sum(S, amount) = 0
<1>1. Pieces(S, amount) = {}
  BY DEF Pieces
<1>2. QED
  BY <1>1, FS_EmptySet DEF Sum

\* The sum of one amount is that amount.
LEMMA SumOfOne ==
  ASSUME NEW x, NEW amount, amount[x] \in Nat
  PROVE  Sum({x}, amount) = amount[x]
<1>1. Pieces({x}, amount) = {x} \X (1 .. amount[x])
  BY DEF Pieces
<1>2. IsFiniteSet({x}) /\ Cardinality({x}) = 1
  BY FS_Singleton
<1>3. IsFiniteSet(1 .. amount[x]) /\ Cardinality(1 .. amount[x]) = amount[x]
  BY FS_Interval
<1>4. Cardinality({x} \X (1 .. amount[x])) = 1 * amount[x]
  BY <1>2, <1>3, FS_Product
<1>5. Sum({x}, amount) = 1 * amount[x]
  BY <1>1, <1>4 DEF Sum
<1>6. QED
  BY <1>5

\* Sums of disjoint sets add up.
LEMMA SumUnion ==
  ASSUME NEW S, IsFiniteSet(S), NEW T, IsFiniteSet(T), S \cap T = {},
         NEW amount, \A x \in S \cup T : amount[x] \in Nat
  PROVE  Sum(S \cup T, amount) = Sum(S, amount) + Sum(T, amount)
<1> DEFINE PS == Pieces(S, amount)
           PT == Pieces(T, amount)
<1>1. Pieces(S \cup T, amount) = PS \cup PT
  BY DEF Pieces
<1>2. PS \cap PT = {}
  BY PieceOf
<1>3. IsFiniteSet(PS) /\ IsFiniteSet(PT)
  BY SumType
<1>4. /\ Sum(S, amount) = Cardinality(PS)
      /\ Sum(T, amount) = Cardinality(PT)
      /\ Sum(S \cup T, amount) = Cardinality(PS \cup PT)
  BY <1>1 DEF Sum
<1> HIDE DEF PS, PT
<1>5. Cardinality(PS) \in Nat /\ Cardinality(PT) \in Nat
  BY <1>3, FS_CardinalityType
<1>6. Cardinality(PS \cup PT) = Cardinality(PS) + Cardinality(PT) - 0
  BY <1>2, <1>3, FS_Union, FS_EmptySet
<1>7. QED
  BY <1>5, <1>6, <1>4

\* One more member adds its amount.
LEMMA SumInsert ==
  ASSUME NEW S, IsFiniteSet(S), NEW x, x \notin S,
         NEW amount, amount[x] \in Nat, \A y \in S : amount[y] \in Nat
  PROVE  Sum(S \cup {x}, amount) = Sum(S, amount) + amount[x]
<1>1. IsFiniteSet({x}) /\ S \cap {x} = {}
  BY FS_Singleton
<1>2. \A y \in S \cup {x} : amount[y] \in Nat
  OBVIOUS
<1>3. Sum(S \cup {x}, amount) = Sum(S, amount) + Sum({x}, amount)
  BY <1>1, <1>2, SumUnion
<1>4. QED
  BY <1>3, SumOfOne

\* If one amount changes, the sum changes by as much.
LEMMA SumChange ==
  ASSUME NEW S, IsFiniteSet(S), NEW x \in S, NEW a, NEW b,
         \A y \in S : a[y] \in Nat /\ b[y] \in Nat,
         \A y \in S \ {x} : a[y] = b[y]
  PROVE  Sum(S, b) = Sum(S, a) - a[x] + b[x]
<1> DEFINE R == S \ {x}
<1>1. IsFiniteSet(R) /\ x \notin R /\ R \cup {x} = S
  BY FS_Subset
<1>2. Sum(R, a) = Sum(R, b)
  BY SumAgrees
<1>3. Sum(R, a) \in Nat
  BY <1>1, SumType
<1> HIDE DEF R
<1>4. Sum(R \cup {x}, a) = Sum(R, a) + a[x]
  BY <1>1, SumInsert
<1>5. Sum(R \cup {x}, b) = Sum(R, b) + b[x]
  BY <1>1, SumInsert
<1>6. QED
  BY <1>1, <1>2, <1>3, <1>4, <1>5

\* No sum of a part is more than that of the whole.
LEMMA SumOfPart ==
  ASSUME NEW T, IsFiniteSet(T), NEW S \in SUBSET T,
         NEW amount, \A x \in T : amount[x] \in Nat
  PROVE  Sum(S, amount) <= Sum(T, amount)
<1>1. IsFiniteSet(Pieces(T, amount))
  BY SumType
<1>2. Pieces(S, amount) \in SUBSET Pieces(T, amount)
  BY DEF Pieces
<1>3. QED
  BY <1>1, <1>2, FS_Subset DEF Sum

\* What two amounts come to is the sum of what each comes to.
LEMMA SumPlus ==
  ASSUME NEW S, IsFiniteSet(S), NEW a, NEW b, NEW ab,
         \A x \in S : a[x] \in Nat /\ b[x] \in Nat /\ ab[x] = a[x] + b[x]
  PROVE  Sum(S, ab) = Sum(S, a) + Sum(S, b)
<1> DEFINE PA  == Pieces(S, a)
           PB  == Pieces(S, b)
           PAB == Pieces(S, ab)
           PC  == PAB \ PA
           f   == [u \in PB |-> <<u[1], u[2] + a[u[1]]>>]
<1>1. /\ \A u \in PA : u = <<u[1], u[2]>> /\ u[1] \in S /\ u[2] \in 1 .. a[u[1]]
      /\ \A u \in PB : u = <<u[1], u[2]>> /\ u[1] \in S /\ u[2] \in 1 .. b[u[1]]
      /\ \A u \in PAB : u = <<u[1], u[2]>> /\ u[1] \in S /\ u[2] \in 1 .. ab[u[1]]
  BY PieceOf
<1>2. /\ \A x \in S : \A i \in 1 .. a[x] : <<x, i>> \in PA
      /\ \A x \in S : \A i \in 1 .. b[x] : <<x, i>> \in PB
      /\ \A x \in S : \A i \in 1 .. ab[x] : <<x, i>> \in PAB
  BY DEF Pieces
<1>3. \A x, i : <<x, i>> \in PA => i \in 1 .. a[x]
  BY <1>1
<1>4. IsFiniteSet(PA) /\ IsFiniteSet(PB) /\ IsFiniteSet(PAB)
  BY SumType
<1>5. Sum(S, a) = Cardinality(PA) /\ Sum(S, b) = Cardinality(PB) /\ Sum(S, ab) = Cardinality(PAB)
  BY DEF Sum
<1> HIDE DEF PA, PB, PAB
<1>6. PA \subseteq PAB
  BY <1>1, <1>2
<1>7. f \in Bijection(PB, PC)
  <2>1. ASSUME NEW u \in PB PROVE <<u[1], u[2] + a[u[1]]>> \in PC
    <3>1. u[1] \in S /\ u[2] \in 1 .. b[u[1]]
      BY <1>1
    <3>2. u[2] + a[u[1]] \in 1 .. ab[u[1]] /\ u[2] + a[u[1]] \notin 1 .. a[u[1]]
      BY <3>1
    <3>3. QED
      BY <1>2, <1>3, <3>1, <3>2
  <2>2. f \in [PB -> PC]
    BY <2>1
  <2>3. ASSUME NEW u \in PB, NEW v \in PB, f[u] = f[v] PROVE u = v
    <3>1. u[1] = v[1] /\ u[2] + a[u[1]] = v[2] + a[v[1]]
      BY <2>3
    <3>2. u[2] \in Int /\ v[2] \in Int /\ a[u[1]] \in Int
      BY <1>1
    <3>3. u[2] = v[2]
      BY <3>1, <3>2
    <3>4. QED
      BY <1>1, <3>1, <3>3
  <2>4. ASSUME NEW w \in PC PROVE \E u \in PB : f[u] = w
    <3>1. w = <<w[1], w[2]>> /\ w[1] \in S /\ w[2] \in 1 .. ab[w[1]]
      BY <1>1
    <3>2. w[2] \notin 1 .. a[w[1]]
      BY <1>2, <3>1
    <3> DEFINE u == <<w[1], w[2] - a[w[1]]>>
    <3>3. w[2] - a[w[1]] \in 1 .. b[w[1]]
      BY <3>1, <3>2
    <3>4. u \in PB
      BY <1>2, <3>1, <3>3
    <3>5. f[u] = w
      BY <3>1, <3>4
    <3>6. QED
      BY <3>4, <3>5
  <2> HIDE DEF f, PC
  <2>5. QED
    BY <2>2, <2>3, <2>4 DEF Bijection, Injection, Surjection, IsInjective
<1>8. Cardinality(PC) = Cardinality(PB)
  BY <1>4, <1>7, FS_Bijection DEF ExistsBijection
<1>9. Cardinality(PC) = Cardinality(PAB) - Cardinality(PAB \cap PA)
  BY <1>4, FS_Difference
<1>10. PAB \cap PA = PA
  BY <1>6
<1>11. /\ Cardinality(PAB) \in Nat /\ Cardinality(PA) \in Nat /\ Cardinality(PB) \in Nat
  BY <1>4, FS_CardinalityType
<1> HIDE DEF PC
<1>12. Cardinality(PB) = Cardinality(PAB) - Cardinality(PA)
  BY <1>8, <1>9, <1>10
<1>13. QED
  BY <1>5, <1>11, <1>12
=============================================================================
