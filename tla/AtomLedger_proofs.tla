------------------------- MODULE AtomLedger_proofs -------------------------
(***************************************************************************)
(* Two facts about the ledger of atoms, for any accounts, origins and      *)
(* amounts: no more of an origin is held than was loaded of it, and the    *)
(* count of unattributed atoms covers what the accounts hold of them, none *)
(* twice.                                                                  *)
(*                                                                         *)
(* Both compare sums over the accounts, so the module starts with what a   *)
(* sum over a finite set does when one element or a whole set is moved;    *)
(* each is had from a minimal counterexample.  Then the helpers: shares of *)
(* a withdrawal are whole atoms that add up to it, and a scaled part is no *)
(* larger than before, for a balance never exceeds what is tracked of it.  *)
(*                                                                         *)
(* The invariant says that, that what an account holds of no known origin  *)
(* is within its debt, and that the count is the sum of the debts. Atoms   *)
(* beyond the debt can then leave only a reservoir that did not have them, *)
(* and those are what `drawn' counts.                                      *)
(***************************************************************************)
EXTENDS AtomLedger, FiniteSetTheorems, TLAPS

---------------------------------------------------------------------------
(* Sums over finite sets                                                    *)

\* What holds of no element, and of one element more, holds of a finite set:
\* of the subsets it does not hold of, none would be minimal.
LEMMA SubsetInduction ==
    ASSUME NEW S, IsFiniteSet(S), NEW G, {} \in G,
           \A A \in G : A \subseteq S => \A x \in S \ A : A \cup {x} \in G
    PROVE  S \in G
  <1> SUFFICES ASSUME S \notin G PROVE FALSE
    OBVIOUS
  <1> DEFINE F == (SUBSET S) \ G
             R == StrictSubsetOrdering(S)
             W == SUBSET S
  <1>1. IsWellFoundedOn(R, W)
    <2>1. IsWellFoundedOn(R, FiniteSubsetsOf(S))
      BY FS_StrictSubsetOrderingWellFounded, Zenon
    <2>2. FiniteSubsetsOf(S) = W
      BY FS_FiniteSubsetsOfFinite, Zenon
    <2> QED
      BY <2>1, <2>2, Zenon
  <1>2. F \subseteq W /\ F # {}
    BY Zenon
  <1>3. PICK A \in F : \A B \in F : ~ (<<B, A>> \in R)
    <2> HIDE DEF R, W, F
    <2> QED
      BY <1>1, <1>2, WFMin, Zenon
  <1>4. A \subseteq S /\ A \notin G /\ A # {}
    BY <1>3
  <1>5. PICK x \in A : TRUE
    BY <1>4
  <1> DEFINE B == A \ {x}
  <1>6. B \subseteq S /\ B # A /\ B \subseteq A /\ x \in S \ B /\ A = B \cup {x}
    BY <1>4, <1>5
  <1>7. <<B, A>> \in R
    <2>1. A \in SUBSET S /\ B \in SUBSET S
      BY <1>4, <1>6
    <2> HIDE DEF B
    <2> QED
      BY <1>6, <2>1 DEF StrictSubsetOrdering
  <1>8. B \in G
    <2> HIDE DEF R
    <2> QED
      BY <1>3, <1>6, <1>7
  <1> HIDE DEF B
  <1> QED
    BY <1>4, <1>6, <1>8

Cells(f, T) == UNION {{x} \X (1..f[x]) : x \in T}
Sum(f, T) == Cardinality(Cells(f, T))

\* f is an amount on S
NatOn(f, S) == \A x \in S : f[x] \in Nat

LEMMA TotalIsSum == ASSUME NEW f PROVE Total(f) = Sum(f, DOMAIN f)
  BY DEF Total, Sum, Cells

LEMMA SumEmpty == ASSUME NEW f PROVE Cells(f, {}) = {} /\ Sum(f, {}) = 0
  <1>1. Cells(f, {}) = {}
    BY DEF Cells
  <1> QED
    BY <1>1, FS_EmptySet DEF Sum

\* One element more adds its amount.
LEMMA CellsMore ==
    ASSUME NEW f, NEW T, NEW x, x \notin T, f[x] \in Nat, IsFiniteSet(Cells(f, T))
    PROVE  /\ IsFiniteSet(Cells(f, T \cup {x}))
           /\ Sum(f, T \cup {x}) = Sum(f, T) + f[x]
  <1> DEFINE C == Cells(f, T)
             D == {x} \X (1..f[x])
  <1>1. Cells(f, T \cup {x}) = C \cup D
    BY DEF Cells
  <1>2. C \cap D = {}
    BY DEF Cells
  <1>3. IsFiniteSet(D) /\ Cardinality(D) = f[x]
    <2>1. IsFiniteSet(1..f[x]) /\ Cardinality(1..f[x]) = f[x]
      BY FS_Interval
    <2>2. IsFiniteSet({x}) /\ Cardinality({x}) = 1
      BY FS_Singleton
    <2> DEFINE X == {x}
               I == 1..f[x]
    <2>3. IsFiniteSet(X) /\ IsFiniteSet(I) /\ D = X \X I
      BY <2>1, <2>2
    <2>4. Cardinality(X) = 1 /\ Cardinality(I) = f[x]
      BY <2>1, <2>2
    <2> HIDE DEF X, I, D
    <2>5. IsFiniteSet(D) /\ Cardinality(D) = Cardinality(X) * Cardinality(I)
      BY <2>3, FS_Product
    <2> QED
      BY <2>4, <2>5
  <1> HIDE DEF C, D
  <1>4. IsFiniteSet(C \cup D) /\ Cardinality(C \cup D) = Cardinality(C) + Cardinality(D) - Cardinality(C \cap D)
    BY <1>3, FS_Union DEF C
  <1>5. Cardinality(C \cap D) = 0
    BY <1>2, FS_EmptySet
  <1>6. Cardinality(C) \in Nat
    BY FS_CardinalityType DEF C
  <1>7. Sum(f, T) = Cardinality(C) /\ Sum(f, T \cup {x}) = Cardinality(C \cup D)
    BY <1>1 DEF Sum, C
  <1>8. Sum(f, T \cup {x}) = Sum(f, T) + f[x]
    BY <1>3, <1>4, <1>5, <1>6, <1>7
  <1> QED
    BY <1>1, <1>4, <1>8

\* A finite sum of amounts is an amount.
LEMMA SumType ==
    ASSUME NEW S, IsFiniteSet(S), NEW f, \A x \in S : f[x] \in Nat
    PROVE  \A T \in SUBSET S : IsFiniteSet(Cells(f, T)) /\ Sum(f, T) \in Nat
  <1>1. ASSUME NEW T \in SUBSET S
        PROVE  IsFiniteSet(Cells(f, T))
    <2> DEFINE G == {A \in SUBSET T : IsFiniteSet(Cells(f, A))}
    <2>1. IsFiniteSet(T)
      BY FS_Subset
    <2>2. {} \in G
      BY SumEmpty, FS_EmptySet
    <2>3. ASSUME NEW A \in G, NEW x \in T \ A PROVE A \cup {x} \in G
      BY CellsMore
    <2> HIDE DEF G
    <2>4. T \in G
      BY <2>1, <2>2, <2>3, SubsetInduction
    <2> QED
      BY <2>4 DEF G
  <1> QED
    BY <1>1, FS_CardinalityType DEF Sum

\* The sum over one element more is larger by its amount.
Grows(f, S) ==
    \A T : T \subseteq S => \A x \in S : x \notin T =>
       /\ Sum(f, T \cup {x}) = Sum(f, T) + f[x]
       /\ Sum(f, T) \in Nat
       /\ f[x] \in Nat

\* Sums of amounts over a finite set grow so.
LEMMA SumGrows ==
    ASSUME NEW S, IsFiniteSet(S), NEW f, NatOn(f, S)
    PROVE  Grows(f, S)
  <1> SUFFICES ASSUME NEW T, T \subseteq S, NEW x \in S, x \notin T
               PROVE  Sum(f, T \cup {x}) = Sum(f, T) + f[x] /\ Sum(f, T) \in Nat /\ f[x] \in Nat
    BY DEF Grows
  <1>1. x \notin T /\ f[x] \in Nat
    BY DEF NatOn
  <1>2. IsFiniteSet(Cells(f, T)) /\ Sum(f, T) \in Nat
    BY SumType DEF NatOn
  <1> QED
    BY <1>1, <1>2, CellsMore

\* Sums add up.
LEMMA SumPlus ==
    ASSUME NEW S, IsFiniteSet(S), NEW f, NEW g, NEW h,
           \A x \in S : f[x] \in Nat /\ g[x] \in Nat /\ h[x] = f[x] + g[x]
    PROVE  Sum(h, S) = Sum(f, S) + Sum(g, S)
  <1>f. Grows(f, S)
    <2>1. NatOn(f, S)
      BY DEF NatOn
    <2> QED
      BY <2>1, SumGrows
  <1>g. Grows(g, S)
    <2>1. NatOn(g, S)
      BY DEF NatOn
    <2> QED
      BY <2>1, SumGrows
  <1>h. Grows(h, S)
    <2>1. NatOn(h, S)
      BY DEF NatOn
    <2> QED
      BY <2>1, SumGrows
  <1> DEFINE G == {A \in SUBSET S : Sum(h, A) = Sum(f, A) + Sum(g, A)}
  <1>1. {} \in G
    BY SumEmpty
  <1>2. ASSUME NEW A \in G, NEW x \in S \ A PROVE A \cup {x} \in G
    <2>1. A \subseteq S /\ x \in S /\ x \notin A /\ A \cup {x} \in SUBSET S /\ Sum(h, A) = Sum(f, A) + Sum(g, A)
      OBVIOUS
    <2>2. f[x] \in Nat /\ g[x] \in Nat /\ h[x] = f[x] + g[x]
      OBVIOUS
    <2> HIDE DEF G
    <2>3. Sum(h, A \cup {x}) = Sum(f, A \cup {x}) + Sum(g, A \cup {x})
      BY <1>f, <1>g, <1>h, <2>1, <2>2 DEF Grows
    <2> QED
      BY <2>1, <2>3 DEF G
  <1> HIDE DEF G
  <1>3. S \in G
    BY <1>1, <1>2, SubsetInduction
  <1> QED
    BY <1>3 DEF G

\* A product distributes over a sum.
LEMMA Distribute ==
    ASSUME NEW a \in Nat, NEW b \in Nat, NEW m \in Nat
    PROVE  (a + b) * m = a * m + b * m
  OBVIOUS

\* Products grow with their factors,
LEMMA ProductMonotone ==
    ASSUME NEW a \in Nat, NEW b \in Nat, NEW m \in Nat, a <= b
    PROVE  a * m <= b * m
  OBVIOUS

\* and factors with their products.
LEMMA Cancel ==
    ASSUME NEW a \in Nat, NEW b \in Nat, NEW m \in Nat, m > 0, a * m <= b * m
    PROVE  a <= b
  OBVIOUS

\* f is to g as k to m
InProportion(f, m, g, k, S) == \A x \in S : f[x] * m = k * g[x]

\* Proportional amounts have proportional sums.
LEMMA SumTimes ==
    ASSUME NEW S, IsFiniteSet(S), NEW f, NEW g, NEW m \in Nat, NEW k \in Nat,
           NatOn(f, S), NatOn(g, S), InProportion(f, m, g, k, S)
    PROVE  Sum(f, S) * m = k * Sum(g, S)
  <1>f. Grows(f, S)
    BY SumGrows
  <1>g. Grows(g, S)
    BY SumGrows
  <1> DEFINE G == {A \in SUBSET S : Sum(f, A) * m = k * Sum(g, A)}
  <1>1. {} \in G
    <2>1. 0 * m = k * 0
      OBVIOUS
    <2> QED
      BY <2>1, SumEmpty
  <1>2. ASSUME NEW A \in G, NEW x \in S \ A PROVE A \cup {x} \in G
    <2>1. A \subseteq S /\ x \in S /\ x \notin A /\ A \cup {x} \in SUBSET S /\ Sum(f, A) * m = k * Sum(g, A)
      OBVIOUS
    <2>2. f[x] \in Nat /\ g[x] \in Nat /\ f[x] * m = k * g[x]
      BY DEF NatOn, InProportion
    <2> HIDE DEF G
    <2>3. /\ Sum(f, A \cup {x}) = Sum(f, A) + f[x] /\ Sum(f, A) \in Nat
          /\ Sum(g, A \cup {x}) = Sum(g, A) + g[x] /\ Sum(g, A) \in Nat
      BY <1>f, <1>g, <2>1 DEF Grows
    <2>4. (Sum(f, A) + f[x]) * m = Sum(f, A) * m + f[x] * m
      BY <2>2, <2>3, Distribute
    <2>5. (Sum(g, A) + g[x]) * k = Sum(g, A) * k + g[x] * k
      BY <2>2, <2>3, Distribute
    <2>6. /\ k * Sum(g, A) = Sum(g, A) * k /\ k * g[x] = g[x] * k
          /\ (Sum(g, A) + g[x]) * k = k * (Sum(g, A) + g[x])
      BY <2>2, <2>3
    <2>7. Sum(f, A \cup {x}) * m = k * Sum(g, A \cup {x})
      <3>1. Sum(f, A \cup {x}) * m = (Sum(f, A) + f[x]) * m
        BY <2>3
      <3>2. k * Sum(g, A \cup {x}) = k * (Sum(g, A) + g[x])
        BY <2>3
      <3> QED
        BY <3>1, <3>2, <2>1, <2>2, <2>4, <2>5, <2>6
    <2> QED
      BY <2>1, <2>7 DEF G
  <1> HIDE DEF G
  <1>3. S \in G
    BY <1>1, <1>2, SubsetInduction
  <1> QED
    BY <1>3 DEF G

\* The larger amounts have the larger sum.
LEMMA SumMonotone ==
    ASSUME NEW S, IsFiniteSet(S), NEW f, NEW g,
           \A x \in S : f[x] \in Nat /\ g[x] \in Nat /\ f[x] <= g[x]
    PROVE  Sum(f, S) <= Sum(g, S)
  <1> DEFINE d == [x \in S |-> g[x] - f[x]]
  <1>1. \A x \in S : d[x] \in Nat /\ f[x] \in Nat /\ g[x] = f[x] + d[x]
    OBVIOUS
  <1> HIDE DEF d
  <1>2. Sum(g, S) = Sum(f, S) + Sum(d, S)
    BY <1>1, SumPlus
  <1>3. Sum(f, S) \in Nat /\ Sum(d, S) \in Nat
    <2>1. \A x \in S : d[x] \in Nat
      BY <1>1
    <2>2. \A x \in S : f[x] \in Nat
      BY <1>1
    <2> QED
      BY <2>1, <2>2, SumType
  <1> QED
    BY <1>2, <1>3

\* Nothing sums to nothing, elsewhere or everywhere.
LEMMA SumElsewhere ==
    ASSUME NEW S, NEW T \in SUBSET S, NEW f, NEW g,
           \A x \in T : g[x] = f[x], \A x \in S \ T : f[x] = 0
    PROVE  Sum(g, T) = Sum(f, S)
  <1>1. Cells(g, T) = Cells(f, S)
    <2>1. 1..0 = {}
      OBVIOUS
    <2> QED
      BY <2>1 DEF Cells
  <1> QED
    BY <1>1 DEF Sum

LEMMA SumZero ==
    ASSUME NEW S, NEW f, \A x \in S : f[x] = 0
    PROVE  Sum(f, S) = 0
  <1>1. {} \in SUBSET S
    OBVIOUS
  <1>2. Sum(f, {}) = Sum(f, S)
    BY <1>1, SumElsewhere
  <1> QED
    BY <1>2, SumEmpty

\* The sum of one amount is that amount.
LEMMA SumPoint ==
    ASSUME NEW S, NEW a \in S, NEW f, f[a] \in Nat, \A x \in S \ {a} : f[x] = 0
    PROVE  Sum(f, S) = f[a]
  <1>1. Sum(f, {a}) = Sum(f, S)
    BY SumElsewhere
  <1>2. {} \cup {a} = {a} /\ a \notin {}
    OBVIOUS
  <1>3. IsFiniteSet(Cells(f, {})) /\ Sum(f, {}) = 0
    BY SumEmpty, FS_EmptySet
  <1>4. Sum(f, {} \cup {a}) = Sum(f, {}) + f[a]
    BY <1>2, <1>3, CellsMore
  <1> QED
    BY <1>1, <1>2, <1>3, <1>4

\* No amount is larger than its sum.
LEMMA SumCovers ==
    ASSUME NEW S, IsFiniteSet(S), NEW f, \A x \in S : f[x] \in Nat, NEW a \in S
    PROVE  f[a] <= Sum(f, S)
  <1>1. S = (S \ {a}) \cup {a} /\ S \ {a} \subseteq S /\ a \notin S \ {a}
    OBVIOUS
  <1>n. NatOn(f, S)
    BY DEF NatOn
  <1>2. Sum(f, S) = Sum(f, S \ {a}) + f[a] /\ Sum(f, S \ {a}) \in Nat /\ f[a] \in Nat
    BY <1>1, <1>n, SumGrows DEF Grows
  <1> QED
    BY <1>2

\* A table of amounts, and the sums of its rows and of its columns
NatTable(m, S, T) == \A x \in S : \A y \in T : m[x][y] \in Nat
Column(m, y, S) == [x \in S |-> m[x][y]]
RowSums(row, m, S, T) == \A x \in S : row[x] = Sum(m[x], T)
ColumnSums(column, m, S, T) == \A y \in T : column[y] = Sum(Column(m, y, S), S)

\* Rows and columns of a table have the same sum.
LEMMA SumSwap ==
    ASSUME NEW S, IsFiniteSet(S), NEW T, IsFiniteSet(T), NEW m, NatTable(m, S, T),
           NEW row, RowSums(row, m, S, T), NEW column, ColumnSums(column, m, S, T)
    PROVE  Sum(row, S) = Sum(column, T)
  <1>a. \A x \in S : \A y \in T : m[x][y] \in Nat
    BY DEF NatTable
  <1>b. \A x \in S : row[x] = Sum(m[x], T)
    BY DEF RowSums
  <1>c. \A y \in T : column[y] = Sum([x \in S |-> m[x][y]], S)
    BY DEF ColumnSums, Column
  <1> USE <1>a, <1>b, <1>c
  <1> DEFINE below(A) == [y \in T |-> Sum([x \in S |-> m[x][y]], A)]
             G == {A \in SUBSET S : Sum(row, A) = Sum(below(A), T)}
  <1>r. \A x \in S : row[x] \in Nat
    BY SumType
  <1>n. NatOn(row, S)
    BY <1>r DEF NatOn
  <1>m. Grows(row, S)
    <2> HIDE DEF G, below
    <2> QED
      BY <1>n, SumGrows
  <1>1. {} \in G
    <2>1. \A y \in T : below({})[y] = 0
      BY SumEmpty
    <2>2. Sum(below({}), T) = 0
      <3> HIDE DEF below
      <3> QED
        BY <2>1, SumZero
    <2> QED
      BY <2>2, SumEmpty
  <1>2. ASSUME NEW A \in G, NEW x \in S \ A PROVE A \cup {x} \in G
    <2> DEFINE B == A \cup {x}
    <2>0. A \subseteq S /\ x \in S /\ x \notin A
      OBVIOUS
    <2>1. Sum(row, B) = Sum(row, A) + row[x] /\ Sum(row, A) \in Nat
      <3> HIDE DEF G
      <3> QED
        BY <2>0, <1>m DEF Grows
    <2>2. ASSUME NEW y \in T
          PROVE  /\ below(A)[y] \in Nat /\ m[x][y] \in Nat
                 /\ below(B)[y] = below(A)[y] + m[x][y]
      <3> DEFINE c == [z \in S |-> m[z][y]]
      <3>1. NatOn(c, S)
        BY DEF NatOn
      <3>2. c[x] = m[x][y] /\ below(A)[y] = Sum(c, A) /\ below(B)[y] = Sum(c, B)
        OBVIOUS
      <3>4. Grows(c, S)
        <4> HIDE DEF c, below, G
        <4> QED
          BY <3>1, SumGrows
      <3> HIDE DEF c, below, G
      <3>3. Sum(c, B) = Sum(c, A) + c[x] /\ Sum(c, A) \in Nat /\ c[x] \in Nat
        BY <2>0, <3>4 DEF Grows
      <3> QED
        BY <3>2, <3>3
    <2>3. Sum(below(B), T) = Sum(below(A), T) + Sum(m[x], T)
      <3> HIDE DEF below, B
      <3> QED
        BY <2>2, SumPlus
    <2>4. Sum(row, A) = Sum(below(A), T) /\ row[x] = Sum(m[x], T)
      OBVIOUS
    <2>5. Sum(row, B) = Sum(below(B), T)
      <3> HIDE DEF below, B
      <3> QED
        BY <2>1, <2>3, <2>4
    <2> QED
      BY <2>5
  <1>3. S \in G
    <2> HIDE DEF G
    <2> QED
      BY <1>1, <1>2, SubsetInduction
  <1>4. Sum(row, S) = Sum(below(S), T)
    BY <1>3
  <1>5. Sum(below(S), T) = Sum(column, T)
    <2>1. /\ T \in SUBSET T
          /\ \A y \in T : column[y] = below(S)[y]
          /\ \A y \in T \ T : below(S)[y] = 0
      BY DEF Column
    <2> HIDE DEF below
    <2> QED
      BY <2>1, SumElsewhere
  <1> QED
    BY <1>4, <1>5

\* What adds up element by element adds up.
LEMMA SumBalance ==
    ASSUME NEW S, IsFiniteSet(S), NEW f, NEW g, NEW h, NEW k,
           NatOn(f, S), NatOn(g, S), NatOn(h, S), NatOn(k, S),
           \A x \in S : f[x] + g[x] = h[x] + k[x]
    PROVE  Sum(f, S) + Sum(g, S) = Sum(h, S) + Sum(k, S)
  <1> DEFINE s == [x \in S |-> f[x] + g[x]]
  <1>1. \A x \in S : f[x] \in Nat /\ g[x] \in Nat /\ s[x] = f[x] + g[x]
    BY DEF NatOn
  <1>2. \A x \in S : h[x] \in Nat /\ k[x] \in Nat /\ s[x] = h[x] + k[x]
    BY DEF NatOn
  <1> HIDE DEF s
  <1>3. Sum(s, S) = Sum(f, S) + Sum(g, S)
    BY <1>1, SumPlus
  <1>4. Sum(s, S) = Sum(h, S) + Sum(k, S)
    BY <1>2, SumPlus
  <1> QED
    BY <1>3, <1>4

\* A finite sum of amounts is an amount.
LEMMA SumNat ==
    ASSUME NEW S, IsFiniteSet(S), NEW f, NatOn(f, S)
    PROVE  Sum(f, S) \in Nat
  <1>1. \A x \in S : f[x] \in Nat
    BY DEF NatOn
  <1>2. S \in SUBSET S
    OBVIOUS
  <1> QED
    BY <1>1, <1>2, SumType

\* What two sums are together covers what they cover element by element.
LEMMA SumTogether ==
    ASSUME NEW S, IsFiniteSet(S), NEW f, NEW g, NEW h,
           NatOn(f, S), NatOn(g, S), NatOn(h, S),
           \A x \in S : h[x] <= f[x] + g[x]
    PROVE  Sum(h, S) <= Sum(f, S) + Sum(g, S)
  <1> DEFINE s == [x \in S |-> f[x] + g[x]]
  <1>1. \A x \in S : f[x] \in Nat /\ g[x] \in Nat /\ s[x] = f[x] + g[x]
    BY DEF NatOn
  <1>2. \A x \in S : h[x] \in Nat /\ s[x] \in Nat /\ h[x] <= s[x]
    BY DEF NatOn
  <1> HIDE DEF s
  <1>3. Sum(s, S) = Sum(f, S) + Sum(g, S)
    BY <1>1, SumPlus
  <1>4. Sum(h, S) <= Sum(s, S)
    BY <1>2, SumMonotone
  <1> QED
    BY <1>3, <1>4

\* Equal functions, equal sums.
LEMMA SumSame ==
    ASSUME NEW S, NEW f, NEW g, \A x \in S : g[x] = f[x]
    PROVE  Sum(g, S) = Sum(f, S)
  <1>1. S \in SUBSET S /\ \A x \in S \ S : f[x] = 0
    OBVIOUS
  <1> QED
    BY <1>1, SumElsewhere

\* The sum of the values of an expression.
LEMMA TotalOf ==
    ASSUME NEW S, NEW f, DOMAIN f = S
    PROVE  Total(f) = Sum(f, S)
  BY TotalIsSum

-----------------------------------------------------------------------------
(* Shares                                                                   *)

\* A share that is whole is exact, and no more than the part of which it is.
LEMMA ShareExact ==
    ASSUME NEW part \in Nat, NEW n \in Nat, NEW whole \in Nat, whole > 0,
           Whole(part, n, whole)
    PROVE  /\ Share(part, n, whole) \in Nat
           /\ Share(part, n, whole) * whole = n * part
           /\ n <= whole => Share(part, n, whole) <= part
  <1> DEFINE y == n * part
             z == y \div whole
  <1>1. y \in Nat
    OBVIOUS
  <1>2. z \in Nat /\ y % whole = 0
    <2> HIDE DEF y
    <2>1. y \div whole \in Nat
      BY <1>1
    <2> QED
      BY <2>1 DEF Whole, y
  <1>3. z * whole = y
    <2> HIDE DEF y
    <2>1. (y \div whole) * whole = y
      BY <1>1, <1>2
    <2> QED
      BY <2>1
  <1>4. ASSUME n <= whole PROVE z <= part
    <2> HIDE DEF z
    <2>1. n * part <= whole * part
      BY <1>4, ProductMonotone
    <2>2. whole * part = part * whole /\ z * whole = n * part
      BY <1>3
    <2>3. z * whole <= part * whole
      BY <2>1, <2>2
    <2> QED
      BY <1>2, <2>3, Cancel
  <1>5. Share(part, n, whole) = z
    BY DEF Share
  <1>6. z \in Nat /\ z * whole = n * part /\ (n <= whole => z <= part)
    <2> HIDE DEF z
    <2> QED
      BY <1>2, <1>3, <1>4
  <1> HIDE DEF z
  <1> QED
    BY <1>5, <1>6, Zenon

\* Nothing has whole shares of nothing.
LEMMA ShareNothing ==
    ASSUME NEW part \in Nat, NEW whole \in Nat, whole > 0
    PROVE  Whole(part, 0, whole)
  <1>1. 0 * part = 0 /\ 0 % whole = 0
    OBVIOUS
  <1> QED
    BY <1>1 DEF Whole

\* Whole shares of all parts add up to what is shared.
LEMMA SharesAddUp ==
    ASSUME NEW S, IsFiniteSet(S), NEW f, NEW g, NatOn(f, S), NatOn(g, S),
           NEW n \in Nat, NEW whole \in Nat, whole > 0, Sum(f, S) = whole,
           \A x \in S : g[x] * whole = n * f[x]
    PROVE  Sum(g, S) = n
  <1>1. InProportion(g, whole, f, n, S)
    BY DEF InProportion
  <1>2. Sum(g, S) * whole = n * Sum(f, S)
    BY <1>1, SumTimes
  <1>3. Sum(g, S) \in Nat
    BY SumNat
  <1>4. Sum(g, S) * whole <= n * whole /\ n * whole <= Sum(g, S) * whole
    <2>1. Sum(g, S) * whole = n * whole
      BY <1>2
    <2>2. Sum(g, S) * whole \in Nat
      BY <1>3
    <2> QED
      BY <2>1, <2>2
  <1>5. Sum(g, S) <= n /\ n <= Sum(g, S)
    BY <1>3, <1>4, Cancel
  <1> QED
    BY <1>3, <1>5

-----------------------------------------------------------------------------
(* The inductive invariant                                                  *)

\* The types of the ledger.
Types ==
    /\ balance \in [Accounts -> Int]
    /\ held \in [Accounts -> [Parts -> Nat]]
    /\ external \in [Origins -> Nat]
    /\ debt \in [Accounts -> Nat]
    /\ cumulative \in Nat
    /\ drawn \in Nat

\* What an account has is tracked; an overdraft is not.
Covered == \A a \in Accounts : balance[a] <= Tracked(a)

\* Atoms of no known origin are counted where they are held.
Owed == \A a \in Accounts : held[a][Unknown] <= debt[a]

\* The count of them is the sum over the accounts.
Counts == cumulative = Total(debt)

IInv ==
    /\ Types /\ Covered /\ Owed /\ Counts
    /\ NoOriginMinted
    /\ cumulative <= Total(Initial) + drawn

\* There are finitely many parts, and accounts and origins have no other.
LEMMA PartsFinite ==
    /\ IsFiniteSet(Accounts) /\ IsFiniteSet(Origins) /\ IsFiniteSet(Parts)
    /\ Unknown \in Parts /\ Unknown \notin Origins /\ Origins \subseteq Parts
    /\ "none" \notin Origins /\ "none" # Unknown
  <1>1. IsFiniteSet(Accounts) /\ IsFiniteSet(Origins)
    BY LedgerAssumption
  <1>2. IsFiniteSet(Origins \cup {Unknown})
    BY <1>1, FS_AddElement
  <1>3. Unknown \notin Origins /\ "none" \notin Origins /\ "none" # Unknown
    BY LedgerAssumption DEF Unknown
  <1> QED
    BY <1>1, <1>2, <1>3 DEF Parts

\* The tracked atoms of an account are the sum of its parts.
LEMMA TrackedIsSum ==
    ASSUME Types, NEW a \in Accounts
    PROVE  /\ Tracked(a) = Sum(held[a], Parts)
           /\ Tracked(a) \in Nat
           /\ NatOn(held[a], Parts)
  <1>1. held[a] \in [Parts -> Nat]
    BY DEF Types
  <1>2. DOMAIN held[a] = Parts /\ NatOn(held[a], Parts)
    BY <1>1 DEF NatOn
  <1>3. Tracked(a) = Sum(held[a], Parts)
    BY <1>2, TotalOf DEF Tracked
  <1> QED
    BY <1>2, <1>3, SumNat, PartsFinite

-----------------------------------------------------------------------------
(* What a debit takes                                                       *)

\* Taken, case by case.
LEMMA TakenCases ==
    ASSUME Types, NEW a \in Accounts, NEW n \in Nat, NEW typed \in Origins \cup {"none"},
           NEW p \in Parts
    PROVE  /\ n = 0 => Taken(a, n, typed, p) = 0
           /\ n > 0 /\ typed # "none" => Taken(a, n, typed, p) = IF p = typed THEN n ELSE 0
           /\ n > 0 /\ typed = "none" /\ Tracked(a) = 0 =>
                 Taken(a, n, typed, p) = IF p = Unknown THEN n ELSE 0
           /\ n > 0 /\ typed = "none" /\ Tracked(a) # 0 =>
                 Taken(a, n, typed, p) = Share(held[a][p], n, Tracked(a))
  <1>1. CASE n = 0
    BY <1>1 DEF Taken
  <1>2. CASE n > 0 /\ typed # "none"
    BY <1>2 DEF Taken
  <1>3. CASE n > 0 /\ typed = "none" /\ Tracked(a) = 0
    BY <1>3 DEF Taken
  <1>4. CASE n > 0 /\ typed = "none" /\ Tracked(a) # 0
    BY <1>4 DEF Taken
  <1> QED
    BY <1>1, <1>2, <1>3, <1>4

\* A debit takes as much as it debits, of each part no more than there is;
\* but an origin it names it takes whether it is there or not, and of an
\* account without a tracked atom it takes atoms of no known origin.
LEMMA TakenFacts ==
    ASSUME Types, NEW a \in Accounts, NEW n \in Nat, NEW typed \in Origins \cup {"none"},
           n > 0 => Available(a, n, typed),
           NEW g, \A p \in Parts : g[p] = Taken(a, n, typed, p)
    PROVE  /\ NatOn(g, Parts)
           /\ Sum(g, Parts) = n
           /\ \A p \in Parts : p # typed /\ p # Unknown => g[p] <= held[a][p]
           /\ typed \in Origins => g[typed] = n
           /\ \/ g[Unknown] <= held[a][Unknown]
              \/ n > 0 /\ typed = "none" /\ Tracked(a) = 0 /\ g[Unknown] = n
  <1>t. \A p \in Parts : held[a][p] \in Nat
    BY DEF Types
  <1>1. CASE n = 0
    <2>1. \A p \in Parts : g[p] = 0
      BY <1>1, TakenCases
    <2>2. Sum(g, Parts) = 0
      BY <2>1, SumZero
    <2> QED
      BY <1>1, <1>t, <2>1, <2>2, PartsFinite DEF NatOn
  <1>2. CASE n > 0 /\ typed # "none"
    <2>1. \A p \in Parts : g[p] = IF p = typed THEN n ELSE 0
      BY <1>2, TakenCases
    <2>2. typed \in Parts /\ typed \in Origins /\ typed # Unknown
      BY <1>2, PartsFinite
    <2>3. g[typed] = n /\ \A p \in Parts \ {typed} : g[p] = 0
      BY <2>1, <2>2
    <2>4. Sum(g, Parts) = n
      BY <2>2, <2>3, SumPoint
    <2> QED
      BY <1>t, <2>1, <2>2, <2>3, <2>4, PartsFinite DEF NatOn
  <1>3. CASE n > 0 /\ typed = "none" /\ Tracked(a) = 0
    <2>1. \A p \in Parts : g[p] = IF p = Unknown THEN n ELSE 0
      BY <1>3, TakenCases
    <2>2. Unknown \in Parts /\ typed \notin Origins
      BY <1>3, PartsFinite
    <2>3. g[Unknown] = n /\ \A p \in Parts \ {Unknown} : g[p] = 0
      BY <2>1, <2>2
    <2>4. Sum(g, Parts) = n
      BY <2>2, <2>3, SumPoint
    <2> QED
      BY <1>3, <1>t, <2>1, <2>2, <2>3, <2>4 DEF NatOn
  <1>4. CASE n > 0 /\ typed = "none" /\ Tracked(a) # 0
    <2>1. \A p \in Parts : g[p] = Share(held[a][p], n, Tracked(a))
      BY <1>4, TakenCases
    <2>2. Tracked(a) \in Nat /\ Tracked(a) > 0 /\ Tracked(a) = Sum(held[a], Parts) /\ NatOn(held[a], Parts)
      BY <1>4, TrackedIsSum
    <2>3. n <= Tracked(a) /\ \A p \in Parts : Whole(held[a][p], n, Tracked(a))
      BY <1>4, <2>2 DEF Available, Divisible
    <2>4. ASSUME NEW p \in Parts
          PROVE  g[p] \in Nat /\ g[p] * Tracked(a) = n * held[a][p] /\ g[p] <= held[a][p]
      <3>1. held[a][p] \in Nat /\ Whole(held[a][p], n, Tracked(a))
        BY <1>t, <2>3
      <3>2. g[p] = Share(held[a][p], n, Tracked(a))
        BY <2>1
      <3> QED
        BY <2>2, <2>3, <3>1, <3>2, ShareExact
    <2>5. NatOn(g, Parts)
      BY <2>4 DEF NatOn
    <2>6. Sum(g, Parts) = n
      <3>1. \A p \in Parts : g[p] * Tracked(a) = n * held[a][p]
        BY <2>4
      <3> QED
        BY <2>2, <2>5, <3>1, PartsFinite, SharesAddUp
    <2> QED
      BY <1>4, <2>4, <2>5, <2>6, PartsFinite
  <1> QED
    BY <1>1, <1>2, <1>3, <1>4

\* What is tracked is scaled to what is there: no part grows.
LEMMA ScaledFacts ==
    ASSUME NEW parts \in [Parts -> Nat], NEW there \in Nat,
           there <= Sum(parts, Parts), Scalable(parts, there)
    PROVE  /\ Scaled(parts, there) \in [Parts -> Nat]
           /\ \A p \in Parts : Scaled(parts, there)[p] <= parts[p]
           /\ Sum(Scaled(parts, there), Parts) = there
  <1> DEFINE k == Scaled(parts, there)
             whole == Sum(parts, Parts)
  <1>0. NatOn(parts, Parts) /\ DOMAIN parts = Parts /\ \A p \in Parts : parts[p] \in Nat
    BY DEF NatOn
  <1>1. Total(parts) = whole /\ whole \in Nat
    BY <1>0, TotalOf, SumNat, PartsFinite
  <1>2. DOMAIN k = Parts /\ k = [p \in Parts |-> k[p]]
    BY DEF Scaled
  <1>3. CASE whole > 0
    <2>1. \A p \in Parts : k[p] = Share(parts[p], there, whole) /\ Whole(parts[p], there, whole)
      BY <1>1, <1>3 DEF Scaled, Scalable
    <2> HIDE DEF k, whole
    <2>2. ASSUME NEW p \in Parts
          PROVE  k[p] \in Nat /\ k[p] * whole = there * parts[p] /\ k[p] <= parts[p]
      <3>1. parts[p] \in Nat /\ there <= whole /\ whole \in Nat
        BY <1>0, <1>1 DEF whole
      <3> QED
        BY <1>3, <2>1, <3>1, ShareExact
    <2>3. NatOn(k, Parts)
      BY <2>2 DEF NatOn
    <2>4. Sum(k, Parts) = there
      <3>1. \A p \in Parts : k[p] * whole = there * parts[p]
        BY <2>2
      <3>2. Sum(parts, Parts) = whole
        BY DEF whole
      <3> QED
        BY <1>0, <1>1, <1>3, <2>3, <3>1, <3>2, PartsFinite, SharesAddUp
    <2>5. k \in [Parts -> Nat]
      BY <1>2, <2>2
    <2> QED
      BY <2>2, <2>4, <2>5 DEF k
  <1>4. CASE whole = 0
    <2>1. there = 0
      BY <1>4
    <2>2. \A p \in Parts : k[p] = 0
      BY <1>1, <1>4, <2>1 DEF Scaled
    <2> HIDE DEF k, whole
    <2>3. Sum(k, Parts) = 0
      BY <2>2, SumZero
    <2>4. k \in [Parts -> Nat]
      BY <1>2, <2>2
    <2> QED
      BY <1>0, <2>1, <2>2, <2>3, <2>4 DEF k
  <1> QED
    BY <1>1, <1>3, <1>4

-----------------------------------------------------------------------------
(* A transition                                                             *)

\* What an account that gives n and gets a share c of what moved has then,
\* before it is scaled.
PartsOf(a, n, c, typed, all, moved) ==
    [p \in Parts |-> Positive(held[a][p] - Taken(a, n, typed, p)) + Share(all[p], c, moved)]

\* The bounds of Positive and Smaller.
LEMMA PositiveFacts ==
    ASSUME NEW n \in Int
    PROVE  Positive(n) \in Nat /\ n <= Positive(n) /\ (n <= 0 => Positive(n) = 0) /\ (n >= 0 => Positive(n) = n)
  BY DEF Positive

\* An account tracks at least what is there after a transition, so scaling
\* makes no part larger and leaves the account covered.
LEMMA RowFacts ==
    ASSUME Types, Covered, NEW a \in Accounts, NEW n \in Nat, NEW c \in Nat,
           NEW typed \in Origins \cup {"none"}, n > 0 => Available(a, n, typed),
           NEW moved \in Nat, moved > 0,
           NEW all \in [Parts -> Nat], Sum(all, Parts) = moved,
           \A p \in Parts : Whole(all[p], c, moved),
           NEW m, m = PartsOf(a, n, c, typed, all, moved),
           NEW after, after = balance[a] - n + c, Scalable(m, Positive(after)),
           NEW H, H = Scaled(m, Positive(after))
    PROVE  /\ H \in [Parts -> Nat]
           /\ m \in [Parts -> Nat]
           /\ \A p \in Parts : H[p] <= m[p]
           /\ after <= Sum(H, Parts)
  <1> DEFINE g == [p \in Parts |-> Taken(a, n, typed, p)]
             r == [p \in Parts |-> Positive(held[a][p] - Taken(a, n, typed, p))]
             got == [p \in Parts |-> Share(all[p], c, moved)]
             there == Positive(after)
  <1>1. \A p \in Parts : g[p] = Taken(a, n, typed, p)
    OBVIOUS
  <1>2. NatOn(g, Parts) /\ Sum(g, Parts) = n
    <2> HIDE DEF g
    <2> QED
      BY <1>1, TakenFacts
  <1>3. NatOn(held[a], Parts) /\ Tracked(a) = Sum(held[a], Parts) /\ Tracked(a) \in Nat
    BY TrackedIsSum
  <1>4. ASSUME NEW p \in Parts
        PROVE  r[p] \in Nat /\ held[a][p] <= r[p] + g[p]
    <2>1. held[a][p] \in Nat /\ g[p] \in Nat /\ held[a][p] - g[p] \in Int
      BY <1>2, <1>3 DEF NatOn
    <2>2. r[p] = Positive(held[a][p] - g[p])
      OBVIOUS
    <2> HIDE DEF r, g
    <2> QED
      BY <2>1, <2>2, PositiveFacts
  <1>5. NatOn(r, Parts)
    <2> HIDE DEF r
    <2> QED
      BY <1>4 DEF NatOn
  <1>6. Sum(held[a], Parts) <= Sum(r, Parts) + Sum(g, Parts)
    <2>1. \A p \in Parts : held[a][p] <= r[p] + g[p]
      BY <1>4
    <2> HIDE DEF r, g
    <2> QED
      BY <1>2, <1>3, <1>5, <2>1, PartsFinite, SumTogether
  <1>7. ASSUME NEW p \in Parts
        PROVE  got[p] \in Nat /\ got[p] * moved = c * all[p]
    <2>1. all[p] \in Nat /\ Whole(all[p], c, moved) /\ got[p] = Share(all[p], c, moved)
      OBVIOUS
    <2> HIDE DEF got
    <2> QED
      BY <2>1, ShareExact
  <1>8. NatOn(got, Parts) /\ Sum(got, Parts) = c
    <2> HIDE DEF got
    <2>1. NatOn(got, Parts) /\ NatOn(all, Parts)
      BY <1>7 DEF NatOn
    <2>2. \A p \in Parts : got[p] * moved = c * all[p]
      BY <1>7
    <2> QED
      BY <2>1, <2>2, PartsFinite, SharesAddUp
  <1>9. DOMAIN m = Parts /\ m = [p \in Parts |-> m[p]] /\ \A p \in Parts : m[p] = r[p] + got[p]
    BY DEF PartsOf
  <1>10. m \in [Parts -> Nat] /\ Sum(m, Parts) = Sum(r, Parts) + Sum(got, Parts)
    <2> HIDE DEF r, got
    <2>1. \A p \in Parts : r[p] \in Nat /\ got[p] \in Nat /\ m[p] = r[p] + got[p]
      BY <1>5, <1>8, <1>9 DEF NatOn
    <2>2. Sum(m, Parts) = Sum(r, Parts) + Sum(got, Parts)
      BY <2>1, PartsFinite, SumPlus
    <2>3. m \in [Parts -> Nat]
      BY <1>9, <2>1
    <2> QED
      BY <2>2, <2>3
  <1>11. Sum(r, Parts) \in Nat
    <2> HIDE DEF r
    <2> QED
      BY <1>5, PartsFinite, SumNat
  <1> HIDE DEF g, r, got
  <1>12. balance[a] \in Int /\ balance[a] <= Tracked(a)
    BY DEF Types, Covered
  <1>13. after \in Int /\ there \in Nat /\ after <= there /\ there <= Sum(m, Parts)
    <2>1. after \in Int /\ after <= Sum(m, Parts) /\ Sum(m, Parts) \in Nat
      BY <1>2, <1>3, <1>6, <1>8, <1>10, <1>11, <1>12
    <2>2. there \in Nat /\ after <= there /\ (after <= 0 => there = 0) /\ (after >= 0 => there = after)
      BY <2>1, PositiveFacts
    <2> QED
      BY <2>1, <2>2
  <1>14. /\ H \in [Parts -> Nat]
         /\ \A p \in Parts : H[p] <= m[p]
         /\ Sum(H, Parts) = there
    <2> HIDE DEF there
    <2>1. Scalable(m, there) /\ H = Scaled(m, there)
      BY DEF there
    <2> QED
      BY <1>10, <1>13, <2>1, ScaledFacts
  <1> QED
    BY <1>10, <1>13, <1>14

\* Credits hand on all that debits took of each part.
LEMMA ColumnFacts ==
    ASSUME NEW credits \in [Accounts -> Nat], NEW moved \in Nat, moved > 0,
           Sum(credits, Accounts) = moved,
           NEW amount \in Nat,
           \A a \in Accounts : Whole(amount, credits[a], moved),
           NEW got, \A a \in Accounts : got[a] = Share(amount, credits[a], moved)
    PROVE  NatOn(got, Accounts) /\ Sum(got, Accounts) = amount
  <1>1. ASSUME NEW a \in Accounts
        PROVE  got[a] \in Nat /\ got[a] * moved = amount * credits[a]
    <2>1. credits[a] \in Nat /\ Whole(amount, credits[a], moved) /\ got[a] = Share(amount, credits[a], moved)
      OBVIOUS
    <2>2. got[a] \in Nat /\ got[a] * moved = credits[a] * amount
      BY <2>1, ShareExact
    <2>3. credits[a] * amount = amount * credits[a]
      BY <2>1
    <2> QED
      BY <2>2, <2>3
  <1>2. NatOn(got, Accounts) /\ NatOn(credits, Accounts)
    BY <1>1 DEF NatOn
  <1>3. \A a \in Accounts : got[a] * moved = amount * credits[a]
    BY <1>1
  <1> QED
    BY <1>2, <1>3, PartsFinite, SharesAddUp

\* The new balance of an account.
After(a, debits, credits) == balance[a] - debits[a] + credits[a]

\* What an account gives of no known origin, and how much of it is its debt.
GoneOf(a, debits, typed) == Taken(a, debits[a], typed, Unknown)
BackedOf(a, debits, typed) == Smaller(GoneOf(a, debits, typed), debt[a])

\* A transition, spelt out: all is what moves of each part.
Moves(debits, credits, typed, all) ==
    LET moved == Total(debits)
        m(a) == PartsOf(a, debits[a], credits[a], typed, all, moved) IN
    /\ all \in [Parts -> 0..moved]
    /\ \A p \in Parts :
          all[p] = Total([a \in Touched(debits) |-> Taken(a, debits[a], typed, p)])
    /\ \A a \in Touched(credits) : \A p \in Parts : Whole(all[p], credits[a], moved)
    /\ \A a \in Accounts : Scalable(m(a), Positive(After(a, debits, credits)))
    /\ held' = [a \in Accounts |-> Scaled(m(a), Positive(After(a, debits, credits)))]
    /\ debt' = [a \in Accounts |->
                  debt[a] - BackedOf(a, debits, typed) + Share(all[Unknown], credits[a], moved)]
    /\ cumulative' = cumulative + all[Unknown]
                       - Total([a \in Accounts |-> BackedOf(a, debits, typed)])

\* Apply is a transition of some parts.
LEMMA ApplyMoves ==
    ASSUME NEW debits \in [Accounts -> Nat], NEW credits \in [Accounts -> Nat], NEW typed,
           Apply(debits, credits, typed)
    PROVE  /\ \E all : Moves(debits, credits, typed, all)
           /\ \A a \in Accounts : debits[a] > 0 =>
                 Kept(a, balance[a] - debits[a]) /\ Available(a, debits[a], typed)
           /\ balance' = [a \in Accounts |-> After(a, debits, credits)]
           /\ external' = [o \in Origins |-> external[o] + LoadedBy(debits, typed, o)]
           /\ drawn' = drawn + Total([a \in Reservoirs |-> Positive(debits[a] - Positive(balance[a]))])
  <1> DEFINE moved == Total(debits)
             after == [a \in Accounts |-> balance[a] - debits[a] + credits[a]]
             gone(a) == Taken(a, debits[a], typed, Unknown)
             backed == [a \in Accounts |-> Smaller(gone(a), debt[a])]
  <1>1. PICK all \in [Parts -> 0..moved] :
          LET parts(a) == [p \in Parts |->
                             Positive(held[a][p] - Taken(a, debits[a], typed, p))
                               + Share(all[p], credits[a], moved)] IN
          /\ \A p \in Parts :
                all[p] = Total([a \in Touched(debits) |-> Taken(a, debits[a], typed, p)])
          /\ \A a \in Touched(credits) : \A p \in Parts : Whole(all[p], credits[a], moved)
          /\ \A a \in Accounts : Scalable(parts(a), Positive(after[a]))
          /\ held' = [a \in Accounts |-> Scaled(parts(a), Positive(after[a]))]
          /\ debt' = [a \in Accounts |->
                        DebtWith(debt[a] - backed[a], Share(all[Unknown], credits[a], moved))]
          /\ cumulative' = cumulative + all[Unknown] - Total(backed)
    BY Zenon DEF Apply
  <1>2. \A a \in Accounts : after[a] = After(a, debits, credits)
    BY DEF After
  <1>3. \A a \in Accounts : backed[a] = BackedOf(a, debits, typed)
    BY DEF BackedOf, GoneOf
  <1>4. Moves(debits, credits, typed, all)
    <2> DEFINE m(a) == PartsOf(a, debits[a], credits[a], typed, all, moved)
    <2>1. \A a \in Accounts : Scalable(m(a), Positive(After(a, debits, credits)))
      BY <1>1, <1>2 DEF PartsOf
    <2>2. held' = [a \in Accounts |-> Scaled(m(a), Positive(After(a, debits, credits)))]
      BY <1>1, <1>2 DEF PartsOf
    <2>3. debt' = [a \in Accounts |->
                  debt[a] - BackedOf(a, debits, typed) + Share(all[Unknown], credits[a], moved)]
      BY <1>1, <1>3 DEF DebtWith
    <2>4. backed = [a \in Accounts |-> BackedOf(a, debits, typed)]
      BY <1>3
    <2>5. cumulative' = cumulative + all[Unknown] - Total([a \in Accounts |-> BackedOf(a, debits, typed)])
      BY <1>1, <2>4
    <2> QED
      BY <1>1, <2>1, <2>2, <2>3, <2>5 DEF Moves
  <1>5. \A a \in Accounts : debits[a] > 0 =>
                 Kept(a, balance[a] - debits[a]) /\ Available(a, debits[a], typed)
    <2>1. \A a \in Touched(debits) : Kept(a, balance[a] - debits[a]) /\ Available(a, debits[a], typed)
      BY DEF Apply
    <2>2. \A a \in Accounts : debits[a] > 0 => a \in Touched(debits)
      BY DEF Touched
    <2> QED
      BY <2>1, <2>2
  <1>6. balance' = [a \in Accounts |-> After(a, debits, credits)]
    BY DEF Apply, After
  <1>7. /\ external' = [o \in Origins |-> external[o] + LoadedBy(debits, typed, o)]
        /\ drawn' = drawn + Total([a \in Reservoirs |-> Positive(debits[a] - Positive(balance[a]))])
    BY DEF Apply
  <1> QED
    BY <1>4, <1>5, <1>6, <1>7

\* What moves of each part is what all accounts give of it, and together it
\* is what moves.
LEMMA AllFacts ==
    ASSUME Types, NEW debits \in [Accounts -> Nat], NEW credits \in [Accounts -> Nat],
           NEW typed \in Origins \cup {"none"}, NEW all,
           Total(debits) = Total(credits), Total(debits) > 0,
           Moves(debits, credits, typed, all),
           \A a \in Accounts : debits[a] > 0 => Available(a, debits[a], typed)
    PROVE  /\ Total(debits) \in Nat
           /\ Total(debits) = Sum(credits, Accounts)
           /\ all \in [Parts -> Nat]
           /\ Sum(all, Parts) = Total(debits)
           /\ \A p \in Parts :
                 /\ NatOn([a \in Accounts |-> Taken(a, debits[a], typed, p)], Accounts)
                 /\ all[p] = Sum([a \in Accounts |-> Taken(a, debits[a], typed, p)], Accounts)
           /\ \A a \in Accounts : \A p \in Parts : Whole(all[p], credits[a], Total(debits))
  <1> DEFINE moved == Total(debits)
             took == [a \in Accounts |-> [p \in Parts |-> Taken(a, debits[a], typed, p)]]
             column(p) == [a \in Accounts |-> took[a][p]]
  <1>1. moved = Sum(debits, Accounts) /\ moved = Sum(credits, Accounts) /\ moved \in Nat
    <2>1. DOMAIN debits = Accounts /\ DOMAIN credits = Accounts /\ NatOn(debits, Accounts)
      BY DEF NatOn
    <2> QED
      BY <2>1, TotalOf, SumNat, PartsFinite
  <1>2. /\ all \in [Parts -> 0..moved]
        /\ \A p \in Parts :
              all[p] = Total([a \in Touched(debits) |-> Taken(a, debits[a], typed, p)])
        /\ \A a \in Touched(credits) : \A p \in Parts : Whole(all[p], credits[a], moved)
    BY Zenon DEF Moves
  <1>3. all \in [Parts -> Nat]
    <2> HIDE DEF moved
    <2> QED
      BY <1>1, <1>2
  <1>4. ASSUME NEW a \in Accounts
        PROVE  NatOn(took[a], Parts) /\ Sum(took[a], Parts) = debits[a]
    <2>1. \A p \in Parts : took[a][p] = Taken(a, debits[a], typed, p)
      OBVIOUS
    <2>2. debits[a] \in Nat /\ (debits[a] > 0 => Available(a, debits[a], typed))
      OBVIOUS
    <2> HIDE DEF took
    <2> QED
      BY <2>1, <2>2, TakenFacts
  <1>5. ASSUME NEW p \in Parts
        PROVE  /\ NatOn(column(p), Accounts)
               /\ all[p] = Sum(column(p), Accounts)
               /\ column(p) = [a \in Accounts |-> Taken(a, debits[a], typed, p)]
    <2> DEFINE T == Touched(debits)
               c == column(p)
               f == [a \in T |-> Taken(a, debits[a], typed, p)]
    <2>1. T \in SUBSET Accounts /\ \A a \in Accounts \ T : debits[a] = 0
      BY DEF Touched
    <2>2. \A a \in T : f[a] = c[a]
      BY <2>1
    <2>3. \A a \in Accounts \ T : c[a] = 0
      BY <2>1, TakenCases
    <2>4. DOMAIN f = T /\ all[p] = Total(f)
      BY <1>2
    <2>5. \A a \in Accounts : c[a] \in Nat
      <3>1. \A a \in Accounts : c[a] = took[a][p]
        OBVIOUS
      <3> HIDE DEF took, column, c
      <3> QED
        BY <1>4, <3>1 DEF NatOn
    <2>6. c = [a \in Accounts |-> Taken(a, debits[a], typed, p)]
      OBVIOUS
    <2> HIDE DEF T, c, f
    <2>7. Total(f) = Sum(f, T)
      BY <2>4, TotalOf
    <2>8. Sum(f, T) = Sum(c, Accounts)
      BY <2>1, <2>2, <2>3, SumElsewhere
    <2>9. NatOn(c, Accounts)
      BY <2>5 DEF NatOn
    <2> QED
      BY <2>4, <2>6, <2>7, <2>8, <2>9 DEF c
  <1>6. Sum(all, Parts) = moved
    <2>1. NatTable(took, Accounts, Parts)
      <3> HIDE DEF took
      <3> QED
        BY <1>4 DEF NatOn, NatTable
    <2>2. RowSums(debits, took, Accounts, Parts)
      BY <1>4 DEF RowSums
    <2>3. ColumnSums(all, took, Accounts, Parts)
      BY <1>5 DEF Column, ColumnSums
    <2> HIDE DEF took, column
    <2>4. Sum(debits, Accounts) = Sum(all, Parts)
      BY <2>1, <2>2, <2>3, PartsFinite, SumSwap
    <2> QED
      BY <1>1, <2>4
  <1>7. ASSUME NEW a \in Accounts, NEW p \in Parts
        PROVE  Whole(all[p], credits[a], moved)
    <2>1. CASE a \in Touched(credits)
      BY <1>2, <2>1
    <2>2. CASE a \notin Touched(credits)
      <3>1. credits[a] = 0
        BY <2>2 DEF Touched
      <3>2. all[p] \in Nat /\ moved > 0
        BY <1>3
      <3> HIDE DEF moved
      <3> QED
        BY <1>1, <3>1, <3>2, ShareNothing
    <2> QED
      BY <2>1, <2>2
  <1>8. ASSUME NEW p \in Parts
        PROVE  /\ NatOn([a \in Accounts |-> Taken(a, debits[a], typed, p)], Accounts)
               /\ all[p] = Sum([a \in Accounts |-> Taken(a, debits[a], typed, p)], Accounts)
    <2> DEFINE c == [a \in Accounts |-> Taken(a, debits[a], typed, p)]
    <2>1. column(p) = c /\ NatOn(column(p), Accounts) /\ all[p] = Sum(column(p), Accounts)
      BY <1>5
    <2> HIDE DEF took, column
    <2>2. NatOn(c, Accounts) /\ all[p] = Sum(c, Accounts)
      <3> HIDE DEF c
      <3> QED
        BY <2>1
    <2> QED
      BY <2>2
  <1> QED
    BY <1>1, <1>3, <1>6, <1>7, <1>8

\* A transition makes no material of an origin but what it loads.
LEMMA MovesMintNothing ==
    ASSUME Types, NEW debits \in [Accounts -> Nat],
           NEW typed \in Origins \cup {"none"}, NEW o \in Origins,
           \A a \in Accounts : debits[a] > 0 => Available(a, debits[a], typed),
           NEW amount \in Nat,
           NatOn([a \in Accounts |-> Taken(a, debits[a], typed, o)], Accounts),
           amount = Sum([a \in Accounts |-> Taken(a, debits[a], typed, o)], Accounts),
           NEW got, NatOn(got, Accounts), Sum(got, Accounts) = amount,
           NEW new, NatOn(new, Accounts),
           \A a \in Accounts : new[a] <= Positive(held[a][o] - Taken(a, debits[a], typed, o)) + got[a]
    PROVE  /\ Sum(new, Accounts) <= Sum([a \in Accounts |-> held[a][o]], Accounts) + LoadedBy(debits, typed, o)
           /\ LoadedBy(debits, typed, o) \in Nat
  <1> DEFINE t == [a \in Accounts |-> Taken(a, debits[a], typed, o)]
             h == [a \in Accounts |-> held[a][o]]
             r == [a \in Accounts |-> Positive(held[a][o] - Taken(a, debits[a], typed, o))]
             d == [a \in Accounts |-> IF o = typed THEN Deficit(a, o, debits[a]) ELSE 0]
  <1>1. NatOn(t, Accounts) /\ Sum(t, Accounts) = amount
    OBVIOUS
  <1>2. ASSUME NEW a \in Accounts
        PROVE  /\ h[a] \in Nat /\ r[a] \in Nat /\ d[a] \in Nat /\ t[a] \in Nat
               /\ r[a] + t[a] = h[a] + d[a]
               /\ new[a] <= r[a] + got[a]
    <2> DEFINE g == [p \in Parts |-> Taken(a, debits[a], typed, p)]
    <2>1. \A p \in Parts : g[p] = Taken(a, debits[a], typed, p)
      OBVIOUS
    <2>2. debits[a] \in Nat /\ (debits[a] > 0 => Available(a, debits[a], typed))
      OBVIOUS
    <2>3. /\ o # typed /\ o # Unknown => g[o] <= held[a][o]
          /\ typed \in Origins => g[typed] = debits[a]
      <3>1. o \in Parts
        BY PartsFinite
      <3> HIDE DEF g
      <3> QED
        BY <2>1, <2>2, <3>1, TakenFacts
    <2>4. o # Unknown /\ o \in Parts
      BY PartsFinite
    <2>5. t[a] = g[o] /\ h[a] = held[a][o] /\ r[a] = Positive(h[a] - t[a])
      BY <2>4
    <2>6. h[a] \in Nat /\ t[a] \in Nat
      BY <1>1, <2>4, <2>5 DEF NatOn, Types
    <2>7. d[a] = IF o = typed THEN Positive(debits[a] - h[a]) ELSE 0
      BY DEF Deficit
    <2>8. new[a] <= r[a] + got[a]
      OBVIOUS
    <2> HIDE DEF g, t, h, r, d
    <2>9. CASE o = typed
      <3>1. t[a] = debits[a]
        BY <2>3, <2>5, <2>9
      <3> QED
        BY <2>2, <2>5, <2>6, <2>7, <2>8, <2>9, <3>1 DEF Positive
    <2>10. CASE o # typed
      <3>1. t[a] <= h[a]
        BY <2>3, <2>4, <2>5, <2>10
      <3> QED
        BY <2>5, <2>6, <2>7, <2>8, <2>10, <3>1 DEF Positive
    <2> QED
      BY <2>9, <2>10
  <1>3. LoadedBy(debits, typed, o) = Sum(d, Accounts)
    <2>1. CASE o = typed
      <3> DEFINE e == [a \in Accounts |-> Deficit(a, o, debits[a])]
      <3>1. d = e /\ LoadedBy(debits, typed, o) = Total(e) /\ DOMAIN e = Accounts
        BY <2>1 DEF LoadedBy
      <3> HIDE DEF d, e
      <3> QED
        BY <3>1, TotalOf
    <2>2. CASE o # typed
      <3>1. \A a \in Accounts : d[a] = 0
        BY <2>2
      <3>2. LoadedBy(debits, typed, o) = 0
        BY <2>2 DEF LoadedBy
      <3> HIDE DEF d
      <3> QED
        BY <3>1, <3>2, SumZero
    <2> QED
      BY <2>1, <2>2
  <1> HIDE DEF t, h, r, d
  <1>4. NatOn(h, Accounts) /\ NatOn(r, Accounts) /\ NatOn(d, Accounts) /\ NatOn(t, Accounts)
    BY <1>2 DEF NatOn
  <1>5. Sum(r, Accounts) + Sum(t, Accounts) = Sum(h, Accounts) + Sum(d, Accounts)
    <2>1. \A a \in Accounts : r[a] + t[a] = h[a] + d[a]
      BY <1>2
    <2> QED
      BY <1>4, <2>1, PartsFinite, SumBalance
  <1>6. Sum(new, Accounts) <= Sum(r, Accounts) + Sum(got, Accounts)
    <2>1. \A a \in Accounts : new[a] <= r[a] + got[a]
      BY <1>2
    <2> QED
      BY <1>4, <2>1, PartsFinite, SumTogether
  <1>7. /\ Sum(r, Accounts) \in Nat /\ Sum(h, Accounts) \in Nat /\ Sum(d, Accounts) \in Nat
        /\ Sum(new, Accounts) \in Nat
    BY <1>4, PartsFinite, SumNat
  <1>8. Sum(new, Accounts) <= Sum(h, Accounts) + LoadedBy(debits, typed, o)
    BY <1>1, <1>3, <1>5, <1>6, <1>7
  <1> QED
    BY <1>3, <1>7, <1>8 DEF h

\* Unattributed atoms that an account gives beyond its debt are drawn from a
\* reservoir that did not have them.
LEMMA GoneIsDrawn ==
    ASSUME Types, Covered, Owed, NEW debits \in [Accounts -> Nat],
           NEW typed \in Origins \cup {"none"}, NEW a \in Accounts,
           debits[a] > 0 => Kept(a, balance[a] - debits[a]) /\ Available(a, debits[a], typed),
           NEW gone, gone = GoneOf(a, debits, typed),
           NEW backed, backed = BackedOf(a, debits, typed)
    PROVE  /\ gone \in Nat /\ backed \in Nat /\ backed <= debt[a] /\ backed <= gone
           /\ backed = Smaller(gone, debt[a])
           /\ Positive(debits[a] - Positive(balance[a])) \in Nat
           /\ a \in Reservoirs => gone - backed <= Positive(debits[a] - Positive(balance[a]))
           /\ a \notin Reservoirs => gone = backed
  <1> DEFINE g == [p \in Parts |-> Taken(a, debits[a], typed, p)]
  <1>1. \A p \in Parts : g[p] = Taken(a, debits[a], typed, p)
    OBVIOUS
  <1>2. debits[a] \in Nat /\ (debits[a] > 0 => Available(a, debits[a], typed))
    OBVIOUS
  <1>3. gone = g[Unknown] /\ Unknown \in Parts
    BY PartsFinite DEF GoneOf
  <1> HIDE DEF g
  <1>4. /\ NatOn(g, Parts)
        /\ \/ g[Unknown] <= held[a][Unknown]
           \/ debits[a] > 0 /\ typed = "none" /\ Tracked(a) = 0 /\ g[Unknown] = debits[a]
    BY <1>1, <1>2, TakenFacts
  <1>5. gone \in Nat /\ backed = Smaller(gone, debt[a]) /\ debt[a] \in Nat /\ balance[a] \in Int
    BY <1>3, <1>4 DEF NatOn, BackedOf, GoneOf, Types
  <1>6. held[a][Unknown] <= debt[a] /\ held[a][Unknown] \in Nat /\ balance[a] <= Tracked(a)
    BY <1>3 DEF Owed, Covered, Types
  <1>7. CASE gone <= held[a][Unknown]
    BY <1>2, <1>5, <1>6, <1>7 DEF Smaller, Positive
  <1>8. CASE debits[a] > 0 /\ Tracked(a) = 0 /\ gone = debits[a]
    <2>1. balance[a] <= 0 /\ Kept(a, balance[a] - debits[a])
      BY <1>6, <1>8
    <2>2. a \in Reservoirs
      BY <1>2, <1>5, <1>8, <2>1 DEF Kept
    <2>3. Positive(balance[a]) = 0 /\ Positive(debits[a] - Positive(balance[a])) = debits[a]
      BY <1>2, <1>5, <2>1 DEF Positive
    <2> QED
      BY <1>2, <1>5, <1>8, <2>2, <2>3 DEF Smaller
  <1> QED
    BY <1>3, <1>4, <1>7, <1>8

\* A transition keeps the invariant.
LEMMA ApplyStep ==
    ASSUME IInv, NEW debits \in [Accounts -> Nat], NEW credits \in [Accounts -> Nat],
           NEW typed \in Origins \cup {"none"},
           Total(debits) = Total(credits), Total(debits) > 0,
           Apply(debits, credits, typed)
    PROVE  IInv'
  <1> DEFINE moved == Total(debits)
             drawing(a) == Positive(debits[a] - Positive(balance[a]))
  <1>1. /\ \E all : Moves(debits, credits, typed, all)
        /\ \A a \in Accounts : debits[a] > 0 =>
              Kept(a, balance[a] - debits[a]) /\ Available(a, debits[a], typed)
        /\ balance' = [a \in Accounts |-> After(a, debits, credits)]
        /\ external' = [o \in Origins |-> external[o] + LoadedBy(debits, typed, o)]
        /\ drawn' = drawn + Total([a \in Reservoirs |-> drawing(a)])
    BY ApplyMoves
  <1>2. PICK all : Moves(debits, credits, typed, all)
    BY <1>1
  <1>i. Types /\ Covered /\ Owed /\ Counts /\ NoOriginMinted /\ cumulative <= Total(Initial) + drawn
    BY DEF IInv
  <1>3. /\ moved \in Nat /\ moved > 0
        /\ moved = Sum(credits, Accounts)
        /\ all \in [Parts -> Nat]
        /\ Sum(all, Parts) = moved
        /\ \A p \in Parts :
              /\ NatOn([a \in Accounts |-> Taken(a, debits[a], typed, p)], Accounts)
              /\ all[p] = Sum([a \in Accounts |-> Taken(a, debits[a], typed, p)], Accounts)
        /\ \A a \in Accounts : \A p \in Parts : Whole(all[p], credits[a], moved)
    <2>1. \A a \in Accounts : debits[a] > 0 => Available(a, debits[a], typed)
      BY <1>1
    <2> QED
      BY <1>2, <1>i, <2>1, AllFacts
  <1> DEFINE m(a) == PartsOf(a, debits[a], credits[a], typed, all, moved)
             got(p) == [a \in Accounts |-> Share(all[p], credits[a], moved)]
             backed == [a \in Accounts |-> BackedOf(a, debits, typed)]
  <1>4. /\ \A a \in Accounts : Scalable(m(a), Positive(After(a, debits, credits)))
        /\ held' = [a \in Accounts |-> Scaled(m(a), Positive(After(a, debits, credits)))]
        /\ debt' = [a \in Accounts |->
                      debt[a] - BackedOf(a, debits, typed) + Share(all[Unknown], credits[a], moved)]
        /\ cumulative' = cumulative + all[Unknown] - Total(backed)
    BY <1>2 DEF Moves
  <1> HIDE DEF moved
  <1>5. ASSUME NEW a \in Accounts
        PROVE  /\ held'[a] \in [Parts -> Nat]
               /\ \A p \in Parts : held'[a][p] <= m(a)[p]
               /\ After(a, debits, credits) <= Sum(held'[a], Parts)
               /\ After(a, debits, credits) \in Int
    <2> DEFINE n == debits[a]
               c == credits[a]
               after == After(a, debits, credits)
               parts == m(a)
               H == held'[a]
    <2>1. n \in Nat /\ c \in Nat /\ balance[a] \in Int /\ (n > 0 => Available(a, n, typed))
      BY <1>1, <1>i DEF Types
    <2>2. \A p \in Parts : Whole(all[p], c, moved)
      BY <1>3
    <2>3. after = balance[a] - n + c
      BY DEF After
    <2>4. Scalable(parts, Positive(after)) /\ H = Scaled(parts, Positive(after))
      BY <1>4
    <2>5. parts = PartsOf(a, n, c, typed, all, moved)
      OBVIOUS
    <2>6. Types /\ Covered /\ moved \in Nat /\ moved > 0 /\ all \in [Parts -> Nat] /\ Sum(all, Parts) = moved
      BY <1>3, <1>i
    <2> HIDE DEF n, c, after, parts, m, H
    <2>7. /\ H \in [Parts -> Nat]
          /\ \A p \in Parts : H[p] <= parts[p]
          /\ after <= Sum(H, Parts)
      BY <2>1, <2>2, <2>3, <2>4, <2>5, <2>6, RowFacts
    <2>8. after \in Int
      BY <2>1, <2>3
    <2> QED
      BY <2>7, <2>8 DEF H, parts, after
  <1>6. ASSUME NEW p \in Parts
        PROVE  NatOn(got(p), Accounts) /\ Sum(got(p), Accounts) = all[p]
    <2> DEFINE c == got(p)
    <2>1. \A a \in Accounts : c[a] = Share(all[p], credits[a], moved)
      OBVIOUS
    <2>2. all[p] \in Nat /\ \A a \in Accounts : Whole(all[p], credits[a], moved)
      BY <1>3
    <2> HIDE DEF c, got
    <2>3. NatOn(c, Accounts) /\ Sum(c, Accounts) = all[p]
      BY <1>3, <2>1, <2>2, ColumnFacts
    <2> QED
      BY <2>3 DEF c
  <1>7. ASSUME NEW a \in Accounts
        PROVE  /\ GoneOf(a, debits, typed) \in Nat
               /\ BackedOf(a, debits, typed) \in Nat
               /\ BackedOf(a, debits, typed) <= debt[a]
               /\ BackedOf(a, debits, typed) <= GoneOf(a, debits, typed)
               /\ BackedOf(a, debits, typed) = Smaller(GoneOf(a, debits, typed), debt[a])
               /\ drawing(a) \in Nat
               /\ a \in Reservoirs => GoneOf(a, debits, typed) - BackedOf(a, debits, typed) <= drawing(a)
               /\ a \notin Reservoirs => GoneOf(a, debits, typed) = BackedOf(a, debits, typed)
    <2>1. debits[a] > 0 => Kept(a, balance[a] - debits[a]) /\ Available(a, debits[a], typed)
      BY <1>1
    <2> QED
      BY <1>i, <2>1, GoneIsDrawn
  <1> DEFINE gone == [a \in Accounts |-> GoneOf(a, debits, typed)]
             took == [a \in Accounts |-> IF a \in Reservoirs THEN drawing(a) ELSE 0]
             give == [a \in Reservoirs |-> drawing(a)]
             arrived == got(Unknown)
             left == [a \in Accounts |-> debt[a] - BackedOf(a, debits, typed)]
  <1>8. ASSUME NEW a \in Accounts
        PROVE  /\ debt[a] \in Nat /\ backed[a] \in Nat /\ left[a] \in Nat /\ gone[a] \in Nat /\ took[a] \in Nat
               /\ arrived[a] \in Nat
               /\ debt[a] = left[a] + backed[a]
               /\ debt'[a] = left[a] + arrived[a]
               /\ gone[a] <= backed[a] + took[a]
    <2>1. debt[a] \in Nat
      BY <1>i DEF Types
    <2>2. arrived[a] = Share(all[Unknown], credits[a], moved)
      OBVIOUS
    <2>3. arrived[a] \in Nat
      <3> HIDE DEF got
      <3> QED
        BY <1>6, PartsFinite DEF NatOn
    <2>4. debt'[a] = left[a] + arrived[a]
      <3>1. debt'[a] = debt[a] - BackedOf(a, debits, typed) + Share(all[Unknown], credits[a], moved)
        BY <1>4
      <3>2. left[a] = debt[a] - BackedOf(a, debits, typed)
        OBVIOUS
      <3> HIDE DEF left, arrived
      <3> QED
        BY <2>2, <3>1, <3>2
    <2>5. /\ backed[a] = BackedOf(a, debits, typed)
          /\ gone[a] = GoneOf(a, debits, typed)
          /\ left[a] = debt[a] - BackedOf(a, debits, typed)
          /\ took[a] = IF a \in Reservoirs THEN drawing(a) ELSE 0
      OBVIOUS
    <2> HIDE DEF backed, gone, left, arrived, took, drawing
    <2> QED
      BY <1>7, <2>1, <2>3, <2>4, <2>5
  <1>9. /\ Sum(gone, Accounts) = all[Unknown] /\ Sum(arrived, Accounts) = all[Unknown]
        /\ NatOn(gone, Accounts) /\ NatOn(arrived, Accounts)
    <2>1. gone = [a \in Accounts |-> Taken(a, debits[a], typed, Unknown)]
      BY DEF GoneOf
    <2>2. Unknown \in Parts
      BY PartsFinite
    <2>3. Sum(arrived, Accounts) = all[Unknown] /\ NatOn(arrived, Accounts)
      <3> HIDE DEF got
      <3> QED
        BY <1>6, <2>2
    <2>4. NatOn(gone, Accounts) /\ all[Unknown] = Sum(gone, Accounts)
      BY <1>3, <2>1, <2>2, Zenon
    <2> QED
      BY <2>3, <2>4
  <1>10. Total(give) = Sum(took, Accounts)
    <2>1. DOMAIN give = Reservoirs /\ Reservoirs \in SUBSET Accounts
      BY LedgerAssumption
    <2>2. /\ \A a \in Reservoirs : give[a] = took[a]
          /\ \A a \in Accounts \ Reservoirs : took[a] = 0
      BY <2>1
    <2> HIDE DEF give, took
    <2>3. Total(give) = Sum(give, Reservoirs)
      BY <2>1, TotalOf
    <2>4. Sum(give, Reservoirs) = Sum(took, Accounts)
      BY <2>1, <2>2, SumElsewhere
    <2> QED
      BY <2>3, <2>4
  <1>11. Total(backed) = Sum(backed, Accounts)
    <2>1. DOMAIN backed = Accounts
      OBVIOUS
    <2> HIDE DEF backed
    <2> QED
      BY <2>1, TotalOf
  <1>12. drawn' = drawn + Total(give)
    BY <1>1
  <1>13. cumulative' = cumulative + all[Unknown] - Total(backed)
    BY <1>4
  <1>14. DOMAIN debt' = Accounts /\ debt' = [a \in Accounts |-> debt'[a]]
    BY <1>4
  <1>15. ASSUME NEW a \in Accounts
         PROVE  /\ m(a)[Unknown] = Positive(held[a][Unknown] - gone[a]) + arrived[a]
                /\ \A p \in Parts : m(a)[p] = Positive(held[a][p] - Taken(a, debits[a], typed, p)) + got(p)[a]
    <2>1. Unknown \in Parts
      BY PartsFinite
    <2> QED
      BY <2>1 DEF PartsOf, GoneOf
  <1> HIDE DEF gone, took, give, arrived, left, backed, m, drawing
  <1>16. /\ NatOn(debt, Accounts) /\ NatOn(backed, Accounts) /\ NatOn(left, Accounts)
         /\ NatOn(took, Accounts) /\ NatOn(debt', Accounts)
    BY <1>8 DEF NatOn
  <1>17. Sum(debt, Accounts) = Sum(left, Accounts) + Sum(backed, Accounts)
    <2>1. \A a \in Accounts : left[a] \in Nat /\ backed[a] \in Nat /\ debt[a] = left[a] + backed[a]
      BY <1>8
    <2> QED
      BY <2>1, PartsFinite, SumPlus
  <1>18. Sum(debt', Accounts) = Sum(left, Accounts) + Sum(arrived, Accounts)
    <2>1. \A a \in Accounts : left[a] \in Nat /\ arrived[a] \in Nat /\ debt'[a] = left[a] + arrived[a]
      BY <1>8
    <2> QED
      BY <2>1, PartsFinite, SumPlus
  <1>19. Sum(gone, Accounts) <= Sum(backed, Accounts) + Sum(took, Accounts)
    <2>1. \A a \in Accounts : gone[a] <= backed[a] + took[a]
      BY <1>8
    <2> QED
      BY <1>9, <1>16, <2>1, PartsFinite, SumTogether
  <1>20. /\ Sum(debt, Accounts) \in Nat /\ Sum(left, Accounts) \in Nat /\ Sum(backed, Accounts) \in Nat
         /\ Sum(took, Accounts) \in Nat /\ all[Unknown] \in Nat
    BY <1>3, <1>16, PartsFinite, SumNat
  <1>21. cumulative = Sum(debt, Accounts)
    <2>1. DOMAIN debt = Accounts
      BY <1>i DEF Types
    <2> QED
      BY <1>i, <2>1, TotalOf DEF Counts
  <1>22. Counts'
    <2>1. cumulative' = Sum(debt', Accounts)
      BY <1>9, <1>11, <1>13, <1>17, <1>18, <1>20, <1>21
    <2>2. Total(debt') = Sum(debt', Accounts)
      BY <1>14, TotalOf
    <2> QED
      BY <2>1, <2>2 DEF Counts
  <1>23. cumulative' \in Nat /\ drawn' \in Nat /\ (cumulative <= Total(Initial) + drawn)'
    <2>1. Total(Initial) \in Nat /\ drawn \in Nat /\ cumulative <= Total(Initial) + drawn
      <3>1. DOMAIN Initial = Accounts /\ NatOn(Initial, Accounts)
        BY LedgerAssumption DEF NatOn
      <3>2. Total(Initial) \in Nat
        BY <3>1, TotalOf, SumNat, PartsFinite
      <3> QED
        BY <1>i, <3>2 DEF Types
    <2>2. drawn' = drawn + Sum(took, Accounts)
      BY <1>10, <1>12
    <2>3. cumulative' = Sum(left, Accounts) + all[Unknown]
      BY <1>11, <1>13, <1>17, <1>20, <1>21
    <2>4. cumulative' <= Total(Initial) + drawn'
      BY <1>9, <1>17, <1>19, <1>20, <1>21, <2>1, <2>2, <2>3
    <2> QED
      BY <1>20, <2>1, <2>2, <2>3, <2>4
  <1>24. Owed'
    <2> SUFFICES ASSUME NEW a \in Accounts
                 PROVE  held'[a][Unknown] <= debt'[a]
      BY DEF Owed
    <2>1. /\ held'[a][Unknown] <= Positive(held[a][Unknown] - gone[a]) + arrived[a]
          /\ held'[a][Unknown] \in Nat /\ held[a][Unknown] \in Nat /\ held[a][Unknown] <= debt[a]
      BY <1>5, <1>15, <1>i, PartsFinite DEF Types, Owed
    <2>2. backed[a] = Smaller(gone[a], debt[a])
      BY <1>7 DEF backed, gone
    <2> QED
      BY <1>8, <2>1, <2>2 DEF Positive, Smaller
  <1>25. Covered'
    <2> SUFFICES ASSUME NEW a \in Accounts
                 PROVE  balance'[a] <= Total(held'[a])
      BY DEF Covered, Tracked
    <2>1. DOMAIN held'[a] = Parts /\ balance'[a] = After(a, debits, credits)
      BY <1>1, <1>5
    <2>2. Total(held'[a]) = Sum(held'[a], Parts)
      BY <2>1, TotalOf
    <2> QED
      BY <1>5, <2>1, <2>2
  <1>26. ASSUME NEW o \in Origins
         PROVE  /\ Sum([a \in Accounts |-> held'[a][o]], Accounts)
                     <= Sum([a \in Accounts |-> held[a][o]], Accounts) + LoadedBy(debits, typed, o)
                /\ LoadedBy(debits, typed, o) \in Nat
    <2> DEFINE new == [a \in Accounts |-> held'[a][o]]
               c == got(o)
    <2>1. o \in Parts
      BY PartsFinite
    <2>2. /\ all[o] \in Nat /\ NatOn(c, Accounts) /\ Sum(c, Accounts) = all[o]
          /\ NatOn([a \in Accounts |-> Taken(a, debits[a], typed, o)], Accounts)
          /\ all[o] = Sum([a \in Accounts |-> Taken(a, debits[a], typed, o)], Accounts)
      <3> HIDE DEF got
      <3> QED
        BY <1>3, <1>6, <2>1
    <2>3. \A a \in Accounts : new[a] <= Positive(held[a][o] - Taken(a, debits[a], typed, o)) + c[a]
      <3> SUFFICES ASSUME NEW a \in Accounts
                   PROVE  new[a] <= Positive(held[a][o] - Taken(a, debits[a], typed, o)) + c[a]
        OBVIOUS
      <3>1. new[a] = held'[a][o]
        OBVIOUS
      <3> HIDE DEF new, got
      <3> QED
        BY <1>5, <1>15, <2>1, <3>1
    <2>4. NatOn(new, Accounts)
      BY <1>5, <2>1 DEF NatOn
    <2>5. \A a \in Accounts : debits[a] > 0 => Available(a, debits[a], typed)
      BY <1>1
    <2> HIDE DEF c, new, got
    <2>6. /\ Sum(new, Accounts) <= Sum([a \in Accounts |-> held[a][o]], Accounts) + LoadedBy(debits, typed, o)
          /\ LoadedBy(debits, typed, o) \in Nat
      BY <1>i, <2>2, <2>3, <2>4, <2>5, MovesMintNothing
    <2> QED
      BY <2>6 DEF new
  <1>27. NoOriginMinted'
    <2> SUFFICES ASSUME NEW o \in Origins
                 PROVE  Total([a \in Accounts |-> held'[a][o]]) <= external'[o]
      BY DEF NoOriginMinted
    <2> DEFINE old == [a \in Accounts |-> held[a][o]]
               new == [a \in Accounts |-> held'[a][o]]
    <2>1. Sum(new, Accounts) <= Sum(old, Accounts) + LoadedBy(debits, typed, o) /\ LoadedBy(debits, typed, o) \in Nat
      BY <1>26
    <2>2. Total(old) <= external[o]
      BY <1>i DEF NoOriginMinted
    <2>3. external'[o] = external[o] + LoadedBy(debits, typed, o) /\ external[o] \in Nat
      BY <1>1, <1>i DEF Types
    <2>4. DOMAIN old = Accounts /\ DOMAIN new = Accounts /\ NatOn(old, Accounts) /\ NatOn(new, Accounts)
      BY <1>5, <1>i, PartsFinite DEF NatOn, Types
    <2> HIDE DEF old, new
    <2>5. Total(old) = Sum(old, Accounts) /\ Total(new) = Sum(new, Accounts)
      BY <2>4, TotalOf
    <2>6. Sum(old, Accounts) \in Nat /\ Sum(new, Accounts) \in Nat
      BY <2>4, PartsFinite, SumNat
    <2>7. Total(new) <= external'[o]
      BY <2>1, <2>2, <2>3, <2>5, <2>6
    <2> QED
      BY <2>7 DEF new
  <1>28. Types'
    <2>1. balance' \in [Accounts -> Int]
      BY <1>1, <1>5
    <2>2. held' \in [Accounts -> [Parts -> Nat]]
      <3> DEFINE new(a) == Scaled(m(a), Positive(After(a, debits, credits)))
      <3>1. held' = [a \in Accounts |-> new(a)]
        BY <1>4
      <3> HIDE DEF new
      <3>2. \A a \in Accounts : held'[a] \in [Parts -> Nat]
        BY <1>5
      <3> QED
        BY <3>1, <3>2
    <2>3. external' \in [Origins -> Nat]
      <3> DEFINE more(o) == LoadedBy(debits, typed, o)
      <3>1. external' = [o \in Origins |-> external[o] + more(o)]
        BY <1>1
      <3>2. \A o \in Origins : more(o) \in Nat /\ external[o] \in Nat
        BY <1>26, <1>i DEF Types
      <3> HIDE DEF more
      <3> QED
        BY <3>1, <3>2
    <2>4. debt' \in [Accounts -> Nat]
      BY <1>14, <1>16 DEF NatOn
    <2> QED
      BY <1>23, <2>1, <2>2, <2>3, <2>4 DEF Types
  <1> QED
    BY <1>22, <1>23, <1>24, <1>25, <1>27, <1>28 DEF IInv

-----------------------------------------------------------------------------
(* The other steps                                                          *)

\* The ledger starts with what it can attribute to nobody.
LEMMA InitInvariant == Init => IInv
  <1> SUFFICES ASSUME Init PROVE IInv
    OBVIOUS
  <1>1. Initial \in [Accounts -> Nat] /\ DOMAIN Initial = Accounts /\ NatOn(Initial, Accounts)
    BY LedgerAssumption DEF NatOn
  <1>2. Total(Initial) = Sum(Initial, Accounts) /\ Total(Initial) \in Nat
    BY <1>1, TotalOf, SumNat, PartsFinite
  <1>3. ASSUME NEW a \in Accounts
        PROVE  /\ held[a] \in [Parts -> Nat]
               /\ held[a][Unknown] = Initial[a] /\ \A p \in Parts \ {Unknown} : held[a][p] = 0
    BY <1>1, PartsFinite DEF Init
  <1>4. Types
    <2>1. held \in [Accounts -> [Parts -> Nat]]
      BY <1>1 DEF Init
    <2> QED
      BY <1>1, <1>2, <2>1 DEF Init, Types
  <1>5. Covered
    <2> SUFFICES ASSUME NEW a \in Accounts PROVE balance[a] <= Tracked(a)
      BY DEF Covered
    <2>1. Tracked(a) = Sum(held[a], Parts)
      BY <1>4, TrackedIsSum
    <2>2. Sum(held[a], Parts) = held[a][Unknown]
      BY <1>1, <1>3, PartsFinite, SumPoint
    <2>3. balance[a] = Initial[a] /\ Initial[a] \in Nat
      BY <1>1 DEF Init
    <2> QED
      BY <1>3, <2>1, <2>2, <2>3
  <1>6. Owed
    BY <1>1, <1>3 DEF Owed, Init
  <1>7. Counts /\ cumulative <= Total(Initial) + drawn
    BY <1>2 DEF Counts, Init
  <1>8. NoOriginMinted
    <2> SUFFICES ASSUME NEW o \in Origins
                 PROVE  Total([a \in Accounts |-> held[a][o]]) <= external[o]
      BY DEF NoOriginMinted
    <2> DEFINE f == [a \in Accounts |-> held[a][o]]
    <2>1. DOMAIN f = Accounts /\ \A a \in Accounts : f[a] = 0
      BY <1>3, PartsFinite
    <2>2. external[o] = 0
      BY DEF Init
    <2> HIDE DEF f
    <2>3. Total(f) = 0
      BY <2>1, TotalOf, SumZero
    <2>4. Total(f) <= external[o]
      BY <2>2, <2>3
    <2> QED
      BY <2>4 DEF f
  <1> QED
    BY <1>4, <1>5, <1>6, <1>7, <1>8 DEF IInv

\* A sum grows by what is added at one place.
LEMMA SumAdd ==
    ASSUME NEW S, IsFiniteSet(S), NEW f, NatOn(f, S), NEW c \in S, NEW n \in Nat,
           NEW g, \A x \in S : g[x] = IF x = c THEN f[x] + n ELSE f[x]
    PROVE  NatOn(g, S) /\ Sum(g, S) = Sum(f, S) + n
  <1> DEFINE d == [x \in S |-> IF x = c THEN n ELSE 0]
  <1>1. \A x \in S : f[x] \in Nat /\ d[x] \in Nat /\ g[x] = f[x] + d[x]
    BY DEF NatOn
  <1>2. d[c] = n /\ \A x \in S \ {c} : d[x] = 0
    OBVIOUS
  <1> HIDE DEF d
  <1>3. Sum(d, S) = n
    BY <1>2, SumPoint
  <1>4. Sum(g, S) = Sum(f, S) + Sum(d, S)
    BY <1>1, PartsFinite, SumPlus
  <1> QED
    BY <1>1, <1>3, <1>4 DEF NatOn

\* A load keeps the invariant.
LEMMA LoadStep ==
    ASSUME IInv, NEW c \in Accounts, NEW o \in Origins, NEW n \in Nat, Load(c, o, n)
    PROVE  IInv'
  <1>i. Types /\ Covered /\ Owed /\ Counts /\ NoOriginMinted /\ cumulative <= Total(Initial) + drawn
    BY DEF IInv
  <1>o. o \in Parts /\ o # Unknown /\ Unknown \in Parts
    BY PartsFinite
  <1>1. /\ \A a \in Accounts : balance'[a] = IF a = c THEN balance[a] + n ELSE balance[a]
        /\ \A a \in Accounts : \A p \in Parts :
              held'[a][p] = IF a = c /\ p = o THEN held[a][p] + n ELSE held[a][p]
        /\ \A q \in Origins : external'[q] = IF q = o THEN external[q] + n ELSE external[q]
        /\ debt' = debt /\ cumulative' = cumulative /\ drawn' = drawn
    BY <1>i, <1>o DEF Load, Types
  <1>2. Types'
    <2>1. balance' \in [Accounts -> Int] /\ external' \in [Origins -> Nat]
      BY <1>i DEF Load, Types
    <2>2. held' \in [Accounts -> [Parts -> Nat]]
      BY <1>i, <1>o DEF Load, Types
    <2> QED
      BY <1>1, <1>i, <2>1, <2>2 DEF Types
  <1>3. Covered'
    <2> SUFFICES ASSUME NEW a \in Accounts PROVE balance'[a] <= Total(held'[a])
      BY DEF Covered, Tracked
    <2>1. /\ balance[a] \in Int /\ balance[a] <= Tracked(a)
          /\ NatOn(held[a], Parts) /\ Tracked(a) = Sum(held[a], Parts) /\ Tracked(a) \in Nat
      BY <1>i, TrackedIsSum DEF Types, Covered
    <2>2. DOMAIN held'[a] = Parts
      BY <1>2 DEF Types
    <2>3. Total(held'[a]) = Sum(held'[a], Parts)
      BY <2>2, TotalOf
    <2>4. CASE a = c
      <3>1. \A p \in Parts : held'[a][p] = IF p = o THEN held[a][p] + n ELSE held[a][p]
        BY <1>1, <2>4
      <3>2. Sum(held'[a], Parts) = Sum(held[a], Parts) + n
        BY <1>o, <2>1, <3>1, PartsFinite, SumAdd
      <3>3. balance'[a] = balance[a] + n
        BY <1>1, <2>4
      <3> QED
        BY <2>1, <2>3, <3>2, <3>3
    <2>5. CASE a # c
      <3>1. \A p \in Parts : held'[a][p] = held[a][p]
        BY <1>1, <2>5
      <3>2. Sum(held'[a], Parts) = Sum(held[a], Parts)
        BY <3>1, SumSame
      <3>3. balance'[a] = balance[a]
        BY <1>1, <2>5
      <3> QED
        BY <2>1, <2>3, <3>2, <3>3
    <2> QED
      BY <2>4, <2>5
  <1>4. Owed'
    BY <1>1, <1>i, <1>o DEF Owed
  <1>5. Counts' /\ (cumulative <= Total(Initial) + drawn)'
    BY <1>1, <1>i DEF Counts
  <1>6. NoOriginMinted'
    <2> SUFFICES ASSUME NEW q \in Origins
                 PROVE  Total([a \in Accounts |-> held'[a][q]]) <= external'[q]
      BY DEF NoOriginMinted
    <2> DEFINE old == [a \in Accounts |-> held[a][q]]
               new == [a \in Accounts |-> held'[a][q]]
    <2>1. Total(old) <= external[q]
      BY <1>i DEF NoOriginMinted
    <2>2. q \in Parts
      BY PartsFinite
    <2>3. DOMAIN old = Accounts /\ DOMAIN new = Accounts /\ NatOn(old, Accounts) /\ external[q] \in Nat
      BY <1>i, <2>2 DEF NatOn, Types
    <2>4. \A a \in Accounts : new[a] = IF a = c /\ q = o THEN old[a] + n ELSE old[a]
      BY <1>1, <2>2
    <2> HIDE DEF old, new
    <2>5. Total(old) = Sum(old, Accounts) /\ Total(new) = Sum(new, Accounts) /\ Sum(old, Accounts) \in Nat
      BY <2>3, TotalOf, SumNat, PartsFinite
    <2>6. CASE q = o
      <3>1. \A a \in Accounts : new[a] = IF a = c THEN old[a] + n ELSE old[a]
        BY <2>4, <2>6
      <3>2. Sum(new, Accounts) = Sum(old, Accounts) + n
        BY <2>3, <3>1, PartsFinite, SumAdd
      <3>3. external'[q] = external[q] + n
        BY <1>1, <2>6
      <3>4. Total(new) <= external'[q]
        BY <2>1, <2>3, <2>5, <3>2, <3>3
      <3> QED
        BY <3>4 DEF new
    <2>7. CASE q # o
      <3>1. \A a \in Accounts : new[a] = old[a]
        BY <2>4, <2>7
      <3>2. Sum(new, Accounts) = Sum(old, Accounts)
        BY <3>1, SumSame
      <3>3. external'[q] = external[q]
        BY <1>1, <2>7
      <3>4. Total(new) <= external'[q]
        BY <2>1, <2>5, <3>2, <3>3
      <3> QED
        BY <3>4 DEF new
    <2> QED
      BY <2>6, <2>7
  <1> QED
    BY <1>2, <1>3, <1>4, <1>5, <1>6 DEF IInv

\* Lots are amounts per account, and some account's is not zero.
LEMMA LotsFacts ==
    ASSUME NEW f \in Lots
    PROVE  f \in [Accounts -> Nat] /\ Total(f) > 0
  <1>1. f \in [Accounts -> Nat]
    <2>1. f \in [Accounts -> Amounts \cup {0}]
      BY DEF Lots
    <2>2. Amounts \cup {0} \subseteq Nat
      BY LedgerAssumption
    <2> QED
      BY <2>1, <2>2
  <1>2. DOMAIN f = Accounts /\ NatOn(f, Accounts) /\ \A x \in Accounts : f[x] \in Nat
    BY <1>1 DEF NatOn
  <1>3. Touched(f) # {}
    <2>1. Cardinality(Touched(f)) \in 1..(MaxLots - 1)
      BY DEF Lots
    <2>2. Cardinality({}) = 0
      BY FS_EmptySet
    <2>3. Cardinality(Touched(f)) # 0
      BY <2>1, LedgerAssumption
    <2> QED
      BY <2>2, <2>3
  <1>4. PICK a \in Accounts : f[a] # 0
    BY <1>2, <1>3 DEF Touched
  <1>5. f[a] <= Sum(f, Accounts)
    BY <1>2, PartsFinite, SumCovers
  <1>6. Total(f) = Sum(f, Accounts) /\ Sum(f, Accounts) \in Nat
    BY <1>2, TotalOf, SumNat, PartsFinite
  <1> QED
    BY <1>1, <1>2, <1>4, <1>5, <1>6

\* One lot: an amount at one account.
LEMMA LotFacts ==
    ASSUME NEW a \in Accounts, NEW n \in Nat, NEW f, f = [c \in Accounts |-> IF c = a THEN n ELSE 0]
    PROVE  f \in [Accounts -> Nat] /\ Total(f) = n
  <1>1. f \in [Accounts -> Nat] /\ DOMAIN f = Accounts
    OBVIOUS
  <1>2. f[a] = n /\ \A x \in Accounts \ {a} : f[x] = 0
    OBVIOUS
  <1>3. Total(f) = Sum(f, Accounts)
    BY <1>1, TotalOf
  <1>4. Sum(f, Accounts) = n
    BY <1>2, SumPoint
  <1> QED
    BY <1>1, <1>3, <1>4

\* A move keeps the invariant.
LEMMA MoveStep ==
    ASSUME IInv, NEW a \in Accounts, NEW b \in Accounts, NEW n \in Amounts,
           NEW typed \in Origins \cup {"none"}, NEW amalgamated, Move(a, b, n, typed, amalgamated)
    PROVE  IInv'
  <1> DEFINE debits == [c \in Accounts |-> IF c = a THEN n ELSE 0]
             credits == [c \in Accounts |-> IF c = b THEN n ELSE 0]
  <1>1. Apply(debits, credits, typed)
    BY Zenon DEF Move
  <1>2. n \in Nat /\ n > 0
    BY LedgerAssumption
  <1>3. /\ debits \in [Accounts -> Nat] /\ Total(debits) = n
        /\ credits \in [Accounts -> Nat] /\ Total(credits) = n
    BY <1>2, LotFacts
  <1> HIDE DEF debits, credits
  <1> QED
    BY <1>1, <1>2, <1>3, ApplyStep

\* Every step keeps the invariant.
LEMMA NextInvariant == IInv /\ [Next]_vars => IInv'
  <1> SUFFICES ASSUME IInv, [Next]_vars PROVE IInv'
    OBVIOUS
  <1>1. ASSUME NEW l \in Loads, Load(l[1], l[2], l[3])
        PROVE  IInv'
    <2>1. l[1] \in Accounts /\ l[2] \in Origins /\ l[3] \in Nat
      BY LedgerAssumption
    <2> QED
      BY <1>1, <2>1, LoadStep
  <1>2. ASSUME NEW t \in Balanced, NEW typed \in Origins \cup {"none"},
               Transfer(t[1], t[2], typed)
        PROVE  IInv'
    <2>1. t[1] \in Lots /\ t[2] \in Lots /\ Total(t[1]) = Total(t[2])
      BY DEF Balanced
    <2>2. Apply(t[1], t[2], typed)
      BY <1>2 DEF Transfer
    <2>3. /\ t[1] \in [Accounts -> Nat] /\ t[2] \in [Accounts -> Nat] /\ Total(t[1]) > 0
      BY <2>1, LotsFacts
    <2> QED
      BY <2>1, <2>2, <2>3, ApplyStep
  <1>3. ASSUME NEW a \in Accounts, NEW b \in Accounts, NEW n \in Amounts,
               NEW amalgamated \in BOOLEAN, Move(a, b, n, "none", amalgamated)
        PROVE  IInv'
    <2>1. "none" \in Origins \cup {"none"}
      OBVIOUS
    <2> QED
      BY <1>3, <2>1, MoveStep
  <1>4. ASSUME NEW d \in Drawn, NEW b \in Accounts, NEW n \in Amounts, Move(d[1], b, n, d[2], FALSE)
        PROVE  IInv'
    <2>1. d[1] \in Accounts /\ d[2] \in Origins \cup {"none"}
      BY LedgerAssumption
    <2> QED
      BY <1>4, <2>1, MoveStep
  <1>5. CASE UNCHANGED vars
    <2>1. /\ balance' = balance /\ held' = held /\ external' = external /\ debt' = debt
          /\ cumulative' = cumulative /\ drawn' = drawn
      BY <1>5 DEF vars
    <2> QED
      BY <2>1 DEF IInv, Types, Covered, Tracked, Owed, Counts, NoOriginMinted
  <1> QED
    BY <1>1, <1>2, <1>3, <1>4, <1>5 DEF Next

\* The invariant bounds the count from both sides.
LEMMA InvariantCounts == IInv => CountedOnce
  <1> SUFFICES ASSUME IInv PROVE CountedOnce
    OBVIOUS
  <1> DEFINE u == [a \in Accounts |-> held[a][Unknown]]
  <1>1. Types /\ Owed /\ Counts /\ cumulative <= Total(Initial) + drawn
    BY DEF IInv
  <1>2. \A a \in Accounts : u[a] \in Nat /\ debt[a] \in Nat /\ u[a] <= debt[a]
    BY <1>1, PartsFinite DEF Types, Owed
  <1>3. DOMAIN u = Accounts /\ DOMAIN debt = Accounts
    BY <1>1 DEF Types
  <1> HIDE DEF u
  <1>4. Sum(u, Accounts) <= Sum(debt, Accounts)
    BY <1>2, PartsFinite, SumMonotone
  <1>5. Total(u) = Sum(u, Accounts) /\ Total(debt) = Sum(debt, Accounts)
    BY <1>3, TotalOf
  <1>6. Total(u) <= cumulative
    BY <1>1, <1>4, <1>5 DEF Counts
  <1> QED
    BY <1>1, <1>6 DEF CountedOnce, u

-----------------------------------------------------------------------------

\* Every reachable ledger satisfies the inductive invariant.
THEOREM LedgerInvariant == Spec => []IInv
  <1> QED
    BY InitInvariant, NextInvariant, PTL DEF Spec

\* However material is split, pooled, overdrawn and scaled, no more of an
\* origin is held than was loaded of it (ledger.py 834, 2088).
THEOREM NoOriginMintedHolds == Spec => []NoOriginMinted
  <1>1. IInv => NoOriginMinted
    BY DEF IInv
  <1> QED
    BY <1>1, LedgerInvariant, PTL

\* The run's count of atoms nobody can attribute covers what the accounts
\* hold of them and counts none of them twice (ledger.py 1985, 637).
THEOREM CountedOnceHolds == Spec => []CountedOnce
  <1> QED
    BY InvariantCounts, LedgerInvariant, PTL
=============================================================================
