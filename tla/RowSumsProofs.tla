--------------------------- MODULE RowSumsProofs ---------------------------
(***************************************************************************)
(* What the sum over a column is, for every finite set of rows: it exists,  *)
(* does not depend on the order in which rows are added, and moves by what  *)
(* one row moves.  The proofs about the books of the ledgers, the wallet    *)
(* and the storage account rest on these facts.                             *)
(*                                                                         *)
(* Induction over a finite set is by a smallest counterexample: strict      *)
(* inclusion is well founded on finite sets (MinimalSet).                   *)
(***************************************************************************)
EXTENDS RowSums, FiniteSetTheorems, WellFoundedInduction, TLAPS

\* The leaves are first-order; one that needs arithmetic names the SMT solver.
USE Zenon

\* The element that the fold of SumFunctionOnSet takes out first.
Pick(T) == CHOOSE x \in T : TRUE

\* The entry of T in a table g of partial sums.
SumStep(f, g, T) == IF T = {} THEN 0 ELSE f[Pick(T)] + g[T \ {Pick(T)}]

\* g is the table of partial sums of f over the subsets of U.
IsSum(f, g, U) == g = [T \in SUBSET U |-> SumStep(f, g, T)]

\* A sum is the last entry of its table.
LEMMA SumOfDef ==
  ASSUME NEW f, NEW S
  PROVE  SumOf(f, S) = (CHOOSE g : IsSum(f, g, S))[S]
BY DEF SumOf, SumFunctionOnSet, FoldFunctionOnSet, MapThenFoldSet, IsSum, SumStep, Pick

\* Every family of subsets of a finite set has a smallest member.
LEMMA MinimalSet ==
  ASSUME NEW S, IsFiniteSet(S), NEW Family \in SUBSET SUBSET S, Family # {}
  PROVE  \E T \in Family : \A U \in Family : U \subseteq T => U = T
<1>1. IsWellFoundedOn(StrictSubsetOrdering(S), SUBSET S)
  BY FS_StrictSubsetOrderingWellFounded, FS_FiniteSubsetsOfFinite
<1>2. \E T \in Family : \A U \in Family : ~ (<<U, T>> \in StrictSubsetOrdering(S))
  BY <1>1, WFMin
<1>3. QED
  BY <1>2 DEF StrictSubsetOrdering

\* Two tables agree where both are defined: the entry of T only looks at smaller sets.
LEMMA SumUnique ==
  ASSUME NEW f, NEW g, NEW h, NEW U, NEW V, IsFiniteSet(U),
         IsSum(f, g, U), IsSum(f, h, V), NEW T \in SUBSET U, T \in SUBSET V
  PROVE  g[T] = h[T]
<1> DEFINE Bad == {W \in SUBSET U : W \in SUBSET V /\ g[W] # h[W]}
<1> SUFFICES ASSUME Bad # {} PROVE FALSE
  OBVIOUS
<1>s. Bad \in SUBSET SUBSET U
  OBVIOUS
<1> HIDE DEF Bad
<1>2. PICK W \in Bad : \A X \in Bad : X \subseteq W => X = W
  BY <1>s, MinimalSet, SMT
<1> USE DEF Bad
<1>3. W \in SUBSET U /\ W \in SUBSET V /\ g[W] # h[W]
  OBVIOUS
<1>4. g[W] = SumStep(f, g, W) /\ h[W] = SumStep(f, h, W)
  <2>1. g = [X \in SUBSET U |-> SumStep(f, g, X)] /\ h = [X \in SUBSET V |-> SumStep(f, h, X)]
    BY DEF IsSum
  <2>2. [X \in SUBSET U |-> SumStep(f, g, X)][W] = SumStep(f, g, W)
    BY <1>3
  <2>3. [X \in SUBSET V |-> SumStep(f, h, X)][W] = SumStep(f, h, W)
    BY <1>3
  <2>4. QED
    BY <2>1, <2>2, <2>3, Zenon
<1>5. W # {} => g[W \ {Pick(W)}] = h[W \ {Pick(W)}]
  <2> HAVE W # {}
  <2>1. Pick(W) \in W
    BY DEF Pick
  <2>2. W \ {Pick(W)} \in SUBSET U /\ W \ {Pick(W)} \in SUBSET V /\ W \ {Pick(W)} # W
        /\ W \ {Pick(W)} \subseteq W
    BY <1>3, <2>1
  <2>3. QED
    BY <1>2, <2>2
<1>6. QED
  BY <1>3, <1>4, <1>5, Zenon DEF SumStep

\* A table of partial sums exists for every finite set.
LEMMA SumExists ==
  ASSUME NEW f, NEW S, IsFiniteSet(S)
  PROVE  \E g : IsSum(f, g, S)
<1> DEFINE Bad == {W \in SUBSET S : ~ \E g : IsSum(f, g, W)}
<1> SUFFICES ASSUME Bad # {} PROVE FALSE
  OBVIOUS
<1>s. Bad \in SUBSET SUBSET S
  OBVIOUS
<1> HIDE DEF Bad
<1>2. PICK W \in Bad : \A X \in Bad : X \subseteq W => X = W
  BY <1>s, MinimalSet, SMT
<1> USE DEF Bad
<1> DEFINE Table(V) == CHOOSE g : IsSum(f, g, V)
           Below(V) == V \ {Pick(V)}
           h == [V \in SUBSET W |-> IF V = {} THEN 0 ELSE f[Pick(V)] + Table(Below(V))[Below(V)]]
<1>3. \A V \in SUBSET W : V # W => IsSum(f, Table(V), V)
  BY <1>2
<1>4. \A V \in SUBSET W : V # {} => /\ Below(V) \in SUBSET W /\ Below(V) # W
                                     /\ IsFiniteSet(Below(V)) /\ Below(V) \subseteq V
  <2> TAKE V \in SUBSET W
  <2> HAVE V # {}
  <2>1. Pick(V) \in V
    BY DEF Pick
  <2>2. Below(V) \in SUBSET S
    OBVIOUS
  <2>3. QED
    BY <2>1, <2>2, FS_Subset
<1>5. \A V \in SUBSET W : V # {} => h[Below(V)] = Table(Below(V))[Below(V)]
  <2> SUFFICES ASSUME NEW V \in SUBSET W, V # {}
               PROVE  h[Below(V)] = Table(Below(V))[Below(V)]
    OBVIOUS
  <2> DEFINE X == Below(V)
  <2>1. X \in SUBSET W /\ X # W /\ IsSum(f, Table(X), X) /\ IsFiniteSet(X)
    BY <1>3, <1>4
  <2> HIDE DEF X, Table
  <2>2. Table(X)[X] = SumStep(f, Table(X), X)
    <3>1. Table(X) = [Y \in SUBSET X |-> SumStep(f, Table(X), Y)]
      BY <2>1 DEF IsSum
    <3>2. [Y \in SUBSET X |-> SumStep(f, Table(X), Y)][X] = SumStep(f, Table(X), X)
      OBVIOUS
    <3>3. QED
      BY <3>1, <3>2, Zenon
  <2>3. X # {} => Table(X)[Below(X)] = Table(Below(X))[Below(X)]
    <3> HAVE X # {}
    <3>1. Below(X) \in SUBSET X /\ Below(X) \in SUBSET W /\ Below(X) # W
          /\ IsSum(f, Table(Below(X)), Below(X)) /\ Below(X) \in SUBSET Below(X)
      BY <1>3, <1>4, <2>1
    <3> HIDE DEF Below
    <3>2. QED
      BY <2>1, <3>1, SumUnique, SMT
  <2>4. h[X] = IF X = {} THEN 0 ELSE f[Pick(X)] + Table(Below(X))[Below(X)]
    BY <2>1
  <2>5. QED
    BY <2>2, <2>3, <2>4, Zenon DEF SumStep, X
<1>6. IsSum(f, h, W)
  <2>1. \A V \in SUBSET W : h[V] = SumStep(f, h, V)
    <3> TAKE V \in SUBSET W
    <3>1. h[V] = IF V = {} THEN 0 ELSE f[Pick(V)] + Table(Below(V))[Below(V)]
      OBVIOUS
    <3> HIDE DEF h, Table
    <3>2. QED
      BY <1>5, <3>1, Zenon DEF SumStep
  <2>2. h = [V \in SUBSET W |-> h[V]]
    BY SMT
  <2> HIDE DEF h
  <2>3. QED
    BY <2>1, <2>2 DEF IsSum
<1>7. QED
  BY <1>6


\* The sum of a set is the entry of any table that covers it.
LEMMA SumFromTable ==
  ASSUME NEW f, NEW g, NEW S, IsFiniteSet(S), IsSum(f, g, S), NEW T \in SUBSET S
  PROVE  SumOf(f, T) = g[T]
<1> DEFINE h == CHOOSE t : IsSum(f, t, T)
<1>1. IsFiniteSet(T)
  BY FS_Subset
<1>2. IsSum(f, h, T)
  BY <1>1, SumExists
<1>3. SumOf(f, T) = h[T]
  BY SumOfDef
<1> HIDE DEF h
<1>4. T \in SUBSET T
  OBVIOUS
<1>5. h[T] = g[T]
  BY <1>1, <1>2, <1>4, SumUnique, SMT
<1>6. QED
  BY <1>3, <1>5

\* The sum over nothing is zero, and any other sum takes one element out.
LEMMA SumRecursion ==
  ASSUME NEW f, NEW S, IsFiniteSet(S)
  PROVE  /\ S = {} => SumOf(f, S) = 0
         /\ S # {} => /\ Pick(S) \in S
                      /\ SumOf(f, S) = f[Pick(S)] + SumOf(f, S \ {Pick(S)})
<1>1. PICK g : IsSum(f, g, S)
  BY SumExists
<1>2. S \in SUBSET S /\ S \ {Pick(S)} \in SUBSET S
  OBVIOUS
<1>3. SumOf(f, S) = g[S] /\ SumOf(f, S \ {Pick(S)}) = g[S \ {Pick(S)}]
  BY <1>1, <1>2, SumFromTable, ZenonT(40)
<1>4. g[S] = SumStep(f, g, S)
  <2>1. g = [X \in SUBSET S |-> SumStep(f, g, X)]
    BY <1>1 DEF IsSum
  <2>2. [X \in SUBSET S |-> SumStep(f, g, X)][S] = SumStep(f, g, S)
    OBVIOUS
  <2>3. QED
    BY <2>1, <2>2, Zenon
<1>5. S # {} => Pick(S) \in S
  BY DEF Pick
<1>6. QED
  BY <1>3, <1>4, <1>5, Zenon DEF SumStep

\* The sum over the empty set.
LEMMA SumEmpty == \A f : SumOf(f, {}) = 0
BY SumRecursion, FS_EmptySet

\* Sums of integers are integers.
LEMMA SumInt ==
  ASSUME NEW f, NEW S, IsFiniteSet(S), \A x \in S : f[x] \in Int
  PROVE  SumOf(f, S) \in Int
<1> DEFINE Bad == {W \in SUBSET S : SumOf(f, W) \notin Int}
<1> SUFFICES ASSUME Bad # {} PROVE FALSE
  OBVIOUS
<1>1. Bad \in SUBSET SUBSET S
  OBVIOUS
<1> HIDE DEF Bad
<1>2. PICK W \in Bad : \A X \in Bad : X \subseteq W => X = W
  BY <1>1, MinimalSet, SMT
<1> USE DEF Bad
<1>3. IsFiniteSet(W) /\ W \in SUBSET S
  BY FS_Subset
<1>4. W # {}
  BY SumEmpty, SMT
<1>5. Pick(W) \in W /\ SumOf(f, W) = f[Pick(W)] + SumOf(f, W \ {Pick(W)})
  BY <1>3, <1>4, SumRecursion
<1>6. SumOf(f, W \ {Pick(W)}) \in Int
  BY <1>2, <1>3, <1>5, SMT
<1>7. QED
  BY <1>3, <1>5, <1>6, SMT

\* Any element may be taken out first: addition commutes.
LEMMA SumRemove ==
  ASSUME NEW f, NEW S, IsFiniteSet(S), \A x \in S : f[x] \in Int, NEW a \in S
  PROVE  SumOf(f, S) = f[a] + SumOf(f, S \ {a})
<1> DEFINE Bad == {W \in SUBSET S : \E b \in W : SumOf(f, W) # f[b] + SumOf(f, W \ {b})}
<1> SUFFICES ASSUME Bad # {} PROVE FALSE
  OBVIOUS
<1>1. Bad \in SUBSET SUBSET S
  OBVIOUS
<1> HIDE DEF Bad
<1>2. PICK W \in Bad : \A X \in Bad : X \subseteq W => X = W
  BY <1>1, MinimalSet, SMT
<1> USE DEF Bad
<1>3. PICK b \in W : SumOf(f, W) # f[b] + SumOf(f, W \ {b})
  OBVIOUS
<1> DEFINE x == Pick(W)
<1>4. IsFiniteSet(W) /\ W \in SUBSET S
  BY FS_Subset
<1>5. x \in W /\ SumOf(f, W) = f[x] + SumOf(f, W \ {x})
  BY <1>3, <1>4, SumRecursion
<1> HIDE DEF x
<1>6. x # b
  BY <1>3, <1>5
<1> DEFINE rest == (W \ {x}) \ {b}
<1>7. SumOf(f, W \ {x}) = f[b] + SumOf(f, rest)
  BY <1>2, <1>4, <1>5, <1>6
<1>8. (W \ {b}) \ {x} = rest /\ rest \in SUBSET S
  BY <1>4
<1>9. SumOf(f, W \ {b}) = f[x] + SumOf(f, (W \ {b}) \ {x})
  BY <1>2, <1>4, <1>5, <1>6
<1> HIDE DEF rest
<1>10. SumOf(f, W \ {b}) = f[x] + SumOf(f, rest)
  BY <1>8, <1>9
<1>11. SumOf(f, rest) \in Int /\ f[x] \in Int /\ f[b] \in Int
  BY <1>4, <1>5, <1>8, SumInt, FS_Subset
<1>12. f[x] + (f[b] + SumOf(f, rest)) = f[b] + (f[x] + SumOf(f, rest))
  BY <1>11, SMT
<1>13. QED
  BY <1>3, <1>5, <1>7, <1>10, <1>12

\* A new element adds its amount.
LEMMA SumAdd ==
  ASSUME NEW f, NEW S, IsFiniteSet(S), NEW a, a \notin S, \A x \in S \cup {a} : f[x] \in Int
  PROVE  SumOf(f, S \cup {a}) = SumOf(f, S) + f[a]
<1>1. IsFiniteSet(S \cup {a}) /\ a \in S \cup {a} /\ (S \cup {a}) \ {a} = S
  BY FS_AddElement
<1>2. SumOf(f, S \cup {a}) = f[a] + SumOf(f, S)
  BY <1>1, SumRemove, SMT
<1>3. SumOf(f, S) \in Int /\ f[a] \in Int
  BY SumInt
<1>4. QED
  BY <1>2, <1>3, SMT

\* Rows that agree have the same sum.
LEMMA SumEqual ==
  ASSUME NEW f, NEW g, NEW S, IsFiniteSet(S), \A x \in S : f[x] = g[x]
  PROVE  SumOf(f, S) = SumOf(g, S)
<1> DEFINE Bad == {W \in SUBSET S : SumOf(f, W) # SumOf(g, W)}
<1> SUFFICES ASSUME Bad # {} PROVE FALSE
  OBVIOUS
<1>1. Bad \in SUBSET SUBSET S
  OBVIOUS
<1> HIDE DEF Bad
<1>2. PICK W \in Bad : \A X \in Bad : X \subseteq W => X = W
  BY <1>1, MinimalSet, SMT
<1> USE DEF Bad
<1>3. IsFiniteSet(W) /\ W \in SUBSET S
  BY FS_Subset
<1>4. W # {}
  BY SumEmpty
<1>5. /\ Pick(W) \in W
      /\ SumOf(f, W) = f[Pick(W)] + SumOf(f, W \ {Pick(W)})
      /\ SumOf(g, W) = g[Pick(W)] + SumOf(g, W \ {Pick(W)})
  BY <1>3, <1>4, SumRecursion
<1>6. SumOf(f, W \ {Pick(W)}) = SumOf(g, W \ {Pick(W)})
  BY <1>2, <1>3, <1>5, SMT
<1>7. SumOf(f, W) # SumOf(g, W) /\ f[Pick(W)] = g[Pick(W)]
  BY <1>3, <1>5
<1>8. QED
  BY <1>5, <1>6, <1>7, Zenon

\* Changing one row changes the sum by as much.
LEMMA SumUpdate ==
  ASSUME NEW f, NEW g, NEW S, IsFiniteSet(S), NEW a \in S,
         \A x \in S : f[x] \in Int /\ g[x] \in Int,
         \A x \in S \ {a} : f[x] = g[x]
  PROVE  SumOf(g, S) = SumOf(f, S) - f[a] + g[a]
<1>1. IsFiniteSet(S \ {a}) /\ S \ {a} \in SUBSET S
  BY FS_Subset
<1>2. SumOf(f, S) = f[a] + SumOf(f, S \ {a}) /\ SumOf(g, S) = g[a] + SumOf(g, S \ {a})
  BY SumRemove, SMT
<1>3. SumOf(f, S \ {a}) = SumOf(g, S \ {a})
  BY <1>1, SumEqual
<1>4. SumOf(f, S \ {a}) \in Int /\ f[a] \in Int /\ g[a] \in Int
  BY <1>1, SumInt
<1>5. QED
  BY <1>2, <1>3, <1>4, SMT

\* Sums of natural numbers are natural numbers, and a part is no more than the whole.
LEMMA SumNat ==
  ASSUME NEW f, NEW S, IsFiniteSet(S), \A x \in S : f[x] \in Nat
  PROVE  SumOf(f, S) \in Nat
<1> DEFINE Bad == {W \in SUBSET S : SumOf(f, W) \notin Nat}
<1> SUFFICES ASSUME Bad # {} PROVE FALSE
  OBVIOUS
<1>1. Bad \in SUBSET SUBSET S
  OBVIOUS
<1> HIDE DEF Bad
<1>2. PICK W \in Bad : \A X \in Bad : X \subseteq W => X = W
  BY <1>1, MinimalSet, SMT
<1> USE DEF Bad
<1>3. IsFiniteSet(W) /\ W \in SUBSET S
  BY FS_Subset
<1>4. W # {}
  BY SumEmpty, SMT
<1>5. Pick(W) \in W /\ SumOf(f, W) = f[Pick(W)] + SumOf(f, W \ {Pick(W)})
  BY <1>3, <1>4, SumRecursion
<1>6. SumOf(f, W \ {Pick(W)}) \in Nat
  BY <1>2, <1>3, <1>5, SMT
<1>7. QED
  BY <1>3, <1>5, <1>6, SMT


\* The sum over a set is the sum over a part of it and over the rest.
LEMMA SumSplit ==
  ASSUME NEW f, NEW S, IsFiniteSet(S), \A x \in S : f[x] \in Int, NEW T \in SUBSET S
  PROVE  SumOf(f, S) = SumOf(f, T) + SumOf(f, S \ T)
<1> DEFINE Bad == {W \in SUBSET S : SumOf(f, S) # SumOf(f, W) + SumOf(f, S \ W)}
<1> SUFFICES ASSUME Bad # {} PROVE FALSE
  OBVIOUS
<1>1. Bad \in SUBSET SUBSET S
  OBVIOUS
<1> HIDE DEF Bad
<1>2. PICK W \in Bad : \A X \in Bad : X \subseteq W => X = W
  BY <1>1, MinimalSet, SMT
<1> USE DEF Bad
<1>3. W \in SUBSET S /\ IsFiniteSet(W) /\ SumOf(f, S) # SumOf(f, W) + SumOf(f, S \ W)
  BY FS_Subset
<1>4. W # {}
  BY <1>3, SumEmpty, SumInt, SMT
<1>5. PICK b \in W : TRUE
  BY <1>4
<1> DEFINE X == W \ {b}
<1>6. X \in SUBSET S /\ S \ W \in SUBSET S /\ S \ X = (S \ W) \cup {b} /\ b \notin S \ W
  BY <1>3
<1>7. IsFiniteSet(X) /\ IsFiniteSet(S \ W)
  BY <1>6, FS_Subset
<1>8. SumOf(f, W) = f[b] + SumOf(f, X)
  BY <1>3, SumRemove, SMT
<1>9. SumOf(f, S \ X) = SumOf(f, S \ W) + f[b]
  BY <1>3, <1>6, <1>7, SumAdd
<1>10. SumOf(f, S) = SumOf(f, X) + SumOf(f, S \ X)
  BY <1>2, <1>6
<1>11. SumOf(f, X) \in Int /\ SumOf(f, S \ W) \in Int /\ f[b] \in Int
  BY <1>3, <1>6, <1>7, SumInt
<1> HIDE DEF X
<1>12. QED
  BY <1>3, <1>8, <1>9, <1>10, <1>11, SMT

\* A part of a sum of natural numbers is no more than the whole.
LEMMA SumPart ==
  ASSUME NEW f, NEW S, IsFiniteSet(S), \A x \in S : f[x] \in Nat, NEW T \in SUBSET S
  PROVE  SumOf(f, T) \in Nat /\ SumOf(f, T) <= SumOf(f, S)
<1>1. IsFiniteSet(T) /\ S \ T \in SUBSET S /\ IsFiniteSet(S \ T)
  BY FS_Subset
<1>2. SumOf(f, T) \in Nat /\ SumOf(f, S \ T) \in Nat
  BY <1>1, SumNat
<1>3. SumOf(f, S) = SumOf(f, T) + SumOf(f, S \ T)
  BY SumSplit, SMT
<1>4. QED
  BY <1>2, <1>3, SMT

\* So is one element.
LEMMA SumElement ==
  ASSUME NEW f, NEW S, IsFiniteSet(S), \A x \in S : f[x] \in Nat, NEW a \in S
  PROVE  f[a] <= SumOf(f, S)
<1>1. IsFiniteSet(S \ {a}) /\ S \ {a} \in SUBSET S
  BY FS_Subset
<1>2. SumOf(f, S \ {a}) \in Nat /\ f[a] \in Nat
  BY <1>1, SumNat
<1>3. SumOf(f, S) = f[a] + SumOf(f, S \ {a})
  BY SumRemove, SMT
<1>4. QED
  BY <1>2, <1>3, SMT

\* A column of zeros adds up to zero.
LEMMA SumZero ==
  ASSUME NEW f, NEW S, IsFiniteSet(S), \A x \in S : f[x] = 0
  PROVE  SumOf(f, S) = 0
<1> DEFINE Bad == {W \in SUBSET S : SumOf(f, W) # 0}
<1> SUFFICES ASSUME Bad # {} PROVE FALSE
  OBVIOUS
<1>1. Bad \in SUBSET SUBSET S
  OBVIOUS
<1> HIDE DEF Bad
<1>2. PICK W \in Bad : \A U \in Bad : U \subseteq W => U = W
  BY <1>1, MinimalSet, SMT
<1> USE DEF Bad
<1>3. W \in SUBSET S /\ SumOf(f, W) # 0 /\ IsFiniteSet(W)
  BY <1>2, FS_Subset
<1>4. /\ Pick(W) \in W /\ SumOf(f, W) = f[Pick(W)] + SumOf(f, W \ {Pick(W)})
  BY <1>3, SumRecursion
<1>5. W \ {Pick(W)} \notin Bad
  BY <1>2, <1>4
<1>6. SumOf(f, W \ {Pick(W)}) = 0 /\ f[Pick(W)] = 0
  BY <1>3, <1>4, <1>5
<1> QED
  BY <1>3, <1>4, <1>6, SMT

\* Rows outside a selection may be counted as zero instead of being left out.
LEMMA SumSelect ==
  ASSUME NEW f, NEW g, NEW S, IsFiniteSet(S), \A x \in S : g[x] \in Int, NEW T \in SUBSET S,
         \A x \in T : f[x] = g[x], \A x \in S \ T : g[x] = 0
  PROVE  SumOf(f, T) = SumOf(g, S)
<1> DEFINE R == S \ T
<1>1. IsFiniteSet(T) /\ R \in SUBSET S /\ IsFiniteSet(R)
  BY FS_Subset
<1>2. SumOf(g, S) = SumOf(g, T) + SumOf(g, R)
  BY SumSplit, SMT
<1>3. \A x \in R : g[x] = 0
  OBVIOUS
<1> HIDE DEF R
<1>4. SumOf(g, R) = 0
  BY <1>1, <1>3, SumZero
<1>5. SumOf(f, T) = SumOf(g, T) /\ SumOf(g, T) \in Int
  BY <1>1, SumEqual, SumInt
<1> QED
  BY <1>2, <1>4, <1>5, SMT

=============================================================================
