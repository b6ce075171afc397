-------------------------------- MODULE Sums --------------------------------
(***************************************************************************)
(* Facts about the sum of a function over a finite set of its arguments,   *)
(* SumFunctionOnSet, which the proofs about totals of balances, shares and *)
(* reserves rest on.                                                       *)
(*                                                                         *)
(* Induction over a finite set is an argument about a smallest             *)
(* counterexample: the set of the subsets for which a claim fails has a    *)
(* minimal element (lemma Minimal), and that one leads to a contradiction. *)
(***************************************************************************)
EXTENDS SumFacts, FiniteSetTheorems, WellFoundedInduction, TLAPS

\* The element the definition of the sum takes out first.
Pick(s) == CHOOSE x \in s : TRUE

\* g is the function from the subsets of S to their sums.
IsSum(g, f, S) ==
    g = [s \in SUBSET S |-> IF s = {} THEN 0 ELSE f[Pick(s)] + g[s \ {Pick(s)}]]

-----------------------------------------------------------------------------
(* The sum is what its recursive definition says *)

\* A non-empty set of subsets of a finite set has a minimal element.
LEMMA Minimal ==
    ASSUME NEW S, IsFiniteSet(S), NEW T \in SUBSET (SUBSET S), T # {}
    PROVE  \E m \in T : \A y \in T : y \subseteq m => y = m
<1>1. \A U \in SUBSET S : IsFiniteSet(U)
  BY FS_Subset
<1>2. T \subseteq FiniteSubsetsOf(S)
  BY <1>1 DEF FiniteSubsetsOf
<1>3. PICK m \in T : \A y \in T : ~(<<y, m>> \in StrictSubsetOrdering(S))
  BY <1>2, FS_StrictSubsetOrderingWellFounded, WFMin
<1>4. QED
  BY <1>3, Zenon DEF StrictSubsetOrdering

\* The definition of the community modules, without its higher-order helpers.
LEMMA Unfolding ==
    ASSUME NEW f, NEW S
    PROVE  SumFunctionOnSet(f, S) = (CHOOSE g : IsSum(g, f, S))[S]
BY DEF SumFunctionOnSet, FoldFunctionOnSet, MapThenFoldSet, IsSum, Pick

\* An element is picked from the set.
LEMMA Picked ==
    ASSUME NEW s, s # {}
    PROVE  Pick(s) \in s
BY DEF Pick

\* Two such functions agree where both are defined.
LEMMA Agreement ==
    ASSUME NEW f, NEW S, IsFiniteSet(S), NEW T, NEW g, NEW h, IsSum(g, f, S), IsSum(h, f, T)
    PROVE  \A s \in SUBSET S : s \subseteq T => g[s] = h[s]
<1> DEFINE Bad == {s \in SUBSET S : s \subseteq T /\ g[s] # h[s]}
<1>1. SUFFICES ASSUME Bad # {} PROVE FALSE
  OBVIOUS
<1>2. PICK m \in Bad : \A y \in Bad : y \subseteq m => y = m
  <2> HIDE DEF Bad
  <2>1. Bad \in SUBSET (SUBSET S)
    BY DEF Bad
  <2>2. QED
    BY <1>1, <2>1, Minimal
<1>3. m \in SUBSET S /\ m \in SUBSET T /\ g[m] # h[m]
  OBVIOUS
<1>4. /\ g[m] = IF m = {} THEN 0 ELSE f[Pick(m)] + g[m \ {Pick(m)}]
      /\ h[m] = IF m = {} THEN 0 ELSE f[Pick(m)] + h[m \ {Pick(m)}]
  BY <1>3, Zenon DEF IsSum
<1>5. m # {}
  BY <1>3, <1>4
<1>6. m \ {Pick(m)} \notin Bad
  BY <1>2, <1>5, Picked
<1>7. g[m \ {Pick(m)}] = h[m \ {Pick(m)}]
  BY <1>3, <1>6
<1>8. QED
  BY <1>3, <1>4, <1>5, <1>7

\* There is such a function for every finite set.
LEMMA Existence ==
    ASSUME NEW f, NEW S, IsFiniteSet(S)
    PROVE  \E g : IsSum(g, f, S)
<1> DEFINE Bad == {s \in SUBSET S : ~\E g : IsSum(g, f, s)}
<1>1. SUFFICES ASSUME Bad # {} PROVE FALSE
  OBVIOUS
<1>2. PICK m \in Bad : \A y \in Bad : y \subseteq m => y = m
  <2> HIDE DEF Bad
  <2>1. Bad \in SUBSET (SUBSET S)
    BY DEF Bad
  <2>2. QED
    BY <1>1, <2>1, Minimal
<1> DEFINE Of(s) == CHOOSE g : IsSum(g, f, s)
           v == IF m = {} THEN 0
                          ELSE f[Pick(m)] + Of(m \ {Pick(m)})[m \ {Pick(m)}]
           h == [s \in SUBSET m |-> IF s = m THEN v ELSE Of(s)[s]]
<1>3. ~\E g : IsSum(g, f, m)
  OBVIOUS
<1>4. \A s \in SUBSET m : s # m => IsSum(Of(s), f, s)
  <2>1. TAKE s \in SUBSET m
  <2>2. HAVE s # m
  <2>3. s \notin Bad /\ s \in SUBSET S
    BY <1>2, <2>2
  <2>4. \E g : IsSum(g, f, s)
    BY <2>3
  <2>5. QED
    BY <2>4
<1> HIDE DEF Of, Bad
<1>5. \A s \in SUBSET m : s # m /\ s # {} => Of(s)[s] = f[Pick(s)] + Of(s \ {Pick(s)})[s \ {Pick(s)}]
  <2>1. SUFFICES ASSUME NEW s \in SUBSET m, s # m, s # {}
                 PROVE  Of(s)[s] = f[Pick(s)] + Of(s \ {Pick(s)})[s \ {Pick(s)}]
    OBVIOUS
  <2>2. PICK t : t = s \ {Pick(s)}
    BY Zenon
  <2>3. t \in SUBSET m /\ t # m /\ t \in SUBSET s
    BY <2>1, <2>2, Picked
  <2>4. IsSum(Of(s), f, s) /\ IsSum(Of(t), f, t)
    BY <1>4, <2>1, <2>3
  <2>5. IsFiniteSet(s)
    BY FS_Subset DEF Bad
  <2>6. Of(s)[t] = Of(t)[t]
    BY <2>3, <2>4, <2>5, Agreement
  <2>7. Of(s)[s] = f[Pick(s)] + Of(s)[t]
    BY <2>1, <2>2, <2>4, Zenon DEF IsSum
  <2>8. QED
    BY <2>2, <2>6, <2>7
<1>6. \A s \in SUBSET m : s # m /\ s = {} => Of(s)[s] = 0
  BY <1>4, Zenon DEF IsSum
<1>7. \A s \in SUBSET m : h[s] = IF s = {} THEN 0 ELSE f[Pick(s)] + h[s \ {Pick(s)}]
  <2>1. SUFFICES ASSUME NEW s \in SUBSET m
                 PROVE  h[s] = IF s = {} THEN 0 ELSE f[Pick(s)] + h[s \ {Pick(s)}]
    BY Zenon
  <2>2. CASE s = {}
    BY <1>6, <2>2
  <2>3. CASE s # {}
    <3>1. PICK t : t = s \ {Pick(s)}
      BY Zenon
    <3>2. t \in SUBSET m /\ t # m
      BY <2>3, <3>1, Picked
    <3>3. h[t] = Of(t)[t]
      BY <3>2
    <3>4. h[s] = f[Pick(s)] + Of(t)[t]
      BY <1>5, <2>3, <3>1, Zenon
    <3>5. QED
      BY <2>3, <3>1, <3>3, <3>4
  <2>4. QED
    BY <2>2, <2>3
<1>8. h = [s \in SUBSET m |-> h[s]]
  OBVIOUS
<1> HIDE DEF h
<1>9. IsSum(h, f, m)
  BY <1>7, <1>8, Zenon DEF IsSum
<1>10. QED
  BY <1>3, <1>9

\* Nothing sums up to nothing.
LEMMA SumOfNoneHolds ==
    ASSUME NEW f
    PROVE  SumFunctionOnSet(f, {}) = 0
<1>1. \E g : IsSum(g, f, {})
  BY FS_EmptySet, Existence
<1>2. PICK h : h = CHOOSE g : IsSum(g, f, {})
  OBVIOUS
<1>3. IsSum(h, f, {})
  BY <1>1, <1>2
<1>4. h[{}] = 0
  BY <1>3 DEF IsSum
<1>5. PICK S : S = {}
  BY Zenon
<1>6. SumFunctionOnSet(f, S) = h[S]
  BY <1>2, <1>5, Unfolding
<1>7. QED
  BY <1>4, <1>5, <1>6

\* A set that is not empty: the picked element and the rest.
LEMMA SumPicked ==
    ASSUME NEW f, NEW S, IsFiniteSet(S), S # {}
    PROVE  SumFunctionOnSet(f, S) = f[Pick(S)] + SumFunctionOnSet(f, S \ {Pick(S)})
<1>1. PICK T : T = S \ {Pick(S)}
  BY Zenon
<1>2. IsFiniteSet(T) /\ T \in SUBSET S
  BY <1>1, FS_Subset
<1>3. PICK g : g = CHOOSE x : IsSum(x, f, S)
  OBVIOUS
<1>4. PICK h : h = CHOOSE x : IsSum(x, f, T)
  OBVIOUS
<1>5. IsSum(g, f, S)
  BY <1>3, Existence
<1>6. IsSum(h, f, T)
  BY <1>2, <1>4, Existence
<1>7. g[T] = h[T]
  <2>1. \A s \in SUBSET S : s \subseteq T => g[s] = h[s]
    BY <1>5, <1>6, Agreement
  <2>2. QED
    BY <1>2, <2>1
<1>8. g[S] = f[Pick(S)] + g[T]
  BY <1>1, <1>5, Zenon DEF IsSum
<1>9. SumFunctionOnSet(f, S) = g[S] /\ SumFunctionOnSet(f, T) = h[T]
  BY <1>3, <1>4, Unfolding
<1>10. QED
  BY <1>1, <1>7, <1>8, <1>9

-----------------------------------------------------------------------------
(* What follows from it *)

\* The sum of integers is an integer.
LEMMA SumTypeHolds ==
    ASSUME NEW f, NEW S, IsFiniteSet(S), Summable(f, S)
    PROVE  SumFunctionOnSet(f, S) \in Int
<1> DEFINE Bad == {s \in SUBSET S : SumFunctionOnSet(f, s) \notin Int}
<1>1. SUFFICES ASSUME Bad # {} PROVE FALSE
  OBVIOUS
<1>2. PICK m \in Bad : \A y \in Bad : y \subseteq m => y = m
  <2> HIDE DEF Bad
  <2>1. Bad \in SUBSET (SUBSET S)
    BY DEF Bad
  <2>2. QED
    BY <1>1, <2>1, Minimal
<1>3. m \in SUBSET S /\ SumFunctionOnSet(f, m) \notin Int /\ IsFiniteSet(m)
  BY FS_Subset
<1>4. m # {}
  BY <1>3, SumOfNoneHolds
<1>5. m \ {Pick(m)} \notin Bad /\ Pick(m) \in m
  BY <1>2, <1>4, Picked
<1>6. SumFunctionOnSet(f, m \ {Pick(m)}) \in Int /\ f[Pick(m)] \in Int
  BY <1>3, <1>5 DEF Summable
<1>7. QED
  BY <1>3, <1>4, <1>6, SumPicked

\* The sum does not depend on the order in which the elements are taken.
LEMMA SumTakeOutHolds ==
    ASSUME NEW f, NEW S, IsFiniteSet(S), Summable(f, S), NEW x \in S
    PROVE  SumFunctionOnSet(f, S) = f[x] + SumFunctionOnSet(f, S \ {x})
<1> DEFINE Bad == {s \in SUBSET S : \E y \in s : SumFunctionOnSet(f, s) # f[y] + SumFunctionOnSet(f, s \ {y})}
<1>1. SUFFICES ASSUME Bad # {} PROVE FALSE
  BY Zenon
<1>2. PICK m \in Bad : \A s \in Bad : s \subseteq m => s = m
  <2> HIDE DEF Bad
  <2>1. Bad \in SUBSET (SUBSET S)
    BY DEF Bad
  <2>2. QED
    BY <1>1, <2>1, Minimal
<1>3. PICK y \in m : SumFunctionOnSet(f, m) # f[y] + SumFunctionOnSet(f, m \ {y})
  OBVIOUS
<1>4. PICK c : c = Pick(m)
  OBVIOUS
<1>5. c \in m
  BY <1>3, <1>4, Picked
<1>6. m \in SUBSET S /\ IsFiniteSet(m)
  BY FS_Subset
<1>7. SumFunctionOnSet(f, m) = f[c] + SumFunctionOnSet(f, m \ {c})
  BY <1>3, <1>4, <1>6, SumPicked
<1>8. c # y
  BY <1>3, <1>7
<1>9. m \ {c} \notin Bad /\ m \ {y} \notin Bad
  BY <1>2, <1>3, <1>5, Zenon
<1>10. PICK r : r = (m \ {c}) \ {y}
  BY Zenon
<1>11. (m \ {y}) \ {c} = r /\ r \in SUBSET S
  BY <1>6, <1>10
<1>12. /\ SumFunctionOnSet(f, m \ {c}) = f[y] + SumFunctionOnSet(f, r)
       /\ SumFunctionOnSet(f, m \ {y}) = f[c] + SumFunctionOnSet(f, r)
  BY <1>3, <1>5, <1>6, <1>8, <1>9, <1>10, <1>11, Zenon
<1>13. f[c] \in Int /\ f[y] \in Int /\ SumFunctionOnSet(f, r) \in Int
  <2>1. IsFiniteSet(r) /\ Summable(f, r)
    BY <1>11, FS_Subset DEF Summable
  <2>2. QED
    BY <1>3, <1>5, <1>6, <2>1, SumTypeHolds DEF Summable
<1>14. QED
  BY <1>3, <1>7, <1>12, <1>13

\* One more argument.
LEMMA SumPutIn ==
    ASSUME NEW f, NEW S, IsFiniteSet(S), NEW x, x \notin S, Summable(f, S \cup {x})
    PROVE  SumFunctionOnSet(f, S \cup {x}) = SumFunctionOnSet(f, S) + f[x]
<1>1. IsFiniteSet(S \cup {x}) /\ (S \cup {x}) \ {x} = S /\ Summable(f, S)
  BY FS_AddElement DEF Summable
<1>2. SumFunctionOnSet(f, S \cup {x}) = f[x] + SumFunctionOnSet(f, S)
  BY <1>1, SumTakeOutHolds
<1>3. QED
  BY <1>1, <1>2, SumTypeHolds DEF Summable

\* Functions with the same values have the same sum.
LEMMA SumSameHolds ==
    ASSUME NEW f, NEW g, NEW S, IsFiniteSet(S), \A x \in S : f[x] = g[x]
    PROVE  SumFunctionOnSet(f, S) = SumFunctionOnSet(g, S)
<1> DEFINE Bad == {s \in SUBSET S : SumFunctionOnSet(f, s) # SumFunctionOnSet(g, s)}
<1>1. SUFFICES ASSUME Bad # {} PROVE FALSE
  OBVIOUS
<1>2. PICK m \in Bad : \A y \in Bad : y \subseteq m => y = m
  <2> HIDE DEF Bad
  <2>1. Bad \in SUBSET (SUBSET S)
    BY DEF Bad
  <2>2. QED
    BY <1>1, <2>1, Minimal
<1>3. m \in SUBSET S /\ SumFunctionOnSet(f, m) # SumFunctionOnSet(g, m) /\ IsFiniteSet(m)
  BY FS_Subset
<1>4. m # {}
  BY <1>3, SumOfNoneHolds
<1>5. m \ {Pick(m)} \notin Bad /\ Pick(m) \in m
  BY <1>2, <1>4, Picked
<1>6. SumFunctionOnSet(f, m \ {Pick(m)}) = SumFunctionOnSet(g, m \ {Pick(m)}) /\ f[Pick(m)] = g[Pick(m)]
  BY <1>3, <1>5
<1>7. QED
  BY <1>3, <1>4, <1>6, SumPicked

\* Functions that differ at one argument.
LEMMA SumChangeHolds ==
    ASSUME NEW f, NEW g, NEW S, IsFiniteSet(S), Summable(f, S), Summable(g, S),
           NEW x \in S, \A y \in S : y # x => f[y] = g[y]
    PROVE  SumFunctionOnSet(g, S) = SumFunctionOnSet(f, S) - f[x] + g[x]
<1>1. IsFiniteSet(S \ {x}) /\ Summable(f, S \ {x}) /\ f[x] \in Int /\ g[x] \in Int
  BY FS_RemoveElement DEF Summable
<1>2. SumFunctionOnSet(f, S \ {x}) = SumFunctionOnSet(g, S \ {x})
  BY <1>1, SumSameHolds
<1>3. SumFunctionOnSet(f, S \ {x}) \in Int
  BY <1>1, SumTypeHolds
<1>4. /\ SumFunctionOnSet(f, S) = f[x] + SumFunctionOnSet(f, S \ {x})
      /\ SumFunctionOnSet(g, S) = g[x] + SumFunctionOnSet(g, S \ {x})
  BY SumTakeOutHolds
<1>5. QED
  BY <1>1, <1>2, <1>3, <1>4

\* A sum of numbers that are not negative is not negative.
LEMMA SumNatHolds ==
    ASSUME NEW f, NEW S, IsFiniteSet(S), \A x \in S : f[x] \in Nat
    PROVE  SumFunctionOnSet(f, S) \in Nat
<1> DEFINE Bad == {s \in SUBSET S : SumFunctionOnSet(f, s) \notin Nat}
<1>1. SUFFICES ASSUME Bad # {} PROVE FALSE
  OBVIOUS
<1>2. PICK m \in Bad : \A y \in Bad : y \subseteq m => y = m
  <2> HIDE DEF Bad
  <2>1. Bad \in SUBSET (SUBSET S)
    BY DEF Bad
  <2>2. QED
    BY <1>1, <2>1, Minimal
<1>3. m \in SUBSET S /\ SumFunctionOnSet(f, m) \notin Nat /\ IsFiniteSet(m)
  BY FS_Subset
<1>4. m # {}
  BY <1>3, SumOfNoneHolds
<1>5. m \ {Pick(m)} \notin Bad /\ Pick(m) \in m
  BY <1>2, <1>4, Picked
<1>6. SumFunctionOnSet(f, m \ {Pick(m)}) \in Nat /\ f[Pick(m)] \in Nat
  BY <1>3, <1>5
<1>7. QED
  BY <1>3, <1>4, <1>6, SumPicked

\* It is at least each of them.
LEMMA SumBoundHolds ==
    ASSUME NEW f, NEW S, IsFiniteSet(S), \A x \in S : f[x] \in Nat, NEW x \in S
    PROVE  f[x] <= SumFunctionOnSet(f, S)
<1>1. IsFiniteSet(S \ {x}) /\ Summable(f, S)
  BY FS_RemoveElement DEF Summable
<1>2. SumFunctionOnSet(f, S \ {x}) \in Nat
  BY <1>1, SumNatHolds
<1>3. SumFunctionOnSet(f, S) = f[x] + SumFunctionOnSet(f, S \ {x})
  BY <1>1, SumTakeOutHolds
<1>4. QED
  BY <1>2, <1>3

\* A function that has one more argument.
LEMMA SumMoreHolds ==
    ASSUME NEW f, NEW g, NEW S, IsFiniteSet(S), NEW x, x \notin S, NEW T, T = S \cup {x},
           Summable(g, T), \A y \in S : f[y] = g[y]
    PROVE  SumFunctionOnSet(g, T) = SumFunctionOnSet(f, S) + g[x]
<1>1. SumFunctionOnSet(g, T) = SumFunctionOnSet(g, S) + g[x]
  BY SumPutIn
<1>2. SumFunctionOnSet(f, S) = SumFunctionOnSet(g, S)
  BY SumSameHolds
<1> QED
  BY <1>1, <1>2

\* That leaves the sum as it was.
LEMMA SumMovedHolds ==
    ASSUME NEW f, NEW g, NEW S, IsFiniteSet(S), Summable(f, S),
           NEW x, NEW y, NEW m, Moved(f, g, S, x, y, m)
    PROVE  SumFunctionOnSet(g, S) = SumFunctionOnSet(f, S)
<1> USE DEF Moved
<1>1. PICK h : h = [z \in S |-> IF z = x THEN g[x] ELSE f[z]]
  BY Zenon
<1>2. f[x] \in Int /\ f[y] \in Int /\ g[x] \in Int /\ g[y] \in Int
  BY DEF Summable
<1>3. Summable(h, S) /\ Summable(g, S)
  <2>1. \A z \in S : h[z] \in Int
    BY <1>1, <1>2 DEF Summable
  <2>2. \A z \in S : g[z] \in Int
    BY <1>2 DEF Summable
  <2> QED
    BY <2>1, <2>2 DEF Summable
<1>4. SumFunctionOnSet(h, S) = SumFunctionOnSet(f, S) - f[x] + h[x]
  <2>1. \A z \in S : z # x => f[z] = h[z]
    BY <1>1
  <2> QED
    BY <1>3, <2>1, SumChangeHolds
<1>5. SumFunctionOnSet(g, S) = SumFunctionOnSet(h, S) - h[y] + g[y]
  <2>1. \A z \in S : z # y => h[z] = g[z]
    BY <1>1
  <2> QED
    BY <1>3, <2>1, SumChangeHolds
<1>6. h[x] = f[x] - m /\ h[y] = f[y]
  BY <1>1
<1>7. SumFunctionOnSet(f, S) \in Int
  BY SumTypeHolds
<1> QED
  BY <1>2, <1>4, <1>5, <1>6, <1>7


\* Zeros add up to zero.
LEMMA SumZeroHolds ==
    ASSUME NEW f, NEW S, IsFiniteSet(S), \A x \in S : f[x] = 0
    PROVE  SumFunctionOnSet(f, S) = 0
<1> DEFINE Bad == {s \in SUBSET S : SumFunctionOnSet(f, s) # 0}
<1>1. SUFFICES ASSUME Bad # {} PROVE FALSE
  OBVIOUS
<1>2. PICK m \in Bad : \A y \in Bad : y \subseteq m => y = m
  <2> HIDE DEF Bad
  <2>1. Bad \in SUBSET (SUBSET S)
    BY DEF Bad
  <2>2. QED
    BY <1>1, <2>1, Minimal
<1>3. m \in SUBSET S /\ SumFunctionOnSet(f, m) # 0 /\ IsFiniteSet(m)
  BY FS_Subset
<1>4. m # {}
  BY <1>3, SumOfNoneHolds
<1>5. m \ {Pick(m)} \notin Bad /\ Pick(m) \in m
  BY <1>2, <1>4, Picked
<1>6. SumFunctionOnSet(f, m \ {Pick(m)}) = 0 /\ f[Pick(m)] = 0
  BY <1>3, <1>5
<1>7. QED
  BY <1>3, <1>4, <1>6, SumPicked


\* The sum of a constant.
LEMMA SumConstantHolds ==
    ASSUME NEW f, NEW S, IsFiniteSet(S), NEW c \in Int, \A x \in S : f[x] = c
    PROVE  SumFunctionOnSet(f, S) = c * Cardinality(S)
<1> DEFINE Bad == {s \in SUBSET S : SumFunctionOnSet(f, s) # c * Cardinality(s)}
<1>1. SUFFICES ASSUME Bad # {} PROVE FALSE
  OBVIOUS
<1>2. PICK m \in Bad : \A y \in Bad : y \subseteq m => y = m
  <2> HIDE DEF Bad
  <2>1. Bad \in SUBSET (SUBSET S)
    BY DEF Bad
  <2>2. QED
    BY <1>1, <2>1, Minimal
<1>3. m \in SUBSET S /\ SumFunctionOnSet(f, m) # c * Cardinality(m) /\ IsFiniteSet(m)
  BY FS_Subset
<1>4. m # {}
  BY <1>3, SumOfNoneHolds, FS_EmptySet
<1>5. m \ {Pick(m)} \notin Bad /\ Pick(m) \in m
  BY <1>2, <1>4, Picked
<1>6. /\ SumFunctionOnSet(f, m \ {Pick(m)}) = c * Cardinality(m \ {Pick(m)})
      /\ f[Pick(m)] = c
  BY <1>3, <1>5
<1>7. Cardinality(m \ {Pick(m)}) = Cardinality(m) - 1 /\ Cardinality(m) \in Nat
  BY <1>3, <1>5, FS_RemoveElement, FS_CardinalityType, Zenon
<1>8. SumFunctionOnSet(f, m) = c + c * (Cardinality(m) - 1)
  <2>1. SumFunctionOnSet(f, m) = f[Pick(m)] + SumFunctionOnSet(f, m \ {Pick(m)})
    BY <1>3, <1>4, SumPicked, Zenon
  <2> QED
    BY <1>6, <1>7, <2>1, Zenon
<1>9. c + c * (Cardinality(m) - 1) = c * Cardinality(m)
  BY <1>7
<1>10. QED
  BY <1>3, <1>8, <1>9

\* A multiple of a function is added to another one.
LEMMA SumMultipleHolds ==
    ASSUME NEW f, NEW g, NEW h, NEW S, IsFiniteSet(S), Summable(f, S), Summable(g, S),
           NEW c \in Int, \A x \in S : h[x] = f[x] + c * g[x]
    PROVE  SumFunctionOnSet(h, S) = SumFunctionOnSet(f, S) + c * SumFunctionOnSet(g, S)
<1> DEFINE Right(s) == SumFunctionOnSet(h, s) = SumFunctionOnSet(f, s) + c * SumFunctionOnSet(g, s)
           Bad == {s \in SUBSET S : ~Right(s)}
<1>1. SUFFICES ASSUME Bad # {} PROVE FALSE
  OBVIOUS
<1>2. PICK m \in Bad : \A y \in Bad : y \subseteq m => y = m
  <2> HIDE DEF Bad
  <2>1. Bad \in SUBSET (SUBSET S)
    BY DEF Bad
  <2>2. QED
    BY <1>1, <2>1, Minimal
<1>3. m \in SUBSET S /\ ~Right(m) /\ IsFiniteSet(m)
  BY FS_Subset
<1>4. m # {}
  BY <1>3, SumOfNoneHolds
<1>5. m \ {Pick(m)} \notin Bad /\ Pick(m) \in m
  BY <1>2, <1>4, Picked
<1>6. Right(m \ {Pick(m)}) /\ h[Pick(m)] = f[Pick(m)] + c * g[Pick(m)]
  BY <1>3, <1>5
<1>7. PICK a \in Int, b \in Int, t \in Int, r \in Int :
         /\ a = f[Pick(m)] /\ b = g[Pick(m)]
         /\ t = SumFunctionOnSet(f, m \ {Pick(m)}) /\ r = SumFunctionOnSet(g, m \ {Pick(m)})
  <2>1. IsFiniteSet(m \ {Pick(m)}) /\ Summable(f, m \ {Pick(m)}) /\ Summable(g, m \ {Pick(m)})
    BY <1>3, FS_RemoveElement DEF Summable
  <2> QED
    BY <1>3, <1>5, <2>1, SumTypeHolds DEF Summable
<1>8. /\ SumFunctionOnSet(f, m) = a + t
      /\ SumFunctionOnSet(g, m) = b + r
      /\ SumFunctionOnSet(h, m) = (a + c * b) + (t + c * r)
  <2>1. /\ SumFunctionOnSet(f, m) = f[Pick(m)] + SumFunctionOnSet(f, m \ {Pick(m)})
        /\ SumFunctionOnSet(g, m) = g[Pick(m)] + SumFunctionOnSet(g, m \ {Pick(m)})
        /\ SumFunctionOnSet(h, m) = h[Pick(m)] + SumFunctionOnSet(h, m \ {Pick(m)})
    BY <1>3, <1>4, SumPicked
  <2>2. SumFunctionOnSet(h, m \ {Pick(m)}) = t + c * r /\ h[Pick(m)] = a + c * b
    BY <1>6, <1>7
  <2> QED
    BY <1>7, <2>1, <2>2
<1>9. (a + c * b) + (t + c * r) = (a + t) + c * (b + r)
  OBVIOUS
<1>10. QED
  BY <1>3, <1>8, <1>9

\* That leaves the sum as it was.
LEMMA SumExchangedHolds ==
    ASSUME NEW f, NEW g, NEW S, IsFiniteSet(S), Summable(f, S),
           NEW x, NEW y, NEW z, NEW a, NEW b, NEW c, Exchanged(f, g, S, x, y, z, a, b, c)
    PROVE  SumFunctionOnSet(g, S) = SumFunctionOnSet(f, S)
<1> USE DEF Exchanged
<1>1. PICK h : h = [w \in S |-> IF w = x THEN f[x] + a ELSE IF w = z THEN f[z] - a ELSE f[w]]
  BY Zenon
<1>2. f[x] \in Int /\ f[y] \in Int /\ f[z] \in Int
  BY DEF Summable
<1>3. Summable(h, S)
  BY <1>1, <1>2 DEF Summable
<1>4. Moved(f, h, S, x, z, -a)
  BY <1>1, <1>2 DEF Moved
<1>5. Moved(h, g, S, y, z, -b)
  <2>1. h[y] = f[y] /\ h[z] = f[z] - a
    BY <1>1
  <2>2. g[z] = h[z] + (-b) /\ g[y] = h[y] - (-b)
    BY <1>2, <2>1
  <2>3. \A w \in S \ {y, z} : g[w] = h[w]
    BY <1>1, <1>2
  <2> QED
    BY <2>2, <2>3 DEF Moved
<1>6. SumFunctionOnSet(h, S) = SumFunctionOnSet(f, S)
  BY <1>4, SumMovedHolds
<1>7. SumFunctionOnSet(g, S) = SumFunctionOnSet(h, S)
  BY <1>3, <1>5, SumMovedHolds
<1> QED
  BY <1>6, <1>7

\* Elements that add nothing.
LEMMA SumRestHolds ==
    ASSUME NEW f, NEW S, NEW T, IsFiniteSet(S), IsFiniteSet(T), Summable(f, S), \A x \in T : f[x] = 0
    PROVE  SumFunctionOnSet(f, S \cup T) = SumFunctionOnSet(f, S)
<1> DEFINE Bad == {t \in SUBSET T : SumFunctionOnSet(f, S \cup t) # SumFunctionOnSet(f, S)}
<1>1. SUFFICES ASSUME Bad # {} PROVE FALSE
  <2>1. T \notin Bad
    BY <1>1, Zenon
  <2> QED
    BY <2>1
<1>2. PICK m \in Bad : \A y \in Bad : y \subseteq m => y = m
  <2> HIDE DEF Bad
  <2>1. Bad \in SUBSET (SUBSET T)
    BY DEF Bad
  <2> QED
    BY <1>1, <2>1, Minimal
<1>3. m \in SUBSET T /\ SumFunctionOnSet(f, S \cup m) # SumFunctionOnSet(f, S)
  BY <1>2
<1>4. PICK x \in m : TRUE
  <2>1. m # {}
    <3>1. S \cup {} = S
      OBVIOUS
    <3> QED
      BY <1>3, <3>1
  <2> QED
    BY <2>1
<1>5. PICK t : t = m \ {x}
  BY Zenon
<1>6. SumFunctionOnSet(f, S \cup t) = SumFunctionOnSet(f, S)
  <2>1. t \in SUBSET T /\ t \subseteq m /\ t # m
    BY <1>3, <1>5
  <2>2. t \notin Bad
    BY <1>2, <2>1
  <2> QED
    BY <2>1, <2>2
<1>7. CASE x \in S
  <2>1. S \cup m = S \cup t
    BY <1>5, <1>7
  <2> QED
    BY <1>3, <1>6, <2>1
<1>8. CASE x \notin S
  <2>1. IsFiniteSet(S \cup t) /\ x \notin S \cup t /\ S \cup m = (S \cup t) \cup {x}
    <3>1. IsFiniteSet(t)
      BY <1>3, <1>5, FS_Subset
    <3>2. IsFiniteSet(S \cup t)
      BY <3>1, FS_Union, Zenon
    <3> QED
      BY <1>4, <1>5, <1>8, <3>2
  <2>2. f[x] = 0 /\ Summable(f, (S \cup t) \cup {x})
    BY <1>3, <1>5 DEF Summable
  <2>3. SumFunctionOnSet(f, S \cup m) = SumFunctionOnSet(f, S \cup t) + f[x]
    BY <2>1, <2>2, SumPutIn
  <2>4. SumFunctionOnSet(f, S) \in Int
    BY SumTypeHolds
  <2> QED
    BY <1>3, <1>6, <2>2, <2>3, <2>4
<1> QED
  BY <1>7, <1>8

\* The parts of a superadditive function add up to at most its value at the
\* sum.
LEMMA SumOfPartsHolds ==
    ASSUME NEW f, NEW g, NEW h, NEW S, IsFiniteSet(S), Superadditive(h),
           \A x \in S : f[x] \in Nat /\ g[x] = h[f[x]]
    PROVE  SumFunctionOnSet(g, S) <= h[SumFunctionOnSet(f, S)]
<1>0. \A x \in S : g[x] \in Nat
  BY DEF Superadditive
<1> DEFINE Right(s) == SumFunctionOnSet(g, s) <= h[SumFunctionOnSet(f, s)]
           Bad == {s \in SUBSET S : ~Right(s)}
<1>1. SUFFICES ASSUME Bad # {} PROVE FALSE
  BY Zenon
<1>2. PICK m \in Bad : \A y \in Bad : y \subseteq m => y = m
  <2> HIDE DEF Bad
  <2>1. Bad \in SUBSET (SUBSET S)
    BY Zenon DEF Bad
  <2> QED
    BY <1>1, <2>1, Minimal
<1>3. m \in SUBSET S /\ ~Right(m) /\ IsFiniteSet(m)
  BY <1>2, FS_Subset, Zenon
<1>4. m # {}
  <2>1. h[0] \in Nat
    BY DEF Superadditive
  <2>2. SumFunctionOnSet(g, {}) = 0 /\ SumFunctionOnSet(f, {}) = 0
    BY SumOfNoneHolds, Zenon
  <2>3. Right({})
    BY <2>1, <2>2
  <2> QED
    BY <1>3, <2>3, Zenon
<1>5. PICK x, t : x = Pick(m) /\ t = m \ {x}
  BY Zenon
<1>6. x \in m /\ t \in SUBSET S /\ IsFiniteSet(t)
  BY <1>3, <1>4, <1>5, Picked, FS_Subset
<1>7. Right(t)
  <2>1. t \subseteq m /\ t # m
    BY <1>5, <1>6, Zenon
  <2>2. t \notin Bad
    BY <1>2, <2>1, Zenon
  <2> QED
    BY <1>6, <2>2, Zenon
<1>8. PICK a \in Nat, b \in Nat : a = SumFunctionOnSet(f, t) /\ b = f[x]
  BY <1>3, <1>6, SumNatHolds
<1>9. PICK c \in Nat, d \in Nat : c = SumFunctionOnSet(g, t) /\ d = g[x]
  BY <1>0, <1>3, <1>6, SumNatHolds
<1>10. SumFunctionOnSet(f, m) = b + a /\ SumFunctionOnSet(g, m) = d + c
  BY <1>3, <1>4, <1>5, <1>8, <1>9, SumPicked, Zenon
<1>11. h[b] + h[a] <= h[b + a] /\ h[a] \in Nat /\ h[b] \in Nat /\ h[b + a] \in Nat
  <2>1. b + a \in Nat
    OBVIOUS
  <2> QED
    BY <2>1, Zenon DEF Superadditive
<1>12. c <= h[a] /\ d = h[b]
  BY <1>3, <1>6, <1>7, <1>8, <1>9, Zenon
<1> QED
  BY <1>3, <1>10, <1>11, <1>12

-----------------------------------------------------------------------------
(* All of it *)

\* The library's theorems about finite sets, as this project uses them.
LEMMA FiniteFactsHold == FiniteFacts
<1>1. EmptyFinite
  BY FS_EmptySet, Zenon DEF EmptyFinite
<1>2. SubsetFinite
  BY FS_Subset, Zenon DEF SubsetFinite
<1>3. AddFinite
  BY FS_AddElement, Zenon DEF AddFinite
<1>4. RemoveFinite
  BY FS_RemoveElement, Zenon DEF RemoveFinite
<1>5. UnionFinite
  BY FS_Union, Zenon DEF UnionFinite
<1>6. PowerFinite
  BY FS_SUBSET, Zenon DEF PowerFinite
<1>7. IntervalFinite
  BY FS_Interval, Zenon DEF IntervalFinite
<1>8. CardinalityType
  BY FS_CardinalityType, Zenon DEF CardinalityType
<1>9. SingletonFinite
  BY FS_Singleton, Zenon DEF SingletonFinite
<1> QED
  BY <1>1, <1>2, <1>3, <1>4, <1>5, <1>6, <1>7, <1>8, <1>9, Zenon DEF FiniteFacts

\* Every fact of module SumFacts holds.
THEOREM Facts == SumFacts
<1>1. SumOfNone
  BY SumOfNoneHolds DEF SumOfNone
<1>2. SumType
  BY SumTypeHolds DEF SumType
<1>3. SumNat
  BY SumNatHolds DEF SumNat
<1>4. SumZero
  BY SumZeroHolds DEF SumZero
<1>5. SumConstant
  BY SumConstantHolds DEF SumConstant
<1>6. SumBound
  BY SumBoundHolds DEF SumBound
<1>7. SumTakeOut
  BY SumTakeOutHolds DEF SumTakeOut
<1>8. SumSame
  BY SumSameHolds DEF SumSame
<1>9. SumChange
  BY SumChangeHolds DEF SumChange, Changed
<1>10. SumMore
  BY SumMoreHolds DEF SumMore, Grown
<1>11. SumRest
  BY SumRestHolds DEF SumRest
<1>12. SumMoved
  BY SumMovedHolds DEF SumMoved
<1>13. SumExchanged
  BY SumExchangedHolds DEF SumExchanged
<1>14. SumMultiple
  BY SumMultipleHolds DEF SumMultiple
<1>15. SumOfParts
  BY SumOfPartsHolds DEF SumOfParts
<1> QED
  BY FiniteFactsHold, <1>1, <1>2, <1>3, <1>4, <1>5, <1>6, <1>7, <1>8,
     <1>9, <1>10, <1>11, <1>12, <1>13, <1>14, <1>15, Zenon DEF SumFacts

=============================================================================
