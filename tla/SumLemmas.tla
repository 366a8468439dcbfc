------------------------------ MODULE SumLemmas ------------------------------
(***************************************************************************)
(* Sums of a function over a finite set, as Functions defines them: the    *)
(* recursion is well defined, and its value does not depend on the order    *)
(* in which the elements are taken.  Each induction is over a smallest set  *)
(* that would be a counterexample.                                          *)
(***************************************************************************)
EXTENDS Functions, Integers, FiniteSetTheorems, TLAPS

\* The element the fold takes next.
Taken(s) == CHOOSE x \in s : TRUE

\* What the recursive function inside the fold is chosen to be.
Folded(f, S, F) ==
  F = [s \in SUBSET S |-> IF s = {} THEN 0 ELSE f[Taken(s)] + F[s \ {Taken(s)}]]

Total(f, S) == SumFunctionOnSet(f, S)

-----------------------------------------------------------------------------

\* A family of subsets of a finite set that is not empty has a smallest member.
LEMMA SmallestSet ==
  ASSUME NEW S, IsFiniteSet(S), NEW B, B \subseteq SUBSET S, B # {}
  PROVE  \E s \in B : \A t \in SUBSET s : t # s => t \notin B
<1>1. B \subseteq FiniteSubsetsOf(S)
  BY FS_Subset DEF FiniteSubsetsOf
<1>2. IsWellFoundedOn(StrictSubsetOrdering(S), FiniteSubsetsOf(S))
  BY FS_StrictSubsetOrderingWellFounded
<1>3. PICK s \in B : \A t \in B : ~(<<t, s>> \in StrictSubsetOrdering(S))
  BY <1>1, <1>2, WFMin, Zenon
<1>4. \A t \in SUBSET s : t # s => t \notin B
  BY <1>3 DEF StrictSubsetOrdering
<1>5. QED
  BY <1>4

\* The element taken is one of the set.
LEMMA TakenIsElement ==
  ASSUME NEW s, s # {}
  PROVE  Taken(s) \in s
BY DEF Taken

\* The sum is the value of the recursive function at the whole set.
LEMMA SumUnfolds ==
  ASSUME NEW f, NEW S
  PROVE  Total(f, S) = (CHOOSE F : Folded(f, S, F))[S]
BY DEF Total, SumFunctionOnSet, FoldFunctionOnSet, MapThenFoldSet, Folded, Taken

\* Two such functions agree wherever both are defined.
LEMMA FoldedUnique ==
  ASSUME NEW f, NEW S, IsFiniteSet(S), NEW T, NEW F, Folded(f, S, F), NEW G, Folded(f, T, G),
         NEW r \in SUBSET S, r \subseteq T
  PROVE  F[r] = G[r]
<1> DEFINE B == {s \in SUBSET S : s \subseteq T /\ F[s] # G[s]}
<1> SUFFICES ASSUME B # {}
             PROVE  FALSE
  OBVIOUS
<1>1. B \subseteq SUBSET S
  OBVIOUS
<1>2. PICK s \in B : \A t \in SUBSET s : t # s => t \notin B
  <2> HIDE DEF B
  <2>1. QED
    BY <1>1, SmallestSet
<1> DEFINE x == Taken(s)
<1>3. /\ F[s] = IF s = {} THEN 0 ELSE f[x] + F[s \ {x}]
      /\ G[s] = IF s = {} THEN 0 ELSE f[x] + G[s \ {x}]
  <2>1. F = [t \in SUBSET S |-> IF t = {} THEN 0 ELSE f[Taken(t)] + F[t \ {Taken(t)}]]
    BY DEF Folded
  <2>2. G = [t \in SUBSET T |-> IF t = {} THEN 0 ELSE f[Taken(t)] + G[t \ {Taken(t)}]]
    BY DEF Folded
  <2>3. s \in SUBSET S /\ s \in SUBSET T
    OBVIOUS
  <2>4. F[s] = IF s = {} THEN 0 ELSE f[x] + F[s \ {x}]
    BY <2>1, <2>3, Zenon
  <2>5. G[s] = IF s = {} THEN 0 ELSE f[x] + G[s \ {x}]
    BY <2>2, <2>3, Zenon
  <2>6. QED
    BY <2>4, <2>5
<1>4. s # {} /\ F[s \ {x}] # G[s \ {x}]
  BY <1>3
<1>5. x \in s
  BY <1>4, TakenIsElement
<1>6. s \ {x} \in B
  BY <1>4
<1>7. QED
  BY <1>2, <1>5, <1>6

\* Where the recursion is defined on a set, the sum of the set is its step.
LEMMA SumOfFolded ==
  ASSUME NEW f, NEW S, IsFiniteSet(S), \A s \in SUBSET S : \E F : Folded(f, s, F)
  PROVE  Total(f, S) = IF S = {} THEN 0 ELSE f[Taken(S)] + Total(f, S \ {Taken(S)})
<1> DEFINE x == Taken(S)
           F == CHOOSE H : Folded(f, S, H)
           G == CHOOSE H : Folded(f, S \ {x}, H)
<1>1. Folded(f, S, F) /\ Folded(f, S \ {x}, G)
  <2>1. S \in SUBSET S /\ S \ {x} \in SUBSET S
    OBVIOUS
  <2>2. (\E H : Folded(f, S, H)) /\ (\E H : Folded(f, S \ {x}, H))
    BY <2>1
  <2>3. QED
    BY <2>2, Zenon
<1>2. Total(f, S) = F[S] /\ Total(f, S \ {x}) = G[S \ {x}]
  BY SumUnfolds
<1> HIDE DEF F, G
<1>3. F[S \ {x}] = G[S \ {x}]
  <2> DEFINE U == S \ {x}
  <2>1. U \in SUBSET S /\ U \subseteq U /\ Folded(f, U, G) /\ Folded(f, S, F)
    BY <1>1
  <2> HIDE DEF U
  <2>2. F[U] = G[U]
    BY <2>1, FoldedUnique
  <2>3. QED
    BY <2>2 DEF U
<1>4. F[S] = IF S = {} THEN 0 ELSE f[x] + F[S \ {x}]
  <2>1. F = [t \in SUBSET S |-> IF t = {} THEN 0 ELSE f[Taken(t)] + F[t \ {Taken(t)}]]
    BY <1>1 DEF Folded
  <2>2. S \in SUBSET S
    OBVIOUS
  <2>3. QED
    BY <2>1, <2>2, Zenon
<1>5. QED
  BY <1>2, <1>3, <1>4

\* The recursion is defined on every finite set.
LEMMA FoldedExists ==
  ASSUME NEW f, NEW S, IsFiniteSet(S)
  PROVE  \E F : Folded(f, S, F)
<1> DEFINE B == {s \in SUBSET S : ~ \E F : Folded(f, s, F)}
<1> SUFFICES ASSUME B # {}
             PROVE  FALSE
  OBVIOUS
<1>1. B \subseteq SUBSET S
  OBVIOUS
<1>2. PICK s \in B : \A t \in SUBSET s : t # s => t \notin B
  <2> HIDE DEF B
  <2>1. QED
    BY <1>1, SmallestSet
<1>3. s \in SUBSET S /\ IsFiniteSet(s) /\ \A t \in SUBSET s : t # s => \E F : Folded(f, t, F)
  BY <1>2, FS_Subset
<1> DEFINE step(t) == IF t = {} THEN 0 ELSE f[Taken(t)] + Total(f, t \ {Taken(t)})
           F == [t \in SUBSET s |-> step(t)]
<1>4. \A t \in SUBSET s : t # s => F[t] = Total(f, t)
  <2> SUFFICES ASSUME NEW t \in SUBSET s, t # s
               PROVE  step(t) = Total(f, t)
    OBVIOUS
  <2>1. IsFiniteSet(t) /\ \A u \in SUBSET t : \E H : Folded(f, u, H)
    BY <1>3, FS_Subset
  <2>2. QED
    BY <2>1, SumOfFolded
<1>5. \A t \in SUBSET s : t # {} => F[t \ {Taken(t)}] = Total(f, t \ {Taken(t)})
  <2> SUFFICES ASSUME NEW t \in SUBSET s, t # {}
               PROVE  F[t \ {Taken(t)}] = Total(f, t \ {Taken(t)})
    OBVIOUS
  <2>1. t \ {Taken(t)} \in SUBSET s /\ t \ {Taken(t)} # s
    BY TakenIsElement
  <2> HIDE DEF F
  <2>2. QED
    BY <1>4, <2>1
<1>6. F = [t \in SUBSET s |-> IF t = {} THEN 0 ELSE f[Taken(t)] + F[t \ {Taken(t)}]]
  BY <1>5
<1>7. Folded(f, s, F)
  BY <1>6 DEF Folded
<1>8. QED
  BY <1>2, <1>7

-----------------------------------------------------------------------------

\* The sum of nothing, and the step of the fold.
LEMMA SumSteps ==
  ASSUME NEW f, NEW S, IsFiniteSet(S)
  PROVE  Total(f, S) = IF S = {} THEN 0 ELSE f[Taken(S)] + Total(f, S \ {Taken(S)})
<1>1. \A s \in SUBSET S : IsFiniteSet(s)
  BY FS_Subset
<1>2. \A s \in SUBSET S : \E F : Folded(f, s, F)
  BY <1>1, FoldedExists
<1>3. QED
  BY <1>2, SumOfFolded

\* A sum of natural numbers is one.
LEMMA SumIsNat ==
  ASSUME NEW f, NEW S, IsFiniteSet(S), \A x \in S : f[x] \in Nat
  PROVE  Total(f, S) \in Nat
<1> DEFINE B == {s \in SUBSET S : Total(f, s) \notin Nat}
<1> SUFFICES ASSUME B # {}
             PROVE  FALSE
  OBVIOUS
<1>1. B \subseteq SUBSET S
  OBVIOUS
<1>2. PICK s \in B : \A t \in SUBSET s : t # s => t \notin B
  <2> HIDE DEF B
  <2>1. QED
    BY <1>1, SmallestSet
<1>3. s \in SUBSET S /\ Total(f, s) \notin Nat
  OBVIOUS
<1>4. Total(f, s) = IF s = {} THEN 0 ELSE f[Taken(s)] + Total(f, s \ {Taken(s)})
  BY <1>3, FS_Subset, SumSteps
<1>5. s # {}
  BY <1>3, <1>4
<1>6. Taken(s) \in s
  BY <1>5, TakenIsElement
<1>7. Total(f, s \ {Taken(s)}) \in Nat
  BY <1>2, <1>3, <1>6
<1>8. QED
  BY <1>3, <1>4, <1>5, <1>6, <1>7

\* Any element may be taken first.
LEMMA SumTakes ==
  ASSUME NEW f, NEW S, IsFiniteSet(S), \A z \in S : f[z] \in Nat, NEW e \in S
  PROVE  Total(f, S) = f[e] + Total(f, S \ {e})
<1> DEFINE B == {s \in SUBSET S : \E x \in s : Total(f, s) # f[x] + Total(f, s \ {x})}
<1> SUFFICES ASSUME B # {}
             PROVE  FALSE
  OBVIOUS
<1>1. B \subseteq SUBSET S
  OBVIOUS
<1>2. PICK s \in B : \A t \in SUBSET s : t # s => t \notin B
  <2> HIDE DEF B
  <2>1. QED
    BY <1>1, SmallestSet
<1>3. PICK x \in s : Total(f, s) # f[x] + Total(f, s \ {x})
  OBVIOUS
<1> DEFINE y == Taken(s)
<1>4. s \in SUBSET S /\ IsFiniteSet(s)
  BY FS_Subset
<1>5. y \in s /\ Total(f, s) = f[y] + Total(f, s \ {y})
  BY <1>4, SumSteps, TakenIsElement
<1> HIDE DEF y
<1>6. x # y
  BY <1>3, <1>5
<1>7. Total(f, s \ {y}) = f[x] + Total(f, (s \ {y}) \ {x})
  BY <1>2, <1>4, <1>5, <1>6
<1>8. Total(f, s \ {x}) = f[y] + Total(f, (s \ {x}) \ {y})
  BY <1>2, <1>4, <1>5, <1>6
<1>9. (s \ {y}) \ {x} = (s \ {x}) \ {y}
  OBVIOUS
<1>10. Total(f, (s \ {x}) \ {y}) \in Nat
  <2>1. IsFiniteSet((s \ {x}) \ {y}) /\ \A z \in (s \ {x}) \ {y} : f[z] \in Nat
    BY <1>4, FS_Subset
  <2>2. QED
    BY <2>1, SumIsNat
<1>11. f[x] \in Nat /\ f[y] \in Nat
  BY <1>4, <1>5
<1> DEFINE rest == Total(f, (s \ {x}) \ {y})
<1>12. Total(f, s) = f[y] + (f[x] + rest) /\ Total(f, s) # f[x] + (f[y] + rest)
  BY <1>3, <1>5, <1>7, <1>8, <1>9
<1>13. rest \in Nat
  BY <1>10
<1> HIDE DEF rest
<1>14. QED
  BY <1>11, <1>12, <1>13

\* An element added is a value added.
LEMMA SumAdds ==
  ASSUME NEW f, NEW S, IsFiniteSet(S), \A z \in S : f[z] \in Nat, NEW e, e \notin S, f[e] \in Nat
  PROVE  Total(f, S \cup {e}) = Total(f, S) + f[e]
<1> DEFINE T == S \cup {e}
<1>1. IsFiniteSet(T) /\ e \in T /\ T \ {e} = S /\ \A z \in T : f[z] \in Nat
  BY FS_AddElement
<1> HIDE DEF T
<1>2. Total(f, T) = f[e] + Total(f, S)
  BY <1>1, SumTakes
<1>3. Total(f, S) \in Nat
  BY SumIsNat
<1>4. QED
  BY <1>2, <1>3 DEF T

\* Functions that agree on a set have the same sum over it.
LEMMA SumAgrees ==
  ASSUME NEW f, NEW g, NEW S, IsFiniteSet(S), \A x \in S : f[x] = g[x]
  PROVE  Total(f, S) = Total(g, S)
<1> DEFINE B == {s \in SUBSET S : Total(f, s) # Total(g, s)}
<1> SUFFICES ASSUME B # {}
             PROVE  FALSE
  OBVIOUS
<1>1. B \subseteq SUBSET S
  OBVIOUS
<1>2. PICK s \in B : \A t \in SUBSET s : t # s => t \notin B
  <2> HIDE DEF B
  <2>1. QED
    BY <1>1, SmallestSet
<1>3. s \in SUBSET S /\ IsFiniteSet(s) /\ Total(f, s) # Total(g, s)
  BY FS_Subset
<1>4. /\ Total(f, s) = IF s = {} THEN 0 ELSE f[Taken(s)] + Total(f, s \ {Taken(s)})
      /\ Total(g, s) = IF s = {} THEN 0 ELSE g[Taken(s)] + Total(g, s \ {Taken(s)})
  BY <1>3, SumSteps
<1>5. s # {}
  BY <1>3, <1>4
<1>6. Taken(s) \in s
  BY <1>5, TakenIsElement
<1>7. Total(f, s \ {Taken(s)}) = Total(g, s \ {Taken(s)})
  BY <1>2, <1>3, <1>6
<1>8. QED
  BY <1>3, <1>4, <1>5, <1>6, <1>7

\* Over more elements the sum is no smaller.
LEMMA SumGrows ==
  ASSUME NEW f, NEW S, IsFiniteSet(S), \A x \in S : f[x] \in Nat, NEW T \in SUBSET S
  PROVE  Total(f, T) <= Total(f, S)
<1> DEFINE B == {s \in SUBSET S : T \subseteq s /\ ~(Total(f, T) <= Total(f, s))}
<1> SUFFICES ASSUME B # {}
             PROVE  FALSE
  OBVIOUS
<1>1. B \subseteq SUBSET S
  OBVIOUS
<1>2. PICK s \in B : \A t \in SUBSET s : t # s => t \notin B
  <2> HIDE DEF B
  <2>1. QED
    BY <1>1, SmallestSet
<1>3. /\ s \in SUBSET S /\ T \subseteq s /\ ~(Total(f, T) <= Total(f, s))
      /\ IsFiniteSet(s) /\ IsFiniteSet(T)
  BY FS_Subset
<1>4. Total(f, T) \in Nat
  BY <1>3, SumIsNat
<1>5. PICK x \in s : x \notin T
  BY <1>3, <1>4
<1>6. Total(f, s) = f[x] + Total(f, s \ {x})
  BY <1>3, SumTakes
<1>7. IsFiniteSet(s \ {x}) /\ s \ {x} \in SUBSET S /\ T \subseteq s \ {x}
  BY <1>3, <1>5, FS_Subset
<1>8. Total(f, s \ {x}) \in Nat
  BY <1>7, SumIsNat
<1>9. Total(f, T) <= Total(f, s \ {x})
  BY <1>2, <1>5, <1>7
<1>10. f[x] \in Nat
  BY <1>3
<1>11. QED
  BY <1>3, <1>4, <1>6, <1>8, <1>9, <1>10

\* Indices moved by a distance add up to the same.
LEMMA SumShifts ==
  ASSUME NEW f, NEW g, NEW d \in Nat, NEW n \in Nat,
         \A i \in 1 .. n : g[i] \in Nat /\ f[d + i] = g[i]
  PROVE  Total(g, 1 .. n) = Total(f, d + 1 .. d + n)
<1> DEFINE Moved(s) == {d + i : i \in s}
           B == {s \in SUBSET (1 .. n) : Total(g, s) # Total(f, Moved(s))}
<1>1. IsFiniteSet(1 .. n) /\ IsFiniteSet(d + 1 .. d + n)
  BY FS_Interval
<1>2. B = {}
  <2> SUFFICES ASSUME B # {}
               PROVE  FALSE
    OBVIOUS
  <2>1. B \subseteq SUBSET (1 .. n)
    OBVIOUS
  <2>2. PICK s \in B : \A t \in SUBSET s : t # s => t \notin B
    <3> HIDE DEF B
    <3>1. QED
      BY <1>1, <2>1, SmallestSet
  <2>3. /\ s \in SUBSET (1 .. n) /\ Total(g, s) # Total(f, Moved(s))
        /\ IsFiniteSet(s) /\ \A i \in s : g[i] \in Nat
    BY <1>1, FS_Subset
  <2>4. Moved(s) \in SUBSET (d + 1 .. d + n)
    BY <2>3
  <2>5. IsFiniteSet(Moved(s)) /\ \A j \in Moved(s) : f[j] \in Nat
    BY <1>1, <2>3, <2>4, FS_Subset
  <2>6. CASE s = {}
    <3>1. Moved(s) = {}
      BY <2>6
    <3>2. IsFiniteSet({})
      BY FS_EmptySet
    <3>3. Total(g, {}) = 0 /\ Total(f, {}) = 0
      BY <3>2, SumSteps
    <3>4. QED
      BY <2>3, <2>6, <3>1, <3>3
  <2>7. CASE s # {}
    <3>1. PICK x \in s : TRUE
      BY <2>7
    <3>2. d + x \in Moved(s) /\ Moved(s) \ {d + x} = Moved(s \ {x})
      BY <2>3
    <3>3. Total(g, s) = g[x] + Total(g, s \ {x})
      <4>1. IsFiniteSet(s) /\ x \in s /\ \A i \in s : g[i] \in Nat
        BY <2>3
      <4> HIDE DEF B, Moved
      <4>2. QED
        BY <4>1, SumTakes
    <3>4. Total(f, Moved(s)) = f[d + x] + Total(f, Moved(s \ {x}))
      <4> DEFINE M == Moved(s)
      <4>1. IsFiniteSet(M) /\ d + x \in M /\ \A j \in M : f[j] \in Nat
        BY <2>5, <3>2
      <4> HIDE DEF M
      <4>2. Total(f, M) = f[d + x] + Total(f, M \ {d + x})
        BY <4>1, SumTakes
      <4>3. QED
        BY <3>2, <4>2 DEF M
    <3>5. Total(g, s \ {x}) = Total(f, Moved(s \ {x}))
      BY <2>2, <2>3
    <3>6. g[x] = f[d + x]
      BY <2>3
    <3>7. QED
      BY <2>3, <3>3, <3>4, <3>5, <3>6
  <2>8. QED
    BY <2>6, <2>7
<1>3. Total(g, 1 .. n) = Total(f, Moved(1 .. n))
  BY <1>2
<1>4. Moved(1 .. n) = d + 1 .. d + n
  <2>1. \A j \in d + 1 .. d + n : j = d + (j - d) /\ j - d \in 1 .. n
    OBVIOUS
  <2>2. QED
    BY <2>1
<1>5. QED
  BY <1>3, <1>4
=============================================================================
