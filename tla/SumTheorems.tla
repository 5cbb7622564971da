------------------------------ MODULE SumTheorems ------------------------------
(***************************************************************************)
(* Sums over finite sets, as SumFunctionOnSet of module Functions folds    *)
(* them: elements are taken out in an order that CHOOSE fixes, and the     *)
(* lemmas say that the order does not matter.                              *)
(*                                                                         *)
(* The induction is on the finite subsets of a set, and is stated without  *)
(* an operator parameter: a non-empty set of them has a least one          *)
(* (LeastSubset).  Each lemma takes the subsets that refute it, and shows  *)
(* that the least one does not.                                            *)
(***************************************************************************)
EXTENDS Functions, Integers, FiniteSetTheorems, TLAPS

\* The element a fold takes out of a set.
Pick(s) == CHOOSE x \in s : TRUE

\* The recursive function a fold over S is the value of.
Value(g, s, f) == IF s = {} THEN 0 ELSE f[Pick(s)] + g[s \ {Pick(s)}]
Sums(g, S, f) == g = [s \in SUBSET S |-> Value(g, s, f)]

LEMMA PickIn ==
  ASSUME NEW s, s # {}
  PROVE  Pick(s) \in s
BY DEF Pick

\* A set of subsets of a finite set has a least one.
LEMMA LeastSubset ==
  ASSUME NEW S, IsFiniteSet(S), NEW F \in SUBSET SUBSET S, F # {}
  PROVE  \E T \in F : \A U \in F : U \subseteq T => U = T
<1>1. IsWellFoundedOn(StrictSubsetOrdering(S), FiniteSubsetsOf(S))
  BY FS_StrictSubsetOrderingWellFounded
<1>2. F \subseteq FiniteSubsetsOf(S)
  BY FS_Subset DEF FiniteSubsetsOf
<1>3. PICK T \in F : \A U \in F : <<U, T>> \notin StrictSubsetOrdering(S)
  BY <1>1, <1>2, WFMin
<1>4. QED
  BY <1>3 DEF StrictSubsetOrdering

-----------------------------------------------------------------------------
(* The recursion has one solution *)

LEMMA SumsAgree ==
  ASSUME NEW f, NEW S, IsFiniteSet(S), NEW T \in SUBSET S,
         NEW g, Sums(g, S, f), NEW h, Sums(h, T, f)
  PROVE  \A s \in SUBSET T : g[s] = h[s]
<1> DEFINE F == {s \in SUBSET T : g[s] # h[s]}
<1>1. SUFFICES ASSUME F # {}
               PROVE  FALSE
  OBVIOUS
<1>2. IsFiniteSet(T)
  BY FS_Subset
<1>3. F \in SUBSET SUBSET T
  OBVIOUS
<1>4. PICK s \in F : \A U \in F : U \subseteq s => U = s
  <2> HIDE DEF F
  <2>1. QED
    BY <1>1, <1>2, <1>3, LeastSubset
<1>5. g[s] = Value(g, s, f) /\ h[s] = Value(h, s, f)
  BY DEF Sums
<1>6. CASE s = {}
  BY <1>4, <1>5, <1>6 DEF Value
<1>7. CASE s # {}
  <2>1. Pick(s) \in s
    BY <1>7, PickIn
  <2>2. g[s \ {Pick(s)}] = h[s \ {Pick(s)}]
    BY <1>4, <2>1
  <2>3. QED
    BY <1>4, <1>5, <1>7, <2>2 DEF Value
<1>8. QED
  BY <1>6, <1>7

LEMMA SumsExist ==
  ASSUME NEW f, NEW S, IsFiniteSet(S)
  PROVE  \E g : Sums(g, S, f)
<1> DEFINE F == {T \in SUBSET S : ~ \E g : Sums(g, T, f)}
<1>1. SUFFICES ASSUME F # {}
               PROVE  FALSE
  OBVIOUS
<1>2. PICK T \in F : \A U \in F : U \subseteq T => U = T
  <2>1. F \in SUBSET SUBSET S
    OBVIOUS
  <2> HIDE DEF F
  <2>2. QED
    BY <1>1, <2>1, LeastSubset
<1> DEFINE G(U) == CHOOSE g : Sums(g, U, f)
           rest == T \ {Pick(T)}
           last == IF T = {} THEN 0 ELSE f[Pick(T)] + G(rest)[rest]
           g == [s \in SUBSET T |-> IF s = T THEN last ELSE G(s)[s]]
<1>3. \A U \in SUBSET T : U # T => Sums(G(U), U, f) /\ IsFiniteSet(U)
  <2>1. ASSUME NEW U \in SUBSET T, U # T
        PROVE  \E h : Sums(h, U, f)
    BY <1>2, <2>1
  <2>2. QED
    BY <2>1, FS_Subset
<1> HIDE DEF G
<1>4. ASSUME NEW s \in SUBSET T
      PROVE  g[s] = Value(g, s, f)
  <2>1. CASE s = {}
    <3>1. CASE T = {}
      BY <2>1, <3>1 DEF Value
    <3>2. CASE T # {}
      <4>1. G({}) = [t \in SUBSET {} |-> Value(G({}), t, f)]
        BY <1>3, <3>2 DEF Sums
      <4>2. G({})[{}] = Value(G({}), {}, f)
        BY <4>1
      <4>3. QED
        BY <2>1, <3>2, <4>2 DEF Value
    <3>3. QED
      BY <3>1, <3>2
  <2>2. CASE s # {} /\ s = T
    <3>1. rest \in SUBSET T /\ rest # T
      BY <2>2, PickIn
    <3>2. g[rest] = G(rest)[rest] /\ g[T] = f[Pick(T)] + G(rest)[rest]
      <4> HIDE DEF rest
      <4>1. QED
        BY <2>2, <3>1
    <3>3. QED
      BY <2>2, <3>2 DEF Value
  <2>3. CASE s # {} /\ s # T
    <3> DEFINE less == s \ {Pick(s)}
    <3>1. less \in SUBSET s /\ less # T /\ less \in SUBSET T
      BY <2>3, PickIn
    <3>2. Sums(G(s), s, f) /\ Sums(G(less), less, f) /\ IsFiniteSet(s)
      BY <1>3, <2>3, <3>1
    <3>3. G(s)[less] = G(less)[less]
      <4> HIDE DEF less
      <4>1. QED
        BY <3>1, <3>2, SumsAgree
    <3>4. G(s)[s] = Value(G(s), s, f)
      BY <3>2 DEF Sums
    <3>5. g[s] = G(s)[s] /\ g[less] = G(less)[less]
      <4> HIDE DEF less
      <4>1. QED
        BY <2>3, <3>1
    <3>6. QED
      BY <2>3, <3>3, <3>4, <3>5 DEF Value
  <2>4. QED
    BY <2>1, <2>2, <2>3
<1>5. Sums(g, T, f)
  <2>1. g = [s \in SUBSET T |-> g[s]]
    OBVIOUS
  <2> HIDE DEF g
  <2>2. QED
    BY <1>4, <2>1 DEF Sums
<1>6. QED
  BY <1>2, <1>5

\* What the fold computes.
LEMMA SumIsFold ==
  ASSUME NEW f, NEW S, IsFiniteSet(S)
  PROVE  \E g : Sums(g, S, f) /\ SumFunctionOnSet(f, S) = g[S]
<1> DEFINE Q(g) == g = [s \in SUBSET S |-> IF s = {} THEN 0 ELSE f[Pick(s)] + g[s \ {Pick(s)}]]
           it == CHOOSE g : Q(g)
<1>1. PICK h : Sums(h, S, f)
  BY SumsExist
<1>2. Q(it)
  <2>1. Q(h)
    BY <1>1 DEF Sums, Value
  <2>2. QED
    BY <2>1
<1>3. SumFunctionOnSet(f, S) = it[S]
  BY DEF SumFunctionOnSet, FoldFunctionOnSet, MapThenFoldSet, Pick
<1> HIDE DEF it
<1>4. QED
  BY <1>2, <1>3 DEF Sums, Value

LEMMA SumOfNone ==
  ASSUME NEW f
  PROVE  SumFunctionOnSet(f, {}) = 0
<1>1. PICK g : Sums(g, {}, f) /\ SumFunctionOnSet(f, {}) = g[{}]
  BY FS_EmptySet, SumIsFold
<1>2. QED
  BY <1>1 DEF Sums, Value

LEMMA SumTakesOut ==
  ASSUME NEW f, NEW S, IsFiniteSet(S), S # {}
  PROVE  SumFunctionOnSet(f, S) = f[Pick(S)] + SumFunctionOnSet(f, S \ {Pick(S)})
<1> DEFINE less == S \ {Pick(S)}
<1>1. PICK g : Sums(g, S, f) /\ SumFunctionOnSet(f, S) = g[S]
  BY SumIsFold
<1>2. IsFiniteSet(less) /\ less \in SUBSET S
  BY FS_Subset
<1>3. PICK h : Sums(h, less, f) /\ SumFunctionOnSet(f, less) = h[less]
  BY <1>2, SumIsFold
<1>4. g[S] = f[Pick(S)] + g[less]
  BY <1>1 DEF Sums, Value
<1> HIDE DEF less
<1>5. g[less] = h[less]
  BY <1>1, <1>2, <1>3, SumsAgree
<1>6. QED
  BY <1>1, <1>3, <1>4, <1>5 DEF less

-----------------------------------------------------------------------------
(* What a sum is *)

LEMMA SumIsInt ==
  ASSUME NEW f, NEW S, IsFiniteSet(S), \A x \in S : f[x] \in Int
  PROVE  SumFunctionOnSet(f, S) \in Int
<1> DEFINE F == {T \in SUBSET S : SumFunctionOnSet(f, T) \notin Int}
<1>1. SUFFICES ASSUME F # {}
               PROVE  FALSE
  OBVIOUS
<1>2. PICK T \in F : \A U \in F : U \subseteq T => U = T
  <2>1. F \in SUBSET SUBSET S
    OBVIOUS
  <2> HIDE DEF F
  <2>2. QED
    BY <1>1, <2>1, LeastSubset
<1>3. IsFiniteSet(T) /\ T # {}
  <2>1. IsFiniteSet(T)
    BY FS_Subset
  <2>2. T # {}
    BY <1>2, SumOfNone
  <2>3. QED
    BY <2>1, <2>2
<1>4. Pick(T) \in T
  BY <1>3, PickIn
<1>5. SumFunctionOnSet(f, T \ {Pick(T)}) \in Int
  BY <1>2, <1>4
<1>6. SumFunctionOnSet(f, T) = f[Pick(T)] + SumFunctionOnSet(f, T \ {Pick(T)})
  BY <1>3, SumTakesOut
<1>7. f[Pick(T)] \in Int
  BY <1>4
<1>8. QED
  BY <1>2, <1>5, <1>6, <1>7

LEMMA SumIsNat ==
  ASSUME NEW f, NEW S, IsFiniteSet(S), \A x \in S : f[x] \in Nat
  PROVE  SumFunctionOnSet(f, S) \in Nat
<1> DEFINE F == {T \in SUBSET S : SumFunctionOnSet(f, T) \notin Nat}
<1>1. SUFFICES ASSUME F # {}
               PROVE  FALSE
  OBVIOUS
<1>2. PICK T \in F : \A U \in F : U \subseteq T => U = T
  <2>1. F \in SUBSET SUBSET S
    OBVIOUS
  <2> HIDE DEF F
  <2>2. QED
    BY <1>1, <2>1, LeastSubset
<1>3. IsFiniteSet(T) /\ T # {}
  <2>1. IsFiniteSet(T)
    BY FS_Subset
  <2>2. T # {}
    <3>1. SumFunctionOnSet(f, T) # 0
      BY <1>2
    <3>2. QED
      BY <3>1, SumOfNone
  <2>3. QED
    BY <2>1, <2>2
<1>4. Pick(T) \in T
  BY <1>3, PickIn
<1>5. SumFunctionOnSet(f, T \ {Pick(T)}) \in Nat
  BY <1>2, <1>4
<1>6. SumFunctionOnSet(f, T) = f[Pick(T)] + SumFunctionOnSet(f, T \ {Pick(T)})
  BY <1>3, SumTakesOut
<1>7. f[Pick(T)] \in Nat
  BY <1>4
<1>8. QED
  BY <1>2, <1>5, <1>6, <1>7

LEMMA SumOfAlike ==
  ASSUME NEW f, NEW g, NEW S, IsFiniteSet(S), \A x \in S : f[x] = g[x]
  PROVE  SumFunctionOnSet(f, S) = SumFunctionOnSet(g, S)
<1> DEFINE F == {T \in SUBSET S : SumFunctionOnSet(f, T) # SumFunctionOnSet(g, T)}
<1>1. SUFFICES ASSUME F # {}
               PROVE  FALSE
  OBVIOUS
<1>2. PICK T \in F : \A U \in F : U \subseteq T => U = T
  <2>1. F \in SUBSET SUBSET S
    OBVIOUS
  <2> HIDE DEF F
  <2>2. QED
    BY <1>1, <2>1, LeastSubset
<1>3. IsFiniteSet(T) /\ T # {}
  <2>1. IsFiniteSet(T)
    BY FS_Subset
  <2>2. T # {}
    BY <1>2, SumOfNone
  <2>3. QED
    BY <2>1, <2>2
<1>4. Pick(T) \in T
  BY <1>3, PickIn
<1>5. SumFunctionOnSet(f, T \ {Pick(T)}) = SumFunctionOnSet(g, T \ {Pick(T)})
  BY <1>2, <1>4
<1>6. /\ SumFunctionOnSet(f, T) = f[Pick(T)] + SumFunctionOnSet(f, T \ {Pick(T)})
      /\ SumFunctionOnSet(g, T) = g[Pick(T)] + SumFunctionOnSet(g, T \ {Pick(T)})
  BY <1>3, SumTakesOut
<1>7. f[Pick(T)] = g[Pick(T)]
  BY <1>4
<1>8. QED
  BY <1>2, <1>5, <1>6, <1>7

\* Whichever element is taken out.
LEMMA SumWithElement ==
  ASSUME NEW f, NEW S, IsFiniteSet(S), \A x \in S : f[x] \in Int, NEW e \in S
  PROVE  SumFunctionOnSet(f, S) = f[e] + SumFunctionOnSet(f, S \ {e})
<1> DEFINE F == {T \in SUBSET S : \E x \in T :
                  SumFunctionOnSet(f, T) # f[x] + SumFunctionOnSet(f, T \ {x})}
<1>1. SUFFICES ASSUME F # {}
               PROVE  FALSE
  <2>1. F = {} => S \notin F
    OBVIOUS
  <2>2. QED
    BY <2>1
<1>2. PICK T \in F : \A U \in F : U \subseteq T => U = T
  <2>1. F \in SUBSET SUBSET S
    OBVIOUS
  <2> HIDE DEF F
  <2>2. QED
    BY <1>1, <2>1, LeastSubset
<1>3. PICK x \in T : SumFunctionOnSet(f, T) # f[x] + SumFunctionOnSet(f, T \ {x})
  BY <1>2
<1> DEFINE p == Pick(T)
<1>4. IsFiniteSet(T) /\ T \subseteq S /\ p \in T
  BY <1>3, FS_Subset, PickIn
<1>5. SumFunctionOnSet(f, T) = f[p] + SumFunctionOnSet(f, T \ {p})
  BY <1>3, <1>4, SumTakesOut
<1> HIDE DEF p
<1>6. x # p
  BY <1>3, <1>5
<1>7. SumFunctionOnSet(f, T \ {p}) = f[x] + SumFunctionOnSet(f, (T \ {p}) \ {x})
  <2>1. T \ {p} \in SUBSET S /\ T \ {p} \notin F /\ x \in T \ {p}
    BY <1>2, <1>4, <1>6
  <2>2. QED
    BY <2>1
<1>8. SumFunctionOnSet(f, T \ {x}) = f[p] + SumFunctionOnSet(f, (T \ {x}) \ {p})
  <2>1. T \ {x} \in SUBSET S /\ T \ {x} \notin F /\ p \in T \ {x}
    BY <1>2, <1>4, <1>6
  <2>2. QED
    BY <2>1
<1>9. SumFunctionOnSet(f, (T \ {p}) \ {x}) = SumFunctionOnSet(f, (T \ {x}) \ {p})
  <2>1. (T \ {p}) \ {x} = (T \ {x}) \ {p}
    OBVIOUS
  <2>2. QED
    BY <2>1
<1>10. /\ f[x] \in Int /\ f[p] \in Int
       /\ SumFunctionOnSet(f, (T \ {x}) \ {p}) \in Int
  <2>1. IsFiniteSet((T \ {x}) \ {p})
    BY <1>4, FS_Subset
  <2>2. QED
    BY <1>4, <2>1, SumIsInt
<1>11. SumFunctionOnSet(f, T) = f[x] + SumFunctionOnSet(f, T \ {x})
  <2> HIDE DEF F
  <2>1. QED
    BY <1>5, <1>7, <1>8, <1>9, <1>10
<1>12. QED
  BY <1>3, <1>11

\* Two sets without a common element.
LEMMA SumOfBoth ==
  ASSUME NEW f, NEW S, IsFiniteSet(S), \A x \in S : f[x] \in Int, NEW T \in SUBSET S
  PROVE  SumFunctionOnSet(f, S) = SumFunctionOnSet(f, T) + SumFunctionOnSet(f, S \ T)
<1> DEFINE F == {U \in SUBSET T :
                  SumFunctionOnSet(f, S) # SumFunctionOnSet(f, U) + SumFunctionOnSet(f, S \ U)}
<1>1. SUFFICES ASSUME F # {}
               PROVE  FALSE
  <2>1. F = {} => T \notin F
    OBVIOUS
  <2>2. QED
    BY <2>1
<1>2. IsFiniteSet(T)
  BY FS_Subset
<1>3. PICK U \in F : \A V \in F : V \subseteq U => V = U
  <2>1. F \in SUBSET SUBSET T
    OBVIOUS
  <2> HIDE DEF F
  <2>2. QED
    BY <1>1, <1>2, <2>1, LeastSubset
<1> DEFINE p == Pick(U)
<1>4. SumFunctionOnSet(f, S) \in Int
  BY SumIsInt
<1>5. U # {}
  <2>1. ASSUME U = {}
        PROVE  FALSE
    <3>1. SumFunctionOnSet(f, U) = 0
      BY <2>1, SumOfNone
    <3>2. S \ U = S
      BY <2>1
    <3>3. SumFunctionOnSet(f, S \ U) = SumFunctionOnSet(f, S)
      BY <3>2
    <3>4. QED
      BY <1>3, <1>4, <3>1, <3>3
  <2>2. QED
    BY <2>1
<1>6. p \in U /\ U \subseteq S
  BY <1>5, PickIn
<1> HIDE DEF p
<1>7. SumFunctionOnSet(f, S) = SumFunctionOnSet(f, U \ {p}) + SumFunctionOnSet(f, S \ (U \ {p}))
  <2>1. U \ {p} \in SUBSET T /\ U \ {p} \notin F
    BY <1>3, <1>6
  <2>2. QED
    BY <2>1
<1>8. IsFiniteSet(U) /\ IsFiniteSet(U \ {p}) /\ IsFiniteSet(S \ U) /\ IsFiniteSet(S \ (U \ {p}))
  BY <1>6, FS_Subset
<1>9. SumFunctionOnSet(f, U) = f[p] + SumFunctionOnSet(f, U \ {p})
  BY <1>6, <1>8, SumWithElement
<1>10. SumFunctionOnSet(f, S \ (U \ {p})) = f[p] + SumFunctionOnSet(f, S \ U)
  <2>1. p \in S \ (U \ {p}) /\ (S \ (U \ {p})) \ {p} = S \ U
    BY <1>6
  <2>2. \A x \in S \ (U \ {p}) : f[x] \in Int
    OBVIOUS
  <2>3. QED
    BY <1>8, <2>1, <2>2, SumWithElement
<1>11. /\ f[p] \in Int /\ SumFunctionOnSet(f, U \ {p}) \in Int
       /\ SumFunctionOnSet(f, S \ U) \in Int
  BY <1>6, <1>8, SumIsInt
<1>12. SumFunctionOnSet(f, S) = SumFunctionOnSet(f, U) + SumFunctionOnSet(f, S \ U)
  BY <1>7, <1>9, <1>10, <1>11
<1>13. QED
  BY <1>3, <1>12

\* One value changes.
LEMMA SumOfChange ==
  ASSUME NEW f, NEW g, NEW S, IsFiniteSet(S), NEW e \in S,
         \A x \in S : f[x] \in Int /\ g[x] \in Int, \A x \in S \ {e} : g[x] = f[x]
  PROVE  SumFunctionOnSet(g, S) = SumFunctionOnSet(f, S) - f[e] + g[e]
<1>1. IsFiniteSet(S \ {e})
  BY FS_Subset
<1>2. SumFunctionOnSet(g, S \ {e}) = SumFunctionOnSet(f, S \ {e})
  BY <1>1, SumOfAlike
<1>3. SumFunctionOnSet(f, S) = f[e] + SumFunctionOnSet(f, S \ {e})
  BY SumWithElement
<1>4. SumFunctionOnSet(g, S) = g[e] + SumFunctionOnSet(g, S \ {e})
  BY SumWithElement
<1>5. SumFunctionOnSet(f, S \ {e}) \in Int
  BY <1>1, SumIsInt
<1>6. QED
  BY <1>2, <1>3, <1>4, <1>5

\* No value grows.
LEMMA SumOfLess ==
  ASSUME NEW f, NEW g, NEW S, IsFiniteSet(S),
         \A x \in S : f[x] \in Int /\ g[x] \in Int /\ g[x] <= f[x]
  PROVE  SumFunctionOnSet(g, S) <= SumFunctionOnSet(f, S)
<1> DEFINE F == {T \in SUBSET S : ~(SumFunctionOnSet(g, T) <= SumFunctionOnSet(f, T))}
<1>1. SUFFICES ASSUME F # {}
               PROVE  FALSE
  OBVIOUS
<1>2. PICK T \in F : \A U \in F : U \subseteq T => U = T
  <2>1. F \in SUBSET SUBSET S
    OBVIOUS
  <2> HIDE DEF F
  <2>2. QED
    BY <1>1, <2>1, LeastSubset
<1>3. T # {}
  <2>1. ~(SumFunctionOnSet(g, T) <= SumFunctionOnSet(f, T))
    BY <1>2
  <2>2. QED
    BY <2>1, SumOfNone
<1> DEFINE p == Pick(T)
<1>4. IsFiniteSet(T) /\ T \subseteq S /\ p \in T
  BY <1>3, FS_Subset, PickIn
<1> HIDE DEF p
<1>5. SumFunctionOnSet(g, T \ {p}) <= SumFunctionOnSet(f, T \ {p})
  BY <1>2, <1>4
<1>6. /\ SumFunctionOnSet(f, T) = f[p] + SumFunctionOnSet(f, T \ {p})
      /\ SumFunctionOnSet(g, T) = g[p] + SumFunctionOnSet(g, T \ {p})
  BY <1>4, SumWithElement
<1>7. IsFiniteSet(T \ {p}) /\ T \ {p} \subseteq S
  BY <1>4, FS_Subset
<1>8. SumFunctionOnSet(f, T \ {p}) \in Int /\ SumFunctionOnSet(g, T \ {p}) \in Int
  BY <1>7, SumIsInt
<1>9. f[p] \in Int /\ g[p] \in Int /\ g[p] <= f[p]
  BY <1>4
<1>10. SumFunctionOnSet(g, T) <= SumFunctionOnSet(f, T)
  <2> HIDE DEF F
  <2>1. QED
    BY <1>5, <1>6, <1>8, <1>9
<1>11. QED
  BY <1>2, <1>10

\* No value is anything.
LEMMA SumOfZeros ==
  ASSUME NEW f, NEW S, IsFiniteSet(S), \A x \in S : f[x] = 0
  PROVE  SumFunctionOnSet(f, S) = 0
<1> DEFINE F == {T \in SUBSET S : SumFunctionOnSet(f, T) # 0}
<1>1. SUFFICES ASSUME F # {}
               PROVE  FALSE
  OBVIOUS
<1>2. PICK T \in F : \A U \in F : U \subseteq T => U = T
  <2>1. F \in SUBSET SUBSET S
    OBVIOUS
  <2> HIDE DEF F
  <2>2. QED
    BY <1>1, <2>1, LeastSubset
<1>3. IsFiniteSet(T) /\ T # {}
  <2>1. IsFiniteSet(T)
    BY FS_Subset
  <2>2. T # {}
    BY <1>2, SumOfNone
  <2>3. QED
    BY <2>1, <2>2
<1>4. Pick(T) \in T
  BY <1>3, PickIn
<1>5. SumFunctionOnSet(f, T \ {Pick(T)}) = 0 /\ f[Pick(T)] = 0
  BY <1>2, <1>4
<1>6. QED
  BY <1>2, <1>3, <1>5, SumTakesOut

\* A part of a sum of naturals.
LEMMA SumOfPart ==
  ASSUME NEW f, NEW S, IsFiniteSet(S), \A x \in S : f[x] \in Nat, NEW T \in SUBSET S
  PROVE  SumFunctionOnSet(f, T) <= SumFunctionOnSet(f, S)
<1>1. IsFiniteSet(T) /\ IsFiniteSet(S \ T)
  BY FS_Subset
<1>2. SumFunctionOnSet(f, T) \in Nat /\ SumFunctionOnSet(f, S \ T) \in Nat
  BY <1>1, SumIsNat
<1>3. SumFunctionOnSet(f, S) = SumFunctionOnSet(f, T) + SumFunctionOnSet(f, S \ T)
  BY SumOfBoth
<1>4. QED
  BY <1>2, <1>3
=============================================================================
