-------------------------- MODULE ModelGatewayProofs --------------------------
(***************************************************************************)
(* What the model gateway promises of money, for any catalog, policies,    *)
(* clients and calls.                                                      *)
(***************************************************************************)
EXTENDS UsageReads, FiniteSetTheorems, WellFoundedInduction, TLAPS

-----------------------------------------------------------------------------
(* Sums and extremes of finite sets *)

\* The order that well-founded induction runs on.
LessNat == {p \in Nat \X Nat : p[1] < p[2]}

\* A nonempty set of naturals has a least member: inductions below look for the least
\* counterexample.
LEMMA LeastNat == ASSUME NEW T, T \subseteq Nat, T # {} PROVE \E x \in T : \A y \in T : x <= y
<1>1. IsWellFoundedOn(LessNat, Nat) BY NatLessThanWellFounded, Zenon DEF LessNat, OpToRel
<1>2. \E x \in T : \A y \in T : ~(<<y, x>> \in LessNat)
  BY <1>1, WFMin
<1>3. PICK x \in T : \A y \in T : ~(<<y, x>> \in LessNat)
  BY <1>2
<1>4. \A y \in T : x <= y
  <2> TAKE y \in T
  <2>1. x \in Nat /\ y \in Nat OBVIOUS
  <2>2. ~(y < x) BY <1>3, <2>1 DEF LessNat
  <2> QED BY <2>1, <2>2
<1> QED BY <1>4

\* A smallest set among finite ones.
LEMMA SmallestSet ==
    ASSUME NEW C, C # {}, \A S \in C : IsFiniteSet(S)
    PROVE  \E S \in C : \A U \in C : Cardinality(S) <= Cardinality(U)
<1>1. {Cardinality(S) : S \in C} \subseteq Nat /\ {Cardinality(S) : S \in C} # {}
  BY FS_CardinalityType
<1>2. \E n \in {Cardinality(S) : S \in C} : \A m \in {Cardinality(S) : S \in C} : n <= m
  BY <1>1, LeastNat
<1> QED BY <1>2

\* iter adds f up over the subsets of S.
Adds(iter, f, S) ==
    iter = [s \in SUBSET S |-> IF s = {} THEN 0
                               ELSE f[CHOOSE x \in s : TRUE] + iter[s \ {CHOOSE x \in s : TRUE}]]

\* Two such functions agree where both are defined.
LEMMA AddsOnce ==
    ASSUME NEW f, NEW A, NEW B, NEW g, NEW h, IsFiniteSet(A), Adds(g, f, A), Adds(h, f, B)
    PROVE  \A s \in SUBSET (A \cap B) : g[s] = h[s]
<1> DEFINE Bad == {s \in SUBSET (A \cap B) : g[s] # h[s]}
<1> SUFFICES ASSUME Bad # {} PROVE FALSE
  OBVIOUS
<1>1. \A s \in Bad : IsFiniteSet(s)
  BY FS_Subset
<1>2. PICK s \in Bad : \A u \in Bad : Cardinality(s) <= Cardinality(u)
  <2> HIDE DEF Bad
  <2> QED BY <1>1, SmallestSet
<1>3. CASE s = {}
  BY <1>2, <1>3 DEF Adds
<1>4. CASE s # {}
  <2>1. PICK x : x = CHOOSE y \in s : TRUE
    OBVIOUS
  <2>2. x \in s
    BY <1>4, <2>1
  <2>3. s \ {x} \in SUBSET (A \cap B) /\ s \in SUBSET A /\ s \in SUBSET B
    BY <1>2
  <2>4. g[s] = f[x] + g[s \ {x}] /\ h[s] = f[x] + h[s \ {x}]
    BY <1>4, <2>1, <2>3 DEF Adds
  <2>5. s \ {x} \in Bad
    BY <1>2, <2>3, <2>4
  <2>6. IsFiniteSet(s) /\ Cardinality(s \ {x}) = Cardinality(s) - 1 /\ Cardinality(s) \in Nat
    BY <1>1, <1>2, <2>2, FS_RemoveElement, FS_CardinalityType
  <2> QED BY <1>2, <2>5, <2>6
<1> QED BY <1>3, <1>4

\* The function SumFunctionOnSet recurs by.
Iter(f, S) == CHOOSE g : Adds(g, f, S)

\* There is one over every finite set.
LEMMA AddsExists == ASSUME NEW f, NEW S, IsFiniteSet(S) PROVE \E g : Adds(g, f, S)
<1> DEFINE Bad == {T \in SUBSET S : ~\E g : Adds(g, f, T)}
<1> SUFFICES ASSUME Bad # {} PROVE FALSE
  OBVIOUS
<1>1. \A T \in Bad : IsFiniteSet(T)
  BY FS_Subset
<1>2. PICK T \in Bad : \A U \in Bad : Cardinality(T) <= Cardinality(U)
  <2> HIDE DEF Bad
  <2> QED BY <1>1, SmallestSet
<1>3. IsFiniteSet(T) /\ T \subseteq S /\ Cardinality(T) \in Nat
  BY <1>1, <1>2, FS_CardinalityType
<1>4. \A x \in T : Adds(Iter(f, T \ {x}), f, T \ {x}) /\ IsFiniteSet(T \ {x})
  <2> TAKE x \in T
  <2>1. Cardinality(T \ {x}) = Cardinality(T) - 1 /\ IsFiniteSet(T \ {x})
    BY <1>3, FS_RemoveElement
  <2>2. T \ {x} \notin Bad
    BY <1>2, <1>3, <2>1
  <2>3. \E g : Adds(g, f, T \ {x})
    BY <1>3, <2>2
  <2> QED BY <2>1, <2>3 DEF Iter
<1> DEFINE c(s) == CHOOSE x \in s : TRUE
           G == [s \in SUBSET T |-> IF s = {} THEN 0
                    ELSE f[c(s)] + Iter(f, T \ {c(s)})[s \ {c(s)}]]
<1>5. \A s \in SUBSET T : s # {} => c(s) \in s
  OBVIOUS
<1> HIDE DEF c
<1>6. ASSUME NEW s \in SUBSET T, s # {}
      PROVE  Iter(f, T \ {c(s)})[s \ {c(s)}] = G[s \ {c(s)}]
  <2>1. PICK x, t : x = c(s) /\ t = s \ {x}
    OBVIOUS
  <2>2. x \in T /\ t \in SUBSET (T \ {x}) /\ t \in SUBSET T
    BY <1>5, <1>6, <2>1
  <2>3. Adds(Iter(f, T \ {x}), f, T \ {x})
    BY <1>4, <2>2
  <2>4. CASE t = {}
    <3>1. Iter(f, T \ {x})[t] = 0
      BY <2>2, <2>3, <2>4 DEF Adds
    <3>2. G[t] = 0
      BY <2>2, <2>4
    <3> QED BY <2>1, <3>1, <3>2
  <2>5. CASE t # {}
    <3>1. PICK y, u : y = c(t) /\ u = t \ {y}
      OBVIOUS
    <3>2. y \in t /\ y \in T /\ u \in SUBSET ((T \ {x}) \cap (T \ {y}))
      BY <1>5, <2>2, <2>5, <3>1
    <3>3. Adds(Iter(f, T \ {y}), f, T \ {y}) /\ IsFiniteSet(T \ {x})
      BY <1>4, <2>2, <3>2
    <3>4. Iter(f, T \ {x})[u] = Iter(f, T \ {y})[u]
      BY <2>3, <3>2, <3>3, AddsOnce
    <3>5. Iter(f, T \ {x})[t] = f[y] + Iter(f, T \ {x})[u]
      BY <2>2, <2>3, <2>5, <3>1 DEF Adds, c
    <3>6. G[t] = f[y] + Iter(f, T \ {y})[u]
      BY <2>2, <2>5, <3>1
    <3> QED BY <2>1, <3>4, <3>5, <3>6
  <2> QED BY <2>4, <2>5
<1>7. Adds(G, f, T)
  <2>1. G = [s \in SUBSET T |-> G[s]]
    OBVIOUS
  <2>2. \A s \in SUBSET T : G[s] = IF s = {} THEN 0 ELSE f[c(s)] + G[s \ {c(s)}]
    <3>1. \A s \in SUBSET T : G[s] = IF s = {} THEN 0
                    ELSE f[c(s)] + Iter(f, T \ {c(s)})[s \ {c(s)}]
      OBVIOUS
    <3> HIDE DEF G
    <3> QED BY <1>6, <3>1
  <2> HIDE DEF G
  <2>3. G = [s \in SUBSET T |-> IF s = {} THEN 0 ELSE f[c(s)] + G[s \ {c(s)}]]
    BY <2>1, <2>2, Zenon
  <2> QED BY <2>3, Zenon DEF Adds, c
<1> QED BY <1>2, <1>7

\* What SumFunctionOnSet is.
LEMMA SumIsIter == ASSUME NEW f, NEW S PROVE SumFunctionOnSet(f, S) = Iter(f, S)[S]
BY DEF SumFunctionOnSet, FoldFunctionOnSet, MapThenFoldSet, Iter, Adds

\* A sum is one of its terms and the sum of the rest; the sum of nothing is 0.
LEMMA SumStep ==
    ASSUME NEW f, NEW S, IsFiniteSet(S)
    PROVE  /\ SumFunctionOnSet(f, {}) = 0
           /\ S # {} => \E x \in S :
                 SumFunctionOnSet(f, S) = f[x] + SumFunctionOnSet(f, S \ {x})
<1>1. \A T \in SUBSET S : IsFiniteSet(T) /\ Adds(Iter(f, T), f, T)
  BY FS_Subset, AddsExists DEF Iter
<1>2. SumFunctionOnSet(f, {}) = 0
  <2>1. Adds(Iter(f, {}), f, {})
    BY <1>1
  <2> QED BY <2>1, SumIsIter DEF Adds
<1>3. ASSUME S # {}, NEW x, x = CHOOSE y \in S : TRUE
      PROVE  x \in S /\ SumFunctionOnSet(f, S) = f[x] + SumFunctionOnSet(f, S \ {x})
  <2>1. x \in S
    BY <1>3
  <2>2. Adds(Iter(f, S), f, S) /\ Adds(Iter(f, S \ {x}), f, S \ {x})
    BY <1>1
  <2>3. Iter(f, S)[S] = f[x] + Iter(f, S)[S \ {x}]
    BY <1>3, <2>2 DEF Adds
  <2>4. S \ {x} \in SUBSET (S \cap (S \ {x}))
    OBVIOUS
  <2>5. Iter(f, S)[S \ {x}] = Iter(f, S \ {x})[S \ {x}]
    BY <2>2, <2>4, AddsOnce
  <2> QED BY <2>1, <2>3, <2>5, SumIsIter
<1> QED BY <1>2, <1>3

\* A sum of integers is one, and any of its terms may be taken first.
LEMMA SumRemove ==
    ASSUME NEW f, NEW S, IsFiniteSet(S), \A x \in S : f[x] \in Int
    PROVE  /\ SumFunctionOnSet(f, S) \in Int
           /\ \A x \in S : SumFunctionOnSet(f, S) = f[x] + SumFunctionOnSet(f, S \ {x})
<1> DEFINE Sum(T) == SumFunctionOnSet(f, T)
           Holds(T) == Sum(T) \in Int /\ \A x \in T : Sum(T) = f[x] + Sum(T \ {x})
           Bad == {T \in SUBSET S : ~Holds(T)}
<1> SUFFICES ASSUME Bad # {} PROVE FALSE
  OBVIOUS
<1>1. \A T \in Bad : IsFiniteSet(T)
  BY FS_Subset
<1>2. PICK T \in Bad : \A U \in Bad : Cardinality(T) <= Cardinality(U)
  <2> HIDE DEF Bad
  <2> QED BY <1>1, SmallestSet
<1>3. IsFiniteSet(T) /\ T \subseteq S /\ Cardinality(T) \in Nat
  BY <1>1, <1>2, FS_CardinalityType
<1>4. \A x \in T : Holds(T \ {x}) /\ IsFiniteSet(T \ {x})
  <2> TAKE x \in T
  <2>1. Cardinality(T \ {x}) = Cardinality(T) - 1 /\ IsFiniteSet(T \ {x})
    BY <1>3, FS_RemoveElement
  <2>2. T \ {x} \notin Bad
    <3>1. Cardinality(T \ {x}) < Cardinality(T) /\ Cardinality(T \ {x}) \in Nat
      BY <1>3, <2>1, FS_CardinalityType
    <3> HIDE DEF Bad
    <3> QED BY <1>2, <1>3, <3>1
  <2>3. T \ {x} \in SUBSET S
    BY <1>3
  <2> QED BY <2>1, <2>2, <2>3
<1>5. Holds(T)
  <2>1. CASE T = {}
    BY <2>1, <1>3, SumStep
  <2>2. CASE T # {}
    <3>2. PICK y \in T : Sum(T) = f[y] + Sum(T \ {y})
      BY <1>3, <2>2, SumStep
    <3>3. Sum(T \ {y}) \in Int /\ f[y] \in Int
      <4>1. Holds(T \ {y})
        <5> HIDE DEF Holds
        <5> QED BY <1>4, <3>2
      <4>2. f[y] \in Int
        BY <1>3, <3>2
      <4> QED BY <4>1, <4>2
    <3>4. ASSUME NEW x \in T, x # y PROVE Sum(T) = f[x] + Sum(T \ {x})
      <4>1. x \in T \ {y} /\ y \in T \ {x} /\ (T \ {y}) \ {x} = (T \ {x}) \ {y}
        BY <3>2, <3>4
      <4> DEFINE u == (T \ {x}) \ {y}
      <4>2. Sum(T \ {y}) = f[x] + Sum(u) /\ Sum(T \ {x}) = f[y] + Sum(u)
        <5>1. Holds(T \ {y}) /\ Holds(T \ {x})
          <6> HIDE DEF Holds
          <6> QED BY <1>4, <3>2
        <5> HIDE DEF Sum
        <5> QED BY <4>1, <5>1
      <4>3. Sum(u) \in Int
        <5>1. Cardinality(u) < Cardinality(T) /\ u \in SUBSET S
          <6>1. IsFiniteSet(T \ {x}) /\ Cardinality(T \ {x}) = Cardinality(T) - 1
            BY <1>3, FS_RemoveElement
          <6>2. Cardinality(u) = Cardinality(T \ {x}) - 1
            BY <4>1, <6>1, FS_RemoveElement
          <6> QED BY <1>3, <6>1, <6>2
        <5>2. IsFiniteSet(u) /\ Cardinality(u) \in Nat
          BY <1>3, FS_Subset, FS_CardinalityType
        <5>3. u \notin Bad
          <6> HIDE DEF Bad, u
          <6> QED BY <1>2, <1>3, <5>1, <5>2
        <5> HIDE DEF u
        <5> QED BY <5>1, <5>3
      <4>4. f[x] \in Int
        BY <1>3
      <4> HIDE DEF u, Sum
      <4> QED BY <3>2, <3>3, <4>2, <4>3, <4>4
    <3> HIDE DEF Sum
    <3> QED BY <3>2, <3>3, <3>4
  <2> QED BY <2>1, <2>2
<1> QED BY <1>2, <1>5

\* Sums of terms in order are in that order.
LEMMA SumBelow ==
    ASSUME NEW f, NEW g, NEW S, IsFiniteSet(S),
           \A x \in S : f[x] \in Int /\ g[x] \in Int /\ f[x] <= g[x]
    PROVE  SumFunctionOnSet(f, S) <= SumFunctionOnSet(g, S)
<1> DEFINE Bad == {T \in SUBSET S : ~(SumFunctionOnSet(f, T) <= SumFunctionOnSet(g, T))}
<1> SUFFICES ASSUME Bad # {} PROVE FALSE
  OBVIOUS
<1>1. \A T \in Bad : IsFiniteSet(T)
  BY FS_Subset
<1>2. PICK T \in Bad : \A U \in Bad : Cardinality(T) <= Cardinality(U)
  <2> HIDE DEF Bad
  <2> QED BY <1>1, SmallestSet
<1>3. IsFiniteSet(T) /\ T \subseteq S /\ Cardinality(T) \in Nat
  BY <1>1, <1>2, FS_CardinalityType
<1>4. CASE T = {}
  <2>1. SumFunctionOnSet(f, {}) = 0 /\ SumFunctionOnSet(g, {}) = 0
    BY SumStep, FS_EmptySet
  <2> QED BY <1>2, <1>4, <2>1
<1>5. CASE T # {}
  <2>1. PICK x \in T : TRUE
    BY <1>5
  <2>2. IsFiniteSet(T \ {x}) /\ Cardinality(T \ {x}) = Cardinality(T) - 1
    BY <1>3, FS_RemoveElement
  <2>3. SumFunctionOnSet(f, T \ {x}) <= SumFunctionOnSet(g, T \ {x})
    <3>1. Cardinality(T \ {x}) < Cardinality(T) /\ Cardinality(T \ {x}) \in Nat
      BY <1>3, <2>2, FS_CardinalityType
    <3>2. T \ {x} \notin Bad
      <4> HIDE DEF Bad
      <4> QED BY <1>2, <1>3, <3>1
    <3> QED BY <1>3, <3>2
  <2>4. /\ SumFunctionOnSet(f, T) = f[x] + SumFunctionOnSet(f, T \ {x})
        /\ SumFunctionOnSet(g, T) = g[x] + SumFunctionOnSet(g, T \ {x})
        /\ SumFunctionOnSet(f, T \ {x}) \in Int /\ SumFunctionOnSet(g, T \ {x}) \in Int
    <3>1. /\ \A y \in T : f[y] \in Int /\ g[y] \in Int
          /\ \A y \in T \ {x} : f[y] \in Int /\ g[y] \in Int
      BY <1>3
    <3> QED BY <1>3, <2>2, <3>1, SumRemove
  <2>5. f[x] \in Int /\ g[x] \in Int /\ f[x] <= g[x]
    BY <1>3
  <2> QED BY <1>2, <2>3, <2>4, <2>5
<1> QED BY <1>4, <1>5

\* Sums of the same terms are the same.
LEMMA SumSame ==
    ASSUME NEW f, NEW g, NEW S, IsFiniteSet(S),
           \A x \in S : f[x] \in Int /\ f[x] = g[x]
    PROVE  SumFunctionOnSet(f, S) = SumFunctionOnSet(g, S)
<1>1. \A x \in S : g[x] \in Int /\ f[x] <= g[x] /\ g[x] <= f[x]
  OBVIOUS
<1>2. SumFunctionOnSet(f, S) <= SumFunctionOnSet(g, S)
  BY <1>1, SumBelow
<1>3. SumFunctionOnSet(g, S) <= SumFunctionOnSet(f, S)
  BY <1>1, SumBelow
<1>4. SumFunctionOnSet(f, S) \in Int /\ SumFunctionOnSet(g, S) \in Int
  BY <1>1, SumRemove
<1> QED BY <1>2, <1>3, <1>4

\* A sum of no negative terms is not negative.
LEMMA SumNat ==
    ASSUME NEW f, NEW S, IsFiniteSet(S), \A x \in S : f[x] \in Nat
    PROVE  SumFunctionOnSet(f, S) \in Nat
<1> DEFINE zero == [x \in S |-> 0]
<1>1. \A T \in SUBSET S : SumFunctionOnSet(zero, T) = 0
  <2> DEFINE Bad == {T \in SUBSET S : SumFunctionOnSet(zero, T) # 0}
  <2> SUFFICES ASSUME Bad # {} PROVE FALSE
    OBVIOUS
  <2>1. \A T \in Bad : IsFiniteSet(T)
    BY FS_Subset
  <2>2. PICK T \in Bad : \A U \in Bad : Cardinality(T) <= Cardinality(U)
    <3> HIDE DEF Bad
    <3> QED BY <2>1, SmallestSet
  <2>3. IsFiniteSet(T) /\ T \subseteq S /\ Cardinality(T) \in Nat
    BY <2>1, <2>2, FS_CardinalityType
  <2>4. PICK x \in T : TRUE
    BY <2>2, <2>3, SumStep
  <2>5. IsFiniteSet(T \ {x}) /\ Cardinality(T \ {x}) = Cardinality(T) - 1
    BY <2>3, FS_RemoveElement
  <2>6. SumFunctionOnSet(zero, T \ {x}) = 0
    BY <2>2, <2>3, <2>5
  <2>7. \A y \in T : zero[y] = 0 /\ zero[y] \in Int
    BY <2>3
  <2>8. SumFunctionOnSet(zero, T) = zero[x] + SumFunctionOnSet(zero, T \ {x})
    BY <2>3, <2>7, SumRemove
  <2> QED BY <2>2, <2>4, <2>6, <2>7, <2>8
<1>2. \A x \in S : zero[x] \in Int /\ f[x] \in Int /\ zero[x] <= f[x]
  OBVIOUS
<1>3. SumFunctionOnSet(zero, S) <= SumFunctionOnSet(f, S) /\ SumFunctionOnSet(f, S) \in Int
  <2> HIDE DEF zero
  <2> QED BY <1>2, SumBelow, SumRemove
<1> QED BY <1>1, <1>3

\* A finite set of integers has a Max and a Min, and they are its own.
LEMMA Extremes ==
    ASSUME NEW S, IsFiniteSet(S), S # {}, S \subseteq Int
    PROVE  /\ Max(S) \in S /\ \A x \in S : x <= Max(S)
           /\ Min(S) \in S /\ \A x \in S : Min(S) <= x
<1> DEFINE Holds(T) == /\ \E x \in T : \A y \in T : x >= y
                       /\ \E x \in T : \A y \in T : x <= y
           Bad == {T \in SUBSET S : T # {} /\ ~Holds(T)}
<1>0. SUFFICES ASSUME Bad # {} PROVE FALSE
  BY Zenon DEF Max, Min
<1>1. \A T \in Bad : IsFiniteSet(T)
  BY FS_Subset
<1>2. PICK T \in Bad : \A U \in Bad : Cardinality(T) <= Cardinality(U)
  <2> HIDE DEF Bad
  <2> QED BY <1>0, <1>1, SmallestSet
<1>3. IsFiniteSet(T) /\ T \subseteq S /\ Cardinality(T) \in Nat /\ T # {}
  BY <1>1, <1>2, FS_CardinalityType
<1>4. PICK z \in T : TRUE
  BY <1>3
<1>5. Cardinality(T \ {z}) = Cardinality(T) - 1 /\ IsFiniteSet(T \ {z})
  BY <1>3, FS_RemoveElement
<1>6. T \ {z} \notin Bad
  <2>1. Cardinality(T \ {z}) < Cardinality(T) /\ Cardinality(T \ {z}) \in Nat
    BY <1>3, <1>5, FS_CardinalityType
  <2> HIDE DEF Bad
  <2> QED BY <1>2, <1>3, <2>1
<1>7. z \in Int /\ \A x \in T : x \in Int
  BY <1>3
<1>8. CASE T \ {z} = {}
  <2>1. \A x \in T : x = z
    BY <1>8
  <2> QED BY <1>2, <1>7, <2>1
<1>9. CASE T \ {z} # {}
  <2>1. Holds(T \ {z})
    BY <1>3, <1>6, <1>9
  <2>2. PICK a \in T \ {z} : \A y \in T \ {z} : a >= y
    BY <2>1
  <2>3. PICK b \in T \ {z} : \A y \in T \ {z} : b <= y
    BY <2>1
  <2>4. \E x \in T : \A y \in T : x >= y
    <3>1. CASE z >= a
      <4>1. \A y \in T : z >= y
        BY <1>7, <2>2, <3>1
      <4> QED BY <4>1
    <3>2. CASE ~(z >= a)
      <4>1. \A y \in T : a >= y
        BY <1>7, <2>2, <3>2
      <4> QED BY <4>1
    <3> QED BY <3>1, <3>2
  <2>5. \E x \in T : \A y \in T : x <= y
    <3>1. CASE z <= b
      <4>1. \A y \in T : z <= y
        BY <1>7, <2>3, <3>1
      <4> QED BY <4>1
    <3>2. CASE ~(z <= b)
      <4>1. \A y \in T : b <= y
        BY <1>7, <2>3, <3>2
      <4> QED BY <4>1
    <3> QED BY <3>1, <3>2
  <2> QED BY <1>2, <2>4, <2>5
<1> QED BY <1>8, <1>9

\* The counts of tokens that are paid for.
Paid(available, price, ceiling) == {n \in 0..ceiling : price * n <= available}

Middle(r) == (r[1] + r[2] + 1) \div 2

\* search bisects for the last member of `paid`.
Bisects(search, paid, ceiling) ==
    search = [r \in (0..ceiling) \X (0..ceiling) |->
                IF r[1] >= r[2] THEN r[1]
                ELSE IF Middle(r) \in paid THEN search[<<Middle(r), r[2]>>]
                     ELSE search[<<r[1], Middle(r) - 1>>]]

\* n is the last member of `paid` from low to high, or low.
LastPaid(n, paid, low, high) ==
    /\ n \in low..high /\ (n = low \/ n \in paid)
    /\ \A m \in low..high : m \in paid => m <= n

\* What is paid for begins at 0 and has no gap.
Downward(paid, ceiling) ==
    paid \subseteq 0..ceiling /\ \A m \in paid : \A n \in 0..ceiling : n <= m => n \in paid

\* The candidate of a bisection is above its lower end and within its upper one.
LEMMA MiddleFacts ==
    ASSUME NEW low \in Nat, NEW high \in Nat, low < high
    PROVE  Middle(<<low, high>>) \in low + 1 .. high
BY DEF Middle

\* A bisection ends at the last count that is paid for.
LEMMA BisectionEnds ==
    ASSUME NEW ceiling \in Nat, NEW paid, Downward(paid, ceiling), NEW s, Bisects(s, paid, ceiling)
    PROVE  \A low, high \in 0..ceiling : low <= high => LastPaid(s[<<low, high>>], paid, low, high)
<1> DEFINE Wrong(low, high) == low <= high /\ ~LastPaid(s[<<low, high>>], paid, low, high)
           Bad == {d \in Nat : \E low, high \in 0..ceiling : Wrong(low, high) /\ d = high - low}
<1>1. SUFFICES ASSUME Bad # {} PROVE FALSE
  <2> SUFFICES ASSUME NEW low \in 0..ceiling, NEW high \in 0..ceiling, low <= high,
                      ~LastPaid(s[<<low, high>>], paid, low, high)
               PROVE  Bad # {}
    BY <1>1
  <2>1. high - low \in Nat
    OBVIOUS
  <2> QED BY <2>1
<1>2. PICK d \in Bad : \A e \in Bad : d <= e
  <2>1. Bad \subseteq Nat
    OBVIOUS
  <2> HIDE DEF Bad
  <2> QED BY <1>1, <2>1, LeastNat
<1>3. PICK low, high : low \in 0..ceiling /\ high \in 0..ceiling /\ Wrong(low, high) /\ d = high - low
  BY <1>2
<1>4. ASSUME NEW l \in 0..ceiling, NEW h \in 0..ceiling, l <= h, h - l < high - low
      PROVE  LastPaid(s[<<l, h>>], paid, l, h)
  <2> SUFFICES ASSUME ~LastPaid(s[<<l, h>>], paid, l, h) PROVE FALSE
    OBVIOUS
  <2>1. h - l \in Bad
    BY <1>4
  <2> HIDE DEF Bad
  <2> QED BY <1>2, <1>3, <1>4, <2>1
<1>5. CASE low >= high
  <2>1. low = high /\ s[<<low, high>>] = low
    BY <1>3, <1>5 DEF Bisects
  <2> QED BY <1>3, <2>1 DEF LastPaid
<1>6. CASE low < high
  <2>1. PICK m : m = Middle(<<low, high>>)
    OBVIOUS
  <2>2. m \in low + 1 .. high
    BY <1>3, <1>6, <2>1, MiddleFacts
  <2>3. s[<<low, high>>] = IF m \in paid THEN s[<<m, high>>] ELSE s[<<low, m - 1>>]
    <3>1. PICK r : r = <<low, high>>
      OBVIOUS
    <3>2. r \in (0..ceiling) \X (0..ceiling) /\ r[1] = low /\ r[2] = high
      BY <1>3, <3>1
    <3>3. s[r] = IF r[1] >= r[2] THEN r[1]
                 ELSE IF Middle(r) \in paid THEN s[<<Middle(r), r[2]>>]
                      ELSE s[<<r[1], Middle(r) - 1>>]
      BY <3>2, Zenon DEF Bisects
    <3>4. ~(low >= high)
      BY <1>3, <1>6
    <3> QED BY <2>1, <3>1, <3>2, <3>3, <3>4
  <2>4. CASE m \in paid
    <3>1. LastPaid(s[<<m, high>>], paid, m, high)
      BY <1>3, <1>4, <2>2
    <3> QED BY <1>3, <2>2, <2>3, <2>4, <3>1 DEF LastPaid
  <2>5. CASE m \notin paid
    <3>1. LastPaid(s[<<low, m - 1>>], paid, low, m - 1)
      BY <1>3, <1>4, <2>2
    <3>2. \A n \in paid : n < m
      BY <1>3, <2>2, <2>5 DEF Downward
    <3> QED BY <1>3, <2>2, <2>3, <2>5, <3>1, <3>2 DEF LastPaid
  <2> QED BY <2>4, <2>5
<1> QED BY <1>3, <1>5, <1>6

\* There is one last member.
LEMMA LastPaidIsOne ==
    ASSUME NEW low \in Nat, NEW high \in Nat, low <= high, NEW paid
    PROVE  /\ \E n : LastPaid(n, paid, low, high)
           /\ \A m, n : LastPaid(m, paid, low, high) /\ LastPaid(n, paid, low, high) => m = n
<1> DEFINE S == {n \in low..high : n = low \/ n \in paid}
<1>1. S \subseteq Int /\ low \in S /\ S \in SUBSET (low..high)
  OBVIOUS
<1>2. IsFiniteSet(S)
  <2>1. IsFiniteSet(low..high)
    BY FS_Interval
  <2> HIDE DEF S
  <2> QED BY <1>1, <2>1, FS_Subset
<1>3. Max(S) \in S /\ \A x \in S : x <= Max(S)
  <2> HIDE DEF S
  <2> QED BY <1>1, <1>2, Extremes
<1>4. LastPaid(Max(S), paid, low, high)
  BY <1>3 DEF LastPaid
<1>5. \A m, n : LastPaid(m, paid, low, high) /\ LastPaid(n, paid, low, high) => m = n
  BY DEF LastPaid
<1> QED BY <1>4, <1>5

\* There is such a function: the bisection halves its range, so it ends.
LEMMA BisectionExists ==
    ASSUME NEW ceiling \in Nat, NEW paid, Downward(paid, ceiling)
    PROVE  \E s : Bisects(s, paid, ceiling)
<1> DEFINE last(low, high) == IF low >= high THEN low ELSE CHOOSE n : LastPaid(n, paid, low, high)
           F == [r \in (0..ceiling) \X (0..ceiling) |-> last(r[1], r[2])]
<1>1. \A low, high \in 0..ceiling : low <= high => LastPaid(last(low, high), paid, low, high)
  <2> TAKE low, high \in 0..ceiling
  <2>1. CASE low = high
    BY <2>1 DEF LastPaid
  <2>2. CASE low < high
    <3>1. \E n : LastPaid(n, paid, low, high)
      BY <2>2, LastPaidIsOne
    <3> QED BY <2>2, <3>1
  <2> QED BY <2>1, <2>2
<1>2. \A low, high \in 0..ceiling : low >= high => last(low, high) = low
  OBVIOUS
<1> HIDE DEF last
<1>3. \A r \in (0..ceiling) \X (0..ceiling) :
         F[r] = IF r[1] >= r[2] THEN r[1]
                ELSE IF Middle(r) \in paid THEN F[<<Middle(r), r[2]>>]
                     ELSE F[<<r[1], Middle(r) - 1>>]
  <2> TAKE r \in (0..ceiling) \X (0..ceiling)
  <2>0. PICK low, high : /\ low \in 0..ceiling /\ high \in 0..ceiling
                         /\ r = <<low, high>> /\ low = r[1] /\ high = r[2]
    OBVIOUS
  <2>1. \A l, h \in 0..ceiling : F[<<l, h>>] = last(l, h)
    OBVIOUS
  <2>2. CASE low >= high
    <3>1. F[r] = low
      BY <1>2, <2>0, <2>1, <2>2
    <3> HIDE DEF F
    <3> QED BY <2>0, <2>2, <3>1
  <2>3. CASE low < high
    <3>1. PICK m : m = Middle(<<low, high>>)
      OBVIOUS
    <3>2. m \in low + 1 .. high
      BY <2>0, <2>3, <3>1, MiddleFacts
    <3>3. LastPaid(last(low, high), paid, low, high)
      BY <1>1, <2>0, <2>3
    <3>4. CASE m \in paid
      <4>1. LastPaid(last(m, high), paid, m, high)
        BY <1>1, <2>0, <3>2
      <4>2. LastPaid(last(m, high), paid, low, high)
        BY <2>0, <3>2, <3>4, <4>1 DEF LastPaid
      <4>3. last(m, high) = last(low, high)
        BY <2>0, <2>3, <3>3, <4>2, LastPaidIsOne
      <4> HIDE DEF F
      <4> QED BY <2>0, <2>1, <2>3, <3>1, <3>2, <3>4, <4>3
    <3>5. CASE m \notin paid
      <4>1. LastPaid(last(low, m - 1), paid, low, m - 1)
        BY <1>1, <2>0, <3>2
      <4>2. \A n \in paid : n < m
        BY <2>0, <3>2, <3>5 DEF Downward
      <4>3. LastPaid(last(low, m - 1), paid, low, high)
        BY <2>0, <3>2, <4>1, <4>2 DEF LastPaid
      <4>4. last(low, m - 1) = last(low, high)
        BY <2>0, <2>3, <3>3, <4>3, LastPaidIsOne
      <4>5. m - 1 \in 0..ceiling
        BY <2>0, <3>2
      <4>6. F[<<low, m - 1>>] = last(low, high) /\ F[r] = last(low, high)
        <5> HIDE DEF F
        <5> QED BY <2>0, <2>1, <4>4, <4>5
      <4>7. ~(r[1] >= r[2])
        BY <2>0, <2>3
      <4>8. Middle(r) = m /\ r[1] = low
        BY <2>0, <3>1
      <4> HIDE DEF F
      <4> QED BY <3>5, <4>6, <4>7, <4>8
    <3> QED BY <3>4, <3>5
  <2>4. low >= high \/ low < high
    BY <2>0
  <2> HIDE DEF F
  <2> QED BY <2>2, <2>3, <2>4
<1>4. F = [r \in (0..ceiling) \X (0..ceiling) |-> F[r]]
  OBVIOUS
<1> HIDE DEF F
<1>5. Bisects(F, paid, ceiling)
  BY <1>3, <1>4, Zenon DEF Bisects
<1> QED BY <1>5

\* _affordable_output_tokens: the bisection returns the largest count of tokens, up to the
\* ceiling, that what is available pays for.
LEMMA AffordableIsLargest ==
    ASSUME NEW available \in Nat, NEW price \in Nat, NEW ceiling \in Nat,
           NEW n, n = _affordable_output_tokens(available, price, ceiling)
    PROVE  /\ n \in 0..ceiling
           /\ price * n <= available
           /\ \A m \in n+1..ceiling : price * m > available
<1> DEFINE paid == Paid(available, price, ceiling)
<1>1. Downward(paid, ceiling)
  <2> SUFFICES ASSUME NEW m \in 0..ceiling, NEW k \in 0..ceiling, price * m <= available, k <= m
               PROVE  price * k <= available
    BY DEF Downward, Paid
  <2>1. PICK d \in Nat : m = k + d
    <3>1. m - k \in Nat /\ m = k + (m - k)
      OBVIOUS
    <3> QED BY <3>1
  <2>2. price * m = price * k + price * d /\ price * d \in Nat /\ price * k \in Nat
    BY <2>1
  <2> QED BY <2>2
<1>2. \A s : Bisects(s, paid, ceiling) <=>
          s = [r \in (0..ceiling) \X (0..ceiling) |->
                IF r[1] >= r[2] THEN r[1]
                ELSE IF price * Middle(r) <= available THEN s[<<Middle(r), r[2]>>]
                     ELSE s[<<r[1], Middle(r) - 1>>]]
  <2>1. \A r \in (0..ceiling) \X (0..ceiling) :
           r[1] < r[2] => (Middle(r) \in paid <=> price * Middle(r) <= available)
    <3> TAKE r \in (0..ceiling) \X (0..ceiling)
    <3>1. r = <<r[1], r[2]>> /\ r[1] \in Nat /\ r[2] \in Nat /\ r[2] <= ceiling
      OBVIOUS
    <3>2. r[1] < r[2] => Middle(r) \in r[1] + 1 .. r[2]
      BY <3>1, MiddleFacts
    <3> QED BY <3>1, <3>2 DEF Paid
  <2>2. \A r \in (0..ceiling) \X (0..ceiling) : r[1] >= r[2] \/ r[1] < r[2]
    OBVIOUS
  <2> TAKE s
  <2> DEFINE A(r) == IF r[1] >= r[2] THEN r[1]
                ELSE IF Middle(r) \in paid THEN s[<<Middle(r), r[2]>>]
                     ELSE s[<<r[1], Middle(r) - 1>>]
             B(r) == IF r[1] >= r[2] THEN r[1]
                ELSE IF price * Middle(r) <= available THEN s[<<Middle(r), r[2]>>]
                     ELSE s[<<r[1], Middle(r) - 1>>]
  <2>3. \A r \in (0..ceiling) \X (0..ceiling) : A(r) = B(r)
    BY <2>1, <2>2
  <2> HIDE DEF A, B
  <2>4. [r \in (0..ceiling) \X (0..ceiling) |-> A(r)] = [r \in (0..ceiling) \X (0..ceiling) |-> B(r)]
    BY <2>3
  <2> USE DEF A, B
  <2> QED BY <2>4, Zenon DEF Bisects
<1> DEFINE Found(s) == s = [r \in (0..ceiling) \X (0..ceiling) |->
                IF r[1] >= r[2] THEN r[1]
                ELSE IF price * Middle(r) <= available THEN s[<<Middle(r), r[2]>>]
                     ELSE s[<<r[1], Middle(r) - 1>>]]
<1>3. n = (CHOOSE s : Found(s))[<<0, ceiling>>]
  BY DEF _affordable_output_tokens, Middle
<1>4. \E s : Found(s)
  <2>1. \E s : Bisects(s, paid, ceiling)
    <3> HIDE DEF paid
    <3> QED BY <1>1, BisectionExists
  <2> QED BY <1>2, <2>1
<1>5. Bisects(CHOOSE s : Found(s), paid, ceiling)
  <2>1. Found(CHOOSE s : Found(s))
    <3> HIDE DEF Found
    <3> QED BY <1>4
  <2> QED BY <1>2, <2>1
<1>6. LastPaid(n, paid, 0, ceiling)
  <2> HIDE DEF paid, Found
  <2> QED BY <1>1, <1>3, <1>5, BisectionEnds
<1>7. price * 0 <= available
  OBVIOUS
<1> QED BY <1>6, <1>7 DEF LastPaid, Paid

-----------------------------------------------------------------------------
(* The selected endpoint and the affordable output *)

\* What finitely many members are mapped to is finite.
LEMMA ImageFinite ==
    ASSUME NEW M, IsFiniteSet(M), NEW T, NEW f, \A t \in T : \E e \in M : t = f[e]
    PROVE  IsFiniteSet(T)
<1> DEFINE U == {e \in M : f[e] \in T}
           g == [e \in U |-> f[e]]
<1>1. IsFiniteSet(U)
  BY FS_Subset
<1>2. g \in Surjection(U, T)
  BY DEF Surjection
<1> QED
  <2> HIDE DEF U, g
  <2> QED BY <1>1, <1>2, FS_Surjection

\* The greatest of some counts and the least of them.
LEMMA FieldExtremes ==
    ASSUME NEW M, IsFiniteSet(M), M # {}, NEW f, \A e \in M : f[e] \in Int,
           NEW T, T = {f[e] : e \in M}
    PROVE  /\ Max(T) \in T /\ \A e \in M : f[e] <= Max(T)
           /\ Min(T) \in T /\ \A e \in M : Min(T) <= f[e]
<1>1. IsFiniteSet(T)
  BY ImageFinite
<1>2. T # {} /\ T \subseteq Int /\ \A e \in M : f[e] \in T
  OBVIOUS
<1> QED  BY <1>1, <1>2, Extremes

\* Known prices, and one more that none of them exceeds.
LEMMA PriceBound ==
    ASSUME NEW M, IsFiniteSet(M), M # {}, NEW f, \A e \in M : f[e] \in Nat \cup {None},
           NEW T, T = {f[e] : e \in M}
    PROVE  /\ MaxOrNone(T) \in Nat \cup {None}
           /\ MaxOrNone(T) # None => \A e \in M : f[e] \in Nat /\ f[e] <= MaxOrNone(T)
<1>1. CASE None \in T
  BY <1>1 DEF MaxOrNone
<1>2. CASE None \notin T
  <2>1. \A e \in M : f[e] \in Nat
    BY <1>2
  <2>2. Max(T) \in T /\ \A e \in M : f[e] <= Max(T)
    <3>1. \A e \in M : f[e] \in Int
      BY <2>1
    <3> QED  BY <3>1, FieldExtremes
  <2> QED  BY <1>2, <2>1, <2>2 DEF MaxOrNone
<1> QED  BY <1>1, <1>2

\* The endpoints of a model that the pinned provider may serve it at.
LEMMA MatchesFinite ==
    ASSUME NEW model \in Models
    PROVE  IsFiniteSet(Matches(model)) /\ Matches(model) \subseteq EndpointMetadata
<1> DEFINE raws == {e \in Endpoints[model] : e.provider = Pinned}
           f == [raw \in raws |-> _endpoint_metadata(raw)]
<1>1. IsFiniteSet(Endpoints[model]) /\ raws \in SUBSET Endpoints[model]
  BY CatalogAssumption
<1>2. IsFiniteSet(raws)
  BY <1>1, FS_Subset
<1>3. \A t \in Matches(model) : \E raw \in raws : t = f[raw]
  BY DEF Matches
<1>4. IsFiniteSet(Matches(model))
  <2> HIDE DEF raws, f
  <2> QED  BY <1>2, <1>3, ImageFinite
<1>5. Matches(model) \subseteq EndpointMetadata
  BY CatalogAssumption DEF Matches
<1> QED  BY <1>4, <1>5

\* _most_conservative: no endpoint of the provider costs more, or takes more input, than the
\* selected one, and none gives less output.
LEMMA SelectedBounds ==
    ASSUME NEW model \in Models, Matches(model) # {}, NEW s, s = select(model)
    PROVE  /\ s \in EndpointMetadata
           /\ \A e \in Matches(model) :
                 /\ e \in EndpointMetadata
                 /\ e.prompt <= s.prompt /\ s.completion <= e.completion /\ e.fee <= s.fee
                 /\ s.promptPrice # None => e.promptPrice \in Nat /\ e.promptPrice <= s.promptPrice
                 /\ s.completionPrice # None =>
                       e.completionPrice \in Nat /\ e.completionPrice <= s.completionPrice
<1>0. PICK M : M = Matches(model)
  OBVIOUS
<1>1. IsFiniteSet(M) /\ M # {} /\ \A e \in M : e \in EndpointMetadata
  BY <1>0, MatchesFinite
<1>2. s = [prompt |-> Max({e.prompt : e \in M}),
           completion |-> Min({e.completion : e \in M}),
           context |-> MinOrNone({e.context : e \in M}),
           promptPrice |-> MaxOrNone({e.promptPrice : e \in M}),
           completionPrice |-> MaxOrNone({e.completionPrice : e \in M}),
           fee |-> Max({e.fee : e \in M})]
  BY <1>0 DEF select, _most_conservative
<1>3. s.prompt \in Nat \ {0} /\ \A e \in M : e.prompt <= s.prompt
  <2>1. PICK f : f = [e \in M |-> e.prompt]
    OBVIOUS
  <2>2. PICK T : T = {f[e] : e \in M}
    OBVIOUS
  <2>3. T = {e.prompt : e \in M} /\ \A e \in M : f[e] = e.prompt /\ f[e] \in Nat \ {0}
    BY <1>1, <2>1, <2>2 DEF EndpointMetadata
  <2>4. Max(T) \in T /\ \A e \in M : f[e] <= Max(T)
    <3>1. \A e \in M : f[e] \in Int
      BY <2>3
    <3> QED  BY <1>1, <2>2, <3>1, FieldExtremes
  <2> QED  BY <1>2, <2>3, <2>4
<1>4. s.completion \in Nat \ {0} /\ \A e \in M : s.completion <= e.completion
  <2>1. PICK f : f = [e \in M |-> e.completion]
    OBVIOUS
  <2>2. PICK T : T = {f[e] : e \in M}
    OBVIOUS
  <2>3. T = {e.completion : e \in M} /\ \A e \in M : f[e] = e.completion /\ f[e] \in Nat \ {0}
    BY <1>1, <2>1, <2>2 DEF EndpointMetadata
  <2>4. Min(T) \in T /\ \A e \in M : Min(T) <= f[e]
    <3>1. \A e \in M : f[e] \in Int
      BY <2>3
    <3> QED  BY <1>1, <2>2, <3>1, FieldExtremes
  <2> QED  BY <1>2, <2>3, <2>4
<1>5. s.fee \in Nat /\ \A e \in M : e.fee <= s.fee
  <2>1. PICK f : f = [e \in M |-> e.fee]
    OBVIOUS
  <2>2. PICK T : T = {f[e] : e \in M}
    OBVIOUS
  <2>3. T = {e.fee : e \in M} /\ \A e \in M : f[e] = e.fee /\ f[e] \in Nat
    BY <1>1, <2>1, <2>2 DEF EndpointMetadata
  <2>4. Max(T) \in T /\ \A e \in M : f[e] <= Max(T)
    <3>1. \A e \in M : f[e] \in Int
      BY <2>3
    <3> QED  BY <1>1, <2>2, <3>1, FieldExtremes
  <2> QED  BY <1>2, <2>3, <2>4
<1>6. s.context \in (Nat \ {0}) \cup {None}
  <2>1. PICK f : f = [e \in M |-> e.context]
    OBVIOUS
  <2>2. PICK T : T = {f[e] : e \in M}
    OBVIOUS
  <2>3. /\ T = {e.context : e \in M}
        /\ \A e \in M : f[e] = e.context /\ f[e] \in (Nat \ {0}) \cup {None}
    BY <1>1, <2>1, <2>2 DEF EndpointMetadata
  <2>4. CASE None \in T
    BY <1>2, <2>3, <2>4 DEF MinOrNone
  <2>5. CASE None \notin T
    <3>1. \A e \in M : f[e] \in Nat \ {0}
      BY <2>2, <2>3, <2>5
    <3>2. Min(T) \in T
      <4>1. \A e \in M : f[e] \in Int
        BY <3>1
      <4> QED  BY <1>1, <2>2, <4>1, FieldExtremes
    <3> QED  BY <1>2, <2>2, <2>3, <2>5, <3>1, <3>2 DEF MinOrNone
  <2> QED  BY <2>4, <2>5
<1>7. /\ s.promptPrice \in Nat \cup {None}
      /\ s.promptPrice # None => \A e \in M : e.promptPrice \in Nat /\ e.promptPrice <= s.promptPrice
  <2>1. PICK f : f = [e \in M |-> e.promptPrice]
    OBVIOUS
  <2>2. PICK T : T = {f[e] : e \in M}
    OBVIOUS
  <2>3. T = {e.promptPrice : e \in M}
        /\ \A e \in M : f[e] = e.promptPrice /\ f[e] \in Nat \cup {None}
    BY <1>1, <2>1, <2>2 DEF EndpointMetadata
  <2>4. /\ MaxOrNone(T) \in Nat \cup {None}
        /\ MaxOrNone(T) # None => \A e \in M : f[e] \in Nat /\ f[e] <= MaxOrNone(T)
    BY <1>1, <2>2, <2>3, PriceBound
  <2> QED  BY <1>2, <2>3, <2>4
<1>8. /\ s.completionPrice \in Nat \cup {None}
      /\ s.completionPrice # None =>
            \A e \in M : e.completionPrice \in Nat /\ e.completionPrice <= s.completionPrice
  <2>1. PICK f : f = [e \in M |-> e.completionPrice]
    OBVIOUS
  <2>2. PICK T : T = {f[e] : e \in M}
    OBVIOUS
  <2>3. T = {e.completionPrice : e \in M}
        /\ \A e \in M : f[e] = e.completionPrice /\ f[e] \in Nat \cup {None}
    BY <1>1, <2>1, <2>2 DEF EndpointMetadata
  <2>4. /\ MaxOrNone(T) \in Nat \cup {None}
        /\ MaxOrNone(T) # None => \A e \in M : f[e] \in Nat /\ f[e] <= MaxOrNone(T)
    BY <1>1, <2>2, <2>3, PriceBound
  <2> QED  BY <1>2, <2>3, <2>4
<1>9. s \in EndpointMetadata
  BY <1>2, <1>3, <1>4, <1>5, <1>6, <1>7, <1>8 DEF EndpointMetadata
<1> QED  BY <1>0, <1>1, <1>3, <1>4, <1>5, <1>7, <1>8, <1>9

\* The least of two counts.
LEMMA MinOfTwo ==
    ASSUME NEW a \in Int, NEW b \in Int
    PROVE  Min({a, b}) \in {a, b} /\ Min({a, b}) <= a /\ Min({a, b}) <= b
<1>1. PICK T : T = {a, b}
  OBVIOUS
<1>2. IsFiniteSet(T)
  <2>1. IsFiniteSet({a}) /\ T = {a} \cup {b}
    BY <1>1, FS_Singleton
  <2> QED  BY <2>1, FS_AddElement
<1>3. Min(T) \in T /\ \A x \in T : Min(T) <= x
  BY <1>1, <1>2, Extremes
<1> QED  BY <1>1, <1>3

\* Products of counts in order are in that order.
LEMMA ProductBelow ==
    ASSUME NEW a \in Nat, NEW b \in Nat, NEW c \in Nat, NEW d \in Nat, a <= b, c <= d
    PROVE  a * c \in Nat /\ b * d \in Nat /\ a * c <= b * d
<1>1. PICK e, f : e \in Nat /\ f \in Nat /\ b = a + e /\ d = c + f
  <2>1. b - a \in Nat /\ d - c \in Nat /\ b = a + (b - a) /\ d = c + (d - c)
    OBVIOUS
  <2> QED  BY <2>1
<1>2. b * d = a * c + a * f + e * c + e * f
  BY <1>1
<1>3. a * c \in Nat /\ a * f \in Nat /\ e * c \in Nat /\ e * f \in Nat
  BY <1>1
<1> QED  BY <1>2, <1>3

\* What a request sends of its own text: some of it, and no more than the endpoint takes.
LEMMA InputBound ==
    ASSUME NEW s \in EndpointMetadata
    PROVE  /\ _input_bound(s) \in Nat \ {0}
           /\ _input_bound(s) <= InputTokens /\ _input_bound(s) <= s.prompt
           /\ _input_bound(s) \in {InputTokens, s.prompt}
<1>1. InputTokens \in Nat \ {0} /\ s.prompt \in Nat \ {0}
  BY GatewayAssumption DEF EndpointMetadata
<1>2. PICK a, b : a = InputTokens /\ b = s.prompt
  OBVIOUS
<1>3. Min({a, b}) \in {a, b} /\ Min({a, b}) <= a /\ Min({a, b}) <= b
  <2>1. a \in Int /\ b \in Int
    BY <1>1, <1>2
  <2> QED  BY <2>1, MinOfTwo
<1>4. _input_bound(s) = Min({a, b})
  BY <1>2 DEF _input_bound
<1> QED  BY <1>1, <1>2, <1>3, <1>4

\* calculate_affordability: a call that is admitted may write something, and its worst case
\* is within each of the balances it was admitted against.
LEMMA Affords ==
    ASSUME NEW s \in EndpointMetadata, NEW tokens \in Int \cup {None}, NEW usd \in Int \cup {None},
           usd # None => Priced(s),
           NEW cap, cap = calculate_affordability(s, tokens, usd), cap # None
    PROVE  /\ cap \in Nat \ {0} /\ cap <= s.completion
           /\ tokens # None => token_exposure(s, cap) \in Nat /\ token_exposure(s, cap) <= tokens
           /\ usd # None => usd_exposure(s, cap) \in Nat /\ usd_exposure(s, cap) <= usd
<1>0. PICK in : in = _input_bound(s)
  OBVIOUS
<1>1. /\ in \in Nat \ {0}
      /\ s.completion \in Nat \ {0} /\ s.context \in Int \cup {None} /\ s.fee \in Nat
      /\ usd # None => s.promptPrice \in Nat /\ s.completionPrice \in Nat
  BY <1>0, InputBound DEF EndpointMetadata, Priced
<1>2. PICK A : A = IF s.context = None THEN {} ELSE {s.context - in}
  OBVIOUS
<1>3. PICK B : B = IF tokens = None THEN {} ELSE {tokens - in}
  OBVIOUS
<1>4. PICK fixed : fixed = _fixed_cost(s)
  OBVIOUS
<1>5. usd # None => fixed \in Nat /\ usd \in Nat /\ fixed <= usd
  <2> SUFFICES ASSUME usd # None PROVE fixed \in Nat /\ usd \in Nat /\ fixed <= usd
    OBVIOUS
  <2>1. usd \in Int /\ ~(usd < 0) /\ ~(usd < fixed)
    BY <1>4 DEF calculate_affordability
  <2>2. fixed = s.promptPrice * in + s.fee /\ s.promptPrice \in Nat
    BY <1>0, <1>1, <1>4 DEF _fixed_cost
  <2>3. s.promptPrice * in \in Nat
    BY <1>1, <2>2, ProductBelow
  <2> QED  BY <1>1, <2>1, <2>2, <2>3
<1>6. PICK most : most = _affordable_output_tokens(usd - fixed, s.completionPrice, s.completion)
  OBVIOUS
<1>7. usd # None => most \in 0..s.completion /\ s.completionPrice * most <= usd - fixed
  <2> SUFFICES ASSUME usd # None
               PROVE  most \in 0..s.completion /\ s.completionPrice * most <= usd - fixed
    OBVIOUS
  <2>1. usd - fixed \in Nat /\ s.completionPrice \in Nat /\ s.completion \in Nat
    BY <1>1, <1>5
  <2> QED  BY <1>6, <2>1, AffordableIsLargest
<1>8. PICK C : C = IF usd = None \/ s.completionPrice = 0 THEN {} ELSE {most}
  OBVIOUS
<1>9. PICK T : T = {s.completion} \cup A \cup B \cup C
  OBVIOUS
<1>10. T \subseteq Int /\ T # {} /\ IsFiniteSet(T)
  <2>1. IsFiniteSet({s.completion}) /\ IsFiniteSet(A) /\ IsFiniteSet(B) /\ IsFiniteSet(C)
    BY <1>2, <1>3, <1>8, FS_Singleton, FS_EmptySet
  <2>2. IsFiniteSet({s.completion} \cup A)
    BY <2>1, FS_Union
  <2>3. IsFiniteSet({s.completion} \cup A \cup B)
    BY <2>1, <2>2, FS_Union
  <2>4. IsFiniteSet(T)
    BY <1>9, <2>1, <2>3, FS_Union
  <2>5. A \subseteq Int /\ B \subseteq Int /\ C \subseteq Int
    BY <1>1, <1>2, <1>3, <1>7, <1>8
  <2>6. T \subseteq Int /\ s.completion \in T
    <3>1. s.completion \in Int
      BY <1>1
    <3> QED  BY <1>9, <2>5, <3>1, Zenon
  <2> QED  BY <2>4, <2>6
<1>11. _output_ceiling(s, tokens, usd) = Min(T)
  BY <1>0, <1>2, <1>3, <1>4, <1>6, <1>8, <1>9, Zenon DEF _output_ceiling
<1>12. cap = Min(T) /\ ~(cap <= 0)
  BY <1>11 DEF calculate_affordability
<1>13. cap \in T /\ \A x \in T : cap <= x
  BY <1>10, <1>12, Extremes
<1>14. cap \in Nat \ {0} /\ cap <= s.completion
  BY <1>9, <1>10, <1>12, <1>13
<1>15. tokens # None => token_exposure(s, cap) \in Nat /\ token_exposure(s, cap) <= tokens
  <2>1. tokens # None => cap <= tokens - in /\ tokens \in Int
    BY <1>3, <1>9, <1>13
  <2> QED  BY <1>0, <1>1, <1>14, <2>1 DEF token_exposure
<1>16. usd # None => usd_exposure(s, cap) \in Nat /\ usd_exposure(s, cap) <= usd
  <2> SUFFICES ASSUME usd # None
               PROVE  usd_exposure(s, cap) \in Nat /\ usd_exposure(s, cap) <= usd
    OBVIOUS
  <2>1. usd_exposure(s, cap) = fixed + cap * s.completionPrice
    BY <1>4 DEF usd_exposure
  <2>2. cap * s.completionPrice \in Nat /\ cap * s.completionPrice <= usd - fixed
    <3>1. CASE s.completionPrice = 0
      BY <1>5, <1>14, <3>1
    <3>2. CASE s.completionPrice # 0
      <4>1. cap <= most
        BY <1>8, <1>9, <1>13, <3>2
      <4>2. cap * s.completionPrice \in Nat /\ cap * s.completionPrice <= most * s.completionPrice
        BY <1>1, <1>7, <1>14, <4>1, ProductBelow
      <4>3. most * s.completionPrice = s.completionPrice * most /\ most * s.completionPrice \in Nat
        BY <1>1, <1>7
      <4> QED  BY <1>5, <1>7, <4>2, <4>3
    <3> QED  BY <3>1, <3>2
  <2> QED  BY <1>5, <2>1, <2>2
<1> QED  BY <1>14, <1>15, <1>16

\* What one attempt may cost the provider's customer: whichever endpoint of the pinned
\* provider it was sent to, no more than the exposure of the selected one.
LEMMA CostBound ==
    ASSUME NEW c, call[c].model \in Models, call[c].cap \in (Nat \ {0}) \cup {None},
           NEW cost \in Costs(c), NEW s, s = select(call[c].model)
    PROVE  /\ cost.in \in Nat \ {0} /\ cost.out \in Nat
           /\ cost.tokens \in Nat /\ cost.tokens = cost.in + cost.out /\ cost.usd \in Nat
           /\ call[c].cap # None =>
                /\ cost.tokens <= token_exposure(s, call[c].cap)
                /\ Priced(s) => cost.usd <= usd_exposure(s, call[c].cap)
<1>1. PICK k : k = call[c]
  OBVIOUS
<1>2. PICK longest : longest = IF k.cap = None THEN FreeOutput ELSE k.cap
  OBVIOUS
<1>3. PICK e \in Matches(k.model) :
         cost = [in |-> _input_bound(e), out |-> Min({e.completion, longest}),
                 tokens |-> _input_bound(e) + Min({e.completion, longest}),
                 usd |-> Amount(e.promptPrice) * _input_bound(e) + e.fee
                           + Min({e.completion, longest}) * Amount(e.completionPrice)]
  BY <1>1, <1>2 DEF Costs
<1>4. /\ s \in EndpointMetadata /\ e \in EndpointMetadata
      /\ e.prompt <= s.prompt /\ e.fee <= s.fee
      /\ s.promptPrice # None => e.promptPrice \in Nat /\ e.promptPrice <= s.promptPrice
      /\ s.completionPrice # None =>
            e.completionPrice \in Nat /\ e.completionPrice <= s.completionPrice
  BY <1>1, SelectedBounds
<1>5. PICK in, out : in = _input_bound(e) /\ out = Min({e.completion, longest})
  OBVIOUS
<1>6. PICK bound : bound = _input_bound(s)
  OBVIOUS
<1>7. /\ e.prompt \in Nat /\ e.completion \in Nat /\ e.fee \in Nat
      /\ s.prompt \in Nat /\ s.fee \in Nat
      /\ s.promptPrice \in Nat \cup {None} /\ s.completionPrice \in Nat \cup {None}
      /\ e.promptPrice \in Nat \cup {None} /\ e.completionPrice \in Nat \cup {None}
      /\ None \notin Nat
  BY <1>4, NoneAssumption DEF EndpointMetadata
<1>8. in \in Nat \ {0} /\ bound \in Nat \ {0} /\ in <= bound
  <2>1. /\ in \in Nat \ {0} /\ in <= InputTokens /\ in <= e.prompt
    BY <1>4, <1>5, InputBound
  <2>2. bound \in Nat \ {0} /\ bound \in {InputTokens, s.prompt}
    BY <1>4, <1>6, InputBound
  <2> QED  BY <1>4, <1>7, <2>1, <2>2, GatewayAssumption
<1>9. out \in Nat /\ (k.cap # None => out <= k.cap)
  <2>1. longest \in Nat
    BY <1>1, <1>2, GatewayAssumption
  <2>2. PICK a : a = e.completion
    OBVIOUS
  <2>3. out \in {a, longest} /\ out <= longest
    <3>1. a \in Int /\ longest \in Int
      BY <1>7, <2>1, <2>2
    <3>2. out = Min({a, longest})
      BY <1>5, <2>2
    <3> QED  BY <3>1, <3>2, MinOfTwo
  <2> QED  BY <1>2, <1>7, <2>1, <2>2, <2>3
<1>10. PICK pp, cp : pp = Amount(e.promptPrice) /\ cp = Amount(e.completionPrice)
  OBVIOUS
<1>11. pp \in Nat /\ cp \in Nat /\ pp * in \in Nat /\ out * cp \in Nat
  BY <1>7, <1>8, <1>9, <1>10 DEF Amount
<1>12. /\ cost.in = in /\ cost.out = out /\ cost.tokens = in + out
       /\ cost.usd = pp * in + e.fee + out * cp
  BY <1>3, <1>5, <1>10
<1>13. cost.usd \in Nat
  BY <1>7, <1>11, <1>12
<1>14. k.cap # None => cost.tokens <= token_exposure(s, k.cap)
  BY <1>1, <1>6, <1>8, <1>9, <1>12 DEF token_exposure
<1>15. k.cap # None /\ Priced(s) => cost.usd <= usd_exposure(s, k.cap)
  <2> SUFFICES ASSUME k.cap # None, Priced(s) PROVE cost.usd <= usd_exposure(s, k.cap)
    OBVIOUS
  <2>1. /\ s.promptPrice \in Nat /\ pp <= s.promptPrice
        /\ s.completionPrice \in Nat /\ cp <= s.completionPrice
    BY <1>4, <1>7, <1>10 DEF Priced, Amount
  <2>2. s.promptPrice * bound \in Nat /\ pp * in <= s.promptPrice * bound
    BY <1>8, <1>11, <2>1, ProductBelow
  <2>3. k.cap \in Nat /\ out <= k.cap
    BY <1>1, <1>9
  <2>4. k.cap * s.completionPrice \in Nat /\ out * cp <= k.cap * s.completionPrice
    BY <1>9, <1>11, <2>1, <2>3, ProductBelow
  <2>5. usd_exposure(s, k.cap) = s.promptPrice * bound + s.fee + k.cap * s.completionPrice
    BY <1>6 DEF usd_exposure, _fixed_cost
  <2> QED  BY <1>4, <1>7, <1>11, <1>12, <2>2, <2>4, <2>5
<1> QED  BY <1>1, <1>8, <1>9, <1>12, <1>13, <1>14, <1>15

\* validate_router_evidence: what is accepted as served by the assigned model went to the
\* pinned provider in every attempt, and names the model that answered.
LEMMA EvidenceHonest ==
    ASSUME NEW model \in Models, NEW served \in Evidences(model), served.model # None
    PROVE  served.honest
<1>1. PICK path, meta : path \in Paths(model) /\ meta \in Metadata(path)
                          /\ served = Judged(model, path, meta)
  BY DEF Evidences
<1>2. PICK selected : selected = _selected_model(meta)
  OBVIOUS
<1>3. selected # None
  BY <1>1, <1>2 DEF Judged
<1>4. PICK count : count = IF meta.attempts = None THEN 1 ELSE Len(meta.attempts)
  OBVIOUS
<1>5. PICK chosen : chosen = IF meta.attempts = None /\ Len(meta.selected) # 1
                             THEN <<>> ELSE meta.selected
  OBVIOUS
<1>6. /\ chosen # <<>>
      /\ meta.attempt = count
      /\ \A i \in 1..Len(chosen) : _matches_provider(chosen[i])
      /\ meta.attempts # None =>
           \A i \in 1..Len(meta.attempts) :
              _matches_provider(meta.attempts[i]) /\ meta.attempts[i].model = chosen[1].model
      /\ selected = chosen[1].model
  BY <1>2, <1>3, <1>4, <1>5 DEF _selected_model
<1>7. /\ meta.attempt = Len(path) /\ meta.selected \in {path, <<Last(path)>>}
      /\ meta.attempts \in {path, None} /\ path # None
  BY <1>1, PathsAssumption DEF Metadata
<1>8. Len(path) \in {1, 2}
  BY <1>1 DEF Paths
<1>9. /\ \A i \in 1..Len(path) : _matches_provider(path[i])
      /\ selected = Last(path).model
  <2>1. CASE meta.attempts = path
    <3>1. \A i \in 1..Len(path) : _matches_provider(path[i]) /\ path[i].model = selected
      BY <1>6, <1>7, <2>1
    <3>2. Len(path) \in 1..Len(path)
      BY <1>8
    <3> QED  BY <3>1, <3>2 DEF Last
  <2>2. CASE meta.attempts = None
    <3>1. Len(path) = 1 /\ chosen = meta.selected /\ Len(meta.selected) = 1
      BY <1>4, <1>5, <1>6, <1>7, <2>2
    <3>2. Last(path) = path[1] /\ chosen[1] = path[1]
      BY <1>7, <3>1 DEF Last
    <3> QED  BY <1>6, <3>1, <3>2
  <2> QED  BY <1>7, <2>1, <2>2
<1> QED  BY <1>1, <1>2, <1>9 DEF Judged

-----------------------------------------------------------------------------
(* What is known of every request: the inductive invariant *)

Usage == {"absent", "partial", "complete"}
ChargeRow == [tokens : Nat, usd : Nat, honest : BOOLEAN]
KeptResult ==
    [ok : BOOLEAN, credited : BOOLEAN, availability : Usage, complete : BOOLEAN,
     tokens : Nat, usd : Nat]
Served == {"answered", "accounted"}
CallRecord ==
    [n : 0..MaxCalls, pc : {"idle", "routed", "admitted"} \cup InMonth \cup Served,
     incident : Incidents \cup {None}, model : Models \cup {None}, period : 0..MaxMonth,
     policy : PolicyRow \cup {None}, tokens : Int \cup {None}, usd : Int \cup {None},
     cap : (Nat \ {0}) \cup {None}, reserved : BOOLEAN, tries : {0, 1},
     result : KeptResult \cup {None}]

GatewayType ==
    /\ policy \in PolicyRow \cup {None}
    /\ policy # None => policy.version > 0
    /\ month \in 1..MaxMonth
    /\ reservation \in [Calls -> ReservationRow \cup {None}]
    /\ event \in [Calls -> EventRow \cup {None}]
    /\ attribution \in [Calls -> AttributionRow \cup {None}]
    /\ call \in [Clients -> CallRecord]
    /\ sent \in 0..MaxCalls
    /\ charge \in [Calls -> ChargeRow]
    /\ told \in SUBSET Calls
    /\ raced \in BOOLEAN

NoCharge == [tokens |-> 0, usd |-> 0, honest |-> TRUE]

\* A request as the tables, the provider and the caller know it.
Entry(n) ==
    [row |-> reservation[n], event |-> event[n], attribution |-> attribution[n],
     charge |-> charge[n], told |-> n \in told]

\* What a row books covers the charge, and what it settles is the charge; the event says
\* what was charged when it says anything; the attribution is the event's, and honest; a
\* request that was told has both.
EntrySound(e) ==
    /\ e.row # None =>
         /\ e.row.tokenExposure = None \/ e.charge.tokens <= e.row.tokenExposure
         /\ e.row.usdExposure = None \/ e.charge.usd <= e.row.usdExposure
         /\ e.row.state = "settled" =>
              e.row.settledTokens = e.charge.tokens /\ e.row.settledUsd = e.charge.usd
    /\ e.event # None =>
         /\ e.event.complete <=> e.event.availability = "complete"
         /\ e.event.complete =>
              e.event.tokens = e.charge.tokens /\ e.event.usd = e.charge.usd
         /\ e.row # None => e.event.model = e.row.model
    /\ e.attribution # None <=> e.event # None /\ e.event.stage # "refused"
    /\ e.attribution # None /\ e.attribution.credited => e.charge.honest
    /\ e.told =>
         /\ e.event # None /\ e.event.ok
         /\ e.attribution # None /\ e.attribution.credited

\* The balances an admission has read when it is where it is.
ReadsSound(k) ==
    /\ k.pc \in InIncident => k.policy # None /\ Matches(k.model) # {}
    /\ k.pc \in {"incident settled", "incident reserved"} =>
         k.policy.tokens # None /\ k.incident # None
    /\ k.pc = "incident reserved" => k.tokens # None
    /\ k.pc \in {"legacy", "settled", "reserved"} => k.policy.usd # None
    /\ k.pc \in {"settled", "reserved"} => k.usd # None
    /\ k.pc = "book" => (k.usd # None <=> k.policy.usd # None)
    /\ k.pc \in {"legacy", "settled", "reserved", "book"} =>
         (k.tokens # None <=> k.policy.tokens # None /\ k.incident # None)
    /\ k.pc \in {"routed", "month", "incident settled"} => k.tokens = None
    /\ k.pc \in {"routed", "month", "incident settled", "incident reserved", "legacy"} =>
         k.usd = None

\* The row of a request that may still be sent books the worst case of its endpoints.
RowSound(k, e) ==
    /\ k.reserved <=> e.row # None
    /\ e.row # None =>
         /\ k.cap # None /\ Matches(k.model) # {}
         /\ e.row.model = k.model
         /\ k.pc = "admitted" =>
              /\ e.row.state = "reserved"
              /\ e.row.tokenExposure # None =>
                   e.row.tokenExposure = token_exposure(select(k.model), k.cap)
              /\ e.row.usdExposure # None =>
                   /\ Priced(select(k.model))
                   /\ e.row.usdExposure = usd_exposure(select(k.model), k.cap)

\* A request in flight has no event yet; nothing is charged before it is sent; what is kept
\* of the answer is the charge when it is complete, and honest when it is credited.
CallSound(k, e) ==
    /\ k.n \in Calls /\ k.model \in Models /\ k.period # 0
    /\ e.event = None /\ e.attribution = None /\ ~e.told
    /\ k.pc \notin Served => e.charge = NoCharge
    /\ k.pc \notin {"admitted"} \cup Served => ~k.reserved /\ k.cap = None
    /\ ReadsSound(k)
    /\ RowSound(k, e)
    /\ k.pc \in Served =>
         /\ k.result \in KeptResult
         /\ k.result.ok => k.result.credited
         /\ k.result.credited => e.charge.honest
         /\ k.result.complete <=> k.result.availability = "complete"
         /\ k.result.complete =>
              k.result.tokens = e.charge.tokens /\ k.result.usd = e.charge.usd

Live(c) == call[c].pc # "idle"

GatewaySafe ==
    /\ GatewayType
    /\ \A n \in Calls : EntrySound(Entry(n))
    /\ \A n \in Calls : n > sent =>
         Entry(n) = [row |-> None, event |-> None, attribution |-> None,
                     charge |-> NoCharge, told |-> FALSE]
    /\ \A c \in Clients : Live(c) => CallSound(call[c], Entry(call[c].n)) /\ call[c].n <= sent
    /\ \A c, d \in Clients : Live(c) /\ Live(d) /\ call[c].n = call[d].n => c = d

\* A step of one request, whatever it does to that request, leaves the others as they were.
LEMMA OneRequest ==
    ASSUME GatewaySafe, GatewayType', NEW c \in Clients, Live(c), sent' = sent,
           NEW n, n = call[c].n, NEW k, call' = [call EXCEPT ![c] = k],
           \A m \in Calls \ {n} : Entry(m)' = Entry(m),
           NEW e, e = Entry(n)', EntrySound(e),
           k.pc # "idle" => k.n = n /\ CallSound(k, e)
    PROVE  GatewaySafe'
<1>1. /\ call \in [Clients -> CallRecord] /\ n \in Calls /\ n <= sent /\ sent \in 0..MaxCalls
      /\ \A d \in Clients : Live(d) => /\ CallSound(call[d], Entry(call[d].n))
                                       /\ call[d].n <= sent /\ call[d].n \in Calls
  BY DEF GatewaySafe, GatewayType, CallSound
<1>2. call'[c] = k /\ \A d \in Clients : d # c => call'[d] = call[d]
  BY <1>1
<1>3. \A m \in Calls : EntrySound(Entry(m)')
  <2> TAKE m \in Calls
  <2>1. EntrySound(Entry(m))
    BY DEF GatewaySafe
  <2> QED  BY <2>1
<1>4. \A m \in Calls : m > sent' =>
         Entry(m)' = [row |-> None, event |-> None, attribution |-> None,
                      charge |-> NoCharge, told |-> FALSE]
  <2> SUFFICES ASSUME NEW m \in Calls, m > sent
               PROVE  Entry(m)' = [row |-> None, event |-> None, attribution |-> None,
                                   charge |-> NoCharge, told |-> FALSE]
    OBVIOUS
  <2>1. m # n
    BY <1>1 DEF Calls
  <2> QED  BY <2>1 DEF GatewaySafe
<1>5. ASSUME NEW d \in Clients, call'[d].pc # "idle", NEW m, m = call'[d].n
      PROVE  CallSound(call'[d], Entry(m)') /\ m <= sent
  <2>1. CASE d = c
    BY <1>1, <1>2, <1>5, <2>1
  <2>2. CASE d # c
    <3>1. Live(d) /\ m = call[d].n
      BY <1>2, <1>5, <2>2 DEF Live
    <3>2. m # n /\ m \in Calls
      BY <1>1, <2>2, <3>1 DEF GatewaySafe
    <3> QED  BY <1>1, <1>2, <2>2, <3>1, <3>2
  <2> QED  BY <2>1, <2>2
<1>6. ASSUME NEW d \in Clients, NEW f \in Clients, call'[d].pc # "idle", call'[f].pc # "idle",
             call'[d].n = call'[f].n
      PROVE  d = f
  <2>1. \A g \in Clients : call'[g].pc # "idle" => Live(g) /\ call'[g].n = call[g].n
    BY <1>2 DEF Live
  <2> QED  BY <1>6, <2>1 DEF GatewaySafe
<1>7. \A d \in Clients : call'[d].pc # "idle" =>
         /\ CallSound(call'[d], [row |-> reservation'[call'[d].n], event |-> event'[call'[d].n],
                                 attribution |-> attribution'[call'[d].n],
                                 charge |-> charge'[call'[d].n], told |-> call'[d].n \in told'])
         /\ call'[d].n <= sent'
  BY <1>5 DEF Entry
<1> QED  BY <1>3, <1>4, <1>6, <1>7 DEF GatewaySafe, Live, Entry

\* A step that changes a request in flight and nothing else.
LEMMA OneCall ==
    ASSUME GatewaySafe, NEW c \in Clients, Live(c), NEW k \in CallRecord,
           call' = [call EXCEPT ![c] = k],
           UNCHANGED <<policy, month, reservation, event, attribution, sent, charge, told, raced>>,
           k.pc # "idle" => k.n = call[c].n /\ CallSound(k, Entry(call[c].n))
    PROVE  GatewaySafe'
<1>1. PICK n : n = call[c].n
  OBVIOUS
<1>2. PICK e : e = Entry(n)
  OBVIOUS
<1>3. Entry(n)' = Entry(n) /\ \A m \in Calls \ {n} : Entry(m)' = Entry(m)
  BY DEF Entry
<1>4. n \in Calls /\ EntrySound(e)
  BY <1>1, <1>2 DEF GatewaySafe, CallSound
<1>5. GatewayType'
  <2>1. call' \in [Clients -> CallRecord]
    BY DEF GatewaySafe, GatewayType
  <2> QED  BY <2>1 DEF GatewaySafe, GatewayType
<1>6. k.pc # "idle" => k.n = n /\ CallSound(k, e)
  BY <1>1, <1>2
<1> QED  BY <1>1, <1>2, <1>3, <1>4, <1>5, <1>6, OneRequest

\* The calls there are.
LEMMA CallsFinite == IsFiniteSet(Calls) /\ \A S \in SUBSET Calls : IsFiniteSet(S)
<1>1. IsFiniteSet(Calls)
  BY GatewayAssumption, FS_Interval DEF Calls
<1> QED  BY <1>1, FS_Subset

\* Every balance that is read is a count.
LEMMA SumsTyped ==
    ASSUME GatewayType
    PROVE  \A i, p, state : /\ _incident_sum(i, p, state) \in Int
                            /\ _period_sum(p, state) \in Int
                            /\ _legacy_usage(p) \in Nat
<1> SUFFICES ASSUME NEW i, NEW p, NEW state
             PROVE  /\ _incident_sum(i, p, state) \in Int
                    /\ _period_sum(p, state) \in Int
                    /\ _legacy_usage(p) \in Nat
  OBVIOUS
<1>0. \A n \in Calls : reservation[n] # None =>
        /\ Amount(reservation[n].settledTokens) \in Int /\ Amount(reservation[n].tokenExposure) \in Int
        /\ Amount(reservation[n].settledUsd) \in Int /\ Amount(reservation[n].usdExposure) \in Int
  BY NoneAssumption DEF GatewayType, ReservationRow, Amount
<1>1. _incident_sum(i, p, state) \in Int
  <2>1. PICK S : S = OfIncident(i, p, state)
    OBVIOUS
  <2>2. PICK f : f = [n \in S |-> Amount(IF state = "settled" THEN reservation[n].settledTokens
                                          ELSE reservation[n].tokenExposure)]
    OBVIOUS
  <2>3. S \in SUBSET Calls /\ \A n \in S : reservation[n] # None
    BY <2>1 DEF OfIncident, OfMonth
  <2>4. \A n \in S : f[n] \in Int
    BY <1>0, <2>2, <2>3
  <2>5. SumFunctionOnSet(f, S) \in Int
    BY <2>3, <2>4, CallsFinite, SumRemove
  <2> QED  BY <2>1, <2>2, <2>5 DEF _incident_sum
<1>2. _period_sum(p, state) \in Int
  <2>1. PICK S : S = OfMonth(p, state)
    OBVIOUS
  <2>2. PICK f : f = [n \in S |-> Amount(IF state = "settled" THEN reservation[n].settledUsd
                                          ELSE reservation[n].usdExposure)]
    OBVIOUS
  <2>3. S \in SUBSET Calls /\ \A n \in S : reservation[n] # None
    BY <2>1 DEF OfMonth
  <2>4. \A n \in S : f[n] \in Int
    BY <1>0, <2>2, <2>3
  <2>5. SumFunctionOnSet(f, S) \in Int
    BY <2>3, <2>4, CallsFinite, SumRemove
  <2> QED  BY <2>1, <2>2, <2>5 DEF _period_sum
<1>3. _legacy_usage(p) \in Nat
  <2>1. PICK S : S = Legacy(p)
    OBVIOUS
  <2>2. PICK f : f = [n \in S |-> event[n].usd]
    OBVIOUS
  <2>3. S \in SUBSET Calls /\ \A n \in S : event[n] # None
    BY <2>1 DEF Legacy
  <2>4. \A n \in S : f[n] \in Nat
    BY <2>2, <2>3 DEF GatewayType, EventRow
  <2>5. SumFunctionOnSet(f, S) \in Nat
    BY <2>3, <2>4, CallsFinite, SumNat
  <2> QED  BY <2>1, <2>2, <2>5 DEF _legacy_usage
<1> QED  BY <1>1, <1>2, <1>3

\* A refusal is told of a request that nothing was charged for; what was booked stays.
LEMMA RefusalSafe ==
    ASSUME GatewaySafe, NEW c \in Clients, call[c].pc \in InMonth \cup {"admitted"}, Refuse(c)
    PROVE  GatewaySafe'
<1>1. PICK n : n = call[c].n
  OBVIOUS
<1>2. /\ Live(c) /\ n \in Calls /\ call[c].model \in Models /\ call[c].incident \in Incidents \cup {None}
      /\ reservation[n] # None => reservation[n].model = call[c].model
      /\ attribution[n] = None /\ charge[n] = NoCharge /\ n \notin told
      /\ month \in 1..MaxMonth /\ event \in [Calls -> EventRow \cup {None}]
  <2>1. Live(c)
    BY DEF Live, InMonth
  <2>2. CallSound(call[c], Entry(n)) /\ call[c] \in CallRecord
    BY <1>1, <2>1 DEF GatewaySafe, GatewayType
  <2>3. call[c].pc \notin Served
    BY DEF InMonth, Served
  <2> QED  BY <1>1, <2>1, <2>2, <2>3 DEF CallSound, RowSound, Entry, CallRecord, GatewaySafe, GatewayType
<1>3. NoCall \in CallRecord
  BY GatewayAssumption DEF NoCall, CallRecord
<1>4. event' \in [Calls -> EventRow \cup {None}] /\ \A m \in Calls \ {n} : event'[m] = event[m]
  <2>1. Refusal(call[c].incident, call[c].model) \in EventRow
    BY <1>2 DEF Refusal, EventRow
  <2> QED  BY <1>1, <1>2, <2>1 DEF Refuse, RefusalKept
<1>5. GatewayType'
  <2>1. call' \in [Clients -> CallRecord]
    BY <1>3 DEF Refuse, GatewaySafe, GatewayType
  <2> QED  BY <1>4, <2>1 DEF Refuse, GatewaySafe, GatewayType
<1>6. \A m \in Calls \ {n} : Entry(m)' = Entry(m)
  BY <1>4 DEF Refuse, Entry
<1>7. PICK e : e = Entry(n)'
  OBVIOUS
<1>8. EntrySound(e)
  <2>1. /\ e.row = reservation[n] /\ e.event = event'[n] /\ e.attribution = None
        /\ e.charge = NoCharge /\ ~e.told
    BY <1>2, <1>7 DEF Refuse, Entry
  <2>2. event'[n] = event[n] \/ event'[n] = Refusal(call[c].incident, call[c].model)
    BY <1>1, <1>2 DEF Refuse, RefusalKept
  <2>3. CASE event'[n] = event[n]
    <3>1. e = Entry(n)
      BY <1>7, <2>3 DEF Refuse, Entry
    <3> QED  BY <1>2, <3>1 DEF GatewaySafe
  <2>4. CASE event'[n] = Refusal(call[c].incident, call[c].model)
    <3>1. EntrySound(Entry(n)) /\ Entry(n).row = reservation[n] /\ Entry(n).charge = NoCharge
      BY <1>2 DEF GatewaySafe, Entry
    <3>2. e.row = Entry(n).row /\ e.charge = Entry(n).charge
      BY <2>1, <3>1
    <3>3. /\ ~e.event.complete /\ e.event.availability = "absent" /\ e.event.stage = "refused"
          /\ e.event.model = call[c].model
      BY <2>1, <2>4 DEF Refusal
    <3> QED  BY <1>2, <2>1, <3>1, <3>2, <3>3 DEF EntrySound
  <2> QED  BY <2>2, <2>3, <2>4
<1>9. call' = [call EXCEPT ![c] = NoCall] /\ sent' = sent /\ NoCall.pc = "idle"
  BY DEF Refuse, NoCall
<1>10. PICK k : k = NoCall
  OBVIOUS
<1> QED  BY <1>1, <1>2, <1>5, <1>6, <1>7, <1>8, <1>9, <1>10, OneRequest

\* lock_month, lock_incident and the reads of the balances.
LEMMA AdmissionSafe ==
    ASSUME GatewaySafe, NEW c \in Clients,
           lock_month(c) \/ lock_incident(c) \/ _incident_remaining(c) \/ _monthly_remaining(c)
    PROVE  GatewaySafe'
<1>1. PICK k, e : k = call[c] /\ e = Entry(call[c].n)
  OBVIOUS
<1>2. k.pc \in InMonth \cup {"routed"} /\ Live(c)
  BY <1>1 DEF lock_month, lock_incident, _incident_remaining, _monthly_remaining, Reads, InMonth, Live
<1>3. k \in CallRecord /\ CallSound(k, e) /\ GatewayType /\ call \in [Clients -> CallRecord]
  BY <1>1, <1>2 DEF GatewaySafe, GatewayType
<1>4. /\ k.model \in Models /\ ReadsSound(k) /\ RowSound(k, e) /\ e.charge = NoCharge
      /\ ~k.reserved /\ k.cap = None /\ e.row = None
  BY <1>2, <1>3 DEF CallSound, RowSound, InMonth, Served
<1>5. /\ policy \in PolicyRow \cup {None}
      /\ \A i, p, state : /\ _incident_sum(i, p, state) \in Int
                          /\ _period_sum(p, state) \in Int
                          /\ _legacy_usage(p) \in Int
  BY <1>3, SumsTyped DEF GatewayType
<1>6. ASSUME NEW j \in CallRecord, call' = [call EXCEPT ![c] = j],
             UNCHANGED <<policy, month, reservation, event, attribution, sent, charge, told, raced>>,
             j.pc \in InMonth \cup {"admitted"}, j.n = k.n, j.model = k.model,
             j.period = k.period, j.cap = k.cap, j.reserved = k.reserved, ReadsSound(j)
      PROVE  GatewaySafe'
  <2>1. RowSound(j, e)
    BY <1>4, <1>6 DEF RowSound
  <2>2. CallSound(j, e)
    <3>1. j.pc \notin Served
      BY <1>6 DEF InMonth, Served
    <3> QED  BY <1>3, <1>4, <1>6, <2>1, <3>1 DEF CallSound
  <2>3. j.pc # "idle"
    BY <1>6 DEF InMonth
  <2> QED  BY <1>1, <1>2, <1>6, <2>2, OneCall
<1>7. CASE lock_month(c)
  <2>1. PICK j : j = [k EXCEPT !.pc = "month"]
    OBVIOUS
  <2>2. call' = [call EXCEPT ![c] = j]
    BY <1>1, <1>3, <1>7, <2>1 DEF lock_month, Step
  <2>3. j \in CallRecord /\ j.pc = "month" /\ j.n = k.n /\ j.model = k.model
        /\ j.period = k.period /\ j.cap = k.cap /\ j.reserved = k.reserved
        /\ j.tokens = k.tokens /\ j.usd = k.usd
    <3>1. j \in CallRecord
      BY <1>3, <2>1, ZenonT(60) DEF CallRecord, InMonth
    <3>2. /\ j.pc = "month" /\ j.n = k.n /\ j.model = k.model
          /\ j.period = k.period /\ j.cap = k.cap
          /\ j.tokens = k.tokens /\ j.usd = k.usd
      BY <1>3, <2>1 DEF CallRecord
    <3>3. j.reserved = k.reserved
      BY <1>3, <2>1 DEF CallRecord
    <3> QED  BY <3>1, <3>2, <3>3
  <2>4. k.pc = "routed"
    BY <1>1, <1>7 DEF lock_month
  <2>5. ReadsSound(j)
    BY <1>4, <2>3, <2>4 DEF ReadsSound, InIncident, InMonth
  <2>6. UNCHANGED <<policy, month, reservation, event, attribution, sent, charge, told, raced>>
    BY <1>7 DEF lock_month
  <2>7. j.pc \in InMonth
    BY <2>3 DEF InMonth
  <2> QED  BY <1>6, <2>2, <2>3, <2>5, <2>6, <2>7
<1>8. CASE lock_incident(c)
  <2>0. k.pc = "month" /\ k.pc \in InMonth
    BY <1>1, <1>8 DEF lock_incident, InMonth
  <2>1. CASE Refuse(c)
    BY <1>1, <2>0, <2>1, RefusalSafe
  <2>2. CASE ~Refuse(c)
    <3>1. PICK next, j :
             /\ policy # None
             /\ next \in {"admitted", "incident settled", "legacy", "book"}
             /\ next # "admitted" => Matches(k.model) # {}
             /\ next = "incident settled" => policy.tokens # None /\ k.incident # None
             /\ next = "legacy" => policy.usd # None /\ ~(policy.tokens # None /\ k.incident # None)
             /\ next = "book" => policy.usd = None /\ ~(policy.tokens # None /\ k.incident # None)
             /\ j = [k EXCEPT !.pc = next, !.policy = policy]
             /\ call' = [call EXCEPT ![c] = j]
             /\ UNCHANGED <<policy, month, reservation, event, attribution, sent, charge, told, raced>>
      <4>1. \/ /\ policy # None
               /\ call' = [call EXCEPT ![c].pc = "admitted", ![c].policy = policy]
               /\ UNCHANGED <<policy, month, reservation, event, attribution, sent,
                              charge, told, raced>>
            \/ /\ policy # None
               /\ Matches(k.model) # {}
               /\ call' = [call EXCEPT ![c].policy = policy,
                    ![c].pc = IF policy.tokens # None /\ call[c].incident # None
                              THEN "incident settled"
                              ELSE IF policy.usd # None THEN "legacy" ELSE "book"]
               /\ UNCHANGED <<policy, month, reservation, event, attribution, sent,
                              charge, told, raced>>
        BY <1>1, <1>8, <2>2 DEF lock_incident
      <4>2. CASE call' = [call EXCEPT ![c].pc = "admitted", ![c].policy = policy]
        <5>1. PICK j : j = [k EXCEPT !.pc = "admitted", !.policy = policy]
          OBVIOUS
        <5>2. call' = [call EXCEPT ![c] = j]
          BY <1>1, <1>3, <4>2, <5>1
        <5>3. PICK next : next = "admitted"
          OBVIOUS
        <5>4. policy # None /\ UNCHANGED <<policy, month, reservation, event, attribution, sent,
                                           charge, told, raced>>
          BY <4>1
        <5> QED  BY <5>1, <5>2, <5>3, <5>4
      <4>3. CASE /\ Matches(k.model) # {}
                 /\ call' = [call EXCEPT ![c].policy = policy,
                      ![c].pc = IF policy.tokens # None /\ call[c].incident # None
                                THEN "incident settled"
                                ELSE IF policy.usd # None THEN "legacy" ELSE "book"]
        <5>1. PICK next : next = IF policy.tokens # None /\ k.incident # None
                                 THEN "incident settled"
                                 ELSE IF policy.usd # None THEN "legacy" ELSE "book"
          OBVIOUS
        <5>2. PICK j : j = [k EXCEPT !.pc = next, !.policy = policy]
          OBVIOUS
        <5>3. call' = [call EXCEPT ![c] = j]
          BY <1>1, <1>3, <4>3, <5>1, <5>2
        <5>4. policy # None /\ UNCHANGED <<policy, month, reservation, event, attribution, sent,
                                           charge, told, raced>>
          BY <4>1
        <5> QED  BY <4>3, <5>1, <5>2, <5>3, <5>4
      <4> QED  BY <4>1, <4>2, <4>3
    <3>2. /\ j \in CallRecord /\ j.pc = next /\ j.n = k.n /\ j.model = k.model
          /\ j.period = k.period /\ j.cap = k.cap /\ j.reserved = k.reserved
          /\ j.tokens = k.tokens /\ j.usd = k.usd /\ j.policy = policy /\ j.incident = k.incident
      <4>1. j \in CallRecord
        BY <1>3, <1>5, <3>1, ZenonT(60) DEF CallRecord, InMonth
      <4>2. /\ j.pc = next /\ j.n = k.n /\ j.model = k.model /\ j.period = k.period
            /\ j.cap = k.cap /\ j.tokens = k.tokens /\ j.usd = k.usd
            /\ j.policy = policy /\ j.incident = k.incident
        BY <1>3, <3>1 DEF CallRecord
      <4>3. j.reserved = k.reserved
        BY <1>3, <3>1 DEF CallRecord
      <4> QED  BY <4>1, <4>2, <4>3
    <3>3. k.tokens = None /\ k.usd = None
      BY <1>4, <2>0 DEF ReadsSound
    <3>4. ReadsSound(j)
      BY <3>1, <3>2, <3>3 DEF ReadsSound, InIncident, InMonth
    <3>5. j.pc \in InMonth \cup {"admitted"}
      BY <3>1, <3>2 DEF InMonth
    <3> QED  BY <1>6, <3>1, <3>2, <3>4, <3>5
  <2> QED  BY <2>1, <2>2
<1>9. CASE _incident_remaining(c)
  <2>1. PICK next, left, j :
           /\ left \in Int
           /\ \/ k.pc = "incident settled" /\ next = "incident reserved"
              \/ k.pc = "incident reserved" /\ next = IF k.policy.usd # None THEN "legacy" ELSE "book"
           /\ j = [k EXCEPT !.pc = next, !.tokens = left]
           /\ call' = [call EXCEPT ![c] = j]
           /\ UNCHANGED <<policy, month, reservation, event, attribution, sent, charge, told, raced>>
    <3>1. CASE k.pc = "incident settled"
      <4>1. PICK left : left = k.policy.tokens - _incident_sum(k.incident, k.period, "settled")
        OBVIOUS
      <4>2. k.policy # None /\ k.policy.tokens # None
        BY <1>4, <3>1 DEF ReadsSound, InIncident, InMonth
      <4>3. left \in Int
        <5>1. k.policy.tokens \in Int
          BY <1>3, <4>2 DEF CallRecord, PolicyRow
        <5> QED  BY <1>5, <4>1, <5>1
      <4>4. PICK j : j = [k EXCEPT !.pc = "incident reserved", !.tokens = left]
        OBVIOUS
      <4>5. call' = [call EXCEPT ![c] = j]
        BY <1>1, <1>3, <1>9, <3>1, <4>1, <4>4 DEF _incident_remaining, Reads
      <4> QED  BY <1>9, <3>1, <4>3, <4>4, <4>5 DEF _incident_remaining, Reads
    <3>2. CASE k.pc = "incident reserved"
      <4>1. PICK left : left = k.tokens - _incident_sum(k.incident, k.period, "reserved")
        OBVIOUS
      <4>2. k.tokens # None
        BY <1>4, <3>2 DEF ReadsSound
      <4>3. left \in Int
        <5>1. k.tokens \in Int
          BY <1>3, <4>2 DEF CallRecord
        <5> QED  BY <1>5, <4>1, <5>1
      <4>4. PICK next : next = IF k.policy.usd # None THEN "legacy" ELSE "book"
        OBVIOUS
      <4>5. PICK j : j = [k EXCEPT !.pc = next, !.tokens = left]
        OBVIOUS
      <4>6. call' = [call EXCEPT ![c] = j]
        BY <1>1, <1>3, <1>9, <3>2, <4>1, <4>4, <4>5 DEF _incident_remaining, Reads
      <4> QED  BY <1>9, <3>2, <4>3, <4>4, <4>5, <4>6 DEF _incident_remaining, Reads
    <3> QED  BY <1>1, <1>9, <3>1, <3>2 DEF _incident_remaining, Reads
  <2>2. /\ j \in CallRecord /\ j.pc = next /\ j.n = k.n /\ j.model = k.model
        /\ j.period = k.period /\ j.cap = k.cap /\ j.reserved = k.reserved
        /\ j.tokens = left /\ j.usd = k.usd /\ j.policy = k.policy /\ j.incident = k.incident
    BY <1>3, <2>1, ZenonT(60) DEF CallRecord, InMonth
  <2>3. left # None
    BY <2>1, NoneAssumption
  <2>4. /\ k.policy # None /\ Matches(k.model) # {} /\ k.policy.tokens # None /\ k.incident # None
        /\ k.usd = None
    BY <1>4, <2>1 DEF ReadsSound, InIncident, InMonth
  <2>5. ReadsSound(j)
    BY <2>1, <2>2, <2>3, <2>4 DEF ReadsSound, InIncident, InMonth
  <2>6. j.pc \in InMonth \cup {"admitted"}
    BY <2>1, <2>2 DEF InMonth
  <2> QED  BY <1>6, <2>1, <2>2, <2>5, <2>6
<1>10. CASE _monthly_remaining(c)
  <2>1. PICK next, left, j :
           /\ left \in Int
           /\ \/ k.pc = "legacy" /\ next = "settled"
              \/ k.pc = "settled" /\ next = "reserved"
              \/ k.pc = "reserved" /\ next = "book"
           /\ j = [k EXCEPT !.pc = next, !.usd = left]
           /\ call' = [call EXCEPT ![c] = j]
           /\ UNCHANGED <<policy, month, reservation, event, attribution, sent, charge, told, raced>>
    <3>1. CASE k.pc = "legacy"
      <4>1. PICK left : left = k.policy.usd - _legacy_usage(k.period)
        OBVIOUS
      <4>2. k.policy # None /\ k.policy.usd # None
        BY <1>4, <3>1 DEF ReadsSound, InIncident, InMonth
      <4>3. left \in Int
        <5>1. k.policy.usd \in Int
          BY <1>3, <4>2 DEF CallRecord, PolicyRow
        <5> QED  BY <1>5, <4>1, <5>1
      <4>4. PICK j : j = [k EXCEPT !.pc = "settled", !.usd = left]
        OBVIOUS
      <4>5. call' = [call EXCEPT ![c] = j]
        BY <1>1, <1>3, <1>10, <3>1, <4>1, <4>4 DEF _monthly_remaining, Reads
      <4> QED  BY <1>10, <3>1, <4>3, <4>4, <4>5 DEF _monthly_remaining, Reads
    <3>2. CASE k.pc \in {"settled", "reserved"}
      <4>1. PICK left : left = k.usd - _period_sum(k.period, k.pc)
        OBVIOUS
      <4>2. k.usd # None
        BY <1>4, <3>2 DEF ReadsSound
      <4>3. left \in Int
        <5>1. k.usd \in Int
          BY <1>3, <4>2 DEF CallRecord
        <5> QED  BY <1>5, <4>1, <5>1
      <4>4. PICK next : next = IF k.pc = "settled" THEN "reserved" ELSE "book"
        OBVIOUS
      <4>5. PICK j : j = [k EXCEPT !.pc = next, !.usd = left]
        OBVIOUS
      <4>6. call' = [call EXCEPT ![c] = j]
        BY <1>1, <1>3, <1>10, <3>2, <4>1, <4>4, <4>5 DEF _monthly_remaining, Reads
      <4> QED  BY <1>10, <3>2, <4>3, <4>4, <4>5, <4>6 DEF _monthly_remaining, Reads
    <3> QED  BY <1>1, <1>10, <3>1, <3>2 DEF _monthly_remaining, Reads
  <2>2. /\ j \in CallRecord /\ j.pc = next /\ j.n = k.n /\ j.model = k.model
        /\ j.period = k.period /\ j.cap = k.cap /\ j.reserved = k.reserved
        /\ j.tokens = k.tokens /\ j.usd = left /\ j.policy = k.policy /\ j.incident = k.incident
    BY <1>3, <2>1 DEF CallRecord, InMonth
  <2>3. left # None
    BY <2>1, NoneAssumption
  <2>4. /\ k.policy # None /\ Matches(k.model) # {} /\ k.policy.usd # None
        /\ k.tokens # None <=> k.policy.tokens # None /\ k.incident # None
    BY <1>4, <2>1 DEF ReadsSound, InIncident, InMonth
  <2>5. ReadsSound(j)
    BY <2>1, <2>2, <2>3, <2>4 DEF ReadsSound, InIncident, InMonth
  <2>6. j.pc \in InMonth \cup {"admitted"}
    BY <2>1, <2>2 DEF InMonth
  <2> QED  BY <1>6, <2>1, <2>2, <2>5, <2>6
<1> QED  BY <1>7, <1>8, <1>9, <1>10

\* A process that dies leaves its request as it was.
LEMMA CrashSafe ==
    ASSUME GatewaySafe, NEW c \in Clients, Crash(c)
    PROVE  GatewaySafe'
<1>1. NoCall \in CallRecord /\ NoCall.pc = "idle"
  BY GatewayAssumption DEF NoCall, CallRecord
<1>2. Live(c)
  BY DEF Crash, Live
<1> QED  BY <1>1, <1>2, OneCall DEF Crash

\* book: what is booked is the worst case of the endpoint the cap was computed for.
LEMMA BookSafe ==
    ASSUME GatewaySafe, NEW c \in Clients, book(c)
    PROVE  GatewaySafe'
<1>1. PICK k, n, cap : k = call[c] /\ n = k.n /\ cap = Affordable(c)
  OBVIOUS
<1>2. k.pc = "book" /\ k.pc \in InMonth /\ Live(c)
  BY <1>1 DEF book, InMonth, Live
<1>3. k \in CallRecord /\ CallSound(k, Entry(n)) /\ GatewayType /\ n \in Calls
  BY <1>1, <1>2 DEF GatewaySafe, GatewayType, CallSound
<1>4. CASE Refuse(c)
  BY <1>1, <1>2, <1>4, RefusalSafe
<1>5. CASE ~Refuse(c)
  <2>1. /\ cap # None
        /\ reservation' = [reservation EXCEPT ![n] = Booking(c, cap)]
        /\ call' = [call EXCEPT ![c].pc = "admitted", ![c].cap = cap, ![c].reserved = TRUE,
                                ![c].tokens = None, ![c].usd = None]
        /\ UNCHANGED <<policy, month, event, attribution, sent, charge, told, raced>>
    BY <1>1, <1>5 DEF book
  <2>2. /\ k.model \in Models /\ Matches(k.model) # {} /\ k.policy \in PolicyRow
        /\ k.usd # None => k.policy.usd # None
        /\ k.tokens \in Int \cup {None} /\ k.usd \in Int \cup {None}
        /\ k.incident \in Incidents \cup {None} /\ k.period \in 1..MaxMonth
        /\ k.policy.version \in Nat
        /\ charge[n] = NoCharge /\ event[n] = None /\ attribution[n] = None /\ n \notin told
    <3>1. k.period \in 0..MaxMonth /\ k.period # 0
      BY <1>3 DEF CallRecord, CallSound
    <3>2. k.policy \in PolicyRow \cup {None} /\ k.policy # None
      BY <1>2, <1>3 DEF CallRecord, CallSound, ReadsSound, InIncident, InMonth
    <3>3. /\ Matches(k.model) # {} /\ (k.usd # None => k.policy.usd # None)
      BY <1>2, <1>3 DEF CallSound, ReadsSound, InIncident, InMonth
    <3>4. /\ k.tokens \in Int \cup {None} /\ k.usd \in Int \cup {None}
          /\ k.incident \in Incidents \cup {None}
      BY <1>3 DEF CallRecord
    <3>5. k.policy \in PolicyRow /\ k.policy.version \in Nat
      BY <3>2 DEF PolicyRow
    <3>6. k.period \in 1..MaxMonth
      BY <3>1, GatewayAssumption
    <3>7. /\ k.model \in Models /\ charge[n] = NoCharge /\ event[n] = None
          /\ attribution[n] = None /\ n \notin told
      BY <1>2, <1>3 DEF CallSound, Entry, Served
    <3> QED  BY <3>3, <3>4, <3>5, <3>6, <3>7
  <2>3. PICK s : s = select(k.model)
    OBVIOUS
  <2>4. s \in EndpointMetadata
    BY <2>2, <2>3, SelectedBounds
  <2>5. (k.policy.usd # None => Priced(s)) /\ cap = calculate_affordability(s, k.tokens, k.usd)
    BY <1>1, <2>1, <2>3 DEF Affordable
  <2>6. cap \in Nat \ {0}
    BY <2>1, <2>2, <2>4, <2>5, Affords
  <2>7. PICK r : r = Booking(c, cap)
    OBVIOUS
  <2>8. /\ r = [incident |-> k.incident, period |-> k.period,
                version |-> k.policy.version, model |-> k.model,
                tokenExposure |-> IF k.policy.tokens # None THEN token_exposure(s, cap) ELSE None,
                usdExposure |-> IF k.policy.usd # None THEN usd_exposure(s, cap) ELSE None,
                settledTokens |-> None, settledUsd |-> None, state |-> "reserved"]
    BY <1>1, <2>3, <2>7 DEF Booking
  <2>9. token_exposure(s, cap) \in Nat
    BY <2>4, <2>6, InputBound DEF token_exposure
  <2>10. k.policy.usd # None => usd_exposure(s, cap) \in Nat
    <3> SUFFICES ASSUME k.policy.usd # None PROVE usd_exposure(s, cap) \in Nat
      OBVIOUS
    <3>1. s.promptPrice \in Nat /\ s.completionPrice \in Nat /\ s.fee \in Nat
      BY <2>4, <2>5 DEF Priced, EndpointMetadata
    <3>2. PICK in : in = _input_bound(s) /\ in \in Nat
      BY <2>4, InputBound
    <3>3. s.promptPrice * in \in Nat /\ cap * s.completionPrice \in Nat
      BY <2>6, <3>1, <3>2, ProductBelow
    <3> QED  BY <3>1, <3>2, <3>3 DEF usd_exposure, _fixed_cost
  <2>11. r \in ReservationRow /\ r # None
    <3>1. r \in ReservationRow
      BY <2>2, <2>8, <2>9, <2>10 DEF ReservationRow
    <3> QED  BY <3>1, NoneAssumption
  <2>12. PICK j : j = [k EXCEPT !.pc = "admitted", !.cap = cap, !.reserved = TRUE,
                                !.tokens = None, !.usd = None]
    OBVIOUS
  <2>13. call' = [call EXCEPT ![c] = j]
    BY <1>1, <1>3, <2>1, <2>12 DEF GatewayType
  <2>14. /\ j \in CallRecord /\ j.pc = "admitted" /\ j.n = n /\ j.model = k.model
         /\ j.period = k.period /\ j.cap = cap /\ j.reserved
    BY <1>1, <1>3, <2>6, <2>12, ZenonT(60) DEF CallRecord
  <2>15. GatewayType'
    <3>1. call' \in [Clients -> CallRecord]
      BY <1>3, <2>13, <2>14 DEF GatewayType
    <3>2. reservation' \in [Calls -> ReservationRow \cup {None}]
      BY <1>3, <2>1, <2>7, <2>11 DEF GatewayType
    <3> QED  BY <1>3, <2>1, <3>1, <3>2 DEF GatewayType
  <2>16. \A m \in Calls \ {n} : Entry(m)' = Entry(m)
    BY <1>3, <2>1 DEF GatewayType, Entry
  <2>17. PICK e : e = Entry(n)'
    OBVIOUS
  <2>18. /\ e.row = r /\ e.event = None /\ e.attribution = None
         /\ e.charge = NoCharge /\ ~e.told
    BY <1>3, <2>1, <2>2, <2>7, <2>17 DEF GatewayType, Entry
  <2>19. EntrySound(e)
    <3>1. /\ NoCharge.tokens = 0 /\ NoCharge.usd = 0
          /\ r.tokenExposure \in Nat \cup {None} /\ r.usdExposure \in Nat \cup {None}
          /\ r.state = "reserved"
      BY <2>8, <2>11 DEF NoCharge, ReservationRow
    <3> QED  BY <2>11, <2>18, <3>1 DEF EntrySound
  <2>20. CallSound(j, e)
    <3>1. ReadsSound(j)
      BY <2>14 DEF ReadsSound, InIncident, InMonth
    <3>2. cap # None
      BY <2>1
    <3>3. RowSound(j, e)
      BY <2>2, <2>3, <2>5, <2>8, <2>11, <2>14, <2>18, <3>2 DEF RowSound
    <3> QED  BY <1>3, <2>2, <2>14, <2>18, <3>1, <3>3, GatewayAssumption DEF CallSound, Served
  <2> QED  BY <1>1, <1>2, <2>1, <2>13, <2>14, <2>15, <2>16, <2>17, <2>19, <2>20, OneRequest
<1> QED  BY <1>4, <1>5

\* What the handler keeps of a body: a usage that is complete is the cost of the attempt.
LEMMA KeptFacts ==
    ASSUME NEW in \in Nat, NEW out \in Nat, NEW cost \in Nat,
           NEW usage \in Usages(in, out, cost) \cup {NoUsage},
           NEW kind, NEW http, NEW fast, NEW credited \in BOOLEAN,
           NEW result, result = Result(kind, http, fast, credited, usage)
    PROVE  /\ Kept(result) \in KeptResult
           /\ Kept(result).ok <=> kind = "ok"
           /\ Kept(result).credited <=> credited
           /\ Kept(result).complete <=> Kept(result).availability = "complete"
           /\ Kept(result).complete /\ usage # NoUsage =>
                Kept(result).tokens = in + out /\ Kept(result).usd = cost
           /\ usage = NoUsage => Kept(result).tokens = 0 /\ Kept(result).usd = 0
           /\ result.http = http /\ (result.charged <=> usage # None /\ usage # NoUsage)
<1>1. PICK av : av = _consumption(usage)
  OBVIOUS
<1>2. result = [kind |-> kind, http |-> http, fast |-> fast, credited |-> credited,
                availability |-> av, charged |-> Charged(usage),
                tokens |-> IF usage = None THEN None ELSE usage.total,
                usd |-> IF usage = None THEN None ELSE usage.cost]
  BY <1>1 DEF Result
<1>3. /\ result.kind = kind /\ result.http = http /\ result.credited = credited
      /\ result.availability = av /\ (result.charged <=> usage # None /\ usage # NoUsage)
      /\ usage # None => result.tokens = usage.total /\ result.usd = usage.cost
  <2>1. result.kind = kind /\ result.http = http /\ result.availability = av
    BY <1>2
  <2>2. result.credited = credited
    BY <1>2
  <2>3. result.charged <=> usage # None /\ usage # NoUsage
    <3>1. PICK x : x = Charged(usage)
      OBVIOUS
    <3>2. result.charged = x
      BY <1>2, <3>1
    <3> QED  BY <3>1, <3>2 DEF Charged
  <2>4. usage # None => result.tokens = usage.total /\ result.usd = usage.cost
    BY <1>2
  <2> QED  BY <2>1, <2>2, <2>3, <2>4, Zenon
<1>4. PICK kept : kept = Kept(result)
  OBVIOUS
<1>5. /\ kept.ok <=> kind = "ok"
      /\ kept.credited <=> credited
      /\ kept.availability = av /\ (kept.complete <=> av = "complete")
      /\ kept.tokens = IF av = "complete" THEN result.tokens ELSE 0
      /\ kept.usd = IF av = "complete" THEN result.usd ELSE 0
  BY <1>3, <1>4 DEF Kept
<1>6. av \in Usage
  BY <1>1 DEF _consumption, Usage
<1>7. None \notin Nat /\ in + out \in Nat /\ in + out + 1 \in Nat
  BY NoneAssumption
<1>8. /\ av = "complete" => /\ usage # None
                            /\ usage.total \in Nat /\ usage.cost \in Nat
      /\ av = "complete" /\ usage # NoUsage => usage.total = in + out /\ usage.cost = cost
      /\ usage = NoUsage => usage.total = 0 /\ usage.cost = 0
  <2>1. CASE usage = None
    <3>1. av = "absent"
      BY <1>1, <2>1 DEF _consumption
    <3>2. NoUsage \in UsageBody
      BY DEF NoUsage, UsageBody
    <3> QED  BY <2>1, <3>1, <3>2, NoneAssumption
  <2>2. CASE usage = NoUsage
    <3>1. usage.total = 0 /\ usage.cost = 0 /\ usage \in UsageBody
      BY <2>2 DEF NoUsage, UsageBody
    <3> QED  BY <2>2, <3>1, NoneAssumption
  <2>3. CASE usage = [input |-> in, output |-> out, total |-> in + out, cost |-> cost]
    <3>1. usage.total = in + out /\ usage.cost = cost /\ usage \in UsageBody
      BY <1>7, <2>3 DEF UsageBody
    <3>2. usage = NoUsage => usage.total = 0 /\ usage.cost = 0
      BY DEF NoUsage
    <3> QED  BY <1>7, <3>1, <3>2, NoneAssumption
  <2>4. CASE usage = [input |-> in, output |-> out, total |-> in + out, cost |-> None]
    <3>1. usage.cost = None /\ usage \in UsageBody
      BY <1>7, <2>4 DEF UsageBody
    <3>2. av # "complete"
      BY <1>1, <3>1 DEF _consumption
    <3>3. usage = NoUsage => usage.total = 0 /\ usage.cost = 0
      BY DEF NoUsage
    <3> QED  BY <3>2, <3>3
  <2>5. CASE usage = [input |-> in, output |-> out, total |-> in + out + 1, cost |-> cost]
    <3>1. usage.total = in + out + 1 /\ usage.input = in /\ usage.output = out
      BY <2>5
    <3>2. av # "complete"
      BY <1>1, <3>1 DEF _consumption
    <3>3. usage = NoUsage => usage.total = 0 /\ usage.cost = 0
      BY DEF NoUsage
    <3> QED  BY <3>2, <3>3
  <2> QED  BY <2>1, <2>2, <2>3, <2>4, <2>5 DEF Usages
<1>9. kept.tokens \in Nat /\ kept.usd \in Nat
  BY <1>3, <1>5, <1>8
<1>10. kept \in KeptResult
  <2>1. kept = [ok |-> kept.ok, credited |-> kept.credited, availability |-> kept.availability,
                complete |-> kept.complete, tokens |-> kept.tokens, usd |-> kept.usd]
    BY <1>4 DEF Kept
  <2>2. kept.ok \in BOOLEAN /\ kept.credited \in BOOLEAN /\ kept.complete \in BOOLEAN
    BY <1>3, <1>4 DEF Kept
  <2> QED  BY <1>5, <1>6, <1>9, <2>1, <2>2 DEF KeptResult
<1>11. usage = NoUsage => kept.tokens = 0 /\ kept.usd = 0
  BY <1>3, <1>5, <1>8
<1>12. kept.complete /\ usage # NoUsage => kept.tokens = in + out /\ kept.usd = cost
  BY <1>3, <1>5, <1>8
<1> QED  BY <1>3, <1>4, <1>5, <1>10, <1>11, <1>12

\* provider_create: one attempt is charged at most, since what says that it did work is not
\* sent again; so the charge is the cost of one attempt, and what is kept of it is that cost.
LEMMA ProviderSafe ==
    ASSUME GatewaySafe, NEW c \in Clients, provider_create(c)
    PROVE  GatewaySafe'
<1>1. PICK k, n, old : k = call[c] /\ n = k.n /\ old = Entry(n)
  OBVIOUS
<1>2. k.pc = "admitted" /\ Live(c)
  BY <1>1 DEF provider_create, Live
<1>3. /\ k \in CallRecord /\ CallSound(k, old) /\ GatewayType /\ n \in Calls
      /\ k.model \in Models /\ k.cap \in (Nat \ {0}) \cup {None}
      /\ charge \in [Calls -> ChargeRow] /\ call \in [Clients -> CallRecord]
  <2>1. k \in CallRecord /\ CallSound(k, old) /\ GatewayType
    BY <1>1, <1>2 DEF GatewaySafe, GatewayType
  <2> QED  BY <1>1, <2>1 DEF CallSound, GatewayType, CallRecord
<1>4. /\ charge[n] = NoCharge /\ event[n] = None /\ attribution[n] = None /\ n \notin told
      /\ RowSound(k, old) /\ old.row = reservation[n] /\ EntrySound(old)
      /\ old.event = None /\ old.attribution = None /\ ~old.told
  <2>1. EntrySound(old)
    BY <1>1, <1>3 DEF GatewaySafe
  <2> QED  BY <1>1, <1>2, <1>3, <2>1 DEF CallSound, Entry, Served
<1>5. UNCHANGED <<policy, month, reservation, event, attribution, sent, told, raced>>
  BY DEF provider_create
<1>6. ASSUME NEW ch \in ChargeRow, charge' = [charge EXCEPT ![n] = ch], NEW result,
             Received(c, result), Kept(result) \in KeptResult,
             \/ ch = NoCharge
             \/ /\ ~Retries(k.tries, result)
                /\ k.cap # None =>
                     /\ ch.tokens <= token_exposure(select(k.model), k.cap)
                     /\ Priced(select(k.model)) => ch.usd <= usd_exposure(select(k.model), k.cap),
             Kept(result).ok => Kept(result).credited,
             Kept(result).credited => ch.honest,
             Kept(result).complete <=> Kept(result).availability = "complete",
             Kept(result).complete =>
                Kept(result).tokens = ch.tokens /\ Kept(result).usd = ch.usd
      PROVE  GatewaySafe'
  <2>1. PICK again : again = Retries(k.tries, result)
    OBVIOUS
  <2>2. PICK kept : kept = Kept(result)
    OBVIOUS
  <2>3. PICK next, res : /\ next = IF again THEN "admitted" ELSE "answered"
                         /\ res = IF again THEN None ELSE kept
    OBVIOUS
  <2>4. PICK j : j = [k EXCEPT !.tries = 1, !.pc = next, !.result = res]
    OBVIOUS
  <2>5. call' = [call EXCEPT ![c] = j]
    BY <1>1, <1>3, <1>6, <2>1, <2>2, <2>3, <2>4 DEF Received
  <2>6. /\ j \in CallRecord /\ j.pc = next /\ j.result = res /\ j.n = n /\ j.model = k.model
        /\ j.period = k.period /\ j.cap = k.cap /\ j.reserved = k.reserved
    <3>1. next \in {"admitted", "answered"} /\ res \in KeptResult \cup {None}
      BY <1>6, <2>2, <2>3
    <3> QED  BY <1>1, <1>3, <2>4, <3>1, ZenonT(60) DEF CallRecord, Served
  <2>7. GatewayType'
    <3>1. call' \in [Clients -> CallRecord]
      BY <1>3, <2>5, <2>6
    <3>2. charge' \in [Calls -> ChargeRow]
      BY <1>3, <1>6
    <3> QED  BY <1>3, <1>5, <3>1, <3>2 DEF GatewayType
  <2>8. \A m \in Calls \ {n} : Entry(m)' = Entry(m)
    BY <1>3, <1>5, <1>6 DEF Entry
  <2>9. PICK e : e = Entry(n)'
    OBVIOUS
  <2>10. /\ e.row = old.row /\ e.event = None /\ e.attribution = None
         /\ e.charge = ch /\ ~e.told
    BY <1>3, <1>4, <1>5, <1>6, <2>9 DEF Entry
  <2>11. EntrySound(e)
    <3>1. CASE old.row = None
      BY <2>10, <3>1 DEF EntrySound
    <3>2. CASE old.row # None
      <4>1. /\ old.row.state = "reserved" /\ k.cap # None
            /\ old.row.tokenExposure # None =>
                 old.row.tokenExposure = token_exposure(select(k.model), k.cap)
            /\ old.row.usdExposure # None =>
                 /\ Priced(select(k.model))
                 /\ old.row.usdExposure = usd_exposure(select(k.model), k.cap)
        BY <1>2, <1>4, <3>2 DEF RowSound
      <4>2. /\ old.row.tokenExposure = None \/ ch.tokens <= old.row.tokenExposure
            /\ old.row.usdExposure = None \/ ch.usd <= old.row.usdExposure
        <5>1. CASE ch = NoCharge
          <6>1. old.charge = ch
            BY <1>1, <1>4, <5>1 DEF Entry
          <6> QED  BY <1>4, <3>2, <6>1 DEF EntrySound
        <5>2. CASE ch # NoCharge
          BY <1>6, <4>1, <5>2
        <5> QED  BY <5>1, <5>2
      <4> QED  BY <2>10, <4>1, <4>2 DEF EntrySound
    <3> QED  BY <3>1, <3>2
  <2>12. CallSound(j, e)
    <3>1. ReadsSound(j)
      BY <2>3, <2>6 DEF ReadsSound, InIncident, InMonth
    <3>2. RowSound(j, e)
      BY <1>2, <1>4, <2>6, <2>10 DEF RowSound
    <3>3. j.pc \notin Served => e.charge = NoCharge
      BY <1>6, <2>1, <2>3, <2>6, <2>10 DEF Served
    <3>4. j.pc \in {"admitted"} \cup Served
      BY <2>3, <2>6 DEF Served
    <3>5. j.pc \in Served =>
            /\ j.result \in KeptResult
            /\ j.result.ok => j.result.credited
            /\ j.result.credited => e.charge.honest
            /\ j.result.complete <=> j.result.availability = "complete"
            /\ j.result.complete =>
                 j.result.tokens = e.charge.tokens /\ j.result.usd = e.charge.usd
      <4>1. j.pc \in Served => j.result = kept
        BY <2>3, <2>6 DEF Served
      <4> QED  BY <1>6, <2>2, <2>10, <4>1
    <3>6. j.n \in Calls /\ j.model \in Models /\ j.period # 0
      BY <1>3, <2>6 DEF CallSound
    <3> QED  BY <2>10, <3>1, <3>2, <3>3, <3>4, <3>5, <3>6 DEF CallSound
  <2> QED  BY <1>1, <1>2, <1>5, <2>5, <2>6, <2>7, <2>8, <2>9, <2>11, <2>12, OneRequest
<1>7. ASSUME NEW cost \in Costs(c), NEW honest \in BOOLEAN, Charges(n, cost, honest),
             NEW usage \in Usages(cost.in, cost.out, cost.usd), NEW result,
             NEW kind, NEW http, NEW fast, NEW credited \in BOOLEAN,
             result = Result(kind, http, fast, credited, usage), Received(c, result),
             ~Retries(k.tries, result), kind = "ok" => credited, credited => honest
      PROVE  GatewaySafe'
  <2>1. PICK s : s = select(k.model)
    OBVIOUS
  <2>2. /\ cost.in \in Nat \ {0} /\ cost.out \in Nat
        /\ cost.tokens \in Nat /\ cost.tokens = cost.in + cost.out /\ cost.usd \in Nat
        /\ k.cap # None =>
             /\ cost.tokens <= token_exposure(s, k.cap)
             /\ Priced(s) => cost.usd <= usd_exposure(s, k.cap)
    BY <1>1, <1>3, <2>1, CostBound
  <2>3. PICK o : o = charge[n] /\ o \in ChargeRow /\ o.tokens = 0 /\ o.usd = 0
    <3>1. NoCharge.tokens = 0 /\ NoCharge.usd = 0
      BY DEF NoCharge
    <3> QED  BY <1>3, <1>4, <3>1
  <2>4. PICK ch : ch = [o EXCEPT !.tokens = @ + cost.tokens, !.usd = @ + cost.usd, !.honest = honest]
    OBVIOUS
  <2>5. /\ ch \in ChargeRow /\ ch.tokens = cost.tokens /\ ch.usd = cost.usd
        /\ ch.honest = honest /\ charge' = [charge EXCEPT ![n] = ch]
    <3>1. ch \in ChargeRow
      <4>1. PICK t, u : t = o.tokens + cost.tokens /\ u = o.usd + cost.usd
        OBVIOUS
      <4>2. t \in Nat /\ u \in Nat
        BY <2>2, <2>3, <4>1
      <4>3. CASE honest = TRUE
        <5>1. ch = [o EXCEPT !.tokens = t, !.usd = u, !.honest = TRUE]
          BY <2>4, <4>1, <4>3
        <5> QED  BY <2>3, <4>2, <5>1 DEF ChargeRow
      <4>4. CASE honest = FALSE
        <5>1. ch = [o EXCEPT !.tokens = t, !.usd = u, !.honest = FALSE]
          BY <2>4, <4>1, <4>4
        <5> QED  BY <2>3, <4>2, <5>1 DEF ChargeRow
      <4> QED  BY <4>3, <4>4
    <3>2. ch.tokens = cost.tokens /\ ch.usd = cost.usd
      BY <2>2, <2>3, <2>4 DEF ChargeRow
    <3>3. ch.honest = honest
      BY <2>3, <2>4 DEF ChargeRow
    <3>4. charge' = [charge EXCEPT ![n] = ch]
      BY <1>3, <1>7, <2>3, <2>4 DEF Charges
    <3> QED  BY <3>1, <3>2, <3>3, <3>4
  <2>6. usage # NoUsage
    <3>1. \/ usage = None
          \/ usage.input = cost.in
      BY DEF Usages
    <3>2. NoUsage # None /\ NoUsage.input = 0
      <4>1. NoUsage \in UsageBody
        BY DEF NoUsage, UsageBody
      <4> QED  BY <4>1, NoneAssumption DEF NoUsage
    <3> QED  BY <2>2, <3>1, <3>2
  <2>7. PICK in, out, usd : in = cost.in /\ out = cost.out /\ usd = cost.usd
    OBVIOUS
  <2>8. /\ Kept(result) \in KeptResult
        /\ Kept(result).ok <=> kind = "ok"
        /\ Kept(result).credited <=> credited
        /\ Kept(result).complete <=> Kept(result).availability = "complete"
        /\ Kept(result).complete =>
             Kept(result).tokens = in + out /\ Kept(result).usd = usd
    <3>1. in \in Nat /\ out \in Nat /\ usd \in Nat /\ usage \in Usages(in, out, usd) \cup {NoUsage}
      BY <2>2, <2>7
    <3> QED  BY <1>7, <2>6, <3>1, KeptFacts
  <2> QED  BY <1>6, <1>7, <2>1, <2>2, <2>5, <2>7, <2>8
<1>8. ASSUME charge' = charge, NEW usage \in {None, NoUsage}, NEW result,
             NEW kind, NEW http, NEW fast, kind # "ok",
             result = Result(kind, http, fast, FALSE, usage), Received(c, result)
      PROVE  GatewaySafe'
  <2>1. PICK ch : ch = NoCharge
    OBVIOUS
  <2>2. ch \in ChargeRow /\ ch.tokens = 0 /\ ch.usd = 0 /\ charge' = [charge EXCEPT ![n] = ch]
    BY <1>3, <1>4, <1>8, <2>1 DEF NoCharge, ChargeRow
  <2>3. /\ Kept(result) \in KeptResult
        /\ Kept(result).ok <=> kind = "ok"
        /\ Kept(result).credited <=> FALSE
        /\ Kept(result).complete <=> Kept(result).availability = "complete"
        /\ Kept(result).complete => Kept(result).tokens = 0 /\ Kept(result).usd = 0
    <3>1. PICK in, out, usd, no : in = 0 /\ out = 0 /\ usd = 0 /\ no = FALSE
      OBVIOUS
    <3>2. usage \in Usages(in, out, usd) \cup {NoUsage}
      BY DEF Usages
    <3>3. in \in Nat /\ out \in Nat /\ usd \in Nat /\ no \in BOOLEAN
      BY <3>1
    <3>4. result = Result(kind, http, fast, no, usage)
      BY <1>8, <3>1
    <3>5. /\ Kept(result) \in KeptResult
          /\ Kept(result).ok <=> kind = "ok"
          /\ Kept(result).credited <=> no
          /\ Kept(result).complete <=> Kept(result).availability = "complete"
          /\ Kept(result).complete /\ usage # NoUsage =>
                Kept(result).tokens = in + out /\ Kept(result).usd = usd
          /\ usage = NoUsage => Kept(result).tokens = 0 /\ Kept(result).usd = 0
      BY <3>2, <3>3, <3>4, KeptFacts
    <3> QED  BY <3>1, <3>5
  <2> QED  BY <1>6, <1>8, <2>1, <2>2, <2>3
<1>9. CASE answers(c)
  <2>1. PICK cost \in Costs(c), served \in Evidences(call[c].model), sound \in BOOLEAN :
        \E usage \in Usages(cost.in, cost.out, cost.usd) :
        LET kind == IF served.model = None THEN "evidence_invalid"
                    ELSE IF sound THEN "ok" ELSE "invalid_response"
        IN /\ Charges(call[c].n, cost, served.model # None => served.honest)
           /\ Received(c, Result(kind, 200, TRUE, served.model # None, usage))
    BY <1>9, Zenon DEF answers
  <2>2. PICK kind : kind = IF served.model = None THEN "evidence_invalid"
                           ELSE IF sound THEN "ok" ELSE "invalid_response"
    OBVIOUS
  <2>3. PICK usage \in Usages(cost.in, cost.out, cost.usd) :
           /\ Charges(call[c].n, cost, served.model # None => served.honest)
           /\ Received(c, Result(kind, 200, TRUE, served.model # None, usage))
    BY <2>1, <2>2, Zenon
  <2>4. PICK honest, credited, http, fast :
           /\ honest = (served.model # None => served.honest)
           /\ credited = (served.model # None) /\ http = 200 /\ fast = TRUE
    OBVIOUS
  <2>5. PICK result : result = Result(kind, http, fast, credited, usage)
    OBVIOUS
  <2>6. Charges(n, cost, honest) /\ Received(c, result)
    BY <1>1, <2>3, <2>4, <2>5, Zenon
  <2>7. honest \in BOOLEAN /\ credited \in BOOLEAN /\ (kind = "ok" => credited) /\ (credited => honest)
    <3>1. served.model # None => served.honest
      BY <1>1, <1>3, EvidenceHonest
    <3> QED  BY <2>2, <2>4, <3>1
  <2>8. ~Retries(k.tries, result)
    BY <2>4, <2>5 DEF Retries, Result
  <2> QED  BY <1>7, <2>5, <2>6, <2>7, <2>8
<1>10. CASE fails(c)
  <2>1. PICK kind \in {"unavailable", "invalid_response"}, fast \in BOOLEAN :
        \/ /\ Received(c, Result(kind, 503, fast, FALSE, NoUsage))
           /\ kind = "unavailable"
           /\ UNCHANGED charge
        \/ \E cost \in Costs(c) : \E usage \in Usages(cost.in, cost.out, cost.usd) \ {None} :
             /\ Charges(call[c].n, cost, TRUE)
             /\ Received(c, Result(kind, IF kind = "unavailable" THEN 503 ELSE 400,
                                   fast, FALSE, usage))
    BY <1>10, Zenon DEF fails
  <2>2. CASE Received(c, Result(kind, 503, fast, FALSE, NoUsage)) /\ UNCHANGED charge
    <3>1. PICK http, usage : http = 503 /\ usage = NoUsage
      OBVIOUS
    <3>2. PICK result : result = Result(kind, http, fast, FALSE, usage)
      OBVIOUS
    <3>3. Received(c, result) /\ charge' = charge
      BY <2>2, <3>1, <3>2
    <3>4. usage \in {None, NoUsage} /\ kind # "ok"
      BY <2>1, <3>1
    <3> QED  BY <1>8, <3>2, <3>3, <3>4
  <2>3. ASSUME NEW cost \in Costs(c), NEW usage \in Usages(cost.in, cost.out, cost.usd) \ {None},
               Charges(call[c].n, cost, TRUE),
               Received(c, Result(kind, IF kind = "unavailable" THEN 503 ELSE 400,
                                  fast, FALSE, usage))
        PROVE  GatewaySafe'
    <3>0. PICK http : http = (IF kind = "unavailable" THEN 503 ELSE 400)
      OBVIOUS
    <3>1. PICK honest, credited : honest = TRUE /\ credited = FALSE
      OBVIOUS
    <3>2. PICK result : result = Result(kind, http, fast, credited, usage)
      OBVIOUS
    <3>3. Received(c, result) /\ Charges(n, cost, honest)
      <4>1. Received(c, Result(kind, http, fast, credited, usage))
        BY <2>3, <3>0, <3>1, ZenonT(60)
      <4>2. Charges(n, cost, honest)
        BY <1>1, <2>3, <3>1, Zenon
      <4> QED  BY <3>2, <4>1, <4>2, Zenon
    <3>4. cost.in \in Nat \ {0}
      BY <1>1, <1>3, CostBound
    <3>5. usage # NoUsage
      <4>1. usage.input = cost.in
        BY <2>3 DEF Usages
      <4> QED  BY <3>4, <4>1 DEF NoUsage
    <3>6. ~Retries(k.tries, result)
      <4>1. result.charged
        BY <2>3, <3>2, <3>5 DEF Result, Charged
      <4> QED  BY <4>1 DEF Retries
    <3>7. kind # "ok" /\ honest \in BOOLEAN /\ credited \in BOOLEAN /\ ~credited
      BY <2>1, <3>1
    <3>8. usage \in Usages(cost.in, cost.out, cost.usd)
      OBVIOUS
    <3> QED  BY <1>7, <3>2, <3>3, <3>6, <3>7, <3>8
  <2> QED  BY <2>1, <2>2, <2>3
<1>11. CASE times_out(c)
  <2>1. PICK kind, fast, usage, http, credited, honest :
           /\ kind = "timeout" /\ fast = FALSE /\ usage = None /\ http = 0 /\ credited = FALSE
           /\ honest = TRUE
    OBVIOUS
  <2>2. PICK result : result = Result(kind, http, fast, credited, usage)
    OBVIOUS
  <2>3. /\ Received(c, result)
        /\ \/ UNCHANGED charge
           \/ \E cost \in Costs(c) : Charges(n, cost, honest)
    BY <1>1, <1>11, <2>1, <2>2 DEF times_out
  <2>4. CASE UNCHANGED charge
    <3>1. result = Result(kind, http, fast, FALSE, usage) /\ usage \in {None, NoUsage} /\ kind # "ok"
      BY <2>1, <2>2
    <3> QED  BY <1>8, <2>3, <2>4, <3>1
  <2>5. ASSUME NEW cost \in Costs(c), Charges(n, cost, honest)
        PROVE  GatewaySafe'
    <3>1. usage \in Usages(cost.in, cost.out, cost.usd)
      BY <2>1 DEF Usages
    <3>2. ~Retries(k.tries, result)
      BY <2>1, <2>2 DEF Retries, Result
    <3>3. kind # "ok" /\ honest \in BOOLEAN /\ credited \in BOOLEAN /\ ~credited
      BY <2>1
    <3> QED  BY <1>7, <2>2, <2>3, <2>5, <3>1, <3>2, <3>3
  <2> QED  BY <2>3, <2>4, <2>5
<1> QED  BY <1>9, <1>10, <1>11 DEF provider_create

\* _settle_exact: what settles is what was charged.
LEMMA SettleSafe ==
    ASSUME GatewaySafe, NEW c \in Clients, _settle_exact(c)
    PROVE  GatewaySafe'
<1>1. PICK k, n, old, res : k = call[c] /\ n = k.n /\ old = Entry(n) /\ res = k.result
  OBVIOUS
<1>2. k.pc = "answered" /\ k.pc \in Served /\ Live(c)
  BY <1>1 DEF _settle_exact, Live, Served
<1>3. /\ k \in CallRecord /\ CallSound(k, old) /\ GatewayType /\ n \in Calls
      /\ reservation \in [Calls -> ReservationRow \cup {None}] /\ call \in [Clients -> CallRecord]
      /\ res \in KeptResult /\ EntrySound(old) /\ RowSound(k, old)
  <2>1. k \in CallRecord /\ CallSound(k, old) /\ GatewayType
    BY <1>1, <1>2 DEF GatewaySafe, GatewayType
  <2>2. n \in Calls
    BY <1>1, <2>1 DEF CallSound
  <2> QED  BY <1>1, <1>2, <2>1, <2>2 DEF CallSound, GatewayType, GatewaySafe
<1>4. PICK j : j = [k EXCEPT !.pc = "accounted"]
  OBVIOUS
<1>5. /\ call' = [call EXCEPT ![c] = j]
      /\ UNCHANGED <<policy, month, event, attribution, sent, charge, told>>
  BY <1>1, <1>3, <1>4 DEF _settle_exact, Step
<1>6. /\ j \in CallRecord /\ j.pc = "accounted" /\ j.result = res /\ j.n = n /\ j.model = k.model
      /\ j.period = k.period /\ j.cap = k.cap /\ j.reserved = k.reserved
  BY <1>1, <1>3, <1>4 DEF CallRecord, Served
<1>7. raced' \in BOOLEAN
  BY <1>3 DEF _settle_exact, GatewayType, BetweenSums
<1>8. PICK r : /\ r \in ReservationRow \cup {None}
               /\ reservation' = [reservation EXCEPT ![n] = r]
               /\ r = None <=> old.row = None
               /\ r # None => /\ r.model = old.row.model
                              /\ r.tokenExposure = old.row.tokenExposure
                              /\ r.usdExposure = old.row.usdExposure
                              /\ \/ r = old.row
                                 \/ /\ r.settledTokens = old.charge.tokens
                                    /\ r.settledUsd = old.charge.usd
  <2>1. CASE reservation' = reservation
    <3>1. PICK r : r = reservation[n]
      OBVIOUS
    <3>2. reservation' = [reservation EXCEPT ![n] = r] /\ old.row = r
      BY <1>1, <1>3, <2>1, <3>1 DEF Entry
    <3> QED  BY <1>3, <3>1, <3>2
  <2>2. CASE k.reserved /\ res.complete /\ reservation' = Settled(n, res)
    <3>1. PICK o : o = reservation[n] /\ o \in ReservationRow /\ o = old.row /\ o # None
      BY <1>1, <1>3, <2>2 DEF RowSound, Entry
    <3>2. PICK r : r = [o EXCEPT !.state = "settled", !.settledTokens = res.tokens,
                                 !.settledUsd = res.usd]
      OBVIOUS
    <3>3. reservation' = [reservation EXCEPT ![n] = r]
      BY <1>3, <2>2, <3>1, <3>2 DEF Settled
    <3>4. res.tokens \in Nat /\ res.usd \in Nat
      BY <1>3 DEF KeptResult
    <3>5. /\ r \in ReservationRow /\ r.model = o.model /\ r.tokenExposure = o.tokenExposure
          /\ r.usdExposure = o.usdExposure
          /\ r.settledTokens = res.tokens /\ r.settledUsd = res.usd
      BY <3>1, <3>2, <3>4 DEF ReservationRow
    <3>6. res.tokens = old.charge.tokens /\ res.usd = old.charge.usd
      BY <1>1, <1>2, <1>3, <2>2 DEF CallSound
    <3>7. r # None
      BY <3>5, NoneAssumption
    <3> QED  BY <3>1, <3>3, <3>5, <3>6, <3>7
  <2> QED  BY <1>1, <2>1, <2>2 DEF _settle_exact
<1>9. GatewayType'
  <2>1. call' \in [Clients -> CallRecord]
    BY <1>3, <1>5, <1>6
  <2>2. reservation' \in [Calls -> ReservationRow \cup {None}]
    BY <1>3, <1>8
  <2> QED  BY <1>3, <1>5, <1>7, <2>1, <2>2 DEF GatewayType
<1>10. \A m \in Calls \ {n} : Entry(m)' = Entry(m)
  BY <1>3, <1>5, <1>8 DEF Entry
<1>11. PICK e : e = Entry(n)'
  OBVIOUS
<1>12. /\ e.row = r /\ e.event = None /\ e.attribution = None
       /\ e.charge = old.charge /\ ~e.told
  <2>1. /\ event[n] = None /\ attribution[n] = None /\ n \notin told /\ old.charge = charge[n]
    BY <1>1, <1>3 DEF CallSound, Entry
  <2> QED  BY <1>3, <1>5, <1>8, <1>11, <2>1 DEF Entry
<1>13. EntrySound(e)
  <2>1. CASE r = None
    BY <1>12, <2>1 DEF EntrySound
  <2>2. CASE r # None
    <3>1. /\ old.row # None
          /\ old.row.tokenExposure = None \/ old.charge.tokens <= old.row.tokenExposure
          /\ old.row.usdExposure = None \/ old.charge.usd <= old.row.usdExposure
          /\ old.row.state = "settled" =>
               old.row.settledTokens = old.charge.tokens /\ old.row.settledUsd = old.charge.usd
      BY <1>3, <1>8, <2>2 DEF EntrySound
    <3> QED  BY <1>8, <1>12, <2>2, <3>1 DEF EntrySound
  <2> QED  BY <2>1, <2>2
<1>14. CallSound(j, e)
  <2>1. ReadsSound(j)
    BY <1>6 DEF ReadsSound, InIncident, InMonth
  <2>2. RowSound(j, e)
    BY <1>3, <1>6, <1>8, <1>12 DEF RowSound
  <2>3. j.pc \in Served
    BY <1>6 DEF Served
  <2> QED  BY <1>1, <1>2, <1>3, <1>6, <1>12, <2>1, <2>2, <2>3 DEF CallSound
<1> QED  BY <1>1, <1>2, <1>5, <1>6, <1>9, <1>10, <1>11, <1>13, <1>14, OneRequest

\* _finish: the event and the attribution say what was kept, of the model that was booked.
LEMMA FinishSafe ==
    ASSUME GatewaySafe, NEW c \in Clients, _finish(c)
    PROVE  GatewaySafe'
<1>1. PICK k, n, old, res : k = call[c] /\ n = k.n /\ old = Entry(n) /\ res = k.result
  OBVIOUS
<1>2. k.pc = "accounted" /\ k.pc \in Served /\ Live(c)
  BY <1>1 DEF _finish, Live, Served
<1>3. /\ k \in CallRecord /\ CallSound(k, old) /\ GatewayType /\ n \in Calls
      /\ k.model \in Models /\ k.incident \in Incidents \cup {None} /\ month \in 1..MaxMonth
      /\ event \in [Calls -> EventRow \cup {None}]
      /\ attribution \in [Calls -> AttributionRow \cup {None}] /\ told \in SUBSET Calls
      /\ res \in KeptResult /\ EntrySound(old) /\ RowSound(k, old)
  <2>1. k \in CallRecord /\ CallSound(k, old) /\ GatewayType
    BY <1>1, <1>2 DEF GatewaySafe, GatewayType
  <2>2. n \in Calls /\ k.model \in Models /\ res \in KeptResult /\ RowSound(k, old)
    BY <1>1, <1>2, <2>1 DEF CallSound
  <2>3. k.incident \in Incidents \cup {None}
    BY <2>1 DEF CallRecord
  <2> QED  BY <1>1, <2>1, <2>2, <2>3 DEF GatewayType, GatewaySafe
<1>4. NoCall \in CallRecord /\ NoCall.pc = "idle"
  BY GatewayAssumption DEF NoCall, CallRecord
<1>5. /\ call' = [call EXCEPT ![c] = NoCall]
      /\ UNCHANGED <<policy, month, reservation, sent, charge, raced>>
  BY DEF _finish
<1>6. CASE UNCHANGED <<event, attribution, told>>
  BY <1>2, <1>4, <1>5, <1>6, OneCall
<1>7. CASE append_response(c) /\ told' = IF res.ok THEN told \cup {n} ELSE told
  <2>1. PICK ev, at : ev = Evidence(c) /\ at = [model |-> k.model, credited |-> res.credited]
    OBVIOUS
  <2>2. event' = [event EXCEPT ![n] = ev] /\ attribution' = [attribution EXCEPT ![n] = at]
    BY <1>1, <1>7, <2>1 DEF append_response
  <2>3. /\ ev = [ok |-> res.ok, stage |-> IF res.ok THEN "response" ELSE "upstream",
                 incident |-> k.incident, month |-> month,
                 availability |-> res.availability, complete |-> res.complete,
                 tokens |-> res.tokens, usd |-> res.usd, model |-> k.model]
    BY <1>1, <2>1 DEF Evidence
  <2>4. ev \in EventRow /\ ev # None
    <3>1. ev \in EventRow
      BY <1>3, <2>3 DEF EventRow, KeptResult, Usage
    <3> QED  BY <3>1, NoneAssumption
  <2>5. at \in AttributionRow /\ at # None
    <3>1. at \in AttributionRow
      BY <1>3, <2>1 DEF AttributionRow, KeptResult
    <3> QED  BY <3>1, NoneAssumption
  <2>6. GatewayType'
    <3>1. call' \in [Clients -> CallRecord]
      BY <1>3, <1>4, <1>5 DEF GatewayType
    <3>2. /\ event' \in [Calls -> EventRow \cup {None}]
          /\ attribution' \in [Calls -> AttributionRow \cup {None}] /\ told' \in SUBSET Calls
      BY <1>3, <1>7, <2>2, <2>4, <2>5
    <3> QED  BY <1>3, <1>5, <3>1, <3>2 DEF GatewayType
  <2>7. \A m \in Calls \ {n} : Entry(m)' = Entry(m)
    <3> TAKE m \in Calls \ {n}
    <3>1. event'[m] = event[m] /\ attribution'[m] = attribution[m]
      BY <1>3, <2>2
    <3>2. (m \in told') = (m \in told)
      BY <1>7
    <3> QED  BY <1>5, <3>1, <3>2 DEF Entry
  <2>8. PICK e : e = Entry(n)'
    OBVIOUS
  <2>9. /\ e.row = old.row /\ e.event = ev /\ e.attribution = at /\ e.charge = old.charge
        /\ e.told <=> res.ok
    <3>1. n \notin told /\ old.row = reservation[n] /\ old.charge = charge[n]
      BY <1>1, <1>3 DEF CallSound, Entry
    <3>2. event'[n] = ev /\ attribution'[n] = at /\ (n \in told' <=> res.ok)
      BY <1>3, <1>7, <2>2, <3>1
    <3> QED  BY <1>5, <2>8, <3>1, <3>2 DEF Entry
  <2>10. /\ res.ok => res.credited
         /\ res.credited => old.charge.honest
         /\ res.complete <=> res.availability = "complete"
         /\ res.complete => res.tokens = old.charge.tokens /\ res.usd = old.charge.usd
    BY <1>1, <1>2, <1>3 DEF CallSound
  <2>11. /\ ev.ok <=> res.ok
         /\ ev.stage # "refused" /\ ev.availability = res.availability
         /\ ev.complete <=> res.complete
         /\ ev.tokens = res.tokens /\ ev.usd = res.usd /\ ev.model = k.model
    <3>1. /\ ev.stage # "refused" /\ ev.availability = res.availability
          /\ ev.tokens = res.tokens /\ ev.usd = res.usd /\ ev.model = k.model
      BY <2>3
    <3>2. ev.ok = res.ok /\ ev.complete = res.complete
      BY <2>3
    <3> QED  BY <3>1, <3>2
  <2>12. at.credited = res.credited
    BY <2>1
  <2>13. EntrySound(e)
    <3>1. e.row # None =>
         /\ e.row.tokenExposure = None \/ e.charge.tokens <= e.row.tokenExposure
         /\ e.row.usdExposure = None \/ e.charge.usd <= e.row.usdExposure
         /\ e.row.state = "settled" =>
              e.row.settledTokens = e.charge.tokens /\ e.row.settledUsd = e.charge.usd
      BY <1>3, <2>9 DEF EntrySound
    <3>2. e.row # None => e.event.model = e.row.model
      BY <1>3, <2>9, <2>11 DEF RowSound
    <3> QED  BY <2>4, <2>5, <2>9, <2>10, <2>11, <2>12, <3>1, <3>2 DEF EntrySound
  <2>14. PICK j : j = NoCall
    OBVIOUS
  <2> QED  BY <1>1, <1>2, <1>4, <1>5, <2>6, <2>7, <2>8, <2>13, <2>14, OneRequest
<1> QED  BY <1>1, <1>6, <1>7 DEF _finish

\* create: a request takes a number nothing is known of yet.
LEMMA CreateSafe ==
    ASSUME GatewaySafe, NEW c \in Clients, create(c)
    PROVE  GatewaySafe'
<1>1. PICK n : n = sent + 1
  OBVIOUS
<1>2. /\ GatewayType /\ sent \in 0..MaxCalls /\ n \in Calls /\ n > sent /\ sent' = n
      /\ month \in 1..MaxMonth /\ event \in [Calls -> EventRow \cup {None}]
      /\ call \in [Clients -> CallRecord]
      /\ UNCHANGED <<policy, month, reservation, attribution, charge, told, raced>>
  <2>1. GatewayType /\ sent \in 0..MaxCalls
    BY DEF GatewaySafe, GatewayType
  <2>2. sent < MaxCalls /\ sent' = n
    BY <1>1 DEF create
  <2>3. n \in Calls /\ n > sent
    BY <1>1, <2>1, <2>2, GatewayAssumption DEF Calls
  <2>4. UNCHANGED <<policy, month, reservation, attribution, charge, told, raced>>
    BY DEF create
  <2> QED  BY <2>1, <2>2, <2>3, <2>4 DEF GatewayType
<1>3. /\ reservation[n] = None /\ event[n] = None /\ attribution[n] = None
      /\ charge[n] = NoCharge /\ n \notin told
  <2>1. Entry(n) = [row |-> None, event |-> None, attribution |-> None,
                    charge |-> NoCharge, told |-> FALSE]
    BY <1>2 DEF GatewaySafe
  <2>2. /\ Entry(n).row = None /\ Entry(n).event = None /\ Entry(n).attribution = None
        /\ Entry(n).charge = NoCharge /\ ~Entry(n).told
    BY <2>1
  <2> QED  BY <2>2 DEF Entry
<1>4. \A m \in Calls : m > n => Entry(m) = [row |-> None, event |-> None, attribution |-> None,
                                            charge |-> NoCharge, told |-> FALSE]
  BY <1>1, <1>2 DEF GatewaySafe, Calls
<1>5. \A d \in Clients : Live(d) => call[d].n < n /\ call[d].n \in Calls
  BY <1>1, <1>2 DEF GatewaySafe, CallSound, Calls
<1>6. CASE RefusalKept(n, None, None) /\ UNCHANGED call
  <2>1. Refusal(None, None) \in EventRow
    BY <1>2 DEF Refusal, EventRow
  <2>2. event' \in [Calls -> EventRow \cup {None}] /\ \A m \in Calls \ {n} : event'[m] = event[m]
    BY <1>2, <1>6, <2>1 DEF RefusalKept
  <2>3. GatewayType'
    BY <1>2, <1>6, <2>2 DEF GatewayType, Calls
  <2>4. \A m \in Calls \ {n} : Entry(m)' = Entry(m)
    BY <1>2, <2>2 DEF Entry
  <2>5. PICK e : e = Entry(n)'
    OBVIOUS
  <2>6. EntrySound(e)
    <3>1. /\ e.row = None /\ e.event = event'[n] /\ e.attribution = None
          /\ e.charge = NoCharge /\ ~e.told
      BY <1>2, <1>3, <2>5 DEF Entry
    <3>2. event'[n] = None \/ event'[n] = Refusal(None, None)
      BY <1>2, <1>3, <1>6 DEF RefusalKept
    <3>3. CASE event'[n] = None
      BY <3>1, <3>3 DEF EntrySound
    <3>4. CASE event'[n] = Refusal(None, None)
      BY <3>1, <3>4 DEF EntrySound, Refusal
    <3> QED  BY <3>2, <3>3, <3>4
  <2>7. \A m \in Calls : EntrySound(Entry(m)')
    <3> TAKE m \in Calls
    <3>1. CASE m = n
      BY <2>5, <2>6, <3>1
    <3>2. CASE m # n
      BY <2>4, <3>2 DEF GatewaySafe
    <3> QED  BY <3>1, <3>2
  <2>8. \A m \in Calls : m > sent' =>
           Entry(m)' = [row |-> None, event |-> None, attribution |-> None,
                        charge |-> NoCharge, told |-> FALSE]
    <3> SUFFICES ASSUME NEW m \in Calls, m > n
                 PROVE  Entry(m)' = [row |-> None, event |-> None, attribution |-> None,
                                     charge |-> NoCharge, told |-> FALSE]
      BY <1>2
    <3>1. m # n
      BY <1>2 DEF Calls
    <3> QED  BY <1>4, <2>4, <3>1
  <2>9. ASSUME NEW d \in Clients, call[d].pc # "idle", NEW m, m = call[d].n
        PROVE  CallSound(call[d], Entry(m)') /\ m <= n
    <3>1. Live(d) /\ m \in Calls /\ m < n
      BY <1>5, <2>9 DEF Live
    <3>2. m # n /\ m <= n
      BY <1>2, <3>1 DEF Calls
    <3>3. CallSound(call[d], Entry(m))
      BY <2>9, <3>1 DEF GatewaySafe
    <3> QED  BY <2>4, <3>1, <3>2, <3>3
  <2>10. \A d \in Clients : call'[d].pc # "idle" =>
           /\ CallSound(call'[d], [row |-> reservation'[call'[d].n], event |-> event'[call'[d].n],
                                   attribution |-> attribution'[call'[d].n],
                                   charge |-> charge'[call'[d].n], told |-> call'[d].n \in told'])
           /\ call'[d].n <= sent'
    BY <1>2, <1>6, <2>9 DEF Entry
  <2>11. \A d, f \in Clients : /\ call'[d].pc # "idle" /\ call'[f].pc # "idle"
                               /\ call'[d].n = call'[f].n
                               => d = f
    BY <1>6 DEF GatewaySafe, Live
  <2> QED  BY <2>3, <2>7, <2>8, <2>10, <2>11 DEF GatewaySafe, Live, Entry
<1>7. CASE /\ UNCHANGED event
           /\ \E i \in Incidents \cup {None}, m \in Models :
                call' = [call EXCEPT ![c] = [NoCall EXCEPT !.n = sent + 1, !.pc = "routed",
                            !.incident = i, !.model = m, !.period = month]]
  <2>1. PICK i \in Incidents \cup {None}, model \in Models :
           call' = [call EXCEPT ![c] = [NoCall EXCEPT !.n = sent + 1, !.pc = "routed",
                            !.incident = i, !.model = model, !.period = month]]
    BY <1>7
  <2>2. PICK j : j = [NoCall EXCEPT !.n = sent + 1, !.pc = "routed", !.incident = i,
                                    !.model = model, !.period = month]
    OBVIOUS
  <2>3. /\ j \in CallRecord /\ j.n = n /\ j.pc = "routed" /\ j.model = model /\ j.period = month
        /\ j.tokens = None /\ j.usd = None /\ ~j.reserved /\ j.cap = None
    <3>1. /\ NoCall \in CallRecord /\ NoCall.tokens = None /\ NoCall.usd = None
          /\ ~NoCall.reserved /\ NoCall.cap = None
      BY GatewayAssumption DEF NoCall, CallRecord
    <3>2. sent + 1 \in 0..MaxCalls /\ month \in 0..MaxMonth
      BY <1>1, <1>2 DEF Calls
    <3> QED  BY <1>1, <2>2, <3>1, <3>2 DEF CallRecord
  <2>4. call'[c] = j /\ \A d \in Clients : d # c => call'[d] = call[d]
    BY <1>2, <2>1, <2>2
  <2>5. \A m \in Calls : Entry(m)' = Entry(m)
    BY <1>2, <1>7 DEF Entry
  <2>6. GatewayType'
    <3>1. call' \in [Clients -> CallRecord]
      BY <1>2, <2>1, <2>2, <2>3
    <3> QED  BY <1>2, <1>7, <3>1 DEF GatewayType, Calls
  <2>7. ASSUME NEW d \in Clients, call'[d].pc # "idle", NEW m, m = call'[d].n
        PROVE  CallSound(call'[d], Entry(m)') /\ m <= n
    <3>1. CASE d = c
      <4>1. m = n /\ call'[d] = j
        BY <2>3, <2>4, <2>7, <3>1
      <4>2. PICK e : e = Entry(n)
        OBVIOUS
      <4>3. /\ e.row = None /\ e.event = None /\ e.attribution = None /\ e.charge = NoCharge
            /\ ~e.told
        BY <1>3, <4>2 DEF Entry
      <4>4. ReadsSound(j) /\ RowSound(j, e)
        BY <2>3, <4>3 DEF ReadsSound, RowSound, InIncident, InMonth
      <4>5. CallSound(j, e)
        BY <1>2, <2>3, <4>3, <4>4 DEF CallSound, Served
      <4> QED  BY <1>2, <2>5, <4>1, <4>2, <4>5 DEF Calls
    <3>2. CASE d # c
      <4>1. Live(d) /\ m \in Calls /\ m < n /\ call'[d] = call[d] /\ m = call[d].n
        BY <1>5, <2>4, <2>7, <3>2 DEF Live
      <4>2. m <= n
        BY <1>2, <4>1 DEF Calls
      <4>3. CallSound(call[d], Entry(m))
        BY <4>1 DEF GatewaySafe
      <4> QED  BY <2>5, <4>1, <4>2, <4>3
    <3> QED  BY <3>1, <3>2
  <2>8. \A d \in Clients : call'[d].pc # "idle" =>
           /\ CallSound(call'[d], [row |-> reservation'[call'[d].n], event |-> event'[call'[d].n],
                                   attribution |-> attribution'[call'[d].n],
                                   charge |-> charge'[call'[d].n], told |-> call'[d].n \in told'])
           /\ call'[d].n <= sent'
    BY <1>2, <2>7 DEF Entry
  <2>9. \A d, f \in Clients : /\ call'[d].pc # "idle" /\ call'[f].pc # "idle"
                              /\ call'[d].n = call'[f].n
                              => d = f
    <3>1. \A d \in Clients : d # c /\ call'[d].pc # "idle" => Live(d) /\ call'[d].n # n
      BY <1>2, <1>5, <2>4 DEF Live, Calls
    <3> QED  BY <2>3, <2>4, <3>1 DEF GatewaySafe
  <2>10. \A m \in Calls : EntrySound(Entry(m)')
    BY <2>5 DEF GatewaySafe
  <2>11. \A m \in Calls : m > sent' =>
           Entry(m)' = [row |-> None, event |-> None, attribution |-> None,
                        charge |-> NoCharge, told |-> FALSE]
    BY <1>2, <1>4, <2>5
  <2> QED  BY <2>6, <2>8, <2>9, <2>10, <2>11 DEF GatewaySafe, Live, Entry
<1> QED  BY <1>1, <1>6, <1>7 DEF create

\* A new policy, and the next month, are about the requests to come.
LEMMA SurroundingsSafe ==
    ASSUME GatewaySafe, replace_policy \/ MonthEnds
    PROVE  GatewaySafe'
<1>1. /\ UNCHANGED <<reservation, event, attribution, call, sent, charge, told, raced>>
      /\ GatewayType
  BY DEF replace_policy, MonthEnds, GatewaySafe
<1>2. policy' \in PolicyRow \cup {None} /\ (policy' # None => policy'.version > 0)
  <2>1. CASE replace_policy
    <3>1. PICK limits \in Policies : policy' = [version |-> policy.version + 1,
                                                tokens |-> limits.tokens, usd |-> limits.usd]
      BY <2>1 DEF replace_policy
    <3>2. policy \in PolicyRow
      BY <1>1, <2>1 DEF GatewayType, replace_policy
    <3> QED  BY <3>1, <3>2, GatewayAssumption DEF PolicyRow
  <2>2. CASE MonthEnds
    BY <1>1, <2>2 DEF MonthEnds, GatewayType
  <2> QED  BY <2>1, <2>2
<1>3. month' \in 1..MaxMonth
  BY <1>1, GatewayAssumption DEF replace_policy, MonthEnds, GatewayType
<1>4. GatewayType'
  BY <1>1, <1>2, <1>3 DEF GatewayType
<1>5. \A m : Entry(m)' = Entry(m)
  BY <1>1 DEF Entry
<1> QED  BY <1>1, <1>4 DEF GatewaySafe, Live, Entry

\* The gateway starts with nothing sent.
LEMMA GatewayStarts == GatewayInit => GatewaySafe
<1> SUFFICES ASSUME GatewayInit PROVE GatewaySafe
  OBVIOUS
<1>1. policy \in PolicyRow \cup {None} /\ (policy # None => policy.version > 0)
  BY GatewayAssumption DEF GatewayInit, PolicyRow
<1>2. NoCall \in CallRecord /\ NoCall.pc = "idle"
  BY GatewayAssumption DEF NoCall, CallRecord
<1>3. NoCharge \in ChargeRow
  BY DEF NoCharge, ChargeRow
<1>4. GatewayType
  <2>1. charge = [n \in Calls |-> NoCharge]
    BY DEF GatewayInit, NoCharge
  <2>2. charge \in [Calls -> ChargeRow]
    BY <1>3, <2>1
  <2>3. month \in 1..MaxMonth /\ sent \in 0..MaxCalls /\ told \in SUBSET Calls /\ raced \in BOOLEAN
    <3>1. month = 1 /\ sent = 0 /\ told = {} /\ raced = FALSE
      BY DEF GatewayInit
    <3>2. month \in 1..MaxMonth /\ sent \in 0..MaxCalls
      BY <3>1, GatewayAssumption
    <3>3. told \in SUBSET Calls /\ raced \in BOOLEAN
      BY <3>1
    <3> QED  BY <3>2, <3>3
  <2>4. /\ reservation \in [Calls -> ReservationRow \cup {None}]
        /\ event \in [Calls -> EventRow \cup {None}]
        /\ attribution \in [Calls -> AttributionRow \cup {None}]
        /\ call \in [Clients -> CallRecord]
    BY <1>2 DEF GatewayInit
  <2> QED  BY <1>1, <2>2, <2>3, <2>4 DEF GatewayType
<1>5. \A n \in Calls : Entry(n) = [row |-> None, event |-> None, attribution |-> None,
                                   charge |-> NoCharge, told |-> FALSE]
  <2> TAKE n \in Calls
  <2>1. (n \in told) = FALSE
    BY DEF GatewayInit
  <2> QED  BY <2>1 DEF GatewayInit, Entry, NoCharge
<1>6. \A n \in Calls : EntrySound(Entry(n))
  BY <1>5 DEF EntrySound
<1>7. \A c \in Clients : ~Live(c)
  BY <1>2 DEF GatewayInit, Live
<1> QED  BY <1>4, <1>5, <1>6, <1>7 DEF GatewaySafe

\* Every step of the gateway keeps what is known of its requests.
LEMMA GatewaySteps == GatewaySafe /\ [GatewayNext]_gvars => GatewaySafe'
<1> SUFFICES ASSUME GatewaySafe, [GatewayNext]_gvars PROVE GatewaySafe'
  OBVIOUS
<1>1. ASSUME NEW c \in Clients, create(c) \/ Advance(c) \/ Crash(c) PROVE GatewaySafe'
  <2>1. CASE refuse_request(c)
    BY <2>1, RefusalSafe DEF refuse_request
  <2>2. CASE ~refuse_request(c)
    BY <1>1, <2>2, CreateSafe, AdmissionSafe, BookSafe, ProviderSafe, SettleSafe, FinishSafe,
       CrashSafe DEF Advance, admit
  <2> QED  BY <2>1, <2>2
<1>2. CASE replace_policy \/ MonthEnds
  BY <1>2, SurroundingsSafe
<1>3. CASE UNCHANGED gvars
  BY <1>3 DEF gvars, GatewaySafe, GatewayType, Live, Entry
<1> QED  BY <1>1, <1>2, <1>3 DEF GatewayNext

\* Every request in flight and every row, event and attribution stands to the charge as the
\* invariant says, in every reachable state.
THEOREM GatewayKnown == GatewaySpec => []GatewaySafe
BY GatewayStarts, GatewaySteps, PTL DEF GatewaySpec

\* The provider never charges more for a request than was booked for it before it was sent,
\* whichever endpoint served it, however often it was tried, and the booking outlives a crash.
THEOREM BookingCoversCharge == GatewaySpec => []ExposureCovers
<1>1. GatewaySafe => ExposureCovers
  <2> SUFFICES ASSUME GatewaySafe, NEW n \in Calls, reservation[n] # None
               PROVE  /\ \/ reservation[n].tokenExposure = None
                         \/ charge[n].tokens <= reservation[n].tokenExposure
                      /\ \/ reservation[n].usdExposure = None
                         \/ charge[n].usd <= reservation[n].usdExposure
                      /\ event[n] # None => event[n].model = reservation[n].model
    BY DEF ExposureCovers
  <2>1. EntrySound(Entry(n))
    BY DEF GatewaySafe
  <2> QED  BY <2>1 DEF EntrySound, Entry
<1> QED  BY <1>1, GatewayKnown, PTL

\* A told success of known cost is in exactly one account of the monthly balance: its
\* reservation's, or its month's audit when no reservation owns the usage.
THEOREM SuccessIsCountedOnce == GatewaySpec => []CountedOnce
<1>1. GatewaySafe => CountedOnce
  <2> SUFFICES ASSUME GatewaySafe, NEW n \in told, event[n].complete
               PROVE  Cardinality(Accounts(n)) = 1
    BY DEF CountedOnce
  <2>1. /\ n \in Calls /\ event[n] \in EventRow /\ event[n] # None /\ event[n].ok
        /\ reservation[n] \in ReservationRow \cup {None}
    <3>1. n \in Calls /\ GatewayType
      BY DEF GatewaySafe, GatewayType
    <3>2. EntrySound(Entry(n))
      BY <3>1 DEF GatewaySafe
    <3>3. event[n] # None /\ event[n].ok
      BY <3>2 DEF EntrySound, Entry
    <3> QED  BY <3>1, <3>3 DEF GatewayType
  <2>2. PICK p : p = event[n].month /\ p \in 1..MaxMonth
    BY <2>1 DEF EventRow
  <2>3. OwnsUsage(n) <=> /\ reservation[n] # None
                         /\ (IF reservation[n].state = "settled" THEN reservation[n].settledUsd
                             ELSE reservation[n].usdExposure) # None
    BY <2>1 DEF OwnsUsage, ReservationRow
  <2>4. \A q \in 1..MaxMonth : n \in Legacy(q) <=> q = p /\ ~OwnsUsage(n)
    BY <2>1, <2>2 DEF Legacy
  <2>5. CASE OwnsUsage(n)
    <3>1. {q \in 1..MaxMonth : n \in Legacy(q)} = {}
      BY <2>4, <2>5
    <3>2. Accounts(n) = {<<"reservation", reservation[n].period>>}
      BY <2>3, <2>5, <3>1 DEF Accounts
    <3> QED  BY <3>2, FS_Singleton
  <2>6. CASE ~OwnsUsage(n)
    <3>1. {q \in 1..MaxMonth : n \in Legacy(q)} = {p}
      BY <2>2, <2>4, <2>6
    <3>2. Accounts(n) = {<<"audit", p>>}
      BY <2>3, <2>6, <3>1 DEF Accounts
    <3> QED  BY <3>2, FS_Singleton
  <2> QED  BY <2>5, <2>6
<1> QED  BY <1>1, GatewayKnown, PTL

\* Whoever is credited served the request, through the pinned provider in every attempt; and
\* every success that was told is credited.
THEOREM CreditIsHonest == GatewaySpec => []CreditedServed
<1>1. GatewaySafe => CreditedServed
  <2> SUFFICES ASSUME GatewaySafe PROVE CreditedServed
    OBVIOUS
  <2>1. \A n \in Calls : EntrySound(Entry(n))
    BY DEF GatewaySafe
  <2>2. \A n \in Calls : attribution[n] # None /\ attribution[n].credited => charge[n].honest
    BY <2>1 DEF EntrySound, Entry
  <2>3. \A n \in told : attribution[n] # None /\ attribution[n].credited
    BY <2>1 DEF EntrySound, Entry, GatewaySafe, GatewayType
  <2> QED  BY <2>2, <2>3 DEF CreditedServed
<1> QED  BY <1>1, GatewayKnown, PTL

\* A cost or a count of tokens that the consumption read reports is what the provider charged
\* for the requests of its scope; no invoked request is listed as a refused or a legacy one.
THEOREM ReportedUsageIsExact == GatewaySpec => []UsageExact
<1>1. GatewaySafe => UsageExact
  <2> SUFFICES ASSUME GatewaySafe PROVE UsageExact
    OBVIOUS
  <2>1. /\ \A n \in Calls : EntrySound(Entry(n))
        /\ event \in [Calls -> EventRow \cup {None}] /\ charge \in [Calls -> ChargeRow]
        /\ told \in SUBSET Calls
    BY DEF GatewaySafe, GatewayType
  <2>2. \A n \in Calls : event[n] # None =>
          /\ event[n].availability = "complete" =>
               event[n].tokens = charge[n].tokens /\ event[n].usd = charge[n].usd
          /\ attribution[n] # None <=> event[n].stage # "refused"
    BY <2>1 DEF EntrySound, Entry
  <2>3. ASSUME NEW s \in Selectors, NEW oneSecond \in BOOLEAN,
               NEW rows, rows = select_evidence(s), rows # {},
               NEW totals, totals = _aggregate(rows, oneSecond).totals, totals.amount # None
        PROVE  /\ totals.amount = SumFunctionOnSet([n \in rows |-> charge[n].usd], rows)
               /\ totals.tokens = SumFunctionOnSet([n \in rows |-> charge[n].tokens], rows)
    <3>1. rows \in SUBSET Calls /\ \A n \in rows : event[n] # None
      BY <2>3 DEF select_evidence, Evident
    <3>2. PICK known, incomplete : /\ known = Available(rows, "complete")
                                   /\ incomplete = Available(rows, "partial")
      OBVIOUS
    <3>3. PICK status : status = CoverageStatus(known, incomplete, rows \ (known \cup incomplete))
      OBVIOUS
    <3>4. totals = _totals(known, status = "complete" /\ rows # {}, oneSecond)
      BY <2>3, <3>2, <3>3 DEF _aggregate
    <3>5. /\ status = "complete"
          /\ totals.amount = SumFunctionOnSet([n \in known |-> event[n].usd], known)
          /\ totals.tokens = SumFunctionOnSet([n \in known |-> event[n].tokens], known)
      BY <2>3, <3>4 DEF _totals
    <3>6. rows = known
      <4>1. rows \ (known \cup incomplete) = {} /\ incomplete = {}
        BY <3>3, <3>5 DEF CoverageStatus
      <4> QED  BY <3>2, <4>1 DEF Available
    <3>7. \A n \in rows : event[n].availability = "complete"
      BY <3>2, <3>6 DEF Available
    <3>8. \A n \in rows : /\ event[n].usd \in Int /\ event[n].usd = charge[n].usd
                          /\ event[n].tokens \in Int /\ event[n].tokens = charge[n].tokens
      BY <2>1, <2>2, <3>1, <3>7 DEF EventRow
    <3>9. PICK f, g, h, k : /\ f = [n \in rows |-> event[n].usd]
                            /\ g = [n \in rows |-> charge[n].usd]
                            /\ h = [n \in rows |-> event[n].tokens]
                            /\ k = [n \in rows |-> charge[n].tokens]
      OBVIOUS
    <3>10. SumFunctionOnSet(f, rows) = SumFunctionOnSet(g, rows)
      <4>1. \A n \in rows : f[n] \in Int /\ f[n] = g[n]
        BY <3>8, <3>9
      <4> QED  BY <3>1, <4>1, CallsFinite, SumSame
    <3>11. SumFunctionOnSet(h, rows) = SumFunctionOnSet(k, rows)
      <4>1. \A n \in rows : h[n] \in Int /\ h[n] = k[n]
        BY <3>8, <3>9
      <4> QED  BY <3>1, <4>1, CallsFinite, SumSame
    <3> QED  BY <3>5, <3>6, <3>9, <3>10, <3>11
  <2>4. ASSUME NEW rows \in SUBSET Evident, NEW answer, answer = project_items(rows)
        PROVE  /\ answer.code = 200
               /\ \A item \in answer.items :
                    /\ item.status # "legacy"
                    /\ item.request \in told => item.status = "available"
    <3>1. \A n \in rows : n \in Calls /\ event[n] # None
      BY DEF Evident
    <3>2. \A n \in rows : Linked(n)
      BY <2>1, <2>2, <3>1 DEF Linked, EventRow
    <3>3. /\ answer.code = 200
          /\ answer.items = {[request |-> n, status |-> attribution_status(n),
                               usd |-> event[n].usd] : n \in rows}
      BY <2>4, <3>2 DEF project_items
    <3>4. \A n \in rows : /\ attribution_status(n) # "legacy"
                          /\ n \in told => attribution_status(n) = "available"
      <4> TAKE n \in rows
      <4>1. n \in told => attribution[n] # None /\ attribution[n].credited
        BY <2>1, <3>1 DEF EntrySound, Entry
      <4> QED  BY <2>2, <3>1, <4>1 DEF attribution_status
    <3> QED  BY <3>3, <3>4
  <2> QED  BY <2>3, <2>4 DEF UsageExact, read_requests
<1> QED  BY <1>1, GatewayKnown, PTL

-----------------------------------------------------------------------------
(* What is known of the balances while the first policy stands *)

\* Terms that are nothing outside a set leave its sum as it is.
LEMMA SumOver ==
    ASSUME NEW f, NEW g, NEW T, IsFiniteSet(T), NEW S \in SUBSET T,
           \A x \in S : f[x] \in Int /\ g[x] = f[x], \A x \in T \ S : g[x] = 0
    PROVE  SumFunctionOnSet(f, S) = SumFunctionOnSet(g, T)
<1> DEFINE Bad == {U \in SUBSET T : S \subseteq U
                                     /\ SumFunctionOnSet(g, U) # SumFunctionOnSet(g, S)}
<1>1. IsFiniteSet(S) /\ \A U \in SUBSET T : IsFiniteSet(U)
  BY FS_Subset
<1>2. \A x \in T : g[x] \in Int
  OBVIOUS
<1>3. SumFunctionOnSet(f, S) = SumFunctionOnSet(g, S)
  BY <1>1, SumSame
<1>4. ASSUME Bad # {} PROVE FALSE
  <2>1. \A U \in Bad : IsFiniteSet(U)
    BY <1>1
  <2>2. PICK U \in Bad : \A V \in Bad : Cardinality(U) <= Cardinality(V)
    <3> HIDE DEF Bad
    <3> QED  BY <1>4, <2>1, SmallestSet
  <2>3. U \in SUBSET T /\ S \subseteq U /\ U # S
    BY <2>2
  <2>4. PICK x : x \in U /\ x \notin S
    BY <2>3
  <2>5. SumFunctionOnSet(g, U) = g[x] + SumFunctionOnSet(g, U \ {x})
    <3>1. \A y \in U : g[y] \in Int
      BY <1>2, <2>3
    <3> QED  BY <1>1, <2>3, <2>4, <3>1, SumRemove
  <2>6. SumFunctionOnSet(g, U \ {x}) \in Int
    <3>1. IsFiniteSet(U \ {x}) /\ \A y \in U \ {x} : g[y] \in Int
      BY <1>1, <1>2, <2>3
    <3>2. PICK V : V = U \ {x}
      OBVIOUS
    <3> QED  BY <3>1, <3>2, SumRemove
  <2>7. g[x] = 0
    BY <2>3, <2>4
  <2>8. SumFunctionOnSet(g, U) = SumFunctionOnSet(g, U \ {x})
    BY <2>5, <2>6, <2>7
  <2>9. U \ {x} \in Bad
    BY <2>2, <2>3, <2>4, <2>8
  <2>10. Cardinality(U \ {x}) = Cardinality(U) - 1 /\ Cardinality(U) \in Nat
    BY <1>1, <2>3, <2>4, FS_RemoveElement, FS_CardinalityType
  <2> HIDE DEF Bad
  <2> QED  BY <2>2, <2>9, <2>10
<1>5. SumFunctionOnSet(g, T) = SumFunctionOnSet(g, S)
  BY <1>4
<1> QED  BY <1>3, <1>5

\* One term more or less.
LEMMA SumChange ==
    ASSUME NEW f, NEW g, NEW T, IsFiniteSet(T), NEW n \in T,
           \A x \in T : f[x] \in Int /\ g[x] \in Int, \A x \in T \ {n} : g[x] = f[x]
    PROVE  /\ SumFunctionOnSet(f, T) \in Int /\ SumFunctionOnSet(g, T) \in Int
           /\ SumFunctionOnSet(g, T) = SumFunctionOnSet(f, T) - f[n] + g[n]
<1>1. PICK R : R = T \ {n}
  OBVIOUS
<1>2. IsFiniteSet(R) /\ \A x \in R : f[x] \in Int /\ f[x] = g[x]
  BY <1>1, FS_Subset
<1>3. SumFunctionOnSet(f, R) = SumFunctionOnSet(g, R) /\ SumFunctionOnSet(f, R) \in Int
  BY <1>2, SumSame, SumRemove
<1>4. /\ SumFunctionOnSet(f, T) \in Int /\ SumFunctionOnSet(f, T) = f[n] + SumFunctionOnSet(f, R)
  BY <1>1, SumRemove
<1>5. /\ SumFunctionOnSet(g, T) \in Int /\ SumFunctionOnSet(g, T) = g[n] + SumFunctionOnSet(g, R)
  BY <1>1, SumRemove
<1> QED  BY <1>3, <1>4, <1>5

\* The sum of two kinds of terms is the sum of both sums.
LEMMA SumPlus ==
    ASSUME NEW f, NEW g, NEW h, NEW T, IsFiniteSet(T),
           \A x \in T : f[x] \in Int /\ g[x] \in Int /\ h[x] = f[x] + g[x]
    PROVE  SumFunctionOnSet(h, T) = SumFunctionOnSet(f, T) + SumFunctionOnSet(g, T)
<1> DEFINE Bad == {U \in SUBSET T : SumFunctionOnSet(h, U)
                                     # SumFunctionOnSet(f, U) + SumFunctionOnSet(g, U)}
<1> SUFFICES ASSUME Bad # {} PROVE FALSE
  OBVIOUS
<1>1. \A U \in SUBSET T : IsFiniteSet(U)
  BY FS_Subset
<1>2. PICK U \in Bad : \A V \in Bad : Cardinality(U) <= Cardinality(V)
  <2>1. \A V \in Bad : IsFiniteSet(V)
    BY <1>1
  <2> HIDE DEF Bad
  <2> QED  BY <2>1, SmallestSet
<1>3. U \in SUBSET T /\ IsFiniteSet(U)
  BY <1>1, <1>2
<1>4. CASE U = {}
  <2>1. /\ SumFunctionOnSet(h, {}) = 0 /\ SumFunctionOnSet(f, {}) = 0
        /\ SumFunctionOnSet(g, {}) = 0
    BY <1>3, SumStep
  <2> QED  BY <1>2, <1>4, <2>1
<1>5. CASE U # {}
  <2>1. PICK x, V : x \in U /\ V = U \ {x}
    BY <1>5
  <2>2. IsFiniteSet(V) /\ V \in SUBSET T
    BY <1>1, <1>3, <2>1
  <2>3. \A y \in U : f[y] \in Int /\ g[y] \in Int /\ h[y] \in Int
    BY <1>3
  <2>4. /\ SumFunctionOnSet(f, U) = f[x] + SumFunctionOnSet(f, V)
        /\ SumFunctionOnSet(g, U) = g[x] + SumFunctionOnSet(g, V)
        /\ SumFunctionOnSet(h, U) = h[x] + SumFunctionOnSet(h, V)
    BY <1>3, <2>1, <2>3, SumRemove
  <2>5. /\ SumFunctionOnSet(f, V) \in Int /\ SumFunctionOnSet(g, V) \in Int
        /\ SumFunctionOnSet(h, V) \in Int
    BY <2>1, <2>2, <2>3, SumRemove
  <2>6. Cardinality(V) = Cardinality(U) - 1 /\ Cardinality(U) \in Nat
    BY <1>3, <2>1, FS_RemoveElement, FS_CardinalityType
  <2>7. V \notin Bad
    <3> HIDE DEF Bad
    <3> QED  BY <1>2, <2>6
  <2>8. SumFunctionOnSet(h, V) = SumFunctionOnSet(f, V) + SumFunctionOnSet(g, V)
    BY <2>2, <2>7
  <2>9. h[x] = f[x] + g[x] /\ f[x] \in Int /\ g[x] \in Int
    BY <1>3, <2>1
  <2> QED  BY <1>2, <2>4, <2>5, <2>8, <2>9
<1> QED  BY <1>4, <1>5

\* The accounts a policy limits: the USD of a month, the tokens of an incident in it.
Ledgers ==
    [unit : {"usd"}, incident : {None}, period : 1..MaxMonth]
    \cup [unit : {"tokens"}, incident : Incidents, period : 1..MaxMonth]

Bears(x, a) == x.period = a.period /\ (a.unit = "tokens" => x.incident = a.incident)

\* What a row settled, and what it still holds, of an account.
SettledOf(row, a) ==
    IF row # None /\ Bears(row, a) /\ row.state = "settled"
    THEN Amount(IF a.unit = "usd" THEN row.settledUsd ELSE row.settledTokens) ELSE 0
HeldOf(row, a) ==
    IF row # None /\ Bears(row, a) /\ row.state = "reserved"
    THEN Amount(IF a.unit = "usd" THEN row.usdExposure ELSE row.tokenExposure) ELSE 0

SettledSum(a) == SumFunctionOnSet([n \in Calls |-> SettledOf(reservation[n], a)], Calls)
HeldSum(a) == SumFunctionOnSet([n \in Calls |-> HeldOf(reservation[n], a)], Calls)

LimitOf(limits, a) == IF a.unit = "usd" THEN limits.usd ELSE limits.tokens
LeftOf(k, a) == IF a.unit = "usd" THEN k.usd ELSE k.tokens

\* Between the two sums of a balance, and after both.
HalfRead(k, a) == k.pc = (IF a.unit = "usd" THEN "reserved" ELSE "incident reserved")
FullyRead(k, a) ==
    k.pc \in (IF a.unit = "usd" THEN {"book"} ELSE {"legacy", "settled", "reserved", "book"})

FirstPolicy == policy # None /\ policy.version = 1

\* What a request has read of an account is no more than its limit leaves.
Within(k, a, limits, settled, held) ==
    Bears(k, a) =>
        /\ a.unit = "usd" /\ k.pc = "settled" => k.usd <= limits.usd
        /\ HalfRead(k, a) => LeftOf(k, a) <= LimitOf(limits, a) - settled
        /\ FullyRead(k, a) => LeftOf(k, a) <= LimitOf(limits, a) - (settled + held)

LedgerSound(a) ==
    LimitOf(policy, a) # None =>
        /\ SettledSum(a) + HeldSum(a) <= LimitOf(policy, a)
        /\ \A c \in Clients : Within(call[c], a, policy, SettledSum(a), HeldSum(a))

\* One admission of a month at a time; everything that was booked or read so far was under
\* the policy in force; no account is over its limit, nor is what an admission has read.
BalancesSafe ==
    /\ \A c, d \in Clients :
         /\ call[c].pc \in InMonth /\ call[d].pc \in InMonth
         /\ call[c].period = call[d].period
         => c = d
    /\ FirstPolicy =>
         /\ \A c \in Clients : call[c].pc \in InIncident => call[c].policy = policy
         /\ \A n \in Calls : reservation[n] # None =>
              /\ policy.usd # None => reservation[n].usdExposure # None
              /\ policy.tokens # None => reservation[n].tokenExposure # None
         /\ raced \/ \A a \in Ledgers : LedgerSound(a)

\* What a row settled or holds is a count, and so are the sums.
LEMMA LedgerTyped ==
    ASSUME GatewayType, NEW a
    PROVE  /\ \A n \in Calls : SettledOf(reservation[n], a) \in Nat /\ HeldOf(reservation[n], a) \in Nat
           /\ SettledSum(a) \in Nat /\ HeldSum(a) \in Nat
<1>1. \A n \in Calls : reservation[n] # None =>
        /\ Amount(reservation[n].settledTokens) \in Nat /\ Amount(reservation[n].tokenExposure) \in Nat
        /\ Amount(reservation[n].settledUsd) \in Nat /\ Amount(reservation[n].usdExposure) \in Nat
  BY NoneAssumption DEF GatewayType, ReservationRow, Amount
<1>2. \A n \in Calls : SettledOf(reservation[n], a) \in Nat /\ HeldOf(reservation[n], a) \in Nat
  BY <1>1 DEF SettledOf, HeldOf
<1>3. PICK f, g : /\ f = [n \in Calls |-> SettledOf(reservation[n], a)]
                  /\ g = [n \in Calls |-> HeldOf(reservation[n], a)]
  OBVIOUS
<1>4. (\A n \in Calls : f[n] \in Nat) /\ (\A n \in Calls : g[n] \in Nat)
  BY <1>2, <1>3
<1>5. SumFunctionOnSet(f, Calls) \in Nat /\ SumFunctionOnSet(g, Calls) \in Nat
  BY <1>4, CallsFinite, SumNat
<1> QED  BY <1>2, <1>3, <1>5 DEF SettledSum, HeldSum

\* The statements read the sums.
LEMMA MonthReads ==
    ASSUME GatewayType, NEW a \in Ledgers, a.unit = "usd"
    PROVE  /\ _period_sum(a.period, "settled") = SettledSum(a)
           /\ _period_sum(a.period, "reserved") = HeldSum(a)
<1>1. _period_sum(a.period, "settled") = SettledSum(a)
  <2>1. PICK S : S = OfMonth(a.period, "settled")
    OBVIOUS
  <2>2. PICK f, g : /\ f = [n \in S |-> Amount(reservation[n].settledUsd)]
                    /\ g = [n \in Calls |-> SettledOf(reservation[n], a)]
    OBVIOUS
  <2>3. S \in SUBSET Calls
    BY <2>1 DEF OfMonth
  <2>4. \A n \in Calls : g[n] \in Nat /\ g[n] = SettledOf(reservation[n], a)
    BY <2>2, LedgerTyped
  <2>5. \A n \in S : f[n] \in Int /\ g[n] = f[n]
    BY <2>1, <2>2, <2>3, <2>4 DEF OfMonth, SettledOf, Bears
  <2>6. \A n \in Calls \ S : g[n] = 0
    BY <2>1, <2>4 DEF OfMonth, SettledOf, Bears
  <2>7. SumFunctionOnSet(f, S) = SumFunctionOnSet(g, Calls)
    BY <2>3, <2>5, <2>6, CallsFinite, SumOver
  <2>8. _period_sum(a.period, "settled") = SumFunctionOnSet(f, S)
    BY <2>1, <2>2 DEF _period_sum
  <2> QED  BY <2>2, <2>7, <2>8 DEF SettledSum
<1>2. _period_sum(a.period, "reserved") = HeldSum(a)
  <2>1. PICK S : S = OfMonth(a.period, "reserved")
    OBVIOUS
  <2>2. PICK f, g : /\ f = [n \in S |-> Amount(reservation[n].usdExposure)]
                    /\ g = [n \in Calls |-> HeldOf(reservation[n], a)]
    OBVIOUS
  <2>3. S \in SUBSET Calls
    BY <2>1 DEF OfMonth
  <2>4. \A n \in Calls : g[n] \in Nat /\ g[n] = HeldOf(reservation[n], a)
    BY <2>2, LedgerTyped
  <2>5. \A n \in S : f[n] \in Int /\ g[n] = f[n]
    BY <2>1, <2>2, <2>3, <2>4 DEF OfMonth, HeldOf, Bears
  <2>6. \A n \in Calls \ S : g[n] = 0
    BY <2>1, <2>4 DEF OfMonth, HeldOf, Bears
  <2>7. SumFunctionOnSet(f, S) = SumFunctionOnSet(g, Calls)
    BY <2>3, <2>5, <2>6, CallsFinite, SumOver
  <2>8. _period_sum(a.period, "reserved") = SumFunctionOnSet(f, S)
    BY <2>1, <2>2 DEF _period_sum
  <2> QED  BY <2>2, <2>7, <2>8 DEF HeldSum
<1> QED  BY <1>1, <1>2

\* And so do those of an incident's tokens.
LEMMA IncidentReadsSums ==
    ASSUME GatewayType, NEW a \in Ledgers, a.unit = "tokens"
    PROVE  /\ _incident_sum(a.incident, a.period, "settled") = SettledSum(a)
           /\ _incident_sum(a.incident, a.period, "reserved") = HeldSum(a)
<1>1. _incident_sum(a.incident, a.period, "settled") = SettledSum(a)
  <2>1. PICK S : S = OfIncident(a.incident, a.period, "settled")
    OBVIOUS
  <2>2. PICK f, g : /\ f = [n \in S |-> Amount(reservation[n].settledTokens)]
                    /\ g = [n \in Calls |-> SettledOf(reservation[n], a)]
    OBVIOUS
  <2>3. S \in SUBSET Calls
    BY <2>1 DEF OfMonth, OfIncident
  <2>4. \A n \in Calls : g[n] \in Nat /\ g[n] = SettledOf(reservation[n], a)
    BY <2>2, LedgerTyped
  <2>5. \A n \in S : f[n] \in Int /\ g[n] = f[n]
    BY <2>1, <2>2, <2>3, <2>4 DEF OfMonth, OfIncident, SettledOf, Bears
  <2>6. \A n \in Calls \ S : g[n] = 0
    BY <2>1, <2>4 DEF OfMonth, OfIncident, SettledOf, Bears
  <2>7. SumFunctionOnSet(f, S) = SumFunctionOnSet(g, Calls)
    BY <2>3, <2>5, <2>6, CallsFinite, SumOver
  <2>8. _incident_sum(a.incident, a.period, "settled") = SumFunctionOnSet(f, S)
    BY <2>1, <2>2 DEF _incident_sum
  <2> QED  BY <2>2, <2>7, <2>8 DEF SettledSum
<1>2. _incident_sum(a.incident, a.period, "reserved") = HeldSum(a)
  <2>1. PICK S : S = OfIncident(a.incident, a.period, "reserved")
    OBVIOUS
  <2>2. PICK f, g : /\ f = [n \in S |-> Amount(reservation[n].tokenExposure)]
                    /\ g = [n \in Calls |-> HeldOf(reservation[n], a)]
    OBVIOUS
  <2>3. S \in SUBSET Calls
    BY <2>1 DEF OfMonth, OfIncident
  <2>4. \A n \in Calls : g[n] \in Nat /\ g[n] = HeldOf(reservation[n], a)
    BY <2>2, LedgerTyped
  <2>5. \A n \in S : f[n] \in Int /\ g[n] = f[n]
    BY <2>1, <2>2, <2>3, <2>4 DEF OfMonth, OfIncident, HeldOf, Bears
  <2>6. \A n \in Calls \ S : g[n] = 0
    BY <2>1, <2>4 DEF OfMonth, OfIncident, HeldOf, Bears
  <2>7. SumFunctionOnSet(f, S) = SumFunctionOnSet(g, Calls)
    BY <2>3, <2>5, <2>6, CallsFinite, SumOver
  <2>8. _incident_sum(a.incident, a.period, "reserved") = SumFunctionOnSet(f, S)
    BY <2>1, <2>2 DEF _incident_sum
  <2> QED  BY <2>2, <2>7, <2>8 DEF HeldSum
<1> QED  BY <1>1, <1>2

\* A step that changes one row changes the sums by what that row settled and holds.
LEMMA LedgerChange ==
    ASSUME GatewayType, GatewayType', NEW n \in Calls, NEW r,
           reservation' = [reservation EXCEPT ![n] = r], NEW a
    PROVE  /\ SettledSum(a)' = SettledSum(a) - SettledOf(reservation[n], a) + SettledOf(r, a)
           /\ HeldSum(a)' = HeldSum(a) - HeldOf(reservation[n], a) + HeldOf(r, a)
<1>1. reservation'[n] = r /\ \A m \in Calls \ {n} : reservation'[m] = reservation[m]
  BY DEF GatewayType
<1>2. PICK f, g : /\ f = [m \in Calls |-> SettledOf(reservation[m], a)]
                  /\ g = [m \in Calls |-> SettledOf(reservation'[m], a)]
  OBVIOUS
<1>3. PICK h, k : /\ h = [m \in Calls |-> HeldOf(reservation[m], a)]
                  /\ k = [m \in Calls |-> HeldOf(reservation'[m], a)]
  OBVIOUS
<1>4. \A m \in Calls : /\ SettledOf(reservation'[m], a) \in Nat /\ HeldOf(reservation'[m], a) \in Nat
  <2>1. \A m \in Calls : reservation'[m] # None =>
        /\ Amount(reservation'[m].settledTokens) \in Nat /\ Amount(reservation'[m].tokenExposure) \in Nat
        /\ Amount(reservation'[m].settledUsd) \in Nat /\ Amount(reservation'[m].usdExposure) \in Nat
    BY NoneAssumption DEF GatewayType, ReservationRow, Amount
  <2> QED  BY <2>1 DEF SettledOf, HeldOf
<1>5. \A m \in Calls : /\ SettledOf(reservation[m], a) \in Nat /\ HeldOf(reservation[m], a) \in Nat
  BY LedgerTyped
<1>6. SumFunctionOnSet(g, Calls) = SumFunctionOnSet(f, Calls) - f[n] + g[n]
  <2>1. \A x \in Calls : f[x] \in Int /\ g[x] \in Int
    BY <1>2, <1>4, <1>5
  <2>2. \A x \in Calls \ {n} : g[x] = f[x]
    BY <1>1, <1>2
  <2> QED  BY <2>1, <2>2, CallsFinite, SumChange
<1>7. SumFunctionOnSet(k, Calls) = SumFunctionOnSet(h, Calls) - h[n] + k[n]
  <2>1. \A x \in Calls : h[x] \in Int /\ k[x] \in Int
    BY <1>3, <1>4, <1>5
  <2>2. \A x \in Calls \ {n} : k[x] = h[x]
    BY <1>1, <1>3
  <2> QED  BY <2>1, <2>2, CallsFinite, SumChange
<1> QED  BY <1>1, <1>2, <1>3, <1>6, <1>7 DEF SettledSum, HeldSum

\* What the requests of an account really cost is within what they settled and hold.
LEMMA ChargeBelow ==
    ASSUME GatewaySafe, NEW a \in Ledgers, NEW cost, NEW S,
           S = {n \in Calls : reservation[n] # None /\ Bears(reservation[n], a)},
           cost = [n \in Calls |-> IF a.unit = "usd" THEN charge[n].usd ELSE charge[n].tokens],
           \A n \in S : IF a.unit = "usd" THEN reservation[n].usdExposure # None
                        ELSE reservation[n].tokenExposure # None
    PROVE  SumFunctionOnSet(cost, S) <= SettledSum(a) + HeldSum(a)
<1>1. GatewayType /\ \A n \in Calls : EntrySound(Entry(n))
  BY DEF GatewaySafe
<1>2. PICK f, g, h, k : /\ f = [n \in Calls |-> SettledOf(reservation[n], a)]
                        /\ g = [n \in Calls |-> HeldOf(reservation[n], a)]
                        /\ h = [n \in Calls |-> SettledOf(reservation[n], a) + HeldOf(reservation[n], a)]
                        /\ k = [n \in Calls |-> IF n \in S THEN cost[n] ELSE 0]
  OBVIOUS
<1>3. \A n \in Calls : /\ f[n] \in Nat /\ g[n] \in Nat /\ h[n] = f[n] + g[n]
                       /\ f[n] = SettledOf(reservation[n], a) /\ g[n] = HeldOf(reservation[n], a)
  BY <1>1, <1>2, LedgerTyped
<1>4. SumFunctionOnSet(h, Calls) = SettledSum(a) + HeldSum(a)
  <2>1. \A n \in Calls : f[n] \in Int /\ g[n] \in Int /\ h[n] = f[n] + g[n]
    BY <1>3
  <2> QED  BY <1>2, <2>1, CallsFinite, SumPlus DEF SettledSum, HeldSum
<1>5. \A n \in Calls : cost[n] \in Nat
  BY <1>1 DEF GatewayType, ChargeRow
<1>6. SumFunctionOnSet(cost, S) = SumFunctionOnSet(k, Calls)
  <2>1. S \in SUBSET Calls /\ (\A n \in S : cost[n] \in Int /\ k[n] = cost[n])
        /\ (\A n \in Calls \ S : k[n] = 0)
    BY <1>2, <1>5
  <2> QED  BY <2>1, CallsFinite, SumOver
<1>7. \A n \in Calls : k[n] \in Int /\ h[n] \in Int /\ k[n] <= h[n]
  <2> TAKE n \in Calls
  <2>1. CASE n \notin S
    BY <1>2, <1>3, <2>1
  <2>2. CASE n \in S
    <3>1. PICK r : r = reservation[n] /\ r \in ReservationRow /\ r # None /\ Bears(r, a)
      BY <1>1, <2>2 DEF GatewayType
    <3>2. /\ r.tokenExposure = None \/ charge[n].tokens <= r.tokenExposure
          /\ r.usdExposure = None \/ charge[n].usd <= r.usdExposure
          /\ r.state = "settled" => r.settledTokens = charge[n].tokens /\ r.settledUsd = charge[n].usd
      BY <1>1, <3>1 DEF EntrySound, Entry
    <3>3. charge[n].usd \in Nat /\ charge[n].tokens \in Nat /\ None \notin Nat
      BY <1>1, NoneAssumption DEF GatewayType, ChargeRow
    <3>4. r.state \in {"settled", "reserved"}
      BY <3>1 DEF ReservationRow
    <3>5. k[n] = cost[n] /\ cost[n] = IF a.unit = "usd" THEN charge[n].usd ELSE charge[n].tokens
      BY <1>2, <2>2
    <3>6. CASE r.state = "settled"
      <4>1. SettledOf(r, a) = cost[n]
        BY <3>1, <3>2, <3>3, <3>5, <3>6 DEF SettledOf, Amount
      <4> QED  BY <1>3, <1>5, <3>1, <3>5, <4>1
    <3>7. CASE r.state = "reserved"
      <4>1. IF a.unit = "usd" THEN r.usdExposure # None ELSE r.tokenExposure # None
        BY <2>2, <3>1
      <4>2. cost[n] <= HeldOf(r, a)
        BY <3>1, <3>2, <3>5, <3>7, <4>1 DEF HeldOf, Amount
      <4> QED  BY <1>3, <1>5, <3>1, <3>5, <4>2
    <3> QED  BY <3>4, <3>6, <3>7
  <2> QED  BY <2>1, <2>2
<1>8. SumFunctionOnSet(k, Calls) <= SumFunctionOnSet(h, Calls)
  BY <1>7, CallsFinite, SumBelow
<1> QED  BY <1>4, <1>6, <1>8

\* A request that is in no admission has read nothing.
LEMMA OutsideWithin ==
    ASSUME NEW k, k.pc \notin InIncident, NEW a, NEW limits, NEW settled, NEW held
    PROVE  Within(k, a, limits, settled, held)
BY DEF Within, HalfRead, FullyRead, InIncident, InMonth

\* A step that changes one request and no row keeps the balances if the request keeps its
\* lock, and what it has read of any account is within the limit.
LEMMA BalanceFrame ==
    ASSUME BalancesSafe, NEW c \in Clients, NEW j, call \in [Clients -> CallRecord],
           call' = [call EXCEPT ![c] = j], UNCHANGED <<policy, reservation, raced>>,
           j.pc \in InMonth => \/ call[c].pc \in InMonth /\ j.period = call[c].period
                               \/ MonthFree(j.period),
           FirstPolicy /\ j.pc \in InIncident => j.policy = policy,
           \A a \in Ledgers :
              FirstPolicy /\ ~raced /\ LimitOf(policy, a) # None /\ j.pc \in InIncident =>
                  Within(j, a, policy, SettledSum(a), HeldSum(a))
    PROVE  BalancesSafe'
<1>1. call'[c] = j /\ \A d \in Clients : d # c => call'[d] = call[d]
  OBVIOUS
<1>2. \A d, f \in Clients :
         /\ call'[d].pc \in InMonth /\ call'[f].pc \in InMonth
         /\ call'[d].period = call'[f].period
         => d = f
  <2>1. \A d \in Clients : d # c /\ call'[d].pc \in InMonth /\ j.pc \in InMonth
                             => call'[d].period # j.period
    BY <1>1 DEF BalancesSafe, MonthFree
  <2> QED  BY <1>1, <2>1 DEF BalancesSafe
<1>3. \A a : SettledSum(a)' = SettledSum(a) /\ HeldSum(a)' = HeldSum(a)
  BY DEF SettledSum, HeldSum
<1>4. FirstPolicy' <=> FirstPolicy
  BY DEF FirstPolicy
<1>5. ASSUME FirstPolicy
      PROVE  /\ \A d \in Clients : call'[d].pc \in InIncident => call'[d].policy = policy
             /\ \A n \in Calls : reservation[n] # None =>
                  /\ policy.usd # None => reservation[n].usdExposure # None
                  /\ policy.tokens # None => reservation[n].tokenExposure # None
             /\ raced \/ \A a \in Ledgers : LedgerSound(a)'
  <2>1. \A d \in Clients : call'[d].pc \in InIncident => call'[d].policy = policy
    BY <1>1, <1>5 DEF BalancesSafe
  <2>2. \A n \in Calls : reservation[n] # None =>
          /\ policy.usd # None => reservation[n].usdExposure # None
          /\ policy.tokens # None => reservation[n].tokenExposure # None
    BY <1>5 DEF BalancesSafe
  <2>3. ASSUME ~raced, NEW a \in Ledgers, LimitOf(policy, a) # None
        PROVE  /\ SettledSum(a) + HeldSum(a) <= LimitOf(policy, a)
               /\ \A d \in Clients : Within(call'[d], a, policy, SettledSum(a), HeldSum(a))
    <3>1. /\ SettledSum(a) + HeldSum(a) <= LimitOf(policy, a)
          /\ \A d \in Clients : Within(call[d], a, policy, SettledSum(a), HeldSum(a))
      BY <1>5, <2>3 DEF BalancesSafe, LedgerSound
    <3>2. Within(j, a, policy, SettledSum(a), HeldSum(a))
      BY <1>5, <2>3, OutsideWithin
    <3> QED  BY <1>1, <3>1, <3>2
  <2>4. ~raced => \A a \in Ledgers : LedgerSound(a)'
    BY <1>3, <2>3 DEF LedgerSound
  <2> QED  BY <2>1, <2>2, <2>4
<1> QED  BY <1>2, <1>4, <1>5 DEF BalancesSafe

\* The steps that end an admission, and those outside one.
LEMMA BalanceOutside ==
    ASSUME BalancesSafe, GatewayType, NEW c \in Clients, NEW j, call' = [call EXCEPT ![c] = j],
           UNCHANGED <<policy, reservation, raced>>, j.pc \notin InMonth
    PROVE  BalancesSafe'
<1>1. j.pc \notin InIncident /\ call \in [Clients -> CallRecord]
  BY DEF InIncident, GatewayType
<1> QED  BY <1>1, BalanceFrame

\* A refusal, a crash, a new request, an answer and a finish write no row and end no lock
\* but their own.
LEMMA BalanceEnds ==
    ASSUME BalancesSafe, GatewayType, NEW c \in Clients,
           Refuse(c) \/ create(c) \/ provider_create(c) \/ _finish(c) \/ Crash(c)
    PROVE  BalancesSafe'
<1>1. NoCall.pc \notin InMonth
  BY DEF NoCall, InMonth
<1>2. CASE Refuse(c) \/ _finish(c) \/ Crash(c)
  <2>1. call' = [call EXCEPT ![c] = NoCall] /\ UNCHANGED <<policy, reservation, raced>>
    BY <1>2 DEF Refuse, _finish, Crash
  <2> QED  BY <1>1, <2>1, BalanceOutside
<1>3. CASE create(c)
  <2>1. CASE UNCHANGED call
    <3>1. call[c].pc = "idle" /\ UNCHANGED <<policy, reservation, raced>>
      BY <1>3 DEF create
    <3>2. PICK j : j = call[c]
      OBVIOUS
    <3>3. call' = [call EXCEPT ![c] = j] /\ j.pc \notin InMonth
      BY <2>1, <3>1, <3>2 DEF InMonth, GatewayType
    <3> QED  BY <3>1, <3>3, BalanceOutside
  <2>2. CASE \E i \in Incidents \cup {None}, m \in Models :
            call' = [call EXCEPT ![c] = [NoCall EXCEPT !.n = sent + 1, !.pc = "routed",
                        !.incident = i, !.model = m, !.period = month]]
    <3>1. PICK i \in Incidents \cup {None}, m \in Models :
            call' = [call EXCEPT ![c] = [NoCall EXCEPT !.n = sent + 1, !.pc = "routed",
                        !.incident = i, !.model = m, !.period = month]]
      BY <2>2
    <3>2. PICK j : j = [NoCall EXCEPT !.n = sent + 1, !.pc = "routed",
                        !.incident = i, !.model = m, !.period = month]
      OBVIOUS
    <3>3. j.pc \notin InMonth
      BY <3>2 DEF NoCall, InMonth
    <3>4. UNCHANGED <<policy, reservation, raced>>
      BY <1>3 DEF create
    <3> QED  BY <3>1, <3>2, <3>3, <3>4, BalanceOutside
  <2> QED  BY <1>3, <2>1, <2>2 DEF create
<1>4. CASE provider_create(c)
  <2>1. PICK result : Received(c, result)
    <3>1. CASE answers(c)
      BY <3>1, ZenonT(60) DEF answers
    <3>2. CASE fails(c)
      BY <3>2, ZenonT(60) DEF fails
    <3>3. CASE times_out(c)
      BY <3>3, Zenon DEF times_out
    <3> QED  BY <1>4, <3>1, <3>2, <3>3 DEF provider_create
  <2>2. PICK next, res : /\ next = IF Retries(call[c].tries, result) THEN "admitted" ELSE "answered"
                         /\ res = IF Retries(call[c].tries, result) THEN None ELSE Kept(result)
    OBVIOUS
  <2>3. PICK j : j = [call[c] EXCEPT !.tries = 1, !.pc = next, !.result = res]
    OBVIOUS
  <2>4. call' = [call EXCEPT ![c] = j]
    BY <2>1, <2>2, <2>3 DEF Received, GatewayType
  <2>5. j.pc = next
    BY <2>3 DEF GatewayType, CallRecord
  <2>6. j.pc \notin InMonth
    BY <2>2, <2>5 DEF InMonth
  <2>7. UNCHANGED <<policy, reservation, raced>>
    BY <1>4 DEF provider_create
  <2> QED  BY <2>4, <2>6, <2>7, BalanceOutside
<1> QED  BY <1>2, <1>3, <1>4

\* A step that changes neither a request nor a row.
LEMMA BalanceSurroundings ==
    ASSUME BalancesSafe, GatewayType, replace_policy \/ MonthEnds \/ UNCHANGED gvars
    PROVE  BalancesSafe'
<1>1. UNCHANGED <<reservation, call, raced>>
  BY DEF replace_policy, MonthEnds, gvars
<1>2. \A a : SettledSum(a)' = SettledSum(a) /\ HeldSum(a)' = HeldSum(a)
  BY <1>1 DEF SettledSum, HeldSum
<1>3. CASE replace_policy
  <2>1. PICK limits \in Policies : policy' = [version |-> policy.version + 1,
                                              tokens |-> limits.tokens, usd |-> limits.usd]
    BY <1>3 DEF replace_policy
  <2>2. policy \in PolicyRow /\ policy.version > 0
    BY <1>3 DEF GatewayType, replace_policy
  <2>3. policy'.version # 1
    BY <2>1, <2>2 DEF PolicyRow
  <2> QED  BY <1>1, <2>3 DEF BalancesSafe, FirstPolicy
<1>4. CASE UNCHANGED policy
  BY <1>1, <1>2, <1>4 DEF BalancesSafe, FirstPolicy, LedgerSound
<1> QED  BY <1>3, <1>4 DEF MonthEnds, gvars

\* What an account is.
LEMMA LedgerKinds ==
    ASSUME NEW a \in Ledgers
    PROVE  /\ a.period \in 1..MaxMonth
           /\ \/ a.unit = "usd"
              \/ a.unit = "tokens" /\ a.incident \in Incidents /\ a.incident # None
BY NoneAssumption DEF Ledgers

\* The locks, and the reads of the balances: each takes what it found off what it had.
LEMMA BalanceReads ==
    ASSUME GatewaySafe, BalancesSafe, NEW c \in Clients,
           lock_month(c) \/ lock_incident(c) \/ _incident_remaining(c) \/ _monthly_remaining(c)
    PROVE  BalancesSafe'
<1>1. PICK k : k = call[c]
  OBVIOUS
<1>2. k.pc \in InMonth \cup {"routed"} /\ Live(c)
  BY <1>1 DEF lock_month, lock_incident, _incident_remaining, _monthly_remaining, Reads, InMonth, Live
<1>3. k \in CallRecord /\ GatewayType /\ call \in [Clients -> CallRecord] /\ ReadsSound(k)
  BY <1>1, <1>2 DEF GatewaySafe, GatewayType, CallSound
<1>4. \A a : SettledSum(a) \in Nat /\ HeldSum(a) \in Nat
  BY <1>3, LedgerTyped
<1>5. ASSUME NEW a \in Ledgers, FirstPolicy, ~raced, LimitOf(policy, a) # None
      PROVE  /\ LimitOf(policy, a) \in Nat
             /\ k.pc \in InIncident => k.policy = policy
             /\ Within(k, a, policy, SettledSum(a), HeldSum(a))
  <2>1. policy \in PolicyRow
    BY <1>3, <1>5 DEF GatewayType, FirstPolicy
  <2>2. LimitOf(policy, a) \in Nat
    BY <1>5, <2>1 DEF LimitOf, PolicyRow
  <2> QED  BY <1>1, <1>5, <2>2 DEF BalancesSafe, LedgerSound
<1>6. CASE lock_month(c)
  <2>1. PICK j : j = [k EXCEPT !.pc = "month"]
    OBVIOUS
  <2>2. call' = [call EXCEPT ![c] = j] /\ UNCHANGED <<policy, reservation, raced>>
    BY <1>1, <1>3, <1>6, <2>1 DEF lock_month, Step
  <2>3. j.pc = "month" /\ j.period = k.period
    BY <1>3, <2>1 DEF CallRecord
  <2>4. MonthFree(j.period)
    BY <1>1, <1>6, <2>3 DEF lock_month
  <2>5. j.pc \notin InIncident
    BY <2>3 DEF InIncident
  <2> QED  BY <1>3, <2>2, <2>4, <2>5, BalanceFrame
<1>7. CASE lock_incident(c) /\ Refuse(c)
  BY <1>3, <1>7, BalanceEnds
<1>8. CASE lock_incident(c) /\ ~Refuse(c)
  <2>0. k.pc = "month" /\ k.pc \in InMonth
    BY <1>1, <1>8 DEF lock_incident, InMonth
  <2>1. \/ call' = [call EXCEPT ![c].pc = "admitted", ![c].policy = policy]
        \/ call' = [call EXCEPT ![c].policy = policy,
                    ![c].pc = IF policy.tokens # None /\ call[c].incident # None
                              THEN "incident settled"
                              ELSE IF policy.usd # None THEN "legacy" ELSE "book"]
    BY <1>8 DEF lock_incident
  <2>2. UNCHANGED <<policy, reservation, raced>>
    BY <1>8 DEF lock_incident
  <2>3. CASE call' = [call EXCEPT ![c].pc = "admitted", ![c].policy = policy]
    <3>1. PICK j : j = [k EXCEPT !.pc = "admitted", !.policy = policy]
      OBVIOUS
    <3>2. call' = [call EXCEPT ![c] = j] /\ j.pc = "admitted"
      BY <1>1, <1>3, <2>3, <3>1 DEF CallRecord
    <3>3. j.pc \notin InMonth
      BY <3>2 DEF InMonth
    <3> QED  BY <1>3, <2>2, <3>2, <3>3, BalanceOutside
  <2>4. CASE call' = [call EXCEPT ![c].policy = policy,
                    ![c].pc = IF policy.tokens # None /\ call[c].incident # None
                              THEN "incident settled"
                              ELSE IF policy.usd # None THEN "legacy" ELSE "book"]
    <3>1. PICK next : next = IF policy.tokens # None /\ k.incident # None
                             THEN "incident settled"
                             ELSE IF policy.usd # None THEN "legacy" ELSE "book"
      OBVIOUS
    <3>2. PICK j : j = [k EXCEPT !.pc = next, !.policy = policy]
      OBVIOUS
    <3>3. call' = [call EXCEPT ![c] = j]
      BY <1>1, <1>3, <2>4, <3>1, <3>2
    <3>4. j.pc = next /\ j.policy = policy /\ j.incident = k.incident /\ j.period = k.period
      BY <1>3, <3>2 DEF CallRecord
    <3>5. \A a \in Ledgers : LimitOf(policy, a) # None =>
             Within(j, a, policy, SettledSum(a), HeldSum(a))
      <4> SUFFICES ASSUME NEW a \in Ledgers, LimitOf(policy, a) # None, Bears(j, a)
                   PROVE  /\ ~(a.unit = "usd" /\ j.pc = "settled")
                          /\ ~HalfRead(j, a) /\ ~FullyRead(j, a)
        BY DEF Within
      <4>1. CASE a.unit = "usd"
        BY <3>1, <3>4, <4>1 DEF HalfRead, FullyRead, LimitOf
      <4>2. CASE a.unit = "tokens"
        <5>1. j.incident # None /\ policy.tokens # None
          BY <4>2, LedgerKinds DEF Bears, LimitOf
        <5> QED  BY <3>1, <3>4, <4>2, <5>1 DEF HalfRead, FullyRead
      <4> QED  BY <4>1, <4>2, LedgerKinds
    <3> QED  BY <1>1, <1>3, <2>0, <2>2, <3>3, <3>4, <3>5, BalanceFrame
  <2> QED  BY <2>1, <2>3, <2>4
<1>9. CASE _incident_remaining(c)
  <2>1. CASE k.pc = "incident settled"
    <3>1. PICK left, j : /\ left = k.policy.tokens - _incident_sum(k.incident, k.period, "settled")
                         /\ j = [k EXCEPT !.pc = "incident reserved", !.tokens = left]
      OBVIOUS
    <3>2. call' = [call EXCEPT ![c] = j] /\ UNCHANGED <<policy, reservation, raced>>
      BY <1>1, <1>3, <1>9, <2>1, <3>1 DEF _incident_remaining, Reads
    <3>3. /\ j.pc = "incident reserved" /\ j.policy = k.policy /\ j.incident = k.incident
          /\ j.period = k.period /\ j.tokens = left
      BY <1>3, <3>1 DEF CallRecord
    <3>4. k.pc \in InIncident /\ k.pc \in InMonth
      BY <2>1 DEF InIncident, InMonth
    <3>5. FirstPolicy => k.policy = policy
      BY <1>1, <3>4 DEF BalancesSafe
    <3>6. ASSUME NEW a \in Ledgers, FirstPolicy, ~raced, LimitOf(policy, a) # None
          PROVE  Within(j, a, policy, SettledSum(a), HeldSum(a))
      <4> SUFFICES ASSUME Bears(j, a)
                   PROVE  /\ ~(a.unit = "usd" /\ j.pc = "settled")
                          /\ HalfRead(j, a) => LeftOf(j, a) <= LimitOf(policy, a) - SettledSum(a)
                          /\ ~FullyRead(j, a)
        BY DEF Within
      <4>1. CASE a.unit = "usd"
        BY <3>3, <4>1 DEF HalfRead, FullyRead
      <4>2. CASE a.unit = "tokens"
        <5>1. j.incident = a.incident /\ j.period = a.period
          BY <4>2 DEF Bears
        <5>2. left = policy.tokens - SettledSum(a)
          BY <1>3, <3>1, <3>3, <3>5, <3>6, <4>2, <5>1, IncidentReadsSums
        <5>3. LimitOf(policy, a) \in Nat /\ LimitOf(policy, a) = policy.tokens
          BY <1>5, <3>6, <4>2 DEF LimitOf
        <5>4. left <= LimitOf(policy, a) - SettledSum(a)
          BY <1>4, <5>2, <5>3
        <5> QED  BY <3>3, <4>2, <5>4 DEF FullyRead, LeftOf
      <4> QED  BY <4>1, <4>2, LedgerKinds
    <3> QED  BY <1>1, <1>3, <3>2, <3>3, <3>4, <3>5, <3>6, BalanceFrame
  <2>2. CASE k.pc = "incident reserved"
    <3>1. PICK left, next, j :
             /\ left = k.tokens - _incident_sum(k.incident, k.period, "reserved")
             /\ next = IF k.policy.usd # None THEN "legacy" ELSE "book"
             /\ j = [k EXCEPT !.pc = next, !.tokens = left]
      OBVIOUS
    <3>2. call' = [call EXCEPT ![c] = j] /\ UNCHANGED <<policy, reservation, raced>>
      BY <1>1, <1>3, <1>9, <2>2, <3>1 DEF _incident_remaining, Reads
    <3>3. /\ j.pc = next /\ j.policy = k.policy /\ j.incident = k.incident
          /\ j.period = k.period /\ j.tokens = left
      BY <1>3, <3>1 DEF CallRecord
    <3>4. k.pc \in InIncident /\ k.pc \in InMonth /\ k.tokens \in Int
      BY <1>3, <2>2 DEF InIncident, InMonth, ReadsSound, CallRecord
    <3>5. FirstPolicy => k.policy = policy
      BY <1>1, <3>4 DEF BalancesSafe
    <3>6. ASSUME NEW a \in Ledgers, FirstPolicy, ~raced, LimitOf(policy, a) # None
          PROVE  Within(j, a, policy, SettledSum(a), HeldSum(a))
      <4> SUFFICES ASSUME Bears(j, a)
                   PROVE  /\ ~(a.unit = "usd" /\ j.pc = "settled")
                          /\ ~HalfRead(j, a)
                          /\ FullyRead(j, a) =>
                               LeftOf(j, a) <= LimitOf(policy, a) - (SettledSum(a) + HeldSum(a))
        BY DEF Within
      <4>1. CASE a.unit = "usd"
        BY <3>1, <3>3, <3>5, <3>6, <4>1 DEF HalfRead, FullyRead, LimitOf
      <4>2. CASE a.unit = "tokens"
        <5>1. j.incident = a.incident /\ j.period = a.period /\ Bears(k, a)
          BY <3>3, <4>2 DEF Bears
        <5>2. left = k.tokens - HeldSum(a)
          BY <1>3, <3>1, <3>3, <4>2, <5>1, IncidentReadsSums
        <5>3. LimitOf(policy, a) \in Nat /\ Within(k, a, policy, SettledSum(a), HeldSum(a))
          BY <1>5, <3>6
        <5>4. k.tokens <= LimitOf(policy, a) - SettledSum(a)
          BY <2>2, <4>2, <5>1, <5>3 DEF Within, HalfRead, LeftOf
        <5>5. left <= LimitOf(policy, a) - (SettledSum(a) + HeldSum(a))
          BY <1>4, <3>4, <5>2, <5>3, <5>4
        <5> QED  BY <3>1, <3>3, <4>2, <5>5 DEF HalfRead, LeftOf
      <4> QED  BY <4>1, <4>2, LedgerKinds
    <3> QED  BY <1>1, <1>3, <3>2, <3>3, <3>4, <3>5, <3>6, BalanceFrame
  <2> QED  BY <1>1, <1>9, <2>1, <2>2 DEF _incident_remaining, Reads
<1>10. CASE _monthly_remaining(c)
  <2>1. k.pc \in {"legacy", "settled", "reserved"} /\ k.pc \in InIncident /\ k.pc \in InMonth
    BY <1>1, <1>10 DEF _monthly_remaining, Reads, InIncident, InMonth
  <2>2. PICK next, left, j :
             /\ next = IF k.pc = "legacy" THEN "settled"
                       ELSE IF k.pc = "settled" THEN "reserved" ELSE "book"
             /\ left = IF k.pc = "legacy" THEN k.policy.usd - _legacy_usage(k.period)
                       ELSE k.usd - _period_sum(k.period, k.pc)
             /\ j = [k EXCEPT !.pc = next, !.usd = left]
    OBVIOUS
  <2>3. call' = [call EXCEPT ![c] = j] /\ UNCHANGED <<policy, reservation, raced>>
    <3>1. UNCHANGED <<policy, reservation, raced>>
      BY <1>10 DEF _monthly_remaining, Reads
    <3>2. CASE k.pc = "legacy"
      BY <1>1, <1>3, <1>10, <2>2, <3>1, <3>2 DEF _monthly_remaining, Reads
    <3>3. CASE k.pc = "settled"
      BY <1>1, <1>3, <1>10, <2>2, <3>1, <3>3 DEF _monthly_remaining, Reads
    <3>4. CASE k.pc = "reserved"
      BY <1>1, <1>3, <1>10, <2>2, <3>1, <3>4 DEF _monthly_remaining, Reads
    <3> QED  BY <2>1, <3>2, <3>3, <3>4
  <2>4. /\ j.pc = next /\ j.policy = k.policy /\ j.incident = k.incident
        /\ j.period = k.period /\ j.usd = left /\ j.tokens = k.tokens
    BY <1>3, <2>2 DEF CallRecord
  <2>5. FirstPolicy => k.policy = policy
    BY <1>1, <2>1 DEF BalancesSafe
  <2>6. ASSUME NEW a \in Ledgers, FirstPolicy, ~raced, LimitOf(policy, a) # None
        PROVE  Within(j, a, policy, SettledSum(a), HeldSum(a))
    <3> SUFFICES ASSUME Bears(j, a)
                 PROVE  /\ a.unit = "usd" /\ j.pc = "settled" => j.usd <= policy.usd
                        /\ HalfRead(j, a) => LeftOf(j, a) <= LimitOf(policy, a) - SettledSum(a)
                        /\ FullyRead(j, a) =>
                             LeftOf(j, a) <= LimitOf(policy, a) - (SettledSum(a) + HeldSum(a))
      BY DEF Within
    <3>1. Bears(k, a) /\ k.period = a.period
      BY <2>4 DEF Bears
    <3>2. LimitOf(policy, a) \in Nat /\ Within(k, a, policy, SettledSum(a), HeldSum(a))
      BY <1>5, <2>6
    <3>3. CASE a.unit = "tokens"
      <4>1. k.tokens <= LimitOf(policy, a) - (SettledSum(a) + HeldSum(a))
        BY <2>1, <3>1, <3>2, <3>3 DEF Within, FullyRead, LeftOf
      <4> QED  BY <2>1, <2>2, <2>4, <3>3, <4>1 DEF HalfRead, FullyRead, LeftOf
    <3>4. CASE a.unit = "usd"
      <4>1. LimitOf(policy, a) = policy.usd
        BY <3>4 DEF LimitOf
      <4>2. CASE k.pc = "legacy"
        <5>1. _legacy_usage(k.period) \in Nat
          BY <1>3, SumsTyped
        <5>2. left <= policy.usd
          BY <2>2, <2>5, <2>6, <3>2, <4>1, <4>2, <5>1
        <5> QED  BY <2>2, <2>4, <3>4, <4>2, <5>2 DEF HalfRead, FullyRead
      <4>3. CASE k.pc = "settled"
        <5>1. k.usd \in Int /\ k.usd <= policy.usd
          BY <1>3, <3>1, <3>2, <3>4, <4>3 DEF Within, ReadsSound, CallRecord
        <5>2. left = k.usd - SettledSum(a)
          BY <1>3, <2>2, <3>1, <3>4, <4>3, MonthReads
        <5>3. left <= LimitOf(policy, a) - SettledSum(a)
          BY <1>4, <3>2, <4>1, <5>1, <5>2
        <5> QED  BY <2>2, <2>4, <3>4, <4>3, <5>3 DEF FullyRead, LeftOf
      <4>4. CASE k.pc = "reserved"
        <5>1. k.usd \in Int /\ k.usd <= LimitOf(policy, a) - SettledSum(a)
          BY <1>3, <3>1, <3>2, <3>4, <4>4 DEF Within, HalfRead, LeftOf, ReadsSound, CallRecord
        <5>2. left = k.usd - HeldSum(a)
          BY <1>3, <2>2, <3>1, <3>4, <4>4, MonthReads
        <5>3. left <= LimitOf(policy, a) - (SettledSum(a) + HeldSum(a))
          BY <1>4, <3>2, <5>1, <5>2
        <5> QED  BY <2>2, <2>4, <3>4, <4>4, <5>3 DEF HalfRead, LeftOf
      <4> QED  BY <2>1, <4>2, <4>3, <4>4
    <3> QED  BY <3>3, <3>4, LedgerKinds
  <2> QED  BY <1>1, <1>3, <2>1, <2>3, <2>4, <2>5, <2>6, BalanceFrame
<1> QED  BY <1>6, <1>7, <1>8, <1>9, <1>10

\* A step that writes one row and leaves the admission keeps the balances if the account
\* stays within its limit, and what the other requests have read of it too.
LEMMA BalanceRow ==
    ASSUME BalancesSafe, GatewayType, NEW c \in Clients, NEW j, call' = [call EXCEPT ![c] = j],
           j.pc \notin InMonth, NEW n \in Calls, NEW r,
           reservation' = [reservation EXCEPT ![n] = r], UNCHANGED policy,
           FirstPolicy /\ r # None => /\ policy.usd # None => r.usdExposure # None
                                      /\ policy.tokens # None => r.tokenExposure # None,
           \A a \in Ledgers : FirstPolicy /\ ~raced' /\ LimitOf(policy, a) # None =>
               /\ SettledSum(a)' + HeldSum(a)' <= LimitOf(policy, a)
               /\ \A d \in Clients \ {c} : Within(call[d], a, policy, SettledSum(a)', HeldSum(a)')
    PROVE  BalancesSafe'
<1>1. call'[c] = j /\ \A d \in Clients : d # c => call'[d] = call[d]
  BY DEF GatewayType
<1>2. \A d, f \in Clients :
         /\ call'[d].pc \in InMonth /\ call'[f].pc \in InMonth
         /\ call'[d].period = call'[f].period
         => d = f
  BY <1>1 DEF BalancesSafe
<1>3. FirstPolicy' <=> FirstPolicy
  BY DEF FirstPolicy
<1>4. j.pc \notin InIncident
  BY DEF InIncident
<1>5. ASSUME FirstPolicy
      PROVE  /\ \A d \in Clients : call'[d].pc \in InIncident => call'[d].policy = policy
             /\ \A m \in Calls : reservation'[m] # None =>
                  /\ policy.usd # None => reservation'[m].usdExposure # None
                  /\ policy.tokens # None => reservation'[m].tokenExposure # None
             /\ raced' \/ \A a \in Ledgers : LedgerSound(a)'
  <2>1. \A d \in Clients : call'[d].pc \in InIncident => call'[d].policy = policy
    BY <1>1, <1>4, <1>5 DEF BalancesSafe
  <2>2. \A m \in Calls : reservation'[m] # None =>
          /\ policy.usd # None => reservation'[m].usdExposure # None
          /\ policy.tokens # None => reservation'[m].tokenExposure # None
    <3>1. reservation'[n] = r /\ \A m \in Calls : m # n => reservation'[m] = reservation[m]
      BY DEF GatewayType
    <3> QED  BY <1>5, <3>1 DEF BalancesSafe
  <2>3. ASSUME ~raced', NEW a \in Ledgers, LimitOf(policy, a) # None
        PROVE  /\ SettledSum(a)' + HeldSum(a)' <= LimitOf(policy, a)
               /\ \A d \in Clients : Within(call'[d], a, policy, SettledSum(a)', HeldSum(a)')
    <3>1. /\ SettledSum(a)' + HeldSum(a)' <= LimitOf(policy, a)
          /\ \A d \in Clients \ {c} : Within(call[d], a, policy, SettledSum(a)', HeldSum(a)')
      BY <1>5, <2>3
    <3>2. Within(j, a, policy, SettledSum(a)', HeldSum(a)')
      BY <1>4, OutsideWithin
    <3> QED  BY <1>1, <3>1, <3>2
  <2>4. ~raced' => \A a \in Ledgers : LedgerSound(a)'
    BY <2>3 DEF LedgerSound
  <2> QED  BY <2>1, <2>2, <2>4
<1> QED  BY <1>2, <1>3, <1>5 DEF BalancesSafe

\* book: what is booked is within what the request has read is left.
LEMMA BalanceBooks ==
    ASSUME GatewaySafe, GatewaySafe', BalancesSafe, NEW c \in Clients, book(c)
    PROVE  BalancesSafe'
<1>1. PICK k, n, cap : k = call[c] /\ n = k.n /\ cap = Affordable(c)
  OBVIOUS
<1>2. k.pc = "book" /\ k.pc \in InMonth /\ k.pc \in InIncident /\ Live(c)
  BY <1>1 DEF book, InMonth, InIncident, Live
<1>3. /\ k \in CallRecord /\ CallSound(k, Entry(n)) /\ ReadsSound(k)
      /\ GatewayType /\ GatewayType' /\ n \in Calls
  BY <1>1, <1>2 DEF GatewaySafe, GatewayType, CallSound
<1>4. CASE Refuse(c)
  BY <1>3, <1>4, BalanceEnds
<1>5. CASE ~Refuse(c)
  <2>1. /\ cap # None
        /\ reservation' = [reservation EXCEPT ![n] = Booking(c, cap)]
        /\ call' = [call EXCEPT ![c].pc = "admitted", ![c].cap = cap, ![c].reserved = TRUE,
                                ![c].tokens = None, ![c].usd = None]
        /\ UNCHANGED <<policy, raced>>
    BY <1>1, <1>5 DEF book
  <2>2. /\ k.model \in Models /\ Matches(k.model) # {}
        /\ k.usd # None <=> k.policy.usd # None
        /\ k.tokens # None <=> k.policy.tokens # None /\ k.incident # None
        /\ k.tokens \in Int \cup {None} /\ k.usd \in Int \cup {None}
        /\ reservation[n] = None
    BY <1>2, <1>3 DEF CallSound, ReadsSound, RowSound, CallRecord, Entry, Served
  <2>3. PICK s : s = select(k.model)
    OBVIOUS
  <2>4. s \in EndpointMetadata
    BY <2>2, <2>3, SelectedBounds
  <2>5. (k.policy.usd # None => Priced(s)) /\ cap = calculate_affordability(s, k.tokens, k.usd)
    BY <1>1, <2>1, <2>3 DEF Affordable
  <2>6. /\ cap \in Nat \ {0}
        /\ k.tokens # None => token_exposure(s, cap) \in Nat /\ token_exposure(s, cap) <= k.tokens
        /\ k.usd # None => usd_exposure(s, cap) \in Nat /\ usd_exposure(s, cap) <= k.usd
    <3>1. PICK t, u : t = k.tokens /\ u = k.usd
      OBVIOUS
    <3>2. /\ t \in Int \cup {None} /\ u \in Int \cup {None} /\ cap # None
          /\ u # None => Priced(s)
      BY <2>1, <2>2, <2>5, <3>1
    <3>3. cap = calculate_affordability(s, t, u)
      BY <2>5, <3>1
    <3>4. /\ cap \in Nat \ {0}
          /\ t # None => token_exposure(s, cap) \in Nat /\ token_exposure(s, cap) <= t
          /\ u # None => usd_exposure(s, cap) \in Nat /\ usd_exposure(s, cap) <= u
      BY <2>4, <3>2, <3>3, Affords
    <3> QED  BY <3>1, <3>4
  <2>7. PICK r : r = Booking(c, cap)
    OBVIOUS
  <2>8. /\ r = [incident |-> k.incident, period |-> k.period,
                version |-> k.policy.version, model |-> k.model,
                tokenExposure |-> IF k.policy.tokens # None THEN token_exposure(s, cap) ELSE None,
                usdExposure |-> IF k.policy.usd # None THEN usd_exposure(s, cap) ELSE None,
                settledTokens |-> None, settledUsd |-> None, state |-> "reserved"]
    BY <1>1, <2>3, <2>7 DEF Booking
  <2>9. /\ r.incident = k.incident /\ r.period = k.period /\ r.state = "reserved"
        /\ k.policy.tokens # None => r.tokenExposure = token_exposure(s, cap)
        /\ k.policy.usd # None => r.usdExposure = usd_exposure(s, cap)
    BY <2>8
  <2>10. token_exposure(s, cap) # None /\ (k.policy.usd # None => usd_exposure(s, cap) # None)
    <3>1. token_exposure(s, cap) \in Nat
      BY <2>4, <2>6, InputBound DEF token_exposure
    <3> QED  BY <2>2, <2>6, <3>1, NoneAssumption
  <2>11. reservation' = [reservation EXCEPT ![n] = r] /\ r # None
    <3>1. reservation'[n] = r /\ reservation'[n] \in ReservationRow \cup {None}
      BY <1>3, <2>1, <2>7 DEF GatewayType
    <3>2. r # None
      <4>1. PICK e, f : e = Entry(n)' /\ f = call'[c]
        OBVIOUS
      <4>2. f.pc = "admitted" /\ f.reserved /\ f.n = n
        BY <1>1, <1>3, <2>1, <4>1 DEF GatewayType, CallRecord
      <4>3. CallSound(f, e)
        BY <4>1, <4>2 DEF GatewaySafe, Live
      <4>4. e.row # None
        BY <4>2, <4>3 DEF CallSound, RowSound
      <4> QED  BY <3>1, <4>1, <4>4 DEF Entry
    <3> QED  BY <2>1, <2>7, <3>2
  <2>12. PICK j : j = [k EXCEPT !.pc = "admitted", !.cap = cap, !.reserved = TRUE,
                                !.tokens = None, !.usd = None]
    OBVIOUS
  <2>13. call' = [call EXCEPT ![c] = j]
    BY <1>1, <1>3, <2>1, <2>12 DEF GatewayType
  <2>14. j.pc \notin InMonth
    BY <1>3, <2>12 DEF CallRecord, InMonth
  <2>15. FirstPolicy => k.policy = policy
    BY <1>1, <1>2 DEF BalancesSafe
  <2>16. FirstPolicy /\ r # None => /\ policy.usd # None => r.usdExposure # None
                                    /\ policy.tokens # None => r.tokenExposure # None
    BY <2>9, <2>10, <2>15
  <2>17. ASSUME NEW a \in Ledgers, FirstPolicy, ~raced', LimitOf(policy, a) # None
         PROVE  /\ SettledSum(a)' + HeldSum(a)' <= LimitOf(policy, a)
                /\ \A d \in Clients \ {c} : Within(call[d], a, policy, SettledSum(a)', HeldSum(a)')
    <3>1. /\ SettledSum(a) + HeldSum(a) <= LimitOf(policy, a)
          /\ \A d \in Clients : Within(call[d], a, policy, SettledSum(a), HeldSum(a))
      BY <2>1, <2>17 DEF BalancesSafe, LedgerSound
    <3>2. SettledSum(a) \in Nat /\ HeldSum(a) \in Nat
      BY <1>3, LedgerTyped
    <3>3. LimitOf(policy, a) \in Nat
      <4>1. policy \in PolicyRow
        BY <1>3, <2>17 DEF GatewayType, FirstPolicy
      <4> QED  BY <2>17, <4>1 DEF LimitOf, PolicyRow
    <3>4. /\ SettledOf(reservation[n], a) = 0 /\ HeldOf(reservation[n], a) = 0
          /\ SettledOf(r, a) = 0
      BY <2>2, <2>9 DEF SettledOf, HeldOf
    <3>5. SettledSum(a)' = SettledSum(a) /\ HeldSum(a)' = HeldSum(a) + HeldOf(r, a)
      <4>1. /\ SettledSum(a)' = SettledSum(a) - SettledOf(reservation[n], a) + SettledOf(r, a)
            /\ HeldSum(a)' = HeldSum(a) - HeldOf(reservation[n], a) + HeldOf(r, a)
        BY <1>3, <2>11, LedgerChange
      <4> QED  BY <3>2, <3>4, <4>1
    <3>6. CASE ~Bears(r, a)
      <4>1. HeldOf(r, a) = 0
        BY <3>6 DEF HeldOf
      <4>2. SettledSum(a)' = SettledSum(a) /\ HeldSum(a)' = HeldSum(a)
        BY <3>2, <3>5, <4>1
      <4> QED  BY <3>1, <4>2
    <3>7. CASE Bears(r, a)
      <4>1. Bears(k, a)
        BY <2>9, <3>7 DEF Bears
      <4>2. LeftOf(k, a) # None /\ LeftOf(k, a) \in Int
        <5>1. CASE a.unit = "usd"
          BY <2>2, <2>15, <2>17, <5>1 DEF LimitOf, LeftOf
        <5>2. CASE a.unit = "tokens" /\ a.incident # None
          BY <2>2, <2>15, <2>17, <4>1, <5>2 DEF LimitOf, LeftOf, Bears
        <5> QED  BY <5>1, <5>2, LedgerKinds
      <4>3. LeftOf(k, a) <= LimitOf(policy, a) - (SettledSum(a) + HeldSum(a))
        <5>1. FullyRead(k, a)
          BY <1>2 DEF FullyRead
        <5> QED  BY <1>1, <3>1, <4>1, <5>1 DEF Within
      <4>4. HeldOf(r, a) \in Nat /\ HeldOf(r, a) <= LeftOf(k, a)
        <5>1. CASE a.unit = "usd"
          <6>1. HeldOf(r, a) = usd_exposure(s, cap)
            BY <2>9, <2>10, <2>11, <2>15, <2>17, <3>7, <5>1 DEF HeldOf, Amount, LimitOf
          <6> QED  BY <2>6, <4>2, <5>1, <6>1 DEF LeftOf
        <5>2. CASE a.unit = "tokens"
          <6>1. HeldOf(r, a) = token_exposure(s, cap)
            BY <2>9, <2>10, <2>11, <2>15, <2>17, <3>7, <5>2 DEF HeldOf, Amount, LimitOf
          <6> QED  BY <2>6, <4>2, <5>2, <6>1 DEF LeftOf
        <5> QED  BY <5>1, <5>2, LedgerKinds
      <4>5. SettledSum(a)' + HeldSum(a)' <= LimitOf(policy, a)
        BY <3>2, <3>3, <3>5, <4>2, <4>3, <4>4
      <4>6. ASSUME NEW d \in Clients \ {c}
            PROVE  Within(call[d], a, policy, SettledSum(a)', HeldSum(a)')
        <5>1. CASE call[d].pc \in InIncident
          <6>1. call[d].pc \in InMonth
            BY <5>1 DEF InIncident
          <6>2. call[d].period # k.period
            BY <1>1, <1>2, <6>1 DEF BalancesSafe
          <6>3. ~Bears(call[d], a)
            BY <4>1, <6>2 DEF Bears
          <6> QED  BY <6>3 DEF Within
        <5>2. CASE call[d].pc \notin InIncident
          BY <5>2, OutsideWithin
        <5> QED  BY <5>1, <5>2
      <4> QED  BY <4>5, <4>6
    <3> QED  BY <3>6, <3>7
  <2>18. UNCHANGED policy /\ GatewayType
    BY <1>3, <2>1
  <2> QED  BY <1>3, <2>11, <2>13, <2>14, <2>16, <2>17, <2>18, BalanceRow
<1> QED  BY <1>4, <1>5

\* What a request has read is a number once it is needed.
LEMMA LeftIsRead ==
    ASSUME GatewaySafe, BalancesSafe, FirstPolicy, NEW d \in Clients, NEW a \in Ledgers,
           LimitOf(policy, a) # None, Bears(call[d], a), FullyRead(call[d], a)
    PROVE  LeftOf(call[d], a) \in Int
<1>1. PICK k : k = call[d]
  OBVIOUS
<1>2. k.pc \in {"legacy", "settled", "reserved", "book"}
  BY <1>1 DEF FullyRead
<1>3. Live(d) /\ k.pc \in InIncident
  BY <1>1, <1>2 DEF Live, InIncident, InMonth
<1>4. k \in CallRecord /\ ReadsSound(k)
  BY <1>1, <1>3 DEF GatewaySafe, GatewayType, CallSound
<1>5. k.policy = policy
  BY <1>1, <1>3 DEF BalancesSafe
<1>6. CASE a.unit = "usd"
  <2>1. k.pc = "book" /\ policy.usd # None
    BY <1>1, <1>6 DEF FullyRead, LimitOf
  <2>2. k.usd # None
    BY <1>4, <1>5, <2>1 DEF ReadsSound
  <2> QED  BY <1>1, <1>4, <1>6, <2>2 DEF LeftOf, CallRecord
<1>7. CASE a.unit = "tokens" /\ a.incident # None
  <2>1. k.incident # None /\ policy.tokens # None
    BY <1>1, <1>7 DEF Bears, LimitOf
  <2>2. k.tokens # None
    BY <1>2, <1>4, <1>5, <2>1 DEF ReadsSound
  <2> QED  BY <1>1, <1>4, <1>7, <2>2 DEF LeftOf, CallRecord
<1> QED  BY <1>6, <1>7, LedgerKinds

\* _settle_exact: what settles was held, and no request is between the two sums of it.
LEMMA BalanceSettles ==
    ASSUME GatewaySafe, GatewaySafe', BalancesSafe, NEW c \in Clients, _settle_exact(c)
    PROVE  BalancesSafe'
<1>1. PICK k, n, old, res : k = call[c] /\ n = k.n /\ old = Entry(n) /\ res = k.result
  OBVIOUS
<1>2. k.pc = "answered" /\ k.pc \in Served /\ Live(c)
  BY <1>1 DEF _settle_exact, Live, Served
<1>3. /\ k \in CallRecord /\ CallSound(k, old) /\ GatewayType /\ GatewayType' /\ n \in Calls
      /\ reservation \in [Calls -> ReservationRow \cup {None}] /\ call \in [Clients -> CallRecord]
      /\ res \in KeptResult /\ EntrySound(old) /\ RowSound(k, old)
  <2>1. k \in CallRecord /\ CallSound(k, old) /\ GatewayType /\ GatewayType'
    BY <1>1, <1>2 DEF GatewaySafe, GatewayType
  <2>2. n \in Calls
    BY <1>1, <2>1 DEF CallSound
  <2> QED  BY <1>1, <1>2, <2>1, <2>2 DEF CallSound, GatewayType, GatewaySafe
<1>4. PICK j : j = [k EXCEPT !.pc = "accounted"]
  OBVIOUS
<1>5. call' = [call EXCEPT ![c] = j] /\ UNCHANGED policy
  BY <1>1, <1>3, <1>4 DEF _settle_exact, Step
<1>6. j.pc \notin InMonth
  BY <1>3, <1>4 DEF CallRecord, InMonth
<1>7. CASE UNCHANGED <<reservation, raced>>
  BY <1>3, <1>5, <1>6, <1>7, BalanceOutside
<1>8. CASE /\ k.reserved /\ res.complete /\ reservation' = Settled(n, res)
           /\ raced' = (raced \/ BetweenSums(n))
  <2>1. PICK o : o = reservation[n] /\ o \in ReservationRow /\ o = old.row /\ o # None
    BY <1>1, <1>3, <1>8 DEF RowSound, Entry
  <2>2. PICK r : r = [o EXCEPT !.state = "settled", !.settledTokens = res.tokens,
                               !.settledUsd = res.usd]
    OBVIOUS
  <2>3. reservation' = [reservation EXCEPT ![n] = r]
    BY <1>3, <1>8, <2>1, <2>2 DEF Settled
  <2>4. res.tokens \in Nat /\ res.usd \in Nat
    BY <1>3 DEF KeptResult
  <2>5. /\ r \in ReservationRow /\ r.tokenExposure = o.tokenExposure
        /\ r.usdExposure = o.usdExposure /\ r.period = o.period /\ r.incident = o.incident
        /\ r.settledTokens = res.tokens /\ r.settledUsd = res.usd /\ r.state = "settled"
    BY <2>1, <2>2, <2>4 DEF ReservationRow
  <2>6. res.tokens = old.charge.tokens /\ res.usd = old.charge.usd
    BY <1>1, <1>2, <1>3, <1>8 DEF CallSound
  <2>7. r # None
    BY <2>5, NoneAssumption
  <2>8. /\ o.tokenExposure = None \/ res.tokens <= o.tokenExposure
        /\ o.usdExposure = None \/ res.usd <= o.usdExposure
        /\ o.state = "settled" => o.settledTokens = res.tokens /\ o.settledUsd = res.usd
        /\ o.state \in {"reserved", "settled"}
        /\ o.tokenExposure \in Nat \cup {None} /\ o.usdExposure \in Nat \cup {None}
    BY <1>3, <2>1, <2>6 DEF EntrySound, ReservationRow
  <2>9. FirstPolicy => /\ policy.usd # None => o.usdExposure # None
                       /\ policy.tokens # None => o.tokenExposure # None
    BY <1>3, <2>1 DEF BalancesSafe
  <2>10. FirstPolicy /\ r # None => /\ policy.usd # None => r.usdExposure # None
                                    /\ policy.tokens # None => r.tokenExposure # None
    BY <2>5, <2>9
  <2>11. ASSUME NEW a \in Ledgers, FirstPolicy, ~raced', LimitOf(policy, a) # None
         PROVE  /\ SettledSum(a)' + HeldSum(a)' <= LimitOf(policy, a)
                /\ \A d \in Clients \ {c} : Within(call[d], a, policy, SettledSum(a)', HeldSum(a)')
    <3>0. ~raced /\ ~BetweenSums(n)
      BY <1>8, <2>11
    <3>1. /\ SettledSum(a) + HeldSum(a) <= LimitOf(policy, a)
          /\ \A d \in Clients : Within(call[d], a, policy, SettledSum(a), HeldSum(a))
      BY <2>11, <3>0 DEF BalancesSafe, LedgerSound
    <3>2. SettledSum(a) \in Nat /\ HeldSum(a) \in Nat
      BY <1>3, LedgerTyped
    <3>3. LimitOf(policy, a) \in Nat
      <4>1. policy \in PolicyRow
        BY <1>3, <2>11 DEF GatewayType, FirstPolicy
      <4> QED  BY <2>11, <4>1 DEF LimitOf, PolicyRow
    <3>4. /\ SettledSum(a)' = SettledSum(a) - SettledOf(o, a) + SettledOf(r, a)
          /\ HeldSum(a)' = HeldSum(a) - HeldOf(o, a) + HeldOf(r, a)
      BY <1>3, <2>1, <2>3, LedgerChange, ZenonT(60)
    <3>5. Bears(r, a) <=> Bears(o, a)
      BY <2>5 DEF Bears
    <3>6. PICK v : v = IF a.unit = "usd" THEN res.usd ELSE res.tokens
      OBVIOUS
    <3>7. v \in Nat /\ v # None
      BY <2>4, <3>6, NoneAssumption
    <3>8. CASE ~Bears(o, a)
      <4>1. SettledOf(o, a) = 0 /\ SettledOf(r, a) = 0 /\ HeldOf(o, a) = 0 /\ HeldOf(r, a) = 0
        BY <3>5, <3>8 DEF SettledOf, HeldOf
      <4>2. SettledSum(a)' = SettledSum(a) /\ HeldSum(a)' = HeldSum(a)
        BY <3>2, <3>4, <4>1
      <4> QED  BY <3>1, <4>2
    <3>9. CASE Bears(o, a) /\ o.state = "settled"
      <4>1. SettledOf(o, a) = v /\ SettledOf(r, a) = v /\ HeldOf(o, a) = 0 /\ HeldOf(r, a) = 0
        BY <2>1, <2>5, <2>7, <2>8, <3>5, <3>6, <3>7, <3>9 DEF SettledOf, HeldOf, Amount
      <4>2. SettledSum(a)' = SettledSum(a) /\ HeldSum(a)' = HeldSum(a)
        BY <3>2, <3>4, <3>7, <4>1
      <4> QED  BY <3>1, <4>2
    <3>10. CASE Bears(o, a) /\ o.state = "reserved"
      <4>1. SettledOf(o, a) = 0 /\ SettledOf(r, a) = v /\ HeldOf(r, a) = 0
        BY <2>1, <2>5, <2>7, <3>5, <3>6, <3>7, <3>10 DEF SettledOf, HeldOf, Amount
      <4>2. HeldOf(o, a) \in Nat /\ v <= HeldOf(o, a)
        <5>1. CASE a.unit = "usd"
          <6>1. o.usdExposure # None
            BY <2>9, <2>11, <5>1 DEF LimitOf
          <6>2. HeldOf(o, a) = o.usdExposure
            BY <2>1, <3>10, <5>1, <6>1 DEF HeldOf, Amount
          <6> QED  BY <2>8, <3>6, <5>1, <6>1, <6>2
        <5>2. CASE a.unit = "tokens"
          <6>1. o.tokenExposure # None
            BY <2>9, <2>11, <5>2 DEF LimitOf
          <6>2. HeldOf(o, a) = o.tokenExposure
            BY <2>1, <3>10, <5>2, <6>1 DEF HeldOf, Amount
          <6> QED  BY <2>8, <3>6, <5>2, <6>1, <6>2
        <5> QED  BY <5>1, <5>2, LedgerKinds
      <4>3. /\ SettledSum(a)' \in Int /\ HeldSum(a)' \in Int
            /\ SettledSum(a)' + HeldSum(a)' <= SettledSum(a) + HeldSum(a)
        BY <3>2, <3>4, <3>7, <4>1, <4>2
      <4>4. SettledSum(a)' + HeldSum(a)' <= LimitOf(policy, a)
        BY <3>1, <3>2, <3>3, <4>3
      <4>5. ASSUME NEW d \in Clients \ {c}, Bears(call[d], a)
            PROVE  /\ a.unit = "usd" /\ call[d].pc = "settled" => call[d].usd <= policy.usd
                   /\ ~HalfRead(call[d], a)
                   /\ FullyRead(call[d], a) =>
                        LeftOf(call[d], a) <= LimitOf(policy, a) - (SettledSum(a)' + HeldSum(a)')
        <5>1. call[d].period = o.period
          BY <3>10, <4>5 DEF Bears
        <5>2. ~HalfRead(call[d], a)
          BY <2>1, <3>0, <5>1 DEF HalfRead, BetweenSums
        <5>3. Within(call[d], a, policy, SettledSum(a), HeldSum(a))
          BY <3>1
        <5>4. ASSUME FullyRead(call[d], a)
              PROVE  LeftOf(call[d], a) <= LimitOf(policy, a) - (SettledSum(a)' + HeldSum(a)')
          <6>1. LeftOf(call[d], a) \in Int
            BY <2>11, <4>5, <5>4, LeftIsRead
          <6>2. LeftOf(call[d], a) <= LimitOf(policy, a) - (SettledSum(a) + HeldSum(a))
            BY <4>5, <5>3, <5>4 DEF Within
          <6> QED  BY <3>2, <3>3, <4>3, <6>1, <6>2
        <5> QED  BY <4>5, <5>2, <5>3, <5>4 DEF Within
      <4> QED  BY <4>4, <4>5 DEF Within
    <3> QED  BY <2>8, <3>8, <3>9, <3>10
  <2> QED  BY <1>3, <1>5, <1>6, <2>3, <2>10, <2>11, BalanceRow
<1> QED  BY <1>1, <1>7, <1>8 DEF _settle_exact

\* Nothing is booked at the start.
LEMMA BalancesStart == ASSUME GatewayInit, GatewaySafe PROVE BalancesSafe
<1>1. /\ call = [c \in Clients |-> NoCall] /\ NoCall.pc = "idle"
      /\ reservation = [n \in Calls |-> None] /\ GatewayType
  BY DEF GatewayInit, GatewaySafe, NoCall
<1>2. \A c \in Clients : call[c].pc \notin InMonth /\ call[c].pc \notin InIncident
  BY <1>1 DEF InMonth, InIncident
<1>3. ASSUME FirstPolicy, NEW a \in Ledgers PROVE LedgerSound(a)
  <2>1. PICK f, g, h : /\ f = [n \in Calls |-> SettledOf(reservation[n], a)]
                       /\ g = [n \in Calls |-> HeldOf(reservation[n], a)]
                       /\ h = [n \in Calls |-> 0]
    OBVIOUS
  <2>2. \A n \in Calls : f[n] = 0 /\ g[n] = 0 /\ h[n] = 0
    BY <1>1, <2>1 DEF SettledOf, HeldOf
  <2>3. SumFunctionOnSet(f, Calls) = 0 /\ SumFunctionOnSet(g, Calls) = 0
    <3>0. PICK S : S = {}
      OBVIOUS
    <3>1. S = {} /\ S \in SUBSET Calls
      BY <3>0
    <3>2. (\A x \in S : h[x] \in Int /\ f[x] = h[x]) /\ (\A x \in Calls \ S : f[x] = 0)
      BY <2>2, <3>1
    <3>3. (\A x \in S : h[x] \in Int /\ g[x] = h[x]) /\ (\A x \in Calls \ S : g[x] = 0)
      BY <2>2, <3>1
    <3>4. SumFunctionOnSet(h, S) = SumFunctionOnSet(f, Calls)
      BY <3>1, <3>2, CallsFinite, SumOver
    <3>5. SumFunctionOnSet(h, S) = SumFunctionOnSet(g, Calls)
      BY <3>1, <3>3, CallsFinite, SumOver
    <3>6. SumFunctionOnSet(h, {}) = 0
      BY CallsFinite, SumStep
    <3> QED  BY <3>1, <3>4, <3>5, <3>6
  <2>4. SettledSum(a) = 0 /\ HeldSum(a) = 0
    BY <2>1, <2>3 DEF SettledSum, HeldSum
  <2>5. LimitOf(policy, a) # None => LimitOf(policy, a) \in Nat
    <3>1. policy \in PolicyRow
      BY <1>1, <1>3 DEF GatewayType, FirstPolicy
    <3> QED  BY <3>1 DEF LimitOf, PolicyRow
  <2>6. \A c \in Clients : Within(call[c], a, policy, SettledSum(a), HeldSum(a))
    BY <1>2, OutsideWithin
  <2> QED  BY <2>4, <2>5, <2>6 DEF LedgerSound
<1> QED  BY <1>1, <1>2, <1>3 DEF BalancesSafe

\* Every step keeps the balances.
LEMMA BalancesSteps ==
    ASSUME GatewaySafe, GatewaySafe', BalancesSafe, [GatewayNext]_gvars
    PROVE  BalancesSafe'
<1>1. GatewayType
  BY DEF GatewaySafe
<1>2. ASSUME NEW c \in Clients, create(c) \/ Advance(c) \/ Crash(c) PROVE BalancesSafe'
  BY <1>1, <1>2, BalanceEnds, BalanceReads, BalanceBooks, BalanceSettles
     DEF Advance, admit, refuse_request
<1>3. CASE replace_policy \/ MonthEnds \/ UNCHANGED gvars
  BY <1>1, <1>3, BalanceSurroundings
<1> QED  BY <1>2, <1>3 DEF GatewayNext

\* The balances of every account stay within the limits of the first policy, and so does what
\* each admission has read of them, unless a settlement fell between two reads.
THEOREM BalancesKnown == GatewaySpec => []BalancesSafe
<1>1. GatewayInit => GatewaySafe /\ BalancesSafe
  BY GatewayStarts, BalancesStart
<1>2. GatewaySafe /\ BalancesSafe /\ [GatewayNext]_gvars => (GatewaySafe /\ BalancesSafe)'
  BY GatewaySteps, BalancesSteps
<1> QED  BY <1>1, <1>2, PTL DEF GatewaySpec

\* ConsumptionAdmissionService: admissions of one month, under one policy, cannot together
\* spend more of it than the month's limit or an incident's, unless a settlement, which takes
\* neither lock, commits between the two sums of an admission.
THEOREM BudgetIsHeld == GatewaySpec => []BudgetHeldUnraced
<1>1. ASSUME GatewaySafe, BalancesSafe PROVE BudgetHeldUnraced
  <2> SUFFICES ASSUME ~raced, FirstPolicy
               PROVE  /\ policy.usd # None =>
                           \A p \in 1..MaxMonth : MonthCharge(p) <= policy.usd
                      /\ policy.tokens # None =>
                           \A i \in Incidents, p \in 1..MaxMonth :
                               IncidentCharge(i, p) <= policy.tokens
    BY DEF BudgetHeldUnraced, BudgetHeld, FirstPolicy
  <2>1. GatewayType /\ policy \in PolicyRow
    BY <1>1 DEF GatewaySafe, GatewayType, FirstPolicy
  <2>2. \A n \in Calls : reservation[n] # None =>
          /\ policy.usd # None => reservation[n].usdExposure # None
          /\ policy.tokens # None => reservation[n].tokenExposure # None
    BY <1>1 DEF BalancesSafe
  <2>3. \A a \in Ledgers : LimitOf(policy, a) # None =>
            SettledSum(a) + HeldSum(a) <= LimitOf(policy, a)
    BY <1>1 DEF BalancesSafe, LedgerSound
  <2>4. ASSUME policy.usd # None, NEW p \in 1..MaxMonth PROVE MonthCharge(p) <= policy.usd
    <3>1. PICK a : a = [unit |-> "usd", incident |-> None, period |-> p]
      OBVIOUS
    <3>2. a \in Ledgers /\ a.unit = "usd" /\ a.period = p
      BY <3>1 DEF Ledgers
    <3>3. PICK S, cost : /\ S = {n \in Calls : reservation[n] # None /\ Bears(reservation[n], a)}
                         /\ cost = [n \in Calls |-> IF a.unit = "usd" THEN charge[n].usd
                                                    ELSE charge[n].tokens]
      OBVIOUS
    <3>4. \A n \in S : IF a.unit = "usd" THEN reservation[n].usdExposure # None
                       ELSE reservation[n].tokenExposure # None
      BY <2>2, <2>4, <3>2, <3>3
    <3>5. SumFunctionOnSet(cost, S) <= SettledSum(a) + HeldSum(a)
      BY <1>1, <3>2, <3>3, <3>4, ChargeBelow
    <3>6. S = {n \in Calls : reservation[n] # None /\ reservation[n].period = p}
      BY <3>2, <3>3 DEF Bears
    <3>7. cost = [n \in Calls |-> charge[n].usd]
      BY <3>2, <3>3
    <3>8. MonthCharge(p) = SumFunctionOnSet(cost, S)
      BY <3>6, <3>7 DEF MonthCharge
    <3>9. SumFunctionOnSet(cost, S) \in Int
      <4>1. IsFiniteSet(S) /\ \A n \in S : cost[n] \in Int
        BY <2>1, <3>6, <3>7, CallsFinite DEF GatewayType, ChargeRow
      <4> QED  BY <4>1, SumRemove
    <3>10. SettledSum(a) + HeldSum(a) <= policy.usd
      BY <2>3, <2>4, <3>2 DEF LimitOf
    <3>11. SettledSum(a) \in Nat /\ HeldSum(a) \in Nat /\ policy.usd \in Nat
      BY <2>1, <2>4, LedgerTyped DEF PolicyRow
    <3> QED  BY <3>5, <3>8, <3>9, <3>10, <3>11
  <2>5. ASSUME policy.tokens # None, NEW i \in Incidents, NEW p \in 1..MaxMonth
        PROVE  IncidentCharge(i, p) <= policy.tokens
    <3>1. PICK a : a = [unit |-> "tokens", incident |-> i, period |-> p]
      OBVIOUS
    <3>2. a \in Ledgers /\ a.unit = "tokens" /\ a.period = p /\ a.incident = i
      BY <3>1 DEF Ledgers
    <3>3. PICK S, cost : /\ S = {n \in Calls : reservation[n] # None /\ Bears(reservation[n], a)}
                         /\ cost = [n \in Calls |-> IF a.unit = "usd" THEN charge[n].usd
                                                    ELSE charge[n].tokens]
      OBVIOUS
    <3>4. \A n \in S : IF a.unit = "usd" THEN reservation[n].usdExposure # None
                       ELSE reservation[n].tokenExposure # None
      BY <2>2, <2>5, <3>2, <3>3
    <3>5. SumFunctionOnSet(cost, S) <= SettledSum(a) + HeldSum(a)
      BY <1>1, <3>2, <3>3, <3>4, ChargeBelow
    <3>6. S = {n \in Calls : /\ reservation[n] # None
                             /\ reservation[n].incident = i
                             /\ reservation[n].period = p}
      BY <3>2, <3>3 DEF Bears
    <3>7. cost = [n \in Calls |-> charge[n].tokens]
      BY <3>2, <3>3
    <3>8. IncidentCharge(i, p) = SumFunctionOnSet(cost, S)
      BY <3>6, <3>7 DEF IncidentCharge
    <3>9. SumFunctionOnSet(cost, S) \in Int
      <4>1. IsFiniteSet(S) /\ \A n \in S : cost[n] \in Int
        BY <2>1, <3>6, <3>7, CallsFinite DEF GatewayType, ChargeRow
      <4> QED  BY <4>1, SumRemove
    <3>10. SettledSum(a) + HeldSum(a) <= policy.tokens
      BY <2>3, <2>5, <3>2 DEF LimitOf
    <3>11. SettledSum(a) \in Nat /\ HeldSum(a) \in Nat /\ policy.tokens \in Nat
      BY <2>1, <2>5, LedgerTyped DEF PolicyRow
    <3> QED  BY <3>5, <3>8, <3>9, <3>10, <3>11
  <2> QED  BY <2>4, <2>5
<1> QED  BY <1>1, GatewayKnown, BalancesKnown, PTL
=============================================================================
