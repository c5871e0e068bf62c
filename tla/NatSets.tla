------------------------------ MODULE NatSets ------------------------------
(***************************************************************************)
(* Facts about naturals, about finite sets of them, about sums over finite  *)
(* sets and about the pool's curve, that the proofs of several modules rest *)
(* on.                                                                     *)
(***************************************************************************)
EXTENDS PropCurve, FiniteSets, Functions, FiniteSetTheorems, WellFoundedInduction, TLAPS

(* A finite, non-empty set of naturals has a greatest and a least element.  *)
(* The argument is induction on finite sets, put as the absence of a        *)
(* minimal counterexample under strict inclusion.                          *)
LEMMA GreatestAndLeast ==
    ASSUME NEW S \in SUBSET Nat, IsFiniteSet(S), S # {}
    PROVE  /\ \E m \in S : \A n \in S : m >= n
           /\ \E m \in S : \A n \in S : m <= n
<1> DEFINE Has(T) == (\E m \in T : \A n \in T : m >= n) /\ (\E m \in T : \A n \in T : m <= n)
           Bad    == {T \in SUBSET S : T # {} /\ ~Has(T)}
<1>1. SUFFICES Bad = {}
  BY <1>1
<1>2. SUFFICES ASSUME Bad # {} PROVE FALSE
  OBVIOUS
<1>3. IsWellFoundedOn(StrictSubsetOrdering(S), SUBSET S)
  BY FS_StrictSubsetOrderingWellFounded, FS_FiniteSubsetsOfFinite
<1>4. PICK T \in Bad : \A U \in Bad : <<U, T>> \notin StrictSubsetOrdering(S)
  <2>1. Bad \subseteq SUBSET S
    OBVIOUS
  <2> HIDE DEF Bad
  <2>2. QED BY <1>2, <1>3, <2>1, WFMin
<1>5. PICK x \in T : TRUE
  BY <1>4
<1> DEFINE U == T \ {x}
<1>6. U \in SUBSET S /\ U \notin Bad
  <2>1. U \in SUBSET S /\ U # T /\ U \subseteq T /\ T \in SUBSET S
    BY <1>4, <1>5
  <2>2. <<U, T>> \in StrictSubsetOrdering(S)
    BY <2>1 DEF StrictSubsetOrdering
  <2>3. QED BY <1>4, <2>1, <2>2
<1>7. T = U \cup {x} /\ T \subseteq Nat
  BY <1>4, <1>5
<1>8. CASE U = {}
  <2>1. T = {x} /\ x \in Nat
    BY <1>7, <1>8
  <2>2. Has(T)
    BY <2>1
  <2>3. QED BY <1>4, <2>2
<1>9. CASE U # {}
  <2>1. Has(U)
    BY <1>6, <1>9
  <2>2. PICK a \in U : \A n \in U : a >= n
    BY <2>1
  <2>3. PICK b \in U : \A n \in U : b <= n
    BY <2>1
  <2>4. a \in Nat /\ b \in Nat /\ x \in Nat /\ \A n \in U : n \in Nat
    BY <1>7, <1>5
  <2>5. \E m \in T : \A n \in T : m >= n
    BY <1>7, <2>2, <2>4
  <2>6. \E m \in T : \A n \in T : m <= n
    BY <1>7, <2>3, <2>4
  <2>7. QED BY <1>4, <2>5, <2>6
<1>10. QED BY <1>8, <1>9

(* Hence Max and Min are elements of the set. *)
LEMMA MaxInSet ==
    ASSUME NEW S \in SUBSET Nat, IsFiniteSet(S), S # {}
    PROVE  Max(S) \in S
BY GreatestAndLeast DEF Max

LEMMA MinInSet ==
    ASSUME NEW S \in SUBSET Nat, IsFiniteSet(S), S # {}
    PROVE  Min(S) \in S
BY GreatestAndLeast DEF Min

(* The larger of two integers. *)
LEMMA LargerOfTwo ==
    ASSUME NEW a \in Int, NEW b \in Int
    PROVE  Max({a, b}) = IF a >= b THEN a ELSE b
<1>1. PICK m \in {a, b} : \A n \in {a, b} : m >= n
  OBVIOUS
<1>2. Max({a, b}) \in {a, b} /\ \A n \in {a, b} : Max({a, b}) >= n
  BY <1>1 DEF Max
<1>3. QED BY <1>2

(* The smaller of two integers. *)
LEMMA SmallerOfTwo ==
    ASSUME NEW a \in Int, NEW b \in Int
    PROVE  Min({a, b}) = IF a <= b THEN a ELSE b
<1>1. PICK m \in {a, b} : \A n \in {a, b} : m <= n
  OBVIOUS
<1>2. Min({a, b}) \in {a, b} /\ \A n \in {a, b} : Min({a, b}) <= n
  BY <1>1 DEF Min
<1>3. QED BY <1>2

-----------------------------------------------------------------------------
(* Products and quotients, in the shape the solvers can use. *)

(* Division rounds down. *)
LEMMA Quotient ==
    ASSUME NEW a \in Int, NEW d \in Nat \ {0}
    PROVE  /\ a \div d \in Int
           /\ d * (a \div d) <= a /\ a < d * (a \div d) + d
BY SMT

(* A product is monotone in either factor. *)
LEMMA Scaling ==
    ASSUME NEW k \in Nat, NEW a \in Int, NEW b \in Int, a <= b
    PROVE  k * a <= k * b
BY SMT

(* A positive factor cancels from an inequality. *)
LEMMA Cancelling ==
    ASSUME NEW k \in Nat \ {0}, NEW a \in Int, NEW b \in Int, k * a <= k * b
    PROVE  a <= b
BY SMT

(* A product with a difference. *)
LEMMA Distributed ==
    ASSUME NEW a \in Int, NEW b \in Int, NEW k \in Int
    PROVE  (a - b) * k = a * k - b * k
BY SMT

(* Naturals are closed under products. *)
LEMMA ProductIsNat ==
    ASSUME NEW a \in Nat, NEW b \in Nat
    PROVE  a * b \in Nat
BY SMT

(* SumsUp over finite sets, as the community modules define them: a function   *)
(* on subsets that takes one chosen element off at a time.                  *)
AnyOf(T) == CHOOSE x \in T : TRUE

SumsUp(G, g, S) ==
    G = [T \in SUBSET S |-> IF T = {} THEN 0 ELSE g[AnyOf(T)] + G[T \ {AnyOf(T)}]]

(* The argument of every lemma below: a set of subsets without a minimal    *)
(* member is empty.                                                        *)
LEMMA NoMinimalCounterexample ==
    ASSUME NEW S, IsFiniteSet(S), NEW Bad \in SUBSET SUBSET S,
           \A T \in Bad : \E U \in Bad : U \subseteq T /\ U # T
    PROVE  Bad = {}
<1>1. SUFFICES ASSUME Bad # {} PROVE FALSE
  OBVIOUS
<1>2. IsWellFoundedOn(StrictSubsetOrdering(S), SUBSET S)
  <2>1. FiniteSubsetsOf(S) = SUBSET S
    BY FS_FiniteSubsetsOfFinite
  <2>2. IsWellFoundedOn(StrictSubsetOrdering(S), FiniteSubsetsOf(S))
    BY FS_StrictSubsetOrderingWellFounded
  <2>3. QED BY <2>1, <2>2
<1>3. PICK T \in Bad : \A U \in Bad : <<U, T>> \notin StrictSubsetOrdering(S)
  BY <1>1, <1>2, WFMin
<1>4. PICK U \in Bad : U \subseteq T /\ U # T
  BY <1>3
<1>5. <<U, T>> \in StrictSubsetOrdering(S)
  BY <1>4 DEF StrictSubsetOrdering
<1>6. QED BY <1>3, <1>4, <1>5

(* A function that sums is determined by the summands. *)
LEMMA SumsAgree ==
    ASSUME NEW S, NEW R, NEW g, NEW h, NEW G, NEW H, IsFiniteSet(S), S \subseteq R,
           SumsUp(G, g, S), SumsUp(H, h, R), \A x \in S : g[x] = h[x]
    PROVE  \A T \in SUBSET S : G[T] = H[T]
<1> DEFINE Bad == {T \in SUBSET S : G[T] # H[T]}
<1>1. ASSUME NEW T \in Bad
      PROVE  \E U \in Bad : U \subseteq T /\ U # T
  <2>1. T \in SUBSET S /\ T \in SUBSET R /\ G[T] # H[T]
    OBVIOUS
  <2>2. T # {}
    BY <2>1 DEF SumsUp
  <2>3. AnyOf(T) \in T
    BY <2>2 DEF AnyOf
  <2> DEFINE U == T \ {AnyOf(T)}
  <2>4. G[T] = g[AnyOf(T)] + G[U] /\ H[T] = h[AnyOf(T)] + H[U]
    BY <2>1, <2>2 DEF SumsUp
  <2>5. G[U] # H[U] /\ U \in SUBSET S
    BY <2>1, <2>3, <2>4
  <2>6. U \in Bad /\ U \subseteq T /\ U # T
    BY <2>3, <2>5
  <2>7. QED BY <2>6
<1> HIDE DEF Bad
<1>2. Bad \in SUBSET SUBSET S
  BY DEF Bad
<1>3. Bad = {}
  BY <1>1, <1>2, NoMinimalCounterexample
<1>4. QED BY <1>3 DEF Bad

(* There is one. *)
LEMMA SumsExist ==
    ASSUME NEW S, IsFiniteSet(S), NEW g
    PROVE  \E G : SumsUp(G, g, S)
<1> DEFINE Bad == {T \in SUBSET S : ~ \E G : SumsUp(G, g, T)}
<1>1. ASSUME NEW T \in Bad, ~ \E U \in Bad : U \subseteq T /\ U # T
      PROVE  FALSE
  <2> DEFINE Of(U) == CHOOSE G : SumsUp(G, g, U)
             V(U) == Of(U)[U]
             W == [U \in SUBSET T |-> IF U = {} THEN 0 ELSE g[AnyOf(U)] + V(U \ {AnyOf(U)})]
  <2>1. T \in SUBSET S
    OBVIOUS
  <2>2. ASSUME NEW U \in SUBSET T, U # T
        PROVE  SumsUp(Of(U), g, U)
    <3>1. \E G : SumsUp(G, g, U)
      BY <1>1, <2>1, <2>2
    <3>2. QED BY <3>1
  <2> HIDE DEF Of
  <2>3. ASSUME NEW U \in SUBSET T, U # T
        PROVE  W[U] = V(U)
    <3>1. SumsUp(Of(U), g, U)
      BY <2>2, <2>3
    <3>2. CASE U = {}
      BY <3>1, <3>2 DEF SumsUp
    <3>3. CASE U # {}
      <4>1. AnyOf(U) \in U
        BY <3>3 DEF AnyOf
      <4> DEFINE P == U \ {AnyOf(U)}
      <4>2. P \in SUBSET T /\ P # T /\ P \subseteq U /\ IsFiniteSet(P)
        BY <4>1, <2>1, <2>3, FS_Subset
      <4>3. SumsUp(Of(P), g, P)
        BY <4>2, <2>2
      <4> HIDE DEF P
      <4>4. Of(P)[P] = Of(U)[P]
        BY <4>2, <4>3, <3>1, SumsAgree
      <4>5. V(U) = g[AnyOf(U)] + Of(U)[P]
        BY <3>1, <3>3 DEF SumsUp, P
      <4>6. W[U] = g[AnyOf(U)] + V(P)
        BY <3>3 DEF P
      <4>7. QED BY <4>4, <4>5, <4>6
    <3>4. QED BY <3>2, <3>3
  <2>4. ASSUME NEW U \in SUBSET T
        PROVE  W[U] = IF U = {} THEN 0 ELSE g[AnyOf(U)] + W[U \ {AnyOf(U)}]
    <3>1. CASE U = {}
      BY <3>1
    <3>2. CASE U # {}
      <4>1. AnyOf(U) \in U
        BY <3>2 DEF AnyOf
      <4>2. U \ {AnyOf(U)} \in SUBSET T /\ U \ {AnyOf(U)} # T
        BY <4>1
      <4>3. W[U \ {AnyOf(U)}] = V(U \ {AnyOf(U)})
        BY <4>2, <2>3
      <4>4. W[U] = g[AnyOf(U)] + V(U \ {AnyOf(U)})
        BY <3>2
      <4> HIDE DEF W
      <4>5. QED BY <3>2, <4>3, <4>4
    <3>3. QED BY <3>1, <3>2
  <2>5. W = [U \in SUBSET T |-> W[U]]
    OBVIOUS
  <2> HIDE DEF W
  <2>6. SumsUp(W, g, T)
    BY <2>4, <2>5 DEF SumsUp
  <2>7. QED BY <2>6
<1>2. \A T \in Bad : \E U \in Bad : U \subseteq T /\ U # T
  BY <1>1
<1> HIDE DEF Bad
<1>3. Bad \in SUBSET SUBSET S
  BY DEF Bad
<1>4. Bad = {}
  BY <1>2, <1>3, NoMinimalCounterexample
<1>5. QED BY <1>4 DEF Bad

(* It takes off any element, not only the chosen one. *)
LEMMA SumsTakeAny ==
    ASSUME NEW S, IsFiniteSet(S), NEW g, \A x \in S : g[x] \in Int, NEW G, SumsUp(G, g, S)
    PROVE  \A T \in SUBSET S : G[T] \in Int /\ \A x \in T : G[T] = g[x] + G[T \ {x}]
<1> DEFINE Good(T) == G[T] \in Int /\ \A x \in T : G[T] = g[x] + G[T \ {x}]
           Bad == {T \in SUBSET S : ~Good(T)}
<1>1. ASSUME NEW T \in Bad, \A U \in SUBSET T : U # T => Good(U)
      PROVE  FALSE
  <2>1. T \in SUBSET S
    OBVIOUS
  <2>2. T # {}
    BY <2>1 DEF SumsUp
  <2> DEFINE c == AnyOf(T)
  <2>3. c \in T
    BY <2>2 DEF AnyOf
  <2>4. G[T] = g[c] + G[T \ {c}]
    BY <2>1, <2>2 DEF SumsUp
  <2> HIDE DEF c
  <2>5. Good(T \ {c}) /\ g[c] \in Int
    BY <1>1, <2>1, <2>3
  <2>6. ASSUME NEW x \in T
        PROVE  G[T] = g[x] + G[T \ {x}]
    <3>1. CASE x = c
      BY <2>4, <3>1
    <3>2. CASE x # c
      <4>1. Good(T \ {x}) /\ g[x] \in Int
        BY <1>1, <2>1
      <4>2. (T \ {c}) \ {x} = (T \ {x}) \ {c} /\ x \in T \ {c} /\ c \in T \ {x}
        BY <2>3, <3>2
      <4>3. G[T \ {c}] = g[x] + G[(T \ {c}) \ {x}]
        BY <2>5, <4>2
      <4>4. G[T \ {x}] = g[c] + G[(T \ {c}) \ {x}]
        BY <4>1, <4>2
      <4>5. Good((T \ {c}) \ {x})
        <5>1. (T \ {c}) \ {x} \in SUBSET T /\ (T \ {c}) \ {x} # T
          BY <2>3
        <5> HIDE DEF Good
        <5>2. QED BY <1>1, <5>1
      <4>6. QED BY <2>4, <2>5, <4>1, <4>3, <4>4, <4>5
    <3>3. QED BY <3>1, <3>2
  <2>7. G[T] \in Int
    BY <2>4, <2>5
  <2>8. ~Good(T)
    OBVIOUS
  <2>9. QED BY <2>6, <2>7, <2>8
<1>2. \A T \in Bad : \E U \in Bad : U \subseteq T /\ U # T
  <2> HIDE DEF Good
  <2>1. QED BY <1>1
<1> HIDE DEF Bad
<1>3. Bad \in SUBSET SUBSET S
  BY DEF Bad
<1>4. Bad = {}
  BY <1>2, <1>3, NoMinimalCounterexample
<1>5. QED BY <1>4 DEF Bad

-----------------------------------------------------------------------------
(* What that says of the sums themselves. *)
LEMMA SumIsSums ==
    ASSUME NEW S, IsFiniteSet(S), NEW g, NEW G, SumsUp(G, g, S)
    PROVE  \A T \in SUBSET S : SumFunctionOnSet(g, T) = G[T]
<1> SUFFICES ASSUME NEW T \in SUBSET S PROVE SumFunctionOnSet(g, T) = G[T]
  OBVIOUS
<1>1. SumFunctionOnSet(g, T) = (CHOOSE H : SumsUp(H, g, T))[T]
  BY DEF SumFunctionOnSet, FoldFunctionOnSet, MapThenFoldSet, SumsUp, AnyOf
<1>2. IsFiniteSet(T)
  BY FS_Subset
<1>3. PICK H : H = (CHOOSE K : SumsUp(K, g, T)) /\ SumsUp(H, g, T)
  BY <1>2, SumsExist
<1>4. H[T] = G[T]
  BY <1>2, <1>3, SumsAgree
<1>5. QED BY <1>1, <1>3, <1>4

LEMMA SumOfNone ==
    ASSUME NEW g
    PROVE  SumFunctionOnSet(g, {}) = 0
<1>1. IsFiniteSet({})
  BY FS_EmptySet
<1>2. PICK G : SumsUp(G, g, {})
  BY <1>1, SumsExist
<1>3. G[{}] = 0
  BY <1>2 DEF SumsUp
<1>4. QED BY <1>1, <1>2, <1>3, SumIsSums

LEMMA SumOfSome ==
    ASSUME NEW S, IsFiniteSet(S), NEW g, \A x \in S : g[x] \in Int
    PROVE  /\ SumFunctionOnSet(g, S) \in Int
           /\ \A x \in S : SumFunctionOnSet(g, S) = g[x] + SumFunctionOnSet(g, S \ {x})
<1>1. PICK G : SumsUp(G, g, S)
  BY SumsExist
<1>2. G[S] \in Int /\ \A x \in S : G[S] = g[x] + G[S \ {x}]
  BY <1>1, SumsTakeAny
<1>3. \A T \in SUBSET S : SumFunctionOnSet(g, T) = G[T]
  BY <1>1, SumIsSums
<1>4. QED BY <1>2, <1>3

(* Only the summands matter. *)
LEMMA SumOfEqual ==
    ASSUME NEW S, IsFiniteSet(S), NEW g, NEW h, \A x \in S : g[x] = h[x]
    PROVE  SumFunctionOnSet(g, S) = SumFunctionOnSet(h, S)
<1>1. PICK G : SumsUp(G, g, S)
  BY SumsExist
<1>2. PICK H : SumsUp(H, h, S)
  BY SumsExist
<1>3. G[S] = H[S]
  BY <1>1, <1>2, SumsAgree
<1>4. QED BY <1>1, <1>2, <1>3, SumIsSums

(* One summand replaced. *)
LEMMA SumWithOne ==
    ASSUME NEW S, IsFiniteSet(S), NEW g, NEW h, NEW x \in S,
           \A y \in S : g[y] \in Int /\ h[y] \in Int,
           \A y \in S \ {x} : g[y] = h[y]
    PROVE  SumFunctionOnSet(h, S) = SumFunctionOnSet(g, S) + h[x] - g[x]
<1>1. SumFunctionOnSet(g, S) = g[x] + SumFunctionOnSet(g, S \ {x})
  BY SumOfSome
<1>2. SumFunctionOnSet(h, S) = h[x] + SumFunctionOnSet(h, S \ {x})
  BY SumOfSome
<1>3. IsFiniteSet(S \ {x})
  BY FS_Subset
<1>4. SumFunctionOnSet(g, S \ {x}) = SumFunctionOnSet(h, S \ {x})
  BY <1>3, SumOfEqual
<1>5. SumFunctionOnSet(g, S \ {x}) \in Int
  BY <1>3, SumOfSome
<1>6. QED BY <1>1, <1>2, <1>4, <1>5

(* A sum is monotone in its summands. *)
LEMMA SumMonotone ==
    ASSUME NEW S, IsFiniteSet(S), NEW g, NEW h, 
           \A x \in S : g[x] \in Int /\ h[x] \in Int /\ g[x] <= h[x]
    PROVE  SumFunctionOnSet(g, S) <= SumFunctionOnSet(h, S)
<1> DEFINE Le(T) == SumFunctionOnSet(g, T) <= SumFunctionOnSet(h, T)
           Bad == {T \in SUBSET S : ~Le(T)}
<1>1. ASSUME NEW T \in Bad, \A U \in SUBSET T : U # T => Le(U)
      PROVE  FALSE
  <2>1. T \in SUBSET S /\ IsFiniteSet(T)
    BY FS_Subset
  <2>2. T # {}
    <3>1. CASE T = {}
      <4>1. SumFunctionOnSet(g, T) = 0 /\ SumFunctionOnSet(h, T) = 0
        BY <3>1, SumOfNone
      <4>2. QED BY <4>1
    <3>2. QED BY <3>1
  <2>3. PICK x \in T : TRUE
    BY <2>2
  <2>4. Le(T \ {x}) /\ IsFiniteSet(T \ {x})
    BY <1>1, <2>1, <2>3, FS_Subset
  <2>5. SumFunctionOnSet(g, T) = g[x] + SumFunctionOnSet(g, T \ {x})
    BY <2>1, <2>3, SumOfSome
  <2>6. SumFunctionOnSet(h, T) = h[x] + SumFunctionOnSet(h, T \ {x})
    BY <2>1, <2>3, SumOfSome
  <2>7. SumFunctionOnSet(g, T \ {x}) \in Int /\ SumFunctionOnSet(h, T \ {x}) \in Int
    <3>1. \A y \in T \ {x} : g[y] \in Int /\ h[y] \in Int
      BY <2>1
    <3>2. QED BY <2>4, <3>1, SumOfSome
  <2>8. g[x] \in Int /\ h[x] \in Int /\ g[x] <= h[x]
    BY <2>1, <2>3
  <2>9. QED BY <2>4, <2>5, <2>6, <2>7, <2>8
<1>2. \A T \in Bad : \E U \in Bad : U \subseteq T /\ U # T
  <2> HIDE DEF Le
  <2>1. QED BY <1>1
<1> HIDE DEF Bad
<1>3. Bad \in SUBSET SUBSET S
  BY DEF Bad
<1>4. Bad = {}
  BY <1>2, <1>3, NoMinimalCounterexample
<1>5. QED BY <1>4 DEF Bad

(* A sum of naturals is a natural. *)
LEMMA SumIsNat ==
    ASSUME NEW S, IsFiniteSet(S), NEW g, \A x \in S : g[x] \in Nat
    PROVE  SumFunctionOnSet(g, S) \in Nat
<1> DEFINE Ok(T) == SumFunctionOnSet(g, T) \in Nat
           Bad == {T \in SUBSET S : ~Ok(T)}
<1>1. ASSUME NEW T \in Bad, \A U \in SUBSET T : U # T => Ok(U)
      PROVE  FALSE
  <2>1. T \in SUBSET S /\ IsFiniteSet(T) /\ ~Ok(T)
    BY FS_Subset
  <2>2. T # {}
    <3>1. CASE T = {}
      <4>1. SumFunctionOnSet(g, T) = 0
        BY <3>1, SumOfNone
      <4>2. QED BY <2>1, <4>1
    <3>2. QED BY <3>1
  <2>3. PICK x \in T : TRUE
    BY <2>2
  <2>4. Ok(T \ {x})
    BY <1>1, <2>3
  <2>5. SumFunctionOnSet(g, T) = g[x] + SumFunctionOnSet(g, T \ {x})
    BY <2>1, <2>3, SumOfSome
  <2>6. g[x] \in Nat
    BY <2>1, <2>3
  <2>7. QED BY <2>1, <2>4, <2>5, <2>6
<1>2. \A T \in Bad : \E U \in Bad : U \subseteq T /\ U # T
  <2> HIDE DEF Ok
  <2>1. QED BY <1>1
<1> HIDE DEF Bad
<1>3. Bad \in SUBSET SUBSET S
  BY DEF Bad
<1>4. Bad = {}
  BY <1>2, <1>3, NoMinimalCounterexample
<1>5. QED BY <1>4 DEF Bad

(* Summands that each have a place of their own among others sum to no more. *)
LEMMA SumEmbedded ==
    ASSUME NEW S, IsFiniteSet(S), NEW R, IsFiniteSet(R), NEW g, NEW h, NEW at,
           \A x \in S : at[x] \in R /\ g[x] <= h[at[x]] /\ g[x] \in Nat,
           \A x, y \in S : at[x] = at[y] => x = y,
           \A r \in R : h[r] \in Nat
    PROVE  SumFunctionOnSet(g, S) <= SumFunctionOnSet(h, R)
<1> DEFINE Fits(T, P) == (\A x \in T : at[x] \in P) =>
                             SumFunctionOnSet(g, T) <= SumFunctionOnSet(h, P)
           Ok(T) == \A P \in SUBSET R : Fits(T, P)
           Bad == {T \in SUBSET S : ~Ok(T)}
<1>1. ASSUME NEW T \in Bad, \A U \in SUBSET T : U # T => Ok(U)
      PROVE  FALSE
  <2>1. T \in SUBSET S /\ IsFiniteSet(T) /\ ~Ok(T)
    BY FS_Subset
  <2>2. PICK P \in SUBSET R : (\A x \in T : at[x] \in P)
                              /\ ~(SumFunctionOnSet(g, T) <= SumFunctionOnSet(h, P))
    BY <2>1
  <2>3. IsFiniteSet(P) /\ \A r \in P : h[r] \in Nat
    BY <2>2, FS_Subset
  <2>4. T # {}
    <3>1. CASE T = {}
      <4>1. SumFunctionOnSet(g, T) = 0 /\ SumFunctionOnSet(h, P) \in Nat
        BY <2>3, <3>1, SumOfNone, SumIsNat
      <4>2. QED BY <2>2, <4>1
    <3>2. QED BY <3>1
  <2>5. PICK x \in T : TRUE
    BY <2>4
  <2> DEFINE U == T \ {x}
             Q == P \ {at[x]}
  <2>6. Ok(U) /\ IsFiniteSet(U)
    BY <1>1, <2>1, <2>5, FS_Subset
  <2>7. Q \in SUBSET R /\ IsFiniteSet(Q) /\ \A y \in U : at[y] \in Q
    BY <2>1, <2>2, <2>3, <2>5, FS_Subset
  <2> HIDE DEF U, Q
  <2>8. SumFunctionOnSet(g, U) <= SumFunctionOnSet(h, Q)
    BY <2>6, <2>7
  <2>9. SumFunctionOnSet(g, T) = g[x] + SumFunctionOnSet(g, U)
    <3>1. \A y \in T : g[y] \in Int
      BY <2>1
    <3>2. QED BY <2>1, <2>5, <3>1, SumOfSome DEF U
  <2>10. SumFunctionOnSet(h, P) = h[at[x]] + SumFunctionOnSet(h, Q)
    <3>1. \A r \in P : h[r] \in Int
      BY <2>3
    <3>2. at[x] \in P
      BY <2>2, <2>5
    <3>3. QED BY <2>3, <3>1, <3>2, SumOfSome DEF Q
  <2>11. g[x] \in Nat /\ h[at[x]] \in Nat /\ g[x] <= h[at[x]]
    BY <2>1, <2>5
  <2>12. SumFunctionOnSet(g, U) \in Nat /\ SumFunctionOnSet(h, Q) \in Nat
    <3>1. \A y \in U : g[y] \in Nat
      BY <2>1 DEF U
    <3>2. \A r \in Q : h[r] \in Nat
      BY <2>7
    <3>3. QED BY <2>6, <2>7, <3>1, <3>2, SumIsNat
  <2>13. QED BY <2>2, <2>8, <2>9, <2>10, <2>11, <2>12
<1>2. \A T \in Bad : \E U \in Bad : U \subseteq T /\ U # T
  <2> HIDE DEF Ok
  <2>1. QED BY <1>1
<1> HIDE DEF Bad
<1>3. Bad \in SUBSET SUBSET S
  BY DEF Bad
<1>4. Bad = {}
  BY <1>2, <1>3, NoMinimalCounterexample
<1>5. Ok(S)
  BY <1>4 DEF Bad
<1>6. QED BY <1>5

(* With the summands of some elements set to zero, what is left is the sum    *)
(* less theirs.                                                            *)
LEMMA SumLessSome ==
    ASSUME NEW S, IsFiniteSet(S), NEW g, NEW h, NEW R \in SUBSET S,
           \A x \in S : g[x] \in Int /\ h[x] = IF x \in R THEN 0 ELSE g[x]
    PROVE  SumFunctionOnSet(h, S) = SumFunctionOnSet(g, S) - SumFunctionOnSet(g, R)
<1> DEFINE Ok(T) == SumFunctionOnSet(h, T)
                      = SumFunctionOnSet(g, T) - SumFunctionOnSet(g, T \cap R)
           Bad == {T \in SUBSET S : ~Ok(T)}
<1>1. ASSUME NEW T \in Bad, \A U \in SUBSET T : U # T => Ok(U)
      PROVE  FALSE
  <2>1. T \in SUBSET S /\ IsFiniteSet(T) /\ ~Ok(T)
    BY FS_Subset
  <2>2. T # {}
    <3>1. CASE T = {}
      <4>1. SumFunctionOnSet(g, T) = 0 /\ SumFunctionOnSet(h, T) = 0 /\ T \cap R = T
        BY <3>1, SumOfNone
      <4>2. QED BY <2>1, <4>1
    <3>2. QED BY <3>1
  <2>3. PICK x \in T : TRUE
    BY <2>2
  <2> DEFINE U == T \ {x}
  <2>4. Ok(U) /\ IsFiniteSet(U) /\ IsFiniteSet(T \cap R) /\ IsFiniteSet(U \cap R)
    BY <1>1, <2>1, <2>3, FS_Subset
  <2>5. \A y \in T : g[y] \in Int /\ h[y] \in Int
    BY <2>1
  <2>6. SumFunctionOnSet(g, T) = g[x] + SumFunctionOnSet(g, U)
    BY <2>1, <2>3, <2>5, SumOfSome
  <2>7. SumFunctionOnSet(h, T) = h[x] + SumFunctionOnSet(h, U)
    BY <2>1, <2>3, <2>5, SumOfSome
  <2>8. SumFunctionOnSet(g, U) \in Int /\ SumFunctionOnSet(g, U \cap R) \in Int
    BY <2>4, <2>5, SumOfSome
  <2>9. SumFunctionOnSet(g, T \cap R)
          = (IF x \in R THEN g[x] ELSE 0) + SumFunctionOnSet(g, U \cap R)
    <3>1. CASE x \in R
      <4>1. x \in T \cap R /\ (T \cap R) \ {x} = U \cap R
        BY <2>3, <3>1
      <4>2. \A y \in T \cap R : g[y] \in Int
        BY <2>5
      <4> HIDE DEF U
      <4>3. SumFunctionOnSet(g, T \cap R) = g[x] + SumFunctionOnSet(g, U \cap R)
        BY <2>4, <4>1, <4>2, SumOfSome
      <4>4. QED BY <3>1, <4>3
    <3>2. CASE x \notin R
      <4>1. T \cap R = U \cap R
        BY <3>2
      <4>2. SumFunctionOnSet(g, T \cap R) = SumFunctionOnSet(g, U \cap R)
        BY <4>1
      <4>3. QED BY <2>8, <3>2, <4>2
    <3>3. QED BY <3>1, <3>2
  <2>10. h[x] = IF x \in R THEN 0 ELSE g[x]
    BY <2>1, <2>3
  <2>11. g[x] \in Int
    BY <2>3, <2>5
  <2>12. SumFunctionOnSet(h, U) = SumFunctionOnSet(g, U) - SumFunctionOnSet(g, U \cap R)
    BY <2>4
  <2> HIDE DEF U
  <2>13. Ok(T)
    <3>1. CASE x \in R
      BY <2>6, <2>7, <2>8, <2>9, <2>10, <2>11, <2>12, <3>1
    <3>2. CASE x \notin R
      BY <2>6, <2>7, <2>8, <2>9, <2>10, <2>11, <2>12, <3>2
    <3>3. QED BY <3>1, <3>2
  <2>14. QED BY <2>1, <2>13
<1>2. \A T \in Bad : \E U \in Bad : U \subseteq T /\ U # T
  <2> HIDE DEF Ok
  <2>1. QED BY <1>1
<1> HIDE DEF Bad
<1>3. Bad \in SUBSET SUBSET S
  BY DEF Bad
<1>4. Bad = {}
  BY <1>2, <1>3, NoMinimalCounterexample
<1>5. Ok(S) /\ S \cap R = R
  BY <1>4 DEF Bad
<1>6. QED BY <1>5

(* A sum of zeros is zero. *)
LEMMA SumOfZeros ==
    ASSUME NEW S, IsFiniteSet(S), NEW g, \A x \in S : g[x] = 0
    PROVE  SumFunctionOnSet(g, S) = 0
<1>1. \A x \in S : g[x] \in Int
  OBVIOUS
<1>2. SumFunctionOnSet(g, S) \in Int
  BY <1>1, SumOfSome
<1>3. SumFunctionOnSet(g, S) = SumFunctionOnSet(g, S) - SumFunctionOnSet(g, S)
  <2>1. \A x \in S : g[x] \in Int /\ g[x] = IF x \in S THEN 0 ELSE g[x]
    OBVIOUS
  <2>2. S \in SUBSET S
    OBVIOUS
  <2>3. QED BY <2>1, <2>2, SumLessSome
<1>4. QED BY <1>2, <1>3

(* A sum of differences is the difference of the sums. *)
LEMMA SumOfDifferences ==
    ASSUME NEW S, IsFiniteSet(S), NEW g, NEW h, NEW d,
           \A x \in S : g[x] \in Int /\ h[x] \in Int /\ d[x] = g[x] - h[x]
    PROVE  SumFunctionOnSet(d, S) = SumFunctionOnSet(g, S) - SumFunctionOnSet(h, S)
<1> DEFINE Ok(T) == SumFunctionOnSet(d, T) = SumFunctionOnSet(g, T) - SumFunctionOnSet(h, T)
           Bad == {T \in SUBSET S : ~Ok(T)}
<1>1. ASSUME NEW T \in Bad, \A U \in SUBSET T : U # T => Ok(U)
      PROVE  FALSE
  <2>1. T \in SUBSET S /\ IsFiniteSet(T) /\ ~Ok(T)
    BY FS_Subset
  <2>2. T # {}
    <3>1. CASE T = {}
      <4>1. SumFunctionOnSet(g, T) = 0 /\ SumFunctionOnSet(h, T) = 0 /\ SumFunctionOnSet(d, T) = 0
        BY <3>1, SumOfNone
      <4>2. QED BY <2>1, <4>1
    <3>2. QED BY <3>1
  <2>3. PICK x \in T : TRUE
    BY <2>2
  <2> DEFINE U == T \ {x}
  <2>4. Ok(U) /\ IsFiniteSet(U)
    BY <1>1, <2>1, <2>3, FS_Subset
  <2>5. \A y \in T : g[y] \in Int /\ h[y] \in Int /\ d[y] \in Int
    BY <2>1
  <2>6. SumFunctionOnSet(g, T) = g[x] + SumFunctionOnSet(g, U)
    BY <2>1, <2>3, <2>5, SumOfSome
  <2>7. SumFunctionOnSet(h, T) = h[x] + SumFunctionOnSet(h, U)
    BY <2>1, <2>3, <2>5, SumOfSome
  <2>8. SumFunctionOnSet(d, T) = d[x] + SumFunctionOnSet(d, U)
    BY <2>1, <2>3, <2>5, SumOfSome
  <2>9. SumFunctionOnSet(g, U) \in Int /\ SumFunctionOnSet(h, U) \in Int
    BY <2>4, <2>5, SumOfSome
  <2>10. g[x] \in Int /\ h[x] \in Int /\ d[x] = g[x] - h[x]
    BY <2>1, <2>3
  <2>11. SumFunctionOnSet(d, U) = SumFunctionOnSet(g, U) - SumFunctionOnSet(h, U)
    BY <2>4
  <2> HIDE DEF U
  <2>12. Ok(T)
    BY <2>6, <2>7, <2>8, <2>9, <2>10, <2>11
  <2>13. QED BY <2>1, <2>12
<1>2. \A T \in Bad : \E U \in Bad : U \subseteq T /\ U # T
  <2> HIDE DEF Ok
  <2>1. QED BY <1>1
<1> HIDE DEF Bad
<1>3. Bad \in SUBSET SUBSET S
  BY DEF Bad
<1>4. Bad = {}
  BY <1>2, <1>3, NoMinimalCounterexample
<1>5. Ok(S)
  BY <1>4 DEF Bad
<1>6. QED BY <1>5

(* The values of a finite function are finitely many. *)
LEMMA ValuesFinite ==
    ASSUME NEW S, IsFiniteSet(S), NEW g
    PROVE  IsFiniteSet({g[x] : x \in S})
<1> DEFINE T == {g[x] : x \in S}
           f == [x \in S |-> g[x]]
<1>1. f \in Surjection(S, T)
  BY DEF Surjection
<1> HIDE DEF f, T
<1>2. IsFiniteSet(T)
  BY <1>1, FS_Surjection
<1>3. QED BY <1>2 DEF T

(* The sum of as many times the same. *)
LEMMA SumOfConstant ==
    ASSUME NEW S, IsFiniteSet(S), NEW c \in Int
    PROVE  SumFunctionOnSet([x \in S |-> c], S) = Cardinality(S) * c
<1> DEFINE g == [x \in S |-> c]
           Ok(T) == SumFunctionOnSet(g, T) = Cardinality(T) * c
           Bad == {T \in SUBSET S : ~Ok(T)}
<1>1. ASSUME NEW T \in Bad, \A U \in SUBSET T : U # T => Ok(U)
      PROVE  FALSE
  <2>1. T \in SUBSET S /\ IsFiniteSet(T) /\ ~Ok(T)
    BY FS_Subset
  <2>2. T # {}
    <3>1. CASE T = {}
      <4>1. SumFunctionOnSet(g, T) = 0 /\ Cardinality(T) = 0
        BY <3>1, SumOfNone, FS_EmptySet
      <4>2. QED BY <2>1, <4>1
    <3>2. QED BY <3>1
  <2>3. PICK x \in T : TRUE
    BY <2>2
  <2>4. Ok(T \ {x})
    BY <1>1, <2>3
  <2>5. SumFunctionOnSet(g, T) = g[x] + SumFunctionOnSet(g, T \ {x})
    BY <2>1, <2>3, SumOfSome
  <2>6. g[x] = c
    BY <2>1, <2>3
  <2>7. Cardinality(T \ {x}) = Cardinality(T) - 1 /\ Cardinality(T) \in Nat
    BY <2>1, <2>3, FS_RemoveElement, FS_CardinalityType
  <2>8. (Cardinality(T) - 1) * c + c = Cardinality(T) * c
    <3>1. \A n \in Nat : (n - 1) * c + c = n * c
      BY SMT
    <3>2. QED BY <2>7, <3>1
  <2>9. QED BY <2>1, <2>4, <2>5, <2>6, <2>7, <2>8
<1>2. \A T \in Bad : \E U \in Bad : U \subseteq T /\ U # T
  <2> HIDE DEF Ok
  <2>1. QED BY <1>1
<1> HIDE DEF Bad
<1>3. Bad \in SUBSET SUBSET S
  BY DEF Bad
<1>4. Bad = {}
  BY <1>2, <1>3, NoMinimalCounterexample
<1>5. QED BY <1>4 DEF Bad

(* A mean, rounded down, lies between two of the values it is taken of. *)
LEMMA MeanBetween ==
    ASSUME NEW S, IsFiniteSet(S), S # {}, NEW g, \A x \in S : g[x] \in Nat
    PROVE  LET mean == SumFunctionOnSet(g, S) \div Cardinality(S)
           IN  mean \in Nat /\ \E x, y \in S : g[x] <= mean /\ mean <= g[y]
<1> DEFINE V    == {g[x] : x \in S}
           n    == Cardinality(S)
           sum  == SumFunctionOnSet(g, S)
           mean == sum \div n
<1>1. PICK a \in V, b \in V : \A x \in S : a <= g[x] /\ g[x] <= b
  <2>1. V \in SUBSET Nat /\ V # {} /\ IsFiniteSet(V) /\ \A x \in S : g[x] \in V
    BY ValuesFinite
  <2> HIDE DEF V
  <2>2. QED BY <2>1, GreatestAndLeast
<1>2. a \in Nat /\ b \in Nat
  OBVIOUS
<1>3. n \in Nat \ {0}
  BY FS_CardinalityType, FS_EmptySet
<1>4. sum \in Int
  BY SumOfSome
<1>5. n * a <= sum /\ sum <= n * b
  <2> DEFINE A == [x \in S |-> a]
             B == [x \in S |-> b]
  <2> HIDE DEF V
  <2>1. \A x \in S : /\ A[x] \in Int /\ B[x] \in Int /\ g[x] \in Int
                     /\ A[x] <= g[x] /\ g[x] <= B[x]
    BY <1>1, <1>2
  <2>2. SumFunctionOnSet(A, S) = n * a
    <3>1. a \in Int
      BY <1>2
    <3>2. QED BY <3>1, SumOfConstant
  <2>3. SumFunctionOnSet(B, S) = n * b
    <3>1. b \in Int
      BY <1>2
    <3>2. QED BY <3>1, SumOfConstant
  <2> HIDE DEF A, B, n
  <2>4. SumFunctionOnSet(A, S) <= sum /\ sum <= SumFunctionOnSet(B, S)
    BY <2>1, SumMonotone
  <2>5. QED BY <2>2, <2>3, <2>4
<1> HIDE DEF n, sum
<1>6. mean \in Int /\ n * mean <= sum /\ sum < n * mean + n
  BY <1>3, <1>4, Quotient
<1> HIDE DEF mean
<1>7. mean <= b
  <2>1. n * mean \in Int /\ n * b \in Int
    BY <1>2, <1>3, <1>6, SMT
  <2>2. n * mean <= n * b
    BY <1>4, <1>5, <1>6, <2>1
  <2>3. QED BY <1>2, <1>3, <1>6, <2>2, Cancelling
<1>8. a <= mean
  <2>1. n * mean + n = n * (mean + 1) /\ n * (mean + 1) \in Int /\ n * a \in Int
    BY <1>2, <1>3, <1>6, SMT
  <2>2. CASE mean + 1 <= a
    <3>1. n * (mean + 1) <= n * a
      BY <1>2, <1>3, <1>6, <2>2, Scaling
    <3>2. QED BY <1>4, <1>5, <1>6, <2>1, <3>1
  <2>3. QED BY <1>2, <1>6, <2>2
<1>9. QED BY <1>1, <1>2, <1>6, <1>7, <1>8 DEF mean, n, sum

(* A quotient grows with its dividend. *)
LEMMA Divided ==
    ASSUME NEW a \in Int, NEW b \in Int, NEW d \in Nat \ {0}, a <= b
    PROVE  a \div d <= b \div d
<1> DEFINE p == a \div d
           q == b \div d
<1>1. p \in Int /\ q \in Int /\ d * p <= a /\ b < d * q + d
  BY Quotient
<1> HIDE DEF p, q
<1>2. d * p <= d * (q + 1) - 1
  <2>1. d * (q + 1) = d * q + d
    BY <1>1, SMT
  <2>2. d * p \in Int /\ d * q \in Int
    BY <1>1, SMT
  <2>3. QED BY <1>1, <2>1, <2>2
<1>3. ~(p >= q + 1)
  <2> SUFFICES ASSUME q + 1 <= p PROVE FALSE
    BY <1>1
  <2>1. d * (q + 1) <= d * p
    BY <1>1, Scaling
  <2>2. d * (q + 1) \in Int /\ d * p \in Int
    BY <1>1, SMT
  <2>3. QED BY <1>2, <2>1, <2>2
<1>4. QED BY <1>1, <1>3 DEF p, q

(* A quotient reaches what its divisor times that reaches. *)
LEMMA QuotientReaches ==
    ASSUME NEW a \in Int, NEW d \in Nat \ {0}, NEW y \in Int
    PROVE  a \div d >= y <=> y * d <= a
<1> DEFINE g == a \div d
<1>1. g \in Int /\ d * g <= a /\ a < d * g + d
  BY Quotient
<1> HIDE DEF g
<1>2. y * d \in Int /\ d * g \in Int /\ d * y = y * d /\ d * (g + 1) = d * g + d
  BY <1>1, SMT
<1>3. ASSUME g >= y PROVE y * d <= a
  <2>1. d * y <= d * g
    BY <1>1, <1>3, Scaling
  <2>2. QED BY <1>1, <1>2, <2>1
<1>4. ASSUME ~(g >= y) PROVE ~(y * d <= a)
  <2>1. d * (g + 1) <= d * y
    BY <1>1, <1>4, Scaling
  <2>2. QED BY <1>1, <1>2, <2>1
<1>5. QED BY <1>3, <1>4 DEF g

(* The quotient rounded up: the least whole number that covers.             *)
LEMMA CeilCovers ==
    ASSUME NEW a \in Int, NEW d \in Nat \ {0}
    PROVE  /\ CeilDiv(a, d) \in Int
           /\ a <= d * CeilDiv(a, d) /\ d * CeilDiv(a, d) < a + d
<1> DEFINE g == (a + d - 1) \div d
<1>1. a + d - 1 \in Int
  OBVIOUS
<1>2. g \in Int /\ d * g <= a + d - 1 /\ a + d - 1 < d * g + d
  BY <1>1, Quotient
<1>3. d * g \in Int
  <2> HIDE DEF g
  <2> QED BY <1>2, SMT
<1> HIDE DEF g
<1>4. a <= d * g /\ d * g < a + d
  BY <1>2, <1>3
<1>5. QED BY <1>2, <1>4 DEF g, CeilDiv

LEMMA CeilReaches ==
    ASSUME NEW a \in Int, NEW d \in Nat \ {0}, NEW y \in Int
    PROVE  CeilDiv(a, d) <= y <=> a <= y * d
<1> DEFINE g == CeilDiv(a, d)
<1>1. g \in Int /\ a <= d * g /\ d * g < a + d
  BY CeilCovers
<1> HIDE DEF g
<1>2. y * d \in Int /\ d * g \in Int /\ d * y = y * d /\ d * (y + 1) = d * y + d
  BY <1>1, SMT
<1>3. ASSUME g <= y PROVE a <= y * d
  <2>1. d * g <= d * y
    BY <1>1, <1>3, Scaling
  <2>2. QED BY <1>1, <1>2, <2>1
<1>4. ASSUME ~(g <= y) PROVE ~(a <= y * d)
  <2>1. d * (y + 1) <= d * g
    BY <1>1, <1>4, Scaling
  <2>2. QED BY <1>1, <1>2, <2>1
<1>5. QED BY <1>3, <1>4 DEF g

-----------------------------------------------------------------------------
(* The curve. *)

(* A side of a row. *)
IsSide(side) ==
    /\ side.low \in Nat /\ side.high \in Nat /\ side.low <= side.high
    /\ side.cap \in Nat \ {0} /\ side.used \in 0 .. side.cap

(* Twice the capacity times the average price of q.                         *)
BidAverage(q, side) == 2 * side.high * side.cap - Span(side) * (2 * side.used + q)
AskAverage(q, side) == 2 * side.low * side.cap + Span(side) * (2 * side.used + q)

(* The average is a price of the ladder, and more trades at a worse one.     *)
LEMMA Averages ==
    ASSUME NEW side, IsSide(side), NEW q \in Nat, q <= Room(side)
    PROVE  LET c == 2 * side.cap IN
           /\ c \in Nat \ {0}
           /\ BidAverage(q, side) \in Nat /\ AskAverage(q, side) \in Nat
           /\ c * side.low <= BidAverage(q, side) /\ BidAverage(q, side) <= c * side.high
           /\ c * side.low <= AskAverage(q, side) /\ AskAverage(q, side) <= c * side.high
           /\ \A z \in 0 .. q : /\ BidAverage(q, side) <= BidAverage(z, side)
                                /\ AskAverage(z, side) <= AskAverage(q, side)
<1> DEFINE h == side.high
           l == side.low
           c == 2 * side.cap
           u == 2 * side.used
           s == Span(side)
<1>1. /\ h \in Nat /\ l \in Nat /\ c \in Nat \ {0} /\ u \in Nat /\ s \in Nat /\ h = l + s
      /\ u + q <= c /\ 2 * side.high * side.cap = c * h /\ 2 * side.low * side.cap = c * l
  <2>1. side.high \in Nat /\ side.low \in Nat /\ side.cap \in Nat \ {0} /\ side.used \in Nat
    BY DEF IsSide
  <2>2. s \in Nat /\ h = l + s /\ u + q <= c
    BY <2>1 DEF IsSide, Span, Room
  <2>3. 2 * side.high * side.cap = c * h /\ 2 * side.low * side.cap = c * l
    BY <2>1, SMT
  <2>4. QED BY <2>1, <2>2, <2>3
<1>2. BidAverage(q, side) = c * h - s * (u + q) /\ AskAverage(q, side) = c * l + s * (u + q)
  BY <1>1 DEF BidAverage, AskAverage
<1>3. ASSUME NEW z \in 0 .. q
      PROVE  BidAverage(z, side) = c * h - s * (u + z) /\ AskAverage(z, side) = c * l + s * (u + z)
  BY <1>1 DEF BidAverage, AskAverage
<1> HIDE DEF h, l, c, u, s
<1>4. /\ c * h = c * l + c * s /\ c * h \in Nat /\ c * l \in Nat /\ c * s \in Nat
      /\ s * (u + q) \in Nat /\ s * (u + q) <= c * s
  <2>1. c * h = c * l + c * s
    BY <1>1, SMT
  <2>2. c * h \in Nat /\ c * l \in Nat /\ c * s \in Nat /\ u + q \in Nat
    BY <1>1, ProductIsNat
  <2>3. s * (u + q) \in Nat /\ s * (u + q) <= s * c
    BY <1>1, <2>2, Scaling, ProductIsNat
  <2>4. s * c = c * s
    BY <1>1, SMT
  <2>5. QED BY <2>1, <2>2, <2>3, <2>4
<1>5. ASSUME NEW z \in 0 .. q PROVE s * (u + z) \in Nat /\ s * (u + z) <= s * (u + q)
  <2>1. u + z \in Nat /\ u + q \in Nat /\ u + z <= u + q
    BY <1>1
  <2>2. QED BY <1>1, <2>1, Scaling, ProductIsNat
<1>6. /\ BidAverage(q, side) \in Nat /\ AskAverage(q, side) \in Nat
      /\ c * l <= BidAverage(q, side) /\ BidAverage(q, side) <= c * h
      /\ c * l <= AskAverage(q, side) /\ AskAverage(q, side) <= c * h
  BY <1>2, <1>4
<1>7. ASSUME NEW z \in 0 .. q
      PROVE  BidAverage(q, side) <= BidAverage(z, side) /\ AskAverage(z, side) <= AskAverage(q, side)
  BY <1>2, <1>3, <1>4, <1>5
<1>8. QED BY <1>1, <1>6, <1>7 DEF c, l, h

(* A bid of q pays y when q at the average is worth it; an ask of q costs no   *)
(* more than y when y is worth q at the average.                            *)
LEMMA BidPays ==
    ASSUME NEW side, IsSide(side), NEW q \in Nat, q <= Room(side), NEW s \in Nat \ {0}
    PROVE  /\ BidGross(q, side, s) \in Nat
           /\ \A y \in Int : BidGross(q, side, s) >= y
                               <=> y * (2 * side.cap * s) <= q * BidAverage(q, side)
<1> DEFINE a == q * BidAverage(q, side)
           d == 2 * side.cap * s
<1>1. BidGross(q, side, s) = a \div d
  BY DEF BidGross, BidAverage
<1>2. a \in Nat /\ d \in Nat \ {0}
  <2>1. BidAverage(q, side) \in Nat
    BY Averages
  <2>2. side.cap \in Nat \ {0}
    BY DEF IsSide
  <2>3. d \in Nat \ {0}
    BY <2>2, SMT
  <2>4. QED BY <2>1, <2>3, ProductIsNat
<1> HIDE DEF a, d
<1>3. a \div d \in Int
  BY <1>2, Quotient
<1>4. ASSUME NEW y \in Int PROVE a \div d >= y <=> y * d <= a
  BY <1>2, QuotientReaches
<1>5. a \div d >= 0
  BY <1>2, <1>4
<1>6. QED BY <1>1, <1>3, <1>4, <1>5 DEF a, d

LEMMA AskCharges ==
    ASSUME NEW side, IsSide(side), NEW q \in Nat, q <= Room(side), NEW s \in Nat \ {0}
    PROVE  /\ AskCost(q, side, s) \in Nat
           /\ \A y \in Int : AskCost(q, side, s) <= y
                               <=> q * AskAverage(q, side) <= y * (2 * side.cap * s)
<1> DEFINE a == q * AskAverage(q, side)
           d == 2 * side.cap * s
<1>1. AskCost(q, side, s) = CeilDiv(a, d)
  BY DEF AskCost, AskAverage
<1>2. a \in Nat /\ d \in Nat \ {0}
  <2>1. AskAverage(q, side) \in Nat
    BY Averages
  <2>2. side.cap \in Nat \ {0}
    BY DEF IsSide
  <2>3. d \in Nat \ {0}
    BY <2>2, SMT
  <2>4. QED BY <2>1, <2>3, ProductIsNat
<1> HIDE DEF a, d
<1>3. CeilDiv(a, d) \in Int
  BY <1>2, CeilCovers
<1>4. ASSUME NEW y \in Int PROVE CeilDiv(a, d) <= y <=> a <= y * d
  BY <1>2, CeilReaches
<1>5. CeilDiv(a, d) >= 0
  <2>1. SUFFICES ASSUME CeilDiv(a, d) <= -1 PROVE FALSE
    BY <1>3
  <2>2. a <= (-1) * d
    BY <1>4, <2>1
  <2>3. QED BY <1>2, <2>2
<1>6. QED BY <1>1, <1>3, <1>4, <1>5 DEF a, d

(* How the product under the integral of a linear price grows with the      *)
(* amount.                                                                  *)
LEMMA Grown ==
    ASSUME NEW x \in Int, NEW d \in Int, NEW a \in Int, NEW s \in Int
    PROVE  (x + d) * (a - s * d) = x * a + d * (a - s * d - x * s)
BY SMT

(* More pays no less, as far as the side has room, and costs no less.        *)
LEMMA WorthGrows ==
    ASSUME NEW side, IsSide(side), NEW x \in Nat, NEW z \in Nat, x <= z, z <= Room(side)
    PROVE  /\ x * BidAverage(x, side) \in Nat /\ z * BidAverage(z, side) \in Nat
           /\ x * BidAverage(x, side) <= z * BidAverage(z, side)
           /\ x * AskAverage(x, side) \in Nat /\ z * AskAverage(z, side) \in Nat
           /\ x * AskAverage(x, side) <= z * AskAverage(z, side)
<1> DEFINE A(q) == BidAverage(q, side)
           B(q) == AskAverage(q, side)
           s == Span(side)
           d == z - x
           c == 2 * side.cap
           u == 2 * side.used
<1>0. x <= Room(side) /\ x \in 0 .. z
  BY DEF Room, IsSide
<1>1. /\ A(x) \in Nat /\ A(z) \in Nat /\ B(x) \in Nat /\ B(z) \in Nat
      /\ B(x) <= B(z)
  BY <1>0, Averages
<1>2. /\ s \in Nat /\ d \in Nat /\ u \in Nat /\ c \in Nat
      /\ A(x) = c * side.high - s * (u + x) /\ A(z) = c * side.high - s * (u + z)
      /\ u + x + z <= c /\ s <= side.high /\ side.high \in Nat
  <2>1. side.high \in Nat /\ side.low \in Nat /\ side.cap \in Nat \ {0} /\ side.used \in Nat
    BY DEF IsSide
  <2>2. s \in Nat /\ s <= side.high /\ u + x + z <= c
    BY <2>1 DEF IsSide, Span, Room
  <2>3. 2 * side.high * side.cap = c * side.high
    BY <2>1, SMT
  <2>4. QED BY <2>1, <2>2, <2>3 DEF BidAverage
<1> HIDE DEF A, B, s, c, u
<1>3. A(z) = A(x) - s * d
  <2>1. s * (u + z) = s * (u + x) + s * d
    BY <1>2, SMT
  <2>2. s * (u + z) \in Int /\ s * (u + x) \in Int /\ s * d \in Int /\ c * side.high \in Int
    BY <1>2, SMT
  <2>3. QED BY <1>2, <2>1, <2>2
<1>4. 0 <= A(z) - x * s
  <2> DEFINE t == u + x + z
  <2>1. s * (u + z) + x * s = s * t
    BY <1>2, SMT
  <2>2. t \in Nat /\ t <= c
    BY <1>2
  <2> HIDE DEF t
  <2>3. s * t <= s * c /\ s * t \in Int /\ s * c = c * s
    BY <1>2, <2>2, Scaling, SMT
  <2>4. c * s <= c * side.high /\ c * s \in Int /\ c * side.high \in Int
    BY <1>2, Scaling, SMT
  <2>5. s * (u + z) \in Int /\ x * s \in Int
    BY <1>2, SMT
  <2>6. QED BY <1>2, <2>1, <2>3, <2>4, <2>5
<1>5. x * A(x) <= z * A(z)
  <2> DEFINE e == A(z) - x * s
  <2>1. x * s \in Int /\ s * d \in Int
    BY <1>2, SMT
  <2>2. e \in Nat
    BY <1>1, <1>4, <2>1
  <2>3. (x + d) * (A(x) - s * d) = x * A(x) + d * (A(x) - s * d - x * s)
    BY <1>1, <1>2, Grown
  <2>4. x + d = z
    OBVIOUS
  <2>5. z * A(z) = x * A(x) + d * e
    BY <1>3, <2>3, <2>4
  <2> HIDE DEF e, d
  <2>6. d * e \in Nat /\ x * A(x) \in Nat
    BY <1>1, <1>2, <2>2, ProductIsNat
  <2>7. QED BY <2>5, <2>6
<1>6. x * B(x) <= z * B(z)
  <2>1. x * B(x) <= x * B(z)
    BY <1>1, Scaling
  <2>2. B(z) * x <= B(z) * z
    BY <1>1, Scaling
  <2>3. x * B(z) = B(z) * x /\ z * B(z) = B(z) * z /\ B(z) * x \in Int /\ B(z) * z \in Int /\ x * B(x) \in Int
    BY <1>1, SMT
  <2>4. QED BY <2>1, <2>2, <2>3
<1>7. QED BY <1>1, <1>5, <1>6, ProductIsNat DEF A, B

LEMMA BidGrows ==
    ASSUME NEW side, IsSide(side), NEW s \in Nat \ {0},
           NEW x \in Nat, NEW z \in Nat, x <= z, z <= Room(side)
    PROVE  /\ BidGross(x, side, s) \in Nat /\ BidGross(z, side, s) \in Nat
           /\ BidGross(x, side, s) <= BidGross(z, side, s)
<1> DEFINE d == 2 * side.cap * s
           y == BidGross(x, side, s)
<1>1. x <= Room(side)
  BY DEF Room, IsSide
<1>2. y \in Nat /\ BidGross(z, side, s) \in Nat
  BY <1>1, BidPays
<1>3. y * d <= x * BidAverage(x, side)
  BY <1>1, <1>2, BidPays
<1>4. /\ x * BidAverage(x, side) <= z * BidAverage(z, side)
      /\ x * BidAverage(x, side) \in Nat /\ z * BidAverage(z, side) \in Nat
  BY WorthGrows
<1>5. y * d \in Int
  <2>1. side.cap \in Nat
    BY DEF IsSide
  <2>2. d \in Nat
    BY <2>1, ProductIsNat
  <2> HIDE DEF d, y
  <2>3. QED BY <1>2, <2>2, ProductIsNat
<1>6. y * d <= z * BidAverage(z, side)
  BY <1>3, <1>4, <1>5
<1>7. BidGross(z, side, s) >= y
  BY <1>2, <1>6, BidPays
<1>8. QED BY <1>2, <1>7

LEMMA AskGrows ==
    ASSUME NEW side, IsSide(side), NEW s \in Nat \ {0},
           NEW x \in Nat, NEW z \in Nat, x <= z, z <= Room(side)
    PROVE  /\ AskCost(x, side, s) \in Nat /\ AskCost(z, side, s) \in Nat
           /\ AskCost(x, side, s) <= AskCost(z, side, s)
<1> DEFINE d == 2 * side.cap * s
           y == AskCost(z, side, s)
<1>1. x <= Room(side)
  BY DEF Room, IsSide
<1>2. y \in Nat /\ AskCost(x, side, s) \in Nat
  BY <1>1, AskCharges
<1>3. z * AskAverage(z, side) <= y * d
  BY <1>1, <1>2, AskCharges
<1>4. /\ x * AskAverage(x, side) <= z * AskAverage(z, side)
      /\ x * AskAverage(x, side) \in Nat /\ z * AskAverage(z, side) \in Nat
  BY WorthGrows
<1>5. y * d \in Int
  <2>1. side.cap \in Nat
    BY DEF IsSide
  <2>2. d \in Nat
    BY <2>1, ProductIsNat
  <2> HIDE DEF d, y
  <2>3. QED BY <1>2, <2>2, ProductIsNat
<1>6. x * AskAverage(x, side) <= y * d
  BY <1>3, <1>4, <1>5
<1>7. AskCost(x, side, s) <= y
  BY <1>1, <1>2, <1>6, AskCharges
<1>8. QED BY <1>2, <1>7

(* The two inverses are what they are defined to be. *)
LEMMA AmountInBidIs ==
    ASSUME NEW side, IsSide(side), NEW y \in Nat, NEW s \in Nat \ {0},
           NEW q \in 1 .. Room(side), y <= BidGross(q, side, s)
    PROVE  /\ AmountInBid(y, side, s) \in 1 .. Room(side)
           /\ y <= BidGross(AmountInBid(y, side, s), side, s)
           /\ AmountInBid(y, side, s) <= q
<1> DEFINE S == {x \in 1 .. Room(side) : BidGross(x, side, s) >= y}
<1>1. Room(side) \in Nat
  BY DEF Room, IsSide
<1>2. \A x \in 1 .. Room(side) : BidGross(x, side, s) \in Nat
  BY <1>1, BidPays
<1>3. q \in S
  BY <1>2
<1>4. IsFiniteSet(S) /\ S \in SUBSET Nat
  <2>1. S \in SUBSET Nat /\ \A n \in S : n <= Room(side)
    BY <1>1
  <2> HIDE DEF S
  <2>2. QED BY <2>1, <1>1, FS_BoundedSetOfNaturals
<1>5. \E m \in S : \A n \in S : m <= n
  <2> HIDE DEF S
  <2> QED BY <1>3, <1>4, GreatestAndLeast
<1>6. Min(S) \in S /\ \A n \in S : Min(S) <= n
  BY <1>5 DEF Min
<1>7. AmountInBid(y, side, s) = Min(S)
  BY DEF AmountInBid
<1> DEFINE m == Min(S)
<1>8. m \in 1 .. Room(side) /\ BidGross(m, side, s) >= y /\ m <= q
  BY <1>3, <1>6
<1> HIDE DEF m
<1>9. QED BY <1>2, <1>7, <1>8 DEF m

LEMMA AskOfNothing ==
    ASSUME NEW side, IsSide(side), NEW s \in Nat \ {0}
    PROVE  AskCost(0, side, s) = 0
<1>1. 0 <= Room(side)
  BY DEF Room, IsSide
<1>2. AskAverage(0, side) \in Nat /\ side.cap \in Nat
  BY <1>1, Averages DEF IsSide
<1>3. 0 * AskAverage(0, side) <= 0 * (2 * side.cap * s)
  <2>1. 2 * side.cap * s \in Nat
    BY <1>2, ProductIsNat
  <2>2. QED BY <1>2, <2>1
<1>4. AskCost(0, side, s) \in Nat /\ AskCost(0, side, s) <= 0
  BY <1>1, <1>3, AskCharges
<1>5. QED BY <1>4

LEMMA AmountOutAskIs ==
    ASSUME NEW side, IsSide(side), NEW x \in Nat, NEW s \in Nat \ {0}
    PROVE  /\ AmountOutAsk(x, side, s) \in 0 .. Room(side)
           /\ AskCost(AmountOutAsk(x, side, s), side, s) <= x
           /\ \A q \in 0 .. Room(side) : AskCost(q, side, s) <= x => q <= AmountOutAsk(x, side, s)
<1> DEFINE S == {q \in 0 .. Room(side) : AskCost(q, side, s) <= x}
<1>1. Room(side) \in Nat
  BY DEF Room, IsSide
<1>2. 0 \in S
  BY <1>1, AskOfNothing
<1>3. IsFiniteSet(S) /\ S \in SUBSET Nat
  <2>1. S \in SUBSET Nat /\ \A n \in S : n <= Room(side)
    BY <1>1
  <2> HIDE DEF S
  <2>2. QED BY <2>1, <1>1, FS_BoundedSetOfNaturals
<1>4. \E m \in S : \A n \in S : m >= n
  <2> HIDE DEF S
  <2> QED BY <1>2, <1>3, GreatestAndLeast
<1>5. Max(S) \in S /\ \A n \in S : Max(S) >= n
  BY <1>4 DEF Max
<1>6. AmountOutAsk(x, side, s) = Max(S)
  BY DEF AmountOutAsk
<1> DEFINE m == Max(S)
<1>7. m \in 0 .. Room(side) /\ AskCost(m, side, s) <= x
  BY <1>5
<1>8. ASSUME NEW q \in 0 .. Room(side), AskCost(q, side, s) <= x PROVE q <= m
  <2>1. q \in S
    BY <1>8
  <2>2. m >= q
    BY <1>5, <2>1
  <2> HIDE DEF m
  <2>3. QED BY <1>1, <1>7, <2>2
<1> HIDE DEF m
<1>9. QED BY <1>6, <1>7, <1>8 DEF m


=============================================================================
