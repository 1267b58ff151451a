-------------------------- MODULE PolicyTargetProofs ---------------------------
(***************************************************************************)
(* Proofs about PolicyTarget, for any number of children, visits, priors,  *)
(* values and settings, and every order of the loop.                       *)
(*                                                                         *)
(* Sound are the inputs, Pruned says what the loop has done to the counts  *)
(* and what it has left alone.  That the closed form with a quotient and a *)
(* floor is the maximum the property speaks of is ClosedForm; what the     *)
(* rounding loses of a sum is RoundingSum.                                 *)
(***************************************************************************)
EXTENDS PolicyTarget, FiniteSetTheorems, WellFoundedInduction, TLAPS

--------------------------------------------------------------------------------
(* Sums: there is no induction to cite, a smallest counterexample does its work. *)

(* A sum over the subsets of s, taken as FoldFunction takes it. *)
Pick(s) == CHOOSE x \in s : TRUE
Sums(f, g, s) ==
  \A t \in SUBSET s : g[t] = IF t = {} THEN 0 ELSE f[Pick(t)] + g[t \ {Pick(t)}]

(* A property of the finite sets that fails, fails in a smallest set.        *)
LEMMA SmallestSet ==
  ASSUME NEW D, IsFiniteSet(D), NEW B \in SUBSET SUBSET D, B # {}
  PROVE  \E s \in B : \A t \in SUBSET s : t # s => t \notin B
<1>1. FiniteSubsetsOf(D) = SUBSET D
  BY FS_FiniteSubsetsOfFinite
<1>2. IsWellFoundedOn(StrictSubsetOrdering(D), SUBSET D)
  BY <1>1, FS_StrictSubsetOrderingWellFounded
<1>3. \E s \in B : \A t \in B : ~(<<t, s>> \in StrictSubsetOrdering(D))
  BY <1>2, WFMin
<1> QED BY <1>3 DEF StrictSubsetOrdering

LEMMA SumsAgree ==
  ASSUME NEW D, IsFiniteSet(D), NEW f, NEW s \in SUBSET D, NEW t \in SUBSET s,
         NEW g, NEW h, Sums(f, g, s), Sums(f, h, t)
  PROVE  g[t] = h[t]
<1> DEFINE B == {u \in SUBSET t : g[u] # h[u]}
<1>1. B \in SUBSET SUBSET D
  OBVIOUS
<1>2. ASSUME B # {} PROVE FALSE
  <2>1. PICK u \in B : \A v \in SUBSET u : v # u => v \notin B
    <3> HIDE DEF B
    <3> QED BY <1>1, <1>2, SmallestSet
  <2>2. u \in SUBSET t /\ u \in SUBSET s
    OBVIOUS
  <2>3. CASE u = {}
    BY <2>2, <2>3 DEF Sums
  <2>4. CASE u # {}
    <3>1. Pick(u) \in u
      BY <2>4 DEF Pick
    <3> DEFINE v == u \ {Pick(u)}
    <3>2. v \in SUBSET u /\ v # u /\ v \in SUBSET t
      BY <3>1
    <3>3. g[v] = h[v]
      BY <2>1, <3>2
    <3>4. g[u] = f[Pick(u)] + g[v] /\ h[u] = f[Pick(u)] + h[v]
      BY <2>2, <2>4 DEF Sums
    <3>5. g[u] # h[u]
      OBVIOUS
    <3> QED BY <3>3, <3>4, <3>5
  <2> QED BY <2>3, <2>4
<1> QED BY <1>2

LEMMA SumsExist ==
  ASSUME NEW D, IsFiniteSet(D), NEW f \in [D -> Nat]
  PROVE  \E g \in [SUBSET D -> Nat] : Sums(f, g, D)
<1> DEFINE Summed(s) == \E g \in [SUBSET s -> Nat] : Sums(f, g, s)
           B == {s \in SUBSET D : ~Summed(s)}
<1>1. ASSUME B # {} PROVE FALSE
  <2>1. PICK s \in B : \A t \in SUBSET s : t # s => t \notin B
    <3>1. B \in SUBSET SUBSET D
      OBVIOUS
    <3> HIDE DEF B
    <3> QED BY <1>1, <3>1, SmallestSet
  <2>2. \A t \in SUBSET s : t # s => Summed(t)
    BY <2>1
  <2> DEFINE sums(t) == CHOOSE g \in [SUBSET t -> Nat] : Sums(f, g, t)
  <2>3. \A t \in SUBSET s : t # s => sums(t) \in [SUBSET t -> Nat] /\ Sums(f, sums(t), t)
    BY <2>2
  <2> DEFINE rest(t) == t \ {Pick(t)}
  <2>4. \A t \in SUBSET s : t # {} => Pick(t) \in t /\ rest(t) \in SUBSET t /\ rest(t) # t
    BY DEF Pick
  <2> HIDE DEF sums, Summed
  <2> DEFINE g == [t \in SUBSET s |->
                     IF t = {} THEN 0
                     ELSE IF t = s THEN f[Pick(s)] + sums(rest(s))[rest(s)] ELSE sums(t)[t]]
  <2>5. \A t \in SUBSET s : t # {} /\ t # s => sums(t)[t] = f[Pick(t)] + sums(t)[rest(t)]
    BY <2>3 DEF Sums
  <2>6. ASSUME NEW t \in SUBSET s, t # {}, t # s
        PROVE  sums(t)[rest(t)] = g[rest(t)]
    <3>1. rest(t) \in SUBSET t /\ rest(t) # s /\ rest(t) \in SUBSET s
      BY <2>4, <2>6
    <3>2. Sums(f, sums(t), t) /\ Sums(f, sums(rest(t)), rest(t))
      BY <2>3, <2>6, <3>1
    <3>3. sums(t)[rest(t)] = sums(rest(t))[rest(t)]
      <4> HIDE DEF rest
      <4> QED BY <3>1, <3>2, SumsAgree
    <3>4. rest(t) = {} => sums(t)[rest(t)] = 0
      BY <3>1, <3>2 DEF Sums
    <3> HIDE DEF rest
    <3> QED BY <3>1, <3>3, <3>4
  <2>7. s # {} => sums(rest(s))[rest(s)] = g[rest(s)]
    <3> SUFFICES ASSUME s # {} PROVE sums(rest(s))[rest(s)] = g[rest(s)]
      OBVIOUS
    <3>1. rest(s) \in SUBSET s /\ rest(s) # s
      BY <2>4
    <3>2. rest(s) = {} => sums(rest(s))[rest(s)] = 0
      BY <2>3, <3>1 DEF Sums
    <3> HIDE DEF rest
    <3> QED BY <3>1, <3>2
  <2>8. Sums(f, g, s)
    <3>1. \A t \in SUBSET s : t = {} => g[t] = 0
      OBVIOUS
    <3>2. \A t \in SUBSET s : t # {} => g[t] = f[Pick(t)] + g[rest(t)]
      <4>1. \A t \in SUBSET s : t # {} /\ t # s => g[t] = sums(t)[t]
        OBVIOUS
      <4>2. s # {} => g[s] = f[Pick(s)] + sums(rest(s))[rest(s)]
        OBVIOUS
      <4> HIDE DEF g, rest
      <4> QED BY <2>5, <2>6, <2>7, <4>1, <4>2
    <3> HIDE DEF g
    <3> QED BY <3>1, <3>2 DEF Sums
  <2>9. g \in [SUBSET s -> Nat]
    <3>1. \A t \in SUBSET s : t # {} => f[Pick(t)] \in Nat
      BY <2>4
    <3>2. \A t \in SUBSET s : t # s => sums(t)[t] \in Nat
      BY <2>3
    <3>3. s # {} => sums(rest(s))[rest(s)] \in Nat
      <4>1. s # {} => rest(s) \in SUBSET s /\ rest(s) # s
        BY <2>4
      <4> HIDE DEF rest
      <4> QED BY <3>2, <4>1
    <3> HIDE DEF rest
    <3> QED BY <3>1, <3>2, <3>3
  <2> HIDE DEF g
  <2>10. Summed(s)
    BY <2>8, <2>9 DEF Summed
  <2> QED BY <2>10
<1> QED BY <1>1

LEMMA SumIsZero ==
  ASSUME NEW D, IsFiniteSet(D), NEW f \in [D -> Nat], NEW g \in [SUBSET D -> Nat], Sums(f, g, D)
  PROVE  \A t \in SUBSET D : g[t] = 0 <=> \A i \in t : f[i] = 0
<1> DEFINE B == {t \in SUBSET D : ~(g[t] = 0 <=> \A i \in t : f[i] = 0)}
<1>1. ASSUME B # {} PROVE FALSE
  <2>1. PICK t \in B : \A u \in SUBSET t : u # t => u \notin B
    <3>1. B \in SUBSET SUBSET D
      OBVIOUS
    <3> HIDE DEF B
    <3> QED BY <1>1, <3>1, SmallestSet
  <2>2. CASE t = {}
    BY <2>2 DEF Sums
  <2>3. CASE t # {}
    <3>1. Pick(t) \in t
      BY <2>3 DEF Pick
    <3>2. PICK x : x = Pick(t)
      OBVIOUS
    <3>3. x \in t /\ g[t] = f[x] + g[t \ {x}]
      BY <2>3, <3>1, <3>2 DEF Sums
    <3>4. t \ {x} \in SUBSET t /\ t \ {x} # t /\ t \ {x} \in SUBSET D
      BY <3>3
    <3>5. g[t \ {x}] = 0 <=> \A i \in t \ {x} : f[i] = 0
      BY <2>1, <3>4
    <3>6. f[x] \in Nat /\ g[t \ {x}] \in Nat
      BY <3>3, <3>4
    <3>7. g[t] = 0 <=> f[x] = 0 /\ g[t \ {x}] = 0
      BY <3>3, <3>6
    <3>8. (\A i \in t : f[i] = 0) <=> f[x] = 0 /\ \A i \in t \ {x} : f[i] = 0
      BY <3>3
    <3> QED BY <3>5, <3>7, <3>8
  <2> QED BY <2>2, <2>3
<1> QED BY <1>1

(* Total is such a sum. *)
LEMMA TotalSums ==
  ASSUME NEW D, IsFiniteSet(D), NEW f \in [D -> Nat]
  PROVE  \E g \in [SUBSET D -> Nat] : Sums(f, g, D) /\ Total(f) = g[D]
<1> DEFINE iter == CHOOSE h : h = [s \in SUBSET D |->
                                     IF s = {} THEN 0 ELSE f[Pick(s)] + h[s \ {Pick(s)}]]
<1>1. PICK g \in [SUBSET D -> Nat] : Sums(f, g, D)
  BY SumsExist
<1>2. g = [s \in SUBSET D |-> IF s = {} THEN 0 ELSE f[Pick(s)] + g[s \ {Pick(s)}]]
  BY <1>1 DEF Sums
<1>3. iter = [s \in SUBSET D |-> IF s = {} THEN 0 ELSE f[Pick(s)] + iter[s \ {Pick(s)}]]
  BY <1>2
<1>4. Total(f) = iter[D]
  BY DEF Total, FoldFunction, FoldFunctionOnSet, MapThenFoldSet, Pick
<1> HIDE DEF iter
<1>5. Sums(f, iter, D)
  BY <1>3 DEF Sums
<1>6. iter[D] = g[D]
  BY <1>1, <1>5, SumsAgree
<1> QED BY <1>1, <1>4, <1>6, Zenon

LEMMA TotalOf ==
  ASSUME NEW D, IsFiniteSet(D), NEW f \in [D -> Nat]
  PROVE  Total(f) \in Nat /\ (Total(f) = 0 <=> \A i \in D : f[i] = 0)
<1>1. PICK g \in [SUBSET D -> Nat] : Sums(f, g, D) /\ Total(f) = g[D]
  BY TotalSums
<1>2. g[D] \in Nat /\ (g[D] = 0 <=> \A i \in D : f[i] = 0)
  <2>1. D \in SUBSET D
    OBVIOUS
  <2>2. Sums(f, g, D)
    BY <1>1, Zenon
  <2> QED BY <2>1, <2>2, SumIsZero
<1> QED BY <1>1, <1>2, Zenon

LEMMA TotalOfOne ==
  ASSUME NEW x, NEW f \in [{x} -> Nat]
  PROVE  Total(f) = f[x]
<1>1. IsFiniteSet({x})
  BY FS_Singleton
<1>2. PICK g \in [SUBSET {x} -> Nat] : Sums(f, g, {x}) /\ Total(f) = g[{x}]
  BY <1>1, TotalSums
<1>3. Pick({x}) = x
  BY DEF Pick
<1>4. Sums(f, g, {x})
  BY <1>2, Zenon
<1>5. g[{}] = 0
  <2>1. {} \in SUBSET {x}
    OBVIOUS
  <2> QED BY <1>4, <2>1 DEF Sums
<1>6. g[{x}] = f[x] + g[{}]
  <2>1. {x} \in SUBSET {x} /\ {x} # {} /\ {x} \ {x} = {}
    OBVIOUS
  <2> QED BY <1>3, <1>4, <2>1 DEF Sums
<1>7. g[{x}] = f[x]
  <2>1. f[x] \in Nat
    OBVIOUS
  <2> QED BY <1>5, <1>6, <2>1
<1> QED BY <1>2, <1>7, Zenon

--------------------------------------------------------------------------------
(* Largest and smallest numbers. *)

(* Induction up to n: a set of numbers without a least one is empty.         *)
LEMMA NoneUpTo ==
  ASSUME NEW n \in Nat, NEW B \in SUBSET (0 .. n), 0 \notin B,
         \A k \in 0 .. n - 1 : k \notin B => k + 1 \notin B
  PROVE  B = {}
<1> SUFFICES ASSUME B # {} PROVE FALSE
  OBVIOUS
<1> DEFINE downs == {0 .. k : k \in B}
<1>1. IsFiniteSet(0 .. n)
  BY FS_Interval
<1>2. downs \in SUBSET SUBSET (0 .. n) /\ downs # {}
  <2>1. \A k \in B : 0 .. k \in SUBSET (0 .. n)
    OBVIOUS
  <2> QED BY <2>1
<1>3. PICK k \in B : \A t \in SUBSET (0 .. k) : t # 0 .. k => t \notin downs
  <2>1. PICK s \in downs : \A t \in SUBSET s : t # s => t \notin downs
    <3> HIDE DEF downs
    <3> QED BY <1>1, <1>2, SmallestSet
  <2> QED BY <2>1
<1>4. k \in 1 .. n
  OBVIOUS
<1>5. k - 1 \in 0 .. n - 1 /\ (k - 1) + 1 = k
  BY <1>4
<1>6. k - 1 \in B
  BY <1>5
<1>7. 0 .. k - 1 \in SUBSET (0 .. k) /\ 0 .. k - 1 # 0 .. k
  BY <1>4
<1>8. 0 .. k - 1 \in downs
  BY <1>6
<1> QED BY <1>3, <1>7, <1>8

LEMMA MaxIs ==
  ASSUME NEW S \in SUBSET Int, NEW m \in S, \A x \in S : x <= m
  PROVE  Max(S) = m
<1>1. Max(S) \in S /\ \A x \in S : Max(S) >= x
  BY DEF Max
<1>2. Max(S) \in Int /\ m \in Int /\ m <= Max(S) /\ Max(S) <= m
  BY <1>1
<1> QED BY <1>2

LEMMA MinIs ==
  ASSUME NEW S \in SUBSET Int, NEW m \in S, \A x \in S : m <= x
  PROVE  Min(S) = m
<1>1. Min(S) \in S /\ \A x \in S : Min(S) <= x
  BY DEF Min
<1>2. Min(S) \in Int /\ m \in Int /\ m <= Min(S) /\ Min(S) <= m
  BY <1>1
<1> QED BY <1>2

LEMMA MaxExists ==
  ASSUME NEW n \in Nat, NEW S \in SUBSET (0 .. n), S # {}
  PROVE  Max(S) \in S /\ \A x \in S : x <= Max(S)
<1>1. \E m \in S : \A x \in S : x <= m
  <2> SUFFICES ASSUME \A m \in S : \E x \in S : ~(x <= m) PROVE FALSE
    OBVIOUS
  <2> DEFINE B == {i \in 0 .. n : \E x \in S : x >= n - i}
  <2>1. 0 \notin B
    <3> SUFFICES ASSUME NEW x \in S, x >= n PROVE FALSE
      OBVIOUS
    <3>1. PICK y \in S : ~(y <= x)
      OBVIOUS
    <3> QED BY <3>1
  <2>2. ASSUME NEW i \in 0 .. n - 1, i \notin B
        PROVE  i + 1 \notin B
    <3> SUFFICES ASSUME NEW x \in S, x >= n - (i + 1) PROVE FALSE
      OBVIOUS
    <3>1. PICK y \in S : ~(y <= x)
      OBVIOUS
    <3>2. y >= n - i /\ i \in 0 .. n
      BY <3>1
    <3> QED BY <2>2, <3>2
  <2>3. B = {}
    <3>1. B \in SUBSET (0 .. n)
      OBVIOUS
    <3> HIDE DEF B
    <3> QED BY <2>1, <2>2, <3>1, NoneUpTo
  <2>4. n \in 0 .. n /\ \A x \in S : x >= n - n
    OBVIOUS
  <2> QED BY <2>3, <2>4
<1>2. PICK m \in S : \A x \in S : x <= m
  BY <1>1
<1>3. Max(S) = m
  BY <1>2, MaxIs
<1> QED BY <1>2, <1>3

LEMMA MinExists ==
  ASSUME NEW S \in SUBSET Nat, S # {}
  PROVE  Min(S) \in S /\ \A x \in S : Min(S) <= x
<1>1. \E m \in S : \A x \in S : m <= x
  <2> SUFFICES ASSUME \A m \in S : \E x \in S : ~(m <= x) PROVE FALSE
    OBVIOUS
  <2>1. PICK n \in S : TRUE
    OBVIOUS
  <2>2. n \in Nat
    OBVIOUS
  <2> DEFINE B == {i \in 0 .. n : \E x \in S : x <= i}
  <2>3. 0 \notin B
    <3> SUFFICES ASSUME NEW x \in S, x <= 0 PROVE FALSE
      OBVIOUS
    <3>1. PICK y \in S : ~(x <= y)
      OBVIOUS
    <3> QED BY <3>1
  <2>4. ASSUME NEW i \in 0 .. n - 1, i \notin B
        PROVE  i + 1 \notin B
    <3> SUFFICES ASSUME NEW x \in S, x <= i + 1 PROVE FALSE
      OBVIOUS
    <3>1. PICK y \in S : ~(x <= y)
      OBVIOUS
    <3>2. y <= i /\ i \in 0 .. n
      BY <2>2, <3>1
    <3> QED BY <2>4, <3>2
  <2>5. B = {}
    <3>1. B \in SUBSET (0 .. n)
      OBVIOUS
    <3> HIDE DEF B
    <3> QED BY <2>2, <2>3, <2>4, <3>1, NoneUpTo
  <2>6. n \in 0 .. n /\ n <= n
    BY <2>2
  <2> QED BY <2>1, <2>5, <2>6
<1>2. PICK m \in S : \A x \in S : m <= x
  BY <1>1
<1>3. Min(S) = m
  BY <1>2, MinIs
<1> QED BY <1>2, <1>3

LEMMA MinOfTwo ==
  ASSUME NEW x \in Int, NEW y \in Int
  PROVE  Min({x, y}) = IF x <= y THEN x ELSE y
<1>1. CASE x <= y
  BY <1>1, MinIs
<1>2. CASE ~(x <= y)
  BY <1>2, MinIs
<1> QED BY <1>1, <1>2

LEMMA MaxOfTwo ==
  ASSUME NEW x \in Int, NEW y \in Int
  PROVE  Max({x, y}) = IF x <= y THEN y ELSE x
<1>1. CASE x <= y
  BY <1>1, MaxIs
<1>2. CASE ~(x <= y)
  BY <1>2, MaxIs
<1> QED BY <1>1, <1>2

--------------------------------------------------------------------------------
(* The inputs. *)
Sound ==
  /\ root \in Nat /\ weight \in [Children -> Nat] /\ temp \in {1, 2}
  /\ visits \in [Children -> Nat] /\ value \in [Children -> Int]
  /\ \A a \in Children : visits[a] <= NTotal
  /\ PriorUnit # 0

LEMMA SoundInit == Init => Sound
<1> SUFFICES ASSUME Init PROVE Sound
  OBVIOUS
<1>1. root \in Nat
  BY PolicyTargetAssumption DEF Init
<1>2. NTotal \in Nat
  BY <1>1 DEF NTotal
<1>3. /\ weight \in [Children -> Nat] /\ temp \in {1, 2}
      /\ visits \in [Children -> 0 .. NTotal] /\ value \in [Children -> Int]
  <2>1. Weights \subseteq Nat /\ Temps \subseteq {1, 2} /\ Values \union {0} \subseteq Int
    BY PolicyTargetAssumption
  <2>2. /\ weight \in [Children -> Weights] /\ temp \in Temps
        /\ visits \in [Children -> 0 .. NTotal] /\ value \in [Children -> Values \union {0}]
    BY DEF Init
  <2> QED BY <2>1, <2>2
<1>4. PriorUnit # 0
  <2>1. PriorUnit > 0
    BY DEF Init
  <2>2. ~(0 > 0)
    OBVIOUS
  <2> QED BY <2>1, <2>2, Zenon
<1> QED BY <1>1, <1>2, <1>3, <1>4 DEF Sound

(* No step changes what it has not computed. *)
LEMMA SameInputs ==
  ASSUME inputs' = inputs
  PROVE  /\ NTotal' = NTotal /\ Visited' = Visited /\ Best' = Best /\ PriorUnit' = PriorUnit
         /\ \A a : /\ Squared(a)' = Squared(a) /\ NForced(a)' = NForced(a)
                   /\ \A n : NotStronger(a, n)' <=> NotStronger(a, n)
<1>1. root' = root /\ weight' = weight /\ temp' = temp /\ visits' = visits /\ value' = value
  BY DEF inputs
<1>2. NTotal' = NTotal /\ Visited' = Visited /\ Best' = Best
  BY <1>1 DEF NTotal, Visited, Best
<1>3. \A a : Squared(a)' = Squared(a) /\ Effective(a)' = Effective(a)
  BY <1>1 DEF Squared, Effective
<1>4. PriorUnit' = PriorUnit /\ EffectiveUnit' = EffectiveUnit
  BY <1>3 DEF PriorUnit, EffectiveUnit
<1>5. \A a : NForced(a)' = NForced(a)
  BY <1>2, <1>3, <1>4 DEF NForced
<1>6. \A a : /\ Q(a)' = Q(a) /\ Gain(a)' = Gain(a) /\ EffectiveGain(a)' = EffectiveGain(a)
  BY <1>1, <1>3, <1>4 DEF Q, Gain, EffectiveGain
<1>7. \A a, n : NotStronger(a, n)' <=> NotStronger(a, n)
  BY <1>1, <1>2, <1>6 DEF NotStronger, ScoreOf, ScoreOfBest
<1> QED BY <1>2, <1>3, <1>4, <1>5, <1>7

LEMMA SoundNext == Sound /\ [Next]_vars => Sound'
<1> SUFFICES ASSUME Sound, [Next]_vars PROVE Sound'
  OBVIOUS
<1>1. inputs' = inputs
  BY DEF Next, Prune, Record, inputs, vars
<1> QED BY <1>1, SameInputs DEF Sound, inputs

(* The most visited child. *)
LEMMA BestIs ==
  ASSUME Sound
  PROVE  Best \in Children /\ \A a \in Children : visits[a] <= visits[Best]
<1> DEFINE counts == {visits[a] : a \in Children}
           most == Max(counts)
           first == {a \in Children : visits[a] = most}
<1>1. NTotal \in Nat
  BY DEF Sound, NTotal
<1>2. counts \in SUBSET (0 .. NTotal) /\ counts # {}
  <2>1. \A a \in Children : visits[a] \in 0 .. NTotal
    BY <1>1 DEF Sound
  <2>2. Children # {}
    BY PolicyTargetAssumption
  <2> QED BY <2>1, <2>2
<1>3. most \in counts /\ \A x \in counts : x <= most
  <2> HIDE DEF counts
  <2> QED BY <1>1, <1>2, MaxExists
<1> HIDE DEF most
<1>4. first \in SUBSET Nat /\ first # {}
  BY <1>3, PolicyTargetAssumption
<1>5. Min(first) \in first
  <2> HIDE DEF first
  <2> QED BY <1>4, MinExists
<1>6. Best = Min(first)
  BY DEF Best, most
<1> QED BY <1>3, <1>5, <1>6

(* The terms of the scores are numbers, and a visited child with a prior has *)
(* something to gain.                                                        *)
LEMMA UnitsPositive ==
  ASSUME Sound
  PROVE  PriorUnit \in Nat \ {0} /\ EffectiveUnit \in Nat \ {0}
<1> DEFINE squares == [a \in Children |-> Squared(a)]
           effects == [a \in Children |-> Effective(a)]
<1>1. squares \in [Children -> Nat] /\ effects \in [Children -> Nat]
  BY DEF Sound, Squared, Effective
<1>2. IsFiniteSet(Children)
  BY PolicyTargetAssumption
<1>3. PriorUnit = Total(squares) /\ EffectiveUnit = Total(effects)
  BY DEF PriorUnit, EffectiveUnit
<1>4. \A a \in Children : squares[a] # 0 => effects[a] # 0
  BY DEF Sound, Squared, Effective
<1> HIDE DEF squares, effects
<1>5. PriorUnit \in Nat /\ (PriorUnit = 0 <=> \A a \in Children : squares[a] = 0)
  BY <1>1, <1>2, <1>3, TotalOf
<1>6. EffectiveUnit \in Nat /\ (EffectiveUnit = 0 <=> \A a \in Children : effects[a] = 0)
  BY <1>1, <1>2, <1>3, TotalOf
<1> QED BY <1>4, <1>5, <1>6 DEF Sound

LEMMA TermsTyped ==
  ASSUME Sound, NEW a \in Children
  PROVE  /\ Squared(a) \in Nat /\ Q(a) \in Int /\ Gain(a) \in Nat /\ EffectiveGain(a) \in Nat
         /\ visits[a] > 0 /\ Squared(a) # 0 => Gain(a) # 0
<1>1. PICK e \in Nat \ {0}, p \in Nat \ {0} : e = EffectiveUnit /\ p = PriorUnit
  BY UnitsPositive
<1>2. /\ Squared(a) \in Nat /\ Effective(a) \in Nat /\ value[a] \in Int /\ root \in Nat
      /\ CNum \in Nat \ {0} /\ CDen \in Nat \ {0} /\ ValueUnit \in Nat \ {0}
  BY PolicyTargetAssumption DEF Sound, Squared, Effective
<1>3. Q(a) \in Int
  BY <1>1, <1>2 DEF Q
<1>4. Gain(a) \in Nat /\ EffectiveGain(a) \in Nat
  BY <1>1, <1>2 DEF Gain, EffectiveGain
<1>5. ASSUME visits[a] > 0, Squared(a) # 0
      PROVE  Gain(a) # 0
  <2>1. root # 0
    BY <1>5 DEF Sound, NTotal
  <2>2. \A x, y \in Nat \ {0} : x * y \in Nat \ {0}
    OBVIOUS
  <2>3. CNum * ValueUnit * root \in Nat \ {0}
    BY <1>2, <2>1, <2>2
  <2>4. CNum * ValueUnit * root * Squared(a) * e \in Nat \ {0}
    BY <1>1, <1>2, <1>5, <2>2, <2>3
  <2> QED BY <1>1, <2>4 DEF Gain
<1> QED BY <1>2, <1>3, <1>4, <1>5

--------------------------------------------------------------------------------
(* The visits that are taken away. *)

LEMMA NForcedIs ==
  ASSUME Sound, NEW a \in Children
  PROVE  NForced(a) \in Nat
<1>1. PICK p \in Nat, s \in Nat, t \in Nat : p = PriorUnit /\ s = Squared(a) /\ t = NTotal
  BY UnitsPositive, TermsTyped DEF Sound, NTotal
<1>2. KForced * t \in Nat /\ KForced * s * t \in Nat
  <2>1. KForced \in Nat
    BY PolicyTargetAssumption
  <2> QED BY <1>1, <2>1
<1> DEFINE roots == {m \in 0 .. KForced * t : m * m * p <= KForced * s * t}
<1>3. roots \in SUBSET (0 .. KForced * t) /\ roots # {}
  <2>1. 0 * 0 * p <= KForced * s * t /\ 0 \in 0 .. KForced * t
    BY <1>1, <1>2
  <2> QED BY <2>1
<1>4. NForced(a) = Max(roots)
  BY <1>1 DEF NForced
<1>5. Max(roots) \in roots
  <2> HIDE DEF roots
  <2> QED BY <1>2, <1>3, MaxExists
<1> QED BY <1>4, <1>5

(* A quotient is the largest factor. *)
LEMMA Quotient ==
  ASSUME NEW x \in Int, NEW d \in Nat \ {0}, NEW s \in Int
  PROVE  x \div d \in Int /\ (s <= x \div d <=> s * d <= x)
<1>1. PICK q \in Int : q = x \div d
  OBVIOUS
<1>2. q * d <= x /\ x < (q + 1) * d
  BY <1>1
<1>3. CASE s <= q
  <2>1. s * d <= q * d
    BY <1>3
  <2> QED BY <1>1, <1>2, <1>3, <2>1
<1>4. CASE s > q
  <2>1. (q + 1) * d <= s * d
    BY <1>4
  <2> QED BY <1>1, <1>2, <1>4, <2>1
<1> QED BY <1>3, <1>4

(* A child of v visits, of which nf are forced, whose exploration term times *)
(* the best child's 1 + n is gain, and whose distance from the best child's  *)
(* score is diff: the quotient gives the largest number of visits without    *)
(* which it is not ahead.                                                    *)
Quota(v, diff, gain) ==
  IF diff <= 0 THEN 0 ELSE Max({0, ((v + 1) * diff - gain) \div diff})
Takes(v, nf, diff, gain) == {s \in 1 .. Min({nf, v}) : gain <= diff * (1 + (v - s))}

LEMMA ClosedForm ==
  ASSUME NEW v \in Nat, NEW nf \in Nat, NEW diff \in Int, NEW gain \in Nat \ {0}
  PROVE  LET most == Max({0} \union Takes(v, nf, diff, gain))
         IN  /\ most \in 0 .. v
             /\ Max({0, v - Min({nf, Quota(v, diff, gain)})}) = v - most
<1> DEFINE takes == Takes(v, nf, diff, gain)
           quota == Quota(v, diff, gain)
<1>1. CASE diff <= 0
  <2>1. takes = {}
    <3> SUFFICES ASSUME NEW s \in 1 .. Min({nf, v}), gain <= diff * (1 + (v - s)) PROVE FALSE
      BY DEF Takes
    <3>1. Min({nf, v}) \in Int /\ Min({nf, v}) <= v
      BY MinOfTwo
    <3>2. 1 + (v - s) \in Nat
      BY <3>1
    <3>3. diff * (1 + (v - s)) <= 0
      BY <1>1, <3>2
    <3> QED BY <3>2, <3>3
  <2>2. Max({0} \union takes) = 0
    <3>1. {0} \union takes = {0}
      BY <2>1
    <3> QED BY <3>1, MaxIs
  <2>3. quota = 0
    BY <1>1 DEF Quota
  <2>4. Min({nf, 0}) = 0 /\ Max({0, v - 0}) = v
    BY MinOfTwo, MaxOfTwo
  <2> QED BY <2>2, <2>3, <2>4
<1>2. CASE diff > 0
  <2>1. PICK q \in Int : q = ((v + 1) * diff - gain) \div diff
    BY <1>2
  <2>2. \A s \in Int : s <= q <=> s * diff <= (v + 1) * diff - gain
    BY <1>2, <2>1, Quotient
  <2>3. \A s \in Int : s <= q <=> gain <= diff * (1 + (v - s))
    <3>1. \A s \in Int : diff * (1 + (v - s)) = (v + 1) * diff - s * diff
      OBVIOUS
    <3>2. \A s \in Int : s * diff \in Int /\ (v + 1) * diff \in Int
      OBVIOUS
    <3> QED BY <2>2, <3>1, <3>2
  <2>4. q <= v
    <3>1. ~(gain <= diff * (1 + (v - (v + 1))))
      <4>1. 1 + (v - (v + 1)) = 0 /\ diff * 0 = 0
        OBVIOUS
      <4> QED BY <4>1
    <3>2. ~(v + 1 <= q)
      BY <2>3, <3>1
    <3> QED BY <3>2
  <2>5. PICK low : low = Min({nf, v})
    OBVIOUS
  <2>6. low \in Nat /\ low = IF nf <= v THEN nf ELSE v
    BY <2>5, MinOfTwo
  <2>7. takes = {s \in 1 .. low : s <= q}
    <3>1. takes = {s \in 1 .. low : gain <= diff * (1 + (v - s))}
      BY <2>5 DEF Takes
    <3>2. \A s \in 1 .. low : s <= q <=> gain <= diff * (1 + (v - s))
      BY <2>3, <2>6
    <3> HIDE DEF takes
    <3> QED BY <3>1, <3>2
  <2>8. quota \in Nat /\ quota = IF 0 <= q THEN q ELSE 0
    BY <1>2, <2>1, MaxOfTwo DEF Quota
  <2>9. PICK m \in Nat : m = Min({nf, quota}) /\ m = IF nf <= quota THEN nf ELSE quota
    <3> HIDE DEF quota
    <3> QED BY <2>8, MinOfTwo
  <2>10. m <= v /\ Max({0, v - m}) = v - m
    <3>1. m <= v
      <4>1. quota <= v
        BY <2>4, <2>8
      <4> HIDE DEF quota
      <4> QED BY <2>8, <2>9, <4>1
    <3>2. v - m \in Nat
      BY <2>9, <3>1
    <3> QED BY <3>1, <3>2, MaxOfTwo
  <2>11. Max({0} \union takes) = m
    <3>1. {0} \union takes \in SUBSET Int
      BY <2>7
    <3>2. m \in {0} \union takes
      BY <2>4, <2>6, <2>7, <2>8, <2>9
    <3>3. \A s \in {0} \union takes : s <= m
      BY <2>6, <2>7, <2>8, <2>9
    <3> HIDE DEF takes
    <3> QED BY <3>1, <3>2, <3>3, MaxIs
  <2> QED BY <2>9, <2>10, <2>11
<1> QED BY <1>1, <1>2

(* NotStronger and Weaker in the terms of the closed form. *)
LEMMA Compared ==
  ASSUME Sound, NEW a \in Children, NEW n \in Int
  PROVE  /\ ScaledDiff(a) \in Int /\ Gain(a) * (1 + visits[Best]) \in Nat
         /\ NotStronger(a, n) <=> Gain(a) * (1 + visits[Best]) <= ScaledDiff(a) * (1 + n)
         /\ Weaker(a, n) <=> Gain(a) * (1 + visits[Best]) < ScaledDiff(a) * (1 + n)
<1>1. PICK qa \in Int, qb \in Int, ga \in Nat, eb \in Nat, b \in Nat :
        /\ qa = Q(a) /\ qb = Q(Best) /\ ga = Gain(a) /\ eb = EffectiveGain(Best)
        /\ b = visits[Best]
  BY BestIs, TermsTyped DEF Sound
<1>2. ScaledDiff(a) = (qb - qa) * (1 + b) + eb
  BY <1>1 DEF ScaledDiff
<1>3. /\ NotStronger(a, n) <=> (qa * (1 + n) + ga) * (1 + b) <= (qb * (1 + b) + eb) * (1 + n)
      /\ Weaker(a, n) <=> (qa * (1 + n) + ga) * (1 + b) < (qb * (1 + b) + eb) * (1 + n)
  BY <1>1 DEF NotStronger, Weaker, ScoreOf, ScoreOfBest
<1>4. /\ (qa * (1 + n) + ga) * (1 + b) = qa * (1 + n) * (1 + b) + ga * (1 + b)
      /\ (qb * (1 + b) + eb) * (1 + n) = qb * (1 + n) * (1 + b) + eb * (1 + n)
      /\ ((qb - qa) * (1 + b) + eb) * (1 + n)
           = qb * (1 + n) * (1 + b) - qa * (1 + n) * (1 + b) + eb * (1 + n)
  OBVIOUS
<1>5. PICK u \in Int, w \in Int, x \in Int, y \in Nat :
        /\ u = qa * (1 + n) * (1 + b) /\ w = qb * (1 + n) * (1 + b)
        /\ x = eb * (1 + n) /\ y = ga * (1 + b)
  OBVIOUS
<1>6. (NotStronger(a, n) <=> u + y <= w + x) /\ (Weaker(a, n) <=> u + y < w + x)
  BY <1>3, <1>4, <1>5
<1>7. ScaledDiff(a) * (1 + n) = w - u + x
  BY <1>2, <1>4, <1>5
<1>8. ScaledDiff(a) \in Int /\ Gain(a) * (1 + visits[Best]) = y
  BY <1>1, <1>2, <1>5
<1> QED BY <1>5, <1>6, <1>7, <1>8

Taken(a) ==
  Max({0} \union {s \in 1 .. Min({NForced(a), visits[a]}) : NotStronger(a, visits[a] - s)})
Left(a) == visits[a] - (IF a = Best \/ Squared(a) = 0 THEN 0 ELSE Taken(a))

(* The counts in the course of the loop. *)
Pruned ==
  /\ pruned \in [Children -> Nat] /\ todo \subseteq Visited \ {Best}
  /\ \A a \in Children : pruned[a] = IF a \in Visited \ todo THEN Left(a) ELSE visits[a]
  /\ \A a \in Children : pruned[a] <= visits[a]
  /\ done => todo = {} /\ target = Recorded

(* The whole of a pruning step. *)
LEMMA TakenRight ==
  ASSUME Sound, NEW a \in Visited, Squared(a) # 0
  PROVE  /\ Taken(a) \in 0 .. visits[a]
         /\ Max({0, visits[a] - Min({NForced(a), MaxSubtract(a)})}) = visits[a] - Taken(a)
<1>1. a \in Children /\ visits[a] \in Nat /\ visits[a] > 0
  BY DEF Visited, Sound
<1>2. PICK v \in Nat, nf \in Nat, diff \in Int, gain \in Nat \ {0} :
        /\ v = visits[a] /\ nf = NForced(a) /\ diff = ScaledDiff(a)
        /\ gain = Gain(a) * (1 + visits[Best])
  <2>1. Gain(a) \in Nat \ {0}
    BY <1>1, TermsTyped
  <2>2. 1 + visits[Best] \in Nat \ {0}
    BY BestIs DEF Sound
  <2>3. \A x, y \in Nat \ {0} : x * y \in Nat \ {0}
    OBVIOUS
  <2>4. Gain(a) * (1 + visits[Best]) \in Nat \ {0}
    BY <2>1, <2>2, <2>3
  <2>5. NForced(a) \in Nat /\ ScaledDiff(a) \in Int
    BY <1>1, NForcedIs, Compared
  <2> QED BY <1>1, <2>4, <2>5
<1>3. MaxSubtract(a) = Quota(v, diff, gain)
  BY <1>2 DEF MaxSubtract, Quota
<1>4. {s \in 1 .. Min({NForced(a), visits[a]}) : NotStronger(a, visits[a] - s)}
        = Takes(v, nf, diff, gain)
  <2>1. Min({nf, v}) \in Int
    BY MinOfTwo
  <2>2. ASSUME NEW s \in 1 .. Min({nf, v})
        PROVE  NotStronger(a, v - s) <=> gain <= diff * (1 + (v - s))
    <3>1. v - s \in Int
      BY <2>1
    <3> QED BY <1>1, <1>2, <3>1, Compared
  <2> QED BY <1>2, <2>2 DEF Takes
<1>5. Taken(a) = Max({0} \union Takes(v, nf, diff, gain))
  BY <1>4 DEF Taken
<1>6. /\ Taken(a) \in 0 .. v
      /\ Max({0, v - Min({nf, MaxSubtract(a)})}) = v - Taken(a)
  <2>1. /\ Max({0} \union Takes(v, nf, diff, gain)) \in 0 .. v
        /\ Max({0, v - Min({nf, Quota(v, diff, gain)})})
             = v - Max({0} \union Takes(v, nf, diff, gain))
    BY ClosedForm
  <2> QED BY <1>3, <1>5, <2>1, Zenon
<1> QED BY <1>2, <1>6, Zenon

(* A child that has lost visits is strictly weaker with one of them back.    *)
LEMMA OneBack ==
  ASSUME Sound, NEW a \in Visited, Squared(a) # 0, Taken(a) # 0
  PROVE  Weaker(a, visits[a] - Taken(a) + 1)
<1>1. a \in Children /\ visits[a] \in Nat /\ visits[a] > 0
  BY DEF Visited, Sound
<1> DEFINE S == {s \in 1 .. Min({NForced(a), visits[a]}) : NotStronger(a, visits[a] - s)}
<1>2. Taken(a) \in {0} \union S
  <2>1. PICK m \in Nat : m = Min({NForced(a), visits[a]})
    BY <1>1, NForcedIs, MinOfTwo
  <2>2. {0} \union S \subseteq 0 .. m
    BY <2>1
  <2>3. PICK all : all = {0} \union S
    OBVIOUS
  <2>4. all \in SUBSET (0 .. m) /\ all # {}
    BY <2>2, <2>3
  <2>5. Max(all) \in all
    BY <2>4, MaxExists
  <2> QED BY <2>3, <2>5 DEF Taken
<1>3. PICK t \in Nat : t = Taken(a) /\ NotStronger(a, visits[a] - t) /\ t <= visits[a]
  <2>1. Taken(a) \in 0 .. visits[a]
    BY TakenRight
  <2>2. Taken(a) \in S
    BY <1>2
  <2>3. NotStronger(a, visits[a] - Taken(a))
    BY <2>2
  <2> QED BY <1>1, <2>1, <2>3
<1>4. PICK n \in Nat : n = visits[a] - t
  BY <1>1, <1>3
<1>5. PICK gain \in Nat \ {0}, diff \in Int :
        gain = Gain(a) * (1 + visits[Best]) /\ diff = ScaledDiff(a)
  <2>1. Gain(a) \in Nat \ {0} /\ 1 + visits[Best] \in Nat \ {0}
    BY <1>1, TermsTyped, BestIs DEF Sound
  <2>2. \A x, y \in Nat \ {0} : x * y \in Nat \ {0}
    OBVIOUS
  <2>3. Gain(a) * (1 + visits[Best]) \in Nat \ {0}
    BY <2>1, <2>2
  <2>4. ScaledDiff(a) \in Int
    BY <1>1, <1>4, Compared
  <2> QED BY <2>3, <2>4
<1>6. gain <= diff * (1 + n)
  BY <1>1, <1>3, <1>4, <1>5, Compared
<1>7. gain < diff * (1 + (n + 1))
  <2>1. diff * (1 + (n + 1)) = diff * (1 + n) + diff
    OBVIOUS
  <2>2. diff > 0
    <3>1. \A d \in Int, k \in Nat : d <= 0 => d * (1 + k) <= 0
      OBVIOUS
    <3> QED BY <1>6, <3>1
  <2>3. PICK p \in Int : p = diff * (1 + n)
    OBVIOUS
  <2> QED BY <1>6, <2>1, <2>2, <2>3
<1>8. Weaker(a, n + 1)
  <2>1. n + 1 \in Int
    OBVIOUS
  <2> QED BY <1>1, <1>5, <1>7, <2>1, Compared
<1> QED BY <1>3, <1>4, <1>8

LEMMA SameLeft ==
  ASSUME inputs' = inputs
  PROVE  \A a : Left(a)' = Left(a)
<1>1. /\ visits' = visits /\ Best' = Best
      /\ \A a : Squared(a)' = Squared(a) /\ NForced(a)' = NForced(a)
      /\ \A a, n : NotStronger(a, n)' <=> NotStronger(a, n)
  BY SameInputs DEF inputs
<1>2. \A a : Taken(a)' = Taken(a)
  BY <1>1 DEF Taken
<1> QED BY <1>1, <1>2 DEF Left

LEMMA PrunedInit == Init => Pruned
<1> SUFFICES ASSUME Init PROVE Pruned
  OBVIOUS
<1>1. Sound
  BY SoundInit
<1>2. pruned = visits /\ todo = Visited \ {Best} /\ done = FALSE
  BY DEF Init
<1>3. \A a \in Children : visits[a] \in Nat /\ visits[a] <= visits[a]
  BY <1>1 DEF Sound
<1>4. ASSUME NEW a \in Children
      PROVE  pruned[a] = IF a \in Visited \ todo THEN Left(a) ELSE visits[a]
  <2>1. a \in Visited \ todo => a = Best
    BY <1>2
  <2>2. a = Best => Left(a) = visits[a]
    BY <1>3 DEF Left
  <2> QED BY <1>2, <2>1, <2>2
<1> QED BY <1>1, <1>2, <1>3, <1>4 DEF Pruned, Sound

LEMMA PrunedNext == Sound /\ Pruned /\ [Next]_vars => Pruned'
<1> SUFFICES ASSUME Sound, Pruned, [Next]_vars PROVE Pruned'
  OBVIOUS
<1>1. inputs' = inputs
  BY DEF Next, Prune, Record, inputs, vars
<1>2. visits' = visits /\ Visited' = Visited /\ Best' = Best /\ NTotal' = NTotal
      /\ \A a : Left(a)' = Left(a)
  BY <1>1, SameInputs, SameLeft DEF inputs
<1>3. ASSUME NEW a \in todo, Prune(a)
      PROVE  Pruned'
  <2>1. a \in Children /\ a \in Visited /\ a # Best /\ pruned[a] = visits[a] /\ ~done
        /\ visits[a] \in Nat
    BY <1>3 DEF Pruned, Visited, Sound
  <2>2. todo' = todo \ {a} /\ target' = target /\ done' = done
        /\ pruned' = IF Squared(a) = 0 THEN pruned
                     ELSE [pruned EXCEPT
                             ![a] = Max({0, visits[a] - Min({NForced(a), MaxSubtract(a)})})]
    BY <1>3, <2>1 DEF Prune
  <2>3. /\ Left(a) \in Nat /\ Left(a) <= visits[a]
        /\ pruned' = IF Squared(a) = 0 THEN pruned ELSE [pruned EXCEPT ![a] = Left(a)]
        /\ Squared(a) = 0 => Left(a) = visits[a]
    <3>1. CASE Squared(a) = 0
      BY <2>1, <2>2, <3>1 DEF Left
    <3>2. CASE Squared(a) # 0
      <4>1. /\ Taken(a) \in 0 .. visits[a] /\ Left(a) = visits[a] - Taken(a)
            /\ Max({0, visits[a] - Min({NForced(a), MaxSubtract(a)})}) = visits[a] - Taken(a)
        BY <2>1, <3>2, TakenRight DEF Left
      <4>2. Left(a) \in Nat /\ Left(a) <= visits[a]
        BY <2>1, <4>1
      <4> QED BY <2>2, <3>2, <4>1, <4>2
    <3> QED BY <3>1, <3>2
  <2>4. /\ pruned' \in [Children -> Nat] /\ pruned'[a] = Left(a)
        /\ \A b \in Children : b # a => pruned'[b] = pruned[b]
    BY <2>1, <2>3 DEF Pruned
  <2>5. ASSUME NEW b \in Children
        PROVE  /\ pruned'[b] = IF b \in Visited \ todo' THEN Left(b) ELSE visits[b]
               /\ pruned'[b] <= visits[b]
    <3>1. CASE b = a
      BY <2>1, <2>2, <2>3, <2>4, <3>1
    <3>2. CASE b # a
      <4>1. b \in Visited \ todo' <=> b \in Visited \ todo
        BY <2>2, <3>2
      <4> QED BY <2>4, <3>2, <4>1 DEF Pruned
    <3> QED BY <3>1, <3>2
  <2>6. todo' \subseteq Visited \ {Best}
    BY <2>2 DEF Pruned
  <2> QED BY <1>2, <2>1, <2>2, <2>4, <2>5, <2>6 DEF Pruned
<1>4. CASE Record
  <2>1. /\ todo = {} /\ todo' = {} /\ pruned' = pruned /\ target' = Recorded
        /\ pruned \in [Children -> Nat]
    BY <1>4 DEF Record, Pruned
  <2>2. Recorded' = Recorded
    BY <1>2, <2>1 DEF Recorded, Remaining, Scaled
  <2> QED BY <1>2, <2>1, <2>2 DEF Pruned
<1>5. CASE UNCHANGED vars
  <2>1. pruned' = pruned /\ todo' = todo /\ target' = target /\ done' = done
    BY <1>5 DEF vars
  <2>2. Recorded' = Recorded
    BY <1>2, <2>1 DEF Recorded, Remaining, Scaled
  <2> QED BY <1>2, <2>1, <2>2 DEF Pruned
<1> QED BY <1>3, <1>4, <1>5 DEF Next

THEOREM PrunedHolds == Spec => [](Sound /\ Pruned)
<1>1. Init => Sound /\ Pruned
  BY SoundInit, PrunedInit
<1>2. Sound /\ Pruned /\ [Next]_vars => (Sound /\ Pruned)'
  BY SoundNext, PrunedNext
<1> QED BY <1>1, <1>2, PTL DEF Spec

(* Each child the loop has passed has lost as many of its forced visits as   *)
(* its score allows, for every prior, value and number of visits, and in     *)
(* every order of the loop: the quotient and the floor of policy_target are  *)
(* that maximum.  A boundary that is met exactly is all that can keep such a *)
(* child from being strictly weaker than the best one.                       *)
THEOREM ForcedCorrect == Spec => []ForcedVisitsRemoved
<1>1. Sound /\ Pruned => ForcedVisitsRemoved
  <2> SUFFICES ASSUME Sound, Pruned, NEW a \in Visited \ todo
               PROVE  pruned[a] = Left(a) /\ (pruned[a] < visits[a] => Weaker(a, pruned[a] + 1))
    BY DEF ForcedVisitsRemoved, Left, Taken
  <2>1. pruned[a] = Left(a) /\ visits[a] \in Nat
    BY DEF Pruned, Visited, Sound
  <2>2. ASSUME pruned[a] < visits[a]
        PROVE  Weaker(a, pruned[a] + 1)
    <3>1. Squared(a) # 0 /\ Left(a) = visits[a] - Taken(a)
      BY <2>1, <2>2 DEF Left
    <3>2. Taken(a) # 0
      BY <2>1, <2>2, <3>1
    <3>3. Weaker(a, visits[a] - Taken(a) + 1)
      BY <3>1, <3>2, OneBack
    <3> QED BY <2>1, <3>1, <3>3
  <2> QED BY <2>1, <2>2
<1> QED BY <1>1, PrunedHolds, PTL


--------------------------------------------------------------------------------
(* The counts that are recorded. *)

LEMMA Cancel ==
  ASSUME NEW k \in Nat \ {0}, NEW x \in Int, NEW y \in Int, k * x <= k * y
  PROVE  x <= y
<1> SUFFICES ASSUME x >= y + 1 PROVE FALSE
  OBVIOUS
<1>1. k * (y + 1) <= k * x
  OBVIOUS
<1>2. k * (y + 1) = k * y + k
  OBVIOUS
<1>3. k * x \in Int /\ k * y \in Int /\ k * (y + 1) \in Int
  OBVIOUS
<1> QED BY <1>1, <1>2, <1>3

(* m * n / k, a half rounded up, is at most a half away. *)
LEMMA Rounded ==
  ASSUME NEW m \in Nat, NEW n \in Nat, NEW k \in Nat \ {0}
  PROVE  LET q == (2 * m * n + k) \div (2 * k)
         IN  /\ q \in Nat
             /\ 2 * k * q <= 2 * n * m + k
             /\ 2 * n * m <= 2 * k * q + k
<1>1. PICK x \in Nat : x = 2 * n * m
  OBVIOUS
<1>2. 2 * m * n + k = x + k /\ 2 * k \in Nat \ {0} /\ x + k \in Int
  BY <1>1
<1>3. PICK q \in Int : q = (x + k) \div (2 * k)
  BY <1>2, Quotient
<1>4. \A s \in Int : s <= q <=> s * (2 * k) <= x + k
  BY <1>2, <1>3, Quotient
<1>5. q \in Nat
  <2>1. 0 <= q
    BY <1>1, <1>4
  <2> QED BY <2>1
<1>6. q * (2 * k) <= x + k
  BY <1>4
<1>7. ~((q + 1) * (2 * k) <= x + k)
  BY <1>4
<1>8. (q + 1) * (2 * k) = q * (2 * k) + 2 * k /\ 2 * k * q = q * (2 * k)
  OBVIOUS
<1>9. PICK y \in Int : y = q * (2 * k)
  OBVIOUS
<1>10. y <= x + k /\ x <= y + k
  BY <1>6, <1>7, <1>8, <1>9
<1> QED BY <1>1, <1>2, <1>3, <1>5, <1>8, <1>9, <1>10

LEMMA OneFewer ==
  ASSUME NEW s, IsFiniteSet(s), NEW x \in s
  PROVE  /\ Cardinality(s \ {x}) \in Nat
         /\ Cardinality(s) = Cardinality(s \ {x}) + 1
<1>1. Cardinality(s) \in Nat
  BY FS_CardinalityType
<1>2. IsFiniteSet(s \ {x}) /\ Cardinality(s \ {x}) = Cardinality(s) - 1
  BY FS_RemoveElement
<1>3. Cardinality(s \ {x}) \in Nat
  BY <1>2, FS_CardinalityType
<1> QED BY <1>1, <1>2, <1>3

(* Terms t that are k-ths of n times the terms f, but for a half, and sums h *)
(* and g of such terms.                                                      *)
Near(f, t, n, k, D) ==
  \A a \in D : 2 * k * t[a] <= 2 * n * f[a] + k /\ 2 * n * f[a] <= 2 * k * t[a] + k
Close(g, h, n, k, u) ==
  /\ 2 * k * h[u] <= 2 * n * g[u] + k * Cardinality(u)
  /\ 2 * n * g[u] <= 2 * k * h[u] + k * Cardinality(u)

(* The sums stay as close as their terms. *)
LEMMA SumsClose ==
  ASSUME NEW D, IsFiniteSet(D), NEW f \in [D -> Nat], NEW t \in [D -> Nat],
         NEW g \in [SUBSET D -> Nat], NEW h \in [SUBSET D -> Nat], Sums(f, g, D), Sums(t, h, D),
         NEW n \in Nat, NEW k \in Nat, Near(f, t, n, k, D)
  PROVE  \A u \in SUBSET D : Close(g, h, n, k, u)
<1> DEFINE B == {u \in SUBSET D : ~Close(g, h, n, k, u)}
<1>1. ASSUME B # {} PROVE FALSE
  <2>1. PICK u \in B : \A v \in SUBSET u : v # u => v \notin B
    <3>1. B \in SUBSET SUBSET D
      OBVIOUS
    <3> HIDE DEF B
    <3> QED BY <1>1, <3>1, SmallestSet
  <2>2. CASE u = {}
    <3>1. g[u] = 0 /\ h[u] = 0
      BY <2>2 DEF Sums
    <3>2. Cardinality(u) = 0
      BY <2>2, FS_EmptySet
    <3>3. Close(g, h, n, k, u)
      BY <3>1, <3>2 DEF Close
    <3> QED BY <3>3
  <2>3. CASE u # {}
    <3>1. Pick(u) \in u
      BY <2>3 DEF Pick
    <3>2. PICK x, v : x = Pick(u) /\ v = u \ {x}
      OBVIOUS
    <3>3. x \in u /\ x \in D /\ g[u] = f[x] + g[v] /\ h[u] = t[x] + h[v]
      BY <2>3, <3>1, <3>2 DEF Sums
    <3>4. v \in SUBSET u /\ v # u /\ v \in SUBSET D
      BY <3>2, <3>3
    <3>5. Cardinality(v) \in Nat /\ Cardinality(u) = Cardinality(v) + 1
      <4>1. IsFiniteSet(u)
        BY FS_Subset
      <4> HIDE DEF B
      <4> QED BY <3>2, <3>3, <4>1, OneFewer
    <3>6. Close(g, h, n, k, v)
      BY <2>1, <3>4
    <3>7. PICK fx \in Nat, tx \in Nat, gv \in Nat, hv \in Nat, c \in Nat :
            /\ fx = f[x] /\ tx = t[x] /\ gv = g[v] /\ hv = h[v] /\ c = Cardinality(v)
      BY <3>3, <3>4, <3>5
    <3>8. /\ 2 * k * tx <= 2 * n * fx + k /\ 2 * n * fx <= 2 * k * tx + k
          /\ 2 * k * hv <= 2 * n * gv + k * c /\ 2 * n * gv <= 2 * k * hv + k * c
      BY <3>3, <3>6, <3>7 DEF Near, Close
    <3>9. /\ 2 * k * (tx + hv) <= 2 * n * (fx + gv) + k * (c + 1)
          /\ 2 * n * (fx + gv) <= 2 * k * (tx + hv) + k * (c + 1)
      <4>1. /\ 2 * k * (tx + hv) = 2 * k * tx + 2 * k * hv
            /\ 2 * n * (fx + gv) = 2 * n * fx + 2 * n * gv
            /\ k * (c + 1) = k * c + k
        OBVIOUS
      <4>2. PICK y1 \in Int, y2 \in Int, y3 \in Int, y4 \in Int, y5 \in Int :
              /\ y1 = 2 * k * tx /\ y2 = 2 * k * hv /\ y3 = 2 * n * fx /\ y4 = 2 * n * gv
              /\ y5 = k * c
        OBVIOUS
      <4> QED BY <3>8, <4>1, <4>2
    <3>10. Close(g, h, n, k, u)
      BY <3>3, <3>5, <3>7, <3>9 DEF Close
    <3> QED BY <3>10
  <2> QED BY <2>2, <2>3
<1> QED BY <1>1

(* What the rounding loses or adds, over all the counts. *)
LEMMA RoundingSum ==
  ASSUME NEW D, IsFiniteSet(D), NEW f \in [D -> Nat], \E a \in D : f[a] # 0, NEW n \in Nat
  PROVE  LET t == [a \in D |-> (2 * f[a] * n + Total(f)) \div (2 * Total(f))]
         IN  2 * (Total(t) - n) \in -Cardinality(D) .. Cardinality(D)
<1>1. Total(f) \in Nat /\ ~(Total(f) = 0)
  BY TotalOf
<1>2. PICK k \in Nat \ {0} : k = Total(f)
  BY <1>1, Zenon
<1> DEFINE t == [a \in D |-> (2 * f[a] * n + k) \div (2 * k)]
<1>3. t \in [D -> Nat] /\ Near(f, t, n, k, D)
  BY Rounded DEF Near
<1> HIDE DEF t
<1>4. PICK g \in [SUBSET D -> Nat] : Sums(f, g, D) /\ Total(f) = g[D]
  BY TotalSums
<1>5. PICK h \in [SUBSET D -> Nat] : Sums(t, h, D) /\ Total(t) = h[D]
  BY <1>3, TotalSums
<1>6. Sums(f, g, D) /\ Sums(t, h, D) /\ g[D] = k
  BY <1>2, <1>4, <1>5, Zenon
<1>7. PICK c \in Nat : c = Cardinality(D)
  BY FS_CardinalityType
<1>8. PICK m \in Nat : m = h[D]
  OBVIOUS
<1>9. 2 * k * m <= 2 * n * k + k * c /\ 2 * n * k <= 2 * k * m + k * c
  <2>1. k \in Nat /\ D \in SUBSET D
    OBVIOUS
  <2>2. \A u \in SUBSET D : Close(g, h, n, k, u)
    BY <1>3, <1>6, <2>1, SumsClose, Zenon
  <2>3. Close(g, h, n, k, D)
    BY <2>1, <2>2, Zenon
  <2> QED BY <1>6, <1>7, <1>8, <2>3, Zenon DEF Close
<1>10. k * (2 * (m - n)) <= k * c /\ k * (-c) <= k * (2 * (m - n))
  <2>1. /\ k * (2 * (m - n)) = 2 * k * m - 2 * n * k
        /\ k * (-c) = -(k * c)
    OBVIOUS
  <2>2. PICK y1 \in Int, y2 \in Int, y3 \in Int :
          y1 = 2 * k * m /\ y2 = 2 * n * k /\ y3 = k * c
    OBVIOUS
  <2> QED BY <1>9, <2>1, <2>2
<1>11. 2 * (m - n) <= c /\ -c <= 2 * (m - n)
  BY <1>10, Cancel
<1>12. 2 * (m - n) \in -c .. c
  BY <1>11
<1>13. Total(t) = m
  BY <1>5, <1>8, Zenon
<1> QED BY <1>2, <1>7, <1>12, <1>13, Zenon DEF t

(* The best child keeps its visits, and has no fewer left than another. *)
LEMMA BestStays ==
  ASSUME Sound, Pruned
  PROVE  /\ pruned[Best] = visits[Best]
         /\ \A a \in Children : pruned[a] \in Nat /\ pruned[a] <= pruned[Best]
         /\ \A a \in Remaining : visits[a] > 1
         /\ Remaining # {} => Best \in Remaining
<1>1. Best \in Children /\ \A a \in Children : visits[a] \in Nat /\ visits[a] <= visits[Best]
  BY BestIs DEF Sound
<1>2. Left(Best) = visits[Best]
  BY <1>1 DEF Left
<1>3. pruned[Best] = visits[Best]
  BY <1>1, <1>2 DEF Pruned
<1>4. \A a \in Children : pruned[a] \in Nat /\ pruned[a] <= visits[a]
  BY DEF Pruned
<1>5. \A a \in Children : pruned[a] <= pruned[Best]
  BY <1>1, <1>3, <1>4
<1>6. \A a \in Remaining : visits[a] > 1
  BY <1>1, <1>4 DEF Remaining
<1>7. Remaining # {} => Best \in Remaining
  BY <1>1, <1>4, <1>5 DEF Remaining
<1> QED BY <1>3, <1>4, <1>5, <1>6, <1>7

(* The counts with no child left: all visits are the best one's. *)
LEMMA RecordedAlone ==
  ASSUME Sound, done, target = Recorded, NTotal > 0, Remaining = {}
  PROVE  TargetFollowsSearch
<1>1. NTotal \in Nat /\ NTotal # 0
  BY DEF Sound, NTotal
<1>2. target = [a \in {Best} |-> NTotal]
  BY <1>1 DEF Recorded
<1>3. target \in [{Best} -> Nat] /\ DOMAIN target = {Best} /\ target[Best] = NTotal
  BY <1>1, <1>2
<1>4. Total(target) = target[Best]
  BY <1>3, TotalOfOne
<1>5. Total(target) = NTotal
  BY <1>3, <1>4, Zenon
<1>6. Cardinality({Best}) = 1
  BY FS_Singleton
<1>7. 2 * (NTotal - NTotal) \in -1 .. 1
  BY <1>1
<1>8. 2 * (Total(target) - NTotal) \in -Cardinality(DOMAIN target) .. Cardinality(DOMAIN target)
  BY <1>3, <1>5, <1>6, <1>7, Zenon
<1>9. Best \in DOMAIN target /\ \A a \in DOMAIN target : target[a] <= target[Best]
  BY <1>1, <1>3
<1> QED BY <1>3, <1>8, <1>9, Zenon DEF TargetFollowsSearch

LEMMA RecordedScaled ==
  ASSUME Sound, Pruned, done, target = Recorded, NTotal > 0, Remaining # {}
  PROVE  TargetFollowsSearch
<1> DEFINE f == Restrict(pruned, Remaining)
<1>1. PICK n \in Nat : n = NTotal /\ n # 0
  BY DEF Sound, NTotal
<1>2. IsFiniteSet(Remaining)
  BY PolicyTargetAssumption, FS_Subset DEF Remaining
<1>3. f \in [Remaining -> Nat] /\ \A a \in Remaining : f[a] = pruned[a] /\ f[a] # 0
  BY DEF Restrict, Remaining, Pruned
<1> HIDE DEF f
<1>4. Total(f) \in Nat /\ ~(Total(f) = 0)
  BY <1>2, <1>3, TotalOf
<1>5. PICK k \in Nat \ {0} : k = Total(f)
  BY <1>4, Zenon
<1>6. target = [a \in Remaining |-> Scaled(a)]
  BY <1>1 DEF Recorded
<1>7. \A a \in Remaining : Scaled(a) = (2 * f[a] * n + Total(f)) \div (2 * Total(f))
  BY <1>1, <1>3, Zenon DEF Scaled, f
<1>8. DOMAIN target = Remaining /\ Best \in Remaining
  BY <1>6, BestStays
<1>9. \A a \in Remaining : target[a] = (2 * f[a] * n + k) \div (2 * k)
  BY <1>5, <1>6, <1>7, Zenon
<1>10. ASSUME NEW a \in Remaining
       PROVE  target[a] <= target[Best]
  <2>1. PICK x \in Nat, y \in Nat : x = f[a] /\ y = f[Best] /\ x <= y
    BY <1>3, <1>8, BestStays DEF Remaining
  <2>2. PICK p \in Int, q \in Int : p = (2 * x * n + k) \div (2 * k)
                                 /\ q = (2 * y * n + k) \div (2 * k)
    BY Rounded
  <2>3. 2 * k \in Nat \ {0} /\ 2 * x * n + k \in Int /\ 2 * y * n + k \in Int
    OBVIOUS
  <2>4. p * (2 * k) <= 2 * x * n + k
    BY <2>2, <2>3, Quotient
  <2>5. 2 * x * n + k <= 2 * y * n + k
    BY <2>1
  <2>6. p * (2 * k) <= 2 * y * n + k
    <3>1. p * (2 * k) \in Int
      OBVIOUS
    <3> QED BY <2>3, <2>4, <2>5, <3>1
  <2>7. p <= q
    BY <2>2, <2>3, <2>6, Quotient
  <2> QED BY <1>8, <1>9, <2>1, <2>2, <2>7
<1>11. target = [a \in Remaining |-> (2 * f[a] * n + Total(f)) \div (2 * Total(f))]
  BY <1>6, <1>7, Zenon
<1>12. 2 * (Total(target) - n) \in -Cardinality(Remaining) .. Cardinality(Remaining)
  <2>1. \E a \in Remaining : f[a] # 0
    BY <1>3
  <2>2. 2 * (Total([a \in Remaining |-> (2 * f[a] * n + Total(f)) \div (2 * Total(f))]) - n)
          \in -Cardinality(Remaining) .. Cardinality(Remaining)
    BY <1>2, <1>3, <2>1, RoundingSum
  <2> QED BY <1>11, <2>2, Zenon
<1>13. \A a \in Remaining : visits[a] > 1
  BY BestStays
<1> QED BY <1>1, <1>8, <1>10, <1>12, <1>13, Zenon DEF TargetFollowsSearch

(* The target recorded after a search has the best child on top, drops the   *)
(* children below two visits, and its counts add up to the visits but for a  *)
(* half per child, whatever was pruned before.                               *)
THEOREM TargetCorrect == Spec => []TargetFollowsSearch
<1>1. Sound /\ Pruned => TargetFollowsSearch
  <2>1. ASSUME Sound, Pruned, done, NTotal > 0
        PROVE  TargetFollowsSearch
    <3>1. target = Recorded
      BY <2>1 DEF Pruned
    <3> QED BY <2>1, <3>1, RecordedAlone, RecordedScaled
  <2> QED BY <2>1 DEF TargetFollowsSearch
<1> QED BY <1>1, PrunedHolds, PTL
================================================================================
