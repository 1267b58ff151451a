----------------------- MODULE ReverseCurriculumProofs -----------------------
(***************************************************************************)
(* The reverse-curriculum search keeps its bracket, for every length of     *)
(* plan, every start and every budget, whatever the agent solves.           *)
(* Bracket and Ended say what lo and hi are, Quick how far the probes made  *)
(* have brought them.                                                       *)
(***************************************************************************)
EXTENDS ReverseCurriculum, FiniteSetTheorems, WellFoundedInduction, TLAPS

(* The bracket in numbers: what lo and hi say of the results seen so far. *)
Bracket ==
  /\ lo < hi
  /\ best = lo
  /\ failed = IF hi = len + 1 THEN 0 ELSE hi
  /\ \A s \in solved : s <= lo
  /\ \A f \in unsolved : hi <= f
  /\ IF lo = 0 THEN solved = {} ELSE lo \in solved
  /\ IF hi = len + 1 THEN unsolved = {} ELSE hi \in unsolved

(* What the end of the loop, or its going on, says of the bracket. *)
Ended ==
  /\ stop = "no" => lo < k /\ k < hi
  /\ stop \in {"solved", "pinned"} => hi = lo + 1
  /\ stop = "budget" => probes = budget
  /\ stop = "returned" => hi = lo + 1 \/ probes = budget

RInv == TypeOK /\ Bracket /\ Ended

(* next_probe_k gives a tail strictly inside the bracket, or none when the   *)
(* bracket is closed; doubling starts from a tail just solved.               *)
LEMMA NextInside ==
  ASSUME NEW n \in Nat \ {0}, len = n, NEW at \in 1 .. n,
         NEW low \in 0 .. n, NEW high \in 1 .. n + 1, low < high,
         high > n => at = low /\ low < n
  PROVE  LET next == NextProbeK(at, low, high)
         IN IF high = low + 1 THEN next = None
            ELSE next \in 1 .. n /\ low < next /\ next < high
<1>1. CASE high > n
  <2>1. Candidate(at, low, high) = Lesser(2 * at, n)
    BY <1>1 DEF Candidate
  <2>2. Lesser(2 * at, n) \in 1 .. n /\ low < Lesser(2 * at, n) /\ Lesser(2 * at, n) < high
    BY <1>1 DEF Lesser
  <2>. QED BY <2>1, <2>2 DEF NextProbeK
<1>2. CASE high <= n /\ high - low > 1
  <2>1. Candidate(at, low, high) = low + (high - low) \div 2
    BY <1>2 DEF Candidate
  <2>2. (high - low) \div 2 \in 1 .. (high - low) - 1
    BY <1>2
  <2>. QED BY <1>2, <2>1, <2>2 DEF NextProbeK
<1>3. CASE high <= n /\ high = low + 1
  BY <1>3 DEF NextProbeK, Candidate, None
<1>. QED BY <1>1, <1>2, <1>3

LEMMA InitInv == Init => RInv
BY ReverseCurriculumAssumption
   DEF Init, RInv, TypeOK, Bracket, Ended, Lesser, Endings

LEMMA StepInv == RInv /\ [Next]_vars => RInv'
<1>. SUFFICES ASSUME RInv, [Next]_vars PROVE RInv'
  OBVIOUS
<1>. USE ReverseCurriculumAssumption
<1>0. len \in Nat \ {0} /\ TypeOK /\ Bracket /\ Ended
  BY DEF RInv, TypeOK
<1>1. CASE ProbeSolved
  <2>0. stop = "no" /\ lo < k /\ k < hi /\ len' = len /\ hi' = hi /\ lo' = k
    BY <1>0, <1>1 DEF ProbeSolved, Probing, Ended
  <2>1. Bracket'
    BY <1>0, <1>1, <2>0 DEF ProbeSolved, Bracket, TypeOK
  <2>2. CASE k >= len
    BY <1>0, <1>1, <2>0, <2>1, <2>2 DEF ProbeSolved, Probing, RInv, TypeOK, Endings, Ended
  <2>3. CASE k < len
    <3>1. Continue(k, hi)
      BY <1>0, <1>1, <2>3 DEF ProbeSolved, TypeOK
    <3>2. LET next == NextProbeK(k, k, hi)
          IN IF hi = k + 1 THEN next = None
             ELSE next \in 1 .. len /\ k < next /\ next < hi
      BY <1>0, <2>0, <2>3, NextInside DEF TypeOK
    <3>3. \/ stop' = "pinned" /\ k' = k /\ hi = k + 1
          \/ stop' = "no" /\ k' \in 1 .. len /\ k < k' /\ k' < hi
      BY <1>0, <2>0, <3>1, <3>2 DEF Continue, None, TypeOK
    <3>. QED BY <1>0, <1>1, <2>0, <2>1, <3>3 DEF ProbeSolved, Probing, RInv, TypeOK, Endings, Ended
  <2>. QED BY <1>0, <2>2, <2>3 DEF TypeOK
<1>2. CASE ProbeFailed
  <2>0. stop = "no" /\ lo < k /\ k < hi /\ len' = len /\ lo' = lo /\ hi' = k
    BY <1>0, <1>2 DEF ProbeFailed, Probing, Ended
  <2>1. Bracket'
    BY <1>0, <1>2, <2>0 DEF ProbeFailed, Bracket, TypeOK
  <2>2. LET next == NextProbeK(k, lo, k)
        IN IF k = lo + 1 THEN next = None
           ELSE next \in 1 .. len /\ lo < next /\ next < k
    BY <1>0, <2>0, NextInside DEF TypeOK
  <2>3. \/ stop' = "pinned" /\ k' = k /\ k = lo + 1
        \/ stop' = "no" /\ k' \in 1 .. len /\ lo < k' /\ k' < k
    BY <1>0, <1>2, <2>0, <2>2 DEF ProbeFailed, Continue, None, TypeOK
  <2>. QED BY <1>0, <1>2, <2>0, <2>1, <2>3 DEF ProbeFailed, Probing, RInv, TypeOK, Endings, Ended
<1>3. CASE BudgetSpent
  BY <1>0, <1>3 DEF BudgetSpent, RInv, TypeOK, Endings, Bracket, Ended
<1>4. CASE Write
  BY <1>0, <1>4 DEF Write, RInv, TypeOK, Endings, Bracket, Ended
<1>5. CASE UNCHANGED vars
  BY <1>0, <1>5 DEF vars, RInv, TypeOK, Bracket, Ended
<1>. QED BY <1>1, <1>2, <1>3, <1>4, <1>5 DEF Next

THEOREM Invariance == Spec => []RInv
BY InitInv, StepInv, PTL DEF Spec

(* Type correctness of the search. *)
THEOREM TypeCorrect == Spec => []TypeOK
<1>1. RInv => TypeOK
  BY DEF RInv
<1>. QED BY <1>1, Invariance, PTL

LEMMA InvKept == RInv => KeptAtTheEdge
<1>. SUFFICES ASSUME RInv PROVE KeptAtTheEdge
  OBVIOUS
<1>. USE ReverseCurriculumAssumption
<1>0. TypeOK /\ Bracket /\ len \in Nat /\ lo \in Nat /\ hi \in Nat
  BY DEF RInv, TypeOK
<1>1. \A s \in solved : \A f \in unsolved : s < f
  <2>. SUFFICES ASSUME NEW s \in solved, NEW f \in unsolved PROVE s < f
    OBVIOUS
  <2>1. s \in Nat /\ f \in Nat /\ s <= lo /\ lo < hi /\ hi <= f
    BY <1>0 DEF TypeOK, Bracket
  <2>. QED BY <1>0, <2>1
<1>2. IsLongest(best, solved)
  BY <1>0 DEF TypeOK, Bracket, IsLongest
<1>3. IsShortest(failed, unsolved)
  BY <1>0 DEF TypeOK, Bracket, IsShortest
<1>. QED BY <1>1, <1>2, <1>3 DEF KeptAtTheEdge

(* The episodes kept and written are the longest tail solved and the         *)
(* shortest one failed, and the solved ones are the shorter ones.            *)
THEOREM EdgeKept == Spec => []KeptAtTheEdge
BY InvKept, Invariance, PTL

(* No episode is spent on a tail whose result is known. *)
THEOREM NoProbeWasted == Spec => []NothingProbedTwice
<1>1. RInv => NothingProbedTwice
  <2>. SUFFICES ASSUME RInv, stop = "no"
                PROVE (\A s \in solved : s < k) /\ (\A f \in unsolved : k < f)
    BY DEF NothingProbedTwice
  <2>. USE ReverseCurriculumAssumption
  <2>0. /\ TypeOK /\ Bracket /\ lo < k /\ k < hi
        /\ len \in Nat /\ lo \in Nat /\ hi \in Nat /\ k \in Nat
    BY DEF RInv, TypeOK, Ended
  <2>1. ASSUME NEW s \in solved PROVE s < k
    <3>1. s \in Nat /\ s <= lo
      BY <2>0 DEF TypeOK, Bracket
    <3>. QED BY <2>0, <3>1
  <2>2. ASSUME NEW f \in unsolved PROVE k < f
    <3>1. f \in Nat /\ hi <= f
      BY <2>0 DEF TypeOK, Bracket
    <3>. QED BY <2>0, <3>1
  <2>. QED BY <2>1, <2>2
<1>. QED BY <1>1, Invariance, PTL

(* Before its budget is spent the search ends only at the edge, with the two *)
(* episodes at it kept.                                                      *)
THEOREM EdgeFound == Spec => []EdgePinned
<1>1. RInv => EdgePinned
  <2>. SUFFICES ASSUME RInv, stop # "no", probes < budget
                PROVE  KeptAtTheEdge /\ (failed = best + 1 \/ (best = len /\ failed = 0))
    BY DEF EdgePinned
  <2>1. probes # budget
    BY ReverseCurriculumAssumption DEF RInv, TypeOK
  <2>2. hi = lo + 1
    BY <2>1 DEF RInv, TypeOK, Ended, Endings
  <2>3. best = lo /\ failed = IF hi = len + 1 THEN 0 ELSE hi
    BY DEF RInv, Bracket
  <2>4. len \in Nat /\ lo \in Nat
    BY ReverseCurriculumAssumption DEF RInv, TypeOK
  <2>. QED BY <2>2, <2>3, <2>4, InvKept
<1>. QED BY <1>1, Invariance, PTL

--------------------------------------------------------------------------------
(* How fast the frontier is found. *)

(* Induction up to n: a set of numbers without a least one is empty.         *)
LEMMA NoneUpTo ==
  ASSUME NEW n \in Nat, NEW B \in SUBSET (0 .. n), 0 \notin B,
         \A i \in 0 .. n - 1 : i \notin B => i + 1 \notin B
  PROVE  B = {}
<1> SUFFICES ASSUME B # {} PROVE FALSE
  OBVIOUS
<1> DEFINE D == 0 .. n
           downs == {0 .. i : i \in B}
<1>1. IsWellFoundedOn(StrictSubsetOrdering(D), SUBSET D)
  <2>1. IsFiniteSet(D)
    BY FS_Interval
  <2>2. FiniteSubsetsOf(D) = SUBSET D
    BY <2>1, FS_FiniteSubsetsOfFinite
  <2> QED BY <2>2, FS_StrictSubsetOrderingWellFounded
<1>2. downs \subseteq SUBSET D /\ downs # {}
  <2>1. \A i \in B : 0 .. i \in SUBSET D
    OBVIOUS
  <2> QED BY <2>1
<1>3. PICK i \in B : \A s \in downs : ~(<<s, 0 .. i>> \in StrictSubsetOrdering(D))
  <2>1. PICK t \in downs : \A s \in downs : ~(<<s, t>> \in StrictSubsetOrdering(D))
    <3> HIDE DEF downs, D
    <3> QED BY <1>1, <1>2, WFMin
  <2> QED BY <2>1
<1>4. i \in 1 .. n
  OBVIOUS
<1>5. i - 1 \in 0 .. n - 1 /\ (i - 1) + 1 = i
  BY <1>4
<1>6. i - 1 \in B
  BY <1>5
<1>7. 0 .. i - 1 \in SUBSET (0 .. i) /\ 0 .. i - 1 # 0 .. i /\ 0 .. i \in SUBSET D
  BY <1>4
<1>8. 0 .. i - 1 \in downs
  BY <1>6
<1> QED BY <1>3, <1>7, <1>8 DEF StrictSubsetOrdering

(* p lists the powers of two up to the n-th. *)
Doubles(p, n) == p = [e \in 0 .. n |-> IF e = 0 THEN 1 ELSE 2 * p[e - 1]]

LEMMA DoublesExist ==
  ASSUME NEW n \in Nat
  PROVE  \E p : Doubles(p, n)
<1> DEFINE B == {m \in 0 .. n : ~\E p : Doubles(p, m)}
<1>1. 0 \notin B
  <2> DEFINE p == [e \in 0 .. 0 |-> 1]
  <2>1. p = [e \in 0 .. 0 |-> IF e = 0 THEN 1 ELSE 2 * p[e - 1]]
    <3>1. \A e \in 0 .. 0 : e = 0
      OBVIOUS
    <3> QED BY <3>1
  <2> HIDE DEF p
  <2> QED BY <2>1 DEF Doubles
<1>2. ASSUME NEW m \in 0 .. n - 1, m \notin B
      PROVE  m + 1 \notin B
  <2>1. m \in Nat /\ m \in 0 .. n
    OBVIOUS
  <2>2. PICK p : Doubles(p, m)
    BY <1>2, <2>1
  <2>3. \A e \in 0 .. m : p[e] = IF e = 0 THEN 1 ELSE 2 * p[e - 1]
    BY <2>2 DEF Doubles
  <2> DEFINE q == [e \in 0 .. m + 1 |-> IF e = m + 1 THEN 2 * p[m] ELSE p[e]]
  <2>4. ASSUME NEW e \in 0 .. m + 1
        PROVE  q[e] = IF e = 0 THEN 1 ELSE 2 * q[e - 1]
    <3>1. CASE e = 0
      BY <2>1, <2>3, <3>1
    <3>2. CASE e \in 1 .. m
      <4>1. e \in 0 .. m /\ e - 1 \in 0 .. m + 1 /\ e # m + 1 /\ e - 1 # m + 1 /\ e # 0
        BY <2>1, <3>2
      <4>2. q[e] = p[e] /\ q[e - 1] = p[e - 1]
        BY <4>1
      <4> HIDE DEF q
      <4> QED BY <2>3, <4>1, <4>2
    <3>3. CASE e = m + 1
      <4>1. e - 1 = m /\ m \in 0 .. m + 1 /\ m # m + 1 /\ e # 0
        BY <2>1, <3>3
      <4>2. q[e] = 2 * p[m] /\ q[m] = p[m]
        BY <3>3, <4>1
      <4> HIDE DEF q
      <4> QED BY <4>1, <4>2
    <3>4. e = 0 \/ e \in 1 .. m \/ e = m + 1
      BY <2>1
    <3> QED BY <3>1, <3>2, <3>3, <3>4
  <2>5. Doubles(q, m + 1)
    <3>1. q = [e \in 0 .. m + 1 |-> q[e]]
      OBVIOUS
    <3> HIDE DEF q
    <3> QED BY <2>4, <3>1 DEF Doubles
  <2> QED BY <2>5
<1>3. B = {}
  <2>1. B \in SUBSET (0 .. n)
    OBVIOUS
  <2> HIDE DEF B
  <2> QED BY <1>1, <1>2, <2>1, NoneUpTo
<1> QED BY <1>3

(* The powers of two are larger than their exponents. *)
LEMMA PowersDouble ==
  ASSUME NEW n \in Nat
  PROVE  /\ Powers(n)[0] = 1
         /\ \A e \in 0 .. n : Powers(n)[e] \in Nat /\ e < Powers(n)[e]
         /\ \A e \in 1 .. n : Powers(n)[e] = 2 * Powers(n)[e - 1]
<1>1. PICK p : p = Powers(n)
  OBVIOUS
<1>2. Doubles(p, n)
  BY <1>1, DoublesExist DEF Doubles, Powers
<1>3. p[0] = 1 /\ \A e \in 1 .. n : p[e] = 2 * p[e - 1]
  <2>1. \A e \in 0 .. n : p[e] = IF e = 0 THEN 1 ELSE 2 * p[e - 1]
    BY <1>2 DEF Doubles
  <2> QED BY <2>1
<1> DEFINE B == {e \in 0 .. n : ~(p[e] \in Nat /\ e < p[e])}
<1>4. 0 \notin B
  BY <1>3
<1>5. ASSUME NEW e \in 0 .. n - 1, e \notin B
      PROVE  e + 1 \notin B
  <2>1. e \in Nat /\ e \in 0 .. n /\ e + 1 \in 1 .. n /\ (e + 1) - 1 = e
    OBVIOUS
  <2>2. p[e] \in Nat /\ e < p[e]
    BY <1>5, <2>1
  <2>3. p[e + 1] = 2 * p[e]
    BY <1>3, <2>1
  <2> QED BY <2>1, <2>2, <2>3
<1>6. B = {}
  <2>1. B \in SUBSET (0 .. n)
    OBVIOUS
  <2> HIDE DEF B
  <2> QED BY <1>4, <1>5, <2>1, NoneUpTo
<1> QED BY <1>1, <1>3, <1>6

(* The logarithm is what its name says. *)
LEMMA LogBounds ==
  ASSUME NEW n \in Nat \ {0}
  PROVE  /\ Log2(n) \in 0 .. n - 1
         /\ Powers(n)[Log2(n)] <= n /\ n < 2 * Powers(n)[Log2(n)]
<1> DEFINE p == Powers(n)
           B == {e \in 0 .. n : ~(p[e] <= n)}
           fits(e) == p[e] <= n /\ n < 2 * p[e]
<1>1. /\ p[0] = 1 /\ \A e \in 0 .. n : p[e] \in Nat /\ e < p[e]
      /\ \A e \in 1 .. n : p[e] = 2 * p[e - 1]
  BY PowersDouble
<1> HIDE DEF p
<1>2. \E e \in 0 .. n : fits(e)
  <2> SUFFICES ASSUME ~\E e \in 0 .. n : fits(e) PROVE FALSE
    OBVIOUS
  <2>1. 0 \notin B
    BY <1>1
  <2>2. ASSUME NEW e \in 0 .. n - 1, e \notin B
        PROVE  e + 1 \notin B
    <3>1. e \in 0 .. n /\ e + 1 \in 1 .. n /\ (e + 1) - 1 = e
      OBVIOUS
    <3>2. p[e] <= n /\ ~fits(e) /\ p[e] \in Nat /\ p[e + 1] = 2 * p[e]
      BY <1>1, <2>2, <3>1
    <3> QED BY <3>2
  <2>3. B = {}
    <3>1. B \in SUBSET (0 .. n)
      OBVIOUS
    <3> HIDE DEF B
    <3> QED BY <2>1, <2>2, <3>1, NoneUpTo
  <2>4. p[n] \in Nat /\ n < p[n] /\ n \in 0 .. n
    BY <1>1
  <2> QED BY <2>3, <2>4
<1>3. PICK e \in 0 .. n : e = Log2(n) /\ fits(e)
  BY <1>2 DEF Log2, p
<1>4. e \in 0 .. n - 1
  BY <1>1, <1>3
<1> QED BY <1>3, <1>4 DEF p

(* While the search doubles, the tail solved last is as large as the probes  *)
(* made it; once it bisects, the bracket is as narrow as the probes left of  *)
(* twice the logarithm need it to be.                                        *)
Doubled(n, tail, made) ==
  \/ tail = 0 /\ made = 0
  \/ /\ tail # 0 /\ made \in 1 .. Log2(n) + 1
     /\ Powers(n)[made - 1] <= tail

Halved(n, width, made) ==
  \E e \in 0 .. n : width <= Powers(n)[e] /\ made + e <= 2 * Log2(n) + 2

Quick ==
  /\ ProbesLogarithmic
  /\ stop = "no" =>
       IF hi = len + 1
       THEN Doubled(len, lo, probes) /\ (lo # 0 => k = Lesser(2 * lo, len))
       ELSE Halved(len, hi - lo, probes) /\ k = lo + (hi - lo) \div 2

LEMMA DoubledOnce ==
  ASSUME NEW n \in Nat \ {0}, NEW tail \in Nat, NEW made \in Nat, Doubled(n, tail, made),
         NEW next \in 1 .. n, tail # 0 => next = 2 * tail
  PROVE  Doubled(n, next, made + 1)
<1>1. PICK p, log : p = Powers(n) /\ log = Log2(n)
  OBVIOUS
<1>2. /\ log \in 0 .. n - 1 /\ p[log] <= n /\ n < 2 * p[log]
      /\ p[0] = 1 /\ \A e \in 0 .. n : p[e] \in Nat
      /\ \A e \in 1 .. n : p[e] = 2 * p[e - 1]
  BY <1>1, PowersDouble, LogBounds
<1>3. CASE tail = 0 /\ made = 0
  BY <1>1, <1>2, <1>3 DEF Doubled
<1>4. CASE made \in 1 .. log + 1 /\ p[made - 1] <= tail /\ next = 2 * tail
  <2>1. made \in 1 .. n /\ p[made] = 2 * p[made - 1] /\ p[made - 1] \in Nat
    BY <1>2, <1>4
  <2>2. p[made] <= next /\ p[made] <= n
    BY <1>4, <2>1
  <2>3. made # log + 1
    BY <1>2, <1>4, <2>1, <2>2
  <2>4. made + 1 \in 1 .. log + 1 /\ (made + 1) - 1 = made /\ next # 0
    BY <1>2, <1>4, <2>3
  <2> QED BY <1>1, <2>2, <2>4 DEF Doubled
<1> QED BY <1>1, <1>3, <1>4 DEF Doubled

LEMMA FirstFailure ==
  ASSUME NEW n \in Nat \ {0}, NEW tail \in Nat, NEW made \in Nat, Doubled(n, tail, made),
         NEW at \in 1 .. n, tail < at, tail # 0 => at <= 2 * tail
  PROVE  Halved(n, at - tail, made + 1)
<1>1. PICK p, log : p = Powers(n) /\ log = Log2(n)
  OBVIOUS
<1>2. /\ log \in 0 .. n - 1 /\ n < 2 * p[log] /\ p[log] \in Nat
      /\ log + 1 \in 0 .. n /\ p[log + 1] = 2 * p[log]
  <2>1. log \in 0 .. n - 1 /\ p[log] <= n /\ n < 2 * p[log]
    BY <1>1, LogBounds
  <2>2. log \in 0 .. n /\ log + 1 \in 1 .. n /\ (log + 1) - 1 = log
    BY <2>1
  <2> QED BY <1>1, <2>1, <2>2, PowersDouble
<1>3. CASE tail = 0 /\ made = 0
  <2>1. at - tail <= p[log + 1] /\ (made + 1) + (log + 1) <= 2 * log + 2
    BY <1>2, <1>3
  <2> QED BY <1>1, <1>2, <2>1 DEF Halved
<1>4. CASE made \in 1 .. log + 1 /\ tail # 0
  <2>1. at - tail <= p[log] /\ (made + 1) + log <= 2 * log + 2 /\ log \in 0 .. n
    BY <1>2, <1>4
  <2> QED BY <1>1, <2>1 DEF Halved
<1> QED BY <1>1, <1>3, <1>4 DEF Doubled

LEMMA HalvedOnce ==
  ASSUME NEW n \in Nat \ {0}, NEW width \in Nat, NEW made \in Nat, Halved(n, width, made),
         width > 1, NEW less \in Nat, 2 * less <= width + 1
  PROVE  Halved(n, less, made + 1)
<1>1. PICK p, log : p = Powers(n) /\ log = Log2(n)
  OBVIOUS
<1>2. PICK e \in 0 .. n : width <= p[e] /\ made + e <= 2 * log + 2
  BY <1>1 DEF Halved
<1>3. p[0] = 1 /\ log \in Nat
  BY <1>1, PowersDouble, LogBounds
<1>4. e \in 1 .. n
  BY <1>2, <1>3
<1>5. p[e] = 2 * p[e - 1] /\ p[e - 1] \in Nat /\ e - 1 \in 0 .. n
  <2>1. e - 1 \in 0 .. n
    BY <1>4
  <2> QED BY <1>1, <1>4, <2>1, PowersDouble
<1>6. less <= p[e - 1] /\ (made + 1) + (e - 1) <= 2 * log + 2
  BY <1>2, <1>3, <1>4, <1>5
<1> QED BY <1>1, <1>5, <1>6 DEF Halved

LEMMA ProbesBounded ==
  ASSUME NEW n \in Nat \ {0}, NEW made \in Nat, NEW width
  PROVE  /\ Doubled(n, width, made) => made + 1 <= 2 * Log2(n) + 2
         /\ Halved(n, width, made) => made <= 2 * Log2(n) + 2
<1>1. Log2(n) \in Nat
  BY LogBounds
<1> QED BY <1>1 DEF Doubled, Halved

(* next_probe_k doubles the tail or halves the bracket. *)
LEMMA NextHow ==
  ASSUME NEW at, NEW low, NEW high, NextProbeK(at, low, high) # None
  PROVE  NextProbeK(at, low, high) = IF high > len THEN Lesser(2 * at, len)
                                     ELSE low + (high - low) \div 2
BY DEF NextProbeK, Candidate

LEMMA QuickInit == Init => Quick
<1> SUFFICES ASSUME Init PROVE Quick
  OBVIOUS
<1>1. len \in Nat \ {0} /\ lo = 0 /\ hi = len + 1 /\ probes = 0
  BY ReverseCurriculumAssumption DEF Init
<1>2. Log2(len) \in Nat
  BY <1>1, LogBounds
<1> QED BY <1>1, <1>2 DEF Quick, ProbesLogarithmic, Doubled

LEMMA QuickNext == RInv /\ Quick /\ [Next]_vars => Quick'
<1> SUFFICES ASSUME RInv, Quick, [Next]_vars PROVE Quick'
  OBVIOUS
<1>0. /\ len \in Nat \ {0} /\ lo \in 0 .. len /\ hi \in 1 .. len + 1 /\ k \in 1 .. len
      /\ probes \in Nat /\ lo < hi
      /\ stop = "no" => lo < k /\ k < hi
  BY ReverseCurriculumAssumption DEF RInv, TypeOK, Bracket, Ended
<1>1. CASE ProbeSolved
  <2>1. /\ stop = "no" /\ len' = len /\ hi' = hi /\ lo' = k /\ probes' = probes + 1
        /\ lo < k /\ k < hi
    BY <1>0, <1>1 DEF ProbeSolved, Probing
  <2>2. stop' = "no" => k < len /\ k' = NextProbeK(k, k, hi) /\ k' # None
    BY <1>0, <1>1 DEF ProbeSolved, Continue
  <2>3. stop' = "no" => k' = IF hi > len THEN Lesser(2 * k, len) ELSE k + (hi - k) \div 2
    BY <2>2, NextHow
  <2>4. CASE hi = len + 1
    <3>1. Doubled(len, lo, probes) /\ (lo # 0 => k = Lesser(2 * lo, len))
      BY <2>1, <2>4 DEF Quick
    <3>2. probes + 1 <= 2 * Log2(len) + 2
      BY <1>0, <3>1, ProbesBounded
    <3>3. ASSUME stop' = "no"
          PROVE  Doubled(len, k, probes + 1) /\ k' = Lesser(2 * k, len)
      <4>1. lo # 0 => k = 2 * lo
        BY <1>0, <2>2, <3>1, <3>3 DEF Lesser
      <4>2. lo \in Nat /\ hi > len
        BY <1>0, <2>4
      <4> QED BY <1>0, <2>3, <3>1, <3>3, <4>1, <4>2, DoubledOnce
    <3> QED BY <2>1, <2>4, <3>2, <3>3 DEF Quick, ProbesLogarithmic
  <2>5. CASE hi # len + 1
    <3>1. Halved(len, hi - lo, probes) /\ k = lo + (hi - lo) \div 2
      BY <2>1, <2>5 DEF Quick
    <3>2. /\ hi - lo \in Nat /\ hi - lo > 1 /\ hi - k \in Nat /\ 2 * (hi - k) <= (hi - lo) + 1
          /\ ~(hi > len)
      BY <1>0, <2>1, <2>5, <3>1
    <3>3. Halved(len, hi - k, probes + 1)
      BY <1>0, <3>1, <3>2, HalvedOnce
    <3>4. probes + 1 <= 2 * Log2(len) + 2
      BY <1>0, <3>3, ProbesBounded
    <3> QED BY <2>1, <2>3, <2>5, <3>2, <3>3, <3>4 DEF Quick, ProbesLogarithmic
  <2> QED BY <2>4, <2>5
<1>2. CASE ProbeFailed
  <2>1. /\ stop = "no" /\ len' = len /\ hi' = k /\ lo' = lo /\ probes' = probes + 1
        /\ lo < k /\ k < hi
    BY <1>0, <1>2 DEF ProbeFailed, Probing
  <2>2. k # len + 1 /\ ~(k > len)
    BY <1>0
  <2>3. stop' = "no" => k' = lo + (k - lo) \div 2
    <3>1. stop' = "no" => k' = NextProbeK(k, lo, k) /\ k' # None
      BY <1>2 DEF ProbeFailed, Continue
    <3> QED BY <2>2, <3>1, NextHow
  <2>4. Halved(len, k - lo, probes + 1)
    <3>1. CASE hi = len + 1
      <4>1. Doubled(len, lo, probes) /\ (lo # 0 => k = Lesser(2 * lo, len))
        BY <2>1, <3>1 DEF Quick
      <4>2. lo \in Nat /\ (lo # 0 => k <= 2 * lo)
        BY <1>0, <4>1 DEF Lesser
      <4> QED BY <1>0, <2>1, <4>1, <4>2, FirstFailure
    <3>2. CASE hi # len + 1
      <4>1. Halved(len, hi - lo, probes) /\ k = lo + (hi - lo) \div 2
        BY <2>1, <3>2 DEF Quick
      <4>2. hi - lo \in Nat /\ hi - lo > 1 /\ k - lo \in Nat /\ 2 * (k - lo) <= (hi - lo) + 1
        BY <1>0, <2>1, <4>1
      <4> QED BY <1>0, <4>1, <4>2, HalvedOnce
    <3> QED BY <3>1, <3>2
  <2>5. probes + 1 <= 2 * Log2(len) + 2
    BY <1>0, <2>4, ProbesBounded
  <2> QED BY <2>1, <2>2, <2>3, <2>4, <2>5 DEF Quick, ProbesLogarithmic
<1>3. CASE BudgetSpent
  BY <1>3 DEF BudgetSpent, Quick, ProbesLogarithmic
<1>4. CASE Write
  BY <1>4 DEF Write, Quick, ProbesLogarithmic
<1>5. CASE UNCHANGED vars
  BY <1>5 DEF vars, Quick, ProbesLogarithmic
<1> QED BY <1>1, <1>2, <1>3, <1>4, <1>5 DEF Next

(* The search brackets the frontier fast, whatever the length of the plan:   *)
(* doubling reaches the first failure, and bisecting the edge, in about as   *)
(* many probes each as the plan's length has binary digits.                  *)
THEOREM ProbesBound == Spec => []ProbesLogarithmic
<1>1. Quick => ProbesLogarithmic
  BY DEF Quick
<1>2. Spec => []Quick
  BY QuickInit, QuickNext, Invariance, PTL DEF Spec
<1> QED BY <1>1, <1>2, PTL
================================================================================
