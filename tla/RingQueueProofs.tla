---------------------------- MODULE RingQueueProofs ----------------------------
(***************************************************************************)
(* Proofs about RingQueue, for any number of threads, any set of elements  *)
(* and any ring of at least two cells: types, mutual exclusion, what an    *)
(* operation decides, and that RingQueue implements BoundedFifo.           *)
(***************************************************************************)
EXTENDS RingQueue, SequenceTheorems, Integers, TLAPS

(* The wrap-around index of a cell is the index of a cell. *)
LEMMA SuccIndex ==
  ASSUME NEW i \in Index
  PROVE  Succ(i) \in Index
BY RingAssumption, SMTT(30) DEF Succ, Index

LEMMA TypeInit == Init => TypeOK
BY RingAssumption DEF Init, TypeOK, Index, Locations, Results

LEMMA TypeStep == TypeOK /\ [Next]_vars => TypeOK'
<1> SUFFICES ASSUME TypeOK, [Next]_vars PROVE TypeOK'
  OBVIOUS
<1> USE RingAssumption DEF TypeOK, Goto, Locations, Results, Failures
<1>1. ASSUME NEW p \in Procs, NEW o \in Ops, Call(p, o) PROVE TypeOK'
  BY <1>1 DEF Call
<1>2. ASSUME NEW p \in Procs, Lock(p) PROVE TypeOK'
  BY <1>2 DEF Lock
<1>3. ASSUME NEW p \in Procs, Load(p) PROVE TypeOK'
  BY <1>3 DEF Load
<1>4. ASSUME NEW p \in Procs, Copy(p) PROVE TypeOK'
  <2>1. op[p] \in Ops
    BY <1>4 DEF Copy
  <2>2. cells' \in [Index -> Elems \cup {Nil}]
    BY <1>4, <2>1 DEF Copy, Ops
  <2>3. res' \in [Procs -> Results]
    BY <1>4, <2>1 DEF Copy
  <2> QED
    BY <1>4, <2>2, <2>3 DEF Copy
<1>5. ASSUME NEW p \in Procs, Publish(p) PROVE TypeOK'
  <2>1. Succ(ltail[p]) \in Index /\ Succ(lhead[p]) \in Index
    BY SuccIndex
  <2> QED
    BY <1>5, <2>1 DEF Publish
<1>6. ASSUME NEW p \in Procs, Unlock(p) PROVE TypeOK'
  <2>1. 0 \in Index
    BY DEF Index
  <2> QED
    BY <1>6, <2>1 DEF Unlock, ForgetLocals
<1>7. CASE UNCHANGED vars
  BY <1>7 DEF vars
<1> QED
  BY <1>1, <1>2, <1>3, <1>4, <1>5, <1>6, <1>7 DEF Next, Step

(* The shared words and the locals of every thread keep their types. *)
THEOREM TypeCorrect == Spec => []TypeOK
<1>1. Init => TypeOK
  BY TypeInit
<1>2. TypeOK /\ [Next]_vars => TypeOK'
  BY TypeStep
<1> QED
  BY <1>1, <1>2, PTL DEF Spec

--------------------------------------------------------------------------------
LEMMA MutexStep == TypeOK /\ MutualExclusion /\ [Next]_vars => MutualExclusion'
<1> SUFFICES ASSUME TypeOK, MutualExclusion, [Next]_vars PROVE MutualExclusion'
  OBVIOUS
<1> USE DEF TypeOK, MutualExclusion, Goto, Critical
<1>1. ASSUME NEW p \in Procs, NEW o \in Ops, Call(p, o) PROVE MutualExclusion'
  BY <1>1 DEF Call
<1>2. ASSUME NEW p \in Procs, Lock(p) PROVE MutualExclusion'
  BY <1>2 DEF Lock
<1>3. ASSUME NEW p \in Procs, Load(p) PROVE MutualExclusion'
  BY <1>3 DEF Load
<1>4. ASSUME NEW p \in Procs, Copy(p) PROVE MutualExclusion'
  BY <1>4 DEF Copy
<1>5. ASSUME NEW p \in Procs, Publish(p) PROVE MutualExclusion'
  BY <1>5 DEF Publish
<1>6. ASSUME NEW p \in Procs, Unlock(p) PROVE MutualExclusion'
  BY <1>6 DEF Unlock
<1>7. CASE UNCHANGED vars
  BY <1>7 DEF vars
<1> QED
  BY <1>1, <1>2, <1>3, <1>4, <1>5, <1>6, <1>7 DEF Next, Step

(* The spin lock excludes: at most one thread is inside the critical section *)
(* and the flag is up exactly while one is.                                  *)
THEOREM MutexCorrect == Spec => []MutualExclusion
<1>1. Init => MutualExclusion
  BY DEF Init, MutualExclusion, Critical
<1>2. TypeOK /\ MutualExclusion /\ [Next]_vars => MutualExclusion'
  BY MutexStep
<1> QED
  BY <1>1, <1>2, TypeCorrect, PTL DEF Spec

--------------------------------------------------------------------------------
LEMMA DecisionStep ==
  TypeOK /\ MutualExclusion /\ DecisionStillValid /\ [Next]_vars => DecisionStillValid'
<1> SUFFICES ASSUME TypeOK, MutualExclusion, DecisionStillValid, [Next]_vars
             PROVE  DecisionStillValid'
  OBVIOUS
<1> USE DEF TypeOK, DecisionStillValid, MutualExclusion, Goto, Critical, Refused
<1>1. ASSUME NEW p \in Procs, NEW o \in Ops, Call(p, o) PROVE DecisionStillValid'
  BY <1>1 DEF Call
<1>2. ASSUME NEW p \in Procs, Lock(p) PROVE DecisionStillValid'
  BY <1>2 DEF Lock
<1>3. ASSUME NEW p \in Procs, Load(p) PROVE DecisionStillValid'
  BY <1>3 DEF Load
<1>4. ASSUME NEW p \in Procs, Copy(p) PROVE DecisionStillValid'
  BY <1>4 DEF Copy
<1>5. ASSUME NEW p \in Procs, Publish(p) PROVE DecisionStillValid'
  BY <1>5 DEF Publish
<1>6. ASSUME NEW p \in Procs, Unlock(p) PROVE DecisionStillValid'
  BY <1>6 DEF Unlock
<1>7. CASE UNCHANGED vars
  BY <1>7 DEF vars
<1> QED
  BY <1>1, <1>2, <1>3, <1>4, <1>5, <1>6, <1>7 DEF Next, Step

(* Until its index store a thread's copies of head and tail are current, and *)
(* its full / empty decision still holds.                                    *)
THEOREM DecisionCorrect == Spec => []DecisionStillValid
<1>1. Init => DecisionStillValid
  BY DEF Init, DecisionStillValid
<1>2. TypeOK /\ MutualExclusion /\ DecisionStillValid /\ [Next]_vars
        => DecisionStillValid'
  BY DecisionStep
<1> QED
  BY <1>1, <1>2, TypeCorrect, MutexCorrect, PTL DEF Spec

--------------------------------------------------------------------------------
(* How many cells from h up to t, and the cell of the i-th element.         *)
Size(h, t) == IF h <= t THEN t - h ELSE QCAP + t - h
At(h, i) == IF h + i - 1 < QCAP THEN h + i - 1 ELSE h + i - 1 - QCAP
Next1(i) == IF i = QCAP - 1 THEN 0 ELSE i + 1

LEMMA ModOnce ==
  ASSUME NEW a \in Nat, NEW b \in Nat \ {0}, a < 2 * b
  PROVE  a % b = IF a < b THEN a ELSE a - b
<1>1. CASE a < b
  <2>1. a % b = a
    BY <1>1, SMTT(30)
  <2> QED
    BY <1>1, <2>1
<1>2. CASE b <= a
  <2>1. a % b = a - b
    BY <1>2, SMTT(30)
  <2> QED
    BY <1>2, <2>1
<1> QED
  BY <1>1, <1>2

(* The modular indices of the ring, without the modulus. *)
LEMMA RingArithmetic ==
  ASSUME NEW h \in Index, NEW t \in Index
  PROVE  /\ Succ(h) = Next1(h)
         /\ Size(h, t) \in 0 .. QCAP - 1
         /\ (QCAP + t - h) % QCAP = Size(h, t)
         /\ \A i \in 1 .. QCAP - 1 :
              (h + i - 1) % QCAP = At(h, i) /\ At(h, i) \in Index
<1> USE RingAssumption DEF Index
<1>0. QCAP \in Nat \ {0}
  OBVIOUS
<1>1. Succ(h) = Next1(h)
  <2> DEFINE a == h + 1
  <2>1. a \in Nat /\ a < 2 * QCAP
    OBVIOUS
  <2> HIDE DEF a
  <2>2. a % QCAP = IF a < QCAP THEN a ELSE a - QCAP
    BY <1>0, <2>1, ModOnce
  <2> QED
    BY <2>2 DEF Succ, Next1, a
<1>2. (QCAP + t - h) % QCAP = Size(h, t)
  <2> DEFINE a == QCAP + t - h
  <2>1. a \in Nat /\ a < 2 * QCAP
    OBVIOUS
  <2> HIDE DEF a
  <2>2. a % QCAP = IF a < QCAP THEN a ELSE a - QCAP
    BY <1>0, <2>1, ModOnce
  <2> QED
    BY <2>2 DEF Size, a
<1>3. ASSUME NEW i \in 1 .. QCAP - 1
      PROVE  (h + i - 1) % QCAP = At(h, i) /\ At(h, i) \in Index
  <2> DEFINE a == h + i - 1
  <2>1. a \in Nat /\ a < 2 * QCAP
    OBVIOUS
  <2> HIDE DEF a
  <2>2. a % QCAP = IF a < QCAP THEN a ELSE a - QCAP
    BY <1>0, <2>1, ModOnce
  <2> QED
    BY <2>2 DEF At, a
<1> QED
  BY <1>1, <1>2, <1>3 DEF Size

Queued(h, t, c) == [i \in 1 .. Size(h, t) |-> c[At(h, i)]]

LEMMA ContentsAre ==
  ASSUME NEW h \in Index, NEW t \in Index, NEW c
  PROVE  [i \in 1 .. (QCAP + t - h) % QCAP |-> c[(h + i - 1) % QCAP]] = Queued(h, t, c)
<1>1. (QCAP + t - h) % QCAP = Size(h, t)
  BY RingArithmetic
<1>2. \A i \in 1 .. Size(h, t) : (h + i - 1) % QCAP = At(h, i)
  BY RingArithmetic, RingAssumption
<1> QED
  BY <1>1, <1>2 DEF Queued

CellsHold(h, t, c) == \A i \in 1 .. Size(h, t) : c[At(h, i)] \in Elems

LEMMA QueuedSeq ==
  ASSUME NEW h \in Index, NEW t \in Index, NEW c, CellsHold(h, t, c)
  PROVE  /\ Queued(h, t, c) \in Seq(Elems)
         /\ Len(Queued(h, t, c)) = Size(h, t)
         /\ \A i \in 1 .. Size(h, t) : Queued(h, t, c)[i] = c[At(h, i)]
<1>1. Size(h, t) \in Nat
  BY RingArithmetic, RingAssumption
<1>2. Queued(h, t, c) \in [1 .. Size(h, t) -> Elems]
  BY DEF Queued, CellsHold
<1>3. Queued(h, t, c) \in Seq(Elems)
  BY <1>1, <1>2, SeqDef
<1>4. Len(Queued(h, t, c)) = Size(h, t)
  BY <1>1, <1>2, <1>3, LenProperties
<1> QED
  BY <1>3, <1>4 DEF Queued

LEMMA EmptyAndFull ==
  ASSUME NEW h \in Index, NEW t \in Index
  PROVE  /\ h = t <=> Size(h, t) = 0
         /\ Next1(t) = h <=> Size(h, t) = QCAP - 1
BY RingAssumption DEF Size, Next1, Index

(* The cell a push writes is none of the queued ones. *)
LEMMA TailIsFree ==
  ASSUME NEW h \in Index, NEW t \in Index, NEW i \in 1 .. Size(h, t)
  PROVE  At(h, i) # t
BY RingAssumption DEF Size, At, Index

LEMMA PushQueued ==
  ASSUME NEW h \in Index, NEW t \in Index, Next1(t) # h,
         NEW c, CellsHold(h, t, c), c[t] \in Elems
  PROVE  /\ CellsHold(h, Next1(t), c)
         /\ Queued(h, Next1(t), c) = Append(Queued(h, t, c), c[t])
<1> DEFINE n == Size(h, t)
<1>1. /\ Next1(t) \in Index /\ n \in Nat
      /\ Size(h, Next1(t)) = n + 1
      /\ At(h, n + 1) = t
  BY RingAssumption DEF Size, At, Next1, Index
<1>2. CellsHold(h, Next1(t), c)
  BY <1>1 DEF CellsHold
<1>3. /\ Queued(h, t, c) \in Seq(Elems) /\ Len(Queued(h, t, c)) = n
      /\ \A i \in 1 .. n : Queued(h, t, c)[i] = c[At(h, i)]
  BY QueuedSeq
<1>4. /\ Queued(h, Next1(t), c) \in Seq(Elems)
      /\ Len(Queued(h, Next1(t), c)) = n + 1
      /\ \A i \in 1 .. n + 1 : Queued(h, Next1(t), c)[i] = c[At(h, i)]
  BY <1>1, <1>2, QueuedSeq
<1>5. /\ Append(Queued(h, t, c), c[t]) \in Seq(Elems)
      /\ Len(Append(Queued(h, t, c), c[t])) = n + 1
      /\ \A i \in 1 .. n + 1 : Append(Queued(h, t, c), c[t])[i] = c[At(h, i)]
  <2> HIDE DEF n
  <2> QED
    BY <1>1, <1>3, AppendProperties
<1> QED
  BY <1>1, <1>2, <1>4, <1>5, SeqEqual

LEMMA PopQueued ==
  ASSUME NEW h \in Index, NEW t \in Index, h # t,
         NEW c, CellsHold(h, t, c)
  PROVE  /\ CellsHold(Next1(h), t, c)
         /\ Queued(h, t, c) # <<>>
         /\ Head(Queued(h, t, c)) = c[h]
         /\ Queued(Next1(h), t, c) = Tail(Queued(h, t, c))
<1> DEFINE n == Size(h, t)
<1>1. /\ Next1(h) \in Index /\ n \in Nat \ {0}
      /\ Size(Next1(h), t) = n - 1
      /\ At(h, 1) = h
      /\ \A i \in 1 .. n - 1 : At(Next1(h), i) = At(h, i + 1)
  BY RingAssumption DEF Size, At, Next1, Index
<1>2. CellsHold(Next1(h), t, c)
  BY <1>1 DEF CellsHold
<1>3. /\ Queued(h, t, c) \in Seq(Elems) /\ Len(Queued(h, t, c)) = n
      /\ \A i \in 1 .. n : Queued(h, t, c)[i] = c[At(h, i)]
  BY QueuedSeq
<1>4. /\ Queued(Next1(h), t, c) \in Seq(Elems)
      /\ Len(Queued(Next1(h), t, c)) = n - 1
      /\ \A i \in 1 .. n - 1 : Queued(Next1(h), t, c)[i] = c[At(h, i + 1)]
  BY <1>1, <1>2, QueuedSeq
<1>5. Queued(h, t, c) # <<>>
  BY <1>1, <1>3, EmptySeq
<1>6. Head(Queued(h, t, c)) = c[h]
  BY <1>1, <1>3, <1>5
<1>7. /\ Tail(Queued(h, t, c)) \in Seq(Elems)
      /\ Len(Tail(Queued(h, t, c))) = n - 1
      /\ \A i \in 1 .. n - 1 : Tail(Queued(h, t, c))[i] = c[At(h, i + 1)]
  <2> HIDE DEF n
  <2> QED
    BY <1>1, <1>3, <1>5, HeadTailProperties
<1> QED
  BY <1>1, <1>2, <1>4, <1>5, <1>6, <1>7, SeqEqual

(* The cells from head up to tail hold elements. *)
Filled == CellsHold(head, tail, cells)

(* What a thread's locals mean at each point of its call. *)
LocalsOf(p) ==
  /\ pc[p] = "idle" <=> op[p] = Nil
  /\ pc[p] \in {"idle", "lock", "load", "copy"} => res[p] = Nil
  /\ pc[p] = "publish" /\ op[p].kind = "push" =>
       res[p] = Nil /\ cells[ltail[p]] = op[p].val
  /\ pc[p] = "publish" /\ op[p].kind = "pop" =>
       res[p] = cells[lhead[p]] /\ res[p] \in Elems
  /\ pc[p] = "unlock" /\ op[p].kind = "push" => res[p] \in {"ok", "full"}
  /\ pc[p] = "unlock" /\ op[p].kind = "pop" => res[p] \in Elems \cup {"empty"}

Locals == \A p \in Procs : LocalsOf(p)

(* The inductive invariant of the refinement. *)
RInv ==
  TypeOK /\ MutualExclusion /\ DecisionStillValid /\ Filled /\ Locals

LEMMA RInvInit == Init => RInv
<1> SUFFICES ASSUME Init PROVE RInv
  OBVIOUS
<1>1. TypeOK
  BY TypeInit
<1>2. MutualExclusion /\ DecisionStillValid /\ Locals
  BY DEF Init, MutualExclusion, DecisionStillValid, Critical, Locals, LocalsOf
<1>3. Filled
  BY RingAssumption DEF Init, Filled, CellsHold, Size
<1> QED
  BY <1>1, <1>2, <1>3 DEF RInv

(* Facts every step needs: what the ring looks like at a thread's locals.    *)
LEMMA RingFacts ==
  ASSUME TypeOK
  PROVE  /\ head \in Index /\ tail \in Index
         /\ Succ(head) = Next1(head) /\ Succ(tail) = Next1(tail)
BY RingArithmetic DEF TypeOK

LEMMA FilledStep == RInv /\ [Next]_vars => Filled'
<1> SUFFICES ASSUME RInv, [Next]_vars PROVE Filled'
  OBVIOUS
<1> USE RingFacts DEF RInv, Filled, Goto
<1>1. ASSUME UNCHANGED <<head, tail, cells>> PROVE Filled'
  BY <1>1 DEF CellsHold, Size, At
<1>2. ASSUME NEW p \in Procs, Copy(p) PROVE Filled'
  <2>1. CASE op[p].kind = "push"
    <3>1. cells' = [cells EXCEPT ![tail] = op[p].val] /\ UNCHANGED <<head, tail>>
      BY <1>2, <2>1 DEF Copy, DecisionStillValid
    <3>2. \A i \in 1 .. Size(head, tail) :
            At(head, i) # tail /\ At(head, i) \in Index
      BY RingArithmetic, TailIsFree, RingAssumption
    <3> QED
      BY <3>1, <3>2 DEF CellsHold, Size, At, TypeOK
  <2>2. CASE op[p].kind = "pop"
    BY <1>1, <1>2, <2>2 DEF Copy
  <2> QED
    BY <1>2, <2>1, <2>2 DEF Copy
<1>3. ASSUME NEW p \in Procs, Publish(p) PROVE Filled'
  <2>0. lhead[p] = head /\ ltail[p] = tail /\ ~Refused(p)
    BY <1>3 DEF Publish, DecisionStillValid
  <2>1. CASE op[p].kind = "push"
    <3>1. /\ tail' = Next1(tail) /\ UNCHANGED <<head, cells>>
          /\ Next1(tail) # head
      BY <1>3, <2>0, <2>1 DEF Publish, Refused
    <3>2. cells[tail] \in Elems
      BY <1>3, <2>0, <2>1 DEF Publish, Locals, LocalsOf, TypeOK, Ops
    <3>3. CellsHold(head, Next1(tail), cells)
      BY <3>1, <3>2, PushQueued
    <3> QED
      BY <3>1, <3>3 DEF CellsHold, Size, At
  <2>2. CASE op[p].kind = "pop"
    <3>1. head' = Next1(head) /\ UNCHANGED <<tail, cells>> /\ head # tail
      BY <1>3, <2>0, <2>2 DEF Publish, Refused
    <3>2. CellsHold(Next1(head), tail, cells)
      BY <3>1, PopQueued
    <3> QED
      BY <3>1, <3>2 DEF CellsHold, Size, At
  <2> QED
    BY <1>3, <2>1, <2>2 DEF Publish
<1> QED
  BY <1>1, <1>2, <1>3 DEF Next, Step, Call, Lock, Load, Unlock, vars

LEMMA LocalsStep == RInv /\ [Next]_vars => Locals'
<1> SUFFICES ASSUME RInv, [Next]_vars PROVE Locals'
  OBVIOUS
<1> USE DEF RInv, TypeOK, Locals, LocalsOf, Goto
<1>0. \A o \in Ops : o # Nil
  BY RingAssumption
<1>1. ASSUME NEW p \in Procs, NEW o \in Ops, Call(p, o) PROVE Locals'
  BY <1>0, <1>1 DEF Call
<1>2. ASSUME NEW p \in Procs, Lock(p) PROVE Locals'
  BY <1>2 DEF Lock
<1>3. ASSUME NEW p \in Procs, Load(p) PROVE Locals'
  BY <1>3 DEF Load, Ops
<1>4. ASSUME NEW p \in Procs, Copy(p) PROVE Locals'
  <2>1. pc[p] \in Critical /\ lhead[p] = head /\ ltail[p] = tail /\ ~Refused(p)
    BY <1>4 DEF Copy, Critical, DecisionStillValid
  <2>2. \A q \in Procs \ {p} : pc[q] \notin Critical
    BY <2>1 DEF MutualExclusion
  <2>3. op[p].kind = "pop" => cells[head] \in Elems
    <3> SUFFICES ASSUME op[p].kind = "pop" PROVE cells[head] \in Elems
      OBVIOUS
    <3>1. head # tail
      BY <2>1 DEF Refused
    <3>2. 1 \in 1 .. Size(head, tail) /\ At(head, 1) = head
      BY <3>1, RingAssumption DEF Size, At, Index
    <3> QED
      BY <3>2 DEF Filled, CellsHold
  <2>4. LocalsOf(p)'
    BY <1>4, <2>1, <2>3 DEF Copy, Ops
  <2>5. ASSUME NEW q \in Procs \ {p} PROVE LocalsOf(q)'
    BY <1>4, <2>2, <2>5 DEF Copy, Critical
  <2> QED
    BY <2>4, <2>5
<1>5. ASSUME NEW p \in Procs, Publish(p) PROVE Locals'
  BY <1>5 DEF Publish, Ops
<1>6. ASSUME NEW p \in Procs, Unlock(p) PROVE Locals'
  BY <1>6 DEF Unlock, ForgetLocals
<1>7. CASE UNCHANGED vars
  BY <1>7 DEF vars
<1> QED
  BY <1>1, <1>2, <1>3, <1>4, <1>5, <1>6, <1>7 DEF Next, Step

LEMMA RInvariant == Spec => []RInv
<1>1. Init => RInv
  BY RInvInit
<1>2. RInv /\ [Next]_vars => RInv'
  BY TypeStep, MutexStep, DecisionStep, FilledStep, LocalsStep DEF RInv
<1> QED
  BY <1>1, <1>2, PTL DEF Spec

--------------------------------------------------------------------------------
Answers == [p \in Procs |-> AbstractAnswer(p)]

LEMMA ContentsQueued ==
  ASSUME TypeOK, TypeOK'
  PROVE  /\ Contents = Queued(head, tail, cells)
         /\ Contents' = Queued(head', tail', cells')
<1>1. head \in Index /\ tail \in Index /\ head' \in Index /\ tail' \in Index
  BY DEF TypeOK
<1>2. Contents = Queued(head, tail, cells)
  BY <1>1, ContentsAre DEF Contents
<1>3. Contents' = Queued(head', tail', cells')
  BY <1>1, ContentsAre DEF Contents
<1> QED
  BY <1>2, <1>3

LEMMA InitRefines == Init => Fifo!Init
<1> SUFFICES ASSUME Init PROVE Fifo!Init
  OBVIOUS
<1>1. Contents = Queued(head, tail, cells)
  BY TypeInit, ContentsAre DEF Contents, TypeOK
<1>2. Queued(head, tail, cells) = <<>>
  BY RingAssumption DEF Init, Queued, Size
<1>3. Answers = [p \in Procs |-> Nil]
  BY DEF Init, Answers, AbstractAnswer
<1> QED
  BY <1>1, <1>2, <1>3 DEF Init, Fifo!Init, Answers

(* Contents does not change when head, tail and the queued cells do not.     *)
LEMMA SameContents ==
  ASSUME TypeOK, TypeOK', UNCHANGED <<head, tail>>,
         \A i \in 1 .. Size(head, tail) : cells'[At(head, i)] = cells[At(head, i)]
  PROVE  Contents' = Contents
<1>1. Queued(head', tail', cells') = Queued(head, tail, cells)
  BY DEF Queued
<1> QED
  BY <1>1, ContentsQueued

(* A step of p leaves the abstract answers of the other threads alone.       *)
LEMMA OthersAnswers ==
  ASSUME TypeOK, TypeOK', NEW p \in Procs,
         \A q \in Procs \ {p} : pc'[q] = pc[q] /\ op'[q] = op[q] /\ res'[q] = res[q]
  PROVE  /\ Answers' = [Answers EXCEPT ![p] = AbstractAnswer(p)']
         /\ AbstractAnswer(p)' = AbstractAnswer(p) => Answers' = Answers
<1>1. \A q \in Procs \ {p} : AbstractAnswer(q)' = AbstractAnswer(q)
  BY DEF AbstractAnswer
<1>2. DOMAIN Answers = Procs /\ Answers' = [q \in Procs |-> AbstractAnswer(q)']
  BY DEF Answers
<1> QED
  BY <1>1, <1>2 DEF Answers

LEMMA StepRefines == RInv /\ RInv' /\ [Next]_vars => [Fifo!Next]_(Fifo!vars)
<1> SUFFICES ASSUME RInv, RInv', [Next]_vars PROVE [Fifo!Next]_(Fifo!vars)
  OBVIOUS
<1>0. TypeOK /\ TypeOK'
  BY DEF RInv
<1>1. ASSUME NEW p \in Procs, NEW o \in Ops, Call(p, o) PROVE Fifo!Call(p, o)
  <2>1. Contents' = Contents
    BY <1>0, <1>1, SameContents DEF Call
  <2>2. AbstractAnswer(p) = Nil /\ AbstractAnswer(p)' = Nil
    BY <1>0, <1>1 DEF Call, Goto, AbstractAnswer, TypeOK
  <2>3. Answers' = Answers
    BY <1>0, <1>1, <2>2, OthersAnswers DEF Call, Goto, TypeOK
  <2>4. op[p] = Nil
    BY <1>1 DEF RInv, Locals, LocalsOf, Call, Goto
  <2> QED
    BY <1>1, <2>1, <2>3, <2>4 DEF Fifo!Call, Call, Answers
<1>2. ASSUME NEW p \in Procs, Lock(p) PROVE UNCHANGED Fifo!vars
  <2>1. Contents' = Contents
    BY <1>0, <1>2, SameContents DEF Lock
  <2>2. AbstractAnswer(p)' = AbstractAnswer(p)
    BY <1>0, <1>2 DEF Lock, Goto, AbstractAnswer, TypeOK
  <2>3. Answers' = Answers
    BY <1>0, <1>2, <2>2, OthersAnswers DEF Lock, Goto, TypeOK
  <2> QED
    BY <1>2, <2>1, <2>3 DEF Fifo!vars, Lock, Answers
<1>3. ASSUME NEW p \in Procs, Load(p) PROVE Fifo!Next \/ UNCHANGED Fifo!vars
  <2>1. Contents' = Contents
    BY <1>0, <1>3, SameContents DEF Load
  <2>2. AbstractAnswer(p) = Nil /\ op[p] \in Ops /\ op' = op
    BY <1>0, <1>3 DEF Load, AbstractAnswer, TypeOK
  <2>3. Answers' = [Answers EXCEPT ![p] = AbstractAnswer(p)']
    BY <1>0, <1>3, OthersAnswers DEF Load, Goto, TypeOK
  <2>4. CASE AbstractAnswer(p)' = Nil
    <3>1. Answers' = Answers
      BY <1>0, <1>3, <2>2, <2>4, OthersAnswers DEF Load, Goto, TypeOK
    <3> QED
      BY <2>1, <2>2, <3>1 DEF Fifo!vars, Answers
  <2>5. CASE AbstractAnswer(p)' # Nil /\ op[p].kind = "push"
    <3>1. /\ Refused(p) /\ ~op[p].blocking /\ AbstractAnswer(p)' = "full"
      BY <1>0, <1>3, <2>2, <2>5 DEF Load, Goto, AbstractAnswer, TypeOK, Failures
    <3>2. Len(Contents) = QCAP - 1
      <4>1. head \in Index /\ tail \in Index /\ Next1(tail) = head
        BY <1>0, <2>5, <3>1, RingFacts DEF Refused
      <4>2. Size(head, tail) = QCAP - 1
        BY <4>1, EmptyAndFull
      <4>3. Len(Queued(head, tail, cells)) = Size(head, tail)
        BY <4>1, QueuedSeq DEF RInv, Filled
      <4> QED
        BY <1>0, <4>2, <4>3, ContentsQueued
    <3>3. Fifo!RefusePush(p)
      BY <2>1, <2>2, <2>3, <2>5, <3>1, <3>2, RingAssumption
      DEF Fifo!RefusePush, Fifo!Pending, Fifo!Answer, Fifo!Full, Answers
    <3> QED
      BY <3>3 DEF Fifo!Next
  <2>6. CASE AbstractAnswer(p)' # Nil /\ op[p].kind = "pop"
    <3>1. /\ Refused(p) /\ ~op[p].blocking /\ AbstractAnswer(p)' = "empty"
      BY <1>0, <1>3, <2>2, <2>6 DEF Load, Goto, AbstractAnswer, TypeOK, Failures
    <3>2. Contents = <<>>
      BY <1>0, <2>6, <3>1, RingFacts, EmptyAndFull, ContentsQueued
      DEF Refused, Queued
    <3>3. Fifo!RefusePop(p)
      BY <2>1, <2>2, <2>3, <2>6, <3>1, <3>2, RingAssumption
      DEF Fifo!RefusePop, Fifo!Pending, Fifo!Answer, Fifo!Empty, Answers
    <3> QED
      BY <3>3 DEF Fifo!Next
  <2> QED
    BY <2>2, <2>4, <2>5, <2>6 DEF Ops
<1>4. ASSUME NEW p \in Procs, Copy(p) PROVE UNCHANGED Fifo!vars
  <2>1. Contents' = Contents
    <3>1. head \in Index /\ tail \in Index /\ ltail[p] = tail
      BY <1>0, <1>4 DEF Copy, Goto, RInv, DecisionStillValid, TypeOK
    <3>2. \A i \in 1 .. Size(head, tail) : At(head, i) # tail /\ At(head, i) \in Index
      BY <3>1, RingArithmetic, TailIsFree, RingAssumption
    <3>3. \A i \in 1 .. Size(head, tail) : cells'[At(head, i)] = cells[At(head, i)]
      BY <1>0, <1>4, <3>1, <3>2 DEF Copy, TypeOK
    <3> QED
      BY <1>0, <1>4, <3>3, SameContents DEF Copy
  <2>2. AbstractAnswer(p)' = AbstractAnswer(p)
    BY <1>0, <1>4 DEF Copy, Goto, AbstractAnswer, TypeOK
  <2>3. Answers' = Answers
    BY <1>0, <1>4, <2>2, OthersAnswers DEF Copy, Goto, TypeOK
  <2> QED
    BY <1>4, <2>1, <2>3 DEF Fifo!vars, Copy, Answers
<1>5. ASSUME NEW p \in Procs, Publish(p) PROVE Fifo!Next
  <2>1. /\ lhead[p] = head /\ ltail[p] = tail /\ ~Refused(p)
        /\ head \in Index /\ tail \in Index /\ op[p] \in Ops /\ op' = op
    BY <1>0, <1>5 DEF Publish, Goto, RInv, DecisionStillValid, TypeOK
  <2>2. AbstractAnswer(p) = Nil
    BY <1>5 DEF Publish, Goto, AbstractAnswer
  <2>3. Answers' = [Answers EXCEPT ![p] = AbstractAnswer(p)']
    BY <1>0, <1>5, OthersAnswers DEF Publish, Goto, TypeOK
  <2>4. CASE op[p].kind = "push"
    <3>1. /\ tail' = Next1(tail) /\ head' = head /\ cells' = cells
          /\ Next1(tail) # head /\ cells[tail] = op[p].val /\ op[p].val \in Elems
      BY <1>0, <1>5, <2>1, <2>4, RingFacts
      DEF Publish, Goto, Refused, RInv, Locals, LocalsOf, Ops
    <3>2. Contents' = Append(Contents, op[p].val)
      BY <1>0, <2>1, <3>1, ContentsQueued, PushQueued DEF RInv, Filled
    <3>3. Len(Contents) < QCAP - 1
      <4>1. Len(Contents) = Size(head, tail) /\ Size(head, tail) # QCAP - 1
        BY <1>0, <2>1, <3>1, ContentsQueued, QueuedSeq, EmptyAndFull DEF RInv, Filled
      <4> QED
        BY <2>1, <4>1, RingArithmetic, RingAssumption
    <3>4. AbstractAnswer(p)' = "ok"
      BY <1>0, <1>5, <2>4 DEF Publish, Goto, AbstractAnswer, TypeOK, Failures
    <3>5. Fifo!Push(p)
      BY <2>1, <2>2, <2>3, <2>4, <3>2, <3>3, <3>4, RingAssumption
      DEF Fifo!Push, Fifo!Pending, Fifo!Answer, Fifo!Ok, Answers
    <3> QED
      BY <3>5 DEF Fifo!Next
  <2>5. CASE op[p].kind = "pop"
    <3>1. /\ head' = Next1(head) /\ tail' = tail /\ cells' = cells
          /\ head # tail /\ res[p] = cells[head] /\ res[p] \in Elems
      BY <1>0, <1>5, <2>1, <2>5, RingFacts
      DEF Publish, Goto, Refused, RInv, Locals, LocalsOf
    <3>2. /\ Contents' = Tail(Contents) /\ Contents # <<>>
          /\ Head(Contents) = res[p]
      BY <1>0, <2>1, <3>1, ContentsQueued, PopQueued DEF RInv, Filled
    <3>3. AbstractAnswer(p)' = res[p]
      BY <1>0, <1>5, <2>5, <3>1, RingAssumption
      DEF Publish, Goto, AbstractAnswer, TypeOK, Failures
    <3>4. Fifo!Pop(p)
      BY <2>1, <2>2, <2>3, <2>5, <3>2, <3>3, RingAssumption
      DEF Fifo!Pop, Fifo!Pending, Fifo!Answer, Answers
    <3> QED
      BY <3>4 DEF Fifo!Next
  <2> QED
    BY <2>1, <2>4, <2>5 DEF Ops
<1>6. ASSUME NEW p \in Procs, Unlock(p) PROVE Fifo!Next \/ UNCHANGED Fifo!vars
  <2>1. Contents' = Contents
    BY <1>0, <1>6, SameContents DEF Unlock
  <2>2. AbstractAnswer(p)' = Nil
    BY <1>0, <1>6 DEF Unlock, Goto, AbstractAnswer, TypeOK
  <2>3. Answers' = [Answers EXCEPT ![p] = Nil]
    BY <1>0, <1>6, <2>2, OthersAnswers DEF Unlock, ForgetLocals, Goto, TypeOK
  <2>4. CASE op[p].blocking /\ res[p] \in Failures
    <3>1. AbstractAnswer(p) = Nil /\ op' = op
      BY <1>6, <2>4 DEF Unlock, AbstractAnswer
    <3>2. Answers' = Answers
      BY <1>0, <1>6, <2>2, <3>1, OthersAnswers DEF Unlock, ForgetLocals, Goto, TypeOK
    <3> QED
      BY <2>1, <3>1, <3>2 DEF Fifo!vars, Answers
  <2>5. CASE ~(op[p].blocking /\ res[p] \in Failures)
    <3>1. /\ AbstractAnswer(p) = res[p]
          /\ op' = [op EXCEPT ![p] = Nil]
      BY <1>6, <2>5 DEF Unlock, AbstractAnswer
    <3>2. res[p] # Nil
      BY <1>0, <1>6, RingAssumption
      DEF Unlock, RInv, Locals, LocalsOf, TypeOK, Ops
    <3>3. Fifo!Return(p)
      BY <2>1, <2>3, <3>1, <3>2 DEF Fifo!Return, Fifo!Answer, Answers
    <3> QED
      BY <3>3 DEF Fifo!Next
  <2> QED
    BY <2>4, <2>5
<1>7. CASE UNCHANGED vars
  <2>1. Contents' = Contents /\ Answers' = Answers
    BY <1>7 DEF vars, Contents, Answers, AbstractAnswer
  <2> QED
    BY <1>7, <2>1 DEF Fifo!vars, vars, Answers
<1>8. ASSUME NEW p \in Procs, NEW o \in Ops, Fifo!Call(p, o) PROVE Fifo!Next
  BY <1>8 DEF Fifo!Next, Fifo!Ops, Ops
<1> QED
  BY <1>1, <1>2, <1>3, <1>4, <1>5, <1>6, <1>7, <1>8 DEF Next, Step

(* RingQueue is a bounded FIFO of capacity QCAP - 1: what it implements on   *)
(* the instances TLC checks it implements for every Procs, Elems and QCAP.   *)
THEOREM RingImplementsFifo == Spec => ImplementsFifo
<1>1. Init => Fifo!Init
  BY InitRefines
<1>2. RInv /\ RInv' /\ [Next]_vars => [Fifo!Next]_(Fifo!vars)
  BY StepRefines
<1> QED
  BY <1>1, <1>2, RInvariant, PTL DEF Spec, ImplementsFifo, Fifo!Spec
================================================================================
