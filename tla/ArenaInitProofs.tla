---------------------------- MODULE ArenaInitProofs ----------------------------
(***************************************************************************)
(* Arena creation for any number of openers and slots, on a fresh file or   *)
(* one of another version, whatever processes are killed: one initialiser   *)
(* at a time, and nobody opens a fresh arena that is not initialised.       *)
(***************************************************************************)
EXTENDS ArenaInit, SequenceTheorems, TLAPS

(* The lock is taken while anybody initialises. *)
Locked ==
  /\ OneInitialiser
  /\ \A p \in Openers : Initialising(p) => initLock = 1

PCs == {"start", "need", "trylock", "header", "queues", "slots", "publish", "unlock", "waitdone",
        "sanity", "open", "using", "failed", "dead"}

Types ==
  /\ pc \in [Openers -> PCs] /\ next \in [Openers -> 0 .. NumSlots]
  /\ initLock \in {0, 1} /\ initDone \in {0, 1}

(* How far the slot loop of an initialiser is, at each of its steps. *)
SlotLoop ==
  \A p \in Openers :
    /\ pc[p] \in {"start", "need", "trylock", "header", "queues"} => next[p] = 0
    /\ pc[p] = "slots" => next[p] < NumSlots
    /\ pc[p] = "publish" => next[p] = NumSlots

(* On a fresh file init_done is set by an initialiser that has written the   *)
(* header and queued all slots, and nobody goes on before it is set.         *)
Complete == header = "ours" /\ \E q \in Openers : next[q] = NumSlots

FreshFile ==
  origin = "fresh" =>
    /\ initDone = 1 => Complete
    /\ \A p \in Openers : pc[p] \in {"queues", "slots", "publish"} => header = "ours"
    /\ \A p \in Openers : pc[p] \in {"unlock", "sanity", "open", "using"} => initDone = 1

IInv == Types /\ Locked /\ SlotLoop /\ FreshFile

LEMMA InitHolds == InitAssumption /\ Init => IInv
  BY DEF InitAssumption, Init, IInv, Types, PCs, Locked, OneInitialiser, Initialising, SlotLoop,
         FreshFile, Complete

(* The steps that take, hold and give back the lock.                         *)
LEMMA LockedKept ==
  ASSUME Types, Locked, [Next]_vars PROVE Locked'
<1> USE DEF Locked, OneInitialiser, Initialising, Types
<1>1. CASE \E p \in Openers : TryLock(p)
  <2> PICK p \in Openers : TryLock(p)
    BY <1>1
  <2>1. CASE initLock = 0
    BY <2>1 DEF TryLock, Goto
  <2>2. CASE initLock = 1
    BY <2>2 DEF TryLock, Goto
  <2> QED BY <2>1, <2>2
<1>2. CASE \E p \in Openers : Unlock(p)
  <2> PICK p \in Openers : Unlock(p)
    BY <1>2
  <2> QED BY DEF Unlock, Goto
<1>3. CASE \E p \in Openers : WriteHeader(p) \/ InitQueues(p) \/ InitSlot(p) \/ Publish(p)
  BY <1>3 DEF WriteHeader, InitQueues, InitSlot, Publish, Goto
<1>4. CASE \E p \in Openers : Start(p) \/ ReadNeed(p) \/ WaitDone(p) \/ Sanity(p)
  BY <1>4 DEF Start, ReadNeed, WaitDone, Sanity, Goto
<1>5. CASE \E p \in Openers : Acquire(p) \/ Release(p) \/ Die(p)
  BY <1>5 DEF Acquire, Release, Die, Goto
<1>6. CASE UNCHANGED vars
  BY <1>6 DEF vars
<1> QED BY <1>1, <1>2, <1>3, <1>4, <1>5, <1>6 DEF Next, OpenStep

(* The slot loop, and the types.                                             *)
LEMMA LoopKept ==
  ASSUME InitAssumption, Types, SlotLoop, [Next]_vars PROVE Types' /\ SlotLoop'
<1> USE DEF Types, PCs, SlotLoop, InitAssumption
<1>1. CASE \E p \in Openers : InitSlot(p)
  BY SMTT(30), <1>1 DEF InitSlot
<1>2. CASE \E p \in Openers : InitQueues(p)
  BY <1>2 DEF InitQueues, Goto
<1>3. CASE \E p \in Openers : TryLock(p) \/ WriteHeader(p) \/ Publish(p) \/ Unlock(p)
  BY <1>3 DEF TryLock, WriteHeader, Publish, Unlock, Goto
<1>4. CASE \E p \in Openers : Start(p) \/ ReadNeed(p) \/ WaitDone(p) \/ Sanity(p)
  BY <1>4 DEF Start, ReadNeed, WaitDone, Sanity, Goto
<1>5. CASE \E p \in Openers : Acquire(p) \/ Release(p) \/ Die(p)
  BY <1>5 DEF Acquire, Release, Die, Goto
<1>6. CASE UNCHANGED vars
  BY <1>6 DEF vars
<1> QED BY <1>1, <1>2, <1>3, <1>4, <1>5, <1>6 DEF Next, OpenStep

(* A complete slot loop stays complete: nobody initialises twice.            *)
LEMMA FreshKept ==
  ASSUME InitAssumption, Types, SlotLoop, FreshFile, [Next]_vars PROVE FreshFile'
<1> USE DEF Types, FreshFile, Complete
<1>0. NumSlots \in Nat \ {0}
  BY DEF InitAssumption
<1>1. origin' = origin
  BY DEF Next, OpenStep, Start, ReadNeed, TryLock, WriteHeader, InitQueues, InitSlot, Publish,
         Unlock, WaitDone, Sanity, Acquire, Release, Die, vars, history
<1>2. CASE \E p \in Openers : InitQueues(p)
  BY <1>0, <1>1, <1>2 DEF InitQueues, Goto, SlotLoop
<1>3. CASE \E p \in Openers : InitSlot(p)
  BY <1>0, <1>1, <1>3 DEF InitSlot, SlotLoop
<1>4. CASE \E p \in Openers : Publish(p)
  BY <1>1, <1>4 DEF Publish, Goto, SlotLoop
<1>5. CASE \E p \in Openers : WriteHeader(p)
  BY <1>1, <1>5 DEF WriteHeader, Goto
<1>6. CASE \E p \in Openers : TryLock(p) \/ Unlock(p) \/ WaitDone(p) \/ Sanity(p)
  BY <1>1, <1>6 DEF TryLock, Unlock, WaitDone, Sanity, Goto
<1>7. CASE \E p \in Openers : ReadNeed(p)
  BY <1>1, <1>7 DEF ReadNeed, NeedInit
<1>8. CASE \E p \in Openers : Start(p) \/ Acquire(p) \/ Release(p) \/ Die(p)
  BY <1>1, <1>8 DEF Start, Acquire, Release, Die, Goto
<1>9. CASE UNCHANGED vars
  BY <1>9 DEF vars, history
<1> QED BY <1>2, <1>3, <1>4, <1>5, <1>6, <1>7, <1>8, <1>9 DEF Next, OpenStep

LEMMA InvariantHolds == Spec => []IInv
<1>1. Init => IInv
  BY InitHolds, InitAssumption
<1>2. IInv /\ [Next]_vars => IInv'
  BY LockedKept, LoopKept, FreshKept, InitAssumption DEF IInv
<1> QED BY <1>1, <1>2, PTL DEF Spec

(* Two processes never initialise at the same time, however many there are   *)
(* and whichever are killed (create_or_open).                                *)
THEOREM InitialiserCorrect == Spec => []OneInitialiser
<1>1. IInv => OneInitialiser
  BY DEF IInv, Locked
<1> QED BY <1>1, InvariantHolds, PTL

(* Nobody gets an arena of a fresh file before it is completely initialised, *)
(* whoever is killed on the way (create_or_open).                            *)
THEOREM OpenCorrect == Spec => []OpenMeansInitialised
<1>1. IInv => OpenMeansInitialised
  BY DEF IInv, FreshFile, Complete, OpenMeansInitialised
<1> QED BY <1>1, InvariantHolds, PTL

--------------------------------------------------------------------------------
(* Use of the arena.  An opener is busy from the moment it decided to        *)
(* initialise until it publishes.                                            *)
Busy(p) == pc[p] \in {"trylock", "header", "queues", "slots", "publish"}
User(p) == pc[p] \in {"open", "using"} \/ held[p] # Nil

Bound ==
  /\ freeQ \in Seq(Slots) /\ held \in [Openers -> Slots \cup {Nil}]
  /\ \A p \in Openers : pc[p] = "using" => held[p] # Nil

(* On any file, whoever goes on to use the arena saw a header of ours and    *)
(* init_done, and nobody who reads them then initialises again.              *)
Opened ==
  /\ origin \in {"fresh", "older"} /\ (origin = "older" => initDone = 1)
  /\ \A p \in Openers :
       /\ pc[p] \in {"queues", "slots", "publish"} \/ next[p] # 0 => header = "ours"
       /\ User(p) => header = "ours" /\ initDone = 1

(* Without a race, nobody opens beside an opener that may yet initialise,    *)
(* and nobody uses the arena then.                                           *)
Alone ==
  ~raced =>
    /\ ~Published => \A p, q \in Openers : Opening(p) /\ Opening(q) => p = q
    /\ \A p \in Openers : Busy(p) => ~Published /\ \A q \in Openers : ~User(q)

Distinct ==
  ~raced =>
    /\ \A p, q \in Openers : held[p] # Nil /\ held[p] = held[q] => p = q
    /\ \A i, j \in 1 .. Len(freeQ) : freeQ[i] = freeQ[j] => i = j
    /\ \A p \in Openers : \A i \in 1 .. Len(freeQ) : freeQ[i] # held[p]
    /\ \A p \in Openers : pc[p] = "slots" => \A i \in 1 .. Len(freeQ) : freeQ[i] < next[p]

EInv == IInv /\ Bound /\ Opened /\ Alone /\ Distinct

LEMMA BoundKept ==
  ASSUME Types, SlotLoop, Bound, [Next]_vars PROVE Bound'
<1> USE DEF Bound, Types, PCs
<1>0. Nil \notin Slots /\ NumSlots \in Nat \ {0}
  BY InitAssumption DEF Slots
<1>1. CASE \E p \in Openers : InitQueues(p)
  <2>1. <<>> \in Seq(Slots)
    BY EmptySeq
  <2> QED BY <1>1, <2>1 DEF InitQueues, Goto
<1>2. CASE \E p \in Openers : InitSlot(p)
  <2>1. PICK p \in Openers : InitSlot(p)
    BY <1>2
  <2>2. next[p] \in Slots
    BY <1>0, <2>1 DEF InitSlot, SlotLoop, Slots
  <2>3. Append(freeQ, next[p]) \in Seq(Slots)
    BY <2>2, AppendProperties
  <2> QED BY <2>1, <2>3 DEF InitSlot
<1>3. CASE \E p \in Openers : Acquire(p)
  <2>1. PICK p \in Openers : Acquire(p)
    BY <1>3
  <2>2. Head(freeQ) \in Slots /\ Tail(freeQ) \in Seq(Slots)
    BY <2>1, HeadTailProperties DEF Acquire
  <2> QED BY <1>0, <2>1, <2>2 DEF Acquire, Goto
<1>4. CASE \E p \in Openers : Release(p)
  <2>1. PICK p \in Openers : Release(p)
    BY <1>4
  <2>2. held[p] \in Slots
    BY <2>1 DEF Release, Goto
  <2>3. Append(freeQ, held[p]) \in Seq(Slots)
    BY <2>2, AppendProperties
  <2> QED BY <2>1, <2>3 DEF Release, Goto
<1>5. CASE \E p \in Openers : Start(p) \/ ReadNeed(p) \/ TryLock(p) \/ WriteHeader(p) \/ Publish(p)
  BY <1>5 DEF Start, ReadNeed, TryLock, WriteHeader, Publish, Goto
<1>6. CASE \E p \in Openers : Unlock(p) \/ WaitDone(p) \/ Sanity(p) \/ Die(p)
  BY <1>6 DEF Unlock, WaitDone, Sanity, Die, Goto
<1>7. CASE UNCHANGED vars
  BY <1>7 DEF vars
<1> QED BY <1>1, <1>2, <1>3, <1>4, <1>5, <1>6, <1>7 DEF Next, OpenStep

LEMMA OpenedKept ==
  ASSUME IInv, Bound, Opened, [Next]_vars PROVE Opened'
<1> USE DEF Opened, IInv, Types, PCs, User
<1>0. NumSlots \in Nat \ {0}
  BY InitAssumption
<1>1. origin' = origin
  BY DEF Next, OpenStep, Start, ReadNeed, TryLock, WriteHeader, InitQueues, InitSlot, Publish,
         Unlock, WaitDone, Sanity, Acquire, Release, Die, vars, history
<1>2. CASE \E p \in Openers : Sanity(p)
  <2>1. PICK p \in Openers : Sanity(p)
    BY <1>2
  <2>2. initDone = 1
    BY <2>1 DEF Sanity, Goto, FreshFile
  <2> QED BY <1>1, <2>1, <2>2 DEF Sanity, Goto
<1>3. CASE \E p \in Openers : InitSlot(p) \/ InitQueues(p) \/ WriteHeader(p) \/ Publish(p)
  BY <1>0, <1>1, <1>3 DEF InitSlot, InitQueues, WriteHeader, Publish, Goto
<1>4. CASE \E p \in Openers : Start(p) \/ ReadNeed(p) \/ TryLock(p) \/ Unlock(p) \/ WaitDone(p)
  BY <1>1, <1>4 DEF Start, ReadNeed, TryLock, Unlock, WaitDone, Goto
<1>5. CASE \E p \in Openers : Acquire(p) \/ Release(p) \/ Die(p)
  BY <1>1, <1>5 DEF Acquire, Release, Die, Goto
<1>6. CASE UNCHANGED vars
  BY <1>1, <1>6 DEF vars
<1> QED BY <1>2, <1>3, <1>4, <1>5, <1>6 DEF Next, OpenStep

LEMMA AloneKept ==
  ASSUME IInv, Bound, Opened, Alone, [Next]_vars PROVE Alone'
<1> USE DEF Alone, IInv, Types, PCs
<1> SUFFICES ASSUME ~raced' PROVE Alone'
  OBVIOUS
<1>0. NumSlots \in Nat \ {0}
  BY InitAssumption
<1>1. ~raced
  BY DEF Next, OpenStep, Start, ReadNeed, TryLock, WriteHeader, InitQueues, InitSlot, Publish,
         Unlock, WaitDone, Sanity, Acquire, Release, Die, vars, history
<1>2. CASE \E p \in Openers : Start(p)
  <2>1. PICK p \in Openers : Start(p)
    BY <1>2
  <2>2. Published' <=> Published
    BY <2>1 DEF Start, Goto, Published
  <2>3. Published \/ \A q \in Openers : ~Opening(q)
    BY <2>1 DEF Start
  <2> QED BY <1>1, <2>1, <2>2, <2>3 DEF Start, Goto, Opening, Busy, User
<1>3. CASE \E p \in Openers : ReadNeed(p)
  <2>1. PICK p \in Openers : ReadNeed(p)
    BY <1>3
  <2>2. Published' <=> Published
    BY <2>1 DEF ReadNeed, Published
  <2>3. Published => header = "ours" /\ initDone = 1
    BY <1>0 DEF Published, Opened
  <2>4. pc'[p] = "trylock" => ~Published /\ \A q \in Openers : ~User(q)
    BY <2>1, <2>3 DEF ReadNeed, NeedInit, Opened
  <2>5. \A q \in Openers : (Opening(q)' <=> Opening(q)) /\ (User(q)' <=> User(q))
    BY <2>1 DEF ReadNeed, Opening, User
  <2>6. \A q \in Openers : Busy(q)' => Busy(q) \/ (q = p /\ pc'[p] = "trylock")
    BY <2>1 DEF ReadNeed, Busy
  <2> QED BY <1>1, <2>2, <2>4, <2>5, <2>6
<1>4. CASE \E p \in Openers : InitSlot(p)
  <2>1. PICK p \in Openers : InitSlot(p)
    BY <1>4
  <2>2. ~Published /\ Busy(p) /\ Opening(p)
    BY <1>1, <2>1 DEF InitSlot, Busy, Opening
  <2>3. ~Published'
    BY <1>0, <2>1, <2>2 DEF InitSlot, Published, SlotLoop
  <2>4. \A q \in Openers : /\ Opening(q)' <=> Opening(q)
                           /\ User(q)' <=> User(q)
                           /\ Busy(q)' <=> Busy(q)
    BY <2>1 DEF InitSlot, Opening, User, Busy
  <2> QED BY <1>1, <2>2, <2>3, <2>4
<1>5. CASE \E p \in Openers : InitQueues(p)
  <2>1. PICK p \in Openers : InitQueues(p)
    BY <1>5
  <2>2. Published' <=> Published
    BY <1>0, <2>1 DEF InitQueues, Goto, Published, SlotLoop
  <2>4. \A q \in Openers : /\ Opening(q)' <=> Opening(q)
                           /\ User(q)' <=> User(q)
                           /\ Busy(q)' <=> Busy(q)
    BY <2>1 DEF InitQueues, Goto, Opening, User, Busy
  <2> QED BY <1>1, <2>2, <2>4
<1>6. CASE \E p \in Openers : TryLock(p) \/ WriteHeader(p)
  <2>1. PICK p \in Openers : TryLock(p) \/ WriteHeader(p)
    BY <1>6
  <2>2. Published' <=> Published
    BY <2>1 DEF TryLock, WriteHeader, Goto, Published
  <2>3. \A q \in Openers : /\ Opening(q)' <=> Opening(q)
                           /\ User(q)' <=> User(q)
                           /\ Busy(q)' => Busy(q)
    BY <2>1 DEF TryLock, WriteHeader, Goto, Opening, User, Busy
  <2> QED BY <1>1, <2>2, <2>3
<1>7. CASE \E p \in Openers : Publish(p)
  <2>1. PICK p \in Openers : Publish(p)
    BY <1>7
  <2>2. ~Published /\ Opening(p)
    BY <1>1, <2>1 DEF Publish, Goto, Busy, Opening
  <2>3. \A q \in Openers : Busy(q) => q = p
    BY <1>1, <2>2 DEF Busy, Opening
  <2>4. \A q \in Openers : ~Busy(q)'
    BY <2>1, <2>3 DEF Publish, Goto, Busy
  <2>5. Published'
    BY <2>1 DEF Publish, Goto, Published, SlotLoop
  <2> QED BY <2>4, <2>5
<1>8. CASE \E p \in Openers : Unlock(p) \/ WaitDone(p)
  <2>1. PICK p \in Openers : Unlock(p) \/ WaitDone(p)
    BY <1>8
  <2>2. Published' <=> Published
    BY <2>1 DEF Unlock, WaitDone, Goto, Published
  <2>3. \A q \in Openers : /\ Opening(q)' <=> Opening(q)
                           /\ User(q)' <=> User(q)
                           /\ Busy(q)' <=> Busy(q)
    BY <2>1 DEF Unlock, WaitDone, Goto, Opening, User, Busy
  <2> QED BY <1>1, <2>2, <2>3
<1>9. CASE \E p \in Openers : Sanity(p)
  <2>1. PICK p \in Openers : Sanity(p)
    BY <1>9
  <2>2. Published' <=> Published
    BY <2>1 DEF Sanity, Goto, Published
  <2>3. \A q \in Openers : /\ Opening(q)' => Opening(q)
                           /\ User(q)' => User(q) \/ q = p
                           /\ Busy(q)' <=> Busy(q)
    BY <2>1 DEF Sanity, Goto, Opening, User, Busy
  <2>4. Opening(p) /\ ~Busy(p)
    BY <2>1 DEF Sanity, Goto, Opening, Busy
  <2>5. \A q \in Openers : Busy(q) => Opening(q)
    BY DEF Busy, Opening
  <2>6. \A q \in Openers : ~Busy(q)
    BY <1>1, <2>4, <2>5
  <2> QED BY <1>1, <2>2, <2>3, <2>6
<1>10. CASE \E p \in Openers : Acquire(p) \/ Release(p)
  <2>1. PICK p \in Openers : Acquire(p) \/ Release(p)
    BY <1>10
  <2>2. Published' <=> Published
    BY <2>1 DEF Acquire, Release, Goto, Published
  <2>3. \A q \in Openers : /\ Opening(q)' <=> Opening(q)
                           /\ User(q)' => User(q) \/ q = p
                           /\ Busy(q)' <=> Busy(q)
    BY <2>1 DEF Acquire, Release, Goto, Opening, User, Busy, Bound
  <2>4. User(p)
    BY <2>1 DEF Acquire, Release, Goto, User
  <2> QED BY <1>1, <2>2, <2>3, <2>4
<1>11. CASE \E p \in Openers : Die(p)
  <2>1. PICK p \in Openers : Die(p)
    BY <1>11
  <2>2. Published => Published'
    BY <2>1 DEF Die, Published
  <2>3. \A q \in Openers : /\ Opening(q)' <=> Opening(q) /\ q # p
                           /\ User(q)' => User(q)
                           /\ Busy(q)' <=> Busy(q) /\ q # p
    BY <2>1 DEF Die, Opening, User, Busy
  <2>4. Published' => Published \/ Busy(p)
    BY <2>1 DEF Die, Published, Busy
  <2>5. \A q \in Openers : Busy(q) => Opening(q)
    BY DEF Busy, Opening
  <2> QED BY <1>1, <2>2, <2>3, <2>4, <2>5
<1>12. CASE UNCHANGED vars
  BY <1>1, <1>12 DEF vars, history, Published, Opening, Busy, User
<1> QED BY <1>2, <1>3, <1>4, <1>5, <1>6, <1>7, <1>8, <1>9, <1>10, <1>11, <1>12 DEF Next, OpenStep

LEMMA DistinctKept ==
  ASSUME IInv, Bound, Opened, Alone, Distinct, [Next]_vars PROVE Distinct'
<1> USE DEF IInv, Types, PCs
<1> SUFFICES ASSUME ~raced' PROVE Distinct'
  BY DEF Distinct
<1>0. Nil \notin Slots /\ NumSlots \in Nat \ {0} /\ Slots \subseteq Nat
  BY InitAssumption DEF Slots
<1>1. ~raced
  BY DEF Next, OpenStep, Start, ReadNeed, TryLock, WriteHeader, InitQueues, InitSlot, Publish,
         Unlock, WaitDone, Sanity, Acquire, Release, Die, vars, history
<1>2. PICK n \in Nat : n = Len(freeQ)
  BY LenProperties DEF Bound
<1>3. \A i \in 1 .. n : freeQ[i] \in Slots
  BY <1>2, ElementOfSeq DEF Bound
<1>4. /\ \A p, q \in Openers : held[p] # Nil /\ held[p] = held[q] => p = q
      /\ \A i, j \in 1 .. n : freeQ[i] = freeQ[j] => i = j
      /\ \A p \in Openers : \A i \in 1 .. n : freeQ[i] # held[p]
      /\ \A p \in Openers : pc[p] = "slots" => \A i \in 1 .. n : freeQ[i] < next[p]
  BY <1>1, <1>2 DEF Distinct
<1>5. CASE \E p \in Openers : InitQueues(p)
  <2>1. PICK p \in Openers : InitQueues(p)
    BY <1>5
  <2>2. freeQ' = <<>> /\ held' = held /\ Len(<<>>) = 0
    BY <2>1, EmptySeq DEF InitQueues
  <2>3. \A i \in 1 .. Len(freeQ') : FALSE
    BY <2>2
  <2> QED BY <1>4, <2>2, <2>3 DEF Distinct
<1>6. CASE \E p \in Openers : InitSlot(p)
  <2>1. PICK p \in Openers : InitSlot(p)
    BY <1>6
  <2>2. PICK k \in Nat : k = next[p]
    BY <2>1
  <2>3. k \in Slots
    BY <1>0, <2>1, <2>2 DEF InitSlot, SlotLoop, Slots
  <2>4. freeQ' = Append(freeQ, k) /\ next'[p] = k + 1 /\ pc[p] = "slots" /\ held' = held
        /\ \A q \in Openers \ {p} : pc'[q] = pc[q]
    BY <2>1, <2>2 DEF InitSlot
  <2>5. Len(freeQ') = n + 1 /\ freeQ'[n + 1] = k /\ \A i \in 1 .. n : freeQ'[i] = freeQ[i]
    BY <1>2, <2>3, <2>4, AppendProperties DEF Bound
  <2>6. \A i \in 1 .. n : freeQ[i] < k /\ freeQ[i] \in Nat
    BY <1>0, <1>3, <1>4, <2>2, <2>4
  <2>7. \A q \in Openers : held[q] = Nil /\ (pc'[q] = "slots" => q = p)
    <3>1. Busy(p) /\ Opening(p)
      BY <2>4 DEF Busy, Opening
    <3>2. ~Published /\ \A q \in Openers : ~User(q) /\ (Opening(q) => q = p)
      BY <1>1, <3>1 DEF Alone
    <3> QED BY <2>4, <3>2 DEF User, Opening
  <2>8. \A i \in 1 .. n + 1 : i \in 1 .. n \/ i = n + 1
    OBVIOUS
  <2>9. \A i, j \in 1 .. n + 1 : freeQ'[i] = freeQ'[j] => i = j
    BY <1>4, <2>5, <2>6, <2>8
  <2>10. \A i \in 1 .. n + 1 : freeQ'[i] \in Slots /\ freeQ'[i] < k + 1
    BY <1>3, <2>3, <2>5, <2>6, <2>8
  <2> QED BY <1>0, <2>4, <2>5, <2>7, <2>9, <2>10 DEF Distinct
<1>7. CASE \E p \in Openers : Acquire(p)
  <2>1. PICK p \in Openers : Acquire(p)
    BY <1>7
  <2>2. /\ pc[p] = "open" /\ pc' = [pc EXCEPT ![p] = "using"] /\ freeQ # <<>> /\ next' = next
        /\ held' = [held EXCEPT ![p] = Head(freeQ)] /\ freeQ' = Tail(freeQ)
    BY <2>1 DEF Acquire, Goto
  <2>3. /\ n >= 1 /\ Len(freeQ') = n - 1 /\ Head(freeQ) = freeQ[1]
        /\ \A i \in 1 .. n - 1 : freeQ'[i] = freeQ[i + 1]
    BY <1>2, <2>2, EmptySeq, HeadTailProperties DEF Bound
  <2>4. held' = [held EXCEPT ![p] = freeQ[1]] /\ held \in [Openers -> Slots \cup {Nil}]
    BY <2>2, <2>3 DEF Bound
  <2>5. 1 \in 1 .. n /\ \A i \in 1 .. n - 1 : i + 1 \in 1 .. n /\ i + 1 # 1
    BY <2>3
  <2>6. \A q, r \in Openers : held'[q] # Nil /\ held'[q] = held'[r] => q = r
    BY <1>4, <2>4, <2>5
  <2>7. \A i, j \in 1 .. n - 1 : freeQ'[i] = freeQ'[j] => i = j
    <3> SUFFICES ASSUME NEW i \in 1 .. n - 1, NEW j \in 1 .. n - 1, freeQ'[i] = freeQ'[j] PROVE i = j
      OBVIOUS
    <3>1. freeQ[i + 1] = freeQ[j + 1]
      BY <2>3
    <3>2. i + 1 = j + 1
      BY <1>4, <2>5, <3>1
    <3> QED BY <3>2
  <2>8. \A q \in Openers : \A i \in 1 .. n - 1 : freeQ'[i] # held'[q]
    BY <1>4, <2>3, <2>4, <2>5
  <2>9. \A q \in Openers : pc'[q] = "slots" => \A i \in 1 .. n - 1 : freeQ'[i] < next'[q]
    BY <1>4, <2>2, <2>3, <2>5
  <2> QED BY <2>3, <2>6, <2>7, <2>8, <2>9 DEF Distinct
<1>8. CASE \E p \in Openers : Release(p)
  <2>1. PICK p \in Openers : Release(p)
    BY <1>8
  <2>2. /\ pc[p] = "using" /\ pc' = [pc EXCEPT ![p] = "open"] /\ next' = next
        /\ held' = [held EXCEPT ![p] = Nil] /\ freeQ' = Append(freeQ, held[p])
    BY <2>1 DEF Release, Goto
  <2>3. held \in [Openers -> Slots \cup {Nil}] /\ held[p] \in Slots
    BY <2>2 DEF Bound
  <2>4. Len(freeQ') = n + 1 /\ freeQ'[n + 1] = held[p] /\ \A i \in 1 .. n : freeQ'[i] = freeQ[i]
    BY <1>2, <2>2, <2>3, AppendProperties DEF Bound
  <2>5. \A i \in 1 .. n + 1 : i \in 1 .. n \/ i = n + 1
    OBVIOUS
  <2>6. \A q, r \in Openers : held'[q] # Nil /\ held'[q] = held'[r] => q = r
    BY <1>4, <2>2, <2>3
  <2>7. \A i, j \in 1 .. n + 1 : freeQ'[i] = freeQ'[j] => i = j
    BY <1>4, <2>4, <2>5
  <2>8. \A q \in Openers : \A i \in 1 .. n + 1 : freeQ'[i] # held'[q]
    BY <1>0, <1>3, <1>4, <2>2, <2>3, <2>4, <2>5
  <2>9. \A q \in Openers : pc'[q] # "slots"
    <3>1. \A q \in Openers : ~Busy(q)
      BY <1>1, <2>2 DEF Alone, User
    <3> QED BY <2>2, <3>1 DEF Busy
  <2> QED BY <2>4, <2>6, <2>7, <2>8, <2>9 DEF Distinct
<1>9. CASE \E p \in Openers : Start(p) \/ ReadNeed(p) \/ TryLock(p) \/ WriteHeader(p) \/ Publish(p)
  BY <1>1, <1>9 DEF Start, ReadNeed, TryLock, WriteHeader, Publish, Goto, Distinct
<1>10. CASE \E p \in Openers : Unlock(p) \/ WaitDone(p) \/ Sanity(p) \/ Die(p)
  BY <1>1, <1>10 DEF Unlock, WaitDone, Sanity, Die, Goto, Distinct
<1>11. CASE UNCHANGED vars
  BY <1>1, <1>11 DEF vars, Distinct
<1> QED BY <1>5, <1>6, <1>7, <1>8, <1>9, <1>10, <1>11 DEF Next, OpenStep

LEMMA UseInit == Init => Bound /\ Opened /\ Alone /\ Distinct
<1> SUFFICES ASSUME Init PROVE Bound /\ Opened /\ Alone /\ Distinct
  OBVIOUS
<1> DEFINE full == [i \in 1 .. NumSlots |-> i - 1]
<1>1. full \in [1 .. NumSlots -> Slots] /\ NumSlots \in Nat
  BY InitAssumption DEF Slots
<1>2. full \in Seq(Slots) /\ Len(full) = NumSlots
  <2>1. full \in Seq(Slots)
    BY <1>1, SeqDef
  <2> QED BY <1>1, <2>1, LenProperties
<1>3. freeQ = full \/ freeQ = <<>>
  BY DEF Init
<1>4. freeQ \in Seq(Slots) /\ \A i, j \in 1 .. Len(freeQ) : freeQ[i] = freeQ[j] => i = j
  <2>1. CASE freeQ = full
    BY <1>1, <1>2, <2>1
  <2>2. CASE freeQ = <<>>
    BY <2>2, EmptySeq
  <2> QED BY <1>3, <2>1, <2>2
<1>5. \A i \in 1 .. Len(freeQ) : freeQ[i] # Nil
  BY <1>4, ElementOfSeq, InitAssumption DEF Slots
<1>6. /\ \A p \in Openers : pc[p] = "start" /\ held[p] = Nil /\ next[p] = 0
      /\ held = [p \in Openers |-> Nil] /\ origin \in {"fresh", "older"}
      /\ origin = "older" => initDone = 1
  BY InitAssumption DEF Init
<1>7. Bound
  BY <1>4, <1>6 DEF Bound
<1>8. Opened
  BY <1>6 DEF Opened, User
<1>9. Alone
  BY <1>6 DEF Alone, Opening, Busy
<1>10. Distinct
  BY <1>4, <1>5, <1>6 DEF Distinct
<1> QED BY <1>7, <1>8, <1>9, <1>10

(* Unless two openers race for the initialisation, a slot is used by one     *)
(* process at a time and queued once, on a fresh file and on one of another  *)
(* version, whoever is killed (create_or_open, acquire_slot, release_slot).  *)
THEOREM ExclusiveCorrect == Spec => []SlotsExclusive
<1>1. Init => EInv
  BY InitHolds, InitAssumption, UseInit DEF EInv
<1>2. EInv /\ [Next]_vars => EInv'
  <2> SUFFICES ASSUME EInv, [Next]_vars PROVE EInv'
    OBVIOUS
  <2>1. IInv'
    BY LockedKept, LoopKept, FreshKept, InitAssumption DEF EInv, IInv
  <2>2. Bound' /\ Opened' /\ Alone' /\ Distinct'
    BY BoundKept, OpenedKept, AloneKept, DistinctKept DEF EInv, IInv
  <2> QED BY <2>1, <2>2 DEF EInv
<1>3. EInv => SlotsExclusive
  BY DEF EInv, Distinct, SlotsExclusive
<1> QED BY <1>1, <1>2, <1>3, PTL DEF Spec
================================================================================
