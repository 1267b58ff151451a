------------------------------ MODULE ArenaProofs ------------------------------
(***************************************************************************)
(* Proofs about Arena, for any number of clients, handlers, slots and      *)
(* request ids: types and the clients' half of the protocol whatever may   *)
(* go wrong, then the whole of it, and that it implements InferenceService *)
(* when nothing goes wrong but a batch that cannot be built or inferred.   *)
(***************************************************************************)
EXTENDS Arena, SequenceTheorems, FiniteSetTheorems, TLAPS

(* From the first pop to the end of its round a handler has a slot view, and *)
(* it begins to write back at the first one.                                 *)
Batching == {"fill", "infer", "write", "mark", "metrics", "except", "stopping"}
SomeView ==
  \A h \in Handlers :
    /\ hpc[h] \in Batching => NumViews(h) >= 1
    /\ hpc[h] \in {"pop", "clear", "fill", "infer"} => idx[h] = 1

TInv == TypeOK /\ SomeView

USE DEF resetVars

LEMMA NextIdType ==
  ASSUME NEW n \in ReqIds
  PROVE  NextId(n) \in ReqIds
BY ArenaAssumption, SMTT(30) DEF NextId, ReqIds

LEMMA ZeroIsOutput == Zero \in Outputs
BY DEF Outputs

LEMMA MineIsOutput ==
  ASSUME NEW c \in Clients, NEW n \in ReqIds
  PROVE  [owner |-> c, req |-> n] \in Outputs
BY DEF Outputs, Requests

LEMMA AllFreeType == AllFree \in Seq(Slots) /\ Len(AllFree) = NumSlots
<1>1. AllFree \in [1 .. NumSlots -> Slots]
  BY ArenaAssumption DEF AllFree, Slots
<1>2. AllFree \in Seq(Slots)
  BY <1>1, ArenaAssumption, SeqDef
<1> QED
  BY <1>1, <1>2, ArenaAssumption, LenProperties

LEMMA TInvInit == Init => TInv
<1> SUFFICES ASSUME Init PROVE TInv
  OBVIOUS
<1>1. AllFree \in Seq(Slots) /\ Zero \in Outputs /\ MaxReq - 1 \in ReqIds
  BY AllFreeType, ZeroIsOutput, ArenaAssumption DEF ReqIds
<1>2. /\ resets \in 0 .. MaxResets /\ rslot \in 0 .. NumSlots /\ stale \in BOOLEAN
      /\ rpc \in {"idle", "ready", "free", "push", "panicked"}
      /\ resets = 0 => rpc = "idle" /\ ~stale
      /\ rpc = "ready" => rslot = 0
      /\ rpc \in {"free", "push"} => rslot < NumSlots
  <2>1. resets = 0 /\ rpc = "idle" /\ rslot = 0 /\ stale = FALSE
    BY DEF Init
  <2>2. stale \in BOOLEAN /\ ~stale
    BY <2>1
  <2>3. resets \in 0 .. MaxResets /\ rslot \in 0 .. NumSlots /\ rslot < NumSlots
    BY <2>1, ArenaAssumption
  <2> QED BY <2>1, <2>2, <2>3
<1>3. /\ hpc \in [Handlers -> HandlerLocations]
      /\ hslot \in [Handlers -> Slots \cup {Nil}]
      /\ views \in [Handlers -> Seq(Slots)]
      /\ batch \in [Handlers -> Seq(Outputs)]
      /\ idx \in [Handlers -> Nat \ {0}]
      /\ \A h \in Handlers :
           /\ hslot[h] # Nil <=> hpc[h] = "clear"
           /\ hpc[h] \in {"infer", "write", "mark"} => Len(batch[h]) = NumViews(h)
           /\ hpc[h] \in {"write", "mark", "except", "stopping"} => idx[h] <= NumViews(h)
  BY DEF Init, HandlerLocations
<1>4. /\ state \in [Slots -> {"FREE", "READY", "DONE"}]
      /\ request \in [Slots -> Outputs] /\ output \in [Slots -> Outputs]
      /\ cpc \in [Clients -> ClientLocations]
      /\ cslot \in [Clients -> Slots \cup {Nil}]
      /\ creq \in [Clients -> ReqIds] /\ answer \in [Clients -> Outputs]
      /\ \A c \in Clients : cslot[c] # Nil <=> cpc[c] \in Holding
  BY <1>1 DEF Init, ClientLocations, Holding
<1>5. freeQ \in Seq(Slots) /\ readyQ \in Seq(Slots)
  BY <1>1, EmptySeq DEF Init
<1>6. TypeOK
  BY <1>2, <1>3, <1>4, <1>5 DEF TypeOK
<1> QED
  BY <1>6 DEF Init, TInv, SomeView, Batching

(* Every step of a client keeps the types. *)
LEMMA TInvClient ==
  ASSUME TInv, NEW c \in Clients, CCall(c) \/ CStep(c)
  PROVE  TInv'
<1> USE DEF TInv, TypeOK, SomeView, CGoto, ClientLocations, Holding, NumViews, slotVars,
            queueVars, handlerVars, clientVars
<1>1. CASE CCall(c)
  BY <1>1 DEF CCall
<1>2. CASE CAcquire(c)
  <2>1. Head(freeQ) \in Slots /\ Tail(freeQ) \in Seq(Slots)
    BY <1>2, HeadTailProperties DEF CAcquire
  <2>2. Head(freeQ) # Nil
    BY <2>1, ArenaAssumption DEF Slots
  <2> QED
    BY <1>2, <2>1, <2>2 DEF CAcquire
<1>3. CASE CFill(c)
  <2>1. NextId(creq[c]) \in ReqIds
    BY NextIdType
  <2>2. [owner |-> c, req |-> NextId(creq[c])] \in Outputs
    BY <2>1, MineIsOutput
  <2> QED
    BY <1>3, <2>1, <2>2 DEF CFill
<1>4. CASE CReady(c)
  BY <1>4 DEF CReady
<1>5. CASE CSubmit(c)
  <2>0. cslot[c] \in Slots
    BY <1>5 DEF CSubmit
  <2>1. Append(readyQ, cslot[c]) \in Seq(Slots)
    BY <2>0, AppendProperties
  <2> QED
    BY <1>5, <2>1 DEF CSubmit
<1>6. CASE CWait(c)
  BY <1>6 DEF CWait
<1>7. CASE CAccept(c)
  BY <1>7 DEF CAccept
<1>8. CASE CReject(c)
  BY <1>8 DEF CReject
<1>9. CASE CRead(c)
  <2>1. output[cslot[c]] \in Outputs
    BY <1>9 DEF CRead
  <2> QED
    BY <1>9, <2>1 DEF CRead
<1>10. CASE CFree(c)
  BY ZenonT(90), <1>10 DEF CFree
<1>11. CASE CPush(c)
  <2>0. cslot[c] \in Slots
    BY <1>11 DEF CPush
  <2>1. Append(freeQ, cslot[c]) \in Seq(Slots)
    BY <2>0, AppendProperties
  <2> QED
    BY ZenonT(90), <1>11, <2>1 DEF CPush
<1> QED
  BY <1>1, <1>2, <1>3, <1>4, <1>5, <1>6, <1>7, <1>8, <1>9, <1>10, <1>11 DEF CStep

(* Every step of a handler, a failing one included, keeps the types. *)
LEMMA TInvHandler ==
  ASSUME TInv, NEW h \in Handlers, HStep(h) \/ HFault(h)
  PROVE  TInv'
<1> USE DEF TInv, TypeOK, SomeView, HGoto, HandlerLocations, Batching, NumViews, slotVars,
            queueVars, handlerVars, clientVars
<1>0. <<>> \in Seq(Slots) /\ <<>> \in Seq(Outputs) /\ Len(<<>>) = 0
  BY EmptySeq
<1>1. CASE HPop(h)
  <2>1. Head(readyQ) \in Slots /\ Tail(readyQ) \in Seq(Slots)
    BY <1>1, HeadTailProperties DEF HPop
  <2>2. Head(readyQ) # Nil
    BY <2>1, ArenaAssumption DEF Slots
  <2> QED
    BY ZenonT(30), <1>1, <2>1, <2>2 DEF HPop
<1>2. CASE HClear(h)
  <2>1. hslot[h] \in Slots
    BY <1>2 DEF HClear
  <2>2. /\ Append(views[h], hslot[h]) \in Seq(Slots)
        /\ Len(Append(views[h], hslot[h])) = Len(views[h]) + 1
        /\ Len(views[h]) \in Nat
    BY <2>1, AppendProperties, LenProperties
  <2>3. Nil \notin Slots
    BY ArenaAssumption DEF Slots
  <2> QED
    BY <1>2, <2>1, <2>2, <2>3, ZeroIsOutput DEF HClear
<1>3. CASE HBuild(h)
  <2> DEFINE b == [i \in 1 .. NumViews(h) |-> request[views[h][i]]]
  <2>1. NumViews(h) \in Nat
    BY LenProperties
  <2>2. b \in [1 .. NumViews(h) -> Outputs]
    BY <2>1, ElementOfSeq
  <2>3. b \in Seq(Outputs)
    BY <2>1, <2>2, SeqDef
  <2>4. Len(b) = NumViews(h)
    BY <2>1, <2>2, <2>3, LenProperties
  <2> HIDE DEF b
  <2>5. /\ batch' = [batch EXCEPT ![h] = b]
        /\ hpc[h] = "fill" /\ hpc' = [hpc EXCEPT ![h] = "infer"]
        /\ UNCHANGED <<queueVars, slotVars, clientVars, hslot, views, idx, resetVars>>
    BY <1>3 DEF HBuild, b
  <2> QED
    BY <2>3, <2>4, <2>5
<1>4. CASE HInfer(h)
  BY <1>4 DEF HInfer
<1>5. CASE HWrite(h)
  <2>1. idx[h] \in 1 .. Len(batch[h])
    BY <1>5 DEF HWrite
  <2>2. batch[h][idx[h]] \in Outputs
    BY <2>1, ElementOfSeq
  <2> QED
    BY <1>5, <2>2 DEF HWrite
<1>6. CASE HMark(h)
  BY <1>6, LenProperties DEF HMark
<1>7. CASE HMetrics(h)
  BY <1>0, <1>7 DEF HMetrics, NewRound
<1>8. CASE HRaise(h)
  <2>1. ASSUME NEW l \in {"infer", "write", "metrics"}, HGoto(h, l, "except"),
               idx' = [idx EXCEPT ![h] = 1],
               UNCHANGED <<queueVars, slotVars, clientVars, hslot, views, batch, resetVars>>
        PROVE  TInv'
    BY <2>1, LenProperties
  <2> QED
    BY <1>8, <2>1 DEF HRaise
<1>9. CASE HInterrupt(h)
  BY <1>9, LenProperties DEF HInterrupt
<1>10. CASE HMarkAll(h)
  <2>1. CASE idx[h] < NumViews(h)
    <3>1. /\ idx' = [idx EXCEPT ![h] = @ + 1]
          /\ state' = [state EXCEPT ![views[h][idx[h]]] = "DONE"]
          /\ hpc[h] \in {"except", "stopping"}
          /\ UNCHANGED <<queueVars, request, output, clientVars, hslot, hpc, views,
                         batch, resetVars>>
      BY <1>10, <2>1, LenProperties DEF HMarkAll
    <3> QED
      BY <2>1, <3>1, LenProperties
  <2>2. CASE idx[h] = NumViews(h)
    <3>1. /\ state' = [state EXCEPT ![views[h][idx[h]]] = "DONE"]
          /\ hpc[h] \in {"except", "stopping"}
          /\ HGoto(h, "except", "pop") \/ HGoto(h, "stopping", "stopped")
          /\ NewRound(h)
          /\ UNCHANGED <<queueVars, request, output, clientVars, hslot, resetVars>>
      BY <1>10, <2>2, LenProperties DEF HMarkAll
    <3>2. /\ state' \in [Slots -> {"FREE", "READY", "DONE"}]
          /\ \E l \in {"pop", "stopped"} : hpc' = [hpc EXCEPT ![h] = l]
      BY <3>1
    <3> QED
      BY <1>0, <3>1, <3>2 DEF NewRound
  <2> QED
    BY <1>10, <2>1, <2>2 DEF HMarkAll
<1>11. CASE HAbandon(h)
  BY <1>0, <1>11 DEF HAbandon, NewRound
<1> QED
  BY <1>1, <1>2, <1>3, <1>4, <1>5, <1>6, <1>7, <1>8, <1>9, <1>10, <1>11
  DEF HStep, HFault

LEMMA TInvReset == TInv /\ ForceReset => TInv'
<1> SUFFICES ASSUME TInv, ForceReset PROVE TInv'
  OBVIOUS
<1> USE ArenaAssumption DEF TInv, TypeOK, SomeView, NumViews, handlerVars, clientVars, slotVars,
        queueVars
<1>1. CASE ResetFreeQ
  BY <1>1, EmptySeq DEF ResetFreeQ
<1>2. CASE ResetReadyQ
  BY <1>2, EmptySeq DEF ResetReadyQ
<1>3. CASE ResetSlot
  BY <1>3 DEF ResetSlot
<1>4. CASE ResetPush
  <2>1. rslot \in Slots
    BY <1>4 DEF ResetPush, Slots
  <2>2. Append(freeQ, rslot) \in Seq(Slots)
    BY <2>1, AppendProperties
  <2>3. CASE HasRoom(freeQ)
    <3>1. /\ rslot + 1 \in 0 .. NumSlots
          /\ rslot # NumSlots - 1 => rslot + 1 < NumSlots
      BY <1>4 DEF ResetPush
    <3> QED BY <1>4, <2>2, <2>3, <3>1 DEF ResetPush
  <2>4. CASE ~HasRoom(freeQ)
    BY <1>4, <2>4 DEF ResetPush
  <2> QED BY <2>3, <2>4
<1> QED
  BY <1>1, <1>2, <1>3, <1>4 DEF ForceReset

LEMMA TInvStep == TInv /\ [Next]_vars => TInv'
<1> SUFFICES ASSUME TInv, [Next]_vars PROVE TInv'
  OBVIOUS
<1>1. CASE UNCHANGED vars
  BY <1>1
  DEF vars, slotVars, queueVars, handlerVars, clientVars, TInv, TypeOK, SomeView, NumViews
<1> QED
  BY <1>1, TInvClient, TInvHandler, TInvReset DEF Next

(* The arena words, the locals of infer and of do_work keep their types, and *)
(* each local is bound exactly where the code binds it.                      *)
THEOREM TypeCorrect == Spec => []TypeOK
<1>1. Init => TInv
  BY TInvInit
<1>2. TInv /\ [Next]_vars => TInv'
  BY TInvStep
<1>3. TInv => TypeOK
  BY DEF TInv
<1> QED
  BY <1>1, <1>2, <1>3, PTL DEF Spec

--------------------------------------------------------------------------------
(* Who owns a slot depends on these alone. *)
LEMMA OwnershipFrame ==
  SlotOwnership /\ UNCHANGED <<freeQ, cslot, resetVars>> => SlotOwnership'
BY DEF SlotOwnership, ToCome

LEMMA OwnershipAcquire ==
  ASSUME TInv, SlotOwnership, NEW c \in Clients, CAcquire(c)
  PROVE  SlotOwnership'
<1> SUFFICES ASSUME ~stale PROVE SlotOwnership'
  BY DEF CAcquire, SlotOwnership
<1> DEFINE n == Len(freeQ)
<1>1. /\ freeQ \in Seq(Slots) /\ freeQ # <<>> /\ cslot \in [Clients -> Slots \cup {Nil}]
      /\ freeQ' = Tail(freeQ) /\ cslot' = [cslot EXCEPT ![c] = Head(freeQ)]
      /\ cslot[c] = Nil
  BY DEF CAcquire, CGoto, TInv, TypeOK, Holding
<1>2. /\ n \in Nat /\ n >= 1 /\ Len(freeQ') = n - 1 /\ Head(freeQ) = freeQ[1]
      /\ \A i \in 1 .. n - 1 : freeQ'[i] = freeQ[i + 1]
      /\ \A i \in 1 .. n : freeQ[i] \in Slots
  BY <1>1, EmptySeq, LenProperties, HeadTailProperties, ElementOfSeq
<1>3. Nil \notin Slots
  BY ArenaAssumption DEF Slots
<1> HIDE DEF n
<1>4. /\ \A i, j \in 1 .. n : freeQ[i] = freeQ[j] => i = j
      /\ \A d \in Clients : \A i \in 1 .. n : freeQ[i] # cslot[d]
      /\ \A d, e \in Clients : cslot[d] # Nil /\ cslot[d] = cslot[e] => d = e
      /\ \A s \in ToCome :
           (\A i \in 1 .. n : freeQ[i] # s) /\ (\A d \in Clients : cslot[d] # s)
      /\ \A s \in Slots \ ToCome :
           (\E i \in 1 .. n : freeQ[i] = s) \/ (\E d \in Clients : cslot[d] = s)
      /\ rpc # "panicked"
  BY DEF SlotOwnership, n
<1>5. \A i, j \in 1 .. n - 1 : freeQ'[i] = freeQ'[j] => i = j
  BY <1>2, <1>4
<1>6. \A d \in Clients : \A i \in 1 .. n - 1 : freeQ'[i] # cslot'[d]
  BY <1>1, <1>2, <1>4
<1>7. \A d, e \in Clients : cslot'[d] # Nil /\ cslot'[d] = cslot'[e] => d = e
  BY <1>1, <1>2, <1>4
<1>8. ASSUME NEW s \in Slots \ ToCome
      PROVE  (\E i \in 1 .. n - 1 : freeQ'[i] = s) \/ (\E d \in Clients : cslot'[d] = s)
  <2>1. CASE \E i \in 1 .. n : freeQ[i] = s
    <3>1. PICK i \in 1 .. n : freeQ[i] = s
      BY <2>1
    <3>2. CASE i = 1
      BY <1>1, <1>2, <3>1, <3>2
    <3>3. CASE i # 1
      <4>1. i - 1 \in 1 .. n - 1 /\ freeQ'[i - 1] = s
        BY <1>2, <3>1, <3>3
      <4> QED
        BY <4>1
    <3> QED
      BY <3>2, <3>3
  <2>2. CASE \E d \in Clients : cslot[d] = s
    BY <1>1, <1>3, <2>2
  <2> QED
    BY <1>4, <2>1, <2>2
<1>9. ASSUME NEW s \in ToCome
      PROVE  (\A i \in 1 .. n - 1 : freeQ'[i] # s) /\ (\A d \in Clients : cslot'[d] # s)
  BY <1>1, <1>2, <1>4
<1>10. ToCome' = ToCome /\ rpc' = rpc
  BY DEF CAcquire, ToCome
<1> QED
  BY <1>2, <1>4, <1>5, <1>6, <1>7, <1>8, <1>9, <1>10 DEF SlotOwnership

LEMMA OwnershipPush ==
  ASSUME TInv, SlotOwnership, NEW c \in Clients, CPush(c)
  PROVE  SlotOwnership'
<1> SUFFICES ASSUME ~stale PROVE SlotOwnership'
  BY DEF CPush, SlotOwnership
<1> DEFINE n == Len(freeQ)
<1>1. /\ freeQ \in Seq(Slots) /\ cslot \in [Clients -> Slots \cup {Nil}]
      /\ cslot[c] \in Slots
      /\ freeQ' = Append(freeQ, cslot[c]) /\ cslot' = [cslot EXCEPT ![c] = Nil]
  BY DEF CPush, CGoto, TInv, TypeOK, Holding
<1>2. /\ n \in Nat /\ Len(freeQ') = n + 1 /\ freeQ'[n + 1] = cslot[c]
      /\ \A i \in 1 .. n : freeQ'[i] = freeQ[i]
      /\ \A i \in 1 .. n : freeQ[i] \in Slots
  BY <1>1, LenProperties, AppendProperties, ElementOfSeq
<1>3. Nil \notin Slots
  BY ArenaAssumption DEF Slots
<1> HIDE DEF n
<1>4. /\ \A i, j \in 1 .. n : freeQ[i] = freeQ[j] => i = j
      /\ \A d \in Clients : \A i \in 1 .. n : freeQ[i] # cslot[d]
      /\ \A d, e \in Clients : cslot[d] # Nil /\ cslot[d] = cslot[e] => d = e
      /\ \A s \in ToCome :
           (\A i \in 1 .. n : freeQ[i] # s) /\ (\A d \in Clients : cslot[d] # s)
      /\ \A s \in Slots \ ToCome :
           (\E i \in 1 .. n : freeQ[i] = s) \/ (\E d \in Clients : cslot[d] = s)
      /\ rpc # "panicked"
  BY DEF SlotOwnership, n
<1>5. \A i, j \in 1 .. n + 1 : freeQ'[i] = freeQ'[j] => i = j
  BY <1>2, <1>4
<1>6. \A d \in Clients : \A i \in 1 .. n + 1 : freeQ'[i] # cslot'[d]
  BY <1>1, <1>2, <1>3, <1>4
<1>7. \A d, e \in Clients : cslot'[d] # Nil /\ cslot'[d] = cslot'[e] => d = e
  BY <1>1, <1>4
<1>8. ASSUME NEW s \in Slots \ ToCome
      PROVE  (\E i \in 1 .. n + 1 : freeQ'[i] = s) \/ (\E d \in Clients : cslot'[d] = s)
  <2>1. CASE \E i \in 1 .. n : freeQ[i] = s
    BY <1>2, <2>1
  <2>2. CASE \E d \in Clients : cslot[d] = s
    BY <1>1, <1>2, <2>2
  <2> QED
    BY <1>4, <2>1, <2>2
<1>9. ASSUME NEW s \in ToCome
      PROVE  (\A i \in 1 .. n + 1 : freeQ'[i] # s) /\ (\A d \in Clients : cslot'[d] # s)
  <2>1. s # Nil
    BY ArenaAssumption DEF ToCome, TInv, TypeOK
  <2> QED BY <1>1, <1>2, <1>4, <2>1
<1>10. ToCome' = ToCome /\ rpc' = rpc
  BY DEF CPush, ToCome
<1> QED
  BY <1>2, <1>4, <1>5, <1>6, <1>7, <1>8, <1>9, <1>10 DEF SlotOwnership

(* A queue of distinct slots that lacks one of them has room for it: a ring  *)
(* of QCAP cells holds QCAP - 1 entries.                                     *)
LEMMA RoomForOneMore ==
  ASSUME NEW q \in Seq(Slots), \A i, j \in 1 .. Len(q) : q[i] = q[j] => i = j,
         NEW s \in Slots, \A i \in 1 .. Len(q) : q[i] # s
  PROVE  HasRoom(q)
<1>1. PICK n \in Nat : n = Len(q)
  BY LenProperties
<1>2. IsFiniteSet(Slots) /\ Cardinality(Slots) = NumSlots
  <2>1. 0 \in Int /\ NumSlots - 1 \in Int /\ ~(0 > NumSlots - 1)
    BY ArenaAssumption
  <2>2. IsFiniteSet(Slots) /\ Cardinality(Slots) = (NumSlots - 1) - 0 + 1
    BY <2>1, FS_Interval DEF Slots
  <2> QED BY <2>2, ArenaAssumption
<1>3. IsFiniteSet(Slots \ {s}) /\ Cardinality(Slots \ {s}) = NumSlots - 1
  BY <1>2, FS_RemoveElement
<1>4. q \in [1 .. n -> Slots \ {s}]
  <2>1. q \in [1 .. n -> Slots]
    BY <1>1, LenProperties
  <2> QED BY <1>1, <2>1
<1>5. q \in Injection(1 .. n, Slots \ {s})
  BY <1>1, <1>4 DEF Injection, IsInjective
<1>6. Cardinality(1 .. n) <= NumSlots - 1
  BY <1>3, <1>5, FS_Injection
<1>7. Cardinality(1 .. n) = n
  BY FS_Interval
<1> QED
  BY <1>1, <1>6, <1>7, ArenaAssumption DEF HasRoom

(* A reset that begins while no client holds a slot empties the queue, so    *)
(* every slot is to come; then it queues them in turn.                       *)
LEMMA OwnershipReset ==
  ASSUME TInv, SlotOwnership, ForceReset
  PROVE  SlotOwnership'
<1> SUFFICES ASSUME ~stale' PROVE SlotOwnership'
  BY DEF SlotOwnership
<1>0. /\ ~stale /\ cslot' = cslot /\ freeQ \in Seq(Slots) /\ rslot \in 0 .. NumSlots
      /\ cslot \in [Clients -> Slots \cup {Nil}]
      /\ NumSlots \in Nat \ {0} /\ Nil \notin Slots
  BY ArenaAssumption
  DEF ForceReset, ResetFreeQ, ResetReadyQ, ResetSlot, ResetPush, TInv, TypeOK, clientVars, Slots
<1>1. CASE ResetFreeQ
  <2>1. /\ freeQ' = <<>> /\ Len(freeQ') = 0 /\ \A c \in Clients : cslot'[c] = Nil
        /\ rpc' = "ready" /\ rslot' = 0
    BY <1>0, <1>1, EmptySeq DEF ResetFreeQ
  <2>2. ToCome' = Slots
    BY <1>0, <2>1 DEF ToCome, Slots
  <2> QED
    BY <1>0, <2>1, <2>2 DEF SlotOwnership
<1>2. CASE ResetReadyQ \/ ResetSlot
  <2>1. /\ freeQ' = freeQ /\ rslot' = rslot
        /\ rpc # "idle" /\ rpc' # "idle" /\ rpc' # "panicked"
    BY <1>2 DEF ResetReadyQ, ResetSlot, queueVars
  <2>2. ToCome' = ToCome
    BY <2>1 DEF ToCome
  <2> QED
    BY <1>0, <2>1, <2>2 DEF SlotOwnership
<1>3. CASE ResetPush
  <2> DEFINE n == Len(freeQ)
  <2>1. /\ rpc = "push" /\ rslot \in Slots /\ rslot \in ToCome
        /\ ToCome = rslot .. NumSlots - 1
    BY <1>0, <1>3 DEF ResetPush, TInv, TypeOK, Slots, ToCome
  <2>2. /\ \A i, j \in 1 .. n : freeQ[i] = freeQ[j] => i = j
        /\ \A d \in Clients : \A i \in 1 .. n : freeQ[i] # cslot[d]
        /\ \A d, e \in Clients : cslot[d] # Nil /\ cslot[d] = cslot[e] => d = e
        /\ \A s \in ToCome :
             (\A i \in 1 .. n : freeQ[i] # s) /\ (\A d \in Clients : cslot[d] # s)
        /\ \A s \in Slots \ ToCome :
             (\E i \in 1 .. n : freeQ[i] = s) \/ (\E d \in Clients : cslot[d] = s)
    BY <1>0 DEF SlotOwnership
  <2>3. HasRoom(freeQ)
    BY <1>0, <2>1, <2>2, RoomForOneMore
  <2>4. /\ freeQ' = Append(freeQ, rslot)
        /\ rpc' = IF rslot = NumSlots - 1 THEN "idle" ELSE "free"
        /\ rslot' = rslot + 1
    BY <1>3, <2>3 DEF ResetPush
  <2>5. /\ n \in Nat /\ Len(freeQ') = n + 1 /\ freeQ'[n + 1] = rslot
        /\ \A i \in 1 .. n : freeQ'[i] = freeQ[i]
    BY <1>0, <2>1, <2>4, LenProperties, AppendProperties
  <2>6. ToCome' = rslot + 1 .. NumSlots - 1
    BY <1>0, <2>1, <2>4 DEF ToCome
  <2>7. ToCome' = ToCome \ {rslot} /\ Slots \ ToCome' = (Slots \ ToCome) \cup {rslot}
    BY <1>0, <2>1, <2>6 DEF Slots
  <2> HIDE DEF n
  <2>8. \A i, j \in 1 .. n + 1 : freeQ'[i] = freeQ'[j] => i = j
    BY <2>1, <2>2, <2>5
  <2>9. \A d \in Clients : \A i \in 1 .. n + 1 : freeQ'[i] # cslot'[d]
    BY <1>0, <2>1, <2>2, <2>5
  <2>10. \A s \in ToCome' :
           (\A i \in 1 .. n + 1 : freeQ'[i] # s) /\ (\A d \in Clients : cslot'[d] # s)
    BY <1>0, <2>2, <2>5, <2>7
  <2>11. ASSUME NEW s \in Slots \ ToCome'
         PROVE  (\E i \in 1 .. n + 1 : freeQ'[i] = s) \/ (\E d \in Clients : cslot'[d] = s)
    <3>1. CASE s = rslot
      BY <2>5, <3>1
    <3>2. CASE s # rslot
      <4>1. (\E i \in 1 .. n : freeQ[i] = s) \/ (\E d \in Clients : cslot[d] = s)
        BY <2>2, <2>7, <3>2
      <4> QED BY <1>0, <2>5, <4>1
    <3> QED BY <3>1, <3>2
  <2>12. rpc' # "panicked"
    BY <2>4
  <2> QED
    BY <1>0, <2>2, <2>5, <2>8, <2>9, <2>10, <2>11, <2>12 DEF SlotOwnership
<1> QED
  BY <1>1, <1>2, <1>3 DEF ForceReset

LEMMA OwnershipInit == Init => SlotOwnership
<1> SUFFICES ASSUME Init PROVE SlotOwnership
  OBVIOUS
<1>1. /\ Len(freeQ) = NumSlots /\ \A i \in 1 .. NumSlots : freeQ[i] = i - 1
      /\ \A c \in Clients : cslot[c] = Nil
  BY AllFreeType DEF Init, AllFree
<1>2. \A s \in Slots : s + 1 \in 1 .. NumSlots /\ freeQ[s + 1] = s
  BY <1>1, ArenaAssumption DEF Slots
<1>3. \A i \in 1 .. NumSlots : freeQ[i] \in Slots
  BY <1>1, ArenaAssumption DEF Slots
<1>4. ToCome = {} /\ rpc # "panicked"
  BY DEF Init, ToCome
<1> QED
  BY <1>1, <1>2, <1>3, <1>4, ArenaAssumption DEF SlotOwnership, Slots

(* Handlers never touch the free queue or a client's slot index. *)
LEMMA HandlerFrame ==
  ASSUME NEW h \in Handlers, HStep(h) \/ HFault(h)
  PROVE  UNCHANGED <<freeQ, request, cpc, cslot, creq, answer, resetVars>>
BY DEF HStep, HFault, HPop, HClear, HBuild, HInfer, HWrite, HMark, HMetrics,
       HMarkAll, HRaise, HInterrupt, HAbandon, queueVars, slotVars, clientVars

LEMMA OwnershipStep == TInv /\ SlotOwnership /\ [Next]_vars => SlotOwnership'
<1> SUFFICES ASSUME TInv, SlotOwnership, [Next]_vars PROVE SlotOwnership'
  OBVIOUS
<1>1. ASSUME NEW c \in Clients, CCall(c) \/ CStep(c) PROVE SlotOwnership'
  <2>1. CASE CAcquire(c)
    BY <2>1, OwnershipAcquire
  <2>2. CASE CPush(c)
    BY <2>2, OwnershipPush
  <2>3. CASE ~CAcquire(c) /\ ~CPush(c)
    <3>1. UNCHANGED <<freeQ, cslot, resetVars>>
      BY <1>1, <2>3
      DEF CStep, CCall, CFill, CReady, CSubmit, CWait, CAccept, CReject, CRead, CFree,
          queueVars
    <3> QED
      BY <3>1, OwnershipFrame
  <2> QED
    BY <2>1, <2>2, <2>3
<1>2. ASSUME NEW h \in Handlers, HStep(h) \/ HFault(h) PROVE SlotOwnership'
  BY <1>2, HandlerFrame, OwnershipFrame
<1>3. CASE ForceReset
  BY <1>3, OwnershipReset
<1>4. CASE UNCHANGED vars
  BY <1>4, OwnershipFrame DEF vars, queueVars, clientVars
<1> QED
  BY <1>1, <1>2, <1>3, <1>4 DEF Next

(* A slot is free once or held by one client, and never lost, however many   *)
(* clients compete and whatever happens to the handlers.                     *)
THEOREM OwnershipCorrect == Spec => []SlotOwnership
<1>1. Init => TInv /\ SlotOwnership
  BY TInvInit, OwnershipInit
<1>2. TInv /\ SlotOwnership /\ [Next]_vars => TInv' /\ SlotOwnership'
  BY TInvStep, OwnershipStep
<1> QED
  BY <1>1, <1>2, PTL DEF Spec

--------------------------------------------------------------------------------
(* Until it is released, a client's slot carries the stamp of its request.   *)
Stamped ==
  ~stale => \A c \in Clients :
    /\ cpc[c] \in {"ready", "submit", "wait", "check", "read", "free"} =>
         request[cslot[c]] = Mine(c)
    /\ cpc[c] \notin {"rejectFree", "rejectPush", "panicked"}

LEMMA StampedStep == TInv /\ SlotOwnership /\ Stamped /\ [Next]_vars => Stamped'
<1> SUFFICES ASSUME TInv, SlotOwnership, Stamped, [Next]_vars PROVE Stamped'
  OBVIOUS
<1> USE DEF Stamped, Mine
<1>1. ASSUME NEW c \in Clients, CCall(c) \/ CStep(c) PROVE Stamped'
  <2> SUFFICES ASSUME ~stale, ~stale' PROVE Stamped'
    BY <1>1
    DEF CStep, CCall, CAcquire, CFill, CReady, CSubmit, CWait, CAccept, CReject, CRead,
        CFree, CPush
  <2> USE DEF CGoto, TInv, TypeOK, slotVars, queueVars
  <2>1. CASE CCall(c)
    BY <2>1 DEF CCall
  <2>2. CASE CAcquire(c)
    BY <2>2 DEF CAcquire
  <2>3. CASE CFill(c)
    <3>1. cslot[c] # Nil /\ cslot[c] \in Slots
      BY <2>3 DEF CFill, Holding
    <3>2. \A d \in Clients \ {c} : cslot[d] # cslot[c]
      BY <3>1 DEF SlotOwnership
    <3> QED
      BY <2>3, <3>1, <3>2 DEF CFill
  <2>4. CASE CReady(c)
    BY <2>4 DEF CReady
  <2>5. CASE CSubmit(c)
    BY <2>5 DEF CSubmit
  <2>6. CASE CWait(c)
    BY <2>6 DEF CWait
  <2>7. CASE CAccept(c)
    BY <2>7 DEF CAccept
  <2>8. CASE CReject(c)
    BY <2>8 DEF CReject
  <2>9. CASE CRead(c)
    BY <2>9 DEF CRead
  <2>10. CASE CFree(c)
    BY <2>10 DEF CFree
  <2>11. CASE CPush(c)
    BY <2>11 DEF CPush
  <2> QED
    BY <1>1, <2>1, <2>2, <2>3, <2>4, <2>5, <2>6, <2>7, <2>8, <2>9, <2>10, <2>11
    DEF CStep
<1>2. ASSUME NEW h \in Handlers, HStep(h) \/ HFault(h) PROVE Stamped'
  BY <1>2, HandlerFrame
<1>3. CASE ForceReset
  BY <1>3
  DEF ForceReset, ResetFreeQ, ResetReadyQ, ResetSlot, ResetPush, clientVars, slotVars
<1>4. CASE UNCHANGED vars
  BY <1>4 DEF vars, slotVars, clientVars
<1> QED
  BY <1>1, <1>2, <1>3, <1>4 DEF Next

(* As long as no client holds a slot when force_reset begins, infer never    *)
(* reports a mismatched response, whatever the handlers do wrong.            *)
THEOREM MismatchCorrect == Spec => []MismatchOnlyAfterReset
<1>1. Init => Stamped
  BY DEF Init, Stamped
<1>2. TInv /\ SlotOwnership /\ Stamped /\ [Next]_vars => Stamped'
  BY StampedStep
<1>3. Init => TInv /\ SlotOwnership
  BY TInvInit, OwnershipInit
<1>4. TInv /\ SlotOwnership /\ [Next]_vars => TInv' /\ SlotOwnership'
  BY TInvStep, OwnershipStep
<1>5. Stamped => MismatchOnlyAfterReset
  BY DEF Stamped, MismatchOnlyAfterReset
<1> QED
  BY <1>1, <1>2, <1>3, <1>4, <1>5, PTL DEF Spec

--------------------------------------------------------------------------------
(* The service the arena gives when nothing goes wrong but a batch.          *)

(* Failed batches are handled; every other fault breaks the service.         *)
OnlyFailedBatches == Faults \subseteq {"infer"}

Queued(s) == \E i \in 1 .. Len(readyQ) : readyQ[i] = s

Owes(h, s) ==
  \/ hpc[h] = "clear" /\ s = hslot[h]
  \/ \E i \in idx[h] .. NumViews(h) : s = views[h][i]

(* A handler's locals in the course of a round. *)
Round(h) ==
  /\ hpc[h] \notin {"stopping", "stopped"}
  /\ hpc[h] = "pop" => views[h] = <<>>
  /\ hpc[h] = "metrics" => idx[h] = NumViews(h) + 1
  /\ hpc[h] = "except" => "infer" \in Faults
  /\ \A i, j \in 1 .. NumViews(h) : views[h][i] = views[h][j] => i = j
  /\ hpc[h] = "clear" => \A i \in 1 .. NumViews(h) : views[h][i] # hslot[h]

Rounds == resets = 0 /\ ~stale /\ \A h \in Handlers : Round(h)

(* A slot is queued once or owed by one handler, *)
Exclusive ==
  /\ \A i, j \in 1 .. Len(readyQ) : readyQ[i] = readyQ[j] => i = j
  /\ \A h \in Handlers : \A s \in Slots : Owes(h, s) => ~Queued(s)
  /\ \A g, h \in Handlers : \A s \in Slots : Owes(g, s) /\ Owes(h, s) => g = h

(* and then its state is READY and its client waits; *)
Awaited ==
  \A s \in Slots : (Queued(s) \/ \E h \in Handlers : Owes(h, s)) =>
    /\ state[s] = "READY"
    /\ \E c \in Clients : cslot[c] = s /\ cpc[c] = "wait"

(* conversely a client waits on no other slot. *)
Expected ==
  \A c \in Clients :
    /\ cpc[c] = "submit" => state[cslot[c]] = "READY"
    /\ cpc[c] \in {"check", "read"} => state[cslot[c]] = "DONE"
    /\ cpc[c] = "wait" /\ state[cslot[c]] # "DONE" =>
         Queued(cslot[c]) \/ \E h \in Handlers : Owes(h, cslot[c])

(* What the slots a handler owes hold. *)
Outcome(h) ==
  \A i \in idx[h] .. NumViews(h) :
    /\ hpc[h] \in {"infer", "write", "mark"} => batch[h][i] = request[views[h][i]]
    /\ IF hpc[h] = "mark" /\ i = idx[h]
       THEN output[views[h][i]] = request[views[h][i]]
       ELSE output[views[h][i]] = Zero

Outcomes == \A h \in Handlers : Outcome(h)

Acceptable(c) == {Mine(c)} \cup (IF "infer" \in Faults THEN {Zero} ELSE {})

Answered ==
  \A c \in Clients :
    (cpc[c] = "wait" /\ state[cslot[c]] = "DONE") \/ cpc[c] \in {"check", "read"} =>
      output[cslot[c]] \in Acceptable(c)

(* The inductive invariant. *)
SInv ==
  /\ TInv /\ SlotOwnership /\ Stamped
  /\ Rounds /\ Exclusive /\ Awaited /\ Expected /\ Outcomes /\ Answered

--------------------------------------------------------------------------------
LEMMA SInvInit == Init => SInv
<1> SUFFICES ASSUME Init PROVE SInv
  OBVIOUS
<1>1. TInv /\ SlotOwnership /\ Stamped
  BY TInvInit, OwnershipInit DEF Init, Stamped
<1>2. /\ readyQ = <<>> /\ \A h \in Handlers : views[h] = <<>> /\ idx[h] = 1 /\ hpc[h] = "pop"
      /\ \A c \in Clients : cpc[c] = "idle"
      /\ Len(<<>>) = 0 /\ resets = 0 /\ ~stale
  BY DEF Init
<1>3. \A s : ~Queued(s) /\ \A h \in Handlers : ~Owes(h, s)
  BY <1>2 DEF Queued, Owes, NumViews
<1>4. Rounds /\ Exclusive /\ Awaited
  <2>1. ASSUME NEW h \in Handlers PROVE Round(h)
    BY <1>2 DEF Round, NumViews
  <2>2. Exclusive
    BY <1>2, <1>3 DEF Exclusive
  <2> QED
    BY <1>2, <1>3, <2>1, <2>2 DEF Rounds, Awaited
<1>5. Expected /\ Outcomes /\ Answered
  BY <1>2 DEF Expected, Outcomes, Outcome, Answered, NumViews
<1> QED
  BY <1>1, <1>4, <1>5 DEF SInv

(* The slots of views and readyQ are slots. *)
LEMMA ViewSlots ==
  ASSUME TypeOK, NEW h \in Handlers
  PROVE  /\ NumViews(h) \in Nat /\ idx[h] \in Nat \ {0}
         /\ \A i \in 1 .. NumViews(h) : views[h][i] \in Slots
         /\ \A s : Owes(h, s) => s \in Slots
<1>1. NumViews(h) \in Nat /\ \A i \in 1 .. NumViews(h) : views[h][i] \in Slots
  BY LenProperties, ElementOfSeq DEF TypeOK, NumViews
<1>2. idx[h] \in Nat \ {0} /\ (hpc[h] = "clear" => hslot[h] \in Slots)
  BY DEF TypeOK
<1> QED
  BY <1>1, <1>2 DEF Owes

LEMMA QueueSlots ==
  ASSUME TypeOK
  PROVE  /\ Len(readyQ) \in Nat
         /\ \A i \in 1 .. Len(readyQ) : readyQ[i] \in Slots
BY LenProperties, ElementOfSeq DEF TypeOK

(* A slot in flight is held by the one client that waits for it. *)
LEMMA InFlightClient ==
  ASSUME SInv, NEW s \in Slots, Queued(s) \/ \E h \in Handlers : Owes(h, s),
         NEW c \in Clients, cslot[c] = s
  PROVE  cpc[c] = "wait" /\ state[s] = "READY"
<1>1. PICK d \in Clients : cslot[d] = s /\ cpc[d] = "wait"
  BY DEF SInv, Awaited
<1>2. cslot[c] # Nil
  BY ArenaAssumption DEF Slots
<1> QED
  BY <1>1, <1>2 DEF SInv, Awaited, SlotOwnership, Rounds

ClientFrame == <<cpc, cslot, creq, request, resetVars>>

(* Steps of a handler after which the same slots are in flight. *)
LEMMA KeepStep ==
  ASSUME SInv, UNCHANGED ClientFrame, UNCHANGED <<readyQ, state>>,
         \A g \in Handlers : \A s \in Slots : Owes(g, s)' <=> Owes(g, s)
  PROVE  Exclusive' /\ Awaited' /\ Expected'
<1>1. \A s : Queued(s)' <=> Queued(s)
  BY DEF Queued
<1>2. \A c \in Clients : cpc[c] = "wait" => cslot[c] \in Slots
  BY DEF SInv, TInv, TypeOK, Holding, ClientLocations
<1> USE DEF SInv, ClientFrame
<1>3. Exclusive'
  BY <1>1 DEF Exclusive
<1>4. Awaited'
  BY <1>1 DEF Awaited
<1>5. Expected'
  BY <1>1, <1>2 DEF Expected
<1> QED
  BY <1>3, <1>4, <1>5

(* Steps of a handler that mark a slot. *)
LEMMA MarkStep ==
  ASSUME SInv, UNCHANGED ClientFrame, UNCHANGED readyQ,
         NEW h \in Handlers, NEW t \in Slots, Owes(h, t),
         state' = [state EXCEPT ![t] = "DONE"],
         \A g \in Handlers : \A s \in Slots : Owes(g, s)' <=> (Owes(g, s) /\ s # t)
  PROVE  Exclusive' /\ Awaited' /\ Expected'
<1>1. \A s : Queued(s)' <=> Queued(s)
  BY DEF Queued
<1>2. \A c \in Clients : cpc[c] \in Holding => cslot[c] \in Slots
  BY DEF SInv, TInv, TypeOK
<1>3. ~Queued(t)
  BY DEF SInv, Exclusive
<1>4. \A c \in Clients : cslot[c] = t => cpc[c] = "wait"
  BY InFlightClient
<1>5. state \in [Slots -> {"FREE", "READY", "DONE"}]
  BY DEF SInv, TInv, TypeOK
<1> USE DEF SInv, ClientFrame
<1>6. Exclusive'
  BY <1>1 DEF Exclusive
<1>7. Awaited'
  BY <1>1, <1>3, <1>5 DEF Awaited
<1>8. ASSUME NEW c \in Clients, cpc[c] = "submit" PROVE state'[cslot[c]] = "READY"
  BY <1>2, <1>4, <1>5, <1>8 DEF Expected, Holding, ClientLocations
<1>9. ASSUME NEW c \in Clients, cpc[c] \in {"check", "read"}
      PROVE  state'[cslot[c]] = "DONE"
  BY <1>2, <1>4, <1>5, <1>9 DEF Expected, Holding, ClientLocations
<1>10. ASSUME NEW c \in Clients, cpc[c] = "wait", state'[cslot[c]] # "DONE"
       PROVE  Queued(cslot[c])' \/ \E g \in Handlers : Owes(g, cslot[c])'
  <2>1. cslot[c] \in Slots
    BY <1>2, <1>10 DEF Holding, ClientLocations
  <2>2. cslot[c] # t /\ state[cslot[c]] # "DONE"
    BY <1>5, <1>10, <2>1
  <2> QED
    BY <1>1, <1>10, <2>1, <2>2 DEF Expected
<1>11. Expected'
  BY <1>8, <1>9, <1>10 DEF Expected
<1> QED
  BY <1>6, <1>7, <1>11

(* A pop moves the head of the ready queue into a handler's hands. *)
LEMMA TakeStep ==
  ASSUME SInv, NEW h \in Handlers, HPop(h)
  PROVE  /\ Exclusive' /\ Awaited' /\ Expected'
         /\ \A i \in 1 .. NumViews(h) : views[h][i] # hslot'[h]
<1> DEFINE t == Head(readyQ)
           n == Len(readyQ)
<1>1. /\ TypeOK /\ SomeView /\ readyQ # <<>> /\ readyQ \in Seq(Slots)
      /\ readyQ' = Tail(readyQ) /\ hpc[h] # "clear" /\ hpc' = [hpc EXCEPT ![h] = "clear"]
      /\ hslot' = [hslot EXCEPT ![h] = t] /\ hpc[h] \in {"pop", "fill"}
      /\ UNCHANGED ClientFrame /\ UNCHANGED <<views, idx, state>>
  BY DEF SInv, TInv, TypeOK, HPop, HGoto, ClientFrame, slotVars, clientVars
<1>2. /\ n \in Nat /\ n >= 1 /\ Len(readyQ') = n - 1 /\ t = readyQ[1] /\ t \in Slots
      /\ \A i \in 1 .. n - 1 : readyQ'[i] = readyQ[i + 1]
  BY <1>1, EmptySeq, LenProperties, HeadTailProperties, ElementOfSeq
<1> HIDE DEF t, n
<1>3. \A i, j \in 1 .. n : readyQ[i] = readyQ[j] => i = j
  BY DEF SInv, Exclusive, n
<1>4. \A s : Queued(s)' <=> (Queued(s) /\ s # t)
  <2> SUFFICES ASSUME NEW s PROVE Queued(s)' <=> (Queued(s) /\ s # t)
    OBVIOUS
  <2>1. Queued(s)' <=> \E i \in 1 .. n - 1 : readyQ[i + 1] = s
    BY <1>2 DEF Queued
  <2>2. Queued(s) <=> \E i \in 1 .. n : readyQ[i] = s
    BY DEF Queued, n
  <2>3. ASSUME Queued(s), s # t PROVE Queued(s)'
    <3>1. PICK i \in 1 .. n : readyQ[i] = s
      BY <2>2, <2>3
    <3>2. i - 1 \in 1 .. n - 1 /\ readyQ[(i - 1) + 1] = s
      BY <1>2, <2>3, <3>1
    <3> QED
      BY <2>1, <3>2
  <2>4. ASSUME Queued(s)' PROVE Queued(s) /\ s # t
    <3>1. PICK i \in 1 .. n - 1 : readyQ[i + 1] = s
      BY <2>1, <2>4
    <3>2. i + 1 \in 1 .. n /\ i + 1 # 1 /\ 1 \in 1 .. n
      BY <1>2
    <3> QED
      BY <1>2, <1>3, <2>2, <3>1, <3>2
  <2> QED
    BY <2>3, <2>4
<1>5. Queued(t)
  BY <1>2 DEF Queued, n
<1>6. \A g \in Handlers : \A s : Owes(g, s)' <=> (Owes(g, s) \/ (g = h /\ s = t))
  <2>1. hpc \in [Handlers -> HandlerLocations] /\ hslot \in [Handlers -> Slots \cup {Nil}]
    BY <1>1 DEF TypeOK
  <2> QED
    BY <1>1, <2>1 DEF Owes, NumViews
<1>7. \A g \in Handlers : ~Owes(g, t)
  BY <1>2, <1>5 DEF SInv, Exclusive
<1>8. \A c \in Clients : cpc[c] = "wait" => cslot[c] \in Slots
  BY <1>1 DEF TypeOK, Holding, ClientLocations
<1>9. Exclusive'
  <2>1. \A i, j \in 1 .. n - 1 : readyQ'[i] = readyQ'[j] => i = j
    BY <1>2, <1>3
  <2>2. \A g \in Handlers : \A s \in Slots : Owes(g, s)' => ~Queued(s)'
    BY <1>4, <1>6 DEF SInv, Exclusive
  <2>3. \A f, g \in Handlers : \A s \in Slots : Owes(f, s)' /\ Owes(g, s)' => f = g
    BY <1>6, <1>7 DEF SInv, Exclusive
  <2> QED
    BY <1>2, <2>1, <2>2, <2>3 DEF Exclusive
<1>10. Awaited'
  BY <1>1, <1>4, <1>5, <1>6 DEF SInv, Awaited, ClientFrame
<1>11. Expected'
  BY <1>1, <1>4, <1>6, <1>8 DEF SInv, Expected, ClientFrame
<1>12. ASSUME NEW i \in 1 .. NumViews(h) PROVE views[h][i] # t
  <2>1. idx[h] = 1
    BY <1>1 DEF SomeView
  <2> QED
    BY <1>7, <2>1 DEF Owes
<1>13. hslot'[h] = t
  BY <1>1 DEF TypeOK
<1> QED
  BY <1>9, <1>10, <1>11, <1>12, <1>13

--------------------------------------------------------------------------------
(* A step of one handler is invisible in the locals of the others. *)
LEMMA OthersLocals ==
  ASSUME TypeOK, NEW h \in Handlers, HStep(h) \/ HFault(h), NEW g \in Handlers, g # h
  PROVE  /\ hpc'[g] = hpc[g] /\ hslot'[g] = hslot[g] /\ views'[g] = views[g]
         /\ batch'[g] = batch[g] /\ idx'[g] = idx[g]
BY DEF HStep, HFault, HPop, HClear, HBuild, HInfer, HWrite, HMark, HMetrics,
       HMarkAll, HRaise, HInterrupt, HAbandon, NewRound, HGoto, TypeOK

LEMMA OthersOwe ==
  ASSUME TypeOK, NEW h \in Handlers, HStep(h) \/ HFault(h), NEW g \in Handlers, g # h
  PROVE  /\ \A s : Owes(g, s)' <=> Owes(g, s)
         /\ Round(g)' <=> Round(g)
<1>1. /\ hpc'[g] = hpc[g] /\ hslot'[g] = hslot[g] /\ views'[g] = views[g]
      /\ batch'[g] = batch[g] /\ idx'[g] = idx[g]
  BY OthersLocals
<1> QED
  BY <1>1 DEF Owes, Round, NumViews

(* A handler writes only into slots it owes, and marks what it has written,  *)
(* or zeros where batches may fail: then no answer is spoilt.                *)
LEMMA HandlerData ==
  ASSUME SInv, NEW h \in Handlers, HStep(h) \/ HFault(h), Outcome(h)',
         \A s \in Slots : output'[s] # output[s] => Owes(h, s),
         \/ state' = state
         \/ \E t \in Slots :
              /\ Owes(h, t) /\ state' = [state EXCEPT ![t] = "DONE"] /\ output' = output
              /\ output[t] = request[t] \/ ("infer" \in Faults /\ output[t] = Zero)
  PROVE  Outcomes' /\ Answered'
<1>0. TypeOK /\ UNCHANGED ClientFrame
  BY HandlerFrame DEF SInv, TInv, ClientFrame
<1>1. ASSUME NEW g \in Handlers, g # h PROVE Outcome(g)'
  <2>1. /\ hpc'[g] = hpc[g] /\ views'[g] = views[g]
        /\ batch'[g] = batch[g] /\ idx'[g] = idx[g]
    BY <1>0, <1>1, OthersLocals
  <2>2. ASSUME NEW i \in idx[g] .. NumViews(g)
        PROVE  output'[views[g][i]] = output[views[g][i]]
    <3>1. views[g][i] \in Slots /\ Owes(g, views[g][i])
      BY <1>0, ViewSlots DEF Owes
    <3>2. ~Owes(h, views[g][i])
      BY <1>1, <3>1 DEF SInv, Exclusive
    <3> QED
      BY <3>1, <3>2
  <2> QED
    BY <1>0, <2>1, <2>2 DEF SInv, Outcomes, Outcome, NumViews, ClientFrame
<1>2. Outcomes'
  BY <1>1 DEF Outcomes
<1>3. ASSUME NEW c \in Clients,
             (cpc[c] = "wait" /\ state'[cslot[c]] = "DONE") \/ cpc[c] \in {"check", "read"}
      PROVE  output'[cslot[c]] \in Acceptable(c)
  <2>1. cslot[c] \in Slots /\ request[cslot[c]] = Mine(c)
    BY ZenonT(90), <1>0, <1>3
    DEF TypeOK, Holding, ClientLocations, SInv, Stamped, Rounds
  <2>2. CASE state[cslot[c]] = "DONE"
    <3>1. ~Owes(h, cslot[c])
      BY <2>1, <2>2 DEF SInv, Awaited
    <3>2. output'[cslot[c]] = output[cslot[c]]
      BY <2>1, <3>1
    <3>3. output[cslot[c]] \in Acceptable(c)
      BY <1>3, <2>2 DEF SInv, Answered
    <3> QED
      BY <3>2, <3>3
  <2>3. CASE state[cslot[c]] # "DONE"
    <3>1. cpc[c] = "wait" /\ state'[cslot[c]] = "DONE"
      BY <1>3, <2>3 DEF SInv, Expected
    <3>2. PICK t \in Slots :
            /\ Owes(h, t) /\ state' = [state EXCEPT ![t] = "DONE"] /\ output' = output
            /\ output[t] = request[t] \/ ("infer" \in Faults /\ output[t] = Zero)
      BY <2>3, <3>1
    <3>3. cslot[c] = t
      BY <1>0, <2>1, <2>3, <3>1, <3>2 DEF TypeOK
    <3> QED
      BY <2>1, <3>2, <3>3 DEF Acceptable
  <2> QED
    BY <2>2, <2>3
<1>4. Answered'
  BY <1>0, <1>3 DEF Answered, Acceptable, Mine, ClientFrame
<1> QED
  BY <1>2, <1>4

--------------------------------------------------------------------------------
Rest == Rounds /\ Exclusive /\ Awaited /\ Expected /\ Outcomes /\ Answered

(* How a handler's step keeps the rest of the invariant, from what it does   *)
(* to its own round, to the slots in flight and to the answers.              *)
LEMMA Assemble ==
  ASSUME SInv, NEW h \in Handlers, HStep(h) \/ HFault(h), Round(h)', Outcome(h)',
         Exclusive' /\ Awaited' /\ Expected',
         \A s \in Slots : output'[s] # output[s] => Owes(h, s),
         \/ state' = state
         \/ \E t \in Slots :
              /\ Owes(h, t) /\ state' = [state EXCEPT ![t] = "DONE"] /\ output' = output
              /\ output[t] = request[t] \/ ("infer" \in Faults /\ output[t] = Zero)
  PROVE  Rest'
<1>0. TypeOK /\ UNCHANGED resetVars
  BY HandlerFrame DEF SInv, TInv
<1>1. Rounds'
  BY <1>0, OthersOwe DEF SInv, Rounds
<1>2. Outcomes' /\ Answered'
  BY HandlerData
<1> QED
  BY <1>1, <1>2 DEF Rest

LEMMA RestPop ==
  ASSUME SInv, NEW h \in Handlers, HPop(h)
  PROVE  Rest'
<1>0. TypeOK /\ SomeView /\ (HStep(h) \/ HFault(h)) /\ Round(h) /\ Outcome(h)
  BY DEF SInv, TInv, HStep, Rounds, Outcomes
<1>1. /\ hpc[h] \in {"pop", "fill"} /\ hpc'[h] = "clear" /\ views' = views
      /\ batch' = batch /\ idx' = idx /\ output' = output /\ request' = request
      /\ state' = state
  BY <1>0 DEF HPop, HGoto, TypeOK, slotVars
<1>2. Round(h)'
  BY <1>0, <1>1, TakeStep DEF Round, NumViews
<1>3. Outcome(h)'
  BY <1>0, <1>1 DEF Outcome, NumViews
<1> QED
  BY <1>0, <1>1, <1>2, <1>3, TakeStep, Assemble

LEMMA RestClear ==
  ASSUME SInv, NEW h \in Handlers, HClear(h)
  PROVE  Rest'
<1> DEFINE t == hslot[h]
           n == NumViews(h)
<1>0. TypeOK /\ SomeView /\ (HStep(h) \/ HFault(h)) /\ Round(h) /\ Outcome(h)
  BY DEF SInv, TInv, HStep, Rounds, Outcomes
<1>1. /\ hpc[h] = "clear" /\ hpc'[h] = "fill" /\ t \in Slots /\ idx[h] = 1 /\ idx' = idx
      /\ output' = [output EXCEPT ![t] = Zero] /\ views'[h] = Append(views[h], t)
      /\ UNCHANGED <<readyQ, state, request, batch>> /\ UNCHANGED ClientFrame
  BY <1>0 DEF HClear, HGoto, TypeOK, SomeView, queueVars, clientVars, ClientFrame
<1>2. /\ n \in Nat /\ NumViews(h)' = n + 1 /\ views'[h][n + 1] = t
      /\ \A i \in 1 .. n : views'[h][i] = views[h][i] /\ views[h][i] \in Slots
  BY <1>0, <1>1, AppendProperties, LenProperties, ElementOfSeq DEF TypeOK, NumViews
<1> HIDE DEF t, n
<1>3. Owes(h, t) /\ \A i \in 1 .. n : views[h][i] # t
  BY <1>0, <1>1 DEF Owes, Round, t, n
<1>4. Round(h)'
  <2>1. \A i, j \in 1 .. n : views[h][i] = views[h][j] => i = j
    BY <1>0 DEF Round, n
  <2>2. \A i, j \in 1 .. n + 1 : views'[h][i] = views'[h][j] => i = j
    BY <1>2, <1>3, <2>1
  <2> QED
    BY <1>1, <1>2, <2>2 DEF Round
<1>5. Outcome(h)'
  <2>1. \A i \in 1 .. n : output[views[h][i]] = Zero
    BY <1>0, <1>1 DEF Outcome, n
  <2>2. output \in [Slots -> Outputs]
    BY <1>0 DEF TypeOK
  <2>3. ASSUME NEW i \in 1 .. n + 1 PROVE output'[views'[h][i]] = Zero
    <3>1. CASE i = n + 1
      BY <1>1, <1>2, <2>2, <3>1
    <3>2. CASE i # n + 1
      <4>1. i \in 1 .. n
        BY <1>2, <3>2
      <4>2. views'[h][i] = views[h][i] /\ views[h][i] \in Slots
        BY <1>2, <4>1
      <4> QED
        BY <1>1, <2>1, <2>2, <4>1, <4>2
    <3> QED
      BY <3>1, <3>2
  <2> QED
    BY <1>1, <1>2, <2>3 DEF Outcome
<1>6. \A s : Owes(h, s)' <=> Owes(h, s)
  <2> SUFFICES ASSUME NEW s PROVE Owes(h, s)' <=> Owes(h, s)
    OBVIOUS
  <2>1. Owes(h, s) <=> s = t \/ \E i \in 1 .. n : s = views[h][i]
    BY <1>1 DEF Owes, t, n
  <2>2. Owes(h, s)' <=> \E i \in 1 .. n + 1 : s = views'[h][i]
    BY <1>1, <1>2 DEF Owes
  <2>3. (\E i \in 1 .. n + 1 : s = views'[h][i]) <=> s = t \/ \E i \in 1 .. n : s = views[h][i]
    BY <1>2
  <2> QED
    BY <2>1, <2>2, <2>3
<1>7. \A g \in Handlers : \A s \in Slots : Owes(g, s)' <=> Owes(g, s)
  BY <1>0, <1>6, OthersOwe
<1>8. Exclusive' /\ Awaited' /\ Expected'
  BY <1>1, <1>7, KeepStep
<1>9. \A s \in Slots : output'[s] # output[s] => Owes(h, s)
  BY <1>0, <1>1, <1>3 DEF TypeOK
<1> QED
  BY <1>0, <1>1, <1>4, <1>5, <1>8, <1>9, Assemble

(* Building the batch, and inference that succeeds. *)
LEMMA RestBuild ==
  ASSUME SInv, NEW h \in Handlers, HBuild(h) \/ HInfer(h)
  PROVE  Rest'
<1>0. TypeOK /\ SomeView /\ (HStep(h) \/ HFault(h)) /\ Round(h) /\ Outcome(h)
  BY DEF SInv, TInv, HStep, Rounds, Outcomes
<1>1. /\ hpc[h] \in {"fill", "infer"} /\ hpc'[h] \in {"infer", "write"}
      /\ UNCHANGED <<views, idx, hslot, output, request, readyQ, state>>
      /\ UNCHANGED ClientFrame
  BY <1>0 DEF HBuild, HInfer, HGoto, TypeOK, queueVars, slotVars, clientVars, ClientFrame
<1>2. \A i \in idx[h] .. NumViews(h) : batch'[h][i] = request[views[h][i]]
  <2>1. CASE HBuild(h)
    <3>1. batch'[h] = [i \in 1 .. NumViews(h) |-> request[views[h][i]]]
      BY <1>0, <2>1 DEF HBuild, TypeOK
    <3>2. idx[h] \in Nat \ {0} /\ NumViews(h) \in Nat
      BY <1>0, ViewSlots
    <3> QED
      BY <3>1, <3>2
  <2>2. CASE HInfer(h)
    BY <1>0, <2>2 DEF HInfer, HGoto, Outcome
  <2> QED
    BY <2>1, <2>2
<1>3. Round(h)'
  BY <1>0, <1>1 DEF Round, NumViews
<1>4. Outcome(h)'
  BY <1>0, <1>1, <1>2 DEF Outcome, NumViews
<1>5. \A s : Owes(h, s)' <=> Owes(h, s)
  BY <1>1 DEF Owes, NumViews
<1>6. \A g \in Handlers : \A s \in Slots : Owes(g, s)' <=> Owes(g, s)
  BY <1>0, <1>5, OthersOwe
<1>7. Exclusive' /\ Awaited' /\ Expected'
  BY <1>1, <1>6, KeepStep
<1> QED
  BY <1>0, <1>1, <1>3, <1>4, <1>7, Assemble

LEMMA RestWrite ==
  ASSUME SInv, NEW h \in Handlers, HWrite(h)
  PROVE  Rest'
<1> DEFINE k == idx[h]
           t == views[h][k]
<1>0. TypeOK /\ SomeView /\ (HStep(h) \/ HFault(h)) /\ Round(h) /\ Outcome(h)
  BY DEF SInv, TInv, HStep, Rounds, Outcomes
<1>1. /\ hpc[h] = "write" /\ hpc'[h] = "mark" /\ output' = [output EXCEPT ![t] = batch[h][k]]
      /\ UNCHANGED <<views, idx, hslot, batch, request, readyQ, state>>
      /\ UNCHANGED ClientFrame
  BY <1>0 DEF HWrite, HGoto, TypeOK, queueVars, clientVars, ClientFrame
<1>2. /\ k \in idx[h] .. NumViews(h) /\ k \in 1 .. NumViews(h) /\ NumViews(h) \in Nat
      /\ t \in Slots /\ Owes(h, t) /\ batch[h][k] = request[t]
      /\ \A i \in 1 .. NumViews(h) : views[h][i] \in Slots /\ (i # k => views[h][i] # t)
  <2>1. k \in Nat \ {0} /\ NumViews(h) \in Nat /\ k <= NumViews(h)
    BY <1>0, <1>1, ViewSlots DEF TypeOK
  <2>2. \A i \in 1 .. NumViews(h) : views[h][i] \in Slots
    BY <1>0, ViewSlots
  <2>3. k \in idx[h] .. NumViews(h) /\ k \in 1 .. NumViews(h)
    BY <2>1
  <2>4. Owes(h, t) /\ batch[h][k] = request[t]
    BY <1>0, <1>1, <2>3 DEF Owes, Outcome
  <2>5. \A i \in 1 .. NumViews(h) : i # k => views[h][i] # t
    BY <1>0, <2>3 DEF Round
  <2> QED
    BY <2>1, <2>2, <2>3, <2>4, <2>5
<1> HIDE DEF t
<1>3. Round(h)'
  BY <1>0, <1>1 DEF Round, NumViews
<1>4. Outcome(h)'
  <2>1. output \in [Slots -> Outputs]
    BY <1>0 DEF TypeOK
  <2>2. ASSUME NEW i \in idx[h] .. NumViews(h), i # k
        PROVE  output'[views[h][i]] = Zero
    <3>1. i \in 1 .. NumViews(h)
      BY <1>2, <2>2
    <3>2. output[views[h][i]] = Zero
      BY <1>0, <1>1, <2>2 DEF Outcome
    <3>3. views[h][i] \in Slots /\ views[h][i] # t
      BY <1>2, <2>2, <3>1
    <3> QED
      BY <1>1, <2>1, <3>2, <3>3
  <2>3. output'[t] = request[t]
    BY <1>1, <1>2, <2>1
  <2> QED
    BY <1>0, <1>1, <2>2, <2>3 DEF Outcome, NumViews, t
<1>5. \A s : Owes(h, s)' <=> Owes(h, s)
  BY <1>1 DEF Owes, NumViews
<1>6. \A g \in Handlers : \A s \in Slots : Owes(g, s)' <=> Owes(g, s)
  BY <1>0, <1>5, OthersOwe
<1>7. Exclusive' /\ Awaited' /\ Expected'
  BY <1>1, <1>6, KeepStep
<1>8. \A s \in Slots : output'[s] # output[s] => Owes(h, s)
  BY <1>0, <1>1, <1>2 DEF TypeOK
<1> QED
  BY <1>0, <1>1, <1>3, <1>4, <1>7, <1>8, Assemble

LEMMA RestMark ==
  ASSUME SInv, NEW h \in Handlers, HMark(h)
  PROVE  Rest'
<1> DEFINE k == idx[h]
           n == NumViews(h)
           t == views[h][k]
<1>0. TypeOK /\ SomeView /\ (HStep(h) \/ HFault(h)) /\ Round(h) /\ Outcome(h)
  BY DEF SInv, TInv, HStep, Rounds, Outcomes
<1>1. /\ hpc[h] = "mark" /\ state' = [state EXCEPT ![t] = "DONE"] /\ idx'[h] = k + 1
      /\ hpc'[h] = IF k = n THEN "metrics" ELSE "write"
      /\ UNCHANGED <<views, hslot, batch, request, output, readyQ>>
      /\ UNCHANGED ClientFrame
  BY <1>0 DEF HMark, TypeOK, queueVars, clientVars, ClientFrame
<1>2. k \in Nat \ {0} /\ n \in Nat /\ k <= n
  BY <1>0, <1>1, ViewSlots DEF TypeOK
<1> HIDE DEF k, n
<1>3. /\ t \in Slots /\ Owes(h, t) /\ output[t] = request[t]
      /\ \A i \in 1 .. n : views[h][i] = t => i = k
  <2>1. k \in k .. n /\ k \in 1 .. n
    BY <1>2
  <2>2. t \in Slots
    BY <1>0, <2>1, ViewSlots DEF n
  <2>3. Owes(h, t) /\ output[t] = request[t]
    BY <1>0, <1>1, <2>1 DEF Owes, Outcome, k, n
  <2>4. \A i \in 1 .. n : views[h][i] = t => i = k
    BY <1>0, <2>1 DEF Round, n
  <2> QED
    BY <2>2, <2>3, <2>4
<1> HIDE DEF t
<1>4. Round(h)'
  BY <1>0, <1>1, <1>2 DEF Round, NumViews, k, n
<1>5. Outcome(h)'
  <2>1. ASSUME NEW i \in k + 1 .. n
        PROVE  batch[h][i] = request[views[h][i]] /\ output[views[h][i]] = Zero
    <3>1. i \in k .. n /\ i # k
      BY <1>2
    <3> QED
      BY <1>0, <1>1, <3>1 DEF Outcome, k, n
  <2> QED
    BY <1>1, <1>2, <2>1 DEF Outcome, NumViews, n
<1>6. \A s : Owes(h, s)' <=> (Owes(h, s) /\ s # t)
  <2> SUFFICES ASSUME NEW s PROVE Owes(h, s)' <=> (Owes(h, s) /\ s # t)
    OBVIOUS
  <2>1. Owes(h, s) <=> \E i \in k .. n : s = views[h][i]
    BY <1>1 DEF Owes, k, n
  <2>2. Owes(h, s)' <=> \E i \in k + 1 .. n : s = views[h][i]
    BY <1>1 DEF Owes, NumViews, n
  <2>3. \A i \in k + 1 .. n : i \in k .. n /\ i \in 1 .. n /\ i # k
    BY <1>2
  <2>4. \A i \in k .. n : i = k \/ i \in k + 1 .. n
    BY <1>2
  <2>5. views[h][k] = t
    BY DEF t
  <2> QED
    BY <1>3, <2>1, <2>2, <2>3, <2>4, <2>5
<1>7. \A g \in Handlers : \A s \in Slots : Owes(g, s)' <=> (Owes(g, s) /\ s # t)
  <2>1. ASSUME NEW g \in Handlers, g # h PROVE ~Owes(g, t)
    BY <1>3, <2>1 DEF SInv, Exclusive
  <2> QED
    BY <1>0, <1>6, <2>1, OthersOwe
<1>8. Exclusive' /\ Awaited' /\ Expected'
  BY <1>1, <1>3, <1>7, MarkStep
<1> QED
  BY <1>0, <1>1, <1>3, <1>4, <1>5, <1>8, Assemble

(* Leaving a round in which nothing is owed any more, and raising. *)
LEMMA RestMetrics ==
  ASSUME SInv, NEW h \in Handlers, HMetrics(h)
  PROVE  Rest'
<1>0. TypeOK /\ SomeView /\ (HStep(h) \/ HFault(h)) /\ Round(h) /\ Outcome(h)
  BY DEF SInv, TInv, HStep, Rounds, Outcomes
<1>1. /\ hpc[h] = "metrics" /\ hpc'[h] = "pop" /\ views'[h] = <<>> /\ idx'[h] = 1
      /\ UNCHANGED <<state, request, output, readyQ>> /\ UNCHANGED ClientFrame
  BY <1>0 DEF HMetrics, HGoto, NewRound, TypeOK, queueVars, slotVars, clientVars, ClientFrame
<1>2. NumViews(h)' = 0
  BY <1>1, EmptySeq DEF NumViews
<1>3. NumViews(h) \in Nat /\ idx[h] = NumViews(h) + 1
  BY <1>0, <1>1, ViewSlots DEF Round
<1>4. Round(h)' /\ Outcome(h)'
  BY <1>1, <1>2 DEF Round, Outcome
<1>5. \A s : ~Owes(h, s) /\ ~Owes(h, s)'
  BY <1>1, <1>2, <1>3 DEF Owes
<1>6. \A g \in Handlers : \A s \in Slots : Owes(g, s)' <=> Owes(g, s)
  BY <1>0, <1>5, OthersOwe
<1>7. Exclusive' /\ Awaited' /\ Expected'
  BY <1>1, <1>6, KeepStep
<1> QED
  BY <1>0, <1>1, <1>4, <1>7, Assemble

LEMMA RestRaise ==
  ASSUME SInv, OnlyFailedBatches, NEW h \in Handlers, HRaise(h)
  PROVE  Rest'
<1>0. TypeOK /\ SomeView /\ (HStep(h) \/ HFault(h)) /\ Round(h) /\ Outcome(h)
  BY DEF SInv, TInv, HFault, Rounds, Outcomes
<1>1. /\ hpc[h] = "infer" /\ hpc'[h] = "except" /\ "infer" \in Faults
      /\ idx[h] = 1 /\ idx'[h] = 1
      /\ UNCHANGED <<views, hslot, batch, state, request, output, readyQ>>
      /\ UNCHANGED ClientFrame
  BY <1>0 DEF HRaise, HGoto, OnlyFailedBatches, TypeOK, SomeView,
              queueVars, slotVars, clientVars, ClientFrame
<1>2. Round(h)'
  BY <1>0, <1>1 DEF Round, NumViews
<1>3. Outcome(h)'
  BY <1>0, <1>1 DEF Outcome, NumViews
<1>4. \A s : Owes(h, s)' <=> Owes(h, s)
  BY <1>1 DEF Owes, NumViews
<1>5. \A g \in Handlers : \A s \in Slots : Owes(g, s)' <=> Owes(g, s)
  BY <1>0, <1>4, OthersOwe
<1>6. Exclusive' /\ Awaited' /\ Expected'
  BY <1>1, <1>5, KeepStep
<1> QED
  BY <1>0, <1>1, <1>2, <1>3, <1>6, Assemble

(* Marking the slots of a failed batch, which hold zeros. *)
LEMMA RestMarkAll ==
  ASSUME SInv, NEW h \in Handlers, HMarkAll(h)
  PROVE  Rest'
<1> DEFINE k == idx[h]
           n == NumViews(h)
           t == views[h][k]
<1>0. TypeOK /\ SomeView /\ (HStep(h) \/ HFault(h)) /\ Round(h) /\ Outcome(h)
  BY DEF SInv, TInv, HStep, Rounds, Outcomes
<1>1. /\ hpc[h] = "except" /\ "infer" \in Faults
      /\ state' = [state EXCEPT ![t] = "DONE"]
      /\ UNCHANGED <<hslot, request, output, readyQ>>
      /\ UNCHANGED ClientFrame
  BY <1>0 DEF HMarkAll, Round, queueVars, clientVars, ClientFrame
<1>2. k \in Nat \ {0} /\ n \in Nat /\ k <= n
  BY <1>0, <1>1, ViewSlots DEF TypeOK
<1>3. \/ k < n /\ idx'[h] = k + 1 /\ hpc' = hpc /\ views' = views /\ batch' = batch
      \/ k = n /\ hpc'[h] = "pop" /\ views'[h] = <<>> /\ idx'[h] = 1
  BY <1>0, <1>1 DEF HMarkAll, HGoto, NewRound, TypeOK
<1> HIDE DEF k, n
<1>4. /\ t \in Slots /\ Owes(h, t) /\ output[t] = Zero
      /\ \A i \in 1 .. n : views[h][i] = t => i = k
  <2>1. k \in k .. n /\ k \in 1 .. n
    BY <1>2
  <2>2. t \in Slots
    BY <1>0, <2>1, ViewSlots DEF n
  <2>3. Owes(h, t) /\ output[t] = Zero
    BY <1>0, <1>1, <2>1 DEF Owes, Outcome, k, n
  <2>4. \A i \in 1 .. n : views[h][i] = t => i = k
    BY <1>0, <2>1 DEF Round, n
  <2> QED
    BY <2>2, <2>3, <2>4
<1>5. views[h][k] = t
  OBVIOUS
<1> HIDE DEF t
<1>6. \A s : Owes(h, s) <=> \E i \in k .. n : s = views[h][i]
  BY <1>1 DEF Owes, k, n
<1>7. Round(h)' /\ Outcome(h)' /\ \A s : Owes(h, s)' <=> (Owes(h, s) /\ s # t)
  <2>1. CASE k < n /\ idx'[h] = k + 1 /\ hpc' = hpc /\ views' = views /\ batch' = batch
    <3>1. \A i \in k + 1 .. n : i \in k .. n /\ i \in 1 .. n /\ i # k
      BY <1>2
    <3>2. \A i \in k .. n : i = k \/ i \in k + 1 .. n
      BY <1>2
    <3>3. NumViews(h)' = n
      BY <2>1 DEF NumViews, n
    <3>4. Round(h)'
      BY <1>0, <1>1, <2>1, <3>3 DEF Round, n
    <3>5. Outcome(h)'
      BY <1>0, <1>1, <2>1, <3>1, <3>3 DEF Outcome, k, n
    <3>6. \A s : Owes(h, s)' <=> \E i \in k + 1 .. n : s = views[h][i]
      BY <1>1, <2>1, <3>3 DEF Owes
    <3>7. \A s : Owes(h, s)' <=> (Owes(h, s) /\ s # t)
      BY <1>4, <1>5, <1>6, <3>1, <3>2, <3>6
    <3> QED
      BY <3>4, <3>5, <3>7
  <2>2. CASE k = n /\ hpc'[h] = "pop" /\ views'[h] = <<>> /\ idx'[h] = 1
    <3>1. NumViews(h)' = 0
      BY <2>2, EmptySeq DEF NumViews
    <3>2. Round(h)' /\ Outcome(h)'
      BY <2>2, <3>1 DEF Round, Outcome
    <3>3. \A s : ~Owes(h, s)'
      BY <2>2, <3>1 DEF Owes
    <3>4. \A s : Owes(h, s) => s = t
      BY <1>2, <1>5, <1>6, <2>2
    <3> QED
      BY <3>2, <3>3, <3>4
  <2> QED
    BY <1>3, <2>1, <2>2
<1>8. \A g \in Handlers : \A s \in Slots : Owes(g, s)' <=> (Owes(g, s) /\ s # t)
  <2>1. ASSUME NEW g \in Handlers, g # h PROVE ~Owes(g, t)
    BY <1>4, <2>1 DEF SInv, Exclusive
  <2> QED
    BY <1>0, <1>7, <2>1, OthersOwe
<1>9. Exclusive' /\ Awaited' /\ Expected'
  BY <1>1, <1>4, <1>8, MarkStep
<1> QED
  BY <1>0, <1>1, <1>4, <1>7, <1>9, Assemble

--------------------------------------------------------------------------------
(* A step of one client is invisible in the locals of everybody else. *)
LEMMA OthersClients ==
  ASSUME TypeOK, NEW c \in Clients, CCall(c) \/ CStep(c)
  PROVE  /\ UNCHANGED <<handlerVars, output, resetVars>>
         /\ \A d \in Clients : d # c =>
              cpc'[d] = cpc[d] /\ cslot'[d] = cslot[d] /\ creq'[d] = creq[d]
BY DEF CStep, CCall, CAcquire, CFill, CReady, CSubmit, CWait, CAccept, CReject,
       CRead, CFree, CPush, CGoto, TypeOK, slotVars, handlerVars

LEMMA ClientHolds ==
  ASSUME TypeOK
  PROVE  \A c \in Clients : cpc[c] \in Holding => cslot[c] \in Slots /\ cslot[c] # Nil
BY ArenaAssumption DEF TypeOK, Slots

LEMMA HandlersKeep ==
  ASSUME SInv, UNCHANGED <<handlerVars, resetVars>>
  PROVE  /\ Rounds'
         /\ \A h \in Handlers : \A s : Owes(h, s)' <=> Owes(h, s)
BY DEF SInv, Rounds, Round, Owes, NumViews, handlerVars

(* Steps of a client that leave the ready queue alone and touch no slot but  *)
(* the client's own, outside wait. *)
LEMMA ClientKeep ==
  ASSUME SInv, NEW c \in Clients, CCall(c) \/ CStep(c), UNCHANGED readyQ,
         cpc[c] = "wait" => state[cslot[c]] = "DONE" /\ UNCHANGED slotVars,
         \A s \in Slots : s # cslot[c] => state'[s] = state[s] /\ request'[s] = request[s],
         cpc'[c] # "wait",
         cpc'[c] = "submit" => state'[cslot'[c]] = "READY",
         cpc'[c] \in {"check", "read"} =>
           state'[cslot'[c]] = "DONE" /\ output'[cslot'[c]] \in Acceptable(c)'
  PROVE  Rest'
<1>0. /\ TypeOK /\ UNCHANGED <<handlerVars, output, resetVars>> /\ resets = 0 /\ ~stale
      /\ \A d \in Clients : d # c =>
           cpc'[d] = cpc[d] /\ cslot'[d] = cslot[d] /\ creq'[d] = creq[d]
  BY OthersClients DEF SInv, TInv, Rounds
<1>1. /\ Rounds'
      /\ \A h \in Handlers : \A s : Owes(h, s)' <=> Owes(h, s)
      /\ \A s : Queued(s)' <=> Queued(s)
  BY <1>0, HandlersKeep DEF Queued
<1>2. ASSUME NEW s \in Slots, Queued(s) \/ \E h \in Handlers : Owes(h, s)
      PROVE  /\ state'[s] = "READY" /\ request'[s] = request[s]
             /\ \E d \in Clients : d # c /\ cslot[d] = s /\ cpc[d] = "wait"
  <2>1. PICK d \in Clients : cslot[d] = s /\ cpc[d] = "wait" /\ state[s] = "READY"
    BY <1>2 DEF SInv, Awaited
  <2>2. cslot[c] # s
    <3> SUFFICES ASSUME cslot[c] = s PROVE FALSE
      OBVIOUS
    <3>1. cpc[c] = "wait" /\ state[s] = "READY"
      BY <1>2, InFlightClient
    <3> QED
      BY <3>1
  <2> QED
    BY <2>1, <2>2
<1>3. Exclusive'
  BY <1>1 DEF SInv, Exclusive
<1>4. Awaited'
  BY <1>0, <1>1, <1>2 DEF Awaited
<1>5. ASSUME NEW d \in Clients, d # c, cpc[d] \in {"submit", "wait", "check", "read"}
      PROVE  /\ cslot[d] \in Slots /\ cpc'[d] = cpc[d] /\ cslot'[d] = cslot[d]
             /\ state'[cslot[d]] = state[cslot[d]] /\ Acceptable(d)' = Acceptable(d)
  <2>1. cslot[d] \in Slots /\ cslot[d] # Nil
    BY <1>0, <1>5, ClientHolds DEF Holding, ClientLocations
  <2>2. cslot[d] # cslot[c]
    BY <1>0, <1>5, <2>1 DEF SInv, SlotOwnership
  <2>3. Acceptable(d)' = Acceptable(d)
    BY <1>0, <1>5 DEF Acceptable, Mine
  <2> QED
    BY <1>0, <1>5, <2>1, <2>2, <2>3
<1>6. Expected'
  <2>1. ASSUME NEW d \in Clients, cpc'[d] = "submit" PROVE state'[cslot'[d]] = "READY"
    BY <1>0, <1>5, <2>1 DEF SInv, Expected
  <2>2. ASSUME NEW d \in Clients, cpc'[d] \in {"check", "read"}
        PROVE  state'[cslot'[d]] = "DONE"
    BY <1>0, <1>5, <2>2 DEF SInv, Expected
  <2>3. ASSUME NEW d \in Clients, cpc'[d] = "wait", state'[cslot'[d]] # "DONE"
        PROVE  (Queued(cslot[d]) \/ \E h \in Handlers : Owes(h, cslot[d]))'
    <3>1. cslot'[d] = cslot[d] /\ cpc[d] = "wait" /\ state[cslot[d]] # "DONE"
      BY <1>0, <1>5, <2>3
    <3>2. Queued(cslot[d]) \/ \E h \in Handlers : Owes(h, cslot[d])
      BY <3>1 DEF SInv, Expected
    <3> QED
      BY <1>0, <1>1, <3>1, <3>2
  <2> QED
    BY <2>1, <2>2, <2>3 DEF Expected
<1>7. Outcomes'
  <2>1. ASSUME NEW h \in Handlers, NEW i \in idx[h] .. NumViews(h)
        PROVE  request'[views[h][i]] = request[views[h][i]]
    <3>1. Owes(h, views[h][i]) /\ views[h][i] \in Slots
      BY <1>0, ViewSlots DEF Owes
    <3> QED
      BY <1>2, <3>1
  <2>2. ASSUME NEW h \in Handlers PROVE Outcome(h)'
    BY <1>0, <2>1 DEF SInv, Outcomes, Outcome, NumViews, handlerVars
  <2> QED
    BY <2>2 DEF Outcomes
<1>8. Answered'
  <2> SUFFICES ASSUME NEW d \in Clients,
                      (cpc'[d] = "wait" /\ state'[cslot'[d]] = "DONE") \/ cpc'[d] \in {"check", "read"}
               PROVE  output'[cslot'[d]] \in Acceptable(d)'
    BY DEF Answered
  <2>1. CASE d = c
    BY <2>1
  <2>2. CASE d # c
    BY <1>0, <1>5, <2>2 DEF SInv, Answered
  <2> QED
    BY <2>1, <2>2
<1> QED
  BY <1>1, <1>3, <1>4, <1>6, <1>7, <1>8 DEF Rest

LEMMA RestSubmit ==
  ASSUME SInv, NEW c \in Clients, CSubmit(c)
  PROVE  Rest'
<1> DEFINE t == cslot[c]
           n == Len(readyQ)
<1>0. TypeOK /\ resets = 0 /\ ~stale /\ CStep(c)
  BY DEF SInv, TInv, Rounds, CStep
<1>1. /\ cpc[c] = "submit" /\ cpc' = [cpc EXCEPT ![c] = "wait"]
      /\ readyQ' = Append(readyQ, t)
      /\ UNCHANGED <<state, request, output, cslot, creq, resetVars>>
      /\ UNCHANGED handlerVars
  BY DEF CSubmit, CGoto, slotVars
<1>2. t \in Slots /\ t # Nil
  BY <1>0, <1>1, ClientHolds DEF Holding, ClientLocations
<1>3. state[t] = "READY" /\ ~Queued(t) /\ \A h \in Handlers : ~Owes(h, t)
  BY <1>1, <1>2, InFlightClient DEF SInv, Expected
<1>4. /\ n \in Nat /\ Len(readyQ') = n + 1 /\ readyQ'[n + 1] = t
      /\ \A i \in 1 .. n : readyQ'[i] = readyQ[i]
  BY <1>0, <1>1, <1>2, LenProperties, AppendProperties DEF TypeOK
<1> HIDE DEF t, n
<1>5. \A s : Queued(s)' <=> (Queued(s) \/ s = t)
  <2> SUFFICES ASSUME NEW s PROVE Queued(s)' <=> (Queued(s) \/ s = t)
    OBVIOUS
  <2>1. Queued(s) <=> \E i \in 1 .. n : readyQ[i] = s
    BY DEF Queued, n
  <2>2. Queued(s)' <=> \E i \in 1 .. n + 1 : readyQ'[i] = s
    BY <1>4 DEF Queued
  <2>3. (\E i \in 1 .. n + 1 : readyQ'[i] = s) <=> (s = t \/ \E i \in 1 .. n : readyQ[i] = s)
    BY <1>4
  <2> QED
    BY <2>1, <2>2, <2>3
<1>6. Rounds' /\ \A h \in Handlers : \A s : Owes(h, s)' <=> Owes(h, s)
  BY <1>1, HandlersKeep
<1>7. Exclusive'
  <2>1. \A i, j \in 1 .. n : readyQ[i] = readyQ[j] => i = j
    BY DEF SInv, Exclusive, n
  <2>2. \A i \in 1 .. n : readyQ[i] # t
    BY <1>3 DEF Queued, n
  <2>3. \A i, j \in 1 .. n + 1 : readyQ'[i] = readyQ'[j] => i = j
    BY <1>4, <2>1, <2>2
  <2>4. \A h \in Handlers : \A s \in Slots : Owes(h, s)' => ~Queued(s)'
    BY <1>3, <1>5, <1>6 DEF SInv, Exclusive
  <2>5. \A g, h \in Handlers : \A s \in Slots : Owes(g, s)' /\ Owes(h, s)' => g = h
    BY <1>6 DEF SInv, Exclusive
  <2> QED
    BY <1>4, <2>3, <2>4, <2>5 DEF Exclusive
<1>8. cpc \in [Clients -> ClientLocations]
  BY <1>0 DEF TypeOK
<1>9. Awaited'
  <2> SUFFICES ASSUME NEW s \in Slots, (Queued(s) \/ \E h \in Handlers : Owes(h, s))'
               PROVE  state'[s] = "READY" /\ \E d \in Clients : cslot'[d] = s /\ cpc'[d] = "wait"
    BY DEF Awaited
  <2>1. CASE s = t
    BY <1>1, <1>3, <1>8, <2>1 DEF t
  <2>2. CASE s # t
    <3>1. Queued(s) \/ \E h \in Handlers : Owes(h, s)
      BY <1>5, <1>6, <2>2
    <3> QED
      BY <1>1, <1>8, <3>1 DEF SInv, Awaited
  <2> QED
    BY <2>1, <2>2
<1>10. Expected'
  <2>1. ASSUME NEW d \in Clients, cpc'[d] = "submit" PROVE state'[cslot'[d]] = "READY"
    BY <1>1, <1>8, <2>1 DEF SInv, Expected
  <2>2. ASSUME NEW d \in Clients, cpc'[d] \in {"check", "read"}
        PROVE  state'[cslot'[d]] = "DONE"
    BY <1>1, <1>8, <2>2 DEF SInv, Expected
  <2>3. ASSUME NEW d \in Clients, cpc'[d] = "wait", state'[cslot'[d]] # "DONE"
        PROVE  (Queued(cslot[d]) \/ \E h \in Handlers : Owes(h, cslot[d]))'
    <3>1. CASE d = c
      BY <1>1, <1>5, <3>1 DEF t
    <3>2. CASE d # c
      <4>1. Queued(cslot[d]) \/ \E h \in Handlers : Owes(h, cslot[d])
        BY <1>1, <1>8, <2>3, <3>2 DEF SInv, Expected
      <4> QED
        BY <1>1, <1>5, <1>6, <4>1
    <3> QED
      BY <3>1, <3>2
  <2> QED
    BY <2>1, <2>2, <2>3 DEF Expected
<1>11. Outcomes'
  BY <1>1 DEF SInv, Outcomes, Outcome, NumViews, handlerVars
<1>12. Answered'
  <2> SUFFICES ASSUME NEW d \in Clients,
                      (cpc'[d] = "wait" /\ state'[cslot'[d]] = "DONE") \/ cpc'[d] \in {"check", "read"}
               PROVE  output'[cslot'[d]] \in Acceptable(d)'
    BY DEF Answered
  <2>1. d # c
    BY <1>1, <1>3, <1>8 DEF t
  <2> QED
    BY <1>1, <1>8, <2>1 DEF SInv, Answered, Acceptable, Mine
<1> QED
  BY <1>6, <1>7, <1>9, <1>10, <1>11, <1>12 DEF Rest

LEMMA RestClient ==
  ASSUME SInv, NEW c \in Clients, CCall(c) \/ CStep(c)
  PROVE  Rest'
<1>0. TypeOK /\ ~stale /\ (cpc[c] \in Holding => cslot[c] \in Slots)
  BY ClientHolds DEF SInv, TInv, Rounds
<1>1. CASE CSubmit(c)
  BY <1>1, RestSubmit
<1>2. CASE CCall(c) \/ CAcquire(c) \/ CFill(c) \/ CRead(c) \/ CFree(c) \/ CPush(c)
  <2>1. /\ UNCHANGED readyQ /\ cpc[c] # "wait"
        /\ cpc'[c] \in {"acquire", "fill", "ready", "free", "push", "rejectPush", "idle", "panicked"}
        /\ \A s \in Slots : s # cslot[c] => state'[s] = state[s] /\ request'[s] = request[s]
    BY <1>0, <1>2
    DEF CCall, CAcquire, CFill, CRead, CFree, CPush, CGoto, TypeOK, queueVars, slotVars
  <2> QED
    BY <2>1, ClientKeep
<1>3. CASE CReady(c)
  <2>1. /\ UNCHANGED readyQ /\ cpc[c] = "ready" /\ cpc'[c] = "submit"
        /\ UNCHANGED <<request, cslot>> /\ cslot[c] \in Slots
        /\ state' = [state EXCEPT ![cslot[c]] = "READY"]
    BY <1>0, <1>3 DEF CReady, CGoto, TypeOK, queueVars, Holding, ClientLocations
  <2>2. \A s \in Slots : s # cslot[c] => state'[s] = state[s] /\ request'[s] = request[s]
    BY <1>0, <2>1 DEF TypeOK
  <2>3. state'[cslot'[c]] = "READY"
    BY <1>0, <2>1 DEF TypeOK
  <2> QED
    BY <2>1, <2>2, <2>3, ClientKeep
<1>4. CASE CWait(c) \/ CAccept(c)
  <2>1. /\ UNCHANGED <<readyQ, cslot, creq, output>> /\ UNCHANGED slotVars
        /\ cpc[c] \in {"wait", "check"} /\ cpc'[c] \in {"check", "read"}
        /\ cpc[c] = "wait" => state[cslot[c]] = "DONE"
    BY <1>0, <1>4 DEF CWait, CAccept, CGoto, TypeOK, queueVars, slotVars
  <2>2. state[cslot[c]] = "DONE" /\ output[cslot[c]] \in Acceptable(c)
    BY <2>1 DEF SInv, Expected, Answered
  <2>3. /\ \A s \in Slots : s # cslot[c] => state'[s] = state[s] /\ request'[s] = request[s]
        /\ state'[cslot'[c]] = "DONE" /\ output'[cslot'[c]] \in Acceptable(c)'
    BY <2>1, <2>2 DEF slotVars, Acceptable, Mine
  <2> QED
    BY <2>1, <2>3, ClientKeep
<1>5. CASE CReject(c)
  BY <1>0, <1>5 DEF CReject, CGoto, SInv, Stamped
<1> QED
  BY <1>1, <1>2, <1>3, <1>4, <1>5 DEF CStep

LEMMA RestStep ==
  ASSUME SInv, OnlyFailedBatches, [Next]_vars
  PROVE  Rest'
<1>1. ASSUME NEW c \in Clients, CCall(c) \/ CStep(c) PROVE Rest'
  BY <1>1, RestClient
<1>2. ASSUME NEW h \in Handlers, HStep(h) PROVE Rest'
  BY <1>2, RestPop, RestClear, RestBuild, RestWrite, RestMark, RestMetrics, RestMarkAll
  DEF HStep
<1>3. ASSUME NEW h \in Handlers, HFault(h) PROVE Rest'
  BY <1>3, RestRaise DEF HFault, HInterrupt, HAbandon, OnlyFailedBatches
<1>4. ~ForceReset
  BY DEF ForceReset, ResetFreeQ, ResetReadyQ, ResetSlot, ResetPush, OnlyFailedBatches,
         SInv, TInv, TypeOK, Rounds
<1>5. CASE UNCHANGED vars
  BY <1>5
  DEF vars, queueVars, slotVars, clientVars, handlerVars, SInv, Rest, Rounds, Round,
      Exclusive, Awaited, Expected, Outcomes, Outcome, Answered, Acceptable, Mine,
      Queued, Owes, NumViews
<1> QED
  BY <1>1, <1>2, <1>3, <1>4, <1>5 DEF Next

LEMMA SInvariant == OnlyFailedBatches => (Spec => []SInv)
<1> SUFFICES ASSUME OnlyFailedBatches PROVE Spec => []SInv
  OBVIOUS
<1>1. Init => SInv
  BY SInvInit
<1>2. SInv /\ [Next]_vars => SInv'
  BY TInvStep, OwnershipStep, StampedStep, RestStep DEF SInv, Rest
<1> QED
  BY <1>1, <1>2, PTL DEF Spec

(* If batches can fail but nothing else goes wrong, DONE means processed: a  *)
(* client that saw DONE reads the result of its own request, or the zeros of *)
(* the failed batch.                                                         *)
THEOREM DoneCorrect == OnlyFailedBatches => (Spec => []DoneMeansProcessed)
<1> SUFFICES ASSUME OnlyFailedBatches PROVE Spec => []DoneMeansProcessed
  OBVIOUS
<1>1. SInv => DoneMeansProcessed
  BY DEF SInv, Answered, Acceptable, DoneMeansProcessed
<1> QED
  BY <1>1, SInvariant, PTL

(* Neither queue is full when a client pushes, whatever the number of        *)
(* clients: submit_to_handler and release_slot never wait inside             *)
(* push_blocking, because QCAP exceeds the number of slots.                  *)
THEOREM PushCorrect == OnlyFailedBatches => (Spec => []PushNeverBlocks)
<1> SUFFICES ASSUME OnlyFailedBatches PROVE Spec => []PushNeverBlocks
  OBVIOUS
<1>1. SInv => PushNeverBlocks
  <2> SUFFICES ASSUME SInv, NEW c \in Clients
               PROVE  /\ cpc[c] = "submit" => HasRoom(readyQ)
                      /\ cpc[c] \in {"push", "rejectPush"} => HasRoom(freeQ)
    BY DEF PushNeverBlocks
  <2>1. readyQ \in Seq(Slots) /\ freeQ \in Seq(Slots) /\ ~stale
    BY DEF SInv, TInv, TypeOK, Rounds
  <2>2. cpc[c] \in {"submit", "push", "rejectPush"} => cslot[c] \in Slots
    BY DEF SInv, TInv, TypeOK, Holding, ClientLocations
  <2>3. CASE cpc[c] = "submit"
    <3>1. ASSUME NEW i \in 1 .. Len(readyQ) PROVE readyQ[i] # cslot[c]
      <4>1. Queued(readyQ[i]) /\ readyQ[i] \in Slots
        BY QueueSlots DEF Queued, SInv, TInv
      <4> QED BY <2>3, <4>1, InFlightClient
    <3>2. \A i, j \in 1 .. Len(readyQ) : readyQ[i] = readyQ[j] => i = j
      BY DEF SInv, Exclusive
    <3> QED BY <2>1, <2>2, <2>3, <3>1, <3>2, RoomForOneMore
  <2>4. CASE cpc[c] \in {"push", "rejectPush"}
    <3>1. /\ \A i, j \in 1 .. Len(freeQ) : freeQ[i] = freeQ[j] => i = j
          /\ \A i \in 1 .. Len(freeQ) : freeQ[i] # cslot[c]
      BY <2>1 DEF SInv, SlotOwnership
    <3>2. HasRoom(freeQ)
      BY <2>1, <2>2, <2>4, <3>1, RoomForOneMore
    <3> QED BY <2>4, <3>2
  <2> QED BY <2>3, <2>4
<1> QED
  BY <1>1, SInvariant, PTL

--------------------------------------------------------------------------------
(* The places of Arena in terms of Queued and Owes. *)
First(h) == idx[h]

LEMMA OwedShape ==
  ASSUME TypeOK, SomeView, NEW h \in Handlers, Round(h)
  PROVE  IF hpc[h] = "clear"
         THEN /\ DOMAIN Owed(h) = 1 .. NumViews(h) + 1
              /\ Owed(h)[NumViews(h) + 1] = hslot[h]
              /\ \A i \in 1 .. NumViews(h) : Owed(h)[i] = views[h][i]
         ELSE /\ DOMAIN Owed(h) = 1 .. NumViews(h) - First(h) + 1
              /\ \A i \in 1 .. NumViews(h) - First(h) + 1 : Owed(h)[i] = views[h][First(h) + i - 1]
<1>1. /\ views[h] \in Seq(Slots) /\ NumViews(h) \in Nat /\ First(h) \in Nat \ {0}
      /\ \A i \in 1 .. NumViews(h) : views[h][i] \in Slots
  BY ViewSlots DEF TypeOK, First
<1>2. CASE hpc[h] = "clear"
  <2>1. hslot[h] \in Slots
    BY <1>2 DEF TypeOK
  <2> QED
    BY <1>1, <1>2, <2>1, AppendProperties, LenProperties DEF Owed, NumViews
<1>3. CASE hpc[h] # "clear"
  <2>1. NumViews(h) \in Int /\ First(h) \in Int
    BY <1>1
  <2>2. \A i \in First(h) .. NumViews(h) : views[h][i] \in Slots
    BY <1>1
  <2>3. First(h) <= NumViews(h) + 1
    <3>1. /\ hpc[h] \in HandlerLocations
          /\ hpc[h] \in {"write", "mark", "except", "stopping"} => idx[h] <= NumViews(h)
      BY DEF TypeOK
    <3> QED
      BY <1>1, <1>3, <3>1 DEF SomeView, Round, First, HandlerLocations
  <2>4. /\ Owed(h) \in Seq(Slots)
        /\ Len(Owed(h)) = IF First(h) <= NumViews(h) THEN NumViews(h) - First(h) + 1 ELSE 0
        /\ \A i \in 1 .. NumViews(h) - First(h) + 1 : Owed(h)[i] = views[h][First(h) + i - 1]
    BY <1>3, <2>1, <2>2, SubSeqProperties DEF Owed, First
  <2>5. Len(Owed(h)) = NumViews(h) - First(h) + 1
    BY <1>1, <2>3, <2>4
  <2> QED
    BY <1>3, <2>4, <2>5, LenProperties
<1> QED
  BY <1>2, <1>3

(* A handler owes a slot at exactly one index. *)
LEMMA OwedOnce ==
  ASSUME TypeOK, SomeView, NEW h \in Handlers, Round(h)
  PROVE  /\ \A s : Owes(h, s) <=> \E i \in DOMAIN Owed(h) : Owed(h)[i] = s
         /\ \A i, j \in DOMAIN Owed(h) : Owed(h)[i] = Owed(h)[j] => i = j
<1> DEFINE n == NumViews(h)
           k == First(h)
<1>1. n \in Nat /\ k \in Nat \ {0}
  BY ViewSlots DEF First
<1>2. \A i, j \in 1 .. n : views[h][i] = views[h][j] => i = j
  BY DEF Round
<1>3. CASE hpc[h] = "clear"
  <2>1. /\ DOMAIN Owed(h) = 1 .. n + 1 /\ Owed(h)[n + 1] = hslot[h]
        /\ \A i \in 1 .. n : Owed(h)[i] = views[h][i]
    BY <1>3, OwedShape
  <2>2. k = 1 /\ \A i \in 1 .. n : views[h][i] # hslot[h]
    BY <1>3 DEF SomeView, Round, First
  <2>3. \A s : Owes(h, s) <=> s = hslot[h] \/ \E i \in 1 .. n : s = views[h][i]
    BY <1>3, <2>2 DEF Owes, First
  <2> HIDE DEF n, k
  <2>4. n + 1 \in 1 .. n + 1 /\ \A i \in 1 .. n + 1 : i = n + 1 \/ i \in 1 .. n
    BY <1>1
  <2>5. \A i \in 1 .. n : i \in 1 .. n + 1
    BY <1>1
  <2>6. \A s : Owes(h, s) <=> \E i \in DOMAIN Owed(h) : Owed(h)[i] = s
    BY <2>1, <2>3, <2>4, <2>5
  <2> QED
    BY <1>2, <2>1, <2>2, <2>4, <2>6
<1>4. CASE hpc[h] # "clear"
  <2>1. /\ DOMAIN Owed(h) = 1 .. n - k + 1
        /\ \A i \in 1 .. n - k + 1 : Owed(h)[i] = views[h][k + i - 1]
    BY <1>4, OwedShape
  <2>2. \A s : Owes(h, s) <=> \E i \in k .. n : s = views[h][i]
    BY <1>4 DEF Owes, First
  <2> HIDE DEF n, k
  <2>3. \A i \in 1 .. n - k + 1 : k + i - 1 \in k .. n /\ k + i - 1 \in 1 .. n
    BY <1>1
  <2>4. \A j \in k .. n : j - k + 1 \in 1 .. n - k + 1 /\ k + (j - k + 1) - 1 = j
    BY <1>1
  <2>5. \A s : Owes(h, s) <=> \E i \in DOMAIN Owed(h) : Owed(h)[i] = s
    <3>1. ASSUME NEW j \in k .. n PROVE \E i \in DOMAIN Owed(h) : Owed(h)[i] = views[h][j]
      BY <2>1, <2>4
    <3>2. ASSUME NEW i \in DOMAIN Owed(h) PROVE \E j \in k .. n : Owed(h)[i] = views[h][j]
      BY <2>1, <2>3
    <3> QED
      BY <2>2, <3>1, <3>2
  <2>6. ASSUME NEW i \in DOMAIN Owed(h), NEW j \in DOMAIN Owed(h), Owed(h)[i] = Owed(h)[j]
        PROVE  i = j
    <3>1. k + i - 1 = k + j - 1
      BY <1>2, <2>1, <2>3, <2>6
    <3> QED
      BY <1>1, <2>1, <2>6, <3>1
  <2> QED
    BY <2>5, <2>6
<1> QED
  BY <1>3, <1>4

LEMMA PlaceOf ==
  ASSUME SInv
  PROVE  /\ \A s : (Queued(s) \/ \E h \in Handlers : Owes(h, s)) <=> \E pl \in Places : SlotAt(pl) = s
         /\ \A p, q \in Places : SlotAt(p) = SlotAt(q) => p = q
<1>1. /\ TypeOK /\ SomeView /\ \A h \in Handlers : Round(h)
      /\ DOMAIN readyQ = 1 .. Len(readyQ) /\ "queue" \notin Handlers
  BY LenProperties, ArenaAssumption DEF SInv, TInv, Rounds, TypeOK
<1>2. \A pl \in Places :
        \/ \E i \in DOMAIN readyQ : pl = <<"queue", i>>
        \/ \E h \in Handlers : \E i \in DOMAIN Owed(h) : pl = <<h, i>>
  BY DEF Places
<1>3. \A i \in DOMAIN readyQ : <<"queue", i>> \in Places /\ SlotAt(<<"queue", i>>) = readyQ[i]
  BY DEF Places, SlotAt
<1>4. \A h \in Handlers : \A i \in DOMAIN Owed(h) :
        <<h, i>> \in Places /\ SlotAt(<<h, i>>) = Owed(h)[i]
  BY <1>1 DEF Places, SlotAt
<1>5. \A s : Queued(s) <=> \E i \in DOMAIN readyQ : readyQ[i] = s
  BY <1>1 DEF Queued
<1>6. \A h \in Handlers : \A s : Owes(h, s) <=> \E i \in DOMAIN Owed(h) : Owed(h)[i] = s
  BY <1>1, OwedOnce
<1>7. ASSUME NEW s
      PROVE  (Queued(s) \/ \E h \in Handlers : Owes(h, s)) <=> \E pl \in Places : SlotAt(pl) = s
  <2>1. ASSUME NEW pl \in Places, SlotAt(pl) = s
        PROVE  Queued(s) \/ \E h \in Handlers : Owes(h, s)
    <3>1. CASE \E i \in DOMAIN readyQ : pl = <<"queue", i>>
      BY <1>3, <1>5, <2>1, <3>1
    <3>2. CASE \E h \in Handlers : \E i \in DOMAIN Owed(h) : pl = <<h, i>>
      BY <1>4, <1>6, <2>1, <3>2
    <3> QED
      BY <1>2, <2>1, <3>1, <3>2
  <2>2. ASSUME Queued(s) PROVE \E pl \in Places : SlotAt(pl) = s
    BY <1>3, <1>5, <2>2
  <2>3. ASSUME NEW h \in Handlers, Owes(h, s) PROVE \E pl \in Places : SlotAt(pl) = s
    BY ZenonT(60), <1>4, <1>6, <2>3
  <2> QED
    BY <2>1, <2>2, <2>3
<1>8. ASSUME NEW p \in Places, NEW q \in Places, SlotAt(p) = SlotAt(q) PROVE p = q
  <2>1. CASE \E i, j \in DOMAIN readyQ : p = <<"queue", i>> /\ q = <<"queue", j>>
    BY <1>1, <1>3, <1>8, <2>1 DEF SInv, Exclusive
  <2>2. ASSUME NEW h \in Handlers, NEW i \in DOMAIN Owed(h), NEW j \in DOMAIN readyQ
        PROVE  SlotAt(<<h, i>>) # SlotAt(<<"queue", j>>)
    <3>1. Owes(h, Owed(h)[i]) /\ Queued(readyQ[j])
      BY <1>5, <1>6
    <3>2. Owed(h)[i] \in Slots
      BY <1>1, <3>1, ViewSlots
    <3> QED
      BY <1>3, <1>4, <3>1, <3>2 DEF SInv, Exclusive
  <2>3. ASSUME NEW g \in Handlers, NEW i \in DOMAIN Owed(g), p = <<g, i>>,
               NEW h \in Handlers, NEW j \in DOMAIN Owed(h), q = <<h, j>>
        PROVE  p = q
    <3>1. Owed(g)[i] = Owed(h)[j] /\ Owes(g, Owed(g)[i]) /\ Owes(h, Owed(h)[j])
      BY <1>4, <1>6, <1>8, <2>3
    <3>2. Owed(g)[i] \in Slots
      BY <1>1, <3>1, ViewSlots
    <3>3. g = h
      BY <3>1, <3>2 DEF SInv, Exclusive
    <3> QED
      BY <1>1, <2>3, <3>1, <3>3, OwedOnce
  <2> QED
    BY <1>2, <1>8, <2>1, <2>2, <2>3
<1> QED
  BY <1>7, <1>8

(* However many clients and handlers, a request is in one place at a time,   *)
(* and what a handler pops is always READY and awaited.                      *)
THEOREM InFlightCorrect == OnlyFailedBatches => (Spec => []InFlightOnce)
<1> SUFFICES ASSUME OnlyFailedBatches PROVE Spec => []InFlightOnce
  OBVIOUS
<1>1. SInv => InFlightOnce
  <2> SUFFICES ASSUME SInv PROVE InFlightOnce
    OBVIOUS
  <2>1. ASSUME NEW pl \in Places
        PROVE  /\ state[SlotAt(pl)] = "READY"
               /\ \E c \in Clients : cslot[c] = SlotAt(pl) /\ cpc[c] = "wait"
    <3>1. Queued(SlotAt(pl)) \/ \E h \in Handlers : Owes(h, SlotAt(pl))
      BY <2>1, PlaceOf
    <3>2. SlotAt(pl) \in Slots
      <4>1. TypeOK
        BY DEF SInv, TInv
      <4> QED
        BY <3>1, <4>1, ViewSlots, QueueSlots DEF Queued
    <3> QED
      BY <3>1, <3>2 DEF SInv, Awaited
  <2> QED
    BY <2>1, PlaceOf DEF InFlightOnce
<1> QED
  BY <1>1, SInvariant, PTL

(* No slot is left un-marked: a client waits only on a slot that is queued or *)
(* in the hands of a handler that has still to mark it.                      *)
THEOREM UnmarkedCorrect == OnlyFailedBatches => (Spec => []NoSlotLeftUnmarked)
<1> SUFFICES ASSUME OnlyFailedBatches PROVE Spec => []NoSlotLeftUnmarked
  OBVIOUS
<1>1. SInv => NoSlotLeftUnmarked
  <2> SUFFICES ASSUME SInv, NEW c \in Clients, cpc[c] = "wait", state[cslot[c]] # "DONE"
               PROVE  \E p \in Places :
                        SlotAt(p) = cslot[c] /\ (p[1] # "queue" => hpc[p[1]] # "stopped")
    BY DEF NoSlotLeftUnmarked
  <2>1. PICK p \in Places : SlotAt(p) = cslot[c]
    BY PlaceOf DEF SInv, Expected
  <2>2. p[1] = "queue" \/ p[1] \in Handlers
    BY DEF Places
  <2>3. \A h \in Handlers : hpc[h] # "stopped"
    BY DEF SInv, Rounds, Round
  <2> QED
    BY <2>1, <2>2, <2>3
<1> QED
  BY <1>1, SInvariant, PTL

--------------------------------------------------------------------------------
(* Whatever goes wrong: where the slot of a waiting client is.               *)
InHand(s) == Queued(s) \/ \E h \in Handlers : Owes(h, s)

(* A round whose slots are all marked leaves none behind when it ends.       *)
AllMarked == \A h \in Handlers : hpc[h] = "metrics" => idx[h] = NumViews(h) + 1

InHandInv ==
  /\ AllMarked
  /\ ~stale => \A c \in Clients :
       cpc[c] = "wait" /\ state[cslot[c]] # "DONE" => InHand(cslot[c])

LEMMA AllMarkedStep ==
  ASSUME TInv, AllMarked, NEW h \in Handlers, HStep(h) \/ HFault(h)
  PROVE  AllMarked'
<1>0. TypeOK
  BY DEF TInv
<1>1. \A g \in Handlers : g # h =>
        hpc'[g] = hpc[g] /\ idx'[g] = idx[g] /\ NumViews(g)' = NumViews(g)
  BY <1>0, OthersLocals DEF NumViews
<1>2. hpc'[h] = "metrics" => HMark(h) /\ idx[h] = NumViews(h)
  BY <1>0
  DEF HStep, HFault, HPop, HClear, HBuild, HInfer, HWrite, HMark, HMetrics,
      HMarkAll, HRaise, HInterrupt, HAbandon, HGoto, TypeOK
<1>3. hpc'[h] = "metrics" => idx'[h] = NumViews(h)' + 1
  BY <1>0, <1>2 DEF HMark, TypeOK, NumViews
<1> QED
  BY <1>1, <1>3 DEF AllMarked

(* A handler's step keeps a slot in hand or marks it. *)
LEMMA HandlerKeepsInHand ==
  ASSUME TInv, AllMarked, NEW h \in Handlers, HStep(h) \/ HFault(h), NEW s \in Slots
  PROVE  /\ InHand(s) => InHand(s)' \/ state'[s] = "DONE"
         /\ state[s] = "DONE" => state'[s] = "DONE"
<1>0. TypeOK /\ SomeView
  BY DEF TInv
<1>1. \A g \in Handlers : g # h => (Owes(g, s)' <=> Owes(g, s))
  BY <1>0, OthersOwe
<1>2. /\ readyQ \in Seq(Slots) /\ views[h] \in Seq(Slots)
      /\ NumViews(h) \in Nat /\ idx[h] \in Nat \ {0}
      /\ \A i \in 1 .. NumViews(h) : views[h][i] \in Slots
  BY <1>0, ViewSlots DEF TypeOK
<1>3. SUFFICES /\ state[s] = "DONE" => state'[s] = "DONE"
               /\ Queued(s) => Queued(s)' \/ Owes(h, s)'
               /\ Owes(h, s) => Owes(h, s)' \/ state'[s] = "DONE"
  BY <1>1 DEF InHand
<1>4. CASE HPop(h)
  <2>1. /\ readyQ # <<>> /\ readyQ' = Tail(readyQ) /\ hslot'[h] = Head(readyQ)
        /\ hpc[h] \in {"pop", "fill"} /\ hpc'[h] = "clear" /\ UNCHANGED <<state, views, idx>>
    BY <1>0, <1>4 DEF HPop, HGoto, TypeOK, slotVars
  <2>2. /\ Len(readyQ) \in Nat /\ Len(readyQ') = Len(readyQ) - 1 /\ Head(readyQ) = readyQ[1]
        /\ \A i \in 1 .. Len(readyQ) - 1 : readyQ'[i] = readyQ[i + 1]
    BY <1>2, <2>1, EmptySeq, LenProperties, HeadTailProperties
  <2>3. Queued(s) => Queued(s)' \/ s = readyQ[1]
    <3>1. ASSUME NEW i \in 1 .. Len(readyQ), readyQ[i] = s, i # 1 PROVE Queued(s)'
      <4>1. i - 1 \in 1 .. Len(readyQ') /\ readyQ'[i - 1] = s
        BY <2>2, <3>1
      <4> QED BY <4>1 DEF Queued
    <3> QED BY <3>1 DEF Queued
  <2> QED
    BY <2>1, <2>2, <2>3 DEF Owes, NumViews
<1>5. CASE HClear(h)
  <2>1. /\ hpc[h] = "clear" /\ hpc'[h] = "fill" /\ hslot[h] \in Slots /\ idx[h] = 1
        /\ views'[h] = Append(views[h], hslot[h]) /\ UNCHANGED <<readyQ, state, idx>>
    BY <1>0, <1>5 DEF HClear, HGoto, TypeOK, SomeView, queueVars
  <2>2. /\ NumViews(h)' = NumViews(h) + 1 /\ views'[h][NumViews(h) + 1] = hslot[h]
        /\ \A i \in 1 .. NumViews(h) : views'[h][i] = views[h][i]
    BY <1>2, <2>1, AppendProperties, LenProperties DEF NumViews
  <2>3. Owes(h, s) => Owes(h, s)'
    <3>1. CASE s = hslot[h]
      <4>1. NumViews(h) + 1 \in idx'[h] .. NumViews(h)'
        BY <1>2, <2>1, <2>2
      <4> QED BY <2>2, <3>1, <4>1 DEF Owes
    <3>2. ASSUME NEW i \in idx[h] .. NumViews(h), s = views[h][i] PROVE Owes(h, s)'
      <4>1. i \in 1 .. NumViews(h)
        BY <1>2, <2>1, <3>2
      <4>2. views'[h][i] = s
        BY <2>2, <3>2, <4>1
      <4>3. i \in idx'[h] .. NumViews(h)'
        BY <1>2, <2>1, <2>2, <4>1
      <4> QED BY <4>2, <4>3 DEF Owes
    <3> QED BY <3>1, <3>2 DEF Owes
  <2> QED
    BY <2>1, <2>3 DEF Queued
<1>6. CASE HBuild(h) \/ HInfer(h) \/ HWrite(h) \/ HAbandon(h)
  <2>1. hpc[h] # "clear" /\ UNCHANGED <<readyQ, state, views, idx>>
    BY <1>6 DEF HBuild, HInfer, HWrite, HAbandon, HGoto, queueVars, slotVars
  <2> QED
    BY <2>1 DEF Owes, Queued, NumViews
<1>7. CASE HRaise(h) \/ HInterrupt(h)
  <2>1. /\ hpc[h] # "clear" /\ UNCHANGED <<readyQ, state, views>> /\ idx'[h] = 1
    BY <1>0, <1>7 DEF HRaise, HInterrupt, HGoto, queueVars, slotVars, TypeOK
  <2>2. \A i \in idx[h] .. NumViews(h) : i \in idx'[h] .. NumViews(h)'
    BY <1>2, <2>1 DEF NumViews
  <2> QED
    BY <2>1, <2>2 DEF Owes, Queued
<1>8. CASE HMetrics(h)
  <2>1. /\ hpc[h] = "metrics" /\ UNCHANGED <<readyQ, state>>
        /\ idx[h] = NumViews(h) + 1
    BY <1>8 DEF HMetrics, HGoto, queueVars, slotVars, AllMarked
  <2>2. ~Owes(h, s)
    BY <1>2, <2>1 DEF Owes
  <2> QED
    BY <2>1, <2>2 DEF Queued
<1>9. CASE HMark(h) \/ HMarkAll(h)
  <2>1. /\ hpc[h] \in {"mark", "except", "stopping"} /\ UNCHANGED readyQ
        /\ state' = [state EXCEPT ![views[h][idx[h]]] = "DONE"]
        /\ \/ idx'[h] = idx[h] + 1 /\ UNCHANGED views
           \/ idx[h] = NumViews(h)
    BY <1>0, <1>9 DEF HMark, HMarkAll, TypeOK, queueVars
  <2>2. state \in [Slots -> {"FREE", "READY", "DONE"}]
    BY <1>0 DEF TypeOK
  <2>3. state[s] = "DONE" => state'[s] = "DONE"
    BY <2>1, <2>2
  <2>4. ASSUME NEW i \in idx[h] .. NumViews(h), s = views[h][i]
        PROVE  Owes(h, s)' \/ state'[s] = "DONE"
    <3>1. CASE i = idx[h]
      BY <2>1, <2>2, <2>4, <3>1
    <3>2. CASE i # idx[h]
      <4>1. idx'[h] = idx[h] + 1 /\ UNCHANGED views
        BY <1>2, <2>1, <2>4, <3>2
      <4>2. i \in idx'[h] .. NumViews(h)' /\ s = views'[h][i]
        BY <1>2, <2>4, <3>2, <4>1 DEF NumViews
      <4> QED BY <4>2 DEF Owes
    <3> QED BY <3>1, <3>2
  <2> QED
    BY <2>1, <2>3, <2>4 DEF Owes, Queued
<1> QED
  BY <1>4, <1>5, <1>6, <1>7, <1>8, <1>9 DEF HStep, HFault

(* A client's step on its own slot, which nobody else holds, leaves the slots *)
(* other clients wait on alone; submit puts its own into the queue.          *)
LEMMA InHandClient ==
  ASSUME TInv, SlotOwnership, InHandInv, NEW c \in Clients, CCall(c) \/ CStep(c)
  PROVE  InHandInv'
<1>0. /\ TypeOK /\ UNCHANGED <<handlerVars, output, resetVars>>
      /\ \A d \in Clients : d # c =>
           cpc'[d] = cpc[d] /\ cslot'[d] = cslot[d] /\ creq'[d] = creq[d]
  BY OthersClients DEF TInv
<1>1. AllMarked'
  BY <1>0 DEF InHandInv, AllMarked, NumViews, handlerVars
<1>2. \A s : (\E h \in Handlers : Owes(h, s)) => (\E h \in Handlers : Owes(h, s)')
  BY <1>0 DEF Owes, NumViews, handlerVars
<1>3. \A s : Queued(s) => Queued(s)'
  <2>1. CASE CSubmit(c)
    <3>1. /\ readyQ \in Seq(Slots) /\ cslot[c] \in Slots
          /\ readyQ' = Append(readyQ, cslot[c])
      BY <1>0, <2>1 DEF CSubmit, CGoto, TypeOK, Holding, ClientLocations
    <3>2. /\ Len(readyQ) \in Nat /\ Len(readyQ') = Len(readyQ) + 1
          /\ \A i \in 1 .. Len(readyQ) : readyQ'[i] = readyQ[i]
      BY <3>1, AppendProperties, LenProperties
    <3>3. \A i \in 1 .. Len(readyQ) : i \in 1 .. Len(readyQ')
      BY <3>2
    <3> QED BY <3>2, <3>3 DEF Queued
  <2>2. CASE ~CSubmit(c)
    <3>1. readyQ' = readyQ
      BY <2>2
      DEF CStep, CCall, CAcquire, CFill, CReady, CWait, CAccept, CReject, CRead, CFree, CPush,
          queueVars
    <3> QED BY <3>1 DEF Queued
  <2> QED BY <2>1, <2>2
<1>4. SUFFICES ASSUME ~stale, NEW d \in Clients, cpc'[d] = "wait", state'[cslot'[d]] # "DONE"
               PROVE  InHand(cslot[d])'
  <2>1. stale' = stale
    BY <1>0
  <2> QED BY <1>1, <2>1 DEF InHandInv
<1>5. CASE d = c
  <2>1. cpc'[c] = "wait" => CSubmit(c)
    BY <1>0
    DEF CStep, CCall, CAcquire, CFill, CReady, CSubmit, CWait, CAccept, CReject, CRead, CFree,
        CPush, CGoto, TypeOK
  <2>2. /\ readyQ \in Seq(Slots) /\ cslot[c] \in Slots /\ cslot' = cslot
        /\ readyQ' = Append(readyQ, cslot[c])
    <3>1. CSubmit(c)
      BY <1>4, <1>5, <2>1
    <3> QED BY <1>0, <3>1 DEF CSubmit, CGoto, TypeOK, Holding, ClientLocations, slotVars
  <2>3. /\ Len(readyQ) \in Nat /\ Len(readyQ') = Len(readyQ) + 1
        /\ readyQ'[Len(readyQ) + 1] = cslot[c]
    BY <2>2, AppendProperties, LenProperties
  <2>4. Len(readyQ) + 1 \in 1 .. Len(readyQ')
    BY <2>3
  <2>5. Queued(cslot[d])'
    BY <1>5, <2>2, <2>3, <2>4 DEF Queued
  <2> QED BY <2>5 DEF InHand
<1>6. CASE d # c
  <2>1. cpc[d] = "wait" /\ cslot'[d] = cslot[d] /\ cslot[d] \in Slots /\ cslot[d] # Nil
    BY <1>0, <1>4, <1>6, ClientHolds DEF Holding, ClientLocations
  <2>2. cslot[d] # cslot[c]
    BY <1>4, <1>6, <2>1 DEF SlotOwnership
  <2>3. \A s \in Slots : s # cslot[c] => state'[s] = state[s]
    BY <1>0
    DEF CStep, CCall, CAcquire, CFill, CReady, CSubmit, CWait, CAccept, CReject, CRead, CFree,
        CPush, TypeOK, slotVars
  <2>4. InHand(cslot[d])
    BY <1>4, <2>1, <2>2, <2>3 DEF InHandInv
  <2>5. Queued(cslot[d])' \/ \E h \in Handlers : Owes(h, cslot[d])'
    <3>1. Queued(cslot[d]) => Queued(cslot[d])'
      BY <1>3, <2>1 DEF Queued
    <3>2. (\E h \in Handlers : Owes(h, cslot[d])) => (\E h \in Handlers : Owes(h, cslot[d])')
      BY <1>2, <2>1 DEF Owes
    <3> QED BY <2>4, <3>1, <3>2 DEF InHand
  <2> QED
    BY <2>5 DEF InHand
<1> QED
  BY <1>5, <1>6

(* A reset takes nothing from a client: while it empties the queues none     *)
(* holds a slot, and the slots it frees later are not held.                  *)
LEMMA InHandReset ==
  ASSUME TInv, SlotOwnership, InHandInv, ForceReset
  PROVE  InHandInv'
<1>0. TypeOK /\ UNCHANGED <<clientVars, handlerVars>> /\ (~stale' => ~stale)
  BY DEF ForceReset, ResetFreeQ, ResetReadyQ, ResetSlot, ResetPush, TInv, TypeOK
<1>1. AllMarked'
  BY <1>0 DEF InHandInv, AllMarked, NumViews, handlerVars
<1>2. SUFFICES ASSUME ~stale', NEW d \in Clients, cpc[d] = "wait", state'[cslot[d]] # "DONE"
               PROVE  InHand(cslot[d])'
  BY <1>0, <1>1 DEF InHandInv, clientVars
<1>3. cslot[d] \in Slots /\ cslot[d] # Nil
  BY <1>0, <1>2, ClientHolds DEF Holding, ClientLocations
<1>4. cslot[d] \notin ToCome
  BY <1>0, <1>2 DEF SlotOwnership
<1>5. ~ResetFreeQ
  BY <1>2, <1>3 DEF ResetFreeQ
<1>6. ~ResetReadyQ
  <2>1. rpc = "ready" => ToCome = Slots
    BY <1>0 DEF TypeOK, ToCome, Slots
  <2> QED BY <1>3, <1>4, <2>1 DEF ResetReadyQ
<1>7. rpc = "free" => rslot # cslot[d]
  <2>1. rpc = "free" => rslot \in ToCome
    BY <1>0, ArenaAssumption DEF TypeOK, ToCome
  <2> QED BY <1>4, <2>1
<1>8. readyQ' = readyQ /\ state'[cslot[d]] = state[cslot[d]]
  BY <1>0, <1>3, <1>5, <1>6, <1>7
  DEF ForceReset, ResetSlot, ResetPush, queueVars, slotVars, TypeOK
<1>9. InHand(cslot[d])
  BY <1>0, <1>2, <1>8 DEF InHandInv
<1>10. cslot' = cslot /\ UNCHANGED <<readyQ, hpc, hslot, views, idx>>
  BY <1>0, <1>8 DEF clientVars, handlerVars
<1> QED
  BY <1>9, <1>10 DEF InHand, Queued, Owes, NumViews

LEMMA InHandStep ==
  ASSUME TInv, SlotOwnership, InHandInv, [Next]_vars
  PROVE  InHandInv'
<1>1. ASSUME NEW c \in Clients, CCall(c) \/ CStep(c) PROVE InHandInv'
  BY <1>1, InHandClient
<1>2. ASSUME NEW h \in Handlers, HStep(h) \/ HFault(h) PROVE InHandInv'
  <2>1. UNCHANGED <<freeQ, request, cpc, cslot, creq, answer, resetVars>>
    BY <1>2, HandlerFrame
  <2>2. AllMarked'
    BY <1>2, AllMarkedStep DEF InHandInv
  <2>3. ASSUME ~stale, NEW d \in Clients, cpc[d] = "wait", state'[cslot[d]] # "DONE"
        PROVE  InHand(cslot[d])'
    <3>1. cslot[d] \in Slots
      BY <2>3, ClientHolds DEF TInv, Holding, ClientLocations
    <3>2. /\ InHand(cslot[d]) => InHand(cslot[d])' \/ state'[cslot[d]] = "DONE"
          /\ state[cslot[d]] = "DONE" => state'[cslot[d]] = "DONE"
      <4>1. \A s \in Slots : /\ InHand(s) => InHand(s)' \/ state'[s] = "DONE"
                             /\ state[s] = "DONE" => state'[s] = "DONE"
        BY <1>2, HandlerKeepsInHand DEF InHandInv
      <4>2. cslot'[d] = cslot[d]
        BY <2>1
      <4> QED BY <2>1, <3>1, <4>1
    <3>3. InHand(cslot[d])
      BY <2>3, <3>2 DEF InHandInv
    <3> QED BY <2>3, <3>2, <3>3
  <2> QED
    BY <2>1, <2>2, <2>3 DEF InHandInv
<1>3. CASE ForceReset
  BY <1>3, InHandReset
<1>4. CASE UNCHANGED vars
  BY <1>4
  DEF vars, queueVars, slotVars, clientVars, handlerVars, InHandInv, AllMarked, InHand, Queued,
      Owes, NumViews
<1> QED
  BY <1>1, <1>2, <1>3, <1>4 DEF Next

(* A slot in hand is in one of Arena's places, whatever state the handler's  *)
(* locals are in.                                                            *)
LEMMA InHandPlace ==
  ASSUME TInv, NEW s \in Slots, InHand(s)
  PROVE  \E p \in Places : SlotAt(p) = s
<1>0. TypeOK /\ SomeView /\ "queue" \notin Handlers
  BY ArenaAssumption DEF TInv
<1>1. CASE Queued(s)
  <2>1. PICK i \in 1 .. Len(readyQ) : readyQ[i] = s
    BY <1>1 DEF Queued
  <2>2. i \in DOMAIN readyQ
    BY <1>0, <2>1, LenProperties DEF TypeOK
  <2>3. <<"queue", i>> \in Places /\ SlotAt(<<"queue", i>>) = s
    BY <2>1, <2>2 DEF Places, SlotAt
  <2> QED BY <2>3
<1>2. CASE \E h \in Handlers : Owes(h, s)
  <2>1. PICK h \in Handlers : Owes(h, s)
    BY <1>2
  <2>2. /\ views[h] \in Seq(Slots) /\ NumViews(h) \in Nat /\ idx[h] \in Nat \ {0}
        /\ \A i \in 1 .. NumViews(h) : views[h][i] \in Slots
        /\ hpc[h] = "clear" => hslot[h] \in Slots
    BY <1>0, ViewSlots DEF TypeOK
  <2>3. \E i \in DOMAIN Owed(h) : Owed(h)[i] = s
    <3>1. CASE hpc[h] = "clear"
      <4>1. /\ DOMAIN Owed(h) = 1 .. NumViews(h) + 1
            /\ Owed(h)[NumViews(h) + 1] = hslot[h]
            /\ \A i \in 1 .. NumViews(h) : Owed(h)[i] = views[h][i]
        BY <2>2, <3>1, AppendProperties, LenProperties DEF Owed, NumViews
      <4>2. CASE s = hslot[h]
        BY <2>2, <4>1, <4>2
      <4>3. ASSUME NEW i \in idx[h] .. NumViews(h), s = views[h][i]
            PROVE  \E j \in DOMAIN Owed(h) : Owed(h)[j] = s
        <5>1. i \in 1 .. NumViews(h) /\ i \in 1 .. NumViews(h) + 1
          BY <2>2
        <5> QED BY <4>1, <4>3, <5>1
      <4> QED BY <2>1, <4>2, <4>3 DEF Owes
    <3>2. CASE hpc[h] # "clear"
      <4>1. PICK i \in idx[h] .. NumViews(h) : s = views[h][i]
        BY <2>1, <3>2 DEF Owes
      <4>2. /\ idx[h] \in Int /\ NumViews(h) \in Int /\ idx[h] <= NumViews(h)
            /\ \A j \in idx[h] .. NumViews(h) : views[h][j] \in Slots
        BY <2>2, <4>1
      <4>3. /\ Owed(h) \in Seq(Slots) /\ Len(Owed(h)) = NumViews(h) - idx[h] + 1
            /\ \A j \in 1 .. NumViews(h) - idx[h] + 1 : Owed(h)[j] = views[h][idx[h] + j - 1]
        BY <3>2, <4>2, SubSeqProperties DEF Owed
      <4>4. /\ i - idx[h] + 1 \in 1 .. NumViews(h) - idx[h] + 1
            /\ idx[h] + (i - idx[h] + 1) - 1 = i
        BY <2>2, <4>1
      <4>5. DOMAIN Owed(h) = 1 .. NumViews(h) - idx[h] + 1
        BY <4>3, LenProperties
      <4> QED BY <4>1, <4>3, <4>4, <4>5
    <3> QED BY <3>1, <3>2
  <2>4. PICK i \in DOMAIN Owed(h) : Owed(h)[i] = s
    BY <2>3
  <2>5. <<h, i>> \in Places /\ SlotAt(<<h, i>>) = s
    BY <1>0, <2>4 DEF Places, SlotAt
  <2> QED BY <2>5
<1> QED
  BY <1>1, <1>2 DEF InHand

(* Under every set of faults, whatever handlers raise, mark twice or are      *)
(* interrupted in: a client hangs only on a slot of a batch that a handler    *)
(* was interrupted with, resets under a client excepted.                     *)
THEOREM HangCorrect == Spec => []HangsOnlyIfAbandoned
<1>1. Init => TInv /\ SlotOwnership /\ InHandInv
  <2>1. Init => InHandInv
    BY DEF Init, InHandInv, AllMarked
  <2> QED BY <2>1, TInvInit, OwnershipInit
<1>2. TInv /\ SlotOwnership /\ InHandInv /\ [Next]_vars => TInv' /\ SlotOwnership' /\ InHandInv'
  BY TInvStep, OwnershipStep, InHandStep
<1>3. TInv /\ InHandInv => HangsOnlyIfAbandoned
  <2> SUFFICES ASSUME TInv, InHandInv, ~stale, NEW c \in Clients, cpc[c] = "wait",
                      state[cslot[c]] # "DONE"
               PROVE  \E p \in Places : SlotAt(p) = cslot[c]
    BY DEF HangsOnlyIfAbandoned
  <2>1. cslot[c] \in Slots
    BY ClientHolds DEF TInv, Holding, ClientLocations
  <2>2. InHand(cslot[c])
    BY DEF InHandInv
  <2> QED BY <2>1, <2>2, InHandPlace
<1> QED
  BY <1>1, <1>2, <1>3, PTL DEF Spec

--------------------------------------------------------------------------------
AskedId(c) == IF cpc[c] \in {"acquire", "fill"} THEN NextId(creq[c]) ELSE creq[c]
askedMap == [c \in Clients |-> AskedId(c)]
waitingMap == [c \in Clients |-> Waiting(c)]

(* Outside Ask and Respond nothing of the mapped state changes. *)
LEMMA MapFrame ==
  ASSUME UNCHANGED <<askedMap, waitingMap, answer>>
  PROVE  UNCHANGED Service!vars
BY DEF Service!vars, askedMap, waitingMap, AskedId

LEMMA ServiceStep ==
  ASSUME SInv, [Next]_vars
  PROVE  [Service!Next]_(Service!vars)
<1>0. /\ cpc \in [Clients -> ClientLocations] /\ creq \in [Clients -> ReqIds]
      /\ cslot \in [Clients -> Slots \cup {Nil}] /\ answer \in [Clients -> Outputs]
  BY DEF SInv, TInv, TypeOK
<1>1. ASSUME NEW c \in Clients, CCall(c) PROVE Service!Ask(c)
  <2>1. cpc[c] = "idle" /\ cpc' = [cpc EXCEPT ![c] = "acquire"] /\ UNCHANGED <<creq, answer>>
    BY <1>1 DEF CCall, CGoto
  <2>2. ~Waiting(c) /\ waitingMap' = [waitingMap EXCEPT ![c] = TRUE]
    BY <1>0, <2>1 DEF Waiting, waitingMap
  <2>3. askedMap' = [askedMap EXCEPT ![c] = NextId(@)]
    BY <1>0, <2>1 DEF askedMap, AskedId
  <2> QED
    BY <2>1, <2>2, <2>3 DEF Service!Ask, waitingMap, askedMap, AskedId, NextId
<1>2. ASSUME NEW c \in Clients, CRead(c) PROVE Service!Respond(c)
  <2>1. /\ cpc[c] = "read" /\ cpc' = [cpc EXCEPT ![c] = "free"] /\ UNCHANGED creq
        /\ answer' = [answer EXCEPT ![c] = output[cslot[c]]]
    BY <1>2 DEF CRead, CGoto
  <2>2. Waiting(c) /\ waitingMap' = [waitingMap EXCEPT ![c] = FALSE]
    BY <1>0, <2>1 DEF Waiting, waitingMap
  <2>3. askedMap' = askedMap
    BY <1>0, <2>1 DEF askedMap, AskedId
  <2>4. output[cslot[c]] \in Acceptable(c)
    BY <2>1 DEF SInv, Answered
  <2>5. Acceptable(c) = Service!Acceptable(c)
    BY <2>1 DEF Acceptable, Mine, Service!Acceptable
  <2> QED
    BY <2>1, <2>2, <2>3, <2>4, <2>5 DEF Service!Respond, waitingMap, askedMap, AskedId
<1>3. ASSUME NEW c \in Clients, CStep(c), ~CRead(c) PROVE UNCHANGED Service!vars
  <2>1. answer' = answer
    BY <1>3
    DEF CStep, CAcquire, CFill, CReady, CSubmit, CWait, CAccept, CReject, CFree, CPush
  <2>2. ~CReject(c)
    BY DEF CReject, CGoto, SInv, Stamped, Rounds
  <2>3. ASSUME NEW d \in Clients PROVE AskedId(d)' = AskedId(d) /\ Waiting(d)' = Waiting(d)
    BY <1>0, <1>3, <2>2
    DEF CStep, CAcquire, CFill, CReady, CSubmit, CWait, CAccept, CFree, CPush, CGoto,
        AskedId, Waiting
  <2> QED
    BY <2>1, <2>3, MapFrame DEF askedMap, waitingMap
<1>4. ASSUME NEW h \in Handlers, HStep(h) \/ HFault(h) PROVE UNCHANGED Service!vars
  <2>1. UNCHANGED <<cpc, creq, answer>>
    BY <1>4, HandlerFrame
  <2> QED
    BY <2>1, MapFrame DEF askedMap, waitingMap, AskedId, Waiting
<1>5. CASE ForceReset \/ UNCHANGED vars
  <2>1. UNCHANGED <<cpc, creq, answer>>
    BY <1>5
    DEF ForceReset, ResetFreeQ, ResetReadyQ, ResetSlot, ResetPush, vars, clientVars
  <2> QED
    BY <2>1, MapFrame DEF askedMap, waitingMap, AskedId, Waiting
<1> QED
  BY <1>1, <1>2, <1>3, <1>4, <1>5 DEF Next, Service!Next

LEMMA ServiceInit == Init => Service!Init
<1> SUFFICES ASSUME Init PROVE Service!Init
  OBVIOUS
<1> QED
  BY DEF Init, Service!Init, Waiting

(* Arena implements the inference service for any number of clients,         *)
(* handlers and slots, if no fault but a failed batch occurs: each infer     *)
(* returns once, with the result of its own request or a failed batch's zeros. *)
THEOREM ServiceCorrect == OnlyFailedBatches => (Spec => ImplementsService)
<1> SUFFICES ASSUME OnlyFailedBatches PROVE Spec => ImplementsService
  OBVIOUS
<1>1. Init => Service!Init
  BY ServiceInit
<1>2. SInv /\ [Next]_vars => [Service!Next]_(Service!vars)
  BY ServiceStep
<1> QED
  BY <1>1, <1>2, SInvariant, PTL DEF Spec, ImplementsService, Service!Spec
================================================================================
