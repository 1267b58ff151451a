--------------------------------- MODULE Arena ---------------------------------
(***************************************************************************)
(* The shared-memory inference service: search threads (clients) and       *)
(* Python inference handlers exchange fixed slots through a free queue and *)
(* one shared ready queue.                                                 *)
(*                                                                         *)
(*   client    TilersIpcClient::infer       mcts-tilers/src/client.rs      *)
(*   arena     Arena, slot state words      mcts-core/src/ipc_core.rs      *)
(*   views     PyArena, PySlotView          mcts-tilers/src/py_ipc.rs      *)
(*   handler   do_work, build_board_batch   mcts_tilers/handler.py         *)
(*                                                                         *)
(* The queues are the FIFOs RingQueue is shown to implement.  A request    *)
(* stands for what the client writes into the slot (b, owner_id, req_id,   *)
(* observations); an output is the request it was computed from, or Zero.  *)
(* A client or handler that dies takes no further step.                    *)
(***************************************************************************)
EXTENDS Naturals, Sequences

CONSTANTS
  Clients,    \* search threads, each with a TilersIpcClient of its own
  Handlers,   \* handler processes
  NumSlots,   \* Arena.num_slots
  QCAP,       \* ring cells: a queue holds at most QCAP - 1 slots
  MaxBatch,   \* MAX_SLOTS_PER_BATCH
  MaxReq,     \* bound: request ids (u64 in the code) are used modulo MaxReq
  MaxResets,  \* bound: how often force_reset is called
  Faults,     \* what may go wrong, a subset of FaultKinds
  LiveClients, \* the clients that never die
  Nil

(* "infer"     build_board_batch or agent.infer raises                      *)
(* "writeback" write_priors_values raises (shape check)                     *)
(* "metrics"   the metrics line cannot be written                           *)
(* "interrupt" KeyboardInterrupt is raised in do_work                       *)
(* "reset"     force_reset is called on an arena in use                     *)
FaultKinds == {"infer", "writeback", "metrics", "interrupt", "reset"}

ASSUME ArenaAssumption ==
  /\ NumSlots \in Nat \ {0}
  /\ QCAP \in Nat /\ NumSlots < QCAP
  /\ MaxBatch \in Nat \ {0}
  /\ MaxReq \in Nat \ {0}
  /\ MaxResets \in Nat
  /\ Faults \subseteq FaultKinds
  /\ LiveClients \subseteq Clients
  /\ Nil \notin 0 .. NumSlots - 1
  /\ "queue" \notin Handlers

Slots == 0 .. NumSlots - 1
ReqIds == 0 .. MaxReq - 1
NextId(n) == (n + 1) % MaxReq
Requests == [owner : Clients, req : ReqIds]
Zero == [owner |-> Nil, req |-> 0]
Outputs == Requests \cup {Zero}

VARIABLES
  freeQ,    \* ArenaHeader.free_q
  readyQ,   \* ArenaHeader.ready_q
  state,    \* each slot's state word
  request,  \* each slot's request fields and inputs
  output,   \* each slot's priors and values
  cpc,      \* where each client is inside infer
  cslot,    \* its slot_idx
  creq,     \* its latest req_id
  answer,   \* what its latest infer read
  hpc,      \* where each handler is inside do_work
  hslot,    \* a slot popped and not yet in slot_views
  views,    \* slot_views
  batch,    \* the copied inputs the model runs on
  idx,      \* index of the slot being written back or marked
  resets,   \* calls of force_reset so far
  rpc,      \* where the one in progress is
  rslot,    \* its loop index
  stale     \* history: some client held a slot when one began

slotVars == <<state, request, output>>
queueVars == <<freeQ, readyQ>>
clientVars == <<cpc, cslot, creq, answer>>
handlerVars == <<hpc, hslot, views, batch, idx>>
resetVars == <<resets, rpc, rslot, stale>>
vars == <<queueVars, slotVars, clientVars, handlerVars, resetVars>>

(* create_or_open on a fresh file: every slot FREE and queued in order.     *)
AllFree == [i \in 1 .. NumSlots |-> i - 1]

Init ==
  /\ freeQ = AllFree
  /\ readyQ = <<>>
  /\ state = [s \in Slots |-> "FREE"]
  /\ request = [s \in Slots |-> Zero]
  /\ output = [s \in Slots |-> Zero]
  /\ cpc = [c \in Clients |-> "idle"]
  /\ cslot = [c \in Clients |-> Nil]
  /\ creq = [c \in Clients |-> MaxReq - 1]
  /\ answer = [c \in Clients |-> Zero]
  /\ hpc = [h \in Handlers |-> "pop"]
  /\ hslot = [h \in Handlers |-> Nil]
  /\ views = [h \in Handlers |-> <<>>]
  /\ batch = [h \in Handlers |-> <<>>]
  /\ idx = [h \in Handlers |-> 1]
  /\ resets = 0 /\ rpc = "idle" /\ rslot = 0 /\ stale = FALSE

(* A slip: the ring is taken for full one cell early. *)
MutHasRoom(q) == Len(q) + 1 < QCAP - 1

(* try_push: next = head means full. *)
HasRoom(q) == Len(q) < QCAP - 1

--------------------------------------------------------------------------------
(* The client: TilersIpcClient::infer. *)

CGoto(c, from, to) == cpc[c] = from /\ cpc' = [cpc EXCEPT ![c] = to]
Mine(c) == [owner |-> c, req |-> creq[c]]

(* A search calls infer with 1 to MAX_BATCH observations. *)
CCall(c) ==
  /\ CGoto(c, "idle", "acquire")
  /\ UNCHANGED <<queueVars, slotVars, cslot, creq, answer, handlerVars, resetVars>>

(* A slip: the head index is not stored, the slot stays queued. *)
MutCAcquire(c) ==
  /\ CGoto(c, "acquire", "fill")
  /\ freeQ # <<>>
  /\ cslot' = [cslot EXCEPT ![c] = Head(freeQ)]
  /\ UNCHANGED <<queueVars, slotVars, creq, answer, handlerVars, resetVars>>

(* acquire_slot: free_q.pop_blocking. *)
CAcquire(c) ==
  /\ CGoto(c, "acquire", "fill")
  /\ freeQ # <<>>
  /\ cslot' = [cslot EXCEPT ![c] = Head(freeQ)]
  /\ freeQ' = Tail(freeQ)
  /\ UNCHANGED <<readyQ, slotVars, creq, answer, handlerVars, resetVars>>

(* A slip: the slot is stamped with the id of the previous request. *)
MutCFill(c) ==
  /\ CGoto(c, "fill", "ready")
  /\ creq' = [creq EXCEPT ![c] = NextId(@)]
  /\ request' = [request EXCEPT ![cslot[c]] = Mine(c)]
  /\ UNCHANGED <<queueVars, state, output, cslot, answer, handlerVars, resetVars>>

(* next_req_id.fetch_add, then the request fields and pack_observations,     *)
(* whose only error, a batch out of range, infer has excluded.               *)
CFill(c) ==
  /\ CGoto(c, "fill", "ready")
  /\ creq' = [creq EXCEPT ![c] = NextId(@)]
  /\ request' = [request EXCEPT ![cslot[c]] = [owner |-> c, req |-> NextId(creq[c])]]
  /\ UNCHANGED <<queueVars, state, output, cslot, answer, handlerVars, resetVars>>

CReady(c) ==
  /\ CGoto(c, "ready", "submit")
  /\ state' = [state EXCEPT ![cslot[c]] = "READY"]
  /\ UNCHANGED <<queueVars, request, output, cslot, creq, answer, handlerVars, resetVars>>

(* submit_to_handler: ready_q.push_blocking. *)
CSubmit(c) ==
  /\ CGoto(c, "submit", "wait")
  /\ HasRoom(readyQ)
  /\ readyQ' = Append(readyQ, cslot[c])
  /\ UNCHANGED <<freeQ, slotVars, cslot, creq, answer, handlerVars, resetVars>>

(* wait_done: spin until the state word reads DONE. *)
CWait(c) ==
  /\ CGoto(c, "wait", "check")
  /\ state[cslot[c]] = "DONE"
  /\ UNCHANGED <<queueVars, slotVars, cslot, creq, answer, handlerVars, resetVars>>

(* The owner_id / req_id comparison: read on, or release and return Err.    *)
CAccept(c) ==
  /\ CGoto(c, "check", "read")
  /\ request[cslot[c]] = Mine(c)
  /\ UNCHANGED <<queueVars, slotVars, cslot, creq, answer, handlerVars, resetVars>>

CReject(c) ==
  /\ CGoto(c, "check", "rejectFree")
  /\ request[cslot[c]] # Mine(c)
  /\ UNCHANGED <<queueVars, slotVars, cslot, creq, answer, handlerVars, resetVars>>

CRead(c) ==
  /\ CGoto(c, "read", "free")
  /\ answer' = [answer EXCEPT ![c] = output[cslot[c]]]
  /\ UNCHANGED <<queueVars, slotVars, cslot, creq, handlerVars, resetVars>>

(* release_slot: the state word first, then free_q.push_blocking.  After a   *)
(* mismatch blocking_infer's expect panics and the thread is gone.           *)
CFree(c) ==
  /\ \/ CGoto(c, "free", "push")
     \/ CGoto(c, "rejectFree", "rejectPush")
  /\ state' = [state EXCEPT ![cslot[c]] = "FREE"]
  /\ UNCHANGED <<queueVars, request, output, cslot, creq, answer, handlerVars, resetVars>>

CPush(c) ==
  /\ \/ CGoto(c, "push", "idle")
     \/ CGoto(c, "rejectPush", "panicked")
  /\ HasRoom(freeQ)
  /\ freeQ' = Append(freeQ, cslot[c])
  /\ cslot' = [cslot EXCEPT ![c] = Nil]
  /\ UNCHANGED <<readyQ, slotVars, creq, answer, handlerVars, resetVars>>

CStep(c) ==
  \/ CAcquire(c) \/ CFill(c) \/ CReady(c) \/ CSubmit(c) \/ CWait(c)
  \/ CAccept(c) \/ CReject(c) \/ CRead(c) \/ CFree(c) \/ CPush(c)

--------------------------------------------------------------------------------
(* The handler: do_work. *)

HGoto(h, from, to) == hpc[h] = from /\ hpc' = [hpc EXCEPT ![h] = to]
NumViews(h) == Len(views[h])

(* A slip: the ready queue is peeked, not popped. *)
MutHPop(h) ==
  /\ \/ HGoto(h, "pop", "clear")
     \/ HGoto(h, "fill", "clear") /\ NumViews(h) < MaxBatch
  /\ readyQ # <<>>
  /\ hslot' = [hslot EXCEPT ![h] = Head(readyQ)]
  /\ UNCHANGED <<queueVars, slotVars, clientVars, views, batch, idx, resetVars>>

(* pop_ready_view, blocking, for the first slot of a batch; and              *)
(* try_pop_ready_view for the next ones while the batch has room.            *)
HPop(h) ==
  /\ \/ HGoto(h, "pop", "clear")
     \/ HGoto(h, "fill", "clear") /\ NumViews(h) < MaxBatch
  /\ readyQ # <<>>
  /\ hslot' = [hslot EXCEPT ![h] = Head(readyQ)]
  /\ readyQ' = Tail(readyQ)
  /\ UNCHANGED <<freeQ, slotVars, clientVars, views, batch, idx, resetVars>>

(* A slip: clear_outputs is left at its default, FALSE. *)
MutHClear(h) ==
  /\ HGoto(h, "clear", "fill")
  /\ views' = [views EXCEPT ![h] = Append(@, hslot[h])]
  /\ hslot' = [hslot EXCEPT ![h] = Nil]
  /\ UNCHANGED <<queueVars, slotVars, clientVars, batch, idx, resetVars>>

(* clear_outputs = True, then slot_views.append. *)
HClear(h) ==
  /\ HGoto(h, "clear", "fill")
  /\ output' = [output EXCEPT ![hslot[h]] = Zero]
  /\ views' = [views EXCEPT ![h] = Append(@, hslot[h])]
  /\ hslot' = [hslot EXCEPT ![h] = Nil]
  /\ UNCHANGED <<queueVars, state, request, clientVars, batch, idx, resetVars>>

(* The batch is full or BATCH_TIMEOUT has passed: build_board_batch copies    *)
(* the inputs.  Its branch for b <= 0 is dead: infer refuses an empty batch.  *)
HBuild(h) ==
  /\ HGoto(h, "fill", "infer")
  /\ batch' = [batch EXCEPT ![h] = [i \in 1 .. NumViews(h) |-> request[views[h][i]]]]
  /\ UNCHANGED <<queueVars, slotVars, clientVars, hslot, views, idx, resetVars>>

HInfer(h) ==
  /\ HGoto(h, "infer", "write")
  /\ UNCHANGED <<queueVars, slotVars, clientVars, hslot, views, batch, idx, resetVars>>

(* A slip: the row offset is not advanced, every slot gets the first rows. *)
MutHWrite(h) ==
  /\ HGoto(h, "write", "mark")
  /\ output' = [output EXCEPT ![views[h][idx[h]]] = batch[h][1]]
  /\ UNCHANGED <<queueVars, state, request, clientVars, hslot, views, batch, idx, resetVars>>

(* write_priors_values: the rows of the batch that belong to this slot. *)
HWrite(h) ==
  /\ HGoto(h, "write", "mark")
  /\ output' = [output EXCEPT ![views[h][idx[h]]] = batch[h][idx[h]]]
  /\ UNCHANGED <<queueVars, state, request, clientVars, hslot, views, batch, idx, resetVars>>

(* A slip: the write-back loop ends one slot early. *)
MutHMark(h) ==
  /\ hpc[h] = "mark"
  /\ state' = [state EXCEPT ![views[h][idx[h]]] = "DONE"]
  /\ idx' = [idx EXCEPT ![h] = @ + 1]
  /\ hpc' = [hpc EXCEPT ![h] = IF idx[h] + 1 >= NumViews(h) THEN "metrics" ELSE "write"]
  /\ UNCHANGED <<queueVars, request, output, clientVars, hslot, views, batch, resetVars>>

HMark(h) ==
  /\ hpc[h] = "mark"
  /\ state' = [state EXCEPT ![views[h][idx[h]]] = "DONE"]
  /\ idx' = [idx EXCEPT ![h] = @ + 1]
  /\ hpc' = [hpc EXCEPT ![h] = IF idx[h] = NumViews(h) THEN "metrics" ELSE "write"]
  /\ UNCHANGED <<queueVars, request, output, clientVars, hslot, views, batch, resetVars>>

(* Back to the top of the loop: the batch's locals are rebound. *)
NewRound(h) ==
  /\ views' = [views EXCEPT ![h] = <<>>]
  /\ batch' = [batch EXCEPT ![h] = <<>>]
  /\ idx' = [idx EXCEPT ![h] = 1]

HMetrics(h) ==
  /\ HGoto(h, "metrics", "pop")
  /\ NewRound(h)
  /\ UNCHANGED <<queueVars, slotVars, clientVars, hslot, resetVars>>

(* A slip: the loop goes on without marking the batch. *)
MutHRaise(h) ==
  /\ \/ "infer" \in Faults /\ HGoto(h, "infer", "pop")
     \/ "writeback" \in Faults /\ HGoto(h, "write", "pop")
     \/ "metrics" \in Faults /\ HGoto(h, "metrics", "pop")
  /\ NewRound(h)
  /\ UNCHANGED <<queueVars, slotVars, clientVars, hslot, resetVars>>

(* An exception inside the try block: every slot of slot_views is marked,    *)
(* those already marked included, and the loop goes on.                      *)
HRaise(h) ==
  /\ \/ "infer" \in Faults /\ HGoto(h, "infer", "except")
     \/ "writeback" \in Faults /\ HGoto(h, "write", "except")
     \/ "metrics" \in Faults /\ HGoto(h, "metrics", "except")
  /\ idx' = [idx EXCEPT ![h] = 1]
  /\ UNCHANGED <<queueVars, slotVars, clientVars, hslot, views, batch, resetVars>>

(* KeyboardInterrupt inside the try block: the same marking, then break.     *)
HInterrupt(h) ==
  /\ "interrupt" \in Faults
  /\ hpc[h] \in {"infer", "write", "mark", "metrics"}
  /\ hpc' = [hpc EXCEPT ![h] = "stopping"]
  /\ idx' = [idx EXCEPT ![h] = 1]
  /\ UNCHANGED <<queueVars, slotVars, clientVars, hslot, views, batch, resetVars>>

HMarkAll(h) ==
  /\ hpc[h] \in {"except", "stopping"}
  /\ state' = [state EXCEPT ![views[h][idx[h]]] = "DONE"]
  /\ \/ /\ idx[h] < NumViews(h)
        /\ idx' = [idx EXCEPT ![h] = @ + 1]
        /\ UNCHANGED <<hpc, views, batch>>
     \/ /\ idx[h] = NumViews(h)
        /\ HGoto(h, "except", "pop") \/ HGoto(h, "stopping", "stopped")
        /\ NewRound(h)
  /\ UNCHANGED <<queueVars, request, output, clientVars, hslot, resetVars>>

(* KeyboardInterrupt where no handler marks slots: right after the first pop *)
(* (caught, break), in the fill loop (not caught), or in a marking loop.     *)
(* What slot_views still holds from idx on stays without a mark.             *)
HAbandon(h) ==
  /\ "interrupt" \in Faults
  /\ hpc[h] \in {"fill", "except", "stopping"}
  /\ hpc' = [hpc EXCEPT ![h] = "stopped"]
  /\ batch' = [batch EXCEPT ![h] = <<>>]
  /\ UNCHANGED <<queueVars, slotVars, clientVars, hslot, views, idx, resetVars>>

HStep(h) ==
  \/ HPop(h) \/ HClear(h) \/ HBuild(h) \/ HInfer(h) \/ HWrite(h) \/ HMark(h)
  \/ HMetrics(h) \/ HMarkAll(h)

HFault(h) == HRaise(h) \/ HInterrupt(h) \/ HAbandon(h)

(***************************************************************************)
(* Arena::force_reset, exposed to Python as PyArena.force_reset: both      *)
(* queues start afresh, then the slots are freed and queued one by one,    *)
(* while clients and handlers go on.  One call runs at a time, and no      *)
(* queue operation is under way when the queues' lock words are cleared.   *)
(***************************************************************************)
ResetFreeQ ==
  /\ "reset" \in Faults /\ resets < MaxResets
  /\ rpc = "idle" /\ rpc' = "ready"
  /\ freeQ' = <<>>
  /\ resets' = resets + 1 /\ rslot' = 0
  /\ stale' = (stale \/ \E c \in Clients : cslot[c] # Nil)
  /\ UNCHANGED <<readyQ, slotVars, clientVars, handlerVars>>

ResetReadyQ ==
  /\ rpc = "ready" /\ rpc' = "free"
  /\ readyQ' = <<>>
  /\ UNCHANGED <<freeQ, slotVars, clientVars, handlerVars, resets, rslot, stale>>

ResetSlot ==
  /\ rpc = "free" /\ rpc' = "push"
  /\ state' = [state EXCEPT ![rslot] = "FREE"]
  /\ UNCHANGED <<queueVars, request, output, clientVars, handlerVars, resets, rslot, stale>>

(* try_push, which must not find the queue full: force_reset panics.         *)
ResetPush ==
  /\ rpc = "push"
  /\ \/ /\ HasRoom(freeQ)
        /\ freeQ' = Append(freeQ, rslot)
        /\ rpc' = IF rslot = NumSlots - 1 THEN "idle" ELSE "free"
        /\ rslot' = rslot + 1
     \/ /\ ~HasRoom(freeQ)
        /\ rpc' = "panicked"
        /\ UNCHANGED <<freeQ, rslot>>
  /\ UNCHANGED <<readyQ, slotVars, clientVars, handlerVars, resets, stale>>

ForceReset == ResetFreeQ \/ ResetReadyQ \/ ResetSlot \/ ResetPush

Next ==
  \/ \E c \in Clients : CCall(c) \/ CStep(c)
  \/ \E h \in Handlers : HStep(h) \/ HFault(h)
  \/ ForceReset

Spec == Init /\ [][Next]_vars

(***************************************************************************)
(* Fairness: the threads of LiveClients keep running once inside infer, the *)
(* handlers keep running; nobody is obliged to call infer, and weak         *)
(* fairness promises no particular client a slot other clients compete for. *)
(***************************************************************************)
FairSpec ==
  /\ Spec
  /\ \A c \in LiveClients : WF_vars(CStep(c))
  /\ \A h \in Handlers : WF_vars(HStep(h))

--------------------------------------------------------------------------------
ClientLocations ==
  {"idle", "acquire", "fill", "ready", "submit", "wait", "check", "read",
   "free", "push", "rejectFree", "rejectPush", "panicked"}
HandlerLocations ==
  {"pop", "clear", "fill", "infer", "write", "mark", "metrics", "except",
   "stopping", "stopped"}
Holding == ClientLocations \ {"idle", "acquire", "panicked"}

(* Types, and which locals are bound where. *)
TypeOK ==
  /\ freeQ \in Seq(Slots) /\ readyQ \in Seq(Slots)
  /\ state \in [Slots -> {"FREE", "READY", "DONE"}]
  /\ request \in [Slots -> Outputs]
  /\ output \in [Slots -> Outputs]
  /\ cpc \in [Clients -> ClientLocations]
  /\ cslot \in [Clients -> Slots \cup {Nil}]
  /\ creq \in [Clients -> ReqIds]
  /\ answer \in [Clients -> Outputs]
  /\ hpc \in [Handlers -> HandlerLocations]
  /\ hslot \in [Handlers -> Slots \cup {Nil}]
  /\ views \in [Handlers -> Seq(Slots)]
  /\ batch \in [Handlers -> Seq(Outputs)]
  /\ idx \in [Handlers -> Nat \ {0}]
  /\ resets \in 0 .. MaxResets /\ rslot \in 0 .. NumSlots /\ stale \in BOOLEAN
  /\ rpc \in {"idle", "ready", "free", "push", "panicked"}
  /\ resets = 0 => rpc = "idle" /\ ~stale
  /\ rpc = "ready" => rslot = 0
  /\ rpc \in {"free", "push"} => rslot < NumSlots
  /\ \A c \in Clients : cslot[c] # Nil <=> cpc[c] \in Holding
  /\ \A h \in Handlers :
       /\ hslot[h] # Nil <=> hpc[h] = "clear"
       /\ hpc[h] \in {"infer", "write", "mark"} => Len(batch[h]) = NumViews(h)
       /\ hpc[h] \in {"write", "mark", "except", "stopping"} => idx[h] <= NumViews(h)

(* Slots that the force_reset in progress has not queued yet.               *)
ToCome == IF rpc = "idle" THEN {} ELSE rslot .. NumSlots - 1

(* The client's half of the protocol, which no failure of a handler can     *)
(* disturb: a slot is in the free queue once, or held by one client, or yet *)
(* to be queued by a force_reset, never two of them and never none.         *)
(* force_reset, which is there to give the arena "a clean state", keeps     *)
(* this if no client held a slot when it began, although handlers may still *)
(* have old slots in hand and clients acquire slots while it goes on; nor   *)
(* does it run into a full queue then.                                      *)
SlotOwnership ==
  ~stale =>
    /\ \A i, j \in 1 .. Len(freeQ) : freeQ[i] = freeQ[j] => i = j
    /\ \A c \in Clients : \A i \in 1 .. Len(freeQ) : freeQ[i] # cslot[c]
    /\ \A c, d \in Clients : cslot[c] # Nil /\ cslot[c] = cslot[d] => c = d
    /\ \A s \in ToCome :
         (\A i \in 1 .. Len(freeQ) : freeQ[i] # s) /\ (\A c \in Clients : cslot[c] # s)
    /\ \A s \in Slots \ ToCome :
         (\E i \in 1 .. Len(freeQ) : freeQ[i] = s) \/ (\E c \in Clients : cslot[c] = s)
    /\ rpc # "panicked"

(* The "mismatched response" error of infer is evidence of an arena that    *)
(* was re-initialised under a client with a slot, and of nothing else: not  *)
(* of a handler that still works on a slot it popped before a reset.        *)
MismatchOnlyAfterReset ==
  ~stale =>
    \A c \in Clients : cpc[c] \notin {"rejectFree", "rejectPush", "panicked"}

(* Where a handler still owes a mark: slots popped and not yet written back. *)
(* For a handler that has stopped these are the slots it abandoned.          *)
Owed(h) ==
  IF hpc[h] = "clear" THEN Append(views[h], hslot[h])
  ELSE SubSeq(views[h], idx[h], NumViews(h))

Places ==
  {<<"queue", i>> : i \in DOMAIN readyQ} \cup
  UNION {{<<h, i>> : i \in DOMAIN Owed(h)} : h \in Handlers}

SlotAt(pl) ==
  IF pl[1] = "queue" THEN readyQ[pl[2]] ELSE Owed(pl[1])[pl[2]]

(* A submitted request is in exactly one place until it is marked, and a    *)
(* handler only ever has requests whose client is waiting in state READY:   *)
(* what debug_assert_eq!(state, SLOT_READY) in pop_ready and try_pop_ready  *)
(* relies on.                                                               *)
InFlightOnce ==
  /\ \A p, q \in Places : SlotAt(p) = SlotAt(q) => p = q
  /\ \A p \in Places :
       /\ state[SlotAt(p)] = "READY"
       /\ \E c \in Clients : cslot[c] = SlotAt(p) /\ cpc[c] = "wait"

(* "Never leave a slot un-marked: a requester blocking on this slot would   *)
(* hang forever" (handler.py): whoever waits on a slot that is not DONE has *)
(* it in the ready queue or in the hands of a handler that still runs.      *)
NoSlotLeftUnmarked ==
  \A c \in Clients : cpc[c] = "wait" /\ state[cslot[c]] # "DONE" =>
    \E p \in Places : SlotAt(p) = cslot[c] /\ (p[1] # "queue" => hpc[p[1]] # "stopped")

(* Whatever goes wrong, a reset under a client excepted, a client hangs     *)
(* only on a slot of the batch that a handler had when it was interrupted   *)
(* where nobody marks slots.  No exception of the handlers, no slot marked  *)
(* twice and no request left over from before a reset makes another client  *)
(* wait on a slot that is neither queued nor owed.                          *)
HangsOnlyIfAbandoned ==
  ~stale =>
    \A c \in Clients : cpc[c] = "wait" /\ state[cslot[c]] # "DONE" =>
      \E p \in Places : SlotAt(p) = cslot[c]

(* SLOT_DONE: "the Slot has completed processing and outputs are ready":    *)
(* a client that saw DONE has in its slot the result of its own request, or *)
(* the zeros the handler leaves when the batch failed.                      *)
DoneMeansProcessed ==
  \A c \in Clients : cpc[c] \in {"check", "read"} =>
    output[cslot[c]] \in {Mine(c), Zero}

(* QCAP "must be >= max number of slots": neither queue is ever full when a *)
(* client pushes, so push_blocking never blocks.                            *)
PushNeverBlocks ==
  \A c \in Clients :
    /\ cpc[c] = "submit" => HasRoom(readyQ)
    /\ cpc[c] \in {"push", "rejectPush"} => HasRoom(freeQ)

Waiting(c) == cpc[c] \notin {"idle", "free", "push"}

Service == INSTANCE InferenceService WITH
  MayFail <- "infer" \in Faults,
  asked   <- [c \in Clients |-> IF cpc[c] \in {"acquire", "fill"} THEN NextId(creq[c]) ELSE creq[c]],
  waiting <- [c \in Clients |-> Waiting(c)],
  answer  <- answer

(* The arena, the clients and the handlers together implement the inference *)
(* service: every answer is the result for the request just made, or zeros  *)
(* if a batch may fail, whatever the interleaving of clients and handlers.  *)
ImplementsService == Service!Spec

(* Every infer call of a client that keeps running returns, as long as      *)
(* there are slots enough that nobody has to compete for one, even if other *)
(* clients die while they hold theirs.                                      *)
EveryRequestAnswered ==
  \A c \in LiveClients : Waiting(c) ~> ~Waiting(c)
================================================================================
