------------------------------- MODULE RingQueue -------------------------------
(***************************************************************************)
(* RingQueue of mcts-core/src/ipc_core.rs: a ring of QCAP cells in shared  *)
(* memory, used by threads of several processes under one spin lock.  Each *)
(* memory access that another thread could observe is a step of its own.   *)
(* The lock's swap is Acquire and its store Release, so the Relaxed        *)
(* accesses between them are seen in program order by the next holder; a   *)
(* thread that dies simply takes no further step.                          *)
(***************************************************************************)
EXTENDS Naturals, Sequences

CONSTANTS
  Procs,  \* threads
  Elems,  \* slot indices that may be queued
  QCAP,   \* cells of the ring (4096 in the code)
  Nil     \* absence of a value

Ops ==
  [kind : {"push"}, val : Elems, blocking : BOOLEAN] \cup
  [kind : {"pop"}, val : {Nil}, blocking : BOOLEAN]

ASSUME RingAssumption ==
  /\ QCAP \in Nat /\ QCAP >= 2
  /\ Nil \notin Elems \cup {"full", "empty", "ok"}
  /\ Elems \cap {"full", "empty", "ok"} = {}
  /\ \A o \in Ops : o # Nil

VARIABLES
  flag,   \* SpinLock.flag: 0 unlocked, 1 locked
  head,   \* RingQueue.head
  tail,   \* RingQueue.tail
  cells,  \* RingQueue.slots
  pc,     \* where each thread is
  op,     \* the call it is executing
  lhead,  \* its local copy of head
  ltail,  \* its local copy of tail
  res     \* the closure's result

vars == <<flag, head, tail, cells, pc, op, lhead, ltail, res>>

Failures == {"full", "empty"}

Index == 0 .. QCAP - 1

Succ(i) == (i + 1) % QCAP

(* RingQueue.init; a cell is never read before a push has written it. *)
Init ==
  /\ flag = 0 /\ head = 0 /\ tail = 0
  /\ cells = [i \in Index |-> Nil]
  /\ pc = [p \in Procs |-> "idle"]
  /\ op = [p \in Procs |-> Nil]
  /\ lhead = [p \in Procs |-> 0]
  /\ ltail = [p \in Procs |-> 0]
  /\ res = [p \in Procs |-> Nil]

Goto(p, from, to) == pc[p] = from /\ pc' = [pc EXCEPT ![p] = to]

Call(p, o) ==
  /\ Goto(p, "idle", "lock")
  /\ op' = [op EXCEPT ![p] = o]
  /\ UNCHANGED <<flag, head, tail, cells, lhead, ltail, res>>

(* A slip: the lock is taken without looking at the flag's old value. *)
MutLockIgnoresFlag(p) ==
  /\ Goto(p, "lock", "load")
  /\ flag' = 1
  /\ UNCHANGED <<head, tail, cells, op, lhead, ltail, res>>

(* SpinLock.lock: the swap that finds 0; one that finds 1 changes nothing. *)
Lock(p) ==
  /\ Goto(p, "lock", "load")
  /\ flag = 0
  /\ flag' = 1
  /\ UNCHANGED <<head, tail, cells, op, lhead, ltail, res>>

(* A slip: the full test forgets that one cell stays empty. *)
MutRefusedNeverFull(p) == op[p].kind = "pop" /\ head = tail

(* Both index loads and the full / empty test of the closure. *)
Refused(p) ==
  IF op[p].kind = "push" THEN Succ(tail) = head ELSE head = tail

Load(p) ==
  /\ pc[p] = "load"
  /\ lhead' = [lhead EXCEPT ![p] = head]
  /\ ltail' = [ltail EXCEPT ![p] = tail]
  /\ \/ /\ Refused(p)
        /\ Goto(p, "load", "unlock")
        /\ res' = [res EXCEPT ![p] = IF op[p].kind = "push" THEN "full" ELSE "empty"]
     \/ /\ ~Refused(p)
        /\ Goto(p, "load", "copy")
        /\ UNCHANGED res
  /\ UNCHANGED <<flag, head, tail, cells, op>>

(* The raw cell write of try_push, the raw cell read of try_pop. *)
Copy(p) ==
  /\ Goto(p, "copy", "publish")
  /\ \/ /\ op[p].kind = "push"
        /\ cells' = [cells EXCEPT ![ltail[p]] = op[p].val]
        /\ UNCHANGED res
     \/ /\ op[p].kind = "pop"
        /\ res' = [res EXCEPT ![p] = cells[lhead[p]]]
        /\ UNCHANGED cells
  /\ UNCHANGED <<flag, head, tail, op, lhead, ltail>>

(* The index store: the instant at which the operation takes effect. *)
Publish(p) ==
  /\ Goto(p, "publish", "unlock")
  /\ \/ /\ op[p].kind = "push"
        /\ tail' = Succ(ltail[p])
        /\ res' = [res EXCEPT ![p] = "ok"]
        /\ UNCHANGED head
     \/ /\ op[p].kind = "pop"
        /\ head' = Succ(lhead[p])
        /\ UNCHANGED <<tail, res>>
  /\ UNCHANGED <<flag, cells, op, lhead, ltail>>

(* The closure's locals die with it. *)
ForgetLocals(p) ==
  /\ lhead' = [lhead EXCEPT ![p] = 0]
  /\ ltail' = [ltail EXCEPT ![p] = 0]
  /\ res' = [res EXCEPT ![p] = Nil]

(* A slip: a blocking call that failed keeps the lock while it retries. *)
MutUnlockOnSuccess(p) ==
  /\ pc[p] = "unlock"
  /\ \/ /\ op[p].blocking /\ res[p] \in Failures
        /\ Goto(p, "unlock", "load")
        /\ UNCHANGED <<flag, op>>
     \/ /\ ~(op[p].blocking /\ res[p] \in Failures)
        /\ Goto(p, "unlock", "idle")
        /\ flag' = 0
        /\ op' = [op EXCEPT ![p] = Nil]
  /\ ForgetLocals(p)
  /\ UNCHANGED <<head, tail, cells>>

(* SpinLock.unlock, then the return of try_push / try_pop, or one more round *)
(* of push_blocking / pop_blocking.                                          *)
Unlock(p) ==
  /\ pc[p] = "unlock"
  /\ flag' = 0
  /\ \/ /\ op[p].blocking /\ res[p] \in Failures
        /\ Goto(p, "unlock", "lock")
        /\ UNCHANGED op
     \/ /\ ~(op[p].blocking /\ res[p] \in Failures)
        /\ Goto(p, "unlock", "idle")
        /\ op' = [op EXCEPT ![p] = Nil]
  /\ ForgetLocals(p)
  /\ UNCHANGED <<head, tail, cells>>

Step(p) == Lock(p) \/ Load(p) \/ Copy(p) \/ Publish(p) \/ Unlock(p)

Next == \E p \in Procs : Step(p) \/ \E o \in Ops : Call(p, o)

Spec == Init /\ [][Next]_vars

(***************************************************************************)
(* Fairness: a running thread keeps executing, and a thread spinning on    *)
(* the lock, which samples the flag again and again while every failed     *)
(* round of a blocking call sleeps outside the lock, gets it eventually.   *)
(* Nobody is obliged to call an operation.                                 *)
(***************************************************************************)
Fairness ==
  \A p \in Procs : WF_vars(Step(p)) /\ SF_vars(Lock(p))

FairSpec == Spec /\ Fairness

--------------------------------------------------------------------------------
Locations == {"idle", "lock", "load", "copy", "publish", "unlock"}
Critical == {"load", "copy", "publish", "unlock"}
Results == Elems \cup Failures \cup {Nil, "ok"}

(* Types of the shared words and of each thread's locals. *)
TypeOK ==
  /\ flag \in {0, 1}
  /\ head \in Index /\ tail \in Index
  /\ cells \in [Index -> Elems \cup {Nil}]
  /\ pc \in [Procs -> Locations]
  /\ op \in [Procs -> Ops \cup {Nil}]
  /\ lhead \in [Procs -> Index]
  /\ ltail \in [Procs -> Index]
  /\ res \in [Procs -> Results]
  /\ \A p \in Procs : pc[p] # "idle" => op[p] \in Ops

(* SpinLock: at most one thread is between the swap that found 0 and the    *)
(* store of 0, and the flag is 1 exactly while there is one.                *)
MutualExclusion ==
  /\ \A p, q \in Procs : pc[p] \in Critical /\ pc[q] \in Critical => p = q
  /\ flag = 1 <=> \E p \in Procs : pc[p] \in Critical

(* try_push / try_pop decide on copies of head and tail: until the thread   *)
(* publishes its index store the copies equal the shared words, so a push   *)
(* never overwrites an element still queued and a pop never reads a cell    *)
(* that holds none.                                                         *)
DecisionStillValid ==
  \A p \in Procs : pc[p] \in {"copy", "publish"} =>
    /\ lhead[p] = head /\ ltail[p] = tail
    /\ ~Refused(p)

(* The queue contents as a sequence, and the abstract call of a thread. *)
Contents ==
  [i \in 1 .. (QCAP + tail - head) % QCAP |-> cells[(head + i - 1) % QCAP]]

AbstractAnswer(p) ==
  IF pc[p] = "unlock" /\ ~(op[p].blocking /\ res[p] \in Failures)
  THEN res[p] ELSE Nil

Fifo == INSTANCE BoundedFifo WITH
  Capacity <- QCAP - 1,
  fifo <- Contents,
  ask  <- op,
  ans  <- [p \in Procs |-> AbstractAnswer(p)]

(* RingQueue implements the bounded FIFO of capacity QCAP - 1: elements come *)
(* out once each and in push order, and an operation is refused only when    *)
(* the queue really is full or empty at one instant of the call.             *)
ImplementsFifo == Fifo!Spec

(* A push_blocking and a pop_blocking that are both waiting cannot wait on  *)
(* each other for ever: one of the two returns.                             *)
Waiting(p, k) == op[p] # Nil /\ op[p].kind = k /\ op[p].blocking

BlockedCallsMeet ==
  \A p, q \in Procs :
    (Waiting(p, "push") /\ Waiting(q, "pop")) ~>
      ~(Waiting(p, "push") /\ Waiting(q, "pop"))

================================================================================
