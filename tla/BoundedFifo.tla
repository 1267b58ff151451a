------------------------------ MODULE BoundedFifo ------------------------------
(***************************************************************************)
(* What RingQueue promises its callers: a bounded FIFO on which every      *)
(* operation takes effect at one instant between its call and its return.  *)
(* try_push fails only on a full queue and try_pop only on an empty one;   *)
(* the blocking variants answer with success only.                         *)
(***************************************************************************)
EXTENDS Naturals, Sequences

CONSTANTS
  Procs,     \* threads of any process that maps the arena
  Elems,     \* what is queued: slot indices
  Capacity,  \* how many elements fit
  Nil        \* absence of a value

Ops ==
  [kind : {"push"}, val : Elems, blocking : BOOLEAN] \cup
  [kind : {"pop"}, val : {Nil}, blocking : BOOLEAN]

Full  == "full"
Empty == "empty"
Ok    == "ok"

VARIABLES
  fifo,  \* the elements, oldest first
  ask,   \* the operation a thread has called, or Nil
  ans    \* its answer once it has taken effect, or Nil

vars == <<fifo, ask, ans>>

Init ==
  /\ fifo = <<>>
  /\ ask = [p \in Procs |-> Nil]
  /\ ans = [p \in Procs |-> Nil]

Call(p, o) ==
  /\ ask[p] = Nil
  /\ ask' = [ask EXCEPT ![p] = o]
  /\ UNCHANGED <<fifo, ans>>

Pending(p) == ask[p] # Nil /\ ans[p] = Nil

Answer(p, a) == ans' = [ans EXCEPT ![p] = a]

Push(p) ==
  /\ Pending(p)
  /\ ask[p].kind = "push"
  /\ Len(fifo) < Capacity
  /\ fifo' = Append(fifo, ask[p].val)
  /\ Answer(p, Ok)
  /\ UNCHANGED ask

RefusePush(p) ==
  /\ Pending(p)
  /\ ask[p].kind = "push" /\ ~ask[p].blocking
  /\ Len(fifo) = Capacity
  /\ Answer(p, Full)
  /\ UNCHANGED <<fifo, ask>>

Pop(p) ==
  /\ Pending(p)
  /\ ask[p].kind = "pop"
  /\ fifo # <<>>
  /\ fifo' = Tail(fifo)
  /\ Answer(p, Head(fifo))
  /\ UNCHANGED ask

RefusePop(p) ==
  /\ Pending(p)
  /\ ask[p].kind = "pop" /\ ~ask[p].blocking
  /\ fifo = <<>>
  /\ Answer(p, Empty)
  /\ UNCHANGED <<fifo, ask>>

Return(p) ==
  /\ ans[p] # Nil
  /\ ask' = [ask EXCEPT ![p] = Nil]
  /\ Answer(p, Nil)
  /\ UNCHANGED fifo

Next ==
  \E p \in Procs :
    \/ \E o \in Ops : Call(p, o)
    \/ Push(p)
    \/ RefusePush(p)
    \/ Pop(p)
    \/ RefusePop(p)
    \/ Return(p)

Spec == Init /\ [][Next]_vars

================================================================================
