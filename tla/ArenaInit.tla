------------------------------- MODULE ArenaInit -------------------------------
(***************************************************************************)
(* Arena::create_or_open of mcts-core/src/ipc_core.rs: several processes   *)
(* (handlers, gather workers) open one file-backed arena by name; the      *)
(* first is to initialise it and the others are to wait.  Every access to  *)
(* the header another process can interleave with is a step.  An opener    *)
(* that returned Ok uses the arena: it takes slots from the free queue and *)
(* gives them back.  A process may be killed at any step; the file stays.  *)
(***************************************************************************)
EXTENDS Naturals, Sequences, FiniteSets

CONSTANTS
  Openers,     \* processes calling create_or_open with equal arguments
  NumSlots,
  Files,       \* what the file may be: "fresh" (all zero bytes) or "older"
               \* (another ARENA_VERSION)
  MaxDeaths,   \* bound: how many of them are killed
  Nil

ASSUME InitAssumption ==
  /\ NumSlots \in Nat \ {0} /\ MaxDeaths \in Nat
  /\ Files \subseteq {"fresh", "older"}
  /\ Nil \notin 0 .. NumSlots - 1

Slots == 0 .. NumSlots - 1

VARIABLES
  header,    \* magic and version: "fresh", "older" or "ours"
  initLock,  \* ArenaHeader.init_lock
  initDone,  \* ArenaHeader.init_done
  freeQ,     \* ArenaHeader.free_q
  pc,        \* where each process is
  next,      \* loop index of its slot loop
  held,      \* the slot it is using
  inits,     \* history: initialisations begun
  origin,    \* history: the file as the first opener found it
  raced      \* history: a call began while another was yet to initialise

history == <<origin, raced>>
vars == <<header, initLock, initDone, freeQ, pc, next, held, inits, history>>

(* A file left by an older build was completely initialised by it. *)
Init ==
  /\ origin \in Files /\ raced = FALSE
  /\ header = origin
  /\ initLock = 0
  /\ initDone = IF origin = "older" THEN 1 ELSE 0
  /\ freeQ = IF origin = "older" THEN [i \in 1 .. NumSlots |-> i - 1] ELSE <<>>
  /\ pc = [p \in Openers |-> "start"]
  /\ next = [p \in Openers |-> 0]
  /\ held = [p \in Openers |-> Nil]
  /\ inits = 0

Goto(p, from, to) == pc[p] = from /\ pc' = [pc EXCEPT ![p] = to]

Opening(p) == pc[p] \notin {"start", "open", "using", "failed", "dead"}

(* Some process has initialised the arena and published it. *)
Published ==
  initDone = 1 /\ \E p \in Openers : next[p] = NumSlots /\ pc[p] # "publish"

(* Argument checks, open, set_len and mmap change nothing here: all callers *)
(* pass the same sizes.                                                     *)
Start(p) ==
  /\ Goto(p, "start", "need")
  /\ raced' = (raced \/ (~Published /\ \E q \in Openers : Opening(q)))
  /\ UNCHANGED <<header, initLock, initDone, freeQ, next, held, inits, origin>>

(* A slip: whoever gets the lock initialises. *)
MutNeedInit == TRUE

(* Loads of init_done, magic and version; another process can only make the *)
(* later ones better.                                                       *)
NeedInit == initDone = 0 \/ header # "ours"

ReadNeed(p) ==
  /\ pc[p] = "need"
  /\ pc' = [pc EXCEPT ![p] = IF NeedInit THEN "trylock" ELSE "sanity"]
  /\ UNCHANGED <<header, initLock, initDone, freeQ, next, held, inits, history>>

(* A slip: the exchange is a plain store. *)
MutTryLock(p) ==
  /\ Goto(p, "trylock", "header")
  /\ initLock' = 1
  /\ UNCHANGED <<header, initDone, freeQ, next, held, inits, history>>

(* init_lock.compare_exchange(0, 1); the loser waits. *)
TryLock(p) ==
  /\ \/ initLock = 0 /\ Goto(p, "trylock", "header")
     \/ initLock = 1 /\ Goto(p, "trylock", "waitdone")
  /\ initLock' = 1
  /\ UNCHANGED <<header, initDone, freeQ, next, held, inits, history>>

(* A slip: init_done is stored with the header. *)
MutWriteHeader(p) ==
  /\ Goto(p, "header", "queues")
  /\ header' = "ours"
  /\ initDone' = 1
  /\ inits' = inits + 1
  /\ UNCHANGED <<initLock, freeQ, next, held, history>>

(* Magic and version are written first, *)
WriteHeader(p) ==
  /\ Goto(p, "header", "queues")
  /\ header' = "ours"
  /\ inits' = inits + 1
  /\ UNCHANGED <<initLock, initDone, freeQ, next, held, history>>

(* then the free queue is emptied, and the ready queue, which no process of  *)
(* this module uses,                                                         *)
InitQueues(p) ==
  /\ Goto(p, "queues", "slots")
  /\ freeQ' = <<>>
  /\ next' = [next EXCEPT ![p] = 0]
  /\ UNCHANGED <<header, initLock, initDone, held, inits, history>>

(* then the slots are freed and queued one by one, *)
InitSlot(p) ==
  /\ pc[p] = "slots"
  /\ freeQ' = Append(freeQ, next[p])
  /\ next' = [next EXCEPT ![p] = @ + 1]
  /\ pc' = [pc EXCEPT ![p] = IF next[p] = NumSlots - 1 THEN "publish" ELSE "slots"]
  /\ UNCHANGED <<header, initLock, initDone, held, inits, history>>

(* A slip: init_done is never set. *)
MutPublish(p) ==
  /\ Goto(p, "publish", "unlock")
  /\ UNCHANGED <<header, initLock, initDone, freeQ, next, held, inits, history>>

(* then init_done is set and the lock is given back. *)
Publish(p) ==
  /\ Goto(p, "publish", "unlock")
  /\ initDone' = 1
  /\ UNCHANGED <<header, initLock, freeQ, next, held, inits, history>>

Unlock(p) ==
  /\ Goto(p, "unlock", "sanity")
  /\ initLock' = 0
  /\ UNCHANGED <<header, initDone, freeQ, next, held, inits, history>>

WaitDone(p) ==
  /\ Goto(p, "waitdone", "sanity")
  /\ initDone = 1
  /\ UNCHANGED <<header, initLock, initDone, freeQ, next, held, inits, history>>

(* Sanity checks against the header. *)
Sanity(p) ==
  /\ \/ header = "ours" /\ Goto(p, "sanity", "open")
     \/ header # "ours" /\ Goto(p, "sanity", "failed")
  /\ UNCHANGED <<header, initLock, initDone, freeQ, next, held, inits, history>>

(* Use of the opened arena: acquire_slot and release_slot. *)
Acquire(p) ==
  /\ Goto(p, "open", "using")
  /\ freeQ # <<>>
  /\ held' = [held EXCEPT ![p] = Head(freeQ)]
  /\ freeQ' = Tail(freeQ)
  /\ UNCHANGED <<header, initLock, initDone, next, inits, history>>

Release(p) ==
  /\ Goto(p, "using", "open")
  /\ Len(freeQ) <= 2 * NumSlots  \* bound on duplicates after a second init
  /\ freeQ' = Append(freeQ, held[p])
  /\ held' = [held EXCEPT ![p] = Nil]
  /\ UNCHANGED <<header, initLock, initDone, next, inits, history>>

(* The process is killed; what it wrote and the locks it holds stay.        *)
Die(p) ==
  /\ pc[p] # "dead" /\ Cardinality({q \in Openers : pc[q] = "dead"}) < MaxDeaths
  /\ pc' = [pc EXCEPT ![p] = "dead"]
  /\ UNCHANGED <<header, initLock, initDone, freeQ, next, held, inits, history>>

OpenStep(p) ==
  \/ ReadNeed(p) \/ TryLock(p) \/ WriteHeader(p) \/ InitQueues(p) \/ InitSlot(p)
  \/ Publish(p) \/ Unlock(p) \/ WaitDone(p) \/ Sanity(p)

Next ==
  \E p \in Openers : Start(p) \/ OpenStep(p) \/ Acquire(p) \/ Release(p) \/ Die(p)

Spec == Init /\ [][Next]_vars

(* Every process that entered create_or_open and lives keeps running. *)
FairSpec == Spec /\ \A p \in Openers : WF_vars(OpenStep(p))

--------------------------------------------------------------------------------
Initialising(p) == pc[p] \in {"header", "queues", "slots", "publish", "unlock"}

(* Two processes never write the header, the queues and the slots at the    *)
(* same time, however their calls overlap.                                  *)
OneInitialiser ==
  \A p, q \in Openers : Initialising(p) /\ Initialising(q) => p = q

(* Nobody gets an arena of a fresh file before some process has written the *)
(* header, queued all slots and published init_done, whoever is killed.     *)
OpenMeansInitialised ==
  origin = "fresh" => \A p \in Openers : pc[p] \in {"open", "using"} =>
    /\ header = "ours" /\ initDone = 1
    /\ \E q \in Openers : next[q] = NumSlots

(* create_or_open returns to whoever calls it, while others are killed      *)
(* anywhere in it: only an initialiser that is killed after it took         *)
(* init_lock and before it published init_done leaves the others spinning,  *)
(* and then only on a fresh file.                                           *)
Orphaned ==
  /\ initLock = 1 /\ initDone = 0 /\ origin = "fresh"
  /\ \A p \in Openers : ~Initialising(p)

EveryOpenReturns ==
  \A p \in Openers : Opening(p) ~> ~Opening(p) \/ Orphaned

(* Unless a call begins while another is yet to initialise, a slot is used  *)
(* by one process at a time and queued at most once, on a file of another   *)
(* version too.                                                             *)
SlotsExclusive ==
  ~raced =>
    /\ \A p, q \in Openers : held[p] # Nil /\ held[p] = held[q] => p = q
    /\ \A i, j \in 1 .. Len(freeQ) : freeQ[i] = freeQ[j] => i = j

(* "Initialize only when first created (or when magic mismatched)". *)
InitializedOnce == inits <= 1

================================================================================
