---------------------------------- MODULE Mcts ----------------------------------
(***************************************************************************)
(* The batched tree search of mcts-core/src/mcts.rs and node.rs, and the   *)
(* way a game loop drives it: run, then advance_root after each move.      *)
(*                                                                         *)
(* The environment is a finite graph of states, so that states can be      *)
(* reached along different paths (transpositions) and can repeat (cycles). *)
(* The arena is shown by the ids of its entries, whose records are in      *)
(* nodes.  Priors and values are abstracted: PUCT may pick any valid       *)
(* action.  run is sequential; between the selection of a leaf and its     *)
(* backpropagation the rest of the batch is selected, which is what        *)
(* virtual losses are for.                                                 *)
(***************************************************************************)
EXTENDS Integers, Sequences, FiniteSets, FiniteSetsExt

CONSTANTS
  States,    \* environment states; a state stands for its hash
  Actions,
  Succ,      \* Succ[s]: the transitions of s, a function on its valid actions
  Terminal,  \* the states in which done() holds
  Start,     \* where an episode begins
  BatchSize, \* MCTS.batch_size
  StepCounts,\* values of num_steps
  MaxRuns,   \* bound: calls of run
  Nil

ASSUME MctsAssumption ==
  /\ Terminal \subseteq States /\ Start \in States /\ IsFiniteSet(States)
  /\ IsFiniteSet(Actions)
  /\ \A s \in States : DOMAIN Succ[s] \subseteq Actions
  /\ \A s \in States : \A a \in DOMAIN Succ[s] : Succ[s][a] \in States
  /\ \A s \in Terminal : DOMAIN Succ[s] = {}
  /\ BatchSize \in Nat \ {0}
  /\ StepCounts \subseteq Nat
  /\ MaxRuns \in Nat
  /\ Nil \notin States

Valid(s) == DOMAIN Succ[s]

VARIABLES
  env,      \* the caller's environment
  root,     \* MCTS.root_id
  nodes,    \* the record that get_node finds for each id of the table
  arena,    \* MCTS.nodes: the ids of its entries, in order
  table,    \* transposition_table: the arena index of an id, from 1
  noise,    \* whether root_noise is set
  pc,       \* where run is
  batches,  \* batches still to do, the current one included
  sims,     \* simulations of the current batch still to do
  path,     \* select_leaf: (node, action) pairs taken so far
  node,     \* select_leaf: node_id
  game,     \* select_leaf: the cloned environment
  pending,  \* pending_inferences
  runs,     \* calls of run so far
  found,    \* advance_root: reachable
  queue,    \* advance_root: queue
  kept,     \* advance_root: nodes_after_pruning
  keptTable \* advance_root: table_after_pruning

callerVars == <<env, runs>>
searchVars == <<batches, sims, path, node, game, pending>>
index == <<arena, table>>
pruneVars == <<found, queue, kept, keptTable>>
vars == <<callerVars, root, nodes, noise, pc, searchVars, index, pruneVars>>

Unindexed == [s \in {} |-> 0]

Init ==
  /\ env = Start
  /\ root = Nil
  /\ nodes = [s \in {} |-> Nil]
  /\ noise = FALSE
  /\ pc = "idle"
  /\ batches = 0 /\ sims = 0
  /\ path = <<>> /\ node = Nil /\ game = Start
  /\ pending = <<>>
  /\ runs = 0
  /\ arena = <<>> /\ table = Unindexed
  /\ found = {} /\ queue = <<>>
  /\ kept = <<>> /\ keptTable = Unindexed

Exists(s) == s \in DOMAIN nodes

Total(f) == FoldFunction(+, 0, f)

(* Node::new and Node::new_terminal: a terminal node has no actions.        *)
NewNode(s) ==
  [ child     |-> [a \in Valid(s) |-> Nil],
    visits    |-> [a \in Valid(s) |-> 0],
    losses    |-> [a \in Valid(s) |-> 0],
    penalties |-> [a \in Valid(s) |-> 0],
    total     |-> 0 ]

(* create_node; a node that exists is left alone.                           *)
WithNode(tree, s) ==
  IF s \in DOMAIN tree THEN tree
  ELSE [t \in DOMAIN tree \cup {s} |-> IF t = s THEN NewNode(s) ELSE tree[t]]

(* ids with one more entry, and the index that entry gets. *)
Indexed(at, ids, s) == [t \in DOMAIN at \cup {s} |-> IF t = s THEN Len(ids) + 1 ELSE at[t]]

(* insert_node, unless the node exists. *)
Insert(s) ==
  IF Exists(s) THEN UNCHANGED index
  ELSE /\ arena' = Append(arena, s)
       /\ table' = Indexed(table, arena, s)

--------------------------------------------------------------------------------
(* run, up to its first batch.  A call on a terminal environment returns    *)
(* before anything else; the noise stays.                                   *)
CeilDiv(n, d) == (n + d - 1) \div d

BeginRun(n) ==
  /\ pc = "idle" /\ runs < MaxRuns
  /\ runs' = runs + 1
  /\ root' = env
  /\ nodes' = WithNode(nodes, env) /\ Insert(env)
  /\ \/ /\ env \in Terminal
        /\ UNCHANGED <<pc, batches, noise>>
     \/ /\ env \notin Terminal
        /\ batches' = CeilDiv(n, BatchSize)
        /\ pc' = "batch"
        /\ UNCHANGED noise
  /\ UNCHANGED <<env, sims, path, node, game, pending, pruneVars>>

BeginBatch ==
  /\ pc = "batch" /\ batches > 0
  /\ pc' = "simulate"
  /\ sims' = BatchSize
  /\ UNCHANGED <<callerVars, root, nodes, noise, batches, path, node, game, pending, index, pruneVars>>

(* The end of run: transient noise is cleared. *)
EndRun ==
  /\ pc = "batch" /\ batches = 0
  /\ pc' = "idle"
  /\ noise' = FALSE
  /\ UNCHANGED <<callerVars, root, nodes, searchVars, index, pruneVars>>

(* select_leaf on a clone of the environment. *)
BeginSelect ==
  /\ pc = "simulate" /\ sims > 0
  /\ pc' = "select"
  /\ sims' = sims - 1
  /\ path' = <<>> /\ node' = root /\ game' = env
  /\ UNCHANGED <<callerVars, root, nodes, noise, batches, pending, index, pruneVars>>

(* check_state_repeat. *)
OnPath(s) == \E i \in DOMAIN path : path[i].node = s

(* One round of the loop: pick an action, count a virtual loss, step, and   *)
(* follow the edge if its child has been expanded.                          *)
Descend(a) ==
  /\ pc = "select"
  /\ game \notin Terminal /\ Exists(node) /\ ~OnPath(game)
  /\ a \in Valid(node)
  /\ nodes' = [nodes EXCEPT ![node].losses[a] = @ + 1]
  /\ game' = Succ[game][a]
  /\ path' = Append(path, [node |-> node, act |-> a])
  /\ \/ /\ nodes[node].child[a] # Nil
        /\ node' = nodes[node].child[a]
        /\ UNCHANGED pc
     \/ /\ nodes[node].child[a] = Nil
        /\ pc' = "leaf"
        /\ UNCHANGED node
  /\ UNCHANGED <<callerVars, root, noise, batches, sims, pending, index, pruneVars>>

(* A slip: where no action can be selected the loop tries again. *)
MutStopSelect ==
  /\ pc = "select"
  /\ \/ /\ game \notin Terminal /\ Exists(node) /\ OnPath(game)
        /\ pc' = "repeat"
     \/ /\ game \in Terminal \/ ~Exists(node)
        /\ pc' = "leaf"
  /\ UNCHANGED <<callerVars, root, nodes, noise, searchVars, index, pruneVars>>

(* The loop ends above a terminal state, a missing node or a dead end, or   *)
(* because the state repeats one of the path.                               *)
StopSelect ==
  /\ pc = "select"
  /\ \/ /\ game \notin Terminal /\ Exists(node) /\ OnPath(game)
        /\ pc' = "repeat"
     \/ /\ game \in Terminal \/ ~Exists(node)
        /\ pc' = "leaf"
     \/ /\ game \notin Terminal /\ Exists(node) /\ ~OnPath(game)
        /\ Valid(node) = {}
        /\ pc' = "leaf"
  /\ UNCHANGED <<callerVars, root, nodes, noise, searchVars, index, pruneVars>>

(* expand: create the leaf unless it exists, link it unless linked. *)
Expanded(tree, parent, a, leaf) ==
  LET grown == WithNode(tree, leaf)
  IN  IF grown[parent].child[a] = Nil
      THEN [grown EXCEPT ![parent].child[a] = leaf]
      ELSE grown

EdgeVisits(n) ==
  Total([a \in DOMAIN n.visits |-> IF n.child[a] = Nil THEN 0 ELSE n.visits[a]])

(* A slip: the visit that expanded the node is not counted. *)
MutVisits(n) == EdgeVisits(n) + Total(n.losses)

(* recompute_value: node_visits is 1 + the visits of edges with a child + the *)
(* virtual losses.                                                            *)
Visits(n) == 1 + EdgeVisits(n) + Total(n.losses)

(* A slip: the first edge is penalised. *)
MutPenaltyAt(way) == 1

(* The edge of a path that repeats a state which gets the penalty. *)
PenaltyAt(way) == Len(way)

(* revert_virtual_loss is saturating_sub. *)
Dec(k) == IF k = 0 THEN 0 ELSE k - 1

(* A slip: only the last edge of the path gets its virtual loss back. *)
MutBackedUp(tree, way, repeated) ==
  [s \in DOMAIN tree |->
     IF \A i \in DOMAIN way : way[i].node # s THEN tree[s]
     ELSE LET i == CHOOSE j \in DOMAIN way : way[j].node = s
              a == way[i].act
              b == [tree[s] EXCEPT !.visits[a] = @ + 1,
                                   !.losses[a] = IF i = Len(way) THEN Dec(@) ELSE @,
                                   !.penalties[a] =
                                      IF repeated /\ i = PenaltyAt(way) THEN @ + 1 ELSE @]
          IN  [b EXCEPT !.total = Visits(b)]]

(* backpropagate: virtual losses back, a penalty on the last edge of a path *)
(* that repeats a state, then one visit per edge.  A node is on a path at   *)
(* most once: select_leaf stops at a repeat.                                *)
BackedUp(tree, way, repeated) ==
  [s \in DOMAIN tree |->
     IF \A i \in DOMAIN way : way[i].node # s THEN tree[s]
     ELSE LET i == CHOOSE j \in DOMAIN way : way[j].node = s
              a == way[i].act
              b == [tree[s] EXCEPT !.visits[a] = @ + 1,
                                   !.losses[a] = Dec(@),
                                   !.penalties[a] =
                                      IF repeated /\ i = PenaltyAt(way) THEN @ + 1 ELSE @]
          IN  [b EXCEPT !.total = Visits(b)]]

LastEdge == path[Len(path)]

(* Without an action the simulation is skipped. *)
SkipLeaf ==
  /\ pc = "leaf" /\ path = <<>>
  /\ pc' = "simulate"
  /\ UNCHANGED <<callerVars, root, nodes, noise, searchVars, index, pruneVars>>

(* Repeats and terminal states are backed up at once. *)
ImmediateBackup ==
  /\ path # <<>>
  /\ \/ /\ pc = "repeat"
        /\ nodes' = BackedUp(nodes, path, TRUE)
        /\ UNCHANGED index
     \/ /\ pc = "leaf" /\ game \in Terminal
        /\ nodes' = BackedUp(Expanded(nodes, LastEdge.node, LastEdge.act, game), path, FALSE)
        /\ Insert(game)
  /\ pc' = "simulate"
  /\ path' = <<>>
  /\ UNCHANGED <<callerVars, root, noise, batches, sims, node, game, pending, pruneVars>>

(* Other leaves wait for the batched inference. *)
Enqueue ==
  /\ pc = "leaf" /\ path # <<>> /\ game \notin Terminal
  /\ pending' = Append(pending, [way |-> path, leaf |-> game])
  /\ pc' = "simulate"
  /\ path' = <<>>
  /\ UNCHANGED <<callerVars, root, nodes, noise, batches, sims, node, game, index, pruneVars>>

(* The client's answer for the batch, then expand and backpropagate leaf by *)
(* leaf; a batch without pending leaves needs no inference.                 *)
Resolve ==
  /\ pc = "simulate" /\ sims = 0 /\ pending # <<>>
  /\ LET p == Head(pending)
         e == p.way[Len(p.way)]
     IN  /\ nodes' = BackedUp(Expanded(nodes, e.node, e.act, p.leaf), p.way, FALSE)
         /\ Insert(p.leaf)
  /\ pending' = Tail(pending)
  /\ UNCHANGED <<callerVars, root, noise, pc, batches, sims, path, node, game, pruneVars>>

EndBatch ==
  /\ pc = "simulate" /\ sims = 0 /\ pending = <<>>
  /\ batches' = batches - 1
  /\ pc' = "batch"
  /\ UNCHANGED <<callerVars, root, nodes, noise, sims, path, node, game, pending, index, pruneVars>>

--------------------------------------------------------------------------------
(* Between runs the caller registers noise, or makes a move. *)

PerturbRootPrior ==
  /\ pc = "idle" /\ runs < MaxRuns
  /\ noise' = TRUE
  /\ UNCHANGED <<callerVars, root, nodes, pc, searchVars, index, pruneVars>>

(* The game loop steps its environment and calls advance_root.  A child of   *)
(* the root becomes the root and its subtree is searched; without a child    *)
(* the root is forgotten and the nodes stay.                                 *)
Move(a) ==
  /\ pc = "idle" /\ root = env
  /\ a \in Valid(env)
  /\ env' = Succ[env][a]
  /\ LET new == nodes[root].child[a]
     IN  \/ /\ new # Nil
            /\ root' = new
            /\ pc' = "reach"
            /\ found' = {} /\ queue' = <<new>>
         \/ /\ new = Nil
            /\ root' = Nil
            /\ UNCHANGED <<pc, found, queue>>
  /\ UNCHANGED <<nodes, runs, noise, searchVars, index, kept, keptTable>>

(* The slots of s whose child is not in reach. *)
Unseen(s, reach) ==
  IF ~Exists(s) THEN {}
  ELSE {a \in Valid(s) : nodes[s].child[a] # Nil /\ nodes[s].child[a] \notin reach}

(* The orders in which the elements of a set can be taken, here the slots of *)
(* a node: the order of the code is one of them.                             *)
Orders(S) ==
  {o \in [1 .. Cardinality(S) -> S] : \A a \in S : \E i \in 1 .. Cardinality(S) : o[i] = a}

(* A slip: an id that was found before is not skipped, and ends the search.  *)
MutVisit ==
  /\ pc = "reach" /\ queue # <<>>
  /\ LET id == Head(queue)
     IN  \/ /\ id \in found
            /\ queue' = <<>>
            /\ UNCHANGED found
         \/ /\ id \notin found
            /\ found' = found \cup {id}
            /\ \E o \in Orders(Unseen(id, found')) :
                 queue' = Tail(queue) \o [i \in DOMAIN o |-> nodes[id].child[o[i]]]
  /\ UNCHANGED <<callerVars, root, nodes, noise, pc, searchVars, index, kept, keptTable>>

(* One round of the breadth-first search: an id can be queued several times, *)
(* and is searched once.                                                     *)
Visit ==
  /\ pc = "reach" /\ queue # <<>>
  /\ LET id == Head(queue)
     IN  \/ /\ id \in found
            /\ queue' = Tail(queue)
            /\ UNCHANGED found
         \/ /\ id \notin found
            /\ found' = found \cup {id}
            /\ \E o \in Orders(Unseen(id, found')) :
                 queue' = Tail(queue) \o [i \in DOMAIN o |-> nodes[id].child[o[i]]]
  /\ UNCHANGED <<callerVars, root, nodes, noise, pc, searchVars, index, kept, keptTable>>

EndReach ==
  /\ pc = "reach" /\ queue = <<>>
  /\ pc' = "drain"
  /\ UNCHANGED <<callerVars, root, nodes, noise, searchVars, index, pruneVars>>

(* A slip: a node keeps its place in the old arena as its index.             *)
MutDrain ==
  /\ pc = "drain" /\ arena # <<>>
  /\ arena' = Tail(arena)
  /\ LET id == Head(arena)
     IN  \/ /\ id \in found
            /\ keptTable' = [t \in DOMAIN keptTable \cup {id} |->
                               IF t = id THEN table[id] ELSE keptTable[t]]
            /\ kept' = Append(kept, id)
         \/ /\ id \notin found
            /\ UNCHANGED <<kept, keptTable>>
  /\ UNCHANGED <<callerVars, root, nodes, noise, pc, searchVars, table, found, queue>>

(* One round of the loop over self.nodes.drain: a node that was found moves  *)
(* to the new arena, and its index there to the new table.                   *)
Drain ==
  /\ pc = "drain" /\ arena # <<>>
  /\ arena' = Tail(arena)
  /\ LET id == Head(arena)
     IN  \/ /\ id \in found
            /\ keptTable' = Indexed(keptTable, kept, id)
            /\ kept' = Append(kept, id)
         \/ /\ id \notin found
            /\ UNCHANGED <<kept, keptTable>>
  /\ UNCHANGED <<callerVars, root, nodes, noise, pc, searchVars, table, found, queue>>

(* The new arena and table replace the old ones: from here on get_node finds *)
(* for an id the record of the entry the new table points at, or nothing if  *)
(* the arena has no such entry.                                              *)
EndPrune ==
  /\ pc = "drain" /\ arena = <<>>
  /\ pc' = "idle"
  /\ arena' = kept /\ table' = keptTable
  /\ nodes' = [id \in {t \in DOMAIN keptTable : keptTable[t] \in DOMAIN kept} |->
               nodes[kept[keptTable[id]]]]
  /\ found' = {} /\ kept' = <<>> /\ keptTable' = Unindexed
  /\ UNCHANGED <<callerVars, root, noise, searchVars, queue>>

Next ==
  \/ \E n \in StepCounts : BeginRun(n)
  \/ BeginBatch \/ EndRun
  \/ BeginSelect \/ (\E a \in Actions : Descend(a)) \/ StopSelect
  \/ SkipLeaf \/ ImmediateBackup \/ Enqueue
  \/ Resolve \/ EndBatch
  \/ PerturbRootPrior \/ (\E a \in Actions : Move(a))
  \/ Visit \/ EndReach \/ Drain \/ EndPrune

Spec == Init /\ [][Next]_vars

(* run and advance_root are sequential code: once called they go on. *)
SearchStep ==
  \/ BeginBatch \/ EndRun
  \/ BeginSelect \/ (\E a \in Actions : Descend(a)) \/ StopSelect
  \/ SkipLeaf \/ ImmediateBackup \/ Enqueue
  \/ Resolve \/ EndBatch
  \/ Visit \/ EndReach \/ Drain \/ EndPrune
FairSpec == Spec /\ WF_vars(SearchStep)

--------------------------------------------------------------------------------
(* The paths selected and not yet backed up. *)
InFlight == DOMAIN pending \cup {0}
Way(i) == IF i = 0 THEN path ELSE pending[i].way
Crosses(way, s, a) == \E j \in DOMAIN way : way[j] = [node |-> s, act |-> a]

(* Virtual losses: an edge's counter is the number of selected paths through *)
(* it that still await backpropagation - so none is left when run returns,   *)
(* and a search never steers away from an edge nobody is on.                 *)
LossesAreInFlight ==
  \A s \in DOMAIN nodes : \A a \in Valid(s) :
    nodes[s].losses[a] = Cardinality({i \in InFlight : Crosses(Way(i), s, a)})

(* recompute_value counts virtual losses into node_visits, yet when run has  *)
(* returned node_visits is exactly 1 + the edge visits of every node that    *)
(* was ever backed up, whatever mix of immediate and batched backups.        *)
VisitsAddUp ==
  pc = "idle" => \A s \in DOMAIN nodes :
    LET v == Total(nodes[s].visits)
    IN  nodes[s].total = IF v = 0 THEN 0 ELSE 1 + v

(* A lookup finds the entry of the id that was asked for, and no entry is    *)
(* out of the table's reach.                                                 *)
TableMatchesArena ==
  /\ DOMAIN table = DOMAIN nodes
  /\ \A s \in DOMAIN table : table[s] \in 1 .. Len(arena) /\ arena[table[s]] = s
  /\ \A i \in 1 .. Len(arena) : arena[i] \in DOMAIN table /\ table[arena[i]] = i

(* No child id is dangling, in run or after advance_root's pruning, the child *)
(* is the state its edge leads to, a visited edge has a child, and wherever   *)
(* a node can be looked up its index is that of its own entry of the arena.   *)
TreeIsClosed ==
  /\ \A s \in DOMAIN nodes : \A a \in Valid(s) :
       /\ nodes[s].child[a] # Nil =>
            nodes[s].child[a] = Succ[s][a] /\ Exists(nodes[s].child[a])
       /\ nodes[s].visits[a] > 0 => nodes[s].child[a] # Nil
  /\ pc # "drain" => TableMatchesArena

(* The environment states that can be reached from s. *)
EnvReach(s) ==
  {t \in States : \A T \in SUBSET States :
     (s \in T /\ \A u \in T : \A a \in Valid(u) : Succ[u][a] \in T) => t \in T}

(* Repetition penalties fall only on edges that lie on a cycle of the         *)
(* environment: the edge's target leads back to its source.                   *)
PenaltiesOnCycles ==
  \A s \in DOMAIN nodes : \A a \in Valid(s) :
    nodes[s].penalties[a] > 0 => s \in EnvReach(Succ[s][a])

Children(s) == {nodes[s].child[a] : a \in Valid(s)} \ {Nil}

(* The states that at most k expanded edges lead to from r, level by level.  *)
Within(r) ==
  LET f[k \in 0 .. Cardinality(States)] ==
        IF k = 0 THEN {r}
        ELSE f[k - 1] \cup UNION {Children(s) : s \in f[k - 1]}
  IN  f[Cardinality(States)]

(* advance_root's search and compaction: when it has returned, a lookup      *)
(* finds exactly the ids to which a path of expanded edges leads from the    *)
(* new root, with the record each had before, and the arena has one entry    *)
(* for each of them.                                                         *)
PruningExact ==
  [][pc = "drain" /\ pc' = "idle" =>
       /\ nodes' = [s \in Within(root) |-> nodes[s]]
       /\ Len(arena') = Cardinality(DOMAIN nodes')]_vars

(* select_leaf, run and advance_root terminate although the tree is cyclic. *)
RunReturns == pc # "idle" ~> pc = "idle"

================================================================================
