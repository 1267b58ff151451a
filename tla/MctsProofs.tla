------------------------------- MODULE MctsProofs -------------------------------
(***************************************************************************)
(* Proofs about Mcts, for any environment with finitely many states and    *)
(* actions, any batch size, any number of simulations and of runs.         *)
(*                                                                         *)
(* The tree is described apart from the variables, as an argument: Typed,  *)
(* Closed and Cyclic say what a tree is, IsWay what a selected path is in  *)
(* it. Searching says where select_leaf is, Waiting what the leaves of the *)
(* batch are, and Pruning how far advance_root has come and that the table *)
(* numbers the arena; together they are the inductive SearchInv. Counted   *)
(* and Settled, further down, tie the counters of a node to the paths in   *)
(* flight; with them it is IndInv. That advance_root's search finds what   *)
(* the levels of PruningExact find is shown with Levels.                   *)
(***************************************************************************)
EXTENDS Mcts, FunctionTheorems, SequenceTheorems, FiniteSetTheorems, WellFoundedInduction, TLAPS

NodeType(s) ==
  [ child     : [Valid(s) -> States \cup {Nil}],
    visits    : [Valid(s) -> Nat],
    losses    : [Valid(s) -> Nat],
    penalties : [Valid(s) -> Nat],
    total     : Nat ]

Typed(tree) ==
  /\ DOMAIN tree \subseteq States
  /\ tree = [s \in DOMAIN tree |-> tree[s]]
  /\ \A s \in DOMAIN tree : tree[s] \in NodeType(s)

(* An edge leads to its state, and a visited edge has a child.               *)
Closed(tree) ==
  \A s \in DOMAIN tree : \A a \in Valid(s) :
    /\ tree[s].child[a] # Nil => tree[s].child[a] = Succ[s][a] /\ Succ[s][a] \in DOMAIN tree
    /\ tree[s].visits[a] > 0 => tree[s].child[a] # Nil

Cyclic(tree) ==
  \A s \in DOMAIN tree : \A a \in Valid(s) :
    tree[s].penalties[a] > 0 => s \in EnvReach(Succ[s][a])

(* A path of distinct nodes, each the child of the one before it.            *)
IsWay(tree, way) ==
  /\ way \in Seq([node : States, act : Actions])
  /\ \A i \in 1 .. Len(way) : way[i].node \in DOMAIN tree /\ way[i].act \in Valid(way[i].node)
  /\ \A i, j \in 1 .. Len(way) : i # j => way[i].node # way[j].node
  /\ \A i \in 1 .. Len(way) - 1 : tree[way[i].node].child[way[i].act] = way[i + 1].node

Final(way) == way[Len(way)]
Target(way) == Succ[Final(way).node][Final(way).act]

TreeInv == Typed(nodes) /\ Closed(nodes) /\ Cyclic(nodes)

Selecting == {"select", "repeat", "leaf"}
Pruned == {"reach", "drain"}
Resting == {"idle"} \cup Pruned

(* A walk from the root on which later nodes are reached from earlier ones.  *)
Searching ==
  /\ env \in States /\ pc \in Resting \cup {"batch", "simulate"} \cup Selecting
  /\ root = Nil \/ (root = env /\ env \in DOMAIN nodes)
  /\ pc \notin Resting => root = env /\ env \notin Terminal
  /\ IsWay(nodes, path)
  /\ pc \notin Selecting => path = <<>>
  /\ pc \in Selecting => node \in DOMAIN nodes /\ game \in States
  /\ pc \in {"select", "repeat"} =>
       /\ game = node
       /\ path # <<>> =>
            /\ nodes[Final(path).node].child[Final(path).act] = node
            /\ Target(path) = node
       /\ \A i \in 1 .. Len(path) : game \in EnvReach(path[i].node)
  /\ pc = "repeat" => OnPath(game)
  /\ pc = "leaf" /\ path # <<>> => game = Target(path)
  /\ \A i \in 1 .. Len(path) : \A j \in i .. Len(path) : path[j].node \in EnvReach(path[i].node)

Waiting ==
  /\ pc \in Resting \cup {"batch"} => pending = <<>>
  /\ pending \in Seq([way : Seq([node : States, act : Actions]), leaf : States])
  /\ \A i \in 1 .. Len(pending) :
       /\ IsWay(nodes, pending[i].way) /\ pending[i].way # <<>>
       /\ pending[i].leaf = Target(pending[i].way)

(* What a chain of expanded edges leads to from r: all of it is in every     *)
(* closed set that r is in.                                                  *)
Kids(tree, s) == {tree[s].child[a] : a \in Valid(s)} \ {Nil}
Reachable(tree, r) ==
  {s \in DOMAIN tree :
     \A T \in SUBSET DOMAIN tree : (r \in T /\ \A t \in T : Kids(tree, t) \subseteq T) => s \in T}
Kept(tree, r) == [s \in Reachable(tree, r) |-> tree[s]]

(* The breadth-first search: what was found leads to nothing that is not     *)
(* found or queued.                                                          *)
Listed(ids) == {ids[i] : i \in 1 .. Len(ids)}
Frontier(tree, r, reach, q) ==
  /\ reach \subseteq Reachable(tree, r) /\ q \in Seq(Reachable(tree, r))
  /\ r \in reach \cup Listed(q)
  /\ \A s \in reach : Kids(tree, s) \subseteq reach \cup Listed(q)

(* Each entry's index is its own: ids without repetition, at their inverse.  *)
Numbered(ids, at) ==
  /\ ids \in Seq(States)
  /\ \A i \in 1 .. Len(ids) : ids[i] \in DOMAIN at /\ at[ids[i]] = i
  /\ \A s \in DOMAIN at : at[s] \in 1 .. Len(ids) /\ ids[at[s]] = s

(* The compaction: what was found is in the old arena or in the new one.     *)
Moved(reach, old, ids, at) ==
  /\ Numbered(ids, at) /\ DOMAIN at \subseteq reach
  /\ old \in Seq(States)
  /\ \A i, j \in 1 .. Len(old) : i # j => old[i] # old[j]
  /\ \A i \in 1 .. Len(old) : old[i] \notin DOMAIN at
  /\ reach \subseteq Listed(old) \cup DOMAIN at

Pruning ==
  /\ pc # "drain" => /\ Numbered(arena, table) /\ DOMAIN table = DOMAIN nodes
                     /\ kept = <<>> /\ keptTable = Unindexed
  /\ pc \in Pruned => root \in DOMAIN nodes
  /\ pc = "reach" => Frontier(nodes, root, found, queue)
  /\ pc = "drain" => found = Reachable(nodes, root) /\ Moved(found, arena, kept, keptTable)

SearchInv == TreeInv /\ Searching /\ Waiting /\ Pruning

(* A node that no path in flight goes through adds up. *)
OnWay(way, s) == \E j \in 1 .. Len(way) : way[j].node = s
AddsUp(n) == n.total = IF Total(n.visits) = 0 THEN 0 ELSE 1 + Total(n.visits)
Settled(tree, p, q) ==
  \A s \in DOMAIN tree :
    ~OnWay(p, s) /\ (\A i \in 1 .. Len(q) : ~OnWay(q[i].way, s)) => AddsUp(tree[s])

--------------------------------------------------------------------------------
(* Sums: there is no induction to cite, a smallest counterexample does its work. *)

(* A sum over the subsets of s, taken as FoldFunction takes it. *)
Pick(s) == CHOOSE x \in s : TRUE
Sums(f, g, s) ==
  \A t \in SUBSET s : g[t] = IF t = {} THEN 0 ELSE f[Pick(t)] + g[t \ {Pick(t)}]

(* A property of the finite sets that fails, fails in a smallest set.        *)
LEMMA SmallestSet ==
  ASSUME NEW D, IsFiniteSet(D), NEW B \in SUBSET SUBSET D, B # {}
  PROVE  \E s \in B : \A t \in SUBSET s : t # s => t \notin B
<1>1. FiniteSubsetsOf(D) = SUBSET D
  BY FS_FiniteSubsetsOfFinite
<1>2. IsWellFoundedOn(StrictSubsetOrdering(D), SUBSET D)
  BY <1>1, FS_StrictSubsetOrderingWellFounded
<1>3. \E s \in B : \A t \in B : ~(<<t, s>> \in StrictSubsetOrdering(D))
  BY <1>2, WFMin
<1> QED BY <1>3 DEF StrictSubsetOrdering

LEMMA SumsAgree ==
  ASSUME NEW D, IsFiniteSet(D), NEW f, NEW s \in SUBSET D, NEW t \in SUBSET s,
         NEW g, NEW h, Sums(f, g, s), Sums(f, h, t)
  PROVE  g[t] = h[t]
<1> DEFINE B == {u \in SUBSET t : g[u] # h[u]}
<1>1. B \in SUBSET SUBSET D
  OBVIOUS
<1>2. ASSUME B # {} PROVE FALSE
  <2>1. PICK u \in B : \A v \in SUBSET u : v # u => v \notin B
    <3> HIDE DEF B
    <3> QED BY <1>1, <1>2, SmallestSet
  <2>2. u \in SUBSET t /\ u \in SUBSET s
    OBVIOUS
  <2>3. CASE u = {}
    BY <2>2, <2>3 DEF Sums
  <2>4. CASE u # {}
    <3>1. Pick(u) \in u
      BY <2>4 DEF Pick
    <3> DEFINE v == u \ {Pick(u)}
    <3>2. v \in SUBSET u /\ v # u /\ v \in SUBSET t
      BY <3>1
    <3>3. g[v] = h[v]
      BY <2>1, <3>2
    <3>4. g[u] = f[Pick(u)] + g[v] /\ h[u] = f[Pick(u)] + h[v]
      BY <2>2, <2>4 DEF Sums
    <3>5. g[u] # h[u]
      OBVIOUS
    <3> QED BY <3>3, <3>4, <3>5
  <2> QED BY <2>3, <2>4
<1> QED BY <1>2

LEMMA SumsExist ==
  ASSUME NEW D, IsFiniteSet(D), NEW f \in [D -> Nat]
  PROVE  \E g \in [SUBSET D -> Nat] : Sums(f, g, D)
<1> DEFINE Summed(s) == \E g \in [SUBSET s -> Nat] : Sums(f, g, s)
           B == {s \in SUBSET D : ~Summed(s)}
<1>1. ASSUME B # {} PROVE FALSE
  <2>1. PICK s \in B : \A t \in SUBSET s : t # s => t \notin B
    <3>1. B \in SUBSET SUBSET D
      OBVIOUS
    <3> HIDE DEF B
    <3> QED BY <1>1, <3>1, SmallestSet
  <2>2. \A t \in SUBSET s : t # s => Summed(t)
    BY <2>1
  <2> DEFINE sums(t) == CHOOSE g \in [SUBSET t -> Nat] : Sums(f, g, t)
  <2>3. \A t \in SUBSET s : t # s => sums(t) \in [SUBSET t -> Nat] /\ Sums(f, sums(t), t)
    BY <2>2
  <2> DEFINE rest(t) == t \ {Pick(t)}
  <2>4. \A t \in SUBSET s : t # {} => Pick(t) \in t /\ rest(t) \in SUBSET t /\ rest(t) # t
    BY DEF Pick
  <2> HIDE DEF sums, Summed
  <2> DEFINE g == [t \in SUBSET s |->
                     IF t = {} THEN 0
                     ELSE IF t = s THEN f[Pick(s)] + sums(rest(s))[rest(s)] ELSE sums(t)[t]]
  <2>5. \A t \in SUBSET s : t # {} /\ t # s => sums(t)[t] = f[Pick(t)] + sums(t)[rest(t)]
    BY <2>3 DEF Sums
  <2>6. ASSUME NEW t \in SUBSET s, t # {}, t # s
        PROVE  sums(t)[rest(t)] = g[rest(t)]
    <3>1. rest(t) \in SUBSET t /\ rest(t) # s /\ rest(t) \in SUBSET s
      BY <2>4, <2>6
    <3>2. Sums(f, sums(t), t) /\ Sums(f, sums(rest(t)), rest(t))
      BY <2>3, <2>6, <3>1
    <3>3. sums(t)[rest(t)] = sums(rest(t))[rest(t)]
      <4> HIDE DEF rest
      <4> QED BY <3>1, <3>2, SumsAgree
    <3>4. rest(t) = {} => sums(t)[rest(t)] = 0
      BY <3>1, <3>2 DEF Sums
    <3> HIDE DEF rest
    <3> QED BY <3>1, <3>3, <3>4
  <2>7. s # {} => sums(rest(s))[rest(s)] = g[rest(s)]
    <3> SUFFICES ASSUME s # {} PROVE sums(rest(s))[rest(s)] = g[rest(s)]
      OBVIOUS
    <3>1. rest(s) \in SUBSET s /\ rest(s) # s
      BY <2>4
    <3>2. rest(s) = {} => sums(rest(s))[rest(s)] = 0
      BY <2>3, <3>1 DEF Sums
    <3> HIDE DEF rest
    <3> QED BY <3>1, <3>2
  <2>8. Sums(f, g, s)
    <3>1. \A t \in SUBSET s : t = {} => g[t] = 0
      OBVIOUS
    <3>2. \A t \in SUBSET s : t # {} => g[t] = f[Pick(t)] + g[rest(t)]
      <4>1. \A t \in SUBSET s : t # {} /\ t # s => g[t] = sums(t)[t]
        OBVIOUS
      <4>2. s # {} => g[s] = f[Pick(s)] + sums(rest(s))[rest(s)]
        OBVIOUS
      <4> HIDE DEF g, rest
      <4> QED BY <2>5, <2>6, <2>7, <4>1, <4>2
    <3> HIDE DEF g
    <3> QED BY <3>1, <3>2 DEF Sums
  <2>9. g \in [SUBSET s -> Nat]
    <3>1. \A t \in SUBSET s : t # {} => f[Pick(t)] \in Nat
      BY <2>4
    <3>2. \A t \in SUBSET s : t # s => sums(t)[t] \in Nat
      BY <2>3
    <3>3. s # {} => sums(rest(s))[rest(s)] \in Nat
      <4>1. s # {} => rest(s) \in SUBSET s /\ rest(s) # s
        BY <2>4
      <4> HIDE DEF rest
      <4> QED BY <3>2, <4>1
    <3> HIDE DEF rest
    <3> QED BY <3>1, <3>2, <3>3
  <2> HIDE DEF g
  <2>10. Summed(s)
    BY <2>8, <2>9 DEF Summed
  <2> QED BY <2>10
<1> QED BY <1>1

LEMMA SumIsZero ==
  ASSUME NEW D, IsFiniteSet(D), NEW f \in [D -> Nat], NEW g \in [SUBSET D -> Nat], Sums(f, g, D)
  PROVE  \A t \in SUBSET D : g[t] = 0 <=> \A i \in t : f[i] = 0
<1> DEFINE B == {t \in SUBSET D : ~(g[t] = 0 <=> \A i \in t : f[i] = 0)}
<1>1. ASSUME B # {} PROVE FALSE
  <2>1. PICK t \in B : \A u \in SUBSET t : u # t => u \notin B
    <3>1. B \in SUBSET SUBSET D
      OBVIOUS
    <3> HIDE DEF B
    <3> QED BY <1>1, <3>1, SmallestSet
  <2>2. CASE t = {}
    BY <2>2 DEF Sums
  <2>3. CASE t # {}
    <3>1. Pick(t) \in t
      BY <2>3 DEF Pick
    <3>2. PICK x : x = Pick(t)
      OBVIOUS
    <3>3. x \in t /\ g[t] = f[x] + g[t \ {x}]
      BY <2>3, <3>1, <3>2 DEF Sums
    <3>4. t \ {x} \in SUBSET t /\ t \ {x} # t /\ t \ {x} \in SUBSET D
      BY <3>3
    <3>5. g[t \ {x}] = 0 <=> \A i \in t \ {x} : f[i] = 0
      BY <2>1, <3>4
    <3>6. f[x] \in Nat /\ g[t \ {x}] \in Nat
      BY <3>3, <3>4
    <3>7. g[t] = 0 <=> f[x] = 0 /\ g[t \ {x}] = 0
      BY <3>3, <3>6
    <3>8. (\A i \in t : f[i] = 0) <=> f[x] = 0 /\ \A i \in t \ {x} : f[i] = 0
      BY <3>3
    <3> QED BY <3>5, <3>7, <3>8
  <2> QED BY <2>2, <2>3
<1> QED BY <1>1

(* The sum of natural numbers, and when it is none. *)
LEMMA TotalOf ==
  ASSUME NEW D, IsFiniteSet(D), NEW f \in [D -> Nat]
  PROVE  Total(f) \in Nat /\ (Total(f) = 0 <=> \A i \in D : f[i] = 0)
<1> DEFINE iter == CHOOSE h : h = [s \in SUBSET D |->
                                     IF s = {} THEN 0 ELSE f[Pick(s)] + h[s \ {Pick(s)}]]
<1>1. PICK g \in [SUBSET D -> Nat] : Sums(f, g, D)
  BY SumsExist
<1>2. g = [s \in SUBSET D |-> IF s = {} THEN 0 ELSE f[Pick(s)] + g[s \ {Pick(s)}]]
  BY <1>1 DEF Sums
<1>3. iter = [s \in SUBSET D |-> IF s = {} THEN 0 ELSE f[Pick(s)] + iter[s \ {Pick(s)}]]
  BY <1>2
<1>4. Total(f) = iter[D]
  BY DEF Total, FoldFunction, FoldFunctionOnSet, MapThenFoldSet, Pick
<1> HIDE DEF iter
<1>5. Sums(f, iter, D)
  BY <1>3 DEF Sums
<1>6. iter[D] = g[D]
  BY <1>1, <1>5, SumsAgree
<1>7. g[D] \in Nat /\ (g[D] = 0 <=> \A i \in D : f[i] = 0)
  <2>1. D \in SUBSET D
    OBVIOUS
  <2> QED BY <1>1, <2>1, SumIsZero
<1> QED BY <1>4, <1>6, <1>7, Zenon

--------------------------------------------------------------------------------
(* What create_node, expand and backpropagate do to a tree. *)

LEMMA NewNodeTyped ==
  ASSUME NEW s
  PROVE  NewNode(s) \in NodeType(s)
BY DEF NewNode, NodeType

LEMMA WithNodeTree ==
  ASSUME NEW tree, Typed(tree), NEW s \in States
  PROVE  /\ Typed(WithNode(tree, s)) /\ DOMAIN WithNode(tree, s) = DOMAIN tree \cup {s}
         /\ \A t \in DOMAIN tree : WithNode(tree, s)[t] = tree[t]
         /\ s \notin DOMAIN tree => WithNode(tree, s)[s] = NewNode(s)
<1>1. CASE s \in DOMAIN tree
  BY <1>1 DEF WithNode
<1>2. CASE s \notin DOMAIN tree
  BY <1>2, NewNodeTyped DEF WithNode, Typed
<1> QED BY <1>1, <1>2

GrownBy(tree, s, a, leaf, new) ==
  /\ Typed(new) /\ DOMAIN new = DOMAIN tree \cup {leaf}
  /\ \A t \in DOMAIN tree :
       /\ new[t].visits = tree[t].visits /\ new[t].losses = tree[t].losses
       /\ new[t].penalties = tree[t].penalties /\ new[t].total = tree[t].total
       /\ \A b \in Valid(t) :
            \/ new[t].child[b] = tree[t].child[b]
            \/ tree[t].child[b] = Nil /\ t = s /\ b = a /\ new[t].child[b] = leaf
  /\ new[s].child[a] # Nil
  /\ leaf \notin DOMAIN tree => new[leaf] = NewNode(leaf)

LEMMA ExpandedTree ==
  ASSUME NEW tree, Typed(tree), NEW s \in DOMAIN tree, NEW a \in Valid(s), NEW leaf,
         leaf = Succ[s][a], NEW new, new = Expanded(tree, s, a, leaf)
  PROVE  GrownBy(tree, s, a, leaf, new)
<1>1. s \in States /\ leaf \in States /\ leaf # Nil
  BY MctsAssumption DEF Typed, Valid
<1> DEFINE grown == WithNode(tree, leaf)
<1>2. /\ Typed(grown) /\ DOMAIN grown = DOMAIN tree \cup {leaf}
      /\ \A t \in DOMAIN tree : grown[t] = tree[t]
      /\ leaf \notin DOMAIN tree => grown[leaf] = NewNode(leaf)
  BY <1>1, WithNodeTree
<1>3. new = IF grown[s].child[a] = Nil THEN [grown EXCEPT ![s].child[a] = leaf] ELSE grown
  BY DEF Expanded
<1> HIDE DEF grown
<1>4. CASE grown[s].child[a] # Nil
  BY <1>2, <1>3, <1>4 DEF GrownBy
<1>5. CASE grown[s].child[a] = Nil
  <2>1. new = [grown EXCEPT ![s].child[a] = leaf]
    BY <1>3, <1>5
  <2>2. grown[s] \in NodeType(s)
    BY <1>2 DEF Typed
  <2>3. DOMAIN new = DOMAIN grown /\ new = [t \in DOMAIN new |-> new[t]]
        /\ \A t \in DOMAIN grown : t # s => new[t] = grown[t]
    BY <2>1
  <2>4. /\ new[s] = [grown[s] EXCEPT !.child[a] = leaf]
    BY <1>2, <2>1
  <2>5. /\ new[s] \in NodeType(s) /\ new[s].child = [grown[s].child EXCEPT ![a] = leaf]
        /\ new[s].visits = grown[s].visits /\ new[s].losses = grown[s].losses
        /\ new[s].penalties = grown[s].penalties /\ new[s].total = grown[s].total
    BY <1>1, <2>2, <2>4 DEF NodeType
  <2>6. Typed(new)
    BY <1>2, <2>3, <2>5 DEF Typed
  <2>7. new[s].child[a] = leaf /\ \A b \in Valid(s) : b # a => new[s].child[b] = grown[s].child[b]
    BY <2>2, <2>5 DEF NodeType
  <2>8. \A t \in DOMAIN tree : t # s => new[t] = tree[t]
    BY <1>2, <2>3
  <2>9. tree[s] = grown[s]
    BY <1>2
  <2>10. \A b \in Valid(s) :
           \/ new[s].child[b] = tree[s].child[b]
           \/ tree[s].child[b] = Nil /\ b = a /\ new[s].child[b] = leaf
    <3> TAKE b \in Valid(s)
    <3>1. CASE b = a
      BY <1>5, <2>7, <2>9, <3>1
    <3>2. CASE b # a
      <4>1. new[s].child[b] = grown[s].child[b]
        BY <2>7, <3>2
      <4> QED BY <2>9, <4>1
    <3> QED BY <3>1, <3>2
  <2>11. leaf \notin DOMAIN tree => new[leaf] = NewNode(leaf)
    BY <1>2, <2>3
  <2>12. new[s].child[a] # Nil
    BY <1>1, <2>7
  <2>13. \A t \in DOMAIN tree :
              /\ new[t].visits = tree[t].visits /\ new[t].losses = tree[t].losses
              /\ new[t].penalties = tree[t].penalties /\ new[t].total = tree[t].total
              /\ \A b \in Valid(t) :
                   \/ new[t].child[b] = tree[t].child[b]
                   \/ tree[t].child[b] = Nil /\ t = s /\ b = a /\ new[t].child[b] = leaf
    <3> TAKE t \in DOMAIN tree
    <3>1. CASE t # s
      <4>1. new[t] = tree[t]
        BY <2>8, <3>1
      <4> QED BY <4>1
    <3>2. CASE t = s
      BY <2>5, <2>9, <2>10, <3>2
    <3> QED BY <3>1, <3>2
  <2>14. DOMAIN new = DOMAIN tree \cup {leaf}
    BY <1>2, <2>3
  <2> QED BY <2>6, <2>11, <2>12, <2>13, <2>14 DEF GrownBy
<1> QED BY <1>4, <1>5

(* recompute_value of a node that nobody is on counts its edge visits, and  *)
(* one for itself.                                                          *)
LEMMA VisitsTyped ==
  ASSUME NEW s \in States, NEW n \in NodeType(s)
  PROVE  /\ Visits(n) \in Nat
         /\ (\A a \in Valid(s) : n.losses[a] = 0 /\ (n.visits[a] > 0 => n.child[a] # Nil)) =>
              Visits(n) = 1 + Total(n.visits)
         /\ Total(n.visits) \in Nat
         /\ Total(n.visits) = 0 <=> \A a \in Valid(s) : n.visits[a] = 0
<1>1. IsFiniteSet(Valid(s))
  BY MctsAssumption, FS_Subset DEF Valid
<1> DEFINE seen == [a \in DOMAIN n.visits |-> IF n.child[a] = Nil THEN 0 ELSE n.visits[a]]
<1>2. /\ n.visits \in [Valid(s) -> Nat] /\ n.losses \in [Valid(s) -> Nat]
      /\ seen \in [Valid(s) -> Nat]
  BY DEF NodeType
<1>3. Total(seen) \in Nat
  BY <1>1, <1>2, TotalOf
<1>4. Total(n.losses) \in Nat /\ (Total(n.losses) = 0 <=> \A a \in Valid(s) : n.losses[a] = 0)
  BY <1>1, <1>2, TotalOf
<1>5. Total(n.visits) \in Nat /\ (Total(n.visits) = 0 <=> \A a \in Valid(s) : n.visits[a] = 0)
  BY <1>1, <1>2, TotalOf
<1>6. Visits(n) = 1 + Total(seen) + Total(n.losses)
  BY DEF Visits, EdgeVisits
<1>7. (\A a \in Valid(s) : n.visits[a] > 0 => n.child[a] # Nil) => seen = n.visits
  BY <1>2
<1> HIDE DEF seen
<1> QED BY <1>3, <1>4, <1>5, <1>6, <1>7

(* One node of a path: its edge, and then its value. *)
EdgeDone(n, a, last) ==
  [n EXCEPT !.visits[a] = @ + 1,
            !.losses[a] = Dec(@),
            !.penalties[a] = IF last THEN @ + 1 ELSE @]
Recomputed(n) == [n EXCEPT !.total = Visits(n)]

LEMMA EdgeBackedUp ==
  ASSUME NEW s, NEW a \in Valid(s), NEW n \in NodeType(s), NEW last \in BOOLEAN, NEW m,
         m = EdgeDone(n, a, last)
  PROVE  /\ m \in NodeType(s) /\ m.child = n.child
         /\ m.visits = [n.visits EXCEPT ![a] = n.visits[a] + 1]
         /\ m.losses = [n.losses EXCEPT ![a] = Dec(n.losses[a])]
         /\ m.penalties =
              [n.penalties EXCEPT ![a] = IF last THEN n.penalties[a] + 1 ELSE n.penalties[a]]
<1>1. m.visits = [n.visits EXCEPT ![a] = n.visits[a] + 1]
  BY DEF NodeType, EdgeDone
<1>2. m.losses = [n.losses EXCEPT ![a] = Dec(n.losses[a])]
  BY DEF NodeType, EdgeDone
<1>3. m.penalties =
        [n.penalties EXCEPT ![a] = IF last THEN n.penalties[a] + 1 ELSE n.penalties[a]]
  BY DEF NodeType, EdgeDone
<1>4. m.child = n.child /\ m.total = n.total
  BY DEF NodeType, EdgeDone
<1>5. m = [child |-> m.child, visits |-> m.visits, losses |-> m.losses,
           penalties |-> m.penalties, total |-> m.total]
  BY DEF NodeType, EdgeDone
<1>6. /\ n.visits \in [Valid(s) -> Nat] /\ n.losses \in [Valid(s) -> Nat]
      /\ n.penalties \in [Valid(s) -> Nat] /\ n.child \in [Valid(s) -> States \cup {Nil}]
      /\ n.total \in Nat
  BY DEF NodeType
<1>7. m.visits \in [Valid(s) -> Nat]
  BY <1>1, <1>6
<1>8. m.losses \in [Valid(s) -> Nat]
  BY <1>2, <1>6 DEF Dec
<1>9. m.penalties \in [Valid(s) -> Nat]
  BY <1>3, <1>6
<1> QED BY <1>1, <1>2, <1>3, <1>4, <1>5, <1>6, <1>7, <1>8, <1>9 DEF NodeType

LEMMA NodeRecomputed ==
  ASSUME NEW s \in States, NEW m \in NodeType(s), NEW r, r = Recomputed(m)
  PROVE  /\ r \in NodeType(s) /\ r.child = m.child /\ r.visits = m.visits
         /\ r.losses = m.losses /\ r.penalties = m.penalties /\ r.total = Visits(r)
<1>1. PICK total \in Nat : total = Visits(m)
  BY VisitsTyped
<1>2. r = [m EXCEPT !.total = total]
  BY <1>1 DEF Recomputed
<1>3. /\ r.child = m.child /\ r.visits = m.visits /\ r.losses = m.losses
      /\ r.penalties = m.penalties /\ r.total = total /\ r \in NodeType(s)
  BY <1>2 DEF NodeType, EdgeDone
<1>4. Visits(r) = Visits(m)
  BY <1>3 DEF Visits, EdgeVisits
<1> QED BY <1>1, <1>3, <1>4

LEMMA BackedUpTree ==
  ASSUME NEW tree, Typed(tree), NEW way, IsWay(tree, way), NEW repeated \in BOOLEAN,
         NEW new, new = BackedUp(tree, way, repeated)
  PROVE  /\ Typed(new) /\ DOMAIN new = DOMAIN tree
         /\ \A s \in DOMAIN tree : new[s].child = tree[s].child
         /\ \A s \in DOMAIN tree : ~OnWay(way, s) => new[s] = tree[s]
         /\ \A j \in 1 .. Len(way) : \A b \in Valid(way[j].node) :
              LET s == way[j].node
                  a == way[j].act
              IN  /\ new[s].visits[b] = IF b = a THEN tree[s].visits[b] + 1 ELSE tree[s].visits[b]
                  /\ new[s].losses[b] = IF b = a THEN Dec(tree[s].losses[b]) ELSE tree[s].losses[b]
                  /\ new[s].penalties[b] =
                       IF b = a /\ repeated /\ j = Len(way) THEN tree[s].penalties[b] + 1
                       ELSE tree[s].penalties[b]
         /\ \A j \in 1 .. Len(way) : new[way[j].node].total = Visits(new[way[j].node])
<1>1. DOMAIN way = 1 .. Len(way) /\ Len(way) \in Nat
  BY LenProperties DEF IsWay
<1>2. DOMAIN new = DOMAIN tree /\ new = [s \in DOMAIN new |-> new[s]]
  <2> DEFINE body(s) ==
        IF \A i \in DOMAIN way : way[i].node # s THEN tree[s]
        ELSE LET i == CHOOSE j \in DOMAIN way : way[j].node = s
                 a == way[i].act
                 b == [tree[s] EXCEPT !.visits[a] = @ + 1,
                                      !.losses[a] = Dec(@),
                                      !.penalties[a] =
                                         IF repeated /\ i = PenaltyAt(way) THEN @ + 1 ELSE @]
             IN  [b EXCEPT !.total = Visits(b)]
  <2>1. new = [s \in DOMAIN tree |-> body(s)]
    BY Zenon DEF BackedUp
  <2> HIDE DEF body
  <2> QED BY <2>1
<1>3. \A s \in DOMAIN tree : ~OnWay(way, s) => new[s] = tree[s]
  BY <1>1 DEF BackedUp, OnWay
<1>5. ASSUME NEW j \in 1 .. Len(way), NEW s, s = way[j].node, NEW a, a = way[j].act
      PROVE  /\ new[s] \in NodeType(s) /\ new[s].child = tree[s].child
             /\ new[s].total = Visits(new[s])
             /\ new[s].visits = [tree[s].visits EXCEPT ![a] = tree[s].visits[a] + 1]
             /\ new[s].losses = [tree[s].losses EXCEPT ![a] = Dec(tree[s].losses[a])]
             /\ new[s].penalties =
                  [tree[s].penalties EXCEPT
                     ![a] = IF repeated /\ j = Len(way) THEN tree[s].penalties[a] + 1
                            ELSE tree[s].penalties[a]]
             /\ tree[s] \in NodeType(s)
  <2>1. s \in DOMAIN tree /\ s \in States /\ tree[s] \in NodeType(s) /\ a \in Valid(s)
    BY <1>5 DEF Typed, IsWay
  <2>2. PICK last \in BOOLEAN : last = (repeated /\ j = Len(way))
    OBVIOUS
  <2>n. PICK n \in NodeType(s) : n = tree[s]
    BY <2>1
  <2>3. PICK m : m = EdgeDone(n, a, last)
    OBVIOUS
  <2>4. new[s] = Recomputed(m)
    <3>1. \A i \in DOMAIN way : way[i].node = s => i = j
      BY <1>1, <1>5 DEF IsWay
    <3>2. (CHOOSE i \in DOMAIN way : way[i].node = s) = j
      BY <1>1, <1>5, <3>1
    <3>3. ~(\A i \in DOMAIN way : way[i].node # s)
      BY <1>1, <1>5
    <3> QED BY <1>5, <2>1, <2>2, <2>3, <2>n, <3>2, <3>3
        DEF BackedUp, PenaltyAt, EdgeDone, Recomputed
  <2>5. /\ m \in NodeType(s) /\ m.child = n.child
        /\ m.visits = [n.visits EXCEPT ![a] = n.visits[a] + 1]
        /\ m.losses = [n.losses EXCEPT ![a] = Dec(n.losses[a])]
        /\ m.penalties = [n.penalties EXCEPT ![a] = IF last THEN n.penalties[a] + 1
                                                   ELSE n.penalties[a]]
    <3>1. a \in Valid(s)
      BY <2>1
    <3> QED BY <2>3, <3>1, EdgeBackedUp
  <2>r. PICK r : r = new[s]
    OBVIOUS
  <2>6. /\ r \in NodeType(s) /\ r.child = m.child /\ r.visits = m.visits
        /\ r.losses = m.losses /\ r.penalties = m.penalties /\ r.total = Visits(r)
    <3>1. r = Recomputed(m)
      BY <2>4, <2>r
    <3> QED BY <2>1, <2>5, <3>1, NodeRecomputed
  <2> QED BY <2>1, <2>2, <2>5, <2>6, <2>n, <2>r
<1>6. \A s \in DOMAIN tree : OnWay(way, s) => new[s] \in NodeType(s) /\ new[s].child = tree[s].child
  BY <1>5 DEF OnWay
<1>7. Typed(new)
  BY <1>2, <1>3, <1>6 DEF Typed
<1>8. ASSUME NEW j \in 1 .. Len(way), NEW s, s = way[j].node, NEW a, a = way[j].act,
             NEW b \in Valid(s)
      PROVE  /\ new[s].visits[b] = IF b = a THEN tree[s].visits[b] + 1 ELSE tree[s].visits[b]
             /\ new[s].losses[b] = IF b = a THEN Dec(tree[s].losses[b]) ELSE tree[s].losses[b]
             /\ new[s].penalties[b] =
                  IF b = a /\ repeated /\ j = Len(way) THEN tree[s].penalties[b] + 1
                  ELSE tree[s].penalties[b]
  <2>1. /\ new[s].visits = [tree[s].visits EXCEPT ![a] = tree[s].visits[a] + 1]
        /\ new[s].losses = [tree[s].losses EXCEPT ![a] = Dec(tree[s].losses[a])]
        /\ new[s].penalties =
             [tree[s].penalties EXCEPT
                ![a] = IF repeated /\ j = Len(way) THEN tree[s].penalties[a] + 1
                       ELSE tree[s].penalties[a]]
        /\ tree[s] \in NodeType(s)
    BY <1>5, <1>8
  <2>2. /\ tree[s].visits \in [Valid(s) -> Nat] /\ tree[s].losses \in [Valid(s) -> Nat]
        /\ tree[s].penalties \in [Valid(s) -> Nat]
    BY <2>1 DEF NodeType
  <2>3. CASE b = a
    BY <2>1, <2>2, <2>3
  <2>4. CASE b # a
    BY <2>1, <2>2, <2>4
  <2> QED BY <2>3, <2>4
<1>9. \A s \in DOMAIN tree : new[s].child = tree[s].child
  BY <1>3, <1>6
<1>10. \A j \in 1 .. Len(way) : new[way[j].node].total = Visits(new[way[j].node])
  BY <1>5
<1>11. \A j \in 1 .. Len(way) : \A b \in Valid(way[j].node) :
              LET s == way[j].node
                  a == way[j].act
              IN  /\ new[s].visits[b] = IF b = a THEN tree[s].visits[b] + 1 ELSE tree[s].visits[b]
                  /\ new[s].losses[b] = IF b = a THEN Dec(tree[s].losses[b]) ELSE tree[s].losses[b]
                  /\ new[s].penalties[b] =
                       IF b = a /\ repeated /\ j = Len(way) THEN tree[s].penalties[b] + 1
                       ELSE tree[s].penalties[b]
  <2> TAKE j \in 1 .. Len(way)
  <2> TAKE b \in Valid(way[j].node)
  <2>1. PICK s : s = way[j].node
    OBVIOUS
  <2>2. PICK a : a = way[j].act
    OBVIOUS
  <2>3. /\ new[s].visits[b] = IF b = a THEN tree[s].visits[b] + 1 ELSE tree[s].visits[b]
        /\ new[s].losses[b] = IF b = a THEN Dec(tree[s].losses[b]) ELSE tree[s].losses[b]
        /\ new[s].penalties[b] =
             IF b = a /\ repeated /\ j = Len(way) THEN tree[s].penalties[b] + 1
             ELSE tree[s].penalties[b]
    BY <1>8, <2>1, <2>2
  <2> QED BY <2>1, <2>2, <2>3
<1> QED BY <1>2, <1>3, <1>7, <1>9, <1>10, <1>11

--------------------------------------------------------------------------------
(* What the operations keep of a tree and of the paths in it. *)

LEMMA WayKept ==
  ASSUME NEW tree, Typed(tree), NEW way, IsWay(tree, way), NEW new,
         DOMAIN tree \subseteq DOMAIN new,
         \A t \in DOMAIN tree : \A b \in Valid(t) :
           tree[t].child[b] # Nil => new[t].child[b] = tree[t].child[b]
  PROVE  IsWay(new, way)
<1>1. ASSUME NEW i \in 1 .. Len(way) - 1
      PROVE  new[way[i].node].child[way[i].act] = way[i + 1].node
  <2>1. Len(way) \in Nat
    BY LenProperties DEF IsWay
  <2>2. i \in 1 .. Len(way) /\ i + 1 \in 1 .. Len(way)
    BY <2>1
  <2>3. /\ way[i].node \in DOMAIN tree /\ way[i].act \in Valid(way[i].node)
        /\ way[i + 1].node \in States /\ tree[way[i].node].child[way[i].act] = way[i + 1].node
    BY <2>2 DEF IsWay, Typed
  <2> QED BY <2>3, MctsAssumption
<1>2. /\ \A i \in 1 .. Len(way) : way[i].node \in DOMAIN new /\ way[i].act \in Valid(way[i].node)
      /\ \A i, j \in 1 .. Len(way) : i # j => way[i].node # way[j].node
      /\ way \in Seq([node : States, act : Actions])
  BY DEF IsWay
<1> QED BY <1>1, <1>2 DEF IsWay

LEMMA EmptyWay ==
  ASSUME NEW tree
  PROVE  IsWay(tree, <<>>) /\ Len(<<>>) = 0
<1>1. Len(<<>>) = 0 /\ <<>> \in Seq([node : States, act : Actions])
  BY EmptySeq
<1>2. 1 .. 0 = {} /\ 1 .. 0 - 1 = {}
  OBVIOUS
<1> QED BY <1>1, <1>2 DEF IsWay

LEMMA FinalEdge ==
  ASSUME NEW tree, Typed(tree), NEW way, IsWay(tree, way), way # <<>>
  PROVE  /\ Len(way) \in 1 .. Len(way)
         /\ Final(way).node \in DOMAIN tree /\ Final(way).act \in Valid(Final(way).node)
         /\ Final(way).node \in States /\ Final(way).act \in Actions
         /\ Target(way) \in States
<1>1. Len(way) \in Nat /\ Len(way) # 0
  BY LenProperties, EmptySeq DEF IsWay
<1>2. Len(way) \in 1 .. Len(way)
  BY <1>1
<1>3. way[Len(way)].node \in DOMAIN tree /\ way[Len(way)].act \in Valid(way[Len(way)].node)
  BY <1>2 DEF IsWay
<1> QED BY <1>2, <1>3, MctsAssumption DEF Final, Target, Typed, Valid

LEMMA NewNodeKept ==
  ASSUME NEW tree, Typed(tree), Closed(tree), Cyclic(tree), NEW s \in States
  PROVE  /\ Typed(WithNode(tree, s)) /\ Closed(WithNode(tree, s)) /\ Cyclic(WithNode(tree, s))
         /\ s \in DOMAIN WithNode(tree, s)
         /\ \A way : IsWay(tree, way) => IsWay(WithNode(tree, s), way)
<1> DEFINE new == WithNode(tree, s)
<1>1. /\ Typed(new) /\ DOMAIN new = DOMAIN tree \cup {s}
      /\ \A t \in DOMAIN tree : new[t] = tree[t]
      /\ s \notin DOMAIN tree => new[s] = NewNode(s)
  BY WithNodeTree
<1> HIDE DEF new
<1>2. s \notin DOMAIN tree => \A a \in Valid(s) :
        new[s].child[a] = Nil /\ new[s].visits[a] = 0 /\ new[s].penalties[a] = 0
  BY <1>1 DEF NewNode
<1>3. Closed(new) /\ Cyclic(new)
  BY <1>1, <1>2 DEF Closed, Cyclic
<1>4. \A way : IsWay(tree, way) => IsWay(new, way)
  BY <1>1, WayKept
<1> QED BY <1>1, <1>3, <1>4 DEF new

LEMMA ExpandedKept ==
  ASSUME NEW tree, Typed(tree), Closed(tree), Cyclic(tree), NEW way, IsWay(tree, way), way # <<>>,
         NEW new, new = Expanded(tree, Final(way).node, Final(way).act, Target(way))
  PROVE  /\ Typed(new) /\ Closed(new) /\ Cyclic(new) /\ DOMAIN tree \subseteq DOMAIN new
         /\ new[Final(way).node].child[Final(way).act] # Nil
         /\ \A w : IsWay(tree, w) => IsWay(new, w)
<1>0. PICK s \in DOMAIN tree : s = Final(way).node
  BY FinalEdge
<1>1. PICK a \in Valid(s) : a = Final(way).act
  BY <1>0, FinalEdge
<1>2. PICK leaf : leaf = Target(way)
  OBVIOUS
<1>3. leaf = Succ[s][a] /\ new = Expanded(tree, s, a, leaf)
  BY <1>0, <1>1, <1>2 DEF Target
<1>4. /\ Typed(new) /\ DOMAIN new = DOMAIN tree \cup {leaf}
      /\ \A t \in DOMAIN tree :
           /\ new[t].visits = tree[t].visits /\ new[t].losses = tree[t].losses
           /\ new[t].penalties = tree[t].penalties /\ new[t].total = tree[t].total
           /\ \A b \in Valid(t) :
                \/ new[t].child[b] = tree[t].child[b]
                \/ tree[t].child[b] = Nil /\ t = s /\ b = a /\ new[t].child[b] = leaf
      /\ new[s].child[a] # Nil
      /\ leaf \notin DOMAIN tree => new[leaf] = NewNode(leaf)
  <2>1. GrownBy(tree, s, a, leaf, new)
    BY <1>3, ExpandedTree
  <2> QED BY <2>1 DEF GrownBy
<1>5. leaf \notin DOMAIN tree => \A b \in Valid(leaf) :
        new[leaf].child[b] = Nil /\ new[leaf].visits[b] = 0 /\ new[leaf].penalties[b] = 0
  BY <1>4 DEF NewNode
<1>6. Closed(new)
  <2> SUFFICES ASSUME NEW t \in DOMAIN new, NEW b \in Valid(t)
               PROVE  /\ new[t].child[b] # Nil =>
                           new[t].child[b] = Succ[t][b] /\ Succ[t][b] \in DOMAIN new
                      /\ new[t].visits[b] > 0 => new[t].child[b] # Nil
    BY DEF Closed
  <2>1. CASE t \notin DOMAIN tree
    BY <1>4, <1>5, <2>1
  <2>2. CASE t \in DOMAIN tree
    <3>1. /\ tree[t].child[b] # Nil => tree[t].child[b] = Succ[t][b] /\ Succ[t][b] \in DOMAIN tree
          /\ tree[t].visits[b] > 0 => tree[t].child[b] # Nil
      BY <2>2 DEF Closed
    <3>2. new[t].visits = tree[t].visits
      BY <1>4, <2>2
    <3>3. CASE new[t].child[b] = tree[t].child[b]
      BY <1>4, <3>1, <3>2, <3>3
    <3>4. CASE tree[t].child[b] = Nil /\ t = s /\ b = a /\ new[t].child[b] = leaf
      BY <1>3, <1>4, <3>1, <3>2, <3>4
    <3> QED BY <1>4, <2>2, <3>3, <3>4
  <2> QED BY <2>1, <2>2
<1>7. Cyclic(new)
  BY <1>4, <1>5 DEF Cyclic
<1>8. \A w : IsWay(tree, w) => IsWay(new, w)
  <2>1. \A t \in DOMAIN tree : \A b \in Valid(t) :
          tree[t].child[b] # Nil => new[t].child[b] = tree[t].child[b]
    BY <1>4
  <2> QED BY <1>4, <2>1, WayKept
<1> QED BY <1>0, <1>1, <1>2, <1>4, <1>6, <1>7, <1>8

(* A path is backed up when its last edge has a child.                       *)
LEMMA BackedUpKept ==
  ASSUME NEW tree, Typed(tree), Closed(tree), Cyclic(tree), NEW way, IsWay(tree, way), way # <<>>,
         tree[Final(way).node].child[Final(way).act] # Nil,
         NEW repeated \in BOOLEAN, repeated => Final(way).node \in EnvReach(Target(way)),
         NEW new, new = BackedUp(tree, way, repeated)
  PROVE  /\ Typed(new) /\ Closed(new) /\ Cyclic(new)
         /\ \A w : IsWay(tree, w) => IsWay(new, w)
<1>0. Len(way) \in Nat /\ Len(way) \in 1 .. Len(way)
  BY FinalEdge, LenProperties DEF IsWay
<1>1. /\ Typed(new) /\ DOMAIN new = DOMAIN tree
      /\ \A s \in DOMAIN tree : new[s].child = tree[s].child
      /\ \A s \in DOMAIN tree : ~OnWay(way, s) => new[s] = tree[s]
  BY BackedUpTree
<1>2. ASSUME NEW j \in 1 .. Len(way), NEW b \in Valid(way[j].node), NEW s, s = way[j].node
      PROVE  /\ new[s].visits[b] = IF b = way[j].act THEN tree[s].visits[b] + 1
                                   ELSE tree[s].visits[b]
             /\ new[s].penalties[b] =
                  IF b = way[j].act /\ repeated /\ j = Len(way) THEN tree[s].penalties[b] + 1
                  ELSE tree[s].penalties[b]
             /\ s \in DOMAIN tree
  <2>1. s \in DOMAIN tree
    BY <1>2 DEF IsWay
  <2> QED BY <1>2, <2>1, BackedUpTree
<1>3. \A j \in 1 .. Len(way) : tree[way[j].node].child[way[j].act] # Nil
  <2> SUFFICES ASSUME NEW j \in 1 .. Len(way) PROVE tree[way[j].node].child[way[j].act] # Nil
    OBVIOUS
  <2>1. CASE j = Len(way)
    BY <2>1 DEF Final
  <2>2. CASE j # Len(way)
    <3>1. j \in 1 .. Len(way) - 1 /\ j + 1 \in 1 .. Len(way)
      BY <1>0, <2>2
    <3>2. tree[way[j].node].child[way[j].act] = way[j + 1].node /\ way[j + 1].node \in States
      BY <3>1 DEF IsWay, Typed
    <3> QED BY <3>2, MctsAssumption
  <2> QED BY <2>1, <2>2
<1>4. ASSUME NEW s \in DOMAIN tree, NEW b \in Valid(s)
      PROVE  /\ new[s].visits[b] > 0 => tree[s].visits[b] > 0 \/ tree[s].child[b] # Nil
             /\ new[s].penalties[b] > 0 => tree[s].penalties[b] > 0 \/ s \in EnvReach(Succ[s][b])
  <2>1. CASE ~OnWay(way, s)
    BY <1>1, <2>1
  <2>2. CASE OnWay(way, s)
    <3>1. PICK j \in 1 .. Len(way) : way[j].node = s
      BY <2>2 DEF OnWay
    <3>2. /\ new[s].visits[b] = IF b = way[j].act THEN tree[s].visits[b] + 1 ELSE tree[s].visits[b]
          /\ new[s].penalties[b] =
               IF b = way[j].act /\ repeated /\ j = Len(way) THEN tree[s].penalties[b] + 1
               ELSE tree[s].penalties[b]
      BY <1>2, <3>1
    <3>3. b = way[j].act => tree[s].child[b] # Nil
      BY <1>3, <3>1
    <3>4. b = way[j].act /\ repeated /\ j = Len(way) => s \in EnvReach(Succ[s][b])
      BY <3>1 DEF Final, Target
    <3> QED BY <3>2, <3>3, <3>4
  <2> QED BY <2>1, <2>2
<1>5. Closed(new) /\ Cyclic(new)
  BY <1>1, <1>4 DEF Closed, Cyclic
<1>6. \A w : IsWay(tree, w) => IsWay(new, w)
  BY <1>1, WayKept
<1> QED BY <1>1, <1>5, <1>6

(* A virtual loss. *)
OneMoreLoss(tree, s, a) == [tree EXCEPT ![s].losses[a] = @ + 1]

LEMMA LossKept ==
  ASSUME NEW tree, Typed(tree), NEW s \in DOMAIN tree, NEW a \in Valid(s), NEW new,
         new = OneMoreLoss(tree, s, a)
  PROVE  /\ Typed(new) /\ DOMAIN new = DOMAIN tree
         /\ \A t \in DOMAIN tree :
              /\ new[t].child = tree[t].child /\ new[t].visits = tree[t].visits
              /\ new[t].penalties = tree[t].penalties /\ new[t].total = tree[t].total
              /\ \A b \in Valid(t) : new[t].losses[b] = IF t = s /\ b = a THEN tree[t].losses[b] + 1
                                                       ELSE tree[t].losses[b]
         /\ Closed(tree) => Closed(new)
         /\ Cyclic(tree) => Cyclic(new)
         /\ \A w : IsWay(tree, w) => IsWay(new, w)
<1>1. /\ DOMAIN new = DOMAIN tree /\ new = [t \in DOMAIN new |-> new[t]]
      /\ \A t \in DOMAIN tree : t # s => new[t] = tree[t]
  BY DEF OneMoreLoss
<1>2. PICK n \in NodeType(s) : n = tree[s]
  BY DEF Typed
<1>3. PICK m : m = new[s]
  OBVIOUS
<1>4. m = [n EXCEPT !.losses[a] = @ + 1]
  BY <1>2, <1>3 DEF OneMoreLoss
<1>5. /\ m.child = n.child /\ m.visits = n.visits /\ m.penalties = n.penalties
      /\ m.total = n.total /\ m.losses = [n.losses EXCEPT ![a] = n.losses[a] + 1]
  BY <1>4 DEF NodeType
<1>6. m = [child |-> m.child, visits |-> m.visits, losses |-> m.losses,
           penalties |-> m.penalties, total |-> m.total]
  BY <1>4 DEF NodeType
<1>7. n.losses \in [Valid(s) -> Nat]
  BY DEF NodeType
<1>8. m.losses \in [Valid(s) -> Nat]
  BY <1>5, <1>7
<1>9. m \in NodeType(s)
  BY <1>5, <1>6, <1>8 DEF NodeType
<1>10. Typed(new)
  BY <1>1, <1>3, <1>9 DEF Typed
<1>11. \A t \in DOMAIN tree :
         /\ new[t].child = tree[t].child /\ new[t].visits = tree[t].visits
         /\ new[t].penalties = tree[t].penalties /\ new[t].total = tree[t].total
  BY <1>1, <1>2, <1>3, <1>5
<1>12. \A b \in Valid(s) : new[s].losses[b] = IF b = a THEN tree[s].losses[b] + 1
                                              ELSE tree[s].losses[b]
  BY <1>2, <1>3, <1>5, <1>7
<1>13. (Closed(tree) => Closed(new)) /\ (Cyclic(tree) => Cyclic(new))
  BY <1>1, <1>11 DEF Closed, Cyclic
<1>14. \A w : IsWay(tree, w) => IsWay(new, w)
  BY <1>1, <1>11, WayKept
<1> QED BY <1>1, <1>10, <1>11, <1>12, <1>13, <1>14

(* What advance_root keeps is closed under children. *)
LEMMA KeptTree ==
  ASSUME NEW tree, Typed(tree), Closed(tree), Cyclic(tree), NEW r \in DOMAIN tree,
         NEW new, new = Kept(tree, r)
  PROVE  /\ Typed(new) /\ Closed(new) /\ Cyclic(new) /\ r \in DOMAIN new
         /\ DOMAIN new \subseteq DOMAIN tree /\ \A s \in DOMAIN new : new[s] = tree[s]
<1>1. /\ DOMAIN new = Reachable(tree, r) /\ new = [s \in DOMAIN new |-> new[s]]
      /\ \A s \in Reachable(tree, r) : new[s] = tree[s]
  BY DEF Kept
<1>2. Reachable(tree, r) \subseteq DOMAIN tree /\ r \in Reachable(tree, r)
  BY DEF Reachable
<1>3. ASSUME NEW s \in Reachable(tree, r), NEW a \in Valid(s), tree[s].child[a] # Nil
      PROVE  Succ[s][a] \in Reachable(tree, r)
  <2>1. tree[s].child[a] = Succ[s][a] /\ Succ[s][a] \in DOMAIN tree
    BY <1>2, <1>3 DEF Closed
  <2>2. Succ[s][a] \in Kids(tree, s)
    BY <1>3, <2>1 DEF Kids
  <2> QED BY <2>1, <2>2 DEF Reachable
<1>4. Typed(new)
  BY <1>1, <1>2 DEF Typed
<1>5. Closed(new) /\ Cyclic(new)
  BY <1>1, <1>2, <1>3 DEF Closed, Cyclic
<1> QED BY <1>1, <1>2, <1>4, <1>5

LEMMA EnvReachSteps ==
  ASSUME NEW s \in States
  PROVE  /\ s \in EnvReach(s) /\ EnvReach(s) \subseteq States
         /\ \A t \in EnvReach(s) : \A a \in Valid(t) : Succ[t][a] \in EnvReach(s)
<1>1. \A t \in States : \A a \in Valid(t) : Succ[t][a] \in States
  BY MctsAssumption DEF Valid
<1> QED BY <1>1 DEF EnvReach

--------------------------------------------------------------------------------
(* The arena and its table: insert_node and the compaction. *)

LEMMA EmptyNumbered == Numbered(<<>>, Unindexed) /\ DOMAIN Unindexed = {}
<1>1. <<>> \in Seq(States) /\ Len(<<>>) = 0
  BY EmptySeq
<1>2. \A i \in 1 .. Len(<<>>) : FALSE
  BY <1>1
<1> QED BY <1>1, <1>2 DEF Numbered, Unindexed

LEMMA InsertNumbered ==
  ASSUME NEW ids, NEW at, Numbered(ids, at), NEW s \in States, s \notin DOMAIN at
  PROVE  /\ Numbered(Append(ids, s), Indexed(at, ids, s))
         /\ DOMAIN Indexed(at, ids, s) = DOMAIN at \cup {s}
<1>a. PICK more : more = Append(ids, s)
  OBVIOUS
<1>b. PICK new : new = Indexed(at, ids, s)
  OBVIOUS
<1>1. PICK n \in Nat : n = Len(ids)
  BY LenProperties DEF Numbered
<1>2. /\ more \in Seq(States) /\ Len(more) = n + 1 /\ more[n + 1] = s
      /\ \A i \in 1 .. n : more[i] = ids[i]
  BY <1>a, <1>1, AppendProperties DEF Numbered
<1>3. /\ DOMAIN new = DOMAIN at \cup {s} /\ new[s] = n + 1
      /\ \A t \in DOMAIN at : new[t] = at[t]
  BY <1>b, <1>1 DEF Indexed
<1>4. /\ \A i \in 1 .. n : ids[i] \in DOMAIN at /\ at[ids[i]] = i
      /\ \A t \in DOMAIN at : at[t] \in 1 .. n /\ ids[at[t]] = t
  BY <1>1 DEF Numbered
<1>5. \A i \in 1 .. n + 1 : i \in 1 .. n \/ i = n + 1
  OBVIOUS
<1>6. \A i \in 1 .. n + 1 : more[i] \in DOMAIN new /\ new[more[i]] = i
  <2> SUFFICES ASSUME NEW i \in 1 .. n + 1
               PROVE  more[i] \in DOMAIN new /\ new[more[i]] = i
    OBVIOUS
  <2>1. CASE i \in 1 .. n
    <3>1. more[i] = ids[i] /\ ids[i] \in DOMAIN at /\ at[ids[i]] = i
      BY <1>2, <1>4, <2>1
    <3> QED BY <1>3, <3>1
  <2>2. CASE i = n + 1
    BY <1>2, <1>3, <2>2
  <2> QED BY <1>5, <2>1, <2>2
<1>7. 1 .. n \subseteq 1 .. n + 1 /\ n + 1 \in 1 .. n + 1
  OBVIOUS
<1>8. \A t \in DOMAIN new : new[t] \in 1 .. n + 1 /\ more[new[t]] = t
  <2> SUFFICES ASSUME NEW t \in DOMAIN new
               PROVE  new[t] \in 1 .. n + 1 /\ more[new[t]] = t
    OBVIOUS
  <2>1. CASE t = s
    BY <1>2, <1>3, <1>7, <2>1
  <2>2. CASE t # s
    <3>1. t \in DOMAIN at /\ new[t] = at[t] /\ at[t] \in 1 .. n /\ ids[at[t]] = t
      BY <1>3, <1>4, <2>2
    <3> QED BY <1>2, <1>7, <3>1
  <2> QED BY <2>1, <2>2
<1>9. Numbered(more, new)
  BY <1>2, <1>6, <1>8 DEF Numbered
<1> QED BY <1>a, <1>b, <1>3, <1>9

LEMMA InsertKeeps ==
  ASSUME Numbered(arena, table), DOMAIN table = DOMAIN nodes, NEW s \in States, Insert(s)
  PROVE  Numbered(arena', table') /\ DOMAIN table' = DOMAIN nodes \cup {s}
<1>1. CASE s \in DOMAIN nodes
  <2>1. arena' = arena /\ table' = table
    BY <1>1 DEF Insert, Exists, index
  <2> QED BY <1>1, <2>1
<1>2. CASE s \notin DOMAIN nodes
  <2>1. arena' = Append(arena, s) /\ table' = Indexed(table, arena, s)
    BY <1>2 DEF Insert, Exists
  <2>2. Numbered(Append(arena, s), Indexed(table, arena, s))
        /\ DOMAIN Indexed(table, arena, s) = DOMAIN table \cup {s}
    BY <1>2, InsertNumbered
  <2> QED BY <2>1, <2>2
<1> QED BY <1>1, <1>2

(* Entries and indices are as many.                                          *)
LEMMA NumberedLength ==
  ASSUME NEW ids, NEW at, Numbered(ids, at)
  PROVE  Len(ids) = Cardinality(DOMAIN at)
<1>1. PICK n \in Nat : n = Len(ids)
  BY LenProperties DEF Numbered
<1>2. IsFiniteSet(1 .. n) /\ Cardinality(1 .. n) = n
  <2>1. IsFiniteSet(1 .. n) /\ Cardinality(1 .. n) = IF 1 > n THEN 0 ELSE n - 1 + 1
    BY FS_Interval
  <2> QED BY <2>1
<1> DEFINE f == [i \in 1 .. n |-> ids[i]]
<1>3. /\ f \in [1 .. n -> DOMAIN at]
      /\ \A i, j \in 1 .. n : f[i] = f[j] => i = j
      /\ \A s \in DOMAIN at : \E i \in 1 .. n : f[i] = s
  BY <1>1 DEF Numbered
<1>4. f \in Bijection(1 .. n, DOMAIN at)
  <2> HIDE DEF f
  <2> QED BY <1>3, Fun_IsBij
<1>5. ExistsBijection(1 .. n, DOMAIN at)
  <2> HIDE DEF f
  <2> QED BY <1>4, Fun_ExistsBij
<1> QED BY <1>1, <1>2, <1>5, FS_Bijection

(* One entry of the old arena is dropped, or moves to the new one.           *)
LEMMA MovedTail ==
  ASSUME NEW reach, NEW old, NEW ids, NEW at, Moved(reach, old, ids, at), old # <<>>
  PROVE  IF Head(old) \in reach
         THEN Moved(reach, Tail(old), Append(ids, Head(old)), Indexed(at, ids, Head(old)))
         ELSE Moved(reach, Tail(old), ids, at)
<1>a. PICK id : id = Head(old)
  OBVIOUS
<1>b. PICK rest : rest = Tail(old)
  OBVIOUS
<1>1. PICK n \in Nat : n = Len(old)
  BY LenProperties DEF Moved
<1>2. /\ n # 0 /\ id = old[1] /\ rest \in Seq(States) /\ Len(rest) = n - 1
      /\ id \in States /\ \A i \in 1 .. n - 1 : rest[i] = old[i + 1]
  BY <1>a, <1>b, <1>1, EmptySeq, HeadTailProperties DEF Moved
<1>3. 1 \in 1 .. n /\ \A i \in 1 .. n - 1 : i + 1 \in 1 .. n /\ i + 1 # 1
  BY <1>2
<1>4. /\ \A i, j \in 1 .. n : i # j => old[i] # old[j]
      /\ \A i \in 1 .. n : old[i] \notin DOMAIN at
  BY <1>1 DEF Moved
<1>5. id \notin DOMAIN at
  BY <1>2, <1>3, <1>4
<1>6. \A i \in 1 .. n - 1 : rest[i] # id /\ rest[i] \notin DOMAIN at
  BY <1>2, <1>3, <1>4
<1>7. \A i, j \in 1 .. n - 1 : i # j => rest[i] # rest[j]
  <2> SUFFICES ASSUME NEW i \in 1 .. n - 1, NEW j \in 1 .. n - 1, i # j
               PROVE  rest[i] # rest[j]
    OBVIOUS
  <2>1. i + 1 # j + 1
    OBVIOUS
  <2> QED BY <1>2, <1>3, <1>4, <2>1
<1>8. Listed(old) \subseteq Listed(rest) \cup {id}
  <2> SUFFICES ASSUME NEW i \in 1 .. n PROVE old[i] \in Listed(rest) \cup {id}
    BY <1>1 DEF Listed
  <2>1. CASE i = 1
    BY <1>2, <2>1
  <2>2. CASE i # 1
    <3>1. i - 1 \in 1 .. n - 1 /\ (i - 1) + 1 = i
      BY <2>2
    <3> QED BY <1>2, <3>1 DEF Listed
  <2> QED BY <2>1, <2>2
<1>9. ASSUME id \notin reach PROVE Moved(reach, rest, ids, at)
  BY <1>2, <1>6, <1>7, <1>8, <1>9 DEF Moved
<1>10. ASSUME id \in reach PROVE Moved(reach, rest, Append(ids, id), Indexed(at, ids, id))
  <2>1. Numbered(Append(ids, id), Indexed(at, ids, id))
    <3>1. Numbered(ids, at) /\ id \in States
      BY <1>2 DEF Moved
    <3> QED BY <1>5, <3>1, InsertNumbered
  <2>2. DOMAIN Indexed(at, ids, id) = DOMAIN at \cup {id}
    BY DEF Indexed
  <2> QED BY <1>2, <1>6, <1>7, <1>8, <1>10, <2>1, <2>2 DEF Moved
<1> QED BY <1>a, <1>b, <1>9, <1>10

LEMMA MovedAll ==
  ASSUME NEW reach, NEW ids, NEW at, Moved(reach, <<>>, ids, at)
  PROVE  Numbered(ids, at) /\ DOMAIN at = reach
<1>1. Listed(<<>>) = {}
  <2>1. Len(<<>>) = 0
    BY EmptySeq
  <2>2. \A i \in 1 .. Len(<<>>) : FALSE
    BY <2>1
  <2> QED BY <2>2 DEF Listed
<1> QED BY <1>1 DEF Moved

(* From here on the records of what was found are found, and no others.      *)
LEMMA EndPruneKeeps ==
  ASSUME Pruning, EndPrune
  PROVE  /\ nodes' = Kept(nodes, root) /\ Numbered(kept, keptTable)
         /\ DOMAIN keptTable = DOMAIN nodes'
<1>1. Moved(found, <<>>, kept, keptTable) /\ found = Reachable(nodes, root)
  BY DEF Pruning, EndPrune
<1>2. Numbered(kept, keptTable) /\ DOMAIN keptTable = Reachable(nodes, root)
  BY <1>1, MovedAll
<1>3. DOMAIN kept = 1 .. Len(kept)
  BY <1>2, LenProperties DEF Numbered
<1>4. {t \in DOMAIN keptTable : keptTable[t] \in DOMAIN kept} = Reachable(nodes, root)
  BY <1>2, <1>3 DEF Numbered
<1>5. \A s \in Reachable(nodes, root) : nodes[kept[keptTable[s]]] = nodes[s]
  BY <1>2 DEF Numbered
<1>6. nodes' = [id \in {t \in DOMAIN keptTable : keptTable[t] \in DOMAIN kept} |->
                nodes[kept[keptTable[id]]]]
  BY DEF EndPrune
<1>7. nodes' = [s \in Reachable(nodes, root) |-> nodes[s]]
  BY <1>4, <1>5, <1>6
<1> QED BY <1>2, <1>7 DEF Kept

(* The breadth-first search of advance_root. *)

LEMMA ReachableClosed ==
  ASSUME NEW tree, Closed(tree), NEW r \in DOMAIN tree
  PROVE  /\ r \in Reachable(tree, r) /\ Reachable(tree, r) \subseteq DOMAIN tree
         /\ \A s \in Reachable(tree, r) : Kids(tree, s) \subseteq Reachable(tree, r)
<1>1. \A s \in DOMAIN tree : Kids(tree, s) \subseteq DOMAIN tree
  BY DEF Closed, Kids
<1> QED BY <1>1 DEF Reachable

LEMMA FrontierTail ==
  ASSUME NEW tree, NEW r, NEW reach, NEW q, Frontier(tree, r, reach, q), q # <<>>,
         Head(q) \in reach, NEW rest, rest = Tail(q)
  PROVE  Frontier(tree, r, reach, rest)
<1>1. PICK n \in Nat : n = Len(q)
  BY LenProperties DEF Frontier
<1>2. /\ n # 0 /\ Head(q) = q[1] /\ rest \in Seq(Reachable(tree, r)) /\ Len(rest) = n - 1
      /\ \A i \in 1 .. n - 1 : rest[i] = q[i + 1]
  BY <1>1, EmptySeq, HeadTailProperties DEF Frontier
<1>3. Listed(q) \subseteq Listed(rest) \cup reach
  <2> SUFFICES ASSUME NEW i \in 1 .. n PROVE q[i] \in Listed(rest) \cup reach
    BY <1>1 DEF Listed
  <2>1. CASE i = 1
    BY <1>2, <2>1
  <2>2. CASE i # 1
    <3>1. i - 1 \in 1 .. n - 1 /\ (i - 1) + 1 = i
      BY <2>2
    <3> QED BY <1>2, <3>1 DEF Listed
  <2> QED BY <2>1, <2>2
<1> QED BY <1>2, <1>3 DEF Frontier

(* A node is searched: its children that were not found go to the queue.     *)
LEMMA FrontierVisit ==
  ASSUME NEW tree, Typed(tree), Closed(tree), NEW r \in DOMAIN tree, NEW reach, NEW q,
         Frontier(tree, r, reach, q), q # <<>>, NEW n \in Nat, NEW push,
         push \in [1 .. n -> Kids(tree, Head(q))],
         \A t \in Kids(tree, Head(q)) :
            t \in reach \cup {Head(q)} \/ \E i \in 1 .. n : push[i] = t
  PROVE  Frontier(tree, r, reach \cup {Head(q)}, Tail(q) \o push)
<1> DEFINE S == Reachable(tree, r)
<1>a. PICK id : id = Head(q)
  OBVIOUS
<1>b. PICK more : more = reach \cup {id}
  OBVIOUS
<1>c. PICK longer : longer = Tail(q) \o push
  OBVIOUS
<1>1. PICK m \in Nat : m = Len(q)
  BY LenProperties DEF Frontier
<1>2. PICK rest : rest = Tail(q)
  OBVIOUS
<1>3. /\ m # 0 /\ id = q[1] /\ id \in S /\ rest \in Seq(S) /\ Len(rest) = m - 1
      /\ \A i \in 1 .. m - 1 : rest[i] = q[i + 1]
  BY <1>a, <1>1, <1>2, EmptySeq, HeadTailProperties DEF Frontier
<1>4. Kids(tree, id) \subseteq S
  BY <1>3, ReachableClosed
<1>5. push \in Seq(S) /\ Len(push) = n
  BY <1>a, <1>4
<1>6. PICK k \in Nat : k = m - 1
  BY <1>3
<1>7. /\ longer \in Seq(S) /\ Len(longer) = k + n
      /\ \A i \in 1 .. k + n : longer[i] = IF i <= k THEN rest[i] ELSE push[i - k]
  <2>1. longer = rest \o push /\ rest \in Seq(S) /\ push \in Seq(S)
        /\ Len(rest) = k /\ Len(push) = n
    BY <1>c, <1>2, <1>3, <1>5, <1>6
  <2>2. PICK T : T = S
    OBVIOUS
  <2>3. /\ rest \o push \in Seq(T) /\ Len(rest \o push) = Len(rest) + Len(push)
        /\ \A i \in 1 .. Len(rest) + Len(push) :
             (rest \o push)[i] = IF i <= Len(rest) THEN rest[i] ELSE push[i - Len(rest)]
    <3>1. rest \in Seq(T) /\ push \in Seq(T)
      BY <2>1, <2>2
    <3> HIDE DEF S
    <3> QED BY <3>1, ConcatProperties
  <2> HIDE DEF S
  <2> QED BY <2>1, <2>2, <2>3
<1>8. Listed(q) \subseteq Listed(longer) \cup {id}
  <2> SUFFICES ASSUME NEW i \in 1 .. m PROVE q[i] \in Listed(longer) \cup {id}
    BY <1>1 DEF Listed
  <2>1. CASE i = 1
    BY <1>3, <2>1
  <2>2. CASE i # 1
    <3>1. i - 1 \in 1 .. m - 1 /\ (i - 1) + 1 = i /\ i - 1 \in 1 .. k + n /\ i - 1 <= k
      BY <1>6, <2>2
    <3>2. longer[i - 1] = q[i]
      BY <1>3, <1>7, <3>1
    <3> QED BY <1>7, <3>1, <3>2 DEF Listed
  <2> QED BY <2>1, <2>2
<1>9. \A i \in 1 .. n : push[i] \in Listed(longer)
  <2> SUFFICES ASSUME NEW i \in 1 .. n PROVE push[i] \in Listed(longer)
    OBVIOUS
  <2>1. k + i \in 1 .. k + n /\ ~(k + i <= k) /\ (k + i) - k = i
    OBVIOUS
  <2>2. longer[k + i] = push[i]
    BY <1>7, <2>1
  <2> QED BY <1>7, <2>1, <2>2 DEF Listed
<1>10. Kids(tree, id) \subseteq more \cup Listed(longer)
  BY <1>a, <1>b, <1>9
<1>11. more \subseteq S
  BY <1>b, <1>3 DEF Frontier
<1>12. r \in more \cup Listed(longer)
  BY <1>b, <1>8 DEF Frontier
<1>13. \A s \in more : Kids(tree, s) \subseteq more \cup Listed(longer)
  <2> SUFFICES ASSUME NEW s \in reach PROVE Kids(tree, s) \subseteq more \cup Listed(longer)
    BY <1>b, <1>10
  <2>1. Kids(tree, s) \subseteq reach \cup Listed(q)
    BY DEF Frontier
  <2> QED BY <1>b, <1>8, <2>1
<1>14. Frontier(tree, r, more, longer)
  BY <1>7, <1>11, <1>12, <1>13 DEF Frontier
<1> QED BY <1>a, <1>b, <1>c, <1>14

(* An empty queue: everything was found. *)
LEMMA FrontierEmpty ==
  ASSUME NEW tree, NEW r, NEW reach, Frontier(tree, r, reach, <<>>)
  PROVE  reach = Reachable(tree, r)
<1>1. Listed(<<>>) = {}
  <2>1. Len(<<>>) = 0
    BY EmptySeq
  <2>2. \A i \in 1 .. Len(<<>>) : FALSE
    BY <2>1
  <2> QED BY <2>2 DEF Listed
<1>2. reach \subseteq Reachable(tree, r) /\ r \in reach /\ \A s \in reach : Kids(tree, s) \subseteq reach
  BY <1>1 DEF Frontier
<1>3. reach \subseteq DOMAIN tree
  BY <1>2 DEF Reachable
<1> QED BY <1>2, <1>3 DEF Reachable

--------------------------------------------------------------------------------
(* The tree and the paths, step by step. *)

Longer(way, s, a) == Append(way, [node |-> s, act |-> a])

LEMMA WayExtended ==
  ASSUME NEW tree, Typed(tree), NEW way, IsWay(tree, way), NEW s \in DOMAIN tree,
         NEW a \in Valid(s), \A i \in 1 .. Len(way) : way[i].node # s,
         way # <<>> => tree[Final(way).node].child[Final(way).act] = s,
         NEW longer, longer = Longer(way, s, a)
  PROVE  /\ IsWay(tree, longer) /\ longer # <<>>
         /\ Len(way) \in Nat /\ Len(longer) = Len(way) + 1
         /\ Final(longer) = [node |-> s, act |-> a]
         /\ \A i \in 1 .. Len(way) : longer[i] = way[i]
         /\ longer[Len(way) + 1] = [node |-> s, act |-> a]
<1>1. PICK n \in Nat : n = Len(way)
  BY LenProperties DEF IsWay
<1>2. PICK e : e = [node |-> s, act |-> a]
  OBVIOUS
<1>3. e \in [node : States, act : Actions] /\ e.node = s /\ e.act = a
  BY <1>2, MctsAssumption DEF Typed, Valid
<1>4. /\ longer \in Seq([node : States, act : Actions]) /\ Len(longer) = n + 1
      /\ \A i \in 1 .. n : longer[i] = way[i]
      /\ longer[n + 1] = e
  BY <1>1, <1>2, <1>3, AppendProperties DEF IsWay, Longer
<1>5. \A i \in 1 .. n + 1 : i \in 1 .. n \/ i = n + 1
  OBVIOUS
<1>6. longer # <<>>
  BY <1>4, EmptySeq
<1>7. \A i \in 1 .. n + 1 :
        longer[i].node \in DOMAIN tree /\ longer[i].act \in Valid(longer[i].node)
  BY <1>1, <1>3, <1>4, <1>5 DEF IsWay
<1>8. \A i, j \in 1 .. n + 1 : i # j => longer[i].node # longer[j].node
  <2>1. \A i, j \in 1 .. n : i # j => way[i].node # way[j].node
    BY <1>1 DEF IsWay
  <2> QED BY <1>1, <1>3, <1>4, <1>5, <2>1
<1>9. \A i \in 1 .. n + 1 - 1 : tree[longer[i].node].child[longer[i].act] = longer[i + 1].node
  <2> SUFFICES ASSUME NEW i \in 1 .. n
               PROVE  tree[longer[i].node].child[longer[i].act] = longer[i + 1].node
    <3>1. 1 .. n + 1 - 1 = 1 .. n
      OBVIOUS
    <3> QED BY <3>1
  <2>1. CASE i = n
    <3>1. way # <<>>
      BY <1>1, <2>1, EmptySeq
    <3> QED BY <1>1, <1>3, <1>4, <2>1, <3>1 DEF Final
  <2>2. CASE i # n
    <3>1. i \in 1 .. n - 1 /\ i + 1 \in 1 .. n
      BY <2>2
    <3> QED BY <1>1, <1>4, <3>1 DEF IsWay
  <2> QED BY <2>1, <2>2
<1>10. IsWay(tree, longer)
  BY <1>4, <1>7, <1>8, <1>9 DEF IsWay
<1> QED BY <1>1, <1>2, <1>4, <1>6, <1>10 DEF Final

LEMMA PathDomain ==
  ASSUME Searching
  PROVE  DOMAIN path = 1 .. Len(path) /\ Len(path) \in Nat /\ (path # <<>> <=> Len(path) # 0)
BY LenProperties, EmptySeq DEF Searching, IsWay

(* The path whose batched answer is next. *)
LEMMA FirstPending ==
  ASSUME Waiting, pending # <<>>
  PROVE  /\ IsWay(nodes, Head(pending).way) /\ Head(pending).way # <<>>
         /\ Head(pending).leaf = Target(Head(pending).way)
         /\ Head(pending) = pending[1]
         /\ Len(pending) \in Nat /\ 1 \in 1 .. Len(pending)
         /\ Len(Tail(pending)) = Len(pending) - 1
         /\ \A i \in 1 .. Len(pending) - 1 : Tail(pending)[i] = pending[i + 1]
<1>1. Head(pending) = pending[1] /\ Len(pending) \in Nat /\ Len(pending) # 0
  BY EmptySeq, LenProperties DEF Waiting
<1>2. 1 \in 1 .. Len(pending)
  BY <1>1
<1>3. /\ Len(Tail(pending)) = Len(pending) - 1
      /\ \A i \in 1 .. Len(pending) - 1 : Tail(pending)[i] = pending[i + 1]
  BY <1>1, HeadTailProperties DEF Waiting
<1> QED BY <1>1, <1>2, <1>3 DEF Waiting

(* What expanding a leaf does to the domain. *)
LEMMA ExpandedDomain ==
  ASSUME TreeInv, NEW way, IsWay(nodes, way), way # <<>>, NEW leaf, leaf = Target(way),
         NEW grown, grown = Expanded(nodes, Final(way).node, Final(way).act, leaf)
  PROVE  leaf \in States /\ DOMAIN grown = DOMAIN nodes \cup {leaf}
<1>1. Final(way).node \in DOMAIN nodes /\ Final(way).act \in Valid(Final(way).node)
  BY FinalEdge DEF TreeInv
<1>2. PICK u \in DOMAIN nodes : u = Final(way).node
  BY <1>1
<1>3. PICK a \in Valid(u) : a = Final(way).act
  BY <1>1, <1>2
<1>4. leaf = Succ[u][a] /\ grown = Expanded(nodes, u, a, leaf)
  BY <1>2, <1>3 DEF Target
<1>5. DOMAIN grown = DOMAIN nodes \cup {leaf}
  <2>1. GrownBy(nodes, u, a, leaf, grown)
    BY <1>4, ExpandedTree DEF TreeInv
  <2> QED BY <2>1 DEF GrownBy
<1>6. leaf \in States
  BY <1>4, MctsAssumption DEF TreeInv, Typed, Valid
<1> QED BY <1>5, <1>6

Grows == DOMAIN nodes \subseteq DOMAIN nodes' /\ \A w : IsWay(nodes, w) => IsWay(nodes', w)

LEMMA TreeNext ==
  ASSUME TreeInv, Searching, Waiting, Pruning, [Next]_vars
  PROVE  TreeInv' /\ (Grows \/ EndPrune)
<1> USE DEF TreeInv, Grows
<1>0. Nil \notin States /\ DOMAIN nodes \subseteq States
  BY MctsAssumption DEF Typed
<1>1. CASE \E n \in StepCounts : BeginRun(n)
  <2>1. nodes' = WithNode(nodes, env)
    BY <1>1 DEF BeginRun
  <2>2. DOMAIN nodes \subseteq DOMAIN WithNode(nodes, env)
    BY WithNodeTree DEF Searching
  <2> QED BY <2>1, <2>2, NewNodeKept DEF Searching
<1>2. CASE \E a \in Actions : Descend(a)
  <2>1. PICK a \in Actions : Descend(a)
    BY <1>2
  <2>2. nodes' = OneMoreLoss(nodes, node, a) /\ a \in Valid(node) /\ node \in DOMAIN nodes
    BY <2>1 DEF Descend, OneMoreLoss, Exists
  <2>3. PICK new : new = nodes'
    OBVIOUS
  <2>4. /\ Typed(new) /\ DOMAIN new = DOMAIN nodes /\ Closed(new) /\ Cyclic(new)
        /\ \A w : IsWay(nodes, w) => IsWay(new, w)
    BY <2>2, <2>3, LossKept
  <2> QED BY <2>3, <2>4
<1>3. CASE ImmediateBackup
  <2>0. IsWay(nodes, path) /\ path # <<>>
    BY <1>3 DEF ImmediateBackup, Searching
  <2>1. CASE pc = "repeat"
    <3>1. nodes' = BackedUp(nodes, path, TRUE)
      BY <1>3, <2>1 DEF ImmediateBackup
    <3>2. nodes[Final(path).node].child[Final(path).act] # Nil
      BY <1>0, <2>0, <2>1 DEF Searching, Selecting
    <3>3. Final(path).node \in EnvReach(Target(path))
      <4>1. PICK i \in 1 .. Len(path) : path[i].node = game
        BY <2>1, PathDomain DEF Searching, OnPath
      <4>2. path[Len(path)].node \in EnvReach(path[i].node)
        BY <4>1, PathDomain DEF Searching
      <4>3. Target(path) = game
        BY <2>0, <2>1 DEF Searching
      <4> QED BY <4>1, <4>2, <4>3 DEF Final
    <3>4. PICK new : new = nodes'
      OBVIOUS
    <3>5. /\ Typed(new) /\ Closed(new) /\ Cyclic(new)
          /\ \A w : IsWay(nodes, w) => IsWay(new, w)
      BY <2>0, <3>1, <3>2, <3>3, <3>4, BackedUpKept
    <3>6. DOMAIN new = DOMAIN nodes
      BY <3>1, <3>4 DEF BackedUp
    <3> QED BY <3>4, <3>5, <3>6
  <2>2. CASE pc = "leaf"
    <3>1. PICK grown : grown = Expanded(nodes, Final(path).node, Final(path).act, game)
      OBVIOUS
    <3>2. nodes' = BackedUp(grown, path, FALSE)
      BY <1>3, <2>2, <3>1 DEF ImmediateBackup, LastEdge, Final
    <3>3. game = Target(path)
      BY <2>0, <2>2 DEF Searching
    <3>4. /\ Typed(grown) /\ Closed(grown) /\ Cyclic(grown)
          /\ grown[Final(path).node].child[Final(path).act] # Nil
          /\ \A w : IsWay(nodes, w) => IsWay(grown, w)
      BY <2>0, <3>1, <3>3, ExpandedKept
    <3>5. DOMAIN nodes \subseteq DOMAIN grown
      BY <2>0, <3>1, <3>3, ExpandedKept
    <3>6. PICK new : new = nodes'
      OBVIOUS
    <3>7. /\ Typed(new) /\ Closed(new) /\ Cyclic(new)
          /\ \A w : IsWay(grown, w) => IsWay(new, w)
      BY <2>0, <3>2, <3>4, <3>6, BackedUpKept
    <3>8. DOMAIN new = DOMAIN grown
      BY <3>2, <3>6 DEF BackedUp
    <3> QED BY <3>4, <3>5, <3>6, <3>7, <3>8
  <2> QED BY <1>3, <2>1, <2>2 DEF ImmediateBackup
<1>4. CASE Resolve
  <2>0. PICK way : way = Head(pending).way
    OBVIOUS
  <2>1. IsWay(nodes, way) /\ way # <<>> /\ Head(pending).leaf = Target(way)
    BY <1>4, <2>0, FirstPending DEF Resolve
  <2>2. PICK grown : grown = Expanded(nodes, Final(way).node, Final(way).act, Target(way))
    OBVIOUS
  <2>3. nodes' = BackedUp(grown, way, FALSE)
    BY <1>4, <2>0, <2>1, <2>2 DEF Resolve, Final
  <2>4. /\ Typed(grown) /\ Closed(grown) /\ Cyclic(grown)
        /\ grown[Final(way).node].child[Final(way).act] # Nil
        /\ \A w : IsWay(nodes, w) => IsWay(grown, w)
    BY <2>1, <2>2, ExpandedKept
  <2>5. DOMAIN nodes \subseteq DOMAIN grown
    BY <2>1, <2>2, ExpandedKept
  <2>6. PICK new : new = nodes'
    OBVIOUS
  <2>7. /\ Typed(new) /\ Closed(new) /\ Cyclic(new)
        /\ \A w : IsWay(grown, w) => IsWay(new, w)
    BY <2>1, <2>3, <2>4, <2>6, BackedUpKept
  <2>8. DOMAIN new = DOMAIN grown
    BY <2>3, <2>6 DEF BackedUp
  <2> QED BY <2>4, <2>5, <2>6, <2>7, <2>8
<1>5. CASE EndPrune
  <2>1. nodes' = Kept(nodes, root) /\ root \in DOMAIN nodes
    BY <1>5, EndPruneKeeps DEF Pruned, Pruning, EndPrune
  <2>2. PICK new : new = nodes'
    OBVIOUS
  <2>3. Typed(new) /\ Closed(new) /\ Cyclic(new)
    BY <2>1, <2>2, KeptTree
  <2> QED BY <1>5, <2>2, <2>3
<1>6. CASE UNCHANGED nodes
  BY <1>6
<1>7. CASE BeginBatch \/ EndRun \/ BeginSelect \/ StopSelect \/ SkipLeaf \/ Enqueue \/ EndBatch
           \/ PerturbRootPrior \/ (\E a \in Actions : Move(a))
           \/ Visit \/ EndReach \/ Drain \/ UNCHANGED vars
  <2>1. UNCHANGED nodes
    BY <1>7 DEF BeginBatch, EndRun, BeginSelect, StopSelect, SkipLeaf, Enqueue, EndBatch,
                PerturbRootPrior, Move, Visit, EndReach, Drain, vars
  <2> QED BY <1>6, <2>1
<1> QED BY <1>1, <1>2, <1>3, <1>4, <1>5, <1>7 DEF Next

(* A step that ends without a path in hand. *)
LEMMA SearchingRests ==
  ASSUME Searching, env' = env, DOMAIN nodes \subseteq DOMAIN nodes', path' = <<>>,
         pc' \in Resting \cup {"batch", "simulate"},
         \/ root' = root /\ (pc' \notin Resting => pc \notin Resting)
         \/ root' = env /\ env \in DOMAIN nodes' /\ (pc' \notin Resting => env \notin Terminal)
  PROVE  Searching'
<1>1. IsWay(nodes', path') /\ Len(path') = 0
  BY EmptyWay
<1>2. \A i \in 1 .. Len(path') : FALSE
  BY <1>1
<1>3. pc' \notin Selecting /\ pc' \notin {"select", "repeat", "leaf"}
  BY DEF Selecting, Resting, Pruned
<1> QED BY <1>1, <1>2, <1>3 DEF Searching

LEMMA SearchingNext ==
  ASSUME TreeInv, Searching, Waiting, Pruning, [Next]_vars
  PROVE  Searching'
<1> USE DEF callerVars, searchVars, Resting, Pruned
<1>0. DOMAIN nodes \subseteq States
  BY DEF TreeInv, Typed
<1>1. CASE \E n \in StepCounts : BeginRun(n)
  <2>1. /\ env' = env /\ root' = env /\ path' = path /\ pc = "idle"
        /\ nodes' = WithNode(nodes, env)
        /\ pc' = "idle" \/ (pc' = "batch" /\ env \notin Terminal)
    BY <1>1 DEF BeginRun
  <2>2. path' = <<>> /\ env \in States
    BY <2>1 DEF Searching, Selecting
  <2>3. DOMAIN nodes' = DOMAIN nodes \cup {env}
    BY <2>1, <2>2, WithNodeTree DEF TreeInv
  <2> QED BY <2>1, <2>2, <2>3, SearchingRests
<1>2. CASE BeginBatch \/ EndRun \/ SkipLeaf \/ Enqueue \/ EndBatch \/ PerturbRootPrior
           \/ Visit \/ EndReach \/ Drain
  <2>1. /\ env' = env /\ root' = root /\ nodes' = nodes
        /\ pc' \in Resting \cup {"batch", "simulate"}
        /\ pc' \notin Resting => pc \notin Resting
        /\ path' = <<>>
    BY <1>2 DEF BeginBatch, EndRun, SkipLeaf, Enqueue, EndBatch, PerturbRootPrior, Visit,
                EndReach, Drain, Searching, Selecting
  <2> QED BY <2>1, SearchingRests
<1>3. CASE ImmediateBackup \/ Resolve
  <2>1. /\ env' = env /\ root' = root /\ pc' = "simulate" /\ pc \notin Resting /\ path' = <<>>
    BY <1>3 DEF ImmediateBackup, Resolve, Searching, Selecting
  <2>2. Grows
    <3>1. ~EndPrune
      BY <2>1 DEF EndPrune
    <3> QED BY <3>1, TreeNext
  <2> QED BY <2>1, <2>2, SearchingRests DEF Grows
<1>4. CASE BeginSelect
  <2>1. /\ env' = env /\ root' = root /\ nodes' = nodes /\ pc = "simulate" /\ pc' = "select"
        /\ path' = <<>> /\ node' = root /\ game' = env
    BY <1>4 DEF BeginSelect
  <2>2. IsWay(nodes', path') /\ Len(path') = 0
    BY <2>1, EmptyWay
  <2>3. \A i \in 1 .. Len(path') : FALSE
    BY <2>2
  <2>4. root = env /\ env \in DOMAIN nodes /\ env \in States /\ env \notin Terminal
    BY <2>1, MctsAssumption DEF Searching
  <2> QED BY <2>1, <2>2, <2>3, <2>4 DEF Searching, Selecting
<1>5. CASE StopSelect
  <2>1. /\ UNCHANGED <<env, root, nodes, path, node, game>> /\ pc = "select"
        /\ pc' = "leaf" \/ (pc' = "repeat" /\ OnPath(game))
    BY <1>5 DEF StopSelect
  <2>2. game = node /\ (path # <<>> => Target(path) = node)
    BY <2>1 DEF Searching
  <2>3. OnPath(game)' <=> OnPath(game)
    BY <2>1 DEF OnPath
  <2>4. Target(path') = Target(path) /\ Final(path') = Final(path)
    BY <2>1
  <2> QED BY <2>1, <2>2, <2>3, <2>4 DEF Searching, Selecting
<1>6. CASE \E a \in Actions : Descend(a)
  <2>1. PICK a \in Actions : Descend(a)
    BY <1>6
  <2>2. /\ pc = "select" /\ node \in DOMAIN nodes /\ ~OnPath(game) /\ a \in Valid(node)
        /\ nodes' = OneMoreLoss(nodes, node, a)
        /\ game' = Succ[game][a] /\ path' = Append(path, [node |-> node, act |-> a])
        /\ UNCHANGED <<env, root>>
        /\ \/ nodes[node].child[a] # Nil /\ node' = nodes[node].child[a] /\ pc' = "select"
           \/ nodes[node].child[a] = Nil /\ node' = node /\ pc' = "leaf"
    BY <2>1 DEF Descend, OneMoreLoss, Exists
  <2>3. /\ game = node /\ node \in States
        /\ path # <<>> => nodes[Final(path).node].child[Final(path).act] = node
        /\ \A i \in 1 .. Len(path) : game \in EnvReach(path[i].node)
    BY <1>0, <2>2 DEF Searching
  <2>4. \A i \in 1 .. Len(path) : path[i].node # node
    BY <2>2, <2>3, PathDomain DEF OnPath
  <2>5. PICK s \in DOMAIN nodes : s = node
    BY <2>2
  <2>6. PICK longer : longer = path'
    OBVIOUS
  <2>7. PICK n \in Nat : n = Len(path)
    BY PathDomain
  <2>8. /\ IsWay(nodes, longer) /\ longer # <<>> /\ Len(longer) = n + 1
        /\ Final(longer) = [node |-> s, act |-> a]
        /\ \A i \in 1 .. n : longer[i] = path[i]
        /\ longer[n + 1] = [node |-> s, act |-> a]
    <3>1. longer = Longer(path, s, a)
      BY <2>2, <2>5, <2>6 DEF Longer
    <3>2. IsWay(nodes, path) /\ Typed(nodes)
      BY DEF Searching, TreeInv
    <3>3. a \in Valid(s) /\ \A i \in 1 .. Len(path) : path[i].node # s
      BY <2>2, <2>4, <2>5
    <3>4. path # <<>> => nodes[Final(path).node].child[Final(path).act] = s
      BY <2>3, <2>5
    <3> QED BY <2>7, <3>1, <3>2, <3>3, <3>4, WayExtended
  <2>9. PICK tree : tree = nodes'
    OBVIOUS
  <2>10. /\ IsWay(tree, longer) /\ DOMAIN tree = DOMAIN nodes
         /\ \A t \in DOMAIN nodes : tree[t].child = nodes[t].child
    <3>1. tree = OneMoreLoss(nodes, s, a) /\ Typed(nodes) /\ a \in Valid(s)
      BY <2>2, <2>5, <2>9 DEF TreeInv
    <3> QED BY <2>8, <3>1, LossKept
  <2>11. PICK next : next = Succ[s][a]
    OBVIOUS
  <2>12. game' = next /\ Target(longer) = next /\ next \in States
    BY <2>2, <2>3, <2>5, <2>8, <2>11, MctsAssumption DEF Target, Valid
  <2>13. \A i \in 1 .. n + 1 : i \in 1 .. n \/ i = n + 1
    OBVIOUS
  <2>14. /\ longer[n + 1].node = s
         /\ \A i \in 1 .. n : s \in EnvReach(path[i].node) /\ path[i].node \in States
    BY <1>0, <2>3, <2>5, <2>7, <2>8 DEF Searching, IsWay
  <2>15. \A i \in 1 .. n + 1 : next \in EnvReach(longer[i].node)
    <3>1. \A i \in 1 .. n : next \in EnvReach(path[i].node)
      BY <2>2, <2>5, <2>11, <2>14, EnvReachSteps
    <3>2. next \in EnvReach(s)
      BY <2>2, <2>3, <2>5, <2>11, EnvReachSteps
    <3> QED BY <2>8, <2>13, <2>14, <3>1, <3>2
  <2>16. \A i \in 1 .. n + 1 : \A j \in i .. n + 1 : longer[j].node \in EnvReach(longer[i].node)
    <3> SUFFICES ASSUME NEW i \in 1 .. n + 1, NEW j \in i .. n + 1
                 PROVE  longer[j].node \in EnvReach(longer[i].node)
      OBVIOUS
    <3>1. CASE i \in 1 .. n /\ j \in i .. n
      BY <2>7, <2>8, <3>1 DEF Searching
    <3>2. CASE i \in 1 .. n /\ j = n + 1
      BY <2>8, <2>14, <3>2
    <3>3. CASE i = n + 1 /\ j = n + 1
      BY <2>3, <2>5, <2>14, <3>3, EnvReachSteps
    <3> QED BY <3>1, <3>2, <3>3
  <2>17. pc' = "select" => node' = next /\ next \in DOMAIN nodes /\ tree[s].child[a] = next
    BY <2>2, <2>5, <2>10, <2>11 DEF TreeInv, Closed
  <2>18. node' \in DOMAIN tree
    BY <2>2, <2>10, <2>17
  <2>19. pc' \in {"select", "leaf"} /\ Final(longer).node = s /\ Final(longer).act = a
    BY <2>2, <2>8
  <2> QED BY <2>2, <2>6, <2>8, <2>9, <2>10, <2>12, <2>15, <2>16, <2>17, <2>18, <2>19
          DEF Searching, Selecting
<1>7. CASE \E a \in Actions : Move(a)
  <2>1. PICK a \in Actions : Move(a)
    BY <1>7
  <2>2. /\ pc = "idle" /\ pc' \in Resting /\ path' = path /\ env' = Succ[env][a]
        /\ root = env /\ a \in Valid(env) /\ nodes' = nodes
        /\ root' = Nil \/ (root' = nodes[root].child[a] /\ root' # Nil)
    BY <2>1 DEF Move
  <2>3. path' = <<>> /\ env \in DOMAIN nodes /\ env' \in States
    BY <2>2, MctsAssumption DEF Searching, Selecting, Valid
  <2>4. root' = Nil \/ (root' = env' /\ env' \in DOMAIN nodes')
    BY <2>2, <2>3 DEF TreeInv, Closed
  <2>5. IsWay(nodes', path') /\ Len(path') = 0
    BY <2>3, EmptyWay
  <2>6. \A i \in 1 .. Len(path') : FALSE
    BY <2>5
  <2> QED BY <2>2, <2>3, <2>4, <2>5, <2>6 DEF Searching, Selecting
<1>9. CASE EndPrune
  <2>1. /\ nodes' = Kept(nodes, root) /\ root \in DOMAIN nodes
        /\ env' = env /\ root' = root /\ pc' = "idle" /\ path' = path /\ pc = "drain"
    BY <1>9, EndPruneKeeps DEF Pruning, EndPrune
  <2>2. root \in DOMAIN nodes' /\ root = env
    <3>1. root \in DOMAIN Kept(nodes, root)
      BY <2>1 DEF Kept, Reachable
    <3> QED BY <1>0, <2>1, <3>1, MctsAssumption DEF Searching
  <2>3. path' = <<>>
    BY <2>1 DEF Searching, Selecting
  <2>4. IsWay(nodes', path') /\ Len(path') = 0
    BY <2>3, EmptyWay
  <2>5. \A i \in 1 .. Len(path') : FALSE
    BY <2>4
  <2> QED BY <2>1, <2>2, <2>3, <2>4, <2>5 DEF Searching, Selecting
<1>8. CASE UNCHANGED vars
  <2>1. OnPath(game)' <=> OnPath(game)
    BY <1>8 DEF OnPath, vars
  <2>2. Target(path') = Target(path) /\ Final(path') = Final(path)
    BY <1>8 DEF vars
  <2> QED BY <1>8, <2>1, <2>2 DEF Searching, vars
<1> QED BY <1>1, <1>2, <1>3, <1>4, <1>5, <1>6, <1>7, <1>8, <1>9 DEF Next

LEMMA WaitingNext ==
  ASSUME TreeInv, Searching, Waiting, Pruning, [Next]_vars
  PROVE  Waiting'
<1> USE DEF callerVars, searchVars, Resting, Pruned
<1>1. ASSUME pending' = pending, pc' \in Resting \cup {"batch"} => pending = <<>>
      PROVE  Waiting'
  <2>1. CASE pending = <<>>
    <3>1. \A i \in 1 .. Len(pending') : FALSE
      BY <1>1, <2>1, EmptySeq
    <3> QED BY <1>1, <2>1, <3>1 DEF Waiting
  <2>2. CASE pending # <<>>
    <3>1. ~EndPrune
      BY <2>2 DEF EndPrune, Waiting
    <3>2. Grows
      BY <3>1, TreeNext
    <3> QED BY <1>1, <2>2, <3>2 DEF Waiting, Grows
  <2> QED BY <2>1, <2>2
<1>2. CASE Enqueue
  <2>1. /\ pc' = "simulate" /\ pc = "leaf" /\ path # <<>> /\ nodes' = nodes
        /\ pending' = Append(pending, [way |-> path, leaf |-> game])
    BY <1>2 DEF Enqueue
  <2>2. PICK n \in Nat : n = Len(pending)
    BY LenProperties DEF Waiting
  <2>3. PICK p : p = [way |-> path, leaf |-> game]
    OBVIOUS
  <2>4. p.way = path /\ p.leaf = game
        /\ p \in [way : Seq([node : States, act : Actions]), leaf : States]
    BY <2>1, <2>3 DEF Searching, IsWay, Selecting
  <2>5. /\ pending' \in Seq([way : Seq([node : States, act : Actions]), leaf : States])
        /\ Len(pending') = n + 1 /\ pending'[n + 1] = p
        /\ \A i \in 1 .. n : pending'[i] = pending[i]
    BY <2>1, <2>2, <2>3, <2>4, AppendProperties DEF Waiting
  <2>6. IsWay(nodes, path) /\ game = Target(path)
    BY <2>1 DEF Searching
  <2>7. \A i \in 1 .. n + 1 : i \in 1 .. n \/ i = n + 1
    OBVIOUS
  <2>8. \A i \in 1 .. n + 1 :
          /\ IsWay(nodes, pending'[i].way) /\ pending'[i].way # <<>>
          /\ pending'[i].leaf = Target(pending'[i].way)
    BY <2>1, <2>2, <2>4, <2>5, <2>6, <2>7 DEF Waiting
  <2> QED BY <2>1, <2>5, <2>8 DEF Waiting
<1>3. CASE Resolve
  <2>1. /\ pc = "simulate" /\ pc' = pc /\ pending # <<>> /\ pending' = Tail(pending)
    BY <1>3 DEF Resolve
  <2>2. Grows
    <3>1. ~EndPrune
      BY <2>1 DEF EndPrune
    <3> QED BY <3>1, TreeNext
  <2>3. PICK n \in Nat : n = Len(pending)
    BY LenProperties DEF Waiting
  <2>4. /\ Len(pending') = n - 1 /\ \A i \in 1 .. n - 1 : pending'[i] = pending[i + 1]
        /\ pending' \in Seq([way : Seq([node : States, act : Actions]), leaf : States])
    BY <2>1, <2>3, FirstPending, HeadTailProperties DEF Waiting
  <2>5. \A i \in 1 .. n - 1 : i + 1 \in 1 .. n
    OBVIOUS
  <2>6. \A i \in 1 .. n - 1 :
          /\ IsWay(nodes', pending'[i].way) /\ pending'[i].way # <<>>
          /\ pending'[i].leaf = Target(pending'[i].way)
    BY <2>2, <2>3, <2>4, <2>5 DEF Waiting, Grows
  <2> QED BY <2>1, <2>4, <2>6 DEF Waiting
<1>4. CASE \E n \in StepCounts : BeginRun(n)
  BY <1>1, <1>4 DEF BeginRun, Waiting
<1>5. CASE BeginBatch \/ EndRun \/ BeginSelect \/ StopSelect \/ SkipLeaf \/ EndBatch
           \/ PerturbRootPrior \/ ImmediateBackup \/ Visit \/ EndReach \/ Drain \/ EndPrune
  BY <1>1, <1>5 DEF BeginBatch, EndRun, BeginSelect, StopSelect, SkipLeaf, EndBatch,
                    PerturbRootPrior, ImmediateBackup, Visit, EndReach, Drain, EndPrune, Waiting
<1>6. CASE \E a \in Actions : Descend(a) \/ Move(a)
  BY <1>1, <1>6 DEF Descend, Move, Waiting
<1>7. CASE UNCHANGED vars
  BY <1>1, <1>7 DEF Waiting, vars
<1> QED BY <1>2, <1>3, <1>4, <1>5, <1>6, <1>7 DEF Next

(* Where advance_root is, and the index of every node.                       *)
LEMMA PruningNext ==
  ASSUME TreeInv, Searching, Waiting, Pruning, [Next]_vars
  PROVE  Pruning'
<1> USE DEF callerVars, searchVars, index, pruneVars, Pruned, Resting
<1>0. DOMAIN nodes \subseteq States /\ Nil \notin States
  BY MctsAssumption DEF TreeInv, Typed
<1>1. ASSUME NEW s \in States, Insert(s), DOMAIN nodes' = DOMAIN nodes \cup {s},
             UNCHANGED pruneVars, pc \notin Pruned, pc' \notin Pruned
      PROVE  Pruning'
  <2>1. Numbered(arena', table') /\ DOMAIN table' = DOMAIN nodes'
    BY <1>1, InsertKeeps DEF Pruning
  <2> QED BY <1>1, <2>1 DEF Pruning
<1>2. ASSUME UNCHANGED <<index, kept, keptTable>>, DOMAIN nodes' = DOMAIN nodes,
             pc # "drain", pc' \notin Pruned
      PROVE  Pruning'
  BY <1>2 DEF Pruning
<1>3. CASE \E n \in StepCounts : BeginRun(n)
  <2>1. /\ nodes' = WithNode(nodes, env) /\ Insert(env) /\ UNCHANGED pruneVars
        /\ pc = "idle" /\ pc' \in {"idle", "batch"} /\ env \in States
    BY <1>3 DEF BeginRun, Searching
  <2>2. DOMAIN nodes' = DOMAIN nodes \cup {env}
    BY <2>1, WithNodeTree DEF TreeInv
  <2> QED BY <1>1, <2>1, <2>2
<1>4. CASE \E a \in Actions : Descend(a)
  BY <1>2, <1>4 DEF Descend
<1>5. CASE BeginBatch \/ EndRun \/ BeginSelect \/ StopSelect \/ SkipLeaf \/ Enqueue \/ EndBatch
           \/ PerturbRootPrior
  BY <1>2, <1>5 DEF BeginBatch, EndRun, BeginSelect, StopSelect, SkipLeaf, Enqueue, EndBatch,
                    PerturbRootPrior
<1>6. CASE ImmediateBackup
  <2>1. CASE pc = "repeat"
    <3>1. nodes' = BackedUp(nodes, path, TRUE) /\ pc' = "simulate" /\ UNCHANGED <<index, pruneVars>>
      BY <1>6, <2>1 DEF ImmediateBackup
    <3>2. DOMAIN nodes' = DOMAIN nodes
      BY <3>1 DEF BackedUp
    <3> QED BY <1>2, <2>1, <3>1, <3>2
  <2>2. CASE pc = "leaf"
    <3>1. /\ path # <<>> /\ game = Target(path) /\ game \in States /\ IsWay(nodes, path)
          /\ pc' = "simulate" /\ UNCHANGED pruneVars /\ Insert(game)
      BY <1>6, <2>2 DEF ImmediateBackup, Searching, Selecting
    <3>2. PICK grown : grown = Expanded(nodes, Final(path).node, Final(path).act, game)
      OBVIOUS
    <3>3. nodes' = BackedUp(grown, path, FALSE)
      BY <1>6, <2>2, <3>2 DEF ImmediateBackup, LastEdge, Final
    <3>4. DOMAIN nodes' = DOMAIN nodes \cup {game}
      <4>1. DOMAIN grown = DOMAIN nodes \cup {game}
        BY <3>1, <3>2, ExpandedDomain
      <4> QED BY <3>3, <4>1 DEF BackedUp
    <3> QED BY <1>1, <2>2, <3>1, <3>4
  <2> QED BY <1>6, <2>1, <2>2 DEF ImmediateBackup
<1>7. CASE Resolve
  <2>1. PICK way : way = Head(pending).way
    OBVIOUS
  <2>2. PICK leaf : leaf = Head(pending).leaf
    OBVIOUS
  <2>3. IsWay(nodes, way) /\ way # <<>> /\ leaf = Target(way)
    BY <1>7, <2>1, <2>2, FirstPending DEF Resolve
  <2>4. PICK grown : grown = Expanded(nodes, Final(way).node, Final(way).act, leaf)
    OBVIOUS
  <2>5. /\ nodes' = BackedUp(grown, way, FALSE) /\ Insert(leaf)
        /\ pc = "simulate" /\ pc' = pc /\ UNCHANGED pruneVars
    BY <1>7, <2>1, <2>2, <2>4 DEF Resolve, Final
  <2>6. DOMAIN nodes' = DOMAIN nodes \cup {leaf} /\ leaf \in States
    <3>1. DOMAIN grown = DOMAIN nodes \cup {leaf} /\ leaf \in States
      BY <2>3, <2>4, ExpandedDomain
    <3> QED BY <2>5, <3>1 DEF BackedUp
  <2> QED BY <1>1, <2>5, <2>6
<1>8. CASE \E a \in Actions : Move(a)
  <2>1. PICK a \in Actions : Move(a)
    BY <1>8
  <2>2. /\ pc = "idle" /\ root = env /\ a \in Valid(env)
        /\ UNCHANGED <<nodes, index, kept, keptTable>>
    BY <2>1 DEF Move
  <2>3. CASE nodes[root].child[a] = Nil
    BY <1>2, <2>1, <2>2, <2>3 DEF Move
  <2>4. CASE nodes[root].child[a] # Nil
    <3>1. PICK new : new = nodes[root].child[a]
      OBVIOUS
    <3>2. pc' = "reach" /\ root' = new /\ found' = {} /\ queue' = <<new>>
      BY <2>1, <2>4, <3>1 DEF Move
    <3>3. env \in DOMAIN nodes /\ new \in DOMAIN nodes
      BY <1>0, <2>2, <2>4, <3>1, MctsAssumption DEF Searching, TreeInv, Closed
    <3>4. new \in Reachable(nodes, new)
      BY <3>3, ReachableClosed DEF TreeInv
    <3>5. Frontier(nodes, new, {}, <<new>>)
      <4>1. <<new>> \in Seq(Reachable(nodes, new)) /\ Len(<<new>>) = 1 /\ <<new>>[1] = new
        BY <3>4
      <4>2. 1 \in 1 .. 1
        OBVIOUS
      <4> QED BY <4>1, <4>2 DEF Frontier, Listed
    <3> QED BY <2>2, <3>2, <3>3, <3>5 DEF Pruning
  <2> QED BY <2>3, <2>4
<1>9. CASE Visit
  <2>1. /\ pc = "reach" /\ queue # <<>> /\ UNCHANGED <<root, nodes, pc, index, kept, keptTable>>
        /\ root \in DOMAIN nodes /\ Frontier(nodes, root, found, queue)
    BY <1>9 DEF Visit, Pruning
  <2>2. Frontier(nodes, root, found', queue')
    <3>1. CASE Head(queue) \in found
      <4>1. found' = found /\ queue' = Tail(queue)
        BY <1>9, <3>1 DEF Visit
      <4>2. PICK rest : rest = queue'
        OBVIOUS
      <4> QED BY <2>1, <3>1, <4>1, <4>2, FrontierTail
    <3>2. CASE Head(queue) \notin found
      <4>1. PICK id : id = Head(queue)
        OBVIOUS
      <4>2. PICK more : more = found'
        OBVIOUS
      <4>3. PICK longer : longer = queue'
        OBVIOUS
      <4>4. PICK o \in Orders(Unseen(id, more)) :
               longer = Tail(queue) \o [i \in DOMAIN o |-> nodes[id].child[o[i]]]
        BY <1>9, <3>2, <4>1, <4>2, <4>3 DEF Visit
      <4>5. more = found \cup {id}
        BY <1>9, <3>2, <4>1, <4>2 DEF Visit
      <4>6. id \in DOMAIN nodes
        BY <2>1, <4>1, HeadTailProperties, ReachableClosed DEF Frontier, TreeInv
      <4>7. PICK S : S = Unseen(id, more)
        OBVIOUS
      <4>8. S = {a \in Valid(id) : nodes[id].child[a] # Nil /\ nodes[id].child[a] \notin more}
        BY <4>6, <4>7 DEF Unseen, Exists
      <4>9. PICK n \in Nat : n = Cardinality(S)
        <5>1. S \subseteq Actions
          BY <1>0, <4>6, <4>8, MctsAssumption DEF Valid
        <5> QED BY <5>1, MctsAssumption, FS_Subset, FS_CardinalityType
      <4>10. o \in [1 .. n -> S] /\ \A a \in S : \E i \in 1 .. n : o[i] = a
        BY <4>4, <4>7, <4>9 DEF Orders
      <4>11. PICK push : push = [i \in DOMAIN o |-> nodes[id].child[o[i]]]
        OBVIOUS
      <4>12. push \in [1 .. n -> Kids(nodes, id)]
        BY <4>8, <4>10, <4>11 DEF Kids
      <4>13. \A t \in Kids(nodes, id) : t \in more \/ \E i \in 1 .. n : push[i] = t
        BY <4>8, <4>10, <4>11 DEF Kids
      <4>14. Frontier(nodes, root, found \cup {Head(queue)}, Tail(queue) \o push)
        <5>1. push \in [1 .. n -> Kids(nodes, Head(queue))]
          BY <4>1, <4>12
        <5>2. \A t \in Kids(nodes, Head(queue)) :
                 t \in found \cup {Head(queue)} \/ \E i \in 1 .. n : push[i] = t
          BY <4>1, <4>5, <4>13
        <5> QED BY <2>1, <5>1, <5>2, FrontierVisit DEF TreeInv
      <4> QED BY <4>1, <4>2, <4>3, <4>4, <4>5, <4>11, <4>14
    <3> QED BY <3>1, <3>2
  <2> QED BY <2>1, <2>2 DEF Pruning
<1>10. CASE EndReach
  <2>1. /\ pc = "reach" /\ pc' = "drain" /\ Frontier(nodes, root, found, <<>>)
        /\ root \in DOMAIN nodes /\ kept = <<>> /\ keptTable = Unindexed
        /\ Numbered(arena, table) /\ DOMAIN table = DOMAIN nodes
        /\ UNCHANGED <<root, nodes, index, pruneVars>>
    BY <1>10 DEF EndReach, Pruning
  <2>2. found = Reachable(nodes, root) /\ found \subseteq DOMAIN nodes
    BY <2>1, FrontierEmpty DEF Reachable
  <2>3. Moved(found, arena, <<>>, Unindexed)
    <3>1. \A i, j \in 1 .. Len(arena) : i # j => arena[i] # arena[j]
      BY <2>1 DEF Numbered
    <3>2. found \subseteq Listed(arena)
      BY <2>1, <2>2 DEF Numbered, Listed
    <3> QED BY <2>1, <3>1, <3>2, EmptyNumbered DEF Moved, Numbered
  <2> QED BY <2>1, <2>2, <2>3 DEF Pruning
<1>11. CASE Drain
  <2>1. /\ pc = "drain" /\ pc' = pc /\ arena # <<>> /\ arena' = Tail(arena)
        /\ UNCHANGED <<root, nodes, found>> /\ root \in DOMAIN nodes
        /\ found = Reachable(nodes, root) /\ Moved(found, arena, kept, keptTable)
    BY <1>11 DEF Drain, Pruning
  <2>2. PICK id : id = Head(arena)
    OBVIOUS
  <2>3. PICK rest : rest = arena'
    OBVIOUS
  <2>4. PICK more : more = kept'
    OBVIOUS
  <2>5. PICK new : new = keptTable'
    OBVIOUS
  <2>6. \/ id \in found /\ more = Append(kept, id) /\ new = Indexed(keptTable, kept, id)
        \/ id \notin found /\ more = kept /\ new = keptTable
    BY <1>11, <2>2, <2>4, <2>5 DEF Drain
  <2>7. Moved(found, rest, more, new)
    <3>1. IF Head(arena) \in found
          THEN Moved(found, Tail(arena), Append(kept, Head(arena)),
                     Indexed(keptTable, kept, Head(arena)))
          ELSE Moved(found, Tail(arena), kept, keptTable)
      BY <2>1, MovedTail
    <3> QED BY <2>1, <2>2, <2>3, <2>6, <3>1
  <2> QED BY <2>1, <2>3, <2>4, <2>5, <2>7 DEF Pruning
<1>12. CASE EndPrune
  <2>1. /\ pc' = "idle" /\ arena' = kept /\ table' = keptTable /\ kept' = <<>>
        /\ keptTable' = Unindexed
    BY <1>12 DEF EndPrune
  <2>2. Numbered(kept, keptTable) /\ DOMAIN keptTable = DOMAIN nodes'
    BY <1>12, EndPruneKeeps
  <2> QED BY <2>1, <2>2 DEF Pruning
<1>13. CASE UNCHANGED vars
  BY <1>13 DEF Pruning, vars
<1> QED BY <1>3, <1>4, <1>5, <1>6, <1>7, <1>8, <1>9, <1>10, <1>11, <1>12, <1>13 DEF Next

LEMMA SearchInvInit == Init => SearchInv
<1> SUFFICES ASSUME Init PROVE SearchInv
  OBVIOUS
<1>1. /\ nodes = [s \in {} |-> Nil] /\ DOMAIN nodes = {} /\ path = <<>> /\ pending = <<>>
      /\ pc = "idle" /\ root = Nil /\ env \in States
  BY MctsAssumption DEF Init
<1>2. TreeInv
  BY <1>1 DEF TreeInv, Typed, Closed, Cyclic
<1>3. IsWay(nodes, path) /\ Len(path) = 0 /\ Len(pending) = 0
      /\ pending \in Seq([way : Seq([node : States, act : Actions]), leaf : States])
  BY <1>1, EmptyWay, EmptySeq
<1>4. Searching
  BY <1>1, <1>3 DEF Searching, Selecting, Resting, Pruned
<1>5. Waiting
  BY <1>1, <1>3 DEF Waiting
<1>6. Pruning
  BY <1>1, EmptyNumbered DEF Init, Pruning, Pruned, Unindexed
<1> QED BY <1>2, <1>4, <1>5, <1>6 DEF SearchInv

LEMMA SearchInvNext == SearchInv /\ [Next]_vars => SearchInv'
BY TreeNext, SearchingNext, WaitingNext, PruningNext DEF SearchInv

(* The tree, the path in hand and the leaves of the batch stay consistent:   *)
(* every path in flight is a path of the tree, expand and backpropagate      *)
(* included, and advance_root runs when no path is in flight.                *)
THEOREM SearchInvHolds == Spec => []SearchInv
BY SearchInvInit, SearchInvNext, PTL DEF Spec

(* The transposition table is closed under children whatever is selected,    *)
(* expanded, backed up and pruned: no child id dangles, a visited edge has a *)
(* child, and the index of every id is that of its entry in the arena, before *)
(* and after advance_root moves the entries (select_leaf, expand,            *)
(* backpropagate, insert_node, advance_root).                                *)
THEOREM TreeIsClosedCorrect == Spec => []TreeIsClosed
<1>1. SearchInv => TreeIsClosed
  <2> SUFFICES ASSUME SearchInv PROVE TreeIsClosed
    OBVIOUS
  <2>1. pc # "drain" => TableMatchesArena
    BY DEF SearchInv, Pruning, Numbered, TableMatchesArena
  <2> QED BY <2>1 DEF SearchInv, TreeInv, Closed, TreeIsClosed, Exists
<1> QED BY <1>1, SearchInvHolds, PTL

(* backpropagate puts a repetition penalty only on an edge that closes a     *)
(* cycle of the environment, because check_state_repeat compares with the    *)
(* nodes of the path alone.                                                  *)
THEOREM PenaltiesOnCyclesCorrect == Spec => []PenaltiesOnCycles
<1>1. SearchInv => PenaltiesOnCycles
  BY DEF SearchInv, TreeInv, Cyclic, PenaltiesOnCycles
<1> QED BY <1>1, SearchInvHolds, PTL

--------------------------------------------------------------------------------
(* What advance_root keeps. *)

(* Induction up to n: a set of numbers without a least one is empty.         *)
LEMMA NoneUpTo ==
  ASSUME NEW n \in Nat, NEW B \in SUBSET (0 .. n), 0 \notin B,
         \A k \in 0 .. n - 1 : k \notin B => k + 1 \notin B
  PROVE  B = {}
<1> SUFFICES ASSUME B # {} PROVE FALSE
  OBVIOUS
<1> DEFINE downs == {0 .. k : k \in B}
<1>1. IsFiniteSet(0 .. n)
  BY FS_Interval
<1>2. downs \in SUBSET SUBSET (0 .. n) /\ downs # {}
  <2>1. \A k \in B : 0 .. k \in SUBSET (0 .. n)
    OBVIOUS
  <2> QED BY <2>1
<1>3. PICK k \in B : \A t \in SUBSET (0 .. k) : t # 0 .. k => t \notin downs
  <2>1. PICK s \in downs : \A t \in SUBSET s : t # s => t \notin downs
    <3> HIDE DEF downs
    <3> QED BY <1>1, <1>2, SmallestSet
  <2> QED BY <2>1
<1>4. k \in 1 .. n
  OBVIOUS
<1>5. k - 1 \in 0 .. n - 1 /\ (k - 1) + 1 = k
  BY <1>4
<1>6. k - 1 \in B
  BY <1>5
<1>7. 0 .. k - 1 \in SUBSET (0 .. k) /\ 0 .. k - 1 # 0 .. k
  BY <1>4
<1>8. 0 .. k - 1 \in downs
  BY <1>6
<1> QED BY <1>3, <1>7, <1>8

Spread(tree, u) == u \cup UNION {Kids(tree, s) : s \in u}

(* The levels that Within adds one by one. *)
Levels(tree, r, n, f) == f = [k \in 0 .. n |-> IF k = 0 THEN {r} ELSE Spread(tree, f[k - 1])]

LEMMA LevelsExist ==
  ASSUME NEW tree, NEW r, NEW n \in Nat
  PROVE  \E f : Levels(tree, r, n, f)
<1> DEFINE B == {k \in 0 .. n : ~\E f : Levels(tree, r, k, f)}
<1>1. 0 \notin B
  <2> DEFINE f == [k \in 0 .. 0 |-> {r}]
  <2>1. f = [k \in 0 .. 0 |-> IF k = 0 THEN {r} ELSE Spread(tree, f[k - 1])]
    <3>1. \A k \in 0 .. 0 : k = 0
      OBVIOUS
    <3> QED BY <3>1
  <2> HIDE DEF f
  <2> QED BY <2>1 DEF Levels
<1>2. ASSUME NEW k \in 0 .. n - 1, k \notin B
      PROVE  k + 1 \notin B
  <2>1. k \in Nat /\ k \in 0 .. n
    OBVIOUS
  <2>2. PICK f : Levels(tree, r, k, f)
    BY <1>2, <2>1
  <2>3. \A j \in 0 .. k : f[j] = IF j = 0 THEN {r} ELSE Spread(tree, f[j - 1])
    BY <2>2 DEF Levels
  <2> DEFINE g == [j \in 0 .. k + 1 |-> IF j = k + 1 THEN Spread(tree, f[k]) ELSE f[j]]
  <2>4. ASSUME NEW j \in 0 .. k + 1
        PROVE  g[j] = IF j = 0 THEN {r} ELSE Spread(tree, g[j - 1])
    <3>1. CASE j = 0
      BY <2>1, <2>3, <3>1
    <3>2. CASE j \in 1 .. k
      <4>1. j \in 0 .. k /\ j - 1 \in 0 .. k + 1 /\ j # k + 1 /\ j - 1 # k + 1 /\ j # 0
        BY <2>1, <3>2
      <4>2. g[j] = f[j] /\ g[j - 1] = f[j - 1]
        BY <4>1
      <4> HIDE DEF g
      <4> QED BY <2>3, <4>1, <4>2
    <3>3. CASE j = k + 1
      <4>1. j - 1 = k /\ k \in 0 .. k + 1 /\ k # k + 1 /\ j # 0
        BY <2>1, <3>3
      <4>2. g[j] = Spread(tree, f[k]) /\ g[k] = f[k]
        BY <3>3, <4>1
      <4> HIDE DEF g
      <4> QED BY <4>1, <4>2
    <3>4. j = 0 \/ j \in 1 .. k \/ j = k + 1
      BY <2>1
    <3> QED BY <3>1, <3>2, <3>3, <3>4
  <2>5. Levels(tree, r, k + 1, g)
    <3>1. g = [j \in 0 .. k + 1 |-> g[j]]
      OBVIOUS
    <3> HIDE DEF g
    <3> QED BY <2>4, <3>1 DEF Levels
  <2> QED BY <2>5
<1>3. B = {}
  <2>1. B \in SUBSET (0 .. n)
    OBVIOUS
  <2> HIDE DEF B
  <2> QED BY <1>1, <1>2, <2>1, NoneUpTo
<1> QED BY <1>3

(* Every level holds r and lies in every closed set that does.               *)
LEMMA LevelsInside ==
  ASSUME NEW tree, NEW r, NEW n \in Nat, NEW f, Levels(tree, r, n, f),
         NEW T, r \in T, \A s \in T : Kids(tree, s) \subseteq T
  PROVE  \A k \in 0 .. n : r \in f[k] /\ f[k] \subseteq T
<1> DEFINE B == {k \in 0 .. n : ~(r \in f[k] /\ f[k] \subseteq T)}
<1>1. 0 \notin B
  BY DEF Levels
<1>2. ASSUME NEW k \in 0 .. n - 1, k \notin B
      PROVE  k + 1 \notin B
  <2>1. k \in 0 .. n /\ k + 1 \in 0 .. n /\ (k + 1) - 1 = k /\ k + 1 # 0
    OBVIOUS
  <2>2. r \in f[k] /\ f[k] \subseteq T
    BY <1>2, <2>1
  <2>3. f[k + 1] = Spread(tree, f[k])
    BY <2>1 DEF Levels
  <2> QED BY <2>2, <2>3 DEF Spread
<1>3. B = {}
  <2>1. B \in SUBSET (0 .. n)
    OBVIOUS
  <2> HIDE DEF B
  <2> QED BY <1>1, <1>2, <2>1, NoneUpTo
<1> QED BY <1>3

(* The last level is closed: until one is, each is larger than the one       *)
(* before.                                                                   *)
LEMMA LastLevelClosed ==
  ASSUME NEW tree, NEW D, IsFiniteSet(D), NEW r \in D, \A s \in D : Kids(tree, s) \subseteq D,
         NEW n \in Nat, Cardinality(D) <= n, NEW f, Levels(tree, r, n, f)
  PROVE  \A s \in f[n] : Kids(tree, s) \subseteq f[n]
<1> DEFINE closed(u) == Spread(tree, u) = u
           B == {k \in 0 .. n : ~(closed(f[k]) \/ k < Cardinality(f[k]))}
<1>1. \A k \in 0 .. n : f[k] \subseteq D
  BY LevelsInside
<1>2. \A k \in 0 .. n : IsFiniteSet(f[k]) /\ Cardinality(f[k]) \in Nat /\ Cardinality(f[k]) <= n
  <2> SUFFICES ASSUME NEW k \in 0 .. n
               PROVE  IsFiniteSet(f[k]) /\ Cardinality(f[k]) \in Nat /\ Cardinality(f[k]) <= n
    OBVIOUS
  <2>1. IsFiniteSet(f[k]) /\ Cardinality(f[k]) <= Cardinality(D)
    BY <1>1, FS_Subset
  <2>2. Cardinality(f[k]) \in Nat /\ Cardinality(D) \in Nat
    BY <2>1, FS_CardinalityType
  <2> QED BY <2>1, <2>2
<1>3. 0 \notin B
  <2>1. f[0] = {r}
    BY DEF Levels
  <2>2. Cardinality(f[0]) = 1
    BY <2>1, FS_Singleton
  <2> QED BY <2>2
<1>4. ASSUME NEW k \in 0 .. n - 1, k \notin B
      PROVE  k + 1 \notin B
  <2>1. k \in Nat /\ k \in 0 .. n /\ k + 1 \in 0 .. n /\ (k + 1) - 1 = k /\ k + 1 # 0
    OBVIOUS
  <2>2. f[k + 1] = Spread(tree, f[k])
    BY <2>1 DEF Levels
  <2>3. CASE closed(f[k])
    BY <2>2, <2>3
  <2>4. CASE ~closed(f[k])
    <3>1. k < Cardinality(f[k])
      BY <1>4, <2>1, <2>4
    <3>2. f[k] \subseteq f[k + 1] /\ f[k] # f[k + 1]
      BY <2>2, <2>4 DEF Spread
    <3>3. /\ IsFiniteSet(f[k]) /\ Cardinality(f[k]) \in Nat
          /\ IsFiniteSet(f[k + 1]) /\ Cardinality(f[k + 1]) \in Nat
      BY <1>2, <2>1
    <3>4. Cardinality(f[k]) < Cardinality(f[k + 1])
      <4>1. /\ Cardinality(f[k]) <= Cardinality(f[k + 1])
            /\ Cardinality(f[k + 1]) = Cardinality(f[k]) => f[k + 1] = f[k]
        BY <3>2, <3>3, FS_Subset
      <4> QED BY <3>2, <3>3, <4>1
    <3>5. k + 1 < Cardinality(f[k + 1])
      BY <2>1, <3>1, <3>3, <3>4
    <3> QED BY <3>5
  <2> QED BY <2>3, <2>4
<1>5. B = {}
  <2>1. B \in SUBSET (0 .. n)
    OBVIOUS
  <2> HIDE DEF B
  <2> QED BY <1>3, <1>4, <2>1, NoneUpTo
<1>6. closed(f[n])
  <2>1. n \in 0 .. n
    OBVIOUS
  <2>2. Cardinality(f[n]) \in Nat /\ Cardinality(f[n]) <= n
    BY <1>2, <2>1
  <2> QED BY <1>5, <2>1, <2>2
<1> QED BY <1>6 DEF Spread

(* The breadth-first search and the levels find the same nodes.              *)
LEMMA WithinIsReachable ==
  ASSUME TreeInv, NEW r \in DOMAIN nodes
  PROVE  Within(r) = Reachable(nodes, r)
<1> DEFINE n == Cardinality(States)
           f == CHOOSE g : Levels(nodes, r, n, g)
           D == DOMAIN nodes
<1>2. IsFiniteSet(D) /\ n \in Nat /\ Cardinality(D) <= n
  BY MctsAssumption, FS_Subset, FS_CardinalityType DEF TreeInv, Typed
<1>3. Levels(nodes, r, n, f)
  BY <1>2, LevelsExist
<1>4. Within(r) = f[n]
  BY DEF Within, Levels, Spread, Kids, Children
<1>5. \A s \in D : Kids(nodes, s) \subseteq D
  BY DEF Kids, TreeInv, Closed
<1> HIDE DEF n, f
<1>6. \A s \in f[n] : Kids(nodes, s) \subseteq f[n]
  BY <1>2, <1>3, <1>5, LastLevelClosed
<1>7. ASSUME NEW T, r \in T, \A s \in T : Kids(nodes, s) \subseteq T
      PROVE  r \in f[n] /\ f[n] \subseteq T
  <2>1. n \in 0 .. n
    BY <1>2
  <2> QED BY <1>2, <1>3, <1>7, <2>1, LevelsInside
<1>8. r \in f[n] /\ f[n] \subseteq D
  BY <1>5, <1>7
<1>9. f[n] \subseteq Reachable(nodes, r)
  BY <1>7, <1>8 DEF Reachable
<1>10. Reachable(nodes, r) \subseteq f[n]
  BY <1>6, <1>8 DEF Reachable
<1> QED BY <1>4, <1>9, <1>10

(* advance_root's breadth-first search and compaction are exact: after them  *)
(* a lookup finds the nodes to which a path of expanded edges leads from the *)
(* new root, each with the record it had, and nothing else; the arena has as *)
(* many entries.  The search takes the slots of a node in any order, and the *)
(* table is of any shape.                                                    *)
THEOREM PruningExactCorrect == Spec => PruningExact
<1> DEFINE exact == pc = "drain" /\ pc' = "idle" =>
                      /\ nodes' = [s \in Within(root) |-> nodes[s]]
                      /\ Len(arena') = Cardinality(DOMAIN nodes')
<1>1. SearchInv /\ [Next]_vars => [exact]_vars
  <2> SUFFICES ASSUME SearchInv, Next, pc = "drain", pc' = "idle"
               PROVE  /\ nodes' = [s \in Within(root) |-> nodes[s]]
                      /\ Len(arena') = Cardinality(DOMAIN nodes')
    OBVIOUS
  <2>1. EndPrune
    BY DEF Next, BeginRun, BeginBatch, EndRun, BeginSelect, Descend, StopSelect, SkipLeaf,
           ImmediateBackup, Enqueue, Resolve, EndBatch, PerturbRootPrior, Move, Visit, EndReach,
           Drain
  <2>2. root \in DOMAIN nodes /\ TreeInv /\ Pruning
    BY DEF SearchInv, Pruning, Pruned
  <2>3. nodes' = [s \in Within(root) |-> nodes[s]]
    BY <2>1, <2>2, EndPruneKeeps, WithinIsReachable DEF Kept
  <2>4. PICK new : new = nodes'
    OBVIOUS
  <2>5. Numbered(kept, keptTable) /\ DOMAIN keptTable = DOMAIN new /\ arena' = kept
    BY <2>1, <2>2, <2>4, EndPruneKeeps DEF EndPrune
  <2>6. Len(kept) = Cardinality(DOMAIN new)
    BY <2>5, NumberedLength
  <2> QED BY <2>3, <2>4, <2>5, <2>6
<1> QED BY <1>1, SearchInvHolds, PTL DEF Spec, PruningExact

--------------------------------------------------------------------------------
(* Counting the paths in flight over an edge. *)

One(b) == IF b THEN 1 ELSE 0
Carriers(q, s, a) == {i \in 1 .. Len(q) : Crosses(q[i].way, s, a)}
Load(q, s, a) == Cardinality(Carriers(q, s, a))

LEMMA LoadTyped ==
  ASSUME NEW T, NEW q \in Seq(T), NEW s, NEW a
  PROVE  /\ IsFiniteSet(Carriers(q, s, a)) /\ Load(q, s, a) \in Nat
         /\ (\A i \in 1 .. Len(q) : ~Crosses(q[i].way, s, a)) => Load(q, s, a) = 0
<1>1. Len(q) \in Nat
  BY LenProperties
<1>2. IsFiniteSet(1 .. Len(q))
  BY <1>1, FS_Interval
<1>3. Carriers(q, s, a) \in SUBSET (1 .. Len(q))
  BY DEF Carriers
<1>4. IsFiniteSet(Carriers(q, s, a))
  BY <1>2, <1>3, FS_Subset
<1>5. (\A i \in 1 .. Len(q) : ~Crosses(q[i].way, s, a)) => Carriers(q, s, a) = {}
  BY DEF Carriers
<1> QED BY <1>4, <1>5, FS_CardinalityType, FS_EmptySet DEF Load

LEMMA LoadAppend ==
  ASSUME NEW T, NEW q \in Seq(T), NEW way, NEW s, NEW a, NEW n \in Nat, n = Len(q),
         NEW r, Len(r) = n + 1, r[n + 1].way = way, \A i \in 1 .. n : r[i] = q[i]
  PROVE  Load(r, s, a) = Load(q, s, a) + One(Crosses(way, s, a))
<1>1. \A i \in 1 .. n + 1 : i \in 1 .. n \/ i = n + 1
  OBVIOUS
<1>2. IsFiniteSet(Carriers(q, s, a)) /\ Load(q, s, a) \in Nat
  BY LoadTyped
<1>3. n + 1 \notin Carriers(q, s, a)
  BY DEF Carriers
<1>4. CASE Crosses(way, s, a)
  <2>1. Carriers(r, s, a) = Carriers(q, s, a) \cup {n + 1}
    BY <1>1, <1>4 DEF Carriers
  <2>2. Cardinality(Carriers(q, s, a) \cup {n + 1}) = Cardinality(Carriers(q, s, a)) + 1
    BY <1>2, <1>3, FS_AddElement
  <2> QED BY <1>4, <2>1, <2>2 DEF Load, One
<1>5. CASE ~Crosses(way, s, a)
  <2>1. Carriers(r, s, a) = Carriers(q, s, a)
    BY <1>1, <1>5 DEF Carriers
  <2> QED BY <1>2, <1>5, <2>1 DEF Load, One
<1> QED BY <1>4, <1>5

LEMMA LoadTail ==
  ASSUME NEW T, NEW q \in Seq(T), q # <<>>, NEW s, NEW a, NEW r, r = Tail(q)
  PROVE  Load(q, s, a) = Load(r, s, a) + One(Crosses(Head(q).way, s, a))
<1>1. PICK n \in Nat : n = Len(q)
  BY LenProperties
<1>2. n # 0 /\ Head(q) = q[1]
  BY <1>1, EmptySeq
<1>3. Len(r) = n - 1 /\ \A i \in 1 .. n - 1 : r[i] = q[i + 1]
  BY <1>1, HeadTailProperties
<1>4. r \in Seq(T)
  BY HeadTailProperties
<1>5. /\ IsFiniteSet(Carriers(q, s, a)) /\ Load(q, s, a) \in Nat
      /\ IsFiniteSet(Carriers(r, s, a)) /\ Load(r, s, a) \in Nat
  BY <1>4, LoadTyped
<1> DEFINE rest == Carriers(q, s, a) \ {1}
           shift == [i \in Carriers(r, s, a) |-> i + 1]
<1>6. shift \in Bijection(Carriers(r, s, a), rest)
  <2>1. \A i \in Carriers(r, s, a) : i \in 1 .. n - 1 /\ i + 1 \in rest
    BY <1>1, <1>3 DEF Carriers
  <2>2. \A k \in rest : k - 1 \in Carriers(r, s, a) /\ k = k - 1 + 1
    <3> SUFFICES ASSUME NEW k \in rest PROVE k - 1 \in Carriers(r, s, a) /\ k = k - 1 + 1
      OBVIOUS
    <3>1. k \in 1 .. n /\ k # 1 /\ Crosses(q[k].way, s, a)
      BY <1>1 DEF Carriers
    <3>2. k - 1 \in 1 .. n - 1 /\ k - 1 + 1 = k
      BY <3>1
    <3>3. r[k - 1] = q[k]
      BY <1>3, <3>2
    <3> QED BY <1>3, <3>1, <3>2, <3>3 DEF Carriers
  <2> HIDE DEF rest
  <2>3. shift \in [Carriers(r, s, a) -> rest]
    BY <2>1
  <2>4. \A i, j \in Carriers(r, s, a) : shift[i] = shift[j] => i = j
    BY <2>1
  <2>5. \A k \in rest : \E i \in Carriers(r, s, a) : shift[i] = k
    BY <2>2
  <2> HIDE DEF shift
  <2> QED BY <2>3, <2>4, <2>5 DEF Bijection, Injection, Surjection, IsInjective
<1>7. Cardinality(rest) = Load(r, s, a)
  BY <1>5, <1>6, FS_Bijection DEF ExistsBijection, Load
<1>8. Cardinality(rest) = IF 1 \in Carriers(q, s, a) THEN Load(q, s, a) - 1 ELSE Load(q, s, a)
  BY <1>5, FS_RemoveElement DEF Load
<1>9. 1 \in Carriers(q, s, a) <=> Crosses(Head(q).way, s, a)
  <2>1. 1 \in 1 .. n
    BY <1>2
  <2> QED BY <1>1, <1>2, <2>1 DEF Carriers
<1> HIDE DEF rest
<1> QED BY <1>5, <1>7, <1>8, <1>9 DEF One

(* An edge is on a path exactly when its node is, with that action.          *)
LEMMA CrossesWay ==
  ASSUME NEW tree, NEW way, IsWay(tree, way), NEW s, NEW a
  PROVE  /\ Crosses(way, s, a) => s \in DOMAIN tree /\ OnWay(way, s)
         /\ ~Crosses(<<>>, s, a) /\ ~OnWay(<<>>, s)
         /\ \A j \in 1 .. Len(way) : way[j].node = s => (Crosses(way, s, a) <=> a = way[j].act)
<1>1. DOMAIN way = 1 .. Len(way) /\ way \in Seq([node : States, act : Actions])
  BY LenProperties DEF IsWay
<1>2. \A j \in 1 .. Len(way) : way[j] \in [node : States, act : Actions]
  BY <1>1, ElementOfSeq
<1>3. \A j \in 1 .. Len(way) :
        way[j] = [node |-> s, act |-> a] <=> way[j].node = s /\ way[j].act = a
  BY <1>2
<1>4. Crosses(way, s, a) <=> \E j \in 1 .. Len(way) : way[j].node = s /\ way[j].act = a
  BY <1>1, <1>3 DEF Crosses
<1>5. ~Crosses(<<>>, s, a) /\ ~OnWay(<<>>, s)
  BY EmptySeq DEF Crosses, OnWay
<1> QED BY <1>4, <1>5 DEF IsWay, OnWay

(* LossesAreInFlight, with the path in hand counted apart.                   *)
Counted(tree, p, q) ==
  \A s \in DOMAIN tree : \A a \in Valid(s) :
    tree[s].losses[a] = One(Crosses(p, s, a)) + Load(q, s, a)

LEMMA CountedMeans ==
  ASSUME Waiting
  PROVE  Counted(nodes, path, pending) <=> LossesAreInFlight
<1> SUFFICES ASSUME NEW s, NEW a
             PROVE  Cardinality({i \in InFlight : Crosses(Way(i), s, a)})
                      = One(Crosses(path, s, a)) + Load(pending, s, a)
  BY DEF Counted, LossesAreInFlight
<1>1. DOMAIN pending = 1 .. Len(pending) /\ 0 \notin 1 .. Len(pending)
      /\ IsFiniteSet(Carriers(pending, s, a)) /\ Load(pending, s, a) \in Nat
  BY LenProperties, LoadTyped DEF Waiting
<1> DEFINE all == {i \in InFlight : Crosses(Way(i), s, a)}
<1>2. 0 \notin Carriers(pending, s, a)
  BY <1>1 DEF Carriers
<1>3. CASE Crosses(path, s, a)
  <2>1. all = Carriers(pending, s, a) \cup {0}
    BY <1>1, <1>3 DEF InFlight, Way, Carriers
  <2>2. Cardinality(Carriers(pending, s, a) \cup {0}) = Load(pending, s, a) + 1
    BY <1>1, <1>2, FS_AddElement DEF Load
  <2> HIDE DEF all
  <2>3. Cardinality(all) = 1 + Load(pending, s, a)
    BY <1>1, <2>1, <2>2
  <2> QED BY <1>3, <2>3 DEF One, all
<1>4. CASE ~Crosses(path, s, a)
  <2>1. all = Carriers(pending, s, a)
    BY <1>1, <1>4 DEF InFlight, Way, Carriers
  <2> HIDE DEF all
  <2>2. Cardinality(all) = 0 + Load(pending, s, a)
    BY <1>1, <2>1 DEF Load
  <2> QED BY <1>4, <2>2 DEF One, all
<1> QED BY <1>3, <1>4

LEMMA CountedFrame ==
  ASSUME NEW tree, NEW p, IsWay(tree, p), NEW T, NEW q \in Seq(T),
         \A i \in 1 .. Len(q) : IsWay(tree, q[i].way), Counted(tree, p, q), NEW new,
         \A s \in DOMAIN new :
           \/ s \in DOMAIN tree /\ new[s].losses = tree[s].losses
           \/ s \notin DOMAIN tree /\ new[s] = NewNode(s)
  PROVE  Counted(new, p, q)
<1> SUFFICES ASSUME NEW s \in DOMAIN new, NEW a \in Valid(s)
             PROVE  new[s].losses[a] = One(Crosses(p, s, a)) + Load(q, s, a)
  BY DEF Counted
<1>1. CASE s \in DOMAIN tree
  BY <1>1 DEF Counted
<1>2. CASE s \notin DOMAIN tree
  <2>1. ~Crosses(p, s, a) /\ \A i \in 1 .. Len(q) : ~Crosses(q[i].way, s, a)
    BY <1>2, CrossesWay
  <2>2. Load(q, s, a) = 0
    BY <2>1, LoadTyped
  <2>3. new[s].losses[a] = 0
    BY <1>2 DEF NewNode
  <2> QED BY <2>1, <2>2, <2>3 DEF One
<1> QED BY <1>1, <1>2

LEMMA SettledFrame ==
  ASSUME NEW tree, NEW p, NEW q, Settled(tree, p, q), NEW new, Typed(new),
         \A s \in DOMAIN new :
           \/ s \in DOMAIN tree /\ new[s].visits = tree[s].visits /\ new[s].total = tree[s].total
           \/ s \notin DOMAIN tree /\ new[s] = NewNode(s)
  PROVE  Settled(new, p, q)
<1> SUFFICES ASSUME NEW s \in DOMAIN new, ~OnWay(p, s),
                    \A i \in 1 .. Len(q) : ~OnWay(q[i].way, s)
             PROVE  AddsUp(new[s])
  BY DEF Settled
<1>1. CASE s \in DOMAIN tree
  BY <1>1 DEF Settled, AddsUp
<1>2. CASE s \notin DOMAIN tree
  <2>1. PICK n \in NodeType(s) : n = new[s]
    BY DEF Typed
  <2>2. s \in States
    BY DEF Typed
  <2>3. n.total = 0 /\ \A a \in Valid(s) : n.visits[a] = 0
    BY <1>2, <2>1 DEF NewNode
  <2>4. Total(n.visits) = 0
    BY <2>2, <2>3, VisitsTyped
  <2> QED BY <2>1, <2>3, <2>4 DEF AddsUp
<1> QED BY <1>1, <1>2

LEMMA CountedBackup ==
  ASSUME NEW tree, Typed(tree), NEW way, IsWay(tree, way), NEW repeated \in BOOLEAN,
         NEW T, NEW q \in Seq(T), Counted(tree, way, q),
         NEW new, new = BackedUp(tree, way, repeated)
  PROVE  Counted(new, <<>>, q)
<1>1. /\ DOMAIN new = DOMAIN tree
      /\ \A s \in DOMAIN tree : ~OnWay(way, s) => new[s] = tree[s]
  BY BackedUpTree
<1> SUFFICES ASSUME NEW s \in DOMAIN tree, NEW a \in Valid(s)
             PROVE  new[s].losses[a] = One(Crosses(<<>>, s, a)) + Load(q, s, a)
  BY <1>1 DEF Counted
<1>2. /\ tree[s].losses[a] = One(Crosses(way, s, a)) + Load(q, s, a) /\ Load(q, s, a) \in Nat
      /\ ~Crosses(<<>>, s, a)
  BY LoadTyped, CrossesWay DEF Counted
<1>3. CASE ~OnWay(way, s)
  <2>1. ~Crosses(way, s, a)
    BY <1>3, CrossesWay
  <2> QED BY <1>1, <1>2, <1>3, <2>1 DEF One
<1>4. CASE OnWay(way, s)
  <2>1. PICK j \in 1 .. Len(way) : way[j].node = s
    BY <1>4 DEF OnWay
  <2>2. new[s].losses[a] = IF a = way[j].act THEN Dec(tree[s].losses[a]) ELSE tree[s].losses[a]
    BY <2>1, BackedUpTree
  <2>3. Crosses(way, s, a) <=> a = way[j].act
    BY <2>1, CrossesWay
  <2> QED BY <1>2, <2>2, <2>3 DEF One, Dec
<1> QED BY <1>3, <1>4

(* The last backup of a path through a node makes its value exact: no loss   *)
(* is left in it, and the edge just counted has a child.                     *)
LEMMA SettledBackup ==
  ASSUME NEW tree, Typed(tree), NEW way, IsWay(tree, way), NEW repeated \in BOOLEAN,
         NEW T, NEW q \in Seq(T), \A i \in 1 .. Len(q) : IsWay(tree, q[i].way),
         Settled(tree, way, q), NEW new, new = BackedUp(tree, way, repeated),
         Closed(new), Counted(new, <<>>, q)
  PROVE  Settled(new, <<>>, q)
<1>1. /\ Typed(new) /\ DOMAIN new = DOMAIN tree
      /\ \A s \in DOMAIN tree : ~OnWay(way, s) => new[s] = tree[s]
  BY BackedUpTree
<1> SUFFICES ASSUME NEW s \in DOMAIN tree, \A i \in 1 .. Len(q) : ~OnWay(q[i].way, s)
             PROVE  AddsUp(new[s])
  BY <1>1 DEF Settled
<1>2. CASE ~OnWay(way, s)
  BY <1>1, <1>2 DEF Settled
<1>3. CASE OnWay(way, s)
  <2>1. PICK j \in 1 .. Len(way) : way[j].node = s
    BY <1>3 DEF OnWay
  <2>2. PICK n \in NodeType(s) : n = new[s]
    BY <1>1 DEF Typed
  <2>3. s \in States /\ way[j].act \in Valid(s) /\ tree[s] \in NodeType(s)
    BY <2>1 DEF Typed, IsWay
  <2>4. n.visits[way[j].act] > 0
    <3>1. new[s].visits[way[j].act] = tree[s].visits[way[j].act] + 1
      BY <2>1, <2>3, BackedUpTree
    <3>2. tree[s].visits[way[j].act] \in Nat
      BY <2>3 DEF NodeType
    <3> QED BY <2>2, <3>1, <3>2
  <2>5. n.total = Visits(n)
    BY <2>1, <2>2, BackedUpTree
  <2>6. \A a \in Valid(s) : n.losses[a] = 0 /\ (n.visits[a] > 0 => n.child[a] # Nil)
    <3> SUFFICES ASSUME NEW a \in Valid(s)
                 PROVE  n.losses[a] = 0 /\ (n.visits[a] > 0 => n.child[a] # Nil)
      OBVIOUS
    <3>1. \A i \in 1 .. Len(q) : ~Crosses(q[i].way, s, a)
      BY CrossesWay
    <3>2. Load(q, s, a) = 0 /\ ~Crosses(<<>>, s, a)
      BY <3>1, LoadTyped, CrossesWay
    <3>3. new[s].losses[a] = One(Crosses(<<>>, s, a)) + Load(q, s, a)
      BY <1>1 DEF Counted
    <3> QED BY <1>1, <2>2, <3>2, <3>3 DEF One, Closed
  <2>7. Visits(n) = 1 + Total(n.visits) /\ Total(n.visits) # 0
    BY <2>3, <2>4, <2>6, VisitsTyped
  <2> QED BY <2>2, <2>5, <2>7 DEF AddsUp
<1> QED BY <1>2, <1>3

(* A backup at large: a path leaves those in flight, its leaf is created if  *)
(* need be, and the counters follow.                                         *)
Counts(tree, p, q) == Counted(tree, p, q) /\ Settled(tree, p, q)

LEMMA CountsBackup ==
  ASSUME NEW tree, Typed(tree), Closed(tree), Cyclic(tree), NEW way, IsWay(tree, way), way # <<>>,
         tree[Final(way).node].child[Final(way).act] # Nil,
         NEW repeated \in BOOLEAN, repeated => Final(way).node \in EnvReach(Target(way)),
         NEW T, NEW q \in Seq(T), \A i \in 1 .. Len(q) : IsWay(tree, q[i].way),
         Counts(tree, way, q), NEW new, new = BackedUp(tree, way, repeated)
  PROVE  Counts(new, <<>>, q)
<1>1. Closed(new)
  BY BackedUpKept
<1>2. Counted(new, <<>>, q)
  BY CountedBackup DEF Counts
<1> QED BY <1>1, <1>2, SettledBackup DEF Counts

LEMMA ExpandedFrame ==
  ASSUME NEW tree, Typed(tree), NEW way, IsWay(tree, way), way # <<>>, NEW new,
         new = Expanded(tree, Final(way).node, Final(way).act, Target(way))
  PROVE  \A t \in DOMAIN new :
           \/ /\ t \in DOMAIN tree /\ new[t].visits = tree[t].visits
              /\ new[t].losses = tree[t].losses /\ new[t].total = tree[t].total
           \/ t \notin DOMAIN tree /\ new[t] = NewNode(t)
<1>0. PICK s \in DOMAIN tree : s = Final(way).node
  BY FinalEdge
<1>1. PICK a \in Valid(s) : a = Final(way).act
  BY <1>0, FinalEdge
<1>2. PICK leaf : leaf = Target(way)
  OBVIOUS
<1>3. leaf = Succ[s][a] /\ new = Expanded(tree, s, a, leaf)
  BY <1>0, <1>1, <1>2 DEF Target
<1>4. GrownBy(tree, s, a, leaf, new)
  BY <1>3, ExpandedTree
<1> QED BY <1>4 DEF GrownBy

LEMMA CountsExpanded ==
  ASSUME NEW tree, Typed(tree), Closed(tree), Cyclic(tree), NEW way, IsWay(tree, way), way # <<>>,
         NEW T, NEW q \in Seq(T), \A i \in 1 .. Len(q) : IsWay(tree, q[i].way),
         Counts(tree, way, q), NEW grown,
         grown = Expanded(tree, Final(way).node, Final(way).act, Target(way)),
         NEW new, new = BackedUp(grown, way, FALSE)
  PROVE  Counts(new, <<>>, q)
<1>1. /\ Typed(grown) /\ Closed(grown) /\ Cyclic(grown)
      /\ grown[Final(way).node].child[Final(way).act] # Nil
      /\ \A w : IsWay(tree, w) => IsWay(grown, w)
  BY ExpandedKept
<1>2. \A t \in DOMAIN grown :
        \/ /\ t \in DOMAIN tree /\ grown[t].visits = tree[t].visits
           /\ grown[t].losses = tree[t].losses /\ grown[t].total = tree[t].total
        \/ t \notin DOMAIN tree /\ grown[t] = NewNode(t)
  BY ExpandedFrame
<1>3. Counted(grown, way, q)
  BY <1>2, CountedFrame DEF Counts
<1>4. Settled(grown, way, q)
  BY <1>1, <1>2, SettledFrame DEF Counts
<1>5. Counts(grown, way, q) /\ \A i \in 1 .. Len(q) : IsWay(grown, q[i].way)
  BY <1>1, <1>3, <1>4 DEF Counts
<1> QED BY <1>1, <1>5, CountsBackup

(* What every step does to the counters.                                     *)
Edge == [node : States, act : Actions]
Leaves == [way : Seq(Edge), leaf : States]
IndInv == SearchInv /\ Counts(nodes, path, pending)

LEMMA CountsInit == Init => Counts(nodes, path, pending)
BY DEF Init, Counts, Counted, Settled

(* Steps that leave the paths alone.                                         *)
LEMMA CountsFrame ==
  ASSUME SearchInv, SearchInv', Counts(nodes, path, pending), path' = path, pending' = pending,
         \A s \in DOMAIN nodes' :
           \/ s \in DOMAIN nodes /\ nodes'[s] = nodes[s]
           \/ s \notin DOMAIN nodes /\ nodes'[s] = NewNode(s)
  PROVE  Counts(nodes', path', pending')
<1>1. PICK new : new = nodes'
  OBVIOUS
<1>2. IsWay(nodes, path) /\ pending \in Seq(Leaves)
      /\ \A i \in 1 .. Len(pending) : IsWay(nodes, pending[i].way)
  BY DEF SearchInv, Searching, Waiting, Edge, Leaves
<1>3. Typed(new)
  BY <1>1 DEF SearchInv, TreeInv
<1>4. Counted(new, path, pending)
  BY <1>1, <1>2, CountedFrame DEF Counts
<1>5. Settled(new, path, pending)
  BY <1>1, <1>3, SettledFrame DEF Counts
<1> QED BY <1>1, <1>4, <1>5 DEF Counts

(* A selection that goes on: one more loss, and one more edge under way.     *)
LEMMA CountsDescend ==
  ASSUME SearchInv, SearchInv', Counts(nodes, path, pending), NEW a \in Actions, Descend(a)
  PROVE  Counts(nodes', path', pending')
<1>1. /\ pc = "select" /\ node \in DOMAIN nodes /\ ~OnPath(game) /\ a \in Valid(node)
      /\ nodes' = OneMoreLoss(nodes, node, a)
      /\ path' = Append(path, [node |-> node, act |-> a])
      /\ pending' = pending
  BY DEF Descend, OneMoreLoss, Exists
<1>2. /\ game = node /\ IsWay(nodes, path) /\ Typed(nodes)
      /\ path # <<>> => nodes[Final(path).node].child[Final(path).act] = node
  BY <1>1 DEF SearchInv, TreeInv, Searching
<1>3. \A i \in 1 .. Len(path) : path[i].node # node
  BY <1>1, <1>2, PathDomain DEF OnPath, SearchInv
<1>4. PICK u \in DOMAIN nodes : u = node
  BY <1>1
<1>5. PICK longer : longer = path'
  OBVIOUS
<1>6. PICK n \in Nat : n = Len(path)
  BY PathDomain DEF SearchInv
<1>7. /\ IsWay(nodes, longer) /\ Len(longer) = n + 1
      /\ \A i \in 1 .. n : longer[i] = path[i]
      /\ longer[n + 1].node = u /\ longer[n + 1].act = a
  <2>1. longer = Longer(path, u, a)
    BY <1>1, <1>4, <1>5 DEF Longer
  <2>2. a \in Valid(u) /\ \A i \in 1 .. Len(path) : path[i].node # u
    BY <1>1, <1>3, <1>4
  <2>3. path # <<>> => nodes[Final(path).node].child[Final(path).act] = u
    BY <1>2, <1>4
  <2>4. /\ IsWay(nodes, longer) /\ longer # <<>>
        /\ Len(path) \in Nat /\ Len(longer) = Len(path) + 1
        /\ Final(longer) = [node |-> u, act |-> a]
        /\ \A i \in 1 .. Len(path) : longer[i] = path[i]
        /\ longer[Len(path) + 1] = [node |-> u, act |-> a]
    BY <1>2, <2>1, <2>2, <2>3, WayExtended
  <2> QED BY <1>6, <2>4
<1>8. PICK new : new = nodes'
  OBVIOUS
<1>9. /\ DOMAIN new = DOMAIN nodes
      /\ \A t \in DOMAIN nodes :
           /\ new[t].child = nodes[t].child /\ new[t].visits = nodes[t].visits
           /\ new[t].penalties = nodes[t].penalties /\ new[t].total = nodes[t].total
           /\ \A b \in Valid(t) : new[t].losses[b] = IF t = u /\ b = a THEN nodes[t].losses[b] + 1
                                                     ELSE nodes[t].losses[b]
  <2>1. new = OneMoreLoss(nodes, u, a) /\ a \in Valid(u)
    BY <1>1, <1>4, <1>8
  <2> QED BY <1>2, <2>1, LossKept
<1>10. \A i \in 1 .. n + 1 : i \in 1 .. n \/ i = n + 1
  OBVIOUS
<1>11. \A s : OnWay(longer, s) <=> OnWay(path, s) \/ s = u
  <2>1. 1 .. n \subseteq 1 .. n + 1 /\ n + 1 \in 1 .. n + 1
    OBVIOUS
  <2> QED BY <1>6, <1>7, <1>10, <2>1 DEF OnWay
<1>12. \A s, b : Crosses(longer, s, b) <=> Crosses(path, s, b) \/ (s = u /\ b = a)
  <2> SUFFICES ASSUME NEW s, NEW b
               PROVE  Crosses(longer, s, b) <=> Crosses(path, s, b) \/ (s = u /\ b = a)
    OBVIOUS
  <2>1. n + 1 \in 1 .. Len(longer)
    BY <1>7
  <2>2. CASE s = u
    <3>1. ~OnWay(path, u)
      BY <1>3, <1>4 DEF OnWay
    <3>2. ~Crosses(path, s, b)
      BY <1>2, <2>2, <3>1, CrossesWay
    <3>3. Crosses(longer, s, b) <=> b = a
      BY <1>7, <2>1, <2>2, CrossesWay
    <3> QED BY <2>2, <3>2, <3>3
  <2>3. CASE s # u
    <3>1. CASE OnWay(path, s)
      <4>1. PICK j \in 1 .. n : path[j].node = s
        BY <1>6, <3>1 DEF OnWay
      <4>2. j \in 1 .. Len(longer) /\ longer[j] = path[j] /\ j \in 1 .. Len(path)
        BY <1>6, <1>7, <4>1
      <4>3. Crosses(path, s, b) <=> b = path[j].act
        BY <1>2, <4>1, <4>2, CrossesWay
      <4>4. Crosses(longer, s, b) <=> b = path[j].act
        BY <1>7, <4>1, <4>2, CrossesWay
      <4> QED BY <2>3, <4>3, <4>4
    <3>2. CASE ~OnWay(path, s)
      BY <1>2, <1>7, <1>11, <2>3, <3>2, CrossesWay
    <3> QED BY <3>1, <3>2
  <2> QED BY <2>2, <2>3
<1>13. Counted(new, longer, pending)
  <2> SUFFICES ASSUME NEW s \in DOMAIN nodes, NEW b \in Valid(s)
               PROVE  new[s].losses[b] = One(Crosses(longer, s, b)) + Load(pending, s, b)
    BY <1>9 DEF Counted
  <2>1. nodes[s].losses[b] = One(Crosses(path, s, b)) + Load(pending, s, b)
    BY DEF Counts, Counted
  <2>2. Load(pending, s, b) \in Nat
    BY LoadTyped DEF SearchInv, Waiting
  <2>3. ~Crosses(path, u, a)
    <3>1. ~OnWay(path, u)
      BY <1>3, <1>4 DEF OnWay
    <3> QED BY <1>2, <3>1, CrossesWay
  <2>4. CASE s = u /\ b = a
    BY <1>9, <1>12, <2>1, <2>2, <2>3, <2>4 DEF One
  <2>5. CASE ~(s = u /\ b = a)
    <3>1. new[s].losses[b] = nodes[s].losses[b]
      BY <1>9, <2>5
    <3>2. Crosses(longer, s, b) <=> Crosses(path, s, b)
      BY <1>12, <2>5
    <3> QED BY <2>1, <3>1, <3>2 DEF One
  <2> QED BY <2>4, <2>5
<1>14. Settled(new, longer, pending)
  BY <1>9, <1>11 DEF Counts, Settled, AddsUp
<1> QED BY <1>1, <1>5, <1>8, <1>13, <1>14 DEF Counts

(* A path moves from the hand to the queue, with the edges it crosses.       *)
LEMMA CountsEnqueue ==
  ASSUME SearchInv, Counts(nodes, path, pending), Enqueue
  PROVE  Counts(nodes', path', pending')
<1>1. PICK p : p = [way |-> path, leaf |-> game]
  OBVIOUS
<1>2. /\ path' = <<>> /\ nodes' = nodes /\ pc = "leaf" /\ p.way = path
  BY <1>1 DEF Enqueue
<1>3. PICK r : r = pending'
  OBVIOUS
<1>4. r = Append(pending, p) /\ pending \in Seq(Leaves) /\ p \in Leaves /\ IsWay(nodes, path)
  BY <1>1, <1>2, <1>3
     DEF Enqueue, SearchInv, Searching, Selecting, Waiting, IsWay, Edge, Leaves
<1>5. PICK n \in Nat : n = Len(pending)
  BY <1>4, LenProperties
<1>6. Len(r) = n + 1 /\ r[n + 1] = p /\ \A i \in 1 .. n : r[i] = pending[i]
  BY <1>4, <1>5, AppendProperties
<1>7. Counted(nodes, <<>>, r)
  <2> SUFFICES ASSUME NEW s \in DOMAIN nodes, NEW a \in Valid(s)
               PROVE  nodes[s].losses[a] = One(Crosses(<<>>, s, a)) + Load(r, s, a)
    BY DEF Counted
  <2>1. nodes[s].losses[a] = One(Crosses(path, s, a)) + Load(pending, s, a)
    BY DEF Counts, Counted
  <2>2. Load(r, s, a) = Load(pending, s, a) + One(Crosses(path, s, a))
    <3>1. r[n + 1].way = path /\ pending \in Seq(Leaves)
      BY <1>2, <1>4, <1>6
    <3> QED BY <1>5, <1>6, <3>1, LoadAppend
  <2>3. ~Crosses(<<>>, s, a) /\ Load(pending, s, a) \in Nat
    BY <1>4, CrossesWay, LoadTyped
  <2> QED BY <1>2, <2>1, <2>2, <2>3 DEF One
<1>8. Settled(nodes, <<>>, r)
  <2> SUFFICES ASSUME NEW s \in DOMAIN nodes, \A i \in 1 .. Len(r) : ~OnWay(r[i].way, s)
               PROVE  AddsUp(nodes[s])
    BY DEF Settled
  <2>1. n + 1 \in 1 .. n + 1 /\ \A i \in 1 .. n : i \in 1 .. n + 1
    OBVIOUS
  <2>2. ~OnWay(path, s) /\ \A i \in 1 .. n : ~OnWay(pending[i].way, s)
    BY <1>2, <1>6, <2>1
  <2> QED BY <1>5, <2>2 DEF Counts, Settled
<1> QED BY <1>2, <1>3, <1>7, <1>8 DEF Counts

(* A path moves from the queue to the hand: how Resolve begins.              *)
LEMMA CountsHead ==
  ASSUME SearchInv, pending # <<>>, Counts(nodes, <<>>, pending)
  PROVE  Counts(nodes, Head(pending).way, Tail(pending))
<1>1. PICK r : r = Tail(pending)
  OBVIOUS
<1>2. PICK way : way = Head(pending).way
  OBVIOUS
<1>3. PICK n \in Nat : n = Len(pending)
  BY LenProperties DEF SearchInv, Waiting
<1>4. /\ IsWay(nodes, way) /\ way = pending[1].way /\ 1 \in 1 .. n
      /\ Len(r) = n - 1 /\ \A i \in 1 .. n - 1 : r[i] = pending[i + 1]
  BY <1>1, <1>2, <1>3, FirstPending DEF SearchInv
<1>5. pending \in Seq(Leaves)
  BY DEF SearchInv, Waiting, Leaves, Edge
<1>6. Counted(nodes, way, r)
  <2> SUFFICES ASSUME NEW s \in DOMAIN nodes, NEW a \in Valid(s)
               PROVE  nodes[s].losses[a] = One(Crosses(way, s, a)) + Load(r, s, a)
    BY DEF Counted
  <2>1. nodes[s].losses[a] = One(Crosses(<<>>, s, a)) + Load(pending, s, a)
    BY DEF Counts, Counted
  <2>2. Load(pending, s, a) = Load(r, s, a) + One(Crosses(way, s, a))
    BY <1>1, <1>2, <1>5, LoadTail
  <2>3. r \in Seq(Leaves)
    BY <1>1, <1>5, HeadTailProperties
  <2>4. Load(r, s, a) \in Nat /\ ~Crosses(<<>>, s, a)
    BY <1>4, <2>3, LoadTyped, CrossesWay
  <2> QED BY <2>1, <2>2, <2>4 DEF One
<1>7. Settled(nodes, way, r)
  <2> SUFFICES ASSUME NEW s \in DOMAIN nodes, ~OnWay(way, s),
                      \A i \in 1 .. Len(r) : ~OnWay(r[i].way, s)
               PROVE  AddsUp(nodes[s])
    BY DEF Settled
  <2>1. \A i \in 1 .. n : ~OnWay(pending[i].way, s)
    <3> SUFFICES ASSUME NEW i \in 1 .. n, i # 1 PROVE ~OnWay(pending[i].way, s)
      BY <1>4
    <3>1. i - 1 \in 1 .. n - 1 /\ i - 1 + 1 = i
      OBVIOUS
    <3>2. r[i - 1] = pending[i]
      BY <1>4, <3>1
    <3> QED BY <1>4, <3>1, <3>2
  <2>2. ~OnWay(<<>>, s)
    BY <1>4, CrossesWay
  <2> QED BY <1>3, <2>1, <2>2 DEF Counts, Settled
<1> QED BY <1>1, <1>2, <1>6, <1>7 DEF Counts

LEMMA CountsResolve ==
  ASSUME SearchInv, Counts(nodes, path, pending), Resolve
  PROVE  Counts(nodes', path', pending')
<1>1. PICK way : way = Head(pending).way
  OBVIOUS
<1>2. PICK r : r = Tail(pending)
  OBVIOUS
<1>3. path = <<>> /\ path' = <<>> /\ pending' = r /\ pending # <<>>
  BY <1>2 DEF Resolve, SearchInv, Searching, Selecting
<1>4. IsWay(nodes, way) /\ way # <<>> /\ Head(pending).leaf = Target(way)
  BY <1>1, <1>3, FirstPending DEF SearchInv
<1>5. PICK grown : grown = Expanded(nodes, Final(way).node, Final(way).act, Target(way))
  OBVIOUS
<1>6. PICK new : new = nodes'
  OBVIOUS
<1>7. new = BackedUp(grown, way, FALSE)
  BY <1>1, <1>4, <1>5, <1>6 DEF Resolve, Final
<1>8. Counts(nodes, way, r)
  BY <1>1, <1>2, <1>3, CountsHead
<1>9. r \in Seq(Leaves)
  BY <1>2, <1>3, HeadTailProperties DEF SearchInv, Waiting, Leaves, Edge
<1>10. \A i \in 1 .. Len(r) : IsWay(nodes, r[i].way)
  <2>1. PICK n \in Nat : n = Len(pending)
    BY LenProperties DEF SearchInv, Waiting
  <2>2. Len(r) = n - 1 /\ \A i \in 1 .. n - 1 : r[i] = pending[i + 1] /\ i + 1 \in 1 .. n
    BY <1>2, <1>3, <2>1, FirstPending DEF SearchInv
  <2> QED BY <2>1, <2>2 DEF SearchInv, Waiting
<1>11. Typed(nodes) /\ Closed(nodes) /\ Cyclic(nodes)
  BY DEF SearchInv, TreeInv
<1>12. Counts(new, <<>>, r)
  BY <1>4, <1>5, <1>7, <1>8, <1>9, <1>10, <1>11, CountsExpanded
<1> QED BY <1>3, <1>6, <1>12

(* Repeats and terminal states. *)
LEMMA CountsImmediate ==
  ASSUME SearchInv, Counts(nodes, path, pending), ImmediateBackup
  PROVE  Counts(nodes', path', pending')
<1>1. /\ path' = <<>> /\ pending' = pending /\ path # <<>> /\ pc \in {"repeat", "leaf"}
      /\ IsWay(nodes, path) /\ pending \in Seq(Leaves)
      /\ \A i \in 1 .. Len(pending) : IsWay(nodes, pending[i].way)
      /\ Typed(nodes) /\ Closed(nodes) /\ Cyclic(nodes)
  BY DEF ImmediateBackup, SearchInv, TreeInv, Searching, Waiting, Leaves, Edge
<1>2. PICK new : new = nodes'
  OBVIOUS
<1>3. CASE pc = "repeat"
  <2>1. new = BackedUp(nodes, path, TRUE)
    BY <1>2, <1>3 DEF ImmediateBackup
  <2>2. nodes[Final(path).node].child[Final(path).act] # Nil
    BY <1>1, <1>3, MctsAssumption DEF SearchInv, Searching, Selecting, Typed
  <2>3. Final(path).node \in EnvReach(Target(path))
    <3>1. PICK i \in 1 .. Len(path) : path[i].node = game
      BY <1>3, PathDomain DEF SearchInv, Searching, OnPath
    <3>2. path[Len(path)].node \in EnvReach(path[i].node)
      BY <3>1, PathDomain DEF SearchInv, Searching
    <3>3. Target(path) = game
      BY <1>1, <1>3 DEF SearchInv, Searching
    <3> QED BY <3>1, <3>2, <3>3 DEF Final
  <2>4. Counts(new, <<>>, pending)
    BY <1>1, <2>1, <2>2, <2>3, CountsBackup
  <2> QED BY <1>1, <1>2, <2>4
<1>4. CASE pc = "leaf"
  <2>1. PICK grown : grown = Expanded(nodes, Final(path).node, Final(path).act, Target(path))
    OBVIOUS
  <2>2. game = Target(path)
    BY <1>1, <1>4 DEF SearchInv, Searching
  <2>3. new = BackedUp(grown, path, FALSE)
    BY <1>2, <1>4, <2>1, <2>2 DEF ImmediateBackup, LastEdge, Final
  <2>4. Counts(new, <<>>, pending)
    BY <1>1, <2>1, <2>3, CountsExpanded
  <2> QED BY <1>1, <1>2, <2>4
<1> QED BY <1>1, <1>3, <1>4

LEMMA CountsNext ==
  ASSUME SearchInv, SearchInv', Counts(nodes, path, pending), [Next]_vars
  PROVE  Counts(nodes', path', pending')
<1> USE DEF callerVars, searchVars
<1>1. CASE \E n \in StepCounts : BeginRun(n)
  <2>1. nodes' = WithNode(nodes, env) /\ path' = path /\ pending' = pending
    BY <1>1 DEF BeginRun
  <2>2. Typed(nodes) /\ env \in States
    BY DEF SearchInv, TreeInv, Searching
  <2>3. PICK new : new = WithNode(nodes, env)
    OBVIOUS
  <2>4. \A s \in DOMAIN new :
          \/ s \in DOMAIN nodes /\ new[s] = nodes[s]
          \/ s \notin DOMAIN nodes /\ new[s] = NewNode(s)
    BY <2>3 DEF WithNode
  <2> QED BY <2>1, <2>3, <2>4, CountsFrame
<1>2. CASE BeginBatch \/ EndRun \/ BeginSelect \/ StopSelect \/ SkipLeaf \/ EndBatch
           \/ PerturbRootPrior \/ (\E a \in Actions : Move(a))
           \/ Visit \/ EndReach \/ Drain \/ UNCHANGED vars
  <2>1. nodes' = nodes /\ path' = path /\ pending' = pending
    BY <1>2 DEF BeginBatch, EndRun, BeginSelect, StopSelect, SkipLeaf, EndBatch,
                PerturbRootPrior, Move, Visit, EndReach, Drain, vars, SearchInv, Searching,
                Selecting, Resting, Pruned
  <2> QED BY <2>1, CountsFrame
<1>3. CASE \E a \in Actions : Descend(a)
  BY <1>3, CountsDescend
<1>4. CASE Enqueue
  BY <1>4, CountsEnqueue
<1>5. CASE ImmediateBackup
  BY <1>5, CountsImmediate
<1>6. CASE Resolve
  BY <1>6, CountsResolve
<1>7. CASE EndPrune
  <2>1. path' = path /\ pending' = pending
    BY <1>7 DEF EndPrune
  <2>2. nodes' = Kept(nodes, root) /\ root \in DOMAIN nodes
    BY <1>7, EndPruneKeeps DEF EndPrune, SearchInv, Pruning, Pruned
  <2>3. PICK new : new = nodes'
    OBVIOUS
  <2>4. \A s \in DOMAIN new : s \in DOMAIN nodes /\ new[s] = nodes[s]
    BY <2>2, <2>3, KeptTree DEF SearchInv, TreeInv
  <2> QED BY <2>1, <2>3, <2>4, CountsFrame
<1> QED BY <1>1, <1>2, <1>3, <1>4, <1>5, <1>6, <1>7 DEF Next

(* At every step of run the counters of a node agree with the paths in       *)
(* flight: its losses with those that cross an edge, node_visits with its    *)
(* visits unless one goes through it.                                        *)
THEOREM IndInvHolds == Spec => []IndInv
<1>1. Init => IndInv
  BY SearchInvInit, CountsInit DEF IndInv
<1>2. IndInv /\ [Next]_vars => IndInv'
  BY SearchInvNext, CountsNext DEF IndInv
<1> QED BY <1>1, <1>2, PTL DEF Spec

(* Virtual losses balance: the counter of an edge is the number of paths     *)
(* that select_leaf sent over it and backpropagate has not yet taken back,   *)
(* whatever the batch size and however the paths of a batch overlap.  In     *)
(* particular none is left when run returns.                                 *)
THEOREM LossesCorrect == Spec => []LossesAreInFlight
<1>1. IndInv => LossesAreInFlight
  BY CountedMeans DEF IndInv, SearchInv, Counts
<1> QED BY <1>1, IndInvHolds, PTL

(* When run has returned, node_visits is exact: recompute_value's sum of     *)
(* edge visits and virtual losses has lost every virtual loss, in every node *)
(* of the transposition table and in those advance_root kept.                *)
THEOREM VisitsAddUpCorrect == Spec => []VisitsAddUp
<1>1. IndInv => VisitsAddUp
  <2> SUFFICES ASSUME IndInv, pc = "idle", NEW s \in DOMAIN nodes PROVE AddsUp(nodes[s])
    BY DEF VisitsAddUp, AddsUp
  <2>1. path = <<>> /\ pending = <<>>
    BY DEF IndInv, SearchInv, Searching, Waiting, Selecting, Resting, Pruned
  <2>2. Len(path) = 0 /\ Len(pending) = 0
    BY <2>1, EmptySeq
  <2>3. ~OnWay(path, s) /\ \A i \in 1 .. Len(pending) : ~OnWay(pending[i].way, s)
    BY <2>2 DEF OnWay
  <2> QED BY <2>3 DEF IndInv, Counts, Settled
<1> QED BY <1>1, IndInvHolds, PTL
================================================================================
