# A verification of mcts

TLA+ modules, TLC instances and TLAPS proofs for the repository: a batched
Monte Carlo tree search in Rust (`mcts-core`), its inference over shared memory,
and the self-play pipeline around it (`mcts-tilers`). Paths below are relative to
`src/`.

## 1. The system

| Component | Code | State | Operations | Interacts with |
|---|---|---|---|---|
| Ring queue, spin lock | `mcts-core/src/ipc_core.rs` 40-168 | lock flag, head, tail, QCAP cells in shared memory | `lock`, `unlock`, `try_push`, `try_pop`, the blocking forms | every process that maps the arena |
| Arena creation | same file, 229-337 | magic, version, `init_lock`, `init_done`, both queues, slot states | `create_or_open` | handlers, gatherers and the evaluator open one file by name |
| Slot protocol | same file 340-450, `client.rs`, `py_ipc.rs` | state word, request fields, inputs and outputs of each slot | `acquire_slot`, fill, `submit_to_handler`, `wait_done`, read, `release_slot`, `force_reset` | clients and handlers |
| Handler loop | `python/mcts_tilers/handler.py` 55-228 | the slots of the batch in hand | pop, clear, build a batch, infer, write back, mark, metrics, two `except` branches | ready queue, slots |
| Tree search | `mcts-core/src/mcts.rs`, `node.rs` | transposition table, nodes (visits, virtual losses, penalties, children), noise | `run`, `select_leaf`, `expand`, `backpropagate`, `advance_root`, `perturb_root_prior` | an `InferenceClient`, an `Environment` |
| Search arithmetic | `mcts.rs` 410-570, 791-945 | none | `puct_scores`, `policy_target` | the search |
| Gatherer, episodes | `mcts-tilers/src/gatherer.rs` 450-587, 689-1365 | the episode's moves, streak and records; four files of the worker | `gather`, `run_episode_from`, `write_episode`, `write_demo_episode` | the search, the worker's shard, trajectories, log, bank of gold |
| Gatherer, reverse curriculum | same file 618-683 | the curriculum's bracket, the two episodes it keeps | `gather_reverse_curriculum`, `next_probe_k` | episodes |
| Evaluator | `mcts-tilers/src/evaluator.rs` | rows of `solutions` | `evaluate_agent_with_client`, `load_holdout_environments` | database, search |
| Orchestrator | `python/mcts_tilers/orchestrator.py` | state file, database, shards, checkpoints, child processes | three phases, `promote_candidate`, `retire_shards`, `start_handlers` | all of the above, the trainer (not in the repository) |
| Layout, adapters, programs | `slot.rs`, `environment.rs`, `constants.rs`, `py_mcts.rs`, `lib.rs`, `bin/` | none of their own | packing, conversion, command lines | |

What is hard, and what makes each part correct:

* **Ring queue.** Threads of several processes interleave between the lock, the
  loads and the stores; one cell stays empty to tell full from empty. Correct: each
  call takes effect at one instant, as on a bounded FIFO.
* **Arena creation.** Several processes find the file uninitialised at once, and
  `need_init` is computed before the lock. Correct: one initialiser at a time, nobody
  uses an arena before it is initialised, everybody returns - unless the initialiser was
  killed with the lock in its hand, which the code does not recover from.
* **Slot protocol and handler.** Two clients and two handlers on the same slots; a
  slot is reused at once; batches fail, handlers are interrupted, clients die.
  Correct: a slot has one owner, a request is in one place, every answer is the answer
  to the request just made, nobody waits for ever; and where an interrupted handler leaves
  a batch unmarked, only the clients of that batch hang.
* **Search.** A batch of paths in flight shares edges, the table makes the tree a graph
  with transpositions and cycles, and `advance_root` searches the graph, compacts the arena
  and builds a new index. Correct: virtual losses balance, visits add up, no id dangles,
  what is kept is what can be reached, each node under its own id, `run` ends.
* **Search arithmetic.** Forced visits must be taken out of the target exactly as far as
  the scores allow, and what is left must still be a target led by the move the search
  preferred.
* **Episodes.** What becomes of an episode is decided in many places: the streak that
  resigns it, five ways to grade it, two filters, four files appended one after the other
  by a worker that may be killed, and a demonstration that follows a failure. Correct:
  an episode is resigned where its streak ends and nowhere else, its records are complete
  or dropped for the reasons the filters name, gold is a part of the corpus but for what a
  kill spoils, a kill spoils one line, and a demonstration shows the states of its plan.
* **Curriculum.** An agent that solves a long tail and fails a short one must not fool
  the bisection.
* **Pipeline.** Killed between any two effects and restarted, in the middle of the move of
  a shard too. Correct: no phase is skipped or repeated after its result was saved, no move
  overwrites or drops lines, verdicts are complete and promotions form one chain, every
  iteration ends.

## 2. The modules

| Module | What it is |
|---|---|
| `BoundedFifo` | abstract: a bounded FIFO with calls, effects and returns |
| `RingQueue` | `SpinLock` and `RingQueue`, one shared access per step; implements `BoundedFifo` |
| `InferenceService` | abstract: one request of a client at a time, answered once, with its result or (if batches may fail) with zeros |
| `Arena` | client, slots and handlers; implements `InferenceService` |
| `ArenaInit` | `create_or_open` by overlapping callers that may be killed, then use of the slots |
| `Mcts` | the search and the game loop around it |
| `Orchestrator` | the pipeline with its files, database, kills and failures, and the evaluator's loop |
| `Gatherer` | calls of `gather`: the episode, its grade, the files it is written to, kills of the worker |
| `ReverseCurriculum` | the search for the edge of the agent's ability |
| `PolicyTarget` | `policy_target` over rationals, one step per child, and the counts recorded of it |
| `MC*` | values of the constants for TLC |
| `RingQueueProofs` | proofs about `RingQueue` |
| `ArenaProofs` | proofs about `Arena`, the refinement of `InferenceService` included |
| `ArenaInitProofs` | proofs about `ArenaInit` |
| `MctsProofs` | proofs about `Mcts` |
| `OrchestratorProofs` | proofs about `Orchestrator` |
| `GathererProofs` | proofs about `Gatherer` |
| `ReverseCurriculumProofs` | proofs about `ReverseCurriculum` |
| `PolicyTargetProofs` | proofs about `PolicyTarget` |

They compose by refinement: `Arena` uses as its queues the FIFOs `RingQueue` is shown
to implement; `Mcts` takes from its client what `InferenceService` promises;
`Gatherer` sees a search of `Mcts` as what it decides by, and leaves to `ReverseCurriculum`
which tails are probed; and `Orchestrator` sees a call of `gather` as lines in a shard, and
an episode or an evaluation as a step that the handlers of the right arena must serve.
Definitions named `Mut...` are deliberate slips, used only to see that a property notices
them: each stands before the definition it would replace.

### Correspondence with the code

**RingQueue.** `pc` is the line a thread is at inside an operation: `idle`, `lock`
(`SpinLock::lock`, a compare-exchange), `load` (head and tail), `copy` (the cell),
`publish` (the index store), `unlock`. A blocking call that fails goes round again.
Acquire and release orders are abstracted to the lock: everything inside it is seen by
the next owner, as in the code, where head, tail and cells are touched under it only.

**Arena.** `cpc`/`hpc` are positions in `TilersIpcClient::infer` and in `do_work`. A
request stands for the fields and observations a client writes, an output for the
request it was computed from, or `Zero`. `request` is written and `state` set READY in
separate steps, then the slot is submitted; `release_slot` stores FREE and pushes in
separate steps. The handler's `except` branches mark all of `slot_views`, one slot per
step, in the order of the list. `HAbandon` is a `KeyboardInterrupt` where no branch
marks slots; the handler that stopped keeps in `views` the slots it abandoned. Clients and
handlers that die just stop: `Spec` never obliges them to go on. `force_reset` is four
kinds of steps, each queue's `init` and each slot's state and push, which clients and handlers
interleave with; one call runs at a time, and the words of a queue are cleared when no
operation on it is under way (the arena's queues are the abstract FIFOs). `stale` records
that some client held a slot when a reset began: properties that no code upholds after that
say `~stale`. A handler may hold old slots, and clients may acquire slots while it runs.

**ArenaInit.** Each access to the header is a step. `need_init` reads three words; the
model reads them at once, since between two of these reads the others can only turn
from "needs" to "does not". Of the two queues that are initialised (283-284) only the free one
is in the module: nobody here uses the other. All callers pass equal sizes. `Die` stops a process anywhere,
with its locks taken and its slot held; the file stays as it is, so a lock word of a dead
initialiser stays 1 (`Orphaned`).

**Mcts.** A state stands for its hash, which is the node's id and what `children` hold.
`arena` lists the ids of the entries of the vector of nodes in order, `table` is the
transposition table (an index of each id), and `nodes` is the record a lookup of an id
finds. `advance_root` is four kinds of steps: a round of the breadth-first search (`Visit`, the
child slots in any order), a round of the loop over `nodes.drain` (`Drain`, which gives an
entry its new index), their ends, and in `EndPrune` the records that the new table finds in the
new arena. Children hold ids and not indices, in the code as here, so nothing in them is
rewritten. PUCT is abstracted to the choice of any valid action, which covers every
prior, value, temperature, forced playout and noise. `run` is split where another path
of the batch can intervene in the effects: selection, enqueueing, resolution.

**Orchestrator.** `file` is what survives, `state` is the dict in memory. Each phase
function is a sequence of steps, one for each durable effect, so that `Kill` falls
between any two of them; a kill takes the children along or leaves them (`handlers`,
`strays`). The transaction in `promote_candidate` is one step. `Raise` is a failing
phase whose `finally` clauses stop the handlers. The lines a worker writes are numbered,
and a shard, or a retired file, is the set of the lines in it: no order matters to the
pipeline, only which file a line is in. `retire_shards` lists the shards and moves one after
the other to a name it tests once (`Dest`): by a rename, or, between file systems, by a copy
and then an unlink, with kills and the appends of surviving gatherers between the two. What
lands on a name that is taken replaces it (`Filed`). `promoted_at` and the suffix of a retired
name are wall-clock text of one second in the code. Here they are the position of the
verdict, and the number of the training (`Second`): two verdicts are two warm-ups of handlers
apart, two retirements of one shard a training.

**PolicyTarget.** Floating-point numbers are rationals written with integers: the visits
of the root are a square, priors are squares over their sum, and the temperature of the
root's softmax is 1 or 2, so that every root in the code is exact. `Gain` and `Q` are the
two parts of PUCT in a common unit; `MaxSubtract` is the code's closed form, quotient and
floor included, and `ForcedVisitsRemoved` compares it with the maximum over all numbers of
visits. Every visited child is linked to a node (`expand`), so the first-play urgency in
`policy_target` is not read. The loop goes over the HashMap in any order.

**Gatherer.** `ep` has the locals of `run_episode_from`, `best` and `failed` those of the
climb, `queue` the episodes handed to `write_episode` and `turn` the one in hand; `pc` is the
place in the episode or the file that is being written. A search is reduced to whether it
was a full one and whether its root value is at or below the threshold, a move to whether
it ends the game. `Grades` are the pairs of `score` and `reward_kind` the branches of lines
938-1031 can give; a score is told apart as far as the code does (`Levels`: at most the
saturation floor, negative, zero, positive). `allowed`, the choice between the whole
environment and tails, and `floor_keep_fraction` are random in the code and free choices
in the model. A file is its lines since the call began, the number of unreadable ones before, and
whether the last line is cut: a kill leaves any prefix of the text a `BufWriter` holds
(`Torn`), and the next text goes on in the cut line (`Continued`). Which tails are probed
is arbitrary, and so are the objectives left in a tail. A demonstration's loop has two ways
round: an action without an id (529-541), which is played and not recorded (`DemoSkip`), and
one that may be recorded and is then played (`DemoStep`). `max_actions` overrides the budget in the
code (752); `run_gatherer`, which makes every `Gatherer`, passes None. Errors of the file
system, which panic or are printed, are not modelled; neither is `select_action`.

**ReverseCurriculum.** A probe is one episode, whose outcome is arbitrary. `Log2`, with the
powers of two as a function of doubles (`Powers`), is only used to state the bound on
their number.

## 3. The runs

| Run | Instance | What it shows |
|---|---|---|
| `ring` | 2 threads, 2 values, 3 cells | mutual exclusion, decisions that stay valid (`DecisionStillValid`), the FIFO is implemented, blocked calls meet |
| `arena` | 2 clients, 2 handlers, 2 slots, batches may fail | a request is in one place, slots get marked, DONE means processed, no push finds a full queue, the service is implemented |
| `arena_faults` | 2 clients, 1 slot, 1 handler, batches of one, all faults, one `force_reset` step by step | the slot has one owner, also beside a reset; a mismatch only after a reset under a client; a client hangs only on a slot that an interrupted handler abandoned |
| `arena_live` | 2 clients of which one may die, 1 handler, 2 slots | a client that runs is answered |
| `arena_init` | 3 openers of which one may be killed, 2 slots, fresh file or one of another version | one initialiser at a time, open means initialised, exclusive slots, everyone who lives returns unless the lock was orphaned |
| `mcts` | 6 states, batches of 2, two runs with a move between | the accounting of the search; what the breadth-first search and the compaction of `advance_root` keep; termination |
| `orchestrator` | 2 gatherers, 2 environments of which one is bad, threshold 55 %, 2 iterations, moves of both kinds, a kill, a failure | chain of promotions, verdicts complete, equal when repeated and for a better agent, where each line is, phases in order, candidates new, all iterations end |
| `gatherer` | two calls, plans of 1 and 2 actions, 1 and 3 objectives, streaks of 2, a kill | resignations, complete records, gold in the shard and readable there but for one record a kill, one spoiled line, demonstrations on their plan |
| `reverse_curriculum` | plans of 1 to 33 actions, budgets of 5 and 14 | nothing is probed twice, the edge is found and its two episodes kept, logarithmically |
| `policy_target` | three children, up to 9 visits, priors from 0, 1, 4 parts, temperatures 1 and 2, values -1/2, 0, 1/2, `c_puct` 1.4, `k_forced` 2 | forced visits are taken as far as the score allows, the target is led by the best move |
| `arena_metrics_fault` | a metrics line that cannot be written | **violated**: DONE means processed (finding 1) |
| `arena_init_twice` | 3 openers of a fresh file | **violated**: initialised once (finding 2) |

**Bounds.** The ring of three cells fills, empties and wraps around in a few calls; the
theorem covers other sizes. Two slots, two clients and two handlers are what a slot
that changes hands, a batch of two and two concurrent batches need; request ids are
taken modulo 2, so an answer to the previous request is told from one to this request.
With one slot, two clients compete for it, and the one that gets it after a reset meets the
handler that still has it from before (`arena_faults`). Three openers: one
initialises, one waits, one races late. The search's graph has a transposition, cycles
of length one and three, a dead end and a terminal state, and batches of two are the
smallest in which paths share edges; its three steps round up to two batches. Three
children are the best one and two that are pruned in either order; up to 9 visits a child
loses some, all but one, all, or none of its forced visits. Two
iterations are needed for a verdict about a second candidate, over an incumbent that was
promoted, or after one that was rejected; the environment that cannot be loaded makes a
gap in the evaluator's loop. An episode of the gatherer has up to three moves, the
fewest in which a streak of two can be broken and begin again; one objective is graded in
hindsight and three beyond the frontier; two probes are one that is kept as a success and
one as a failure; a plan of two actions is the shortest whose demonstration can skip one;
and a second call is what goes on in a cut line. The bounds on kills, failures, resets,
lines and runs are CONSTANTS with names `Max...`, guarding the steps that use them.

`CHECK_DEADLOCK FALSE` is set where the system may stop: handlers that were interrupted
or clients that panicked, openers that spin for an initialiser that was killed, a bounded
number of searches and iterations, a curriculum or a target that was returned.

**Fairness.** Every run of a liveness property names its own.
`RingQueue`: a running thread goes on (WF), and a thread at the lock gets it eventually
(SF on `Lock`): the code's lock is not fair, but the failed rounds of a blocking call
sleep outside it (`ipc_core.rs` 140-168), so it is free again and again. `Arena`: WF for
the clients that live and for the handlers, no SF; therefore `EveryRequestAnswered` is
stated for as many slots as clients, since the code promises no particular client a slot
others compete for. `ArenaInit`: WF for a process inside `create_or_open`, for as long as it
lives. `Mcts`: `run`
is sequential code, WF. `Orchestrator`: a supervisor restarts it, as its state file
supposes; its own steps are weakly fair, and gatherers that are resubmitted for ever do
not write nothing for ever (SF on episodes that write: environments are random).

## 4. The proofs

Every safety invariant and every action property that a run checks is a theorem too, and so
are both refinements. The theorems hold for every value of the constants allowed by the
named assumptions (`RingAssumption`, `ArenaAssumption`, `InitAssumption`, `MctsAssumption`,
`OrchestratorAssumption`, `GathererAssumption`, `ReverseCurriculumAssumption`,
`PolicyTargetAssumption`): any number of threads, slots, cells, openers, kills, batches,
iterations and moves, any finite environment, any priors and values. That the states of an
environment are finitely many is what the code has: a state is a 64-bit hash.

* **RingQueue.** `TypeCorrect`, `MutexCorrect`, `DecisionCorrect` are inductive one on
  the other. `RingImplementsFifo` needs more: `RInv` adds that
  the cells from head to tail are filled, and what each thread's locals say of the
  ring while it holds the lock (`Locals`). The refinement mapping gives `fifo` the cells
  from head to tail; its effect happens when the index is published, everything else is a
  stutter. The modular arithmetic is in `RingArithmetic`.
* **Arena.** `TInv` is the type invariant with `SomeView` (a handler at work has a slot),
  without which an index into `views` has no type. `SlotOwnership` is inductive over it,
  under every set of faults and through resets: a slot that a reset has yet to queue is one
  more place a slot can be in (`ToCome`), and `~stale` says that no client had one when the
  reset began. `MismatchCorrect` adds `Stamped`: the slot a client holds carries its last
  request. `HangCorrect` needs in addition that whoever waits on a slot without a mark has it in
  the ready queue or in a handler's batch that is still to be marked, from `idx` on, and that the
  marking loops leave no earlier slot of the batch unmarked (`InHandInv`, `AllMarked`); no
  fault of a handler breaks that, an abandoned batch included, since it stays in `views`.
  For the service, faults are confined to
  failing batches (`OnlyFailedBatches`; finding 1 shows that the statement is false
  otherwise), and the invariant is `SInv`: besides these, a handler's locals agree with
  its position (`Rounds`), no two places hold one slot (`Exclusive`), whoever waits is owed
  a mark and whoever is owed a mark waits (`Awaited`), the batch row of a slot is its
  request (`Expected`), the outputs of a marked slot are its own or zeros (`Outcomes`), and
  so are those read (`Answered`). `DoneCorrect`, `InFlightCorrect`, `UnmarkedCorrect` and
  `ServiceCorrect` (the refinement of `InferenceService`) follow from it. `PushCorrect` is a
  pigeonhole on top of it: a queue holds each slot at most once and not the one that is
  pushed (`RoomForOneMore`), and the code checks that there are fewer slots than cells
  (`ipc_core.rs` 233).
* **ArenaInit.** `IInv`: types, `Locked` (whoever initialises holds `init_lock`, alone),
  `SlotLoop` (how far the initialiser's loop is) and `FreshFile` (on a file that was fresh,
  `init_done` is not published before the header and the queues are written). A process that
  is killed keeps the lock taken: the invariant says that at most one process initialises,
  not that the lock implies one. `InitialiserCorrect` and `OpenCorrect` follow for every
  number of openers and kills. `SlotsExclusive` needs `EInv` besides: whoever uses the arena
  has seen it published, on a file of any origin (`Opened`); without a race of two openers
  nobody opens or uses it beside one that may yet initialise (`Alone`); and then no slot is
  in two hands or twice in the queue, nor ahead of the loop that fills it (`Distinct`).
* **Mcts.** `SearchInv` is the shape of things: the tree has nodes of the right type, no id
  that dangles and penalties on cycles only (`TreeInv`), the path in hand is a walk from the
  root in the tree (`Searching`), and so is the path of every leaf of the batch, which ends
  at that leaf (`Waiting`). `TreeIsClosed` and `PenaltiesOnCycles` follow. The accounting is
  `IndInv`: the losses of an edge are the paths in flight over it, the one in hand counted
  apart (`Counted`), and a node on no path in flight adds up (`Settled`) - the latter is
  stronger than `VisitsAddUp`, which speaks of the moments when nothing is in flight.
  `PruningExact`: the breadth-first search keeps `Frontier` (what was found can be reached, and
  leads to nothing that is not found or queued), so when the queue is empty it has found exactly
  `Reachable`, whatever the order of the slots and however often an id was queued; the compaction
  keeps `Moved` (what was found is still in the old arena or already in the new one, and the new
  table is the inverse of the new arena, `Numbered`). That a lookup then finds for each id the
  record it had is `Numbered` again. The property says what is reachable in another way, level by
  level (`Within`); with finitely many states there is a level that adds nothing
  (`LastLevelClosed`), and the two agree (`WithinIsReachable`).
* **Orchestrator.** `OInv`: what the process holds is what the file says and the step it is at
  belongs to that phase (`Saved`); checkpoints have no gaps and a new one is known to nobody
  (`Checkpoints`); the verdicts form a chain that `promoted_at` agrees with, and each of them
  can be computed again from the rows (`Ledger`); the candidate in the file is a registered
  agent that was not promoted but possibly last, and of an evaluation in hand the environments
  before `env` are done (`Judged`). The exception in the last part is the kill between a
  verdict and the save, after which the candidate is judged against itself. Rows are only
  added, and those a verdict rests on are complete, so a second verdict repeats the first
  (`VerdictsAgree`). That a promoted agent won more
  often than it lost, with a threshold of a half or more, is arithmetic on the three counts of
  a verdict (`WinsMost`). `Lines`, inductive on its own, says of each line of a worker in
  which files it is (`Accounted`): outside a move, in the shard and once more for each move
  that was cut, or in the retired files. It needs that no name of a retired file is used
  twice, so that nothing is overwritten (`Located`: a shard that is listed has no file of this
  second yet).
* **Gatherer.** `ResignsOnStreak` speaks of every run of low searches in the episode, the code
  keeps one number. `RInv` ties them: the counter is the length of the run of low searches
  that ends the episode so far (`Counts`), no earlier search completed a run that resigns
  (`NoneEarlier`), `resigned` is set by the last search or not at all, and the position in
  the loop agrees with the number of searches (`Position`). For `GoldAlsoInShard`, `GInv`
  adds `Shaped` (what the files, the queue and the buffers hold), `Banked` (its first part) and
  `Due`: when `write_episode` is at the bank of gold, the records of the episode in hand are
  in the shard. The second part, which lines can be read, follows from `SpoiledByDeaths`: each
  record that only the bank holds whole is an unreadable line of the shard, and there is at
  most one for each kill. `Extended` is all that is used of an append: the lines that were there stay,
  the new ones are those of the text but for being readable, and it covers a torn write too
  (`AppendedExtends`, `TornExtends`). `SpoiledCorrect`: what is spoiled grows by one with
  each kill, and when a text goes on in a cut line, its first line takes the blame for both
  (`Cheap`). `DemoCorrect`:
  `Planned` (the environment is in the state of the next action) and `Sole` (a call that does
  not climb has one episode, and gives a demonstration only when that failed).
  `CorpusCorrect`: the episodes of a call have different ids (`Numbered`); when one is written,
  those before it are in the shard in order or gone for the reasons the filters name, and
  nothing of the later ones is there (`Written`). Order is stated by positions.
* **ReverseCurriculum.** `RInv`: `Bracket` (lo and hi are the extremes of what was solved
  and failed, and the kept episodes belong to them; `EdgeKept` states it as `KeptAtTheEdge`) and
  `Ended` (what the end of the loop says of the bracket); `EdgePinned` needs both.
  `NextInside` is the lemma on `next_probe_k`. `ProbesBound` adds `Quick`:
  as long as nothing failed, the tail solved last has doubled with every probe (`Doubled`);
  from the first failure on, the bracket is at most the power of two that the probes left of
  the bound can halve to nothing (`Halved`). `LogBounds` ties the logarithm to the length.
* **PolicyTarget.** `Sound` are the inputs, `Pruned` says of each child whether the loop has
  passed it and what it has left. `ClosedForm`: for integers, the floor of the code's quotient
  is the largest number of visits that leaves the score at or below the best child's, also
  when the distance of the scores is not positive or the quotient is negative. `RoundingSum`:
  a sum of rounded terms is away from the sum by at most a half per term.

There is no induction to cite, so a statement about numbers or finite sets is proved by its
smallest counterexample (`SmallestSet`, `NoneUpTo`): that the strict subsets of a finite set are
well founded, and that a well-founded order has minima, are theorems of the library without an
operator parameter. Sums (`Total`) are tied to their recursion that way (`TotalSums`).

Model-checked only are the liveness properties, since fairness (ENABLED) and liveness are out of
the prover's reach: `BlockedCallsMeet`, `EveryRequestAnswered`, `EveryOpenReturns`, `RunReturns`
and `EveryIterationEnds`. The types of the ring, the arena, its creation, the gatherer's episode
and the curriculum are theorems and no property of a run. The recursive definitions of the
models are functions or folds, and no module declares a RECURSIVE operator.

## 5. Findings

1. **A failure after the first mark marks again** (`handler.py` 178-228; run
   `arena_metrics_fault`). The metrics line and the write-back of later slots are inside
   the `try`. When they raise, slots already marked are marked a second time; a client
   may have read, released and re-acquired one in between, and takes the old outputs for
   its answer. `SlotOwnership` and `MismatchOnlyAfterReset` still hold: the client's check
   of owner and request id cannot notice it, since it compares the slot with what the
   client itself wrote.
2. **An arena may be initialised twice** (`ipc_core.rs` 264-301; run `arena_init_twice`).
   `need_init` is not read again under the lock, so an opener that computed it before the
   first initialisation ended initialises again, when slots may be in use.

Other observations, which the models have as behaviours and no run lists:

* A `KeyboardInterrupt` in the handler's fill loop (`handler.py` 157-176), outside the
  `try`, leaves the popped slots unmarked, although the comment at 218-219 says that no
  slot may be left unmarked. `HAbandon` is this step, in `arena_faults`; the clients of that
  batch hang, and no others (`HangsOnlyIfAbandoned`).
* `force_reset` (`ipc_core.rs` 340), which is there so that "the arena starts in a clean state",
  frees the slots of clients too. Nothing in the code tells such a client, and a
  second one gets its slot: ownership, the check of `req_id` and termination are gone. What
  the properties of `arena_faults` say is for resets that begin when no client has a slot.
* On a file of another version `init_done` is 1 already (`ipc_core.rs` 298): a caller that
  loses the lock does not wait for the initialiser. `OpenMeansInitialised` is therefore
  stated for fresh files. An initialiser of such a file that is killed after the header
  leaves an arena whose header is right and whose queues may be empty or half filled, and
  nobody initialises it again; on a fresh file it leaves the others spinning.
* Shards are moved one by one before the state file leaves the training phase
  (`orchestrator.py` 477-489); after a kill in between, the trainer runs again on fewer lines
  than the threshold, possibly on none, although the file's head has the pipeline gather
  "until enough data has been collected" (5). The candidate is new all the same
  (`CandidateIsNew`).
* Where the directories are on two file systems, `shutil.move` (182) is a copy and an
  unlink. A kill between the two leaves the lines in the shard and in a retired file, and the
  next training sees them again; lines that a gatherer of a killed orchestrator appends between
  the two are in no file afterwards. `NoLineLost` allows these and nothing else. No name is
  overwritten, since the suffix (180) comes from another second than the last training's.
* Trajectories are written for every episode with a positive score (`gatherer.rs` 1159), the
  unfinished ones relabelled in hindsight included, although the field is described as
  "winning trajectories" (113) and the code as "if we found a win" (1158).
* The bank of gold is described as wins with "score > 0" (131-132); the test is
  `score >= gold_min_reward` (1299), whose default is 0.0, so that ties are banked.
* The evaluator's comment says its reward mirrors the gatherer's "EXACTLY" and gives partial
  credit in hindsight (`evaluator.rs` 236-239); the code below it grades unfinished
  episodes by factors, without the gatherer's cap.
* At a state without actions the gatherer panics (`gatherer.rs` 361), after the full search's
  record was taken and before anything is written; the evaluator ends the episode
  (`evaluator.rs` 191). And `solve_with_heuristic` panics where the heuristic fails (287-288),
  though `run_gatherer` goes on with an environment it could not solve (1544).
* `num_steps` of the resignation log counts the search that resigned, after which no move
  was made (`gatherer.rs` 1139).
* Gatherers that outlive a killed orchestrator may append to the shard of the same worker as
  the next run's; each writes whole buffers, and `Gatherer` has one writer for a file.
* `evaluator.rs` 20 and `gatherer.rs` 1467 build the arena's name from the constant 2048,
  the orchestrator from `--num_slots` (607). With another value the clients open an arena
  no handler serves (`Served` in `Orchestrator`): gathering writes no line and the evaluation
  never ends.
* Handlers that outlive a killed orchestrator serve the arena the next run opens under the
  same name, with their own weights (`orchestrator.py` 191-217, 507-508).
* A kill between the committed verdict (330) and `save_state` (584) judges again. If the
  candidate had been promoted it is compared with itself, draws everywhere and is not
  promoted a second time: the table has an extra row, the chain is intact
  (`VerdictsAgree`, `PromotionChain`).
* Noise survives a `run` on a terminal state (`mcts.rs` 169; `BeginRun`), although the
  comment of `root_noise` (90) says that it is cleared at the end of each call. The gatherer
  and the evaluator stop at terminal states, so only other callers see it.
* `policy_target` takes the best child's score from the re-weighted prior (`puct_scores`) and
  the pruned child's from the network's prior. With a temperature other than 1 (the default
  is 1.03) a child may lose more visits than its description (806-808) allows. An instance of
  `PolicyTarget` with temperature 2: priors 0, 1/5 and 4/5, visits 1, 1 and 2, equal values;
  the second child loses its visit, and its score from the re-weighted prior 1/3 is then
  above the best one's.
* The description of `policy_target` (`mcts.rs` 806-808) and the comment at 894 want the score of a
  pruned child strictly below the best one's. Where the boundary is a whole number the
  floor takes one visit more, and the scores are equal: temperature 1, priors 4/5, 1/5
  and 0, visits 3, 1 and 0, equal values; the second child's visit is taken. `ForcedVisitsRemoved`
  states what the code does, the largest number that leaves the score at or below the best one's,
  and that this tie is all: with one visit given back the child is strictly weaker.
* The repository's README speaks of one queue per handler, filled round-robin (105), and of
  an arena name without a tag (141); the code has one shared ready queue and puts the tag
  in the name. `handler.py` 433 says that the orchestrator forwards the model's
  dimensions; `start_handlers` does not.

## 6. Not modelled

* The rounding of floating-point numbers, forced playouts and first-play urgency while the
  search runs, averages of values (`recompute_value`).
* Packing of boards into fixed arrays, numpy views, conversions, command lines: data layout
  without interleavings.
* The environment library, the solver, the neural network and the trainer, which are not in
  the repository: an environment is a graph, an answer is the request it belongs to, the
  trainer writes a checkpoint or fails.
* Death of a process inside a queue operation, a `force_reset` that clears a queue's words
  during one, two calls of it at once, and callers of `create_or_open` with other
  sizes: the code has no recovery for any of them.
* A kill in the middle of a copy, which leaves a part of a shard under the retired name; a
  gatherer that opens a shard before and writes to it after a rename or an unlink (opening,
  writing and closing are one step); a clock that steps back, or two verdicts or two
  retirements of one shard within one second.
* Slicing of the holdout over several nodes, and the moves of an evaluation
  (`evaluate_single`), which has no streak and no records.
* Two processes that append to one shard, errors of the file system in the gatherer, and
  the arithmetic of `select_action`.

## 7. Plan

1. Proofs: the safety properties of the runs are proved; what comes with items 2 and 3 is to
   be proved with them. Of the refinements' abstract modules, that `InferenceService` answers
   each request once, whatever client and service do, is a theorem worth stating.
2. `evaluate_single` and the slicing of the holdout, composed with the evaluator's loop in
   `Orchestrator`.
3. Two writers of a shard; a client's and a handler's death inside a queue operation in
   `RingQueue`.
