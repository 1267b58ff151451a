----------------------------- MODULE Orchestrator -----------------------------
(***************************************************************************)
(* The self-play pipeline: gather, train, evaluate, over a state file, a   *)
(* database, a shard directory and a checkpoint directory that survive the *)
(* orchestrator, and handler and gatherer processes that may survive it.   *)
(*                                                                         *)
(*   phases and helpers   mcts_tilers/orchestrator.py                      *)
(*   run_evaluator        mcts-tilers/src/evaluator.rs                     *)
(*   run_gatherer         mcts-tilers/src/gatherer.rs (the lines it writes) *)
(*                                                                         *)
(* The trainer is not in the repository: it is a process that fails, or    *)
(* leaves a checkpoint with a new agent id.  An episode is the number of   *)
(* lines it appends, numbered for each worker, an evaluation of one        *)
(* environment its solution depth.                                         *)
(* The handlers of one start_handlers call are one group.                  *)
(*                                                                         *)
(* promoted_at and the suffix of a retired file are wall-clock time to the *)
(* second.  Between two verdicts lie two warm-ups of the handlers (5 s by  *)
(* default), between two moves of a shard a training, so the model numbers *)
(* the verdicts and the trainings instead: a clock that steps back, or     *)
(* warm-ups and trainings within a second, are left out.                   *)
(***************************************************************************)
EXTENDS Integers, Sequences, FiniteSets, SequencesExt, Functions

CONSTANTS
  Workers,          \* range(num_gatherers)
  NumEnvs,          \* holdout environments, in the order of the query
  BadEnvs,          \* those whose json cannot be deserialised
  Depths,           \* solution depths
  Unsolved,         \* solution_depth NULL: the agent did not finish
  Absent,           \* no row
  NoAgent,          \* candidate_id None
  GatherThreshold,  \* --gather_threshold
  PromotionPercent, \* --promotion_threshold, in percent
  NumSlots,         \* --num_slots
  ClientSlots,      \* NUM_SLOTS of evaluator.rs, num_slots of run_gatherer
  MaxAgents,        \* bound: agent ids are 0 (the seed) to MaxAgents
  MaxIteration,     \* bound: iterations of the pipeline
  MaxEpisode,       \* bound: lines of one episode
  MaxLines,         \* bound: lines of one shard
  MaxKills,         \* bound: how often the orchestrator is killed
  MaxFailures       \* bound: how often a phase raises

ASSUME OrchestratorAssumption ==
  /\ NumEnvs \in Nat /\ BadEnvs \subseteq 1 .. NumEnvs
  /\ Depths \subseteq Nat /\ Unsolved \notin Depths /\ Absent \notin Depths
  /\ Unsolved # Absent
  /\ GatherThreshold \in Nat /\ PromotionPercent \in Nat
  /\ MaxAgents \in Nat /\ NoAgent \notin 0 .. MaxAgents
  /\ {MaxIteration, MaxEpisode, MaxLines, MaxKills, MaxFailures} \subseteq Nat

Envs == 1 .. NumEnvs
Seed == 0
AgentIds == Seed .. MaxAgents

VARIABLES
  file,        \* the state file
  ckpts,       \* agent ids with a checkpoint file
  agents,      \* rows of the agents table
  promotedAt,  \* promoted_at: position of the verdict, 0 for the seed, -1 for NULL
  solutions,   \* solution_depth of each (agent, environment) row
  evaluations, \* rows of the evaluations table, in order
  lines,       \* lines of each active shard, by number
  retired,     \* each worker's retired files: the lines under each name
  produced,    \* history: how many lines each worker ever wrote
  overlooked,  \* history: lines written between the copy and the unlink of a move
  torn,        \* history: how many moves of a shard ended between the two
  pc,          \* where the orchestrator is; "down" when it does not run
  state,       \* the state dict
  incumbent,   \* incumbent_id of the evaluate phase
  env,         \* the next holdout environment of evaluate_agent_with_client
  inflight,    \* gather futures still running
  finished,    \* gather futures completed and not yet collected
  reached,     \* threshold_reached
  shards,      \* shards retire_shards has listed and not yet moved
  copied,      \* the one of them that is copied and not yet unlinked
  handlers,    \* handler groups that are alive
  strays,      \* gatherers that outlived the orchestrator that started them
  kills, failures

corpus == <<lines, retired, produced, overlooked, torn>>
disk == <<file, ckpts, agents, promotedAt, solutions, evaluations, corpus>>
pool == <<inflight, finished, reached>>
moves == <<shards, copied>>
process == <<pc, state, incumbent, env, pool, moves>>
world == <<handlers, strays, kills, failures>>
vars == <<disk, process, world>>

Fresh == [phase |-> "gathering", iteration |-> 0, candidate |-> NoAgent]
NoFile == [Fresh EXCEPT !.phase = "no file"]

(* The database is seeded with the pretrained agent, as get_incumbent asks. *)
Init ==
  /\ file = NoFile
  /\ ckpts = {Seed}
  /\ agents = {Seed}
  /\ promotedAt = [a \in AgentIds |-> IF a = Seed THEN 0 ELSE -1]
  /\ solutions = [a \in AgentIds |-> [e \in Envs |-> Absent]]
  /\ evaluations = <<>>
  /\ lines = [w \in Workers |-> {}]
  /\ retired = [w \in Workers |-> <<>>]
  /\ produced = [w \in Workers |-> 0]
  /\ overlooked = [w \in Workers |-> {}]
  /\ torn = [w \in Workers |-> 0]
  /\ pc = "down"
  /\ state = Fresh
  /\ incumbent = NoAgent
  /\ env = 1
  /\ inflight = {} /\ finished = {} /\ reached = FALSE
  /\ shards = {} /\ copied = {}
  /\ handlers = {} /\ strays = {} /\ kills = 0 /\ failures = 0

--------------------------------------------------------------------------------
Goto(from, to) == pc = from /\ pc' = to

(* load_state *)
Start ==
  /\ Goto("down", "loop")
  /\ state' = IF file = NoFile THEN Fresh ELSE file
  /\ UNCHANGED <<disk, incumbent, env, pool, moves, world>>

(* save_state, atomic: a temporary file and os.replace. *)
Save(next) == file' = next /\ state' = next

Promoted == {a \in AgentIds : promotedAt[a] >= 0}

(* A slip: ORDER BY promoted_at ASC. *)
MutGetIncumbent ==
  CHOOSE a \in Promoted : \A b \in Promoted : promotedAt[b] >= promotedAt[a]

(* get_incumbent: the most recently promoted agent. *)
GetIncumbent ==
  CHOOSE a \in Promoted : \A b \in Promoted : promotedAt[b] <= promotedAt[a]

Run == kills + failures

(* start_handlers and stop_handlers; a group is known by the weights it loads, *)
(* its arena, and the run of the orchestrator that holds its Popen objects.    *)
Group(tag, agent) == [arena |-> <<tag, NumSlots>>, agent |-> agent, run |-> Run]
Mine == {g \in handlers : g.run = Run}
Served(tag) == \E g \in handlers : g.arena = <<tag, ClientSlots>>

--------------------------------------------------------------------------------
(* run_gather_phase *)

GatherStart ==
  /\ Goto("loop", "gather") /\ state.phase = "gathering"
  /\ state.iteration < MaxIteration
  /\ handlers' = handlers \cup {Group("gather", GetIncumbent)}
  /\ inflight' = Workers /\ finished' = {} /\ reached' = FALSE
  /\ UNCHANGED <<disk, state, incumbent, env, moves, strays, kills, failures>>

(* Opening the shard, writing and closing it are one step. *)
WriteLines(w, n) ==
  /\ Cardinality(lines[w]) + n <= MaxLines
  /\ LET new == produced[w] + 1 .. produced[w] + n
     IN /\ lines' = [lines EXCEPT ![w] = @ \cup new]
        /\ overlooked' = [overlooked EXCEPT ![w] = IF w \in copied THEN @ \cup new ELSE @]
  /\ produced' = [produced EXCEPT ![w] = @ + n]

(* run_gatherer: an episode whose requests are served, or one that is skipped *)
(* or raises and writes nothing.                                             *)
Episode(w, n) ==
  /\ w \in inflight
  /\ n > 0 => Served("gather")
  /\ WriteLines(w, n)
  /\ inflight' = inflight \ {w} /\ finished' = finished \cup {w}
  /\ UNCHANGED <<file, ckpts, agents, promotedAt, solutions, evaluations, retired, torn,
                 pc, state, incumbent, env, reached, moves, world>>

Stray(w, n) ==
  /\ w \in strays
  /\ n > 0 => Served("gather")
  /\ WriteLines(w, n)
  /\ strays' = strays \ {w}
  /\ UNCHANGED <<file, ckpts, agents, promotedAt, solutions, evaluations, retired, torn,
                 process, handlers, kills, failures>>

(* count_lines *)
CountLines == FoldFunction(LAMBDA shard, sum : Cardinality(shard) + sum, 0, lines)

(* A slip: every collected worker is resubmitted, the pool never drains. *)
MutCollect(w) ==
  /\ pc = "gather" /\ w \in finished
  /\ reached' = (reached \/ CountLines >= GatherThreshold)
  /\ finished' = finished \ {w} /\ inflight' = inflight \cup {w}
  /\ UNCHANGED <<disk, pc, state, incumbent, env, moves, world>>

(* as_completed yields a future: count, and resubmit below the threshold. *)
Collect(w) ==
  /\ pc = "gather" /\ w \in finished
  /\ reached' = (reached \/ CountLines >= GatherThreshold)
  /\ finished' = finished \ {w}
  /\ inflight' = IF reached' THEN inflight ELSE inflight \cup {w}
  /\ UNCHANGED <<disk, pc, state, incumbent, env, moves, world>>

GatherEnd ==
  /\ Goto("gather", "gatherSave")
  /\ inflight = {} /\ finished = {}
  /\ handlers' = handlers \ Mine
  /\ UNCHANGED <<disk, state, incumbent, env, pool, moves, strays, kills, failures>>

GatherSave ==
  /\ Goto("gatherSave", "loop")
  /\ Save([state EXCEPT !.phase = "training"])
  /\ UNCHANGED <<ckpts, agents, promotedAt, solutions, evaluations, corpus, incumbent, env,
                 pool, moves, world>>

--------------------------------------------------------------------------------
(* run_train_phase *)

TrainStart ==
  /\ Goto("loop", "training") /\ state.phase = "training"
  /\ UNCHANGED <<disk, state, incumbent, env, pool, moves, world>>

(* The trainer exits with code 0 and a new checkpoint, and retire_shards lists *)
(* the shards there are.                                                       *)
TrainerDone ==
  /\ Goto("training", "retire")
  /\ Cardinality(ckpts) \in AgentIds
  /\ ckpts' = ckpts \cup {Cardinality(ckpts)}
  /\ shards' = {w \in Workers : lines[w] # {}}
  /\ UNCHANGED <<file, agents, promotedAt, solutions, evaluations, corpus, state, incumbent,
                 env, pool, copied, world>>

(* retire_shards gives a shard its own name, or, when a file has that name,  *)
(* one with a suffix that is not tested: the second of the move.             *)
Plain == 0
Second == Cardinality(ckpts)

(* A slip: the name is not tested. *)
MutDest(w) == Plain

Dest(w) == IF Plain \in DOMAIN retired[w] THEN Second ELSE Plain

(* What rename and copy leave under a name: it replaces what was there. *)
Filed(files, name, shard) ==
  [n \in DOMAIN files \cup {name} |-> IF n = name THEN shard ELSE files[n]]

Deposit(w) == retired' = [retired EXCEPT ![w] = Filed(@, Dest(w), lines[w])]

(* shutil.move, one shard at a time, within a file system ... *)
RenameShard(w) ==
  /\ pc = "retire" /\ w \in shards /\ copied = {}
  /\ Deposit(w)
  /\ lines' = [lines EXCEPT ![w] = {}]
  /\ shards' = shards \ {w}
  /\ UNCHANGED <<file, ckpts, agents, promotedAt, solutions, evaluations, produced,
                 overlooked, torn, pc, state, incumbent, env, pool, copied, world>>

(* ... and from one to another: a copy, and then an unlink of all there is. *)
CopyShard(w) ==
  /\ pc = "retire" /\ w \in shards /\ copied = {}
  /\ Deposit(w)
  /\ copied' = {w}
  /\ UNCHANGED <<file, ckpts, agents, promotedAt, solutions, evaluations, lines, produced,
                 overlooked, torn, pc, state, incumbent, env, pool, shards, world>>

UnlinkShard(w) ==
  /\ pc = "retire" /\ w \in copied
  /\ lines' = [lines EXCEPT ![w] = {}]
  /\ shards' = shards \ {w} /\ copied' = copied \ {w}
  /\ UNCHANGED <<file, ckpts, agents, promotedAt, solutions, evaluations, retired, produced,
                 overlooked, torn, pc, state, incumbent, env, pool, world>>

(* get_candidate: the highest id among the checkpoints not promoted. *)
Candidates == ckpts \ Promoted

(* A slip: candidates[0], the lowest id. *)
MutGetCandidate == CHOOSE a \in Candidates : \A b \in Candidates : a <= b

GetCandidate == CHOOSE a \in Candidates : \A b \in Candidates : b <= a

(* get_candidate and register_agent: INSERT OR IGNORE. *)
Register ==
  /\ Goto("retire", "trainSave")
  /\ shards = {}
  /\ agents' = agents \cup {GetCandidate}
  /\ UNCHANGED <<file, ckpts, promotedAt, solutions, evaluations, corpus, state, incumbent,
                 env, pool, moves, world>>

TrainSave ==
  /\ Goto("trainSave", "loop")
  /\ Save([state EXCEPT !.phase = "evaluating", !.candidate = GetCandidate])
  /\ UNCHANGED <<ckpts, agents, promotedAt, solutions, evaluations, corpus, incumbent, env,
                 pool, moves, world>>

--------------------------------------------------------------------------------
(* run_evaluate_phase: the candidate, then the incumbent, then the verdict.  *)

EvaluateCandidate ==
  /\ Goto("loop", "candidate") /\ state.phase = "evaluating"
  /\ incumbent' = GetIncumbent
  /\ env' = 1
  /\ handlers' = handlers \cup {Group("eval", state.candidate)}
  /\ UNCHANGED <<disk, state, pool, moves, strays, kills, failures>>

Evaluated == IF pc = "candidate" THEN state.candidate ELSE incumbent
Attempted(a, e) == solutions[a][e] # Absent

(* A slip: an environment any agent has attempted is skipped. *)
MutSkipped(a, e) == (\E b \in AgentIds : Attempted(b, e)) \/ e \in BadEnvs

(* Environments without a new row: already attempted, or not deserialisable. *)
Skipped(a, e) == Attempted(a, e) \/ e \in BadEnvs

SkipEnv ==
  /\ pc \in {"candidate", "incumbent"} /\ env \in Envs
  /\ Skipped(Evaluated, env)
  /\ env' = env + 1
  /\ UNCHANGED <<disk, pc, state, incumbent, pool, moves, world>>

(* evaluate_single, whose requests a handler group of the arena serves, and  *)
(* the row it leaves.                                                        *)
SolveEnv(d) ==
  /\ pc \in {"candidate", "incumbent"} /\ env \in Envs
  /\ ~Skipped(Evaluated, env) /\ Served("eval")
  /\ solutions' = [solutions EXCEPT ![Evaluated][env] = d]
  /\ env' = env + 1
  /\ UNCHANGED <<file, ckpts, agents, promotedAt, evaluations, corpus,
                 pc, state, incumbent, pool, moves, world>>

(* stop_handlers, and start_handlers for the incumbent. *)
EvaluateIncumbent ==
  /\ Goto("candidate", "incumbent") /\ env \notin Envs
  /\ env' = 1
  /\ handlers' = (handlers \ Mine) \cup {Group("eval", incumbent)}
  /\ UNCHANGED <<disk, state, incumbent, pool, moves, strays, kills, failures>>

EvaluateEnd ==
  /\ Goto("incumbent", "promote") /\ env \notin Envs
  /\ handlers' = handlers \ Mine
  /\ UNCHANGED <<disk, state, incumbent, env, pool, moves, strays, kills, failures>>

(* The rows of the join on environment_id, and the scoring of one of them. *)
Joined(c, i) == {e \in Envs : Attempted(c, e) /\ Attempted(i, e)}
Wins(c, i) ==
  {e \in Joined(c, i) :
     /\ solutions[c][e] # Unsolved
     /\ solutions[i][e] = Unsolved \/ solutions[c][e] < solutions[i][e]}

(* A slip: the candidate is promoted when it does not lose. *)
MutVerdict(c, i) ==
  LET wins == Cardinality(Wins(c, i))
      losses == Cardinality(Wins(i, c))
      total == Cardinality(Joined(c, i))
  IN [candidate |-> c, incumbent |-> i, wins |-> wins, losses |-> losses,
      draws |-> total - wins - losses,
      promoted |-> losses <= wins]

(* promote_candidate: the evaluations row. *)
Verdict(c, i) ==
  LET wins == Cardinality(Wins(c, i))
      losses == Cardinality(Wins(i, c))
      total == Cardinality(Joined(c, i))
  IN [candidate |-> c, incumbent |-> i, wins |-> wins, losses |-> losses,
      draws |-> total - wins - losses,
      promoted |-> 100 * wins > PromotionPercent * total]

(* ... and promoted_at, in one transaction; it is the text of a second, of   *)
(* which the model keeps the order of the verdicts.                          *)
Promote ==
  /\ Goto("promote", "evaluateSave")
  /\ LET v == Verdict(state.candidate, incumbent)
     IN /\ evaluations' = Append(evaluations, v)
        /\ promotedAt' = IF v.promoted
                         THEN [promotedAt EXCEPT ![v.candidate] = Len(evaluations) + 1]
                         ELSE promotedAt
  /\ UNCHANGED <<file, ckpts, agents, solutions, corpus, state, incumbent, env, pool,
                 moves, world>>

(* A slip: the iteration is advanced only when the candidate was promoted. *)
MutEvaluateSave ==
  /\ Goto("evaluateSave", "loop")
  /\ Save([phase |-> "gathering", candidate |-> NoAgent,
           iteration |-> state.iteration + IF Last(evaluations).promoted THEN 1 ELSE 0])
  /\ UNCHANGED <<ckpts, agents, promotedAt, solutions, evaluations, corpus, incumbent, env,
                 pool, moves, world>>

EvaluateSave ==
  /\ Goto("evaluateSave", "loop")
  /\ Save([phase |-> "gathering", iteration |-> state.iteration + 1, candidate |-> NoAgent])
  /\ UNCHANGED <<ckpts, agents, promotedAt, solutions, evaluations, corpus, incumbent, env,
                 pool, moves, world>>

--------------------------------------------------------------------------------
(* The process ends: its futures are gone, and the move it was in stays as it *)
(* is, perhaps with the lines in both files.                                  *)
Die ==
  /\ pc' = "down"
  /\ inflight' = {} /\ finished' = {}
  /\ shards' = {} /\ copied' = {}
  /\ torn' = [w \in Workers |-> torn[w] + IF w \in copied THEN 1 ELSE 0]
  /\ UNCHANGED <<file, ckpts, agents, promotedAt, solutions, evaluations, lines, retired,
                 produced, overlooked, state, incumbent, env, reached>>

(* A phase raises: the trainer fails, the pool breaks, an evaluation panics. *)
(* The finally clauses stop the handlers; the pool takes its workers along.  *)
(* A move that raises, where no handler runs, leaves what a kill leaves.     *)
Raise ==
  /\ pc \in {"gather", "training", "candidate", "incumbent"}
  /\ failures < MaxFailures
  /\ failures' = failures + 1
  /\ Die
  /\ handlers' = handlers \ Mine
  /\ UNCHANGED <<strays, kills>>

(* The orchestrator is killed, with all its children or without them. *)
Kill ==
  /\ pc # "down" /\ kills < MaxKills
  /\ kills' = kills + 1
  /\ Die
  /\ \/ handlers' = {} /\ strays' = {}
     \/ handlers' = handlers /\ strays' = strays \cup inflight
  /\ UNCHANGED failures

Step ==
  \/ Start \/ GatherStart \/ GatherEnd \/ GatherSave
  \/ TrainStart \/ TrainerDone \/ Register \/ TrainSave
  \/ EvaluateCandidate \/ SkipEnv \/ EvaluateIncumbent \/ EvaluateEnd
  \/ Promote \/ EvaluateSave
  \/ \E w \in Workers : Collect(w) \/ RenameShard(w) \/ CopyShard(w) \/ UnlinkShard(w)
  \/ \E d \in Depths \cup {Unsolved} : SolveEnv(d)

Next ==
  \/ Step \/ Raise \/ Kill
  \/ \E w \in Workers : \E n \in 0 .. MaxEpisode : Episode(w, n) \/ Stray(w, n)

Spec == Init /\ [][Next]_vars

(***************************************************************************)
(* Fairness: a supervisor restarts the orchestrator, its processes run, and *)
(* gatherers that are resubmitted again and again do not write nothing for *)
(* ever: environments are random, and not all of them are skipped.         *)
(***************************************************************************)
FairSpec ==
  /\ Spec
  /\ WF_vars(Step)
  /\ \A w \in Workers : WF_vars(\E n \in 0 .. MaxEpisode : Episode(w, n))
  /\ SF_vars(\E w \in Workers : \E n \in 1 .. MaxEpisode : Episode(w, n))

--------------------------------------------------------------------------------
(* The incumbent of every verdict is the agent promoted last before it, and  *)
(* an agent is promoted once, on a verdict of its own: promotions form a     *)
(* chain from the seed, whatever crashes lie between the verdicts            *)
(* (promote_candidate, get_incumbent).                                       *)
LastPromoted(n) ==
  LET won == {i \in 1 .. n : evaluations[i].promoted}
  IN IF won = {} THEN Seed ELSE evaluations[CHOOSE i \in won : \A j \in won : j <= i].candidate

PromotionChain ==
  /\ \A i \in 1 .. Len(evaluations) : evaluations[i].incumbent = LastPromoted(i - 1)
  /\ \A i, j \in 1 .. Len(evaluations) :
       evaluations[i].promoted /\ evaluations[j].promoted /\ i # j =>
         evaluations[i].candidate # evaluations[j].candidate
  /\ \A a \in AgentIds \ {Seed} : \A i \in 1 .. Len(evaluations) :
       promotedAt[a] = i <=> evaluations[i].promoted /\ evaluations[i].candidate = a

(* A verdict rests on an attempt of both agents at every environment of the  *)
(* holdout that can be loaded, also when the evaluation was interrupted and  *)
(* resumed: "so evaluation is safe to resume after a crash" (evaluator.rs).  *)
VerdictComplete ==
  \A i \in 1 .. Len(evaluations) :
    LET v == evaluations[i]
    IN /\ v.wins + v.losses + v.draws = Cardinality(Envs \ BadEnvs)
       /\ \A e \in Envs \ BadEnvs : Attempted(v.candidate, e) /\ Attempted(v.incumbent, e)

(* Judging the same two agents again, after a crash between the verdict and  *)
(* save_state, gives the same verdict.  No agent is promoted over itself,    *)
(* and none over an agent it does not beat more often than it loses to it,   *)
(* where the threshold is at least a half, as the default of 0.55 is.        *)
VerdictsAgree ==
  /\ \A i, j \in 1 .. Len(evaluations) :
       /\ evaluations[i].candidate = evaluations[j].candidate
       /\ evaluations[i].incumbent = evaluations[j].incumbent
       => evaluations[i] = evaluations[j]
  /\ \A i \in 1 .. Len(evaluations) :
       evaluations[i].promoted =>
         /\ evaluations[i].candidate # evaluations[i].incumbent
         /\ PromotionPercent >= 50 => evaluations[i].wins > evaluations[i].losses

(* The agent an evaluation starts with has a checkpoint and a row, and was   *)
(* never judged before: neither a rejected agent nor an incumbent comes back *)
(* as the candidate of a later iteration (get_candidate, register_agent).    *)
CandidateIsNew ==
  [][file.phase = "training" /\ file'.phase = "evaluating" =>
       /\ file'.candidate \in (ckpts' \cap agents') \ {Seed}
       /\ \A i \in 1 .. Len(evaluations) : evaluations[i].candidate # file'.candidate]_vars

(* Where the lines of a gatherer are, whoever goes on writing and wherever   *)
(* retire_shards was interrupted.  A line is in no file only if it was       *)
(* written to a shard between its copy and its unlink.  It is in one file,   *)
(* the active shard or a retired one, and in one more for each move of its   *)
(* shard that ended between the two; a move within a file system neither     *)
(* loses nor doubles a line (retire_shards, run_gatherer).                   *)
Files(w, l) == {name \in DOMAIN retired[w] : l \in retired[w][name]}
Holders(w, l) == Cardinality(Files(w, l)) + IF l \in lines[w] THEN 1 ELSE 0

NoLineLost ==
  \A w \in Workers : \A l \in 1 .. produced[w] :
    /\ Holders(w, l) = 0 => l \in overlooked[w]
    /\ Holders(w, l) <= 1 + torn[w] + IF w \in copied THEN 1 ELSE 0

(* The state file moves through the phases of one iteration in order and to  *)
(* the next iteration after the verdict: no crash repeats or skips a phase   *)
(* whose result was saved.                                                   *)
PhasesInOrder ==
  [][file' # file =>
       \/ /\ file.phase \in {"gathering", "no file"} /\ file'.phase = "training"
          /\ file'.iteration = file.iteration
       \/ /\ file.phase = "training" /\ file'.phase = "evaluating"
          /\ file'.iteration = file.iteration
       \/ /\ file.phase = "evaluating" /\ file'.phase = "gathering"
          /\ file'.iteration = file.iteration + 1]_vars

(* The pipeline goes on: every iteration is completed, if the orchestrator   *)
(* is killed and fails finitely often and is restarted.                      *)
EveryIterationEnds == <>(file.iteration = MaxIteration)
================================================================================
