--------------------------- MODULE OrchestratorProofs ---------------------------
(***************************************************************************)
(* Proofs about Orchestrator, for any number of workers, environments,      *)
(* agents and iterations, any thresholds, and any number of kills and       *)
(* failures.                                                                *)
(*                                                                         *)
(* Saved ties what the process holds to the state file, Ledger the          *)
(* evaluations to promoted_at and to the rows they rest on, and Judged says *)
(* how far the evaluation in hand is.                                       *)
(***************************************************************************)
EXTENDS Orchestrator, FiniteSetTheorems, SequenceTheorems, WellFoundedInduction, TLAPS

Phases == {"gathering", "training", "evaluating"}
StateType == [phase : Phases, iteration : Nat, candidate : AgentIds \cup {NoAgent}]

Gathering == {"gather", "gatherSave"}
Training == {"training", "retire", "trainSave"}
Evaluating == {"candidate", "incumbent", "promote", "evaluateSave"}
Locations == {"down", "loop"} \cup Gathering \cup Training \cup Evaluating

(* A running orchestrator is in a phase that the state file names.           *)
Saved ==
  /\ file \in StateType \cup {NoFile} /\ state \in StateType /\ pc \in Locations
  /\ pc # "down" => state = IF file = NoFile THEN Fresh ELSE file
  /\ pc \in Gathering => state.phase = "gathering"
  /\ pc \in Training => state.phase = "training"
  /\ pc \in Evaluating => state.phase = "evaluating"

VerdictType ==
  [candidate : AgentIds, incumbent : AgentIds, wins : Nat, losses : Nat, draws : Int,
   promoted : BOOLEAN]

Typed ==
  /\ agents \subseteq AgentIds
  /\ promotedAt \in [AgentIds -> Int]
  /\ solutions \in [AgentIds -> [Envs -> Depths \cup {Unsolved, Absent}]]
  /\ evaluations \in Seq(VerdictType)
  /\ incumbent \in AgentIds \cup {NoAgent}
  /\ env \in Nat \ {0}

(* Checkpoints are numbered without gaps, and one that was just trained is   *)
(* known to nobody.                                                          *)
Newest == Cardinality(ckpts) - 1
Judgement(a) == \E i \in 1 .. Len(evaluations) : evaluations[i].candidate = a

Checkpoints ==
  /\ Newest \in AgentIds /\ ckpts = 0 .. Newest
  /\ agents \subseteq ckpts
  /\ \A a \in AgentIds : a \in Promoted \/ Judgement(a) => a \in ckpts
  /\ pc \in {"retire", "trainSave"} => Newest \notin Promoted /\ ~Judgement(Newest)
  /\ pc = "trainSave" => Newest \in agents

(* The agents that were promoted, in the order of their verdicts.            *)
Current == LastPromoted(Len(evaluations))

Promotions ==
  /\ promotedAt[Seed] = 0
  /\ \A a \in AgentIds \ {Seed} : promotedAt[a] # 0 /\ promotedAt[a] <= Len(evaluations)
  /\ Current \in Promoted
  /\ \A a \in Promoted : promotedAt[a] <= promotedAt[Current]

(* An agent that has tried all that can be loaded.                           *)
Complete(a) == \A e \in Envs \ BadEnvs : Attempted(a, e)

(* A verdict is what the rows of two complete agents say, now as then.       *)
Reproducible ==
  /\ \A a \in AgentIds : \A e \in BadEnvs : ~Attempted(a, e)
  /\ \A i \in 1 .. Len(evaluations) : \A a, b \in AgentIds :
       evaluations[i].candidate = a /\ evaluations[i].incumbent = b =>
         evaluations[i] = Verdict(a, b) /\ Complete(a) /\ Complete(b)

Ledger == PromotionChain /\ Promotions /\ Reproducible

(* The candidate is a registered agent, not promoted unless it was the last  *)
(* to be; of the agents under evaluation the environments before env are     *)
(* done.                                                                     *)
Tried(a) == \A e \in Envs \ BadEnvs : e < env => Attempted(a, e)

Judged ==
  /\ file.phase = "evaluating" =>
       /\ file.candidate \in ckpts \cap agents
       /\ file.candidate \in Promoted => file.candidate = Current
  /\ pc \in {"candidate", "incumbent", "promote"} => incumbent = Current
  /\ pc = "candidate" => Tried(state.candidate)
  /\ pc \in {"incumbent", "promote"} => Complete(state.candidate)
  /\ pc = "incumbent" => Tried(incumbent)
  /\ pc = "promote" => Complete(incumbent)

OInv == Saved /\ Typed /\ Checkpoints /\ Ledger /\ Judged

(* Where the lines of one worker are, who has the retired files f, the shard *)
(* with these lines, made lines in all, late ones written in the middle of a *)
(* move, and cuts moves that were cut short; its shard is listed to be moved *)
(* in this second, or open: copied and not yet unlinked.  Outside a move a   *)
(* line of the shard is in a retired file for each cut at most.              *)
Held(f, l) == {name \in DOMAIN f : l \in f[name]}

Accounted(f, l, shard, late, cuts, open) ==
  /\ l \notin shard \/ open => l \in late \/ Held(f, l) # {}
  /\ Cardinality(Held(f, l)) <= cuts + IF l \notin shard \/ open THEN 1 ELSE 0

Located(f, shard, late, made, cuts, second, listed, open) ==
  /\ made \in Nat /\ cuts \in Nat /\ second \in Nat
  /\ shard \subseteq 1 .. made /\ late \subseteq Nat
  /\ DOMAIN f \subseteq 0 .. second
  /\ listed /\ ~open => second \notin DOMAIN f
  /\ \A name \in DOMAIN f : f[name] \subseteq 1 .. made
  /\ \A l \in 1 .. made : Accounted(f, l, shard, late, cuts, open)

(* No name of a retired file is used twice: a shard that is listed has none  *)
(* of this second, and it leaves the list when it has got one.               *)
Lines ==
  /\ DOMAIN lines = Workers /\ DOMAIN produced = Workers /\ DOMAIN retired = Workers
  /\ DOMAIN overlooked = Workers /\ DOMAIN torn = Workers
  /\ shards \subseteq Workers /\ copied \subseteq shards
  /\ pc # "retire" => shards = {}
  /\ \A w \in Workers :
       Located(retired[w], lines[w], overlooked[w], produced[w], torn[w], Second,
               w \in shards, w \in copied)

--------------------------------------------------------------------------------
(* The state file. *)

LEMMA SavedStart == Init => Saved
<1> SUFFICES ASSUME Init PROVE Saved
  OBVIOUS
<1>1. Fresh \in StateType
  BY DEF Fresh, StateType, Phases
<1> QED BY <1>1 DEF Init, Saved, Locations, Gathering, Training, Evaluating

(* What a step does to the state file, to the process's copy of it, and to   *)
(* where the process is.                                                     *)
Restarts == pc = "down" /\ pc' = "loop" /\ file' = file /\ state' = IF file = NoFile THEN Fresh ELSE file
Stops == pc' = "down" /\ file' = file /\ state' = state
Stays == pc' = pc /\ file' = file /\ state' = state
Enters(l, phase) == pc = "loop" /\ pc' = l /\ state.phase = phase /\ file' = file /\ state' = state
Proceeds(l, m) == pc = l /\ pc' = m /\ file' = file /\ state' = state
Saves(l, next) == pc = l /\ pc' = "loop" /\ file' = next /\ state' = next

Trained == [state EXCEPT !.phase = "evaluating", !.candidate = GetCandidate]

LEMMA Movements ==
  ASSUME [Next]_vars
  PROVE  \/ Restarts \/ Stops \/ Stays
         \/ Enters("gather", "gathering") \/ Proceeds("gather", "gatherSave")
         \/ Saves("gatherSave", [state EXCEPT !.phase = "training"])
         \/ Enters("training", "training") \/ Proceeds("training", "retire")
         \/ Proceeds("retire", "trainSave") \/ Saves("trainSave", Trained)
         \/ Enters("candidate", "evaluating") \/ Proceeds("candidate", "incumbent")
         \/ Proceeds("incumbent", "promote") \/ Proceeds("promote", "evaluateSave")
         \/ Saves("evaluateSave", [phase |-> "gathering", iteration |-> state.iteration + 1,
                                   candidate |-> NoAgent])
<1> USE DEF Restarts, Stops, Stays, Enters, Proceeds, Saves, Goto, Save, Trained, vars, disk,
            process
<1>1. CASE Start \/ GatherStart \/ GatherEnd \/ GatherSave
  BY <1>1 DEF Start, GatherStart, GatherEnd, GatherSave
<1>2. CASE TrainStart \/ TrainerDone \/ Register \/ TrainSave
  BY <1>2 DEF TrainStart, TrainerDone, Register, TrainSave
<1>3. CASE EvaluateCandidate \/ EvaluateIncumbent \/ EvaluateEnd \/ Promote \/ EvaluateSave
  BY <1>3 DEF EvaluateCandidate, EvaluateIncumbent, EvaluateEnd, Promote, EvaluateSave
<1>4. CASE SkipEnv \/ UNCHANGED vars
  BY <1>4 DEF SkipEnv
<1>5. CASE Raise \/ Kill
  BY <1>5 DEF Raise, Kill, Die
<1>6. CASE \E w \in Workers : Collect(w) \/ RenameShard(w) \/ CopyShard(w) \/ UnlinkShard(w)
  BY <1>6 DEF Collect, RenameShard, CopyShard, UnlinkShard
<1>7. CASE \E d \in Depths \cup {Unsolved} : SolveEnv(d)
  BY <1>7 DEF SolveEnv
<1>8. CASE \E w \in Workers : \E n \in 0 .. MaxEpisode : Episode(w, n) \/ Stray(w, n)
  BY <1>8 DEF Episode, Stray
<1> QED BY <1>1, <1>2, <1>3, <1>4, <1>5, <1>6, <1>7, <1>8 DEF Next, Step

(* get_candidate chooses an agent id when there is a candidate. *)
LEMMA SavedNext ==
  ASSUME Saved, [Next]_vars, pc = "trainSave" => GetCandidate \in AgentIds
  PROVE  Saved'
<1> USE DEF Locations, Gathering, Training, Evaluating
<1>0. Fresh \in StateType /\ NoFile \notin StateType
  BY DEF Fresh, NoFile, StateType, Phases
<1>1. CASE Restarts
  BY <1>0, <1>1 DEF Restarts, Saved
<1>2. CASE Stops \/ Stays
  BY <1>2 DEF Stops, Stays, Saved
<1>3. CASE Enters("gather", "gathering") \/ Enters("training", "training")
           \/ Enters("candidate", "evaluating")
  BY <1>3 DEF Enters, Saved
<1>4. CASE Proceeds("gather", "gatherSave") \/ Proceeds("training", "retire")
           \/ Proceeds("retire", "trainSave") \/ Proceeds("candidate", "incumbent")
           \/ Proceeds("incumbent", "promote") \/ Proceeds("promote", "evaluateSave")
  BY <1>4 DEF Proceeds, Saved
<1>5. ASSUME NEW l, NEW next \in StateType, Saves(l, next) PROVE Saved'
  BY <1>0, <1>5 DEF Saves, Saved
<1>6. CASE Saves("gatherSave", [state EXCEPT !.phase = "training"])
  <2>1. [state EXCEPT !.phase = "training"] \in StateType
    BY DEF Saved, StateType, Phases
  <2> QED BY <1>5, <1>6, <2>1
<1>7. CASE Saves("trainSave", Trained)
  <2>1. Trained \in StateType
    BY <1>7 DEF Saved, StateType, Phases, Trained, Saves
  <2> QED BY <1>5, <1>7, <2>1
<1>8. CASE Saves("evaluateSave", [phase |-> "gathering", iteration |-> state.iteration + 1,
                                  candidate |-> NoAgent])
  <2>1. [phase |-> "gathering", iteration |-> state.iteration + 1, candidate |-> NoAgent]
          \in StateType
    BY DEF Saved, StateType, Phases
  <2> QED BY <1>5, <1>8, <2>1
<1> QED BY <1>1, <1>2, <1>3, <1>4, <1>6, <1>7, <1>8, Movements

LEMMA PhasesStep ==
  Saved /\ [Next]_vars =>
    [file' # file =>
       \/ /\ file.phase \in {"gathering", "no file"} /\ file'.phase = "training"
          /\ file'.iteration = file.iteration
       \/ /\ file.phase = "training" /\ file'.phase = "evaluating"
          /\ file'.iteration = file.iteration
       \/ /\ file.phase = "evaluating" /\ file'.phase = "gathering"
          /\ file'.iteration = file.iteration + 1]_vars
<1> SUFFICES ASSUME Saved, [Next]_vars, file' # file
             PROVE  \/ /\ file.phase \in {"gathering", "no file"} /\ file'.phase = "training"
                       /\ file'.iteration = file.iteration
                    \/ /\ file.phase = "training" /\ file'.phase = "evaluating"
                       /\ file'.iteration = file.iteration
                    \/ /\ file.phase = "evaluating" /\ file'.phase = "gathering"
                       /\ file'.iteration = file.iteration + 1
  OBVIOUS
<1>0. /\ state \in StateType /\ pc \in Gathering \cup Training \cup Evaluating => pc # "down"
      /\ pc # "down" => IF file = NoFile THEN state = Fresh ELSE state = file
  BY DEF Saved, Gathering, Training, Evaluating
<1>1. CASE Saves("gatherSave", [state EXCEPT !.phase = "training"])
  <2>1. state.phase = "gathering" /\ pc # "down"
    BY <1>1 DEF Saves, Saved, Gathering
  <2>2. file'.phase = "training" /\ file'.iteration = state.iteration
    BY <1>0, <1>1 DEF Saves, StateType
  <2>3. file.phase \in {"gathering", "no file"} /\ file.iteration = state.iteration
    BY <1>0, <2>1 DEF Fresh, NoFile
  <2> QED BY <2>2, <2>3
<1>2. CASE Saves("trainSave", Trained)
  <2>1. state.phase = "training" /\ pc # "down"
    BY <1>2 DEF Saves, Saved, Training
  <2>2. file'.phase = "evaluating" /\ file'.iteration = state.iteration
    BY <1>0, <1>2 DEF Saves, StateType, Trained
  <2>3. state = file
    BY <1>0, <2>1 DEF Fresh
  <2> QED BY <2>1, <2>2, <2>3
<1>3. CASE Saves("evaluateSave", [phase |-> "gathering", iteration |-> state.iteration + 1,
                                  candidate |-> NoAgent])
  <2>1. state.phase = "evaluating" /\ pc # "down"
    BY <1>3 DEF Saves, Saved, Evaluating
  <2>2. state = file
    BY <1>0, <2>1 DEF Fresh
  <2> QED BY <1>3, <2>1, <2>2 DEF Saves
<1> QED BY <1>1, <1>2, <1>3, Movements DEF Restarts, Stops, Stays, Enters, Proceeds

--------------------------------------------------------------------------------
(* The verdict of two agents. *)

LEMMA JoinedFinite ==
  ASSUME NEW c, NEW i
  PROVE  /\ IsFiniteSet(Joined(c, i)) /\ Cardinality(Joined(c, i)) \in Nat
         /\ IsFiniteSet(Wins(c, i)) /\ Cardinality(Wins(c, i)) \in Nat
<1>1. IsFiniteSet(Envs)
  BY OrchestratorAssumption, FS_Interval DEF Envs
<1>2. Joined(c, i) \in SUBSET Envs /\ Wins(c, i) \in SUBSET Envs
  BY DEF Joined, Wins
<1>3. IsFiniteSet(Joined(c, i)) /\ IsFiniteSet(Wins(c, i))
  BY <1>1, <1>2, FS_Subset
<1> QED BY <1>3, FS_CardinalityType

LEMMA VerdictTyped ==
  ASSUME NEW c \in AgentIds, NEW i \in AgentIds
  PROVE  Verdict(c, i) \in VerdictType /\ Verdict(c, i).candidate = c /\ Verdict(c, i).incumbent = i
<1> DEFINE wins == Cardinality(Wins(c, i))
           losses == Cardinality(Wins(i, c))
           total == Cardinality(Joined(c, i))
           won == 100 * wins > PromotionPercent * total
<1>1. wins \in Nat /\ losses \in Nat /\ total \in Nat
  BY JoinedFinite
<1>2. Verdict(c, i) = [candidate |-> c, incumbent |-> i, wins |-> wins, losses |-> losses,
                       draws |-> total - wins - losses, promoted |-> won]
  BY DEF Verdict
<1>3. won \in BOOLEAN
  OBVIOUS
<1> HIDE DEF wins, losses, total, won
<1>4. total - wins - losses \in Int
  BY <1>1
<1> QED BY <1>1, <1>2, <1>3, <1>4 DEF VerdictType

(* The verdict sums up the environments that both agents have tried. *)
LEMMA VerdictTotal ==
  ASSUME NEW c \in AgentIds, NEW i \in AgentIds
  PROVE  Verdict(c, i).wins + Verdict(c, i).losses + Verdict(c, i).draws = Cardinality(Joined(c, i))
<1> DEFINE wins == Cardinality(Wins(c, i))
           losses == Cardinality(Wins(i, c))
           total == Cardinality(Joined(c, i))
<1>1. wins \in Nat /\ losses \in Nat /\ total \in Nat
  BY JoinedFinite
<1>2. /\ Verdict(c, i).wins = wins /\ Verdict(c, i).losses = losses
      /\ Verdict(c, i).draws = total - wins - losses
  BY DEF Verdict
<1> HIDE DEF wins, losses, total
<1> QED BY <1>1, <1>2 DEF total

LEMMA NotOverItself ==
  ASSUME Typed, NEW c \in AgentIds, NEW i \in AgentIds, Verdict(c, i).promoted
  PROVE  c # i
<1> SUFFICES ASSUME c = i PROVE FALSE
  OBVIOUS
<1> DEFINE wins == Cardinality(Wins(c, c))
           total == Cardinality(Joined(c, c))
<1>1. \A e \in Envs : solutions[c][e] \in Depths \cup {Unsolved, Absent}
  BY DEF Typed
<1>2. \A d \in Depths : d \in Nat
  BY OrchestratorAssumption
<1>3. Wins(c, c) = {}
  <2> SUFFICES ASSUME NEW e \in Wins(c, c) PROVE FALSE
    OBVIOUS
  <2>1. /\ e \in Envs /\ solutions[c][e] # Unsolved /\ solutions[c][e] # Absent
        /\ solutions[c][e] < solutions[c][e]
    BY DEF Wins, Joined, Attempted
  <2>2. solutions[c][e] \in Nat
    BY <1>1, <1>2, <2>1
  <2> QED BY <2>1, <2>2
<1>4. wins = 0 /\ total \in Nat
  BY <1>3, FS_EmptySet, JoinedFinite
<1>5. 100 * wins > PromotionPercent * total
  BY DEF Verdict
<1> HIDE DEF wins, total
<1> DEFINE needed == PromotionPercent * total
<1>6. needed \in Nat
  BY <1>4, OrchestratorAssumption
<1>7. 100 * wins > needed
  BY <1>5
<1> HIDE DEF needed
<1> QED BY <1>4, <1>6, <1>7

LEMMA MoreThanHalf ==
  ASSUME NEW p \in Nat, NEW n \in Nat, p >= 50
  PROVE  p * n >= 50 * n
<1>1. PICK d \in Nat : p = 50 + d
  <2>1. p - 50 \in Nat /\ p = 50 + (p - 50)
    OBVIOUS
  <2> QED BY <2>1
<1>2. p * n = 50 * n + d * n /\ d * n \in Nat
  BY <1>1
<1> QED BY <1>2

(* Both agents cannot win the same environment.                              *)
LEMMA WinsMost ==
  ASSUME Typed, NEW c \in AgentIds, NEW i \in AgentIds, Verdict(c, i).promoted,
         PromotionPercent >= 50
  PROVE  Verdict(c, i).wins > Verdict(c, i).losses
<1>1. \A a \in AgentIds : \A e \in Envs :
        solutions[a][e] \in Nat \/ solutions[a][e] = Unsolved \/ solutions[a][e] = Absent
  BY OrchestratorAssumption DEF Typed
<1>2. Wins(c, i) \cap Wins(i, c) = {}
  <2> SUFFICES ASSUME NEW e \in Envs, e \in Wins(c, i), e \in Wins(i, c) PROVE FALSE
    BY DEF Wins, Joined
  <2>1. /\ solutions[c][e] \in Nat /\ solutions[i][e] \in Nat
        /\ solutions[c][e] # Unsolved /\ solutions[i][e] # Unsolved
    BY <1>1 DEF Wins, Joined, Attempted
  <2> QED BY <2>1 DEF Wins
<1>3. /\ IsFiniteSet(Wins(c, i)) /\ Cardinality(Wins(c, i)) \in Nat
      /\ IsFiniteSet(Wins(i, c)) /\ Cardinality(Wins(i, c)) \in Nat
      /\ IsFiniteSet(Joined(c, i)) /\ Cardinality(Joined(c, i)) \in Nat
  BY JoinedFinite
<1>4. Wins(c, i) \cup Wins(i, c) \subseteq Joined(c, i)
  BY DEF Wins, Joined
<1>5. Cardinality(Wins(c, i) \cup Wins(i, c)) = Cardinality(Wins(c, i)) + Cardinality(Wins(i, c))
  <2>1. Cardinality(Wins(c, i) \cap Wins(i, c)) = 0
    BY <1>2, FS_EmptySet
  <2> QED BY <1>3, <2>1, FS_Union
<1>6. Cardinality(Wins(c, i) \cup Wins(i, c)) <= Cardinality(Joined(c, i))
  BY <1>3, <1>4, FS_Subset
<1> DEFINE wins == Cardinality(Wins(c, i))
           losses == Cardinality(Wins(i, c))
           total == Cardinality(Joined(c, i))
<1>7. /\ wins \in Nat /\ losses \in Nat /\ total \in Nat /\ wins + losses <= total
      /\ Verdict(c, i).wins = wins /\ Verdict(c, i).losses = losses
      /\ 100 * wins > PromotionPercent * total
  BY <1>3, <1>5, <1>6 DEF Verdict
<1> HIDE DEF wins, losses, total
<1>8. PromotionPercent * total >= 50 * total
  BY <1>7, OrchestratorAssumption, MoreThanHalf
<1> QED BY <1>7, <1>8, OrchestratorAssumption

(* The verdict depends on the rows of the two agents alone. *)
LEMMA VerdictFrame ==
  ASSUME NEW c, NEW i, solutions'[c] = solutions[c], solutions'[i] = solutions[i]
  PROVE  Verdict(c, i)' = Verdict(c, i)
<1>1. Joined(c, i)' = Joined(c, i) /\ Joined(i, c)' = Joined(i, c)
  BY DEF Joined, Attempted
<1>2. Wins(c, i)' = Wins(c, i) /\ Wins(i, c)' = Wins(i, c)
  BY <1>1 DEF Wins
<1> QED BY <1>1, <1>2 DEF Verdict

--------------------------------------------------------------------------------
(* The chain of promotions. *)

(* A bounded set of numbers has a largest one: its least upper bound.        *)
LEMMA LargestExists ==
  ASSUME NEW S \in SUBSET Nat, S # {}, NEW m \in Nat, \A j \in S : j <= m
  PROVE  \E k \in S : \A j \in S : j <= k
<1> DEFINE bounds == {k \in Nat : \A j \in S : j <= k}
<1>1. PICK k \in bounds : \A y \in bounds : ~(<<y, k>> \in OpToRel(<, Nat))
  <2>1. bounds \subseteq Nat /\ bounds # {}
    OBVIOUS
  <2> HIDE DEF bounds
  <2> QED BY <2>1, WFMin, NatLessThanWellFounded
<1>2. \A y \in bounds : ~(y < k)
  BY <1>1 DEF OpToRel
<1>3. k \in S
  <2> SUFFICES ASSUME k \notin S PROVE FALSE
    OBVIOUS
  <2>1. PICK j \in S : TRUE
    OBVIOUS
  <2>2. j < k
    BY <2>1
  <2>3. k - 1 \in bounds
    BY <2>2
  <2> QED BY <1>2, <2>3
<1> QED BY <1>3

LEMMA LastPromotedKept ==
  ASSUME NEW n \in Nat, NEW m \in 0 .. n,
         \A k \in 1 .. n : evaluations'[k] = evaluations[k]
  PROVE  LastPromoted(m)' = LastPromoted(m)
<1> DEFINE won == {k \in 1 .. m : evaluations[k].promoted}
           last == CHOOSE k \in won : \A j \in won : j <= k
<1>1. \A k \in 1 .. m : evaluations'[k] = evaluations[k]
  OBVIOUS
<1>2. {k \in 1 .. m : evaluations'[k].promoted} = won
  BY <1>1
<1>3. CASE won = {}
  BY <1>2, <1>3 DEF LastPromoted
<1>4. CASE won # {}
  <2>1. \E k \in won : \A j \in won : j <= k
    <3>1. won \in SUBSET Nat /\ m \in Nat /\ \A j \in won : j <= m
      OBVIOUS
    <3> HIDE DEF won
    <3> QED BY <1>4, <3>1, LargestExists
  <2>2. last \in won
    BY <2>1
  <2>3. evaluations'[last] = evaluations[last]
    BY <1>1, <2>2
  <2>4. LastPromoted(m) = evaluations[last].candidate
    BY <1>4 DEF LastPromoted
  <2>5. LastPromoted(m)' = evaluations'[last].candidate
    BY <1>2, <1>4 DEF LastPromoted
  <2> QED BY <2>3, <2>4, <2>5
<1> QED BY <1>3, <1>4

(* get_incumbent finds the agent of the last verdict that promoted. *)
LEMMA IncumbentIsCurrent ==
  ASSUME Typed, PromotionChain, Promotions
  PROVE  GetIncumbent = Current /\ Current \in AgentIds
<1> DEFINE n == Len(evaluations)
<1>1. n \in Nat
  BY LenProperties DEF Typed
<1>2. Current \in Promoted /\ \A a \in Promoted : promotedAt[a] <= promotedAt[Current]
  BY DEF Promotions
<1>3. ASSUME NEW a \in Promoted, \A b \in Promoted : promotedAt[b] <= promotedAt[a]
      PROVE  a = Current
  <2>1. /\ a \in AgentIds /\ Current \in AgentIds /\ promotedAt[a] >= 0
        /\ promotedAt[a] \in Int /\ promotedAt[Current] \in Int
    BY <1>2 DEF Promoted, Typed
  <2>2. promotedAt[a] = promotedAt[Current]
    BY <1>2, <1>3, <2>1
  <2>3. CASE promotedAt[a] = 0
    BY <2>1, <2>2, <2>3 DEF Promotions
  <2>4. CASE promotedAt[a] # 0
    <3>1. a # Seed /\ Current # Seed /\ promotedAt[a] \in 1 .. n
      BY <1>1, <2>1, <2>2, <2>4 DEF Promotions
    <3> QED BY <2>1, <2>2, <3>1 DEF PromotionChain
  <2> QED BY <2>3, <2>4
<1> QED BY <1>2, <1>3 DEF GetIncumbent, Promoted

(* What is at hand while a candidate is evaluated. *)
LEMMA AtHand ==
  ASSUME Saved, Typed, Checkpoints, PromotionChain, Promotions, Judged,
         pc \in {"candidate", "incumbent", "promote"}
  PROVE  /\ state = file /\ file.phase = "evaluating"
         /\ state.candidate \in AgentIds /\ state.candidate \in ckpts \cap agents
         /\ state.candidate \in Promoted => state.candidate = Current
         /\ incumbent = Current /\ incumbent \in AgentIds
<1>1. state.phase = "evaluating" /\ pc # "down"
  BY DEF Saved, Evaluating
<1>2. state = file
  BY <1>1 DEF Saved, Fresh
<1>3. state.candidate \in ckpts \cap agents
  BY <1>1, <1>2 DEF Judged
<1>4. state.candidate \in AgentIds
  BY <1>3 DEF Typed
<1> QED BY <1>1, <1>2, <1>3, <1>4, IncumbentIsCurrent DEF Judged

(* While get_candidate is asked, the newest checkpoint is the candidate. *)
LEMMA CandidateIsNewest ==
  ASSUME Checkpoints, pc \in {"retire", "trainSave"}
  PROVE  GetCandidate = Newest /\ Newest \in AgentIds
<1>1. /\ Newest \in 0 .. MaxAgents /\ ckpts = 0 .. Newest /\ Newest \notin Promoted
      /\ MaxAgents \in Nat
  BY OrchestratorAssumption DEF Checkpoints, AgentIds, Seed
<1> HIDE DEF Newest
<1>2. Newest \in Candidates /\ \A b \in Candidates : b \in Int /\ b <= Newest
  BY <1>1 DEF Candidates
<1>3. \A a \in Candidates : (\A b \in Candidates : b <= a) => a = Newest
  BY <1>1, <1>2
<1> QED BY <1>1, <1>2, <1>3 DEF GetCandidate, AgentIds, Seed

--------------------------------------------------------------------------------
(* The ledger: verdicts, promotions, and the rows they rest on. *)

LEMMA RecordsChange ==
  ASSUME [Next]_vars
  PROVE  \/ \E d \in Depths \cup {Unsolved} : SolveEnv(d)
         \/ Promote
         \/ UNCHANGED <<promotedAt, solutions, evaluations>>
<1> USE DEF Goto, Save, vars, disk
<1>1. CASE Start \/ GatherStart \/ GatherEnd \/ GatherSave
  BY <1>1 DEF Start, GatherStart, GatherEnd, GatherSave
<1>2. CASE TrainStart \/ TrainerDone \/ Register \/ TrainSave
  BY <1>2 DEF TrainStart, TrainerDone, Register, TrainSave
<1>3. CASE EvaluateCandidate \/ EvaluateIncumbent \/ EvaluateEnd \/ EvaluateSave
  BY <1>3 DEF EvaluateCandidate, EvaluateIncumbent, EvaluateEnd, EvaluateSave
<1>4. CASE SkipEnv \/ Raise \/ Kill \/ UNCHANGED vars
  BY <1>4 DEF SkipEnv, Raise, Kill, Die
<1>5. CASE \E w \in Workers : Collect(w) \/ RenameShard(w) \/ CopyShard(w) \/ UnlinkShard(w)
  BY <1>5 DEF Collect, RenameShard, CopyShard, UnlinkShard
<1>6. CASE \E w \in Workers : \E n \in 0 .. MaxEpisode : Episode(w, n) \/ Stray(w, n)
  BY <1>6 DEF Episode, Stray
<1> QED BY <1>1, <1>2, <1>3, <1>4, <1>5, <1>6 DEF Next, Step

(* A row is only ever added, for the agent that is evaluated. *)
LEMMA SolveKeeps ==
  ASSUME Typed, Ledger, NEW d \in Depths \cup {Unsolved}, SolveEnv(d), Evaluated \in AgentIds
  PROVE  Ledger'
<1> DEFINE new == Evaluated
<1>1. /\ solutions' = [solutions EXCEPT ![new][env] = d] /\ env \in Envs \ BadEnvs
      /\ ~Attempted(new, env) /\ d # Absent
      /\ promotedAt' = promotedAt /\ evaluations' = evaluations /\ new \in AgentIds
  BY OrchestratorAssumption DEF SolveEnv, Skipped
<1> HIDE DEF new
<1>2. PromotionChain' /\ Promotions'
  <2>1. \A m : LastPromoted(m)' = LastPromoted(m)
    BY <1>1 DEF LastPromoted
  <2>2. Current' = Current
    BY <1>1 DEF Current, LastPromoted
  <2> QED BY <1>1, <2>1, <2>2 DEF Ledger, PromotionChain, Promotions, Promoted
<1>3. \A a \in AgentIds : a # new => solutions'[a] = solutions[a]
  BY <1>1 DEF Typed
<1>4. \A a \in AgentIds : Complete(a) => a # new
  BY <1>1 DEF Complete
<1>5. \A a \in AgentIds : \A e \in Envs : e # env \/ a # new => solutions'[a][e] = solutions[a][e]
  BY <1>1 DEF Typed
<1>6. \A a \in AgentIds : \A e \in BadEnvs : ~Attempted(a, e)'
  <2>1. \A e \in BadEnvs : e \in Envs /\ e # env
    BY <1>1, OrchestratorAssumption DEF Envs
  <2> QED BY <1>5, <2>1 DEF Ledger, Reproducible, Attempted
<1>7. ASSUME NEW i \in 1 .. Len(evaluations), NEW a \in AgentIds, NEW b \in AgentIds,
             evaluations[i].candidate = a, evaluations[i].incumbent = b
      PROVE  evaluations[i] = Verdict(a, b)' /\ Complete(a)' /\ Complete(b)'
  <2>1. evaluations[i] = Verdict(a, b) /\ Complete(a) /\ Complete(b)
    BY <1>7 DEF Ledger, Reproducible
  <2>2. solutions'[a] = solutions[a] /\ solutions'[b] = solutions[b]
    BY <1>3, <1>4, <2>1
  <2>3. Verdict(a, b)' = Verdict(a, b)
    BY <2>2, VerdictFrame
  <2> QED BY <2>1, <2>2, <2>3 DEF Complete, Attempted
<1> QED BY <1>1, <1>2, <1>6, <1>7 DEF Ledger, Reproducible

(* A verdict goes to the end of the ledger, and a promotion to the top. *)
LEMMA PromoteKeeps ==
  ASSUME Saved, Typed, Checkpoints, Ledger, Judged, Promote
  PROVE  /\ Typed' /\ Ledger'
         /\ Current' = IF Verdict(state.candidate, incumbent).promoted THEN state.candidate ELSE Current
         /\ \A a \in AgentIds : a \in Promoted' => a \in Promoted \/ a = state.candidate
         /\ \A a \in AgentIds : Judgement(a)' => Judgement(a) \/ a = state.candidate
         /\ state.candidate \in Promoted' => state.candidate = Current'
<1> DEFINE c == state.candidate
           b == incumbent
           v == Verdict(c, b)
<1>n. PICK n \in Nat : n = Len(evaluations)
  BY LenProperties DEF Typed
<1>0. pc = "promote" /\ PromotionChain /\ Promotions /\ Reproducible
  BY DEF Promote, Goto, Ledger
<1>1. /\ c \in AgentIds /\ b \in AgentIds /\ b = Current
      /\ c \in Promoted => c = Current
  BY <1>0, AtHand
<1>2. Complete(c) /\ Complete(b)
  BY <1>0 DEF Judged
<1>3. v \in VerdictType /\ v.candidate = c /\ v.incumbent = b
  BY <1>1, VerdictTyped
<1>4. v.promoted => c # b
  BY <1>1, NotOverItself
<1>5. /\ evaluations' = Append(evaluations, v)
      /\ promotedAt' = IF v.promoted THEN [promotedAt EXCEPT ![v.candidate] = n + 1] ELSE promotedAt
      /\ solutions' = solutions /\ agents' = agents /\ incumbent' = incumbent /\ env' = env
  BY <1>n DEF Promote
<1>6. v' = v
  <2>1. c' = c /\ b' = b
    BY <1>n DEF Promote
  <2>2. \A x, y : Verdict(x, y)' = Verdict(x, y)
    BY <1>5 DEF Verdict, Wins, Joined, Attempted
  <2> QED BY <2>1, <2>2
<1> HIDE DEF c, b, v
<1>7. /\ n \in Nat /\ Len(evaluations') = n + 1 /\ evaluations'[n + 1] = v
      /\ \A i \in 1 .. n : evaluations'[i] = evaluations[i]
      /\ evaluations' \in Seq(VerdictType)
  BY <1>n, <1>3, <1>5, LenProperties, AppendProperties DEF Typed
<1>8. \A i \in 1 .. n + 1 : i \in 1 .. n \/ i = n + 1
  BY <1>7
<1>9. /\ promotedAt' \in [AgentIds -> Int]
      /\ \A a \in AgentIds : v.promoted /\ a = c => promotedAt'[a] = n + 1
      /\ \A a \in AgentIds : ~v.promoted \/ a # c => promotedAt'[a] = promotedAt[a]
  BY <1>1, <1>3, <1>5, <1>7 DEF Typed
<1>10. \A m \in 0 .. n : LastPromoted(m)' = LastPromoted(m)
  BY <1>7, LastPromotedKept
<1>11. v.promoted => c \notin Promoted /\ c # Seed
  <2>1. Seed \in Promoted
    BY <1>0, OrchestratorAssumption DEF Promotions, Promoted, AgentIds, Seed
  <2> QED BY <1>1, <1>4, <2>1
<1>12. \A i \in 1 .. n : v.promoted /\ evaluations[i].promoted => evaluations[i].candidate # c
  <2> SUFFICES ASSUME NEW i \in 1 .. n, v.promoted, evaluations[i].promoted,
                      evaluations[i].candidate = c
               PROVE  FALSE
    OBVIOUS
  <2>1. promotedAt[c] = i
    BY <1>0, <1>1, <1>11, <1>n DEF PromotionChain
  <2> QED BY <1>1, <1>7, <1>11, <2>1 DEF Promoted
<1>13. Current = LastPromoted(n)
  BY <1>n DEF Current
<1>14. Current' = IF v.promoted THEN c ELSE Current
  <2>1. Current' = LET won == {i \in 1 .. n + 1 : evaluations'[i].promoted}
                   IN IF won = {} THEN Seed
                      ELSE evaluations'[CHOOSE i \in won : \A j \in won : j <= i].candidate
    BY <1>7 DEF Current, LastPromoted
  <2> DEFINE won == {i \in 1 .. n + 1 : evaluations'[i].promoted}
  <2>2. CASE v.promoted
    <3>1. n + 1 \in won /\ \A j \in won : j <= n + 1
      BY <1>7, <2>2
    <3>2. \A i \in won : (\A j \in won : j <= i) => i = n + 1
      BY <1>7, <3>1
    <3>3. (CHOOSE i \in won : \A j \in won : j <= i) = n + 1
      <4> HIDE DEF won
      <4> QED BY <3>1, <3>2
    <3> QED BY <1>3, <1>7, <2>1, <2>2, <3>1, <3>3
  <2>3. CASE ~v.promoted
    <3>1. won = {i \in 1 .. n : evaluations'[i].promoted}
      BY <1>7, <1>8, <2>3
    <3> DEFINE before == {i \in 1 .. n : evaluations'[i].promoted}
    <3>2. LastPromoted(n)' =
            IF before = {} THEN Seed
            ELSE evaluations'[CHOOSE i \in before : \A j \in before : j <= i].candidate
      BY DEF LastPromoted
    <3>3. Current' = LastPromoted(n)'
      <4>1. won = before
        BY <3>1
      <4> HIDE DEF before
      <4> QED BY <2>1, <3>2, <4>1
    <3> QED BY <1>7, <1>10, <1>13, <2>3, <3>3
  <2> QED BY <2>2, <2>3
<1>15. PromotionChain'
  <2>1. \A i \in 1 .. n + 1 : evaluations'[i].incumbent = LastPromoted(i - 1)'
    <3>1. ASSUME NEW i \in 1 .. n PROVE evaluations'[i].incumbent = LastPromoted(i - 1)'
      <4>1. evaluations[i].incumbent = LastPromoted(i - 1)
        BY <1>0, <1>n DEF PromotionChain
      <4>2. i - 1 \in 0 .. n
        BY <1>7
      <4> QED BY <1>7, <1>10, <4>1, <4>2
    <3>2. evaluations'[n + 1].incumbent = LastPromoted(n)'
      BY <1>1, <1>3, <1>7, <1>10, <1>13
    <3> QED BY <1>7, <1>8, <3>1, <3>2
  <2>2. \A i, j \in 1 .. n + 1 :
          evaluations'[i].promoted /\ evaluations'[j].promoted /\ i # j =>
            evaluations'[i].candidate # evaluations'[j].candidate
    <3>1. \A i, j \in 1 .. n : evaluations[i].promoted /\ evaluations[j].promoted /\ i # j =>
            evaluations[i].candidate # evaluations[j].candidate
      BY <1>0, <1>n DEF PromotionChain
    <3> QED BY <1>3, <1>7, <1>8, <1>12, <3>1
  <2>3. \A a \in AgentIds \ {Seed} : \A i \in 1 .. n + 1 :
          promotedAt'[a] = i <=> evaluations'[i].promoted /\ evaluations'[i].candidate = a
    <3>1. \A a \in AgentIds \ {Seed} : \A i \in 1 .. n :
            promotedAt[a] = i <=> evaluations[i].promoted /\ evaluations[i].candidate = a
      BY <1>0, <1>n DEF PromotionChain
    <3>2. \A a \in AgentIds \ {Seed} : promotedAt[a] <= n /\ promotedAt[a] \in Int
      BY <1>0, <1>n DEF Promotions, Typed
    <3> SUFFICES ASSUME NEW a \in AgentIds \ {Seed}, NEW i \in 1 .. n + 1
                 PROVE  promotedAt'[a] = i <=> evaluations'[i].promoted /\ evaluations'[i].candidate = a
      OBVIOUS
    <3>3. CASE i = n + 1
      BY <1>3, <1>7, <1>9, <3>2, <3>3
    <3>4. CASE i \in 1 .. n
      BY <1>7, <1>9, <1>12, <3>1, <3>4
    <3> QED BY <1>8, <3>3, <3>4
  <2> QED BY <1>7, <2>1, <2>2, <2>3 DEF PromotionChain
<1>16. \A a \in AgentIds : a \in Promoted' <=> a \in Promoted \/ (v.promoted /\ a = c)
  BY <1>7, <1>9 DEF Promoted
<1>17. Promotions'
  <2>1. promotedAt'[Seed] = 0
    BY <1>0, <1>9, <1>11, OrchestratorAssumption DEF Promotions, AgentIds, Seed
  <2>2. \A a \in AgentIds \ {Seed} : promotedAt'[a] # 0 /\ promotedAt'[a] <= n + 1
    BY <1>0, <1>7, <1>9, <1>n DEF Promotions, Typed
  <2>3. \A a \in Promoted : promotedAt[a] \in Int /\ promotedAt[a] <= n /\ a \in AgentIds
    BY <1>0, <1>7, <1>n DEF Promotions, Promoted, Typed, AgentIds, Seed
  <2>4. Current' \in Promoted' /\ \A a \in Promoted' : promotedAt'[a] <= promotedAt'[Current']
    <3>0. \A a \in Promoted' : a \in AgentIds
      BY DEF Promoted
    <3>1. CASE v.promoted
      BY <1>1, <1>7, <1>9, <1>14, <1>16, <2>3, <3>0, <3>1
    <3>2. CASE ~v.promoted
      BY <1>0, <1>1, <1>9, <1>14, <1>16, <3>0, <3>2 DEF Promotions
    <3> QED BY <3>1, <3>2
  <2> QED BY <1>7, <2>1, <2>2, <2>4 DEF Promotions
<1>18. Reproducible'
  <2>0. /\ \A x, y : Verdict(x, y)' = Verdict(x, y) /\ Complete(x)' = Complete(x)
        /\ \A x, y : Attempted(x, y)' = Attempted(x, y)
    BY <1>5 DEF Verdict, Wins, Joined, Complete, Attempted
  <2>1. \A i \in 1 .. n + 1 : \A x, y \in AgentIds :
          evaluations'[i].candidate = x /\ evaluations'[i].incumbent = y =>
            evaluations'[i] = Verdict(x, y) /\ Complete(x) /\ Complete(y)
    <3>1. \A i \in 1 .. n : \A x, y \in AgentIds :
            evaluations[i].candidate = x /\ evaluations[i].incumbent = y =>
              evaluations[i] = Verdict(x, y) /\ Complete(x) /\ Complete(y)
      BY <1>0, <1>n DEF Reproducible
    <3> QED BY <1>2, <1>3, <1>7, <1>8, <3>1 DEF v
  <2> QED BY <1>0, <1>7, <2>0, <2>1 DEF Reproducible
<1>19. Typed'
  BY <1>5, <1>7, <1>9 DEF Typed
<1>20. \A a \in AgentIds : Judgement(a)' => Judgement(a) \/ a = c
  BY <1>3, <1>7, <1>8, <1>n DEF Judgement
<1> QED BY <1>1, <1>14, <1>15, <1>16, <1>17, <1>18, <1>19, <1>20 DEF Ledger, c, b, v

--------------------------------------------------------------------------------
(* Checkpoints and agents. *)

LEMMA CheckpointsChange ==
  ASSUME [Next]_vars
  PROVE  \/ TrainerDone \/ Register \/ Promote
         \/ /\ UNCHANGED <<ckpts, agents, promotedAt, evaluations>>
            /\ pc' = pc \/ pc' \notin {"retire", "trainSave"}
<1> USE DEF Goto, Save, vars, disk, process
<1>1. CASE Start \/ GatherStart \/ GatherEnd \/ GatherSave
  BY <1>1 DEF Start, GatherStart, GatherEnd, GatherSave
<1>2. CASE TrainStart \/ TrainSave \/ EvaluateCandidate
  BY <1>2 DEF TrainStart, TrainSave, EvaluateCandidate
<1>3. CASE EvaluateIncumbent \/ EvaluateEnd \/ EvaluateSave
  BY <1>3 DEF EvaluateIncumbent, EvaluateEnd, EvaluateSave
<1>4. CASE SkipEnv \/ Raise \/ Kill \/ UNCHANGED vars
  BY <1>4 DEF SkipEnv, Raise, Kill, Die
<1>5. CASE \E w \in Workers : Collect(w) \/ RenameShard(w) \/ CopyShard(w) \/ UnlinkShard(w)
  BY <1>5 DEF Collect, RenameShard, CopyShard, UnlinkShard
<1>6. CASE \E d \in Depths \cup {Unsolved} : SolveEnv(d)
  BY <1>6 DEF SolveEnv
<1>7. CASE \E w \in Workers : \E n \in 0 .. MaxEpisode : Episode(w, n) \/ Stray(w, n)
  BY <1>7 DEF Episode, Stray
<1> QED BY <1>1, <1>2, <1>3, <1>4, <1>5, <1>6, <1>7 DEF Next, Step

LEMMA CheckpointsNext ==
  ASSUME OInv, [Next]_vars
  PROVE  Checkpoints'
<1> USE DEF OInv
<1>0. Newest \in Nat /\ Newest \in AgentIds /\ ckpts = 0 .. Newest
  BY OrchestratorAssumption DEF Checkpoints, AgentIds, Seed
<1>1. CASE TrainerDone
  <2> DEFINE n == Cardinality(ckpts)
  <2>1. /\ pc' = "retire" /\ n \in AgentIds /\ ckpts' = ckpts \cup {n}
        /\ agents' = agents /\ promotedAt' = promotedAt /\ evaluations' = evaluations
    BY <1>1 DEF TrainerDone, Goto
  <2>2. n \in Nat /\ ckpts = 0 .. n - 1
    BY <1>0, FS_Interval DEF Newest
  <2> HIDE DEF n
  <2>3. ckpts' = 0 .. n
    BY <2>1, <2>2
  <2>4. Cardinality(0 .. n) = n + 1
    BY <2>2, FS_Interval
  <2>5. Newest' = n
    BY <2>2, <2>3, <2>4 DEF Newest
  <2>6. Promoted' = Promoted /\ \A a : Judgement(a)' = Judgement(a)
    BY <2>1 DEF Promoted, Judgement
  <2>7. n \notin ckpts
    BY <2>2
  <2>8. n \notin Promoted /\ ~Judgement(n)
    BY <2>1, <2>7 DEF Checkpoints
  <2>9. Newest' \in AgentIds /\ Newest' \notin Promoted' /\ ~Judgement(Newest)'
    BY <2>1, <2>5, <2>6, <2>8 DEF Judgement
  <2> QED BY <2>1, <2>2, <2>3, <2>5, <2>6, <2>9 DEF Checkpoints
<1>2. CASE Register
  <2>1. pc = "retire" /\ pc' = "trainSave" /\ agents' = agents \cup {GetCandidate}
        /\ ckpts' = ckpts /\ promotedAt' = promotedAt /\ evaluations' = evaluations
    BY <1>2 DEF Register, Goto
  <2>2. GetCandidate = Newest
    BY <2>1, CandidateIsNewest
  <2>3. Promoted' = Promoted /\ Newest' = Newest
    BY <2>1 DEF Promoted, Newest
  <2>4. \A a \in AgentIds : Judgement(a)' <=> Judgement(a)
    BY <2>1 DEF Judgement
  <2>5. ~Judgement(Newest)'
    BY <2>1 DEF Checkpoints, Judgement, Newest
  <2> QED BY <1>0, <2>1, <2>2, <2>3, <2>4, <2>5 DEF Checkpoints
<1>3. CASE Promote
  <2>1. pc = "promote" /\ pc' = "evaluateSave" /\ ckpts' = ckpts /\ agents' = agents
    BY <1>3 DEF Promote, Goto
  <2>2. state.candidate \in ckpts
    BY <2>1, AtHand DEF Ledger
  <2>3. \A a \in AgentIds : a \in Promoted' \/ Judgement(a)' => a \in ckpts
    BY <1>3, <2>2, PromoteKeeps DEF Checkpoints
  <2>4. Newest' = Newest
    BY <2>1 DEF Newest
  <2> QED BY <1>0, <2>1, <2>3, <2>4 DEF Checkpoints
<1>4. CASE /\ UNCHANGED <<ckpts, agents, promotedAt, evaluations>>
           /\ pc' = pc \/ pc' \notin {"retire", "trainSave"}
  BY <1>4 DEF Checkpoints, Newest, Promoted, Judgement
<1> QED BY <1>1, <1>2, <1>3, <1>4, CheckpointsChange

--------------------------------------------------------------------------------
(* Types. *)

LEMMA TypedNext ==
  ASSUME OInv, [Next]_vars
  PROVE  Typed'
<1> USE DEF OInv
<1>1. CASE Promote
  BY <1>1, PromoteKeeps
<1>2. CASE \E d \in Depths \cup {Unsolved} : SolveEnv(d)
  <2> PICK d \in Depths \cup {Unsolved} : SolveEnv(d)
    BY <1>2
  <2> DEFINE new == Evaluated
  <2>1. /\ solutions' = [solutions EXCEPT ![new][env] = d] /\ env' = env + 1 /\ env \in Envs
        /\ agents' = agents /\ promotedAt' = promotedAt /\ evaluations' = evaluations
        /\ incumbent' = incumbent
    BY DEF SolveEnv
  <2> HIDE DEF new
  <2>2. solutions' \in [AgentIds -> [Envs -> Depths \cup {Unsolved, Absent}]]
    BY <2>1 DEF Typed
  <2>3. env' \in Nat \ {0}
    BY <2>1 DEF Typed
  <2> QED BY <2>1, <2>2, <2>3 DEF Typed
<1>3. CASE EvaluateCandidate
  <2>1. incumbent' = GetIncumbent /\ env' = 1 /\ UNCHANGED <<agents, promotedAt, solutions, evaluations>>
    BY <1>3 DEF EvaluateCandidate, disk
  <2>2. GetIncumbent \in AgentIds
    BY IncumbentIsCurrent DEF Ledger
  <2> QED BY <2>1, <2>2 DEF Typed
<1>4. CASE Register
  <2>1. agents' = agents \cup {GetCandidate} /\ pc = "retire"
        /\ UNCHANGED <<promotedAt, solutions, evaluations, incumbent, env>>
    BY <1>4 DEF Register, Goto
  <2>2. GetCandidate \in AgentIds
    BY <2>1, CandidateIsNewest
  <2> QED BY <2>1, <2>2 DEF Typed
<1>5. CASE SkipEnv \/ EvaluateIncumbent
  <2>1. /\ UNCHANGED <<agents, promotedAt, solutions, evaluations, incumbent>>
        /\ env' = env + 1 \/ env' = 1
    BY <1>5 DEF SkipEnv, EvaluateIncumbent, disk
  <2> QED BY <2>1 DEF Typed
<1>6. ASSUME UNCHANGED <<agents, promotedAt, solutions, evaluations, incumbent, env>> PROVE Typed'
  BY <1>6 DEF Typed
<1>7. CASE Start \/ GatherStart \/ GatherEnd \/ GatherSave
  BY <1>6, <1>7 DEF Start, GatherStart, GatherEnd, GatherSave, disk
<1>8. CASE TrainStart \/ TrainerDone \/ TrainSave \/ EvaluateEnd \/ EvaluateSave
  BY <1>6, <1>8 DEF TrainStart, TrainerDone, TrainSave, EvaluateEnd, EvaluateSave, disk
<1>9. CASE Raise \/ Kill \/ UNCHANGED vars
  BY <1>6, <1>9 DEF Raise, Kill, Die, vars, disk, process
<1>10. CASE \E w \in Workers : Collect(w) \/ RenameShard(w) \/ CopyShard(w) \/ UnlinkShard(w)
  BY <1>6, <1>10 DEF Collect, RenameShard, CopyShard, UnlinkShard, disk, process
<1>11. CASE \E w \in Workers : \E n \in 0 .. MaxEpisode : Episode(w, n) \/ Stray(w, n)
  BY <1>6, <1>11 DEF Episode, Stray, process
<1> QED BY <1>1, <1>2, <1>3, <1>4, <1>5, <1>7, <1>8, <1>9, <1>10, <1>11 DEF Next, Step

LEMMA LedgerNext ==
  ASSUME OInv, [Next]_vars
  PROVE  Ledger'
<1> USE DEF OInv
<1>1. CASE Promote
  BY <1>1, PromoteKeeps
<1>2. CASE \E d \in Depths \cup {Unsolved} : SolveEnv(d)
  <2> PICK d \in Depths \cup {Unsolved} : SolveEnv(d)
    BY <1>2
  <2>1. pc \in {"candidate", "incumbent"}
    BY DEF SolveEnv
  <2>2. Evaluated \in AgentIds
    BY <2>1, AtHand DEF Evaluated, Ledger
  <2> QED BY <2>2, SolveKeeps
<1>3. CASE UNCHANGED <<promotedAt, solutions, evaluations>>
  <2>1. \A m : LastPromoted(m)' = LastPromoted(m)
    BY <1>3 DEF LastPromoted
  <2>2. Current' = Current /\ Promoted' = Promoted
    BY <1>3 DEF Current, LastPromoted, Promoted
  <2>3. /\ \A x, y : Verdict(x, y)' = Verdict(x, y) /\ Complete(x)' = Complete(x)
        /\ \A x, y : Attempted(x, y)' = Attempted(x, y)
    BY <1>3 DEF Verdict, Wins, Joined, Complete, Attempted
  <2>4. PromotionChain'
    BY <1>3, <2>1 DEF Ledger, PromotionChain
  <2>5. Promotions'
    BY <1>3, <2>2 DEF Ledger, Promotions
  <2>6. Reproducible'
    BY <1>3, <2>3 DEF Ledger, Reproducible
  <2> QED BY <2>4, <2>5, <2>6 DEF Ledger
<1> QED BY <1>1, <1>2, <1>3, RecordsChange

--------------------------------------------------------------------------------
(* The evaluation in hand. *)

(* What Judged needs of a step that has no part in an evaluation.            *)
LEMMA JudgedFrame ==
  ASSUME Judged, UNCHANGED <<promotedAt, evaluations>>, ckpts \subseteq ckpts',
         agents \subseteq agents', file' = file \/ file'.phase # "evaluating",
         pc' \notin {"candidate", "incumbent", "promote"}
  PROVE  Judged'
<1>1. Promoted' = Promoted /\ Current' = Current
  BY DEF Promoted, Current, LastPromoted
<1>2. CASE file' = file
  BY <1>1, <1>2 DEF Judged
<1>3. CASE file'.phase # "evaluating"
  BY <1>1, <1>3 DEF Judged
<1> QED BY <1>2, <1>3

(* ... and of one that changes nothing an evaluation looks at.               *)
LEMMA JudgedStays ==
  ASSUME Judged,
         UNCHANGED <<promotedAt, evaluations, ckpts, agents, file, pc, state, incumbent, env,
                     solutions>>
  PROVE  Judged'
<1>1. Promoted' = Promoted /\ Current' = Current /\ state' = state
  BY DEF Promoted, Current, LastPromoted
<1>2. \A a, e : Attempted(a, e)' = Attempted(a, e)
  BY DEF Attempted
<1>3. \A a : Tried(a)' = Tried(a) /\ Complete(a)' = Complete(a)
  BY <1>2 DEF Tried, Complete
<1> QED BY <1>1, <1>3 DEF Judged

(* The environments of the holdout have all had their turn.                  *)
LEMMA AllTried ==
  ASSUME Typed, env \notin Envs, NEW a, Tried(a)
  PROVE  Complete(a)
<1>1. env \in Nat \ {0} /\ NumEnvs \in Nat /\ env \notin 1 .. NumEnvs
  BY OrchestratorAssumption DEF Typed, Envs
<1>2. env > NumEnvs
  BY <1>1
<1>3. \A e \in Envs : e < env
  BY <1>1, <1>2 DEF Envs
<1> QED BY <1>3 DEF Tried, Complete

(* The next environment is tried, by a new row or by an earlier one.         *)
LEMMA NextTried ==
  ASSUME Typed, NEW a, Tried(a), env' = env + 1,
         \A e \in Envs : Attempted(a, e) => Attempted(a, e)',
         env \in Envs \ BadEnvs => solutions'[a][env] # Absent
  PROVE  Tried(a)'
<1>1. \A e \in Envs : e < env' => e < env \/ e = env
  BY DEF Typed, Envs
<1> QED BY <1>1 DEF Tried, Attempted

(* While an evaluation runs nobody else is promoted, registered or saved.    *)
LEMMA SameLedger ==
  ASSUME Judged, UNCHANGED <<promotedAt, evaluations, ckpts, agents, file>>
  PROVE  /\ Promoted' = Promoted /\ Current' = Current
         /\ file'.phase = "evaluating" =>
              /\ file'.candidate \in ckpts' \cap agents'
              /\ file'.candidate \in Promoted' => file'.candidate = Current'
<1>1. Promoted' = Promoted /\ Current' = Current
  BY DEF Promoted, Current, LastPromoted
<1> QED BY <1>1 DEF Judged

LEMMA JudgedNext ==
  ASSUME OInv, [Next]_vars
  PROVE  Judged'
<1> USE DEF OInv, Goto, Save, vars, disk, process
<1>1. CASE Start \/ GatherStart \/ GatherEnd \/ GatherSave \/ TrainStart
  <2>1. GatherSave => file'.phase # "evaluating"
    BY DEF GatherSave, Saved, StateType
  <2> QED BY <1>1, <2>1, JudgedFrame DEF Start, GatherStart, GatherEnd, GatherSave, TrainStart
<1>2. CASE TrainerDone \/ Register \/ EvaluateSave \/ Raise \/ Kill
  BY <1>2, JudgedFrame DEF TrainerDone, Register, EvaluateSave, Raise, Kill, Die
<1>3. CASE TrainSave
  <2>1. /\ pc = "trainSave" /\ pc' = "loop" /\ file' = Trained
        /\ UNCHANGED <<ckpts, agents, promotedAt, evaluations>>
    BY <1>3 DEF TrainSave, Trained
  <2>2. GetCandidate = Newest /\ Newest \in AgentIds
    BY <2>1, CandidateIsNewest
  <2>3. file'.candidate = Newest
    BY <2>1, <2>2 DEF Trained, Saved, StateType
  <2>4. Newest \in agents /\ Newest \in ckpts /\ Newest \notin Promoted
    BY <2>1 DEF Checkpoints
  <2>5. Promoted' = Promoted
    BY <2>1 DEF Promoted
  <2> QED BY <2>1, <2>3, <2>4, <2>5 DEF Judged
<1>4. CASE EvaluateCandidate
  <2>1. /\ pc' = "candidate" /\ incumbent' = GetIncumbent /\ env' = 1 /\ state' = state
        /\ UNCHANGED <<promotedAt, evaluations, ckpts, agents, file>>
    BY <1>4 DEF EvaluateCandidate
  <2>2. incumbent' = Current'
    BY <2>1, IncumbentIsCurrent, SameLedger DEF Ledger
  <2>3. \A a : Tried(a)'
    BY <2>1 DEF Tried, Envs
  <2> QED BY <2>1, <2>2, <2>3, SameLedger DEF Judged
<1>5. CASE SkipEnv
  <2>1. /\ pc \in {"candidate", "incumbent"} /\ env' = env + 1
        /\ Attempted(Evaluated, env) \/ env \in BadEnvs
        /\ UNCHANGED <<promotedAt, evaluations, ckpts, agents, file, pc, state, incumbent, solutions>>
    BY <1>5 DEF SkipEnv, Skipped
  <2>2. Tried(Evaluated)
    BY <2>1 DEF Judged, Evaluated
  <2>3. \A a, e : Attempted(a, e)' = Attempted(a, e)
    BY <2>1 DEF Attempted
  <2>4. \A a : a = Evaluated => Tried(a)'
    BY <2>1, <2>2, <2>3, NextTried DEF Attempted
  <2>5. \A a : Complete(a)' = Complete(a)
    BY <2>3 DEF Complete
  <2> QED BY <2>1, <2>4, <2>5, SameLedger DEF Judged, Evaluated
<1>6. CASE \E d \in Depths \cup {Unsolved} : SolveEnv(d)
  <2>1. PICK d \in Depths \cup {Unsolved} : SolveEnv(d)
    BY <1>6
  <2>2. PICK new : new = Evaluated
    OBVIOUS
  <2>3. /\ pc \in {"candidate", "incumbent"} /\ env \in Envs /\ env' = env + 1
        /\ solutions' = [solutions EXCEPT ![new][env] = d]
        /\ UNCHANGED <<promotedAt, evaluations, ckpts, agents, file, pc, state, incumbent>>
    BY <2>1, <2>2 DEF SolveEnv
  <2>4. d # Absent /\ new \in AgentIds
    BY <2>2, <2>3, OrchestratorAssumption, AtHand DEF Evaluated, Ledger
  <2>5. \A a \in AgentIds : \A e \in Envs : Attempted(a, e) => Attempted(a, e)'
    BY <2>3, <2>4 DEF Attempted, Typed
  <2>6. solutions'[new][env] # Absent
    BY <2>3, <2>4 DEF Typed
  <2>7. Tried(new)
    BY <2>2, <2>3 DEF Judged, Evaluated
  <2>8. Tried(new)'
    BY <2>3, <2>4, <2>5, <2>6, <2>7, NextTried
  <2>9. \A a \in AgentIds : Complete(a) => Complete(a)'
    BY <2>5 DEF Complete
  <2>10. state.candidate \in AgentIds /\ incumbent \in AgentIds
    BY <2>3, AtHand DEF Ledger
  <2> QED BY <2>2, <2>3, <2>8, <2>9, <2>10, SameLedger DEF Judged, Evaluated
<1>7. CASE EvaluateIncumbent
  <2>1. /\ pc = "candidate" /\ pc' = "incumbent" /\ env \notin Envs /\ env' = 1
        /\ UNCHANGED <<promotedAt, evaluations, ckpts, agents, file, state, incumbent, solutions>>
    BY <1>7 DEF EvaluateIncumbent
  <2>2. Complete(state.candidate)
    BY <2>1, AllTried DEF Judged
  <2>3. \A a : Complete(a)' = Complete(a)
    BY <2>1 DEF Complete, Attempted
  <2>4. \A a : Tried(a)'
    BY <2>1 DEF Tried, Envs
  <2> QED BY <2>1, <2>2, <2>3, <2>4, SameLedger DEF Judged
<1>8. CASE EvaluateEnd
  <2>1. /\ pc = "incumbent" /\ pc' = "promote" /\ env \notin Envs
        /\ UNCHANGED <<promotedAt, evaluations, ckpts, agents, file, state, incumbent, solutions>>
    BY <1>8 DEF EvaluateEnd
  <2>2. Complete(incumbent)
    BY <2>1, AllTried DEF Judged
  <2>3. \A a : Complete(a)' = Complete(a)
    BY <2>1 DEF Complete, Attempted
  <2> QED BY <2>1, <2>2, <2>3, SameLedger DEF Judged
<1>9. CASE Promote
  <2>1. /\ pc = "promote" /\ pc' = "evaluateSave"
        /\ UNCHANGED <<ckpts, agents, file, state>>
    BY <1>9 DEF Promote
  <2>2. state = file /\ state.candidate \in ckpts \cap agents
    BY <2>1, AtHand DEF Ledger
  <2>3. state.candidate \in Promoted' => state.candidate = Current'
    BY <1>9, PromoteKeeps
  <2> QED BY <2>1, <2>2, <2>3 DEF Judged
<1>10. CASE UNCHANGED vars \/ \E w \in Workers : Collect(w) \/ RenameShard(w) \/ CopyShard(w) \/ UnlinkShard(w)
  BY <1>10, JudgedStays DEF Collect, RenameShard, CopyShard, UnlinkShard
<1>11. CASE \E w \in Workers : \E n \in 0 .. MaxEpisode : Episode(w, n) \/ Stray(w, n)
  BY <1>11, JudgedStays DEF Episode, Stray
<1> QED BY <1>1, <1>2, <1>3, <1>4, <1>5, <1>6, <1>7, <1>8, <1>9, <1>10, <1>11 DEF Next, Step

--------------------------------------------------------------------------------
(* The invariant. *)

LEMMA OInvStart == Init => OInv
<1> SUFFICES ASSUME Init PROVE OInv
  OBVIOUS
<1>0. /\ Seed = 0 /\ MaxAgents \in Nat /\ Seed \in AgentIds
      /\ NoAgent \notin AgentIds
  BY OrchestratorAssumption DEF AgentIds, Seed
<1>1. /\ evaluations = <<>> /\ ckpts = {Seed} /\ agents = {Seed}
      /\ file = NoFile /\ pc = "down" /\ env = 1 /\ incumbent = NoAgent
      /\ promotedAt = [a \in AgentIds |-> IF a = Seed THEN 0 ELSE -1]
      /\ solutions = [a \in AgentIds |-> [e \in Envs |-> Absent]]
  BY DEF Init
<1>2. Len(evaluations) = 0 /\ evaluations \in Seq(VerdictType) /\ \A i \in 1 .. 0 : FALSE
  BY <1>1, EmptySeq
<1>3. Typed
  BY <1>0, <1>1, <1>2 DEF Typed
<1>4. Promoted = {Seed} /\ \A a : ~Judgement(a)
  BY <1>0, <1>1, <1>2 DEF Promoted, Judgement
<1>5. Newest = 0
  <2>1. Cardinality(ckpts) = 1
    BY <1>1, FS_Singleton, Zenon
  <2> QED BY <2>1 DEF Newest
<1>6. Checkpoints
  BY <1>0, <1>1, <1>4, <1>5 DEF Checkpoints
<1>7. Current = Seed
  BY <1>2 DEF Current, LastPromoted
<1>8. PromotionChain
  <2>1. \A a \in AgentIds \ {Seed} : \A i \in 1 .. Len(evaluations) :
          promotedAt[a] = i <=> evaluations[i].promoted /\ evaluations[i].candidate = a
    BY <1>2
  <2> QED BY <1>2, <2>1 DEF PromotionChain
<1>9. Promotions
  BY <1>0, <1>1, <1>2, <1>4, <1>7 DEF Promotions
<1>10. Reproducible
  BY <1>1, <1>2, OrchestratorAssumption DEF Reproducible, Attempted, Envs
<1>11. Judged
  BY <1>1 DEF Judged, NoFile, Fresh
<1> QED BY <1>3, <1>6, <1>8, <1>9, <1>10, <1>11, SavedStart DEF OInv, Ledger

LEMMA OInvNext == OInv /\ [Next]_vars => OInv'
<1> SUFFICES ASSUME OInv, [Next]_vars PROVE OInv'
  OBVIOUS
<1>1. pc = "trainSave" => GetCandidate \in AgentIds
  BY CandidateIsNewest DEF OInv
<1>2. Saved'
  BY <1>1, SavedNext DEF OInv
<1> QED BY <1>2, TypedNext, CheckpointsNext, LedgerNext, JudgedNext DEF OInv

(* What a phase knows in memory agrees with the state file, the database and *)
(* the shards at every step of the pipeline, kills and failures included.    *)
THEOREM OInvHolds == Spec => []OInv
BY OInvStart, OInvNext, PTL DEF Spec

--------------------------------------------------------------------------------
(* Lines. *)

LEMMA HeldFinite ==
  ASSUME NEW f, NEW second \in Nat, DOMAIN f \subseteq 0 .. second, NEW l
  PROVE  IsFiniteSet(Held(f, l)) /\ Cardinality(Held(f, l)) \in Nat
<1>1. IsFiniteSet(0 .. second)
  BY FS_Interval
<1>2. Held(f, l) \in SUBSET (0 .. second)
  BY DEF Held
<1>3. IsFiniteSet(Held(f, l))
  BY <1>1, <1>2, FS_Subset
<1> QED BY <1>3, FS_CardinalityType

LEMMA LinesSay == Lines => NoLineLost
<1> SUFFICES ASSUME Lines, NEW w \in Workers, NEW l \in 1 .. produced[w]
             PROVE  /\ Holders(w, l) = 0 => l \in overlooked[w]
                    /\ Holders(w, l) <= 1 + torn[w] + IF w \in copied THEN 1 ELSE 0
  BY DEF NoLineLost
<1>1. Located(retired[w], lines[w], overlooked[w], produced[w], torn[w], Second,
              w \in shards, w \in copied)
  BY DEF Lines
<1> DEFINE files == Held(retired[w], l)
<1>2. files = Files(w, l)
  BY DEF Held, Files
<1>3. /\ IsFiniteSet(files) /\ Cardinality(files) \in Nat
  BY <1>1, HeldFinite DEF Located
<1>4. /\ torn[w] \in Nat
      /\ l \notin lines[w] => l \in overlooked[w] \/ files # {}
      /\ Cardinality(files) <= torn[w] + IF l \notin lines[w] \/ w \in copied THEN 1 ELSE 0
  BY <1>1 DEF Located, Accounted
<1>5. Holders(w, l) = Cardinality(files) + IF l \in lines[w] THEN 1 ELSE 0
  BY <1>2 DEF Holders
<1>6. Cardinality(files) = 0 => files = {}
  BY <1>3, FS_EmptySet
<1> HIDE DEF files
<1> QED BY <1>3, <1>4, <1>5, <1>6

(* New lines are in no file but the shard.                                   *)
Later(late, new, open) == IF open THEN late \cup new ELSE late

LEMMA LocatedWrite ==
  ASSUME NEW f, NEW shard, NEW late, NEW made, NEW cuts, NEW second,
         NEW listed \in BOOLEAN, NEW open \in BOOLEAN, NEW n \in Nat,
         Located(f, shard, late, made, cuts, second, listed, open)
  PROVE  Located(f, shard \cup made + 1 .. made + n,
                 Later(late, made + 1 .. made + n, open), made + n, cuts, second, listed, open)
<1> DEFINE new == made + 1 .. made + n
           after == Later(late, new, open)
<1>1. /\ made \in Nat /\ cuts \in Nat /\ second \in Nat
      /\ shard \subseteq 1 .. made /\ late \subseteq Nat /\ DOMAIN f \subseteq 0 .. second
      /\ listed /\ ~open => second \notin DOMAIN f
      /\ \A name \in DOMAIN f : f[name] \subseteq 1 .. made
  BY DEF Located
<1>2. /\ new \subseteq Nat /\ new \subseteq 1 .. made + n
      /\ 1 .. made \subseteq 1 .. made + n
      /\ \A l \in 1 .. made + n : l \in 1 .. made \/ l \in new
      /\ \A l \in new : l \notin 1 .. made
      /\ \A l \in 1 .. made : l \notin new
      /\ made + n \in Nat
  BY <1>1
<1>3. shard \cup new \subseteq 1 .. made + n /\ after \subseteq Nat
  BY <1>1, <1>2 DEF Later
<1>4. \A name \in DOMAIN f : f[name] \subseteq 1 .. made + n
  BY <1>1, <1>2
<1> HIDE DEF new
<1>5. ASSUME NEW l \in 1 .. made
      PROVE  Accounted(f, l, shard \cup new, after, cuts, open)
  <2>1. Accounted(f, l, shard, late, cuts, open)
    BY DEF Located
  <2>2. l \notin shard \cup new <=> l \notin shard
    BY <1>2
  <2>3. l \in late => l \in after
    BY DEF Later
  <2> QED BY <2>1, <2>2, <2>3 DEF Accounted
<1>6. ASSUME NEW l \in new
      PROVE  Accounted(f, l, shard \cup new, after, cuts, open)
  <2>1. Held(f, l) = {}
    BY <1>1, <1>2 DEF Held
  <2>2. Cardinality(Held(f, l)) = 0
    BY <2>1, FS_EmptySet
  <2>3. l \in shard \cup new /\ (open => l \in after)
    BY DEF Later
  <2> QED BY <1>1, <2>2, <2>3 DEF Accounted
<1> HIDE DEF after
<1>7. Located(f, shard \cup new, after, made + n, cuts, second, listed, open)
  BY <1>1, <1>2, <1>3, <1>4, <1>5, <1>6 DEF Located
<1> QED BY <1>7 DEF after, new

(* A file of a new name holds the lines of the shard once more: the shard is *)
(* gone, or open.                                                            *)
LEMMA LocatedDeposit ==
  ASSUME NEW f, NEW shard, NEW late, NEW made, NEW cuts, NEW second, NEW name,
         Located(f, shard, late, made, cuts, second, TRUE, FALSE),
         (name = Plain /\ Plain \notin DOMAIN f) \/ name = second
  PROVE  /\ Located(Filed(f, name, shard), {}, late, made, cuts, second, FALSE, FALSE)
         /\ Located(Filed(f, name, shard), shard, late, made, cuts, second, TRUE, TRUE)
<1>1. /\ made \in Nat /\ cuts \in Nat /\ second \in Nat
      /\ shard \subseteq 1 .. made /\ late \subseteq Nat /\ DOMAIN f \subseteq 0 .. second
      /\ second \notin DOMAIN f
      /\ \A m \in DOMAIN f : f[m] \subseteq 1 .. made
  BY DEF Located
<1>2. name \in 0 .. second /\ name \notin DOMAIN f
  BY <1>1 DEF Plain
<1>3. PICK g : g = Filed(f, name, shard)
  OBVIOUS
<1>4. /\ DOMAIN g = {name} \cup DOMAIN f /\ g[name] = shard
      /\ \A m \in DOMAIN f : g[m] = f[m]
  BY <1>2, <1>3 DEF Filed
<1>5. DOMAIN g \subseteq 0 .. second /\ \A m \in DOMAIN g : g[m] \subseteq 1 .. made
  BY <1>1, <1>2, <1>4
<1>6. ASSUME NEW l \in 1 .. made, NEW open \in BOOLEAN, NEW left \in {{}, shard},
             left = {} \/ open
      PROVE  Accounted(g, l, left, late, cuts, open)
  <2>1. /\ l \notin shard => l \in late \/ Held(f, l) # {}
        /\ Cardinality(Held(f, l)) <= cuts + IF l \notin shard THEN 1 ELSE 0
    BY DEF Located, Accounted
  <2>2. IsFiniteSet(Held(f, l)) /\ Cardinality(Held(f, l)) \in Nat
    BY <1>1, HeldFinite
  <2>3. CASE l \in shard
    <3>1. Held(g, l) = Held(f, l) \cup {name} /\ name \notin Held(f, l)
      BY <1>2, <1>4, <2>3 DEF Held
    <3>2. Cardinality(Held(g, l)) = Cardinality(Held(f, l)) + 1
      BY <2>2, <3>1, FS_AddElement
    <3>3. Held(g, l) # {}
      BY <3>1
    <3> QED BY <1>1, <1>6, <2>1, <2>2, <2>3, <3>2, <3>3 DEF Accounted
  <2>4. CASE l \notin shard
    <3>1. Held(g, l) = Held(f, l)
      BY <1>2, <1>4, <2>4 DEF Held
    <3> QED BY <1>6, <2>1, <2>4, <3>1 DEF Accounted
  <2> QED BY <2>3, <2>4
<1>7. Located(g, {}, late, made, cuts, second, FALSE, FALSE)
  BY <1>1, <1>5, <1>6 DEF Located
<1>8. Located(g, shard, late, made, cuts, second, TRUE, TRUE)
  BY <1>1, <1>5, <1>6 DEF Located
<1> QED BY <1>3, <1>7, <1>8

(* What was copied can go, or stay for good when the process dies.           *)
LEMMA LocatedClose ==
  ASSUME NEW f, NEW shard, NEW late, NEW made, NEW cuts, NEW second,
         Located(f, shard, late, made, cuts, second, TRUE, TRUE)
  PROVE  /\ Located(f, {}, late, made, cuts, second, FALSE, FALSE)
         /\ Located(f, shard, late, made, cuts + 1, second, FALSE, FALSE)
<1>1. /\ made \in Nat /\ cuts \in Nat /\ second \in Nat
      /\ shard \subseteq 1 .. made /\ late \subseteq Nat /\ DOMAIN f \subseteq 0 .. second
      /\ \A m \in DOMAIN f : f[m] \subseteq 1 .. made
      /\ \A l \in 1 .. made : Accounted(f, l, shard, late, cuts, TRUE)
  BY DEF Located
<1>2. ASSUME NEW l \in 1 .. made
      PROVE  /\ Accounted(f, l, {}, late, cuts, FALSE)
             /\ Accounted(f, l, shard, late, cuts + 1, FALSE)
  <2>1. /\ l \in late \/ Held(f, l) # {}
        /\ Cardinality(Held(f, l)) <= cuts + 1
    BY <1>1 DEF Accounted
  <2>2. Cardinality(Held(f, l)) \in Nat
    BY <1>1, HeldFinite
  <2> QED BY <1>1, <2>1, <2>2 DEF Accounted
<1>3. Located(f, {}, late, made, cuts, second, FALSE, FALSE)
  BY <1>1, <1>2 DEF Located
<1>4. Located(f, shard, late, made, cuts + 1, second, FALSE, FALSE)
  <2>1. cuts + 1 \in Nat
    BY <1>1
  <2>2. \A l \in 1 .. made : Accounted(f, l, shard, late, cuts + 1, FALSE)
    BY <1>2
  <2> QED BY <1>1, <2>1, <2>2 DEF Located
<1> QED BY <1>3, <1>4

(* Neither the list of the shards nor a later second moves a line.           *)
LEMMA LocatedLater ==
  ASSUME NEW f, NEW shard, NEW late, NEW made, NEW cuts, NEW second,
         NEW listed \in BOOLEAN,
         Located(f, shard, late, made, cuts, second, listed, FALSE)
  PROVE  /\ \A again \in BOOLEAN :
              Located(f, shard, late, made, cuts, second + 1, again, FALSE)
         /\ Located(f, shard, late, made, cuts, second, FALSE, FALSE)
<1>1. /\ second \in Nat /\ DOMAIN f \subseteq 0 .. second
      /\ second + 1 \in Nat /\ second + 1 \notin 0 .. second
      /\ 0 .. second \subseteq 0 .. second + 1
  BY DEF Located
<1>2. ASSUME NEW again \in BOOLEAN
      PROVE  Located(f, shard, late, made, cuts, second + 1, again, FALSE)
  BY <1>1 DEF Located
<1>3. Located(f, shard, late, made, cuts, second, FALSE, FALSE)
  BY DEF Located
<1> QED BY <1>2, <1>3

LEMMA LinesStart == Init => Lines
<1> SUFFICES ASSUME Init PROVE Lines
  OBVIOUS
<1>1. Second = 1
  <2>1. ckpts = {Seed}
    BY DEF Init
  <2> QED BY <2>1, FS_Singleton, Zenon DEF Second
<1>2. ASSUME NEW w \in Workers
      PROVE  /\ retired[w] = <<>> /\ lines[w] = {} /\ overlooked[w] = {}
             /\ produced[w] = 0 /\ torn[w] = 0
  BY DEF Init
<1>3. DOMAIN <<>> = {} /\ 1 .. 0 = {}
  OBVIOUS
<1>4. Located(<<>>, {}, {}, 0, 0, 1, FALSE, FALSE)
  BY <1>3 DEF Located
<1>5. /\ DOMAIN lines = Workers /\ DOMAIN produced = Workers /\ DOMAIN retired = Workers
      /\ DOMAIN overlooked = Workers /\ DOMAIN torn = Workers
      /\ shards = {} /\ copied = {}
  BY DEF Init
<1>6. ASSUME NEW w \in Workers
      PROVE  Located(retired[w], lines[w], overlooked[w], produced[w], torn[w], Second,
                     w \in shards, w \in copied)
  <2>1. (w \in shards) = FALSE /\ (w \in copied) = FALSE
    BY <1>5
  <2> QED BY <1>1, <1>2, <1>4, <2>1
<1> QED BY <1>5, <1>6 DEF Lines

LEMMA WriteLinesKeeps ==
  ASSUME Lines, NEW w \in Workers, NEW n \in Nat, WriteLines(w, n),
         UNCHANGED <<retired, torn, pc, moves, ckpts>>
  PROVE  Lines'
<1>1. /\ lines' = [lines EXCEPT ![w] = @ \cup produced[w] + 1 .. produced[w] + n]
      /\ overlooked' = [overlooked EXCEPT ![w] =
                          IF w \in copied THEN @ \cup produced[w] + 1 .. produced[w] + n ELSE @]
      /\ produced' = [produced EXCEPT ![w] = @ + n]
      /\ retired' = retired /\ torn' = torn /\ pc' = pc /\ shards' = shards /\ copied' = copied
      /\ Second' = Second
  BY DEF WriteLines, moves, Second
<1>2. /\ DOMAIN lines = Workers /\ DOMAIN produced = Workers /\ DOMAIN retired = Workers
      /\ DOMAIN overlooked = Workers /\ DOMAIN torn = Workers
      /\ shards \subseteq Workers /\ copied \subseteq shards
      /\ pc # "retire" => shards = {}
  BY DEF Lines
<1>3. /\ DOMAIN lines' = Workers /\ DOMAIN produced' = Workers /\ DOMAIN overlooked' = Workers
      /\ lines'[w] = lines[w] \cup produced[w] + 1 .. produced[w] + n
      /\ overlooked'[w] = IF w \in copied
                          THEN overlooked[w] \cup produced[w] + 1 .. produced[w] + n
                          ELSE overlooked[w]
      /\ produced'[w] = produced[w] + n
      /\ \A v \in Workers : v # w =>
           lines'[v] = lines[v] /\ overlooked'[v] = overlooked[v] /\ produced'[v] = produced[v]
  BY <1>1, <1>2
<1>4. ASSUME NEW v \in Workers
      PROVE  Located(retired[v], lines'[v], overlooked'[v], produced'[v], torn[v], Second,
                     v \in shards, v \in copied)
  <2>1. Located(retired[v], lines[v], overlooked[v], produced[v], torn[v], Second,
                v \in shards, v \in copied)
    BY DEF Lines
  <2>2. CASE v = w
    <3>1. ASSUME NEW listed \in BOOLEAN, NEW open \in BOOLEAN,
                 (v \in shards) = listed, (v \in copied) = open
          PROVE  Located(retired[v], lines'[v], overlooked'[v], produced'[v], torn[v], Second,
                         v \in shards, v \in copied)
      <4>1. Located(retired[v], lines[v], overlooked[v], produced[v], torn[v], Second, listed, open)
        BY <2>1, <3>1
      <4>2. Located(retired[v], lines[v] \cup produced[v] + 1 .. produced[v] + n,
                    Later(overlooked[v], produced[v] + 1 .. produced[v] + n, open), produced[v] + n, torn[v], Second, listed, open)
        BY <4>1, LocatedWrite
      <4>3. overlooked'[v] = Later(overlooked[v], produced[v] + 1 .. produced[v] + n, open)
        BY <1>3, <2>2, <3>1 DEF Later
      <4> QED BY <1>3, <2>2, <3>1, <4>2, <4>3
    <3>2. CASE v \in shards /\ v \in copied
      <4>1. (v \in shards) = TRUE /\ (v \in copied) = TRUE
        BY <3>2
      <4> QED BY <3>1, <4>1
    <3>3. CASE v \in shards /\ v \notin copied
      <4>1. (v \in shards) = TRUE /\ (v \in copied) = FALSE
        BY <3>3
      <4> QED BY <3>1, <4>1
    <3>4. CASE v \notin shards
      <4>1. (v \in shards) = FALSE /\ (v \in copied) = FALSE
        BY <1>2, <3>4
      <4> QED BY <3>1, <4>1
    <3> QED BY <3>2, <3>3, <3>4
  <2>3. CASE v # w
    BY <1>3, <2>1, <2>3
  <2> QED BY <2>2, <2>3
<1> QED BY <1>1, <1>2, <1>3, <1>4 DEF Lines

(* A name that the shard of w gets is a new one.                             *)
LEMMA DepositKeeps ==
  ASSUME Lines, NEW w \in Workers, w \in shards, copied = {}, Deposit(w)
  PROVE  /\ DOMAIN retired' = Workers
         /\ \A v \in Workers : v # w => retired'[v] = retired[v]
         /\ Located(retired'[w], {}, overlooked[w], produced[w], torn[w], Second, FALSE, FALSE)
         /\ Located(retired'[w], lines[w], overlooked[w], produced[w], torn[w], Second, TRUE, TRUE)
<1>1. Located(retired[w], lines[w], overlooked[w], produced[w], torn[w], Second, TRUE, FALSE)
  <2>1. Located(retired[w], lines[w], overlooked[w], produced[w], torn[w], Second,
                w \in shards, w \in copied)
    BY DEF Lines
  <2>2. (w \in shards) = TRUE /\ (w \in copied) = FALSE
    OBVIOUS
  <2> QED BY <2>1, <2>2
<1>2. /\ DOMAIN retired' = Workers /\ retired'[w] = Filed(retired[w], Dest(w), lines[w])
      /\ \A v \in Workers : v # w => retired'[v] = retired[v]
  BY DEF Lines, Deposit
<1>3. (Dest(w) = Plain /\ Plain \notin DOMAIN retired[w]) \/ Dest(w) = Second
  BY DEF Dest
<1>4. /\ Located(Filed(retired[w], Dest(w), lines[w]), {}, overlooked[w], produced[w], torn[w],
                 Second, FALSE, FALSE)
      /\ Located(Filed(retired[w], Dest(w), lines[w]), lines[w], overlooked[w], produced[w],
                 torn[w], Second, TRUE, TRUE)
  BY <1>1, <1>3, LocatedDeposit
<1> QED BY <1>2, <1>4

LEMMA MovesKeep ==
  ASSUME Lines, NEW w \in Workers, RenameShard(w) \/ CopyShard(w) \/ UnlinkShard(w)
  PROVE  Lines'
<1>1. /\ DOMAIN lines = Workers /\ DOMAIN produced = Workers /\ DOMAIN retired = Workers
      /\ DOMAIN overlooked = Workers /\ DOMAIN torn = Workers
      /\ shards \subseteq Workers /\ copied \subseteq shards
      /\ \A v \in Workers :
           Located(retired[v], lines[v], overlooked[v], produced[v], torn[v], Second,
                   v \in shards, v \in copied)
  BY DEF Lines
<1>2. Second' = Second /\ produced' = produced /\ overlooked' = overlooked /\ torn' = torn
      /\ pc = "retire" /\ pc' = "retire"
  BY DEF RenameShard, CopyShard, UnlinkShard, Second
<1>3. CASE RenameShard(w)
  <2>1. /\ w \in shards /\ copied = {} /\ Deposit(w)
        /\ lines' = [lines EXCEPT ![w] = {}] /\ shards' = shards \ {w} /\ copied' = {}
    BY <1>3 DEF RenameShard
  <2>2. /\ DOMAIN retired' = Workers
        /\ \A v \in Workers : v # w => retired'[v] = retired[v]
        /\ Located(retired'[w], {}, overlooked[w], produced[w], torn[w], Second, FALSE, FALSE)
    BY <2>1, DepositKeeps
  <2>3. ASSUME NEW v \in Workers
        PROVE  Located(retired'[v], lines'[v], overlooked[v], produced[v], torn[v], Second,
                       v \in shards', v \in copied')
    <3>1. CASE v = w
      <4>1. lines'[v] = {} /\ (v \in shards') = FALSE /\ (v \in copied') = FALSE
        BY <1>1, <2>1, <3>1
      <4> QED BY <2>2, <3>1, <4>1
    <3>2. CASE v # w
      <4>1. /\ lines'[v] = lines[v] /\ (v \in shards') = (v \in shards)
            /\ (v \in copied') = (v \in copied) /\ retired'[v] = retired[v]
        BY <1>1, <2>1, <2>2, <3>2
      <4> QED BY <1>1, <4>1
    <3> QED BY <3>1, <3>2
  <2> QED BY <1>1, <1>2, <2>1, <2>2, <2>3 DEF Lines
<1>4. CASE CopyShard(w)
  <2>1. /\ w \in shards /\ copied = {} /\ Deposit(w)
        /\ lines' = lines /\ shards' = shards /\ copied' = {w}
    BY <1>4 DEF CopyShard
  <2>2. /\ DOMAIN retired' = Workers
        /\ \A v \in Workers : v # w => retired'[v] = retired[v]
        /\ Located(retired'[w], lines[w], overlooked[w], produced[w], torn[w], Second, TRUE, TRUE)
    BY <2>1, DepositKeeps
  <2>3. ASSUME NEW v \in Workers
        PROVE  Located(retired'[v], lines'[v], overlooked[v], produced[v], torn[v], Second,
                       v \in shards', v \in copied')
    <3>1. CASE v = w
      <4>1. lines'[v] = lines[w] /\ (v \in shards') = TRUE /\ (v \in copied') = TRUE
        BY <2>1, <3>1
      <4> QED BY <2>2, <3>1, <4>1
    <3>2. CASE v # w
      <4>1. /\ lines'[v] = lines[v] /\ (v \in shards') = (v \in shards)
            /\ (v \in copied') = (v \in copied) /\ retired'[v] = retired[v]
        BY <2>1, <2>2, <3>2
      <4> QED BY <1>1, <4>1
    <3> QED BY <3>1, <3>2
  <2> QED BY <1>1, <1>2, <2>1, <2>2, <2>3 DEF Lines
<1>5. CASE UnlinkShard(w)
  <2>1. /\ w \in copied /\ retired' = retired
        /\ lines' = [lines EXCEPT ![w] = {}] /\ shards' = shards \ {w} /\ copied' = copied \ {w}
    BY <1>5 DEF UnlinkShard
  <2>2. ASSUME NEW v \in Workers
        PROVE  Located(retired'[v], lines'[v], overlooked[v], produced[v], torn[v], Second,
                       v \in shards', v \in copied')
    <3>0. Located(retired[v], lines[v], overlooked[v], produced[v], torn[v], Second,
                  v \in shards, v \in copied)
      BY <1>1
    <3>1. CASE v = w
      <4>1. /\ lines'[v] = {} /\ (v \in shards') = FALSE /\ (v \in copied') = FALSE
            /\ (v \in shards) = TRUE /\ (v \in copied) = TRUE
        BY <1>1, <2>1, <3>1
      <4>2. Located(retired[v], lines[v], overlooked[v], produced[v], torn[v], Second, TRUE, TRUE)
        BY <3>0, <4>1
      <4>3. Located(retired[v], {}, overlooked[v], produced[v], torn[v], Second, FALSE, FALSE)
        BY <4>2, LocatedClose
      <4> QED BY <2>1, <4>1, <4>3
    <3>2. CASE v # w
      <4>1. /\ lines'[v] = lines[v] /\ (v \in shards') = (v \in shards)
            /\ (v \in copied') = (v \in copied)
        BY <2>1, <3>2
      <4> QED BY <2>1, <3>0, <4>1
    <3> QED BY <3>1, <3>2
  <2> QED BY <1>1, <1>2, <2>1, <2>2 DEF Lines
<1> QED BY <1>3, <1>4, <1>5

LEMMA DieKeeps ==
  ASSUME Lines, Die, ckpts' = ckpts
  PROVE  Lines'
<1>1. /\ DOMAIN lines = Workers /\ DOMAIN produced = Workers /\ DOMAIN retired = Workers
      /\ DOMAIN overlooked = Workers /\ DOMAIN torn = Workers
      /\ shards \subseteq Workers /\ copied \subseteq shards
  BY DEF Lines
<1>2. /\ pc' = "down" /\ shards' = {} /\ copied' = {} /\ Second' = Second
      /\ torn' = [w \in Workers |-> torn[w] + IF w \in copied THEN 1 ELSE 0]
      /\ UNCHANGED <<lines, retired, produced, overlooked>>
  BY DEF Die, Second
<1>3. ASSUME NEW w \in Workers
      PROVE  Located(retired[w], lines[w], overlooked[w], produced[w], torn'[w], Second, FALSE, FALSE)
  <2>1. Located(retired[w], lines[w], overlooked[w], produced[w], torn[w], Second,
                w \in shards, w \in copied)
    BY DEF Lines
  <2>2. CASE w \in copied
    <3>1. (w \in shards) = TRUE /\ (w \in copied) = TRUE /\ torn'[w] = torn[w] + 1
      BY <1>1, <1>2, <2>2
    <3>2. Located(retired[w], lines[w], overlooked[w], produced[w], torn[w], Second, TRUE, TRUE)
      BY <2>1, <3>1
    <3> QED BY <3>1, <3>2, LocatedClose
  <2>3. CASE w \notin copied
    <3>1. (w \in copied) = FALSE /\ torn'[w] = torn[w]
      <4>1. torn[w] \in Nat
        BY <2>1 DEF Located
      <4> QED BY <1>2, <2>3, <4>1
    <3>2. Located(retired[w], lines[w], overlooked[w], produced[w], torn[w], Second,
                  w \in shards, FALSE)
      BY <2>1, <3>1
    <3>3. (w \in shards) \in BOOLEAN
      OBVIOUS
    <3>4. Located(retired[w], lines[w], overlooked[w], produced[w], torn[w], Second, FALSE, FALSE)
      BY <3>2, <3>3, LocatedLater, Zenon
    <3> QED BY <3>1, <3>4
  <2> QED BY <2>2, <2>3
<1>4. ASSUME NEW w \in Workers
      PROVE  Located(retired'[w], lines'[w], overlooked'[w], produced'[w], torn'[w], Second',
                     w \in shards', w \in copied')
  <2>1. (w \in shards') = FALSE /\ (w \in copied') = FALSE
    BY <1>2
  <2> QED BY <1>2, <1>3, <2>1
<1> QED BY <1>1, <1>2, <1>4 DEF Lines

(* A training leaves a new second, and the list of all shards.               *)
LEMMA TrainerKeeps ==
  ASSUME Lines, Checkpoints, TrainerDone
  PROVE  Lines'
<1>1. /\ DOMAIN lines = Workers /\ DOMAIN produced = Workers /\ DOMAIN retired = Workers
      /\ DOMAIN overlooked = Workers /\ DOMAIN torn = Workers
      /\ shards = {} /\ copied = {}
  BY DEF Lines, TrainerDone, Goto
<1>2. /\ pc' = "retire" /\ shards' \subseteq Workers /\ copied' = {}
      /\ UNCHANGED <<lines, retired, produced, overlooked, torn>>
  BY <1>1 DEF TrainerDone, Goto, corpus
<1>3. Second' = Second + 1
  <2>0. PICK n \in Nat : n = Newest /\ ckpts = 0 .. n
    BY OrchestratorAssumption DEF Checkpoints, AgentIds, Seed
  <2>1. Newest \in Nat /\ ckpts = 0 .. Newest /\ Second = Newest + 1
    BY <2>0, FS_Interval DEF Second
  <2>2. ckpts' = ckpts \cup {Second}
    BY DEF TrainerDone, Second
  <2> HIDE DEF Newest
  <2>3. Second \in Nat /\ ckpts' = 0 .. Second
    BY <2>1, <2>2
  <2>4. Cardinality(0 .. Second) = Second + 1
    <3> HIDE DEF Second
    <3> QED BY <2>3, FS_Interval
  <2>5. Second' = Cardinality(ckpts')
    BY DEF Second
  <2> QED BY <2>3, <2>4, <2>5, Zenon
<1>4. ASSUME NEW w \in Workers
      PROVE  Located(retired'[w], lines'[w], overlooked'[w], produced'[w], torn'[w], Second',
                     w \in shards', w \in copied')
  <2>1. Located(retired[w], lines[w], overlooked[w], produced[w], torn[w], Second,
                w \in shards, w \in copied)
    BY DEF Lines
  <2>2. (w \in shards) = FALSE /\ (w \in copied) = FALSE /\ (w \in copied') = FALSE
    BY <1>1, <1>2
  <2>3. Located(retired[w], lines[w], overlooked[w], produced[w], torn[w], Second, FALSE, FALSE)
    BY <2>1, <2>2
  <2>4. /\ Located(retired[w], lines[w], overlooked[w], produced[w], torn[w], Second + 1, TRUE, FALSE)
        /\ Located(retired[w], lines[w], overlooked[w], produced[w], torn[w], Second + 1, FALSE, FALSE)
    BY <2>3, LocatedLater
  <2>5. CASE w \in shards'
    <3>1. (w \in shards') = TRUE
      BY <2>5
    <3> QED BY <1>2, <1>3, <2>2, <2>4, <3>1
  <2>6. CASE w \notin shards'
    <3>1. (w \in shards') = FALSE
      BY <2>6
    <3> QED BY <1>2, <1>3, <2>2, <2>4, <3>1
  <2> QED BY <2>5, <2>6
<1> QED BY <1>1, <1>2, <1>4 DEF Lines

LEMMA LinesStay ==
  ASSUME Lines, UNCHANGED <<corpus, moves, ckpts>>, pc' = pc \/ pc # "retire" \/ shards = {}
  PROVE  Lines'
<1>1. /\ lines' = lines /\ retired' = retired /\ produced' = produced
      /\ overlooked' = overlooked /\ torn' = torn /\ shards' = shards /\ copied' = copied
      /\ Second' = Second
  BY DEF corpus, moves, Second
<1>2. pc' # "retire" => shards' = {}
  BY <1>1 DEF Lines
<1> QED BY <1>1, <1>2 DEF Lines

LEMMA LinesNext ==
  ASSUME OInv, Lines, [Next]_vars
  PROVE  Lines'
<1>1. ASSUME NEW w \in Workers, NEW n \in 0 .. MaxEpisode, Episode(w, n) \/ Stray(w, n)
      PROVE  Lines'
  <2>1. n \in Nat /\ WriteLines(w, n) /\ UNCHANGED <<retired, torn, pc, moves, ckpts>>
    BY <1>1, OrchestratorAssumption DEF Episode, Stray, process
  <2> QED BY <2>1, WriteLinesKeeps
<1>2. ASSUME NEW w \in Workers, RenameShard(w) \/ CopyShard(w) \/ UnlinkShard(w)
      PROVE  Lines'
  BY <1>2, MovesKeep
<1>3. CASE Raise \/ Kill
  BY <1>3, DieKeeps DEF Raise, Kill, Die, Die
<1>4. CASE TrainerDone
  BY <1>4, TrainerKeeps DEF OInv
<1> USE DEF Goto, Save, disk, process, vars
<1>5. CASE Start \/ GatherStart \/ GatherEnd \/ GatherSave \/ TrainStart
  BY <1>5, LinesStay DEF Start, GatherStart, GatherEnd, GatherSave, TrainStart
<1>6. CASE Register \/ TrainSave \/ EvaluateCandidate \/ SkipEnv \/ EvaluateIncumbent
  BY <1>6, LinesStay DEF Register, TrainSave, EvaluateCandidate, SkipEnv, EvaluateIncumbent
<1>7. CASE EvaluateEnd \/ Promote \/ EvaluateSave \/ UNCHANGED vars
  BY <1>7, LinesStay DEF EvaluateEnd, Promote, EvaluateSave
<1>8. ASSUME NEW w \in Workers, Collect(w) PROVE Lines'
  BY <1>8, LinesStay DEF Collect
<1>9. ASSUME NEW d \in Depths \cup {Unsolved}, SolveEnv(d) PROVE Lines'
  BY <1>9, LinesStay DEF SolveEnv
<1> QED BY <1>1, <1>2, <1>3, <1>4, <1>5, <1>6, <1>7, <1>8, <1>9 DEF Next, Step

(* Every line a gatherer wrote is in its active shard or in a retired file,  *)
(* unless it was written while its shard was being copied and unlinked; and  *)
(* in more than one of them only as often as such a move was cut short.      *)
(* Retirements that rename neither lose nor double a line, for any number of *)
(* workers, kills and failures (retire_shards, run_gatherer).                *)
THEOREM NoLineLostCorrect == Spec => []NoLineLost
<1>1. Init => Lines
  BY LinesStart
<1>2. OInv /\ Lines /\ [Next]_vars => Lines'
  BY LinesNext
<1>3. Lines => NoLineLost
  BY LinesSay
<1> QED BY <1>1, <1>2, <1>3, OInvHolds, PTL DEF Spec

--------------------------------------------------------------------------------
(* Every verdict is over the agent promoted last before it, and every agent  *)
(* is promoted once, whatever crashes lie between promote_candidate and the  *)
(* state file that records it.                                               *)
THEOREM PromotionChainCorrect == Spec => []PromotionChain
<1>1. OInv => PromotionChain
  BY DEF OInv, Ledger
<1> QED BY <1>1, OInvHolds, PTL

(* The same two agents are judged the same way again when promote_candidate  *)
(* is repeated after a crash, and nobody is promoted over itself, nor, with  *)
(* a threshold of at least a half, over an agent it does not beat more often *)
(* than it loses to it.                                                      *)
THEOREM VerdictsAgreeCorrect == Spec => []VerdictsAgree
<1>1. ASSUME OInv PROVE VerdictsAgree
  <2>1. \A i \in 1 .. Len(evaluations) : evaluations[i] \in VerdictType
    BY <1>1, ElementOfSeq DEF OInv, Typed
  <2>2. \A i \in 1 .. Len(evaluations) :
          /\ evaluations[i].candidate \in AgentIds /\ evaluations[i].incumbent \in AgentIds
          /\ evaluations[i] = Verdict(evaluations[i].candidate, evaluations[i].incumbent)
    <3>1. \A i \in 1 .. Len(evaluations) :
            evaluations[i].candidate \in AgentIds /\ evaluations[i].incumbent \in AgentIds
      BY <2>1 DEF VerdictType
    <3> QED BY <1>1, <3>1 DEF OInv, Ledger, Reproducible
  <2>3. ASSUME NEW i \in 1 .. Len(evaluations), evaluations[i].promoted
        PROVE  /\ evaluations[i].candidate # evaluations[i].incumbent
               /\ PromotionPercent >= 50 => evaluations[i].wins > evaluations[i].losses
    <3>1. PICK c \in AgentIds, b \in AgentIds :
            evaluations[i].candidate = c /\ evaluations[i].incumbent = b /\ evaluations[i] = Verdict(c, b)
      BY <2>2
    <3>2. Verdict(c, b).promoted
      BY <2>3, <3>1
    <3> QED BY <1>1, <3>1, <3>2, NotOverItself, WinsMost DEF OInv
  <2>4. ASSUME NEW i \in 1 .. Len(evaluations), NEW j \in 1 .. Len(evaluations),
               evaluations[i].candidate = evaluations[j].candidate,
               evaluations[i].incumbent = evaluations[j].incumbent
        PROVE  evaluations[i] = evaluations[j]
    BY <2>2, <2>4
  <2> QED BY <2>3, <2>4 DEF VerdictsAgree
<1> QED BY <1>1, OInvHolds, PTL

(* A verdict counts every environment of the holdout that can be loaded, and *)
(* both agents have tried each of them, also after evaluations that were     *)
(* interrupted and resumed (evaluate_agent_with_client).                     *)
THEOREM VerdictCompleteCorrect == Spec => []VerdictComplete
<1>1. ASSUME OInv PROVE VerdictComplete
  <2>1. \A i \in 1 .. Len(evaluations) : evaluations[i] \in VerdictType
    BY <1>1, ElementOfSeq DEF OInv, Typed
  <2>2. ASSUME NEW i \in 1 .. Len(evaluations)
        PROVE  /\ evaluations[i].wins + evaluations[i].losses + evaluations[i].draws
                    = Cardinality(Envs \ BadEnvs)
               /\ \A e \in Envs \ BadEnvs : /\ Attempted(evaluations[i].candidate, e)
                                           /\ Attempted(evaluations[i].incumbent, e)
    <3>1. PICK c \in AgentIds, b \in AgentIds :
            evaluations[i].candidate = c /\ evaluations[i].incumbent = b
      BY <2>1 DEF VerdictType
    <3>2. evaluations[i] = Verdict(c, b) /\ Complete(c) /\ Complete(b)
      BY <1>1, <3>1 DEF OInv, Ledger, Reproducible
    <3>3. \A e \in BadEnvs : ~Attempted(c, e)
      BY <1>1 DEF OInv, Ledger, Reproducible
    <3>4. Joined(c, b) = Envs \ BadEnvs
      BY <3>2, <3>3 DEF Joined, Complete
    <3>5. Verdict(c, b).wins + Verdict(c, b).losses + Verdict(c, b).draws = Cardinality(Envs \ BadEnvs)
      BY <3>4, VerdictTotal
    <3>6. \A e \in Envs \ BadEnvs : Attempted(c, e) /\ Attempted(b, e)
      BY <3>2 DEF Complete
    <3> QED BY <3>1, <3>2, <3>5, <3>6
  <2> QED BY <2>2 DEF VerdictComplete
<1> QED BY <1>1, OInvHolds, PTL

(* The state file goes through the phases in order, one iteration after the  *)
(* other, whatever load_state finds after a crash.                           *)
THEOREM PhasesCorrect == Spec => PhasesInOrder
<1>1. OInv /\ [Next]_vars =>
    [file' # file =>
       \/ /\ file.phase \in {"gathering", "no file"} /\ file'.phase = "training"
          /\ file'.iteration = file.iteration
       \/ /\ file.phase = "training" /\ file'.phase = "evaluating"
          /\ file'.iteration = file.iteration
       \/ /\ file.phase = "evaluating" /\ file'.phase = "gathering"
          /\ file'.iteration = file.iteration + 1]_vars
  BY PhasesStep DEF OInv
<1> QED BY <1>1, OInvHolds, PTL DEF Spec, PhasesInOrder

(* get_candidate hands the evaluation an agent that has a checkpoint and a   *)
(* row, is not the seed and was never judged: a step to the evaluate phase   *)
(* is the save of run_train_phase, after the trainer left a new checkpoint.  *)
THEOREM CandidateCorrect == Spec => CandidateIsNew
<1>1. OInv /\ [Next]_vars =>
    [file.phase = "training" /\ file'.phase = "evaluating" =>
       /\ file'.candidate \in (ckpts' \cap agents') \ {Seed}
       /\ \A i \in 1 .. Len(evaluations) : evaluations[i].candidate # file'.candidate]_vars
  <2> SUFFICES ASSUME OInv, [Next]_vars, file.phase = "training", file'.phase = "evaluating"
               PROVE  /\ file'.candidate \in (ckpts' \cap agents') \ {Seed}
                      /\ \A i \in 1 .. Len(evaluations) :
                           evaluations[i].candidate # file'.candidate
    OBVIOUS
  <2>1. file' # file
    OBVIOUS
  <2>2. state \in StateType
    BY DEF OInv, Saved
  <2>3. Saves("trainSave", Trained)
    <3>1. ~Saves("gatherSave", [state EXCEPT !.phase = "training"])
      BY <2>2 DEF Saves, StateType
    <3> QED BY <2>1, <3>1, Movements DEF Restarts, Stops, Stays, Enters, Proceeds, Saves
  <2>4. pc = "trainSave" /\ file' = Trained
    BY <2>3 DEF Saves
  <2>5. GetCandidate = Newest /\ Newest \in AgentIds
    BY <2>4, CandidateIsNewest DEF OInv
  <2>6. file'.candidate = Newest
    BY <2>2, <2>4, <2>5 DEF Trained, StateType
  <2>7. Newest \in ckpts /\ Newest \in agents /\ Newest \notin Promoted /\ ~Judgement(Newest)
    BY <2>4 DEF OInv, Checkpoints
  <2>8. Seed \in Promoted
    BY OrchestratorAssumption DEF OInv, Ledger, Promotions, Promoted, AgentIds, Seed
  <2>9. ckpts \subseteq ckpts' /\ agents \subseteq agents'
    BY CheckpointsChange DEF TrainerDone, Register, Promote
  <2> QED BY <2>6, <2>7, <2>8, <2>9 DEF Judgement
<1> QED BY <1>1, OInvHolds, PTL DEF Spec, CandidateIsNew
================================================================================
