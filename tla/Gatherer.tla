------------------------------- MODULE Gatherer --------------------------------
(***************************************************************************)
(* Calls of Gatherer::gather (mcts-tilers/src/gatherer.rs) by one worker:   *)
(* the moves of an episode and what it records of them, the score of the    *)
(* episode, and the files the worker appends to: the resignation log, the   *)
(* trajectories, the shard of training records and the bank of gold ones.   *)
(* The worker may be killed anywhere; its next call finds the files as they *)
(* are.                                                                     *)
(*                                                                         *)
(* A search is whether it was a full one and whether the root's Q is at or  *)
(* below resign_value_threshold; what the move does to the environment is   *)
(* whether it ends the game.  Scores are told apart as far as the code does *)
(* (Levels), probabilities are free choices.  The tails that are probed are *)
(* the matter of ReverseCurriculum, here they are arbitrary.                *)
(***************************************************************************)
EXTENDS Integers, Sequences, SequencesExt, FiniteSets

CONSTANTS
  Objectives,        \* numbers of objectives of the environments
  PlanLens,          \* lengths of the heuristic's plans
  MultiplierPercent, \* max_action_multiplier, in percent
  Consecutive,       \* resign_consecutive_moves
  CuspReward, Frontier, Margin, \* cusp_reward, cusp_frontier, cusp_margin
  MinLen, MaxProbes, \* reverse_curriculum_min_len, reverse_curriculum_max_probes
  DemoMin,           \* demo_min_objectives
  GoldMinLen, GoldMinReward, \* gold_min_len, and the level of gold_min_reward
  MaxCalls,          \* bound: calls of gather
  MaxDeaths          \* bound: how often the worker is killed

Files == {"log", "traj", "shard", "gold"}

(* Levels of a score: at most HER_SATURATION_FLOOR, negative, zero, positive. *)
Saturated == -2
Worse == -1
Even == 0
Better == 1
Levels == Saturated .. Better

ASSUME GathererAssumption ==
  /\ Objectives \subseteq Nat \ {0} /\ PlanLens \subseteq Nat \ {0}
  /\ {MultiplierPercent, Consecutive, Frontier, MinLen, DemoMin, GoldMinLen} \subseteq Nat
  /\ {Margin, MaxProbes} \subseteq Nat \ {0}
  /\ CuspReward \in BOOLEAN /\ GoldMinReward \in Levels
  /\ MaxCalls \in Nat /\ MaxDeaths \in Nat

VARIABLES
  pc,      \* "idle", in the episode, or the file that write_episode is at
  calls,   \* calls made
  deaths,  \* times the worker was killed
  game,    \* objectives and plan of the call's environment
  reverse, \* gather_reverse_curriculum runs
  ep,      \* locals of run_episode_from, with the searches of the episode
  best, failed, \* episodes kept by the climb: sequences of at most one
  probes,  \* episodes of the call
  queue,   \* episodes given to write_episode
  turn,    \* the one in hand
  demo,    \* locals of write_demo_episode
  files    \* the worker's files: the lines since the call began, unreadable ones
           \* before it, and whether the last line is cut

call == <<calls, game, reverse, best, failed, probes>>
vars == <<pc, call, deaths, ep, queue, turn, demo, files>>

NoGame == [objectives |-> 0, plan |-> 0]
NoDemo == [next |-> 1, stepped |-> 0, buffer |-> <<>>]
NoEpisode == [id |-> <<0, 0>>, count |-> 0, allowed |-> FALSE, fulls |-> <<>>, lows |-> <<>>,
              streak |-> 0, step |-> 0, data |-> <<>>, resigned |-> FALSE, done |-> FALSE]

Init ==
  /\ pc = "idle" /\ calls = 0 /\ deaths = 0
  /\ game = NoGame /\ reverse = FALSE /\ best = <<>> /\ failed = <<>> /\ probes = 0
  /\ ep = NoEpisode /\ queue = <<>> /\ turn = 1 /\ demo = NoDemo
  /\ files = [f \in Files |-> [lines |-> <<>>, lost |-> 0, cut |-> FALSE]]

--------------------------------------------------------------------------------
Unreadable(lines) == Cardinality({i \in DOMAIN lines : ~lines[i].whole})

(* gather: the whole environment, or tails of a plan that is long enough.    *)
Gather(g) ==
  /\ pc = "idle" /\ calls < MaxCalls
  /\ pc' = "begin" /\ calls' = calls + 1 /\ game' = g
  /\ reverse' \in BOOLEAN /\ (reverse' => g.plan >= MinLen)
  /\ files' = [f \in Files |->
                [files[f] EXCEPT !.lines = <<>>, !.lost = @ + Unreadable(files[f].lines)]]
  /\ UNCHANGED <<deaths, ep, best, failed, probes, queue, turn, demo>>

(* Return, or a kill: nothing of the call survives but its lines.            *)
Forget ==
  /\ pc' = "idle"
  /\ game' = NoGame /\ reverse' = FALSE /\ best' = <<>> /\ failed' = <<>> /\ probes' = 0
  /\ ep' = NoEpisode /\ queue' = <<>> /\ turn' = 1 /\ demo' = NoDemo

Return == pc = "returned" /\ Forget /\ UNCHANGED <<calls, deaths, files>>

--------------------------------------------------------------------------------
(* run_episode_from *)

(* max_actions: the plan's actions (the tail's, of a probe) times the         *)
(* multiplier, rounded up, and two.  The field that overrides it is None in  *)
(* every Gatherer that run_gatherer makes.                                   *)
Budget(count) == (count * MultiplierPercent + 99) \div 100 + 2

ResignationEnabled == Consecutive > 0

Begin(count) ==
  /\ pc = "begin"
  /\ reverse \/ count = game.plan
  /\ pc' = "search" /\ probes' = probes + 1
  /\ \E allowed \in BOOLEAN :
       /\ allowed => ResignationEnabled
       /\ ep' = [NoEpisode EXCEPT !.id = <<calls, probes + 1>>, !.count = count, !.allowed = allowed]
  /\ UNCHANGED <<deaths, calls, game, reverse, best, failed, queue, turn, demo, files>>

(* A slip: a move above the threshold does not end the streak. *)
MutStreak(low) == IF low THEN ep.streak + 1 ELSE ep.streak

(* low_value_streak *)
Streak(low) == IF low THEN ep.streak + 1 ELSE 0

(* The search of a move and the resignation check.                           *)
Search(full, low) ==
  /\ pc = "search"
  /\ LET resigns == ep.allowed /\ Streak(low) >= Consecutive
     IN /\ ep' = [ep EXCEPT !.fulls = Append(@, full), !.lows = Append(@, low),
                            !.streak = Streak(low), !.resigned = resigns]
        /\ pc' = IF resigns THEN "score" ELSE "move"
  /\ UNCHANGED <<call, deaths, queue, turn, demo, files>>

(* The record of a full search, and the move, which may end the game.        *)
Move(ends) ==
  /\ pc = "move"
  /\ ep' = [ep EXCEPT !.data = IF Last(ep.fulls) THEN Append(@, ep.step) ELSE @,
                      !.step = @ + 1, !.done = ends]
  /\ pc' = IF ends \/ ep.step + 1 = Budget(ep.count) THEN "score" ELSE "search"
  /\ UNCHANGED <<call, deaths, queue, turn, demo, files>>

(* cusp_partial_reward and cusp_factor_reward, of n objectives: the part of   *)
(* the cusp goal that was reached.  Every objective has two factors.         *)
CuspGoal(n) == IF n <= Frontier + Margin THEN n ELSE Frontier + Margin
CuspPartial(achieved, n) == IF achieved >= CuspGoal(n) THEN Even ELSE Worse
CuspFactor(merged, n) == IF merged * n >= 2 * n * CuspGoal(n) THEN Even ELSE Worse

Grade(kind, level) == [kind |-> kind, level |-> level]
NoProgress == Grade("floor", Saturated)

(* (score, reward_kind): finished; a tail, of which some objectives are left; *)
(* beyond the frontier; or relabelled in hindsight, when the solver can.     *)
Grades ==
  LET n == game.objectives
  IN IF ep.done THEN {Grade("done", l) : l \in Levels}
     ELSE {NoProgress} \cup
       IF reverse
       THEN {Grade("her", CuspPartial(a, n)) : a \in 1 .. n - 1}
       ELSE IF CuspReward /\ n > Frontier
       THEN {Grade("cusp", CuspFactor(m, n)) : m \in 1 .. 2 * n - 1}
       ELSE {Grade("her", l) : l \in Levels}

(* EpisodeOutcome *)
Outcome(g) ==
  [id |-> ep.id, count |-> ep.count, fulls |-> ep.fulls, moves |-> ep.step, data |-> ep.data,
   done |-> ep.done, kind |-> g.kind, level |-> g.level, reverse |-> reverse]

Score(g) ==
  /\ pc = "score" /\ ~reverse
  /\ g \in Grades
  /\ queue' = <<Outcome(g)>> /\ pc' = "log" /\ ep' = NoEpisode
  /\ UNCHANGED <<call, deaths, turn, demo, files>>

(* A probe of gather_reverse_curriculum: the last solved and the last failed *)
(* are kept, and written when the climb ends.                                *)
Probe(g) ==
  /\ pc = "score" /\ reverse
  /\ g \in Grades
  /\ best' = IF ep.done THEN <<Outcome(g)>> ELSE best
  /\ failed' = IF ep.done THEN failed ELSE <<Outcome(g)>>
  /\ \/ pc' = "begin" /\ probes < MaxProbes /\ UNCHANGED queue
     \/ pc' = "log" /\ queue' = best' \o failed'
  /\ ep' = NoEpisode
  /\ UNCHANGED <<calls, deaths, game, reverse, probes, turn, demo, files>>

--------------------------------------------------------------------------------
(* write_episode: the text of each file for the episode o.                   *)

Line(o, step) ==
  [id |-> o.id, step |-> step, kind |-> o.kind, level |-> o.level, reverse |-> o.reverse,
   whole |-> TRUE]

LogText(o) == <<Line(o, 0)>>

TrajectoryText(o) ==
  IF o.level > Even THEN [i \in 1 .. o.moves |-> Line(o, i - 1)] ELSE <<>>

Records(o) == [i \in DOMAIN o.data |-> Line(o, o.data[i])]

IsGold(o) == o.done /\ ~o.reverse /\ o.level >= GoldMinReward /\ o.count >= GoldMinLen

GoldText(o) == IF IsGold(o) THEN Records(o) ELSE <<>>

(* A slip: every saturated episode is taken for an inefficient partial one. *)
MutSaturatedPartial(o) == o.level = Saturated

(* The filter on HER episodes. *)
SaturatedPartial(o) == o.kind = "her" /\ o.level = Saturated

RecordText(o) == IF SaturatedPartial(o) THEN <<>> ELSE Records(o)

Text(f, o) ==
  CASE f = "log" -> LogText(o)
    [] f = "traj" -> TrajectoryText(o)
    [] f = "shard" -> RecordText(o)
    [] f = "gold" -> GoldText(o)

(* The first line of a text goes on where a line was cut. *)
Continued(cut, text) ==
  IF cut THEN <<[Head(text) EXCEPT !.whole = FALSE]>> \o Tail(text) ELSE text

(* A slip: records without the newline behind them. *)
MutAppended(file, text) ==
  IF text = <<>> THEN file
  ELSE [file EXCEPT !.lines = @ \o Continued(file.cut, text), !.cut = TRUE]

(* A file opened for appending, with text written and flushed.               *)
Appended(file, text) ==
  IF text = <<>> THEN file
  ELSE [file EXCEPT !.lines = @ \o Continued(file.cut, text), !.cut = FALSE]

(* What a killed BufWriter leaves of the text: a prefix of its bytes.        *)
Torn(file, text) ==
  LET prefixes == {Appended(file, SubSeq(text, 1, n)) : n \in 0 .. Len(text)}
  IN prefixes \cup {[p EXCEPT !.cut = TRUE] : p \in prefixes \ {Appended(file, text)}}

(* gather after write_episode: the next episode of the climb, a demonstration *)
(* of an environment that was not solved, or the end.                        *)
DemoDue == ~reverse /\ ~queue[1].done /\ game.objectives > DemoMin

EndEpisode ==
  /\ turn' = turn + 1
  /\ \/ turn < Len(queue) /\ pc' = "log"
     \/ turn = Len(queue) /\ pc' = "returned"
     \/ DemoDue /\ pc' = "demo"

(* A slip: gold is banked before the records are in the shard. *)
MutFollowing(f) ==
  CASE f = "log" -> "traj" [] f = "traj" -> "gold" [] f = "gold" -> "shard" [] f = "shard" -> "end"

(* The order of the files. *)
Following(f) ==
  CASE f = "log" -> "traj" [] f = "traj" -> "shard" [] f = "shard" -> "gold" [] f = "gold" -> "end"

Write(f) ==
  /\ pc = f
  /\ f = "shard" => ~SaturatedPartial(queue[turn])
  /\ files' = [files EXCEPT ![f] = Appended(@, Text(f, queue[turn]))]
  /\ IF Following(f) = "end" THEN EndEpisode ELSE pc' = Following(f) /\ UNCHANGED turn
  /\ UNCHANGED <<call, deaths, ep, queue, demo>>

(* The two filters before the shard; floor_keep_fraction is a free choice.   *)
Drop ==
  /\ pc = "shard"
  /\ SaturatedPartial(queue[turn]) \/ queue[turn].kind = "floor"
  /\ EndEpisode
  /\ UNCHANGED <<call, deaths, ep, queue, demo, files>>

--------------------------------------------------------------------------------
(* write_demo_episode: one action of the plan after the other.               *)

(* The record of the next action, with the state its board shows. *)
DemoLine ==
  [id |-> queue[1].id, step |-> demo.next, kind |-> "demo", level |-> Even,
   reverse |-> FALSE, whole |-> TRUE, board |-> demo.stepped + 1]

(* A slip: the action is skipped and not played. *)
MutDemoSkip ==
  /\ pc = "demo" /\ demo.next <= game.plan
  /\ demo' = [next |-> demo.next + 1, stepped |-> demo.stepped, buffer |-> demo.buffer]
  /\ UNCHANGED <<pc, call, deaths, ep, queue, turn, files>>

(* The action has no id: it is played, and nothing is recorded.              *)
DemoSkip ==
  /\ pc = "demo" /\ demo.next <= game.plan
  /\ demo' = [next |-> demo.next + 1, stepped |-> demo.stepped + 1, buffer |-> demo.buffer]
  /\ UNCHANGED <<pc, call, deaths, ep, queue, turn, files>>

(* The record is kept, when the action is valid and the subsample takes it,  *)
(* and the action is played.                                                 *)
DemoStep(kept) ==
  /\ pc = "demo" /\ demo.next <= game.plan
  /\ demo' = [next |-> demo.next + 1, stepped |-> demo.stepped + 1,
              buffer |-> IF kept THEN Append(demo.buffer, DemoLine) ELSE demo.buffer]
  /\ UNCHANGED <<pc, call, deaths, ep, queue, turn, files>>

DemoEnd ==
  /\ pc = "demo" /\ demo.next > game.plan
  /\ pc' = "returned"
  /\ files' = [files EXCEPT !["shard"] = Appended(@, demo.buffer)]
  /\ UNCHANGED <<call, deaths, ep, queue, turn, demo>>

--------------------------------------------------------------------------------
(* The worker is killed: a file that is being written keeps a prefix.        *)
Die ==
  /\ pc # "idle" /\ deaths < MaxDeaths
  /\ deaths' = deaths + 1
  /\ CASE pc \in Files -> \E file \in Torn(files[pc], Text(pc, queue[turn])) :
                            files' = [files EXCEPT ![pc] = file]
       [] pc = "demo" -> \E file \in Torn(files["shard"], demo.buffer) :
                           files' = [files EXCEPT !["shard"] = file]
       [] OTHER -> UNCHANGED files
  /\ Forget /\ UNCHANGED calls

(* run_gatherer: an environment the heuristic solves without an action is    *)
(* not gathered.                                                            *)
Games == [objectives : Objectives, plan : PlanLens]

Next ==
  \/ \E g \in Games : Gather(g)
  \/ \E count \in 1 .. game.plan : Begin(count)
  \/ \E full, low \in BOOLEAN : Search(full, low)
  \/ \E ends \in BOOLEAN : Move(ends)
  \/ \E g \in Grades : Score(g) \/ Probe(g)
  \/ \E f \in Files : Write(f)
  \/ \E kept \in BOOLEAN : DemoStep(kept)
  \/ Drop \/ DemoSkip \/ DemoEnd \/ Return \/ Die

Spec == Init /\ [][Next]_vars

--------------------------------------------------------------------------------
(* An episode is resigned exactly when resignation is allowed in it and the  *)
(* last resign_consecutive_moves searches, none of them earlier, were at or  *)
(* below the threshold; otherwise it is played until it is done or its       *)
(* budget is spent, as the calibration on the sanity sample supposes         *)
(* (run_episode_from).                                                       *)
LowRun(lows, m) == m >= Consecutive /\ \A i \in m - Consecutive + 1 .. m : lows[i]

ResignsOnStreak ==
  LET searches == Len(ep.lows)
  IN /\ \A m \in 1 .. searches :
          ep.allowed /\ LowRun(ep.lows, m) <=> ep.resigned /\ m = searches
     /\ pc = "score" =>
          IF ep.resigned THEN ~ep.done /\ ep.step = searches - 1
          ELSE ep.done \/ ep.step = Budget(ep.count)

(* Where the records of an episode stand in a file. *)
Own(lines, id) == {i \in DOMAIN lines : lines[i].id = id /\ lines[i].kind # "demo"}

(* They are the episode's records, one behind the other. *)
InOrder(o, lines) ==
  \E k \in 0 .. Len(lines) :
    /\ Own(lines, o.id) = k + 1 .. k + Len(o.data)
    /\ \A j \in DOMAIN o.data : lines[k + j].step = o.data[j]

FullSearches(fulls, moves) == {s \in 0 .. moves - 1 : fulls[s + 1]}

(* When gather returns, the shard holds of each of its episodes a record of  *)
(* every full search that a move followed, in order and together, or nothing *)
(* at all, and nothing only of an episode without progress or with a         *)
(* saturated one; and no record of a probe the climb did not keep            *)
(* (run_episode_from, write_episode, gather_reverse_curriculum).             *)
CorpusComplete ==
  pc = "returned" =>
    LET lines == files["shard"].lines
    IN /\ \A i \in DOMAIN queue :
            LET o == queue[i]
            IN \/ /\ Own(lines, o.id) = {}
                  /\ o.level = Saturated /\ o.kind \in {"her", "floor"}
               \/ InOrder(o, lines) /\ ToSet(o.data) = FullSearches(o.fulls, o.moves)
       /\ \A l \in ToSet(lines) :
            l.id[1] = calls => \E i \in DOMAIN queue : queue[i].id = l.id

(* Gold is banked "IN ADDITION to the normal output_path write": whatever    *)
(* kills the worker, the record of a gold line was written to the shard      *)
(* before it, and of an episode that was played from the start to the end.   *)
(* It can be read there too, unless it went on in a line that a kill had     *)
(* cut: there are no more such records than kills (write_episode).           *)
SameRecord(l, m) == l.id = m.id /\ l.step = m.step /\ l.kind = m.kind

(* The records, by episode and step, that only the bank holds whole.         *)
OnlyInGold ==
  {<<l.id, l.step>> : l \in {l \in ToSet(files["gold"].lines) :
     \A m \in ToSet(files["shard"].lines) : SameRecord(l, m) => ~m.whole}}

GoldAlsoInShard ==
  /\ \A l \in ToSet(files["gold"].lines) :
       /\ l.kind = "done" /\ ~l.reverse
       /\ \E m \in ToSet(files["shard"].lines) : SameRecord(l, m)
  /\ Cardinality(OnlyInGold) <= deaths

(* The lines of a file that cannot be read, or could not if it were left.    *)
Spoiled(file) ==
  file.lost + Unreadable(file.lines) + (IF file.cut THEN 1 ELSE 0)

(* A kill costs at most one line of one file: the cut rest and the record    *)
(* that the next call appends to it (write_episode, write_demo_episode).     *)
SpoiledByDeaths ==
  Spoiled(files["log"]) + Spoiled(files["traj"]) + Spoiled(files["shard"])
    + Spoiled(files["gold"]) <= deaths

(* A demonstration shows each action of the plan it keeps in the state the   *)
(* heuristic chose it in, whatever it skipped before; it follows the failed  *)
(* episode of the same environment and is never given for a solved one       *)
(* (write_demo_episode, gather).                                             *)
DemoOnThePlan ==
  \A l \in ToSet(files["shard"].lines) :
    l.kind = "demo" =>
      /\ l.board = l.step
      /\ \A m \in ToSet(files["shard"].lines) : m.id = l.id => m.kind # "done"

================================================================================
