---------------------------- MODULE GathererProofs -----------------------------
(***************************************************************************)
(* Resignation, for every number of consecutive moves, every budget and    *)
(* every course of the episodes.  The code keeps a counter; the property   *)
(* speaks of the searches the episode made.  Counter says how the two hang *)
(* together: the counter is the length of the run of low searches at the   *)
(* end.                                                                    *)
(*                                                                         *)
(* Then the files, whenever the worker is killed.  What is appended is the  *)
(* lines that were there and lines like those of the text (Extended), also *)
(* when only a part of it is written.  When gold is written the records of *)
(* the episode are in the shard already (Due).  A kill adds one to what is *)
(* spoiled (Cheap).  A call that does not climb has one episode, whose     *)
(* demonstration follows it (Planned, Sole).  The episodes of a call have  *)
(* different ids, and their records come into the shard in turn (Numbered, *)
(* Written).                                                               *)
(***************************************************************************)
EXTENDS Gatherer, SequenceTheorems, FiniteSetTheorems, TLAPS

EpisodeType ==
  [id : Nat \X Nat, count : Int, allowed : BOOLEAN, fulls : Seq(BOOLEAN), lows : Seq(BOOLEAN),
   streak : Nat, step : Nat, data : Seq(Nat), resigned : BOOLEAN, done : BOOLEAN]

Typed ==
  /\ ep \in EpisodeType /\ calls \in Nat /\ probes \in Nat
  /\ ep.allowed => Consecutive > 0

(* s is the length of the run of low searches at the end of lows.            *)
Counts(lows, s) ==
  /\ s <= Len(lows)
  /\ \A i \in Len(lows) - s + 1 .. Len(lows) : lows[i]
  /\ s < Len(lows) => ~lows[Len(lows) - s]

Counter == Counts(ep.lows, ep.streak)

(* No run was long enough before the last search. *)
NoneEarlier ==
  \A m \in 1 .. Len(ep.lows) : ep.allowed /\ LowRun(ep.lows, m) => ep.resigned /\ m = Len(ep.lows)

Resigned ==
  ep.resigned => /\ ep.allowed /\ Len(ep.lows) > 0 /\ LowRun(ep.lows, Len(ep.lows))
                 /\ pc = "score"

Position ==
  /\ pc = "search" => ep.step = Len(ep.lows) /\ ~ep.done
  /\ pc = "move" => ep.step = Len(ep.lows) - 1 /\ ~ep.done
  /\ pc = "score" => IF ep.resigned THEN ~ep.done /\ ep.step = Len(ep.lows) - 1
                     ELSE ep.done \/ ep.step = Budget(ep.count)

RInv == Typed /\ Counter /\ NoneEarlier /\ Resigned /\ Position

(* The invariant has the property as a part.                                 *)
LEMMA Enough == RInv => ResignsOnStreak
  BY DEF RInv, Typed, NoneEarlier, Resigned, Position, ResignsOnStreak

(* An episode that has not begun, or is over, says nothing of resignation.   *)
LEMMA BlankType == NoEpisode \in EpisodeType
  BY DEF NoEpisode, EpisodeType

LEMMA Started == GathererAssumption /\ Init => RInv
<1> SUFFICES ASSUME Init PROVE RInv
  OBVIOUS
<1>1. ep \in EpisodeType /\ ep.lows = <<>> /\ ep.streak = 0 /\ ~ep.allowed /\ ~ep.resigned
  BY BlankType DEF Init, NoEpisode
<1>2. Typed
  BY <1>1 DEF Init, Typed
<1>3. Counter /\ NoneEarlier /\ Resigned /\ Position
  BY <1>1 DEF Init, Counter, Counts, NoneEarlier, Resigned, Position
<1> QED BY <1>2, <1>3 DEF RInv

LEMMA Over ==
  ASSUME ep' = NoEpisode, pc' \notin {"search", "move", "score"},
         calls' \in Nat, probes' \in Nat
  PROVE  RInv'
<1>1. /\ ep' \in EpisodeType /\ ep'.lows = <<>> /\ ep'.streak = 0
      /\ ep'.allowed = FALSE /\ ep'.resigned = FALSE
  BY BlankType DEF NoEpisode
<1>2. Typed'
  BY <1>1 DEF Typed
<1>3. Counter' /\ NoneEarlier' /\ Resigned' /\ Position'
  BY <1>1 DEF Counter, Counts, NoneEarlier, Resigned, Position
<1> QED BY <1>2, <1>3 DEF RInv

--------------------------------------------------------------------------------
(* The counter against the run of low searches at the end.                   *)
LEMMA CounterCounts ==
  ASSUME NEW lows \in Seq(BOOLEAN), NEW s \in Nat, Counts(lows, s), Consecutive \in Nat \ {0}
  PROVE  LowRun(lows, Len(lows)) <=> s >= Consecutive
<1> DEFINE n == Len(lows)
<1>1. n \in Nat
  OBVIOUS
<1>2. CASE s >= Consecutive
  <2>1. n - Consecutive + 1 .. n \subseteq n - s + 1 .. n
    BY <1>1, <1>2
  <2> QED BY <1>1, <1>2, <2>1 DEF Counts, LowRun
<1>3. CASE s < Consecutive /\ n >= Consecutive
  <2>1. n - s \in n - Consecutive + 1 .. n /\ ~lows[n - s]
    BY <1>1, <1>3 DEF Counts
  <2> QED BY <1>1, <1>3, <2>1 DEF LowRun
<1>4. CASE n < Consecutive
  BY <1>1, <1>4 DEF Counts, LowRun
<1> QED BY <1>1, <1>2, <1>3, <1>4

(* One search more: the run goes on, or starts again.                        *)
LEMMA CountsOn ==
  ASSUME NEW lows \in Seq(BOOLEAN), NEW s \in Nat, Counts(lows, s), NEW low \in BOOLEAN
  PROVE  Counts(Append(lows, low), IF low THEN s + 1 ELSE 0)
<1> DEFINE n == Len(lows)
           more == Append(lows, low)
<1>1. /\ n \in Nat /\ Len(more) = n + 1 /\ more[n + 1] = low
      /\ \A i \in 1 .. n : more[i] = lows[i]
  OBVIOUS
<1> HIDE DEF more
<1>2. CASE low
  <2>1. \A i \in n + 1 - (s + 1) + 1 .. n + 1 : more[i]
    <3> TAKE i \in n + 1 - (s + 1) + 1 .. n + 1
    <3>1. CASE i = n + 1
      BY <1>1, <1>2, <3>1
    <3>2. CASE i # n + 1
      <4>1. i \in n - s + 1 .. n /\ i \in 1 .. n
        BY <1>1, <3>2 DEF Counts
      <4> QED BY <1>1, <4>1 DEF Counts
    <3> QED BY <3>1, <3>2
  <2>2. s + 1 < n + 1 => ~more[n + 1 - (s + 1)]
    <3> HAVE s + 1 < n + 1
    <3>1. n + 1 - (s + 1) = n - s /\ n - s \in 1 .. n
      BY <1>1
    <3> QED BY <1>1, <3>1 DEF Counts
  <2>3. s + 1 <= n + 1
    BY <1>1 DEF Counts
  <2> QED BY <1>1, <1>2, <2>1, <2>2, <2>3 DEF Counts
<1>3. CASE ~low
  BY <1>1, <1>3 DEF Counts
<1> QED BY <1>2, <1>3 DEF more

(* The runs at the earlier searches stay what they were.                     *)
LEMMA RunsKept ==
  ASSUME NEW lows \in Seq(BOOLEAN), NEW low \in BOOLEAN, Consecutive \in Nat,
         NEW m \in 1 .. Len(lows)
  PROVE  LowRun(Append(lows, low), m) <=> LowRun(lows, m)
<1> DEFINE more == Append(lows, low)
<1>1. Len(lows) \in Nat /\ \A i \in 1 .. Len(lows) : more[i] = lows[i]
  OBVIOUS
<1>2. m >= Consecutive => \A i \in m - Consecutive + 1 .. m : more[i] = lows[i]
  <2> HAVE m >= Consecutive
  <2>1. m - Consecutive + 1 .. m \subseteq 1 .. Len(lows)
    BY <1>1
  <2> QED BY <1>1, <2>1
<1> HIDE DEF more
<1>3. LowRun(more, m) <=> LowRun(lows, m)
  BY <1>2 DEF LowRun
<1> QED BY <1>3 DEF more

(* A search counts on, or starts again; it is the last when it resigns.      *)
LEMMA SearchKeeps ==
  ASSUME GathererAssumption, RInv, NEW full \in BOOLEAN, NEW low \in BOOLEAN, Search(full, low)
  PROVE  RInv'
<1> DEFINE n == Len(ep.lows)
           resigns == ep.allowed /\ Streak(low) >= Consecutive
<1>0. Consecutive \in Nat
  BY DEF GathererAssumption
<1>1. /\ ep' = [ep EXCEPT !.fulls = Append(@, full), !.lows = Append(@, low),
                          !.streak = Streak(low), !.resigned = resigns]
      /\ pc = "search" /\ pc' = IF resigns THEN "score" ELSE "move"
      /\ calls' = calls /\ probes' = probes
  BY DEF Search, call
<1>2. /\ ep \in EpisodeType /\ n \in Nat /\ ep.streak \in Nat /\ ep.lows \in Seq(BOOLEAN)
      /\ ep.fulls \in Seq(BOOLEAN) /\ ep.allowed \in BOOLEAN
      /\ calls \in Nat /\ probes \in Nat
  BY DEF RInv, Typed, EpisodeType
<1>3. Streak(low) \in Nat /\ resigns \in BOOLEAN
  BY <1>0, <1>2 DEF Streak
<1>4. /\ ep'.lows = Append(ep.lows, low) /\ ep'.streak = Streak(low)
      /\ ep'.resigned = resigns /\ ep'.allowed = ep.allowed
      /\ ep'.step = ep.step /\ ep'.done = ep.done /\ ep'.count = ep.count
  BY <1>1, <1>2 DEF EpisodeType
<1>5. Typed'
  <2>1. Append(ep.fulls, full) \in Seq(BOOLEAN) /\ Append(ep.lows, low) \in Seq(BOOLEAN)
    BY <1>2
  <2>2. ep' \in EpisodeType
    BY <1>1, <1>2, <1>3, <2>1 DEF EpisodeType
  <2> QED BY <1>1, <1>2, <1>4, <2>2 DEF Typed, RInv
<1>6. /\ Len(ep'.lows) = n + 1 /\ ep'.lows[n + 1] = low
      /\ \A i \in 1 .. n : ep'.lows[i] = ep.lows[i]
  BY <1>2, <1>4
<1>7. Counter'
  <2>1. Counts(Append(ep.lows, low), Streak(low))
    BY <1>2, CountsOn DEF RInv, Counter, Streak
  <2> QED BY <1>4, <2>1 DEF Counter
<1>8. ~ep.resigned /\ ep.step = n /\ ~ep.done
  BY <1>1 DEF RInv, Resigned, Position
<1>9. \A m \in 1 .. n : LowRun(ep'.lows, m) <=> LowRun(ep.lows, m)
  BY <1>0, <1>2, <1>4, RunsKept
<1>10. \A m \in 1 .. n : ~(ep.allowed /\ LowRun(ep.lows, m))
  BY <1>8 DEF RInv, NoneEarlier
<1>11. ep.allowed => (LowRun(ep'.lows, n + 1) <=> resigns)
  <2> HAVE ep.allowed
  <2>1. Consecutive \in Nat \ {0}
    BY <1>0 DEF RInv, Typed
  <2>2. ep'.lows \in Seq(BOOLEAN) /\ ep'.streak \in Nat /\ Counts(ep'.lows, ep'.streak)
    BY <1>5, <1>7 DEF Typed, EpisodeType, Counter
  <2>3. LowRun(ep'.lows, Len(ep'.lows)) <=> ep'.streak >= Consecutive
    BY <2>1, <2>2, CounterCounts
  <2> QED BY <1>4, <1>6, <2>3
<1>12. resigns => ep.allowed /\ pc' = "score" /\ LowRun(ep'.lows, n + 1)
  BY <1>1, <1>2, <1>11
<1>13. ep.allowed /\ LowRun(ep'.lows, n + 1) => resigns
  BY <1>11
<1> HIDE DEF resigns
<1>14. NoneEarlier'
  <2> SUFFICES ASSUME NEW m \in 1 .. n + 1, ep.allowed, LowRun(ep'.lows, m)
               PROVE  resigns /\ m = n + 1
    BY <1>4, <1>6 DEF NoneEarlier
  <2>1. m \notin 1 .. n
    <3> SUFFICES ASSUME m \in 1 .. n PROVE FALSE
      OBVIOUS
    <3>1. LowRun(ep.lows, m)
      BY <1>9
    <3> QED BY <1>10, <3>1
  <2>2. m = n + 1
    <3>1. n \in Nat /\ m \in 1 .. n + 1
      BY <1>2
    <3> HIDE DEF n
    <3> QED BY <2>1, <3>1
  <2> QED BY <1>13, <2>2
<1>15. Resigned'
  BY <1>2, <1>4, <1>6, <1>12 DEF Resigned
<1>16. (pc' = "score" /\ resigns) \/ (pc' = "move" /\ ~resigns)
  BY <1>1 DEF resigns
<1>17. Position'
  BY <1>2, <1>4, <1>6, <1>8, <1>16 DEF Position
<1> QED BY <1>5, <1>7, <1>14, <1>15, <1>17 DEF RInv

(* A move changes neither the searches nor the counter.                      *)
LEMMA MoveKeeps ==
  ASSUME RInv, NEW ends \in BOOLEAN, Move(ends)
  PROVE  RInv'
<1>1. /\ ep' = [ep EXCEPT !.data = IF Last(ep.fulls) THEN Append(@, ep.step) ELSE @,
                          !.step = @ + 1, !.done = ends]
      /\ pc = "move" /\ calls' = calls /\ probes' = probes
      /\ pc' = IF ends \/ ep.step + 1 = Budget(ep.count) THEN "score" ELSE "search"
  BY DEF Move, call
<1>2. /\ ep \in EpisodeType /\ ep.step \in Nat /\ ep.data \in Seq(Nat)
      /\ Len(ep.lows) \in Nat /\ calls \in Nat /\ probes \in Nat
  BY DEF RInv, Typed, EpisodeType
<1>3. /\ ep'.lows = ep.lows /\ ep'.streak = ep.streak /\ ep'.allowed = ep.allowed
      /\ ep'.resigned = ep.resigned /\ ep'.count = ep.count
      /\ ep'.step = ep.step + 1 /\ ep'.done = ends
  BY <1>1, <1>2 DEF EpisodeType
<1>4. ep' \in EpisodeType
  <2> DEFINE data == IF Last(ep.fulls) THEN Append(ep.data, ep.step) ELSE ep.data
  <2>1. data \in Seq(Nat)
    BY <1>2
  <2>2. ep' = [ep EXCEPT !.data = data, !.step = @ + 1, !.done = ends]
    BY <1>1
  <2>3. ep.step + 1 \in Nat
    BY <1>2
  <2> HIDE DEF data
  <2>4. [ep EXCEPT !.data = data] \in EpisodeType
    BY <1>2, <2>1 DEF EpisodeType
  <2>5. [ep EXCEPT !.data = data, !.step = @ + 1] \in EpisodeType
    BY <2>3, <2>4 DEF EpisodeType
  <2> QED BY <2>2, <2>5 DEF EpisodeType
<1>5. ~ep.resigned /\ ep.step = Len(ep.lows) - 1
  BY <1>1 DEF RInv, Resigned, Position
<1>6. Typed' /\ Counter'
  BY <1>1, <1>2, <1>3, <1>4 DEF Typed, Counter, RInv
<1>7. NoneEarlier' /\ Resigned'
  BY <1>3, <1>5 DEF NoneEarlier, Resigned, RInv
<1>8. Position'
  <2>1. CASE ends \/ ep.step + 1 = Budget(ep.count)
    BY <1>1, <1>3, <1>5, <2>1 DEF Position
  <2>2. CASE ~(ends \/ ep.step + 1 = Budget(ep.count))
    BY <1>1, <1>2, <1>3, <1>5, <2>2 DEF Position
  <2> QED BY <2>1, <2>2
<1> QED BY <1>6, <1>7, <1>8 DEF RInv

(* A new episode.                                                            *)
LEMMA BeginKeeps ==
  ASSUME GathererAssumption, RInv, NEW count \in Int, Begin(count)
  PROVE  RInv'
<1>1. PICK allowed \in BOOLEAN :
        /\ allowed => ResignationEnabled
        /\ ep' = [NoEpisode EXCEPT !.id = <<calls, probes + 1>>, !.count = count,
                                   !.allowed = allowed]
  BY DEF Begin
<1>2. pc' = "search" /\ calls' = calls /\ probes' = probes + 1
      /\ calls \in Nat /\ probes \in Nat
  BY DEF Begin, RInv, Typed
<1>3. allowed \in BOOLEAN /\ (allowed => Consecutive > 0)
  BY <1>1 DEF ResignationEnabled
<1>4. /\ ep'.lows = <<>> /\ ep'.streak = 0 /\ ep'.allowed = allowed
      /\ ep'.resigned = FALSE /\ ep'.step = 0 /\ ep'.done = FALSE
  BY <1>1 DEF NoEpisode
<1>5. ep' \in EpisodeType
  <2>1. <<calls, probes + 1>> \in Nat \X Nat
    BY <1>2
  <2>2. [NoEpisode EXCEPT !.id = <<calls, probes + 1>>, !.count = count] \in EpisodeType
    BY <2>1, BlankType DEF EpisodeType
  <2> QED BY <1>1, <1>3, <2>2 DEF EpisodeType
<1>6. Typed' /\ Counter'
  BY <1>2, <1>3, <1>4, <1>5 DEF Typed, Counter, Counts
<1>7. NoneEarlier' /\ Resigned' /\ Position'
  BY <1>2, <1>4 DEF NoneEarlier, Resigned, Position
<1> QED BY <1>6, <1>7 DEF RInv

(* A step that leaves the episode as it is, outside of its moves.            *)
LEMMA Elsewhere ==
  ASSUME RInv, ep' = ep, calls' \in Nat, probes' \in Nat,
         pc \notin {"score"}, pc' \notin {"search", "move", "score"}
  PROVE  RInv'
  BY DEF RInv, Typed, Counter, NoneEarlier, Resigned, Position

--------------------------------------------------------------------------------
(* Every step of a call keeps the invariant.                                 *)
LEMMA NextKeeps == GathererAssumption /\ RInv /\ [Next]_vars => RInv'
<1> SUFFICES ASSUME GathererAssumption, RInv, [Next]_vars PROVE RInv'
  OBVIOUS
<1>0. calls \in Nat /\ probes \in Nat
  BY DEF RInv, Typed
<1>1. ASSUME NEW g \in Games, Gather(g) PROVE RInv'
  <2>1. pc = "idle" /\ pc' = "begin" /\ ep' = ep /\ calls' = calls + 1 /\ probes' = probes
    BY <1>1 DEF Gather
  <2> QED BY <1>0, <2>1, Elsewhere
<1>2. ASSUME NEW count \in 1 .. game.plan, Begin(count) PROVE RInv'
  BY <1>2, BeginKeeps
<1>3. ASSUME NEW full \in BOOLEAN, NEW low \in BOOLEAN, Search(full, low) PROVE RInv'
  BY <1>3, SearchKeeps
<1>4. ASSUME NEW ends \in BOOLEAN, Move(ends) PROVE RInv'
  BY <1>4, MoveKeeps
<1>5. ASSUME NEW g \in Grades, Score(g) PROVE RInv'
  BY <1>0, <1>5, Over DEF Score, call
<1>6. ASSUME NEW g \in Grades, Probe(g) PROVE RInv'
  BY <1>0, <1>6, Over DEF Probe
<1>7. ASSUME NEW f \in Files, Write(f) PROVE RInv'
  <2>1. pc' \in {"log", "traj", "shard", "gold", "returned", "demo"}
    BY <1>7 DEF Write, EndEpisode, Following, Files
  <2>2. pc # "score"
    BY <1>7 DEF Write, Files
  <2>3. ep' = ep /\ calls' = calls /\ probes' = probes
    BY <1>7 DEF Write, call
  <2> QED BY <1>0, <2>1, <2>2, <2>3, Elsewhere
<1>8. CASE Drop
  <2>1. pc' \in {"log", "returned", "demo"} /\ pc # "score"
        /\ ep' = ep /\ calls' = calls /\ probes' = probes
    BY <1>8 DEF Drop, EndEpisode, call
  <2> QED BY <1>0, <2>1, Elsewhere
<1>9. CASE DemoEnd
  BY <1>0, <1>9, Elsewhere DEF DemoEnd, call
<1>10. CASE Return \/ Die
  <2>1. Forget /\ calls' = calls
    BY <1>10 DEF Return, Die
  <2>2. ep' = NoEpisode /\ pc' = "idle" /\ calls' \in Nat /\ probes' \in Nat
    BY <1>0, <2>1 DEF Forget
  <2> QED BY <2>2, Over
<1>11. ASSUME NEW kept \in BOOLEAN, DemoStep(kept) \/ DemoSkip PROVE RInv'
  BY <1>0, <1>11, Elsewhere DEF DemoStep, DemoSkip, call
<1>12. CASE UNCHANGED vars
  BY <1>12 DEF vars, call, RInv, Typed, Counter, NoneEarlier, Resigned, Position
<1> QED
  BY <1>1, <1>2, <1>3, <1>4, <1>5, <1>6, <1>7, <1>8, <1>9, <1>10, <1>11, <1>12 DEF Next

(* An episode is resigned exactly when resignation is allowed in it and its  *)
(* last searches, no fewer and no more than resign_consecutive_moves, were   *)
(* low, for every number of them and every budget (run_episode_from).        *)
THEOREM ResignCorrect == Spec => []ResignsOnStreak
<1>1. Init => RInv
  BY Started, GathererAssumption
<1>2. RInv /\ [Next]_vars => RInv'
  BY NextKeeps, GathererAssumption
<1>3. RInv => ResignsOnStreak
  BY Enough
<1> QED BY <1>1, <1>2, <1>3, PTL DEF Spec

--------------------------------------------------------------------------------
(* Gold in the shard.                                                        *)

EndKinds == {"done", "floor", "her", "cusp"}
Kinds == EndKinds \cup {"demo"}
PlainLine ==
  [id : Nat \X Nat, step : Int, kind : Kinds, level : Int, reverse : BOOLEAN, whole : BOOLEAN]
BoardLine ==
  [id : Nat \X Nat, step : Int, kind : Kinds, level : Int, reverse : BOOLEAN, whole : BOOLEAN,
   board : Int]
AnyLine == PlainLine \cup BoardLine
Texts == Seq(AnyLine)
FileType == [lines : Texts, lost : Nat, cut : BOOLEAN]

OutcomeType ==
  [id : Nat \X Nat, count : Int, fulls : Seq(BOOLEAN), moves : Nat, data : Seq(Nat),
   done : BOOLEAN, kind : EndKinds, level : Int, reverse : BOOLEAN]

(* What is known of an episode that is kept or written. *)
Finished == {o \in OutcomeType : o.done <=> o.kind = "done"}

Shaped ==
  /\ files \in [Files -> FileType]
  /\ best \in Seq(Finished) /\ failed \in Seq(Finished) /\ queue \in Seq(Finished)
  /\ reverse \in BOOLEAN /\ turn \in Nat /\ demo \in [next : Nat, stepped : Nat, buffer : Texts]
  /\ pc \in Files => turn \in DOMAIN queue
  /\ pc \notin Files \cup {"demo", "returned"} => turn = 1
  /\ pc = "demo" => queue # <<>>

(* A demonstration's line shows the state its action was chosen in.          *)
OnPlan(l) == l.kind = "demo" => l \in BoardLine /\ l.board = l.step

(* The same record, of the same kind of episode, in the same state. *)
Alike(l, m) == SameRecord(l, m) /\ l.reverse = m.reverse /\ (OnPlan(m) => OnPlan(l))
Shown(text, lines) == \A j \in DOMAIN text : \E i \in DOMAIN lines : SameRecord(text[j], lines[i])

(* The records of the episode whose gold is due are in the shard. *)
Due == pc = "gold" => Shown(Records(queue[turn]), files["shard"].lines)

Banked ==
  /\ \A j \in DOMAIN files["gold"].lines :
       files["gold"].lines[j].kind = "done" /\ ~files["gold"].lines[j].reverse
  /\ Shown(files["gold"].lines, files["shard"].lines)

GInv == RInv /\ Shaped /\ Due /\ Banked

LEMMA StrippedLine ==
  ASSUME NEW l \in AnyLine
  PROVE  [l EXCEPT !.whole = FALSE] \in AnyLine /\ Alike([l EXCEPT !.whole = FALSE], l)
<1>1. CASE l \in BoardLine
  BY <1>1 DEF AnyLine, BoardLine, Alike, SameRecord, OnPlan
<1>2. CASE l \in PlainLine /\ l \notin BoardLine
  <2>1. [l EXCEPT !.whole = FALSE] \in PlainLine /\ SameRecord([l EXCEPT !.whole = FALSE], l)
        /\ [l EXCEPT !.whole = FALSE].reverse = l.reverse
    BY <1>2 DEF PlainLine, SameRecord
  <2>2. OnPlan(l) => OnPlan([l EXCEPT !.whole = FALSE])
    BY <1>2, <2>1 DEF OnPlan, SameRecord
  <2> QED BY <2>1, <2>2 DEF AnyLine, Alike
<1> QED BY <1>1, <1>2 DEF AnyLine

(* Going on in a cut line changes nothing but whether the line can be read.  *)
LEMMA ContinuedAlike ==
  ASSUME NEW text \in Texts, text # <<>>, NEW cut \in BOOLEAN
  PROVE  /\ Continued(cut, text) \in Texts
         /\ Len(Continued(cut, text)) = Len(text)
         /\ \A j \in 1 .. Len(text) : Alike(Continued(cut, text)[j], text[j])
<1>0. /\ Len(text) \in Nat \ {0} /\ text[1] \in AnyLine /\ Head(text) = text[1]
      /\ Tail(text) \in Texts /\ Len(Tail(text)) = Len(text) - 1
      /\ \A j \in 1 .. Len(text) - 1 : Tail(text)[j] = text[j + 1]
  BY HeadTailProperties, EmptySeq, LenProperties, ElementOfSeq DEF Texts
<1>1. CASE cut = FALSE
  BY <1>0, <1>1 DEF Continued, Alike, SameRecord
<1>2. CASE cut = TRUE
  <2> DEFINE first == [text[1] EXCEPT !.whole = FALSE]
  <2>1. first \in AnyLine /\ Alike(first, text[1])
    BY <1>0, StrippedLine
  <2> HIDE DEF first
  <2>2. Continued(cut, text) = <<first>> \o Tail(text)
    BY <1>0, <1>2 DEF Continued, first
  <2>3. <<first>> \in Texts /\ Len(<<first>>) = 1 /\ <<first>>[1] = first
    BY <2>1 DEF Texts
  <2>4. /\ <<first>> \o Tail(text) \in Texts
        /\ Len(<<first>> \o Tail(text)) = Len(text)
        /\ (<<first>> \o Tail(text))[1] = first
        /\ \A j \in 2 .. Len(text) : (<<first>> \o Tail(text))[j] = Tail(text)[j - 1]
    BY <1>0, <2>3, ConcatProperties DEF Texts
  <2>5. ASSUME NEW j \in 1 .. Len(text) PROVE Alike((<<first>> \o Tail(text))[j], text[j])
    <3>1. CASE j = 1
      BY <2>1, <2>4, <3>1
    <3>2. CASE j # 1
      <4>1. Tail(text)[j - 1] = text[j]
        BY <1>0, <3>2
      <4>2. (<<first>> \o Tail(text))[j] = text[j]
        BY <1>0, <2>4, <3>2, <4>1
      <4> QED BY <4>2 DEF Alike, SameRecord
    <3> QED BY <3>1, <3>2
  <2> QED BY <2>2, <2>4, <2>5
<1> QED BY <1>1, <1>2

(* What appending a text does to a file: the lines it had stay where they    *)
(* are, and those behind them are the text's.                                *)
Extended(old, new, text) ==
  /\ new \in FileType
  /\ Len(old.lines) <= Len(new.lines)
  /\ \A i \in 1 .. Len(old.lines) : new.lines[i] = old.lines[i]
  /\ \A i \in Len(old.lines) + 1 .. Len(new.lines) :
       \E j \in 1 .. Len(text) : Alike(new.lines[i], text[j])

(* A text that is written to the end, line by line. *)
Follows(old, new, text) ==
  /\ new \in FileType /\ Len(new.lines) = Len(old.lines) + Len(text)
  /\ \A i \in 1 .. Len(old.lines) : new.lines[i] = old.lines[i]
  /\ \A j \in 1 .. Len(text) : Alike(new.lines[Len(old.lines) + j], text[j])

LEMMA AppendedFollows ==
  ASSUME NEW file \in FileType, NEW text \in Texts
  PROVE  Follows(file, Appended(file, text), text)
<1>0. file.lines \in Texts /\ Len(file.lines) \in Nat /\ file.cut \in BOOLEAN /\ Len(text) \in Nat
  BY LenProperties DEF FileType, Texts
<1>1. CASE text = <<>>
  <2>1. Appended(file, text) = file /\ Len(text) = 0
    BY <1>1 DEF Appended
  <2> QED BY <1>0, <2>1 DEF Follows
<1>2. CASE text # <<>>
  <2> DEFINE more == Continued(file.cut, text)
             new == [file EXCEPT !.lines = @ \o more, !.cut = FALSE]
  <2>1. more \in Texts /\ Len(more) = Len(text) /\ \A j \in 1 .. Len(text) : Alike(more[j], text[j])
    BY <1>0, <1>2, ContinuedAlike
  <2> HIDE DEF more
  <2>2. /\ file.lines \o more \in Texts
        /\ Len(file.lines \o more) = Len(file.lines) + Len(text)
        /\ \A i \in 1 .. Len(file.lines) : (file.lines \o more)[i] = file.lines[i]
        /\ \A j \in 1 .. Len(text) : (file.lines \o more)[Len(file.lines) + j] = more[j]
    <3> DEFINE old == file.lines
               n == Len(old)
               m == Len(text)
    <3>1. old \in Seq(AnyLine) /\ more \in Seq(AnyLine) /\ n \in Nat /\ m \in Nat /\ Len(more) = m
      BY <1>0, <2>1 DEF Texts
    <3> HIDE DEF old
    <3>2. /\ old \o more \in Seq(AnyLine)
          /\ Len(old \o more) = Len(old) + Len(more)
          /\ \A i \in 1 .. Len(old) + Len(more) :
               (old \o more)[i] = IF i <= Len(old) THEN old[i] ELSE more[i - Len(old)]
      BY <3>1, ConcatProperties
    <3> HIDE DEF m
    <3>3. /\ old \o more \in Seq(AnyLine)
          /\ Len(old \o more) = n + m
          /\ \A i \in 1 .. n + m : (old \o more)[i] = IF i <= n THEN old[i] ELSE more[i - n]
      BY <3>1, <3>2
    <3> HIDE DEF n
    <3>4. \A i \in 1 .. n : (old \o more)[i] = old[i]
      BY <3>1, <3>3
    <3>5. \A j \in 1 .. m : (old \o more)[n + j] = more[j]
      <4> TAKE j \in 1 .. m
      <4>1. n + j \in 1 .. n + m /\ ~(n + j <= n) /\ (n + j) - n = j
        BY <3>1
      <4> QED BY <3>3, <4>1
    <3> QED BY <3>3, <3>4, <3>5 DEF Texts, old, n, m
  <2>3. Appended(file, text) = new
    BY <1>2 DEF Appended, more
  <2>4. new \in FileType /\ new.lines = file.lines \o more
    BY <2>2 DEF FileType
  <2> QED BY <2>1, <2>2, <2>3, <2>4 DEF Follows
<1> QED BY <1>1, <1>2

LEMMA AppendedExtends ==
  ASSUME NEW file \in FileType, NEW text \in Texts
  PROVE  /\ Extended(file, Appended(file, text), text)
         /\ Shown(text, Appended(file, text).lines)
<1> DEFINE new == Appended(file, text)
           n == Len(file.lines)
           m == Len(text)
<1>1. Follows(file, new, text)
  BY AppendedFollows
<1> HIDE DEF new
<1>2. /\ n \in Nat /\ m \in Nat /\ DOMAIN text = 1 .. m
      /\ new \in FileType /\ Len(new.lines) = n + m /\ DOMAIN new.lines = 1 .. n + m
  BY <1>1, LenProperties DEF Follows, FileType, Texts
<1>3. /\ \A i \in 1 .. n : new.lines[i] = file.lines[i]
      /\ \A j \in 1 .. m : Alike(new.lines[n + j], text[j])
  BY <1>1 DEF Follows
<1> HIDE DEF n, m
<1>4. \A i \in n + 1 .. n + m : \E j \in 1 .. m : Alike(new.lines[i], text[j])
  <2> TAKE i \in n + 1 .. n + m
  <2>1. i - n \in 1 .. m /\ n + (i - n) = i
    BY <1>2
  <2> QED BY <1>3, <2>1
<1>5. \A j \in 1 .. m : \E i \in 1 .. n + m : SameRecord(text[j], new.lines[i])
  <2> TAKE j \in 1 .. m
  <2>1. n + j \in 1 .. n + m
    BY <1>2
  <2> QED BY <1>3, <2>1 DEF Alike, SameRecord
<1>6. Extended(file, new, text)
  BY <1>2, <1>3, <1>4 DEF Extended, n, m
<1>7. Shown(text, new.lines)
  BY <1>2, <1>5 DEF Shown
<1> QED BY <1>6, <1>7 DEF new

LEMMA TornExtends ==
  ASSUME NEW file \in FileType, NEW text \in Texts, NEW t \in Torn(file, text)
  PROVE  Extended(file, t, text)
<1>1. PICK n \in 0 .. Len(text) :
        \/ t = Appended(file, SubSeq(text, 1, n))
        \/ t = [Appended(file, SubSeq(text, 1, n)) EXCEPT !.cut = TRUE]
  BY DEF Torn
<1> DEFINE part == SubSeq(text, 1, n)
           new == Appended(file, part)
<1>2. /\ part \in Texts /\ Len(part) = n /\ Len(text) \in Nat
      /\ \A j \in 1 .. n : part[j] = text[j]
  BY LenProperties, SubSeqProperties DEF Texts
<1> HIDE DEF part
<1>3. Extended(file, new, part)
  BY <1>2, AppendedExtends
<1>4. t = new \/ t = [new EXCEPT !.cut = TRUE]
  BY <1>1 DEF part
<1> HIDE DEF new
<1>5. t \in FileType /\ t.lines = new.lines
  BY <1>3, <1>4 DEF Extended, FileType
<1>6. \A i \in Len(file.lines) + 1 .. Len(t.lines) :
        \E j \in 1 .. Len(text) : Alike(t.lines[i], text[j])
  <2> SUFFICES ASSUME NEW i \in Len(file.lines) + 1 .. Len(t.lines)
               PROVE  \E j \in 1 .. Len(text) : Alike(t.lines[i], text[j])
    OBVIOUS
  <2>1. PICK j \in 1 .. Len(part) : Alike(new.lines[i], part[j])
    BY <1>3, <1>5 DEF Extended
  <2>2. j \in 1 .. Len(text) /\ part[j] = text[j] /\ t.lines[i] = new.lines[i]
    BY <1>2, <1>5, <2>1
  <2> QED BY <2>1, <2>2
<1> QED BY <1>3, <1>5, <1>6 DEF Extended

(* The text of every file is lines; gold is records of a finished episode.   *)
LEMMA LineType ==
  ASSUME NEW o \in Finished, NEW step \in Int
  PROVE  /\ Line(o, step) \in AnyLine
         /\ o.done => Line(o, step).kind = "done"
         /\ Line(o, step).reverse = o.reverse
  BY DEF Line, Finished, OutcomeType, AnyLine, PlainLine, Kinds

LEMMA RecordsType ==
  ASSUME NEW o \in Finished
  PROVE  /\ Records(o) \in Texts /\ DOMAIN Records(o) = DOMAIN o.data
         /\ \A i \in DOMAIN o.data : o.data[i] \in Int /\ Records(o)[i] = Line(o, o.data[i])
<1>1. o.data \in Seq(Nat) /\ Len(o.data) \in Nat /\ DOMAIN o.data = 1 .. Len(o.data)
  BY LenProperties DEF Finished, OutcomeType
<1>2. \A i \in 1 .. Len(o.data) : o.data[i] \in Int /\ Line(o, o.data[i]) \in AnyLine
  BY <1>1, ElementOfSeq, LineType
<1>3. Records(o) = [i \in 1 .. Len(o.data) |-> Line(o, o.data[i])]
  BY <1>1 DEF Records
<1> QED BY <1>1, <1>2, <1>3 DEF Texts

LEMMA TextType ==
  ASSUME NEW o \in Finished, NEW f \in Files
  PROVE  Text(f, o) \in Texts
<1>1. CASE f = "log"
  BY <1>1, LineType DEF Text, LogText, Texts
<1>2. CASE f = "traj"
  <2>1. o.moves \in Nat
    BY DEF Finished, OutcomeType
  <2>2. \A i \in 1 .. o.moves : Line(o, i - 1) \in AnyLine
    BY <2>1, LineType
  <2>3. TrajectoryText(o) \in Texts
    BY <2>1, <2>2 DEF TrajectoryText, Texts
  <2> QED BY <1>2, <2>3 DEF Text
<1>3. CASE f = "shard"
  BY <1>3, RecordsType DEF Text, RecordText, Texts
<1>4. CASE f = "gold"
  BY <1>4, RecordsType DEF Text, GoldText, Texts
<1> QED BY <1>1, <1>2, <1>3, <1>4 DEF Files

LEMMA GoldIsDone ==
  ASSUME NEW o \in Finished, NEW j \in DOMAIN GoldText(o)
  PROVE  /\ j \in DOMAIN Records(o) /\ GoldText(o)[j] = Records(o)[j]
         /\ GoldText(o)[j].kind = "done" /\ ~GoldText(o)[j].reverse
<1>1. IsGold(o) /\ GoldText(o) = Records(o)
  BY DEF GoldText
<1>2. o.done /\ ~o.reverse
  BY <1>1 DEF IsGold
<1> QED BY <1>1, <1>2, RecordsType, LineType

--------------------------------------------------------------------------------
(* A file that grows keeps gold in the shard: the shard loses nothing, and   *)
(* what gold gets is due.                                                    *)
LEMMA ShownKept ==
  ASSUME NEW lines, NEW old \in FileType, NEW new, NEW text, Extended(old, new, text),
         Shown(lines, old.lines)
  PROVE  Shown(lines, new.lines)
<1>1. /\ DOMAIN old.lines = 1 .. Len(old.lines) /\ DOMAIN new.lines = 1 .. Len(new.lines)
      /\ Len(old.lines) \in Nat /\ Len(new.lines) \in Nat
  BY LenProperties DEF Extended, FileType, Texts
<1> QED BY <1>1 DEF Shown, Extended

LEMMA FileGrows ==
  ASSUME Shaped, Due, Banked, NEW f \in Files, NEW new, NEW text \in Texts,
         Extended(files[f], new, text),
         f = "gold" => pc = "gold" /\ text = GoldText(queue[turn]),
         files' = [files EXCEPT ![f] = new]
  PROVE  files' \in [Files -> FileType] /\ Banked'
<1>1. /\ files \in [Files -> FileType] /\ new \in FileType /\ {"gold", "shard"} \subseteq Files
      /\ files'[f] = new /\ \A h \in Files : h # f => files'[h] = files[h]
      /\ files' \in [Files -> FileType]
  BY DEF Shaped, Extended, Files
<1>2. CASE f = "shard"
  <2>1. Shown(files["gold"].lines, new.lines)
    BY <1>1, <1>2, ShownKept DEF Banked
  <2> QED BY <1>1, <1>2, <2>1 DEF Banked
<1>3. CASE f = "gold"
  <2> DEFINE old == files["gold"]
             shard == files["shard"].lines
             o == queue[turn]
  <2>1. o \in Finished /\ Shown(Records(o), shard) /\ text = GoldText(o)
    BY <1>3, ElementOfSeq, LenProperties DEF Shaped, Due, Files
  <2> HIDE DEF o
  <2>2. /\ DOMAIN old.lines = 1 .. Len(old.lines) /\ DOMAIN new.lines = 1 .. Len(new.lines)
        /\ DOMAIN text = 1 .. Len(text)
        /\ Len(old.lines) \in Nat /\ Len(new.lines) \in Nat
    BY <1>1, LenProperties DEF FileType, Texts
  <2>3. ASSUME NEW i \in DOMAIN new.lines
        PROVE  /\ new.lines[i].kind = "done" /\ ~new.lines[i].reverse
               /\ \E k \in DOMAIN shard : SameRecord(new.lines[i], shard[k])
    <3>1. CASE i <= Len(old.lines)
      <4>1. i \in DOMAIN old.lines /\ new.lines[i] = old.lines[i]
        BY <1>3, <2>2, <3>1 DEF Extended
      <4> QED BY <4>1 DEF Banked, Shown
    <3>2. CASE i > Len(old.lines)
      <4>1. PICK j \in 1 .. Len(text) : Alike(new.lines[i], text[j])
        BY <1>3, <2>2, <3>2 DEF Extended
      <4>2. /\ j \in DOMAIN Records(o) /\ text[j] = Records(o)[j]
            /\ text[j].kind = "done" /\ ~text[j].reverse
        BY <2>1, <2>2, GoldIsDone
      <4>3. PICK k \in DOMAIN shard : SameRecord(text[j], shard[k])
        BY <2>1, <4>2 DEF Shown
      <4> QED BY <4>1, <4>2, <4>3 DEF Alike, SameRecord
    <3> QED BY <2>2, <3>1, <3>2
  <2> QED BY <1>1, <1>3, <2>3 DEF Banked, Shown
<1>4. CASE f \notin {"shard", "gold"}
  BY <1>1, <1>4 DEF Banked
<1> QED BY <1>1, <1>2, <1>3, <1>4

--------------------------------------------------------------------------------
(* An action that leaves the files alone and has no gold due.                *)
LEMMA FilesKept ==
  ASSUME Shaped, Banked, files' = files
  PROVE  files' \in [Files -> FileType] /\ Banked'
  BY DEF Shaped, Banked

LEMMA OutcomeFinished ==
  ASSUME Typed, Shaped, NEW g \in Grades
  PROVE  Outcome(g) \in Finished
<1>1. g.kind \in EndKinds /\ g.level \in Int /\ (ep.done <=> g.kind = "done")
  <2>2. /\ \A l \in Levels : l \in Int
        /\ \A a, n : CuspPartial(a, n) \in Int /\ CuspFactor(a, n) \in Int
        /\ Saturated \in Int
    BY DEF Levels, CuspPartial, CuspFactor, Saturated, Worse, Even, Better
  <2>3. CASE ep.done
    <3>1. PICK l \in Levels : g = Grade("done", l)
      BY <2>3 DEF Grades
    <3>2. l \in Int
      BY <2>2
    <3>3. g = [kind |-> "done", level |-> l]
      BY <3>1 DEF Grade
    <3> QED BY <2>3, <3>2, <3>3 DEF EndKinds
  <2>4. CASE ~ep.done
    <3>1. \/ g = NoProgress
          \/ \E a : g = Grade("her", CuspPartial(a, game.objectives))
          \/ \E m : g = Grade("cusp", CuspFactor(m, game.objectives))
          \/ \E l \in Levels : g = Grade("her", l)
      BY <2>4 DEF Grades
    <3>2. CASE g = NoProgress
      <4>1. g = [kind |-> "floor", level |-> Saturated] /\ Saturated \in Int
        BY <2>2, <3>2 DEF Grade, NoProgress
      <4> QED BY <2>4, <4>1 DEF EndKinds
    <3>3. CASE \E a : g = Grade("her", CuspPartial(a, game.objectives))
      <4>1. PICK level \in Int : g = [kind |-> "her", level |-> level]
        BY <2>2, <3>3 DEF Grade
      <4> QED BY <2>4, <4>1 DEF EndKinds
    <3>4. CASE \E m : g = Grade("cusp", CuspFactor(m, game.objectives))
      <4>1. PICK level \in Int : g = [kind |-> "cusp", level |-> level]
        BY <2>2, <3>4 DEF Grade
      <4> QED BY <2>4, <4>1 DEF EndKinds
    <3>5. CASE \E l \in Levels : g = Grade("her", l)
      <4>1. PICK level \in Int : g = [kind |-> "her", level |-> level]
        BY <2>2, <3>5 DEF Grade
      <4> QED BY <2>4, <4>1 DEF EndKinds
    <3> QED BY <3>1, <3>2, <3>3, <3>4, <3>5
  <2> QED BY <2>3, <2>4
<1>2. /\ ep.id \in Nat \X Nat /\ ep.count \in Int /\ ep.fulls \in Seq(BOOLEAN)
      /\ ep.step \in Nat /\ ep.data \in Seq(Nat) /\ ep.done \in BOOLEAN
  BY DEF Typed, EpisodeType
<1>3. reverse \in BOOLEAN
  BY DEF Shaped
<1> QED BY <1>1, <1>2, <1>3 DEF Outcome, Finished, OutcomeType

LEMMA LinesUnreadable ==
  ASSUME NEW lines \in Texts
  PROVE  Unreadable(lines) \in Nat /\ IsFiniteSet({i \in DOMAIN lines : ~lines[i].whole})
<1>1. DOMAIN lines = 1 .. Len(lines) /\ Len(lines) \in Nat
  BY LenProperties DEF Texts
<1>2. IsFiniteSet(DOMAIN lines)
  BY <1>1, FS_Interval
<1>3. {i \in DOMAIN lines : ~lines[i].whole} \in SUBSET DOMAIN lines
  OBVIOUS
<1> QED BY <1>2, <1>3, FS_Subset, FS_CardinalityType DEF Unreadable

LEMMA GatherShaped ==
  ASSUME Shaped, NEW g \in Games, Gather(g)
  PROVE  Shaped' /\ Banked' /\ Due'
<1>1. \A lines \in Texts : Unreadable(lines) \in Nat
  BY LinesUnreadable
<1>2. ASSUME NEW f \in Files
      PROVE  files'[f] \in FileType /\ files'[f].lines = <<>>
  <2>1. files[f] \in FileType /\ files[f].lines \in Texts
    BY DEF Shaped, FileType
  <2>2. files[f].lost + Unreadable(files[f].lines) \in Nat
    BY <1>1, <2>1 DEF FileType
  <2>3. files'[f] = [files[f] EXCEPT !.lines = <<>>, !.lost = @ + Unreadable(files[f].lines)]
    BY DEF Gather
  <2>4. <<>> \in Texts
    BY DEF Texts
  <2> QED BY <2>1, <2>2, <2>3, <2>4 DEF FileType
<1>3. files' \in [Files -> FileType]
  BY <1>2 DEF Gather
<1>4. Banked'
  <2>1. "gold" \in Files /\ "shard" \in Files
    BY DEF Files
  <2> QED BY <1>2, <2>1 DEF Banked, Shown
<1>5. /\ reverse' \in BOOLEAN /\ pc = "idle" /\ pc' = "begin" /\ turn' = turn /\ best' = best
      /\ failed' = failed /\ queue' = queue /\ demo' = demo
  BY DEF Gather
<1> QED BY <1>3, <1>4, <1>5 DEF Shaped, Due, Files

LEMMA EpisodeShaped ==
  ASSUME Shaped, Banked, pc \notin Files \cup {"demo", "returned"},
         pc' \notin Files \cup {"demo", "returned"},
         reverse' = reverse, turn' = turn, best' = best, failed' = failed, queue' = queue,
         demo' = demo, files' = files
  PROVE  Shaped' /\ Banked' /\ Due'
  BY FilesKept DEF Shaped, Due, Files

LEMMA ScoreShaped ==
  ASSUME Typed, Shaped, Banked, NEW g \in Grades, Score(g)
  PROVE  Shaped' /\ Banked' /\ Due'
<1>1. Outcome(g) \in Finished
  BY OutcomeFinished
<1>2. /\ queue' = <<Outcome(g)>> /\ pc = "score" /\ pc' = "log" /\ reverse' = reverse
      /\ turn' = turn /\ best' = best /\ failed' = failed /\ demo' = demo /\ files' = files
  BY DEF Score, call
<1>3. queue' \in Seq(Finished) /\ turn' \in DOMAIN queue' /\ queue' # <<>>
  BY <1>1, <1>2 DEF Shaped, Files
<1> QED BY <1>2, <1>3, FilesKept DEF Shaped, Due, Files

LEMMA ProbeShaped ==
  ASSUME Typed, Shaped, Banked, NEW g \in Grades, Probe(g)
  PROVE  Shaped' /\ Banked' /\ Due'
<1> DEFINE kept == IF ep.done THEN <<Outcome(g)>> ELSE best
           lost == IF ep.done THEN failed ELSE <<Outcome(g)>>
<1>1. Outcome(g) \in Finished
  BY OutcomeFinished
<1>2. /\ kept \in Seq(Finished) /\ lost \in Seq(Finished)
      /\ Len(kept) \in Nat /\ Len(lost) \in Nat /\ Len(kept) + Len(lost) >= 1
  BY <1>1, LenProperties DEF Shaped
<1>3. best' = kept /\ failed' = lost
  BY DEF Probe
<1> HIDE DEF kept, lost
<1>4. kept \o lost \in Seq(Finished) /\ Len(kept \o lost) = Len(kept) + Len(lost)
  BY <1>2, ConcatProperties
<1>5. 1 \in DOMAIN (kept \o lost)
  BY <1>2, <1>4, LenProperties
<1>6. /\ pc = "score" /\ turn' = turn /\ reverse' = reverse /\ demo' = demo /\ files' = files
      /\ \/ pc' = "begin" /\ queue' = queue
         \/ pc' = "log" /\ queue' = kept \o lost
  BY <1>3 DEF Probe
<1>7. turn = 1
  BY <1>6 DEF Shaped, Files
<1>8. CASE pc' = "begin" /\ queue' = queue
  BY <1>2, <1>3, <1>6, <1>7, <1>8, FilesKept DEF Shaped, Due, Files
<1>9. CASE pc' = "log" /\ queue' = kept \o lost
  BY <1>2, <1>3, <1>4, <1>5, <1>6, <1>7, <1>9, FilesKept DEF Shaped, Due, Files
<1> QED BY <1>6, <1>8, <1>9

(* Where write_episode goes when an episode has been dealt with.             *)
LEMMA EndShaped ==
  ASSUME Shaped, pc \in Files, EndEpisode, queue' = queue
  PROVE  /\ turn' \in Nat /\ pc' # "gold"
         /\ pc' \in Files => turn' \in DOMAIN queue'
         /\ pc' \notin Files => pc' \in {"demo", "returned"}
         /\ pc' = "demo" => queue' # <<>>
<1>1. turn \in 1 .. Len(queue) /\ Len(queue) \in Nat /\ DOMAIN queue = 1 .. Len(queue)
  BY LenProperties DEF Shaped
<1>2. /\ turn' = turn + 1
      /\ \/ turn < Len(queue) /\ pc' = "log"
         \/ pc' = "returned"
         \/ pc' = "demo"
  BY DEF EndEpisode
<1>3. queue # <<>>
  BY <1>1
<1> QED BY <1>1, <1>2, <1>3 DEF Files

LEMMA WriteShaped ==
  ASSUME Shaped, Due, Banked, NEW f \in Files, Write(f)
  PROVE  Shaped' /\ Banked' /\ Due'
<1> DEFINE o == queue[turn]
           text == Text(f, o)
           new == Appended(files[f], text)
<1>1. /\ pc = f /\ files' = [files EXCEPT ![f] = new] /\ queue' = queue /\ best' = best
      /\ failed' = failed /\ reverse' = reverse /\ demo' = demo
      /\ (f = "shard" => ~SaturatedPartial(o))
      /\ IF Following(f) = "end" THEN EndEpisode ELSE pc' = Following(f) /\ turn' = turn
  BY DEF Write, call
<1>2. o \in Finished /\ files[f] \in FileType
  BY <1>1, ElementOfSeq, LenProperties DEF Shaped
<1>3. text \in Texts
  BY <1>2, TextType
<1>4. Extended(files[f], new, text) /\ Shown(text, new.lines)
  BY <1>2, <1>3, AppendedExtends
<1>5. f = "gold" => text = GoldText(o)
  BY DEF Text
<1>6. f = "shard" => text = Records(o)
  BY <1>1 DEF Text, RecordText
<1> HIDE DEF text, new
<1>7. files' \in [Files -> FileType] /\ Banked'
  <2>1. f = "gold" => pc = "gold" /\ text = GoldText(queue[turn])
    BY <1>1, <1>5
  <2> QED BY <1>1, <1>3, <1>4, <2>1, FileGrows
<1>8. CASE f = "gold"
  <2>1. EndEpisode
    BY <1>1, <1>8 DEF Following
  <2> QED BY <1>1, <1>7, <2>1, EndShaped DEF Shaped, Due
<1>9. CASE f # "gold"
  <2>1. /\ pc' \in Files /\ turn' = turn /\ (pc' = "gold" => f = "shard")
    BY <1>1, <1>9 DEF Following, Files
  <2>2. Due'
    <3> SUFFICES ASSUME pc' = "gold" PROVE Shown(Records(o), files'["shard"].lines)
      BY <1>1, <2>1 DEF Due
    <3>1. f = "shard" /\ files'["shard"] = new
      BY <1>1, <2>1 DEF Shaped
    <3> QED BY <1>4, <1>6, <3>1
  <2> QED BY <1>1, <1>7, <2>1, <2>2 DEF Shaped, Files
<1> QED BY <1>8, <1>9

LEMMA DropShaped ==
  ASSUME Shaped, Banked, Drop
  PROVE  Shaped' /\ Banked' /\ Due'
<1>1. /\ pc \in Files /\ EndEpisode /\ queue' = queue /\ best' = best /\ failed' = failed
      /\ reverse' = reverse /\ demo' = demo /\ files' = files
  BY DEF Drop, call, Files
<1> QED BY <1>1, EndShaped, FilesKept DEF Shaped, Due

(* An action without an id is played like one whose record is not kept.      *)
LEMMA SkipIsStep == DemoSkip => DemoStep(FALSE)
BY DEF DemoSkip, DemoStep

LEMMA DemoShaped ==
  ASSUME Shaped, Banked, NEW kept \in BOOLEAN, DemoStep(kept)
  PROVE  Shaped' /\ Banked' /\ Due'
<1>1. /\ pc = "demo" /\ pc' = "demo" /\ queue' = queue /\ best' = best /\ failed' = failed
      /\ turn' = turn /\ reverse' = reverse /\ files' = files
      /\ demo' = [next |-> demo.next + 1, stepped |-> demo.stepped + 1,
                  buffer |-> IF kept THEN Append(demo.buffer, DemoLine) ELSE demo.buffer]
  BY DEF DemoStep, call
<1>2. queue[1] \in Finished
  BY <1>1, EmptySeq, ElementOfSeq, LenProperties DEF Shaped
<1>3. DemoLine \in AnyLine
  <2>1. queue[1].id \in Nat \X Nat
    BY <1>2 DEF Finished, OutcomeType
  <2>2. demo.next \in Int /\ demo.stepped + 1 \in Int
    <3>1. demo \in [next : Nat, stepped : Nat, buffer : Texts]
      BY DEF Shaped
    <3> QED BY <3>1
  <2> DEFINE id == queue[1].id
             next == demo.next
             board == demo.stepped + 1
             made == [id |-> id, step |-> next, kind |-> "demo", level |-> 0,
                      reverse |-> FALSE, whole |-> TRUE, board |-> board]
  <2>3. DemoLine = made
    BY DEF DemoLine, Even
  <2>4. id \in Nat \X Nat /\ next \in Int /\ board \in Int
    BY <2>1, <2>2
  <2> HIDE DEF id, next, board
  <2>5. made \in BoardLine
    BY <2>4 DEF BoardLine, Kinds
  <2> QED BY <2>3, <2>5 DEF AnyLine
<1>4. demo.buffer \in Seq(AnyLine) /\ Append(demo.buffer, DemoLine) \in Seq(AnyLine)
  BY <1>3, AppendProperties DEF Shaped, Texts
<1>5. demo' \in [next : Nat, stepped : Nat, buffer : Texts]
  BY <1>1, <1>4 DEF Shaped, Texts
<1> QED BY <1>1, <1>5, FilesKept DEF Shaped, Due, Files

LEMMA DemoEndShaped ==
  ASSUME Shaped, Due, Banked, DemoEnd
  PROVE  Shaped' /\ Banked' /\ Due'
<1> DEFINE new == Appended(files["shard"], demo.buffer)
<1>1. /\ pc = "demo" /\ pc' = "returned" /\ queue' = queue /\ best' = best /\ failed' = failed
      /\ turn' = turn /\ reverse' = reverse /\ demo' = demo
      /\ files' = [files EXCEPT !["shard"] = new]
  BY DEF DemoEnd, call
<1>2. demo.buffer \in Texts /\ files["shard"] \in FileType /\ "shard" \in Files
  BY DEF Shaped, Files
<1>3. Extended(files["shard"], new, demo.buffer)
  BY <1>2, AppendedExtends
<1> HIDE DEF new
<1>4. files' \in [Files -> FileType] /\ Banked'
  BY <1>1, <1>2, <1>3, FileGrows
<1> QED BY <1>1, <1>4 DEF Shaped, Due, Files

LEMMA EmptyText == <<>> \in Texts
  BY DEF Texts

LEMMA ForgetShaped ==
  ASSUME Forget, files' \in [Files -> FileType], Banked'
  PROVE  Shaped' /\ Banked' /\ Due'
<1>1. /\ pc' = "idle" /\ reverse' = FALSE /\ best' = <<>> /\ failed' = <<>> /\ queue' = <<>>
      /\ turn' = 1 /\ demo' = [next |-> 1, stepped |-> 0, buffer |-> <<>>]
  BY DEF Forget, NoDemo
<1>2. demo' \in [next : Nat, stepped : Nat, buffer : Texts]
  BY <1>1, EmptyText
<1>3. pc' \notin Files /\ pc' # "demo" /\ pc' # "gold"
  BY <1>1 DEF Files
<1>4. best' \in Seq(Finished) /\ failed' \in Seq(Finished) /\ queue' \in Seq(Finished)
  BY <1>1
<1>5. reverse' \in BOOLEAN /\ turn' \in Nat /\ turn' = 1
  BY <1>1
<1>6. Shaped'
  BY <1>2, <1>3, <1>4, <1>5 DEF Shaped
<1>7. Due'
  BY <1>3 DEF Due
<1> QED BY <1>6, <1>7

LEMMA DieShaped ==
  ASSUME Shaped, Due, Banked, Die
  PROVE  Shaped' /\ Banked' /\ Due'
<1>1. Forget
  BY DEF Die
<1>2. CASE pc \in Files
  <2> DEFINE o == queue[turn]
             text == Text(pc, o)
  <2>1. PICK new \in Torn(files[pc], text) : files' = [files EXCEPT ![pc] = new]
    BY <1>2 DEF Die, Files
  <2>2. o \in Finished /\ files[pc] \in FileType
    BY <1>2, ElementOfSeq, LenProperties DEF Shaped
  <2>3. text \in Texts
    BY <1>2, <2>2, TextType
  <2>4. pc = "gold" => text = GoldText(o)
    BY DEF Text
  <2> HIDE DEF text
  <2>5. Extended(files[pc], new, text)
    BY <2>1, <2>2, <2>3, TornExtends
  <2>6. files' \in [Files -> FileType] /\ Banked'
    BY <1>2, <2>1, <2>3, <2>4, <2>5, FileGrows
  <2> QED BY <1>1, <2>6, ForgetShaped
<1>3. CASE pc = "demo"
  <2>1. PICK new \in Torn(files["shard"], demo.buffer) : files' = [files EXCEPT !["shard"] = new]
    BY <1>3 DEF Die, Files
  <2>2. demo.buffer \in Texts /\ files["shard"] \in FileType /\ "shard" \in Files
    BY DEF Shaped, Files
  <2>3. Extended(files["shard"], new, demo.buffer)
    BY <2>1, <2>2, TornExtends
  <2>4. files' \in [Files -> FileType] /\ Banked'
    BY <2>1, <2>2, <2>3, FileGrows
  <2> QED BY <1>1, <2>4, ForgetShaped
<1>4. CASE pc \notin Files /\ pc # "demo"
  <2>1. files' = files
    BY <1>4 DEF Die
  <2> QED BY <1>1, <2>1, FilesKept, ForgetShaped
<1> QED BY <1>2, <1>3, <1>4

LEMMA GoldNext == GathererAssumption /\ GInv /\ [Next]_vars => GInv'
<1> SUFFICES ASSUME GathererAssumption, GInv, [Next]_vars PROVE GInv'
  OBVIOUS
<1>0. RInv' /\ Typed /\ Shaped /\ Due /\ Banked
  BY NextKeeps DEF GInv, RInv
<1> SUFFICES Shaped' /\ Banked' /\ Due'
  BY <1>0 DEF GInv
<1>1. ASSUME NEW g \in Games, Gather(g) PROVE Shaped' /\ Banked' /\ Due'
  BY <1>0, <1>1, GatherShaped
<1>2. ASSUME NEW count \in 1 .. game.plan, Begin(count) PROVE Shaped' /\ Banked' /\ Due'
  BY <1>0, <1>2, EpisodeShaped DEF Begin, Files
<1>3. ASSUME NEW full \in BOOLEAN, NEW low \in BOOLEAN, Search(full, low)
      PROVE  Shaped' /\ Banked' /\ Due'
  BY <1>0, <1>3, EpisodeShaped DEF Search, call, Files
<1>4. ASSUME NEW ends \in BOOLEAN, Move(ends) PROVE Shaped' /\ Banked' /\ Due'
  BY <1>0, <1>4, EpisodeShaped DEF Move, call, Files
<1>5. ASSUME NEW g \in Grades, Score(g) PROVE Shaped' /\ Banked' /\ Due'
  BY <1>0, <1>5, ScoreShaped
<1>6. ASSUME NEW g \in Grades, Probe(g) PROVE Shaped' /\ Banked' /\ Due'
  BY <1>0, <1>6, ProbeShaped
<1>7. ASSUME NEW f \in Files, Write(f) PROVE Shaped' /\ Banked' /\ Due'
  BY <1>0, <1>7, WriteShaped
<1>8. CASE Drop
  BY <1>0, <1>8, DropShaped
<1>9. CASE DemoEnd
  BY <1>0, <1>9, DemoEndShaped
<1>10. CASE Return
  BY <1>0, <1>10, FilesKept, ForgetShaped DEF Return
<1>11. CASE Die
  BY <1>0, <1>11, DieShaped
<1>12. ASSUME NEW kept \in BOOLEAN, DemoStep(kept) \/ DemoSkip PROVE Shaped' /\ Banked' /\ Due'
  BY <1>0, <1>12, SkipIsStep, DemoShaped
<1>13. CASE UNCHANGED vars
  BY <1>0, <1>13 DEF vars, call, Shaped, Banked, Due
<1> QED
  BY <1>1, <1>2, <1>3, <1>4, <1>5, <1>6, <1>7, <1>8, <1>9, <1>10, <1>11, <1>12, <1>13 DEF Next

LEMMA GoldStart == GathererAssumption /\ Init => GInv
<1> SUFFICES ASSUME GathererAssumption, Init PROVE GInv
  OBVIOUS
<1>1. RInv
  BY Started
<1>2. \A f \in Files : files[f] \in FileType /\ files[f].lines = <<>>
  BY DEF Init, FileType, Texts
<1>3. files \in [Files -> FileType] /\ Banked
  BY <1>2 DEF Init, Files, Banked, Shown
<1>4. demo \in [next : Nat, stepped : Nat, buffer : Texts]
  BY EmptyText DEF Init, NoDemo
<1>5. pc \notin Files /\ pc # "demo" /\ pc # "gold"
  BY DEF Init, Files
<1>6. best \in Seq(Finished) /\ failed \in Seq(Finished) /\ queue \in Seq(Finished)
  BY DEF Init
<1>7. reverse \in BOOLEAN /\ turn \in Nat /\ turn = 1
  BY DEF Init
<1>8. Shaped
  BY <1>3, <1>4, <1>5, <1>6, <1>7 DEF Shaped
<1>9. Due
  BY <1>5 DEF Due
<1> QED BY <1>1, <1>3, <1>8, <1>9 DEF GInv

--------------------------------------------------------------------------------
(* What a kill costs.                                                        *)
Clean(text) == \A j \in DOMAIN text : text[j].whole

LEMMA EmptyUnreadable == Unreadable(<<>>) = 0
<1>1. {i \in DOMAIN <<>> : ~(<<>>)[i].whole} = {}
  OBVIOUS
<1> QED BY <1>1, FS_EmptySet DEF Unreadable

LEMMA SpoiledType ==
  ASSUME NEW file \in FileType
  PROVE  Spoiled(file) \in Nat
<1>1. file.lost \in Nat /\ file.lines \in Texts /\ file.cut \in BOOLEAN
  BY DEF FileType
<1>2. Unreadable(file.lines) \in Nat
  BY <1>1, LinesUnreadable
<1> QED BY <1>1, <1>2 DEF Spoiled

(* Behind lines that stay come others, of which only the first may be bad.   *)
LEMMA OneMoreUnreadable ==
  ASSUME NEW old \in Texts, NEW new \in Texts, NEW cut \in BOOLEAN, Len(old) < Len(new),
         \A i \in 1 .. Len(old) : new[i] = old[i],
         new[Len(old) + 1].whole <=> ~cut,
         \A i \in Len(old) + 2 .. Len(new) : new[i].whole
  PROVE  Unreadable(new) = Unreadable(old) + (IF cut THEN 1 ELSE 0)
<1> DEFINE n == Len(old)
           m == Len(new)
           bad(lines) == {i \in DOMAIN lines : ~lines[i].whole}
<1>1. /\ n \in Nat /\ m \in Nat /\ n < m /\ DOMAIN old = 1 .. n /\ DOMAIN new = 1 .. m
  BY LenProperties DEF Texts
<1>2. IsFiniteSet(bad(old)) /\ Cardinality(bad(old)) \in Nat
  BY LinesUnreadable DEF Unreadable
<1> HIDE DEF n, m
<1>3. /\ \A i \in 1 .. n : new[i] = old[i]
      /\ new[n + 1].whole <=> ~cut
      /\ \A i \in n + 2 .. m : new[i].whole
  BY DEF n, m
<1>4. ASSUME NEW i \in 1 .. m, ~new[i].whole
      PROVE  i \in 1 .. n \/ i = n + 1
  BY <1>1, <1>3, <1>4
<1>5. CASE cut
  <2>1. n + 1 \in 1 .. m /\ n + 1 \notin 1 .. n /\ 1 .. n \subseteq 1 .. m
    BY <1>1
  <2>2. bad(new) = bad(old) \cup {n + 1}
    BY <1>1, <1>3, <1>4, <1>5, <2>1
  <2>3. n + 1 \notin bad(old)
    BY <1>1, <2>1
  <2>4. Cardinality(bad(new)) = Cardinality(bad(old)) + 1
    BY <1>2, <2>2, <2>3, FS_AddElement
  <2> QED BY <1>5, <2>4 DEF Unreadable
<1>6. CASE ~cut
  <2>1. 1 .. n \subseteq 1 .. m
    BY <1>1
  <2>2. bad(new) = bad(old)
    BY <1>1, <1>3, <1>4, <1>6, <2>1
  <2>3. Unreadable(new) = Unreadable(old) /\ Unreadable(old) \in Nat
    BY <1>2, <2>2 DEF Unreadable
  <2> QED BY <1>6, <2>3
<1> QED BY <1>5, <1>6

(* The first line of a text takes the blame for the cut one it goes on in.   *)
LEMMA ContinuedClean ==
  ASSUME NEW text \in Texts, text # <<>>, Clean(text), NEW cut \in BOOLEAN
  PROVE  /\ Continued(cut, text)[1].whole <=> ~cut
         /\ \A j \in 2 .. Len(text) : Continued(cut, text)[j].whole
<1>0. /\ Len(text) \in Nat \ {0} /\ DOMAIN text = 1 .. Len(text) /\ text[1] \in AnyLine
      /\ Head(text) = text[1] /\ Tail(text) \in Texts /\ Len(Tail(text)) = Len(text) - 1
      /\ \A j \in 1 .. Len(text) - 1 : Tail(text)[j] = text[j + 1]
  BY HeadTailProperties, EmptySeq, LenProperties, ElementOfSeq DEF Texts
<1>1. CASE cut = FALSE
  BY <1>0, <1>1 DEF Continued, Clean
<1>2. CASE cut = TRUE
  <2> DEFINE first == [text[1] EXCEPT !.whole = FALSE]
  <2>1. first \in AnyLine /\ ~first.whole
    BY <1>0, StrippedLine DEF AnyLine, PlainLine, BoardLine
  <2> HIDE DEF first
  <2>2. Continued(cut, text) = <<first>> \o Tail(text)
    BY <1>0, <1>2 DEF Continued, first
  <2>3. <<first>> \in Texts /\ Len(<<first>>) = 1 /\ <<first>>[1] = first
    BY <2>1 DEF Texts
  <2>4. /\ (<<first>> \o Tail(text))[1] = first
        /\ \A j \in 2 .. Len(text) : (<<first>> \o Tail(text))[j] = Tail(text)[j - 1]
    BY <1>0, <2>3, ConcatProperties DEF Texts
  <2>5. ASSUME NEW j \in 2 .. Len(text) PROVE (<<first>> \o Tail(text))[j].whole
    <3>1. Tail(text)[j - 1] = text[j] /\ text[j].whole
      BY <1>0 DEF Clean
    <3> QED BY <2>4, <3>1
  <2> QED BY <1>2, <2>1, <2>2, <2>4, <2>5
<1> QED BY <1>1, <1>2

(* Whole lines that are appended spoil nothing that was not spoiled.         *)
LEMMA AppendedSpoils ==
  ASSUME NEW file \in FileType, NEW text \in Texts, Clean(text)
  PROVE  Spoiled(Appended(file, text)) = Spoiled(file)
<1>0. /\ file.lines \in Texts /\ Len(file.lines) \in Nat /\ file.cut \in BOOLEAN
      /\ file.lost \in Nat /\ Len(text) \in Nat
  BY LenProperties DEF FileType, Texts
<1>1. CASE text = <<>>
  BY <1>1 DEF Appended
<1>2. CASE text # <<>>
  <2> DEFINE more == Continued(file.cut, text)
             old == file.lines
             lines == old \o more
             cost == IF file.cut THEN 1 ELSE 0
  <2>1. /\ more \in Texts /\ Len(more) = Len(text) /\ Len(text) # 0
        /\ more[1].whole <=> ~file.cut
        /\ \A j \in 2 .. Len(text) : more[j].whole
    BY <1>0, <1>2, ContinuedAlike, ContinuedClean, EmptySeq DEF Texts
  <2>2. Appended(file, text) = [file EXCEPT !.lines = lines, !.cut = FALSE]
    BY <1>2 DEF Appended
  <2> HIDE DEF more
  <2>3. /\ lines \in Texts /\ Len(lines) = Len(old) + Len(text)
        /\ \A i \in 1 .. Len(old) + Len(text) :
             lines[i] = IF i <= Len(old) THEN old[i] ELSE more[i - Len(old)]
    <3>1. old \in Seq(AnyLine) /\ more \in Seq(AnyLine) /\ Len(old) \in Nat
      BY <1>0, <2>1 DEF Texts
    <3>2. Len(more) = Len(text)
      BY <2>1
    <3> HIDE DEF old
    <3>3. /\ old \o more \in Seq(AnyLine)
          /\ Len(old \o more) = Len(old) + Len(more)
          /\ \A i \in 1 .. Len(old) + Len(more) :
               (old \o more)[i] = IF i <= Len(old) THEN old[i] ELSE more[i - Len(old)]
      BY <3>1, ConcatProperties
    <3> QED BY <3>2, <3>3 DEF Texts
  <2> HIDE DEF lines
  <2>4. /\ Len(old) < Len(lines)
        /\ \A i \in 1 .. Len(old) : lines[i] = old[i]
        /\ lines[Len(old) + 1] = more[1]
        /\ \A i \in Len(old) + 2 .. Len(lines) : lines[i] = more[i - Len(old)]
    <3> DEFINE n == Len(old)
               m == Len(text)
    <3>1. n \in Nat /\ m \in Nat /\ m # 0 /\ Len(lines) = n + m
      BY <1>0, <2>1, <2>3
    <3>2. \A i \in 1 .. n + m : lines[i] = IF i <= n THEN old[i] ELSE more[i - n]
      BY <2>3
    <3> HIDE DEF n, m
    <3>3. /\ \A i \in 1 .. n : lines[i] = old[i]
          /\ lines[n + 1] = more[1]
          /\ \A i \in n + 2 .. n + m : lines[i] = more[i - n]
      <4>1. n + 1 \in 1 .. n + m /\ ~(n + 1 <= n) /\ n + 1 - n = 1
        BY <3>1
      <4> QED BY <3>1, <3>2, <4>1
    <3> QED BY <3>1, <3>3 DEF n, m
  <2>5. \A i \in Len(old) + 2 .. Len(lines) : lines[i].whole
    <3> TAKE i \in Len(old) + 2 .. Len(lines)
    <3>1. i - Len(old) \in 2 .. Len(text)
      BY <1>0, <2>3
    <3> QED BY <2>1, <2>4, <3>1
  <2>6. Unreadable(lines) = Unreadable(old) + cost
    BY <1>0, <2>1, <2>3, <2>4, <2>5, OneMoreUnreadable
  <2>7. Spoiled(Appended(file, text)) = file.lost + Unreadable(lines) + 0
    BY <2>2 DEF Spoiled, FileType
  <2>8. Spoiled(file) = file.lost + Unreadable(old) + cost
    BY DEF Spoiled
  <2>9. Unreadable(old) \in Nat /\ Unreadable(lines) \in Nat
    BY <1>0, <2>3, LinesUnreadable
  <2> HIDE DEF old
  <2> QED BY <1>0, <2>6, <2>7, <2>8, <2>9
<1> QED BY <1>1, <1>2

(* What a kill leaves of a text has one bad line more at the most.           *)
LEMMA TornSpoils ==
  ASSUME NEW file \in FileType, NEW text \in Texts, Clean(text), NEW t \in Torn(file, text)
  PROVE  t \in FileType /\ Spoiled(t) <= Spoiled(file) + 1
<1>1. PICK n \in 0 .. Len(text) :
        \/ t = Appended(file, SubSeq(text, 1, n))
        \/ t = [Appended(file, SubSeq(text, 1, n)) EXCEPT !.cut = TRUE]
  BY DEF Torn
<1> DEFINE part == SubSeq(text, 1, n)
           new == Appended(file, part)
<1>2. /\ part \in Texts /\ Len(part) = n /\ Len(text) \in Nat
      /\ \A j \in 1 .. n : part[j] = text[j]
  BY LenProperties, SubSeqProperties DEF Texts
<1>3. Clean(part)
  <2>1. DOMAIN part = 1 .. n /\ DOMAIN text = 1 .. Len(text)
    BY <1>2, LenProperties DEF Texts
  <2> QED BY <1>2, <2>1 DEF Clean
<1> HIDE DEF part
<1>4. Spoiled(new) = Spoiled(file) /\ new \in FileType
  BY <1>2, <1>3, AppendedSpoils, AppendedExtends DEF Extended
<1>5. t = new \/ t = [new EXCEPT !.cut = TRUE]
  BY <1>1 DEF part
<1> HIDE DEF new
<1>6. t \in FileType /\ t.lost = new.lost /\ t.lines = new.lines
  BY <1>4, <1>5 DEF FileType
<1>7. new.lost \in Nat /\ Unreadable(new.lines) \in Nat /\ new.cut \in BOOLEAN /\ t.cut \in BOOLEAN
  BY <1>4, <1>6, LinesUnreadable DEF FileType
<1>8. Spoiled(t) <= Spoiled(new) + 1
  BY <1>6, <1>7 DEF Spoiled
<1> QED BY <1>4, <1>6, <1>8

Cheap == deaths \in Nat /\ Clean(demo.buffer) /\ SpoiledByDeaths

LEMMA TextClean ==
  ASSUME NEW o \in Finished, NEW f \in Files
  PROVE  Clean(Text(f, o))
<1>0. \A step : Line(o, step).whole
  BY DEF Line
<1>1. CASE f = "log"
  BY <1>0, <1>1 DEF Text, LogText, Clean
<1>2. CASE f = "traj"
  BY <1>0, <1>2 DEF Text, TrajectoryText, Clean
<1>3. Clean(Records(o)) /\ Clean(<<>>)
  BY <1>0 DEF Records, Clean
<1>4. CASE f = "shard"
  BY <1>3, <1>4 DEF Text, RecordText
<1>5. CASE f = "gold"
  BY <1>3, <1>5 DEF Text, GoldText
<1> QED BY <1>1, <1>2, <1>4, <1>5 DEF Files

(* One file is written: what it costs is counted.                            *)
LEMMA FileSpoils ==
  ASSUME Shaped, Cheap, NEW f \in Files, NEW new \in FileType, NEW d \in {0, 1},
         Spoiled(new) <= Spoiled(files[f]) + d,
         files' = [files EXCEPT ![f] = new], deaths' = deaths + d, Clean(demo.buffer)'
  PROVE  Cheap'
<1>1. /\ files'[f] = new /\ \A h \in Files : h # f => files'[h] = files[h]
      /\ \A h \in Files : files[h] \in FileType
      /\ \A h \in Files : Spoiled(files[h]) \in Nat
  BY SpoiledType DEF Shaped
<1>2. {"log", "traj", "shard", "gold"} = Files
  BY DEF Files
<1>3. deaths \in Nat /\ Spoiled(new) \in Nat
  BY SpoiledType DEF Cheap
<1>4. Spoiled(files["log"]) + Spoiled(files["traj"]) + Spoiled(files["shard"])
        + Spoiled(files["gold"]) <= deaths
  BY DEF Cheap, SpoiledByDeaths
<1>5. Spoiled(files'["log"]) + Spoiled(files'["traj"]) + Spoiled(files'["shard"])
        + Spoiled(files'["gold"]) <= deaths + d
  BY <1>1, <1>2, <1>3, <1>4
<1> QED BY <1>3, <1>5 DEF Cheap, SpoiledByDeaths

LEMMA CheapKept ==
  ASSUME Cheap, files' = files, deaths' = deaths, demo' = demo \/ demo' = NoDemo
  PROVE  Cheap'
<1>1. Clean(demo.buffer)'
  BY DEF Cheap, Clean, NoDemo
<1> QED BY <1>1 DEF Cheap, SpoiledByDeaths

LEMMA GatherCheap ==
  ASSUME Shaped, Cheap, NEW g \in Games, Gather(g)
  PROVE  Cheap'
<1>1. ASSUME NEW f \in Files PROVE Spoiled(files'[f]) = Spoiled(files[f])
  <2>1. /\ files[f] \in FileType /\ files[f].lines \in Texts /\ files[f].lost \in Nat
        /\ files[f].cut \in BOOLEAN
    BY DEF Shaped, FileType
  <2>2. files'[f] = [files[f] EXCEPT !.lines = <<>>, !.lost = @ + Unreadable(files[f].lines)]
    BY DEF Gather
  <2>3. Unreadable(files[f].lines) \in Nat
    BY <2>1, LinesUnreadable
  <2>4. /\ files'[f].lines = <<>> /\ files'[f].lost = files[f].lost + Unreadable(files[f].lines)
        /\ files'[f].cut = files[f].cut
    BY <2>1, <2>2 DEF FileType
  <2> QED BY <2>1, <2>3, <2>4, EmptyUnreadable DEF Spoiled
<1>2. deaths' = deaths /\ demo' = demo
  BY DEF Gather
<1>3. {"log", "traj", "shard", "gold"} = Files
  BY DEF Files
<1> QED BY <1>1, <1>2, <1>3 DEF Cheap, SpoiledByDeaths, Clean

LEMMA WriteCheap ==
  ASSUME Shaped, Cheap, NEW f \in Files, Write(f)
  PROVE  Cheap'
<1> DEFINE o == queue[turn]
           text == Text(f, o)
           new == Appended(files[f], text)
<1>1. /\ pc = f /\ files' = [files EXCEPT ![f] = new] /\ demo' = demo /\ deaths' = deaths
  BY DEF Write
<1>2. o \in Finished /\ files[f] \in FileType
  BY <1>1, ElementOfSeq, LenProperties DEF Shaped
<1>3. text \in Texts /\ Clean(text)
  BY <1>2, TextType, TextClean
<1>4. new \in FileType /\ Spoiled(new) = Spoiled(files[f])
  BY <1>2, <1>3, AppendedExtends, AppendedSpoils DEF Extended
<1> HIDE DEF new
<1>5. Spoiled(new) <= Spoiled(files[f]) + 0 /\ deaths' = deaths + 0
  BY <1>1, <1>2, <1>4, SpoiledType DEF Cheap
<1>6. Clean(demo.buffer)'
  BY <1>1 DEF Cheap, Clean
<1> QED BY <1>1, <1>4, <1>5, <1>6, FileSpoils

LEMMA DemoCheap ==
  ASSUME Shaped, Cheap, NEW kept \in BOOLEAN, DemoStep(kept)
  PROVE  Cheap'
<1>1. /\ files' = files /\ deaths' = deaths
      /\ demo'.buffer = IF kept THEN Append(demo.buffer, DemoLine) ELSE demo.buffer
  BY DEF DemoStep
<1>2. DemoLine.whole
  BY DEF DemoLine
<1>3. demo.buffer \in Seq(AnyLine) /\ Clean(demo.buffer)
  BY DEF Shaped, Texts, Cheap
<1>4. Clean(demo'.buffer)
  BY <1>1, <1>2, <1>3, AppendProperties DEF Clean
<1> QED BY <1>1, <1>4 DEF Cheap, SpoiledByDeaths, Clean

LEMMA DemoEndCheap ==
  ASSUME Shaped, Cheap, DemoEnd
  PROVE  Cheap'
<1> DEFINE new == Appended(files["shard"], demo.buffer)
<1>1. demo' = demo /\ deaths' = deaths /\ files' = [files EXCEPT !["shard"] = new]
  BY DEF DemoEnd
<1>2. /\ demo.buffer \in Texts /\ Clean(demo.buffer) /\ files["shard"] \in FileType
      /\ "shard" \in Files
  BY DEF Shaped, Files, Cheap
<1>3. new \in FileType /\ Spoiled(new) = Spoiled(files["shard"])
  BY <1>2, AppendedExtends, AppendedSpoils DEF Extended
<1> HIDE DEF new
<1>4. Spoiled(new) <= Spoiled(files["shard"]) + 0 /\ deaths' = deaths + 0
  BY <1>1, <1>2, <1>3, SpoiledType DEF Cheap
<1>5. Clean(demo.buffer)'
  BY <1>1, <1>2 DEF Clean
<1> QED BY <1>1, <1>2, <1>3, <1>4, <1>5, FileSpoils

LEMMA DieCheap ==
  ASSUME Shaped, Cheap, Die
  PROVE  Cheap'
<1>1. deaths' = deaths + 1 /\ demo' = NoDemo /\ Clean(demo.buffer)'
  BY DEF Die, Forget, NoDemo, Clean
<1>2. CASE pc \in Files
  <2> DEFINE text == Text(pc, queue[turn])
  <2>1. PICK new \in Torn(files[pc], text) : files' = [files EXCEPT ![pc] = new]
    BY <1>2 DEF Die, Files
  <2>2. queue[turn] \in Finished /\ files[pc] \in FileType
    BY <1>2, ElementOfSeq, LenProperties DEF Shaped
  <2>3. text \in Texts /\ Clean(text)
    BY <1>2, <2>2, TextType, TextClean
  <2> HIDE DEF text
  <2>4. new \in FileType /\ Spoiled(new) <= Spoiled(files[pc]) + 1
    BY <2>1, <2>2, <2>3, TornSpoils
  <2> QED BY <1>1, <1>2, <2>1, <2>4, FileSpoils
<1>3. CASE pc = "demo"
  <2>1. PICK new \in Torn(files["shard"], demo.buffer) : files' = [files EXCEPT !["shard"] = new]
    BY <1>3 DEF Die, Files
  <2>2. /\ demo.buffer \in Texts /\ files["shard"] \in FileType /\ "shard" \in Files
        /\ Clean(demo.buffer)
    BY DEF Shaped, Files, Cheap
  <2>3. new \in FileType /\ Spoiled(new) <= Spoiled(files["shard"]) + 1
    BY <2>1, <2>2, TornSpoils
  <2> QED BY <1>1, <2>1, <2>2, <2>3, FileSpoils
<1>4. CASE pc \notin Files /\ pc # "demo"
  <2>1. files' = files
    BY <1>4 DEF Die
  <2>2. deaths \in Nat /\ \A f \in Files : Spoiled(files[f]) \in Nat
    BY SpoiledType DEF Shaped, Cheap
  <2>3. {"log", "traj", "shard", "gold"} = Files
    BY DEF Files
  <2> QED BY <1>1, <2>1, <2>2, <2>3 DEF Cheap, SpoiledByDeaths
<1> QED BY <1>2, <1>3, <1>4

LEMMA CheapNext == GathererAssumption /\ GInv /\ Cheap /\ [Next]_vars => Cheap'
<1> SUFFICES ASSUME GathererAssumption, GInv, Cheap, [Next]_vars PROVE Cheap'
  OBVIOUS
<1>0. Shaped
  BY DEF GInv
<1>1. ASSUME NEW g \in Games, Gather(g) PROVE Cheap'
  BY <1>0, <1>1, GatherCheap
<1>2. ASSUME NEW count \in 1 .. game.plan, Begin(count) PROVE Cheap'
  BY <1>2, CheapKept DEF Begin
<1>3. ASSUME NEW full \in BOOLEAN, NEW low \in BOOLEAN, Search(full, low) PROVE Cheap'
  BY <1>3, CheapKept DEF Search
<1>4. ASSUME NEW ends \in BOOLEAN, Move(ends) PROVE Cheap'
  BY <1>4, CheapKept DEF Move
<1>5. ASSUME NEW g \in Grades, Score(g) PROVE Cheap'
  BY <1>5, CheapKept DEF Score
<1>6. ASSUME NEW g \in Grades, Probe(g) PROVE Cheap'
  BY <1>6, CheapKept DEF Probe
<1>7. ASSUME NEW f \in Files, Write(f) PROVE Cheap'
  BY <1>0, <1>7, WriteCheap
<1>8. CASE Drop
  BY <1>8, CheapKept DEF Drop
<1>9. CASE DemoEnd
  BY <1>0, <1>9, DemoEndCheap
<1>10. CASE Return
  BY <1>10, CheapKept DEF Return, Forget
<1>11. CASE Die
  BY <1>0, <1>11, DieCheap
<1>12. ASSUME NEW kept \in BOOLEAN, DemoStep(kept) \/ DemoSkip PROVE Cheap'
  BY <1>0, <1>12, SkipIsStep, DemoCheap
<1>13. CASE UNCHANGED vars
  BY <1>13, CheapKept DEF vars
<1> QED
  BY <1>1, <1>2, <1>3, <1>4, <1>5, <1>6, <1>7, <1>8, <1>9, <1>10, <1>11, <1>12, <1>13 DEF Next

LEMMA CheapStart == Init => Cheap
<1> SUFFICES ASSUME Init PROVE Cheap
  OBVIOUS
<1>1. deaths = 0 /\ Clean(demo.buffer)
  BY DEF Init, NoDemo, Clean
<1>2. \A f \in {"log", "traj", "shard", "gold"} :
        files[f] = [lines |-> <<>>, lost |-> 0, cut |-> FALSE]
  BY DEF Init, Files
<1>3. \A f \in {"log", "traj", "shard", "gold"} : Spoiled(files[f]) = 0
  BY <1>2, EmptyUnreadable DEF Spoiled
<1> QED BY <1>1, <1>3 DEF Cheap, SpoiledByDeaths

(* Every kill spoils at most one line of one file, however many calls there  *)
(* are before and after it (write_episode, write_demo_episode).              *)
THEOREM SpoiledCorrect == Spec => []SpoiledByDeaths
<1>1. Init => Cheap
  BY CheapStart
<1>2. Init => GInv
  BY GoldStart, GathererAssumption
<1>3. GInv /\ Cheap /\ [Next]_vars => GInv' /\ Cheap'
  BY GoldNext, CheapNext, GathererAssumption
<1>4. Cheap => SpoiledByDeaths
  BY DEF Cheap
<1> QED BY <1>1, <1>2, <1>3, <1>4, PTL DEF Spec

(* The records that only the bank holds whole are in lines of the shard that *)
(* cannot be read.                                                           *)
LEMMA GoldCheap ==
  ASSUME Shaped, Banked, Cheap
  PROVE  Cardinality(OnlyInGold) <= deaths
<1> DEFINE gold == files["gold"].lines
           shard == files["shard"].lines
           bad == {i \in DOMAIN shard : ~shard[i].whole}
           records == {<<shard[i].id, shard[i].step>> : i \in bad}
<1>1. /\ \A f \in {"log", "traj", "shard", "gold"} : files[f] \in FileType
      /\ gold \in Texts /\ shard \in Texts
  BY DEF Shaped, Files, FileType
<1>2. IsFiniteSet(bad)
  <2>1. DOMAIN shard = 1 .. Len(shard) /\ Len(shard) \in Nat
    BY <1>1, LenProperties DEF Texts
  <2>2. IsFiniteSet(1 .. Len(shard)) /\ bad \in SUBSET (1 .. Len(shard))
    <3>1. \A n \in Nat : IsFiniteSet(1 .. n)
      BY FS_Interval
    <3> QED BY <2>1, <3>1
  <2> QED BY <2>2, FS_Subset
<1>3. OnlyInGold \subseteq records
  <2> SUFFICES ASSUME NEW l \in ToSet(gold),
                      \A m \in ToSet(shard) : SameRecord(l, m) => ~m.whole
               PROVE  <<l.id, l.step>> \in records
    BY DEF OnlyInGold
  <2>1. PICK j \in DOMAIN gold : l = gold[j]
    BY DEF ToSet
  <2>2. PICK i \in DOMAIN shard : SameRecord(gold[j], shard[i])
    BY DEF Banked, Shown
  <2>3. shard[i] \in ToSet(shard)
    BY DEF ToSet
  <2>4. i \in bad
    BY <2>1, <2>2, <2>3
  <2>5. l.id = shard[i].id /\ l.step = shard[i].step
    BY <2>1, <2>2 DEF SameRecord
  <2> QED BY <2>4, <2>5
<1>4. IsFiniteSet(records) /\ Cardinality(records) <= Cardinality(bad)
  <2> DEFINE pick == [i \in bad |-> <<shard[i].id, shard[i].step>>]
  <2>1. pick \in Surjection(bad, records)
    BY DEF Surjection
  <2> HIDE DEF pick, bad, records
  <2> QED BY <1>2, <2>1, FS_Surjection
<1>5. Cardinality(bad) <= Spoiled(files["shard"])
  <2>1. Cardinality(bad) = Unreadable(shard)
    BY DEF Unreadable
  <2>2. Unreadable(shard) \in Nat /\ files["shard"].lost \in Nat
    BY <1>1, LinesUnreadable DEF FileType
  <2> QED BY <2>1, <2>2 DEF Spoiled
<1>6. Spoiled(files["shard"]) <= deaths
  <2>1. /\ Spoiled(files["log"]) \in Nat /\ Spoiled(files["traj"]) \in Nat
        /\ Spoiled(files["shard"]) \in Nat /\ Spoiled(files["gold"]) \in Nat
    BY <1>1, SpoiledType
  <2>2. SpoiledByDeaths
    BY DEF Cheap
  <2> QED BY <2>1, <2>2 DEF SpoiledByDeaths, Cheap
<1>7. IsFiniteSet(OnlyInGold) /\ Cardinality(OnlyInGold) <= Cardinality(records)
  <2> HIDE DEF records
  <2> QED BY <1>3, <1>4, FS_Subset
<1>8. /\ Cardinality(OnlyInGold) \in Nat /\ Cardinality(records) \in Nat
      /\ Cardinality(bad) \in Nat /\ Spoiled(files["shard"]) \in Nat /\ deaths \in Int
  <2>1. Spoiled(files["shard"]) \in Nat
    BY <1>1, SpoiledType
  <2>2. deaths \in Int
    BY DEF Cheap
  <2> HIDE DEF records, bad
  <2> QED BY <1>2, <1>4, <1>7, <2>1, <2>2, FS_CardinalityType
<1> HIDE DEF records, bad
<1> QED BY <1>4, <1>5, <1>6, <1>7, <1>8

(* Whenever the worker is killed, the record of every gold line was written  *)
(* to the shard, of an episode that was played from the start to the end;    *)
(* and of these records no more than there were kills cannot be read in the  *)
(* shard, for any number of calls (write_episode).                           *)
THEOREM GoldCorrect == Spec => []GoldAlsoInShard
<1>1. Init => GInv /\ Cheap
  BY GoldStart, CheapStart, GathererAssumption
<1>2. GInv /\ Cheap /\ [Next]_vars => GInv' /\ Cheap'
  BY GoldNext, CheapNext, GathererAssumption
<1>3. ASSUME GInv, Cheap PROVE GoldAlsoInShard
  <2>1. Cardinality(OnlyInGold) <= deaths
    BY <1>3, GoldCheap DEF GInv
  <2>2. \A l \in ToSet(files["gold"].lines) :
          /\ l.kind = "done" /\ ~l.reverse
          /\ \E m \in ToSet(files["shard"].lines) : SameRecord(l, m)
    BY <1>3 DEF GInv, Banked, Shown, ToSet
  <2> QED BY <2>1, <2>2 DEF GoldAlsoInShard
<1> QED BY <1>1, <1>2, <1>3, PTL DEF Spec

--------------------------------------------------------------------------------
(* Demonstrations.                                                           *)
Has(lines, kind) == \E i \in DOMAIN lines : lines[i].kind = kind

(* The environment is in the state of the next action; what was recorded is  *)
(* on the plan.                                                              *)
Planned ==
  /\ demo.stepped + 1 = demo.next
  /\ \A i \in DOMAIN demo.buffer : demo.buffer[i].kind = "demo" /\ OnPlan(demo.buffer[i])
  /\ \A i \in DOMAIN files["shard"].lines : OnPlan(files["shard"].lines[i])

(* A call has one episode unless it climbs, and gives its demonstration when *)
(* that was written and failed.                                              *)
Sole ==
  /\ pc \in {"begin", "search", "move", "score"} => files["shard"].lines = <<>>
  /\ pc \in Files \cup {"demo"} =>
       /\ ~Has(files["shard"].lines, "demo")
       /\ ~reverse => /\ Len(queue) = 1
                      /\ Has(files["shard"].lines, "done") => queue[1].done
  /\ pc = "demo" => ~reverse /\ ~queue[1].done
  /\ ~(Has(files["shard"].lines, "demo") /\ Has(files["shard"].lines, "done"))

Shows == Planned /\ Sole

LEMMA ShowsEnough == Shaped /\ Shows => DemoOnThePlan
  BY DEF Shows, Planned, Sole, Has, OnPlan, DemoOnThePlan, ToSet

LEMMA TextKind ==
  ASSUME NEW o \in Finished, NEW f \in Files, NEW j \in DOMAIN Text(f, o)
  PROVE  /\ Text(f, o)[j].kind = o.kind /\ o.kind # "demo" /\ OnPlan(Text(f, o)[j])
         /\ o.done <=> o.kind = "done"
<1>0. /\ \A step : Line(o, step).kind = o.kind
      /\ o.kind # "demo" /\ (o.done <=> o.kind = "done")
  BY DEF Line, Finished, OutcomeType, EndKinds
<1>1. CASE f = "log"
  BY <1>0, <1>1 DEF Text, LogText, OnPlan
<1>2. CASE f = "traj"
  BY <1>0, <1>2 DEF Text, TrajectoryText, OnPlan
<1>3. \A i \in DOMAIN Records(o) : Records(o)[i].kind = o.kind
  BY <1>0 DEF Records
<1>4. CASE f = "shard"
  BY <1>0, <1>3, <1>4 DEF Text, RecordText, OnPlan
<1>5. CASE f = "gold"
  BY <1>0, <1>3, <1>5 DEF Text, GoldText, OnPlan
<1> QED BY <1>1, <1>2, <1>4, <1>5 DEF Files

(* The kinds of lines of a file that grows, and whether they are on a plan.  *)
LEMMA KindsGrow ==
  ASSUME NEW old \in FileType, NEW new, NEW text \in Texts, Extended(old, new, text)
  PROVE  /\ \A k : Has(new.lines, k) => Has(old.lines, k) \/ Has(text, k)
         /\ (\A i \in DOMAIN old.lines : OnPlan(old.lines[i]))
              /\ (\A j \in DOMAIN text : OnPlan(text[j]))
            => \A i \in DOMAIN new.lines : OnPlan(new.lines[i])
<1>1. /\ DOMAIN old.lines = 1 .. Len(old.lines) /\ DOMAIN new.lines = 1 .. Len(new.lines)
      /\ DOMAIN text = 1 .. Len(text) /\ Len(old.lines) \in Nat /\ Len(new.lines) \in Nat
  BY LenProperties DEF Extended, FileType, Texts
<1>2. ASSUME NEW i \in DOMAIN new.lines
      PROVE  \/ i \in DOMAIN old.lines /\ new.lines[i] = old.lines[i]
             \/ \E j \in DOMAIN text : /\ new.lines[i].kind = text[j].kind
                                       /\ OnPlan(text[j]) => OnPlan(new.lines[i])
  <2>1. CASE i <= Len(old.lines)
    <3>1. i \in 1 .. Len(old.lines)
      BY <1>1, <2>1
    <3> QED BY <1>1, <3>1 DEF Extended
  <2>2. CASE i > Len(old.lines)
    <3>1. i \in Len(old.lines) + 1 .. Len(new.lines)
      BY <1>1, <2>2
    <3>2. PICK j \in 1 .. Len(text) : Alike(new.lines[i], text[j])
      BY <3>1 DEF Extended
    <3> QED BY <1>1, <3>2 DEF Alike, SameRecord
  <2> QED BY <1>1, <2>1, <2>2
<1> QED BY <1>2 DEF Has

(* A file other than the shard is written, or none.                          *)
LEMMA ShardKept ==
  ASSUME Shows, files'["shard"] = files["shard"], demo' = demo \/ demo' = NoDemo,
         \/ pc' \in {"idle", "returned"}
         \/ /\ pc' \in Files \cup {"demo"} /\ pc \in Files \cup {"demo"}
            /\ reverse' = reverse /\ queue' = queue
            /\ pc' = "demo" => ~reverse /\ ~queue[1].done
  PROVE  Shows'
<1>1. Planned'
  BY DEF Shows, Planned, NoDemo
<1>2. Sole'
  <2>1. CASE pc' \in {"idle", "returned"}
    BY <2>1 DEF Shows, Sole, Files
  <2>2. CASE pc' \notin {"idle", "returned"}
    BY <2>2 DEF Shows, Sole, Files
  <2> QED BY <2>1, <2>2
<1> QED BY <1>1, <1>2 DEF Shows

(* The end of an episode leads to its demonstration, or to the next one.     *)
LEMMA EndShows ==
  ASSUME EndEpisode
  PROVE  /\ pc' \in {"log", "returned", "demo"}
         /\ pc' = "demo" => ~reverse /\ ~queue[1].done
  BY DEF EndEpisode, DemoDue

LEMMA WhereNext ==
  ASSUME NEW f \in Files, Write(f)
  PROVE  /\ pc' \in Files \cup {"returned", "demo"}
         /\ pc' = "demo" => ~reverse /\ ~queue[1].done
<1>1. CASE Following(f) = "end"
  BY <1>1, EndShows DEF Write, Files
<1>2. CASE Following(f) # "end"
  BY <1>2 DEF Write, Following, Files
<1> QED BY <1>1, <1>2

(* The records of an episode, or some of them, come into the shard.          *)
LEMMA ShardGrows ==
  ASSUME Shaped, Shows, pc = "shard", NEW new, files'["shard"] = new,
         Extended(files["shard"], new, Text("shard", queue[turn])),
         demo' = demo \/ demo' = NoDemo,
         \/ pc' \in {"idle", "returned"}
         \/ /\ pc' \in Files \cup {"demo"}
            /\ reverse' = reverse /\ queue' = queue
            /\ pc' = "demo" => ~reverse /\ ~queue[1].done
  PROVE  Shows'
<1> DEFINE o == queue[turn]
           text == Text("shard", o)
           old == files["shard"]
<1>1. "shard" \in Files /\ turn \in 1 .. Len(queue) /\ Len(queue) \in Nat /\ old \in FileType
  BY LenProperties DEF Shaped, Files
<1>2. o \in Finished /\ text \in Texts
  BY <1>1, ElementOfSeq, TextType DEF Shaped
<1>3. \A j \in DOMAIN text : OnPlan(text[j])
  BY <1>1, <1>2, TextKind
<1>4. ~Has(text, "demo") /\ (Has(text, "done") => o.done)
  BY <1>1, <1>2, TextKind DEF Has
<1> HIDE DEF text
<1>5. Extended(old, new, text)
  BY DEF text
<1>6. /\ \A k : Has(new.lines, k) => Has(old.lines, k) \/ Has(text, k)
      /\ (\A i \in DOMAIN old.lines : OnPlan(old.lines[i]))
         => \A i \in DOMAIN new.lines : OnPlan(new.lines[i])
  BY <1>1, <1>2, <1>3, <1>5, KindsGrow
<1>7. Planned'
  BY <1>6 DEF Shows, Planned, NoDemo
<1>8. ~Has(new.lines, "demo")
  BY <1>1, <1>4, <1>6 DEF Shows, Sole
<1>9. ~reverse => Len(queue) = 1 /\ (Has(new.lines, "done") => queue[1].done)
  <2> HAVE ~reverse
  <2>1. Len(queue) = 1 /\ (Has(old.lines, "done") => queue[1].done)
    BY <1>1 DEF Shows, Sole
  <2>2. turn = 1
    BY <1>1, <2>1
  <2> QED BY <1>4, <1>6, <2>1, <2>2
<1>10. Sole'
  <2>1. CASE pc' \in {"idle", "returned"}
    BY <1>8, <2>1 DEF Sole, Files
  <2>2. CASE pc' \notin {"idle", "returned"}
    BY <1>8, <1>9, <2>2 DEF Sole, Files
  <2> QED BY <2>1, <2>2
<1> QED BY <1>7, <1>10 DEF Shows

(* Lines of the demonstration come into the shard.                           *)
LEMMA DemoGrows ==
  ASSUME Shaped, Shows, pc = "demo", pc' \in {"idle", "returned"}, NEW new,
         files'["shard"] = new, Extended(files["shard"], new, demo.buffer),
         demo' = demo \/ demo' = NoDemo
  PROVE  Shows'
<1> DEFINE old == files["shard"]
           text == demo.buffer
<1>1. old \in FileType /\ text \in Texts
  BY DEF Shaped, Files
<1>2. \A j \in DOMAIN text : text[j].kind = "demo" /\ OnPlan(text[j])
  BY DEF Shows, Planned
<1>3. ~Has(text, "done")
  BY <1>2 DEF Has
<1> HIDE DEF text
<1>4. Extended(old, new, text)
  BY DEF text
<1>5. /\ \A k : Has(new.lines, k) => Has(old.lines, k) \/ Has(text, k)
      /\ (\A i \in DOMAIN old.lines : OnPlan(old.lines[i]))
         => \A i \in DOMAIN new.lines : OnPlan(new.lines[i])
  BY <1>1, <1>2, <1>4, KindsGrow
<1>6. Planned'
  BY <1>5 DEF Shows, Planned, NoDemo
<1>7. ~Has(new.lines, "done")
  BY <1>3, <1>5 DEF Shows, Sole
<1>8. Sole'
  BY <1>7 DEF Sole, Files
<1> QED BY <1>6, <1>8 DEF Shows

LEMMA GatherShows ==
  ASSUME Shaped, Shows, NEW g \in Games, Gather(g)
  PROVE  Shows'
<1>1. files'["shard"].lines = <<>> /\ demo' = demo /\ pc' = "begin"
  <2>1. "shard" \in Files
    BY DEF Files
  <2>2. files'["shard"] = [files["shard"] EXCEPT !.lines = <<>>,
                             !.lost = @ + Unreadable(files["shard"].lines)]
    BY <2>1 DEF Gather
  <2>3. files["shard"] \in FileType
    BY <2>1 DEF Shaped
  <2> QED BY <2>2, <2>3 DEF Gather, FileType
<1>2. \A k : ~Has(<<>>, k)
  BY DEF Has
<1> QED BY <1>1, <1>2 DEF Shows, Planned, Sole, Files

LEMMA EpisodeShows ==
  ASSUME Shows, pc \in {"begin", "search", "move", "score"}, files' = files, demo' = demo,
         \/ pc' \in {"begin", "search", "move", "score"}
         \/ pc' = "log" /\ (~reverse' => Len(queue') = 1)
  PROVE  Shows'
<1>1. files["shard"].lines = <<>> /\ \A k : ~Has(<<>>, k)
  BY DEF Has, Shows, Sole
<1>2. Planned'
  BY DEF Shows, Planned
<1>3. Sole'
  BY <1>1 DEF Sole, Files
<1> QED BY <1>2, <1>3 DEF Shows

LEMMA DemoShows ==
  ASSUME Shaped, Shows, NEW kept \in BOOLEAN, DemoStep(kept)
  PROVE  Shows'
<1> DEFINE more == Append(demo.buffer, DemoLine)
<1>1. /\ pc = "demo" /\ pc' = "demo" /\ queue' = queue /\ reverse' = reverse /\ files' = files
      /\ demo' = [next |-> demo.next + 1, stepped |-> demo.stepped + 1,
                  buffer |-> IF kept THEN more ELSE demo.buffer]
  BY DEF DemoStep, call
<1>2. demo.next \in Nat /\ demo.stepped \in Nat /\ demo.buffer \in Seq(AnyLine)
  BY DEF Shaped, Texts
<1>3. DemoLine.kind = "demo" /\ DemoLine \in BoardLine /\ DemoLine.board = DemoLine.step
  <2>1. queue[1] \in Finished
    BY <1>1, EmptySeq, ElementOfSeq, LenProperties DEF Shaped
  <2>2. queue[1].id \in Nat \X Nat
    BY <2>1 DEF Finished, OutcomeType
  <2> DEFINE id == queue[1].id
             next == demo.next
             board == demo.stepped + 1
             made == [id |-> id, step |-> next, kind |-> "demo", level |-> 0,
                      reverse |-> FALSE, whole |-> TRUE, board |-> board]
  <2>3. DemoLine = made
    BY DEF DemoLine, Even
  <2>4. id \in Nat \X Nat /\ next \in Int /\ board \in Int /\ board = next
    BY <1>2, <2>2 DEF Shows, Planned
  <2> HIDE DEF id, next, board
  <2>5. made \in BoardLine /\ made.kind = "demo" /\ made.board = made.step
    BY <2>4 DEF BoardLine, Kinds
  <2> QED BY <2>3, <2>5
<1>4. \A i \in DOMAIN more : more[i].kind = "demo" /\ OnPlan(more[i])
  <2>1. OnPlan(DemoLine)
    BY <1>3 DEF OnPlan
  <2>2. \A i \in DOMAIN more :
           \/ more[i] = DemoLine
           \/ i \in DOMAIN demo.buffer /\ more[i] = demo.buffer[i]
    <3>1. /\ DOMAIN more = 1 .. Len(demo.buffer) + 1 /\ more[Len(demo.buffer) + 1] = DemoLine
          /\ \A i \in 1 .. Len(demo.buffer) : more[i] = demo.buffer[i]
          /\ DOMAIN demo.buffer = 1 .. Len(demo.buffer) /\ Len(demo.buffer) \in Nat
      BY <1>2, AppendProperties, LenProperties
    <3> HIDE DEF more
    <3> QED BY <3>1
  <2> HIDE DEF more
  <2> QED BY <1>3, <2>1, <2>2 DEF Shows, Planned
<1> HIDE DEF more
<1>5. Planned'
  BY <1>1, <1>2, <1>4 DEF Shows, Planned
<1>6. Sole'
  BY <1>1 DEF Shows, Sole
<1> QED BY <1>5, <1>6 DEF Shows

LEMMA WriteShows ==
  ASSUME Shaped, Shows, NEW f \in Files, Write(f)
  PROVE  Shows'
<1> DEFINE text == Text(f, queue[turn])
           new == Appended(files[f], text)
<1>1. /\ pc = f /\ files' = [files EXCEPT ![f] = new] /\ demo' = demo /\ reverse' = reverse
      /\ queue' = queue
  BY DEF Write, call
<1>2. /\ pc' \in Files \cup {"returned", "demo"}
      /\ pc' = "demo" => ~reverse /\ ~queue[1].done
  BY WhereNext
<1>3. files[f] \in FileType /\ text \in Texts
  <2>1. queue[turn] \in Finished
    BY <1>1, ElementOfSeq, LenProperties DEF Shaped
  <2> QED BY <2>1, TextType DEF Shaped
<1>4. CASE f = "shard"
  <2>1. Extended(files["shard"], new, Text("shard", queue[turn]))
    BY <1>3, <1>4, AppendedExtends
  <2>2. files'["shard"] = new
    BY <1>1, <1>4 DEF Shaped
  <2> QED BY <1>1, <1>2, <1>4, <2>1, <2>2, ShardGrows
<1>5. CASE f # "shard"
  <2>1. files'["shard"] = files["shard"]
    BY <1>1, <1>5 DEF Shaped, Files
  <2> QED BY <1>1, <1>2, <2>1, ShardKept
<1> QED BY <1>4, <1>5

LEMMA DieShows ==
  ASSUME Shaped, Shows, Die
  PROVE  Shows'
<1>1. pc' = "idle" /\ demo' = NoDemo
  BY DEF Die, Forget
<1>2. CASE pc \in Files
  <2> DEFINE text == Text(pc, queue[turn])
  <2>1. PICK new \in Torn(files[pc], text) : files' = [files EXCEPT ![pc] = new]
    BY <1>2 DEF Die, Files
  <2>2. files[pc] \in FileType /\ text \in Texts
    <3>1. queue[turn] \in Finished
      BY <1>2, ElementOfSeq, LenProperties DEF Shaped
    <3> QED BY <1>2, <3>1, TextType DEF Shaped
  <2>3. CASE pc = "shard"
    <3>1. Extended(files["shard"], new, Text("shard", queue[turn]))
      BY <2>1, <2>2, <2>3, TornExtends
    <3>2. files'["shard"] = new
      BY <2>1, <2>3, <1>2 DEF Shaped
    <3> QED BY <1>1, <2>3, <3>1, <3>2, ShardGrows
  <2>4. CASE pc # "shard"
    <3>1. files'["shard"] = files["shard"]
      BY <2>1, <2>4 DEF Shaped, Files
    <3> QED BY <1>1, <3>1, ShardKept
  <2> QED BY <2>3, <2>4
<1>3. CASE pc = "demo"
  <2>1. PICK new \in Torn(files["shard"], demo.buffer) : files' = [files EXCEPT !["shard"] = new]
    BY <1>3 DEF Die, Files
  <2>2. demo.buffer \in Texts /\ files["shard"] \in FileType
    BY DEF Shaped, Files
  <2>3. Extended(files["shard"], new, demo.buffer)
    BY <2>1, <2>2, TornExtends
  <2>4. files'["shard"] = new
    BY <2>1 DEF Shaped, Files
  <2> QED BY <1>1, <1>3, <2>3, <2>4, DemoGrows
<1>4. CASE pc \notin Files /\ pc # "demo"
  <2>1. files' = files
    BY <1>4 DEF Die
  <2> QED BY <1>1, <2>1, ShardKept
<1> QED BY <1>2, <1>3, <1>4

LEMMA ShowsNext == GathererAssumption /\ GInv /\ Shows /\ [Next]_vars => Shows'
<1> SUFFICES ASSUME GathererAssumption, GInv, Shows, [Next]_vars PROVE Shows'
  OBVIOUS
<1>0. Shaped
  BY DEF GInv
<1>1. ASSUME NEW g \in Games, Gather(g) PROVE Shows'
  BY <1>0, <1>1, GatherShows
<1>2. ASSUME NEW count \in 1 .. game.plan, Begin(count) PROVE Shows'
  BY <1>2, EpisodeShows DEF Begin
<1>3. ASSUME NEW full \in BOOLEAN, NEW low \in BOOLEAN, Search(full, low) PROVE Shows'
  BY <1>3, EpisodeShows DEF Search
<1>4. ASSUME NEW ends \in BOOLEAN, Move(ends) PROVE Shows'
  BY <1>4, EpisodeShows DEF Move
<1>5. ASSUME NEW g \in Grades, Score(g) PROVE Shows'
  <2>1. /\ pc = "score" /\ pc' = "log" /\ queue' = <<Outcome(g)>>
        /\ files' = files /\ demo' = demo
    BY <1>5 DEF Score
  <2>2. Len(queue') = 1
    BY <2>1
  <2> QED BY <2>1, <2>2, EpisodeShows
<1>6. ASSUME NEW g \in Grades, Probe(g) PROVE Shows'
  <2>1. /\ pc = "score" /\ reverse' = reverse /\ reverse /\ pc' \in {"begin", "log"}
        /\ files' = files /\ demo' = demo
    BY <1>6 DEF Probe
  <2> QED BY <2>1, EpisodeShows
<1>7. ASSUME NEW f \in Files, Write(f) PROVE Shows'
  BY <1>0, <1>7, WriteShows
<1>8. CASE Drop
  <2>1. /\ pc = "shard" /\ files' = files /\ demo' = demo /\ reverse' = reverse /\ queue' = queue
        /\ EndEpisode
    BY <1>8 DEF Drop, call
  <2> QED BY <2>1, EndShows, ShardKept DEF Files
<1>9. CASE DemoEnd
  <2> DEFINE new == Appended(files["shard"], demo.buffer)
  <2>1. /\ pc = "demo" /\ pc' = "returned" /\ demo' = demo
        /\ files' = [files EXCEPT !["shard"] = new]
    BY <1>9 DEF DemoEnd
  <2>2. demo.buffer \in Texts /\ files["shard"] \in FileType
    BY <1>0 DEF Shaped, Files
  <2>3. Extended(files["shard"], new, demo.buffer)
    BY <2>2, AppendedExtends
  <2>4. files'["shard"] = new
    BY <1>0, <2>1 DEF Shaped, Files
  <2> HIDE DEF new
  <2> QED BY <1>0, <2>1, <2>3, <2>4, DemoGrows
<1>10. CASE Return
  BY <1>10, ShardKept DEF Return, Forget
<1>11. CASE Die
  BY <1>0, <1>11, DieShows
<1>12. ASSUME NEW kept \in BOOLEAN, DemoStep(kept) \/ DemoSkip PROVE Shows'
  BY <1>0, <1>12, SkipIsStep, DemoShows
<1>13. CASE UNCHANGED vars
  BY <1>13 DEF vars, call, Shows, Planned, Sole
<1> QED
  BY <1>1, <1>2, <1>3, <1>4, <1>5, <1>6, <1>7, <1>8, <1>9, <1>10, <1>11, <1>12, <1>13 DEF Next

LEMMA ShowsStart == Init => Shows
<1> SUFFICES ASSUME Init PROVE Shows
  OBVIOUS
<1>1. /\ pc = "idle" /\ files["shard"].lines = <<>> /\ demo.stepped + 1 = demo.next
      /\ demo.buffer = <<>>
  BY DEF Init, NoDemo, Files
<1>2. \A k : ~Has(<<>>, k)
  BY DEF Has
<1> QED BY <1>1, <1>2 DEF Shows, Planned, Sole, Files

(* Whatever a demonstration skips, and for plans of any length, its records  *)
(* show the states the plan's actions were chosen in, and there is none of   *)
(* an environment that was solved (write_demo_episode, gather).              *)
THEOREM DemoCorrect == Spec => []DemoOnThePlan
<1>1. Init => Shows
  BY ShowsStart
<1>2. Init => GInv
  BY GoldStart, GathererAssumption
<1>3. GInv /\ Shows /\ [Next]_vars => GInv' /\ Shows'
  BY GoldNext, ShowsNext, GathererAssumption
<1>4. GInv /\ Shows => DemoOnThePlan
  BY ShowsEnough DEF GInv
<1> QED BY <1>1, <1>2, <1>3, <1>4, PTL DEF Spec

--------------------------------------------------------------------------------
(* The corpus.                                                               *)
Playing == {"search", "move", "score"}
Writing == Files \cup {"demo", "returned"}

(* Nothing of the episode is in the shard, for the reasons the filters name. *)
Gone(o, lines) == Own(lines, o.id) = {} /\ o.level = Saturated /\ o.kind \in {"her", "floor"}

(* What is known of an episode when it was graded.                           *)
Full(o) ==
  /\ ToSet(o.data) = FullSearches(o.fulls, o.moves)
  /\ o.kind = "floor" => o.level = Saturated

(* Episodes of the call so far, and before the one that is being played.     *)
Past == IF pc \in Playing THEN probes - 1 ELSE probes
Kept(o, number, past) == Full(o) /\ o.id[1] = number /\ o.id[2] \in 1 .. past

Played ==
  pc \in Playing =>
    /\ ep.id = <<calls, probes>> /\ probes >= 1 /\ Len(ep.fulls) = Len(ep.lows)
    /\ ToSet(ep.data) = FullSearches(ep.fulls, ep.step)

Climb ==
  /\ \A i \in DOMAIN best : Kept(best[i], calls, Past)
  /\ \A i \in DOMAIN failed : Kept(failed[i], calls, Past)
  /\ Len(best) <= 1 /\ Len(failed) <= 1
  /\ \A i \in DOMAIN best, j \in DOMAIN failed : best[i].id # failed[j].id

Queued ==
  /\ \A i \in DOMAIN queue : Full(queue[i]) /\ queue[i].id[1] = calls
  /\ \A i, j \in DOMAIN queue : queue[i].id = queue[j].id => i = j

Blank ==
  /\ pc \notin Writing => queue = <<>>
  /\ pc \notin {"demo", "returned"} => demo.buffer = <<>>
  /\ pc = "idle" => best = <<>> /\ failed = <<>>

Numbered == Played /\ Climb /\ Queued /\ Blank

(* The episodes before the one in hand are in the shard, or gone; of those   *)
(* behind it nothing is there.                                               *)
Settled(i) == i < turn \/ (i = turn /\ pc = "gold")
Placed(o, lines) == Gone(o, lines) \/ InOrder(o, lines)

Written ==
  pc \in Writing =>
    /\ \A i \in DOMAIN queue :
         IF Settled(i) THEN Placed(queue[i], files["shard"].lines)
         ELSE Own(files["shard"].lines, queue[i].id) = {}
    /\ \A i \in DOMAIN files["shard"].lines :
         \E q \in DOMAIN queue : files["shard"].lines[i].id = queue[q].id
    /\ \A j \in DOMAIN demo.buffer : demo.buffer[j].id = queue[1].id
    /\ pc \in {"demo", "returned"} => turn > Len(queue)

Corpus == Numbered /\ Written

LEMMA CorpusEnough == Shaped /\ Corpus => CorpusComplete
<1> SUFFICES ASSUME Shaped, Corpus, pc = "returned" PROVE CorpusComplete
  BY DEF CorpusComplete
<1> DEFINE lines == files["shard"].lines
<1>1. pc \in Writing /\ turn > Len(queue) /\ DOMAIN queue = 1 .. Len(queue)
      /\ Len(queue) \in Nat /\ turn \in Nat
  BY LenProperties DEF Corpus, Written, Writing, Shaped
<1>2. ASSUME NEW i \in DOMAIN queue
      PROVE  Placed(queue[i], lines) /\ Full(queue[i])
  <2>1. Settled(i)
    BY <1>1 DEF Settled
  <2> QED BY <1>1, <2>1 DEF Corpus, Written, Numbered, Queued
<1>3. \A l \in ToSet(lines) : \E i \in DOMAIN queue : queue[i].id = l.id
  BY <1>1 DEF Corpus, Written, ToSet
<1>4. \A i \in DOMAIN queue :
        \/ /\ Own(lines, queue[i].id) = {}
           /\ queue[i].level = Saturated /\ queue[i].kind \in {"her", "floor"}
        \/ /\ InOrder(queue[i], lines)
           /\ ToSet(queue[i].data) = FullSearches(queue[i].fulls, queue[i].moves)
  BY <1>2 DEF Placed, Gone, Full
<1> QED BY <1>3, <1>4 DEF CorpusComplete

--------------------------------------------------------------------------------
(* The records an episode takes.                                             *)
LEMMA FullSearchesOn ==
  ASSUME NEW fulls \in Seq(BOOLEAN), NEW full \in BOOLEAN, NEW moves \in Nat, moves <= Len(fulls)
  PROVE  FullSearches(Append(fulls, full), moves) = FullSearches(fulls, moves)
<1>1. \A i \in 1 .. Len(fulls) : Append(fulls, full)[i] = fulls[i]
  BY AppendProperties
<1>2. \A s \in 0 .. moves - 1 : s + 1 \in 1 .. Len(fulls)
  BY LenProperties
<1> QED BY <1>1, <1>2 DEF FullSearches

LEMMA FullSearchesMove ==
  ASSUME NEW fulls \in Seq(BOOLEAN), NEW moves \in Nat, Len(fulls) = moves + 1
  PROVE  FullSearches(fulls, moves + 1)
           = FullSearches(fulls, moves) \cup (IF Last(fulls) THEN {moves} ELSE {})
<1>1. Last(fulls) = fulls[moves + 1]
  BY DEF Last
<1>2. 0 .. moves + 1 - 1 = (0 .. moves - 1) \cup {moves}
  OBVIOUS
<1> QED BY <1>1, <1>2 DEF FullSearches

LEMMA AppendedSet ==
  ASSUME NEW data \in Seq(Nat), NEW step \in Nat
  PROVE  ToSet(Append(data, step)) = ToSet(data) \cup {step}
<1> DEFINE n == Len(data)
           more == Append(data, step)
<1>1. /\ n \in Nat /\ DOMAIN data = 1 .. n /\ DOMAIN more = 1 .. n + 1
      /\ more[n + 1] = step /\ \A i \in 1 .. n : more[i] = data[i]
  BY LenProperties, AppendProperties
<1> HIDE DEF n, more
<1>2. 1 .. n + 1 = 1 .. n \cup {n + 1}
  BY <1>1
<1>3. {more[i] : i \in 1 .. n + 1} = {data[i] : i \in 1 .. n} \cup {step}
  BY <1>1, <1>2
<1>4. ToSet(more) = ToSet(data) \cup {step}
  BY <1>1, <1>3 DEF ToSet
<1> QED BY <1>4 DEF more

LEMMA BeginPlayed ==
  ASSUME Typed, NEW count \in Int, Begin(count)
  PROVE  Played'
<1>1. PICK allowed \in BOOLEAN :
        ep' = [NoEpisode EXCEPT !.id = <<calls, probes + 1>>, !.count = count, !.allowed = allowed]
  BY DEF Begin
<1>2. calls' = calls /\ probes' = probes + 1 /\ probes \in Nat
  BY DEF Begin, Typed
<1>3. /\ ep'.id = <<calls, probes + 1>> /\ ep'.fulls = <<>> /\ ep'.lows = <<>>
      /\ ep'.data = <<>> /\ ep'.step = 0
  BY <1>1 DEF NoEpisode
<1>4. FullSearches(<<>>, 0) = {} /\ ToSet(<<>>) = {}
  BY DEF FullSearches, ToSet
<1>5. ToSet(ep'.data) = FullSearches(ep'.fulls, ep'.step) /\ Len(ep'.fulls) = Len(ep'.lows)
  BY <1>3, <1>4
<1>6. ep'.id = <<calls', probes'>> /\ probes' >= 1
  BY <1>2, <1>3
<1> QED BY <1>5, <1>6 DEF Played

LEMMA SearchPlayed ==
  ASSUME RInv, Played, NEW full \in BOOLEAN, NEW low \in BOOLEAN, Search(full, low)
  PROVE  Played'
<1>1. /\ ep' = [ep EXCEPT !.fulls = Append(@, full), !.lows = Append(@, low),
                          !.streak = Streak(low),
                          !.resigned = ep.allowed /\ Streak(low) >= Consecutive]
      /\ pc = "search" /\ calls' = calls /\ probes' = probes
  BY DEF Search, call
<1>2. /\ ep \in EpisodeType /\ ep.fulls \in Seq(BOOLEAN) /\ ep.lows \in Seq(BOOLEAN)
      /\ ep.step \in Nat /\ ep.step = Len(ep.lows)
  BY <1>1 DEF RInv, Typed, EpisodeType, Position
<1>3. /\ ep'.fulls = Append(ep.fulls, full) /\ ep'.lows = Append(ep.lows, low)
      /\ ep'.data = ep.data /\ ep'.step = ep.step /\ ep'.id = ep.id
  BY <1>1, <1>2 DEF EpisodeType
<1>4. /\ ep.id = <<calls, probes>> /\ probes >= 1 /\ Len(ep.fulls) = Len(ep.lows)
      /\ ToSet(ep.data) = FullSearches(ep.fulls, ep.step)
  BY <1>1 DEF Played, Playing
<1>5. FullSearches(Append(ep.fulls, full), ep.step) = FullSearches(ep.fulls, ep.step)
  BY <1>2, <1>4, FullSearchesOn
<1>6. Len(Append(ep.fulls, full)) = Len(Append(ep.lows, low))
  BY <1>2, <1>4, AppendProperties
<1> QED BY <1>1, <1>3, <1>4, <1>5, <1>6 DEF Played

LEMMA MovePlayed ==
  ASSUME RInv, Played, NEW ends \in BOOLEAN, Move(ends)
  PROVE  Played'
<1>1. /\ ep' = [ep EXCEPT !.data = IF Last(ep.fulls) THEN Append(@, ep.step) ELSE @,
                          !.step = @ + 1, !.done = ends]
      /\ pc = "move" /\ calls' = calls /\ probes' = probes
  BY DEF Move, call
<1>2. /\ ep \in EpisodeType /\ ep.fulls \in Seq(BOOLEAN) /\ Len(ep.lows) \in Nat
      /\ ep.data \in Seq(Nat) /\ ep.step \in Nat /\ ep.step = Len(ep.lows) - 1
  BY <1>1 DEF RInv, Typed, EpisodeType, Position
<1>3. /\ ep'.fulls = ep.fulls /\ ep'.lows = ep.lows /\ ep'.step = ep.step + 1 /\ ep'.id = ep.id
      /\ ep'.data = IF Last(ep.fulls) THEN Append(ep.data, ep.step) ELSE ep.data
  BY <1>1, <1>2 DEF EpisodeType
<1>4. /\ ep.id = <<calls, probes>> /\ probes >= 1 /\ Len(ep.fulls) = Len(ep.lows)
      /\ ToSet(ep.data) = FullSearches(ep.fulls, ep.step)
  BY <1>1 DEF Played, Playing
<1>5. Len(ep.fulls) = ep.step + 1
  BY <1>2, <1>4
<1>6. FullSearches(ep.fulls, ep.step + 1)
        = FullSearches(ep.fulls, ep.step) \cup (IF Last(ep.fulls) THEN {ep.step} ELSE {})
  BY <1>2, <1>5, FullSearchesMove
<1>7. ToSet(ep'.data) = ToSet(ep.data) \cup (IF Last(ep.fulls) THEN {ep.step} ELSE {})
  BY <1>2, <1>3, AppendedSet
<1> QED BY <1>1, <1>3, <1>4, <1>6, <1>7 DEF Played

LEMMA OutcomeFull ==
  ASSUME Played, pc = "score", NEW g \in Grades
  PROVE  Full(Outcome(g)) /\ Outcome(g).id = <<calls, probes>>
<1>1. ep.id = <<calls, probes>> /\ ToSet(ep.data) = FullSearches(ep.fulls, ep.step)
  BY DEF Played, Playing
<1>2. g.kind = "floor" => g.level = Saturated
  BY DEF Grades, Grade, NoProgress
<1> QED BY <1>1, <1>2 DEF Full, Outcome

--------------------------------------------------------------------------------
(* What becomes of the records of an episode when a text is written.         *)
LEMMA OwnGrows ==
  ASSUME NEW old \in FileType, NEW text \in Texts, NEW new, Follows(old, new, text), NEW id
  PROVE  Own(new.lines, id) = Own(old.lines, id) \cup {Len(old.lines) + j : j \in Own(text, id)}
<1> DEFINE n == Len(old.lines)
           m == Len(text)
<1>1. /\ n \in Nat /\ m \in Nat /\ DOMAIN old.lines = 1 .. n /\ DOMAIN text = 1 .. m
      /\ DOMAIN new.lines = 1 .. n + m
  BY LenProperties DEF Follows, FileType, Texts
<1>2. /\ \A i \in 1 .. n : new.lines[i] = old.lines[i]
      /\ \A j \in 1 .. m : new.lines[n + j].id = text[j].id /\ new.lines[n + j].kind = text[j].kind
  BY DEF Follows, Alike, SameRecord
<1> HIDE DEF n, m
<1>3. ASSUME NEW i \in Own(new.lines, id)
      PROVE  i \in Own(old.lines, id) \/ \E j \in Own(text, id) : i = n + j
  <2>1. i \in 1 .. n + m /\ new.lines[i].id = id /\ new.lines[i].kind # "demo"
    BY <1>1 DEF Own
  <2>2. CASE i <= n
    <3>1. i \in 1 .. n
      BY <1>1, <2>1, <2>2
    <3> QED BY <1>1, <1>2, <2>1, <3>1 DEF Own
  <2>3. CASE i > n
    <3>1. i - n \in 1 .. m /\ i = n + (i - n)
      BY <1>1, <2>1, <2>3
    <3>2. i - n \in Own(text, id)
      BY <1>1, <1>2, <2>1, <3>1 DEF Own
    <3> QED BY <3>1, <3>2
  <2> QED BY <1>1, <2>1, <2>2, <2>3
<1>4. ASSUME NEW i \in Own(old.lines, id) PROVE i \in Own(new.lines, id)
  <2>1. i \in 1 .. n /\ i \in 1 .. n + m
    BY <1>1 DEF Own
  <2> QED BY <1>1, <1>2, <2>1 DEF Own
<1>5. ASSUME NEW j \in Own(text, id) PROVE n + j \in Own(new.lines, id)
  <2>1. j \in 1 .. m /\ n + j \in 1 .. n + m
    BY <1>1 DEF Own
  <2> QED BY <1>1, <1>2, <2>1 DEF Own
<1>6. Own(new.lines, id) = Own(old.lines, id) \cup {n + j : j \in Own(text, id)}
  BY <1>3, <1>4, <1>5
<1> QED BY <1>6 DEF n

(* A text without records of an episode leaves them as they were.            *)
LEMMA OthersKept ==
  ASSUME NEW old \in FileType, NEW text \in Texts, NEW new, Follows(old, new, text),
         NEW o, Own(text, o.id) = {}, Len(o.data) \in Nat, DOMAIN o.data = 1 .. Len(o.data)
  PROVE  /\ Own(new.lines, o.id) = Own(old.lines, o.id)
         /\ Placed(o, old.lines) => Placed(o, new.lines)
<1>1. Own(new.lines, o.id) = Own(old.lines, o.id)
  <2>1. \A id : Own(new.lines, id)
                 = Own(old.lines, id) \cup {Len(old.lines) + j : j \in Own(text, id)}
    BY OwnGrows
  <2> DEFINE more == {Len(old.lines) + j : j \in Own(text, o.id)}
  <2>2. Own(new.lines, o.id) = Own(old.lines, o.id) \cup more
    BY <2>1
  <2>3. more = {}
    OBVIOUS
  <2> HIDE DEF more
  <2> QED BY <2>2, <2>3
<1>2. ASSUME InOrder(o, old.lines) PROVE InOrder(o, new.lines)
  <2> DEFINE n == Len(old.lines)
             d == Len(o.data)
  <2>1. PICK k \in 0 .. n :
          /\ Own(old.lines, o.id) = k + 1 .. k + d
          /\ \A j \in DOMAIN o.data : old.lines[k + j].step = o.data[j]
    BY <1>2 DEF InOrder
  <2>2. /\ n \in Nat /\ d \in Nat /\ Len(text) \in Nat /\ DOMAIN old.lines = 1 .. n
        /\ Len(new.lines) = n + Len(text) /\ DOMAIN o.data = 1 .. d
        /\ \A i \in 1 .. n : new.lines[i] = old.lines[i]
    BY LenProperties DEF Follows, FileType, Texts
  <2> HIDE DEF n, d
  <2>3. \A j \in 1 .. d : k + j \in 1 .. n
    <3> TAKE j \in 1 .. d
    <3>1. k + j \in k + 1 .. k + d
      BY <2>2
    <3>2. k + j \in DOMAIN old.lines
      BY <2>1, <3>1 DEF Own
    <3> QED BY <2>2, <3>2
  <2>4. \A j \in DOMAIN o.data : new.lines[k + j].step = o.data[j]
    BY <2>1, <2>2, <2>3
  <2>5. k \in 0 .. Len(new.lines)
    BY <2>2
  <2>6. Own(new.lines, o.id) = k + 1 .. k + d
    BY <1>1, <2>1
  <2> QED BY <2>4, <2>5, <2>6 DEF InOrder, d
<1> QED BY <1>1, <1>2 DEF Placed, Gone

(* The records of an episode of which there was none yet.                    *)
LEMMA RecordsPlaced ==
  ASSUME NEW old \in FileType, NEW o \in Finished, NEW new, Follows(old, new, Records(o)),
         Own(old.lines, o.id) = {}
  PROVE  InOrder(o, new.lines)
<1> DEFINE text == Records(o)
           n == Len(old.lines)
           d == Len(o.data)
<1>1. /\ text \in Texts /\ DOMAIN text = DOMAIN o.data
      /\ \A i \in DOMAIN o.data : text[i] = Line(o, o.data[i])
  BY RecordsType
<1>2. /\ o.data \in Seq(Nat) /\ DOMAIN o.data = 1 .. d /\ d \in Nat /\ n \in Nat
      /\ DOMAIN text = 1 .. Len(text) /\ Len(text) \in Nat
  BY <1>1, LenProperties DEF Finished, OutcomeType, FileType, Texts
<1> HIDE DEF text, d
<1>3. Len(text) = d
  BY <1>1, <1>2
<1>4. \A i \in 1 .. d : /\ text[i].id = o.id /\ text[i].kind # "demo"
                        /\ text[i].step = o.data[i]
  <2>1. o.kind # "demo"
    BY DEF Finished, OutcomeType, EndKinds
  <2>2. \A step : Line(o, step).id = o.id /\ Line(o, step).kind = o.kind
                   /\ Line(o, step).step = step
    BY DEF Line
  <2> QED BY <1>1, <1>2, <2>1, <2>2
<1>5. Own(text, o.id) = 1 .. d
  BY <1>2, <1>3, <1>4 DEF Own
<1>6. Follows(old, new, text)
  BY DEF text
<1>7. Own(new.lines, o.id) = {n + j : j \in 1 .. d}
  <2>1. text \in Texts
    BY <1>1
  <2>2. \A id : Own(new.lines, id)
                 = Own(old.lines, id) \cup {Len(old.lines) + j : j \in Own(text, id)}
    BY <1>6, <2>1, OwnGrows
  <2> QED BY <1>5, <2>2
<1> HIDE DEF n
<1>8. {n + j : j \in 1 .. d} = n + 1 .. n + d
  <2>1. ASSUME NEW i \in n + 1 .. n + d PROVE i \in {n + j : j \in 1 .. d}
    <3>1. i - n \in 1 .. d /\ i = n + (i - n)
      BY <1>2
    <3> QED BY <3>1
  <2>2. ASSUME NEW j \in 1 .. d PROVE n + j \in n + 1 .. n + d
    BY <1>2
  <2> QED BY <2>1, <2>2
<1>9. \A j \in DOMAIN o.data : new.lines[n + j].step = o.data[j]
  BY <1>2, <1>3, <1>4, <1>6 DEF Follows, Alike, SameRecord, n
<1>10. n \in 0 .. Len(new.lines)
  BY <1>2, <1>6 DEF Follows, n
<1> QED BY <1>7, <1>8, <1>9, <1>10 DEF InOrder, d

(* Every line of a file that grows is an old one or one of the text.         *)
LEMMA IdsGrow ==
  ASSUME NEW old \in FileType, NEW text \in Texts, NEW new, Follows(old, new, text),
         NEW ids, \A i \in DOMAIN old.lines : old.lines[i].id \in ids,
         \A j \in DOMAIN text : text[j].id \in ids
  PROVE  \A i \in DOMAIN new.lines : new.lines[i].id \in ids
<1> DEFINE n == Len(old.lines)
           m == Len(text)
<1>1. /\ n \in Nat /\ m \in Nat /\ DOMAIN old.lines = 1 .. n /\ DOMAIN text = 1 .. m
      /\ DOMAIN new.lines = 1 .. n + m
  BY LenProperties DEF Follows, FileType, Texts
<1>2. /\ \A i \in 1 .. n : new.lines[i] = old.lines[i]
      /\ \A j \in 1 .. m : new.lines[n + j].id = text[j].id
  BY DEF Follows, Alike, SameRecord
<1> HIDE DEF n, m
<1> SUFFICES ASSUME NEW i \in 1 .. n + m PROVE new.lines[i].id \in ids
  BY <1>1
<1>3. CASE i <= n
  <2>1. i \in 1 .. n
    BY <1>1, <1>3
  <2> QED BY <1>1, <1>2, <2>1
<1>4. CASE i > n
  <2>1. PICK j \in 1 .. m : i = n + j
    <3>1. i - n \in 1 .. m /\ i = n + (i - n)
      BY <1>1, <1>4
    <3> QED BY <3>1
  <2>2. new.lines[i].id = text[j].id
    BY <1>2, <2>1
  <2> QED BY <1>1, <2>2
<1> QED BY <1>1, <1>3, <1>4

--------------------------------------------------------------------------------
(* Every step keeps the corpus in order.                                     *)
LEMMA GatherCorpus ==
  ASSUME Corpus, NEW g \in Games, Gather(g)
  PROVE  Corpus'
<1>1. /\ pc = "idle" /\ pc' = "begin" /\ queue' = queue /\ best' = best /\ failed' = failed
      /\ demo' = demo
  BY DEF Gather
<1>2. queue = <<>> /\ best = <<>> /\ failed = <<>> /\ demo.buffer = <<>>
  BY <1>1 DEF Corpus, Numbered, Blank, Writing, Files
<1>3. Played' /\ Blank' /\ Written'
  BY <1>1, <1>2 DEF Played, Playing, Blank, Written, Writing, Files
<1>4. Climb' /\ Queued'
  BY <1>1, <1>2 DEF Climb, Queued
<1> QED BY <1>3, <1>4 DEF Corpus, Numbered

LEMMA BeginCorpus ==
  ASSUME Typed, Corpus, NEW count \in Int, Begin(count)
  PROVE  Corpus'
<1>1. /\ pc = "begin" /\ pc' = "search" /\ queue' = queue /\ best' = best /\ failed' = failed
      /\ demo' = demo /\ calls' = calls /\ probes' = probes + 1 /\ probes \in Nat
  BY DEF Begin, Typed
<1>2. Played'
  BY BeginPlayed
<1>3. Past' = Past
  BY <1>1 DEF Past, Playing
<1>4. Climb' /\ Queued'
  BY <1>1, <1>3 DEF Corpus, Numbered, Climb, Queued
<1>5. Blank' /\ Written'
  BY <1>1 DEF Corpus, Numbered, Blank, Written, Writing, Files
<1> QED BY <1>2, <1>4, <1>5 DEF Corpus, Numbered

LEMMA PlayCorpus ==
  ASSUME Corpus, Played', pc \in Playing, pc' \in Playing, calls' = calls, probes' = probes,
         queue' = queue, best' = best, failed' = failed, demo' = demo
  PROVE  Corpus'
<1>1. Past' = Past
  BY DEF Past
<1>2. Climb' /\ Queued'
  BY <1>1 DEF Corpus, Numbered, Climb, Queued
<1>3. Blank' /\ Written'
  BY DEF Corpus, Numbered, Blank, Written, Writing, Playing, Files
<1> QED BY <1>2, <1>3 DEF Corpus, Numbered

LEMMA NothingOwned == \A id : Own(<<>>, id) = {}
  BY DEF Own

LEMMA KeptOn ==
  ASSUME NEW number, NEW past \in Int, NEW more \in Int, past <= more
  PROVE  \A p : Kept(p, number, past) => Kept(p, number, more)
<1>1. 1 .. past \subseteq 1 .. more
  OBVIOUS
<1> QED BY <1>1 DEF Kept

LEMMA ScoreCorpus ==
  ASSUME Typed, Shaped, Shows, Corpus, NEW g \in Grades, Score(g)
  PROVE  Corpus'
<1> DEFINE o == Outcome(g)
<1>1. /\ pc = "score" /\ pc' = "log" /\ queue' = <<o>> /\ calls' = calls /\ probes' = probes
      /\ best' = best /\ failed' = failed /\ demo' = demo /\ files' = files /\ turn' = turn
      /\ probes \in Nat
  BY DEF Score, call, Typed
<1>2. /\ turn = 1 /\ files["shard"].lines = <<>> /\ demo.buffer = <<>>
  BY <1>1 DEF Shaped, Shows, Sole, Files, Corpus, Numbered, Blank
<1>3. Full(o) /\ o.id = <<calls, probes>>
  BY <1>1, OutcomeFull DEF Corpus, Numbered
<1> HIDE DEF o
<1>4. Climb'
  <2>1. Past = probes - 1 /\ Past' = probes
    BY <1>1 DEF Past, Playing
  <2>2. \A p : Kept(p, calls, Past) => Kept(p, calls', Past')
    BY <1>1, <2>1, KeptOn
  <2> QED BY <1>1, <2>2 DEF Corpus, Numbered, Climb
<1>5. DOMAIN queue' = {1} /\ queue'[1] = o
  BY <1>1
<1>6. Queued'
  BY <1>1, <1>3, <1>5 DEF Queued
<1>7. Played' /\ Blank'
  BY <1>1, <1>2 DEF Played, Playing, Blank, Writing, Files
<1>8. Written'
  <2>1. ~Settled(1)'
    BY <1>1, <1>2 DEF Settled
  <2> QED BY <1>1, <1>2, <1>5, <2>1, NothingOwned DEF Written, Writing, Files
<1> QED BY <1>4, <1>6, <1>7, <1>8 DEF Corpus, Numbered

(* What was kept of the climb and what is kept now, one behind the other.    *)
LEMMA TwoKept ==
  ASSUME NEW kept \in Seq(Finished), NEW lost \in Seq(Finished), Len(kept) <= 1, Len(lost) <= 1,
         \A i \in DOMAIN kept, j \in DOMAIN lost : kept[i].id # lost[j].id
  PROVE  /\ \A i \in DOMAIN (kept \o lost) :
              \/ \E k \in DOMAIN kept : (kept \o lost)[i] = kept[k]
              \/ \E k \in DOMAIN lost : (kept \o lost)[i] = lost[k]
         /\ \A i, j \in DOMAIN (kept \o lost) :
              (kept \o lost)[i].id = (kept \o lost)[j].id => i = j
<1> DEFINE n == Len(kept)
           m == Len(lost)
           both == kept \o lost
<1>1. /\ n \in {0, 1} /\ m \in {0, 1} /\ DOMAIN kept = 1 .. n /\ DOMAIN lost = 1 .. m
  <2>1. n \in Nat /\ m \in Nat /\ DOMAIN kept = 1 .. n /\ DOMAIN lost = 1 .. m
    BY LenProperties
  <2>2. n <= 1 /\ m <= 1
    OBVIOUS
  <2> HIDE DEF n, m
  <2> QED BY <2>1, <2>2
<1>2. /\ both \in Seq(Finished) /\ Len(both) = Len(kept) + Len(lost)
      /\ \A i \in 1 .. Len(kept) + Len(lost) :
           both[i] = IF i <= Len(kept) THEN kept[i] ELSE lost[i - Len(kept)]
  BY ConcatProperties
<1>3. DOMAIN both = 1 .. n + m
  BY <1>2, LenProperties
<1> HIDE DEF both
<1>4. \A i \in 1 .. n + m : both[i] = IF i <= n THEN kept[i] ELSE lost[i - n]
  BY <1>2
<1> HIDE DEF n, m
<1>5. ASSUME NEW i \in 1 .. n + m
      PROVE  \/ i \in 1 .. n /\ i = 1 /\ both[i] = kept[1]
             \/ i = n + 1 /\ 1 \in 1 .. m /\ both[i] = lost[1]
  <2>1. CASE i <= n
    BY <1>1, <1>4, <2>1
  <2>2. CASE i > n
    <3>1. m = 1 /\ i = n + 1 /\ i - n = 1 /\ ~(i <= n) /\ 1 \in 1 .. m
      BY <1>1, <2>2
    <3>2. both[i] = lost[i - n]
      BY <1>4, <3>1
    <3> QED BY <3>1, <3>2
  <2> QED BY <1>1, <2>1, <2>2
<1>6. ASSUME NEW i \in 1 .. n + m, NEW j \in 1 .. n + m, both[i].id = both[j].id
      PROVE  i = j
  <2>1. 1 \in 1 .. n /\ 1 \in 1 .. m => kept[1].id # lost[1].id
    BY <1>1
  <2> QED BY <1>1, <1>5, <1>6, <2>1
<1>7. \A i \in 1 .. n + m :
        \/ \E k \in DOMAIN kept : both[i] = kept[k]
        \/ \E k \in DOMAIN lost : both[i] = lost[k]
  <2> TAKE i \in 1 .. n + m
  <2>1. CASE i \in 1 .. n /\ i = 1 /\ both[i] = kept[1]
    BY <1>1, <2>1
  <2>2. CASE i = n + 1 /\ 1 \in 1 .. m /\ both[i] = lost[1]
    BY <1>1, <2>2
  <2> QED BY <1>5, <2>1, <2>2
<1> QED BY <1>3, <1>6, <1>7 DEF both

LEMMA ProbeCorpus ==
  ASSUME Typed, Shaped, Shows, Corpus, NEW g \in Grades, Probe(g)
  PROVE  Corpus'
<1> DEFINE o == Outcome(g)
           kept == IF ep.done THEN <<o>> ELSE best
           lost == IF ep.done THEN failed ELSE <<o>>
<1>1. /\ pc = "score" /\ best' = kept /\ failed' = lost /\ calls' = calls /\ probes' = probes
      /\ demo' = demo /\ files' = files /\ turn' = turn /\ probes \in Nat
      /\ \/ pc' = "begin" /\ queue' = queue
         \/ pc' = "log" /\ queue' = best' \o failed'
  BY DEF Probe, Typed
<1>2. /\ turn = 1 /\ files["shard"].lines = <<>> /\ demo.buffer = <<>> /\ queue = <<>>
  BY <1>1 DEF Shaped, Shows, Sole, Files, Corpus, Numbered, Blank, Writing
<1>3. Full(o) /\ o.id = <<calls, probes>> /\ o \in Finished
  BY <1>1, OutcomeFull, OutcomeFinished DEF Corpus, Numbered
<1> HIDE DEF o
<1>4. Past = probes - 1 /\ Past' = probes
  BY <1>1 DEF Past, Playing
<1>5. /\ \A i \in DOMAIN best : Kept(best[i], calls, Past)
      /\ \A i \in DOMAIN failed : Kept(failed[i], calls, Past)
      /\ Len(best) <= 1 /\ Len(failed) <= 1
      /\ \A i \in DOMAIN best, j \in DOMAIN failed : best[i].id # failed[j].id
  BY DEF Corpus, Numbered, Climb
<1>6. \A p : Kept(p, calls, Past) => Kept(p, calls', Past') /\ p.id # o.id
  <2>1. \A p : Kept(p, calls, Past) => Kept(p, calls', Past')
    BY <1>1, <1>4, KeptOn
  <2>2. \A p : Kept(p, calls, Past) => p.id[2] # probes
    BY <1>1, <1>4 DEF Kept
  <2>3. o.id[2] = probes
    BY <1>3
  <2> QED BY <2>1, <2>2, <2>3
<1>7. Kept(o, calls', Past')
  <2>1. probes >= 1
    BY <1>1 DEF Corpus, Numbered, Played, Playing
  <2>2. o.id[1] = calls' /\ o.id[2] \in 1 .. Past'
    BY <1>1, <1>3, <1>4, <2>1
  <2> QED BY <1>3, <2>2 DEF Kept
<1>8. DOMAIN <<o>> = {1} /\ <<o>>[1] = o /\ Len(<<o>>) = 1 /\ <<o>> \in Seq(Finished)
  BY <1>3
<1>9. /\ \A i \in DOMAIN kept : Kept(kept[i], calls', Past')
      /\ \A i \in DOMAIN lost : Kept(lost[i], calls', Past')
      /\ Len(kept) <= 1 /\ Len(lost) <= 1
      /\ \A i \in DOMAIN kept, j \in DOMAIN lost : kept[i].id # lost[j].id
      /\ kept \in Seq(Finished) /\ lost \in Seq(Finished)
  <2>1. best \in Seq(Finished) /\ failed \in Seq(Finished)
    BY DEF Shaped
  <2>2. CASE ep.done
    <3>1. kept = <<o>> /\ lost = failed
      BY <2>2
    <3> HIDE DEF kept, lost
    <3> QED BY <1>5, <1>6, <1>7, <1>8, <2>1, <3>1
  <2>3. CASE ~ep.done
    <3>1. kept = best /\ lost = <<o>>
      BY <2>3
    <3> HIDE DEF kept, lost
    <3> QED BY <1>5, <1>6, <1>7, <1>8, <2>1, <3>1
  <2> QED BY <2>2, <2>3
<1> HIDE DEF kept, lost
<1>10. Climb'
  BY <1>1, <1>9 DEF Climb
<1>11. CASE pc' = "begin" /\ queue' = queue
  <2>1. Played' /\ Queued' /\ Blank' /\ Written'
    BY <1>1, <1>2, <1>11 DEF Played, Playing, Queued, Blank, Written, Writing, Files
  <2> QED BY <1>10, <2>1 DEF Corpus, Numbered
<1>12. CASE pc' = "log" /\ queue' = kept \o lost
  <2>1. /\ \A i \in DOMAIN queue' : \/ \E k \in DOMAIN kept : queue'[i] = kept[k]
                                    \/ \E k \in DOMAIN lost : queue'[i] = lost[k]
        /\ \A i, j \in DOMAIN queue' : queue'[i].id = queue'[j].id => i = j
    BY <1>9, <1>12, TwoKept
  <2>2. \A p : Kept(p, calls', Past') => Full(p) /\ p.id[1] = calls'
    BY DEF Kept
  <2>3. Queued'
    BY <1>9, <2>1, <2>2 DEF Queued
  <2>4. Played' /\ Blank'
    BY <1>1, <1>2, <1>12 DEF Played, Playing, Blank, Writing, Files
  <2>5. Written'
    <3>1. \A i \in DOMAIN queue' : ~Settled(i)'
      <4>1. DOMAIN queue' = 1 .. Len(queue')
        BY <1>9, <1>12, ConcatProperties, LenProperties
      <4> QED BY <1>1, <1>2, <1>12, <4>1 DEF Settled
    <3> QED BY <1>1, <1>2, <1>12, <3>1, NothingOwned DEF Written, Writing, Files
  <2> QED BY <1>10, <2>3, <2>4, <2>5 DEF Corpus, Numbered
<1> QED BY <1>1, <1>11, <1>12

(* Episodes, their numbers and the climb, while files are written.           *)
LEMMA NumbersKept ==
  ASSUME Corpus, pc \in Writing, pc' \in Writing, calls' = calls, probes' = probes,
         queue' = queue, best' = best, failed' = failed,
         pc' \notin {"demo", "returned"} => demo'.buffer = <<>>
  PROVE  Numbered'
<1>1. pc \notin Playing /\ pc' \notin Playing /\ pc' # "idle"
  BY DEF Playing, Writing, Files
<1>2. Past' = Past
  BY <1>1 DEF Past
<1>3. Climb' /\ Queued'
  BY <1>2 DEF Corpus, Numbered, Climb, Queued
<1>4. Played' /\ Blank'
  BY <1>1 DEF Played, Blank
<1> QED BY <1>3, <1>4 DEF Numbered

LEMMA TurnOver ==
  ASSUME Shaped, Shows, pc \in Files, EndEpisode
  PROVE  /\ turn' = turn + 1 /\ pc' \in {"log", "demo", "returned"}
         /\ pc' \in {"demo", "returned"} => turn' > Len(queue)
<1>1. turn \in 1 .. Len(queue) /\ Len(queue) \in Nat
  BY LenProperties DEF Shaped
<1>2. DemoDue => Len(queue) = 1
  BY DEF DemoDue, Shows, Sole
<1>3. /\ turn' = turn + 1
      /\ \/ turn < Len(queue) /\ pc' = "log"
         \/ turn = Len(queue) /\ pc' = "returned"
         \/ DemoDue /\ pc' = "demo"
  BY DEF EndEpisode
<1>4. turn = Len(queue) \/ DemoDue => turn' > Len(queue)
  BY <1>1, <1>2, <1>3
<1> QED BY <1>3, <1>4

(* The next file, or the end of an episode of which nothing is written.      *)
LEMMA PlacesKept ==
  ASSUME Shaped, Corpus, pc \in Files, pc' \in Writing, files'["shard"] = files["shard"],
         calls' = calls, probes' = probes, queue' = queue, best' = best, failed' = failed,
         demo' = demo,
         pc' \in {"demo", "returned"} => turn' > Len(queue),
         \A i \in DOMAIN queue :
           IF Settled(i)' THEN Placed(queue[i], files["shard"].lines) ELSE ~Settled(i)
  PROVE  Corpus'
<1>1. pc \in Writing /\ demo.buffer = <<>>
  BY DEF Writing, Corpus, Numbered, Blank, Files
<1>2. Numbered'
  BY <1>1, NumbersKept
<1>3. ASSUME NEW i \in DOMAIN queue
      PROVE  IF Settled(i)' THEN Placed(queue[i], files["shard"].lines)
             ELSE Own(files["shard"].lines, queue[i].id) = {}
  <2>1. CASE Settled(i)'
    BY <2>1
  <2>2. CASE ~Settled(i)'
    <3>1. ~Settled(i)
      BY <2>2
    <3> QED BY <1>1, <2>2, <3>1 DEF Corpus, Written
  <2> QED BY <2>1, <2>2
<1>4. /\ \A i \in DOMAIN files["shard"].lines :
           \E q \in DOMAIN queue : files["shard"].lines[i].id = queue[q].id
      /\ \A j \in DOMAIN demo.buffer : demo.buffer[j].id = queue[1].id
  BY <1>1 DEF Corpus, Written
<1>5. Written'
  BY <1>3, <1>4 DEF Written
<1> QED BY <1>2, <1>5 DEF Corpus

LEMMA DropCorpus ==
  ASSUME Shaped, Shows, Corpus, Drop
  PROVE  Corpus'
<1>1. /\ pc = "shard" /\ pc \in Files /\ EndEpisode /\ files' = files /\ calls' = calls
      /\ probes' = probes /\ queue' = queue /\ best' = best /\ failed' = failed /\ demo' = demo
      /\ SaturatedPartial(queue[turn]) \/ queue[turn].kind = "floor"
  BY DEF Drop, call, Files
<1>2. /\ turn' = turn + 1 /\ pc' \in {"log", "demo", "returned"}
      /\ pc' \in {"demo", "returned"} => turn' > Len(queue)
  BY <1>1, TurnOver
<1>3. pc' \in Writing
  BY <1>2 DEF Writing, Files
<1>4. /\ turn \in DOMAIN queue /\ DOMAIN queue = 1 .. Len(queue) /\ Len(queue) \in Nat
  BY <1>1, LenProperties DEF Shaped
<1>5. Gone(queue[turn], files["shard"].lines)
  <2>1. ~Settled(turn)
    BY <1>1, <1>4 DEF Settled
  <2>2. Own(files["shard"].lines, queue[turn].id) = {}
    BY <1>1, <1>4, <2>1 DEF Corpus, Written, Writing
  <2>3. queue[turn].kind = "floor" => queue[turn].level = Saturated
    BY <1>4 DEF Corpus, Numbered, Queued, Full
  <2> QED BY <1>1, <2>2, <2>3 DEF Gone, SaturatedPartial
<1>6. ASSUME NEW i \in DOMAIN queue
      PROVE  IF Settled(i)' THEN Placed(queue[i], files["shard"].lines) ELSE ~Settled(i)
  <2>1. Settled(i)' <=> i < turn + 1
    BY <1>2 DEF Settled
  <2>2. Settled(i) <=> i < turn
    BY <1>1 DEF Settled
  <2>3. CASE i = turn
    BY <1>4, <1>5, <2>1, <2>3 DEF Placed
  <2>4. CASE i < turn
    <3>1. Placed(queue[i], files["shard"].lines)
      BY <1>1, <2>2, <2>4 DEF Corpus, Written, Writing
    <3> QED BY <1>4, <2>1, <2>4, <3>1
  <2>5. CASE i > turn
    BY <1>4, <2>1, <2>2, <2>5
  <2> QED BY <1>4, <2>3, <2>4, <2>5
<1>7. files'["shard"] = files["shard"]
  BY <1>1
<1> QED BY <1>1, <1>2, <1>3, <1>6, <1>7, PlacesKept

LEMMA WriteElsewhere ==
  ASSUME Shaped, Shows, Corpus, NEW f \in Files, f # "shard", Write(f)
  PROVE  Corpus'
<1>1. /\ pc = f /\ files'["shard"] = files["shard"] /\ calls' = calls /\ probes' = probes
      /\ queue' = queue /\ best' = best /\ failed' = failed /\ demo' = demo
      /\ IF Following(f) = "end" THEN EndEpisode ELSE pc' = Following(f) /\ turn' = turn
  <2>1. "shard" \in Files
    BY DEF Files
  <2> QED BY <2>1 DEF Write, call, Shaped
<1>2. turn \in DOMAIN queue /\ DOMAIN queue = 1 .. Len(queue) /\ Len(queue) \in Nat
  BY <1>1, LenProperties DEF Shaped
<1>3. /\ pc' \in Writing
      /\ pc' \in {"demo", "returned"} => turn' > Len(queue)
      /\ \A i \in DOMAIN queue : Settled(i)' <=> Settled(i)
  <2>1. CASE f = "gold"
    <3>1. EndEpisode
      BY <1>1, <2>1 DEF Following
    <3>2. /\ turn' = turn + 1 /\ pc' \in {"log", "demo", "returned"}
          /\ pc' \in {"demo", "returned"} => turn' > Len(queue)
      BY <1>1, <3>1, TurnOver
    <3>3. \A i \in DOMAIN queue : i < turn + 1 <=> i < turn \/ i = turn
      BY <1>2
    <3> QED BY <1>1, <2>1, <3>2, <3>3 DEF Settled, Writing, Files
  <2>2. CASE f # "gold"
    <3>1. pc' \in {"traj", "shard"} /\ turn' = turn
      BY <1>1, <2>2 DEF Following, Files
    <3> QED BY <1>1, <2>2, <3>1 DEF Settled, Writing, Files
  <2> QED BY <2>1, <2>2
<1>4. \A i \in DOMAIN queue :
        IF Settled(i)' THEN Placed(queue[i], files["shard"].lines) ELSE ~Settled(i)
  BY <1>1, <1>3 DEF Corpus, Written, Writing
<1> QED BY <1>1, <1>3, <1>4, PlacesKept

LEMMA WriteShard ==
  ASSUME Shaped, Corpus, Write("shard")
  PROVE  Corpus'
<1> DEFINE o == queue[turn]
           text == Records(o)
           old == files["shard"]
           new == files'["shard"]
<1>1. /\ pc = "shard" /\ pc' = "gold" /\ turn' = turn /\ calls' = calls /\ probes' = probes
      /\ queue' = queue /\ best' = best /\ failed' = failed /\ demo' = demo
      /\ new = Appended(old, text) /\ old \in FileType
  <2>1. "shard" \in Files
    BY DEF Files
  <2>2. Text("shard", o) = text
    BY DEF Write, Text, RecordText
  <2>3. Following("shard") = "gold"
    BY DEF Following
  <2> QED BY <2>1, <2>2, <2>3 DEF Write, call, Shaped
<1>2. /\ turn \in DOMAIN queue /\ DOMAIN queue = 1 .. Len(queue) /\ Len(queue) \in Nat
      /\ \A i \in DOMAIN queue : queue[i] \in Finished
  BY <1>1, ElementOfSeq, LenProperties DEF Shaped, Files
<1>3. /\ text \in Texts /\ DOMAIN text = DOMAIN o.data
      /\ \A j \in DOMAIN text : text[j].id = o.id
  <2>1. o \in Finished
    BY <1>2
  <2> HIDE DEF o
  <2>2. /\ text \in Texts /\ DOMAIN text = DOMAIN o.data
        /\ \A j \in DOMAIN o.data : text[j] = Line(o, o.data[j])
    BY <2>1, RecordsType
  <2>3. \A step : Line(o, step).id = o.id
    BY DEF Line
  <2> QED BY <2>2, <2>3
<1> HIDE DEF text, new
<1>4. Follows(old, new, text)
  BY <1>1, <1>3, AppendedFollows
<1>5. pc \in Writing /\ pc' \in Writing /\ demo.buffer = <<>>
  BY <1>1 DEF Writing, Files, Corpus, Numbered, Blank
<1>6. /\ \A i \in DOMAIN queue :
           IF Settled(i) THEN Placed(queue[i], old.lines) ELSE Own(old.lines, queue[i].id) = {}
      /\ \A i \in DOMAIN old.lines : \E q \in DOMAIN queue : old.lines[i].id = queue[q].id
  BY <1>5 DEF Corpus, Written
<1>7. Numbered'
  BY <1>1, <1>5, NumbersKept
<1>8. ASSUME NEW i \in DOMAIN queue
      PROVE  IF i <= turn THEN Placed(queue[i], new.lines) ELSE Own(new.lines, queue[i].id) = {}
  <2>1. Settled(i) <=> i < turn
    BY <1>1 DEF Settled
  <2>2. CASE i = turn
    <3>1. Own(old.lines, o.id) = {} /\ o \in Finished
      <4>1. ~Settled(turn)
        BY <1>2, <2>1, <2>2
      <4> QED BY <1>2, <1>6, <4>1
    <3>2. Follows(old, new, Records(o))
      BY <1>4 DEF text
    <3>3. InOrder(o, new.lines)
      BY <1>1, <3>1, <3>2, RecordsPlaced
    <3> QED BY <1>2, <2>2, <3>3 DEF Placed
  <2>3. CASE i # turn
    <3> DEFINE p == queue[i]
    <3>1. p.id # o.id /\ p \in Finished
      BY <1>2, <2>3 DEF Corpus, Numbered, Queued
    <3>2. Len(p.data) \in Nat /\ DOMAIN p.data = 1 .. Len(p.data)
      BY <3>1, LenProperties DEF Finished, OutcomeType
    <3>3. Own(text, p.id) = {}
      BY <1>3, <3>1 DEF Own
    <3> HIDE DEF p
    <3>4. /\ Own(new.lines, p.id) = Own(old.lines, p.id)
          /\ Placed(p, old.lines) => Placed(p, new.lines)
      BY <1>1, <1>3, <1>4, <3>2, <3>3, OthersKept
    <3>5. IF i < turn THEN Placed(p, old.lines) ELSE Own(old.lines, p.id) = {}
      BY <1>6, <2>1 DEF p
    <3> QED BY <1>2, <2>3, <3>4, <3>5 DEF p
  <2> QED BY <2>2, <2>3
<1>9. \A i \in DOMAIN queue : Settled(i)' <=> i <= turn
  BY <1>1, <1>2 DEF Settled
<1>10. \A i \in DOMAIN new.lines : \E q \in DOMAIN queue : new.lines[i].id = queue[q].id
  <2> DEFINE ids == {queue[q].id : q \in DOMAIN queue}
  <2>1. \A i \in DOMAIN old.lines : old.lines[i].id \in ids
    BY <1>6
  <2>2. \A j \in DOMAIN text : text[j].id \in ids
    BY <1>2, <1>3
  <2>3. \A i \in DOMAIN new.lines : new.lines[i].id \in ids
    BY <1>1, <1>3, <1>4, <2>1, <2>2, IdsGrow
  <2> QED BY <2>3
<1>11. /\ pc' = "gold" /\ queue' = queue /\ demo'.buffer = <<>>
       /\ files'["shard"].lines = new.lines
  BY <1>1, <1>5 DEF new
<1>12. \A i \in DOMAIN queue :
         IF Settled(i)' THEN Placed(queue[i], new.lines)
         ELSE Own(new.lines, queue[i].id) = {}
  BY <1>8, <1>9
<1> HIDE DEF new
<1>13. Written'
  BY <1>10, <1>11, <1>12 DEF Written
<1> QED BY <1>7, <1>13 DEF Corpus

LEMMA DemoCorpus ==
  ASSUME Shaped, Corpus, NEW kept \in BOOLEAN, DemoStep(kept)
  PROVE  Corpus'
<1>1. /\ pc = "demo" /\ pc' = "demo" /\ turn' = turn /\ calls' = calls /\ probes' = probes
      /\ queue' = queue /\ best' = best /\ failed' = failed /\ files' = files
      /\ demo'.buffer = IF kept THEN Append(demo.buffer, DemoLine) ELSE demo.buffer
  BY DEF DemoStep, call
<1>2. pc \in Writing /\ pc' \in Writing
  BY <1>1 DEF Writing
<1>3. Numbered'
  BY <1>1, <1>2, NumbersKept
<1>4. \A j \in DOMAIN demo'.buffer : demo'.buffer[j].id = queue[1].id
  <2>1. DemoLine.id = queue[1].id
    BY DEF DemoLine
  <2>2. /\ demo.buffer \in Seq(AnyLine)
        /\ \A j \in DOMAIN demo.buffer : demo.buffer[j].id = queue[1].id
    BY <1>2 DEF Shaped, Texts, Corpus, Written
  <2> QED BY <1>1, <2>1, <2>2, AppendProperties
<1>5. \A i : Settled(i)' <=> Settled(i)
  BY <1>1 DEF Settled
<1>6. Written'
  BY <1>1, <1>2, <1>4, <1>5 DEF Corpus, Written
<1> QED BY <1>3, <1>6 DEF Corpus

LEMMA DemoEndCorpus ==
  ASSUME Shaped, Shows, Corpus, DemoEnd
  PROVE  Corpus'
<1> DEFINE text == demo.buffer
           old == files["shard"]
           new == files'["shard"]
<1>1. /\ pc = "demo" /\ pc' = "returned" /\ turn' = turn /\ calls' = calls /\ probes' = probes
      /\ queue' = queue /\ best' = best /\ failed' = failed /\ demo' = demo
      /\ new = Appended(old, text) /\ old \in FileType
  <2>1. "shard" \in Files
    BY DEF Files
  <2> QED BY <2>1 DEF DemoEnd, call, Shaped
<1>2. text \in Texts /\ \A j \in DOMAIN text : text[j].kind = "demo"
  BY DEF Shaped, Shows, Planned
<1> HIDE DEF new
<1>3. Follows(old, new, text)
  BY <1>1, <1>2, AppendedFollows
<1>4. pc \in Writing /\ pc' \in Writing
  BY <1>1 DEF Writing
<1>5. /\ \A i \in DOMAIN queue :
           IF Settled(i) THEN Placed(queue[i], old.lines) ELSE Own(old.lines, queue[i].id) = {}
      /\ \A i \in DOMAIN old.lines : \E q \in DOMAIN queue : old.lines[i].id = queue[q].id
      /\ \A j \in DOMAIN text : text[j].id = queue[1].id
      /\ turn > Len(queue)
  BY <1>1, <1>4 DEF Corpus, Written
<1>6. Numbered'
  BY <1>1, <1>4, NumbersKept
<1>7. ASSUME NEW i \in DOMAIN queue
      PROVE  IF Settled(i) THEN Placed(queue[i], new.lines) ELSE Own(new.lines, queue[i].id) = {}
  <2> DEFINE p == queue[i]
  <2>1. p \in Finished
    BY ElementOfSeq, LenProperties DEF Shaped
  <2>2. Len(p.data) \in Nat /\ DOMAIN p.data = 1 .. Len(p.data)
    BY <2>1, LenProperties DEF Finished, OutcomeType
  <2>3. Own(text, p.id) = {}
    BY <1>2 DEF Own
  <2> HIDE DEF p, text
  <2>4. /\ Own(new.lines, p.id) = Own(old.lines, p.id)
        /\ Placed(p, old.lines) => Placed(p, new.lines)
    BY <1>1, <1>2, <1>3, <2>2, <2>3, OthersKept
  <2> QED BY <1>5, <2>4 DEF p
<1>8. \A i \in DOMAIN new.lines : \E q \in DOMAIN queue : new.lines[i].id = queue[q].id
  <2> DEFINE ids == {queue[q].id : q \in DOMAIN queue}
  <2>1. \A i \in DOMAIN old.lines : old.lines[i].id \in ids
    BY <1>5
  <2>2. \A j \in DOMAIN text : text[j].id \in ids
    <3>1. 1 \in DOMAIN queue
      BY <1>1, EmptySeq, LenProperties DEF Shaped
    <3> QED BY <1>5, <3>1
  <2> HIDE DEF text, ids
  <2>3. \A i \in DOMAIN new.lines : new.lines[i].id \in ids
    BY <1>1, <1>2, <1>3, <2>1, <2>2, IdsGrow
  <2> QED BY <2>3 DEF ids
<1>9. \A i : Settled(i)' <=> Settled(i)
  BY <1>1 DEF Settled
<1>10. Written'
  BY <1>1, <1>4, <1>5, <1>7, <1>8, <1>9 DEF Written, new
<1> QED BY <1>6, <1>10 DEF Corpus

LEMMA ForgetCorpus ==
  ASSUME Forget
  PROVE  Corpus'
<1>1. /\ pc' = "idle" /\ best' = <<>> /\ failed' = <<>> /\ queue' = <<>> /\ demo'.buffer = <<>>
  BY DEF Forget, NoDemo
<1>2. Played' /\ Blank' /\ Written'
  BY <1>1 DEF Played, Playing, Blank, Written, Writing, Files
<1>3. Climb' /\ Queued'
  BY <1>1 DEF Climb, Queued
<1> QED BY <1>2, <1>3 DEF Corpus, Numbered

LEMMA CorpusNext == GathererAssumption /\ GInv /\ Shows /\ Corpus /\ [Next]_vars => Corpus'
<1> SUFFICES ASSUME GathererAssumption, GInv, Shows, Corpus, [Next]_vars PROVE Corpus'
  OBVIOUS
<1>0. RInv /\ Typed /\ Shaped /\ Played
  BY DEF GInv, RInv, Corpus, Numbered
<1>1. ASSUME NEW g \in Games, Gather(g) PROVE Corpus'
  BY <1>1, GatherCorpus
<1>2. ASSUME NEW count \in 1 .. game.plan, Begin(count) PROVE Corpus'
  BY <1>0, <1>2, BeginCorpus
<1>3. ASSUME NEW full \in BOOLEAN, NEW low \in BOOLEAN, Search(full, low) PROVE Corpus'
  <2>1. Played'
    BY <1>0, <1>3, SearchPlayed
  <2>2. /\ pc \in Playing /\ pc' \in Playing /\ calls' = calls /\ probes' = probes
        /\ queue' = queue /\ best' = best /\ failed' = failed /\ demo' = demo
    BY <1>3 DEF Search, call, Playing
  <2> QED BY <2>1, <2>2, PlayCorpus
<1>4. ASSUME NEW ends \in BOOLEAN, Move(ends) PROVE Corpus'
  <2>1. Played'
    BY <1>0, <1>4, MovePlayed
  <2>2. /\ pc \in Playing /\ pc' \in Playing /\ calls' = calls /\ probes' = probes
        /\ queue' = queue /\ best' = best /\ failed' = failed /\ demo' = demo
    BY <1>4 DEF Move, call, Playing
  <2> QED BY <2>1, <2>2, PlayCorpus
<1>5. ASSUME NEW g \in Grades, Score(g) PROVE Corpus'
  BY <1>0, <1>5, ScoreCorpus
<1>6. ASSUME NEW g \in Grades, Probe(g) PROVE Corpus'
  BY <1>0, <1>6, ProbeCorpus
<1>7. ASSUME NEW f \in Files, Write(f) PROVE Corpus'
  BY <1>0, <1>7, WriteElsewhere, WriteShard
<1>8. CASE Drop
  BY <1>0, <1>8, DropCorpus
<1>9. CASE DemoEnd
  BY <1>0, <1>9, DemoEndCorpus
<1>10. CASE Return \/ Die
  BY <1>10, ForgetCorpus DEF Return, Die
<1>11. ASSUME NEW kept \in BOOLEAN, DemoStep(kept) \/ DemoSkip PROVE Corpus'
  BY <1>0, <1>11, SkipIsStep, DemoCorpus
<1>12. CASE UNCHANGED vars
  <2>1. /\ pc' = pc /\ calls' = calls /\ probes' = probes /\ queue' = queue /\ best' = best
        /\ failed' = failed /\ demo' = demo /\ turn' = turn /\ files' = files /\ ep' = ep
    BY <1>12 DEF vars, call
  <2>2. Past' = Past /\ \A i : Settled(i)' <=> Settled(i)
    BY <2>1 DEF Past, Settled
  <2>3. Numbered'
    BY <2>1, <2>2 DEF Corpus, Numbered, Played, Climb, Queued, Blank
  <2>4. Written'
    BY <2>1, <2>2 DEF Corpus, Written
  <2> QED BY <2>3, <2>4 DEF Corpus
<1> QED
  BY <1>1, <1>2, <1>3, <1>4, <1>5, <1>6, <1>7, <1>8, <1>9, <1>10, <1>11, <1>12 DEF Next

(* For calls, climbs and episodes of any number and length: when gather      *)
(* returns, the records of its episodes stand in the shard, complete and in  *)
(* order, but for those the filters name, and no others do                   *)
(* (run_episode_from, write_episode, gather_reverse_curriculum).             *)
THEOREM CorpusCorrect == Spec => []CorpusComplete
<1>1. Init => Corpus
  <2> SUFFICES ASSUME Init PROVE Corpus
    OBVIOUS
  <2>1. /\ pc = "idle" /\ best = <<>> /\ failed = <<>> /\ queue = <<>> /\ demo.buffer = <<>>
    BY DEF Init, NoDemo
  <2>2. Played /\ Blank /\ Written
    BY <2>1 DEF Played, Playing, Blank, Written, Writing, Files
  <2>3. Climb /\ Queued
    BY <2>1 DEF Climb, Queued
  <2> QED BY <2>2, <2>3 DEF Corpus, Numbered
<1>2. Init => GInv
  BY GoldStart, GathererAssumption
<1>3. Init => Shows
  BY ShowsStart
<1>4. GInv /\ Shows /\ Corpus /\ [Next]_vars => GInv' /\ Shows' /\ Corpus'
  BY GoldNext, ShowsNext, CorpusNext, GathererAssumption
<1>5. GInv /\ Corpus => CorpusComplete
  BY CorpusEnough DEF GInv
<1> QED BY <1>1, <1>2, <1>3, <1>4, <1>5, PTL DEF Spec
================================================================================
