-------------------------- MODULE ReverseCurriculum ----------------------------
(***************************************************************************)
(* gather_reverse_curriculum and next_probe_k of                            *)
(* mcts-tilers/src/gatherer.rs: the search for the longest tail of the      *)
(* heuristic plan the agent still solves, by doubling until a first failure *)
(* and bisecting afterwards, within a budget of probes.                     *)
(*                                                                         *)
(* A probe is one episode of the agent from the state k actions before the  *)
(* end; the agent may solve a long tail and fail a shorter one, so its      *)
(* result is any of the two.  An episode is kept as the tail it was played  *)
(* on, 0 when there is none.                                                *)
(***************************************************************************)
EXTENDS Integers, Sequences

CONSTANTS
  Lens,       \* the lengths of heuristic plans
  KStart,     \* reverse_curriculum_k_start_actions
  Budgets     \* values of reverse_curriculum_max_probes

(* set_reverse_curriculum raises both settings to 1; gather() enters with a  *)
(* plan of at least reverse_curriculum_min_len actions, which is positive.   *)
ASSUME ReverseCurriculumAssumption ==
  Lens \subseteq Nat \ {0} /\ KStart \in Nat \ {0} /\ Budgets \subseteq Nat \ {0}

VARIABLES
  len,     \* plan.len()
  budget,  \* self.reverse_curriculum_max_probes
  lo,      \* largest tail solved, 0 = none yet
  hi,      \* smallest tail failed, len + 1 = none yet
  k,       \* tail of the next probe
  best,    \* tail of the kept solved episode
  failed,  \* tail of the kept failed episode
  probes,  \* probes made
  stop,    \* why the loop ended; "no" while it runs
  solved,  \* history: the tails solved
  unsolved,\* history: the tails failed
  written  \* tails of the episodes written, in order

vars == <<len, budget, lo, hi, k, best, failed, probes, stop, solved, unsolved, written>>

Lesser(a, b) == IF a <= b THEN a ELSE b

None == 0

Init ==
  /\ len \in Lens /\ budget \in Budgets
  /\ lo = 0 /\ hi = len + 1
  /\ k = Lesser(KStart, len)
  /\ best = 0 /\ failed = 0
  /\ probes = 0 /\ stop = "no"
  /\ solved = {} /\ unsolved = {} /\ written = <<>>

(* A slip: a failure of the whole plan is taken for no failure yet. *)
MutUnbracketed(at, low, high) ==
  IF high >= len THEN Lesser(2 * at, len)
  ELSE IF high - low > 1 THEN low + (high - low) \div 2
  ELSE None

(* A slip: the bisection steps up by one. *)
MutLinear(at, low, high) ==
  IF high > len THEN Lesser(2 * at, len)
  ELSE IF high - low > 1 THEN low + 1
  ELSE None

(* A slip: the search ends one tail early. *)
MutEarly(at, low, high) ==
  IF high > len THEN Lesser(2 * at, len)
  ELSE IF high - low > 2 THEN low + (high - low) \div 2
  ELSE None

(* next_probe_k without its last test: double, or bisect. *)
Candidate(at, low, high) ==
  IF high > len THEN Lesser(2 * at, len)
  ELSE IF high - low > 1 THEN low + (high - low) \div 2
  ELSE None

(* next_probe_k: no candidate, or the tail solved last, is None. *)
NextProbeK(at, low, high) ==
  LET next == Candidate(at, low, high)
  IN IF next = low THEN None ELSE next

(* The tail of the loop body: probe next, or leave the loop. *)
Continue(low, high) ==
  LET next == NextProbeK(k, low, high)
  IN IF next = None THEN stop' = "pinned" /\ UNCHANGED k
                    ELSE stop' = "no" /\ k' = next

Probing == stop = "no" /\ probes < budget

(* run_episode_from solves the tail: o.done. *)
ProbeSolved ==
  /\ Probing
  /\ lo' = k /\ best' = k
  /\ IF k >= len THEN stop' = "solved" /\ UNCHANGED k ELSE Continue(k, hi)
  /\ probes' = probes + 1 /\ solved' = solved \cup {k}
  /\ UNCHANGED <<len, budget, hi, failed, unsolved, written>>

ProbeFailed ==
  /\ Probing
  /\ hi' = k /\ failed' = k
  /\ Continue(lo, k)
  /\ probes' = probes + 1 /\ unsolved' = unsolved \cup {k}
  /\ UNCHANGED <<len, budget, lo, best, solved, written>>

BudgetSpent ==
  /\ stop = "no" /\ probes = budget
  /\ stop' = "budget"
  /\ UNCHANGED <<len, budget, lo, hi, k, best, failed, probes, solved, unsolved, written>>

(* write_episode for the best and for the failed outcome. *)
Write ==
  /\ stop \notin {"no", "returned"}
  /\ written' = (IF best = 0 THEN <<>> ELSE <<best>>) \o (IF failed = 0 THEN <<>> ELSE <<failed>>)
  /\ stop' = "returned"
  /\ UNCHANGED <<len, budget, lo, hi, k, best, failed, probes, solved, unsolved>>

Next == ProbeSolved \/ ProbeFailed \/ BudgetSpent \/ Write

Spec == Init /\ [][Next]_vars

--------------------------------------------------------------------------------
Endings == {"no", "solved", "pinned", "budget", "returned"}

TypeOK ==
  /\ len \in Lens /\ budget \in Budgets
  /\ lo \in 0 .. len /\ hi \in 1 .. len + 1 /\ k \in 1 .. len
  /\ best \in 0 .. len /\ failed \in 0 .. len
  /\ probes \in 0 .. budget /\ stop \in Endings
  /\ solved \subseteq 1 .. len /\ unsolved \subseteq 1 .. len

(* The kept episodes are the ends of the bracket: the longest tail solved    *)
(* and the shortest one failed, every solved one being shorter than every    *)
(* failed one, though the agent may well solve longer tails than it fails    *)
(* (gather_reverse_curriculum: "lo = largest solved, hi = smallest failed"). *)
IsLongest(t, S) == IF S = {} THEN t = 0 ELSE t \in S /\ \A s \in S : s <= t
IsShortest(t, S) == IF S = {} THEN t = 0 ELSE t \in S /\ \A s \in S : t <= s

KeptAtTheEdge ==
  /\ \A s \in solved : \A f \in unsolved : s < f
  /\ IsLongest(best, solved)
  /\ IsShortest(failed, unsolved)

(* No episode is spent on a tail whose result is known: every probe lies     *)
(* strictly inside the bracket (next_probe_k).                               *)
NothingProbedTwice ==
  stop = "no" => /\ \A s \in solved : s < k
                 /\ \A f \in unsolved : k < f

(* A search that ends before its budget has found the edge, and keeps the   *)
(* two episodes at it: the one of the longest tail solved, and the one of   *)
(* the next longer tail, which failed, or none because all of the plan is   *)
(* solved.                                                                  *)
EdgePinned ==
  stop # "no" /\ probes < budget =>
    /\ KeptAtTheEdge
    /\ failed = best + 1 \/ (best = len /\ failed = 0)

(* "brackets the frontier fast": the probes made are at most twice the       *)
(* binary logarithm of the plan's length, and two.  Powers(n) lists the      *)
(* powers of two up to the n-th.                                             *)
Powers(n) == LET p[e \in 0 .. n] == IF e = 0 THEN 1 ELSE 2 * p[e - 1] IN p
Log2(n) == CHOOSE e \in 0 .. n : Powers(n)[e] <= n /\ n < 2 * Powers(n)[e]

ProbesLogarithmic == probes <= 2 * Log2(len) + 2

================================================================================
