----------------------------- MODULE PolicyTarget ------------------------------
(***************************************************************************)
(* policy_target and the part of puct_scores it calls, of                   *)
(* mcts-core/src/mcts.rs, and the counts the gatherer makes of its result:  *)
(* forced visits are taken from every root child but the most visited one,  *)
(* as far as that child's PUCT score allows, children left with one visit   *)
(* are dropped, and the rest is scaled back to the number of visits.        *)
(*                                                                         *)
(* The code computes in floating point.  Here every quantity is a rational  *)
(* written with integers: the visits of the root are a square, a prior is   *)
(* w^2 / sum w^2, and the temperature of the root's softmax is 1 or 2, so   *)
(* that w^2 or w is the re-weighted prior before it is normalised.  A value *)
(* includes the edge's penalty.  The order of the loop over the HashMap is  *)
(* any order.                                                               *)
(***************************************************************************)
EXTENDS Integers, FiniteSetsExt, Functions

CONSTANTS
  Children,    \* the root's valid actions, in the order of valid_actions
  Roots,       \* square roots of the numbers of visits
  Weights,     \* square roots of the priors, before they are normalised
  Temps,       \* root_softmax_temp
  Values,      \* value of a child and its penalty, in 1/ValueUnit
  ValueUnit,
  CNum, CDen,  \* c_puct = CNum / CDen
  KForced      \* k_forced

ASSUME PolicyTargetAssumption ==
  /\ Children \subseteq Nat /\ IsFiniteSet(Children) /\ Children # {}
  /\ Roots \subseteq Nat /\ Weights \subseteq Nat /\ Temps \subseteq {1, 2}
  /\ Values \subseteq Int /\ ValueUnit \in Nat \ {0}
  /\ CNum \in Nat \ {0} /\ CDen \in Nat \ {0} /\ KForced \in Nat

VARIABLES
  root,    \* sqrt_n_total
  weight,  \* square roots of node.prior_probs
  temp,    \* self.root_softmax_temp
  visits,  \* node.edge_visits
  value,   \* q_values
  pruned,  \* the map of remaining visits
  todo,    \* children the loop has yet to visit
  target,  \* the counts recorded
  done     \* they have been

inputs == <<root, weight, temp, visits, value>>
vars == <<root, weight, temp, visits, value, pruned, todo, target, done>>

Nothing == [a \in {} |-> 0]
Total(f) == FoldFunction(+, 0, f)
NTotal == root * root
Squared(a) == weight[a] * weight[a]
PriorUnit == Total([a \in Children |-> Squared(a)])

(* The prior puct_scores uses at the root, in 1/EffectiveUnit. *)
Effective(a) == IF temp = 1 THEN Squared(a) ELSE weight[a]
EffectiveUnit == Total([a \in Children |-> Effective(a)])

(* Q, and the exploration terms before they are divided by 1 + n, in one     *)
(* common unit: Gain from the network's prior, EffectiveGain from the one    *)
(* puct_scores uses.                                                        *)
Q(a) == CDen * PriorUnit * EffectiveUnit * value[a]
Gain(a) == CNum * ValueUnit * root * Squared(a) * EffectiveUnit
EffectiveGain(a) == CNum * ValueUnit * root * Effective(a) * PriorUnit

Visited == {a \in Children : visits[a] > 0}

(* The most visited child, the first of them. *)
Best ==
  LET most == Max({visits[a] : a \in Children})
  IN  Min({a \in Children : visits[a] = most})

(* floor(sqrt(k_forced * P(a) * N_total)) *)
NForced(a) ==
  LET forced == KForced * Squared(a) * NTotal
  IN  Max({m \in 0 .. KForced * NTotal : m * m * PriorUnit <= forced})

(* puct_diff, times 1 + the visits of the best child. *)
ScaledDiff(a) == (Q(Best) - Q(a)) * (1 + visits[Best]) + EffectiveGain(Best)

(* A slip: the boundary without its - 1, so one visit too few is taken. *)
MutMaxSubtract(a) ==
  IF ScaledDiff(a) <= 0 THEN 0
  ELSE Max({0, (visits[a] * ScaledDiff(a) - Gain(a) * (1 + visits[Best]))
                 \div ScaledDiff(a)})

(* max_subtract: floor(N(a) - (Gain(a) / puct_diff - 1)), at least 0.        *)
MaxSubtract(a) ==
  IF ScaledDiff(a) <= 0 THEN 0
  ELSE Max({0, ((visits[a] + 1) * ScaledDiff(a) - Gain(a) * (1 + visits[Best]))
                 \div ScaledDiff(a)})

(* What the search hands over: a normalised prior and the visits it made;    *)
(* the value of a child that was never visited is not read.                  *)
Init ==
  /\ root \in Roots
  /\ weight \in [Children -> Weights] /\ PriorUnit > 0
  /\ temp \in Temps
  /\ visits \in [Children -> 0 .. NTotal] /\ Total(visits) = NTotal
  /\ value \in [Children -> Values \union {0}]
  /\ \A a \in Children \ Visited : value[a] = 0
  /\ pruned = visits
  /\ todo = Visited \ {Best}
  /\ target = Nothing /\ done = FALSE

(* One child of the loop over pruned.iter_mut(). *)
Prune(a) ==
  /\ pruned' = IF Squared(a) = 0 THEN pruned
               ELSE [pruned EXCEPT ![a] = Max({0, @ - Min({NForced(a), MaxSubtract(a)})})]
  /\ todo' = todo \ {a}
  /\ UNCHANGED <<inputs, target, done>>

Remaining == {a \in Children : pruned[a] > 1}

(* round(p * n_total), a half rounded up. *)
Scaled(a) ==
  LET kept == Total(Restrict(pruned, Remaining))
  IN  (2 * pruned[a] * NTotal + kept) \div (2 * kept)

(* A slip: nothing is recorded when no child is left with two visits. *)
MutRecorded == IF Remaining = {} THEN Nothing ELSE [a \in Remaining |-> Scaled(a)]

(* What the gatherer records once the loop has ended. *)
Recorded ==
  IF NTotal = 0 THEN Nothing
  ELSE IF Remaining = {} THEN [a \in {Best} |-> NTotal]
  ELSE [a \in Remaining |-> Scaled(a)]

Record ==
  /\ ~done /\ todo = {}
  /\ target' = Recorded /\ done' = TRUE
  /\ UNCHANGED <<inputs, pruned, todo>>

Next == (\E a \in todo : Prune(a)) \/ Record

Spec == Init /\ [][Next]_vars

-----------------------------------------------------------------------------
(* PUCT of child a with n visits, from the network's prior, is at most, or   *)
(* less than, the score puct_scores gives the best child.                    *)
ScoreOf(a, n) == (Q(a) * (1 + n) + Gain(a)) * (1 + visits[Best])
ScoreOfBest(n) == (Q(Best) * (1 + visits[Best]) + EffectiveGain(Best)) * (1 + n)
NotStronger(a, n) == ScoreOf(a, n) <= ScoreOfBest(n)
Weaker(a, n) == ScoreOf(a, n) < ScoreOfBest(n)

(* Whatever the order of the loop, each child it has passed has lost the     *)
(* largest number of visits, up to its forced ones, that leaves its score at *)
(* or below the best child's, and none if no number does; the closed form    *)
(* with a quotient and a floor computes that maximum, and never from the     *)
(* count of another child.  policy_target, mcts.rs:876-915.  Its description *)
(* (806-808, and the comment at 894) wants the score strictly below: where   *)
(* the floor meets the boundary exactly the two scores are equal, and then,  *)
(* and no further, the code takes one visit more than described: with one    *)
(* visit given back a pruned child is strictly weaker in every case.         *)
ForcedVisitsRemoved ==
  \A a \in Visited \ todo :
    /\ pruned[a] = visits[a] - (IF a = Best \/ Squared(a) = 0 THEN 0 ELSE
         Max({0} \union {s \in 1 .. Min({NForced(a), visits[a]}) : NotStronger(a, visits[a] - s)}))
    /\ pruned[a] < visits[a] => Weaker(a, pruned[a] + 1)

(* What is recorded of a search with visits is a target to learn from: it is *)
(* not empty, the most visited child is in it with the largest count, no     *)
(* child below two visits is unless it is alone, and the counts add up to    *)
(* the visits of the root but for the rounding.  mcts.rs:917-927 and         *)
(* gatherer.rs:880-888.                                                      *)
TargetFollowsSearch ==
  done /\ NTotal > 0 =>
    LET kept == DOMAIN target IN
    /\ Best \in kept
    /\ \A a \in kept : target[a] <= target[Best] /\ (visits[a] > 1 \/ kept = {Best})
    /\ 2 * (Total(target) - NTotal) \in -Cardinality(kept) .. Cardinality(kept)
================================================================================
