--------------------------------- MODULE MCMcts ---------------------------------
(* A small environment: a transposition (b and d both lead to c), cycles of    *)
(* length one and three, a terminal state and a dead end.                      *)
EXTENDS Mcts, TLC

Graph ==
  ("a" :> (0 :> "b" @@ 1 :> "end")) @@
  ("b" :> (0 :> "d" @@ 1 :> "c")) @@
  ("c" :> (0 :> "c" @@ 1 :> "stuck")) @@
  ("d" :> (0 :> "c" @@ 1 :> "a")) @@
  ("stuck" :> <<>>) @@
  ("end" :> <<>>)

GraphStates == DOMAIN Graph
Ends == {"end"}
TwoActions == {0, 1}
ThreeSteps == {3}
================================================================================
