-------------------------------- MODULE MCArena --------------------------------
(* Small instances of Arena. *)
EXTENDS Arena, TLC

CONSTANTS c1, c2, h1, h2

OneClient == {c1}
TwoClients == {c1, c2}
OneHandler == {h1}
TwoHandlers == {h1, h2}

FailedBatches == {"infer"}
MetricsFault == {"metrics"}

Symmetry == Permutations(Clients) \cup Permutations(Handlers)
================================================================================
