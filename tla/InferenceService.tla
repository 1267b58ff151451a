--------------------------- MODULE InferenceService ---------------------------
(***************************************************************************)
(* What InferenceClient::infer promises a search: a client has at most one *)
(* request outstanding and is answered once, with the result computed for  *)
(* that very request or, where the handler may fail, with zeros.           *)
(***************************************************************************)
EXTENDS Naturals

CONSTANTS
  Clients,
  MaxReq,   \* request ids are used modulo MaxReq
  MayFail,  \* whether an answer may be the zeros of a failed batch
  Zero      \* those zeros

VARIABLES
  asked,   \* id of the client's latest request
  waiting, \* whether it is still unanswered
  answer   \* the latest answer

vars == <<asked, waiting, answer>>

Init ==
  /\ asked = [c \in Clients |-> MaxReq - 1]
  /\ waiting = [c \in Clients |-> FALSE]
  /\ answer = [c \in Clients |-> Zero]

Ask(c) ==
  /\ ~waiting[c]
  /\ asked' = [asked EXCEPT ![c] = (@ + 1) % MaxReq]
  /\ waiting' = [waiting EXCEPT ![c] = TRUE]
  /\ UNCHANGED answer

Acceptable(c) ==
  {[owner |-> c, req |-> asked[c]]} \cup (IF MayFail THEN {Zero} ELSE {})

Respond(c) ==
  /\ waiting[c]
  /\ waiting' = [waiting EXCEPT ![c] = FALSE]
  /\ \E a \in Acceptable(c) : answer' = [answer EXCEPT ![c] = a]
  /\ UNCHANGED asked

Next == \E c \in Clients : Ask(c) \/ Respond(c)

Spec == Init /\ [][Next]_vars
================================================================================
