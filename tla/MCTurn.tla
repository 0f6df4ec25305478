-------------------------------- MODULE MCTurn --------------------------------
EXTENDS Turn

(***************************************************************************)
(* "interrupted" is the outcome of a turn whose worker the user cancelled  *)
(* (memory-bank/logging.md, the outcome state machine of turn.end).        *)
(***************************************************************************)
InterruptedMeansCancelled ==
  \A t \in Turns : \A i \in DOMAIN ends[t] :
    ends[t][i] = "interrupted" => t \in cancelled

===============================================================================
