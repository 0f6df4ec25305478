----------------------------- MODULE MCGraphTurn ------------------------------
(* Instances of GraphTurn for TLC.                                         *)
EXTENDS GraphTurn

(* Three claims the code does not keep, see the README.                    *)

(* interpreter.py's rule that an output starting with ERROR_PREFIX is      *)
(* always a failure: no accepted step's output is a crashed run's sentinel.*)
CrashedRunIsNeverAccepted ==
  \A i \in DOMAIN results : results[i] # "error"

(* README.md, "no background operation": once the turn is over for its     *)
(* caller, nothing it started changes a file any more.                     *)
NoBackgroundWrites ==
  [][(turn \in Ended) => UNCHANGED <<stepWrites, tornSteps, rootWrites>>]_vars

(* "no files were modified this turn" (core.py:632, 638), which the answer *)
(* says to the user: it is true of the turn's steps, the tool calls that   *)
(* failed half-way included.                                               *)
NoFilesClaimIsTrue ==
  answer.noFiles => tornSteps = {} /\ \A s \in StepIds : stepWrites[s] = 0

===============================================================================
