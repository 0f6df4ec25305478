------------------------------ MODULE StepRunner ------------------------------
(***************************************************************************)
(* What the fixed interpreter promises about one task graph, with nothing  *)
(* of how it does it (harness/interpreter.py, run_task_graph): the steps   *)
(* run one after the other; a step is tried at most twice; it is accepted  *)
(* only after a try; once the walk has halted, crashed or completed it     *)
(* never moves again, and what was accepted stays accepted.                *)
(***************************************************************************)
EXTENDS Naturals

CONSTANT MaxSteps           \* the longest graph considered

VARIABLES
  total,                    \* steps of the graph, 0 while there is no graph
  accepted,                 \* how many steps were accepted
  tries,                    \* tries made at the current step
  state                     \* of the walk

vars == <<total, accepted, tries, state>>

Over == {"completed", "halted", "crashed"}

TypeOK ==
  /\ total \in 0..MaxSteps
  /\ accepted \in 0..total
  /\ tries \in 0..2
  /\ state \in {"idle", "walking"} \cup Over

Init ==
  /\ total = 0
  /\ accepted = 0
  /\ tries = 0
  /\ state = "idle"

(* A validated graph arrives: it has at least one step.                    *)
Start ==
  /\ state = "idle"
  /\ \E n \in 1..MaxSteps : total' = n
  /\ state' = "walking"
  /\ UNCHANGED <<accepted, tries>>

(* One dispatch of the current step: the first one, or the only repair.    *)
Try ==
  /\ state = "walking"
  /\ tries < 2
  /\ tries' = tries + 1
  /\ UNCHANGED <<total, accepted, state>>

Accept ==
  /\ state = "walking"
  /\ tries > 0
  /\ accepted' = accepted + 1
  /\ tries' = 0
  /\ state' = IF accepted + 1 = total THEN "completed" ELSE "walking"
  /\ UNCHANGED total

(* The current step is given up; the accepted ones are kept.               *)
Halt ==
  /\ state = "walking"
  /\ tries > 0
  /\ state' = "halted"
  /\ tries' = 0
  /\ UNCHANGED <<total, accepted>>

(* An exception no step is to blame for, such as an unresolvable tier.     *)
Crash ==
  /\ state = "walking"
  /\ state' = "crashed"
  /\ tries' = 0
  /\ UNCHANGED <<total, accepted>>

Walk == Try \/ Accept \/ Halt \/ Crash

Next == Start \/ Walk

Safe == Init /\ [][Next]_vars

Spec == Safe /\ WF_vars(Walk)

===============================================================================
