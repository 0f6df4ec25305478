------------------------------- MODULE SoloTurn -------------------------------
(***************************************************************************)
(* One turn without a task graph: the agent loop (Agent.run and _run_loop  *)
(* in llm/agent.py) as a task of its own, the generator that consumes its  *)
(* events (Harness._stream_solo in harness/core.py), and the bridge        *)
(* between the two (harness/bridge.py).                                    *)
(*                                                                         *)
(* The loop asks the model, runs the tools it calls, and asks again, on a  *)
(* budget of MaxIterations.  The generator knows that the run is over only *)
(* from the run's own AgentStopped, which the bridge turns into the end    *)
(* mark of the queue; a delegated run announces its end on the same bus.   *)
(* The model is external: it may call tools whenever it is offered any,    *)
(* and answers with or without text.                                       *)
(***************************************************************************)
EXTENDS Naturals, Sequences

CONSTANTS
  MaxIterations,            \* Agent.max_iterations
  MaxTools,                 \* bound: tool calls of one response, or one run
  Files                     \* paths the file tools name

ASSUME IterationsAssumption == MaxIterations \in Nat \ {0}
ASSUME ToolsAssumption == MaxTools \in Nat \ {0}

VARIABLES
  turn,                     \* where the generator _stream_solo is
  subscribed,               \* the bus still has the generator's _on_event
  pc,                       \* where the agent task is
  call,                     \* what the latest request to the model is for
  iteration,                \* turn of _run_loop
  leakedRetryUsed,
  hasText,                  \* _assistant_text: the last response has text
  left,                     \* tool calls of the batch not yet answered
  nestedLeft,               \* tool calls the delegated run may still make
  calls,                    \* usage.record_call()
  queue,                    \* events put and not yet consumed
  shown,                    \* diff events yielded to the caller
  budgetShown,              \* BudgetExhaustedEvent yielded
  filesTouched,
  reported,                 \* the DoneEvent's files_touched
  answered,                 \* the turn yielded an answer
  diffs,                    \* history: successful calls that have a diff
  changed,                  \* history: paths of the file tools that succeeded
  writes                    \* history: calls that changed files, failed or not

loopVars == <<call, iteration, leakedRetryUsed, hasText, left, nestedLeft, calls>>
fileVars == <<filesTouched, diffs, changed, writes>>
eventVars == <<queue, fileVars>>
readerVars == <<turn, subscribed, shown, budgetShown, reported, answered>>

vars == <<turn, subscribed, pc, call, iteration, leakedRetryUsed, hasText, left,
          nestedLeft, calls, queue, shown, budgetShown, filesTouched, reported,
          answered, diffs, changed, writes>>

-------------------------------------------------------------------------------
Over == {"returned", "exceeded", "raised", "cancelled"}

Ended == {"answered", "exhausted", "failed", "cancelled"}

Init ==
  /\ turn = "opening"
  /\ subscribed = FALSE
  /\ pc = "none"
  /\ call = "turn"
  /\ iteration = 1
  /\ leakedRetryUsed = FALSE
  /\ hasText = FALSE
  /\ left = 0
  /\ nestedLeft = 0
  /\ calls = 0
  /\ queue = <<>>
  /\ shown = 0
  /\ budgetShown = FALSE
  /\ filesTouched = {}
  /\ reported = {}
  /\ answered = FALSE
  /\ diffs = 0
  /\ changed = {}
  /\ writes = 0

-------------------------------------------------------------------------------
(* The bus and the bridge *)

Put(events) == queue' = IF subscribed THEN queue \o events ELSE queue

(* Mutant: any run's end is taken for the turn's.                          *)
AnyRunStopped(budgetExhausted, own) ==
  Put((IF own /\ budgetExhausted THEN <<"budget">> ELSE <<>>) \o <<"end">>)

(* Mutant: the end mark comes first.                                       *)
StoppedBeforeBudget(budgetExhausted, own) ==
  Put(IF own THEN <<"end">> \o (IF budgetExhausted THEN <<"budget">> ELSE <<>>)
             ELSE <<>>)

(* bridge_llm_event, AgentStopped: only the turn's own run ends the queue. *)
AgentStopped(budgetExhausted, own) ==
  Put(IF own THEN (IF budgetExhausted THEN <<"budget">> ELSE <<>>) \o <<"end">>
             ELSE <<>>)

(* A file tool succeeds on one path, or on the two of a move or a copy.    *)
(* The edits and the writes with a text have a diff, which stands for all  *)
(* the events of the call; the others have none.                           *)
ToolSucceeds ==
  /\ writes' = writes + 1
  /\ \E f, g \in Files :
       /\ changed' = changed \cup {f, g}
       /\ filesTouched' = IF subscribed THEN filesTouched \cup {f, g} ELSE filesTouched
  /\ \/ diffs' = diffs + 1 /\ Put(<<"diff">>)
     \/ UNCHANGED <<diffs, queue>>

(* A file tool fails after it has changed a file: a write, a move or a     *)
(* copy that breaks off.  Its result is an error, and the bridge does      *)
(* nothing.                                                                *)
ToolBreaksOff ==
  /\ writes' = writes + 1
  /\ UNCHANGED <<queue, filesTouched, diffs, changed>>

(* ToolExecutionCompleted, which the bridge hears of in the same step; the *)
(* call may also have changed nothing.                                     *)
ToolCompleted == ToolSucceeds \/ ToolBreaksOff \/ UNCHANGED eventVars

-------------------------------------------------------------------------------
(* The agent task *)

(* The next request to the model.                                          *)
Ask(purpose, i) ==
  /\ call' = purpose
  /\ iteration' = i
  /\ calls' = calls + 1
  /\ pc' = "asking"
  /\ UNCHANGED eventVars

(* Mutant: the loop does not count.                                        *)
NextIterationUncounted == Ask("turn", iteration + 1)

(* The next turn of the loop, or the closing call when there is none.      *)
NextIteration ==
  Ask(IF iteration < MaxIterations THEN "turn" ELSE "salvage", iteration + 1)

Stop(outcome, budgetExhausted) ==
  /\ pc' = outcome
  /\ AgentStopped(budgetExhausted, TRUE)
  /\ UNCHANGED <<call, iteration, calls, fileVars>>

(* The model calls tools, with or without words around them.               *)
ModelCallsTools ==
  /\ pc = "asking" /\ call = "turn"
  /\ hasText' \in BOOLEAN
  /\ left' \in 1..MaxTools
  /\ pc' = "tools"
  /\ UNCHANGED <<call, iteration, leakedRetryUsed, nestedLeft, calls, eventVars,
                 readerVars>>

(* The model's answer on a turn of the loop.  A leaked tool call is asked  *)
(* for again, once; an answer without text is nudged for one, without      *)
(* tools to call.                                                          *)
ModelAnswers ==
  /\ pc = "asking" /\ call = "turn"
  /\ hasText' \in BOOLEAN
  /\ \/ ~leakedRetryUsed /\ leakedRetryUsed' = TRUE /\ NextIteration
     \/ /\ UNCHANGED leakedRetryUsed
        /\ IF hasText' THEN Stop("returned", FALSE) ELSE Ask("nudge", iteration)
  /\ UNCHANGED <<left, nestedLeft, readerVars>>

(* Mutant: nudge until there is text.                                      *)
NudgeUntilText ==
  /\ pc = "asking" /\ call = "nudge"
  /\ hasText' \in BOOLEAN
  /\ IF hasText' THEN Stop("returned", FALSE) ELSE Ask("nudge", iteration)
  /\ UNCHANGED <<leakedRetryUsed, left, nestedLeft, readerVars>>

(* The answer to the nudge is the run's, text or not.                      *)
NudgeAnswered ==
  /\ pc = "asking" /\ call = "nudge"
  /\ hasText' \in BOOLEAN
  /\ Stop("returned", FALSE)
  /\ UNCHANGED <<leakedRetryUsed, left, nestedLeft, readerVars>>

(* Mutant: a run that was closed with an answer looks like any other.      *)
SalvageUnmarked ==
  /\ pc = "asking" /\ call = "salvage"
  /\ hasText' \in BOOLEAN
  /\ IF hasText' THEN Stop("returned", FALSE) ELSE Stop("exceeded", TRUE)
  /\ UNCHANGED <<leakedRetryUsed, left, nestedLeft, readerVars>>

(* The closing call, after the budget: its text is the answer, and without *)
(* any the run raises MaxIterationsExceeded.                               *)
SalvageAnswered ==
  /\ pc = "asking" /\ call = "salvage"
  /\ hasText' \in BOOLEAN
  /\ Stop(IF hasText' THEN "returned" ELSE "exceeded", TRUE)
  /\ UNCHANGED <<leakedRetryUsed, left, nestedLeft, readerVars>>

(* Mutant: an exception ends the task without a word.                      *)
RunRaisesSilently ==
  /\ pc = "asking" \/ (pc = "tools" /\ left > 0)
  /\ pc' = "raised"
  /\ UNCHANGED <<loopVars, eventVars, readerVars>>

(* The provider raises, or times out; or a call of the batch raises before *)
(* its tool is started: the permission gate is not under the call's try,   *)
(* and the answer that is to be saved cannot be written.                   *)
RunRaises ==
  /\ pc = "asking" \/ (pc = "tools" /\ left > 0)
  /\ Stop("raised", FALSE)
  /\ UNCHANGED <<leakedRetryUsed, hasText, left, nestedLeft, readerVars>>

(* A call of the batch is answered: done, refused, failed or timed out.    *)
ToolEnds ==
  /\ pc = "tools" /\ left > 0
  /\ left' = left - 1
  /\ ToolCompleted
  /\ UNCHANGED <<pc, call, iteration, leakedRetryUsed, hasText, nestedLeft, calls,
                 readerVars>>

(* The delegate tool: a nested run on the same bus.                        *)
Delegate ==
  /\ pc = "tools" /\ left > 0
  /\ pc' = "nested"
  /\ nestedLeft' = MaxTools
  /\ UNCHANGED <<call, iteration, leakedRetryUsed, hasText, left, calls, eventVars,
                 readerVars>>

NestedTool ==
  /\ pc = "nested" /\ nestedLeft > 0
  /\ nestedLeft' = nestedLeft - 1
  /\ ToolCompleted
  /\ UNCHANGED <<pc, call, iteration, leakedRetryUsed, hasText, left, calls, readerVars>>

(* The nested run ends: answered, raised, or cut off by the tool timeout;  *)
(* it emits an AgentStopped of its own in every case.                      *)
NestedEnds ==
  /\ pc = "nested"
  /\ pc' = "tools"
  /\ left' = left - 1
  /\ nestedLeft' = 0
  /\ \E budgetExhausted \in BOOLEAN : AgentStopped(budgetExhausted, FALSE)
  /\ UNCHANGED <<call, iteration, leakedRetryUsed, hasText, calls, fileVars,
                 readerVars>>

(* All results are in.                                                     *)
BatchEnds ==
  /\ pc = "tools" /\ left = 0
  /\ NextIteration
  /\ UNCHANGED <<leakedRetryUsed, hasText, left, nestedLeft, readerVars>>

AgentStep ==
  \/ ModelCallsTools \/ ModelAnswers \/ NudgeAnswered \/ SalvageAnswered \/ RunRaises
  \/ ToolEnds \/ Delegate \/ NestedTool \/ NestedEnds \/ BatchEnds

-------------------------------------------------------------------------------
(* The generator *)

(* The agent is built, the bridge subscribed and the task started, which   *)
(* asks the model at once.                                                 *)
Open ==
  /\ turn = "opening"
  /\ turn' = "reading"
  /\ subscribed' = TRUE
  /\ Ask("turn", 1)
  /\ UNCHANGED <<leakedRetryUsed, hasText, left, nestedLeft, shown, budgetShown,
                 reported, answered>>

(* The tier cannot be resolved: nothing was started yet.                   *)
OpenFails ==
  /\ turn = "opening"
  /\ turn' = "failed"
  /\ UNCHANGED <<pc, loopVars, eventVars, subscribed, shown, budgetShown, reported, answered>>

(* An event is yielded, or the end mark ends the loop.                     *)
Read ==
  /\ turn = "reading"
  /\ queue # <<>>
  /\ queue' = Tail(queue)
  /\ shown' = IF Head(queue) = "diff" THEN shown + 1 ELSE shown
  /\ budgetShown' = (budgetShown \/ Head(queue) = "budget")
  /\ turn' = IF Head(queue) = "end" THEN "joining" ELSE "reading"
  /\ UNCHANGED <<pc, loopVars, subscribed, fileVars, reported, answered>>

(* await agent_task, the DoneEvent, and the answer, if the run has one that*)
(* is not empty when cleaned of leaked markup.                             *)
Join ==
  /\ turn = "joining"
  /\ pc \in Over
  /\ subscribed' = FALSE
  /\ \/ /\ pc = "returned"
        /\ turn' = "answered"
        /\ reported' = filesTouched
        /\ answered' \in (IF hasText THEN BOOLEAN ELSE {FALSE})
     \/ /\ pc = "exceeded"
        /\ turn' = "exhausted"
        /\ reported' = filesTouched
        /\ UNCHANGED answered
     \/ /\ pc = "raised"
        /\ turn' = "failed"
        /\ UNCHANGED <<reported, answered>>
  /\ UNCHANGED <<pc, loopVars, eventVars, shown, budgetShown>>

(* Mutant: the agent task is left to itself, as the graph task is.         *)
CancelGeneratorOnly ==
  /\ turn \notin Ended
  /\ turn' = "cancelled"
  /\ subscribed' = FALSE
  /\ UNCHANGED <<pc, loopVars, eventVars, shown, budgetShown, reported, answered>>

(* The generator is closed: its finally cancels the agent task, which does *)
(* nothing more, and unsubscribes.                                         *)
Cancel ==
  /\ turn \notin Ended
  /\ turn' = "cancelled"
  /\ subscribed' = FALSE
  /\ pc' = IF pc \in Over \cup {"none"} THEN pc ELSE "cancelled"
  /\ UNCHANGED <<loopVars, eventVars, shown, budgetShown, reported, answered>>

GeneratorStep == Open \/ OpenFails \/ Read \/ Join

Next == AgentStep \/ GeneratorStep \/ Cancel

(* The event loop runs both tasks, and a request to the model ends.  The   *)
(* agent task is bounded by its budget: no choice of the model has to be   *)
(* fair.                                                                   *)
Fairness == WF_vars(AgentStep) /\ WF_vars(GeneratorStep)

Safe == Init /\ [][Next]_vars

Spec == Safe /\ Fairness

-------------------------------------------------------------------------------
(* Properties *)

TypeOK ==
  /\ turn \in {"opening", "reading", "joining"} \cup Ended
  /\ subscribed \in BOOLEAN
  /\ pc \in {"none", "asking", "tools", "nested"} \cup Over
  /\ call \in {"turn", "nudge", "salvage"}
  /\ iteration \in 1..(MaxIterations + 1)
  /\ leakedRetryUsed \in BOOLEAN
  /\ hasText \in BOOLEAN
  /\ left \in 0..MaxTools
  /\ nestedLeft \in 0..MaxTools
  /\ calls \in Nat
  /\ queue \in Seq({"diff", "budget", "end"})
  /\ shown \in Nat
  /\ budgetShown \in BOOLEAN
  /\ filesTouched \subseteq Files
  /\ reported \subseteq Files
  /\ answered \in BOOLEAN
  /\ diffs \in Nat
  /\ changed \subseteq Files
  /\ writes \in Nat

(* The generator stops reading at the end mark: whatever the run, its      *)
(* tools and the runs it delegated to put, nothing is ever behind the mark,*)
(* and the mark is there only when the run is over.                        *)
EndMarkIsLast ==
  \A i \in DOMAIN queue :
    queue[i] = "end" => i = Len(queue) /\ pc \in Over

(* A turn that is done has yielded the diff of every successful call that  *)
(* has one, those of the runs it delegated to included, and its DoneEvent  *)
(* names the paths of the successful file tools and no others: a call that *)
(* failed before or after is in neither, although it may have changed a    *)
(* file.                                                                   *)
DoneReportsWhatSucceeded ==
  turn \in {"answered", "exhausted"} => shown = diffs /\ reported = changed

(* The model is asked at most once more than the budget allows, for        *)
(* whatever mix of tool calls, leaked calls, empty answers and nudges.     *)
ModelCallsAreBounded == calls <= MaxIterations + 1

(* The caller is told that the budget was exhausted exactly when the run   *)
(* had to be closed by the salvage call; that is what the app's single     *)
(* automatic continuation hangs on.                                        *)
BudgetIsReported ==
  turn \in {"answered", "exhausted"} => (budgetShown <=> call = "salvage")

(* Once the turn is over for its caller, the run it started changes no     *)
(* file any more: README.md's "no background operation", on this path.     *)
NothingAfterTheTurn == [][(turn \in Ended) => writes' = writes]_vars

(* The caller is never left waiting for a run that is over, or that goes   *)
(* on forever.                                                             *)
TurnEnds == <>(turn \in Ended)

===============================================================================
