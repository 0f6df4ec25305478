------------------------------ MODULE GraphTurn -------------------------------
(***************************************************************************)
(* One turn of the mutation path: Harness._stream_graph in                 *)
(* harness/core.py, the interpreter it starts as a task of its own         *)
(* (harness/interpreter.py, run_task_graph), the nested subagent runs that *)
(* touch files (harness/dispatch.py, run_subagent), the bridge from tool   *)
(* events to the turn's queue and diff sink (harness/bridge.py), and the   *)
(* synthesis of the answer (Harness._respond).                             *)
(*                                                                         *)
(* Two coroutines interleave: the graph task, whose program counter is pc, *)
(* and the generator that consumes the queue, whose state is turn.  The    *)
(* user may cancel the generator at any moment.  A nested run is the       *)
(* sequence of its file-changing tool calls followed by its outcome.       *)
(***************************************************************************)
EXTENDS Naturals, Sequences, Functions

CONSTANTS
  MaxSteps,                 \* longest graph the sequencer returns
  MaxTools,                 \* file-changing tool calls of one turn
  Files                     \* paths the tools name

ASSUME StepsAssumption == MaxSteps \in Nat \ {0}
ASSUME ToolsAssumption == MaxTools \in Nat

VARIABLES
  turn,                     \* where the generator _stream_graph is
  subscribed,               \* the bus still has the turn's _on_event
  total,                    \* len(graph), 0 before the sequencer answers
  pc,                       \* where the graph task is
  step,                     \* the interpreter's index + 1
  attempt,                  \* 0 the first dispatch of the step, 1 its repair
  tools,                    \* file-changing tool calls so far (bound)
  out,                      \* the latest dispatch's output
  results,                  \* outputs of the accepted steps: prior_outputs
  sink,                     \* dispatch_diff_sink
  mutations,                \* dispatch_mutation_count[0]
  diffsBefore,              \* dispatch(): diffs_before
  mutationsBefore,          \* dispatch(): mutations_before
  cell,                     \* last_dispatch_diffs_cell[0], as positions in sink
  delta,                    \* last_dispatch_files_delta[0]
  queue,                    \* events put and not yet consumed
  shown,                    \* events yielded to the caller, oldest first
  touched,                  \* files_touched
  answer,                   \* the turn's answer, or NoAnswer
  verdicts,                 \* history: what the verifier judged, and how
  stepWrites,               \* history: file tools' successful changes, by step
  tornSteps,                \* history: steps a failed file tool changed files in
  rootWrites                \* history: changes of the synthesis run

walkVars == <<total, pc, step, attempt, out, results>>
diffVars == <<sink, mutations, touched>>
cellVars == <<cell, delta>>
histVars == <<verdicts, stepWrites, tornSteps, rootWrites>>

vars == <<turn, subscribed, total, pc, step, attempt, tools, out, results, sink,
          mutations, diffsBefore, mutationsBefore, cell, delta, queue, shown,
          touched, answer, verdicts, stepWrites, tornSteps, rootWrites>>

-------------------------------------------------------------------------------
(* Data *)

StepIds == 1..MaxSteps

(* How a successful tool call reaches the bridge: via of the DiffEvent it  *)
(* emits, or "none" when it changes a file and emits no diff (make_dir,    *)
(* delete, move, copy, an empty write, an edit whose text is the same).    *)
Vias == {"edit_file", "overwrite", "write_file", "none"}

(* verify_agent: the diffs that count as code changes.                     *)
CodingVias == {"edit_file", "overwrite"}

(* A diff remembers the dispatch that made it: step and attempt are        *)
(* history, only coding is read by the program.                            *)
Diff == [step : StepIds, attempt : {0, 1}, coding : BOOLEAN]

(* Mutant: a run without text returns its empty text.                      *)
OutputMayBeEmpty(o) ==
  IF o = "raised" THEN "error" ELSE IF o = "text" THEN "text" ELSE "empty"

(* run_subagent's conversion of what a nested run ended with; a run with   *)
(* no text gets a placeholder, any exception the error prefix.             *)
Outcomes == {"text", "no_text", "raised"}
Output(o) ==
  IF o = "raised" THEN "error" ELSE IF o = "text" THEN "text" ELSE "placeholder"

(* run_task_graph: the first dispatch's outputs that halt the walk.        *)
Unusable == {"empty", "error"}

AfterDispatch(o) ==
  IF attempt = 0 /\ Output(o) \in Unusable THEN "halted" ELSE "gate"

NoAnswer == [kind |-> "none", noFiles |-> FALSE]

(* The generator has returned or raised: the turn is over for its caller.  *)
Ended == {"solo", "failed", "cancelled", "answered"}

(* Queued and yielded events; pos is a diff's position in the sink, or 0.  *)
EventKinds == {"graph_started", "diff", "verify_ok", "verify_failed",
               "verify_skipped", "halted", "done", "answer"}
Events == [kind : EventKinds, step : Nat, pos : Nat]
Event(kind, s, k) == [kind |-> kind, step |-> s, pos |-> k]

(* The code changes the gate sees of the latest dispatch.                  *)
CodingDiffs == {k \in cell : sink[k].coding}

-------------------------------------------------------------------------------
Init ==
  /\ turn = "sequencing"
  /\ subscribed = TRUE
  /\ total = 0
  /\ pc = "none"
  /\ step = 1
  /\ attempt = 0
  /\ tools = 0
  /\ out = "none"
  /\ results = <<>>
  /\ sink = <<>>
  /\ mutations = 0
  /\ diffsBefore = 0
  /\ mutationsBefore = 0
  /\ cell = {}
  /\ delta = 0
  /\ queue = <<>>
  /\ shown = <<>>
  /\ touched = {}
  /\ answer = NoAnswer
  /\ verdicts = {}
  /\ stepWrites = [s \in StepIds |-> 0]
  /\ tornSteps = {}
  /\ rootWrites = 0

-------------------------------------------------------------------------------
(* The sequencer's answer *)

(* A valid graph: the graph task is created and will run on its own.       *)
SequenceGraph ==
  /\ turn = "sequencing"
  /\ \E n \in StepIds : total' = n
  /\ turn' = "consuming"
  /\ pc' = "dispatch"
  /\ shown' = Append(shown, Event("graph_started", 0, 0))
  /\ UNCHANGED <<subscribed, step, attempt, tools, out, results, diffsBefore,
                 mutationsBefore, queue, answer, diffVars, cellVars, histVars>>

(* ValueError: the turn goes on as a solo run (not modelled here).  Any    *)
(* other exception leaves the generator before its try block.              *)
SequenceFails ==
  /\ turn = "sequencing"
  /\ \/ turn' = "solo"   /\ subscribed' = FALSE
     \/ turn' = "failed" /\ UNCHANGED subscribed
  /\ UNCHANGED <<tools, diffsBefore, mutationsBefore, queue, shown, answer,
                 walkVars, diffVars, cellVars, histVars>>

-------------------------------------------------------------------------------
(* The graph task *)

(* dispatch() up to the start of the nested run.                           *)
Dispatch ==
  /\ pc = "dispatch"
  /\ pc' = "running"
  /\ diffsBefore' = Len(sink)
  /\ mutationsBefore' = mutations
  /\ UNCHANGED <<turn, subscribed, total, step, attempt, tools, out, results,
                 queue, shown, answer, diffVars, cellVars, histVars>>

(* A touchpoint cannot be resolved, or the agent cannot be built: the      *)
(* exception leaves run_task_graph.                                        *)
GraphRaises ==
  /\ \/ pc = "dispatch"
     \/ pc = "gate" /\ CodingDiffs # {}
  /\ pc' = "raised"
  /\ UNCHANGED <<turn, subscribed, total, step, attempt, tools, out, results,
                 diffsBefore, mutationsBefore, queue, shown, answer, diffVars,
                 cellVars, histVars>>

(* Mutant: files_touched is filled where the diffs are emitted.            *)
ToolCallTouchesOnDiff ==
  /\ pc = "running"
  /\ tools < MaxTools
  /\ tools' = tools + 1
  /\ stepWrites' = [stepWrites EXCEPT ![step] = @ + 1]
  /\ \E via \in Vias, f \in Files :
       IF subscribed
         THEN /\ mutations' = mutations + 1
              /\ IF via = "none"
                   THEN UNCHANGED <<sink, queue, touched>>
                   ELSE /\ touched' = touched \cup {f}
                        /\ sink' = Append(sink, [step |-> step, attempt |-> attempt,
                                                 coding |-> via \in CodingVias])
                        /\ queue' = Append(queue, Event("diff", step, Len(sink) + 1))
         ELSE UNCHANGED <<diffVars, queue>>
  /\ UNCHANGED <<turn, subscribed, diffsBefore, mutationsBefore, shown, answer,
                 verdicts, tornSteps, rootWrites, walkVars, cellVars>>

(* A file tool of the nested run succeeds; the bridge, if still            *)
(* subscribed, records it in the same event-loop step.  The hunks of one   *)
(* edit count as one diff, the two paths of a move or a copy as one        *)
(* mutation of one file.  What a shell command changes is no file tool's   *)
(* change: neither the bridge nor the gate knows of it.                    *)
ToolCall ==
  /\ pc = "running"
  /\ tools < MaxTools
  /\ tools' = tools + 1
  /\ stepWrites' = [stepWrites EXCEPT ![step] = @ + 1]
  /\ \E via \in Vias, f \in Files :
       IF subscribed
         THEN /\ mutations' = mutations + 1
              /\ touched' = touched \cup {f}
              /\ IF via = "none"
                   THEN UNCHANGED <<sink, queue>>
                   ELSE /\ sink' = Append(sink, [step |-> step, attempt |-> attempt,
                                                 coding |-> via \in CodingVias])
                        /\ queue' = Append(queue, Event("diff", step, Len(sink) + 1))
         ELSE UNCHANGED <<diffVars, queue>>
  /\ UNCHANGED <<turn, subscribed, diffsBefore, mutationsBefore, shown, answer,
                 verdicts, tornSteps, rootWrites, walkVars, cellVars>>

(* A file tool fails after it has changed a file: a write breaks off       *)
(* between emptying the file and filling it, a move between its copy and   *)
(* its unlink, a copy in its middle.  The result is an exception or an     *)
(* "error: " text, and for the bridge the call did nothing.                *)
ToolBreaksOff ==
  /\ pc = "running"
  /\ tools < MaxTools
  /\ tools' = tools + 1
  /\ tornSteps' = tornSteps \cup {step}
  /\ UNCHANGED <<turn, subscribed, diffsBefore, mutationsBefore, queue, shown,
                 answer, verdicts, stepWrites, rootWrites, walkVars, diffVars,
                 cellVars>>

(* Mutant: the whole sink is published, not this dispatch's part of it.    *)
RunEndsWithWholeSink ==
  /\ pc = "running"
  /\ \E o \in Outcomes :
       /\ out' = Output(o)
       /\ pc' = AfterDispatch(o)
  /\ cell' = 1..Len(sink)
  /\ delta' = mutations - mutationsBefore
  /\ UNCHANGED <<turn, subscribed, total, step, attempt, tools, results,
                 diffsBefore, mutationsBefore, queue, shown, answer, diffVars,
                 histVars>>

(* The nested run ends, dispatch() publishes its diffs, and the            *)
(* interpreter looks at the output: only the first dispatch's output can   *)
(* halt the walk by itself.                                                *)
RunEnds ==
  /\ pc = "running"
  /\ \E o \in Outcomes :
       /\ out' = Output(o)
       /\ pc' = AfterDispatch(o)
  /\ cell' = (diffsBefore + 1)..Len(sink)
  /\ delta' = mutations - mutationsBefore
  /\ UNCHANGED <<turn, subscribed, total, step, attempt, tools, results,
                 diffsBefore, mutationsBefore, queue, shown, answer, diffVars,
                 histVars>>

(* The step's output joins the results; the walk goes to the next step.    *)
AcceptStep ==
  /\ results' = Append(results, out)
  /\ IF step < total
       THEN /\ pc' = "dispatch"
            /\ step' = step + 1
            /\ attempt' = 0
       ELSE pc' = "done" /\ UNCHANGED <<step, attempt>>

(* Mutant: the gate skips on the new-file writes of a dispatch, whatever   *)
(* else it changed.                                                        *)
GateSkipsOnAnyNewFile ==
  /\ pc = "gate"
  /\ \/ CodingDiffs = {}
     \/ \E k \in cell : ~sink[k].coding
  /\ attempt = 0
  /\ queue' = IF delta > 0 THEN Append(queue, Event("verify_skipped", step, 0)) ELSE queue
  /\ AcceptStep
  /\ UNCHANGED <<turn, subscribed, total, tools, out, diffsBefore,
                 mutationsBefore, shown, answer, diffVars, cellVars, histVars>>

(* Mutant: a repair without a code change has nothing to check either.     *)
GateSkipsRepairToo ==
  /\ pc = "gate"
  /\ CodingDiffs = {}
  /\ queue' = IF delta > 0 THEN Append(queue, Event("verify_skipped", step, 0)) ELSE queue
  /\ AcceptStep
  /\ UNCHANGED <<turn, subscribed, total, tools, out, diffsBefore,
                 mutationsBefore, shown, answer, diffVars, cellVars, histVars>>

(* Mutant: never emit on a skip.                                           *)
GateSkipsSilently ==
  /\ pc = "gate"
  /\ CodingDiffs = {}
  /\ attempt = 0
  /\ AcceptStep
  /\ UNCHANGED queue
  /\ UNCHANGED <<turn, subscribed, total, tools, out, diffsBefore,
                 mutationsBefore, shown, answer, diffVars, cellVars, histVars>>

(* verify_agent, nothing to judge on a first dispatch: accepted as is; a   *)
(* run that changed files all the same is reported.                        *)
GateSkips ==
  /\ pc = "gate"
  /\ CodingDiffs = {}
  /\ attempt = 0
  /\ queue' = IF delta > 0 THEN Append(queue, Event("verify_skipped", step, 0)) ELSE queue
  /\ AcceptStep
  /\ UNCHANGED <<turn, subscribed, total, tools, out, diffsBefore,
                 mutationsBefore, shown, answer, diffVars, cellVars, histVars>>

(* verify_agent, a repair without a code change: fail closed.              *)
GateRejectsRepair ==
  /\ pc = "gate"
  /\ CodingDiffs = {}
  /\ attempt = 1
  /\ queue' = Append(queue, Event("verify_failed", step, 0))
  /\ pc' = "halted"
  /\ UNCHANGED <<turn, subscribed, total, step, attempt, tools, out, results,
                 diffsBefore, mutationsBefore, shown, answer, diffVars,
                 cellVars, histVars>>

(* verify_agent, a code change: the verifier is called.                    *)
GateVerifies ==
  /\ pc = "gate"
  /\ CodingDiffs # {}
  /\ pc' = "verifying"
  /\ UNCHANGED <<turn, subscribed, total, step, attempt, tools, out, results,
                 diffsBefore, mutationsBefore, queue, shown, answer, diffVars,
                 cellVars, histVars>>

(* The verifier answers.  It never raises: a broken verifier answers ok.   *)
Verdict(ok) ==
  /\ pc = "verifying"
  /\ verdicts' = verdicts \cup {[step |-> step, attempt |-> attempt, ok |-> ok,
                                 diffs |-> CodingDiffs]}
  /\ queue' = Append(queue, Event(IF ok THEN "verify_ok" ELSE "verify_failed", step, 0))
  /\ UNCHANGED <<turn, subscribed, total, tools, out, diffsBefore,
                 mutationsBefore, shown, answer, stepWrites, tornSteps, rootWrites,
                 diffVars, cellVars>>

(* Mutant: repair as long as the verifier is not satisfied.                *)
VerifierAlwaysAsksRepair ==
  /\ Verdict(FALSE)
  /\ attempt' = 1
  /\ pc' = "dispatch"
  /\ UNCHANGED <<step, results>>

VerifierPasses == Verdict(TRUE) /\ AcceptStep

VerifierAsksRepair ==
  /\ Verdict(FALSE)
  /\ attempt = 0
  /\ attempt' = 1
  /\ pc' = "dispatch"
  /\ UNCHANGED <<step, results>>

VerifierHalts ==
  /\ Verdict(FALSE)
  /\ attempt = 1
  /\ pc' = "halted"
  /\ UNCHANGED <<step, attempt, results>>

GraphStep ==
  \/ Dispatch \/ GraphRaises \/ ToolCall \/ ToolBreaksOff \/ RunEnds
  \/ GateSkips \/ GateRejectsRepair \/ GateVerifies
  \/ VerifierPasses \/ VerifierAsksRepair \/ VerifierHalts

-------------------------------------------------------------------------------
(* The generator *)

(* Both loops: poll the queue while the graph task runs, drain it after.   *)
Yield ==
  /\ turn = "consuming"
  /\ queue # <<>>
  /\ shown' = Append(shown, Head(queue))
  /\ queue' = Tail(queue)
  /\ UNCHANGED <<turn, subscribed, tools, diffsBefore, mutationsBefore, answer,
                 walkVars, diffVars, cellVars, histVars>>

(* Mutant: the turn finishes as soon as the graph task has.                *)
GraphFinishedUndrained ==
  /\ turn = "consuming"
  /\ pc \in {"done", "halted"}
  /\ turn' = "responding"
  /\ shown' = shown \o (IF pc = "halted" THEN <<Event("halted", step, 0)>> ELSE <<>>)
                    \o <<Event("done", 0, 0)>>
  /\ UNCHANGED <<subscribed, tools, diffsBefore, mutationsBefore, queue, answer,
                 walkVars, diffVars, cellVars, histVars>>

(* Mutant: a halted walk is not caught.                                    *)
GraphFinishedUnlessHalted ==
  /\ turn = "consuming"
  /\ pc = "done"
  /\ queue = <<>>
  /\ turn' = "responding"
  /\ shown' = shown \o (IF pc = "halted" THEN <<Event("halted", step, 0)>> ELSE <<>>)
                    \o <<Event("done", 0, 0)>>
  /\ UNCHANGED <<subscribed, tools, diffsBefore, mutationsBefore, queue, answer,
                 walkVars, diffVars, cellVars, histVars>>

(* The graph task has returned or halted and the queue is drained.         *)
GraphFinished ==
  /\ turn = "consuming"
  /\ pc \in {"done", "halted"}
  /\ queue = <<>>
  /\ turn' = "responding"
  /\ shown' = shown \o (IF pc = "halted" THEN <<Event("halted", step, 0)>> ELSE <<>>)
                    \o <<Event("done", 0, 0)>>
  /\ UNCHANGED <<subscribed, tools, diffsBefore, mutationsBefore, queue, answer,
                 walkVars, diffVars, cellVars, histVars>>

(* The graph task raised something else: the exception leaves the turn.    *)
GraphFailed ==
  /\ turn = "consuming"
  /\ pc = "raised"
  /\ queue = <<>>
  /\ turn' = "failed"
  /\ subscribed' = FALSE
  /\ UNCHANGED <<tools, diffsBefore, mutationsBefore, queue, shown, answer,
                 walkVars, diffVars, cellVars, histVars>>

(* _respond runs root with its full tool set on no bus: what its tools     *)
(* change is in no diff and in no files_touched.                           *)
RespondTool ==
  /\ turn = "responding"
  /\ tools < MaxTools
  /\ tools' = tools + 1
  /\ rootWrites' = rootWrites + 1
  /\ UNCHANGED <<turn, subscribed, diffsBefore, mutationsBefore, queue, shown,
                 answer, verdicts, stepWrites, tornSteps, walkVars, diffVars,
                 cellVars>>

(* _respond answers, with root's words or with the mechanical recap.       *)
Respond ==
  /\ turn = "responding"
  /\ \E kind \in {"synthesis", "recap"} :
       answer' = [kind |-> kind, noFiles |-> touched = {}]
  /\ turn' = "answered"
  /\ subscribed' = FALSE
  /\ shown' = Append(shown, Event("answer", 0, 0))
  /\ UNCHANGED <<tools, diffsBefore, mutationsBefore, queue, walkVars, diffVars,
                 cellVars, histVars>>

(* The caller's worker is cancelled: the generator's finally unsubscribes  *)
(* and nothing else; the graph task is left as it is.  Before the graph    *)
(* task exists, in the sequencer's call or at the yield of its answer, the *)
(* try block is not reached yet and the bridge stays subscribed.           *)
Cancel ==
  /\ turn \notin Ended
  /\ turn' = "cancelled"
  /\ subscribed' = (turn = "sequencing")
  /\ UNCHANGED <<tools, diffsBefore, mutationsBefore, queue, shown, answer,
                 walkVars, diffVars, cellVars, histVars>>

GeneratorStep ==
  SequenceGraph \/ SequenceFails \/ Yield \/ GraphFinished \/ GraphFailed
  \/ RespondTool \/ Respond

Next == GraphStep \/ GeneratorStep \/ Cancel

(* The event loop runs both coroutines; provider calls end (they time out  *)
(* and a run has an iteration budget).  Nothing makes the user cancel.     *)
Fairness == WF_vars(GraphStep) /\ WF_vars(GeneratorStep)

Safe == Init /\ [][Next]_vars

Spec == Safe /\ Fairness

-------------------------------------------------------------------------------
(* Properties *)

TypeOK ==
  /\ turn \in {"sequencing", "consuming", "responding"} \cup Ended
  /\ subscribed \in BOOLEAN
  /\ total \in 0..MaxSteps
  /\ pc \in {"none", "dispatch", "running", "gate", "verifying", "done",
             "halted", "raised"}
  /\ step \in StepIds
  /\ attempt \in {0, 1}
  /\ tools \in 0..MaxTools
  /\ out \in {"none", "text", "placeholder", "error"}
  /\ results \in Seq({"text", "placeholder", "error"})
  /\ sink \in Seq(Diff)
  /\ mutations \in Nat
  /\ diffsBefore \in Nat
  /\ mutationsBefore \in Nat
  /\ cell \subseteq 1..Len(sink)
  /\ delta \in Nat
  /\ queue \in Seq(Events)
  /\ shown \in Seq(Events)
  /\ touched \subseteq Files
  /\ answer \in [kind : {"none", "synthesis", "recap"}, noFiles : BOOLEAN]
  /\ verdicts \subseteq [step : StepIds, attempt : {0, 1}, ok : BOOLEAN,
                         diffs : SUBSET (1..Len(sink))]
  /\ stepWrites \in [StepIds -> Nat]
  /\ tornSteps \subseteq StepIds
  /\ rootWrites \in Nat

MadeBy(k, s, a) == sink[k].step = s /\ sink[k].attempt = a

(* The slot that carries the diffs of a dispatch to verify_agent never     *)
(* carries another dispatch's: when the gate reads it, it holds exactly    *)
(* the diffs of the current attempt at the current step (the claim of the  *)
(* comment on last_dispatch_diffs_cell, with a consumer draining the queue *)
(* at its own pace and a cancellation at any moment).                      *)
GateSeesLatestDispatch ==
  pc \in {"gate", "verifying"} =>
    cell = {k \in DOMAIN sink : MadeBy(k, step, attempt)}

(* No code change the harness knows of gets into an accepted step without  *)
(* the verifier having been asked about it, whichever of the step's two    *)
(* dispatches made it.                                                     *)
AcceptedCodeWasJudged ==
  \A k \in DOMAIN sink :
    sink[k].coding /\ sink[k].step <= Len(results) =>
      \E v \in verdicts : v.step = sink[k].step /\ k \in v.diffs

(* A step that failed its check is accepted only on a passing verdict over *)
(* code that its own repair changed: neither a repair that edits nothing   *)
(* nor the first attempt's diffs can get it through.                       *)
RepairIsByNewCode ==
  \A v \in verdicts :
    ~v.ok /\ v.step <= Len(results) =>
      /\ v.attempt = 0
      /\ \E w \in verdicts :
           /\ w.step = v.step
           /\ w.ok
           /\ w.diffs # {}
           /\ \A k \in w.diffs : MadeBy(k, v.step, 1)

(* The diffs among the events are those of the first n positions of the    *)
(* sink, each of them once, and in their order.                            *)
Delivers(events, n) ==
  LET diffs == {i \in DOMAIN events : events[i].kind = "diff"} IN
  /\ {events[i].pos : i \in diffs} = 1..n
  /\ \A i, j \in diffs : i < j => events[i].pos < events[j].pos

HasEvent(kind, s) ==
  \E e \in Range(queue) \cup Range(shown) : e.kind = kind /\ e.step = s

(* The caller gets every diff once and in the order the tools made them,   *)
(* and has them all before the turn reports itself done: what the answer's *)
(* diff summaries are made of is the whole of the sink.                    *)
DiffsDeliveredInOrder ==
  turn # "cancelled" =>
    /\ Delivers(shown \o queue, Len(sink))
    /\ \A i \in DOMAIN shown :
         shown[i].kind = "done" =>
           queue = <<>> /\ \A j \in i..Len(shown) : shown[j].kind # "diff"

(* While somebody listens, no accepted step in which a file tool succeeded *)
(* is silent: a verdict on it was reported, or that the check was skipped  *)
(* in spite of the changes (the gate's skipped_with_mutations event).      *)
(* This does not cover a step whose only changes are those of tools that   *)
(* failed: the bridge counts nothing for them, and the gate skips the step *)
(* without a word.                                                         *)
MutatingStepsAreReported ==
  turn # "cancelled" =>
    \A s \in 1..Len(results) :
      stepWrites[s] > 0 => HasEvent("verify_ok", s) \/ HasEvent("verify_skipped", s)

(* "no files were modified this turn" is appended to the answer only if no *)
(* file tool succeeded in any step of the graph, the halted step included, *)
(* whatever its other calls did.  That a tool which failed changed no file *)
(* either does not follow: see NoFilesClaimIsTrue in MCGraphTurn.          *)
NoFilesClaimCoversSteps ==
  answer.noFiles => \A s \in StepIds : stepWrites[s] = 0

(* Whatever the sequencer, the runs and the verifier do, the turn ends.    *)
TurnEnds == <>(turn \in Ended)

(* The walk implements the abstract step runner.                           *)
WalkState ==
  CASE pc = "none"   -> "idle"
    [] pc = "done"   -> "completed"
    [] pc = "halted" -> "halted"
    [] pc = "raised" -> "crashed"
    [] OTHER         -> "walking"

WalkTries ==
  CASE pc = "dispatch"                       -> attempt
    [] pc \in {"running", "gate", "verifying"} -> attempt + 1
    [] OTHER                                 -> 0

Runner == INSTANCE StepRunner WITH accepted <- Len(results),
                                   tries <- WalkTries, state <- WalkState

RefinesStepRunner == Runner!Spec

===============================================================================
