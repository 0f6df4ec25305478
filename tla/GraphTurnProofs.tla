--------------------------- MODULE GraphTurnProofs ----------------------------
(***************************************************************************)
(* Theorems about GraphTurn for every length of the graph, every number of *)
(* tool calls and every set of files: type correctness, what the verifier  *)
(* gate guarantees, and that the walk implements StepRunner.               *)
(***************************************************************************)
EXTENDS GraphTurn, SequenceTheorems, TLAPS

(* The inductive part of TypeOK: a dispatch's counters lie behind it.      *)
Counters ==
  pc = "running" => /\ mutationsBefore <= mutations
                    /\ diffsBefore <= Len(sink)

(* Where the two coroutines are, together.                                 *)
Walking ==
  /\ turn = "sequencing" => /\ pc = "none"
                            /\ step = 1 /\ attempt = 0
  /\ pc = "none" => results = <<>> /\ total = 0
  /\ pc # "none" => step <= total
  /\ pc \in {"gate", "verifying"} => out # "none"
  /\ Len(results) = IF pc = "done" THEN step ELSE step - 1

Typed == TypeOK /\ Counters /\ Walking

USE StepsAssumption, ToolsAssumption

(* The first layer in the first state.                                     *)
LEMMA InitTyped == Init => Typed
  BY DEF Init, Typed, TypeOK, Counters, Walking, StepIds, Ended, NoAnswer, Diff

(* An event is an event, and an event more or less keeps a queue typed.    *)
LEMMA EventType ==
  \A kind \in EventKinds, s, k \in Nat : Event(kind, s, k) \in Events
  BY DEF Event, Events

(* Events stay events when they are put, read and passed on.               *)
LEMMA QueueType ==
  \A q \in Seq(Events) :
    /\ \A e \in Events : Append(q, e) \in Seq(Events)
    /\ q # <<>> => Head(q) \in Events /\ Tail(q) \in Seq(Events)
  OBVIOUS

(* A walk that takes its step's output stays within its graph.             *)
LEMMA AcceptTyped ==
  ASSUME Typed, AcceptStep, UNCHANGED <<turn, total, out>>,
         pc \in {"gate", "verifying"}
  PROVE  /\ pc' \in {"dispatch", "done"}
         /\ step' \in StepIds
         /\ attempt' \in {0, 1}
         /\ results' \in Seq({"text", "placeholder", "error"})
         /\ Walking'
  BY DEF Typed, TypeOK, Walking, AcceptStep, StepIds, Ended

(* The first layer in every step.                                          *)
LEMMA NextTyped == Typed /\ [Next]_vars => Typed'
<1> SUFFICES ASSUME Typed, [Next]_vars PROVE Typed'
  OBVIOUS
<1> USE DEF Typed
<1>1. CASE SequenceGraph
  <2>1. shown' \in Seq(Events)
    BY <1>1, EventType, QueueType DEF SequenceGraph, TypeOK, EventKinds
  <2> QED
    BY <1>1, <2>1 DEF SequenceGraph, TypeOK, Counters, Walking, StepIds, Ended,
       diffVars, cellVars, histVars
<1>2. CASE SequenceFails
  BY <1>2 DEF SequenceFails, TypeOK, Counters, Walking, StepIds, Ended,
     walkVars, diffVars, cellVars, histVars
<1>3. CASE Dispatch
  BY <1>3 DEF Dispatch, TypeOK, Counters, Walking, StepIds, Ended,
     diffVars, cellVars, histVars
<1>4. CASE GraphRaises
  BY <1>4 DEF GraphRaises, TypeOK, Counters, Walking, StepIds, Ended,
     diffVars, cellVars, histVars
<1>5. CASE ToolCall
  <2>1. PICK via \in Vias, f \in Files :
          IF subscribed
            THEN /\ mutations' = mutations + 1
                 /\ touched' = touched \cup {f}
                 /\ IF via = "none"
                      THEN UNCHANGED <<sink, queue>>
                      ELSE /\ sink' = Append(sink, [step |-> step, attempt |-> attempt,
                                                    coding |-> via \in CodingVias])
                           /\ queue' = Append(queue, Event("diff", step, Len(sink) + 1))
            ELSE UNCHANGED <<diffVars, queue>>
    BY <1>5 DEF ToolCall
  <2>2. [step |-> step, attempt |-> attempt, coding |-> via \in CodingVias] \in Diff
    BY DEF TypeOK, Diff
  <2>3. Event("diff", step, Len(sink) + 1) \in Events
    BY EventType DEF TypeOK, StepIds, EventKinds
  <2>4. /\ sink' \in Seq(Diff) /\ Len(sink') >= Len(sink)
        /\ queue' \in Seq(Events)
    <3>1. CASE subscribed /\ via # "none"
      <4>1. /\ sink' = Append(sink, [step |-> step, attempt |-> attempt,
                                      coding |-> via \in CodingVias])
            /\ queue' = Append(queue, Event("diff", step, Len(sink) + 1))
        BY <3>1, <2>1
      <4>2. /\ sink \in Seq(Diff)
            /\ queue \in Seq(Events)
        BY DEF TypeOK
      <4>3. Append(sink, [step |-> step, attempt |-> attempt,
                          coding |-> via \in CodingVias]) \in Seq(Diff)
        BY <4>2, <2>2
      <4>4. Len(sink') = Len(sink) + 1
        BY <4>1, <4>2, <2>2
      <4> QED
        BY <4>1, <4>2, <4>3, <4>4, <2>3, QueueType
    <3>2. CASE ~(subscribed /\ via # "none")
      BY <3>2, <2>1 DEF TypeOK, diffVars
    <3> QED
      BY <3>1, <3>2
  <2>6. /\ mutations' \in Nat /\ mutations' >= mutations
        /\ touched' \subseteq Files
    BY <2>1 DEF TypeOK, diffVars
  <2>5. stepWrites' \in [StepIds -> Nat]
    BY <1>5 DEF ToolCall, TypeOK
  <2>7. /\ cell' \subseteq 1..Len(sink')
        /\ verdicts' \subseteq [step : StepIds, attempt : {0, 1}, ok : BOOLEAN,
                                diffs : SUBSET (1..Len(sink'))]
    <3>1. 1..Len(sink) \subseteq 1..Len(sink')
      BY <2>4 DEF TypeOK
    <3>2. cell' = cell /\ verdicts' = verdicts
      BY <1>5 DEF ToolCall, cellVars
    <3> QED
      BY <3>1, <3>2 DEF TypeOK
  <2>8. TypeOK'
    BY <1>5, <2>4, <2>5, <2>6, <2>7 DEF ToolCall, TypeOK, Ended, walkVars, cellVars
  <2>9. Counters'
    BY <1>5, <2>4, <2>6 DEF ToolCall, TypeOK, Counters
  <2>10. Walking'
    BY <1>5 DEF ToolCall, Walking, walkVars
  <2> QED
    BY <2>8, <2>9, <2>10
<1>6. CASE RunEnds
  <2>1. /\ out' \in {"text", "placeholder", "error"} /\ pc' \in {"halted", "gate"}
        /\ cell' \subseteq 1..Len(sink)
        /\ delta' \in Nat
    BY <1>6 DEF RunEnds, TypeOK, Counters, Outcomes, Output, AfterDispatch
  <2> QED
    BY <1>6, <2>1 DEF RunEnds, TypeOK, Counters, Walking, StepIds, Ended,
       diffVars, histVars
<1>7. CASE GateSkips
  <2>1. queue' \in Seq(Events)
    BY <1>7, EventType, QueueType DEF GateSkips, TypeOK, EventKinds, StepIds
  <2>2. /\ AcceptStep
        /\ UNCHANGED <<turn, total, out>>
        /\ pc = "gate"
    BY <1>7 DEF GateSkips
  <2> QED
    BY <1>7, <2>1, <2>2, AcceptTyped DEF GateSkips, TypeOK, Counters,
       diffVars, cellVars, histVars
<1>8. CASE GateRejectsRepair
  <2>1. queue' \in Seq(Events)
    BY <1>8, EventType, QueueType DEF GateRejectsRepair, TypeOK, EventKinds, StepIds
  <2> QED
    BY <1>8, <2>1 DEF GateRejectsRepair, TypeOK, Counters, Walking, StepIds, Ended,
       diffVars, cellVars, histVars
<1>9. CASE GateVerifies
  BY <1>9 DEF GateVerifies, TypeOK, Counters, Walking, StepIds, Ended,
     diffVars, cellVars, histVars
<1>10. ASSUME NEW ok \in BOOLEAN, Verdict(ok)
       PROVE  /\ queue' \in Seq(Events)
              /\ verdicts' \subseteq [step : StepIds, attempt : {0, 1}, ok : BOOLEAN,
                                      diffs : SUBSET (1..Len(sink'))]
  <2>1. queue' \in Seq(Events)
    BY <1>10, EventType, QueueType DEF Verdict, TypeOK, EventKinds, StepIds
  <2>2. [step |-> step, attempt |-> attempt, ok |-> ok, diffs |-> CodingDiffs]
          \in [step : StepIds, attempt : {0, 1}, ok : BOOLEAN, diffs : SUBSET (1..Len(sink))]
    BY DEF TypeOK, CodingDiffs
  <2> QED
    BY <1>10, <2>1, <2>2 DEF Verdict, TypeOK, diffVars
<1>11. CASE VerifierPasses
  <2>1. /\ AcceptStep
        /\ UNCHANGED <<turn, total, out>>
        /\ pc = "verifying"
        /\ Verdict(TRUE)
    BY <1>11 DEF VerifierPasses, Verdict
  <2> QED
    BY <2>1, <1>10, AcceptTyped DEF Verdict, TypeOK, Counters, diffVars, cellVars
<1>12. CASE VerifierAsksRepair
  BY <1>12, <1>10 DEF VerifierAsksRepair, Verdict, TypeOK, Counters, Walking, StepIds,
     Ended, diffVars, cellVars
<1>13. CASE VerifierHalts
  BY <1>13, <1>10 DEF VerifierHalts, Verdict, TypeOK, Counters, Walking, StepIds,
     Ended, diffVars, cellVars
<1>14. CASE Yield
  <2>1. queue' \in Seq(Events) /\ shown' \in Seq(Events)
    BY <1>14, QueueType DEF Yield, TypeOK
  <2> QED
    BY <1>14, <2>1 DEF Yield, TypeOK, Counters, Walking, StepIds, Ended,
       walkVars, diffVars, cellVars, histVars
<1>15. CASE GraphFinished
  <2>1. shown' \in Seq(Events)
    BY <1>15, EventType DEF GraphFinished, TypeOK, EventKinds, StepIds
  <2> QED
    BY <1>15, <2>1 DEF GraphFinished, TypeOK, Counters, Walking, StepIds, Ended,
       walkVars, diffVars, cellVars, histVars
<1>16. CASE GraphFailed
  BY <1>16 DEF GraphFailed, TypeOK, Counters, Walking, StepIds, Ended,
     walkVars, diffVars, cellVars, histVars
<1>17. CASE RespondTool
  BY <1>17 DEF RespondTool, TypeOK, Counters, Walking, StepIds, Ended,
     walkVars, diffVars, cellVars
<1>18. CASE Respond
  <2>1. shown' \in Seq(Events)
    BY <1>18, EventType, QueueType DEF Respond, TypeOK, EventKinds
  <2>2. answer' \in [kind : {"none", "synthesis", "recap"}, noFiles : BOOLEAN]
    BY <1>18 DEF Respond
  <2> QED
    BY <1>18, <2>1, <2>2 DEF Respond, TypeOK, Counters, Walking, StepIds, Ended,
       walkVars, diffVars, cellVars, histVars
<1>19. CASE Cancel
  BY <1>19 DEF Cancel, TypeOK, Counters, Walking, StepIds, Ended,
     walkVars, diffVars, cellVars, histVars
<1>20. CASE ToolBreaksOff
  BY <1>20 DEF ToolBreaksOff, TypeOK, Counters, Walking, StepIds, Ended,
     walkVars, diffVars, cellVars
<1>21. CASE UNCHANGED vars
  BY <1>21 DEF vars, TypeOK, Counters, Walking, StepIds, Ended
<1> QED
  BY <1>1, <1>2, <1>3, <1>4, <1>5, <1>6, <1>7, <1>8, <1>9, <1>11, <1>12, <1>13,
     <1>14, <1>15, <1>16, <1>17, <1>18, <1>19, <1>20, <1>21
     DEF Next, GraphStep, GeneratorStep

(* Every value stays in its type, on every graph.                          *)
THEOREM TypeCorrect == Safe => []TypeOK
<1>1. Typed => TypeOK
  BY DEF Typed
<1> QED
  BY InitTyped, NextTyped, <1>1, PTL DEF Safe
-------------------------------------------------------------------------------
(* What the gate reads *)

(* Diffs come from the current dispatch or an earlier one; those of the    *)
(* current dispatch are the ones behind diffsBefore, and the published     *)
(* slice is made of them.                                                  *)
Slices ==
  /\ \A k \in DOMAIN sink :
       \/ sink[k].step < step
       \/ sink[k].step = step /\ (attempt = 0 => sink[k].attempt = 0)
  /\ pc = "none" => sink = <<>>
  /\ pc = "dispatch" => \A k \in DOMAIN sink : ~MadeBy(k, step, attempt)
  /\ pc \in {"running", "gate", "verifying"} =>
       \A k \in DOMAIN sink : MadeBy(k, step, attempt) <=> k > diffsBefore
  /\ pc \in {"gate", "verifying"} => cell = (diffsBefore + 1)..Len(sink)

(* What the generator's own steps, the user's and a tool that fails leave  *)
(* alone.                                                                  *)
Quiet == UNCHANGED <<walkVars, sink, diffsBefore, cell, verdicts>>

(* The steps that touch nothing the layers about the walk speak of.        *)
LEMMA QuietSteps ==
  SequenceFails \/ Yield \/ GraphFinished \/ GraphFailed \/ RespondTool
    \/ Respond \/ Cancel \/ ToolBreaksOff \/ UNCHANGED vars => Quiet
  BY DEF Quiet, SequenceFails, Yield, GraphFinished, GraphFailed, RespondTool,
     Respond, Cancel, ToolBreaksOff, vars, walkVars, diffVars, cellVars, histVars

(* A diff names a step and an attempt.                                     *)
LEMMA DiffFields ==
  ASSUME TypeOK
  PROVE  \A k \in DOMAIN sink : /\ sink[k].step \in StepIds
                                /\ sink[k].attempt \in {0, 1}
<1> TAKE k \in DOMAIN sink
<1>1. sink[k] \in Diff
  BY DEF TypeOK
<1> QED
  BY <1>1 DEF Diff

(* A tool call adds at most one diff, tagged with the current dispatch.    *)
LEMMA ToolCallSink ==
  ASSUME Typed, ToolCall
  PROVE  /\ \A k \in DOMAIN sink : k \in DOMAIN sink' /\ sink'[k] = sink[k]
         /\ \A k \in DOMAIN sink' \ DOMAIN sink :
              /\ k = Len(sink) + 1
              /\ sink'[k].step = step
              /\ sink'[k].attempt = attempt
<1>1. PICK via \in Vias :
        \/ sink' = sink
        \/ sink' = Append(sink, [step |-> step, attempt |-> attempt,
                                 coding |-> via \in CodingVias])
  BY DEF ToolCall, diffVars
<1>2. CASE sink' = sink
  BY <1>2
<1>3. CASE sink' = Append(sink, [step |-> step, attempt |-> attempt,
                                 coding |-> via \in CodingVias])
  <2>1. sink \in Seq(Diff)
    BY DEF Typed, TypeOK
  <2>2. /\ DOMAIN sink' = DOMAIN sink \cup {Len(sink) + 1}
        /\ \A k \in DOMAIN sink : sink'[k] = sink[k]
        /\ sink'[Len(sink) + 1].step = step
        /\ sink'[Len(sink) + 1].attempt = attempt
    BY <1>3, <2>1
  <2> QED
    BY <2>2
<1> QED
  BY <1>1, <1>2, <1>3

(* The second layer in the first state.                                    *)
LEMMA InitSlices == Init => Slices
  BY DEF Init, Slices, MadeBy

(* Moving on to the next step, or ending, leaves every diff behind.        *)
LEMMA AcceptSlices ==
  ASSUME Typed, Slices, AcceptStep, UNCHANGED <<total, sink, diffsBefore, cell>>,
         pc \in {"gate", "verifying"}
  PROVE  Slices'
<1>1. CASE step < total
  <2>1. step' = step + 1 /\ attempt' = 0 /\ pc' = "dispatch" /\ sink' = sink
    BY <1>1 DEF AcceptStep
  <2>2. \A k \in DOMAIN sink : sink[k].step < step + 1 /\ sink[k].step # step + 1
    <3>1. step \in Nat /\ \A k \in DOMAIN sink : sink[k].step \in Nat
      BY DiffFields DEF Typed, TypeOK, StepIds
    <3> QED
      BY <3>1 DEF Slices
  <2> QED
    BY <2>1, <2>2 DEF Slices, MadeBy
<1>2. CASE ~(step < total)
  BY <1>2 DEF Slices, AcceptStep
<1> QED
  BY <1>1, <1>2

(* The second layer in every step.                                         *)
LEMMA NextSlices == Typed /\ Slices /\ [Next]_vars => Slices'
<1> SUFFICES ASSUME Typed, Slices, [Next]_vars PROVE Slices'
  OBVIOUS
<1> USE DEF Typed, Slices
<1>1. CASE SequenceGraph
  BY <1>1 DEF SequenceGraph, TypeOK, Walking, MadeBy, diffVars, cellVars
<1>2. CASE Dispatch
  BY <1>2 DEF Dispatch, TypeOK, MadeBy, diffVars, cellVars
<1>3. CASE GraphRaises
  BY <1>3 DEF GraphRaises, TypeOK, MadeBy, diffVars, cellVars
<1>4. CASE ToolCall
  <2>1. Len(sink) + 1 > diffsBefore
    BY <1>4 DEF ToolCall, Counters, TypeOK
  <2>2. /\ pc = "running"
        /\ UNCHANGED <<pc, step, attempt, diffsBefore>>
        /\ step \in Nat /\ sink \in Seq(Diff)
    BY <1>4 DEF ToolCall, walkVars, TypeOK, StepIds
  <2>3. \A k \in DOMAIN sink : k \in DOMAIN sink' /\ sink'[k] = sink[k]
    BY <1>4, ToolCallSink
  <2>4. \A k \in DOMAIN sink' \ DOMAIN sink :
          /\ k > diffsBefore
          /\ sink'[k].step = step
          /\ sink'[k].attempt = attempt
    BY <1>4, <2>1, ToolCallSink
  <2>5. \A k \in DOMAIN sink' :
          \/ sink'[k].step < step
          \/ sink'[k].step = step /\ (attempt = 0 => sink'[k].attempt = 0)
    BY <2>3, <2>4
  <2>6. \A k \in DOMAIN sink' :
          (sink'[k].step = step /\ sink'[k].attempt = attempt) <=> k > diffsBefore
    BY <2>2, <2>3, <2>4 DEF MadeBy
  <2> QED
    BY <2>2, <2>5, <2>6 DEF MadeBy
<1>5. CASE RunEnds
  BY <1>5 DEF RunEnds, AfterDispatch, TypeOK, MadeBy, diffVars
<1>6. CASE GateSkips
  BY <1>6, AcceptSlices DEF GateSkips, diffVars, cellVars
<1>7. CASE GateRejectsRepair \/ GateVerifies
  BY <1>7 DEF GateRejectsRepair, GateVerifies, TypeOK, MadeBy, diffVars, cellVars
<1>8. CASE VerifierPasses
  BY <1>8, AcceptSlices DEF VerifierPasses, Verdict, diffVars, cellVars
<1>9. CASE VerifierAsksRepair
  <2>1. /\ attempt = 0 /\ attempt' = 1 /\ pc' = "dispatch"
        /\ UNCHANGED <<step, sink>>
    BY <1>9 DEF VerifierAsksRepair, Verdict, diffVars
  <2>2. \A k \in DOMAIN sink :
          \/ sink[k].step < step
          \/ sink[k].step = step /\ sink[k].attempt = 0
    BY <2>1
  <2>3. \A k \in DOMAIN sink : sink[k].step < step => sink[k].step # step
    BY DiffFields DEF TypeOK, StepIds
  <2> QED
    BY <2>1, <2>2, <2>3 DEF MadeBy
<1>10. CASE VerifierHalts
  BY <1>10 DEF VerifierHalts, Verdict, TypeOK, MadeBy, diffVars, cellVars
<1>11. CASE Quiet
  BY <1>11 DEF Quiet, walkVars, MadeBy
<1> QED
  BY <1>1, <1>2, <1>3, <1>4, <1>5, <1>6, <1>7, <1>8, <1>9, <1>10, <1>11, QuietSteps
     DEF Next, GraphStep, GeneratorStep

(* The gate reads the slice that was published last.                       *)
LEMMA GateSlice == Typed /\ Slices => GateSeesLatestDispatch
  BY DEF Typed, TypeOK, Slices, GateSeesLatestDispatch

(* The gate's slot is never another dispatch's.                            *)
THEOREM GateSeesOnlyLatest == Safe => []GateSeesLatestDispatch
  BY InitTyped, NextTyped, InitSlices, NextSlices, GateSlice, PTL DEF Safe

-------------------------------------------------------------------------------
(* What an accepted step was accepted on *)

(* A verdict is about diffs of one dispatch, the current one or an earlier *)
(* one; the current dispatch has none before the verifier answers; one     *)
(* that was not ok led to a repair or to the end of the walk.              *)
VerdictOK(v) ==
  /\ v.step \in 1..step
  /\ v.step = step /\ attempt = 0 => v.attempt = 0
  /\ v.diffs # {}
  /\ \A k \in v.diffs : k \in DOMAIN sink /\ MadeBy(k, v.step, v.attempt)
  /\ pc \in {"dispatch", "running", "gate", "verifying"} =>
       ~(v.step = step /\ v.attempt = attempt)
  /\ ~v.ok /\ v.step = step => IF v.attempt = 0 THEN attempt = 1 ELSE pc = "halted"

JudgedIn(vs, k, s) == \E v \in vs : v.step = s /\ k \in v.diffs

Judged ==
  /\ pc = "verifying" => CodingDiffs # {}
  /\ \A v \in verdicts : VerdictOK(v)
  /\ attempt = 1 =>
       \A k \in DOMAIN sink : sink[k].coding /\ MadeBy(k, step, 0) => JudgedIn(verdicts, k, step)
  /\ AcceptedCodeWasJudged
  /\ RepairIsByNewCode

(* The third layer in the first state.                                     *)
LEMMA InitJudged == Init => Judged
  BY DEF Init, Judged, AcceptedCodeWasJudged, RepairIsByNewCode

(* Quiet steps keep it.                                                    *)
LEMMA QuietJudged == Typed /\ Judged /\ Quiet => Judged'
  BY DEF Quiet, walkVars, Judged, VerdictOK, JudgedIn, CodingDiffs, MadeBy,
     AcceptedCodeWasJudged, RepairIsByNewCode

(* Accepting a step keeps the invariant when the verdicts, with the one    *)
(* just given if any, cover the step's code and its repair.                *)
LEMMA AcceptJudged ==
  ASSUME Typed, Typed', Slices, Judged, AcceptStep,
         UNCHANGED <<total, sink, cell>>,
         pc \in {"gate", "verifying"},
         verdicts \subseteq verdicts',
         \A v \in verdicts' \ verdicts :
           /\ v.step = step /\ v.attempt = attempt /\ v.ok /\ v.diffs # {}
           /\ \A k \in v.diffs : k \in DOMAIN sink /\ MadeBy(k, step, attempt),
         \A k \in DOMAIN sink : sink[k].coding /\ MadeBy(k, step, attempt) =>
           JudgedIn(verdicts', k, step),
         attempt = 1 => \E w \in verdicts' \ verdicts : TRUE
  PROVE  Judged'
<1>1. /\ Len(results) = step - 1 /\ Len(results') = step
      /\ step \in Nat /\ step' \in Nat /\ step' >= step
      /\ step' = step => attempt' = attempt /\ pc' = "done"
      /\ step' # step => step' = step + 1 /\ attempt' = 0 /\ pc' = "dispatch"
  <2>1. step \in Nat /\ Len(results) = step - 1
    BY DEF Typed, TypeOK, Walking, StepIds
  <2>2. CASE step < total
    BY <2>1, <2>2 DEF AcceptStep, Typed, Walking
  <2>3. CASE ~(step < total)
    BY <2>1, <2>3 DEF AcceptStep, Typed, Walking
  <2> QED
    BY <2>2, <2>3
<1>2. \A v \in verdicts' : VerdictOK(v)'
  <2> TAKE v \in verdicts'
  <2>1. CASE v \in verdicts
    <3>1. VerdictOK(v)
      BY <2>1 DEF Judged
    <3>2. ~v.ok => ~(v.step = step /\ v.attempt # 0)
      BY <3>1 DEF VerdictOK
    <3>3. v.step \in 1..step' /\ (v.step = step' => step' = step)
      BY <1>1, <3>1 DEF VerdictOK
    <3> QED
      BY <1>1, <3>1, <3>2, <3>3 DEF VerdictOK, MadeBy
  <2>2. CASE v \notin verdicts
    <3>1. /\ v.step = step /\ v.attempt = attempt /\ v.ok /\ v.diffs # {}
          /\ \A k \in v.diffs : k \in DOMAIN sink /\ MadeBy(k, step, attempt)
      BY <2>2
    <3>2. step \in 1..step' /\ (step = step' => pc' = "done" /\ attempt' = attempt)
      BY <1>1 DEF Typed, TypeOK, StepIds
    <3> QED
      BY <3>1, <3>2 DEF VerdictOK, MadeBy
  <2> QED
    BY <2>1, <2>2
<1>3. \A k \in DOMAIN sink : sink[k].coding /\ sink[k].step = step => JudgedIn(verdicts', k, step)
  <2> TAKE k \in DOMAIN sink
  <2>1. sink[k].attempt \in {0, 1}
    BY DiffFields DEF Typed
  <2>2. CASE sink[k].attempt = attempt
    BY <2>2 DEF MadeBy
  <2>3. CASE sink[k].attempt # attempt /\ sink[k].step = step
    <3>1. ~(sink[k].step < step) /\ attempt \in {0, 1}
      BY <1>1, <2>3 DEF Typed, TypeOK
    <3>2. attempt = 1 /\ sink[k].attempt = 0
      BY <2>1, <2>3, <3>1 DEF Slices
    <3> QED
      BY <2>3, <3>2 DEF Judged, MadeBy, JudgedIn
  <2> QED
    BY <2>2, <2>3
<1>4. AcceptedCodeWasJudged'
  <2> SUFFICES ASSUME NEW k \in DOMAIN sink, sink[k].coding, sink[k].step <= step
               PROVE  JudgedIn(verdicts', k, sink[k].step)
    BY <1>1 DEF AcceptedCodeWasJudged, JudgedIn
  <2>1. CASE sink[k].step = step
    BY <2>1, <1>3
  <2>2. CASE sink[k].step # step
    <3>1. sink[k].step \in Nat
      BY DiffFields DEF Typed, StepIds
    <3>2. sink[k].step <= Len(results)
      BY <1>1, <2>2, <3>1
    <3>3. PICK v \in verdicts : v.step = sink[k].step /\ k \in v.diffs
      BY <3>2 DEF Judged, AcceptedCodeWasJudged
    <3> QED
      BY <3>3 DEF JudgedIn
  <2> QED
    BY <2>1, <2>2
<1>5. RepairIsByNewCode'
  <2> SUFFICES ASSUME NEW v \in verdicts', ~v.ok, v.step <= step
               PROVE  /\ v.attempt = 0
                      /\ \E w \in verdicts' :
                           /\ w.step = v.step
                           /\ w.ok
                           /\ w.diffs # {}
                           /\ \A k \in w.diffs : MadeBy(k, v.step, 1)
    <3>1. Len(results') = step /\ sink' = sink
      BY <1>1
    <3> QED
      BY <3>1 DEF RepairIsByNewCode, MadeBy
  <2>1. v \in verdicts /\ VerdictOK(v)
    BY DEF Judged
  <2>2. CASE v.step = step
    <3>1. v.attempt = 0 /\ attempt = 1
      BY <2>1, <2>2 DEF VerdictOK
    <3>2. PICK w \in verdicts' \ verdicts : TRUE
      BY <3>1
    <3> QED
      BY <2>2, <3>1, <3>2
  <2>3. CASE v.step # step
    <3>1. v.step <= Len(results)
      BY <1>1, <2>1, <2>3 DEF VerdictOK
    <3> QED
      BY <2>1, <3>1 DEF Judged, RepairIsByNewCode
  <2> QED
    BY <2>2, <2>3
<1>6. attempt' = 1 =>
        \A k \in DOMAIN sink : sink[k].coding /\ MadeBy(k, step', 0) => JudgedIn(verdicts', k, step')
  BY <1>1, <1>3 DEF MadeBy
<1>7. pc' # "verifying"
  BY <1>1
<1> QED
  BY <1>1, <1>2, <1>4, <1>5, <1>6, <1>7 DEF Judged, MadeBy, JudgedIn

(* The third layer in every step.                                          *)
LEMMA NextJudged ==
  Typed /\ Typed' /\ Slices /\ Judged /\ [Next]_vars => Judged'
<1> SUFFICES ASSUME Typed, Typed', Slices, Judged, [Next]_vars PROVE Judged'
  OBVIOUS
<1>0. /\ step \in Nat /\ attempt \in {0, 1}
      /\ pc # "done" => Len(results) = step - 1
  BY DEF Typed, TypeOK, Walking, StepIds
<1>1. CASE SequenceGraph
  <2>1. /\ attempt = 0 /\ pc = "none" /\ sink = <<>> /\ pc' = "dispatch"
        /\ UNCHANGED <<step, attempt, results, sink, verdicts>>
    BY <1>1 DEF SequenceGraph, Typed, Walking, Slices, diffVars, histVars
  <2>2. verdicts = {}
    <3> SUFFICES ASSUME NEW v \in verdicts PROVE FALSE
      OBVIOUS
    <3>1. v.diffs # {} /\ \A k \in v.diffs : k \in DOMAIN sink
      BY DEF Judged, VerdictOK
    <3>2. DOMAIN sink = {}
      BY <2>1
    <3> QED
      BY <3>1, <3>2
  <2>3. verdicts' = {} /\ DOMAIN sink' = {} /\ attempt' # 1 /\ pc' # "verifying"
    BY <2>1, <2>2
  <2> QED
    BY <2>3 DEF Judged, AcceptedCodeWasJudged, RepairIsByNewCode
<1>2. CASE Dispatch
  BY <1>2 DEF Dispatch, Judged, VerdictOK, JudgedIn, MadeBy,
     AcceptedCodeWasJudged, RepairIsByNewCode, diffVars, cellVars, histVars
<1>3. CASE GraphRaises
  BY <1>3 DEF GraphRaises, Judged, VerdictOK, JudgedIn, MadeBy,
     AcceptedCodeWasJudged, RepairIsByNewCode, diffVars, cellVars, histVars
<1>4. CASE ToolCall
  <2>1. /\ pc = "running"
        /\ UNCHANGED <<pc, step, attempt, results, verdicts>>
    BY <1>4 DEF ToolCall, walkVars
  <2>2. \A v \in verdicts : VerdictOK(v)'
    BY <2>1, <1>4, ToolCallSink DEF Judged, VerdictOK, MadeBy
  <2>3. AcceptedCodeWasJudged'
    <3>1. \A k \in DOMAIN sink' \ DOMAIN sink : ~(sink'[k].step <= Len(results))
      BY <1>0, <1>4, <2>1, ToolCallSink
    <3> QED
      BY <2>1, <3>1, <1>4, ToolCallSink DEF Judged, AcceptedCodeWasJudged
  <2>4. RepairIsByNewCode'
    <3> SUFFICES ASSUME NEW v \in verdicts, ~v.ok, v.step <= Len(results)
                 PROVE  /\ v.attempt = 0
                        /\ \E w \in verdicts :
                             /\ w.step = v.step
                             /\ w.ok
                             /\ w.diffs # {}
                             /\ \A k \in w.diffs : MadeBy(k, v.step, 1)'
      BY <2>1 DEF RepairIsByNewCode
    <3>1. PICK w \in verdicts :
             /\ w.step = v.step
             /\ w.ok
             /\ w.diffs # {}
             /\ \A k \in w.diffs : MadeBy(k, v.step, 1)
      BY DEF Judged, RepairIsByNewCode
    <3>2. \A k \in w.diffs : MadeBy(k, v.step, 1)'
      BY <3>1, <1>4, ToolCallSink DEF Judged, VerdictOK, MadeBy
    <3> QED
      BY <3>1, <3>2 DEF Judged, RepairIsByNewCode
  <2>5. attempt = 1 =>
          \A k \in DOMAIN sink' :
            sink'[k].coding /\ MadeBy(k, step, 0)' => JudgedIn(verdicts, k, step)
    BY <2>1, <1>4, ToolCallSink DEF Judged, MadeBy
  <2> QED
    BY <2>1, <2>2, <2>3, <2>4, <2>5 DEF Judged, MadeBy
<1>5. CASE RunEnds
  BY <1>5 DEF RunEnds, AfterDispatch, Judged, VerdictOK, JudgedIn, MadeBy,
     AcceptedCodeWasJudged, RepairIsByNewCode, diffVars, histVars
<1>6. CASE GateSkips
  <2>1. /\ AcceptStep /\ attempt = 0 /\ pc = "gate" /\ CodingDiffs = {}
        /\ UNCHANGED <<total, sink, cell, verdicts>>
    BY <1>6 DEF GateSkips, diffVars, cellVars, histVars
  <2>2. \A k \in DOMAIN sink : MadeBy(k, step, attempt) => k \in cell
    BY <2>1, GateSlice DEF GateSeesLatestDispatch
  <2>3. \A k \in DOMAIN sink : ~(sink[k].coding /\ MadeBy(k, step, attempt))
    BY <2>1, <2>2 DEF CodingDiffs
  <2> QED
    BY <2>1, <2>3, AcceptJudged
<1>7. CASE GateRejectsRepair
  BY <1>7 DEF GateRejectsRepair, Judged, VerdictOK, JudgedIn, MadeBy,
     AcceptedCodeWasJudged, RepairIsByNewCode, diffVars, cellVars, histVars
<1>8. CASE GateVerifies
  BY <1>8 DEF GateVerifies, Judged, VerdictOK, JudgedIn, MadeBy, CodingDiffs,
     AcceptedCodeWasJudged, RepairIsByNewCode, diffVars, cellVars, histVars
<1>9. ASSUME NEW ok \in BOOLEAN, Verdict(ok)
      PROVE  \E w :
               /\ verdicts' = verdicts \cup {w}
               /\ w.step = step /\ w.attempt = attempt /\ w.ok = ok /\ w.diffs # {}
               /\ \A k \in w.diffs : k \in DOMAIN sink /\ MadeBy(k, step, attempt)
               /\ \A k \in DOMAIN sink :
                    sink[k].coding /\ MadeBy(k, step, attempt) => k \in w.diffs
  <2> DEFINE w == [step |-> step, attempt |-> attempt, ok |-> ok, diffs |-> CodingDiffs]
  <2>1. pc = "verifying" /\ verdicts' = verdicts \cup {w}
    BY <1>9 DEF Verdict
  <2>2. w.diffs # {}
    BY <2>1 DEF Judged
  <2>3. cell = {k \in DOMAIN sink : MadeBy(k, step, attempt)}
    BY <2>1, GateSlice DEF GateSeesLatestDispatch
  <2> QED
    BY <2>1, <2>2, <2>3 DEF CodingDiffs
<1>10. CASE VerifierPasses
  <2>1. /\ AcceptStep /\ Verdict(TRUE) /\ pc = "verifying"
        /\ UNCHANGED <<total, sink, cell>>
    BY <1>10 DEF VerifierPasses, Verdict, diffVars, cellVars
  <2>2. PICK w :
               /\ verdicts' = verdicts \cup {w}
               /\ w.step = step /\ w.attempt = attempt /\ w.ok = TRUE /\ w.diffs # {}
               /\ \A k \in w.diffs : k \in DOMAIN sink /\ MadeBy(k, step, attempt)
               /\ \A k \in DOMAIN sink :
                    sink[k].coding /\ MadeBy(k, step, attempt) => k \in w.diffs
    BY <2>1, <1>9
  <2>3. w \notin verdicts
    BY <2>1, <2>2 DEF Judged, VerdictOK
  <2>4. \A k \in DOMAIN sink : sink[k].coding /\ MadeBy(k, step, attempt) =>
          JudgedIn(verdicts', k, step)
    BY <2>2 DEF JudgedIn
  <2> QED
    BY <2>1, <2>2, <2>3, <2>4, AcceptJudged
<1>11. ASSUME Verdict(FALSE), step' = step, results' = results,
              \/ attempt = 0 /\ attempt' = 1 /\ pc' = "dispatch"
              \/ attempt = 1 /\ attempt' = 1 /\ pc' = "halted"
       PROVE  Judged'
  <2>1. PICK w :
           /\ verdicts' = verdicts \cup {w}
           /\ w.step = step /\ w.attempt = attempt /\ w.ok = FALSE /\ w.diffs # {}
           /\ \A k \in w.diffs : k \in DOMAIN sink /\ MadeBy(k, step, attempt)
           /\ \A k \in DOMAIN sink :
                sink[k].coding /\ MadeBy(k, step, attempt) => k \in w.diffs
    BY <1>9, <1>11
  <2>2. pc = "verifying" /\ UNCHANGED <<sink, cell>>
    BY <1>11 DEF Verdict, diffVars, cellVars
  <2>3. \A v \in verdicts : VerdictOK(v)'
    BY <1>11, <2>2 DEF Judged, VerdictOK, MadeBy
  <2>4. VerdictOK(w)'
    <3>1. step \in 1..step /\ step' = step /\ sink' = sink
      BY <1>11, <2>2 DEF Typed, TypeOK, StepIds
    <3>2. w.step \in 1..step' /\ w.diffs # {}
      BY <2>1, <3>1
    <3>3. \A k \in w.diffs : k \in DOMAIN sink' /\ MadeBy(k, w.step, w.attempt)'
      BY <2>1, <3>1 DEF MadeBy
    <3>4. attempt' # 0 /\ (pc' = "dispatch" => attempt = 0 /\ attempt' = 1)
      BY <1>11
    <3>5. IF w.attempt = 0 THEN attempt' = 1 ELSE pc' = "halted"
      BY <1>11, <2>1
    <3>6. pc' \in {"dispatch", "halted"}
      BY <1>11
    <3> QED
      BY <2>1, <3>1, <3>2, <3>3, <3>4, <3>5, <3>6 DEF VerdictOK
  <2>5. \A k \in DOMAIN sink : sink[k].coding /\ MadeBy(k, step, 0) =>
          JudgedIn(verdicts', k, step)
    BY <1>11, <2>1 DEF Judged, JudgedIn
  <2>6. AcceptedCodeWasJudged'
    BY <1>11, <2>1, <2>2 DEF Judged, AcceptedCodeWasJudged
  <2>7. RepairIsByNewCode'
    <3>1. ~(w.step <= Len(results))
      BY <1>0, <2>1, <2>2
    <3> QED
      BY <1>11, <2>1, <2>2, <3>1 DEF Judged, RepairIsByNewCode, MadeBy
  <2>8. \A v \in verdicts' : VerdictOK(v)'
    BY <2>1, <2>3, <2>4
  <2>9. pc' # "verifying" /\ step' = step /\ sink' = sink
    BY <1>11, <2>2
  <2> QED
    BY <2>5, <2>6, <2>7, <2>8, <2>9 DEF Judged, MadeBy, JudgedIn
<1>12. CASE VerifierAsksRepair
  BY <1>11, <1>12 DEF VerifierAsksRepair
<1>13. CASE VerifierHalts
  BY <1>11, <1>13 DEF VerifierHalts
<1>14. CASE Quiet
  BY <1>14, QuietJudged
<1> QED
  BY <1>1, <1>2, <1>3, <1>4, <1>5, <1>6, <1>7, <1>8, <1>10, <1>12, <1>13, <1>14,
     QuietSteps DEF Next, GraphStep, GeneratorStep

(* Every code change in an accepted step was put before the verifier, on   *)
(* every graph and whatever the cancellations.                             *)
THEOREM AcceptedCodeIsJudged == Safe => []AcceptedCodeWasJudged
<1>1. Judged => AcceptedCodeWasJudged
  BY DEF Judged
<1> QED
  BY InitTyped, NextTyped, InitSlices, NextSlices, InitJudged, NextJudged, <1>1,
     PTL DEF Safe

(* A step that failed its check is accepted only on its repair's own code. *)
THEOREM RepairsBringNewCode == Safe => []RepairIsByNewCode
<1>1. Judged => RepairIsByNewCode
  BY DEF Judged
<1> QED
  BY InitTyped, NextTyped, InitSlices, NextSlices, InitJudged, NextJudged, <1>1,
     PTL DEF Safe

-------------------------------------------------------------------------------
(* The walk implements StepRunner *)

(* The state of the walk, without CASE.                                    *)
LEMMA WalkMap ==
  ASSUME TypeOK
  PROVE  /\ pc = "none" => WalkState = "idle" /\ WalkTries = 0
         /\ pc = "dispatch" => WalkState = "walking" /\ WalkTries = attempt
         /\ pc \in {"running", "gate", "verifying"} =>
              WalkState = "walking" /\ WalkTries = attempt + 1
         /\ pc = "done" => WalkState = "completed" /\ WalkTries = 0
         /\ pc = "halted" => WalkState = "halted" /\ WalkTries = 0
         /\ pc = "raised" => WalkState = "crashed" /\ WalkTries = 0
  BY DEF TypeOK, WalkState, WalkTries

(* Accepting a step is the abstract Accept.                                *)
LEMMA AcceptMaps ==
  ASSUME Typed, Typed', AcceptStep, UNCHANGED total, pc \in {"gate", "verifying"}
  PROVE  Runner!Accept
<1>1. /\ WalkState = "walking" /\ WalkTries = attempt + 1
      /\ attempt \in {0, 1} /\ step \in Nat /\ total \in Nat
      /\ Len(results) = step - 1 /\ step <= total
      /\ Len(results') = step
  <2>1. Len(results') = Len(results) + 1
    BY DEF AcceptStep, Typed, TypeOK
  <2>2. WalkState = "walking" /\ WalkTries = attempt + 1
    BY WalkMap DEF Typed
  <2>3. /\ attempt \in {0, 1} /\ step \in 1..MaxSteps /\ total \in 0..MaxSteps
        /\ Len(results) = step - 1 /\ step <= total
    BY DEF Typed, TypeOK, Walking, StepIds
  <2> QED
    BY <2>1, <2>2, <2>3
<1>2. WalkTries' = 0 /\ WalkState' = IF step = total THEN "completed" ELSE "walking"
  <2>1. CASE step < total
    <3>1. pc' = "dispatch" /\ attempt' = 0
      BY <2>1 DEF AcceptStep
    <3>2. WalkState' = "walking" /\ WalkTries' = 0
      BY <3>1 DEF WalkState, WalkTries
    <3> QED
      BY <1>1, <2>1, <3>2
  <2>2. CASE ~(step < total)
    <3>1. pc' = "done"
      BY <2>2 DEF AcceptStep
    <3>2. WalkState' = "completed" /\ WalkTries' = 0
      BY <3>1 DEF WalkState, WalkTries
    <3> QED
      BY <1>1, <2>2, <3>2
  <2> QED
    BY <2>1, <2>2
<1> QED
  BY <1>1, <1>2 DEF Runner!Accept

(* Giving the step up after a dispatch is the abstract Halt.               *)
LEMMA HaltMaps ==
  ASSUME Typed, pc \in {"running", "gate", "verifying"}, pc' = "halted",
         UNCHANGED <<total, results>>
  PROVE  Runner!Halt
<1>1. WalkState = "walking" /\ WalkTries > 0
  BY WalkMap DEF Typed, TypeOK
<1>2. WalkState' = "halted" /\ WalkTries' = 0
  BY DEF WalkState, WalkTries
<1> QED
  BY <1>1, <1>2 DEF Runner!Halt

(* A step that changes neither the counts nor the mapped state stutters.   *)
LEMMA StutterMaps ==
  ASSUME Typed, UNCHANGED <<total, results>>,
         \/ UNCHANGED <<pc, attempt>>
         \/ /\ pc \in {"running", "gate"}
            /\ pc' \in {"gate", "verifying"}
            /\ attempt' = attempt
         \/ /\ pc = "verifying" /\ attempt = 0
            /\ pc' = "dispatch" /\ attempt' = 1
  PROVE  UNCHANGED Runner!vars
<1>1. CASE UNCHANGED <<pc, attempt>>
  BY <1>1 DEF Runner!vars, WalkState, WalkTries
<1>2. CASE pc \in {"running", "gate"} /\ pc' \in {"gate", "verifying"} /\ attempt' = attempt
  <2>1. WalkState = "walking" /\ WalkTries = attempt + 1
    BY <1>2, WalkMap DEF Typed
  <2>2. WalkState' = "walking" /\ WalkTries' = attempt + 1
    BY <1>2 DEF WalkState, WalkTries
  <2> QED
    BY <2>1, <2>2 DEF Runner!vars
<1>3. CASE pc = "verifying" /\ attempt = 0 /\ pc' = "dispatch" /\ attempt' = 1
  <2>1. WalkState = "walking" /\ WalkTries = 1
    BY <1>3, WalkMap DEF Typed
  <2>2. WalkState' = "walking" /\ WalkTries' = 1
    BY <1>3 DEF WalkState, WalkTries
  <2> QED
    BY <2>1, <2>2 DEF Runner!vars
<1> QED
  BY <1>1, <1>2, <1>3

(* Every step is a step of the abstract runner, or none.                   *)
LEMMA StepMaps == Typed /\ Typed' /\ [Next]_vars => [Runner!Next]_(Runner!vars)
<1> SUFFICES ASSUME Typed, Typed', [Next]_vars
             PROVE  Runner!Next \/ UNCHANGED Runner!vars
  OBVIOUS
<1>1. CASE SequenceGraph
  <2>1. /\ pc = "none" /\ pc' = "dispatch" /\ attempt' = 0 /\ results' = results
        /\ total' \in 1..MaxSteps
    BY <1>1 DEF SequenceGraph, Typed, Walking, StepIds
  <2>2. /\ WalkState = "idle" /\ WalkTries = 0
        /\ WalkState' = "walking" /\ WalkTries' = 0
    BY <2>1 DEF WalkState, WalkTries
  <2> QED
    BY <2>1, <2>2 DEF Runner!Next, Runner!Start
<1>2. CASE Dispatch
  <2>1. /\ pc = "dispatch" /\ pc' = "running" /\ attempt' = attempt
        /\ UNCHANGED <<total, results>> /\ attempt \in {0, 1}
    BY <1>2 DEF Dispatch, Typed, TypeOK
  <2>2. /\ WalkState = "walking" /\ WalkTries = attempt
        /\ WalkState' = "walking" /\ WalkTries' = attempt + 1
    BY <2>1 DEF WalkState, WalkTries
  <2> QED
    BY <2>1, <2>2 DEF Runner!Next, Runner!Walk, Runner!Try
<1>3. CASE GraphRaises
  <2>1. pc \in {"dispatch", "gate"} /\ pc' = "raised" /\ UNCHANGED <<total, results>>
    BY <1>3 DEF GraphRaises
  <2>2. WalkState = "walking" /\ WalkState' = "crashed" /\ WalkTries' = 0
    BY <2>1 DEF WalkState, WalkTries
  <2> QED
    BY <2>1, <2>2 DEF Runner!Next, Runner!Walk, Runner!Crash
<1>4. CASE ToolCall \/ ToolBreaksOff
  BY <1>4, StutterMaps DEF ToolCall, ToolBreaksOff, walkVars
<1>5. CASE RunEnds
  <2>1. /\ pc = "running" /\ pc' \in {"gate", "halted"}
        /\ UNCHANGED <<total, results, attempt>>
    BY <1>5 DEF RunEnds, AfterDispatch
  <2>2. pc' = "halted" => Runner!Halt
    BY <2>1, HaltMaps
  <2>3. pc' = "gate" => UNCHANGED Runner!vars
    BY <2>1, StutterMaps
  <2> QED
    BY <2>1, <2>2, <2>3 DEF Runner!Next, Runner!Walk
<1>6. CASE GateSkips \/ VerifierPasses
  BY <1>6, AcceptMaps DEF GateSkips, VerifierPasses, Verdict, Runner!Next, Runner!Walk
<1>7. CASE GateRejectsRepair \/ VerifierHalts
  BY <1>7, HaltMaps DEF GateRejectsRepair, VerifierHalts, Verdict, Runner!Next, Runner!Walk
<1>8. CASE GateVerifies
  BY <1>8, StutterMaps DEF GateVerifies
<1>9. CASE VerifierAsksRepair
  BY <1>9, StutterMaps DEF VerifierAsksRepair, Verdict
<1>10. CASE Quiet
  BY <1>10, StutterMaps DEF Quiet, walkVars
<1> QED
  BY <1>1, <1>2, <1>3, <1>4, <1>5, <1>6, <1>7, <1>8, <1>9, <1>10, QuietSteps
     DEF Next, GraphStep, GeneratorStep

(* The walk of a turn is a walk of the abstract runner: strictly in order, *)
(* at most one repair per step, nothing accepted without a dispatch, and   *)
(* nothing after it has halted, whatever the generator and the user do.    *)
THEOREM WalkImplementsRunner == Safe => Runner!Safe
<1>1. Init => Runner!Init
  BY DEF Init, Runner!Init, WalkState, WalkTries
<1> QED
  BY InitTyped, NextTyped, StepMaps, <1>1, PTL DEF Safe, Runner!Safe

-------------------------------------------------------------------------------
(* What the caller is told *)

Working == {"dispatch", "running", "gate", "verifying"}

(* As long as the graph task works somebody listens, or has cancelled.     *)
Listening ==
  /\ turn \notin Ended => subscribed
  /\ turn \notin {"consuming", "cancelled"} => pc \notin Working

(* In the first state.                                                     *)
LEMMA InitListening == Init => Listening
  BY DEF Init, Listening, Working, Ended

(* In every step.                                                          *)
LEMMA NextListening == Typed /\ Listening /\ [Next]_vars => Listening'
<1> SUFFICES ASSUME Typed, Listening, [Next]_vars PROVE Listening'
  OBVIOUS
<1> USE DEF Listening, Working, Ended
<1>1. CASE SequenceGraph \/ SequenceFails \/ GraphFinished \/ GraphFailed
  BY <1>1 DEF SequenceGraph, SequenceFails, GraphFinished, GraphFailed, walkVars, Typed, Walking
<1>2. CASE Yield \/ RespondTool \/ Respond \/ Cancel
  BY <1>2 DEF Yield, RespondTool, Respond, Cancel, walkVars
<1>3. CASE Dispatch \/ GraphRaises \/ ToolCall \/ ToolBreaksOff \/ RunEnds
  BY <1>3 DEF Dispatch, GraphRaises, ToolCall, ToolBreaksOff, RunEnds, walkVars
<1>4. CASE GateSkips \/ GateRejectsRepair \/ GateVerifies
  BY <1>4 DEF GateSkips, GateRejectsRepair, GateVerifies
<1>5. CASE VerifierPasses \/ VerifierAsksRepair \/ VerifierHalts
  BY <1>5 DEF VerifierPasses, VerifierAsksRepair, VerifierHalts, Verdict
<1>6. CASE UNCHANGED vars
  BY <1>6 DEF vars
<1> QED
  BY <1>1, <1>2, <1>3, <1>4, <1>5, <1>6 DEF Next, GraphStep, GeneratorStep

(* What the answer says of the files: as long as the turn goes on, no file *)
(* is touched only if no file tool of a step has succeeded.                *)
NoFiles ==
  /\ turn \notin Ended /\ touched = {} => \A s \in StepIds : stepWrites[s] = 0
  /\ answer.noFiles => turn = "answered" /\ \A s \in StepIds : stepWrites[s] = 0

(* In the first state.                                                     *)
LEMMA InitNoFiles == Init => NoFiles
  BY DEF Init, NoFiles, NoAnswer

(* In every step.                                                          *)
LEMMA NextNoFiles == Typed /\ Listening /\ NoFiles /\ [Next]_vars => NoFiles'
<1> SUFFICES ASSUME Typed, Listening, NoFiles, [Next]_vars PROVE NoFiles'
  OBVIOUS
<1> USE DEF NoFiles, Ended
<1>1. CASE ToolCall
  <2>1. turn = "consuming" \/ turn = "cancelled"
    BY <1>1 DEF Listening, Working, ToolCall
  <2>2. turn = "consuming" => touched' # {}
    BY <1>1 DEF Listening, ToolCall
  <2>3. turn' = turn /\ answer' = answer
    BY <1>1 DEF ToolCall
  <2> QED
    BY <2>1, <2>2, <2>3
<1>2. CASE Respond
  <2>1. /\ turn = "responding" /\ turn' = "answered"
        /\ stepWrites' = stepWrites /\ answer'.noFiles = (touched = {})
    BY <1>2 DEF Respond, histVars
  <2> QED
    BY <2>1
<1>3. CASE SequenceGraph \/ SequenceFails \/ Yield \/ GraphFinished \/ GraphFailed
             \/ RespondTool \/ Cancel
  BY <1>3 DEF SequenceGraph, SequenceFails, Yield, GraphFinished, GraphFailed, RespondTool,
     Cancel, diffVars, histVars
<1>4. CASE Dispatch \/ GraphRaises \/ ToolBreaksOff \/ RunEnds
  BY <1>4 DEF Dispatch, GraphRaises, ToolBreaksOff, RunEnds, diffVars, histVars
<1>5. CASE GateSkips \/ GateRejectsRepair \/ GateVerifies
  BY <1>5 DEF GateSkips, GateRejectsRepair, GateVerifies, diffVars, histVars
<1>6. CASE VerifierPasses \/ VerifierAsksRepair \/ VerifierHalts
  BY <1>6 DEF VerifierPasses, VerifierAsksRepair, VerifierHalts, Verdict, diffVars
<1>7. CASE UNCHANGED vars
  BY <1>7 DEF vars
<1> QED
  BY <1>1, <1>2, <1>3, <1>4, <1>5, <1>6, <1>7 DEF Next, GraphStep, GeneratorStep

(* "no files were modified this turn" (core.py, _respond) is never said of *)
(* a turn with a step, halted or not, in which a file tool succeeded,      *)
(* whatever its other tools did before they failed.                        *)
THEOREM NoFalseClaim == Safe => []NoFilesClaimCoversSteps
<1>1. NoFiles => NoFilesClaimCoversSteps
  BY DEF NoFiles, NoFilesClaimCoversSteps
<1> QED
  BY InitTyped, NextTyped, InitListening, NextListening, InitNoFiles, NextNoFiles, <1>1, PTL
     DEF Safe

(* What an event queue or the caller has after one more event, and what is *)
(* left when one is taken out.                                             *)
LEMMA RangeAppend ==
  ASSUME NEW q \in Seq(Events), NEW e \in Events
  PROVE  Range(Append(q, e)) = Range(q) \cup {e}
<1>1. /\ DOMAIN q = 1..Len(q) /\ Len(q) \in Nat
      /\ DOMAIN Append(q, e) = 1..(Len(q) + 1)
      /\ \A i \in 1..Len(q) : Append(q, e)[i] = q[i]
      /\ Append(q, e)[Len(q) + 1] = e
  BY AppendProperties, LenProperties
<1> QED
  BY <1>1 DEF Range

(* Taking the head of a queue loses nothing else.                          *)
LEMMA RangeHeadTail ==
  ASSUME NEW q \in Seq(Events), q # <<>>
  PROVE  Range(q) \subseteq {Head(q)} \cup Range(Tail(q))
<1>1. /\ DOMAIN q = 1..Len(q) /\ Len(q) \in Nat \ {0}
      /\ Tail(q) \in Seq(Events) /\ Len(Tail(q)) = Len(q) - 1
      /\ \A i \in 1..Len(Tail(q)) : Tail(q)[i] = q[i + 1]
  BY HeadTailProperties, LenProperties, EmptySeq
<1>2. DOMAIN Tail(q) = 1..(Len(q) - 1) /\ Head(q) = q[1]
  BY <1>1, LenProperties
<1>3. ASSUME NEW i \in 1..Len(q) PROVE q[i] \in {Head(q)} \cup Range(Tail(q))
  <2>1. CASE i = 1
    BY <1>2, <2>1
  <2>2. CASE i # 1
    <3>1. i - 1 \in DOMAIN Tail(q) /\ Tail(q)[i - 1] = q[i]
      BY <1>1, <1>2, <2>2
    <3> QED
      BY <3>1 DEF Range
  <2> QED
    BY <2>1, <2>2
<1> QED
  BY <1>1, <1>3 DEF Range

(* The end of the walk tells the caller that it halted, if it did, and     *)
(* that it is done.                                                        *)
LEMMA FinishedShown ==
  ASSUME Typed, GraphFinished
  PROVE  \E told \in {shown, Append(shown, Event("halted", step, 0))} :
           shown' = Append(told, Event("done", 0, 0))
<1>1. shown \in Seq(Events) /\ Event("halted", step, 0) \in Events /\ Event("done", 0, 0) \in Events
  BY EventType DEF Typed, TypeOK, StepIds, EventKinds
<1>2. CASE pc = "halted"
  <2>1. shown' = (shown \o <<Event("halted", step, 0)>>) \o <<Event("done", 0, 0)>>
    BY <1>2 DEF GraphFinished
  <2> QED
    BY <1>1, <2>1
<1>3. CASE pc # "halted"
  <2>1. shown' = (shown \o <<>>) \o <<Event("done", 0, 0)>>
    BY <1>3 DEF GraphFinished
  <2>2. shown \o <<>> = shown
    BY <1>1, ConcatEmptySeq
  <2> QED
    BY <1>1, <2>1, <2>2
<1> QED
  BY <1>2, <1>3

(* No event is forgotten.                                                  *)
LEMMA EventsKept ==
  ASSUME Typed, [Next]_vars
  PROVE  Range(queue) \cup Range(shown) \subseteq Range(queue') \cup Range(shown')
<1>1. /\ queue \in Seq(Events) /\ shown \in Seq(Events)
      /\ step \in Nat /\ Len(sink) + 1 \in Nat
  BY DEF Typed, TypeOK, StepIds
<1>2. /\ \A kind \in EventKinds : Event(kind, step, 0) \in Events /\ Event(kind, 0, 0) \in Events
      /\ Event("diff", step, Len(sink) + 1) \in Events
  BY <1>1, EventType DEF EventKinds
<1>3. CASE SequenceGraph \/ Respond
  <2>1. PICK e \in Events : shown' = Append(shown, e)
    BY <1>2, <1>3 DEF SequenceGraph, Respond, EventKinds
  <2>2. queue' = queue
    BY <1>3 DEF SequenceGraph, Respond
  <2> QED
    BY <1>1, <2>1, <2>2, RangeAppend
<1>4. CASE Yield
  BY <1>1, <1>4, RangeAppend, RangeHeadTail, QueueType DEF Yield
<1>5. CASE GraphFinished
  <2>1. PICK told \in {shown, Append(shown, Event("halted", step, 0))} :
          shown' = Append(told, Event("done", 0, 0))
    BY <1>5, FinishedShown
  <2>2. queue' = queue
    BY <1>5 DEF GraphFinished
  <2>3. told \in Seq(Events) /\ Range(shown) \subseteq Range(told)
    <3>1. Event("halted", step, 0) \in Events
      BY <1>2 DEF EventKinds
    <3>2. CASE told = shown
      BY <1>1, <3>2
    <3>3. CASE told = Append(shown, Event("halted", step, 0))
      <4> DEFINE e == Event("halted", step, 0)
      <4> HIDE DEF e
      <4>1. e \in Events /\ told = Append(shown, e)
        BY <3>1, <3>3 DEF e
      <4> QED
        BY <1>1, <4>1, RangeAppend, AppendProperties
    <3> QED
      BY <3>2, <3>3
  <2> QED
    BY <1>2, <2>1, <2>2, <2>3, RangeAppend DEF EventKinds
<1>6. CASE ToolCall
  <2>1. /\ queue' = queue \/ queue' = Append(queue, Event("diff", step, Len(sink) + 1))
        /\ shown' = shown
    BY <1>6 DEF ToolCall
  <2> QED
    BY <1>1, <1>2, <2>1, RangeAppend
<1>7. CASE GateSkips \/ GateRejectsRepair
  BY <1>1, <1>2, <1>7, RangeAppend DEF GateSkips, GateRejectsRepair, EventKinds
<1>8. CASE VerifierPasses \/ VerifierAsksRepair \/ VerifierHalts
  <2>1. \E ok \in BOOLEAN : Verdict(ok)
    BY <1>8 DEF VerifierPasses, VerifierAsksRepair, VerifierHalts
  <2> QED
    BY <1>1, <1>2, <2>1, RangeAppend DEF Verdict, EventKinds
<1>9. CASE UNCHANGED <<queue, shown>>
  BY <1>9
<1>10. SequenceFails \/ GraphFailed \/ RespondTool \/ Cancel \/ Dispatch \/ GraphRaises
         \/ ToolBreaksOff \/ RunEnds \/ GateVerifies \/ UNCHANGED vars =>
           UNCHANGED <<queue, shown>>
  BY DEF SequenceFails, GraphFailed, RespondTool, Cancel, Dispatch, GraphRaises,
     ToolBreaksOff, RunEnds, GateVerifies, vars
<1> QED
  BY <1>3, <1>4, <1>5, <1>6, <1>7, <1>8, <1>9, <1>10 DEF Next, GraphStep, GeneratorStep

(* The successful calls of a step show in the mutation count of its first  *)
(* dispatch and, at the gate, in what that dispatch added to it; those     *)
(* that failed show nowhere.                                               *)
Reported ==
  /\ \A s \in StepIds : s > step => stepWrites[s] = 0
  /\ pc = "none" \/ (pc = "dispatch" /\ attempt = 0) => stepWrites[step] = 0
  /\ attempt = 0 /\ turn # "cancelled" /\ stepWrites[step] > 0 =>
       /\ pc = "running" => mutationsBefore < mutations
       /\ pc = "gate" => delta > 0
  /\ MutatingStepsAreReported

(* In the first state.                                                     *)
LEMMA InitReported == Init => Reported
  BY DEF Init, Reported, MutatingStepsAreReported, StepIds

(* A step may be accepted if what it changed has just been reported.       *)
LEMMA AcceptReported ==
  ASSUME Typed, Reported, AcceptStep, [Next]_vars, NEW CONSTANT now, now = step,
         UNCHANGED <<turn, stepWrites, total>>, pc \in {"gate", "verifying"},
         turn # "cancelled" /\ stepWrites[now] > 0 =>
           HasEvent("verify_ok", now)' \/ HasEvent("verify_skipped", now)'
  PROVE  Reported'
<1>1. /\ step \in 1..MaxSteps /\ total \in 0..MaxSteps /\ Len(results) = step - 1
      /\ results \in Seq({"text", "placeholder", "error"})
      /\ stepWrites \in [StepIds -> Nat] /\ MaxSteps \in Nat
  BY DEF Typed, TypeOK, Walking, StepIds
<1>2. Len(results') = step
  BY <1>1 DEF AcceptStep, Typed, TypeOK
<1>3. ASSUME turn' # "cancelled", NEW s \in 1..Len(results'), stepWrites'[s] > 0
      PROVE  HasEvent("verify_ok", s)' \/ HasEvent("verify_skipped", s)'
  <2>1. CASE s = step
    BY <1>3, <2>1
  <2>2. CASE s # step
    <3>1. s \in 1..Len(results)
      BY <1>1, <1>2, <2>2
    <3>2. HasEvent("verify_ok", s) \/ HasEvent("verify_skipped", s)
      BY <1>3, <3>1 DEF Reported, MutatingStepsAreReported
    <3> QED
      BY <3>2, EventsKept DEF HasEvent
  <2> QED
    BY <2>1, <2>2
<1>4. MutatingStepsAreReported'
  BY <1>3 DEF MutatingStepsAreReported
<1>5. CASE step < total
  BY <1>1, <1>4, <1>5 DEF AcceptStep, Reported, StepIds
<1>6. CASE ~(step < total)
  BY <1>1, <1>4, <1>6 DEF AcceptStep, Reported
<1> QED
  BY <1>5, <1>6

(* In every step.                                                          *)
LEMMA NextReported ==
  Typed /\ Typed' /\ Listening /\ Reported /\ [Next]_vars => Reported'
<1> SUFFICES ASSUME Typed, Typed', Listening, Reported, [Next]_vars PROVE Reported'
  OBVIOUS
<1>1. /\ step \in StepIds /\ StepIds \subseteq Nat
      /\ stepWrites \in [StepIds -> Nat] /\ mutations \in Nat /\ mutationsBefore \in Nat
      /\ queue \in Seq(Events) /\ shown \in Seq(Events)
      /\ \A kind \in EventKinds : Event(kind, step, 0) \in Events
  <2>1. /\ step \in StepIds
        /\ stepWrites \in [StepIds -> Nat] /\ mutations \in Nat /\ mutationsBefore \in Nat
        /\ queue \in Seq(Events) /\ shown \in Seq(Events)
    BY DEF Typed, TypeOK
  <2>2. StepIds \subseteq Nat
    BY DEF StepIds
  <2> QED
    BY <2>1, <2>2, EventType
(* Unless a step is accepted, nothing new has to be reported.              *)
<1>2. ASSUME turn' = "cancelled" \/ turn # "cancelled", results' = results,
             pc = "running" \/ stepWrites' = stepWrites,
             \A s \in 1..Len(results) : stepWrites'[s] = stepWrites[s]
      PROVE  MutatingStepsAreReported'
  <2>1. ASSUME turn' # "cancelled", NEW s \in 1..Len(results'), stepWrites'[s] > 0
        PROVE  HasEvent("verify_ok", s)' \/ HasEvent("verify_skipped", s)'
    <3>1. HasEvent("verify_ok", s) \/ HasEvent("verify_skipped", s)
      BY <1>2, <2>1 DEF Reported, MutatingStepsAreReported
    <3> QED
      BY <3>1, EventsKept DEF HasEvent
  <2> QED
    BY <2>1 DEF MutatingStepsAreReported
<1>3. CASE ToolCall
  <2>1. /\ pc = "running" /\ stepWrites' = [stepWrites EXCEPT ![step] = @ + 1]
        /\ UNCHANGED <<turn, pc, step, attempt, results, mutationsBefore>>
        /\ subscribed => mutations' = mutations + 1
    BY <1>3 DEF ToolCall, walkVars
  <2>2. \A s \in StepIds : s # step => stepWrites'[s] = stepWrites[s]
    BY <1>1, <2>1
  <2>3. \A s \in 1..Len(results) : s \in StepIds /\ s # step
    BY <1>1, <2>1 DEF Typed, Walking, StepIds, TypeOK
  <2>4. MutatingStepsAreReported'
    BY <1>2, <2>1, <2>2, <2>3
  <2>5. turn # "cancelled" => mutationsBefore' < mutations'
    BY <1>1, <2>1 DEF Listening, Working, Ended, Typed, Counters
  <2> QED
    BY <1>1, <2>1, <2>2, <2>4, <2>5 DEF Reported
<1>4. CASE RunEnds
  <2>1. /\ pc = "running" /\ pc' \in {"gate", "halted"} /\ delta' = mutations - mutationsBefore
        /\ UNCHANGED <<turn, step, attempt, results, stepWrites>>
    BY <1>4 DEF RunEnds, AfterDispatch, histVars
  <2>2. MutatingStepsAreReported'
    BY <1>2, <2>1
  <2> QED
    BY <1>1, <2>1, <2>2 DEF Reported
<1>5. CASE GateSkips
  <2>1. /\ pc = "gate" /\ attempt = 0 /\ AcceptStep
        /\ UNCHANGED <<turn, stepWrites, total>>
        /\ delta > 0 => queue' = Append(queue, Event("verify_skipped", step, 0))
    BY <1>5 DEF GateSkips, histVars
  <2> PICK now : now = step
    OBVIOUS
  <2>2. ASSUME turn # "cancelled", stepWrites[now] > 0 PROVE HasEvent("verify_skipped", now)'
    <3>1. Event("verify_skipped", now, 0) \in Range(queue')
      BY <1>1, <2>1, <2>2, RangeAppend DEF Reported, EventKinds
    <3>2. /\ Event("verify_skipped", now, 0).kind = "verify_skipped"
          /\ Event("verify_skipped", now, 0).step = now
      BY DEF Event
    <3> QED
      BY <3>1, <3>2 DEF HasEvent
  <2> QED
    BY <2>1, <2>2, AcceptReported
<1>6. CASE VerifierPasses
  <2>1. /\ pc = "verifying" /\ AcceptStep /\ UNCHANGED <<turn, stepWrites, total>>
        /\ queue' = Append(queue, Event("verify_ok", step, 0))
    BY <1>6 DEF VerifierPasses, Verdict
  <2> PICK now : now = step
    OBVIOUS
  <2>2. HasEvent("verify_ok", now)'
    <3>1. Event("verify_ok", now, 0) \in Range(queue')
      BY <1>1, <2>1, RangeAppend DEF EventKinds
    <3>2. Event("verify_ok", now, 0).kind = "verify_ok" /\ Event("verify_ok", now, 0).step = now
      BY DEF Event
    <3> QED
      BY <3>1, <3>2 DEF HasEvent
  <2> QED
    BY <2>1, <2>2, AcceptReported
<1>7. CASE SequenceGraph \/ SequenceFails \/ Yield \/ GraphFinished \/ GraphFailed
             \/ RespondTool \/ Respond \/ Cancel
  <2>1. /\ UNCHANGED <<step, attempt, results, stepWrites, mutations, mutationsBefore, delta>>
        /\ turn' = "cancelled" \/ turn # "cancelled"
        /\ pc' = pc \/ (pc = "none" /\ pc' = "dispatch")
    BY <1>7 DEF SequenceGraph, SequenceFails, Yield, GraphFinished, GraphFailed, RespondTool,
       Respond, Cancel, walkVars, diffVars, cellVars, histVars, Ended, Typed, Walking
  <2>2. MutatingStepsAreReported'
    BY <1>2, <2>1
  <2> QED
    BY <2>1, <2>2 DEF Reported
<1>8. CASE Dispatch \/ GraphRaises \/ GateRejectsRepair \/ GateVerifies
             \/ VerifierAsksRepair \/ VerifierHalts
  <2>1. /\ UNCHANGED <<turn, step, results, stepWrites, mutations>>
        /\ attempt' # attempt => attempt' = 1
        /\ pc' \in {"running", "raised", "halted", "verifying", "dispatch"}
        /\ pc' = "running" => pc = "dispatch"
        /\ pc' = "dispatch" => attempt' = 1
    BY <1>8 DEF Dispatch, GraphRaises, GateRejectsRepair, GateVerifies, VerifierAsksRepair,
       VerifierHalts, Verdict, diffVars, histVars
  <2>2. MutatingStepsAreReported'
    BY <1>2, <2>1
  <2> QED
    BY <2>1, <2>2 DEF Reported
<1>9. CASE ToolBreaksOff
  <2>1. UNCHANGED <<turn, pc, step, attempt, results, stepWrites, mutations, mutationsBefore, delta>>
    BY <1>9 DEF ToolBreaksOff, walkVars, diffVars, cellVars
  <2>2. MutatingStepsAreReported'
    BY <1>2, <2>1
  <2> QED
    BY <2>1, <2>2 DEF Reported
<1>10. CASE UNCHANGED vars
  <2>1. MutatingStepsAreReported'
    BY <1>2, <1>10 DEF vars
  <2> QED
    BY <1>10, <2>1 DEF Reported, vars
<1> QED
  BY <1>3, <1>4, <1>5, <1>6, <1>7, <1>8, <1>9, <1>10 DEF Next, GraphStep, GeneratorStep

(* skipped_with_mutations and the verdicts' events: no accepted step in    *)
(* which a file tool succeeded is silent while somebody listens, also if   *)
(* other calls of it failed half-way.                                      *)
THEOREM NoSilentStep == Safe => []MutatingStepsAreReported
<1>1. Reported => MutatingStepsAreReported
  BY DEF Reported
<1> QED
  BY InitTyped, NextTyped, InitListening, NextListening, InitReported, NextReported, <1>1, PTL
     DEF Safe

(* What the caller has and what waits for it is one stream: a diff that is *)
(* put lengthens it with the sink, anything else leaves its diffs alone.   *)
LEMMA DeliversOther ==
  ASSUME NEW st \in Seq(Events), NEW e \in Events, NEW n \in Nat, Delivers(st, n),
         e.kind # "diff"
  PROVE  Delivers(Append(st, e), n)
<1> DEFINE longer == Append(st, e)
<1>1. /\ DOMAIN st = 1..Len(st) /\ Len(st) \in Nat /\ DOMAIN longer = 1..(Len(st) + 1)
      /\ \A i \in 1..Len(st) : longer[i] = st[i]
      /\ longer[Len(st) + 1] = e
  BY AppendProperties, LenProperties
<1> HIDE DEF longer
<1>2. {i \in DOMAIN longer : longer[i].kind = "diff"} = {i \in DOMAIN st : st[i].kind = "diff"}
  BY <1>1
<1>3. \A i \in DOMAIN st : longer[i] = st[i]
  BY <1>1
<1> DEFINE diffs == {i \in DOMAIN st : st[i].kind = "diff"}
<1>4. diffs \subseteq DOMAIN st
  OBVIOUS
<1>5. {st[i].pos : i \in diffs} = 1..n /\ \A i, j \in diffs : i < j => st[i].pos < st[j].pos
  BY DEF Delivers
<1> HIDE DEF diffs
<1>6. {longer[i].pos : i \in diffs} = 1..n
      /\ \A i, j \in diffs : i < j => longer[i].pos < longer[j].pos
  BY <1>3, <1>4, <1>5
<1> QED
  BY <1>2, <1>6 DEF Delivers, diffs, longer

(* The next diff arrives behind all others.                                *)
LEMMA DeliversDiff ==
  ASSUME NEW st \in Seq(Events), NEW e \in Events, NEW n \in Nat, Delivers(st, n),
         e.kind = "diff", e.pos = n + 1
  PROVE  Delivers(Append(st, e), n + 1)
<1> DEFINE longer == Append(st, e)
<1> DEFINE diffs == {i \in DOMAIN st : st[i].kind = "diff"}
<1> DEFINE all == {i \in DOMAIN longer : longer[i].kind = "diff"}
<1>1. /\ DOMAIN st = 1..Len(st) /\ Len(st) \in Nat /\ DOMAIN longer = 1..(Len(st) + 1)
      /\ \A i \in 1..Len(st) : longer[i] = st[i]
      /\ longer[Len(st) + 1] = e
  BY AppendProperties, LenProperties
<1>2. {st[i].pos : i \in diffs} = 1..n /\ \A i, j \in diffs : i < j => st[i].pos < st[j].pos
  BY DEF Delivers
<1> HIDE DEF longer
<1>3. all = diffs \cup {Len(st) + 1} /\ diffs \subseteq 1..Len(st)
  BY <1>1
<1> HIDE DEF diffs, all
<1>4. {longer[i].pos : i \in all} = {st[i].pos : i \in diffs} \cup {n + 1}
  BY <1>1, <1>3
<1>5. {longer[i].pos : i \in all} = 1..(n + 1)
  BY <1>2, <1>4
<1>6. ASSUME NEW i \in all, NEW j \in all, i < j PROVE longer[i].pos < longer[j].pos
  <2>1. i \in diffs
    BY <1>1, <1>3, <1>6
  <2>2. longer[i].pos \in 1..n /\ longer[i] = st[i]
    BY <1>1, <1>2, <1>3, <2>1
  <2>3. CASE j \in diffs
    BY <1>1, <1>2, <1>3, <1>6, <2>1, <2>2, <2>3
  <2>4. CASE j = Len(st) + 1
    BY <1>1, <2>2, <2>4
  <2> QED
    BY <1>3, <2>3, <2>4
<1> QED
  BY <1>5, <1>6 DEF Delivers, all, longer

(* What is put at the end of the queue is at the end of the stream.        *)
LEMMA StreamPut ==
  ASSUME NEW p \in Seq(Events), NEW q \in Seq(Events), NEW e \in Events
  PROVE  p \o Append(q, e) = Append(p \o q, e)
<1>1. /\ Append(q, e) = q \o <<e>> /\ <<e>> \in Seq(Events)
      /\ p \o q \in Seq(Events) /\ Append(p \o q, e) = (p \o q) \o <<e>>
  OBVIOUS
<1> QED
  BY <1>1, ConcatAssociative

(* Passing the head on does not change the stream.                         *)
LEMMA StreamYield ==
  ASSUME NEW p \in Seq(Events), NEW q \in Seq(Events), q # <<>>
  PROVE  Append(p, Head(q)) \o Tail(q) = p \o q
<1>1. /\ Head(q) \in Events /\ Tail(q) \in Seq(Events) /\ <<Head(q)>> \in Seq(Events)
      /\ Append(p, Head(q)) = p \o <<Head(q)>>
      /\ q = <<Head(q)>> \o Tail(q)
  OBVIOUS
<1> QED
  BY <1>1, ConcatAssociative

(* The stream carries the sink, and the end is the end: before it nothing  *)
(* says the turn is done, and behind it nothing waits.                     *)
Delivered ==
  turn # "cancelled" =>
    /\ Delivers(shown \o queue, Len(sink))
    /\ turn \in {"sequencing", "responding", "answered"} => queue = <<>>
    /\ \A i \in DOMAIN queue : queue[i].kind # "done"
    /\ turn \in {"sequencing", "consuming"} => \A i \in DOMAIN shown : shown[i].kind # "done"
    /\ \A i \in DOMAIN shown : shown[i].kind = "done" =>
         queue = <<>> /\ \A j \in i..Len(shown) : shown[j].kind # "diff"

(* In the first state.                                                     *)
LEMMA InitDelivered == Init => Delivered
<1> SUFFICES ASSUME Init PROVE Delivered
  OBVIOUS
<1>1. shown \o queue = <<>> /\ Len(sink) = 0 /\ shown = <<>> /\ queue = <<>>
  BY ConcatEmptySeq, EmptySeq DEF Init
<1>2. Delivers(<<>>, 0)
  BY EmptySeq DEF Delivers
<1> QED
  BY <1>1, <1>2, EmptySeq DEF Delivered

(* An event that is put while the graph task works.                        *)
LEMMA PutDelivered ==
  ASSUME Typed, Listening, Delivered, NEW e \in Events, e.kind # "done",
         queue' = Append(queue, e), UNCHANGED <<turn, shown>>, pc \in Working,
         \/ e.kind # "diff" /\ sink' = sink
         \/ e.kind = "diff" /\ e.pos = Len(sink) + 1 /\ Len(sink') = Len(sink) + 1
  PROVE  Delivered'
<1>1. SUFFICES ASSUME turn # "cancelled" PROVE Delivered'
  BY DEF Delivered
<1>2. /\ queue \in Seq(Events) /\ shown \in Seq(Events) /\ Len(sink) \in Nat
      /\ shown \o queue \in Seq(Events)
  BY ConcatProperties, LenProperties DEF Typed, TypeOK
<1>3. turn = "consuming"
  BY <1>1 DEF Listening
<1>4. shown' \o queue' = Append(shown \o queue, e)
  BY <1>2, StreamPut
<1>6. Delivers(shown' \o queue', Len(sink'))
  BY <1>1, <1>2, <1>4, DeliversOther, DeliversDiff DEF Delivered
<1>7. \A i \in DOMAIN queue' : queue'[i].kind # "done"
  <2>1. /\ DOMAIN queue = 1..Len(queue) /\ DOMAIN queue' = 1..(Len(queue) + 1)
        /\ Len(queue) \in Nat /\ queue'[Len(queue) + 1] = e
        /\ \A i \in 1..Len(queue) : queue'[i] = queue[i]
    BY <1>2, AppendProperties, LenProperties
  <2> QED
    BY <1>1, <2>1 DEF Delivered
<1> QED
  BY <1>1, <1>3, <1>6, <1>7 DEF Delivered, Delivers

(* The generator tells something that is no diff, with nothing waiting.    *)
LEMMA TellDelivered ==
  ASSUME Typed, Delivered, turn # "cancelled", NEW e \in Events, e.kind \notin {"diff", "done"},
         shown' = Append(shown, e), UNCHANGED <<queue, sink>>, queue = <<>>,
         turn' = "consuming" => turn = "sequencing",
         turn' \in {"consuming", "answered"}
  PROVE  Delivered'
<1>1. queue \in Seq(Events) /\ shown \in Seq(Events) /\ Len(sink) \in Nat
  BY LenProperties DEF Typed, TypeOK
<1>2. shown' \in Seq(Events) /\ shown \o queue = shown /\ shown' \o queue' = shown'
  BY <1>1, ConcatEmptySeq, AppendProperties
<1>3. Delivers(shown' \o queue', Len(sink'))
  BY <1>1, <1>2, DeliversOther DEF Delivered
<1>4. /\ DOMAIN shown = 1..Len(shown) /\ DOMAIN shown' = 1..(Len(shown) + 1)
      /\ Len(shown) \in Nat /\ shown'[Len(shown) + 1] = e /\ Len(shown') = Len(shown) + 1
      /\ \A i \in 1..Len(shown) : shown'[i] = shown[i]
  BY <1>1, AppendProperties, LenProperties
<1>5. \A i \in DOMAIN shown' : shown'[i].kind = "done" =>
        \A j \in i..Len(shown') : shown'[j].kind # "diff"
  BY <1>4 DEF Delivered
<1>6. turn' = "consuming" => \A i \in DOMAIN shown' : shown'[i].kind # "done"
  BY <1>4 DEF Delivered
<1> QED
  BY <1>3, <1>5, <1>6 DEF Delivered, Delivers

(* Behind the first "done" of a stream there is nothing but itself.        *)
LEMMA NothingBehind ==
  ASSUME NEW st \in Seq(Events), NEW e \in Events, e.kind # "diff",
         \A i \in DOMAIN st : st[i].kind # "done"
  PROVE  \A i \in DOMAIN Append(st, e) : Append(st, e)[i].kind = "done" =>
           \A j \in i..Len(Append(st, e)) : Append(st, e)[j].kind # "diff"
<1> DEFINE longer == Append(st, e)
<1>1. /\ DOMAIN st = 1..Len(st) /\ DOMAIN longer = 1..(Len(st) + 1)
      /\ Len(st) \in Nat /\ longer[Len(st) + 1] = e /\ Len(longer) = Len(st) + 1
      /\ \A i \in 1..Len(st) : longer[i] = st[i]
  BY AppendProperties, LenProperties
<1> HIDE DEF longer
<1>2. ASSUME NEW i \in DOMAIN longer, longer[i].kind = "done", NEW j \in i..Len(longer)
      PROVE  longer[j].kind # "diff"
  <2>1. i = Len(st) + 1
    BY <1>1, <1>2
  <2>2. j = Len(st) + 1
    BY <1>1, <2>1
  <2> QED
    BY <1>1, <2>2
<1> QED
  BY <1>2 DEF longer

(* The walk is over and the queue is drained.                              *)
LEMMA FinishDelivered ==
  ASSUME Typed, Delivered, GraphFinished
  PROVE  Delivered'
<1> PICK told \in {shown, Append(shown, Event("halted", step, 0))} :
      shown' = Append(told, Event("done", 0, 0))
  BY FinishedShown
<1> DEFINE d == Event("done", 0, 0)
<1>1. /\ queue = <<>> /\ queue' = <<>> /\ sink' = sink
      /\ turn = "consuming" /\ turn' = "responding"
      /\ shown \in Seq(Events) /\ Len(sink) \in Nat
  BY LenProperties DEF GraphFinished, diffVars, Typed, TypeOK
<1>2. /\ Event("halted", step, 0) \in Events /\ Event("halted", step, 0).kind = "halted"
      /\ d \in Events /\ d.kind = "done"
  BY DEF Typed, TypeOK, StepIds, Event, Events, EventKinds
<1>3. Delivers(shown, Len(sink)) /\ \A i \in DOMAIN shown : shown[i].kind # "done"
  BY <1>1, ConcatEmptySeq DEF Delivered
<1> HIDE DEF d
<1>4. /\ told \in Seq(Events) /\ Delivers(told, Len(sink))
      /\ \A i \in DOMAIN told : told[i].kind # "done"
  <2>1. CASE told = shown
    BY <1>1, <1>3, <2>1
  <2>2. CASE told = Append(shown, Event("halted", step, 0))
    <3>1. told \in Seq(Events) /\ Delivers(told, Len(sink))
      BY <1>1, <1>2, <1>3, <2>2, DeliversOther, AppendProperties
    <3>2. /\ DOMAIN shown = 1..Len(shown) /\ DOMAIN told = 1..(Len(shown) + 1)
          /\ Len(shown) \in Nat /\ told[Len(shown) + 1] = Event("halted", step, 0)
          /\ \A i \in 1..Len(shown) : told[i] = shown[i]
      BY <1>1, <1>2, <2>2, AppendProperties, LenProperties
    <3> QED
      BY <1>2, <1>3, <3>1, <3>2
  <2> QED
    BY <2>1, <2>2
<1>5. shown' = Append(told, d)
  BY DEF d
<1>6. shown' \in Seq(Events) /\ Delivers(shown', Len(sink))
  BY <1>1, <1>2, <1>4, <1>5, DeliversOther, AppendProperties
<1>7. shown' \o queue' = shown'
  BY <1>1, <1>6, ConcatEmptySeq
<1>8. \A i \in DOMAIN shown' : shown'[i].kind = "done" =>
        \A j \in i..Len(shown') : shown'[j].kind # "diff"
  BY <1>2, <1>4, <1>5, NothingBehind
<1> QED
  BY <1>1, <1>6, <1>7, <1>8 DEF Delivered, Delivers

(* In every step.                                                          *)
LEMMA NextDelivered ==
  Typed /\ Listening /\ Delivered /\ [Next]_vars => Delivered'
<1> SUFFICES ASSUME Typed, Listening, Delivered, [Next]_vars PROVE Delivered'
  OBVIOUS
<1>1. /\ queue \in Seq(Events) /\ shown \in Seq(Events) /\ sink \in Seq(Diff)
      /\ step \in Nat /\ Len(sink) \in Nat /\ Len(sink) + 1 \in Nat
  BY LenProperties DEF Typed, TypeOK, StepIds
<1>2. \A kind \in EventKinds :
        /\ Event(kind, step, 0) \in Events /\ Event(kind, 0, 0) \in Events
        /\ Event(kind, step, 0).kind = kind /\ Event(kind, 0, 0).kind = kind
  BY <1>1, EventType DEF Event
<1>3. ASSUME UNCHANGED <<queue, shown, sink>>,
             \/ turn' \in {turn, "cancelled"}
             \/ turn # "cancelled" /\ turn' \in {"solo", "failed"}
      PROVE  Delivered'
  <2>1. SUFFICES ASSUME turn' # "cancelled" PROVE Delivered'
    BY DEF Delivered
  <2>2. CASE turn' = turn
    <3>1. /\ Delivers(shown' \o queue', Len(sink'))
          /\ turn' \in {"sequencing", "responding", "answered"} => queue' = <<>>
      BY <1>3, <2>1, <2>2 DEF Delivered
    <3> QED
      BY <1>3, <2>1, <2>2, <3>1 DEF Delivered
  <2>3. CASE turn # "cancelled" /\ turn' \in {"solo", "failed"}
    <3>1. Delivers(shown' \o queue', Len(sink'))
      BY <1>3, <2>3 DEF Delivered
    <3> QED
      BY <1>3, <2>1, <2>3, <3>1 DEF Delivered
  <2> QED
    BY <1>3, <2>1, <2>2, <2>3
<1>4. CASE SequenceGraph
  <2>1. turn = "sequencing" /\ turn' = "consuming" /\ UNCHANGED <<queue, sink>>
        /\ shown' = Append(shown, Event("graph_started", 0, 0))
    BY <1>4 DEF SequenceGraph, diffVars
  <2> QED
    BY <1>2, <2>1, TellDelivered DEF EventKinds, Delivered
<1>5. CASE Respond
  <2>1. turn = "responding" /\ turn' = "answered" /\ UNCHANGED <<queue, sink>>
        /\ shown' = Append(shown, Event("answer", 0, 0))
    BY <1>5 DEF Respond, diffVars
  <2> QED
    BY <1>2, <2>1, TellDelivered DEF EventKinds, Delivered
<1>6. CASE GraphFinished
  BY <1>6, FinishDelivered
<1>7. CASE Yield
  <2>1. /\ turn = "consuming" /\ turn' = turn /\ sink' = sink /\ queue # <<>>
        /\ shown' = Append(shown, Head(queue)) /\ queue' = Tail(queue)
    BY <1>7 DEF Yield, diffVars
  <2>2. shown' \o queue' = shown \o queue
    BY <1>1, <2>1, StreamYield
  <2>3. /\ DOMAIN queue = 1..Len(queue) /\ Len(queue) \in Nat \ {0}
        /\ queue' \in Seq(Events) /\ Len(queue') = Len(queue) - 1
        /\ \A i \in 1..Len(queue') : queue'[i] = queue[i + 1]
        /\ Head(queue) = queue[1] /\ Head(queue) \in Events
    BY <1>1, <2>1, HeadTailProperties, LenProperties, EmptySeq
  <2>4. \A i \in DOMAIN queue' : queue'[i].kind # "done"
    BY <2>1, <2>3, LenProperties DEF Delivered
  <2>5. /\ DOMAIN shown = 1..Len(shown) /\ DOMAIN shown' = 1..(Len(shown) + 1)
        /\ Len(shown) \in Nat /\ shown'[Len(shown) + 1] = Head(queue)
        /\ \A i \in 1..Len(shown) : shown'[i] = shown[i]
    BY <1>1, <2>1, <2>3, AppendProperties, LenProperties
  <2>6. \A i \in DOMAIN shown' : shown'[i].kind # "done"
    BY <2>1, <2>3, <2>5 DEF Delivered
  <2>7. /\ Delivers(shown \o queue, Len(sink))
        /\ Delivers(shown' \o queue', Len(sink'))
    BY <2>1, <2>2 DEF Delivered
  <2> QED
    BY <2>1, <2>4, <2>6, <2>7 DEF Delivered
<1>8. CASE ToolCall
  <2>1. /\ pc \in Working /\ UNCHANGED <<turn, shown>>
        /\ \/ UNCHANGED <<queue, sink>>
           \/ /\ queue' = Append(queue, Event("diff", step, Len(sink) + 1))
              /\ \E d \in Diff : sink' = Append(sink, d)
    <3>1. step \in StepIds /\ attempt \in {0, 1}
      BY DEF Typed, TypeOK
    <3>2. pc \in Working /\ UNCHANGED <<turn, shown>>
      BY <1>8 DEF ToolCall, Working
    <3>3. \/ UNCHANGED <<queue, sink>>
          \/ \E via \in Vias :
               /\ queue' = Append(queue, Event("diff", step, Len(sink) + 1))
               /\ sink' = Append(sink, [step |-> step, attempt |-> attempt,
                                        coding |-> via \in CodingVias])
      BY <1>8 DEF ToolCall, diffVars
    <3>4. \A via \in Vias : [step |-> step, attempt |-> attempt,
                              coding |-> via \in CodingVias] \in Diff
      BY <3>1 DEF Diff
    <3> QED
      BY <3>2, <3>3, <3>4
  <2>2. CASE UNCHANGED <<queue, sink>>
    BY <1>3, <2>1, <2>2
  <2>3. CASE ~UNCHANGED <<queue, sink>>
    <3>1. Len(sink') = Len(sink) + 1
      BY <1>1, <2>1, <2>3, AppendProperties
    <3>2. /\ Event("diff", step, Len(sink) + 1) \in Events
          /\ Event("diff", step, Len(sink) + 1).kind = "diff"
          /\ Event("diff", step, Len(sink) + 1).pos = Len(sink) + 1
      BY <1>1, EventType DEF Event, EventKinds
    <3> QED
      BY <2>1, <2>3, <3>1, <3>2, PutDelivered
  <2> QED
    BY <2>2, <2>3
<1>9. CASE GateSkips \/ GateRejectsRepair \/ VerifierPasses \/ VerifierAsksRepair \/ VerifierHalts
  <2>1. /\ pc \in Working /\ UNCHANGED <<turn, shown, sink>>
        /\ \/ queue' = queue
           \/ \E kind \in {"verify_ok", "verify_failed", "verify_skipped"} :
                queue' = Append(queue, Event(kind, step, 0))
    BY <1>9 DEF GateSkips, GateRejectsRepair, VerifierPasses, VerifierAsksRepair, VerifierHalts,
       Verdict, Working, diffVars
  <2>2. CASE queue' = queue
    BY <1>3, <2>1, <2>2
  <2>3. CASE \E kind \in {"verify_ok", "verify_failed", "verify_skipped"} :
               queue' = Append(queue, Event(kind, step, 0))
    BY <1>2, <2>1, <2>3, PutDelivered DEF EventKinds
  <2> QED
    BY <2>1, <2>2, <2>3
<1>10. SequenceFails \/ GraphFailed \/ RespondTool \/ Cancel \/ Dispatch \/ GraphRaises
         \/ ToolBreaksOff \/ RunEnds \/ GateVerifies \/ UNCHANGED vars =>
           /\ UNCHANGED <<queue, shown, sink>>
           /\ \/ turn' \in {turn, "cancelled"}
              \/ turn # "cancelled" /\ turn' \in {"solo", "failed"}
  BY DEF SequenceFails, GraphFailed, RespondTool, Cancel, Dispatch, GraphRaises,
     ToolBreaksOff, RunEnds, GateVerifies, vars, diffVars
<1> QED
  BY <1>3, <1>4, <1>5, <1>6, <1>7, <1>8, <1>9, <1>10 DEF Next, GraphStep, GeneratorStep

(* _stream_graph's two loops: every diff reaches the caller, once, in      *)
(* order, and before the turn says it is done.                             *)
THEOREM DiffsInOrder == Safe => []DiffsDeliveredInOrder
<1>1. Delivered => DiffsDeliveredInOrder
  BY DEF Delivered, DiffsDeliveredInOrder
<1> QED
  BY InitTyped, NextTyped, InitListening, NextListening, InitDelivered, NextDelivered, <1>1, PTL
     DEF Safe

===============================================================================
