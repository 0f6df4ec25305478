---------------------------- MODULE SoloTurnProofs -----------------------------
(***************************************************************************)
(* Theorems about SoloTurn for every budget and every number of tool       *)
(* calls: the queue between the agent task and the generator, and what the *)
(* turn's caller has heard when it is over.                                *)
(***************************************************************************)
EXTENDS SoloTurn, SequenceTheorems, TLAPS

Mark == {"diff", "budget", "end"}

-------------------------------------------------------------------------------
(* Shapes of the queue *)

(* The run goes on: there are only diffs.                                  *)
Flows(q) == \A i \in 1..Len(q) : q[i] = "diff"

(* Diffs, then the budget event, if there is one, then the end mark.       *)
WellFormed(q) ==
  \A i \in 1..Len(q) :
    /\ q[i] = "end" => i = Len(q)
    /\ q[i] = "budget" => i = Len(q) - 1 /\ q[Len(q)] = "end"

Closed(q) == q # <<>> /\ q[Len(q)] = "end"

BudgetQueued(q) == Len(q) > 1 /\ q[Len(q) - 1] = "budget"

(* The diffs of a well-formed queue.                                       *)
Pending(q) ==
  Len(q) - (IF Closed(q) THEN 1 ELSE 0) - (IF BudgetQueued(q) THEN 1 ELSE 0)

(* A diff is put.                                                          *)
LEMMA PutDiff ==
  ASSUME NEW q \in Seq(Mark), Flows(q)
  PROVE  LET p == q \o <<"diff">> IN
         /\ p \in Seq(Mark) /\ Flows(p) /\ WellFormed(p)
         /\ Pending(p) = Pending(q) + 1
<1> DEFINE p == q \o <<"diff">>
<1>1. <<"diff">> \in Seq(Mark) /\ Len(<<"diff">>) = 1 /\ <<"diff">>[1] = "diff"
  BY DEF Mark
<1>2. /\ p \in Seq(Mark) /\ Len(p) = Len(q) + 1
      /\ \A i \in 1..(Len(q) + 1) : p[i] = IF i <= Len(q) THEN q[i] ELSE <<"diff">>[i - Len(q)]
  BY <1>1, ConcatProperties
<1>3. Len(q) \in Nat
  BY LenProperties
<1> HIDE DEF p
<1>4. Flows(p)
  BY <1>1, <1>2, <1>3 DEF Flows
<1>5. Pending(p) = Pending(q) + 1 /\ WellFormed(p)
  BY <1>2, <1>3, <1>4, EmptySeq DEF Flows, Pending, Closed, BudgetQueued, WellFormed
<1> QED
  BY <1>2, <1>4, <1>5 DEF p

(* The end mark is put behind diffs.                                       *)
LEMMA PutEnd ==
  ASSUME NEW q \in Seq(Mark), Flows(q)
  PROVE  LET p == q \o <<"end">> IN
         /\ p \in Seq(Mark) /\ WellFormed(p) /\ Closed(p) /\ ~BudgetQueued(p)
         /\ Pending(p) = Pending(q)
<1> DEFINE p == q \o <<"end">>
<1>1. <<"end">> \in Seq(Mark) /\ Len(<<"end">>) = 1 /\ <<"end">>[1] = "end"
  BY DEF Mark
<1>2. /\ p \in Seq(Mark) /\ Len(p) = Len(q) + 1
      /\ \A i \in 1..(Len(q) + 1) : p[i] = IF i <= Len(q) THEN q[i] ELSE <<"end">>[i - Len(q)]
  BY <1>1, ConcatProperties
<1>3. Len(q) \in Nat
  BY LenProperties
<1> HIDE DEF p
<1>4. p[Len(p)] = "end" /\ \A i \in 1..Len(q) : p[i] = "diff"
  BY <1>1, <1>2, <1>3 DEF Flows
<1>5. p # <<>>
  BY <1>2, <1>3, EmptySeq
<1> QED
  BY <1>2, <1>3, <1>4, <1>5, EmptySeq DEF p, Flows, Pending, Closed, BudgetQueued, WellFormed

(* The budget event and the end mark are put behind diffs.                 *)
LEMMA PutBudgetAndEnd ==
  ASSUME NEW q \in Seq(Mark), Flows(q)
  PROVE  LET p == q \o (<<"budget">> \o <<"end">>) IN
         /\ p \in Seq(Mark) /\ WellFormed(p) /\ Closed(p) /\ BudgetQueued(p)
         /\ Pending(p) = Pending(q)
<1> DEFINE t == <<"budget">> \o <<"end">>
           p == q \o t
<1>1. t \in Seq(Mark) /\ Len(t) = 2 /\ t[1] = "budget" /\ t[2] = "end"
  BY DEF Mark
<1> HIDE DEF t
<1>3. Len(q) \in Nat
  BY LenProperties
<1>2. /\ p \in Seq(Mark) /\ Len(p) = Len(q) + 2
      /\ \A i \in 1..(Len(q) + 2) : p[i] = IF i <= Len(q) THEN q[i] ELSE t[i - Len(q)]
  <2>1. /\ p \in Seq(Mark) /\ Len(p) = Len(q) + Len(t)
        /\ \A i \in 1..(Len(q) + Len(t)) : p[i] = IF i <= Len(q) THEN q[i] ELSE t[i - Len(q)]
    BY <1>1, ConcatProperties
  <2> QED
    BY <1>1, <2>1
<1> HIDE DEF p
<1>4. /\ p[Len(p)] = "end" /\ p[Len(p) - 1] = "budget"
      /\ \A i \in 1..Len(q) : p[i] = "diff"
  BY <1>1, <1>2, <1>3 DEF Flows
<1>5. p # <<>>
  BY <1>2, <1>3, EmptySeq
<1> QED
  BY <1>2, <1>3, <1>4, <1>5, EmptySeq DEF p, t, Flows, Pending, Closed, BudgetQueued, WellFormed

(* What reading an event does to a queue.                                  *)
LEMMA ReadOne ==
  ASSUME NEW q \in Seq(Mark), q # <<>>, WellFormed(q)
  PROVE  /\ Head(q) \in Mark /\ Tail(q) \in Seq(Mark) /\ WellFormed(Tail(q))
         /\ Flows(q) => Head(q) = "diff" /\ Flows(Tail(q))
         /\ Head(q) = "diff" => /\ Pending(Tail(q)) = Pending(q) - 1
                                /\ Closed(q) <=> Closed(Tail(q))
                                /\ BudgetQueued(q) <=> BudgetQueued(Tail(q))
         /\ Head(q) = "budget" => /\ Pending(Tail(q)) = Pending(q)
                                  /\ Closed(q) /\ Closed(Tail(q))
                                  /\ BudgetQueued(q) /\ ~BudgetQueued(Tail(q))
         /\ Head(q) = "end" => /\ Tail(q) = <<>> /\ Pending(Tail(q)) = Pending(q)
                               /\ ~BudgetQueued(q)
<1> DEFINE t == Tail(q)
<1>1. /\ Head(q) = q[1] /\ q[1] \in Mark
      /\ t \in Seq(Mark) /\ Len(t) = Len(q) - 1
      /\ \A i \in 1..Len(t) : t[i] = q[i + 1]
  BY HeadTailProperties
<1>2. Len(q) \in Nat \ {0} /\ (t = <<>> <=> Len(t) = 0) /\ Len(t) \in Nat
  BY <1>1, EmptySeq, LenProperties
<1> HIDE DEF t
<1>3. WellFormed(t)
  BY <1>1, <1>2 DEF WellFormed
<1>4. Flows(q) => Head(q) = "diff" /\ Flows(t)
  BY <1>1, <1>2 DEF Flows
<1>5. ASSUME q[1] = "diff"
      PROVE  /\ Pending(t) = Pending(q) - 1
             /\ Closed(q) <=> Closed(t)
             /\ BudgetQueued(q) <=> BudgetQueued(t)
  <2>1. Closed(q) <=> Closed(t)
    BY <1>1, <1>2, <1>5 DEF Closed
  <2>2. BudgetQueued(q) <=> BudgetQueued(t)
    BY <1>1, <1>2, <1>5 DEF BudgetQueued
  <2> DEFINE c(x) == IF Closed(x) THEN 1 ELSE 0
             b(x) == IF BudgetQueued(x) THEN 1 ELSE 0
  <2>3. /\ Pending(q) = Len(q) - c(q) - b(q)
        /\ Pending(t) = Len(t) - c(t) - b(t)
    BY DEF Pending
  <2>4. c(t) = c(q) /\ b(t) = b(q) /\ c(q) \in Int /\ b(q) \in Int
    BY <2>1, <2>2
  <2> HIDE DEF c, b
  <2>5. Pending(t) = Pending(q) - 1
    BY <1>1, <1>2, <2>3, <2>4
  <2> QED
    BY <2>1, <2>2, <2>5
<1>6. ASSUME q[1] = "budget"
      PROVE  /\ Closed(q) /\ Closed(t) /\ BudgetQueued(q) /\ ~BudgetQueued(t)
             /\ Pending(t) = Pending(q)
  <2>1. Len(q) = 2 /\ q[2] = "end" /\ Len(t) = 1 /\ t[1] = "end"
    BY <1>1, <1>2, <1>6 DEF WellFormed
  <2>2. Closed(q) /\ Closed(t) /\ BudgetQueued(q) /\ ~BudgetQueued(t)
    BY <1>2, <1>6, <2>1 DEF Closed, BudgetQueued
  <2> QED
    BY <2>1, <2>2 DEF Pending
<1>7. ASSUME q[1] = "end"
      PROVE  t = <<>> /\ Pending(t) = Pending(q) /\ ~BudgetQueued(q)
  <2>1. Len(q) = 1 /\ Len(t) = 0 /\ t = <<>>
    BY <1>1, <1>2, <1>7 DEF WellFormed
  <2>2. Closed(q) /\ ~Closed(t) /\ ~BudgetQueued(q) /\ ~BudgetQueued(t)
    BY <1>7, <2>1 DEF Closed, BudgetQueued
  <2> QED
    BY <2>1, <2>2 DEF Pending
<1> QED
  BY <1>1, <1>3, <1>4, <1>5, <1>6, <1>7 DEF t
-------------------------------------------------------------------------------
(* The inductive invariant *)

(* Nothing was asked, put or changed yet.                                  *)
Fresh ==
  /\ pc = "none" /\ queue = <<>> /\ call = "turn" /\ iteration = 1
  /\ calls = 0 /\ shown = 0 /\ filesTouched = {} /\ diffs = 0 /\ changed = {}

(* Where the task and the generator are, together: the task acts only while*)
(* the generator reads and is subscribed.                                  *)
Positions ==
  /\ turn = "opening" => Fresh
  /\ pc = "none" => turn \in {"opening", "failed", "cancelled"} /\ calls = 0
  /\ turn = "reading" => pc \notin {"none", "cancelled"}
  /\ turn = "joining" => pc \in {"returned", "exceeded", "raised"} /\ queue = <<>>
  /\ turn \in Ended => pc \in Over \cup {"none"}
  /\ subscribed <=> turn \in {"reading", "joining"}
  /\ pc \in {"tools", "nested"} => call = "turn"
  /\ pc = "nested" => left > 0

(* Every request so far was an iteration's, or the nudge that follows it.  *)
Asked ==
  /\ call \in {"turn", "nudge"} => iteration <= MaxIterations
  /\ pc # "none" => calls = iteration + (IF call = "nudge" THEN 1 ELSE 0)

(* The run closes the queue when it ends, and not before.                  *)
Queued ==
  /\ WellFormed(queue)
  /\ pc \notin Over => Flows(queue)
  /\ turn = "reading" /\ pc \in Over => Closed(queue)

(* What the successful calls did is counted, and yielded or on its way; so *)
(* is the word that the budget is exhausted, if the closing call was made. *)
Accounted ==
  /\ subscribed => filesTouched = changed /\ shown + Pending(queue) = diffs
  /\ pc \notin Over => ~budgetShown
  /\ turn \in {"reading", "joining"} /\ pc \in {"returned", "exceeded"} =>
       (budgetShown \/ BudgetQueued(queue) <=> call = "salvage")

Inv ==
  /\ TypeOK /\ Positions /\ Asked /\ Queued /\ Accounted
  /\ DoneReportsWhatSucceeded /\ BudgetIsReported

USE IterationsAssumption, ToolsAssumption DEF fileVars

(* The first state.                                                        *)
LEMMA InitInv == Init => Inv
<1> SUFFICES ASSUME Init PROVE Inv
  OBVIOUS
<1>1. 1 \in 1..(MaxIterations + 1) /\ 0 \in 0..MaxTools
  OBVIOUS
<1>2. <<>> \in Seq({"diff", "budget", "end"})
  OBVIOUS
<1>3. TypeOK
  BY <1>1, <1>2 DEF Init, TypeOK, Ended, Over
<1>4. WellFormed(queue) /\ Flows(queue) /\ ~Closed(queue)
  BY DEF Init, WellFormed, Flows, Closed
<1>5. Positions /\ Asked /\ Queued /\ Accounted
  BY <1>4 DEF Init, Positions, Fresh, Asked, Queued, Accounted, Ended, Over
<1> QED
  BY <1>3, <1>5 DEF Init, Inv, DoneReportsWhatSucceeded, BudgetIsReported

(* While the task acts, the generator reads, and nothing closes the queue. *)
LEMMA Active ==
  ASSUME Inv, pc \in {"asking", "tools", "nested"}
  PROVE  /\ turn = "reading" /\ subscribed /\ ~budgetShown /\ Flows(queue)
         /\ queue \in Seq(Mark) /\ filesTouched = changed
         /\ shown + Pending(queue) = diffs /\ calls = iteration + (IF call = "nudge" THEN 1 ELSE 0)
<1>1. turn = "reading" /\ subscribed
  BY DEF Inv, TypeOK, Positions, Fresh, Ended, Over
<1> QED
  BY <1>1 DEF Inv, TypeOK, Asked, Queued, Accounted, Over, Mark

(* Another request keeps the invariant, if its purpose fits the iteration. *)
LEMMA AskInv ==
  ASSUME Inv, pc \in {"asking", "tools"}, call = "turn",
         NextIteration \/ Ask("nudge", iteration),
         leakedRetryUsed' \in BOOLEAN, hasText' \in BOOLEAN,
         UNCHANGED <<left, nestedLeft, readerVars>>
  PROVE  Inv'
<1>1. PICK purpose \in {"turn", "nudge", "salvage"}, i \in 1..(MaxIterations + 1) :
        /\ Ask(purpose, i)
        /\ purpose \in {"turn", "nudge"} => i <= MaxIterations
        /\ i + (IF purpose = "nudge" THEN 1 ELSE 0) = iteration + 1
  BY DEF NextIteration, Inv, TypeOK, Asked
<1>2. turn = "reading" /\ calls = iteration
  BY Active DEF Inv, TypeOK
<1>3. TypeOK'
  BY <1>1, <1>2 DEF Inv, TypeOK, Ask, Ended, Over, eventVars, readerVars
<1>4. Asked'
  BY <1>1, <1>2 DEF Asked, Ask, Inv, TypeOK
<1>5. Positions' /\ Queued' /\ Accounted'
  BY <1>1, <1>2, Active DEF Inv, Positions, Queued, Accounted, Ask, eventVars, readerVars, Ended, Over
<1>6. DoneReportsWhatSucceeded' /\ BudgetIsReported'
  BY <1>2 DEF DoneReportsWhatSucceeded, BudgetIsReported, readerVars
<1> QED
  BY <1>3, <1>4, <1>5, <1>6 DEF Inv

(* The end of the run keeps the invariant, if the budget event is put      *)
(* exactly behind the closing call.                                        *)
LEMMA StopInv ==
  ASSUME Inv, pc \in {"asking", "tools"},
         NEW outcome \in {"returned", "exceeded", "raised"},
         NEW exhausted \in BOOLEAN,
         Stop(outcome, exhausted),
         outcome # "raised" => (exhausted <=> call = "salvage"),
         leakedRetryUsed' \in BOOLEAN, hasText' \in BOOLEAN,
         UNCHANGED <<left, nestedLeft, readerVars>>
  PROVE  Inv'
<1>1. /\ turn = "reading" /\ subscribed /\ ~budgetShown /\ Flows(queue)
      /\ queue \in Seq(Mark) /\ shown + Pending(queue) = diffs
  BY Active
<1>2. /\ queue' \in Seq(Mark) /\ WellFormed(queue)' /\ Closed(queue)'
      /\ Pending(queue)' = Pending(queue)
      /\ exhausted => BudgetQueued(queue)'
      /\ ~exhausted => ~BudgetQueued(queue)'
  <2>1. CASE exhausted
    <3>1. queue' = queue \o (<<"budget">> \o <<"end">>)
      BY <1>1, <2>1 DEF Stop, AgentStopped, Put
    <3> QED
      BY <1>1, <2>1, <3>1, PutBudgetAndEnd
  <2>2. CASE ~exhausted
    <3>1. queue' = queue \o <<"end">>
      BY <1>1, <2>2 DEF Stop, AgentStopped, Put
    <3> QED
      BY <1>1, <2>2, <3>1, PutEnd
  <2> QED
    BY <2>1, <2>2
<1>3. TypeOK'
  BY <1>1, <1>2 DEF Inv, TypeOK, Stop, Ended, Over, readerVars, Mark
<1>4. Positions'
  BY <1>1 DEF Inv, Positions, Stop, Ended, Over, readerVars
<1>5. Asked'
  BY DEF Inv, Asked, Stop
<1>6. Queued'
  BY <1>1, <1>2 DEF Queued, Stop, readerVars, Over
<1>7. Accounted'
  BY <1>1, <1>2 DEF Inv, Accounted, Stop, readerVars, Over
<1>8. DoneReportsWhatSucceeded' /\ BudgetIsReported'
  BY <1>1 DEF DoneReportsWhatSucceeded, BudgetIsReported, readerVars
<1> QED
  BY <1>3, <1>4, <1>5, <1>6, <1>7, <1>8 DEF Inv

(* What a tool that succeeds changes goes on the queue, and into the count,*)
(* at once; one that fails leaves both alone.                              *)
LEMMA ToolInv ==
  ASSUME Inv, pc \in {"tools", "nested"}, ToolCompleted,
         left' \in 0..MaxTools, nestedLeft' \in 0..MaxTools, pc = "nested" => left' > 0,
         UNCHANGED <<pc, call, iteration, leakedRetryUsed, hasText, calls, readerVars>>
  PROVE  Inv'
<1>1. /\ turn = "reading" /\ subscribed /\ Flows(queue) /\ queue \in Seq(Mark)
      /\ filesTouched = changed /\ shown + Pending(queue) = diffs
  BY Active
<1>2. /\ queue' \in Seq(Mark) /\ WellFormed(queue)' /\ Flows(queue)'
      /\ diffs' \in Nat /\ shown + Pending(queue') = diffs'
  <2>1. CASE UNCHANGED <<queue, diffs>>
    BY <1>1, <2>1 DEF Inv, TypeOK, Queued
  <2>2. CASE ~UNCHANGED <<queue, diffs>>
    <3>1. queue' = queue \o <<"diff">> /\ diffs' = diffs + 1
      BY <1>1, <2>2 DEF ToolCompleted, ToolSucceeds, ToolBreaksOff, Put, eventVars
    <3>2. Pending(queue') = Pending(queue) + 1 /\ Pending(queue) \in Int
      BY <1>1, <3>1, PutDiff, LenProperties DEF Pending
    <3> QED
      BY <1>1, <3>1, <3>2, PutDiff DEF Inv, TypeOK
  <2> QED
    BY <2>1, <2>2
<1>6. /\ changed' \subseteq Files /\ filesTouched' = changed'
      /\ writes' \in Nat
  <2>1. changed \subseteq Files /\ writes \in Nat
    BY DEF Inv, TypeOK
  <2>2. CASE ToolSucceeds
    <3>1. PICK f \in Files, g \in Files :
            /\ changed' = changed \cup {f, g}
            /\ filesTouched' = filesTouched \cup {f, g}
      BY <1>1, <2>2 DEF ToolSucceeds
    <3> QED
      BY <1>1, <2>1, <2>2, <3>1 DEF ToolSucceeds
  <2>3. CASE ToolBreaksOff \/ UNCHANGED eventVars
    BY <1>1, <2>1, <2>3 DEF ToolBreaksOff, eventVars
  <2> QED
    BY <2>2, <2>3 DEF ToolCompleted
<1>3. TypeOK'
  BY <1>2, <1>6 DEF Inv, TypeOK, readerVars, Mark
<1>4. Positions' /\ Asked' /\ Queued'
  BY <1>1, <1>2 DEF Inv, Positions, Asked, Queued, readerVars, Over, Ended
<1>5. Accounted' /\ DoneReportsWhatSucceeded' /\ BudgetIsReported'
  BY <1>1, <1>2, <1>6 DEF Inv, Accounted, DoneReportsWhatSucceeded, BudgetIsReported,
     readerVars, Over
<1> QED
  BY <1>3, <1>4, <1>5 DEF Inv

(* A step of the task between two answers that puts nothing.               *)
LEMMA QuietInv ==
  ASSUME Inv, pc \in {"asking", "tools", "nested"}, call = "turn",
         pc' \in {"tools", "nested"}, hasText' \in BOOLEAN,
         left' \in 0..MaxTools, nestedLeft' \in 0..MaxTools, pc' = "nested" => left' > 0,
         UNCHANGED <<call, iteration, leakedRetryUsed, calls, eventVars, readerVars>>
  PROVE  Inv'
<1>1. turn = "reading" /\ subscribed /\ Flows(queue) /\ ~budgetShown
  BY Active
<1>2. TypeOK'
  BY DEF Inv, TypeOK, eventVars, readerVars
<1>3. Positions' /\ Asked' /\ Queued'
  BY <1>1 DEF Inv, Positions, Asked, Queued, eventVars, readerVars, Over, Ended
<1>4. Accounted' /\ DoneReportsWhatSucceeded' /\ BudgetIsReported'
  BY <1>1 DEF Inv, Accounted, DoneReportsWhatSucceeded, BudgetIsReported, eventVars,
     readerVars, Over
<1> QED
  BY <1>2, <1>3, <1>4 DEF Inv

(* The steps of the agent task.                                            *)
LEMMA AgentInv == Inv /\ AgentStep => Inv'
<1> SUFFICES ASSUME Inv, AgentStep PROVE Inv'
  OBVIOUS
<1>1. CASE ModelCallsTools
  <2>1. left' \in 0..MaxTools
    BY <1>1 DEF ModelCallsTools
  <2> QED
    BY <1>1, <2>1, QuietInv DEF ModelCallsTools, Inv, TypeOK
<1>2. CASE ModelAnswers
  <2>1. CASE NextIteration \/ Ask("nudge", iteration)
    BY <1>2, <2>1, AskInv DEF ModelAnswers, Inv, TypeOK
  <2>2. CASE Stop("returned", FALSE)
    BY <1>2, <2>2, StopInv DEF ModelAnswers, Inv, TypeOK
  <2> QED
    BY <1>2, <2>1, <2>2 DEF ModelAnswers
<1>3. CASE NudgeAnswered
  BY <1>3, StopInv DEF NudgeAnswered, Inv, TypeOK
<1>4. CASE SalvageAnswered
  <2>1. PICK outcome \in {"returned", "exceeded"} : Stop(outcome, TRUE)
    BY <1>4 DEF SalvageAnswered
  <2> QED
    BY <1>4, <2>1, StopInv DEF SalvageAnswered, Inv, TypeOK
<1>5. CASE RunRaises
  BY <1>5, StopInv DEF RunRaises, Inv, TypeOK
<1>6. CASE ToolEnds
  <2>1. left' \in 0..MaxTools
    BY <1>6 DEF ToolEnds, Inv, TypeOK
  <2> QED
    BY <1>6, <2>1, ToolInv DEF ToolEnds, Inv, TypeOK
<1>7. CASE Delegate
  BY <1>7, QuietInv DEF Delegate, Inv, TypeOK, Positions
<1>8. CASE NestedTool
  <2>1. nestedLeft' \in 0..MaxTools
    BY <1>8 DEF NestedTool, Inv, TypeOK
  <2> QED
    BY <1>8, <2>1, ToolInv DEF NestedTool, Inv, TypeOK, Positions
<1>9. CASE NestedEnds
  <2>1. queue' = queue
    BY <1>9, ConcatEmptySeq DEF NestedEnds, AgentStopped, Put, Inv, TypeOK
  <2>2. left' \in 0..MaxTools /\ call = "turn"
    BY <1>9 DEF NestedEnds, Inv, TypeOK, Positions
  <2> QED
    BY <1>9, <2>1, <2>2, QuietInv DEF NestedEnds, eventVars, Inv, TypeOK
<1>10. CASE BatchEnds
  BY <1>10, AskInv DEF BatchEnds, Inv, TypeOK, Positions
<1> QED
  BY <1>1, <1>2, <1>3, <1>4, <1>5, <1>6, <1>7, <1>8, <1>9, <1>10 DEF AgentStep

(* The generator reads one mark.                                           *)
LEMMA ReadInv == Inv /\ Read => Inv'
<1> SUFFICES ASSUME Inv, Read PROVE Inv'
  OBVIOUS
<1>1. /\ turn = "reading" /\ queue # <<>> /\ queue' = Tail(queue)
      /\ UNCHANGED <<pc, loopVars, subscribed, fileVars, reported, answered>>
  BY DEF Read
<1>2. queue \in Seq(Mark) /\ WellFormed(queue) /\ subscribed
  BY <1>1 DEF Inv, TypeOK, Queued, Positions, Mark
<1>3. /\ Head(queue) \in Mark /\ queue' \in Seq(Mark) /\ WellFormed(queue')
      /\ Flows(queue) => Head(queue) = "diff" /\ Flows(queue')
  BY <1>1, <1>2, ReadOne
<1>4. Pending(queue) \in Int /\ shown \in Nat /\ diffs \in Nat
  BY <1>2, LenProperties DEF Pending, Inv, TypeOK
<1>5. CASE Head(queue) = "diff"
  <2>1. /\ Pending(queue)' = Pending(queue) - 1
        /\ Closed(queue) => Closed(queue)'
        /\ BudgetQueued(queue) <=> BudgetQueued(queue)'
    BY <1>1, <1>2, <1>5, ReadOne
  <2>2. turn' = "reading" /\ shown' = shown + 1 /\ budgetShown' = budgetShown
    BY <1>5 DEF Read, Inv, TypeOK
  <2>3. TypeOK' /\ Positions' /\ Asked' /\ Queued'
    BY <1>1, <1>2, <1>3, <2>1, <2>2 DEF Inv, TypeOK, Positions, Asked, Queued, loopVars, Mark,
       Over, Ended
  <2>4. Accounted'
    BY <1>1, <1>2, <1>4, <2>1, <2>2 DEF Inv, Accounted, loopVars
  <2> QED
    BY <2>2, <2>3, <2>4 DEF Inv, DoneReportsWhatSucceeded, BudgetIsReported
<1>6. CASE Head(queue) = "budget"
  <2>1. /\ Pending(queue)' = Pending(queue) /\ Closed(queue)' /\ BudgetQueued(queue)
        /\ ~Flows(queue)
    BY <1>1, <1>2, <1>3, <1>6, ReadOne
  <2>2. turn' = "reading" /\ shown' = shown /\ budgetShown' = TRUE
    BY <1>6 DEF Read
  <2>3. TypeOK' /\ Positions' /\ Asked' /\ Queued'
    BY <1>1, <1>2, <1>3, <2>1, <2>2 DEF Inv, TypeOK, Positions, Asked, Queued, loopVars, Mark,
       Over, Ended
  <2>4. Accounted'
    BY <1>1, <1>2, <2>1, <2>2 DEF Inv, Accounted, Queued, loopVars
  <2> QED
    BY <2>2, <2>3, <2>4 DEF Inv, DoneReportsWhatSucceeded, BudgetIsReported
<1>7. CASE Head(queue) = "end"
  <2>1. /\ queue' = <<>> /\ Pending(queue)' = Pending(queue) /\ ~BudgetQueued(queue)
        /\ ~Flows(queue)
    BY <1>1, <1>2, <1>3, <1>7, ReadOne
  <2>2. turn' = "joining" /\ shown' = shown /\ budgetShown' = budgetShown
    BY <1>7 DEF Read, Inv, TypeOK
  <2>3. pc \in Over /\ ~BudgetQueued(queue)'
    BY <2>1 DEF Inv, Queued, BudgetQueued
  <2>4. TypeOK' /\ Positions' /\ Asked' /\ Queued'
    BY <1>1, <1>2, <1>3, <2>1, <2>2, <2>3 DEF Inv, TypeOK, Positions, Asked, Queued, loopVars,
       Mark, Over, Ended
  <2>5. Accounted'
    BY <1>1, <1>2, <2>1, <2>2, <2>3 DEF Inv, Accounted, loopVars
  <2> QED
    BY <2>2, <2>4, <2>5 DEF Inv, DoneReportsWhatSucceeded, BudgetIsReported
<1> QED
  BY <1>3, <1>5, <1>6, <1>7 DEF Mark

(* Every step.                                                             *)
LEMMA NextInv == Inv /\ [Next]_vars => Inv'
<1> SUFFICES ASSUME Inv, [Next]_vars PROVE Inv'
  OBVIOUS
<1>1. CASE AgentStep
  BY <1>1, AgentInv
<1>2. CASE Open
  <2>1. Fresh /\ Flows(queue) /\ WellFormed(queue) /\ Pending(queue) = 0
    BY <1>2 DEF Open, Inv, Positions, Fresh, Flows, WellFormed, Pending, Closed, BudgetQueued
  <2>2. TypeOK' /\ Positions' /\ Asked' /\ Queued'
    BY <1>2, <2>1 DEF Open, Ask, Fresh, Inv, TypeOK, Positions, Asked, Queued, eventVars, Over,
       Ended
  <2>3. Accounted' /\ DoneReportsWhatSucceeded' /\ BudgetIsReported'
    BY <1>2, <2>1 DEF Open, Ask, Fresh, Inv, Accounted, DoneReportsWhatSucceeded, BudgetIsReported,
       eventVars, Over
  <2> QED
    BY <2>2, <2>3 DEF Inv
<1>3. CASE OpenFails
  BY <1>3 DEF OpenFails, Inv, TypeOK, Positions, Fresh, Asked, Queued, Accounted,
     DoneReportsWhatSucceeded, BudgetIsReported, loopVars, eventVars, Over, Ended
<1>4. CASE Read
  BY <1>4, ReadInv
<1>5. CASE Join
  <2>1. queue = <<>> /\ Len(queue) = 0 /\ turn' \in Ended
    BY <1>5 DEF Join, Inv, Positions, Ended
  <2>2. Pending(queue) = 0 /\ ~BudgetQueued(queue)
    BY <2>1 DEF Pending, Closed, BudgetQueued
  <2>6. TypeOK' /\ Positions' /\ Asked' /\ Queued'
    BY <1>5, <2>1, <2>2 DEF Join, Inv, TypeOK, Positions, Asked, Queued, loopVars, eventVars, Over,
       Ended
  <2>3. Accounted'
    BY <1>5, <2>1, <2>2, <2>6 DEF Join, Inv, Accounted, Positions, loopVars, eventVars, Over, Ended
  <2>4. shown = diffs /\ filesTouched = changed
    BY <1>5, <2>1, <2>2 DEF Join, Inv, TypeOK, Positions, Accounted
  <2>5. DoneReportsWhatSucceeded' /\ BudgetIsReported'
    BY <1>5, <2>1, <2>2, <2>4 DEF Join, Inv, Accounted, DoneReportsWhatSucceeded, BudgetIsReported,
       loopVars, eventVars
  <2> QED
    BY <2>6, <2>3, <2>5 DEF Inv
<1>6. CASE Cancel
  BY <1>6 DEF Cancel, Inv, TypeOK, Positions, Asked, Queued, Accounted,
     DoneReportsWhatSucceeded, BudgetIsReported, loopVars, eventVars, Over, Ended
<1>7. CASE UNCHANGED vars
  BY <1>7 DEF vars, Inv, TypeOK, Positions, Fresh, Asked, Queued, Accounted,
     DoneReportsWhatSucceeded, BudgetIsReported
<1> QED
  BY <1>1, <1>2, <1>3, <1>4, <1>5, <1>6, <1>7 DEF Next, GeneratorStep

(* The invariant holds in every run.                                       *)
LEMMA Invariance == Safe => []Inv
  BY InitInv, NextInv, PTL DEF Safe
-------------------------------------------------------------------------------
(* Every value stays in its type, for every budget: the loop counts no     *)
(* further than one past it, and the batch of calls never runs below zero. *)
THEOREM TypeCorrect == Safe => []TypeOK
<1>1. Inv => TypeOK
  BY DEF Inv
<1> QED
  BY Invariance, <1>1, PTL

(* The end mark is the last thing put on the queue, and only when the run  *)
(* is over: bridge_llm_event turns no other run's AgentStopped into it.    *)
THEOREM EndMark == Safe => []EndMarkIsLast
<1>1. Inv => EndMarkIsLast
  <2> SUFFICES ASSUME Inv, NEW i \in DOMAIN queue, queue[i] = "end"
               PROVE  i = Len(queue) /\ pc \in Over
    BY DEF EndMarkIsLast
  <2>1. i \in 1..Len(queue)
    BY LenProperties DEF Inv, TypeOK
  <2> QED
    BY <2>1 DEF Inv, Queued, WellFormed, Flows
<1> QED
  BY Invariance, <1>1, PTL

(* _stream_solo has yielded the diff of every successful call and named    *)
(* its paths in the DoneEvent, those of delegated runs included, before a  *)
(* turn is done; calls that broke off in between take nothing away.        *)
THEOREM DoneReported == Safe => []DoneReportsWhatSucceeded
<1>1. Inv => DoneReportsWhatSucceeded
  BY DEF Inv
<1> QED
  BY Invariance, <1>1, PTL

(* _run_loop asks the model at most max_iterations + 1 times: the leaked   *)
(* call's retry costs an iteration, and the nudge and the closing call do  *)
(* not both happen beyond it.                                              *)
THEOREM CallsBounded == Safe => []ModelCallsAreBounded
<1>1. Inv => ModelCallsAreBounded
  BY DEF Inv, TypeOK, Positions, Asked, ModelCallsAreBounded
<1> QED
  BY Invariance, <1>1, PTL

(* The BudgetExhaustedEvent reaches the caller exactly when the run was    *)
(* closed by the salvage call: the bridge puts it before the end mark.     *)
THEOREM BudgetReported == Safe => []BudgetIsReported
<1>1. Inv => BudgetIsReported
  BY DEF Inv
<1> QED
  BY Invariance, <1>1, PTL

(* The agent task is over, or was never started, once the turn has ended:  *)
(* the finally of _stream_solo cancels it, and a normal end awaited it.    *)
THEOREM NothingAfter == Safe => NothingAfterTheTurn
<1>1. Inv /\ [Next]_vars => [(turn \in Ended) => writes' = writes]_vars
  <2> SUFFICES ASSUME Inv, Next, turn \in Ended PROVE writes' = writes
    BY DEF vars
  <2>1. pc \notin {"asking", "tools", "nested"} /\ turn \notin {"opening", "reading", "joining"}
    BY DEF Inv, Positions, Ended, Over
  <2>2. ~AgentStep
    BY <2>1 DEF AgentStep, ModelCallsTools, ModelAnswers, NudgeAnswered, SalvageAnswered,
       RunRaises, ToolEnds, Delegate, NestedTool, NestedEnds, BatchEnds
  <2>3. ~GeneratorStep /\ ~Cancel
    BY <2>1 DEF GeneratorStep, Open, OpenFails, Read, Join, Cancel
  <2> QED
    BY <2>2, <2>3 DEF Next
<1> QED
  BY Invariance, <1>1, PTL DEF Safe, NothingAfterTheTurn

===============================================================================
