--------------------------------- MODULE Turn ---------------------------------
(***************************************************************************)
(* The life of a turn in the terminal app, from the prompt to turn.end:    *)
(* GekaiApp._submit_prompt, _stream and _run_compact in tui/app.py, the    *)
(* turn bookkeeping of harness/turn.py, and what a turn does to the        *)
(* session: the conversation in memory (GekaiAgent.process_stream in       *)
(* agent.py, compact.py) and the log a later process resumes from          *)
(* (persistence.py).                                                       *)
(*                                                                         *)
(* phase says at which await the worker coroutine _stream is suspended;    *)
(* between two awaits nothing else runs.  Esc, or the user's no to a       *)
(* permission question, cancels the worker: the exception arrives where    *)
(* the worker is suspended, before it does anything else.                  *)
(*                                                                         *)
(* Writing the log can fail, which is an exception where it happens, and   *)
(* the process can die while it writes.  A line that was not written to    *)
(* its end makes the whole log unreadable.                                 *)
(***************************************************************************)
EXTENDS Naturals, Sequences, FiniteSets, SequencesExt

CONSTANTS
  MaxTurns,                 \* bound: prompts submitted
  MaxCommands,              \* bound: /compact, /clear, restarts, failed writes
  CompactAttempts           \* auto-compactions that may fail in a row (3)

ASSUME TurnsAssumption == MaxTurns \in Nat \ {0}
ASSUME CommandsAssumption == MaxCommands \in Nat
ASSUME AttemptsAssumption == CompactAttempts \in Nat

VARIABLES
  phase,                    \* where the worker is, "idle" when there is none
  turn,                     \* number of the latest turn, 0 before the first
  step,                     \* 1 the turn's prompt, 2 its auto-continuation
  exhausted,                \* the step answered but ran out of its budget
  workerCancelled,          \* _worker_cancelled
  dying,                    \* worker.cancel() called, not yet delivered
  failures,                 \* _compact_failure_count
  outcome,                  \* the turn's outcome so far
  messages,                 \* session.messages but the system prompt
  log,                      \* the message and compact entries of the log
  torn,                     \* a line of the log breaks off
  unlogged,                 \* history: entries in memory whose write failed
  commands,                 \* commands, restarts and failed writes so far
  ends,                     \* history: outcomes of each turn's turn.end
  cancelled,                \* history: turns whose worker the user cancelled
  killed,                   \* history: turns the process did not survive
  popped                    \* history: prompts taken back in this process

workerVars == <<turn, step, exhausted, outcome>>
cancelVars == <<workerCancelled, dying, cancelled>>
sessionVars == <<messages, log, torn, unlogged, popped>>

vars == <<phase, turn, step, exhausted, workerCancelled, dying, failures, outcome,
          messages, log, torn, unlogged, commands, ends, cancelled, killed, popped>>

-------------------------------------------------------------------------------
(* Data *)

Turns == 1..MaxTurns

(* A message or log entry: the prompt or answer of a step of a turn, or    *)
(* the summary that replaced what came before it.                          *)
Entry == [kind : {"user", "assistant", "compact"}, turn : 0..MaxTurns, step : {1, 2}]

Current(kind) == [kind |-> kind, turn |-> turn, step |-> step]

Positions(l, kind) == {i \in DOMAIN l : l[i].kind = kind}

(* Mutant: everything after the first compact entry is loaded.             *)
ResumeFromFirst(l) ==
  IF Positions(l, "compact") = {} THEN l
  ELSE SubSeq(l, CHOOSE i \in Positions(l, "compact") :
                   \A j \in Positions(l, "compact") : i <= j, Len(l))

(* load_session: the last compact entry and what follows it.               *)
Resume(l) ==
  IF Positions(l, "compact") = {} THEN l
  ELSE SubSeq(l, CHOOSE i \in Positions(l, "compact") :
                   \A j \in Positions(l, "compact") : j <= i, Len(l))

Outcomes == {"ok", "max_iterations", "error", "interrupted"}

-------------------------------------------------------------------------------
Init ==
  /\ phase = "idle"
  /\ turn = 0
  /\ step = 1
  /\ exhausted = FALSE
  /\ workerCancelled = FALSE
  /\ dying = FALSE
  /\ failures = 0
  /\ outcome = "ok"
  /\ messages = <<>>
  /\ log = <<>>
  /\ torn = FALSE
  /\ unlogged = {}
  /\ commands = 0
  /\ ends = [t \in Turns |-> <<>>]
  /\ cancelled = {}
  /\ killed = {}
  /\ popped = {}

-------------------------------------------------------------------------------
(* The prologue of _stream, before its try block *)

(* _submit_prompt with no worker running: a new worker, which has its first*)
(* await in the auto-compaction or inside the try block.                   *)
NewTurn ==
  /\ phase = "idle"
  /\ turn < MaxTurns
  /\ turn' = turn + 1
  /\ step' = 1
  /\ exhausted' = FALSE
  /\ outcome' = "ok"
  /\ UNCHANGED <<failures, commands, ends, killed, cancelVars, sessionVars>>

Submit == NewTurn /\ phase' = "starting"

(* Mutant: the failure count is not looked at.                             *)
SubmitWhenFullUnbounded == NewTurn /\ phase' = "compacting"

(* The context is 80% full, and compaction was not given up: the summary   *)
(* is asked for first.                                                     *)
SubmitWhenFull ==
  /\ failures < CompactAttempts
  /\ NewTurn
  /\ phase' = "compacting"

(* A write to the log that raises has written nothing, or a part of the    *)
(* line.                                                                   *)
WriteFails ==
  /\ commands < MaxCommands
  /\ commands' = commands + 1
  /\ torn' \in {torn, TRUE}
  /\ UNCHANGED log

(* apply_summary and append_compact: the summary replaces the              *)
(* conversation, and marks where a resume starts.                          *)
Summarise ==
  /\ messages' = <<Current("compact")>>
  /\ log' = Append(log, Current("compact"))
  /\ unlogged' = {}
  /\ UNCHANGED <<torn, popped>>

(* The summary has replaced the conversation when its entry cannot be      *)
(* written.                                                                *)
SummariseUnlogged ==
  /\ messages' = <<Current("compact")>>
  /\ unlogged' = {Current("compact")}
  /\ WriteFails
  /\ UNCHANGED popped

CompactApplies ==
  /\ phase = "compacting" /\ ~dying
  /\ (Summarise /\ UNCHANGED commands) \/ SummariseUnlogged
  /\ phase' = "compacted"
  /\ UNCHANGED <<failures, ends, killed, workerVars, cancelVars>>

(* The note about it is mounted, and the turn goes on.                     *)
CompactSucceeds ==
  /\ phase = "compacted" /\ ~dying /\ unlogged = {}
  /\ failures' = 0
  /\ phase' = "starting"
  /\ UNCHANGED <<commands, ends, killed, workerVars, cancelVars, sessionVars>>

(* Mutant: try again until it succeeds.                                    *)
CompactRetries ==
  /\ phase = "compacting" /\ ~dying
  /\ failures' = 0
  /\ exhausted' = ~exhausted
  /\ UNCHANGED <<phase, turn, step, outcome, commands, ends, killed, cancelVars, sessionVars>>

(* The summary could not be had, or not be logged: the turn goes on all    *)
(* the same.                                                               *)
CompactFails ==
  /\ phase = "compacting" \/ (phase = "compacted" /\ unlogged # {})
  /\ ~dying
  /\ failures' = failures + 1
  /\ phase' = "starting"
  /\ UNCHANGED <<commands, ends, killed, workerVars, cancelVars, sessionVars>>

-------------------------------------------------------------------------------
(* The steps of the turn: process_stream *)

(* The prompt joins the conversation, in memory and in the log.            *)
StepBegins ==
  /\ phase = "starting" /\ ~dying
  /\ messages' = Append(messages, Current("user"))
  /\ log' = Append(log, Current("user"))
  /\ phase' = "running"
  /\ UNCHANGED <<failures, commands, ends, killed, torn, unlogged, popped, workerVars,
                 cancelVars>>

(* The prompt's entry cannot be written, which process_stream's finally    *)
(* does not cover: the prompt stays in memory.                             *)
PromptNotLogged ==
  /\ phase = "starting" /\ ~dying
  /\ messages' = Append(messages, Current("user"))
  /\ unlogged' = unlogged \cup {Current("user")}
  /\ WriteFails
  /\ phase' = "failing"
  /\ UNCHANGED <<failures, ends, killed, popped, workerVars, cancelVars>>

(* The tiers cannot be resolved: process_stream raises before the prompt.  *)
StepRefused ==
  /\ phase = "starting" /\ ~dying
  /\ phase' = "failing"
  /\ UNCHANGED <<failures, commands, ends, killed, workerVars, cancelVars, sessionVars>>

(* The stream ends with an answer, which may be empty, and with or without *)
(* budget left; an empty answer that touched no file counts as none.       *)
StepAnswers ==
  /\ phase = "running" /\ ~dying
  /\ messages' = Append(messages, Current("assistant"))
  /\ log' = Append(log, Current("assistant"))
  /\ \/ exhausted' \in BOOLEAN /\ outcome' = "ok"
     \/ exhausted' = FALSE /\ outcome' = "max_iterations"
  /\ phase' = "rendering"
  /\ UNCHANGED <<turn, step, failures, commands, ends, killed, torn, unlogged, popped,
                 cancelVars>>

(* The answer's entry cannot be written; the finally finds no prompt to    *)
(* take back.                                                              *)
AnswerNotLogged ==
  /\ phase = "running" /\ ~dying
  /\ messages' = Append(messages, Current("assistant"))
  /\ unlogged' = unlogged \cup {Current("assistant")}
  /\ WriteFails
  /\ phase' = "failing"
  /\ UNCHANGED <<failures, ends, killed, popped, workerVars, cancelVars>>

(* The iteration limit and no answer at all: the prompt stays unanswered.  *)
StepRunsOut ==
  /\ phase = "running" /\ ~dying
  /\ exhausted' = FALSE
  /\ outcome' = "max_iterations"
  /\ phase' = "rendering"
  /\ UNCHANGED <<turn, step, failures, commands, ends, killed, cancelVars, sessionVars>>

(* process_stream's finally: an unfinished step takes its prompt back from *)
(* memory; the log has no such entry to take back.                         *)
TakeBack ==
  /\ messages' = IF Last(messages).kind = "user" THEN Front(messages) ELSE messages
  /\ popped' = popped \cup {<<turn, step>>}
  /\ UNCHANGED <<log, torn, unlogged>>

(* The stream raises.                                                      *)
StepFails ==
  /\ phase = "running" /\ ~dying
  /\ TakeBack
  /\ phase' = "failing"
  /\ UNCHANGED <<failures, commands, ends, killed, workerVars, cancelVars>>

(* The step is rendered; a first step that ran out of budget with an       *)
(* answer is continued, once.                                              *)
StepRendered ==
  /\ phase = "rendering" /\ ~dying
  /\ IF exhausted /\ step = 1
       THEN phase' = "starting" /\ step' = 2
       ELSE phase' = "stopping" /\ UNCHANGED step
  /\ UNCHANGED <<turn, exhausted, outcome, failures, commands, ends, killed,
                 cancelVars, sessionVars>>

(* The error is shown and logged.                                          *)
ErrorRendered ==
  /\ phase = "failing" /\ ~dying
  /\ outcome' = "error"
  /\ phase' = "stopping"
  /\ UNCHANGED <<turn, step, exhausted, failures, commands, ends, killed,
                 cancelVars, sessionVars>>

-------------------------------------------------------------------------------
(* The finally block of _stream *)

EndTurn(o) ==
  /\ ends' = [ends EXCEPT ![turn] = Append(@, o)]
  /\ phase' = "idle"

(* Nobody cancelled: turn.end, and the worker is gone.                     *)
TurnEnds ==
  /\ phase = "stopping" /\ ~dying /\ ~workerCancelled
  /\ EndTurn(outcome)
  /\ UNCHANGED <<failures, commands, killed, workerVars, cancelVars, sessionVars>>

(* Mutant: turn.end goes out before the interruption is marked.            *)
MarkInterruptedEndsToo ==
  /\ phase = "stopping" /\ workerCancelled
  /\ workerCancelled' = FALSE
  /\ dying' = FALSE
  /\ outcome' = "interrupted"
  /\ ends' = [ends EXCEPT ![turn] = Append(@, "interrupted")]
  /\ phase' = "marking"
  /\ UNCHANGED <<turn, step, exhausted, failures, commands, killed,
                 cancelled, sessionVars>>

(* The flag is taken back, then the interruption is being mounted.  A      *)
(* cancellation that arrives in the await on the status animation just     *)
(* before is swallowed there.                                              *)
MarkInterrupted ==
  /\ phase = "stopping" /\ workerCancelled
  /\ workerCancelled' = FALSE
  /\ dying' = FALSE
  /\ outcome' = "interrupted"
  /\ phase' = "marking"
  /\ UNCHANGED <<turn, step, exhausted, failures, commands, ends, killed,
                 cancelled, sessionVars>>

InterruptedTurnEnds ==
  /\ phase = "marking" /\ ~dying
  /\ EndTurn(outcome)
  /\ UNCHANGED <<failures, commands, killed, workerVars, cancelVars, sessionVars>>

-------------------------------------------------------------------------------
(* Cancellation *)

RequestCancel ==
  /\ workerCancelled' = TRUE
  /\ dying' = TRUE
  /\ cancelled' = cancelled \cup {turn}
  /\ UNCHANGED <<phase, failures, commands, ends, killed, workerVars, sessionVars>>

(* action_cancel_stream while the worker is not finished.                  *)
Escape == phase # "idle" /\ ~dying /\ RequestCancel

(* _permission_callback: unless the flag is already set, the user is asked *)
(* and any answer but yes cancels the worker.                              *)
DenyPermission == phase = "running" /\ ~workerCancelled /\ RequestCancel

(* CancelledError where the worker is suspended.  Before the try block it  *)
(* ends _stream at once, as it does when it hits the finally block's mount *)
(* of the interruption.                                                    *)
CancelArrives ==
  /\ dying
  /\ dying' = FALSE
  /\ \/ /\ phase \in {"compacting", "compacted", "marking"}
        /\ phase' = "idle"
        /\ UNCHANGED sessionVars
     \/ /\ phase \in {"starting", "rendering", "failing"}
        /\ phase' = "stopping"
        /\ UNCHANGED sessionVars
     \/ /\ phase = "running"
        /\ phase' = "stopping"
        /\ TakeBack
  /\ UNCHANGED <<failures, commands, ends, killed, workerCancelled, cancelled, workerVars>>

-------------------------------------------------------------------------------
(* Commands and restarts *)

(* Mutant: /compact does not look whether a worker is running.             *)
CompactCommandMidTurn ==
  /\ commands < MaxCommands
  /\ commands' = commands + 1
  /\ Summarise
  /\ UNCHANGED <<phase, failures, ends, killed, workerVars, cancelVars>>

(* /compact, awaited by the key handler: no other key is handled meanwhile.*)
(* One that gets no summary changes nothing.                               *)
CompactCommand ==
  /\ phase = "idle"
  /\ \/ commands < MaxCommands /\ commands' = commands + 1 /\ Summarise
     \/ SummariseUnlogged
  /\ UNCHANGED <<phase, failures, ends, killed, workerVars, cancelVars>>

NewLog ==
  /\ messages' = <<>> /\ log' = <<>> /\ torn' = FALSE
  /\ popped' = {} /\ unlogged' = {}

(* /clear: a new session with a log of its own.                            *)
ClearCommand ==
  /\ phase = "idle"
  /\ commands < MaxCommands
  /\ commands' = commands + 1
  /\ NewLog
  /\ UNCHANGED <<phase, failures, ends, killed, workerVars, cancelVars>>

(* The process ends, at whatever await or in the middle of a write to the  *)
(* log, and --resume starts another.  A log with a torn line is not found: *)
(* what is left is to begin a new session.                                 *)
Restart ==
  /\ commands < MaxCommands
  /\ commands' = commands + 1
  /\ phase' = "idle"
  /\ killed' = IF phase = "idle" THEN killed ELSE killed \cup {turn}
  /\ workerCancelled' = FALSE
  /\ dying' = FALSE
  /\ failures' = 0
  /\ \/ ~torn
        /\ messages' = Resume(log)
        /\ popped' = {} /\ unlogged' = {}
        /\ UNCHANGED <<log, torn>>
     \/ NewLog
  /\ UNCHANGED <<ends, cancelled, workerVars>>

-------------------------------------------------------------------------------
WorkerStep ==
  \/ CompactApplies \/ CompactSucceeds \/ CompactFails
  \/ StepBegins \/ PromptNotLogged \/ StepRefused
  \/ StepAnswers \/ AnswerNotLogged \/ StepRunsOut \/ StepFails
  \/ StepRendered \/ ErrorRendered
  \/ TurnEnds \/ MarkInterrupted \/ InterruptedTurnEnds \/ CancelArrives

UserStep ==
  \/ Submit \/ SubmitWhenFull \/ Escape \/ DenyPermission
  \/ CompactCommand \/ ClearCommand \/ Restart

Next == WorkerStep \/ UserStep

(* The event loop runs the worker; provider calls end.  The user may do    *)
(* anything, or nothing.                                                   *)
Fairness == WF_vars(WorkerStep)

Safe == Init /\ [][Next]_vars

Spec == Safe /\ Fairness

-------------------------------------------------------------------------------
(* Properties *)

TypeOK ==
  /\ phase \in {"idle", "compacting", "compacted", "starting", "running", "rendering", "failing",
                "stopping", "marking"}
  /\ turn \in 0..MaxTurns
  /\ step \in {1, 2}
  /\ exhausted \in BOOLEAN
  /\ workerCancelled \in BOOLEAN
  /\ dying \in BOOLEAN
  /\ failures \in 0..CompactAttempts
  /\ outcome \in Outcomes
  /\ messages \in Seq(Entry)
  /\ log \in Seq(Entry)
  /\ torn \in BOOLEAN
  /\ unlogged \subseteq Entry
  /\ commands \in 0..MaxCommands
  /\ ends \in [Turns -> Seq(Outcomes)]
  /\ cancelled \subseteq Turns
  /\ killed \subseteq Turns
  /\ popped \subseteq Turns \X {1, 2}

(* The entries of l at some positions, and which of them come before which. *)
InOrder(l, positions) ==
  {<<l[p[1]], l[p[2]]>> : p \in {q \in positions \X positions : q[1] <= q[2]}}

Written == {i \in DOMAIN messages : messages[i] \notin unlogged}

Standing(l) == {i \in DOMAIN l : l[i].kind = "user" => <<l[i].turn, l[i].step>> \notin popped}

(* What a resume would load is the conversation in memory, except for the  *)
(* prompts that this process took back because their step did not finish,  *)
(* and the entries it could not write: through cancellations, failures,    *)
(* compactions and earlier resumes, memory and log never lose, repeat or   *)
(* reorder anything else relative to each other.  Behind a summary that    *)
(* could not be written the log still has what the summary replaced.       *)
MemoryIsLogMinusTakenBack ==
  LET resumed == Resume(log)
      replaced == IF \E m \in unlogged : m.kind = "compact" THEN 0..Len(resumed) ELSE {0}
  IN /\ IsInjective(messages) /\ IsInjective(resumed)
     /\ \E cut \in replaced :
          InOrder(messages, Written)
            = InOrder(resumed, {i \in Standing(resumed) : i > cut})

(* An answer stands directly behind its own prompt, in memory and in the   *)
(* log: no cancellation, late compaction, taken back prompt, clear or      *)
(* restart gets between the two or leaves an answer without its question.  *)
AnswersFollowTheirPrompts ==
  \A l \in {messages, log} : \A i \in Positions(l, "assistant") :
    i > 1 /\ l[i - 1] = [l[i] EXCEPT !.kind = "user"]

(* turn.end is emitted once per turn, the doc says: never twice, and when  *)
(* the app is idle, exactly once for every turn that the user did not      *)
(* cancel and the process survived.                                        *)
TurnEndsOnce ==
  /\ \A t \in Turns : Len(ends[t]) <= 1
  /\ \A t \in 1..turn :
       ends[t] = <<>> =>
         t \in cancelled \cup killed \/ (t = turn /\ phase # "idle")

(* Every worker ends, whatever the provider answers, however often the     *)
(* context has to be compacted and however often it cannot be: the prompt  *)
(* is free again (_submit_prompt refuses while a worker runs).             *)
PromptIsFreeAgain == []<>(phase = "idle")

===============================================================================
