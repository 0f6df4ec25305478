# gekai-agent in TLA+

gekai-agent is a coding agent for the terminal. A prompt becomes a *turn*: an
estimator routes it to a solo run of the root agent or, for work that changes
files, to a sequencer that plans a task graph, which a fixed interpreter walks
with one nested agent run per step and a verifier after each. Everything runs
in one asyncio event loop, inside a Textual application.

These modules model what the engineered part of the program promises around
the language models: who may change files and when, what is checked, what is
reported, what is remembered, and that nothing waits for ever. The models
themselves are external: they may answer anything they can.

Paths below are relative to `src/agent/`.

## 1. The system

### Components, their state and their operations

| Component | Source | State | Operations | Status |
|---|---|---|---|---|
| Task-graph turn | `harness/core.py` `_stream_graph`, `harness/interpreter.py` | queue, diff sink, per-dispatch slot, `files_touched`, the graph task and its position | sequence, dispatch, verify, repair, halt, drain, synthesise, cancel | `GraphTurn`, `StepRunner` |
| Solo turn | `harness/core.py` `_stream_solo` | queue, agent task, `files_touched` | open, read, join, cancel | `SoloTurn` |
| Agent loop | `llm/agent.py`, `llm/events.py` | iteration, leaked-call retry, last answer | ask, run tools, retry, nudge, close, stop | `SoloTurn` |
| Event bridge | `harness/bridge.py` | none of its own | tool event to diff, mutation count and queue; end mark | in both turns |
| Nested dispatch | `harness/dispatch.py` | none of its own | `run_subagent`, `delegate` | in both turns; the tool sets are not modelled |
| Turn worker | `tui/app.py` `_submit_prompt`, `_stream`, `_run_compact`; `harness/turn.py` | the worker, `_worker_cancelled`, `_compact_failure_count` | submit, auto-compact, step, auto-continue, cancel, end | `Turn` |
| Session and log | `agent.py`, `session.py`, `persistence.py`, `compact.py` | `session.messages`, the JSONL log | append, take back, summarise, clear, resume | `Turn` |
| Permission gate and grants | `permissions.py`, `tools/files.py` `_authorize*`, `llm/tools.py`, callbacks of `tui/app.py` | `Permissions`, `_pending`, `ctx.pending`, grants, `_pending_choice` | check, ask, grant, refuse, time out, cancel | `Prompts` |
| Settings store | `settings.py`, `atomic_io.py`, `tiers/store.py`, `tiers/credentials.py` | settings files, a lock per path, the keyring | read-modify-write, break, store and clear keys | `FileTools` (grants), `Tiers` (bindings, keys) |
| Tiers | `tiers/`, `harness/touchpoints.py`, `harness/scaling.py`, `agent.py` `_configure_touchpoints` | the harness's bindings, `_tier_error` | validate, resolve, scale, configure | `Tiers` |
| Directive audit | `directive_audit.py`, `agent.py` | verdict cache, tasks in flight, one notice | start, resolve, answer, hide | `DirectiveAudit` |
| File tools | `tools/files.py`, `tools/shell.py` | the file system, the grants of each run | read, write, edit, delete, make_dir, move, copy, grant | `FileTools` |
| Panels and wizard | `tui/app.py`, `tui/widgets.py`, `tui/palette.py`, `commands/` | five surfaces and their cursors, the `/models` edit, the wizard's place, the prompt lock | keys, questions, polling | `Panels`, `Tiers` (what is saved) |
| Tool scope, plan validation, estimator | `harness/tool_scope.py`, `pipeline/plan.py`, `pipeline/estimate.py` | none | pure functions, one model call | not modelled |
| Provider adapter, rendering, telemetry, scanner, entry point, personas | `llm/providers/`, `tui/render.py`, `telemetry.py`, `workspace/`, `main.py`, `subagents/` | - | input, output, text | not modelled |

### How they interact

* The app's worker coroutine `_stream` iterates `run_step`, which iterates
  `GekaiAgent.process_stream`, which iterates `Harness.stream`: one chain of
  generators, in one task. A cancellation of the worker arrives where that
  chain is suspended.
* Each turn starts one task of its own, the agent run or the graph task. It talks
  to the generator only through an `EventBus` whose subscriber runs
  synchronously inside `emit` and puts events on a queue.
* Tools that need a permission or a path grant call back into the app, which
  puts a question on the screen and waits for a future that a later key press
  resolves.
* The step writes the conversation twice: to `session.messages`, which the next
  request is made from, and to the log, which a later process resumes from.
* Tier bindings and keys live on disk and in the keyring. The app's gate reads
  them before every prompt; the harness keeps the bindings it was built from,
  and is built anew when the app tells the agent that they have changed.
* Every run of an agent makes its file tools a context of their own, loaded from
  the settings when the run begins. A grant goes into that context and into the
  settings file; runs that are under way do not see it.
* A new session and a markdown file that root reads start an audit in the
  background, which reports into one line of the footer.
* Enter, Esc and the arrows go down a cascade over whatever surfaces are shown;
  each has an order of its own.

### What is hard, and what makes each part correct

* Two coroutines share lists and single slots without locks (`GraphTurn`): the
  slot must hold the right dispatch's diffs; every event must be delivered,
  once, in order, before the turn says it is done; a failed step must not slip
  through on old diffs.
* The consumer learns only from one event that the run is over (`SoloTurn`): it
  must come exactly once and last, also when the provider fails or a delegated
  run ends on the same bus.
* A cancellation can arrive at every await, the `finally` block included
  (`Turn`): every turn ends once, memory and log stay in step.
* Concurrent tool calls ask through one slot (`Prompts`): no yes may be taken
  for another question's, no call may run without its grants, no key may stay
  in flight.

* An append to the log can fail or break off (`Turn`): what is resumed is all of
  the conversation or none of it.
* Configuration is kept in three places (`Tiers`): no turn may start on what is
  not saved, or on a tier that does not resolve.
* Audits finish in any order, after their session too (`DirectiveAudit`): a
  verdict is about the text it was asked for, and the line settles.
* Files change while the user thinks about a grant (`FileTools`): a result has
  to say what the call did, not what it found before.
* Five surfaces share three keys (`Panels`): a question must not vanish with its
  asker waiting, and a key must not end up in a row the user never opened.

The complete list, with the line where each one bites, is `hazards` in
`PROJECT.json`.

## 2. The modules

| Module | What it is |
|---|---|
| `StepRunner` | abstract: a walk of at most two tries per step, which accepts in order, halts or crashes, and then never moves |
| `GraphTurn` | detailed: the graph task (`pc`) and the generator (`turn`) of one graph turn |
| `MCGraphTurn` | the three claims, of documents and of the answer itself, that `GraphTurn` refutes |
| `SoloTurn` | the agent task (`pc`, `call`) and the generator (`turn`) of one solo turn |
| `Turn` | the worker (`phase`), the conversation and its log over several turns, commands and restarts |
| `MCTurn` | the documented claim that `Turn` refutes |
| `Prompts` | one batch of tool calls, the gate, the grants, and the user |
| `MCPrompts` | the documented claim that `Prompts` refutes |
| `Tiers` | keys and bindings, their resolution, the harness built from them, the wizard's screens |
| `DirectiveAudit` | extends `Tiers` with the background audits, their cache and the notice: the two are one system, because an audit resolves a tier and saving a binding begins a session |
| `MCDirectiveAudit` | an instance of it |
| `FileTools` | the file tools of several runs over one file system, the grants and their file |
| `MCFileTools` | an instance of it, with its symmetry |
| `Panels` | the footer: file list, history, question bar, `/models` grid and command list, and the keys they share |
| `GraphTurnProofs`, `SoloTurnProofs`, `TurnProofs`, `PromptsProofs`, `PanelsProofs`, `TiersProofs`, `DirectiveAuditProofs`, `FileToolsProofs` | the theorems about the module of that name |

`GraphTurn` instantiates `StepRunner` with the refinement mapping
`accepted <- Len(results)`, `tries <- WalkTries`, `state <- WalkState`. The other
modules stand alone, but for `DirectiveAudit`: they meet at interfaces that are small enough to be
nondeterministic choices on either side (a step of `Turn` is a whole solo or
graph turn that answers, runs out, fails or is cancelled; a tool call of
`SoloTurn` is a batch of `Prompts` that ends).

### Correspondence with the code

* An action is what the code does between two awaits, or a part of it when the
  parts do not touch what another task reads. The actions are therefore at least
  as fine as the event loop's steps.
* `GraphTurn`: `pc` is where `run_task_graph` is suspended or about to be
  (`dispatch`, `running` inside `run_subagent`, `gate` in `verify_agent`,
  `verifying` in the verifier's request). `cell` is `last_dispatch_diffs_cell`
  as positions in the sink, `delta` the mutation count beside it. `verdicts`,
  `stepWrites`, `tornSteps` and `rootWrites` are history. `Cancel` is the moment the
  generator's `finally` runs.
* A file tool of either turn succeeds (`ToolCall`, `ToolSucceeds`), changes a file
  and then fails (`ToolBreaksOff`), or changes nothing. The bridge counts the
  first case only (`bridge.py:218`), and has a diff for some of its calls only: none
  for `make_dir`, `delete_file`, `move_file`, `copy_file`, an empty write or an edit
  whose texts are equal. `tornSteps` remembers the second case.
* `SoloTurn`: `call` says which of the loop's three requests is out: a turn of
  the loop, the nudge for text, or the closing one after the budget. `changed` and
  `diffs` are history: what the successful calls changed and how many of them have
  a diff. `RunRaises` is the provider's exception, or one that leaves a batch of
  tool calls: the permission gate is asked outside the call's `try`.
* `Turn`: `phase` is the await at which `_stream` is suspended; `dying` is a
  requested cancellation that has not arrived. An entry of `messages` and `log`
  is named after the turn and step it belongs to. The prologue's optional
  warning about unconfigured tiers is not a phase of its own.
* `Prompts`: `slot` and `bar` are `_pending_choice` and what `ChoiceBar` shows.
  `reply` is the result of the future a call waits for, so that a call wakes up
  some time after the key press. A yes can fail to be saved: for a path the call
  fails (`GrantNotSaved`); for a permission the exception leaves the batch
  (`PermissionNotSaved`, `raised`), and calls that were gathered with it are no
  longer reached by a cancellation. In the code such a call can only be waiting
  for a question that was displaced, so it changes nothing any more.

* `Turn`, failed writes: `PromptNotLogged`, `AnswerNotLogged` and
  `SummariseUnlogged` are the exceptions of the three appends that matter, at
  their place in the code; `torn` is a line that breaks off. Such a line glues to
  the next one, and `load_session` finds no session at all: `Restart` then begins
  a new one.
* `Tiers`: `root` stands for the bindings `_root` was built from, `bindings` for
  those on disk. `Configure` is `_configure_touchpoints`, which `/models`, the
  wizard and the first prompt call. The wizard is one coroutine; its locals are
  `wizard`, and a screen is one action.
* `DirectiveAudit`: an audit is a record from `_start_audit` to its callback.
  `ResolveAudit` is the task up to its request, `AnswerAudit` what follows. The
  notice carries the text a warning is about, which the screen does not show.
* `FileTools`: a call runs without a break to its end or to a question, because
  nothing else in it awaits. `asking` holds what a suspended call remembers. The
  grants are read again when it goes on, the file system too.
* `Panels`: an action is one key press as the cascade handles it, or one of the two
  steps the app takes on its own (`TextChanged`, `SyncPromptLock`). The text is
  one of four shapes, by what the lists make of it.

### Abstractions

* Text is a model value at most. A run's output is `text`, the placeholder
  for no text, or the error sentinel; an answer is that there is one.
* A file-changing tool call is counted when a *file tool* makes it. The hunks of
  one edit are one diff, the two paths of a move one file. What a shell command
  changes is seen by neither the bridge nor the gate in the code, and by none of
  the history variables here: the properties about changes are about file tools.
* The synthesis run (`RespondTool`) has root's whole tool set on no bus; its
  changes are in no diff and no `files_touched`, so "no files were modified" is
  checked for the steps only.
* A model that is offered no tools is taken to call none (the nudge and the
  closing request).
* In `Prompts` a call has one path and a path one key. The code's external
  grants cover whole subtrees, and a move asks for two paths in turn.
* In `Turn` only the entries that a resume reads can fail. A failure of the note
  an error or an interruption leaves in the log ends the app: a `Restart`. (In the
  code `turn.end` then says `ok` for a turn that failed, because the outcome is
  set after that note, `app.py:1267`.)
* In `FileTools` a file's text is one of a set and a hunk replaces a whole text; a
  directory has no contents, and every path has a parent of its own. Whether an
  external path is in a repository can change between two calls, so a grant is
  asked for either root. A write, a move or a copy can fail at each point where it
  leaves a different file system: `Torn` is a part of a file. Because a directory has
  no contents, one whose move breaks off is there at the destination or is not, and
  a source that is half removed counts as there; parents that `mkdir` made on the
  way to a failure are not seen either. Two texts and two-hunk edits are enough for a hunk to
  fail after another fitted.
* In `Tiers` the catalog does not change, and every model offers the effort the
  sequencer asks for (`OfferedAssumption`; in the code each offers the whole
  ladder). Without it a demoted sequencer could fail in the middle of a turn.
* One instance of the app runs. The lock of a settings file is per process.
* In `Panels` the mouse is off, as in the app (`on_mount`).

## 3. Runs

| Run | Module, configuration | Checks | Bounds |
|---|---|---|---|
| `graph_turn` | `MCGraphTurn`, `GraphTurn.cfg` | `TypeOK`, `GateSeesLatestDispatch`, `AcceptedCodeWasJudged`, `RepairIsByNewCode`, `DiffsDeliveredInOrder`, `MutatingStepsAreReported`, `NoFilesClaimCoversSteps`, `TurnEnds`, `RefinesStepRunner` | 3 steps, 4 tool calls, 1 file: 2.5 million states |
| `graph_turn_sentinel` | `MCGraphTurn`, `GraphTurnSentinel.cfg` | refutes `CrashedRunIsNeverAccepted` | 2 steps, 3 tool calls |
| `graph_turn_cancel` | `MCGraphTurn`, `GraphTurnCancel.cfg` | refutes `NoBackgroundWrites` | 2 steps, 3 tool calls |
| `graph_turn_torn` | `MCGraphTurn`, `GraphTurnTorn.cfg` | refutes `NoFilesClaimIsTrue` | 2 steps, 3 tool calls, 1 file |
| `turn_session` | `MCTurn`, `TurnSession.cfg` | `TypeOK`, `MemoryIsLogMinusTakenBack`, `AnswersFollowTheirPrompts`, `TurnEndsOnce`, `PromptIsFreeAgain` | 2 turns of up to 2 steps, 3 commands, restarts or failed writes: 2.0 million states |
| `turn_flag` | `MCTurn`, `TurnFlag.cfg` | refutes `InterruptedMeansCancelled` | 2 turns, no commands |
| `solo_turn` | `SoloTurn`, `SoloTurn.cfg` | `TypeOK`, `EndMarkIsLast`, `DoneReportsWhatSucceeded`, `ModelCallsAreBounded`, `BudgetIsReported`, `NothingAfterTheTurn`, `TurnEnds` | 3 iterations, 2 tool calls per response, 2 files: 110 thousand states |
| `prompts` | `MCPrompts`, `Prompts.cfg` | `TypeOK`, `GrantsAreTheUsers`, `NothingRunsUngranted`, `NoDoublePrompt`, `InFlightIsAsked`, `NoQuestionAfterCancel`, `SerialBatchEnds` | 3 calls, 2 permissions, 2 paths: 3.6 million states |
| `prompts_hang` | `MCPrompts`, `PromptsHang.cfg` | refutes `ConcurrentCallsDoNotHang` | 2 calls, 2 permissions, 1 path |
| `panels` | `Panels`, `Panels.cfg` | `TypeOK`, `BothHalvesAgree`, `KeysChangeOnlyWhereOpened`, `EscGivesThePromptBack` | 2 models, 1 row, 2 history entries, 2 options: 1.2 million states |
| `directive_audit` | `MCDirectiveAudit`, `DirectiveAudit.cfg` | `TypeOK`, `SavedBindingsAreValid`, `WarningsAreOfTheText`, `TurnsRunOnTheSavedTiers`, `NoticeSettles` | 2 models, 2 tiers, 2 paths, 2 texts, 2 audits in flight: 1.2 million states |
| `file_tools` | `MCFileTools`, `FileTools.cfg` | `TypeOK`, `GrantsAreKept`, `ResultsAreTrue` | 2 runs, 1 hidden and 1 external path, 2 texts, 1 waiting call: 190 thousand states up to symmetry |

Why the bounds are enough:

* *Graph turn.* Three steps are a first, a middle and a last, each with a first
  dispatch and a repair. Four tool calls, wherever in the turn they fall, mix code
  changes, other changes and calls that fail within one run, or leave two for a
  dispatch, two for its repair or another step. The gate never looks further back
  than one dispatch. The file's name matters only to whether `files_touched` is
  empty. The theorems cover every size.
* *Solo turn.* Three iterations have a first, a middle and a last, with the
  leaked-call retry on any of them; two calls let a delegation precede or
  follow a tool call of the run's own.
* *Turn.* Two turns let anything left over from one meet the next; three commands
  and faults let a compaction, a failed write and a restart follow each other in
  every order.
  `CompactAttempts` is 3 in the code and 1 in this run, which reaches the limit
  within two turns; `turn_flag` has the 3.
* *Prompts.* Three calls let one displace another's question while a third
  waits to be denied; two kinds and two paths have equal and different questions.
* *Panels.* Two models are a first and a last row above the row of [ok]; the
  question bar has two options, so that going round differs from stopping. A
  command or file list of one row is enough for its cursor to run off.
* *Directive audit.* Two models of which one can think, and two tiers of which one
  may: all that validation tells apart. `SUPP` and `FAST` are one tier, because they
  differ only in the touchpoints that name them; effort has one rung, because every
  model offers all of them. Two audits are two paths, two texts of one path, or
  two of the same.
* *File tools.* Two runs give every saved grant an older view beside it. One call
  waits at a time: a second one meets the first only in `ctx.pending`, which
  `Prompts` checks with three, since the saving itself is one step.
* `MaxTurns`, `MaxCommands`, `MaxTools`, `MaxSteps`, `MaxAudits` and `MaxAsking` bound what the program
  does not bound itself; each is a guard of the actions it bounds.

Deadlock is not checked because every one of these systems stops: a turn that is
over, a batch that has ended, an app nobody types into any more.

### Fairness

* `GraphTurn`, `SoloTurn`: weak fairness of the two coroutines. The event loop
  resumes every coroutine that can run, and a request to a model ends, by an
  answer, an error or the client's timeout. A run that waits for the user is
  part of a step that ends: the human factor is `Prompts`. Which way a model
  answers is never assumed; the bounds on retries and iterations are the code's.
* `Turn`: weak fairness of the worker alone. The user may never type, never
  cancel, never answer.
* `Prompts`: each call that can go on does; a timeout eventually fires; and the
  user answers, some way or other, a question that can be answered. Without the
  last assumption no batch with a question ends, because a permission question is
  under no timeout (`llm/tools.py:289`, before the `wait_for`). `prompts_hang`
  grants the user that patience and still finds a call that waits for ever.

* `DirectiveAudit`: weak fairness of each task in flight. The event loop runs a task
  that was started, and its request ends by an answer, an error or the client's
  timeout. Nothing is assumed of the user or of the wizard.
* `Panels`: `Spec`, which the proofs use, assumes nothing. `EscSpec` has the same
  steps, so that the run checks the safety properties over all of them; it adds weak fairness of the message that follows an edit of the prompt
  and of the task that polls for the lock, which the event loop gives, and a user
  who from some point on presses Esc again and again and nothing else
  (`<>[][OnlyEsc]_vars`; what a cancelled turn left behind then asks nothing new).
  The last is the question, not an assumption about users: does Esc alone lead
  back to the prompt? When that point comes, any surface may be open.

## 4. What the runs found

1. **A crashed repair can be accepted** (`graph_turn_sentinel`).
   `interpreter.py:127-130` looks for an empty output and the error prefix after
   a step's first dispatch; after the repair, line 140, nothing does. A repair
   that changed code, crashed, and whose diffs pass the check is accepted with
   its error text as the step's output, which later steps may refer to.
   `ai-workflow/architecture.md:514` says such an output is always a failure.
2. **A cancelled graph turn goes on in the background** (`graph_turn_cancel`).
   `core.py:549` only unsubscribes. `_stream_solo` cancels its task
   (`core.py:302`), and `SoloTurn` passes the same property
   (`NothingAfterTheTurn`). `README.md:18` promises no background operation.
3. **A failed tool's changes are denied** (`graph_turn_torn`). `bridge.py:218`
   counts a call whose result is no error. A `write_text` that breaks off
   (`tools/files.py:386`, `399`, `422`), a move that fails between its copy and its
   unlink (`509-514`) or a copy that fails in its middle or at `copystat`
   (`535-540`) has changed a file and is an error: no diff, no `files_touched`, no
   mutation count. The gate then accepts the step without a check or an event, the
   `DoneEvent` does not name the file, and the answer says "no files were modified
   this turn" (`core.py:632`). What does hold is said of the calls that succeed:
   `NoFilesClaimCoversSteps`, `MutatingStepsAreReported` and, on the other path,
   `DoneReportsWhatSucceeded`.
4. **A cancellation during the auto-compaction hits the next turn**
   (`turn_flag`). The compaction runs before `_stream`'s `try` (`app.py:1191`),
   so `_worker_cancelled` is not taken back: the next turn's permission questions
   are refused unasked and it ends as `interrupted`; the cancelled one has no
   `turn.end`. `memory-bank/logging.md:57` says what `interrupted` means.
5. **Two different questions of one batch displace each other**
   (`prompts_hang`). `_ask_choice` (`app.py:643`) has one slot. A read and a write
   of the same hidden path, in a session that has neither permission, ask two
   different permissions at once; the second question replaces the first, which
   nobody can answer any more. `ai-workflow/architecture.md:367` says "no hang".
   The documented case proper, two calls for one question, is fine:
   `NoDoublePrompt`, and a batch that runs serially always ends:
   `SerialBatchEnds`.

What the passing runs show in return: the slot between `dispatch` and
`verify_agent` is safe without a lock, as its comment claims, also for a walk
that outlives its turn; no step is accepted on somebody else's diffs; a solo
turn needs at most one request beyond its budget whatever the model does; the
mixture of take-backs, compactions, clears, failed writes and restarts loses
nothing but the prompts it means to, or all of a log that is torn; a question that
outlives its call lends its yes to nobody. A turn never starts on bindings other
than the saved ones, and no way through the wizard saves one its tier does not
allow. An audit's yes is never about another text. No grant is lost between runs
of one process, and a file tool's result is true of what it did, whatever happened
while the user was asked: the race that a comment in `_write_file` fears
(`tools/files.py:414`) cannot happen, because nothing between the look and the
write awaits.

Met while modelling, and of the code as it is (they contradict no property):

* A question that is cut off by the 30 s tool timeout stays in the bar, and the
  prompt stays locked until another question replaces it (`app.py:619`,
  `ToolTimesOut` in `Panels`).
* Enter answers a pending question, by default with yes, also while the history
  panel or the file list has the arrows (`app.py:1467` against `1726`); it empties
  the prompt as well.
* The command list goes stale behind the history panel, whose text changes it does
  not follow; Enter then runs the highlighted command.
* An audit that outlives `/clear` reports into the new session. A failed call is
  kept as a "no" for that text, so a file is then not asked about again.
* `GEKAI.md` is not audited when `/models` makes the tiers ready, only when the
  wizard does; and the wizard begins a new session also when it only changes one
  tier of a complete set.
* A hidden path that was granted for reading is granted for writing too: a grant
  has no mode.
* `load_permissions` does not survive an unreadable settings file, while the
  functions that save grants count it as empty.
* An error of a file tool does not mean that nothing was changed: a write that fails
  leaves a part of the file, a move or a copy a destination in whole or in part
  (`FileTools`). `ResultsAreTrue` says how far that can go; what the harness makes of
  it is finding 3.
* Esc does not take a cut-off question off the screen: it is the exception that
  `EscGivesThePromptBack` names.

## 5. Proofs

TLAPS proves every safety property and every action property that a passing run
checks, for every value of the constants, and the safety part of the refinement.
`Safe` is `Spec` without fairness, so a theorem about `Safe` holds of `Spec` too.
The proofs need only the assumptions each module makes on its constants: bounds are
natural numbers, positive where there would be nothing to do without; names such as
`NoKind` are none of the things they stand beside; every model offers the effort
the sequencer asks for.

| Module | Theorem | Statement |
|---|---|---|
| `GraphTurnProofs` | `TypeCorrect` | `Safe => []TypeOK` |
| | `GateSeesOnlyLatest` | `Safe => []GateSeesLatestDispatch` |
| | `AcceptedCodeIsJudged` | `Safe => []AcceptedCodeWasJudged` |
| | `RepairsBringNewCode` | `Safe => []RepairIsByNewCode` |
| | `WalkImplementsRunner` | `Safe => Runner!Safe` |
| | `NoFalseClaim` | `Safe => []NoFilesClaimCoversSteps` |
| | `NoSilentStep` | `Safe => []MutatingStepsAreReported` |
| | `DiffsInOrder` | `Safe => []DiffsDeliveredInOrder` |
| `SoloTurnProofs` | `TypeCorrect` | `Safe => []TypeOK` |
| | `EndMark` | `Safe => []EndMarkIsLast` |
| | `DoneReported` | `Safe => []DoneReportsWhatSucceeded` |
| | `CallsBounded` | `Safe => []ModelCallsAreBounded` |
| | `BudgetReported` | `Safe => []BudgetIsReported` |
| | `NothingAfter` | `Safe => NothingAfterTheTurn` |
| `TurnProofs` | `TypeCorrect` | `Safe => []TypeOK` |
| | `EndsOnce` | `Safe => []TurnEndsOnce` |
| | `AnswersFollow` | `Safe => []AnswersFollowTheirPrompts` |
| | `MemoryFollowsLog` | `Safe => []MemoryIsLogMinusTakenBack` |
| `PromptsProofs` | `TypeCorrect` | `Safe => []TypeOK` |
| | `GrantsUsers` | `Safe => []GrantsAreTheUsers` |
| | `RunsGranted` | `Safe => []NothingRunsUngranted` |
| | `PromptedOnce` | `Safe => []NoDoublePrompt` |
| | `InFlightAsked` | `Safe => []InFlightIsAsked` |
| | `NoLateQuestion` | `Safe => NoQuestionAfterCancel` |
| `PanelsProofs` | `TypeCorrect` | `Spec => []TypeOK` |
| | `HalvesAgree` | `Spec => []BothHalvesAgree` |
| | `KeysWhereOpened` | `Spec => KeysChangeOnlyWhereOpened` |
| `DirectiveAuditProofs` | `TypeCorrect` | `Spec => []TypeOK` |
| | `BindingsValid` | `Spec => []SavedBindingsAreValid` |
| | `RunsOnSaved` | `Spec => []TurnsRunOnTheSavedTiers` |
| | `WarningsTrue` | `Spec => []WarningsAreOfTheText` |
| `FileToolsProofs` | `TypeCorrect` | `Spec => []TypeOK` |
| | `GrantsKept` | `Spec => []GrantsAreKept` |
| | `ResultsTrue` | `Spec => ResultsAreTrue` |

`TiersProofs` has the lemmas about the tiers that `DirectiveAuditProofs` rests on.

### The inductive invariants

No property but the simplest is inductive as it stands. What each proof adds:

* **`GraphTurn`**: layers, each proved relative to the ones before it.
  * `Typed` is `TypeOK` with `Counters` (the counts a dispatch saved lie behind
    the current ones) and `Walking` (how the two program counters and the number
    of results fit together). `TypeOK` alone is not inductive: `cell` stays within
    the sink only because the saved count does, and the sequencer's step must not
    disturb a walk that has already started.
  * `Slices` says whose diffs lie where in the sink: nothing in it is later than
    the current attempt, and what was added since `diffsBefore` is the current
    attempt's. The gate's view follows when the slice is published.
  * `Judged` says what is known of the current step while it is being walked (a
    repair exists only after a failed verdict over the first attempt's code; the
    repair's code is judged before the step is accepted). Both properties of
    accepted steps follow.
  * `Listening`: the graph task works for a turn only while the generator consumes
    and the bridge is subscribed. `NoFiles` (while the turn goes on, no file is
    touched only if no file tool of a step has succeeded in writing) needs it, and
    gives `NoFalseClaim`. What a tool that failed has changed is outside all of
    these theorems: `graph_turn_torn` shows that the code denies it.
  * `Reported`: the files a step has changed by calls that succeeded show in the mutation count of its
    first dispatch and, at the gate, in the delta. So no way through the gate is
    silent about them (`NoSilentStep`).
  * `Delivered`: shown and queued events are together one stream that has every
    position of the sink once and in order; before the end nothing says "done",
    and behind it nothing waits. `DeliversDiff`, `DeliversOther`, `StreamPut` and
    `StreamYield` say what an event does to the stream.

  `QuietSteps` collects the actions that touch nothing a layer speaks of, so that
  a layer's proof has one step per action that matters. The refinement maps
  each action of the walk to the abstract action of the same name (`AcceptMaps`,
  `HaltMaps`, and the cases of `StepMaps`) and everything else to a stutter.
* **`SoloTurn`**: `Positions` (the task acts only while the generator reads),
  `Asked` (each request is an iteration's or the nudge behind it), `Queued` (the
  queue is diffs, then perhaps the budget event, then the end mark, which is there
  exactly when the run is over), `Accounted` (the diffs of the successful calls were
  yielded or are on their way, `files_touched` has just the files of those calls;
  the word about the budget is on its way too). `Pending` counts the diffs of a queue
  by its length and the two marks it can end in, which needs no induction.
* **`Turn`**: `Worker` and `Ends` for the endings (a turn without one is at work, to
  come, cancelled or killed); `Conversation` for the answers: while a step runs,
  its prompt is the latest entry of memory *and* of the log. `HasLastCompact` says
  that a compacted log has a last summary, which `Resume` chooses; stated of every
  log it would be an induction over finite sets, as an invariant it is a step.
  For `MemoryFollowsLog`, `Fresh` says that steps are named in the order they come
  and that the entry a step is about to put is nowhere yet, neither among the
  prompts taken back. Without it a name could come twice and a taken-back
  prompt would hide a written one. The lemmas `PutInBoth`, `PutInMemory`,
  `SummaryInMemory`, `PromptTakenBack`, `SameInStep` and `ResumeGrows` are about
  any two sequences, and one case of `ConversationSteps` uses each.
* **`Prompts`**: `YesIsForTheCall` (the bar shows the question whose future the
  app holds, and a reply that waits for its call is about what the call asks),
  `GotThere` (a call is as far as its grants let it), `AskedOnce` (what is in
  flight is asked for by exactly one call), in which the early return on a
  question already in flight keeps the uniqueness.
* **`Panels`**: the invariant is said surface by surface (`Prompt`, `Lists`,
  `Questions`, `Keys`); `GridSteps` says what any step may do to the grid and the
  keys, so that the cascade of keys is taken apart once. A staged value lies in
  an opened cell, also while the cursor is moved by keys other surfaces take
  first.
* **`Tiers`, `DirectiveAudit`**: `WizardValid` (the locals are those of the screens
  behind, so the way back through the screens keeps them valid), `Synced` (the
  harness has the saved bindings whenever they resolve), `Steady` (neither changes
  under a turn). `ScaleClamps` and `ReadyResolves` show that tiers the gate of the
  app calls ready resolve at whatever tier a dispatch is scaled to.
* **`FileTools`**: `Holds` (the file has exactly the grants that were kept, up to
  roots that a wider one covers) and `Waiting` (the calls that wait for a grant
  and what they remember). `ResultsAreTrue` is proved of every tool's action,
  from whatever the file system has become since the call was asked about.

TLC finds every inductive invariant true in all the states of its run's instance.

### What the proofs found

* `TypeOK` of `DirectiveAudit` is false for `MaxAudits = 0`: a restart begins the
  audit of `GEKAI.md` whatever the bound. The constant is now positive.
* `GrantsAreKept` had accepted the loss of a grant if a wider one had been there
  before. It now says that a grant is kept exactly if it is covered, and that no
  root lies inside another.
* `DiffsDeliveredInOrder` and `MemoryIsLogMinusTakenBack` were stated with
  `SelectSeq`. They now speak of positions, and the second also says that no entry
  is there twice, which the proof needs.

### Only model-checked

All liveness (`TurnEnds` of both turns, `PromptIsFreeAgain`, `SerialBatchEnds`,
`NoticeSettles`, `EscGivesThePromptBack`, and the fairness part of `RefinesStepRunner`):
temporal reasoning with `ENABLED` is out of the prover's reach. What the five
refuting runs show needs an instance only.

## 6. Not modelled, and why

* The provider adapter, telemetry, rendering, workspace scan, entry point and
  persona texts: input, output and wording.
* `Agent.run_stream` and its relatives, the retry policy and the cost ceiling:
  the harness uses none of them.
* The close of a generator that a cancellation in the renderer leaves behind: the
  event loop runs it two iterations later, before the interruption is on the
  screen, so `Turn` takes the prompt back together with the cancellation.
* The graph task of a cancelled turn meeting the next turn's questions: its "no" has
  the effect of Esc, which `Turn` has everywhere.
* The tool scope of a nested agent and the validation of a plan: pure functions of
  data that no property here tells apart.
* Listing, globbing, searching and symbols change nothing; a shell command is one
  of `FileTools`' outside changes, its forbidden tokens are text.
* Workspace permissions on disk, the context limit, the environment switches:
  values that are read and written whole.
* Several instances on one workspace: the lock is per process, and two instances
  lose each other's grants and do not see each other's bindings.

## 7. Plan

Built, in this order: `StepRunner`, `GraphTurn` and `GraphTurnProofs` (the mutation
path); `SoloTurn` and `Turn` (the other path, and the life of a turn); `Prompts`
(what the user is asked); `Panels` (how they answer); `Tiers` with
`DirectiveAudit`; `FileTools` with the grants on disk; the faults of the log in
`Turn`.

Then the proofs, a module for each of `GraphTurn`, `SoloTurn`, `Tiers`,
`DirectiveAudit`, `FileTools`, `Panels`, `Prompts` and `Turn`.

Next:

1. An abstract specification of the session (a conversation from which prompts can
   be taken back, with a durable copy that may lag) and the proof that `Turn`
   implements it; `MemoryFollowsLog` is the core of it.
2. An abstract specification of a batch of permission questions, which `Prompts`
   implements: each question is asked once and answered by the user or not at all.
3. The tool scope of a nested agent, if it can be given a property of more than
   one step.
