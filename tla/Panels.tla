-------------------------------- MODULE Panels --------------------------------
(***************************************************************************)
(* The footer of the terminal app: five surfaces that share the keyboard   *)
(* with the prompt (tui/app.py, tui/widgets.py, tui/palette.py).  They are  *)
(* the file list that completes an @, the prompt history, the bar with a   *)
(* question of a tool or of the /tier wizard, the /models grid, and the    *)
(* command list that completes a /.                                        *)
(*                                                                         *)
(* Every key goes down a cascade of "if this surface is shown": Enter, Esc *)
(* and the arrows each have an order of their own.  What follows an edit   *)
(* of the prompt is done by a message that is handled later, and whether   *)
(* the prompt takes keys is brought up to date by a task that polls.  The  *)
(* mouse is off (GekaiApp.on_mount), so the click handlers do not run.     *)
(***************************************************************************)
EXTENDS Integers, FiniteSets

CONSTANTS
  NModels,                  \* entries of the model catalog
  NRows,                    \* most rows of the file and the command list
  NEntries,                 \* entries of the prompt history
  NOptions                  \* options of a question

ASSUME SizesAssumption ==
  /\ NModels \in Nat \ {0} /\ NRows \in Nat \ {0}
  /\ NEntries \in Nat /\ NOptions \in Nat \ {0}

(* What the prompt's text makes the typeahead lists do.                    *)
Texts == {"empty", "plain", "at", "slash"}

(* A history entry is a prompt that was submitted, so it has text.         *)
EntryTexts == Texts \ {"empty"}

VARIABLES
  text,                     \* PromptTextArea.text
  changed,                  \* a TextArea.Changed is on its way to the app
  focused, locked,          \* prompt.has_focus, prompt.read_only
  escPending,               \* _esc_pending
  file, history, palette,   \* FilePanel, HistoryPanel, CommandPalette
  bar,                      \* ChoiceBar
  question,                 \* whose future _pending_choice is, if it is not done
  wizard,                   \* _run_tier_wizard runs and has no question up
  grid,                     \* ModelsPanel: shown, and its cursor
  edit,                     \* _models_edit
  keyring,                  \* the models with a stored key
  turn,                     \* "running": _worker is not finished
  opened                    \* history: cells opened for editing in this /models

promptVars == <<text, changed, focused>>
modelVars == <<grid, edit, keyring, opened>>
barVars == <<bar, question, wizard>>
vars == <<text, changed, focused, locked, escPending, file, history, palette, bar,
          question, wizard, grid, edit, keyring, turn, opened>>

-------------------------------------------------------------------------------
(* A list with a cursor, as the widgets keep it.                           *)
List(n) == [shown |-> TRUE, n |-> n, sel |-> 0]
Hidden == [shown |-> FALSE, n |-> 0, sel |-> 0]

(* The file list and the history stop at their ends, ...                   *)
ClampUp(l) == [l EXCEPT !.sel = IF @ > 0 THEN @ - 1 ELSE @]
ClampDown(l) == [l EXCEPT !.sel = IF @ < l.n - 1 THEN @ + 1 ELSE @]

(* Mutant: the cursor runs off the end.                                    *)
RunOffEnd(l) == [l EXCEPT !.sel = @ + 1]

(* ... the question bar and the command list go round.                     *)
WrapUp(l) == IF l.n = 0 THEN l ELSE [l EXCEPT !.sel = (@ - 1) % l.n]
WrapDown(l) == IF l.n = 0 THEN l ELSE [l EXCEPT !.sel = (@ + 1) % l.n]

(* The grid: one row per model, and below them the row with [ok] and       *)
(* [cancel].                                                               *)
CommitRow == NModels
Columns(row) == IF row = CommitRow THEN <<"ok", "cancel">> ELSE <<"key", "key">>
ToRow(g, row) ==
  [g EXCEPT !.row = row,
            !.col = IF @ \in {Columns(row)[1], Columns(row)[2]} THEN @ ELSE Columns(row)[1]]
RowUp(g) == IF g.row > 0 THEN ToRow(g, g.row - 1) ELSE g
RowDown(g) == IF g.row < CommitRow THEN ToRow(g, g.row + 1) ELSE g
ColLeft(g) == [g EXCEPT !.col = Columns(g.row)[1]]
ColRight(g) == [g EXCEPT !.col = Columns(g.row)[2]]

NoEdit == [on |-> FALSE, editing |-> FALSE, input |-> [m \in 0..(NModels - 1) |-> "kept"]]

AtKey == grid.col = "key"

(* _any_panel_active, and the surfaces that lock the prompt: those that    *)
(* are not a filter over the prompt's own text.                            *)
Locking == history.shown \/ bar.shown \/ grid.shown
AnyPanelActive == Locking \/ file.shown \/ palette.shown

Live == question # "none" /\ question # "cutOff"

Cursors == {l \in [shown : BOOLEAN, n : 0..(NRows + NEntries + NOptions),
                   sel : 0..(NRows + NEntries + NOptions)] :
              l.sel < l.n \/ (l.sel = 0 /\ l.n = 0)}

(* Every surface's cursor is on something that is there: selected_key and  *)
(* selected_name index without a check.                                    *)
TypeOK ==
  /\ text \in Texts /\ changed \in BOOLEAN
  /\ focused \in BOOLEAN /\ locked \in BOOLEAN /\ escPending \in BOOLEAN
  /\ file \in Cursors /\ history \in Cursors /\ palette \in Cursors /\ bar \in Cursors
  /\ bar.shown => bar.n > 0
  /\ palette.shown => palette.n > 0
  /\ question \in {"none", "tool", "wizard", "cutOff"} /\ wizard \in BOOLEAN
  /\ grid \in [shown : BOOLEAN, row : 0..NModels, col : {"key", "ok", "cancel"}]
  /\ AtKey <=> grid.row # CommitRow
  /\ edit \in [on : BOOLEAN, editing : BOOLEAN,
               input : [0..(NModels - 1) -> {"kept", "cleared", "new"}]]
  /\ keyring \subseteq 0..(NModels - 1) /\ opened \subseteq 0..(NModels - 1)
  /\ turn \in {"none", "running", "leftBehind"}

(* After _init_session: nothing is open, the prompt has the focus.         *)
Init ==
  /\ text = "empty" /\ changed = FALSE
  /\ focused = TRUE /\ locked = FALSE /\ escPending = FALSE
  /\ file = Hidden /\ history = Hidden /\ palette = Hidden /\ bar = Hidden
  /\ question = "none" /\ wizard = FALSE
  /\ grid = [shown |-> FALSE, row |-> 0, col |-> "key"]
  /\ edit = NoEdit
  /\ keyring \in SUBSET (0..(NModels - 1))
  /\ turn = "none"
  /\ opened = {}

-------------------------------------------------------------------------------
(* Typing.  The prompt takes the key itself, or the app passes it on when  *)
(* no surface is up.                                                       *)
TakesKey == focused /\ ~locked

SetText(t) == text' = t /\ changed' = TRUE

Type(t) ==
  /\ TakesKey \/ (~focused /\ ~AnyPanelActive)
  /\ SetText(t)
  /\ focused' = TRUE
  /\ escPending' = (escPending /\ TakesKey)
  /\ UNCHANGED <<locked, file, history, palette, barVars, modelVars, turn>>

(* on_text_area_changed reads the text as it is now, and leaves the lists  *)
(* alone while the history is shown.                                       *)
TextChanged ==
  /\ changed
  /\ changed' = FALSE
  /\ \/ /\ history.shown
        /\ UNCHANGED <<file, palette, escPending>>
     \/ /\ ~history.shown
        /\ palette' \in IF text = "slash" THEN {Hidden} \cup {List(n) : n \in 1..NRows}
                                          ELSE {Hidden}
        /\ file' \in IF text = "at" THEN {List(n) : n \in 0..NRows} ELSE {Hidden}
        /\ escPending' = FALSE
  /\ UNCHANGED <<text, focused, locked, history, barVars, modelVars, turn>>

(* Mutant: the lock is taken off and the focus is not given back.          *)
UnlockKeepsFocus ==
  /\ locked # Locking
  /\ locked' = Locking
  /\ focused' = (focused /\ ~Locking)
  /\ UNCHANGED <<text, changed, escPending, file, history, palette, barVars,
                 modelVars, turn>>

(* _poll_prompt_lock, every 150 ms.                                        *)
SyncPromptLock ==
  /\ locked # Locking
  /\ locked' = Locking
  /\ focused' = ~Locking
  /\ UNCHANGED <<text, changed, escPending, file, history, palette, barVars,
                 modelVars, turn>>

-------------------------------------------------------------------------------
(* Questions.  A tool asks, or the wizard; there is one bar and one future.*)
(* A task graph a cancelled turn leaves behind goes on calling tools.      *)
AskChoice(who) ==
  /\ question' = who
  /\ bar' = List(NOptions)

ToolAsks ==
  /\ turn # "none"
  /\ AskChoice("tool")
  /\ UNCHANGED <<promptVars, locked, escPending, file, history, palette, wizard,
                 modelVars, turn>>

WizardAsks ==
  /\ wizard
  /\ AskChoice("wizard")
  /\ wizard' = FALSE
  /\ UNCHANGED <<promptVars, locked, escPending, file, history, palette,
                 modelVars, turn>>

(* The tool call that waits runs into its time-out: the future is          *)
(* cancelled, and nobody takes the question off the screen.                *)
ToolTimesOut ==
  /\ question = "tool"
  /\ question' = "cutOff"
  /\ UNCHANGED <<promptVars, locked, escPending, file, history, palette, bar, wizard,
                 modelVars, turn>>

Cancelled == {"none", "leftBehind"}

(* set_result.  After an answer the wizard asks its next question or ends; *)
(* without one it ends.  A denied permission cancels the turn.             *)
Resolve(answered) ==
  /\ question' = "none"
  /\ bar' = Hidden
  /\ wizard' \in IF question = "wizard" /\ answered THEN BOOLEAN ELSE {FALSE}
  /\ turn' \in IF question = "tool" /\ turn = "running" THEN {turn} \cup Cancelled
                                                       ELSE {turn}

(* The turn is over, or what an earlier one left behind is.                *)
TurnEnds ==
  /\ \/ turn = "running" /\ turn' \in {"none", "leftBehind"}
     \/ turn = "leftBehind" /\ turn' = "none"
  /\ UNCHANGED <<promptVars, locked, escPending, file, history, palette, barVars,
                 modelVars>>

-------------------------------------------------------------------------------
(* The /models grid.                                                       *)
OpenModelsPanel ==
  /\ edit' = [NoEdit EXCEPT !.on = TRUE]
  /\ grid' = [grid EXCEPT !.shown = TRUE]
  /\ opened' = {}
  /\ UNCHANGED keyring

CloseModels ==
  /\ edit' = NoEdit
  /\ grid' = [grid EXCEPT !.shown = FALSE]
  /\ opened' = {}

(* Mutant: [cancel] hides the grid and keeps what was staged.              *)
CancelHidesOnly ==
  /\ grid' = [grid EXCEPT !.shown = FALSE]
  /\ UNCHANGED <<edit, keyring, opened>>

CancelModelsEdit == CloseModels /\ UNCHANGED keyring

Staged(value) == {m \in 0..(NModels - 1) : edit.input[m] = value}

(* [ok]: the only place that writes keys.                                  *)
CommitModelsEdit ==
  /\ keyring' = (keyring \cup Staged("new")) \ Staged("cleared")
  /\ CloseModels

(* Enter on a cell: open it, or confirm the empty buffer as "no key".      *)
KeyCellEnter ==
  /\ edit' = [edit EXCEPT !.editing = ~@,
                          !.input[grid.row] = IF edit.editing THEN "cleared" ELSE @]
  /\ opened' = opened \cup {grid.row}
  /\ UNCHANGED <<grid, keyring>>

ModelsEnter ==
  \/ grid.col = "ok" /\ CommitModelsEdit
  \/ grid.col = "cancel" /\ CancelModelsEdit
  \/ AtKey /\ KeyCellEnter

(* "p" while a cell is edited takes the clipboard's first line, if it has  *)
(* one; whatever else is typed goes nowhere.  The prompt gets the key      *)
(* first as long as it takes keys.                                         *)
PasteKey ==
  /\ edit.editing /\ ~TakesKey
  /\ edit' = IF AtKey
             THEN [edit EXCEPT !.editing = FALSE, !.input[grid.row] = "new"]
             ELSE [edit EXCEPT !.editing = FALSE]
  /\ escPending' = FALSE
  /\ UNCHANGED <<promptVars, locked, file, history, palette, barVars, grid, keyring,
                 turn, opened>>

(* Mutant: the cell stays in edit mode while the cursor moves away.        *)
KeepKeyEdit == UNCHANGED edit

(* Moving on, or Esc, gives up the cell that is edited.                    *)
ExitKeyEdit == edit' = [edit EXCEPT !.editing = FALSE]

-------------------------------------------------------------------------------
(* The arrows.  Up and down: file list, grid, history, command list, bar.  *)
MoveGrid(g) ==
  /\ ExitKeyEdit
  /\ grid' = g
  /\ UNCHANGED <<promptVars, locked, escPending, file, history, palette, barVars,
                 keyring, turn, opened>>

MoveBar(b) ==
  /\ bar' = b
  /\ UNCHANGED <<promptVars, locked, escPending, file, history, palette, question,
                 wizard, modelVars, turn>>

Vertical(f, g, h, p, b) ==
  \/ /\ file.shown
     /\ file' = f
     /\ UNCHANGED <<promptVars, locked, escPending, history, palette, barVars,
                    modelVars, turn>>
  \/ ~file.shown /\ grid.shown /\ MoveGrid(g)
  \/ /\ ~file.shown /\ ~grid.shown /\ history.shown
     /\ history' = h
     /\ \E t \in EntryTexts : IF h.n > 0 THEN SetText(t) ELSE UNCHANGED <<text, changed>>
     /\ UNCHANGED <<focused, locked, escPending, file, palette, barVars, modelVars,
                    turn>>
  \/ /\ ~file.shown /\ ~grid.shown /\ ~history.shown /\ palette.shown
     /\ palette' = p
     /\ UNCHANGED <<promptVars, locked, escPending, file, history, barVars, modelVars,
                    turn>>
  \/ /\ ~file.shown /\ ~grid.shown /\ ~history.shown /\ ~palette.shown /\ bar.shown
     /\ MoveBar(b)

NavigateUp ==
  Vertical(ClampUp(file), RowUp(grid), ClampUp(history), WrapUp(palette), WrapUp(bar))
NavigateDown ==
  Vertical(ClampDown(file), RowDown(grid), ClampDown(history), WrapDown(palette),
           WrapDown(bar))

(* Left and right: grid, bar; the other lists do not see them.             *)
NavigateLeft ==
  \/ grid.shown /\ MoveGrid(ColLeft(grid))
  \/ ~grid.shown /\ bar.shown /\ MoveBar(WrapUp(bar))
NavigateRight ==
  \/ grid.shown /\ MoveGrid(ColRight(grid))
  \/ ~grid.shown /\ bar.shown /\ MoveBar(WrapDown(bar))

ToggleHistory ==
  /\ history' = IF history.shown THEN Hidden ELSE List(NEntries)
  /\ focused' = (focused \/ history.shown)
  /\ UNCHANGED <<text, changed, locked, escPending, file, palette, barVars, modelVars,
                 turn>>

-------------------------------------------------------------------------------
(* Enter: question, grid, file list, history, and then it submits.         *)
EnterAnswers ==
  /\ Live
  /\ Resolve(TRUE)
  /\ SetText("empty") /\ focused' = TRUE
  /\ UNCHANGED <<locked, escPending, file, history, palette, modelVars>>

EnterInGrid ==
  /\ ~Live /\ grid.shown
  /\ ModelsEnter
  /\ UNCHANGED <<promptVars, locked, escPending, file, history, palette, barVars, turn>>

(* The list's row replaces the text from the @ on and a blank follows it;  *)
(* without a row the text stays.                                           *)
EnterInFileList ==
  /\ ~Live /\ ~grid.shown /\ file.shown
  /\ file' = Hidden
  /\ IF file.n > 0 /\ text # "empty" THEN SetText("plain") ELSE UNCHANGED <<text, changed>>
  /\ focused' = TRUE
  /\ UNCHANGED <<locked, escPending, history, palette, barVars, modelVars, turn>>

EnterInHistory ==
  /\ ~Live /\ ~grid.shown /\ ~file.shown /\ history.shown
  /\ \E t \in EntryTexts : IF history.n > 0 THEN SetText(t) ELSE UNCHANGED <<text, changed>>
  /\ history' = Hidden
  /\ focused' = TRUE
  /\ UNCHANGED <<locked, escPending, file, palette, barVars, modelVars, turn>>

SubmitReached == ~Live /\ ~grid.shown /\ ~file.shown /\ ~history.shown

(* _submit_prompt: nothing while a turn runs or for an empty prompt.  A    *)
(* command that takes parameters is only completed.                        *)
SubmitIgnored ==
  /\ SubmitReached
  /\ turn = "running" \/ (text = "empty" /\ ~palette.shown)
  /\ focused' = TRUE
  /\ UNCHANGED <<text, changed, locked, escPending, file, history, palette, barVars,
                 modelVars, turn>>

SubmitCompletes ==
  /\ SubmitReached /\ turn # "running" /\ palette.shown
  /\ palette' = Hidden
  /\ SetText("slash") /\ focused' = TRUE
  /\ UNCHANGED <<locked, escPending, file, history, barVars, modelVars, turn>>

Submits ==
  /\ SubmitReached /\ turn # "running"
  /\ palette.shown \/ text # "empty"
  /\ palette' = Hidden
  /\ SetText("empty")

(* A prompt, or an /agent command, starts a turn.  Its worker is exclusive: *)
(* a wizard that has not come to its question is cancelled.                *)
SubmitTurn ==
  /\ Submits
  /\ turn' = "running"
  /\ wizard' = FALSE
  /\ UNCHANGED <<focused, locked, escPending, file, history, bar, question, modelVars>>

(* The highlighted command goes before the text: /models, /tier X, or one  *)
(* that only prints.  Without tiers, or without the parameter it needs, a  *)
(* prompt or a command is only answered with a message.                    *)
SubmitCommand ==
  /\ Submits
  /\ focused' = TRUE
  /\ \/ /\ palette.shown \/ text = "slash"
        /\ \/ OpenModelsPanel /\ UNCHANGED wizard
           \/ wizard' = TRUE /\ UNCHANGED modelVars
     \/ UNCHANGED <<wizard, modelVars>>
  /\ UNCHANGED <<locked, escPending, file, history, bar, question, turn>>

Enter ==
  EnterAnswers \/ EnterInGrid \/ EnterInFileList \/ EnterInHistory
  \/ SubmitIgnored \/ SubmitCompletes \/ SubmitTurn \/ SubmitCommand

-------------------------------------------------------------------------------
(* Esc: file list, history, question, grid, command list, turn, prompt.    *)
EscClosesList ==
  /\ file.shown \/ history.shown
  /\ file' = Hidden
  /\ history' = IF file.shown THEN history ELSE Hidden
  /\ focused' = TRUE
  /\ UNCHANGED <<text, changed, locked, escPending, palette, barVars, modelVars, turn>>

EscDeclines ==
  /\ ~file.shown /\ ~history.shown /\ Live
  /\ Resolve(FALSE)
  /\ UNCHANGED <<promptVars, locked, escPending, file, history, palette, modelVars>>

EscInGrid ==
  /\ ~file.shown /\ ~history.shown /\ ~Live /\ grid.shown
  /\ \/ edit.editing /\ ExitKeyEdit /\ UNCHANGED <<grid, keyring, opened, focused>>
     \/ ~edit.editing /\ CancelModelsEdit /\ focused' = TRUE
  /\ UNCHANGED <<text, changed, locked, escPending, file, history, palette, barVars,
                 turn>>

EscBelow == ~file.shown /\ ~history.shown /\ ~Live /\ ~grid.shown

EscClosesPalette ==
  /\ EscBelow /\ palette.shown
  /\ palette' = Hidden
  /\ SetText("empty")
  /\ escPending' = FALSE
  /\ UNCHANGED <<focused, locked, file, history, barVars, modelVars, turn>>

EscCancelsTurn ==
  /\ EscBelow /\ ~palette.shown /\ turn = "running"
  /\ turn' \in Cancelled
  /\ escPending' = FALSE
  /\ focused' = TRUE
  /\ UNCHANGED <<text, changed, locked, file, history, palette, barVars, modelVars>>

(* Once to announce it, twice to clear the prompt.                         *)
EscClears ==
  /\ EscBelow /\ ~palette.shown /\ turn # "running"
  /\ \/ escPending /\ SetText("empty") /\ escPending' = FALSE
     \/ ~escPending /\ text # "empty" /\ escPending' = TRUE /\ UNCHANGED <<text, changed>>
  /\ UNCHANGED <<focused, locked, file, history, palette, barVars, modelVars, turn>>

Escape ==
  EscClosesList \/ EscDeclines \/ EscInGrid \/ EscClosesPalette \/ EscCancelsTurn
  \/ EscClears

Navigate == NavigateUp \/ NavigateDown \/ NavigateLeft \/ NavigateRight \/ ToggleHistory

Ask == ToolAsks \/ WizardAsks \/ ToolTimesOut

Next ==
  \/ \E t \in Texts : Type(t)
  \/ TextChanged \/ SyncPromptLock
  \/ Ask \/ TurnEnds
  \/ PasteKey \/ Navigate \/ Enter \/ Escape

Spec == Init /\ [][Next]_vars

(* The event loop handles the message and polls the lock.  From some point *)
(* on the user presses Esc again and again and no other key, and no tool   *)
(* of what a cancelled turn left behind asks any more.                     *)
OnlyEsc == Escape \/ TextChanged \/ SyncPromptLock \/ WizardAsks \/ ToolTimesOut \/ TurnEnds

EscSpec ==
  /\ Spec
  /\ WF_vars(TextChanged) /\ WF_vars(SyncPromptLock) /\ WF_vars(Escape)
  /\ <>[][OnlyEsc]_vars

-------------------------------------------------------------------------------
(* What the app keeps twice agrees: the future of a question and the bar   *)
(* that shows it, the staged edit and the grid, the edit mode and the      *)
(* cursor.  A live question off the screen would hang its asker, and an    *)
(* edit without its grid would come back in the next one.  Only a question *)
(* that was cut off stays on the screen.                                   *)
BothHalvesAgree ==
  /\ bar.shown <=> question # "none"
  /\ edit.on <=> grid.shown
  /\ ~edit.on => edit = NoEdit
  /\ edit.editing => AtKey /\ grid.row \in opened

(* A stored key changes only for a model whose cell the user opened since  *)
(* /models was entered, and not by the paste itself.                       *)
KeysChangeOnlyWhereOpened ==
  [][(keyring' # keyring) =>
       /\ grid.shown /\ ~grid'.shown
       /\ (keyring' \ keyring) \cup (keyring \ keyring') \subseteq opened]_vars

(* Esc leads back to the prompt from wherever the user is: whatever lists, *)
(* questions, wizard screens and cells are open, the cascade closes them   *)
(* all, and the poll takes the lock off the prompt and gives it the focus. *)
(* Only a question that was cut off stays, and the prompt locked under it. *)
EscGivesThePromptBack ==
  <>[](/\ ~file.shown /\ ~history.shown /\ ~grid.shown /\ ~palette.shown
       /\ \/ ~bar.shown /\ TakesKey
          \/ question = "cutOff")
===============================================================================
