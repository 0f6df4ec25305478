----------------------------- MODULE PanelsProofs ------------------------------
(***************************************************************************)
(* Theorems about Panels for every size of the lists, of a question and of *)
(* the model catalog: no cursor points past its list, what the app keeps   *)
(* twice agrees, and keys are written only where the user opened a cell.   *)
(***************************************************************************)
EXTENDS Panels, TLAPS

USE SizesAssumption

-------------------------------------------------------------------------------
(* Lists with a cursor *)

MaxRow == NRows + NEntries + NOptions

(* The cursors of a list that is shown, and of one that is not.            *)
LEMMA ListCursor ==
  /\ Hidden \in Cursors /\ ~Hidden.shown
  /\ \A n \in 0..MaxRow : List(n) \in Cursors /\ List(n).shown /\ List(n).n = n
  BY DEF Hidden, List, Cursors, MaxRow

(* Going round stays on the list, whatever the sign of the step.           *)
LEMMA Round == \A k \in Int, n \in Nat \ {0} : k % n \in 0..(n - 1)
  OBVIOUS

(* Moving a cursor keeps it on its list, and the list as it is.            *)
LEMMA MovedCursor ==
  ASSUME NEW l \in Cursors,
         NEW moved \in {ClampUp(l), ClampDown(l), WrapUp(l), WrapDown(l)}
  PROVE  moved \in Cursors /\ moved.shown = l.shown /\ moved.n = l.n
<1>1. /\ MaxRow \in Nat
      /\ l \in [shown : BOOLEAN, n : 0..MaxRow, sel : 0..MaxRow]
      /\ l.n \in Nat /\ l.sel \in Nat
      /\ l.sel < l.n \/ (l.sel = 0 /\ l.n = 0)
  BY DEF Cursors, MaxRow
<1>2. PICK k \in 0..MaxRow : /\ moved = [l EXCEPT !.sel = k]
                             /\ k < l.n \/ (k = 0 /\ l.n = 0)
  <2>1. CASE moved = ClampUp(l)
    BY <1>1, <2>1 DEF ClampUp
  <2>2. CASE moved = ClampDown(l)
    BY <1>1, <2>2 DEF ClampDown, MaxRow
  <2>3. CASE moved = WrapUp(l) /\ l.n # 0
    <3>1. (l.sel - 1) % l.n \in 0..(l.n - 1)
      <4>1. l.sel - 1 \in Int /\ l.n \in Nat \ {0}
        BY <1>1, <2>3
      <4> QED
        BY <4>1, Round, Zenon
    <3> QED
      BY <1>1, <2>3, <3>1 DEF WrapUp, MaxRow
  <2>4. CASE moved = WrapDown(l) /\ l.n # 0
    <3>1. (l.sel + 1) % l.n \in 0..(l.n - 1)
      <4>1. l.sel + 1 \in Int /\ l.n \in Nat \ {0}
        BY <1>1, <2>4
      <4> QED
        BY <4>1, Round, Zenon
    <3> QED
      BY <1>1, <2>4, <3>1 DEF WrapDown, MaxRow
  <2>5. CASE moved = l
    BY <1>1, <2>5
  <2> QED
    BY <2>1, <2>2, <2>3, <2>4, <2>5 DEF WrapUp, WrapDown
<1> QED
  BY <1>1, <1>2 DEF Cursors, MaxRow

-------------------------------------------------------------------------------
(* The grid *)

GridType == [shown : BOOLEAN, row : 0..NModels, col : {"key", "ok", "cancel"}]
OnGrid(g) == g \in GridType /\ (g.col = "key" <=> g.row # CommitRow)

(* A move leaves the cursor of the grid on a cell.                         *)
LEMMA MovedGrid ==
  ASSUME NEW g, OnGrid(g),
         NEW moved \in {RowUp(g), RowDown(g), ColLeft(g), ColRight(g)}
  PROVE  OnGrid(moved) /\ moved.shown = g.shown
<1> USE DEF OnGrid, GridType, CommitRow
<1>1. \A row \in 0..NModels : OnGrid(ToRow(g, row)) /\ ToRow(g, row).shown = g.shown
  <2> TAKE row \in 0..NModels
  <2>1. CASE row = CommitRow
    BY <2>1 DEF ToRow, Columns
  <2>2. CASE row # CommitRow
    BY <2>2 DEF ToRow, Columns
  <2> QED
    BY <2>1, <2>2
<1>2. CASE moved = RowUp(g)
  BY <1>1, <1>2 DEF RowUp
<1>3. CASE moved = RowDown(g)
  BY <1>1, <1>3 DEF RowDown
<1>4. CASE moved = ColLeft(g)
  BY <1>4 DEF ColLeft, Columns
<1>5. CASE moved = ColRight(g)
  BY <1>5 DEF ColRight, Columns
<1> QED
  BY <1>2, <1>3, <1>4, <1>5

-------------------------------------------------------------------------------
(* The inductive invariant, surface by surface *)

Prompt ==
  /\ text \in Texts /\ changed \in BOOLEAN
  /\ focused \in BOOLEAN /\ locked \in BOOLEAN /\ escPending \in BOOLEAN

Lists ==
  /\ file \in Cursors /\ history \in Cursors /\ palette \in Cursors
  /\ palette.shown => palette.n > 0

Questions ==
  /\ bar \in Cursors
  /\ bar.shown => bar.n > 0
  /\ question \in {"none", "tool", "wizard", "cutOff"} /\ wizard \in BOOLEAN
  /\ turn \in {"none", "running", "leftBehind"}
  /\ bar.shown <=> question # "none"

Rows == 0..(NModels - 1)
EditType == [on : BOOLEAN, editing : BOOLEAN, input : [Rows -> {"kept", "cleared", "new"}]]

(* What is staged for a model is staged in a cell the user opened.         *)
Keys ==
  /\ OnGrid(grid) /\ edit \in EditType
  /\ keyring \subseteq Rows /\ opened \subseteq Rows
  /\ edit.on <=> grid.shown
  /\ ~edit.on => edit = NoEdit
  /\ edit.editing => AtKey /\ grid.row \in opened
  /\ \A m \in Rows : edit.input[m] # "kept" => m \in opened

Inv == Prompt /\ Lists /\ Questions /\ Keys

(* The first state.                                                        *)
LEMMA InitInv == Init => Inv
<1> SUFFICES ASSUME Init PROVE Inv
  OBVIOUS
<1>1. Prompt
  BY DEF Init, Prompt, Texts
<1>2. Lists /\ Questions
  BY ListCursor DEF Init, Lists, Questions
<1>3. Keys
  BY DEF Init, Keys, OnGrid, GridType, CommitRow, EditType, NoEdit, Rows, AtKey
<1> QED
  BY <1>1, <1>2, <1>3 DEF Inv

(* What can happen to the grid and to what is staged in it.                *)
GridMoves ==
  /\ grid' \in {RowUp(grid), RowDown(grid), ColLeft(grid), ColRight(grid)}
  /\ ExitKeyEdit /\ UNCHANGED <<keyring, opened>>
GridSteps ==
  \/ UNCHANGED modelVars
  \/ GridMoves
  \/ grid.shown /\ ModelsEnter
  \/ grid.shown /\ ExitKeyEdit /\ UNCHANGED <<grid, keyring, opened>>
  \/ CancelModelsEdit
  \/ PasteKey
  \/ ~grid.shown /\ OpenModelsPanel

(* An arrow up or down, whoever takes it, moves the grid at most.          *)
LEMMA VerticalGrid ==
  ASSUME NEW f, NEW g, NEW h, NEW p, NEW b, Vertical(f, g, h, p, b),
         g \in {RowUp(grid), RowDown(grid)}
  PROVE  GridSteps
  BY DEF Vertical, MoveGrid, MoveBar, GridSteps, GridMoves, modelVars

(* What any step may do to the grid, the edit and the keys.                *)
LEMMA NextGridSteps == [Next]_vars => GridSteps
<1> SUFFICES ASSUME [Next]_vars PROVE GridSteps
  OBVIOUS
<1>1. CASE \E t \in Texts : Type(t)
  BY <1>1 DEF Type, GridSteps
<1>2. CASE TextChanged \/ SyncPromptLock \/ TurnEnds
  BY <1>2 DEF TextChanged, SyncPromptLock, TurnEnds, GridSteps
<1>3. CASE Ask
  BY <1>3 DEF Ask, ToolAsks, WizardAsks, ToolTimesOut, GridSteps
<1>4. CASE PasteKey
  BY <1>4 DEF GridSteps
<1>5. CASE NavigateUp \/ NavigateDown
  BY <1>5, VerticalGrid DEF NavigateUp, NavigateDown
<1>6. CASE NavigateLeft \/ NavigateRight \/ ToggleHistory
  BY <1>6 DEF NavigateLeft, NavigateRight, ToggleHistory, MoveGrid, MoveBar, GridSteps, GridMoves
<1>7. CASE EnterAnswers \/ EnterInGrid \/ EnterInFileList \/ EnterInHistory
  BY <1>7 DEF EnterAnswers, EnterInGrid, EnterInFileList, EnterInHistory, GridSteps
<1>8. CASE SubmitIgnored \/ SubmitCompletes \/ SubmitTurn \/ SubmitCommand
  BY <1>8 DEF SubmitIgnored, SubmitCompletes, SubmitTurn, SubmitCommand, Submits, SubmitReached,
     GridSteps
<1>9. CASE Escape
  BY <1>9 DEF Escape, EscClosesList, EscDeclines, EscInGrid, EscClosesPalette, EscCancelsTurn,
     EscClears, GridSteps
<1>10. CASE UNCHANGED vars
  BY <1>10 DEF vars, GridSteps, modelVars
<1> QED
  BY <1>1, <1>2, <1>3, <1>4, <1>5, <1>6, <1>7, <1>8, <1>9, <1>10 DEF Next, Navigate, Enter

(* Two states of the cells that agree in each field are the same.          *)
LEMMA SameEdit ==
  ASSUME NEW e \in EditType, NEW f \in EditType,
         e.on = f.on, e.editing = f.editing, e.input = f.input
  PROVE  e = f
  BY DEF EditType

(* Each of those keeps the edit and the grid together.                     *)
LEMMA KeysInv ==
  ASSUME Keys, GridSteps
  PROVE  Keys'
<1> USE DEF Keys, OnGrid
<1>1. CASE UNCHANGED modelVars
  BY <1>1 DEF modelVars, AtKey
<1>2. ASSUME ExitKeyEdit
      PROVE  /\ edit' \in EditType /\ edit'.on = edit.on /\ ~edit'.editing
             /\ edit'.input = edit.input
             /\ ~edit.on => edit' = NoEdit
  <2>1. edit' = [edit EXCEPT !.editing = FALSE]
    BY <1>2 DEF ExitKeyEdit
  <2>2. edit' \in EditType /\ edit'.on = edit.on /\ ~edit'.editing
        /\ edit'.input = edit.input
    BY <2>1 DEF EditType
  <2>3. ASSUME ~edit.on PROVE edit' = NoEdit
    <3>1. edit = NoEdit
      BY <2>3
    <3>2. NoEdit \in EditType /\ NoEdit.on = FALSE /\ NoEdit.editing = FALSE
      BY <3>1 DEF NoEdit
    <3>3. edit'.on = FALSE /\ edit'.editing = FALSE
      BY <2>1, <3>1, <3>2 DEF EditType
    <3>4. edit'.input = NoEdit.input
      BY <2>2, <3>1
    <3> QED
      BY <2>2, <3>2, <3>3, <3>4, SameEdit
  <2> QED
    BY <2>2, <2>3
<1>3. CASE GridMoves
  <2>1. OnGrid(grid') /\ grid'.shown = grid.shown
    BY <1>3, MovedGrid DEF GridMoves
  <2>2. AtKey' <=> grid'.row # CommitRow
    BY <2>1 DEF AtKey
  <2> QED
    BY <1>2, <1>3, <2>1, <2>2 DEF GridMoves
<1>4. CASE ExitKeyEdit /\ UNCHANGED <<grid, keyring, opened>>
  BY <1>2, <1>4
<1>5. ASSUME CloseModels, keyring' \subseteq Rows PROVE Keys'
  <2>1. OnGrid(grid)' /\ ~grid'.shown
    BY <1>5 DEF CloseModels, GridType, CommitRow
  <2>2. edit' = NoEdit /\ NoEdit \in EditType /\ ~NoEdit.on /\ ~NoEdit.editing
        /\ \A m \in Rows : NoEdit.input[m] = "kept"
    BY <1>5 DEF CloseModels, NoEdit, EditType, Rows
  <2> QED
    BY <1>5, <2>1, <2>2 DEF CloseModels
<1>6. CASE CancelModelsEdit
  BY <1>5, <1>6 DEF CancelModelsEdit
<1>7. CASE CommitModelsEdit
  <2>1. keyring' \subseteq Rows
    BY <1>7 DEF CommitModelsEdit, Staged, Rows
  <2> QED
    BY <1>5, <1>7, <2>1 DEF CommitModelsEdit
<1>8. CASE grid.shown /\ AtKey /\ KeyCellEnter
  <2>1. grid.row \in Rows /\ edit.on
    BY <1>8 DEF AtKey, GridType, CommitRow, Rows
  <2>2. /\ edit' \in EditType /\ edit'.on
        /\ \A m \in Rows \ {grid.row} : edit'.input[m] = edit.input[m]
    BY <1>8, <2>1 DEF KeyCellEnter, EditType
  <2> QED
    BY <1>8, <2>1, <2>2 DEF KeyCellEnter, AtKey
<1>9. CASE PasteKey
  <2>1. AtKey /\ grid.row \in opened /\ grid.row \in Rows /\ edit.on
    BY <1>9 DEF PasteKey, AtKey, GridType, CommitRow, Rows, NoEdit
  <2>2. edit' = [edit EXCEPT !.editing = FALSE, !.input[grid.row] = "new"]
    BY <1>9, <2>1 DEF PasteKey
  <2>3. /\ edit' \in EditType /\ edit'.on /\ ~edit'.editing
        /\ \A m \in Rows \ {grid.row} : edit'.input[m] = edit.input[m]
    BY <2>1, <2>2 DEF EditType
  <2> QED
    BY <1>9, <2>1, <2>3 DEF PasteKey
<1>10. CASE ~grid.shown /\ OpenModelsPanel
  <2>1. OnGrid(grid)' /\ grid'.shown /\ (AtKey' <=> grid'.row # CommitRow)
    BY <1>10 DEF OpenModelsPanel, GridType, CommitRow, AtKey
  <2>2. /\ edit' \in EditType /\ edit'.on /\ ~edit'.editing
        /\ \A m \in Rows : edit'.input[m] = "kept"
    BY <1>10 DEF OpenModelsPanel, NoEdit, EditType, Rows
  <2> QED
    BY <1>10, <2>1, <2>2 DEF OpenModelsPanel
<1> QED
  BY <1>1, <1>3, <1>4, <1>6, <1>7, <1>8, <1>9, <1>10 DEF GridSteps, ModelsEnter

-------------------------------------------------------------------------------
(* The prompt, the lists and the questions *)

(* The prompt and who has the keyboard.                                    *)
LEMMA PromptInv == Inv /\ [Next]_vars => Prompt'
<1> SUFFICES ASSUME Inv, [Next]_vars PROVE Prompt'
  OBVIOUS
<1> USE DEF Inv, Prompt, promptVars
<1>1. Locking \in BOOLEAN
  BY DEF Locking
<1>2. history.shown \in BOOLEAN
  BY DEF Lists, Cursors
<1>3. EntryTexts \subseteq Texts /\ {"empty", "plain", "slash"} \subseteq Texts
  BY DEF EntryTexts, Texts
<1>4. \A t \in Texts : SetText(t) => text' \in Texts /\ changed' \in BOOLEAN
  BY DEF SetText
<1>5. CASE \E t \in Texts : Type(t)
  <2>1. PICK t \in Texts : Type(t)
    BY <1>5
  <2>2. (escPending /\ TakesKey) \in BOOLEAN
    BY DEF TakesKey
  <2> QED
    BY <1>4, <2>1, <2>2 DEF Type
<1>6. CASE TextChanged
  BY <1>6 DEF TextChanged
<1>7. CASE SyncPromptLock
  BY <1>1, <1>7 DEF SyncPromptLock
<1>8. CASE TurnEnds \/ Ask \/ PasteKey
  BY <1>8 DEF TurnEnds, Ask, ToolAsks, WizardAsks, ToolTimesOut, PasteKey
<1>9. ASSUME NEW f, NEW g, NEW h, NEW p, NEW b, Vertical(f, g, h, p, b)
      PROVE  Prompt'
  BY <1>3, <1>4, <1>9 DEF Vertical, MoveGrid, MoveBar
<1>10. CASE Navigate
  BY <1>2, <1>9, <1>10 DEF Navigate, NavigateUp, NavigateDown, NavigateLeft, NavigateRight,
     ToggleHistory, MoveGrid, MoveBar
<1>11. CASE EnterAnswers \/ EnterInGrid \/ EnterInFileList \/ EnterInHistory
  BY <1>3, <1>4, <1>11 DEF EnterAnswers, EnterInGrid, EnterInFileList, EnterInHistory
<1>12. CASE SubmitIgnored \/ SubmitCompletes \/ SubmitTurn \/ SubmitCommand
  BY <1>3, <1>4, <1>12 DEF SubmitIgnored, SubmitCompletes, SubmitTurn, SubmitCommand, Submits
<1>13. CASE Escape
  BY <1>3, <1>4, <1>13 DEF Escape, EscClosesList, EscDeclines, EscInGrid, EscClosesPalette,
     EscCancelsTurn, EscClears
<1>14. CASE UNCHANGED vars
  BY <1>14 DEF vars
<1> QED
  BY <1>5, <1>6, <1>7, <1>8, <1>10, <1>11, <1>12, <1>13, <1>14 DEF Next, Enter

(* The lists under the prompt.                                             *)
LEMMA ListsInv == Inv /\ [Next]_vars => Lists'
<1> SUFFICES ASSUME Inv, [Next]_vars PROVE Lists'
  OBVIOUS
<1> USE DEF Inv, Lists
<1>1. Hidden \in Cursors /\ ~Hidden.shown
  BY ListCursor
<1>2. /\ \A n \in 0..NRows : List(n) \in Cursors /\ List(n).n = n
      /\ List(NEntries) \in Cursors
  BY ListCursor DEF MaxRow
<1>3. CASE \E t \in Texts : Type(t)
  BY <1>3 DEF Type
<1>4. CASE TextChanged
  <2>1. CASE UNCHANGED <<file, palette>>
    BY <1>4, <2>1 DEF TextChanged
  <2>2. CASE /\ palette' \in {Hidden} \cup {List(n) : n \in 1..NRows}
             /\ file' \in {Hidden} \cup {List(n) : n \in 0..NRows}
    <3>1. palette' \in Cursors /\ (palette'.shown => palette'.n > 0)
      BY <1>1, <1>2, <2>2
    <3>2. file' \in Cursors
      BY <1>1, <1>2, <2>2
    <3> QED
      BY <1>4, <3>1, <3>2 DEF TextChanged
  <2> QED
    BY <1>4, <2>1, <2>2 DEF TextChanged
<1>5. CASE SyncPromptLock \/ TurnEnds \/ Ask \/ PasteKey
  BY <1>5 DEF SyncPromptLock, TurnEnds, Ask, ToolAsks, WizardAsks, ToolTimesOut, PasteKey
<1>6. ASSUME NEW f \in Cursors, NEW h \in Cursors, NEW p \in Cursors, NEW g, NEW b,
             p.shown => p.n > 0, Vertical(f, g, h, p, b)
      PROVE  Lists'
  BY <1>6 DEF Vertical, MoveGrid, MoveBar
<1>7. CASE NavigateUp
  <2>1. /\ ClampUp(file) \in Cursors /\ ClampUp(history) \in Cursors
        /\ WrapUp(palette) \in Cursors
        /\ WrapUp(palette).shown => WrapUp(palette).n > 0
    BY MovedCursor
  <2> QED
    BY <1>6, <1>7, <2>1 DEF NavigateUp
<1>8. CASE NavigateDown
  <2>1. /\ ClampDown(file) \in Cursors /\ ClampDown(history) \in Cursors
        /\ WrapDown(palette) \in Cursors
        /\ WrapDown(palette).shown => WrapDown(palette).n > 0
    BY MovedCursor
  <2> QED
    BY <1>6, <1>8, <2>1 DEF NavigateDown
<1>9. CASE NavigateLeft \/ NavigateRight
  BY <1>9 DEF NavigateLeft, NavigateRight, MoveGrid, MoveBar
<1>10. CASE ToggleHistory
  BY <1>1, <1>2, <1>10 DEF ToggleHistory
<1>11. CASE EnterAnswers \/ EnterInGrid \/ EnterInFileList \/ EnterInHistory
  BY <1>1, <1>11 DEF EnterAnswers, EnterInGrid, EnterInFileList, EnterInHistory
<1>12. CASE SubmitIgnored \/ SubmitCompletes \/ SubmitTurn \/ SubmitCommand
  BY <1>1, <1>12 DEF SubmitIgnored, SubmitCompletes, SubmitTurn, SubmitCommand, Submits
<1>13. CASE Escape
  BY <1>1, <1>13 DEF Escape, EscClosesList, EscDeclines, EscInGrid, EscClosesPalette,
     EscCancelsTurn, EscClears
<1>14. CASE UNCHANGED vars
  BY <1>14 DEF vars
<1> QED
  BY <1>3, <1>4, <1>5, <1>7, <1>8, <1>9, <1>10, <1>11, <1>12, <1>13, <1>14
     DEF Next, Navigate, Enter

(* The question, its future and its bar.                                   *)
LEMMA QuestionsInv == Inv /\ [Next]_vars => Questions'
<1> SUFFICES ASSUME Inv, [Next]_vars PROVE Questions'
  OBVIOUS
<1> USE DEF Inv, Questions, barVars
<1>1. Hidden \in Cursors /\ ~Hidden.shown
  BY ListCursor
<1>2. List(NOptions) \in Cursors /\ List(NOptions).shown /\ List(NOptions).n > 0
  BY ListCursor DEF MaxRow
<1>3. CASE \E t \in Texts : Type(t)
  BY <1>3 DEF Type
<1>4. CASE TextChanged \/ SyncPromptLock \/ PasteKey
  BY <1>4 DEF TextChanged, SyncPromptLock, PasteKey
<1>5. CASE TurnEnds
  BY <1>5 DEF TurnEnds
<1>6. CASE Ask
  BY <1>2, <1>6 DEF Ask, ToolAsks, WizardAsks, ToolTimesOut, AskChoice
<1>7. ASSUME NEW b \in {WrapUp(bar), WrapDown(bar)}, MoveBar(b), UNCHANGED turn PROVE Questions'
  BY <1>7, MovedCursor DEF MoveBar
<1>8. ASSUME NEW f, NEW g, NEW h, NEW p, NEW b \in {WrapUp(bar), WrapDown(bar)},
             Vertical(f, g, h, p, b)
      PROVE  Questions'
  BY <1>7, <1>8 DEF Vertical, MoveGrid, MoveBar
<1>9. CASE Navigate
  BY <1>7, <1>8, <1>9 DEF Navigate, NavigateUp, NavigateDown, NavigateLeft, NavigateRight,
     ToggleHistory, MoveGrid, MoveBar
<1>10. ASSUME NEW answered \in BOOLEAN, Resolve(answered) PROVE Questions'
  BY <1>1, <1>10 DEF Resolve, Cancelled
<1>11. CASE EnterAnswers \/ EnterInGrid \/ EnterInFileList \/ EnterInHistory
  BY <1>10, <1>11 DEF EnterAnswers, EnterInGrid, EnterInFileList, EnterInHistory
<1>12. CASE SubmitIgnored \/ SubmitCompletes \/ SubmitTurn \/ SubmitCommand
  BY <1>12 DEF SubmitIgnored, SubmitCompletes, SubmitTurn, SubmitCommand, Submits
<1>13. CASE Escape
  BY <1>10, <1>13 DEF Escape, EscClosesList, EscDeclines, EscInGrid, EscClosesPalette,
     EscCancelsTurn, EscClears, Cancelled
<1>14. CASE UNCHANGED vars
  BY <1>14 DEF vars
<1> QED
  BY <1>3, <1>4, <1>5, <1>6, <1>9, <1>11, <1>12, <1>13, <1>14 DEF Next, Enter

(* The invariant holds in every run.                                       *)
LEMMA Invariance == Spec => []Inv
<1>1. Inv /\ [Next]_vars => Inv'
  BY PromptInv, ListsInv, QuestionsInv, KeysInv, NextGridSteps DEF Inv
<1> QED
  BY InitInv, <1>1, PTL DEF Spec

-------------------------------------------------------------------------------
(* Every value stays in its type: each widget's cursor is on a row that is *)
(* there, so that selected_key and selected_name find one.                 *)
THEOREM TypeCorrect == Spec => []TypeOK
<1>1. Inv => TypeOK
  BY DEF Inv, Prompt, Lists, Questions, Keys, OnGrid, GridType, EditType, Rows, TypeOK, AtKey
<1> QED
  BY Invariance, <1>1, PTL

(* The future and the bar, the edit and the grid, the edit mode and the    *)
(* cursor agree through every cascade of keys and every question.          *)
THEOREM HalvesAgree == Spec => []BothHalvesAgree
<1>1. Inv => BothHalvesAgree
  BY DEF Inv, Questions, Keys, BothHalvesAgree
<1> QED
  BY Invariance, <1>1, PTL

(* Only [ok] writes keys, and only those of cells opened in this /models.  *)
THEOREM KeysWhereOpened == Spec => KeysChangeOnlyWhereOpened
<1> DEFINE A == (keyring' # keyring) =>
                  /\ grid.shown /\ ~grid'.shown
                  /\ (keyring' \ keyring) \cup (keyring \ keyring') \subseteq opened
<1>1. Inv /\ [Next]_vars => [A]_vars
  <2> SUFFICES ASSUME Inv, Next, keyring' # keyring
               PROVE  /\ grid.shown /\ ~grid'.shown
                      /\ (keyring' \ keyring) \cup (keyring \ keyring') \subseteq opened
    OBVIOUS
  <2>1. grid.shown /\ CommitModelsEdit
    BY NextGridSteps DEF GridSteps, GridMoves, ModelsEnter, KeyCellEnter, CancelModelsEdit,
       PasteKey, OpenModelsPanel, modelVars
  <2>2. ~grid'.shown
    BY <2>1 DEF CommitModelsEdit, CloseModels, Inv, Keys, OnGrid, GridType
  <2>3. Staged("new") \cup Staged("cleared") \subseteq opened
    BY DEF Staged, Inv, Keys, Rows
  <2> QED
    BY <2>1, <2>2, <2>3 DEF CommitModelsEdit
<1> QED
  BY Invariance, <1>1, PTL DEF Spec, KeysChangeOnlyWhereOpened
===============================================================================
