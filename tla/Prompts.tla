------------------------------- MODULE Prompts --------------------------------
(***************************************************************************)
(* One batch of tool calls and the questions it puts to the user:          *)
(* ToolRegistry.run in llm/tools.py, PermissionGate.check in               *)
(* permissions.py, _authorize and _authorize_external in tools/files.py,   *)
(* and the terminal app that asks (tui/app.py: the three callbacks,        *)
(* _ask_choice, and the Enter and Esc handlers).                           *)
(*                                                                         *)
(* The batch belongs to a turn without a task graph: a cancelled worker    *)
(* takes its agent with it.  The calls run concurrently if all their tools *)
(* allow it, and one after the other if not.  The app has one place for a  *)
(* question; one that is put while another is pending takes that place.    *)
(* The user's key resolves a future; the call that waits for it wakes up   *)
(* later.                                                                  *)
(***************************************************************************)
EXTENDS Naturals, FiniteSets

CONSTANTS
  N,                        \* calls of the batch
  Kinds,                    \* permissions: read, write, exec
  Keys                      \* hidden paths and external roots

ASSUME CallsAssumption == N \in Nat \ {0}

Calls == 1..N

NoKind == "none"            \* the tool needs no permission, or has it
OpenPath == "open"          \* the path needs no grant, or has it
NoCall == 0

ASSUME NamesAssumption == NoKind \notin Kinds /\ OpenPath \notin Keys

VARIABLES
  need,                     \* required_permission of each call's tool
  key,                      \* what each call's path needs a grant for
  gathered,                 \* all tools of the batch are concurrency safe
  at,                       \* where each call is
  reply,                    \* the result of the future each call awaits
  granted,                  \* session.permissions
  allowed,                  \* ctx.allow_hidden and ctx.external
  pending,                  \* PermissionGate._pending
  inFlight,                 \* ctx.pending
  slot,                     \* the call whose future _pending_choice is
  bar,                      \* the call whose question ChoiceBar shows
  workerCancelled,          \* _worker_cancelled
  dying,                    \* worker.cancel() called, not yet delivered
  raised,                   \* the batch has ended in an exception
  said                      \* history: questions the user answered yes to

batchVars == <<need, key, gathered>>
workerVars == <<workerCancelled, dying, raised>>
screenVars == <<slot, bar, said>>

vars == <<need, key, gathered, at, reply, granted, allowed, pending, inFlight, slot,
          bar, workerCancelled, dying, raised, said>>

-------------------------------------------------------------------------------
Asking == {"askingPermission", "askingGrant"}

Finished == {"ok", "denied", "timedOut", "cancelled", "failed"}

(* What call c asks for where it is.                                       *)
Subject(c) ==
  IF at[c] = "askingPermission" THEN <<"permission", need[c]>> ELSE <<"grant", key[c]>>

(* The call's future is still to be resolved.                              *)
Live(c) == c \in Calls /\ at[c] \in Asking /\ reply[c] = "none"

BatchOver == \A c \in Calls : at[c] \in Finished

(* Nothing is granted yet; what was granted before is as good as open.     *)
Init ==
  /\ need \in [Calls -> Kinds \cup {NoKind}]
  /\ key \in [Calls -> Keys \cup {OpenPath}]
  /\ gathered \in BOOLEAN
  /\ at = [c \in Calls |-> "waiting"]
  /\ reply = [c \in Calls |-> "none"]
  /\ granted = {}
  /\ allowed = {}
  /\ pending = {}
  /\ inFlight = {}
  /\ slot = NoCall
  /\ bar = NoCall
  /\ workerCancelled = FALSE
  /\ dying = FALSE
  /\ raised = FALSE
  /\ said = {}

-------------------------------------------------------------------------------
Goes(c, where) == at' = [at EXCEPT ![c] = where]

(* Mutant: a question does not displace the one that waits.                *)
AskChoiceKeepsSlot(c) ==
  /\ slot' = IF slot = NoCall THEN c ELSE slot
  /\ bar' = c
  /\ reply' = [reply EXCEPT ![c] = "none"]
  /\ UNCHANGED said

(* _ask_choice: a new future and a new question, in the only place.        *)
AskChoice(c) ==
  /\ slot' = c
  /\ bar' = c
  /\ reply' = [reply EXCEPT ![c] = "none"]
  /\ UNCHANGED said

(* asyncio.gather, or one call after the other.                            *)
MayStart(c) == gathered \/ \A d \in 1..(c - 1) : at[d] \in Finished

(* The tool needs none, or the session has it.                             *)
HasPermission(c) == need[c] \in granted \cup {NoKind}

(* Mutant: every path has to be granted.                                   *)
HasRecordedGrant(c) == key[c] \in allowed

(* The path is visible and inside the workspace, or was granted.           *)
HasGrant(c) == key[c] \in allowed \cup {OpenPath}

CheckPasses(c) ==
  /\ at[c] = "waiting" /\ MayStart(c)
  /\ HasPermission(c)
  /\ Goes(c, "calling")
  /\ UNCHANGED <<reply, granted, allowed, pending, inFlight, batchVars, workerVars,
                 screenVars>>

(* Mutant: a request in flight counts as granted.                          *)
CheckJoinsPending(c) ==
  /\ at[c] = "waiting" /\ MayStart(c)
  /\ ~HasPermission(c)
  /\ need[c] \in pending
  /\ Goes(c, "calling")
  /\ UNCHANGED <<reply, granted, allowed, pending, inFlight, batchVars, workerVars,
                 screenVars>>

(* PermissionGate.check: denied at once while the same permission is being *)
(* asked for, or by the callback when the turn was cancelled.              *)
CheckDenies(c) ==
  /\ at[c] = "waiting" /\ MayStart(c)
  /\ ~HasPermission(c)
  /\ need[c] \in pending \/ workerCancelled
  /\ Goes(c, "denied")
  /\ UNCHANGED <<reply, granted, allowed, pending, inFlight, batchVars, workerVars,
                 screenVars>>

(* Mutant: the gate does not look at what is in flight.                    *)
CheckAsksAgain(c) ==
  /\ at[c] = "waiting" /\ MayStart(c)
  /\ ~HasPermission(c)
  /\ ~workerCancelled
  /\ Goes(c, "askingPermission")
  /\ pending' = pending \cup {need[c]}
  /\ AskChoice(c)
  /\ UNCHANGED <<granted, allowed, inFlight, batchVars, workerVars>>

CheckAsks(c) ==
  /\ at[c] = "waiting" /\ MayStart(c)
  /\ ~HasPermission(c)
  /\ need[c] \notin pending /\ ~workerCancelled
  /\ Goes(c, "askingPermission")
  /\ pending' = pending \cup {need[c]}
  /\ AskChoice(c)
  /\ UNCHANGED <<granted, allowed, inFlight, batchVars, workerVars>>

(* _permission_callback resumes with a yes: granted to the session, saved. *)
PermissionGranted(c) ==
  /\ at[c] = "askingPermission"
  /\ reply[c] = "yes"
  /\ granted' = granted \cup {need[c]}
  /\ pending' = pending \ {need[c]}
  /\ Goes(c, "calling")
  /\ UNCHANGED <<reply, allowed, inFlight, batchVars, workerVars, screenVars>>

(* The session has the permission and the settings cannot be written:      *)
(* the exception leaves the batch, which is past the try of the tool's     *)
(* call.  One after the other, the calls that wait never run; gathered,    *)
(* the others go on without a turn that waits for them.                    *)
PermissionNotSaved(c) ==
  /\ at[c] = "askingPermission"
  /\ reply[c] = "yes"
  /\ granted' = granted \cup {need[c]}
  /\ pending' = pending \ {need[c]}
  /\ at' = [d \in Calls |-> IF d = c \/ (~gathered /\ at[d] = "waiting") THEN "failed"
                                                                     ELSE at[d]]
  /\ raised' = TRUE
  /\ UNCHANGED <<reply, allowed, inFlight, batchVars, workerCancelled, dying, screenVars>>

(* Anything else than a yes cancels the worker, unless it is finished.     *)
PermissionRefused(c) ==
  /\ at[c] = "askingPermission"
  /\ reply[c] = "no"
  /\ pending' = pending \ {need[c]}
  /\ Goes(c, "denied")
  /\ \/ workerCancelled' = TRUE /\ dying' = TRUE
     \/ raised /\ UNCHANGED <<workerCancelled, dying>>
  /\ UNCHANGED <<reply, granted, allowed, inFlight, raised, batchVars, screenVars>>

(* The tool runs, from here on within its timeout; _authorize finds the    *)
(* path open, and the tool acts in the same step.                          *)
Act(c) ==
  /\ at[c] = "calling"
  /\ HasGrant(c)
  /\ Goes(c, "ok")
  /\ UNCHANGED <<reply, granted, allowed, pending, inFlight, batchVars, workerVars,
                 screenVars>>

AuthorizeDenies(c) ==
  /\ at[c] = "calling"
  /\ ~HasGrant(c)
  /\ key[c] \in inFlight \/ workerCancelled
  /\ Goes(c, "denied")
  /\ UNCHANGED <<reply, granted, allowed, pending, inFlight, batchVars, workerVars,
                 screenVars>>

(* Mutant: the callback asks even when the turn was cancelled.             *)
AuthorizeAsksAnyway(c) ==
  /\ at[c] = "calling"
  /\ ~HasGrant(c)
  /\ key[c] \notin inFlight
  /\ Goes(c, "askingGrant")
  /\ inFlight' = inFlight \cup {key[c]}
  /\ AskChoice(c)
  /\ UNCHANGED <<granted, allowed, pending, batchVars, workerVars>>

AuthorizeAsks(c) ==
  /\ at[c] = "calling"
  /\ ~HasGrant(c)
  /\ key[c] \notin inFlight /\ ~workerCancelled
  /\ Goes(c, "askingGrant")
  /\ inFlight' = inFlight \cup {key[c]}
  /\ AskChoice(c)
  /\ UNCHANGED <<granted, allowed, pending, batchVars, workerVars>>

(* The grant is recorded, and the tool acts in the same step.              *)
GrantGiven(c) ==
  /\ at[c] = "askingGrant"
  /\ reply[c] = "yes"
  /\ allowed' = allowed \cup {key[c]}
  /\ inFlight' = inFlight \ {key[c]}
  /\ Goes(c, "ok")
  /\ UNCHANGED <<reply, granted, pending, batchVars, workerVars, screenVars>>

(* The grant is in memory and its file cannot be written: the exception is *)
(* this call's result, and the tool does not act.                          *)
GrantNotSaved(c) ==
  /\ at[c] = "askingGrant"
  /\ reply[c] = "yes"
  /\ allowed' = allowed \cup {key[c]}
  /\ inFlight' = inFlight \ {key[c]}
  /\ Goes(c, "failed")
  /\ UNCHANGED <<reply, granted, pending, batchVars, workerVars, screenVars>>

(* Only this call fails.                                                   *)
GrantRefused(c) ==
  /\ at[c] = "askingGrant"
  /\ reply[c] = "no"
  /\ inFlight' = inFlight \ {key[c]}
  /\ Goes(c, "denied")
  /\ UNCHANGED <<reply, granted, allowed, pending, batchVars, workerVars, screenVars>>

(* Mutant: the key stays in flight when the call is cut off.               *)
TimeoutLeaksKey(c) ==
  /\ at[c] = "askingGrant"
  /\ Goes(c, "timedOut")
  /\ UNCHANGED <<reply, granted, allowed, pending, inFlight, batchVars, workerVars,
                 screenVars>>

(* wait_for cuts the call off while it waits for the user, or before it    *)
(* has woken up to an answer.  The question stays on the screen; a grant   *)
(* is asked for within the tool's timeout, a permission before it.         *)
Timeout(c) ==
  /\ at[c] = "askingGrant"
  /\ Goes(c, "timedOut")
  /\ inFlight' = inFlight \ {key[c]}
  /\ UNCHANGED <<reply, granted, allowed, pending, batchVars, workerVars, screenVars>>

CallStep(c) ==
  \/ CheckPasses(c) \/ CheckDenies(c) \/ CheckAsks(c)
  \/ PermissionGranted(c) \/ PermissionNotSaved(c) \/ PermissionRefused(c)
  \/ Act(c) \/ AuthorizeDenies(c) \/ AuthorizeAsks(c)
  \/ GrantGiven(c) \/ GrantNotSaved(c) \/ GrantRefused(c) \/ Timeout(c)

-------------------------------------------------------------------------------
(* The user *)

(* Mutant: the question disappears and nobody is told.                     *)
AnswerDropped(choice) ==
  /\ Live(slot)
  /\ UNCHANGED reply
  /\ said' = IF choice = "yes" THEN said \cup {Subject(bar)} ELSE said
  /\ slot' = NoCall
  /\ bar' = NoCall
  /\ UNCHANGED <<at, granted, allowed, pending, inFlight, batchVars, workerVars>>

(* Enter with the choice that is selected, or Esc, which is no choice and  *)
(* no yes.                                                                 *)
Answer(choice) ==
  /\ Live(slot)
  /\ reply' = [reply EXCEPT ![slot] = choice]
  /\ said' = IF choice = "yes" THEN said \cup {Subject(bar)} ELSE said
  /\ slot' = NoCall
  /\ bar' = NoCall
  /\ UNCHANGED <<at, granted, allowed, pending, inFlight, batchVars, workerVars>>

(* Esc with no question to resolve cancels the worker.                     *)
Escape ==
  /\ ~Live(slot)
  /\ ~BatchOver /\ ~dying
  /\ workerCancelled' = TRUE
  /\ dying' = TRUE
  /\ UNCHANGED <<at, reply, granted, allowed, pending, inFlight, raised, batchVars,
                 screenVars>>

(* The cancellation reaches the batch: every call that is not finished is  *)
(* cancelled, and gives up what it had in flight.  Calls that go on after  *)
(* an exception left the batch are out of its reach.                       *)
CancelArrives ==
  /\ dying
  /\ dying' = FALSE
  /\ \/ /\ ~raised
        /\ at' = [c \in Calls |-> IF at[c] \in Finished THEN at[c] ELSE "cancelled"]
        /\ pending' = {}
        /\ inFlight' = {}
     \/ raised /\ UNCHANGED <<at, pending, inFlight>>
  /\ UNCHANGED <<reply, granted, allowed, workerCancelled, raised, batchVars, screenVars>>

UserAnswers == \E choice \in {"yes", "no"} : Answer(choice)

Next == (\E c \in Calls : CallStep(c)) \/ UserAnswers \/ Escape \/ CancelArrives

(* The event loop resumes every call that can go on, timers fire, and the  *)
(* user answers a question that can be answered, some way or other.        *)
Fairness ==
  /\ \A c \in Calls : WF_vars(CallStep(c))
  /\ WF_vars(UserAnswers)
  /\ WF_vars(CancelArrives)

Safe == Init /\ [][Next]_vars

Spec == Safe /\ Fairness

-------------------------------------------------------------------------------
(* Properties *)

TypeOK ==
  /\ need \in [Calls -> Kinds \cup {NoKind}]
  /\ key \in [Calls -> Keys \cup {OpenPath}]
  /\ gathered \in BOOLEAN
  /\ at \in [Calls -> {"waiting", "calling"} \cup Asking \cup Finished]
  /\ reply \in [Calls -> {"none", "yes", "no"}]
  /\ granted \subseteq Kinds
  /\ allowed \subseteq Keys
  /\ pending \subseteq Kinds
  /\ inFlight \subseteq Keys
  /\ slot \in Calls \cup {NoCall}
  /\ bar \in Calls \cup {NoCall}
  /\ workerCancelled \in BOOLEAN
  /\ dying \in BOOLEAN
  /\ raised \in BOOLEAN
  /\ said \subseteq ({"permission"} \X Kinds) \cup ({"grant"} \X Keys)

(* Whatever is granted, to the session or to a path, is what the user said *)
(* yes to with that very question on the screen: a question that displaced *)
(* another, or that outlived its call, never lends its yes to somebody     *)
(* else.                                                                   *)
GrantsAreTheUsers ==
  /\ \A k \in granted : <<"permission", k>> \in said
  /\ \A k \in allowed : <<"grant", k>> \in said

(* No tool acts without its permission and its path granted, however the   *)
(* checks of the batch's calls interleave.                                 *)
NothingRunsUngranted ==
  \A c \in Calls : at[c] = "ok" => HasPermission(c) /\ HasGrant(c)

(* Two calls never have the same question in flight: "no double-prompt".   *)
NoDoublePrompt ==
  \A c, d \in Calls :
    at[c] \in Asking /\ at[d] \in Asking /\ Subject(c) = Subject(d) => c = d

(* What the gate and the file tools hold to be in flight is what some call *)
(* is asking for: an answer, a timeout or a cancellation leaves nothing    *)
(* behind that would deny the next call.                                   *)
InFlightIsAsked ==
  /\ pending = {need[c] : c \in {d \in Calls : at[d] = "askingPermission"}}
  /\ inFlight = {key[c] : c \in {d \in Calls : at[d] = "askingGrant"}}

(* Once the user has cancelled the turn or refused a permission, no new    *)
(* question comes up.                                                      *)
NoQuestionAfterCancel == [][workerCancelled => bar' \in {bar, NoCall}]_vars

(* A batch that runs its calls one after the other always ends: each of    *)
(* its questions can be answered when it comes up.                         *)
SerialBatchEnds == ~gathered => <>BatchOver

===============================================================================
