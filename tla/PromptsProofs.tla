----------------------------- MODULE PromptsProofs -----------------------------
(***************************************************************************)
(* Proofs about Prompts: however the calls of a batch, the user's keys,    *)
(* the timeouts and the cancellation interleave, what is granted is what   *)
(* the user granted, nothing acts without its grants, and a question is in *)
(* flight exactly while a call asks it.  The theorems hold for batches of  *)
(* any size and for any permissions and keys, and need no fairness.        *)
(***************************************************************************)
EXTENDS Prompts, TLAPS

USE CallsAssumption, NamesAssumption

-------------------------------------------------------------------------------
(* The inductive invariant *)

(* A call asks for something there is to ask for.                          *)
AsksSomething ==
  \A c \in Calls :
    /\ at[c] = "askingPermission" => need[c] \in Kinds
    /\ at[c] = "askingGrant" => key[c] \in Keys

(* The question on the screen is that of the future a key resolves: so the *)
(* call that gets a yes is the one the user said yes to.                   *)
YesIsForTheCall ==
  /\ slot = bar
  /\ \A c \in Calls : at[c] \in Asking /\ reply[c] = "yes" => Subject(c) \in said

(* Every call got as far as its grants let it.                             *)
GotThere ==
  \A c \in Calls :
    /\ at[c] \in {"calling", "askingGrant", "ok"} => HasPermission(c)
    /\ at[c] = "ok" => HasGrant(c)

(* What is in flight is asked for, by one call.                            *)
AskedOnce ==
  /\ \A k \in Kinds : k \in pending <=> \E c \in Calls : at[c] = "askingPermission" /\ need[c] = k
  /\ \A k \in Keys : k \in inFlight <=> \E c \in Calls : at[c] = "askingGrant" /\ key[c] = k
  /\ \A c, d \in Calls :
       at[c] = "askingPermission" /\ at[d] = "askingPermission" /\ need[c] = need[d] => c = d
  /\ \A c, d \in Calls :
       at[c] = "askingGrant" /\ at[d] = "askingGrant" /\ key[c] = key[d] => c = d

Inv ==
  /\ TypeOK
  /\ AsksSomething
  /\ YesIsForTheCall
  /\ GrantsAreTheUsers
  /\ GotThere
  /\ AskedOnce

(* The first state.                                                        *)
LEMMA InitInv == Init => Inv
<1> SUFFICES ASSUME Init PROVE Inv
  OBVIOUS
<1> USE DEF Init
<1>1. TypeOK
  BY DEF TypeOK
<1>2. AsksSomething /\ YesIsForTheCall /\ GrantsAreTheUsers /\ GotThere /\ AskedOnce
  BY DEF AsksSomething, YesIsForTheCall, GrantsAreTheUsers, GotThere, AskedOnce, Asking
<1> QED
  BY <1>1, <1>2 DEF Inv

(* The values stay in their types.                                        *)
LEMMA CallStepTypes ==
  ASSUME Inv, NEW c \in Calls, CallStep(c)
  PROVE  TypeOK' /\ AsksSomething'
<1> USE DEF Goes, batchVars, workerVars, screenVars, Inv, TypeOK, AsksSomething, Asking, Finished, HasPermission, HasGrant
<1>1. CASE CheckPasses(c)
  BY <1>1 DEF CheckPasses
<1>2. CASE CheckDenies(c)
  BY <1>2 DEF CheckDenies
<1>3. CASE CheckAsks(c)
  BY <1>3 DEF CheckAsks, AskChoice
<1>4. CASE PermissionGranted(c)
  BY <1>4 DEF PermissionGranted
<1>5. CASE PermissionRefused(c)
  BY <1>5 DEF PermissionRefused
<1>6. CASE Act(c)
  BY <1>6 DEF Act
<1>7. CASE AuthorizeDenies(c)
  BY <1>7 DEF AuthorizeDenies
<1>8. CASE AuthorizeAsks(c)
  BY <1>8 DEF AuthorizeAsks, AskChoice
<1>9. CASE GrantGiven(c)
  BY <1>9 DEF GrantGiven
<1>10. CASE GrantRefused(c)
  BY <1>10 DEF GrantRefused
<1>11. CASE Timeout(c)
  BY <1>11 DEF Timeout
<1>12. CASE PermissionNotSaved(c)
  BY <1>12 DEF PermissionNotSaved
<1>13. CASE GrantNotSaved(c)
  BY <1>13 DEF GrantNotSaved
<1> QED
  BY <1>1, <1>2, <1>3, <1>4, <1>5, <1>6, <1>7, <1>8, <1>9, <1>10, <1>11, <1>12, <1>13
  DEF CallStep

(* A step of a call lends nobody a yes.                                   *)
LEMMA CallStepYes ==
  ASSUME Inv, NEW c \in Calls, CallStep(c)
  PROVE  YesIsForTheCall' /\ GrantsAreTheUsers'
<1> USE DEF Goes, batchVars, workerVars, screenVars, Inv, TypeOK, AsksSomething, Asking, Finished, YesIsForTheCall, GrantsAreTheUsers, Subject
<1>1. CASE CheckPasses(c)
  BY <1>1 DEF CheckPasses
<1>2. CASE CheckDenies(c)
  BY <1>2 DEF CheckDenies
<1>3. CASE CheckAsks(c)
  BY <1>3 DEF CheckAsks, AskChoice
<1>4. CASE PermissionGranted(c)
  BY <1>4 DEF PermissionGranted
<1>5. CASE PermissionRefused(c)
  BY <1>5 DEF PermissionRefused
<1>6. CASE Act(c)
  BY <1>6 DEF Act
<1>7. CASE AuthorizeDenies(c)
  BY <1>7 DEF AuthorizeDenies
<1>8. CASE AuthorizeAsks(c)
  BY <1>8 DEF AuthorizeAsks, AskChoice
<1>9. CASE GrantGiven(c)
  BY <1>9 DEF GrantGiven
<1>10. CASE GrantRefused(c)
  BY <1>10 DEF GrantRefused
<1>11. CASE Timeout(c)
  BY <1>11 DEF Timeout
<1>12. CASE PermissionNotSaved(c)
  BY <1>12 DEF PermissionNotSaved
<1>13. CASE GrantNotSaved(c)
  BY <1>13 DEF GrantNotSaved
<1> QED
  BY <1>1, <1>2, <1>3, <1>4, <1>5, <1>6, <1>7, <1>8, <1>9, <1>10, <1>11, <1>12, <1>13
  DEF CallStep

(* A step of a call goes no further than its grants let it.               *)
LEMMA CallStepGotThere ==
  ASSUME Inv, NEW c \in Calls, CallStep(c)
  PROVE  GotThere'
<1> USE DEF Goes, batchVars, workerVars, screenVars, Inv, TypeOK, AsksSomething, GotThere, HasPermission, HasGrant
<1>1. CASE CheckPasses(c)
  BY <1>1 DEF CheckPasses
<1>2. CASE CheckDenies(c)
  BY <1>2 DEF CheckDenies
<1>3. CASE CheckAsks(c)
  BY <1>3 DEF CheckAsks, AskChoice
<1>4. CASE PermissionGranted(c)
  BY <1>4 DEF PermissionGranted
<1>5. CASE PermissionRefused(c)
  BY <1>5 DEF PermissionRefused
<1>6. CASE Act(c)
  BY <1>6 DEF Act
<1>7. CASE AuthorizeDenies(c)
  BY <1>7 DEF AuthorizeDenies
<1>8. CASE AuthorizeAsks(c)
  BY <1>8 DEF AuthorizeAsks, AskChoice
<1>9. CASE GrantGiven(c)
  BY <1>9 DEF GrantGiven
<1>10. CASE GrantRefused(c)
  BY <1>10 DEF GrantRefused
<1>11. CASE Timeout(c)
  BY <1>11 DEF Timeout
<1>12. CASE PermissionNotSaved(c)
  BY <1>12 DEF PermissionNotSaved
<1>13. CASE GrantNotSaved(c)
  BY <1>13 DEF GrantNotSaved
<1> QED
  BY <1>1, <1>2, <1>3, <1>4, <1>5, <1>6, <1>7, <1>8, <1>9, <1>10, <1>11, <1>12, <1>13
  DEF CallStep

(* A step of a call asks for what nobody else asks for.                   *)
LEMMA CallStepAsked ==
  ASSUME Inv, NEW c \in Calls, CallStep(c)
  PROVE  AskedOnce'
<1> USE DEF Goes, batchVars, workerVars, screenVars, Inv, TypeOK, AsksSomething, Asking, Finished, AskedOnce
<1>1. CASE CheckPasses(c)
  BY <1>1 DEF CheckPasses
<1>2. CASE CheckDenies(c)
  BY <1>2 DEF CheckDenies
<1>3. CASE CheckAsks(c)
  BY <1>3 DEF CheckAsks, AskChoice
<1>4. CASE PermissionGranted(c)
  BY <1>4 DEF PermissionGranted
<1>5. CASE PermissionRefused(c)
  BY <1>5 DEF PermissionRefused
<1>6. CASE Act(c)
  BY <1>6 DEF Act
<1>7. CASE AuthorizeDenies(c)
  BY <1>7 DEF AuthorizeDenies
<1>8. CASE AuthorizeAsks(c)
  BY <1>8 DEF AuthorizeAsks, AskChoice
<1>9. CASE GrantGiven(c)
  BY <1>9 DEF GrantGiven
<1>10. CASE GrantRefused(c)
  BY <1>10 DEF GrantRefused
<1>11. CASE Timeout(c)
  BY <1>11 DEF Timeout
<1>12. CASE PermissionNotSaved(c)
  BY <1>12 DEF PermissionNotSaved
<1>13. CASE GrantNotSaved(c)
  BY <1>13 DEF GrantNotSaved
<1> QED
  BY <1>1, <1>2, <1>3, <1>4, <1>5, <1>6, <1>7, <1>8, <1>9, <1>10, <1>11, <1>12, <1>13
  DEF CallStep

(* The user's answer goes to the call whose question is on the screen.     *)
LEMMA AnswerInv ==
  ASSUME Inv, NEW choice \in {"yes", "no"}, Answer(choice)
  PROVE  Inv'
<1> USE DEF Answer, Live, batchVars, workerVars, Inv, TypeOK, AsksSomething
<1>1. /\ slot \in Calls /\ bar = slot /\ at[slot] \in Asking
      /\ slot' = NoCall /\ bar' = NoCall
      /\ reply' = [reply EXCEPT ![slot] = choice]
  BY DEF YesIsForTheCall
<1>2. Subject(slot) \in ({"permission"} \X Kinds) \cup ({"grant"} \X Keys)
  BY <1>1 DEF Subject, Asking
<1>3. TypeOK'
  BY <1>1, <1>2
<1>4. said \subseteq said' /\ (choice = "yes" => Subject(slot) \in said')
  BY <1>1
<1>5. YesIsForTheCall'
  BY <1>1, <1>4 DEF YesIsForTheCall, Subject
<1>6. GrantsAreTheUsers'
  BY <1>4 DEF GrantsAreTheUsers
<1>7. AsksSomething' /\ GotThere' /\ AskedOnce'
  BY DEF GotThere, AskedOnce, HasPermission, HasGrant
<1> QED
  BY <1>3, <1>5, <1>6, <1>7

(* The cancellation leaves no call asking, and nothing in flight, or it    *)
(* comes too late and changes nothing of them.                             *)
LEMMA CancelInv ==
  ASSUME Inv, Escape \/ CancelArrives
  PROVE  Inv'
<1> USE DEF batchVars, screenVars, Inv
<1>1. ASSUME Escape \/ CancelArrives, UNCHANGED <<at, pending, inFlight>> PROVE Inv'
  <2>1. /\ UNCHANGED <<need, key, gathered, at, reply, granted, allowed, pending>>
        /\ UNCHANGED <<inFlight, slot, bar, raised, said>>
        /\ workerCancelled' \in BOOLEAN /\ dying' \in BOOLEAN
    BY <1>1 DEF Escape, CancelArrives, TypeOK
  <2>2. TypeOK'
    BY <2>1 DEF TypeOK
  <2>3. AsksSomething' /\ AskedOnce'
    BY <2>1 DEF AsksSomething, AskedOnce
  <2>4. YesIsForTheCall' /\ GrantsAreTheUsers' /\ GotThere'
    BY <2>1 DEF YesIsForTheCall, Subject, GrantsAreTheUsers, GotThere, HasPermission, HasGrant
  <2> QED
    BY <2>2, <2>3, <2>4
<1>2. ASSUME CancelArrives, ~raised PROVE Inv'
  <2> USE <1>2 DEF CancelArrives
  <2>1. \A c \in Calls : at'[c] \in Finished /\ (at'[c] = "ok" => at[c] = "ok")
    BY DEF Finished
  <2>2. TypeOK'
    BY DEF TypeOK, Finished
  <2>3. AsksSomething' /\ YesIsForTheCall' /\ AskedOnce'
    BY <2>1 DEF AsksSomething, YesIsForTheCall, AskedOnce, Asking, Finished
  <2>4. GrantsAreTheUsers' /\ GotThere'
    BY <2>1 DEF GrantsAreTheUsers, GotThere, HasPermission, HasGrant, Finished
  <2> QED
    BY <2>2, <2>3, <2>4
<1> QED
  BY <1>1, <1>2 DEF Escape, CancelArrives

(* Every step.                                                             *)
LEMMA NextInv == Inv /\ [Next]_vars => Inv'
<1> SUFFICES ASSUME Inv, [Next]_vars PROVE Inv'
  OBVIOUS
<1>1. CASE \E c \in Calls : CallStep(c)
  BY <1>1, CallStepTypes, CallStepYes, CallStepGotThere, CallStepAsked DEF Inv
<1>2. CASE UserAnswers
  BY <1>2, AnswerInv DEF UserAnswers
<1>3. CASE Escape \/ CancelArrives
  BY <1>3, CancelInv
<1>4. CASE UNCHANGED vars
  BY <1>4 DEF vars, Inv, TypeOK, AsksSomething, YesIsForTheCall, Subject, GrantsAreTheUsers,
     GotThere, HasPermission, HasGrant, AskedOnce
<1> QED
  BY <1>1, <1>2, <1>3, <1>4 DEF Next

-------------------------------------------------------------------------------
(* The theorems *)

(* The invariant holds in every run.                                       *)
THEOREM Invariance == Safe => []Inv
  BY InitInv, NextInv, PTL DEF Safe

(* Every variable stays in its type.                                       *)
THEOREM TypeCorrect == Safe => []TypeOK
<1>1. Inv => TypeOK
  BY DEF Inv
<1> QED
  BY Invariance, <1>1, PTL

(* _permission_callback and _authorize_external record a grant only when   *)
(* the user said yes to that very question, though the app has one place   *)
(* for all questions and the calls come and go while one is up.            *)
THEOREM GrantsUsers == Safe => []GrantsAreTheUsers
<1>1. Inv => GrantsAreTheUsers
  BY DEF Inv
<1> QED
  BY Invariance, <1>1, PTL

(* ToolRegistry.run gates every call: none acts without the permission of  *)
(* its tool and the grant of its path.                                     *)
THEOREM RunsGranted == Safe => []NothingRunsUngranted
<1>1. Inv => NothingRunsUngranted
  BY DEF Inv, GotThere, NothingRunsUngranted
<1> QED
  BY Invariance, <1>1, PTL

(* PermissionGate._pending and ctx.pending: no two calls of a batch ask    *)
(* for the same thing at the same time.                                    *)
THEOREM PromptedOnce == Safe => []NoDoublePrompt
<1>1. Inv => NoDoublePrompt
  BY DEF Inv, AskedOnce, NoDoublePrompt, Asking, Subject
<1> QED
  BY Invariance, <1>1, PTL

(* The finally blocks of PermissionGate.check and _authorize_external:     *)
(* what is held to be in flight is what some call asks for.                *)
THEOREM InFlightAsked == Safe => []InFlightIsAsked
<1>1. ASSUME Inv PROVE InFlightIsAsked
  <2>1. pending = {need[c] : c \in {d \in Calls : at[d] = "askingPermission"}}
    BY <1>1 DEF Inv, AskedOnce, TypeOK, AsksSomething
  <2>2. inFlight = {key[c] : c \in {d \in Calls : at[d] = "askingGrant"}}
    BY <1>1 DEF Inv, AskedOnce, TypeOK, AsksSomething
  <2> QED
    BY <2>1, <2>2 DEF InFlightIsAsked
<1> QED
  BY Invariance, <1>1, PTL

(* The callbacks look at _worker_cancelled before they ask: after a        *)
(* cancellation no question comes up.                                      *)
THEOREM NoLateQuestion == Safe => NoQuestionAfterCancel
<1> DEFINE Quiet == workerCancelled => bar' \in {bar, NoCall}
<1>1. Inv /\ [Next]_vars => [Quiet]_vars
  <2> SUFFICES ASSUME [Next]_vars, workerCancelled PROVE bar' \in {bar, NoCall}
    OBVIOUS
  <2> USE DEF screenVars
  <2>1. ASSUME NEW c \in Calls, CallStep(c) PROVE bar' = bar
    BY <2>1 DEF CallStep, CheckPasses, CheckDenies, CheckAsks, PermissionGranted,
       PermissionNotSaved, PermissionRefused, Act, AuthorizeDenies, AuthorizeAsks,
       GrantGiven, GrantNotSaved, GrantRefused, Timeout
  <2>2. CASE UserAnswers
    BY <2>2 DEF UserAnswers, Answer
  <2>3. CASE Escape \/ CancelArrives \/ UNCHANGED vars
    BY <2>3 DEF Escape, CancelArrives, vars
  <2> QED
    BY <2>1, <2>2, <2>3 DEF Next
<1> QED
  BY Invariance, <1>1, PTL DEF Safe, NoQuestionAfterCancel

===============================================================================
