---------------------------- MODULE DirectiveAudit ----------------------------
(***************************************************************************)
(* The advisory check of markdown files for directives to an agent: the    *)
(* audits the agent starts in the background (agent.py, _start_audit and   *)
(* _run_directive_audit), the auditor and its cache (directive_audit.py)   *)
(* and the one notice line of the app they report to (tui/app.py,          *)
(* _apply_directive_verdict).  It runs beside the tiers: a new session     *)
(* audits its GEKAI.md, and an audit needs the FAST tier.                  *)
(***************************************************************************)
EXTENDS Tiers, SequencesExt

CONSTANTS
  GekaiMd, OtherMd,         \* paths
  Contents,                 \* texts of a file, by their sha
  Directives,               \* those a model says YES to
  MaxAudits                 \* audits in flight at a time

ASSUME ContentsAssumption == Directives \subseteq Contents /\ MaxAudits \in Nat \ {0}

Paths == {GekaiMd, OtherMd}

NoEntry == [yes |-> FALSE, sha |-> "none"]
NoNotice == [kind |-> "none"]

VARIABLES
  enabled,                  \* settings.local.json, directive_audit.enabled
  cache,                    \* .gekai/directive-audit.json
  audits,                   \* the background tasks, as they were started
  notice                    \* #directive-notice; a warning with the text it is of

auditVars == <<enabled, cache, audits, notice>>
vars == <<tierVars, auditVars>>

Audit == [path : Paths, sha : Contents, reports : BOOLEAN, asked : BOOLEAN]

TypeOK ==
  /\ TiersTypeOK
  /\ enabled \in BOOLEAN
  /\ cache \in [Paths -> [yes : BOOLEAN, sha : Contents] \cup {NoEntry}]
  /\ audits \in Seq(Audit) /\ Len(audits) <= MaxAudits
  /\ notice \in {NoNotice} \cup [kind : {"checking", "loaded"}, path : Paths]
                  \cup [kind : {"warning"}, path : Paths, sha : Contents]

-------------------------------------------------------------------------------
Checking(path) == [kind |-> "checking", path |-> path]

(* _apply_directive_verdict: one line, the last verdict wins.  A clean     *)
(* foreign file takes the line away.                                       *)
Verdict(path, sha, yes) ==
  IF yes THEN [kind |-> "warning", path |-> path, sha |-> sha]
  ELSE IF path = GekaiMd THEN [kind |-> "loaded", path |-> path]
  ELSE NoNotice

(* A callback that is given takes what is shown to something else.         *)
Report(reports, shown, n) == IF reports THEN n ELSE shown

Task(path, sha, reports) ==
  [path |-> path, sha |-> sha, reports |-> reports, asked |-> FALSE]

(* Mutant: a hit is a hit whatever the file's text is by now.              *)
CachedForPath(path, sha) == cache[path] # NoEntry

(* load_cached_verdict                                                     *)
Cached(path, sha) == cache[path] # NoEntry /\ cache[path].sha = sha

(* _start_audit; shown is what the line showed before.                     *)
StartAudit(path, sha, reports, shown) ==
  \/ /\ ~enabled
     /\ notice' = shown
     /\ UNCHANGED audits
  \/ /\ enabled /\ Cached(path, sha)
     /\ notice' = Report(reports, shown, Verdict(path, sha, cache[path].yes))
     /\ UNCHANGED audits
  \/ /\ enabled /\ ~Cached(path, sha)
     /\ Len(audits) < MaxAudits
     /\ audits' = Append(audits, Task(path, sha, reports))
     /\ notice' = Report(reports, shown, Checking(path))

(* _clear_session: the line goes, GEKAI.md is read anew and audited if it  *)
(* is there.                                                               *)
SessionAudit(reports) ==
  /\ UNCHANGED <<enabled, cache>>
  /\ \/ notice' = NoNotice /\ UNCHANGED audits
     \/ \E sha \in Contents : StartAudit(GekaiMd, sha, reports, NoNotice)

NewSession == (ConfirmClears \/ Clear) /\ SessionAudit(TRUE)

(* The tasks die with the process.  A resumed session shows no verdict.    *)
RestartedAudit ==
  /\ UNCHANGED <<enabled, cache>>
  /\ \/ audits' = <<>> /\ notice' = NoNotice
     \/ \E sha \in Contents, resumed \in BOOLEAN :
          IF ~enabled \/ Cached(GekaiMd, sha)
          THEN /\ audits' = <<>>
               /\ notice' = IF enabled /\ ~resumed
                            THEN Verdict(GekaiMd, sha, cache[GekaiMd].yes) ELSE NoNotice
          ELSE /\ audits' = <<Task(GekaiMd, sha, ~resumed)>>
               /\ notice' = IF resumed THEN NoNotice ELSE Checking(GekaiMd)

(* Root has read a markdown file.                                          *)
ReadForeign(path, sha) ==
  /\ turn
  /\ UNCHANGED <<enabled, cache>>
  /\ StartAudit(path, sha, TRUE, notice)
  /\ UNCHANGED tierVars

(* Every submission takes the line away; also one that does nothing else.  *)
HidesNotice == notice' = NoNotice /\ UNCHANGED <<enabled, cache, audits>>
SubmitOnly == PromptFree /\ HidesNotice /\ UNCHANGED tierVars

-------------------------------------------------------------------------------
(* The task begins: without a FAST tier the answer is no, and not kept.    *)
ResolveAudit(i) ==
  /\ ~audits[i].asked
  /\ IF ResolvesAt(FAST, Inherit, keys, bindings)
     THEN audits' = [audits EXCEPT ![i].asked = TRUE] /\ UNCHANGED notice
     ELSE /\ audits' = RemoveAt(audits, i)
          /\ notice' = Report(audits[i].reports, notice,
                              Verdict(audits[i].path, audits[i].sha, FALSE))
  /\ UNCHANGED <<enabled, cache, tierVars>>

(* Mutant: a task that is done leaves its last line.                       *)
AnswerSilently(i) ==
  /\ audits[i].asked
  /\ audits' = RemoveAt(audits, i)
  /\ UNCHANGED <<enabled, cache, notice, tierVars>>

(* The model's answer, or "no" where the call or its parse fails; either   *)
(* is kept, unless the cache cannot be written.                            *)
AnswerAudit(i) ==
  LET a == audits[i] IN
  /\ a.asked
  /\ \E yes \in {FALSE, a.sha \in Directives} :
       /\ \/ cache' = [cache EXCEPT ![a.path] = [yes |-> yes, sha |-> a.sha]]
          \/ UNCHANGED cache
       /\ notice' = Report(a.reports, notice, Verdict(a.path, a.sha, yes))
  /\ audits' = RemoveAt(audits, i)
  /\ UNCHANGED <<enabled, tierVars>>

AuditStep(i) == i <= Len(audits) /\ (ResolveAudit(i) \/ AnswerAudit(i))

Init ==
  /\ TiersInit
  /\ enabled \in BOOLEAN
  /\ cache = [p \in Paths |-> NoEntry]
  /\ audits = <<>>
  /\ notice = NoNotice

(* The steps that start audits.                                            *)
Begins ==
  \/ NewSession
  \/ Restart /\ RestartedAudit
  \/ \E p \in Paths, sha \in Contents : ReadForeign(p, sha)

Next ==
  \/ (CommitStep \/ WizardStep \/ TurnEnds) /\ UNCHANGED auditVars
  \/ Submits /\ HidesNotice
  \/ SubmitOnly
  \/ Begins
  \/ \E i \in 1..MaxAudits : AuditStep(i)

Spec == Init /\ [][Next]_vars

(* A started task is run by the event loop, and its call has a time-out.   *)
FairSpec == Spec /\ \A i \in 1..MaxAudits : WF_vars(AuditStep(i))

-------------------------------------------------------------------------------
(* A warning is about a text a model has said yes to, and so is a yes in   *)
(* the cache: an answer for an earlier text of the file is no answer.      *)
WarningsAreOfTheText ==
  /\ notice.kind = "warning" => notice.sha \in Directives
  /\ \A p \in Paths : cache[p].yes => cache[p].sha \in Directives

(* The line does not go on saying that a file is being checked once nothing *)
(* starts a check any more: an audit that cannot be run, fails or is        *)
(* overtaken by another takes it away as well.                              *)
NoticeSettles == <>[][~Begins]_vars => <>[](notice.kind # "checking")
===============================================================================
