------------------------- MODULE DirectiveAuditProofs --------------------------
(***************************************************************************)
(* Theorems about the audits and the tiers beside them, for every catalog, *)
(* every set of texts and every number of audits in flight.                *)
(***************************************************************************)
EXTENDS DirectiveAudit, TiersProofs, SequenceTheorems

USE ContentsAssumption

(* A task that is done leaves the others.                                  *)
LEMMA RemoveAudit ==
  ASSUME NEW S, NEW s \in Seq(S), NEW i \in 1..Len(s)
  PROVE  RemoveAt(s, i) \in Seq(S) /\ Len(RemoveAt(s, i)) = Len(s) - 1
<1> DEFINE before == SubSeq(s, 1, i - 1)
           after == SubSeq(s, i + 1, Len(s))
<1>1. Len(s) \in Nat /\ \A k \in 1..Len(s) : s[k] \in S
  BY LenProperties, ElementOfSeq
<1>2. before \in Seq(S) /\ Len(before) = i - 1
  <2>1. \A k \in 1..(i - 1) : s[k] \in S
    BY <1>1
  <2> QED
    BY <1>1, <2>1, SubSeqProperties
<1>3. after \in Seq(S) /\ Len(after) = Len(s) - i
  BY <1>1, SubSeqProperties
<1> HIDE DEF before, after
<1>4. before \o after \in Seq(S) /\ Len(before \o after) = Len(s) - 1
  <2>1. before \o after \in Seq(S) /\ Len(before \o after) = Len(before) + Len(after)
    BY <1>2, <1>3, ConcatProperties
  <2> QED
    BY <1>1, <1>2, <1>3, <2>1
<1> QED
  BY <1>4 DEF RemoveAt, before, after

-------------------------------------------------------------------------------
(* The inductive invariant *)

(* A warning and a yes of the cache are of texts that hold directives.     *)
Notice == notice \in {NoNotice} \cup [kind : {"checking", "loaded"}, path : Paths]
                       \cup [kind : {"warning"}, path : Paths, sha : Contents]

CacheType == cache \in [Paths -> [yes : BOOLEAN, sha : Contents] \cup {NoEntry}]

AuditsType == audits \in Seq(Audit) /\ Len(audits) <= MaxAudits

AuditInv ==
  /\ enabled \in BOOLEAN /\ CacheType /\ AuditsType /\ Notice
  /\ WarningsAreOfTheText

(* The types of the audits' half, apart from those of Tiers.               *)
LEMMA TypeSplits == TypeOK <=> TiersTypeOK /\ enabled \in BOOLEAN /\ CacheType /\ AuditsType /\ Notice
  BY DEF TypeOK, CacheType, AuditsType, Notice

(* What a line may be: none, or one whose text, if it warns, has directives*)
LineOK(n) ==
  /\ n \in {NoNotice} \cup [kind : {"checking", "loaded"}, path : Paths]
            \cup [kind : {"warning"}, path : Paths, sha : Contents]
  /\ n.kind = "warning" => n.sha \in Directives

(* The three lines of the notice that the code writes say nothing wrong.   *)
LEMMA Lines ==
  ASSUME NEW path \in Paths, NEW sha \in Contents, NEW yes \in BOOLEAN,
         yes => sha \in Directives
  PROVE  LineOK(NoNotice) /\ LineOK(Checking(path)) /\ LineOK(Verdict(path, sha, yes))
<1>1. LineOK(NoNotice) /\ LineOK(Checking(path))
  BY DEF LineOK, NoNotice, Checking
<1>2. LineOK(Verdict(path, sha, yes))
  <2>1. CASE yes
    BY <2>1 DEF LineOK, Verdict
  <2>2. CASE ~yes /\ path = GekaiMd
    BY <2>2 DEF LineOK, Verdict
  <2>3. CASE ~yes /\ path # GekaiMd
    BY <2>3, <1>1 DEF Verdict
  <2> QED
    BY <2>1, <2>2, <2>3
<1> QED
  BY <1>1, <1>2

(* What the notice says is always such a line.                             *)
LEMMA NoticeIsLine == AuditInv => LineOK(notice)
  BY DEF AuditInv, Notice, LineOK, WarningsAreOfTheText

(* A cached verdict is about the text it is cached for.                    *)
LEMMA CachedVerdict ==
  ASSUME AuditInv, NEW path \in Paths, NEW sha \in Contents, Cached(path, sha)
  PROVE  LineOK(Verdict(path, sha, cache[path].yes))
<1>1. cache[path].yes \in BOOLEAN /\ (cache[path].yes => sha \in Directives)
  BY DEF AuditInv, CacheType, Cached, WarningsAreOfTheText
<1> QED
  BY <1>1, Lines

(* Steps that leave the cache and the switch, with a fitting line.         *)
LEMMA LineInv ==
  ASSUME AuditInv, UNCHANGED <<enabled, cache>>, AuditsType', LineOK(notice')
  PROVE  AuditInv'
  BY DEF AuditInv, CacheType, Notice, WarningsAreOfTheText, LineOK

(* An audit that is started, or spared by the cache.                       *)
LEMMA StartAuditInv ==
  ASSUME AuditInv, UNCHANGED <<enabled, cache>>, NEW path \in Paths, NEW sha \in Contents,
         NEW reports \in BOOLEAN, NEW shown, LineOK(shown),
         StartAudit(path, sha, reports, shown)
  PROVE  AuditInv'
<1>1. CASE ~enabled
  BY <1>1, LineInv DEF StartAudit, AuditInv, AuditsType
<1>2. CASE enabled /\ Cached(path, sha)
  <2>1. LineOK(notice')
    BY <1>2, CachedVerdict DEF StartAudit, Report
  <2> QED
    BY <1>2, <2>1, LineInv DEF StartAudit, AuditInv, AuditsType
<1>3. CASE enabled /\ ~Cached(path, sha)
  <2>1. Task(path, sha, reports) \in Audit
    BY DEF Task, Audit
  <2>2. AuditsType'
    BY <1>3, <2>1, AppendProperties, LenProperties DEF StartAudit, AuditInv, AuditsType
  <2>3. LineOK(Checking(path))
    BY DEF LineOK, Checking
  <2> QED
    BY <1>3, <2>2, <2>3, LineInv DEF StartAudit, Report
<1> QED
  BY <1>1, <1>2, <1>3 DEF StartAudit

(* A session that begins, with its audit of GEKAI.md.                      *)
LEMMA RestartInv ==
  ASSUME AuditInv, RestartedAudit
  PROVE  AuditInv'
<1>1. UNCHANGED <<enabled, cache>> /\ LineOK(NoNotice)
  BY DEF RestartedAudit, LineOK, NoNotice
<1>2. CASE audits' = <<>> /\ notice' = NoNotice
  BY <1>1, <1>2, LineInv DEF AuditsType
<1>3. CASE ~(audits' = <<>> /\ notice' = NoNotice)
  <2>1. PICK sha \in Contents, resumed \in BOOLEAN :
          IF ~enabled \/ Cached(GekaiMd, sha)
          THEN /\ audits' = <<>>
               /\ notice' = IF enabled /\ ~resumed
                            THEN Verdict(GekaiMd, sha, cache[GekaiMd].yes) ELSE NoNotice
          ELSE /\ audits' = <<Task(GekaiMd, sha, ~resumed)>>
               /\ notice' = IF resumed THEN NoNotice ELSE Checking(GekaiMd)
    BY <1>3 DEF RestartedAudit
  <2>2. GekaiMd \in Paths
    BY DEF Paths
  <2>3. CASE ~enabled \/ Cached(GekaiMd, sha)
    <3>1. LineOK(notice')
      <4>1. CASE enabled /\ ~resumed
        <5>1. LineOK(Verdict(GekaiMd, sha, cache[GekaiMd].yes))
          BY <2>2, <2>3, <4>1, CachedVerdict
        <5> QED
          BY <2>1, <2>3, <4>1, <5>1
      <4>2. CASE ~(enabled /\ ~resumed)
        BY <1>1, <2>1, <2>3, <4>2
      <4> QED
        BY <4>1, <4>2
    <3>2. AuditsType'
      <4>1. audits' = <<>>
        BY <2>1, <2>3
      <4>2. <<>> \in Seq(Audit) /\ Len(<<>>) = 0
        BY EmptySeq
      <4> QED
        BY <4>1, <4>2 DEF AuditsType
    <3> QED
      BY <1>1, <3>1, <3>2, LineInv
  <2>4. CASE ~(~enabled \/ Cached(GekaiMd, sha))
    <3>1. Task(GekaiMd, sha, ~resumed) \in Audit
      BY <2>2 DEF Task, Audit
    <3>2. AuditsType'
      <4>1. audits' = <<Task(GekaiMd, sha, ~resumed)>>
        BY <2>1, <2>4
      <4> HIDE <2>1
      <4>2. audits' \in Seq(Audit) /\ Len(audits') = 1
        BY <3>1, <4>1
      <4> QED
        BY <4>2 DEF AuditsType
    <3>3. LineOK(notice')
      BY <1>1, <2>1, <2>2, <2>4 DEF LineOK, Checking
    <3> QED
      BY <1>1, <3>2, <3>3, LineInv
  <2> QED
    BY <2>3, <2>4
<1> QED
  BY <1>2, <1>3

(* Of an audit's own steps only the answer touches the cache, with a yes   *)
(* only for a text that holds directives.                                  *)
LEMMA AuditStepInv ==
  ASSUME AuditInv, NEW i \in 1..MaxAudits, AuditStep(i)
  PROVE  AuditInv' /\ UNCHANGED tierVars
<1>1. i \in 1..Len(audits) /\ audits \in Seq(Audit) /\ Len(audits) \in Nat
  BY LenProperties DEF AuditStep, AuditInv, AuditsType
<1> DEFINE a == audits[i]
<1>2. a \in Audit
  BY <1>1, ElementOfSeq
<1>3. a.path \in Paths /\ a.sha \in Contents /\ a.reports \in BOOLEAN
  BY <1>2 DEF Audit
<1>4. LineOK(notice)
  BY NoticeIsLine
<1>5. audits' = RemoveAt(audits, i) => AuditsType'
  BY <1>1, RemoveAudit DEF AuditsType, AuditInv
<1>6. CASE ResolveAudit(i) /\ ResolvesAt(FAST, Inherit, keys, bindings)
  <2>1. [audits EXCEPT ![i].asked = TRUE] = [audits EXCEPT ![i] = [a EXCEPT !.asked = TRUE]]
    BY <1>1
  <2>2. [a EXCEPT !.asked = TRUE] \in Audit
    BY <1>2 DEF Audit
  <2>3. AuditsType'
    <3>1. [audits EXCEPT ![i] = [a EXCEPT !.asked = TRUE]] \in Seq(Audit)
      BY <1>1, <2>2, ExceptSeq
    <3>2. Len([audits EXCEPT ![i] = [a EXCEPT !.asked = TRUE]]) = Len(audits)
      BY <1>1, <2>2, ExceptSeq
    <3> HIDE DEF a
    <3> QED
      BY <1>6, <2>1, <3>1, <3>2 DEF ResolveAudit, AuditsType, AuditInv
  <2> QED
    BY <1>4, <1>6, <2>3, LineInv DEF ResolveAudit
<1>7. CASE ResolveAudit(i) /\ ~ResolvesAt(FAST, Inherit, keys, bindings)
  <2>1. LineOK(Verdict(a.path, a.sha, FALSE))
    BY <1>3, Lines
  <2>2. LineOK(notice')
    BY <1>4, <1>7, <2>1 DEF ResolveAudit, Report
  <2> QED
    BY <1>5, <1>7, <2>2, LineInv DEF ResolveAudit
<1>8. CASE AnswerAudit(i)
  <2>1. PICK yes \in {FALSE, a.sha \in Directives} :
          /\ \/ cache' = [cache EXCEPT ![a.path] = [yes |-> yes, sha |-> a.sha]]
             \/ UNCHANGED cache
          /\ notice' = Report(a.reports, notice, Verdict(a.path, a.sha, yes))
    BY <1>8 DEF AnswerAudit
  <2>2. yes \in BOOLEAN /\ (yes => a.sha \in Directives)
    <3>1. CASE yes = FALSE
      BY <3>1
    <3>2. CASE yes = (a.sha \in Directives)
      <4> HIDE DEF a
      <4>1. ASSUME NEW P PROVE (P \in Directives) \in BOOLEAN
        <5>1. CASE P \in Directives
          BY <5>1
        <5>2. CASE P \notin Directives
          BY <5>2
        <5> QED
          BY <5>1, <5>2
      <4>2. yes \in BOOLEAN
        BY <3>2, <4>1, Zenon
      <4>3. yes => a.sha \in Directives
        BY <3>2, Zenon
      <4> QED
        BY <4>2, <4>3
    <3> QED
      BY <3>1, <3>2
  <2>3. LineOK(notice')
    BY <1>3, <1>4, <2>1, <2>2, Lines DEF Report
  <2> HIDE DEF a
  <2>4. CacheType' /\ \A p \in Paths : (cache[p].yes => cache[p].sha \in Directives)'
    <3>1. CASE UNCHANGED cache
      BY <3>1 DEF AuditInv, CacheType, WarningsAreOfTheText
    <3>2. CASE cache' = [cache EXCEPT ![a.path] = [yes |-> yes, sha |-> a.sha]]
      <4>1. CacheType'
        BY <1>3, <2>2, <3>2 DEF AuditInv, CacheType
      <4>2. ASSUME NEW p \in Paths PROVE (cache[p].yes => cache[p].sha \in Directives)'
        <5>1. CASE p = a.path
          BY <1>3, <2>2, <3>2, <5>1 DEF AuditInv, CacheType
        <5>2. CASE p # a.path
          BY <3>2, <5>2 DEF AuditInv, CacheType, WarningsAreOfTheText
        <5> QED
          BY <5>1, <5>2
      <4> QED
        BY <4>1, <4>2
    <3> QED
      BY <2>1, <3>1, <3>2
  <2>5. AuditsType' /\ enabled' = enabled /\ UNCHANGED tierVars
    BY <1>5, <1>8 DEF AnswerAudit
  <2> QED
    BY <2>3, <2>4, <2>5 DEF AuditInv, Notice, LineOK, WarningsAreOfTheText
<1> QED
  BY <1>6, <1>7, <1>8 DEF AuditStep, ResolveAudit, AnswerAudit

-------------------------------------------------------------------------------
(* The specification *)

Inv == TiersInv /\ AuditInv

(* The first state.                                                        *)
LEMMA InitInv == Init => Inv
<1> SUFFICES ASSUME Init PROVE Inv
  OBVIOUS
<1>1. TiersInv
  BY InitTiersInv DEF Init
<1>2. cache \in [Paths -> {NoEntry}] /\ NoEntry.yes = FALSE
  BY DEF Init, NoEntry
<1>3. CacheType /\ \A p \in Paths : ~cache[p].yes
  BY <1>2 DEF CacheType
<1>4. AuditsType /\ Notice /\ notice.kind # "warning"
  BY DEF Init, AuditsType, Notice, NoNotice
<1>5. AuditInv
  BY <1>3, <1>4 DEF Init, AuditInv, WarningsAreOfTheText
<1> QED
  BY <1>1, <1>5 DEF Inv

(* Every step.                                                             *)
LEMMA NextInv == Inv /\ [Next]_vars => Inv'
<1> SUFFICES ASSUME Inv, [Next]_vars PROVE Inv'
  OBVIOUS
<1> USE DEF Inv
<1>1. CASE (CommitStep \/ WizardStep \/ TurnEnds) /\ UNCHANGED auditVars
  <2>1. TiersInv'
    BY <1>1, NextTiersInv DEF TiersStep
  <2> QED
    BY <1>1, <2>1 DEF auditVars, AuditInv, CacheType, AuditsType, Notice, WarningsAreOfTheText
<1>2. ASSUME HidesNotice PROVE AuditInv'
  <2>1. LineOK(NoNotice)
    BY DEF LineOK, NoNotice
  <2> QED
    BY <1>2, <2>1, LineInv DEF HidesNotice, AuditInv, AuditsType
<1>3. CASE Submits /\ HidesNotice
  BY <1>2, <1>3, NextTiersInv DEF TiersStep
<1>4. CASE SubmitOnly
  BY <1>2, <1>4, NextTiersInv DEF SubmitOnly, TiersStep
<1>5. CASE NewSession
  <2>1. TiersInv'
    BY <1>5, NextTiersInv DEF NewSession, TiersStep
  <2>2. LineOK(NoNotice) /\ GekaiMd \in Paths
    BY DEF LineOK, NoNotice, Paths
  <2>3. CASE notice' = NoNotice /\ UNCHANGED audits
    BY <1>5, <2>1, <2>2, <2>3, LineInv DEF NewSession, SessionAudit, AuditInv, AuditsType
  <2>4. CASE \E sha \in Contents : StartAudit(GekaiMd, sha, TRUE, NoNotice)
    BY <1>5, <2>1, <2>2, <2>4, StartAuditInv DEF NewSession, SessionAudit
  <2> QED
    BY <1>5, <2>3, <2>4 DEF NewSession, SessionAudit
<1>6. CASE Restart /\ RestartedAudit
  BY <1>6, NextTiersInv, RestartInv DEF TiersStep
<1>7. CASE \E p \in Paths, sha \in Contents : ReadForeign(p, sha)
  <2>1. PICK p \in Paths, sha \in Contents : ReadForeign(p, sha)
    BY <1>7
  <2>2. TiersInv'
    BY <2>1, NextTiersInv DEF ReadForeign, TiersStep
  <2>3. AuditInv'
    BY <2>1, StartAuditInv, NoticeIsLine DEF ReadForeign
  <2> QED
    BY <2>2, <2>3
<1>8. CASE \E i \in 1..MaxAudits : AuditStep(i)
  BY <1>8, AuditStepInv, NextTiersInv DEF TiersStep
<1>9. CASE UNCHANGED vars
  BY <1>9, NextTiersInv DEF vars, TiersStep, auditVars, AuditInv, CacheType, AuditsType, Notice,
     WarningsAreOfTheText
<1> QED
  BY <1>1, <1>3, <1>4, <1>5, <1>6, <1>7, <1>8, <1>9 DEF Next, Begins

(* The invariant holds in every run.                                       *)
LEMMA Invariance == Spec => []Inv
  BY InitInv, NextInv, PTL DEF Spec

(* Every value stays in its type, and no more than MaxAudits audits are in *)
(* flight, however often sessions begin.                                   *)
THEOREM TypeCorrect == Spec => []TypeOK
<1>1. Inv => TypeOK
  BY TypeSplits DEF Inv, TiersInv, AuditInv
<1> QED
  BY Invariance, <1>1, PTL

(* Whatever way the user takes through the screens of /tier, back and      *)
(* forth, the binding that is saved passes validate_binding.               *)
THEOREM BindingsValid == Spec => []SavedBindingsAreValid
<1>1. Inv => SavedBindingsAreValid
  BY DEF Inv, TiersInv
<1> QED
  BY Invariance, <1>1, PTL

(* A turn that passed the gate of the app runs on the bindings that are    *)
(* saved, and each of its dispatches resolves at the tier it is scaled to. *)
THEOREM RunsOnSaved == Spec => []TurnsRunOnTheSavedTiers
<1>1. Inv => TurnsRunOnTheSavedTiers
  BY InvRunsOnSaved DEF Inv
<1> QED
  BY Invariance, <1>1, PTL

(* A warning, and a yes that is kept, are about a text a model said yes to:*)
(* load_cached_verdict compares the sha before it trusts an entry.         *)
THEOREM WarningsTrue == Spec => []WarningsAreOfTheText
<1>1. Inv => WarningsAreOfTheText
  BY DEF Inv, AuditInv
<1> QED
  BY Invariance, <1>1, PTL
===============================================================================
