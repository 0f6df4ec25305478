---------------------------- MODULE FileToolsProofs ----------------------------
(***************************************************************************)
(* Theorems about FileTools for every set of runs, paths and texts and any *)
(* number of questions at a time: the grants in the settings file, and     *)
(* what the result of a call says about the file system.                   *)
(***************************************************************************)
EXTENDS FileTools, FiniteSetTheorems, SequenceTheorems, TLAPS

USE PathsAssumption

-------------------------------------------------------------------------------
(* The grants *)

Settings == [hidden : SUBSET Hidden, external : SUBSET Roots, readable : BOOLEAN]

(* GrantsAreKept, of a settings file and the grants that were saved in it. *)
Holds(s, ks) ==
  /\ ks \cap Hidden \subseteq s.hidden
  /\ \A g \in ks \ Hidden : \E e \in s.external : Inside(g, e)
  /\ s.hidden \cup s.external \subseteq ks
  /\ \A d, e \in s.external : Inside(d, e) => d = e

(* A hidden path is no external root.                                      *)
LEMMA KindsApart == Hidden \cap Roots = {}
  BY DEF Roots

(* Saving a grant on top of what the file holds loses none of it: a root   *)
(* that is dropped lies inside the one that takes its place.               *)
LEMMA SavedHolds ==
  ASSUME NEW s \in Settings, NEW ks, ks \subseteq Hidden \cup Roots, Holds(s, ks),
         NEW key \in Hidden \cup Roots
  PROVE  Saved(s, key) \in Settings /\ Holds(Saved(s, key), ks \cup {key})
<1>1. CASE key \in Hidden
  <2>1. Saved(s, key) = [s EXCEPT !.hidden = @ \cup {key}, !.readable = TRUE]
    BY <1>1 DEF Saved, SaveHidden
  <2>2. Saved(s, key) \in Settings
    BY <1>1, <2>1 DEF Settings
  <2>3. Saved(s, key).hidden = s.hidden \cup {key} /\ Saved(s, key).external = s.external
    BY <2>1 DEF Settings
  <2> QED
    BY <1>1, <2>2, <2>3 DEF Holds
<1>2. CASE key \notin Hidden /\ \E e \in s.external : Inside(key, e)
  <2>1. Saved(s, key) = s
    BY <1>2 DEF Saved, SaveExternal
  <2> QED
    BY <1>2, <2>1 DEF Holds, Settings
<1>3. CASE key \notin Hidden /\ ~\E e \in s.external : Inside(key, e)
  <2> DEFINE roots == {e \in s.external : ~Inside(e, key)} \cup {key}
  <2>1. Saved(s, key) = [s EXCEPT !.external = roots, !.readable = TRUE]
    BY <1>3 DEF Saved, SaveExternal
  <2>2. key \in Roots /\ roots \subseteq Roots
    BY <1>3 DEF Settings
  <2>3. Saved(s, key) \in Settings
    BY <2>1, <2>2 DEF Settings
  <2>4. Saved(s, key).hidden = s.hidden /\ Saved(s, key).external = roots
    BY <2>1 DEF Settings
  <2>5. \A d, e \in roots : Inside(d, e) => d = e
    BY <1>3 DEF Holds, Inside
  <2>6. ASSUME NEW g \in (ks \cup {key}) \ Hidden PROVE \E e \in roots : Inside(g, e)
    <3>1. CASE g = key
      BY <3>1 DEF Inside
    <3>2. CASE g # key
      <4>1. PICK e \in s.external : Inside(g, e)
        BY <3>2 DEF Holds
      <4>2. CASE Inside(e, key)
        BY <4>1, <4>2 DEF Inside
      <4>3. CASE ~Inside(e, key)
        BY <4>1, <4>3
      <4> QED
        BY <4>2, <4>3
    <3> QED
      BY <3>1, <3>2
  <2> QED
    BY <1>3, <2>3, <2>4, <2>5, <2>6 DEF Holds
<1> QED
  BY <1>1, <1>2, <1>3

(* One grant more is a set of grants.                                      *)
LEMMA GrantedType ==
  ASSUME NEW g \in Grants, NEW key \in Hidden \cup Roots
  PROVE  Granted(g, key) \in Grants
  BY DEF Grants, Granted

-------------------------------------------------------------------------------
(* What a call does to the files *)

FsType == [Paths -> Files \cup {Absent, Dir}]
SaidType == {"nothing", "error", "created", "overwritten", "edited", "mutated", "outside"}

(* The result is one of the words, and true of every path.                 *)
SaidSo ==
  /\ fs' \in FsType /\ said' \in SaidType
  /\ \A p \in Paths : fs'[p] # fs[p] => TrueOf(p)

(* A call that changes nothing says nothing wrong.                         *)
LEMMA SaysTrue ==
  ASSUME fs \in FsType, NEW result \in SaidType, Says(result)
  PROVE  SaidSo
  BY DEF Says, SaidSo

(* A call that fails says so, and has changed one path: it was a file and  *)
(* is torn, or it was free.                                                *)
LEMMA FailsTrue ==
  ASSUME fs \in FsType, NEW p \in Paths, NEW what \in Files \cup {Absent, Dir},
         Puts(p, what, "error"),
         (fs[p] \in Files /\ what = Torn) \/ fs[p] = Absent
  PROVE  SaidSo
<1>1. fs' \in FsType /\ said' = "error"
  BY DEF Puts, FsType
<1>2. \A q \in Paths : q # p => fs'[q] = fs[q]
  BY DEF Puts, FsType
<1>3. fs'[p] = what
  BY DEF Puts, FsType
<1> QED
  BY <1>1, <1>2, <1>3 DEF SaidSo, SaidType, TrueOf

(* What the hunks make of a text is another text, or the text itself.      *)
LEMMA PatchedText ==
  ASSUME NEW text, NEW hunks \in Seq(Hunk)
  PROVE  Patched(text, hunks) \in Texts \cup {NotFound, text}
<1>1. CASE hunks # <<>>
  <2>1. hunks[Len(hunks)] \in Hunk
    BY <1>1, EmptySeq, LenProperties, ElementOfSeq
  <2> QED
    BY <1>1, <2>1 DEF Patched, Hunk
<1> QED
  BY <1>1 DEF Patched

(* An edit's result is true.                                               *)
LEMMA EditTrue ==
  ASSUME fs \in FsType, NEW p \in Paths, fs[p] # Dir, Edit(p)
  PROVE  SaidSo
<1>1. PICK hunks \in BoundedSeq(Hunk, 2) :
        IF fs[p] \notin Files \/ Patched(fs[p], hunks) = NotFound THEN Says("error")
        ELSE WritesText(p, Patched(fs[p], hunks), "edited")
  BY DEF Edit
<1>2. hunks \in Seq(Hunk)
  <2>1. PICK m \in 0..2 : hunks \in [1..m -> Hunk]
    BY DEF BoundedSeq, SeqOf
  <2> QED
    BY <2>1, SeqDef
<1> DEFINE t == Patched(fs[p], hunks)
<1>3. t \in Texts \cup {NotFound, fs[p]}
  BY <1>2, PatchedText
<1> HIDE DEF t
<1>4. CASE Says("error")
  BY <1>4, SaysTrue DEF SaidType
<1>5. CASE fs[p] \in Files /\ t \in Texts \cup {fs[p]} /\ Puts(p, t, "edited")
  BY <1>5 DEF Puts, SaidSo, FsType, SaidType, Files, TrueOf
<1>6. CASE fs[p] \in Files /\ Puts(p, Torn, "error")
  BY <1>6, FailsTrue DEF Files
<1> QED
  BY <1>1, <1>3, <1>4, <1>5, <1>6 DEF WritesText, t

(* A call that acts: its paths are some, and a tool for files has one.     *)
Ready(c) ==
  /\ c.src \in Paths
  /\ c.tool \in DualPath => c.dst \in Paths
  /\ c.tool \in {"edit", "write"} => fs[c.src] # Dir

(* The result of whatever a call does when it has its grants is true.      *)
LEMMA ActsTrue ==
  ASSUME fs \in FsType, NEW c, Ready(c), Acts(c)
  PROVE  SaidSo
<1> DEFINE p == c.src
<1>1. p \in Paths /\ fs[p] \in Files \cup {Absent, Dir}
  BY DEF Ready, FsType
<1>2. Says("error") \/ Says("nothing") => SaidSo
  BY SaysTrue DEF SaidType
<1>3. CASE c.tool = "read" /\ Read(p)
  BY <1>2, <1>3 DEF Read
<1>4. CASE c.tool = "edit" /\ Edit(p)
  BY <1>4, EditTrue DEF Ready
<1>5. CASE c.tool = "write" /\ Write(p)
  <2>1. fs[p] # Dir
    BY <1>5 DEF Ready
  <2> HIDE DEF p
  <2>2. PICK text \in Texts : WritesText(p, text, IF fs[p] = Absent THEN "created" ELSE "overwritten")
    BY <1>5 DEF Write
  <2>3. CASE Puts(p, Torn, "error")
    BY <1>1, <2>1, <2>3, FailsTrue DEF Files
  <2>4. CASE fs[p] = Absent /\ Puts(p, text, "created")
    BY <1>1, <2>4 DEF Puts, SaidSo, FsType, SaidType, Files, TrueOf
  <2>5. CASE fs[p] # Absent /\ Puts(p, text, "overwritten")
    BY <1>1, <2>1, <2>5 DEF Puts, SaidSo, FsType, SaidType, Files, TrueOf
  <2> QED
    BY <2>2, <2>3, <2>4, <2>5 DEF WritesText
<1>6. CASE c.tool = "delete" /\ Delete(p)
  <2> HIDE DEF p
  <2>1. CASE fs[p] \in Files /\ Puts(p, Absent, "mutated")
    BY <1>1, <2>1 DEF Puts, SaidSo, FsType, SaidType, Files, TrueOf
  <2> QED
    BY <1>2, <1>6, <2>1 DEF Delete
<1>7. CASE c.tool = "make_dir" /\ MakeDir(p)
  <2> HIDE DEF p
  <2>1. CASE fs[p] \notin Files /\ Puts(p, Dir, "mutated")
    BY <1>1, <2>1 DEF Puts, SaidSo, FsType, SaidType, Files, TrueOf
  <2> QED
    BY <1>2, <1>7, <2>1 DEF MakeDir
<1>8. CASE c.tool = "move" /\ Move(p, c.dst)
  <2> DEFINE d == c.dst
  <2>1. d \in Paths
    BY <1>8 DEF Ready, DualPath
  <2> HIDE DEF p, d
  <2>2. CASE /\ fs[p] # Absent /\ fs[d] = Absent /\ said' = "mutated"
             /\ fs' = [fs EXCEPT ![p] = Absent, ![d] = fs[p]]
    BY <1>1, <2>1, <2>2 DEF SaidSo, FsType, SaidType, Files, TrueOf
  <2>3. CASE fs[d] = Absent /\ Puts(d, fs[p], "error")
    BY <1>1, <2>1, <2>3, FailsTrue
  <2>4. CASE fs[d] = Absent /\ Puts(d, Torn, "error")
    BY <2>1, <2>4, FailsTrue DEF Files
  <2> QED
    BY <1>2, <1>8, <2>2, <2>3, <2>4 DEF Move, d
<1>9. CASE c.tool = "copy" /\ Copy(p, c.dst)
  <2> DEFINE d == c.dst
  <2>1. d \in Paths
    BY <1>9 DEF Ready, DualPath
  <2> HIDE DEF p, d
  <2>2. CASE fs[p] \in Files /\ fs[d] = Absent /\ Puts(d, fs[p], "mutated")
    BY <1>1, <2>1, <2>2 DEF Puts, SaidSo, FsType, SaidType, Files, TrueOf
  <2>3. CASE fs[d] = Absent /\ Puts(d, fs[p], "error")
    BY <1>1, <2>1, <2>3, FailsTrue
  <2>4. CASE fs[d] = Absent /\ Puts(d, Torn, "error")
    BY <2>1, <2>4, FailsTrue DEF Files
  <2> QED
    BY <1>2, <1>9, <2>2, <2>3, <2>4 DEF Copy, d
<1>10. CASE Says("error")
  BY <1>2, <1>10
<1> QED
  BY <1>3, <1>4, <1>5, <1>6, <1>7, <1>8, <1>9, <1>10 DEF Acts

-------------------------------------------------------------------------------
(* Calls that wait for a grant *)

(* A call before it has asked for anything, or one that has.               *)
AnyCall == [run : Runs, tool : SinglePath \cup DualPath, src : Paths \cup Forbidden,
            dst : Paths \cup Forbidden \cup {NoPath}, path : Paths \cup {NoPath},
            key : Hidden \cup Roots \cup {NoPath}]

(* A call waits for its first path, or, if it has two, for its second.     *)
Waiting(calls) ==
  /\ calls \subseteq Call /\ IsFiniteSet(calls) /\ Cardinality(calls) <= MaxAsking
  /\ \A c \in calls : c.src \in Paths /\ (c.path # c.src => c.tool \in DualPath)

(* Who stops waiting leaves fewer behind.                                  *)
LEMMA FewerWaiting ==
  ASSUME NEW calls, Waiting(calls), NEW fewer \in SUBSET calls
  PROVE  Waiting(fewer)
<1>1. IsFiniteSet(fewer) /\ Cardinality(fewer) <= Cardinality(calls)
  BY FS_Subset DEF Waiting
<1>2. Cardinality(fewer) \in Nat /\ Cardinality(calls) \in Nat
  BY <1>1, FS_CardinalityType DEF Waiting
<1> QED
  BY <1>1, <1>2 DEF Waiting

(* A call that asks joins those who wait, within the bound, and says       *)
(* nothing wrong.                                                          *)
LEMMA AsksWaits ==
  ASSUME fs \in FsType, NEW c \in AnyCall, c.src \in Paths, NEW p \in Paths, NEW grants,
         ~Has(grants, p), p = c.src \/ c.tool \in DualPath,
         NEW others, Waiting(others), Asks(c, p, others)
  PROVE  SaidSo /\ Waiting(asking')
<1>1. PICK key \in GrantKeys(p) :
        /\ Says(IF \E d \in others : d.run = c.run /\ d.key = key THEN "error" ELSE "nothing")
        /\ asking' = IF \E d \in others : d.run = c.run /\ d.key = key THEN others
                     ELSE others \cup {[c EXCEPT !.path = p, !.key = key]}
        /\ Cardinality(asking') <= MaxAsking
  BY DEF Asks
<1>2. SaidSo
  BY <1>1, SaysTrue DEF SaidType
<1>3. key \in Hidden \cup Roots
  BY DEF GrantKeys, Has, Roots
<1> DEFINE asked == [c EXCEPT !.path = p, !.key = key]
<1>4. asked \in Call /\ asked.path = p /\ asked.src = c.src /\ asked.tool = c.tool
  BY <1>3 DEF AnyCall, Call
<1> HIDE DEF asked
<1>5. CASE asking' = others \cup {asked}
  BY <1>1, <1>2, <1>4, <1>5, FS_AddElement DEF Waiting
<1>6. CASE asking' = others
  BY <1>2, <1>6
<1> QED
  BY <1>1, <1>2, <1>5, <1>6 DEF asked

(* So does a call that has got to its second path,                         *)
LEMMA FromDstWaits ==
  ASSUME fs \in FsType, NEW c \in AnyCall, c.src \in Paths, c.tool \in DualPath, NEW grants,
         NEW others, Waiting(others), FromDst(c, grants, others)
  PROVE  SaidSo /\ Waiting(asking')
<1>1. CASE c.dst \in Forbidden /\ EndsWith(Says("error"), others)
  BY <1>1, SaysTrue DEF EndsWith, SaidType
<1>2. CASE c.dst \in Paths /\ ~Has(grants, c.dst) /\ Asks(c, c.dst, others)
  BY <1>2, AsksWaits
<1>3. CASE c.dst \in Paths /\ EndsWith(Acts(c), others)
  <2>1. Ready(c)
    BY <1>3 DEF Ready, DualPath
  <2> QED
    BY <1>3, <2>1, ActsTrue DEF EndsWith
<1> QED
  BY <1>1, <1>2, <1>3 DEF FromDst

(* and one that starts from its first.                                     *)
LEMMA FromSrcWaits ==
  ASSUME fs \in FsType, NEW c \in AnyCall, NEW grants,
         NEW others, Waiting(others), FromSrc(c, grants, others)
  PROVE  SaidSo /\ Waiting(asking')
<1>1. CASE EndsWith(Says("error"), others)
  BY <1>1, SaysTrue DEF EndsWith, SaidType
<1>2. CASE c.src \in Paths /\ ~Has(grants, c.src) /\ Asks(c, c.src, others)
  BY <1>2, AsksWaits
<1>3. CASE c.src \in Paths /\ c.tool \in DualPath /\ FromDst(c, grants, others)
  BY <1>3, FromDstWaits
<1>4. CASE /\ c.src \in Paths
           /\ c.tool \in FileOnly => fs[c.src] # Dir
           /\ c.tool \notin DualPath
           /\ EndsWith(Acts(c), others)
  <2>1. Ready(c)
    BY <1>4 DEF Ready, FileOnly
  <2> QED
    BY <1>4, <2>1, ActsTrue DEF EndsWith
<1> QED
  BY <1>1, <1>2, <1>3, <1>4 DEF FromSrc

-------------------------------------------------------------------------------
(* The inductive invariant *)

Inv ==
  /\ fs \in FsType /\ said \in SaidType
  /\ settings \in Settings /\ context \in [Runs -> Grants]
  /\ kept \subseteq Hidden \cup Roots /\ Holds(settings, kept)
  /\ Waiting(asking)

(* The first state.                                                        *)
LEMMA InitInv == Init => Inv
<1> SUFFICES ASSUME Init PROVE Inv
  OBVIOUS
<1>1. Waiting(asking)
  BY FS_EmptySet DEF Init, Waiting
<1>2. fs \in FsType /\ said \in SaidType
  BY DEF Init, FsType, SaidType, Files
<1>3. settings \in Settings /\ Holds(settings, kept)
  BY DEF Init, Settings, Holds
<1>4. Loaded \in Grants
  BY <1>3 DEF Loaded, Grants, Settings
<1> QED
  BY <1>1, <1>2, <1>3, <1>4 DEF Init, Inv

(* Steps that leave the grants alone.                                      *)
LEMMA KeepsInv ==
  ASSUME Inv, UNCHANGED <<settings, context, kept>>, SaidSo, Waiting(asking')
  PROVE  Inv'
  BY DEF Inv, SaidSo

(* Every step, with what it says.                                          *)
LEMMA StepInv ==
  ASSUME Inv, [Next]_vars
  PROVE  Inv' /\ (SaidSo \/ UNCHANGED vars)
<1> USE DEF Inv
<1>1. ASSUME NEW x \in Runs, NEW tool \in SinglePath \cup DualPath,
             NEW src \in Paths \cup Forbidden,
             NEW dst \in Paths \cup Forbidden \cup {NoPath}, Start(x, tool, src, dst)
      PROVE  Inv' /\ SaidSo
  <2> DEFINE c == [run |-> x, tool |-> tool, src |-> src, dst |-> dst,
                   path |-> NoPath, key |-> NoPath]
  <2>1. c \in AnyCall
    BY DEF AnyCall
  <2>2. FromSrc(c, context[x], asking)
    BY <1>1 DEF Start
  <2>3. SaidSo /\ Waiting(asking')
    BY <2>1, <2>2, FromSrcWaits
  <2> QED
    BY <1>1, <2>3, KeepsInv DEF Start
<1>2. ASSUME NEW c \in asking, Allow(c) PROVE Inv' /\ SaidSo
  <2> DEFINE grants == Granted(context[c.run], c.key)
             others == asking \ {c}
  <2>1. c \in Call /\ c \in AnyCall
    BY DEF Waiting, Call, AnyCall
  <2>2. /\ c.src \in Paths /\ (c.path # c.src => c.tool \in DualPath)
        /\ c.key \in Hidden \cup Roots /\ c.run \in Runs
    BY <2>1 DEF Waiting, Call
  <2>3. Waiting(others)
    BY FewerWaiting
  <2>4. context' \in [Runs -> Grants]
    <3>1. grants \in Grants
      BY <2>2, GrantedType
    <3> HIDE DEF grants
    <3>2. context' = [context EXCEPT ![c.run] = grants]
      BY <1>2 DEF Allow, grants
    <3> QED
      BY <3>1, <3>2
  <2>5. CASE /\ settings' = Saved(settings, c.key) /\ kept' = kept \cup {c.key}
             /\ IF c.path = c.src THEN FromSrc(c, grants, others) ELSE FromDst(c, grants, others)
    <3>1. SaidSo /\ Waiting(asking')
      BY <2>1, <2>2, <2>3, <2>5, FromSrcWaits, FromDstWaits
    <3>2. settings' \in Settings /\ Holds(settings', kept')
      BY <2>2, <2>5, SavedHolds
    <3>3. kept' \subseteq Hidden \cup Roots
      BY <2>2, <2>5
    <3> QED
      BY <2>4, <3>1, <3>2, <3>3 DEF SaidSo
  <2>6. CASE EndsWith(Says("error"), others) /\ UNCHANGED <<settings, kept>>
    BY <2>3, <2>4, <2>6, SaysTrue DEF EndsWith, SaidType, SaidSo
  <2> QED
    BY <1>2, <2>5, <2>6 DEF Allow
<1>3. ASSUME NEW c \in asking, Refuse(c) PROVE Inv' /\ SaidSo
  <2>1. SaidSo /\ Waiting(asking')
    BY <1>3, SaysTrue, FewerWaiting DEF Refuse, EndsWith, SaidType
  <2> QED
    BY <1>3, <2>1, KeepsInv DEF Refuse
<1>4. ASSUME NEW x \in Runs, NewRun(x) PROVE Inv' /\ SaidSo
  <2>1. SaidSo
    BY <1>4, SaysTrue DEF NewRun, EndsWith, SaidType
  <2>2. Waiting(asking')
    BY <1>4, FewerWaiting DEF NewRun, EndsWith
  <2>3. Loaded \in Grants
    BY DEF Loaded, Grants, Settings
  <2>4. context' \in [Runs -> Grants]
    BY <1>4, <2>3 DEF NewRun
  <2> QED
    BY <1>4, <2>1, <2>2, <2>4 DEF NewRun, SaidSo
<1>5. ASSUME NEW p \in Paths, Outside(p) PROVE Inv' /\ SaidSo
  <2>1. SaidSo
    BY <1>5 DEF Outside, Puts, SaidSo, FsType, SaidType, Files, TrueOf
  <2> QED
    BY <1>5, <2>1, KeepsInv DEF Outside
<1>6. CASE BreakSettings
  <2>1. SaidSo
    BY <1>6, SaysTrue DEF BreakSettings, SaidType
  <2>2. settings' \in Settings /\ Holds(settings', kept')
    BY <1>6 DEF BreakSettings, Broken, Settings, Holds
  <2> QED
    BY <1>6, <2>1, <2>2 DEF BreakSettings, SaidSo
<1>7. CASE UNCHANGED vars
  BY <1>7 DEF vars
<1> QED
  BY <1>1, <1>2, <1>3, <1>4, <1>5, <1>6, <1>7 DEF Next

(* The invariant holds in every run.                                       *)
LEMMA Invariance == Spec => []Inv
  BY InitInv, StepInv, PTL DEF Spec

(* Every value stays in its type, and no more calls wait for a grant than  *)
(* the bound says.                                                         *)
THEOREM TypeCorrect == Spec => []TypeOK
<1>1. Inv => TypeOK
  BY DEF Inv, TypeOK, FsType, SaidType, Settings, Waiting
<1> QED
  BY Invariance, <1>1, PTL

(* No grant is lost to another that is saved later, from whatever view of  *)
(* the file, none is there that was not given, and save_external leaves no *)
(* root inside another.                                                    *)
THEOREM GrantsKept == Spec => []GrantsAreKept
<1>1. Inv => GrantsAreKept
  BY DEF Inv, Holds, GrantsAreKept
<1> QED
  BY Invariance, <1>1, PTL

(* Whatever happened to the files while a call waited for the user, and    *)
(* wherever it failed, its result says what it did to them: a success what *)
(* was there before, an error that one path at most is another, and that   *)
(* no text is lost but that of a file whose writing broke off.             *)
THEOREM ResultsTrue == Spec => ResultsAreTrue
<1> DEFINE A == \A p \in Paths : fs'[p] # fs[p] => TrueOf(p)
<1>1. Inv /\ [Next]_vars => [A]_vars
  BY StepInv DEF SaidSo
<1> QED
  BY Invariance, <1>1, PTL DEF Spec, ResultsAreTrue
===============================================================================
