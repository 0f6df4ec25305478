------------------------------- MODULE FileTools -------------------------------
(***************************************************************************)
(* The file tools (tools/files.py) over a file system, the grants they     *)
(* load, ask for and record, and the settings file those are kept in       *)
(* (settings.py, atomic_io.py).                                            *)
(*                                                                         *)
(* A run of an agent has a context of its own, loaded from the settings    *)
(* when the run begins; runs go on side by side.  A call only waits while  *)
(* the user is asked for a grant: between two questions it runs to its     *)
(* next question or its end without a break, and so does the saving of a   *)
(* grant, which holds the lock of the file.  What Prompts says about the   *)
(* question itself is left out here.                                       *)
(***************************************************************************)
EXTENDS Naturals, FiniteSets, SequencesExt

CONSTANTS
  Runs,                     \* contexts: runs of an agent, side by side
  Paths,                    \* paths a call may name
  Hidden, External,         \* those that need a grant, by kind
  Forbidden,                \* paths in .aiignore
  Wide,                     \* the repository all external paths are in
  Texts,                    \* contents of a file
  MaxAsking                 \* calls waiting for a grant at a time

ASSUME PathsAssumption ==
  /\ Hidden \subseteq Paths /\ External \subseteq Paths
  /\ Hidden \cap External = {} /\ Forbidden \cap Paths = {}
  /\ Wide \notin Paths /\ MaxAsking \in Nat

Absent == "absent"
Dir == "directory"
Torn == "torn"              \* what a write or a copy that broke off has left
NoPath == "none"
Broken == [hidden |-> {}, external |-> {}, readable |-> FALSE]

VARIABLES
  fs,                       \* what is at each path
  settings,                 \* settings.local.json, "permissions"
  context,                  \* FileToolContext of each run
  asking,                   \* calls in _authorize, waiting for the callback
  said,                     \* what the call that has just ended gives the harness
  kept                      \* history: the grants that were saved

vars == <<fs, settings, context, asking, said, kept>>

-------------------------------------------------------------------------------
SinglePath == {"read", "edit", "write", "delete", "make_dir"}
DualPath == {"move", "copy"}
ConcurrencySafe == {"read", "edit", "write"}

(* The tools that go through _authorize_file for their (first) path.       *)
FileOnly == {"read", "edit", "write", "move"}

Files == Texts \cup {Torn}
Roots == External \cup {Wide}
Inside(p, root) == root \in {p, Wide}

(* The keys a path may be asked for: an external one by itself or, if it   *)
(* is in a repository by then, by the root of that.                        *)
GrantKeys(p) == IF p \in External THEN {p, Wide} ELSE {p}

Grants == [hidden : SUBSET Hidden, external : SUBSET Roots]
Call == [run : Runs, tool : SinglePath \cup DualPath, src : Paths \cup Forbidden,
         dst : Paths \cup Forbidden \cup {NoPath}, path : Paths, key : Hidden \cup Roots]

TypeOK ==
  /\ fs \in [Paths -> Files \cup {Absent, Dir}]
  /\ settings \in [hidden : SUBSET Hidden, external : SUBSET Roots, readable : BOOLEAN]
  /\ context \in [Runs -> Grants]
  /\ asking \subseteq Call /\ Cardinality(asking) <= MaxAsking
  /\ said \in {"nothing", "error", "created", "overwritten", "edited", "mutated", "outside"}
  /\ kept \subseteq Hidden \cup Roots

Has(grants, p) ==
  \/ p \notin Hidden \cup External
  \/ p \in grants.hidden
  \/ \E root \in grants.external : p \in External /\ Inside(p, root)

-------------------------------------------------------------------------------
(* load_allow_hidden, load_external                                        *)
Loaded == [hidden |-> settings.hidden, external |-> settings.external]

(* Mutant: the path lands in the other list.                               *)
SaveAsExternal(s, p) == [s EXCEPT !.external = @ \cup {p}, !.readable = TRUE]

(* save_allow_hidden: an unreadable file counts as empty.                  *)
SaveHidden(s, p) == [s EXCEPT !.hidden = @ \cup {p}, !.readable = TRUE]

(* Mutant: the run's own list takes the place of the one in the file.      *)
SaveExternalBlindly(s, root) == [s EXCEPT !.external = {root}, !.readable = TRUE]

(* save_external: the widest root wins.                                    *)
SaveExternal(s, root) ==
  IF \E e \in s.external : Inside(root, e) THEN s
  ELSE [s EXCEPT !.external = {e \in @ : ~Inside(e, root)} \cup {root}, !.readable = TRUE]

Saved(s, key) == IF key \in Hidden THEN SaveHidden(s, key) ELSE SaveExternal(s, key)

Granted(grants, key) ==
  IF key \in Hidden THEN [grants EXCEPT !.hidden = @ \cup {key}]
  ELSE [grants EXCEPT !.external = @ \cup {key}]

-------------------------------------------------------------------------------
(* The ends of a call, as the harness tells them apart: a new file or an   *)
(* overwritten one, an edit, another mutation, an error.                   *)
Says(result) == said' = result /\ UNCHANGED fs
Puts(p, what, result) == fs' = [fs EXCEPT ![p] = what] /\ said' = result

(* write_text empties the file before it writes.                           *)
WritesText(p, text, result) == Puts(p, text, result) \/ Puts(p, Torn, "error")

Read(p) == Says("nothing")

(* An edit is a list of hunks, or one; each is looked for in what the ones *)
(* before have made of the text.                                           *)
Hunk == {h \in [old : Texts, new : Texts] : h.old # h.new}
NotFound == "not found"
Patched(text, hunks) ==
  IF hunks = <<>> THEN text
  ELSE IF \A i \in DOMAIN hunks : hunks[i].old = IF i = 1 THEN text ELSE hunks[i - 1].new
  THEN hunks[Len(hunks)].new
  ELSE NotFound

(* Mutant: each hunk is written as it is found.                            *)
EditHunkByHunk(p) ==
  \E h1, h2 \in Hunk :
    IF fs[p] # h1.old THEN Says("error")
    ELSE Puts(p, Patched(fs[p], <<h1>>), IF h1.new = h2.old THEN "edited" ELSE "error")

Edit(p) ==
  \E hunks \in BoundedSeq(Hunk, 2) :
    IF fs[p] \notin Files \/ Patched(fs[p], hunks) = NotFound THEN Says("error")
    ELSE WritesText(p, Patched(fs[p], hunks), "edited")

Write(p) ==
  \E text \in Texts :
    WritesText(p, text, IF fs[p] = Absent THEN "created" ELSE "overwritten")

Delete(p) == IF fs[p] \in Files THEN Puts(p, Absent, "mutated") ELSE Says("error")

MakeDir(p) == IF fs[p] \in Files THEN Says("error") ELSE Puts(p, Dir, "mutated")

(* shutil.move renames; across file systems it copies to dst and then      *)
(* removes src, which may be a directory by now.  It can fail in the copy  *)
(* and in the removal: src is then still there, and dst as far as it came. *)
Move(src, dst) ==
  IF fs[src] = Absent \/ fs[dst] # Absent THEN Says("error")
  ELSE \/ fs' = [fs EXCEPT ![src] = Absent, ![dst] = fs[src]] /\ said' = "mutated"
       \/ Puts(dst, fs[src], "error")
       \/ fs[src] \in Files /\ Puts(dst, Torn, "error")

(* shutil.copy2 can fail in the middle, or when all but the attributes is  *)
(* copied.                                                                 *)
Copy(src, dst) ==
  IF fs[src] \notin Files \/ fs[dst] # Absent THEN Says("error")
  ELSE \/ \E result \in {"mutated", "error"} : Puts(dst, fs[src], result)
       \/ Puts(dst, Torn, "error")

(* Whatever the tool, it may also fail before it has changed anything.     *)
Acts(c) ==
  \/ c.tool = "read" /\ Read(c.src)
  \/ c.tool = "edit" /\ Edit(c.src)
  \/ c.tool = "write" /\ Write(c.src)
  \/ c.tool = "delete" /\ Delete(c.src)
  \/ c.tool = "make_dir" /\ MakeDir(c.src)
  \/ c.tool = "move" /\ Move(c.src, c.dst)
  \/ c.tool = "copy" /\ Copy(c.src, c.dst)
  \/ Says("error")

-------------------------------------------------------------------------------
(* _authorize for a path without a grant: ask, unless the run is asking    *)
(* for the same thing already.                                             *)
Asks(c, p, others) ==
  \E key \in GrantKeys(p) :
    /\ Says(IF \E d \in others : d.run = c.run /\ d.key = key THEN "error" ELSE "nothing")
    /\ asking' = IF \E d \in others : d.run = c.run /\ d.key = key THEN others
                 ELSE others \cup {[c EXCEPT !.path = p, !.key = key]}
    /\ Cardinality(asking') <= MaxAsking

EndsWith(outcome, others) == outcome /\ asking' = others

(* The call goes on, with the grants of its run, from its second path ...  *)
FromDst(c, grants, others) ==
  \/ c.dst \in Forbidden /\ EndsWith(Says("error"), others)
  \/ c.dst \in Paths /\ ~Has(grants, c.dst) /\ Asks(c, c.dst, others)
  \/ c.dst \in Paths /\ Has(grants, c.dst) /\ EndsWith(Acts(c), others)

(* ... or from its first.                                                  *)
FromSrc(c, grants, others) ==
  \/ c.src \in Forbidden /\ EndsWith(Says("error"), others)
  \/ c.src \in Paths /\ ~Has(grants, c.src) /\ Asks(c, c.src, others)
  \/ /\ c.src \in Paths /\ Has(grants, c.src)
     /\ \/ c.tool \in FileOnly /\ fs[c.src] = Dir /\ EndsWith(Says("error"), others)
        \/ /\ c.tool \in FileOnly => fs[c.src] # Dir
           /\ IF c.tool \in DualPath THEN FromDst(c, grants, others)
              ELSE EndsWith(Acts(c), others)

(* A tool that is not concurrency safe has its batch to itself.            *)
MayRun(x, tool) ==
  \A c \in asking : c.run = x => {tool, c.tool} \subseteq ConcurrencySafe

(* path and key are set once the call asks.                                *)
Start(x, tool, src, dst) ==
  /\ MayRun(x, tool)
  /\ tool \in SinglePath <=> dst = NoPath
  /\ FromSrc([run |-> x, tool |-> tool, src |-> src, dst |-> dst,
              path |-> NoPath, key |-> NoPath], context[x], asking)
  /\ UNCHANGED <<settings, context, kept>>

(* The user says yes: the run has the grant, the file too unless it cannot *)
(* be written, in which case the call ends in the exception.               *)
Allow(c) ==
  LET grants == Granted(context[c.run], c.key)
      others == asking \ {c}
  IN
  /\ context' = [context EXCEPT ![c.run] = grants]
  /\ \/ /\ settings' = Saved(settings, c.key)
        /\ kept' = kept \cup {c.key}
        /\ IF c.path = c.src THEN FromSrc(c, grants, others)
           ELSE FromDst(c, grants, others)
     \/ /\ EndsWith(Says("error"), others)
        /\ UNCHANGED <<settings, kept>>

(* No, or nobody answers in time.                                          *)
Refuse(c) ==
  /\ EndsWith(Says("error"), asking \ {c})
  /\ UNCHANGED <<settings, context, kept>>

(* The run ends or is cancelled, or the app is restarted; the next loads   *)
(* its grants anew.                                                        *)
NewRun(x) ==
  /\ context' = [context EXCEPT ![x] = Loaded]
  /\ EndsWith(Says("nothing"), {c \in asking : c.run # x})
  /\ UNCHANGED <<settings, kept>>

(* Another program: an editor, a shell command.                            *)
Outside(p) ==
  /\ \E what \in (Texts \cup {Absent, Dir}) \ {fs[p]} : Puts(p, what, "outside")
  /\ UNCHANGED <<settings, context, asking, kept>>

(* Someone breaks the settings file: what it held is lost.                 *)
BreakSettings ==
  /\ settings' = Broken /\ kept' = {}
  /\ Says("nothing")
  /\ UNCHANGED <<context, asking>>

Init ==
  /\ fs \in [Paths -> Texts \cup {Absent}]
  /\ settings = [hidden |-> {}, external |-> {}, readable |-> TRUE]
  /\ context = [x \in Runs |-> Loaded]
  /\ asking = {}
  /\ said = "nothing"
  /\ kept = {}

Next ==
  \/ \E x \in Runs, tool \in SinglePath \cup DualPath, src \in Paths \cup Forbidden,
        dst \in Paths \cup Forbidden \cup {NoPath} : Start(x, tool, src, dst)
  \/ \E c \in asking : Allow(c) \/ Refuse(c)
  \/ \E x \in Runs : NewRun(x)
  \/ \E p \in Paths : Outside(p)
  \/ BreakSettings

Spec == Init /\ [][Next]_vars

-------------------------------------------------------------------------------
(* The settings file holds what the user granted, whichever runs saved it  *)
(* and in whatever order: no grant is lost to one that another run saves   *)
(* later with an older view, none is there that was not given, and no root *)
(* lies inside another.                                                    *)
GrantsAreKept ==
  /\ kept \cap Hidden \subseteq settings.hidden
  /\ \A g \in kept \ Hidden : \E e \in settings.external : Inside(g, e)
  /\ settings.hidden \cup settings.external \subseteq kept
  /\ \A d, e \in settings.external : Inside(d, e) => d = e

(* What a path is after a call, given what it was and the call's result.   *)
TrueOf(p) ==
  \/ said' = "created" /\ fs[p] = Absent /\ fs'[p] \in Texts
  \/ said' \in {"overwritten", "edited"} /\ fs[p] \in Files /\ fs'[p] \in Texts
  \/ said' = "mutated" /\ Absent \in {fs[p], fs'[p]}
  \/ /\ said' = "error"
     /\ \/ fs[p] \in Files /\ fs'[p] = Torn
        \/ fs[p] = Absent
     /\ \A q \in Paths : q # p => fs'[q] = fs[q]
  \/ said' = "outside"

(* A result says what the call did, also when the files have changed while *)
(* the user was asked: a new file was not there before, a text goes only   *)
(* by an edit, a delete, a move or a write that says it overwrote, and     *)
(* move and copy cover nothing up.  An error does not say that nothing was *)
(* changed, but what it can have changed is one path: a file whose writing *)
(* broke off, or a path that was free, where a new file or the destination *)
(* of a move or a copy now is in whole or in part; no other text is lost,  *)
(* and the source of a move that failed is still there.  The harness shows *)
(* its diffs and picks what it verifies by these results.                  *)
ResultsAreTrue == [][\A p \in Paths : fs'[p] # fs[p] => TrueOf(p)]_vars
===============================================================================
