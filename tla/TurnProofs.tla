------------------------------- MODULE TurnProofs ------------------------------
(***************************************************************************)
(* Proofs about Turn: however prompts, cancellations, failed writes,       *)
(* compactions and restarts follow each other, a turn ends once, and an    *)
(* answer stands behind its prompt, in memory and in the log.  The         *)
(* theorems hold for any number of turns, commands and compaction attempts *)
(* and need no fairness.                                                   *)
(***************************************************************************)
EXTENDS Turn, SequenceTheorems, TLAPS

USE TurnsAssumption, CommandsAssumption, AttemptsAssumption

-------------------------------------------------------------------------------
(* Conversations and logs *)

(* The answers of a conversation stand behind their prompts.               *)
Answered(l) ==
  \A i \in Positions(l, "assistant") : i > 1 /\ l[i - 1] = [l[i] EXCEPT !.kind = "user"]

(* The prompt of the step that runs is its latest entry.                   *)
EndsInPrompt(l) == l # <<>> /\ l[Len(l)] = Current("user")

(* If it was compacted, there is a last time it was.                       *)
HasLastCompact(l) ==
  Positions(l, "compact") # {} =>
    \E i \in Positions(l, "compact") : \A j \in Positions(l, "compact") : j <= i

(* Current builds entries.                                                 *)
LEMMA CurrentEntry ==
  ASSUME turn \in 0..MaxTurns, step \in {1, 2}
  PROVE  \A kind \in {"user", "assistant", "compact"} :
           Current(kind) \in Entry /\ Current(kind).kind = kind
  BY DEF Current, Entry

(* The answer of a step differs from its prompt in its kind.               *)
LEMMA PromptOfAnswer == [Current("assistant") EXCEPT !.kind = "user"] = Current("user")
  BY DEF Current

(* An empty conversation.                                                  *)
LEMMA EmptyConversation ==
  /\ <<>> \in Seq(Entry)
  /\ Answered(<<>>)
  /\ HasLastCompact(<<>>)
  BY EmptySeq DEF Answered, HasLastCompact, Positions

(* A prompt or a summary joins.                                            *)
LEMMA Joined ==
  ASSUME NEW l \in Seq(Entry), NEW e \in Entry, Answered(l), e.kind # "assistant"
  PROVE  /\ Append(l, e) \in Seq(Entry)
         /\ Answered(Append(l, e))
         /\ HasLastCompact(l) => HasLastCompact(Append(l, e))
         /\ Append(l, e) # <<>> /\ Append(l, e)[Len(Append(l, e))] = e
<1> DEFINE longer == Append(l, e)
<1>1. /\ longer \in Seq(Entry) /\ Len(longer) = Len(l) + 1 /\ longer # <<>>
      /\ longer[Len(l) + 1] = e
      /\ \A i \in 1..Len(l) : longer[i] = l[i]
      /\ DOMAIN longer = 1..(Len(l) + 1) /\ DOMAIN l = 1..Len(l) /\ Len(l) \in Nat
  BY AppendProperties, LenProperties
<1> HIDE DEF longer
<1>2. Answered(longer)
  BY <1>1 DEF Answered, Positions
<1>3. ASSUME HasLastCompact(l) PROVE HasLastCompact(longer)
  <2>1. CASE e.kind = "compact"
    BY <1>1, <2>1 DEF HasLastCompact, Positions
  <2>2. CASE e.kind # "compact"
    <3>1. Positions(longer, "compact") = Positions(l, "compact")
      BY <1>1, <2>2 DEF Positions
    <3> QED
      BY <1>3, <3>1 DEF HasLastCompact
  <2> QED
    BY <2>1, <2>2
<1> QED
  BY <1>1, <1>2, <1>3 DEF longer

(* An answer joins, behind its prompt.                                     *)
LEMMA AnswerJoined ==
  ASSUME NEW l \in Seq(Entry), Answered(l), EndsInPrompt(l),
         turn \in 0..MaxTurns, step \in {1, 2}
  PROVE  /\ Append(l, Current("assistant")) \in Seq(Entry)
         /\ Answered(Append(l, Current("assistant")))
         /\ HasLastCompact(l) => HasLastCompact(Append(l, Current("assistant")))
<1> DEFINE e == Current("assistant")
<1> DEFINE longer == Append(l, e)
<1>0. e \in Entry /\ e.kind = "assistant" /\ [e EXCEPT !.kind = "user"] = Current("user")
  BY CurrentEntry, PromptOfAnswer
<1> HIDE DEF e
<1>1. /\ longer \in Seq(Entry) /\ Len(longer) = Len(l) + 1
      /\ longer[Len(l) + 1] = e
      /\ \A i \in 1..Len(l) : longer[i] = l[i]
      /\ DOMAIN longer = 1..(Len(l) + 1) /\ DOMAIN l = 1..Len(l)
      /\ Len(l) \in Nat \ {0}
  BY <1>0, AppendProperties, LenProperties, EmptySeq DEF EndsInPrompt
<1> HIDE DEF longer
<1>2. ASSUME NEW i \in Positions(longer, "assistant")
      PROVE  i > 1 /\ longer[i - 1] = [longer[i] EXCEPT !.kind = "user"]
  <2>1. CASE i = Len(l) + 1
    BY <1>0, <1>1, <2>1 DEF EndsInPrompt
  <2>2. CASE i \in 1..Len(l)
    <3>1. i \in Positions(l, "assistant") /\ longer[i] = l[i]
      BY <1>1, <1>2, <2>2 DEF Positions
    <3>2. i > 1 /\ l[i - 1] = [l[i] EXCEPT !.kind = "user"]
      BY <3>1 DEF Answered
    <3>3. longer[i - 1] = l[i - 1]
      BY <1>1, <2>2, <3>2
    <3> QED
      BY <3>1, <3>2, <3>3
  <2> QED
    BY <1>1, <1>2, <2>1, <2>2 DEF Positions
<1>3. ASSUME HasLastCompact(l) PROVE HasLastCompact(longer)
  <2>1. Positions(longer, "compact") = Positions(l, "compact")
    BY <1>0, <1>1 DEF Positions
  <2> QED
    BY <1>3, <2>1 DEF HasLastCompact
<1> QED
  BY <1>1, <1>2, <1>3 DEF longer, e, Answered

(* The latest entry is taken back.                                         *)
LEMMA TakenBack ==
  ASSUME NEW l \in Seq(Entry), Answered(l), l # <<>>
  PROVE  Front(l) \in Seq(Entry) /\ Answered(Front(l))
<1> DEFINE front == Front(l)
<1>1. /\ front \in Seq(Entry) /\ Len(front) = Len(l) - 1
      /\ \A i \in 1..(Len(l) - 1) : front[i] = l[i]
      /\ DOMAIN front = 1..(Len(l) - 1) /\ DOMAIN l = 1..Len(l) /\ Len(l) \in Nat \ {0}
  <2>1. DOMAIN l = 1..Len(l) /\ Len(l) \in Nat \ {0}
    BY LenProperties, EmptySeq
  <2>2. \A i \in 1..(Len(l) - 1) : l[i] \in Entry
    BY <2>1, ElementOfSeq
  <2>3. front = SubSeq(l, 1, Len(l) - 1)
    BY DEF Front
  <2>4. /\ front \in Seq(Entry) /\ Len(front) = Len(l) - 1
        /\ \A i \in 1..(Len(l) - 1) : front[i] = l[i]
    BY <2>1, <2>2, <2>3, SubSeqProperties
  <2> HIDE DEF front
  <2>5. DOMAIN front = 1..(Len(l) - 1)
    BY <2>4, LenProperties
  <2> QED
    BY <2>1, <2>4, <2>5
<1> HIDE DEF front
<1>2. ASSUME NEW i \in Positions(front, "assistant")
      PROVE  i > 1 /\ front[i - 1] = [front[i] EXCEPT !.kind = "user"]
  <2>1. i \in Positions(l, "assistant") /\ front[i] = l[i] /\ i \in 1..(Len(l) - 1)
    BY <1>1, <1>2 DEF Positions
  <2>2. i > 1 /\ l[i - 1] = [l[i] EXCEPT !.kind = "user"]
    BY <2>1 DEF Answered
  <2>3. front[i - 1] = l[i - 1]
    BY <1>1, <2>1, <2>2
  <2> QED
    BY <2>1, <2>2, <2>3
<1> QED
  BY <1>1, <1>2 DEF front, Answered

(* What a resume loads begins with a summary, so it separates no answer    *)
(* from its prompt.                                                        *)
LEMMA Resumed ==
  ASSUME NEW l \in Seq(Entry), Answered(l), HasLastCompact(l)
  PROVE  Resume(l) \in Seq(Entry) /\ Answered(Resume(l))
<1>1. CASE Positions(l, "compact") = {}
  BY <1>1 DEF Resume
<1>2. CASE Positions(l, "compact") # {}
  <2> DEFINE p == CHOOSE i \in Positions(l, "compact") :
                    \A j \in Positions(l, "compact") : j <= i
  <2> DEFINE rest == SubSeq(l, p, Len(l))
  <2>1. Resume(l) = rest
    BY <1>2 DEF Resume
  <2>2. p \in Positions(l, "compact")
    BY <1>2 DEF HasLastCompact
  <2> HIDE DEF p
  <2>3. /\ rest \in Seq(Entry) /\ Len(rest) = Len(l) - p + 1
        /\ \A i \in 1..(Len(l) - p + 1) : rest[i] = l[p + i - 1]
        /\ DOMAIN rest = 1..(Len(l) - p + 1) /\ DOMAIN l = 1..Len(l)
        /\ Len(l) \in Nat /\ p \in 1..Len(l) /\ l[p].kind = "compact"
    BY <2>2, SubSeqProperties, LenProperties DEF Positions
  <2> HIDE DEF rest
  <2>4. ASSUME NEW i \in Positions(rest, "assistant")
        PROVE  i > 1 /\ rest[i - 1] = [rest[i] EXCEPT !.kind = "user"]
    <3>1. i \in 1..(Len(l) - p + 1) /\ rest[i] = l[p + i - 1] /\ rest[i].kind = "assistant"
      BY <2>3, <2>4 DEF Positions
    <3>2. i > 1
      BY <2>3, <3>1
    <3>3. p + i - 1 \in Positions(l, "assistant")
      BY <2>3, <3>1 DEF Positions
    <3>4. l[(p + i - 1) - 1] = [l[p + i - 1] EXCEPT !.kind = "user"]
      BY <3>3 DEF Answered
    <3>5. rest[i - 1] = l[p + (i - 1) - 1] /\ p + (i - 1) - 1 = (p + i - 1) - 1
      BY <2>3, <3>1, <3>2
    <3> QED
      BY <3>1, <3>2, <3>4, <3>5
  <2> QED
    BY <2>1, <2>3, <2>4 DEF Answered
<1> QED
  BY <1>1, <1>2

-------------------------------------------------------------------------------
(* Memory and log in step *)

(* The members of InOrder.                                                 *)
LEMMA InOrderMembers ==
  ASSUME NEW l, NEW positions \in SUBSET Nat, NEW x
  PROVE  x \in InOrder(l, positions) <=>
           \E i, j \in positions : i <= j /\ x = <<l[i], l[j]>>
<1> DEFINE pairs == {q \in positions \X positions : q[1] <= q[2]}
<1>1. x \in InOrder(l, positions) <=> \E p \in pairs : x = <<l[p[1]], l[p[2]]>>
  BY DEF InOrder
<1>2. ASSUME NEW i \in positions, NEW j \in positions, i <= j, x = <<l[i], l[j]>>
      PROVE  \E p \in pairs : x = <<l[p[1]], l[p[2]]>>
  <2>1. <<i, j>> \in pairs /\ <<i, j>>[1] = i /\ <<i, j>>[2] = j
    BY <1>2
  <2> QED
    BY <1>2, <2>1
<1>3. ASSUME NEW p \in pairs, x = <<l[p[1]], l[p[2]]>>
      PROVE  \E i, j \in positions : i <= j /\ x = <<l[i], l[j]>>
  <2>1. p[1] \in positions /\ p[2] \in positions /\ p[1] <= p[2]
    OBVIOUS
  <2> QED
    BY <1>3, <2>1
<1> HIDE DEF pairs
<1> QED
  BY <1>1, <1>2, <1>3

(* It depends on nothing but what stands at the positions.                 *)
LEMMA InOrderLocal ==
  ASSUME NEW l, NEW k, NEW positions \in SUBSET Nat,
         \A i \in positions : l[i] = k[i]
  PROVE  InOrder(l, positions) = InOrder(k, positions)
<1>1. \A x : x \in InOrder(l, positions) <=> x \in InOrder(k, positions)
  BY InOrderMembers
<1> QED
  BY <1>1

(* One entry less.                                                         *)
LEMMA InOrderWithout ==
  ASSUME NEW l, NEW positions \in SUBSET Nat, NEW e,
         NEW less, less = {i \in positions : l[i] # e}
  PROVE  \A x : x \in InOrder(l, less) <=>
                x \in InOrder(l, positions) /\ x[1] # e /\ x[2] # e
<1>1. less \in SUBSET Nat /\ \A i \in Nat : i \in less <=> i \in positions /\ l[i] # e
  OBVIOUS
<1>2. ASSUME NEW x
      PROVE  x \in InOrder(l, less) <=> x \in InOrder(l, positions) /\ x[1] # e /\ x[2] # e
  <2>1. ASSUME x \in InOrder(l, less)
        PROVE  x \in InOrder(l, positions) /\ x[1] # e /\ x[2] # e
    <3>1. PICK i \in less, j \in less : i <= j /\ x = <<l[i], l[j]>>
      BY <1>1, <2>1, InOrderMembers
    <3>2. x[1] = l[i] /\ x[2] = l[j] /\ i \in positions /\ j \in positions
      BY <1>1, <3>1
    <3> QED
      BY <1>1, <3>1, <3>2, InOrderMembers
  <2>2. ASSUME x \in InOrder(l, positions), x[1] # e, x[2] # e
        PROVE  x \in InOrder(l, less)
    <3>1. PICK i \in positions, j \in positions : i <= j /\ x = <<l[i], l[j]>>
      BY <2>2, InOrderMembers
    <3>2. x[1] = l[i] /\ x[2] = l[j]
      BY <3>1
    <3>3. i \in less /\ j \in less
      BY <1>1, <2>2, <3>1, <3>2
    <3> QED
      BY <1>1, <3>1, <3>3, InOrderMembers
  <2> QED
    BY <2>1, <2>2
<1> QED
  BY <1>2

(* The same entry joins both.                                              *)
LEMMA InOrderGrows ==
  ASSUME NEW m \in Seq(Entry), NEW r \in Seq(Entry), NEW e \in Entry,
         NEW w \in SUBSET DOMAIN m, NEW s \in SUBSET DOMAIN r,
         InOrder(m, w) \subseteq InOrder(r, s)
  PROVE  InOrder(Append(m, e), w \cup {Len(m) + 1}) \subseteq
           InOrder(Append(r, e), s \cup {Len(r) + 1})
<1> DEFINE lm == Append(m, e)
           lr == Append(r, e)
           w1 == w \cup {Len(m) + 1}
           s1 == s \cup {Len(r) + 1}
<1>1. /\ lm[Len(m) + 1] = e /\ \A i \in 1..Len(m) : lm[i] = m[i]
      /\ lr[Len(r) + 1] = e /\ \A i \in 1..Len(r) : lr[i] = r[i]
      /\ Len(m) \in Nat /\ Len(r) \in Nat
      /\ w \subseteq 1..Len(m) /\ s \subseteq 1..Len(r)
  BY AppendProperties, LenProperties
<1>2. w \in SUBSET Nat /\ s \in SUBSET Nat /\ w1 \in SUBSET Nat /\ s1 \in SUBSET Nat
  BY <1>1
<1>3. w1 = w \cup {Len(m) + 1} /\ s1 = s \cup {Len(r) + 1}
  OBVIOUS
<1> HIDE DEF lm, lr, w1, s1
<1>4. ASSUME NEW x \in InOrder(lm, w1) PROVE x \in InOrder(lr, s1)
  <2>1. PICK i \in w1, j \in w1 : i <= j /\ x = <<lm[i], lm[j]>>
    BY <1>2, InOrderMembers
  <2>2. CASE j \in w
    <3>1. i \in w /\ lm[i] = m[i] /\ lm[j] = m[j]
      BY <1>1, <1>2, <1>3, <2>1, <2>2
    <3>2. x \in InOrder(r, s)
      BY <1>2, <2>1, <2>2, <3>1, InOrderMembers
    <3>3. PICK k \in s, l \in s : k <= l /\ x = <<r[k], r[l]>>
      BY <1>2, <3>2, InOrderMembers
    <3>4. lr[k] = r[k] /\ lr[l] = r[l] /\ k \in s1 /\ l \in s1
      BY <1>1, <1>3
    <3> QED
      BY <1>2, <3>3, <3>4, InOrderMembers
  <2>3. CASE j = Len(m) + 1 /\ i \in w
    <3>1. lm[i] = m[i] /\ lm[j] = e
      BY <1>1, <2>3
    <3>2. PICK z : z = <<m[i], m[i]>>
      OBVIOUS
    <3>3. i \in w /\ i <= i
      BY <1>1, <2>3
    <3>4. z \in InOrder(r, s)
      BY <1>2, <3>2, <3>3, InOrderMembers
    <3>5. PICK k \in s, l \in s : k <= l /\ z = <<r[k], r[l]>>
      BY <1>2, <3>4, InOrderMembers
    <3>6. r[k] = m[i]
      BY <3>2, <3>5
    <3>7. /\ k \in s1 /\ Len(r) + 1 \in s1 /\ k <= Len(r) + 1
          /\ lr[k] = m[i] /\ lr[Len(r) + 1] = e
      BY <1>1, <1>3, <3>6
    <3>8. x = <<lr[k], lr[Len(r) + 1]>>
      BY <2>1, <3>1, <3>7
    <3> QED
      BY <1>2, <3>7, <3>8, InOrderMembers
  <2>4. CASE j = Len(m) + 1 /\ i = Len(m) + 1
    <3>1. x = <<lr[Len(r) + 1], lr[Len(r) + 1]>> /\ Len(r) + 1 \in s1
      BY <1>1, <1>3, <2>1, <2>4
    <3> QED
      BY <1>1, <1>2, <3>1, InOrderMembers
  <2> QED
    BY <1>3, <2>1, <2>2, <2>3, <2>4
<1> QED
  BY <1>4 DEF lm, lr, w1, s1

(* MemoryIsLogMinusTakenBack, of any conversation, log, unwritten entries  *)
(* and prompts taken back.                                                 *)
WrittenOf(m, u) == {i \in DOMAIN m : m[i] \notin u}
StandingOf(r, p) == {i \in DOMAIN r : r[i].kind = "user" => <<r[i].turn, r[i].step>> \notin p}
Cuts(u, r) == IF \E e \in u : e.kind = "compact" THEN 0..Len(r) ELSE {0}
Matches(m, u, r, p, cut) ==
  InOrder(m, WrittenOf(m, u)) = InOrder(r, {i \in StandingOf(r, p) : i > cut})
InStep(m, u, r, p) ==
  /\ IsInjective(m) /\ IsInjective(r)
  /\ \E cut \in Cuts(u, r) : Matches(m, u, r, p, cut)

(* It is the property.                                                     *)
LEMMA MemoryInStep ==
  MemoryIsLogMinusTakenBack <=> InStep(messages, unlogged, Resume(log), popped)
  BY DEF MemoryIsLogMinusTakenBack, InStep, Matches, Cuts, WrittenOf, StandingOf, Written, Standing

(* An entry with a new name joins without a repetition.                    *)
LEMMA StaysInjective ==
  ASSUME NEW l \in Seq(Entry), NEW e \in Entry, IsInjective(l), e \notin Range(l)
  PROVE  IsInjective(Append(l, e))
<1> DEFINE longer == Append(l, e)
<1>1. /\ longer[Len(l) + 1] = e /\ \A i \in 1..Len(l) : longer[i] = l[i]
      /\ DOMAIN longer = 1..(Len(l) + 1) /\ DOMAIN l = 1..Len(l) /\ Len(l) \in Nat
  BY AppendProperties, LenProperties
<1> HIDE DEF longer
<1>2. \A i \in 1..Len(l) : l[i] # e
  BY <1>1 DEF Range
<1> QED
  BY <1>1, <1>2 DEF IsInjective, longer

(* A written entry joins both.                                             *)
LEMMA PutInBoth ==
  ASSUME NEW m \in Seq(Entry), NEW r \in Seq(Entry), NEW u, NEW p, NEW e \in Entry,
         InStep(m, u, r, p), e \notin Range(m) \cup Range(r) \cup u,
         e.kind = "user" => <<e.turn, e.step>> \notin p
  PROVE  InStep(Append(m, e), u, Append(r, e), p)
<1> DEFINE lm == Append(m, e)
           lr == Append(r, e)
<1>1. /\ lm[Len(m) + 1] = e /\ \A i \in 1..Len(m) : lm[i] = m[i]
      /\ lr[Len(r) + 1] = e /\ \A i \in 1..Len(r) : lr[i] = r[i]
      /\ DOMAIN lm = 1..(Len(m) + 1) /\ DOMAIN lr = 1..(Len(r) + 1)
      /\ DOMAIN m = 1..Len(m) /\ DOMAIN r = 1..Len(r)
      /\ Len(m) \in Nat /\ Len(r) \in Nat /\ Len(lr) = Len(r) + 1
  BY AppendProperties, LenProperties
<1>2. PICK cut \in Cuts(u, r) : Matches(m, u, r, p, cut)
  BY DEF InStep
<1>3. cut \in Cuts(u, lr) /\ cut \in 0..Len(r)
  BY <1>1, <1>2 DEF Cuts
<1> DEFINE s == {i \in StandingOf(r, p) : i > cut}
           w == WrittenOf(m, u)
<1>4. InOrder(m, w) = InOrder(r, s)
  BY <1>2 DEF Matches
<1>5. w \in SUBSET DOMAIN m /\ s \in SUBSET DOMAIN r
  BY DEF WrittenOf, StandingOf
<1> HIDE DEF lm, lr
<1>6. WrittenOf(lm, u) = w \cup {Len(m) + 1}
  BY <1>1 DEF WrittenOf
<1>7. {i \in StandingOf(lr, p) : i > cut} = s \cup {Len(r) + 1}
  <2>1. StandingOf(lr, p) = StandingOf(r, p) \cup {Len(r) + 1}
    <3>1. ASSUME NEW i \in 1..(Len(r) + 1)
          PROVE  i \in StandingOf(lr, p) <=> i \in StandingOf(r, p) \cup {Len(r) + 1}
      <4>1. CASE i = Len(r) + 1
        BY <1>1, <4>1 DEF StandingOf
      <4>2. CASE i \in 1..Len(r)
        BY <1>1, <4>2 DEF StandingOf
      <4> QED
        BY <1>1, <4>1, <4>2
    <3>2. StandingOf(lr, p) \subseteq 1..(Len(r) + 1) /\ StandingOf(r, p) \subseteq 1..(Len(r) + 1)
      BY <1>1 DEF StandingOf
    <3> QED
      BY <1>1, <3>1, <3>2
  <2>2. Len(r) + 1 > cut
    BY <1>1, <1>3
  <2> QED
    BY <2>1, <2>2
<1> HIDE DEF s, w
<1>8. InOrder(lm, w \cup {Len(m) + 1}) = InOrder(lr, s \cup {Len(r) + 1})
  <2>1. InOrder(lm, w \cup {Len(m) + 1}) \subseteq InOrder(lr, s \cup {Len(r) + 1})
    <3>1. InOrder(m, w) \subseteq InOrder(r, s)
      BY <1>4
    <3> QED
      BY <3>1, <1>5, InOrderGrows DEF lm, lr
  <2>2. InOrder(lr, s \cup {Len(r) + 1}) \subseteq InOrder(lm, w \cup {Len(m) + 1})
    <3>1. InOrder(r, s) \subseteq InOrder(m, w)
      BY <1>4
    <3> QED
      BY <3>1, <1>5, InOrderGrows DEF lm, lr
  <2> QED
    BY <2>1, <2>2
<1>9. IsInjective(lm) /\ IsInjective(lr)
  BY StaysInjective DEF InStep, lm, lr
<1> QED
  BY <1>3, <1>6, <1>7, <1>8, <1>9 DEF InStep, Matches, lm, lr

(* An entry that was not written joins memory alone.                       *)
LEMMA PutInMemory ==
  ASSUME NEW m \in Seq(Entry), NEW r \in Seq(Entry), NEW u, NEW p, NEW e \in Entry,
         InStep(m, u, r, p), e \notin Range(m), e.kind # "compact"
  PROVE  InStep(Append(m, e), u \cup {e}, r, p)
<1> DEFINE lm == Append(m, e)
<1>1. /\ lm[Len(m) + 1] = e /\ \A i \in 1..Len(m) : lm[i] = m[i]
      /\ DOMAIN lm = 1..(Len(m) + 1) /\ DOMAIN m = 1..Len(m) /\ Len(m) \in Nat
  BY AppendProperties, LenProperties
<1>2. PICK cut \in Cuts(u, r) : Matches(m, u, r, p, cut)
  BY DEF InStep
<1>3. cut \in Cuts(u \cup {e}, r)
  BY <1>2 DEF Cuts
<1> HIDE DEF lm
<1>4. \A i \in 1..Len(m) : m[i] # e
  BY <1>1 DEF Range
<1>5. WrittenOf(lm, u \cup {e}) = WrittenOf(m, u)
  BY <1>1, <1>4 DEF WrittenOf
<1>6. WrittenOf(m, u) \in SUBSET Nat /\ \A i \in WrittenOf(m, u) : lm[i] = m[i]
  BY <1>1 DEF WrittenOf
<1>7. InOrder(lm, WrittenOf(m, u)) = InOrder(m, WrittenOf(m, u))
  BY <1>6, InOrderLocal
<1>8. IsInjective(lm)
  BY StaysInjective DEF InStep, lm
<1> QED
  BY <1>2, <1>3, <1>5, <1>7, <1>8 DEF InStep, Matches, lm

(* Nothing taken back and nothing unwritten: memory is what is loaded.     *)
LEMMA SameInStep ==
  ASSUME NEW s \in Seq(Entry), NEW p, IsInjective(s),
         \A i \in DOMAIN s : s[i].kind = "user" => <<s[i].turn, s[i].step>> \notin p
  PROVE  InStep(s, {}, s, p)
<1>1. DOMAIN s \subseteq Nat \ {0}
  BY LenProperties
<1>2. WrittenOf(s, {}) = DOMAIN s
  BY DEF WrittenOf
<1>3. {i \in StandingOf(s, p) : i > 0} = DOMAIN s
  <2>1. StandingOf(s, p) = DOMAIN s
    BY DEF StandingOf
  <2>2. \A i \in DOMAIN s : i > 0
    BY <1>1
  <2> QED
    BY <2>1, <2>2
<1>4. 0 \in Cuts({}, s)
  BY DEF Cuts
<1> QED
  BY <1>2, <1>3, <1>4 DEF InStep, Matches

(* A summary that was not written: the whole log is behind the times.      *)
LEMMA SummaryInMemory ==
  ASSUME NEW r \in Seq(Entry), NEW p, NEW e, e.kind = "compact", IsInjective(r)
  PROVE  InStep(<<e>>, {e}, r, p)
<1>1. Len(r) \in Nat /\ DOMAIN r = 1..Len(r)
  BY LenProperties
<1>2. WrittenOf(<<e>>, {e}) = {}
  BY DEF WrittenOf
<1>3. {i \in StandingOf(r, p) : i > Len(r)} = {}
  BY <1>1 DEF StandingOf
<1>4. Len(r) \in Cuts({e}, r)
  BY <1>1 DEF Cuts
<1>5. InOrder(<<e>>, {}) = InOrder(r, {})
  BY DEF InOrder
<1>6. IsInjective(<<e>>)
  BY DEF IsInjective
<1> QED
  BY <1>2, <1>3, <1>4, <1>5, <1>6 DEF InStep, Matches

(* A prompt is known by its turn and its step.                             *)
LEMMA PromptByName ==
  ASSUME NEW x \in Entry, NEW e \in Entry, e.kind = "user"
  PROVE  x = e <=> x.kind = "user" /\ x.turn = e.turn /\ x.step = e.step
<1>1. /\ x = [kind |-> x.kind, turn |-> x.turn, step |-> x.step]
      /\ e = [kind |-> e.kind, turn |-> e.turn, step |-> e.step]
  BY DEF Entry
<1> QED
  BY <1>1

(* The prompt at the end of memory is taken back.                          *)
LEMMA PromptTakenBack ==
  ASSUME NEW m \in Seq(Entry), NEW r \in Seq(Entry), NEW u, NEW p,
         InStep(m, u, r, p), m # <<>>, m[Len(m)].kind = "user"
  PROVE  InStep(Front(m), u, r, p \cup {<<m[Len(m)].turn, m[Len(m)].step>>})
<1> DEFINE front == Front(m)
           e == m[Len(m)]
           q == p \cup {<<e.turn, e.step>>}
<1>1. /\ DOMAIN m = 1..Len(m) /\ Len(m) \in Nat \ {0} /\ e \in Entry /\ e.kind = "user"
      /\ DOMAIN r = 1..Len(r) /\ Len(r) \in Nat
      /\ \A i \in 1..Len(r) : r[i] \in Entry
  BY LenProperties, EmptySeq, ElementOfSeq
<1>2. DOMAIN front = 1..(Len(m) - 1) /\ \A i \in 1..(Len(m) - 1) : front[i] = m[i]
  <2>1. \A i \in 1..(Len(m) - 1) : m[i] \in Entry
    BY <1>1, ElementOfSeq
  <2>2. front = SubSeq(m, 1, Len(m) - 1)
    BY DEF Front
  <2>3. /\ front \in Seq(Entry) /\ Len(front) = Len(m) - 1
        /\ \A i \in 1..(Len(m) - 1) : front[i] = m[i]
    BY <1>1, <2>1, <2>2, SubSeqProperties
  <2> HIDE DEF front
  <2> QED
    BY <2>3, LenProperties
<1>3. PICK cut \in Cuts(u, r) : Matches(m, u, r, p, cut)
  BY DEF InStep
<1> DEFINE s == {i \in StandingOf(r, p) : i > cut}
           w == WrittenOf(m, u)
<1>4. e = m[Len(m)] /\ q = p \cup {<<e.turn, e.step>>}
  OBVIOUS
<1> HIDE DEF front, e, q
<1>5. \A i \in 1..(Len(m) - 1) : m[i] # e
  BY <1>1, <1>4 DEF InStep, IsInjective
<1>6. WrittenOf(front, u) = {i \in w : m[i] # e}
  BY <1>1, <1>2, <1>4, <1>5 DEF WrittenOf
<1>7. \A i \in 1..Len(r) :
        (r[i].kind = "user" => <<r[i].turn, r[i].step>> \notin q) <=>
          (r[i].kind = "user" => <<r[i].turn, r[i].step>> \notin p) /\ r[i] # e
  <2>1. ASSUME NEW i \in 1..Len(r)
        PROVE  r[i] = e <=> r[i].kind = "user" /\ r[i].turn = e.turn /\ r[i].step = e.step
    BY <1>1, PromptByName
  <2> QED
    BY <1>4, <2>1
<1>8. {i \in StandingOf(r, q) : i > cut} = {i \in s : r[i] # e}
  BY <1>1, <1>7 DEF StandingOf
<1>9. w \in SUBSET Nat /\ s \in SUBSET Nat /\ InOrder(m, w) = InOrder(r, s)
  BY <1>1, <1>3 DEF WrittenOf, StandingOf, Matches
<1>10. InOrder(front, {i \in w : m[i] # e}) = InOrder(m, {i \in w : m[i] # e})
  <2>1. \A i \in {j \in w : m[j] # e} : front[i] = m[i]
    BY <1>1, <1>2, <1>4 DEF WrittenOf
  <2>2. {i \in w : m[i] # e} \in SUBSET Nat
    BY <1>9
  <2> HIDE DEF w
  <2> QED
    BY <2>1, <2>2, InOrderLocal
<1> HIDE DEF s, w
<1>11. InOrder(m, {i \in w : m[i] # e}) = InOrder(r, {i \in s : r[i] # e})
  <2>1. PICK w1 : w1 = {i \in w : m[i] # e}
    OBVIOUS
  <2>2. PICK s1 : s1 = {i \in s : r[i] # e}
    OBVIOUS
  <2>3. \A x : x \in InOrder(m, w1) <=> x \in InOrder(m, w) /\ x[1] # e /\ x[2] # e
    BY <1>9, <2>1, InOrderWithout
  <2>4. \A x : x \in InOrder(r, s1) <=> x \in InOrder(r, s) /\ x[1] # e /\ x[2] # e
    BY <1>9, <2>2, InOrderWithout
  <2>5. InOrder(m, w1) = InOrder(r, s1)
    BY <1>9, <2>3, <2>4
  <2> QED
    BY <2>1, <2>2, <2>5
<1>12. IsInjective(front)
  BY <1>1, <1>2 DEF InStep, IsInjective
<1>13. InStep(front, u, r, q)
  BY <1>3, <1>6, <1>8, <1>10, <1>11, <1>12 DEF InStep, Matches
<1> QED
  BY <1>13 DEF front, e, q

(* What a resume loads grows with the log, and starts anew with a summary. *)
LEMMA ResumeGrows ==
  ASSUME NEW l \in Seq(Entry), NEW e \in Entry, HasLastCompact(l)
  PROVE  /\ e.kind = "compact" => Resume(Append(l, e)) = <<e>>
         /\ e.kind # "compact" => Resume(Append(l, e)) = Append(Resume(l), e)
<1> DEFINE longer == Append(l, e)
<1>1. /\ longer \in Seq(Entry) /\ Len(longer) = Len(l) + 1
      /\ longer[Len(l) + 1] = e /\ \A i \in 1..Len(l) : longer[i] = l[i]
      /\ DOMAIN longer = 1..(Len(l) + 1) /\ DOMAIN l = 1..Len(l) /\ Len(l) \in Nat
  BY AppendProperties, LenProperties
<1>2. longer = Append(l, e)
  OBVIOUS
<1> HIDE DEF longer
<1>3. ASSUME e.kind = "compact" PROVE Resume(longer) = <<e>>
  <2> DEFINE p == CHOOSE i \in Positions(longer, "compact") :
                    \A j \in Positions(longer, "compact") : j <= i
  <2>1. Len(l) + 1 \in Positions(longer, "compact")
        /\ \A j \in Positions(longer, "compact") : j \in 1..(Len(l) + 1)
    BY <1>1, <1>3 DEF Positions
  <2>2. p \in Positions(longer, "compact") /\ Len(l) + 1 <= p
    BY <1>1, <2>1
  <2>3. Resume(longer) = SubSeq(longer, p, Len(longer))
    BY <2>1 DEF Resume
  <2> HIDE DEF p
  <2>4. p = Len(l) + 1
    BY <1>1, <2>1, <2>2
  <2> DEFINE rest == SubSeq(longer, Len(l) + 1, Len(l) + 1)
  <2>5. rest \in Seq(Entry) /\ Len(rest) = 1 /\ rest[1] = e
    BY <1>1, SubSeqProperties
  <2>6. Resume(longer) = rest
    BY <1>1, <2>3, <2>4
  <2> HIDE DEF rest
  <2>7. rest = <<e>>
    <3>1. <<e>> \in Seq(Entry) /\ Len(<<e>>) = 1 /\ <<e>>[1] = e
      OBVIOUS
    <3> QED
      BY <2>5, <3>1, SeqEqual
  <2> QED
    BY <2>6, <2>7
<1>4. ASSUME e.kind # "compact" PROVE Resume(longer) = Append(Resume(l), e)
  <2>1. Positions(longer, "compact") = Positions(l, "compact")
    BY <1>1, <1>4 DEF Positions
  <2>2. CASE Positions(l, "compact") = {}
    BY <1>2, <2>1, <2>2 DEF Resume
  <2>3. CASE Positions(l, "compact") # {}
    <3> DEFINE p == CHOOSE i \in Positions(l, "compact") :
                      \A j \in Positions(l, "compact") : j <= i
               rest == SubSeq(l, p, Len(l))
               more == SubSeq(longer, p, Len(longer))
    <3>1. Resume(l) = rest /\ Resume(longer) = more
      BY <2>1, <2>3 DEF Resume
    <3>2. p \in Positions(l, "compact")
      BY <2>3 DEF HasLastCompact
    <3> HIDE DEF p
    <3>3. p \in 1..Len(l)
      BY <1>1, <3>2 DEF Positions
    <3>n. PICK n \in Nat : n = Len(l) - p + 1
      BY <1>1, <3>3
    <3>a. /\ Len(l) = p + n - 1 /\ Len(longer) - p + 1 = n + 1 /\ p \in Nat
          /\ \A i \in 1..n : p + i - 1 \in 1..Len(l)
          /\ p + (n + 1) - 1 = Len(l) + 1
      BY <1>1, <3>3, <3>n
    <3>4. /\ rest \in Seq(Entry) /\ Len(rest) = n
          /\ \A i \in 1..n : rest[i] = l[p + i - 1]
      BY <1>1, <3>3, <3>n, SubSeqProperties
    <3>5. /\ more \in Seq(Entry) /\ Len(more) = n + 1
          /\ \A i \in 1..(n + 1) : more[i] = longer[p + i - 1]
      BY <1>1, <3>3, <3>a, SubSeqProperties
    <3> HIDE DEF rest, more
    <3>6. /\ Append(rest, e) \in Seq(Entry) /\ Len(Append(rest, e)) = n + 1
          /\ Append(rest, e)[n + 1] = e
          /\ \A i \in 1..n : Append(rest, e)[i] = rest[i]
      BY <3>4, AppendProperties
    <3>7. ASSUME NEW i \in 1..(n + 1) PROVE more[i] = Append(rest, e)[i]
      <4>1. CASE i = n + 1
        BY <1>1, <3>a, <3>5, <3>6, <4>1
      <4>2. CASE i \in 1..n
        BY <1>1, <3>a, <3>4, <3>5, <3>6, <4>2
      <4>3. i = n + 1 \/ i \in 1..n
        OBVIOUS
      <4> QED
        BY <4>1, <4>2, <4>3
    <3>8. more = Append(rest, e)
      BY <3>5, <3>6, <3>7, SeqEqual
    <3> QED
      BY <3>1, <3>8
  <2> QED
    BY <2>2, <2>3
<1> QED
  BY <1>3, <1>4 DEF longer

-------------------------------------------------------------------------------
(* The inductive invariant *)

(* Where the worker is, and what it needs there.                           *)
Worker ==
  /\ phase # "idle" => turn \in Turns
  /\ phase \in {"compacting", "compacted"} => failures < CompactAttempts
  /\ dying => phase # "idle" /\ turn \in cancelled

(* The step that runs has put its prompt, in memory and in the log, and    *)
(* nothing came behind it.                                                 *)
Conversation ==
  /\ Answered(messages)
  /\ Answered(log) /\ HasLastCompact(log)
  /\ phase = "running" => EndsInPrompt(messages) /\ EndsInPrompt(log)

(* A turn that has not ended is cancelled, killed, at work or to come; one *)
(* at work or to come has not ended.                                       *)
Ends ==
  \A t \in Turns :
    /\ Len(ends[t]) <= 1
    /\ t > turn => ends[t] = <<>>
    /\ t = turn /\ phase # "idle" => ends[t] = <<>>
    /\ ends[t] = <<>> =>
         \/ t > turn \/ t \in cancelled \cup killed
         \/ t = turn /\ phase # "idle"

Inv == TypeOK /\ Worker /\ Conversation /\ Ends

(* The first state.                                                        *)
LEMMA InitInv == Init => Inv
<1> SUFFICES ASSUME Init PROVE Inv
  OBVIOUS
<1> USE DEF Init
<1>1. TypeOK
  <2>1. <<>> \in Seq(Entry) /\ <<>> \in Seq(Outcomes)
    BY EmptySeq
  <2>2. ends \in [Turns -> Seq(Outcomes)] /\ outcome \in Outcomes
    BY <2>1 DEF Outcomes
  <2>3. messages \in Seq(Entry) /\ log \in Seq(Entry)
    BY <2>1
  <2>4. turn \in 0..MaxTurns /\ failures \in 0..CompactAttempts /\ commands \in 0..MaxCommands
    OBVIOUS
  <2>5. unlogged \subseteq Entry /\ popped \subseteq Turns \X {1, 2}
        /\ cancelled \subseteq Turns /\ killed \subseteq Turns
    OBVIOUS
  <2> QED
    BY <2>2, <2>3, <2>4, <2>5 DEF TypeOK
<1>2. Worker /\ Conversation
  BY EmptyConversation DEF Worker, Conversation
<1>3. Ends
  BY DEF Ends, Turns
<1> QED
  BY <1>1, <1>2, <1>3 DEF Inv

(* The summary alone separates nothing.                                    *)
LEMMA SummaryAlone ==
  ASSUME turn \in 0..MaxTurns, step \in {1, 2}
  PROVE  <<Current("compact")>> \in Seq(Entry) /\ Answered(<<Current("compact")>>)
<1>1. Append(<<>>, Current("compact")) = <<Current("compact")>>
  OBVIOUS
<1>2. Current("compact") \in Entry /\ Current("compact").kind # "assistant"
  BY CurrentEntry
<1> QED
  BY <1>1, <1>2, EmptyConversation, Joined

-------------------------------------------------------------------------------
(* What a step may do to memory and to the log *)

Put(kind) ==
  \/ log' = Append(log, Current(kind)) /\ unlogged' = unlogged
  \/ log' = log /\ unlogged' = unlogged \cup {Current(kind)}

Prompted ==
  /\ phase = "starting" /\ phase' \in {"running", "failing"}
  /\ messages' = Append(messages, Current("user"))
  /\ Put("user") /\ popped' = popped
  /\ phase' = "running" => log' = Append(log, Current("user"))
  /\ turn' = turn /\ step' = step

Replied ==
  /\ phase = "running" /\ phase' \in {"rendering", "failing"}
  /\ messages' = Append(messages, Current("assistant"))
  /\ Put("assistant") /\ popped' = popped

Compacted ==
  /\ phase' # "running"
  /\ messages' = <<Current("compact")>>
  /\ \/ log' = Append(log, Current("compact")) /\ unlogged' = {}
     \/ log' = log /\ unlogged' = {Current("compact")}
  /\ popped' = popped

Kept ==
  /\ messages' = messages /\ log' = log /\ unlogged' = unlogged /\ popped' = popped
  /\ phase' = "running" => phase = "running" /\ turn' = turn /\ step' = step

TookBack ==
  /\ phase = "running" /\ phase' \in {"failing", "stopping"}
  /\ messages' = Front(messages) /\ popped' = popped \cup {<<turn, step>>}
  /\ log' = log /\ unlogged' = unlogged

Reopened ==
  /\ phase' = "idle"
  /\ \/ messages' = <<>> /\ log' = <<>>
     \/ messages' = Resume(log) /\ log' = log
  /\ unlogged' = {} /\ popped' = {}

(* Every step does one of these.                                           *)
LEMMA ConversationSteps ==
  ASSUME Inv, [Next]_vars
  PROVE  Prompted \/ Replied \/ Compacted \/ Kept \/ TookBack \/ Reopened
<1> USE DEF workerVars, cancelVars, sessionVars, WriteFails
<1>1. CASE CompactApplies \/ CompactCommand
  BY <1>1 DEF CompactApplies, CompactCommand, Summarise, SummariseUnlogged, Compacted
<1>2. CASE CompactSucceeds \/ CompactFails \/ StepRefused
  BY <1>2 DEF CompactSucceeds, CompactFails, StepRefused, Kept
<1>3. CASE StepBegins \/ PromptNotLogged
  BY <1>3 DEF StepBegins, PromptNotLogged, Prompted, Put
<1>4. CASE StepAnswers \/ AnswerNotLogged
  BY <1>4 DEF StepAnswers, AnswerNotLogged, Replied, Put
<1>5. CASE StepRunsOut \/ StepRendered \/ ErrorRendered
  BY <1>5 DEF StepRunsOut, StepRendered, ErrorRendered, Kept
<1>6. CASE StepFails \/ CancelArrives
  <2>1. phase = "running" => Last(messages).kind = "user"
    BY DEF Inv, Conversation, EndsInPrompt, Last, Current
  <2> QED
    BY <1>6, <2>1 DEF StepFails, CancelArrives, TakeBack, TookBack, Kept
<1>7. CASE TurnEnds \/ MarkInterrupted \/ InterruptedTurnEnds
  BY <1>7 DEF TurnEnds, MarkInterrupted, InterruptedTurnEnds, EndTurn, Kept
<1>8. CASE Submit \/ SubmitWhenFull
  BY <1>8 DEF Submit, SubmitWhenFull, NewTurn, Kept
<1>9. CASE Escape \/ DenyPermission
  BY <1>9 DEF Escape, DenyPermission, RequestCancel, Kept
<1>10. CASE ClearCommand \/ Restart
  BY <1>10 DEF ClearCommand, Restart, NewLog, Reopened, Inv, Worker
<1>11. CASE UNCHANGED vars
  BY <1>11 DEF vars, Kept
<1> QED
  BY <1>1, <1>2, <1>3, <1>4, <1>5, <1>6, <1>7, <1>8, <1>9, <1>10, <1>11
     DEF Next, WorkerStep, UserStep

(* Answers stay behind their prompts.                                      *)
LEMMA ConversationInv ==
  ASSUME Inv, [Next]_vars
  PROVE  Conversation' /\ messages' \in Seq(Entry) /\ log' \in Seq(Entry)
<1>1. /\ messages \in Seq(Entry) /\ log \in Seq(Entry)
      /\ Answered(messages) /\ Answered(log) /\ HasLastCompact(log)
      /\ phase = "running" => EndsInPrompt(messages) /\ EndsInPrompt(log)
      /\ turn \in 0..MaxTurns /\ step \in {1, 2}
  BY DEF Inv, TypeOK, Conversation
<1>2. SUFFICES /\ messages' \in Seq(Entry) /\ log' \in Seq(Entry)
               /\ Answered(messages') /\ Answered(log') /\ HasLastCompact(log')
               /\ phase' = "running" => EndsInPrompt(messages)' /\ EndsInPrompt(log)'
  BY DEF Conversation
<1>3. /\ Current("user") \in Entry /\ Current("user").kind # "assistant"
      /\ Current("compact") \in Entry /\ Current("compact").kind # "assistant"
  BY <1>1, CurrentEntry
<1>4. CASE Prompted
  <2> USE <1>4 DEF Prompted, Put
  <2>1. /\ messages' \in Seq(Entry) /\ Answered(messages')
        /\ messages' # <<>> /\ messages'[Len(messages')] = Current("user")
    BY <1>1, <1>3, Joined
  <2>2. CASE log' = log
    <3>1. phase' # "running"
      <4>1. DOMAIN log # DOMAIN Append(log, Current("user"))
        BY <1>1, <1>3, AppendProperties, LenProperties
      <4> QED
        BY <2>2, <4>1
    <3> QED
      BY <1>1, <2>1, <2>2, <3>1
  <2>3. CASE log' = Append(log, Current("user"))
    <3>1. /\ log' \in Seq(Entry) /\ Answered(log') /\ HasLastCompact(log')
          /\ log' # <<>> /\ log'[Len(log')] = Current("user")
      BY <1>1, <1>3, <2>3, Joined
    <3>2. Current("user")' = Current("user")
      BY DEF Current
    <3> QED
      BY <2>1, <3>1, <3>2 DEF EndsInPrompt
  <2> QED
    BY <2>2, <2>3
<1>5. CASE Replied
  BY <1>1, <1>5, AnswerJoined DEF Replied, Put
<1>6. CASE Compacted
  BY <1>1, <1>3, <1>6, Joined, SummaryAlone DEF Compacted
<1>7. CASE Kept
  BY <1>1, <1>7 DEF Kept, EndsInPrompt, Current
<1>8. CASE TookBack
  BY <1>1, <1>8, TakenBack DEF TookBack, EndsInPrompt
<1>9. CASE Reopened
  BY <1>1, <1>9, EmptyConversation, Resumed DEF Reopened
<1> QED
  BY <1>4, <1>5, <1>6, <1>7, <1>8, <1>9, ConversationSteps

(* A turn in progress is one of the turns.                                 *)
LEMMA WorkerInv ==
  ASSUME Inv, [Next]_vars
  PROVE  /\ Worker' /\ turn' \in 0..MaxTurns
         /\ cancelled' \subseteq Turns
         /\ killed' \subseteq Turns
         /\ failures' \in 0..CompactAttempts
<1> USE DEF workerVars, cancelVars
<1>1. Worker /\ turn \in 0..MaxTurns /\ failures \in 0..CompactAttempts
      /\ cancelled \subseteq Turns /\ killed \subseteq Turns
  BY DEF Inv, TypeOK
<1> USE <1>1 DEF Worker
<1>2. CASE CompactApplies \/ CompactCommand
  BY <1>2 DEF CompactApplies, CompactCommand
<1>3. CASE CompactSucceeds \/ CompactFails \/ StepRefused
  BY <1>3 DEF CompactSucceeds, CompactFails, StepRefused
<1>4. CASE StepBegins \/ PromptNotLogged
  BY <1>4 DEF StepBegins, PromptNotLogged
<1>5. CASE StepAnswers \/ AnswerNotLogged
  BY <1>5 DEF StepAnswers, AnswerNotLogged
<1>6. CASE StepRunsOut \/ StepRendered \/ ErrorRendered
  BY <1>6 DEF StepRunsOut, StepRendered, ErrorRendered
<1>7. CASE StepFails \/ CancelArrives
  BY <1>7 DEF StepFails, CancelArrives
<1>8. CASE TurnEnds \/ MarkInterrupted \/ InterruptedTurnEnds
  BY <1>8 DEF TurnEnds, MarkInterrupted, InterruptedTurnEnds, EndTurn
<1>9. CASE Submit \/ SubmitWhenFull
  <2>1. turn' \in Turns /\ turn' \in 0..MaxTurns
    BY <1>9 DEF Submit, SubmitWhenFull, NewTurn, Turns
  <2>2. UNCHANGED <<failures, killed, dying, cancelled>> /\ ~dying
    BY <1>9 DEF Submit, SubmitWhenFull, NewTurn
  <2>3. phase' = "starting" \/ (phase' = "compacting" /\ failures < CompactAttempts)
    BY <1>9 DEF Submit, SubmitWhenFull
  <2> QED
    BY <2>1, <2>2, <2>3
<1>10. CASE Escape \/ DenyPermission
  BY <1>10 DEF Escape, DenyPermission, RequestCancel
<1>11. CASE ClearCommand \/ Restart
  BY <1>11 DEF ClearCommand, Restart
<1>12. CASE UNCHANGED vars
  BY <1>12 DEF vars
<1> QED
  BY <1>2, <1>3, <1>4, <1>5, <1>6, <1>7, <1>8, <1>9, <1>10, <1>11, <1>12
     DEF Next, WorkerStep, UserStep

(* A turn gets its one ending when its worker leaves.                      *)
LEMMA EndsInv ==
  ASSUME Inv, [Next]_vars
  PROVE  Ends' /\ ends' \in [Turns -> Seq(Outcomes)]
<1> USE DEF workerVars, cancelVars
<1>1. /\ Ends /\ ends \in [Turns -> Seq(Outcomes)]
      /\ turn \in 0..MaxTurns /\ Turns = 1..MaxTurns
      /\ phase # "idle" => turn \in Turns
      /\ dying => phase # "idle" /\ turn \in cancelled
  BY DEF Inv, TypeOK, Worker, Turns
<1>2. ASSUME NEW o \in Outcomes, EndTurn(o), phase # "idle", UNCHANGED <<turn, cancelled, killed>>
      PROVE  Ends' /\ ends' \in [Turns -> Seq(Outcomes)]
  <2>1. ends[turn] = <<>>
    BY <1>1, <1>2 DEF Ends
  <2>2. Append(ends[turn], o) \in Seq(Outcomes) /\ Len(Append(ends[turn], o)) = 1
        /\ Append(ends[turn], o) # <<>>
    BY <2>1, EmptySeq, AppendProperties
  <2>3. ends' = [ends EXCEPT ![turn] = Append(ends[turn], o)] /\ phase' = "idle"
    BY <1>2 DEF EndTurn
  <2> HIDE DEF EndTurn
  <2> QED
    BY <1>1, <1>2, <2>2, <2>3 DEF Ends
<1>3. CASE TurnEnds \/ InterruptedTurnEnds
  BY <1>2, <1>3 DEF TurnEnds, InterruptedTurnEnds, Inv, TypeOK
<1> USE <1>1 DEF Ends
<1>4. CASE CompactApplies \/ CompactCommand
  BY <1>4 DEF CompactApplies, CompactCommand, SummariseUnlogged, WriteFails
<1>5. CASE CompactSucceeds \/ CompactFails \/ StepRefused
  BY <1>5 DEF CompactSucceeds, CompactFails, StepRefused
<1>6. CASE StepBegins \/ PromptNotLogged
  BY <1>6 DEF StepBegins, PromptNotLogged
<1>7. CASE StepAnswers \/ AnswerNotLogged
  BY <1>7 DEF StepAnswers, AnswerNotLogged
<1>8. CASE StepRunsOut \/ StepRendered \/ ErrorRendered
  BY <1>8 DEF StepRunsOut, StepRendered, ErrorRendered
<1>9. CASE StepFails \/ CancelArrives
  BY <1>9 DEF StepFails, CancelArrives
<1>10. CASE MarkInterrupted
  BY <1>10 DEF MarkInterrupted
<1>11. CASE Submit \/ SubmitWhenFull
  BY <1>11 DEF Submit, SubmitWhenFull, NewTurn
<1>12. CASE Escape \/ DenyPermission
  BY <1>12 DEF Escape, DenyPermission, RequestCancel
<1>13. CASE ClearCommand \/ Restart
  BY <1>13 DEF ClearCommand, Restart
<1>14. CASE UNCHANGED vars
  BY <1>14 DEF vars
<1> QED
  BY <1>3, <1>4, <1>5, <1>6, <1>7, <1>8, <1>9, <1>10, <1>11, <1>12, <1>13, <1>14
     DEF Next, WorkerStep, UserStep

(* The rest of the variables stay in their types.                          *)
LEMMA TypesInv ==
  ASSUME Inv, [Next]_vars
  PROVE  /\ phase' \in {"idle", "compacting", "compacted", "starting", "running", "rendering",
                        "failing", "stopping", "marking"}
         /\ step' \in {1, 2} /\ exhausted' \in BOOLEAN /\ workerCancelled' \in BOOLEAN
         /\ dying' \in BOOLEAN /\ outcome' \in Outcomes /\ torn' \in BOOLEAN
         /\ unlogged' \subseteq Entry /\ commands' \in 0..MaxCommands
         /\ popped' \subseteq Turns \X {1, 2}
<1> USE DEF workerVars, cancelVars, sessionVars, Inv, TypeOK
<1>1. \A kind \in {"user", "assistant", "compact"} : Current(kind) \in Entry
  BY CurrentEntry
<1>2. phase # "idle" => <<turn, step>> \in Turns \X {1, 2}
  BY DEF Worker
<1>3. {"ok", "max_iterations", "error", "interrupted"} \subseteq Outcomes
  BY DEF Outcomes
<1> HIDE DEF Outcomes
<1>fits. ASSUME commands < MaxCommands PROVE commands + 1 \in 0..MaxCommands
  BY <1>fits
<1>4. WriteFails => torn' \in BOOLEAN /\ commands' \in 0..MaxCommands
  <2>1. ASSUME torn' \in {torn, TRUE} PROVE torn' \in BOOLEAN
    BY <2>1, Zenon
  <2>3. WriteFails => torn' \in {torn, TRUE} /\ commands < MaxCommands /\ commands' = commands + 1
    BY DEF WriteFails
  <2> QED
    BY <1>fits, <2>1, <2>3, Zenon
<1>5. CASE CompactApplies \/ CompactCommand
  <2>1. unlogged' \subseteq Entry
    BY <1>1, <1>5 DEF CompactApplies, CompactCommand, Summarise, SummariseUnlogged
  <2>2. torn' \in BOOLEAN /\ commands' \in 0..MaxCommands /\ popped' = popped
    BY <1>4, <1>5 DEF CompactApplies, CompactCommand, Summarise, SummariseUnlogged
  <2> QED
    BY <1>5, <2>1, <2>2 DEF CompactApplies, CompactCommand
<1>6. CASE CompactSucceeds \/ CompactFails \/ StepRefused
  BY <1>6 DEF CompactSucceeds, CompactFails, StepRefused
<1>7. CASE StepBegins
  BY <1>7 DEF StepBegins
<1>8. CASE PromptNotLogged \/ AnswerNotLogged
  <2>1. unlogged' \subseteq Entry
    BY <1>1, <1>8 DEF PromptNotLogged, AnswerNotLogged
  <2> QED
    BY <1>4, <1>8, <2>1 DEF PromptNotLogged, AnswerNotLogged
<1>9. CASE StepAnswers \/ StepRunsOut \/ StepRendered \/ ErrorRendered
  BY <1>3, <1>9 DEF StepAnswers, StepRunsOut, StepRendered, ErrorRendered
<1>10. CASE StepFails \/ CancelArrives
  BY <1>2, <1>10 DEF StepFails, CancelArrives, TakeBack
<1>11. CASE TurnEnds \/ MarkInterrupted \/ InterruptedTurnEnds
  BY <1>3, <1>11 DEF TurnEnds, MarkInterrupted, InterruptedTurnEnds, EndTurn
<1>12. CASE Submit \/ SubmitWhenFull
  BY <1>3, <1>12 DEF Submit, SubmitWhenFull, NewTurn
<1>13. CASE Escape \/ DenyPermission
  BY <1>13 DEF Escape, DenyPermission, RequestCancel
<1>14. CASE ClearCommand
  <2>1. commands < MaxCommands /\ commands' = commands + 1
    BY <1>14 DEF ClearCommand
  <2>2. commands' \in 0..MaxCommands
    BY <1>fits, <2>1, Zenon
  <2> QED
    BY <1>14, <2>2 DEF ClearCommand, NewLog
<1>15. CASE Restart
  <2>1. torn' \in BOOLEAN /\ unlogged' = {} /\ popped' = {}
    BY <1>15 DEF Restart, NewLog
  <2>2. commands < MaxCommands /\ commands' = commands + 1
    BY <1>15 DEF Restart
  <2>3. commands' \in 0..MaxCommands
    BY <1>fits, <2>2, Zenon
  <2> QED
    BY <1>15, <2>1, <2>3 DEF Restart
<1>16. CASE UNCHANGED vars
  BY <1>16 DEF vars
<1> QED
  BY <1>5, <1>6, <1>7, <1>8, <1>9, <1>10, <1>11, <1>12, <1>13, <1>14, <1>15, <1>16
     DEF Next, WorkerStep, UserStep

(* Every step.                                                             *)
LEMMA NextInv == Inv /\ [Next]_vars => Inv'
<1> SUFFICES ASSUME Inv, [Next]_vars PROVE Inv'
  OBVIOUS
<1>1. TypeOK'
  BY TypesInv, WorkerInv, EndsInv, ConversationInv DEF TypeOK
<1> QED
  BY <1>1, WorkerInv, EndsInv, ConversationInv DEF Inv

-------------------------------------------------------------------------------
(* Memory and log stay in step *)

Beginning == {"compacting", "compacted", "starting"}

Entries == Range(messages) \cup Range(Resume(log)) \cup unlogged

Past(t, s) == t < turn \/ (t = turn /\ s <= step)

(* Steps are named in the order they come, and the entry a step is about   *)
(* to put is not there yet: without it, a name that comes a second time    *)
(* could join twice, or be hidden by a prompt taken back before.           *)
Fresh ==
  /\ \A e \in Entries : Past(e.turn, e.step)
  /\ \A p \in popped : Past(p[1], p[2])
  /\ phase \in Beginning =>
       /\ \A e \in Entries : e.turn = turn /\ e.step = step => e.kind = "compact"
       /\ <<turn, step>> \notin popped
  /\ phase = "running" => Current("assistant") \notin Entries

(* Turns and their steps only advance, and a step begins once.             *)
LEMMA ClockSteps ==
  ASSUME Inv, [Next]_vars
  PROVE  \/ turn' = turn /\ step' = step /\ (phase' \in Beginning => phase \in Beginning)
         \/ /\ messages' = messages /\ log' = log /\ unlogged' = unlogged /\ popped' = popped
            /\ phase' # "running"
            /\ turn' > turn \/ (turn' = turn /\ step' > step)
<1> USE DEF workerVars, sessionVars, Beginning
<1>1. CASE CompactApplies \/ CompactCommand \/ CompactSucceeds \/ CompactFails
  BY <1>1 DEF CompactApplies, CompactCommand, CompactSucceeds, CompactFails
<1>2. CASE StepBegins \/ PromptNotLogged \/ StepRefused
  BY <1>2 DEF StepBegins, PromptNotLogged, StepRefused
<1>3. CASE StepAnswers \/ AnswerNotLogged \/ StepRunsOut \/ StepFails
  BY <1>3 DEF StepAnswers, AnswerNotLogged, StepRunsOut, StepFails
<1>4. CASE StepRendered
  BY <1>4 DEF StepRendered
<1>5. CASE ErrorRendered \/ TurnEnds \/ MarkInterrupted \/ InterruptedTurnEnds
  BY <1>5 DEF ErrorRendered, TurnEnds, MarkInterrupted, InterruptedTurnEnds, EndTurn
<1>6. CASE CancelArrives
  BY <1>6 DEF CancelArrives
<1>7. CASE Submit \/ SubmitWhenFull
  <2>1. turn \in Nat
    BY DEF Inv, TypeOK
  <2> QED
    BY <1>7, <2>1 DEF Submit, SubmitWhenFull, NewTurn
<1>8. CASE Escape \/ DenyPermission
  BY <1>8 DEF Escape, DenyPermission, RequestCancel
<1>9. CASE ClearCommand \/ Restart
  BY <1>9 DEF ClearCommand, Restart
<1>10. CASE UNCHANGED vars
  BY <1>10 DEF vars
<1> QED
  BY <1>1, <1>2, <1>3, <1>4, <1>5, <1>6, <1>7, <1>8, <1>9, <1>10 DEF Next, WorkerStep, UserStep

(* The entries of a longer conversation.                                   *)
LEMMA RangeAppend ==
  ASSUME NEW l \in Seq(Entry), NEW e \in Entry
  PROVE  Range(Append(l, e)) = Range(l) \cup {e}
<1>1. /\ Append(l, e)[Len(l) + 1] = e /\ \A i \in 1..Len(l) : Append(l, e)[i] = l[i]
      /\ DOMAIN Append(l, e) = 1..(Len(l) + 1) /\ DOMAIN l = 1..Len(l) /\ Len(l) \in Nat
  BY AppendProperties, LenProperties
<1> QED
  BY <1>1 DEF Range

(* The entries of a shorter one.                                           *)
LEMMA RangeFront ==
  ASSUME NEW l \in Seq(Entry), l # <<>>
  PROVE  Range(Front(l)) \subseteq Range(l)
<1>1. DOMAIN l = 1..Len(l) /\ Len(l) \in Nat \ {0}
  BY LenProperties, EmptySeq
<1>2. \A i \in 1..(Len(l) - 1) : l[i] \in Entry
  BY <1>1, ElementOfSeq
<1> DEFINE front == SubSeq(l, 1, Len(l) - 1)
<1>3. /\ front \in Seq(Entry) /\ Len(front) = Len(l) - 1
      /\ \A i \in 1..(Len(l) - 1) : front[i] = l[i]
  BY <1>1, <1>2, SubSeqProperties
<1>4. Front(l) = front
  BY DEF Front
<1> HIDE DEF front
<1>5. DOMAIN front = 1..(Len(l) - 1)
  BY <1>3, LenProperties
<1> QED
  BY <1>1, <1>3, <1>4, <1>5 DEF Range

(* Nothing is in memory or in what is loaded but what was there, and the   *)
(* entry that the step puts.                                               *)
LEMMA EntriesOfStep ==
  ASSUME Inv, [Next]_vars
  PROVE  \/ Entries' \subseteq Entries \cup {Current("user")} /\ Prompted
         \/ Entries' \subseteq Entries \cup {Current("assistant")} /\ Replied
         \/ Entries' \subseteq Entries \cup {Current("compact")} /\ Compacted
         \/ Entries' \subseteq Entries /\ (Kept \/ TookBack \/ Reopened)
<1>1. /\ messages \in Seq(Entry) /\ log \in Seq(Entry)
      /\ Answered(log) /\ HasLastCompact(log)
      /\ phase = "running" => messages # <<>>
      /\ turn \in 0..MaxTurns /\ step \in {1, 2}
  BY DEF Inv, TypeOK, Conversation, EndsInPrompt
<1>2. Resume(log) \in Seq(Entry)
  BY <1>1, Resumed
<1>3. \A kind \in {"user", "assistant", "compact"} :
        Current(kind) \in Entry /\ Current(kind).kind = kind
  BY <1>1, CurrentEntry
<1>4. ASSUME NEW kind \in {"user", "assistant"}, Put(kind),
             messages' = Append(messages, Current(kind))
      PROVE  Entries' \subseteq Entries \cup {Current(kind)}
  <2>1. Current(kind) \in Entry /\ Current(kind).kind # "compact"
    BY <1>3
  <2>2. Range(messages') = Range(messages) \cup {Current(kind)}
    BY <1>1, <1>4, <2>1, RangeAppend
  <2>3. CASE log' = Append(log, Current(kind)) /\ unlogged' = unlogged
    <3>1. Resume(log') = Append(Resume(log), Current(kind))
      BY <1>1, <2>1, <2>3, ResumeGrows
    <3>2. Range(Resume(log')) = Range(Resume(log)) \cup {Current(kind)}
      BY <1>2, <2>1, <3>1, RangeAppend
    <3> QED
      BY <2>2, <2>3, <3>2 DEF Entries
  <2>4. CASE log' = log /\ unlogged' = unlogged \cup {Current(kind)}
    BY <2>2, <2>4 DEF Entries
  <2> QED
    BY <1>4, <2>3, <2>4 DEF Put
<1>5. CASE Prompted \/ Replied
  BY <1>4, <1>5 DEF Prompted, Replied
<1>6. CASE Compacted
  <2>1. PICK c : c = Current("compact")
    OBVIOUS
  <2>2. Range(<<c>>) = {c} /\ c \in Entry /\ c.kind = "compact"
    BY <1>3, <2>1 DEF Range
  <2>3. messages' = <<c>>
    BY <1>6, <2>1 DEF Compacted
  <2>4. CASE log' = Append(log, c) /\ unlogged' = {}
    <3>1. Resume(log') = <<c>>
      BY <1>1, <2>2, <2>4, ResumeGrows
    <3> QED
      BY <1>6, <2>1, <2>2, <2>3, <2>4, <3>1 DEF Entries
  <2>5. CASE log' = log /\ unlogged' = {c}
    BY <1>6, <2>1, <2>2, <2>3, <2>5 DEF Entries
  <2> QED
    BY <1>6, <2>1, <2>4, <2>5 DEF Compacted
<1>7. CASE Kept
  BY <1>7 DEF Kept, Entries
<1>8. CASE TookBack
  <2>1. Range(messages') \subseteq Range(messages)
    BY <1>1, <1>8, RangeFront DEF TookBack
  <2> QED
    BY <1>8, <2>1 DEF TookBack, Entries
<1>9. CASE Reopened
  <2>1. CASE messages' = <<>> /\ log' = <<>>
    <3>1. Positions(<<>>, "compact") = {} /\ Range(<<>>) = {}
      BY EmptySeq DEF Positions, Range
    <3>2. Resume(<<>>) = <<>>
      BY <3>1 DEF Resume
    <3> QED
      BY <1>9, <2>1, <3>1, <3>2 DEF Reopened, Entries
  <2>2. CASE messages' = Resume(log) /\ log' = log
    BY <1>9, <2>2 DEF Reopened, Entries
  <2> QED
    BY <1>9, <2>1, <2>2 DEF Reopened
<1> QED
  BY <1>5, <1>6, <1>7, <1>8, <1>9, <1>4, ConversationSteps DEF Prompted, Replied

(* The first state.                                                        *)
LEMMA InitFresh == Init => Fresh /\ MemoryIsLogMinusTakenBack
<1> SUFFICES ASSUME Init PROVE Fresh /\ MemoryIsLogMinusTakenBack
  OBVIOUS
<1>1. messages = <<>> /\ log = <<>> /\ unlogged = {} /\ popped = {} /\ phase = "idle"
  BY DEF Init
<1>2. Positions(<<>>, "compact") = {} /\ Range(<<>>) = {} /\ IsInjective(<<>>)
  BY EmptySeq DEF Positions, Range, IsInjective
<1>3. Resume(<<>>) = <<>>
  BY <1>2 DEF Resume
<1>4. InStep(<<>>, {}, <<>>, {})
  <2>1. <<>> \in Seq(Entry)
    BY EmptySeq
  <2> QED
    BY <1>2, <2>1, SameInStep
<1> QED
  BY <1>1, <1>2, <1>3, <1>4, MemoryInStep DEF Fresh, Entries, Beginning

(* Names stay fresh.                                                       *)
LEMMA FreshInv ==
  ASSUME Inv, Fresh, [Next]_vars
  PROVE  Fresh'
<1>1. /\ turn \in Nat /\ step \in {1, 2}
      /\ turn' \in Nat /\ step' \in {1, 2}
  <2>1. Inv'
    BY NextInv
  <2> QED
    BY <2>1 DEF Inv, TypeOK
<1>2. /\ \A e \in Entries : e.turn \in Nat /\ e.step \in {1, 2}
      /\ \A p \in popped : p[1] \in Nat /\ p[2] \in {1, 2}
  <2>1. messages \in Seq(Entry) /\ Resume(log) \in Seq(Entry) /\ unlogged \subseteq Entry
        /\ popped \subseteq Turns \X {1, 2}
    BY Resumed DEF Inv, TypeOK, Conversation
  <2>2. \A e \in Entry : e.turn \in Nat /\ e.step \in {1, 2}
    BY DEF Entry
  <2>3. Entries \subseteq Entry
    BY <2>1, LenProperties, ElementOfSeq DEF Entries, Range
  <2>4. Turns \subseteq Nat
    BY DEF Turns
  <2> QED
    BY <2>1, <2>2, <2>3, <2>4
<1>3. \A kind : /\ Current(kind).kind = kind
                /\ Current(kind).turn = turn /\ Current(kind).step = step
  BY DEF Current
<1>4. /\ \A e \in Entries : Past(e.turn, e.step)
      /\ \A p \in popped : Past(p[1], p[2])
      /\ phase \in Beginning =>
           /\ \A e \in Entries : e.turn = turn /\ e.step = step => e.kind = "compact"
           /\ <<turn, step>> \notin popped
      /\ phase = "running" => Current("assistant") \notin Entries
  BY DEF Fresh
<1>5. SUFFICES /\ \A e \in Entries' : e.turn < turn' \/ (e.turn = turn' /\ e.step <= step')
               /\ \A p \in popped' : p[1] < turn' \/ (p[1] = turn' /\ p[2] <= step')
               /\ phase' \in Beginning =>
                    /\ \A e \in Entries' : e.turn = turn' /\ e.step = step' => e.kind = "compact"
                    /\ <<turn', step'>> \notin popped'
               /\ phase' = "running" => Current("assistant")' \notin Entries'
  BY DEF Fresh, Past
<1>6. CASE /\ messages' = messages /\ log' = log /\ unlogged' = unlogged /\ popped' = popped
           /\ phase' # "running"
           /\ turn' > turn \/ (turn' = turn /\ step' > step)
  <2>1. Entries' = Entries
    BY <1>6 DEF Entries
  <2>2. \A e \in Entries : e.turn < turn' \/ (e.turn = turn' /\ e.step < step')
    BY <1>1, <1>2, <1>4, <1>6 DEF Past
  <2>3. \A p \in popped : p[1] < turn' \/ (p[1] = turn' /\ p[2] < step')
    BY <1>1, <1>2, <1>4, <1>6 DEF Past
  <2>4. <<turn', step'>> \notin popped
    BY <1>1, <2>3
  <2> QED
    BY <1>1, <1>2, <1>6, <2>1, <2>2, <2>3, <2>4
<1>7. CASE turn' = turn /\ step' = step /\ (phase' \in Beginning => phase \in Beginning)
  <2>1. Current("assistant")' = Current("assistant")
    BY <1>7 DEF Current
  <2>2. CASE Entries' \subseteq Entries \cup {Current("user")} /\ Prompted
    <3>1. /\ phase \in Beginning /\ phase' \notin Beginning /\ popped' = popped
      BY <2>2 DEF Prompted, Beginning
    <3>2. Current("assistant") \notin Entries /\ Current("assistant") # Current("user")
      BY <1>3, <1>4, <3>1
    <3> QED
      BY <1>1, <1>3, <1>4, <1>7, <2>1, <2>2, <3>1, <3>2 DEF Past
  <2>3. CASE Entries' \subseteq Entries \cup {Current("assistant")} /\ Replied
    <3>1. phase' \notin Beginning /\ phase' # "running" /\ popped' = popped
      BY <2>3 DEF Replied, Beginning
    <3> QED
      BY <1>1, <1>3, <1>4, <1>7, <2>3, <3>1 DEF Past
  <2>4. CASE Entries' \subseteq Entries \cup {Current("compact")} /\ Compacted
    <3>1. phase' # "running" /\ popped' = popped
      BY <2>4 DEF Compacted
    <3> QED
      BY <1>1, <1>3, <1>4, <1>7, <2>4, <3>1 DEF Past
  <2>5. CASE Entries' \subseteq Entries /\ Kept
    <3>1. (phase' = "running" => phase = "running") /\ popped' = popped
      BY <2>5 DEF Kept
    <3> QED
      BY <1>4, <1>7, <2>1, <2>5, <3>1 DEF Past
  <2>6. CASE Entries' \subseteq Entries /\ TookBack
    <3>1. phase' \notin Beginning /\ phase' # "running" /\ popped' = popped \cup {<<turn, step>>}
      BY <2>6 DEF TookBack, Beginning
    <3> QED
      BY <1>1, <1>4, <1>7, <2>6, <3>1 DEF Past
  <2>7. CASE Entries' \subseteq Entries /\ Reopened
    <3>1. phase' \notin Beginning /\ phase' # "running" /\ popped' = {}
      BY <2>7 DEF Reopened, Beginning
    <3> QED
      BY <1>4, <1>7, <2>7, <3>1 DEF Past
  <2> QED
    BY <2>2, <2>3, <2>4, <2>5, <2>6, <2>7, EntriesOfStep
<1> QED
  BY <1>6, <1>7, ClockSteps

(* Whatever the step does to the one, it does to the other, or remembers.  *)
LEMMA MemoryInv ==
  ASSUME Inv, Fresh, MemoryIsLogMinusTakenBack, [Next]_vars
  PROVE  MemoryIsLogMinusTakenBack'
<1>1. /\ messages \in Seq(Entry) /\ log \in Seq(Entry)
      /\ Answered(log) /\ HasLastCompact(log)
      /\ turn \in 0..MaxTurns /\ step \in {1, 2}
  BY DEF Inv, TypeOK, Conversation
<1>2. Resume(log) \in Seq(Entry)
  BY <1>1, Resumed
<1>3. \A kind \in {"user", "assistant", "compact"} :
        /\ Current(kind) \in Entry /\ Current(kind).kind = kind
        /\ Current(kind).turn = turn /\ Current(kind).step = step
  BY <1>1, CurrentEntry DEF Current
<1>4. InStep(messages, unlogged, Resume(log), popped)
  BY MemoryInStep
<1>5. SUFFICES InStep(messages', unlogged', Resume(log'), popped')
  <2>1. MemoryIsLogMinusTakenBack' <=> InStep(messages', unlogged', Resume(log'), popped')
    BY DEF MemoryIsLogMinusTakenBack, InStep, Matches, Cuts, WrittenOf, StandingOf,
       Written, Standing
  <2> QED
    BY <2>1
<1>6. ASSUME NEW kind \in {"user", "assistant"}, Put(kind), popped' = popped,
             messages' = Append(messages, Current(kind)), Current(kind) \notin Entries,
             kind = "user" => <<turn, step>> \notin popped
      PROVE  InStep(messages', unlogged', Resume(log'), popped')
  <2>1. PICK e \in Entry : e = Current(kind)
    BY <1>3
  <2>2. /\ e.kind # "compact" /\ e \notin Range(messages) \cup Range(Resume(log)) \cup unlogged
        /\ e.kind = "user" => <<e.turn, e.step>> \notin popped
    BY <1>3, <1>6, <2>1 DEF Entries
  <2>3. CASE log' = Append(log, e) /\ unlogged' = unlogged
    <3>1. Resume(log') = Append(Resume(log), e)
      BY <1>1, <2>2, <2>3, ResumeGrows
    <3>2. InStep(Append(messages, e), unlogged, Append(Resume(log), e), popped)
      BY <1>1, <1>2, <1>4, <2>2, PutInBoth
    <3> QED
      BY <1>6, <2>1, <2>3, <3>1, <3>2
  <2>4. CASE log' = log /\ unlogged' = unlogged \cup {e}
    <3>1. InStep(Append(messages, e), unlogged \cup {e}, Resume(log), popped)
      BY <1>1, <1>2, <1>4, <2>2, PutInMemory
    <3> QED
      BY <1>6, <2>1, <2>4, <3>1
  <2> QED
    BY <1>6, <2>1, <2>3, <2>4 DEF Put
<1>7. CASE Prompted
  <2>1. /\ Put("user") /\ popped' = popped /\ phase \in Beginning
        /\ messages' = Append(messages, Current("user"))
    BY <1>7 DEF Prompted, Beginning
  <2>2. Current("user") \notin Entries /\ <<turn, step>> \notin popped
    BY <1>3, <2>1 DEF Fresh
  <2> QED
    BY <1>6, <2>1, <2>2
<1>8. CASE Replied
  <2>1. /\ Put("assistant") /\ popped' = popped /\ phase = "running"
        /\ messages' = Append(messages, Current("assistant"))
    BY <1>8 DEF Replied
  <2>2. Current("assistant") \notin Entries
    BY <2>1 DEF Fresh
  <2> QED
    BY <1>6, <2>1, <2>2
<1>9. CASE Compacted
  <2>1. PICK c \in Entry : c = Current("compact")
    BY <1>3
  <2>2. c.kind = "compact" /\ messages' = <<c>> /\ popped' = popped
    BY <1>3, <1>9, <2>1 DEF Compacted
  <2>3. CASE log' = Append(log, c) /\ unlogged' = {}
    <3>1. Resume(log') = <<c>>
      BY <1>1, <2>2, <2>3, ResumeGrows
    <3>2. /\ <<c>> \in Seq(Entry) /\ IsInjective(<<c>>)
          /\ \A i \in DOMAIN <<c>> : <<c>>[i].kind # "user"
      BY <2>2 DEF IsInjective
    <3>3. InStep(<<c>>, {}, <<c>>, popped)
      BY <3>2, SameInStep
    <3> QED
      BY <2>2, <2>3, <3>1, <3>3
  <2>4. CASE log' = log /\ unlogged' = {c}
    <3>1. InStep(<<c>>, {c}, Resume(log), popped)
      BY <1>2, <1>4, <2>2, SummaryInMemory DEF InStep
    <3> QED
      BY <2>2, <2>4, <3>1
  <2> QED
    BY <1>9, <2>1, <2>3, <2>4 DEF Compacted
<1>10. CASE Kept
  BY <1>4, <1>10 DEF Kept
<1>11. CASE TookBack
  <2>1. messages # <<>> /\ messages[Len(messages)] = Current("user")
    BY <1>11 DEF TookBack, Inv, Conversation, EndsInPrompt
  <2>2. /\ messages[Len(messages)].kind = "user"
        /\ messages[Len(messages)].turn = turn /\ messages[Len(messages)].step = step
    BY <1>3, <2>1
  <2>3. InStep(Front(messages), unlogged, Resume(log), popped \cup {<<turn, step>>})
    BY <1>1, <1>2, <1>4, <2>1, <2>2, PromptTakenBack
  <2> QED
    BY <1>11, <2>3 DEF TookBack
<1>12. CASE Reopened
  <2>1. CASE messages' = <<>> /\ log' = <<>>
    <3>1. <<>> \in Seq(Entry) /\ IsInjective(<<>>) /\ Positions(<<>>, "compact") = {}
      BY EmptySeq DEF IsInjective, Positions
    <3>2. Resume(<<>>) = <<>>
      BY <3>1 DEF Resume
    <3>3. InStep(<<>>, {}, <<>>, {})
      BY <3>1, SameInStep
    <3> QED
      BY <1>12, <2>1, <3>2, <3>3 DEF Reopened
  <2>2. CASE messages' = Resume(log) /\ log' = log
    <3>1. InStep(Resume(log), {}, Resume(log), {})
      BY <1>2, <1>4, SameInStep DEF InStep
    <3> QED
      BY <1>12, <2>2, <3>1 DEF Reopened
  <2> QED
    BY <1>12, <2>1, <2>2 DEF Reopened
<1> QED
  BY <1>7, <1>8, <1>9, <1>10, <1>11, <1>12, ConversationSteps

-------------------------------------------------------------------------------
(* The theorems *)

(* The invariant holds in every run.                                       *)
THEOREM Invariance == Safe => []Inv
  BY InitInv, NextInv, PTL DEF Safe

(* Every variable stays in its type; in particular no more compactions     *)
(* fail in a row than may.                                                 *)
THEOREM TypeCorrect == Safe => []TypeOK
<1>1. Inv => TypeOK
  BY DEF Inv
<1> QED
  BY Invariance, <1>1, PTL

(* _stream emits turn.end at most once for a turn, and leaves none without *)
(* it but those that were cancelled or that the process did not survive.   *)
THEOREM EndsOnce == Safe => []TurnEndsOnce
<1>1. ASSUME Inv PROVE TurnEndsOnce
  <2>1. Ends /\ turn \in 0..MaxTurns
    BY <1>1 DEF Inv, TypeOK
  <2> QED
    BY <2>1 DEF Ends, TurnEndsOnce, Turns
<1> QED
  BY Invariance, <1>1, PTL

(* process_stream, compact, load_session and what the user cancels: an     *)
(* answer never loses its prompt.                                          *)
THEOREM AnswersFollow == Safe => []AnswersFollowTheirPrompts
<1>1. Inv => AnswersFollowTheirPrompts
  BY DEF Inv, Conversation, Answered, AnswersFollowTheirPrompts
<1> QED
  BY Invariance, <1>1, PTL

(* process_stream, its finally, compact, the session log and load_session, *)
(* with failed writes, cancellations and restarts: memory is what the log  *)
(* would give back, but for the prompts taken back and the entries that    *)
(* could not be written.                                                   *)
THEOREM MemoryFollowsLog == Safe => []MemoryIsLogMinusTakenBack
<1>1. Inv /\ Fresh /\ MemoryIsLogMinusTakenBack /\ [Next]_vars
        => Fresh' /\ MemoryIsLogMinusTakenBack'
  BY FreshInv, MemoryInv
<1> QED
  BY Invariance, InitFresh, <1>1, PTL DEF Safe

===============================================================================
