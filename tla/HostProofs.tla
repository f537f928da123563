----------------------------- MODULE HostProofs -----------------------------
(*****************************************************************************)
(* Proofs about the host side: the coroutines of Context, the commands of    *)
(* Htif, the memory ranges of Memif and the frames of Rfb, for every set of  *)
(* coroutines, sequence of commands, size of memory and size of picture.     *)
(*****************************************************************************)
EXTENDS Context, Htif, Memif, Rfb, Integers, SequenceTheorems, FiniteSetTheorems,
        FunctionTheorems, WellFoundedInduction, TLAPS

-----------------------------------------------------------------------------
(* Context: the coroutines exclude each other.                             *)

\* The type invariant is preserved by every statement of init and switch_to.
THEOREM CtxTypeCorrect == CtxSpec => []CtxTypeOK
<1>1. CtxInit => CtxTypeOK
  BY CtxAssumption DEF CtxInit, CtxTypeOK, Places
<1>2. CtxTypeOK /\ [CtxNext]_ctxVars => CtxTypeOK'
  <2> SUFFICES ASSUME CtxTypeOK, [CtxNext]_ctxVars PROVE CtxTypeOK'
    OBVIOUS
  <2> USE DEF CtxTypeOK, Places, Goto, Lock, Unlock
  <2>1. ASSUME NEW c \in Ctx, InitLock(c) PROVE CtxTypeOK'
    BY <2>1 DEF InitLock
  <2>2. ASSUME NEW c \in Ctx, InitClear(c) PROVE CtxTypeOK'
    BY <2>2 DEF InitClear
  <2>3. ASSUME NEW c \in Ctx, InitCreate(c) PROVE CtxTypeOK'
    BY <2>3 DEF InitCreate
  <2>4. ASSUME NEW c \in Ctx, SwitchClear(c) PROVE CtxTypeOK'
    BY <2>4 DEF SwitchClear
  <2>5. ASSUME NEW c \in Ctx, SwitchSet(c) PROVE CtxTypeOK'
    BY <2>5 DEF SwitchSet
  <2>6. ASSUME NEW c \in Ctx, SwitchLock(c) PROVE CtxTypeOK'
    BY <2>6 DEF SwitchLock
  <2>7. ASSUME NEW c \in Ctx, SwitchSignal(c) PROVE CtxTypeOK'
    BY <2>7 DEF SwitchSignal
  <2>8. ASSUME NEW c \in Ctx, SwitchUnlock(c) PROVE CtxTypeOK'
    BY <2>8 DEF SwitchUnlock
  <2>9. ASSUME NEW c \in Ctx, WaitLock(c) PROVE CtxTypeOK'
    BY <2>9 DEF WaitLock
  <2>10. ASSUME NEW c \in Ctx, WaitTest(c) PROVE CtxTypeOK'
    BY <2>10 DEF WaitTest
  <2>11. ASSUME NEW c \in Ctx, WaitBegin(c) PROVE CtxTypeOK'
    BY <2>11 DEF WaitBegin
  <2>12. ASSUME NEW c \in Ctx, WaitEnd(c) PROVE CtxTypeOK'
    BY <2>12 DEF WaitEnd
  <2>13. ASSUME NEW c \in Ctx, WaitUnlock(c) PROVE CtxTypeOK'
    BY <2>13 DEF WaitUnlock
  <2>14. ASSUME NEW c \in Ctx, SpuriousWakeup(c) PROVE CtxTypeOK'
    BY <2>14 DEF SpuriousWakeup
  <2>15. ASSUME NEW c \in Ctx, NEW d \in Ctx, InitCall(c, d) PROVE CtxTypeOK'
    BY <2>15 DEF InitCall
  <2>16. ASSUME NEW c \in Ctx, NEW d \in Ctx, SwitchCall(c, d) PROVE CtxTypeOK'
    BY <2>16 DEF SwitchCall
  <2>17. CASE UNCHANGED ctxVars
    BY <2>17 DEF ctxVars
  <2>18. ASSUME NEW c \in Ctx, CtxStep(c) PROVE CtxTypeOK'
    BY <2>18, <2>1, <2>2, <2>3, <2>4, <2>5, <2>6, <2>7, <2>8, <2>9, <2>10, <2>11, <2>12, <2>13 DEF CtxStep
  <2> QED
    BY <2>14, <2>15, <2>16, <2>17, <2>18 DEF CtxNext
<1> QED
  BY <1>1, <1>2, PTL DEF CtxSpec

\* One step of any thread leaves one holder.  The token moves in three places only:
\* SwitchSet gives it away, InitCreate gives it to the new thread, and it comes back
\* with the flag.
LEMMA OneHolderStep ==
  ASSUME CtxTypeOK, OneHolder, [CtxNext]_ctxVars
  PROVE  OneHolder'
<1> USE DEF CtxTypeOK, Places, Goto, Lock, Unlock, Holds
<1>1. ASSUME NEW c \in Ctx, InitLock(c) PROVE OneHolder'
  BY <1>1 DEF InitLock, OneHolder
<1>2. ASSUME NEW c \in Ctx, InitClear(c) PROVE OneHolder'
  BY <1>2 DEF InitClear, OneHolder
<1>3. ASSUME NEW c \in Ctx, InitCreate(c) PROVE OneHolder'
  BY <1>3 DEF InitCreate, OneHolder
<1>4. ASSUME NEW c \in Ctx, SwitchClear(c) PROVE OneHolder'
  BY <1>4 DEF SwitchClear, OneHolder
<1>5. ASSUME NEW c \in Ctx, SwitchSet(c) PROVE OneHolder'
  BY <1>5 DEF SwitchSet, OneHolder
<1>6. ASSUME NEW c \in Ctx, SwitchLock(c) \/ SwitchSignal(c) \/ SwitchUnlock(c) PROVE OneHolder'
  BY <1>6 DEF SwitchLock, SwitchSignal, SwitchUnlock, OneHolder
<1>7. ASSUME NEW c \in Ctx, WaitLock(c) \/ WaitTest(c) \/ WaitBegin(c) \/ WaitEnd(c) PROVE OneHolder'
  BY <1>7 DEF WaitLock, WaitTest, WaitBegin, WaitEnd, OneHolder
<1>8. ASSUME NEW c \in Ctx, WaitUnlock(c) PROVE OneHolder'
  BY <1>8 DEF WaitUnlock, OneHolder
<1>9. ASSUME NEW c \in Ctx, SpuriousWakeup(c) PROVE OneHolder'
  BY <1>9 DEF SpuriousWakeup, OneHolder
<1>10. ASSUME NEW c \in Ctx, NEW d \in Ctx, InitCall(c, d) PROVE OneHolder'
  BY <1>10 DEF InitCall, OneHolder
<1>11. ASSUME NEW c \in Ctx, NEW d \in Ctx, SwitchCall(c, d) PROVE OneHolder'
  BY <1>11 DEF SwitchCall, OneHolder
<1>12. CASE UNCHANGED ctxVars
  BY <1>12 DEF ctxVars, OneHolder
<1>13. ASSUME NEW c \in Ctx, CtxStep(c) PROVE OneHolder'
  BY <1>13, <1>1, <1>2, <1>3, <1>4, <1>5, <1>6, <1>7, <1>8 DEF CtxStep
<1> QED
  BY <1>9, <1>10, <1>11, <1>12, <1>13 DEF CtxNext

\* There is one holder of control in every reachable state.
THEOREM OneHolderAlways == CtxSpec => []OneHolder
<1>1. CtxInit => OneHolder
  <2> SUFFICES ASSUME CtxInit PROVE OneHolder
    OBVIOUS
  <2>1. \A c \in Ctx : flag[c] <=> c = Main
    BY DEF CtxInit
  <2>2. \A c \in Ctx : cpc[c] = IF c = Main THEN "run" ELSE "none"
    BY DEF CtxInit
  <2>3. \A c \in Ctx : Holds(c) => c = Main
    BY <2>1, <2>2 DEF Holds
  <2> QED
    BY <2>1, <2>2, <2>3 DEF OneHolder
<1> QED
  BY <1>1, OneHolderStep, CtxTypeCorrect, PTL DEF CtxSpec

\* At most one thread is outside context_t: what the host and the target share needs no
\* lock of its own.
THEOREM CoroutinesExclude == CtxSpec => []OneRuns
<1>1. OneHolder => OneRuns
  BY DEF OneHolder, OneRuns, Holds
<1> QED
  BY <1>1, OneHolderAlways, PTL

-----------------------------------------------------------------------------
(* Htif: every command is answered once and in order.                      *)

Cmds == [kind : Kinds, n : Nat]

\* Where a command or its answer can be, in the order it passes through.
Line == ((((taken \o One(fromhost)) \o queue) \o pending_reads) \o One(cmd)) \o One(tohost)

\* A line of commands s is sound when each is one that was asked, with its kind, the
\* numbers are distinct and ordered among the reads and among the others, and all that are
\* to be answered are there.
Sound(s, a) ==
  /\ \A i \in DOMAIN s : s[i].n \in DOMAIN a /\ a[s[i].n] = (s[i].kind \in Answered)
  /\ \A i, j \in DOMAIN s : s[i].n = s[j].n => i = j
  /\ \A i, j \in DOMAIN s : i < j /\ ((s[i].kind = "read") <=> (s[j].kind = "read")) => s[i].n < s[j].n
  /\ \A n \in DOMAIN a : a[n] => \E i \in DOMAIN s : s[i].n = n

HtifTypes ==
  /\ taken \in Seq(Cmds) /\ queue \in Seq(Cmds) /\ pending_reads \in Seq(Cmds)
  /\ fromhost \in Cmds \cup {None} /\ cmd \in Cmds \cup {None} /\ tohost \in Cmds \cup {None}
  /\ asked \in Seq(BOOLEAN)

\* A command is held from its read to the end of its handler, while no other is written.
OneCommand ==
  /\ hpc = "handle" => cmd # None /\ tohost = None
  /\ cmd # None => hpc \in {"handle", "died"}

\* Only answers go to the target, and only reads wait in the console.
KindsPlaced ==
  /\ \A i \in DOMAIN taken : taken[i].kind \in Answered
  /\ fromhost # None => fromhost.kind \in Answered
  /\ \A i \in DOMAIN queue : queue[i].kind \in Answered
  /\ \A i \in DOMAIN pending_reads : pending_reads[i].kind = "read"

\* The inductive invariant of the answers.
AnswersInv == HtifTypes /\ OneCommand /\ KindsPlaced /\ Sound(Line, asked)

\* A set of natural numbers that is not empty has a smallest member.
LEMMA SmallestExists ==
  ASSUME NEW S, S \subseteq Nat, S # {}
  PROVE  \E i \in S : \A j \in S : i <= j
<1> DEFINE Below == OpToRel(<, Nat)
<1>1. PICK i \in S : \A j \in S : ~(<<j, i>> \in Below)
  <2>1. IsWellFoundedOn(Below, Nat)
    BY NatLessThanWellFounded
  <2> HIDE DEF Below
  <2> QED BY <2>1, WFMin
<1>2. \A j \in S : ~(j < i)
  BY <1>1 DEF OpToRel
<1> QED BY <1>2

LEMMA NoneIsNoCmd == None \notin Cmds
  BY DEF None, Cmds, Kinds

LEMMA OneType ==
  ASSUME NEW x \in Cmds \cup {None}
  PROVE  One(x) \in Seq(Cmds) /\ (x # None => One(x) = <<x>>) /\ (x = None => One(x) = <<>>)
  BY DEF One

\* The head of a sequence moves to the end of the one before it.
LEMMA Shift ==
  ASSUME NEW a \in Seq(Cmds), NEW s \in Seq(Cmds), s # <<>>
  PROVE  /\ Head(s) \in Cmds /\ Tail(s) \in Seq(Cmds)
         /\ (a \o <<Head(s)>>) \o Tail(s) = a \o s
<1>1. Head(s) \in Cmds /\ Tail(s) \in Seq(Cmds)
  BY HeadTailProperties
<1>2. <<Head(s)>> \o Tail(s) = s
  <2>1. <<Head(s)>> \in Seq(Cmds)
    BY <1>1
  <2>2. <<Head(s)>> \o Tail(s) \in Seq(Cmds) /\ Len(<<Head(s)>> \o Tail(s)) = Len(s)
    BY <1>1, <2>1, ConcatProperties, HeadTailProperties
  <2>3. ASSUME NEW i \in 1 .. Len(s) PROVE (<<Head(s)>> \o Tail(s))[i] = s[i]
    <3>1. Len(Tail(s)) = Len(s) - 1 /\ \A k \in 1 .. Len(Tail(s)) : Tail(s)[k] = s[k + 1]
      BY HeadTailProperties
    <3>2. (<<Head(s)>> \o Tail(s))[i] = IF i <= 1 THEN <<Head(s)>>[i] ELSE Tail(s)[i - 1]
      BY <1>1, <2>1, <3>1, ConcatProperties
    <3>3. Len(s) \in Nat /\ Head(s) = s[1]
      OBVIOUS
    <3>4. CASE i = 1
      BY <3>2, <3>3, <3>4
    <3>5. CASE i # 1
      BY <3>1, <3>2, <3>3, <3>5
    <3> QED BY <3>4, <3>5
  <2> QED BY <2>2, <2>3, SeqEqual
<1>3. <<Head(s)>> \in Seq(Cmds)
  BY <1>1
<1> QED BY <1>1, <1>2, <1>3, ConcatAssociative

\* A new command at the end of the line.
LEMMA SoundAsk ==
  ASSUME NEW s \in Seq(Cmds), NEW a \in Seq(BOOLEAN), Sound(s, a), NEW k \in Kinds
  PROVE  Sound(s \o <<[kind |-> k, n |-> Len(a) + 1]>>, Append(a, k \in Answered))
<1> DEFINE x == [kind |-> k, n |-> Len(a) + 1]
           t == s \o <<x>>
           b == Append(a, k \in Answered)
<1>1. x \in Cmds /\ x.kind = k /\ x.n = Len(a) + 1
  BY DEF Cmds
<1> HIDE DEF x
<1>2. /\ t \in Seq(Cmds) /\ Len(t) = Len(s) + 1 /\ t[Len(s) + 1] = x
      /\ \A i \in 1 .. Len(s) : t[i] = s[i]
  BY <1>1
<1>3. /\ Len(b) = Len(a) + 1 /\ \A i \in 1 .. Len(a) : b[i] = a[i]
      /\ b[Len(a) + 1] = (k \in Answered)
      /\ DOMAIN b = 1 .. Len(a) + 1 /\ DOMAIN a = 1 .. Len(a) /\ Len(a) \in Nat
  <2>1. (k \in Answered) \in BOOLEAN
    OBVIOUS
  <2> QED BY <2>1
<1>4. DOMAIN s = 1 .. Len(s) /\ DOMAIN t = 1 .. Len(s) + 1 /\ Len(s) \in Nat
  BY <1>2
<1>5. \A i \in DOMAIN s : s[i].n \in 1 .. Len(a) /\ a[s[i].n] = (s[i].kind \in Answered)
  BY <1>3 DEF Sound
<1> HIDE DEF t, b
<1>6. ASSUME NEW i \in DOMAIN t PROVE t[i].n \in DOMAIN b /\ b[t[i].n] = (t[i].kind \in Answered)
  <2>1. CASE i = Len(s) + 1
    BY <1>1, <1>2, <1>3, <2>1
  <2>2. CASE i \in DOMAIN s
    BY <1>2, <1>3, <1>4, <1>5, <2>2
  <2> QED BY <1>4, <2>1, <2>2
<1>7. ASSUME NEW i \in DOMAIN t, NEW j \in DOMAIN t, t[i].n = t[j].n PROVE i = j
  BY <1>1, <1>2, <1>4, <1>5, <1>7 DEF Sound
<1>8. ASSUME NEW i \in DOMAIN t, NEW j \in DOMAIN t, i < j,
             (t[i].kind = "read") <=> (t[j].kind = "read")
      PROVE  t[i].n < t[j].n
  <2>1. i \in DOMAIN s
    BY <1>4, <1>8
  <2>2. CASE j = Len(s) + 1
    BY <1>1, <1>2, <1>3, <1>4, <1>5, <2>1, <2>2
  <2>3. CASE j \in DOMAIN s
    BY <1>2, <1>4, <1>8, <2>1, <2>3 DEF Sound
  <2> QED BY <1>4, <2>2, <2>3
<1>9. ASSUME NEW n \in DOMAIN b, b[n] PROVE \E i \in DOMAIN t : t[i].n = n
  <2>1. CASE n = Len(a) + 1
    BY <1>1, <1>2, <1>4, <2>1
  <2>2. CASE n \in DOMAIN a
    <3>1. a[n]
      BY <1>3, <1>9, <2>2
    <3>2. PICK i \in DOMAIN s : s[i].n = n
      BY <2>2, <3>1 DEF Sound
    <3> QED BY <1>2, <1>4, <3>2
  <2> QED BY <1>3, <2>1, <2>2
<1>10. Sound(t, b)
  BY <1>6, <1>7, <1>8, <1>9 DEF Sound
<1> QED BY <1>10 DEF t, b, x

\* A command that is not to be answered leaves the end of the line.
LEMMA SoundDrop ==
  ASSUME NEW s \in Seq(Cmds), NEW x \in Cmds, NEW a \in Seq(BOOLEAN), Sound(s \o <<x>>, a),
         x.kind \notin Answered
  PROVE  Sound(s, a)
<1> DEFINE t == s \o <<x>>
<1>1. /\ t \in Seq(Cmds) /\ Len(t) = Len(s) + 1 /\ t[Len(s) + 1] = x
      /\ \A i \in 1 .. Len(s) : t[i] = s[i]
  OBVIOUS
<1>2. DOMAIN s = 1 .. Len(s) /\ DOMAIN t = 1 .. Len(s) + 1 /\ Len(s) \in Nat
  BY <1>1
<1>3. Sound(t, a)
  OBVIOUS
<1> HIDE DEF t
<1>4. a[x.n] = FALSE
  <2>1. Len(s) + 1 \in DOMAIN t /\ t[Len(s) + 1] = x
    BY <1>1, <1>2
  <2>2. a[x.n] = (x.kind \in Answered)
    BY <1>3, <2>1 DEF Sound
  <2>3. (x.kind \in Answered) = FALSE
    OBVIOUS
  <2> QED BY <2>2, <2>3
<1>5. ASSUME NEW n \in DOMAIN a, a[n] PROVE \E i \in DOMAIN s : s[i].n = n
  <2>1. PICK i \in DOMAIN t : t[i].n = n
    BY <1>3, <1>5 DEF Sound
  <2>2. i # Len(s) + 1
    BY <1>1, <1>4, <1>5, <2>1
  <2> QED BY <1>1, <1>2, <2>1, <2>2
<1> QED BY <1>1, <1>2, <1>3, <1>5 DEF Sound

\* A command that is not a read overtakes the reads that wait, as an answer.
LEMMA SoundRespond ==
  ASSUME NEW s \in Seq(Cmds), NEW p \in Seq(Cmds), NEW x \in Cmds, NEW a \in Seq(BOOLEAN),
         NEW r \in Cmds, r.n = x.n, r.kind \in Answered \ {"read"}, x.kind \in Answered \ {"read"},
         \A i \in DOMAIN p : p[i].kind = "read",
         Sound((s \o p) \o <<x>>, a)
  PROVE  Sound((s \o <<r>>) \o p, a)
<1> DEFINE u == (s \o p) \o <<x>>
           v == (s \o <<r>>) \o p
           m(i) == IF i <= Len(s) THEN i ELSE IF i = Len(s) + 1 THEN Len(s) + Len(p) + 1 ELSE i - 1
<1>1. Len(s) \in Nat /\ Len(p) \in Nat
  OBVIOUS
<1>2. DOMAIN u = 1 .. Len(s) + Len(p) + 1 /\ DOMAIN v = 1 .. Len(s) + Len(p) + 1
  OBVIOUS
<1>3. ASSUME NEW i \in DOMAIN v
      PROVE  /\ m(i) \in DOMAIN u /\ v[i].n = u[m(i)].n
             /\ i # Len(s) + 1 => v[i] = u[m(i)]
             /\ i > Len(s) + 1 => v[i].kind = "read"
             /\ i = Len(s) + 1 => v[i] = r /\ u[m(i)] = x
  <2>1. CASE i <= Len(s)
    BY <2>1
  <2>2. CASE i = Len(s) + 1
    BY <2>2
  <2>3. CASE i > Len(s) + 1
    BY <2>3
  <2> QED BY <1>2, <2>1, <2>2, <2>3
<1>4. Sound(u, a)
  OBVIOUS
<1>5. \A i, j \in DOMAIN v : m(i) = m(j) => i = j
  BY <1>1, <1>2
<1>6. \A i, j \in DOMAIN v : i < j /\ i # Len(s) + 1 => m(i) < m(j)
  BY <1>1, <1>2
<1>7. \A k \in DOMAIN u : \E i \in DOMAIN v : m(i) = k
  <2> TAKE k \in DOMAIN u
  <2>0. k \in 1 .. Len(s) + Len(p) + 1
    BY <1>2
  <2>1. CASE k <= Len(s)
    <3>1. k \in DOMAIN v /\ m(k) = k
      BY <1>1, <1>2, <2>0, <2>1
    <3> QED BY <3>1
  <2>2. CASE k = Len(s) + Len(p) + 1
    <3>1. Len(s) + 1 \in DOMAIN v /\ m(Len(s) + 1) = k
      BY <1>1, <1>2, <2>2
    <3> QED BY <3>1
  <2>3. CASE k > Len(s) /\ k <= Len(s) + Len(p)
    <3>1. k + 1 \in DOMAIN v /\ m(k + 1) = k
      BY <1>1, <1>2, <2>3
    <3> QED BY <3>1
  <2>4. k <= Len(s) \/ k = Len(s) + Len(p) + 1 \/ (k > Len(s) /\ k <= Len(s) + Len(p))
    BY <1>1, <2>0
  <2> HIDE DEF v, m
  <2> QED BY <2>1, <2>2, <2>3, <2>4
<1> HIDE DEF u, v, m
<1>8. ASSUME NEW i \in DOMAIN v PROVE v[i].n \in DOMAIN a /\ a[v[i].n] = (v[i].kind \in Answered)
  <2>1. CASE i = Len(s) + 1
    BY <1>3, <1>4, <2>1 DEF Sound
  <2>2. CASE i # Len(s) + 1
    BY <1>3, <1>4, <2>2 DEF Sound
  <2> QED BY <2>1, <2>2
<1>9. ASSUME NEW i \in DOMAIN v, NEW j \in DOMAIN v, v[i].n = v[j].n PROVE i = j
  BY <1>3, <1>4, <1>5, <1>9 DEF Sound
<1>10. ASSUME NEW i \in DOMAIN v, NEW j \in DOMAIN v, i < j,
              (v[i].kind = "read") <=> (v[j].kind = "read")
       PROVE  v[i].n < v[j].n
  <2>1. i # Len(s) + 1
    BY <1>1, <1>2, <1>3, <1>10
  <2>2. (u[m(i)].kind = "read") <=> (u[m(j)].kind = "read")
    BY <1>3, <1>10, <2>1
  <2>3. m(i) < m(j)
    BY <1>6, <1>10, <2>1
  <2> QED BY <1>3, <1>4, <2>2, <2>3 DEF Sound
<1>11. ASSUME NEW n \in DOMAIN a, a[n] PROVE \E i \in DOMAIN v : v[i].n = n
  <2>1. PICK k \in DOMAIN u : u[k].n = n
    BY <1>4, <1>11 DEF Sound
  <2> QED BY <1>3, <1>7, <2>1
<1>12. Sound(v, a)
  BY <1>8, <1>9, <1>10, <1>11 DEF Sound
<1> QED BY <1>12 DEF v

LEMMA AnswersInvInit == HtifInit => AnswersInv
<1> SUFFICES ASSUME HtifInit PROVE AnswersInv
  OBVIOUS
<1>1. One(None) = <<>>
  BY DEF One
<1>2. Line = <<>>
  BY <1>1 DEF Line, HtifInit
<1> QED
  BY <1>2 DEF HtifInit, AnswersInv, HtifTypes, OneCommand, KindsPlaced, Sound

\* The answer the target takes was at the end of those it has.
LEMMA AnswersTake ==
  ASSUME AnswersInv, TakeAnswer
  PROVE  AnswersInv'
<1> USE DEF AnswersInv
<1>1. /\ fromhost \in Cmds /\ fromhost # None /\ taken' = Append(taken, fromhost) /\ fromhost' = None
      /\ UNCHANGED <<hpc, cmd, tohost, queue, pending_reads, asked>>
  BY DEF TakeAnswer, HtifTypes
<1>2. HtifTypes'
  BY <1>1 DEF HtifTypes
<1>3. OneCommand' /\ KindsPlaced'
  BY <1>1 DEF OneCommand, KindsPlaced, HtifTypes
<1>4. Line' = Line
  <2>1. taken' \o One(fromhost') = taken \o One(fromhost)
    <3>1. One(fromhost') = <<>> /\ One(fromhost) = <<fromhost>>
      BY <1>1, OneType
    <3>2. taken' \o <<>> = taken'
      BY <1>2, ConcatEmptySeq DEF HtifTypes
    <3>3. taken' = taken \o <<fromhost>>
      BY <1>1, AppendIsConcat DEF HtifTypes
    <3> QED BY <3>1, <3>2, <3>3
  <2> QED BY <1>1, <2>1 DEF Line
<1> QED BY <1>1, <1>2, <1>3, <1>4

\* A new command is the last of the line.
LEMMA AnswersAsk ==
  ASSUME AnswersInv, NEW k \in Kinds, Ask(k)
  PROVE  AnswersInv'
<1> USE DEF AnswersInv
<1> DEFINE x == [kind |-> k, n |-> Len(asked) + 1]
           before == (((taken \o One(fromhost)) \o queue) \o pending_reads) \o One(cmd)
<1>1. /\ tohost = None /\ tohost' = x /\ asked' = Append(asked, k \in Answered) /\ hpc = "idle"
      /\ UNCHANGED <<hpc, cmd, fromhost, taken, queue, pending_reads>>
  BY DEF Ask
<1>2. x \in Cmds /\ (k \in Answered) \in BOOLEAN
  BY DEF Cmds, HtifTypes
<1>3. HtifTypes'
  BY <1>1, <1>2 DEF HtifTypes
<1>4. OneCommand' /\ KindsPlaced'
  BY <1>1 DEF OneCommand, KindsPlaced, HtifTypes
<1>5. before \in Seq(Cmds)
  BY OneType, ConcatProperties DEF HtifTypes
<1>6. Line = before
  BY <1>1, <1>5, OneType, ConcatEmptySeq DEF Line, HtifTypes
<1>7. Line' = before \o <<x>>
  <2>1. One(tohost') = <<x>>
    BY <1>1, <1>2, OneType, NoneIsNoCmd
  <2> QED BY <1>1, <2>1 DEF Line
<1> HIDE DEF before
<1>8. Sound(before \o <<x>>, asked')
  BY <1>1, <1>5, <1>6, SoundAsk DEF HtifTypes
<1> QED BY <1>3, <1>4, <1>7, <1>8

\* The loop takes the command, which it has none of, out of tohost.
LEMMA AnswersRead ==
  ASSUME AnswersInv, ReadTohost
  PROVE  AnswersInv'
<1> USE DEF AnswersInv
<1> DEFINE before == ((taken \o One(fromhost)) \o queue) \o pending_reads
<1>1. /\ cmd = None /\ cmd' = tohost /\ tohost' = None
      /\ hpc' = IF tohost = None THEN "idle" ELSE "handle"
      /\ UNCHANGED <<fromhost, taken, queue, pending_reads, asked>>
  BY DEF ReadTohost, OneCommand
<1>2. HtifTypes'
  BY <1>1 DEF HtifTypes
<1>3. OneCommand' /\ KindsPlaced'
  BY <1>1 DEF OneCommand, KindsPlaced, HtifTypes
<1>4. before \in Seq(Cmds) /\ One(tohost) \in Seq(Cmds)
  BY OneType, ConcatProperties DEF HtifTypes
<1>5. Line' = Line
  <2>1. Line = (before \o <<>>) \o One(tohost)
    BY <1>1, OneType DEF Line
  <2>2. Line' = (before \o One(tohost)) \o <<>>
    BY <1>1, OneType DEF Line
  <2> HIDE DEF before
  <2> QED BY <1>4, <2>1, <2>2, ConcatEmptySeq, ConcatProperties
<1> QED BY <1>1, <1>2, <1>3, <1>5

\* The console answers the read that has waited longest.
LEMMA AnswersTick ==
  ASSUME AnswersInv, Tick
  PROVE  AnswersInv'
<1> USE DEF AnswersInv
<1>1. /\ hpc = "tick" /\ hpc' = "fromhost"
      /\ UNCHANGED <<cmd, tohost, fromhost, taken, asked>>
  BY DEF Tick
<1>2. CASE UNCHANGED <<queue, pending_reads>>
  BY <1>1, <1>2 DEF HtifTypes, OneCommand, KindsPlaced, Line
<1>3. CASE /\ pending_reads # <<>>
           /\ queue' = Append(queue, Head(pending_reads))
           /\ pending_reads' = Tail(pending_reads)
  <2>1. /\ Head(pending_reads) \in Cmds /\ Tail(pending_reads) \in Seq(Cmds)
        /\ Len(Tail(pending_reads)) = Len(pending_reads) - 1
        /\ \A i \in 1 .. Len(Tail(pending_reads)) : Tail(pending_reads)[i] = pending_reads[i + 1]
    BY <1>3, HeadTailProperties DEF HtifTypes
  <2>2. HtifTypes'
    BY <1>1, <1>3, <2>1 DEF HtifTypes
  <2>3. OneCommand'
    BY <1>1 DEF OneCommand
  <2>4. Head(pending_reads).kind \in Answered
    BY <1>3 DEF KindsPlaced, HtifTypes, Answered
  <2>5. KindsPlaced'
    <3>1. ASSUME NEW i \in DOMAIN queue' PROVE queue'[i].kind \in Answered
      <4>1. i \in 1 .. Len(queue) + 1 /\ Len(queue) \in Nat
        BY <1>3, <2>1 DEF HtifTypes
      <4>2. CASE i = Len(queue) + 1
        BY <1>3, <2>1, <2>4, <4>2 DEF HtifTypes
      <4>3. CASE i \in 1 .. Len(queue)
        BY <1>3, <2>1, <4>3 DEF KindsPlaced, HtifTypes
      <4> QED BY <4>1, <4>2, <4>3
    <3>2. \A i \in DOMAIN pending_reads' : pending_reads'[i].kind = "read"
      BY <1>3, <2>1 DEF KindsPlaced, HtifTypes
    <3> QED BY <1>1, <3>1, <3>2 DEF KindsPlaced
  <2>6. Line' = Line
    <3> DEFINE a == taken \o One(fromhost)
               h == <<Head(pending_reads)>>
    <3>1. a \in Seq(Cmds) /\ h \in Seq(Cmds)
      BY <2>1, OneType, ConcatProperties DEF HtifTypes
    <3>2. (a \o queue') \o pending_reads' = (a \o queue) \o pending_reads
      <4> HIDE DEF a
      <4>1. queue' = queue \o h
        BY <1>3, <2>1, AppendIsConcat DEF HtifTypes
      <4>2. a \o queue \in Seq(Cmds) /\ a \o queue' = (a \o queue) \o h
        BY <3>1, <4>1, ConcatAssociative, ConcatProperties DEF HtifTypes
      <4> QED BY <1>3, <4>2, Shift DEF HtifTypes
    <3> QED BY <1>1, <3>2 DEF Line
  <2> QED BY <1>1, <2>2, <2>3, <2>5, <2>6
<1> QED BY <1>2, <1>3 DEF Tick

\* The next answer is written when the one before has been taken.
LEMMA AnswersWrite ==
  ASSUME AnswersInv, WriteFromhost
  PROVE  AnswersInv'
<1> USE DEF AnswersInv
<1>1. /\ hpc = "fromhost" /\ hpc' = "loop"
      /\ UNCHANGED <<cmd, tohost, pending_reads, taken, asked>>
  BY DEF WriteFromhost
<1>2. CASE UNCHANGED <<queue, fromhost>>
  BY <1>1, <1>2 DEF HtifTypes, OneCommand, KindsPlaced, Line
<1>3. CASE queue # <<>> /\ fromhost = None /\ fromhost' = Head(queue) /\ queue' = Tail(queue)
  <2>1. /\ Head(queue) \in Cmds /\ Tail(queue) \in Seq(Cmds)
        /\ Len(Tail(queue)) = Len(queue) - 1
        /\ \A i \in 1 .. Len(Tail(queue)) : Tail(queue)[i] = queue[i + 1]
    BY <1>3, HeadTailProperties DEF HtifTypes
  <2>2. HtifTypes'
    BY <1>1, <1>3, <2>1 DEF HtifTypes
  <2>3. OneCommand'
    BY <1>1 DEF OneCommand
  <2>4. KindsPlaced'
    <3>1. \A i \in DOMAIN queue' : queue'[i].kind \in Answered
      BY <1>3, <2>1 DEF KindsPlaced, HtifTypes
    <3>2. fromhost'.kind \in Answered
      BY <1>3 DEF KindsPlaced, HtifTypes
    <3> QED BY <1>1, <3>1, <3>2 DEF KindsPlaced
  <2>5. Line' = Line
    <3>1. One(fromhost) = <<>> /\ One(fromhost') = <<Head(queue)>>
      BY <1>3, <2>1, OneType, NoneIsNoCmd
    <3>2. (taken \o <<Head(queue)>>) \o Tail(queue) = taken \o queue /\ taken \o <<>> = taken
      BY <1>3, Shift, ConcatEmptySeq DEF HtifTypes
    <3>3. (taken' \o One(fromhost')) \o queue' = (taken \o One(fromhost)) \o queue
      BY <1>1, <1>3, <3>1, <3>2
    <3> QED BY <1>1, <3>3 DEF Line
  <2> QED BY <1>1, <2>2, <2>3, <2>4, <2>5
<1> QED BY <1>2, <1>3 DEF WriteFromhost

\* The handler answers a command at once, keeps a read, or drops what is not answered.
LEMMA AnswersHandle ==
  ASSUME AnswersInv, Handle
  PROVE  AnswersInv'
<1> USE DEF AnswersInv
<1> DEFINE s == (taken \o One(fromhost)) \o queue
           p == pending_reads
<1>1. /\ cmd \in Cmds /\ cmd # None /\ tohost = None /\ cmd' = None /\ hpc' = "tick"
      /\ queue' = IF cmd.kind \in Answered \ {"read"} THEN Append(queue, Response) ELSE queue
      /\ pending_reads' = IF cmd.kind = "read" THEN Append(pending_reads, cmd) ELSE pending_reads
      /\ UNCHANGED <<tohost, fromhost, taken, asked>>
  BY DEF Handle, OneCommand, HtifTypes
<1>2. Response \in Cmds /\ Response.n = cmd.n /\ Response.kind \in Answered \ {"read"}
  BY <1>1 DEF Response, Cmds, Kinds, Answered
<1>3. HtifTypes'
  BY <1>1, <1>2 DEF HtifTypes
<1>4. OneCommand'
  BY <1>1 DEF OneCommand
<1>5. KindsPlaced'
  <2>1. \A i \in DOMAIN queue' : queue'[i].kind \in Answered
    BY <1>1, <1>2 DEF KindsPlaced, HtifTypes
  <2>2. \A i \in DOMAIN pending_reads' : pending_reads'[i].kind = "read"
    BY <1>1 DEF KindsPlaced, HtifTypes
  <2> QED BY <1>1, <2>1, <2>2 DEF KindsPlaced
<1>6. s \in Seq(Cmds) /\ p \in Seq(Cmds) /\ s \o p \in Seq(Cmds) /\ <<cmd>> \in Seq(Cmds)
  BY <1>1, OneType, ConcatProperties DEF HtifTypes
<1>7. Line = (s \o p) \o <<cmd>>
  <2>1. One(cmd) = <<cmd>> /\ One(tohost) = <<>>
    BY <1>1, OneType
  <2>2. Line = ((s \o p) \o <<cmd>>) \o <<>>
    BY <2>1 DEF Line
  <2> HIDE DEF s, p
  <2> QED BY <1>6, <2>2, ConcatEmptySeq, ConcatProperties
<1>8. Line' = ((taken \o One(fromhost)) \o queue') \o pending_reads'
  <2> DEFINE q == ((taken \o One(fromhost)) \o queue') \o pending_reads'
  <2>1. One(cmd') = <<>> /\ One(tohost') = <<>>
    BY <1>1, OneType
  <2>2. Line' = (q \o <<>>) \o <<>>
    BY <1>1, <2>1 DEF Line
  <2>3. q \in Seq(Cmds)
    BY <1>3, OneType, ConcatProperties DEF HtifTypes
  <2> HIDE DEF q
  <2>4. Line' = q
    BY <2>2, <2>3, ConcatEmptySeq
  <2> QED BY <2>4 DEF q
<1>9. CASE cmd.kind \in Answered \ {"read"}
  <2>1. queue' = queue \o <<Response>> /\ pending_reads' = pending_reads
    BY <1>1, <1>2, <1>9, AppendIsConcat DEF HtifTypes
  <2>2. <<Response>> \in Seq(Cmds) /\ taken \o One(fromhost) \in Seq(Cmds)
    BY <1>2, OneType, ConcatProperties DEF HtifTypes
  <2>3. Line' = (s \o <<Response>>) \o p
    <3>1. (taken \o One(fromhost)) \o queue' = s \o <<Response>>
      BY <2>1, <2>2, ConcatAssociative DEF HtifTypes
    <3> QED BY <1>8, <2>1, <3>1
  <2>4. \A i \in DOMAIN p : p[i].kind = "read"
    BY DEF KindsPlaced
  <2>5. Sound((s \o p) \o <<cmd>>, asked)
    BY <1>7
  <2> HIDE DEF s, p
  <2>6. Sound((s \o <<Response>>) \o p, asked)
    BY <1>1, <1>2, <1>6, <1>9, <2>4, <2>5, SoundRespond DEF HtifTypes
  <2> QED BY <1>1, <1>3, <1>4, <1>5, <2>3, <2>6
<1>10. CASE cmd.kind = "read"
  <2>1. queue' = queue /\ pending_reads' = pending_reads \o <<cmd>>
    BY <1>1, <1>10, AppendIsConcat DEF HtifTypes
  <2>2. Line' = s \o (p \o <<cmd>>)
    BY <1>8, <2>1
  <2> HIDE DEF s, p
  <2>3. Line' = Line
    BY <1>6, <1>7, <2>2, ConcatAssociative
  <2> QED BY <1>1, <1>3, <1>4, <1>5, <2>3
<1>11. CASE cmd.kind \notin Answered
  <2>1. queue' = queue /\ pending_reads' = pending_reads
    BY <1>1, <1>11 DEF Answered
  <2>2. Line' = s \o p
    BY <1>8, <2>1
  <2>3. Sound((s \o p) \o <<cmd>>, asked)
    BY <1>7
  <2> HIDE DEF s, p
  <2>4. Sound(s \o p, asked)
    BY <1>1, <1>6, <1>11, <2>3, SoundDrop DEF HtifTypes
  <2> QED BY <1>1, <1>3, <1>4, <1>5, <2>2, <2>4
<1> QED BY <1>9, <1>10, <1>11

LEMMA AnswersInvStep == AnswersInv /\ [HtifNext]_htifVars => AnswersInv'
<1> SUFFICES ASSUME AnswersInv, [HtifNext]_htifVars PROVE AnswersInv'
  OBVIOUS
<1>1. ASSUME NEW k \in Kinds, Ask(k) PROVE AnswersInv'
  BY <1>1, AnswersAsk
<1>2. CASE TakeAnswer
  BY <1>2, AnswersTake
<1>3. CASE ReadTohost
  BY <1>3, AnswersRead
<1>4. CASE Tick
  BY <1>4, AnswersTick
<1>5. CASE WriteFromhost
  BY <1>5, AnswersWrite
<1>6. CASE Handle
  BY <1>6, AnswersHandle
<1>7. CASE UNCHANGED <<cmd, tohost, fromhost, queue, pending_reads, asked, taken>>
           /\ (hpc = "handle" => hpc' \in {"handle", "died"})
           /\ (hpc' = "handle" => hpc = "handle") /\ (hpc = "died" => hpc' = "died")
  BY <1>7 DEF AnswersInv, HtifTypes, OneCommand, KindsPlaced, Line
<1>8. CASE LeaveLoop \/ EndIdle \/ HandleDies \/ Signal \/ UNCHANGED htifVars
  BY <1>7, <1>8 DEF LeaveLoop, EndIdle, HandleDies, Signal, htifVars
<1> QED
  BY <1>1, <1>2, <1>3, <1>4, <1>5, <1>6, <1>8 DEF HtifNext, HtifHost

\* A part of the line is where it was.
LEMMA LinePart ==
  ASSUME AnswersInv
  PROVE  LET given == taken \o One(fromhost) \o queue
         IN  /\ given \in Seq(Cmds) /\ Line \in Seq(Cmds) /\ taken \in Seq(Cmds)
             /\ \A i \in DOMAIN given : i \in DOMAIN Line /\ Line[i] = given[i]
             /\ \A i \in DOMAIN taken : i \in DOMAIN Line /\ Line[i] = taken[i]
<1> DEFINE given == taken \o One(fromhost) \o queue
           t1 == taken \o One(fromhost)
           t3 == given \o pending_reads
           t4 == t3 \o One(cmd)
           t5 == t4 \o One(tohost)
<1>1. /\ taken \in Seq(Cmds) /\ queue \in Seq(Cmds) /\ pending_reads \in Seq(Cmds)
      /\ One(fromhost) \in Seq(Cmds) /\ One(cmd) \in Seq(Cmds) /\ One(tohost) \in Seq(Cmds)
  BY OneType DEF AnswersInv, HtifTypes
<1>2. ASSUME NEW u \in Seq(Cmds), NEW v \in Seq(Cmds)
      PROVE  u \o v \in Seq(Cmds) /\ \A i \in DOMAIN u : i \in DOMAIN (u \o v) /\ (u \o v)[i] = u[i]
  OBVIOUS
<1>3. t1 \in Seq(Cmds) /\ \A i \in DOMAIN taken : i \in DOMAIN t1 /\ t1[i] = taken[i]
  BY <1>1, <1>2
<1> HIDE DEF t1
<1>4. given \in Seq(Cmds) /\ \A i \in DOMAIN t1 : i \in DOMAIN given /\ given[i] = t1[i]
  BY <1>1, <1>2, <1>3 DEF t1
<1> HIDE DEF given
<1>5. t3 \in Seq(Cmds) /\ \A i \in DOMAIN given : i \in DOMAIN t3 /\ t3[i] = given[i]
  BY <1>1, <1>2, <1>4
<1> HIDE DEF t3
<1>6. t4 \in Seq(Cmds) /\ \A i \in DOMAIN t3 : i \in DOMAIN t4 /\ t4[i] = t3[i]
  BY <1>1, <1>2, <1>5
<1> HIDE DEF t4
<1>7. t5 \in Seq(Cmds) /\ \A i \in DOMAIN t4 : i \in DOMAIN t5 /\ t5[i] = t4[i]
  BY <1>1, <1>2, <1>6
<1>8. t5 = Line
  BY DEF t5, t4, t3, given, Line
<1> HIDE DEF t5
<1>9. /\ given \in Seq(Cmds) /\ Line \in Seq(Cmds) /\ taken \in Seq(Cmds)
      /\ \A i \in DOMAIN given : i \in DOMAIN Line /\ Line[i] = given[i]
      /\ \A i \in DOMAIN taken : i \in DOMAIN Line /\ Line[i] = taken[i]
  BY <1>1, <1>3, <1>4, <1>5, <1>6, <1>7, <1>8
<1> QED BY <1>9 DEF given

LEMMA AnswersFollow == AnswersInv => AnswersConserved /\ AnswersInOrder
<1> SUFFICES ASSUME AnswersInv PROVE AnswersConserved /\ AnswersInOrder
  OBVIOUS
<1> DEFINE given == taken \o One(fromhost) \o queue
           places == Numbers(Line)
<1>1. /\ given \in Seq(Cmds) /\ Line \in Seq(Cmds) /\ taken \in Seq(Cmds)
      /\ \A i \in DOMAIN given : i \in DOMAIN Line /\ Line[i] = given[i]
      /\ \A i \in DOMAIN taken : i \in DOMAIN Line /\ Line[i] = taken[i]
  BY LinePart
<1>2. Sound(Line, asked) /\ \A i \in DOMAIN taken : taken[i].kind \in Answered
  BY DEF AnswersInv, KindsPlaced
<1>3. DOMAIN places = DOMAIN Line /\ \A i \in DOMAIN Line : places[i] = Line[i].n
  BY DEF Numbers
<1>4. places = Numbers(taken \o One(fromhost) \o queue \o pending_reads \o One(cmd) \o One(tohost))
  BY DEF Line
<1> HIDE DEF given, places
<1>5. IsInjective(places)
  BY <1>2, <1>3 DEF Sound, IsInjective
<1>6. \A n \in DOMAIN asked : asked[n] => \E i \in DOMAIN places : places[i] = n
  BY <1>2, <1>3 DEF Sound
<1>7. ASSUME NEW i \in DOMAIN taken PROVE asked[taken[i].n]
  <2>1. asked[taken[i].n] = (taken[i].kind \in Answered)
    BY <1>1, <1>2 DEF Sound
  <2> QED BY <1>2, <2>1
<1>8. AnswersConserved
  BY <1>4, <1>5, <1>6, <1>7 DEF AnswersConserved
<1>9. \A i, j \in DOMAIN given :
        i < j /\ ((given[i].kind = "read") <=> (given[j].kind = "read")) => given[i].n < given[j].n
  BY <1>1, <1>2 DEF Sound
<1>10. AnswersInOrder
  BY <1>9 DEF AnswersInOrder, given
<1> QED BY <1>8, <1>10

-----------------------------------------------------------------------------
(* The table of file descriptors.                                          *)

Files == HostFds \cup Std

\* The slots that no close has failed in hold open files, each its own; the open files
\* that are in no slot are fcntl's copies and those left by a failed close; and what a
\* close has failed for is still in its slot, which is why it cannot be forgotten.
FdInv ==
  /\ fds \in Seq(Files \cup {NoFd}) /\ open \subseteq Files
  /\ duped \subseteq open /\ failed \subseteq Files
  /\ \A i \in DOMAIN fds : fds[i] \notin failed \cup {NoFd} => fds[i] \in open \ duped
  /\ \A fd \in (open \cup failed) \ (duped \ failed) : \E i \in DOMAIN fds : fds[i] = fd
  /\ \A i, j \in DOMAIN fds : fds[i] \notin failed \cup {NoFd} /\ fds[i] = fds[j] => i = j

LEMMA NoFdIsNoFile == NoFd \notin Files
  BY HtifAssumption DEF Files, NoFd, Std

\* A file that was not open takes a free slot or a new one.
LEMMA AllocSound ==
  ASSUME FdInv, NEW fd \in Files \ open, open' = open \cup {fd}, FdAlloc(fd), UNCHANGED <<duped, failed>>
  PROVE  FdInv'
<1> DEFINE free == {i \in DOMAIN fds : fds[i] = NoFd}
<1>1. fd # NoFd
  BY NoFdIsNoFile
<1>2. /\ Len(fds) \in Nat /\ DOMAIN fds = 1 .. Len(fds)
      /\ fd \notin duped
      /\ \A i \in DOMAIN fds : fds[i] = fd => fd \in failed
  BY <1>1 DEF FdInv
<1>3. ASSUME NEW slot, slot \in DOMAIN fds', slot \in DOMAIN fds => fds[slot] = NoFd,
             fds' \in Seq(Files \cup {NoFd}), DOMAIN fds' = DOMAIN fds \cup {slot},
             \A i \in DOMAIN fds' : fds'[i] = IF i = slot THEN fd ELSE fds[i]
      PROVE  FdInv'
  <2>1. open' \subseteq Files /\ duped' \subseteq open' /\ failed' \subseteq Files
    BY DEF FdInv
  <2>2. \A i \in DOMAIN fds' : fds'[i] \notin failed' \cup {NoFd} => fds'[i] \in open' \ duped'
    BY <1>2, <1>3 DEF FdInv
  <2>3. ASSUME NEW g \in (open' \cup failed') \ (duped' \ failed')
        PROVE  \E i \in DOMAIN fds' : fds'[i] = g
    <3>1. CASE g = fd
      BY <1>3, <3>1
    <3>2. CASE g # fd
      <4>1. PICK i \in DOMAIN fds : fds[i] = g
        BY <2>3, <3>2 DEF FdInv
      <4>2. i # slot
        BY <1>3, <2>3, <4>1, NoFdIsNoFile DEF FdInv
      <4> QED BY <1>3, <4>1, <4>2
    <3> QED BY <3>1, <3>2
  <2>4. ASSUME NEW i \in DOMAIN fds', NEW j \in DOMAIN fds',
               fds'[i] \notin failed' \cup {NoFd}, fds'[i] = fds'[j]
        PROVE  i = j
    BY <1>1, <1>2, <1>3, <2>4 DEF FdInv
  <2> QED BY <1>3, <2>1, <2>2, <2>3, <2>4 DEF FdInv
<1>4. CASE free = {}
  <2>1. fds' = Append(fds, fd)
    BY <1>4 DEF FdAlloc
  <2>2. /\ fds' \in Seq(Files \cup {NoFd}) /\ DOMAIN fds' = 1 .. Len(fds) + 1
        /\ fds'[Len(fds) + 1] = fd /\ \A i \in DOMAIN fds : fds'[i] = fds[i]
    BY <2>1 DEF FdInv
  <2>3. /\ Len(fds) + 1 \in DOMAIN fds' /\ Len(fds) + 1 \notin DOMAIN fds
        /\ DOMAIN fds' = DOMAIN fds \cup {Len(fds) + 1}
    BY <1>2, <2>2
  <2>4. \A i \in DOMAIN fds' : fds'[i] = IF i = Len(fds) + 1 THEN fd ELSE fds[i]
    BY <2>2, <2>3
  <2> QED BY <1>3, <2>2, <2>3, <2>4
<1>5. CASE free # {}
  <2> DEFINE slot == CHOOSE i \in free : \A j \in free : i <= j
  <2>1. slot \in free
    <3>1. free \subseteq Nat /\ free # {}
      BY <1>2, <1>5
    <3>2. \E i \in free : \A j \in free : i <= j
      <4> HIDE DEF free
      <4> QED BY <3>1, SmallestExists
    <3> HIDE DEF free
    <3> QED BY <3>2
  <2>2. fds' = [fds EXCEPT ![slot] = fd]
    BY <1>5 DEF FdAlloc
  <2>3. slot \in DOMAIN fds /\ fds[slot] = NoFd
    BY <2>1
  <2> HIDE DEF slot
  <2>4. fds' \in Seq(Files \cup {NoFd}) /\ DOMAIN fds' = DOMAIN fds
    BY <1>2, <2>2, <2>3, ExceptSeq DEF FdInv
  <2>5. \A i \in DOMAIN fds : fds'[i] = IF i = slot THEN fd ELSE fds[i]
    BY <2>2
  <2> HIDE DEF free
  <2> QED BY <1>3, <2>3, <2>4, <2>5
<1> QED BY <1>4, <1>5

\* A closed file gives its slot back; a close that has failed gives nothing back.
LEMMA CloseSound ==
  ASSUME FdInv, SysClose
  PROVE  FdInv'
<1>1. PICK i \in 1 .. 4 :
        \/ /\ i \in DOMAIN fds /\ fds[i] \in open
           /\ open' = open \ {fds[i]} /\ fds' = [fds EXCEPT ![i] = NoFd]
           /\ duped' = duped \ {fds[i]}
           /\ failed' = {fd \in failed : \E j \in DOMAIN fds \ {i} : fds[j] = fd}
        \/ /\ i \in DOMAIN fds /\ fds[i] \in open
           /\ open' = open \ {fds[i]} /\ duped' = duped \ {fds[i]}
           /\ failed' = failed \cup {fds[i]}
           /\ UNCHANGED fds
        \/ UNCHANGED fdVars
  BY DEF SysClose
<1>2. CASE /\ i \in DOMAIN fds /\ fds[i] \in open
           /\ open' = open \ {fds[i]} /\ fds' = [fds EXCEPT ![i] = NoFd]
           /\ duped' = duped \ {fds[i]}
           /\ failed' = {fd \in failed : \E j \in DOMAIN fds \ {i} : fds[j] = fd}
  <2>1. fds' \in Seq(Files \cup {NoFd}) /\ DOMAIN fds' = DOMAIN fds
    BY <1>2, ExceptSeq DEF FdInv
  <2>2. \A j \in DOMAIN fds : fds'[j] = IF j = i THEN NoFd ELSE fds[j]
    BY <1>2
  <2>3. open' \subseteq Files /\ duped' \subseteq open' /\ failed' \subseteq failed /\ failed' \subseteq Files
    BY <1>2 DEF FdInv
  <2>4. \A j \in DOMAIN fds : j # i /\ fds[j] \in failed => fds[j] \in failed'
    BY <1>2
  <2>5. ASSUME NEW j \in DOMAIN fds', fds'[j] \notin failed' \cup {NoFd}
        PROVE  j # i /\ fds'[j] = fds[j] /\ fds[j] \notin failed \cup {NoFd} /\ fds[j] # fds[i]
    BY <1>2, <2>1, <2>2, <2>4, <2>5 DEF FdInv
  <2>6. \A j \in DOMAIN fds' : fds'[j] \notin failed' \cup {NoFd} => fds'[j] \in open' \ duped'
    BY <1>2, <2>1, <2>5 DEF FdInv
  <2>7. ASSUME NEW g \in (open' \cup failed') \ (duped' \ failed')
        PROVE  \E j \in DOMAIN fds' : fds'[j] = g
    <3>1. CASE g \in failed'
      <4>1. PICK j \in DOMAIN fds \ {i} : fds[j] = g
        BY <1>2, <3>1
      <4> QED BY <2>1, <2>2, <4>1
    <3>2. CASE g \in open' /\ g \notin duped'
      <4>1. g \in (open \cup failed) \ (duped \ failed) /\ g # fds[i]
        BY <1>2, <3>2
      <4>2. PICK j \in DOMAIN fds : fds[j] = g
        BY <4>1 DEF FdInv
      <4> QED BY <2>1, <2>2, <4>1, <4>2
    <3> QED BY <2>7, <3>1, <3>2
  <2>8. ASSUME NEW j \in DOMAIN fds', NEW k \in DOMAIN fds',
               fds'[j] \notin failed' \cup {NoFd}, fds'[j] = fds'[k]
        PROVE  j = k
    BY <2>1, <2>5, <2>8 DEF FdInv
  <2> QED BY <2>1, <2>3, <2>6, <2>7, <2>8 DEF FdInv
<1>3. CASE /\ i \in DOMAIN fds /\ fds[i] \in open
           /\ open' = open \ {fds[i]} /\ duped' = duped \ {fds[i]}
           /\ failed' = failed \cup {fds[i]}
           /\ UNCHANGED fds
  <2>1. open' \subseteq Files /\ duped' \subseteq open' /\ failed' \subseteq Files
    BY <1>3 DEF FdInv
  <2>2. \A j \in DOMAIN fds : fds[j] \notin failed' \cup {NoFd} => fds[j] \in open' \ duped'
    BY <1>3 DEF FdInv
  <2>3. ASSUME NEW g \in (open' \cup failed') \ (duped' \ failed')
        PROVE  \E j \in DOMAIN fds : fds[j] = g
    BY <1>3, <2>3 DEF FdInv
  <2>4. \A j, k \in DOMAIN fds : fds[j] \notin failed' \cup {NoFd} /\ fds[j] = fds[k] => j = k
    BY <1>3 DEF FdInv
  <2> QED BY <1>3, <2>1, <2>2, <2>3, <2>4 DEF FdInv
<1>4. CASE UNCHANGED fdVars
  BY <1>4 DEF FdInv, fdVars
<1> QED BY <1>1, <1>2, <1>3, <1>4

\* F_DUPFD opens a file beside the table.
LEMMA FcntlSound ==
  ASSUME FdInv, SysFcntl
  PROVE  FdInv'
<1>1. CASE UNCHANGED fdVars
  BY <1>1 DEF FdInv, fdVars
<1>2. CASE ~UNCHANGED fdVars
  <2>1. PICK fd \in Unused : /\ open' = open \cup {fd} /\ duped' = duped \cup {fd}
                             /\ UNCHANGED <<fds, failed>>
    BY <1>2 DEF SysFcntl
  <2>2. fd \in Files \ open
    BY DEF Unused, Files
  <2>3. \A i \in DOMAIN fds : fds[i] = fd => fd \in failed
    BY <2>2, NoFdIsNoFile DEF FdInv
  <2>4. open' \subseteq Files /\ duped' \subseteq open' /\ failed' \subseteq Files
    BY <2>1, <2>2 DEF FdInv
  <2>5. \A i \in DOMAIN fds : fds[i] \notin failed \cup {NoFd} => fds[i] \in open' \ duped'
    BY <2>1, <2>3 DEF FdInv
  <2>6. \A g \in (open' \cup failed) \ (duped' \ failed) : g \in (open \cup failed) \ (duped \ failed)
    BY <2>1
  <2> QED BY <2>1, <2>4, <2>5, <2>6 DEF FdInv
<1> QED BY <1>1, <1>2

LEMMA FdInvInit == HtifInit => FdInv
<1> SUFFICES ASSUME HtifInit PROVE FdInv
  OBVIOUS
<1>1. /\ fds = <<"stdin", "stdout0", "stdout1">> /\ open = {"stdin", "stdout0", "stdout1"}
      /\ duped = {} /\ failed = {}
  BY DEF HtifInit, Std
<1>2. DOMAIN fds = {1, 2, 3} /\ fds[1] = "stdin" /\ fds[2] = "stdout0" /\ fds[3] = "stdout1"
  BY <1>1
<1>3. fds \in Seq(Files \cup {NoFd}) /\ open \subseteq Files
  BY <1>1 DEF Files, Std
<1>4. \A i \in DOMAIN fds : fds[i] \in open
  BY <1>1, <1>2
<1>5. \A fd \in open : \E i \in DOMAIN fds : fds[i] = fd
  BY <1>1, <1>2
<1>6. \A i, j \in DOMAIN fds : fds[i] = fds[j] => i = j
  BY <1>2
<1> QED BY <1>1, <1>3, <1>4, <1>5, <1>6 DEF FdInv

LEMMA FdInvStep == FdInv /\ [HtifNext]_htifVars => FdInv'
<1> SUFFICES ASSUME FdInv, [HtifNext]_htifVars PROVE FdInv'
  OBVIOUS
<1>1. CASE UNCHANGED fdVars
  BY <1>1 DEF FdInv, fdVars
<1>2. CASE Handle
  <2>1. CASE cmd.kind = "open"
    <3>1. SysOpen
      BY <1>2, <2>1 DEF Handle
    <3>2. ASSUME NEW fd \in Unused, open' = open \cup {fd}, FdAlloc(fd), UNCHANGED <<duped, failed>>
          PROVE  FdInv'
      BY <3>2, AllocSound DEF Files, Unused
    <3> QED BY <1>1, <3>1, <3>2 DEF SysOpen
  <2>2. CASE cmd.kind = "close"
    <3>1. SysClose
      BY <1>2, <2>2 DEF Handle
    <3> QED BY <3>1, CloseSound
  <2>3. CASE cmd.kind = "call"
    <3>1. SysFcntl
      BY <1>2, <2>3 DEF Handle
    <3> QED BY <3>1, FcntlSound
  <2>4. CASE cmd.kind \notin {"open", "close", "call"}
    BY <1>1, <1>2, <2>4 DEF Handle
  <2> QED BY <2>1, <2>2, <2>3, <2>4
<1>3. CASE ~Handle
  BY <1>1, <1>3 DEF HtifNext, HtifHost, htifVars, fdVars, Ask, TakeAnswer, ReadTohost, LeaveLoop, EndIdle,
                    HandleDies, Tick, WriteFromhost, Signal
<1> QED BY <1>2, <1>3

LEMMA FdTableFollows == FdInv => FdTableSound
<1> SUFFICES ASSUME FdInv PROVE FdTableSound
  OBVIOUS
<1> DEFINE used == {i \in DOMAIN fds : fds[i] \notin failed \cup {NoFd}}
<1>1. {fds[i] : i \in used} \subseteq open \ (failed \cup duped)
  BY DEF FdInv
<1>2. ASSUME NEW fd \in open \ (failed \cup duped) PROVE \E i \in used : fds[i] = fd
  <2>1. PICK i \in DOMAIN fds : fds[i] = fd
    BY <1>2 DEF FdInv
  <2>2. fd # NoFd
    BY <1>2, NoFdIsNoFile DEF FdInv
  <2> QED BY <1>2, <2>1, <2>2
<1>3. \A i, j \in used : fds[i] = fds[j] => i = j
  BY DEF FdInv
<1> QED BY <1>1, <1>2, <1>3 DEF FdTableSound

\* Whatever the target asks and however the loop of htif_t::run, the console and signals
\* interleave with it, every answer is on its way to the target exactly once, in order,
\* and fds_t holds each open file in one slot.
THEOREM HostAlwaysExact == HtifFairSpec => []HtifExact
<1>1. HtifFairSpec => []AnswersInv
  BY AnswersInvInit, AnswersInvStep, PTL DEF HtifFairSpec
<1>2. HtifFairSpec => []FdInv
  BY FdInvInit, FdInvStep, PTL DEF HtifFairSpec
<1>3. AnswersInv /\ FdInv => HtifExact
  BY AnswersFollow, FdTableFollows DEF HtifExact
<1> QED BY <1>1, <1>2, <1>3, PTL

-----------------------------------------------------------------------------
(* Memif: the chunks of a range make up the range.                         *)

LEMMA MemifConstants == Size \in Nat /\ Align \in Nat /\ Align > 0 /\ MaxSize \in Nat /\ MaxSize > 0 /\ 0 \in Bytes
  BY MemifAssumption

LEMMA RemainderBounds ==
  ASSUME NEW x \in Nat, NEW m \in Nat, m > 0
  PROVE  x % m \in 0 .. m - 1
  OBVIOUS

\* A multiple of m between 0 and m - 1 is 0.
LEMMA MultipleBelow ==
  ASSUME NEW q \in Int, NEW m \in Nat, m > 0, NEW r \in Nat, r < m, r = m * q
  PROVE  r = 0
<1>1. CASE q <= 0
  <2>1. m * q <= 0
    BY <1>1
  <2> QED BY <2>1
<1>2. CASE q >= 1
  <2>1. m * q >= m
    BY <1>2
  <2> QED BY <2>1
<1> QED BY <1>1, <1>2

\* Every offset is in the piece that begins at the multiple of the size at or below it.
LEMMA PieceOf ==
  ASSUME NEW x \in Nat, NEW m \in Nat, m > 0
  PROVE  \E pos \in 0 .. x : pos % m = 0 /\ x < pos + m
<1> DEFINE pos == x - (x % m)
           q == x \div m
           r == pos % m
<1>1. x = m * q + (x % m) /\ q \in Int /\ x % m \in 0 .. m - 1
  OBVIOUS
<1>2. pos = m * q
  BY <1>1
<1>3. pos \in Nat /\ pos <= x /\ x < pos + m
  <2>1. x % m <= x
    <3>1. CASE x < m
      BY <3>1, <1>1
    <3>2. CASE x >= m
      BY <3>2, <1>1
    <3> QED BY <3>1, <3>2
  <2> QED BY <1>1, <2>1
<1> HIDE DEF pos
<1>4. pos = m * (pos \div m) + r /\ pos \div m \in Int /\ r \in 0 .. m - 1
  BY <1>3
<1> HIDE DEF q, r
<1>5. r = m * (q - (pos \div m))
  BY <1>1, <1>2, <1>4
<1>6. q - (pos \div m) \in Int
  BY <1>1, <1>4
<1>7. r = 0
  BY <1>4, <1>5, <1>6, MultipleBelow
<1> QED BY <1>3, <1>7 DEF r

Memories == [Addrs -> Bytes]

\* The memory m with the bytes of s from addr on.
Put(m, addr, s) == [b \in Addrs |-> IF b \in addr .. addr + Len(s) - 1 THEN s[b - addr + 1] ELSE m[b]]

\* Read, modify, write of one chunk changes the bytes it was asked to and no other.
LEMMA PatchedExact ==
  ASSUME NEW m \in Memories, NEW a \in Nat, NEW off \in Nat, NEW s \in Seq(Bytes), off + Len(s) <= Align
  PROVE  Patched(m, a, off, s) = Put(m, a + off, s)
<1> DEFINE e(k) == IF k - off \in 1 .. Len(s) THEN s[k - off] ELSE ReadChunk(m, a, Align)[k]
           chunk == [k \in 1 .. Align |-> e(k)]
<1>1. Align \in Nat /\ Size \in Nat /\ Len(s) \in Nat
  BY MemifConstants
<1>2. Len(chunk) = Align /\ \A k \in 1 .. Align : chunk[k] = e(k)
  BY <1>1
<1>3. Patched(m, a, off, s) = WriteChunk(m, a, chunk)
  BY DEF Patched
<1>4. \A k \in 1 .. Align : ReadChunk(m, a, Align)[k] = m[a + k - 1]
  BY DEF ReadChunk
<1> HIDE DEF chunk
<1>5. ASSUME NEW b \in Addrs
      PROVE  (IF b \in a .. a + Len(chunk) - 1 THEN chunk[b - a + 1] ELSE m[b])
             = (IF b \in a + off .. a + off + Len(s) - 1 THEN s[b - (a + off) + 1] ELSE m[b])
  <2>1. b \in Nat
    BY <1>1 DEF Addrs
  <2>2. CASE b \in a .. a + Align - 1
    <3>1. b - a + 1 \in 1 .. Align /\ a + (b - a + 1) - 1 = b /\ b - (a + off) + 1 = (b - a + 1) - off
      BY <1>1, <2>1, <2>2
    <3>2. chunk[b - a + 1] = IF (b - a + 1) - off \in 1 .. Len(s) THEN s[(b - a + 1) - off] ELSE m[b]
      BY <1>2, <1>4, <3>1
    <3>3. b \in a + off .. a + off + Len(s) - 1 <=> (b - a + 1) - off \in 1 .. Len(s)
      BY <1>1, <2>1
    <3> QED BY <1>2, <2>2, <3>1, <3>2, <3>3
  <2>3. CASE b \notin a .. a + Align - 1
    <3>1. b \notin a + off .. a + off + Len(s) - 1
      BY <1>1, <2>1, <2>3
    <3> QED BY <1>2, <2>3, <3>1
  <2> QED BY <2>2, <2>3
<1>6. WriteChunk(m, a, chunk) = Put(m, a + off, s)
  BY <1>5 DEF WriteChunk, Put
<1> QED BY <1>3, <1>6

\* Where a range is cut: the head ends in the first chunk, the tail is less than a chunk.
LEMMA Cuts ==
  ASSUME NEW addr \in Nat, NEW len \in Nat
  PROVE  /\ HeadLen(addr, len) \in 0 .. len
         /\ TailLen(addr, len) \in 0 .. len - HeadLen(addr, len)
         /\ TailLen(addr, len) < Align
         /\ addr % Align \in 0 .. Align - 1 /\ addr % Align <= addr
         /\ HeadLen(addr, len) + (addr % Align) <= Align \/ HeadLen(addr, len) = 0
<1>1. Align \in Nat /\ Align > 0
  BY MemifConstants
<1>2. addr % Align \in 0 .. Align - 1 /\ addr % Align <= addr
  <2>1. addr % Align \in 0 .. Align - 1
    BY <1>1, RemainderBounds
  <2>2. CASE addr < Align
    BY <1>1, <2>2
  <2>3. CASE addr >= Align
    BY <1>1, <2>1, <2>3
  <2>4. addr % Align <= addr
    BY <1>1, <2>2, <2>3
  <2> QED BY <2>1, <2>4
<1>3. /\ HeadLen(addr, len) \in 0 .. len
      /\ HeadLen(addr, len) + (addr % Align) <= Align \/ HeadLen(addr, len) = 0
  BY <1>1, <1>2 DEF HeadLen, Least
<1> DEFINE rest == len - HeadLen(addr, len)
<1>4. rest \in Nat /\ TailLen(addr, len) = rest % Align
  BY <1>3 DEF TailLen
<1> HIDE DEF rest
<1>5. rest % Align \in 0 .. Align - 1
  BY <1>1, <1>4, RemainderBounds
<1>6. rest % Align <= rest
  <2>1. CASE rest < Align
    BY <1>1, <1>4, <2>1
  <2>2. CASE rest >= Align
    BY <1>1, <1>4, <1>5, <2>2
  <2> QED BY <1>4, <1>1, <2>1, <2>2
<1>7. TailLen(addr, len) \in 0 .. rest /\ TailLen(addr, len) < Align
  BY <1>1, <1>4, <1>5, <1>6
<1> QED BY <1>2, <1>3, <1>7 DEF rest

\* The pieces of the aligned rest cover it, and nothing else.
LEMMA PiecesCover ==
  ASSUME NEW start \in Nat, NEW len \in Nat, NEW x \in Nat
  PROVE  (\E p \in Pieces(start, len) : x \in p.at .. p.at + p.len - 1) <=> x < len
<1>1. MaxSize \in Nat /\ MaxSize > 0
  BY MemifConstants
<1>2. ASSUME x < len
      PROVE  \E p \in Pieces(start, len) : x \in p.at .. p.at + p.len - 1
  <2>1. PICK pos \in 0 .. x : pos % MaxSize = 0 /\ x < pos + MaxSize
    BY <1>1, PieceOf
  <2> DEFINE p == [at |-> pos, len |-> Least(MaxSize, len - pos)]
  <2>2. p \in Pieces(start, len)
    BY <1>2, <2>1 DEF Pieces
  <2>3. x \in pos .. pos + Least(MaxSize, len - pos) - 1
    BY <1>1, <1>2, <2>1 DEF Least
  <2>4. x \in p.at .. p.at + p.len - 1
    BY <2>3
  <2> HIDE DEF p
  <2> QED BY <2>2, <2>4
<1>3. ASSUME NEW p \in Pieces(start, len), x \in p.at .. p.at + p.len - 1
      PROVE  x < len
  <2>1. PICK pos \in 0 .. len : p = [at |-> pos, len |-> Least(MaxSize, len - pos)]
    BY DEF Pieces
  <2>2. p.at = pos /\ p.len <= len - pos /\ p.len \in Int
    BY <1>1, <2>1 DEF Least
  <2> QED BY <1>3, <2>1, <2>2
<1> QED BY <1>2, <1>3

\* A write of any range is the write of its bytes.
LEMMA WrittenExact ==
  ASSUME NEW m \in Memories, NEW addr \in Nat, NEW s \in Seq(Bytes)
  PROVE  Written(m, addr, s) = Put(m, addr, s)
<1> DEFINE len   == Len(s)
           head  == HeadLen(addr, len)
           tail  == TailLen(addr, len)
           off   == addr % Align
           start == addr + head
           stop  == addr + len - tail
           s1 == SubSeq(s, 1, head)
           s2 == SubSeq(s, len - tail + 1, len)
           m1 == IF head = 0 THEN m ELSE Patched(m, addr - off, off, s1)
           m2 == IF tail = 0 THEN m1 ELSE Patched(m1, stop, 0, s2)
<1>1. len \in Nat
  OBVIOUS
<1>2. /\ head \in 0 .. len /\ tail \in 0 .. len - head /\ tail < Align
      /\ off \in 0 .. Align - 1 /\ off <= addr
      /\ (head + off <= Align \/ head = 0)
  BY <1>1, Cuts
<1>3. Align \in Nat
  BY MemifConstants
<1>4. Written(m, addr, s) = [b \in Addrs |-> IF b >= start /\ \E p \in Pieces(start, stop - start) : b - start \in p.at .. p.at + p.len - 1
                       THEN s[b - addr + 1] ELSE m2[b]]
  BY DEF Written
<1> HIDE DEF len, head, tail, off
<1>5. /\ s1 \in Seq(Bytes) /\ Len(s1) = head /\ \A i \in 1 .. head : s1[i] = s[i]
      /\ s2 \in Seq(Bytes) /\ Len(s2) = tail /\ \A i \in 1 .. tail : s2[i] = s[len - tail + i]
  <2>1. \A i \in 1 .. len : s[i] \in Bytes
    BY DEF len
  <2>2. /\ s1 \in Seq(Bytes) /\ Len(s1) = (IF 1 <= head THEN head - 1 + 1 ELSE 0)
        /\ \A i \in 1 .. head - 1 + 1 : s1[i] = s[1 + i - 1]
    BY <1>1, <1>2, <2>1, SubSeqProperties
  <2>3. /\ s2 \in Seq(Bytes) /\ Len(s2) = (IF len - tail + 1 <= len THEN len - (len - tail + 1) + 1 ELSE 0)
        /\ \A i \in 1 .. len - (len - tail + 1) + 1 : s2[i] = s[(len - tail + 1) + i - 1]
    BY <1>1, <1>2, <2>1, SubSeqProperties
  <2> HIDE DEF s1, s2
  <2>4. len \in Nat /\ head \in 0 .. len /\ tail \in 0 .. len
    BY <1>1, <1>2
  <2>5. Len(s1) = head /\ \A i \in 1 .. head : s1[i] = s[i]
    BY <2>2, <2>4
  <2>6. len - (len - tail + 1) + 1 = tail
    BY <2>4
  <2>7. Len(s2) = tail
    BY <2>3, <2>4
  <2>8. \A i \in 1 .. tail : s2[i] = s[len - tail + i]
    BY <2>3, <2>4, <2>6
  <2> QED BY <2>2, <2>3, <2>5, <2>7, <2>8
<1> HIDE DEF s1, s2
<1>6. m1 = Put(m, addr, s1)
  <2>1. CASE head = 0
    <3>1. Put(m, addr, s1) = m
      BY <1>5, <2>1 DEF Put, Memories, Addrs
    <3> QED BY <2>1, <3>1
  <2>2. CASE head # 0
    <3>1. addr - off \in Nat /\ off \in Nat /\ (addr - off) + off = addr /\ off + Len(s1) <= Align
      BY <1>2, <1>3, <1>5, <2>2
    <3>2. Patched(m, addr - off, off, s1) = Put(m, (addr - off) + off, s1)
      BY <1>5, <3>1, PatchedExact
    <3> QED BY <2>2, <3>1, <3>2
  <2> QED BY <2>1, <2>2
<1> HIDE DEF m1
<1>7. ASSUME NEW n \in Memories, NEW a \in Nat, NEW t \in Seq(Bytes)
      PROVE  Put(n, a, t) \in Memories
  BY <1>7 DEF Put, Memories, Addrs
<1>8. m1 \in Memories
  BY <1>5, <1>6, <1>7
<1>9. m2 = Put(m1, stop, s2)
  <2>1. stop \in Nat
    BY <1>1, <1>2
  <2>2. CASE tail = 0
    <3>1. Put(m1, stop, s2) = m1
      BY <1>5, <1>8, <2>2, <2>1 DEF Put, Memories, Addrs
    <3> QED BY <2>2, <3>1
  <2>3. CASE tail # 0
    <3>1. 0 \in Nat /\ stop + 0 = stop /\ 0 + Len(s2) <= Align
      BY <1>2, <1>3, <1>5, <2>1
    <3> HIDE DEF stop
    <3>2. Patched(m1, stop, 0, s2) = Put(m1, stop + 0, s2)
      BY <1>5, <1>8, <2>1, <3>1, PatchedExact
    <3> QED BY <2>3, <3>1, <3>2
  <2> QED BY <2>2, <2>3
<1> HIDE DEF m2
<1>10. ASSUME NEW b \in Addrs
       PROVE  (IF b >= start /\ \E p \in Pieces(start, stop - start) : b - start \in p.at .. p.at + p.len - 1
               THEN s[b - addr + 1] ELSE m2[b])
              = (IF b \in addr .. addr + Len(s) - 1 THEN s[b - addr + 1] ELSE m[b])
  <2>1. b \in Nat /\ start \in Nat /\ stop \in Nat /\ stop - start \in Nat
    BY <1>1, <1>2, MemifConstants DEF Addrs
  <2>2. b >= start => ((\E p \in Pieces(start, stop - start) : b - start \in p.at .. p.at + p.len - 1) <=> b < stop)
    <3> SUFFICES ASSUME b >= start
                 PROVE  (\E p \in Pieces(start, stop - start) : b - start \in p.at .. p.at + p.len - 1) <=> b < stop
      OBVIOUS
    <3>1. b - start \in Nat /\ (b - start < stop - start <=> b < stop)
      BY <2>1
    <3> HIDE DEF start, stop
    <3> QED BY <2>1, <3>1, PiecesCover
  <2>3. m2[b] = IF b \in stop .. stop + tail - 1 THEN s2[b - stop + 1] ELSE m1[b]
    BY <1>5, <1>9 DEF Put
  <2>4. m1[b] = IF b \in addr .. addr + head - 1 THEN s1[b - addr + 1] ELSE m[b]
    BY <1>5, <1>6 DEF Put
  <2>5. b \in stop .. stop + tail - 1 => s2[b - stop + 1] = s[b - addr + 1]
    <3> SUFFICES ASSUME b \in stop .. stop + tail - 1 PROVE s2[b - stop + 1] = s[b - addr + 1]
      OBVIOUS
    <3>1. b - stop + 1 \in 1 .. tail /\ len - tail + (b - stop + 1) = b - addr + 1
      BY <1>1, <1>2, <2>1
    <3> QED BY <1>5, <3>1
  <2>6. b \in addr .. addr + head - 1 => s1[b - addr + 1] = s[b - addr + 1]
    <3> SUFFICES ASSUME b \in addr .. addr + head - 1 PROVE s1[b - addr + 1] = s[b - addr + 1]
      OBVIOUS
    <3>1. b - addr + 1 \in 1 .. head
      BY <1>1, <1>2, <2>1
    <3> QED BY <1>5, <3>1
  <2>7. Len(s) = len
    BY DEF len
  <2> DEFINE whole == b \in addr .. addr + len - 1
             inA == b \in addr .. addr + head - 1
             inB == b >= start /\ b < stop
             inC == b \in stop .. stop + tail - 1
  <2>8. (whole <=> (inA \/ inB \/ inC)) /\ ~(inA /\ inC)
    BY <1>1, <1>2, <2>1
  <2> QED BY <2>2, <2>3, <2>4, <2>5, <2>6, <2>7, <2>8
<1>11. Written(m, addr, s) = [b \in Addrs |-> IF b \in addr .. addr + Len(s) - 1 THEN s[b - addr + 1] ELSE m[b]]
  BY <1>4, <1>10
<1> QED BY <1>11 DEF Put

MemifInv == bytes \in Memories /\ WritesExact

\* A range reads as its bytes.
LEMMA ReadExact ==
  ASSUME NEW m \in Memories, NEW addr \in Nat, NEW len \in Nat, NEW k \in 1 .. len
  PROVE  ReadBytes(m, addr, len)[k] = m[addr + k - 1]
<1> DEFINE head == HeadLen(addr, len)
           tail == TailLen(addr, len)
           off  == addr % Align
           first == ReadChunk(m, addr - off, Align)
           last  == ReadChunk(m, addr + len - tail, Align)
<1>1. /\ head \in 0 .. len /\ tail \in 0 .. len - head /\ tail < Align
      /\ off \in 0 .. Align - 1 /\ off <= addr
      /\ (head + off <= Align \/ head = 0)
  BY Cuts
<1>2. Align \in Nat
  BY MemifConstants
<1>3. \A j \in 1 .. Align : first[j] = m[addr - off + j - 1] /\ last[j] = m[addr + len - tail + j - 1]
  BY DEF ReadChunk
<1>4. ReadBytes(m, addr, len)[k] = IF k <= head THEN first[off + k]
                                   ELSE IF k > len - tail THEN last[k - (len - tail)]
                                   ELSE m[addr + k - 1]
  BY DEF ReadBytes
<1> HIDE DEF head, tail, off, first, last
<1>5. CASE k <= head
  <2>1. off + k \in 1 .. Align /\ addr - off + (off + k) - 1 = addr + k - 1
    BY <1>1, <1>2, <1>5
  <2> QED BY <1>3, <1>4, <1>5, <2>1
<1>6. CASE k > head /\ k > len - tail
  <2>1. k - (len - tail) \in 1 .. Align /\ addr + len - tail + (k - (len - tail)) - 1 = addr + k - 1
    BY <1>1, <1>2, <1>6
  <2>2. ~(k <= head)
    BY <1>1, <1>6
  <2> QED BY <1>3, <1>4, <1>6, <2>1, <2>2
<1>7. CASE k > head /\ ~(k > len - tail)
  <2>1. ~(k <= head)
    BY <1>1, <1>7
  <2> QED BY <1>4, <1>7, <2>1
<1> QED BY <1>1, <1>5, <1>6, <1>7

LEMMA MemifInvStep == MemifInv /\ [MemifNext]_memifVars => MemifInv'
<1> SUFFICES ASSUME MemifInv, [MemifNext]_memifVars PROVE MemifInv'
  OBVIOUS
<1>1. ASSUME NEW r \in Ranges, NEW s \in [1 .. r[2] -> Bytes], Write(r[1], s) PROVE MemifInv'
  <2>1. r[1] \in Nat /\ r[2] \in Nat
    BY MemifConstants DEF Ranges, Addrs
  <2>2. s \in Seq(Bytes)
    BY <2>1
  <2>3. bytes' = Put(bytes, r[1], s) /\ wanted' = Put(wanted, r[1], s)
    BY <1>1, <2>1, <2>2, WrittenExact DEF Write, MemifInv, Put
  <2>4. Put(bytes, r[1], s) \in Memories
    BY <2>1, <2>2 DEF MemifInv, Put, Memories, Addrs
  <2> QED BY <2>3, <2>4 DEF MemifInv, WritesExact
<1>2. CASE UNCHANGED memifVars
  BY <1>2 DEF memifVars, MemifInv, WritesExact, Memories
<1> QED BY <1>1, <1>2 DEF MemifNext

\* Whatever ranges memif_t::write is given, in whatever order, the chunks it writes leave
\* the memory with their bytes and no other byte changed, and memif_t::read returns them,
\* for every size of memory, chunk and largest transfer.
THEOREM RangesAlwaysExact == MemifSpec => []RangesExact
<1>1. MemifInit => MemifInv
  BY MemifConstants DEF MemifInit, MemifInv, WritesExact, Memories
<1>2. MemifInv => RangesExact
  <2> SUFFICES ASSUME MemifInv PROVE RangesExact
    OBVIOUS
  <2>1. ASSUME NEW r \in Ranges, NEW k \in 1 .. r[2]
        PROVE  ReadBytes(bytes, r[1], r[2])[k] = wanted[r[1] + k - 1]
    <3>1. r[1] \in Nat /\ r[2] \in Nat
      BY MemifConstants DEF Ranges, Addrs
    <3> QED BY <3>1, ReadExact DEF MemifInv, WritesExact
  <2> QED BY <2>1 DEF RangesExact, RangesReadBack, MemifInv
<1> QED BY <1>1, <1>2, MemifInvStep, PTL DEF MemifSpec

-----------------------------------------------------------------------------
(* Rfb: clients are sent whole frames.                                     *)

Handshake == {"accept", "version", "clientinit", "unlock"}

\* The thread holds the lock through the handshake, nobody is connected before it, and
\* past it the client has been told the size.
HandshakeSound ==
  /\ rfb \in {"none", "start", "yield", "read", "encodings", "closing", "ended"} \cup Handshake
  /\ rfb \in Handshake => lock = "thread"
  /\ rfb \in {"none", "start", "accept"} => client = "none"
  /\ rfb \in {"unlock", "yield", "read", "encodings", "closing"} => stage \in {"init", "update"}

Pixels == [1 .. Parts -> {0, 1}]

\* The picture: fb2 holds the running sweep up to where it has got, fb1 a whole sweep.
PictureSound ==
  /\ read_pos \in 0 .. Parts - 1 /\ sweep \in {0, 1}
  /\ fb1 \in Pixels /\ fb2 \in Pixels /\ frame \in Pixels
  /\ \A p \in 1 .. Parts : p <= read_pos => fb2[p] = sweep
  /\ \A p, q \in 1 .. Parts : fb1[p] = fb1[q]
  /\ FramesWhole

\* What the frame buffer's theorems rest on.
RfbInv == HandshakeSound /\ PictureSound

\* The position wraps at the last piece only.
LEMMA WrapsAtEnd ==
  ASSUME NEW p \in 0 .. Parts - 1
  PROVE  (p + 1) % Parts = IF p = Parts - 1 THEN 0 ELSE p + 1
<1>1. Parts \in Nat /\ Parts > 0
  BY RfbAssumption
<1>2. CASE p = Parts - 1
  <2>1. p + 1 = Parts
    BY <1>1, <1>2
  <2>2. Parts % Parts = 0
    BY <1>1
  <2> QED BY <2>1, <2>2, <1>2
<1>3. CASE p # Parts - 1
  <2>1. p + 1 \in 0 .. Parts - 1
    BY <1>1, <1>3
  <2>2. (p + 1) % Parts = p + 1
    BY <2>1, <1>1
  <2> QED BY <2>2, <1>3
<1> QED BY <1>2, <1>3

\* A copied piece leaves the buffers sound, at the end of a sweep as before it.
LEMMA CopyKeepsPicture ==
  ASSUME PictureSound, Copy
  PROVE  PictureSound'
<1> DEFINE filled == [fb2 EXCEPT ![read_pos + 1] = sweep]
<1>1. Parts \in Nat /\ Parts > 1
  BY RfbAssumption
<1>2. read_pos' = IF Swept THEN 0 ELSE read_pos + 1
  BY WrapsAtEnd DEF PictureSound, Copy, Swept
<1>3. /\ filled \in Pixels
      /\ \A p \in 1 .. Parts : p <= read_pos + 1 => filled[p] = sweep
  BY <1>1 DEF PictureSound, Pixels
<1>4. /\ frame' = frame
      /\ sweep' = IF Swept THEN 1 - sweep ELSE sweep
      /\ IF Swept THEN fb1' = filled /\ fb2' = fb1 ELSE fb2' = filled /\ fb1' = fb1
  BY DEF Copy
<1> HIDE DEF filled
<1>5. CASE Swept
  <2>1. \A p \in 1 .. Parts : filled[p] = sweep
    BY <1>1, <1>3, <1>5 DEF Swept, PictureSound
  <2>2. /\ read_pos' = 0 /\ sweep' \in {0, 1} /\ fb1' = filled /\ fb2' = fb1
    BY <1>2, <1>4, <1>5 DEF PictureSound
  <2>3. \A p, q \in 1 .. Parts : fb1'[p] = fb1'[q]
    BY <2>1, <2>2
  <2> QED
    BY <1>1, <1>3, <1>4, <2>2, <2>3 DEF PictureSound, FramesWhole
<1>6. CASE ~Swept
  <2>1. /\ read_pos' = read_pos + 1 /\ sweep' = sweep /\ fb1' = fb1 /\ fb2' = filled
    BY <1>2, <1>4, <1>6
  <2>2. read_pos' \in 0 .. Parts - 1
    BY <1>1, <1>6, <2>1 DEF PictureSound, Swept
  <2> QED
    BY <1>1, <1>3, <1>4, <2>1, <2>2 DEF PictureSound, FramesWhole
<1> QED BY <1>5, <1>6

LEMMA RfbInvInit == RfbInit => RfbInv
<1> SUFFICES ASSUME RfbInit PROVE RfbInv
  OBVIOUS
<1>1. Parts \in Nat /\ Parts > 1
  BY RfbAssumption
<1>2. Blank \in Pixels /\ \A p \in 1 .. Parts : Blank[p] = 0
  BY DEF Blank, Pixels
<1>3. HandshakeSound
  BY DEF RfbInit, HandshakeSound, Handshake
<1>4. PictureSound
  BY <1>1, <1>2 DEF RfbInit, PictureSound, FramesWhole
<1> QED BY <1>3, <1>4 DEF RfbInv

LEMMA RfbInvStep == RfbInv /\ [RfbNext]_rfbVars => RfbInv'
<1> SUFFICES ASSUME RfbInv, [RfbNext]_rfbVars PROVE RfbInv'
  OBVIOUS
<1> USE DEF RfbInv
<1>1. CASE Copy
  <2>1. PictureSound'
    BY <1>1, CopyKeepsPicture
  <2>2. HandshakeSound'
    BY <1>1 DEF Copy, HandshakeSound, Handshake
  <2> QED BY <2>1, <2>2
<1>2. CASE FbUpdate
  <2>1. PictureSound'
    BY <1>2 DEF FbUpdate, PictureSound, FramesWhole
  <2>2. HandshakeSound'
    BY <1>2 DEF FbUpdate, HandshakeSound, Handshake
  <2> QED BY <2>1, <2>2
<1>3. CASE UNCHANGED picture /\ RfbNext /\ ~Sim
  <2>1. PictureSound'
    BY <1>3 DEF PictureSound, FramesWhole, picture
  <2>2. HandshakeSound'
    BY <1>3 DEF RfbNext, Configure, SetAddress, Thread, Enter, HungUpEarly, RfbUnlock, Yield, ReadEnd, HangUp,
                Accept, ReadVersion, ReadInit, ReadCommand, ReadEncodings, ClientLeaves, ClientReads,
                HandshakeSound, Handshake
  <2> QED BY <2>1, <2>2
<1>4. CASE UNCHANGED rfbVars
  BY <1>4 DEF rfbVars, HandshakeSound, Handshake, PictureSound, FramesWhole
<1>5. RfbNext /\ ~Sim => UNCHANGED picture
  BY DEF RfbNext, Configure, SetAddress, Thread, Enter, HungUpEarly, RfbUnlock, Yield, ReadEnd, HangUp,
         Accept, ReadVersion, ReadInit, ReadCommand, ReadEncodings, ClientLeaves, ClientReads
<1> QED BY <1>1, <1>2, <1>3, <1>4, <1>5 DEF Sim

\* Nothing but the simulation's write sends an update, and it has the lock then.
LEMMA UpdateStep ==
  RfbInv /\ [RfbNext]_rfbVars => [stage' = "update" => stage \in {"init", "update"}]_rfbVars
<1> SUFFICES ASSUME RfbInv, RfbNext, stage' = "update" PROVE stage \in {"init", "update"}
  OBVIOUS
<1>1. CASE FbUpdate /\ client = "open"
  <2>1. lock = "sim" /\ rfb # "ended"
    BY <1>1 DEF FbUpdate
  <2>2. rfb \in {"yield", "read", "encodings", "closing"}
    BY <1>1, <2>1 DEF RfbInv, HandshakeSound, Handshake
  <2> QED BY <2>2 DEF RfbInv, HandshakeSound
<1>2. CASE ~(FbUpdate /\ client = "open")
  BY <1>2 DEF RfbNext, Sim, Copy, FbUpdate, Configure, SetAddress, Thread, Enter, HungUpEarly, RfbUnlock, Yield,
         ReadEnd, HangUp, Accept, ReadVersion, ReadInit, ReadCommand, ReadEncodings, ClientLeaves, ClientReads
<1> QED BY <1>1, <1>2

\* However ticks, the thread and clients interleave (tick, fb_update and thread_main), a
\* client is sent whole frames, and none before the handshake has told it the size.
THEOREM FramesAlwaysExact == RfbSpec => FramesExact
<1>1. RfbSpec => []RfbInv
  BY RfbInvInit, RfbInvStep, PTL DEF RfbSpec
<1>2. RfbInv => FramesWhole
  BY DEF RfbInv, PictureSound
<1> QED
  BY <1>1, <1>2, UpdateStep, PTL DEF RfbSpec, FramesExact, UpdatesAfterInit
=============================================================================
