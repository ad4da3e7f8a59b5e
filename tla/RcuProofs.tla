------------------------------ MODULE RcuProofs ------------------------------
(***************************************************************************)
(* For any number of CPUs and callbacks, rcupdate.c keeps the promise of   *)
(* GracePeriod.  The heart is Covered: a section that a callback waits for *)
(* still holds back the batch of the callback.  And rcu_barrier() returns  *)
(* when the callbacks queued before it have been invoked.                  *)
(***************************************************************************)
EXTENDS Rcu, SequenceTheorems, FiniteSetTheorems, TLAPS

USE ZenonT(90)

\* All that CPU c has to invoke, in that order.
Chain(c) == donelist[c] \o (curlist[c] \o nxtlist[c])

Distinct(s) == \A i, j \in DOMAIN s : s[i] = s[j] => i = j

-----------------------------------------------------------------------------
\* The inductive invariant

\* Only online CPUs read, the CPU that comes or goes is offline, and a
\* callback waits for open sections only.
Sections ==
  /\ reading \subseteq cpu_online_map
  /\ hot \notin cpu_online_map
  /\ \A c \in Cpus : pc[c] \in Notifying => c = Boot /\ hot # Nobody
  /\ \A cb \in Heads : waits[cb] \subseteq reading

\* rcu_start_batch() is called with the lock held, and raises cur only when
\* no batch is running.
Locked ==
  \A c \in Cpus :
    /\ pc[c] \in {"start", "restart", "flushed", "cur", "recur", "flushed_cur"} => lock = c
    /\ pc[c] \in {"cur", "recur", "flushed_cur"} => completed = cur

OneBatch == completed <= cur /\ cur <= completed + 1

\* The lists hold queued callbacks, each of them once.
Listed ==
  /\ \A c \in Cpus : Distinct(Chain(c)) /\ Range(Chain(c)) \subseteq queued
  /\ \A c, d \in Cpus : c # d => Range(Chain(c)) \cap Range(Chain(d)) = {}

\* A section that a callback waits for holds back the callback's batch.
Covered ==
  \A c \in Cpus :
    /\ \A cb \in Range(donelist[c]) : waits[cb] = {}
    /\ \A cb \in Range(curlist[c]) : \A r \in waits[cb] :
         batch[c] > completed /\ (batch[c] = cur => r \in cpumask)

IInv == TypeOK /\ Sections /\ Locked /\ OneBatch /\ Awaited /\ Listed /\ Covered

-----------------------------------------------------------------------------
\* Sequences

LEMMA RangeAppend ==
  ASSUME NEW S, NEW s \in Seq(S), NEW e \in S
  PROVE  Range(Append(s, e)) = Range(s) \cup {e}
<1>1. <<e>> \in Seq(S) /\ Range(<<e>>) = {e}
  BY SMTT(30) DEF Range
<1>2. Range(s \o <<e>>) = Range(s) \cup Range(<<e>>)
  BY <1>1, RangeConcatenation
<1> QED
  BY <1>1, <1>2, AppendIsConcat

LEMMA DistinctAppend ==
  ASSUME NEW S, NEW s \in Seq(S), NEW e \in S, Distinct(s), e \notin Range(s)
  PROVE  Distinct(Append(s, e))
<1>1. DOMAIN Append(s, e) = 1 .. Len(s) + 1 /\ DOMAIN s = 1 .. Len(s)
  BY AppendProperties, LenProperties, SMTT(30)
<1>2. \A i \in 1 .. Len(s) : Append(s, e)[i] = s[i] /\ s[i] # e
  BY AppendProperties, RangeEquality, SMTT(30)
<1>3. Append(s, e)[Len(s) + 1] = e
  BY AppendProperties
<1> QED
  BY <1>1, <1>2, <1>3, LenProperties, SMTT(30) DEF Distinct

LEMMA DistinctTail ==
  ASSUME NEW S, NEW s \in Seq(S), s # <<>>, Distinct(s)
  PROVE  /\ Distinct(Tail(s)) /\ Range(Tail(s)) = Range(s) \ {Head(s)}
<1>1. Tail(s) \in Seq(S) /\ Len(Tail(s)) = Len(s) - 1 /\ Len(s) \in Nat \ {0}
  BY HeadTailProperties, EmptySeq
<1>2. \A i \in 1 .. Len(Tail(s)) : Tail(s)[i] = s[i + 1]
  BY HeadTailProperties
<1>3. DOMAIN s = 1 .. Len(s) /\ DOMAIN Tail(s) = 1 .. Len(s) - 1
  BY <1>1, LenProperties
<1>4. Distinct(Tail(s))
  BY <1>1, <1>2, <1>3, SMTT(30) DEF Distinct
<1>5. Range(Tail(s)) = {s[i] : i \in 2 .. Len(s)}
  <2>1. Range(Tail(s)) = {Tail(s)[i] : i \in 1 .. Len(s) - 1}
    BY <1>1, RangeEquality
  <2>2. \A i \in 2 .. Len(s) : i - 1 \in 1 .. Len(s) - 1 /\ Tail(s)[i - 1] = s[i]
    BY <1>1, <1>2, SMTT(30)
  <2>3. \A i \in 1 .. Len(s) - 1 : i + 1 \in 2 .. Len(s) /\ Tail(s)[i] = s[i + 1]
    BY <1>1, <1>2, SMTT(30)
  <2>4. ASSUME NEW x \in Range(Tail(s)) PROVE x \in {s[i] : i \in 2 .. Len(s)}
    <3>1. PICK i \in 1 .. Len(s) - 1 : x = Tail(s)[i]
      BY <2>1
    <3> QED
      BY <3>1, <2>3
  <2>5. ASSUME NEW x \in {s[i] : i \in 2 .. Len(s)} PROVE x \in Range(Tail(s))
    <3>1. PICK i \in 2 .. Len(s) : x = s[i]
      OBVIOUS
    <3> QED
      BY <3>1, <2>1, <2>2
  <2> QED
    BY <2>4, <2>5
<1>6. Head(s) = s[1]
  BY <1>1, SMTT(30)
<1>7. Range(s) = {s[i] : i \in 1 .. Len(s)}
  BY RangeEquality
<1> QED
  BY <1>1, <1>3, <1>4, <1>5, <1>6, <1>7, SMTT(30) DEF Distinct

LEMMA DistinctConcat ==
  ASSUME NEW S, NEW s \in Seq(S), NEW t \in Seq(S), Distinct(s), Distinct(t),
         Range(s) \cap Range(t) = {}
  PROVE  Distinct(s \o t)
<1>1. DOMAIN (s \o t) = 1 .. Len(s) + Len(t) /\ Len(s) \in Nat /\ Len(t) \in Nat
  BY ConcatProperties, LenProperties, SMTT(30)
<1>2. \A i \in 1 .. Len(s) : (s \o t)[i] = s[i] /\ s[i] \in Range(s)
  BY ConcatProperties, RangeEquality, SMTT(30)
<1>3. \A i \in Len(s) + 1 .. Len(s) + Len(t) :
         /\ (s \o t)[i] = t[i - Len(s)] /\ t[i - Len(s)] \in Range(t)
         /\ i - Len(s) \in 1 .. Len(t)
  BY <1>1, ConcatProperties, RangeEquality, SMTT(30)
<1>4. DOMAIN s = 1 .. Len(s) /\ DOMAIN t = 1 .. Len(t)
  BY LenProperties
<1> QED
  BY <1>1, <1>2, <1>3, <1>4, SMTT(30) DEF Distinct

LEMMA TailConcat ==
  ASSUME NEW S, NEW s \in Seq(S), NEW t \in Seq(S), s # <<>>
  PROVE  Tail(s) \o t = Tail(s \o t) /\ Head(s \o t) = Head(s) /\ s \o t # <<>>
<1>1. Len(s) \in Nat \ {0} /\ Len(t) \in Nat
  BY EmptySeq, LenProperties
<1>2. s \o t \in Seq(S) /\ Len(s \o t) = Len(s) + Len(t)
  BY ConcatProperties
<1>3. s \o t # <<>>
  BY <1>1, <1>2, EmptySeq, SMTT(30)
<1>4. /\ Tail(s) \in Seq(S) /\ Len(Tail(s)) = Len(s) - 1
      /\ Tail(s \o t) \in Seq(S) /\ Len(Tail(s \o t)) = Len(s) + Len(t) - 1
  BY <1>2, <1>3, HeadTailProperties, SMTT(30)
<1>5. Tail(s) \o t \in Seq(S) /\ Len(Tail(s) \o t) = Len(s) + Len(t) - 1
  BY <1>1, <1>4, ConcatProperties, SMTT(30)
<1>6. ASSUME NEW i \in 1 .. Len(s) + Len(t) - 1
      PROVE  (Tail(s) \o t)[i] = Tail(s \o t)[i]
  <2>1. Tail(s \o t)[i] = (s \o t)[i + 1]
    BY <1>2, <1>3, <1>4, HeadTailProperties
  <2>2. (s \o t)[i + 1] = IF i + 1 <= Len(s) THEN s[i + 1] ELSE t[i + 1 - Len(s)]
    BY <1>1, ConcatProperties, SMTT(30)
  <2>3. (Tail(s) \o t)[i] = IF i <= Len(s) - 1 THEN Tail(s)[i] ELSE t[i - (Len(s) - 1)]
    BY <1>1, <1>4, ConcatProperties, SMTT(30)
  <2>4. i <= Len(s) - 1 => Tail(s)[i] = s[i + 1]
    BY <1>1, <1>4, HeadTailProperties, SMTT(30)
  <2> QED
    BY <1>1, <2>1, <2>2, <2>3, <2>4, SMTT(30)
<1>7. Tail(s) \o t = Tail(s \o t)
  BY <1>4, <1>5, <1>6, SeqEqual
<1>8. Head(s \o t) = Head(s)
  BY <1>1, <1>2, ConcatProperties, SMTT(30)
<1> QED
  BY <1>3, <1>7, <1>8

LEMMA AppendConcat ==
  ASSUME NEW S, NEW s \in Seq(S), NEW t \in Seq(S), NEW e \in S
  PROVE  s \o Append(t, e) = Append(s \o t, e)
<1>1. <<e>> \in Seq(S)
  BY SMTT(30)
<1>2. s \o (t \o <<e>>) = (s \o t) \o <<e>>
  BY <1>1, ConcatAssociative, SMTT(30)
<1>3. s \o t \in Seq(S)
  BY ConcatProperties
<1> QED
  BY <1>2, <1>3, AppendIsConcat
-----------------------------------------------------------------------------
\* Steps

\* The kinds of steps, by what they change.  Control steps leave lists,
\* sections and history alone.
Control(c) ==
  \/ LookPending(c) \/ Register(c) \/ CheckQuiescent(c) \/ Quiet(c) \/ Leave(c)
  \/ StartTest(c, "start", "cur", "check") \/ StartCur(c, "cur", "check")
  \/ StartTest(c, "restart", "recur", "batch") \/ StartCur(c, "recur", "batch")
  \/ CpuDown(c) \/ BarrierReturn(c)

HotplugControl ==
  \/ Flush \/ StartTest(Boot, "flushed", "flushed_cur", "take")
  \/ StartCur(Boot, "flushed_cur", "take")
  \/ CpuOnline \/ CpuCancel \/ CpuDie \/ BarrierEnd

LEMMA StepCases ==
  ASSUME [Next]_vars
  PROVE  \/ \E c \in Cpus : \/ Enter(c) \/ Exit(c) \/ Softirq(c) \/ NextToCur(c) \/ Invoke(c)
                            \/ CpuPrepare(c) \/ BarrierCall(c) \/ Control(c)
         \/ \E c \in Cpus, cb \in Callbacks : CallRcu(c, cb)
         \/ Take \/ HotplugControl \/ BarrierBegin \/ UNCHANGED vars
BY DEF Next, Handler, Hotplug, rcu_start_batch, Control, HotplugControl, BarrierSpin

\* What is queued where is not affected by control steps.
LEMMA ControlKeepsLists ==
  ASSUME (\E c \in Cpus : Control(c)) \/ HotplugControl
  PROVE  UNCHANGED <<nxtlist, curlist, donelist, batch, reading, queued, waits>>
<1> USE DEF ctrl, rdp, hist, rest, vars
<1>1. CASE \E c \in Cpus : Control(c)
  BY <1>1 DEF Control, LookPending, Register, CheckQuiescent, Quiet, Leave, StartTest, StartCur,
              CpuDown, BarrierReturn
<1>2. CASE HotplugControl
  BY <1>2 DEF HotplugControl, Flush, StartTest, StartCur, CpuOnline, CpuCancel, CpuDie, BarrierEnd
<1> QED
  BY <1>1, <1>2

LEMMA HeadsType == \A c \in Cpus : BarrierHead(c) \in Heads
BY DEF Heads, BarrierHeads

(* call_rcu() keeps the types. *)
LEMMA CallType ==
  ASSUME TypeOK, NEW c \in Cpus, NEW cb \in Heads, call_rcu(c, cb)
  PROVE  /\ nxtlist' \in [Cpus -> Seq(Heads)] /\ forced' \subseteq Cpus /\ queued' \subseteq Heads
         /\ waits' \in [Heads -> SUBSET Cpus]
<1>1. Append(nxtlist[c], cb) \in Seq(Heads)
  BY AppendProperties DEF TypeOK
<1> QED
  BY <1>1 DEF TypeOK, call_rcu

LEMMA ExceptType ==
  ASSUME NEW S, NEW f \in [Cpus -> S], NEW c \in Cpus, NEW e \in S
  PROVE  [f EXCEPT ![c] = e] \in [Cpus -> S]
OBVIOUS

(* Control moves from label to label. *)
LEMMA PcStep ==
  ASSUME TypeOK, [Next]_vars
  PROVE  pc' \in [Cpus -> Labels]
<1>1. ASSUME NEW c \in Cpus, NEW to \in Labels, Goto(c, to) PROVE pc' \in [Cpus -> Labels]
  BY <1>1 DEF Goto, TypeOK
<1>2. CASE UNCHANGED pc
  BY <1>2 DEF TypeOK
<1>3. \/ UNCHANGED pc
      \/ \E c \in Cpus, to \in Labels : Goto(c, to)
  <2>1. ASSUME NEW c \in Cpus, Softirq(c) \/ NextToCur(c) \/ LookPending(c) \/ Register(c)
                 \/ CheckQuiescent(c) \/ Leave(c)
        PROVE  \E to \in Labels : Goto(c, to)
    BY <2>1 DEF Softirq, NextToCur, LookPending, Register, CheckQuiescent, Leave, Labels
  <2>2. ASSUME NEW c \in Cpus, Quiet(c) PROVE \E to \in Labels : Goto(c, to)
    BY <2>2 DEF Quiet, cpu_quiet, Labels
  <2>3. ASSUME NEW c \in Cpus, NEW at, NEW mid \in Labels, NEW to \in Labels,
               StartTest(c, at, mid, to) \/ StartCur(c, mid, to)
        PROVE  \E label \in Labels : Goto(c, label)
    BY <2>3 DEF StartTest, StartCur
  <2>4. {"cur", "check", "recur", "batch", "flushed_cur", "take"} \subseteq Labels
    BY DEF Labels, Notifying
  <2>5. ASSUME NEW c \in Cpus, CpuDown(c) PROVE UNCHANGED pc
    BY <2>5 DEF CpuDown
  <2>6. ASSUME Flush PROVE \E to \in Labels : Goto(Boot, to)
    BY <2>6 DEF Flush, cpu_quiet, Labels, Notifying
  <2>7. ASSUME Take \/ CpuCancel \/ CpuDie PROVE \E to \in Labels : Goto(Boot, to)
    BY <2>7 DEF Take, CpuCancel, CpuDie, Labels, Notifying
  <2>8. ASSUME NEW c \in Cpus, Enter(c) \/ Exit(c) \/ Invoke(c) \/ CpuPrepare(c) \/ BarrierCall(c)
                 \/ BarrierReturn(c)
        PROVE  UNCHANGED pc
    BY <2>8 DEF Enter, Exit, Invoke, CpuPrepare, BarrierCall, BarrierReturn, call_rcu
  <2>9. ASSUME CpuOnline \/ BarrierBegin \/ BarrierEnd \/ UNCHANGED vars PROVE UNCHANGED pc
    BY <2>9 DEF CpuOnline, BarrierBegin, BarrierEnd, vars
  <2>10. ASSUME NEW c \in Cpus, NEW cb \in Callbacks, CallRcu(c, cb) PROVE UNCHANGED pc
    BY <2>10 DEF CallRcu, call_rcu
  <2> QED
    BY <2>1, <2>2, <2>3, <2>4, <2>5, <2>6, <2>7, <2>8, <2>9, <2>10, StepCases, RcuConstants
       DEF Control, HotplugControl
<1> QED
  BY <1>1, <1>2, <1>3

(* Every step of the handler, of hotplug and of the barrier keeps every    *)
(* field in its type.                                                      *)
LEMMA TypeStep ==
  ASSUME TypeOK, Sections, [Next]_vars
  PROVE  TypeOK'
<1>0. pc' \in [Cpus -> Labels]
  BY PcStep
<1> DEFINE Lists == [Cpus -> Seq(Heads)]
<1>a. /\ cur \in Nat /\ cpu_count \in Nat /\ cpu_online_map \subseteq Cpus
      /\ quiescbatch \in [Cpus -> Nat] /\ batch \in [Cpus -> Nat] /\ count \in [Cpus -> Nat]
      /\ qs_pending \subseteq Cpus
  BY DEF TypeOK
<1>b. nxtlist \in Lists /\ curlist \in Lists /\ donelist \in Lists
  BY DEF TypeOK
<1> USE RcuConstants DEF ctrl, rdp, hist, rest
<1>1. ASSUME NEW c \in Cpus, Enter(c) PROVE TypeOK'
  BY <1>0, <1>1 DEF TypeOK, Enter
<1>2. ASSUME NEW c \in Cpus, Exit(c) PROVE TypeOK'
  BY <1>0, <1>2 DEF TypeOK, Exit
<1>3. ASSUME NEW c \in Cpus, Softirq(c) PROVE TypeOK'
  <2>1. donelist[c] \o curlist[c] \in Seq(Heads) /\ <<>> \in Seq(Heads)
    BY <1>b, ConcatProperties, EmptySeq
  <2> QED
    <3>1. \/ UNCHANGED <<donelist, curlist>>
          \/ /\ donelist' = [donelist EXCEPT ![c] = donelist[c] \o curlist[c]]
             /\ curlist' = [curlist EXCEPT ![c] = <<>>]
      BY <1>3 DEF Softirq
    <3>2. /\ [donelist EXCEPT ![c] = donelist[c] \o curlist[c]] \in Lists
          /\ [curlist EXCEPT ![c] = <<>>] \in Lists
      BY <1>b, <2>1, ExceptType
    <3>3. donelist' \in Lists /\ curlist' \in Lists
      BY <1>b, <3>1, <3>2
    <3> QED
      BY <1>0, <1>3, <3>3 DEF TypeOK, Softirq
<1>4. ASSUME NEW c \in Cpus, NextToCur(c) PROVE TypeOK'
  <2>1. <<>> \in Seq(Heads)
    BY EmptySeq
  <2> QED
    <3>1. \/ UNCHANGED <<nxtlist, curlist, batch>>
          \/ /\ curlist' = [curlist EXCEPT ![c] = nxtlist[c]]
             /\ nxtlist' = [nxtlist EXCEPT ![c] = <<>>]
             /\ batch' = [batch EXCEPT ![c] = cur + 1]
      BY <1>4 DEF NextToCur
    <3>2. nxtlist[c] \in Seq(Heads) /\ cur + 1 \in Nat
      BY <1>a, <1>b, SMTT(30)
    <3>3. /\ [curlist EXCEPT ![c] = nxtlist[c]] \in Lists
          /\ [nxtlist EXCEPT ![c] = <<>>] \in Lists
          /\ [batch EXCEPT ![c] = cur + 1] \in [Cpus -> Nat]
      BY <1>a, <1>b, <2>1, <3>2, ExceptType
    <3>4. nxtlist' \in Lists /\ curlist' \in Lists /\ batch' \in [Cpus -> Nat]
      BY <1>a, <1>b, <3>1, <3>3
    <3> QED
      BY <1>0, <1>4, <3>4 DEF TypeOK, NextToCur
<1>5. ASSUME NEW c \in Cpus, Invoke(c) PROVE TypeOK'
  <2>1. Tail(donelist[c]) \in Seq(Heads)
    BY <1>b, <1>5, HeadTailProperties DEF Invoke
  <2> QED
    <3>1. donelist' \in [Cpus -> Seq(Heads)]
      BY <1>b, <1>5, <2>1, ExceptType DEF Invoke
    <3>2. cpu_count' \in Nat
      BY <1>a, <1>5, SMTT(30) DEF Invoke
    <3>3. count' \in [Cpus -> Nat]
      <4>1. count' = [count EXCEPT ![c] = count[c] + 1]
        BY <1>5 DEF Invoke
      <4>2. count[c] + 1 \in Nat
        BY <1>a, SMTT(30)
      <4> QED
        BY <1>a, <4>1, <4>2, ExceptType
    <3> QED
      BY <1>0, <1>5, <3>1, <3>2, <3>3 DEF TypeOK, Invoke
<1>6. ASSUME NEW c \in Cpus, CpuPrepare(c) PROVE TypeOK'
  <2>1. <<>> \in Seq(Heads)
    BY EmptySeq
  <2> QED
    BY <1>0, <1>6, <2>1 DEF TypeOK, CpuPrepare
<1>7. ASSUME NEW c \in Cpus, BarrierCall(c) PROVE TypeOK'
  <2>1. call_rcu(c, BarrierHead(c)) /\ BarrierHead(c) \in Heads
    BY <1>7, HeadsType DEF BarrierCall
  <2> QED
    BY <1>0, <1>7, <2>1, CallType DEF TypeOK, BarrierCall, call_rcu
<1>8. ASSUME NEW c \in Cpus, Control(c) PROVE TypeOK'
  <2>1. CASE LookPending(c) \/ Register(c)
    BY <1>0, <2>1 DEF TypeOK, LookPending, Register
  <2>2. CASE CheckQuiescent(c)
    <3>1. UNCHANGED quiescbatch \/ quiescbatch' = [quiescbatch EXCEPT ![c] = cur]
      BY <2>2 DEF CheckQuiescent
    <3>2. quiescbatch' \in [Cpus -> Nat]
      BY <1>a, <3>1, ExceptType
    <3>3. qs_pending' \subseteq Cpus
      BY <1>a, <2>2 DEF CheckQuiescent
    <3> QED
      BY <1>0, <2>2, <3>2, <3>3 DEF TypeOK, CheckQuiescent
  <2>3. CASE Quiet(c)
    BY <1>0, <2>3 DEF TypeOK, Quiet, cpu_quiet
  <2>4. CASE Leave(c)
    BY <1>0, <2>4 DEF TypeOK, Leave
  <2>5. CASE StartTest(c, "start", "cur", "check") \/ StartTest(c, "restart", "recur", "batch")
    BY <1>0, <2>5 DEF TypeOK, StartTest
  <2>6. CASE StartCur(c, "cur", "check") \/ StartCur(c, "recur", "batch")
    <3>1. cur' = cur + 1 /\ cpumask' = cpu_online_map /\ lock' = Nobody
      BY <2>6 DEF StartCur
    <3>2. cur' \in Nat
      BY <1>a, <3>1, SMTT(30)
    <3> QED
      BY <1>0, <2>6, <3>1, <3>2 DEF TypeOK, StartCur
  <2>7. CASE CpuDown(c)
    BY <1>0, <2>7 DEF TypeOK, CpuDown
  <2>8. CASE BarrierReturn(c)
    BY <1>0, <2>8 DEF TypeOK, BarrierReturn
  <2> QED
    BY <1>8, <2>1, <2>2, <2>3, <2>4, <2>5, <2>6, <2>7, <2>8 DEF Control
<1>9. ASSUME NEW c \in Cpus, NEW cb \in Callbacks, CallRcu(c, cb) PROVE TypeOK'
  <2>1. call_rcu(c, cb) /\ cb \in Heads
    BY <1>9 DEF CallRcu, Heads
  <2> QED
    BY <1>0, <1>9, <2>1, CallType DEF TypeOK, CallRcu, call_rcu
<1>10. CASE Take
  <2>1. hot \in Cpus
    BY <1>10 DEF TypeOK, Take, Sections, At, Notifying
  <2>2. nxtlist[Boot] \o (donelist[hot] \o (curlist[hot] \o nxtlist[hot])) \in Seq(Heads)
    <3>1. curlist[hot] \o nxtlist[hot] \in Seq(Heads)
      BY <1>b, <2>1, ConcatProperties
    <3>2. donelist[hot] \o (curlist[hot] \o nxtlist[hot]) \in Seq(Heads)
      BY <1>b, <2>1, <3>1, ConcatProperties
    <3> QED
      BY <1>b, <2>1, <3>2, ConcatProperties
  <2>3. <<>> \in Seq(Heads)
    BY EmptySeq
  <2> QED
    BY <1>0, <1>10, <2>1, <2>2, <2>3 DEF TypeOK, Take
<1>11. CASE HotplugControl
  <2>1. CASE Flush
    BY <1>0, <2>1 DEF TypeOK, Flush, cpu_quiet
  <2>2. CASE StartTest(Boot, "flushed", "flushed_cur", "take")
    BY <1>0, <2>2 DEF TypeOK, StartTest
  <2>3. CASE StartCur(Boot, "flushed_cur", "take")
    <3>1. cur' = cur + 1 /\ cpumask' = cpu_online_map /\ lock' = Nobody
      BY <2>3 DEF StartCur
    <3>2. cur' \in Nat
      BY <1>a, <3>1, SMTT(30)
    <3> QED
      BY <1>0, <2>3, <3>1, <3>2 DEF TypeOK, StartCur
  <2>4. CASE CpuOnline \/ CpuCancel \/ CpuDie
    BY <1>0, <2>4 DEF TypeOK, CpuOnline, CpuCancel, CpuDie
  <2>5. CASE BarrierEnd
    BY <1>0, <2>5 DEF TypeOK, BarrierEnd
  <2> QED
    BY <1>11, <2>1, <2>2, <2>3, <2>4, <2>5 DEF HotplugControl
<1>12. CASE BarrierBegin
  BY <1>0, <1>12 DEF TypeOK, BarrierBegin
<1>13. CASE UNCHANGED vars
  BY <1>13 DEF TypeOK, vars
<1> QED
  BY <1>1, <1>2, <1>3, <1>4, <1>5, <1>6, <1>7, <1>8, <1>9, <1>10, <1>11, <1>12, <1>13, StepCases

\* The part of the invariant about rcu_ctrlblk
CtrlInv == Locked /\ OneBatch /\ Awaited

Unlocked == {"out", "next", "look", "register", "check", "quiet", "batch", "flush", "take"}

(* A CPU that moves between labels outside the lock and leaves rcu_ctrlblk  *)
(* alone disturbs nothing.                                                 *)
LEMMA PlainMove ==
  ASSUME TypeOK, CtrlInv, UNCHANGED ctrl, NEW c \in Cpus, NEW to \in Unlocked,
         Goto(c, to) \/ UNCHANGED pc
  PROVE  CtrlInv'
BY DEF CtrlInv, Locked, OneBatch, Awaited, ctrl, Goto, Unlocked, TypeOK

(* Taking the lock, or giving it up.                                       *)
LEMMA StartTestStep ==
  ASSUME TypeOK, CtrlInv, NEW c \in Cpus, NEW at \in {"start", "restart", "flushed"},
         NEW mid \in {"cur", "recur", "flushed_cur"}, NEW to \in Unlocked,
         StartTest(c, at, mid, to)
  PROVE  CtrlInv'
<1> USE DEF CtrlInv, Locked, StartTest, At, Goto
<1>1. lock = c /\ pc[c] = at /\ UNCHANGED <<cur, completed, cpumask>>
  OBVIOUS
<1>2. \A d \in Cpus : d # c => pc[d] \notin {"start", "restart", "flushed", "cur", "recur", "flushed_cur"}
  BY <1>1, RcuConstants
<1>3. OneBatch' /\ Awaited'
  BY <1>1 DEF OneBatch, Awaited
<1>4. CASE next_pending /\ completed = cur
  BY <1>1, <1>2, <1>3, <1>4 DEF TypeOK
<1>5. CASE ~(next_pending /\ completed = cur)
  BY <1>1, <1>2, <1>3, <1>5, RcuConstants DEF TypeOK, Unlocked
<1> QED
  BY <1>4, <1>5

LEMMA StartCurStep ==
  ASSUME TypeOK, CtrlInv, NEW c \in Cpus, NEW mid \in {"cur", "recur", "flushed_cur"},
         NEW to \in Unlocked, StartCur(c, mid, to)
  PROVE  CtrlInv'
<1>1. /\ lock = c /\ pc[c] = mid /\ completed = cur
      /\ cur' = cur + 1 /\ cpumask' = cpu_online_map /\ UNCHANGED completed
      /\ lock' = Nobody /\ pc' = [pc EXCEPT ![c] = to]
  BY DEF CtrlInv, Locked, StartCur, At, Goto
<1>2. \A d \in Cpus : d # c => pc[d] \notin {"start", "restart", "flushed", "cur", "recur", "flushed_cur"}
  BY <1>1, RcuConstants DEF CtrlInv, Locked
<1>3. OneBatch' /\ Awaited'
  BY <1>1, SMTT(30) DEF OneBatch, Awaited, TypeOK
<1>4. Locked'
  BY <1>1, <1>2 DEF Locked, TypeOK, Unlocked
<1> QED
  BY <1>3, <1>4 DEF CtrlInv

(* cpu_quiet() ends the batch exactly when the mask gets empty.            *)
LEMMA QuietStep ==
  ASSUME TypeOK, CtrlInv, NEW c \in Cpus, NEW q, lock = Nobody, pc[c] \in Unlocked,
         NEW start \in {"restart", "flushed"}, NEW to \in Unlocked,
         cpu_quiet(c, q, start, to), UNCHANGED <<cur, next_pending>>
  PROVE  CtrlInv'
<1>1. \A d \in Cpus : pc[d] \notin {"start", "restart", "flushed", "cur", "recur", "flushed_cur"}
  BY RcuConstants DEF CtrlInv, Locked
<1>2. CASE cpumask' = {}
  <2>1. completed' = cur /\ lock' = c /\ pc' = [pc EXCEPT ![c] = start]
    BY <1>2 DEF cpu_quiet, Goto
  <2>2. OneBatch' /\ Awaited'
    BY <1>2, <2>1, SMTT(30) DEF OneBatch, Awaited, TypeOK
  <2>3. Locked'
    BY <1>1, <2>1 DEF Locked, TypeOK
  <2> QED
    BY <2>2, <2>3 DEF CtrlInv
<1>3. CASE cpumask' # {}
  <2>1. UNCHANGED <<completed, lock>> /\ pc' = [pc EXCEPT ![c] = to] /\ cpumask # {}
    BY <1>3 DEF cpu_quiet, Goto
  <2>2. OneBatch' /\ Awaited'
    BY <1>3, <2>1 DEF OneBatch, Awaited, CtrlInv
  <2>3. Locked'
    BY <1>1, <2>1 DEF Locked, TypeOK, Unlocked
  <2> QED
    BY <2>2, <2>3 DEF CtrlInv
<1> QED
  BY <1>2, <1>3

(* The lock, the batch numbers and the mask stay in step.                  *)
LEMMA CtrlStep ==
  ASSUME TypeOK, CtrlInv, [Next]_vars
  PROVE  CtrlInv'
<1>0. Boot \in Cpus
  BY RcuConstants
<1>u. {"out", "next", "look", "register", "check", "quiet", "batch", "flush", "take"} \subseteq Unlocked
  BY DEF Unlocked
<1>1. ASSUME NEW c \in Cpus, UNCHANGED ctrl, UNCHANGED pc PROVE CtrlInv'
  BY <1>1, <1>u, PlainMove
<1>2. ASSUME NEW c \in Cpus, Enter(c) \/ Exit(c) \/ Invoke(c) \/ CpuPrepare(c) \/ BarrierCall(c)
               \/ BarrierReturn(c)
      PROVE  CtrlInv'
  BY <1>1, <1>2 DEF Enter, Exit, Invoke, CpuPrepare, BarrierCall, BarrierReturn, call_rcu
<1>3. ASSUME NEW c \in Cpus, NEW cb \in Callbacks, CallRcu(c, cb) PROVE CtrlInv'
  BY <1>1, <1>3 DEF CallRcu, call_rcu
<1>4. CASE CpuOnline \/ BarrierBegin \/ BarrierEnd \/ UNCHANGED vars
  BY <1>0, <1>1, <1>4 DEF CpuOnline, BarrierBegin, BarrierEnd, vars
<1>5. ASSUME NEW c \in Cpus, Softirq(c) \/ NextToCur(c) \/ LookPending(c) \/ CheckQuiescent(c)
               \/ Leave(c)
      PROVE  CtrlInv'
  <2>1. CASE Softirq(c) \/ Leave(c)
    BY <2>1, <1>u, PlainMove DEF Softirq, Leave
  <2>2. CASE NextToCur(c)
    BY <2>2, <1>u, PlainMove DEF NextToCur
  <2>3. CASE CheckQuiescent(c)
    BY <2>3, <1>u, PlainMove DEF CheckQuiescent
  <2>4. CASE LookPending(c)
    BY <2>4, <1>u, PlainMove DEF LookPending
  <2> QED
    BY <1>5, <2>1, <2>2, <2>3, <2>4
<1>6. ASSUME NEW c \in Cpus, CpuDown(c) \/ Take \/ CpuCancel \/ CpuDie PROVE CtrlInv'
  BY <1>0, <1>1, <1>6, <1>u, PlainMove DEF CpuDown, Take, CpuCancel, CpuDie
<1>7. ASSUME NEW c \in Cpus, Register(c) PROVE CtrlInv'
  <2>1. lock = Nobody /\ lock' = c /\ pc' = [pc EXCEPT ![c] = "start"]
        /\ UNCHANGED <<cur, completed, cpumask>>
    BY <1>7 DEF Register, Goto
  <2>2. \A d \in Cpus : pc[d] \notin {"start", "restart", "flushed", "cur", "recur", "flushed_cur"}
    BY <2>1, RcuConstants DEF CtrlInv, Locked
  <2> QED
    BY <2>1, <2>2 DEF CtrlInv, Locked, OneBatch, Awaited, TypeOK
<1>8. ASSUME NEW c \in Cpus, Quiet(c) PROVE CtrlInv'
  <2>1. lock = Nobody /\ pc[c] \in Unlocked /\ UNCHANGED <<cur, next_pending>>
    BY <1>8, <1>u DEF Quiet, At
  <2>2. CASE quiescbatch[c] = cur
    BY <1>8, <2>1, <2>2, <1>u, QuietStep DEF Quiet
  <2>3. CASE quiescbatch[c] # cur
    BY <1>8, <2>3, <1>u, PlainMove DEF Quiet, ctrl
  <2> QED
    BY <2>2, <2>3
<1>9. CASE Flush
  <2>1. lock = Nobody /\ pc[Boot] \in Unlocked /\ UNCHANGED <<cur, next_pending>>
    BY <1>9, <1>u DEF Flush, At
  <2>2. CASE cur # completed
    BY <1>0, <1>9, <2>1, <2>2, <1>u, QuietStep DEF Flush
  <2>3. CASE cur = completed
    BY <1>0, <1>9, <2>3, <1>u, PlainMove DEF Flush, ctrl
  <2> QED
    BY <2>2, <2>3
<1>10. ASSUME NEW c \in Cpus, \/ StartTest(c, "start", "cur", "check")
                              \/ StartTest(c, "restart", "recur", "batch")
                              \/ StartTest(c, "flushed", "flushed_cur", "take")
       PROVE CtrlInv'
  BY <1>10, <1>u, StartTestStep
<1>11. ASSUME NEW c \in Cpus, \/ StartCur(c, "cur", "check") \/ StartCur(c, "recur", "batch")
                              \/ StartCur(c, "flushed_cur", "take")
       PROVE CtrlInv'
  BY <1>11, <1>u, StartCurStep
<1> QED
  BY <1>0, <1>2, <1>3, <1>4, <1>5, <1>6, <1>7, <1>8, <1>9, <1>10, <1>11, StepCases
     DEF Control, HotplugControl

(* Steps that move the program counter stay inside or outside the hotplug  *)
(* notification, or enter it with a CPU to clear up after.                 *)
LEMMA SectionsStep ==
  ASSUME TypeOK, Sections, [Next]_vars
  PROVE  Sections'
<1> USE DEF Sections, ctrl, rdp, hist, rest
<1>1. ASSUME NEW c \in Cpus, Enter(c) \/ Exit(c) PROVE Sections'
  BY <1>1 DEF Enter, Exit, TypeOK
<1>2. ASSUME NEW c \in Cpus, NEW cb \in Heads, call_rcu(c, cb), UNCHANGED <<hot, cpu_online_map>>
      PROVE  Sections'
  BY <1>2 DEF call_rcu, TypeOK
<1>3. ASSUME NEW c \in Cpus, BarrierCall(c) PROVE Sections'
  BY <1>2, <1>3, HeadsType DEF BarrierCall
<1>4. ASSUME NEW c \in Cpus, NEW cb \in Callbacks, CallRcu(c, cb) PROVE Sections'
  BY <1>2, <1>4 DEF CallRcu, Heads
<1>5. ASSUME NEW c \in Cpus, NEW to \in Labels \ Notifying, Goto(c, to),
             UNCHANGED <<reading, hot, cpu_online_map, waits>>
      PROVE  Sections'
  BY <1>5 DEF Goto, TypeOK
<1>6. {"out", "next", "look", "register", "start", "cur", "check", "quiet", "restart", "recur",
       "batch"} \subseteq Labels \ Notifying
  BY DEF Labels, Notifying
<1>7. ASSUME NEW c \in Cpus, \/ Softirq(c) \/ NextToCur(c) \/ LookPending(c) \/ Register(c)
                             \/ CheckQuiescent(c) \/ Leave(c)
      PROVE  Sections'
  <2>1. UNCHANGED <<reading, hot, cpu_online_map, waits>>
    BY <1>7 DEF Softirq, NextToCur, LookPending, Register, CheckQuiescent, Leave
  <2>2. \E to \in Labels \ Notifying : Goto(c, to)
    BY <1>6, <1>7 DEF Softirq, NextToCur, LookPending, Register, CheckQuiescent, Leave
  <2> QED
    BY <2>1, <2>2, <1>5
<1>8. ASSUME NEW c \in Cpus, Quiet(c) PROVE Sections'
  <2>1. UNCHANGED <<reading, hot, cpu_online_map, waits>>
    BY <1>8 DEF Quiet
  <2>2. \E to \in Labels \ Notifying : Goto(c, to)
    BY <1>6, <1>8 DEF Quiet, cpu_quiet
  <2> QED
    BY <2>1, <2>2, <1>5
<1>9. ASSUME NEW c \in Cpus, NEW at, NEW mid \in Labels \ Notifying, NEW to \in Labels \ Notifying,
             StartTest(c, at, mid, to) \/ StartCur(c, mid, to)
      PROVE  Sections'
  <2>1. UNCHANGED <<reading, hot, cpu_online_map, waits>>
    BY <1>9 DEF StartTest, StartCur
  <2>2. \E label \in Labels \ Notifying : Goto(c, label)
    BY <1>9 DEF StartTest, StartCur
  <2> QED
    BY <2>1, <2>2, <1>5
<1>10. ASSUME NEW at \in Notifying, NEW to, pc[Boot] = at, Goto(Boot, to),
              UNCHANGED <<reading, hot, cpu_online_map, waits>>
       PROVE  Sections'
  BY <1>10, RcuConstants DEF Goto, TypeOK
<1>11. CASE Flush
  <2>1. UNCHANGED <<reading, hot, cpu_online_map, waits>> /\ pc[Boot] = "flush"
    BY <1>11 DEF Flush, At
  <2>2. \E to : Goto(Boot, to)
    BY <1>11 DEF Flush, cpu_quiet
  <2> QED
    BY <2>1, <2>2, <1>10 DEF Notifying
<1>12. CASE StartTest(Boot, "flushed", "flushed_cur", "take") \/ StartCur(Boot, "flushed_cur", "take")
  <2>1. UNCHANGED <<reading, hot, cpu_online_map, waits>> /\ pc[Boot] \in {"flushed", "flushed_cur"}
    BY <1>12 DEF StartTest, StartCur, At
  <2>2. \E to : Goto(Boot, to)
    BY <1>12 DEF StartTest, StartCur
  <2> QED
    BY <2>1, <2>2, <1>10 DEF Notifying
<1>13. CASE Take
  BY <1>13, RcuConstants DEF Take, Goto, TypeOK, Notifying
<1>14. ASSUME NEW c \in Cpus, CpuDown(c) PROVE Sections'
  BY <1>14, RcuConstants DEF CpuDown, Stopped, Goto, TypeOK, Notifying
<1>15. CASE CpuCancel \/ CpuDie
  BY <1>15, RcuConstants DEF CpuCancel, CpuDie, Goto, TypeOK, Notifying
<1>16. CASE CpuOnline
  BY <1>16, RcuConstants DEF CpuOnline, TypeOK
<1>17. ASSUME NEW c \in Cpus, CpuPrepare(c) PROVE Sections'
  BY <1>17, RcuConstants DEF CpuPrepare, At
<1>18. ASSUME NEW c \in Cpus, Invoke(c) \/ BarrierReturn(c) PROVE Sections'
  BY <1>18 DEF Invoke, BarrierReturn
<1>19. CASE BarrierBegin \/ BarrierEnd \/ UNCHANGED vars
  BY <1>19 DEF BarrierBegin, BarrierEnd, vars
<1> QED
  BY <1>1, <1>3, <1>4, <1>6, <1>7, <1>8, <1>9, <1>11, <1>12, <1>13, <1>14, <1>15, <1>16, <1>17,
     <1>18, <1>19, StepCases DEF Control, HotplugControl

-----------------------------------------------------------------------------
\* Lists

(* Both facts about a concatenation of lists of callbacks.                 *)
LEMMA ConcatRange ==
  \A s, t \in Seq(Heads) : s \o t \in Seq(Heads) /\ Range(s \o t) = Range(s) \cup Range(t)
<1> TAKE s, t \in Seq(Heads)
<1>1. s \o t \in Seq(Heads)
  BY ConcatProperties
<1>2. Range(s \o t) = Range(s) \cup Range(t)
  BY RangeConcatenation
<1> QED
  BY <1>1, <1>2

LEMMA ChainType ==
  ASSUME TypeOK, NEW c \in Cpus
  PROVE  /\ Chain(c) \in Seq(Heads)
         /\ Range(Chain(c)) = Range(donelist[c]) \cup Range(curlist[c]) \cup Range(nxtlist[c])
<1>1. donelist[c] \in Seq(Heads) /\ curlist[c] \in Seq(Heads) /\ nxtlist[c] \in Seq(Heads)
  BY DEF TypeOK
<1> DEFINE t == curlist[c] \o nxtlist[c]
<1>2. t \in Seq(Heads) /\ Range(t) = Range(curlist[c]) \cup Range(nxtlist[c])
  BY ONLY <1>1, ConcatRange, SMTT(30)
<1> HIDE DEF t
<1>3. donelist[c] \o t \in Seq(Heads) /\ Range(donelist[c] \o t) = Range(donelist[c]) \cup Range(t)
  BY ONLY <1>1, <1>2, ConcatRange, SMTT(30)
<1> QED
  BY <1>2, <1>3 DEF Chain, t

(* call_rcu() adds one callback, which was not queued, to one CPU's chain. *)
LEMMA CallListed ==
  ASSUME TypeOK, Listed, NEW c \in Cpus, NEW cb \in Heads, call_rcu(c, cb)
  PROVE  /\ Listed' /\ \A d \in Cpus : d # c => Chain(d)' = Chain(d)
         /\ Chain(c)' = Append(Chain(c), cb) /\ Range(Chain(c)') = Range(Chain(c)) \cup {cb}
<1>1. donelist[c] \in Seq(Heads) /\ curlist[c] \in Seq(Heads) /\ nxtlist[c] \in Seq(Heads)
  BY DEF TypeOK
<1>2. cb \notin queued /\ queued' = queued \cup {cb} /\ UNCHANGED <<donelist, curlist>>
      /\ nxtlist' = [nxtlist EXCEPT ![c] = Append(nxtlist[c], cb)]
  BY DEF call_rcu
<1>3. Chain(c)' = donelist[c] \o (curlist[c] \o Append(nxtlist[c], cb))
  BY <1>2 DEF Chain, TypeOK
<1>a. \A s, t \in Seq(Heads) : s \o Append(t, cb) = Append(s \o t, cb)
  BY AppendConcat, SMTT(30)
<1>4. curlist[c] \o Append(nxtlist[c], cb) = Append(curlist[c] \o nxtlist[c], cb)
  BY ONLY <1>1, <1>a, ZenonT(30)
<1>5. curlist[c] \o nxtlist[c] \in Seq(Heads)
  BY <1>1, ConcatProperties
<1>6. donelist[c] \o Append(curlist[c] \o nxtlist[c], cb) = Append(Chain(c), cb)
  BY ONLY <1>1, <1>5, <1>a, ZenonT(30) DEF Chain
<1>7. Chain(c)' = Append(Chain(c), cb)
  BY <1>3, <1>4, <1>6
<1>8. \A d \in Cpus : d # c => Chain(d)' = Chain(d)
  BY <1>2 DEF Chain, TypeOK
<1>9. Range(Chain(c)') = Range(Chain(c)) \cup {cb}
  BY <1>7, ChainType, RangeAppend, SMTT(30)
<1>10. Distinct(Chain(c)')
  <2>1. Chain(c) \in Seq(Heads)
    BY ChainType
  <2>2. Distinct(Chain(c)) /\ cb \notin Range(Chain(c))
    BY <1>2 DEF Listed
  <2> QED
    BY <1>7, <2>1, <2>2, DistinctAppend
<1>11. \A d \in Cpus : Distinct(Chain(d)') /\ Range(Chain(d)') \subseteq queued'
  BY <1>2, <1>8, <1>9, <1>10 DEF Listed
<1>12. \A d \in Cpus : cb \notin Range(Chain(d))
  BY <1>2 DEF Listed
<1>13. \A d, e \in Cpus : d # e => Range(Chain(d)') \cap Range(Chain(e)') = {}
  BY <1>8, <1>9, <1>12, SMTT(30) DEF Listed
<1> QED
  BY <1>7, <1>8, <1>9, <1>11, <1>13 DEF Listed

(* Moving between the three lists leaves the order alone.                  *)
LEMMA SameChains ==
  ASSUME Listed, UNCHANGED queued, \A c \in Cpus : Chain(c)' = Chain(c)
  PROVE  Listed'
BY DEF Listed

(* rcu_do_batch() takes the first callback out of the chain, and it occurs *)
(* nowhere else.                                                           *)
LEMMA InvokeListed ==
  ASSUME TypeOK, Listed, NEW c \in Cpus, Invoke(c)
  PROVE  /\ Listed' /\ Head(donelist[c]) \in queued /\ Head(donelist[c]) \in Range(donelist[c])
         /\ Chain(c) # <<>> /\ Head(Chain(c)) = Head(donelist[c])
         /\ Head(donelist[c]) \in Range(Chain(c)) /\ Chain(c)' = Tail(Chain(c))
         /\ Range(Chain(c)') = Range(Chain(c)) \ {Head(donelist[c])}
         /\ \A d \in Cpus : d # c => Chain(d)' = Chain(d)
<1> DEFINE cb == Head(donelist[c])
<1>1. donelist[c] \in Seq(Heads) /\ curlist[c] \in Seq(Heads) /\ nxtlist[c] \in Seq(Heads)
  BY DEF TypeOK
<1>2. donelist[c] # <<>> /\ queued' = queued \ {cb} /\ UNCHANGED <<nxtlist, curlist>>
      /\ donelist' = [donelist EXCEPT ![c] = Tail(donelist[c])]
  BY DEF Invoke
<1>3. curlist[c] \o nxtlist[c] \in Seq(Heads)
  BY <1>1, ConcatProperties
<1>4. Chain(c)' = Tail(donelist[c]) \o (curlist[c] \o nxtlist[c])
  BY <1>2 DEF Chain, TypeOK
<1>5. Chain(c)' = Tail(Chain(c)) /\ Head(Chain(c)) = cb /\ Chain(c) # <<>>
  BY <1>1, <1>2, <1>3, <1>4, TailConcat DEF Chain
<1>6. Distinct(Chain(c)') /\ Range(Chain(c)') = Range(Chain(c)) \ {cb}
  BY <1>5, ChainType, DistinctTail, SMTT(30) DEF Listed
<1>7. cb \in Range(donelist[c])
  <2>1. Len(donelist[c]) \in Nat \ {0} /\ DOMAIN donelist[c] = 1 .. Len(donelist[c])
    BY <1>1, <1>2, EmptySeq, LenProperties
  <2> QED
    BY <1>1, <2>1, SMTT(30) DEF Range
<1>8. cb \in Range(Chain(c))
  BY <1>7, ChainType
<1>9. \A d \in Cpus : d # c => Chain(d)' = Chain(d) /\ cb \notin Range(Chain(d))
  BY <1>2, <1>8 DEF Chain, TypeOK, Listed
<1>10. \A d \in Cpus : Distinct(Chain(d)') /\ Range(Chain(d)') \subseteq queued'
  BY <1>2, <1>6, <1>9 DEF Listed
<1>11. \A d, e \in Cpus : d # e => Range(Chain(d)') \cap Range(Chain(e)') = {}
  BY <1>6, <1>9 DEF Listed
<1>12. Listed'
  BY <1>10, <1>11 DEF Listed
<1>13. cb \in queued
  BY <1>8 DEF Listed
<1> QED
  BY <1>5, <1>6, <1>7, <1>8, <1>9, <1>12, <1>13

LEMMA EmptyRange == Range(<<>>) = {} /\ Distinct(<<>>)
BY SMTT(30) DEF Range, Distinct

(* The handler moves curlist to the end of donelist and nxtlist to curlist *)
(* only when the latter is empty, so the order stays.                      *)
LEMMA MoveListed ==
  ASSUME TypeOK, Listed, NEW c \in Cpus, Softirq(c) \/ NextToCur(c)
  PROVE  Listed' /\ UNCHANGED queued /\ \A d \in Cpus : Chain(d)' = Chain(d)
<1>1. donelist[c] \in Seq(Heads) /\ curlist[c] \in Seq(Heads) /\ nxtlist[c] \in Seq(Heads)
  BY DEF TypeOK
<1>2. UNCHANGED queued
  BY DEF Softirq, NextToCur, hist
<1>a. /\ \A s \in Seq(Heads) : s \o <<>> = s /\ <<>> \o s = s
      /\ \A s, t, u \in Seq(Heads) : (s \o t) \o u = s \o (t \o u)
  BY ConcatEmptySeq, ConcatAssociative, SMTT(30)
<1>3. CASE Softirq(c)
  <2>1. CASE BatchDone(c)
    <3>1. /\ donelist' = [donelist EXCEPT ![c] = donelist[c] \o curlist[c]]
          /\ curlist' = [curlist EXCEPT ![c] = <<>>] /\ UNCHANGED nxtlist
      BY <1>3, <2>1 DEF Softirq
    <3>2. Chain(c)' = (donelist[c] \o curlist[c]) \o (<<>> \o nxtlist[c])
      BY <3>1 DEF Chain, TypeOK
    <3>3. (donelist[c] \o curlist[c]) \o nxtlist[c] = donelist[c] \o (curlist[c] \o nxtlist[c])
      BY ONLY <1>1, <1>a, ZenonT(30)
    <3>4. <<>> \o nxtlist[c] = nxtlist[c]
      BY ONLY <1>1, <1>a, SMTT(30)
    <3>5. \A d \in Cpus : d # c => Chain(d)' = Chain(d)
      BY <3>1 DEF Chain, TypeOK
    <3> QED
      BY <1>2, <3>2, <3>3, <3>4, <3>5, SameChains DEF Chain
  <2>2. CASE ~BatchDone(c)
    BY <1>2, <1>3, <2>2, SameChains DEF Softirq, Chain
  <2> QED
    BY <2>1, <2>2
<1>4. CASE NextToCur(c)
  <2>1. CASE nxtlist[c] # <<>> /\ curlist[c] = <<>>
    <3>1. /\ curlist' = [curlist EXCEPT ![c] = nxtlist[c]]
          /\ nxtlist' = [nxtlist EXCEPT ![c] = <<>>] /\ UNCHANGED donelist
      BY <1>4, <2>1 DEF NextToCur
    <3>2. Chain(c)' = donelist[c] \o (nxtlist[c] \o <<>>)
      BY <3>1 DEF Chain, TypeOK
    <3>3. nxtlist[c] \o <<>> = nxtlist[c] /\ <<>> \o nxtlist[c] = nxtlist[c]
      BY ONLY <1>1, <1>a, SMTT(30)
    <3>4. Chain(c) = donelist[c] \o (<<>> \o nxtlist[c])
      BY <2>1 DEF Chain
    <3>5. \A d \in Cpus : d # c => Chain(d)' = Chain(d)
      BY <3>1 DEF Chain, TypeOK
    <3> QED
      BY <1>2, <3>2, <3>3, <3>4, <3>5, SameChains
  <2>2. CASE ~(nxtlist[c] # <<>> /\ curlist[c] = <<>>)
    BY <1>2, <1>4, <2>2, SameChains DEF NextToCur, Chain
  <2> QED
    BY <2>1, <2>2
<1> QED
  BY <1>3, <1>4

LEMMA ConcatLast ==
  ASSUME NEW S, NEW d \in Seq(S), NEW u \in Seq(S), NEW n \in Seq(S), NEW h \in Seq(S)
  PROVE  d \o (u \o (n \o h)) = (d \o (u \o n)) \o h
<1>1. PICK w \in Seq(S) : w = u \o n
  BY ConcatProperties
<1>2. u \o (n \o h) = w \o h
  BY <1>1, ConcatAssociative, SMTT(60)
<1>3. d \o (w \o h) = (d \o w) \o h
  BY ConcatAssociative, SMTT(60)
<1> QED
  BY <1>1, <1>2, <1>3

(* What the dead CPU has left is appended to what Boot has.                *)
LEMMA TakeListed ==
  ASSUME TypeOK, Sections, Listed, Take
  PROVE  /\ Listed' /\ UNCHANGED queued /\ hot \in Cpus
         /\ Range(Chain(Boot)') = Range(Chain(Boot)) \cup Range(Chain(hot))
         /\ \A c \in Cpus : /\ c # Boot /\ c # hot => Chain(c)' = Chain(c)
                            /\ c = hot => Chain(c)' = <<>>
<1>h. Boot \in Cpus /\ hot \in Cpus /\ hot # Boot
  BY RcuConstants DEF Take, At, Sections, TypeOK, Notifying
<1>0. PICK h \in Cpus : h = hot /\ Boot \in Cpus /\ h # Boot
  BY <1>h
<1>1. /\ nxtlist' = [nxtlist EXCEPT ![Boot] = nxtlist[Boot] \o Chain(h), ![h] = <<>>]
      /\ curlist' = [curlist EXCEPT ![h] = <<>>] /\ donelist' = [donelist EXCEPT ![h] = <<>>]
      /\ UNCHANGED queued
  BY <1>0 DEF Take, hist, Chain
<1>2. \A c \in Cpus : c # Boot /\ c # h =>
        donelist'[c] = donelist[c] /\ curlist'[c] = curlist[c] /\ nxtlist'[c] = nxtlist[c]
  BY <1>1 DEF TypeOK
<1>3. /\ donelist'[Boot] = donelist[Boot] /\ curlist'[Boot] = curlist[Boot]
      /\ nxtlist'[Boot] = nxtlist[Boot] \o Chain(h)
  BY <1>0, <1>1 DEF TypeOK
<1>4. donelist'[h] = <<>> /\ curlist'[h] = <<>> /\ nxtlist'[h] = <<>>
  BY <1>0, <1>1 DEF TypeOK
<1>5. \A c \in Cpus : c # Boot /\ c # h => Chain(c)' = Chain(c)
  BY <1>2 DEF Chain
<1>6. /\ Chain(Boot) \in Seq(Heads) /\ Chain(h) \in Seq(Heads)
      /\ Distinct(Chain(Boot)) /\ Distinct(Chain(h)) /\ Range(Chain(Boot)) \cap Range(Chain(h)) = {}
  BY <1>0, ChainType DEF Listed
<1>7. PICK d \in Seq(Heads), u \in Seq(Heads), n \in Seq(Heads), k \in Seq(Heads) :
        d = donelist[Boot] /\ u = curlist[Boot] /\ n = nxtlist[Boot] /\ k = Chain(h)
  BY <1>0, <1>6 DEF TypeOK
<1>8. d \o (u \o (n \o k)) = (d \o (u \o n)) \o k
  BY ConcatLast, SMTT(60)
<1>9. Chain(Boot)' = Chain(Boot) \o Chain(h)
  BY <1>3, <1>7, <1>8 DEF Chain
<1>10. Chain(h)' = <<>>
  <2>1. Chain(h)' = donelist'[h] \o (curlist'[h] \o nxtlist'[h])
    BY DEF Chain
  <2> QED
    BY <1>4, <2>1, SMTT(30)
<1>11. Distinct(Chain(Boot)') /\ Range(Chain(Boot)') = Range(Chain(Boot)) \cup Range(Chain(h))
  BY <1>6, <1>9, DistinctConcat, ConcatRange, SMTT(30)
<1>12. Distinct(Chain(h)') /\ Range(Chain(h)') = {}
  BY <1>10, EmptyRange
<1>13. \A c \in Cpus : Distinct(Chain(c)') /\ Range(Chain(c)') \subseteq queued'
  BY <1>0, <1>1, <1>5, <1>11, <1>12 DEF Listed
<1>14. \A c, e \in Cpus : c # e => Range(Chain(c)') \cap Range(Chain(e)') = {}
  BY <1>0, <1>5, <1>11, <1>12, SMTT(30) DEF Listed
<1> QED
  BY <1>0, <1>1, <1>5, <1>10, <1>11, <1>13, <1>14 DEF Listed

(* A CPU that comes up starts with empty lists.                            *)
LEMMA PrepareListed ==
  ASSUME TypeOK, Listed, NEW c \in Cpus, CpuPrepare(c)
  PROVE  /\ Listed' /\ UNCHANGED queued /\ Chain(c)' = <<>>
         /\ \A d \in Cpus : d # c => Chain(d)' = Chain(d)
<1>0. Chain(c)' = <<>> \o (<<>> \o <<>>) /\ UNCHANGED queued
  BY DEF CpuPrepare, Chain, TypeOK, hist
<1>1. Chain(c)' = <<>> /\ UNCHANGED queued
  BY <1>0, SMTT(30)
<1>2. \A d \in Cpus : d # c => Chain(d)' = Chain(d)
  BY DEF CpuPrepare, Chain, TypeOK
<1>3. Distinct(Chain(c)') /\ Range(Chain(c)') = {}
  BY <1>1, EmptyRange
<1> QED
  BY <1>1, <1>2, <1>3 DEF Listed

LEMMA ListedStep ==
  ASSUME TypeOK, Sections, Listed, [Next]_vars
  PROVE  Listed'
<1>1. ASSUME NEW c \in Cpus, Enter(c) \/ Exit(c) PROVE Listed'
  BY <1>1, SameChains DEF Enter, Exit, Chain, rdp, hist
<1>2. ASSUME NEW c \in Cpus, BarrierCall(c) PROVE Listed'
  BY <1>2, HeadsType, CallListed DEF BarrierCall
<1>3. ASSUME NEW c \in Cpus, NEW cb \in Callbacks, CallRcu(c, cb) PROVE Listed'
  BY <1>3, CallListed DEF CallRcu, Heads
<1>4. CASE (\E c \in Cpus : Control(c)) \/ HotplugControl
  BY <1>4, ControlKeepsLists, SameChains DEF Chain
<1>5. CASE BarrierBegin \/ UNCHANGED vars
  BY <1>5, SameChains DEF BarrierBegin, vars, Chain, rdp, hist
<1> QED
  BY <1>1, <1>2, <1>3, <1>4, <1>5, StepCases, MoveListed, InvokeListed, PrepareListed, TakeListed

-----------------------------------------------------------------------------
\* Grace periods

LEMMA RangeTail ==
  ASSUME NEW S, NEW s \in Seq(S), s # <<>>
  PROVE  Range(Tail(s)) \subseteq Range(s)
<1>1. Tail(s) \in Seq(S) /\ Len(Tail(s)) = Len(s) - 1 /\ Len(s) \in Nat \ {0}
  BY HeadTailProperties, EmptySeq
<1>2. \A i \in 1 .. Len(s) - 1 : Tail(s)[i] = s[i + 1] /\ i + 1 \in 1 .. Len(s)
  BY <1>1, HeadTailProperties, SMTT(30)
<1>3. Range(Tail(s)) = {Tail(s)[i] : i \in 1 .. Len(s) - 1} /\ Range(s) = {s[i] : i \in 1 .. Len(s)}
  BY <1>1, RangeEquality
<1> QED
  BY <1>2, <1>3

(* As long as nobody ends or begins a batch, a step that only shortens the *)
(* lists, or what is waited for, keeps Covered.                            *)
LEMMA CoveredShrinks ==
  ASSUME Covered, UNCHANGED <<cur, completed, cpumask>>,
         \A cb \in Heads : waits'[cb] \subseteq waits[cb],
         \A c \in Cpus : /\ Range(donelist'[c]) \subseteq Range(donelist[c]) \cap Heads
                         /\ Range(curlist'[c]) \subseteq Range(curlist[c]) \cap Heads
                         /\ curlist'[c] = <<>> \/ batch'[c] = batch[c]
  PROVE  Covered'
BY EmptyRange DEF Covered

LEMMA ListRanges ==
  ASSUME TypeOK, NEW c \in Cpus
  PROVE  /\ Range(donelist[c]) \subseteq Heads /\ Range(curlist[c]) \subseteq Heads
         /\ Range(nxtlist[c]) \subseteq Heads
BY RangeOfSeq DEF TypeOK

(* A batch that ends was waiting for no open section.                      *)
LEMMA EndCovered ==
  ASSUME TypeOK, Covered, OneBatch, NEW q, q \notin reading, \A cb \in Heads : waits[cb] \subseteq reading,
         UNCHANGED <<nxtlist, curlist, donelist, batch, waits, cur>>,
         cpumask' = cpumask \ {q}, completed' = IF cpumask' = {} THEN cur ELSE completed
  PROVE  Covered'
<1>1. SUFFICES ASSUME NEW c \in Cpus, NEW cb \in Range(curlist[c]), NEW r \in waits[cb]
               PROVE  batch[c] > completed' /\ (batch[c] = cur => r \in cpumask')
  BY DEF Covered
<1>2. cb \in Heads /\ r \in reading /\ r # q
  BY ListRanges
<1>3. batch[c] > completed /\ (batch[c] = cur => r \in cpumask)
  BY DEF Covered
<1>4. batch[c] \in Nat /\ cur \in Nat /\ completed \in Nat
  BY DEF TypeOK
<1>5. batch[c] = cur => r \in cpumask'
  BY <1>2, <1>3
<1>6. CASE cpumask' = {}
  BY <1>3, <1>4, <1>5, <1>6, SMTT(30) DEF OneBatch
<1>7. CASE cpumask' # {}
  BY <1>3, <1>5, <1>7
<1> QED
  BY <1>6, <1>7

(* A batch that begins waits for all CPUs that are online.                 *)
LEMMA BeginCovered ==
  ASSUME TypeOK, Covered, Sections, UNCHANGED <<nxtlist, curlist, donelist, batch, waits, completed>>,
         cpumask' = cpu_online_map, cur' = cur + 1
  PROVE  Covered'
<1>1. \A c \in Cpus : \A cb \in Range(curlist[c]) : waits[cb] \subseteq cpu_online_map
  BY ListRanges DEF Sections
<1> QED
  BY <1>1 DEF Covered

(* The control steps: batches begin and end.                               *)
LEMMA ControlCovered ==
  ASSUME TypeOK, Covered, Sections, OneBatch, (\E c \in Cpus : Control(c)) \/ HotplugControl
  PROVE  Covered'
<1>1. UNCHANGED <<nxtlist, curlist, donelist, batch, reading, queued, waits>>
  BY ControlKeepsLists
<1>2. ASSUME UNCHANGED <<cur, completed, cpumask>> PROVE Covered'
  BY <1>1, <1>2 DEF Covered
<1>3. ASSUME NEW c \in Cpus, Quiet(c) PROVE Covered'
  <2>1. c \notin reading /\ UNCHANGED cur
    BY <1>3 DEF Quiet, At
  <2>2. CASE quiescbatch[c] = cur
    <3>1. cpumask' = cpumask \ {c} /\ completed' = IF cpumask' = {} THEN cur ELSE completed
      BY <1>3, <2>2 DEF Quiet, cpu_quiet
    <3> QED
      BY <1>1, <2>1, <3>1, EndCovered DEF Sections
  <2>3. CASE quiescbatch[c] # cur
    BY <1>2, <1>3, <2>1, <2>3 DEF Quiet
  <2> QED
    BY <2>2, <2>3
<1>4. CASE Flush
  <2>1. hot \notin reading /\ UNCHANGED cur
    BY <1>4 DEF Flush, Sections
  <2>2. CASE cur # completed
    <3>1. cpumask' = cpumask \ {hot} /\ completed' = IF cpumask' = {} THEN cur ELSE completed
      BY <1>4, <2>2 DEF Flush, cpu_quiet
    <3> QED
      BY <1>1, <2>1, <3>1, EndCovered DEF Sections
  <2>3. CASE cur = completed
    BY <1>2, <1>4, <2>1, <2>3 DEF Flush
  <2> QED
    BY <2>2, <2>3
<1>5. ASSUME NEW c \in Cpus, NEW mid, NEW to, StartCur(c, mid, to) PROVE Covered'
  <2>1. cpumask' = cpu_online_map /\ cur' = cur + 1 /\ UNCHANGED completed
    BY <1>5 DEF StartCur
  <2> QED
    BY <1>1, <2>1, BeginCovered
<1>6. ASSUME NEW c \in Cpus, NEW at, NEW mid, NEW to, StartTest(c, at, mid, to) PROVE Covered'
  BY <1>2, <1>6 DEF StartTest
<1>7. ASSUME NEW c \in Cpus, \/ LookPending(c) \/ Register(c) \/ CheckQuiescent(c) \/ Leave(c)
                             \/ CpuDown(c) \/ BarrierReturn(c)
      PROVE  Covered'
  BY <1>2, <1>7 DEF LookPending, Register, CheckQuiescent, Leave, CpuDown, BarrierReturn, ctrl
<1>8. CASE CpuOnline \/ CpuCancel \/ CpuDie \/ BarrierEnd
  BY <1>2, <1>8 DEF CpuOnline, CpuCancel, CpuDie, BarrierEnd, ctrl
<1> QED
  BY <1>3, <1>4, <1>5, <1>6, <1>7, <1>8, RcuConstants DEF Control, HotplugControl

(* A new callback is in no list that Covered speaks of.                    *)
LEMMA CallCovered ==
  ASSUME TypeOK, Listed, Covered, NEW c \in Cpus, NEW cb \in Heads, call_rcu(c, cb)
  PROVE  Covered'
<1>1. /\ cb \notin queued /\ UNCHANGED <<donelist, curlist, batch, cur, completed, cpumask>>
      /\ waits' = [waits EXCEPT ![cb] = reading]
  BY DEF call_rcu, ctrl
<1>2. \A d \in Cpus : cb \notin Range(donelist[d]) /\ cb \notin Range(curlist[d])
  BY <1>1, ChainType DEF Listed
<1>3. \A d \in Cpus : \A x \in Range(donelist[d]) \cup Range(curlist[d]) : waits'[x] = waits[x]
  BY <1>1, <1>2, ListRanges DEF TypeOK
<1> QED
  BY <1>1, <1>3 DEF Covered

LEMMA CoveredStep ==
  ASSUME TypeOK, Covered, Sections, OneBatch, Listed, [Next]_vars
  PROVE  Covered'
<1>r. \A c \in Cpus : Range(donelist[c]) \subseteq Heads /\ Range(curlist[c]) \subseteq Heads
  BY ListRanges
<1>0. ASSUME UNCHANGED <<cur, completed, cpumask, waits, donelist, curlist, batch>> PROVE Covered'
  BY <1>0 DEF Covered
<1>1. ASSUME NEW c \in Cpus, Enter(c) PROVE Covered'
  BY <1>0, <1>1 DEF Enter, ctrl, rdp, hist
<1>2. ASSUME NEW c \in Cpus, Exit(c) PROVE Covered'
  <2>1. UNCHANGED <<cur, completed, cpumask, donelist, curlist, batch>>
    BY <1>2 DEF Exit, ctrl, rdp
  <2>2. \A cb \in Heads : waits'[cb] \subseteq waits[cb]
    BY <1>2 DEF Exit
  <2> QED
    BY <1>r, <2>1, <2>2, CoveredShrinks
<1>3. ASSUME NEW c \in Cpus, Softirq(c) PROVE Covered'
  <2>1. UNCHANGED <<cur, completed, cpumask, waits, batch>>
    BY <1>3 DEF Softirq, ctrl, hist
  <2>2. CASE BatchDone(c)
    <3>1. /\ donelist'[c] = donelist[c] \o curlist[c] /\ curlist'[c] = <<>>
          /\ \A d \in Cpus : d # c => donelist'[d] = donelist[d] /\ curlist'[d] = curlist[d]
      BY <1>3, <2>2 DEF Softirq, TypeOK
    <3>2. Range(donelist'[c]) = Range(donelist[c]) \cup Range(curlist[c])
      <4>1. donelist[c] \in Seq(Heads) /\ curlist[c] \in Seq(Heads)
        BY DEF TypeOK
      <4>2. Range(donelist[c] \o curlist[c]) = Range(donelist[c]) \cup Range(curlist[c])
        BY ONLY <4>1, ConcatRange, SMTT(30)
      <4> QED
        BY <3>1, <4>2
    <3>3. \A cb \in Range(curlist[c]) : waits[cb] = {}
      <4>1. batch[c] \in Nat /\ completed \in Nat /\ completed >= batch[c]
        BY <2>2 DEF TypeOK, BatchDone
      <4> QED
        BY <4>1, SMTT(30) DEF Covered
    <3>4. Range(curlist'[c]) = {}
      BY <3>1, EmptyRange
    <3> QED
      BY <2>1, <3>1, <3>2, <3>3, <3>4 DEF Covered
  <2>3. CASE ~BatchDone(c)
    BY <1>0, <1>3, <2>1, <2>3 DEF Softirq
  <2> QED
    BY <2>2, <2>3
<1>4. ASSUME NEW c \in Cpus, NextToCur(c) PROVE Covered'
  <2>1. UNCHANGED <<cur, completed, cpumask, waits, donelist>>
    BY <1>4 DEF NextToCur, ctrl, hist
  <2>2. CASE nxtlist[c] # <<>> /\ curlist[c] = <<>>
    <3>1. /\ batch'[c] = cur + 1
          /\ \A d \in Cpus : d # c => batch'[d] = batch[d] /\ curlist'[d] = curlist[d]
      BY <1>4, <2>2 DEF NextToCur, TypeOK
    <3>2. cur + 1 > completed /\ cur + 1 # cur
      BY SMTT(30) DEF OneBatch, TypeOK
    <3> QED
      BY <2>1, <3>1, <3>2 DEF Covered
  <2>3. CASE ~(nxtlist[c] # <<>> /\ curlist[c] = <<>>)
    BY <1>0, <1>4, <2>1, <2>3 DEF NextToCur
  <2> QED
    BY <2>2, <2>3
<1>5. ASSUME NEW c \in Cpus, Invoke(c) PROVE Covered'
  <2>1. UNCHANGED <<cur, completed, cpumask, waits, curlist, batch>>
    BY <1>5 DEF Invoke, ctrl
  <2>2. /\ Range(donelist'[c]) \subseteq Range(donelist[c])
        /\ \A d \in Cpus : d # c => donelist'[d] = donelist[d]
    BY <1>5, RangeTail, SMTT(30) DEF Invoke, TypeOK
  <2> QED
    BY <1>r, <2>1, <2>2, CoveredShrinks
<1>6. ASSUME NEW c \in Cpus, CpuPrepare(c) PROVE Covered'
  <2>1. UNCHANGED <<cur, completed, cpumask, waits>>
    BY <1>6 DEF CpuPrepare, ctrl, hist
  <2>2. /\ donelist'[c] = <<>> /\ curlist'[c] = <<>>
        /\ \A d \in Cpus : d # c => donelist'[d] = donelist[d] /\ curlist'[d] = curlist[d]
                                    /\ batch'[d] = batch[d]
    BY <1>6 DEF CpuPrepare, TypeOK
  <2> QED
    BY <1>r, <2>1, <2>2, EmptyRange, CoveredShrinks
<1>7. ASSUME NEW c \in Cpus, BarrierCall(c) PROVE Covered'
  BY <1>7, HeadsType, CallCovered DEF BarrierCall
<1>8. ASSUME NEW c \in Cpus, NEW cb \in Callbacks, CallRcu(c, cb) PROVE Covered'
  BY <1>8, CallCovered DEF CallRcu, Heads
<1>9. CASE Take
  <2>1. UNCHANGED <<cur, completed, cpumask, waits, batch>>
    BY <1>9 DEF Take, ctrl, hist
  <2>2. \A d \in Cpus : /\ donelist'[d] = donelist[d] \/ donelist'[d] = <<>>
                        /\ curlist'[d] = curlist[d] \/ curlist'[d] = <<>>
    BY <1>9 DEF Take, TypeOK
  <2> QED
    BY <1>r, <2>1, <2>2, EmptyRange, CoveredShrinks
<1>10. CASE BarrierBegin \/ UNCHANGED vars
  BY <1>0, <1>10 DEF BarrierBegin, vars, ctrl, rdp, hist
<1> QED
  BY <1>1, <1>2, <1>3, <1>4, <1>5, <1>6, <1>7, <1>8, <1>9, <1>10, ControlCovered, StepCases

-----------------------------------------------------------------------------
\* The theorems

LEMMA InitInv == Init => IInv
<1> SUFFICES ASSUME Init PROVE IInv
  OBVIOUS
<1>1. TypeOK
  BY EmptySeq, RcuConstants DEF Init, TypeOK, Labels
<1>2. Sections /\ Locked /\ OneBatch /\ Awaited
  BY RcuConstants, SMTT(30) DEF Init, Sections, Locked, OneBatch, Awaited, Notifying
<1>3. \A c \in Cpus : Chain(c) = <<>> \o (<<>> \o <<>>)
  BY DEF Init, Chain
<1>4. Listed
  BY <1>3, EmptyRange, SMTT(30) DEF Listed
<1>5. Covered
  BY EmptyRange DEF Init, Covered
<1> QED
  BY <1>1, <1>2, <1>4, <1>5 DEF IInv

LEMMA NextInv == IInv /\ [Next]_vars => IInv'
BY TypeStep, SectionsStep, CtrlStep, ListedStep, CoveredStep DEF IInv, CtrlInv

(* All fields of rcu_ctrlblk and rcu_data stay in their types.             *)
THEOREM TypeCorrect == Spec => []TypeOK
<1>1. IInv => TypeOK
  BY DEF IInv
<1> QED
  BY <1>1, InitInv, NextInv, PTL DEF Spec

(* cpu_quiet() and rcu_start_batch() never leave a grace period running    *)
(* that no CPU can end, CPUs going down included.                          *)
THEOREM AwaitedCorrect == Spec => []Awaited
<1>1. IInv => Awaited
  BY DEF IInv
<1> QED
  BY <1>1, InitInv, NextInv, PTL DEF Spec

(* Only Enter, Exit, call_rcu() and Invoke change what GracePeriod sees,   *)
(* and each of them is the step of that name.                              *)
LEMMA StepRefines ==
  ASSUME IInv, [Next]_vars
  PROVE  [Grace!GNext]_(Grace!gvars)
<1> USE DEF Grace!GNext, Grace!gvars
<1>0. ASSUME UNCHANGED <<reading, queued, waits>> PROVE [Grace!GNext]_(Grace!gvars)
  BY <1>0
<1>1. ASSUME NEW c \in Cpus, Enter(c) PROVE Grace!Enter(c)
  BY <1>1 DEF Enter, Grace!Enter, hist
<1>2. ASSUME NEW c \in Cpus, Exit(c) PROVE Grace!Exit(c)
  BY <1>2 DEF Exit, Grace!Exit
<1>3. ASSUME NEW c \in Cpus, NEW cb \in Heads, call_rcu(c, cb) PROVE Grace!Call(cb)
  BY <1>3 DEF call_rcu, Grace!Call
<1>4. ASSUME NEW c \in Cpus, Invoke(c) PROVE \E cb \in Heads : Grace!Invoke(cb)
  <2>1. Head(donelist[c]) \in queued /\ Head(donelist[c]) \in Range(donelist[c])
    BY <1>4, InvokeListed DEF IInv
  <2>2. waits[Head(donelist[c])] = {}
    BY <2>1 DEF IInv, Covered
  <2>3. Head(donelist[c]) \in Heads
    BY <2>1 DEF IInv, TypeOK
  <2>4. queued' = queued \ {Head(donelist[c])} /\ UNCHANGED <<reading, waits>>
    BY <1>4 DEF Invoke
  <2> QED
    BY <2>1, <2>2, <2>3, <2>4 DEF Grace!Invoke
<1>5. ASSUME NEW c \in Cpus, BarrierCall(c) PROVE \E cb \in Heads : Grace!Call(cb)
  BY <1>3, <1>5, HeadsType DEF BarrierCall
<1>6. ASSUME NEW c \in Cpus, NEW cb \in Callbacks, CallRcu(c, cb) PROVE \E x \in Heads : Grace!Call(x)
  BY <1>3, <1>6 DEF CallRcu, Heads
<1>7. ASSUME NEW c \in Cpus, Softirq(c) \/ NextToCur(c) \/ CpuPrepare(c)
      PROVE  UNCHANGED <<reading, queued, waits>>
  BY <1>7 DEF Softirq, NextToCur, CpuPrepare, hist
<1>8. ASSUME Take \/ BarrierBegin \/ UNCHANGED vars PROVE UNCHANGED <<reading, queued, waits>>
  BY <1>8 DEF Take, BarrierBegin, vars, hist
<1> QED
  BY <1>0, <1>1, <1>2, <1>4, <1>5, <1>6, <1>7, <1>8, ControlKeepsLists, StepCases

(* call_rcu() keeps its promise: whatever CPUs go down or come up, a       *)
(* callback is invoked once per call, and not before the read sections     *)
(* open at the call have ended.                                            *)
THEOREM PromiseKept == Spec => Promise
<1>1. Init => Grace!GInit
  BY DEF Init, Grace!GInit
<1>2. IInv /\ [Next]_vars => [Grace!GNext]_(Grace!gvars)
  BY StepRefines
<1> QED
  BY <1>1, <1>2, InitInv, NextInv, PTL DEF Spec, Promise, Grace!GSpec

-----------------------------------------------------------------------------
\* rcu_barrier()

\* Every callback that is queued is in the lists of a CPU, and a CPU that is
\* down and cleared up after has none.
Kept ==
  /\ \A cb \in queued : \E c \in Cpus : cb \in Range(Chain(c))
  /\ \A c \in Cpus \ cpu_online_map : c # hot => Chain(c) = <<>>
  /\ before \subseteq queued

\* During rcu_barrier() exactly the CPUs that are online take part, and none
\* goes down or comes up.
Halted ==
  \A c \in Cpus : barrier[c] # "no" =>
    hot = Nobody /\ \A d \in Cpus : barrier[d] # "no" <=> d \in cpu_online_map

\* The rcu_head on the stack of rcu_barrier_action() is queued on that CPU,
\* and only while it waits.
HeadHere ==
  \A c \in Cpus : BarrierHead(c) \in queued => barrier[c] = "wait" /\ BarrierHead(c) \in Range(Chain(c))

NoneAfter(s, h, B) == \A i, j \in DOMAIN s : i < j /\ s[i] = h => s[j] \notin B

\* What was queued before the barrier is invoked before the CPU's rcu_head.
Ahead ==
  \A c \in Cpus :
    /\ NoneAfter(Chain(c), BarrierHead(c), before)
    /\ barrier[c] \in {"wait", "back"} /\ BarrierHead(c) \notin queued =>
         Range(Chain(c)) \cap before = {}

\* The CPUs whose rcu_head has been invoked are counted, and the first CPU
\* that returns has counted them all.
Passed == {c \in Cpus : barrier[c] \in {"wait", "back"} /\ BarrierHead(c) \notin queued}

AllPassed ==
  /\ \A c \in Cpus : barrier[c] # "no" => cpu_count = Cardinality(Passed)
  /\ \A c \in Cpus : barrier[c] = "back" => Passed = cpu_online_map

BInv == Kept /\ Halted /\ HeadHere /\ Ahead /\ AllPassed

LEMMA NoneAfterMissing ==
  ASSUME NEW S, NEW s \in Seq(S), NEW h, NEW B, h \notin Range(s)
  PROVE  NoneAfter(s, h, B)
BY SMTT(30) DEF NoneAfter, Range

LEMMA NoneAfterAppend ==
  ASSUME NEW S, NEW s \in Seq(S), NEW e \in S, NEW h, NEW B, NoneAfter(s, h, B), e \notin B
  PROVE  NoneAfter(Append(s, e), h, B)
<1>1. /\ DOMAIN Append(s, e) = 1 .. Len(s) + 1 /\ DOMAIN s = 1 .. Len(s) /\ Len(s) \in Nat
      /\ \A i \in 1 .. Len(s) : Append(s, e)[i] = s[i]
      /\ Append(s, e)[Len(s) + 1] = e
  BY AppendProperties, LenProperties, SMTT(30)
<1> SUFFICES ASSUME NEW i \in 1 .. Len(s) + 1, NEW j \in 1 .. Len(s) + 1, i < j,
                    Append(s, e)[i] = h
             PROVE  Append(s, e)[j] \notin B
  BY <1>1 DEF NoneAfter
<1>2. i \in DOMAIN s /\ s[i] = h /\ (j = Len(s) + 1 \/ j \in DOMAIN s)
  BY <1>1, SMTT(30)
<1> QED
  BY <1>1, <1>2 DEF NoneAfter

LEMMA NoneAfterTail ==
  ASSUME NEW S, NEW s \in Seq(S), s # <<>>, NEW h, NEW B, NoneAfter(s, h, B)
  PROVE  NoneAfter(Tail(s), h, B) /\ (Head(s) = h => Range(Tail(s)) \cap B = {})
<1>1. /\ Tail(s) \in Seq(S) /\ Len(Tail(s)) = Len(s) - 1 /\ Len(s) \in Nat \ {0}
      /\ \A i \in 1 .. Len(Tail(s)) : Tail(s)[i] = s[i + 1]
  BY HeadTailProperties, EmptySeq
<1>2. DOMAIN s = 1 .. Len(s) /\ DOMAIN Tail(s) = 1 .. Len(s) - 1 /\ Head(s) = s[1]
  BY <1>1, LenProperties, SMTT(30)
<1>3. \A i \in DOMAIN Tail(s) : i + 1 \in DOMAIN s /\ 1 < i + 1 /\ Tail(s)[i] = s[i + 1]
  BY <1>1, <1>2, SMTT(30)
<1>4. \A i, j \in DOMAIN Tail(s) : i < j => i + 1 < j + 1
  BY <1>2, SMTT(30)
<1>5. NoneAfter(Tail(s), h, B)
  BY <1>3, <1>4 DEF NoneAfter
<1>6. Head(s) = h => Range(Tail(s)) \cap B = {}
  <2>1. 1 \in DOMAIN s
    BY <1>1, <1>2, SMTT(30)
  <2> QED
    BY <1>2, <1>3, <2>1 DEF NoneAfter, Range
<1> QED
  BY <1>5, <1>6

(* The rcu_heads of rcu_barrier() are different ones and no others.        *)
LEMMA HeadsApart ==
  /\ \A c, d \in Cpus : BarrierHead(c) = BarrierHead(d) => c = d
  /\ \A c \in Cpus : BarrierHead(c) \in BarrierHeads /\ BarrierHead(c) \notin Callbacks
BY RcuHeads, SMTT(30) DEF BarrierHead, BarrierHeads

LEMMA BarrierStill ==
  ASSUME BInv, UNCHANGED <<queued, before, barrier, cpu_count, cpu_online_map, hot>>,
         \A c \in Cpus : Chain(c)' = Chain(c)
  PROVE  BInv'
<1>1. Passed' = Passed
  BY DEF Passed
<1>2. Kept' /\ Halted' /\ HeadHere' /\ Ahead'
  BY DEF BInv, Kept, Halted, HeadHere, Ahead
<1>3. AllPassed'
  BY <1>1 DEF BInv, AllPassed
<1> QED
  BY <1>2, <1>3 DEF BInv

LEMMA ChainsType == TypeOK => \A c \in Cpus : Chain(c) \in Seq(Heads)
BY ChainType

(* Without a barrier only what Kept says is to be shown.                   *)
LEMMA BarrierOff ==
  ASSUME TypeOK', Listed', Kept', \A c \in Cpus : barrier'[c] = "no" /\ BarrierHead(c) \notin queued'
  PROVE  BInv'
<1>0. (\A c \in Cpus : Chain(c) \in Seq(Heads))'
  BY ChainsType, PTL
<1>1. \A c \in Cpus : Chain(c)' \in Seq(Heads) /\ BarrierHead(c) \notin Range(Chain(c)')
  BY <1>0 DEF Listed
<1>2. \A c \in Cpus : NoneAfter(Chain(c)', BarrierHead(c), before')
  BY <1>1, NoneAfterMissing
<1>3. Halted' /\ HeadHere' /\ AllPassed'
  BY DEF Halted, HeadHere, AllPassed
<1>4. Ahead'
  BY <1>2 DEF Ahead
<1> QED
  BY <1>3, <1>4 DEF BInv

(* Nothing is queued by rcu_barrier_action() while it does not run.        *)
LEMMA NoHeads ==
  ASSUME BInv, \A c \in Cpus : barrier[c] = "no"
  PROVE  \A c \in Cpus : BarrierHead(c) \notin queued
BY DEF BInv, HeadHere

(* CPUs come and go while there is no barrier.                             *)
LEMMA BarrierHotplug ==
  ASSUME TypeOK, Sections, Listed, BInv, TypeOK', Listed',
         Take \/ CpuOnline \/ \E c \in Cpus : CpuDown(c) \/ CpuPrepare(c)
  PROVE  BInv'
<1>1. Boot \in Cpus /\ Boot \in cpu_online_map
  BY RcuConstants DEF TypeOK
<1>2. \A c \in Cpus : barrier[c] = "no"
  <2>1. hot = Nobody => barrier[Boot] = "no"
    BY <1>1 DEF Take, CpuOnline, CpuDown, CpuPrepare, Stopped, Sections, At, Notifying
  <2> QED
    BY <1>1, <2>1 DEF BInv, Halted
<1>3. UNCHANGED <<barrier, queued, before>>
  BY DEF Take, CpuOnline, CpuDown, CpuPrepare, hist, rest
<1>4. \A c \in Cpus : barrier'[c] = "no" /\ BarrierHead(c) \notin queued'
  BY <1>2, <1>3, NoHeads
<1>5. CASE Take
  <2>1. hot' = Nobody /\ UNCHANGED cpu_online_map
    BY <1>5 DEF Take
  <2>2. \A c \in Cpus : c = hot => Chain(c)' = <<>>
    BY <1>5, TakeListed
  <2>3. \A c \in Cpus \ cpu_online_map : Chain(c)' = <<>>
    BY <1>1, <1>5, <2>2, TakeListed DEF BInv, Kept
  <2>4. \A cb \in queued : \E c \in Cpus : cb \in Range(Chain(c)')
    <3>1. TAKE cb \in queued
    <3>2. PICK c \in Cpus : cb \in Range(Chain(c))
      BY DEF BInv, Kept
    <3>3. CASE c = hot \/ c = Boot
      BY <1>1, <1>5, <3>2, <3>3, TakeListed
    <3>4. CASE c # hot /\ c # Boot
      BY <1>5, <3>2, <3>4, TakeListed
    <3> QED
      BY <3>3, <3>4
  <2> QED
    BY <1>3, <1>4, <2>1, <2>3, <2>4, BarrierOff DEF BInv, Kept
<1>6. CASE CpuOnline
  <2>1. /\ cpu_online_map' = cpu_online_map \cup {hot}
        /\ \A c \in Cpus : Chain(c)' = Chain(c)
    BY <1>6 DEF CpuOnline, Chain, rdp
  <2> QED
    BY <1>3, <1>4, <2>1, BarrierOff DEF BInv, Kept
<1>7. ASSUME NEW c \in Cpus, CpuDown(c) PROVE BInv'
  <2>1. /\ cpu_online_map' = cpu_online_map \ {c} /\ hot' = c /\ hot = Nobody
        /\ \A d \in Cpus : Chain(d)' = Chain(d)
    BY <1>7 DEF CpuDown, Stopped, Chain, rdp
  <2>2. \A d \in Cpus : d # hot
    BY <2>1, RcuConstants
  <2> QED
    BY <1>3, <1>4, <2>1, <2>2, BarrierOff DEF BInv, Kept
<1>8. ASSUME NEW c \in Cpus, CpuPrepare(c) PROVE BInv'
  <2>1. c \notin cpu_online_map /\ hot = Nobody /\ c # hot /\ UNCHANGED cpu_online_map
    BY <1>8, RcuConstants DEF CpuPrepare
  <2>2. \A d \in Cpus : d # hot
    BY <2>1, RcuConstants
  <2>3. \A d \in Cpus : Chain(d)' = Chain(d)
    BY <1>8, <2>1, PrepareListed DEF BInv, Kept
  <2> QED
    BY <1>3, <1>4, <2>1, <2>2, <2>3, BarrierOff DEF BInv, Kept
<1> QED
  BY <1>5, <1>6, <1>7, <1>8

LEMMA BarrierBegins ==
  ASSUME TypeOK, Listed, BInv, BarrierBegin
  PROVE  BInv'
<1>1. Boot \in Cpus /\ Boot \in cpu_online_map
  BY RcuConstants DEF TypeOK
<1>2. (\A c \in Cpus : barrier[c] = "no") /\ hot = Nobody
  BY <1>1 DEF BarrierBegin, Stopped, BInv, Halted
<1>3. /\ UNCHANGED <<queued, cpu_online_map, hot>> /\ cpu_count' = 0 /\ before' = queued
      /\ \A c \in Cpus : Chain(c)' = Chain(c)
      /\ \A c \in Cpus : barrier'[c] = IF c \in cpu_online_map THEN "call" ELSE "no"
  BY DEF BarrierBegin, Chain, rdp
<1>4. \A c \in Cpus : BarrierHead(c) \notin queued
  BY <1>2, NoHeads
<1>5. \A c \in Cpus : NoneAfter(Chain(c), BarrierHead(c), queued)
  BY <1>4, ChainType, NoneAfterMissing DEF Listed
<1>6. \A c \in Cpus : barrier'[c] \in {"call", "no"} /\ (barrier'[c] # "no" <=> c \in cpu_online_map)
  BY <1>3
<1>7. Kept' /\ Halted' /\ HeadHere'
  BY <1>2, <1>3, <1>4, <1>6 DEF BInv, Kept, Halted, HeadHere
<1>8. Ahead'
  BY <1>3, <1>5, <1>6 DEF Ahead
<1>9. Passed' = {}
  BY <1>6 DEF Passed
<1>10. AllPassed'
  BY <1>3, <1>6, <1>9, FS_EmptySet DEF AllPassed
<1> QED
  BY <1>7, <1>8, <1>10 DEF BInv

(* call_rcu() adds at the end of a chain, what it adds is not of the old   *)
(* ones, and the CPU is online.                                            *)
LEMMA BarrierCalls ==
  ASSUME TypeOK, Listed, BInv, NEW c \in cpu_online_map, NEW cb \in Heads, call_rcu(c, cb),
         UNCHANGED <<cpu_online_map, hot, cpu_count>>,
         \/ UNCHANGED barrier /\ cb \in Callbacks
         \/ barrier[c] = "call" /\ cb = BarrierHead(c) /\ barrier' = [barrier EXCEPT ![c] = "wait"]
  PROVE  BInv'
<1>1. c \in Cpus /\ cb \notin queued /\ queued' = queued \cup {cb} /\ UNCHANGED before
  BY DEF TypeOK, call_rcu
<1>2. /\ Chain(c)' = Append(Chain(c), cb) /\ Range(Chain(c)') = Range(Chain(c)) \cup {cb}
      /\ \A d \in Cpus : d # c => Chain(d)' = Chain(d)
  BY <1>1, CallListed
<1>3. /\ \A d \in Cpus : d # c => barrier'[d] = barrier[d]
      /\ \A d \in Cpus : barrier'[d] # "no" <=> barrier[d] # "no"
      /\ \A d \in Cpus : barrier'[d] = "back" <=> barrier[d] = "back"
      /\ \A d \in Cpus : barrier[d] = "wait" => barrier'[d] = "wait"
  BY <1>1 DEF TypeOK
<1>4. \A d \in Cpus : cb = BarrierHead(d) => d = c /\ barrier[c] = "call" /\ barrier'[c] = "wait"
  BY <1>1, HeadsApart DEF TypeOK
<1>5. Kept'
  BY <1>1, <1>2 DEF BInv, Kept
<1>6. Halted'
  BY <1>3 DEF BInv, Halted
<1>7. HeadHere'
  BY <1>1, <1>2, <1>3, <1>4 DEF BInv, HeadHere
<1>8. cb \notin before
  BY <1>1 DEF BInv, Kept
<1>9. NoneAfter(Chain(c)', BarrierHead(c), before)
  <2>1. Chain(c) \in Seq(Heads) /\ NoneAfter(Chain(c), BarrierHead(c), before)
    BY <1>1, ChainType DEF BInv, Ahead
  <2> QED
    BY <1>2, <1>8, <2>1, NoneAfterAppend, SMTT(30)
<1>10. \A d \in Cpus : barrier'[d] \in {"wait", "back"} /\ BarrierHead(d) \notin queued' =>
         barrier[d] \in {"wait", "back"} /\ BarrierHead(d) \notin queued
  BY <1>1, <1>3, <1>4
<1>11. Ahead'
  <2>1. \A d \in Cpus : NoneAfter(Chain(d)', BarrierHead(d), before)
    BY <1>2, <1>9 DEF BInv, Ahead
  <2>2. ASSUME NEW d \in Cpus, barrier'[d] \in {"wait", "back"}, BarrierHead(d) \notin queued'
        PROVE  Range(Chain(d)') \cap before = {}
    <3>1. Range(Chain(d)) \cap before = {}
      BY <1>10, <2>2 DEF BInv, Ahead
    <3>2. CASE d = c
      BY <1>2, <1>8, <3>1, <3>2
    <3>3. CASE d # c
      BY <1>2, <3>1, <3>3
    <3> QED
      BY <3>2, <3>3
  <2> QED
    BY <1>1, <2>1, <2>2 DEF Ahead
<1>12. Passed' = Passed
  <2>1. ASSUME NEW d \in Cpus, d \in Passed PROVE d \in Passed'
    BY <1>1, <1>3, <1>4, <2>1 DEF Passed
  <2> QED
    BY <1>10, <2>1 DEF Passed
<1>13. AllPassed'
  BY <1>3, <1>12 DEF BInv, AllPassed
<1> QED
  BY <1>5, <1>6, <1>7, <1>11, <1>13 DEF BInv

(* rcu_do_batch(): with the rcu_head of the barrier, all that was queued   *)
(* before it on this CPU has been invoked.                                 *)
LEMMA BarrierInvokes ==
  ASSUME TypeOK, Listed, BInv, NEW c \in Cpus, Invoke(c)
  PROVE  BInv'
<1>1. PICK cb : cb = Head(donelist[c])
  OBVIOUS
<1>2. /\ queued' = queued \ {cb} /\ before' = before \ {cb}
      /\ cpu_count' = IF cb \in BarrierHeads THEN cpu_count + 1 ELSE cpu_count
      /\ UNCHANGED <<barrier, cpu_online_map, hot>>
  BY <1>1 DEF Invoke
<1>3. /\ cb \in queued /\ cb \in Range(Chain(c)) /\ Chain(c) # <<>> /\ Head(Chain(c)) = cb
      /\ Chain(c)' = Tail(Chain(c)) /\ Range(Chain(c)') = Range(Chain(c)) \ {cb}
      /\ \A d \in Cpus : d # c => Chain(d)' = Chain(d)
  BY <1>1, InvokeListed
<1>4. \A d \in Cpus : d # c => cb \notin Range(Chain(d))
  BY <1>3 DEF Listed
<1>5. \A d \in Cpus : cb = BarrierHead(d) => d = c /\ barrier[c] = "wait"
  BY <1>3, <1>4 DEF BInv, HeadHere
<1>6. Kept'
  <2>1. \A x \in queued' : \E d \in Cpus : x \in Range(Chain(d)')
    BY <1>2, <1>3 DEF BInv, Kept
  <2>2. \A d \in Cpus \ cpu_online_map : d # hot => Chain(d)' = <<>>
    BY <1>3 DEF BInv, Kept
  <2> QED
    BY <1>2, <2>1, <2>2 DEF BInv, Kept
<1>7. Halted'
  BY <1>2 DEF BInv, Halted
<1>8. HeadHere'
  BY <1>2, <1>3 DEF BInv, HeadHere
<1>9. Ahead'
  <2>1. Chain(c) \in Seq(Heads) /\ NoneAfter(Chain(c), BarrierHead(c), before)
    BY ChainType DEF BInv, Ahead
  <2>2. /\ NoneAfter(Chain(c)', BarrierHead(c), before)
        /\ cb = BarrierHead(c) => Range(Chain(c)') \cap before = {}
    BY <1>3, <2>1, NoneAfterTail, SMTT(30)
  <2>3. \A d \in Cpus : NoneAfter(Chain(d)', BarrierHead(d), before')
    BY <1>2, <1>3, <2>2 DEF BInv, Ahead, NoneAfter
  <2>4. ASSUME NEW d \in Cpus, barrier'[d] \in {"wait", "back"}, BarrierHead(d) \notin queued'
        PROVE  Range(Chain(d)') \cap before' = {}
    <3>1. CASE cb = BarrierHead(d)
      BY <1>2, <1>5, <2>2, <3>1
    <3>2. CASE cb # BarrierHead(d)
      <4>1. Range(Chain(d)) \cap before = {}
        BY <1>2, <2>4, <3>2 DEF BInv, Ahead
      <4> QED
        BY <1>2, <1>3, <4>1
    <3> QED
      BY <3>1, <3>2
  <2> QED
    BY <2>3, <2>4 DEF Ahead
<1>10. AllPassed'
  <2>1. CASE cb = BarrierHead(c)
    <3>1. barrier[c] = "wait" /\ c \notin Passed /\ cb \in BarrierHeads
      BY <1>3, <1>5, <2>1, HeadsApart DEF Passed
    <3>2. Passed' = Passed \cup {c}
      BY <1>2, <1>5, <2>1, <3>1 DEF Passed
    <3>3. IsFiniteSet(Passed)
      BY RcuHeads, FS_Subset DEF Passed
    <3>4. Cardinality(Passed') = Cardinality(Passed) + 1
      BY <3>1, <3>2, <3>3, FS_AddElement
    <3>5. cpu_count = Cardinality(Passed)
      BY <3>1 DEF BInv, AllPassed
    <3>6. \A d \in Cpus : barrier[d] # "back"
      <4>1. c \in cpu_online_map
        BY <3>1 DEF BInv, Halted
      <4> QED
        BY <3>1, <4>1 DEF BInv, AllPassed
    <3> QED
      BY <1>2, <3>1, <3>4, <3>5, <3>6 DEF AllPassed
  <2>2. CASE cb # BarrierHead(c)
    <3>1. \A d \in Cpus : cb # BarrierHead(d)
      BY <1>5, <2>2
    <3>2. cb \notin BarrierHeads
      BY <3>1 DEF BarrierHeads
    <3>3. Passed' = Passed
      BY <1>2, <3>1 DEF Passed
    <3> QED
      BY <1>2, <3>2, <3>3 DEF BInv, AllPassed
  <2> QED
    BY <2>1, <2>2
<1> QED
  BY <1>6, <1>7, <1>8, <1>9, <1>10 DEF BInv

(* A CPU returns when as many rcu_heads were invoked as there are CPUs     *)
(* online: then it is all of them.                                         *)
LEMMA BarrierReturns ==
  ASSUME TypeOK, Listed, BInv, NEW c \in Cpus, BarrierReturn(c)
  PROVE  BInv'
<1>1. /\ barrier[c] = "wait" /\ cpu_count = Cardinality(cpu_online_map)
      /\ barrier' = [barrier EXCEPT ![c] = "back"]
      /\ UNCHANGED <<queued, before, cpu_online_map, hot, cpu_count>>
      /\ \A d \in Cpus : Chain(d)' = Chain(d)
  BY DEF BarrierReturn, hist, rdp, Chain
<1>2. Passed = cpu_online_map
  <2>1. Passed \subseteq cpu_online_map
    BY <1>1 DEF BInv, Halted, Passed
  <2>2. IsFiniteSet(cpu_online_map)
    BY RcuHeads, FS_Subset DEF TypeOK
  <2>3. cpu_count = Cardinality(Passed)
    BY <1>1 DEF BInv, AllPassed
  <2> QED
    BY <1>1, <2>1, <2>2, <2>3, FS_Subset
<1>3. BarrierHead(c) \notin queued
  BY <1>1, <1>2 DEF BInv, Halted, Passed
<1>4. /\ \A d \in Cpus : barrier'[d] # "no" <=> barrier[d] # "no"
      /\ \A d \in Cpus : barrier'[d] \in {"wait", "back"} <=> barrier[d] \in {"wait", "back"}
      /\ \A d \in Cpus : d # c => barrier'[d] = barrier[d]
  BY <1>1 DEF TypeOK
<1>5. Kept' /\ Halted'
  BY <1>1, <1>4 DEF BInv, Kept, Halted
<1>6. HeadHere' /\ Ahead'
  BY <1>1, <1>3, <1>4 DEF BInv, HeadHere, Ahead
<1>7. Passed' = Passed
  BY <1>1, <1>4 DEF Passed
<1>8. AllPassed'
  BY <1>1, <1>2, <1>4, <1>7 DEF BInv, AllPassed
<1> QED
  BY <1>5, <1>6, <1>8 DEF BInv

LEMMA BarrierEnds ==
  ASSUME TypeOK, BInv, TypeOK', Listed', BarrierEnd
  PROVE  BInv'
<1>1. Boot \in Cpus /\ Boot \in cpu_online_map
  BY RcuConstants DEF TypeOK
<1>2. /\ barrier[Boot] = "back" /\ \A c \in Cpus : barrier'[c] = "no"
      /\ UNCHANGED <<queued, before, cpu_online_map, hot>>
      /\ \A d \in Cpus : Chain(d)' = Chain(d)
  BY <1>1 DEF BarrierEnd, hist, rdp, Chain
<1>3. \A c \in Cpus : BarrierHead(c) \notin queued
  <2>1. \A c \in Cpus : barrier[c] # "wait"
    BY <1>1, <1>2 DEF BarrierEnd, BInv, Halted
  <2> QED
    BY <2>1 DEF BInv, HeadHere
<1>4. Kept'
  BY <1>2 DEF BInv, Kept
<1> QED
  BY <1>2, <1>3, <1>4, BarrierOff

LEMMA BarrierStep ==
  ASSUME IInv, IInv', BInv, [Next]_vars
  PROVE  BInv'
<1> USE DEF IInv
<1>1. ASSUME UNCHANGED <<nxtlist, curlist, donelist, queued, before, barrier, cpu_count,
                         cpu_online_map, hot>>
      PROVE  BInv'
  BY <1>1, BarrierStill DEF Chain
<1>2. ASSUME NEW c \in Cpus, Enter(c) \/ Exit(c) PROVE BInv'
  BY <1>1, <1>2 DEF Enter, Exit, rdp, hist, rest
<1>3. ASSUME NEW c \in Cpus, Softirq(c) \/ NextToCur(c) PROVE BInv'
  <2>1. UNCHANGED <<before, barrier, cpu_count, cpu_online_map, hot>>
    BY <1>3 DEF Softirq, NextToCur, hist, rest
  <2> QED
    BY <1>3, <2>1, MoveListed, BarrierStill
<1>4. ASSUME NEW c \in Cpus, Control(c), ~CpuDown(c), ~BarrierReturn(c) PROVE BInv'
  BY <1>1, <1>4 DEF Control, LookPending, Register, CheckQuiescent, Quiet, Leave, StartTest,
                    StartCur, rdp, hist, rest
<1>5. CASE HotplugControl /\ ~CpuOnline /\ ~BarrierEnd
  BY <1>1, <1>5 DEF HotplugControl, Flush, StartTest, StartCur, CpuCancel, CpuDie, rdp, hist, rest
<1>6. CASE UNCHANGED vars
  BY <1>1, <1>6 DEF vars, rdp, hist, rest
<1>7. ASSUME NEW c \in Cpus, NEW cb \in Callbacks, CallRcu(c, cb) PROVE BInv'
  <2>1. /\ c \in cpu_online_map /\ cb \in Heads /\ call_rcu(c, cb)
        /\ UNCHANGED <<cpu_online_map, hot, cpu_count, barrier>>
    BY <1>7 DEF CallRcu, rest, Heads
  <2> QED
    BY <2>1, BarrierCalls
<1>8. ASSUME NEW c \in Cpus, BarrierCall(c) PROVE BInv'
  <2>1. /\ barrier[c] = "call" /\ call_rcu(c, BarrierHead(c)) /\ BarrierHead(c) \in Heads
        /\ barrier' = [barrier EXCEPT ![c] = "wait"] /\ UNCHANGED <<cpu_online_map, hot, cpu_count>>
    BY <1>8, HeadsType DEF BarrierCall
  <2>2. c \in cpu_online_map
    BY <2>1 DEF BInv, Halted
  <2> QED
    BY <2>1, <2>2, BarrierCalls
<1>9. ASSUME NEW c \in Cpus, Invoke(c) \/ BarrierReturn(c) PROVE BInv'
  BY <1>9, BarrierInvokes, BarrierReturns
<1>10. CASE Take \/ CpuOnline \/ \E c \in Cpus : CpuDown(c) \/ CpuPrepare(c)
  BY <1>10, BarrierHotplug
<1>11. CASE BarrierBegin \/ BarrierEnd
  BY <1>11, BarrierBegins, BarrierEnds
<1> QED
  BY <1>2, <1>3, <1>4, <1>5, <1>6, <1>7, <1>8, <1>9, <1>10, <1>11, StepCases

LEMMA BarrierInit == Init => BInv
<1> SUFFICES ASSUME Init PROVE BInv
  OBVIOUS
<1>1. IInv
  BY InitInv
<1>2. \A c \in Cpus : Chain(c) \in Seq(Heads) /\ Range(Chain(c)) = {}
  BY <1>1, ChainType, EmptyRange DEF IInv, Init
<1>3. \A c \in Cpus : NoneAfter(Chain(c), BarrierHead(c), before)
  BY <1>2, NoneAfterMissing
<1>4. Kept /\ Halted /\ HeadHere /\ AllPassed
  BY DEF Init, Kept, Halted, HeadHere, AllPassed
<1>5. Ahead
  BY <1>2, <1>3 DEF Ahead
<1> QED
  BY <1>4, <1>5 DEF BInv

(* rcu_barrier() waits for every callback that was queued when it began,   *)
(* on whichever CPU: none is on a CPU that is down, on each CPU they come  *)
(* before its rcu_head, and no CPU returns before all rcu_heads were       *)
(* invoked.                                                                *)
THEOREM BarrierCorrect == Spec => []BarrierFlushed
<1>1. IInv /\ BInv => BarrierFlushed
  <2> SUFFICES ASSUME IInv, BInv, NEW c \in Cpus, barrier[c] = "back", NEW cb \in before
               PROVE  FALSE
    BY DEF BarrierFlushed
  <2>1. PICK d \in Cpus : cb \in Range(Chain(d))
    BY DEF BInv, Kept
  <2>2. CASE d \in cpu_online_map
    BY <2>1, <2>2 DEF BInv, AllPassed, Passed, Ahead
  <2>3. CASE d \notin cpu_online_map
    <3>1. hot = Nobody
      BY DEF BInv, Halted
    <3>2. Chain(d) = <<>>
      BY <2>3, <3>1, RcuConstants DEF BInv, Kept
    <3> QED
      BY <2>1, <3>2, EmptyRange
  <2> QED
    BY <2>2, <2>3
<1> QED
  BY <1>1, InitInv, NextInv, BarrierInit, BarrierStep, PTL DEF Spec
=============================================================================
