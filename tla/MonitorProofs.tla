--------------------------- MODULE MonitorProofs ----------------------------
(***************************************************************************)
(* Proofs about the sampler and the monitor, for any number of CPUs, CR3   *)
(* values and slots.                                                       *)
(*                                                                         *)
(* Cr3Sampler: types, mutual exclusion of the critical sections, the two   *)
(* facts the unlocked reads rest on (SizeNotStale and FaultCause), and     *)
(* that hook and hypercall implement the queue of SampleSet.               *)
(* Monitor: every step is one of the sampler, and what follows from the    *)
(* tool being its only caller.                                             *)
(***************************************************************************)
EXTENDS Monitor, TLAPS

USE ZenonT(90)

\* The actions of one CPU and of one caller, and the end of everything.
LEMMA StepCases ==
  ASSUME [Next]_vars
  PROVE  \/ \E c \in Cpus : Sched(c)
         \/ \E p \in Callers : VtOp(p)
         \/ UNCHANGED vars
BY DEF Next, Down

(* The shift loop of schedule() keeps the list a list: it moves words      *)
(* between slots and stores a CR3.                                         *)
LEMMA ShiftedType ==
  ASSUME NEW buf \in Buffer, NEW size \in {0, Size}, NEW cr3 \in Cr3s \cup {0}
  PROVE  Shifted(buf, size, cr3) \in Buffer
<1>1. buf \in [0 .. Size - 1 -> Word] /\ cr3 \in Word
  BY DEF Buffer, Index, Word
<1>2. \A i \in 0 .. Size - 1 : i # 0 => buf[i - 1] \in Word
  BY <1>1, SamplerAssumption, SMTT(30)
<1> QED
  BY <1>1, <1>2 DEF Shifted, Buffer, Index

(* The locals of schedule() and of do_vt_op() stay in their types when     *)
(* control moves on and when it returns.                                   *)
LEMMA GotoType ==
  ASSUME TypeOK, NEW c \in Cpus, NEW label \in SchedPc, Goto(c, label)
  PROVE  sched' \in [Cpus -> SchedLocals]
BY DEF TypeOK, Goto, SchedLocals

LEMMA JumpType ==
  ASSUME TypeOK, NEW p \in Callers, NEW label \in VtopPc, Jump(p, label)
  PROVE  vtop' \in [Callers -> VtopLocals]
BY DEF TypeOK, Jump, VtopLocals

LEMMA IdleType == Idle \in SchedLocals
BY DEF Idle, SchedLocals, SchedPc

LEMMA ReturnedType == Returned \in VtopLocals
BY SamplerAssumption, SMTT(30) DEF Returned, VtopLocals, VtopPc

LEMMA ReturnType ==
  ASSUME TypeOK, NEW p \in Callers, Return(p)
  PROVE  vtop' \in [Callers -> VtopLocals]
BY ReturnedType DEF TypeOK, Return

(* schedule() and do_vt_op() keep every field and local in its type.       *)
LEMMA TypeSched ==
  ASSUME TypeOK, NEW c \in Cpus, Sched(c)
  PROVE  TypeOK'
<1> USE DEF TypeOK, shared, history
<1>1. CASE SchedPick(c)
  <2>1. PICK cr3 \in Cr3s \cup {0} :
          sched' = [sched EXCEPT ![c] =
            [pc |-> "load", cr3 |-> cr3,
             size |-> IF FlagFirst THEN 0 ELSE recent_cr3_size,
             flag |-> IF FlagFirst THEN sample_flag ELSE 0]]
    BY <1>1 DEF SchedPick
  <2>2. sched' \in [Cpus -> SchedLocals]
    BY <2>1 DEF SchedLocals, SchedPc
  <2> QED
    BY <1>1, <2>2 DEF SchedPick
<1>2. CASE SchedLoad(c)
  <2> DEFINE size == IF FlagFirst THEN recent_cr3_size ELSE sched[c].size
             spin == [sched[c] EXCEPT !.pc = "spin", !.size = size, !.flag = 1]
  <2>1. sched[c] \in SchedLocals /\ size \in {0, Size}
    BY DEF SchedLocals
  <2>2. spin \in SchedLocals
    <3> HIDE DEF size
    <3> QED BY <2>1 DEF SchedLocals, SchedPc
  <2>3. sched' = [sched EXCEPT ![c] = Idle] \/ sched' = [sched EXCEPT ![c] = spin]
    BY <1>2 DEF SchedLoad
  <2>4. sched' \in [Cpus -> SchedLocals]
    <3> HIDE DEF spin
    <3> QED BY <2>2, <2>3, IdleType
  <2> QED
    BY <1>2, <2>4 DEF SchedLoad
<1>3. CASE SchedLock(c)
  <2>1. sched' \in [Cpus -> SchedLocals]
    BY <1>3, GotoType DEF SchedLock, SchedPc
  <2> QED
    BY <1>3, <2>1 DEF SchedLock, Acquire
<1>4. CASE SchedScan(c)
  <2>1. sched' \in [Cpus -> SchedLocals]
    BY <1>4, GotoType DEF SchedScan, SchedPc
  <2>2. sched[c].cr3 \in Cr3s \cup {0}
    BY DEF SchedLocals
  <2> QED
    BY <1>4, <2>1, <2>2 DEF SchedScan
<1>5. CASE SchedInsert(c)
  <2>1. sched[c].cr3 \in Cr3s \cup {0} /\ sched[c].size \in {0, Size}
    BY DEF SchedLocals
  <2>2. recent_cr3' \in Buffer
    BY <1>5, <2>1, ShiftedType DEF SchedInsert
  <2>3. sched' \in [Cpus -> SchedLocals]
    BY <1>5, GotoType DEF SchedInsert, SchedPc
  <2>4. since' \subseteq Cr3s \cup {0} /\ trusted' \in {"no", "draining", "yes"}
    BY <1>5, <2>1 DEF SchedInsert
  <2> QED
    BY <1>5, <2>2, <2>3, <2>4 DEF SchedInsert
<1>6. CASE SchedFault(c)
  BY <1>6 DEF SchedFault, Crash
<1>7. CASE SchedUnlock(c)
  BY <1>7, IdleType DEF SchedUnlock, Release
<1> QED
  BY <1>1, <1>2, <1>3, <1>4, <1>5, <1>6, <1>7 DEF Sched

LEMMA TypeVtOp ==
  ASSUME TypeOK, NEW p \in Callers, VtOp(p)
  PROVE  TypeOK'
<1> USE DEF TypeOK, shared, history
<1>1. CASE InitRefused(p)
  BY <1>1 DEF InitRefused, vars
<1>2. CASE InitCheck(p)
  <2>1. vtop' \in [Callers -> VtopLocals]
    BY <1>2, JumpType DEF InitCheck, VtopPc
  <2> QED
    BY <1>2, <2>1 DEF InitCheck
<1>3. CASE InitSize(p)
  <2>1. vtop' \in [Callers -> VtopLocals]
    BY <1>3, JumpType DEF InitSize, VtopPc
  <2> QED
    BY <1>3, <2>1 DEF InitSize
<1>4. CASE InitAlloc(p)
  <2>1. vtop' \in [Callers -> VtopLocals]
    BY <1>4, JumpType DEF InitAlloc, VtopPc
  <2> QED
    BY <1>4, <2>1 DEF InitAlloc
<1>5. CASE InitNoMem(p)
  <2>1. vtop' \in [Callers -> VtopLocals]
    BY <1>5, ReturnType DEF InitNoMem
  <2> QED
    BY <1>5, <2>1 DEF InitNoMem
<1>6. CASE InitFlag(p)
  <2>1. vtop' \in [Callers -> VtopLocals]
    BY <1>6, ReturnType DEF InitFlag
  <2> QED
    BY <1>6, <2>1 DEF InitFlag
<1>7. CASE StopCall(p)
  <2>1. vtop' \in [Callers -> VtopLocals]
    BY <1>7, JumpType DEF StopCall, VtopPc
  <2> QED
    BY <1>7, <2>1 DEF StopCall
<1>8. CASE StopLock(p)
  <2>1. vtop' \in [Callers -> VtopLocals]
    BY <1>8, JumpType DEF StopLock, VtopPc
  <2> QED
    BY <1>8, <2>1 DEF StopLock, Acquire
<1>9. CASE StopFlag(p)
  <2>1. vtop' \in [Callers -> VtopLocals]
    BY <1>9, JumpType DEF StopFlag, VtopPc
  <2> QED
    BY <1>9, <2>1 DEF StopFlag
<1>10. CASE StopSize(p)
  <2>1. vtop' \in [Callers -> VtopLocals]
    BY <1>10, JumpType DEF StopSize, VtopPc
  <2> QED
    BY <1>10, <2>1 DEF StopSize
<1>11. CASE StopFree(p)
  <2>1. vtop' \in [Callers -> VtopLocals]
    BY <1>11, ReturnType DEF StopFree
  <2> QED
    BY <1>11, <2>1 DEF StopFree, Release
<1>12. CASE GetCall(p)
  BY <1>12 DEF GetCall, VtopLocals, VtopPc
<1>13. CASE GetLock(p)
  <2>1. vtop' \in [Callers -> VtopLocals]
    BY <1>13, JumpType DEF GetLock, VtopPc
  <2> QED
    BY <1>13, <2>1 DEF GetLock, Acquire
<1>14. CASE GetSlot(p)
  <2>1. vtop[p] \in VtopLocals /\ recent_cr3 \in Buffer
    BY <1>14 DEF GetSlot
  <2>2. vtop[p].i \in Index /\ recent_cr3[vtop[p].i] \in Word /\ vtop[p].i + 1 \in 0 .. Size
    BY <1>14, <2>1, SamplerAssumption, SMTT(30) DEF GetSlot, Buffer, Index, VtopLocals
  <2>3. recent_cr3' \in Buffer
    BY <1>14, <2>1, <2>2 DEF GetSlot, Buffer, Word
  <2>4. vtop[p].out \in Seq(Word) /\ Append(vtop[p].out, recent_cr3[vtop[p].i]) \in Seq(Word)
    BY <2>1, <2>2, SMTT(30) DEF VtopLocals
  <2>5. PICK out \in Seq(Word) :
          vtop' = [vtop EXCEPT ![p].i = vtop[p].i + 1, ![p].out = out]
    BY <1>14, <2>4 DEF GetSlot
  <2>6. vtop' \in [Callers -> VtopLocals]
    BY <2>2, <2>5 DEF VtopLocals
  <2> QED
    BY <1>14, <2>3, <2>6 DEF GetSlot
<1>15. CASE GetFault(p)
  BY <1>15 DEF GetFault, Crash
<1>16. CASE GetDone(p)
  <2>1. vtop' \in [Callers -> VtopLocals]
    BY <1>16, ReturnType DEF GetDone
  <2> QED
    BY <1>16, <2>1 DEF GetDone, Release
<1> QED
  BY <1>1, <1>2, <1>3, <1>4, <1>5, <1>6, <1>7, <1>8, <1>9, <1>10, <1>11,
     <1>12, <1>13, <1>14, <1>15, <1>16 DEF VtOp

LEMMA TypeInit == Init => TypeOK
BY IdleType, ReturnedType DEF Init, TypeOK

LEMMA TypeStep == TypeOK /\ [Next]_vars => TypeOK'
<1> SUFFICES ASSUME TypeOK, [Next]_vars PROVE TypeOK'
  OBVIOUS
<1>1. CASE UNCHANGED vars
  BY <1>1 DEF vars, shared, history, TypeOK
<1> QED
  BY <1>1, StepCases, TypeSched, TypeVtOp

(* Every field of struct domain, and every local of schedule() and         *)
(* do_vt_op(), keeps its type for any number of CPUs and callers.          *)
THEOREM TypeCorrect == Spec => []TypeOK
BY TypeInit, TypeStep, PTL DEF Spec

-----------------------------------------------------------------------------
(* Mutual exclusion.                                                       *)

LEMMA MutexInit == Init => MutualExclusion
BY SamplerAssumption, SMTT(30)
   DEF Init, MutualExclusion, SchedInside, VtopInside, Idle, Returned

LEMMA MutexSched ==
  ASSUME TypeOK, MutualExclusion, NEW c \in Cpus, Sched(c)
  PROVE  MutualExclusion'
<1> USE SamplerAssumption
    DEF TypeOK, SchedLocals, VtopLocals, MutualExclusion, SchedInside, VtopInside, At, Goto, Idle
<1>1. CASE SchedPick(c)
  BY <1>1, SMTT(30) DEF SchedPick
<1>2. CASE SchedLoad(c)
  BY <1>2, SMTT(30) DEF SchedLoad
<1>3. CASE SchedLock(c)
  BY <1>3, SMTT(30) DEF SchedLock, Acquire
<1>4. CASE SchedScan(c)
  BY <1>4, SMTT(30) DEF SchedScan
<1>5. CASE SchedInsert(c)
  BY <1>5, SMTT(30) DEF SchedInsert
<1>6. CASE SchedFault(c)
  BY <1>6 DEF SchedFault
<1>7. CASE SchedUnlock(c)
  BY <1>7 DEF SchedUnlock, Release
<1> QED
  BY <1>1, <1>2, <1>3, <1>4, <1>5, <1>6, <1>7 DEF Sched

LEMMA MutexVtOp ==
  ASSUME TypeOK, MutualExclusion, NEW p \in Callers, VtOp(p)
  PROVE  MutualExclusion'
<1> USE SamplerAssumption
    DEF TypeOK, SchedLocals, VtopLocals, MutualExclusion, SchedInside, VtopInside, In, Jump, Return, Returned
<1>1. CASE InitRefused(p)
  BY <1>1 DEF InitRefused, vars
<1>2. CASE InitCheck(p)
  BY <1>2, SMTT(30) DEF InitCheck
<1>3. CASE InitSize(p)
  BY <1>3, SMTT(30) DEF InitSize
<1>4. CASE InitAlloc(p)
  BY <1>4, SMTT(30) DEF InitAlloc
<1>5. CASE InitNoMem(p)
  BY <1>5 DEF InitNoMem
<1>6. CASE InitFlag(p)
  BY <1>6 DEF InitFlag
<1>7. CASE StopCall(p)
  BY <1>7, SMTT(30) DEF StopCall
<1>8. CASE StopLock(p)
  BY <1>8, SMTT(30) DEF StopLock, Acquire
<1>9. CASE StopFlag(p)
  BY <1>9, SMTT(30) DEF StopFlag
<1>10. CASE StopSize(p)
  BY <1>10, SMTT(30) DEF StopSize
<1>11. CASE StopFree(p)
  BY <1>11 DEF StopFree, Release
<1>12. CASE GetCall(p)
  BY <1>12, SMTT(30) DEF GetCall
<1>13. CASE GetLock(p)
  BY <1>13, SMTT(30) DEF GetLock, Acquire
<1>14. CASE GetSlot(p)
  BY <1>14, SMTT(30) DEF GetSlot
<1>15. CASE GetFault(p)
  BY <1>15 DEF GetFault
<1>16. CASE GetDone(p)
  BY <1>16 DEF GetDone, Release
<1> QED
  BY <1>1, <1>2, <1>3, <1>4, <1>5, <1>6, <1>7, <1>8, <1>9, <1>10, <1>11,
     <1>12, <1>13, <1>14, <1>15, <1>16 DEF VtOp

LEMMA MutexStep == TypeOK /\ MutualExclusion /\ [Next]_vars => MutualExclusion'
<1> SUFFICES ASSUME TypeOK, MutualExclusion, [Next]_vars PROVE MutualExclusion'
  OBVIOUS
<1>1. CASE UNCHANGED vars
  BY <1>1 DEF vars, MutualExclusion, SchedInside, VtopInside
<1> QED
  BY <1>1, StepCases, MutexSched, MutexVtOp

(* Whoever scans, shifts, drains or frees the list holds recent_cr3_lock,  *)
(* and whoever holds it is doing one of these: at any time at most one of  *)
(* all CPUs and callers is in its critical section.                        *)
THEOREM MutexCorrect == Spec => []MutualExclusion
BY MutexInit, MutexStep, TypeCorrect, PTL DEF Spec

-----------------------------------------------------------------------------
(* What the unlocked reads rest on.  FlagSeen: whoever goes for the lock   *)
(* has seen sample_flag set.  StopMarked: the steps of operation 2 belong  *)
(* to a call that was counted.  ListThere and SizeThere: the flag is set   *)
(* after the list, and the size before it; only a stop or a failed         *)
(* allocation takes the list away again, and only a stop the size.         *)

FlagSeen ==
  \A c \in Cpus : sched[c].pc \in {"spin", "scan", "insert", "unlock"} => sched[c].flag = 1

StopMarked ==
  \A p \in Callers : vtop[p].pc \in {"stop_spin", "stop_flag", "stop_size", "stop_free"} => stopped

ListThere ==
  stopped \/ nomem \/ recent_cr3 # NULL \/
    /\ sample_flag = 0
    /\ \A c \in Cpus : sched[c].flag = 0
    /\ \A p \in Callers : vtop[p].pc # "init_flag"
    /\ recent_cr3_size # 0 => \E p \in Callers : vtop[p].pc = "init_alloc"

SizeThere ==
  FlagFirst /\ ~stopped =>
    /\ sample_flag = 1 => recent_cr3_size = Size
    /\ \A p \in Callers : vtop[p].pc \in {"init_alloc", "init_flag"} => recent_cr3_size = Size
    /\ \A c \in Cpus : sched[c].flag = 1 =>
         IF sched[c].pc = "load" THEN recent_cr3_size = Size ELSE sched[c].size = Size

Control == FlagSeen /\ StopMarked /\ ListThere /\ SizeThere /\ FaultCause

LEMMA ControlInit == Init => Control
BY SMTT(30) DEF Init, Control, FlagSeen, StopMarked, ListThere, SizeThere, FaultCause, Idle, Returned

LEMMA ControlSched ==
  ASSUME TypeOK, MutualExclusion, Control, NEW c \in Cpus, Sched(c)
  PROVE  Control'
<1> USE SamplerAssumption, NullAssumption
    DEF TypeOK, SchedLocals, VtopLocals, Control, FlagSeen, StopMarked, ListThere, SizeThere, FaultCause,
        At, Goto, Idle, shared, history
<1>1. CASE SchedPick(c)
  BY <1>1, SMTT(30) DEF SchedPick
<1>2. CASE SchedLoad(c)
  BY <1>2, SMTT(30) DEF SchedLoad
<1>3. CASE SchedLock(c)
  BY <1>3, SMTT(30) DEF SchedLock, Acquire
<1>4. CASE SchedScan(c)
  BY <1>4, SMTT(30) DEF SchedScan
<1>5. CASE SchedInsert(c)
  <2>1. recent_cr3' # NULL
    BY <1>5, ShiftedType, SMTT(30) DEF SchedInsert
  <2> QED
    BY <1>5, <2>1, SMTT(30) DEF SchedInsert
<1>6. CASE SchedFault(c)
  BY <1>6, SMTT(30) DEF SchedFault, Crash
<1>7. CASE SchedUnlock(c)
  BY <1>7, SMTT(30) DEF SchedUnlock
<1> QED
  BY <1>1, <1>2, <1>3, <1>4, <1>5, <1>6, <1>7 DEF Sched

LEMMA ControlVtOp ==
  ASSUME TypeOK, MutualExclusion, Control, NEW p \in Callers, VtOp(p)
  PROVE  Control'
<1> USE SamplerAssumption, NullAssumption
    DEF TypeOK, SchedLocals, VtopLocals, Control, FlagSeen, StopMarked, ListThere, SizeThere, FaultCause,
        In, Jump, Return, Returned, shared, history
<1>1. CASE InitRefused(p)
  BY <1>1 DEF InitRefused, vars
<1>2. CASE InitCheck(p)
  BY <1>2, SMTT(30) DEF InitCheck
<1>3. CASE InitSize(p)
  BY <1>3, SMTT(30) DEF InitSize
<1>4. CASE InitAlloc(p)
  BY <1>4, SMTT(30) DEF InitAlloc, Buffer
<1>5. CASE InitNoMem(p)
  BY <1>5 DEF InitNoMem
<1>6. CASE InitFlag(p)
  BY <1>6 DEF InitFlag
<1>7. CASE StopCall(p)
  BY <1>7 DEF StopCall
<1>8. CASE StopLock(p)
  BY <1>8 DEF StopLock
<1>9. CASE StopFlag(p)
  BY <1>9 DEF StopFlag
<1>10. CASE StopSize(p)
  BY <1>10 DEF StopSize
<1>11. CASE StopFree(p)
  BY <1>11 DEF StopFree
<1>12. CASE GetCall(p)
  BY <1>12, SMTT(30) DEF GetCall
<1>13. CASE GetLock(p)
  BY <1>13, SMTT(30) DEF GetLock
<1>14. CASE GetSlot(p)
  <2>1. \A q \in Callers : vtop'[q].pc = vtop[q].pc
    BY ONLY <1>14, TypeOK, p \in Callers, SMTT(30) DEF GetSlot, TypeOK, VtopLocals
  <2>2. recent_cr3 \in Buffer /\ recent_cr3' = [recent_cr3 EXCEPT ![vtop[p].i] = 0]
    BY <1>14 DEF GetSlot
  <2>3. recent_cr3' \in Buffer
    <3>1. 0 \in Word
      BY DEF Word
    <3> QED
      BY <2>2, <3>1 DEF Buffer
  <2>4. recent_cr3' # NULL
    BY <2>3
  <2>5. /\ UNCHANGED <<sample_flag, recent_cr3_size, recent_cr3_lock, sched, fault>>
        /\ UNCHANGED <<since, trusted, stopped, nomem>>
    BY <1>14 DEF GetSlot
  <2> QED
    BY <2>1, <2>4, <2>5
<1>15. CASE GetFault(p)
  BY <1>15, SMTT(30) DEF GetFault, Crash, MutualExclusion, VtopInside
<1>16. CASE GetDone(p)
  BY <1>16 DEF GetDone
<1> QED
  BY <1>1, <1>2, <1>3, <1>4, <1>5, <1>6, <1>7, <1>8, <1>9, <1>10, <1>11,
     <1>12, <1>13, <1>14, <1>15, <1>16 DEF VtOp

LEMMA ControlStep == TypeOK /\ MutualExclusion /\ Control /\ [Next]_vars => Control'
<1> SUFFICES ASSUME TypeOK, MutualExclusion, Control, [Next]_vars PROVE Control'
  OBVIOUS
<1>1. CASE UNCHANGED vars
  BY <1>1 DEF vars, shared, history, Control, FlagSeen, StopMarked, ListThere,
              SizeThere, FaultCause
<1> QED
  BY <1>1, StepCases, ControlSched, ControlVtOp

LEMMA ControlCorrect == Spec => []Control
BY ControlInit, ControlStep, TypeCorrect, MutexCorrect, PTL DEF Spec

(* schedule() and operation 3 meet a null list only after a stop, after a  *)
(* failed allocation, or inside another caller's start.                    *)
THEOREM FaultCauseCorrect == Spec => []FaultCause
BY ControlCorrect, PTL DEF Control

(* With the object code's order of loads and without a stop, the size that *)
(* schedule() read outside the lock is the size of the list.               *)
THEOREM SizeNotStaleCorrect == Spec => []SizeNotStale
<1>1. Control => SizeNotStale
  BY DEF Control, FlagSeen, SizeThere, SizeNotStale
<1> QED
  BY <1>1, ControlCorrect, PTL

-----------------------------------------------------------------------------
(* The queue of samples.                                                   *)

\* Outside the draining loop a caller has copied nothing.
NothingCopied ==
  \A p \in Callers : vtop[p].pc # "get_loop" => vtop[p].i = 0 /\ vtop[p].out = <<>>

\* A drain that is to be trusted leaves zeros behind it.
Zeroed ==
  /\ trusted = "yes" => recent_cr3 # NULL
  /\ trusted # "no" =>
       \A p \in Callers : vtop[p].pc = "get_loop" /\ vtop[p].i > 0 =>
         recent_cr3 # NULL /\ \A j \in Index : j < vtop[p].i => recent_cr3[j] = 0

\* Between drains, the words up to one that is not 0 are different ones, and
\* all of them were seen since the last drain.
Apart ==
  trusted = "yes" /\ (\A p \in Callers : vtop[p].pc # "get_loop") =>
    \A m \in Index : recent_cr3[m] # 0 =>
      \A j \in 0 .. m : /\ recent_cr3[j] \in since
                        /\ \A i \in 0 .. j - 1 : recent_cr3[i] # recent_cr3[j]

\* What schedule() is about to insert is not in the list.
Missing ==
  trusted = "yes" => \A c \in Cpus :
    sched[c].pc = "insert" /\ sched[c].size = Size =>
      \A i \in Index : recent_cr3[i] # sched[c].cr3

QInv == NothingCopied /\ Zeroed /\ Apart /\ Missing

(* Control of a hypercall moves on, or it returns; no other does.         *)
LEMMA JumpMoves ==
  ASSUME TypeOK, NEW p \in Callers, NEW label \in VtopPc, Jump(p, label)
  PROVE  /\ \A q \in Callers : q # p => vtop'[q] = vtop[q]
         /\ vtop'[p].pc = label /\ vtop'[p].i = vtop[p].i /\ vtop'[p].out = vtop[p].out
BY DEF TypeOK, VtopLocals, Jump

LEMMA ReturnMoves ==
  ASSUME TypeOK, NEW p \in Callers, Return(p)
  PROVE  /\ \A q \in Callers : q # p => vtop'[q] = vtop[q]
         /\ vtop'[p].pc = "dom0" /\ vtop'[p].i = 0 /\ vtop'[p].out = <<>>
BY DEF TypeOK, VtopLocals, Return, Returned

(* What one turn of the draining loop does to the list and to the buffer.  *)
LEMMA GetSlotMoves ==
  ASSUME TypeOK, NEW p \in Callers, GetSlot(p)
  PROVE  /\ \A q \in Callers : q # p => vtop'[q] = vtop[q]
         /\ vtop[p].i \in Index /\ recent_cr3 \in Buffer
         /\ vtop'[p].pc = "get_loop" /\ vtop'[p].i = vtop[p].i + 1
         /\ \/ recent_cr3[vtop[p].i] = 0 /\ vtop'[p].out = vtop[p].out
            \/ /\ recent_cr3[vtop[p].i] # 0
               /\ vtop'[p].out = Append(vtop[p].out, recent_cr3[vtop[p].i])
         /\ recent_cr3' = [recent_cr3 EXCEPT ![vtop[p].i] = 0]
BY SamplerAssumption, SMTT(30) DEF TypeOK, VtopLocals, GetSlot, In, Index

(* A word that an insertion leaves in the list was there, or is the CR3.   *)
LEMMA ShiftedFrom ==
  ASSUME NEW buf \in Buffer, NEW size \in {0, Size}, NEW cr3, NEW i \in Index
  PROVE  Shifted(buf, size, cr3)[i] = cr3 \/ \E j \in Index : Shifted(buf, size, cr3)[i] = buf[j]
<1>1. i # 0 => i - 1 \in Index
  BY SamplerAssumption, SMTT(30) DEF Index
<1> QED
  BY <1>1 DEF Shifted, Buffer


\* A step of the queue, or none.
QueueStep == [Samples!SNext]_(Samples!svars)

(* The queue is made of the list and of what a drain has copied: a step    *)
(* that changes neither of these, nor when it is to be trusted, is none.   *)
LEMMA QueueStill ==
  ASSUME QInv, UNCHANGED <<recent_cr3, since, trusted>>,
         \A p \in Callers : /\ vtop'[p].i = vtop[p].i /\ vtop'[p].out = vtop[p].out
                            /\ vtop'[p].pc = "get_loop" <=> vtop[p].pc = "get_loop",
         \A c \in Cpus : sched'[c].pc = "insert" => sched'[c] = sched[c]
  PROVE  QInv' /\ QueueStep
<1>1. UNCHANGED <<Copied, Filled, Listing>>
  BY DEF Copied, Filled, Listing
<1>2. UNCHANGED <<Queue, Newer>>
  BY <1>1, SMTT(30) DEF Queue, Newer
<1>3. QueueStep
  BY <1>2 DEF QueueStep, Samples!svars, Trusted
<1>4. QInv'
  BY SMTT(30) DEF QInv, NothingCopied, Zeroed, Apart, Missing
<1> QED
  BY <1>3, <1>4

(* A list that is replaced, freed, or shifted with a stale size is trusted *)
(* no more.                                                                *)
LEMMA QueueLost ==
  ASSUME trusted' = "no", NothingCopied'
  PROVE  QInv' /\ QueueStep
<1>1. Samples!Off
  BY DEF Samples!Off, Trusted
<1>2. QInv'
  BY DEF QInv, Zeroed, Apart, Missing
<1> QED
  BY <1>1, <1>2 DEF QueueStep, Samples!SNext

(* While a CPU or a stop holds the lock, and while nobody does, no drain   *)
(* is under way and the queue is the list.                                 *)
LEMMA NoDrain ==
  ASSUME QInv, \A p \in Callers : vtop[p].pc # "get_loop"
  PROVE  /\ Copied = {} /\ Queue = Listing
         /\ Newer = {x \in Listing \X Listing :
                       \E i, j \in Filled : i < j /\ x = <<recent_cr3[i], recent_cr3[j]>>}
<1>1. \A p \in Callers : vtop[p].out = <<>>
  BY DEF QInv, NothingCopied
<1>2. Copied = {}
  BY <1>1, SMTT(30) DEF Copied, Range
<1>3. Queue = Listing
  BY <1>2 DEF Queue
<1> QED
  BY <1>1, <1>2, <1>3, SMTT(30) DEF Newer

LEMMA QueueInit == Init => QInv /\ Samples!SInit
<1> SUFFICES ASSUME Init PROVE QInv /\ Samples!SInit
  OBVIOUS
<1>1. QInv
  BY DEF Init, QInv, NothingCopied, Zeroed, Apart, Missing, Returned
<1> QED
  BY <1>1 DEF Init, Samples!SInit, Trusted

(* operation 1 and operation 2, and the way into operation 3               *)
LEMMA QueueVtOp ==
  ASSUME TypeOK, MutualExclusion, QInv, NEW p \in Callers, VtOp(p),
         ~GetLock(p), ~GetSlot(p), ~GetDone(p)
  PROVE  QInv' /\ QueueStep
<1>1. vtop[p].pc # "get_loop" => vtop[p].i = 0 /\ vtop[p].out = <<>>
  BY DEF QInv, NothingCopied
<1>2. CASE InitRefused(p) \/ GetFault(p)
  BY <1>2, QueueStill DEF InitRefused, GetFault, vars, shared, history
<1>3. CASE \/ InitCheck(p) \/ InitSize(p) \/ StopCall(p) \/ StopLock(p) \/ StopFlag(p)
           \/ StopSize(p) \/ GetCall(p)
  <2>1. UNCHANGED <<recent_cr3, since, trusted, sched>>
    BY <1>3 DEF InitCheck, InitSize, StopCall, StopLock, StopFlag, StopSize, GetCall, shared, history
  <2>2. PICK label \in VtopPc \ {"get_loop"} : Jump(p, label) /\ vtop[p].pc # "get_loop"
    BY <1>3
       DEF InitCheck, InitSize, StopCall, StopLock, StopFlag, StopSize, GetCall, In, Jump, VtopPc
  <2> QED
    BY <2>1, <2>2, JumpMoves, QueueStill
<1>4. CASE InitFlag(p)
  <2>1. vtop[p].pc # "get_loop" /\ Return(p) /\ UNCHANGED <<recent_cr3, since, trusted, sched>>
    BY <1>4 DEF InitFlag, In, history
  <2> QED
    BY <1>1, <2>1, ReturnMoves, QueueStill
<1>5. CASE InitAlloc(p)
  <2>1. Jump(p, "init_flag") /\ vtop[p].pc # "get_loop" /\ since' = {} /\ trusted' = "no"
    BY <1>5 DEF InitAlloc, In
  <2>2. NothingCopied'
    BY <1>1, <2>1, JumpMoves DEF QInv, NothingCopied, VtopPc
  <2> QED
    BY <2>1, <2>2, QueueLost
<1>6. CASE InitNoMem(p) \/ StopFree(p)
  <2>1. Return(p) /\ since' = {} /\ trusted' = "no"
    BY <1>6 DEF InitNoMem, StopFree
  <2>2. NothingCopied'
    BY <2>1, ReturnMoves DEF QInv, NothingCopied
  <2> QED
    BY <2>1, <2>2, QueueLost
<1> QED
  BY <1>2, <1>3, <1>4, <1>5, <1>6 DEF VtOp

LEMMA QueueGetLock ==
  ASSUME TypeOK, MutualExclusion, QInv, NEW p \in Callers, GetLock(p)
  PROVE  QInv' /\ QueueStep
<1>1. /\ \A q \in Callers : q # p => vtop'[q] = vtop[q]
      /\ vtop'[p].pc = "get_loop" /\ vtop'[p].i = vtop[p].i /\ vtop'[p].out = vtop[p].out
  BY JumpMoves DEF GetLock, VtopPc
<1>2. /\ UNCHANGED <<recent_cr3, since, sched>> /\ trusted' \in {trusted, "draining"}
      /\ trusted' = "no" <=> FALSE
      /\ trusted' = "yes" <=> trusted = "yes"
  BY DEF GetLock, shared, TypeOK
<1>3. vtop[p].pc # "get_loop" /\ vtop[p].i = 0 /\ vtop[p].out = <<>>
  BY DEF GetLock, In, QInv, NothingCopied
<1>4. \A q \in Callers : vtop[q].pc # "get_loop"
  BY SamplerAssumption DEF GetLock, Acquire, MutualExclusion, VtopInside
<1>5. QInv'
  <2>1. NothingCopied'
    BY <1>1 DEF QInv, NothingCopied
  <2>2. Zeroed'
    BY <1>1, <1>2, <1>3, <1>4, SMTT(30) DEF QInv, Zeroed
  <2>3. Apart'
    BY <1>1 DEF Apart
  <2>4. Missing'
    BY <1>2 DEF QInv, Missing
  <2> QED
    BY <2>1, <2>2, <2>3, <2>4 DEF QInv
<1>6. \A q \in Callers : vtop'[q].out = vtop[q].out
  BY <1>1
<1>7. UNCHANGED <<Copied, Filled, Listing>>
  BY <1>2, <1>6 DEF Copied, Filled, Listing
<1>8. UNCHANGED <<Queue, Newer>>
  BY <1>2, <1>6, <1>7, SMTT(30) DEF Queue, Newer
<1> QED
  BY <1>2, <1>5, <1>8 DEF QueueStep, Samples!svars, Trusted

(* One turn of the loop moves a word from the list to the end of what has  *)
(* been copied, past slots that are zero: the order stays.                 *)
LEMMA SlotKeepsQueue ==
  ASSUME TypeOK, MutualExclusion, QInv, NEW p \in Callers, GetSlot(p), trusted = "yes"
  PROVE  UNCHANGED <<Queue, Newer>>
<1>1. vtop[p].pc = "get_loop" /\ recent_cr3 # NULL /\ recent_cr3' # NULL
  <2>1. recent_cr3' \in Buffer
    BY GetSlotMoves, SamplerAssumption DEF Buffer, Word
  <2> QED
    BY <2>1, NullAssumption DEF GetSlot, In
<1>2. PICK n \in Index, w \in Word : n = vtop[p].i /\ w = recent_cr3[n]
  BY GetSlotMoves DEF Buffer
<1>3. \A q \in Callers : q # p => vtop[q].out = <<>> /\ vtop'[q].out = <<>>
  <2>1. \A q \in Callers : q # p => vtop[q].pc # "get_loop"
    BY <1>1 DEF MutualExclusion, VtopInside
  <2> QED
    BY <2>1, GetSlotMoves, SMTT(30) DEF QInv, NothingCopied
<1>4. \A j \in Index : j < n => recent_cr3[j] = 0
  BY <1>1, <1>2, SMTT(30) DEF QInv, Zeroed, Index
<1>5. \A j \in Index : recent_cr3'[j] = IF j = n THEN 0 ELSE recent_cr3[j]
  BY <1>2, GetSlotMoves DEF Buffer
<1>6. PICK out \in Seq(Word), new \in Seq(Word) : out = vtop[p].out /\ new = vtop'[p].out
  <2>1. vtop'[p].out \in Seq(Word)
    BY TypeVtOp DEF VtOp, TypeOK, VtopLocals
  <2> QED
    BY <2>1 DEF TypeOK, VtopLocals
<1>7. (w = 0 /\ new = out) \/ (w # 0 /\ new = Append(out, w))
  BY <1>2, <1>6, GetSlotMoves
<1>8. Copied = Range(out) /\ Copied' = Range(new)
  BY <1>3, <1>6, SMTT(30) DEF Copied, Range
<1>9. Listing = {recent_cr3[j] : j \in Filled} /\ Listing' = {recent_cr3'[j] : j \in Filled'}
  BY DEF Listing
<1>10. Filled' = Filled \ {n} /\ (n \in Filled <=> w # 0)
  BY <1>1, <1>2, <1>5 DEF Filled
<1>11. \A j \in Filled : j = n \/ j > n
  BY <1>1, <1>2, <1>4, SMTT(30) DEF Filled, Index
<1> DEFINE Behind(u, v) ==
      \/ u \in Range(out) /\ v \in Listing
      \/ \E j, k \in DOMAIN out : j < k /\ u = out[j] /\ v = out[k]
      \/ \E i, j \in Filled : i < j /\ u = recent_cr3[i] /\ v = recent_cr3[j]
<1> DEFINE Behind1(u, v) ==
      \/ u \in Range(new) /\ v \in Listing'
      \/ \E j, k \in DOMAIN new : j < k /\ u = new[j] /\ v = new[k]
      \/ \E i, j \in Filled' : i < j /\ u = recent_cr3'[i] /\ v = recent_cr3'[j]
<1>12. \A u, v : <<u, v>> \in Newer <=> u \in Queue /\ v \in Queue /\ Behind(u, v)
  BY <1>3, <1>6, <1>8, SMTT(30) DEF Newer
<1>13. \A u, v : <<u, v>> \in Newer' <=> u \in Queue' /\ v \in Queue' /\ Behind1(u, v)
  BY <1>3, <1>6, <1>8, SMTT(30) DEF Newer
<1>14. Queue' = Queue /\ \A u, v \in Queue : Behind(u, v) <=> Behind1(u, v)
  <2>1. CASE w = 0
    <3>1. \A j \in Index : recent_cr3'[j] = recent_cr3[j]
      BY <1>2, <1>5, <2>1
    <3>2. Filled' = Filled /\ new = out /\ Filled \subseteq Index
      BY <1>7, <1>10, <2>1 DEF Filled
    <3>3. Listing' = Listing
      BY <1>9, <3>1, <3>2
    <3>4. Queue' = Queue
      BY <1>8, <3>2, <3>3 DEF Queue
    <3> QED
      BY <3>1, <3>2, <3>3, <3>4, SMTT(30)
  <2>2. CASE w # 0
    <3>1. /\ DOMAIN out = 1 .. Len(out) /\ DOMAIN new = 1 .. Len(out) + 1 /\ Len(out) \in Nat
          /\ \A k \in 1 .. Len(out) : new[k] = out[k]
          /\ new[Len(out) + 1] = w
      BY <1>7, <2>2, SMTT(30)
    <3>2. Range(new) = Range(out) \cup {w}
      BY <3>1, SMTT(30) DEF Range
    <3>3. Listing \ {w} \subseteq Listing' /\ Listing' \subseteq Listing /\ w \in Listing
      BY <1>2, <1>5, <1>9, <1>10, <2>2, SMTT(30) DEF Filled
    <3>4. Queue' = Queue
      BY <1>8, <3>2, <3>3 DEF Queue
    <3>5. n \in Filled /\ \A j \in Filled : j # n => j \in Filled' /\ recent_cr3'[j] = recent_cr3[j] /\ n < j
      BY <1>2, <1>5, <1>10, <1>11, <2>2 DEF Filled
    <3>6. \A j \in Filled' : j \in Filled /\ j # n
      BY <1>10
    <3>7. ASSUME NEW u \in Queue, NEW v \in Queue, Behind(u, v) PROVE Behind1(u, v)
      <4>1. CASE u \in Range(out) /\ v \in Listing
        <5>1. PICK k \in 1 .. Len(out) : u = out[k]
          BY <3>1, <4>1 DEF Range
        <5>2. PICK j \in Filled : v = recent_cr3[j]
          BY <1>9, <4>1
        <5>3. CASE j = n
          BY <1>2, <3>1, <5>1, <5>2, <5>3, SMTT(30)
        <5>4. CASE j # n
          BY <1>9, <3>2, <3>5, <4>1, <5>2, <5>4
        <5> QED
          BY <5>3, <5>4
      <4>2. CASE \E j, k \in DOMAIN out : j < k /\ u = out[j] /\ v = out[k]
        BY <3>1, <4>2, SMTT(30)
      <4>3. CASE \E i, j \in Filled : i < j /\ u = recent_cr3[i] /\ v = recent_cr3[j]
        <5>1. PICK i \in Filled, j \in Filled : i < j /\ u = recent_cr3[i] /\ v = recent_cr3[j]
          BY <4>3
        <5>2. j # n
          BY <1>2, <3>5, <5>1, SMTT(30) DEF Filled, Index
        <5>3. CASE i = n
          BY <1>2, <1>9, <3>2, <3>5, <5>1, <5>2, <5>3
        <5>4. CASE i # n
          BY <3>5, <5>1, <5>2, <5>4
        <5> QED
          BY <5>3, <5>4
      <4> QED
        BY <3>7, <4>1, <4>2, <4>3
    <3>8. ASSUME NEW u \in Queue, NEW v \in Queue, Behind1(u, v) PROVE Behind(u, v)
      <4>1. CASE u \in Range(new) /\ v \in Listing'
        <5>1. PICK j \in Filled : j # n /\ v = recent_cr3[j]
          BY <1>9, <3>5, <3>6, <4>1
        <5>2. CASE u = w
          BY <1>2, <3>5, <5>1, <5>2
        <5>3. CASE u \in Range(out)
          BY <3>3, <4>1, <5>3
        <5> QED
          BY <3>2, <4>1, <5>2, <5>3
      <4>2. CASE \E j, k \in DOMAIN new : j < k /\ u = new[j] /\ v = new[k]
        <5>1. PICK j \in DOMAIN new, k \in DOMAIN new : j < k /\ u = new[j] /\ v = new[k]
          BY <4>2
        <5>2. j \in 1 .. Len(out) /\ u = out[j] /\ u \in Range(out)
          BY <3>1, <5>1, SMTT(30) DEF Range
        <5>3. CASE k = Len(out) + 1
          BY <3>1, <3>3, <5>1, <5>2, <5>3
        <5>4. CASE k # Len(out) + 1
          BY <3>1, <5>1, <5>2, <5>4, SMTT(30)
        <5> QED
          BY <5>3, <5>4
      <4>3. CASE \E i, j \in Filled' : i < j /\ u = recent_cr3'[i] /\ v = recent_cr3'[j]
        BY <3>5, <3>6, <4>3
      <4> QED
        BY <3>8, <4>1, <4>2, <4>3
    <3> HIDE DEF Behind, Behind1
    <3> QED
      BY <3>4, <3>7, <3>8
  <2> QED
    BY <2>1, <2>2
<1>15. \A x \in Newer \cup Newer' : x = <<x[1], x[2]>>
  BY SMTT(30) DEF Newer
<1> HIDE DEF Behind, Behind1
<1>16. \A u, v : <<u, v>> \in Newer <=> <<u, v>> \in Newer'
  BY <1>12, <1>13, <1>14
<1>17. Newer' = Newer
  <2>1. ASSUME NEW x, x \in Newer \/ x \in Newer' PROVE x \in Newer /\ x \in Newer'
    <3>1. PICK u, v : x = <<u, v>>
      BY <1>15, <2>1
    <3> QED
      BY <1>16, <2>1, <3>1
  <2> QED
    BY <2>1
<1> QED
  BY <1>14, <1>17

LEMMA QueueGetSlot ==
  ASSUME TypeOK, MutualExclusion, QInv, NEW p \in Callers, GetSlot(p)
  PROVE  QInv' /\ QueueStep
<1>1. vtop[p].pc = "get_loop" /\ recent_cr3 # NULL /\ UNCHANGED <<since, trusted, sched>>
  BY DEF GetSlot, In, history
<1>2. recent_cr3' # NULL
  <2>1. recent_cr3' \in Buffer
    BY GetSlotMoves, SamplerAssumption DEF Buffer, Word
  <2> QED
    BY <2>1, NullAssumption
<1>3. \A q \in Callers : q # p => vtop[q].pc # "get_loop" /\ vtop'[q] = vtop[q]
  BY <1>1, GetSlotMoves DEF MutualExclusion, VtopInside
<1>4. NothingCopied'
  BY <1>3, GetSlotMoves DEF QInv, NothingCopied
<1>5. Zeroed'
  <2>1. PICK n \in Index : n = vtop[p].i /\ vtop'[p].i = n + 1
    BY GetSlotMoves
  <2>2. trusted # "no" => \A j \in Index : j < n => recent_cr3[j] = 0
    BY <1>1, <2>1, SMTT(30) DEF QInv, Zeroed, Index
  <2>3. trusted # "no" => \A j \in Index : j < n + 1 => recent_cr3'[j] = 0
    <3>1. \A j \in Index : j < n + 1 => j = n \/ j < n
      BY SMTT(30) DEF Index
    <3> QED
      BY <2>1, <2>2, <3>1, GetSlotMoves DEF Buffer
  <2> QED
    BY <1>1, <1>2, <1>3, <2>1, <2>3 DEF Zeroed
<1>6. Apart'
  BY GetSlotMoves DEF Apart
<1>7. Missing'
  <2>1. \A c \in Cpus : sched[c].pc # "insert"
    BY <1>1, SamplerAssumption DEF MutualExclusion, SchedInside, VtopInside
  <2> QED
    BY <1>1, <2>1 DEF Missing
<1>8. QInv'
  BY <1>1, <1>4, <1>5, <1>6, <1>7 DEF QInv
<1>9. QueueStep
  BY <1>1, SlotKeepsQueue DEF QueueStep, Samples!svars, Trusted
<1> QED
  BY <1>8, <1>9

(* The end of the loop: if it went over the whole list, the queue is empty *)
(* and to be trusted from now on.                                          *)
LEMMA QueueGetDone ==
  ASSUME TypeOK, MutualExclusion, QInv, NEW p \in Callers, GetDone(p)
  PROVE  QInv' /\ QueueStep
<1>1. /\ vtop[p].pc = "get_loop" /\ Return(p) /\ since' = {} /\ UNCHANGED <<recent_cr3, sched>>
      /\ trusted' = IF trusted # "no" /\ vtop[p].i = Size THEN "yes" ELSE "no"
  BY DEF GetDone, In, shared
<1>3. NothingCopied'
  BY <1>1, ReturnMoves DEF QInv, NothingCopied
<1>4. CASE trusted' = "no"
  BY <1>3, <1>4, QueueLost
<1>5. CASE trusted' = "yes"
  <2>1. trusted # "no" /\ vtop[p].i = Size
    BY <1>1, <1>5
  <2>2. recent_cr3 # NULL /\ \A j \in Index : recent_cr3[j] = 0
    BY <1>1, <2>1, SamplerAssumption, SMTT(30) DEF QInv, Zeroed, Index
  <2>3. \A q \in Callers : vtop'[q].pc # "get_loop" /\ vtop'[q].out = <<>>
    <3>1. \A q \in Callers : q # p => vtop[q].pc # "get_loop"
      BY <1>1 DEF MutualExclusion, VtopInside
    <3> QED
      BY <1>1, <3>1, ReturnMoves DEF QInv, NothingCopied
  <2>4. Filled' = {} /\ Listing' = {}
    BY <1>1, <2>2 DEF Filled, Listing
  <2>5. Copied' = {}
    BY <2>3, SMTT(30) DEF Copied, Range
  <2>6. Queue' = {} /\ Newer' = {}
    BY <2>4, <2>5 DEF Queue, Newer
  <2>7. Samples!Drain
    BY <1>1, <1>5, <2>6 DEF Samples!Drain, Trusted
  <2>8. Zeroed' /\ Apart'
    BY <1>1, <2>2, <2>3 DEF Zeroed, Apart
  <2>9. Missing'
    <3>1. \A c \in Cpus : sched[c].pc # "insert"
      BY <1>1, SamplerAssumption DEF MutualExclusion, SchedInside, VtopInside
    <3> QED
      BY <1>1, <3>1 DEF Missing
  <2> QED
    BY <1>3, <2>7, <2>8, <2>9 DEF QInv, QueueStep, Samples!SNext
<1> QED
  BY <1>1, <1>4, <1>5

\* The words of a list that are not 0.
NonZero(buf) == {buf[i] : i \in {i \in Index : buf[i] # 0}}

\* Their order.
Order(buf) == {x \in NonZero(buf) \X NonZero(buf) :
                 \E i, j \in Index : /\ i < j /\ buf[i] # 0 /\ buf[j] # 0
                                     /\ x = <<buf[i], buf[j]>>}

(* A list has no more words than slots.                                    *)
LEMMA ListShort ==
  ASSUME NEW buf \in Buffer
  PROVE  Samples!ExistsInjection(NonZero(buf), 1 .. Size)
<1> DEFINE at(v) == CHOOSE i \in Index : buf[i] = v
           f == [v \in NonZero(buf) |-> at(v) + 1]
<1>1. \A v \in NonZero(buf) : at(v) \in Index /\ buf[at(v)] = v
  BY DEF NonZero
<1>2. \A v \in NonZero(buf) : f[v] \in 1 .. Size /\ buf[f[v] - 1] = v
  <2> HIDE DEF at
  <2> QED
    BY <1>1, SamplerAssumption, SMTT(30) DEF Index
<1>3. f \in [NonZero(buf) -> 1 .. Size]
  BY <1>2
<1>4. \A u, v \in NonZero(buf) : f[u] = f[v] => u = v
  <2> HIDE DEF f
  <2> QED
    BY <1>2
<1> HIDE DEF f
<1> QED
  BY <1>3, <1>4
     DEF Samples!ExistsInjection, Samples!Injection, Samples!IsInjective

(* The scan: a CR3 that is in the list is noted and changes nothing; one   *)
(* that is not is still missing when it is inserted.                       *)
LEMMA QueueScan ==
  ASSUME TypeOK, MutualExclusion, QInv, NEW c \in Cpus, SchedScan(c)
  PROVE  QInv' /\ QueueStep
<1>1. /\ sched[c].pc = "scan" /\ sched[c].size \in {0, Size} /\ sched[c].cr3 \in Cr3s \cup {0}
      /\ UNCHANGED <<recent_cr3, vtop, trusted>>
  BY DEF SchedScan, At, shared, TypeOK, SchedLocals
<1>2. (\A p \in Callers : vtop[p].pc # "get_loop") /\ \A d \in Cpus : d # c => sched[d].pc # "insert"
  BY <1>1, SamplerAssumption DEF MutualExclusion, SchedInside, VtopInside
<1>3. \A d \in Cpus : d # c => sched'[d] = sched[d]
  BY DEF SchedScan, Goto, TypeOK
<1>4. UNCHANGED <<Queue, Newer>>
  BY <1>1, SMTT(30) DEF Queue, Newer, Copied, Listing, Filled
<1>5. NothingCopied' /\ Zeroed'
  BY <1>1 DEF QInv, NothingCopied, Zeroed
<1>6. CASE sched[c].size > 0 /\ Listed(c)
  <2>1. since' = since \cup {sched[c].cr3} /\ sched'[c].pc = "unlock"
    BY <1>6, SMTT(30) DEF SchedScan, Goto, TypeOK
  <2>2. Apart' /\ Missing'
    BY <1>1, <1>2, <1>3, <2>1 DEF QInv, Apart, Missing
  <2>4. CASE trusted # "yes"
    BY <1>1, <1>5, <2>2, <2>4 DEF QInv, QueueStep, Samples!svars, Trusted
  <2>5. CASE trusted = "yes"
    <3>1. recent_cr3 \in Buffer /\ recent_cr3 # NULL
      BY <2>5 DEF QInv, Zeroed, TypeOK
    <3>2. Listing = NonZero(recent_cr3) /\ Queue = Listing
      BY <1>2, <3>1, NoDrain DEF Listing, Filled, NonZero
    <3>3. sched[c].cr3 \in Queue \cup {0}
      BY <1>1, <1>6, <3>1, <3>2, SMTT(30) DEF Listed, NonZero, Index
    <3>4. Samples!ExistsInjection(Queue', 1 .. Size)
      BY <1>4, <3>1, <3>2, ListShort
    <3>5. Samples!Note(sched[c].cr3)
      <4>1. Trusted /\ Trusted'
        BY <1>1, <2>5 DEF Trusted
      <4> QED
        BY <1>4, <2>1, <3>3, <3>4, <4>1 DEF Samples!Note
    <3> QED
      BY <1>1, <1>5, <2>2, <3>5 DEF QInv, QueueStep, Samples!SNext
  <2> QED
    BY <2>4, <2>5
<1>7. CASE ~(sched[c].size > 0 /\ Listed(c))
  <2>1. since' = since /\ sched'[c] = [sched[c] EXCEPT !.pc = "insert"]
    BY <1>7 DEF SchedScan, Goto, TypeOK
  <2>2. Apart'
    BY <1>1, <2>1 DEF QInv, Apart
  <2>3. sched[c].size = Size => \A i \in Index : recent_cr3[i] # sched[c].cr3
    BY <1>7, SamplerAssumption, SMTT(30) DEF Listed, Index
  <2>4. sched'[c].size = sched[c].size /\ sched'[c].cr3 = sched[c].cr3
    BY <2>1, SMTT(30) DEF TypeOK, SchedLocals
  <2>5. Missing'
    BY <1>1, <1>2, <1>3, <2>3, <2>4 DEF Missing
  <2> QED
    BY <1>1, <1>4, <1>5, <2>1, <2>2, <2>5 DEF QInv, QueueStep, Samples!svars, Trusted
<1> QED
  BY <1>6, <1>7

LEMMA InOrder ==
  ASSUME NEW buf, NEW i \in Index, NEW j \in Index, i < j, buf[i] # 0, buf[j] # 0
  PROVE  <<buf[i], buf[j]>> \in Order(buf)
<1>1. buf[i] \in NonZero(buf) /\ buf[j] \in NonZero(buf)
  BY DEF NonZero
<1> QED
  BY <1>1 DEF Order

\* the words that an insertion leaves in the list, and the list after it
Left(buf) == {buf[i] : i \in {i \in Index : buf[i] # 0 /\ i < Size - 1}}

MovedUp(buf, new, cr3) ==
  /\ NonZero(new) = Left(buf) \cup ({cr3} \ {0})
  /\ Order(new) = (Order(buf) \cap (Left(buf) \X Left(buf))) \cup (({cr3} \ {0}) \X Left(buf))

(* The shift and the store, on a list whose words are apart: what is left  *)
(* of the queue keeps its order, behind the new CR3.                       *)
LEMMA QueueShift ==
  ASSUME NEW buf \in Buffer, NEW new \in Buffer, NEW cr3,
         new = Shifted(buf, Size, cr3),
         \A i, j \in Index : i < j /\ buf[j] # 0 => buf[i] # buf[j]
  PROVE  MovedUp(buf, new, cr3)
<1> DEFINE left == {buf[i] : i \in {i \in Index : buf[i] # 0 /\ i < Size - 1}}
           one  == {cr3} \ {0}
<1>1. new[0] = cr3 /\ 0 \in Index
  BY SamplerAssumption, SMTT(30) DEF Shifted, Index
<1>2. \A i \in Index : i < Size - 1 => i + 1 \in Index /\ new[i + 1] = buf[i]
  BY SamplerAssumption, SMTT(30) DEF Shifted, Index
<1>3. \A i \in Index : i # 0 => i - 1 \in Index /\ i - 1 < Size - 1 /\ new[i] = buf[i - 1]
  BY SamplerAssumption, SMTT(30) DEF Shifted, Index
<1>4. \A v : v \in NonZero(new) => v \in left \cup one
  BY <1>1, <1>3, SMTT(30) DEF NonZero
<1>5. \A v : v \in left \cup one => v \in NonZero(new)
  BY <1>1, <1>2, SMTT(30) DEF NonZero
<1>6. ASSUME NEW i \in Index, NEW j \in Index, i < j, new[i] # 0, new[j] # 0
      PROVE  \/ new[i] \in one /\ new[j] \in left
             \/ <<new[i], new[j]>> \in Order(buf) /\ new[i] \in left /\ new[j] \in left
  <2>1. j # 0 /\ j - 1 \in Index /\ new[j] = buf[j - 1] /\ new[j] \in left
    BY <1>3, <1>6, SMTT(30) DEF Index
  <2>2. CASE i = 0
    BY <1>1, <1>6, <2>1, <2>2
  <2>3. CASE i # 0
    <3>1. i - 1 \in Index /\ new[i] = buf[i - 1] /\ new[i] \in left /\ i - 1 < j - 1
      BY <1>3, <1>6, <2>3, SMTT(30) DEF Index
    <3> QED
      BY <1>6, <2>1, <3>1, InOrder
  <2> QED
    BY <2>2, <2>3
<1>7. ASSUME NEW u \in one, NEW v \in left PROVE <<u, v>> \in Order(new)
  <2>1. PICK i \in Index : buf[i] = v /\ v # 0 /\ i < Size - 1
    BY <1>7
  <2>2. i + 1 \in Index /\ 0 < i + 1 /\ new[i + 1] = v /\ new[0] = u /\ u # 0
    BY <1>1, <1>2, <1>7, <2>1, SMTT(30) DEF Index
  <2> QED
    BY <1>1, <2>1, <2>2, InOrder
<1>8. ASSUME NEW u \in left, NEW v \in left, <<u, v>> \in Order(buf) PROVE <<u, v>> \in Order(new)
  <2>1. PICK i, j \in Index : i < j /\ buf[i] # 0 /\ buf[j] # 0 /\ u = buf[i] /\ v = buf[j]
    BY <1>8 DEF Order
  <2>2. PICK k \in Index : k < Size - 1 /\ v = buf[k]
    BY <1>8
  <2>3. j < Size - 1
    <3>1. ~(k < j)
      BY <2>1, <2>2
    <3> QED
      BY <2>2, <3>1, SamplerAssumption, SMTT(30) DEF Index
  <2>4. /\ i + 1 \in Index /\ j + 1 \in Index /\ i + 1 < j + 1
        /\ new[i + 1] = u /\ new[j + 1] = v /\ u # 0 /\ v # 0
    BY <1>2, <2>1, <2>3, SMTT(30) DEF Index
  <2> QED
    BY <2>4, InOrder
<1>9. \A x \in Order(new) : x \in (Order(buf) \cap (left \X left)) \cup (one \X left)
  <2>1. SUFFICES ASSUME NEW x \in Order(new)
                 PROVE  x \in (Order(buf) \cap (left \X left)) \cup (one \X left)
    OBVIOUS
  <2>2. PICK i, j \in Index : i < j /\ new[i] # 0 /\ new[j] # 0 /\ x = <<new[i], new[j]>>
    BY DEF Order
  <2> HIDE DEF left, one
  <2> QED
    BY <1>6, <2>2
<1>10. \A x \in (Order(buf) \cap (left \X left)) \cup (one \X left) : x \in Order(new)
  <2> HIDE DEF left, one
  <2> QED
    BY <1>7, <1>8, SMTT(30)
<1>11. /\ NonZero(new) = left \cup one
       /\ Order(new) = (Order(buf) \cap (left \X left)) \cup (one \X left)
  BY <1>4, <1>5, <1>9, <1>10
<1> QED
  BY <1>11 DEF MovedUp, Left

(* A full list of different words, and one more, are more than its slots.  *)
LEMMA MoreThanSize ==
  ASSUME NEW buf \in Buffer, NEW S, NEW v, v \in S,
         \A i \in Index : buf[i] \in S /\ buf[i] # v,
         \A i, j \in Index : i < j => buf[i] # buf[j]
  PROVE  Samples!ExistsInjection(0 .. Size, S)
<1> DEFINE f == [n \in 0 .. Size |-> IF n = Size THEN v ELSE buf[n]]
<1>1. \A n \in 0 .. Size : n = Size \/ n \in Index
  BY SamplerAssumption, SMTT(30) DEF Index
<1>2. f \in [0 .. Size -> S]
  BY <1>1
<1>3. ASSUME NEW i \in 0 .. Size, NEW j \in 0 .. Size, i < j PROVE f[i] # f[j]
  BY <1>1, <1>3, SamplerAssumption, SMTT(30) DEF Index
<1>4. \A i, j \in 0 .. Size : f[i] = f[j] => i = j
  <2>1. \A i, j \in 0 .. Size : i < j \/ j < i \/ i = j
    BY SamplerAssumption, SMTT(30)
  <2> HIDE DEF f
  <2> QED
    BY <1>3, <2>1
<1> HIDE DEF f
<1> QED
  BY <1>2, <1>4
     DEF Samples!ExistsInjection, Samples!Injection, Samples!IsInjective

LEMMA QueueInsert ==
  ASSUME TypeOK, MutualExclusion, QInv, NEW c \in Cpus, SchedInsert(c)
  PROVE  QInv' /\ QueueStep
<1>1. /\ sched[c].pc = "insert" /\ sched[c].cr3 \in Cr3s \cup {0} /\ UNCHANGED vtop
      /\ since' = since \cup {sched[c].cr3}
      /\ trusted' = IF sched[c].size = Size THEN trusted ELSE "no"
      /\ recent_cr3 \in Buffer /\ recent_cr3' = Shifted(recent_cr3, sched[c].size, sched[c].cr3)
  BY DEF SchedInsert, At, TypeOK, SchedLocals
<1>2. \A p \in Callers : vtop[p].pc # "get_loop" /\ vtop'[p].pc # "get_loop"
  BY <1>1, SamplerAssumption DEF MutualExclusion, SchedInside, VtopInside
<1>3. \A d \in Cpus : sched'[d].pc # "insert"
  <2>1. \A d \in Cpus : d # c => sched[d].pc # "insert"
    BY <1>1, SMTT(30) DEF MutualExclusion, SchedInside
  <2> QED
    BY <2>1, SMTT(30) DEF SchedInsert, Goto, TypeOK
<1>4. NothingCopied' /\ Missing'
  BY <1>1, <1>3 DEF QInv, NothingCopied, Missing
<1>6. CASE sched[c].size # Size
  BY <1>1, <1>4, <1>6, QueueLost
<1>7. CASE sched[c].size = Size /\ trusted # "yes"
  <2>1. trusted' = trusted
    BY <1>1, <1>7
  <2>2. QInv'
    BY <1>2, <1>4, <1>7, <2>1 DEF QInv, Zeroed, Apart
  <2> QED
    BY <1>7, <2>1, <2>2 DEF QueueStep, Samples!svars, Trusted
<1>8. CASE sched[c].size = Size /\ trusted = "yes"
  <2> DEFINE v    == sched[c].cr3
             buf  == recent_cr3
             new  == recent_cr3'
             left == {buf[i] : i \in {i \in Index : buf[i] # 0 /\ i < Size - 1}}
             one  == {v} \ {0}
  <2>1. /\ \A i \in Index : buf[i] # v
        /\ buf # NULL /\ new = Shifted(buf, Size, v) /\ trusted' = "yes"
    BY <1>1, <1>8 DEF QInv, Missing, Zeroed
  <2>2. new \in Buffer /\ new # NULL
    BY <1>1, <2>1, NullAssumption, ShiftedType
  <2>3. \A i, j \in Index : i < j /\ buf[j] # 0 => buf[i] # buf[j]
    BY <1>2, <1>8, SMTT(30) DEF QInv, Apart, Index
  <2>4. \A m, j \in Index : j <= m /\ buf[m] # 0 => buf[j] \in since
    BY <1>2, <1>8, SMTT(30) DEF QInv, Apart, Index
  <2>5. Apart'
    <3>1. SUFFICES ASSUME NEW m \in Index, new[m] # 0, NEW j \in 0 .. m
                   PROVE  new[j] \in since' /\ \A i \in 0 .. j - 1 : new[i] # new[j]
      BY DEF Apart
    <3>2. new[0] = v /\ \A i \in Index : i # 0 => i - 1 \in Index /\ new[i] = buf[i - 1]
      BY <2>1, SamplerAssumption, SMTT(30) DEF Shifted, Index
    <3>3. CASE j = 0
      BY <1>1, <3>2, <3>3, SMTT(30)
    <3>4. CASE j # 0
      <4>1. /\ j - 1 \in Index /\ m - 1 \in Index /\ j - 1 <= m - 1
            /\ new[j] = buf[j - 1] /\ buf[m - 1] # 0
        BY <3>1, <3>2, <3>4, SamplerAssumption, SMTT(30) DEF Index
      <4>2. new[j] \in since'
        BY <1>1, <2>4, <4>1
      <4>3. ASSUME NEW i \in 0 .. j - 1 PROVE new[i] # new[j]
        <5>1. i \in Index /\ (i = 0 \/ (i - 1 \in Index /\ new[i] = buf[i - 1] /\ i - 1 < j - 1))
          BY <3>2, <3>4, SamplerAssumption, SMTT(30) DEF Index
        <5>2. \A k \in Index : k < j - 1 => buf[k] # buf[j - 1]
          BY <1>2, <1>8, <4>1, SMTT(30) DEF QInv, Apart, Index
        <5> QED
          BY <2>1, <3>2, <4>1, <5>1, <5>2, SMTT(30)
      <4> QED
        BY <4>2, <4>3
    <3> QED
      BY <3>3, <3>4
  <2>6. QInv'
    BY <1>2, <1>4, <2>2, <2>5 DEF QInv, Zeroed
  <2>7. Queue = NonZero(buf) /\ Newer = Order(buf)
    <3>1. Listing = NonZero(buf) /\ Filled = {i \in Index : buf[i] # 0}
      BY <2>1 DEF Listing, Filled, NonZero
    <3> QED
      BY <1>2, <3>1, NoDrain, SMTT(30) DEF Order
  <2>8. Queue' = NonZero(new) /\ Newer' = Order(new)
    <3>1. Listing' = NonZero(new) /\ Filled' = {i \in Index : new[i] # 0}
      BY <2>2 DEF Listing, Filled, NonZero
    <3>2. \A p \in Callers : vtop'[p].out = <<>>
      BY <1>2, <1>4 DEF NothingCopied
    <3>3. Copied' = {}
      BY <3>2, SMTT(30) DEF Copied, Range
    <3> QED
      BY <3>1, <3>2, <3>3, SMTT(30) DEF Queue, Newer, Order
  <2>9. /\ Queue' = left \cup one
        /\ Newer' = (Newer \cap (left \X left)) \cup (one \X left)
    <3>1. MovedUp(buf, new, v)
      BY <1>1, <2>1, <2>2, <2>3, QueueShift
    <3>2. /\ NonZero(new) = left \cup one
          /\ Order(new) = (Order(buf) \cap (left \X left)) \cup (one \X left)
      BY <3>1 DEF MovedUp, Left
    <3> HIDE DEF left, one, buf, new
    <3> QED
      BY <2>7, <2>8, <3>2
  <2>10. Trusted /\ Trusted'
    BY <1>8, <2>1 DEF Trusted
  <2>11. Samples!Queued(v, left)
    <3> HIDE DEF left
    <3> QED
      BY <2>9, <2>10 DEF Samples!Queued
  <2>12. v \notin Queue /\ Samples!ExistsInjection(Queue', 1 .. Size)
    BY <2>1, <2>2, <2>7, <2>8, ListShort DEF NonZero
  <2>13. Size - 1 \in Index /\ \A i \in Index : i = Size - 1 \/ i < Size - 1
    BY SamplerAssumption, SMTT(30) DEF Index
  <2>14. CASE buf[Size - 1] = 0
    <3>1. left = Queue
      BY <2>7, <2>13, <2>14 DEF NonZero
    <3>2. v # 0
      BY <2>1, <2>13, <2>14
    <3>3. Samples!Queued(v, IF Trusted THEN Queue ELSE {})
      BY <2>10, <2>11, <3>1
    <3>4. Samples!Note(v)
      <4> HIDE DEF left
      <4> QED
        BY <1>1, <2>10, <2>12, <3>2, <3>3 DEF Samples!Note
    <3> QED
      BY <1>1, <2>6, <3>4 DEF QueueStep, Samples!SNext
  <2>15. CASE buf[Size - 1] # 0
    <3> DEFINE old == buf[Size - 1]
    <3>1. left = Queue \ {old} /\ old \in Queue
      BY <2>3, <2>7, <2>13, <2>15 DEF NonZero
    <3>2. \A u \in Queue \ {old} : <<u, old>> \in Newer
      BY <2>7, <2>13, <2>15, InOrder DEF NonZero
    <3>3. Samples!Oldest(old)
      BY <2>10, <3>2 DEF Samples!Oldest
    <3>4. \A i \in Index : buf[i] \in since'
      BY <1>1, <2>4, <2>13, <2>15, SMTT(30) DEF Index
    <3>5. \A i, j \in Index : i < j => buf[i] # buf[j]
      BY <1>2, <1>8, <2>13, <2>15, SMTT(30) DEF QInv, Apart, Index
    <3>6. Samples!ExistsInjection(0 .. Size, since')
      <4>1. v \in since' /\ \A i \in Index : buf[i] \in since' /\ buf[i] # v
        BY <1>1, <2>1, <3>4
      <4>2. buf \in Buffer
        BY <1>1
      <4> HIDE DEF buf, v
      <4> QED
        BY <3>5, <4>1, <4>2, MoreThanSize
    <3>7. Samples!Queued(v, (IF Trusted THEN Queue ELSE {}) \ {old})
      BY <2>10, <2>11, <3>1
    <3>8. Samples!Note(v)
      <4> HIDE DEF left, old
      <4> QED
        BY <1>1, <2>10, <2>12, <3>1, <3>3, <3>6, <3>7 DEF Samples!Note
    <3> QED
      BY <1>1, <2>6, <3>8 DEF QueueStep, Samples!SNext
  <2> QED
    BY <2>14, <2>15
<1> QED
  BY <1>6, <1>7, <1>8

LEMMA QueueSched ==
  ASSUME TypeOK, MutualExclusion, QInv, NEW c \in Cpus, Sched(c)
  PROVE  QInv' /\ QueueStep
<1>1. CASE SchedScan(c)
  BY <1>1, QueueScan
<1>2. CASE SchedInsert(c)
  BY <1>2, QueueInsert
<1>3. CASE SchedPick(c) \/ SchedLoad(c) \/ SchedLock(c) \/ SchedFault(c) \/ SchedUnlock(c)
  <2>1. UNCHANGED <<recent_cr3, since, trusted, vtop>>
    BY <1>3 DEF SchedPick, SchedLoad, SchedLock, SchedFault, SchedUnlock, shared, history
  <2>2. \A d \in Cpus : sched'[d].pc = "insert" => sched'[d] = sched[d]
    <3>1. PICK s : \/ sched' = sched
                   \/ s.pc # "insert" /\ sched' = [sched EXCEPT ![c] = s]
                   \/ Goto(c, "scan")
      <4>1. CASE SchedPick(c)
        BY <4>1 DEF SchedPick
      <4>2. CASE SchedLoad(c)
        BY <4>2 DEF SchedLoad, Idle, TypeOK, SchedLocals
      <4>3. CASE SchedLock(c) \/ SchedFault(c) \/ SchedUnlock(c)
        BY <4>3 DEF SchedLock, SchedFault, SchedUnlock, Idle
      <4> QED
        BY <1>3, <4>1, <4>2, <4>3
    <3>2. sched \in [Cpus -> SchedLocals]
      BY DEF TypeOK
    <3>3. CASE s.pc # "insert" /\ sched' = [sched EXCEPT ![c] = s]
      BY <3>2, <3>3
    <3>4. CASE Goto(c, "scan")
      BY <3>2, <3>4 DEF Goto, SchedLocals
    <3> QED
      BY <3>1, <3>3, <3>4
  <2> QED
    BY <2>1, <2>2, QueueStill
<1> QED
  BY <1>1, <1>2, <1>3 DEF Sched

LEMMA QueueNext == TypeOK /\ MutualExclusion /\ QInv /\ [Next]_vars => QInv' /\ QueueStep
<1> SUFFICES ASSUME TypeOK, MutualExclusion, QInv, [Next]_vars PROVE QInv' /\ QueueStep
  OBVIOUS
<1>1. ASSUME NEW c \in Cpus, Sched(c) PROVE QInv' /\ QueueStep
  BY <1>1, QueueSched
<1>2. ASSUME NEW p \in Callers, VtOp(p) PROVE QInv' /\ QueueStep
  BY <1>2, QueueVtOp, QueueGetLock, QueueGetSlot, QueueGetDone
<1>3. ASSUME UNCHANGED vars PROVE QInv' /\ QueueStep
  BY <1>3, QueueStill DEF vars, shared, history
<1> QED
  BY <1>1, <1>2, <1>3 DEF Next, Down

(* The sampler implements the queue of SampleSet, for any number of CPUs,  *)
(* of callers and of slots: the scan, shift and store of schedule() and    *)
(* the slot by slot loop of operation 3 are, from the first drain of a     *)
(* list on, the steps of a queue in order of arrival that drops only its   *)
(* oldest value, and only when more values came than the list has slots.   *)
THEOREM QueueCorrect == Spec => ActsAsQueue
<1>1. Spec => []TypeOK /\ []MutualExclusion
  BY TypeCorrect, MutexCorrect, PTL
<1> QED
  BY <1>1, QueueInit, QueueNext, PTL DEF Spec, ActsAsQueue, Samples!SSpec, QueueStep

-----------------------------------------------------------------------------
(* The monitor: the sampler with the tool as its only caller.              *)

InitPc == {"init_size", "init_alloc", "init_flag"}

\* The tool makes one hypercall at a time, where main() says, and no stop.
OneCall ==
  /\ ~stopped
  /\ \A p \in Callers :
       /\ vtop[p].pc \in InitPc \cup {"dom0", "get_spin", "get_loop"}
       /\ vtop[p].pc \in InitPc => tool = "init"
       /\ vtop[p].pc \in {"get_spin", "get_loop"} => tool = "get"
       /\ vtop[p].pc # "get_loop" => vtop[p].i = 0 /\ vtop[p].out = <<>>
  /\ \A p, q \in Callers : vtop[p].pc # "dom0" /\ vtop[q].pc # "dom0" => p = q

\* The first start is the only one that is not refused; until it has succeeded
\* no CPU has seen the flag.
FirstStart ==
  /\ \A p \in Callers :
       /\ vtop[p].pc = "init_size" => recent_cr3_size = 0
       /\ vtop[p].pc \in {"init_alloc", "init_flag"} => recent_cr3_size = Size
       /\ vtop[p].pc \in InitPc => ~nomem
  /\ tool \in {"loop", "get", "walk"} \/ nomem => recent_cr3_size = Size
  /\ recent_cr3_size = 0 \/ nomem \/ (\E p \in Callers : vtop[p].pc \in InitPc) =>
       sample_flag = 0 /\ \A c \in Cpus : sched[c].flag = 0

\* A tool that could not allocate is gone; only one started later drains.
Falls ==
  /\ FallsOnlyAfterNoMem
  /\ nomem /\ ~again => tool = "off"

\* A drain leaves zeros behind it, so that what comes after the first one is
\* what schedule() stored.
OldMemory ==
  /\ tool # "walk" => cr3_list = <<>>
  /\ \A p \in Callers : vtop[p].pc = "get_loop" /\ recent_cr3 # NULL =>
       \A j \in Index : j < vtop[p].i => recent_cr3[j] = 0
  /\ drains # 0 =>
       /\ recent_cr3 # NULL => \A j \in Index : recent_cr3[j] \notin Junk
       /\ \A p \in Callers : \A k \in 1 .. Len(vtop[p].out) : vtop[p].out[k] \notin Junk
  /\ \A k \in 1 .. Len(cr3_list) : cr3_list[k] \in Junk => drains = 1

\* A drain returns no more words than it has passed slots.
Stores ==
  /\ Overrun
  /\ ~first => list_size <= Size
  /\ \A p \in Callers : Len(vtop[p].out) <= vtop[p].i

ToolTypes ==
  /\ tool \in {"off", "start", "init", "loop", "get", "walk"}
  /\ cr3_list \in Seq(Word) /\ list_size \in Nat /\ first \in BOOLEAN
  /\ top \in Nat /\ last \in Int /\ drains \in 0 .. 2 /\ again \in BOOLEAN

MInv == ToolTypes /\ OneCall /\ FirstStart /\ Falls /\ OldMemory /\ Stores

(* With the tool as its caller the sampler does nothing that it would not  *)
(* do with callers of any kind: every step of main() is a step of          *)
(* do_vt_op(), or leaves the hypervisor alone.                             *)
LEMMA HypercallStep ==
  ASSUME NEW p \in Callers, InitHypercall(p) \/ GetCr3Hypercall(p)
  PROVE  VtOp(p)
BY DEF InitHypercall, GetCr3Hypercall, Receive, VtOp

LEMMA MStepCases ==
  ASSUME [MNext]_mvars
  PROVE  \/ \E c \in Cpus : CpuStep(c)
         \/ Start \/ Walk \/ Kill
         \/ \E p \in Callers : InitHypercall(p) \/ GetCr3Hypercall(p)
         \/ UNCHANGED mvars
BY DEF MNext, ToolStep, MDown, Down, mvars

(* The other steps of main() leave the hypervisor alone.                   *)
LEMMA ToolAlone ==
  ASSUME Start \/ Walk \/ Kill \/ UNCHANGED mvars
  PROVE  /\ UNCHANGED <<sample_flag, recent_cr3_size, recent_cr3, sched, vtop, fault>>
         /\ UNCHANGED <<stopped, nomem, drains>>
         /\ \/ UNCHANGED <<tool, again, cr3_list>>
            \/ tool = "off" /\ tool' = "start" /\ again' = (again \/ nomem) /\ cr3_list' = <<>>
            \/ Walk /\ tool = "walk" /\ tool' \in {"loop", "walk"} /\ UNCHANGED again
            \/ /\ tool \in {"start", "loop", "walk"} /\ tool' = "off"
               /\ UNCHANGED again /\ cr3_list' = <<>>
BY DEF Start, Walk, Kill, mvars, tvars, vars, shared, history

LEMMA MonitorStep == [MNext]_mvars => [Next]_vars
<1> SUFFICES ASSUME [MNext]_mvars PROVE [Next]_vars
  OBVIOUS
<1>1. CASE Start \/ Walk \/ Kill \/ UNCHANGED mvars
  BY <1>1 DEF Start, Walk, Kill, mvars
<1>2. CASE \E c \in Cpus : CpuStep(c)
  BY <1>2 DEF CpuStep, Next
<1>3. CASE \E p \in Callers : InitHypercall(p) \/ GetCr3Hypercall(p)
  BY <1>3, HypercallStep DEF Next
<1> QED
  BY <1>1, <1>2, <1>3, MStepCases

(* What is proved of the sampler for any callers holds in the monitor.     *)
THEOREM MonitorSamples == MSpec => Spec
<1>1. MInit => Init
  BY DEF MInit
<1> QED
  BY <1>1, MonitorStep, PTL DEF MSpec, Spec

(* schedule() touches no field that a hypercall decides on, and sets its   *)
(* copy of the flag only if the flag is set.                               *)
LEMMA SchedLeaves ==
  ASSUME TypeOK, NEW c \in Cpus, Sched(c)
  PROVE  /\ UNCHANGED <<sample_flag, recent_cr3_size, vtop, stopped, nomem>>
         /\ \A d \in Cpus : sched'[d].flag = 1 => sched[d].flag = 1 \/ sample_flag = 1
         /\ sched' \in [Cpus -> SchedLocals]
<1> USE DEF shared, history, TypeOK, SchedLocals
<1>1. UNCHANGED <<sample_flag, recent_cr3_size, vtop, stopped, nomem>>
  BY DEF Sched, SchedPick, SchedLoad, SchedLock, SchedScan, SchedInsert, SchedFault, SchedUnlock
<1> DEFINE FromFlag == \A d \in Cpus : sched'[d].flag = 1 => sched[d].flag = 1 \/ sample_flag = 1
<1>2. ASSUME SchedPick(c) PROVE FromFlag
  BY <1>2, SMTT(30) DEF SchedPick
<1>3. ASSUME SchedLoad(c) PROVE FromFlag
  BY <1>3 DEF SchedLoad, Idle
<1>4. ASSUME \/ SchedLock(c) \/ SchedScan(c) \/ SchedInsert(c) \/ SchedFault(c)
             \/ SchedUnlock(c)
      PROVE  FromFlag
  BY <1>4, SMTT(30) DEF SchedLock, SchedScan, SchedInsert, SchedFault, SchedUnlock, Goto, Idle
<1>5. sched' \in [Cpus -> SchedLocals]
  BY TypeSched
<1> QED
  BY <1>1, <1>2, <1>3, <1>4, <1>5 DEF Sched

LEMMA OneCallMoves ==
  ASSUME OneCall, NEW p \in Callers, vtop[p].pc # "dom0" \/ tool \in {"start", "loop"},
         UNCHANGED stopped,
         \A q \in Callers : q # p => vtop'[q] = vtop[q],
         vtop'[p].pc \in InitPc \cup {"dom0", "get_spin", "get_loop"},
         vtop'[p].pc \in InitPc => tool' = "init",
         vtop'[p].pc \in {"get_spin", "get_loop"} => tool' = "get",
         vtop'[p].pc # "get_loop" => vtop'[p].i = 0 /\ vtop'[p].out = <<>>
  PROVE  OneCall'
<1>1. \A q \in Callers : q # p => vtop'[q].pc = "dom0" /\ vtop'[q].i = 0 /\ vtop'[q].out = <<>>
  <2>1. CASE vtop[p].pc # "dom0"
    BY <2>1 DEF OneCall
  <2>2. CASE tool \in {"start", "loop"}
    <3>1. \A q \in Callers : vtop[q].pc = "dom0"
      BY <2>2 DEF OneCall
    <3> QED
      BY <3>1 DEF OneCall
  <2> QED
    BY <2>1, <2>2
<1> QED
  BY <1>1 DEF OneCall, InitPc

LEMMA OneCallStep ==
  ASSUME TypeOK, ToolTypes, OneCall, [MNext]_mvars
  PROVE  OneCall'
<1> USE DEF InitPc, history
<1>1. ASSUME NEW c \in Cpus, CpuStep(c) PROVE OneCall'
  BY <1>1, SchedLeaves DEF CpuStep, OneCall
<1>2. CASE Start \/ Walk \/ Kill \/ UNCHANGED mvars
  <2>1. tool' = tool \/ tool \in {"off", "start", "loop", "walk"}
    BY <1>2, ToolAlone
  <2>2. UNCHANGED <<vtop, stopped>>
    BY <1>2, ToolAlone
  <2>3. CASE tool' = tool
    BY <2>2, <2>3 DEF OneCall
  <2>4. CASE tool \in {"off", "start", "loop", "walk"}
    <3>1. \A p \in Callers : vtop[p].pc = "dom0"
      BY <2>4 DEF OneCall
    <3> QED
      BY <2>2, <3>1 DEF OneCall
  <2> QED
    BY <2>1, <2>3, <2>4
<1>3. ASSUME NEW p \in Callers, InitHypercall(p) PROVE OneCall'
  <2>1. CASE InitRefused(p) /\ tool = "start" /\ tool' = "loop"
    BY <2>1 DEF InitRefused, vars, OneCall
  <2>2. CASE InitCheck(p) /\ tool = "start" /\ tool' = "init"
    <3>1. /\ \A q \in Callers : q # p => vtop'[q] = vtop[q]
          /\ vtop'[p].pc = "init_size" /\ vtop'[p].i = vtop[p].i /\ vtop'[p].out = vtop[p].out
      BY <2>2, JumpMoves DEF InitCheck, VtopPc
    <3>2. vtop[p].i = 0 /\ vtop[p].out = <<>> /\ UNCHANGED stopped
      BY <2>2 DEF InitCheck, In, OneCall
    <3> QED
      BY <2>2, <3>1, <3>2, OneCallMoves
  <2>3. CASE InitSize(p) /\ UNCHANGED tool
    <3>1. /\ \A q \in Callers : q # p => vtop'[q] = vtop[q]
          /\ vtop'[p].pc = "init_alloc" /\ vtop'[p].i = vtop[p].i /\ vtop'[p].out = vtop[p].out
      BY <2>3, JumpMoves DEF InitSize, VtopPc
    <3> QED
      BY <2>3, <3>1, OneCallMoves DEF InitSize, In, OneCall
  <2>4. CASE InitAlloc(p) /\ UNCHANGED tool
    <3>1. /\ \A q \in Callers : q # p => vtop'[q] = vtop[q]
          /\ vtop'[p].pc = "init_flag" /\ vtop'[p].i = vtop[p].i /\ vtop'[p].out = vtop[p].out
      BY <2>4, JumpMoves DEF InitAlloc, VtopPc
    <3> QED
      BY <2>4, <3>1, OneCallMoves DEF InitAlloc, In, OneCall
  <2>5. CASE InitNoMem(p) /\ tool' = "off"
    <3>1. /\ \A q \in Callers : q # p => vtop'[q] = vtop[q]
          /\ vtop'[p].pc = "dom0" /\ vtop'[p].i = 0 /\ vtop'[p].out = <<>>
      BY <2>5, ReturnMoves DEF InitNoMem
    <3> QED
      BY <2>5, <3>1, OneCallMoves DEF InitNoMem, In
  <2>6. CASE InitFlag(p) /\ tool' = "loop"
    <3>1. /\ \A q \in Callers : q # p => vtop'[q] = vtop[q]
          /\ vtop'[p].pc = "dom0" /\ vtop'[p].i = 0 /\ vtop'[p].out = <<>>
      BY <2>6, ReturnMoves DEF InitFlag
    <3> QED
      BY <2>6, <3>1, OneCallMoves DEF InitFlag, In
  <2> QED
    BY <1>3, <2>1, <2>2, <2>3, <2>4, <2>5, <2>6 DEF InitHypercall
<1>4. ASSUME NEW p \in Callers, GetCr3Hypercall(p) PROVE OneCall'
  <2>1. CASE GetCall(p) /\ tool = "loop" /\ tool' = "get"
    <3>1. /\ \A q \in Callers : q # p => vtop'[q] = vtop[q]
          /\ vtop'[p].pc = "get_spin" /\ vtop'[p].i = vtop[p].i /\ vtop'[p].out = vtop[p].out
      BY <2>1 DEF GetCall, TypeOK, VtopLocals
    <3>2. vtop[p].i = 0 /\ vtop[p].out = <<>> /\ UNCHANGED stopped
      BY <2>1 DEF GetCall, In, OneCall
    <3> QED
      BY <2>1, <3>1, <3>2, OneCallMoves
  <2>2. CASE GetLock(p) /\ UNCHANGED tool
    <3>1. /\ \A q \in Callers : q # p => vtop'[q] = vtop[q]
          /\ vtop'[p].pc = "get_loop" /\ vtop'[p].i = vtop[p].i /\ vtop'[p].out = vtop[p].out
      BY <2>2, JumpMoves DEF GetLock, VtopPc
    <3> QED
      BY <2>2, <3>1, OneCallMoves DEF GetLock, In, OneCall
  <2>3. CASE GetSlot(p) /\ UNCHANGED tool
    <3>1. vtop'[p].pc = "get_loop" /\ \A q \in Callers : q # p => vtop'[q] = vtop[q]
      BY <2>3, GetSlotMoves
    <3>2. vtop[p].pc = "get_loop" /\ UNCHANGED stopped
      BY <2>3 DEF GetSlot, In
    <3>3. tool' = "get"
      BY <2>3, <3>2 DEF OneCall
    <3> QED
      BY <3>1, <3>2, <3>3, OneCallMoves
  <2>4. CASE GetFault(p) /\ UNCHANGED tool
    BY <2>4 DEF GetFault, shared, OneCall
  <2>5. CASE GetDone(p) /\ tool' = "walk"
    <3>1. /\ \A q \in Callers : q # p => vtop'[q] = vtop[q]
          /\ vtop'[p].pc = "dom0" /\ vtop'[p].i = 0 /\ vtop'[p].out = <<>>
      BY <2>5, ReturnMoves DEF GetDone, VtopPc
    <3> QED
      BY <2>5, <3>1, OneCallMoves DEF GetDone, In
  <2> QED
    BY <1>4, <2>1, <2>2, <2>3, <2>4, <2>5 DEF GetCr3Hypercall, Receive, tvars
<1> QED
  BY <1>1, <1>2, <1>3, <1>4, MStepCases

LEMMA FirstStartStep ==
  ASSUME TypeOK, ToolTypes, OneCall, FirstStart, [MNext]_mvars
  PROVE  FirstStart'
<1> USE DEF TypeOK, VtopLocals, SchedLocals, ToolTypes, OneCall, FirstStart, InitPc, shared, history, vars
<1>1. ASSUME NEW c \in Cpus, CpuStep(c) PROVE FirstStart'
  BY <1>1, SchedLeaves DEF CpuStep
<1>2. CASE Start \/ Walk \/ Kill \/ UNCHANGED mvars
  <2>1. tool' \in {"loop", "get", "walk"} => tool \in {"loop", "get", "walk"}
    BY <1>2, ToolAlone
  <2>2. UNCHANGED <<vtop, sched, recent_cr3_size, sample_flag, nomem>>
    BY <1>2, ToolAlone
  <2> QED
    BY <2>1, <2>2
<1>3. ASSUME NEW p \in Callers, InitHypercall(p) PROVE FirstStart'
  <2>1. CASE InitRefused(p) /\ tool = "start" /\ tool' = "loop"
    BY <2>1, SamplerAssumption DEF InitRefused, In, VtopPc
  <2>2. CASE InitCheck(p) /\ tool = "start" /\ tool' = "init"
    BY <2>2, JumpMoves, SamplerAssumption DEF InitCheck, In, VtopPc
  <2>3. CASE InitSize(p) /\ UNCHANGED tool
    BY <2>3, JumpMoves, SamplerAssumption DEF InitSize, In, VtopPc
  <2>4. CASE InitAlloc(p) /\ UNCHANGED tool
    BY <2>4, JumpMoves, SamplerAssumption DEF InitAlloc, In, VtopPc
  <2>5. CASE InitNoMem(p) /\ tool' = "off"
    BY <2>5, ReturnMoves, SamplerAssumption DEF InitNoMem, In, VtopPc
  <2>6. CASE InitFlag(p) /\ tool' = "loop"
    BY <2>6, ReturnMoves, SamplerAssumption DEF InitFlag, In, VtopPc
  <2> QED
    BY <1>3, <2>1, <2>2, <2>3, <2>4, <2>5, <2>6 DEF InitHypercall
<1>4. ASSUME NEW p \in Callers, GetCr3Hypercall(p) PROVE FirstStart'
  <2>1. CASE GetCall(p) /\ tool = "loop" /\ tool' = "get"
    <3>1. vtop'[p].pc = "get_spin" /\ \A q \in Callers : q # p => vtop'[q] = vtop[q]
      BY <2>1 DEF GetCall
    <3> QED
      BY <2>1, <3>1 DEF GetCall
  <2>2. CASE GetLock(p) /\ UNCHANGED tool
    BY <2>2, JumpMoves DEF GetLock, In, VtopPc
  <2>3. CASE GetSlot(p) /\ UNCHANGED tool
    <3>1. vtop'[p].pc = "get_loop" /\ \A q \in Callers : q # p => vtop'[q] = vtop[q]
      BY <2>3, GetSlotMoves
    <3> QED
      BY <2>3, <3>1 DEF GetSlot
  <2>4. CASE GetFault(p) /\ UNCHANGED tool
    BY <2>4 DEF GetFault, In
  <2>5. CASE GetDone(p) /\ tool' = "walk"
    BY <2>5, ReturnMoves DEF GetDone, In
  <2> QED
    BY <1>4, <2>1, <2>2, <2>3, <2>4, <2>5 DEF GetCr3Hypercall, Receive, tvars
<1> QED
  BY <1>1, <1>2, <1>3, <1>4, MStepCases

(* schedule() does not meet a null list, and a drain meets one only after  *)
(* an allocation that failed.                                              *)
LEMMA FallsStep ==
  ASSUME TypeOK, MutualExclusion, Control, ToolTypes, OneCall, FirstStart, Falls, [MNext]_mvars
  PROVE  Falls'
<1> USE DEF TypeOK, VtopLocals, SchedLocals, ToolTypes, OneCall, FirstStart, Falls,
            FallsOnlyAfterNoMem, shared, history, vars
<1>1. ASSUME NEW c \in Cpus, CpuStep(c) PROVE Falls'
  <2>1. ~SchedFault(c)
    <3>1. SUFFICES ASSUME SchedFault(c) PROVE FALSE
      OBVIOUS
    <3>2. sched[c].pc \in {"scan", "insert"} /\ recent_cr3 = NULL
      BY <3>1 DEF SchedFault, At, Crash
    <3> QED
      BY <3>2, SamplerAssumption, SMTT(30) DEF Control, FlagSeen, ListThere
  <2>2. Sched(c) /\ UNCHANGED <<tool, again>>
    BY <1>1 DEF CpuStep
  <2>3. UNCHANGED fault
    BY <2>1, <2>2
       DEF Sched, SchedPick, SchedLoad, SchedLock, SchedScan, SchedInsert, SchedUnlock
  <2> QED
    BY <2>2, <2>3, SchedLeaves
<1>2. CASE Start \/ Walk \/ Kill \/ UNCHANGED mvars
  <2>1. UNCHANGED <<fault, nomem>> /\ (again => again')
    BY <1>2, ToolAlone
  <2>2. nomem /\ ~again' => tool' = "off"
    BY <1>2, ToolAlone
  <2> QED
    BY <2>1, <2>2
<1>3. ASSUME NEW p \in Callers, InitHypercall(p) PROVE Falls'
  <2>1. UNCHANGED <<fault, again>> /\ (UNCHANGED nomem \/ (nomem' = TRUE /\ tool' = "off"))
    <3>1. CASE InitNoMem(p) /\ tool' = "off"
      BY <1>3, <3>1 DEF InitHypercall, InitNoMem
    <3>2. CASE InitRefused(p) \/ InitCheck(p) \/ InitSize(p) \/ InitAlloc(p) \/ InitFlag(p)
      BY <1>3, <3>2 DEF InitHypercall, InitRefused, InitCheck, InitSize, InitAlloc, InitFlag
    <3> QED
      BY <1>3, <3>1, <3>2 DEF InitHypercall
  <2>2. tool # "off"
    BY <1>3 DEF InitHypercall, InitSize, InitAlloc, InitNoMem, InitFlag, In, InitPc
  <2>3. nomem => again
    BY <2>2
  <2>4. CASE UNCHANGED nomem
    BY <2>1, <2>3, <2>4
  <2>5. CASE nomem' = TRUE /\ tool' = "off"
    BY <2>1, <2>5
  <2> QED
    BY <2>1, <2>4, <2>5
<1>4. ASSUME NEW p \in Callers, GetCr3Hypercall(p) PROVE Falls'
  <2>1. CASE GetFault(p)
    <3>1. recent_cr3_size # 0 /\ recent_cr3 = NULL /\ tool = "get"
      BY <2>1, SMTT(30) DEF GetFault, Crash, In
    <3>2. \A q \in Callers : vtop[q].pc # "init_alloc"
      BY <2>1 DEF GetFault, In
    <3>3. nomem
      BY <3>1, <3>2 DEF Control, ListThere
    <3> QED
      BY <1>4, <2>1, <3>1, <3>3
         DEF GetCr3Hypercall, GetCall, GetLock, GetSlot, GetFault, Receive, GetDone, tvars, In
  <2>2. CASE ~GetFault(p)
    BY <1>4, <2>2, SMTT(30) DEF GetCr3Hypercall, GetCall, GetLock, GetSlot, Receive, GetDone, tvars, In
  <2> QED
    BY <2>1, <2>2
<1> QED
  BY <1>1, <1>2, <1>3, <1>4, MStepCases

(* main() keeps its variables in their types.                              *)
LEMMA ToolTypesStep ==
  ASSUME TypeOK, ToolTypes, [MNext]_mvars
  PROVE  ToolTypes'
<1> USE DEF ToolTypes
<1>1. ASSUME NEW c \in Cpus, CpuStep(c) PROVE ToolTypes'
  BY <1>1 DEF CpuStep
<1>2. CASE Start
  BY <1>2, MonitorAssumption, SMTT(30) DEF Start
<1>3. CASE Walk \/ Kill \/ UNCHANGED mvars
  <2>1. cr3_list # <<>> => Tail(cr3_list) \in Seq(Word)
    BY SMTT(30)
  <2>2. cr3_list' = cr3_list \/ cr3_list' = <<>> \/ (cr3_list # <<>> /\ cr3_list' = Tail(cr3_list))
    BY <1>3 DEF Walk, Kill, mvars, tvars
  <2>3. UNCHANGED <<list_size, first, top, last, drains, again>>
    BY <1>3 DEF Walk, Kill, mvars, tvars
  <2>4. tool' \in {tool, "loop", "walk", "off"}
    BY <1>3 DEF Walk, Kill, mvars, tvars
  <2>5. <<>> \in Seq(Word) /\ cr3_list \in Seq(Word)
    BY SMTT(30)
  <2>6. cr3_list' \in Seq(Word)
    BY <2>1, <2>2, <2>5
  <2> QED
    BY <2>3, <2>4, <2>6
<1>4. ASSUME NEW p \in Callers, InitHypercall(p) PROVE ToolTypes'
  BY <1>4, SMTT(30) DEF InitHypercall
<1>5. ASSUME NEW p \in Callers, GetCr3Hypercall(p) PROVE ToolTypes'
  <2>1. vtop[p].out \in Seq(Word) /\ Len(vtop[p].out) \in Nat
    BY SMTT(30) DEF TypeOK, VtopLocals
  <2>2. CASE tool = "loop" /\ GetCall(p)
    BY <1>5, <2>2, SMTT(30) DEF GetCr3Hypercall, GetCall, GetLock, GetSlot, GetFault, Receive, GetDone, In
  <2>3. CASE UNCHANGED tvars
    BY <2>3 DEF tvars
  <2>4. CASE Receive(p) /\ UNCHANGED again
    <3>1. list_size' \in Nat /\ list_size' + 2 \in Int /\ cr3_list' \in Seq(Word)
      BY <2>1, <2>4, SMTT(30) DEF Receive
    <3>2. drains' \in 0 .. 2
      BY <2>4, SMTT(30) DEF Receive
    <3> QED
      BY <2>4, <3>1, <3>2 DEF Receive
  <2> QED
    BY <1>5, <2>2, <2>3, <2>4 DEF GetCr3Hypercall
<1> QED
  BY <1>1, <1>2, <1>3, <1>4, <1>5, MStepCases

LEMMA OldMemoryStep ==
  ASSUME TypeOK, MutualExclusion, ToolTypes, OneCall, FirstStart, OldMemory, [MNext]_mvars
  PROVE  OldMemory'
<1> USE DEF ToolTypes, OldMemory
<1>1. ASSUME NEW c \in Cpus, CpuStep(c) PROVE OldMemory'
  <2>1. UNCHANGED <<vtop, tool, cr3_list, drains>>
    BY <1>1, SchedLeaves DEF CpuStep
  <2>2. CASE UNCHANGED recent_cr3
    BY <2>1, <2>2
  <2>3. CASE SchedInsert(c)
    <3>1. \A p \in Callers : vtop[p].pc # "get_loop"
      BY <2>3, SamplerAssumption DEF SchedInsert, At, MutualExclusion, SchedInside, VtopInside
    <3>2. /\ recent_cr3 \in Buffer /\ recent_cr3 # NULL
          /\ recent_cr3' = Shifted(recent_cr3, sched[c].size, sched[c].cr3)
          /\ sched[c].size \in {0, Size} /\ sched[c].cr3 \notin Junk
      BY <2>3, SamplerAssumption DEF SchedInsert, TypeOK, SchedLocals
    <3>3. (\A j \in Index : recent_cr3[j] \notin Junk) => \A j \in Index : recent_cr3'[j] \notin Junk
      BY <3>2, ShiftedFrom, SMTT(30)
    <3> QED
      BY <2>1, <3>1, <3>2, <3>3
  <2>4. SchedInsert(c) \/ UNCHANGED recent_cr3
    BY <1>1 DEF CpuStep, Sched, SchedPick, SchedLoad, SchedLock, SchedScan, SchedFault,
                SchedUnlock, shared
  <2> QED
    BY <2>2, <2>3, <2>4
<1>2. CASE Start \/ Kill \/ UNCHANGED mvars
  BY <1>2, SMTT(30) DEF Start, Kill, mvars, tvars, vars, shared
<1>3. CASE Walk
  <2>1. UNCHANGED <<recent_cr3, vtop, drains>> /\ tool = "walk"
    BY <1>3 DEF Walk, vars, shared
  <2>2. CASE cr3_list = <<>>
    BY <1>3, <2>1, <2>2 DEF Walk
  <2>3. CASE cr3_list # <<>>
    BY <1>3, <2>1, <2>3, SMTT(30) DEF Walk
  <2> QED
    BY <2>2, <2>3
<1>4. ASSUME NEW p \in Callers, InitHypercall(p) PROVE OldMemory'
  <2>1. \A q \in Callers : /\ vtop[q].pc # "get_loop" /\ vtop'[q].pc # "get_loop"
                           /\ vtop'[q].out = vtop[q].out \/ vtop'[q].out = <<>>
    BY <1>4, SMTT(30)
       DEF InitHypercall, InitRefused, InitCheck, InitSize, InitAlloc, InitNoMem, InitFlag, InitPc,
           OneCall, In, Jump, Return, Returned, vars, TypeOK, VtopLocals
  <2>2. tool # "walk" /\ tool' # "walk" /\ UNCHANGED cr3_list
    BY <1>4
       DEF InitHypercall, InitSize, InitAlloc, InitNoMem, InitFlag, InitPc, OneCall, In
  <2>3. drains' = 0 \/ UNCHANGED <<drains, recent_cr3>> \/ (UNCHANGED drains /\ recent_cr3' = NULL)
    BY <1>4
       DEF InitHypercall, InitRefused, InitCheck, InitSize, InitAlloc, InitNoMem, InitFlag, vars, shared
  <2> QED
    BY <2>1, <2>2, <2>3, SMTT(30)
<1>5. ASSUME NEW p \in Callers, GetCr3Hypercall(p) PROVE OldMemory'
  <2>1. CASE GetCall(p) /\ tool = "loop" /\ tool' = "get" /\ UNCHANGED <<cr3_list, drains>>
    BY <2>1 DEF GetCall, In, shared, TypeOK, VtopLocals
  <2>2. CASE GetLock(p) /\ UNCHANGED <<tool, cr3_list, drains>>
    <3>1. /\ \A q \in Callers : q # p => vtop'[q] = vtop[q]
          /\ vtop[p].i = 0 /\ vtop'[p].i = 0 /\ vtop'[p].out = vtop[p].out
      BY <2>2, JumpMoves DEF GetLock, In, VtopPc, OneCall
    <3> QED
      BY <2>2, <3>1, SMTT(30) DEF GetLock, shared, Index
  <2>3. CASE GetSlot(p) /\ UNCHANGED <<tool, cr3_list, drains>>
    <3>1. vtop[p].pc = "get_loop" /\ recent_cr3 # NULL
      BY <2>3 DEF GetSlot, In
    <3>2. \A q \in Callers : q # p => vtop'[q].pc # "get_loop"
      BY <2>3, <3>1, GetSlotMoves DEF OneCall
    <3>3. \A j \in Index : j < vtop'[p].i => recent_cr3'[j] = 0
      <4>1. vtop[p].i \in Int /\ vtop'[p].i = vtop[p].i + 1
        BY <2>3, GetSlotMoves, SMTT(30) DEF Index
      <4>2. \A j \in Index : j < vtop[p].i => recent_cr3[j] = 0
        BY <3>1
      <4>3. \A j \in Index : j < vtop[p].i + 1 => j = vtop[p].i \/ j < vtop[p].i
        BY <4>1, SMTT(30) DEF Index
      <4> QED
        BY <2>3, <4>1, <4>2, <4>3, GetSlotMoves DEF Buffer
    <3>4. drains # 0 => /\ \A j \in Index : recent_cr3'[j] \notin Junk
                        /\ recent_cr3[vtop[p].i] \notin Junk
      BY <2>3, <3>1, GetSlotMoves, SamplerAssumption DEF Buffer
    <3>5. drains # 0 => \A k \in 1 .. Len(vtop'[p].out) : vtop'[p].out[k] \notin Junk
      <4>1. vtop[p].out \in Seq(Word)
        BY DEF TypeOK, VtopLocals
      <4>2. PICK w \in Word : w = recent_cr3[vtop[p].i]
        BY <2>3, GetSlotMoves DEF Buffer
      <4>3. vtop'[p].out = vtop[p].out \/ vtop'[p].out = Append(vtop[p].out, w)
        BY <2>3, <4>2, GetSlotMoves
      <4>4. drains # 0 => w \notin Junk /\ \A k \in 1 .. Len(vtop[p].out) : vtop[p].out[k] \notin Junk
        BY <3>4, <4>2
      <4>5. \A k \in 1 .. Len(Append(vtop[p].out, w)) :
              Append(vtop[p].out, w)[k] = w \/
              (k \in 1 .. Len(vtop[p].out) /\ Append(vtop[p].out, w)[k] = vtop[p].out[k])
        BY ONLY <4>1, w \in Word
      <4> QED
        BY ONLY <4>3, <4>4, <4>5
    <3> QED
      BY <2>3, <3>2, <3>3, <3>4, <3>5, GetSlotMoves
  <2>4. CASE GetFault(p) /\ UNCHANGED <<tool, cr3_list, drains>>
    BY <2>4 DEF GetFault, shared
  <2>5. CASE Receive(p)
    <3>1. /\ GetDone(p) /\ tool' = "walk" /\ cr3_list' = vtop[p].out
          /\ drains' = IF drains < 2 THEN drains + 1 ELSE 2
          /\ vtop[p].pc = "get_loop" /\ UNCHANGED recent_cr3
      BY <2>5 DEF Receive, GetDone, In, shared
    <3>2. \A q \in Callers : vtop'[q].pc = "dom0" /\ vtop'[q].out = <<>>
      BY <3>1, ReturnMoves, SMTT(30) DEF GetDone, OneCall
    <3>3. recent_cr3_size = Size /\ vtop[p].i >= Size
      BY <3>1 DEF GetDone, OneCall, FirstStart
    <3>4. recent_cr3 # NULL => \A j \in Index : recent_cr3[j] = 0
      <4>1. vtop[p].i \in 0 .. Size
        BY DEF TypeOK, VtopLocals
      <4>2. \A j \in Index : j < vtop[p].i
        BY ONLY <3>3, <4>1, SamplerAssumption, SMTT(30) DEF Index
      <4> QED
        BY <3>1, <4>2
    <3>5. \A k \in 1 .. Len(cr3_list') : cr3_list'[k] \in Junk => drains' = 1
      BY <3>1, SMTT(30)
    <3> QED
      BY <3>1, <3>2, <3>4, <3>5, SamplerAssumption, SMTT(30)
  <2> QED
    BY <1>5, <2>1, <2>2, <2>3, <2>4, <2>5 DEF GetCr3Hypercall, tvars
<1> QED
  BY <1>1, <1>2, <1>3, <1>4, <1>5, MStepCases

LEMMA StoresStep ==
  ASSUME TypeOK, ToolTypes, OneCall, Stores, [MNext]_mvars
  PROVE  Stores'
<1> USE DEF ToolTypes, Stores, Overrun
<1>1. ASSUME NEW c \in Cpus, CpuStep(c) PROVE Stores'
  BY <1>1, SchedLeaves DEF CpuStep
<1>2. CASE Start \/ Walk \/ Kill \/ UNCHANGED mvars
  BY <1>2 DEF Start, Walk, Kill, mvars, tvars, vars
<1>3. ASSUME NEW p \in Callers, InitHypercall(p) PROVE Stores'
  <2>1. \A q \in Callers : vtop'[q].i = vtop[q].i /\ vtop'[q].out = vtop[q].out
    BY <1>3, SMTT(30)
       DEF InitHypercall, InitRefused, InitCheck, InitSize, InitAlloc, InitNoMem, InitFlag, InitPc,
           OneCall, In, Jump, Return, Returned, vars, TypeOK, VtopLocals
  <2> QED
    BY <1>3, <2>1 DEF InitHypercall
<1>4. ASSUME NEW p \in Callers, GetCr3Hypercall(p) PROVE Stores'
  <2>1. vtop[p].out \in Seq(Word) /\ Len(vtop[p].out) \in Nat /\ vtop[p].i \in 0 .. Size
    BY SMTT(30) DEF TypeOK, VtopLocals
  <2>2. CASE tool = "loop" /\ GetCall(p) /\ last' = list_size - 1 /\ UNCHANGED <<list_size, first, top>>
    <3>1. \A q \in Callers : vtop'[q].i = vtop[q].i /\ vtop'[q].out = vtop[q].out
      BY <2>2 DEF GetCall, TypeOK, VtopLocals
    <3> QED
      BY <2>2, <3>1, SamplerAssumption, SMTT(30)
  <2>3. CASE (GetLock(p) \/ GetFault(p)) /\ UNCHANGED tvars
    <3>1. \A q \in Callers : vtop'[q].i = vtop[q].i /\ vtop'[q].out = vtop[q].out
      <4>1. CASE GetLock(p)
        BY <4>1, JumpMoves DEF GetLock, VtopPc
      <4>2. CASE GetFault(p)
        BY <4>2 DEF GetFault
      <4> QED
        BY <2>3, <4>1, <4>2
    <3> QED
      BY <2>3, <3>1 DEF tvars
  <2>4. CASE GetSlot(p) /\ UNCHANGED tvars
    <3>1. PICK w \in Word : w = recent_cr3[vtop[p].i]
      BY <2>4, GetSlotMoves DEF Buffer
    <3>2. vtop'[p].out = vtop[p].out \/ vtop'[p].out = Append(vtop[p].out, w)
      BY <2>4, <3>1, GetSlotMoves
    <3>3. Len(Append(vtop[p].out, w)) = Len(vtop[p].out) + 1
      BY <2>1, <3>1, SMTT(30)
    <3>4. Len(vtop'[p].out) <= Len(vtop[p].out) + 1
      BY <2>1, <3>2, <3>3, SMTT(30)
    <3>5. vtop'[p].i = vtop[p].i + 1 /\ \A q \in Callers : q # p => vtop'[q] = vtop[q]
      BY <2>4, GetSlotMoves
    <3>6. Len(vtop[p].out) + 1 <= vtop[p].i + 1
      BY <2>1, SMTT(30)
    <3>7. Len(vtop'[p].out) <= vtop'[p].i
      <4>1. vtop'[p].out \in Seq(Word)
        <5>1. Append(vtop[p].out, w) \in Seq(Word)
          BY <2>1, SMTT(30)
        <5> QED
          BY <2>1, <3>2, <5>1
      <4> QED
        BY <2>1, <3>4, <3>5, <3>6, <4>1, SMTT(30)
    <3> QED
      BY <2>4, <3>5, <3>7 DEF tvars
  <2>5. CASE Receive(p)
    <3>1. /\ list_size' = Len(vtop[p].out) /\ top' = list_size' /\ last' = list_size' + 2
          /\ first' = FALSE /\ GetDone(p)
      BY <2>5 DEF Receive
    <3>2. Len(vtop[p].out) <= Size
      BY <2>1, SamplerAssumption, SMTT(30)
    <3>3. \A q \in Callers : q # p => vtop'[q] = vtop[q]
      BY <3>1, ReturnMoves DEF GetDone
    <3>4. Len(vtop'[p].out) <= vtop'[p].i
      BY <3>1, ReturnMoves, SMTT(30) DEF GetDone
    <3> QED
      BY <2>1, <3>1, <3>2, <3>3, <3>4, SamplerAssumption, SMTT(30)
  <2> QED
    BY <1>4, <2>2, <2>3, <2>4, <2>5 DEF GetCr3Hypercall
<1> QED
  BY <1>1, <1>2, <1>3, <1>4, MStepCases

LEMMA MonitorInit == MInit => MInv
<1> SUFFICES ASSUME MInit PROVE MInv
  OBVIOUS
<1> USE SamplerAssumption DEF MInit, Init, Returned, Idle
<1>1. ToolTypes
  <2>1. <<>> \in Seq(Word)
    BY SMTT(30)
  <2>2. cr3_list \in Seq(Word)
    BY <2>1
  <2>3. first \in BOOLEAN /\ again \in BOOLEAN
    OBVIOUS
  <2>4. tool \in {"off", "start", "init", "loop", "get", "walk"}
    OBVIOUS
  <2>5. list_size \in Nat /\ top \in Nat /\ last \in Int /\ drains \in 0 .. 2
    <3>1. list_size = 0 /\ top = 0 /\ last = 0 /\ drains = 0
      OBVIOUS
    <3> QED
      BY ONLY <3>1
  <2> QED
    BY ONLY <2>2, <2>3, <2>4, <2>5 DEF ToolTypes
<1>2. OneCall /\ FirstStart /\ Falls
  BY DEF OneCall, FirstStart, Falls, FallsOnlyAfterNoMem, InitPc
<1>3. OldMemory /\ Stores
  BY SMTT(30) DEF OldMemory, Stores, Overrun
<1> QED
  BY <1>1, <1>2, <1>3 DEF MInv

LEMMA MonitorInvariant == MSpec => []MInv
<1>1. TypeOK /\ MutualExclusion /\ Control /\ MInv /\ [MNext]_mvars => MInv'
  BY ToolTypesStep, OneCallStep, FirstStartStep, FallsStep, OldMemoryStep, StoresStep DEF MInv
<1>2. MSpec => []TypeOK /\ []MutualExclusion /\ []Control
  BY MonitorSamples, TypeCorrect, MutexCorrect, ControlCorrect, PTL
<1> QED
  BY <1>1, <1>2, MonitorInit, PTL DEF MSpec

(* With the tool as the only caller of vt_op, killed and started again at  *)
(* any point, the hypervisor follows a null list only if a tool goes on    *)
(* after an earlier one found no memory.                                   *)
THEOREM FallsCorrect == MSpec => []FallsOnlyAfterNoMem
<1>1. MInv => FallsOnlyAfterNoMem
  BY DEF MInv, Falls
<1> QED
  BY <1>1, MonitorInvariant, PTL

(* Words that a new list found in its memory reach the tool in the first   *)
(* drain of that list only: a drain leaves no word of them behind.         *)
THEOREM JunkOnceCorrect == MSpec => []JunkOnce
<1>1. MInv => JunkOnce
  BY SMTT(30) DEF MInv, ToolTypes, OldMemory, JunkOnce, Range
<1> QED
  BY <1>1, MonitorInvariant, PTL

(* get_cr3_hypercall() stores past the end of cr3_list, but no further     *)
(* than one CR3 and two zeros, the call with the uninitialised list_size   *)
(* apart.                                                                  *)
THEOREM OverrunCorrect == MSpec => []Overrun
<1>1. MInv => Overrun
  BY DEF MInv, Stores
<1> QED
  BY <1>1, MonitorInvariant, PTL

=============================================================================
