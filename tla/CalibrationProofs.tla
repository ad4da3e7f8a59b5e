------------------------- MODULE CalibrationProofs -------------------------
(***************************************************************************)
(* The structure r on the stack of time_calibration() outlives its use     *)
(* in the handlers of the IPI, no CPU reads the time in it before it is    *)
(* there, and none passes a barrier before all have reached it: for any    *)
(* number of CPUs and of iterations, whichever CPUs issue vt_op, in both   *)
(* forms of the rendezvous.                                                *)
(***************************************************************************)
EXTENDS Calibration, FiniteSetTheorems, TLAPS

(* A CPU in the handler is still on the list of the call, and the list is  *)
(* empty unless CPU 0 waits for it.                                        *)
Called ==
  /\ pc \in [Cpus -> Doing]
  /\ h \in [Cpus -> Stage]
  /\ selected \subseteq Cpus
  /\ \A c \in Cpus : h[c] # "out" => c \in selected
  /\ selected # {} => pc[0] = "cal"

LEMMA CalledInit == Init => Called
BY CalibrationAssumption DEF Init, Called, Doing, Stage

(* Steps that do not enter or leave the handler and leave the list alone.  *)
LEMMA CalledKept ==
  ASSUME Called, NEW c \in Cpus, h[c] # "out",
         NEW l \in Stage \ {"out"}, Step(c, l), UNCHANGED <<pc, selected>>
  PROVE  Called'
BY DEF Called, Step

(* Steps of the users of the lock: no CPU goes on while it is in the       *)
(* handler or waits in time_calibration().                                 *)
LEMMA CalledUser ==
  ASSUME Called, NEW c \in Cpus, NEW from \in Doing \ {"cal"}, NEW l \in Doing,
         Free(c, from), Goto(c, l), UNCHANGED inside
  PROVE  Called'
BY DEF Called, Free, Goto, inside, Doing

LEMMA CalledStep == Called /\ [Next]_vars => Called'
<1> SUFFICES ASSUME Called, [Next]_vars PROVE Called'
  OBVIOUS
<1>1. CASE time_calibration
  BY <1>1, CalibrationAssumption DEF time_calibration, Called, Goto, Enter, Doing, Stage
<1>2. CASE Master
  <2>1. CASE MasterStamp
    BY <2>1, CalibrationAssumption, CalledKept DEF MasterStamp, outside, Stage
  <2>2. CASE MasterSignal
    BY <2>2, CalibrationAssumption, CalledKept DEF MasterSignal, outside, Stage
  <2>3. CASE MasterReset
    BY <2>3, CalibrationAssumption, CalledKept DEF MasterReset, Again, outside, Stage
  <2>4. CASE CalibrationDone
    BY <2>4, CalibrationAssumption DEF CalibrationDone, Called, Goto, inside, Doing
  <2> QED
    BY <1>2, <2>1, <2>2, <2>3, <2>4 DEF Master
<1>3. ASSUME NEW c \in Cpus, User(c) PROVE Called'
  <2>1. CASE SchedEnter(c)
    BY <2>1, CalledUser DEF SchedEnter, Doing
  <2>2. CASE SchedLock(c)
    BY <2>2, CalledUser DEF SchedLock, Doing
  <2>3. CASE SchedLeave(c)
    BY <2>3, CalledUser DEF SchedLeave, Doing
  <2>4. CASE VtEnter(c)
    BY <2>4, CalledUser DEF VtEnter, Doing
  <2>5. CASE VtLock(c)
    BY <2>5, CalledUser DEF VtLock, Doing
  <2>6. CASE VtLeave(c)
    BY <2>6, CalledUser DEF VtLeave, Doing
  <2> QED
    BY <1>3, <2>1, <2>2, <2>3, <2>4, <2>5, <2>6 DEF User
<1>4. ASSUME NEW c \in Cpus, Interrupt(c) PROVE Called'
  BY <1>4 DEF Interrupt, Called, Enter, Stage
<1>5. ASSUME NEW c \in Cpus, Handler(c) PROVE Called'
  <2>1. CASE SlaveArrive(c)
    BY <2>1, CalledKept DEF SlaveArrive, outside, Stage
  <2>2. CASE SlaveGo(c)
    BY <2>2, CalledKept DEF SlaveGo, outside, Stage
  <2>3. CASE SlaveLeave(c)
    BY <2>3, CalledKept DEF SlaveLeave, Again, outside, Stage
  <2>4. CASE Finish(c)
    BY <2>4 DEF Finish, Called, Stage
  <2> QED
    BY <1>5, <2>1, <2>2, <2>3, <2>4 DEF Handler
<1>6. CASE UNCHANGED vars
  BY <1>6 DEF vars, Called
<1> QED
  BY <1>1, <1>2, <1>3, <1>4, <1>5, <1>6 DEF Next

(* "we must wait for all cpus before freeing @r": no CPU is in the handler *)
(* of time_calibration() once time_calibration() has returned.             *)
THEOREM StackAliveCorrect == Spec => []StackAlive
<1>1. Called => StackAlive
  BY DEF Called, StackAlive
<1> QED
  BY <1>1, CalledInit, CalledStep, PTL DEF Spec

-----------------------------------------------------------------------------
\* The rendezvous

Slaves == Cpus \ {0}
At(label) == {c \in Slaves : h[c] = label}
Start == IF fn = "tsc" THEN Loops - 1 ELSE 0

\* Where another CPU is while the master waits for it to arrive: slow ones are
\* still to leave the iteration before.
Gathering(c) ==
  \/ h[c] = "out" /\ c \in selected /\ i[0] = Start
  \/ h[c] \in {"enter", "wait"} /\ i[c] = i[0]
  \/ h[c] = "wait2" /\ i[c] = i[0] + 1

\* ... and once the master has gone through.
Leaving(c) ==
  \/ h[c] = (IF fn = "tsc" THEN "wait2" ELSE "wait") /\ i[c] = 0
  \/ h[c] = "done" /\ i[c] = 0
  \/ h[c] = "out" /\ c \notin selected

(* What the semaphore counts depends on where the master is.               *)
Gather ==
  /\ h[0] = "enter" /\ \A c \in Slaves : Gathering(c)
  /\ semaphore = Cardinality(At("wait"))
Signal ==
  /\ h[0] = "signal" /\ stime /\ \A c \in Slaves : h[c] = "wait" /\ i[c] = i[0]
  /\ semaphore = total_cpus - 1
Await ==
  /\ h[0] = "wait" /\ fn = "tsc" /\ stime
  /\ \A c \in Slaves : h[c] \in {"wait", "wait2"} /\ i[c] = i[0]
  /\ semaphore = total_cpus + Cardinality(At("wait2"))
Leave ==
  /\ h[0] = "done" \/ (h[0] = "out" /\ 0 \notin selected)
  /\ stime /\ i[0] = 0 /\ \A c \in Slaves : Leaving(c)
  /\ semaphore = IF fn = "tsc" THEN 0 ELSE total_cpus
Phase == pc[0] = "cal" => Gather \/ Signal \/ Await \/ Leave

Counters ==
  /\ fn \in {"std", "tsc"} /\ i \in [Cpus -> 0 .. Loops - 1]
  /\ fn = "std" => \A c \in Cpus : i[c] = 0

IInv == Called /\ Counters /\ Phase /\ StampWritten

LEMMA CpusFinite ==
  /\ IsFiniteSet(Slaves) /\ total_cpus \in Nat \ {0} /\ Cardinality(Slaves) = total_cpus - 1
<1>1. IsFiniteSet(Cpus) /\ 0 \in Cpus
  BY CalibrationAssumption
<1>2. IsFiniteSet(Slaves) /\ Cardinality(Slaves) = Cardinality(Cpus) - 1
  BY <1>1, FS_RemoveElement, ZenonT(60) DEF Slaves
<1>3. Cardinality(Slaves) \in Nat /\ Cardinality(Cpus) \in Nat
  BY <1>1, <1>2, FS_CardinalityType, ZenonT(60)
<1> QED
  BY <1>2, <1>3 DEF total_cpus

(* Fewer CPUs are at a label than there are others, or all of them are.    *)
LEMMA AtFacts ==
  ASSUME NEW label
  PROVE  /\ IsFiniteSet(At(label)) /\ Cardinality(At(label)) \in Nat
         /\ Cardinality(At(label)) <= total_cpus - 1
         /\ Cardinality(At(label)) = total_cpus - 1 => \A c \in Slaves : h[c] = label
<1>1. At(label) \subseteq Slaves
  BY DEF At
<1>2. /\ IsFiniteSet(At(label)) /\ Cardinality(At(label)) <= Cardinality(Slaves)
      /\ Cardinality(At(label)) = Cardinality(Slaves) => At(label) = Slaves
  BY <1>1, CpusFinite, FS_Subset
<1>3. Cardinality(At(label)) \in Nat
  BY <1>2, FS_CardinalityType, ZenonT(60)
<1>4. At(label) = Slaves => \A c \in Slaves : h[c] = label
  BY ZenonT(60) DEF At
<1> QED
  BY <1>2, <1>3, <1>4, CpusFinite

LEMMA OneMoreAt ==
  ASSUME NEW label, NEW c \in Slaves, h[c] # label, h'[c] = label, \A d \in Cpus \ {c} : h'[d] = h[d]
  PROVE  Cardinality(At(label)') = Cardinality(At(label)) + 1
<1>1. At(label)' = At(label) \cup {c} /\ c \notin At(label)
  BY DEF At, Slaves
<1>2. IsFiniteSet(At(label))
  BY AtFacts, ZenonT(60)
<1>3. Cardinality(At(label) \cup {c}) = Cardinality(At(label)) + 1
  BY <1>1, <1>2, FS_AddElement, ZenonT(60)
<1> QED
  BY <1>1, <1>3, ZenonT(60)

LEMMA NoneAt ==
  ASSUME NEW label, \A c \in Slaves : h'[c] # label
  PROVE  Cardinality(At(label)') = 0
<1>1. At(label)' = {}
  BY DEF At
<1> QED
  BY <1>1, FS_EmptySet, ZenonT(60)

LEMMA SameAt ==
  ASSUME NEW label, \A c \in Slaves : h'[c] = label <=> h[c] = label
  PROVE  Cardinality(At(label)') = Cardinality(At(label))
<1>1. At(label)' = At(label)
  BY DEF At
<1> QED
  BY <1>1, ZenonT(60)

LEMMA IInit == Init => IInv
<1> SUFFICES ASSUME Init PROVE IInv
  OBVIOUS
<1>1. Called
  BY CalledInit
<1>2. Counters
  BY CalibrationAssumption DEF Init, Counters
<1>3. Phase /\ StampWritten
  BY CalibrationAssumption DEF Init, Phase, StampWritten
<1> QED
  BY <1>1, <1>2, <1>3 DEF IInv

LEMMA InCall ==
  ASSUME Called, NEW c \in Cpus, h[c] # "out" \/ c \in selected
  PROVE  pc[0] = "cal"
BY DEF Called

LEMMA StepFacts ==
  ASSUME Called, NEW c \in Cpus, NEW l, Step(c, l)
  PROVE  h'[c] = l /\ \A d \in Cpus \ {c} : h'[d] = h[d]
BY DEF Called, Step

LEMMA AgainFacts ==
  ASSUME Called, Counters, NEW c \in Cpus, Again(c)
  PROVE  /\ Counters' \/ fn' # fn
         /\ \A d \in Cpus \ {c} : h'[d] = h[d] /\ i'[d] = i[d]
         /\ IF i[c] = 0 THEN h'[c] = "done" /\ i'[c] = 0 ELSE h'[c] = "enter" /\ i'[c] = i[c] - 1
<1>1. i' = [i EXCEPT ![c] = IF @ = 0 THEN 0 ELSE @ - 1] /\ Step(c, IF i[c] = 0 THEN "done" ELSE "enter")
  BY DEF Again
<1>2. h'[c] = (IF i[c] = 0 THEN "done" ELSE "enter") /\ \A d \in Cpus \ {c} : h'[d] = h[d]
  BY <1>1, StepFacts
<1>3. i'[c] = (IF i[c] = 0 THEN 0 ELSE i[c] - 1) /\ \A d \in Cpus \ {c} : i'[d] = i[d]
  BY <1>1 DEF Counters
<1>4. Counters' \/ fn' # fn
  <2>1. i' \in [Cpus -> 0 .. Loops - 1]
    <3>1. i[c] \in 0 .. Loops - 1 /\ Loops \in Nat
      BY CalibrationAssumption DEF Counters
    <3>2. (IF i[c] = 0 THEN 0 ELSE i[c] - 1) \in 0 .. Loops - 1
      BY <3>1
    <3> QED
      BY <1>1, <3>2 DEF Counters
  <2>2. fn = "std" => \A d \in Cpus : i'[d] = 0
    BY <1>3 DEF Counters
  <2> QED
    BY <2>1, <2>2 DEF Counters
<1> QED
  BY <1>2, <1>3, <1>4

Inv == Counters /\ Phase /\ StampWritten

LEMMA MasterStampStep ==
  ASSUME IInv, MasterStamp
  PROVE  Inv'
<1>0. 0 \in Cpus /\ Called /\ Counters /\ Phase /\ StampWritten
  BY CalibrationAssumption DEF IInv
<1>1. /\ h[0] = "enter" /\ semaphore = total_cpus - 1 /\ stime' = TRUE
      /\ UNCHANGED <<fn, pc, i, selected, semaphore>>
      /\ h'[0] = "signal" /\ \A c \in Cpus \ {0} : h'[c] = h[c]
  BY <1>0, StepFacts DEF MasterStamp, outside
<1>2. Gather
  BY <1>0, <1>1, InCall DEF Phase, Gather, Signal, Await, Leave
<1>3. \A c \in Slaves : h[c] = "wait" /\ i[c] = i[0]
  <2>1. \A c \in Slaves : h[c] = "wait"
    BY <1>1, <1>2, AtFacts DEF Gather
  <2> QED
    BY <1>2, <2>1 DEF Gather, Gathering
<1>4. Signal'
  BY <1>1, <1>3 DEF Signal, Slaves, total_cpus
<1>5. Counters' /\ StampWritten'
  BY <1>0, <1>1 DEF Counters, StampWritten
<1> QED
  BY <1>4, <1>5 DEF Inv, Phase

LEMMA MasterSignalStep ==
  ASSUME IInv, MasterSignal
  PROVE  Inv'
<1>0. 0 \in Cpus /\ Called /\ Counters /\ Phase /\ StampWritten
  BY CalibrationAssumption DEF IInv
<1>1. /\ h[0] = "signal" /\ semaphore' = semaphore + 1 /\ UNCHANGED <<fn, pc, i, selected, stime>>
      /\ h'[0] = (IF fn = "tsc" THEN "wait" ELSE "done") /\ \A c \in Cpus \ {0} : h'[c] = h[c]
  BY <1>0, StepFacts DEF MasterSignal, outside
<1>2. Signal
  BY <1>0, <1>1, InCall DEF Phase, Gather, Signal, Await, Leave
<1>3. semaphore' = total_cpus
  BY <1>1, <1>2, CpusFinite DEF Signal
<1>4. ASSUME fn = "tsc" PROVE Await'
  <2>1. Cardinality(At("wait2")') = 0
    BY <1>1, <1>2, NoneAt DEF Signal, Slaves
  <2> QED
    BY <1>1, <1>2, <1>3, <1>4, <2>1, CpusFinite DEF Signal, Await, Slaves, total_cpus
<1>5. ASSUME fn = "std" PROVE Leave'
  BY <1>0, <1>1, <1>2, <1>3, <1>5 DEF Signal, Leave, Leaving, Counters, Slaves, total_cpus
<1>6. Counters' /\ StampWritten'
  BY <1>0, <1>1, <1>2 DEF Counters, StampWritten, Signal
<1> QED
  BY <1>0, <1>4, <1>5, <1>6 DEF Inv, Phase, Counters

LEMMA MasterResetStep ==
  ASSUME IInv, MasterReset
  PROVE  Inv'
<1>0. 0 \in Cpus /\ Called /\ Counters /\ Phase /\ StampWritten
  BY CalibrationAssumption DEF IInv
<1>1. /\ h[0] = "wait" /\ semaphore = 2 * total_cpus - 1 /\ semaphore' = 0
      /\ UNCHANGED <<fn, pc, selected, stime>> /\ Again(0)
  BY DEF MasterReset, outside
<1>2. /\ Counters' /\ \A d \in Cpus \ {0} : h'[d] = h[d] /\ i'[d] = i[d]
      /\ IF i[0] = 0 THEN h'[0] = "done" /\ i'[0] = 0 ELSE h'[0] = "enter" /\ i'[0] = i[0] - 1
  BY <1>0, <1>1, AgainFacts
<1>3. Await
  BY <1>0, <1>1, InCall DEF Phase, Gather, Signal, Await, Leave
<1>4. \A c \in Slaves : h[c] = "wait2" /\ i[c] = i[0]
  <2>1. Cardinality(At("wait2")) = total_cpus - 1
    BY <1>1, <1>3, CpusFinite, AtFacts DEF Await
  <2> QED
    BY <1>3, <2>1, AtFacts DEF Await
<1>5. ASSUME i[0] = 0 PROVE Leave'
  BY <1>1, <1>2, <1>3, <1>4, <1>5 DEF Await, Leave, Leaving, Slaves
<1>6. ASSUME i[0] # 0 PROVE Gather'
  <2>1. Cardinality(At("wait")') = 0
    BY <1>2, <1>4, NoneAt DEF Slaves
  <2>2. i[0] \in Int /\ i'[0] + 1 = i[0]
    BY <1>0, <1>2, <1>6 DEF Counters
  <2>3. \A c \in Slaves : Gathering(c)'
    BY <1>2, <1>4, <2>2 DEF Gathering, Slaves
  <2> QED
    BY <1>1, <1>2, <1>6, <2>1, <2>3 DEF Gather
<1>7. StampWritten'
  BY <1>0, <1>1, <1>2, <1>3 DEF StampWritten, Await
<1> QED
  BY <1>2, <1>5, <1>6, <1>7 DEF Inv, Phase

LEMMA SlaveArriveStep ==
  ASSUME IInv, NEW c \in Cpus, SlaveArrive(c)
  PROVE  Inv'
<1>0. 0 \in Cpus /\ Called /\ Counters /\ Phase /\ StampWritten /\ c \in Slaves
  BY CalibrationAssumption DEF IInv, SlaveArrive, Slaves
<1>1. /\ h[c] = "enter" /\ semaphore' = semaphore + 1 /\ UNCHANGED <<fn, pc, i, selected, stime>>
      /\ h'[c] = "wait" /\ \A d \in Cpus \ {c} : h'[d] = h[d]
  BY <1>0, StepFacts DEF SlaveArrive, outside
<1>2. Gather
  BY <1>0, <1>1, InCall DEF Phase, Signal, Await, Leave, Leaving
<1>3. Cardinality(At("wait")') = Cardinality(At("wait")) + 1
  BY <1>0, <1>1, OneMoreAt
<1>4. \A d \in Slaves : Gathering(d)'
  BY <1>0, <1>1, <1>2 DEF Gather, Gathering, Start, Slaves
<1>5. Gather'
  BY <1>0, <1>1, <1>2, <1>3, <1>4 DEF Gather, Slaves
<1>6. Counters' /\ StampWritten'
  BY <1>0, <1>1 DEF Counters, StampWritten
<1> QED
  BY <1>5, <1>6 DEF Inv, Phase

LEMMA SlaveGoStep ==
  ASSUME IInv, NEW c \in Cpus, SlaveGo(c)
  PROVE  Inv'
<1>0. 0 \in Cpus /\ Called /\ Counters /\ Phase /\ StampWritten /\ c \in Slaves
  BY CalibrationAssumption DEF IInv, SlaveGo, Slaves
<1>1. /\ h[c] = "wait" /\ UNCHANGED <<fn, pc, i, selected, stime>>
      /\ IF fn = "tsc" THEN semaphore >= total_cpus ELSE semaphore = total_cpus
      /\ semaphore' = IF fn = "tsc" THEN semaphore + 1 ELSE semaphore
      /\ h'[c] = (IF fn = "tsc" THEN "wait2" ELSE "done") /\ \A d \in Cpus \ {c} : h'[d] = h[d]
  BY <1>0, StepFacts DEF SlaveGo, outside
<1>2. Await \/ Leave
  <2>1. ~Gather /\ ~Signal
    BY <1>1, CpusFinite, AtFacts DEF Gather, Signal
  <2> QED
    BY <1>0, <1>1, <2>1, InCall DEF Phase
<1>3. ASSUME Await PROVE Await'
  <2>1. Cardinality(At("wait2")') = Cardinality(At("wait2")) + 1
    BY <1>0, <1>1, <1>3, OneMoreAt DEF Await
  <2>2. semaphore' = total_cpus + Cardinality(At("wait2")')
    BY <1>1, <1>3, <2>1, CpusFinite, AtFacts DEF Await
  <2>3. \A d \in Slaves : h'[d] \in {"wait", "wait2"} /\ i'[d] = i'[0]
    BY <1>1, <1>3 DEF Await, Slaves
  <2> QED
    BY <1>0, <1>1, <1>3, <2>2, <2>3 DEF Await, Slaves, total_cpus
<1>4. ASSUME Leave PROVE Leave'
  <2>1. fn = "std" /\ i[c] = 0
    BY <1>0, <1>1, <1>4 DEF Leave, Leaving, Counters
  <2>2. \A d \in Slaves : Leaving(d)'
    BY <1>1, <1>4, <2>1 DEF Leave, Leaving, Slaves
  <2> QED
    BY <1>0, <1>1, <1>4, <2>1, <2>2 DEF Leave, Slaves, total_cpus
<1>5. Counters' /\ StampWritten'
  BY <1>0, <1>1, <1>2 DEF Counters, StampWritten, Await, Leave
<1> QED
  BY <1>2, <1>3, <1>4, <1>5 DEF Inv, Phase

LEMMA SlaveLeaveStep ==
  ASSUME IInv, NEW c \in Cpus, SlaveLeave(c)
  PROVE  Inv'
<1>0. 0 \in Cpus /\ Called /\ Counters /\ Phase /\ StampWritten /\ c \in Slaves
  BY CalibrationAssumption DEF IInv, SlaveLeave, Slaves
<1>1. /\ h[c] = "wait2" /\ semaphore <= total_cpus /\ UNCHANGED <<fn, pc, selected, semaphore, stime>>
      /\ Again(c)
  BY DEF SlaveLeave, outside
<1>2. /\ Counters' /\ \A d \in Cpus \ {c} : h'[d] = h[d] /\ i'[d] = i[d]
      /\ IF i[c] = 0 THEN h'[c] = "done" /\ i'[c] = 0 ELSE h'[c] = "enter" /\ i'[c] = i[c] - 1
  BY <1>0, <1>1, AgainFacts
<1>3. Gather \/ Leave
  <2>1. ~Await
    <3>1. c \in At("wait2") /\ IsFiniteSet(At("wait2"))
      BY <1>0, <1>1, AtFacts DEF At
    <3>2. Cardinality(At("wait2")) \in Nat /\ Cardinality(At("wait2")) # 0
      BY <3>1, AtFacts, FS_EmptySet
    <3> QED
      BY <1>1, <3>2, CpusFinite DEF Await
  <2>2. ~Signal
    BY <1>0, <1>1 DEF Signal
  <2> QED
    BY <1>0, <1>1, <2>1, <2>2, InCall DEF Phase
<1>4. ASSUME Gather PROVE Gather'
  <2>1. i[c] = i[0] + 1 /\ i[0] \in Nat
    BY <1>0, <1>1, <1>4 DEF Gather, Gathering, Counters
  <2>2. h'[c] = "enter" /\ i'[c] = i[0]
    BY <1>2, <2>1
  <2>3. Cardinality(At("wait")') = Cardinality(At("wait"))
    BY <1>1, <1>2, <2>2, SameAt DEF Slaves
  <2>4. \A d \in Slaves : Gathering(d)'
    BY <1>0, <1>1, <1>2, <1>4, <2>2 DEF Gather, Gathering, Start, Slaves
  <2> QED
    BY <1>0, <1>1, <1>2, <1>4, <2>3, <2>4 DEF Gather, Slaves
<1>5. ASSUME Leave PROVE Leave'
  <2>1. h'[c] = "done" /\ i'[c] = 0
    BY <1>0, <1>1, <1>2, <1>5 DEF Leave, Leaving
  <2>2. \A d \in Slaves : Leaving(d)'
    BY <1>1, <1>2, <1>5, <2>1 DEF Leave, Leaving, Slaves
  <2> QED
    BY <1>0, <1>1, <1>2, <1>5, <2>2 DEF Leave, Slaves, total_cpus
<1>6. StampWritten'
  BY <1>0, <1>1, <1>2 DEF StampWritten
<1> QED
  BY <1>2, <1>3, <1>4, <1>5, <1>6 DEF Inv, Phase

LEMMA FinishStep ==
  ASSUME IInv, NEW c \in Cpus, Finish(c)
  PROVE  Inv'
<1>0. 0 \in Cpus /\ Called /\ Counters /\ Phase /\ StampWritten
  BY CalibrationAssumption DEF IInv
<1>1. /\ h[c] = "done" /\ selected' = selected \ {c} /\ UNCHANGED <<fn, pc, i, semaphore, stime>>
      /\ h'[c] = "out" /\ \A d \in Cpus \ {c} : h'[d] = h[d]
  BY <1>0 DEF Finish, Called
<1>2. Leave
  <2>1. ~Gather /\ ~Signal /\ ~Await
    BY <1>1 DEF Gather, Gathering, Signal, Await, Slaves
  <2> QED
    BY <1>0, <1>1, <2>1, InCall DEF Phase
<1>3. \A d \in Slaves : Leaving(d)'
  BY <1>1, <1>2 DEF Leave, Leaving, Slaves
<1>4. Leave'
  BY <1>0, <1>1, <1>2, <1>3 DEF Leave, total_cpus
<1>5. Counters' /\ StampWritten'
  BY <1>0, <1>1 DEF Counters, StampWritten
<1> QED
  BY <1>4, <1>5 DEF Inv, Phase

LEMMA InterruptStep ==
  ASSUME IInv, NEW c \in Cpus, Interrupt(c)
  PROVE  Inv'
<1>0. 0 \in Cpus /\ Called /\ Counters /\ Phase /\ StampWritten /\ c \in Slaves
  BY CalibrationAssumption DEF IInv, Interrupt, Slaves
<1>1. /\ h[c] = "out" /\ c \in selected /\ UNCHANGED <<fn, pc, selected, semaphore, stime>>
      /\ h' = [h EXCEPT ![c] = "enter"] /\ i' = [i EXCEPT ![c] = Start]
  BY DEF Interrupt, Enter, Start
<1>2. /\ h'[c] = "enter" /\ i'[c] = Start /\ Start \in 0 .. Loops - 1
      /\ \A d \in Cpus \ {c} : h'[d] = h[d] /\ i'[d] = i[d]
  BY <1>0, <1>1, CalibrationAssumption DEF Called, Counters, Start
<1>3. Gather
  BY <1>0, <1>1, InCall DEF Phase, Signal, Await, Leave, Leaving
<1>4. i[0] = Start
  BY <1>0, <1>1, <1>3 DEF Gather, Gathering
<1>5. Cardinality(At("wait")') = Cardinality(At("wait"))
  BY <1>1, <1>2, SameAt DEF Slaves
<1>6. \A d \in Slaves : Gathering(d)'
  BY <1>0, <1>1, <1>2, <1>3, <1>4 DEF Gather, Gathering, Start, Slaves
<1>7. Gather'
  BY <1>0, <1>1, <1>2, <1>3, <1>5, <1>6 DEF Gather, Slaves
<1>8. Counters'
  BY <1>0, <1>1, <1>2 DEF Counters, Start
<1>9. StampWritten'
  BY <1>0, <1>1, <1>2 DEF StampWritten
<1> QED
  BY <1>7, <1>8, <1>9 DEF Inv, Phase

LEMMA CallStep ==
  ASSUME IInv, time_calibration
  PROVE  Inv'
<1>0. 0 \in Cpus /\ Called /\ Counters
  BY CalibrationAssumption DEF IInv
<1>1. /\ pc[0] = "idle" /\ selected' = Cpus /\ semaphore' = 0 /\ UNCHANGED fn
      /\ h' = [h EXCEPT ![0] = "enter"] /\ i' = [i EXCEPT ![0] = Start]
  BY DEF time_calibration, Enter, Start, Free
<1>2. /\ h'[0] = "enter" /\ i'[0] = Start /\ Start \in 0 .. Loops - 1
      /\ \A c \in Slaves : h'[c] = "out"
  BY <1>0, <1>1, CalibrationAssumption DEF Called, Counters, Start, Slaves
<1>3. Cardinality(At("wait")') = 0
  BY <1>2, NoneAt
<1>4. Gather'
  BY <1>1, <1>2, <1>3 DEF Gather, Gathering, Start, Slaves
<1>5. Counters'
  BY <1>0, <1>1, <1>2 DEF Counters, Start
<1>6. StampWritten'
  BY <1>2 DEF StampWritten, Slaves
<1> QED
  BY <1>4, <1>5, <1>6 DEF Inv, Phase

(* Steps outside of the handler.                                           *)
LEMMA OutsideStep ==
  ASSUME IInv, UNCHANGED <<inside, fn>>, pc'[0] = "cal" => pc[0] = "cal"
  PROVE  Inv'
<1>1. UNCHANGED <<h, i, selected, semaphore, stime, fn>> /\ Counters /\ Phase /\ StampWritten
  BY DEF inside, IInv
<1>2. Counters' /\ StampWritten'
  BY <1>1 DEF Counters, StampWritten
<1>3. At("wait")' = At("wait") /\ At("wait2")' = At("wait2")
  BY <1>1 DEF At
<1>4. (Gather => Gather') /\ (Await => Await')
  BY <1>1, <1>3 DEF Gather, Gathering, Start, Await, total_cpus
<1>5. (Signal => Signal') /\ (Leave => Leave')
  BY <1>1 DEF Signal, Leave, Leaving, total_cpus
<1> QED
  BY <1>1, <1>2, <1>4, <1>5 DEF Inv, Phase

LEMMA IStep == IInv /\ [Next]_vars => IInv'
<1> SUFFICES ASSUME IInv, [Next]_vars PROVE IInv'
  OBVIOUS
<1>0. 0 \in Cpus /\ Called /\ Called'
  BY CalibrationAssumption, CalledStep DEF IInv
<1>1. ASSUME time_calibration PROVE Inv'
  BY <1>1, CallStep
<1>2. ASSUME MasterStamp \/ MasterSignal \/ MasterReset PROVE Inv'
  BY <1>2, MasterStampStep, MasterSignalStep, MasterResetStep
<1>3. ASSUME CalibrationDone PROVE Inv'
  <2>1. UNCHANGED <<inside, fn>> /\ pc'[0] # "cal"
    BY <1>0, <1>3 DEF CalibrationDone, Goto, Called
  <2> QED
    BY <2>1, OutsideStep
<1>4. ASSUME NEW c \in Cpus, User(c) PROVE Inv'
  <2>1. UNCHANGED <<inside, fn>>
    BY <1>4 DEF User, SchedEnter, SchedLock, SchedLeave, VtEnter, VtLock, VtLeave
  <2>2. \E l \in Doing \ {"cal"} : Goto(c, l)
    BY <1>4 DEF User, SchedEnter, SchedLock, SchedLeave, VtEnter, VtLock, VtLeave, Doing
  <2>3. pc'[0] = "cal" => pc[0] = "cal"
    BY <1>0, <2>2 DEF Goto, Called
  <2> QED
    BY <2>1, <2>3, OutsideStep
<1>5. ASSUME NEW c \in Cpus, Interrupt(c) \/ Handler(c) PROVE Inv'
  BY <1>5, InterruptStep, SlaveArriveStep, SlaveGoStep, SlaveLeaveStep, FinishStep DEF Handler
<1>6. ASSUME UNCHANGED vars PROVE Inv'
  BY <1>6, OutsideStep DEF vars, inside
<1>7. Inv'
  BY <1>1, <1>2, <1>3, <1>4, <1>5, <1>6 DEF Next, Master
<1> QED
  BY <1>0, <1>7 DEF IInv, Inv

LEMMA RendezvousInv == Spec => []IInv
BY IInit, IStep, PTL DEF Spec

(* No CPU reads master_stime before the master has written it: the         *)
(* semaphore that tells the others is raised after the time is taken, in   *)
(* the first iteration as in the later ones.                               *)
THEOREM StampWrittenCorrect == Spec => []StampWritten
<1>1. IInv => StampWritten
  BY DEF IInv
<1> QED
  BY <1>1, RendezvousInv, PTL

(* No CPU passes the barrier of an iteration before all have reached it,   *)
(* although the semaphore is reused while slow CPUs have yet to read it.   *)
THEOREM TogetherCorrect == Spec => []Together
<1>1. IInv => Together
  <2> SUFFICES ASSUME IInv, NEW c \in Cpus, h[c] = "wait2" \/ (c = 0 /\ h[c] \in {"signal", "wait"}),
                      NEW d \in Cpus
               PROVE  Arrived(d, i[c])
    BY DEF Together
  <2>0. /\ 0 \in Cpus /\ Called /\ Counters /\ Phase /\ i[0] \in 0 .. Loops - 1 /\ i[c] \in 0 .. Loops - 1
        /\ i[d] \in 0 .. Loops - 1
    BY CalibrationAssumption DEF IInv, Counters
  <2>1. Gather \/ Signal \/ Await \/ Leave
    BY <2>0, InCall DEF Phase
  <2>2. CASE Gather
    <3>1. c \in Slaves /\ i[c] = i[0] + 1
      BY <2>2 DEF Gather, Gathering, Slaves
    <3>2. i[0] # Start
      BY <2>0, <3>1, CalibrationAssumption DEF Start, Counters
    <3> QED
      BY <2>0, <2>2, <3>1, <3>2 DEF Gather, Gathering, Arrived, Slaves
  <2>3. CASE Signal
    BY <2>3 DEF Signal, Arrived, Slaves
  <2>4. CASE Await
    BY <2>4 DEF Await, Arrived, Slaves
  <2>5. CASE Leave
    <3>1. i[c] = 0
      BY <2>5 DEF Leave, Leaving, Slaves
    <3> QED
      BY <2>5, <3>1 DEF Leave, Leaving, Arrived, Slaves
  <2> QED
    BY <2>1, <2>2, <2>3, <2>4, <2>5
<1> QED
  BY <1>1, RendezvousInv, PTL
=============================================================================
