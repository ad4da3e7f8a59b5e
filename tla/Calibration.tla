---------------------------- MODULE Calibration ----------------------------
(***************************************************************************)
(* Time calibration and the lock of the sampler.  Once a second CPU 0      *)
(* calls all CPUs together by an inter-processor interrupt and no CPU      *)
(* leaves the handler before all have entered it.  schedule() waits for    *)
(* recent_cr3_lock with interrupts off; do_vt_op() holds it with           *)
(* interrupts on.  The module puts the three together: the rendezvous (in  *)
(* both forms that time.c has), the IPI call that starts it, and the two   *)
(* users of the lock.                                                      *)
(***************************************************************************)
EXTENDS Integers, FiniteSets

CONSTANTS
  Cpus,     \* the online CPUs; 0 is the master
  VtCpus,   \* CPUs on which Dom0 may issue vt_op
  Loops     \* iterations of the TSC rendezvous: 5

ASSUME CalibrationAssumption ==
  /\ IsFiniteSet(Cpus) /\ 0 \in Cpus
  /\ VtCpus \subseteq Cpus
  /\ Loops \in Nat \ {0}

Nobody == -1
ASSUME NobodyAssumption == Nobody \notin Cpus

VARIABLES
  fn,         \* time_calibration_rendezvous_fn, set at boot
  pc,         \* what each CPU is doing outside the handler
  masked,     \* the CPUs whose interrupts are off
  h,          \* where it is in the handler, "out" if nowhere
  i,          \* its loop counter in the TSC rendezvous
  lock,       \* holder of recent_cr3_lock
  selected,   \* call_data.selected: CPUs that have not finished the call
  semaphore,  \* r.semaphore
  stime       \* r.master_stime has been written

vars == <<fn, pc, masked, h, i, lock, selected, semaphore, stime>>
outside == <<fn, pc, masked, lock>>
inside  == <<h, i, selected, semaphore, stime>>

total_cpus == Cardinality(Cpus)

Init ==
  /\ fn \in {"std", "tsc"}
  /\ pc = [c \in Cpus |-> "idle"]
  /\ masked = {}
  /\ h = [c \in Cpus |-> "out"]
  /\ i = [c \in Cpus |-> 0]
  /\ lock = Nobody
  /\ selected = {}
  /\ semaphore = 0
  /\ stime = FALSE

-----------------------------------------------------------------------------
(* The users of recent_cr3_lock.                                           *)

Free(c, label) == pc[c] = label /\ h[c] = "out"
Goto(c, label) == pc' = [pc EXCEPT ![c] = label]

\* schedule(): interrupts go off with the schedule lock.
SchedEnter(c) ==
  /\ Free(c, "idle")
  /\ masked' = masked \cup {c}
  /\ Goto(c, "sched_spin")
  /\ UNCHANGED <<inside, fn, lock>>

SchedLock(c) ==
  /\ Free(c, "sched_spin")
  /\ lock = Nobody
  /\ lock' = c
  /\ Goto(c, "sched_in")
  /\ UNCHANGED <<inside, fn, masked>>

\* A plausible slip: the lock is dropped, interrupts stay off.
SchedLeaveMasked(c) ==
  /\ Free(c, "sched_in")
  /\ lock' = Nobody
  /\ Goto(c, "idle")
  /\ UNCHANGED <<inside, fn, masked>>

SchedLeave(c) ==
  /\ Free(c, "sched_in")
  /\ lock' = Nobody
  /\ masked' = masked \ {c}
  /\ Goto(c, "idle")
  /\ UNCHANGED <<inside, fn>>

\* do_vt_op(), operations 2 and 3: interrupts stay on.
VtEnter(c) ==
  /\ c \in VtCpus
  /\ Free(c, "idle")
  /\ Goto(c, "vt_spin")
  /\ UNCHANGED <<inside, fn, masked, lock>>

VtLock(c) ==
  /\ Free(c, "vt_spin")
  /\ lock = Nobody
  /\ lock' = c
  /\ Goto(c, "vt_in")
  /\ UNCHANGED <<inside, fn, masked>>

VtLeave(c) ==
  /\ Free(c, "vt_in")
  /\ lock' = Nobody
  /\ Goto(c, "idle")
  /\ UNCHANGED <<inside, fn, masked>>

User(c) ==
  \/ SchedEnter(c) \/ SchedLock(c) \/ SchedLeave(c)
  \/ VtEnter(c) \/ VtLock(c) \/ VtLeave(c)

-----------------------------------------------------------------------------
(* time_calibration() on CPU 0 and the IPI.                                *)

Enter(c) ==
  /\ h' = [h EXCEPT ![c] = "enter"]
  /\ i' = [i EXCEPT ![c] = IF fn = "tsc" THEN Loops - 1 ELSE 0]

\* r is set up on the stack, the IPI sent, and the handler called directly.
time_calibration ==
  /\ Free(0, "idle")
  /\ Goto(0, "cal")
  /\ masked' = masked \cup {0}
  /\ selected' = Cpus
  /\ semaphore' = 0
  /\ stime' = FALSE
  /\ Enter(0)
  /\ UNCHANGED <<fn, lock>>

\* A plausible slip, the call of @wait=0: the CPU is taken off the list
\* before it has run the function.
InterruptNoWait(c) ==
  /\ c \in selected \ {0}
  /\ h[c] = "out"
  /\ c \notin masked
  /\ masked' = masked \cup {c}
  /\ selected' = selected \ {c}
  /\ Enter(c)
  /\ UNCHANGED <<fn, pc, lock, semaphore, stime>>

\* smp_call_function_interrupt() on another CPU.
Interrupt(c) ==
  /\ c \in selected \ {0}
  /\ h[c] = "out"
  /\ c \notin masked
  /\ masked' = masked \cup {c}
  /\ Enter(c)
  /\ UNCHANGED <<fn, pc, lock, selected, semaphore, stime>>

\* The function has returned: cpu_clear() and the return from the handler.
Finish(c) ==
  /\ h[c] = "done"
  /\ h' = [h EXCEPT ![c] = "out"]
  /\ selected' = selected \ {c}
  /\ masked' = masked \ {c}
  /\ UNCHANGED <<fn, pc, lock, i, semaphore, stime>>

\* on_selected_cpus() has waited for all; r goes out of scope.
CalibrationDone ==
  /\ Free(0, "cal")
  /\ selected = {}
  /\ Goto(0, "idle")
  /\ UNCHANGED <<inside, fn, masked, lock>>

-----------------------------------------------------------------------------
(* The rendezvous.                                                         *)

Step(c, label) == h' = [h EXCEPT ![c] = label]

\* Next iteration of the TSC rendezvous, or the end.
Again(c) ==
  /\ Step(c, IF i[c] = 0 THEN "done" ELSE "enter")
  /\ i' = [i EXCEPT ![c] = IF @ = 0 THEN 0 ELSE @ - 1]

\* A plausible slip: the master does not wait for the last CPU.
MasterStampEarly ==
  /\ h[0] = "enter"
  /\ semaphore = total_cpus - 2
  /\ stime' = TRUE
  /\ Step(0, "signal")
  /\ UNCHANGED <<outside, i, selected, semaphore>>

\* A plausible slip: the signal is given before the time is taken.
MasterStampLate ==
  /\ h[0] = "enter"
  /\ semaphore = total_cpus - 1
  /\ semaphore' = semaphore + 1
  /\ Step(0, "signal")
  /\ UNCHANGED <<outside, i, selected, stime>>

\* The master: all others are there; the platform time is taken once.
MasterStamp ==
  /\ h[0] = "enter"
  /\ semaphore = total_cpus - 1
  /\ stime' = TRUE
  /\ Step(0, "signal")
  /\ UNCHANGED <<outside, i, selected, semaphore>>

MasterSignal ==
  /\ h[0] = "signal"
  /\ semaphore' = semaphore + 1
  /\ Step(0, IF fn = "tsc" THEN "wait" ELSE "done")
  /\ UNCHANGED <<outside, i, selected, stime>>

\* All others have seen the signal.
MasterReset ==
  /\ h[0] = "wait"
  /\ semaphore = 2 * total_cpus - 1
  /\ semaphore' = 0
  /\ Again(0)
  /\ UNCHANGED <<outside, selected, stime>>

SlaveArrive(c) ==
  /\ c # 0
  /\ h[c] = "enter"
  /\ semaphore' = semaphore + 1
  /\ Step(c, "wait")
  /\ UNCHANGED <<outside, i, selected, stime>>

\* The master has signalled; in the TSC rendezvous the slave tells it so.
SlaveGo(c) ==
  /\ c # 0
  /\ h[c] = "wait"
  /\ IF fn = "tsc" THEN semaphore >= total_cpus ELSE semaphore = total_cpus
  /\ semaphore' = IF fn = "tsc" THEN semaphore + 1 ELSE semaphore
  /\ Step(c, IF fn = "tsc" THEN "wait2" ELSE "done")
  /\ UNCHANGED <<outside, i, selected, stime>>

SlaveLeave(c) ==
  /\ c # 0
  /\ h[c] = "wait2"
  /\ semaphore <= total_cpus
  /\ Again(c)
  /\ UNCHANGED <<outside, selected, semaphore, stime>>

Handler(c) == SlaveArrive(c) \/ SlaveGo(c) \/ SlaveLeave(c) \/ Finish(c)
Master     == MasterStamp \/ MasterSignal \/ MasterReset \/ CalibrationDone

Next ==
  \/ time_calibration \/ Master
  \/ \E c \in Cpus : User(c) \/ Interrupt(c) \/ Handler(c)

Spec == Init /\ [][Next]_vars

(* A CPU that is executing goes on.  An interrupt that is pending is taken *)
(* when interrupts are enabled again and again.                            *)
Fairness ==
  /\ WF_vars(Master)
  /\ \A c \in Cpus : /\ WF_vars(Handler(c))
                     /\ WF_vars(SchedLock(c) \/ SchedLeave(c) \/ VtLock(c) \/ VtLeave(c))
                     /\ SF_vars(Interrupt(c))

FairSpec == Spec /\ Fairness

-----------------------------------------------------------------------------
(* Properties.                                                             *)

Doing == {"idle", "sched_spin", "sched_in", "vt_spin", "vt_in", "cal"}
Stage == {"out", "enter", "signal", "wait", "wait2", "done"}

TypeOK ==
  /\ fn \in {"std", "tsc"}
  /\ pc \in [Cpus -> Doing]
  /\ masked \subseteq Cpus
  /\ h \in [Cpus -> Stage]
  /\ i \in [Cpus -> 0 .. Loops - 1]
  /\ lock \in Cpus \cup {Nobody}
  /\ selected \subseteq Cpus
  /\ semaphore \in 0 .. 2 * total_cpus - 1
  /\ stime \in BOOLEAN

(* "we must wait for all cpus before freeing @r": while any CPU is in the  *)
(* handler, and so may touch r, time_calibration() has not returned.       *)
StackAlive == \A c \in Cpus : h[c] # "out" => pc[0] = "cal"

(* No CPU reads the master's time, to set its TSC or for its calibration   *)
(* record, before it is written: slaves learn of it by the semaphore only. *)
StampWritten == \A c \in Cpus : h[c] \in {"wait2", "done"} => stime

(* No CPU passes the barrier before every CPU has reached it in the same   *)
(* iteration, so that all write the TSC together; the semaphore is reused  *)
(* for the next iteration while slow CPUs still read it.                   *)
Arrived(c, n) ==
  IF h[c] = "out" THEN c \notin selected ELSE i[c] < n \/ (i[c] = n /\ h[c] # "enter")
Together ==
  \A c \in Cpus : h[c] = "wait2" \/ (c = 0 /\ h[c] \in {"signal", "wait"}) =>
    \A d \in Cpus : Arrived(d, i[c])

(* "All CPUS snapshot their local TSC": every calibration that starts ends.*)
Completes == pc[0] = "cal" ~> pc[0] # "cal"
=============================================================================
