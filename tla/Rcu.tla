--------------------------------- MODULE Rcu ---------------------------------
(***************************************************************************)
(* Read-copy-update of the hypervisor: xen/common/rcupdate.c, with the     *)
(* part of softirq.c that starts its handler and of cpu.c that takes CPUs  *)
(* down and up.  The hash chains of the domains, the domain list and the   *)
(* timers are read under it; complete_domain_destroy() is a callback.      *)
(*                                                                         *)
(* Every access to rcu_ctrlblk outside its lock is a step, and so are the  *)
(* stores inside it that CPUs without the lock can see apart.  Batch       *)
(* numbers start at 0, not at -300, and MaxBatch bounds them.              *)
(***************************************************************************)
EXTENDS Naturals, Sequences, FiniteSets

CONSTANTS
  Cpus,       \* the CPUs that are present
  Boot,       \* CPU 0, which never goes down and runs the hotplug code
  Callbacks,  \* the rcu_heads embedded in domains and other structures
  Blimit,     \* blimit, callbacks per run of the handler
  QHiMark,    \* qhimark, the queue length from which blimit is lifted
  QLowMark,   \* qlowmark, the length at which it is put back
  MaxBatch,   \* bound: no call_rcu() once cur has reached it
  Interrupted, \* bound: CPUs on which interrupts open sections in rcu_barrier()
  Nobody      \* no CPU

ASSUME RcuConstants ==
  /\ Boot \in Cpus /\ Nobody \notin Cpus
  /\ Blimit \in Nat \ {0} /\ QHiMark \in Nat /\ QLowMark \in Nat /\ MaxBatch \in Nat
  /\ Interrupted \subseteq Cpus

\* the rcu_head on the stack of rcu_barrier_action() on CPU c
BarrierHead(c) == <<"barrier", c>>
BarrierHeads == {BarrierHead(c) : c \in Cpus}
Heads == Callbacks \cup BarrierHeads

ASSUME RcuHeads == IsFiniteSet(Cpus) /\ Callbacks \cap BarrierHeads = {}

VARIABLES
  cur, completed, next_pending, cpumask, lock,    \* rcu_ctrlblk
  quiescbatch, qs_pending, batch,                 \* rcu_data of each CPU
  nxtlist, curlist, donelist,
  forced,     \* the CPUs whose blimit is INT_MAX
  cpu_online_map,
  pc,         \* where each CPU is in the handler or, Boot, in cpu_callback()
  count,      \* callbacks invoked in this run of the handler
  hot,        \* the CPU that is going down or coming up
  dying,      \* it is going down: not online any more, but not cleared up after
  barrier,    \* where each CPU is in rcu_barrier_action()
  cpu_count,  \* the counter of rcu_barrier()
  reading,    \* CPUs inside a read-side critical section
  queued, waits,  \* history: see GracePeriod
  before      \* history: what was queued when rcu_barrier() began, less what
              \* was invoked since

ctrl == <<cur, completed, next_pending, cpumask, lock>>
rdp == <<quiescbatch, qs_pending, batch, nxtlist, curlist, donelist, forced>>
hist == <<queued, waits, before>>
rest == <<cpu_online_map, hot, dying, barrier, cpu_count>>
vars == <<ctrl, rdp, hist, rest, reading, pc, count>>

Init ==
  /\ cur = 0 /\ completed = 0 /\ next_pending = FALSE /\ cpumask = {} /\ lock = Nobody
  /\ quiescbatch = [c \in Cpus |-> 0] /\ qs_pending = {}
  /\ batch = [c \in Cpus |-> 0]
  /\ nxtlist = [c \in Cpus |-> <<>>] /\ curlist = [c \in Cpus |-> <<>>]
  /\ donelist = [c \in Cpus |-> <<>>]
  /\ forced = {} /\ cpu_online_map = Cpus /\ hot = Nobody /\ dying = FALSE
  /\ pc = [c \in Cpus |-> "out"] /\ count = [c \in Cpus |-> 0]
  /\ barrier = [c \in Cpus |-> "no"] /\ cpu_count = 0
  /\ reading = {} /\ queued = {} /\ before = {}
  /\ waits = [cb \in Heads |-> {}]

-----------------------------------------------------------------------------
\* Readers and callers

\* rcu_read_lock() is empty: nothing tells the other CPUs.  An interrupt may
\* open a section while the CPU is in the handler, or in rcu_barrier_action()
\* with interrupts on, which then stand still.
Enter(c) ==
  /\ c \in cpu_online_map \ reading
  /\ barrier[c] = "no" \/ (c \in Interrupted /\ barrier[c] # "back")
  /\ reading' = reading \cup {c}
  /\ UNCHANGED <<ctrl, rdp, hist, rest, pc, count>>

Exit(c) ==
  /\ c \in reading
  /\ reading' = reading \ {c}
  /\ waits' = [cb \in Heads |-> waits[cb] \ {c}]
  /\ UNCHANGED <<ctrl, rdp, queued, before, rest, pc, count>>

QLen(c) == Len(nxtlist[c]) + Len(curlist[c]) + Len(donelist[c])

call_rcu(c, cb) ==
  /\ cb \notin queued
  /\ nxtlist' = [nxtlist EXCEPT ![c] = Append(@, cb)]
  /\ forced' = IF QLen(c) + 1 > QHiMark THEN forced \cup {c} ELSE forced
  /\ queued' = queued \cup {cb}
  /\ waits' = [waits EXCEPT ![cb] = reading]
  /\ UNCHANGED <<ctrl, quiescbatch, qs_pending, batch, curlist, donelist, before, reading, pc, count>>

\* from any context, interrupts included
CallRcu(c, cb) ==
  /\ c \in cpu_online_map /\ cur < MaxBatch
  /\ call_rcu(c, cb)
  /\ UNCHANGED rest

-----------------------------------------------------------------------------
\* The handler of RCU_SOFTIRQ

BatchDone(c) == curlist[c] # <<>> /\ completed >= batch[c]

rcu_pending(c) ==
  \/ BatchDone(c)
  \/ curlist[c] = <<>> /\ nxtlist[c] # <<>>
  \/ donelist[c] # <<>>
  \/ quiescbatch[c] # cur
  \/ c \in qs_pending

\* a CPU runs its own steps unless an interrupt on it is in a read section
At(c, at) == pc[c] = at /\ c \notin reading

Goto(c, to) == pc' = [pc EXCEPT ![c] = to]

\* __do_softirq(): never inside a read section, never on an offline CPU, and
\* in rcu_barrier_action() only from the waiting loop.
Softirq(c) ==
  /\ At(c, "out") /\ c \in cpu_online_map /\ barrier[c] \in {"no", "wait"}
  /\ rcu_pending(c)
  /\ IF BatchDone(c)
       THEN /\ donelist' = [donelist EXCEPT ![c] = @ \o curlist[c]]
            /\ curlist' = [curlist EXCEPT ![c] = <<>>]
       ELSE UNCHANGED <<donelist, curlist>>
  /\ Goto(c, "next")
  /\ UNCHANGED <<ctrl, quiescbatch, qs_pending, batch, nxtlist, forced, hist, rest, reading, count>>

\* A plausible slip: the callbacks join the batch that is running already
NextToCurEarly(c) ==
  /\ At(c, "next")
  /\ IF nxtlist[c] # <<>> /\ curlist[c] = <<>>
       THEN /\ curlist' = [curlist EXCEPT ![c] = nxtlist[c]]
            /\ nxtlist' = [nxtlist EXCEPT ![c] = <<>>]
            /\ batch' = [batch EXCEPT ![c] = cur]
            /\ Goto(c, "look")
       ELSE Goto(c, "check") /\ UNCHANGED <<curlist, nxtlist, batch>>
  /\ UNCHANGED <<ctrl, quiescbatch, qs_pending, donelist, forced, hist, rest, reading, count>>

NextToCur(c) ==
  /\ At(c, "next")
  /\ IF nxtlist[c] # <<>> /\ curlist[c] = <<>>
       THEN /\ curlist' = [curlist EXCEPT ![c] = nxtlist[c]]
            /\ nxtlist' = [nxtlist EXCEPT ![c] = <<>>]
            /\ batch' = [batch EXCEPT ![c] = cur + 1]
            /\ Goto(c, "look")
       ELSE Goto(c, "check") /\ UNCHANGED <<curlist, nxtlist, batch>>
  /\ UNCHANGED <<ctrl, quiescbatch, qs_pending, donelist, forced, hist, rest, reading, count>>

LookPending(c) ==
  /\ At(c, "look")
  /\ Goto(c, IF next_pending THEN "check" ELSE "register")
  /\ UNCHANGED <<ctrl, rdp, hist, rest, reading, count>>

Register(c) ==
  /\ At(c, "register") /\ lock = Nobody
  /\ lock' = c /\ next_pending' = TRUE
  /\ Goto(c, "start")
  /\ UNCHANGED <<cur, completed, cpumask, rdp, hist, rest, reading, count>>

\* rcu_start_batch(): next_pending is cleared before cur is raised, and a CPU
\* that computes its batch number without the lock can look in between.
\* "at" is where it was called, "to" what follows the unlock.
StartTest(c, at, mid, to) ==
  /\ At(c, at)
  /\ IF next_pending /\ completed = cur
       THEN next_pending' = FALSE /\ Goto(c, mid) /\ UNCHANGED lock
       ELSE lock' = Nobody /\ Goto(c, to) /\ UNCHANGED next_pending
  /\ UNCHANGED <<cur, completed, cpumask, rdp, hist, rest, reading, count>>

StartCur(c, mid, to) ==
  /\ At(c, mid)
  /\ cur' = cur + 1 /\ cpumask' = cpu_online_map
  /\ lock' = Nobody
  /\ Goto(c, to)
  /\ UNCHANGED <<completed, next_pending, rdp, hist, rest, reading, count>>

\* A plausible slip: cur is raised before next_pending is cleared
rcu_start_batch_swapped(c, at, mid, to) ==
  \/ /\ At(c, at)
     /\ IF next_pending /\ completed = cur
          THEN cur' = cur + 1 /\ cpumask' = cpu_online_map /\ Goto(c, mid) /\ UNCHANGED lock
          ELSE lock' = Nobody /\ Goto(c, to) /\ UNCHANGED <<cur, cpumask>>
     /\ UNCHANGED <<completed, next_pending, rdp, hist, rest, reading, count>>
  \/ /\ At(c, mid)
     /\ next_pending' = FALSE /\ lock' = Nobody /\ Goto(c, to)
     /\ UNCHANGED <<cur, cpumask, completed, rdp, hist, rest, reading, count>>

rcu_start_batch(c, at, mid, to) == StartTest(c, at, mid, to) \/ StartCur(c, mid, to)

CheckQuiescent(c) ==
  /\ At(c, "check")
  /\ IF quiescbatch[c] # cur
       THEN /\ quiescbatch' = [quiescbatch EXCEPT ![c] = cur]
            /\ qs_pending' = qs_pending \cup {c}
            /\ Goto(c, "batch")
       ELSE /\ qs_pending' = qs_pending \ {c}
            /\ Goto(c, IF c \in qs_pending THEN "quiet" ELSE "batch")
            /\ UNCHANGED quiescbatch
  /\ UNCHANGED <<ctrl, batch, nxtlist, curlist, donelist, forced, hist, rest, reading, count>>

\* cpu_quiet() for CPU q, by CPU c that has just taken the lock
cpu_quiet(c, q, start, to) ==
  /\ cpumask' = cpumask \ {q}
  /\ IF cpumask' = {}
       THEN completed' = cur /\ lock' = c /\ Goto(c, start)
       ELSE Goto(c, to) /\ UNCHANGED <<completed, lock>>

Quiet(c) ==
  /\ At(c, "quiet") /\ lock = Nobody
  /\ IF quiescbatch[c] = cur
       THEN cpu_quiet(c, c, "restart", "batch")
       ELSE Goto(c, "batch") /\ UNCHANGED <<cpumask, completed, lock>>
  /\ UNCHANGED <<cur, next_pending, rdp, hist, rest, reading, count>>

\* rcu_do_batch(): one callback.  That of rcu_barrier() counts.
Invoke(c) ==
  /\ At(c, "batch") /\ donelist[c] # <<>>
  /\ c \in forced \/ count[c] < Blimit
  /\ LET cb == Head(donelist[c]) IN
       /\ queued' = queued \ {cb} /\ before' = before \ {cb}
       /\ cpu_count' = IF cb \in BarrierHeads THEN cpu_count + 1 ELSE cpu_count
  /\ donelist' = [donelist EXCEPT ![c] = Tail(@)]
  /\ count' = [count EXCEPT ![c] = @ + 1]
  /\ UNCHANGED <<ctrl, quiescbatch, qs_pending, batch, nxtlist, curlist, forced, waits,
                 cpu_online_map, hot, dying, barrier, reading, pc>>

\* What is left waits for the next run: rcu_pending() holds.
Leave(c) ==
  /\ At(c, "batch")
  /\ donelist[c] = <<>> \/ (c \notin forced /\ count[c] >= Blimit)
  /\ forced' = IF QLen(c) <= QLowMark THEN forced \ {c} ELSE forced
  /\ count' = [count EXCEPT ![c] = 0]
  /\ Goto(c, "out")
  /\ UNCHANGED <<ctrl, quiescbatch, qs_pending, batch, nxtlist, curlist, donelist, hist, rest,
                 reading>>

Handler(c) ==
  \/ NextToCur(c) \/ LookPending(c) \/ Register(c) \/ rcu_start_batch(c, "start", "cur", "check")
  \/ CheckQuiescent(c) \/ Quiet(c) \/ rcu_start_batch(c, "restart", "recur", "batch")
  \/ Invoke(c) \/ Leave(c)

-----------------------------------------------------------------------------
\* CPUs going down and coming up

\* stop_machine_run(): every CPU runs a tasklet, outside all handlers and
\* sections, with interrupts off
Stopped ==
  /\ reading = {} /\ hot = Nobody
  /\ \A c \in cpu_online_map : pc[c] = "out" /\ barrier[c] = "no"

\* take_cpu_down() on c
CpuDown(c) ==
  /\ Stopped /\ c \in cpu_online_map \ {Boot}
  /\ cpu_online_map' = cpu_online_map \ {c}
  /\ hot' = c /\ dying' = TRUE
  /\ UNCHANGED <<ctrl, rdp, hist, barrier, cpu_count, reading, pc, count>>

\* __cpu_die(): Boot handles softirqs until the idle loop of the other CPU has
\* ended, and goes on with the CPU_DEAD notification.
CpuDie ==
  /\ hot # Nobody /\ dying /\ At(Boot, "out")
  /\ Goto(Boot, "flush")
  /\ UNCHANGED <<ctrl, rdp, hist, rest, reading, count>>

\* A plausible slip: the dead CPU is struck from the mask and nothing else
FlushMaskOnly ==
  /\ At(Boot, "flush") /\ lock = Nobody
  /\ cpumask' = cpumask \ {hot}
  /\ Goto(Boot, "take")
  /\ UNCHANGED <<cur, next_pending, completed, lock, rdp, hist, rest, reading, count>>

\* rcu_offline_cpu(): the dead CPU is quiet
Flush ==
  /\ At(Boot, "flush") /\ lock = Nobody
  /\ IF cur # completed
       THEN cpu_quiet(Boot, hot, "flushed", "take")
       ELSE Goto(Boot, "take") /\ UNCHANGED <<cpumask, completed, lock>>
  /\ UNCHANGED <<cur, next_pending, rdp, hist, rest, reading, count>>

\* and its callbacks start again on this CPU, done or not
Take ==
  /\ At(Boot, "take")
  /\ nxtlist' = [nxtlist EXCEPT ![Boot] = @ \o (donelist[hot] \o (curlist[hot] \o nxtlist[hot])),
                                ![hot] = <<>>]
  /\ curlist' = [curlist EXCEPT ![hot] = <<>>]
  /\ donelist' = [donelist EXCEPT ![hot] = <<>>]
  /\ hot' = Nobody /\ dying' = FALSE
  /\ Goto(Boot, "out")
  /\ UNCHANGED <<ctrl, quiescbatch, qs_pending, batch, forced, hist, cpu_online_map, barrier,
                 cpu_count, reading, count>>

\* CPU_UP_PREPARE: rcu_init_percpu_data()
CpuPrepare(c) ==
  /\ hot = Nobody /\ c \in Cpus \ cpu_online_map
  /\ At(Boot, "out") /\ barrier[Boot] = "no"
  /\ hot' = c
  /\ quiescbatch' = [quiescbatch EXCEPT ![c] = completed]
  /\ qs_pending' = qs_pending \ {c}
  /\ batch' = [batch EXCEPT ![c] = 0]
  /\ nxtlist' = [nxtlist EXCEPT ![c] = <<>>] /\ curlist' = [curlist EXCEPT ![c] = <<>>]
  /\ donelist' = [donelist EXCEPT ![c] = <<>>]
  /\ forced' = forced \ {c}
  /\ UNCHANGED <<ctrl, hist, cpu_online_map, dying, barrier, cpu_count,
                 reading, pc, count>>

\* Boot is in the notification of CPU_DEAD or CPU_UP_CANCELED
Notifying == {"flush", "flushed", "flushed_cur", "take"}

\* The new CPU sets its bit, without any lock, while Boot waits and handles
\* softirqs; or it fails to start (CPU_UP_CANCELED).
CpuOnline ==
  /\ hot # Nobody /\ ~dying /\ pc[Boot] \notin Notifying
  /\ cpu_online_map' = cpu_online_map \cup {hot}
  /\ hot' = Nobody
  /\ UNCHANGED <<ctrl, rdp, hist, dying, barrier, cpu_count, reading, pc, count>>

CpuCancel ==
  /\ hot # Nobody /\ ~dying /\ At(Boot, "out")
  /\ Goto(Boot, "flush")
  /\ UNCHANGED <<ctrl, rdp, hist, rest, reading, count>>

Hotplug ==
  \/ Flush \/ rcu_start_batch(Boot, "flushed", "flushed_cur", "take") \/ Take
  \/ CpuDie \/ CpuOnline

-----------------------------------------------------------------------------
\* rcu_barrier()

BarrierBegin ==
  /\ Stopped /\ cur < MaxBatch
  /\ barrier' = [c \in Cpus |-> IF c \in cpu_online_map THEN "call" ELSE "no"]
  /\ cpu_count' = 0
  /\ before' = queued
  /\ UNCHANGED <<ctrl, rdp, queued, waits, cpu_online_map, hot, dying, reading, pc, count>>

BarrierCall(c) ==
  /\ barrier[c] = "call" /\ At(c, "out")
  /\ call_rcu(c, BarrierHead(c))
  /\ barrier' = [barrier EXCEPT ![c] = "wait"]
  /\ UNCHANGED <<cpu_online_map, hot, dying, cpu_count>>

\* the waiting loop between two softirqs: cpu_relax()
BarrierSpin(c) ==
  /\ barrier[c] = "wait" /\ At(c, "out") /\ cpu_count # Cardinality(cpu_online_map)
  /\ UNCHANGED vars

\* A plausible slip: a CPU waits for its own callback only
BarrierReturnOwn(c) ==
  /\ barrier[c] = "wait" /\ At(c, "out") /\ BarrierHead(c) \notin queued
  /\ barrier' = [barrier EXCEPT ![c] = "back"]
  /\ UNCHANGED <<ctrl, rdp, hist, cpu_online_map, hot, dying, cpu_count, reading, pc, count>>

BarrierReturn(c) ==
  /\ barrier[c] = "wait" /\ At(c, "out") /\ cpu_count = Cardinality(cpu_online_map)
  /\ barrier' = [barrier EXCEPT ![c] = "back"]
  /\ UNCHANGED <<ctrl, rdp, hist, cpu_online_map, hot, dying, cpu_count, reading, pc, count>>

\* the last CPU is back, and stop_machine_run() lets all of them go
BarrierEnd ==
  /\ \A c \in cpu_online_map : barrier[c] = "back"
  /\ barrier' = [c \in Cpus |-> "no"]
  /\ UNCHANGED <<ctrl, rdp, hist, cpu_online_map, hot, dying, cpu_count, reading, pc, count>>

-----------------------------------------------------------------------------
Next ==
  \/ \E c \in Cpus : Enter(c) \/ Exit(c) \/ Softirq(c) \/ Handler(c)
                     \/ CpuDown(c) \/ CpuPrepare(c) \/ BarrierCall(c) \/ BarrierSpin(c)
                     \/ BarrierReturn(c)
  \/ \E c \in Cpus, cb \in Callbacks : CallRcu(c, cb)
  \/ Hotplug \/ CpuCancel \/ BarrierBegin \/ BarrierEnd

Spec == Init /\ [][Next]_vars

\* Interrupts do not take a CPU over, and the spin lock is not always lost to
\* others: a CPU that can go on again and again goes on.
Own(c) == Softirq(c) \/ Handler(c) \/ BarrierCall(c) \/ BarrierReturn(c)

Fairness ==
  /\ \A c \in Cpus : WF_vars(Exit(c)) /\ SF_vars(Own(c))
  /\ SF_vars(Hotplug) /\ WF_vars(BarrierEnd)

FairSpec == Spec /\ Fairness

-----------------------------------------------------------------------------
Labels == {"out", "next", "look", "register", "start", "cur", "check", "quiet", "restart",
           "recur", "batch"} \cup Notifying

\* The types of rcu_ctrlblk, of the per-CPU rcu_data and of the history.
\* CPU 0, which runs rcu_offline_cpu() for the others, is never offline.
TypeOK ==
  /\ cur \in Nat /\ completed \in Nat /\ next_pending \in BOOLEAN
  /\ cpumask \subseteq Cpus /\ lock \in Cpus \cup {Nobody}
  /\ quiescbatch \in [Cpus -> Nat] /\ batch \in [Cpus -> Nat] /\ qs_pending \subseteq Cpus
  /\ nxtlist \in [Cpus -> Seq(Heads)] /\ curlist \in [Cpus -> Seq(Heads)]
  /\ donelist \in [Cpus -> Seq(Heads)]
  /\ forced \subseteq Cpus /\ cpu_online_map \subseteq Cpus /\ Boot \in cpu_online_map
  /\ hot \in Cpus \cup {Nobody} /\ dying \in BOOLEAN
  /\ pc \in [Cpus -> Labels] /\ count \in [Cpus -> Nat]
  /\ barrier \in [Cpus -> {"no", "call", "wait", "back"}] /\ cpu_count \in Nat
  /\ reading \subseteq Cpus /\ queued \subseteq Heads /\ before \subseteq Heads
  /\ waits \in [Heads -> SUBSET Cpus]

Grace == INSTANCE GracePeriod WITH Callbacks <- Heads

\* The batches, masks and lists of rcupdate.c keep what call_rcu() promises:
\* no callback runs while a read section that was open when it was queued is
\* open still, and each runs once per call; with CPUs that go down, come up
\* and inherit callbacks, and with rcu_barrier().
Promise == Grace!GSpec

\* When rcu_barrier_action() returns, on any CPU, every callback that was
\* queued on any CPU before rcu_barrier() began has been invoked.
BarrierFlushed == \A c \in Cpus : barrier[c] = "back" => before = {}

\* A running batch of rcu_ctrlblk waits for some CPU, and a CPU is waited for
\* only while one runs: cpu_quiet() completes the batch with the last CPU,
\* also when rcu_offline_cpu() reports it for a dead one.
Awaited == cur # completed <=> cpumask # {}

\* Every callback given to call_rcu() is invoked in the end: no batch that
\* __rcu_process_callbacks() registers is overlooked by rcu_start_batch(),
\* and no CPU that rcu_offline_cpu() buries takes its callbacks along.
EventuallyInvoked == \A cb \in Heads : cb \in queued ~> cb \notin queued
=============================================================================
