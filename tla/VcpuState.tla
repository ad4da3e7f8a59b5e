------------------------------ MODULE VcpuState ------------------------------
(***************************************************************************)
(* The state of the scheduler: struct vcpu, the schedule_data of each CPU, *)
(* what x86 keeps of the vcpu whose registers are loaded, the locals of    *)
(* the threads; and what the steps of VcpuSched ask of it.                 *)
(***************************************************************************)
EXTENDS Integers, FiniteSets

CONSTANTS Vcpus, Agents,
  Busy,     \* vcpus that never block
  NCpus,    \* CPUs are 0 .. NCpus - 1, and so ordered are their locks
  Idle,     \* the idle vcpu of a CPU
  Nobody,
  Homes,    \* bound: the CPUs on which vcpus start
  MaxParties  \* bounds the vcpus that are up, agents' calls and ticks, together

Cpus == 0 .. NCpus - 1
Threads == Cpus \cup Agents

ASSUME SchedAssumption ==
  /\ NCpus \in Nat \ {0} /\ IsFiniteSet(Agents) /\ Agents \cap Cpus = {} /\ Nobody \notin Threads
  /\ Idle \notin Vcpus /\ Busy \subseteq Vcpus /\ Homes \subseteq Cpus /\ MaxParties \in Nat

VARIABLES
  processor, pause_flags, pause_count, is_running, runstate, cpu_affinity,
  is_urgent, poll_evtchn, poll_mask,           \* struct vcpu, struct domain
  upcall, port,     \* an event, and the port that is polled, are pending
  curr, runq, schedule_lock, urgent_count,     \* schedule_data of each CPU
  softirq,          \* CPUs with SCHEDULE_SOFTIRQ pending
  current, curr_vcpu, vcpu_dirty_cpumask,      \* arch/x86/domain.c
  calls,            \* how many calls and ticks there were
  loc,              \* program counter and locals of each thread
  polls,            \* history: vcpus that blocked last in do_poll()
  moved,            \* history: a vcpu was moved while on a run queue
  down              \* a BUG_ON() was hit

ev    == <<poll_evtchn, poll_mask, upcall, port>>
flags == <<pause_flags, pause_count>>
queue == <<curr, runq>>
state == <<runstate, is_urgent, urgent_count>>
place == <<processor, cpu_affinity>>
arch  == <<current, curr_vcpu, vcpu_dirty_cpumask>>
\* what most steps leave alone
sched == <<queue, state, place, arch, is_running, schedule_lock, moved, down>>
vars  == <<ev, flags, sched, softirq, loc, calls, polls>>

-----------------------------------------------------------------------------
\* Threads: where they are, and their locals

Labels == {"run", "lock", "switch", "dirty", "flush", "enter", "saved", "tail", "lock1", "lock2",
           "wake", "unblock", "unpoll", "unmask", "reclear", "pollers", "polled", "block", "poll",
           "poll_mask", "poll_events", "poll_port", "poll_sleep", "poll_out", "poll_out2", "poll_out3",
           "pause", "spin", "held", "asked", "sleep"}

\* old, new and picked are locals of vcpu_migrate(), mask the CPUs that a
\* flush_tlb_mask() waits for
Local(pc, v, old, new, picked, mask) ==
  [pc |-> pc, v |-> v, old |-> old, new |-> new, picked |-> picked, mask |-> mask]
Locals == [pc : Labels, v : Vcpus \cup {Idle}, old : Cpus \cup {Nobody}, new : Cpus \cup {Nobody},
           picked : BOOLEAN, mask : SUBSET Cpus]

\* of two locks the lower is taken first
First(l) == IF l.old < l.new THEN l.old ELSE l.new
\* what waits for a flush: schedule(), or vcpu_pause()
Flushed(t) == IF t \in Cpus THEN "enter" ELSE "held"

-----------------------------------------------------------------------------
\* Vcpus, locks and queues

vcpu_runnable(v) == pause_flags[v] = {} /\ pause_count[v] = 0
\* vcpu_urgent_count_update(): v is blocked in a poll
Polling(v) == "blocked" \in pause_flags[v] /\ v \in poll_mask

Free(c) == schedule_lock[c] = Nobody
Take(t, c) == Free(c) /\ schedule_lock' = [schedule_lock EXCEPT ![c] = t]

\* __vcpu_on_runq(): on some queue, whatever v->processor says
Queued(v) == \E c \in Cpus : v \in runq[c]

\* csched_schedule(): the vcpu that was running goes back to the queue if it is
\* runnable.
Requeued(c) ==
  IF current[c] # Idle /\ vcpu_runnable(current[c])
    THEN [runq EXCEPT ![c] = @ \cup {current[c]}] ELSE runq
=============================================================================
