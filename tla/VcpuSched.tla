------------------------------ MODULE VcpuSched ------------------------------
(***************************************************************************)
(* The scheduler of the hypervisor between the policy and the guests:      *)
(* xen/common/schedule.c, the run queues of the credit scheduler, and the  *)
(* context switch of x86 with its lazy saving of registers.                *)
(*                                                                         *)
(* Threads are the CPUs, which run schedule(), and agents: other contexts  *)
(* of the hypervisor that pause a vcpu, move it or send it events.  A      *)
(* region under one schedule_lock is one step if it reads what others      *)
(* write without the lock at most once; schedule() and vcpu_migrate() hold *)
(* their locks over several steps.  Priorities are left out: the next vcpu *)
(* is any of the queue, and any that may be stolen from another.           *)
(***************************************************************************)
EXTENDS VcpuState

At0(pc, v) == Local(pc, v, Nobody, Nobody, FALSE, {})

Up == {v \in Vcpus : "down" \notin pause_flags[v]}

\* Vcpus that are up have just been unpaused, and every CPU is about to schedule.
Init ==
  /\ \E b \in SUBSET Busy : pause_flags = [v \in Vcpus |-> IF v \in b THEN {"down"} ELSE {}]
  /\ pause_count = [v \in Vcpus |-> 0]
  /\ processor \in [Vcpus -> Homes]
  /\ cpu_affinity = [v \in Vcpus |-> Cpus]
  /\ is_running = {} /\ runstate = [v \in Vcpus |-> IF v \in Up THEN "runnable" ELSE "offline"]
  /\ is_urgent = {} /\ poll_evtchn = [v \in Vcpus |-> 0] /\ poll_mask = {}
  /\ upcall = {} /\ port = {}
  /\ curr = [c \in Cpus |-> Idle] /\ runq = [c \in Cpus |-> {v \in Up : processor[v] = c}]
  /\ schedule_lock = [c \in Cpus |-> Nobody] /\ urgent_count = [c \in Cpus |-> 0]
  /\ softirq = Cpus
  /\ current = [c \in Cpus |-> Idle] /\ curr_vcpu = [c \in Cpus |-> Idle]
  /\ vcpu_dirty_cpumask = [v \in Vcpus |-> {}]
  /\ loc = [t \in Threads |-> At0("run", Idle)]
  /\ calls = 0 /\ polls = {} /\ moved = FALSE /\ down = FALSE

Is(t, pc) == loc[t].pc = pc /\ ~down
To(t, pc, v) == loc' = [loc EXCEPT ![t] = At0(pc, v)]
\* The end of a call.  A CPU looks at its softirqs before it returns to the
\* guest, and one that is pending means schedule().
Done(t, pending) ==
  IF t \in Cpus /\ t \in pending
    THEN To(t, "lock", Idle) /\ softirq' = pending \ {t}
    ELSE To(t, "run", Idle) /\ softirq' = pending

Set(v, f) == pause_flags' = [pause_flags EXCEPT ![v] = @ \cup {f}]
Clear(v, f) == pause_flags' = [pause_flags EXCEPT ![v] = @ \ {f}]

Drop(t) == schedule_lock' = [c \in Cpus |-> IF schedule_lock[c] = t THEN Nobody
                                            ELSE schedule_lock[c]]

Unqueue(v) == [c \in Cpus |-> runq[c] \ {v}]

\* vcpu_runstate_change() of the vcpus of DOMAIN new; each is first counted
\* as urgent if it is blocked in a poll, and no longer if it is not.
RunstateChange(new) ==
  LET more == {v \in DOMAIN new : Polling(v)} \ is_urgent
      less == {v \in DOMAIN new : ~Polling(v)} \cap is_urgent
      On(s, c) == Cardinality({v \in s : processor[v] = c})
  IN  /\ runstate' = [v \in Vcpus |-> IF v \in DOMAIN new THEN new[v] ELSE runstate[v]]
      /\ is_urgent' = (is_urgent \cup more) \ less
      /\ urgent_count' = [c \in Cpus |-> urgent_count[c] + On(more, c) - On(less, c)]
Becomes(v, s) == RunstateChange([x \in {v} |-> s])

-----------------------------------------------------------------------------
\* Sleeping and waking

\* A plausible slip: the vcpu whose registers are loaded, not the one chosen.
SleepCurrent(v) ==
  /\ Free(processor[v])
  /\ IF vcpu_runnable(v) THEN UNCHANGED <<state, runq, softirq>>
     ELSE /\ IF runstate[v] = "runnable" THEN Becomes(v, "offline") ELSE UNCHANGED state
          /\ IF current[processor[v]] = v
               THEN softirq' = softirq \cup {processor[v]} /\ UNCHANGED runq
               ELSE runq' = Unqueue(v) /\ UNCHANGED softirq

vcpu_sleep_nosync(v) ==
  /\ Free(processor[v])
  /\ IF vcpu_runnable(v) THEN UNCHANGED <<state, runq, softirq>>
     ELSE /\ IF runstate[v] = "runnable" THEN Becomes(v, "offline") ELSE UNCHANGED state
          /\ IF curr[processor[v]] = v
               THEN softirq' = softirq \cup {processor[v]} /\ UNCHANGED runq
               ELSE runq' = Unqueue(v) /\ UNCHANGED softirq

\* A plausible slip: only other CPUs that idle are told.
TickledOthers(c, v) == {{d} : d \in {x \in cpu_affinity[v] \ {c} : curr[x] = Idle}} \cup {{}}

\* __runq_tickle(): a CPU that idles on this queue is told; otherwise one of
\* the idle CPUs that v may run on, and this one if v has more priority.
Tickled(c, v) ==
  LET idlers == {d \in cpu_affinity[v] : curr[d] = Idle} IN
  IF curr[c] = Idle THEN {{c}}
  ELSE {s \cup i : s \in {{}, {c}}, i \in IF idlers = {} THEN {{}} ELSE {{d} : d \in idlers}}

\* vcpu_wake(), the end of every call that has it
Wake(t) ==
  LET v == loc[t].v
      c == processor[v]
  IN
  /\ Is(t, "wake") /\ Free(c)
  /\ IF vcpu_runnable(v)
       THEN /\ IF runstate[v] \in {"blocked", "offline"} THEN Becomes(v, "runnable")
               ELSE UNCHANGED state
            /\ IF curr[c] = v \/ Queued(v) THEN Done(t, softirq) /\ UNCHANGED runq
               ELSE /\ runq' = [runq EXCEPT ![c] = @ \cup {v}]
                    /\ \E s \in Tickled(c, v) : Done(t, softirq \cup s)
       ELSE /\ IF "blocked" \notin pause_flags[v] /\ runstate[v] = "blocked"
                 THEN Becomes(v, "offline") ELSE UNCHANGED state
            /\ Done(t, softirq) /\ UNCHANGED runq
  /\ UNCHANGED <<ev, flags, curr, place, arch, is_running, schedule_lock, moved, down>>

\* vcpu_unblock(): the poll that ends is unmarked, and blocked cleared again.
Unblock(t) ==
  LET v == loc[t].v IN
  /\ Is(t, "unblock")
  /\ Clear(v, "blocked")
  /\ IF "blocked" \in pause_flags[v] THEN To(t, "unpoll", v) /\ UNCHANGED softirq
     ELSE Done(t, softirq)
  /\ UNCHANGED <<ev, pause_count, sched>>

Unpoll(t) ==
  LET v == loc[t].v IN
  /\ Is(t, "unpoll")
  /\ To(t, IF poll_evtchn[v] # 0 THEN "unmask" ELSE "wake", v)
  /\ poll_evtchn' = [poll_evtchn EXCEPT ![v] = 0]
  /\ UNCHANGED <<poll_mask, upcall, port, flags, sched, softirq>>

Unmask(t) ==
  LET v == loc[t].v IN
  /\ Is(t, "unmask")
  /\ poll_mask' = poll_mask \ {v}
  /\ To(t, IF v \in poll_mask THEN "reclear" ELSE "wake", v)
  /\ UNCHANGED <<poll_evtchn, upcall, port, flags, sched, softirq>>

\* A plausible slip: blocked is not cleared again.
ReclearSkipped(t) ==
  /\ Is(t, "reclear")
  /\ To(t, "wake", loc[t].v)
  /\ UNCHANGED <<ev, flags, sched, softirq>>

Reclear(t) ==
  /\ Is(t, "reclear")
  /\ Clear(loc[t].v, "blocked")
  /\ To(t, "wake", loc[t].v)
  /\ UNCHANGED <<ev, pause_count, sched, softirq>>

-----------------------------------------------------------------------------
\* Events: vcpu_mark_events_pending() and evtchn_set_pending(), which also
\* looks for pollers; the timer of a poll

SendUpcall(a, v) ==
  /\ Is(a, "run") /\ v \notin upcall
  /\ upcall' = upcall \cup {v}
  /\ To(a, "unblock", v)
  /\ UNCHANGED <<poll_evtchn, poll_mask, port, flags, sched, softirq>>

SendPort(a, v) ==
  /\ Is(a, "run") /\ v \notin port
  /\ port' = port \cup {v}
  /\ To(a, "pollers", v)
  /\ UNCHANGED <<poll_evtchn, poll_mask, upcall, flags, sched, softirq>>

Pollers(a) ==
  LET v == loc[a].v IN
  /\ Is(a, "pollers")
  /\ poll_mask' = poll_mask \ {v}
  /\ IF v \in poll_mask THEN To(a, "polled", v) ELSE To(a, "run", Idle)
  /\ UNCHANGED <<poll_evtchn, upcall, port, flags, sched, softirq>>

Polled(a) ==
  /\ Is(a, "polled")
  /\ poll_evtchn' = [poll_evtchn EXCEPT ![loc[a].v] = 0]
  /\ To(a, "unblock", loc[a].v)
  /\ UNCHANGED <<poll_mask, upcall, port, flags, sched, softirq>>

PollTimer(a, v) ==
  /\ Is(a, "run") /\ v \in poll_mask
  /\ poll_mask' = poll_mask \ {v}
  /\ To(a, "unblock", v)
  /\ UNCHANGED <<poll_evtchn, upcall, port, flags, sched, softirq>>

-----------------------------------------------------------------------------
\* What the vcpu that is current on CPU c asks for

Guest(c, v) == Is(c, "run") /\ current[c] = v /\ v # Idle

Consume(c, v) ==
  /\ Guest(c, v) /\ v \in upcall \cup port
  /\ upcall' = upcall \ {v} /\ port' = port \ {v}
  /\ UNCHANGED <<poll_evtchn, poll_mask, flags, loc, sched, softirq>>

\* do_block() and do_poll() both set blocked first, and look for events after.
Blocks(c, v) ==
  /\ Guest(c, v)
  /\ Set(v, "blocked")
  /\ \/ To(c, "block", v) /\ polls' = polls \ {v}
     \/ To(c, "poll", v) /\ polls' = polls \cup {v}
  /\ UNCHANGED <<ev, pause_count, sched, softirq>>

\* A plausible slip: events are not looked for after blocking.
BlockBlindly(c) ==
  /\ Is(c, "block")
  /\ Done(c, softirq \cup {c})
  /\ UNCHANGED <<ev, flags, sched>>

Block(c) ==
  LET v == loc[c].v IN
  /\ Is(c, "block")
  /\ IF v \in upcall THEN Clear(v, "blocked") /\ Done(c, softirq)
     ELSE Done(c, softirq \cup {c}) /\ UNCHANGED pause_flags
  /\ UNCHANGED <<ev, pause_count, sched>>

\* -1: polling, no port known yet.  In the x86 build nothing is checked
\* between the stores.
PollAny(c) ==
  /\ Is(c, "poll")
  /\ poll_evtchn' = [poll_evtchn EXCEPT ![loc[c].v] = -1]
  /\ To(c, "poll_mask", loc[c].v)
  /\ UNCHANGED <<poll_mask, upcall, port, flags, sched, softirq>>

PollMask(c) ==
  /\ Is(c, "poll_mask")
  /\ poll_mask' = poll_mask \cup {loc[c].v}
  /\ To(c, "poll_events", loc[c].v)
  /\ UNCHANGED <<poll_evtchn, upcall, port, flags, sched, softirq>>

\* local_events_need_delivery(), then the ports
PollEvents(c) ==
  LET v == loc[c].v IN
  /\ Is(c, "poll_events")
  /\ To(c, IF v \in upcall THEN "poll_out" ELSE "poll_port", v)
  /\ UNCHANGED <<ev, flags, sched, softirq>>

\* A port that is pending, invalid or cannot be read ends the poll.  Of several
\* ports, port says that one is pending; a poll of no port is left out.
PollPort(c) ==
  LET v == loc[c].v IN
  /\ Is(c, "poll_port")
  /\ \/ To(c, "poll_out", v)
     \/ v \notin port /\ To(c, "poll_sleep", v)
  /\ UNCHANGED <<ev, flags, sched, softirq>>

\* the port is noted if it is the only one
PollSleep(c) ==
  /\ Is(c, "poll_sleep")
  /\ UNCHANGED poll_evtchn \/ poll_evtchn' = [poll_evtchn EXCEPT ![loc[c].v] = 1]
  /\ Done(c, softirq \cup {c})
  /\ UNCHANGED <<poll_mask, upcall, port, flags, sched>>

\* the three stores at the label out
PollOut(c) ==
  LET v == loc[c].v IN
  /\ \/ /\ Is(c, "poll_out") /\ To(c, "poll_out2", v) /\ UNCHANGED softirq
        /\ poll_evtchn' = [poll_evtchn EXCEPT ![v] = 0] /\ UNCHANGED <<poll_mask, pause_flags>>
     \/ /\ Is(c, "poll_out2") /\ To(c, "poll_out3", v) /\ UNCHANGED softirq
        /\ poll_mask' = poll_mask \ {v} /\ UNCHANGED <<poll_evtchn, pause_flags>>
     \/ /\ Is(c, "poll_out3") /\ Done(c, softirq)
        /\ Clear(v, "blocked") /\ UNCHANGED <<poll_evtchn, poll_mask>>
  /\ UNCHANGED <<upcall, port, pause_count, sched>>

\* do_yield(), the end of the time slice
Yield(c, v) ==
  /\ Guest(c, v)
  /\ Done(c, softirq \cup {c})
  /\ UNCHANGED <<ev, flags, sched>>

\* csched_tick(): another CPU would suit this vcpu better.  The timer softirq
\* comes before that of schedule(), and so also between do_block() or
\* do_poll() and the schedule() they ask for.
Tick(c, v) ==
  /\ Is(c, "run") \/ Is(c, "lock")
  /\ current[c] = v /\ v # Idle /\ cpu_affinity[v] # {c}
  /\ Set(v, "migrating")
  /\ Done(c, softirq \cup {c})
  /\ UNCHANGED <<ev, pause_count, sched>>

-----------------------------------------------------------------------------
\* vcpu_pause(), vcpu_unpause()

Pause(a, v) ==
  /\ Is(a, "run")
  /\ pause_count' = [pause_count EXCEPT ![v] = @ + 1]
  /\ To(a, "pause", v)
  /\ UNCHANGED <<ev, pause_flags, sched, softirq>>

PauseSleep(a) ==
  /\ Is(a, "pause")
  /\ vcpu_sleep_nosync(loc[a].v)
  /\ To(a, "spin", loc[a].v)
  /\ UNCHANGED <<ev, flags, curr, place, arch, is_running, schedule_lock, moved, down>>

\* flush_tlb_mask(): the thread waits until each CPU has handled the interrupt
Flush(t, mask) ==
  loc' = [loc EXCEPT ![t] = Local(IF mask = {} THEN Flushed(t) ELSE "flush", loc[t].v, Nobody, Nobody,
                                  FALSE, mask)]

\* A plausible slip: the registers are taken to be saved.
PauseUnsynced(a) ==
  /\ Is(a, "spin") /\ (vcpu_runnable(loc[a].v) \/ loc[a].v \notin is_running)
  /\ To(a, "held", loc[a].v)
  /\ UNCHANGED <<ev, flags, sched, softirq>>

\* vcpu_sleep_sync() waits, then sync_vcpu_execstate() asks the CPU that still
\* has the registers to save them.  Agents run on CPUs that are not in Cpus, so
\* that the case of registers on the agent's own CPU does not arise.
PauseSync(a) ==
  LET v == loc[a].v IN
  /\ Is(a, "spin") /\ (vcpu_runnable(v) \/ v \notin is_running)
  /\ Flush(a, vcpu_dirty_cpumask[v])
  /\ UNCHANGED <<ev, flags, sched, softirq>>

Unpause(a) ==
  LET v == loc[a].v IN
  /\ Is(a, "held")
  /\ pause_count' = [pause_count EXCEPT ![v] = @ - 1]
  /\ IF pause_count[v] = 1 THEN To(a, "wake", v) ELSE To(a, "run", Idle)
  /\ UNCHANGED <<ev, pause_flags, sched, softirq>>

-----------------------------------------------------------------------------
\* Moving a vcpu

\* A plausible slip: only a vcpu that runs is told to move.
SetAffinityRunning(a, v) ==
  /\ Is(a, "run") /\ Free(processor[v])
  /\ \E m \in (SUBSET Cpus) \ {{}} :
       /\ cpu_affinity' = [cpu_affinity EXCEPT ![v] = m]
       /\ IF processor[v] \notin m /\ v \in is_running THEN Set(v, "migrating")
          ELSE UNCHANGED pause_flags
  /\ To(a, "asked", v)
  /\ UNCHANGED <<ev, pause_count, queue, state, processor, arch, is_running, schedule_lock, softirq,
                 moved, down>>

SetAffinity(a, v) ==
  /\ Is(a, "run") /\ Free(processor[v])
  /\ \E m \in (SUBSET Cpus) \ {{}} :
       /\ cpu_affinity' = [cpu_affinity EXCEPT ![v] = m]
       /\ IF processor[v] \notin m THEN Set(v, "migrating") ELSE UNCHANGED pause_flags
  /\ To(a, "asked", v)
  /\ UNCHANGED <<ev, pause_count, queue, state, processor, arch, is_running, schedule_lock, softirq,
                 moved, down>>

ForceReschedule(a, v) ==
  /\ Is(a, "run") /\ Free(processor[v])
  /\ IF v \in is_running THEN Set(v, "migrating") ELSE UNCHANGED pause_flags
  /\ To(a, "asked", v)
  /\ UNCHANGED <<ev, pause_count, sched, softirq>>

\* outside the lock again: is the flag set, by whomever?
Asked(a) ==
  LET v == loc[a].v IN
  /\ Is(a, "asked")
  /\ IF "migrating" \in pause_flags[v] THEN To(a, "sleep", v) ELSE To(a, "run", Idle)
  /\ UNCHANGED <<ev, flags, sched, softirq>>

\* entry of vcpu_migrate()
Migrate(t, v) ==
  loc' = [loc EXCEPT ![t] = Local("lock1", v, processor[v], processor[v], FALSE, {})]

AskedSleep(a) ==
  /\ Is(a, "sleep")
  /\ vcpu_sleep_nosync(loc[a].v)
  /\ Migrate(a, loc[a].v)
  /\ UNCHANGED <<ev, flags, curr, place, arch, is_running, schedule_lock, moved, down>>

\* of two locks the lower is taken first
Second(l) == IF l.old < l.new THEN l.new ELSE l.old

Lock1(t) ==
  /\ Is(t, "lock1") /\ loc[t].old # loc[t].new
  /\ Take(t, First(loc[t]))
  /\ loc' = [loc EXCEPT ![t] = Local("lock2", @.v, @.old, @.new, @.picked, {})]
  /\ UNCHANGED <<ev, flags, queue, state, place, arch, is_running, softirq, moved, down>>

Retry(t, new, picked) ==
  /\ loc' = [loc EXCEPT ![t] = Local("lock1", @.v, processor[@.v], new, picked, {})]
  /\ UNCHANGED <<pause_flags, processor, urgent_count, softirq, moved>>

\* Plausible slips: the urgency stays behind; nobody wakes the vcpu.
MoveAlone(t, new) ==
  LET v == loc[t].v IN
  IF v \in is_running \/ "migrating" \notin pause_flags[v]
    THEN Done(t, softirq) /\ UNCHANGED <<pause_flags, processor, urgent_count, moved>>
    ELSE /\ Clear(v, "migrating")
         /\ processor' = [processor EXCEPT ![v] = new]
         /\ moved' = (moved \/ (Queued(v) /\ new # processor[v]))
         /\ To(t, "wake", v) /\ UNCHANGED <<urgent_count, softirq>>

MoveAsleep(t, new) ==
  LET v == loc[t].v IN
  IF v \in is_running \/ "migrating" \notin pause_flags[v]
    THEN Done(t, softirq) /\ UNCHANGED <<pause_flags, processor, urgent_count, moved>>
    ELSE /\ Clear(v, "migrating")
         /\ processor' = [processor EXCEPT ![v] = new]
         /\ moved' = (moved \/ (Queued(v) /\ new # processor[v]))
         /\ Done(t, softirq) /\ UNCHANGED urgent_count

\* It runs, or somebody else has moved it: nothing to do.  Otherwise the
\* urgency moves along.
Move(t, new) ==
  LET v == loc[t].v IN
  IF v \in is_running \/ "migrating" \notin pause_flags[v]
    THEN Done(t, softirq) /\ UNCHANGED <<pause_flags, processor, urgent_count, moved>>
    ELSE /\ Clear(v, "migrating")
         /\ processor' = [processor EXCEPT ![v] = new]
         /\ urgent_count' = IF v \in is_urgent
              THEN [c \in Cpus |-> urgent_count[c] + (IF c = new THEN 1 ELSE 0)
                                                   - (IF c = processor[v] THEN 1 ELSE 0)]
              ELSE urgent_count
         /\ moved' = (moved \/ (Queued(v) /\ new # processor[v]))
         /\ To(t, "wake", v) /\ UNCHANGED softirq

\* The last lock is taken, the loop evaluated, and the locks are dropped;
\* pick_cpu() may choose any CPU v may run on.
Locked(t) ==
  LET v == loc[t].v IN
  /\ \/ Is(t, "lock1") /\ loc[t].old = loc[t].new /\ Free(loc[t].old)
     \/ Is(t, "lock2") /\ Free(Second(loc[t]))
  /\ \/ processor[v] # loc[t].old /\ Retry(t, loc[t].new, FALSE)
     \/ /\ processor[v] = loc[t].old /\ loc[t].picked /\ loc[t].new \in cpu_affinity[v]
        /\ Move(t, loc[t].new)
     \/ /\ processor[v] = loc[t].old /\ ~(loc[t].picked /\ loc[t].new \in cpu_affinity[v])
        /\ \E n \in cpu_affinity[v] :
             IF n = loc[t].new THEN Move(t, n) ELSE Retry(t, n, TRUE)
  /\ Drop(t)
  /\ UNCHANGED <<ev, pause_count, queue, runstate, is_urgent, cpu_affinity, arch, is_running,
                 down>>

-----------------------------------------------------------------------------
\* schedule() and context_switch() on CPU c

Softirq(c) ==
  /\ Is(c, "run") /\ c \in softirq
  /\ Done(c, softirq)
  /\ UNCHANGED <<ev, flags, sched>>

\* csched_schedule(): after Requeued(), one from here, one stolen from a busy
\* CPU, or none.
Choose(c, v, q) ==
  /\ runq' = q /\ curr' = [curr EXCEPT ![c] = v]
  /\ IF v = current[c] THEN Done(c, softirq) /\ UNCHANGED schedule_lock
     ELSE Take(c, c) /\ To(c, "switch", Idle) /\ UNCHANGED softirq

\* A plausible slip: a vcpu in the tail of another CPU's switch is stolen.
MigrateableTail(v, c) == c \in cpu_affinity[v]

Migrateable(v, c) == v \notin is_running /\ c \in cpu_affinity[v]

\* BUG_ON() of __runq_insert(), and of csched_load_balance(), which is called
\* unless the priority of the local vcpu is high
InsertBug(c) ==
  /\ current[c] # Idle /\ vcpu_runnable(current[c])
  /\ Queued(current[c]) \/ processor[current[c]] # c
BalanceBug(c, q) == \E v \in q[c] : processor[v] # c

\* csched_runq_steal(): from a CPU that is busy and whose lock is free
Steal(c, q) ==
  \E d \in Cpus \ {c} : \E v \in q[d] :
    /\ Free(d) /\ curr[d] # Idle /\ Migrateable(v, c)
    /\ Choose(c, v, [q EXCEPT ![d] = @ \ {v}])
    /\ processor' = [processor EXCEPT ![v] = c]

SchedPick(c) ==
  LET q == Requeued(c) IN
  /\ Is(c, "lock") /\ Free(c)
  /\ \/ /\ InsertBug(c) \/ BalanceBug(c, q)
        /\ down' = TRUE
        /\ UNCHANGED <<queue, processor, schedule_lock, softirq, loc>>
     \/ /\ ~InsertBug(c) /\ UNCHANGED down
        /\ \/ \E v \in q[c] : Choose(c, v, [q EXCEPT ![c] = @ \ {v}]) /\ UNCHANGED processor
           \/ Steal(c, q)
           \/ q[c] = {} /\ Choose(c, Idle, q) /\ UNCHANGED processor
  /\ UNCHANGED <<ev, flags, state, cpu_affinity, arch, is_running, moved>>

\* still under the lock: the flags of the old vcpu are read once more
SchedSwitch(c) ==
  LET prev == current[c]
      next == curr[c]
      left == IF "blocked" \in pause_flags[prev] THEN "blocked"
              ELSE IF vcpu_runnable(prev) THEN "runnable" ELSE "offline"
  IN
  /\ Is(c, "switch")
  /\ RunstateChange([v \in {prev, next} \ {Idle} |-> IF v = next THEN "running" ELSE left])
  /\ is_running' = is_running \cup ({next} \ {Idle})
  /\ Drop(c)
  /\ To(c, "dirty", Idle)
  /\ UNCHANGED <<ev, flags, queue, place, arch, softirq, moved, down>>

\* A plausible slip: the other CPU is not asked to save the registers.
DirtyIgnored(c) ==
  /\ Is(c, "dirty")
  /\ To(c, "enter", Idle)
  /\ UNCHANGED <<ev, flags, sched, softirq>>

Dirty(c) ==
  LET mask == IF curr[c] = Idle THEN {} ELSE vcpu_dirty_cpumask[curr[c]] IN
  /\ Is(c, "dirty")
  /\ Flush(c, IF c \in mask THEN {} ELSE mask)
  /\ UNCHANGED <<ev, flags, sched, softirq>>

\* the interrupt of flush_tlb_mask() on CPU c: __sync_local_execstate()
InterruptsOn(c) ==
  loc[c].pc \notin {"switch", "lock2"}

\* __context_switch(): registers of one vcpu out, of another in
SwapRegisters(c, n) ==
  /\ vcpu_dirty_cpumask' = [v \in Vcpus |->
       IF v = n THEN vcpu_dirty_cpumask[v] \cup {c} ELSE vcpu_dirty_cpumask[v] \ {c}]
  /\ curr_vcpu' = [curr_vcpu EXCEPT ![c] = n]

FlushIpi(c, t) ==
  /\ Is(t, "flush") /\ c \in loc[t].mask /\ InterruptsOn(c)
  /\ Flush(t, loc[t].mask \ {c})
  /\ IF curr_vcpu[c] # current[c] THEN SwapRegisters(c, current[c])
     ELSE UNCHANGED <<vcpu_dirty_cpumask, curr_vcpu>>
  /\ UNCHANGED <<ev, flags, queue, state, place, current, is_running, schedule_lock, softirq,
                 moved, down>>

\* set_current(); the idle vcpu leaves the registers where they are
Enter(c) ==
  LET next == curr[c] IN
  /\ Is(c, "enter")
  /\ current' = [current EXCEPT ![c] = next]
  /\ IF curr_vcpu[c] = next \/ next = Idle THEN UNCHANGED <<vcpu_dirty_cpumask, curr_vcpu>>
     ELSE SwapRegisters(c, next)
  /\ To(c, "saved", current[c])
  /\ UNCHANGED <<ev, flags, queue, state, place, is_running, schedule_lock, softirq, moved, down>>

\* context_saved()
Saved(c) ==
  /\ Is(c, "saved")
  /\ is_running' = is_running \ {loc[c].v}
  /\ To(c, "tail", loc[c].v)
  /\ UNCHANGED <<ev, flags, queue, state, place, arch, schedule_lock, softirq, moved, down>>

\* A plausible slip: nobody looks whether the vcpu was to move.
TailForgets(c) ==
  /\ Is(c, "tail")
  /\ Done(c, softirq)
  /\ UNCHANGED <<ev, flags, sched>>

Tail(c) ==
  LET prev == loc[c].v IN
  /\ Is(c, "tail")
  /\ IF prev # Idle /\ "migrating" \in pause_flags[prev]
       THEN Migrate(c, prev) /\ UNCHANGED softirq
       ELSE Done(c, softirq)
  /\ UNCHANGED <<ev, flags, sched>>

-----------------------------------------------------------------------------
\* What somebody asks for: the threads are free not to.
Call ==
  /\ calls + Cardinality(Up) < MaxParties /\ calls' = calls + 1 /\ UNCHANGED polls
  /\ \/ \E a \in Agents, v \in Up :
          \/ SendUpcall(a, v) \/ SendPort(a, v) \/ PollTimer(a, v) \/ Pause(a, v)
          \/ SetAffinity(a, v) \/ ForceReschedule(a, v)
     \/ \E c \in Cpus, v \in Vcpus : Tick(c, v)

Guests ==
  /\ UNCHANGED calls
  /\ \E c \in Cpus, v \in Vcpus :
       \/ v \notin Busy /\ Blocks(c, v)
       \/ (Consume(c, v) \/ Yield(c, v)) /\ UNCHANGED polls

\* What goes on by itself.
Agent(a) ==
  \/ Pollers(a) \/ Polled(a) \/ PauseSleep(a) \/ PauseSync(a) \/ Unpause(a)
  \/ Asked(a) \/ AskedSleep(a)

Cpu(c) ==
  \/ Block(c) \/ PollAny(c) \/ PollMask(c) \/ PollEvents(c) \/ PollPort(c) \/ PollSleep(c)
  \/ PollOut(c) \/ Softirq(c) \/ SchedPick(c) \/ SchedSwitch(c) \/ Dirty(c)
  \/ Enter(c) \/ Saved(c) \/ Tail(c)

Thread(t) ==
  /\ UNCHANGED <<calls, polls>>
  /\ \/ t \in Agents /\ Agent(t)
     \/ t \in Cpus /\ Cpu(t)
     \/ Wake(t) \/ Unblock(t) \/ Unpoll(t) \/ Unmask(t) \/ Reclear(t)
     \/ Lock1(t) \/ Locked(t)
     \/ \E c \in Cpus : FlushIpi(c, t)

\* after a BUG_ON(), or until the next call
Rest ==
  /\ down \/ (softirq = {} /\ \A t \in Threads : loc[t].pc = "run")
  /\ UNCHANGED vars

Next == Call \/ Guests \/ (\E t \in Threads : Thread(t)) \/ Rest

Spec == Init /\ [][Next]_vars

\* Types.  Flags are those of v->pause_flags; a port of -1 is any, 0 none.
TypeOK ==
  /\ processor \in [Vcpus -> Cpus] /\ cpu_affinity \in [Vcpus -> (SUBSET Cpus) \ {{}}]
  /\ pause_flags \in [Vcpus -> SUBSET {"blocked", "migrating", "down"}]
  /\ pause_count \in [Vcpus -> Nat]
  /\ is_running \subseteq Vcpus /\ is_urgent \subseteq Vcpus
  /\ runstate \in [Vcpus -> {"running", "runnable", "blocked", "offline"}]
  /\ poll_evtchn \in [Vcpus -> -1 .. 1] /\ poll_mask \subseteq Vcpus
  /\ upcall \subseteq Vcpus /\ port \subseteq Vcpus
  /\ curr \in [Cpus -> Vcpus \cup {Idle}] /\ runq \in [Cpus -> SUBSET Vcpus]
  /\ schedule_lock \in [Cpus -> Threads \cup {Nobody}] /\ urgent_count \in [Cpus -> Int]
  /\ softirq \subseteq Cpus
  /\ current \in [Cpus -> Vcpus \cup {Idle}] /\ curr_vcpu \in [Cpus -> Vcpus \cup {Idle}]
  /\ vcpu_dirty_cpumask \in [Vcpus -> SUBSET Cpus]
  /\ loc \in [Threads -> Locals]
  /\ polls \subseteq Vcpus /\ moved \in BOOLEAN /\ down \in BOOLEAN

\* BUG_ON( cpu != svc->vcpu->processor ) and its like are not hit: a vcpu is on
\* the run queue of its own CPU, and once.
NoBug == ~down

-----------------------------------------------------------------------------
\* What follows is claimed as long as no vcpu was moved while it was on a run
\* queue: from then on a vcpu is protected by two locks, and so by none.

\* A vcpu is on one CPU at a time, and so are its registers.  When
\* __context_switch() loads them no other CPU has them any more, however late
\* the one it ran on last saves them.
OneCpu ==
  moved \/ \A v \in Vcpus :
    /\ Cardinality({c \in Cpus : v \in {curr[c], current[c]}}) <= 1
    /\ vcpu_dirty_cpumask[v] = {c \in Cpus : curr_vcpu[c] = v}
    /\ \A c \in Cpus :
         /\ Is(c, "enter") /\ curr[c] = v => vcpu_dirty_cpumask[v] \subseteq {c}
         /\ current[c] = v => vcpu_dirty_cpumask[v] = {c}

\* The assertions of schedule(): the vcpu that stops was running; the one that
\* starts was not, and no other CPU is in the tail of a switch from it.
SwitchAsserts ==
  moved \/ \A c \in Cpus : Is(c, "switch") =>
    /\ current[c] # Idle => runstate[current[c]] = "running" /\ current[c] \in is_running
    /\ curr[c] # Idle => runstate[curr[c]] # "running" /\ curr[c] \notin is_running

\* When vcpu_pause() returns the vcpu does not run, will not be chosen, and its
\* registers are in memory; they stay there until it is unpaused.
HeldIsSaved ==
  moved \/ \A a \in Agents : Is(a, "held") =>
    /\ loc[a].v \notin is_running /\ ~Queued(loc[a].v)
    /\ vcpu_dirty_cpumask[loc[a].v] = {}

\* The CPU on which a pausing thread waits is on its way to deschedule the vcpu.
AwaitedStops ==
  moved \/ \A a \in Agents : Is(a, "spin") /\ loc[a].v \in is_running =>
    \E c \in Cpus : /\ loc[a].v \in {curr[c], current[c], loc[c].v}
                    /\ c \in softirq \/ loc[c].pc # "run"

\* A vcpu that may run is chosen or on a run queue, or somebody is about to
\* wake it, whichever flags were set and cleared in whichever order.
NoVcpuLost ==
  moved \/ \A v \in Vcpus : vcpu_runnable(v) =>
    \/ Queued(v) \/ \E c \in Cpus : curr[c] = v
    \/ \E t \in Threads : loc[t].v = v /\ loc[t].pc \in {"unpoll", "unmask", "reclear", "wake"}

\* No CPU idles over a vcpu on its run queue without having been told.
NoWorkUnnoticed ==
  \A c \in Cpus : runq[c] # {} /\ curr[c] = Idle => c \in softirq \/ loc[c].pc = "lock"

\* A vcpu is where it may be, or marked as one to move (vcpu_set_affinity(),
\* vcpu_migrate() and stealing).
AffinityKept ==
  \A v \in Vcpus : processor[v] \in cpu_affinity[v] \/ "migrating" \in pause_flags[v]

\* Somebody will move a vcpu marked as one to move: context_saved() on the CPU
\* it runs on, or a thread in or before vcpu_migrate().
MoverAtWork ==
  moved \/ \A v \in Vcpus \ is_running : "migrating" \in pause_flags[v] =>
    \/ \E t \in Threads : loc[t].v = v /\ loc[t].pc \in {"asked", "sleep", "lock1", "lock2", "tail"}
    \/ \E c \in Cpus : curr[c] = v

\* urgent_count of a CPU is the number of its vcpus that are marked urgent.
UrgentCounted ==
  moved \/ \A c \in Cpus : urgent_count[c] = Cardinality({v \in is_urgent : processor[v] = c})

\* No wakeup is lost: a vcpu that is blocked though an event is pending has not
\* looked yet, is about to unblock itself, or is being unblocked.
EventSeen ==
  \A v \in upcall : "blocked" \in pause_flags[v] =>
    \/ \E c \in Cpus : /\ loc[c].v = v
                       /\ loc[c].pc \in {"block", "poll", "poll_mask", "poll_events", "poll_out",
                                        "poll_out2", "poll_out3"}
    \/ \E t \in Threads : loc[t].v = v /\ loc[t].pc = "unblock"

\* The same for a vcpu that polls and the port it polls, whoever else wakes it,
\* by an event or the timer, and however late that ends the poll.
PollSeen ==
  \A v \in port \cap polls : "blocked" \in pause_flags[v] =>
    \/ \E c \in Cpus : /\ loc[c].v = v
                       /\ loc[c].pc \in {"poll", "poll_mask", "poll_events", "poll_port", "poll_out",
                                        "poll_out2", "poll_out3"}
    \/ \E t \in Threads : loc[t].v = v /\ loc[t].pc \in {"pollers", "polled", "unblock", "reclear"}

=============================================================================
