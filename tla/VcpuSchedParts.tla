--------------------------- MODULE VcpuSchedParts ----------------------------
(***************************************************************************)
(* What the proofs about VcpuSched speak of: the types of its variables,   *)
(* the locals of the threads, what threads keep from one step to the next. *)
(***************************************************************************)
EXTENDS VcpuState, TLAPS

-----------------------------------------------------------------------------
\* Types, in groups

TPlace == processor \in [Vcpus -> Cpus] /\ cpu_affinity \in [Vcpus -> (SUBSET Cpus) \ {{}}]
TFlags == pause_flags \in [Vcpus -> SUBSET {"blocked", "migrating", "down"}]
TCount == pause_count \in [Vcpus -> Nat]
TEvents == /\ poll_evtchn \in [Vcpus -> -1 .. 1] /\ poll_mask \subseteq Vcpus
           /\ upcall \subseteq Vcpus /\ port \subseteq Vcpus
TQueue == curr \in [Cpus -> Vcpus \cup {Idle}] /\ runq \in [Cpus -> SUBSET Vcpus]
TState == /\ runstate \in [Vcpus -> {"running", "runnable", "blocked", "offline"}]
          /\ is_urgent \subseteq Vcpus
TUrgent == urgent_count \in [Cpus -> Int]
TArch == /\ current \in [Cpus -> Vcpus \cup {Idle}] /\ curr_vcpu \in [Cpus -> Vcpus \cup {Idle}]
         /\ vcpu_dirty_cpumask \in [Vcpus -> SUBSET Cpus]
TRest == /\ is_running \subseteq Vcpus /\ schedule_lock \in [Cpus -> Threads \cup {Nobody}]
         /\ moved \in BOOLEAN /\ down \in BOOLEAN
TLoc == loc \in [Threads -> Locals]

\* only thread t goes on
Others(t) == \A u \in Threads \ {t} : loc'[u] = loc[u]

-----------------------------------------------------------------------------
\* Locals

\* where a thread works on a vcpu
WithVcpu == {"wake", "unblock", "unpoll", "unmask", "reclear", "pollers", "polled", "block", "poll",
             "poll_mask", "poll_events", "poll_port", "poll_sleep", "poll_out", "poll_out2", "poll_out3",
             "pause", "spin", "held", "asked", "sleep", "lock1", "lock2"}

Sound(t, l) ==
  /\ l.pc \in WithVcpu \/ (t \in Agents /\ l.pc = "flush") => l.v \in Vcpus
  /\ l.pc \in {"lock1", "lock2"} => l.old \in Cpus /\ l.new \in Cpus
  /\ l.pc = "lock2" => l.old # l.new

Carries == \A t \in Threads : Sound(t, loc[t])

\* where the invariant says something about the thread
Pausing == {"pause", "spin", "flush", "held"}
Turning == {"switch", "dirty", "flush", "enter"}
Marked == Pausing \cup Turning \cup {"saved", "lock2"}

\* a step of t from one place to another of which it says nothing
Plain(t) ==
  Others(t) /\ TLoc' /\ Sound(t, loc'[t]) /\ loc[t].pc \notin Marked /\ loc'[t].pc \notin Marked

PlainLight(t) == Plain(t) /\ UNCHANGED pause_count /\ softirq' \subseteq Cpus

\* no vcpu starts or stops running
SameRunning == \A x \in Vcpus : runstate'[x] = "running" <=> runstate[x] = "running"

-----------------------------------------------------------------------------
\* What threads keep from one step to the next

\* A lock that a thread has from one step to the next.
Holds ==
  /\ \A c \in Cpus : loc[c].pc = "switch" => schedule_lock[c] = c
  /\ \A t \in Threads : loc[t].pc = "lock2" => schedule_lock[First(loc[t])] = t

\* Between vcpu_pause() and vcpu_unpause() the vcpu has a pause_count.
Paused == \A a \in Agents : loc[a].pc \in Pausing => pause_count[loc[a].v] \in Nat \ {0}

(* What csched_schedule() chose: v from queue s, for CPU c.                *)
Chosen(c, v, s) ==
  /\ (v # Idle => v \in Requeued(c)[s]) /\ (v = Idle => Requeued(c)[c] = {})
  /\ runq' = [Requeued(c) EXCEPT ![s] = @ \ {v}] /\ curr' = [curr EXCEPT ![c] = v]
  /\ \/ s = c /\ UNCHANGED processor
     \/ /\ s # c /\ Free(s) /\ v \in Vcpus \ is_running /\ c \in cpu_affinity[v]
        /\ processor' = [processor EXCEPT ![v] = c]
  /\ \/ v = current[c] /\ Plain(c) /\ UNCHANGED schedule_lock
     \/ v # current[c] /\ Take(c, c) /\ loc'[c].pc = "switch"
  /\ TLoc' /\ Others(c) /\ Sound(c, loc'[c]) /\ loc'[c].pc \in {"run", "lock", "switch"} /\ UNCHANGED down
  /\ softirq' \subseteq Cpus /\ softirq \ {c} \subseteq softirq'

-----------------------------------------------------------------------------
\* The core of the invariant

\* A vcpu is chosen, current, queued or put away on its own CPU only, and the
\* one chosen is not queued.
Placed ==
  \A c \in Cpus :
    /\ loc[c].pc \in Turning <=> curr[c] # current[c]
    /\ curr[c] # Idle => processor[curr[c]] = c
    /\ current[c] # Idle => processor[current[c]] = c
    /\ loc[c].pc = "saved" /\ loc[c].v # Idle => processor[loc[c].v] = c /\ loc[c].v # curr[c]
    /\ \A v \in runq[c] : processor[v] = c /\ v # curr[c]

\* is_running: from the switch to it until context_saved()
OnCpu(v, c) ==
  \/ current[c] = v
  \/ curr[c] = v /\ loc[c].pc # "switch"
  \/ loc[c].pc = "saved" /\ loc[c].v = v
Runs == \A v \in Vcpus : v \in is_running <=> OnCpu(v, processor[v])

\* runstate: from the switch to it until the switch from it
Charged(c) == IF loc[c].pc = "switch" THEN current[c] ELSE curr[c]
Accounted == \A v \in Vcpus : runstate[v] = "running" <=> v = Charged(processor[v])

\* Registers are on one CPU, vcpu_dirty_cpumask says which, and a CPU that
\* waits for them knows it.
Loaded(v) == {c \in Cpus : curr_vcpu[c] = v}
Registers ==
  /\ \A v \in Vcpus : vcpu_dirty_cpumask[v] = Loaded(v)
  /\ \A c, d \in Cpus : curr_vcpu[c] = curr_vcpu[d] /\ curr_vcpu[c] # Idle => c = d
  /\ \A c \in Cpus :
       /\ curr_vcpu[c] = current[c] \/ current[c] = Idle
       /\ loc[c].pc = "flush" =>
            curr[c] # Idle /\ Loaded(curr[c]) \subseteq loc[c].mask /\ c \notin loc[c].mask
       /\ loc[c].pc = "enter" /\ curr[c] # Idle => Loaded(curr[c]) \subseteq {c}

\* A paused vcpu: off the queues and not about to run, then off the CPU, then
\* out of the registers.
Off(a) ==
  LET v == loc[a].v IN
  /\ loc[a].pc \in {"spin", "flush", "held"} =>
       ~Queued(v) /\ \A c \in Cpus : curr[c] = v => loc[c].pc # "switch"
  /\ loc[a].pc \in {"flush", "held"} => v \notin is_running
  /\ loc[a].pc = "flush" => Loaded(v) \subseteq loc[a].mask
  /\ loc[a].pc = "held" => Loaded(v) = {}
AllOff == \A a \in Agents : Off(a)

Core == Placed /\ Runs /\ Accounted /\ Registers /\ AllOff

\* What else the steps below rest on
Sane == TLoc /\ TPlace /\ TQueue /\ TState /\ TArch /\ TRest /\ Carries /\ Holds /\ Paused

\* where an agent has seen that the vcpu is, or will be, off the CPUs
Stopping == {"spin", "flush", "held"}

-----------------------------------------------------------------------------
\* What steps do, as far as the core is concerned

(* nothing; an agent may begin or end to pause a vcpu                      *)
PlainDoes(t) ==
  /\ Plain(t) /\ SameRunning /\ UNCHANGED <<processor, is_running, curr, arch>>
  /\ \A c \in Cpus : runq'[c] \subseteq runq[c]

AwayDoes(a) ==
  /\ Others(a) /\ loc'[a].pc \notin Stopping
  /\ SameRunning /\ UNCHANGED <<processor, is_running, curr, runq, arch>>

(* context_switch() reads who has the registers of the next vcpu.          *)
DirtyDoes(c) ==
  /\ loc[c].pc = "dirty" /\ Others(c) /\ UNCHANGED sched
  /\ \E mask \in SUBSET Cpus :
       /\ mask = IF curr[c] = Idle THEN {} ELSE vcpu_dirty_cpumask[curr[c]]
       /\ \/ loc'[c].pc = "enter" /\ (c \in mask \/ mask = {})
          \/ loc'[c].pc = "flush" /\ c \notin mask /\ mask # {} /\ loc'[c].mask = mask

(* vcpu_sleep_sync() has waited for the vcpu, and turns to its registers.  *)
PauseSyncDoes(a) ==
  /\ loc[a].pc = "spin" /\ loc[a].v \in Vcpus /\ loc'[a].v = loc[a].v /\ Others(a)
  /\ vcpu_runnable(loc[a].v) \/ loc[a].v \notin is_running
  /\ \/ loc'[a].pc = "held" /\ vcpu_dirty_cpumask[loc[a].v] = {}
     \/ loc'[a].pc = "flush" /\ loc'[a].mask = vcpu_dirty_cpumask[loc[a].v]
  /\ UNCHANGED <<processor, is_running, curr, arch, runq, runstate, vcpu_dirty_cpumask, curr_vcpu>>

(* vcpu_wake() queues a vcpu that can run.                                 *)
WakeDoes(t) ==
  /\ loc[t].v \in Vcpus /\ Plain(t) /\ SameRunning
  /\ UNCHANGED <<processor, is_running, curr, arch>>
  /\ \/ UNCHANGED runq
     \/ /\ vcpu_runnable(loc[t].v) /\ curr[processor[loc[t].v]] # loc[t].v
        /\ runq' = [runq EXCEPT ![processor[loc[t].v]] = @ \cup {loc[t].v}]

(* vcpu_sleep_nosync() takes a paused vcpu from its queue.                 *)
PauseSleepDoes(a) ==
  /\ loc[a].v \in Vcpus /\ loc[a].pc = "pause" /\ loc'[a].pc = "spin" /\ loc'[a].v = loc[a].v
  /\ Others(a) /\ UNCHANGED <<curr, processor, arch, is_running>>
  /\ SameRunning /\ Free(processor[loc[a].v]) /\ \A c \in Cpus : runq'[c] \subseteq runq[c]
  /\ \/ vcpu_runnable(loc[a].v) \/ curr[processor[loc[a].v]] = loc[a].v
     \/ \A c \in Cpus : loc[a].v \notin runq'[c]

(* vcpu_migrate() takes the first of two locks.                            *)
Lock1Does(t) ==
  /\ loc[t].pc = "lock1" /\ loc'[t].pc = "lock2" /\ Others(t)
  /\ UNCHANGED <<processor, is_running, curr, runq, arch, runstate>>

(* vcpu_migrate() has its locks: it moves the vcpu, or gives up.           *)
LockedDoes(t) ==
  /\ loc[t].v \in Vcpus /\ loc[t].pc \in {"lock1", "lock2"} /\ loc'[t].pc \notin Marked /\ Others(t)
  /\ UNCHANGED <<curr, runq, runstate, arch, is_running>>
  /\ \/ UNCHANGED processor
     \/ \E new \in cpu_affinity[loc[t].v] :
          /\ loc[t].v \notin is_running /\ schedule_lock[processor[loc[t].v]] \in {Nobody, t}
          /\ processor' = [processor EXCEPT ![loc[t].v] = new]
          /\ moved' = (moved \/ (Queued(loc[t].v) /\ new # processor[loc[t].v]))

(* context_saved() lets the previous vcpu go.                              *)
SavedDoes(c) ==
  /\ loc[c].pc = "saved" /\ loc'[c].pc = "tail" /\ Others(c) /\ is_running' = is_running \ {loc[c].v}
  /\ UNCHANGED <<processor, curr, runq, arch, runstate>>

(* schedule() turns from one vcpu to the next.                             *)
SwitchDoes(c) ==
  /\ loc[c].pc = "switch" /\ loc'[c].pc = "dirty" /\ Others(c)
  /\ is_running' = is_running \cup ({curr[c]} \ {Idle})
  /\ \A x \in Vcpus : runstate'[x] = "running" <=> x = curr[c] \/ (x # current[c] /\ runstate[x] = "running")
  /\ UNCHANGED <<processor, curr, runq, arch>>

(* The registers of n come to CPU c, those of another vcpu leave it.       *)
Swaps(c, n) ==
  /\ \A v \in Vcpus : vcpu_dirty_cpumask'[v] = IF v = n THEN vcpu_dirty_cpumask[v] \cup {c}
                                               ELSE vcpu_dirty_cpumask[v] \ {c}
  /\ curr_vcpu'[c] = n /\ \A d \in Cpus \ {c} : curr_vcpu'[d] = curr_vcpu[d]

(* context_switch() makes the next vcpu current, and loads it.             *)
EnterDoes(c) ==
  /\ loc[c].pc = "enter" /\ loc'[c].pc = "saved" /\ loc'[c].v = current[c] /\ Others(c)
  /\ current' = [current EXCEPT ![c] = curr[c]]
  /\ UNCHANGED <<processor, curr, runq, runstate, is_running>>
  /\ \/ UNCHANGED <<vcpu_dirty_cpumask, curr_vcpu>> /\ (curr_vcpu[c] = curr[c] \/ curr[c] = Idle)
     \/ curr[c] # Idle /\ Swaps(c, curr[c])

(* CPU c answers thread t: it saves the registers it no longer uses.       *)
FlushIpiDoes(c, t) ==
  /\ loc[t].pc = "flush" /\ c \in loc[t].mask /\ Others(t)
  /\ loc'[t].v = loc[t].v /\ loc'[t].mask = loc[t].mask \ {c}
  /\ loc'[t].pc = "flush" \/ (loc'[t].mask = {} /\ loc'[t].pc = Flushed(t))
  /\ UNCHANGED <<processor, curr, runq, runstate, current, is_running>>
  /\ \/ curr_vcpu[c] = current[c] /\ UNCHANGED <<vcpu_dirty_cpumask, curr_vcpu>>
     \/ curr_vcpu[c] # current[c] /\ Swaps(c, current[c])

(* The current vcpu, if it can run, is back in its queue.                  *)
Requeues(c) ==
  /\ Requeued(c) \in [Cpus -> SUBSET Vcpus]
  /\ \A d \in Cpus \ {c} : Requeued(c)[d] = runq[d]
  /\ \/ Requeued(c)[c] = runq[c] /\ ~(current[c] \in Vcpus /\ vcpu_runnable(current[c]))
     \/ /\ current[c] \in Vcpus /\ vcpu_runnable(current[c])
        /\ Requeued(c)[c] = runq[c] \cup {current[c]}

(* csched_schedule() chooses the next vcpu, from its queue or another.     *)
PickDoes(c) ==
  /\ loc[c].pc = "lock" /\ UNCHANGED <<runstate, arch, current, curr_vcpu, vcpu_dirty_cpumask, is_running>>
  /\ \/ UNCHANGED <<curr, runq, processor, softirq, loc>>
     \/ \E v \in Vcpus \cup {Idle}, s \in Cpus : Chosen(c, v, s)

Does ==
  \/ \E t \in Threads : PlainDoes(t) \/ WakeDoes(t) \/ Lock1Does(t) \/ LockedDoes(t)
  \/ \E a \in Agents : AwayDoes(a) \/ PauseSyncDoes(a) \/ PauseSleepDoes(a)
  \/ \E c \in Cpus :
       \/ DirtyDoes(c) \/ (Requeues(c) /\ PickDoes(c)) \/ SwitchDoes(c) \/ EnterDoes(c) \/ SavedDoes(c)
       \/ \E t \in Threads : FlushIpiDoes(c, t)

-----------------------------------------------------------------------------
\* The rest of the invariant: for whatever is still to be done there is a
\* thread that has yet to do it.

\* CPU c will schedule.
Told(c) == c \in softirq \/ loc[c].pc = "lock"
Noticed == \A c \in Cpus : runq[c] # {} /\ curr[c] = Idle => Told(c)
SpinTold == \A a \in Agents, c \in Cpus : loc[a].pc = "spin" /\ curr[c] = loc[a].v => Told(c)

\* An event: thread t has yet to look for it, or ends the block.
Looking == {"block", "poll", "poll_mask", "poll_events", "poll_out", "poll_out2", "poll_out3"}
Looks(t, v) == loc[t].v = v /\ (loc[t].pc = "unblock" \/ (t \in Cpus /\ loc[t].pc \in Looking))
Seen == \A v \in upcall : "blocked" \in pause_flags[v] => \E t \in Threads : Looks(t, v)

\* The same for a port, which a sender tells of by way of poll_mask: a vcpu
\* that is blocked in a poll and not in poll_mask is at the begin or end of it.
Polling1 == {"poll", "poll_mask", "poll_events", "poll_port", "poll_out", "poll_out2", "poll_out3"}
Polls(t, v) ==
  /\ loc[t].v = v
  /\ loc[t].pc \in {"pollers", "polled", "unblock", "reclear"} \/ (t \in Cpus /\ loc[t].pc \in Polling1)
PortSeen == \A v \in port \cap polls : "blocked" \in pause_flags[v] => \E t \in Threads : Polls(t, v)
Unmasks(t, v) ==
  /\ loc[t].v = v
  /\ \/ loc[t].pc \in {"polled", "unblock", "reclear"}
     \/ t \in Cpus /\ loc[t].pc \in {"poll", "poll_mask", "poll_out3"}
MaskSeen == \A v \in polls \ poll_mask : "blocked" \in pause_flags[v] => \E t \in Threads : Unmasks(t, v)

\* A vcpu marked as one to move
Moves(t, v) == loc[t].v = v /\ loc[t].pc \in {"asked", "sleep", "lock1", "lock2", "tail"}
AtWork ==
  \A v \in Vcpus \ is_running : "migrating" \in pause_flags[v] =>
    (\E t \in Threads : Moves(t, v)) \/ \E c \in Cpus : curr[c] = v

\* A vcpu that may run; one that is in do_block() or do_poll() is still chosen.
Wakes(t, v) == loc[t].v = v /\ loc[t].pc \in {"unpoll", "unmask", "reclear", "wake"}
Has(v) == Queued(v) \/ \E c \in Cpus : curr[c] = v
NotLost == \A v \in Vcpus : vcpu_runnable(v) => Has(v) \/ \E t \in Threads : Wakes(t, v)
Calling == {"block", "poll", "poll_mask", "poll_events", "poll_port", "poll_sleep", "poll_out", "poll_out2",
            "poll_out3"}
InCall == \A c \in Cpus : loc[c].pc \in Calling => curr[c] = loc[c].v

-----------------------------------------------------------------------------
\* What light steps do, as far as this is concerned

Goes(t, from, to, v) == Others(t) /\ loc[t].pc = from /\ loc'[t].pc = to /\ loc'[t].v = v
Ends(t, from) == Others(t) /\ loc[t].pc = from /\ loc'[t].pc \in {"run", "lock"} /\ loc'[t].v = Idle
Gains(v, f) == \A x \in Vcpus : pause_flags'[x] = IF x = v THEN pause_flags[x] \cup {f} ELSE pause_flags[x]
Loses(v, f) == \A x \in Vcpus : pause_flags'[x] = IF x = v THEN pause_flags[x] \ {f} ELSE pause_flags[x]
StaysTold == \A c \in Cpus : Told(c) => Told(c)'
Calm == UNCHANGED <<upcall, port, poll_mask, pause_flags, pause_count>>

(* An agent begins, for vcpu v.                                            *)
BeginsDoes(t, v) ==
  \/ /\ Goes(t, "run", "unblock", v) /\ upcall' = upcall \cup {v}
     /\ UNCHANGED <<port, poll_mask, pause_flags, pause_count>>
  \/ /\ Goes(t, "run", "pollers", v) /\ port' = port \cup {v}
     /\ UNCHANGED <<upcall, poll_mask, pause_flags, pause_count>>
  \/ /\ Goes(t, "run", "unblock", v) /\ poll_mask' = poll_mask \ {v}
     /\ UNCHANGED <<upcall, port, pause_flags, pause_count>>
  \/ /\ Goes(t, "run", "pause", v) /\ \A x \in Vcpus : pause_count'[x] = 0 => pause_count[x] = 0
     /\ UNCHANGED <<upcall, port, poll_mask, pause_flags>>
  \/ /\ Goes(t, "run", "asked", v) /\ (Gains(v, "migrating") \/ UNCHANGED pause_flags)
     /\ UNCHANGED <<upcall, port, poll_mask, pause_count>>

(* An agent goes on, with vcpu v.                                          *)
AgentDoes(t, v) ==
  \/ /\ poll_mask' = poll_mask \ {v} /\ UNCHANGED <<upcall, port, pause_flags, pause_count>>
     /\ \/ v \in poll_mask /\ Goes(t, "pollers", "polled", v)
        \/ v \notin poll_mask /\ Ends(t, "pollers")
  \/ Goes(t, "polled", "unblock", v) /\ Calm
  \/ (Goes(t, "spin", "flush", v) \/ Goes(t, "spin", "held", v)) /\ Calm
  \/ /\ UNCHANGED <<upcall, port, poll_mask, pause_flags>>
     /\ \A x \in Vcpus : pause_count'[x] = IF x = v THEN pause_count[x] - 1 ELSE pause_count[x]
     /\ \/ Goes(t, "held", "wake", v)
        \/ pause_count[v] # 1 /\ Ends(t, "held")
  \/ Calm /\ \/ Goes(t, "asked", "sleep", v)
             \/ "migrating" \notin pause_flags[v] /\ Ends(t, "asked")

(* The vcpu v that is current on CPU t                                     *)
GuestDoes(t, v) ==
  \/ /\ Ends(t, "run") \/ Ends(t, "lock")
     /\ Gains(v, "migrating") /\ UNCHANGED <<upcall, port, poll_mask, pause_count>>
  \/ upcall' = upcall \ {v} /\ port' = port \ {v} /\ UNCHANGED <<loc, poll_mask, pause_flags, pause_count>>

BlocksDoes(t, v) ==
  /\ Gains(v, "blocked") /\ UNCHANGED <<upcall, port, poll_mask, pause_count>>
  /\ \/ Goes(t, "run", "block", v) /\ polls' = polls \ {v}
     \/ Goes(t, "run", "poll", v) /\ polls' = polls \cup {v}

(* do_block() and do_poll() of v                                           *)
BlockDoes(t, v) ==
  \/ /\ Ends(t, "block") /\ UNCHANGED <<upcall, port, poll_mask, pause_count>>
     /\ Loses(v, "blocked") \/ (v \notin upcall /\ UNCHANGED pause_flags)
  \/ Goes(t, "poll", "poll_mask", v) /\ Calm
  \/ /\ Goes(t, "poll_mask", "poll_events", v) /\ poll_mask' = poll_mask \cup {v}
     /\ UNCHANGED <<upcall, port, pause_flags, pause_count>>
  \/ Calm /\ \/ Goes(t, "poll_events", "poll_out", v)
             \/ Goes(t, "poll_events", "poll_port", v) /\ v \notin upcall
             \/ Goes(t, "poll_port", "poll_out", v)
             \/ Goes(t, "poll_port", "poll_sleep", v) /\ v \notin port
             \/ Ends(t, "poll_sleep")
             \/ Goes(t, "poll_out", "poll_out2", v)
  \/ /\ Goes(t, "poll_out2", "poll_out3", v) /\ poll_mask' = poll_mask \ {v}
     /\ UNCHANGED <<upcall, port, pause_flags, pause_count>>
  \/ /\ Ends(t, "poll_out3") /\ Loses(v, "blocked") /\ UNCHANGED <<upcall, port, poll_mask, pause_count>>

(* vcpu_unblock() of v                                                     *)
UnblockDoes(t, v) ==
  \/ /\ Loses(v, "blocked") /\ UNCHANGED <<upcall, port, poll_mask, pause_count>>
     /\ \/ Goes(t, "unblock", "unpoll", v)
        \/ "blocked" \notin pause_flags[v] /\ Ends(t, "unblock")
        \/ Goes(t, "reclear", "wake", v)
  \/ Calm /\ (Goes(t, "unpoll", "unmask", v) \/ Goes(t, "unpoll", "wake", v))
  \/ /\ poll_mask' = poll_mask \ {v} /\ UNCHANGED <<upcall, port, pause_flags, pause_count>>
     /\ \/ v \in poll_mask /\ Goes(t, "unmask", "reclear", v)
        \/ v \notin poll_mask /\ Goes(t, "unmask", "wake", v)

(* CPU t in schedule(), with vcpu v, or the idle one                       *)
CpuDoes(t, v) ==
  Calm /\ \/ Ends(t, "run")
          \/ Goes(t, "dirty", "flush", v) \/ Goes(t, "dirty", "enter", v)
          \/ Goes(t, "tail", "lock1", v)
          \/ (v = Idle \/ "migrating" \notin pause_flags[v]) /\ Ends(t, "tail")

Stirs ==
  /\ StaysTold
  /\ \/ \E t \in Agents, v \in Vcpus : BeginsDoes(t, v) \/ (v = loc[t].v /\ AgentDoes(t, v))
     \/ \E t \in Cpus, v \in Vcpus : /\ v = current[t] /\ loc[t].pc \in {"run", "lock"}
                                     /\ GuestDoes(t, v) \/ BlocksDoes(t, v)
     \/ \E t \in Cpus, v \in Vcpus : v = loc[t].v /\ BlockDoes(t, v)
     \/ \E t \in Threads, v \in Vcpus : v = loc[t].v /\ UnblockDoes(t, v)
     \/ \E t \in Cpus, v \in Vcpus \cup {Idle} : v = loc[t].v /\ CpuDoes(t, v)

-----------------------------------------------------------------------------
\* What heavy steps do, as far as this is concerned

SameFlags == UNCHANGED <<pause_flags, pause_count>>
SamePlaces == UNCHANGED <<curr, runq, is_running>>

(* vcpu_sleep_nosync() takes v from the queues, or tells its CPU.          *)
SleepDoes(v) ==
  /\ SameFlags /\ UNCHANGED <<curr, is_running>>
  /\ \A c \in Cpus : runq'[c] \subseteq runq[c] /\ \A x \in runq[c] : x \in runq'[c] \/ (x = v /\ ~vcpu_runnable(v))
  /\ ~vcpu_runnable(v) /\ curr[processor[v]] = v => processor[v] \in softirq'

AsksDoes(t, v) ==
  /\ Goes(t, "run", "asked", v) /\ SamePlaces /\ UNCHANGED pause_count
  /\ Gains(v, "migrating") \/ UNCHANGED pause_flags

SleepsDoes(t, v) == (Goes(t, "pause", "spin", v) \/ Goes(t, "sleep", "lock1", v)) /\ SleepDoes(v)

(* vcpu_wake() queues v if it may run, and tells a CPU that idles.         *)
WakesDoes(t, v) ==
  /\ Ends(t, "wake") /\ SameFlags /\ UNCHANGED <<curr, is_running>>
  /\ \A c \in Cpus : runq[c] \subseteq runq'[c] /\ (runq'[c] = runq[c] \/ curr[c] # Idle \/ Told(c)')
  /\ vcpu_runnable(v) => Queued(v)' \/ \E c \in Cpus : curr[c] = v

(* vcpu_migrate() takes a lock, starts over, finds nothing to do or moves v. *)
MigratesDoes(t, v) ==
  /\ SamePlaces /\ UNCHANGED pause_count
  /\ \/ Goes(t, "lock1", "lock2", v) /\ UNCHANGED pause_flags
     \/ \E from \in {"lock1", "lock2"} :
          \/ Goes(t, from, "lock1", v) /\ UNCHANGED pause_flags
          \/ Ends(t, from) /\ (v \in is_running \/ "migrating" \notin pause_flags[v]) /\ UNCHANGED pause_flags
          \/ Goes(t, from, "wake", v) /\ Loses(v, "migrating")

(* schedule() once it has chosen; the flush that it or vcpu_pause() awaits *)
SwitchesDoes(t) ==
  /\ Others(t) /\ SameFlags /\ UNCHANGED <<curr, runq>> /\ is_running \subseteq is_running'
  /\ loc[t].pc \in {"switch", "enter", "flush"} /\ loc'[t].pc \in {"dirty", "saved", "flush", "enter", "held"}

SavesDoes(c, v) ==
  Goes(c, "saved", "tail", v) /\ SameFlags /\ UNCHANGED <<curr, runq>> /\ is_running' = is_running \ {v}

Toils ==
  /\ StaysTold
  /\ \/ \E t \in Agents, v \in Vcpus : AsksDoes(t, v) \/ (v = loc[t].v /\ SleepsDoes(t, v))
     \/ \E t \in Threads, v \in Vcpus : v = loc[t].v /\ (WakesDoes(t, v) \/ MigratesDoes(t, v))
     \/ \E t \in Threads : SwitchesDoes(t)
     \/ \E c \in Cpus, v \in Vcpus \cup {Idle} : v = loc[c].v /\ SavesDoes(c, v)

Picks(c) == Requeues(c) /\ PickDoes(c) /\ SameFlags

-----------------------------------------------------------------------------
\* Run states and urgency

\* v was chosen, and the switch to it is yet to come.
Taken(v) == \E c \in Cpus : curr[c] = v /\ loc[c].pc = "switch"

Ledger ==
  \A v \in Vcpus :
    /\ "blocked" \in pause_flags[v] => runstate[v] \in {"running", "blocked"} /\ ~Queued(v) /\ ~Taken(v)
    /\ v \in is_urgent => runstate[v] = "blocked"
    /\ Queued(v) => runstate[v] # "blocked"

SameCharge == UNCHANGED <<runstate, is_urgent>>
Recharges(D) ==
  \A x \in Vcpus : /\ x \notin D => runstate'[x] = runstate[x]
                   /\ x \in is_urgent' <=> IF x \in D THEN Polling(x) ELSE x \in is_urgent

SleepCharges(v) ==
  /\ Toils /\ SleepDoes(v)
  /\ SameCharge \/ (Recharges({v}) /\ runstate[v] = "runnable" /\ runstate'[v] = "offline")

WakeCharges(v) ==
  /\ Toils /\ SameFlags /\ UNCHANGED curr
  /\ \A c \in Cpus : \A x \in runq'[c] : x \in runq[c] \/ (x = v /\ vcpu_runnable(v))
  /\ \/ SameCharge /\ (vcpu_runnable(v) => runstate[v] # "blocked")
     \/ Recharges({v}) /\ "blocked" \notin pause_flags[v] /\ runstate'[v] \in {"runnable", "offline"}

SwitchCharges(c) ==
  /\ loc[c].pc = "switch" /\ loc'[c].pc = "dirty" /\ Others(c) /\ SameFlags /\ UNCHANGED <<curr, runq>>
  /\ Recharges({current[c], curr[c]} \ {Idle})
  /\ \A x \in {current[c], curr[c]} \ {Idle} :
       IF x = curr[c] THEN runstate'[x] = "running" ELSE runstate'[x] = "blocked" <=> "blocked" \in pause_flags[x]

Charges ==
  \/ SameCharge /\ \/ \E c \in Cpus : Picks(c)
                   \/ UNCHANGED <<curr, runq>> /\ (Stirs \/ Toils)
  \/ \E v \in Vcpus : SleepCharges(v) \/ WakeCharges(v)
  \/ \E c \in Cpus : SwitchCharges(c)

-----------------------------------------------------------------------------
\* Counting: pause_count of the agents between vcpu_pause() and vcpu_unpause(),
\* urgent_count of the vcpus on a CPU that are marked urgent

Pauses(v) == {a \in Agents : loc[a].pc \in Pausing /\ loc[a].v = v}
Counted == \A v \in Vcpus : pause_count[v] = Cardinality(Pauses(v))

UrgentOn(c) == {v \in is_urgent : processor[v] = c}
Tallied == IsFiniteSet(is_urgent) /\ \A c \in Cpus : urgent_count[c] = Cardinality(UrgentOn(c))

\* Steps of t that leave its pausing as it is
KeepsPause(t) ==
  /\ Others(t) /\ UNCHANGED pause_count
  /\ t \in Agents => /\ loc'[t].pc \in Pausing <=> loc[t].pc \in Pausing
                     /\ loc[t].pc \in Pausing => loc'[t].v = loc[t].v

\* The urgency of the vcpus of D is looked at again.
Recounts(D) ==
  LET more == {v \in D : Polling(v)} \ is_urgent
      less == {v \in D : ~Polling(v)} \cap is_urgent
      On(s, c) == Cardinality({v \in s : processor[v] = c})
  IN  /\ is_urgent' = (is_urgent \cup more) \ less
      /\ urgent_count' = [c \in Cpus |-> urgent_count[c] + On(more, c) - On(less, c)]

\* The urgency of v goes along to CPU n.
UrgencyMoves(v, n) ==
  urgent_count' = IF v \in is_urgent
    THEN [c \in Cpus |-> urgent_count[c] + (IF c = n THEN 1 ELSE 0) - (IF c = processor[v] THEN 1 ELSE 0)]
    ELSE urgent_count

Tallies ==
  \/ UNCHANGED <<is_urgent, urgent_count, processor>>
  \/ UNCHANGED processor /\ \E x, y : \E D \in SUBSET {x, y} : Recounts(D)
  \/ /\ UNCHANGED is_urgent
     /\ \E v \in Vcpus, n \in Cpus : processor' = [processor EXCEPT ![v] = n] /\ UrgencyMoves(v, n)
  \/ UNCHANGED <<is_urgent, urgent_count>> /\ \E c \in Cpus : Picks(c)

-----------------------------------------------------------------------------
\* Whatever is still to be done, somebody is about to do.

Noted == Seen /\ PortSeen /\ MaskSeen /\ Noticed
Pending == SpinTold /\ AtWork /\ NotLost /\ InCall /\ Ledger
=============================================================================
