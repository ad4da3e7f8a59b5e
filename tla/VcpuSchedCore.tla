--------------------------- MODULE VcpuSchedCore -----------------------------
(***************************************************************************)
(* The core of the scheduler's invariant, for any number of CPUs, vcpus    *)
(* and agents: where a vcpu is chosen, runs and is loaded, and that a      *)
(* paused one is not.  Every step keeps it until a queued vcpu is moved.   *)
(***************************************************************************)
EXTENDS VcpuSchedParts

USE ZenonT(90)

LEMMA PauseIsCounted ==
  ASSUME Paused, NEW a \in Agents, loc[a].pc \in Pausing
  PROVE  pause_count[loc[a].v] \in Nat \ {0} /\ ~vcpu_runnable(loc[a].v)
BY DEF Paused, vcpu_runnable

-----------------------------------------------------------------------------
\* The core: steps that leave the switching of CPUs alone

LEMMA StutterCore ==
  ASSUME Core, UNCHANGED <<processor, curr, runq, loc, runstate, is_running>>,
         UNCHANGED <<current, curr_vcpu, vcpu_dirty_cpumask>>
  PROVE  Core'
<1>1. Placed' /\ Accounted'
  BY DEF Core, Placed, Accounted, Charged
<1>2. Runs'
  BY DEF Core, Runs, OnCpu
<1>3. Registers'
  BY DEF Core, Registers, Loaded
<1>4. AllOff'
  BY DEF Core, AllOff, Off, Loaded, Queued
<1> QED
  BY <1>1, <1>2, <1>3, <1>4 DEF Core

\* CPU c does not go on, or from one place to another of the same kind.
Stays(c) ==
  \/ loc'[c] = loc[c]
  \/ /\ loc[c].pc \notin {"switch", "saved"} /\ loc'[c].pc \notin {"switch", "saved"}
     /\ loc[c].pc \in Turning <=> loc'[c].pc \in Turning

LEMMA StayCore ==
  ASSUME TPlace, Placed, Runs, Accounted, UNCHANGED <<processor, is_running, curr, current>>, SameRunning,
         \A c \in Cpus : Stays(c),
         \A c \in Cpus : \A v \in runq'[c] : v \in runq[c] \/ (processor[v] = c /\ v # curr[c])
  PROVE  Placed' /\ Runs' /\ Accounted'
<1>1. Placed'
  <2> SUFFICES ASSUME NEW c \in Cpus
               PROVE  /\ loc'[c].pc \in Turning <=> curr[c] # current[c]
                      /\ curr[c] # Idle => processor[curr[c]] = c
                      /\ current[c] # Idle => processor[current[c]] = c
                      /\ loc'[c].pc = "saved" /\ loc'[c].v # Idle =>
                           processor[loc'[c].v] = c /\ loc'[c].v # curr[c]
                      /\ \A v \in runq'[c] : processor[v] = c /\ v # curr[c]
    BY DEF Placed
  <2>1. Stays(c)
    OBVIOUS
  <2> QED
    BY <2>1, SMT DEF Placed, Stays
<1>2. \A v \in Vcpus, c \in Cpus : OnCpu(v, c)' <=> OnCpu(v, c)
  BY DEF OnCpu, Stays
<1>3. Runs'
  BY <1>2 DEF Runs, TPlace
<1>4. \A c \in Cpus : Charged(c)' = Charged(c)
  BY DEF Charged, Stays
<1>5. Accounted'
  BY <1>4 DEF Accounted, SameRunning, TPlace
<1> QED
  BY <1>1, <1>3, <1>5

LEMMA StayRegisters ==
  ASSUME Registers, UNCHANGED <<curr, arch>>,
         \A c \in Cpus : loc'[c] = loc[c] \/ loc'[c].pc \notin {"flush", "enter"}
  PROVE  Registers'
<1>1. \A v : Loaded(v)' = Loaded(v)
  BY DEF Loaded, arch
<1> QED
  BY <1>1 DEF Registers, arch

\* What could disturb an agent that does not go on
LEMMA OffFrame ==
  ASSUME NEW a \in Agents, Off(a),
         \/ loc'[a].pc \notin Stopping
         \/ /\ loc'[a] = loc[a]
            /\ \A c \in Cpus : loc[a].v \in runq'[c] => Queued(loc[a].v)
            /\ \A c \in Cpus : curr'[c] = loc[a].v /\ loc'[c].pc = "switch" => curr[c] = loc[a].v /\ loc[c].pc = "switch"
            /\ loc[a].v \in is_running' => loc[a].v \in is_running
            /\ loc[a].pc \in {"flush", "held"} =>
                 \A c \in Cpus : curr_vcpu'[c] = loc[a].v => curr_vcpu[c] = loc[a].v
  PROVE  Off(a)'
<1>1. CASE loc'[a].pc \notin Stopping
  BY <1>1 DEF Off, Stopping
<1>2. CASE loc'[a] = loc[a] /\ loc[a].pc \in Stopping
  <2>0. PICK v : v = loc[a].v /\ v = loc'[a].v
    BY <1>2
  <2>1. ~Queued(v) /\ \A c \in Cpus : curr[c] = v => loc[c].pc # "switch"
    BY <1>2, <2>0 DEF Off, Stopping
  <2>2. (\A c \in Cpus : v \notin runq'[c]) /\ \A c \in Cpus : curr'[c] = v => loc'[c].pc # "switch"
    BY <1>2, <2>0, <2>1 DEF Queued, Stopping
  <2>3. loc[a].pc \in {"flush", "held"} => v \notin is_running' /\ Loaded(v)' \subseteq Loaded(v)
    BY <1>2, <2>0 DEF Off, Loaded, Stopping
  <2>4. loc[a].pc = "flush" => Loaded(v)' \subseteq loc[a].mask
    BY <2>0, <2>3 DEF Off
  <2>5. loc[a].pc = "held" => Loaded(v)' = {}
    BY <2>0, <2>3 DEF Off
  <2> QED
    BY <1>2, <2>0, <2>2, <2>3, <2>4, <2>5 DEF Off, Queued, Loaded
<1> QED
  BY <1>1, <1>2

\* The same for all agents, when nothing of this changes.
LEMMA StayOff ==
  ASSUME AllOff, UNCHANGED <<is_running, curr, curr_vcpu>>,
         \A c \in Cpus : runq'[c] \subseteq runq[c],
         \A c \in Cpus : loc'[c] = loc[c] \/ loc'[c].pc # "switch",
         \A a \in Agents : loc'[a] = loc[a] \/ loc'[a].pc \notin Stopping
  PROVE  AllOff'
<1>1. \A v : \A c \in Cpus : v \in runq'[c] => Queued(v)
  BY DEF Queued
<1>2. ASSUME NEW a \in Agents PROVE Off(a)'
  <2>1. Off(a) /\ (loc'[a] = loc[a] \/ loc'[a].pc \notin Stopping)
    BY DEF AllOff
  <2> QED
    BY <1>1, <2>1, OffFrame
<1> QED
  BY <1>2 DEF AllOff

LEMMA PlainStays ==
  ASSUME NEW t \in Threads, Plain(t)
  PROVE  /\ \A c \in Cpus : Stays(c)
         /\ \A c \in Cpus : loc'[c] = loc[c] \/ loc'[c].pc \notin {"flush", "enter", "switch"}
         /\ \A a \in Agents : loc'[a] = loc[a] \/ loc'[a].pc \notin Stopping
BY DEF Plain, Others, Threads, Stays, Marked, Pausing, Turning, Stopping

LEMMA PlainCore ==
  ASSUME TPlace, Core, NEW t \in Threads, Plain(t), SameRunning,
         UNCHANGED <<processor, is_running, curr, arch>>, \A c \in Cpus : runq'[c] \subseteq runq[c]
  PROVE  Core'
<1>1. /\ \A c \in Cpus : Stays(c)
      /\ \A c \in Cpus : loc'[c] = loc[c] \/ loc'[c].pc \notin {"flush", "enter", "switch"}
      /\ \A a \in Agents : loc'[a] = loc[a] \/ loc'[a].pc \notin Stopping
  BY PlainStays
<1>2. UNCHANGED <<current, curr_vcpu>>
  BY DEF arch
<1>3. Placed' /\ Runs' /\ Accounted'
  BY <1>1, <1>2, StayCore DEF Core
<1>4. Registers'
  BY <1>1, StayRegisters DEF Core
<1>5. AllOff'
  BY <1>1, <1>2, StayOff DEF Core
<1> QED
  BY <1>3, <1>4, <1>5 DEF Core

\* steps of an agent
LEMMA AgentCore ==
  ASSUME TPlace, Core, NEW a \in Agents, Others(a), SameRunning,
         UNCHANGED <<processor, is_running, curr, arch>>, \A c \in Cpus : runq'[c] \subseteq runq[c], Off(a)'
  PROVE  Core'
<1>0. \A c \in Cpus : loc'[c] = loc[c]
  BY SchedAssumption DEF Others, Threads
<1>1. \A b \in Agents \ {a} : loc'[b] = loc[b]
  BY DEF Others, Threads
<1>2. UNCHANGED <<current, curr_vcpu>>
  BY DEF arch
<1>3. Placed' /\ Runs' /\ Accounted'
  BY <1>0, <1>2, StayCore DEF Core, Stays
<1>4. Registers'
  BY <1>0, StayRegisters DEF Core
<1>5. \A v : \A c \in Cpus : v \in runq'[c] => Queued(v)
  BY DEF Queued
<1>6. ASSUME NEW b \in Agents \ {a} PROVE Off(b)'
  <2>1. Off(b) /\ loc'[b] = loc[b]
    BY <1>1 DEF Core, AllOff
  <2> QED
    BY <1>0, <1>2, <1>5, <2>1, OffFrame
<1>7. AllOff'
  BY <1>6 DEF AllOff
<1> QED
  BY <1>3, <1>4, <1>7 DEF Core

LEMMA DirtyCore ==
  ASSUME Sane, Core, NEW c \in Cpus, DirtyDoes(c)
  PROVE  Core'
<1>1. TLoc /\ TPlace /\ TQueue /\ TArch
  BY DEF Sane
<1>2. /\ loc[c].pc = "dirty" /\ Others(c) /\ UNCHANGED sched
      /\ \E mask \in SUBSET Cpus :
           /\ mask = IF curr[c] = Idle THEN {} ELSE vcpu_dirty_cpumask[curr[c]]
           /\ \/ loc'[c].pc = "enter" /\ (c \in mask \/ mask = {})
              \/ loc'[c].pc = "flush" /\ c \notin mask /\ mask # {} /\ loc'[c].mask = mask
  BY DEF DirtyDoes
<1>3. UNCHANGED <<processor, is_running, curr, current, curr_vcpu, vcpu_dirty_cpumask, runq, runstate>>
  BY <1>2 DEF sched, queue, state, place, arch
<1>4. (\A d \in Cpus \ {c} : loc'[d] = loc[d]) /\ \A a \in Agents : loc'[a] = loc[a]
  BY <1>2, SchedAssumption DEF Others, Threads
<1>5. loc'[c].pc \in {"enter", "flush"}
  BY <1>2
<1>6. \A d \in Cpus : Stays(d)
  BY <1>2, <1>4, <1>5 DEF Stays, Turning
<1>7. Placed' /\ Runs' /\ Accounted'
  <2>1. SameRunning
    BY <1>3 DEF SameRunning
  <2> QED
    BY <1>1, <1>3, <1>6, <2>1, StayCore DEF Core
<1>8. \A v : Loaded(v)' = Loaded(v)
  BY <1>3 DEF Loaded
<1>9. Registers'
  <2>1. loc'[c].pc = "flush" => curr[c] # Idle /\ Loaded(curr[c]) \subseteq loc'[c].mask /\ c \notin loc'[c].mask
    BY <1>1, <1>2, SMT DEF Core, Registers, TQueue
  <2>2. ASSUME loc'[c].pc = "enter", curr[c] # Idle PROVE Loaded(curr[c]) \subseteq {c}
    <3>1. curr[c] \in Vcpus
      BY <1>1, <2>2 DEF TQueue
    <3>2. vcpu_dirty_cpumask[curr[c]] = Loaded(curr[c])
      BY <3>1 DEF Core, Registers
    <3>3. c \in Loaded(curr[c]) \/ Loaded(curr[c]) = {}
      BY <1>2, <2>2, <3>2
    <3>4. ASSUME c \in Loaded(curr[c]), NEW d \in Loaded(curr[c]) PROVE d = c
      BY <2>2, <3>4, SMT DEF Core, Registers, Loaded
    <3> QED
      BY <3>3, <3>4
  <2> QED
    BY <1>3, <1>4, <1>8, <2>1, <2>2 DEF Core, Registers
<1>10. AllOff'
  <2>1. \A d \in Cpus : loc'[d] = loc[d] \/ loc'[d].pc # "switch"
    BY <1>4, <1>5
  <2> QED
    BY <1>3, <1>4, <2>1, StayOff DEF Core
<1> QED
  BY <1>7, <1>9, <1>10 DEF Core

LEMMA PauseSyncCore ==
  ASSUME Sane, Core, NEW a \in Agents, PauseSyncDoes(a)
  PROVE  Core'
<1>1. TPlace /\ Paused
  BY DEF Sane
<1>0. PICK v : v = loc[a].v
  OBVIOUS
<1>2. /\ loc[a].pc = "spin" /\ v \in Vcpus /\ loc'[a].v = v /\ Others(a)
      /\ vcpu_runnable(v) \/ v \notin is_running
      /\ \/ loc'[a].pc = "held" /\ vcpu_dirty_cpumask[v] = {}
         \/ loc'[a].pc = "flush" /\ loc'[a].mask = vcpu_dirty_cpumask[v]
      /\ UNCHANGED <<processor, is_running, curr, arch, runq, runstate, vcpu_dirty_cpumask, curr_vcpu>>
  BY <1>0 DEF PauseSyncDoes
<1>3. v \notin is_running
  BY <1>1, <1>0, <1>2, PauseIsCounted DEF Pausing
<1>4. vcpu_dirty_cpumask[v] = Loaded(v) /\ Loaded(v)' = Loaded(v)
  BY <1>2 DEF Core, Registers, Loaded
<1>5. ~Queued(v) /\ \A c \in Cpus : curr[c] = v => loc[c].pc # "switch"
  BY <1>0, <1>2 DEF Core, AllOff, Off
<1>6. (Queued(v)' <=> Queued(v)) /\ \A c \in Cpus : loc'[c] = loc[c]
  BY <1>2, SchedAssumption DEF Others, Threads, Queued
<1>7. Off(a)'
  BY <1>2, <1>3, <1>4, <1>5, <1>6 DEF Off, Queued, Loaded
<1>8. SameRunning /\ \A c \in Cpus : runq'[c] \subseteq runq[c]
  BY <1>2 DEF SameRunning
<1> QED
  BY <1>1, <1>2, <1>7, <1>8, AgentCore

-----------------------------------------------------------------------------
\* The core: heavy steps

LEMMA FreeCpu ==
  ASSUME Holds, NEW c \in Cpus, Free(c)
  PROVE  loc[c].pc # "switch"
BY SchedAssumption DEF Holds, Free, Threads

LEMMA WakeCore ==
  ASSUME Sane, Core, NEW t \in Threads, WakeDoes(t)
  PROVE  Core'
<1> DEFINE v == loc[t].v
<1>1. /\ TLoc /\ TPlace /\ TQueue /\ TState /\ TArch /\ Carries /\ Paused
  BY DEF Sane
<1>2. /\ v \in Vcpus /\ Plain(t) /\ SameRunning
      /\ UNCHANGED <<processor, is_running, curr, arch>>
      /\ \/ UNCHANGED runq
         \/ /\ vcpu_runnable(v) /\ curr[processor[v]] # v
            /\ runq' = [runq EXCEPT ![processor[v]] = @ \cup {v}]
  BY DEF WakeDoes
<1> HIDE DEF v
<1>3. CASE UNCHANGED runq
  BY <1>1, <1>2, <1>3, PlainCore
<1>4. CASE /\ vcpu_runnable(v) /\ curr[processor[v]] # v
           /\ runq' = [runq EXCEPT ![processor[v]] = @ \cup {v}]
  <2>1. \A c \in Cpus : \A x \in runq'[c] : x \in runq[c] \/ (x = v /\ processor[v] = c)
    BY <1>1, <1>2, <1>4 DEF TQueue, TPlace
  <2>2. /\ \A c \in Cpus : Stays(c)
        /\ \A c \in Cpus : loc'[c] = loc[c] \/ loc'[c].pc \notin {"flush", "enter", "switch"}
        /\ \A a \in Agents : loc'[a] = loc[a] \/ loc'[a].pc \notin Stopping
    BY <1>2, PlainStays
  <2>3. UNCHANGED <<current, curr_vcpu>>
    BY <1>2 DEF arch
  <2>4. Placed' /\ Runs' /\ Accounted'
    BY <1>1, <1>2, <1>4, <2>1, <2>2, <2>3, StayCore DEF Core
  <2>5. Registers'
    BY <1>2, <2>2, StayRegisters DEF Core
  <2>6. ASSUME NEW a \in Agents PROVE Off(a)'
    <3>1. CASE loc'[a].pc \notin Stopping
      BY <3>1, OffFrame DEF Core, AllOff
    <3>2. CASE loc'[a] = loc[a] /\ loc[a].pc \in Stopping
      <4>1. a \in Threads /\ loc[a].pc \in Pausing
        BY <3>2 DEF Stopping, Pausing, Threads
      <4>2. loc[a].v \in Vcpus
        BY <1>1, <3>2, <4>1 DEF Carries, Sound, Stopping, WithVcpu
      <4>3. loc[a].v # v
        BY <1>1, <1>4, <4>1, <4>2, PauseIsCounted
      <4>4. \A c \in Cpus : loc[a].v \in runq'[c] => Queued(loc[a].v)
        BY <2>1, <4>3 DEF Queued
      <4> QED
        BY <1>2, <2>2, <2>3, <3>2, <4>4, OffFrame DEF Core, AllOff
    <3> QED
      BY <2>2, <3>1, <3>2
  <2> QED
    BY <2>4, <2>5, <2>6 DEF Core, AllOff
<1> QED
  BY <1>2, <1>3, <1>4

LEMMA PauseSleepCore ==
  ASSUME Sane, Core, NEW a \in Agents, PauseSleepDoes(a)
  PROVE  Core'
<1> DEFINE v == loc[a].v
<1>1. TPlace /\ Holds /\ Paused
  BY DEF Sane
<1>2. /\ v \in Vcpus /\ loc[a].pc = "pause" /\ loc'[a].pc = "spin" /\ loc'[a].v = v
      /\ Others(a) /\ UNCHANGED <<curr, processor, arch, is_running>>
  BY DEF PauseSleepDoes
<1>3. ~vcpu_runnable(v)
  BY <1>1, <1>2, PauseIsCounted DEF Pausing
<1>4. /\ SameRunning /\ Free(processor[v]) /\ \A c \in Cpus : runq'[c] \subseteq runq[c]
      /\ curr[processor[v]] = v \/ \A c \in Cpus : v \notin runq'[c]
  BY <1>3 DEF PauseSleepDoes
<1> HIDE DEF v
<1>5. processor[v] \in Cpus
  BY <1>1, <1>2 DEF TPlace
<1>6. \A c \in Cpus : v \notin runq'[c]
  BY <1>4, <1>5, SMT DEF Core, Placed
<1>7. \A c \in Cpus : curr'[c] = v => loc'[c].pc # "switch"
  <2> SUFFICES ASSUME NEW c \in Cpus, curr'[c] = v PROVE loc'[c].pc # "switch"
    OBVIOUS
  <2>1. v # Idle
    BY <1>2, SchedAssumption
  <2>2. c = processor[v]
    BY <1>2, <2>1 DEF Core, Placed
  <2>3. loc'[c] = loc[c]
    BY <1>2, SchedAssumption DEF Others, Threads
  <2> QED
    BY <1>1, <1>4, <2>2, <2>3, FreeCpu
<1>8. Off(a)'
  BY <1>2, <1>6, <1>7 DEF Off, Queued
<1> QED
  BY <1>1, <1>2, <1>4, <1>8, AgentCore

LEMMA LockCore ==
  ASSUME Sane, Core, NEW t \in Threads, Lock1Does(t)
  PROVE  Core'
<1>1. TLoc /\ TPlace /\ TRest /\ Carries
  BY DEF Sane
<1>2. /\ loc[t].pc = "lock1" /\ loc'[t].pc = "lock2" /\ Others(t)
      /\ UNCHANGED <<processor, is_running, curr, runq, arch, runstate>>
  BY DEF Lock1Does
<1>3. /\ \A c \in Cpus : Stays(c)
      /\ \A c \in Cpus : loc'[c] = loc[c] \/ loc'[c].pc \notin {"flush", "enter", "switch"}
      /\ \A a \in Agents : loc'[a] = loc[a] \/ loc'[a].pc \notin Stopping
  BY <1>2 DEF Others, Threads, Stays, Turning, Stopping
<1>4. SameRunning /\ UNCHANGED <<current, curr_vcpu>>
  BY <1>2 DEF SameRunning, arch
<1>5. Placed' /\ Runs' /\ Accounted'
  BY <1>1, <1>2, <1>3, <1>4, StayCore DEF Core
<1>6. Registers'
  BY <1>2, <1>3, StayRegisters DEF Core
<1>7. AllOff'
  BY <1>2, <1>3, <1>4, StayOff DEF Core
<1> QED
  BY <1>5, <1>6, <1>7 DEF Core

(* A vcpu that is_running does not hold for is nowhere, once the lock of   *)
(* its CPU says that this CPU is not in the middle of a switch.            *)
LEMMA Nowhere ==
  ASSUME TPlace, Placed, Runs, NEW v \in Vcpus \ is_running, loc[processor[v]].pc # "switch"
  PROVE  /\ \A c \in Cpus : curr[c] # v /\ current[c] # v /\ Charged(c) # v /\ ~OnCpu(v, c)
         /\ \A c \in Cpus : loc[c].pc = "saved" => loc[c].v # v
<1>1. v # Idle /\ processor[v] \in Cpus
  BY SchedAssumption DEF TPlace
<1>2. ~OnCpu(v, processor[v])
  BY DEF Runs
<1>3. ASSUME NEW c \in Cpus, curr[c] = v \/ current[c] = v \/ (loc[c].pc = "saved" /\ loc[c].v = v) PROVE FALSE
  <2>1. processor[v] = c
    BY <1>1, <1>3 DEF Placed
  <2> QED
    BY <1>2, <1>3, <2>1 DEF OnCpu
<1> QED
  BY <1>3 DEF Charged, OnCpu

LEMMA LockedCore ==
  ASSUME Sane, Core, NEW t \in Threads, LockedDoes(t), ~moved'
  PROVE  Core'
<1> DEFINE v == loc[t].v
<1>1. /\ TLoc /\ TPlace /\ TQueue /\ TState /\ TArch /\ TRest /\ Carries /\ Holds
  BY DEF Sane
<1>2. /\ v \in Vcpus /\ loc[t].pc \in {"lock1", "lock2"} /\ loc'[t].pc \notin Marked /\ Others(t)
      /\ UNCHANGED <<curr, runq, runstate, arch, is_running>>
      /\ \/ UNCHANGED processor
         \/ \E new \in cpu_affinity[v] :
              /\ v \notin is_running /\ schedule_lock[processor[v]] \in {Nobody, t}
              /\ processor' = [processor EXCEPT ![v] = new]
              /\ moved' = (moved \/ (Queued(v) /\ new # processor[v]))
  BY DEF LockedDoes
<1> HIDE DEF v
<1>3. /\ \A c \in Cpus : Stays(c)
      /\ \A c \in Cpus : loc'[c] = loc[c] \/ loc'[c].pc \notin {"flush", "enter", "switch"}
      /\ \A a \in Agents : loc'[a] = loc[a] \/ loc'[a].pc \notin Stopping
  BY <1>2 DEF Others, Threads, Stays, Turning, Stopping, Marked, Pausing
<1>4. SameRunning /\ UNCHANGED <<current, curr_vcpu>>
  BY <1>2 DEF SameRunning, arch
<1>5. Registers'
  BY <1>2, <1>3, StayRegisters DEF Core
<1>6. AllOff'
  BY <1>2, <1>3, <1>4, StayOff DEF Core
<1>7. Placed' /\ Runs' /\ Accounted'
  <2>1. CASE UNCHANGED processor
    BY <1>1, <1>2, <1>3, <1>4, <2>1, StayCore DEF Core
  <2>2. ASSUME NEW new \in cpu_affinity[v], new # processor[v],
               v \notin is_running, schedule_lock[processor[v]] \in {Nobody, t},
               processor' = [processor EXCEPT ![v] = new], ~Queued(v)
        PROVE  Placed' /\ Runs' /\ Accounted'
    <3>1. processor[v] \in Cpus /\ new \in Cpus
      BY <1>1, <1>2 DEF TPlace
    <3>2. loc[processor[v]].pc # "switch"
      <4>1. ASSUME loc[processor[v]].pc = "switch" PROVE schedule_lock[processor[v]] = processor[v]
        BY <1>1, <3>1, <4>1 DEF Holds
      <4>2. processor[v] # Nobody
        BY <3>1, SchedAssumption DEF Threads
      <4>3. t # processor[v] \/ loc[processor[v]].pc # "switch"
        BY <1>2
      <4> QED
        BY <2>2, <4>1, <4>2, <4>3
    <3>3. /\ \A c \in Cpus : curr[c] # v /\ current[c] # v /\ Charged(c) # v /\ ~OnCpu(v, c)
          /\ \A c \in Cpus : loc[c].pc = "saved" => loc[c].v # v
      BY <1>1, <1>2, <2>2, <3>2, Nowhere DEF Core
    <3>4. processor'[v] = new /\ \A x \in Vcpus \ {v} : processor'[x] = processor[x]
      BY <1>1, <1>2, <2>2, <3>1 DEF TPlace
    <3>5. \A x \in Vcpus, c \in Cpus : OnCpu(x, c)' <=> OnCpu(x, c)
      BY <1>2, <1>3, <1>4 DEF OnCpu, Stays
    <3>6. \A c \in Cpus : Charged(c)' = Charged(c)
      BY <1>2, <1>3, <1>4 DEF Charged, Stays
    <3>7. Runs'
      <4> SUFFICES ASSUME NEW x \in Vcpus PROVE x \in is_running <=> OnCpu(x, processor'[x])
        BY <1>1, <1>2, <3>1, <3>4, <3>5 DEF Runs, TPlace
      <4>1. CASE x = v
        BY <2>2, <3>1, <3>3, <3>4, <4>1
      <4>2. CASE x # v
        BY <3>4, <4>2 DEF Core, Runs
      <4> QED
        BY <4>1, <4>2
    <3>8. Accounted'
      <4> SUFFICES ASSUME NEW x \in Vcpus PROVE runstate[x] = "running" <=> x = Charged(processor'[x])
        BY <1>1, <1>2, <3>1, <3>4, <3>6 DEF Accounted, TPlace
      <4>1. CASE x = v
        BY <3>1, <3>3, <3>4, <4>1 DEF Core, Accounted
      <4>2. CASE x # v
        BY <3>4, <4>2 DEF Core, Accounted
      <4> QED
        BY <4>1, <4>2
    <3>9. Placed'
      <4> SUFFICES ASSUME NEW c \in Cpus
                   PROVE  /\ loc'[c].pc \in Turning <=> curr[c] # current[c]
                          /\ curr[c] # Idle => processor'[curr[c]] = c
                          /\ current[c] # Idle => processor'[current[c]] = c
                          /\ loc'[c].pc = "saved" /\ loc'[c].v # Idle =>
                               processor'[loc'[c].v] = c /\ loc'[c].v # curr[c]
                          /\ \A x \in runq[c] : processor'[x] = c /\ x # curr[c]
        BY <1>2, <1>4 DEF Placed
      <4>1. Stays(c)
        BY <1>3
      <4>2. /\ curr[c] \in Vcpus \cup {Idle} /\ current[c] \in Vcpus \cup {Idle} /\ runq[c] \subseteq Vcpus
            /\ loc[c].v \in Vcpus \cup {Idle}
        BY <1>1 DEF TQueue, TArch, TLoc, Locals, Threads
      <4>3. v \notin runq[c]
        BY <2>2 DEF Queued
      <4>4. /\ loc[c].pc \in Turning <=> curr[c] # current[c]
            /\ curr[c] # Idle => processor[curr[c]] = c
            /\ current[c] # Idle => processor[current[c]] = c
            /\ loc[c].pc = "saved" /\ loc[c].v # Idle => processor[loc[c].v] = c /\ loc[c].v # curr[c]
            /\ \A x \in runq[c] : processor[x] = c /\ x # curr[c]
        BY DEF Core, Placed
      <4>5. curr[c] # v /\ current[c] # v /\ (loc[c].pc = "saved" => loc[c].v # v)
        BY <3>3
      <4>6. loc'[c].pc = "saved" => loc[c].pc = "saved" /\ loc'[c].v = loc[c].v
        BY <4>1 DEF Stays
      <4>7. loc'[c].pc \in Turning <=> loc[c].pc \in Turning
        BY <4>1 DEF Stays
      <4> QED
        BY <3>4, <4>2, <4>3, <4>4, <4>5, <4>6, <4>7
    <3> QED
      BY <3>7, <3>8, <3>9
  <2>3. CASE ~UNCHANGED processor
    <3>1. PICK new \in cpu_affinity[v] :
              /\ v \notin is_running /\ schedule_lock[processor[v]] \in {Nobody, t}
              /\ processor' = [processor EXCEPT ![v] = new]
              /\ moved' = (moved \/ (Queued(v) /\ new # processor[v]))
      BY <1>2, <2>3
    <3>2. new # processor[v]
      BY <1>1, <1>2, <2>3, <3>1 DEF TPlace
    <3> QED
      BY <2>2, <3>1, <3>2
  <2> QED
    BY <2>1, <2>3
<1> QED
  BY <1>5, <1>6, <1>7 DEF Core

(* What CPU c does to the CPUs it does not concern, and agents: nothing.   *)
LEMMA CpuAlone ==
  ASSUME NEW c \in Cpus, Others(c)
  PROVE  (\A d \in Cpus \ {c} : loc'[d] = loc[d]) /\ \A a \in Agents : loc'[a] = loc[a]
BY SchedAssumption DEF Others, Threads

LEMMA StopsOn ==
  ASSUME Carries, NEW a \in Agents, loc[a].pc \in Stopping
  PROVE  loc[a].v \in Vcpus /\ loc[a].v # Idle
<1>1. a \in Threads
  BY DEF Threads
<1>2. loc[a].v \in Vcpus
  BY <1>1 DEF Carries, Sound, Stopping, WithVcpu
<1> QED
  BY <1>2, SchedAssumption

LEMMA SavedCore ==
  ASSUME Sane, Core, NEW c \in Cpus, SavedDoes(c)
  PROVE  Core'
<1> DEFINE p == loc[c].v
<1>1. TLoc /\ TPlace /\ TQueue /\ TArch
  BY DEF Sane
<1>2. /\ loc[c].pc = "saved" /\ loc'[c].pc = "tail" /\ Others(c) /\ is_running' = is_running \ {p}
      /\ UNCHANGED <<processor, curr, runq, arch, runstate>>
  BY DEF SavedDoes
<1>3. (\A d \in Cpus \ {c} : loc'[d] = loc[d]) /\ \A a \in Agents : loc'[a] = loc[a]
  BY <1>2, CpuAlone
<1>4. UNCHANGED <<current, curr_vcpu>>
  BY <1>2 DEF arch
<1>5. curr[c] = current[c] /\ (p # Idle => processor[p] = c /\ p # curr[c])
  BY <1>2 DEF Core, Placed, Turning
<1> HIDE DEF p
<1>6. Placed'
  <2>1. \A d \in Cpus : /\ loc'[d].pc \in Turning <=> loc[d].pc \in Turning
                        /\ loc'[d].pc = "saved" => loc'[d] = loc[d]
    BY <1>2, <1>3 DEF Turning
  <2> QED
    BY <1>2, <1>4, <2>1, SMT DEF Core, Placed
<1>7. Runs'
  <2> SUFFICES ASSUME NEW x \in Vcpus PROVE x \in is_running' <=> OnCpu(x, processor[x])'
    BY <1>2 DEF Runs
  <2>1. x # Idle /\ processor[x] \in Cpus /\ (x \in is_running <=> OnCpu(x, processor[x]))
    BY <1>1, SchedAssumption DEF TPlace, Core, Runs
  <2>2. CASE processor[x] = c
    <3>1. OnCpu(x, c)' <=> x = curr[c]
      BY <1>2, <1>4, <1>5 DEF OnCpu
    <3>2. OnCpu(x, c) <=> x = curr[c] \/ x = p
      BY <1>2, <1>5 DEF OnCpu, p
    <3> QED
      BY <1>2, <1>5, <2>1, <2>2, <3>1, <3>2
  <2>3. CASE processor[x] # c
    <3>1. OnCpu(x, processor[x])' <=> OnCpu(x, processor[x])
      BY <1>2, <1>3, <1>4, <2>1, <2>3 DEF OnCpu
    <3>2. x # p
      BY <1>5, <2>1, <2>3
    <3> QED
      BY <1>2, <2>1, <3>1, <3>2
  <2> QED
    BY <2>2, <2>3
<1>8. Accounted'
  <2>1. \A d \in Cpus : Charged(d)' = Charged(d)
    BY <1>2, <1>3, <1>4 DEF Charged
  <2> QED
    BY <1>1, <1>2, <2>1 DEF Core, Accounted, TPlace
<1>9. Registers'
  BY <1>2, <1>3, StayRegisters DEF Core
<1>10. ASSUME NEW a \in Agents PROVE Off(a)'
  <2>1. Off(a) /\ loc'[a] = loc[a]
    BY <1>3 DEF Core, AllOff
  <2>2. \A d \in Cpus : loc[a].v \in runq'[d] => Queued(loc[a].v)
    BY <1>2 DEF Queued
  <2> QED
    BY <1>2, <1>3, <1>4, <2>1, <2>2, OffFrame
<1> QED
  BY <1>6, <1>7, <1>8, <1>9, <1>10 DEF Core, AllOff

LEMMA SwitchCore ==
  ASSUME Sane, Core, NEW c \in Cpus, SwitchDoes(c)
  PROVE  Core'
<1>1. TLoc /\ TPlace /\ TQueue /\ TArch /\ TState /\ Carries
  BY DEF Sane
<1>2. /\ loc[c].pc = "switch" /\ loc'[c].pc = "dirty" /\ Others(c)
      /\ is_running' = is_running \cup ({curr[c]} \ {Idle})
      /\ \A x \in Vcpus : runstate'[x] = "running" <=> x = curr[c] \/ (x # current[c] /\ runstate[x] = "running")
      /\ UNCHANGED <<processor, curr, runq, arch>>
  BY DEF SwitchDoes
<1>3. (\A d \in Cpus \ {c} : loc'[d] = loc[d]) /\ \A a \in Agents : loc'[a] = loc[a]
  BY <1>2, CpuAlone
<1>4. UNCHANGED <<current, curr_vcpu>>
  BY <1>2 DEF arch
<1>5. /\ curr[c] # current[c] /\ (curr[c] # Idle => processor[curr[c]] = c)
      /\ current[c] # Idle => processor[current[c]] = c
  BY <1>2 DEF Core, Placed, Turning
<1>6. Placed'
  <2>1. \A d \in Cpus : /\ loc'[d].pc \in Turning <=> loc[d].pc \in Turning
                        /\ loc'[d].pc = "saved" => loc'[d] = loc[d]
    BY <1>2, <1>3 DEF Turning
  <2> QED
    BY <1>2, <1>4, <2>1, SMT DEF Core, Placed
<1>7. ASSUME NEW x \in Vcpus
      PROVE  /\ x \in is_running' <=> OnCpu(x, processor[x])'
             /\ runstate'[x] = "running" <=> x = Charged(processor[x])'
  <2>1. /\ x # Idle /\ processor[x] \in Cpus /\ (x \in is_running <=> OnCpu(x, processor[x]))
        /\ runstate[x] = "running" <=> x = Charged(processor[x])
    BY <1>1, SchedAssumption DEF TPlace, Core, Runs, Accounted
  <2>2. CASE processor[x] = c
    <3>1. (OnCpu(x, c)' <=> x = current[c] \/ x = curr[c]) /\ Charged(c)' = curr[c]
      BY <1>2, <1>4 DEF OnCpu, Charged
    <3>2. (OnCpu(x, c) <=> x = current[c]) /\ Charged(c) = current[c]
      BY <1>2 DEF OnCpu, Charged
    <3> QED
      BY <1>2, <2>1, <2>2, <3>1, <3>2
  <2>3. CASE processor[x] # c
    <3>1. /\ OnCpu(x, processor[x])' <=> OnCpu(x, processor[x])
          /\ Charged(processor[x])' = Charged(processor[x])
      BY <1>2, <1>3, <1>4, <2>1, <2>3 DEF OnCpu, Charged
    <3>2. x # curr[c] /\ x # current[c]
      BY <1>5, <2>1, <2>3
    <3> QED
      BY <1>2, <2>1, <3>1, <3>2
  <2> QED
    BY <2>2, <2>3
<1>8. Runs' /\ Accounted'
  BY <1>2, <1>7 DEF Runs, Accounted
<1>9. Registers'
  BY <1>2, <1>3, StayRegisters DEF Core
<1>10. ASSUME NEW a \in Agents PROVE Off(a)'
  <2>1. Off(a) /\ loc'[a] = loc[a]
    BY <1>3 DEF Core, AllOff
  <2>2. \A d \in Cpus : loc[a].v \in runq'[d] => Queued(loc[a].v)
    BY <1>2 DEF Queued
  <2>3. CASE loc[a].pc \in Stopping
    <3>1. loc[a].v # curr[c]
      BY <1>2, <2>1, <2>3 DEF Off, Stopping
    <3> QED
      BY <1>2, <1>3, <1>4, <2>1, <2>2, <3>1, OffFrame
  <2>4. CASE loc[a].pc \notin Stopping
    BY <2>1, <2>4, OffFrame
  <2> QED
    BY <2>3, <2>4
<1> QED
  BY <1>6, <1>8, <1>9, <1>10 DEF Core, AllOff

LEMMA EnterCore ==
  ASSUME Sane, Core, NEW c \in Cpus, EnterDoes(c)
  PROVE  Core'
<1>1. TLoc /\ TPlace /\ TQueue /\ TArch /\ Carries
  BY DEF Sane
<1>2. /\ loc[c].pc = "enter" /\ loc'[c].pc = "saved" /\ loc'[c].v = current[c] /\ Others(c)
      /\ current' = [current EXCEPT ![c] = curr[c]]
      /\ UNCHANGED <<processor, curr, runq, runstate, is_running>>
  BY DEF EnterDoes
<1>3. (\A d \in Cpus \ {c} : loc'[d] = loc[d]) /\ \A a \in Agents : loc'[a] = loc[a]
  BY <1>2, CpuAlone
<1>4. current'[c] = curr[c] /\ \A d \in Cpus \ {c} : current'[d] = current[d]
  BY <1>1, <1>2 DEF TArch
<1>5. /\ curr[c] # current[c] /\ (curr[c] # Idle => processor[curr[c]] = c)
      /\ current[c] # Idle => processor[current[c]] = c
  BY <1>2 DEF Core, Placed, Turning
<1>6. Placed'
  <2> SUFFICES ASSUME NEW d \in Cpus
               PROVE  /\ loc'[d].pc \in Turning <=> curr[d] # current'[d]
                      /\ curr[d] # Idle => processor[curr[d]] = d
                      /\ current'[d] # Idle => processor[current'[d]] = d
                      /\ loc'[d].pc = "saved" /\ loc'[d].v # Idle =>
                           processor[loc'[d].v] = d /\ loc'[d].v # curr[d]
                      /\ \A v \in runq[d] : processor[v] = d /\ v # curr[d]
    <3>1. UNCHANGED <<processor, curr, runq>>
      BY <1>2
    <3> QED
      BY <3>1 DEF Placed
  <2>1. CASE d = c
    <3>1. \A v \in runq[c] : processor[v] = c /\ v # curr[c]
      BY DEF Core, Placed
    <3>2. loc'[c].pc \notin Turning
      BY <1>2 DEF Turning
    <3> QED
      BY <1>2, <1>4, <1>5, <2>1, <3>1, <3>2
  <2>2. CASE d # c
    BY <1>3, <1>4, <2>2, SMT DEF Core, Placed
  <2> QED
    BY <2>1, <2>2
<1>7. Runs'
  <2>1. \A x \in Vcpus, d \in Cpus : OnCpu(x, d)' <=> OnCpu(x, d)
    BY <1>2, <1>3, <1>4 DEF OnCpu
  <2> QED
    BY <1>1, <1>2, <2>1 DEF Core, Runs, TPlace
<1>8. Accounted'
  <2>1. \A d \in Cpus : Charged(d)' = Charged(d)
    BY <1>2, <1>3, SMT DEF Charged
  <2> QED
    BY <1>1, <1>2, <2>1 DEF Core, Accounted, TPlace
<1>9. /\ curr_vcpu'[c] = curr[c] \/ curr[c] = Idle
      /\ \A d \in Cpus \ {c} : curr_vcpu'[d] = curr_vcpu[d]
      /\ curr_vcpu'[c] = curr[c] \/ curr_vcpu'[c] = curr_vcpu[c]
      /\ \A v \in Vcpus : vcpu_dirty_cpumask'[v] = Loaded(v)'
  <2>1. CASE UNCHANGED <<vcpu_dirty_cpumask, curr_vcpu>> /\ (curr_vcpu[c] = curr[c] \/ curr[c] = Idle)
    BY <2>1 DEF Core, Registers, Loaded
  <2>2. CASE curr[c] # Idle /\ Swaps(c, curr[c])
    <3>1. curr[c] \in Vcpus
      BY <1>1, <2>2 DEF TQueue
    <3>2. /\ \A v \in Vcpus : vcpu_dirty_cpumask'[v] = IF v = curr[c] THEN vcpu_dirty_cpumask[v] \cup {c}
                                                       ELSE vcpu_dirty_cpumask[v] \ {c}
          /\ curr_vcpu'[c] = curr[c] /\ \A d \in Cpus \ {c} : curr_vcpu'[d] = curr_vcpu[d]
      BY <2>2 DEF Swaps
    <3>3. \A v \in Vcpus : Loaded(v)' = IF v = curr[c] THEN Loaded(v) \cup {c} ELSE Loaded(v) \ {c}
      BY <3>2, SMT DEF Loaded
    <3>4. \A v \in Vcpus : vcpu_dirty_cpumask[v] = Loaded(v)
      BY DEF Core, Registers
    <3>5. ASSUME NEW v \in Vcpus PROVE vcpu_dirty_cpumask'[v] = Loaded(v)'
      <4>1. CASE v = curr[c]
        BY <3>2, <3>3, <3>4, <4>1
      <4>2. CASE v # curr[c]
        <5>1. vcpu_dirty_cpumask'[v] = vcpu_dirty_cpumask[v] \ {c} /\ Loaded(v)' = Loaded(v) \ {c}
          BY <3>2, <3>3, <4>2
        <5> QED
          BY <3>4, <5>1
      <4> QED
        BY <4>1, <4>2
    <3> QED
      BY <3>2, <3>5
  <2> QED
    BY <2>1, <2>2 DEF EnterDoes
<1>10. \A v \in Vcpus \ {curr[c]} : Loaded(v)' \subseteq Loaded(v)
  BY <1>9 DEF Loaded
<1>11. curr[c] # Idle => Loaded(curr[c]) \subseteq {c}
  BY <1>2 DEF Core, Registers
<1>12. Registers'
  <2>1. ASSUME NEW d \in Cpus, NEW e \in Cpus, curr_vcpu'[d] = curr_vcpu'[e], curr_vcpu'[d] # Idle
        PROVE  d = e
    <3>1. \A b \in Cpus \ {c} : curr_vcpu'[b] = curr[c] /\ curr[c] # Idle => FALSE
      BY <1>9, <1>11 DEF Loaded
    <3>2. CASE d # c /\ e # c
      BY <1>9, <2>1, <3>2, SMT DEF Core, Registers
    <3>3. CASE curr_vcpu'[c] = curr_vcpu[c]
      BY <1>9, <2>1, <3>3, SMT DEF Core, Registers
    <3>4. CASE curr_vcpu'[c] = curr[c] /\ (d = c \/ e = c)
      BY <2>1, <3>1, <3>4
    <3> QED
      BY <1>9, <3>2, <3>3, <3>4
  <2>2. ASSUME NEW d \in Cpus
        PROVE  /\ curr_vcpu'[d] = current'[d] \/ current'[d] = Idle
               /\ loc'[d].pc = "flush" =>
                    curr[d] # Idle /\ Loaded(curr[d])' \subseteq loc'[d].mask /\ d \notin loc'[d].mask
               /\ loc'[d].pc = "enter" /\ curr[d] # Idle => Loaded(curr[d])' \subseteq {d}
    <3>1. CASE d = c
      BY <1>2, <1>4, <1>9, <3>1
    <3>2. CASE d # c
      <4>1. curr[d] # Idle => curr[d] \in Vcpus \ {curr[c]}
        BY <1>1, <1>5, <3>2, SMT DEF TQueue, Core, Placed
      <4>2. /\ curr_vcpu[d] = current[d] \/ current[d] = Idle
            /\ loc[d].pc = "flush" =>
                 curr[d] # Idle /\ Loaded(curr[d]) \subseteq loc[d].mask /\ d \notin loc[d].mask
            /\ loc[d].pc = "enter" /\ curr[d] # Idle => Loaded(curr[d]) \subseteq {d}
        BY DEF Core, Registers
      <4>3. curr[d] # Idle => Loaded(curr[d])' \subseteq Loaded(curr[d])
        BY <1>2, <1>10, <4>1
      <4> QED
        BY <1>2, <1>3, <1>4, <1>9, <3>2, <4>1, <4>2, <4>3
    <3> QED
      BY <3>1, <3>2
  <2> QED
    BY <1>2, <1>9, <2>1, <2>2 DEF Registers
<1>13. ASSUME NEW a \in Agents PROVE Off(a)'
  <2>1. Off(a) /\ loc'[a] = loc[a]
    BY <1>3 DEF Core, AllOff
  <2>2. \A d \in Cpus : loc[a].v \in runq'[d] => Queued(loc[a].v)
    BY <1>2 DEF Queued
  <2>3. ASSUME loc[a].pc \in {"flush", "held"} 
        PROVE  \A d \in Cpus : curr_vcpu'[d] = loc[a].v => curr_vcpu[d] = loc[a].v
    <3>1. loc[a].v \in Vcpus /\ loc[a].v # Idle
      BY <1>1, <2>3, StopsOn DEF Stopping
    <3>2. loc[a].v \notin is_running
      BY <2>1, <2>3 DEF Off
    <3>3. loc[a].v # curr[c]
      BY <1>2, <1>5, <3>1, <3>2 DEF Core, Runs, OnCpu
    <3> QED
      BY <1>9, <3>3
  <2> QED
    BY <1>2, <1>3, <2>1, <2>2, <2>3, OffFrame
<1> QED
  BY <1>6, <1>7, <1>8, <1>12, <1>13 DEF Core, AllOff

LEMMA FlushIpiCore ==
  ASSUME Sane, Core, NEW t \in Threads, NEW c \in Cpus, FlushIpiDoes(c, t)
  PROVE  Core'
<1>1. TLoc /\ TPlace /\ TQueue /\ TArch /\ Carries
  BY DEF Sane
<1>2. /\ loc[t].pc = "flush" /\ c \in loc[t].mask /\ Others(t)
      /\ loc'[t].v = loc[t].v /\ loc'[t].mask = loc[t].mask \ {c}
      /\ loc'[t].pc = "flush" \/ (loc'[t].mask = {} /\ loc'[t].pc = Flushed(t))
      /\ UNCHANGED <<processor, curr, runq, runstate, current, is_running>>
  BY DEF FlushIpiDoes
<1>3. \A u \in Threads \ {t} : loc'[u] = loc[u]
  BY <1>2 DEF Others
<1>4. t \in Cpus \/ (t \in Agents /\ t \notin Cpus)
  BY SchedAssumption DEF Threads
<1>5. loc'[t].pc \in {"flush", "enter", "held"} /\ (t \in Cpus => loc'[t].pc \in {"flush", "enter"})
      /\ (t \notin Cpus => loc'[t].pc \in {"flush", "held"})
  BY <1>2 DEF Flushed
<1>6. Placed' /\ Runs' /\ Accounted'
  <2>1. \A d \in Cpus : Stays(d)
    BY <1>2, <1>3, <1>5 DEF Stays, Turning, Threads
  <2>2. SameRunning
    BY <1>2 DEF SameRunning
  <2> QED
    BY <1>1, <1>2, <2>1, <2>2, StayCore DEF Core
<1>7. /\ curr_vcpu'[c] = current[c]
      /\ \A d \in Cpus \ {c} : curr_vcpu'[d] = curr_vcpu[d]
      /\ curr_vcpu'[c] = Idle \/ curr_vcpu'[c] = curr_vcpu[c]
      /\ \A v \in Vcpus : vcpu_dirty_cpumask'[v] = Loaded(v)'
  <2>1. CASE curr_vcpu[c] = current[c] /\ UNCHANGED <<vcpu_dirty_cpumask, curr_vcpu>>
    BY <2>1 DEF Core, Registers, Loaded
  <2>2. CASE curr_vcpu[c] # current[c] /\ Swaps(c, current[c])
    <3>1. current[c] = Idle
      BY <2>2 DEF Core, Registers
    <3>2. /\ \A v \in Vcpus : vcpu_dirty_cpumask'[v] = IF v = Idle THEN vcpu_dirty_cpumask[v] \cup {c}
                                                       ELSE vcpu_dirty_cpumask[v] \ {c}
          /\ curr_vcpu'[c] = Idle /\ \A d \in Cpus \ {c} : curr_vcpu'[d] = curr_vcpu[d]
      BY <2>2, <3>1 DEF Swaps
    <3>3. \A v \in Vcpus : v # Idle /\ Loaded(v)' = Loaded(v) \ {c}
      BY <3>2, SchedAssumption, SMT DEF Loaded
    <3>4. \A v \in Vcpus : vcpu_dirty_cpumask[v] = Loaded(v)
      BY DEF Core, Registers
    <3>5. ASSUME NEW v \in Vcpus PROVE vcpu_dirty_cpumask'[v] = Loaded(v)'
      <4>1. vcpu_dirty_cpumask'[v] = vcpu_dirty_cpumask[v] \ {c} /\ Loaded(v)' = Loaded(v) \ {c}
        BY <3>2, <3>3
      <4> QED
        BY <3>4, <4>1
    <3> QED
      BY <3>1, <3>2, <3>5
  <2> QED
    BY <2>1, <2>2 DEF FlushIpiDoes
<1>8. \A v \in Vcpus : Loaded(v)' \subseteq Loaded(v)
  BY <1>7, SchedAssumption DEF Loaded
<1>9. Registers'
  <2>1. ASSUME NEW d \in Cpus, NEW e \in Cpus, curr_vcpu'[d] = curr_vcpu'[e], curr_vcpu'[d] # Idle
        PROVE  d = e
    <3>1. curr_vcpu'[d] = curr_vcpu[d] /\ curr_vcpu'[e] = curr_vcpu[e]
      BY <1>7, <2>1
    <3>2. curr_vcpu[d] = curr_vcpu[e] /\ curr_vcpu[d] # Idle
      BY <2>1, <3>1
    <3> QED
      BY <3>2 DEF Core, Registers
  <2>2. ASSUME NEW d \in Cpus
        PROVE  /\ curr_vcpu'[d] = current[d] \/ current[d] = Idle
               /\ loc'[d].pc = "flush" =>
                    curr[d] # Idle /\ Loaded(curr[d])' \subseteq loc'[d].mask /\ d \notin loc'[d].mask
               /\ loc'[d].pc = "enter" /\ curr[d] # Idle => Loaded(curr[d])' \subseteq {d}
    <3>0. d \in Threads /\ (curr[d] # Idle => curr[d] \in Vcpus)
      BY <1>1 DEF Threads, TQueue
    <3>1. curr_vcpu'[d] = current[d] \/ current[d] = Idle
      BY <1>7 DEF Core, Registers
    <3>2. CASE d = t
      <4>1. curr[d] # Idle /\ Loaded(curr[d]) \subseteq loc[d].mask /\ d \notin loc[d].mask
        BY <1>2, <3>2 DEF Core, Registers
      <4>2. c \notin Loaded(curr[d])'
        <5>1. c # d
          BY <1>2, <3>2, <4>1
        <5>2. current[c] = curr[d] => processor[curr[d]] = c /\ processor[curr[d]] = d
          BY <4>1 DEF Core, Placed
        <5> QED
          BY <1>2, <1>7, <5>1, <5>2 DEF Loaded
      <4>3. Loaded(curr[d])' \subseteq loc'[d].mask
        BY <1>2, <1>8, <3>0, <3>2, <4>1, <4>2
      <4>4. loc'[d].pc = "enter" => loc'[d].mask = {}
        BY <1>2, <3>2
      <4> QED
        BY <1>2, <3>1, <3>2, <4>1, <4>3, <4>4
    <3>3. CASE d # t
      BY <1>2, <1>3, <1>8, <3>0, <3>1, <3>3 DEF Core, Registers
    <3> QED
      BY <3>2, <3>3
  <2> QED
    BY <1>2, <1>7, <2>1, <2>2 DEF Registers
<1>10. ASSUME NEW a \in Agents PROVE Off(a)'
  <2>0. Off(a) /\ a \in Threads
    BY DEF Core, AllOff, Threads
  <2>1. \A d \in Cpus : loc[a].v \in runq'[d] => Queued(loc[a].v)
    BY <1>2 DEF Queued
  <2>2. \A d \in Cpus : curr'[d] = loc[a].v /\ loc'[d].pc = "switch" => curr[d] = loc[a].v /\ loc[d].pc = "switch"
    BY <1>2, <1>3, <1>5 DEF Threads
  <2>3. CASE a # t
    <3>1. loc[a].pc \in {"flush", "held"} => \A d \in Cpus : curr_vcpu'[d] = loc[a].v => curr_vcpu[d] = loc[a].v
      BY <1>1, <1>7, StopsOn DEF Stopping
    <3> QED
      BY <1>2, <1>3, <2>0, <2>1, <2>2, <2>3, <3>1, OffFrame
  <2>4. CASE a = t
    <3>0. PICK v : v = loc[a].v
      OBVIOUS
    <3>1. v \in Vcpus /\ v # Idle
      BY <1>1, <3>0, <1>2, <2>4, StopsOn DEF Stopping
    <3>2. /\ ~Queued(v) /\ (\A d \in Cpus : curr[d] = v => loc[d].pc # "switch")
          /\ v \notin is_running /\ Loaded(v) \subseteq loc[a].mask
      BY <1>2, <2>0, <2>4, <3>0 DEF Off
    <3>3. current[c] # v
      BY <3>1, <3>2, SMT DEF Core, Placed, Runs, OnCpu
    <3>4. Loaded(v)' \subseteq loc'[a].mask
      <4>1. c \notin Loaded(v)'
        BY <1>7, <3>3 DEF Loaded
      <4> QED
        BY <1>2, <1>8, <2>4, <3>0, <3>1, <3>2, <4>1
    <3>5. ~Queued(v)' /\ \A d \in Cpus : curr'[d] = v => loc'[d].pc # "switch"
      BY <2>1, <2>2, <3>0, <3>2 DEF Queued
    <3>6. t \notin Cpus
      BY <2>4, SchedAssumption
    <3>7. loc'[a].v = v /\ (loc'[a].pc = "held" => loc'[a].mask = {})
      BY <1>2, <2>4, <3>0
    <3> QED
      BY <1>2, <3>2, <3>4, <3>5, <3>7 DEF Off, Queued, Loaded
  <2> QED
    BY <2>3, <2>4
<1> QED
  BY <1>6, <1>9, <1>10 DEF Core, AllOff

(* csched_schedule(): the vcpu that is chosen was queued, so it is not     *)
(* paused; if it comes from another CPU, that one is not in a switch.      *)
LEMMA PickCore ==
  ASSUME Sane, Core, NEW c \in Cpus, Requeues(c), PickDoes(c)
  PROVE  Core'
<1>1. /\ TLoc /\ TPlace /\ TQueue /\ TArch /\ Carries /\ Holds /\ Paused
  BY DEF Sane
<1>2. /\ loc[c].pc = "lock" /\ UNCHANGED <<runstate, arch, current, curr_vcpu, vcpu_dirty_cpumask, is_running>>
      /\ \/ UNCHANGED <<curr, runq, processor, loc>>
         \/ \E v \in Vcpus \cup {Idle}, s \in Cpus : Chosen(c, v, s)
  BY DEF PickDoes
<1>3. CASE UNCHANGED <<curr, runq, processor, loc>>
  BY <1>2, <1>3, StutterCore
<1>4. ASSUME NEW v \in Vcpus \cup {Idle}, NEW s \in Cpus, Chosen(c, v, s) PROVE Core'
  <2>1. curr[c] = current[c] /\ (current[c] # Idle => processor[current[c]] = c)
    BY <1>2 DEF Core, Placed, Turning
  <2>2. /\ Requeued(c) \in [Cpus -> SUBSET Vcpus]
        /\ \A d \in Cpus \ {c} : Requeued(c)[d] = runq[d]
        /\ \/ Requeued(c)[c] = runq[c]
           \/ /\ current[c] \in Vcpus /\ vcpu_runnable(current[c])
              /\ Requeued(c)[c] = runq[c] \cup {current[c]}
    BY DEF Requeues
  <2>3. /\ curr'[c] = v /\ (\A d \in Cpus \ {c} : curr'[d] = curr[d])
        /\ runq'[s] = Requeued(c)[s] \ {v} /\ \A d \in Cpus \ {s} : runq'[d] = Requeued(c)[d]
    BY <1>1, <1>4, <2>2 DEF Chosen, TQueue
  <2>4. v # Idle => v \in Requeued(c)[s]
    BY <1>4 DEF Chosen
  <2>5. CASE v = current[c]
    <3>1. s = c
      <4>1. ASSUME s # c PROVE v \in Vcpus /\ v \in runq[s]
        BY <1>4, <2>2, <2>4, <4>1, SchedAssumption DEF Chosen
      <4> QED
        BY <2>1, <2>5, <4>1, SchedAssumption DEF Core, Placed
    <3>2. Plain(c) /\ UNCHANGED processor
      BY <1>4, <2>5, <3>1 DEF Chosen
    <3>3. UNCHANGED curr
      BY <1>1, <1>4, <2>1, <2>5 DEF Chosen, TQueue
    <3>4. \A d \in Cpus : runq'[d] \subseteq runq[d]
      BY <2>2, <2>3, <2>5, <3>1
    <3>5. SameRunning /\ c \in Threads
      BY <1>2 DEF SameRunning, Threads
    <3> QED
      BY <1>1, <1>2, <3>2, <3>3, <3>4, <3>5, PlainCore
  <2>6. CASE v # current[c]
    <3>1. loc'[c].pc = "switch" /\ Others(c)
      BY <1>4, <2>6 DEF Chosen
    <3>2. (\A d \in Cpus \ {c} : loc'[d] = loc[d]) /\ \A a \in Agents : loc'[a] = loc[a]
      BY <3>1, CpuAlone
    <3>3. v # Idle => v \in Vcpus /\ v \in runq[s] /\ processor[v] = s
      BY <2>2, <2>4, <2>6, SMT DEF Core, Placed
    <3>4. v # Idle => processor'[v] = c
      BY <1>1, <1>4, <3>3 DEF Chosen, TPlace
    <3>5. \A x \in Vcpus \ {v} : processor'[x] = processor[x]
      BY <1>1, <1>4 DEF Chosen, TPlace
    <3>6. s # c => /\ v \in Vcpus \ is_running
                   /\ \A d \in Cpus : curr[d] # v /\ current[d] # v /\ Charged(d) # v /\ ~OnCpu(v, d)
                   /\ \A d \in Cpus : loc[d].pc = "saved" => loc[d].v # v
      <4> SUFFICES ASSUME s # c
                   PROVE  /\ v \in Vcpus \ is_running
                          /\ \A d \in Cpus : curr[d] # v /\ current[d] # v /\ Charged(d) # v /\ ~OnCpu(v, d)
                          /\ \A d \in Cpus : loc[d].pc = "saved" => loc[d].v # v
        OBVIOUS
      <4>1. v \in Vcpus \ is_running /\ Free(s)
        BY <1>4 DEF Chosen
      <4>2. processor[v] = s /\ loc[s].pc # "switch"
        BY <1>1, <3>3, <4>1, FreeCpu, SchedAssumption
      <4> QED
        BY <1>1, <4>1, <4>2, Nowhere DEF Core
    <3>7. s = c => UNCHANGED processor
      BY <1>4 DEF Chosen
    <3>8. Placed'
      <4> SUFFICES ASSUME NEW d \in Cpus
                   PROVE  /\ loc'[d].pc \in Turning <=> curr'[d] # current[d]
                          /\ curr'[d] # Idle => processor'[curr'[d]] = d
                          /\ current[d] # Idle => processor'[current[d]] = d
                          /\ loc'[d].pc = "saved" /\ loc'[d].v # Idle =>
                               processor'[loc'[d].v] = d /\ loc'[d].v # curr'[d]
                          /\ \A x \in runq'[d] : processor'[x] = d /\ x # curr'[d]
        BY <1>2 DEF Placed
      <4>1. /\ curr[d] \in Vcpus \cup {Idle} /\ current[d] \in Vcpus \cup {Idle} /\ runq[d] \subseteq Vcpus
            /\ loc[d].v \in Vcpus \cup {Idle}
        BY <1>1 DEF TQueue, TArch, TLoc, Locals, Threads
      <4>2. \A x \in runq'[d] : /\ x \in runq[d] \/ (d = c /\ x = current[c] /\ x \in Vcpus)
                                /\ d = s => x # v
        BY <2>2, <2>3
      <4>3. \A x \in runq'[d] : x \in Vcpus /\ processor[x] = d
        <5>1. \A x \in runq[d] : x \in Vcpus /\ processor[x] = d
          BY <4>1 DEF Core, Placed
        <5>2. current[c] \in Vcpus => processor[current[c]] = c
          BY <2>1, SchedAssumption
        <5> QED
          BY <4>2, <5>1, <5>2
      <4>4. \A x \in runq'[d] : x # v
        BY <3>3, <4>2, <4>3, SchedAssumption
      <4>5. \A x \in runq'[d] : processor'[x] = d
        BY <3>5, <4>3, <4>4, SMT
      <4>6. CASE d = c
        <5>1. current[c] # Idle => processor'[current[c]] = c
          BY <2>1, <2>6, <3>5, <4>1, <4>6
        <5> QED
          BY <2>3, <2>6, <3>1, <3>4, <4>4, <4>5, <4>6, <5>1 DEF Turning
      <4>7. CASE d # c
        <5>1. /\ curr[d] # Idle => processor[curr[d]] = d
              /\ current[d] # Idle => processor[current[d]] = d
              /\ loc[d].pc = "saved" /\ loc[d].v # Idle => processor[loc[d].v] = d /\ loc[d].v # curr[d]
              /\ loc[d].pc \in Turning <=> curr[d] # current[d]
          BY DEF Core, Placed
        <5>2. /\ curr[d] # Idle => curr[d] # v
              /\ current[d] # Idle => current[d] # v
              /\ loc[d].pc = "saved" /\ loc[d].v # Idle => loc[d].v # v
          BY <3>3, <3>6, <4>7, <5>1
        <5>3. \A x \in runq'[d] : x # curr[d]
          BY <4>2, <4>7 DEF Core, Placed
        <5> QED
          BY <2>3, <3>2, <3>5, <4>1, <4>5, <4>7, <5>1, <5>2, <5>3, SMT
      <4> QED
        BY <4>6, <4>7
    <3>9. \A d \in Cpus : /\ Charged(d)' = Charged(d)
                          /\ \A x : OnCpu(x, d)' <=> OnCpu(x, d)
      <4> SUFFICES ASSUME NEW d \in Cpus
                   PROVE  Charged(d)' = Charged(d) /\ \A x : OnCpu(x, d)' <=> OnCpu(x, d)
        OBVIOUS
      <4>1. CASE d = c
        BY <1>2, <2>1, <3>1, <4>1 DEF Charged, OnCpu
      <4>2. CASE d # c
        BY <1>2, <2>3, <3>2, <4>2 DEF Charged, OnCpu
      <4> QED
        BY <4>1, <4>2
    <3>10. ASSUME NEW x \in Vcpus
           PROVE  /\ x \in is_running <=> OnCpu(x, processor'[x])
                  /\ runstate[x] = "running" <=> x = Charged(processor'[x])
      <4>1. /\ x \in is_running <=> OnCpu(x, processor[x])
            /\ runstate[x] = "running" <=> x = Charged(processor[x])
            /\ processor[x] \in Cpus
        BY <1>1 DEF Core, Runs, Accounted, TPlace
      <4>2. CASE x # v \/ s = c
        BY <3>5, <3>7, <4>1, <4>2
      <4>3. CASE x = v /\ s # c
        <5>1. processor'[x] = c
          BY <3>4, <4>3, SchedAssumption
        <5> QED
          BY <3>6, <4>1, <4>3, <5>1
      <4> QED
        BY <4>2, <4>3
    <3>11. Runs' /\ Accounted'
      <4>1. \A x \in Vcpus : processor'[x] \in Cpus
        BY <1>1, <3>4, <3>5, SchedAssumption DEF TPlace
      <4> QED
        BY <1>2, <3>9, <3>10, <4>1 DEF Runs, Accounted
    <3>12. Registers'
      <4>1. \A x : Loaded(x)' = Loaded(x)
        BY <1>2 DEF Loaded
      <4>2. \A d \in Cpus : \/ loc'[d].pc \notin {"flush", "enter"}
                            \/ loc'[d] = loc[d] /\ curr'[d] = curr[d]
        BY <2>3, <3>1, <3>2
      <4> QED
        BY <1>2, <4>1, <4>2 DEF Core, Registers
    <3>13. ASSUME NEW a \in Agents PROVE Off(a)'
      <4>1. Off(a) /\ loc'[a] = loc[a]
        BY <3>2 DEF Core, AllOff
      <4>2. CASE loc[a].pc \notin Stopping
        BY <4>1, <4>2, OffFrame
      <4>3. CASE loc[a].pc \in Stopping
        <5> DEFINE w == loc[a].v
        <5>1. w \in Vcpus /\ w # Idle /\ ~vcpu_runnable(w)
          BY <1>1, <4>3, StopsOn, PauseIsCounted DEF Stopping, Pausing
        <5>2. ~Queued(w)
          BY <4>1, <4>3 DEF Off, Stopping
        <5>3. w # v
          BY <3>3, <5>1, <5>2 DEF Queued
        <5>4. \A d \in Cpus : w \notin runq'[d]
          BY <2>2, <2>3, <5>1, <5>2, SMT DEF Queued
        <5>5. \A d \in Cpus : curr'[d] = w /\ loc'[d].pc = "switch" => curr[d] = w /\ loc[d].pc = "switch"
          BY <2>3, <3>2, <5>3
        <5> QED
          BY <1>2, <4>1, <5>4, <5>5, OffFrame
      <4> QED
        BY <4>2, <4>3
    <3> QED
      BY <3>8, <3>11, <3>12, <3>13 DEF Core, AllOff
  <2> QED
    BY <2>5, <2>6
<1> QED
  BY <1>2, <1>3, <1>4

LEMMA DoesCore ==
  ASSUME Sane, Core, Does, ~moved'
  PROVE  Core'
<1>1. TPlace /\ Agents \subseteq Threads
  BY DEF Sane, Threads
<1>2. ASSUME NEW t \in Threads, PlainDoes(t) PROVE Core'
  BY <1>1, <1>2, PlainCore DEF PlainDoes
<1>3. ASSUME NEW a \in Agents, AwayDoes(a) PROVE Core'
  <2>1. Off(a)'
    BY <1>3, OffFrame DEF Core, AllOff, AwayDoes
  <2> QED
    BY <1>1, <1>3, <2>1, AgentCore DEF AwayDoes
<1> QED
  BY <1>2, <1>3, WakeCore, LockCore, LockedCore, PauseSyncCore, PauseSleepCore, DirtyCore, PickCore, SwitchCore,
     EnterCore, SavedCore, FlushIpiCore DEF Does

-----------------------------------------------------------------------------
\* Events, ports and polls

\* no vcpu blocks
NoneBlocks == \A v \in Vcpus : "blocked" \in pause_flags'[v] => "blocked" \in pause_flags[v]

LEMMA FlagsNoneBlock ==
  /\ UNCHANGED pause_flags => NoneBlocks
  /\ \A v : Gains(v, "migrating") => NoneBlocks
  /\ \A v, f : Loses(v, f) => NoneBlocks
<1>1. UNCHANGED pause_flags => NoneBlocks
  BY DEF NoneBlocks
<1>2. ASSUME NEW v, Gains(v, "migrating") PROVE NoneBlocks
  <2>1. \A x \in Vcpus : pause_flags'[x] \subseteq pause_flags[x] \cup {"migrating"}
    BY <1>2 DEF Gains
  <2> QED
    BY <2>1 DEF NoneBlocks
<1>3. ASSUME NEW v, NEW f, Loses(v, f) PROVE NoneBlocks
  BY <1>3 DEF NoneBlocks, Loses
<1> QED
  BY <1>1, <1>2, <1>3

LEMMA SeenFrame ==
  ASSUME Seen, NEW t \in Threads, Others(t),
         \A v \in upcall' : "blocked" \in pause_flags'[v] =>
            Looks(t, v)' \/ (v \in upcall /\ "blocked" \in pause_flags[v] /\ ~Looks(t, v))
  PROVE  Seen'
<1>1. \A u \in Threads \ {t}, v \in upcall : Looks(u, v) => Looks(u, v)'
  BY DEF Others, Looks
<1> QED
  BY <1>1 DEF Seen

LEMMA SeenQuiet ==
  ASSUME Seen, TEvents, NEW t \in Threads, Others(t), loc[t].pc \notin Looking \cup {"unblock"},
         upcall' \subseteq upcall, NoneBlocks
  PROVE  Seen'
<1>1. \A v : ~Looks(t, v)
  BY DEF Looks
<1>2. upcall \subseteq Vcpus
  BY DEF TEvents
<1> QED
  BY <1>1, <1>2, SeenFrame DEF NoneBlocks

LEMMA SeenStep ==
  ASSUME Seen, TEvents, Stirs
  PROVE  Seen'
<1>1. Agents \subseteq Threads /\ Cpus \subseteq Threads
  BY DEF Threads
<1>2. ASSUME NEW t \in Agents, NEW v \in Vcpus, BeginsDoes(t, v) PROVE Seen'
  <2>1. t \in Threads /\ Others(t) /\ loc[t].pc = "run"
    BY <1>1, <1>2 DEF BeginsDoes, Goes
  <2>2. loc[t].pc \notin Looking \cup {"unblock"}
    BY <2>1 DEF Looking
  <2>3. CASE Goes(t, "run", "unblock", v) /\ upcall' = upcall \cup {v} /\ UNCHANGED pause_flags
    BY <2>1, <2>2, <2>3, SeenFrame DEF Goes, Looks
  <2>4. CASE UNCHANGED upcall /\ NoneBlocks
    BY <2>1, <2>2, <2>4, SeenQuiet
  <2> QED
    BY <1>2, <2>3, <2>4, FlagsNoneBlock DEF BeginsDoes
<1>3. ASSUME NEW t \in Agents, NEW v \in Vcpus, AgentDoes(t, v) PROVE Seen'
  <2>1. Others(t) /\ loc[t].pc \in {"pollers", "polled", "spin", "held", "asked"} /\ UNCHANGED <<upcall, pause_flags>>
    BY <1>3 DEF AgentDoes, Goes, Ends, Calm
  <2> QED
    BY <1>1, <2>1, SeenQuiet, FlagsNoneBlock DEF Looking
<1>4. ASSUME NEW t \in Cpus, NEW v \in Vcpus, loc[t].pc \in {"run", "lock"}, GuestDoes(t, v) PROVE Seen'
  <2>1. Others(t) /\ upcall' \subseteq upcall /\ NoneBlocks
    BY <1>4, FlagsNoneBlock DEF GuestDoes, Ends, Others
  <2> QED
    BY <1>1, <1>4, <2>1, SeenQuiet DEF Looking
<1>5. ASSUME NEW t \in Cpus, NEW v \in Vcpus, loc[t].pc \in {"run", "lock"}, BlocksDoes(t, v) PROVE Seen'
  <2>1. Others(t) /\ Looks(t, v)' /\ \A x \in Vcpus \ {v} : pause_flags'[x] = pause_flags[x]
    BY <1>5 DEF BlocksDoes, Goes, Looks, Looking, Gains
  <2>2. \A x : ~Looks(t, x)
    BY <1>5 DEF Looks, Looking
  <2> QED
    BY <1>1, <1>5, <2>1, <2>2, SeenFrame DEF BlocksDoes, TEvents
<1>6. ASSUME NEW t \in Cpus, NEW v \in Vcpus, v = loc[t].v, BlockDoes(t, v) PROVE Seen'
  <2>1. Others(t) /\ UNCHANGED upcall /\ NoneBlocks
    BY <1>6, FlagsNoneBlock DEF BlockDoes, Goes, Ends, Calm
  <2>2. \A x : Looks(t, x) => x = v
    BY <1>6 DEF Looks
  <2>3. v \in upcall => Looks(t, v)' \/ "blocked" \notin pause_flags'[v] \/ ~Looks(t, v)
    BY <1>6 DEF BlockDoes, Goes, Ends, Calm, Looks, Looking, Loses
  <2> QED
    BY <1>1, <2>1, <2>2, <2>3, SeenFrame DEF NoneBlocks, TEvents
<1>7. ASSUME NEW t \in Threads, NEW v \in Vcpus, v = loc[t].v, UnblockDoes(t, v) PROVE Seen'
  <2>1. Others(t) /\ UNCHANGED upcall /\ NoneBlocks
    BY <1>7, FlagsNoneBlock DEF UnblockDoes, Goes, Ends, Calm
  <2>2. \A x : Looks(t, x) => x = v
    BY <1>7 DEF Looks
  <2>3. "blocked" \notin pause_flags'[v] \/ ~Looks(t, v)
    BY <1>7 DEF UnblockDoes, Goes, Ends, Calm, Looks, Looking, Loses
  <2> QED
    BY <2>1, <2>2, <2>3, SeenFrame DEF NoneBlocks, TEvents
<1>8. ASSUME NEW t \in Cpus, NEW v, CpuDoes(t, v) PROVE Seen'
  <2>1. Others(t) /\ loc[t].pc \in {"run", "dirty", "tail"} /\ UNCHANGED <<upcall, pause_flags>>
    BY <1>8 DEF CpuDoes, Goes, Ends, Calm
  <2> QED
    BY <1>1, <2>1, SeenQuiet, FlagsNoneBlock DEF Looking
<1> QED
  BY <1>2, <1>3, <1>4, <1>5, <1>6, <1>7, <1>8 DEF Stirs

\* The same for the port, with vcpus that are not in poll_mask
LEMMA PortFrame ==
  ASSUME PortSeen, NEW t \in Threads, Others(t),
         \A v \in port' \cap polls' : "blocked" \in pause_flags'[v] =>
            Polls(t, v)' \/ (v \in port \cap polls /\ "blocked" \in pause_flags[v] /\ ~Polls(t, v))
  PROVE  PortSeen'
<1>1. \A u \in Threads \ {t}, v \in port : Polls(u, v) => Polls(u, v)'
  BY DEF Others, Polls
<1> QED
  BY <1>1 DEF PortSeen

LEMMA MaskFrame ==
  ASSUME MaskSeen, NEW t \in Threads, Others(t),
         \A v \in polls' \ poll_mask' : "blocked" \in pause_flags'[v] =>
            Unmasks(t, v)' \/ (v \in polls \ poll_mask /\ "blocked" \in pause_flags[v] /\ ~Unmasks(t, v))
  PROVE  MaskSeen'
<1>1. \A u \in Threads \ {t}, v \in polls : Unmasks(u, v) => Unmasks(u, v)'
  BY DEF Others, Unmasks
<1> QED
  BY <1>1 DEF MaskSeen

LEMMA PollQuiet ==
  ASSUME PortSeen, MaskSeen, polls \subseteq Vcpus, UNCHANGED polls, NEW t \in Threads, Others(t),
         loc[t].pc \notin Polling1 \cup {"pollers", "polled", "unblock", "reclear"},
         port' \subseteq port, poll_mask \subseteq poll_mask', NoneBlocks
  PROVE  PortSeen' /\ MaskSeen'
<1>1. \A v : ~Polls(t, v) /\ ~Unmasks(t, v)
  BY DEF Polls, Unmasks, Polling1
<1>2. PortSeen'
  BY <1>1, PortFrame DEF NoneBlocks
<1>3. MaskSeen'
  BY <1>1, MaskFrame DEF NoneBlocks
<1> QED
  BY <1>2, <1>3

LEMMA PollBlocks ==
  ASSUME PortSeen, MaskSeen, TEvents, polls \subseteq Vcpus, NEW t \in Cpus, NEW v \in Vcpus,
         BlocksDoes(t, v)
  PROVE  PortSeen' /\ MaskSeen'
<1>1. t \in Threads /\ Others(t) /\ loc[t].pc = "run" /\ UNCHANGED <<port, poll_mask>>
  BY DEF BlocksDoes, Goes, Threads
<1>2. \A x \in Vcpus \ {v} : pause_flags'[x] = pause_flags[x] /\ (x \in polls' <=> x \in polls)
  BY DEF BlocksDoes, Gains
<1>3. v \in polls' => Polls(t, v)' /\ Unmasks(t, v)'
  BY DEF BlocksDoes, Goes, Polls, Polling1, Unmasks
<1>4. \A x : ~Polls(t, x) /\ ~Unmasks(t, x)
  BY <1>1 DEF Polls, Unmasks, Polling1
<1>5. polls' \subseteq Vcpus
  BY DEF BlocksDoes
<1>6. PortSeen'
  BY <1>1, <1>2, <1>3, <1>4, <1>5, PortFrame
<1>7. MaskSeen'
  BY <1>1, <1>2, <1>3, <1>4, <1>5, MaskFrame
<1> QED
  BY <1>6, <1>7

LEMMA PollStep ==
  ASSUME PortSeen, MaskSeen, TEvents, polls \subseteq Vcpus, Stirs, UNCHANGED polls
  PROVE  PortSeen' /\ MaskSeen'
<1>1. Agents \subseteq Threads /\ Cpus \subseteq Threads /\ port \subseteq Vcpus
  BY DEF Threads, TEvents
<1>2. ASSUME NEW t \in Agents, NEW v \in Vcpus, BeginsDoes(t, v) PROVE PortSeen' /\ MaskSeen'
  <2>1. t \in Threads /\ Others(t) /\ loc[t].pc = "run" /\ NoneBlocks
    BY <1>1, <1>2, FlagsNoneBlock DEF BeginsDoes, Goes
  <2>2. loc[t].pc \notin Polling1 \cup {"pollers", "polled", "unblock", "reclear"}
    BY <2>1 DEF Polling1
  <2>3. \A x : ~Polls(t, x) /\ ~Unmasks(t, x)
    BY <2>1 DEF Polls, Unmasks, Polling1
  <2>4. CASE UNCHANGED <<port, poll_mask>>
    BY <2>1, <2>2, <2>4, PollQuiet
  <2>5. CASE Goes(t, "run", "pollers", v) /\ port' = port \cup {v} /\ UNCHANGED poll_mask
    <3>1. Polls(t, v)'
      BY <2>5 DEF Goes, Polls
    <3>2. PortSeen'
      BY <1>1, <2>1, <2>3, <2>5, <3>1, PortFrame DEF NoneBlocks
    <3>3. MaskSeen'
      BY <2>1, <2>3, <2>5, MaskFrame DEF NoneBlocks
    <3> QED
      BY <3>2, <3>3
  <2>6. CASE Goes(t, "run", "unblock", v) /\ poll_mask' = poll_mask \ {v} /\ UNCHANGED port
    <3>1. Unmasks(t, v)'
      BY <2>6 DEF Goes, Unmasks
    <3>2. PortSeen'
      BY <1>1, <2>1, <2>3, <2>6, PortFrame DEF NoneBlocks
    <3>3. MaskSeen'
      BY <2>1, <2>3, <2>6, <3>1, MaskFrame DEF NoneBlocks
    <3> QED
      BY <3>2, <3>3
  <2> QED
    BY <1>2, <2>4, <2>5, <2>6 DEF BeginsDoes
<1>3. ASSUME NEW t \in Agents, NEW v \in Vcpus, v = loc[t].v, AgentDoes(t, v) PROVE PortSeen' /\ MaskSeen'
  <2>1. /\ t \in Threads /\ Others(t) /\ loc[t].pc \in {"pollers", "polled", "spin", "held", "asked"}
        /\ UNCHANGED <<port, pause_flags>> /\ NoneBlocks
    BY <1>1, <1>3, FlagsNoneBlock DEF AgentDoes, Goes, Ends, Calm
  <2>2. CASE loc[t].pc \in {"spin", "held", "asked"}
    <3>1. UNCHANGED poll_mask
      BY <1>3, <2>2 DEF AgentDoes, Goes, Ends, Calm
    <3> QED
      BY <2>1, <2>2, <3>1, PollQuiet DEF Polling1
  <2>3. CASE loc[t].pc \in {"pollers", "polled"} /\ loc'[t].pc \in {"polled", "unblock"} /\ loc'[t].v = v
    <3>1. Polls(t, v)' /\ Unmasks(t, v)' /\ \A x : Polls(t, x) \/ Unmasks(t, x) => x = v
      BY <1>3, <2>3 DEF Polls, Unmasks
    <3>2. \A x : x # v => (x \in poll_mask' <=> x \in poll_mask)
      BY <1>3 DEF AgentDoes, Calm
    <3>3. PortSeen'
      BY <1>1, <2>1, <3>1, PortFrame DEF NoneBlocks
    <3>4. MaskSeen'
      BY <2>1, <3>1, <3>2, MaskFrame DEF NoneBlocks
    <3> QED
      BY <3>3, <3>4
  <2>4. CASE loc[t].pc = "pollers" /\ v \notin poll_mask /\ poll_mask' = poll_mask \ {v}
    <3>1. UNCHANGED poll_mask
      BY <2>4
    <3>2. \A x : ~Unmasks(t, x) /\ (Polls(t, x) => x = v)
      BY <1>3, <2>4 DEF Unmasks, Polls
    <3>3. MaskSeen'
      BY <2>1, <3>1, <3>2, MaskFrame DEF NoneBlocks
    <3>4. \A u \in Threads \ {t} : \A x : Polls(u, x) => Polls(u, x)'
      BY <2>1 DEF Others, Polls
    <3>5. \A u \in Threads : \A x : Unmasks(u, x) => Polls(u, x)
      BY DEF Unmasks, Polls, Polling1
    <3>6. ASSUME v \in port \cap polls, "blocked" \in pause_flags[v] PROVE \E u \in Threads \ {t} : Polls(u, v)
      BY <2>4, <3>2, <3>5, <3>6 DEF MaskSeen
    <3>7. PortSeen'
      BY <2>1, <3>2, <3>4, <3>6 DEF PortSeen
    <3> QED
      BY <3>3, <3>7
  <2> QED
    BY <1>3, <2>1, <2>2, <2>3, <2>4 DEF AgentDoes, Goes, Ends
<1>4. ASSUME NEW t \in Cpus, NEW v \in Vcpus, loc[t].pc \in {"run", "lock"}, GuestDoes(t, v) PROVE PortSeen' /\ MaskSeen'
  <2>1. Others(t) /\ port' \subseteq port /\ UNCHANGED poll_mask /\ NoneBlocks
    BY <1>4, FlagsNoneBlock DEF GuestDoes, Ends, Others
  <2> QED
    BY <1>1, <1>4, <2>1, PollQuiet DEF Polling1
<1>5. ASSUME NEW t \in Cpus, NEW v \in Vcpus, v = loc[t].v, BlockDoes(t, v) PROVE PortSeen' /\ MaskSeen'
  <2>1. Others(t) /\ UNCHANGED port /\ NoneBlocks /\ \A x : x # v => (x \in poll_mask' <=> x \in poll_mask)
    BY <1>5, FlagsNoneBlock DEF BlockDoes, Goes, Ends, Calm
  <2>2. \A x : Polls(t, x) \/ Unmasks(t, x) => x = v
    BY <1>5 DEF Polls, Unmasks
  <2>3. v \in port => Polls(t, v)' \/ "blocked" \notin pause_flags'[v] \/ ~Polls(t, v)
    BY <1>5 DEF BlockDoes, Goes, Ends, Calm, Polls, Polling1, Loses
  <2>4. \/ v \in poll_mask' \/ Unmasks(t, v)' \/ "blocked" \notin pause_flags'[v]
        \/ ~Unmasks(t, v) /\ v \notin poll_mask
    BY <1>5 DEF BlockDoes, Goes, Ends, Calm, Unmasks, Loses
  <2>5. PortSeen'
    BY <1>1, <2>1, <2>2, <2>3, PortFrame DEF NoneBlocks
  <2>6. MaskSeen'
    BY <1>1, <2>1, <2>2, <2>4, MaskFrame DEF NoneBlocks
  <2> QED
    BY <2>5, <2>6
<1>6. ASSUME NEW t \in Threads, NEW v \in Vcpus, v = loc[t].v, UnblockDoes(t, v) PROVE PortSeen' /\ MaskSeen'
  <2>1. Others(t) /\ UNCHANGED port /\ NoneBlocks /\ \A x : x # v => (x \in poll_mask' <=> x \in poll_mask)
    BY <1>6, FlagsNoneBlock DEF UnblockDoes, Goes, Ends, Calm
  <2>2. \A x : Polls(t, x) \/ Unmasks(t, x) => x = v
    BY <1>6 DEF Polls, Unmasks
  <2>3. Polls(t, v)' \/ "blocked" \notin pause_flags'[v] \/ ~Polls(t, v)
    BY <1>6 DEF UnblockDoes, Goes, Ends, Calm, Polls, Polling1, Loses
  <2>4. \/ v \in poll_mask' \/ Unmasks(t, v)' \/ "blocked" \notin pause_flags'[v]
        \/ ~Unmasks(t, v) /\ v \notin poll_mask
    BY <1>6 DEF UnblockDoes, Goes, Ends, Calm, Unmasks, Loses
  <2>5. PortSeen'
    BY <1>1, <2>1, <2>2, <2>3, PortFrame DEF NoneBlocks
  <2>6. MaskSeen'
    BY <2>1, <2>2, <2>4, MaskFrame DEF NoneBlocks
  <2> QED
    BY <2>5, <2>6
<1>7. ASSUME NEW t \in Cpus, NEW v, CpuDoes(t, v) PROVE PortSeen' /\ MaskSeen'
  <2>1. Others(t) /\ loc[t].pc \in {"run", "dirty", "tail"} /\ UNCHANGED <<port, poll_mask, pause_flags>>
    BY <1>7 DEF CpuDoes, Goes, Ends, Calm
  <2> QED
    BY <1>1, <2>1, PollQuiet, FlagsNoneBlock DEF Polling1
<1> QED
  BY <1>2, <1>3, <1>4, <1>5, <1>6, <1>7, PollBlocks DEF Stirs

LEMMA ToilApart ==
  ASSUME Toils
  PROVE  \E t \in Threads :
           /\ Others(t) /\ NoneBlocks
           /\ loc[t].pc \in {"run", "pause", "sleep", "wake", "lock1", "lock2", "switch", "enter", "flush", "saved"}
<1>1. Agents \subseteq Threads /\ Cpus \subseteq Threads
  BY DEF Threads
<1>2. ASSUME NEW t \in Agents, NEW v, AsksDoes(t, v)
      PROVE  Others(t) /\ NoneBlocks /\ loc[t].pc = "run"
  BY <1>2, FlagsNoneBlock DEF AsksDoes, Goes
<1>3. ASSUME NEW t \in Agents, NEW v, SleepsDoes(t, v)
      PROVE  Others(t) /\ NoneBlocks /\ loc[t].pc \in {"pause", "sleep"}
  BY <1>3, FlagsNoneBlock DEF SleepsDoes, SleepDoes, SameFlags, Goes
<1>4. ASSUME NEW t \in Threads, NEW v, WakesDoes(t, v)
      PROVE  Others(t) /\ NoneBlocks /\ loc[t].pc = "wake"
  BY <1>4, FlagsNoneBlock DEF WakesDoes, SameFlags, Ends
<1>5. ASSUME NEW t \in Threads, NEW v, MigratesDoes(t, v)
      PROVE  Others(t) /\ NoneBlocks /\ loc[t].pc \in {"lock1", "lock2"}
  BY <1>5, FlagsNoneBlock DEF MigratesDoes, Goes, Ends
<1>6. ASSUME NEW t \in Threads, SwitchesDoes(t)
      PROVE  Others(t) /\ NoneBlocks /\ loc[t].pc \in {"switch", "enter", "flush"}
  BY <1>6, FlagsNoneBlock DEF SwitchesDoes, SameFlags
<1>7. ASSUME NEW t \in Cpus, NEW v, SavesDoes(t, v)
      PROVE  Others(t) /\ NoneBlocks /\ loc[t].pc = "saved"
  BY <1>7, FlagsNoneBlock DEF SavesDoes, SameFlags, Goes
<1> QED
  BY <1>1, <1>2, <1>3, <1>4, <1>5, <1>6, <1>7 DEF Toils

LEMMA PickApart ==
  ASSUME NEW c \in Cpus, Picks(c)
  PROVE  Others(c) /\ NoneBlocks /\ loc[c].pc = "lock"
<1>1. Others(c) /\ loc[c].pc = "lock"
  BY DEF Picks, PickDoes, Chosen, Others
<1> QED
  BY <1>1, FlagsNoneBlock DEF Picks, SameFlags

LEMMA ToilEvents ==
  ASSUME Seen, PortSeen, MaskSeen, TEvents, polls \subseteq Vcpus, UNCHANGED <<upcall, port, poll_mask, polls>>,
         Toils \/ \E c \in Cpus : Picks(c)
  PROVE  Seen' /\ PortSeen' /\ MaskSeen'
<1>1. PICK t \in Threads :
        /\ Others(t) /\ NoneBlocks
        /\ loc[t].pc \in {"run", "pause", "sleep", "wake", "lock1", "lock2", "switch", "enter", "flush", "saved", "lock"}
  <2>1. CASE Toils
    BY <2>1, ToilApart
  <2>2. CASE \E c \in Cpus : Picks(c)
    BY <2>2, PickApart DEF Threads
  <2> QED
    BY <2>1, <2>2
<1>2. loc[t].pc \notin Looking \cup {"unblock"}
  BY <1>1 DEF Looking
<1>3. loc[t].pc \notin Polling1 \cup {"pollers", "polled", "unblock", "reclear"}
  BY <1>1 DEF Polling1
<1> QED
  BY <1>1, <1>2, <1>3, SeenQuiet, PollQuiet

-----------------------------------------------------------------------------
\* CPUs that idle over a queue, or that somebody waits for

LEMMA NoticedFrame ==
  ASSUME Noticed, StaysTold, UNCHANGED curr,
         \A c \in Cpus : runq'[c] \subseteq runq[c] \/ curr[c] # Idle \/ Told(c)'
  PROVE  Noticed'
BY DEF Noticed, StaysTold

LEMMA NoticedToil ==
  ASSUME Noticed, Toils
  PROVE  Noticed'
<1>1. StaysTold
  BY DEF Toils
<1>2. ASSUME NEW t, NEW v, AsksDoes(t, v) \/ MigratesDoes(t, v) PROVE Noticed'
  BY <1>1, <1>2, NoticedFrame DEF AsksDoes, MigratesDoes, SamePlaces
<1>3. ASSUME NEW t, NEW v, SleepsDoes(t, v) PROVE Noticed'
  BY <1>1, <1>3, NoticedFrame DEF SleepsDoes, SleepDoes
<1>4. ASSUME NEW t, NEW v, WakesDoes(t, v) PROVE Noticed'
  BY <1>1, <1>4, NoticedFrame DEF WakesDoes
<1>5. ASSUME NEW t, SwitchesDoes(t) PROVE Noticed'
  BY <1>1, <1>5, NoticedFrame DEF SwitchesDoes
<1>6. ASSUME NEW t, NEW v, SavesDoes(t, v) PROVE Noticed'
  BY <1>1, <1>6, NoticedFrame DEF SavesDoes
<1> QED
  BY <1>2, <1>3, <1>4, <1>5, <1>6 DEF Toils

\* A CPU that picks is no longer told; the others are, and their queues do not grow.
LEMMA PickOthers ==
  ASSUME TQueue, NEW c \in Cpus, Picks(c), NEW v \in Vcpus \cup {Idle}, NEW s \in Cpus, Chosen(c, v, s)
  PROVE  /\ curr'[c] = v /\ (v = Idle => runq'[c] = {})
         /\ \A d \in Cpus \ {c} : curr'[d] = curr[d] /\ runq'[d] \subseteq runq[d] /\ (Told(d) => Told(d)')
         /\ \A d \in Cpus : runq'[d] \subseteq Requeued(c)[d] /\ Requeued(c)[d] \subseteq runq'[d] \cup {v}
<1>1. /\ Requeued(c) \in [Cpus -> SUBSET Vcpus] /\ \A d \in Cpus \ {c} : Requeued(c)[d] = runq[d]
      /\ runq' = [Requeued(c) EXCEPT ![s] = @ \ {v}] /\ curr' = [curr EXCEPT ![c] = v]
      /\ (v = Idle => Requeued(c)[c] = {}) /\ softirq \ {c} \subseteq softirq' /\ Others(c)
  BY DEF Picks, Requeues, Chosen
<1>2. \A d \in Cpus : runq'[d] \subseteq Requeued(c)[d] /\ Requeued(c)[d] \subseteq runq'[d] \cup {v}
  BY <1>1
<1>3. curr'[c] = v /\ \A d \in Cpus \ {c} : curr'[d] = curr[d]
  BY <1>1 DEF TQueue
<1>4. \A d \in Cpus \ {c} : Told(d) => Told(d)'
  BY <1>1 DEF Told, Others, Threads
<1> QED
  BY <1>1, <1>2, <1>3, <1>4

LEMMA NoticedPick ==
  ASSUME Noticed, TQueue, NEW c \in Cpus, Picks(c)
  PROVE  Noticed'
<1>1. CASE UNCHANGED <<curr, runq, processor, softirq, loc>>
  BY <1>1 DEF Noticed, Told
<1>2. ASSUME NEW v \in Vcpus \cup {Idle}, NEW s \in Cpus, Chosen(c, v, s) PROVE Noticed'
  BY <1>2, PickOthers DEF Noticed
<1> QED
  BY <1>1, <1>2 DEF Picks, PickDoes

LEMMA SpinFrame ==
  ASSUME SpinTold, StaysTold, UNCHANGED curr,
         \A a \in Agents : loc'[a].pc = "spin" => loc[a].pc = "spin" /\ loc'[a].v = loc[a].v
  PROVE  SpinTold'
BY DEF SpinTold, StaysTold

LEMMA SpinOther ==
  ASSUME SpinTold, StaysTold, UNCHANGED curr, NEW t \in Threads, Others(t), loc'[t].pc # "spin"
  PROVE  SpinTold'
<1>1. \A a \in Agents : loc'[a].pc = "spin" => loc[a].pc = "spin" /\ loc'[a].v = loc[a].v
  BY DEF Others, Threads
<1> QED
  BY <1>1, SpinFrame

LEMMA SpinStir ==
  ASSUME SpinTold, Stirs, UNCHANGED curr
  PROVE  SpinTold'
<1>1. Agents \subseteq Threads /\ Cpus \subseteq Threads /\ StaysTold
  BY DEF Threads, Stirs
<1>2. ASSUME NEW t \in Agents, NEW v, BeginsDoes(t, v) \/ AgentDoes(t, v) PROVE SpinTold'
  BY <1>1, <1>2, SpinOther DEF BeginsDoes, AgentDoes, Goes, Ends
<1>3. ASSUME NEW t \in Cpus, NEW v, GuestDoes(t, v) \/ BlocksDoes(t, v) PROVE SpinTold'
  <2>1. CASE UNCHANGED loc
    BY <1>1, <2>1, SpinFrame
  <2> QED
    BY <1>1, <1>3, <2>1, SpinOther DEF GuestDoes, BlocksDoes, Goes, Ends
<1>4. ASSUME NEW t \in Threads, NEW v, BlockDoes(t, v) \/ UnblockDoes(t, v) \/ CpuDoes(t, v) PROVE SpinTold'
  BY <1>1, <1>4, SpinOther DEF BlockDoes, UnblockDoes, CpuDoes, Goes, Ends
<1> QED
  BY <1>1, <1>2, <1>3, <1>4 DEF Stirs

LEMMA SpinToil ==
  ASSUME SpinTold, Placed, Paused, Toils, softirq' \subseteq Cpus
  PROVE  SpinTold'
<1>1. Agents \subseteq Threads /\ Cpus \subseteq Threads /\ StaysTold
  BY DEF Threads, Toils
<1>2. ASSUME NEW t \in Threads, NEW v, AsksDoes(t, v) \/ MigratesDoes(t, v) PROVE SpinTold'
  BY <1>1, <1>2, SpinOther DEF AsksDoes, MigratesDoes, SamePlaces, Goes, Ends
<1>3. ASSUME NEW a \in Agents, NEW v \in Vcpus, v = loc[a].v, SleepsDoes(a, v) PROVE SpinTold'
  <2>1. UNCHANGED curr /\ Others(a)
    BY <1>3 DEF SleepsDoes, SleepDoes, Goes
  <2>2. CASE Goes(a, "pause", "spin", v)
    <3>1. loc'[a].v = v /\ loc[a].pc \in Pausing
      BY <2>2 DEF Goes, Pausing
    <3>2. ~vcpu_runnable(v)
      BY <1>3, <3>1 DEF Paused, vcpu_runnable
    <3>3. ASSUME NEW c \in Cpus, curr[c] = v PROVE c \in softirq'
      <4>0. curr[c] # Idle
        BY <1>3, <3>3, SchedAssumption
      <4>1. processor[v] = c
        BY <3>3, <4>0 DEF Placed
      <4> QED
        BY <1>3, <3>2, <3>3, <4>1 DEF SleepsDoes, SleepDoes
    <3>4. \A b \in Agents \ {a} : loc'[b] = loc[b]
      BY <1>1, <2>1 DEF Others
    <3> QED
      BY <1>1, <2>1, <3>1, <3>3, <3>4 DEF SpinTold, StaysTold, Told
  <2>3. CASE Goes(a, "sleep", "lock1", v)
    BY <1>1, <2>1, <2>3, SpinOther DEF Goes
  <2> QED
    BY <1>3, <2>2, <2>3 DEF SleepsDoes
<1>4. ASSUME NEW t \in Threads, NEW v, WakesDoes(t, v) PROVE SpinTold'
  BY <1>1, <1>4, SpinOther DEF WakesDoes, Ends
<1>5. ASSUME NEW t \in Threads, SwitchesDoes(t) PROVE SpinTold'
  BY <1>1, <1>5, SpinOther DEF SwitchesDoes
<1>6. ASSUME NEW t \in Threads, NEW v, SavesDoes(t, v) PROVE SpinTold'
  BY <1>1, <1>6, SpinOther DEF SavesDoes, Goes
<1> QED
  BY <1>1, <1>2, <1>3, <1>4, <1>5, <1>6 DEF Toils

LEMMA SpinPick ==
  ASSUME SpinTold, AllOff, Paused, Carries, TQueue, NEW c \in Cpus, Picks(c)
  PROVE  SpinTold'
<1>1. CASE UNCHANGED <<curr, runq, processor, softirq, loc>>
  BY <1>1 DEF SpinTold, Told
<1>2. ASSUME NEW v \in Vcpus \cup {Idle}, NEW s \in Cpus, Chosen(c, v, s) PROVE SpinTold'
  <2>1. \A a \in Agents : loc'[a] = loc[a]
    BY <1>2, SchedAssumption DEF Chosen, Others, Threads
  <2>2. ASSUME NEW a \in Agents, loc[a].pc = "spin" PROVE loc[a].v # v
    <3>1. loc[a].v \in Vcpus
      BY <2>2 DEF Carries, Sound, WithVcpu, Threads
    <3>2. ~vcpu_runnable(loc[a].v)
      BY <2>2 DEF Paused, Pausing, vcpu_runnable
    <3>3. \A d \in Cpus : loc[a].v \notin runq[d]
      BY <2>2 DEF AllOff, Off, Queued
    <3>4. \A d \in Cpus : loc[a].v \notin Requeued(c)[d]
      BY <3>2, <3>3 DEF Picks, Requeues
    <3> QED
      BY <1>2, <3>1, <3>4, SchedAssumption DEF Chosen
  <2>3. /\ curr'[c] = v
        /\ \A d \in Cpus \ {c} : curr'[d] = curr[d] /\ (Told(d) => Told(d)')
    BY <1>2, PickOthers
  <2> QED
    BY <2>1, <2>2, <2>3 DEF SpinTold
<1> QED
  BY <1>1, <1>2 DEF Picks, PickDoes

-----------------------------------------------------------------------------
\* Vcpus that are to move

LEMMA WorkFrame ==
  ASSUME AtWork, NEW t \in Threads, Others(t), UNCHANGED curr,
         \A v \in Vcpus \ is_running' : "migrating" \in pause_flags'[v] =>
            Moves(t, v)' \/ (v \notin is_running /\ "migrating" \in pause_flags[v] /\ ~Moves(t, v))
  PROVE  AtWork'
<1>1. \A u \in Threads \ {t}, v \in Vcpus : Moves(u, v) => Moves(u, v)'
  BY DEF Others, Moves
<1> QED
  BY <1>1 DEF AtWork

\* no vcpu is marked
NoneMarked == \A v \in Vcpus : "migrating" \in pause_flags'[v] => "migrating" \in pause_flags[v]

LEMMA FlagsNoneMarked ==
  /\ UNCHANGED pause_flags => NoneMarked
  /\ \A v : Gains(v, "blocked") => NoneMarked
  /\ \A v, f : Loses(v, f) => NoneMarked
<1>1. UNCHANGED pause_flags => NoneMarked
  BY DEF NoneMarked
<1>2. ASSUME NEW v, Gains(v, "blocked") PROVE NoneMarked
  <2>1. \A x \in Vcpus : pause_flags'[x] \subseteq pause_flags[x] \cup {"blocked"}
    BY <1>2 DEF Gains
  <2> QED
    BY <2>1 DEF NoneMarked
<1>3. ASSUME NEW v, NEW f, Loses(v, f) PROVE NoneMarked
  BY <1>3 DEF NoneMarked, Loses
<1> QED
  BY <1>1, <1>2, <1>3

LEMMA WorkQuiet ==
  ASSUME AtWork, NEW t \in Threads, Others(t), UNCHANGED curr, is_running \subseteq is_running', NoneMarked,
         loc[t].pc \notin {"asked", "sleep", "lock1", "lock2", "tail"}
  PROVE  AtWork'
<1>1. \A v : ~Moves(t, v)
  BY DEF Moves
<1> QED
  BY <1>1, WorkFrame DEF NoneMarked

LEMMA WorkMark ==
  ASSUME AtWork, NEW t \in Threads, NEW v \in Vcpus, Goes(t, "run", "asked", v), UNCHANGED <<curr, is_running>>,
         Gains(v, "migrating") \/ UNCHANGED pause_flags
  PROVE  AtWork'
<1>1. Others(t) /\ Moves(t, v)' /\ \A x : ~Moves(t, x)
  BY DEF Goes, Moves
<1> QED
  BY <1>1, WorkFrame DEF Gains

LEMMA WorkOn ==
  ASSUME AtWork, NEW t \in Threads, NEW v, v = loc[t].v, UNCHANGED <<curr, is_running>>, NoneMarked,
         Others(t), Moves(t, v)' \/ v \notin Vcpus \/ v \in is_running \/ "migrating" \notin pause_flags'[v]
  PROVE  AtWork'
<1>1. \A x : Moves(t, x) => x = v
  BY DEF Moves
<1> QED
  BY <1>1, WorkFrame DEF NoneMarked

LEMMA CurrentRuns ==
  ASSUME Placed, Runs, NEW c \in Cpus, NEW v \in Vcpus, v = current[c]
  PROVE  v \in is_running
<1>1. processor[v] = c
  BY SchedAssumption DEF Placed
<1> QED
  BY <1>1 DEF Runs, OnCpu

LEMMA WorkStir ==
  ASSUME AtWork, Placed, Runs, Stirs, UNCHANGED <<curr, is_running>>
  PROVE  AtWork'
<1>1. Agents \subseteq Threads /\ Cpus \subseteq Threads
  BY DEF Threads
<1>2. ASSUME NEW t \in Agents, NEW v \in Vcpus, BeginsDoes(t, v) PROVE AtWork'
  <2>1. t \in Threads /\ Others(t) /\ loc[t].pc = "run"
    BY <1>1, <1>2 DEF BeginsDoes, Goes
  <2>2. CASE UNCHANGED pause_flags
    BY <2>1, <2>2, WorkQuiet, FlagsNoneMarked
  <2>3. CASE Goes(t, "run", "asked", v) /\ Gains(v, "migrating")
    BY <2>1, <2>3, WorkMark
  <2> QED
    BY <1>2, <2>2, <2>3 DEF BeginsDoes
<1>3. ASSUME NEW t \in Agents, NEW v \in Vcpus, v = loc[t].v, AgentDoes(t, v) PROVE AtWork'
  <2>1. t \in Threads /\ Others(t) /\ NoneMarked /\ UNCHANGED pause_flags
    BY <1>1, <1>3, FlagsNoneMarked DEF AgentDoes, Goes, Ends, Calm
  <2>2. CASE loc[t].pc \in {"pollers", "polled", "spin", "held"}
    BY <2>1, <2>2, WorkQuiet
  <2>3. CASE Goes(t, "asked", "sleep", v) \/ ("migrating" \notin pause_flags[v] /\ Ends(t, "asked"))
    BY <1>3, <2>1, <2>3, WorkOn DEF Goes, Moves
  <2> QED
    BY <1>3, <2>2, <2>3 DEF AgentDoes, Goes, Ends
<1>4. ASSUME NEW t \in Cpus, NEW v \in Vcpus, v = current[t], loc[t].pc \in {"run", "lock"}, GuestDoes(t, v) PROVE AtWork'
  <2>1. t \in Threads /\ Others(t) /\ \A x \in Vcpus \ {v} : pause_flags'[x] = pause_flags[x]
    BY <1>1, <1>4 DEF GuestDoes, Ends, Gains, Others
  <2>2. \A x : ~Moves(t, x)
    BY <1>4 DEF Moves
  <2>3. v \in is_running
    BY <1>4, CurrentRuns
  <2> QED
    BY <2>1, <2>2, <2>3, WorkFrame
<1>5. ASSUME NEW t \in Cpus, NEW v \in Vcpus, loc[t].pc \in {"run", "lock"}, BlocksDoes(t, v) PROVE AtWork'
  <2>1. t \in Threads /\ Others(t) /\ NoneMarked
    BY <1>1, <1>5, FlagsNoneMarked DEF BlocksDoes, Goes
  <2> QED
    BY <1>5, <2>1, WorkQuiet
<1>6. ASSUME NEW t \in Threads, NEW v \in Vcpus, BlockDoes(t, v) \/ UnblockDoes(t, v) PROVE AtWork'
  <2>1. Others(t) /\ NoneMarked
    BY <1>6, FlagsNoneMarked DEF BlockDoes, UnblockDoes, Goes, Ends, Calm
  <2>2. loc[t].pc \notin {"asked", "sleep", "lock1", "lock2", "tail"}
    BY <1>6 DEF BlockDoes, UnblockDoes, Goes, Ends
  <2> QED
    BY <2>1, <2>2, WorkQuiet
<1>7. ASSUME NEW t \in Cpus, NEW v \in Vcpus \cup {Idle}, v = loc[t].v, CpuDoes(t, v) PROVE AtWork'
  <2>1. t \in Threads /\ Others(t) /\ NoneMarked /\ UNCHANGED pause_flags
    BY <1>1, <1>7, FlagsNoneMarked DEF CpuDoes, Goes, Ends, Calm
  <2>2. CASE loc[t].pc \in {"run", "dirty"}
    BY <2>1, <2>2, WorkQuiet
  <2>3. CASE Goes(t, "tail", "lock1", v) \/ ((v = Idle \/ "migrating" \notin pause_flags[v]) /\ Ends(t, "tail"))
    BY <1>7, <2>1, <2>3, WorkOn, SchedAssumption DEF Goes, Moves
  <2> QED
    BY <1>7, <2>2, <2>3 DEF CpuDoes, Goes, Ends
<1> QED
  BY <1>1, <1>2, <1>3, <1>4, <1>5, <1>6, <1>7 DEF Stirs

LEMMA WorkToil ==
  ASSUME AtWork, Toils
  PROVE  AtWork'
<1>1. Agents \subseteq Threads /\ Cpus \subseteq Threads
  BY DEF Threads
<1>2. ASSUME NEW t \in Agents, NEW v \in Vcpus, AsksDoes(t, v) PROVE AtWork'
  BY <1>1, <1>2, WorkMark DEF AsksDoes, SamePlaces
<1>3. ASSUME NEW t \in Threads, NEW v \in Vcpus, v = loc[t].v, SleepsDoes(t, v) PROVE AtWork'
  <2>1. Others(t) /\ NoneMarked /\ UNCHANGED <<curr, is_running>>
    BY <1>3, FlagsNoneMarked DEF SleepsDoes, SleepDoes, SameFlags, Goes
  <2>2. CASE Goes(t, "pause", "spin", v)
    BY <2>1, <2>2, WorkQuiet DEF Goes
  <2>3. CASE Goes(t, "sleep", "lock1", v)
    BY <1>3, <2>1, <2>3, WorkOn DEF Goes, Moves
  <2> QED
    BY <1>3, <2>2, <2>3 DEF SleepsDoes
<1>4. ASSUME NEW t \in Threads, NEW v, WakesDoes(t, v) PROVE AtWork'
  <2>1. Others(t) /\ NoneMarked /\ UNCHANGED <<curr, is_running>> /\ loc[t].pc = "wake"
    BY <1>4, FlagsNoneMarked DEF WakesDoes, SameFlags, Ends
  <2> QED
    BY <2>1, WorkQuiet
<1>5. ASSUME NEW t \in Threads, NEW v \in Vcpus, v = loc[t].v, MigratesDoes(t, v) PROVE AtWork'
  <2>1. Others(t) /\ NoneMarked /\ UNCHANGED <<curr, is_running>>
    BY <1>5, FlagsNoneMarked DEF MigratesDoes, SamePlaces, Goes, Ends
  <2>2. Moves(t, v)' \/ v \in is_running \/ "migrating" \notin pause_flags'[v]
    BY <1>5 DEF MigratesDoes, Goes, Moves, Loses
  <2> QED
    BY <1>5, <2>1, <2>2, WorkOn
<1>6. ASSUME NEW t \in Threads, SwitchesDoes(t) PROVE AtWork'
  <2>1. Others(t) /\ NoneMarked /\ UNCHANGED curr /\ is_running \subseteq is_running'
    BY <1>6, FlagsNoneMarked DEF SwitchesDoes, SameFlags
  <2> QED
    BY <1>6, <2>1, WorkQuiet DEF SwitchesDoes
<1>7. ASSUME NEW t \in Threads, NEW v, SavesDoes(t, v) PROVE AtWork'
  <2>1. Others(t) /\ UNCHANGED <<curr, pause_flags>> /\ is_running' = is_running \ {v} /\ Moves(t, v)'
    BY <1>7 DEF SavesDoes, SameFlags, Goes, Moves
  <2>2. \A x : ~Moves(t, x)
    BY <1>7 DEF SavesDoes, Goes, Moves
  <2> QED
    BY <2>1, <2>2, WorkFrame
<1> QED
  BY <1>1, <1>2, <1>3, <1>4, <1>5, <1>6, <1>7 DEF Toils

LEMMA WorkPick ==
  ASSUME AtWork, Placed, Runs, TQueue, NEW c \in Cpus, Picks(c)
  PROVE  AtWork'
<1>1. loc[c].pc = "lock" /\ Others(c) /\ c \in Threads /\ UNCHANGED <<is_running, pause_flags>>
  BY PickApart DEF Threads, Picks, PickDoes, SameFlags
<1>2. \A t \in Threads, v \in Vcpus : Moves(t, v) => Moves(t, v)'
  BY <1>1 DEF Moves, Others
<1>3. curr[c] = current[c]
  BY <1>1 DEF Placed, Turning
<1>4. \A v \in Vcpus \ is_running : curr[c] # v
  BY <1>3, CurrentRuns
<1>5. \A d \in Cpus \ {c} : curr'[d] = curr[d]
  <2>1. ASSUME NEW v \in Vcpus \cup {Idle}, NEW s \in Cpus, Chosen(c, v, s)
        PROVE  \A d \in Cpus \ {c} : curr'[d] = curr[d]
    BY <2>1, PickOthers
  <2> QED
    BY <2>1 DEF Picks, PickDoes
<1> QED
  BY <1>1, <1>2, <1>4, <1>5 DEF AtWork

-----------------------------------------------------------------------------
\* Vcpus that may run

LEMMA LostFrame ==
  ASSUME NotLost, NEW t \in Threads, Others(t),
         \A v \in Vcpus : vcpu_runnable(v)' =>
            Has(v)' \/ Wakes(t, v)' \/ (vcpu_runnable(v) /\ ~Has(v) /\ ~Wakes(t, v))
  PROVE  NotLost'
<1>1. \A u \in Threads \ {t}, v \in Vcpus : Wakes(u, v) => Wakes(u, v)'
  BY DEF Others, Wakes
<1> QED
  BY <1>1 DEF NotLost

\* no vcpu becomes runnable
NoneRunnable == \A v \in Vcpus : vcpu_runnable(v)' => vcpu_runnable(v)

LEMMA FlagsNoneRunnable ==
  /\ SameFlags => NoneRunnable
  /\ UNCHANGED pause_count /\ (\E v, f : Gains(v, f)) => NoneRunnable
  /\ UNCHANGED pause_flags /\ (\A x \in Vcpus : pause_count'[x] = 0 => pause_count[x] = 0) => NoneRunnable
<1>1. ASSUME NEW v, NEW f, Gains(v, f), UNCHANGED pause_count PROVE NoneRunnable
  BY <1>1 DEF NoneRunnable, vcpu_runnable, Gains
<1> QED
  BY <1>1 DEF NoneRunnable, vcpu_runnable, SameFlags

LEMMA SameHas ==
  ASSUME UNCHANGED <<curr, runq>>
  PROVE  \A v : Has(v)' <=> Has(v)
BY DEF Has, Queued

LEMMA LostQuiet ==
  ASSUME NotLost, NEW t \in Threads, Others(t), NoneRunnable, \A v \in Vcpus : Has(v) /\ vcpu_runnable(v) => Has(v)',
         loc[t].pc \notin {"unpoll", "unmask", "reclear", "wake"}
  PROVE  NotLost'
<1>1. \A v : ~Wakes(t, v)
  BY DEF Wakes
<1> QED
  BY <1>1, LostFrame DEF NoneRunnable

\* of vcpu v only
LEMMA LostOn ==
  ASSUME NotLost, NEW t \in Threads, NEW v \in Vcpus, Others(t),
         \A x \in Vcpus \ {v} : vcpu_runnable(x)' => vcpu_runnable(x),
         \A x \in Vcpus : Has(x) => Has(x)',
         loc[t].pc \in {"unpoll", "unmask", "reclear", "wake"} => v = loc[t].v,
         vcpu_runnable(v)' => Has(v)' \/ Wakes(t, v)'
  PROVE  NotLost'
<1>1. \A x : Wakes(t, x) => x = v
  BY DEF Wakes
<1> QED
  BY <1>1, LostFrame

LEMMA FlagsOther ==
  ASSUME NEW v, NEW f, Loses(v, f), UNCHANGED pause_count
  PROVE  \A x \in Vcpus \ {v} : vcpu_runnable(x)' => vcpu_runnable(x)
BY DEF Loses, vcpu_runnable

LEMMA LostUnpause ==
  ASSUME NotLost, Paused, TCount, TLoc, NEW t \in Agents, NEW v \in Vcpus, v = loc[t].v,
         UNCHANGED <<curr, runq, pause_flags>>,
         \A x \in Vcpus : pause_count'[x] = IF x = v THEN pause_count[x] - 1 ELSE pause_count[x],
         Goes(t, "held", "wake", v) \/ (pause_count[v] # 1 /\ Ends(t, "held"))
  PROVE  NotLost'
<1>1. t \in Threads /\ Others(t) /\ loc[t].pc = "held"
  BY DEF Goes, Ends, Threads
<1>2. pause_count[v] \in Nat \ {0}
  BY <1>1 DEF Paused, Pausing
<1>3. pause_count'[v] = pause_count[v] - 1
  OBVIOUS
<1>4. pause_count'[v] = 0 => pause_count[v] = 1
  BY <1>2, <1>3, SMT
<1>5. vcpu_runnable(v)' => Wakes(t, v)'
  BY <1>4 DEF vcpu_runnable, Goes, Wakes
<1>6. \A x \in Vcpus \ {v} : vcpu_runnable(x)' => vcpu_runnable(x)
  BY DEF vcpu_runnable
<1> QED
  BY <1>1, <1>5, <1>6, SameHas, LostOn

LEMMA LostStir ==
  ASSUME NotLost, InCall, Paused, TCount, TLoc, Stirs, UNCHANGED <<curr, runq>>
  PROVE  NotLost'
<1>1. Agents \subseteq Threads /\ Cpus \subseteq Threads /\ \A v \in Vcpus : Has(v) => Has(v)'
  BY SameHas DEF Threads
<1>2. ASSUME NEW t \in Agents, NEW v \in Vcpus, BeginsDoes(t, v) PROVE NotLost'
  <2>1. t \in Threads /\ Others(t) /\ loc[t].pc = "run"
    BY <1>1, <1>2 DEF BeginsDoes, Goes
  <2>2. NoneRunnable
    BY <1>2, FlagsNoneRunnable DEF BeginsDoes, SameFlags
  <2> QED
    BY <1>1, <2>1, <2>2, LostQuiet
<1>3. ASSUME NEW t \in Agents, NEW v \in Vcpus, v = loc[t].v, AgentDoes(t, v) PROVE NotLost'
  <2>1. CASE SameFlags
    <3>1. t \in Threads /\ Others(t) /\ NoneRunnable
      BY <1>1, <1>3, <2>1, FlagsNoneRunnable DEF AgentDoes, Goes, Ends
    <3>2. loc[t].pc \notin {"unpoll", "unmask", "reclear", "wake"}
      BY <1>3 DEF AgentDoes, Goes, Ends
    <3> QED
      BY <1>1, <3>1, <3>2, LostQuiet
  <2>2. CASE /\ UNCHANGED pause_flags
             /\ \A x \in Vcpus : pause_count'[x] = IF x = v THEN pause_count[x] - 1 ELSE pause_count[x]
             /\ Goes(t, "held", "wake", v) \/ (pause_count[v] # 1 /\ Ends(t, "held"))
    BY <1>3, <2>2, LostUnpause
  <2> QED
    BY <1>3, <2>1, <2>2 DEF AgentDoes, Calm, SameFlags
<1>4. ASSUME NEW t \in Cpus, NEW v \in Vcpus, loc[t].pc \in {"run", "lock"}, GuestDoes(t, v) \/ BlocksDoes(t, v) PROVE NotLost'
  <2>1. t \in Threads /\ Others(t)
    BY <1>1, <1>4 DEF GuestDoes, BlocksDoes, Goes, Ends, Others
  <2>2. NoneRunnable
    BY <1>4, FlagsNoneRunnable DEF GuestDoes, BlocksDoes, SameFlags
  <2> QED
    BY <1>1, <1>4, <2>1, <2>2, LostQuiet
<1>5. ASSUME NEW t \in Cpus, NEW v \in Vcpus, v = loc[t].v, BlockDoes(t, v) PROVE NotLost'
  <2>1. t \in Threads /\ Others(t) /\ loc[t].pc \in Calling
    BY <1>1, <1>5 DEF BlockDoes, Goes, Ends, Calling
  <2>2. Has(v)
    BY <1>5, <2>1 DEF InCall, Has
  <2>3. \A x \in Vcpus \ {v} : vcpu_runnable(x)' => vcpu_runnable(x)
    <3>1. CASE SameFlags
      BY <3>1, FlagsNoneRunnable DEF NoneRunnable
    <3>2. CASE Loses(v, "blocked") /\ UNCHANGED pause_count
      BY <3>2, FlagsOther
    <3> QED
      BY <1>5, <3>1, <3>2 DEF BlockDoes, Calm, SameFlags
  <2>4. loc[t].pc \notin {"unpoll", "unmask", "reclear", "wake"}
    BY <2>1 DEF Calling
  <2> QED
    BY <1>1, <2>1, <2>2, <2>3, <2>4, LostOn
<1>6. ASSUME NEW t \in Threads, NEW v \in Vcpus, v = loc[t].v, UnblockDoes(t, v) PROVE NotLost'
  <2>1. Others(t)
    BY <1>6 DEF UnblockDoes, Goes, Ends
  <2>2. CASE "blocked" \notin pause_flags[v] /\ Ends(t, "unblock") /\ Loses(v, "blocked") /\ UNCHANGED pause_count
    <3>1. NoneRunnable
      BY <2>2 DEF NoneRunnable, vcpu_runnable, Loses
    <3> QED
      BY <1>1, <2>1, <2>2, <3>1, LostQuiet DEF Ends
  <2>3. CASE loc'[t].pc \in {"unpoll", "unmask", "reclear", "wake"} /\ loc'[t].v = v
    <3>1. \A x \in Vcpus \ {v} : vcpu_runnable(x)' => vcpu_runnable(x)
      <4>1. CASE SameFlags
        BY <4>1, FlagsNoneRunnable DEF NoneRunnable
      <4>2. CASE Loses(v, "blocked") /\ UNCHANGED pause_count
        BY <4>2, FlagsOther
      <4> QED
        BY <1>6, <4>1, <4>2 DEF UnblockDoes, Calm, SameFlags
    <3>2. Wakes(t, v)'
      BY <2>3 DEF Wakes
    <3> QED
      BY <1>1, <1>6, <2>1, <3>1, <3>2, LostOn
  <2> QED
    BY <1>6, <2>2, <2>3 DEF UnblockDoes, Goes
<1>7. ASSUME NEW t \in Cpus, NEW v, CpuDoes(t, v) PROVE NotLost'
  <2>1. t \in Threads /\ Others(t) /\ NoneRunnable
    BY <1>1, <1>7, FlagsNoneRunnable DEF CpuDoes, Goes, Ends, Calm, SameFlags
  <2>2. loc[t].pc \notin {"unpoll", "unmask", "reclear", "wake"}
    BY <1>7 DEF CpuDoes, Goes, Ends
  <2> QED
    BY <1>1, <2>1, <2>2, LostQuiet
<1> QED
  BY <1>2, <1>3, <1>4, <1>5, <1>6, <1>7 DEF Stirs

LEMMA LostToil ==
  ASSUME NotLost, Toils
  PROVE  NotLost'
<1>1. Agents \subseteq Threads /\ Cpus \subseteq Threads
  BY DEF Threads
<1>2. ASSUME NEW t \in Agents, NEW v \in Vcpus, AsksDoes(t, v) PROVE NotLost'
  <2>1. t \in Threads /\ Others(t) /\ loc[t].pc = "run" /\ UNCHANGED <<curr, runq>> /\ NoneRunnable
    BY <1>1, <1>2, FlagsNoneRunnable DEF AsksDoes, SamePlaces, Goes, SameFlags
  <2> QED
    BY <2>1, SameHas, LostQuiet
<1>3. ASSUME NEW t \in Threads, NEW v \in Vcpus, SleepsDoes(t, v) PROVE NotLost'
  <2>1. Others(t) /\ loc[t].pc \in {"pause", "sleep"} /\ NoneRunnable /\ UNCHANGED curr
    BY <1>3, FlagsNoneRunnable DEF SleepsDoes, SleepDoes, Goes
  <2>2. \A x \in Vcpus : Has(x) /\ vcpu_runnable(x) => Has(x)'
    BY <1>3 DEF SleepsDoes, SleepDoes, Has, Queued
  <2> QED
    BY <2>1, <2>2, LostQuiet
<1>4. ASSUME NEW t \in Threads, NEW v \in Vcpus, v = loc[t].v, WakesDoes(t, v) PROVE NotLost'
  <2>1. Others(t) /\ NoneRunnable /\ UNCHANGED curr /\ \A c \in Cpus : runq[c] \subseteq runq'[c]
    BY <1>4, FlagsNoneRunnable DEF WakesDoes, Ends
  <2>2. \A x \in Vcpus : Has(x) => Has(x)'
    BY <2>1 DEF Has, Queued
  <2>3. vcpu_runnable(v)' => Has(v)'
    BY <1>4, <2>1 DEF NoneRunnable, WakesDoes, Has
  <2> QED
    BY <1>4, <2>1, <2>2, <2>3, LostOn DEF NoneRunnable
<1>5. ASSUME NEW t \in Threads, NEW v \in Vcpus, v = loc[t].v, MigratesDoes(t, v) PROVE NotLost'
  <2>1. Others(t) /\ loc[t].pc \in {"lock1", "lock2"} /\ UNCHANGED <<curr, runq, pause_count>>
    BY <1>5 DEF MigratesDoes, SamePlaces, Goes, Ends
  <2>2. CASE UNCHANGED pause_flags
    BY <2>1, <2>2, SameHas, FlagsNoneRunnable, LostQuiet DEF SameFlags
  <2>3. CASE loc'[t].pc = "wake" /\ loc'[t].v = v /\ Loses(v, "migrating")
    <3>1. Wakes(t, v)'
      BY <2>3 DEF Wakes
    <3>2. \A x \in Vcpus \ {v} : vcpu_runnable(x)' => vcpu_runnable(x)
      BY <2>1, <2>3, FlagsOther
    <3> QED
      BY <2>1, <3>1, <3>2, SameHas, LostOn
  <2> QED
    BY <1>5, <2>2, <2>3 DEF MigratesDoes, Goes
<1>6. ASSUME NEW t \in Threads, SwitchesDoes(t) PROVE NotLost'
  BY <1>6, SameHas, FlagsNoneRunnable, LostQuiet DEF SwitchesDoes
<1>7. ASSUME NEW t \in Threads, NEW v, SavesDoes(t, v) PROVE NotLost'
  BY <1>7, SameHas, FlagsNoneRunnable, LostQuiet DEF SavesDoes, Goes
<1> QED
  BY <1>1, <1>2, <1>3, <1>4, <1>5, <1>6, <1>7 DEF Toils

LEMMA LostPick ==
  ASSUME NotLost, Placed, TQueue, NEW c \in Cpus, Picks(c)
  PROVE  NotLost'
<1>1. loc[c].pc = "lock" /\ Others(c) /\ c \in Threads /\ NoneRunnable
  BY PickApart, FlagsNoneRunnable DEF Threads, Picks
<1>2. curr[c] = current[c]
  BY <1>1 DEF Placed, Turning
<1>3. CASE UNCHANGED <<curr, runq, processor, softirq, loc>>
  BY <1>1, <1>3, SameHas, LostQuiet
<1>4. ASSUME NEW v \in Vcpus \cup {Idle}, NEW s \in Cpus, Chosen(c, v, s) PROVE NotLost'
  <2>1. /\ curr'[c] = v /\ \A d \in Cpus \ {c} : curr'[d] = curr[d]
        /\ \A d \in Cpus : Requeued(c)[d] \subseteq runq'[d] \cup {v}
    BY <1>4, PickOthers
  <2>2. \A d \in Cpus : runq[d] \subseteq Requeued(c)[d]
    BY DEF Picks, Requeues
  <2>3. \A x \in Vcpus : (\E d \in Cpus : x \in Requeued(c)[d]) => Has(x)'
    BY <2>1 DEF Has, Queued
  <2>4. ASSUME NEW x \in Vcpus, Has(x), vcpu_runnable(x) PROVE Has(x)'
    <3>1. CASE Queued(x)
      BY <2>2, <2>3, <3>1 DEF Queued
    <3>2. CASE curr[c] = x
      <4>1. x \in Requeued(c)[c]
        BY <1>2, <2>4, <3>2 DEF Picks, Requeues
      <4> QED
        BY <2>3, <4>1
    <3>3. CASE \E d \in Cpus \ {c} : curr[d] = x
      BY <2>1, <3>3 DEF Has
    <3> QED
      BY <2>4, <3>1, <3>2, <3>3 DEF Has
  <2> QED
    BY <1>1, <2>4, LostQuiet
<1> QED
  BY <1>3, <1>4 DEF Picks, PickDoes

\* A vcpu that is in do_block() or do_poll() is the one chosen.
LEMMA CallFrame ==
  ASSUME InCall, NEW t \in Threads, Others(t), UNCHANGED curr, t \in Cpus => loc'[t].pc \notin Calling \/ curr[t] = loc'[t].v
  PROVE  InCall'
BY DEF InCall, Others, Threads

LEMMA CallStir ==
  ASSUME InCall, Placed, Stirs, UNCHANGED curr
  PROVE  InCall'
<1>1. Agents \subseteq Threads /\ Cpus \subseteq Threads /\ Agents \cap Cpus = {}
  BY SchedAssumption DEF Threads
<1>2. ASSUME NEW t \in Agents, NEW v, BeginsDoes(t, v) \/ AgentDoes(t, v) PROVE InCall'
  <2>1. Others(t)
    BY <1>2 DEF BeginsDoes, AgentDoes, Goes, Ends
  <2> QED
    BY <1>1, <2>1, CallFrame
<1>3. ASSUME NEW t \in Cpus, NEW v \in Vcpus, v = current[t], loc[t].pc \in {"run", "lock"}, GuestDoes(t, v) \/ BlocksDoes(t, v)
      PROVE  InCall'
  <2>1. curr[t] = v
    BY <1>3 DEF Placed, Turning
  <2>2. CASE UNCHANGED loc
    BY <2>2 DEF InCall
  <2>3. CASE Ends(t, "run") \/ Ends(t, "lock")
    BY <1>1, <2>3, CallFrame DEF Ends, Calling
  <2>4. CASE BlocksDoes(t, v)
    BY <1>1, <2>1, <2>4, CallFrame DEF BlocksDoes, Goes
  <2> QED
    BY <1>3, <2>2, <2>3, <2>4 DEF GuestDoes
<1>4. ASSUME NEW t \in Cpus, NEW v \in Vcpus, v = loc[t].v, BlockDoes(t, v) PROVE InCall'
  <2>1. Others(t) /\ loc[t].pc \in Calling
    BY <1>4 DEF BlockDoes, Goes, Ends, Calling
  <2>2. curr[t] = v
    BY <1>4, <2>1 DEF InCall
  <2>3. loc'[t].pc \notin Calling \/ loc'[t].v = v
    BY <1>4 DEF BlockDoes, Goes, Ends, Calling
  <2> QED
    BY <1>1, <2>1, <2>2, <2>3, CallFrame
<1>5. ASSUME NEW t \in Threads, NEW v, UnblockDoes(t, v) \/ CpuDoes(t, v) PROVE InCall'
  <2>1. Others(t)
    BY <1>5 DEF UnblockDoes, CpuDoes, Goes, Ends
  <2>2. loc'[t].pc \notin Calling
    BY <1>5 DEF UnblockDoes, CpuDoes, Goes, Ends, Calling
  <2> QED
    BY <2>1, <2>2, CallFrame
<1> QED
  BY <1>1, <1>2, <1>3, <1>4, <1>5 DEF Stirs

LEMMA CallToil ==
  ASSUME InCall, Toils
  PROVE  InCall'
<1>1. Agents \subseteq Threads /\ Cpus \subseteq Threads
  BY DEF Threads
<1>2. ASSUME NEW t \in Threads, NEW v, AsksDoes(t, v) \/ SleepsDoes(t, v) PROVE InCall'
  BY <1>2, CallFrame DEF AsksDoes, SleepsDoes, SleepDoes, SamePlaces, Goes, Calling
<1>3. ASSUME NEW t \in Threads, NEW v, WakesDoes(t, v) \/ MigratesDoes(t, v) PROVE InCall'
  BY <1>3, CallFrame DEF WakesDoes, MigratesDoes, SamePlaces, Goes, Ends, Calling
<1>4. ASSUME NEW t \in Threads, SwitchesDoes(t) PROVE InCall'
  BY <1>4, CallFrame DEF SwitchesDoes, Calling
<1>5. ASSUME NEW t \in Threads, NEW v, SavesDoes(t, v) PROVE InCall'
  BY <1>5, CallFrame DEF SavesDoes, Goes, Calling
<1> QED
  BY <1>1, <1>2, <1>3, <1>4, <1>5 DEF Toils

LEMMA CallPick ==
  ASSUME InCall, TQueue, NEW c \in Cpus, Picks(c)
  PROVE  InCall'
<1>1. CASE UNCHANGED <<curr, runq, processor, softirq, loc>>
  BY <1>1 DEF InCall
<1>2. ASSUME NEW v \in Vcpus \cup {Idle}, NEW s \in Cpus, Chosen(c, v, s) PROVE InCall'
  <2>1. loc'[c].pc \notin Calling /\ \A d \in Cpus \ {c} : curr'[d] = curr[d] /\ loc'[d] = loc[d]
    BY <1>2, PickOthers DEF Chosen, Calling, Others, Threads
  <2> QED
    BY <2>1 DEF InCall
<1> QED
  BY <1>1, <1>2 DEF Picks, PickDoes

-----------------------------------------------------------------------------
\* Run states and urgency

\* no CPU turns to a switch
NoneTaken == UNCHANGED curr /\ \A c \in Cpus : loc'[c].pc = "switch" => loc[c].pc = "switch"

LEMMA ToilTaken ==
  ASSUME Toils, UNCHANGED curr
  PROVE  NoneBlocks /\ NoneTaken
<1>1. Agents \subseteq Threads /\ Cpus \subseteq Threads
  BY DEF Threads
<1>2. ASSUME NEW t \in Threads, Others(t), loc'[t].pc # "switch" PROVE NoneTaken
  BY <1>1, <1>2 DEF NoneTaken, Others
<1>3. ASSUME NEW t \in Threads, NEW v, AsksDoes(t, v) \/ SleepsDoes(t, v) PROVE NoneTaken
  BY <1>2, <1>3 DEF AsksDoes, SleepsDoes, Goes
<1>4. ASSUME NEW t \in Threads, NEW v, WakesDoes(t, v) \/ MigratesDoes(t, v) PROVE NoneTaken
  BY <1>2, <1>4 DEF WakesDoes, MigratesDoes, Goes, Ends
<1>5. ASSUME NEW t \in Threads, SwitchesDoes(t) PROVE NoneTaken
  BY <1>2, <1>5 DEF SwitchesDoes
<1>6. ASSUME NEW t \in Threads, NEW v, SavesDoes(t, v) PROVE NoneTaken
  BY <1>2, <1>6 DEF SavesDoes, Goes
<1>7. NoneTaken
  BY <1>1, <1>3, <1>4, <1>5, <1>6 DEF Toils
<1> QED
  BY <1>7, ToilApart

LEMMA StirTaken ==
  ASSUME Stirs, UNCHANGED curr
  PROVE  /\ NoneTaken
         /\ \/ NoneBlocks
            \/ \E t \in Cpus, v \in Vcpus : v = current[t] /\ loc[t].pc = "run" /\ Gains(v, "blocked")
<1>1. Agents \subseteq Threads /\ Cpus \subseteq Threads
  BY DEF Threads
<1>2. ASSUME NEW t \in Threads, Others(t), loc'[t].pc # "switch" PROVE NoneTaken
  BY <1>1, <1>2 DEF NoneTaken, Others
<1>3. ASSUME NEW t \in Threads, NEW v, BeginsDoes(t, v) \/ AgentDoes(t, v) PROVE NoneTaken /\ NoneBlocks
  <2>1. NoneTaken
    BY <1>2, <1>3 DEF BeginsDoes, AgentDoes, Goes, Ends
  <2> QED
    BY <1>3, <2>1, FlagsNoneBlock DEF BeginsDoes, AgentDoes, Calm
<1>4. ASSUME NEW t \in Threads, NEW v, GuestDoes(t, v) PROVE NoneTaken /\ NoneBlocks
  <2>1. UNCHANGED loc => NoneTaken
    BY DEF NoneTaken
  <2> QED
    BY <1>2, <1>4, <2>1, FlagsNoneBlock DEF GuestDoes, Ends
<1>5. ASSUME NEW t \in Threads, NEW v, BlocksDoes(t, v) PROVE NoneTaken /\ loc[t].pc = "run" /\ Gains(v, "blocked")
  BY <1>2, <1>5 DEF BlocksDoes, Goes
<1>6. ASSUME NEW t \in Threads, NEW v, BlockDoes(t, v) PROVE NoneTaken /\ NoneBlocks
  <2>1. NoneTaken
    BY <1>2, <1>6 DEF BlockDoes, Goes, Ends
  <2> QED
    BY <1>6, <2>1, FlagsNoneBlock DEF BlockDoes, Calm
<1>7. ASSUME NEW t \in Threads, NEW v, UnblockDoes(t, v) \/ CpuDoes(t, v) PROVE NoneTaken /\ NoneBlocks
  <2>1. NoneTaken
    BY <1>2, <1>7 DEF UnblockDoes, CpuDoes, Goes, Ends
  <2> QED
    BY <1>7, <2>1, FlagsNoneBlock DEF UnblockDoes, CpuDoes, Calm
<1> QED
  BY <1>1, <1>3, <1>4, <1>5, <1>6, <1>7 DEF Stirs

\* what the vcpus other than v keep
LEMMA TakenLess ==
  ASSUME NoneTaken, \A c \in Cpus : runq'[c] \subseteq runq[c]
  PROVE  \A x : (Taken(x)' => Taken(x)) /\ (Queued(x)' => Queued(x))
BY DEF NoneTaken, Taken, Queued

LEMMA LedgerFrame ==
  ASSUME Ledger, SameCharge, NoneBlocks, NoneTaken, \A c \in Cpus : runq'[c] \subseteq runq[c]
  PROVE  Ledger'
BY TakenLess DEF Ledger, SameCharge, NoneBlocks

LEMMA RunningHere ==
  ASSUME Placed, Accounted, NEW c \in Cpus, NEW v \in Vcpus, v = current[c], loc[c].pc \in {"run", "lock"}
  PROVE  runstate[v] = "running" /\ ~Queued(v) /\ ~Taken(v)
<1>1. curr[c] = v /\ processor[v] = c
  BY SchedAssumption DEF Placed, Turning
<1>2. runstate[v] = "running"
  BY <1>1 DEF Accounted, Charged
<1>3. ~Queued(v)
  <2>1. \A d \in Cpus : v \in runq[d] => curr[d] # v /\ processor[v] = d
    BY DEF Placed
  <2> QED
    BY <1>1, <2>1 DEF Queued
<1>4. ~Taken(v)
  <2>1. v # Idle
    BY SchedAssumption
  <2>2. ASSUME NEW d \in Cpus, curr[d] = v PROVE d = c
    BY <1>1, <2>1, <2>2 DEF Placed
  <2> QED
    BY <1>1, <2>2 DEF Taken
<1> QED
  BY <1>2, <1>3, <1>4

LEMMA LedgerBlock ==
  ASSUME Ledger, SameCharge, Placed, Accounted, NoneTaken, UNCHANGED runq, NEW t \in Cpus, NEW v \in Vcpus,
         v = current[t], loc[t].pc = "run", Gains(v, "blocked")
  PROVE  Ledger'
<1>1. runstate[v] = "running" /\ ~Queued(v) /\ ~Taken(v)
  BY RunningHere
<1>2. \A x : (Taken(x)' => Taken(x)) /\ (Queued(x)' => Queued(x))
  BY TakenLess
<1>3. \A x \in Vcpus \ {v} : "blocked" \in pause_flags'[x] => "blocked" \in pause_flags[x]
  BY DEF Gains
<1> QED
  BY <1>1, <1>2, <1>3 DEF Ledger, SameCharge

LEMMA LedgerSleep ==
  ASSUME Ledger, NEW v \in Vcpus, SleepCharges(v)
  PROVE  Ledger'
<1>1. NoneBlocks /\ NoneTaken /\ \A c \in Cpus : runq'[c] \subseteq runq[c]
  BY ToilTaken DEF SleepCharges, SleepDoes
<1>2. CASE SameCharge
  BY <1>1, <1>2, LedgerFrame
<1>3. CASE Recharges({v}) /\ runstate[v] = "runnable" /\ runstate'[v] = "offline"
  <2>1. \A x : (Taken(x)' => Taken(x)) /\ (Queued(x)' => Queued(x))
    BY <1>1, TakenLess
  <2>2. "blocked" \notin pause_flags[v]
    BY <1>3 DEF Ledger
  <2>3. v \notin is_urgent' /\ "blocked" \notin pause_flags'[v]
    BY <1>1, <1>3, <2>2 DEF Recharges, Polling, NoneBlocks
  <2>4. \A x \in Vcpus \ {v} : runstate'[x] = runstate[x] /\ (x \in is_urgent' <=> x \in is_urgent)
    BY <1>3 DEF Recharges
  <2> QED
    BY <1>1, <1>3, <2>1, <2>3, <2>4 DEF Ledger, NoneBlocks
<1> QED
  BY <1>2, <1>3 DEF SleepCharges

LEMMA LedgerWake ==
  ASSUME Ledger, NEW v \in Vcpus, WakeCharges(v)
  PROVE  Ledger'
<1>1. NoneBlocks /\ NoneTaken
  BY ToilTaken DEF WakeCharges
<1>2. \A x : (Taken(x)' => Taken(x)) /\ (Queued(x)' => Queued(x) \/ (x = v /\ vcpu_runnable(v)))
  BY <1>1 DEF NoneTaken, Taken, WakeCharges, Queued
<1>3. vcpu_runnable(v) => "blocked" \notin pause_flags[v]
  BY DEF vcpu_runnable
<1>4. "blocked" \notin pause_flags[v] => "blocked" \notin pause_flags'[v]
  BY <1>1 DEF NoneBlocks
<1>5. CASE SameCharge /\ (vcpu_runnable(v) => runstate[v] # "blocked")
  BY <1>1, <1>2, <1>3, <1>4, <1>5 DEF Ledger, SameCharge, NoneBlocks
<1>6. CASE Recharges({v}) /\ "blocked" \notin pause_flags[v] /\ runstate'[v] \in {"runnable", "offline"}
  <2>1. v \notin is_urgent' /\ runstate'[v] # "blocked"
    BY <1>6 DEF Recharges, Polling
  <2>2. \A x \in Vcpus \ {v} : runstate'[x] = runstate[x] /\ (x \in is_urgent' <=> x \in is_urgent)
    BY <1>6 DEF Recharges
  <2> QED
    BY <1>1, <1>2, <1>4, <1>6, <2>1, <2>2 DEF Ledger, NoneBlocks
<1> QED
  BY <1>5, <1>6 DEF WakeCharges

LEMMA LedgerSwitch ==
  ASSUME Ledger, Placed, TQueue, TArch, NEW c \in Cpus, SwitchCharges(c)
  PROVE  Ledger'
<1> DEFINE D == {current[c], curr[c]} \ {Idle}
<1>1. /\ loc[c].pc = "switch" /\ loc'[c].pc = "dirty" /\ Others(c) /\ UNCHANGED <<curr, runq, pause_flags>>
      /\ Recharges(D)
      /\ \A x \in D :
           IF x = curr[c] THEN runstate'[x] = "running" ELSE runstate'[x] = "blocked" <=> "blocked" \in pause_flags[x]
  BY DEF SwitchCharges, SameFlags
<1>2. \A x : (Taken(x)' => Taken(x)) /\ (Queued(x)' <=> Queued(x))
  BY <1>1 DEF Taken, Queued, Others, Threads
<1>3. ASSUME NEW x \in Vcpus, x \notin D
      PROVE  runstate'[x] = runstate[x] /\ (x \in is_urgent' <=> x \in is_urgent)
  BY <1>1, <1>3 DEF Recharges
<1>4. ASSUME NEW x \in Vcpus, x = curr[c]
      PROVE  runstate'[x] = "running" /\ x \notin is_urgent' /\ "blocked" \notin pause_flags'[x]
  <2>1. x \in D
    BY <1>4, SchedAssumption
  <2>2. Taken(x)
    BY <1>1, <1>4 DEF Taken
  <2>3. "blocked" \notin pause_flags[x]
    BY <2>2 DEF Ledger
  <2> QED
    BY <1>1, <1>4, <2>1, <2>3 DEF Recharges, Polling
<1>5. ASSUME NEW x \in Vcpus, x # curr[c], x \in D
      PROVE  /\ runstate'[x] = "blocked" <=> "blocked" \in pause_flags'[x]
             /\ x \in is_urgent' => "blocked" \in pause_flags'[x]
  BY <1>1, <1>5 DEF Recharges, Polling
<1> HIDE DEF D
<1> QED
  BY <1>1, <1>2, <1>3, <1>4, <1>5 DEF Ledger

LEMMA LedgerPick ==
  ASSUME Ledger, SameCharge, Placed, Accounted, TQueue, TArch, NEW c \in Cpus, Picks(c)
  PROVE  Ledger'
<1>1. loc[c].pc = "lock" /\ UNCHANGED pause_flags
  BY PickApart DEF Picks, SameFlags
<1>2. CASE UNCHANGED <<curr, runq, processor, softirq, loc>>
  BY <1>1, <1>2 DEF Ledger, SameCharge, Queued, Taken
<1>3. ASSUME NEW v \in Vcpus \cup {Idle}, NEW s \in Cpus, Chosen(c, v, s) PROVE Ledger'
  <2>1. ASSUME NEW x \in Vcpus, NEW d \in Cpus, x \in Requeued(c)[d]
        PROVE  "blocked" \notin pause_flags[x] /\ runstate[x] # "blocked"
    <3>1. CASE x \in runq[d]
      BY <3>1 DEF Ledger, Queued
    <3>2. CASE x = current[c] /\ vcpu_runnable(x)
      BY <1>1, <3>2, RunningHere DEF vcpu_runnable
    <3> QED
      BY <2>1, <3>1, <3>2 DEF Picks, Requeues
  <2>2. \A x \in Vcpus : Queued(x)' => \E d \in Cpus : x \in Requeued(c)[d]
    BY <1>3, PickOthers DEF Queued
  <2>3. \A x \in Vcpus : Taken(x)' => x = v \/ Taken(x)
    <3>1. curr'[c] = v /\ \A d \in Cpus \ {c} : curr'[d] = curr[d]
      BY <1>3, PickOthers
    <3>2. \A d \in Cpus \ {c} : loc'[d] = loc[d]
      BY <1>3 DEF Chosen, Others, Threads
    <3> QED
      BY <3>1, <3>2 DEF Taken
  <2>4. v \in Vcpus => v \in Requeued(c)[s]
    BY <1>3, SchedAssumption DEF Chosen
  <2> QED
    BY <1>1, <2>1, <2>2, <2>3, <2>4 DEF Ledger, SameCharge
<1> QED
  BY <1>2, <1>3 DEF Picks, PickDoes

LEMMA LedgerStep ==
  ASSUME Ledger, Placed, Accounted, TQueue, TArch, Charges
  PROVE  Ledger'
<1>1. CASE SameCharge /\ \E c \in Cpus : Picks(c)
  BY <1>1, LedgerPick
<1>2. CASE SameCharge /\ UNCHANGED <<curr, runq>> /\ Toils
  BY <1>2, ToilTaken, LedgerFrame
<1>3. CASE SameCharge /\ UNCHANGED <<curr, runq>> /\ Stirs
  BY <1>3, StirTaken, LedgerFrame, LedgerBlock
<1> QED
  BY <1>1, <1>2, <1>3, LedgerSleep, LedgerWake, LedgerSwitch DEF Charges

=============================================================================
