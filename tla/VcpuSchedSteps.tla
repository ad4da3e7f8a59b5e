--------------------------- MODULE VcpuSchedSteps ----------------------------
(***************************************************************************)
(* What each step of VcpuSched does, for any number of CPUs, vcpus and     *)
(* agents: types, the locals of the threads, the locks they keep from one  *)
(* step to the next, and the pausing of vcpus.                             *)
(***************************************************************************)
EXTENDS VcpuSched, VcpuSchedParts

USE ZenonT(90)

LEMMA Groups ==
  TypeOK <=> /\ TPlace /\ TFlags /\ TCount /\ TEvents /\ TQueue /\ TState /\ TArch /\ TRest /\ TLoc
             /\ TUrgent /\ softirq \subseteq Cpus /\ polls \subseteq Vcpus
BY DEF TypeOK, TUrgent, TPlace, TFlags, TCount, TEvents, TQueue, TState, TArch, TRest, TLoc

LEMMA Label ==
  /\ {"run", "lock", "switch", "dirty", "flush", "enter", "saved", "tail", "lock1", "lock2"} \subseteq Labels
  /\ {"wake", "unblock", "unpoll", "unmask", "reclear", "pollers", "polled"} \subseteq Labels
  /\ {"block", "poll", "poll_mask", "poll_events", "poll_port", "poll_sleep"} \subseteq Labels
  /\ {"poll_out", "poll_out2", "poll_out3", "pause", "spin", "held", "asked", "sleep"} \subseteq Labels
BY DEF Labels

-----------------------------------------------------------------------------
\* The initial states

LEMMA InitGood ==
  ASSUME Init
  PROVE  /\ TypeOK /\ Carries /\ Holds /\ AffinityKept /\ Core /\ Noted /\ Pending
         /\ \A v \in Vcpus : pause_count[v] = 0 /\ Pauses(v) = {}
         /\ \A c \in Cpus : urgent_count[c] = 0 /\ UrgentOn(c) = {}
         /\ is_urgent = {}
<1>1. PICK b \in SUBSET Busy : pause_flags = [v \in Vcpus |-> IF v \in b THEN {"down"} ELSE {}]
  BY DEF Init
<1>2. /\ pause_count = [v \in Vcpus |-> 0] /\ processor \in [Vcpus -> Homes]
      /\ cpu_affinity = [v \in Vcpus |-> Cpus] /\ is_running = {}
      /\ runstate = [v \in Vcpus |-> IF v \in Up THEN "runnable" ELSE "offline"]
      /\ is_urgent = {} /\ poll_evtchn = [v \in Vcpus |-> 0] /\ poll_mask = {} /\ upcall = {} /\ port = {}
  BY DEF Init
<1>3. /\ curr = [c \in Cpus |-> Idle] /\ runq = [c \in Cpus |-> {v \in Up : processor[v] = c}]
      /\ schedule_lock = [c \in Cpus |-> Nobody] /\ urgent_count = [c \in Cpus |-> 0] /\ softirq = Cpus
      /\ current = [c \in Cpus |-> Idle] /\ curr_vcpu = [c \in Cpus |-> Idle]
      /\ vcpu_dirty_cpumask = [v \in Vcpus |-> {}]
      /\ loc = [t \in Threads |-> At0("run", Idle)] /\ polls = {} /\ moved = FALSE /\ down = FALSE
  BY DEF Init
<1>4. At0("run", Idle) \in Locals /\ At0("run", Idle).pc = "run"
  BY Label DEF At0, Local, Locals
<1>5. \A t \in Threads : loc[t] \in Locals /\ loc[t].pc = "run"
  BY <1>3, <1>4
<1>6. 0 \in Cpus /\ Homes \subseteq Cpus /\ Idle \notin Vcpus /\ Up \subseteq Vcpus
  BY SchedAssumption, SMT DEF Cpus, Up
<1>7. TPlace
  <2>1. Cpus \in (SUBSET Cpus) \ {{}}
    <3>1. Cpus # {}
      BY <1>6
    <3> QED
      BY <3>1
  <2>2. processor \in [Vcpus -> Cpus]
    BY <1>2, <1>6
  <2>3. cpu_affinity \in [Vcpus -> (SUBSET Cpus) \ {{}}]
    BY <1>2, <2>1
  <2> QED
    BY <2>2, <2>3 DEF TPlace
<1>8. TFlags
  BY <1>1 DEF TFlags
<1>9. TCount /\ TEvents
  BY <1>2, SMT DEF TCount, TEvents
<1>10. TQueue /\ TArch
  BY <1>3, <1>6 DEF TQueue, TArch
<1>11. TState
  BY <1>2, <1>3, <1>6 DEF TState
<1>12. TRest /\ TLoc /\ TUrgent
  <2>1. TUrgent
    BY <1>3, SMT DEF TUrgent
  <2> QED
    BY <1>2, <1>3, <1>4, <2>1 DEF TRest, TLoc
<1>13. TypeOK
  BY <1>2, <1>3, <1>7, <1>8, <1>9, <1>10, <1>11, <1>12, Groups
<1>14. Carries /\ Holds
  BY <1>5 DEF Carries, Sound, Holds, WithVcpu, Threads
<1>15. \A v \in Vcpus : pause_count[v] = 0 /\ Pauses(v) = {}
  BY <1>2, <1>5 DEF Pauses, Pausing, Threads
<1>16. AffinityKept
  BY <1>2, <1>7 DEF AffinityKept, TPlace
<1>17. Placed
  BY <1>3, <1>5, <1>6 DEF Placed, Turning, Threads
<1>18. Runs /\ Accounted
  <2> SUFFICES ASSUME NEW v \in Vcpus
               PROVE  /\ v \in is_running <=> OnCpu(v, processor[v])
                      /\ runstate[v] = "running" <=> v = Charged(processor[v])
    BY DEF Runs, Accounted
  <2>1. v # Idle /\ processor[v] \in Cpus /\ processor[v] \in Threads
    BY <1>6, <1>7 DEF TPlace, Threads
  <2>2. loc[processor[v]].pc = "run" /\ curr[processor[v]] = Idle /\ current[processor[v]] = Idle
    BY <1>3, <1>5, <2>1
  <2>3. v \notin is_running /\ runstate[v] # "running"
    BY <1>2
  <2> QED
    BY <2>1, <2>2, <2>3 DEF OnCpu, Charged
<1>19. Registers
  <2>1. \A v \in Vcpus : Loaded(v) = {} /\ vcpu_dirty_cpumask[v] = {}
    BY <1>3, <1>6 DEF Loaded
  <2> QED
    BY <1>3, <1>5, <2>1 DEF Registers, Threads
<1>20. AllOff
  BY <1>5 DEF AllOff, Off, Threads
<1>21. Noted
  <2>1. Seen /\ PortSeen /\ MaskSeen
    BY <1>2, <1>3 DEF Seen, PortSeen, MaskSeen
  <2>2. Noticed
    BY <1>3 DEF Noticed, Told
  <2> QED
    BY <2>1, <2>2 DEF Noted
<1>22. SpinTold /\ AtWork /\ InCall
  <2>1. \A v \in Vcpus : "migrating" \notin pause_flags[v]
    BY <1>1
  <2> QED
    BY <1>5, <2>1 DEF SpinTold, AtWork, InCall, Calling, Threads
<1>23. NotLost
  <2> SUFFICES ASSUME NEW v \in Vcpus, vcpu_runnable(v) PROVE Queued(v)
    BY DEF NotLost, Has
  <2>1. v \in Up /\ processor[v] \in Cpus
    BY <1>7 DEF vcpu_runnable, Up, TPlace
  <2> QED
    BY <1>3, <2>1 DEF Queued
<1>24. Ledger
  <2>1. \A v \in Vcpus : "blocked" \notin pause_flags[v] /\ runstate[v] # "blocked"
    BY <1>1, <1>2
  <2> QED
    BY <1>2, <2>1 DEF Ledger
<1>25. \A c \in Cpus : urgent_count[c] = 0 /\ UrgentOn(c) = {}
  BY <1>2, <1>3 DEF UrgentOn
<1> QED
  BY <1>2, <1>13, <1>14, <1>15, <1>16, <1>17, <1>18, <1>19, <1>20, <1>21, <1>22, <1>23, <1>24, <1>25
     DEF Core, Pending

-----------------------------------------------------------------------------
\* Locals

(* The steps of a thread change its own locals only.                       *)
LEMMA LocFacts ==
  ASSUME TLoc, NEW t \in Threads, NEW l \in Locals, loc' = [loc EXCEPT ![t] = l]
  PROVE  TLoc' /\ Others(t) /\ loc'[t] = l
BY DEF TLoc, Others

LEMMA ToFacts ==
  ASSUME TLoc, NEW t \in Threads, NEW pc \in Labels, NEW v \in Vcpus \cup {Idle}, To(t, pc, v)
  PROVE  /\ TLoc' /\ Others(t)
         /\ loc'[t].pc = pc /\ loc'[t].v = v /\ loc'[t].mask = {}
<1>1. At0(pc, v) \in Locals /\ At0(pc, v).pc = pc /\ At0(pc, v).v = v /\ At0(pc, v).mask = {}
  BY DEF At0, Local, Locals
<1>2. loc' = [loc EXCEPT ![t] = At0(pc, v)]
  BY DEF To
<1> QED
  BY <1>1, <1>2, LocFacts

LEMMA DoneFacts ==
  ASSUME TLoc, NEW t \in Threads, NEW pending \in SUBSET Cpus, Done(t, pending)
  PROVE  /\ TLoc' /\ Others(t) /\ softirq' \subseteq Cpus
         /\ loc'[t].pc \in {"run", "lock"} /\ loc'[t].v = Idle
<1>1. CASE To(t, "run", Idle) /\ softirq' = pending
  BY <1>1, Label, ToFacts
<1>2. CASE To(t, "lock", Idle) /\ softirq' = pending \ {t}
  BY <1>2, Label, ToFacts
<1> QED
  BY <1>1, <1>2 DEF Done

LEMMA MigrateFacts ==
  ASSUME TLoc, TPlace, NEW t \in Threads, NEW v \in Vcpus, Migrate(t, v)
  PROVE  /\ TLoc' /\ Others(t)
         /\ loc'[t].pc = "lock1" /\ loc'[t].v = v
         /\ loc'[t].old = processor[v] /\ loc'[t].new = processor[v]
<1> DEFINE l == Local("lock1", v, processor[v], processor[v], FALSE, {})
<1>0. processor[v] \in Cpus
  BY DEF TPlace
<1>1. /\ l \in Locals /\ l.pc = "lock1" /\ l.v = v /\ l.old = processor[v] /\ l.new = processor[v]
  BY <1>0, Label DEF Local, Locals
<1>2. loc' = [loc EXCEPT ![t] = l]
  BY DEF Migrate
<1> QED
  BY <1>1, <1>2, LocFacts

LEMMA FlushFacts ==
  ASSUME TLoc, NEW t \in Threads, NEW mask \in SUBSET Cpus, Flush(t, mask)
  PROVE  /\ TLoc' /\ Others(t)
         /\ loc'[t].pc = IF mask = {} THEN Flushed(t) ELSE "flush"
         /\ loc'[t].v = loc[t].v /\ loc'[t].mask = mask
<1> DEFINE pc == IF mask = {} THEN Flushed(t) ELSE "flush"
           l  == Local(pc, loc[t].v, Nobody, Nobody, FALSE, mask)
<1>0. loc[t].v \in Vcpus \cup {Idle}
  BY DEF TLoc, Locals
<1>1. pc \in {"enter", "held", "flush"}
  BY DEF Flushed
<1>2. loc' = [loc EXCEPT ![t] = l]
  BY DEF Flush
<1> HIDE DEF pc
<1>3. pc \in Labels
  BY <1>1, Label
<1>4. l \in Locals /\ l.pc = pc /\ l.v = loc[t].v /\ l.mask = mask
  BY <1>0, <1>3 DEF Local, Locals
<1>5. TLoc' /\ Others(t) /\ loc'[t] = l
  BY <1>2, <1>4, LocFacts
<1> QED
  BY <1>4, <1>5 DEF pc

-----------------------------------------------------------------------------
\* Which steps change what: most concern events and flags only.

Light ==
  \/ \E a \in Agents, v \in Vcpus :
       SendUpcall(a, v) \/ SendPort(a, v) \/ PollTimer(a, v) \/ Pause(a, v) \/ ForceReschedule(a, v)
  \/ \E c \in Cpus, v \in Vcpus : Tick(c, v) \/ Consume(c, v) \/ Yield(c, v) \/ Blocks(c, v)
  \/ \E a \in Agents : Pollers(a) \/ Polled(a) \/ PauseSync(a) \/ Unpause(a) \/ Asked(a)
  \/ \E c \in Cpus :
       \/ Block(c) \/ PollAny(c) \/ PollMask(c) \/ PollEvents(c) \/ PollPort(c) \/ PollSleep(c)
       \/ PollOut(c) \/ Softirq(c) \/ Dirty(c) \/ Tail(c)
  \/ \E t \in Threads : Unblock(t) \/ Unpoll(t) \/ Unmask(t) \/ Reclear(t)

Heavy ==
  \/ \E a \in Agents, v \in Vcpus : SetAffinity(a, v)
  \/ \E a \in Agents : PauseSleep(a) \/ AskedSleep(a)
  \/ \E c \in Cpus : SchedPick(c) \/ SchedSwitch(c) \/ Enter(c) \/ Saved(c)
  \/ \E t \in Threads : Wake(t) \/ Lock1(t) \/ Locked(t) \/ \E c \in Cpus : FlushIpi(c, t)

LEMMA Steps ==
  ASSUME [Next]_vars
  PROVE  Light \/ Heavy \/ UNCHANGED vars
<1>1. CASE Call
  BY <1>1 DEF Call, Up, Light, Heavy
<1>2. CASE Guests
  BY <1>2 DEF Guests, Light
<1>3. ASSUME NEW t \in Threads, Thread(t) PROVE Light \/ Heavy
  <2>1. CASE t \in Agents /\ Agent(t)
    BY <2>1 DEF Agent, Light, Heavy
  <2>2. CASE t \in Cpus /\ Cpu(t)
    BY <2>2 DEF Cpu, Light, Heavy
  <2> QED
    BY <1>3, <2>1, <2>2 DEF Thread, Light, Heavy
<1> QED
  BY <1>1, <1>2, <1>3 DEF Next, Rest

LEMMA LightSched == Light => UNCHANGED sched
<1>1. ASSUME NEW a \in Agents, NEW v \in Vcpus,
             SendUpcall(a, v) \/ SendPort(a, v) \/ PollTimer(a, v) \/ Pause(a, v) \/ ForceReschedule(a, v)
      PROVE  UNCHANGED sched
  BY <1>1 DEF SendUpcall, SendPort, PollTimer, Pause, ForceReschedule
<1>2. ASSUME NEW c \in Cpus, NEW v \in Vcpus, Tick(c, v) \/ Consume(c, v) \/ Yield(c, v) \/ Blocks(c, v)
      PROVE  UNCHANGED sched
  BY <1>2 DEF Tick, Consume, Yield, Blocks
<1>3. ASSUME NEW a \in Agents, Pollers(a) \/ Polled(a) \/ PauseSync(a) \/ Unpause(a) \/ Asked(a)
      PROVE  UNCHANGED sched
  BY <1>3 DEF Pollers, Polled, PauseSync, Unpause, Asked
<1>4. ASSUME NEW c \in Cpus,
             \/ Block(c) \/ PollAny(c) \/ PollMask(c) \/ PollEvents(c) \/ PollPort(c) \/ PollSleep(c)
             \/ PollOut(c) \/ Softirq(c) \/ Dirty(c) \/ Tail(c)
      PROVE  UNCHANGED sched
  BY <1>4 DEF Block, PollAny, PollMask, PollEvents, PollPort, PollSleep, PollOut, Softirq,
     Dirty, Tail
<1>5. ASSUME NEW t \in Threads, Unblock(t) \/ Unpoll(t) \/ Unmask(t) \/ Reclear(t)
      PROVE  UNCHANGED sched
  BY <1>5 DEF Unblock, Unpoll, Unmask, Reclear
<1> QED
  BY <1>1, <1>2, <1>3, <1>4, <1>5 DEF Light

-----------------------------------------------------------------------------
LEMMA OneCarries ==
  ASSUME TLoc, Carries, NEW t \in Threads, Others(t), Sound(t, loc'[t])
  PROVE  Carries'
BY DEF Carries, Others

LEMMA ToPlain ==
  ASSUME TLoc, NEW t \in Threads, NEW pc \in Labels, NEW v \in Vcpus \cup {Idle}, To(t, pc, v),
         loc[t].pc \notin Marked, pc \notin Marked, pc # "lock1", pc \in WithVcpu => v \in Vcpus
  PROVE  Plain(t)
<1>1. TLoc' /\ Others(t) /\ loc'[t].pc = pc /\ loc'[t].v = v
  BY ToFacts
<1>2. pc # "lock2" /\ pc # "flush"
  BY DEF Marked, Pausing
<1> QED
  BY <1>1, <1>2 DEF Plain, Sound

LEMMA DonePlain ==
  ASSUME TLoc, NEW t \in Threads, NEW pending \in SUBSET Cpus, Done(t, pending), loc[t].pc \notin Marked
  PROVE  Plain(t) /\ softirq' \subseteq Cpus
<1>1. /\ TLoc' /\ Others(t) /\ softirq' \subseteq Cpus
      /\ loc'[t].pc \in {"run", "lock"}
  BY DoneFacts
<1>2. loc'[t].pc \notin Marked /\ loc'[t].pc \notin WithVcpu \cup {"flush", "lock1", "lock2"}
  BY <1>1 DEF Marked, Pausing, Turning, WithVcpu
<1> QED
  BY <1>1, <1>2 DEF Plain, Sound

LEMMA WorksOn ==
  ASSUME TLoc, Carries, NEW t \in Threads, loc[t].pc \in WithVcpu
  PROVE  loc[t].v \in Vcpus
BY DEF Carries, Sound

LEMMA OnPlain ==
  ASSUME TLoc, Carries, NEW t \in Threads, NEW pc \in Labels, To(t, pc, loc[t].v),
         loc[t].pc \in WithVcpu \ Marked, pc \in WithVcpu \ (Marked \cup {"lock1"})
  PROVE  Plain(t)
<1>1. loc[t].v \in Vcpus
  BY WorksOn
<1> QED
  BY <1>1, ToPlain

LEMMA AgentCalls ==
  ASSUME TLoc, softirq \subseteq Cpus, NEW a \in Agents, NEW v \in Vcpus,
         SendUpcall(a, v) \/ SendPort(a, v) \/ PollTimer(a, v) \/ ForceReschedule(a, v)
  PROVE  PlainLight(a)
<1>0. a \in Threads
  BY DEF Threads
<1>1. loc[a].pc = "run" /\ UNCHANGED <<pause_count, softirq>>
  BY DEF SendUpcall, SendPort, PollTimer, ForceReschedule, Is, flags
<1>2. PICK pc \in {"unblock", "pollers", "asked"} : To(a, pc, v)
  BY DEF SendUpcall, SendPort, PollTimer, ForceReschedule
<1>3. pc \in Labels /\ pc \in WithVcpu /\ pc \notin Marked /\ pc # "lock1" /\ loc[a].pc \notin Marked
  BY <1>1, <1>2, Label DEF WithVcpu, Marked, Pausing, Turning
<1> QED
  BY <1>0, <1>1, <1>2, <1>3, ToPlain DEF PlainLight

LEMMA GuestCalls ==
  ASSUME TLoc, softirq \subseteq Cpus, NEW c \in Cpus, NEW v \in Vcpus,
         Tick(c, v) \/ Consume(c, v) \/ Yield(c, v) \/ Blocks(c, v)
  PROVE  PlainLight(c)
<1>0. c \in Threads
  BY DEF Threads
<1>1. loc[c].pc \in {"run", "lock"} /\ UNCHANGED pause_count
  BY DEF Tick, Consume, Yield, Blocks, Guest, Is, flags
<1>2. loc[c].pc \notin Marked
  BY <1>1 DEF Marked, Pausing, Turning
<1>3. CASE Consume(c, v)
  <2>1. UNCHANGED <<loc, softirq>>
    BY <1>3 DEF Consume
  <2>2. Sound(c, loc[c])
    BY <1>1 DEF Sound, WithVcpu
  <2> QED
    BY <1>1, <1>2, <2>1, <2>2 DEF PlainLight, Plain, Others, TLoc
<1>4. CASE Blocks(c, v)
  <2>1. UNCHANGED softirq /\ \E pc \in {"block", "poll"} : To(c, pc, v)
    BY <1>4 DEF Blocks
  <2>2. PICK pc \in {"block", "poll"} : To(c, pc, v)
    BY <2>1
  <2>3. pc \in Labels /\ pc \in WithVcpu /\ pc \notin Marked /\ pc # "lock1"
    BY <2>2, Label DEF WithVcpu, Marked, Pausing, Turning
  <2> QED
    BY <1>0, <1>1, <1>2, <2>1, <2>2, <2>3, ToPlain DEF PlainLight
<1>5. CASE Tick(c, v) \/ Yield(c, v)
  <2>1. Done(c, softirq \cup {c})
    BY <1>5 DEF Tick, Yield
  <2> QED
    BY <1>0, <1>1, <1>2, <2>1, DonePlain DEF PlainLight
<1> QED
  BY <1>3, <1>4, <1>5

LEMMA AgentSteps ==
  ASSUME TLoc, Carries, softirq \subseteq Cpus, NEW a \in Agents, Pollers(a) \/ Polled(a) \/ Asked(a)
  PROVE  PlainLight(a)
<1>0. a \in Threads
  BY DEF Threads
<1>1. loc[a].pc \in {"pollers", "polled", "asked"} /\ UNCHANGED <<pause_count, softirq>>
  BY DEF Pollers, Polled, Asked, Is, flags
<1>2. loc[a].pc \in WithVcpu \ Marked
  BY <1>1 DEF WithVcpu, Marked, Pausing, Turning
<1>3. CASE To(a, "run", Idle)
  <2>1. "run" \in Labels /\ "run" \notin Marked /\ "run" \notin WithVcpu
    BY Label DEF WithVcpu, Marked, Pausing, Turning
  <2> QED
    BY <1>0, <1>1, <1>2, <1>3, <2>1, ToPlain DEF PlainLight
<1>4. CASE \E pc \in {"polled", "unblock", "sleep"} : To(a, pc, loc[a].v)
  <2>1. PICK pc \in {"polled", "unblock", "sleep"} : To(a, pc, loc[a].v)
    BY <1>4
  <2>2. pc \in Labels /\ pc \in WithVcpu \ (Marked \cup {"lock1"})
    BY <2>1, Label DEF WithVcpu, Marked, Pausing, Turning
  <2> QED
    BY <1>0, <1>1, <1>2, <2>1, <2>2, OnPlain DEF PlainLight
<1> QED
  BY <1>3, <1>4 DEF Pollers, Polled, Asked

LEMMA ThreadSteps ==
  ASSUME TLoc, Carries, softirq \subseteq Cpus, NEW t \in Threads,
         Unblock(t) \/ Unpoll(t) \/ Unmask(t) \/ Reclear(t)
  PROVE  PlainLight(t)
<1>1. loc[t].pc \in {"unblock", "unpoll", "unmask", "reclear"} /\ UNCHANGED pause_count
  BY DEF Unblock, Unpoll, Unmask, Reclear, Is, flags
<1>2. loc[t].pc \in WithVcpu \ Marked
  BY <1>1 DEF WithVcpu, Marked, Pausing, Turning
<1>3. CASE Done(t, softirq)
  BY <1>1, <1>2, <1>3, DonePlain DEF PlainLight
<1>4. CASE UNCHANGED softirq /\ \E pc \in {"unpoll", "unmask", "wake", "reclear"} : To(t, pc, loc[t].v)
  <2>1. PICK pc \in {"unpoll", "unmask", "wake", "reclear"} : To(t, pc, loc[t].v)
    BY <1>4
  <2>2. pc \in Labels /\ pc \in WithVcpu \ (Marked \cup {"lock1"})
    BY <2>1, Label DEF WithVcpu, Marked, Pausing, Turning
  <2> QED
    BY <1>1, <1>2, <1>4, <2>1, <2>2, OnPlain DEF PlainLight
<1> QED
  BY <1>3, <1>4 DEF Unblock, Unpoll, Unmask, Reclear

LEMMA BlockSteps ==
  ASSUME TLoc, Carries, softirq \subseteq Cpus, NEW c \in Cpus,
         \/ Block(c) \/ PollAny(c) \/ PollMask(c) \/ PollEvents(c) \/ PollPort(c) \/ PollSleep(c)
         \/ PollOut(c)
  PROVE  PlainLight(c)
<1> DEFINE At == {"block", "poll", "poll_mask", "poll_events", "poll_port", "poll_sleep", "poll_out",
                  "poll_out2", "poll_out3"}
<1>0. c \in Threads
  BY DEF Threads
<1>1. loc[c].pc \in At /\ UNCHANGED pause_count
  BY DEF Block, PollAny, PollMask, PollEvents, PollPort, PollSleep, PollOut, Is, flags
<1>2. \A pc \in At : pc \in Labels /\ pc \in WithVcpu \ (Marked \cup {"lock1"})
  BY Label DEF WithVcpu, Marked, Pausing, Turning
<1>3. CASE Done(c, softirq) \/ Done(c, softirq \cup {c})
  <2>1. PICK pending \in SUBSET Cpus : Done(c, pending)
    BY <1>3
  <2> QED
    BY <1>0, <1>1, <1>2, <2>1, DonePlain DEF PlainLight
<1>4. CASE UNCHANGED softirq /\ \E pc \in At : To(c, pc, loc[c].v)
  <2>1. PICK pc \in At : To(c, pc, loc[c].v)
    BY <1>4
  <2> HIDE DEF At
  <2> QED
    BY <1>0, <1>1, <1>2, <1>4, <2>1, OnPlain DEF PlainLight
<1>5. CASE Block(c) \/ PollSleep(c)
  BY <1>3, <1>5 DEF Block, PollSleep
<1>6. CASE PollAny(c) \/ PollMask(c) \/ PollEvents(c) \/ PollPort(c)
  BY <1>4, <1>6 DEF PollAny, PollMask, PollEvents, PollPort
<1>7. CASE PollOut(c)
  BY <1>3, <1>4, <1>7 DEF PollOut
<1> QED
  BY <1>5, <1>6, <1>7

LEMMA SoftirqTail ==
  ASSUME TLoc, TPlace, Carries, softirq \subseteq Cpus, NEW c \in Cpus, Softirq(c) \/ Tail(c)
  PROVE  PlainLight(c)
<1>0. c \in Threads
  BY DEF Threads
<1>1. loc[c].pc \in {"run", "tail"} /\ UNCHANGED pause_count
  BY DEF Softirq, Tail, Is, flags
<1>2. loc[c].pc \notin Marked
  BY <1>1 DEF Marked, Pausing, Turning
<1>3. CASE Done(c, softirq)
  BY <1>0, <1>1, <1>2, <1>3, DonePlain DEF PlainLight
<1>4. CASE loc[c].v # Idle /\ Migrate(c, loc[c].v) /\ UNCHANGED softirq
  <2>1. loc[c].v \in Vcpus
    BY <1>0, <1>4 DEF TLoc, Locals
  <2>2. /\ TLoc' /\ Others(c) /\ loc'[c].pc = "lock1" /\ loc'[c].v = loc[c].v
        /\ loc'[c].old = processor[loc[c].v] /\ loc'[c].new = processor[loc[c].v]
    BY <1>0, <1>4, <2>1, MigrateFacts
  <2>3. processor[loc[c].v] \in Cpus
    BY <2>1 DEF TPlace
  <2>4. "lock1" \notin Marked
    BY DEF Marked, Pausing, Turning
  <2> QED
    BY <1>1, <1>2, <1>4, <2>1, <2>2, <2>3, <2>4 DEF PlainLight, Plain, Sound
<1> QED
  BY <1>3, <1>4 DEF Softirq, Tail

(* All light steps but those of vcpu_pause(), vcpu_unpause() and Dirty.    *)
LEMMA LightCases ==
  ASSUME TLoc, TPlace, Carries, softirq \subseteq Cpus, Light
  PROVE  \/ \E t \in Threads : PlainLight(t)
         \/ \E a \in Agents : Pause(a, loc'[a].v) /\ loc'[a].v \in Vcpus
         \/ \E a \in Agents : PauseSync(a) \/ Unpause(a)
         \/ \E c \in Cpus : Dirty(c)
<1>1. ASSUME NEW a \in Agents, NEW v \in Vcpus, Pause(a, v) PROVE loc'[a].v = v
  <2>1. a \in Threads /\ To(a, "pause", v)
    BY <1>1 DEF Threads, Pause
  <2> QED
    BY <2>1, Label, ToFacts
<1>2. Cpus \subseteq Threads /\ Agents \subseteq Threads
  BY DEF Threads
<1> QED
  BY <1>1, <1>2, AgentCalls, GuestCalls, AgentSteps, ThreadSteps, BlockSteps, SoftirqTail DEF Light

-----------------------------------------------------------------------------
\* Run states

States == {"running", "runnable", "blocked", "offline"}

LEMMA RunstateFacts ==
  ASSUME TState, NEW D \in SUBSET Vcpus, NEW new \in [D -> States], RunstateChange(new)
  PROVE  TState' /\ Recharges(D) /\ \A x \in Vcpus : runstate'[x] = IF x \in D THEN new[x] ELSE runstate[x]
<1> DEFINE more == {v \in D : Polling(v)} \ is_urgent
           less == {v \in D : ~Polling(v)} \cap is_urgent
<1>1. DOMAIN new = D
  OBVIOUS
<1>2. /\ runstate' = [v \in Vcpus |-> IF v \in D THEN new[v] ELSE runstate[v]]
      /\ is_urgent' = (is_urgent \cup more) \ less
  BY <1>1 DEF RunstateChange
<1>3. is_urgent' \subseteq Vcpus
  BY <1>2 DEF TState
<1>5. \A x \in Vcpus : x \in is_urgent' <=> IF x \in D THEN Polling(x) ELSE x \in is_urgent
  BY <1>2
<1> HIDE DEF more, less
<1>4. runstate' \in [Vcpus -> States] /\ \A x \in Vcpus : runstate'[x] = IF x \in D THEN new[x] ELSE runstate[x]
  BY <1>2 DEF TState, States
<1> QED
  BY <1>3, <1>4, <1>5 DEF TState, States, Recharges

LEMMA BecomesFacts ==
  ASSUME TState, NEW v \in Vcpus, NEW st \in States, Becomes(v, st)
  PROVE  TState' /\ Recharges({v}) /\ \A x \in Vcpus : runstate'[x] = IF x = v THEN st ELSE runstate[x]
<1> DEFINE new == [x \in {v} |-> st]
<1>1. new \in [{v} -> States] /\ {v} \subseteq Vcpus /\ new[v] = st
  OBVIOUS
<1>2. RunstateChange(new)
  BY DEF Becomes
<1> HIDE DEF new
<1>3. TState' /\ Recharges({v}) /\ \A x \in Vcpus : runstate'[x] = IF x \in {v} THEN new[x] ELSE runstate[x]
  BY <1>1, <1>2, RunstateFacts
<1> QED
  BY <1>1, <1>3

LEMMA SleepFacts ==
  ASSUME TPlace, TQueue, TState, softirq \subseteq Cpus, NEW v \in Vcpus, vcpu_sleep_nosync(v)
  PROVE  /\ TState' /\ softirq' \subseteq Cpus /\ SameRunning /\ Free(processor[v])
         /\ runq' \in [Cpus -> SUBSET Vcpus] /\ \A c \in Cpus : runq'[c] \subseteq runq[c]
         /\ \/ vcpu_runnable(v) \/ curr[processor[v]] = v
            \/ \A c \in Cpus : v \notin runq'[c]
<1>1. processor[v] \in Cpus
  BY DEF TPlace
<1>2. CASE vcpu_runnable(v)
  <2>1. UNCHANGED <<state, runq, softirq>> /\ Free(processor[v])
    BY <1>2 DEF vcpu_sleep_nosync
  <2> QED
    BY <1>2, <2>1 DEF state, TState, TQueue, SameRunning
<1>3. CASE ~vcpu_runnable(v)
  <2>1. TState' /\ SameRunning
    <3>1. CASE runstate[v] = "runnable"
      <4>1. Becomes(v, "offline") /\ "offline" \in States
        BY <1>3, <3>1 DEF vcpu_sleep_nosync, States
      <4>2. TState' /\ \A x \in Vcpus : runstate'[x] = IF x = v THEN "offline" ELSE runstate[x]
        BY <4>1, BecomesFacts
      <4> QED
        BY <3>1, <4>2 DEF SameRunning
    <3>2. CASE runstate[v] # "runnable"
      BY <1>3, <3>2 DEF vcpu_sleep_nosync, state, TState, SameRunning
    <3> QED
      BY <3>1, <3>2
  <2>2. \/ curr[processor[v]] = v /\ softirq' = softirq \cup {processor[v]} /\ UNCHANGED runq
        \/ runq' = Unqueue(v) /\ UNCHANGED softirq
    BY <1>3 DEF vcpu_sleep_nosync
  <2>3. runq' = Unqueue(v) =>
          /\ runq' \in [Cpus -> SUBSET Vcpus]
          /\ \A c \in Cpus : v \notin runq'[c] /\ runq'[c] \subseteq runq[c]
    BY DEF Unqueue, TQueue
  <2>4. Free(processor[v])
    BY DEF vcpu_sleep_nosync
  <2> QED
    BY <1>1, <2>1, <2>2, <2>3, <2>4 DEF TQueue
<1> QED
  BY <1>2, <1>3

-----------------------------------------------------------------------------
\* What the heavy steps do

LEMMA TickledType ==
  ASSUME TPlace, NEW c \in Cpus, NEW v \in Vcpus, NEW s \in Tickled(c, v)
  PROVE  s \subseteq Cpus
<1>1. cpu_affinity[v] \subseteq Cpus
  BY DEF TPlace
<1> QED
  BY <1>1, SMT DEF Tickled

LEMMA WakeFacts ==
  ASSUME TLoc, TPlace, TQueue, TState, Carries, softirq \subseteq Cpus, NEW t \in Threads, Wake(t)
  PROVE  /\ loc[t].v \in Vcpus /\ PlainLight(t) /\ TQueue' /\ TState' /\ SameRunning
         /\ Free(processor[loc[t].v])
         /\ UNCHANGED <<ev, flags, curr, place, arch, is_running, schedule_lock, moved, down>>
         /\ \/ UNCHANGED runq
            \/ /\ vcpu_runnable(loc[t].v) /\ curr[processor[loc[t].v]] # loc[t].v
               /\ runq' = [runq EXCEPT ![processor[loc[t].v]] = @ \cup {loc[t].v}]
<1> DEFINE v == loc[t].v
           c == processor[v]
<1>1. /\ loc[t].pc = "wake" /\ Free(c)
      /\ UNCHANGED <<ev, flags, curr, place, arch, is_running, schedule_lock, moved, down>>
  BY DEF Wake, Is
<1>2. loc[t].pc \in WithVcpu \ Marked
  BY <1>1 DEF WithVcpu, Marked, Pausing, Turning
<1>3. v \in Vcpus /\ c \in Cpus
  BY <1>2, WorksOn DEF TPlace
<1> HIDE DEF v, c
<1>4. \/ Done(t, softirq) /\ UNCHANGED runq
      \/ /\ vcpu_runnable(v) /\ curr[c] # v /\ runq' = [runq EXCEPT ![c] = @ \cup {v}]
         /\ \E s \in Tickled(c, v) : Done(t, softirq \cup s)
  BY DEF Wake, v, c
<1>5. \E pending \in SUBSET Cpus : Done(t, pending)
  <2>1. CASE Done(t, softirq)
    BY <2>1
  <2>2. CASE \E s \in Tickled(c, v) : Done(t, softirq \cup s)
    BY <1>3, <2>2, TickledType
  <2> QED
    BY <1>4, <2>1, <2>2
<1>6. PlainLight(t)
  <2>1. PICK pending \in SUBSET Cpus : Done(t, pending)
    BY <1>5
  <2>2. UNCHANGED pause_count
    BY <1>1 DEF flags
  <2> QED
    BY <1>2, <2>1, <2>2, DonePlain DEF PlainLight
<1>7. TQueue'
  <2>1. CASE UNCHANGED runq
    BY <1>1, <2>1 DEF TQueue
  <2>2. CASE runq' = [runq EXCEPT ![c] = @ \cup {v}]
    BY <1>1, <1>3, <2>2 DEF TQueue
  <2> QED
    BY <1>4, <2>1, <2>2
<1>8. \/ Becomes(v, "runnable") /\ runstate[v] # "running"
      \/ Becomes(v, "offline") /\ runstate[v] # "running"
      \/ UNCHANGED state
  <2>1. CASE vcpu_runnable(v)
    BY <2>1 DEF Wake, v
  <2>2. CASE ~vcpu_runnable(v)
    BY <2>2 DEF Wake, v
  <2> QED
    BY <2>1, <2>2
<1>9. TState' /\ SameRunning
  <2>1. CASE UNCHANGED state
    BY <2>1 DEF TState, SameRunning, state
  <2>2. ASSUME NEW st \in {"runnable", "offline"}, Becomes(v, st), runstate[v] # "running"
        PROVE  TState' /\ SameRunning
    <3>1. st \in States /\ st # "running"
      BY DEF States
    <3>2. TState' /\ \A x \in Vcpus : runstate'[x] = IF x = v THEN st ELSE runstate[x]
      BY <1>3, <2>2, <3>1, BecomesFacts
    <3> QED
      BY <1>3, <2>2, <3>1, <3>2 DEF SameRunning
  <2> QED
    BY <1>8, <2>1, <2>2
<1> QED
  BY <1>1, <1>3, <1>4, <1>6, <1>7, <1>9 DEF v, c

LEMMA PauseSleepFacts ==
  ASSUME TLoc, TPlace, TQueue, TState, Carries, softirq \subseteq Cpus, NEW a \in Agents, PauseSleep(a)
  PROVE  /\ loc[a].v \in Vcpus /\ loc[a].pc = "pause" /\ loc'[a].pc = "spin" /\ loc'[a].v = loc[a].v
         /\ TLoc' /\ Others(a) /\ Sound(a, loc'[a]) /\ vcpu_sleep_nosync(loc[a].v)
         /\ UNCHANGED <<ev, flags, curr, place, arch, is_running, schedule_lock, moved, down>>
<1>0. a \in Threads
  BY DEF Threads
<1>1. /\ loc[a].pc = "pause" /\ vcpu_sleep_nosync(loc[a].v) /\ To(a, "spin", loc[a].v)
      /\ UNCHANGED <<ev, flags, curr, place, arch, is_running, schedule_lock, moved, down>>
  BY DEF PauseSleep, Is
<1>2. loc[a].v \in Vcpus
  BY <1>0, <1>1, WorksOn DEF WithVcpu
<1>3. TLoc' /\ Others(a) /\ loc'[a].pc = "spin" /\ loc'[a].v = loc[a].v
  BY <1>0, <1>1, <1>2, ToFacts, Label
<1>4. Sound(a, loc'[a])
  BY <1>2, <1>3 DEF Sound
<1> QED
  BY <1>1, <1>2, <1>3, <1>4

LEMMA AskedSleepFacts ==
  ASSUME TLoc, TPlace, TQueue, TState, Carries, softirq \subseteq Cpus, NEW a \in Agents, AskedSleep(a)
  PROVE  /\ loc[a].v \in Vcpus /\ Plain(a) /\ vcpu_sleep_nosync(loc[a].v)
         /\ UNCHANGED <<ev, flags, curr, place, arch, is_running, schedule_lock, moved, down>>
<1>0. a \in Threads
  BY DEF Threads
<1>1. /\ loc[a].pc = "sleep" /\ vcpu_sleep_nosync(loc[a].v) /\ Migrate(a, loc[a].v)
      /\ UNCHANGED <<ev, flags, curr, place, arch, is_running, schedule_lock, moved, down>>
  BY DEF AskedSleep, Is
<1>2. loc[a].v \in Vcpus /\ processor[loc[a].v] \in Cpus
  BY <1>0, <1>1, WorksOn DEF WithVcpu, TPlace
<1>3. /\ TLoc' /\ Others(a) /\ loc'[a].pc = "lock1" /\ loc'[a].v = loc[a].v
      /\ loc'[a].old = processor[loc[a].v] /\ loc'[a].new = processor[loc[a].v]
  BY <1>0, <1>1, <1>2, MigrateFacts
<1>4. loc[a].pc \notin Marked /\ loc'[a].pc \notin Marked
  BY <1>1, <1>3 DEF Marked, Pausing, Turning
<1> QED
  BY <1>1, <1>2, <1>3, <1>4 DEF Plain, Sound

LEMMA SetAffinityFacts ==
  ASSUME TLoc, TPlace, TFlags, NEW a \in Agents, NEW v \in Vcpus, SetAffinity(a, v)
  PROVE  /\ Plain(a) /\ TPlace' /\ TFlags' /\ (AffinityKept => AffinityKept')
         /\ UNCHANGED <<ev, pause_count, queue, state, processor, arch, is_running, schedule_lock, softirq,
                        moved, down>>
<1>0. a \in Threads
  BY DEF Threads
<1>1. /\ loc[a].pc = "run" /\ To(a, "asked", v)
      /\ UNCHANGED <<ev, pause_count, queue, state, processor, arch, is_running, schedule_lock, softirq,
                     moved, down>>
  BY DEF SetAffinity, Is
<1>2. PICK m \in (SUBSET Cpus) \ {{}} :
        /\ cpu_affinity' = [cpu_affinity EXCEPT ![v] = m]
        /\ IF processor[v] \notin m THEN Set(v, "migrating") ELSE UNCHANGED pause_flags
  BY DEF SetAffinity
<1>3. "asked" \in Labels /\ "asked" \in WithVcpu /\ "asked" \notin Marked /\ loc[a].pc \notin Marked
  BY <1>1, Label DEF WithVcpu, Marked, Pausing, Turning
<1>4. Plain(a)
  BY <1>0, <1>1, <1>3, ToPlain
<1>5. TPlace'
  BY <1>1, <1>2 DEF TPlace
<1>6. /\ TFlags' /\ \A x \in Vcpus : "migrating" \in pause_flags[x] => "migrating" \in pause_flags'[x]
      /\ processor[v] \notin m => "migrating" \in pause_flags'[v]
  BY <1>2 DEF TFlags, Set
<1>7. /\ cpu_affinity'[v] = m
      /\ \A x \in Vcpus \ {v} : cpu_affinity'[x] = cpu_affinity[x]
  BY <1>2 DEF TPlace
<1>8. AffinityKept => AffinityKept'
  BY <1>1, <1>6, <1>7 DEF AffinityKept
<1> QED
  BY <1>1, <1>4, <1>5, <1>6, <1>8

LEMMA Lock1Facts ==
  ASSUME TLoc, TRest, Carries, NEW t \in Threads, Lock1(t)
  PROVE  /\ loc[t].pc = "lock1" /\ loc'[t].pc = "lock2" /\ First(loc'[t]) = First(loc[t])
         /\ First(loc[t]) \in Cpus /\ Take(t, First(loc[t]))
         /\ TLoc' /\ Others(t) /\ Sound(t, loc'[t]) /\ TRest'
         /\ UNCHANGED <<ev, flags, queue, state, place, arch, is_running, softirq, moved, down>>
<1> DEFINE l == loc[t]
           m == Local("lock2", l.v, l.old, l.new, l.picked, {})
<1>1. /\ l.pc = "lock1" /\ l.old # l.new /\ Take(t, First(l))
      /\ UNCHANGED <<ev, flags, queue, state, place, arch, is_running, softirq, moved, down>>
  BY DEF Lock1, Is
<1>2. l \in Locals /\ l.v \in Vcpus /\ l.old \in Cpus /\ l.new \in Cpus
  BY <1>1 DEF TLoc, Carries, Sound, WithVcpu
<1>3. loc' = [loc EXCEPT ![t] = m]
  BY DEF Lock1, TLoc
<1>4. m \in Locals /\ m.pc = "lock2" /\ m.v = l.v /\ m.old = l.old /\ m.new = l.new
  BY <1>2, Label DEF Local, Locals
<1>5. TLoc' /\ Others(t) /\ loc'[t] = m
  BY <1>3, <1>4, LocFacts
<1>6. First(l) \in Cpus /\ First(m) = First(l)
  BY <1>2, <1>4 DEF First
<1>7. Sound(t, m)
  BY <1>1, <1>2, <1>4 DEF Sound
<1>8. TRest'
  BY <1>1, <1>6 DEF TRest, Take
<1> QED
  BY <1>1, <1>4, <1>5, <1>6, <1>7, <1>8

(* vcpu_migrate() under its locks: nothing happens but to the thread, or   *)
(* the vcpu gets another CPU while the lock of its old one is not held by  *)
(* anybody else.                                                           *)
LEMMA LockedFacts ==
  ASSUME TLoc, TPlace, TState, TRest, Carries, Holds, softirq \subseteq Cpus, NEW t \in Threads, Locked(t)
  PROVE  /\ loc[t].v \in Vcpus /\ loc[t].pc \in {"lock1", "lock2"} /\ loc'[t].pc \notin Marked
         /\ TLoc' /\ Others(t) /\ Sound(t, loc'[t]) /\ Drop(t) /\ softirq' \subseteq Cpus
         /\ UNCHANGED <<ev, pause_count, queue, runstate, is_urgent, cpu_affinity, arch, is_running, down>>
         /\ \/ UNCHANGED <<pause_flags, processor, urgent_count, moved>>
            \/ \E new \in cpu_affinity[loc[t].v] :
                 /\ loc[t].v \notin is_running /\ schedule_lock[processor[loc[t].v]] \in {Nobody, t}
                 /\ Clear(loc[t].v, "migrating")
                 /\ processor' = [processor EXCEPT ![loc[t].v] = new]
                 /\ moved' = (moved \/ (Queued(loc[t].v) /\ new # processor[loc[t].v]))
                 /\ UrgencyMoves(loc[t].v, new)
<1> DEFINE l == loc[t]
           v == loc[t].v
<1>1. /\ \/ l.pc = "lock1" /\ l.old = l.new /\ Free(l.old)
         \/ l.pc = "lock2" /\ Free(Second(l))
      /\ Drop(t)
      /\ UNCHANGED <<ev, pause_count, queue, runstate, is_urgent, cpu_affinity, arch, is_running, down>>
  BY DEF Locked, Is
<1>2. l.pc \in {"lock1", "lock2"} /\ v \in Vcpus /\ l.old \in Cpus /\ l.new \in Cpus
  BY <1>1 DEF Carries, Sound, WithVcpu
<1>3. processor[v] \in Cpus /\ cpu_affinity[v] \subseteq Cpus /\ l.picked \in BOOLEAN
  BY <1>2 DEF TPlace, TLoc, Locals
<1>4. schedule_lock[l.old] \in {Nobody, t}
  <2>1. CASE l.pc = "lock1"
    BY <1>1, <2>1 DEF Free
  <2>2. CASE l.pc = "lock2"
    <3>1. schedule_lock[First(l)] = t /\ schedule_lock[Second(l)] = Nobody
      BY <1>1, <2>2 DEF Holds, Free
    <3>2. l.old = First(l) \/ l.old = Second(l)
      BY DEF First, Second
    <3> QED
      BY <3>1, <3>2
  <2> QED
    BY <1>2, <2>1, <2>2
<1>5. \/ \E n \in Cpus, p \in BOOLEAN : Retry(t, n, p)
      \/ \E n \in cpu_affinity[v] : processor[v] = l.old /\ Move(t, n)
  <2>1. CASE processor[v] # l.old /\ Retry(t, l.new, FALSE)
    BY <1>2, <2>1
  <2>2. CASE processor[v] = l.old /\ l.picked /\ l.new \in cpu_affinity[v] /\ Move(t, l.new)
    BY <2>2
  <2>3. CASE processor[v] = l.old /\ \E n \in cpu_affinity[v] : IF n = l.new THEN Move(t, n) ELSE Retry(t, n, TRUE)
    BY <1>3, <2>3
  <2> QED
    BY <2>1, <2>2, <2>3 DEF Locked
<1>6. ASSUME NEW n \in Cpus, NEW p \in BOOLEAN, Retry(t, n, p)
      PROVE  /\ TLoc' /\ Others(t) /\ Sound(t, loc'[t]) /\ loc'[t].pc \notin Marked
             /\ softirq' \subseteq Cpus /\ UNCHANGED <<pause_flags, processor, urgent_count, moved>>
  <2> DEFINE m == Local("lock1", v, processor[v], n, p, {})
  <2>1. loc' = [loc EXCEPT ![t] = m] /\ UNCHANGED <<pause_flags, processor, urgent_count, softirq, moved>>
    BY <1>6 DEF Retry, TLoc
  <2>2. m \in Locals /\ m.pc = "lock1" /\ m.v = v /\ m.old = processor[v] /\ m.new = n
    BY <1>2, <1>3, Label DEF Local, Locals
  <2> HIDE DEF m
  <2>3. TLoc' /\ Others(t) /\ loc'[t] = m
    BY <2>1, <2>2, LocFacts
  <2>4. Sound(t, m) /\ "lock1" \notin Marked
    BY <1>2, <1>3, <2>2 DEF Sound, Marked, Pausing, Turning
  <2> QED
    BY <2>1, <2>2, <2>3, <2>4
<1>7. ASSUME NEW n \in cpu_affinity[v], processor[v] = l.old, Move(t, n)
      PROVE  /\ TLoc' /\ Others(t) /\ Sound(t, loc'[t]) /\ loc'[t].pc \notin Marked
             /\ softirq' \subseteq Cpus
             /\ \/ UNCHANGED <<pause_flags, processor, urgent_count, moved>>
                \/ /\ v \notin is_running /\ schedule_lock[processor[v]] \in {Nobody, t}
                   /\ Clear(v, "migrating")
                   /\ processor' = [processor EXCEPT ![v] = n]
                   /\ moved' = (moved \/ (Queued(v) /\ n # processor[v]))
                   /\ UrgencyMoves(v, n)
  <2>1. CASE v \in is_running \/ "migrating" \notin pause_flags[v]
    <3>1. Done(t, softirq) /\ UNCHANGED <<pause_flags, processor, urgent_count, moved>>
      BY <1>7, <2>1 DEF Move
    <3>2. TLoc' /\ Others(t) /\ softirq' \subseteq Cpus /\ loc'[t].pc \in {"run", "lock"}
      BY <3>1, DoneFacts
    <3>3. Sound(t, loc'[t]) /\ loc'[t].pc \notin Marked
      BY <3>2 DEF Sound, WithVcpu, Marked, Pausing, Turning
    <3> QED
      BY <3>1, <3>2, <3>3
  <2>2. CASE ~(v \in is_running \/ "migrating" \notin pause_flags[v])
    <3>1. /\ Clear(v, "migrating") /\ processor' = [processor EXCEPT ![v] = n]
          /\ moved' = (moved \/ (Queued(v) /\ n # processor[v]))
          /\ To(t, "wake", v) /\ UNCHANGED softirq
      BY <1>7, <2>2 DEF Move
    <3>2. UrgencyMoves(v, n)
      BY <1>7, <2>2 DEF Move, UrgencyMoves
    <3>4. TLoc' /\ Others(t) /\ loc'[t].pc = "wake" /\ loc'[t].v = v
      BY <1>2, <3>1, Label, ToFacts
    <3>5. Sound(t, loc'[t]) /\ loc'[t].pc \notin Marked
      BY <1>2, <3>4 DEF Sound, Marked, Pausing, Turning
    <3> QED
      BY <1>4, <1>7, <2>2, <3>1, <3>2, <3>4, <3>5
  <2> QED
    BY <2>1, <2>2
<1> HIDE DEF l
<1>8. CASE \E n \in Cpus, p \in BOOLEAN : Retry(t, n, p)
  BY <1>1, <1>2, <1>6, <1>8 DEF l
<1>9. CASE \E n \in cpu_affinity[v] : processor[v] = l.old /\ Move(t, n)
  BY <1>1, <1>2, <1>7, <1>9 DEF l
<1> QED
  BY <1>5, <1>8, <1>9

LEMMA RequeuedFacts ==
  ASSUME TQueue, TArch, NEW c \in Cpus
  PROVE  /\ Requeued(c) \in [Cpus -> SUBSET Vcpus]
         /\ \A d \in Cpus \ {c} : Requeued(c)[d] = runq[d]
         /\ \/ Requeued(c)[c] = runq[c] /\ ~(current[c] \in Vcpus /\ vcpu_runnable(current[c]))
            \/ /\ current[c] \in Vcpus /\ vcpu_runnable(current[c])
               /\ Requeued(c)[c] = runq[c] \cup {current[c]}
<1>1. CASE current[c] # Idle /\ vcpu_runnable(current[c])
  <2>1. current[c] \in Vcpus
    BY <1>1 DEF TArch
  <2>2. Requeued(c) = [runq EXCEPT ![c] = @ \cup {current[c]}]
    BY <1>1 DEF Requeued
  <2> QED
    BY <1>1, <2>1, <2>2 DEF TQueue
<1>2. CASE ~(current[c] # Idle /\ vcpu_runnable(current[c]))
  BY <1>2, SchedAssumption DEF Requeued, TQueue
<1> QED
  BY <1>1, <1>2

LEMMA ChooseFacts ==
  ASSUME TLoc, softirq \subseteq Cpus, NEW c \in Cpus, NEW v \in Vcpus \cup {Idle}, NEW q, Choose(c, v, q),
         loc[c].pc = "lock"
  PROVE  /\ \/ v = current[c] /\ Plain(c) /\ UNCHANGED schedule_lock
            \/ v # current[c] /\ Take(c, c) /\ loc'[c].pc = "switch"
         /\ TLoc' /\ Others(c) /\ Sound(c, loc'[c]) /\ loc'[c].pc \in {"run", "lock", "switch"}
         /\ softirq' \subseteq Cpus /\ softirq \ {c} \subseteq softirq'
         /\ runq' = q /\ curr' = [curr EXCEPT ![c] = v]
<1>0. c \in Threads
  BY DEF Threads
<1>1. runq' = q /\ curr' = [curr EXCEPT ![c] = v]
  BY DEF Choose
<1>2. CASE v = current[c]
  <2>1. Done(c, softirq) /\ UNCHANGED schedule_lock
    BY <1>2 DEF Choose
  <2>2. "lock" \notin Marked
    BY DEF Marked, Pausing, Turning
  <2>3. Plain(c) /\ softirq' \subseteq Cpus
    BY <1>0, <2>1, <2>2, DonePlain
  <2>4. softirq \ {c} \subseteq softirq' /\ loc'[c].pc \in {"run", "lock"}
    BY <1>0, <2>1, DoneFacts DEF Done
  <2> QED
    BY <1>1, <1>2, <2>1, <2>3, <2>4 DEF Plain
<1>3. CASE v # current[c]
  <2>1. Take(c, c) /\ To(c, "switch", Idle) /\ UNCHANGED softirq
    BY <1>3 DEF Choose
  <2>2. TLoc' /\ Others(c) /\ loc'[c].pc = "switch"
    BY <1>0, <2>1, Label, ToFacts
  <2>3. Sound(c, loc'[c])
    BY <2>2 DEF Sound, WithVcpu
  <2> QED
    BY <1>1, <1>3, <2>1, <2>2, <2>3
<1> QED
  BY <1>2, <1>3

LEMMA SchedPickFacts ==
  ASSUME TLoc, TQueue, TArch, softirq \subseteq Cpus, NEW c \in Cpus, SchedPick(c)
  PROVE  /\ loc[c].pc = "lock" /\ Free(c)
         /\ UNCHANGED <<ev, flags, state, cpu_affinity, arch, is_running, moved>>
         /\ \/ UNCHANGED <<queue, processor, schedule_lock, softirq, loc>> /\ down' = TRUE
            \/ \E v \in Vcpus \cup {Idle}, s \in Cpus : Chosen(c, v, s)
<1> DEFINE q == Requeued(c)
<1>1. /\ loc[c].pc = "lock" /\ Free(c)
      /\ UNCHANGED <<ev, flags, state, cpu_affinity, arch, is_running, moved>>
  BY DEF SchedPick, Is
<1>2. q \in [Cpus -> SUBSET Vcpus]
  BY RequeuedFacts
<1>3. \/ UNCHANGED <<queue, processor, schedule_lock, softirq, loc>> /\ down' = TRUE
      \/ /\ UNCHANGED down
         /\ \/ \E v \in q[c] : Choose(c, v, [q EXCEPT ![c] = @ \ {v}]) /\ UNCHANGED processor
            \/ Steal(c, q)
            \/ q[c] = {} /\ Choose(c, Idle, q) /\ UNCHANGED processor
  BY DEF SchedPick
<1> HIDE DEF q
<1>4. ASSUME NEW v \in q[c], Choose(c, v, [q EXCEPT ![c] = @ \ {v}]), UNCHANGED processor, UNCHANGED down
      PROVE  v \in Vcpus /\ Chosen(c, v, c)
  <2>1. v \in Vcpus
    BY <1>2
  <2> QED
    BY <1>1, <1>4, <2>1, SchedAssumption, ChooseFacts DEF Chosen, q
<1>5. ASSUME Steal(c, q), UNCHANGED down
      PROVE  \E v \in Vcpus, s \in Cpus : Chosen(c, v, s)
  <2>0. PICK s \in Cpus \ {c} : \E v \in q[s] :
          /\ Free(s) /\ Migrateable(v, c)
          /\ Choose(c, v, [q EXCEPT ![s] = @ \ {v}])
          /\ processor' = [processor EXCEPT ![v] = c]
    BY <1>5 DEF Steal
  <2>1. PICK v \in q[s] :
          /\ Free(s) /\ Migrateable(v, c)
          /\ Choose(c, v, [q EXCEPT ![s] = @ \ {v}])
          /\ processor' = [processor EXCEPT ![v] = c]
    BY <2>0
  <2>2. v \in Vcpus
    BY <1>2
  <2>3. Chosen(c, v, s)
    BY <1>1, <1>5, <2>1, <2>2, SchedAssumption, ChooseFacts DEF Chosen, Migrateable, q
  <2> QED
    BY <2>2, <2>3
<1>6. ASSUME q[c] = {}, Choose(c, Idle, q), UNCHANGED processor, UNCHANGED down
      PROVE  Chosen(c, Idle, c)
  <2>1. q = [q EXCEPT ![c] = @ \ {Idle}]
    BY <1>2, SchedAssumption
  <2> QED
    BY <1>1, <1>6, <2>1, ChooseFacts DEF Chosen, q
<1> QED
  BY <1>1, <1>3, <1>4, <1>5, <1>6

LEMMA SchedSwitchFacts ==
  ASSUME TLoc, TQueue, TArch, TState, NEW c \in Cpus, SchedSwitch(c)
  PROVE  /\ loc[c].pc = "switch" /\ loc'[c].pc = "dirty"
         /\ TLoc' /\ Others(c) /\ Sound(c, loc'[c]) /\ Drop(c) /\ TState'
         /\ is_running' = is_running \cup ({curr[c]} \ {Idle})
         /\ \A x \in Vcpus : runstate'[x] = "running" <=> x = curr[c] \/ (x # current[c] /\ runstate[x] = "running")
         /\ Recharges({current[c], curr[c]} \ {Idle})
         /\ \A x \in {current[c], curr[c]} \ {Idle} :
              IF x = curr[c] THEN runstate'[x] = "running" ELSE runstate'[x] = "blocked" <=> "blocked" \in pause_flags[x]
         /\ UNCHANGED <<ev, flags, queue, place, arch, softirq, moved, down>>
<1> DEFINE prev == current[c]
           next == curr[c]
           left == IF "blocked" \in pause_flags[prev] THEN "blocked"
                   ELSE IF vcpu_runnable(prev) THEN "runnable" ELSE "offline"
           D    == {prev, next} \ {Idle}
           new  == [v \in D |-> IF v = next THEN "running" ELSE left]
<1>0. c \in Threads
  BY DEF Threads
<1>1. /\ loc[c].pc = "switch" /\ Drop(c) /\ To(c, "dirty", Idle)
      /\ is_running' = is_running \cup ({curr[c]} \ {Idle})
      /\ UNCHANGED <<ev, flags, queue, place, arch, softirq, moved, down>>
  BY DEF SchedSwitch, Is
<1>2. RunstateChange(new)
  BY DEF SchedSwitch
<1>3. D \subseteq Vcpus
  BY DEF TQueue, TArch
<1>5. left \in States /\ left # "running" /\ (left = "blocked" <=> "blocked" \in pause_flags[prev])
  BY DEF States
<1> HIDE DEF left
<1>6. new \in [D -> States] /\ \A x \in D : new[x] = IF x = next THEN "running" ELSE left
  BY <1>5 DEF States
<1> HIDE DEF new
<1>7. TState' /\ Recharges(D) /\ \A x \in Vcpus : runstate'[x] = IF x \in D THEN new[x] ELSE runstate[x]
  BY <1>2, <1>3, <1>6, RunstateFacts
<1>11. \A x \in D : IF x = next THEN runstate'[x] = "running" ELSE runstate'[x] = "blocked" <=> "blocked" \in pause_flags[x]
  BY <1>3, <1>5, <1>6, <1>7
<1>8. \A x \in Vcpus : runstate'[x] = "running" <=> x = next \/ (x # prev /\ runstate[x] = "running")
  <2> TAKE x \in Vcpus
  <2>1. x # Idle
    BY SchedAssumption
  <2> QED
    BY <1>5, <1>6, <1>7, <2>1
<1>9. TLoc' /\ Others(c) /\ loc'[c].pc = "dirty"
  BY <1>0, <1>1, Label, ToFacts
<1>10. Sound(c, loc'[c])
  BY <1>9 DEF Sound, WithVcpu
<1> QED
  BY <1>1, <1>7, <1>8, <1>9, <1>10, <1>11

LEMMA DirtyFacts ==
  ASSUME TLoc, TQueue, TArch, NEW c \in Cpus, Dirty(c)
  PROVE  /\ loc[c].pc = "dirty" /\ TLoc' /\ Others(c) /\ Sound(c, loc'[c])
         /\ \E mask \in SUBSET Cpus :
              /\ mask = IF curr[c] = Idle THEN {} ELSE vcpu_dirty_cpumask[curr[c]]
              /\ \/ loc'[c].pc = "enter" /\ (c \in mask \/ mask = {})
                 \/ loc'[c].pc = "flush" /\ c \notin mask /\ mask # {} /\ loc'[c].mask = mask
         /\ UNCHANGED <<ev, flags, sched, softirq>>
<1> DEFINE mask == IF curr[c] = Idle THEN {} ELSE vcpu_dirty_cpumask[curr[c]]
           rest == IF c \in mask THEN {} ELSE mask
<1>0. c \in Threads /\ c \notin Agents
  BY SchedAssumption DEF Threads
<1>1. loc[c].pc = "dirty" /\ Flush(c, rest) /\ UNCHANGED <<ev, flags, sched, softirq>>
  BY DEF Dirty, Is
<1>2. mask \subseteq Cpus
  BY DEF TArch, TQueue
<1> HIDE DEF mask
<1>3. /\ TLoc' /\ Others(c) /\ loc'[c].mask = rest
      /\ loc'[c].pc = IF rest = {} THEN "enter" ELSE "flush"
  BY <1>0, <1>1, <1>2, FlushFacts DEF Flushed
<1>4. Sound(c, loc'[c])
  BY <1>0, <1>3 DEF Sound, WithVcpu
<1>5. \/ loc'[c].pc = "enter" /\ (c \in mask \/ mask = {})
      \/ loc'[c].pc = "flush" /\ c \notin mask /\ mask # {} /\ loc'[c].mask = mask
  BY <1>3
<1> QED
  BY <1>1, <1>2, <1>3, <1>4, <1>5 DEF mask

LEMMA SwapFacts ==
  ASSUME TArch, NEW c \in Cpus, NEW n \in Vcpus \cup {Idle}, SwapRegisters(c, n)
  PROVE  /\ vcpu_dirty_cpumask' \in [Vcpus -> SUBSET Cpus]
         /\ \A v \in Vcpus : vcpu_dirty_cpumask'[v] = IF v = n THEN vcpu_dirty_cpumask[v] \cup {c}
                                                      ELSE vcpu_dirty_cpumask[v] \ {c}
         /\ curr_vcpu' \in [Cpus -> Vcpus \cup {Idle}]
         /\ curr_vcpu'[c] = n /\ \A d \in Cpus \ {c} : curr_vcpu'[d] = curr_vcpu[d]
BY DEF SwapRegisters, TArch

LEMMA FlushIpiFacts ==
  ASSUME TLoc, TArch, Carries, NEW t \in Threads, NEW c \in Cpus, FlushIpi(c, t)
  PROVE  /\ loc[t].pc = "flush" /\ c \in loc[t].mask
         /\ TLoc' /\ Others(t) /\ Sound(t, loc'[t]) /\ TArch'
         /\ loc'[t].v = loc[t].v /\ loc'[t].mask = loc[t].mask \ {c}
         /\ loc'[t].pc = "flush" \/ (loc'[t].mask = {} /\ loc'[t].pc = Flushed(t))
         /\ \/ curr_vcpu[c] # current[c] /\ SwapRegisters(c, current[c])
            \/ curr_vcpu[c] = current[c] /\ UNCHANGED <<vcpu_dirty_cpumask, curr_vcpu>>
         /\ UNCHANGED <<ev, flags, queue, state, place, current, is_running, schedule_lock, softirq,
                        moved, down>>
<1>1. /\ loc[t].pc = "flush" /\ c \in loc[t].mask /\ Flush(t, loc[t].mask \ {c})
      /\ UNCHANGED <<ev, flags, queue, state, place, current, is_running, schedule_lock, softirq,
                     moved, down>>
      /\ \/ curr_vcpu[c] # current[c] /\ SwapRegisters(c, current[c])
         \/ curr_vcpu[c] = current[c] /\ UNCHANGED <<vcpu_dirty_cpumask, curr_vcpu>>
  BY DEF FlushIpi, Is
<1>2. loc[t].mask \subseteq Cpus
  BY DEF TLoc, Locals
<1>3. /\ TLoc' /\ Others(t) /\ loc'[t].v = loc[t].v /\ loc'[t].mask = loc[t].mask \ {c}
      /\ loc'[t].pc = IF loc[t].mask \ {c} = {} THEN Flushed(t) ELSE "flush"
  BY <1>1, <1>2, FlushFacts
<1>4. t \in Agents => loc[t].v \in Vcpus
  BY <1>1 DEF Carries, Sound
<1>5. Sound(t, loc'[t])
  <2>1. loc'[t].pc \in {"flush", "enter", "held"} /\ (loc'[t].pc = "held" => t \in Agents)
    BY <1>3 DEF Flushed, Threads
  <2> QED
    BY <1>3, <1>4, <2>1 DEF Sound, WithVcpu
<1>6. TArch'
  <2>1. current[c] \in Vcpus \cup {Idle}
    BY DEF TArch
  <2>2. CASE SwapRegisters(c, current[c])
    BY <1>1, <2>1, <2>2, SwapFacts DEF TArch
  <2>3. CASE UNCHANGED <<vcpu_dirty_cpumask, curr_vcpu>>
    BY <1>1, <2>3 DEF TArch
  <2> QED
    BY <1>1, <2>2, <2>3
<1> QED
  BY <1>1, <1>3, <1>5, <1>6

LEMMA EnterFacts ==
  ASSUME TLoc, TQueue, TArch, NEW c \in Cpus, Enter(c)
  PROVE  /\ loc[c].pc = "enter" /\ loc'[c].pc = "saved" /\ loc'[c].v = current[c]
         /\ TLoc' /\ Others(c) /\ Sound(c, loc'[c]) /\ TArch'
         /\ current' = [current EXCEPT ![c] = curr[c]]
         /\ \/ /\ curr_vcpu[c] = curr[c] \/ curr[c] = Idle
               /\ UNCHANGED <<vcpu_dirty_cpumask, curr_vcpu>>
            \/ curr[c] # Idle /\ SwapRegisters(c, curr[c])
         /\ UNCHANGED <<ev, flags, queue, state, place, is_running, schedule_lock, softirq, moved, down>>
<1>0. c \in Threads
  BY DEF Threads
<1>1. /\ loc[c].pc = "enter" /\ To(c, "saved", current[c])
      /\ current' = [current EXCEPT ![c] = curr[c]]
      /\ \/ /\ curr_vcpu[c] = curr[c] \/ curr[c] = Idle
            /\ UNCHANGED <<vcpu_dirty_cpumask, curr_vcpu>>
         \/ curr[c] # Idle /\ SwapRegisters(c, curr[c])
      /\ UNCHANGED <<ev, flags, queue, state, place, is_running, schedule_lock, softirq, moved, down>>
  BY DEF Enter, Is
<1>2. current[c] \in Vcpus \cup {Idle} /\ curr[c] \in Vcpus \cup {Idle}
  BY DEF TArch, TQueue
<1>3. TLoc' /\ Others(c) /\ loc'[c].pc = "saved" /\ loc'[c].v = current[c]
  BY <1>0, <1>1, <1>2, Label, ToFacts
<1>4. Sound(c, loc'[c])
  BY <1>3 DEF Sound, WithVcpu
<1>5. TArch'
  <2>1. CASE SwapRegisters(c, curr[c])
    BY <1>1, <1>2, <2>1, SwapFacts DEF TArch
  <2>2. CASE UNCHANGED <<vcpu_dirty_cpumask, curr_vcpu>>
    BY <1>1, <1>2, <2>2 DEF TArch
  <2> QED
    BY <1>1, <2>1, <2>2
<1> QED
  BY <1>1, <1>3, <1>4, <1>5

LEMMA SavedFacts ==
  ASSUME TLoc, NEW c \in Cpus, Saved(c)
  PROVE  /\ loc[c].pc = "saved" /\ loc'[c].pc = "tail"
         /\ TLoc' /\ Others(c) /\ Sound(c, loc'[c])
         /\ is_running' = is_running \ {loc[c].v}
         /\ UNCHANGED <<ev, flags, queue, state, place, arch, schedule_lock, softirq, moved, down>>
<1>0. c \in Threads
  BY DEF Threads
<1>1. /\ loc[c].pc = "saved" /\ To(c, "tail", loc[c].v)
      /\ is_running' = is_running \ {loc[c].v}
      /\ UNCHANGED <<ev, flags, queue, state, place, arch, schedule_lock, softirq, moved, down>>
  BY DEF Saved, Is
<1>2. loc[c].v \in Vcpus \cup {Idle}
  BY <1>0 DEF TLoc, Locals
<1>3. TLoc' /\ Others(c) /\ loc'[c].pc = "tail"
  BY <1>0, <1>1, <1>2, Label, ToFacts
<1>4. Sound(c, loc'[c])
  BY <1>3 DEF Sound, WithVcpu
<1> QED
  BY <1>1, <1>3, <1>4

LEMMA PauseFacts ==
  ASSUME TLoc, NEW a \in Agents, NEW v \in Vcpus, Pause(a, v)
  PROVE  /\ loc[a].pc = "run" /\ loc'[a].pc = "pause" /\ loc'[a].v = v
         /\ TLoc' /\ Others(a) /\ Sound(a, loc'[a])
         /\ pause_count' = [pause_count EXCEPT ![v] = @ + 1] /\ UNCHANGED <<ev, pause_flags, sched, softirq>>
<1>0. a \in Threads
  BY DEF Threads
<1>1. /\ loc[a].pc = "run" /\ To(a, "pause", v) /\ pause_count' = [pause_count EXCEPT ![v] = @ + 1]
      /\ UNCHANGED <<ev, pause_flags, sched, softirq>>
  BY DEF Pause, Is
<1>2. TLoc' /\ Others(a) /\ loc'[a].pc = "pause" /\ loc'[a].v = v
  BY <1>0, <1>1, Label, ToFacts
<1> QED
  BY <1>1, <1>2 DEF Sound

LEMMA PauseSyncFacts ==
  ASSUME TLoc, TArch, Carries, NEW a \in Agents, PauseSync(a)
  PROVE  /\ loc[a].pc = "spin" /\ loc[a].v \in Vcpus /\ loc'[a].v = loc[a].v
         /\ vcpu_runnable(loc[a].v) \/ loc[a].v \notin is_running
         /\ \/ loc'[a].pc = "held" /\ vcpu_dirty_cpumask[loc[a].v] = {}
            \/ loc'[a].pc = "flush" /\ loc'[a].mask = vcpu_dirty_cpumask[loc[a].v]
         /\ TLoc' /\ Others(a) /\ Sound(a, loc'[a])
         /\ UNCHANGED <<ev, flags, sched, softirq>>
<1>0. a \in Threads /\ a \notin Cpus
  BY SchedAssumption DEF Threads
<1>1. /\ loc[a].pc = "spin" /\ (vcpu_runnable(loc[a].v) \/ loc[a].v \notin is_running)
      /\ Flush(a, vcpu_dirty_cpumask[loc[a].v]) /\ UNCHANGED <<ev, flags, sched, softirq>>
  BY DEF PauseSync, Is
<1>2. loc[a].v \in Vcpus
  BY <1>0, <1>1, WorksOn DEF WithVcpu
<1>3. vcpu_dirty_cpumask[loc[a].v] \subseteq Cpus
  BY <1>2 DEF TArch
<1>4. /\ TLoc' /\ Others(a) /\ loc'[a].v = loc[a].v /\ loc'[a].mask = vcpu_dirty_cpumask[loc[a].v]
      /\ loc'[a].pc = IF vcpu_dirty_cpumask[loc[a].v] = {} THEN "held" ELSE "flush"
  BY <1>0, <1>1, <1>3, FlushFacts DEF Flushed
<1>5. Sound(a, loc'[a])
  BY <1>2, <1>4 DEF Sound
<1> QED
  BY <1>1, <1>2, <1>4, <1>5

LEMMA UnpauseFacts ==
  ASSUME TLoc, Carries, NEW a \in Agents, Unpause(a)
  PROVE  /\ loc[a].pc = "held" /\ loc[a].v \in Vcpus /\ loc'[a].pc \notin Marked
         /\ TLoc' /\ Others(a) /\ Sound(a, loc'[a])
         /\ pause_count' = [pause_count EXCEPT ![loc[a].v] = @ - 1]
         /\ UNCHANGED <<ev, pause_flags, sched, softirq>>
<1>0. a \in Threads
  BY DEF Threads
<1>1. /\ loc[a].pc = "held" /\ pause_count' = [pause_count EXCEPT ![loc[a].v] = @ - 1]
      /\ To(a, "wake", loc[a].v) \/ To(a, "run", Idle)
      /\ UNCHANGED <<ev, pause_flags, sched, softirq>>
  BY DEF Unpause, Is
<1>2. loc[a].v \in Vcpus
  BY <1>0, <1>1, WorksOn DEF WithVcpu
<1>3. /\ TLoc' /\ Others(a)
      /\ \/ loc'[a].pc = "wake" /\ loc'[a].v = loc[a].v
         \/ loc'[a].pc = "run"
  BY <1>0, <1>1, <1>2, Label, ToFacts
<1>4. Sound(a, loc'[a]) /\ loc'[a].pc \notin Marked
  BY <1>2, <1>3 DEF Sound, WithVcpu, Marked, Pausing, Turning
<1> QED
  BY <1>1, <1>2, <1>3, <1>4

-----------------------------------------------------------------------------
\* Types, locals, locks and counts

Good == TypeOK /\ Carries /\ Holds /\ Paused

LEMMA LightLoc ==
  ASSUME Good, Light
  PROVE  TLoc' /\ Carries' /\ softirq' \subseteq Cpus
<1>1. TLoc /\ TPlace /\ TQueue /\ TArch /\ Carries /\ softirq \subseteq Cpus
  BY Groups DEF Good
<1>2. Cpus \subseteq Threads /\ Agents \subseteq Threads
  BY DEF Threads
<1>3. \/ \E t \in Threads : PlainLight(t)
      \/ \E t \in Threads : TLoc' /\ Others(t) /\ Sound(t, loc'[t]) /\ UNCHANGED softirq
  <2>1. ASSUME NEW a \in Agents, NEW v \in Vcpus, Pause(a, v)
        PROVE  TLoc' /\ Others(a) /\ Sound(a, loc'[a]) /\ UNCHANGED softirq
    BY <1>1, <2>1, PauseFacts
  <2>2. ASSUME NEW a \in Agents, PauseSync(a) \/ Unpause(a)
        PROVE  TLoc' /\ Others(a) /\ Sound(a, loc'[a]) /\ UNCHANGED softirq
    BY <1>1, <2>2, PauseSyncFacts, UnpauseFacts
  <2>3. ASSUME NEW c \in Cpus, Dirty(c)
        PROVE  TLoc' /\ Others(c) /\ Sound(c, loc'[c]) /\ UNCHANGED softirq
    BY <1>1, <2>3, DirtyFacts
  <2> QED
    BY <1>1, <1>2, <2>1, <2>2, <2>3, LightCases
<1>4. CASE \E t \in Threads : PlainLight(t)
  BY <1>1, <1>4, OneCarries DEF PlainLight, Plain
<1>5. CASE \E t \in Threads : TLoc' /\ Others(t) /\ Sound(t, loc'[t]) /\ UNCHANGED softirq
  BY <1>1, <1>5, OneCarries
<1> QED
  BY <1>3, <1>4, <1>5

LEMMA HeavyLoc ==
  ASSUME Good, Heavy
  PROVE  TLoc' /\ Carries' /\ softirq' \subseteq Cpus
<1>1. TLoc /\ TPlace /\ TFlags /\ TQueue /\ TArch /\ TState /\ TRest /\ Carries /\ Holds /\ softirq \subseteq Cpus
  BY Groups DEF Good
<1>2. Cpus \subseteq Threads /\ Agents \subseteq Threads
  BY DEF Threads
<1> DEFINE Step(t) == TLoc' /\ Others(t) /\ Sound(t, loc'[t]) /\ softirq' \subseteq Cpus
<1>3. ASSUME NEW a \in Agents, NEW v \in Vcpus, SetAffinity(a, v) PROVE Step(a)
  BY <1>1, <1>3, SetAffinityFacts DEF Plain
<1>4. ASSUME NEW a \in Agents, PauseSleep(a) PROVE Step(a)
  BY <1>1, <1>4, PauseSleepFacts, SleepFacts
<1>5. ASSUME NEW a \in Agents, AskedSleep(a) PROVE Step(a)
  BY <1>1, <1>5, AskedSleepFacts, SleepFacts DEF Plain
<1>6. ASSUME NEW c \in Cpus, SchedPick(c) PROVE Step(c) \/ (UNCHANGED <<loc, softirq>>)
  BY <1>1, <1>6, SchedPickFacts DEF Chosen
<1>7. ASSUME NEW c \in Cpus, SchedSwitch(c) \/ Enter(c) \/ Saved(c) PROVE Step(c)
  BY <1>1, <1>7, SchedSwitchFacts, EnterFacts, SavedFacts
<1>8. ASSUME NEW t \in Threads, Wake(t) PROVE Step(t)
  BY <1>1, <1>8, WakeFacts DEF PlainLight, Plain
<1>9. ASSUME NEW t \in Threads, Lock1(t) \/ Locked(t) PROVE Step(t)
  BY <1>1, <1>9, Lock1Facts, LockedFacts
<1>10. ASSUME NEW t \in Threads, NEW c \in Cpus, FlushIpi(c, t) PROVE Step(t)
  BY <1>1, <1>10, FlushIpiFacts
<1>11. (\E t \in Threads : Step(t)) \/ UNCHANGED <<loc, softirq>>
  <2> HIDE DEF Step
  <2> QED
    BY <1>2, <1>3, <1>4, <1>5, <1>6, <1>7, <1>8, <1>9, <1>10 DEF Heavy
<1>12. CASE \E t \in Threads : Step(t)
  BY <1>1, <1>12, OneCarries
<1>13. CASE UNCHANGED <<loc, softirq>>
  BY <1>1, <1>13 DEF TLoc, Carries
<1> QED
  BY <1>11, <1>12, <1>13

LEMMA LightFlags ==
  ASSUME TFlags, Light
  PROVE  TFlags' /\ \A v \in Vcpus : "migrating" \in pause_flags[v] => "migrating" \in pause_flags'[v]
<1> DEFINE Change == \/ UNCHANGED pause_flags
                     \/ \E v : Set(v, "blocked") \/ Set(v, "migrating") \/ Clear(v, "blocked")
<1>1. ASSUME NEW a \in Agents, NEW v \in Vcpus,
             SendUpcall(a, v) \/ SendPort(a, v) \/ PollTimer(a, v) \/ Pause(a, v) \/ ForceReschedule(a, v)
      PROVE  Change
  BY <1>1 DEF SendUpcall, SendPort, PollTimer, Pause, ForceReschedule, flags
<1>2. ASSUME NEW c \in Cpus, NEW v \in Vcpus, Tick(c, v) \/ Consume(c, v) \/ Yield(c, v) \/ Blocks(c, v)
      PROVE  Change
  BY <1>2 DEF Tick, Consume, Yield, Blocks, flags
<1>3. ASSUME NEW a \in Agents, Pollers(a) \/ Polled(a) \/ PauseSync(a) \/ Unpause(a) \/ Asked(a)
      PROVE  Change
  BY <1>3 DEF Pollers, Polled, PauseSync, Unpause, Asked, flags
<1>4. ASSUME NEW c \in Cpus,
             \/ Block(c) \/ PollAny(c) \/ PollMask(c) \/ PollEvents(c) \/ PollPort(c) \/ PollSleep(c)
             \/ PollOut(c) \/ Softirq(c) \/ Dirty(c) \/ Tail(c)
      PROVE  Change
  BY <1>4 DEF Block, PollAny, PollMask, PollEvents, PollPort, PollSleep, PollOut, Softirq, Dirty, Tail, flags
<1>5. ASSUME NEW t \in Threads, Unblock(t) \/ Unpoll(t) \/ Unmask(t) \/ Reclear(t)
      PROVE  Change
  BY <1>5 DEF Unblock, Unpoll, Unmask, Reclear, flags
<1>6. Change
  <2> HIDE DEF Change
  <2> QED
    BY <1>1, <1>2, <1>3, <1>4, <1>5 DEF Light
<1> QED
  BY <1>6 DEF TFlags, Set, Clear

LEMMA LightEvents ==
  ASSUME TEvents, TLoc, Carries, Light
  PROVE  TEvents'
<1> DEFINE Port(x, k) == poll_evtchn' = [poll_evtchn EXCEPT ![x] = k]
           Small == \/ UNCHANGED ev
                    \/ UNCHANGED <<poll_evtchn, upcall, port>> /\ poll_mask' \subseteq poll_mask
                    \/ /\ UNCHANGED <<poll_mask, upcall, port>>
                       /\ \E x : Port(x, 0) \/ Port(x, 1) \/ Port(x, -1)
<1>0. Small => TEvents'
  <2>1. ASSUME NEW x, NEW k \in -1 .. 1, Port(x, k) PROVE poll_evtchn' \in [Vcpus -> -1 .. 1]
    BY <2>1 DEF TEvents
  <2>2. 0 \in -1 .. 1 /\ 1 \in -1 .. 1 /\ -1 \in -1 .. 1
    BY SMT
  <2>3. (\E x : Port(x, 0) \/ Port(x, 1) \/ Port(x, -1)) => poll_evtchn' \in [Vcpus -> -1 .. 1]
    <3> HIDE DEF Port
    <3> QED
      BY <2>1, <2>2
  <2> HIDE DEF Port
  <2> QED
    BY <2>3 DEF TEvents, ev
<1>1. ASSUME NEW a \in Agents, NEW v \in Vcpus,
             SendUpcall(a, v) \/ SendPort(a, v) \/ PollTimer(a, v) \/ Pause(a, v) \/ ForceReschedule(a, v)
      PROVE  TEvents'
  BY <1>1 DEF SendUpcall, SendPort, PollTimer, Pause, ForceReschedule, ev, TEvents
<1>2. ASSUME NEW c \in Cpus, NEW v \in Vcpus, Tick(c, v) \/ Consume(c, v) \/ Yield(c, v) \/ Blocks(c, v)
      PROVE  TEvents'
  BY <1>2 DEF Tick, Consume, Yield, Blocks, ev, TEvents
<1>3. ASSUME NEW a \in Agents, Pollers(a) \/ Polled(a) \/ PauseSync(a) \/ Unpause(a) \/ Asked(a)
      PROVE  Small
  <2>1. CASE Pollers(a)
    BY <2>1 DEF Pollers
  <2>2. CASE Polled(a)
    BY <2>2 DEF Polled
  <2>3. CASE PauseSync(a) \/ Unpause(a) \/ Asked(a)
    BY <2>3 DEF PauseSync, Unpause, Asked
  <2> QED
    BY <1>3, <2>1, <2>2, <2>3
<1>4. ASSUME NEW c \in Cpus, PollMask(c)
      PROVE  TEvents'
  <2>1. loc[c].v \in Vcpus
    BY <1>4, WorksOn DEF PollMask, Is, WithVcpu, Threads
  <2> QED
    BY <1>4, <2>1 DEF PollMask, TEvents
<1>5. ASSUME NEW c \in Cpus,
             \/ Block(c) \/ PollAny(c) \/ PollEvents(c) \/ PollPort(c) \/ PollSleep(c)
             \/ PollOut(c) \/ Softirq(c) \/ Dirty(c) \/ Tail(c)
      PROVE  Small
  <2>1. CASE Block(c) \/ PollEvents(c) \/ PollPort(c) \/ Softirq(c) \/ Dirty(c) \/ Tail(c)
    BY <2>1 DEF Block, PollEvents, PollPort, Softirq, Dirty, Tail
  <2>2. CASE PollAny(c)
    BY <2>2 DEF PollAny
  <2>3. CASE PollOut(c)
    BY <2>3 DEF PollOut, ev
  <2>4. CASE PollSleep(c)
    BY <2>4 DEF PollSleep, ev
  <2> QED
    BY <1>5, <2>1, <2>2, <2>3, <2>4
<1>6. ASSUME NEW t \in Threads, Unblock(t) \/ Unpoll(t) \/ Unmask(t) \/ Reclear(t)
      PROVE  Small
  <2>1. CASE Unblock(t) \/ Reclear(t)
    BY <2>1 DEF Unblock, Reclear
  <2>2. CASE Unpoll(t)
    BY <2>2 DEF Unpoll
  <2>3. CASE Unmask(t)
    BY <2>3 DEF Unmask
  <2> QED
    BY <1>6, <2>1, <2>2, <2>3
<1> HIDE DEF Small
<1> QED
  BY <1>0, <1>1, <1>2, <1>3, <1>4, <1>5, <1>6 DEF Light

LEMMA HoldsFrame ==
  ASSUME Holds, NEW t \in Threads, Others(t), loc'[t].pc \notin {"switch", "lock2"}, UNCHANGED schedule_lock
  PROVE  Holds'
<1>1. \A u \in Threads : u # t => loc'[u] = loc[u]
  BY DEF Others
<1> QED
  BY <1>1 DEF Holds, Threads

LEMMA FirstType ==
  ASSUME TLoc, Carries, NEW t \in Threads, loc[t].pc = "lock2"
  PROVE  First(loc[t]) \in Cpus
BY DEF Carries, Sound, First

LEMMA HoldsTake ==
  ASSUME TLoc, TRest, Carries, Holds, NEW t \in Threads, Others(t), NEW c \in Cpus, Take(t, c),
         \/ loc'[t].pc = "switch" /\ c = t
         \/ loc'[t].pc = "lock2" /\ First(loc'[t]) = c
  PROVE  Holds'
<1>1. \A u \in Threads : u # t => loc'[u] = loc[u]
  BY DEF Others
<1>2. /\ schedule_lock[c] = Nobody /\ schedule_lock'[c] = t
      /\ \A d \in Cpus : d # c => schedule_lock'[d] = schedule_lock[d]
  BY DEF Take, Free, TRest
<1>3. \A d \in Cpus : loc'[d].pc = "switch" => schedule_lock'[d] = d
  <2> TAKE d \in Cpus
  <2>1. d \in Threads /\ d # Nobody
    BY SchedAssumption DEF Threads
  <2>2. CASE d = t
    BY <1>2, <2>2
  <2>3. CASE d # t
    BY <1>1, <1>2, <2>1, <2>3 DEF Holds
  <2> QED
    BY <2>2, <2>3
<1>4. ASSUME NEW u \in Threads, loc'[u].pc = "lock2" PROVE schedule_lock'[First(loc'[u])] = u
  <2>1. CASE u = t
    BY <1>2, <1>4, <2>1
  <2>2. CASE u # t
    <3>1. loc'[u] = loc[u] /\ schedule_lock[First(loc[u])] = u /\ First(loc[u]) \in Cpus
      BY <1>1, <1>4, <2>2, FirstType DEF Holds
    <3>2. u # Nobody
      BY SchedAssumption
    <3> QED
      BY <1>2, <3>1, <3>2
  <2> QED
    BY <2>1, <2>2
<1> QED
  BY <1>3, <1>4 DEF Holds

LEMMA HoldsDrop ==
  ASSUME TLoc, TRest, Carries, Holds, NEW t \in Threads, Others(t), Drop(t),
         loc'[t].pc \notin {"switch", "lock2"}
  PROVE  Holds' /\ schedule_lock' \in [Cpus -> Threads \cup {Nobody}]
<1>1. \A u \in Threads : u # t => loc'[u] = loc[u]
  BY DEF Others
<1>2. \A d \in Cpus : schedule_lock[d] # t => schedule_lock'[d] = schedule_lock[d]
  BY DEF Drop
<1>3. \A d \in Cpus : loc'[d].pc = "switch" => schedule_lock'[d] = d
  BY <1>1, <1>2 DEF Holds, Threads
<1>4. ASSUME NEW u \in Threads, loc'[u].pc = "lock2" PROVE schedule_lock'[First(loc'[u])] = u
  <2>1. u # t /\ loc'[u] = loc[u]
    BY <1>1, <1>4
  <2>2. schedule_lock[First(loc[u])] = u /\ First(loc[u]) \in Cpus
    BY <1>4, <2>1, FirstType DEF Holds
  <2> QED
    BY <1>2, <2>1, <2>2
<1>5. schedule_lock' \in [Cpus -> Threads \cup {Nobody}]
  BY DEF Drop, TRest
<1> QED
  BY <1>3, <1>4, <1>5 DEF Holds

LEMMA TakeType ==
  ASSUME TRest, NEW t \in Threads, NEW c \in Cpus, Take(t, c)
  PROVE  schedule_lock' \in [Cpus -> Threads \cup {Nobody}]
BY DEF Take, TRest

LEMMA LightHolds ==
  ASSUME Good, Light
  PROVE  Holds'
<1>1. TLoc /\ TPlace /\ TQueue /\ TArch /\ Carries /\ Holds /\ softirq \subseteq Cpus
  BY Groups DEF Good
<1>2. Cpus \subseteq Threads /\ Agents \subseteq Threads
  BY DEF Threads
<1>3. UNCHANGED schedule_lock
  BY LightSched DEF sched
<1> DEFINE Step(t) == Others(t) /\ loc'[t].pc \notin {"switch", "lock2"}
<1>4. ASSUME NEW t \in Threads, PlainLight(t) PROVE Step(t)
  BY <1>4 DEF PlainLight, Plain, Marked, Turning
<1>5. ASSUME NEW a \in Agents, NEW v \in Vcpus, Pause(a, v) PROVE Step(a)
  BY <1>1, <1>5, PauseFacts
<1>6. ASSUME NEW a \in Agents, PauseSync(a) PROVE Step(a)
  BY <1>1, <1>6, PauseSyncFacts
<1>7. ASSUME NEW a \in Agents, Unpause(a) PROVE Step(a)
  BY <1>1, <1>7, UnpauseFacts DEF Marked, Turning
<1>8. ASSUME NEW c \in Cpus, Dirty(c) PROVE Step(c)
  BY <1>1, <1>8, DirtyFacts
<1>9. \E t \in Threads : Step(t)
  <2> HIDE DEF Step
  <2> QED
    BY <1>1, <1>2, <1>4, <1>5, <1>6, <1>7, <1>8, LightCases
<1> QED
  BY <1>1, <1>3, <1>9, HoldsFrame

LEMMA HeavyHolds ==
  ASSUME Good, Heavy
  PROVE  Holds' /\ TRest'
<1>1. /\ TLoc /\ TPlace /\ TFlags /\ TQueue /\ TArch /\ TState /\ TRest /\ Carries /\ Holds
      /\ softirq \subseteq Cpus
  BY Groups DEF Good
<1>2. Cpus \subseteq Threads /\ Agents \subseteq Threads
  BY DEF Threads
<1> DEFINE Keep(t) == /\ Others(t) /\ loc'[t].pc \notin {"switch", "lock2"}
                      /\ UNCHANGED <<schedule_lock, moved, down>>
           Goal == Holds' /\ TRest'
<1>3. ASSUME NEW t \in Threads, Keep(t), is_running' \subseteq Vcpus PROVE Goal
  <2>1. Holds'
    BY <1>1, <1>3, HoldsFrame
  <2> QED
    BY <1>1, <1>3, <2>1 DEF TRest
<1>4. is_running \subseteq Vcpus /\ "switch" \in Marked /\ "lock2" \in Marked
  BY <1>1 DEF TRest, Marked, Turning
<1>5. ASSUME NEW a \in Agents, NEW v \in Vcpus, SetAffinity(a, v) PROVE Goal
  <2>1. Keep(a) /\ UNCHANGED is_running
    BY <1>1, <1>4, <1>5, SetAffinityFacts DEF Plain
  <2> QED
    BY <1>2, <1>3, <1>4, <2>1
<1>6. ASSUME NEW a \in Agents, PauseSleep(a) PROVE Goal
  <2>1. Keep(a) /\ UNCHANGED is_running
    BY <1>1, <1>6, PauseSleepFacts
  <2> QED
    BY <1>2, <1>3, <1>4, <2>1
<1>7. ASSUME NEW a \in Agents, AskedSleep(a) PROVE Goal
  <2>1. Keep(a) /\ UNCHANGED is_running
    BY <1>1, <1>4, <1>7, AskedSleepFacts DEF Plain
  <2> QED
    BY <1>2, <1>3, <1>4, <2>1
<1>8. ASSUME NEW c \in Cpus, SchedPick(c) PROVE Goal
  <2>1. UNCHANGED <<is_running, moved>>
    BY <1>1, <1>8, SchedPickFacts
  <2>2. CASE UNCHANGED <<schedule_lock, loc>> /\ down' = TRUE
    BY <1>1, <2>1, <2>2 DEF TRest, Holds
  <2>3. CASE \E v \in Vcpus \cup {Idle}, s \in Cpus : Chosen(c, v, s)
    <3>1. /\ Others(c) /\ UNCHANGED down
          /\ \/ Plain(c) /\ UNCHANGED schedule_lock
             \/ Take(c, c) /\ loc'[c].pc = "switch"
      BY <2>3 DEF Chosen
    <3>2. CASE Plain(c) /\ UNCHANGED schedule_lock
      <4>1. Keep(c)
        BY <1>4, <2>1, <3>1, <3>2 DEF Plain
      <4> QED
        BY <1>2, <1>3, <1>4, <2>1, <4>1
    <3>3. CASE Take(c, c) /\ loc'[c].pc = "switch"
      <4>1. Holds'
        BY <1>1, <1>2, <3>1, <3>3, HoldsTake
      <4>2. schedule_lock' \in [Cpus -> Threads \cup {Nobody}]
        BY <1>1, <1>2, <3>3, TakeType
      <4> QED
        BY <1>1, <2>1, <3>1, <4>1, <4>2 DEF TRest
    <3> QED
      BY <3>1, <3>2, <3>3
  <2> QED
    BY <1>1, <1>8, <2>2, <2>3, SchedPickFacts
<1>9. ASSUME NEW c \in Cpus, SchedSwitch(c) PROVE Goal
  <2>1. /\ Others(c) /\ Drop(c) /\ loc'[c].pc = "dirty" /\ UNCHANGED <<moved, down>>
        /\ is_running' = is_running \cup ({curr[c]} \ {Idle})
    BY <1>1, <1>9, SchedSwitchFacts
  <2>2. Holds' /\ schedule_lock' \in [Cpus -> Threads \cup {Nobody}]
    BY <1>1, <1>2, <2>1, HoldsDrop
  <2>3. is_running' \subseteq Vcpus
    BY <1>1, <1>4, <2>1 DEF TQueue
  <2> QED
    BY <1>1, <2>1, <2>2, <2>3 DEF TRest
<1>10. ASSUME NEW c \in Cpus, Enter(c) PROVE Goal
  <2>1. Keep(c) /\ UNCHANGED is_running
    BY <1>1, <1>10, EnterFacts
  <2> QED
    BY <1>2, <1>3, <1>4, <2>1
<1>11. ASSUME NEW c \in Cpus, Saved(c) PROVE Goal
  <2>1. Keep(c) /\ is_running' = is_running \ {loc[c].v}
    BY <1>1, <1>11, SavedFacts
  <2> QED
    BY <1>2, <1>3, <1>4, <2>1
<1>12. ASSUME NEW t \in Threads, Wake(t) PROVE Goal
  <2>1. Keep(t) /\ UNCHANGED is_running
    BY <1>1, <1>4, <1>12, WakeFacts DEF PlainLight, Plain
  <2> QED
    BY <1>3, <1>4, <2>1
<1>13. ASSUME NEW t \in Threads, Lock1(t) PROVE Goal
  BY <1>1, <1>13, Lock1Facts, HoldsTake
<1>14. ASSUME NEW t \in Threads, Locked(t) PROVE Goal
  <2>1. /\ Others(t) /\ Drop(t) /\ loc'[t].pc \notin Marked /\ UNCHANGED <<is_running, down>>
        /\ moved' \in BOOLEAN
    BY <1>1, <1>14, LockedFacts DEF TRest
  <2>2. Holds' /\ schedule_lock' \in [Cpus -> Threads \cup {Nobody}]
    BY <1>1, <1>4, <2>1, HoldsDrop
  <2> QED
    BY <1>1, <2>1, <2>2 DEF TRest
<1>15. ASSUME NEW t \in Threads, NEW c \in Cpus, FlushIpi(c, t) PROVE Goal
  <2>1. Keep(t) /\ UNCHANGED is_running
    BY <1>1, <1>15, FlushIpiFacts DEF Flushed
  <2> QED
    BY <1>3, <1>4, <2>1
<1> HIDE DEF Goal
<1>16. Goal
  BY <1>5, <1>6, <1>7, <1>8, <1>9, <1>10, <1>11, <1>12, <1>13, <1>14, <1>15 DEF Heavy
<1> QED
  BY <1>16 DEF Goal

(* The other types in heavy steps.                                         *)
LEMMA HeavyTypes ==
  ASSUME Good, Heavy
  PROVE  /\ TPlace' /\ TFlags' /\ TEvents' /\ TQueue' /\ TState' /\ TArch'
         /\ AffinityKept => AffinityKept'
<1>1. /\ TLoc /\ TPlace /\ TFlags /\ TEvents /\ TQueue /\ TArch /\ TState /\ TRest /\ Carries /\ Holds
      /\ softirq \subseteq Cpus
  BY Groups DEF Good
<1> DEFINE Goal == /\ TPlace' /\ TFlags' /\ TEvents' /\ TQueue' /\ TState' /\ TArch'
                   /\ AffinityKept => AffinityKept'
<1>2. UNCHANGED flags => TFlags'
  BY <1>1 DEF flags, TFlags
<1>3. UNCHANGED ev => TEvents'
  BY <1>1 DEF ev, TEvents
<1>4. UNCHANGED place => TPlace'
  BY <1>1 DEF place, TPlace
<1>5. UNCHANGED queue => TQueue'
  BY <1>1 DEF queue, TQueue
<1>6. UNCHANGED state => TState'
  BY <1>1 DEF state, TState
<1>7. UNCHANGED arch => TArch'
  BY <1>1 DEF arch, TArch
<1>8. UNCHANGED <<flags, place, moved>> => (AffinityKept => AffinityKept')
  BY SMT DEF flags, place, AffinityKept
<1>9. ASSUME NEW a \in Agents, NEW v \in Vcpus, SetAffinity(a, v) PROVE Goal
  BY <1>1, <1>3, <1>5, <1>6, <1>7, <1>9, SetAffinityFacts
<1>10. ASSUME NEW a \in Agents, PauseSleep(a) \/ AskedSleep(a) PROVE Goal
  <2>1. /\ loc[a].v \in Vcpus /\ vcpu_sleep_nosync(loc[a].v)
        /\ UNCHANGED <<ev, flags, curr, place, arch, is_running, schedule_lock, moved, down>>
    BY <1>1, <1>10, PauseSleepFacts, AskedSleepFacts
  <2>2. TState' /\ runq' \in [Cpus -> SUBSET Vcpus]
    BY <1>1, <2>1, SleepFacts
  <2>3. TQueue'
    BY <1>1, <2>1, <2>2 DEF TQueue
  <2> QED
    BY <1>2, <1>3, <1>4, <1>7, <1>8, <2>1, <2>2, <2>3
<1>11. ASSUME NEW c \in Cpus, SchedPick(c) PROVE Goal
  <2>1. UNCHANGED <<ev, flags, state, cpu_affinity, arch, is_running, moved>>
    BY <1>1, <1>11, SchedPickFacts
  <2>2. CASE UNCHANGED <<queue, processor>>
    BY <1>2, <1>3, <1>4, <1>5, <1>6, <1>7, <1>8, <2>1, <2>2 DEF place
  <2>3. CASE \E v \in Vcpus \cup {Idle}, s \in Cpus : Chosen(c, v, s)
    <3>1. PICK v \in Vcpus \cup {Idle}, s \in Cpus : Chosen(c, v, s)
      BY <2>3
    <3>2. TQueue'
      <4>1. Requeued(c) \in [Cpus -> SUBSET Vcpus]
        BY <1>1, RequeuedFacts
      <4>2. runq' = [Requeued(c) EXCEPT ![s] = @ \ {v}] /\ curr' = [curr EXCEPT ![c] = v]
        BY <3>1 DEF Chosen
      <4> QED
        BY <1>1, <4>1, <4>2 DEF TQueue
    <3>3. \/ UNCHANGED processor
          \/ v \in Vcpus /\ c \in cpu_affinity[v] /\ processor' = [processor EXCEPT ![v] = c]
      BY <3>1 DEF Chosen
    <3>4. TPlace' /\ (AffinityKept => AffinityKept')
      BY <1>1, <2>1, <3>3 DEF TPlace, AffinityKept, flags
    <3> QED
      BY <1>2, <1>3, <1>6, <1>7, <2>1, <3>2, <3>4
  <2> QED
    BY <1>1, <1>11, <2>2, <2>3, SchedPickFacts
<1>12. ASSUME NEW c \in Cpus, SchedSwitch(c) PROVE Goal
  BY <1>1, <1>2, <1>3, <1>4, <1>5, <1>7, <1>8, <1>12, SchedSwitchFacts
<1>13. ASSUME NEW c \in Cpus, Enter(c) PROVE Goal
  BY <1>1, <1>2, <1>3, <1>4, <1>5, <1>6, <1>8, <1>13, EnterFacts
<1>14. ASSUME NEW c \in Cpus, Saved(c) PROVE Goal
  BY <1>1, <1>2, <1>3, <1>4, <1>5, <1>6, <1>7, <1>8, <1>14, SavedFacts
<1>15. ASSUME NEW t \in Threads, Wake(t) PROVE Goal
  BY <1>1, <1>2, <1>3, <1>4, <1>7, <1>8, <1>15, WakeFacts
<1>16. ASSUME NEW t \in Threads, Lock1(t) PROVE Goal
  BY <1>1, <1>2, <1>3, <1>4, <1>5, <1>6, <1>7, <1>8, <1>16, Lock1Facts
<1>17. ASSUME NEW t \in Threads, Locked(t) PROVE Goal
  <2> DEFINE v == loc[t].v
  <2>1. /\ v \in Vcpus
        /\ UNCHANGED <<ev, pause_count, queue, runstate, is_urgent, cpu_affinity, arch, is_running, down>>
        /\ \/ UNCHANGED <<pause_flags, processor, urgent_count, moved>>
           \/ \E new \in cpu_affinity[v] :
                /\ Clear(v, "migrating") /\ processor' = [processor EXCEPT ![v] = new]
                /\ moved' = (moved \/ (Queued(v) /\ new # processor[v]))
    BY <1>1, <1>17, LockedFacts
  <2> HIDE DEF v
  <2>2. CASE UNCHANGED <<pause_flags, processor, urgent_count, moved>>
    BY <1>2, <1>3, <1>4, <1>5, <1>6, <1>7, <1>8, <2>1, <2>2 DEF flags, place, state
  <2>3. CASE \E new \in cpu_affinity[v] :
                /\ Clear(v, "migrating") /\ processor' = [processor EXCEPT ![v] = new]
                /\ moved' = (moved \/ (Queued(v) /\ new # processor[v]))
    <3>1. PICK new \in cpu_affinity[v] :
                /\ Clear(v, "migrating") /\ processor' = [processor EXCEPT ![v] = new]
                /\ moved' = (moved \/ (Queued(v) /\ new # processor[v]))
      BY <2>3
    <3>2. TState'
      BY <1>1, <2>1, <3>1 DEF TState
    <3>3. TFlags' /\ \A x \in Vcpus \ {v} : pause_flags'[x] = pause_flags[x]
      BY <1>1, <3>1 DEF TFlags, Clear
    <3>4. cpu_affinity[v] \subseteq Cpus
      BY <1>1, <2>1 DEF TPlace
    <3>5. TPlace' /\ processor'[v] = new /\ \A x \in Vcpus \ {v} : processor'[x] = processor[x]
      BY <1>1, <2>1, <3>1, <3>4 DEF TPlace
    <3>6. moved => moved'
      BY <3>1
    <3>7. AffinityKept => AffinityKept'
      BY <2>1, <3>1, <3>3, <3>5, <3>6 DEF AffinityKept
    <3> QED
      BY <1>3, <1>5, <1>7, <2>1, <3>2, <3>3, <3>5, <3>7
  <2> QED
    BY <2>1, <2>2, <2>3
<1>18. ASSUME NEW t \in Threads, NEW c \in Cpus, FlushIpi(c, t) PROVE Goal
  BY <1>1, <1>2, <1>3, <1>4, <1>5, <1>6, <1>8, <1>18, FlushIpiFacts
<1> HIDE DEF Goal
<1>19. Goal
  BY <1>9, <1>10, <1>11, <1>12, <1>13, <1>14, <1>15, <1>16, <1>17, <1>18 DEF Heavy
<1> QED
  BY <1>19 DEF Goal

-----------------------------------------------------------------------------
\* Every step does what the core needs.

LEMMA GoodSane ==
  ASSUME Good
  PROVE  Sane /\ TLoc /\ TPlace /\ TFlags /\ TQueue /\ TState /\ TArch /\ TRest /\ Carries /\ Holds /\ Paused
              /\ softirq \subseteq Cpus
BY Groups DEF Good, Sane

LEMMA LightDoes ==
  ASSUME Good, Light
  PROVE  Does
<1>1. TLoc /\ TPlace /\ TQueue /\ TArch /\ Carries /\ softirq \subseteq Cpus
  BY GoodSane
<1>2. UNCHANGED <<processor, is_running, curr, arch, runq, runstate, vcpu_dirty_cpumask, curr_vcpu>>
  BY LightSched DEF sched, queue, state, place, arch
<1>3. SameRunning /\ \A c \in Cpus : runq'[c] \subseteq runq[c]
  BY <1>2 DEF SameRunning
<1>4. ASSUME NEW t \in Threads, PlainLight(t) PROVE PlainDoes(t)
  BY <1>2, <1>3, <1>4 DEF PlainLight, PlainDoes
<1>5. ASSUME NEW a \in Agents, Others(a), loc'[a].pc \notin Stopping PROVE AwayDoes(a)
  BY <1>2, <1>3, <1>5 DEF AwayDoes
<1>6. ASSUME NEW a \in Agents, NEW v \in Vcpus, Pause(a, v) PROVE AwayDoes(a)
  BY <1>1, <1>5, <1>6, PauseFacts DEF Stopping
<1>7. ASSUME NEW a \in Agents, Unpause(a) PROVE AwayDoes(a)
  BY <1>1, <1>5, <1>7, UnpauseFacts DEF Stopping, Marked, Pausing
<1>8. ASSUME NEW a \in Agents, PauseSync(a) PROVE PauseSyncDoes(a)
  BY <1>1, <1>2, <1>8, PauseSyncFacts DEF PauseSyncDoes
<1>9. ASSUME NEW c \in Cpus, Dirty(c) PROVE DirtyDoes(c)
  BY <1>1, <1>9, DirtyFacts DEF DirtyDoes
<1> QED
  BY <1>1, <1>4, <1>6, <1>7, <1>8, <1>9, LightCases DEF Does

LEMMA HeavyDoes ==
  ASSUME Good, Heavy
  PROVE  Does
<1>1. /\ TLoc /\ TPlace /\ TFlags /\ TQueue /\ TState /\ TArch /\ TRest /\ Carries /\ Holds
      /\ softirq \subseteq Cpus
  BY GoodSane
<1>2. Agents \subseteq Threads
  BY DEF Threads
<1>3. ASSUME NEW a \in Agents, NEW v \in Vcpus, SetAffinity(a, v) PROVE PlainDoes(a)
  <2>1. Plain(a) /\ UNCHANGED <<processor, is_running, curr, runq, arch, runstate>>
    BY <1>1, <1>3, SetAffinityFacts DEF queue, state
  <2> QED
    BY <2>1 DEF SameRunning, PlainDoes
<1>4. ASSUME NEW a \in Agents, AskedSleep(a) PROVE PlainDoes(a)
  <2>1. /\ loc[a].v \in Vcpus /\ Plain(a) /\ vcpu_sleep_nosync(loc[a].v)
        /\ UNCHANGED <<processor, is_running, curr, arch>>
    BY <1>1, <1>4, AskedSleepFacts DEF place
  <2>2. SameRunning /\ \A c \in Cpus : runq'[c] \subseteq runq[c]
    BY <1>1, <2>1, SleepFacts
  <2> QED
    BY <2>1, <2>2 DEF PlainDoes
<1>5. ASSUME NEW a \in Agents, PauseSleep(a) PROVE PauseSleepDoes(a)
  <2>1. /\ loc[a].v \in Vcpus /\ loc[a].pc = "pause" /\ loc'[a].pc = "spin" /\ loc'[a].v = loc[a].v
        /\ Others(a) /\ vcpu_sleep_nosync(loc[a].v) /\ UNCHANGED <<curr, processor, arch, is_running>>
    BY <1>1, <1>5, PauseSleepFacts DEF place
  <2> QED
    BY <1>1, <2>1, SleepFacts DEF PauseSleepDoes
<1>6. ASSUME NEW c \in Cpus, SchedPick(c) PROVE Requeues(c) /\ PickDoes(c)
  <2>1. Requeues(c)
    BY <1>1, RequeuedFacts DEF Requeues
  <2>2. PickDoes(c)
    BY <1>1, <1>6, SchedPickFacts DEF PickDoes, queue, state, arch
  <2> QED
    BY <2>1, <2>2
<1>7. ASSUME NEW c \in Cpus, SchedSwitch(c) PROVE SwitchDoes(c)
  BY <1>1, <1>7, SchedSwitchFacts DEF SwitchDoes, queue, place
<1>8. ASSUME NEW c \in Cpus, Enter(c) PROVE EnterDoes(c)
  <2>1. ASSUME curr[c] # Idle, SwapRegisters(c, curr[c]) PROVE Swaps(c, curr[c])
    BY <1>1, <2>1, SwapFacts DEF Swaps, TQueue
  <2> QED
    BY <1>1, <1>8, <2>1, EnterFacts DEF EnterDoes, queue, place, state
<1>9. ASSUME NEW c \in Cpus, Saved(c) PROVE SavedDoes(c)
  BY <1>1, <1>9, SavedFacts DEF SavedDoes, queue, state, place
<1>10. ASSUME NEW t \in Threads, Wake(t) PROVE WakeDoes(t)
  BY <1>1, <1>10, WakeFacts DEF WakeDoes, PlainLight, place
<1>11. ASSUME NEW t \in Threads, Lock1(t) PROVE Lock1Does(t)
  BY <1>1, <1>11, Lock1Facts DEF Lock1Does, queue, state, place
<1>12. ASSUME NEW t \in Threads, Locked(t) PROVE LockedDoes(t)
  BY <1>1, <1>12, LockedFacts DEF LockedDoes, queue
<1>13. ASSUME NEW t \in Threads, NEW c \in Cpus, FlushIpi(c, t) PROVE FlushIpiDoes(c, t)
  <2>1. ASSUME SwapRegisters(c, current[c]) PROVE Swaps(c, current[c])
    BY <1>1, <2>1, SwapFacts DEF Swaps, TArch
  <2> QED
    BY <1>1, <1>13, <2>1, FlushIpiFacts DEF FlushIpiDoes, queue, place, state
<1> QED
  BY <1>2, <1>3, <1>4, <1>5, <1>6, <1>7, <1>8, <1>9, <1>10, <1>11, <1>12, <1>13 DEF Heavy, Does

-----------------------------------------------------------------------------
\* What light steps do to flags, events and softirqs

LEMMA SetFacts ==
  ASSUME TFlags, NEW v \in Vcpus, NEW f, Set(v, f)
  PROVE  Gains(v, f)
BY DEF TFlags, Set, Gains

LEMMA ClearFacts ==
  ASSUME TFlags, NEW v \in Vcpus, NEW f, Clear(v, f)
  PROVE  Loses(v, f)
BY DEF TFlags, Clear, Loses

LEMMA DoneTold ==
  ASSUME TLoc, NEW t \in Threads, NEW pending \in SUBSET Cpus, Done(t, pending)
  PROVE  \A d \in pending : Told(d)'
<1>1. ASSUME t \in Cpus, t \in pending PROVE loc'[t].pc = "lock" /\ softirq' = pending \ {t}
  BY <1>1, Label, ToFacts DEF Done
<1>2. (t \in Cpus /\ t \in pending) \/ softirq' = pending
  BY DEF Done
<1> QED
  BY <1>1, <1>2 DEF Told

LEMMA TellsMore ==
  ASSUME TLoc, NEW t \in Threads, NEW pending \in SUBSET Cpus, softirq \subseteq pending, Done(t, pending),
         loc[t].pc # "lock"
  PROVE  StaysTold
<1>1. (\A d \in pending : Told(d)') /\ Others(t)
  BY DoneTold, DoneFacts
<1>2. ASSUME NEW c \in Cpus, loc[c].pc = "lock" PROVE loc'[c].pc = "lock"
  BY <1>1, <1>2 DEF Others, Threads
<1> QED
  BY <1>1, <1>2 DEF StaysTold, Told

LEMMA TellsItself ==
  ASSUME TLoc, softirq \subseteq Cpus, NEW c \in Cpus, Done(c, softirq \cup {c})
  PROVE  StaysTold
<1>1. c \in Threads /\ softirq \cup {c} \in SUBSET Cpus
  BY DEF Threads
<1>2. (\A d \in softirq \cup {c} : Told(d)') /\ Others(c)
  BY <1>1, DoneTold, DoneFacts
<1>3. ASSUME NEW d \in Cpus, d # c, loc[d].pc = "lock" PROVE loc'[d].pc = "lock"
  BY <1>2, <1>3 DEF Others, Threads
<1> QED
  BY <1>2, <1>3 DEF StaysTold, Told

LEMMA TellsNobody ==
  ASSUME NEW t \in Threads, Others(t), UNCHANGED softirq, loc[t].pc # "lock"
  PROVE  StaysTold
<1>1. ASSUME NEW c \in Cpus, loc[c].pc = "lock" PROVE loc'[c].pc = "lock"
  BY <1>1 DEF Others, Threads
<1> QED
  BY <1>1 DEF StaysTold, Told

LEMMA ToGoes ==
  ASSUME TLoc, NEW t \in Threads, NEW from, loc[t].pc = from, NEW pc \in Labels, NEW v \in Vcpus \cup {Idle},
         To(t, pc, v)
  PROVE  Goes(t, from, pc, v)
BY ToFacts DEF Goes

LEMMA ToTold ==
  ASSUME TLoc, NEW t \in Threads, loc[t].pc # "lock", NEW pc \in Labels, NEW v \in Vcpus \cup {Idle},
         To(t, pc, v), UNCHANGED softirq
  PROVE  StaysTold
BY ToFacts, TellsNobody

LEMMA ToEnds ==
  ASSUME TLoc, NEW t \in Threads, NEW from, loc[t].pc = from, To(t, "run", Idle)
  PROVE  Ends(t, from)
BY ToFacts, Label DEF Ends

LEMMA DoneEnds ==
  ASSUME TLoc, NEW t \in Threads, NEW from, loc[t].pc = from, NEW pending \in SUBSET Cpus, Done(t, pending)
  PROVE  Ends(t, from)
BY DoneFacts DEF Ends

LEMMA BeginsStirs ==
  ASSUME TLoc, TFlags, TCount, NEW a \in Agents, NEW v \in Vcpus,
         SendUpcall(a, v) \/ SendPort(a, v) \/ PollTimer(a, v) \/ Pause(a, v) \/ ForceReschedule(a, v)
  PROVE  BeginsDoes(a, v) /\ StaysTold
<1>1. a \in Threads /\ v \in Vcpus \cup {Idle}
  BY DEF Threads
<1>2. loc[a].pc = "run" /\ loc[a].pc # "lock" /\ UNCHANGED softirq
  BY DEF SendUpcall, SendPort, PollTimer, Pause, ForceReschedule, Is
<1>3. {"unblock", "pollers", "pause", "asked"} \subseteq Labels
  BY Label
<1>4. CASE SendUpcall(a, v)
  BY <1>1, <1>2, <1>3, <1>4, ToGoes, ToTold DEF SendUpcall, BeginsDoes, flags
<1>5. CASE SendPort(a, v)
  BY <1>1, <1>2, <1>3, <1>5, ToGoes, ToTold DEF SendPort, BeginsDoes, flags
<1>6. CASE PollTimer(a, v)
  BY <1>1, <1>2, <1>3, <1>6, ToGoes, ToTold DEF PollTimer, BeginsDoes, flags
<1>7. CASE Pause(a, v)
  <2>1. \A x \in Vcpus : pause_count'[x] = 0 => pause_count[x] = 0
    BY <1>7, SMT DEF Pause, TCount
  <2> QED
    BY <1>1, <1>2, <1>3, <1>7, <2>1, ToGoes, ToTold DEF Pause, BeginsDoes, ev
<1>8. CASE ForceReschedule(a, v)
  BY <1>1, <1>2, <1>3, <1>8, ToGoes, ToTold, SetFacts DEF ForceReschedule, BeginsDoes, ev
<1> QED
  BY <1>4, <1>5, <1>6, <1>7, <1>8

LEMMA AgentStirs ==
  ASSUME TLoc, TArch, TCount, Carries, softirq \subseteq Cpus, NEW a \in Agents,
         Pollers(a) \/ Polled(a) \/ PauseSync(a) \/ Unpause(a) \/ Asked(a)
  PROVE  loc[a].v \in Vcpus /\ AgentDoes(a, loc[a].v) /\ StaysTold
<1>1. loc[a].pc \in {"pollers", "polled", "spin", "held", "asked"} /\ UNCHANGED softirq
  BY DEF Pollers, Polled, PauseSync, Unpause, Asked, Is
<1>2. loc[a].pc # "lock" /\ a \in Threads /\ {"polled", "unblock", "wake", "sleep", "run"} \subseteq Labels
  BY <1>1, Label DEF Threads
<1>3. loc[a].v \in Vcpus /\ loc[a].v \in Vcpus \cup {Idle} /\ Idle \in Vcpus \cup {Idle}
  BY <1>1, <1>2, WorksOn DEF WithVcpu
<1>4. CASE Pollers(a)
  BY <1>2, <1>3, <1>4, ToGoes, ToEnds, ToTold DEF Pollers, Is, AgentDoes, flags
<1>5. CASE Polled(a)
  BY <1>2, <1>3, <1>5, ToGoes, ToTold DEF Polled, Is, AgentDoes, Calm, flags
<1>6. CASE PauseSync(a)
  BY <1>1, <1>2, <1>3, <1>6, PauseSyncFacts, TellsNobody DEF Goes, AgentDoes, Calm, flags, ev
<1>7. CASE Unpause(a)
  <2>1. \A x \in Vcpus : pause_count'[x] = IF x = loc[a].v THEN pause_count[x] - 1 ELSE pause_count[x]
    BY <1>3, <1>7 DEF Unpause, TCount
  <2> QED
    BY <1>2, <1>3, <1>7, <2>1, ToGoes, ToEnds, ToTold DEF Unpause, Is, AgentDoes, ev
<1>8. CASE Asked(a)
  BY <1>2, <1>3, <1>8, ToGoes, ToEnds, ToTold DEF Asked, Is, AgentDoes, Calm, flags, ev
<1> QED
  BY <1>3, <1>4, <1>5, <1>6, <1>7, <1>8

LEMMA BlocksStirs ==
  ASSUME TLoc, TFlags, NEW c \in Cpus, NEW v \in Vcpus, Blocks(c, v)
  PROVE  v = current[c] /\ loc[c].pc = "run" /\ StaysTold /\ BlocksDoes(c, v)
<1>1. v = current[c] /\ loc[c].pc = "run" /\ loc[c].pc # "lock"
  BY DEF Blocks, Guest, Is
<1>2. c \in Threads /\ {"block", "poll"} \subseteq Labels /\ v \in Vcpus \cup {Idle}
  BY Label DEF Threads
<1> QED
  BY <1>1, <1>2, SetFacts, ToGoes, ToTold DEF Blocks, BlocksDoes, ev

LEMMA GuestStirs ==
  ASSUME TLoc, TFlags, softirq \subseteq Cpus, NEW c \in Cpus, NEW v \in Vcpus,
         Tick(c, v) \/ Consume(c, v) \/ Yield(c, v) \/ Blocks(c, v)
  PROVE  /\ v = current[c] /\ loc[c].pc \in {"run", "lock"} /\ StaysTold
         /\ GuestDoes(c, v) \/ CpuDoes(c, loc[c].v) \/ BlocksDoes(c, v)
<1>1. v = current[c] /\ loc[c].pc \in {"run", "lock"}
  BY DEF Tick, Consume, Yield, Blocks, Guest, Is
<1>2. c \in Threads /\ softirq \cup {c} \in SUBSET Cpus
  BY DEF Threads
<1>3. CASE Tick(c, v)
  <2>1. Done(c, softirq \cup {c}) /\ Set(v, "migrating") /\ UNCHANGED <<upcall, port, poll_mask, pause_count>>
    BY <1>3 DEF Tick, ev
  <2>2. StaysTold /\ Gains(v, "migrating")
    BY <2>1, SetFacts, TellsItself
  <2>3. Ends(c, "run") \/ Ends(c, "lock")
    BY <1>1, <1>2, <2>1, DoneEnds
  <2> QED
    BY <1>1, <2>1, <2>2, <2>3 DEF GuestDoes
<1>4. CASE Consume(c, v)
  BY <1>1, <1>4 DEF Consume, GuestDoes, flags, StaysTold, Told
<1>5. CASE Yield(c, v)
  <2>1. Done(c, softirq \cup {c}) /\ loc[c].pc = "run" /\ Calm
    BY <1>5 DEF Yield, Guest, Is, Calm, flags, ev
  <2> QED
    BY <1>1, <1>2, <2>1, DoneEnds, TellsItself DEF CpuDoes
<1>6. CASE Blocks(c, v)
  BY <1>1, <1>6, BlocksStirs
<1> QED
  BY <1>3, <1>4, <1>5, <1>6

LEMMA BlockStirs ==
  ASSUME TLoc, TFlags, Carries, softirq \subseteq Cpus, NEW c \in Cpus,
         \/ Block(c) \/ PollAny(c) \/ PollMask(c) \/ PollEvents(c) \/ PollPort(c) \/ PollSleep(c)
         \/ PollOut(c)
  PROVE  loc[c].v \in Vcpus /\ BlockDoes(c, loc[c].v) /\ StaysTold
<1>1. loc[c].pc \in {"block", "poll", "poll_mask", "poll_events", "poll_port", "poll_sleep", "poll_out", "poll_out2",
                     "poll_out3"}
  BY DEF Block, PollAny, PollMask, PollEvents, PollPort, PollSleep, PollOut, Is
<1>2. /\ loc[c].pc # "lock" /\ c \in Threads /\ softirq \cup {c} \in SUBSET Cpus /\ softirq \in SUBSET Cpus
      /\ softirq \subseteq softirq \cup {c} /\ softirq \subseteq softirq
      /\ {"poll_mask", "poll_events", "poll_port", "poll_sleep", "poll_out", "poll_out2", "poll_out3"} \subseteq Labels
  BY <1>1, Label DEF Threads
<1>3. loc[c].v \in Vcpus /\ loc[c].v \in Vcpus \cup {Idle}
  BY <1>1, <1>2, WorksOn DEF WithVcpu
<1>4. CASE Block(c)
  BY <1>2, <1>3, <1>4, ClearFacts, DoneEnds, TellsMore DEF Block, Is, BlockDoes, ev
<1>5. CASE PollAny(c)
  BY <1>2, <1>3, <1>5, ToGoes, ToTold DEF PollAny, Is, BlockDoes, Calm, flags
<1>6. CASE PollMask(c)
  BY <1>2, <1>3, <1>6, ToGoes, ToTold DEF PollMask, Is, BlockDoes, flags
<1>7. CASE PollEvents(c)
  BY <1>2, <1>3, <1>7, ToGoes, ToTold DEF PollEvents, Is, BlockDoes, Calm, flags, ev
<1>8. CASE PollPort(c)
  BY <1>2, <1>3, <1>8, ToGoes, ToTold DEF PollPort, Is, BlockDoes, Calm, flags, ev
<1>9. CASE PollSleep(c)
  BY <1>2, <1>3, <1>9, DoneEnds, TellsMore DEF PollSleep, Is, BlockDoes, Calm, flags
<1>10. CASE PollOut(c)
  <2>1. CASE Is(c, "poll_out") /\ To(c, "poll_out2", loc[c].v) /\ UNCHANGED <<softirq, poll_mask, pause_flags>>
    BY <1>2, <1>3, <1>10, <2>1, ToGoes, ToTold DEF PollOut, Is, BlockDoes, Calm
  <2>2. CASE /\ Is(c, "poll_out2") /\ To(c, "poll_out3", loc[c].v) /\ poll_mask' = poll_mask \ {loc[c].v}
             /\ UNCHANGED <<softirq, pause_flags>>
    BY <1>2, <1>3, <1>10, <2>2, ToGoes, ToTold DEF PollOut, Is, BlockDoes
  <2>3. CASE Is(c, "poll_out3") /\ Done(c, softirq) /\ Clear(loc[c].v, "blocked") /\ UNCHANGED poll_mask
    BY <1>2, <1>3, <1>10, <2>3, ClearFacts, DoneEnds, TellsMore DEF PollOut, Is, BlockDoes
  <2> QED
    BY <1>10, <2>1, <2>2, <2>3 DEF PollOut
<1> QED
  BY <1>3, <1>4, <1>5, <1>6, <1>7, <1>8, <1>9, <1>10

LEMMA UnblockStirs ==
  ASSUME TLoc, TFlags, Carries, softirq \subseteq Cpus, NEW t \in Threads,
         Unblock(t) \/ Unpoll(t) \/ Unmask(t) \/ Reclear(t)
  PROVE  loc[t].v \in Vcpus /\ UnblockDoes(t, loc[t].v) /\ StaysTold
<1>1. loc[t].pc \in {"unblock", "unpoll", "unmask", "reclear"}
  BY DEF Unblock, Unpoll, Unmask, Reclear, Is
<1>2. /\ loc[t].pc # "lock" /\ softirq \in SUBSET Cpus /\ softirq \subseteq softirq
      /\ {"unpoll", "unmask", "reclear", "wake"} \subseteq Labels
  BY <1>1, Label
<1>3. loc[t].v \in Vcpus /\ loc[t].v \in Vcpus \cup {Idle}
  BY <1>1, WorksOn DEF WithVcpu
<1>4. CASE Unblock(t)
  BY <1>2, <1>3, <1>4, ClearFacts, ToGoes, ToTold, DoneEnds, TellsMore DEF Unblock, Is, UnblockDoes, ev
<1>5. CASE Unpoll(t)
  BY <1>2, <1>3, <1>5, ToGoes, ToTold DEF Unpoll, Is, UnblockDoes, Calm, flags
<1>6. CASE Unmask(t)
  BY <1>2, <1>3, <1>6, ToGoes, ToTold DEF Unmask, Is, UnblockDoes, flags
<1>7. CASE Reclear(t)
  BY <1>2, <1>3, <1>7, ClearFacts, ToGoes, ToTold DEF Reclear, Is, UnblockDoes, ev
<1> QED
  BY <1>3, <1>4, <1>5, <1>6, <1>7

LEMMA CpuStirs ==
  ASSUME TLoc, TPlace, TQueue, TArch, Carries, softirq \subseteq Cpus, NEW c \in Cpus,
         Softirq(c) \/ Dirty(c) \/ Tail(c)
  PROVE  loc[c].v \in Vcpus \cup {Idle} /\ CpuDoes(c, loc[c].v) /\ StaysTold
<1>1. loc[c].pc \in {"run", "dirty", "tail"}
  BY DEF Softirq, Dirty, Tail, Is
<1>2. /\ loc[c].pc # "lock" /\ c \in Threads /\ softirq \in SUBSET Cpus /\ softirq \subseteq softirq
  BY <1>1 DEF Threads
<1>3. loc[c].v \in Vcpus \cup {Idle}
  BY <1>2 DEF TLoc, Locals
<1>4. CASE Softirq(c)
  <2>1. loc[c].pc = "run" /\ Done(c, softirq) /\ Calm
    BY <1>4 DEF Softirq, Is, Calm, flags, ev
  <2> QED
    BY <1>2, <1>3, <2>1, DoneEnds, TellsMore DEF CpuDoes
<1>5. CASE Dirty(c)
  <2>1. loc'[c].v = loc[c].v /\ UNCHANGED <<softirq, flags, ev>>
    <3> DEFINE mask == IF curr[c] = Idle THEN {} ELSE vcpu_dirty_cpumask[curr[c]]
    <3>1. Flush(c, IF c \in mask THEN {} ELSE mask) /\ UNCHANGED <<ev, flags, softirq>>
      BY <1>5 DEF Dirty
    <3>2. (IF c \in mask THEN {} ELSE mask) \in SUBSET Cpus
      BY DEF TQueue, TArch
    <3> QED
      BY <1>2, <3>1, <3>2, FlushFacts
  <2>2. loc[c].pc = "dirty" /\ Others(c) /\ loc'[c].pc \in {"enter", "flush"}
    BY <1>5, DirtyFacts
  <2> QED
    BY <1>2, <1>3, <2>1, <2>2, TellsNobody DEF CpuDoes, Goes, Calm, flags, ev
<1>6. CASE Tail(c)
  <2>1. CASE /\ loc[c].v # Idle /\ "migrating" \in pause_flags[loc[c].v] /\ Migrate(c, loc[c].v)
             /\ UNCHANGED softirq
    BY <1>2, <1>3, <1>6, <2>1, MigrateFacts, TellsNobody DEF Tail, Is, CpuDoes, Goes, Calm, flags, ev
  <2>2. CASE (loc[c].v = Idle \/ "migrating" \notin pause_flags[loc[c].v]) /\ Done(c, softirq)
    <3>1. loc[c].pc = "tail" /\ Calm
      BY <1>6 DEF Tail, Is, Calm, flags, ev
    <3> QED
      BY <1>2, <1>3, <2>2, <3>1, DoneEnds, TellsMore DEF CpuDoes
  <2> QED
    BY <1>6, <2>1, <2>2 DEF Tail
<1> QED
  BY <1>3, <1>4, <1>5, <1>6

LEMMA LightStirs ==
  ASSUME Good, Light
  PROVE  Stirs
<1>1. /\ TLoc /\ TPlace /\ TFlags /\ TCount /\ TQueue /\ TArch /\ Carries /\ softirq \subseteq Cpus
  BY Groups DEF Good
<1>2. ASSUME NEW c \in Cpus PROVE loc[c].v \in Vcpus \cup {Idle}
  BY <1>1 DEF TLoc, Locals, Threads
<1> QED
  BY <1>1, <1>2, BeginsStirs, AgentStirs, GuestStirs, BlockStirs, UnblockStirs, CpuStirs DEF Light, Stirs

-----------------------------------------------------------------------------
\* What heavy steps do to queues, flags and softirqs

LEMMA HeavyEvents ==
  ASSUME Heavy
  PROVE  UNCHANGED ev
BY DEF Heavy, SetAffinity, PauseSleep, AskedSleep, SchedPick, SchedSwitch, Enter, Saved, Wake, Lock1, Locked, FlushIpi

LEMMA AsksToil ==
  ASSUME TLoc, TFlags, NEW a \in Agents, NEW v \in Vcpus, SetAffinity(a, v)
  PROVE  AsksDoes(a, v) /\ StaysTold
<1>1. a \in Threads /\ v \in Vcpus \cup {Idle} /\ "asked" \in Labels
  BY Label DEF Threads
<1>2. /\ loc[a].pc = "run" /\ To(a, "asked", v) /\ (Set(v, "migrating") \/ UNCHANGED pause_flags)
      /\ UNCHANGED <<pause_count, queue, is_running, softirq>>
  BY DEF SetAffinity, Is
<1>3. loc[a].pc # "lock"
  BY <1>2
<1> QED
  BY <1>1, <1>2, <1>3, ToGoes, ToTold, SetFacts DEF AsksDoes, SamePlaces, queue

LEMMA SleepToil ==
  ASSUME TPlace, TQueue, NEW v \in Vcpus, vcpu_sleep_nosync(v), SameFlags, UNCHANGED <<curr, is_running>>
  PROVE  SleepDoes(v) /\ softirq \subseteq softirq'
<1>1. CASE vcpu_runnable(v)
  BY <1>1 DEF vcpu_sleep_nosync, SleepDoes
<1>2. CASE ~vcpu_runnable(v) /\ curr[processor[v]] = v
  BY <1>2 DEF vcpu_sleep_nosync, SleepDoes
<1>3. CASE ~vcpu_runnable(v) /\ curr[processor[v]] # v
  <2>1. runq' = Unqueue(v) /\ UNCHANGED softirq
    BY <1>3 DEF vcpu_sleep_nosync
  <2>2. \A c \in Cpus : runq'[c] = runq[c] \ {v}
    BY <2>1 DEF Unqueue
  <2> QED
    BY <1>3, <2>1, <2>2 DEF SleepDoes
<1> QED
  BY <1>1, <1>2, <1>3

LEMMA TellsAll ==
  ASSUME NEW t \in Threads, Others(t), softirq \subseteq softirq', loc[t].pc # "lock"
  PROVE  StaysTold
<1>1. ASSUME NEW c \in Cpus, loc[c].pc = "lock" PROVE loc'[c].pc = "lock"
  BY <1>1 DEF Others, Threads
<1> QED
  BY <1>1 DEF StaysTold, Told

LEMMA SleepsToil ==
  ASSUME TLoc, TPlace, TQueue, TState, Carries, softirq \subseteq Cpus, NEW a \in Agents,
         PauseSleep(a) \/ AskedSleep(a)
  PROVE  loc[a].v \in Vcpus /\ SleepsDoes(a, loc[a].v) /\ StaysTold
<1>0. a \in Threads
  BY DEF Threads
<1>1. /\ loc[a].v \in Vcpus /\ vcpu_sleep_nosync(loc[a].v) /\ SameFlags /\ UNCHANGED <<curr, is_running>>
      /\ loc[a].pc # "lock" /\ Others(a)
      /\ Goes(a, "pause", "spin", loc[a].v) \/ Goes(a, "sleep", "lock1", loc[a].v)
  <2>1. CASE PauseSleep(a)
    BY <2>1, PauseSleepFacts DEF SameFlags, Goes, flags
  <2>2. CASE AskedSleep(a)
    <3>1. loc[a].v \in Vcpus /\ vcpu_sleep_nosync(loc[a].v) /\ SameFlags /\ UNCHANGED <<curr, is_running>>
      BY <2>2, AskedSleepFacts DEF SameFlags, flags
    <3>2. loc[a].pc = "sleep" /\ Migrate(a, loc[a].v)
      BY <2>2 DEF AskedSleep, Is
    <3> QED
      BY <1>0, <3>1, <3>2, MigrateFacts DEF Goes
  <2> QED
    BY <2>1, <2>2
<1>2. SleepDoes(loc[a].v) /\ softirq \subseteq softirq'
  BY <1>1, SleepToil
<1> QED
  BY <1>0, <1>1, <1>2, TellsAll DEF SleepsDoes

LEMMA WakesToil ==
  ASSUME TLoc, TPlace, TQueue, TState, Carries, softirq \subseteq Cpus, NEW t \in Threads, Wake(t)
  PROVE  loc[t].v \in Vcpus /\ WakesDoes(t, loc[t].v) /\ StaysTold
<1>0. PICK v : v = loc[t].v
  OBVIOUS
<1> DEFINE c == processor[v]
<1>1. v \in Vcpus /\ SameFlags /\ UNCHANGED <<curr, is_running>>
  BY <1>0, WakeFacts DEF SameFlags, flags
<1>2. c \in Cpus /\ runq \in [Cpus -> SUBSET Vcpus]
  BY <1>1 DEF TPlace, TQueue
<1>3. loc[t].pc = "wake" /\ loc[t].pc # "lock"
  BY DEF Wake, Is
<1>4. \/ Done(t, softirq) /\ UNCHANGED runq /\ (vcpu_runnable(v) => curr[c] = v \/ Queued(v))
      \/ /\ runq' = [runq EXCEPT ![c] = @ \cup {v}]
         /\ \E s \in Tickled(c, v) : Done(t, softirq \cup s)
  BY <1>0 DEF Wake
<1> HIDE DEF c
<1>5. CASE Done(t, softirq) /\ UNCHANGED runq /\ (vcpu_runnable(v) => curr[c] = v \/ Queued(v))
  <2>1. Ends(t, "wake") /\ StaysTold
    BY <1>3, <1>5, DoneEnds, TellsMore
  <2>2. vcpu_runnable(v) => Queued(v)' \/ \E d \in Cpus : curr[d] = v
    BY <1>2, <1>5 DEF Queued
  <2>3. \A d \in Cpus : runq[d] \subseteq runq'[d] /\ runq'[d] = runq[d]
    BY <1>5
  <2>4. WakesDoes(t, v)
    BY <1>1, <2>1, <2>2, <2>3 DEF WakesDoes
  <2> QED
    BY <1>0, <1>1, <2>1, <2>4
<1>6. ASSUME runq' = [runq EXCEPT ![c] = @ \cup {v}], NEW s \in Tickled(c, v), Done(t, softirq \cup s)
      PROVE  WakesDoes(t, v) /\ StaysTold
  <2>1. s \subseteq Cpus
    BY <1>1, <1>2, TickledType
  <2>2. softirq \cup s \in SUBSET Cpus /\ softirq \subseteq softirq \cup s
    BY <2>1
  <2>3. Ends(t, "wake") /\ StaysTold /\ \A d \in softirq \cup s : Told(d)'
    BY <1>3, <1>6, <2>2, DoneEnds, DoneTold, TellsMore
  <2>4. curr[c] = Idle => c \in s
    BY <1>6, SMT DEF Tickled
  <2>5. v \in runq'[c] /\ \A d \in Cpus : runq[d] \subseteq runq'[d] /\ (d # c => runq'[d] = runq[d])
    BY <1>2, <1>6
  <2>6. \A d \in Cpus : runq[d] \subseteq runq'[d] /\ (runq'[d] = runq[d] \/ curr[d] # Idle \/ Told(d)')
    BY <2>3, <2>4, <2>5
  <2>7. Queued(v)'
    BY <1>2, <2>5 DEF Queued
  <2> QED
    BY <1>1, <2>3, <2>6, <2>7 DEF WakesDoes
<1> QED
  BY <1>0, <1>1, <1>4, <1>5, <1>6

LEMMA MigratesToil ==
  ASSUME TLoc, TPlace, TFlags, TState, TRest, Carries, Holds, softirq \subseteq Cpus, NEW t \in Threads,
         Lock1(t) \/ Locked(t)
  PROVE  loc[t].v \in Vcpus /\ MigratesDoes(t, loc[t].v) /\ StaysTold
<1>0. PICK v : v = loc[t].v
  OBVIOUS
<1>1. loc[t].pc \in {"lock1", "lock2"} /\ UNCHANGED <<pause_count, queue, is_running>>
  BY DEF Lock1, Locked, Is, flags
<1>2. /\ v \in Vcpus /\ v \in Vcpus \cup {Idle} /\ SamePlaces /\ UNCHANGED pause_count /\ loc[t].pc # "lock"
      /\ softirq \in SUBSET Cpus /\ softirq \subseteq softirq /\ {"wake", "lock1", "lock2"} \subseteq Labels
  BY <1>0, <1>1, WorksOn, Label DEF WithVcpu, SamePlaces, queue
<1>3. CASE Lock1(t)
  <2>1. loc[t].pc = "lock1" /\ UNCHANGED <<softirq, flags>>
    BY <1>3 DEF Lock1, Is
  <2>2. Others(t) /\ loc'[t].pc = "lock2"
    BY <1>3, Lock1Facts
  <2>3. loc'[t].v = v
    <3> DEFINE m == Local("lock2", v, loc[t].old, loc[t].new, loc[t].picked, {})
    <3>1. loc' = [loc EXCEPT ![t] = m]
      BY <1>0, <1>3 DEF Lock1, TLoc
    <3>2. m.v = v
      BY DEF Local
    <3> QED
      BY <3>1, <3>2 DEF TLoc
  <2> QED
    BY <1>0, <1>2, <2>1, <2>2, <2>3, TellsNobody DEF MigratesDoes, Goes, flags
<1>4. ASSUME NEW n, NEW p, Retry(t, n, p)
      PROVE  Goes(t, loc[t].pc, "lock1", v) /\ UNCHANGED pause_flags /\ StaysTold
  <2> DEFINE m == Local("lock1", v, processor[v], n, p, {})
  <2>1. loc' = [loc EXCEPT ![t] = m] /\ UNCHANGED <<pause_flags, softirq>>
    BY <1>0, <1>4 DEF Retry, TLoc
  <2>2. m.v = v /\ m.pc = "lock1"
    BY DEF Local
  <2> HIDE DEF m
  <2>3. Others(t) /\ loc'[t] = m
    BY <2>1 DEF TLoc, Others
  <2> QED
    BY <1>2, <2>1, <2>2, <2>3, TellsNobody DEF Goes
<1>5. ASSUME NEW n, Move(t, n)
      PROVE  /\ StaysTold
             /\ \/ Goes(t, loc[t].pc, "wake", v) /\ Loses(v, "migrating")
                \/ /\ Ends(t, loc[t].pc) /\ (v \in is_running \/ "migrating" \notin pause_flags[v])
                   /\ UNCHANGED pause_flags
  <2>1. CASE v \in is_running \/ "migrating" \notin pause_flags[v]
    <3>1. Done(t, softirq) /\ UNCHANGED pause_flags
      BY <1>0, <1>5, <2>1 DEF Move
    <3> QED
      BY <1>2, <2>1, <3>1, DoneEnds, TellsMore
  <2>2. CASE ~(v \in is_running \/ "migrating" \notin pause_flags[v])
    <3>1. Clear(v, "migrating") /\ To(t, "wake", v) /\ UNCHANGED softirq
      BY <1>0, <1>5, <2>2 DEF Move
    <3> QED
      BY <1>2, <3>1, ToGoes, ToTold, ClearFacts
  <2> QED
    BY <2>1, <2>2
<1>6. CASE Locked(t)
  <2>1. (\E n, p : Retry(t, n, p)) \/ \E n : Move(t, n)
    BY <1>6 DEF Locked
  <2> QED
    BY <1>0, <1>1, <1>2, <1>4, <1>5, <2>1 DEF MigratesDoes
<1> QED
  BY <1>3, <1>6

LEMMA SwitchesToil ==
  ASSUME TLoc, TQueue, TArch, TState, NEW c \in Cpus, SchedSwitch(c) \/ Enter(c)
  PROVE  SwitchesDoes(c) /\ StaysTold
<1>0. c \in Threads
  BY DEF Threads
<1>1. CASE SchedSwitch(c)
  <2>1. /\ Others(c) /\ loc[c].pc = "switch" /\ loc'[c].pc = "dirty" /\ is_running \subseteq is_running'
        /\ UNCHANGED <<flags, queue, softirq>>
    BY <1>1, SchedSwitchFacts
  <2> QED
    BY <1>0, <2>1, TellsNobody DEF SwitchesDoes, SameFlags, flags, queue
<1>2. CASE Enter(c)
  <2>1. /\ Others(c) /\ loc[c].pc = "enter" /\ loc'[c].pc = "saved"
        /\ UNCHANGED <<flags, queue, softirq, is_running>>
    BY <1>2, EnterFacts
  <2> QED
    BY <1>0, <2>1, TellsNobody DEF SwitchesDoes, SameFlags, flags, queue
<1> QED
  BY <1>1, <1>2

LEMMA FlushToil ==
  ASSUME TLoc, TArch, Carries, NEW t \in Threads, NEW c \in Cpus, FlushIpi(c, t)
  PROVE  SwitchesDoes(t) /\ StaysTold
<1>1. /\ Others(t) /\ loc[t].pc = "flush" /\ loc'[t].pc \in {"flush", "enter", "held"}
      /\ UNCHANGED <<flags, queue, softirq, is_running>>
  BY FlushIpiFacts DEF Flushed
<1> QED
  BY <1>1, TellsNobody DEF SwitchesDoes, SameFlags, flags, queue

LEMMA SavesToil ==
  ASSUME TLoc, NEW c \in Cpus, Saved(c)
  PROVE  loc[c].v \in Vcpus \cup {Idle} /\ SavesDoes(c, loc[c].v) /\ StaysTold
<1>0. c \in Threads /\ loc[c].v \in Vcpus \cup {Idle} /\ "tail" \in Labels
  BY Label DEF Threads, TLoc, Locals
<1>1. /\ loc[c].pc = "saved" /\ To(c, "tail", loc[c].v) /\ is_running' = is_running \ {loc[c].v}
      /\ UNCHANGED <<flags, queue, softirq>>
  BY DEF Saved, Is
<1>2. loc[c].pc # "lock"
  BY <1>1
<1> QED
  BY <1>0, <1>1, <1>2, ToGoes, ToTold DEF SavesDoes, SameFlags, flags, queue

LEMMA PickPicks ==
  ASSUME TLoc, TQueue, TArch, softirq \subseteq Cpus, NEW c \in Cpus, SchedPick(c)
  PROVE  Picks(c)
<1>1. Requeues(c)
  BY RequeuedFacts DEF Requeues
<1>2. PickDoes(c) /\ SameFlags
  BY SchedPickFacts DEF PickDoes, SameFlags, queue, state, arch, flags
<1> QED
  BY <1>1, <1>2 DEF Picks

LEMMA HeavyToils ==
  ASSUME Good, Heavy
  PROVE  Toils \/ \E c \in Cpus : Picks(c)
<1>1. /\ TLoc /\ TPlace /\ TFlags /\ TQueue /\ TState /\ TArch /\ TRest /\ Carries /\ Holds
      /\ softirq \subseteq Cpus /\ Cpus \subseteq Threads
  BY GoodSane DEF Threads
<1> QED
  BY <1>1, AsksToil, SleepsToil, WakesToil, MigratesToil, SwitchesToil, FlushToil, SavesToil, PickPicks
     DEF Heavy, Toils

-----------------------------------------------------------------------------
\* What steps do to run states and urgency

LEMMA SleepsCharge ==
  ASSUME TLoc, TPlace, TQueue, TState, Carries, softirq \subseteq Cpus, NEW a \in Agents,
         PauseSleep(a) \/ AskedSleep(a)
  PROVE  loc[a].v \in Vcpus /\ SleepCharges(loc[a].v)
<1>0. PICK v : v = loc[a].v
  OBVIOUS
<1>1. v \in Vcpus /\ SleepsDoes(a, v) /\ StaysTold
  BY <1>0, SleepsToil
<1>2. Toils /\ SleepDoes(v)
  BY <1>0, <1>1 DEF Toils, SleepsDoes
<1>3. vcpu_sleep_nosync(v)
  BY <1>0 DEF PauseSleep, AskedSleep
<1>4. SameCharge \/ (Becomes(v, "offline") /\ runstate[v] = "runnable")
  BY <1>3 DEF vcpu_sleep_nosync, SameCharge, state
<1>5. ASSUME Becomes(v, "offline") PROVE Recharges({v}) /\ runstate'[v] = "offline"
  BY <1>1, <1>5, BecomesFacts DEF States
<1> QED
  BY <1>0, <1>1, <1>2, <1>4, <1>5 DEF SleepCharges

LEMMA WakesCharge ==
  ASSUME TLoc, TPlace, TQueue, TState, Carries, softirq \subseteq Cpus, NEW t \in Threads, Wake(t)
  PROVE  loc[t].v \in Vcpus /\ WakeCharges(loc[t].v)
<1>0. PICK v : v = loc[t].v
  OBVIOUS
<1>1. v \in Vcpus /\ WakesDoes(t, v) /\ StaysTold
  BY <1>0, WakesToil
<1>2. Toils /\ SameFlags /\ UNCHANGED curr
  BY <1>0, <1>1 DEF Toils, WakesDoes
<1>3. \A c \in Cpus : \A x \in runq'[c] : x \in runq[c] \/ (x = v /\ vcpu_runnable(v))
  <2>1. UNCHANGED runq \/ (vcpu_runnable(v) /\ runq' = [runq EXCEPT ![processor[v]] = @ \cup {v}])
    BY <1>0, WakeFacts
  <2>2. \A c \in Cpus : runq'[c] = runq[c] \/ (vcpu_runnable(v) /\ runq'[c] = runq[c] \cup {v})
    BY <2>1 DEF TQueue
  <2> QED
    BY <2>2, SMT
<1>4. ASSUME NEW st \in {"runnable", "offline"}, Becomes(v, st) PROVE Recharges({v}) /\ runstate'[v] = st
  BY <1>1, <1>4, BecomesFacts DEF States
<1>5. CASE vcpu_runnable(v)
  <2>1. "blocked" \notin pause_flags[v]
    BY <1>5 DEF vcpu_runnable
  <2>2. Becomes(v, "runnable") \/ (runstate[v] # "blocked" /\ SameCharge)
    BY <1>0, <1>5 DEF Wake, SameCharge, state
  <2> QED
    BY <1>0, <1>1, <1>2, <1>3, <1>4, <1>5, <2>1, <2>2 DEF WakeCharges
<1>6. CASE ~vcpu_runnable(v)
  <2>1. (Becomes(v, "offline") /\ "blocked" \notin pause_flags[v]) \/ SameCharge
    BY <1>0, <1>6 DEF Wake, SameCharge, state
  <2> QED
    BY <1>0, <1>1, <1>2, <1>3, <1>4, <1>6, <2>1 DEF WakeCharges
<1> QED
  BY <1>5, <1>6

LEMMA StepCharges ==
  ASSUME Good, Light \/ Heavy
  PROVE  Charges
<1>1. /\ TLoc /\ TPlace /\ TFlags /\ TQueue /\ TState /\ TArch /\ TRest /\ Carries /\ Holds
      /\ softirq \subseteq Cpus
  BY GoodSane
<1>2. CASE Light
  <2>1. UNCHANGED <<curr, runq>> /\ SameCharge
    BY <1>2, LightSched DEF sched, queue, state, SameCharge
  <2> QED
    BY <1>2, <2>1, LightStirs DEF Charges
<1>3. CASE Heavy
  <2>1. CASE SameCharge /\ UNCHANGED <<curr, runq>>
    BY <1>3, <2>1, HeavyToils DEF Charges
  <2>2. ASSUME NEW c \in Cpus, SchedPick(c) PROVE Charges
    <3>1. SameCharge
      BY <2>2 DEF SchedPick, SameCharge, state
    <3> QED
      BY <1>1, <2>2, <3>1, PickPicks DEF Charges
  <2>3. ASSUME NEW c \in Cpus, SchedSwitch(c) PROVE SwitchCharges(c)
    BY <1>1, <2>3, SchedSwitchFacts DEF SwitchCharges, SameFlags, flags, queue
  <2>4. ASSUME NEW a \in Agents, NEW v \in Vcpus, SetAffinity(a, v) PROVE SameCharge /\ UNCHANGED <<curr, runq>>
    BY <2>4 DEF SetAffinity, SameCharge, state, queue
  <2>5. ASSUME NEW t \in Threads, Lock1(t) \/ Locked(t) PROVE SameCharge /\ UNCHANGED <<curr, runq>>
    BY <2>5 DEF Lock1, Locked, SameCharge, state, queue
  <2>6. ASSUME NEW c \in Cpus, Enter(c) \/ Saved(c) PROVE SameCharge /\ UNCHANGED <<curr, runq>>
    BY <2>6 DEF Enter, Saved, SameCharge, state, queue
  <2>7. ASSUME NEW t \in Threads, NEW c \in Cpus, FlushIpi(c, t) PROVE SameCharge /\ UNCHANGED <<curr, runq>>
    BY <2>7 DEF FlushIpi, SameCharge, state, queue
  <2> QED
    BY <1>1, <1>3, <2>1, <2>2, <2>3, <2>4, <2>5, <2>6, <2>7, SleepsCharge, WakesCharge DEF Heavy, Charges
<1> QED
  BY <1>2, <1>3

LEMMA MovedStays ==
  ASSUME Good, [Next]_vars, moved
  PROVE  moved'
<1>1. /\ TLoc /\ TPlace /\ TFlags /\ TQueue /\ TState /\ TArch /\ TRest /\ Carries /\ Holds /\ softirq \subseteq Cpus
  BY Groups DEF Good
<1>2. CASE Light
  BY <1>2, LightSched DEF sched
<1>3. CASE UNCHANGED vars
  BY <1>3 DEF vars, sched
<1>4. ASSUME NEW t \in Threads, Locked(t) PROVE moved'
  BY <1>1, <1>4, LockedFacts
<1>5. CASE Heavy
  <2>1. ASSUME NEW a \in Agents, NEW v \in Vcpus, SetAffinity(a, v) PROVE moved'
    BY <2>1 DEF SetAffinity
  <2>2. ASSUME NEW a \in Agents, PauseSleep(a) \/ AskedSleep(a) PROVE moved'
    BY <2>2 DEF PauseSleep, AskedSleep
  <2>3. ASSUME NEW c \in Cpus, SchedPick(c) \/ SchedSwitch(c) \/ Enter(c) \/ Saved(c) PROVE moved'
    BY <2>3 DEF SchedPick, SchedSwitch, Enter, Saved
  <2>4. ASSUME NEW t \in Threads, Wake(t) \/ Lock1(t) PROVE moved'
    BY <2>4 DEF Wake, Lock1
  <2>5. ASSUME NEW t \in Threads, NEW c \in Cpus, FlushIpi(c, t) PROVE moved'
    BY <2>5 DEF FlushIpi
  <2> QED
    BY <1>4, <1>5, <2>1, <2>2, <2>3, <2>4, <2>5 DEF Heavy
<1> QED
  BY <1>2, <1>3, <1>5, Steps

-----------------------------------------------------------------------------
\* What steps do to the counts

LEMMA PlainKeeps ==
  ASSUME NEW t \in Threads, Plain(t), UNCHANGED pause_count
  PROVE  KeepsPause(t)
BY DEF Plain, KeepsPause, Marked

LEMMA StepPauses ==
  ASSUME Good, Light \/ Heavy
  PROVE  \/ \E t \in Threads : KeepsPause(t)
         \/ \E a \in Agents, v \in Vcpus : Pause(a, v)
         \/ \E a \in Agents : Unpause(a)
<1>1. /\ TLoc /\ TPlace /\ TFlags /\ TCount /\ TQueue /\ TArch /\ TState /\ TRest /\ Carries /\ Holds /\ Paused
      /\ softirq \subseteq Cpus
  BY Groups DEF Good
<1>2. Cpus \subseteq Threads /\ Agents \subseteq Threads /\ Cpus \cap Agents = {}
  BY SchedAssumption DEF Threads
<1>3. CASE Light
  <2>1. ASSUME NEW t \in Threads, PlainLight(t) PROVE KeepsPause(t)
    BY <2>1, PlainKeeps DEF PlainLight
  <2>2. ASSUME NEW a \in Agents, PauseSync(a) PROVE KeepsPause(a)
    BY <1>1, <2>2, PauseSyncFacts DEF KeepsPause, Pausing, flags
  <2>3. ASSUME NEW c \in Cpus, Dirty(c) PROVE KeepsPause(c)
    BY <1>1, <1>2, <2>3, DirtyFacts DEF KeepsPause, flags
  <2> QED
    BY <1>1, <1>2, <1>3, <2>1, <2>2, <2>3, LightCases
<1>4. CASE Heavy
  <2>1. ASSUME NEW a \in Agents, NEW v \in Vcpus, SetAffinity(a, v) PROVE KeepsPause(a)
    BY <1>1, <1>2, <2>1, SetAffinityFacts, PlainKeeps
  <2>2. ASSUME NEW a \in Agents, PauseSleep(a) PROVE KeepsPause(a)
    BY <1>1, <2>2, PauseSleepFacts DEF KeepsPause, Pausing, flags
  <2>3. ASSUME NEW a \in Agents, AskedSleep(a) PROVE KeepsPause(a)
    BY <1>1, <1>2, <2>3, AskedSleepFacts, PlainKeeps DEF flags
  <2>4. ASSUME NEW c \in Cpus, SchedPick(c) PROVE KeepsPause(c)
    <3>1. Others(c) /\ UNCHANGED pause_count
      BY <1>1, <2>4, SchedPickFacts DEF flags, Chosen, Others
    <3> QED
      BY <1>2, <3>1 DEF KeepsPause
  <2>5. ASSUME NEW c \in Cpus, SchedSwitch(c) \/ Enter(c) \/ Saved(c) PROVE KeepsPause(c)
    <3>1. Others(c) /\ UNCHANGED pause_count
      BY <1>1, <2>5, SchedSwitchFacts, EnterFacts, SavedFacts DEF flags
    <3> QED
      BY <1>2, <3>1 DEF KeepsPause
  <2>6. ASSUME NEW t \in Threads, Wake(t) PROVE KeepsPause(t)
    BY <1>1, <2>6, WakeFacts, PlainKeeps DEF PlainLight
  <2>7. ASSUME NEW t \in Threads, Lock1(t) PROVE KeepsPause(t)
    BY <1>1, <2>7, Lock1Facts DEF KeepsPause, Pausing, flags
  <2>8. ASSUME NEW t \in Threads, Locked(t) PROVE KeepsPause(t)
    BY <1>1, <2>8, LockedFacts DEF KeepsPause, Pausing, Marked
  <2>9. ASSUME NEW t \in Threads, NEW c \in Cpus, FlushIpi(c, t) PROVE KeepsPause(t)
    BY <1>1, <1>2, <2>9, FlushIpiFacts DEF KeepsPause, Pausing, Flushed, flags
  <2> QED
    BY <1>2, <1>4, <2>1, <2>2, <2>3, <2>4, <2>5, <2>6, <2>7, <2>8, <2>9 DEF Heavy
<1> QED
  BY <1>3, <1>4

LEMMA BecomesRecounts ==
  ASSUME NEW v, NEW st, Becomes(v, st) \/ UNCHANGED state, UNCHANGED processor
  PROVE  Tallies
<1>1. CASE Becomes(v, st)
  <2>1. DOMAIN [x \in {v} |-> st] = {v} /\ {v} \in SUBSET {v, v}
    OBVIOUS
  <2>2. Recounts({v})
    BY <1>1, <2>1 DEF Becomes, RunstateChange, Recounts
  <2> QED
    BY <2>1, <2>2 DEF Tallies
<1> QED
  BY <1>1 DEF state, Tallies

LEMMA StepTallies ==
  ASSUME Good, Light \/ Heavy
  PROVE  Tallies
<1>1. /\ TLoc /\ TPlace /\ TQueue /\ TArch /\ TState /\ TRest /\ Carries /\ Holds /\ softirq \subseteq Cpus
  BY Groups DEF Good
<1>2. CASE UNCHANGED <<is_urgent, urgent_count, processor>>
  BY <1>2 DEF Tallies
<1>3. CASE Light
  BY <1>2, <1>3, LightSched DEF sched, state, place
<1>4. ASSUME NEW a \in Agents, PauseSleep(a) \/ AskedSleep(a) PROVE Tallies
  <2>1. Becomes(loc[a].v, "offline") \/ UNCHANGED state
    BY <1>4 DEF PauseSleep, AskedSleep, vcpu_sleep_nosync
  <2>2. UNCHANGED processor
    BY <1>4 DEF PauseSleep, AskedSleep, place
  <2> QED
    BY <2>1, <2>2, BecomesRecounts
<1>5. ASSUME NEW t \in Threads, Wake(t) PROVE Tallies
  <2>1. Becomes(loc[t].v, "runnable") \/ Becomes(loc[t].v, "offline") \/ UNCHANGED state
    BY <1>5 DEF Wake
  <2>2. UNCHANGED processor
    BY <1>5 DEF Wake, place
  <2> QED
    BY <2>1, <2>2, BecomesRecounts
<1>6. ASSUME NEW c \in Cpus, SchedSwitch(c) PROVE Tallies
  <2> DEFINE D == {current[c], curr[c]} \ {Idle}
  <2>1. PICK new : DOMAIN new = D /\ RunstateChange(new)
    BY <1>6 DEF SchedSwitch
  <2>2. Recounts(D)
    BY <2>1 DEF RunstateChange, Recounts
  <2>3. D \in SUBSET {current[c], curr[c]} /\ UNCHANGED processor
    BY <1>6 DEF SchedSwitch, place
  <2> QED
    BY <2>2, <2>3 DEF Tallies
<1>7. ASSUME NEW t \in Threads, Locked(t) PROVE Tallies
  <2>1. loc[t].v \in Vcpus /\ UNCHANGED is_urgent /\ cpu_affinity[loc[t].v] \subseteq Cpus
    BY <1>1, <1>7, LockedFacts DEF TPlace
  <2>2. \/ UNCHANGED <<processor, urgent_count>>
        \/ \E n \in cpu_affinity[loc[t].v] :
             processor' = [processor EXCEPT ![loc[t].v] = n] /\ UrgencyMoves(loc[t].v, n)
    BY <1>1, <1>7, LockedFacts
  <2> QED
    BY <2>1, <2>2 DEF Tallies
<1>8. ASSUME NEW c \in Cpus, SchedPick(c) PROVE Tallies
  <2>1. Picks(c) /\ UNCHANGED <<is_urgent, urgent_count>>
    BY <1>1, <1>8, PickPicks DEF SchedPick, state
  <2> QED
    BY <2>1 DEF Tallies
<1>9. ASSUME NEW a \in Agents, NEW v \in Vcpus, SetAffinity(a, v) PROVE UNCHANGED <<is_urgent, urgent_count, processor>>
  BY <1>9 DEF SetAffinity, state
<1>10. ASSUME NEW c \in Cpus, Enter(c) \/ Saved(c) PROVE UNCHANGED <<is_urgent, urgent_count, processor>>
  BY <1>10 DEF Enter, Saved, state, place
<1>11. ASSUME NEW t \in Threads, Lock1(t) \/ \E c \in Cpus : FlushIpi(c, t)
       PROVE  UNCHANGED <<is_urgent, urgent_count, processor>>
  BY <1>11 DEF Lock1, FlushIpi, state, place
<1> QED
  BY <1>2, <1>3, <1>4, <1>5, <1>6, <1>7, <1>8, <1>9, <1>10, <1>11 DEF Heavy

LEMMA PollsKept ==
  ASSUME [Next]_vars
  PROVE  UNCHANGED polls \/ \E c \in Cpus, v \in Vcpus : Blocks(c, v)
BY DEF Next, Call, Guests, Thread, Rest, vars

LEMMA CarriesStep ==
  ASSUME Good, [Next]_vars
  PROVE  Carries'
<1>1. CASE UNCHANGED vars
  BY <1>1 DEF vars, Good, Carries
<1> QED
  BY <1>1, LightLoc, HeavyLoc, Steps

(* Types, locks and locals, if the counts are kept                         *)
LEMMA GoodKept ==
  ASSUME Good, [Next]_vars, TCount', TUrgent', Paused'
  PROVE  Good' /\ (AffinityKept => AffinityKept')
<1>1. /\ TLoc /\ TPlace /\ TFlags /\ TCount /\ TEvents /\ TQueue /\ TArch /\ TState /\ TRest
      /\ Carries /\ Holds /\ softirq \subseteq Cpus /\ polls \subseteq Vcpus
  BY Groups DEF Good
<1>2. polls' \subseteq Vcpus
  <2>1. CASE Guests
    BY <1>1, <2>1 DEF Guests, Blocks
  <2>2. CASE ~Guests
    <3>1. UNCHANGED polls
      BY <2>2 DEF Next, Call, Thread, Rest, vars
    <3> QED
      BY <1>1, <3>1
  <2> QED
    BY <2>1, <2>2
<1>3. CASE Light
  <2>1. UNCHANGED <<queue, state, place, arch, is_running, schedule_lock, moved, down>>
    BY <1>3, LightSched DEF sched
  <2>2. TPlace' /\ TQueue' /\ TState' /\ TArch' /\ TRest'
    BY <1>1, <2>1 DEF TPlace, TQueue, TState, TArch, TRest, queue, state, place, arch
  <2>3. TLoc' /\ Carries' /\ softirq' \subseteq Cpus
    BY <1>3, LightLoc
  <2>4. TFlags' /\ \A v \in Vcpus : "migrating" \in pause_flags[v] => "migrating" \in pause_flags'[v]
    BY <1>1, <1>3, LightFlags
  <2>5. TEvents'
    BY <1>1, <1>3, LightEvents
  <2>7. Holds'
    BY <1>3, LightHolds
  <2>8. AffinityKept => AffinityKept'
    BY <2>1, <2>4 DEF AffinityKept, place
  <2>9. TypeOK'
    BY <1>2, <2>2, <2>3, <2>4, <2>5
       DEF TypeOK, TPlace, TFlags, TCount, TEvents, TQueue, TState, TArch, TRest, TLoc, TUrgent
  <2> QED
    BY <2>3, <2>7, <2>8, <2>9 DEF Good
<1>4. CASE Heavy
  <2>1. TLoc' /\ Carries' /\ softirq' \subseteq Cpus
    BY <1>4, HeavyLoc
  <2>2. Holds' /\ TRest'
    BY <1>4, HeavyHolds
  <2>3. TPlace' /\ TFlags' /\ TEvents' /\ TQueue' /\ TState' /\ TArch' /\ (AffinityKept => AffinityKept')
    BY <1>4, HeavyTypes
  <2>5. TypeOK'
    BY <1>2, <2>1, <2>2, <2>3
       DEF TypeOK, TPlace, TFlags, TCount, TEvents, TQueue, TState, TArch, TRest, TLoc, TUrgent
  <2> QED
    BY <2>1, <2>2, <2>3, <2>5 DEF Good
<1>5. CASE UNCHANGED vars
  <2>1. UNCHANGED <<ev, flags, queue, state, place, arch, is_running, schedule_lock, moved, down, softirq,
                    loc, polls>>
    BY <1>5 DEF vars, sched
  <2>2. TypeOK'
    BY <2>1 DEF Good, TypeOK, ev, flags, queue, state, place, arch
  <2>3. Carries' /\ Holds' /\ (AffinityKept => AffinityKept')
    BY <1>1, <2>1 DEF Carries, Holds, AffinityKept, place, flags
  <2> QED
    BY <2>2, <2>3 DEF Good
<1> QED
  BY <1>3, <1>4, <1>5, Steps
=============================================================================
