# MemoryMonitor in TLA+

The repository is a Xen 4.1 hypervisor with a working-set monitor added to it,
and the Dom0 tool of that monitor. The hypervisor notes the CR3 (page-table
root) of every vcpu it schedules for a monitored domain; the tool fetches the
notes every five seconds, walks the page tables they point to, and prints how
much memory of the domain is in use and how much was swapped out lately. The
modules here model the monitor on both sides, and the parts of the hypervisor
it is built into, leans on and disturbs: the scheduler whose hook samples, the
lifetime of the domain it looks up, RCU under that, and the rendezvous of CPUs
that meets the lock it added.

## Inventory

| Part | State | Operations | Where it is hard |
|---|---|---|---|
| Sampler: hook in `schedule()`, `do_vt_op()` | `sample_flag`, `recent_cr3_size`, `recent_cr3`, `recent_cr3_lock` of `struct domain` | insert on every CPU; start, stop, drain from Dom0 | loads outside the lock, start without the lock, failing allocation, uninitialised memory |
| Tool and sampler together | the above, `cr3_list`, `list_size`, where `main()` is | start, drain, visit, be killed, start again | a refused start taken for success, a tool that dies with samples in hand, stores past `cr3_list` |
| Page record | `struct mapData`: a byte and a packed word | `compare_swap()`, decay, drop | field borders, saturation, uninitialised bits |
| Tool | `data_map`, `cr3_list`, `global_round` | fetch, mark, add up, walk, evict | frames shared by processes, the guest changing tables under the walk, bus errors, uninitialised tables, eviction boundary |
| Scheduler | `struct vcpu`, `schedule_data`, run queues, `curr_vcpu` | wake, sleep, block, poll, pause, move, steal, switch | flags set and cleared without the lock the state is under, two locks for a move, registers saved late |
| RCU | `rcu_ctrlblk`, three lists per CPU | queue, batch, quiesce, invoke, barrier, CPU down and up | batch numbers read without the lock, a CPU that dies in a batch |
| Domain lifetime | `refcnt`, `is_dying`, hash chain, RCU callback | lookup, get, put, kill, destroy, complete | resurrection from 0, concurrent destroyers, readers without a count, references not returned |
| Time calibration | rendezvous structure on CPU 0's stack, `call_data.selected` | IPI to all CPUs, two barriers per iteration, five iterations | reuse of one counter, lifetime of the structure, CPUs with interrupts off |

Interactions: the tool calls `vt_op`; `vt_op` and `schedule()` share the list
under `recent_cr3_lock`; both are interrupted by, or hold up, the calibration;
`vt_op` takes a reference to the domain, whose last put ends in an RCU callback;
the domain is looked up under RCU, and `schedule()` is the caller of the hook.

## Modules

`Cr3Sampler` (with `MCCr3Sampler`; proofs in `MonitorProofs`). The fields of
`struct domain` are variables of the same names. `sched[c]` holds program
counter and locals of `schedule()` on CPU `c`, `vtop[p]` those of `do_vt_op()`
in caller `p`. Every access outside the lock is a step: the two loads of the
hook (`SchedPick`, `SchedLoad`), the three stores of a start (`InitSize`,
`InitAlloc`, `InitFlag`). Inside the lock the hook has a step for the scan and
one for shift and store; the drain has one per slot, because it reads size and
pointer again each time and a start may change them. The constant `FlagFirst`
chooses the order of the two unlocked loads: the source writes size before flag,
and the committed object file `xen/common/schedule.o` loads the flag first, as a
compiler is free to do. Following a null list sets `fault`, after which nothing
runs. `since`, `trusted`, `stopped` and `nomem` are history. A vcpu that is not
of the monitored domain does not touch these fields and has no action.

`SampleSet` is what the sampler promises: a short queue of different values, on
which an insertion and a drain are atomic. The queue is a set of values
(`queue`) and the order they came in (`newer`, a relation), and that the set is
no larger than the list is said with an injection.
`Cr3Sampler!ActsAsQueue` is the refinement. A drain copies slot by slot, so the
mapping joins what a running drain has copied (`Copied`) with the slots it has
not reached (`Queue`), and takes the former as the newer (`Newer`).

`Monitor` (with `MonitorProofs`) composes the sampler with the tool: `main()`, `init_hypercall()`,
`get_cr3_hypercall()` with its stores to `cr3_list`, and the loop of
`walk_cr3_list()`. The tool is the only caller, may be killed outside a
hypercall at any time and started again; the sampler lives on. `top` and `last`
are the highest words of `cr3_list` that a call stores a CR3 and a zero at.

`PageRecord` (with `MCPageRecord`; proofs in `AnalyzerProofs`). A 64-bit word is the set
of the positions of its 1 bits, so masks, shifts and the loss of bits beyond
63 are those of the code. `compare_swap` takes any entry, present or not, and
starts from any uninitialised word.

`Analyzer` (with `AnalyzerProofs`). One thread, one action per call of the loop in `main()`;
`walk_cr3_list()` takes one step per process. What the tool reads is
arbitrary: any list (a CR3 may occur twice), any entries, uninitialised
members of new tables. Records keep the packed fields apart; the packing is
the subject of `PageRecord`. Only the slots that keep inside their field are
used here. `compare_swap()`, `Counts` and `Decayed` are in both modules, here as
`Compared`, `Counts` and `Decayed`, there as `compare_swap`, `RecordCounts` and
`RecordDecayed`; that they agree is proved.

`VcpuSched` (with `MCVcpuSched`; `VcpuState` has constants, variables and
the predicates on them; proofs in `VcpuSchedParts`, `VcpuSchedSteps`,
`VcpuSchedCore` and `VcpuSchedProofs`). The threads are the CPUs, which run
`schedule()`, `context_switch()` and `context_saved()`, and agents: other
contexts of the hypervisor that pause a vcpu, set its affinity, force it to be
rescheduled or send it events. `loc[t]` is program counter and locals.
`vcpu_unblock()`, `do_block()` and `do_poll()` take one step per store, as the
other side looks at the same words without a lock. `schedule()` drops nothing
between its choice (`SchedPick`) and the change of run states (`SchedSwitch`),
but the flags of a vcpu change in between. `vcpu_migrate()` takes two locks in
the order of the CPUs (`Lock1`, `Locked`) and starts over if the vcpu was moved.
Registers are saved late: a CPU that goes idle keeps those of its last vcpu
(`curr_vcpu`, `vcpu_dirty_cpumask`) until another vcpu enters or another CPU
asks with an interrupt (`FlushIpi`). Credits are abstracted: `SchedPick` takes
any vcpu of its queue or one it may steal, `Tickled` any of the idle CPUs.
The timer softirq comes before that of the scheduler, so the accounting tick
(`Tick`) also meets a vcpu that has just blocked and whose CPU is about to
schedule. A poll ends early for a port that is pending, invalid or cannot be
read; the port is noted if it is the only one. A poll of no port, which only the
timer or an event ends, is left out. Agents are contexts on CPUs that are not in
`Cpus`: the branch of `sync_vcpu_execstate()` for registers on the caller's own
CPU does not arise. `moved` is history: a vcpu was given another CPU while it was on a run queue.

`Rcu` (with `RcuProofs`) is `rcupdate.c`, one step per access to `rcu_ctrlblk`
outside its lock, and per store inside it that a CPU without the lock can tell
apart (`StartTest`, `StartCur`). Read sections are open and close without a
trace (`rcu_read_lock()` is empty). A CPU goes down through `stop_machine`
(`CpuDown`); CPU 0 handles softirqs until it is dead (`CpuDie`), completes its
batch and takes over its callbacks (`Flush`, `Take`). It comes up or fails to
(`CpuPrepare`, `CpuOnline`, `CpuCancel`). `rcu_barrier()` queues a callback on
every CPU and waits in a loop that runs softirqs, with interrupts on, so that
handlers open and close read sections in it; the constant `Interrupted` names
the CPUs on which they do. `GracePeriod` is the promise of `call_rcu()`, and
`Rcu!Promise` the refinement.

`DomainRef` (with `DomainRefProofs`). One domain. `Users` stands for all code that returns what
`get_domain_by_id()` gave it, `VtCallers` for `do_vt_op()`. One turn of the
compare-and-swap loop of `get_domain()` is a step, as are decrement, the
compare-and-swap of `domain_destroy()`, and unlinking. Grace periods
(`rcu_check_quiescent_state()`): a CPU can report a quiescent state between
hypercalls, and while it holds a counted reference, as `get_domain_by_id()` has
left its read section by then; that RCU waits for the others is the subject of
`Rcu`.

`Calibration` (with `CalibrationProofs`). `pc` is what a CPU does outside
interrupt context, `h` where it is in the handler, so that a CPU interrupted
inside `do_vt_op()` has both. `masked` is the set of CPUs with interrupts off.
`fn`, chosen once at the start, is the rendezvous function in use: the standard
one or the one that also sets the TSCs. The interrupt is pending as long as the
CPU is in `selected`; it is taken only with interrupts on. CPU 0 starts the
calibration from a timer softirq, never from inside a hypercall.
`schedule()` is modelled from the point where interrupts go off, with sampling
switched on.

## Runs

Passing:

| Run | Properties | Bounds |
|---|---|---|
| `sampler_races` | `MutualExclusion`, `FaultCause`, `SizeNotStale`, `ActsAsQueue` | 2 CPUs, 2 callers, 2 CR3s, 2 slots: two inserters and two hypercalls at every point of each other, list empty, partly filled, full; flag loaded before size; CPUs and callers are interchangeable (symmetry) |
| `monitor` | `FallsOnlyAfterNoMem`, `JunkOnce`, `Overrun`, `EventuallyVisited`, `LockReleased` | 1 CPU, 2 CR3s and one word of old memory, 2 slots, a tool that is killed once, failing allocations, `list_size` 0 or 9 at first |
| `page_record` | `FrameRecorded`, `ChangesCounted`, `FrameRemembered` | 16 entries over the bits that the fields treat differently, 129 transitions (saturation is at 127) |
| `tool` | `FreshIsVisited`, `KeptExactly`, `CountedOnce`, `CountedAll` | 2 processes with 1 page each and the kernel, 2 frames, lists of up to 2, rounds 0 to 2 with an interval of 2: shared frames, a table kept, evicted at the boundary and listed again |
| `calibration` | `StackAlive`, `StampWritten`, `Together`, `Completes` | 4 CPUs, either function, the real 5 iterations, `vt_op` on CPU 0 |
| `domain` | `DestroyedDying`, `UnlinkedOnce`, `NotFreedInUse`, `RefsCounted`, `ReclaimedUnlessKept` | 2 users (two destroyers, or a destroyer and a lookup that revives the counter), 2 `vt_op` callers, new `vt_op` calls until 2 references are lost |
| `rcu` | `BarrierFlushed`, `Awaited`, `Promise`, `EventuallyInvoked` | 2 CPUs, one of which goes down and up, a callback and the heads of the barrier, new callbacks until batch 2 (the CPUs then disagree on whether a batch is to come, runs or is over), limits of 1 so that `blimit` is reached and lifted; read sections inside the barrier on one of the CPUs (`Interrupted`; on both the run passes as well, in twice the time) |
| `vcpu` | `SwitchAsserts`, `OneCpu`, `HeldIsSaved`, `AwaitedStops`, `NoVcpuLost`, `NoWorkUnnoticed`, `AffinityKept`, `MoverAtWork`, `UrgentCounted`, `EventSeen`, `PollSeen` | 2 CPUs, 2 agents; one vcpu that blocks and two calls on it, or a second vcpu that competes for the CPUs and one call (`MaxParties` counts vcpus and calls); vcpus start on CPU 0 (`Homes`: CPUs differ in the order of their locks only, and moves and stealing reach the other) |

Reservations the properties state themselves. `ActsAsQueue` begins when a drain
has emptied the list (`trusted`), since before that it holds old memory, and
ends when a CPU inserts with a stale size. `SizeNotStale` says when no size is
stale: in a build that loads the flag first, as long as nobody stops sampling.
Of a build in the order of the source it says nothing. `CountedOnce` and
`CountedAll` leave out the rounds in which a table is added up that was never
walked, whose counters are uninitialised. `MutualExclusion` is about what
happens under the lock; the stores of a start, made without it, are the subject
of `FaultCause`.
`CountedAll` needs every record to be from the last walk: a record with weight 0
that is met first takes the place of a frame that another process maps now, so
the total may fall short. `FrameRemembered` leaves out the lowest bit of the
frame number, which the mask of the swap address lets through. The properties
of `VcpuSched` hold until `moved` (see `vcpu_queue`), but for `AffinityKept`,
`NoWorkUnnoticed`, `EventSeen` and `PollSeen`, which hold always.

Violations, each of a statement the repository makes:

| Run | Statement | What happens |
|---|---|---|
| `sampler_stop` | "stop sampling" | a CPU that saw the flag before the stop follows the null list after it |
| `calibration_vt` | "Rendezvous for all CPUs" | the drain is interrupted while it holds the lock, another CPU waits for the lock with interrupts off, and nobody leaves |
| `domain_leak` | "Release resources belonging to task" | after one `vt_op` the domain is never freed |
| `vcpu_queue` | `BUG_ON( cpu != snext->vcpu->processor )` and its like | `context_saved()` moves a vcpu that is back on a run queue when the request to move it arrives late; the CPU of that queue meets the `BUG_ON()` |

Deadlock is checked in every run but `calibration_vt`, where the system does
stop, which is what the run is about, and `domain_leak`, where the property
under test is the temporal one. In `VcpuSched` a state without steps would be
threads that wait for each other's locks or interrupts.

## Fairness

`Monitor!MFairness` assumes that a CPU inside the lock goes on (weak), and
strong fairness of the tool: the lock is a test-and-set lock and favours nobody,
but it is free for the time slice between two runs of `schedule()` of a vcpu.
That a drain does not starve on the lock is thus assumed, not shown.
Nothing is assumed of how often a CPU schedules, and tools are started for ever
by hypothesis of the property. `Calibration!FairSpec` adds to the progress of
handlers that a pending interrupt is taken if interrupts are enabled again and
again (strong fairness, which the local APIC provides), and nothing about who
gets the lock: once all other CPUs are in the handler there is no contender
left. `DomainRef!FairSpec` lets hypercalls that began go on and users return
their references; `ReclaimedUnlessKept` is claimed for behaviours in which the
domain is not looked up for ever, because each lookup can revive the counter.
`Rcu!Fairness`: read sections end (weak), those of interrupts in the barrier
included; a CPU that is free to go on again and again, with softirqs or in the
barrier, does, and takes the lock of `rcu_ctrlblk`, held for a few instructions,
in the end (strong); the hotplug code of CPU 0 likewise.
`VcpuSched` has no fairness. What must eventually happen there is stated as an
invariant on who will do it: a CPU on its way to deschedule (`AwaitedStops`), a
thread on its way to move or to wake (`MoverAtWork`, `NoVcpuLost`), a sender or
the vcpu itself that has yet to look (`EventSeen`, `PollSeen`), a CPU that has
been told (`NoWorkUnnoticed`).

## Proofs

For all values of the constants, bounds included (`MaxBatch`, `MaxRound`,
`MaxKills` and the like are arbitrary numbers in the proofs). Every invariant
that a passing run checks is proved, and both refinements. Where a property is
not inductive the strengthened invariant was model-checked first, then proved
with one step per action.

* `MonitorProofs`, about the sampler: `TypeCorrect`, `MutexCorrect`,
  `FaultCauseCorrect`, `SizeNotStaleCorrect`. The invariant `Control` adds: a
  CPU that has seen the flag set did so after the list was there (`FlagSeen`), a
  stop in progress is recorded (`StopMarked`), and without a stop or a failed
  allocation a size means a list unless a start is between the two (`ListThere`,
  `SizeThere`). Assumptions: the size is positive, names are distinct, 0 is not a
  CR3.
* `MonitorProofs`, the refinement: `QueueCorrect`, `Spec => ActsAsQueue`. Every
  step of `schedule()` and of `do_vt_op()` is one of the queue or none. The
  invariant `QInv` says what the mapping rests on: only a drain that runs has
  copied anything (`NothingCopied`), it leaves zeros behind it (`Zeroed`), up to
  a word that is not 0 all words are different and were seen since the last drain
  (`Apart`), and what a CPU is about to insert is not in the list (`Missing`,
  true because the lock is held from the scan to the store). That a value falls
  out only if more came than there are slots follows from `Apart`: the slots then
  hold that many values, and the new one is not among them.
* `MonitorProofs`, the composition: `MonitorSamples`, `MSpec => Spec`, so that the
  theorems on the sampler hold with the tool as its caller; `FallsCorrect`,
  `JunkOnceCorrect`, `OverrunCorrect`. The invariant `MInv` relates the place in
  `main()` to the hypercall (`OneCall`), to the first start, the only one that is
  not refused (`FirstStart`), to a failed allocation (`Falls`), to what is left of
  old memory during and after a drain (`OldMemory`) and to the number of words
  copied (`Stores`).
* `AnalyzerProofs`, about the record: `PaddrRoundTrip` (what `get_paddr` reads
  back after `save_paddr`), `TypeCorrect`, `FrameCorrect`, `ChangesCorrect`,
  `RememberedCorrect`. The invariants are inductive together with the type;
  lemmas give the type of each field operation, what one visit counts, and that
  storing a swap address leaves the frame number but for its lowest bit.
* `AnalyzerProofs`, about the tables: `KeptCorrect` and `FreshCorrect`. The
  invariant `TInv` follows a round: the list is in the map once it has been
  checked (`Loop`), a CR3 in the list has the current round as the last in which
  it was listed (`Listed`), a table that is not in the list has the round of its
  last listing and one that is gets this round when the loop of
  `walk_cr3_list()` has passed it (`Rounds`). At `retrieve_list()` every table
  therefore has the round its CR3 was listed in, although new tables start with
  none, and the interval is right at its boundary. `Visits` is `FreshIsVisited`
  page by page.
* `AnalyzerProofs`, the two records: `RevisitUnpacked`, `FirstVisitUnpacked`,
  `CountsUnpacked`. A visit, the decision to count and the decay of the packed
  record are those of the unpacked one of `Analyzer` under `Unpacked`, provided
  bit 27 of a swap address is 0 (`Fits`), which is where the fields overlap.
* `CalibrationProofs`: `StackAliveCorrect`, `StampWrittenCorrect`,
  `TogetherCorrect`. The invariant `Called` says that a CPU in the handler is in
  `selected` and that `selected` is empty unless CPU 0 is in
  `time_calibration()`. `Phase` relates the one counter to the CPUs: while the
  master waits for the others it is the number of those at the barrier, all in
  its iteration, while others may still be leaving the one before; once the
  master has raised it, it tells how many have left. Assumptions: finitely many
  CPUs, 0 among them.
* `RcuProofs`: `TypeCorrect`, `AwaitedCorrect` and `PromiseKept`, the
  refinement `Spec => Promise`. Batches are counted by numbers that CPUs read
  without the lock, so the invariant has to relate them to readers: who holds
  the lock and what the numbers are while it is held; that every queued
  callback is on exactly one list, once; and that a callback that waits for a
  section on CPU `c` is on `nxtlist`, or on `curlist` with a batch that is not
  over and that `c` still has to pass (`Covered`). `Invoke` then finds nothing
  to wait for on `donelist`. Assumptions: CPU 0 is one of the CPUs, `blimit` is
  positive.
* `RcuProofs`, the barrier: `BarrierCorrect`. The three lists of a CPU are one
  queue, in the order in which they are invoked (`Chain`). The invariant `BInv`
  says that every queued callback is in some CPU's, and a CPU that is down and
  cleared up after has none (`Kept`), that CPUs neither come nor go during the
  barrier (`Halted`), that nothing older comes after a CPU's own `rcu_head`
  (`HeadHere`, `Ahead`), and that `cpu_count` is the number of CPUs whose
  `rcu_head` was invoked (`AllPassed`). `blimit`, which cuts a batch short, moves
  nothing past anything. Further assumption (`RcuHeads`): finitely many CPUs,
  and the heads of the barrier are not callbacks.
* `DomainRefProofs`: `TypeCorrect`, `DestroyedDyingCorrect`,
  `UnlinkedOnceCorrect`, `NotFreedInUseCorrect`, `RefsCountedCorrect`. They hold
  together: the counter is the number of references (`RefsCounted`), so it is not
  0 before the kill has returned the first one (`Dead`), whoever got past the
  compare-and-swap is alone (`UnlinkedOnce`, `Linked`), and whoever found the
  domain is waited for by the grace period (`Covered`). Assumptions: finitely
  many users and callers, all different.
* `VcpuSchedProofs`: `TypeCorrect`, `AffinityCorrect`, `AssertsCorrect`,
  `OneCpuCorrect`, `HeldCorrect`, `AwaitedCorrect`, `NotLostCorrect`,
  `NoticedCorrect`, `MoverCorrect`, `UrgentCorrect`, `EventCorrect`,
  `PollCorrect`, that is all invariants of the run, from one invariant:
  `Good /\ Counted /\ AffinityKept /\ Noted /\ (moved \/ (Core /\ Pending /\ Tallied))`.
  `Good` has types, locals and locks held from step to step; `Counted` is that
  `pause_count` is the number of agents between pause and unpause. `Core` says
  where a vcpu can be: on the queue of its own CPU or running there, with its
  registers on at most one CPU, and off both when a pause has returned. `Noted`
  and `Pending` name for each thing to be done the thread that is about to do it.
  `Tallied` counts the urgent vcpus. All of `Core` is lost when a queued vcpu is
  moved, hence the disjunction. `VcpuSchedParts` has the invariant and the
  effects of steps that matter to it; `VcpuSchedSteps`
  proves that each step has one of these effects, `VcpuSchedCore` that the
  effects preserve the invariant, and `VcpuSchedProofs` puts them together.
  Assumptions: finitely many CPUs and agents; any number of vcpus.

Only model-checked:

* liveness: `EventuallyVisited`, `LockReleased`, `Completes`,
  `ReclaimedUnlessKept`, `EventuallyInvoked`. Fairness and `ENABLED` are out of
  the prover's reach;
* `CountedOnce` and `CountedAll`: the totals are folds over the records in
  order and sums over sets of frames, and what a fold returns for every
  sequence needs induction over data, which the installed provers cannot do.

## Read in the code, without a run

* The list is not cleared at a start, so the first drain returns old memory
  (the properties of the list therefore begin at the first drain; `JunkOnce`).
* With a size of 0, read before a start whose flag it then sees (in the order of
  the source, or after a stop), the hook scans nothing and overwrites slot 0: a
  sample is lost, and a CR3 may be in the list twice.
* After a start that failed for memory every start is refused with "already
  start sampling", which the tool takes for success (`FallsOnlyAfterNoMem` says
  what can follow).
* `recent_cr3_lock` is taken with interrupts off in `schedule()` and on in
  `do_vt_op()`, which `check_lock()` of a debug build does not allow (the
  committed object files are not a debug build).
* "[63:28]:paddr, [27:1]:swap_paddr" is not the layout: the mask `0xeffffff`
  drops bit 24 of a swap address and keeps bit 27, which the shift puts on bit
  0 of the frame number.
* `get_swap_id()` reads the frame number along with the swap address, so one swap
  location recorded with two frames has two ids.
* The walk records an entry that is empty as one that is swapped out.
* "skip windows kernel" skips the walk; the uninitialised counters of the
  kernel's table are added up with the others.
* After a bus error the four `munmap()` calls of the walk do nothing in the
  committed binary, so that up to four pages stay mapped.

## Not modelled

* The mappings of the page walk, and what is unmapped after a bus error.
* The buffer of the first drain: `list_size` is not initialised, and as many
  words of `cr3_list` are cleared as it says.
* The output: `printf` is given doubles for `%lu`, so the totals the model
  computes are not what is printed.
* `d` is used in `do_vt_op()` (`p2m_get_hostp2m(d)`) before it is compared with
  NULL; the models take the comparison as effective.
* What `complete_domain_destroy()` releases, `d->target` included; shutdown,
  its deferral and resume.
* In the scheduler: creation and removal of vcpus, cpupools, tasklets, credits
  and priorities, the periodic and singleshot timers, the pause of a whole
  domain (the same calls on another counter), and the other policies.
* Allocation, binding and closing of event channels.
* The EPT tables: `p2m-ept.c` is listed for `do_vt_op()` only, which does not
  change them.
* The rest of Xen: grant tables, memory management, shadow and HVM, interrupt
  routing, XSM, drivers, ia64. This is nearly all of the 356,000 lines of the
  repository, unchanged from Xen 4.1, and neither part of the monitor nor used
  by it. What the modules cover of the repository is therefore a small share of
  its lines, and the whole of what the monitor adds.
