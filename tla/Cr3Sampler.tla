----------------------------- MODULE Cr3Sampler -----------------------------
(***************************************************************************)
(* The sampling half of the monitor, inside the hypervisor: the list of    *)
(* recently scheduled CR3 values that a domain carries (recent_cr3), the   *)
(* hook in schedule() that adds to it on every physical CPU, and the three *)
(* operations of the vt_op hypercall that Dom0 drives it with: 1 starts    *)
(* sampling, 2 stops it, 3 drains the list.                                *)
(*                                                                         *)
(* One monitored domain.  A step is an access to the fields that another   *)
(* CPU can see change: operation 1 takes no lock, and schedule() loads     *)
(* sample_flag and recent_cr3_size before it takes recent_cr3_lock, so     *)
(* those loads and stores are steps of their own.  What happens to the     *)
(* list inside the lock is one step per loop (schedule) or per slot        *)
(* (operation 3 re-reads the size and the pointer for every slot).         *)
(***************************************************************************)
EXTENDS Integers, Sequences, FiniteSets, Functions

CONSTANTS
  Cpus,      \* physical CPUs, each of which runs schedule()
  Callers,   \* Dom0 contexts that issue vt_op hypercalls
  Cr3s,      \* CR3 values of the guest's processes
  Junk,      \* what freshly allocated memory may hold besides Cr3s and 0
  Size,      \* the length operation 1 is called with: RECENT_CR3_SIZE
  FlagFirst, \* TRUE: the order in the committed schedule.o, sample_flag then
             \* size; FALSE: the order in which the source writes the loads
  NULL,      \* the null pointer
  NoOne      \* the lock is free

ASSUME SamplerAssumption ==
  /\ Size \in Nat \ {0}
  /\ FlagFirst \in BOOLEAN
  /\ Cpus \cap Callers = {}
  /\ NoOne \notin Cpus \cup Callers
  /\ 0 \notin Cr3s \cup Junk
  /\ Cr3s \cap Junk = {}

Index  == 0 .. Size - 1
Word   == Cr3s \cup Junk \cup {0}
Buffer == [Index -> Word]

ASSUME NullAssumption == NULL \notin Buffer

VARIABLES
  sample_flag, recent_cr3_size, recent_cr3,  \* fields of struct domain
  recent_cr3_lock,  \* the CPU or caller that holds the lock, or NoOne
  sched,            \* schedule() on each CPU: pc and locals
  vtop,             \* do_vt_op() in each caller: pc, loop index, buffer
  fault,            \* a null pointer was followed: the hypervisor is down
  since,            \* history: CR3s inserted or found since the last drain
  trusted,          \* history: "yes" once a whole drain has run on this list,
                    \* unless a stale size was used on it since
  stopped,          \* history: operation 2 has been called
  nomem             \* history: an allocation of operation 1 has failed

shared  == <<sample_flag, recent_cr3_size, recent_cr3>>
history == <<since, trusted, stopped, nomem>>
vars    == <<shared, recent_cr3_lock, sched, vtop, fault, history>>

SchedPc == {"run", "load", "spin", "scan", "insert", "unlock"}
VtopPc  == {"dom0", "init_size", "init_alloc", "init_flag",
            "stop_spin", "stop_flag", "stop_size", "stop_free",
            "get_spin", "get_loop"}

\* Between two runs of schedule(), and between two hypercalls, no local lives.
Idle     == [pc |-> "run", cr3 |-> 0, size |-> 0, flag |-> 0]
Returned == [pc |-> "dom0", i |-> 0, out |-> <<>>]

-----------------------------------------------------------------------------
\* domain_create(): every domain starts without a list and without sampling.
Init ==
  /\ sample_flag = 0
  /\ recent_cr3_size = 0
  /\ recent_cr3 = NULL
  /\ recent_cr3_lock = NoOne
  /\ sched = [c \in Cpus |-> Idle]
  /\ vtop = [p \in Callers |-> Returned]
  /\ fault = FALSE
  /\ since = {}
  /\ trusted = "no"
  /\ stopped = FALSE
  /\ nomem = FALSE

At(c, label)  == ~fault /\ sched[c].pc = label
In(p, label)  == ~fault /\ vtop[p].pc = label
Goto(c, label) == sched' = [sched EXCEPT ![c].pc = label]
Jump(p, label) == vtop' = [vtop EXCEPT ![p].pc = label]
Return(p)      == vtop' = [vtop EXCEPT ![p] = Returned]

Acquire(x) == recent_cr3_lock = NoOne /\ recent_cr3_lock' = x
Release    == recent_cr3_lock' = NoOne

\* Following d->recent_cr3 while it is NULL takes the hypervisor down.
Crash == recent_cr3 = NULL /\ fault' = TRUE

-----------------------------------------------------------------------------
(* schedule(): the block marked <VT> add.                                  *)

\* do_schedule() has chosen a vcpu of the domain, whose guest CR3 is cr3;
\* the first of the two unlocked loads.
SchedPick(c) ==
  /\ At(c, "run")
  /\ \E cr3 \in Cr3s \cup {0} :
       sched' = [sched EXCEPT ![c] =
         [pc |-> "load", cr3 |-> cr3,
          size |-> IF FlagFirst THEN 0 ELSE recent_cr3_size,
          flag |-> IF FlagFirst THEN sample_flag ELSE 0]]
  /\ UNCHANGED <<shared, recent_cr3_lock, vtop, fault, history>>

\* The second load, and the test of sample_flag.
SchedLoad(c) ==
  /\ At(c, "load")
  /\ LET flag == IF FlagFirst THEN sched[c].flag ELSE sample_flag
         size == IF FlagFirst THEN recent_cr3_size ELSE sched[c].size
     IN  sched' = [sched EXCEPT ![c] =
           IF flag = 1 THEN [@ EXCEPT !.pc = "spin", !.size = size, !.flag = 1] ELSE Idle]
  /\ UNCHANGED <<shared, recent_cr3_lock, vtop, fault, history>>

SchedLock(c) ==
  /\ At(c, "spin")
  /\ Acquire(c)
  /\ Goto(c, "scan")
  /\ UNCHANGED <<shared, vtop, fault, history>>

\* A plausible slip: the scan starts at slot 1.
ListedPastHead(c) == \E i \in 1 .. sched[c].size - 1 : recent_cr3[i] = sched[c].cr3

\* The search loop ends early: the CR3 is already in the list.
Listed(c) == \E i \in 0 .. sched[c].size - 1 : recent_cr3[i] = sched[c].cr3

SchedScan(c) ==
  /\ At(c, "scan")
  /\ sched[c].size > 0 => recent_cr3 # NULL
  /\ Goto(c, IF sched[c].size > 0 /\ Listed(c) THEN "unlock" ELSE "insert")
  /\ since' = IF sched[c].size > 0 /\ Listed(c) THEN since \cup {sched[c].cr3} ELSE since
  /\ UNCHANGED <<shared, recent_cr3_lock, vtop, fault, trusted, stopped, nomem>>

\* A plausible slip: the shift loop stops one slot early.
ShiftedShort(buf, size, cr3) ==
  [i \in Index |-> IF i = 0 THEN cr3 ELSE IF i < size - 1 THEN buf[i - 1] ELSE buf[i]]

\* A plausible slip: the new value is stored in the last slot.
StoredLast(buf, size, cr3) ==
  [i \in Index |-> IF i = size - 1 THEN cr3 ELSE IF i < size - 1 THEN buf[i + 1] ELSE buf[i]]

\* The shift loop and the store to slot 0.  With size = 0 the loop variable
\* starts at -1, so nothing is shifted.
Shifted(buf, size, cr3) ==
  [i \in Index |-> IF i = 0 THEN cr3 ELSE IF i < size THEN buf[i - 1] ELSE buf[i]]

SchedInsert(c) ==
  /\ At(c, "insert")
  /\ recent_cr3 # NULL
  /\ recent_cr3' = Shifted(recent_cr3, sched[c].size, sched[c].cr3)
  /\ since' = since \cup {sched[c].cr3}
  /\ trusted' = IF sched[c].size = Size THEN trusted ELSE "no"
  /\ Goto(c, "unlock")
  /\ UNCHANGED <<sample_flag, recent_cr3_size, recent_cr3_lock, vtop, fault, stopped, nomem>>

\* Either loop, or the store to slot 0, meets a list that is not there.
SchedFault(c) ==
  /\ \/ At(c, "scan") /\ sched[c].size > 0
     \/ At(c, "insert")
  /\ Crash
  /\ UNCHANGED <<shared, recent_cr3_lock, sched, vtop, history>>

SchedUnlock(c) ==
  /\ At(c, "unlock")
  /\ Release
  /\ sched' = [sched EXCEPT ![c] = Idle]
  /\ UNCHANGED <<shared, vtop, fault, history>>

Sched(c) ==
  \/ SchedPick(c) \/ SchedLoad(c) \/ SchedLock(c) \/ SchedScan(c)
  \/ SchedInsert(c) \/ SchedFault(c) \/ SchedUnlock(c)

-----------------------------------------------------------------------------
(* do_vt_op(), operation 1: start sampling.  It takes no lock.             *)

\* "already start sampling": 1, and nothing changes.
InitRefused(p) ==
  /\ In(p, "dom0")
  /\ recent_cr3_size # 0
  /\ UNCHANGED vars

\* A plausible slip: sampling is switched on before size and list are set.
InitCheckAndFlag(p) ==
  /\ In(p, "dom0")
  /\ recent_cr3_size = 0
  /\ sample_flag' = 1
  /\ Jump(p, "init_size")
  /\ UNCHANGED <<recent_cr3_size, recent_cr3, recent_cr3_lock, sched, fault, history>>

InitCheck(p) ==
  /\ In(p, "dom0")
  /\ recent_cr3_size = 0
  /\ Jump(p, "init_size")
  /\ UNCHANGED <<shared, recent_cr3_lock, sched, fault, history>>

\* A plausible slip: sampling is switched on before the list exists.
InitSizeAndFlag(p) ==
  /\ In(p, "init_size")
  /\ recent_cr3_size' = Size
  /\ sample_flag' = 1
  /\ Jump(p, "init_alloc")
  /\ UNCHANGED <<recent_cr3, recent_cr3_lock, sched, fault, history>>

InitSize(p) ==
  /\ In(p, "init_size")
  /\ recent_cr3_size' = Size
  /\ Jump(p, "init_alloc")
  /\ UNCHANGED <<sample_flag, recent_cr3, recent_cr3_lock, sched, fault, history>>

\* xmalloc_array() does not clear the memory it returns.
InitAlloc(p) ==
  /\ In(p, "init_alloc")
  /\ recent_cr3' \in Buffer
  /\ Jump(p, "init_flag")
  /\ since' = {}
  /\ trusted' = "no"
  /\ UNCHANGED <<sample_flag, recent_cr3_size, recent_cr3_lock, sched, fault, stopped, nomem>>

\* The allocation fails: -1, with recent_cr3_size left as it was set.
InitNoMem(p) ==
  /\ In(p, "init_alloc")
  /\ recent_cr3' = NULL
  /\ nomem' = TRUE
  /\ Return(p)
  /\ since' = {}
  /\ trusted' = "no"
  /\ UNCHANGED <<sample_flag, recent_cr3_size, recent_cr3_lock, sched, fault, stopped>>

InitFlag(p) ==
  /\ In(p, "init_flag")
  /\ sample_flag' = 1
  /\ Return(p)
  /\ UNCHANGED <<recent_cr3_size, recent_cr3, recent_cr3_lock, sched, fault, history>>

-----------------------------------------------------------------------------
(* Operation 2: stop sampling.                                             *)

StopCall(p) ==
  /\ In(p, "dom0")
  /\ Jump(p, "stop_spin")
  /\ stopped' = TRUE
  /\ UNCHANGED <<shared, recent_cr3_lock, sched, fault, since, trusted, nomem>>

StopLock(p) ==
  /\ In(p, "stop_spin")
  /\ Acquire(p)
  /\ Jump(p, "stop_flag")
  /\ UNCHANGED <<shared, sched, fault, history>>

StopFlag(p) ==
  /\ In(p, "stop_flag")
  /\ sample_flag' = 0
  /\ Jump(p, "stop_size")
  /\ UNCHANGED <<recent_cr3_size, recent_cr3, recent_cr3_lock, sched, fault, history>>

StopSize(p) ==
  /\ In(p, "stop_size")
  /\ recent_cr3_size' = 0
  /\ Jump(p, "stop_free")
  /\ UNCHANGED <<sample_flag, recent_cr3, recent_cr3_lock, sched, fault, history>>

\* xfree() of a list that is there, the store of NULL, the unlock.
StopFree(p) ==
  /\ In(p, "stop_free")
  /\ recent_cr3' = NULL
  /\ Release
  /\ Return(p)
  /\ since' = {}
  /\ trusted' = "no"
  /\ UNCHANGED <<sample_flag, recent_cr3_size, sched, fault, stopped, nomem>>

-----------------------------------------------------------------------------
(* Operation 3: return the CR3s to Dom0 and empty the list.  out is the    *)
(* caller's buffer from longBuff[1] on; longBuff[0] is its length.         *)

GetCall(p) ==
  /\ In(p, "dom0")
  /\ vtop' = [vtop EXCEPT ![p].pc = "get_spin"]
  /\ UNCHANGED <<shared, recent_cr3_lock, sched, fault, history>>

\* A plausible slip: operation 3 walks the list without the lock.
GetLockNone(p) ==
  /\ In(p, "get_spin")
  /\ Jump(p, "get_loop")
  /\ trusted' = IF trusted = "no" THEN "draining" ELSE trusted
  /\ UNCHANGED <<shared, recent_cr3_lock, sched, fault, since, stopped, nomem>>

GetLock(p) ==
  /\ In(p, "get_spin")
  /\ Acquire(p)
  /\ Jump(p, "get_loop")
  /\ trusted' = IF trusted = "no" THEN "draining" ELSE trusted
  /\ UNCHANGED <<shared, sched, fault, since, stopped, nomem>>

\* A plausible slip: the slot that was returned is not zeroed.
GetSlotKeeps(p) ==
  /\ In(p, "get_loop")
  /\ vtop[p].i < recent_cr3_size
  /\ recent_cr3 # NULL
  /\ LET w == recent_cr3[vtop[p].i]
     IN  vtop' = [vtop EXCEPT ![p].i = @ + 1,
                              ![p].out = IF w # 0 THEN Append(@, w) ELSE @]
  /\ UNCHANGED <<shared, recent_cr3_lock, sched, fault, history>>

\* A plausible slip: the loop does not get past a slot that is zero.
GetSlotStays(p) ==
  /\ In(p, "get_loop")
  /\ vtop[p].i < recent_cr3_size
  /\ recent_cr3 # NULL
  /\ LET w == recent_cr3[vtop[p].i]
     IN  vtop' = IF w = 0 THEN vtop
                 ELSE [vtop EXCEPT ![p].i = @ + 1, ![p].out = Append(@, w)]
  /\ recent_cr3' = [recent_cr3 EXCEPT ![vtop[p].i] = 0]
  /\ UNCHANGED <<sample_flag, recent_cr3_size, recent_cr3_lock, sched, fault, history>>

\* One turn of the loop: a non-zero slot is copied out and zeroed.
GetSlot(p) ==
  /\ In(p, "get_loop")
  /\ vtop[p].i < recent_cr3_size
  /\ recent_cr3 # NULL
  /\ LET w == recent_cr3[vtop[p].i]
     IN  vtop' = [vtop EXCEPT ![p].i = @ + 1,
                              ![p].out = IF w # 0 THEN Append(@, w) ELSE @]
  /\ recent_cr3' = [recent_cr3 EXCEPT ![vtop[p].i] = 0]
  /\ UNCHANGED <<sample_flag, recent_cr3_size, recent_cr3_lock, sched, fault, history>>

GetFault(p) ==
  /\ In(p, "get_loop")
  /\ vtop[p].i < recent_cr3_size
  /\ Crash
  /\ UNCHANGED <<shared, recent_cr3_lock, sched, vtop, history>>

\* The loop ends; what was inserted so far has now been returned.
GetDone(p) ==
  /\ In(p, "get_loop")
  /\ vtop[p].i >= recent_cr3_size
  /\ Release
  /\ Return(p)
  /\ since' = {}
  /\ trusted' = IF trusted # "no" /\ vtop[p].i = Size THEN "yes" ELSE "no"
  /\ UNCHANGED <<shared, sched, fault, stopped, nomem>>

VtOp(p) ==
  \/ InitRefused(p) \/ InitCheck(p) \/ InitSize(p) \/ InitAlloc(p)
  \/ InitNoMem(p) \/ InitFlag(p)
  \/ StopCall(p) \/ StopLock(p) \/ StopFlag(p) \/ StopSize(p) \/ StopFree(p)
  \/ GetCall(p) \/ GetLock(p) \/ GetSlot(p) \/ GetFault(p) \/ GetDone(p)

\* After a fault nothing runs any more.
Down == fault /\ UNCHANGED vars

Next == (\E c \in Cpus : Sched(c)) \/ (\E p \in Callers : VtOp(p)) \/ Down

Spec == Init /\ [][Next]_vars
-----------------------------------------------------------------------------
(* Properties.                                                             *)

SchedLocals == [pc : SchedPc, cr3 : Cr3s \cup {0}, size : {0, Size}, flag : {0, 1}]
VtopLocals  == [pc : VtopPc, i : 0 .. Size, out : Seq(Word)]

TypeOK ==
  /\ sample_flag \in {0, 1}
  /\ recent_cr3_size \in {0, Size}
  /\ recent_cr3 \in Buffer \cup {NULL}
  /\ recent_cr3_lock \in Cpus \cup Callers \cup {NoOne}
  /\ sched \in [Cpus -> SchedLocals]
  /\ vtop \in [Callers -> VtopLocals]
  /\ fault \in BOOLEAN
  /\ since \subseteq Cr3s \cup {0}
  /\ trusted \in {"no", "draining", "yes"}
  /\ stopped \in BOOLEAN
  /\ nomem \in BOOLEAN

SchedInside(c) == sched[c].pc \in {"scan", "insert", "unlock"}
VtopInside(p)  == vtop[p].pc \in {"stop_flag", "stop_size", "stop_free", "get_loop"}

(* The list is only ever scanned, shifted, drained or freed by the one     *)
(* CPU or caller that holds recent_cr3_lock: the critical sections of      *)
(* schedule() and of operations 2 and 3 exclude each other.                *)
MutualExclusion ==
  /\ \A c \in Cpus : SchedInside(c) <=> recent_cr3_lock = c
  /\ \A p \in Callers : VtopInside(p) <=> recent_cr3_lock = p

(* schedule() and operation 3 follow recent_cr3 without testing it.        *)
(* schedule() meets a null pointer only after a stop or a failed           *)
(* allocation; operation 3 also while another caller is between publishing *)
(* the size and the pointer in operation 1.  A single caller that starts   *)
(* once, successfully, and never stops is safe whatever the CPUs do.       *)
FaultCause ==
  fault => \/ stopped \/ nomem
           \/ recent_cr3_lock \in Callers /\ \E p \in Callers : vtop[p].pc = "init_alloc"

(* If the build loads sample_flag before recent_cr3_size, as the committed *)
(* schedule.o does, and nobody stops sampling, the size schedule() works   *)
(* with inside the lock is the length of the list, although it was read    *)
(* outside.  In the order of the source it need not be: a size of 0 may be *)
(* read before the start and the flag after it.                            *)
SizeNotStale ==
  FlagFirst /\ ~stopped =>
    \A c \in Cpus : sched[c].pc \in {"spin", "scan", "insert"} => sched[c].size = Size

\* what the list holds
Filled    == IF recent_cr3 = NULL THEN {} ELSE {i \in Index : recent_cr3[i] # 0}
Listing   == {recent_cr3[i] : i \in Filled}

\* The samples that wait: what a running operation 3 has copied out and the
\* slots that it has not reached or that nobody is draining.  The first are
\* newer, and a lower place in either is newer than a higher one.
Copied == UNION {Range(vtop[p].out) : p \in Callers}
Queue  == Copied \cup Listing
Newer  == {x \in Queue \X Queue :
             \/ x[1] \in Copied /\ x[2] \in Listing
             \/ \E p \in Callers : \E j, k \in DOMAIN vtop[p].out :
                  j < k /\ x = <<vtop[p].out[j], vtop[p].out[k]>>
             \/ \E i, j \in Filled : i < j /\ x = <<recent_cr3[i], recent_cr3[j]>>}

Trusted == trusted = "yes"
Samples == INSTANCE SampleSet WITH
  Values <- Cr3s, on <- Trusted, seen <- IF Trusted THEN since ELSE {},
  queue <- IF Trusted THEN Queue ELSE {}, newer <- IF Trusted THEN Newer ELSE {}

(* The scan, shift and store of schedule() and the slot by slot loop of    *)
(* operation 3 look, from the first drain on, like the atomic operations   *)
(* of a queue that keeps order and drops only its oldest value, and only   *)
(* when it must: no CR3 is returned twice, none that schedule() has not    *)
(* seen since the last drain, and none is lost while there is room.        *)
ActsAsQueue == Samples!SSpec

(* A holder of recent_cr3_lock gives it up, unless the hypervisor faults:  *)
(* every CPU that is in schedule() and every hypercall runs on.            *)
LockReleased == recent_cr3_lock # NoOne ~> recent_cr3_lock = NoOne \/ fault

(* What "stop sampling" promises: once operation 2 has returned, and       *)
(* before a new start, no CPU goes on to touch the list.                   *)
StopMeansStopped ==
  stopped /\ recent_cr3_size = 0 /\ recent_cr3 = NULL => \A c \in Cpus : ~SchedInside(c)
=============================================================================
