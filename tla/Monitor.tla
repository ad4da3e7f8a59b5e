------------------------------- MODULE Monitor -------------------------------
(***************************************************************************)
(* The whole monitor: the tool in Dom0 (main() of analyze.cpp, the two     *)
(* hypercall wrappers of analyze.h) composed with the sampler in the       *)
(* hypervisor.  The tool is the only caller of vt_op.  It starts sampling, *)
(* then fetches and visits for ever, and may be killed and started again   *)
(* at any time; the sampler lives on.  A signal that kills the tool inside *)
(* a hypercall takes effect when the hypercall returns.                    *)
(***************************************************************************)
EXTENDS Cr3Sampler

CONSTANTS
  Stray,    \* what list_size may hold before its first assignment
  MaxKills  \* bound: how often the tool dies

ASSUME MonitorAssumption == Stray \subseteq Nat /\ MaxKills \in Nat

VARIABLES
  tool,       \* where main() is
  cr3_list,   \* the CR3s the tool has fetched and not visited yet
  list_size,
  first,      \* get_cr3_hypercall() has not been called in this run
  top, last,  \* highest index of cr3_list that a CR3, and that a 0, was
              \* stored at in the last call
  drains,     \* history: whole drains of this list, up to 2
  pushed,     \* history: CR3s that fell out of the list since the last drain
  dropped,    \* history: CR3s that the tool had when it was last killed
  kills,
  again       \* history: a tool was started after one could not allocate

tvars == <<tool, cr3_list, list_size, first, top, last, drains, pushed, dropped, kills, again>>
mvars == <<vars, tvars>>

MInit ==
  /\ Init
  /\ tool = "off" /\ cr3_list = <<>> /\ list_size = 0 /\ first = TRUE
  /\ top = 0 /\ last = 0 /\ drains = 0 /\ pushed = {} /\ dropped = {} /\ kills = 0
  /\ again = FALSE

\* schedule(), with what an insertion shifts out of the list
CpuStep(c) ==
  /\ Sched(c)
  /\ pushed' = IF SchedInsert(c) THEN pushed \cup (Listing \ {recent_cr3'[i] : i \in Index})
               ELSE pushed
  /\ UNCHANGED <<tool, cr3_list, list_size, first, top, last, drains, dropped, kills, again>>

\* main() up to init_hypercall(): cr3_list and list_size are not initialised.
Start ==
  /\ ~fault /\ tool = "off"
  /\ tool' = "start" /\ cr3_list' = <<>> /\ list_size' \in Stray /\ first' = TRUE
  /\ again' = (again \/ nomem) /\ dropped' = {}
  /\ UNCHANGED <<vars, top, last, drains, pushed, kills>>

\* Only -1 is an error: a refused start (1) goes on to the loop.
InitHypercall(p) ==
  /\ \/ tool = "start" /\ InitRefused(p) /\ tool' = "loop" /\ UNCHANGED drains
     \/ tool = "start" /\ InitCheck(p) /\ tool' = "init" /\ UNCHANGED drains
     \/ InitSize(p) /\ UNCHANGED <<tool, drains>>
     \/ InitAlloc(p) /\ drains' = 0 /\ UNCHANGED tool
     \/ InitNoMem(p) /\ tool' = "off" /\ UNCHANGED drains
     \/ InitFlag(p) /\ tool' = "loop" /\ UNCHANGED drains
  /\ UNCHANGED <<cr3_list, list_size, first, top, last, pushed, dropped, kills, again>>

\* A plausible slip: the count is added to list_size.
ReceiveAdds(p) ==
  /\ GetDone(p)
  /\ cr3_list' = vtop[p].out /\ list_size' = list_size + Len(vtop[p].out)
  /\ top' = list_size' /\ last' = list_size' + 2
  /\ first' = FALSE /\ drains' = IF drains < 2 THEN drains + 1 ELSE 2
  /\ pushed' = {} /\ tool' = "walk"

\* After the drain, which stored the count at 0 and the CR3s from 1 on, the
\* CR3s move down by one; i is list_size + 1 when cr3_list[i + 1] is cleared.
Receive(p) ==
  /\ GetDone(p)
  /\ cr3_list' = vtop[p].out /\ list_size' = Len(vtop[p].out)
  /\ top' = list_size' /\ last' = list_size' + 2
  /\ first' = FALSE /\ drains' = IF drains < 2 THEN drains + 1 ELSE 2
  /\ pushed' = {} /\ tool' = "walk"

\* the loop that clears what the last call left, then operation 3
GetCr3Hypercall(p) ==
  \/ /\ tool = "loop" /\ GetCall(p)
     /\ tool' = "get" /\ last' = list_size - 1
     /\ UNCHANGED <<cr3_list, list_size, first, top, drains, pushed, dropped, kills, again>>
  \/ (GetLock(p) \/ GetSlot(p) \/ GetFault(p)) /\ UNCHANGED tvars
  \/ Receive(p) /\ UNCHANGED <<dropped, kills, again>>

\* A plausible slip: a round visits the head of the list and no more.
WalkHead ==
  /\ ~fault /\ tool = "walk"
  /\ cr3_list' = <<>>
  /\ tool' = "loop"
  /\ UNCHANGED <<vars, list_size, first, top, last, drains, pushed, dropped, kills, again>>

\* walk_cr3_list(): one process after the other, then the next round
Walk ==
  /\ ~fault /\ tool = "walk"
  /\ cr3_list' = IF cr3_list = <<>> THEN cr3_list ELSE Tail(cr3_list)
  /\ tool' = IF cr3_list = <<>> THEN "loop" ELSE "walk"
  /\ UNCHANGED <<vars, list_size, first, top, last, drains, pushed, dropped, kills, again>>

Kill ==
  /\ ~fault /\ tool \in {"start", "loop", "walk"} /\ kills < MaxKills
  /\ tool' = "off" /\ kills' = kills + 1
  /\ dropped' = Range(cr3_list) /\ cr3_list' = <<>>
  /\ UNCHANGED <<vars, list_size, first, top, last, drains, pushed, again>>

ToolStep == Walk \/ \E p \in Callers : InitHypercall(p) \/ GetCr3Hypercall(p)

MDown == Down /\ UNCHANGED tvars

MNext == (\E c \in Cpus : CpuStep(c)) \/ Start \/ ToolStep \/ Kill \/ MDown

MSpec == MInit /\ [][MNext]_mvars

\* The tool runs as long as it lives, and a spin lock that is free again and
\* again is taken; nothing is assumed of how often a CPU schedules.
MFairness ==
  /\ SF_mvars(ToolStep)
  /\ \A c \in Cpus : WF_mvars(CpuStep(c) /\ SchedInside(c))

MFairSpec == MSpec /\ MFairness

-----------------------------------------------------------------------------
(* With this tool as the only caller, the hypervisor does not fall, in     *)
(* whatever order schedule() and the tool run and whenever the tool is     *)
(* killed, until a tool is started again after one that was told that      *)
(* there is no memory: that one is refused, takes this for success and     *)
(* drains a list that is not there.                                        *)
FallsOnlyAfterNoMem == fault => nomem /\ again

(* Old memory, which a new list is filled with, reaches the tool in the    *)
(* first drain and never again, restarts included.                         *)
JunkOnce == Range(cr3_list) \cap Junk # {} => drains = 1

(* cr3_list has Size words, and get_cr3_hypercall() stores beyond them.    *)
(* Except for the first call, which clears as many words as an             *)
(* uninitialised list_size says, it stores at most one CR3 there, at word  *)
(* Size, and zeros not beyond word Size + 2.                               *)
Overrun == ~first => top <= Size /\ last <= Size + 2

(* End to end: a CR3 that schedule() put into the list is visited by       *)
(* walk_cr3_list(), if tools are started for ever, unless it fell out of a *)
(* full list or a tool was killed that had fetched it.                     *)
EventuallyVisited ==
  []<>(tool # "off") =>
    \A v \in Cr3s :
      v \in Listing ~> \/ tool = "walk" /\ cr3_list # <<>> /\ Head(cr3_list) = v
                       \/ v \in pushed \cup dropped
                       \/ fault
=============================================================================
