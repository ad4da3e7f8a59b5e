------------------------------ MODULE Analyzer ------------------------------
(***************************************************************************)
(* The Dom0 tool: main() of analyze.cpp and the functions of analyze.h it  *)
(* calls.  Every round it fetches the CR3s the hypervisor has sampled,     *)
(* adds up the pages of those it knows already, walks the page tables of   *)
(* all of them, and drops the tables of processes not seen for long.       *)
(*                                                                         *)
(* The tool is one thread.  What it reads is not its own: the list comes   *)
(* from the sampler, and the guest changes its page tables while they are  *)
(* walked, so every entry read is an arbitrary one.  A record keeps the    *)
(* fields of struct mapData unpacked (PageRecord has the packing): hi is   *)
(* bits 63 to 28 of paddr, lo is bits 27 to 1.                             *)
(***************************************************************************)
EXTENDS Integers, Sequences, FiniteSetsExt

CONSTANTS
  Cr3s,        \* CR3 values, as numbers: std::map iterates in their order
  Kernel,      \* the CR3 that walk_cr3_list() skips: 0x187000
  Vas,         \* virtual pages, each the first of a 2 MB region, none at 0
  Frames,      \* guest frame numbers
  Slots,       \* contents of swapped-out entries, shifted like frame numbers
  Garbage,     \* what uninitialised doubles may hold
  MaxInterval, \* MAX_ROUND_INTERVAL
  MaxList,     \* bound on the length of the list: RECENT_CR3_SIZE
  MaxRound     \* bound on the rounds explored

ASSUME AnalyzerAssumption ==
  /\ Cr3s \subseteq Nat /\ Vas \subseteq Nat /\ Garbage \subseteq Nat
  /\ Frames \subseteq Nat \ {0} /\ Slots \subseteq Nat \ {0}
  /\ MaxInterval \in Nat \ {0} /\ MaxList \in Nat /\ MaxRound \in Nat

Entry == [valid : {1}, huge : {0, 1}, val : Frames]
         \cup [valid : {0}, huge : {0}, val : Slots \cup {0}]
Skipped == [valid |-> 2]   \* the walk does not reach the page

Unset == -1                \* a round number not yet written

VARIABLES
  pc,            \* the next call of main()'s loop
  cr3_list,      \* the CR3s of this round
  next,          \* index into cr3_list of walk_cr3_list()'s loop
  data_map,      \* table of each known CR3: check, round, activity_page, h
  result,        \* the totals printed: <<invalid, valid>>
  global_round,
  walked,        \* history: CR3s whose table was walked since it was made
  visited,       \* history: pages visited since their table was last added up
  listed         \* history: the round in which a CR3 was last in the list

vars == <<pc, cr3_list, next, data_map, result, global_round, walked, visited, listed>>

Init ==
  /\ pc = "get"
  /\ cr3_list = <<>>
  /\ next = 1
  /\ data_map = <<>>
  /\ result = [v \in 0 .. 1 |-> 0]
  /\ global_round = 0
  /\ walked = {}
  /\ visited = {}
  /\ listed = [c \in Cr3s |-> Unset]

-----------------------------------------------------------------------------
\* get_cr3_hypercall(): the list may name a CR3 twice, as fresh memory may.
get_cr3_hypercall ==
  /\ pc = "get"
  /\ \E n \in 0 .. MaxList : cr3_list' \in [1 .. n -> Cr3s]
  /\ listed' = [c \in Cr3s |-> IF c \in Range(cr3_list') THEN global_round ELSE listed[c]]
  /\ pc' = "check"
  /\ UNCHANGED <<next, data_map, result, global_round, walked, visited>>

-----------------------------------------------------------------------------
\* A new table: check, activity_page and round are not initialised.
NewTables ==
  [check : {0, 1}, round : {Unset}, act : [0 .. 1 -> Garbage], h : {<<>>}]

Occurrences(c) == {k \in DOMAIN cr3_list : cr3_list[k] = c}

\* A CR3 that is known, or comes a second time, is marked.
check_cr3_list ==
  /\ pc = "check"
  /\ LET unknown == Range(cr3_list) \ DOMAIN data_map
     IN  \E fresh \in [unknown -> NewTables] :
           data_map' = [c \in DOMAIN data_map \cup unknown |->
             LET t == IF c \in unknown THEN fresh[c] ELSE data_map[c]
                 k == Cardinality(Occurrences(c)) + (IF c \in unknown THEN 0 ELSE 1)
             IN  IF k > 1 THEN [t EXCEPT !.check = 1] ELSE t]
  /\ pc' = "calc"
  /\ UNCHANGED <<cr3_list, next, result, global_round, walked, visited, listed>>

-----------------------------------------------------------------------------
(* calculate_all_page().                                                   *)

Checked == {c \in DOMAIN data_map : data_map[c].check = 1}
Places  == UNION {{<<c, va>> : va \in DOMAIN data_map[c].h} : c \in Checked}
Rec(x)  == data_map[x[1]].h[x[2]]

Before(x, y) == x[1] < y[1] \/ (x[1] = y[1] /\ x[2] < y[2])

\* A plausible slip: pages in swap are told apart from valid ones no more.
KeyPlain(r) == <<1, r.hi>>

\* The map and the key under which a page is stored: get_swap_id() takes all
\* of the bits above the huge bit.
Key(r) == IF r.valid = 1 THEN <<1, r.hi>> ELSE <<0, r.hi, r.lo>>

Counts(r) == r.valid = 1 \/ r.changed

Pages(r) == IF r.huge = 1 THEN 512 ELSE 1

\* A plausible slip: a page that is already stored is added again.
AddPageAlways(acc, x) ==
  LET r == Rec(x)
  IN  IF Counts(r)
      THEN [acc EXCEPT !.act[x[1]][r.valid] = @ + Pages(r) * r.weight]
      ELSE acc

AddPage(acc, x) ==
  LET r == Rec(x)
  IN  IF Counts(r) /\ Key(r) \notin acc.stored
      THEN [stored |-> acc.stored \cup {Key(r)},
            act |-> [acc.act EXCEPT ![x[1]][r.valid] = @ + Pages(r) * r.weight]]
      ELSE acc

Last(S) == CHOOSE x \in S : \A y \in S \ {x} : Before(y, x)

\* The pages in the order of the maps: the last is added to all of the others.
Added ==
  MapThenFoldSet(LAMBDA x, acc : AddPage(acc, x),
                 [stored |-> {}, act |-> [c \in DOMAIN data_map |-> data_map[c].act]],
                 LAMBDA x : x, Last, Places)

\* A plausible slip: the weight is kept.
DecayedNot(h) == h

\* weight is a short, and 1 * 0.9 becomes 0.
Decayed(h) == [va \in DOMAIN h |-> [h[va] EXCEPT !.weight = 0]]

calculate_all_page ==
  /\ pc = "calc"
  /\ LET act == Added.act
     IN  /\ result' = [v \in 0 .. 1 |-> MapThenSumSet(LAMBDA c : act[c][v], Checked)]
         /\ data_map' = [c \in DOMAIN data_map |->
              IF c \in Checked
              THEN [data_map[c] EXCEPT !.check = 0, !.act = act[c], !.h = Decayed(@)]
              ELSE [data_map[c] EXCEPT !.check = 0]]
  /\ visited' = {x \in visited : x[1] \notin Checked}
  /\ pc' = "walk"
  /\ next' = 1
  /\ UNCHANGED <<cr3_list, global_round, walked, listed>>

-----------------------------------------------------------------------------
(* walk_cr3_list() and page_walk_ia32e().                                  *)

Walking == pc = "walk" /\ next <= Len(cr3_list)
Cr3     == cr3_list[next]
Table   == [data_map[Cr3] EXCEPT !.check = 0, !.round = global_round]

\* compare_swap(); e is the entry read and junk the uninitialised word.
Compared(h, va, e, junk) ==
  LET old == IF va \in DOMAIN h THEN h[va]
             ELSE [valid |-> e.valid, changed |-> FALSE, hi |-> junk]
  IN  [valid   |-> e.valid,
       changed |-> old.changed \/ old.valid # e.valid,
       weight  |-> 1,
       hi      |-> IF e.valid = 1 THEN e.val ELSE old.hi,
       lo      |-> IF e.valid = 1 THEN 0 ELSE e.val,
       huge    |-> e.huge]

\* The Windows kernel is not walked.
WalkKernel ==
  /\ Walking
  /\ Cr3 = Kernel
  /\ data_map' = [data_map EXCEPT ![Cr3] = Table]
  /\ next' = next + 1
  /\ UNCHANGED <<pc, cr3_list, result, global_round, walked, visited, listed>>

\* The walk: counters are zeroed, then every entry that the walk reaches is
\* recorded.  An entry whose table is absent, or cannot be mapped, a 1 GB
\* page and a huge page of the kernel are skipped.
Walk ==
  /\ Walking
  /\ Cr3 # Kernel
  /\ \E seen \in [Vas -> Entry \cup {Skipped}] :
       LET h       == data_map[Cr3].h
           reached == {va \in Vas : seen[va] # Skipped}
           inswap  == {va \in reached \ DOMAIN h : seen[va].valid = 0}
       IN  /\ \E junk \in [inswap -> Frames \cup {0}] :
                data_map' = [data_map EXCEPT ![Cr3] = [Table EXCEPT
                  !.act = [v \in 0 .. 1 |-> 0],
                  !.h = [va \in DOMAIN h \cup reached |->
                           IF va \in reached
                           THEN Compared(h, va, seen[va], IF va \in inswap THEN junk[va] ELSE 0)
                           ELSE h[va]]]]
           /\ visited' = visited \cup {<<Cr3, va>> : va \in reached}
  /\ walked' = walked \cup {Cr3}
  /\ next' = next + 1
  /\ UNCHANGED <<pc, cr3_list, result, global_round, listed>>

\* The top table cannot be mapped: only the counters are zeroed.
WalkMapError ==
  /\ Walking
  /\ Cr3 # Kernel
  /\ data_map' = [data_map EXCEPT ![Cr3] = [Table EXCEPT !.act = [v \in 0 .. 1 |-> 0]]]
  /\ walked' = walked \cup {Cr3}
  /\ next' = next + 1
  /\ UNCHANGED <<pc, cr3_list, result, global_round, visited, listed>>

\* A bus error anywhere in the walk: the records are dropped.
WalkBusError ==
  /\ Walking
  /\ Cr3 # Kernel
  /\ data_map' = [data_map EXCEPT ![Cr3] =
                    [Table EXCEPT !.act = [v \in 0 .. 1 |-> 0], !.h = <<>>]]
  /\ visited' = {x \in visited : x[1] # Cr3}
  /\ walked' = walked \cup {Cr3}
  /\ next' = next + 1
  /\ UNCHANGED <<pc, cr3_list, result, global_round, listed>>

-----------------------------------------------------------------------------
\* A plausible slip: the round in which the table was walked counts too.
IntervalFrom(round, last) == round - last + 1

\* The number of rounds since a table was walked.  max_int, 2^32 - 1, is -1
\* once the difference is stored in an int.
Interval(round, last) == IF round > last THEN round - last ELSE -1 - last + round

\* global_round++ and retrieve_list().
retrieve_list ==
  /\ pc = "walk" /\ next > Len(cr3_list)
  /\ global_round < MaxRound
  /\ global_round' = global_round + 1
  /\ LET kept == {c \in DOMAIN data_map :
                    Interval(global_round + 1, data_map[c].round) < MaxInterval}
     IN  /\ data_map' = [c \in kept |-> data_map[c]]
         /\ walked' = walked \cap kept
         /\ visited' = {x \in visited : x[1] \in kept}
  /\ pc' = "get"
  /\ UNCHANGED <<cr3_list, next, result, listed>>

\* The bound on the rounds explored is reached.
Enough ==
  /\ pc = "walk" /\ next > Len(cr3_list)
  /\ global_round = MaxRound
  /\ UNCHANGED vars

Next ==
  \/ get_cr3_hypercall \/ check_cr3_list \/ calculate_all_page
  \/ WalkKernel \/ Walk \/ WalkMapError \/ WalkBusError
  \/ retrieve_list \/ Enough

Spec == Init /\ [][Next]_vars

-----------------------------------------------------------------------------
(* Properties.                                                             *)

Record ==
  [valid : {0, 1}, changed : BOOLEAN, weight : {0, 1}, hi : Frames \cup {0},
   lo : Slots \cup {0}, huge : {0, 1}]

(* Between rounds the tool keeps exactly the tables of the CR3s that were  *)
(* in a list during the last MAX_ROUND_INTERVAL rounds: none is dropped    *)
(* too early, none stays for ever, the skipped kernel included.            *)
KeptExactly ==
  pc = "get" =>
    DOMAIN data_map =
      {c \in Cr3s : listed[c] # Unset /\ global_round - listed[c] < MaxInterval}

(* A record has weight 1 exactly when the walk has passed the page since   *)
(* its table was last added up: nothing is counted twice on one visit, and *)
(* nothing that was visited is counted with weight 0.                      *)
FreshIsVisited ==
  {x \in UNION {{<<c, va>> : va \in DOMAIN data_map[c].h} : c \in DOMAIN data_map} :
     Rec(x).weight = 1} = visited

Valid(S)     == {x \in S : Rec(x).valid = 1}
Fresh        == {x \in Places : Rec(x).weight = 1}
FramesOf(S)  == {Rec(x).hi : x \in S}
Sizes(S, f)  == {Pages(Rec(x)) : x \in {y \in S : Rec(y).hi = f}}

(* When the tables added up have all been walked, ValidMemory counts a     *)
(* frame at most once, however many processes map it, and only if some     *)
(* process was seen to map it in its last walk.                            *)
CountedOnce ==
  [][calculate_all_page /\ Checked \subseteq walked =>
       result'[1] <= MapThenSumSet(LAMBDA f : Max(Sizes(Valid(Fresh), f)),
                                   FramesOf(Valid(Fresh)))]_vars

(* When moreover no record in them is left over from an earlier walk, no   *)
(* frame is missed.                                                        *)
CountedAll ==
  [][calculate_all_page /\ Checked \subseteq walked /\ Places = Fresh =>
       result'[1] >= MapThenSumSet(LAMBDA f : Min(Sizes(Valid(Fresh), f)),
                                   FramesOf(Valid(Fresh)))]_vars
=============================================================================
