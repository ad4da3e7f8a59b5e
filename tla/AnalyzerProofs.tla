-------------------------- MODULE AnalyzerProofs --------------------------
(***************************************************************************)
(* Proofs about the Dom0 tool.                                             *)
(*                                                                         *)
(* PageRecord: what the packed fields hold, for every entry and whatever   *)
(* the uninitialised word on the stack held, and the counter of            *)
(* transitions up to its limit.                                            *)
(* Analyzer: which tables the tool keeps, and which records have weight,   *)
(* for any number of rounds, processes and pages.                          *)
(* Both: the unpacked record of Analyzer is the packed one of PageRecord.  *)
(***************************************************************************)
EXTENDS Analyzer, PageRecord, TLAPS

\* The set of frame numbers: 36 bits.
FrameNumber == SUBSET (0 .. 35)

(* The mask and shift of compare_swap() give a number of 36 bits.          *)
LEMMA FrameOfType ==
  ASSUME NEW pte \in Word
  PROVE  FrameOf(pte) \in FrameNumber
BY DEF FrameOf, FrameNumber, ShiftRight, Bit, Word

(* The saving operations yield words.                                      *)
LEMMA SaveType ==
  ASSUME NEW w \in Word, NEW val \in Word
  PROVE  /\ save_paddr(w, val) \in Word
         /\ save_swap_paddr(w, val) \in Word
         /\ save_huge_bit(w, val) \in Word
BY ZenonT(60) DEF save_paddr, save_swap_paddr, save_huge_bit, clear_bit, ShiftLeft, Word, Bit

(* get_paddr() reads back what save_paddr() stored, whatever the word held *)
(* before, and save_huge_bit() in between does not disturb it.             *)
THEOREM PaddrRoundTrip ==
  ASSUME NEW w \in Word, NEW f \in FrameNumber, NEW huge \in SUBSET {0}
  PROVE  /\ get_paddr(save_huge_bit(save_paddr(w, f), huge)) = f
         /\ get_huge_bit(save_huge_bit(save_paddr(w, f), huge)) = huge
<1> DEFINE x == save_huge_bit(save_paddr(w, f), huge)
<1>1. \A b \in 28 .. 63 : b \in x <=> b - 28 \in f
  BY DEF save_huge_bit, save_paddr, clear_bit, ShiftLeft, Bit, Word, FrameNumber
<1>2. 0 \in x <=> 0 \in huge
  BY DEF save_huge_bit, save_paddr, clear_bit, ShiftLeft, Bit, Word, FrameNumber
<1> HIDE DEF x
<1>3. \A b \in Bit : b \in get_paddr(x) <=> b \in f
  BY <1>1 DEF get_paddr, get_bit, ShiftRight, Bit, FrameNumber
<1>4. \A b \in Bit : b \in get_huge_bit(x) <=> b \in huge
  BY <1>2 DEF get_huge_bit, get_bit, ShiftRight, Bit
<1>5. get_paddr(x) \subseteq Bit /\ get_huge_bit(x) \subseteq Bit /\ f \subseteq Bit /\ huge \subseteq Bit
  BY DEF get_paddr, get_huge_bit, get_bit, ShiftRight, Bit, FrameNumber
<1>6. get_paddr(x) = f /\ get_huge_bit(x) = huge
  BY <1>3, <1>4, <1>5, ZenonT(60)
<1> QED
  BY <1>6 DEF x

(* save_swap_paddr() leaves the frame number, its lowest bit apart.        *)
LEMMA SwapKeepsFrame ==
  ASSUME NEW w \in Word, NEW val \in Word, NEW huge \in SUBSET {0}
  PROVE  LET x == save_huge_bit(save_swap_paddr(w, val), huge)
         IN  get_paddr(w) \subseteq get_paddr(x) /\ get_paddr(x) \subseteq get_paddr(w) \cup {0}
<1> DEFINE x == save_huge_bit(save_swap_paddr(w, val), huge)
<1>1. \A b \in 29 .. 63 : b \in x <=> b \in w
  BY DEF save_huge_bit, save_swap_paddr, clear_bit, ShiftLeft, Bit, Word
<1>2. 28 \in w => 28 \in x
  BY DEF save_huge_bit, save_swap_paddr, clear_bit, ShiftLeft, Bit, Word
<1> HIDE DEF x
<1>3. \A b \in Bit : /\ b \in get_paddr(w) => b \in get_paddr(x)
                     /\ b \in get_paddr(x) => b \in get_paddr(w) \/ b = 0
  BY <1>1, <1>2 DEF get_paddr, get_bit, ShiftRight, Bit
<1>4. get_paddr(x) \subseteq Bit /\ get_paddr(w) \subseteq Bit
  BY DEF get_paddr, get_bit, ShiftRight, Bit
<1>5. get_paddr(w) \subseteq get_paddr(x) /\ get_paddr(x) \subseteq get_paddr(w) \cup {0}
  BY <1>3, <1>4
<1> QED
  BY <1>5 DEF x

-----------------------------------------------------------------------------
(* The counter.                                                            *)

\* what an entry or a record has in its valid bit
ValidBit == {0, 1}

(* One more transition: the number grows by one until 127 and then stays;  *)
(* the valid bit is the one given.                                         *)
LEMMA SeenCounts ==
  ASSUME NEW value \in 0 .. 255, NEW valid_bit \in ValidBit
  PROVE  /\ Seen(value, valid_bit) \in 0 .. 255
         /\ Seen(value, valid_bit) % 2 = valid_bit
         /\ get_change_number(Seen(value, valid_bit)) =
              IF value % 2 = valid_bit \/ get_change_number(value) = 127
              THEN get_change_number(value) ELSE get_change_number(value) + 1
<1> DEFINE n == get_change_number(value)
<1> USE DEF ValidBit
<1>1. n \in 0 .. 127
  BY DEF get_change_number
<1>2. \A k \in 0 .. 127, v \in {0, 1} :
        /\ get_change_number(2 * k + v) = k
        /\ (2 * k + v) % 2 = v
        /\ 2 * k + v \in 0 .. 255
  BY DEF get_change_number
<1>3. value % 2 \in {0, 1} /\ value = 2 * n + (value % 2)
  BY SMTT(30) DEF get_change_number
<1>4. CASE n < 127
  <2>1. add_change_number(value) = 2 * (n + 1) + (value % 2)
    BY <1>1, <1>4 DEF add_change_number
  <2>2. get_change_number(add_change_number(value)) = n + 1
    BY <1>1, <1>2, <1>3, <1>4, <2>1
  <2>3. CASE value % 2 = valid_bit
    BY <1>1, <1>4, <2>3, SMTT(30) DEF Seen
  <2>4. CASE value % 2 # valid_bit
    <3>1. Seen(value, valid_bit) = 2 * (n + 1) + valid_bit /\ n + 1 \in 0 .. 127
      BY <1>1, <1>4, <2>2, <2>4, SMTT(30) DEF Seen
    <3> HIDE DEF n
    <3> QED
      BY <1>2, <1>4, <2>4, <3>1 DEF n
  <2> QED
    BY <2>3, <2>4
<1>5. CASE n = 127
  BY <1>1, <1>2, <1>3, <1>5 DEF Seen, add_change_number
<1>6. n < 127 \/ n = 127
  BY ONLY <1>1, SMTT(30)
<1> QED
  BY <1>4, <1>5, <1>6, ZenonT(60)

-----------------------------------------------------------------------------
(* The record through any sequence of visits.                              *)

PackedRecord == [present_times : 0 .. 255, weight : {0, 1}, paddr : Word]

LEMMA NoRecordIsNone == NoRecord \notin PackedRecord
BY RecordAssumption DEF PackedRecord

LEMMA PresentType ==
  ASSUME NEW pte
  PROVE  entry_present(pte) \in {0, 1} /\ (entry_present(pte) = 1 <=> 0 \in pte)
BY DEF entry_present

(* What a visit leaves, whether it finds a record or makes one: a record   *)
(* with the present bit of the entry and, when that is 1, its frame number *)
(* and huge bit.                                                           *)
LEMMA VisitRecords ==
  ASSUME TypeOK, NEW pte \in Ptes, NEW huge \in SUBSET {0}, compare_swap(pte, huge)
  PROVE  /\ rec' \in PackedRecord
         /\ rec'.present_times % 2 = entry_present(pte)
         /\ 0 \in pte => get_paddr(rec'.paddr) = FrameOf(pte) /\ get_huge_bit(rec'.paddr) = huge
<1> DEFINE v == entry_present(pte)
           f == FrameOf(pte)
           packed(w) == save_huge_bit(IF v = 1 THEN save_paddr(w, f) ELSE save_swap_paddr(w, f), huge)
<1>1. v \in {0, 1} /\ (v = 1 <=> 0 \in pte)
  BY PresentType
<1>2. f \in FrameNumber /\ f \in Word /\ huge \in Word
  BY FrameOfType, RecordAssumption DEF FrameNumber, Word, Bit
<1>3. ASSUME NEW w \in Word
      PROVE  packed(w) \in Word /\ (v = 1 => get_paddr(packed(w)) = f /\ get_huge_bit(packed(w)) = huge)
  BY <1>1, <1>2, SaveType, PaddrRoundTrip
<1>4. CASE rec = NoRecord
  <2>1. PICK junk \in Stack : rec' = NewRecord(junk, pte, v, huge)
    BY <1>4 DEF compare_swap
  <2>2. junk \in Word
    BY RecordAssumption
  <2>3. rec' = [present_times |-> v, weight |-> 1, paddr |-> packed(junk)]
    BY <2>1 DEF NewRecord
  <2> HIDE DEF packed, v, f
  <2>4. v \in 0 .. 255 /\ v % 2 = v
    BY <1>1
  <2>5. rec' \in PackedRecord /\ rec'.present_times = v /\ rec'.paddr = packed(junk)
    BY <1>3, <2>2, <2>3, <2>4 DEF PackedRecord
  <2> QED
    BY <1>1, <1>3, <2>2, <2>4, <2>5 DEF v, f
<1>5. CASE rec # NoRecord
  <2>1. rec \in PackedRecord
    BY <1>5 DEF TypeOK, PackedRecord
  <2>2. rec' = [present_times |-> Seen(rec.present_times, v), weight |-> 1, paddr |-> packed(rec.paddr)]
    BY <1>5 DEF compare_swap, Revisited
  <2>3. rec.present_times \in 0 .. 255 /\ rec.paddr \in Word
    BY <2>1 DEF PackedRecord
  <2> HIDE DEF packed, v, f
  <2>4. Seen(rec.present_times, v) \in 0 .. 255 /\ Seen(rec.present_times, v) % 2 = v
    <3>1. v \in ValidBit
      BY <1>1 DEF ValidBit
    <3> QED
      BY ONLY <2>3, <3>1, SeenCounts, ZenonT(60)
  <2>5. rec' \in PackedRecord /\ rec'.present_times % 2 = v /\ rec'.paddr = packed(rec.paddr)
    BY <1>3, <2>2, <2>3, <2>4, SMTT(30) DEF PackedRecord
  <2> QED
    BY <1>1, <1>3, <2>3, <2>5 DEF v, f
<1> QED
  BY <1>4, <1>5

LEMMA TypeStep == TypeOK /\ [RNext]_rvars => TypeOK'
<1> SUFFICES ASSUME TypeOK, [RNext]_rvars PROVE TypeOK'
  OBVIOUS
<1>1. ASSUME NEW pte \in Ptes, NEW huge \in {{}, {0}}, compare_swap(pte, huge)
      PROVE  TypeOK'
  <2>1. rec' \in PackedRecord
    BY <1>1, VisitRecords
  <2>2. FrameOf(pte) \in Word /\ pte \in Word
    BY FrameOfType, RecordAssumption, SMTT(30) DEF FrameNumber, Word, Bit
  <2>3. last' \in [pte : Word, huge : SUBSET {0}] /\ frame' \in Word
    BY <1>1, <2>2 DEF compare_swap, TypeOK, Word
  <2>4. flips' \in 0 .. MaxFlips
    BY <1>1, RecordAssumption DEF compare_swap, TypeOK
  <2> QED
    BY <2>1, <2>3, <2>4 DEF TypeOK, PackedRecord
<1>2. CASE Decay
  BY <1>2 DEF Decay, RecordDecayed, TypeOK
<1>3. CASE Forget
  BY <1>3, RecordAssumption DEF Forget, TypeOK, Word
<1>4. CASE UNCHANGED rvars
  BY <1>4 DEF rvars, TypeOK
<1> QED
  BY <1>1, <1>2, <1>3, <1>4 DEF RNext

LEMMA TypeInit == RInit => TypeOK
BY RecordAssumption DEF RInit, TypeOK, Word

(* The record and its history keep their types.                            *)
THEOREM TypeCorrect == RSpec => []TypeOK
BY TypeInit, TypeStep, PTL DEF RSpec

LEMMA FrameStep == TypeOK /\ FrameRecorded /\ [RNext]_rvars => FrameRecorded'
<1> SUFFICES ASSUME TypeOK, FrameRecorded, [RNext]_rvars PROVE FrameRecorded'
  BY SMTT(30)
<1>1. ASSUME NEW pte \in Ptes, NEW huge \in {{}, {0}}, compare_swap(pte, huge)
      PROVE  FrameRecorded'
  <2>1. last' = [pte |-> pte, huge |-> huge]
    BY <1>1 DEF compare_swap
  <2> QED
    BY <1>1, <2>1, VisitRecords, PresentType DEF FrameRecorded
<1>2. CASE Decay
  BY <1>2 DEF Decay, RecordDecayed, TypeOK, FrameRecorded, Kept
<1>3. CASE Forget
  BY <1>3 DEF Forget, FrameRecorded, Kept
<1>4. CASE UNCHANGED rvars
  BY <1>4 DEF rvars, FrameRecorded, Kept
<1> QED
  BY <1>1, <1>2, <1>3, <1>4 DEF RNext

(* For every set of entries and whatever the stack held: the record of a   *)
(* page last seen present yields the frame number and the huge bit of that *)
(* entry.                                                                  *)
THEOREM FrameCorrect == RSpec => []FrameRecorded
<1>1. RInit => FrameRecorded
  BY DEF RInit, FrameRecorded, Kept
<1> QED
  BY <1>1, FrameStep, TypeCorrect, PTL DEF RSpec

LEMMA ChangesStep == TypeOK /\ ChangesCounted /\ [RNext]_rvars => ChangesCounted'
<1> SUFFICES ASSUME TypeOK, ChangesCounted, [RNext]_rvars PROVE ChangesCounted'
  OBVIOUS
<1>1. ASSUME NEW pte \in Ptes, NEW huge \in {{}, {0}}, compare_swap(pte, huge)
      PROVE  ChangesCounted'
  <2> DEFINE v == entry_present(pte)
  <2>1. rec' \in PackedRecord /\ rec'.present_times % 2 = v /\ last'.pte = pte
    BY <1>1, VisitRecords DEF compare_swap
  <2>2. CASE rec = NoRecord
    <3>1. rec'.present_times = v /\ flips' = 0
      BY <1>1, <2>2 DEF compare_swap, NewRecord
    <3>2. v \in {0, 1}
      BY PresentType
    <3>3. get_change_number(v) = 0
      BY <3>2 DEF get_change_number
    <3> QED
      BY <2>1, <3>1, <3>3 DEF ChangesCounted
  <2>3. CASE rec # NoRecord
    <3> DEFINE old == rec.present_times
               n   == get_change_number(old)
    <3>1. rec'.present_times = Seen(old, v)
      BY <1>1, <2>3, SMTT(30) DEF compare_swap, Revisited
    <3>2. old \in 0 .. 255 /\ v \in {0, 1} /\ flips \in Nat
      BY <2>3, PresentType, RecordAssumption DEF TypeOK
    <3>3. old % 2 = entry_present(last.pte) /\ n = IF flips < 127 THEN flips ELSE 127
      BY <2>3 DEF ChangesCounted, Kept
    <3>4. get_change_number(Seen(old, v)) = IF old % 2 = v \/ n = 127 THEN n ELSE n + 1
      <4>1. v \in ValidBit
        BY <3>2 DEF ValidBit
      <4> HIDE DEF old, v
      <4> QED
        BY ONLY <3>2, <4>1, SeenCounts, ZenonT(60) DEF n
    <3>5. flips' = IF old % 2 = v THEN flips ELSE flips + 1
      <4>1. (0 \in pte) = (0 \in last.pte) <=> old % 2 = v
        BY <3>3, PresentType DEF entry_present
      <4> QED
        BY <1>1, <2>3, <4>1 DEF compare_swap
    <3>6. get_change_number(rec'.present_times) = IF flips' < 127 THEN flips' ELSE 127
      <4> HIDE DEF n, old, v
      <4> QED
        BY <3>1, <3>2, <3>3, <3>4, <3>5
    <3> QED
      BY <2>1, <3>6 DEF ChangesCounted
  <2> QED
    BY <2>2, <2>3
<1>2. CASE Decay
  BY <1>2 DEF Decay, RecordDecayed, TypeOK, ChangesCounted, Kept
<1>3. CASE Forget
  BY <1>3 DEF Forget, ChangesCounted, Kept
<1>4. CASE UNCHANGED rvars
  BY <1>4 DEF rvars, ChangesCounted, Kept
<1> QED
  BY <1>1, <1>2, <1>3, <1>4 DEF RNext

(* However often the page changes, the byte holds its present bit and the  *)
(* number of transitions, saturated at 127.                                *)
THEOREM ChangesCorrect == RSpec => []ChangesCounted
<1>1. RInit => ChangesCounted
  BY DEF RInit, ChangesCounted, Kept
<1> QED
  BY <1>1, ChangesStep, TypeCorrect, PTL DEF RSpec

LEMMA RememberedStep ==
  TypeOK /\ FrameRemembered /\ ChangesCounted /\ [RNext]_rvars => FrameRemembered'
<1> SUFFICES ASSUME TypeOK, FrameRemembered, ChangesCounted, [RNext]_rvars PROVE FrameRemembered'
  OBVIOUS
<1>1. ASSUME NEW pte \in Ptes, NEW huge \in {{}, {0}}, compare_swap(pte, huge)
      PROVE  FrameRemembered'
  <2>1. last'.pte = pte
    BY <1>1 DEF compare_swap
  <2>2. CASE 0 \in pte
    <3>1. get_paddr(rec'.paddr) = FrameOf(pte) /\ frame' = FrameOf(pte)
      BY <1>1, <2>2, VisitRecords DEF compare_swap
    <3> QED
      BY <3>1, SMTT(30) DEF FrameRemembered
  <2>3. CASE 0 \notin pte /\ rec = NoRecord
    BY <1>1, <2>1, <2>3 DEF compare_swap, FrameRemembered
  <2>4. CASE 0 \notin pte /\ rec # NoRecord
    <3>1. /\ frame' = frame
          /\ rec'.paddr = save_huge_bit(save_swap_paddr(rec.paddr, FrameOf(pte)), huge)
          /\ flips' = IF (0 \in pte) = (0 \in last.pte) THEN flips ELSE flips + 1
      BY <1>1, <2>4, PresentType DEF compare_swap, Revisited
    <3>2. rec.paddr \in Word /\ FrameOf(pte) \in Word
      BY <2>4, FrameOfType, RecordAssumption, SMTT(30) DEF TypeOK, FrameNumber, Word, Bit
    <3>3. /\ get_paddr(rec.paddr) \subseteq get_paddr(rec'.paddr)
          /\ get_paddr(rec'.paddr) \subseteq get_paddr(rec.paddr) \cup {0}
      BY <3>1, <3>2, SwapKeepsFrame
    <3>4. flips' > 0 => 0 \in last.pte \/ flips > 0
      BY <2>4, <3>1
    <3> QED
      BY <2>1, <2>4, <3>1, <3>3, <3>4 DEF FrameRemembered, Kept
  <2> QED
    BY <2>2, <2>3, <2>4, SMTT(30)
<1>2. CASE Decay
  BY <1>2 DEF Decay, RecordDecayed, TypeOK, FrameRemembered, Kept
<1>3. CASE Forget
  BY <1>3 DEF Forget, FrameRemembered, Kept
<1>4. CASE UNCHANGED rvars
  BY <1>4 DEF rvars, FrameRemembered, Kept
<1> QED
  BY <1>1, <1>2, <1>3, <1>4 DEF RNext

(* A page that was seen present keeps its frame number, the lowest bit     *)
(* apart, through any number of visits that find it swapped out.           *)
THEOREM RememberedCorrect == RSpec => []FrameRemembered
<1>1. RInit => FrameRemembered
  BY DEF RInit, FrameRemembered, Kept
<1> QED
  BY <1>1, RememberedStep, TypeCorrect, ChangesCorrect, PTL DEF RSpec

-----------------------------------------------------------------------------
(* The tables of the tool.                                                 *)

\* A table and a record have their fields, whatever these hold.
IsTable(t) == t = [check |-> t.check, round |-> t.round, act |-> t.act, h |-> t.h]
IsRecord(r) ==
  r = [valid |-> r.valid, changed |-> r.changed, weight |-> r.weight,
       hi |-> r.hi, lo |-> r.lo, huge |-> r.huge]

Tables ==
  /\ DOMAIN data_map \subseteq Cr3s
  /\ \A c \in DOMAIN data_map : IsTable(data_map[c])
  /\ \A c \in DOMAIN data_map : \A va \in DOMAIN data_map[c].h : IsRecord(data_map[c].h[va])

\* The loop of main(); the list is in the map once it has been checked.
Loop ==
  /\ pc \in {"get", "check", "calc", "walk"}
  /\ cr3_list \in Seq(Cr3s)
  /\ next \in Nat \ {0}
  /\ global_round \in Nat
  /\ pc \in {"calc", "walk"} => \A k \in 1 .. Len(cr3_list) : cr3_list[k] \in DOMAIN data_map

\* When a CR3 was listed last, and what that says of its table.
Due(c) == listed[c] # Unset /\ global_round - listed[c] < MaxInterval
InList(c) == \E k \in 1 .. Len(cr3_list) : cr3_list[k] = c

Listed ==
  /\ listed \in [Cr3s -> Int]
  /\ \A c \in Cr3s : Unset <= listed[c] /\ listed[c] <= global_round
  /\ pc # "get" => \A c \in Cr3s : InList(c) => listed[c] = global_round

Rounds ==
  /\ \A c \in Cr3s : pc # "check" \/ ~InList(c) => (c \in DOMAIN data_map <=> Due(c))
  /\ \A c \in DOMAIN data_map : pc = "get" \/ ~InList(c) => data_map[c].round = listed[c]
  /\ pc = "walk" =>
       \A k \in 1 .. Len(cr3_list) : k < next => data_map[cr3_list[k]].round = global_round

TInv == Tables /\ Loop /\ Listed /\ Rounds

(* Assigning a field of a table leaves the others.                         *)
LEMMA SetCheck ==
  ASSUME NEW t, IsTable(t), NEW v
  PROVE  LET u == [t EXCEPT !.check = v]
         IN  IsTable(u) /\ u.check = v /\ u.round = t.round /\ u.act = t.act /\ u.h = t.h
<1>1. ASSUME NEW a, NEW b, NEW c, NEW d
      PROVE  [[check |-> a, round |-> b, act |-> c, h |-> d] EXCEPT !.check = v]
               = [check |-> v, round |-> b, act |-> c, h |-> d]
  OBVIOUS
<1>2. [t EXCEPT !.check = v] = [check |-> v, round |-> t.round, act |-> t.act, h |-> t.h]
  BY <1>1 DEF IsTable
<1> QED
  BY <1>2 DEF IsTable

LEMMA SetRound ==
  ASSUME NEW t, IsTable(t), NEW v
  PROVE  LET u == [t EXCEPT !.round = v]
         IN  IsTable(u) /\ u.round = v /\ u.act = t.act /\ u.h = t.h
<1>1. ASSUME NEW a, NEW b, NEW c, NEW d
      PROVE  [[check |-> a, round |-> b, act |-> c, h |-> d] EXCEPT !.round = v]
               = [check |-> a, round |-> v, act |-> c, h |-> d]
  OBVIOUS
<1>2. [t EXCEPT !.round = v] = [check |-> t.check, round |-> v, act |-> t.act, h |-> t.h]
  BY <1>1 DEF IsTable
<1> QED
  BY <1>2 DEF IsTable

LEMMA SetAct ==
  ASSUME NEW t, IsTable(t), NEW v
  PROVE  LET u == [t EXCEPT !.act = v]
         IN  IsTable(u) /\ u.round = t.round /\ u.act = v /\ u.h = t.h
<1>1. ASSUME NEW a, NEW b, NEW c, NEW d
      PROVE  [[check |-> a, round |-> b, act |-> c, h |-> d] EXCEPT !.act = v]
               = [check |-> a, round |-> b, act |-> v, h |-> d]
  OBVIOUS
<1>2. [t EXCEPT !.act = v] = [check |-> t.check, round |-> t.round, act |-> v, h |-> t.h]
  BY <1>1 DEF IsTable
<1> QED
  BY <1>2 DEF IsTable

LEMMA SetH ==
  ASSUME NEW t, IsTable(t), NEW v
  PROVE  LET u == [t EXCEPT !.h = v]
         IN  IsTable(u) /\ u.round = t.round /\ u.act = t.act /\ u.h = v
<1>1. ASSUME NEW a, NEW b, NEW c, NEW d
      PROVE  [[check |-> a, round |-> b, act |-> c, h |-> d] EXCEPT !.h = v]
               = [check |-> a, round |-> b, act |-> c, h |-> v]
  OBVIOUS
<1>2. [t EXCEPT !.h = v] = [check |-> t.check, round |-> t.round, act |-> t.act, h |-> v]
  BY <1>1 DEF IsTable
<1> QED
  BY <1>2 DEF IsTable

(* weight * 0.9 becomes 0, and the rest of the record stays.               *)
LEMMA SetWeight ==
  ASSUME NEW r, IsRecord(r)
  PROVE  LET u == [r EXCEPT !.weight = 0] IN IsRecord(u) /\ u.weight = 0
<1>1. ASSUME NEW a, NEW b, NEW c, NEW d, NEW e, NEW f
      PROVE  [[valid |-> a, changed |-> b, weight |-> c, hi |-> d, lo |-> e, huge |-> f] EXCEPT !.weight = 0]
               = [valid |-> a, changed |-> b, weight |-> 0, hi |-> d, lo |-> e, huge |-> f]
  OBVIOUS
<1>2. [r EXCEPT !.weight = 0] =
        [valid |-> r.valid, changed |-> r.changed, weight |-> 0, hi |-> r.hi, lo |-> r.lo, huge |-> r.huge]
  BY <1>1 DEF IsRecord
<1> QED
  BY <1>2 DEF IsRecord

LEMMA DecayedFacts ==
  ASSUME NEW tab, \A va \in DOMAIN tab : IsRecord(tab[va])
  PROVE  /\ DOMAIN Decayed(tab) = DOMAIN tab
         /\ \A va \in DOMAIN tab : IsRecord(Decayed(tab)[va]) /\ Decayed(tab)[va].weight = 0
<1>1. ASSUME NEW va \in DOMAIN tab
      PROVE  IsRecord(Decayed(tab)[va]) /\ Decayed(tab)[va].weight = 0
  <2>1. Decayed(tab)[va] = [tab[va] EXCEPT !.weight = 0]
    BY ZenonT(60) DEF Decayed
  <2> QED
    BY <2>1, SetWeight, ZenonT(60)
<1> QED
  BY <1>1, ZenonT(60) DEF Decayed

(* A visit leaves a whole record, of weight 1.                             *)
LEMMA ComparedFacts ==
  ASSUME NEW tab, NEW va, NEW e, NEW junk
  PROVE  IsRecord(Compared(tab, va, e, junk)) /\ Compared(tab, va, e, junk).weight = 1
BY DEF Compared, IsRecord

-----------------------------------------------------------------------------
(* What the steps of a round do to the tables.                             *)

(* check_cr3_list() makes the tables that are missing, and changes nothing *)
(* but the mark of the others.                                             *)
LEMMA CheckEffect ==
  ASSUME Tables, check_cr3_list
  PROVE  /\ DOMAIN data_map' = DOMAIN data_map \cup Range(cr3_list)
         /\ \A c \in DOMAIN data_map' : IsTable(data_map'[c])
         /\ \A c \in DOMAIN data_map :
              data_map'[c].round = data_map[c].round /\ data_map'[c].h = data_map[c].h
         /\ \A c \in DOMAIN data_map' \ DOMAIN data_map : data_map'[c].h = <<>>
<1> DEFINE unknown == Range(cr3_list) \ DOMAIN data_map
           times(c) == Cardinality(Occurrences(c)) + (IF c \in unknown THEN 0 ELSE 1)
<1>1. PICK fresh \in [unknown -> NewTables] :
        data_map' = [c \in DOMAIN data_map \cup unknown |->
          IF times(c) > 1 THEN [(IF c \in unknown THEN fresh[c] ELSE data_map[c]) EXCEPT !.check = 1]
          ELSE IF c \in unknown THEN fresh[c] ELSE data_map[c]]
  BY ZenonT(60) DEF check_cr3_list
<1>2. DOMAIN data_map' = DOMAIN data_map \cup unknown
  BY <1>1, ZenonT(60)
<1>3. ASSUME NEW c \in unknown
      PROVE  IsTable(data_map'[c]) /\ data_map'[c].h = <<>>
  <2>1. fresh[c] \in NewTables
    BY <1>1, <1>3, ZenonT(60)
  <2>2. IsTable(fresh[c]) /\ fresh[c].h = <<>>
    BY <2>1 DEF IsTable, NewTables
  <2>3. data_map'[c] = IF times(c) > 1 THEN [fresh[c] EXCEPT !.check = 1] ELSE fresh[c]
    BY <1>1, <1>3, ZenonT(60)
  <2> DEFINE t == fresh[c]
             u == [t EXCEPT !.check = 1]
  <2> HIDE DEF times, t
  <2>4. IsTable(u) /\ u.h = t.h
    BY <2>2, SetCheck DEF t
  <2> HIDE DEF u
  <2> QED
    BY <2>2, <2>3, <2>4, ZenonT(60) DEF t, u
<1>4. ASSUME NEW c \in DOMAIN data_map
      PROVE  /\ IsTable(data_map'[c])
             /\ data_map'[c].round = data_map[c].round /\ data_map'[c].h = data_map[c].h
  <2>1. data_map'[c] = IF times(c) > 1 THEN [data_map[c] EXCEPT !.check = 1] ELSE data_map[c]
    BY <1>1, <1>4, ZenonT(60)
  <2>2. IsTable(data_map[c])
    BY <1>4, ZenonT(60) DEF Tables
  <2> HIDE DEF times
  <2> QED
    BY <2>1, <2>2, SetCheck
<1> QED
  BY <1>2, <1>3, <1>4, ZenonT(60)

(* calculate_all_page() keeps every table and its round, and the records   *)
(* of the marked ones lose their weight.                                   *)
LEMMA CalcEffect ==
  ASSUME Tables, calculate_all_page
  PROVE  /\ DOMAIN data_map' = DOMAIN data_map
         /\ \A c \in DOMAIN data_map :
              /\ IsTable(data_map'[c])
              /\ data_map'[c].round = data_map[c].round
              /\ c \in Checked => data_map'[c].h = Decayed(data_map[c].h)
              /\ c \notin Checked => data_map'[c].h = data_map[c].h
<1> DEFINE act == Added.act
<1>1. data_map' = [c \in DOMAIN data_map |->
        IF c \in Checked
        THEN [data_map[c] EXCEPT !.check = 0, !.act = act[c], !.h = Decayed(@)]
        ELSE [data_map[c] EXCEPT !.check = 0]]
  BY ZenonT(60) DEF calculate_all_page
<1> HIDE DEF act
<1>2. ASSUME NEW c \in DOMAIN data_map
      PROVE  /\ IsTable(data_map'[c])
             /\ data_map'[c].round = data_map[c].round
             /\ c \in Checked => data_map'[c].h = Decayed(data_map[c].h)
             /\ c \notin Checked => data_map'[c].h = data_map[c].h
  <2>1. IsTable(data_map[c])
    BY <1>2, ZenonT(60) DEF Tables
  <2>2. CASE c \in Checked
    <3>1. data_map'[c] = [data_map[c] EXCEPT !.check = 0, !.act = act[c], !.h = Decayed(@)]
      BY <1>1, <1>2, <2>2, ZenonT(60)
    <3> DEFINE one == [data_map[c] EXCEPT !.check = 0]
               two == [one EXCEPT !.act = act[c]]
    <3>2. data_map'[c] = [two EXCEPT !.h = Decayed(@)]
      BY <3>1
    <3>3. IsTable(one) /\ one.round = data_map[c].round /\ one.h = data_map[c].h
      BY <2>1, SetCheck
    <3> HIDE DEF one
    <3>4. IsTable(two) /\ two.round = data_map[c].round /\ two.h = data_map[c].h
      BY <3>3, SetAct
    <3> HIDE DEF two
    <3>5. data_map'[c] = [two EXCEPT !.h = Decayed(data_map[c].h)]
      BY <3>2, <3>4
    <3> QED
      BY <2>2, <3>4, <3>5, SetH
  <2>3. CASE c \notin Checked
    <3>1. data_map'[c] = [data_map[c] EXCEPT !.check = 0]
      BY <1>1, <1>2, <2>3, ZenonT(60)
    <3> QED
      BY <2>1, <2>3, <3>1, SetCheck, SMTT(30)
  <2> QED
    BY <2>2, <2>3, SMTT(30)
<1> QED
  BY <1>1, <1>2, ZenonT(60)

(* One turn of walk_cr3_list()'s loop writes the table of one CR3, which   *)
(* is in the map: its round is this one and its records are those given.   *)
Turn(tab) ==
  /\ Cr3 \in DOMAIN data_map
  /\ DOMAIN data_map' = DOMAIN data_map
  /\ \A c \in DOMAIN data_map \ {Cr3} : data_map'[c] = data_map[c]
  /\ IsTable(data_map'[Cr3])
  /\ data_map'[Cr3].round = global_round
  /\ data_map'[Cr3].h = tab

LEMMA Cr3Known ==
  ASSUME Loop, Walking
  PROVE  next \in 1 .. Len(cr3_list) /\ Cr3 \in DOMAIN data_map
<1>1. next \in 1 .. Len(cr3_list)
  BY DEF Loop, Walking
<1> QED
  BY <1>1 DEF Loop, Walking, Cr3

LEMMA TurnFacts ==
  ASSUME Tables, Loop, Walking, NEW t, IsTable(t), t.round = global_round,
         data_map' = [data_map EXCEPT ![Cr3] = t]
  PROVE  Turn(t.h)
<1>1. Cr3 \in DOMAIN data_map
  BY Cr3Known
<1>2. /\ DOMAIN data_map' = DOMAIN data_map
      /\ data_map'[Cr3] = t
      /\ \A c \in DOMAIN data_map \ {Cr3} : data_map'[c] = data_map[c]
  BY <1>1, ZenonT(60)
<1> QED
  BY <1>1, <1>2, ZenonT(60) DEF Turn

LEMMA TableFacts ==
  ASSUME Tables, Loop, Walking
  PROVE  IsTable(Table) /\ Table.round = global_round /\ Table.h = data_map[Cr3].h
<1> DEFINE t == data_map[Cr3]
<1>1. IsTable(t)
  BY Cr3Known, ZenonT(60) DEF Tables
<1> DEFINE one == [t EXCEPT !.check = 0]
<1>2. Table = [one EXCEPT !.round = global_round]
  BY DEF Table
<1> HIDE DEF t
<1>3. IsTable(one) /\ one.h = t.h
  BY <1>1, SetCheck
<1> HIDE DEF one
<1> QED
  BY <1>2, <1>3, SetRound DEF t

(* The turns: the kernel's CR3 and one whose top table cannot be mapped    *)
(* keep their records, a walk adds and renews records, and a bus error     *)
(* drops them.                                                             *)
LEMMA KernelTurn ==
  ASSUME Tables, Loop, WalkKernel
  PROVE  Turn(data_map[Cr3].h)
<1>1. Walking /\ data_map' = [data_map EXCEPT ![Cr3] = Table]
  BY ZenonT(60) DEF WalkKernel
<1> QED
  BY <1>1, TableFacts, TurnFacts, ZenonT(60)

LEMMA MapErrorTurn ==
  ASSUME Tables, Loop, WalkMapError
  PROVE  Turn(data_map[Cr3].h)
<1> DEFINE t == [Table EXCEPT !.act = [v \in 0 .. 1 |-> 0]]
<1>1. Walking /\ data_map' = [data_map EXCEPT ![Cr3] = t]
  BY ZenonT(60) DEF WalkMapError
<1>2. IsTable(t) /\ t.round = global_round /\ t.h = data_map[Cr3].h
  BY <1>1, TableFacts, SetAct
<1> HIDE DEF t
<1> QED
  BY <1>1, <1>2, TurnFacts, ZenonT(60)

LEMMA BusErrorTurn ==
  ASSUME Tables, Loop, WalkBusError
  PROVE  Turn(<<>>)
<1> DEFINE zeroed == [Table EXCEPT !.act = [v \in 0 .. 1 |-> 0]]
           t == [zeroed EXCEPT !.h = <<>>]
<1>1. /\ Walking
      /\ data_map' = [data_map EXCEPT ![Cr3] = [Table EXCEPT !.act = [v \in 0 .. 1 |-> 0], !.h = <<>>]]
  BY ZenonT(60) DEF WalkBusError
<1>2. data_map' = [data_map EXCEPT ![Cr3] = t]
  BY <1>1
<1>3. IsTable(zeroed) /\ zeroed.round = global_round
  BY <1>1, TableFacts, SetAct
<1> HIDE DEF zeroed
<1>4. IsTable(t) /\ t.round = global_round /\ t.h = <<>>
  BY <1>3, SetH, ZenonT(60)
<1> HIDE DEF t
<1> QED
  BY <1>1, <1>2, <1>4, TurnFacts, ZenonT(60)

\* What a walk that reaches those pages leaves.
Walked(tab, reached) ==
  /\ DOMAIN tab = DOMAIN data_map[Cr3].h \cup reached
  /\ \A va \in reached : IsRecord(tab[va]) /\ tab[va].weight = 1
  /\ \A va \in DOMAIN data_map[Cr3].h \ reached : tab[va] = data_map[Cr3].h[va]

LEMMA WalkTurn ==
  ASSUME Tables, Loop, Walk
  PROVE  \E reached, tab : /\ Turn(tab) /\ Walked(tab, reached)
                           /\ visited' = visited \cup {<<Cr3, va>> : va \in reached}
<1> DEFINE h == data_map[Cr3].h
<1>1. PICK seen \in [Vas -> Entry \cup {Skipped}] :
        LET reached == {va \in Vas : seen[va] # Skipped}
            inswap  == {va \in reached \ DOMAIN h : seen[va].valid = 0}
        IN  /\ \E junk \in [inswap -> Frames \cup {0}] :
                data_map' = [data_map EXCEPT ![Cr3] = [Table EXCEPT
                  !.act = [v \in 0 .. 1 |-> 0],
                  !.h = [va \in DOMAIN h \cup reached |->
                           IF va \in reached
                           THEN Compared(h, va, seen[va], IF va \in inswap THEN junk[va] ELSE 0)
                           ELSE h[va]]]]
            /\ visited' = visited \cup {<<Cr3, va>> : va \in reached}
  BY ZenonT(60) DEF Walk
<1> DEFINE reached == {va \in Vas : seen[va] # Skipped}
           inswap  == {va \in reached \ DOMAIN h : seen[va].valid = 0}
<1>2. PICK junk \in [inswap -> Frames \cup {0}] :
        data_map' = [data_map EXCEPT ![Cr3] = [Table EXCEPT
          !.act = [v \in 0 .. 1 |-> 0],
          !.h = [va \in DOMAIN h \cup reached |->
                   IF va \in reached
                   THEN Compared(h, va, seen[va], IF va \in inswap THEN junk[va] ELSE 0)
                   ELSE h[va]]]]
  BY <1>1, ZenonT(60)
<1> DEFINE word(va) == IF va \in inswap THEN junk[va] ELSE 0
           tab == [va \in DOMAIN h \cup reached |->
                     IF va \in reached THEN Compared(h, va, seen[va], word(va)) ELSE h[va]]
           zeroed == [Table EXCEPT !.act = [v \in 0 .. 1 |-> 0]]
           t == [zeroed EXCEPT !.h = tab]
<1>3. data_map' = [data_map EXCEPT ![Cr3] = [Table EXCEPT !.act = [v \in 0 .. 1 |-> 0], !.h = tab]]
  BY <1>2, ZenonT(60)
<1>4. visited' = visited \cup {<<Cr3, va>> : va \in reached}
  BY <1>1, ZenonT(60)
<1> HIDE DEF word, reached, inswap
<1>5. Walked(tab, reached)
  <2>1. \A va \in reached : tab[va] = Compared(h, va, seen[va], word(va))
    BY ZenonT(60)
  <2>2. \A va \in DOMAIN h \ reached : tab[va] = h[va]
    BY ZenonT(60)
  <2>3. DOMAIN tab = DOMAIN h \cup reached
    BY ZenonT(60)
  <2> HIDE DEF tab
  <2>4. ASSUME NEW va \in reached PROVE IsRecord(tab[va]) /\ tab[va].weight = 1
    <3> DEFINE r == Compared(h, va, seen[va], word(va))
    <3>1. IsRecord(r) /\ r.weight = 1
      BY ComparedFacts
    <3> HIDE DEF r
    <3> QED
      BY <2>1, <2>4, <3>1, ZenonT(60) DEF r
  <2> QED
    BY <2>2, <2>3, <2>4, ZenonT(60) DEF Walked
<1> HIDE DEF tab
<1>6. Walking
  BY ZenonT(60) DEF Walk
<1>7. data_map' = [data_map EXCEPT ![Cr3] = t]
  BY <1>3
<1>8. IsTable(zeroed) /\ zeroed.round = global_round
  BY <1>6, TableFacts, SetAct
<1> HIDE DEF zeroed
<1>9. IsTable(t) /\ t.round = global_round /\ t.h = tab
  BY <1>8, SetH
<1> HIDE DEF t
<1>10. Turn(tab)
  BY <1>6, <1>7, <1>9, TurnFacts, ZenonT(60)
<1> QED
  BY <1>4, <1>5, <1>10, ZenonT(60)

-----------------------------------------------------------------------------
(* The invariant of the rounds.                                            *)

LEMMA InitTInv == Init => TInv
<1> SUFFICES ASSUME Init PROVE TInv
  OBVIOUS
<1>1. DOMAIN data_map = {} /\ cr3_list = <<>> /\ global_round = 0 /\ pc = "get" /\ next = 1
  BY DEF Init
<1>2. Tables
  BY <1>1, ZenonT(60) DEF Tables
<1>3. Loop
  BY <1>1 DEF Loop
<1>4. Listed
  BY <1>1 DEF Init, Listed, Unset
<1>5. Rounds
  BY <1>1 DEF Init, Rounds, Due
<1> QED
  BY <1>2, <1>3, <1>4, <1>5 DEF TInv

LEMMA GetStep == TInv /\ get_cr3_hypercall => TInv'
<1> SUFFICES ASSUME TInv, get_cr3_hypercall PROVE TInv'
  OBVIOUS
<1>1. /\ pc = "get" /\ pc' = "check"
      /\ \E n \in 0 .. MaxList : cr3_list' \in [1 .. n -> Cr3s]
      /\ listed' = [c \in Cr3s |-> IF c \in Range(cr3_list') THEN global_round ELSE listed[c]]
      /\ UNCHANGED <<next, data_map, global_round>>
  BY DEF get_cr3_hypercall
<1>2. cr3_list' \in Seq(Cr3s)
  BY <1>1, AnalyzerAssumption
<1>3. \A c \in Cr3s : c \in Range(cr3_list') <=> InList(c)'
  BY <1>2 DEF Range, InList
<1>4. \A c \in Cr3s : listed'[c] = IF InList(c)' THEN global_round ELSE listed[c]
  BY <1>1, <1>3, ZenonT(60)
<1>5. Tables'
  BY <1>1, ZenonT(60) DEF TInv, Tables
<1>6. Loop'
  BY <1>1, <1>2 DEF TInv, Loop
<1>7. Listed'
  <2>1. global_round \in Int /\ listed \in [Cr3s -> Int] /\ global_round' = global_round
    BY <1>1 DEF TInv, Loop, Listed
  <2>2. listed' \in [Cr3s -> Int]
    BY <1>1, <2>1
  <2>3. \A c \in Cr3s : Unset <= listed'[c] /\ listed'[c] <= global_round
    BY <1>4, <2>1, SMTT(30) DEF TInv, Loop, Listed, Unset
  <2> QED
    BY <1>4, <2>1, <2>2, <2>3, ZenonT(60) DEF Listed
<1>8. Rounds'
  <2>1. ASSUME NEW c \in Cr3s, ~InList(c)' PROVE c \in DOMAIN data_map' <=> Due(c)'
    BY <1>1, <1>4, <2>1, SMTT(30) DEF TInv, Rounds, Due
  <2>2. ASSUME NEW c \in DOMAIN data_map', ~InList(c)' PROVE data_map'[c].round = listed'[c]
    BY <1>1, <1>4, <2>2 DEF TInv, Rounds, Tables
  <2> QED
    BY <1>1, <2>1, <2>2, SMTT(30) DEF Rounds
<1> QED
  BY <1>5, <1>6, <1>7, <1>8 DEF TInv

LEMMA CheckStep == TInv /\ check_cr3_list => TInv'
<1> SUFFICES ASSUME TInv, check_cr3_list PROVE TInv'
  OBVIOUS
<1>1. pc = "check" /\ pc' = "calc" /\ UNCHANGED <<cr3_list, next, global_round, listed>>
  BY SMTT(30) DEF check_cr3_list
<1>2. /\ DOMAIN data_map' = DOMAIN data_map \cup Range(cr3_list)
      /\ \A c \in DOMAIN data_map' : IsTable(data_map'[c])
      /\ \A c \in DOMAIN data_map :
           data_map'[c].round = data_map[c].round /\ data_map'[c].h = data_map[c].h
      /\ \A c \in DOMAIN data_map' \ DOMAIN data_map : data_map'[c].h = <<>>
  BY CheckEffect, SMTT(30) DEF TInv
<1>3. \A c : c \in Range(cr3_list) <=> InList(c)
  BY DEF Range, InList, TInv, Loop
<1>4. \A c : InList(c)' <=> InList(c)
  BY <1>1, ZenonT(60) DEF InList
<1>5. \A c : InList(c) => c \in Cr3s
  BY DEF InList, TInv, Loop
<1>6. Tables'
  <2>1. DOMAIN data_map' \subseteq Cr3s
    BY <1>2, <1>3, <1>5, ZenonT(60) DEF TInv, Tables
  <2>2. ASSUME NEW c \in DOMAIN data_map', NEW va \in DOMAIN data_map'[c].h
        PROVE  IsRecord(data_map'[c].h[va])
    <3>1. CASE c \in DOMAIN data_map
      BY <1>2, <2>2, <3>1, ZenonT(60) DEF TInv, Tables
    <3>2. CASE c \notin DOMAIN data_map
      <4>1. data_map'[c].h = <<>>
        BY <1>2, <2>2, <3>2, ZenonT(60)
      <4>2. DOMAIN <<>> = {}
        OBVIOUS
      <4> QED
        BY <2>2, <4>1, <4>2, ZenonT(60)
    <3> QED
      BY <3>1, <3>2
  <2> QED
    BY <1>2, <2>1, <2>2, ZenonT(60) DEF Tables
<1>7. Loop'
  <2>1. \A k \in 1 .. Len(cr3_list) : cr3_list[k] \in DOMAIN data_map'
    BY <1>2, <1>3, ZenonT(60) DEF InList
  <2> QED
    BY <1>1, <2>1 DEF TInv, Loop
<1>8. Listed'
  BY <1>1, <1>4, SMTT(30) DEF TInv, Listed
<1>9. Rounds'
  <2>1. ASSUME NEW c \in Cr3s PROVE c \in DOMAIN data_map' <=> Due(c)'
    <3>1. Due(c)' <=> Due(c)
      BY <1>1, ZenonT(60) DEF Due
    <3>2. CASE InList(c)
      <4>1. listed[c] = global_round /\ global_round \in Nat
        BY <1>1, <3>2 DEF TInv, Listed, Loop
      <4>2. Due(c)
        BY <4>1, AnalyzerAssumption DEF Due, Unset
      <4> QED
        BY <1>2, <1>3, <3>1, <3>2, <4>2, ZenonT(60)
    <3>3. CASE ~InList(c)
      BY <1>2, <1>3, <3>1, <3>3, ZenonT(60) DEF TInv, Rounds
    <3> QED
      BY <3>2, <3>3
  <2>2. ASSUME NEW c \in DOMAIN data_map', ~InList(c) PROVE data_map'[c].round = listed[c]
    <3>1. c \in DOMAIN data_map
      BY <1>2, <1>3, <2>2, ZenonT(60)
    <3> QED
      BY <1>2, <2>2, <3>1, ZenonT(60) DEF TInv, Rounds
  <2> QED
    BY <1>1, <1>4, <2>1, <2>2 DEF Rounds
<1> QED
  BY <1>6, <1>7, <1>8, <1>9 DEF TInv

LEMMA CalcStep == TInv /\ calculate_all_page => TInv'
<1> SUFFICES ASSUME TInv, calculate_all_page PROVE TInv'
  OBVIOUS
<1>1. pc = "calc" /\ pc' = "walk" /\ next' = 1 /\ UNCHANGED <<cr3_list, global_round, listed>>
  BY ZenonT(60) DEF calculate_all_page
<1>2. /\ DOMAIN data_map' = DOMAIN data_map
      /\ \A c \in DOMAIN data_map :
           /\ IsTable(data_map'[c])
           /\ data_map'[c].round = data_map[c].round
           /\ c \in Checked => data_map'[c].h = Decayed(data_map[c].h)
           /\ c \notin Checked => data_map'[c].h = data_map[c].h
  BY CalcEffect DEF TInv
<1>3. \A c : (InList(c)' <=> InList(c)) /\ (Due(c)' <=> Due(c))
  BY <1>1, ZenonT(60) DEF InList, Due
<1>4. Tables'
  <2>1. ASSUME NEW c \in DOMAIN data_map, NEW va \in DOMAIN data_map'[c].h
        PROVE  IsRecord(data_map'[c].h[va])
    <3>1. \A x \in DOMAIN data_map[c].h : IsRecord(data_map[c].h[x])
      BY <2>1, ZenonT(60) DEF TInv, Tables
    <3> QED
      BY <1>2, <2>1, <3>1, DecayedFacts, ZenonT(60)
  <2> QED
    BY <1>2, <2>1, ZenonT(60) DEF TInv, Tables
<1>5. Loop'
  BY <1>1, <1>2 DEF TInv, Loop
<1>6. Listed'
  BY <1>1, <1>3 DEF TInv, Listed
<1>7. Rounds'
  <2>1. ASSUME NEW c \in Cr3s PROVE c \in DOMAIN data_map' <=> Due(c)'
    BY <1>1, <1>2, <1>3, ZenonT(60) DEF TInv, Rounds
  <2>2. ASSUME NEW c \in DOMAIN data_map', ~InList(c)' PROVE data_map'[c].round = listed'[c]
    BY <1>1, <1>2, <1>3, <2>2, ZenonT(60) DEF TInv, Rounds
  <2>3. \A k \in 1 .. Len(cr3_list') : ~(k < next')
    BY <1>1 DEF TInv, Loop
  <2> QED
    BY <1>1, <2>1, <2>2, <2>3, ZenonT(60) DEF Rounds
<1> QED
  BY <1>4, <1>5, <1>6, <1>7 DEF TInv

(* A turn of the loop writes this round into the table of the CR3 at hand; *)
(* one that comes again later in the list is written again.                *)
LEMMA TurnStep ==
  ASSUME TInv, Walking, NEW tab, Turn(tab), \A va \in DOMAIN tab : IsRecord(tab[va]),
         next' = next + 1, UNCHANGED <<pc, cr3_list, global_round, listed>>
  PROVE  TInv'
<1>1. next \in 1 .. Len(cr3_list) /\ Cr3 = cr3_list[next] /\ pc = "walk"
  BY Cr3Known DEF TInv, Cr3, Walking
<1>2. \A c : (InList(c)' <=> InList(c)) /\ (Due(c)' <=> Due(c))
  BY ZenonT(60) DEF InList, Due
<1>3. InList(Cr3)
  BY <1>1, ZenonT(60) DEF InList
<1>4. Tables'
  <2>1. DOMAIN data_map' \subseteq Cr3s
    BY ZenonT(60) DEF Turn, TInv, Tables
  <2>2. ASSUME NEW c \in DOMAIN data_map
        PROVE  IsTable(data_map'[c]) /\ \A va \in DOMAIN data_map'[c].h : IsRecord(data_map'[c].h[va])
    <3>1. CASE c = Cr3
      BY <3>1, ZenonT(60) DEF Turn
    <3>2. CASE c # Cr3
      <4>1. data_map'[c] = data_map[c]
        BY <3>2, <2>2, ZenonT(60) DEF Turn
      <4> QED
        BY <2>2, <4>1, ZenonT(60) DEF TInv, Tables
    <3> QED
      BY <3>1, <3>2
  <2>3. DOMAIN data_map' = DOMAIN data_map
    BY SMTT(30) DEF Turn
  <2> QED
    BY <2>1, <2>2, <2>3, ZenonT(60) DEF Tables
<1>5. Loop'
  BY <1>1, SMTT(30) DEF TInv, Loop, Turn
<1>6. Listed'
  BY <1>2, SMTT(30) DEF TInv, Listed
<1>7. Rounds'
  <2>1. \A c \in Cr3s : c \in DOMAIN data_map' <=> Due(c)'
    BY <1>1, <1>2 DEF TInv, Rounds, Turn
  <2>2. ASSUME NEW c \in DOMAIN data_map', ~InList(c)'
        PROVE  data_map'[c].round = listed'[c]
    <3>1. c # Cr3
      BY <1>2, <1>3, <2>2, ZenonT(60)
    <3>2. data_map'[c] = data_map[c] /\ c \in DOMAIN data_map
      BY <3>1, <2>2, ZenonT(60) DEF Turn
    <3> QED
      BY <1>2, <2>2, <3>2, ZenonT(60) DEF TInv, Rounds
  <2>3. ASSUME NEW k \in 1 .. Len(cr3_list), k < next'
        PROVE  data_map'[cr3_list[k]].round = global_round
    <3>1. CASE cr3_list[k] = Cr3
      BY <3>1 DEF Turn
    <3>2. CASE cr3_list[k] # Cr3
      <4>1. k # next
        BY <1>1, <3>2, ZenonT(60)
      <4>2. k < next
        BY <2>3, <4>1 DEF TInv, Loop
      <4>3. cr3_list[k] \in DOMAIN data_map
        BY <1>1, <2>3 DEF TInv, Loop
      <4>4. data_map'[cr3_list[k]] = data_map[cr3_list[k]]
        BY <3>2, <4>3, ZenonT(60) DEF Turn
      <4> QED
        BY <1>1, <4>2, <4>4, ZenonT(60) DEF TInv, Rounds
    <3> QED
      BY <3>1, <3>2, SMTT(30)
  <2>4. pc' = "walk" /\ cr3_list' = cr3_list /\ global_round' = global_round
    BY <1>1, SMTT(30)
  <2> QED
    BY <2>1, <2>2, <2>3, <2>4, SMTT(30) DEF Rounds
<1> QED
  BY <1>4, <1>5, <1>6, <1>7 DEF TInv

(* retrieve_list(): every table has the round in which its CR3 was listed  *)
(* last, so the interval is the one the promise is about.                  *)
LEMMA RetrieveStep == TInv /\ retrieve_list => TInv'
<1> SUFFICES ASSUME TInv, retrieve_list PROVE TInv'
  OBVIOUS
<1> DEFINE kept == {c \in DOMAIN data_map :
                      Interval(global_round + 1, data_map[c].round) < MaxInterval}
<1>1. /\ pc = "walk" /\ pc' = "get" /\ next > Len(cr3_list)
      /\ global_round' = global_round + 1
      /\ data_map' = [c \in kept |-> data_map[c]]
      /\ UNCHANGED <<cr3_list, next, listed>>
  BY DEF retrieve_list
<1>2. global_round \in Nat /\ next \in Nat /\ cr3_list \in Seq(Cr3s) /\ listed \in [Cr3s -> Int]
  BY DEF TInv, Loop, Listed
<1>3. ASSUME NEW c \in DOMAIN data_map PROVE data_map[c].round = listed[c]
  <2>0. c \in Cr3s
    BY <1>3, SMTT(30) DEF TInv, Tables
  <2>1. CASE InList(c)
    <3>1. PICK k \in 1 .. Len(cr3_list) : cr3_list[k] = c
      BY <2>1 DEF InList
    <3>2. k < next
      BY <1>1, <1>2, SMTT(30)
    <3>3. data_map[c].round = global_round
      BY <1>1, <3>1, <3>2 DEF TInv, Rounds
    <3> QED
      BY <1>1, <2>0, <2>1, <3>3, SMTT(30) DEF TInv, Listed
  <2>2. CASE ~InList(c)
    BY <1>3, <2>2, ZenonT(60) DEF TInv, Rounds
  <2> QED
    BY <2>1, <2>2
<1>4. ASSUME NEW c \in Cr3s PROVE c \in kept <=> Due(c)'
  <2>1. c \in DOMAIN data_map <=> Due(c)
    BY <1>1 DEF TInv, Rounds
  <2>2. listed[c] \in Int /\ Unset <= listed[c] /\ listed[c] <= global_round
    BY <1>2 DEF TInv, Listed
  <2>3. Due(c)' <=> listed[c] # Unset /\ (global_round + 1) - listed[c] < MaxInterval
    BY <1>1, ZenonT(60) DEF Due
  <2>4. c \in kept <=> Due(c) /\ Interval(global_round + 1, listed[c]) < MaxInterval
    BY <1>3, <2>1
  <2>5. Interval(global_round + 1, listed[c]) = (global_round + 1) - listed[c]
    BY <1>2, <2>2 DEF Interval
  <2> HIDE DEF kept
  <2> QED
    BY <1>2, <2>2, <2>3, <2>4, <2>5, AnalyzerAssumption, SMTT(30) DEF Due
<1>5. DOMAIN data_map' = kept /\ \A c \in kept : c \in DOMAIN data_map /\ data_map'[c] = data_map[c]
  BY <1>1, ZenonT(60)
<1> HIDE DEF kept
<1>6. Tables'
  BY <1>5, ZenonT(60) DEF TInv, Tables
<1>7. Loop'
  BY <1>1, <1>2, SMTT(30) DEF TInv, Loop
<1>8. Listed'
  BY <1>1, <1>2, SMTT(30) DEF TInv, Listed
<1>9. Rounds'
  <2>1. \A c \in Cr3s : c \in DOMAIN data_map' <=> Due(c)'
    BY <1>4, <1>5, ZenonT(60)
  <2>2. \A c \in DOMAIN data_map' : data_map'[c].round = listed'[c]
    BY <1>1, <1>3, <1>5, ZenonT(60)
  <2> QED
    BY <1>1, <2>1, <2>2 DEF Rounds
<1> QED
  BY <1>6, <1>7, <1>8, <1>9 DEF TInv

LEMMA StepTInv == TInv /\ [Next]_vars => TInv'
<1> SUFFICES ASSUME TInv, [Next]_vars PROVE TInv'
  OBVIOUS
<1>0. Tables /\ Loop
  BY DEF TInv
<1>1. CASE WalkKernel
  <2>1. Turn(data_map[Cr3].h)
    BY <1>0, <1>1, KernelTurn
  <2>2. \A va \in DOMAIN data_map[Cr3].h : IsRecord(data_map[Cr3].h[va])
    BY <2>1, <1>0, ZenonT(60) DEF Turn, Tables
  <2>3. Walking /\ next' = next + 1 /\ UNCHANGED <<pc, cr3_list, global_round, listed>>
    BY <1>1, ZenonT(60) DEF WalkKernel
  <2> QED
    BY <2>1, <2>2, <2>3, TurnStep
<1>2. CASE Walk
  <2>1. PICK reached, tab : Turn(tab) /\ Walked(tab, reached)
    BY <1>0, <1>2, WalkTurn
  <2>2. ASSUME NEW va \in DOMAIN tab PROVE IsRecord(tab[va])
    BY <1>0, <2>1, <2>2, ZenonT(60) DEF Turn, Walked, Tables
  <2>3. Walking /\ next' = next + 1 /\ UNCHANGED <<pc, cr3_list, global_round, listed>>
    BY <1>2, ZenonT(60) DEF Walk
  <2> QED
    BY <2>1, <2>2, <2>3, TurnStep
<1>3. CASE WalkMapError
  <2>1. Turn(data_map[Cr3].h)
    BY <1>0, <1>3, MapErrorTurn
  <2>2. \A va \in DOMAIN data_map[Cr3].h : IsRecord(data_map[Cr3].h[va])
    BY <2>1, <1>0, ZenonT(60) DEF Turn, Tables
  <2>3. Walking /\ next' = next + 1 /\ UNCHANGED <<pc, cr3_list, global_round, listed>>
    BY <1>3, ZenonT(60) DEF WalkMapError
  <2> QED
    BY <2>1, <2>2, <2>3, TurnStep
<1>4. CASE WalkBusError
  <2>1. Turn(<<>>)
    BY <1>0, <1>4, BusErrorTurn
  <2>2. DOMAIN <<>> = {}
    OBVIOUS
  <2>3. Walking /\ next' = next + 1 /\ UNCHANGED <<pc, cr3_list, global_round, listed>>
    BY <1>4, ZenonT(60) DEF WalkBusError
  <2>4. \A va \in DOMAIN <<>> : IsRecord(<<>>[va])
    BY <2>2, ZenonT(60)
  <2> QED
    BY <2>1, <2>3, <2>4, TurnStep
<1>5. CASE UNCHANGED vars
  <2>1. \A c : (InList(c)' <=> InList(c)) /\ (Due(c)' <=> Due(c))
    BY <1>5, ZenonT(60) DEF vars, InList, Due
  <2> QED
    BY <1>5, <2>1, ZenonT(60) DEF vars, TInv, Tables, Loop, Listed, Rounds
<1>6. CASE Enough
  BY <1>5, <1>6 DEF Enough
<1> QED
  BY <1>1, <1>2, <1>3, <1>4, <1>5, <1>6, GetStep, CheckStep, CalcStep, RetrieveStep, ZenonT(60) DEF Next

LEMMA TablesKept == Spec => []TInv
BY InitTInv, StepTInv, PTL DEF Spec

(* Whatever lists the hypervisor hands out and whatever fails in the walk: *)
(* between rounds the tool keeps the tables of exactly the CR3s that were  *)
(* in a list during the last MAX_ROUND_INTERVAL rounds.                    *)
THEOREM KeptCorrect == Spec => []KeptExactly
<1>1. TInv => KeptExactly
  <2> SUFFICES ASSUME TInv, pc = "get" PROVE DOMAIN data_map = {c \in Cr3s : Due(c)}
    BY ZenonT(60) DEF KeptExactly, Due
  <2>1. DOMAIN data_map \subseteq Cr3s
    BY SMTT(30) DEF TInv, Tables
  <2>2. \A c \in Cr3s : c \in DOMAIN data_map <=> Due(c)
    BY SMTT(30) DEF TInv, Rounds
  <2> QED
    BY <2>1, <2>2, ZenonT(60)
<1> QED
  BY <1>1, TablesKept, PTL

-----------------------------------------------------------------------------
(* The weights.                                                            *)

Weighs(c, va) ==
  c \in DOMAIN data_map /\ va \in DOMAIN data_map[c].h /\ data_map[c].h[va].weight = 1

\* FreshIsVisited, page by page.
Visits ==
  /\ \A x \in visited : \E c, va : x = <<c, va>>
  /\ \A c, va : <<c, va>> \in visited <=> Weighs(c, va)

LEMMA VisitsFresh == Visits => FreshIsVisited
<1> SUFFICES ASSUME Visits
             PROVE  \A x : x \in visited <=>
                      /\ x \in UNION {{<<c, va>> : va \in DOMAIN data_map[c].h} : c \in DOMAIN data_map}
                      /\ Rec(x).weight = 1
  BY ZenonT(60) DEF FreshIsVisited
<1>1. \A c, va : Rec(<<c, va>>) = data_map[c].h[va]
  BY DEF Rec
<1>2. \A x : x \in UNION {{<<c, va>> : va \in DOMAIN data_map[c].h} : c \in DOMAIN data_map}
        <=> \E c \in DOMAIN data_map : \E va \in DOMAIN data_map[c].h : x = <<c, va>>
  OBVIOUS
<1>3. ASSUME NEW x \in visited
      PROVE  /\ \E c \in DOMAIN data_map : \E va \in DOMAIN data_map[c].h : x = <<c, va>>
             /\ Rec(x).weight = 1
  <2>1. PICK c, va : x = <<c, va>>
    BY <1>3, ZenonT(60) DEF Visits
  <2>2. Weighs(c, va)
    BY <1>3, <2>1, ZenonT(60) DEF Visits
  <2> QED
    BY <1>1, <2>1, <2>2, ZenonT(60) DEF Weighs
<1>4. ASSUME NEW c \in DOMAIN data_map, NEW va \in DOMAIN data_map[c].h, Rec(<<c, va>>).weight = 1
      PROVE  <<c, va>> \in visited
  <2>1. Weighs(c, va)
    BY <1>1, <1>4, ZenonT(60) DEF Weighs
  <2> QED
    BY <2>1, ZenonT(60) DEF Visits
<1> QED
  BY <1>2, <1>3, <1>4

LEMMA VisitsSame == Visits /\ UNCHANGED <<data_map, visited>> => Visits'
<1> SUFFICES ASSUME Visits, data_map' = data_map, visited' = visited PROVE Visits'
  OBVIOUS
<1>1. \A c, va : Weighs(c, va)' <=> Weighs(c, va)
  BY ZenonT(60) DEF Weighs
<1> QED
  BY <1>1, ZenonT(60) DEF Visits

LEMMA VisitsCheck == TInv /\ Visits /\ check_cr3_list => Visits'
<1> SUFFICES ASSUME TInv, Visits, check_cr3_list PROVE Visits'
  OBVIOUS
<1>1. visited' = visited
  BY DEF check_cr3_list
<1>2. /\ DOMAIN data_map \subseteq DOMAIN data_map'
      /\ \A c \in DOMAIN data_map : data_map'[c].h = data_map[c].h
      /\ \A c \in DOMAIN data_map' \ DOMAIN data_map : data_map'[c].h = <<>>
  BY CheckEffect, ZenonT(60) DEF TInv
<1>3. DOMAIN <<>> = {}
  OBVIOUS
<1>4. \A c, va : Weighs(c, va)' <=> Weighs(c, va)
  BY <1>2, <1>3, ZenonT(60) DEF Weighs
<1> QED
  BY <1>1, <1>4, ZenonT(60) DEF Visits

(* Adding up a table takes the weight of all its records, and with it the  *)
(* pages leave visited.                                                    *)
LEMMA VisitsCalc == TInv /\ Visits /\ calculate_all_page => Visits'
<1> SUFFICES ASSUME TInv, Visits, calculate_all_page PROVE Visits'
  OBVIOUS
<1>1. visited' = {x \in visited : x[1] \notin Checked}
  BY ZenonT(60) DEF calculate_all_page
<1>2. /\ DOMAIN data_map' = DOMAIN data_map
      /\ \A c \in DOMAIN data_map :
           /\ c \in Checked => data_map'[c].h = Decayed(data_map[c].h)
           /\ c \notin Checked => data_map'[c].h = data_map[c].h
  BY CalcEffect, ZenonT(60) DEF TInv
<1>3. ASSUME NEW c, NEW va PROVE Weighs(c, va)' <=> Weighs(c, va) /\ c \notin Checked
  <2>1. CASE c \in Checked
    <3>1. c \in DOMAIN data_map
      BY <2>1, ZenonT(60) DEF Checked
    <3>2. \A x \in DOMAIN data_map[c].h : IsRecord(data_map[c].h[x])
      BY <3>1, ZenonT(60) DEF TInv, Tables
    <3>3. /\ DOMAIN data_map'[c].h = DOMAIN data_map[c].h
          /\ \A x \in DOMAIN data_map[c].h : data_map'[c].h[x].weight = 0
      <4> DEFINE tab == data_map[c].h
      <4>1. data_map'[c].h = Decayed(tab)
        BY <1>2, <2>1, <3>1, ZenonT(60)
      <4>2. \A x \in DOMAIN tab : IsRecord(tab[x])
        BY <3>2
      <4> HIDE DEF tab
      <4> QED
        BY <4>1, <4>2, DecayedFacts DEF tab
    <3>4. 0 # 1
      OBVIOUS
    <3> QED
      BY <2>1, <3>3, <3>4, ZenonT(60) DEF Weighs
  <2>2. CASE c \notin Checked
    BY <1>2, <2>2, ZenonT(60) DEF Weighs
  <2> QED
    BY <2>1, <2>2
<1>4. \A c, va : <<c, va>>[1] = c
  OBVIOUS
<1> QED
  BY <1>1, <1>3, <1>4, ZenonT(60) DEF Visits

(* A turn of the walk.  The pages it reaches enter visited, with records   *)
(* of weight 1; the others keep theirs.                                    *)
LEMMA VisitsTurn ==
  ASSUME Visits, NEW tab, NEW reached, Turn(tab), Walked(tab, reached),
         visited' = visited \cup {<<Cr3, va>> : va \in reached}
  PROVE  Visits'
<1>1. ASSUME NEW c, NEW va
      PROVE  Weighs(c, va)' <=> Weighs(c, va) \/ (c = Cr3 /\ va \in reached)
  <2>1. CASE c = Cr3
    <3>1. c \in DOMAIN data_map /\ c \in DOMAIN data_map' /\ data_map'[c].h = tab
      BY <2>1, ZenonT(60) DEF Turn
    <3>2. CASE va \in reached
      BY <2>1, <3>1, <3>2, ZenonT(60) DEF Weighs, Walked
    <3>3. CASE va \notin reached
      BY <2>1, <3>1, <3>3, ZenonT(60) DEF Weighs, Walked
    <3> QED
      BY <3>2, <3>3
  <2>2. CASE c # Cr3
    BY <2>2, ZenonT(60) DEF Turn, Weighs
  <2> QED
    BY <2>1, <2>2, SMTT(30)
<1>2. ASSUME NEW c, NEW va
      PROVE  <<c, va>> \in {<<Cr3, x>> : x \in reached} <=> c = Cr3 /\ va \in reached
  OBVIOUS
<1>3. \A x \in visited' : \E c, va : x = <<c, va>>
  BY DEF Visits
<1> QED
  BY <1>1, <1>2, <1>3, ZenonT(60) DEF Visits

LEMMA VisitsKept == TInv /\ Visits /\ (WalkKernel \/ WalkMapError) => Visits'
<1> SUFFICES ASSUME TInv, Visits, WalkKernel \/ WalkMapError PROVE Visits'
  OBVIOUS
<1>1. Turn(data_map[Cr3].h)
  BY KernelTurn, MapErrorTurn, ZenonT(60) DEF TInv
<1>2. visited' = visited
  BY ZenonT(60) DEF WalkKernel, WalkMapError
<1>3. \A c, va : Weighs(c, va)' <=> Weighs(c, va)
  BY <1>1, ZenonT(60) DEF Turn, Weighs
<1> QED
  BY <1>2, <1>3, ZenonT(60) DEF Visits

LEMMA VisitsDropped == TInv /\ Visits /\ WalkBusError => Visits'
<1> SUFFICES ASSUME TInv, Visits, WalkBusError PROVE Visits'
  OBVIOUS
<1>1. Turn(<<>>)
  BY BusErrorTurn, ZenonT(60) DEF TInv
<1>2. visited' = {x \in visited : x[1] # Cr3}
  BY ZenonT(60) DEF WalkBusError
<1>3. DOMAIN <<>> = {}
  OBVIOUS
<1>4. \A c, va : Weighs(c, va)' <=> Weighs(c, va) /\ c # Cr3
  BY <1>1, <1>3, ZenonT(60) DEF Turn, Weighs
<1>5. \A c, va : <<c, va>>[1] = c
  OBVIOUS
<1> QED
  BY <1>2, <1>4, <1>5, ZenonT(60) DEF Visits

LEMMA VisitsRetrieve == TInv /\ Visits /\ retrieve_list => Visits'
<1> SUFFICES ASSUME TInv, Visits, retrieve_list PROVE Visits'
  OBVIOUS
<1>1. PICK kept \in SUBSET DOMAIN data_map :
        /\ data_map' = [c \in kept |-> data_map[c]]
        /\ visited' = {x \in visited : x[1] \in kept}
  BY ZenonT(60) DEF retrieve_list
<1>2. \A c, va : Weighs(c, va)' <=> Weighs(c, va) /\ c \in kept
  BY <1>1, ZenonT(60) DEF Weighs
<1>3. \A c, va : <<c, va>>[1] = c
  OBVIOUS
<1> QED
  BY <1>1, <1>2, <1>3, ZenonT(60) DEF Visits

LEMMA StepVisits == TInv /\ Visits /\ [Next]_vars => Visits'
<1> SUFFICES ASSUME TInv, Visits, [Next]_vars PROVE Visits'
  OBVIOUS
<1>1. CASE Walk
  <2>1. PICK reached, tab : /\ Turn(tab) /\ Walked(tab, reached)
                            /\ visited' = visited \cup {<<Cr3, va>> : va \in reached}
    BY <1>1, WalkTurn, ZenonT(60) DEF TInv
  <2> QED
    BY <2>1, VisitsTurn, SMTT(30)
<1>2. CASE get_cr3_hypercall \/ Enough \/ UNCHANGED vars
  <2>1. UNCHANGED <<data_map, visited>>
    BY <1>2 DEF get_cr3_hypercall, Enough, vars
  <2> QED
    BY <2>1, VisitsSame
<1> QED
  BY <1>1, <1>2, VisitsCheck, VisitsCalc, VisitsKept, VisitsDropped, VisitsRetrieve, ZenonT(60) DEF Next

(* For all lists and entries: a record has weight 1 exactly when the walk  *)
(* has passed its page since calculate_all_page() last added up its table. *)
THEOREM FreshCorrect == Spec => []FreshIsVisited
<1>1. Init => Visits
  <2> SUFFICES ASSUME Init PROVE Visits
    OBVIOUS
  <2>1. DOMAIN data_map = {} /\ visited = {}
    BY DEF Init
  <2> QED
    BY <2>1, ZenonT(60) DEF Visits, Weighs
<1>2. Spec => []Visits
  BY <1>1, StepVisits, TablesKept, PTL DEF Spec
<1> QED
  BY <1>2, VisitsFresh, PTL

-----------------------------------------------------------------------------
(* The two records.  Analyzer keeps the fields of struct mapData unpacked, *)
(* PageRecord packed: a visit of the one is a visit of the other.          *)

\* bits 27 to 1, where save_swap_paddr() puts the low bits of a swap address
SwapBits(w) == get_bit(w, 27, 1)
LowBits(f)  == f \cap ((0 .. 26) \ {24})

\* what Analyzer tells apart of a record; lo counts for a swapped page only
Unpacked(r) ==
  [valid   |-> r.present_times % 2,
   changed |-> get_change_number(r.present_times) >= CHANGE_LIMIT,
   weight  |-> r.weight,
   hi      |-> get_paddr(r.paddr),
   lo      |-> IF r.present_times % 2 = 1 THEN 0 ELSE SwapBits(r.paddr),
   huge    |-> IF 0 \in get_huge_bit(r.paddr) THEN 1 ELSE 0]

EntryOf(pte, huge) ==
  [valid |-> entry_present(pte),
   huge  |-> IF 0 \in huge THEN 1 ELSE 0,
   val   |-> IF 0 \in pte THEN FrameOf(pte) ELSE LowBits(FrameOf(pte))]

\* bit 27 of a swap address would spill into the frame number
Fits(pte) == 0 \in pte \/ 27 \notin FrameOf(pte)

(* save_swap_paddr() and what is read back from its field.                 *)
LEMMA SwapRoundTrip ==
  ASSUME NEW w \in Word, NEW f \in FrameNumber, NEW huge \in SUBSET {0}, 27 \notin f
  PROVE  LET x == save_huge_bit(save_swap_paddr(w, f), huge)
         IN  get_paddr(x) = get_paddr(w) /\ SwapBits(x) = LowBits(f) /\ get_huge_bit(x) = huge
<1> DEFINE x == save_huge_bit(save_swap_paddr(w, f), huge)
<1>1. \A b \in 28 .. 63 : b \in x <=> b \in w
  BY DEF save_huge_bit, save_swap_paddr, clear_bit, ShiftLeft, Bit, Word, FrameNumber
<1>2. \A b \in 1 .. 27 : b \in x <=> b - 1 \in f /\ b - 1 # 24
  BY DEF save_huge_bit, save_swap_paddr, clear_bit, ShiftLeft, Bit, Word, FrameNumber
<1>3. 0 \in x <=> 0 \in huge
  BY DEF save_huge_bit, save_swap_paddr, clear_bit, ShiftLeft, Bit, Word, FrameNumber
<1> HIDE DEF x
<1>4. \A b \in Bit : b \in get_paddr(x) <=> b \in get_paddr(w)
  BY <1>1 DEF get_paddr, get_bit, ShiftRight, Bit
<1>5. \A b \in Bit : b \in SwapBits(x) <=> b \in LowBits(f)
  BY <1>2 DEF SwapBits, LowBits, get_bit, ShiftRight, Bit
<1>6. \A b \in Bit : b \in get_huge_bit(x) <=> b \in huge
  BY <1>3 DEF get_huge_bit, get_bit, ShiftRight, Bit
<1>7. /\ get_paddr(x) \subseteq Bit /\ get_paddr(w) \subseteq Bit /\ huge \subseteq Bit
      /\ SwapBits(x) \subseteq Bit /\ LowBits(f) \subseteq Bit /\ get_huge_bit(x) \subseteq Bit
  BY DEF get_paddr, get_huge_bit, get_bit, ShiftRight, Bit, SwapBits, LowBits
<1>8. get_paddr(x) = get_paddr(w) /\ SwapBits(x) = LowBits(f) /\ get_huge_bit(x) = huge
  BY <1>4, <1>5, <1>6, <1>7, ZenonT(60)
<1> QED
  BY <1>8 DEF x

\* what a visit makes of the word w of the record
Rewritten(w, pte, huge) ==
  save_huge_bit(IF entry_present(pte) = 1 THEN save_paddr(w, FrameOf(pte))
                ELSE save_swap_paddr(w, FrameOf(pte)), huge)

\* the word x holds what the entry says, and of w what the entry leaves open
Holds(x, w, pte, huge) ==
  /\ get_paddr(x) = IF 0 \in pte THEN FrameOf(pte) ELSE get_paddr(w)
  /\ 0 \notin pte => SwapBits(x) = LowBits(FrameOf(pte))
  /\ get_huge_bit(x) = huge

(* The word after a visit, whatever it held before.                        *)
LEMMA VisitedWord ==
  ASSUME NEW w \in Word, NEW pte \in Word, NEW huge \in SUBSET {0}, Fits(pte)
  PROVE  Holds(Rewritten(w, pte, huge), w, pte, huge)
<1>1. FrameOf(pte) \in FrameNumber
  BY FrameOfType, SMTT(30)
<1>2. CASE 0 \in pte
  <2>1. entry_present(pte) = 1
    BY <1>2, SMTT(30) DEF entry_present
  <2> QED
    BY <1>1, <1>2, <2>1, PaddrRoundTrip DEF Rewritten, Holds
<1>3. CASE 0 \notin pte
  <2>1. entry_present(pte) # 1 /\ 27 \notin FrameOf(pte)
    BY <1>3 DEF entry_present, Fits
  <2> QED
    BY <1>1, <1>3, <2>1, SwapRoundTrip DEF Rewritten, Holds
<1> QED
  BY <1>2, <1>3

(* A page that has a record: compare_swap() on the packed record is        *)
(* Analyzer's on the unpacked one.                                         *)
THEOREM RevisitUnpacked ==
  ASSUME NEW r \in PackedRecord, NEW pte \in Word, NEW huge \in SUBSET {0}, Fits(pte),
         NEW tab, NEW va \in DOMAIN tab, tab[va] = Unpacked(r)
  PROVE  Unpacked(Revisited(r, pte, entry_present(pte), huge))
           = Compared(tab, va, EntryOf(pte, huge), 0)
<1> DEFINE v == entry_present(pte)
           f == FrameOf(pte)
           x == Rewritten(r.paddr, pte, huge)
           s == Seen(r.present_times, v)
<1>1. r.present_times \in 0 .. 255 /\ r.paddr \in Word
  BY DEF PackedRecord
<1>2. v \in ValidBit /\ (v = 1 <=> 0 \in pte) /\ v \in {0, 1}
  BY PresentType DEF ValidBit
<1>3. /\ get_paddr(x) = IF 0 \in pte THEN f ELSE get_paddr(r.paddr)
      /\ 0 \notin pte => SwapBits(x) = LowBits(f)
      /\ get_huge_bit(x) = huge
  <2>1. Holds(x, r.paddr, pte, huge)
    BY <1>1, VisitedWord, ZenonT(60)
  <2> QED
    BY <2>1, ZenonT(60) DEF Holds
<1>4. Revisited(r, pte, v, huge) = [present_times |-> s, weight |-> 1, paddr |-> x]
  BY DEF Revisited, Rewritten
<1> DEFINE n == get_change_number(r.present_times)
<1> HIDE DEF v, f, x
<1>5. /\ s % 2 = v
      /\ get_change_number(s) = IF r.present_times % 2 = v \/ n = 127 THEN n ELSE n + 1
  BY <1>1, <1>2, SeenCounts, ZenonT(60)
<1>6. n \in 0 .. 127
  BY <1>1, SMTT(30) DEF get_change_number
<1> HIDE DEF s
<1>7. get_change_number(s) >= CHANGE_LIMIT <=> n >= CHANGE_LIMIT \/ r.present_times % 2 # v
  <2> HIDE DEF n
  <2> QED
    BY <1>5, <1>6 DEF CHANGE_LIMIT
<1>8. Unpacked([present_times |-> s, weight |-> 1, paddr |-> x]) =
        [valid |-> v, changed |-> (n >= CHANGE_LIMIT \/ r.present_times % 2 # v), weight |-> 1,
         hi |-> IF v = 1 THEN f ELSE get_paddr(r.paddr),
         lo |-> IF v = 1 THEN 0 ELSE LowBits(f),
         huge |-> IF 0 \in huge THEN 1 ELSE 0]
  <2> DEFINE g == get_change_number(s) >= CHANGE_LIMIT
             m == n >= CHANGE_LIMIT \/ r.present_times % 2 # v
  <2>1. g = m
    BY <1>7
  <2>2. Unpacked([present_times |-> s, weight |-> 1, paddr |-> x]) =
          [valid |-> s % 2, changed |-> g, weight |-> 1, hi |-> get_paddr(x),
           lo |-> IF s % 2 = 1 THEN 0 ELSE SwapBits(x), huge |-> IF 0 \in get_huge_bit(x) THEN 1 ELSE 0]
    BY ZenonT(60) DEF Unpacked
  <2> HIDE DEF g, m, n
  <2> QED
    BY <1>2, <1>3, <1>5, <2>1, <2>2, ZenonT(60) DEF m
<1>9. Compared(tab, va, EntryOf(pte, huge), 0) =
        [valid |-> v, changed |-> (n >= CHANGE_LIMIT \/ r.present_times % 2 # v), weight |-> 1,
         hi |-> IF v = 1 THEN f ELSE get_paddr(r.paddr),
         lo |-> IF v = 1 THEN 0 ELSE LowBits(f),
         huge |-> IF 0 \in huge THEN 1 ELSE 0]
  <2>1. tab[va].valid = r.present_times % 2 /\ tab[va].changed = (n >= CHANGE_LIMIT)
        /\ tab[va].hi = get_paddr(r.paddr)
    <3>1. /\ Unpacked(r).valid = r.present_times % 2
          /\ Unpacked(r).changed = (n >= CHANGE_LIMIT)
          /\ Unpacked(r).hi = get_paddr(r.paddr)
      BY ZenonT(60) DEF Unpacked
    <3> QED
      BY <3>1, ZenonT(60)
  <2>2. /\ EntryOf(pte, huge).valid = v
        /\ EntryOf(pte, huge).huge = IF 0 \in huge THEN 1 ELSE 0
        /\ EntryOf(pte, huge).val = IF v = 1 THEN f ELSE LowBits(f)
    BY <1>2 DEF EntryOf, v, f
  <2> HIDE DEF n
  <2> DEFINE e == EntryOf(pte, huge)
  <2>3. Compared(tab, va, e, 0) =
          [valid   |-> e.valid,
           changed |-> tab[va].changed \/ tab[va].valid # e.valid,
           weight  |-> 1,
           hi      |-> IF e.valid = 1 THEN e.val ELSE tab[va].hi,
           lo      |-> IF e.valid = 1 THEN 0 ELSE e.val,
           huge    |-> e.huge]
    BY ZenonT(60) DEF Compared
  <2> HIDE DEF e
  <2> QED
    BY <2>1, <2>2, <2>3, ZenonT(60) DEF e
<1> QED
  BY <1>4, <1>8, <1>9, ZenonT(60) DEF v

(* A page that has none: the uninitialised word is the junk of both.       *)
THEOREM FirstVisitUnpacked ==
  ASSUME NEW junk \in Word, NEW pte \in Word, NEW huge \in SUBSET {0}, Fits(pte),
         NEW tab, NEW va, va \notin DOMAIN tab
  PROVE  Unpacked(NewRecord(junk, pte, entry_present(pte), huge))
           = Compared(tab, va, EntryOf(pte, huge), get_paddr(junk))
<1> DEFINE v == entry_present(pte)
           f == FrameOf(pte)
           x == Rewritten(junk, pte, huge)
<1>1. (v = 1 <=> 0 \in pte) /\ v \in {0, 1}
  BY PresentType
<1>2. /\ get_paddr(x) = IF 0 \in pte THEN f ELSE get_paddr(junk)
      /\ 0 \notin pte => SwapBits(x) = LowBits(f)
      /\ get_huge_bit(x) = huge
  <2>1. Holds(x, junk, pte, huge)
    BY VisitedWord, ZenonT(60)
  <2> QED
    BY <2>1, ZenonT(60) DEF Holds
<1>3. NewRecord(junk, pte, v, huge) = [present_times |-> v, weight |-> 1, paddr |-> x]
  BY DEF NewRecord, Rewritten
<1> HIDE DEF v, f, x
<1>4. v % 2 = v /\ (get_change_number(v) >= CHANGE_LIMIT) = FALSE
  BY <1>1 DEF get_change_number, CHANGE_LIMIT
<1>5. Unpacked([present_times |-> v, weight |-> 1, paddr |-> x]) =
        [valid |-> v, changed |-> FALSE, weight |-> 1,
         hi |-> IF v = 1 THEN f ELSE get_paddr(junk),
         lo |-> IF v = 1 THEN 0 ELSE LowBits(f),
         huge |-> IF 0 \in huge THEN 1 ELSE 0]
  <2> DEFINE g == get_change_number(v) >= CHANGE_LIMIT
  <2>1. Unpacked([present_times |-> v, weight |-> 1, paddr |-> x]) =
          [valid |-> v % 2, changed |-> g, weight |-> 1, hi |-> get_paddr(x),
           lo |-> IF v % 2 = 1 THEN 0 ELSE SwapBits(x), huge |-> IF 0 \in get_huge_bit(x) THEN 1 ELSE 0]
    BY ZenonT(60) DEF Unpacked
  <2>2. g = FALSE
    BY <1>4
  <2> HIDE DEF g
  <2> QED
    BY <1>1, <1>2, <1>4, <2>1, <2>2, ZenonT(60)
<1>6. Compared(tab, va, EntryOf(pte, huge), get_paddr(junk)) =
        [valid |-> v, changed |-> FALSE, weight |-> 1,
         hi |-> IF v = 1 THEN f ELSE get_paddr(junk),
         lo |-> IF v = 1 THEN 0 ELSE LowBits(f),
         huge |-> IF 0 \in huge THEN 1 ELSE 0]
  <2> DEFINE e == EntryOf(pte, huge)
             old == [valid |-> e.valid, changed |-> FALSE, hi |-> get_paddr(junk)]
  <2>1. /\ e.valid = v
        /\ e.huge = IF 0 \in huge THEN 1 ELSE 0
        /\ e.val = IF v = 1 THEN f ELSE LowBits(f)
    BY <1>1, SMTT(30) DEF EntryOf, v, f
  <2>2. old.valid = e.valid /\ old.changed = FALSE /\ old.hi = get_paddr(junk)
    OBVIOUS
  <2>3. Compared(tab, va, e, get_paddr(junk)) =
          [valid   |-> e.valid,
           changed |-> old.changed \/ old.valid # e.valid,
           weight  |-> 1,
           hi      |-> IF e.valid = 1 THEN e.val ELSE old.hi,
           lo      |-> IF e.valid = 1 THEN 0 ELSE e.val,
           huge    |-> e.huge]
    BY ZenonT(60) DEF Compared
  <2> HIDE DEF e, old
  <2>4. (old.changed \/ old.valid # e.valid) = FALSE
    BY <2>2, ZenonT(60)
  <2> QED
    BY <2>1, <2>2, <2>3, <2>4, ZenonT(60) DEF e
<1> QED
  BY <1>3, <1>5, <1>6, ZenonT(60) DEF v

(* calculate_all_page() counts a packed record when it counts the unpacked *)
(* one, and takes the weight of both.                                      *)
THEOREM CountsUnpacked ==
  ASSUME NEW r \in PackedRecord
  PROVE  /\ RecordCounts(r) <=> Counts(Unpacked(r))
         /\ Unpacked(RecordDecayed(r)) = [Unpacked(r) EXCEPT !.weight = 0]
<1>1. RecordCounts(r) <=> Counts(Unpacked(r))
  BY ZenonT(60) DEF RecordCounts, Counts, Unpacked
<1>2. RecordDecayed(r) = [present_times |-> r.present_times, weight |-> 0, paddr |-> r.paddr]
  BY DEF RecordDecayed, PackedRecord
<1>3. Unpacked(RecordDecayed(r)) =
        [valid |-> Unpacked(r).valid, changed |-> Unpacked(r).changed, weight |-> 0,
         hi |-> Unpacked(r).hi, lo |-> Unpacked(r).lo, huge |-> Unpacked(r).huge]
  <2> DEFINE d == RecordDecayed(r)
  <2>1. d.present_times = r.present_times /\ d.weight = 0 /\ d.paddr = r.paddr
    BY <1>2, SMTT(30)
  <2> HIDE DEF d
  <2>2. Unpacked(d) =
          [valid   |-> r.present_times % 2,
           changed |-> get_change_number(r.present_times) >= CHANGE_LIMIT,
           weight  |-> 0,
           hi      |-> get_paddr(r.paddr),
           lo      |-> IF r.present_times % 2 = 1 THEN 0 ELSE SwapBits(r.paddr),
           huge    |-> IF 0 \in get_huge_bit(r.paddr) THEN 1 ELSE 0]
    BY <2>1, ZenonT(60) DEF Unpacked
  <2>3. /\ Unpacked(r).valid = r.present_times % 2
        /\ Unpacked(r).changed = (get_change_number(r.present_times) >= CHANGE_LIMIT)
        /\ Unpacked(r).hi = get_paddr(r.paddr)
        /\ Unpacked(r).lo = IF r.present_times % 2 = 1 THEN 0 ELSE SwapBits(r.paddr)
        /\ Unpacked(r).huge = IF 0 \in get_huge_bit(r.paddr) THEN 1 ELSE 0
    BY ZenonT(60) DEF Unpacked
  <2> QED
    BY <2>2, <2>3, ZenonT(60) DEF d
<1>4. ASSUME NEW a, NEW b, NEW c, NEW d, NEW e, NEW g
      PROVE  [[valid |-> a, changed |-> b, weight |-> c, hi |-> d, lo |-> e, huge |-> g] EXCEPT !.weight = 0]
               = [valid |-> a, changed |-> b, weight |-> 0, hi |-> d, lo |-> e, huge |-> g]
  OBVIOUS
<1>5. IsRecord(Unpacked(r))
  BY ZenonT(60) DEF IsRecord, Unpacked
<1>6. [Unpacked(r) EXCEPT !.weight = 0] =
        [valid |-> Unpacked(r).valid, changed |-> Unpacked(r).changed, weight |-> 0,
         hi |-> Unpacked(r).hi, lo |-> Unpacked(r).lo, huge |-> Unpacked(r).huge]
  BY <1>4, <1>5 DEF IsRecord
<1> QED
  BY <1>1, <1>3, <1>6, SMTT(30)

=============================================================================
