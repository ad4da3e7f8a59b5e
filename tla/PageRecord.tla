----------------------------- MODULE PageRecord -----------------------------
(***************************************************************************)
(* What the Dom0 tool keeps for one virtual page of one process: struct    *)
(* mapData, packed into a 64-bit word and a byte, and how compare_swap()   *)
(* updates it each time the page walk passes the page.                     *)
(*                                                                         *)
(* A machine word is the set of the positions of its 1 bits, so that the   *)
(* masks and shifts have their real width.  A byte is a number.            *)
(***************************************************************************)
EXTENDS Integers

CONSTANTS
  Ptes,      \* page-table entries the guest uses: sets of bit positions
  Stack,     \* words the uninitialised mapVal.paddr may hold
  MaxFlips,  \* bound on the number of valid/swap transitions explored
  NoRecord

Bit  == 0 .. 63
Word == SUBSET Bit

ASSUME RecordAssumption ==
  /\ Ptes \subseteq Word
  /\ Stack \subseteq Word
  /\ MaxFlips \in Nat
  /\ NoRecord \notin [present_times : Nat, weight : {0, 1}, paddr : Word]

CHANGE_LIMIT == 1

-----------------------------------------------------------------------------
(* Bit fields.                                                             *)

ShiftLeft(w, n)  == {b \in Bit : b - n \in w}
ShiftRight(w, n) == {b \in Bit : b + n \in w}

get_bit(entry, num, position) == ShiftRight(entry \cap (position .. position + num - 1), position)

clear_bit(addr, start, end) == addr \ (start .. end)

\* A plausible slip: the field is read one bit too low.
get_paddr_low(addr) == get_bit(addr, 36, 27)

get_paddr(addr)    == get_bit(addr, 36, 28)
get_huge_bit(addr) == get_bit(addr, 1, 0)

\* A plausible slip: the old frame number is not cleared first.
save_paddr_or(addr, val) == addr \cup ShiftLeft(val, 28)

save_paddr(addr, val)      == clear_bit(addr, 28, 63) \cup ShiftLeft(val, 28)

\* A plausible slip: one bit too many is cleared.
save_swap_paddr_wide(addr, val) ==
  clear_bit(addr, 1, 28) \cup ShiftLeft(val \cap ((0 .. 27) \ {24}), 1)

\* 0xeffffff: bits 0 to 27 without 24.
save_swap_paddr(addr, val) == clear_bit(addr, 1, 27) \cup ShiftLeft(val \cap ((0 .. 27) \ {24}), 1)
save_huge_bit(addr, val)   == clear_bit(addr, 0, 0) \cup (val \cap {0})

\* ADDR_MASK is bits 0 to 47.
FrameOf(pte) == ShiftRight(pte \cap (0 .. 47), 12)

entry_present(pte) == IF 0 \in pte THEN 1 ELSE 0

-----------------------------------------------------------------------------
(* present_times: bit 0 is the valid bit, bits 1 to 7 count transitions.   *)

get_change_number(value) == (value \div 2) % 128

\* A plausible slip: no saturation.
add_change_number_wraps(value) == ((2 * (get_change_number(value) + 1)) % 256) + (value % 2)

add_change_number(value) ==
  LET number == get_change_number(value)
  IN  IF number < 127 THEN ((2 * (number + 1)) % 256) + (value % 2) ELSE value

\* The record of a page that has none yet; junk is what the stack held.
NewRecord(junk, pte, valid_bit, huge_bit) ==
  [present_times |-> valid_bit,
   weight |-> 1,
   paddr |-> save_huge_bit(
     IF valid_bit = 1 THEN save_paddr(junk, FrameOf(pte)) ELSE save_swap_paddr(junk, FrameOf(pte)),
     huge_bit)]

\* A plausible slip: every visit counts as a transition.
SeenEachTime(value, valid_bit) == 2 * get_change_number(add_change_number(value)) + valid_bit

\* A transition either way is counted; the valid bit follows the entry.
Seen(value, valid_bit) ==
  IF value % 2 = valid_bit THEN value
  ELSE 2 * get_change_number(add_change_number(value)) + valid_bit

Revisited(rec, pte, valid_bit, huge_bit) ==
  [present_times |-> Seen(rec.present_times, valid_bit),
   weight |-> 1,
   paddr |-> save_huge_bit(
     IF valid_bit = 1 THEN save_paddr(rec.paddr, FrameOf(pte))
                      ELSE save_swap_paddr(rec.paddr, FrameOf(pte)),
     huge_bit)]

\* calculate_all_page() counts the record of a valid page, and that of a
\* swapped page that has changed often enough.
RecordCounts(rec) ==
  rec.present_times % 2 = 1 \/ get_change_number(rec.present_times) >= CHANGE_LIMIT

\* weight is a short: 1 * 0.9 becomes 0.
RecordDecayed(rec) == [rec EXCEPT !.weight = 0]

-----------------------------------------------------------------------------
VARIABLES
  rec,     \* the entry of h for this page, or NoRecord
  last,    \* history: entry and huge bit of the last visit
  frame,   \* history: frame number of the last visit that found it valid
  flips    \* history: transitions between visits since the record was made

rvars == <<rec, last, frame, flips>>

RInit ==
  /\ rec = NoRecord
  /\ last = [pte |-> {}, huge |-> {}]
  /\ frame = {}
  /\ flips = 0

\* compare_swap(), as page_walk_ia32e() calls it: valid_bit is the present
\* bit of the entry, and only present entries are huge pages.
compare_swap(pte, huge) ==
  /\ 0 \in huge => 0 \in pte
  /\ last' = [pte |-> pte, huge |-> huge]
  /\ frame' = IF 0 \in pte THEN FrameOf(pte) ELSE IF rec = NoRecord THEN {} ELSE frame
  /\ \/ /\ rec = NoRecord
        /\ \E junk \in Stack : rec' = NewRecord(junk, pte, entry_present(pte), huge)
        /\ flips' = 0
     \/ /\ rec # NoRecord
        /\ rec' = Revisited(rec, pte, entry_present(pte), huge)
        /\ flips' = IF (0 \in pte) = (0 \in last.pte) THEN flips ELSE flips + 1
        /\ flips' <= MaxFlips

Decay ==
  /\ rec # NoRecord
  /\ rec' = RecordDecayed(rec)
  /\ UNCHANGED <<last, frame, flips>>

\* h.clear() after a bus error, or the table is erased by retrieve_list().
Forget ==
  /\ rec # NoRecord
  /\ rec' = NoRecord
  /\ last' = [pte |-> {}, huge |-> {}]
  /\ frame' = {}
  /\ flips' = 0

RNext ==
  \/ \E pte \in Ptes, huge \in {{}, {0}} : compare_swap(pte, huge)
  \/ Decay
  \/ Forget

RSpec == RInit /\ [][RNext]_rvars

-----------------------------------------------------------------------------
(* Properties.                                                             *)

TypeOK ==
  /\ rec \in [present_times : 0 .. 255, weight : {0, 1}, paddr : Word] \cup {NoRecord}
  /\ last \in [pte : Word, huge : SUBSET {0}]
  /\ frame \in Word
  /\ flips \in 0 .. MaxFlips

Kept == rec # NoRecord

(* Whatever the word held before, from the stack or from earlier visits of *)
(* either kind, the record of a page last seen present yields exactly the  *)
(* frame number and the huge bit of the entry it was made from.            *)
FrameRecorded ==
  Kept /\ rec.present_times % 2 = 1 =>
    get_paddr(rec.paddr) = FrameOf(last.pte) /\ get_huge_bit(rec.paddr) = last.huge

(* present_times holds the present bit of the last visit and the number of *)
(* transitions so far, saturated at 127 and never wrapping to 0, so a page *)
(* that changed once is never forgotten by CHANGE_LIMIT.                   *)
ChangesCounted ==
  Kept => /\ rec.present_times % 2 = entry_present(last.pte)
          /\ get_change_number(rec.present_times) = IF flips < 127 THEN flips ELSE 127

(* A page that was seen present keeps its frame number while it is swapped *)
(* out, over any number of visits: the swap address that save_swap_paddr() *)
(* writes beside it changes no bit of it but the lowest, which the mask    *)
(* 0xeffffff lets bit 27 of the address set.                               *)
FrameRemembered ==
  Kept /\ (0 \in last.pte \/ flips > 0) =>
    frame \subseteq get_paddr(rec.paddr) /\ get_paddr(rec.paddr) \subseteq frame \cup {0}
=============================================================================
