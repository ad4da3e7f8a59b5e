---------------------------- MODULE MCPageRecord ----------------------------
(* PageRecord with entries over the present bit, the lowest bit of the   *)
(* frame number, and the two bits that save_swap_paddr() treats in its own *)
(* way (24 and 27 of the frame number).                                    *)
EXTENDS PageRecord

Entries == SUBSET {0, 12, 36, 39}
Garbage == {{}, {0, 3, 28, 40}, 0 .. 63}
=============================================================================
