--------------------------- MODULE MCCr3Sampler ---------------------------
(* Cr3Sampler with permutations of the interchangeable constants.          *)
EXTENDS Cr3Sampler, TLC

Interchangeable == Permutations(Cpus) \cup Permutations(Callers) \cup Permutations(Cr3s)
=============================================================================
