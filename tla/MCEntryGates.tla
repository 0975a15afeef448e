---------------------------- MODULE MCEntryGates ----------------------------
(* EntryGates with interchangeable symbols.                                *)
EXTENDS EntryGates, TLC

Interchangeable == Permutations(Symbols)
=============================================================================
