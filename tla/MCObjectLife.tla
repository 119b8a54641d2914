---------------------------- MODULE MCObjectLife ----------------------------
(* ObjectLife for TLC with interchangeable places in memory.               *)
EXTENDS ObjectLife, TLC

Slots == Permutations(Slot)
=============================================================================
