---------------------------- MODULE MCExportGate ----------------------------
(* ExportGate for TLC with three interchangeable threads.                  *)
EXTENDS ExportGate, TLC

CONSTANTS T1, T2, T3

Threads == Permutations(Thread)
=============================================================================
