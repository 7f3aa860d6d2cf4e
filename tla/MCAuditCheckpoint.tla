-------------------------- MODULE MCAuditCheckpoint --------------------------
(***************************************************************************)
(* AuditCheckpoint with a clock of an hour: the overlap of two hours and   *)
(* the lookback of four are the code's, the window of a day is scaled down *)
(* to four hours so that a run may need several.                           *)
(***************************************************************************)
EXTENDS AuditCheckpoint, TLC

CONSTANTS r1, r2, r3, c1

MCSymmetry == Permutations(Runs)

=============================================================================
