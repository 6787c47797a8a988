---------------------------- MODULE MCLearningCore ----------------------------
(***************************************************************************)
(* Model-checking instance of LearningCore.  Twelve ingests can insert    *)
(* eleven patterns, one more than a memory of ten holds, so               *)
(* pruneWeakPatterns runs and evicts floor(10 * 0.1) = 1 pattern.         *)
(***************************************************************************)
EXTENDS LearningCore

=============================================================================
