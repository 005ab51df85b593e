-------------------------- MODULE MCQueuedDispatch --------------------------
(* QueuedDispatch for TLC: one task, competing worker processes.           *)
EXTENDS QueuedDispatch, TLC

WorkerSymmetry == Permutations(Workers)

=============================================================================
