--------------------------- MODULE MCObservability ---------------------------
(* Values for the constants of Observability. *)
EXTENDS Observability, TLC

CONSTANTS t1, t2, t3

\* Calls that meet on a counter, and some with numbers that do not count.
MCCalls ==
  {[op |-> "fetch", mode |-> "full"], [op |-> "fetch", mode |-> "grep"],
   [op |-> "compaction", chars |-> -2],
   [op |-> "structured", attempted |-> 2, pruned |-> 1, rescued |-> 0, insufficient |-> 0,
    saved |-> 4]}

ThreadSymmetry == Permutations(Threads)
=============================================================================
