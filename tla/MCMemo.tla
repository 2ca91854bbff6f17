------------------------------- MODULE MCMemo -------------------------------
(* Values for the constants of Memo. *)
EXTENDS Memo, TLC

CONSTANTS t1, t2, t3

\* Two sessions that see the same, one that sees two things, and results that are
\* not kept.
MCRequests ==
  {[session |-> "s", sight |-> "a", form |-> f] : f \in {"plain", "unkeyed", "uncopyable"}}
    \cup {[session |-> "s", sight |-> "b", form |-> "plain"],
          [session |-> "u", sight |-> "a", form |-> "plain"]}

ThreadSymmetry == Permutations(Threads)
=============================================================================
