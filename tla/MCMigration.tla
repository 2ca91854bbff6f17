---------------------------- MODULE MCMigration ----------------------------
(* Values for the constants of Migration. *)
EXTENDS Migration

CONSTANTS h, k

\* What the indexes of two sessions say of one handle: readable ones that agree
\* and that differ, and pairs with one that is missing, damaged or not UTF-8.
Says(e) == [kind |-> "readable", blobs |-> [g \in Handles |-> e]]
MCIndexes ==
  {<<Says("good"), Says("swept")>>, <<Says("mismatched"), NoIndex>>,
   <<Says("swept"), NoIndex>>, <<Says("good"), Corrupt>>, <<NoIndex, Undecoded>>}

MCFiles == SUBSET Handles
=============================================================================
