----------------------------- MODULE MCPassref -----------------------------
(* Values for the constants of Passref. *)
EXTENDS Passref, TLC

CONSTANTS h, k

MCLength == (h :> 2 @@ k :> 4)

MCArgs  == UNION {[1 .. n -> Handles] : n \in 0 .. 3}
MCCalls == [enabled : BOOLEAN, tool : Tools, session : BOOLEAN, args : MCArgs]
=============================================================================
