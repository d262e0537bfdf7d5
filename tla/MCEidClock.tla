----------------------------- MODULE MCEidClock -----------------------------
(* Inputs of EidClock for TLC: clocks that are about to roll over. *)
EXTENDS EidClock

\* The temporary key rolls over at 8, and the clock itself at 32.
AboutToRoll == {6, 29}
Zero == {0}
None == {}
=============================================================================
