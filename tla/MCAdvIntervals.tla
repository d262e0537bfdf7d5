--------------------------- MODULE MCAdvIntervals ---------------------------
(* Inputs of AdvIntervals for TLC. *)
EXTENDS AdvIntervals

\* The intervals next to which a comparison of intervals_calculate turns for
\* some number of slots, and both ends of the 16 bit range.
Turns == {0, 99, 125, 126, 149, 150, 250, 375, 499, 500, 549, 550, 624, 625,
          1000, 1124, 1125, 1374, 2375, 4624, 4625, 4999, 5000, 5124, 10240,
          10241, 65535}
\* ... and the fastest the service allows.
AllTurns == Turns \cup {100, 101, 124}
\* What is left when no client asks for less than 125 ms.
SlowTurns == {i \in Turns : i >= 125}
AnyInitial == {0, DefaultInterval}
=============================================================================
