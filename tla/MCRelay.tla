------------------------------- MODULE MCRelay -------------------------------
(***************************************************************************)
(* Instances of Relay for TLC.                                             *)
(***************************************************************************)
EXTENDS Relay, TLC

CONSTANTS c1, c2, p1, p2, s1, g1, g2, t1, t2

TwoGroups == <<g1, g2>>
C1Overridden == [c \in Consumers |-> IF c = c1 THEN 3 ELSE None]

StreamSymmetry == Permutations(Streams)
=============================================================================
