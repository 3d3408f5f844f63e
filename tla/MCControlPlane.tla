--------------------------- MODULE MCControlPlane ---------------------------
(***************************************************************************)
(* Instances of ControlPlane for TLC: the clients' configurations.         *)
(***************************************************************************)
EXTENDS ControlPlane, TLC

CONSTANTS c1, c2, c3, k1, k2, k3, g1, g2, s1, s2, sw, t1, t2, t3

AllActors == {k1, k2, k3, sw}
TwoActors == {k1, k2, sw}

OneToken == [g \in Groups |-> t1]
TwoTokens == [g \in Groups |-> IF g = g1 THEN t1 ELSE t2]

SameGroup == [c \in Clients |-> t1]
OwnGroups == [c \in Clients |-> IF c = c1 THEN t1 ELSE IF c = c2 THEN t2 ELSE t3]

C1Exposes == [c \in Clients |-> IF c = c1 THEN <<s1>> ELSE <<>>]
BothExpose == [c \in Clients |-> <<s1>>]

NobodyConsumes == [c \in Clients |-> {}]
C1Consumes == [c \in Clients |-> IF c = c1 THEN {s1} ELSE {}]
C2Consumes == [c \in Clients |-> IF c = c2 THEN {s1} ELSE {}]

ConnSymmetry == Permutations(Conns)
=============================================================================
