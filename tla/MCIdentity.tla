----------------------------- MODULE MCIdentity -----------------------------
(***************************************************************************)
(* Instances of Identity for TLC.                                          *)
(***************************************************************************)
EXTENDS Identity

CONSTANTS p1, p2, k1, k2, k3, i1, i2, i3
=============================================================================
