----------------------------- MODULE MCConsume -----------------------------
(***************************************************************************)
(* Instances of Consume for TLC.                                           *)
(***************************************************************************)
EXTENDS Consume

CONSTANTS d1, d2, p1, p2

Network(prefer_direct, direct_path, initial_backoff, max_backoff) ==
    [prefer_direct |-> prefer_direct, direct_path |-> direct_path,
     initial_backoff |-> initial_backoff, max_backoff |-> max_backoff]

Reachable == Network(TRUE, TRUE, 1, 2)
BehindNat == Network(TRUE, FALSE, 2, 1)     \* the first backoff is above the cap
RelayOnly == Network(FALSE, FALSE, 1, 1)

AllSetups == {Reachable, BehindNat, RelayOnly}
=============================================================================
