---------------------------- MODULE TokenBucket ----------------------------
(***************************************************************************)
(* What the relay's bandwidth cap promises (server/src/ratelimit.rs:1-17): *)
(* a chunk reaches the writer only once it has been admitted, and what is  *)
(* admitted at a rate above 0 is paid for from an ideal bucket that gains  *)
(* `rate` per tick and holds one second's worth.  A change of the rate     *)
(* grants at most one burst at the new rate; rate 0 admits everything.     *)
(* In any period of constant rate r that lasts t seconds, then, no more    *)
(* than r + r * t bytes are admitted.                                      *)
(*                                                                         *)
(* Time is counted in ticks, Second of them to a second, and tokens in     *)
(* bytes / Second, so that every quantity is an integer.                   *)
(***************************************************************************)
EXTENDS Integers

CONSTANTS
    Second,         \* ticks per second
    Rates,          \* values the rate may have, in bytes per second
    Chunks          \* sizes a read may return, in bytes

VARIABLES
    rate,           \* the cap in force
    level,          \* tokens in the ideal bucket
    admitted        \* bytes admitted and not yet written

bucketVars == <<rate, level, admitted>>

Lesser(a, b) == IF a <= b THEN a ELSE b

Init ==
    /\ rate \in Rates
    /\ level = rate * Second
    /\ admitted = 0

Tick ==
    /\ level' = Lesser(level + rate, rate * Second)
    /\ UNCHANGED <<rate, admitted>>

SetRate ==
    /\ rate' \in Rates
    /\ level' \in 0 .. rate' * Second
    /\ UNCHANGED admitted

Admit ==
    /\ admitted = 0
    /\ admitted' \in Chunks
    /\ \/ /\ rate = 0
          /\ UNCHANGED level
       \/ /\ admitted' * Second <= level
          /\ level' = level - admitted' * Second
    /\ UNCHANGED rate

Written ==
    /\ admitted' = 0
    /\ UNCHANGED <<rate, level>>

Next == Tick \/ SetRate \/ Admit \/ Written

Spec == Init /\ [][Next]_bucketVars
=============================================================================
