----------------------------- MODULE RateLimit -----------------------------
(***************************************************************************)
(* copy_throttled and its token bucket (server/src/ratelimit.rs): the      *)
(* reply direction of one relayed stream.  The cap is an atomic that       *)
(* update_relay_rate may change between any two loads of it: acquire loads *)
(* it once into bps, and every refill loads it again.                      *)
(*                                                                         *)
(* Second ticks make a second.  Tokens are counted in bytes / Second, so   *)
(* a tick adds bps of them and a byte costs Second.  The f64 arithmetic of *)
(* the code is exact here.  elapsed is now - last_refill, which refill     *)
(* cannot tell apart beyond one second.                                    *)
(***************************************************************************)
EXTENDS Integers

CONSTANTS
    Second,         \* ticks per second
    Rates,          \* values the atomic may hold, in bytes per second
    Chunks          \* sizes a read may return, in bytes

ASSUME RateAssumption ==
    /\ Second \in Nat \ {0}
    /\ Rates \subseteq Nat
    /\ Chunks \subseteq Nat \ {0}

VARIABLES
    handle,         \* the RateLimitHandle
    available,      \* Bucket.available
    elapsed,        \* ticks since Bucket.last_refill
    task            \* the copy loop: pc, chunk n, bps of acquire, sleep left

vars == <<handle, available, elapsed, task>>

Lesser(a, b) == IF a <= b THEN a ELSE b
Greater(a, b) == IF a >= b THEN a ELSE b

TaskType == [pc : {"read", "load", "refill", "sleep", "write", "done"},
             n : Chunks \cup {0},
             bps : Rates \cup {0},
             wait : Nat]

(* Tokens are never negative and never exceed a burst at some rate that was *)
(* set, and elapsed has its bound.                                          *)
TypeOK ==
    /\ handle \in Rates
    /\ \E r \in Rates : available \in 0 .. r * Second
    /\ elapsed \in 0 .. Second
    /\ task \in TaskType

Reading == [pc |-> "read", n |-> 0, bps |-> 0, wait |-> 0]

(* Bucket::new takes one second's worth at the rate it finds. *)
Init ==
    /\ handle \in Rates
    /\ available = handle * Second
    /\ elapsed = 0
    /\ task = Reading

(* reader.read: a chunk, or end of file or an error, which end the loop. *)
Read ==
    /\ task.pc = "read"
    /\ \/ \E n \in Chunks : task' = [task EXCEPT !.pc = "load", !.n = n]
       \/ task' = [task EXCEPT !.pc = "done"]
    /\ UNCHANGED <<handle, available, elapsed>>

(* acquire loads the rate: 0 passes the chunk through. *)
Load ==
    /\ task.pc = "load"
    /\ task' = [task EXCEPT !.pc = IF handle = 0 THEN "write" ELSE "refill",
                            !.bps = handle]
    /\ UNCHANGED <<handle, available, elapsed>>

(* refill: at rate 0 it returns at once, else it tops the bucket up to one  *)
(* second's worth.                                                          *)
RefilledUncapped == IF handle = 0 THEN available ELSE available + elapsed * handle   \* mutant: no .min(cap)
Refilled ==
    IF handle = 0 THEN available
    ELSE Lesser(available + elapsed * handle, handle * Second)

(* The test of acquire's loop. *)
EnoughOffByOne(tokens, needed) == tokens > needed   \* mutant: off by one
EnoughAlways(tokens, needed) == TRUE   \* mutant: test dropped
Enough(tokens, needed) == tokens >= needed

(* The whole ticks that cover deficit / bps, at least one. *)
Wait(deficit, bps) == Greater((deficit + bps - 1) \div bps, 1)

(* One turn of acquire's loop: refill, then take the tokens or sleep. *)
Acquire ==
    LET needed == task.n * Second IN
    /\ task.pc = "refill"
    /\ elapsed' = IF handle = 0 THEN elapsed ELSE 0
    /\ \/ /\ Enough(Refilled, needed)
          /\ available' = Refilled - needed
          /\ task' = [task EXCEPT !.pc = "write"]
       \/ /\ ~Enough(Refilled, needed)
          /\ available' = Refilled
          /\ task' = [task EXCEPT !.pc = "sleep",
                                  !.wait = Wait(needed - Refilled, task.bps)]
    /\ UNCHANGED handle

Wake ==
    /\ task.pc = "sleep"
    /\ task.wait = 0
    /\ task' = [task EXCEPT !.pc = "refill"]
    /\ UNCHANGED <<handle, available, elapsed>>

(* writer.write_all: on to the next read, or an error ends the loop. *)
Write ==
    /\ task.pc = "write"
    /\ \/ task' = Reading
       \/ task' = [Reading EXCEPT !.pc = "done"]
    /\ UNCHANGED <<handle, available, elapsed>>

(* update_relay_rate stores another value in the atomic. *)
UpdateRelayRate ==
    /\ handle' \in Rates
    /\ UNCHANGED <<available, elapsed, task>>

Tick ==
    /\ elapsed' = Lesser(elapsed + 1, Second)
    /\ task' = [task EXCEPT !.wait = Greater(@ - 1, 0)]
    /\ UNCHANGED <<handle, available>>

Copy == Read \/ Load \/ Acquire \/ Wake \/ Write

Next == Copy \/ UpdateRelayRate \/ Tick

Spec == Init /\ [][Next]_vars

(* The relay task and the clock keep running; nobody has to change a rate. *)
FairSpec == Spec /\ WF_vars(Copy) /\ WF_vars(Tick)
-----------------------------------------------------------------------------
(***************************************************************************)
(* Properties.                                                             *)
(***************************************************************************)

(* The ideal bucket: what a refill at this moment would make available.     *)
Level ==
    IF handle = 0 THEN 0
    ELSE Lesser(available + elapsed * handle, handle * Second)

Ideal == INSTANCE TokenBucket
            WITH rate <- handle, level <- Level,
                 admitted <- IF task.pc = "write" THEN task.n ELSE 0

(* The lazy bucket, refilled only when a chunk asks and with the rate it    *)
(* finds then, admits no more than the ideal one: at most rate * (1 + t)    *)
(* bytes in t seconds at a constant rate (refill, acquire), while the rate  *)
(* may change between any two of its loads.                                 *)
CapHolds == Ideal!Spec

Blocked == task.pc \in {"load", "refill", "sleep"}

(* A chunk that fits is admitted: a tunnel does not stall while the rate     *)
(* stays at or above the chunk in hand, however it varies (acquire).  A      *)
(* rate set to 0, unlimited, while a chunk waits is not such a rate: acquire *)
(* has loaded the old one and refill adds nothing at 0, so the chunk waits   *)
(* until the rate is positive again.  The condition is needed: refill caps   *)
(* the bucket at one second's worth (line 65), so a chunk larger than the    *)
(* rate waits for ever, although acquire says it blocks "until `n` tokens    *)
(* are available" (line 69).                                                 *)
FittingIsAdmitted == (Blocked /\ [](Blocked => handle >= task.n)) ~> ~Blocked
=============================================================================
