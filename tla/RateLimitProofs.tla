-------------------------- MODULE RateLimitProofs --------------------------
(***************************************************************************)
(* The cap of RateLimit for every number of ticks in a second, every set   *)
(* of rates and every set of chunk sizes.                                  *)
(***************************************************************************)
EXTENDS RateLimit, TLAPS

(* The type invariant with what it takes to be inductive: a chunk past the *)
(* read has a size, and a chunk that waits was given a rate above 0.       *)
TaskInv ==
    /\ task.pc \in {"load", "refill", "sleep", "write"} => task.n \in Chunks
    /\ task.pc \in {"refill", "sleep"} => task.bps # 0

TypeInv == TypeOK /\ TaskInv

-----------------------------------------------------------------------------
(* Arithmetic of the bucket: h tokens a tick, capped at s ticks' worth.     *)

(* A burst is a natural number. *)
LEMMA BurstNat ==
    ASSUME NEW h \in Nat, NEW s \in Nat
    PROVE  h * s \in Nat
OBVIOUS

(* One more tick is one more h. *)
LEMMA OneMoreTick ==
    ASSUME NEW e \in Nat, NEW h \in Nat
    PROVE  (e + 1) * h = e * h + h
OBVIOUS

(* e ticks after a refill that left a, there is no more than a burst. *)
LEMMA FilledBound ==
    ASSUME NEW a \in Nat, NEW e \in Nat, NEW h \in Nat, NEW s \in Nat
    PROVE  Lesser(a + e * h, h * s) \in 0 .. h * s
<1>1. e * h \in Nat /\ h * s \in Nat
  BY BurstNat
<1> QED BY <1>1 DEF Lesser

(* No tick after a refill that left a, there is still a. *)
LEMMA FilledAtOnce ==
    ASSUME NEW a \in Nat, NEW h \in Nat, NEW s \in Nat, a <= h * s
    PROVE  Lesser(a + 0 * h, h * s) = a
<1>1. h * s \in Nat
  BY BurstNat
<1>2. 0 * h = 0
  OBVIOUS
<1>3. a + 0 * h = a
  BY <1>2
<1> QED BY <1>1, <1>3 DEF Lesser

(* A wait is a natural number. *)
LEMMA WaitNat ==
    ASSUME NEW deficit \in Nat \ {0}, NEW bps \in Nat \ {0}
    PROVE  Wait(deficit, bps) \in Nat
<1>1. (deficit + bps - 1) \div bps \in Int
  OBVIOUS
<1> QED BY <1>1 DEF Wait, Greater

(* A refill leaves between what there was at rate 0 and a burst otherwise. *)
LEMMA RefilledBound ==
    ASSUME TypeOK
    PROVE  /\ Refilled \in Nat
           /\ handle # 0 => Refilled \in 0 .. handle * Second
           /\ handle = 0 => Refilled = available
<1>1. handle \in Nat /\ elapsed \in Nat /\ Second \in Nat
  BY RateAssumption DEF TypeOK
<1>2. elapsed * handle \in Nat /\ handle * Second \in Nat
  BY <1>1, BurstNat
<1>3. available \in Nat
  BY RateAssumption DEF TypeOK
<1> QED BY <1>1, <1>2, <1>3 DEF Refilled, Lesser

-----------------------------------------------------------------------------
(* The inductive invariant holds initially. *)
LEMMA InitTypeInv == Init => TypeInv
<1> SUFFICES ASSUME Init PROVE TypeInv
  OBVIOUS
<1>1. handle \in Nat /\ Second \in Nat
  BY RateAssumption DEF Init
<1>2. handle * Second \in Nat
  BY <1>1, BurstNat
<1>3. available \in 0 .. handle * Second
  BY <1>2 DEF Init
<1>4. task \in TaskType
  BY DEF Init, Reading, TaskType
<1> QED BY <1>1, <1>3, <1>4 DEF Init, TypeInv, TypeOK, TaskInv, Reading

(* Every step preserves it. *)
LEMMA NextTypeInv == TypeInv /\ [Next]_vars => TypeInv'
<1> SUFFICES ASSUME TypeInv, [Next]_vars PROVE TypeInv'
  OBVIOUS
<1> USE DEF TypeInv
<1>c. /\ Second \in Nat \ {0} /\ Rates \subseteq Nat /\ Chunks \subseteq Nat \ {0}
  BY RateAssumption
<1>1. CASE Read
  BY <1>1, <1>c DEF Read, TypeOK, TaskInv, TaskType
<1>2. CASE Load
  BY <1>2, <1>c DEF Load, TypeOK, TaskInv, TaskType
<1>3. CASE Acquire
  <2>1. /\ Refilled \in Nat
        /\ handle # 0 => Refilled \in 0 .. handle * Second
        /\ handle = 0 => Refilled = available
    BY RefilledBound
  <2>2. task.n * Second \in Nat
    BY <1>3, <1>c, BurstNat DEF Acquire, TaskInv
  <2>3. PICK r \in Rates : Refilled <= r * Second
    <3>1. CASE handle # 0
      BY <2>1, <3>1 DEF TypeOK
    <3>2. CASE handle = 0
      BY <2>1, <3>2 DEF TypeOK
    <3> QED BY <3>1, <3>2
  <2>4. r * Second \in Nat
    BY <1>c, BurstNat
  <2>5. available' \in 0 .. r * Second
    BY <1>3, <2>1, <2>2, <2>3, <2>4 DEF Acquire, Enough
  <2>6. task' \in TaskType /\ TaskInv'
    <3>1. CASE Enough(Refilled, task.n * Second)
      BY <1>3, <3>1 DEF Acquire, TypeOK, TaskType, TaskInv
    <3>2. CASE ~Enough(Refilled, task.n * Second)
      <4>1. task.n * Second - Refilled \in Nat \ {0}
        BY <3>2, <2>1, <2>2 DEF Enough
      <4>2. task.bps \in Nat \ {0}
        BY <1>3, <1>c DEF Acquire, TypeOK, TaskType, TaskInv
      <4>3. Wait(task.n * Second - Refilled, task.bps) \in Nat
        BY <4>1, <4>2, WaitNat
      <4> QED BY <1>3, <3>2, <4>3 DEF Acquire, TypeOK, TaskType, TaskInv
    <3> QED BY <3>1, <3>2
  <2>7. handle' \in Rates /\ elapsed' \in 0 .. Second
    BY <1>3, <1>c DEF Acquire, TypeOK
  <2> QED BY <2>5, <2>6, <2>7 DEF TypeOK
<1>4. CASE Wake
  BY <1>4 DEF Wake, TypeOK, TaskInv, TaskType
<1>5. CASE Write
  BY <1>5 DEF Write, Reading, TypeOK, TaskInv, TaskType
<1>6. CASE UpdateRelayRate
  BY <1>6 DEF UpdateRelayRate, TypeOK, TaskInv
<1>7. CASE Tick
  <2>1. Greater(task.wait - 1, 0) \in Nat
    BY DEF Greater, TypeOK, TaskType
  <2>2. elapsed' \in 0 .. Second
    BY <1>7, <1>c DEF Tick, TypeOK, Lesser
  <2> QED BY <1>7, <2>1, <2>2 DEF Tick, TypeOK, TaskInv, TaskType
<1>8. CASE UNCHANGED vars
  BY <1>8 DEF vars, TypeOK, TaskInv
<1> QED BY <1>1, <1>2, <1>3, <1>4, <1>5, <1>6, <1>7, <1>8 DEF Next, Copy

(* The bucket's types: available tokens never negative, never above a      *)
(* burst at some configured rate (Bucket::refill, Bucket::acquire).        *)
THEOREM RateTypeCorrect == Spec => []TypeOK
<1>1. Spec => []TypeInv
  BY InitTypeInv, NextTypeInv, PTL DEF Spec
<1>2. TypeInv => TypeOK
  BY DEF TypeInv
<1> QED BY <1>1, <1>2, PTL

-----------------------------------------------------------------------------
(* The refinement: what an ideal bucket holds at each moment is Level.      *)

(* At a rate above 0 a refill gives exactly the ideal level, and right after *)
(* a refill (no tick elapsed) what is available is that level.               *)
LEMMA LevelAfterTake ==
    ASSUME TypeOK, TypeOK', handle # 0, handle' = handle, elapsed' = 0,
           available' <= handle * Second
    PROVE  Level' = available' /\ Level = Refilled
<1>1. handle \in Nat /\ Second \in Nat /\ available' \in Nat
  BY RateAssumption DEF TypeOK
<1>2. Level' = Lesser(available' + 0 * handle, handle * Second)
  BY DEF Level
<1>3. Level' = available'
  BY <1>1, <1>2, FilledAtOnce
<1>4. Level = Refilled
  BY DEF Level, Refilled
<1> QED BY <1>3, <1>4

(* A tick fills the ideal bucket by one tick's worth, up to the burst. *)
LEMMA LevelAfterTick ==
    ASSUME TypeOK, Tick
    PROVE  Level' = Lesser(Level + handle, handle * Second)
<1>1. handle \in Nat /\ elapsed \in Nat /\ Second \in Nat \ {0} /\ available \in Nat
      /\ elapsed <= Second
  BY RateAssumption DEF TypeOK
<1>2. /\ elapsed * handle \in Nat /\ handle * Second \in Nat
      /\ (elapsed + 1) * handle = elapsed * handle + handle
  BY <1>1, BurstNat, OneMoreTick
<1>3. handle' = handle /\ available' = available /\ elapsed' = Lesser(elapsed + 1, Second)
  BY DEF Tick
<1>4. CASE handle = 0
  <2>1. Level = 0 /\ Level' = 0
    BY <1>3, <1>4 DEF Level
  <2>2. handle * Second = 0
    BY <1>1, <1>4
  <2> QED BY <1>4, <2>1, <2>2 DEF Lesser
<1>5. CASE handle # 0 /\ elapsed + 1 <= Second
  <2>1. elapsed' = elapsed + 1
    BY <1>1, <1>3, <1>5 DEF Lesser
  <2>2. Level' = Lesser(available + (elapsed * handle + handle), handle * Second)
    BY <1>2, <1>3, <1>5, <2>1 DEF Level
  <2>3. Level = Lesser(available + elapsed * handle, handle * Second)
    BY <1>5 DEF Level
  <2> DEFINE p == elapsed * handle
             q == handle * Second
  <2>4. p \in Nat /\ q \in Nat
    BY <1>2
  <2>5. Level' = Lesser(available + (p + handle), q) /\ Level = Lesser(available + p, q)
    BY <2>2, <2>3
  <2> HIDE DEF p, q
  <2>6. Lesser(available + (p + handle), q) = Lesser(Lesser(available + p, q) + handle, q)
    BY <1>1, <2>4 DEF Lesser
  <2> QED BY <2>5, <2>6 DEF q
<1>6. CASE handle # 0 /\ ~(elapsed + 1 <= Second)
  <2>1. elapsed = Second /\ elapsed' = Second
    BY <1>1, <1>3, <1>6 DEF Lesser
  <2>2. Second * handle = handle * Second
    BY <1>1
  <2>3. Level = handle * Second /\ Level' = handle * Second
    BY <1>1, <1>2, <1>3, <1>6, <2>1, <2>2 DEF Level, Lesser
  <2> QED BY <1>1, <1>2, <2>3 DEF Lesser
<1> QED BY <1>4, <1>5, <1>6

(* Every step of the throttled copy is a step of the ideal bucket. *)
LEMMA StepRefines ==
    TypeInv /\ TypeInv' /\ [Next]_vars => [Ideal!Next]_(Ideal!bucketVars)
<1> SUFFICES ASSUME TypeInv, TypeInv', [Next]_vars
             PROVE  [Ideal!Next]_(Ideal!bucketVars)
  OBVIOUS
<1> DEFINE Adm == IF task.pc = "write" THEN task.n ELSE 0
<1>t. TypeOK /\ TypeOK' /\ TaskInv /\ TaskInv'
  BY DEF TypeInv
<1>c. /\ Second \in Nat \ {0} /\ Rates \subseteq Nat /\ Chunks \subseteq Nat \ {0}
  BY RateAssumption
<1>s. ASSUME UNCHANGED <<handle, Level, Adm>>
      PROVE  [Ideal!Next]_(Ideal!bucketVars)
  BY <1>s DEF Ideal!bucketVars
<1>1. CASE Read
  <2>1. UNCHANGED <<handle, Level, Adm>>
    BY <1>1, <1>t DEF Read, Level, TypeOK, TaskType
  <2> QED BY <1>s, <2>1
<1>2. CASE Load
  <2>1. UNCHANGED <<handle, Level>>
    BY <1>2 DEF Load, Level
  <2>2. CASE handle = 0
    <3>1. Adm = 0 /\ Adm' = task.n /\ task.n \in Chunks
      BY <1>2, <1>t, <2>2 DEF Load, TypeOK, TaskType, TaskInv
    <3>2. Ideal!Admit
      BY <2>1, <2>2, <3>1 DEF Ideal!Admit
    <3> QED BY <3>2 DEF Ideal!Next
  <2>3. CASE handle # 0
    <3>1. Adm = 0 /\ Adm' = 0
      BY <1>2, <1>t, <2>3 DEF Load, TypeOK, TaskType
    <3> QED BY <1>s, <2>1, <3>1
  <2> QED BY <2>2, <2>3
<1>3. CASE Acquire
  <2>1. handle' = handle /\ Adm = 0
    BY <1>3 DEF Acquire
  <2>2. /\ Refilled \in Nat
        /\ handle # 0 => Refilled \in 0 .. handle * Second
    BY <1>t, RefilledBound
  <2>n. task.n \in Chunks /\ task.n * Second \in Nat /\ handle * Second \in Nat
    BY <1>3, <1>t, <1>c, BurstNat DEF Acquire, TaskInv, TypeOK
  <2>3. CASE Enough(Refilled, task.n * Second)
    <3>1. Adm' = task.n /\ available' = Refilled - task.n * Second
      BY <1>3, <1>t, <2>3 DEF Acquire, TypeOK, TaskType
    <3>2. CASE handle = 0
      <4>1. Level' = Level
        BY <2>1, <3>2 DEF Level
      <4> QED BY <2>1, <2>n, <3>1, <3>2, <4>1 DEF Ideal!Admit, Ideal!Next
    <3>3. CASE handle # 0
      <4>1. elapsed' = 0
        BY <1>3, <3>3 DEF Acquire
      <4>2. available' <= handle * Second
        BY <2>2, <2>n, <3>1, <3>3
      <4>3. Level' = available' /\ Level = Refilled
        BY <1>t, <2>1, <3>3, <4>1, <4>2, LevelAfterTake
      <4>4. task.n * Second <= Level /\ Level' = Level - task.n * Second
        BY <2>3, <3>1, <4>3 DEF Enough
      <4> QED BY <2>1, <2>n, <3>1, <4>4 DEF Ideal!Admit, Ideal!Next
    <3> QED BY <3>2, <3>3
  <2>4. CASE ~Enough(Refilled, task.n * Second)
    <3>1. Adm' = 0 /\ available' = Refilled
      BY <1>3, <1>t, <2>4 DEF Acquire, TypeOK, TaskType
    <3>2. Level' = Level
      <4>1. CASE handle = 0
        BY <2>1, <4>1 DEF Level
      <4>2. CASE handle # 0
        <5>1. elapsed' = 0
          BY <1>3, <4>2 DEF Acquire
        <5> QED BY <1>t, <2>1, <2>2, <3>1, <4>2, <5>1, LevelAfterTake
      <4> QED BY <4>1, <4>2
    <3> QED BY <1>s, <2>1, <3>1, <3>2
  <2> QED BY <2>3, <2>4
<1>4. CASE Wake
  <2>1. UNCHANGED <<handle, Level, Adm>>
    BY <1>4, <1>t DEF Wake, Level, TypeOK, TaskType
  <2> QED BY <1>s, <2>1
<1>5. CASE Write
  <2>1. UNCHANGED <<handle, Level>>
    BY <1>5 DEF Write, Level
  <2>2. Adm' = 0
    BY <1>5 DEF Write, Reading
  <2> QED BY <2>1, <2>2 DEF Ideal!Written, Ideal!Next
<1>6. CASE UpdateRelayRate
  <2>1. handle' \in Rates /\ Adm' = Adm
    BY <1>6 DEF UpdateRelayRate
  <2>2. Level' \in 0 .. handle' * Second
    <3>1. handle' \in Nat /\ elapsed' \in Nat /\ Second \in Nat /\ available' \in Nat
      BY <1>t, <1>c DEF TypeOK
    <3>2. elapsed' * handle' \in Nat /\ handle' * Second \in Nat
      BY <3>1, BurstNat
    <3>3. CASE handle' = 0
      BY <3>2, <3>3 DEF Level
    <3>4. CASE handle' # 0
      <4>1. Level' = Lesser(available' + elapsed' * handle', handle' * Second)
        BY <3>4 DEF Level
      <4> QED BY <3>1, <4>1, FilledBound
    <3> QED BY <3>3, <3>4
  <2> QED BY <2>1, <2>2 DEF Ideal!SetRate, Ideal!Next
<1>7. CASE Tick
  <2>1. Level' = Lesser(Level + handle, handle * Second)
    BY <1>7, <1>t, LevelAfterTick
  <2>2. handle' = handle /\ Adm' = Adm
    BY <1>7, <1>t DEF Tick, TypeOK, TaskType
  <2> QED BY <2>1, <2>2 DEF Ideal!Tick, Ideal!Lesser, Lesser, Ideal!Next
<1>8. CASE UNCHANGED vars
  <2>1. UNCHANGED <<handle, Level, Adm>>
    BY <1>8 DEF vars, Level
  <2> QED BY <1>s, <2>1
<1> QED BY <1>1, <1>2, <1>3, <1>4, <1>5, <1>6, <1>7, <1>8 DEF Next, Copy

(* The throttled copy implements the ideal bucket: whatever the rates, the  *)
(* chunks and the moments at which the rate changes, copy_throttled admits  *)
(* to the writer no byte that an eagerly filled bucket would not.           *)
THEOREM CapIsKept == Spec => CapHolds
<1>1. Spec => []TypeInv
  BY InitTypeInv, NextTypeInv, PTL DEF Spec
<1>2. Init => Ideal!Init
  <2> SUFFICES ASSUME Init PROVE Ideal!Init
    OBVIOUS
  <2>1. handle \in Nat /\ Second \in Nat
    BY RateAssumption DEF Init
  <2>2. handle * Second \in Nat /\ 0 * handle = 0
    BY <2>1, BurstNat
  <2>3. Level = handle * Second
    <3>1. CASE handle = 0
      BY <2>1, <3>1 DEF Level
    <3>2. CASE handle # 0
      BY <2>1, <2>2, <3>2 DEF Init, Level, Lesser
    <3> QED BY <3>1, <3>2
  <2> QED BY <2>3 DEF Init, Reading, Ideal!Init
<1> QED BY <1>1, <1>2, StepRefines, PTL DEF Spec, CapHolds, Ideal!Spec
=============================================================================
