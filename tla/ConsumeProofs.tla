--------------------------- MODULE ConsumeProofs ---------------------------
(***************************************************************************)
(* The consumer of one service for every number of concurrent dials,       *)
(* provider identities, backoffs and faults.                               *)
(***************************************************************************)
EXTENDS Consume, TLAPS

(* For a dial whose last auth error met nobody between the look at the      *)
(* cache and the store: the id in the cache, every answer on its way there  *)
(* and the id of its own direct dial are newer than that error.             *)
NewerInv ==
    \A d \in Dials : ~raced[d] =>
        /\ cached # None => d \in cache_since
        /\ \A e \in Dials : Asking(e) => d \in since[e]
        /\ At(d, "direct") => d \in since[d]

(* A dial past ensure_provider_id has an id. *)
ProviderInv ==
    \A d \in Dials : dial[d].pc \in {"store", "direct", "relay", "bridged", "stranded"}
                      => dial[d].provider \in Ids

ConsumeInv == TypeOK /\ ProviderInv /\ NewerInv

Capped(b) == b = setup.initial_backoff \/ b <= setup.max_backoff

-----------------------------------------------------------------------------
(* The first backoff and every doubled one are within their bounds. *)
LEMMA BackoffBounds ==
    ASSUME setup \in Setups
    PROVE  /\ setup.initial_backoff \in Nat /\ setup.max_backoff \in Nat
           /\ \A b \in Nat : NextBackoff(b) \in Nat /\ NextBackoff(b) <= setup.max_backoff
BY ConsumeAssumption DEF NextBackoff

(* set_consumer_state leaves a status. *)
LEMMA StatusStep ==
    ASSUME NEW state \in {"Idle", "Dialing", "Live", "Failed"}, NEW mode \in {"direct", "relay", None},
           NEW error \in BOOLEAN, SetConsumerState(state, mode, error)
    PROVE  status' \in StatusType
<1>1. (error \/ (status.error /\ state # "Live")) \in BOOLEAN
  OBVIOUS
<1> QED BY <1>1, Zenon DEF SetConsumerState, StatusType

(* The initial states. *)
LEMMA InitInv == Init => ConsumeInv
<1> SUFFICES ASSUME Init PROVE ConsumeInv
  OBVIOUS
<1>1. dial \in [Dials -> DialType] /\ \A d \in Dials : dial[d].backoff = 0
  BY DEF Init, DialType
<1>2. status \in StatusType
  BY DEF Init, StatusType
<1>3. setup \in Setups
  BY DEF Init
<1>4. 0 <= setup.max_backoff
  BY <1>3, BackoffBounds
<1>5. since \in [Dials -> SUBSET Dials] /\ cache_since \subseteq Dials /\ raced \in [Dials -> BOOLEAN]
  BY DEF Init
<1>6. TypeOK
  BY <1>1, <1>2, <1>4, <1>5, ConsumeAssumption DEF Init, TypeOK
<1>7. ProviderInv /\ NewerInv
  BY DEF Init, ProviderInv, NewerInv, Asking, At
<1> QED BY <1>6, <1>7 DEF ConsumeInv

(* A step of a dial changes its own pc, provider and backoff, within their  *)
(* types, and keeps the cap.                                                *)
LEMMA DialStepType ==
    ASSUME TypeOK, NEW d \in Dials,
           NEW pc \in {"idle", "ensure", "subscribe", "store", "direct", "relay", "bridged",
                      "stranded", "sleep", "live", "failed"},
           NEW id \in Ids \cup {None},
           Goto(d, pc) \/ GotProvider(d, id, pc) \/ Returns(d, pc), setup' = setup
    PROVE  dial' \in [Dials -> DialType] /\ \A e \in Dials : Capped(dial[e].backoff)'
<1>1. setup \in Setups /\ dial \in [Dials -> DialType] /\ \A e \in Dials : Capped(dial[e].backoff)
  BY DEF TypeOK, Capped
<1>2. dial' \in [Dials -> DialType]
  BY <1>1 DEF Goto, GotProvider, Returns, DialType
<1>3. ASSUME NEW e \in Dials PROVE dial'[e].backoff = dial[e].backoff \/ dial'[e].backoff = 0
  BY <1>1 DEF Goto, GotProvider, Returns, DialType
<1>4. 0 <= setup.max_backoff
  BY <1>1, BackoffBounds
<1> QED BY <1>1, <1>2, <1>3, <1>4 DEF Capped

(* Every variable keeps its type; the backoff stays within its cap. *)
LEMMA TypeStep == ConsumeInv /\ [Next]_vars => TypeOK'
<1> SUFFICES ASSUME ConsumeInv, [Next]_vars PROVE TypeOK'
  OBVIOUS
<1>1. FirstDial \in {"direct", "relay"}
  BY DEF FirstDial
<1>2. Fault => faults' \in 0 .. MaxFaults
  BY ConsumeAssumption DEF Fault, ConsumeInv, TypeOK
<1>t. TypeOK /\ ProviderInv
  BY DEF ConsumeInv
<1>s. since \in [Dials -> SUBSET Dials] /\ cache_since \subseteq Dials /\ raced \in [Dials -> BOOLEAN]
  BY <1>t DEF TypeOK
<1>g. ASSUME dial' \in [Dials -> DialType], \A e \in Dials : Capped(dial[e].backoff)',
             setup' \in Setups, alive' \subseteq Ids, record' \in Ids \cup {None},
             cached' \in Ids \cup {None}, status' \in StatusType, faults' \in 0 .. MaxFaults,
             since' \in [Dials -> SUBSET Dials], cache_since' \subseteq Dials,
             raced' \in [Dials -> BOOLEAN]
      PROVE  TypeOK'
  BY <1>g DEF TypeOK, Capped
<1> USE DEF TypeOK
<1>3. ASSUME NEW d \in Dials, Accept(d) PROVE TypeOK'
  <2>1. status' \in StatusType
    BY <1>3, StatusStep DEF Accept
  <2>2. dial' \in [Dials -> DialType] /\ \A e \in Dials : Capped(dial[e].backoff)'
    <3>1. setup.initial_backoff \in Nat /\ \A e \in Dials : Capped(dial[e].backoff)
      BY <1>t, BackoffBounds DEF Capped
    <3>2. dial' \in [Dials -> DialType]
      BY <1>3, <1>t, <3>1 DEF Accept, DialType
    <3>3. ASSUME NEW e \in Dials
          PROVE  dial'[e].backoff = dial[e].backoff \/ dial'[e].backoff = setup.initial_backoff
      BY <1>3, <1>t DEF Accept, DialType
    <3> QED BY <1>3, <3>1, <3>2, <3>3 DEF Accept, Capped
  <2> QED BY <1>3, <1>g, <1>s, <1>t, <2>1, <2>2 DEF Accept, history
<1>4. ASSUME NEW d \in Dials, EnsureCached(d) PROVE TypeOK'
  <2>1. dial' \in [Dials -> DialType] /\ \A e \in Dials : Capped(dial[e].backoff)'
    BY <1>1, <1>4, <1>t, DialStepType DEF EnsureCached
  <2>2. /\ since' \in [Dials -> SUBSET Dials] /\ cache_since' \subseteq Dials
        /\ raced' \in [Dials -> BOOLEAN]
    BY <1>4, <1>s DEF EnsureCached
  <2> QED BY <1>4, <1>g, <1>t, <2>1, <2>2 DEF EnsureCached
<1>5. ASSUME NEW d \in Dials, EnsureAsks(d) PROVE TypeOK'
  <2>1. dial' \in [Dials -> DialType] /\ \A e \in Dials : Capped(dial[e].backoff)'
    BY <1>1, <1>5, <1>t, DialStepType DEF EnsureAsks
  <2>2. /\ since' \in [Dials -> SUBSET Dials] /\ cache_since' \subseteq Dials
        /\ raced' \in [Dials -> BOOLEAN]
    BY <1>5, <1>s DEF EnsureAsks
  <2> QED BY <1>5, <1>g, <1>t, <2>1, <2>2 DEF EnsureAsks
<1>6. ASSUME NEW d \in Dials, Subscribed(d) PROVE TypeOK'
  <2>1. dial' \in [Dials -> DialType] /\ \A e \in Dials : Capped(dial[e].backoff)'
    BY <1>1, <1>6, <1>t, DialStepType DEF Subscribed
  <2> QED BY <1>6, <1>g, <1>t, <2>1, <1>s DEF Subscribed, history
<1>7. ASSUME NEW d \in Dials, SubscribeFails(d) PROVE TypeOK'
  <2>1. dial' \in [Dials -> DialType] /\ \A e \in Dials : Capped(dial[e].backoff)'
    BY <1>1, <1>7, <1>t, DialStepType DEF SubscribeFails
  <2>2. /\ since' \in [Dials -> SUBSET Dials] /\ cache_since' \subseteq Dials
        /\ raced' \in [Dials -> BOOLEAN]
    BY <1>7, <1>s DEF SubscribeFails
  <2> QED BY <1>2, <1>7, <1>g, <1>t, <2>1, <2>2 DEF SubscribeFails
<1>8. ASSUME NEW d \in Dials, EnsureStored(d) PROVE TypeOK'
  <2>1. dial' \in [Dials -> DialType] /\ \A e \in Dials : Capped(dial[e].backoff)'
    BY <1>1, <1>8, <1>t, DialStepType DEF EnsureStored
  <2>2. cached' \in Ids
    BY <1>8, <1>t DEF EnsureStored, ProviderInv, At
  <2>3. /\ since' \in [Dials -> SUBSET Dials] /\ cache_since' \subseteq Dials
        /\ raced' \in [Dials -> BOOLEAN]
    BY <1>8, <1>s DEF EnsureStored
  <2> QED BY <1>8, <1>g, <1>t, <2>1, <2>2, <2>3 DEF EnsureStored
<1>9. ASSUME NEW d \in Dials, DirectOk(d) PROVE TypeOK'
  <2>1. dial' \in [Dials -> DialType] /\ \A e \in Dials : Capped(dial[e].backoff)'
    BY <1>1, <1>9, <1>t, DialStepType DEF DirectOk
  <2>2. status' \in StatusType
    BY <1>9, StatusStep DEF DirectOk
  <2>3. /\ since' \in [Dials -> SUBSET Dials] /\ cache_since' \subseteq Dials
        /\ raced' \in [Dials -> BOOLEAN]
    BY <1>9, <1>s DEF DirectOk
  <2> QED BY <1>9, <1>g, <1>t, <2>1, <2>2, <2>3 DEF DirectOk
<1>10. ASSUME NEW d \in Dials, DirectFails(d) PROVE TypeOK'
  <2>1. dial' \in [Dials -> DialType] /\ \A e \in Dials : Capped(dial[e].backoff)'
    BY <1>1, <1>10, <1>t, DialStepType DEF DirectFails
  <2>2. /\ since' \in [Dials -> SUBSET Dials] /\ cache_since' \subseteq Dials
        /\ raced' \in [Dials -> BOOLEAN]
    BY <1>10, <1>s DEF DirectFails
  <2> QED BY <1>2, <1>10, <1>g, <1>t, <2>1, <2>2 DEF DirectFails
<1>11. ASSUME NEW d \in Dials, DirectAuthFails(d) PROVE TypeOK'
  <2>1. dial' \in [Dials -> DialType] /\ \A e \in Dials : Capped(dial[e].backoff)'
    BY <1>1, <1>11, <1>t, DialStepType DEF DirectAuthFails
  <2>2. /\ since' \in [Dials -> SUBSET Dials] /\ cache_since' \subseteq Dials
        /\ raced' \in [Dials -> BOOLEAN]
    BY <1>11, <1>s DEF DirectAuthFails
  <2> QED BY <1>2, <1>11, <1>g, <1>t, <2>1, <2>2 DEF DirectAuthFails, InvalidateProviderCache
<1>12. ASSUME NEW d \in Dials, RelayBridged(d) PROVE TypeOK'
  <2>1. dial' \in [Dials -> DialType] /\ \A e \in Dials : Capped(dial[e].backoff)'
    BY <1>1, <1>12, <1>t, DialStepType DEF RelayBridged
  <2> QED BY <1>12, <1>g, <1>t, <2>1, <1>s DEF RelayBridged, history
<1>13. ASSUME NEW d \in Dials, RelayOk(d) PROVE TypeOK'
  <2>1. dial' \in [Dials -> DialType] /\ \A e \in Dials : Capped(dial[e].backoff)'
    BY <1>1, <1>13, <1>t, DialStepType DEF RelayOk
  <2>2. status' \in StatusType
    BY <1>13, StatusStep DEF RelayOk
  <2> QED BY <1>13, <1>g, <1>t, <2>1, <1>s, <2>2 DEF RelayOk, history
<1>14. ASSUME NEW d \in Dials, RelayFails(d) PROVE TypeOK'
  <2>1. dial' \in [Dials -> DialType] /\ \A e \in Dials : Capped(dial[e].backoff)'
    BY <1>1, <1>14, <1>t, DialStepType DEF RelayFails
  <2>2. status' \in StatusType
    BY <1>14, StatusStep DEF RelayFails
  <2> QED BY <1>2, <1>14, <1>g, <1>t, <2>1, <1>s, <2>2 DEF RelayFails, history
<1>15. ASSUME NEW d \in Dials, RelayStrands(d) PROVE TypeOK'
  <2>1. dial' \in [Dials -> DialType] /\ \A e \in Dials : Capped(dial[e].backoff)'
    BY <1>1, <1>15, <1>t, DialStepType DEF RelayStrands
  <2> QED BY <1>2, <1>15, <1>g, <1>t, <2>1, <1>s DEF RelayStrands, history
<1>16. ASSUME NEW d \in Dials, Retry(d) PROVE TypeOK'
  <2>1. /\ NextBackoff(dial[d].backoff) \in Nat
        /\ NextBackoff(dial[d].backoff) <= setup.max_backoff
    BY <1>t, BackoffBounds DEF DialType
  <2>2. dial' \in [Dials -> DialType]
    BY <1>16, <1>t, <2>1 DEF Retry, DialType
  <2>3. ASSUME NEW e \in Dials PROVE Capped(dial[e].backoff)'
    <3>1. dial'[e].backoff = dial[e].backoff \/ dial'[e].backoff = NextBackoff(dial[d].backoff)
      BY <1>16, <1>t DEF Retry, DialType
    <3> QED BY <1>16, <1>t, <2>1, <3>1 DEF Retry, Capped
  <2> QED BY <1>16, <1>g, <1>s, <1>t, <2>2, <2>3 DEF Retry, history
<1>17. ASSUME NEW d \in Dials, Ends(d) PROVE TypeOK'
  <2>1. dial' \in [Dials -> DialType] /\ \A e \in Dials : Capped(dial[e].backoff)'
    BY <1>1, <1>17, <1>t, DialStepType DEF Ends
  <2> QED BY <1>17, <1>g, <1>t, <2>1, <1>s DEF Ends, history
<1>18. ASSUME NEW p \in Ids, Register(p) \/ Die(p) PROVE TypeOK'
  BY <1>18, <1>t DEF Register, Die, history
<1>19. CASE Unregister \/ UNCHANGED vars
  BY <1>19, <1>t DEF Unregister, vars, history
<1> QED BY <1>3, <1>4, <1>5, <1>6, <1>7, <1>8, <1>9, <1>10, <1>11, <1>12, <1>13, <1>14, <1>15, <1>16, <1>17, <1>18, <1>19
        DEF Next, DialStep

(* A dial takes the id of its next attempts from the cache or the answer. *)
LEMMA ProviderStep == ConsumeInv /\ [Next]_vars => ProviderInv'
<1> SUFFICES ASSUME ConsumeInv, [Next]_vars PROVE ProviderInv'
  OBVIOUS
<1> USE DEF ConsumeInv, TypeOK, ProviderInv, DialType, At, Goto, GotProvider, Returns
<1>1. ASSUME NEW d \in Dials, Accept(d) PROVE ProviderInv'
  BY <1>1 DEF Accept
<1>2. ASSUME NEW d \in Dials, EnsureCached(d) PROVE ProviderInv'
  BY <1>2 DEF EnsureCached
<1>3. ASSUME NEW d \in Dials, EnsureAsks(d) PROVE ProviderInv'
  BY <1>3 DEF EnsureAsks
<1>4. ASSUME NEW d \in Dials, Subscribed(d) PROVE ProviderInv'
  BY <1>4 DEF Subscribed
<1>5. ASSUME NEW d \in Dials, SubscribeFails(d) PROVE ProviderInv'
  BY <1>5 DEF SubscribeFails
<1>6. ASSUME NEW d \in Dials, EnsureStored(d) PROVE ProviderInv'
  BY <1>6 DEF EnsureStored
<1>7. ASSUME NEW d \in Dials, DirectOk(d) PROVE ProviderInv'
  BY <1>7 DEF DirectOk
<1>8. ASSUME NEW d \in Dials, DirectFails(d) PROVE ProviderInv'
  BY <1>8 DEF DirectFails
<1>9. ASSUME NEW d \in Dials, DirectAuthFails(d) PROVE ProviderInv'
  BY <1>9 DEF DirectAuthFails
<1>10. ASSUME NEW d \in Dials, RelayBridged(d) PROVE ProviderInv'
  BY <1>10 DEF RelayBridged
<1>11. ASSUME NEW d \in Dials, RelayOk(d) PROVE ProviderInv'
  BY <1>11 DEF RelayOk
<1>12. ASSUME NEW d \in Dials, RelayFails(d) PROVE ProviderInv'
  BY <1>12 DEF RelayFails
<1>13. ASSUME NEW d \in Dials, RelayStrands(d) PROVE ProviderInv'
  BY <1>13 DEF RelayStrands
<1>14. ASSUME NEW d \in Dials, Retry(d) PROVE ProviderInv'
  BY <1>14 DEF Retry
<1>15. ASSUME NEW d \in Dials, Ends(d) PROVE ProviderInv'
  BY <1>15 DEF Ends
<1>16. ASSUME NEW p \in Ids, Register(p) \/ Die(p) PROVE ProviderInv'
  BY <1>16 DEF Register, Die, history
<1>17. CASE Unregister \/ UNCHANGED vars
  BY <1>17 DEF Unregister, vars, history
<1> QED BY <1>1, <1>2, <1>3, <1>4, <1>5, <1>6, <1>7, <1>8, <1>9, <1>10, <1>11, <1>12, <1>13, <1>14, <1>15, <1>16, <1>17
        DEF Next, DialStep

(* A question is newer than the auth errors before it; an auth error        *)
(* empties the cache, and a dial that races with it is accounted for.       *)
LEMMA NewerStep == ConsumeInv /\ [Next]_vars => NewerInv'
<1> SUFFICES ASSUME ConsumeInv, [Next]_vars PROVE NewerInv'
  OBVIOUS
<1> USE DEF ConsumeInv, TypeOK, NewerInv, DialType, At, Asking, FirstDial, Goto, GotProvider, Returns
<1>1. ASSUME NEW d \in Dials, Accept(d) PROVE NewerInv'
  BY <1>1 DEF Accept, history
<1>2. ASSUME NEW d \in Dials, EnsureCached(d) PROVE NewerInv'
  BY <1>2 DEF EnsureCached
<1>3. ASSUME NEW d \in Dials, EnsureAsks(d) PROVE NewerInv'
  BY <1>3 DEF EnsureAsks
<1>4. ASSUME NEW d \in Dials, Subscribed(d) PROVE NewerInv'
  BY <1>4 DEF Subscribed, history
<1>5. ASSUME NEW d \in Dials, SubscribeFails(d) PROVE NewerInv'
  BY <1>5 DEF SubscribeFails
<1>6. ASSUME NEW d \in Dials, EnsureStored(d) PROVE NewerInv'
  BY <1>6 DEF EnsureStored
<1>7. ASSUME NEW d \in Dials, DirectOk(d) PROVE NewerInv'
  BY <1>7 DEF DirectOk
<1>8. ASSUME NEW d \in Dials, DirectFails(d) PROVE NewerInv'
  BY <1>8 DEF DirectFails
<1>9. ASSUME NEW d \in Dials, DirectAuthFails(d) PROVE NewerInv'
  BY <1>9 DEF DirectAuthFails, InvalidateProviderCache
<1>10. ASSUME NEW d \in Dials, RelayBridged(d) PROVE NewerInv'
  BY <1>10 DEF RelayBridged, history
<1>11. ASSUME NEW d \in Dials, RelayOk(d) PROVE NewerInv'
  BY <1>11 DEF RelayOk, history
<1>12. ASSUME NEW d \in Dials, RelayFails(d) PROVE NewerInv'
  BY <1>12 DEF RelayFails, history
<1>13. ASSUME NEW d \in Dials, RelayStrands(d) PROVE NewerInv'
  BY <1>13 DEF RelayStrands, history
<1>14. ASSUME NEW d \in Dials, Retry(d) PROVE NewerInv'
  BY <1>14 DEF Retry, history
<1>15. ASSUME NEW d \in Dials, Ends(d) PROVE NewerInv'
  BY <1>15 DEF Ends, history
<1>16. ASSUME NEW p \in Ids, Register(p) \/ Die(p) PROVE NewerInv'
  BY <1>16 DEF Register, Die, history
<1>17. CASE Unregister \/ UNCHANGED vars
  BY <1>17 DEF Unregister, vars, history
<1> QED BY <1>1, <1>2, <1>3, <1>4, <1>5, <1>6, <1>7, <1>8, <1>9, <1>10, <1>11, <1>12, <1>13, <1>14, <1>15, <1>16, <1>17
        DEF Next, DialStep

-----------------------------------------------------------------------------
(* The inductive invariant. *)
LEMMA ConsumeInvariant == Spec => []ConsumeInv
<1>1. ConsumeInv /\ [Next]_vars => ConsumeInv'
  BY TypeStep, ProviderStep, NewerStep DEF ConsumeInv
<1> QED BY InitInv, <1>1, PTL DEF Spec

(* Every variable keeps its type; a backoff is the first one or at most the *)
(* cap, for every pair of them (consume.rs:196, 237).                       *)
THEOREM ConsumeTypeOK == Spec => []TypeOK
<1>1. ConsumeInv => TypeOK
  BY DEF ConsumeInv
<1> QED BY ConsumeInvariant, <1>1, PTL

(* The id of a direct dial answers a question asked after the dial's last   *)
(* auth error, by itself or by a concurrent dial, for every number of dials *)
(* (consume.rs:211-215, 385-401), unless another dial was between its look  *)
(* at the cache and its store when that error happened.                     *)
THEOREM StaleIdsAreDropped == Spec => []StaleIdNotReused
<1>1. ConsumeInv => StaleIdNotReused
  BY DEF ConsumeInv, NewerInv, StaleIdNotReused
<1> QED BY ConsumeInvariant, <1>1, PTL
=============================================================================
