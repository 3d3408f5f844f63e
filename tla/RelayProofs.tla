---------------------------- MODULE RelayProofs ----------------------------
(***************************************************************************)
(* The relay handler's invariants for every number of streams, consumers,  *)
(* providers, services, groups, rates and stream ids.                      *)
(***************************************************************************)
EXTENDS Relay, TLAPS, WellFoundedInduction

(* A task past accept_loop's read holds a whole DataOpen, and past the      *)
(* check it runs for the peer of its connection.                            *)
TaskInv ==
    \A t \in Streams :
        /\ task[t].pc # "free" =>
             /\ task[t].remote \in Consumers
             /\ task[t].claimed \in Consumers
             /\ task[t].service \in Services
             /\ task[t].target \in Providers
        /\ task[t].pc \in {"dial", "register", "copy"} => task[t].claimed = task[t].remote
        /\ task[t].pc = "register" => Limited

(* A stream id is handed out once: the tasks that hold one hold different   *)
(* ones, all below the counter.                                             *)
HoldsId(t) == task[t].pc \in {"register", "copy"}

IdInv ==
    /\ \A t \in Streams : HoldsId(t) => task[t].id \in 1 .. next_stream_id - 1
    /\ \A t, u \in Streams : HoldsId(t) /\ HoldsId(u) /\ task[t].id = task[u].id => t = u

RelayInv == TypeOK /\ TaskInv /\ IdInv /\ RatesTrackTasks /\ RateIsOwnConsumers

-----------------------------------------------------------------------------
(* A set of natural numbers that is not empty has a least element: what     *)
(* the search for the first group with a record relies on.                  *)
LEMMA LeastNat ==
    ASSUME NEW T \in SUBSET Nat, T # {}
    PROVE  \E x \in T : \A y \in T : x <= y
<1>1. IsWellFoundedOn(OpToRel(<, Nat), Nat)
  BY NatLessThanWellFounded, Zenon
<1>2. PICK x \in T : \A y \in T : ~ (<<y, x>> \in OpToRel(<, Nat))
  BY <1>1, WFMin, Zenon
<1>3. \A y \in T : ~ (y < x)
  BY <1>2 DEF OpToRel
<1> QED BY <1>3

-----------------------------------------------------------------------------
(* The initial states. *)
LEMMA InitInv == Init => RelayInv
<1> SUFFICES ASSUME Init PROVE RelayInv
  OBVIOUS
<1>1. TypeOK
  BY RelayAssumption DEF Init, TypeOK, TaskType, Free, StreamIds
<1>2. \A t \in Streams : task[t].pc = "free"
  BY DEF Init, Free
<1>3. TaskInv /\ IdInv /\ RateIsOwnConsumers
  BY <1>2 DEF TaskInv, IdInv, HoldsId, RateIsOwnConsumers
<1>4. RatesTrackTasks
  BY <1>2 DEF Init, RatesTrackTasks
<1> QED BY <1>1, <1>3, <1>4 DEF RelayInv

(* The fields of DataOpen, written one by one, make a task. *)
LEMMA OpenedTask ==
    ASSUME NEW c \in Consumers, NEW s \in Services, NEW p \in Providers, NEW claimed \in Consumers
    PROVE  [Free EXCEPT !.pc = "open", !.remote = c, !.service = s, !.target = p,
                        !.claimed = claimed] \in TaskType
<1>1. Free \in TaskType
  BY RelayAssumption DEF Free, TaskType
<1>2. [Free EXCEPT !.pc = "open", !.remote = c] \in TaskType
  BY <1>1 DEF TaskType
<1>3. [[Free EXCEPT !.pc = "open", !.remote = c]
          EXCEPT !.service = s, !.target = p, !.claimed = claimed] \in TaskType
  BY <1>2 DEF TaskType
<1> QED BY <1>3

(* A task stays one when it is given an id. *)
LEMMA NumberedTask ==
    ASSUME NEW r \in TaskType, NEW pc \in {"register", "copy"}, NEW i \in 0 .. MaxStreamId
    PROVE  [r EXCEPT !.pc = pc, !.id = i] \in TaskType
BY DEF TaskType

(* Every variable keeps its type; the rate a task starts from is a number   *)
(* when the relay limits at all.                                            *)
LEMMA TypeStep == RelayInv /\ [Next]_vars => TypeOK'
<1> SUFFICES ASSUME RelayInv, [Next]_vars PROVE TypeOK'
  OBVIOUS
<1>0. Free \in TaskType
  BY RelayAssumption DEF Free, TaskType
<1> USE RelayAssumption DEF RelayInv, TypeOK
<1>1. ASSUME NEW g \in Groups, NEW s \in Services, RecordRemoved(g, s) PROVE TypeOK'
  BY <1>1 DEF RecordRemoved
<1>2. ASSUME NEW g \in Groups, NEW s \in Services, NEW p \in Providers, RecordInserted(g, s, p)
      PROVE  TypeOK'
  BY <1>2 DEF RecordInserted
<1>3. ASSUME NEW t \in Streams, DataOpen(t) PROVE TypeOK'
  <2>1. PICK c \in Consumers, claimed \in Consumers, s \in Services, p \in Providers :
          task' = [task EXCEPT ![t] = [Free EXCEPT !.pc = "open", !.remote = c, !.service = s,
                                                   !.target = p, !.claimed = claimed]]
    BY <1>3 DEF DataOpen
  <2>2. [Free EXCEPT !.pc = "open", !.remote = c, !.service = s, !.target = p, !.claimed = claimed]
          \in TaskType
    BY OpenedTask
  <2>3. task' \in [Streams -> TaskType]
    BY <2>1, <2>2, Zenon DEF TypeOK
  <2> QED BY <1>3, <2>3 DEF DataOpen
<1>4. ASSUME NEW t \in Streams, Refuse(t) PROVE TypeOK'
  <2>1. Verdict(t) \in {"refused", "spoofed", "accepted"}
    BY DEF Verdict
  <2>2. [Free EXCEPT !.verdict = Verdict(t)] \in TaskType
    BY <1>0, <2>1 DEF TaskType
  <2> QED BY <1>4, <2>2 DEF Refuse
<1>5. ASSUME NEW t \in Streams, Spawn(t) PROVE TypeOK'
  <2>1. task[t].claimed \in Consumers
    BY <1>5 DEF Spawn, TaskInv, TaskType
  <2>2. Limited => InitialRate(task[t].claimed) \in Nat
    BY <2>1 DEF InitialRate, Limited
  <2>3. [task[t] EXCEPT !.pc = "dial", !.verdict = "accepted"] \in TaskType
    BY DEF TaskType
  <2>4. task' \in [Streams -> TaskType]
    BY <1>5, <2>3 DEF Spawn
  <2>5. handle' \in [Streams -> Nat \cup {None}]
    BY <1>5, <2>2 DEF Spawn
  <2> QED BY <1>5, <2>4, <2>5 DEF Spawn
<1>6. ASSUME NEW t \in Streams, DialFails(t) PROVE TypeOK'
  BY <1>0, <1>6 DEF DialFails
<1>7. ASSUME NEW t \in Streams, Dialled(t) PROVE TypeOK'
  <2>1. next_stream_id \in 1 .. MaxStreamId /\ next_stream_id' = next_stream_id + 1
    BY <1>7 DEF Dialled, AllocStreamId
  <2>2. ASSUME NEW pc \in {"register", "copy"}
        PROVE  [task[t] EXCEPT !.pc = pc, !.id = next_stream_id] \in TaskType
    <3>1. next_stream_id \in 0 .. MaxStreamId
      BY <2>1
    <3> QED BY <3>1, NumberedTask
  <2>3. task' \in [Streams -> TaskType]
    BY <1>7, <2>2 DEF Dialled
  <2>4. next_stream_id' \in 1 .. MaxStreamId + 1
    BY <2>1
  <2> QED BY <1>7, <2>3, <2>4 DEF Dialled
<1>8. ASSUME NEW t \in Streams, RegisterRelayRate(t) PROVE TypeOK'
  <2>0. [task[t] EXCEPT !.pc = "copy"] \in TaskType
    BY DEF TaskType
  <2>1. task' \in [Streams -> TaskType]
    BY <1>8, <2>0 DEF RegisterRelayRate
  <2>2. relay_rates' \in [StreamIds -> Streams \cup {None}]
    BY <1>8 DEF RegisterRelayRate
  <2> QED BY <1>8, <2>1, <2>2 DEF RegisterRelayRate
<1>9. ASSUME NEW t \in Streams, CopyEnds(t) PROVE TypeOK'
  <2>1. task' \in [Streams -> TaskType]
    BY <1>0, <1>9 DEF CopyEnds
  <2>2. relay_rates' \in [StreamIds -> Streams \cup {None}]
    BY <1>9 DEF CopyEnds, UnregisterRelayRate
  <2> QED BY <1>9, <2>1, <2>2 DEF CopyEnds
<1>10. ASSUME NEW id \in StreamIds, NEW bps \in Rates, UpdateRelayRate(id, bps) PROVE TypeOK'
  BY <1>10 DEF UpdateRelayRate
<1>11. CASE UNCHANGED vars
  BY <1>11 DEF vars
<1> QED BY <1>1, <1>2, <1>3, <1>4, <1>5, <1>6, <1>7, <1>8, <1>9, <1>10, <1>11 DEF Next

(* What a task holds stays what accept_loop checked. *)
LEMMA TaskStep == RelayInv /\ [Next]_vars => TaskInv'
<1> SUFFICES ASSUME RelayInv, [Next]_vars PROVE TaskInv'
  OBVIOUS
<1> USE DEF RelayInv, TypeOK, TaskType, TaskInv, Limited
<1>1. ASSUME NEW g \in Groups, NEW s \in Services, RecordRemoved(g, s) PROVE TaskInv'
  BY <1>1 DEF RecordRemoved
<1>2. ASSUME NEW g \in Groups, NEW s \in Services, NEW p \in Providers, RecordInserted(g, s, p)
      PROVE  TaskInv'
  BY <1>2 DEF RecordInserted
<1>3. ASSUME NEW t \in Streams, DataOpen(t) PROVE TaskInv'
  BY <1>3 DEF DataOpen, Free
<1>4. ASSUME NEW t \in Streams, Refuse(t) PROVE TaskInv'
  BY <1>4 DEF Refuse, Free
<1>5. ASSUME NEW t \in Streams, Spawn(t) PROVE TaskInv'
  BY <1>5 DEF Spawn, Verdict, ClaimHolds
<1>6. ASSUME NEW t \in Streams, DialFails(t) PROVE TaskInv'
  BY <1>6 DEF DialFails, Free
<1>7. ASSUME NEW t \in Streams, Dialled(t) PROVE TaskInv'
  BY <1>7 DEF Dialled
<1>8. ASSUME NEW t \in Streams, RegisterRelayRate(t) PROVE TaskInv'
  BY <1>8 DEF RegisterRelayRate
<1>9. ASSUME NEW t \in Streams, CopyEnds(t) PROVE TaskInv'
  BY <1>9 DEF CopyEnds, Free
<1>10. ASSUME NEW id \in StreamIds, NEW bps \in Rates, UpdateRelayRate(id, bps) PROVE TaskInv'
  BY <1>10 DEF UpdateRelayRate
<1>11. CASE UNCHANGED vars
  BY <1>11 DEF vars
<1> QED BY <1>1, <1>2, <1>3, <1>4, <1>5, <1>6, <1>7, <1>8, <1>9, <1>10, <1>11 DEF Next

(* alloc_stream_id never hands out an id that a task holds. *)
LEMMA IdStep == RelayInv /\ [Next]_vars => IdInv'
<1> SUFFICES ASSUME RelayInv, [Next]_vars PROVE IdInv'
  OBVIOUS
<1> USE DEF RelayInv, TypeOK, TaskType, IdInv, HoldsId
<1>1. ASSUME NEW g \in Groups, NEW s \in Services, RecordRemoved(g, s) PROVE IdInv'
  BY <1>1 DEF RecordRemoved
<1>2. ASSUME NEW g \in Groups, NEW s \in Services, NEW p \in Providers, RecordInserted(g, s, p)
      PROVE  IdInv'
  BY <1>2 DEF RecordInserted
<1>3. ASSUME NEW t \in Streams, DataOpen(t) PROVE IdInv'
  BY <1>3 DEF DataOpen, Free
<1>4. ASSUME NEW t \in Streams, Refuse(t) PROVE IdInv'
  BY <1>4 DEF Refuse, Free
<1>5. ASSUME NEW t \in Streams, Spawn(t) PROVE IdInv'
  BY <1>5 DEF Spawn
<1>6. ASSUME NEW t \in Streams, DialFails(t) PROVE IdInv'
  BY <1>6 DEF DialFails, Free
<1>7. ASSUME NEW t \in Streams, Dialled(t) PROVE IdInv'
  <2>1. task'[t].id = next_stream_id
    BY <1>7 DEF Dialled
  <2>2. \A u \in Streams \ {t} : task'[u] = task[u]
    BY <1>7 DEF Dialled
  <2>3. next_stream_id \in Nat \ {0} /\ next_stream_id' = next_stream_id + 1
    BY <1>7, RelayAssumption DEF Dialled, AllocStreamId
  <2>4. \A u \in Streams : HoldsId(u)' => task'[u].id \in 1 .. next_stream_id' - 1
    BY <2>1, <2>2, <2>3
  <2>5. \A u \in Streams \ {t} : HoldsId(u)' => task'[u].id # next_stream_id
    BY <2>2, <2>3
  <2> QED BY <2>1, <2>2, <2>4, <2>5
<1>8. ASSUME NEW t \in Streams, RegisterRelayRate(t) PROVE IdInv'
  BY <1>8 DEF RegisterRelayRate
<1>9. ASSUME NEW t \in Streams, CopyEnds(t) PROVE IdInv'
  BY <1>9 DEF CopyEnds, Free
<1>10. ASSUME NEW id \in StreamIds, NEW bps \in Rates, UpdateRelayRate(id, bps) PROVE IdInv'
  BY <1>10 DEF UpdateRelayRate
<1>11. CASE UNCHANGED vars
  BY <1>11 DEF vars
<1> QED BY <1>1, <1>2, <1>3, <1>4, <1>5, <1>6, <1>7, <1>8, <1>9, <1>10, <1>11 DEF Next
(* relay_rates follows the tasks: an update by id can only reach a task     *)
(* that copies under that id.                                               *)
LEMMA RatesStep == RelayInv /\ [Next]_vars => RatesTrackTasks'
<1> SUFFICES ASSUME RelayInv, [Next]_vars PROVE RatesTrackTasks'
  OBVIOUS
<1> USE DEF RelayInv, TypeOK, TaskType, RatesTrackTasks, Limited
<1>1. ASSUME NEW g \in Groups, NEW s \in Services, RecordRemoved(g, s) PROVE RatesTrackTasks'
  BY <1>1 DEF RecordRemoved
<1>2. ASSUME NEW g \in Groups, NEW s \in Services, NEW p \in Providers, RecordInserted(g, s, p)
      PROVE  RatesTrackTasks'
  BY <1>2 DEF RecordInserted
<1>3. ASSUME NEW t \in Streams, DataOpen(t) PROVE RatesTrackTasks'
  BY <1>3 DEF DataOpen, Free
<1>4. ASSUME NEW t \in Streams, Refuse(t) PROVE RatesTrackTasks'
  BY <1>4 DEF Refuse, Free
<1>5. ASSUME NEW t \in Streams, Spawn(t) PROVE RatesTrackTasks'
  BY <1>5 DEF Spawn
<1>6. ASSUME NEW t \in Streams, DialFails(t) PROVE RatesTrackTasks'
  BY <1>6 DEF DialFails, Free
<1>7. ASSUME NEW t \in Streams, Dialled(t) PROVE RatesTrackTasks'
  BY <1>7 DEF Dialled
<1>8. ASSUME NEW t \in Streams, RegisterRelayRate(t) PROVE RatesTrackTasks'
  <2>1. task[t].id \in StreamIds
    BY <1>8, RelayAssumption DEF RegisterRelayRate, IdInv, HoldsId, StreamIds
  <2>2. relay_rates'[task[t].id] = t /\ \A i \in StreamIds \ {task[t].id} : relay_rates'[i] = relay_rates[i]
    BY <1>8, <2>1 DEF RegisterRelayRate
  <2>3. task'[t].pc = "copy" /\ task'[t].id = task[t].id /\ \A u \in Streams \ {t} : task'[u] = task[u]
    BY <1>8 DEF RegisterRelayRate
  <2>4. Limited /\ UNCHANGED default_reply_bps
    BY <1>8 DEF RegisterRelayRate, TaskInv
  <2>5. \A u \in Streams \ {t} : task[u].pc = "copy" => task[u].id \in StreamIds \ {task[t].id}
    BY <1>8, RelayAssumption DEF RegisterRelayRate, IdInv, HoldsId, StreamIds
  <2>6. \A i \in StreamIds \ {task[t].id} : relay_rates[i] # None => relay_rates[i] \in Streams \ {t}
    BY <1>8 DEF RegisterRelayRate
  <2>7. ASSUME NEW i \in StreamIds, relay_rates'[i] # None
        PROVE  /\ Limited'
               /\ task'[relay_rates'[i]].pc = "copy"
               /\ task'[relay_rates'[i]].id = i
    <3>1. CASE i = task[t].id
      BY <3>1, <2>2, <2>3, <2>4
    <3>2. CASE i # task[t].id
      BY <3>2, <2>2, <2>3, <2>4, <2>6, <2>7
    <3> QED BY <3>1, <3>2
  <2>8. \A u \in Streams : task'[u].pc = "copy" => relay_rates'[task'[u].id] = u
    BY <2>2, <2>3, <2>4, <2>5
  <2> QED BY <2>7, <2>8
<1>9. ASSUME NEW t \in Streams, CopyEnds(t) PROVE RatesTrackTasks'
  <2>1. \A i \in StreamIds : relay_rates'[i] # None => i # task[t].id /\ relay_rates'[i] = relay_rates[i]
    BY <1>9 DEF CopyEnds, UnregisterRelayRate
  <2>2. task'[t].pc = "free" /\ \A u \in Streams \ {t} : task'[u] = task[u]
    BY <1>9 DEF CopyEnds, Free
  <2>3. \A u \in Streams \ {t} : task[u].pc = "copy" => task[u].id \in StreamIds \ {task[t].id}
    BY <1>9, RelayAssumption DEF CopyEnds, IdInv, HoldsId, StreamIds
  <2>4. \A i \in StreamIds \ {task[t].id} : relay_rates'[i] = relay_rates[i]
    BY <1>9 DEF CopyEnds, UnregisterRelayRate
  <2>5. UNCHANGED default_reply_bps
    BY <1>9 DEF CopyEnds
  <2> QED BY <2>1, <2>2, <2>3, <2>4, <2>5
<1>10. ASSUME NEW id \in StreamIds, NEW bps \in Rates, UpdateRelayRate(id, bps)
       PROVE  RatesTrackTasks'
  BY <1>10 DEF UpdateRelayRate
<1>11. CASE UNCHANGED vars
  BY <1>11 DEF vars
<1> QED BY <1>1, <1>2, <1>3, <1>4, <1>5, <1>6, <1>7, <1>8, <1>9, <1>10, <1>11 DEF Next

(* Between the check and the registration nothing writes the task's rate:   *)
(* an update reaches copying tasks only.                                    *)
LEMMA OwnRateStep == RelayInv /\ [Next]_vars => RateIsOwnConsumers'
<1> SUFFICES ASSUME RelayInv, [Next]_vars PROVE RateIsOwnConsumers'
  OBVIOUS
<1> USE DEF RelayInv, TypeOK, TaskType, RateIsOwnConsumers, Limited, InitialRate
<1>1. ASSUME NEW g \in Groups, NEW s \in Services, RecordRemoved(g, s) PROVE RateIsOwnConsumers'
  BY <1>1 DEF RecordRemoved
<1>2. ASSUME NEW g \in Groups, NEW s \in Services, NEW p \in Providers, RecordInserted(g, s, p)
      PROVE  RateIsOwnConsumers'
  BY <1>2 DEF RecordInserted
<1>3. ASSUME NEW t \in Streams, DataOpen(t) PROVE RateIsOwnConsumers'
  BY <1>3 DEF DataOpen, Free
<1>4. ASSUME NEW t \in Streams, Refuse(t) PROVE RateIsOwnConsumers'
  BY <1>4 DEF Refuse, Free
<1>5. ASSUME NEW t \in Streams, Spawn(t) PROVE RateIsOwnConsumers'
  <2>1. task[t].claimed = task[t].remote
    BY <1>5 DEF Spawn, Verdict, ClaimHolds
  <2> QED BY <1>5, <2>1 DEF Spawn
<1>6. ASSUME NEW t \in Streams, DialFails(t) PROVE RateIsOwnConsumers'
  BY <1>6 DEF DialFails, Free
<1>7. ASSUME NEW t \in Streams, Dialled(t) PROVE RateIsOwnConsumers'
  BY <1>7 DEF Dialled
<1>8. ASSUME NEW t \in Streams, RegisterRelayRate(t) PROVE RateIsOwnConsumers'
  BY <1>8 DEF RegisterRelayRate
<1>9. ASSUME NEW t \in Streams, CopyEnds(t) PROVE RateIsOwnConsumers'
  BY <1>9 DEF CopyEnds, Free
<1>10. ASSUME NEW id \in StreamIds, NEW bps \in Rates, UpdateRelayRate(id, bps)
       PROVE  RateIsOwnConsumers'
  <2>1. task[relay_rates[id]].pc = "copy"
    BY <1>10 DEF UpdateRelayRate, RatesTrackTasks
  <2>2. \A t \in Streams : task[t].pc # "copy" => handle'[t] = handle[t]
    BY <1>10, <2>1 DEF UpdateRelayRate
  <2> QED BY <1>10, <2>2 DEF UpdateRelayRate
<1>11. CASE UNCHANGED vars
  BY <1>11 DEF vars
<1> QED BY <1>1, <1>2, <1>3, <1>4, <1>5, <1>6, <1>7, <1>8, <1>9, <1>10, <1>11 DEF Next

-----------------------------------------------------------------------------
(* The relay's state is always consistent: the inductive invariant. *)
LEMMA RelayInvariant == Spec => []RelayInv
<1>1. RelayInv /\ [Next]_vars => RelayInv'
  BY TypeStep, TaskStep, IdStep, RatesStep, OwnRateStep DEF RelayInv
<1> QED BY InitInv, <1>1, PTL DEF Spec

(* Every variable of the relay handler keeps its type, whatever the number  *)
(* of streams and the order of their steps (relay.rs, registry.rs:176-206). *)
THEOREM RelayTypeOK == Spec => []TypeOK
<1>1. RelayInv => TypeOK
  BY DEF RelayInv
<1> QED BY RelayInvariant, <1>1, PTL

(* update_relay_rate(id) reaches the one task that copies under that id,    *)
(* and no handle stays registered when its task is over (run_relay).        *)
THEOREM RatesFollowTasks == Spec => []RatesTrackTasks
<1>1. RelayInv => RatesTrackTasks
  BY DEF RelayInv
<1> QED BY RelayInvariant, <1>1, PTL

(* A tunnel starts from the rate of the consumer at the other end of the    *)
(* connection, not of one it claims to be (relay.rs:127-149 and 171-180).   *)
THEOREM TunnelStartsAtOwnRate == Spec => []RateIsOwnConsumers
<1>1. RelayInv => RateIsOwnConsumers
  BY DEF RelayInv
<1> QED BY RelayInvariant, <1>1, PTL

-----------------------------------------------------------------------------
(* lookup_service_any_group returns a record that some group holds, if any  *)
(* group holds one.                                                         *)
LEMMA LookupFindsRecord ==
    ASSUME NEW s, NEW g \in Groups, services[g][s] # None
    PROVE  \E h \in Groups : services[h][s] # None /\ LookupServiceAnyGroup(s) = services[h][s]
<1> DEFINE holds == {i \in 1 .. Len(GroupOrder) : services[GroupOrder[i]][s] # None}
           first == CHOOSE i \in holds : \A j \in holds : i <= j
<1>1. Len(GroupOrder) \in Nat
  BY RelayAssumption
<1>2. holds \in SUBSET Nat
  BY <1>1
<1>3. holds # {}
  BY DEF Groups
<1>4. \E i \in holds : \A j \in holds : i <= j
  <2> HIDE DEF holds
  <2> QED BY <1>2, <1>3, LeastNat
<1>5. first \in holds
  <2> HIDE DEF holds
  <2> QED BY <1>4
<1>6. LookupServiceAnyGroup(s) = services[GroupOrder[first]][s]
  BY <1>3 DEF LookupServiceAnyGroup
<1>7. GroupOrder[first] \in Groups /\ services[GroupOrder[first]][s] # None
  <2> HIDE DEF first
  <2> QED BY <1>5 DEF Groups
<1> QED BY <1>6, <1>7

(* A refused stream asked for a provider that no group has registered under *)
(* that name, or another group has the name under another provider          *)
(* (relay.rs:10 and 153-169, lookup_service_any_group).                     *)
THEOREM RefusalsAreJustified == Spec => RegisteredIsRelayed
<1> DEFINE A == \A t \in Streams :
                  (task[t].verdict = "none" /\ task'[t].verdict = "refused")
                     => \A g \in Groups :
                          services[g][task[t].service] = task[t].target =>
                            \E h \in Groups \ {g} :
                              services[h][task[t].service] \notin {None, task[t].target}
<1>1. ASSUME RelayInv, [Next]_vars PROVE [A]_vars
  <2> SUFFICES ASSUME ~ UNCHANGED vars, NEW t \in Streams,
                      task[t].verdict = "none", task'[t].verdict = "refused",
                      NEW g \in Groups, services[g][task[t].service] = task[t].target
               PROVE  \E h \in Groups \ {g} : services[h][task[t].service] \notin {None, task[t].target}
    OBVIOUS
  <2>1. Refuse(t)
    <3> USE <1>1 DEF RelayInv, TypeOK, TaskType, Free
    <3>1. \A u \in Streams : DataOpen(u) => task'[t].verdict # "refused"
      BY DEF DataOpen
    <3>2. \A u \in Streams : Refuse(u) => u = t
      BY DEF Refuse
    <3>3. \A u \in Streams : Spawn(u) => task'[t].verdict # "refused"
      BY DEF Spawn
    <3>4. \A u \in Streams : DialFails(u) \/ CopyEnds(u) => task'[t].verdict # "refused"
      BY DEF DialFails, CopyEnds
    <3>5. \A u \in Streams : Dialled(u) => task'[t].verdict # "refused"
      BY DEF Dialled
    <3>6. \A u \in Streams : RegisterRelayRate(u) => task'[t].verdict # "refused"
      BY DEF RegisterRelayRate
    <3>7. task' = task => FALSE
      OBVIOUS
    <3> QED BY <3>1, <3>2, <3>3, <3>4, <3>5, <3>6, <3>7
            DEF Next, RecordRemoved, RecordInserted, UpdateRelayRate
  <2>2. task[t].target # None
    BY <1>1, <2>1, RelayAssumption DEF RelayInv, TaskInv, Refuse
  <2>3. Verdict(t) = "refused"
    BY <1>1, <2>1 DEF Refuse, RelayInv, TypeOK, Free
  <2>4. LookupServiceAnyGroup(task[t].service) # task[t].target
    BY <2>3 DEF Verdict, TargetRegistered
  <2>5. PICK h \in Groups : /\ services[h][task[t].service] # None
                            /\ LookupServiceAnyGroup(task[t].service) = services[h][task[t].service]
    BY <2>2, LookupFindsRecord
  <2> QED BY <2>4, <2>5
<1>2. Spec => [][Next]_vars
  BY PTL DEF Spec
<1>3. Spec => [][A]_vars
  BY <1>1, <1>2, RelayInvariant, PTL
<1> QED BY <1>3 DEF RegisteredIsRelayed
=============================================================================
