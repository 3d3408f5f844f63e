------------------------------- MODULE Relay -------------------------------
(***************************************************************************)
(* The relay handler of the server (server/src/relay.rs) with its part of  *)
(* the registry (server/src/registry.rs): a stream on meshly-core/data is  *)
(* checked by accept_loop against the service records, then a run_relay    *)
(* task dials the provider and, while it copies, keeps a rate handle       *)
(* registered under a fresh stream id.  The copying itself is the subject  *)
(* of Tunnel and RateLimit.                                                *)
(*                                                                         *)
(* The service records change under the relay's feet, one DashMap          *)
(* operation at a time: register_service inserts, drop_session removes.    *)
(***************************************************************************)
EXTENDS Integers, Sequences

CONSTANTS
    Consumers,      \* endpoint ids that open data streams
    Providers,      \* endpoint ids of providers
    Services,       \* service names
    GroupOrder,     \* the groups in the iteration order of the groups map
    Streams,        \* data streams that can exist at a time
    DefaultRates,   \* relay.bytes_per_sec, or None with relay.enabled off
    Overrides,      \* relay_rate_overrides: a rate, or None, per consumer
    Rates,          \* rates update_relay_rate may set
    MaxStreamId,    \* bound on ids handed out
    None

Groups == {GroupOrder[i] : i \in 1 .. Len(GroupOrder)}

ASSUME RelayAssumption ==
    /\ GroupOrder \in Seq(Groups)
    /\ None \notin Consumers \cup Providers \cup Services \cup Nat
    /\ DefaultRates \subseteq Nat \cup {None}
    /\ Overrides \in [Consumers -> Nat \cup {None}]
    /\ Rates \subseteq Nat
    /\ MaxStreamId \in Nat

VARIABLES
    default_reply_bps,  \* the configured rate, or None: no limiting
    services,       \* services[g][s]: provider_id, or None
    next_stream_id,
    relay_rates,    \* relay_rates[id]: the task whose handle it is, or None
    task,           \* accept_loop's current stream, then its run_relay
    handle          \* handle[t]: initial_reply_bps of t, then its atomic; or None

vars == <<default_reply_bps, services, next_stream_id, relay_rates, task, handle>>

Limited == default_reply_bps # None
StreamIds == 1 .. MaxStreamId

Free == [pc |-> "free", remote |-> None, service |-> None, target |-> None,
         claimed |-> None, id |-> 0, verdict |-> "none"]

TaskType == [pc : {"free", "open", "dial", "register", "copy"},
             remote : Consumers \cup {None},
             service : Services \cup {None},
             target : Providers \cup {None},
             claimed : Consumers \cup {None},
             id : 0 .. MaxStreamId,
             verdict : {"none", "refused", "spoofed", "accepted"}]

(* Every variable has its type; the id counter stays within its bound.      *)
TypeOK ==
    /\ default_reply_bps \in DefaultRates
    /\ services \in [Groups -> [Services -> Providers \cup {None}]]
    /\ next_stream_id \in 1 .. MaxStreamId + 1
    /\ relay_rates \in [StreamIds -> Streams \cup {None}]
    /\ task \in [Streams -> TaskType]
    /\ handle \in [Streams -> Nat \cup {None}]

Init ==
    /\ default_reply_bps \in DefaultRates
    /\ services = [g \in Groups |-> [s \in Services |-> None]]
    /\ next_stream_id = 1
    /\ relay_rates = [i \in StreamIds |-> None]
    /\ task = [t \in Streams |-> Free]
    /\ handle = [t \in Streams |-> None]

-----------------------------------------------------------------------------
(* The control plane inserts and removes service records. *)
RecordInserted(g, s, p) ==
    /\ services' = [services EXCEPT ![g][s] = p]
    /\ UNCHANGED <<default_reply_bps, next_stream_id, relay_rates, task, handle>>

RecordRemoved(g, s) ==
    /\ services[g][s] # None
    /\ services' = [services EXCEPT ![g][s] = None]
    /\ UNCHANGED <<default_reply_bps, next_stream_id, relay_rates, task, handle>>

(* lookup_service_any_group: the first record of that name in the dump. *)
LookupServiceAnyGroup(s) ==
    LET holds == {i \in 1 .. Len(GroupOrder) : services[GroupOrder[i]][s] # None}
    IN  IF holds = {} THEN None
        ELSE services[GroupOrder[CHOOSE i \in holds : \A j \in holds : i <= j]][s]

-----------------------------------------------------------------------------
(* A consumer opens a stream and writes DataOpen; a frame that does not     *)
(* parse, or is another one, leaves the loop at the next stream.            *)
DataOpen(t) ==
    /\ task[t].pc = "free"
    /\ \E c, claimed \in Consumers, s \in Services, p \in Providers :
         task' = [task EXCEPT ![t] = [Free EXCEPT !.pc = "open", !.remote = c,
                                                  !.service = s, !.target = p,
                                                  !.claimed = claimed]]
    /\ UNCHANGED <<default_reply_bps, services, next_stream_id, relay_rates, handle>>

(* The declared consumer must be the connection's peer. *)
ClaimAccepted(t) == TRUE   \* mutant: consumer_node_id not compared
ClaimHolds(t) == task[t].claimed = task[t].remote

(* The registered provider must be the one asked for. *)
TargetDiffers(t) == LookupServiceAnyGroup(task[t].service) # task[t].target   \* mutant: test inverted
TargetRegistered(t) == LookupServiceAnyGroup(task[t].service) = task[t].target

Verdict(t) ==
    IF ~ClaimHolds(t) THEN "spoofed"
    ELSE IF TargetRegistered(t) THEN "accepted" ELSE "refused"

(* The stream is shut down and the loop goes on. *)
Refuse(t) ==
    /\ task[t].pc = "open"
    /\ Verdict(t) # "accepted"
    /\ task' = [task EXCEPT ![t] = [Free EXCEPT !.verdict = Verdict(t)]]
    /\ UNCHANGED <<default_reply_bps, services, next_stream_id, relay_rates, handle>>

(* The initial rate: the override of the consumer, else the default. *)
InitialRate(c) == IF Overrides[c] # None THEN Overrides[c] ELSE default_reply_bps

Spawn(t) ==
    /\ task[t].pc = "open"
    /\ Verdict(t) = "accepted"
    /\ task' = [task EXCEPT ![t].pc = "dial", ![t].verdict = "accepted"]
    /\ handle' = [handle EXCEPT ![t] = IF Limited THEN InitialRate(task[t].claimed) ELSE None]
    /\ UNCHANGED <<default_reply_bps, services, next_stream_id, relay_rates>>

-----------------------------------------------------------------------------
(* run_relay: connect to the provider and open a stream, or return. *)
DialFails(t) ==
    /\ task[t].pc = "dial"
    /\ task' = [task EXCEPT ![t] = Free]
    /\ handle' = [handle EXCEPT ![t] = None]
    /\ UNCHANGED <<default_reply_bps, services, next_stream_id, relay_rates>>

(* alloc_stream_id, an atomic fetch_add. *)
AllocSkipsOne == next_stream_id' = next_stream_id + 2   \* mutant: adds 2
AllocStreamId == next_stream_id' = next_stream_id + 1

Dialled(t) ==
    /\ task[t].pc = "dial"
    /\ next_stream_id <= MaxStreamId
    /\ AllocStreamId
    /\ task' = [task EXCEPT ![t].pc = IF Limited THEN "register" ELSE "copy",
                            ![t].id = next_stream_id]
    /\ UNCHANGED <<default_reply_bps, services, relay_rates, handle>>

RegisterRelayRate(t) ==
    /\ task[t].pc = "register"
    /\ relay_rates' = [relay_rates EXCEPT ![task[t].id] = t]
    /\ task' = [task EXCEPT ![t].pc = "copy"]
    /\ UNCHANGED <<default_reply_bps, services, next_stream_id, handle>>

UnregisterNothing(id) == relay_rates   \* mutant: unregister_relay_rate missing
UnregisterRelayRate(id) == [relay_rates EXCEPT ![id] = None]

(* copy_bidirectional returns, with or without an error. *)
CopyEnds(t) ==
    /\ task[t].pc = "copy"
    /\ relay_rates' = UnregisterRelayRate(task[t].id)
    /\ task' = [task EXCEPT ![t] = Free]
    /\ handle' = [handle EXCEPT ![t] = None]
    /\ UNCHANGED <<default_reply_bps, services, next_stream_id>>

(* update_relay_rate(id, bps): TRUE and a store, or FALSE. *)
UpdateRelayRate(id, bps) ==
    /\ relay_rates[id] # None
    /\ handle' = [handle EXCEPT ![relay_rates[id]] = bps]
    /\ UNCHANGED <<default_reply_bps, services, next_stream_id, relay_rates, task>>

Next ==
    \/ \E g \in Groups, s \in Services :
         RecordRemoved(g, s) \/ \E p \in Providers : RecordInserted(g, s, p)
    \/ \E t \in Streams :
         \/ DataOpen(t) \/ Refuse(t) \/ Spawn(t)
         \/ DialFails(t) \/ Dialled(t) \/ RegisterRelayRate(t) \/ CopyEnds(t)
    \/ \E id \in StreamIds, bps \in Rates : UpdateRelayRate(id, bps)

Spec == Init /\ [][Next]_vars
-----------------------------------------------------------------------------
(***************************************************************************)
(* Properties.                                                             *)
(***************************************************************************)

(* relay_rates names exactly the throttled tasks that copy, each under its  *)
(* own id: no handle outlives its task, none is reached by two ids, and an  *)
(* update by id reaches the task it names (run_relay, registry.rs:176-206). *)
RatesTrackTasks ==
    /\ \A id \in StreamIds : relay_rates[id] # None =>
          Limited /\ task[relay_rates[id]].pc = "copy" /\ task[relay_rates[id]].id = id
    /\ Limited => \A t \in Streams : task[t].pc = "copy" => relay_rates[task[t].id] = t

(* The rate bucket a tunnel starts from is its own consumer's, whatever     *)
(* NodeID the stream claims (relay.rs:127-149 and 171-180).                 *)
RateIsOwnConsumers ==
    \A t \in Streams : task[t].pc \in {"dial", "register"} =>
        handle[t] = IF Limited THEN InitialRate(task[t].remote) ELSE None

(* "target_service is registered and target_provider matches"               *)
(* (relay.rs:10): a stream is not refused while the provider it asks for is *)
(* registered for that service, unless another group has the same name      *)
(* under another provider: lookup_service_any_group sees only one of them.  *)
RegisteredIsRelayed ==
    [][\A t \in Streams :
         (task[t].verdict = "none" /\ task'[t].verdict = "refused")
            => \A g \in Groups :
                 services[g][task[t].service] = task[t].target =>
                   \E h \in Groups \ {g} :
                     services[h][task[t].service] \notin {None, task[t].target}]_vars
=============================================================================
