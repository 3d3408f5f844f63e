------------------------------ MODULE Consume ------------------------------
(***************************************************************************)
(* The consumer of one service (client/src/consume.rs): every accepted     *)
(* local connection runs dial_stream, and all of them share one cached     *)
(* provider id and one status entry (client/src/status.rs).                *)
(*                                                                         *)
(* The world outside is what the dials can observe: which provider         *)
(* identities are running, and which of them the server's registry names.  *)
(* A provider that restarts under a new identity is one id that dies and   *)
(* another that registers.                                                 *)
(***************************************************************************)
EXTENDS Integers

CONSTANTS
    Setups,         \* the [reconnect] table after clamp_backoff, and whether
                    \* the network lets the consumer reach providers directly
    Dials,          \* concurrent forward_one calls
    Ids,            \* provider identities
    Trusted,        \* those whose shared_secret is the consumer's
    Events,         \* what happens outside: "register", "unregister", "die"
    MaxFaults,      \* transient network failures
    None

ASSUME ConsumeAssumption ==
    /\ Setups \subseteq [prefer_direct : BOOLEAN, direct_path : BOOLEAN,
                         initial_backoff : Nat \ {0}, max_backoff : Nat \ {0}]
    /\ Trusted \subseteq Ids
    /\ None \notin Ids
    /\ Events \subseteq {"register", "unregister", "die"}
    /\ MaxFaults \in Nat

VARIABLES
    setup,          \* the one of this behaviour
    alive,          \* identities whose process runs
    record,         \* the registry's provider_id for the service, or None
    cached,         \* cached_provider
    dial,           \* the locals of each dial_stream
    status,         \* the service's ConsumerStatus
    faults,         \* transient failures so far
    since,          \* history: since[d] holds the dials whose last auth error
                    \* came before the question that d's provider id answers
    cache_since,    \* history: the same of the cached id
    raced           \* history: another dial was between its look at the cache
                    \* and its store when d had its last auth error

history == <<since, cache_since, raced>>
vars == <<setup, alive, record, cached, dial, status, faults, history>>

DialType == [pc : {"idle", "ensure", "subscribe", "store", "direct", "relay", "bridged",
                   "stranded", "sleep", "live", "failed"},
             provider : Ids \cup {None},
             backoff : Nat]
StatusType == [state : {"Idle", "Dialing", "Live", "Failed"},
               mode : {"direct", "relay", None},
               error : BOOLEAN]

(* Every variable has its type, and the backoff is the first one or at most *)
(* the cap, which may be below the first one (consume.rs:196, 237).         *)
TypeOK ==
    /\ setup \in Setups
    /\ alive \subseteq Ids
    /\ record \in Ids \cup {None}
    /\ cached \in Ids \cup {None}
    /\ dial \in [Dials -> DialType]
    /\ \A d \in Dials : \/ dial[d].backoff = setup.initial_backoff
                        \/ dial[d].backoff <= setup.max_backoff
    /\ status \in StatusType
    /\ faults \in 0 .. MaxFaults
    /\ since \in [Dials -> SUBSET Dials]
    /\ cache_since \subseteq Dials
    /\ raced \in [Dials -> BOOLEAN]

Init ==
    /\ setup \in Setups
    /\ alive = Ids
    /\ record \in Ids
    /\ cached = None
    /\ dial = [d \in Dials |-> [pc |-> "idle", provider |-> None, backoff |-> 0]]
    /\ status = [state |-> "Idle", mode |-> None, error |-> FALSE]
    /\ faults = 0
    /\ since = [d \in Dials |-> {}]
    /\ cache_since = {}
    /\ raced = [d \in Dials |-> FALSE]

At(d, pc) == dial[d].pc = pc
Goto(d, pc) == dial' = [dial EXCEPT ![d].pc = pc]
Returns(d, pc) == dial' = [dial EXCEPT ![d] = [pc |-> pc, provider |-> None, backoff |-> 0]]

(* With a provider id in hand the direct dial comes first, if it is wanted. *)
FirstDial == IF setup.prefer_direct THEN "direct" ELSE "relay"
GotProvider(d, id, pc) == dial' = [dial EXCEPT ![d].provider = id, ![d].pc = pc]

(* Between the look at the cache and the store, without the lock. *)
Asking(d) == dial[d].pc \in {"subscribe", "store"}

Fault == faults < MaxFaults /\ faults' = faults + 1

(* set_consumer_state: an error replaces the last one, Live clears it, and  *)
(* any other state keeps it; the mode is always replaced.                   *)
SetConsumerState(state, mode, error) ==
    status' = [state |-> state,
               mode |-> mode,
               error |-> error \/ (status.error /\ state # "Live")]

-----------------------------------------------------------------------------
(* A local connection is accepted: forward_one calls dial_stream. *)
Accept(d) ==
    /\ At(d, "idle")
    /\ dial' = [dial EXCEPT ![d] = [pc |-> "ensure", provider |-> None,
                                    backoff |-> setup.initial_backoff]]
    /\ SetConsumerState("Dialing", None, FALSE)
    /\ UNCHANGED <<setup, alive, record, cached, faults, history>>

(* ensure_provider_id: the cached id, *)
EnsureCached(d) ==
    /\ At(d, "ensure")
    /\ cached # None
    /\ GotProvider(d, cached, FirstDial)
    /\ since' = [since EXCEPT ![d] = cache_since]
    /\ UNCHANGED <<setup, alive, record, cached, status, faults, cache_since, raced>>

(* or, with the lock released, the server is asked, *)
EnsureAsks(d) ==
    /\ At(d, "ensure")
    /\ cached = None
    /\ Goto(d, "subscribe")
    /\ since' = [since EXCEPT ![d] = Dials]
    /\ UNCHANGED <<setup, alive, record, cached, status, faults, cache_since, raced>>

(* which answers with the record of that moment, *)
Subscribed(d) ==
    /\ At(d, "subscribe")
    /\ record # None
    /\ GotProvider(d, record, "store")
    /\ UNCHANGED <<setup, alive, record, cached, status, faults, history>>

(* or not: without a provider, or if the call fails, the dial is over. *)
SubscribeFails(d) ==
    /\ At(d, "subscribe")
    /\ \/ record = None /\ UNCHANGED faults
       \/ Fault
    /\ Returns(d, "failed")
    /\ since' = [since EXCEPT ![d] = {}]
    /\ UNCHANGED <<setup, alive, record, cached, status, cache_since, raced>>

(* The answer replaces whatever another dial did to the cache meanwhile. *)
EnsureStored(d) ==
    /\ At(d, "store")
    /\ cached' = dial[d].provider
    /\ cache_since' = since[d]
    /\ Goto(d, FirstDial)
    /\ UNCHANGED <<setup, alive, record, status, faults, since, raced>>

-----------------------------------------------------------------------------
(* dial_direct authenticates and dial_stream returns. *)
DirectOk(d) ==
    /\ At(d, "direct")
    /\ setup.direct_path
    /\ dial[d].provider \in alive \cap Trusted
    /\ Returns(d, "live")
    /\ SetConsumerState("Live", "direct", FALSE)
    /\ since' = [since EXCEPT ![d] = {}]
    /\ UNCHANGED <<setup, alive, record, cached, faults, cache_since, raced>>

(* It fails before the proof is sent: not an auth error. *)
DirectFails(d) ==
    /\ At(d, "direct")
    /\ \/ dial[d].provider \notin alive /\ UNCHANGED faults
       \/ ~setup.direct_path /\ UNCHANGED faults
       \/ Fault
    /\ Goto(d, "relay")
    /\ since' = [since EXCEPT ![d] = {}]
    /\ UNCHANGED <<setup, alive, record, cached, status, cache_since, raced>>

InvalidateNothing == UNCHANGED cached   \* mutant: invalidate_provider_cache missing
InvalidateProviderCache == cached' = None

(* is_auth_error: the proof is rejected, or the connection ends after it. *)
DirectAuthFails(d) ==
    /\ At(d, "direct")
    /\ setup.direct_path
    /\ dial[d].provider \in alive
    /\ \/ dial[d].provider \notin Trusted /\ UNCHANGED faults
       \/ Fault
    /\ InvalidateProviderCache
    /\ since' = [e \in Dials |-> IF e = d THEN {} ELSE since[e] \ {d}]
    /\ cache_since' = {}
    /\ raced' = [raced EXCEPT ![d] = \E e \in Dials : Asking(e)]
    /\ Goto(d, "relay")
    /\ UNCHANGED <<setup, alive, record, status>>

(* dial_relay: the server bridges only to the registered provider (its      *)
(* lookup ignores groups; here the name is registered in one group only)    *)
(* and only if it can connect to it.                                        *)
RelayReachesOther(id) == record # id /\ id \in alive   \* mutant: test inverted
RelayReaches(id) == record = id /\ id \in alive

RelayBridged(d) ==
    /\ At(d, "relay")
    /\ RelayReaches(dial[d].provider)
    /\ Goto(d, "bridged")
    /\ UNCHANGED <<setup, alive, record, cached, status, faults, history>>

(* The handshake over the bridge succeeds. *)
RelayOk(d) ==
    /\ At(d, "bridged")
    /\ dial[d].provider \in alive \cap Trusted
    /\ Returns(d, "live")
    /\ SetConsumerState("Live", "relay", FALSE)
    /\ UNCHANGED <<setup, alive, record, cached, faults, history>>

(* The server refuses, the provider's AuthErr arrives over the bridge, or   *)
(* the connection to the server is lost.                                    *)
RelayFails(d) ==
    /\ \/ At(d, "relay") /\ ~RelayReaches(dial[d].provider) /\ UNCHANGED faults
       \/ At(d, "bridged") /\ dial[d].provider \in alive \ Trusted /\ UNCHANGED faults
       \/ dial[d].pc \in {"relay", "bridged", "stranded"} /\ Fault
    /\ GotProvider(d, None, "sleep")
    /\ SetConsumerState("Failed", None, TRUE)
    /\ UNCHANGED <<setup, alive, record, cached, history>>

(* The provider's side of the bridge ends and nothing of it arrives: it     *)
(* stopped, its connection was lost, or it was closed before its AuthErr    *)
(* got through.  The relay still waits for the consumer's requests (join!,  *)
(* server/src/relay.rs:325) and the consumer for an answer, without a       *)
(* timeout, until its connection to the server is lost.                     *)
RelayStrands(d) ==
    /\ At(d, "bridged")
    /\ \/ dial[d].provider \notin alive \cap Trusted /\ UNCHANGED faults
       \/ Fault
    /\ Goto(d, "stranded")
    /\ UNCHANGED <<setup, alive, record, cached, status, history>>

NextBackoffUncapped(b) == b * 2   \* mutant: no cap
NextBackoff(b) == IF b * 2 <= setup.max_backoff THEN b * 2 ELSE setup.max_backoff

(* The sleep of backoff_ms is over. *)
Retry(d) ==
    /\ At(d, "sleep")
    /\ dial' = [dial EXCEPT ![d].pc = "ensure", ![d].backoff = NextBackoff(@)]
    /\ UNCHANGED <<setup, alive, record, cached, status, faults, history>>

(* The bridge ends, or forward_one returned the error: the task is over. *)
Ends(d) ==
    /\ At(d, "live") \/ At(d, "failed")
    /\ Goto(d, "idle")
    /\ UNCHANGED <<setup, alive, record, cached, status, faults, history>>

DialStep(d) ==
    \/ EnsureCached(d) \/ EnsureAsks(d) \/ Subscribed(d) \/ SubscribeFails(d) \/ EnsureStored(d)
    \/ DirectOk(d) \/ DirectFails(d) \/ DirectAuthFails(d)
    \/ RelayBridged(d) \/ RelayOk(d) \/ RelayFails(d) \/ RelayStrands(d) \/ Retry(d)

-----------------------------------------------------------------------------
(* The world: providers register, are dropped from the registry, stop. *)
Register(p) ==
    /\ "register" \in Events
    /\ p \in alive
    /\ record' = p
    /\ UNCHANGED <<setup, alive, cached, dial, status, faults, history>>

Unregister ==
    /\ "unregister" \in Events
    /\ record' = None
    /\ UNCHANGED <<setup, alive, cached, dial, status, faults, history>>

Die(p) ==
    /\ "die" \in Events
    /\ alive' = alive \ {p}
    /\ UNCHANGED <<setup, record, cached, dial, status, faults, history>>

Next ==
    \/ \E d \in Dials : Accept(d) \/ DialStep(d) \/ Ends(d)
    \/ \E p \in Ids : Register(p) \/ Die(p)
    \/ Unregister

Spec == Init /\ [][Next]_vars

(* Dials are tasks that keep running, unless they wait for an answer that   *)
(* does not come; connections, providers and faults come and go as they     *)
(* like.                                                                    *)
FairSpec == Spec /\ \A d \in Dials : WF_vars(DialStep(d) /\ ~At(d, "stranded"))
-----------------------------------------------------------------------------
(***************************************************************************)
(* Properties.                                                             *)
(***************************************************************************)
Active(d) == dial[d].pc \notin {"idle", "live", "failed"}

(* While the registry names a running provider with the right secret, every *)
(* dial ends or is stranded in the relay, if an id that the registry no     *)
(* longer names is only ever held while a direct dial to it can still tell, *)
(* by an answer of the process behind it.  The cached id is "refreshed if   *)
(* direct auth fails (likely because the provider restarted under a new     *)
(* identity)" (consume.rs:184-186), but a dead or unreachable id, or any    *)
(* stale id with prefer_direct off, is no auth error and stays in the       *)
(* cache; and dial_relay has no timeout (consume.rs:351, 367), so a dial    *)
(* whose provider's side of the bridge ends waits until the server's does.  *)
DetectedIdConverges ==
    \A d \in Dials :
        (/\ Active(d)
         /\ [](record \in Trusted \cap alive)
         /\ [](\A id \in {cached, dial[d].provider} \ {None} :
                  \/ id = record
                  \/ setup.prefer_direct /\ setup.direct_path /\ id \in alive))
        ~> (~Active(d) \/ At(d, "stranded"))

(* "force a fresh subscribe on the next attempt" (consume.rs:211-213): the  *)
(* id of a direct dial answers a question that was asked, by this dial or a *)
(* concurrent one, after this dial's last auth error.  The exception is an  *)
(* auth error while another dial is between its look at the cache and its   *)
(* store (consume.rs:385-395): what that dial stores afterwards may be the  *)
(* very id that was rejected.                                               *)
StaleIdNotReused ==
    \A d \in Dials : At(d, "direct") /\ ~raced[d] => d \in since[d]
=============================================================================
