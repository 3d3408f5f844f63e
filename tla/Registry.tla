------------------------------ MODULE Registry ------------------------------
(***************************************************************************)
(* The server's in-memory registry (crates/server/src/registry.rs): one    *)
(* table of sessions and one of services per group.  Both are DashMaps, so *)
(* a single insert, lookup or remove is atomic but drop_session, which     *)
(* makes several of them, is not: other handlers run between its steps.    *)
(* Each actor that may be inside drop_session (one per control connection, *)
(* and the heartbeat sweeper) therefore keeps the locals of its call.      *)
(*                                                                         *)
(* A session stores how long ago it was last touched, in time units,       *)
(* instead of an Instant; ages saturate at the first expired value.        *)
(***************************************************************************)
EXTENDS Integers

CONSTANTS
    Clients,        \* endpoint ids of client processes
    Groups,         \* names of the configured groups
    Services,       \* service names
    Actors,         \* who may be executing drop_session
    Tokens,         \* group tokens that occur in configurations
    GroupToken,     \* [[group]] group_token of each group
    LongNames,      \* service names longer than 32 bytes
    Timeout,        \* heartbeat.timeout_secs, in time units
    None            \* no client, no group, no service, no connection

ASSUME RegistryAssumption ==
    /\ GroupToken \in [Groups -> Tokens]
    /\ LongNames \subseteq Services
    /\ Timeout \in Nat \ {0}
    /\ None \notin Clients \cup Groups \cup Services

VARIABLES
    sessions,       \* sessions[g][c]: age of c's session in g, or Absent
    services,       \* services[g][s]: provider_id of the record, or None
    drop            \* drop[a]: locals of actor a's running drop_session

registryVars == <<sessions, services, drop>>

Absent == -1
Expired == Timeout + 1
Ages == 0 .. Expired

(***************************************************************************)
(* The locals of drop_session: whose session, the keys the iterator over   *)
(* services has not visited yet, and to_remove.                            *)
(***************************************************************************)
Idle == [client |-> None, group |-> None, scan |-> {}, to_remove |-> {}]
Dropping(a) == drop[a].client # None

DropType == [client : Clients \cup {None},
             group : Groups \cup {None},
             scan : SUBSET Services,
             to_remove : SUBSET Services]

RegistryTypeOK ==
    /\ sessions \in [Groups -> [Clients -> Ages \cup {Absent}]]
    /\ services \in [Groups -> [Services -> Clients \cup {None}]]
    /\ drop \in [Actors -> DropType]

RegistryInit ==
    /\ sessions = [g \in Groups |-> [c \in Clients |-> Absent]]
    /\ services = [g \in Groups |-> [s \in Services |-> None]]
    /\ drop = [a \in Actors |-> Idle]

(***************************************************************************)
(* authenticate: the first group, in the map's fixed order, whose token is *)
(* the one presented.                                                      *)
(***************************************************************************)
AuthenticateAny(token) == CHOOSE g \in Groups : TRUE   \* mutant: token not compared
Authenticates(token) == \E g \in Groups : GroupToken[g] = token
Authenticate(token) == CHOOSE g \in Groups : GroupToken[g] = token

(* The registry's effects, as the new value of the table they change. *)
TouchSession(g, c) == [sessions EXCEPT ![g][c] = 0]
NameUnchecked(s) == TRUE   \* mutant: the length is not compared
NameFits(s) == s \notin LongNames
RegisterService(g, s, c) == [services EXCEPT ![g][s] = c]
LookupService(g, s) == services[g][s]

(***************************************************************************)
(* dump_services: the (group, service) keys of all records.                *)
(***************************************************************************)
DumpServices == {gs \in Groups \X Services : services[gs[1]][gs[2]] # None}

(***************************************************************************)
(* drop_session(client): remove the session, visit every record and note   *)
(* the client's own, then remove the noted keys one by one, whoever owns   *)
(* them by then.                                                           *)
(***************************************************************************)
BeginDropKeepsSession(a, g, c) ==   \* mutant: sessions.remove missing
    /\ ~Dropping(a)
    /\ drop' = [drop EXCEPT ![a] = [client |-> c, group |-> g,
                                    scan |-> Services, to_remove |-> {}]]
    /\ UNCHANGED sessions

BeginDrop(a, g, c) ==
    /\ ~Dropping(a)
    /\ sessions' = [sessions EXCEPT ![g][c] = Absent]
    /\ drop' = [drop EXCEPT ![a] = [client |-> c, group |-> g,
                                    scan |-> Services, to_remove |-> {}]]

DropScanInverted(a) ==   \* mutant: the filter keeps the other clients' records
    /\ Dropping(a)
    /\ \E s \in drop[a].scan :
         drop' = [drop EXCEPT
                    ![a].scan = @ \ {s},
                    ![a].to_remove =
                        IF services[drop[a].group][s] # drop[a].client
                        THEN @ \cup {s} ELSE @]
    /\ UNCHANGED <<sessions, services>>

DropScan(a) ==
    /\ Dropping(a)
    /\ \E s \in drop[a].scan :
         drop' = [drop EXCEPT
                    ![a].scan = @ \ {s},
                    ![a].to_remove =
                        IF services[drop[a].group][s] = drop[a].client
                        THEN @ \cup {s} ELSE @]
    /\ UNCHANGED <<sessions, services>>

DropRemove(a) ==
    /\ Dropping(a)
    /\ drop[a].scan = {}
    /\ \E s \in drop[a].to_remove :
         /\ services' = [services EXCEPT ![drop[a].group][s] = None]
         /\ drop' = [drop EXCEPT ![a].to_remove = @ \ {s}]
    /\ UNCHANGED sessions

DropReturnsEarly(a) == Dropping(a) /\ drop[a].scan = {}   \* mutant: removal loop skipped

DropReturns(a) ==
    /\ Dropping(a)
    /\ drop[a].scan = {}
    /\ drop[a].to_remove = {}

EndDrop(a) ==
    /\ DropReturns(a)
    /\ drop' = [drop EXCEPT ![a] = Idle]
    /\ UNCHANGED <<sessions, services>>

(* The server process restarts: nothing of the registry is persisted. *)
RegistryReset ==
    /\ sessions' = [g \in Groups |-> [c \in Clients |-> Absent]]
    /\ services' = [g \in Groups |-> [s \in Services |-> None]]
    /\ drop' = [a \in Actors |-> Idle]

(* One time unit passes: every session is one unit older. *)
AgeSessions ==
    sessions' = [g \in Groups |-> [c \in Clients |->
                    IF sessions[g][c] \in 0 .. Timeout
                    THEN sessions[g][c] + 1 ELSE sessions[g][c]]]
=============================================================================
