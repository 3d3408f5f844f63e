------------------------------- MODULE Config -------------------------------
(***************************************************************************)
(* What a configuration file means: RootConfig::validate                   *)
(* (common/src/config.rs), the service names and ALPNs it rests on         *)
(* (common/src/alpn.rs), and the tables the two programs build from an     *)
(* accepted one: the client's protocol router (client/src/main.rs), and    *)
(* the server's groups and rate overrides (server/src/registry.rs).        *)
(*                                                                         *)
(* A name is a sequence of characters; any other text is a string of which *)
(* only emptiness and equality matter, and None is a key left out of the   *)
(* file.                                                                   *)
(***************************************************************************)
EXTENDS Integers, Sequences

CONSTANTS
    Letters,        \* the characters a-z and 0-9
    MaxName,        \* the longest service name, 32
    Control, Data,  \* the names "control" and "data"
    Reserved,       \* RESERVED
    None

ASSUME ConfigAssumption ==
    /\ MaxName \in Nat
    /\ Control # Data
    /\ {Control, Data} \subseteq Reserved

-----------------------------------------------------------------------------
(* common/src/alpn.rs *)

ValidateUnreserved(name) ==   \* mutant: RESERVED not consulted
    /\ Len(name) \in 1 .. MaxName
    /\ name[1] # "-" /\ name[Len(name)] # "-"
    /\ \A i \in 1 .. Len(name) - 1 : ~(name[i] = "-" /\ name[i + 1] = "-")
    /\ \A i \in DOMAIN name : name[i] \in Letters \cup {"-"}

ValidateServiceName(name) ==
    /\ Len(name) \in 1 .. MaxName
    /\ name[1] # "-" /\ name[Len(name)] # "-"
    /\ \A i \in 1 .. Len(name) - 1 : ~(name[i] = "-" /\ name[i + 1] = "-")
    /\ \A i \in DOMAIN name : name[i] \in Letters \cup {"-"}
    /\ name \notin Reserved

(* The prefix and the name. *)
AlpnForService(name) == <<"meshly-core", name>>
AlpnControl == AlpnForService(Control)
AlpnData == AlpnForService(Data)

-----------------------------------------------------------------------------
(* RootConfig: its arrays of tables. *)
IsArray(rows) == rows \in Seq({rows[i] : i \in DOMAIN rows})

Names(rows) == {rows[i].name : i \in DOMAIN rows}

(* The HashSets of validate: no two rows are the same by `key`. *)
Unique(keys) == \A i, j \in DOMAIN keys : keys[i] = keys[j] => i = j
UniqueNames(rows) == Unique([i \in DOMAIN rows |-> rows[i].name])

(* parse_endpoint_id: the two spellings of an id, z-base-32 and hex. *)
ParseEndpointId(text) == IF text.form \in {"zbase32", "hex"} THEN text.id ELSE None

(* The rows [[relay.rate_override]], if there is a [relay] section at all.  *)
RateOverrides(c) == IF c.relay = None THEN <<>> ELSE c.relay
OverrideIds(c) ==
    [i \in DOMAIN RateOverrides(c) |-> ParseEndpointId(RateOverrides(c)[i].node_id)]

ValidateServer(c) ==
    /\ UniqueNames(c.groups)
    /\ \A i \in DOMAIN c.groups : c.groups[i].group_token # ""
    /\ \A i \in DOMAIN OverrideIds(c) : OverrideIds(c)[i] # None
    /\ Unique(OverrideIds(c))

ValidateRow(row) == ValidateServiceName(row.name) /\ row.shared_secret # ""

(* root_dir exists and is a directory when the file is loaded. *)
ValidateStatic(row) == ValidateRow(row) /\ row.root_dir = "directory"

ValidateClient(c) ==
    /\ c.relay = None
    /\ c.server_node_id \notin {None, ""}
    /\ c.group_token \notin {None, ""}
    /\ UniqueNames(c.expose) /\ UniqueNames(c.consume) /\ UniqueNames(c.static)
    /\ Names(c.consume) \cap (Names(c.expose) \cup Names(c.static)) = {}
    /\ Names(c.expose) \cap Names(c.static) = {}
    /\ \A i \in DOMAIN c.expose : ValidateRow(c.expose[i])
    /\ \A i \in DOMAIN c.static : ValidateStatic(c.static[i])
    /\ \A i \in DOMAIN c.consume : ValidateRow(c.consume[i])

IsServer(c) == c.groups # <<>>

(* A file with [[static]] rows only, and no server_node_id, has no role. *)
HasClientFields(c) == c.server_node_id # None \/ c.expose # <<>> \/ c.consume # <<>>

Validate(c) ==
    /\ IsServer(c) # HasClientFields(c)
    /\ IF IsServer(c) THEN ValidateServer(c) ELSE ValidateClient(c)
    /\ c.level \in {"trace", "debug", "info", "warn", "error"}

(* run_client and the server's real_main go on to start up with this file;  *)
(* the client also parses server_node_id.                                   *)
StartsClient(c) == Validate(c) /\ ~IsServer(c) /\ c.server_node_id # "garbage"
StartsServer(c) == Validate(c) /\ IsServer(c)

-----------------------------------------------------------------------------
(* The tables.  Each is filled row by row, and a later row with the same    *)
(* key replaces an earlier one.                                             *)
LastRow(keys, key) ==
    CHOOSE i \in DOMAIN keys : keys[i] = key /\ \A j \in DOMAIN keys : keys[j] = key => j <= i

TableOf(keys, entries) ==
    [key \in {keys[i] : i \in DOMAIN keys} |-> entries[LastRow(keys, key)]]

(* Router::accept: the control responder, then every [[expose]] and every   *)
(* [[static]] row.                                                          *)
Router(c) ==
    LET rows == c.expose \o c.static
        handlers == <<[kind |-> "control", row |-> None]>>
                    \o [i \in DOMAIN c.expose |-> [kind |-> "expose", row |-> c.expose[i]]]
                    \o [i \in DOMAIN c.static |-> [kind |-> "static", row |-> c.static[i]]]
        alpns == <<AlpnControl>> \o [i \in DOMAIN rows |-> AlpnForService(rows[i].name)]
    IN  TableOf(alpns, handlers)

(* ServerState::new *)
GroupTable(c) ==
    TableOf([i \in DOMAIN c.groups |-> c.groups[i].name],
            [i \in DOMAIN c.groups |-> c.groups[i].group_token])

OverrideTable(c) ==
    TableOf(OverrideIds(c),
            [i \in DOMAIN RateOverrides(c) |-> RateOverrides(c)[i].bytes_per_sec])

(* ServerState::authenticate: some group with that token, in the order of   *)
(* the map.                                                                 *)
Authenticate(table, token) == {name \in DOMAIN table : table[name] = token}
=============================================================================
