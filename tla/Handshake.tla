----------------------------- MODULE Handshake ------------------------------
(***************************************************************************)
(* Opening a tunnel: dial_direct and dial_relay of the consumer            *)
(* (client/src/consume.rs), accept_loop and run_relay of the server        *)
(* (server/src/relay.rs), and the two handlers of the provider             *)
(* (ExposeHandler in client/src/expose.rs, StaticHandler in                *)
(* client/src/static_http.rs), with the HMAC proof of                      *)
(* common/src/protocol.rs.  Both programs start from configurations, which *)
(* module Config accepts or refuses, and the provider may be restarted     *)
(* with another one at any moment.                                         *)
(*                                                                         *)
(* A conn is one attempt of a consumer.  Link 1 is the consumer's          *)
(* connection, to the provider or to the server; link 2 is the server's    *)
(* connection to the provider.  Each has a queue of frames each way.  A    *)
(* link that is down may have lost any of the last frames of its queues;   *)
(* what is left is read before the error is.                               *)
(***************************************************************************)
EXTENDS Config

CONSTANTS
    Configs,        \* configuration files of either program
    Rows,           \* the consumers' [[consume]] rows
    Conns,          \* attempts
    MaxStarts,      \* bound on starts of the provider
    MaxFaults       \* bound on connections lost by the network

(* A consumer's rows are those of a file that its client accepted. *)
ASSUME HandshakeAssumption ==
    /\ MaxStarts \in Nat /\ MaxFaults \in Nat
    /\ \A c \in Configs :
         IsArray(c.groups) /\ IsArray(c.expose) /\ IsArray(c.static) /\ IsArray(RateOverrides(c))
    /\ \A row \in Rows : ValidateRow(row)

VARIABLES
    server,         \* the server's configuration, or None while it is down
    provider,       \* the provider's configuration, or None while it is down
    starts,         \* starts of the provider so far
    faults,         \* connections lost so far
    conn            \* the attempts

vars == <<server, provider, starts, faults, conn>>

(* protocol.rs: the frames of the data plane. *)
Frame(kind) == [kind |-> kind, data |-> None]
AuthNonce(nonce) == [kind |-> "AuthNonce", data |-> nonce]
AuthProof(mac) == [kind |-> "AuthProof", data |-> mac]

(* HMAC_SHA256(shared_secret, service_name || nonce), which nobody computes *)
(* without the secret; a nonce is 32 random bytes, named by its connection. *)
ComputeProof(secret, service, nonce) == <<secret, service, nonce>>

VerifyAnything(row, nonce, mac) == TRUE   \* mutant: the proof is not compared
VerifyProof(row, nonce, mac) == mac = ComputeProof(row.shared_secret, row.name, nonce)

Idle == [consumer |-> "idle", path |-> "direct", row |-> None,
         relay |-> "none", request |-> FALSE, reply |-> FALSE,
         handler |-> "none", spec |-> None,
         up |-> [l \in {1, 2} |-> <<>>], down |-> [l \in {1, 2} |-> <<>>],
         open |-> {}]

FrameType == [kind : {"DataOpen", "AuthHello", "AuthOk", "AuthErr"}, data : {None}]
             \cup [kind : {"AuthNonce"}, data : Conns]
             \cup {AuthProof(ComputeProof(r.shared_secret, r.name, k)) : r \in Rows, k \in Conns}

(* Every variable has its type, and no queue grows past two frames: each    *)
(* side waits for the other.                                                *)
TypeOK ==
    /\ server \in Configs \cup {None} /\ provider \in Configs \cup {None}
    /\ starts \in 0 .. MaxStarts /\ faults \in 0 .. MaxFaults
    /\ \A k \in Conns :
         /\ DOMAIN conn[k] = DOMAIN Idle
         /\ conn[k].consumer \in {"idle", "nonce", "verdict", "live", "auth_error", "error", "closed"}
         /\ conn[k].path \in {"direct", "relay"} /\ conn[k].row \in Rows \cup {None}
         /\ conn[k].relay \in {"none", "open", "dial", "copy", "ended"}
         /\ conn[k].request \in BOOLEAN /\ conn[k].reply \in BOOLEAN
         /\ conn[k].handler \in {"none", "accept", "proof", "backend", "serve", "ended"}
         /\ conn[k].open \subseteq {1, 2}
         /\ \A l \in {1, 2} : \A q \in {conn[k].up[l], conn[k].down[l]} :
              q \in Seq(FrameType) /\ Len(q) <= 2

Init ==
    /\ server = None /\ provider = None
    /\ starts = 0 /\ faults = 0
    /\ conn = [k \in Conns |-> Idle]

-----------------------------------------------------------------------------
(* The link to the provider. *)
Far(k) == IF conn[k].path = "direct" THEN 1 ELSE 2

(* Link l goes down with any of the frames that were last on it. *)
Prefixed(q) == {SubSeq(q, 1, n) : n \in 0 .. Len(q)}
CutTo(r, l, p, q) == [r EXCEPT !.open = @ \ {l}, !.up[l] = p, !.down[l] = q]
Cut(r, l) == {CutTo(r, l, p, q) : p \in Prefixed(r.up[l]), q \in Prefixed(r.down[l])}

(* The programs start from a file each accepts; the others end in an error. *)
StartServer(c) ==
    /\ server = None
    /\ StartsServer(c)
    /\ server' = c
    /\ UNCHANGED <<provider, starts, faults, conn>>

StartProvider(c) ==
    /\ provider = None /\ starts < MaxStarts
    /\ StartsClient(c)
    /\ provider' = c
    /\ starts' = starts + 1
    /\ UNCHANGED <<server, faults, conn>>

(* The process ends, and its handlers and connections with it. *)
Orphaned(k) ==
    IF conn[k].handler \in {"none", "ended"} THEN {conn[k]}
    ELSE Cut([conn[k] EXCEPT !.handler = "ended"], Far(k))

StopProvider ==
    /\ provider # None
    /\ provider' = None
    /\ \E f \in [Conns -> UNION {Orphaned(k) : k \in Conns}] :
         (\A k \in Conns : f[k] \in Orphaned(k)) /\ conn' = f
    /\ UNCHANGED <<server, starts, faults>>

(* A connection is lost on the way: an idle timeout at both ends. *)
Lose(k, l) ==
    /\ faults < MaxFaults
    /\ l \in conn[k].open
    /\ \E r \in Cut(conn[k], l) : conn' = [conn EXCEPT ![k] = r]
    /\ faults' = faults + 1
    /\ UNCHANGED <<server, provider, starts>>

Becomes(k, r) ==
    /\ conn' = [conn EXCEPT ![k] = r]
    /\ UNCHANGED <<server, provider, starts, faults>>

(* Endpoint::connect finds the provider up with a handler for the ALPN. *)
Reachable(name) == provider # None /\ AlpnForService(name) \in DOMAIN Router(provider)

(* The router of the provider hands a new connection to its handler. *)
Accepted(r, name) ==
    [r EXCEPT !.handler = "accept", !.spec = Router(provider)[AlpnForService(name)]]

-----------------------------------------------------------------------------
(* The consumer. *)
DirectSilent(k, row) ==   \* mutant: AuthHello is not written
    /\ conn[k].consumer = "idle"
    /\ Reachable(row.name)
    /\ Becomes(k, Accepted([Idle EXCEPT !.consumer = "nonce", !.row = row, !.open = {1}], row.name))

(* dial_direct: connect, open_bi, AuthHello. *)
DialDirect(k, row) ==
    /\ conn[k].consumer = "idle"
    /\ Reachable(row.name)
    /\ Becomes(k, Accepted([Idle EXCEPT !.consumer = "nonce", !.row = row, !.open = {1},
                                        !.up[1] = <<Frame("AuthHello")>>], row.name))

(* dial_relay: connect to the server, DataOpen, AuthHello. *)
DialRelay(k, row) ==
    /\ conn[k].consumer = "idle"
    /\ server # None
    /\ Becomes(k, [Idle EXCEPT !.consumer = "nonce", !.row = row, !.path = "relay", !.open = {1},
                               !.relay = "open",
                               !.up[1] = <<Frame("DataOpen"), Frame("AuthHello")>>])

(* connect fails: nobody is there, no handler for the ALPN, no way. *)
DialFails(k, row, path) ==
    /\ conn[k].consumer = "idle"
    /\ Becomes(k, [Idle EXCEPT !.consumer = "error", !.row = row, !.path = path])

(* The attempt is over; its connection is dropped. *)
Fails(k, outcome) ==
    \E r \in Cut([conn[k] EXCEPT !.consumer = outcome], 1) : Becomes(k, r)

(* Nothing more comes from link 1. *)
Eof(k) ==
    /\ conn[k].down[1] = <<>>
    /\ 1 \notin conn[k].open \/ conn[k].relay = "ended"

(* is_auth_error: only dial_direct words its errors that way. *)
Refusal(k) == IF conn[k].path = "direct" THEN "auth_error" ELSE "error"

ReadNonce(k) ==
    LET head == Head(conn[k].down[1])
        proof == ComputeProof(conn[k].row.shared_secret, conn[k].row.name, head.data)
    IN
    /\ conn[k].consumer = "nonce" /\ conn[k].down[1] # <<>>
    /\ IF head.kind = "AuthNonce" /\ 1 \in conn[k].open
       THEN Becomes(k, [conn[k] EXCEPT !.consumer = "verdict",
                                       !.down[1] = Tail(@), !.up[1] = Append(@, AuthProof(proof))])
       ELSE Fails(k, IF head.kind = "AuthErr" THEN Refusal(k) ELSE "error")

ReadVerdict(k) ==
    LET head == Head(conn[k].down[1]) IN
    /\ conn[k].consumer = "verdict" /\ conn[k].down[1] # <<>>
    /\ IF head.kind = "AuthOk"
       THEN Becomes(k, [conn[k] EXCEPT !.consumer = "live", !.down[1] = Tail(@)])
       ELSE Fails(k, IF head.kind = "AuthErr" THEN Refusal(k) ELSE "error")

(* The connection is lost: after the proof it is taken for a refusal. *)
ReadFails(k) ==
    /\ Eof(k)
    /\ \/ conn[k].consumer = "nonce" /\ Fails(k, "error")
       \/ conn[k].consumer = "verdict" /\ Fails(k, Refusal(k))

(* bridge ends with the stream. *)
BridgeEnds(k) == conn[k].consumer = "live" /\ Eof(k) /\ Fails(k, "closed")

(* The application closes its connection. *)
AppCloses(k) == conn[k].consumer = "live" /\ Fails(k, "closed")

Consumer(k) == ReadNonce(k) \/ ReadVerdict(k) \/ ReadFails(k) \/ BridgeEnds(k)

-----------------------------------------------------------------------------
(* The relay.  accept_loop reads DataOpen and looks the service up, which   *)
(* is the subject of Relay.                                                 *)
ReadDataOpen(k) ==
    /\ conn[k].relay = "open" /\ conn[k].up[1] # <<>>
    /\ \E verdict \in {"dial", "ended"} :
         Becomes(k, [conn[k] EXCEPT !.relay = verdict, !.up[1] = Tail(@)])

NoDataOpen(k) ==
    /\ conn[k].relay = "open" /\ conn[k].up[1] = <<>> /\ 1 \notin conn[k].open
    /\ Becomes(k, [conn[k] EXCEPT !.relay = "ended"])

(* run_relay: connect to the provider, open_bi, and copy both ways; *)
RelayConnects(k) ==
    /\ conn[k].relay = "dial"
    /\ Reachable(conn[k].row.name)
    /\ Becomes(k, Accepted([conn[k] EXCEPT !.relay = "copy", !.open = @ \cup {2},
                                           !.request = TRUE, !.reply = TRUE], conn[k].row.name))

(* or return, and drop the consumer's stream. *)
RelayFails(k) ==
    /\ conn[k].relay = "dial"
    /\ Becomes(k, [conn[k] EXCEPT !.relay = "ended"])

CopyTwice(k) ==   \* mutant: what is written is not consumed
    /\ conn[k].request
    /\ conn[k].up[1] # <<>> /\ 2 \in conn[k].open
    /\ Becomes(k, [conn[k] EXCEPT !.up[2] = Append(@, Head(conn[k].up[1]))])

CopyRequest(k) ==
    /\ conn[k].request
    /\ \/ /\ conn[k].up[1] # <<>> /\ 2 \in conn[k].open
          /\ Becomes(k, [conn[k] EXCEPT !.up[1] = Tail(@),
                                        !.up[2] = Append(@, Head(conn[k].up[1]))])
       \/ /\ \/ conn[k].up[1] = <<>> /\ 1 \notin conn[k].open
             \/ conn[k].up[1] # <<>> /\ 2 \notin conn[k].open
          /\ Becomes(k, [conn[k] EXCEPT !.request = FALSE])

CopyReply(k) ==
    /\ conn[k].reply
    /\ \/ /\ conn[k].down[2] # <<>> /\ 1 \in conn[k].open
          /\ Becomes(k, [conn[k] EXCEPT !.down[2] = Tail(@),
                                        !.down[1] = Append(@, Head(conn[k].down[2]))])
       \/ /\ \/ conn[k].down[2] = <<>> /\ 2 \notin conn[k].open
             \/ conn[k].down[2] # <<>> /\ 1 \notin conn[k].open
          /\ Becomes(k, [conn[k] EXCEPT !.reply = FALSE])

(* The join of the two copies is over and run_relay returns. *)
RelayReturns(k) ==
    /\ conn[k].relay = "copy" /\ ~conn[k].request /\ ~conn[k].reply
    /\ \E r \in Cut([conn[k] EXCEPT !.relay = "ended"], 2) : Becomes(k, r)

RelayTask(k) ==
    ReadDataOpen(k) \/ NoDataOpen(k) \/ RelayConnects(k) \/ RelayFails(k) \/ RelayReturns(k)

-----------------------------------------------------------------------------
(* The provider's handler.  accept_bi returns when the opener of the stream *)
(* has written to it.  A handler that returns closes its connection.        *)
Returns(k, r) == \E s \in Cut([r EXCEPT !.handler = "ended"], Far(k)) : Becomes(k, s)

Arrived(k) == conn[k].up[Far(k)]
Answer(r, l, frame) == [r EXCEPT !.up[l] = Tail(@), !.down[l] = Append(@, frame)]

ReadHello(k) ==
    /\ conn[k].handler = "accept" /\ Arrived(k) # <<>>
    /\ IF Head(Arrived(k)).kind = "AuthHello" /\ Far(k) \in conn[k].open
       THEN Becomes(k, [Answer(conn[k], Far(k), AuthNonce(k)) EXCEPT !.handler = "proof"])
       ELSE Returns(k, conn[k])

(* A static service is served at once, an exposed one dials its backend. *)
ProofHolds(k) == VerifyProof(conn[k].spec.row, k, Head(Arrived(k)).data)

ReadProof(k) ==
    LET proof == Head(Arrived(k)).kind = "AuthProof" /\ Far(k) \in conn[k].open IN
    /\ conn[k].handler = "proof" /\ Arrived(k) # <<>>
    /\ \/ /\ proof /\ ProofHolds(k)
          /\ Becomes(k, [Answer(conn[k], Far(k), Frame("AuthOk")) EXCEPT
               !.handler = IF conn[k].spec.kind = "static" THEN "serve" ELSE "backend"])
       \/ proof /\ ~ProofHolds(k) /\ Returns(k, Answer(conn[k], Far(k), Frame("AuthErr")))
       \/ ~proof /\ Returns(k, conn[k])

BackendConnects(k) ==
    /\ conn[k].handler = "backend"
    /\ Becomes(k, [conn[k] EXCEPT !.handler = "serve"])

(* The backend refuses, or five seconds pass. *)
BackendFails(k) == conn[k].handler = "backend" /\ Returns(k, conn[k])

(* A read finds the connection gone. *)
HandlerLoses(k) ==
    /\ conn[k].handler \in {"accept", "proof", "serve"}
    /\ Arrived(k) = <<>> /\ Far(k) \notin conn[k].open
    /\ Returns(k, conn[k])

Handler(k) ==
    ReadHello(k) \/ ReadProof(k) \/ BackendConnects(k) \/ BackendFails(k) \/ HandlerLoses(k)

-----------------------------------------------------------------------------
Next ==
    \/ \E c \in Configs : StartServer(c) \/ StartProvider(c)
    \/ StopProvider
    \/ \E k \in Conns :
         \/ \E row \in Rows :
              \/ DialDirect(k, row) \/ DialRelay(k, row)
              \/ \E path \in {"direct", "relay"} : DialFails(k, row, path)
         \/ Consumer(k) \/ AppCloses(k)
         \/ RelayTask(k) \/ CopyRequest(k) \/ CopyReply(k)
         \/ Handler(k)
         \/ \E l \in {1, 2} : Lose(k, l)

Spec == Init /\ [][Next]_vars

(* Every task keeps running; nobody has to dial, close, stop or start.      *)
FairSpec ==
    /\ Spec
    /\ \A k \in Conns : /\ WF_vars(Consumer(k)) /\ WF_vars(Handler(k)) /\ WF_vars(RelayTask(k))
                        /\ WF_vars(CopyRequest(k)) /\ WF_vars(CopyReply(k))
-----------------------------------------------------------------------------
(***************************************************************************)
(* Properties.                                                             *)
(***************************************************************************)

(* Whoever is served holds the secret: a consumer that goes Live, and a     *)
(* handler that dials its backend or serves files, are on the two ends of a *)
(* stream whose rows name the same service and the same secret, whatever    *)
(* the relay, a restart or a new configuration did in between (verify_proof *)
(* in ExposeHandler::handle and StaticHandler::handle).                     *)
LiveIsAuthorised ==
    \A k \in Conns :
        (conn[k].consumer = "live" \/ conn[k].handler \in {"backend", "serve"}) =>
            /\ conn[k].spec.kind \in {"expose", "static"}
            /\ conn[k].spec.row.name = conn[k].row.name
            /\ conn[k].spec.row.shared_secret = conn[k].row.shared_secret

(* An accepted row takes effect: no [[expose]] or [[static]] row shadows    *)
(* another or the control responder ("would silently shadow earlier entries *)
(* at runtime", config.rs:424), every [[relay.rate_override]] row is its    *)
(* consumer's entry in the table, which is built whether relay.enabled is   *)
(* on or not and read only if it is (Limited in Relay), and a group's token *)
(* leads to that group, unless two groups have the same token, which        *)
(* validate_server does not look at.                                        *)
RowsTakeEffect ==
    /\ provider # None =>
         /\ Router(provider)[AlpnControl].kind = "control"
         /\ \A i \in DOMAIN provider.expose :
              Router(provider)[AlpnForService(provider.expose[i].name)].row = provider.expose[i]
         /\ \A i \in DOMAIN provider.static :
              Router(provider)[AlpnForService(provider.static[i].name)].row = provider.static[i]
         /\ {AlpnData} \cap DOMAIN Router(provider) = {}
    /\ server # None =>
         /\ \A i \in DOMAIN RateOverrides(server) :
              OverrideTable(server)[OverrideIds(server)[i]] = RateOverrides(server)[i].bytes_per_sec
         /\ \A i \in DOMAIN server.groups :
              \/ Authenticate(GroupTable(server), server.groups[i].group_token) = {server.groups[i].name}
              \/ \E j \in DOMAIN server.groups \ {i} :
                   server.groups[j].group_token = server.groups[i].group_token

(* The relay joins its two copies: when the provider's side ends, the copy  *)
(* of the requests still waits for the consumer, who waits for an answer.   *)
Stranded(k) ==
    /\ conn[k].relay = "copy" /\ conn[k].request /\ ~conn[k].reply
    /\ conn[k].up[1] = <<>> /\ 1 \in conn[k].open

(* Every attempt comes to an end although no read of it has a timeout: it   *)
(* fails, or it is served, or its consumer is told that the backend is not  *)
(* there; on the relay path unless it is Stranded (dial_direct, dial_relay, *)
(* handle; "Without it both sides block", consume.rs:338).                  *)
DialSettles ==
    \A k \in Conns :
        conn[k].consumer \in {"nonce", "verdict", "live"} ~>
            \/ conn[k].consumer \in {"error", "auth_error", "closed"}
            \/ conn[k].consumer = "live" /\ conn[k].handler = "serve"
            \/ Stranded(k)
=============================================================================
