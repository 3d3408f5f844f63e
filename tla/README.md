# meshly-core: a TLA+ model

meshly-core is a reverse proxy over QUIC (iroh). A central **server** keeps a
registry of services per group and relays traffic when two clients cannot
connect directly; **clients** expose local TCP services or directories, and
consume the services of others. This directory holds TLA+ modules translated
from `src/crates`, TLC configurations that check them on small instances, and
TLAPS proofs. `PROJECT.json` maps every definition to the lines it models and
lists runs, mutants, findings, hazards and theorems.

## 1. Inventory

| Component | State | Operations | Correct when |
|---|---|---|---|
| Registry (`server/registry.rs`) | per group: sessions by client, services by name; rate handles by stream id | authenticate, touch_session, register_service, lookup_service, drop_session, alloc/register/unregister/update rate | a record is backed by its provider's connection; nothing crosses groups; the rate table names the running tunnels |
| Control handler (`server/control.rs`) | where run_session is, its group | Hello, Register, Subscribe, Heartbeat, anything else, end of connection | every exit leaves the registry as if the connection had not been |
| Sweeper (`server/main.rs`) | timer, keys it walks, ids it collected | sweep_dead_sessions | drops exactly what is expired |
| Registration loop (`client/main.rs`, `expose.rs`) | its connection, next service, heartbeat timer | register_with_server, heartbeat, reconnect | a running client is registered in the end, and stays so |
| Consumer (`client/consume.rs`, `status.rs`) | cached provider id, one dial per local connection, status | subscribe, dial_direct, dial_relay, backoff | every dial reaches the registered provider |
| Relay (`server/relay.rs`) | one task per stream | accept_loop, run_relay | a registered provider is reached, at the rate of the consumer that asked |
| Bandwidth cap (`server/ratelimit.rs`) | tokens, time of the last refill, an atomic rate | refill, acquire, copy_throttled | no more than rate x (1 + t) bytes in t seconds, and progress |
| Tunnel (`common/tunnel.rs`, `relay.rs` copy_bidirectional) | two byte streams per hop | copy, shut down, fail | bytes once and in order, end of file passed on, nothing left behind |
| Identity (`common/identity.rs`) | key file and temporary file | load_or_generate_at | the running key is the persisted one |
| Static HTTP (`client/static_http.rs`) | a buffered stream, the request being read | read_request, build_response, write_response, serve_one | each request is answered, and both ends stay in step |
| Handshake (`expose.rs`, `static_http.rs`, `consume.rs`, `relay.rs`) | frames on the way, nonce, proof | DataOpen, AuthHello, AuthNonce, AuthProof, AuthOk/AuthErr | a stream is bridged only after the right proof, and nobody waits for ever |
| Codec (`common/protocol.rs`) | what read_exact has so far | write_to, read_from, encode_payload, decode | the reader gets the frames written, and not one byte more |
| Configuration (`common/config.rs`, `alpn.rs`, `endpoint.rs`) | none after start-up | validate, the tables built from it | every row of an accepted file takes effect |
| Command line | none | parse, print | - |

How they interact: clients and server exchange frames over control connections
(one long one per client, one short one per `subscribe`). All handlers and the
sweeper share the registry through DashMaps, without a lock around compound
operations. The relay reads the registry to check a stream, dials the provider
as a client would, and copies bytes; the consumer tries the provider directly
first.

What is hard: compound registry operations that interleave; connections of one
client that overlap in time (reconnects, subscribes) while the registry is
keyed by client; early returns that skip clean-up; a rate that changes under a
running loop; half-closes and losses through several copying tasks; a cache
shared by concurrent dials; chunk boundaries anywhere in a request; crashes
between two file operations; two peers and a relay that each wait for the next
frame, without timeouts, over connections that may be lost with the last frame.
`PROJECT.json` lists each of these at its line.

## 2. Modules

Run modules are in brackets.

* **Registry** - the tables and `drop_session`, split at its DashMap
  operations: remove the session, visit each record, remove each noted key.
  The locals of each running call are the function `drop`, indexed by actor (a
  connection's handler or the sweeper). A session stores its age; ages saturate
  at the first expired value.
* **ControlPlane** (extends Registry) [MCControlPlane] - transport, handlers,
  sweeper, clients, subscribers, peers that send any frame, time. `conn[k]` is
  a connection: `up`, `lost` (cut, but an end may not know: a write may succeed
  and vanish) or `dead` (every operation fails). `handler[k]` is run_session:
  `hello`, `loop`, `drop`, `done`, and `failed` for a return at a `?`, which
  skips drop_session. `client[c]` is the registration loop, `sub[k]` a
  `subscribe` or a raw peer. The server's heartbeat writer and the client's
  drain task change no state that another part reads and are left out. Time
  passes between exchanges, except that a heartbeat may be on its way for a unit
  (`HeartbeatUnderWay`).
* **ControlPlaneProofs** - its theorems.
* **RateLimit** [itself] - copy_throttled and its bucket, with
  update_relay_rate at any time. **TokenBucket** is the abstract specification,
  an ideal bucket that gains tokens every tick; `CapHolds` is the refinement.
  **RateLimitProofs** proves it.
* **Relay** [MCRelay] - accept_loop's checks, run_relay, stream ids and rate
  handles. Records change one DashMap operation at a time. `GroupOrder` is the
  fixed iteration order of the groups' map. **RelayProofs**: its theorems.
* **Tunnel** [MCTunnel] - a chain of hops, each `bridge` or the relay's
  copy_bidirectional, over links with bounded buffers. The chain is chosen at
  the start (`hops`). A relay that fails drops its connection to the provider;
  towards the consumer its writer finishes and its reader is stopped. **TunnelProofs**: its theorems.
* **Consume** [MCConsume] - dial_stream of concurrent local connections. The
  world is which provider ids run and which one is registered; `setup` is
  prefer_direct, the two backoffs and the reach of the network.
  ensure_provider_id looks at the cache, asks and stores in three steps, and
  dial_relay may end, or be left without an answer (`stranded`). `since`,
  `cache_since` and `raced` are history variables.
  **ConsumeProofs**: its theorems.
* **Identity** [MCIdentity] - the file operations of load_or_generate_at on
  names and inodes, with crashes. `overlapped` is a history variable.
  **IdentityProofs**: its theorems.
* **StaticHttp** [MCStaticHttp] - the request loop on a stream that arrives in
  any chunks, and the responses. A byte is one of the few the reader
  distinguishes; a request line says which method, version and kind of path it
  has. build_response looks a path up three times, and what it names may be
  replaced after the first, inside or outside root_dir, so a response is one of
  a set and says where its content is from (`from`, and the history `moved`).
  The stream may be lost at any read or write. `cut` is a history variable. **StreamProofs** holds its theorems
  and those of Frames, the other parser of a byte stream.
* **Config** - validate, service names, ALPNs and ids as operators on the record
  of a file, and the tables made from it: the client's Router, the server's
  groups and rate overrides, each filled row by row.
* **Handshake** (extends Config) [MCHandshake] - one attempt of a consumer,
  direct or relayed, frame by frame. `conn[k]` is the consumer (`nonce`,
  `verdict`, then `live` or an error), the relay task with its two copies, the
  provider's handler with the row it was started with, and two links with their
  queues. A link that goes down loses any of the last frames (`Cut`). The
  programs start from any file that Config accepts. **HandshakeProofs**: its
  theorems, and those on the tables of Config.
* **Frames** [MCFrames] - the codec byte by byte: `write_to` in its two writes,
  `read_from` in portions, the tunnel's bytes after the last frame. A byte has
  `Base` values, so that lengths above `Base` need both bytes of the header. `Frame`
  is the set of values of the enum. `severed` is a history variable. The
  specification is `WireSpec`, with names that differ from those of StaticHttp,
  so that StreamProofs can extend both.

Names ending in a comment `mutant:` are faulty variants of the definition that
follows; they are used only to show that the properties can fail.

## 3. Runs

| Run | States | Bounds | Shows |
|---|---|---|---|
| control_full | 1.4 M | 2 clients, 3 connections, 1 fault of any kind | registry entries are backed; sessions of live clients never expire |
| control_frames | 0.7 M | 3 peers, 2 groups, 2 names (one too long), 2 connections, 1 refused connection or restart | names that fit; isolation against arbitrary frames; neither another group's peer nor the sweeper takes a registration away |
| control_recovery | 219 k | 1 client, 3 connections, 2 faults of any kind, fairness | recovery; expired sessions are swept; a client that is gone is forgotten |
| rate_cap | 8 k | rates 0-5, chunks 1-4, 3 ticks a second, fairness | refinement; a chunk that fits the rate is admitted |
| consume_dials | 0.4 M | 2 dials, 2 ids (one with another secret), 3 setups (one with a first backoff above the cap), 1 fault, fairness | rejected ids not reused unless dials race, convergence |
| tunnel_paths | 83 k | both chains, 3 bytes one way and 1 the other, buffers of 2, one loss anywhere, fairness | order, completeness, half-close, no task left |
| relay_rates | 32 k | 2 streams, 2 consumers, 2 providers, 2 groups, 3 ids, limiting on and off | rate bookkeeping; who is refused |
| identity_crash | 17 k | 2 processes, 3 keys, any crash, starts that overlap or not | persistence |
| http_requests | 88 k | 18 kinds of request, up to 3 pipelined, limits 3 and 5 bytes, files of 0 and 2 bytes, listing on and off, any chunks, fairness | in step, answered, closed when asked; responses that a peer can tell apart |
| tunnel_opening | 54 k | 1 attempt at 2 names, some 70 files, 2 starts of the provider, 2 losses, fairness | who is served holds the secret; accepted rows take effect; attempts settle |
| wire_frames | 49 k | 17 sequences of up to 3 frames, all 14 kinds, bytes below 32, payloads of up to 36 bytes and one more, any portions, any cut | what is read is what was written |

Why these bounds are enough: every race in the control plane needs two
connections of one client or two clients of one name, and a third connection
lets a subscribe overlap a reconnect, or one more attempt follow two abandoned
ones. Interval and timeout are counted in the 30 s idle timeout and are 1 and 2,
the tightest relation in which a heartbeat that takes up to a unit still arrives
in time; with both at 1 TLC finds `SessionNeverExpires` violated, as the comment
on CLIENT_HEARTBEAT_INTERVAL (client/main.rs:28-31) says. Three bytes with
a buffer of two make every hop block and drain. Limits of 3 and 5 bytes are met
exactly and exceeded by one or more in the requests chosen. One attempt is
enough for the handshake: attempts share nothing but the programs, and the
second start of the provider is the one that can meet an attempt begun with the
first. In wire_frames a payload limit above `Base` makes the length field carry
into its second byte. `MaxFaults`, `MaxStarts`, `MaxBytes`, `MaxStreamId` and
`Capacity` are the named bounds; connection ids are recycled, so the length of
a behaviour is not bounded.

One run expects a violation of what the README says: in subscribe_drops the end
of a subscribe drops the client's registration.

### Conditions

Where the code does less than its comments suggest, the property of a passing
run carries the exception as an explicit condition, so that the reader sees
how far the code goes:

* `RegistrationBacked`, `SessionBacked`: an answer that cannot be written leaves
  run_session at a `?`, past drop_session, and its entries stay
  (control.rs:143); the README says a registration "lives only as long as its
  control-plane connection is alive".
* `RegistrationKept` holds in control_frames, where a client has one connection
  at a time: through refused connections, restarts of the server, heartbeats that
  are late by a unit, and whatever the peers send. With a second one of the same
  client (a subscribe, or a reconnect while the old handler still runs) the
  handler that ends first drops what the other registered (subscribe_drops);
  drop_session also removes a record that another client took over between its
  scan and its removal (registry.rs:250-259), and the sweeper drops a session
  that was touched after it was collected.
* `EventuallyRegistered` is about what the client believes; that the server's
  directory may lose the record again is the previous point.
* `ExpiredIsSwept`: only groups with a record are visited (main.rs:167).
* `GoneIsForgotten`: a record without a session is never swept.
* `FittingIsAdmitted`: a chunk above the rate is never admitted, nor is one that
  is waiting when the rate becomes 0, as long as it is 0: refill caps the bucket at one second's
  worth (ratelimit.rs:65) while acquire promises to block "until `n` tokens are
  available" (ratelimit.rs:69). A rate below the 16 KiB of a chunk can stall a
  tunnel.
* `DetectedIdConverges`: a dead or unreachable provider, and any stale id with
  prefer_direct off, is no auth error, so a provider that restarted under a new
  identity is dialled under the old one for ever, although the id is "refreshed
  if direct auth fails (likely because the provider restarted under a new
  identity)" (consume.rs:184-186). A dial ends in error at the first failed
  subscribe. A dial whose provider's side of the relay ends without an answer is
  `stranded`: dial_relay has no timeout (consume.rs:351, 367) and the relay's
  join! (relay.rs:325) keeps its stream open, as in Handshake's `Stranded`.
* `StaleIdNotReused` (`raced`): another dial's answer, asked for before the
  invalidation and stored after it, may be the same stale id, although the code
  says "force a fresh subscribe on the next attempt" (consume.rs:211-213).
  Without the exception TLC finds the property violated by two dials.
* `Consume!TypeOK`: the first sleep may exceed the cap on the backoff.
* `HalfCloseArrives`, `LossEndsTunnel`: the relay joins its copies, so it holds
  a half-close back until the other direction ends, and a lost consumer leaves
  its task waiting for a silent backend.
* `RegisteredIsRelayed`: a name used in two groups hides one provider.
* `RunningKeyIsPersisted`, `KeyFileIsWhole`: two first starts on one path share
  the temporary file and the later rename wins.
* `InStep`, `EveryRequestAnswered`, `ClosesWhenAsked` (`Framed`): a terminator
  cut by a chunk boundary is not found, nor is that of a request without
  headers, whose CR LF follows the request line. A lost stream ends the loop
  (`EveryRequestAnswered`).
* `ClosesWhenAsked`: a request of another version than 1.0 and 1.1 closes the
  connection whatever its headers say (static_http.rs:265).
* `ResponsesFramed` (`moved`): the check against root_dir (static_http.rs:444) is
  of a path, and metadata, read_dir and read (448, 456, 473) look that path up
  again, so a target replaced by a link in between is served from wherever it
  leads.
* `DialSettles` (`Stranded`): when the provider refuses a relayed attempt or
  goes away during it, the relay's reply copy ends but its request copy waits
  for the consumer, so the consumer's stream stays open without a verdict if the
  AuthErr was lost. dial_relay expects to see the connection lost
  (consume.rs:363-366); it sees the relay's, which is up. What dial_relay does
  see it words as "relay auth rejected", which is_auth_error does not match; a
  test pins that (consume.rs:444-457).
* `RowsTakeEffect`: two groups may have one token. An override is in the table
  whether relay.enabled is on or not; that it is read only if it is on
  (config.rs:147-152) is `Limited` in Relay. A file with [[static]] rows
  but neither server_node_id, [[expose]] nor [[consume]] has no role and is
  refused (config.rs:314).
* `ErrorMeansCut`: only what write_to produces is decoded. decode uses the
  second length of a DataOpen before it compares it with the payload
  (protocol.rs:350); the operator says `Panic` there.

### Fairness

Tokio runs every task that can run, so handlers, the sweeper, the client loop,
subscribes, dials, handshakes, copies and the HTTP loop are weakly fair, one condition per
task. Time passes: `Tick` is strongly fair in ControlPlane because an exchange
under way postpones it (an exchange is much shorter than the idle timeout), and
weakly fair in RateLimit. What was sent arrives (Tunnel, StaticHttp). Nobody is
obliged to open a connection, to send, to close, to change a rate, to restart,
or to fail. A stranded dial is not obliged to go on: nothing in the code ends it.

## 4. Proofs

`ControlPlaneProofs` proves, for every value of the constants allowed by
`RegistryAssumption` and `ControlAssumption`:

* `TypeCorrect`: `TypeOK`, with the names of the directory, which register_service
  has checked (`NamesFit`). Not inductive alone: a handler in `loop` needs a
  group, and a registering client a connection, so `TypeInv` adds `HandlerInv`
  (which group and owner go with which pc) and `SubscriberInv`.
* `SessionsAreBacked`: `SessionBacked`. A session is created by a handler that
  is in `loop` or `failed` afterwards, and the step out of `loop` is the one
  that removes it; the proof needs that a `loop` handler's connection keeps its
  owner (`HandlerInv`).
* `RegistrationsAreBacked`: `RegistrationBacked`. The interesting case is a
  handler that leaves `loop` while it is the last to back a record: at that
  moment its drop_session has every name ahead of it (`scan = Services`). Each
  scan step keeps the client's own names by noting them, each removal clears
  the record, and the call returns only when both sets are empty (`Kept`).
* `GroupsAreIsolated`: `GroupIsolation`, from the fact that a handler past its
  Hello serves the group of its owner's token.

* `SessionsStayFresh`: `SessionNeverExpires`, if `Interval < Timeout`, which the
  comment on CLIENT_HEARTBEAT_INTERVAL (client/main.rs:28-31) asks for: a
  heartbeat may take a unit, and the sweeper wants an age above the timeout. The
  invariant is `LinkInv`. While a client is registered over a live connection,
  its session is no older than its heartbeat timer, or a heartbeat is on its way
  and the session is at most an interval and a unit old; no other exchange lets
  time pass. `FreeInv` keeps subscribers and peers off the connection that a
  client is about to open.

`RateLimitProofs` proves, from `RateAssumption`, `RateTypeCorrect` and
`CapIsKept`, the refinement `Spec => Ideal!Spec`: the level of the ideal bucket
is what a refill at this moment would make available. A refill leaves the level
as it is, a tick raises it by the rate up to the cap, an admission lowers it by
the chunk, and a change of the rate is the ideal bucket's SetRate.

`RelayProofs`, from `RelayAssumption` (rates are natural numbers or None, the
iteration order lists groups): `RelayTypeOK`, `RatesFollowTasks`,
`TunnelStartsAtOwnRate`, `RefusalsAreJustified`. `RelayInv` adds that a task past
accept_loop's check runs for the peer of its connection (`TaskInv`), which is why
the override found is the peer's own, and that stream ids in use differ and lie
below the counter (`IdInv`), without which one task's end could remove another
one's rate handle. The last is an action property; the first group
in iteration order that has a record exists by the least-number principle
(`LeastNat`).

`IdentityProofs`, from `IdentityAssumption` (the markers are no keys):
`IdentityTypeOK`, `RunningKeySurvives`, `KeyFileSurvives` and the action property
`IdentityKept`. The invariant needs, for every execution, that whoever loads found
a file (`ProcInv`), and while no two starts overlapped (`SoloInv`) that a start
generates a key only if there is no key file, and that what it renames is what it wrote.

`ConsumeProofs`, from `ConsumeAssumption` (backoffs are positive, as
clamp_backoff makes them): `ConsumeTypeOK` and `StaleIdsAreDropped`. `NewerInv`:
unless dials raced (`raced`), the id in the cache and whatever a dial is asking for
or about to store answer a question asked after every auth error, because an auth
error empties the cache for all dials and only an answer of the server fills it.

`TunnelProofs`, from `TunnelAssumption` (chains are not empty, a link holds at
least a byte): `TunnelTypeOK`, `BytesArriveInOrder`, `EofIsNotTruncation`, for
chains of any length. `FlowInv` cuts each direction at the links: there are
boundaries b[0] <= b[1] <= ... such that b[0] bytes were read and each link holds
exactly the bytes between two of them. Every step moves one boundary. `EofInv`
says that a copy at its end has drained a finished link. That an end of
file at the receiver then means that every link behind it is finished and empty
is an induction along the chain, by the least-number principle (`UpTo`).

`HandshakeProofs`, from `ConfigAssumption` and `HandshakeAssumption` (arrays of a
file are sequences; consumer rows pass the checks of validate, since a client
runs only from a file that validate accepted): `HandshakeTypeOK`,
`ServedIsAuthorised`, `AcceptedRowsTakeEffect`. In `HandshakeInv` a proof on a
link is computed from the consumer's own row and an AuthOk is there only if the
two rows share their secret (`Queues`), the handler reached has the row's name
(`Routed`), and at most one frame is under way, but for the opening of
the relay path (`Alternating`): that bounds the queues. The third follows the
tables row by row: a key that validate has found unique is not overwritten.

`StreamProofs` follows two parsers along a stream of bytes, of any length and in
any portions.

For StaticHttp, from `HttpAssumption` and `ScriptsAssumption`: `HttpTypeOK`,
`LoopStaysInStep`, `ClosesAsAsked`, `ResponsesAreFramed`. The second assumption
says what a request is (`IsRequest`): a line that is not empty, headers, and the
first empty line as its end. It has no body, because read_request refuses a
Content-Length above 0. The requests may be longer than the limits, ask for
anything and come without headers; what the code does with those is in the
properties (`Refused`, `Framed`). `Offset[n]` is where request n ends, and the
invariant places every byte by it: what was sent and not consumed is in the chunk
or behind it (`StreamInv`); no chunk ended inside a terminator (`ChunkInv`, while
`Framed`), so the terminator that find_header_terminator finds is the one of the
request being read and lies within the chunk; `LineInv`, `HeadersInv` and
`AskedInv` say how much of that request was read in each phase. `ReachInv`
holds however chunks are cut: a response takes a terminator and there is one per
request, so there are never more responses than requests, which `TypeOK` needs.

For Frames, from `FramesAssumption` (a byte has at least the values of the tags,
the payload limit fits the length field, as MAX_FRAME_PAYLOAD fits a u16) and
`OutputsAssumption` (a writer writes values of the enum, at least one):
`FramesRoundTrip` and `ErrorsMeanCuts`. `CodecBack` is the codec alone: for every
value of the enum, decode of its tag and its encoded payload is that value, so
neither an error nor a panic. `Written[i]` is what the first i write calls put on
the stream. The invariant (`PlaceInv`) is that what the reader has read
completely, what its read_exact holds, what is on the stream and what was lost
make up `Written[writer]`, in this order, and that nothing was lost unless the
stream was cut. When read_exact returns, its bytes and the next write begin at
the same place and have the same length, so they are equal (`PartComplete`); a
read that ends early on a stream that was not cut would have all of
`Written[Calls]` before it, which is longer (`PartMissing`). A header that was
read was written, so its frame has passed write_to's limit (`WriterInv`), which
is why read_from's own limit never refuses it.

Only model-checked: everything under fairness (recovery, convergence, progress,
half-close, settling, `EveryRequestAnswered`), because liveness and ENABLED are
beyond this prover; and `RegistrationKept`, which holds only where a client has
one connection at a time. Every other invariant and safety property of the passing
runs is proved.

## 5. Abstractions and what is not modelled

* One request and one answer are in flight per connection. Clients wait for
  each answer, and heartbeats are an interval apart. Every exchange but a
  heartbeat is short against the unit of time and takes none of it.
* `dump_services` and the sweeper's collection are snapshots; the iteration of
  drop_session is not. The order of iteration is arbitrary.
* Token arithmetic is exact; the code uses f64. A sleep takes whole ticks.
* A connection that a task drops is lost to its peer at once. Whether finished
  data still arrives when iroh closes a connection is not modelled; the tunnel
  assumes a graceful end. The hazard is listed.
* A proof is the triple of secret, name and nonce it is computed from, and a
  nonce is fresh for each connection: the MAC is perfect.
* In Handshake the registry is any: the relay refuses or dials (Relay says
  which), and the provider dialled is the one modelled.
* The text of the JSON frames is opaque to Frames.
* A request path is the kind it resolves to: joining and canonicalising it
  happen in the file system. What it names at the two later lookups is arbitrary.
  MIME types and the HTML of a listing carry no control.
* File system durability across power loss, file permissions.
* TOML parsing and defaults, the decoding of ids, the command line, logging and
  the control responder of a client, to which nothing connects: see `components` in `PROJECT.json`.

## 6. Plan

Done: all the modules of section 2 and the proofs of their safety properties.

Next: a composition of Consume with ControlPlane's registry, in place of the
abstract world of Consume; and decode on payloads that write_to does not produce,
where the model has `Panic`.
