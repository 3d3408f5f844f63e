---------------------------- MODULE ControlPlane ----------------------------
(***************************************************************************)
(* The control plane: clients that keep a control connection to the        *)
(* server (client/src/main.rs, expose.rs), their short subscribe           *)
(* connections (consume.rs), the server's handler of each connection       *)
(* (server/src/control.rs), its heartbeat sweeper (server/src/main.rs) and *)
(* the registry all of them share.                                         *)
(*                                                                         *)
(* A connection is "up", then "lost" (cut or closed, but an end may not    *)
(* know yet: a write may still succeed and be discarded) and then "dead"   *)
(* (the idle timeout has passed, every operation fails).  One request and  *)
(* one answer are in flight per connection: a client waits for each answer *)
(* and heartbeats are a whole interval apart.  A time unit is the idle     *)
(* timeout of a connection, which is longer than any exchange on a live    *)
(* one.                                                                    *)
(***************************************************************************)
EXTENDS Registry, Sequences

CONSTANTS
    Conns,          \* control connections that can exist at a time
    Sweeper,        \* the heartbeat-timeout task of the server
    Expose,         \* Expose[c]: names of c's [[expose]] then [[static]] rows
    Consume,        \* Consume[c]: names of c's [[consume]] rows
    ClientToken,    \* ClientToken[c]: group_token of c's configuration
    RawClients,     \* peers that speak the protocol in any order
    Interval,       \* CLIENT_HEARTBEAT_INTERVAL, in time units
    FaultKinds,     \* the faults of the environment in this instance
    MaxFaults       \* how many of them may happen

ASSUME ControlAssumption ==
    /\ Actors = Conns \cup {Sweeper}
    /\ Sweeper \notin Conns
    /\ None \notin Conns
    /\ Expose \in [Clients -> Seq(Services)]
    /\ Consume \in [Clients -> SUBSET Services]
    /\ ClientToken \in [Clients -> Tokens]
    /\ RawClients \subseteq Clients
    /\ Interval \in Nat \ {0}
    /\ FaultKinds \subseteq {"refuse", "lose", "stop", "restart"}
    /\ MaxFaults \in Nat

VARIABLES
    conn,           \* the transport: one record per connection
    handler,        \* run_session of each connection: its pc and its group
    sweep,          \* the sweeper: its pc, timer and locals
    client,         \* the registration loop of each client
    sub,            \* the other user of a connection: subscribe() or a raw peer
    faults          \* faults that have happened

vars == <<sessions, services, drop, conn, handler, sweep, client, sub, faults>>

Frames == [type : {"none", "Hello", "Register", "Subscribe", "Heartbeat", "other"},
           service : Services \cup {None}]
Answers == [type : {"none", "HelloOk", "RegisterOk", "SubscribeOk", "ControlError"},
            provider : Clients \cup {None}]

Frame(type) == [type |-> type, service |-> None]
ServiceFrame(type, s) == [type |-> type, service |-> s]
Answer(type) == [type |-> type, provider |-> None]
NoFrame == Frame("none")
NoAnswer == Answer("none")

(* The registration loop at pc, on connection k, with service i to register. *)
AtPc(pc, k, i) == [pc |-> pc, conn |-> k, next |-> i, timer |-> 0]

FreeConn == [status |-> "free", owner |-> None, request |-> NoFrame, reply |-> NoAnswer]

ConnType == [status : {"free", "up", "lost", "dead"},
             owner : Clients \cup {None},
             request : Frames,
             reply : Answers]
HandlerType == [pc : {"none", "hello", "loop", "drop", "done", "failed"},
                group : Groups \cup {None}]
SweepType == [pc : {"sleep", "walk"},
              timer : 0 .. Timeout,
              entries : SUBSET (Groups \X Services),
              group : Groups \cup {None},
              dead : SUBSET Clients]
ClientType == [pc : {"connect", "hello", "register", "registered", "backoff", "stopped"},
               conn : Conns \cup {None},
               next : Nat \ {0},
               timer : 0 .. Interval]

(* Every variable has its type. *)
VariablesTyped ==
    /\ RegistryTypeOK
    /\ conn \in [Conns -> ConnType]
    /\ handler \in [Conns -> HandlerType]
    /\ sweep \in SweepType
    /\ client \in [Clients -> ClientType]
    /\ sub \in [Conns -> {"none", "hello", "subscribe", "raw"}]
    /\ faults \in 0 .. MaxFaults

(* No record has a name that register_service refuses, whoever sends it: a  *)
(* name is 32 bytes at most wherever the directory is read.                 *)
NamesFit == \A g \in Groups, s \in LongNames : services[g][s] = None

(* Every variable has its type, the directory's names included             *)
(* (registry.rs:222-237).                                                   *)
TypeOK == VariablesTyped /\ NamesFit

Init ==
    /\ RegistryInit
    /\ conn = [k \in Conns |-> FreeConn]
    /\ handler = [k \in Conns |-> [pc |-> "none", group |-> None]]
    /\ sweep = [pc |-> "sleep", timer |-> 0, entries |-> {}, group |-> None, dead |-> {}]
    /\ client = [c \in Clients |-> AtPc(IF c \in RawClients THEN "stopped" ELSE "connect",
                                        None, 1)]
    /\ sub = [k \in Conns |-> "none"]
    /\ faults = 0

Owner(k) == conn[k].owner
Cut(k) == conn[k].status \in {"lost", "dead"}

(* A fault of the environment, within the instance's budget. *)
Fault(kind) ==
    /\ kind \in FaultKinds
    /\ faults < MaxFaults
    /\ faults' = faults + 1

-----------------------------------------------------------------------------
(***************************************************************************)
(* The transport.                                                          *)
(***************************************************************************)

(* endpoint.connect, then open_bi and the first frame on the new connection. *)
Connected(k, c, frame) ==
    /\ conn[k].status = "free"
    /\ conn' = [conn EXCEPT ![k] = [status |-> "up", owner |-> c,
                                    request |-> frame, reply |-> NoAnswer]]
    /\ handler' = [handler EXCEPT ![k] = [pc |-> "hello", group |-> None]]

(* The client takes the answer and writes its next frame, which does not    *)
(* arrive if the connection was cut before.                                 *)
Exchanged(k, frame) ==
    conn' = [conn EXCEPT ![k].request = IF conn[k].status = "up" THEN frame ELSE @,
                         ![k].reply = NoAnswer]

(* The client's end drops the connection, which closes it. *)
Closed(k) ==
    conn' = [conn EXCEPT ![k].status = IF @ = "up" THEN "lost" ELSE @,
                         ![k].reply = NoAnswer]

(* The path between the two ends of a connection fails. *)
Lose(k) ==
    /\ conn[k].status = "up"
    /\ Fault("lose")
    /\ conn' = [conn EXCEPT ![k].status = "lost"]
    /\ UNCHANGED <<registryVars, handler, sweep, client, sub>>

(* Both ends are done with a connection: its id may stand for a new one. *)
Recycle(k) ==
    /\ Cut(k)
    /\ handler[k].pc = "done"
    /\ sub[k] = "none"
    /\ \A c \in Clients : client[c].conn # k
    /\ conn' = [conn EXCEPT ![k] = FreeConn]
    /\ handler' = [handler EXCEPT ![k] = [pc |-> "none", group |-> None]]
    /\ UNCHANGED <<registryVars, sweep, client, sub, faults>>

-----------------------------------------------------------------------------
(***************************************************************************)
(* The server's run_session on connection k.                               *)
(***************************************************************************)
ToFailed(k, g) == handler' = [handler EXCEPT ![k] = [pc |-> "failed", group |-> g]]
ToLoop(k, g) == handler' = [handler EXCEPT ![k] = [pc |-> "loop", group |-> g]]

(* An answer written with `?`: delivered, discarded on the way, or an error *)
(* that ends run_session at once, past its drop_session.                    *)
Write(k, answer, g) ==
    /\ conn' = [conn EXCEPT ![k].request = NoFrame,
                            ![k].reply = IF conn[k].status = "up" THEN answer ELSE @]
    /\ \/ ToLoop(k, g)
       \/ Cut(k) /\ ToFailed(k, g)

(* An answer whose write error is ignored. *)
WriteIgnored(k, answer) ==
    conn' = [conn EXCEPT ![k].request = NoFrame,
                         ![k].reply = IF conn[k].status = "up" THEN answer ELSE @]

(* A frame arrived on k while run_session is at pc. *)
Received(k, pc, type) ==
    /\ handler[k].pc = pc
    /\ conn[k].request.type = type

HelloAccepted(k) ==
    /\ Received(k, "hello", "Hello")
    /\ Authenticates(ClientToken[Owner(k)])
    /\ LET g == Authenticate(ClientToken[Owner(k)]) IN
         /\ sessions' = TouchSession(g, Owner(k))
         /\ Write(k, Answer("HelloOk"), g)
    /\ UNCHANGED <<services, drop, sweep, client, sub, faults>>

(* run_session returns, and with it the server's end of the connection. *)
HelloRejected(k) ==
    /\ handler[k].pc = "hello"
    /\ \/ /\ conn[k].request.type = "Hello"
          /\ ~Authenticates(ClientToken[Owner(k)])
          /\ conn' = [conn EXCEPT ![k].request = NoFrame,
                                  ![k].status = "lost",
                                  ![k].reply = IF conn[k].status = "up"
                                               THEN Answer("ControlError") ELSE @]
       \/ /\ conn[k].request.type \notin {"none", "Hello"}
          /\ conn' = [conn EXCEPT ![k].request = NoFrame, ![k].status = "lost"]
    /\ handler' = [handler EXCEPT ![k].pc = "done"]
    /\ UNCHANGED <<registryVars, sweep, client, sub, faults>>

(* The first accept_bi or read fails: there is no session to drop yet. *)
HelloLost(k) ==
    /\ handler[k].pc = "hello"
    /\ Cut(k)
    /\ handler' = [handler EXCEPT ![k].pc = "done"]
    /\ conn' = [conn EXCEPT ![k].request = NoFrame]
    /\ UNCHANGED <<registryVars, sweep, client, sub, faults>>

HandleRegister(k) ==
    LET s == conn[k].request.service
        g == handler[k].group
    IN  /\ Received(k, "loop", "Register")
        /\ \/ /\ NameFits(s)
              /\ services' = RegisterService(g, s, Owner(k))
              /\ Write(k, Answer("RegisterOk"), g)
           \/ /\ ~NameFits(s)
              /\ WriteIgnored(k, Answer("ControlError"))
              /\ UNCHANGED <<services, handler>>
        /\ UNCHANGED <<sessions, drop, sweep, client, sub, faults>>

HandleSubscribe(k) ==
    LET g == handler[k].group IN
    /\ Received(k, "loop", "Subscribe")
    /\ Write(k, [type |-> "SubscribeOk",
                 provider |-> LookupService(g, conn[k].request.service)], g)
    /\ UNCHANGED <<registryVars, sweep, client, sub, faults>>

HeartbeatIgnored(k) ==   \* mutant: touch_session missing
    /\ Received(k, "loop", "Heartbeat")
    /\ conn' = [conn EXCEPT ![k].request = NoFrame]
    /\ UNCHANGED <<registryVars, handler, sweep, client, sub, faults>>

HandleHeartbeat(k) ==
    /\ Received(k, "loop", "Heartbeat")
    /\ sessions' = TouchSession(handler[k].group, Owner(k))
    /\ conn' = [conn EXCEPT ![k].request = NoFrame]
    /\ UNCHANGED <<services, drop, handler, sweep, client, sub, faults>>

HandleStray(k) ==
    /\ \/ Received(k, "loop", "Hello") /\ WriteIgnored(k, Answer("ControlError"))
       \/ Received(k, "loop", "other") /\ conn' = [conn EXCEPT ![k].request = NoFrame]
    /\ UNCHANGED <<registryVars, handler, sweep, client, sub, faults>>

(* accept_bi or read_from fails, the loop ends, drop_session starts. *)
LoopEnds(k) ==
    /\ handler[k].pc = "loop"
    /\ Cut(k)
    /\ BeginDrop(k, handler[k].group, Owner(k))
    /\ handler' = [handler EXCEPT ![k].pc = "drop"]
    /\ conn' = [conn EXCEPT ![k].request = NoFrame]
    /\ UNCHANGED <<services, sweep, client, sub, faults>>

SessionClosed(k) ==
    /\ handler[k].pc = "drop"
    /\ EndDrop(k)
    /\ handler' = [handler EXCEPT ![k].pc = "done"]
    /\ UNCHANGED <<conn, sweep, client, sub, faults>>

(* The steps of a running drop_session, of a handler or of the sweeper. *)
DropStep(a) ==
    /\ DropScan(a) \/ DropRemove(a)
    /\ UNCHANGED <<conn, handler, sweep, client, sub, faults>>

Handler(k) ==
    \/ HelloAccepted(k) \/ HelloRejected(k) \/ HelloLost(k)
    \/ HandleRegister(k) \/ HandleSubscribe(k) \/ HandleHeartbeat(k) \/ HandleStray(k)
    \/ LoopEnds(k) \/ DropStep(k) \/ SessionClosed(k)

-----------------------------------------------------------------------------
(***************************************************************************)
(* The sweeper: sleep for the timeout, then for every record dumped visit  *)
(* its group, collect the expired sessions and drop them one by one.       *)
(***************************************************************************)
SweepStart ==
    /\ sweep.pc = "sleep"
    /\ sweep.timer = Timeout
    /\ sweep' = [sweep EXCEPT !.pc = "walk", !.timer = 0, !.entries = DumpServices]
    /\ UNCHANGED <<registryVars, conn, handler, client, sub, faults>>

SweepFindsNone ==   \* mutant: the age is compared the wrong way round
    /\ sweep.pc = "walk"
    /\ sweep.dead = {}
    /\ ~Dropping(Sweeper)
    /\ \E gs \in sweep.entries :
         sweep' = [sweep EXCEPT !.entries = @ \ {gs},
                                !.group = gs[1],
                                !.dead = {c \in Clients : sessions[gs[1]][c] > Expired}]
    /\ UNCHANGED <<registryVars, conn, handler, client, sub, faults>>

SweepGroup ==
    /\ sweep.pc = "walk"
    /\ sweep.dead = {}
    /\ ~Dropping(Sweeper)
    /\ \E gs \in sweep.entries :
         sweep' = [sweep EXCEPT !.entries = @ \ {gs},
                                !.group = gs[1],
                                !.dead = {c \in Clients : sessions[gs[1]][c] > Timeout}]
    /\ UNCHANGED <<registryVars, conn, handler, client, sub, faults>>

SweepDrop ==
    /\ sweep.pc = "walk"
    /\ \E c \in sweep.dead :
         /\ BeginDrop(Sweeper, sweep.group, c)
         /\ sweep' = [sweep EXCEPT !.dead = @ \ {c}]
    /\ UNCHANGED <<services, conn, handler, client, sub, faults>>

SweepDropped ==
    /\ EndDrop(Sweeper)
    /\ UNCHANGED <<conn, handler, sweep, client, sub, faults>>

SweepEnd ==
    /\ sweep.pc = "walk"
    /\ sweep.entries = {} /\ sweep.dead = {}
    /\ ~Dropping(Sweeper)
    /\ sweep' = [sweep EXCEPT !.pc = "sleep", !.group = None]
    /\ UNCHANGED <<registryVars, conn, handler, client, sub, faults>>

Sweep ==
    SweepStart \/ SweepGroup \/ SweepDrop \/ DropStep(Sweeper) \/ SweepDropped \/ SweepEnd

-----------------------------------------------------------------------------
(***************************************************************************)
(* The registration loop of client c.                                      *)
(***************************************************************************)
Backoff(c) == client' = [client EXCEPT ![c] = AtPc("backoff", None, 1)]

Connect(c) ==
    /\ client[c].pc = "connect"
    /\ \E k \in Conns :
         /\ Connected(k, c, Frame("Hello"))
         /\ client' = [client EXCEPT ![c] = AtPc("hello", k, 1)]
    /\ UNCHANGED <<registryVars, sweep, sub, faults>>

ConnectRefused(c) ==
    /\ client[c].pc = "connect"
    /\ Fault("refuse")
    /\ Backoff(c)
    /\ UNCHANGED <<registryVars, conn, handler, sweep, sub>>

(* The loop over the services: the next Register, or the loop's end. *)
RegisterSkipsLast(c) ==   \* mutant: the loop stops one service early
    LET k == client[c].conn
        i == client[c].next
    IN  \/ /\ i < Len(Expose[c])
           /\ Exchanged(k, ServiceFrame("Register", Expose[c][i]))
           /\ client' = [client EXCEPT ![c] = AtPc("register", k, i + 1)]
        \/ /\ i >= Len(Expose[c])
           /\ Exchanged(k, NoFrame)
           /\ client' = [client EXCEPT ![c] = AtPc("registered", k, 1)]

RegisterNext(c) ==
    LET k == client[c].conn
        i == client[c].next
    IN  \/ /\ i <= Len(Expose[c])
           /\ Exchanged(k, ServiceFrame("Register", Expose[c][i]))
           /\ client' = [client EXCEPT ![c] = AtPc("register", k, i + 1)]
        \/ /\ i > Len(Expose[c])
           /\ Exchanged(k, NoFrame)
           /\ client' = [client EXCEPT ![c] = AtPc("registered", k, 1)]

ReplyOk(c) ==
    /\ \/ client[c].pc = "hello" /\ conn[client[c].conn].reply.type = "HelloOk"
       \/ client[c].pc = "register" /\ conn[client[c].conn].reply.type = "RegisterOk"
    /\ RegisterNext(c)
    /\ UNCHANGED <<registryVars, handler, sweep, sub, faults>>

(* register_with_server fails: a ControlError, or an end of the connection. *)
RegisterFails(c) ==
    /\ client[c].pc \in {"hello", "register"}
    /\ \/ conn[client[c].conn].reply.type = "ControlError"
       \/ Cut(client[c].conn)
    /\ Closed(client[c].conn)
    /\ Backoff(c)
    /\ UNCHANGED <<registryVars, handler, sweep, sub, faults>>

Retry(c) ==
    /\ client[c].pc = "backoff"
    /\ client' = [client EXCEPT ![c] = AtPc("connect", None, 1)]
    /\ UNCHANGED <<registryVars, conn, handler, sweep, sub, faults>>

HeartbeatNeverBreaks(c) ==   \* mutant: a failed heartbeat does not end the loop
    LET k == client[c].conn IN
    /\ client[c].pc = "registered"
    /\ client[c].timer = Interval
    /\ conn[k].request = NoFrame
    /\ conn' = [conn EXCEPT ![k].request = IF conn[k].status = "up"
                                           THEN Frame("Heartbeat") ELSE @]
    /\ client' = [client EXCEPT ![c].timer = 0]
    /\ UNCHANGED <<registryVars, handler, sweep, sub, faults>>

(* The heartbeat timer fires: the write succeeds (on a connection that was  *)
(* cut it may, and is lost), or fails and the outer loop starts over.       *)
Heartbeat(c) ==
    LET k == client[c].conn IN
    /\ client[c].pc = "registered"
    /\ client[c].timer = Interval
    /\ \/ /\ conn[k].status \in {"up", "lost"}
          /\ conn[k].request = NoFrame
          /\ conn' = [conn EXCEPT ![k].request = IF conn[k].status = "up"
                                                 THEN Frame("Heartbeat") ELSE @]
          /\ client' = [client EXCEPT ![c].timer = 0]
       \/ /\ Cut(k)
          /\ Closed(k)
          /\ client' = [client EXCEPT ![c] = AtPc("connect", None, 1)]
    /\ UNCHANGED <<registryVars, handler, sweep, sub, faults>>

(* The client process ends; the connections it had are cut. *)
Stop(c) ==
    /\ client[c].pc # "stopped"
    /\ Fault("stop")
    /\ client' = [client EXCEPT ![c] = AtPc("stopped", None, 1)]
    /\ conn' = [k \in Conns |-> IF Owner(k) # c THEN conn[k]
                                ELSE [conn[k] EXCEPT !.status = IF @ = "up" THEN "lost" ELSE @,
                                                     !.reply = NoAnswer]]
    /\ sub' = [k \in Conns |-> IF Owner(k) = c THEN "none" ELSE sub[k]]
    /\ UNCHANGED <<registryVars, handler, sweep>>

(* It is started again, with the identity it persisted. *)
Start(c) ==
    /\ client[c].pc = "stopped"
    /\ c \notin RawClients
    /\ client' = [client EXCEPT ![c] = AtPc("connect", None, 1)]
    /\ UNCHANGED <<registryVars, conn, handler, sweep, sub, faults>>

Client(c) ==
    Connect(c) \/ ReplyOk(c) \/ RegisterFails(c) \/ Retry(c) \/ Heartbeat(c)

-----------------------------------------------------------------------------
(***************************************************************************)
(* subscribe(): a control connection of its own, dropped on return.        *)
(***************************************************************************)
SubscribeConnect(c) ==
    /\ client[c].pc # "stopped"
    /\ Consume[c] # {}
    /\ \E k \in Conns :
         /\ Connected(k, c, Frame("Hello"))
         /\ sub' = [sub EXCEPT ![k] = "hello"]
    /\ UNCHANGED <<registryVars, sweep, client, faults>>

SubscribeHelloOk(k) ==
    /\ sub[k] = "hello"
    /\ conn[k].reply.type = "HelloOk"
    /\ \E s \in Consume[Owner(k)] : Exchanged(k, ServiceFrame("Subscribe", s))
    /\ sub' = [sub EXCEPT ![k] = "subscribe"]
    /\ UNCHANGED <<registryVars, handler, sweep, client, faults>>

(* SubscribeOk with or without a provider, ControlError or a lost connection *)
(* all end the call, and the connection goes with it.                        *)
SubscribeReturns(k) ==
    /\ \/ sub[k] = "subscribe" /\ conn[k].reply.type = "SubscribeOk"
       \/ sub[k] = "hello" /\ conn[k].reply.type = "ControlError"
       \/ sub[k] \in {"hello", "subscribe"} /\ Cut(k)
    /\ Closed(k)
    /\ sub' = [sub EXCEPT ![k] = "none"]
    /\ UNCHANGED <<registryVars, handler, sweep, client, faults>>

Subscriber(k) == SubscribeHelloOk(k) \/ SubscribeReturns(k)

(***************************************************************************)
(* A peer that is not this repository's client: any frame at any time.     *)
(***************************************************************************)
RawSend(k) ==
    /\ \E frame \in {f \in Frames : \/ f.type \in {"Hello", "Heartbeat", "other"} /\ f.service = None
                                    \/ f.type \in {"Register", "Subscribe"} /\ f.service # None} :
         \/ /\ \E c \in RawClients : Connected(k, c, frame)
            /\ sub' = [sub EXCEPT ![k] = "raw"]
         \/ /\ sub[k] = "raw"
            /\ conn[k].status = "up"
            /\ conn[k].request = NoFrame
            /\ Exchanged(k, frame)
            /\ UNCHANGED <<handler, sub>>
    /\ UNCHANGED <<registryVars, sweep, client, faults>>

RawClose(k) ==
    /\ sub[k] = "raw"
    /\ Closed(k)
    /\ sub' = [sub EXCEPT ![k] = "none"]
    /\ UNCHANGED <<registryVars, handler, sweep, client, faults>>

-----------------------------------------------------------------------------
(***************************************************************************)
(* A time unit passes: only when no exchange is under way on a live        *)
(* connection, no heartbeat is due and the server is between two steps of  *)
(* its handlers, which have noticed the connections the idle timeout ended *)
(* a unit ago.  A heartbeat takes time: one unit may pass while it is on   *)
(* its way, so it arrives up to a unit after its interval.                 *)
(***************************************************************************)
HeartbeatUnderWay(k) ==
    /\ conn[k].request.type = "Heartbeat"
    /\ \E c \in Clients :
         client[c].pc = "registered" /\ client[c].conn = k /\ client[c].timer = 0

Quiet ==
    /\ sweep.pc = "sleep"
    /\ \A a \in Actors : ~Dropping(a)
    /\ \A k \in Conns : conn[k].status = "dead" => handler[k].pc \notin {"hello", "loop"}
    /\ \A k \in Conns : conn[k].status = "up" =>
         /\ conn[k].request = NoFrame \/ HeartbeatUnderWay(k)
         /\ sub[k] = "raw" \/ conn[k].reply = NoAnswer
    /\ \A c \in Clients :
         client[c].pc = "registered" => client[c].timer < Interval

Tick ==
    /\ Quiet
    /\ AgeSessions
    /\ conn' = [k \in Conns |->
                  IF Cut(k) THEN [conn[k] EXCEPT !.status = "dead",
                                                 !.request = NoFrame, !.reply = NoAnswer]
                  ELSE conn[k]]
    /\ sweep' = [sweep EXCEPT !.timer = IF @ < Timeout THEN @ + 1 ELSE @]
    /\ client' = [c \in Clients |->
                    IF client[c].pc = "registered"
                    THEN [client[c] EXCEPT !.timer = @ + 1] ELSE client[c]]
    /\ UNCHANGED <<services, drop, handler, sub, faults>>

(* The server process restarts with the registry and the handlers gone. *)
Restart ==
    /\ Fault("restart")
    /\ RegistryReset
    /\ conn' = [k \in Conns |-> IF conn[k].status = "up"
                                THEN [conn[k] EXCEPT !.status = "lost",
                                                     !.request = NoFrame, !.reply = NoAnswer]
                                ELSE [conn[k] EXCEPT !.request = NoFrame]]
    /\ handler' = [k \in Conns |-> IF handler[k].pc = "none" THEN handler[k]
                                   ELSE [pc |-> "done", group |-> None]]
    /\ sweep' = [pc |-> "sleep", timer |-> 0, entries |-> {}, group |-> None, dead |-> {}]
    /\ UNCHANGED <<client, sub>>

Next ==
    \/ \E k \in Conns : Handler(k)
    \/ Sweep
    \/ \E c \in Clients : Client(c) \/ ConnectRefused(c) \/ Stop(c) \/ Start(c)
    \/ \E c \in Clients : SubscribeConnect(c)
    \/ \E k \in Conns : Subscriber(k) \/ RawSend(k) \/ RawClose(k)
    \/ \E k \in Conns : Lose(k) \/ Recycle(k)
    \/ Tick
    \/ Restart

Spec == Init /\ [][Next]_vars

(***************************************************************************)
(* Handlers, the sweeper, client tasks and subscribe calls are runtime     *)
(* tasks that keep running; time keeps passing (strong fairness, since an  *)
(* exchange makes Tick wait); a client that was stopped, a peer that sends *)
(* what it likes and the environment's faults are under no obligation.     *)
(***************************************************************************)
Fairness ==
    /\ \A k \in Conns : WF_vars(Handler(k)) /\ WF_vars(Subscriber(k)) /\ WF_vars(Recycle(k))
    /\ WF_vars(Sweep)
    /\ \A c \in Clients : WF_vars(Client(c))
    /\ SF_vars(Tick)

FairSpec == Spec /\ Fairness
-----------------------------------------------------------------------------
(***************************************************************************)
(* Properties.                                                             *)
(***************************************************************************)
MemberOf(c, g) == GroupToken[g] = ClientToken[c]

(* k's handler serves client c in group g. *)
Serves(k, c, g, pcs) ==
    handler[k].pc \in pcs /\ handler[k].group = g /\ Owner(k) = c

(* Actor a is inside drop_session(c) of group g and has not passed s yet. *)
WillDrop(a, c, g, s) ==
    /\ drop[a].client = c
    /\ drop[a].group = g
    /\ s \in drop[a].scan \cup drop[a].to_remove

(* Group isolation: sessions, records and the providers named in SubscribeOk *)
(* belong to clients that presented that group's token (authenticate,        *)
(* handle_register, handle_subscribe), whatever frames the peers send.       *)
GroupIsolation ==
    /\ \A g \in Groups, c \in Clients : sessions[g][c] # Absent => MemberOf(c, g)
    /\ \A g \in Groups, s \in Services :
          services[g][s] # None => MemberOf(services[g][s], g)
    /\ \A k \in Conns : conn[k].reply.provider # None =>
          ClientToken[conn[k].reply.provider] = ClientToken[Owner(k)]

(* A session exists only while some control connection of the client is     *)
(* served, or was abandoned by a run_session that returned at a `?`.        *)
SessionBacked ==
    \A g \in Groups, c \in Clients : sessions[g][c] # Absent =>
        \E k \in Conns : Serves(k, c, g, {"loop", "failed"})

(* A service record outlives the control connections of its provider only  *)
(* while a drop_session that will still reach it is running, or because a  *)
(* run_session returned at a `?` without calling drop_session.             *)
RegistrationBacked ==
    \A g \in Groups, s \in Services : services[g][s] # None =>
        \/ \E k \in Conns : Serves(k, services[g][s], g, {"loop", "failed"})
        \/ \E a \in Actors : WillDrop(a, services[g][s], g, s)

(* "so the session never times out" (client/src/main.rs:29): while a client *)
(* is registered over a live connection its session is never expired.       *)
SessionNeverExpires ==
    \A c \in Clients :
        (client[c].pc = "registered" /\ conn[client[c].conn].status = "up")
            => sessions[Authenticate(ClientToken[c])][c] <= Timeout

(* While a client shows Registered and its connection is up, each of its    *)
(* services is in the directory, under it or under a provider that replaced *)
(* it (register_with_server, drop_session, the sweeper).                    *)
RegistrationKept ==
    \A c \in Clients :
        (client[c].pc = "registered" /\ conn[client[c].conn].status = "up")
            => \A i \in 1 .. Len(Expose[c]) :
                 services[Authenticate(ClientToken[c])][Expose[c][i]] # None

(* "Drop sessions whose last heartbeat is older than `timeout`"             *)
(* (server/src/main.rs:163): a session does not stay expired, as long as    *)
(* its group has a record, since the sweep visits the groups of the records.*)
ExpiredIsSwept ==
    \A g \in Groups, c \in Clients :
        (sessions[g][c] = Expired /\ [](\E s \in Services : services[g][s] # None))
            ~> sessions[g][c] # Expired

(* The registration loop recovers: a client with a known token that keeps   *)
(* running is eventually registered over a live connection, whatever was    *)
(* lost before (client/src/main.rs:253-326).                                *)
EventuallyRegistered ==
    \A c \in {m \in Clients : Authenticates(ClientToken[m])} :
      client[c].pc # "stopped" ~>
        \/ client[c].pc = "registered" /\ conn[client[c].conn].status = "up"
        \/ client[c].pc = "stopped"

(* Once a client has gone for good the registry forgets its services, by a *)
(* drop_session of its handler or of the sweeper.  The exception is a       *)
(* Register that was handled after another connection of the client had     *)
(* dropped the session and whose answer failed: run_session returned at the *)
(* `?`, and the sweeper goes by sessions.                                   *)
GoneIsForgotten ==
    \A g \in Groups, s \in Services, c \in Clients :
        [](client[c].pc = "stopped") ~>
            \/ services[g][s] # c
            \/ /\ sessions[g][c] = Absent
               /\ \E k \in Conns : Serves(k, c, g, {"failed"})
=============================================================================
