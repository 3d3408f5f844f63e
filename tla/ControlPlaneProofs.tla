------------------------- MODULE ControlPlaneProofs -------------------------
(***************************************************************************)
(* Proofs about the control plane, for every set of clients, groups,       *)
(* services and connections and every configuration of them.               *)
(***************************************************************************)
EXTENDS ControlPlane, TLAPS

(***************************************************************************)
(* What the code relies on between two frames of a connection: a handler   *)
(* past its Hello knows a group of which the peer is a member, requests    *)
(* that name a service name a real one, an answer names a provider with    *)
(* the peer's token, and an unused connection has no handler.              *)
(***************************************************************************)
HandlerInv ==
    \A k \in Conns :
        /\ handler[k].pc # "none" => Owner(k) \in Clients
        /\ handler[k].pc \in {"loop", "drop", "failed"} =>
             handler[k].group \in Groups /\ MemberOf(Owner(k), handler[k].group)
        /\ conn[k].request.type \in {"Register", "Subscribe"} =>
             conn[k].request.service \in Services
        /\ conn[k].status = "free" => handler[k].pc = "none"

TypeInv == VariablesTyped /\ HandlerInv

LEMMA FramesTyped ==
    /\ NoFrame \in Frames /\ Frame("Hello") \in Frames /\ Frame("Heartbeat") \in Frames
    /\ \A s \in Services : ServiceFrame("Register", s) \in Frames
                           /\ ServiceFrame("Subscribe", s) \in Frames
    /\ NoAnswer \in Answers /\ Answer("HelloOk") \in Answers
    /\ Answer("RegisterOk") \in Answers /\ Answer("ControlError") \in Answers
  BY DEF NoFrame, Frame, ServiceFrame, Frames, NoAnswer, Answer, Answers

LEMMA AuthenticateMember ==
    ASSUME NEW t, Authenticates(t)
    PROVE  Authenticate(t) \in Groups /\ GroupToken[Authenticate(t)] = t
  BY DEF Authenticates, Authenticate

LEMMA TypeInit == Init => TypeInv
  <1> SUFFICES ASSUME Init PROVE TypeInv
    OBVIOUS
  <1>1. RegistryTypeOK
    BY RegistryAssumption DEF Init, RegistryInit, RegistryTypeOK, DropType, Idle, Absent, Ages
  <1>2. VariablesTyped
    BY <1>1, FramesTyped, RegistryAssumption, ControlAssumption DEF Init, VariablesTyped, FreeConn, AtPc, ConnType,
                                                            HandlerType, SweepType, ClientType
  <1>3. HandlerInv
    BY DEF Init, HandlerInv, FreeConn, NoFrame, Frame
  <1> QED
    BY <1>2, <1>3 DEF TypeInv

(* The registry's part of the type invariant, for the effects that change it. *)
LEMMA TouchTyped ==
    ASSUME RegistryTypeOK, NEW g, NEW c
    PROVE  TouchSession(g, c) \in [Groups -> [Clients -> Ages \cup {Absent}]]
  <1>1. 0 \in Ages \cup {Absent}
    BY RegistryAssumption DEF Ages, Expired
  <1> QED
    BY <1>1 DEF RegistryTypeOK, TouchSession

LEMMA BeginDropTyped ==
    ASSUME RegistryTypeOK, NEW a \in Actors, NEW g \in Groups \cup {None},
           NEW c \in Clients \cup {None}, BeginDrop(a, g, c), UNCHANGED services
    PROVE  RegistryTypeOK'
  BY DEF RegistryTypeOK, DropType, BeginDrop, Absent

LEMMA DropStepTyped ==
    ASSUME RegistryTypeOK, NEW a \in Actors, DropScan(a) \/ DropRemove(a) \/ EndDrop(a)
    PROVE  RegistryTypeOK'
  <1>0. drop \in [Actors -> DropType]
    BY DEF RegistryTypeOK
  <1>1. CASE DropScan(a)
    <2>1. PICK s \in drop[a].scan :
            drop' = [drop EXCEPT
                    ![a].scan = @ \ {s},
                    ![a].to_remove =
                        IF services[drop[a].group][s] = drop[a].client
                        THEN @ \cup {s} ELSE @]
      BY <1>1 DEF DropScan
    <2>2. s \in Services
      BY <1>0, <2>1 DEF DropType
    <2>3. drop' \in [Actors -> DropType]
      BY <1>0, <2>1, <2>2 DEF DropType
    <2> QED
      BY <1>1, <2>3 DEF RegistryTypeOK, DropScan
  <1>2. CASE DropRemove(a)
    <2>1. PICK s \in drop[a].to_remove :
            /\ services' = [services EXCEPT ![drop[a].group][s] = None]
            /\ drop' = [drop EXCEPT ![a].to_remove = @ \ {s}]
      BY <1>2 DEF DropRemove
    <2>2. drop' \in [Actors -> DropType]
      BY <1>0, <2>1 DEF DropType
    <2>3. services' \in [Groups -> [Services -> Clients \cup {None}]]
      BY <2>1 DEF RegistryTypeOK
    <2> QED
      BY <1>2, <2>2, <2>3 DEF RegistryTypeOK, DropRemove
  <1>3. CASE EndDrop(a)
    BY <1>3 DEF RegistryTypeOK, DropType, EndDrop, Idle
  <1> QED
    BY <1>1, <1>2, <1>3

LEMMA WriteTyped ==
    ASSUME conn \in [Conns -> ConnType], handler \in [Conns -> HandlerType], HandlerInv,
           NEW k \in Conns, NEW g \in Groups, MemberOf(Owner(k), g),
           handler[k].pc \in {"hello", "loop"},
           NEW answer \in Answers, Write(k, answer, g)
    PROVE  conn' \in [Conns -> ConnType] /\ handler' \in [Conns -> HandlerType] /\ HandlerInv'
  <1>1. conn' \in [Conns -> ConnType]
    BY FramesTyped DEF Write, ConnType
  <1>2. handler' \in [Conns -> HandlerType]
    BY DEF Write, ToLoop, ToFailed, HandlerType
  <1>3. ASSUME NEW j \in Conns
        PROVE  /\ conn'[j].owner = conn[j].owner
               /\ conn'[j].status = conn[j].status
               /\ j # k => conn'[j] = conn[j] /\ handler'[j] = handler[j]
               /\ conn'[k].request = NoFrame
               /\ handler'[k].pc \in {"loop", "failed"} /\ handler'[k].group = g
    BY DEF Write, ToLoop, ToFailed, ConnType, HandlerType
  <1>4. NoFrame.type = "none"
    BY DEF NoFrame, Frame
  <1>5. HandlerInv'
    BY <1>3, <1>4 DEF HandlerInv, MemberOf, Owner
  <1> QED
    BY <1>1, <1>2, <1>5

(* A step that leaves every handler where it is, or ends it, keeps HandlerInv *)
(* if it only writes well-formed requests.                                    *)
LEMMA HandlerInvKept ==
    ASSUME HandlerInv,
           \A j \in Conns :
             /\ conn'[j].owner = conn[j].owner
             /\ conn'[j].status = "free" => conn[j].status = "free"
             /\ \/ conn'[j].request = conn[j].request
                \/ conn'[j].request.type \notin {"Register", "Subscribe"}
                \/ conn'[j].request.service \in Services
             /\ \/ handler'[j] = handler[j]
                \/ handler[j].pc \notin {"none", "failed"} /\ handler'[j].pc = "done"
                \/ /\ handler[j].pc = "loop" /\ handler'[j].pc = "drop"
                   /\ handler'[j].group = handler[j].group
    PROVE  HandlerInv'
  BY DEF HandlerInv, MemberOf, Owner

LEMMA HandlerStepTyped ==
    ASSUME TypeInv, NEW k \in Conns, Handler(k)
    PROVE  TypeInv'
  <1> USE DEF TypeInv
  <1>a. k \in Actors
    BY ControlAssumption
  <1>t. /\ RegistryTypeOK /\ conn \in [Conns -> ConnType] /\ handler \in [Conns -> HandlerType]
        /\ sweep \in SweepType /\ client \in [Clients -> ClientType]
        /\ sub \in [Conns -> {"none", "hello", "subscribe", "raw"}] /\ faults \in 0 .. MaxFaults
    BY DEF VariablesTyped
  <1>n. NoFrame.type = "none"
    BY DEF NoFrame, Frame
  <1>1. CASE HelloAccepted(k)
    <2> DEFINE g == Authenticate(ClientToken[Owner(k)])
    <2>1. g \in Groups /\ MemberOf(Owner(k), g)
      BY <1>1, AuthenticateMember DEF HelloAccepted, MemberOf
    <2>2. Write(k, Answer("HelloOk"), g) /\ handler[k].pc = "hello"
      BY <1>1 DEF HelloAccepted, Received
    <2>3. conn' \in [Conns -> ConnType] /\ handler' \in [Conns -> HandlerType] /\ HandlerInv'
      <3> HIDE DEF g
      <3> QED
        BY <1>t, <2>1, <2>2, FramesTyped, WriteTyped
    <2>4. RegistryTypeOK'
      BY <1>1, <1>t, TouchTyped DEF HelloAccepted, RegistryTypeOK
    <2> QED
      BY <1>1, <1>t, <2>3, <2>4 DEF HelloAccepted, VariablesTyped
  <1>2. CASE HelloRejected(k)
    <2>1. conn' \in [Conns -> ConnType]
      BY <1>2, <1>t, FramesTyped DEF HelloRejected, ConnType
    <2>2. handler' \in [Conns -> HandlerType]
      BY <1>2, <1>t DEF HelloRejected, HandlerType
    <2>3. ASSUME NEW j \in Conns
          PROVE  /\ conn'[j].owner = conn[j].owner
                 /\ conn'[j].status = conn[j].status \/ conn'[j].status = "lost"
                 /\ conn'[j].request = conn[j].request \/ conn'[j].request = NoFrame
                 /\ handler'[j] = handler[j] \/ (handler[j].pc = "hello" /\ handler'[j].pc = "done")
      BY <1>2, <1>t DEF HelloRejected, ConnType, HandlerType
    <2>4. HandlerInv'
      BY <2>3, <1>n, HandlerInvKept
    <2> QED
      BY <1>2, <1>t, <2>1, <2>2, <2>4 DEF HelloRejected, VariablesTyped, RegistryTypeOK, registryVars
  <1>3. CASE HelloLost(k)
    <2>1. conn' \in [Conns -> ConnType]
      BY <1>3, <1>t, FramesTyped DEF HelloLost, ConnType
    <2>2. handler' \in [Conns -> HandlerType]
      BY <1>3, <1>t DEF HelloLost, HandlerType
    <2>3. ASSUME NEW j \in Conns
          PROVE  /\ conn'[j].owner = conn[j].owner
                 /\ conn'[j].status = conn[j].status
                 /\ conn'[j].request = conn[j].request \/ conn'[j].request = NoFrame
                 /\ handler'[j] = handler[j] \/ (handler[j].pc = "hello" /\ handler'[j].pc = "done")
      BY <1>3, <1>t DEF HelloLost, ConnType, HandlerType
    <2>4. HandlerInv'
      BY <2>3, <1>n, HandlerInvKept
    <2> QED
      BY <1>3, <1>t, <2>1, <2>2, <2>4 DEF HelloLost, VariablesTyped, RegistryTypeOK, registryVars
  <1>4. CASE HandleRegister(k)
    <2> DEFINE g == handler[k].group
               s == conn[k].request.service
    <2>1. g \in Groups /\ MemberOf(Owner(k), g) /\ Owner(k) \in Clients /\ s \in Services
      BY <1>4 DEF HandleRegister, Received, HandlerInv
    <2>2. CASE /\ services' = RegisterService(g, s, Owner(k))
               /\ Write(k, Answer("RegisterOk"), g)
      <3>1. conn' \in [Conns -> ConnType] /\ handler' \in [Conns -> HandlerType] /\ HandlerInv'
        BY <1>4, <1>t, <2>1, <2>2, FramesTyped, WriteTyped DEF HandleRegister, Received
      <3>2. RegistryTypeOK'
        BY <1>4, <1>t, <2>1, <2>2 DEF HandleRegister, RegistryTypeOK, RegisterService
      <3> QED
        BY <1>4, <1>t, <3>1, <3>2 DEF HandleRegister, VariablesTyped
    <2>3. CASE WriteIgnored(k, Answer("ControlError")) /\ UNCHANGED <<services, handler>>
      <3>1. conn' \in [Conns -> ConnType]
        BY <1>t, <2>3, FramesTyped DEF WriteIgnored, ConnType
      <3>2. ASSUME NEW j \in Conns
            PROVE  /\ conn'[j].owner = conn[j].owner
                   /\ conn'[j].status = conn[j].status
                   /\ conn'[j].request = conn[j].request \/ conn'[j].request = NoFrame
        BY <1>t, <2>3 DEF WriteIgnored, ConnType
      <3>3. HandlerInv'
        BY <2>3, <3>2, <1>n, HandlerInvKept
      <3> QED
        BY <1>4, <1>t, <2>3, <3>1, <3>3 DEF HandleRegister, VariablesTyped, RegistryTypeOK
    <2> QED
      BY <1>4, <2>2, <2>3 DEF HandleRegister
  <1>5. CASE HandleSubscribe(k)
    <2> DEFINE g == handler[k].group
               answer == [type |-> "SubscribeOk",
                          provider |-> LookupService(g, conn[k].request.service)]
    <2>1. g \in Groups /\ MemberOf(Owner(k), g) /\ conn[k].request.service \in Services
      BY <1>5 DEF HandleSubscribe, Received, HandlerInv
    <2>2. answer \in Answers
      BY <1>t, <2>1 DEF Answers, LookupService, RegistryTypeOK
    <2>3. Write(k, answer, g) /\ handler[k].pc = "loop"
      BY <1>5 DEF HandleSubscribe, Received
    <2>4. conn' \in [Conns -> ConnType] /\ handler' \in [Conns -> HandlerType] /\ HandlerInv'
      <3> HIDE DEF answer, g
      <3> QED
        BY <1>t, <2>1, <2>2, <2>3, WriteTyped
    <2> QED
      BY <1>5, <1>t, <2>4 DEF HandleSubscribe, VariablesTyped, RegistryTypeOK, registryVars
  <1>6. CASE HandleHeartbeat(k)
    <2>1. conn' \in [Conns -> ConnType]
      BY <1>6, <1>t, FramesTyped DEF HandleHeartbeat, ConnType
    <2>2. ASSUME NEW j \in Conns
          PROVE  /\ conn'[j].owner = conn[j].owner
                 /\ conn'[j].status = conn[j].status
                 /\ conn'[j].request = conn[j].request \/ conn'[j].request = NoFrame
      BY <1>6, <1>t DEF HandleHeartbeat, ConnType
    <2>3. HandlerInv'
      BY <1>6, <2>2, <1>n, HandlerInvKept DEF HandleHeartbeat
    <2>4. RegistryTypeOK'
      BY <1>6, <1>t, TouchTyped DEF HandleHeartbeat, RegistryTypeOK
    <2> QED
      BY <1>6, <1>t, <2>1, <2>3, <2>4 DEF HandleHeartbeat, VariablesTyped
  <1>7. CASE HandleStray(k)
    <2>1. conn' \in [Conns -> ConnType]
      BY <1>7, <1>t, FramesTyped DEF HandleStray, WriteIgnored, ConnType
    <2>2. ASSUME NEW j \in Conns
          PROVE  /\ conn'[j].owner = conn[j].owner
                 /\ conn'[j].status = conn[j].status
                 /\ conn'[j].request = conn[j].request \/ conn'[j].request = NoFrame
      BY <1>7, <1>t DEF HandleStray, WriteIgnored, ConnType
    <2>3. HandlerInv'
      BY <1>7, <2>2, <1>n, HandlerInvKept DEF HandleStray
    <2> QED
      BY <1>7, <1>t, <2>1, <2>3 DEF HandleStray, VariablesTyped, RegistryTypeOK, registryVars
  <1>8. CASE LoopEnds(k)
    <2>1. conn' \in [Conns -> ConnType]
      BY <1>8, <1>t, FramesTyped DEF LoopEnds, ConnType
    <2>2. handler' \in [Conns -> HandlerType]
      BY <1>8, <1>t DEF LoopEnds, HandlerType
    <2>3. ASSUME NEW j \in Conns
          PROVE  /\ conn'[j].owner = conn[j].owner
                 /\ conn'[j].status = conn[j].status
                 /\ conn'[j].request = conn[j].request \/ conn'[j].request = NoFrame
                 /\ \/ handler'[j] = handler[j]
                    \/ /\ handler[j].pc = "loop" /\ handler'[j].pc = "drop"
                       /\ handler'[j].group = handler[j].group
      BY <1>8, <1>t DEF LoopEnds, ConnType, HandlerType
    <2>4. HandlerInv'
      BY <2>3, <1>n, HandlerInvKept
    <2>5. RegistryTypeOK'
      <3>1. handler[k].group \in Groups \cup {None} /\ Owner(k) \in Clients \cup {None}
        BY <1>t DEF Owner, ConnType, HandlerType
      <3> QED
        BY <1>8, <1>a, <1>t, <3>1, BeginDropTyped DEF LoopEnds
    <2> QED
      BY <1>8, <1>t, <2>1, <2>2, <2>4, <2>5 DEF LoopEnds, VariablesTyped
  <1>9. CASE DropStep(k)
    <2>1. RegistryTypeOK'
      BY <1>9, <1>a, <1>t, DropStepTyped DEF DropStep
    <2>2. HandlerInv'
      BY <1>9, HandlerInvKept DEF DropStep
    <2> QED
      BY <1>9, <1>t, <2>1, <2>2 DEF DropStep, VariablesTyped
  <1>10. CASE SessionClosed(k)
    <2>1. RegistryTypeOK'
      BY <1>10, <1>a, <1>t, DropStepTyped DEF SessionClosed
    <2>2. handler' \in [Conns -> HandlerType]
      BY <1>10, <1>t DEF SessionClosed, HandlerType
    <2>3. ASSUME NEW j \in Conns
          PROVE  handler'[j] = handler[j] \/ (handler[j].pc = "drop" /\ handler'[j].pc = "done")
      BY <1>10, <1>t DEF SessionClosed, HandlerType
    <2>4. HandlerInv'
      BY <1>10, <2>3, HandlerInvKept DEF SessionClosed
    <2> QED
      BY <1>10, <1>t, <2>1, <2>2, <2>4 DEF SessionClosed, VariablesTyped
  <1> QED
    BY <1>1, <1>2, <1>3, <1>4, <1>5, <1>6, <1>7, <1>8, <1>9, <1>10 DEF Handler

LEMMA SweepTyped ==
    ASSUME TypeInv, Sweep
    PROVE  TypeInv'
  <1> USE DEF TypeInv
  <1>t. /\ RegistryTypeOK /\ conn \in [Conns -> ConnType] /\ handler \in [Conns -> HandlerType]
        /\ sweep \in SweepType /\ client \in [Clients -> ClientType]
        /\ sub \in [Conns -> {"none", "hello", "subscribe", "raw"}] /\ faults \in 0 .. MaxFaults
    BY DEF VariablesTyped
  <1>a. Sweeper \in Actors
    BY ControlAssumption
  <1>h. ASSUME UNCHANGED <<conn, handler>> PROVE HandlerInv'
    BY <1>h, HandlerInvKept
  <1>1. CASE SweepStart
    <2>1. 0 \in 0 .. Timeout /\ DumpServices \in SUBSET (Groups \X Services)
      BY RegistryAssumption DEF DumpServices
    <2>2. sweep' \in SweepType
      BY <1>1, <1>t, <2>1 DEF SweepStart, SweepType
    <2> QED
      BY <1>1, <1>h, <1>t, <2>2 DEF SweepStart, VariablesTyped, RegistryTypeOK, registryVars
  <1>2. CASE SweepGroup
    <2>1. PICK gs \in sweep.entries :
            sweep' = [sweep EXCEPT !.entries = @ \ {gs},
                                   !.group = gs[1],
                                   !.dead = {c \in Clients : sessions[gs[1]][c] > Timeout}]
      BY <1>2 DEF SweepGroup
    <2>2. gs[1] \in Groups
      BY <1>t, <2>1 DEF SweepType
    <2>3. sweep' \in SweepType
      BY <1>t, <2>1, <2>2 DEF SweepType
    <2> QED
      BY <1>2, <1>h, <1>t, <2>3 DEF SweepGroup, VariablesTyped, RegistryTypeOK, registryVars
  <1>3. CASE SweepDrop
    <2>1. PICK c \in sweep.dead :
            /\ BeginDrop(Sweeper, sweep.group, c)
            /\ sweep' = [sweep EXCEPT !.dead = @ \ {c}]
      BY <1>3 DEF SweepDrop
    <2>2. c \in Clients /\ sweep.group \in Groups \cup {None}
      BY <1>t, <2>1 DEF SweepType
    <2>3. RegistryTypeOK'
      BY <1>3, <1>a, <1>t, <2>1, <2>2, BeginDropTyped DEF SweepDrop
    <2>4. sweep' \in SweepType
      BY <1>t, <2>1 DEF SweepType
    <2> QED
      BY <1>3, <1>h, <1>t, <2>3, <2>4 DEF SweepDrop, VariablesTyped
  <1>4. CASE DropStep(Sweeper)
    <2>1. RegistryTypeOK'
      BY <1>4, <1>a, <1>t, DropStepTyped DEF DropStep
    <2> QED
      BY <1>4, <1>h, <1>t, <2>1 DEF DropStep, VariablesTyped
  <1>5. CASE SweepDropped
    <2>1. RegistryTypeOK'
      BY <1>5, <1>a, <1>t, DropStepTyped DEF SweepDropped
    <2> QED
      BY <1>5, <1>h, <1>t, <2>1 DEF SweepDropped, VariablesTyped
  <1>6. CASE SweepEnd
    <2>1. sweep' \in SweepType
      BY <1>6, <1>t DEF SweepEnd, SweepType
    <2> QED
      BY <1>6, <1>h, <1>t, <2>1 DEF SweepEnd, VariablesTyped, RegistryTypeOK, registryVars
  <1> QED
    BY <1>1, <1>2, <1>3, <1>4, <1>5, <1>6 DEF Sweep

(* A new connection: its handler waits for the first frame. *)
LEMMA ConnectedTyped ==
    ASSUME TypeInv, NEW k \in Conns, NEW c \in Clients, NEW frame \in Frames,
           frame.type \in {"Register", "Subscribe"} => frame.service \in Services,
           Connected(k, c, frame)
    PROVE  conn' \in [Conns -> ConnType] /\ handler' \in [Conns -> HandlerType] /\ HandlerInv'
  <1>t. conn \in [Conns -> ConnType] /\ handler \in [Conns -> HandlerType]
    BY DEF TypeInv, VariablesTyped
  <1>1. conn' \in [Conns -> ConnType] /\ handler' \in [Conns -> HandlerType]
    BY <1>t, FramesTyped DEF Connected, ConnType, HandlerType
  <1>2. ASSUME NEW j \in Conns
        PROVE  /\ j # k => conn'[j] = conn[j] /\ handler'[j] = handler[j]
               /\ conn'[k].owner = c /\ conn'[k].request = frame
               /\ conn'[k].status = "up" /\ handler'[k].pc = "hello"
    BY <1>t DEF Connected
  <1>3. HandlerInv'
    BY <1>2 DEF TypeInv, HandlerInv, MemberOf, Owner
  <1> QED
    BY <1>1, <1>3

(* What the client's end does to a connection keeps its type and HandlerInv. *)
LEMMA ExchangedTyped ==
    ASSUME TypeInv, NEW k, NEW frame \in Frames, UNCHANGED handler,
           frame.type \in {"Register", "Subscribe"} => frame.service \in Services,
           Exchanged(k, frame)
    PROVE  conn' \in [Conns -> ConnType] /\ HandlerInv'
  <1>t. conn \in [Conns -> ConnType]
    BY DEF TypeInv, VariablesTyped
  <1>1. conn' \in [Conns -> ConnType]
    BY <1>t, FramesTyped DEF Exchanged, ConnType
  <1>2. ASSUME NEW j \in Conns
        PROVE  /\ conn'[j].owner = conn[j].owner
               /\ conn'[j].status = conn[j].status
               /\ conn'[j].request = conn[j].request \/ conn'[j].request = frame
    BY <1>t DEF Exchanged, ConnType
  <1>3. HandlerInv'
    BY <1>2, HandlerInvKept DEF TypeInv
  <1> QED
    BY <1>1, <1>3

LEMMA ClosedTyped ==
    ASSUME TypeInv, NEW k, UNCHANGED handler, Closed(k)
    PROVE  conn' \in [Conns -> ConnType] /\ HandlerInv'
  <1>t. conn \in [Conns -> ConnType]
    BY DEF TypeInv, VariablesTyped
  <1>1. conn' \in [Conns -> ConnType]
    BY <1>t, FramesTyped DEF Closed, ConnType
  <1>2. ASSUME NEW j \in Conns
        PROVE  /\ conn'[j].owner = conn[j].owner
               /\ conn'[j].status = "free" => conn[j].status = "free"
               /\ conn'[j].request = conn[j].request
    BY <1>t DEF Closed, ConnType
  <1>3. HandlerInv'
    BY <1>2, HandlerInvKept DEF TypeInv
  <1> QED
    BY <1>1, <1>3

LEMMA FaultTyped ==
    ASSUME faults \in 0 .. MaxFaults, NEW kind, Fault(kind)
    PROVE  faults' \in 0 .. MaxFaults
  BY ControlAssumption DEF Fault

LEMMA ClientTyped ==
    ASSUME TypeInv, NEW c \in Clients, Client(c) \/ ConnectRefused(c) \/ Stop(c) \/ Start(c)
    PROVE  TypeInv'
  <1> USE DEF TypeInv
  <1>t. /\ RegistryTypeOK /\ conn \in [Conns -> ConnType] /\ handler \in [Conns -> HandlerType]
        /\ sweep \in SweepType /\ client \in [Clients -> ClientType]
        /\ sub \in [Conns -> {"none", "hello", "subscribe", "raw"}] /\ faults \in 0 .. MaxFaults
    BY DEF VariablesTyped
  <1>z. ASSUME NEW pc \in {"connect", "hello", "register", "registered", "backoff", "stopped"},
               NEW k \in Conns \cup {None}, NEW i \in Nat \ {0},
               client' = [client EXCEPT ![c] = AtPc(pc, k, i)]
        PROVE  client' \in [Clients -> ClientType]
    <2>1. 0 \in 0 .. Interval
      BY ControlAssumption
    <2>2. AtPc(pc, k, i) \in ClientType
      BY <2>1 DEF AtPc, ClientType
    <2> QED
      BY <1>t, <1>z, <2>2
  <1>y. 1 \in Nat \ {0} /\ client[c].conn \in Conns \cup {None}
    BY <1>t DEF ClientType
  <1>f. Frame("Hello").type = "Hello" /\ NoFrame.type = "none"
        /\ Frame("Heartbeat").type = "Heartbeat"
    BY DEF Frame, NoFrame
  <1>b. ASSUME Backoff(c) PROVE client' \in [Clients -> ClientType]
    BY <1>b, <1>y, <1>z DEF Backoff
  <1>1. CASE Connect(c)
    <2>1. PICK k \in Conns : /\ Connected(k, c, Frame("Hello"))
                             /\ client' = [client EXCEPT ![c] = AtPc("hello", k, 1)]
      BY <1>1 DEF Connect
    <2>2. conn' \in [Conns -> ConnType] /\ handler' \in [Conns -> HandlerType] /\ HandlerInv'
      BY <1>f, <2>1, FramesTyped, ConnectedTyped
    <2>3. client' \in [Clients -> ClientType]
      BY <1>y, <1>z, <2>1
    <2> QED
      BY <1>1, <1>t, <2>2, <2>3 DEF Connect, VariablesTyped, RegistryTypeOK, registryVars
  <1>2. CASE ReplyOk(c)
    <2> DEFINE k == client[c].conn
               i == client[c].next
    <2>0. i \in Nat \ {0}
      BY <1>t DEF ClientType
    <2>1. CASE /\ i <= Len(Expose[c])
               /\ Exchanged(k, ServiceFrame("Register", Expose[c][i]))
               /\ client' = [client EXCEPT ![c] = AtPc("register", k, i + 1)]
      <3>1. Expose[c][i] \in Services
        BY <2>0, <2>1, ControlAssumption
      <3>2. ServiceFrame("Register", Expose[c][i]).service = Expose[c][i]
        BY DEF ServiceFrame
      <3>3. conn' \in [Conns -> ConnType] /\ HandlerInv'
        BY <1>2, <2>1, <3>1, <3>2, FramesTyped, ExchangedTyped DEF ReplyOk
      <3>4. client' \in [Clients -> ClientType]
        <4>1. i + 1 \in Nat \ {0}
          BY <2>0
        <4> QED
          BY <1>y, <1>z, <2>1, <4>1
      <3> QED
        BY <1>2, <1>t, <3>3, <3>4 DEF ReplyOk, VariablesTyped, RegistryTypeOK, registryVars
    <2>2. CASE /\ Exchanged(k, NoFrame)
               /\ client' = [client EXCEPT ![c] = AtPc("registered", k, 1)]
      <3>1. conn' \in [Conns -> ConnType] /\ HandlerInv'
        BY <1>2, <1>f, <2>2, FramesTyped, ExchangedTyped DEF ReplyOk
      <3>2. client' \in [Clients -> ClientType]
        BY <1>y, <1>z, <2>2
      <3> QED
        BY <1>2, <1>t, <3>1, <3>2 DEF ReplyOk, VariablesTyped, RegistryTypeOK, registryVars
    <2> QED
      BY <1>2, <2>1, <2>2 DEF ReplyOk, RegisterNext
  <1>3. CASE RegisterFails(c)
    <2>1. conn' \in [Conns -> ConnType] /\ HandlerInv'
      BY <1>3, ClosedTyped DEF RegisterFails
    <2> QED
      BY <1>3, <1>b, <1>t, <2>1 DEF RegisterFails, VariablesTyped, RegistryTypeOK, registryVars
  <1>4. CASE Retry(c)
    <2>1. client' \in [Clients -> ClientType]
      BY <1>4, <1>y, <1>z DEF Retry
    <2>2. HandlerInv'
      BY <1>4, HandlerInvKept DEF Retry
    <2> QED
      BY <1>4, <1>t, <2>1, <2>2 DEF Retry, VariablesTyped, RegistryTypeOK, registryVars
  <1>5. CASE Heartbeat(c)
    <2> DEFINE k == client[c].conn
    <2>1. client' \in [Clients -> ClientType]
      <3>1. CASE client' = [client EXCEPT ![c].timer = 0]
        <4>1. 0 \in 0 .. Interval
          BY ControlAssumption
        <4> QED
          BY <1>t, <3>1, <4>1 DEF ClientType
      <3>2. CASE client' = [client EXCEPT ![c] = AtPc("connect", None, 1)]
        BY <1>y, <1>z, <3>2
      <3> QED
        BY <1>5, <3>1, <3>2 DEF Heartbeat
    <2>2. CASE conn' = [conn EXCEPT ![k].request = IF conn[k].status = "up"
                                                  THEN Frame("Heartbeat") ELSE @]
      <3>1. conn' \in [Conns -> ConnType]
        <4> HIDE DEF k
        <4>1. Frame("Heartbeat") \in Frames
          BY FramesTyped
        <4>2. CASE conn[k].status = "up"
          BY <1>t, <2>2, <4>1, <4>2 DEF ConnType
        <4>3. CASE conn[k].status # "up"
          BY <1>t, <2>2, <4>3 DEF ConnType
        <4> QED
          BY <4>2, <4>3
      <3>2. ASSUME NEW j \in Conns
            PROVE  /\ conn'[j].owner = conn[j].owner
                   /\ conn'[j].status = conn[j].status
                   /\ conn'[j].request = conn[j].request \/ conn'[j].request = Frame("Heartbeat")
        BY <1>t, <2>2 DEF ConnType
      <3>3. HandlerInv'
        BY <1>5, <1>f, <3>2, HandlerInvKept DEF Heartbeat
      <3> QED
        BY <1>5, <1>t, <2>1, <3>1, <3>3 DEF Heartbeat, VariablesTyped, RegistryTypeOK, registryVars
    <2>3. CASE Closed(k)
      <3>1. conn' \in [Conns -> ConnType] /\ HandlerInv'
        BY <1>5, <2>3, ClosedTyped DEF Heartbeat
      <3> QED
        BY <1>5, <1>t, <2>1, <3>1 DEF Heartbeat, VariablesTyped, RegistryTypeOK, registryVars
    <2> QED
      BY <1>5, <2>2, <2>3 DEF Heartbeat
  <1>6. CASE ConnectRefused(c)
    <2>1. HandlerInv'
      BY <1>6, HandlerInvKept DEF ConnectRefused
    <2> QED
      BY <1>6, <1>b, <1>t, <2>1, FaultTyped DEF ConnectRefused, VariablesTyped, RegistryTypeOK, registryVars
  <1>7. CASE Stop(c)
    <2>1. conn' \in [Conns -> ConnType]
      BY <1>7, <1>t, FramesTyped DEF Stop, ConnType
    <2>2. client' \in [Clients -> ClientType]
      BY <1>7, <1>y, <1>z DEF Stop
    <2>3. sub' \in [Conns -> {"none", "hello", "subscribe", "raw"}]
      BY <1>7, <1>t DEF Stop
    <2>4. ASSUME NEW j \in Conns
          PROVE  /\ conn'[j].owner = conn[j].owner
                 /\ conn'[j].status = "free" => conn[j].status = "free"
                 /\ conn'[j].request = conn[j].request
      BY <1>7, <1>t DEF Stop, ConnType
    <2>5. HandlerInv'
      BY <1>7, <2>4, HandlerInvKept DEF Stop
    <2> QED
      BY <1>7, <1>t, FaultTyped, <2>1, <2>2, <2>3, <2>5 DEF Stop, VariablesTyped, RegistryTypeOK, registryVars
  <1>8. CASE Start(c)
    <2>1. client' \in [Clients -> ClientType]
      BY <1>8, <1>y, <1>z DEF Start
    <2>2. HandlerInv'
      BY <1>8, HandlerInvKept DEF Start
    <2> QED
      BY <1>8, <1>t, <2>1, <2>2 DEF Start, VariablesTyped, RegistryTypeOK, registryVars
  <1> QED
    BY <1>1, <1>2, <1>3, <1>4, <1>5, <1>6, <1>7, <1>8 DEF Client

(* A subscribe() call runs on a connection of a client. *)
SubscriberInv ==
    \A k \in Conns : sub[k] \in {"hello", "subscribe"} => Owner(k) \in Clients

LEMMA SubscribeTyped ==
    ASSUME TypeInv, SubscriberInv,
                    \/ \E c \in Clients : SubscribeConnect(c)
                    \/ \E k \in Conns : Subscriber(k) \/ RawSend(k) \/ RawClose(k)
    PROVE  TypeInv'
  <1> USE DEF TypeInv
  <1>t. /\ RegistryTypeOK /\ conn \in [Conns -> ConnType] /\ handler \in [Conns -> HandlerType]
        /\ sweep \in SweepType /\ client \in [Clients -> ClientType]
        /\ sub \in [Conns -> {"none", "hello", "subscribe", "raw"}] /\ faults \in 0 .. MaxFaults
    BY DEF VariablesTyped
  <1>1. ASSUME NEW c \in Clients, SubscribeConnect(c) PROVE TypeInv'
    <2>1. PICK k \in Conns : Connected(k, c, Frame("Hello")) /\ sub' = [sub EXCEPT ![k] = "hello"]
      BY <1>1 DEF SubscribeConnect
    <2>2. Frame("Hello").type = "Hello"
      BY DEF Frame
    <2>3. conn' \in [Conns -> ConnType] /\ handler' \in [Conns -> HandlerType] /\ HandlerInv'
      BY <2>1, <2>2, FramesTyped, ConnectedTyped
    <2> QED
      BY <1>1, <1>t, <2>1, <2>3 DEF SubscribeConnect, VariablesTyped, RegistryTypeOK, registryVars
  <1>2. ASSUME NEW k \in Conns, SubscribeHelloOk(k) PROVE TypeInv'
    <2>1. PICK s \in Consume[Owner(k)] : Exchanged(k, ServiceFrame("Subscribe", s))
      BY <1>2 DEF SubscribeHelloOk
    <2>3. s \in Services
      BY <1>2, <2>1, ControlAssumption DEF SubscribeHelloOk, SubscriberInv
    <2>4. ServiceFrame("Subscribe", s).service = s
      BY DEF ServiceFrame
    <2>5. conn' \in [Conns -> ConnType] /\ HandlerInv'
      BY <1>2, <2>1, <2>3, <2>4, FramesTyped, ExchangedTyped DEF SubscribeHelloOk
    <2> QED
      BY <1>2, <1>t, <2>5 DEF SubscribeHelloOk, VariablesTyped, RegistryTypeOK, registryVars
  <1>3. ASSUME NEW k \in Conns, SubscribeReturns(k) PROVE TypeInv'
    <2>1. conn' \in [Conns -> ConnType] /\ HandlerInv'
      BY <1>3, ClosedTyped DEF SubscribeReturns
    <2> QED
      BY <1>3, <1>t, <2>1 DEF SubscribeReturns, VariablesTyped, RegistryTypeOK, registryVars
  <1>4. ASSUME NEW k \in Conns, RawSend(k) PROVE TypeInv'
    <2>1. PICK frame \in Frames :
            /\ \/ frame.type \in {"Hello", "Heartbeat", "other"} /\ frame.service = None
               \/ frame.type \in {"Register", "Subscribe"} /\ frame.service # None
            /\ \/ /\ \E c \in RawClients : Connected(k, c, frame)
                  /\ sub' = [sub EXCEPT ![k] = "raw"]
               \/ Exchanged(k, frame) /\ UNCHANGED <<handler, sub>>
      BY <1>4 DEF RawSend
    <2>2. frame.type \in {"Register", "Subscribe"} => frame.service \in Services
      BY <2>1 DEF Frames
    <2>3. CASE \E c \in RawClients : Connected(k, c, frame) /\ sub' = [sub EXCEPT ![k] = "raw"]
      <3>1. conn' \in [Conns -> ConnType] /\ handler' \in [Conns -> HandlerType] /\ HandlerInv'
        BY <2>2, <2>3, ConnectedTyped, ControlAssumption
      <3> QED
        BY <1>4, <1>t, <2>3, <3>1 DEF RawSend, VariablesTyped, RegistryTypeOK, registryVars
    <2>4. CASE Exchanged(k, frame) /\ UNCHANGED <<handler, sub>>
      <3>1. conn' \in [Conns -> ConnType] /\ HandlerInv'
        BY <2>2, <2>4, ExchangedTyped
      <3> QED
        BY <1>4, <1>t, <2>4, <3>1 DEF RawSend, VariablesTyped, RegistryTypeOK, registryVars
    <2> QED
      BY <2>1, <2>3, <2>4
  <1>5. ASSUME NEW k \in Conns, RawClose(k) PROVE TypeInv'
    <2>1. conn' \in [Conns -> ConnType] /\ HandlerInv'
      BY <1>5, ClosedTyped DEF RawClose
    <2> QED
      BY <1>5, <1>t, <2>1 DEF RawClose, VariablesTyped, RegistryTypeOK, registryVars
  <1> QED
    BY <1>1, <1>2, <1>3, <1>4, <1>5 DEF Subscriber

LEMMA EnvironmentTyped ==
    ASSUME TypeInv, (\E k \in Conns : Lose(k) \/ Recycle(k)) \/ Tick \/ Restart
    PROVE  TypeInv'
  <1> USE DEF TypeInv
  <1>t. /\ RegistryTypeOK /\ conn \in [Conns -> ConnType] /\ handler \in [Conns -> HandlerType]
        /\ sweep \in SweepType /\ client \in [Clients -> ClientType]
        /\ sub \in [Conns -> {"none", "hello", "subscribe", "raw"}] /\ faults \in 0 .. MaxFaults
    BY DEF VariablesTyped
  <1>n. NoFrame.type = "none"
    BY DEF NoFrame, Frame
  <1>1. ASSUME NEW k \in Conns, Lose(k) PROVE TypeInv'
    <2>1. conn' \in [Conns -> ConnType]
      BY <1>1, <1>t DEF Lose, ConnType
    <2>2. ASSUME NEW j \in Conns
          PROVE  /\ conn'[j].owner = conn[j].owner
                 /\ conn'[j].status = conn[j].status \/ conn'[j].status = "lost"
                 /\ conn'[j].request = conn[j].request
      BY <1>1, <1>t DEF Lose, ConnType
    <2>3. HandlerInv'
      BY <1>1, <2>2, HandlerInvKept DEF Lose
    <2> QED
      BY <1>1, <1>t, <2>1, <2>3, FaultTyped DEF Lose, VariablesTyped, RegistryTypeOK, registryVars
  <1>2. ASSUME NEW k \in Conns, Recycle(k) PROVE TypeInv'
    <2>1. conn' \in [Conns -> ConnType]
      BY <1>2, <1>t, FramesTyped DEF Recycle, ConnType, FreeConn
    <2>2. handler' \in [Conns -> HandlerType]
      BY <1>2, <1>t DEF Recycle, HandlerType
    <2>3. ASSUME NEW j \in Conns
          PROVE  /\ j # k => conn'[j] = conn[j] /\ handler'[j] = handler[j]
                 /\ conn'[k].request = NoFrame /\ handler'[k].pc = "none"
      BY <1>2, <1>t DEF Recycle, FreeConn
    <2>4. HandlerInv'
      BY <1>n, <2>3 DEF HandlerInv, Owner, MemberOf
    <2> QED
      BY <1>2, <1>t, <2>1, <2>2, <2>4 DEF Recycle, VariablesTyped, RegistryTypeOK, registryVars
  <1>3. CASE Tick
    <2>1. conn' \in [Conns -> ConnType]
      BY <1>3, <1>t, FramesTyped DEF Tick, ConnType
    <2>2. ASSUME NEW j \in Conns
          PROVE  /\ conn'[j].owner = conn[j].owner
                 /\ conn'[j].status = conn[j].status \/ conn'[j].status = "dead"
                 /\ conn'[j].request = conn[j].request \/ conn'[j].request = NoFrame
      BY <1>3, <1>t DEF Tick, ConnType
    <2>3. HandlerInv'
      BY <1>3, <1>n, <2>2, HandlerInvKept DEF Tick
    <2>4. RegistryTypeOK'
      <3>1. ASSUME NEW g \in Groups, NEW c \in Clients
            PROVE  (IF sessions[g][c] \in 0 .. Timeout
                    THEN sessions[g][c] + 1 ELSE sessions[g][c]) \in Ages \cup {Absent}
        <4>1. sessions[g][c] \in Ages \cup {Absent}
          BY <1>t DEF RegistryTypeOK
        <4> QED
          BY <4>1, RegistryAssumption DEF Ages, Expired, Absent
      <3>2. sessions' \in [Groups -> [Clients -> Ages \cup {Absent}]]
        BY <1>3, <3>1 DEF Tick, AgeSessions
      <3> QED
        BY <1>3, <1>t, <3>2 DEF Tick, RegistryTypeOK
    <2>5. sweep' \in SweepType
      <3>1. (IF sweep.timer < Timeout THEN sweep.timer + 1 ELSE sweep.timer) \in 0 .. Timeout
        BY <1>t, RegistryAssumption DEF SweepType
      <3> QED
        BY <1>3, <1>t, <3>1 DEF Tick, SweepType
    <2>6. client' \in [Clients -> ClientType]
      <3>1. ASSUME NEW c \in Clients, client[c].pc = "registered"
            PROVE  [client[c] EXCEPT !.timer = @ + 1] \in ClientType
        <4>1. client[c].timer \in 0 .. Interval /\ client[c].timer < Interval
          BY <1>3, <1>t, <3>1 DEF Tick, Quiet, ClientType
        <4>2. client[c].timer + 1 \in 0 .. Interval
          BY <4>1, ControlAssumption
        <4> QED
          BY <1>t, <4>2 DEF ClientType
      <3> QED
        BY <1>3, <1>t, <3>1 DEF Tick
    <2> QED
      BY <1>3, <1>t, <2>1, <2>3, <2>4, <2>5, <2>6 DEF Tick, VariablesTyped
  <1>4. CASE Restart
    <2>1. conn' \in [Conns -> ConnType]
      BY <1>4, <1>t, FramesTyped DEF Restart, ConnType
    <2>2. handler' \in [Conns -> HandlerType]
      BY <1>4, <1>t DEF Restart, HandlerType
    <2>3. ASSUME NEW j \in Conns
          PROVE  /\ conn'[j].owner = conn[j].owner
                 /\ conn'[j].status = conn[j].status \/ conn'[j].status = "lost"
                 /\ conn'[j].request = NoFrame
                 /\ handler'[j].pc = "done" \/ handler'[j].pc = "none"
                 /\ handler[j].pc = "none" <=> handler'[j].pc = "none"
      BY <1>4, <1>t DEF Restart, ConnType, HandlerType
    <2>4. HandlerInv'
      BY <1>n, <2>3 DEF HandlerInv, Owner
    <2>5. RegistryTypeOK'
      BY <1>4 DEF Restart, RegistryReset, RegistryTypeOK, DropType, Idle, Absent
    <2>6. sweep' \in SweepType
      <3>1. 0 \in 0 .. Timeout
        BY RegistryAssumption
      <3> QED
        BY <1>4, <3>1 DEF Restart, SweepType
    <2> QED
      BY <1>4, <1>t, <2>1, <2>2, <2>4, <2>5, <2>6, FaultTyped DEF Restart, VariablesTyped
  <1> QED
    BY <1>1, <1>2, <1>3, <1>4

-----------------------------------------------------------------------------
(***************************************************************************)
(* What a step does to the connections, once for all the invariants: a     *)
(* served connection stays served for the same client and group, and an    *)
(* answer that names a provider was there before for the same peer.        *)
(***************************************************************************)
Kept(j) ==
    /\ handler[j].pc \in {"loop", "failed"} =>
         /\ handler'[j].pc \in {"loop", "failed"}
         /\ handler'[j].group = handler[j].group
         /\ conn'[j].owner = conn[j].owner
    /\ conn'[j].reply.provider # None =>
         /\ conn'[j].reply.provider = conn[j].reply.provider
         /\ conn'[j].owner = conn[j].owner
    /\ sub'[j] \in {"hello", "subscribe"} =>
         \/ conn'[j].owner \in Clients
         \/ sub[j] \in {"hello", "subscribe"} /\ conn'[j].owner = conn[j].owner

AllKept == \A j \in Conns : Kept(j)

LEMMA ConnectedKept ==
    ASSUME TypeInv, NEW k \in Conns, NEW c \in Clients, NEW frame, Connected(k, c, frame),
           NEW v, sub' = [sub EXCEPT ![k] = v] \/ UNCHANGED sub
    PROVE  AllKept
  <1>t. /\ conn \in [Conns -> ConnType] /\ handler \in [Conns -> HandlerType]
        /\ sub \in [Conns -> {"none", "hello", "subscribe", "raw"}]
    BY DEF TypeInv, VariablesTyped
  <1>1. handler[k].pc = "none"
    BY DEF TypeInv, HandlerInv, Connected
  <1>2. NoAnswer.provider = None
    BY DEF NoAnswer, Answer
  <1>3. ASSUME NEW j \in Conns
        PROVE  /\ j # k => conn'[j] = conn[j] /\ handler'[j] = handler[j] /\ sub'[j] = sub[j]
               /\ conn'[k].owner = c /\ conn'[k].reply = NoAnswer
    BY <1>t DEF Connected
  <1> QED
    BY <1>1, <1>2, <1>3 DEF AllKept, Kept

LEMMA ExchangedKept ==
    ASSUME TypeInv, NEW k, NEW frame, Exchanged(k, frame) \/ Closed(k), UNCHANGED handler,
           \A j \in Conns : sub'[j] \in {"hello", "subscribe"} => sub[j] \in {"hello", "subscribe"}
    PROVE  AllKept
  <1>t. conn \in [Conns -> ConnType]
    BY DEF TypeInv, VariablesTyped
  <1>1. NoAnswer.provider = None
    BY DEF NoAnswer, Answer
  <1>2. ASSUME NEW j \in Conns
        PROVE  /\ conn'[j].owner = conn[j].owner
               /\ conn'[j].reply = conn[j].reply \/ conn'[j].reply = NoAnswer
    BY <1>t DEF Exchanged, Closed, ConnType
  <1> QED
    BY <1>1, <1>2 DEF AllKept, Kept

(* The steps that change the registry or end a served connection. *)
RegistryStep ==
    \/ \E k \in Conns : \/ HelloAccepted(k) \/ HandleRegister(k) \/ HandleSubscribe(k)
                        \/ HandleHeartbeat(k) \/ LoopEnds(k)
    \/ \E a \in Actors : DropScan(a) \/ DropRemove(a) \/ EndDrop(a)
    \/ SweepDrop \/ Tick \/ Restart

LEMMA NextKeeps ==
    ASSUME TypeInv, Next
    PROVE  /\ RegistryStep \/ UNCHANGED registryVars
           /\ \/ AllKept
              \/ \E k \in Conns : \/ HelloAccepted(k) \/ HandleRegister(k) \/ HandleSubscribe(k)
                                  \/ LoopEnds(k)
              \/ Restart
  <1> DEFINE Goal == /\ RegistryStep \/ UNCHANGED registryVars
                     /\ \/ AllKept
                        \/ \E k \in Conns : \/ HelloAccepted(k) \/ HandleRegister(k)
                                            \/ HandleSubscribe(k) \/ LoopEnds(k)
                        \/ Restart
  <1>t. /\ conn \in [Conns -> ConnType] /\ handler \in [Conns -> HandlerType]
        /\ sub \in [Conns -> {"none", "hello", "subscribe", "raw"}]
    BY DEF TypeInv, VariablesTyped
  <1>n. NoAnswer.provider = None /\ Answer("ControlError").provider = None
    BY DEF NoAnswer, Answer
  <1>u. ASSUME UNCHANGED <<conn, handler, sub>> PROVE AllKept
    BY <1>u DEF AllKept, Kept
  <1>a. Conns \subseteq Actors /\ Sweeper \in Actors
    BY ControlAssumption
  <1>1. ASSUME NEW k \in Conns, Handler(k) PROVE Goal
    <2>1. CASE HelloRejected(k)
      <3>1. ASSUME NEW j \in Conns
            PROVE  /\ conn'[j].owner = conn[j].owner
                   /\ conn'[j].reply = conn[j].reply \/ conn'[j].reply = Answer("ControlError")
                   /\ handler'[j] = handler[j] \/ handler[j].pc = "hello"
        BY <1>t, <2>1 DEF HelloRejected, ConnType, HandlerType
      <3>2. AllKept
        BY <1>n, <2>1, <3>1 DEF AllKept, Kept, HelloRejected
      <3> QED
        BY <2>1, <3>2 DEF HelloRejected
    <2>2. CASE HelloLost(k)
      <3>1. ASSUME NEW j \in Conns
            PROVE  /\ conn'[j].owner = conn[j].owner
                   /\ conn'[j].reply = conn[j].reply
                   /\ handler'[j] = handler[j] \/ handler[j].pc = "hello"
        BY <1>t, <2>2 DEF HelloLost, ConnType, HandlerType
      <3>2. AllKept
        BY <2>2, <3>1 DEF AllKept, Kept, HelloLost
      <3> QED
        BY <2>2, <3>2 DEF HelloLost
    <2>3. CASE HandleHeartbeat(k)
      <3>1. ASSUME NEW j \in Conns
            PROVE  conn'[j].owner = conn[j].owner /\ conn'[j].reply = conn[j].reply
        BY <1>t, <2>3 DEF HandleHeartbeat, ConnType
      <3>2. AllKept
        BY <2>3, <3>1 DEF AllKept, Kept, HandleHeartbeat
      <3> QED
        BY <2>3, <3>2 DEF RegistryStep
    <2>4. CASE HandleStray(k)
      <3>1. ASSUME NEW j \in Conns
            PROVE  /\ conn'[j].owner = conn[j].owner
                   /\ conn'[j].reply = conn[j].reply \/ conn'[j].reply = Answer("ControlError")
        <4>1. CASE WriteIgnored(k, Answer("ControlError"))
          BY <1>t, <4>1 DEF WriteIgnored, ConnType
        <4>2. CASE conn' = [conn EXCEPT ![k].request = NoFrame]
          BY <1>t, <4>2 DEF ConnType
        <4> QED
          BY <2>4, <4>1, <4>2 DEF HandleStray
      <3>2. AllKept
        BY <1>n, <2>4, <3>1 DEF AllKept, Kept, HandleStray
      <3> QED
        BY <2>4, <3>2 DEF HandleStray
    <2>5. CASE DropStep(k)
      BY <1>a, <1>u, <2>5 DEF DropStep, RegistryStep
    <2>6. CASE SessionClosed(k)
      <3>1. ASSUME NEW j \in Conns PROVE handler'[j] = handler[j] \/ handler[j].pc = "drop"
        BY <1>t, <2>6 DEF SessionClosed, HandlerType
      <3>2. AllKept
        BY <2>6, <3>1 DEF AllKept, Kept, SessionClosed
      <3> QED
        BY <1>a, <2>6, <3>2 DEF SessionClosed, RegistryStep
    <2>7. CASE HelloAccepted(k) \/ HandleRegister(k) \/ HandleSubscribe(k) \/ LoopEnds(k)
      BY <2>7 DEF RegistryStep
    <2> QED
      BY <1>1, <2>1, <2>2, <2>3, <2>4, <2>5, <2>6, <2>7 DEF Handler
  <1>2. ASSUME Sweep PROVE Goal
    <2>1. AllKept
      BY <1>2, <1>u DEF Sweep, SweepStart, SweepGroup, SweepDrop, DropStep, SweepDropped, SweepEnd
    <2>2. RegistryStep \/ UNCHANGED registryVars
      BY <1>2, <1>a DEF Sweep, SweepStart, SweepGroup, DropStep, SweepDropped, SweepEnd,
                        RegistryStep
    <2> QED
      BY <2>1, <2>2
  <1>3. ASSUME NEW c \in Clients, Client(c) \/ ConnectRefused(c) \/ Stop(c) \/ Start(c)
        PROVE  Goal
    <2>1. CASE Connect(c)
      BY <2>1, ConnectedKept DEF Connect
    <2>2. CASE ReplyOk(c)
      BY <2>2, ExchangedKept DEF ReplyOk, RegisterNext
    <2>3. CASE RegisterFails(c)
      BY <2>3, ExchangedKept DEF RegisterFails
    <2>4. CASE Retry(c) \/ ConnectRefused(c) \/ Start(c)
      BY <1>u, <2>4 DEF Retry, ConnectRefused, Start
    <2>5. CASE Heartbeat(c)
      <3>1. ASSUME NEW j \in Conns
            PROVE  /\ conn'[j].owner = conn[j].owner
                   /\ conn'[j].reply = conn[j].reply \/ conn'[j].reply = NoAnswer
        BY <1>t, <2>5 DEF Heartbeat, Closed, ConnType
      <3>2. AllKept
        BY <1>n, <2>5, <3>1 DEF AllKept, Kept, Heartbeat
      <3> QED
        BY <2>5, <3>2 DEF Heartbeat
    <2>6. CASE Stop(c)
      <3>1. ASSUME NEW j \in Conns
            PROVE  /\ conn'[j].owner = conn[j].owner
                   /\ conn'[j].reply = conn[j].reply \/ conn'[j].reply = NoAnswer
                   /\ sub'[j] = sub[j] \/ sub'[j] = "none"
        BY <1>t, <2>6 DEF Stop, ConnType
      <3>2. AllKept
        BY <1>n, <2>6, <3>1 DEF AllKept, Kept, Stop
      <3> QED
        BY <2>6, <3>2 DEF Stop
    <2> QED
      BY <1>3, <2>1, <2>2, <2>3, <2>4, <2>5, <2>6 DEF Client
  <1>4. ASSUME NEW c \in Clients, SubscribeConnect(c) PROVE Goal
    BY <1>4, ConnectedKept DEF SubscribeConnect
  <1>5. ASSUME NEW k \in Conns, Subscriber(k) \/ RawSend(k) \/ RawClose(k) PROVE Goal
    <2>1. CASE SubscribeHelloOk(k)
      <3>1. \A j \in Conns : sub'[j] \in {"hello", "subscribe"} => sub[j] \in {"hello", "subscribe"}
        BY <1>t, <2>1 DEF SubscribeHelloOk
      <3> QED
        BY <2>1, <3>1, ExchangedKept DEF SubscribeHelloOk
    <2>2. CASE SubscribeReturns(k) \/ RawClose(k)
      <3>1. \A j \in Conns : sub'[j] \in {"hello", "subscribe"} => sub[j] \in {"hello", "subscribe"}
        BY <1>t, <2>2 DEF SubscribeReturns, RawClose
      <3> QED
        BY <2>2, <3>1, ExchangedKept DEF SubscribeReturns, RawClose
    <2>3. CASE RawSend(k)
      BY <2>3, ExchangedKept, ConnectedKept, ControlAssumption DEF RawSend
    <2> QED
      BY <1>5, <2>1, <2>2, <2>3 DEF Subscriber
  <1>6. ASSUME NEW k \in Conns, Lose(k) \/ Recycle(k) PROVE Goal
    <2>1. CASE Lose(k)
      <3>1. ASSUME NEW j \in Conns
            PROVE  conn'[j].owner = conn[j].owner /\ conn'[j].reply = conn[j].reply
        BY <1>t, <2>1 DEF Lose, ConnType
      <3>2. AllKept
        BY <2>1, <3>1 DEF AllKept, Kept, Lose
      <3> QED
        BY <2>1, <3>2 DEF Lose
    <2>2. CASE Recycle(k)
      <3>1. ASSUME NEW j \in Conns
            PROVE  /\ j # k => conn'[j] = conn[j] /\ handler'[j] = handler[j]
                   /\ conn'[k].reply = NoAnswer
                   /\ handler[k].pc = "done" /\ sub[k] = "none"
        BY <1>t, <2>2 DEF Recycle, FreeConn
      <3>2. AllKept
        BY <1>n, <2>2, <3>1 DEF AllKept, Kept, Recycle
      <3> QED
        BY <2>2, <3>2 DEF Recycle
    <2> QED
      BY <1>6, <2>1, <2>2
  <1>7. ASSUME Tick PROVE Goal
    <2>1. ASSUME NEW j \in Conns
          PROVE  /\ conn'[j].owner = conn[j].owner
                 /\ conn'[j].reply = conn[j].reply \/ conn'[j].reply = NoAnswer
      BY <1>t, <1>7 DEF Tick, ConnType
    <2>2. AllKept
      BY <1>n, <1>7, <2>1 DEF AllKept, Kept, Tick
    <2> QED
      BY <1>7, <2>2 DEF RegistryStep
  <1>8. ASSUME Restart PROVE Goal
    BY <1>8 DEF RegistryStep
  <1> QED
    BY <1>1, <1>2, <1>3, <1>4, <1>5, <1>6, <1>7, <1>8 DEF Next

(* A handler that writes its answer still serves its peer. *)
LEMMA WriteServes ==
    ASSUME TypeInv, NEW k \in Conns, NEW g, NEW answer, Write(k, answer, g)
    PROVE  \A j \in Conns :
             /\ conn'[j].owner = conn[j].owner
             /\ j # k => conn'[j] = conn[j] /\ handler'[j] = handler[j]
             /\ conn'[k].reply = conn[k].reply \/ conn'[k].reply = answer
             /\ handler'[k].pc \in {"loop", "failed"} /\ handler'[k].group = g
  <1>t. conn \in [Conns -> ConnType] /\ handler \in [Conns -> HandlerType]
    BY DEF TypeInv, VariablesTyped
  <1> QED
    BY <1>t DEF Write, ToLoop, ToFailed, ConnType, HandlerType

(* Every step but the two that end connections keeps them served. *)
LEMMA ServedKept ==
    ASSUME TypeInv, Next, ~Restart, NEW j \in Conns, ~LoopEnds(j),
           handler[j].pc \in {"loop", "failed"}
    PROVE  /\ handler'[j].pc \in {"loop", "failed"}
           /\ handler'[j].group = handler[j].group
           /\ conn'[j].owner = conn[j].owner
  <1>t. conn \in [Conns -> ConnType] /\ handler \in [Conns -> HandlerType]
    BY DEF TypeInv, VariablesTyped
  <1>1. CASE AllKept
    BY <1>1 DEF AllKept, Kept
  <1>2. ASSUME NEW k \in Conns, HelloAccepted(k)
        PROVE  /\ handler'[j].pc \in {"loop", "failed"}
               /\ handler'[j].group = handler[j].group
               /\ conn'[j].owner = conn[j].owner
    BY <1>2, WriteServes DEF HelloAccepted, Received
  <1>3. ASSUME NEW k \in Conns, HandleRegister(k)
        PROVE  /\ handler'[j].pc \in {"loop", "failed"}
               /\ handler'[j].group = handler[j].group
               /\ conn'[j].owner = conn[j].owner
    <2>1. CASE Write(k, Answer("RegisterOk"), handler[k].group)
      BY <2>1, WriteServes
    <2>2. CASE WriteIgnored(k, Answer("ControlError")) /\ UNCHANGED <<services, handler>>
      BY <1>t, <2>2 DEF WriteIgnored, ConnType
    <2> QED
      BY <1>3, <2>1, <2>2 DEF HandleRegister
  <1>4. ASSUME NEW k \in Conns, HandleSubscribe(k)
        PROVE  /\ handler'[j].pc \in {"loop", "failed"}
               /\ handler'[j].group = handler[j].group
               /\ conn'[j].owner = conn[j].owner
    BY <1>4, WriteServes DEF HandleSubscribe
  <1>5. ASSUME NEW k \in Conns, LoopEnds(k)
        PROVE  /\ handler'[j].pc \in {"loop", "failed"}
               /\ handler'[j].group = handler[j].group
               /\ conn'[j].owner = conn[j].owner
    BY <1>t, <1>5 DEF LoopEnds, ConnType, HandlerType
  <1> QED
    BY <1>1, <1>2, <1>3, <1>4, <1>5, NextKeeps

LEMMA RestartEmpties ==
    ASSUME Restart
    PROVE  /\ \A g \in Groups, c \in Clients : sessions'[g][c] = Absent
           /\ \A g \in Groups, s \in Services : services'[g][s] = None
  <1>1. RegistryReset
    BY DEF Restart
  <1> QED
    BY <1>1 DEF RegistryReset

LEMMA SessionBackedStep ==
    ASSUME TypeInv, SessionBacked, Next
    PROVE  SessionBacked'
  <1>t. /\ RegistryTypeOK /\ conn \in [Conns -> ConnType] /\ handler \in [Conns -> HandlerType]
    BY DEF TypeInv, VariablesTyped
  <1> SUFFICES ASSUME NEW g \in Groups, NEW c \in Clients, sessions'[g][c] # Absent
               PROVE  \E k \in Conns : Serves(k, c, g, {"loop", "failed"})'
    BY DEF SessionBacked, Absent
  <1>0. ~Restart
    BY RestartEmpties
  <1>1. CASE sessions[g][c] # Absent
    <2>1. PICK k \in Conns : Serves(k, c, g, {"loop", "failed"})
      BY <1>1 DEF SessionBacked
    <2>2. ~LoopEnds(k)
      BY <1>t, <2>1 DEF LoopEnds, BeginDrop, Serves, Owner, RegistryTypeOK
    <2>3. Serves(k, c, g, {"loop", "failed"})'
      BY <1>0, <2>1, <2>2, ServedKept DEF Serves, Owner
    <2> QED
      BY <2>3
  <1>2. ASSUME NEW k \in Conns, HelloAccepted(k), sessions[g][c] = Absent
        PROVE  Serves(k, c, g, {"loop", "failed"})'
    <2> DEFINE h == Authenticate(ClientToken[Owner(k)])
    <2>1. g = h /\ c = Owner(k)
      BY <1>2, <1>t DEF HelloAccepted, TouchSession, RegistryTypeOK
    <2>2. Write(k, Answer("HelloOk"), h)
      BY <1>2 DEF HelloAccepted
    <2> HIDE DEF h
    <2> QED
      BY <2>1, <2>2, WriteServes DEF Serves, Owner
  <1>3. ASSUME NEW k \in Conns, HandleHeartbeat(k), sessions[g][c] = Absent
        PROVE  Serves(k, c, g, {"loop", "failed"})'
    <2>1. g = handler[k].group /\ c = Owner(k) /\ handler[k].pc = "loop"
      BY <1>3, <1>t DEF HandleHeartbeat, Received, TouchSession, RegistryTypeOK
    <2>2. ~LoopEnds(k)
      BY <1>3, <1>t DEF HandleHeartbeat, LoopEnds, HandlerType
    <2> QED
      BY <1>0, <2>1, <2>2, ServedKept DEF Serves, Owner
  <1>4. ASSUME sessions[g][c] = Absent
        PROVE  \E k \in Conns : HelloAccepted(k) \/ HandleHeartbeat(k)
    <2>1. ASSUME NEW k \in Conns, HandleRegister(k) \/ HandleSubscribe(k) PROVE FALSE
      BY <1>4, <2>1 DEF HandleRegister, HandleSubscribe, registryVars
    <2>2. ASSUME NEW k \in Conns, LoopEnds(k) PROVE FALSE
      BY <1>4, <1>t, <2>2 DEF LoopEnds, BeginDrop, RegistryTypeOK
    <2>3. ASSUME NEW a \in Actors, DropScan(a) \/ DropRemove(a) \/ EndDrop(a) PROVE FALSE
      BY <1>4, <2>3 DEF DropScan, DropRemove, EndDrop
    <2>4. ~SweepDrop
      <3> SUFFICES ASSUME NEW d, BeginDrop(Sweeper, sweep.group, d) PROVE FALSE
        BY DEF SweepDrop
      <3> QED
        BY <1>4, <1>t DEF BeginDrop, RegistryTypeOK
    <2>5. ~Tick
      <3> SUFFICES ASSUME AgeSessions PROVE FALSE
        BY DEF Tick
      <3>1. sessions'[g][c] = IF sessions[g][c] \in 0 .. Timeout
                              THEN sessions[g][c] + 1 ELSE sessions[g][c]
        BY DEF AgeSessions
      <3>2. sessions[g][c] \notin 0 .. Timeout
        BY <1>4 DEF Absent
      <3> QED
        BY <1>4, <3>1, <3>2
    <2>6. ~UNCHANGED registryVars
      BY <1>4 DEF registryVars
    <2> QED
      BY <1>0, <2>1, <2>2, <2>3, <2>4, <2>5, <2>6, NextKeeps DEF RegistryStep
  <1> QED
    BY <1>1, <1>2, <1>3, <1>4

LEMMA RegistrationBackedStep ==
    ASSUME TypeInv, RegistrationBacked, Next
    PROVE  RegistrationBacked'
  <1>t. /\ RegistryTypeOK /\ conn \in [Conns -> ConnType] /\ handler \in [Conns -> HandlerType]
    BY DEF TypeInv, VariablesTyped
  <1>d. drop \in [Actors -> DropType] /\ services \in [Groups -> [Services -> Clients \cup {None}]]
    BY <1>t DEF RegistryTypeOK
  <1>a. Conns \subseteq Actors /\ Sweeper \in Actors
    BY ControlAssumption
  <1> SUFFICES ASSUME NEW g \in Groups, NEW s \in Services, services'[g][s] # None
               PROVE  \/ \E k \in Conns : Serves(k, services[g][s], g, {"loop", "failed"})'
                      \/ \E a \in Actors : WillDrop(a, services[g][s], g, s)'
    BY DEF RegistrationBacked
  <1> DEFINE p == services'[g][s]
             Backed == \/ \E k \in Conns : Serves(k, services[g][s], g, {"loop", "failed"})'
                       \/ \E a \in Actors : WillDrop(a, services[g][s], g, s)'
  <1>0. ~Restart
    BY RestartEmpties
  (* A provider that has just registered is served by the handler that did it. *)
  <1>1. ASSUME NEW k \in Conns, HandleRegister(k), services'[g][s] # services[g][s]
        PROVE  Backed
    <2>1. /\ Write(k, Answer("RegisterOk"), handler[k].group)
          /\ services' = RegisterService(handler[k].group, conn[k].request.service, Owner(k))
      BY <1>1 DEF HandleRegister
    <2>2. handler[k].group = g /\ p = Owner(k)
      BY <1>1, <1>d, <2>1 DEF RegisterService
    <2>3. Serves(k, services[g][s], g, {"loop", "failed"})'
      BY <2>1, <2>2, WriteServes DEF Serves, Owner
    <2> QED
      BY <2>3
  (* Nothing else creates a record. *)
  <1>2. ASSUME services'[g][s] # services[g][s]
        PROVE  \E k \in Conns : HandleRegister(k)
    <2>1. ASSUME NEW k \in Conns, HelloAccepted(k) \/ HandleSubscribe(k) \/ HandleHeartbeat(k)
                                  \/ LoopEnds(k)
          PROVE  FALSE
      BY <1>2, <2>1 DEF HelloAccepted, HandleSubscribe, HandleHeartbeat, LoopEnds, registryVars
    <2>2. ASSUME NEW a \in Actors, DropScan(a) \/ DropRemove(a) \/ EndDrop(a) PROVE FALSE
      <3>1. CASE DropRemove(a)
        <4>1. PICK r \in drop[a].to_remove : services' = [services EXCEPT ![drop[a].group][r] = None]
          BY <3>1 DEF DropRemove
        <4> QED
          BY <1>2, <1>d, <4>1
      <3> QED
        BY <1>2, <2>2, <3>1 DEF DropScan, EndDrop
    <2>3. ~SweepDrop /\ ~Tick
      BY <1>2 DEF SweepDrop, Tick
    <2>4. ~UNCHANGED registryVars
      BY <1>2 DEF registryVars
    <2> QED
      BY <1>0, <2>1, <2>2, <2>3, <2>4, NextKeeps DEF RegistryStep
  (* An old record keeps what backed it, or the handler that goes drops it. *)
  <1>3. ASSUME services'[g][s] = services[g][s], NEW k \in Conns,
               Serves(k, services[g][s], g, {"loop", "failed"})
        PROVE  Backed
    <2>1. CASE ~LoopEnds(k)
      <3>1. Serves(k, services[g][s], g, {"loop", "failed"})'
        BY <1>0, <1>3, <2>1, ServedKept DEF Serves, Owner
      <3> QED
        BY <3>1
    <2>2. CASE LoopEnds(k)
      <3>1. BeginDrop(k, g, services[g][s])
        BY <1>3, <2>2 DEF LoopEnds, Serves
      <3>2. /\ drop'[k].client = services[g][s] /\ drop'[k].group = g
            /\ drop'[k].scan = Services
        BY <1>a, <1>d, <3>1 DEF BeginDrop
      <3>3. WillDrop(k, services[g][s], g, s)'
        BY <1>3, <3>2 DEF WillDrop
      <3> QED
        BY <1>a, <3>3
    <2> QED
      BY <2>1, <2>2
  <1>4. ASSUME services'[g][s] = services[g][s], NEW a \in Actors,
               WillDrop(a, services[g][s], g, s)
        PROVE  Backed
    <2>0. /\ drop[a].client = services[g][s] /\ drop[a].group = g
          /\ s \in drop[a].scan \cup drop[a].to_remove /\ Dropping(a)
      BY <1>4 DEF WillDrop, Dropping
    <2> SUFFICES /\ drop'[a].client = drop[a].client /\ drop'[a].group = drop[a].group
                 /\ s \in drop'[a].scan \cup drop'[a].to_remove
      BY <1>4, <2>0 DEF WillDrop
    <2>1. ASSUME NEW b \in Actors, NEW h, NEW c, BeginDrop(b, h, c) PROVE drop'[a] = drop[a]
      BY <1>d, <2>0, <2>1 DEF BeginDrop, Dropping
    <2>2. ASSUME NEW b \in Actors, DropScan(b)
          PROVE  /\ drop'[a].client = drop[a].client /\ drop'[a].group = drop[a].group
                 /\ s \in drop'[a].scan \cup drop'[a].to_remove
      <3>1. PICK r \in drop[b].scan :
              drop' = [drop EXCEPT
                    ![b].scan = @ \ {r},
                    ![b].to_remove =
                        IF services[drop[b].group][r] = drop[b].client
                        THEN @ \cup {r} ELSE @]
        BY <2>2 DEF DropScan
      <3>2. CASE b # a
        BY <1>d, <2>0, <3>1, <3>2
      <3>3. CASE b = a
        <4>1. /\ drop'[a].client = drop[a].client /\ drop'[a].group = drop[a].group
              /\ drop'[a].scan = drop[a].scan \ {r}
              /\ drop'[a].to_remove = IF services[g][r] = services[g][s]
                                      THEN drop[a].to_remove \cup {r} ELSE drop[a].to_remove
          BY <1>d, <2>0, <3>1, <3>3 DEF DropType
        <4> QED
          BY <2>0, <4>1
      <3> QED
        BY <3>2, <3>3
    <2>3. ASSUME NEW b \in Actors, DropRemove(b)
          PROVE  /\ drop'[a].client = drop[a].client /\ drop'[a].group = drop[a].group
                 /\ s \in drop'[a].scan \cup drop'[a].to_remove
      <3>1. PICK r \in drop[b].to_remove :
              /\ services' = [services EXCEPT ![drop[b].group][r] = None]
              /\ drop' = [drop EXCEPT ![b].to_remove = @ \ {r}]
        BY <2>3 DEF DropRemove
      <3>2. CASE b # a
        BY <1>d, <2>0, <3>1, <3>2
      <3>3. CASE b = a
        <4>1. r # s
          BY <1>d, <2>0, <3>1, <3>3
        <4>2. /\ drop'[a].client = drop[a].client /\ drop'[a].group = drop[a].group
              /\ drop'[a].scan = drop[a].scan
              /\ drop'[a].to_remove = drop[a].to_remove \ {r}
          BY <1>d, <3>1, <3>3 DEF DropType
        <4> QED
          BY <2>0, <4>1, <4>2
      <3> QED
        BY <3>2, <3>3
    <2>4. ASSUME NEW b \in Actors, EndDrop(b) PROVE drop'[a] = drop[a]
      BY <1>d, <2>0, <2>4 DEF EndDrop, DropReturns
    <2>5. ASSUME NEW k \in Conns, LoopEnds(k) PROVE drop'[a] = drop[a]
      BY <1>a, <2>1, <2>5 DEF LoopEnds
    <2>6. ASSUME SweepDrop PROVE drop'[a] = drop[a]
      BY <1>a, <2>1, <2>6 DEF SweepDrop
    <2>7. ASSUME NEW k \in Conns, \/ HelloAccepted(k) \/ HandleRegister(k) \/ HandleSubscribe(k)
                                  \/ HandleHeartbeat(k)
          PROVE  drop'[a] = drop[a]
      BY <2>7 DEF HelloAccepted, HandleRegister, HandleSubscribe, HandleHeartbeat, registryVars
    <2>8. ASSUME Tick \/ UNCHANGED registryVars PROVE drop'[a] = drop[a]
      BY <2>8 DEF Tick, registryVars
    <2> QED
      BY <1>0, <2>0, <2>2, <2>3, <2>4, <2>5, <2>6, <2>7, <2>8, NextKeeps DEF RegistryStep
  <1> QED
    BY <1>1, <1>2, <1>3, <1>4 DEF RegistrationBacked

LEMMA SessionIsolationStep ==
    ASSUME TypeInv, GroupIsolation, Next, NEW g \in Groups, NEW c \in Clients,
           sessions'[g][c] # Absent
    PROVE  MemberOf(c, g)
  <1>t. RegistryTypeOK
    BY DEF TypeInv, VariablesTyped
  <1>1. CASE sessions[g][c] # Absent
    BY <1>1 DEF GroupIsolation
  <1>2. CASE sessions[g][c] = Absent
    <2>1. ASSUME NEW k \in Conns, HelloAccepted(k) PROVE MemberOf(c, g)
      <3>1. g = Authenticate(ClientToken[Owner(k)]) /\ c = Owner(k)
        BY <1>2, <1>t, <2>1 DEF HelloAccepted, TouchSession, RegistryTypeOK
      <3> QED
        BY <2>1, <3>1, AuthenticateMember DEF HelloAccepted, MemberOf
    <2>2. ASSUME NEW k \in Conns, HandleHeartbeat(k) PROVE MemberOf(c, g)
      <3>1. g = handler[k].group /\ c = Owner(k) /\ handler[k].pc = "loop"
        BY <1>2, <1>t, <2>2 DEF HandleHeartbeat, Received, TouchSession, RegistryTypeOK
      <3> QED
        BY <3>1 DEF TypeInv, HandlerInv
    <2>3. ASSUME NEW k \in Conns, HandleRegister(k) \/ HandleSubscribe(k) PROVE FALSE
      BY <1>2, <2>3 DEF HandleRegister, HandleSubscribe, registryVars
    <2>4. ASSUME NEW k \in Conns, LoopEnds(k) PROVE FALSE
      BY <1>2, <1>t, <2>4 DEF LoopEnds, BeginDrop, RegistryTypeOK
    <2>5. ASSUME NEW a \in Actors, DropScan(a) \/ DropRemove(a) \/ EndDrop(a) PROVE FALSE
      BY <1>2, <2>5 DEF DropScan, DropRemove, EndDrop
    <2>6. ~SweepDrop
      <3> SUFFICES ASSUME NEW d, BeginDrop(Sweeper, sweep.group, d) PROVE FALSE
        BY DEF SweepDrop
      <3> QED
        BY <1>2, <1>t DEF BeginDrop, RegistryTypeOK
    <2>7. ~Tick
      <3> SUFFICES ASSUME AgeSessions PROVE FALSE
        BY DEF Tick
      <3>1. sessions'[g][c] = IF sessions[g][c] \in 0 .. Timeout
                              THEN sessions[g][c] + 1 ELSE sessions[g][c]
        BY DEF AgeSessions
      <3>2. sessions[g][c] \notin 0 .. Timeout
        BY <1>2 DEF Absent
      <3> QED
        BY <1>2, <3>1, <3>2
    <2>8. ~Restart /\ ~UNCHANGED registryVars
      BY <1>2, RestartEmpties DEF registryVars
    <2> QED
      BY <2>1, <2>2, <2>3, <2>4, <2>5, <2>6, <2>7, <2>8, NextKeeps DEF RegistryStep
  <1> QED
    BY <1>1, <1>2

LEMMA ServiceIsolationStep ==
    ASSUME TypeInv, GroupIsolation, Next, NEW g \in Groups, NEW s \in Services,
           services'[g][s] # None
    PROVE  MemberOf(services'[g][s], g)
  <1>t. services \in [Groups -> [Services -> Clients \cup {None}]]
    BY DEF TypeInv, VariablesTyped, RegistryTypeOK
  <1>1. CASE services'[g][s] = services[g][s]
    BY <1>1 DEF GroupIsolation
  <1>2. CASE services'[g][s] # services[g][s]
    <2>1. ASSUME NEW k \in Conns, HandleRegister(k) PROVE MemberOf(services'[g][s], g)
      <3>1. handler[k].group = g /\ services'[g][s] = Owner(k) /\ handler[k].pc = "loop"
        BY <1>2, <1>t, <2>1 DEF HandleRegister, RegisterService, Received
      <3> QED
        BY <3>1 DEF TypeInv, HandlerInv
    <2>2. ASSUME NEW k \in Conns, HelloAccepted(k) \/ HandleSubscribe(k) \/ HandleHeartbeat(k)
                                  \/ LoopEnds(k)
          PROVE  FALSE
      BY <1>2, <2>2 DEF HelloAccepted, HandleSubscribe, HandleHeartbeat, LoopEnds, registryVars
    <2>3. ASSUME NEW a \in Actors, DropScan(a) \/ DropRemove(a) \/ EndDrop(a) PROVE FALSE
      <3>1. CASE DropRemove(a)
        <4>1. PICK r \in drop[a].to_remove : services' = [services EXCEPT ![drop[a].group][r] = None]
          BY <3>1 DEF DropRemove
        <4> QED
          BY <1>2, <1>t, <4>1
      <3> QED
        BY <1>2, <2>3, <3>1 DEF DropScan, EndDrop
    <2>4. ~SweepDrop /\ ~Tick
      BY <1>2 DEF SweepDrop, Tick
    <2>5. ~Restart /\ ~UNCHANGED registryVars
      BY <1>2, RestartEmpties DEF registryVars
    <2> QED
      BY <2>1, <2>2, <2>3, <2>4, <2>5, NextKeeps DEF RegistryStep
  <1> QED
    BY <1>1, <1>2

LEMMA ReplyIsolationStep ==
    ASSUME TypeInv, GroupIsolation, Next, NEW j \in Conns, conn'[j].reply.provider # None
    PROVE  ClientToken[conn'[j].reply.provider] = ClientToken[conn'[j].owner]
  <1>t. conn \in [Conns -> ConnType] /\ handler \in [Conns -> HandlerType]
    BY DEF TypeInv, VariablesTyped
  <1>n. /\ NoAnswer.provider = None /\ Answer("HelloOk").provider = None
        /\ Answer("RegisterOk").provider = None /\ Answer("ControlError").provider = None
    BY DEF NoAnswer, Answer
  <1>0. ASSUME conn'[j].reply = conn[j].reply, conn'[j].owner = conn[j].owner
        PROVE  ClientToken[conn'[j].reply.provider] = ClientToken[conn'[j].owner]
    BY <1>0 DEF GroupIsolation, Owner
  <1>1. CASE AllKept
    BY <1>1 DEF AllKept, Kept, GroupIsolation, Owner
  <1>2. ASSUME NEW k \in Conns, HelloAccepted(k)
        PROVE  ClientToken[conn'[j].reply.provider] = ClientToken[conn'[j].owner]
    <2>1. conn'[j].reply = conn[j].reply \/ conn'[j].reply = Answer("HelloOk")
      BY <1>2, WriteServes DEF HelloAccepted
    <2> QED
      BY <1>0, <1>2, <1>n, <2>1, WriteServes DEF HelloAccepted
  <1>3. ASSUME NEW k \in Conns, HandleRegister(k)
        PROVE  ClientToken[conn'[j].reply.provider] = ClientToken[conn'[j].owner]
    <2>1. CASE Write(k, Answer("RegisterOk"), handler[k].group)
      <3>1. conn'[j].reply = conn[j].reply \/ conn'[j].reply = Answer("RegisterOk")
        BY <2>1, WriteServes
      <3> QED
        BY <1>0, <1>n, <2>1, <3>1, WriteServes
    <2>2. CASE WriteIgnored(k, Answer("ControlError"))
      <3>1. /\ conn'[j].reply = conn[j].reply \/ conn'[j].reply = Answer("ControlError")
            /\ conn'[j].owner = conn[j].owner
        BY <1>t, <2>2 DEF WriteIgnored, ConnType
      <3> QED
        BY <1>0, <1>n, <3>1
    <2> QED
      BY <1>3, <2>1, <2>2 DEF HandleRegister
  <1>4. ASSUME NEW k \in Conns, HandleSubscribe(k)
        PROVE  ClientToken[conn'[j].reply.provider] = ClientToken[conn'[j].owner]
    <2> DEFINE g == handler[k].group
               s == conn[k].request.service
               answer == [type |-> "SubscribeOk", provider |-> LookupService(g, s)]
    <2>1. /\ g \in Groups /\ MemberOf(Owner(k), g) /\ s \in Services
      BY <1>4 DEF HandleSubscribe, Received, TypeInv, HandlerInv
    <2>2. answer.provider = services[g][s]
      BY DEF LookupService
    <2>3. answer.provider # None => ClientToken[answer.provider] = ClientToken[Owner(k)]
      BY <2>1, <2>2 DEF GroupIsolation, MemberOf
    <2>4. Write(k, answer, g)
      BY <1>4 DEF HandleSubscribe
    <2> HIDE DEF answer, g
    <2>5. \/ conn'[j].reply = conn[j].reply
          \/ j = k /\ conn'[j].reply = answer
      BY <2>4, WriteServes
    <2>6. conn'[j].owner = conn[j].owner
      BY <2>4, WriteServes
    <2> QED
      BY <1>0, <2>3, <2>5, <2>6 DEF Owner
  <1>5. ASSUME NEW k \in Conns, LoopEnds(k)
        PROVE  ClientToken[conn'[j].reply.provider] = ClientToken[conn'[j].owner]
    <2>1. conn'[j].reply = conn[j].reply /\ conn'[j].owner = conn[j].owner
      BY <1>t, <1>5 DEF LoopEnds, ConnType
    <2> QED
      BY <1>0, <2>1
  <1>6. CASE Restart
    <2>1. /\ conn'[j].reply = conn[j].reply \/ conn'[j].reply = NoAnswer
          /\ conn'[j].owner = conn[j].owner
      BY <1>t, <1>6 DEF Restart, ConnType
    <2> QED
      BY <1>0, <1>n, <2>1
  <1> QED
    BY <1>1, <1>2, <1>3, <1>4, <1>5, <1>6, NextKeeps

LEMMA SubscriberInvStep ==
    ASSUME TypeInv, SubscriberInv, Next
    PROVE  SubscriberInv'
  <1>t. conn \in [Conns -> ConnType] /\ handler \in [Conns -> HandlerType]
    BY DEF TypeInv, VariablesTyped
  <1>1. CASE AllKept
    BY <1>1 DEF AllKept, Kept, SubscriberInv, Owner
  <1>2. ASSUME UNCHANGED sub, \A j \in Conns : conn'[j].owner = conn[j].owner
        PROVE  SubscriberInv'
    BY <1>2 DEF SubscriberInv, Owner
  <1>3. ASSUME NEW k \in Conns, HelloAccepted(k) PROVE SubscriberInv'
    BY <1>2, <1>3, WriteServes DEF HelloAccepted
  <1>4. ASSUME NEW k \in Conns, HandleRegister(k) PROVE SubscriberInv'
    <2>1. CASE Write(k, Answer("RegisterOk"), handler[k].group)
      BY <1>2, <1>4, <2>1, WriteServes DEF HandleRegister
    <2>2. CASE WriteIgnored(k, Answer("ControlError"))
      <3>1. \A j \in Conns : conn'[j].owner = conn[j].owner
        BY <1>t, <2>2 DEF WriteIgnored, ConnType
      <3> QED
        BY <1>2, <1>4, <3>1 DEF HandleRegister
    <2> QED
      BY <1>4, <2>1, <2>2 DEF HandleRegister
  <1>5. ASSUME NEW k \in Conns, HandleSubscribe(k) PROVE SubscriberInv'
    BY <1>2, <1>5, WriteServes DEF HandleSubscribe
  <1>6. ASSUME NEW k \in Conns, LoopEnds(k) PROVE SubscriberInv'
    <2>1. \A j \in Conns : conn'[j].owner = conn[j].owner
      BY <1>t, <1>6 DEF LoopEnds, ConnType
    <2> QED
      BY <1>2, <1>6, <2>1 DEF LoopEnds
  <1>7. CASE Restart
    <2>1. \A j \in Conns : conn'[j].owner = conn[j].owner
      BY <1>t, <1>7 DEF Restart, ConnType
    <2> QED
      BY <1>2, <1>7, <2>1 DEF Restart
  <1> QED
    BY <1>1, <1>3, <1>4, <1>5, <1>6, <1>7, NextKeeps

-----------------------------------------------------------------------------
(***************************************************************************)
(* Why a session of a live client never expires.  A client that talks to   *)
(* the server does so over a connection of its own; on that connection one *)
(* exchange follows the other without a time unit in between, from the     *)
(* Hello that created the session to the last RegisterOk, and from then on *)
(* the session is no older than the client's heartbeat timer, or a         *)
(* heartbeat that will touch it is on its way, for at most a unit.         *)
(***************************************************************************)
Talking == {"hello", "register", "registered"}

(* The client's loop cl, its connection q, that connection's handler h and  *)
(* the age of the client's session in its group g.                          *)
InTouch(g, cl, q, h, age) ==
    /\ h.pc \in {"hello", "loop"}
    /\ h.pc = "hello" =>
         cl.pc = "hello" /\ q.request.type = "Hello" /\ q.reply.type = "none"
    /\ h.pc = "loop" => h.group = g
    /\ (h.pc = "loop" /\ cl.pc # "registered") =>
         /\ age <= 0
         /\ q.request.type \in {"none", "Register"}
         /\ q.request.type = "none" => q.reply.type # "none"
    /\ cl.pc = "registered" =>
         /\ q.request.type \in {"none", "Heartbeat"}
         /\ q.request.type = "none" => age <= cl.timer
         /\ q.request.type = "Heartbeat" => cl.timer <= 1 /\ age <= Interval + cl.timer

OwnGroup(c) == Authenticate(ClientToken[c])

TalkingInv(c) ==
    client[c].pc \in Talking =>
      LET k == client[c].conn IN
        /\ k \in Conns
        /\ Owner(k) = c
        /\ sub[k] = "none"
        /\ conn[k].status # "free"
        /\ conn[k].status = "up" =>
             InTouch(OwnGroup(c), client[c], conn[k], handler[k], sessions[OwnGroup(c)][c])

(* Nobody uses a connection that is not there. *)
FreeInv == \A k \in Conns : conn[k].status = "free" => sub[k] = "none"

LinkInv == FreeInv /\ \A c \in Clients : TalkingInv(c)

(* Only time makes a session older. *)
LEMMA AgeStep ==
    ASSUME TypeInv, Next, ~Tick, NEW g \in Groups, NEW c \in Clients
    PROVE  sessions'[g][c] = sessions[g][c] \/ sessions'[g][c] \in {0, Absent}
  <1>t. sessions \in [Groups -> [Clients -> Ages \cup {Absent}]]
    BY DEF TypeInv, VariablesTyped, RegistryTypeOK
  <1>1. ASSUME NEW k \in Conns, HelloAccepted(k)
        PROVE  sessions'[g][c] = sessions[g][c] \/ sessions'[g][c] \in {0, Absent}
    BY <1>1, <1>t DEF HelloAccepted, TouchSession
  <1>2. ASSUME NEW k \in Conns, HandleHeartbeat(k)
        PROVE  sessions'[g][c] = sessions[g][c] \/ sessions'[g][c] \in {0, Absent}
    BY <1>2, <1>t DEF HandleHeartbeat, TouchSession
  <1>3. ASSUME NEW k \in Conns, HandleRegister(k) \/ HandleSubscribe(k)
        PROVE  sessions'[g][c] = sessions[g][c]
    BY <1>3 DEF HandleRegister, HandleSubscribe, registryVars
  <1>4. ASSUME NEW k \in Conns, LoopEnds(k)
        PROVE  sessions'[g][c] = sessions[g][c] \/ sessions'[g][c] \in {0, Absent}
    BY <1>4, <1>t DEF LoopEnds, BeginDrop
  <1>5. ASSUME NEW a \in Actors, DropScan(a) \/ DropRemove(a) \/ EndDrop(a)
        PROVE  sessions'[g][c] = sessions[g][c]
    BY <1>5 DEF DropScan, DropRemove, EndDrop
  <1>6. ASSUME SweepDrop
        PROVE  sessions'[g][c] = sessions[g][c] \/ sessions'[g][c] \in {0, Absent}
    <2>1. PICK d \in sweep.dead : BeginDrop(Sweeper, sweep.group, d)
      BY <1>6 DEF SweepDrop
    <2> QED
      BY <1>t, <2>1 DEF BeginDrop
  <1>7. ASSUME Restart PROVE sessions'[g][c] \in {0, Absent}
    BY <1>7, RestartEmpties
  <1>8. ASSUME UNCHANGED registryVars PROVE sessions'[g][c] = sessions[g][c]
    BY <1>8 DEF registryVars
  <1> QED
    BY <1>1, <1>2, <1>3, <1>4, <1>5, <1>6, <1>7, <1>8, NextKeeps DEF RegistryStep

(* A younger session is in touch when an older one is. *)
LEMMA YoungerInTouch ==
    ASSUME NEW g, NEW cl \in ClientType, NEW q, NEW h,
           NEW old \in Int, NEW new \in Int, new = old \/ new <= 0,
           InTouch(g, cl, q, h, old)
    PROVE  InTouch(g, cl, q, h, new)
  <1>1. cl.timer \in Int /\ 0 <= cl.timer
    BY DEF ClientType
  <1>2. Interval \in Int /\ 0 <= Interval
    BY ControlAssumption
  <1>3. ASSUME NEW b \in Int, 0 <= b, old <= b PROVE new <= b
    BY <1>3
  <1>4. ASSUME InTouch(g, cl, q, h, old), q.request.type = "Heartbeat", cl.pc = "registered"
        PROVE  new <= Interval + cl.timer
    BY <1>1, <1>2, <1>3, <1>4 DEF InTouch
  <1> QED
    BY <1>1, <1>2, <1>3, <1>4 DEF InTouch

(* A session's age is a number, in the group that serves its client. *)
LEMMA AgeIsNumber ==
    ASSUME RegistryTypeOK, NEW g \in Groups, NEW c \in Clients
    PROVE  sessions[g][c] \in Int
  <1>1. Ages \cup {Absent} \subseteq Int
    BY RegistryAssumption DEF Ages, Absent, Expired
  <1> QED
    BY <1>1 DEF RegistryTypeOK

(* A client is undisturbed by a step that leaves its loop, and its          *)
(* connection unless that is cut, as they are, and lets no time pass.       *)
LEMMA Undisturbed ==
    ASSUME TypeInv, TypeInv', Next, ~Tick, NEW c \in Clients, TalkingInv(c),
           client'[c] = client[c],
           ASSUME client[c].pc \in Talking, client[c].conn \in Conns
           PROVE  /\ conn'[client[c].conn].owner = conn[client[c].conn].owner
                  /\ conn'[client[c].conn].status # "free"
                  /\ sub'[client[c].conn] = "none"
                  /\ conn'[client[c].conn].status = "up" =>
                       /\ conn'[client[c].conn] = conn[client[c].conn]
                       /\ handler'[client[c].conn] = handler[client[c].conn]
    PROVE  TalkingInv(c)'
  <1> DEFINE k == client[c].conn
             g == OwnGroup(c)
  <1> SUFFICES ASSUME client[c].pc \in Talking
               PROVE  /\ k \in Conns /\ conn'[k].owner = c
                      /\ sub'[k] = "none" /\ conn'[k].status # "free"
                      /\ conn'[k].status = "up" =>
                           InTouch(g, client[c], conn'[k], handler'[k], sessions'[g][c])
    BY DEF TalkingInv, Owner, OwnGroup
  <1>1. k \in Conns /\ conn[k].owner = c
    BY DEF TalkingInv, Owner
  <1>2. ASSUME conn'[k].status = "up"
        PROVE  InTouch(g, client[c], conn'[k], handler'[k], sessions'[g][c])
    <2>1. conn'[k] = conn[k] /\ handler'[k] = handler[k]
      BY <1>1, <1>2
    <2>2. InTouch(g, client[c], conn[k], handler[k], sessions[g][c])
      BY <1>1, <1>2, <2>1 DEF TalkingInv
    <2>3. CASE handler[k].pc = "loop"
      <3>1. g \in Groups
        BY <1>1, <2>2, <2>3 DEF TypeInv, HandlerInv, InTouch
      <3>2. sessions[g][c] \in Int /\ sessions'[g][c] \in Int
        BY <3>1, AgeIsNumber DEF TypeInv, VariablesTyped, RegistryTypeOK, Ages, Absent, Expired
      <3>3. sessions'[g][c] = sessions[g][c] \/ sessions'[g][c] <= 0
        BY <3>1, AgeStep DEF Absent
      <3>4. client[c] \in ClientType
        BY DEF TypeInv, VariablesTyped
      <3> HIDE DEF k, g
      <3> QED
        BY <2>1, <2>2, <3>2, <3>3, <3>4, YoungerInTouch
    <2>4. CASE handler[k].pc # "loop"
      BY <2>1, <2>2, <2>4 DEF InTouch
    <2> QED
      BY <2>3, <2>4
  <1> QED
    BY <1>1, <1>2

(* What run_session does on connection k keeps the client that talks over   *)
(* it in touch; the other clients do not notice.                            *)
LEMMA HandlerKeepsTouch ==
    ASSUME TypeInv, TypeInv', LinkInv, Next, ~Tick, NEW k \in Conns, Handler(k),
           NEW c \in Clients
    PROVE  TalkingInv(c)'
  <1> DEFINE g == OwnGroup(c)
             q == conn[k]
             p == conn'[k]
  <1>t. /\ conn \in [Conns -> ConnType] /\ handler \in [Conns -> HandlerType]
        /\ client \in [Clients -> ClientType]
    BY DEF TypeInv, VariablesTyped
  <1>f. NoFrame.type = "none" /\ NoAnswer.type = "none"
        /\ Answer("HelloOk").type = "HelloOk" /\ Answer("RegisterOk").type = "RegisterOk"
        /\ Answer("ControlError").type = "ControlError"
    BY DEF NoFrame, Frame, NoAnswer, Answer
  <1>0. UNCHANGED <<client, sub>>
    BY DEF Handler, HelloAccepted, HelloRejected, HelloLost, HandleRegister, HandleSubscribe,
           HandleHeartbeat, HandleStray, LoopEnds, DropStep, SessionClosed
  <1>i. TalkingInv(c)
    BY DEF LinkInv
  <1>o. ASSUME NEW j \in Conns
        PROVE  /\ conn'[j].owner = conn[j].owner
               /\ conn'[j].status = conn[j].status \/ conn'[j].status = "lost"
               /\ j # k => conn'[j] = conn[j] /\ handler'[j] = handler[j]
    <2>1. ASSUME NEW ans, NEW h, Write(k, ans, h)
          PROVE  /\ conn'[j].owner = conn[j].owner
                 /\ conn'[j].status = conn[j].status
                 /\ j # k => conn'[j] = conn[j] /\ handler'[j] = handler[j]
      BY <1>t, <2>1 DEF Write, ToLoop, ToFailed, ConnType
    <2>2. CASE HelloAccepted(k) \/ HandleSubscribe(k)
      BY <2>1, <2>2 DEF HelloAccepted, HandleSubscribe
    <2>3. CASE HandleRegister(k)
      BY <1>t, <2>1, <2>3 DEF HandleRegister, WriteIgnored, ConnType
    <2>4. CASE HelloRejected(k) \/ HelloLost(k)
      BY <1>t, <2>4 DEF HelloRejected, HelloLost, ConnType
    <2>5. CASE HandleHeartbeat(k) \/ HandleStray(k)
      BY <1>t, <2>5 DEF HandleHeartbeat, HandleStray, WriteIgnored, ConnType
    <2>6. CASE LoopEnds(k) \/ DropStep(k) \/ SessionClosed(k)
      BY <1>t, <2>6 DEF LoopEnds, DropStep, SessionClosed, ConnType
    <2> QED
      BY <2>2, <2>3, <2>4, <2>5, <2>6 DEF Handler
  <1>1. CASE client[c].conn # k \/ client[c].pc \notin Talking \/ p.status # "up"
    <2>1. ASSUME client[c].pc \in Talking, client[c].conn \in Conns
          PROVE  /\ conn'[client[c].conn].owner = conn[client[c].conn].owner
                 /\ conn'[client[c].conn].status # "free"
                 /\ sub'[client[c].conn] = "none"
                 /\ conn'[client[c].conn].status = "up" =>
                      /\ conn'[client[c].conn] = conn[client[c].conn]
                      /\ handler'[client[c].conn] = handler[client[c].conn]
      BY <1>0, <1>1, <1>i, <1>o, <2>1 DEF TalkingInv
    <2>2. client'[c] = client[c]
      BY <1>0
    <2> QED
      BY <1>i, <2>1, <2>2, Undisturbed
  <1>2. CASE client[c].conn = k /\ client[c].pc \in Talking /\ p.status = "up"
    <2>0. /\ q.status = "up" /\ q.owner = c /\ p.owner = c /\ sub[k] = "none"
          /\ InTouch(g, client[c], q, handler[k], sessions[g][c])
      BY <1>2, <1>i, <1>o DEF TalkingInv, Owner
    <2>c. ~Cut(k)
      BY <2>0 DEF Cut
    <2>g. ASSUME handler[k].pc = "loop"
          PROVE  /\ g \in Groups /\ handler[k].group = g
                 /\ sessions[g][c] \in Int /\ sessions'[g][c] \in Int
                 /\ sessions'[g][c] = sessions[g][c] \/ sessions'[g][c] <= 0
      <3>1. g \in Groups /\ handler[k].group = g
        BY <2>0, <2>g DEF TypeInv, HandlerInv, InTouch
      <3>2. sessions[g][c] \in Int /\ sessions'[g][c] \in Int
        BY <3>1, AgeIsNumber DEF TypeInv, VariablesTyped, RegistryTypeOK, Ages, Absent, Expired
      <3>3. sessions'[g][c] = sessions[g][c] \/ sessions'[g][c] <= 0
        BY <3>1, AgeStep DEF Absent
      <3> QED
        BY <3>1, <3>2, <3>3
    <2> SUFFICES InTouch(g, client[c], p, handler'[k], sessions'[g][c])
      BY <1>0, <1>2, <2>0 DEF TalkingInv, Owner, OwnGroup
    <2>1. CASE HelloAccepted(k)
      <3>1. /\ sessions' = TouchSession(g, c) /\ Write(k, Answer("HelloOk"), g)
            /\ handler[k].pc = "hello" /\ Authenticates(ClientToken[c])
        BY <2>0, <2>1 DEF HelloAccepted, Received, Owner, OwnGroup
      <3>2. g \in Groups
        BY <3>1, AuthenticateMember DEF OwnGroup
      <3>3. sessions'[g][c] = 0
        BY <3>1, <3>2 DEF TouchSession, TypeInv, VariablesTyped, RegistryTypeOK
      <3>4. /\ p.request = NoFrame /\ p.reply = Answer("HelloOk")
            /\ handler'[k].pc = "loop" /\ handler'[k].group = g
        BY <1>t, <2>0, <2>c, <3>1 DEF Write, ToLoop, ConnType, HandlerType
      <3>5. client[c].pc = "hello"
        BY <2>0, <3>1 DEF InTouch
      <3> QED
        BY <1>f, <3>3, <3>4, <3>5 DEF InTouch
    <2>2. CASE HelloRejected(k)
      <3>1. p.status = "lost"
        BY <1>t, <2>2 DEF HelloRejected, ConnType
      <3> QED
        BY <1>2, <3>1
    <2>3. CASE HelloLost(k) \/ LoopEnds(k)
      BY <2>3, <2>c DEF HelloLost, LoopEnds
    <2>4. CASE HandleRegister(k)
      <3>1. handler[k].pc = "loop" /\ q.request.type = "Register"
        BY <2>4 DEF HandleRegister, Received
      <3>2. client[c].pc # "registered" /\ sessions[g][c] <= 0
        BY <2>0, <3>1 DEF InTouch
      <3>3. sessions'[g][c] = sessions[g][c]
        BY <2>4 DEF HandleRegister
      <3>4. /\ p.request = NoFrame
            /\ p.reply = Answer("RegisterOk") \/ p.reply = Answer("ControlError")
            /\ handler'[k].pc = "loop" /\ handler'[k].group = handler[k].group
        BY <1>t, <2>0, <2>4, <2>c, <3>1
           DEF HandleRegister, Write, WriteIgnored, ToLoop, ConnType, HandlerType
      <3> QED
        BY <1>f, <2>g, <3>1, <3>2, <3>3, <3>4 DEF InTouch
    <2>5. CASE HandleSubscribe(k)
      BY <2>0, <2>5 DEF HandleSubscribe, Received, InTouch
    <2>6. CASE HandleHeartbeat(k)
      <3>1. handler[k].pc = "loop" /\ q.request.type = "Heartbeat"
        BY <2>6 DEF HandleHeartbeat, Received
      <3>2. client[c].pc = "registered"
        BY <2>0, <3>1 DEF InTouch
      <3>3. sessions'[g][c] = 0
        BY <2>0, <2>6, <2>g, <3>1
           DEF HandleHeartbeat, TouchSession, Owner, TypeInv, VariablesTyped, RegistryTypeOK
      <3>4. p.request = NoFrame /\ handler'[k] = handler[k]
        BY <1>t, <2>6 DEF HandleHeartbeat, ConnType
      <3>5. 0 <= client[c].timer
        BY <1>t DEF ClientType
      <3> QED
        BY <1>f, <2>g, <3>1, <3>2, <3>3, <3>4, <3>5 DEF InTouch
    <2>7. CASE HandleStray(k)
      BY <2>0, <2>7 DEF HandleStray, Received, InTouch
    <2>8. CASE DropStep(k)
      <3>1. UNCHANGED <<conn, handler, sessions>>
        BY <2>8 DEF DropStep, DropScan, DropRemove
      <3> QED
        BY <2>0, <3>1
    <2>9. CASE SessionClosed(k)
      BY <2>0, <2>9 DEF SessionClosed, InTouch
    <2> QED
      BY <2>1, <2>2, <2>3, <2>4, <2>5, <2>6, <2>7, <2>8, <2>9 DEF Handler
  <1> QED
    BY <1>1, <1>2

(* A step that makes no connection of another client its own: it changes at *)
(* most connection k, and k is not one a client of interest talks over.     *)
LEMMA ElsewhereUndisturbed ==
    ASSUME TypeInv, TypeInv', LinkInv, Next, ~Tick, NEW c \in Clients, NEW k,
           client'[c] = client[c],
           \A j \in Conns : j # k => /\ conn'[j] = conn[j] /\ handler'[j] = handler[j]
                                     /\ sub'[j] = sub[j] \/ sub'[j] = "none",
           client[c].pc \in Talking => client[c].conn # k
    PROVE  TalkingInv(c)'
  <1>1. TalkingInv(c)
    BY DEF LinkInv
  <1>2. ASSUME client[c].pc \in Talking, client[c].conn \in Conns
        PROVE  /\ conn'[client[c].conn].owner = conn[client[c].conn].owner
               /\ conn'[client[c].conn].status # "free"
               /\ sub'[client[c].conn] = "none"
               /\ conn'[client[c].conn].status = "up" =>
                    /\ conn'[client[c].conn] = conn[client[c].conn]
                    /\ handler'[client[c].conn] = handler[client[c].conn]
    BY <1>1, <1>2 DEF TalkingInv
  <1> QED
    BY <1>1, <1>2, Undisturbed

(* The registration loop of client d keeps itself in touch. *)
LEMMA ClientKeepsTouch ==
    ASSUME TypeInv, TypeInv', LinkInv, Next, ~Tick, NEW d \in Clients,
           Client(d) \/ ConnectRefused(d) \/ Stop(d) \/ Start(d), NEW c \in Clients
    PROVE  TalkingInv(c)'
  <1> DEFINE k == client[d].conn
  <1>t. /\ conn \in [Conns -> ConnType] /\ handler \in [Conns -> HandlerType]
        /\ client \in [Clients -> ClientType]
        /\ sub \in [Conns -> {"none", "hello", "subscribe", "raw"}]
    BY DEF TypeInv, VariablesTyped
  <1>f. NoFrame.type = "none" /\ NoAnswer.type = "none" /\ Frame("Hello").type = "Hello"
        /\ Frame("Heartbeat").type = "Heartbeat"
        /\ \A s : ServiceFrame("Register", s).type = "Register"
    BY DEF NoFrame, Frame, NoAnswer, Answer, ServiceFrame
  <1>i. TalkingInv(c) /\ TalkingInv(d)
    BY DEF LinkInv
  <1>k. ASSUME client[c].pc \in Talking, client[d].pc \in Talking, c # d
        PROVE  client[c].conn # k
    BY <1>i, <1>k DEF TalkingInv
  <1>a. ASSUME NEW pc, NEW j, NEW i
        PROVE  /\ AtPc(pc, j, i).pc = pc /\ AtPc(pc, j, i).conn = j /\ AtPc(pc, j, i).timer = 0
    BY DEF AtPc
  <1>q. ASSUME client'[d].pc \notin Talking PROVE TalkingInv(d)'
    BY <1>q DEF TalkingInv
  <1>c. ASSUME client'[d].pc \in Talking, client'[d].conn = k, k \in Conns,
               conn'[k].owner = d, sub'[k] = "none", conn'[k].status # "free",
               conn'[k].status = "up" =>
                 InTouch(OwnGroup(d), client'[d], conn'[k], handler'[k], sessions'[OwnGroup(d)][d])
        PROVE  TalkingInv(d)'
    BY <1>c DEF TalkingInv, Owner, OwnGroup
  <1>1. CASE Connect(d)
    <2>1. PICK j \in Conns : /\ Connected(j, d, Frame("Hello"))
                             /\ client' = [client EXCEPT ![d] = AtPc("hello", j, 1)]
      BY <1>1 DEF Connect
    <2>2. /\ conn'[j].owner = d /\ conn'[j].status = "up" /\ conn[j].status = "free"
          /\ conn'[j].request = Frame("Hello") /\ conn'[j].reply = NoAnswer
          /\ handler'[j].pc = "hello"
          /\ \A i \in Conns : i # j => conn'[i] = conn[i] /\ handler'[i] = handler[i]
      BY <1>t, <2>1 DEF Connected
    <2>3. UNCHANGED sub
      BY <1>1 DEF Connect
    <2>4. client[c].pc \in Talking => client[c].conn # j
      BY <1>i, <2>2 DEF TalkingInv
    <2>5. CASE c # d
      <3>1. client'[c] = client[c]
        BY <1>t, <2>1, <2>5
      <3> QED
        BY <2>2, <2>3, <2>4, <3>1, ElsewhereUndisturbed
    <2>6. CASE c = d
      <3>1. client'[d] = AtPc("hello", j, 1)
        BY <1>t, <2>1
      <3>2. sub[j] = "none"
        BY <2>2 DEF LinkInv, FreeInv
      <3>3. InTouch(OwnGroup(d), client'[d], conn'[j], handler'[j], sessions'[OwnGroup(d)][d])
        BY <1>a, <1>f, <2>2, <3>1 DEF InTouch
      <3> QED
        BY <1>a, <2>2, <2>3, <2>6, <3>1, <3>2, <3>3 DEF TalkingInv, Owner, OwnGroup, Talking
    <2> QED
      BY <2>5, <2>6
  <1>2. CASE ReplyOk(d)
    <2>0. client[d].pc \in {"hello", "register"} /\ UNCHANGED <<sessions, handler, sub>>
      BY <1>2 DEF ReplyOk, registryVars
    <2>1. PICK pc, frame, i :
            /\ Exchanged(k, frame)
            /\ client' = [client EXCEPT ![d] = AtPc(pc, k, i)]
            /\ \/ pc = "register" /\ frame.type = "Register"
               \/ pc = "registered" /\ frame.type = "none"
      BY <1>2, <1>f DEF ReplyOk, RegisterNext
    <2>2. \A j \in Conns : j # k => conn'[j] = conn[j]
      BY <1>t, <2>1 DEF Exchanged
    <2>3. CASE c # d
      <3>1. client'[c] = client[c]
        BY <1>t, <2>1, <2>3
      <3>2. client[c].pc \in Talking => client[c].conn # k
        BY <1>k, <2>0, <2>3 DEF Talking
      <3> HIDE DEF k
      <3> QED
        BY <2>0, <2>2, <3>1, <3>2, ElsewhereUndisturbed
    <2>4. CASE c = d
      <3>1. client'[d] = AtPc(pc, k, i)
        BY <1>t, <2>1
      <3>2. /\ k \in Conns /\ conn[k].owner = d /\ sub[k] = "none" /\ conn[k].status # "free"
            /\ conn[k].status = "up" =>
                 InTouch(OwnGroup(d), client[d], conn[k], handler[k], sessions[OwnGroup(d)][d])
        BY <1>i, <2>0 DEF TalkingInv, Owner, Talking
      <3>3. /\ conn'[k].owner = conn[k].owner /\ conn'[k].status = conn[k].status
            /\ conn[k].status = "up" => conn'[k].request = frame
        BY <1>t, <2>1, <3>2 DEF Exchanged, ConnType
      <3>4. ASSUME conn[k].status = "up"
            PROVE  InTouch(OwnGroup(d), client'[d], conn'[k], handler'[k], sessions'[OwnGroup(d)][d])
        <4>1. handler[k].pc = "loop"
          <5>1. conn[k].reply.type # "none"
            BY <1>2 DEF ReplyOk
          <5> QED
            BY <3>2, <3>4, <5>1 DEF InTouch
        <4>2. handler[k].group = OwnGroup(d) /\ sessions[OwnGroup(d)][d] <= 0
          BY <2>0, <3>2, <3>4, <4>1 DEF InTouch
        <4>3. client'[d].pc = pc /\ client'[d].timer = 0
          BY <1>a, <3>1
        <4>4. conn'[k].request = frame
          BY <3>3, <3>4
        <4>5. handler'[k] = handler[k] /\ sessions' = sessions
          BY <2>0
        <4> HIDE DEF k
        <4> QED
          BY <2>1, <4>1, <4>2, <4>3, <4>4, <4>5 DEF InTouch
      <3>5. client'[d].pc \in Talking /\ client'[d].conn = k
        BY <1>a, <2>1, <3>1 DEF Talking
      <3> QED
        BY <1>c, <2>0, <2>4, <3>2, <3>3, <3>4, <3>5
    <2> QED
      BY <2>3, <2>4
  <1>3. CASE RegisterFails(d)
    <2>1. /\ client[d].pc \in Talking /\ UNCHANGED <<handler, sub>>
          /\ client' = [client EXCEPT ![d] = AtPc("backoff", None, 1)]
          /\ \A j \in Conns : j # k => conn'[j] = conn[j]
      BY <1>3, <1>t DEF RegisterFails, Backoff, Closed, Talking
    <2>2. CASE c # d
      <3>1. client'[c] = client[c]
        BY <1>t, <2>1, <2>2
      <3>2. client[c].pc \in Talking => client[c].conn # k
        BY <1>k, <2>1, <2>2
      <3> HIDE DEF k
      <3> QED
        BY <2>1, <3>1, <3>2, ElsewhereUndisturbed
    <2>3. client'[d].pc \notin Talking
      BY <1>a, <1>t, <2>1 DEF Talking
    <2> QED
      BY <1>q, <2>2, <2>3
  <1>4. CASE Retry(d) \/ ConnectRefused(d) \/ Start(d)
    <2>1. PICK pc \in {"connect", "backoff"} : client' = [client EXCEPT ![d] = AtPc(pc, None, 1)]
      BY <1>4 DEF Retry, ConnectRefused, Start, Backoff
    <2>2. UNCHANGED <<conn, handler, sub>>
      BY <1>4 DEF Retry, ConnectRefused, Start
    <2>3. CASE c # d
      <3>1. client'[c] = client[c]
        BY <1>t, <2>1, <2>3
      <3>2. PICK j : client[c].pc \in Talking => client[c].conn # j
        BY <1>i, ControlAssumption DEF TalkingInv
      <3> QED
        BY <2>2, <3>1, <3>2, ElsewhereUndisturbed
    <2>4. client'[d].pc \notin Talking
      BY <1>a, <1>t, <2>1 DEF Talking
    <2> QED
      BY <1>q, <2>3, <2>4
  <1>5. CASE Heartbeat(d)
    <2>0. client[d].pc = "registered" /\ client[d].timer = Interval
          /\ UNCHANGED <<sessions, handler, sub>>
      BY <1>5 DEF Heartbeat, registryVars
    <2>k. /\ k \in Conns /\ conn[k].owner = d /\ sub[k] = "none" /\ conn[k].status # "free"
          /\ conn[k].status = "up" =>
               InTouch(OwnGroup(d), client[d], conn[k], handler[k], sessions[OwnGroup(d)][d])
      BY <1>i, <2>0 DEF TalkingInv, Owner, Talking
    <2>1. /\ \A j \in Conns : j # k => conn'[j] = conn[j]
          /\ \A b \in Clients : b # d => client'[b] = client[b]
      BY <1>5, <1>t DEF Heartbeat, Closed
    <2>2. CASE c # d
      <3>1. client[c].pc \in Talking => client[c].conn # k
        BY <1>k, <2>0, <2>2 DEF Talking
      <3>2. client'[c] = client[c]
        BY <2>1, <2>2
      <3> HIDE DEF k
      <3> QED
        BY <2>0, <2>1, <3>1, <3>2, ElsewhereUndisturbed
    <2>3. CASE c = d /\ Cut(k) /\ Closed(k) /\ client' = [client EXCEPT ![d] = AtPc("connect", None, 1)]
      <3>1. client'[d].pc \notin Talking
        BY <1>a, <1>t, <2>3 DEF Talking
      <3> QED
        BY <1>q, <2>3, <3>1
    <2>4. CASE /\ c = d
               /\ conn[k].request = NoFrame
               /\ conn' = [conn EXCEPT ![k].request = IF conn[k].status = "up"
                                                      THEN Frame("Heartbeat") ELSE @]
               /\ client' = [client EXCEPT ![d].timer = 0]
      <3>1. client'[d].pc = "registered" /\ client'[d].conn = k /\ client'[d].timer = 0
        BY <1>t, <2>0, <2>4 DEF ClientType
      <3>2. /\ conn'[k].owner = d /\ conn'[k].status = conn[k].status
            /\ conn[k].status = "up" => conn'[k].request = Frame("Heartbeat")
        BY <1>t, <2>4, <2>k DEF ConnType
      <3>3. ASSUME conn[k].status = "up"
            PROVE  InTouch(OwnGroup(d), client'[d], conn'[k], handler'[k], sessions'[OwnGroup(d)][d])
        <4>1. sessions[OwnGroup(d)][d] <= Interval
          BY <1>f, <2>0, <2>4, <2>k, <3>3 DEF InTouch
        <4>2. handler[k].pc = "loop" /\ handler[k].group = OwnGroup(d)
          BY <2>0, <2>k, <3>3 DEF InTouch
        <4>3. conn'[k].request.type = "Heartbeat"
          BY <1>f, <3>2, <3>3
        <4>4. handler'[k] = handler[k] /\ sessions' = sessions
          BY <2>0
        <4>5. Interval + 0 = Interval
          BY ControlAssumption
        <4> HIDE DEF k
        <4> QED
          BY <3>1, <4>1, <4>2, <4>3, <4>4, <4>5 DEF InTouch
      <3>4. client'[d].pc \in Talking
        BY <3>1 DEF Talking
      <3> QED
        BY <1>c, <2>0, <2>4, <2>k, <3>1, <3>2, <3>3, <3>4
    <2> QED
      BY <1>5, <2>2, <2>3, <2>4 DEF Heartbeat
  <1>6. CASE Stop(d)
    <2>1. client' = [client EXCEPT ![d] = AtPc("stopped", None, 1)] /\ UNCHANGED <<handler, sessions>>
      BY <1>6 DEF Stop, registryVars
    <2>2. CASE c # d
      <3>1. client'[c] = client[c]
        BY <1>t, <2>1, <2>2
      <3>2. ASSUME client[c].pc \in Talking, client[c].conn \in Conns
            PROVE  /\ conn'[client[c].conn] = conn[client[c].conn]
                   /\ sub'[client[c].conn] = sub[client[c].conn]
        BY <1>6, <1>i, <2>2, <3>2 DEF Stop, TalkingInv
      <3>3. ASSUME client[c].pc \in Talking, client[c].conn \in Conns
            PROVE  /\ conn'[client[c].conn].owner = conn[client[c].conn].owner
                   /\ conn'[client[c].conn].status # "free"
                   /\ sub'[client[c].conn] = "none"
                   /\ conn'[client[c].conn].status = "up" =>
                        /\ conn'[client[c].conn] = conn[client[c].conn]
                        /\ handler'[client[c].conn] = handler[client[c].conn]
        BY <1>i, <2>1, <3>2, <3>3 DEF TalkingInv
      <3> QED
        BY <1>i, <3>1, <3>3, Undisturbed
    <2>3. client'[d].pc \notin Talking
      BY <1>a, <1>t, <2>1 DEF Talking
    <2> QED
      BY <1>q, <2>2, <2>3
  <1> QED
    BY <1>1, <1>2, <1>3, <1>4, <1>5, <1>6 DEF Client

(* subscribe() and raw peers use connections of their own, and the network  *)
(* and the server's restarts only cut connections.                          *)
LEMMA OthersKeepTouch ==
    ASSUME TypeInv, TypeInv', LinkInv, Next, ~Tick, NEW c \in Clients,
           \/ Sweep \/ Restart
           \/ \E d \in Clients : SubscribeConnect(d)
           \/ \E k \in Conns : \/ Subscriber(k) \/ RawSend(k) \/ RawClose(k)
                               \/ Lose(k) \/ Recycle(k)
    PROVE  TalkingInv(c)'
  <1>t. /\ conn \in [Conns -> ConnType] /\ handler \in [Conns -> HandlerType]
        /\ client \in [Clients -> ClientType]
        /\ sub \in [Conns -> {"none", "hello", "subscribe", "raw"}]
    BY DEF TypeInv, VariablesTyped
  <1>i. TalkingInv(c)
    BY DEF LinkInv
  <1>0. client' = client
    BY DEF Sweep, SweepStart, SweepGroup, SweepDrop, DropStep, SweepDropped, SweepEnd, Restart,
           SubscribeConnect, Subscriber, SubscribeHelloOk, SubscribeReturns, RawSend, RawClose,
           Lose, Recycle
  <1>s. ASSUME NEW k \in Conns,
               \A j \in Conns : j # k => /\ conn'[j] = conn[j] /\ handler'[j] = handler[j]
                                         /\ sub'[j] = sub[j] \/ sub'[j] = "none",
               client[c].pc \in Talking => client[c].conn # k
        PROVE  TalkingInv(c)'
    BY <1>0, <1>s, ElsewhereUndisturbed
  <1>n. ASSUME NEW k \in Conns, client[c].pc \in Talking,
               conn[k].status = "free" \/ sub[k] # "none"
        PROVE  client[c].conn # k
    BY <1>i, <1>n DEF TalkingInv
  <1>1. CASE Sweep
    <2>1. UNCHANGED <<conn, handler, sub>>
      BY <1>1 DEF Sweep, SweepStart, SweepGroup, SweepDrop, DropStep, SweepDropped, SweepEnd
    <2>2. ASSUME client[c].pc \in Talking, client[c].conn \in Conns
          PROVE  /\ conn'[client[c].conn].owner = conn[client[c].conn].owner
                 /\ conn'[client[c].conn].status # "free"
                 /\ sub'[client[c].conn] = "none"
                 /\ conn'[client[c].conn].status = "up" =>
                      /\ conn'[client[c].conn] = conn[client[c].conn]
                      /\ handler'[client[c].conn] = handler[client[c].conn]
      BY <1>i, <2>1, <2>2 DEF TalkingInv
    <2>3. client'[c] = client[c]
      BY <1>0
    <2> QED
      BY <1>i, <2>2, <2>3, Undisturbed
  <1>2. CASE Restart
    <2>1. ASSUME NEW j \in Conns
          PROVE  /\ conn'[j].owner = conn[j].owner /\ conn'[j].status # "up" /\ sub'[j] = sub[j]
                 /\ conn'[j].status = "free" => conn[j].status = "free"
      BY <1>2, <1>t DEF Restart, ConnType
    <2>2. ASSUME client[c].pc \in Talking, client[c].conn \in Conns
          PROVE  /\ conn'[client[c].conn].owner = conn[client[c].conn].owner
                 /\ conn'[client[c].conn].status # "free"
                 /\ sub'[client[c].conn] = "none"
                 /\ conn'[client[c].conn].status = "up" =>
                      /\ conn'[client[c].conn] = conn[client[c].conn]
                      /\ handler'[client[c].conn] = handler[client[c].conn]
      BY <1>i, <2>1, <2>2 DEF TalkingInv
    <2>3. client'[c] = client[c]
      BY <1>0
    <2> QED
      BY <1>i, <2>2, <2>3, Undisturbed
  <1>3. ASSUME NEW d \in Clients, SubscribeConnect(d) PROVE TalkingInv(c)'
    <2>1. PICK k \in Conns : Connected(k, d, Frame("Hello")) /\ sub' = [sub EXCEPT ![k] = "hello"]
      BY <1>3 DEF SubscribeConnect
    <2>2. /\ \A j \in Conns : j # k => conn'[j] = conn[j] /\ handler'[j] = handler[j] /\ sub'[j] = sub[j]
          /\ conn[k].status = "free"
      BY <1>t, <2>1 DEF Connected
    <2> QED
      BY <1>n, <1>s, <2>2
  <1>4. ASSUME NEW k \in Conns, Subscriber(k) \/ RawClose(k) PROVE TalkingInv(c)'
    <2>1. /\ sub[k] # "none"
          /\ \A j \in Conns : j # k => conn'[j] = conn[j] /\ handler'[j] = handler[j] /\ sub'[j] = sub[j]
      BY <1>4, <1>t DEF Subscriber, SubscribeHelloOk, SubscribeReturns, RawClose, Exchanged, Closed
    <2> QED
      BY <1>n, <1>s, <2>1
  <1>5. ASSUME NEW k \in Conns, RawSend(k) PROVE TalkingInv(c)'
    <2>1. PICK frame \in Frames :
            \/ /\ \E d \in RawClients : Connected(k, d, frame)
               /\ sub' = [sub EXCEPT ![k] = "raw"]
            \/ sub[k] = "raw" /\ Exchanged(k, frame) /\ UNCHANGED <<handler, sub>>
      BY <1>5 DEF RawSend
    <2>2. /\ conn[k].status = "free" \/ sub[k] # "none"
          /\ \A j \in Conns : j # k => conn'[j] = conn[j] /\ handler'[j] = handler[j] /\ sub'[j] = sub[j]
      BY <1>t, <2>1 DEF Connected, Exchanged
    <2> QED
      BY <1>n, <1>s, <2>2
  <1>6. ASSUME NEW k \in Conns, Lose(k) PROVE TalkingInv(c)'
    <2>1. ASSUME NEW j \in Conns
          PROVE  /\ conn'[j].owner = conn[j].owner /\ sub'[j] = sub[j] /\ handler'[j] = handler[j]
                 /\ conn'[j] = conn[j] \/ conn'[j].status = "lost"
      BY <1>6, <1>t DEF Lose, ConnType
    <2>2. ASSUME client[c].pc \in Talking, client[c].conn \in Conns
          PROVE  /\ conn'[client[c].conn].owner = conn[client[c].conn].owner
                 /\ conn'[client[c].conn].status # "free"
                 /\ sub'[client[c].conn] = "none"
                 /\ conn'[client[c].conn].status = "up" =>
                      /\ conn'[client[c].conn] = conn[client[c].conn]
                      /\ handler'[client[c].conn] = handler[client[c].conn]
      BY <1>i, <2>1, <2>2 DEF TalkingInv
    <2>3. client'[c] = client[c]
      BY <1>0
    <2> QED
      BY <1>i, <2>2, <2>3, Undisturbed
  <1>7. ASSUME NEW k \in Conns, Recycle(k) PROVE TalkingInv(c)'
    <2>1. /\ client[c].conn # k /\ UNCHANGED sub
          /\ \A j \in Conns : j # k => conn'[j] = conn[j] /\ handler'[j] = handler[j]
      BY <1>7, <1>t DEF Recycle
    <2> QED
      BY <1>s, <2>1
  <1> QED
    BY <1>1, <1>2, <1>3, <1>4, <1>5, <1>6, <1>7

(* Time passes only between two exchanges, for the timer and the session    *)
(* alike.                                                                   *)
LEMMA TickKeepsTouch ==
    ASSUME TypeInv, LinkInv, Tick, NEW c \in Clients
    PROVE  TalkingInv(c)'
  <1> DEFINE k == client[c].conn
             g == OwnGroup(c)
  <1>t. /\ conn \in [Conns -> ConnType] /\ handler \in [Conns -> HandlerType]
        /\ client \in [Clients -> ClientType]
    BY DEF TypeInv, VariablesTyped
  <1>i. TalkingInv(c)
    BY DEF LinkInv
  <1>c. /\ client'[c].pc = client[c].pc /\ client'[c].conn = k
        /\ client[c].pc = "registered" => client'[c].timer = client[c].timer + 1
    BY <1>t DEF Tick, ClientType
  <1> SUFFICES ASSUME client[c].pc \in Talking PROVE TalkingInv(c)'
    BY <1>c DEF TalkingInv
  <1>k. /\ k \in Conns /\ conn[k].owner = c /\ sub[k] = "none" /\ conn[k].status # "free"
        /\ conn[k].status = "up" =>
             InTouch(g, client[c], conn[k], handler[k], sessions[g][c])
    BY <1>i DEF TalkingInv, Owner
  <1>1. /\ conn'[k].owner = c /\ conn'[k].status # "free" /\ sub'[k] = "none"
        /\ conn'[k].status = "up" => conn[k].status = "up" /\ conn'[k] = conn[k]
    BY <1>k, <1>t DEF Tick, Cut, ConnType
  <1>2. ASSUME conn[k].status = "up"
        PROVE  InTouch(g, client'[c], conn[k], handler[k], sessions'[g][c])
    <2>1. /\ conn[k].request = NoFrame \/ HeartbeatUnderWay(k)
          /\ conn[k].reply = NoAnswer
      BY <1>2, <1>k DEF Tick, Quiet
    <2>2. conn[k].reply.type = "none"
      BY <2>1 DEF NoAnswer, Answer
    <2>3. /\ conn[k].request.type = "none" \/ conn[k].request.type = "Heartbeat"
          /\ conn[k].request.type = "Heartbeat" => HeartbeatUnderWay(k)
      BY <2>1 DEF NoFrame, Frame, HeartbeatUnderWay
    <2>4. client[c].pc = "registered" /\ handler[k].pc = "loop" /\ handler[k].group = g
      BY <1>2, <1>k, <2>2, <2>3 DEF InTouch, Talking
    <2>5. g \in Groups
      BY <1>k, <2>4 DEF TypeInv, HandlerInv
    <2>6. sessions'[g][c] = IF sessions[g][c] \in 0 .. Timeout
                            THEN sessions[g][c] + 1 ELSE sessions[g][c]
      BY <2>5 DEF Tick, AgeSessions
    <2>7. sessions[g][c] \in Int /\ client[c].timer \in Int
      BY <1>t, <2>5, AgeIsNumber DEF TypeInv, VariablesTyped, ClientType
    <2>8. CASE conn[k].request.type = "none"
      <3>1. sessions[g][c] <= client[c].timer
        BY <1>2, <1>k, <2>4, <2>8 DEF InTouch
      <3>2. sessions'[g][c] <= client[c].timer + 1
        BY <2>6, <2>7, <3>1
      <3> QED
        BY <1>c, <2>4, <2>8, <3>2 DEF InTouch
    <2>9. CASE conn[k].request.type = "Heartbeat"
      <3>1. client[c].timer = 0
        <4>1. PICK d \in Clients : /\ client[d].pc = "registered" /\ client[d].conn = k
                                   /\ client[d].timer = 0
          BY <2>3, <2>9 DEF HeartbeatUnderWay
        <4>2. conn[k].owner = d
          BY <4>1 DEF LinkInv, TalkingInv, Talking, Owner
        <4> QED
          BY <1>k, <4>1, <4>2
      <3>2. sessions[g][c] <= Interval + client[c].timer
        BY <1>2, <1>k, <2>4, <2>9 DEF InTouch
      <3>3. client'[c].timer = 1 /\ sessions'[g][c] <= Interval + 1
        BY <1>c, <2>4, <2>6, <2>7, <3>1, <3>2, ControlAssumption
      <3> QED
        BY <1>c, <2>4, <2>9, <3>3 DEF InTouch
    <2> QED
      BY <2>3, <2>8, <2>9
  <1>3. UNCHANGED handler
    BY DEF Tick
  <1> QED
    BY <1>1, <1>2, <1>3, <1>c, <1>k DEF TalkingInv, Owner, OwnGroup

(* A connection becomes free only when its user is done. *)
LEMMA FreeStep ==
    ASSUME TypeInv, LinkInv, Next
    PROVE  FreeInv'
  <1>t. /\ conn \in [Conns -> ConnType] /\ handler \in [Conns -> HandlerType]
        /\ sub \in [Conns -> {"none", "hello", "subscribe", "raw"}]
    BY DEF TypeInv, VariablesTyped
  <1> SUFFICES ASSUME NEW j \in Conns, conn'[j].status = "free" PROVE sub'[j] = "none"
    BY DEF FreeInv
  <1>0. ASSUME sub'[j] = sub[j] \/ sub'[j] = "none", conn[j].status = "free" PROVE sub'[j] = "none"
    BY <1>0 DEF LinkInv, FreeInv
  <1>1. ASSUME NEW k \in Conns, Handler(k) PROVE sub'[j] = "none"
    <2>1. UNCHANGED sub
      BY <1>1 DEF Handler, HelloAccepted, HelloRejected, HelloLost, HandleRegister,
                  HandleSubscribe, HandleHeartbeat, HandleStray, LoopEnds, DropStep, SessionClosed
    <2>2. ASSUME NEW ans, NEW h, Write(k, ans, h) PROVE conn[j].status = "free"
      BY <1>t, <2>2 DEF Write, ConnType
    <2>3. CASE HelloAccepted(k) \/ HandleSubscribe(k)
      BY <1>0, <2>1, <2>2, <2>3 DEF HelloAccepted, HandleSubscribe
    <2>4. CASE HandleRegister(k)
      <3>1. conn[j].status = "free"
        BY <1>t, <2>2, <2>4 DEF HandleRegister, WriteIgnored, ConnType
      <3> QED
        BY <1>0, <2>1, <3>1
    <2>5. CASE \/ HelloRejected(k) \/ HelloLost(k) \/ HandleHeartbeat(k) \/ HandleStray(k)
               \/ LoopEnds(k) \/ DropStep(k) \/ SessionClosed(k)
      <3>1. conn[j].status = "free"
        BY <1>t, <2>5 DEF HelloRejected, HelloLost, HandleHeartbeat, HandleStray, LoopEnds,
                          DropStep, SessionClosed, WriteIgnored, ConnType
      <3> QED
        BY <1>0, <2>1, <3>1
    <2> QED
      BY <1>1, <2>3, <2>4, <2>5 DEF Handler
  <1>2. CASE Sweep
    <2>1. conn' = conn /\ sub' = sub
      BY <1>2 DEF Sweep, SweepStart, SweepGroup, SweepDrop, DropStep, SweepDropped, SweepEnd
    <2> QED
      BY <1>0, <2>1
  <1>3. ASSUME NEW c \in Clients, Client(c) \/ ConnectRefused(c) \/ Stop(c) \/ Start(c)
        PROVE  sub'[j] = "none"
    <2>1. CASE Connect(c)
      <3>1. conn[j].status = "free" /\ sub' = sub
        BY <1>t, <2>1 DEF Connect, Connected
      <3> QED
        BY <1>0, <3>1
    <2>2. CASE ReplyOk(c) \/ RegisterFails(c) \/ Heartbeat(c)
      <3>1. conn[j].status = "free" /\ sub' = sub
        BY <1>t, <2>2 DEF ReplyOk, RegisterNext, RegisterFails, Heartbeat, Exchanged, Closed, ConnType
      <3> QED
        BY <1>0, <3>1
    <2>3. CASE Retry(c) \/ ConnectRefused(c) \/ Start(c)
      BY <1>0, <2>3 DEF Retry, ConnectRefused, Start
    <2>4. CASE Stop(c)
      <3>1. conn[j].status = "free" /\ (sub'[j] = sub[j] \/ sub'[j] = "none")
        BY <1>t, <2>4 DEF Stop, ConnType
      <3> QED
        BY <1>0, <3>1
    <2> QED
      BY <1>3, <2>1, <2>2, <2>3, <2>4 DEF Client
  <1>4. ASSUME NEW c \in Clients, SubscribeConnect(c) PROVE sub'[j] = "none"
    <2>1. conn[j].status = "free" /\ sub'[j] = sub[j]
      BY <1>4, <1>t DEF SubscribeConnect, Connected
    <2> QED
      BY <1>0, <2>1
  <1>5. ASSUME NEW k \in Conns, Subscriber(k) \/ RawSend(k) \/ RawClose(k) PROVE sub'[j] = "none"
    <2>1. CASE RawSend(k)
      <3>1. PICK frame \in Frames :
              \/ /\ \E d \in RawClients : Connected(k, d, frame)
                 /\ sub' = [sub EXCEPT ![k] = "raw"]
              \/ sub[k] = "raw" /\ Exchanged(k, frame) /\ UNCHANGED <<handler, sub>>
        BY <2>1 DEF RawSend
      <3>2. conn[j].status = "free" /\ sub'[j] = sub[j]
        BY <1>t, <3>1 DEF Connected, Exchanged, ConnType
      <3> QED
        BY <1>0, <3>2
    <2>2. CASE SubscribeHelloOk(k)
      <3>1. conn[j].status = "free" /\ sub[k] = "hello"
        BY <1>t, <2>2 DEF SubscribeHelloOk, Exchanged, ConnType
      <3>2. j # k
        BY <3>1 DEF LinkInv, FreeInv
      <3>3. sub'[j] = sub[j]
        BY <1>t, <2>2, <3>2 DEF SubscribeHelloOk
      <3> QED
        BY <1>0, <3>1, <3>3
    <2>3. CASE SubscribeReturns(k) \/ RawClose(k)
      <3>1. conn[j].status = "free" /\ (sub'[j] = sub[j] \/ sub'[j] = "none")
        BY <1>t, <2>3 DEF SubscribeReturns, RawClose, Closed, ConnType
      <3> QED
        BY <1>0, <3>1
    <2> QED
      BY <1>5, <2>1, <2>2, <2>3 DEF Subscriber
  <1>6. ASSUME NEW k \in Conns, Lose(k) \/ Recycle(k) PROVE sub'[j] = "none"
    <2>1. CASE Lose(k)
      <3>1. conn[j].status = "free" /\ sub' = sub
        BY <1>t, <2>1 DEF Lose, ConnType
      <3> QED
        BY <1>0, <3>1
    <2>2. CASE Recycle(k)
      <3>1. j = k \/ conn[j].status = "free"
        BY <1>t, <2>2 DEF Recycle
      <3> QED
        BY <1>0, <2>2, <3>1 DEF Recycle
    <2> QED
      BY <1>6, <2>1, <2>2
  <1>7. CASE Tick \/ Restart
    <2>1. sub' = sub
      BY <1>7 DEF Tick, Restart
    <2>2. CASE Tick
      BY <1>0, <1>t, <2>1, <2>2 DEF Tick, Cut, ConnType
    <2>3. CASE Restart
      BY <1>0, <1>t, <2>1, <2>3 DEF Restart, ConnType
    <2> QED
      BY <1>7, <2>2, <2>3
  <1> QED
    BY <1>1, <1>2, <1>3, <1>4, <1>5, <1>6, <1>7 DEF Next

LEMMA LinkStep ==
    ASSUME TypeInv, TypeInv', LinkInv, Next
    PROVE  LinkInv'
  <1>1. ASSUME NEW c \in Clients PROVE TalkingInv(c)'
    <2>1. CASE Tick
      BY <2>1, TickKeepsTouch
    <2>2. CASE ~Tick
      <3>1. ASSUME NEW k \in Conns, Handler(k) PROVE TalkingInv(c)'
        BY <2>2, <3>1, HandlerKeepsTouch
      <3>2. ASSUME NEW d \in Clients, Client(d) \/ ConnectRefused(d) \/ Stop(d) \/ Start(d)
            PROVE  TalkingInv(c)'
        BY <2>2, <3>2, ClientKeepsTouch
      <3>3. ASSUME \/ Sweep \/ Restart
                   \/ \E d \in Clients : SubscribeConnect(d)
                   \/ \E k \in Conns : \/ Subscriber(k) \/ RawSend(k) \/ RawClose(k)
                                       \/ Lose(k) \/ Recycle(k)
            PROVE  TalkingInv(c)'
        BY <2>2, <3>3, OthersKeepTouch
      <3> QED
        BY <2>2, <3>1, <3>2, <3>3 DEF Next
    <2> QED
      BY <2>1, <2>2
  <1> QED
    BY <1>1, FreeStep DEF LinkInv

-----------------------------------------------------------------------------
(***************************************************************************)
(* The theorems.                                                           *)
(***************************************************************************)
LEMMA TypeInvariant == Spec => [](TypeInv /\ SubscriberInv)
  <1>1. Init => TypeInv /\ SubscriberInv
    BY TypeInit DEF Init, SubscriberInv
  <1>2. TypeInv /\ SubscriberInv /\ [Next]_vars => (TypeInv /\ SubscriberInv)'
    <2> SUFFICES ASSUME TypeInv, SubscriberInv, [Next]_vars
                 PROVE  TypeInv' /\ SubscriberInv'
      OBVIOUS
    <2>1. CASE Next
      <3>1. TypeInv'
        BY <2>1, HandlerStepTyped, SweepTyped, ClientTyped, SubscribeTyped, EnvironmentTyped
           DEF Next
      <3> QED
        BY <2>1, <3>1, SubscriberInvStep
    <2>2. CASE UNCHANGED vars
      <3>1. VariablesTyped'
        BY <2>2 DEF TypeInv, VariablesTyped, RegistryTypeOK, vars
      <3>2. HandlerInv' /\ SubscriberInv'
        BY <2>2 DEF TypeInv, HandlerInv, SubscriberInv, Owner, MemberOf, vars
      <3> QED
        BY <3>1, <3>2 DEF TypeInv
    <2> QED
      BY <2>1, <2>2
  <1> QED
    BY <1>1, <1>2, PTL DEF Spec

(* Only a Register enters a name into the directory, and only one that fits. *)
LEMMA NamesFitStep ==
    ASSUME TypeInv, NamesFit, Next
    PROVE  NamesFit'
  <1> SUFFICES ASSUME NEW g \in Groups, NEW s \in LongNames
               PROVE  services'[g][s] = None
    BY DEF NamesFit
  <1>t. services \in [Groups -> [Services -> Clients \cup {None}]] /\ services[g][s] = None
    BY DEF TypeInv, VariablesTyped, RegistryTypeOK, NamesFit
  <1>s. s \in Services
    BY RegistryAssumption
  <1>1. ASSUME NEW k \in Conns, HandleRegister(k) PROVE services'[g][s] = None
    BY <1>1, <1>s, <1>t DEF HandleRegister, RegisterService, NameFits
  <1>2. ASSUME NEW k \in Conns, \/ HelloAccepted(k) \/ HandleSubscribe(k)
                               \/ HandleHeartbeat(k) \/ LoopEnds(k)
        PROVE  services'[g][s] = None
    BY <1>2, <1>t DEF HelloAccepted, HandleSubscribe, HandleHeartbeat, LoopEnds, registryVars
  <1>3. ASSUME NEW a \in Actors, DropScan(a) \/ DropRemove(a) \/ EndDrop(a)
        PROVE  services'[g][s] = None
    <2>1. CASE DropScan(a) \/ EndDrop(a)
      BY <1>t, <2>1 DEF DropScan, EndDrop
    <2>2. CASE DropRemove(a)
      <3>1. PICK x \in drop[a].to_remove : services' = [services EXCEPT ![drop[a].group][x] = None]
        BY <2>2 DEF DropRemove
      <3> QED
        BY <1>s, <1>t, <3>1
    <2> QED
      BY <1>3, <2>1, <2>2
  <1>4. ASSUME SweepDrop \/ Tick PROVE services'[g][s] = None
    BY <1>4, <1>t DEF SweepDrop, Tick
  <1>5. ASSUME Restart PROVE services'[g][s] = None
    BY <1>5, <1>s DEF Restart, RegistryReset
  <1>6. ASSUME UNCHANGED registryVars PROVE services'[g][s] = None
    BY <1>6, <1>t DEF registryVars
  <1> QED
    BY <1>1, <1>2, <1>3, <1>4, <1>5, <1>6, NextKeeps DEF RegistryStep

(* Every variable keeps its type in every reachable state and no name that  *)
(* register_service refuses is ever in the directory, whatever frames peers *)
(* send (registry.rs:222-237).                                              *)
THEOREM TypeCorrect == Spec => []TypeOK
  <1>1. Init => NamesFit
    BY RegistryAssumption DEF Init, RegistryInit, NamesFit
  <1>2. TypeInv /\ NamesFit /\ [Next]_vars => NamesFit'
    <2>1. NamesFit /\ UNCHANGED vars => NamesFit'
      BY DEF NamesFit, vars
    <2> QED
      BY <2>1, NamesFitStep
  <1>3. TypeInv /\ NamesFit => TypeOK
    BY DEF TypeInv, TypeOK
  <1> QED
    BY <1>1, <1>2, <1>3, TypeInvariant, PTL DEF Spec

(* No session of a client survives the run_sessions of its connections,     *)
(* except after an error return (control.rs:62-173).                        *)
THEOREM SessionsAreBacked == Spec => []SessionBacked
  <1>1. Init => SessionBacked
    BY DEF Init, RegistryInit, SessionBacked
  <1>2. TypeInv /\ SessionBacked /\ [Next]_vars => SessionBacked'
    <2> SUFFICES ASSUME TypeInv, SessionBacked, [Next]_vars PROVE SessionBacked'
      OBVIOUS
    <2>1. CASE UNCHANGED vars
      BY <2>1 DEF SessionBacked, Serves, Owner, Absent, vars
    <2> QED
      BY <2>1, SessionBackedStep
  <1> QED
    BY <1>1, <1>2, TypeInvariant, PTL DEF Spec

(* No record of a provider survives the run_sessions of its connections,    *)
(* except after an error return or while drop_session is still to reach it, *)
(* however handlers, sweeper and registrations interleave.                  *)
THEOREM RegistrationsAreBacked == Spec => []RegistrationBacked
  <1>1. Init => RegistrationBacked
    BY DEF Init, RegistryInit, RegistrationBacked
  <1>2. TypeInv /\ RegistrationBacked /\ [Next]_vars => RegistrationBacked'
    <2> SUFFICES ASSUME TypeInv, RegistrationBacked, [Next]_vars PROVE RegistrationBacked'
      OBVIOUS
    <2>1. CASE UNCHANGED vars
      BY <2>1 DEF RegistrationBacked, Serves, WillDrop, Owner, vars
    <2> QED
      BY <2>1, RegistrationBackedStep
  <1> QED
    BY <1>1, <1>2, TypeInvariant, PTL DEF Spec

(* Groups are isolated: no session, record or SubscribeOk crosses from one  *)
(* token to another, whatever frames the peers send (authenticate,          *)
(* handle_register, handle_subscribe).                                      *)
THEOREM GroupsAreIsolated == Spec => []GroupIsolation
  <1>1. Init => GroupIsolation
    BY DEF Init, RegistryInit, GroupIsolation, FreeConn, NoAnswer, Answer
  <1>2. TypeInv /\ GroupIsolation /\ [Next]_vars => GroupIsolation'
    <2> SUFFICES ASSUME TypeInv, GroupIsolation, [Next]_vars PROVE GroupIsolation'
      OBVIOUS
    <2>1. CASE UNCHANGED vars
      BY <2>1 DEF GroupIsolation, MemberOf, Owner, Absent, vars
    <2>2. CASE Next
      BY <2>2, SessionIsolationStep, ServiceIsolationStep, ReplyIsolationStep
         DEF GroupIsolation, MemberOf, Owner, Absent
    <2> QED
      BY <2>1, <2>2
  <1> QED
    BY <1>1, <1>2, TypeInvariant, PTL DEF Spec

(* Every client that talks to the server stays in touch with it. *)
LEMMA LinkInvariant == Spec => []LinkInv
  <1>1. Init => LinkInv
    <2> SUFFICES ASSUME Init PROVE LinkInv
      OBVIOUS
    <2>1. FreeInv
      BY DEF Init, FreeInv
    <2>2. ASSUME NEW c \in Clients PROVE TalkingInv(c)
      BY DEF Init, TalkingInv, Talking, AtPc
    <2> QED
      BY <2>1, <2>2 DEF LinkInv
  <1>2. TypeInv /\ TypeInv' /\ LinkInv /\ [Next]_vars => LinkInv'
    <2> SUFFICES ASSUME TypeInv, TypeInv', LinkInv, [Next]_vars PROVE LinkInv'
      OBVIOUS
    <2>1. CASE UNCHANGED vars
      BY <2>1 DEF LinkInv, FreeInv, TalkingInv, Owner, OwnGroup, vars
    <2> QED
      BY <2>1, LinkStep
  <1> QED
    BY <1>1, <1>2, TypeInvariant, PTL DEF Spec

(* "strictly less than the server's heartbeat.timeout_secs ... so the       *)
(* session never times out" (client/src/main.rs:28-31): when the heartbeat  *)
(* interval is less than the timeout by the unit that a heartbeat may be on *)
(* its way, the session of a client that is registered over a live          *)
(* connection is never old enough for the sweeper, for any number of        *)
(* clients, groups and connections, and whatever faults happened before.    *)
THEOREM SessionsStayFresh ==
    ASSUME Interval < Timeout
    PROVE  Spec => []SessionNeverExpires
  <1>1. TypeInv /\ LinkInv => SessionNeverExpires
    <2> SUFFICES ASSUME TypeInv, LinkInv, NEW c \in Clients, client[c].pc = "registered",
                        conn[client[c].conn].status = "up"
                 PROVE  sessions[OwnGroup(c)][c] <= Timeout
      BY DEF SessionNeverExpires, OwnGroup
    <2> DEFINE k == client[c].conn
    <2>1. /\ k \in Conns
          /\ InTouch(OwnGroup(c), client[c], conn[k], handler[k], sessions[OwnGroup(c)][c])
      BY DEF LinkInv, TalkingInv, Talking
    <2>2. handler[k].pc = "loop" /\ handler[k].group = OwnGroup(c)
      BY <2>1 DEF InTouch
    <2>3. sessions[OwnGroup(c)][c] \in Int
      BY <2>1, <2>2, AgeIsNumber DEF TypeInv, VariablesTyped, HandlerInv
    <2>4. client[c].timer \in 0 .. Interval
      BY DEF TypeInv, VariablesTyped, ClientType
    <2>5. sessions[OwnGroup(c)][c] <= Interval + 1
      <3>1. \/ sessions[OwnGroup(c)][c] <= client[c].timer
            \/ client[c].timer <= 1 /\ sessions[OwnGroup(c)][c] <= Interval + client[c].timer
        BY <2>1 DEF InTouch
      <3> HIDE DEF k
      <3> QED
        BY <2>3, <2>4, <3>1, ControlAssumption
    <2> QED
      BY <2>3, <2>5, ControlAssumption, RegistryAssumption
  <1> QED
    BY <1>1, LinkInvariant, TypeInvariant, PTL
=============================================================================
