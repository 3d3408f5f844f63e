------------------------------- MODULE Tunnel -------------------------------
(***************************************************************************)
(* The data plane of one tunnel: a local application, the hops that copy   *)
(* bytes both ways, and the backend.  On the direct path the hops are two  *)
(* calls of bridge (common/src/tunnel.rs), one in the consumer and one in  *)
(* the provider; on the relay path copy_bidirectional of the server        *)
(* (server/src/relay.rs) stands between them.                              *)
(*                                                                         *)
(* Hop h reads requests from link h - 1 and writes them to link h, and     *)
(* replies the other way.  Link 0 is the application's TCP connection, the *)
(* last one the backend's, those between are QUIC streams; each direction  *)
(* of a link holds what was written and not yet read, and whether the      *)
(* writer has finished.  Bytes are numbered in the order they were sent.   *)
(***************************************************************************)
EXTENDS Integers, Sequences

CONSTANTS
    Chains,         \* chains of hops, each a "bridge" or a "relay"
    MaxBytes,       \* MaxBytes[d]: bytes sent at most in direction d
    Capacity        \* bytes a direction of a link can hold

ASSUME TunnelAssumption ==
    /\ Chains \subseteq Seq({"bridge", "relay"}) \ {<<>>}
    /\ MaxBytes \in [{"request", "reply"} -> Nat]
    /\ Capacity \in Nat \ {0}

VARIABLES
    hops,           \* the chain of this tunnel
    pipe,           \* pipe[d][i]: bytes on link i in direction d
    fin,            \* fin[d][i]: the writer of that direction has shut it down
    lost,           \* links whose connection is gone
    hop,            \* hop[h][d]: "copy", "eof", "error"; hop[h].end
    sent,           \* sent[d]: bytes the end has written
    got             \* got[d]: the bytes the other end has read, and end of file

vars == <<hops, pipe, fin, lost, hop, sent, got>>

Dirs == {"request", "reply"}
HopIds == 1 .. Len(hops)
Links == 0 .. Len(hops)

(* The link a hop reads from, and the one it writes to. *)
In(h, d) == IF d = "request" THEN h - 1 ELSE h
Out(h, d) == IF d = "request" THEN h ELSE h - 1

FirstLink(d) == IF d = "request" THEN 0 ELSE Len(hops)
LastLink(d) == IF d = "request" THEN Len(hops) ELSE 0
Opposite(d) == IF d = "request" THEN "reply" ELSE "request"

(* Every variable has its type, and no link holds more than its capacity.   *)
TypeOK ==
    /\ hops \in Chains
    /\ \A d \in Dirs, i \in Links : pipe[d][i] \in Seq(1 .. MaxBytes[d]) /\ Len(pipe[d][i]) <= Capacity
    /\ fin \in [Dirs -> [Links -> BOOLEAN]]
    /\ lost \subseteq Links
    /\ hop \in [HopIds -> [request : {"copy", "eof", "error"},
                           reply : {"copy", "eof", "error"},
                           open : BOOLEAN]]
    /\ \A d \in Dirs : sent[d] \in 0 .. MaxBytes[d]
    /\ \A d \in Dirs : got[d].bytes \in Seq(1 .. MaxBytes[d]) /\ got[d].eof \in BOOLEAN

Init ==
    /\ hops \in Chains
    /\ pipe = [d \in Dirs |-> [i \in Links |-> <<>>]]
    /\ fin = [d \in Dirs |-> [i \in Links |-> FALSE]]
    /\ lost = {}
    /\ hop = [h \in HopIds |-> [request |-> "copy", reply |-> "copy", open |-> TRUE]]
    /\ sent = [d \in Dirs |-> 0]
    /\ got = [d \in Dirs |-> [bytes |-> <<>>, eof |-> FALSE]]

-----------------------------------------------------------------------------
(* The application ("request") and the backend ("reply") as senders. *)
Send(d) ==
    LET i == FirstLink(d) IN
    /\ i \notin lost /\ ~fin[d][i]
    /\ sent[d] < MaxBytes[d]
    /\ Len(pipe[d][i]) < Capacity
    /\ sent' = [sent EXCEPT ![d] = @ + 1]
    /\ pipe' = [pipe EXCEPT ![d][i] = Append(@, sent[d] + 1)]
    /\ UNCHANGED <<hops, fin, lost, hop, got>>

CloseWrite(d) ==
    LET i == FirstLink(d) IN
    /\ i \notin lost /\ ~fin[d][i]
    /\ fin' = [fin EXCEPT ![d][i] = TRUE]
    /\ UNCHANGED <<hops, pipe, lost, hop, sent, got>>

(* ... and as receivers. *)
Receive(d) ==
    LET i == LastLink(d) IN
    /\ i \notin lost
    /\ \/ /\ pipe[d][i] # <<>>
          /\ got' = [got EXCEPT ![d].bytes = Append(@, Head(pipe[d][i]))]
          /\ pipe' = [pipe EXCEPT ![d][i] = Tail(@)]
       \/ /\ pipe[d][i] = <<>> /\ fin[d][i] /\ ~got[d].eof
          /\ got' = [got EXCEPT ![d].eof = TRUE]
          /\ UNCHANGED pipe
    /\ UNCHANGED <<hops, fin, lost, hop, sent>>

-----------------------------------------------------------------------------
(* A direction of a hop is copied while the hop is open. *)
Copying(h, d) == hop[h].open /\ hop[h][d] = "copy"

MoveReordered(h, d) ==   \* mutant: bytes overtake those already written
    /\ Copying(h, d)
    /\ {In(h, d), Out(h, d)} \cap lost = {}
    /\ pipe[d][In(h, d)] # <<>>
    /\ Len(pipe[d][Out(h, d)]) < Capacity
    /\ pipe' = [pipe EXCEPT ![d][In(h, d)] = Tail(@),
                            ![d][Out(h, d)] = <<Head(pipe[d][In(h, d)])>> \o @]
    /\ UNCHANGED <<hops, fin, lost, hop, sent, got>>

MoveUnbounded(h, d) ==   \* mutant: flow control ignored
    /\ Copying(h, d)
    /\ {In(h, d), Out(h, d)} \cap lost = {}
    /\ pipe[d][In(h, d)] # <<>>
    /\ pipe' = [pipe EXCEPT ![d][In(h, d)] = Tail(@),
                            ![d][Out(h, d)] = Append(@, Head(pipe[d][In(h, d)]))]
    /\ UNCHANGED <<hops, fin, lost, hop, sent, got>>

Move(h, d) ==
    /\ Copying(h, d)
    /\ {In(h, d), Out(h, d)} \cap lost = {}
    /\ pipe[d][In(h, d)] # <<>>
    /\ Len(pipe[d][Out(h, d)]) < Capacity
    /\ pipe' = [pipe EXCEPT ![d][In(h, d)] = Tail(@),
                            ![d][Out(h, d)] = Append(@, Head(pipe[d][In(h, d)]))]
    /\ UNCHANGED <<hops, fin, lost, hop, sent, got>>

(* The reader is at end of file. *)
AtEofUndrained(h, d) == fin[d][In(h, d)] /\ In(h, d) \notin lost   \* mutant: buffer not drained
AtEof(h, d) ==
    /\ In(h, d) \notin lost
    /\ pipe[d][In(h, d)] = <<>>
    /\ fin[d][In(h, d)]

(* bridge: tokio's copy_bidirectional shuts the writer down at once, and    *)
(* returns when both directions are at their end.                           *)
BridgeEofKeepsWriter(h, d) ==   \* mutant: the other writer is not shut down
    /\ hops[h] = "bridge"
    /\ Copying(h, d)
    /\ AtEof(h, d)
    /\ hop' = [hop EXCEPT ![h][d] = "eof", ![h].open = hop[h][Opposite(d)] = "copy"]
    /\ UNCHANGED <<hops, pipe, fin, lost, sent, got>>

BridgeEof(h, d) ==
    /\ hops[h] = "bridge"
    /\ Copying(h, d)
    /\ AtEof(h, d)
    /\ fin' = [fin EXCEPT ![d][Out(h, d)] = TRUE]
    /\ hop' = [hop EXCEPT ![h][d] = "eof", ![h].open = hop[h][Opposite(d)] = "copy"]
    /\ UNCHANGED <<hops, pipe, lost, sent, got>>

(* The hop that reads what hop h writes is gone, which stops the stream: a  *)
(* write may still succeed before the stop arrives and then fails.          *)
Stopped(h, d) ==
    LET reader == IF d = "request" THEN h + 1 ELSE h - 1
    IN  reader \in HopIds /\ ~hop[reader].open

(* A copy fails when it reads from a lost link or has something to write to *)
(* one that is lost or stopped.                                             *)
Broken(h, d) ==
    \/ In(h, d) \in lost
    \/ (Out(h, d) \in lost \/ Stopped(h, d)) /\ pipe[d][In(h, d)] # <<>>

(* An error of either direction ends the bridge, which drops both streams   *)
(* and with them the connection they are of.                                *)

BridgeFailsKeepsStreams(h, d) ==   \* mutant: the other stream stays open
    /\ hops[h] = "bridge"
    /\ Copying(h, d)
    /\ Broken(h, d)
    /\ hop' = [hop EXCEPT ![h][d] = "error", ![h].open = FALSE]
    /\ UNCHANGED <<hops, pipe, fin, lost, sent, got>>

BridgeFails(h, d) ==
    /\ hops[h] = "bridge"
    /\ Copying(h, d)
    /\ Broken(h, d)
    /\ hop' = [hop EXCEPT ![h][d] = "error", ![h].open = FALSE]
    /\ lost' = lost \cup {h - 1, h}
    /\ UNCHANGED <<hops, pipe, fin, sent, got>>

(* The relay's two copies run to their own ends in a join. *)
RelayEnds(h, d) ==
    /\ hops[h] = "relay"
    /\ Copying(h, d)
    /\ \/ AtEof(h, d) /\ hop' = [hop EXCEPT ![h][d] = "eof"]
       \/ Broken(h, d) /\ hop' = [hop EXCEPT ![h][d] = "error"]
    /\ UNCHANGED <<hops, pipe, fin, lost, sent, got>>

(* Then both writers are shut down, or all streams are dropped: with that   *)
(* goes the connection to the provider, while the one to the consumer is    *)
(* the handler's, and a dropped writer of it finishes its stream.           *)
RelayReturns(h) ==
    /\ hops[h] = "relay"
    /\ hop[h].open
    /\ \A d \in Dirs : hop[h][d] # "copy"
    /\ hop' = [hop EXCEPT ![h].open = FALSE]
    /\ \/ /\ \A d \in Dirs : hop[h][d] = "eof"
          /\ fin' = [d \in Dirs |-> [fin[d] EXCEPT ![Out(h, d)] = TRUE]]
          /\ UNCHANGED lost
       \/ /\ \E d \in Dirs : hop[h][d] = "error"
          /\ lost' = lost \cup {h}
          /\ fin' = [fin EXCEPT !["reply"][h - 1] = TRUE]
    /\ UNCHANGED <<hops, pipe, sent, got>>

(* A connection is lost: a process ends or the idle timeout passes. *)
Lose(i) ==
    /\ lost = {}
    /\ lost' = {i}
    /\ UNCHANGED <<hops, pipe, fin, hop, sent, got>>

Hop(h) ==
    \/ \E d \in Dirs : Move(h, d) \/ BridgeEof(h, d) \/ BridgeFails(h, d) \/ RelayEnds(h, d)
    \/ RelayReturns(h)

Next ==
    \/ \E d \in Dirs : Send(d) \/ CloseWrite(d) \/ Receive(d)
    \/ \E h \in HopIds : Hop(h)
    \/ \E i \in Links : Lose(i)

Spec == Init /\ [][Next]_vars

(***************************************************************************)
(* The copies are tasks that keep running and the ends read what arrives.  *)
(* Nobody has to send or to close.                                         *)
(***************************************************************************)
AnyHop == UNION {1 .. Len(chain) : chain \in Chains}

Fairness ==
    /\ \A h \in AnyHop : WF_vars(h \in HopIds /\ RelayReturns(h))
    /\ \A h \in AnyHop, d \in Dirs :
         WF_vars(h \in HopIds /\ (Move(h, d) \/ BridgeEof(h, d) \/ BridgeFails(h, d) \/ RelayEnds(h, d)))
    /\ \A d \in Dirs : WF_vars(Receive(d))

FairSpec == Spec /\ Fairness
-----------------------------------------------------------------------------
(***************************************************************************)
(* Properties.                                                             *)
(***************************************************************************)

(* The bytes on the link that is i links away from the receiver of d.       *)
AtDistance(d, i) == pipe[d][IF d = "request" THEN Len(hops) - i ELSE i]

(* The bytes of direction d between its sender and its receiver, oldest     *)
(* first.                                                                   *)
InFlight(d) ==
    LET joined[i \in Links] == IF i = 0 THEN AtDistance(d, 0) ELSE joined[i - 1] \o AtDistance(d, i)
    IN  joined[Len(hops)]

(* Every byte arrives once and in order: while no connection is lost, what  *)
(* was read, followed by what is under way, is what was sent (bridge,       *)
(* copy_bidirectional, copy_throttled).                                     *)
InOrder ==
    lost = {} => \A d \in Dirs :
        got[d].bytes \o InFlight(d) = [n \in 1 .. sent[d] |-> n]

(* End of file is not truncation: an end that reads it while no connection  *)
(* is lost has read all that the other end wrote before closing.            *)
EofMeansComplete ==
    \A d \in Dirs : (lost = {} /\ got[d].eof) =>
        fin[d][FirstLink(d)] /\ Len(got[d].bytes) = sent[d]

(* No hop is a relay: the direct path. *)
IsDirect == \A h \in HopIds : hops[h] = "bridge"

(* The sender of direction d has nothing more to say. *)
Finished(d) == fin[d][FirstLink(d)] \/ FirstLink(d) \in lost

(* A half-close travels through the direct path: when one end shuts down    *)
(* its writer, the other reads end of file, and need not close first        *)
(* (tunnel.rs:56-66, "shutdown the backend's write side, which sends FIN"). *)
(* Through the relay, whose writers are shut down after its join, it does   *)
(* so once the other end has closed too.                                    *)
HalfCloseArrives ==
    \A d \in Dirs :
        (fin[d][FirstLink(d)] /\ (IsDirect \/ Finished(Opposite(d))))
            ~> (got[d].eof \/ lost # {})

(* A lost connection takes the whole tunnel down, and no copy task is left  *)
(* behind (bridge's `?`, run_relay's unregister_relay_rate): by itself on   *)
(* the direct path while both ends are open, and otherwise once both have   *)
(* finished, since a copy notices a loss only by reading from the link or   *)
(* writing to it, and the relay joins its two copies.                       *)
LossEndsTunnel ==
    (/\ lost # {}
     /\ \/ IsDirect /\ \A d \in Dirs : ~fin[d][FirstLink(d)]
        \/ \A d \in Dirs : Finished(d))
    ~> \A h \in HopIds : ~hop[h].open
=============================================================================
