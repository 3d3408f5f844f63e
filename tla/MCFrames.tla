------------------------------ MODULE MCFrames ------------------------------
(***************************************************************************)
(* Instances of Frames for TLC: the sequences of frames that the two       *)
(* handshakes and the control plane write on one stream, with empty        *)
(* strings, payloads of one byte less than, exactly and one byte more than *)
(* the limit, lengths that need both bytes of the header, and tunnels that *)
(* begin with what looks like a frame.                                     *)
(***************************************************************************)
EXTENDS Frames

F(kind) == [kind |-> kind, code |-> 0, parts |-> <<>>]
J(kind, text) == [kind |-> kind, code |-> 0, parts |-> <<text>>]
E(kind, code, text) == [kind |-> kind, code |-> code, parts |-> <<text>>]
Long(n) == [i \in 1 .. n |-> i % 7]

Mac == [i \in 1 .. MacLength |-> Base - i]
Open(a, b, c) == [kind |-> "DataOpen", code |-> 0, parts |-> <<a, b, c, Mac>>]

Output(seq, tunnel) == [frames |-> seq, bytes |-> tunnel]
LooksLikeFrame == <<6, 0, 0, 3>>

AllOutputs ==
    {Output(<<F("AuthHello"), J("AuthProof", Mac)>>, LooksLikeFrame),
     Output(<<J("AuthNonce", Mac), F("AuthOk")>>, LooksLikeFrame),
     Output(<<J("AuthNonce", Mac), E("AuthErr", 1, <<5, 4>>)>>, <<>>),
     Output(<<E("AuthErr", 0, <<>>)>>, <<>>),
     Output(<<Open(<<5>>, <<0, 6>>, <<6>>), F("AuthHello"), J("AuthProof", Mac)>>, <<1, 2>>),
     Output(<<Open(<<>>, <<>>, <<>>), F("AuthHello")>>, <<3>>),
     Output(<<J("Hello", <<7>>), J("HelloOk", <<8, 9>>)>>, <<>>),
     Output(<<J("Register", <<1>>), J("RegisterOk", <<1>>)>>, <<>>),
     Output(<<J("Subscribe", <<1>>), J("SubscribeOk", <<1, 2>>)>>, <<>>),
     Output(<<F("Heartbeat"), F("Heartbeat"), E("ControlError", 3 * Base + 2, <<>>)>>, <<>>)}
    \cup {Output(<<E("ControlError", Base, Long(n)), F("Heartbeat")>>, <<>>) :
            n \in {Base - 2, MaxPayload - 3, MaxPayload - 2, MaxPayload - 1}}
    \cup {Output(<<Open(Long(n), <<1>>, <<>>), F("AuthHello")>>, <<4>>) :
            n \in {MaxPayload - 8 - MacLength, MaxPayload - 7 - MacLength, MaxPayload - 6 - MacLength}}
=============================================================================
