------------------------------- MODULE Frames -------------------------------
(***************************************************************************)
(* The frame codec (common/src/protocol.rs) over a byte stream: a writer   *)
(* calls write_to for one frame after the other and then lets bridge write *)
(* the bytes of a tunnel; the reader calls read_from as often and then     *)
(* reads the tunnel's bytes from the same stream.  The stream hands bytes  *)
(* over in any portions and may end after any of them.                     *)
(*                                                                         *)
(* A frame is its kind, its code and the byte strings in it.  The six JSON *)
(* frames have one, the text that serde_json writes and reads back.  Bytes *)
(* are below Base, 256 in the code, and the largest one never occurs in    *)
(* UTF-8.                                                                  *)
(***************************************************************************)
EXTENDS Integers, Sequences, SequencesExt

CONSTANTS
    Base,           \* the values of a byte
    MaxPayload,     \* MAX_FRAME_PAYLOAD
    MacLength,      \* the length of nonces and proofs, 32
    Outputs         \* what a writer may write: [frames, bytes]

ASSUME FramesAssumption ==
    /\ Base \in Nat /\ Base > 31
    /\ MaxPayload \in 0 .. Base * Base - 1
    /\ MacLength \in Nat \ {0}

Byte == 0 .. Base - 1

(* The tag constants. *)
Tags ==
    [AuthNonce |-> 1, AuthProof |-> 2, AuthOk |-> 3, AuthErr |-> 4, DataOpen |-> 5,
     AuthHello |-> 6, Hello |-> 16, HelloOk |-> 17, Register |-> 18, RegisterOk |-> 19,
     Subscribe |-> 20, SubscribeOk |-> 21, Heartbeat |-> 22, ControlError |-> 31]

Json == {"Hello", "HelloOk", "Register", "RegisterOk", "Subscribe", "SubscribeOk"}

(* u16, low byte first. *)
ToU16(n) == <<n % Base, n \div Base>>
U16At(bytes, i) == bytes[i] + Base * bytes[i + 1]
MaxU16 == Base * Base - 1

(* String::from_utf8 and serde_json accept these bytes. *)
Utf8(text) == Base - 1 \notin Range(text)

(* The values of enum Frame: strings are UTF-8, nonces and proofs have their *)
(* length, codes their width.                                                *)
Texts == {text \in Seq(Byte) : Utf8(text)}
Macs == {mac \in Seq(Byte) : Len(mac) = MacLength}

PartsOf(kind) ==
    CASE kind \in {"AuthHello", "AuthOk", "Heartbeat"} -> {<<>>}
      [] kind \in {"AuthNonce", "AuthProof"} -> [1 .. 1 -> Macs]
      [] kind \in Json \cup {"AuthErr", "ControlError"} -> [1 .. 1 -> Texts]
      [] kind = "DataOpen" -> Texts \X Texts \X Texts \X Macs

CodesOf(kind) ==
    CASE kind = "AuthErr" -> Byte
      [] kind = "ControlError" -> 0 .. MaxU16
      [] OTHER -> {0}

Frame ==
    {f \in [kind : DOMAIN Tags, code : Nat, parts : Seq(Seq(Byte))] :
        f.code \in CodesOf(f.kind) /\ f.parts \in PartsOf(f.kind)}

(* A writer writes frames, at least one, and then a tunnel's bytes. *)
ASSUME OutputsAssumption ==
    Outputs \subseteq [frames : Seq(Frame) \ {<<>>}, bytes : Seq(Byte)]

-----------------------------------------------------------------------------
(* encode_payload *)
Sized(text) == ToU16(Len(text)) \o text

EncodePayload(f) ==
    CASE f.kind \in {"AuthHello", "AuthOk", "Heartbeat"} -> <<>>
      [] f.kind \in {"AuthNonce", "AuthProof"} \cup Json -> f.parts[1]
      [] f.kind = "AuthErr" -> <<f.code>> \o f.parts[1]
      [] f.kind = "ControlError" -> ToU16(f.code) \o f.parts[1]
      [] f.kind = "DataOpen" ->
           Sized(f.parts[1]) \o Sized(f.parts[2]) \o Sized(f.parts[3]) \o f.parts[4]

(* The limits of encode_payload and write_json, and that of write_to. *)
Encodes(f) ==
    /\ f.kind \in Json \cup {"DataOpen"} => \A i \in DOMAIN f.parts : Len(f.parts[i]) <= MaxU16
    /\ Len(EncodePayload(f)) <= MaxPayload

Header(f) == <<Tags[f.kind]>> \o ToU16(Len(EncodePayload(f)))

-----------------------------------------------------------------------------
(* decode *)
Err == [kind |-> "Err", code |-> 0, parts |-> <<>>]

(* An index out of range: the task ends in a panic. *)
Panic == [Err EXCEPT !.kind = "Panic"]

FrameOfByte(kind, code, parts) ==   \* mutant: the code is read as one byte
    IF \E i \in DOMAIN parts : ~Utf8(parts[i]) THEN Err
    ELSE [kind |-> kind, code |-> code % Base, parts |-> parts]

FrameOf(kind, code, parts) ==
    IF \E i \in DOMAIN parts : ~Utf8(parts[i]) THEN Err
    ELSE [kind |-> kind, code |-> code, parts |-> parts]

(* Three sized strings and a proof; the length of the second is used before *)
(* anything is compared with it.                                            *)
DecodeDataOpen(p) ==
    IF Len(p) < 2 THEN Err ELSE
    LET svc_end == 2 + U16At(p, 1)
        svc == SubSeq(p, 3, svc_end)
    IN
    IF Len(p) < svc_end + 4 + MacLength \/ ~Utf8(svc) THEN Err ELSE
    LET prov_end == svc_end + 2 + U16At(p, svc_end + 1)
        provider == SubSeq(p, svc_end + 3, prov_end)
    IN
    IF Len(p) < prov_end THEN Panic ELSE
    IF ~Utf8(provider) THEN Err ELSE
    IF Len(p) < prov_end + 2 THEN Panic ELSE
    LET cons_end == prov_end + 2 + U16At(p, prov_end + 1)
        consumer == SubSeq(p, prov_end + 3, cons_end)
    IN
    IF Len(p) < cons_end + MacLength \/ ~Utf8(consumer) THEN Err
    ELSE [kind |-> "DataOpen", code |-> 0,
          parts |-> <<svc, provider, consumer, SubSeq(p, cons_end + 1, cons_end + MacLength)>>]

DecodeKind(kind, p) ==
    CASE kind = "AuthHello" -> IF p # <<>> THEN Err ELSE FrameOf(kind, 0, <<>>)
      [] kind \in {"AuthNonce", "AuthProof"} ->
           IF Len(p) # MacLength THEN Err ELSE [kind |-> kind, code |-> 0, parts |-> <<p>>]
      [] kind \in {"AuthOk", "Heartbeat"} -> FrameOf(kind, 0, <<>>)
      [] kind = "AuthErr" -> IF p = <<>> THEN Err ELSE FrameOf(kind, p[1], <<Tail(p)>>)
      [] kind = "ControlError" ->
           IF Len(p) < 2 THEN Err ELSE FrameOf(kind, U16At(p, 1), <<SubSeq(p, 3, Len(p))>>)
      [] kind \in Json -> FrameOf(kind, 0, <<p>>)
      [] kind = "DataOpen" -> DecodeDataOpen(p)

Decode(tag, p) ==
    LET kinds == {kind \in DOMAIN Tags : Tags[kind] = tag} IN
    IF kinds = {} THEN Err ELSE DecodeKind(CHOOSE kind \in kinds : TRUE, p)

-----------------------------------------------------------------------------
VARIABLES
    output,         \* what this writer writes
    writer,         \* write calls made: two per frame, one for the tunnel's bytes
    wire,           \* bytes on the stream
    stream,         \* "open", "fin" or "lost"
    severed,        \* history: bytes were lost, or never written
    buf,            \* what the running read_exact has
    header,         \* the header of the frame being read, or empty
    frames,         \* the frames read
    bytes,          \* the tunnel's bytes read
    reader          \* "frame", "bytes" or the error that ended it

wireVars == <<output, writer, wire, stream, severed, buf, header, frames, bytes, reader>>

WireInit ==
    /\ output \in Outputs
    /\ writer = 0
    /\ wire = <<>> /\ stream = "open" /\ severed = FALSE
    /\ buf = <<>> /\ header = <<>>
    /\ frames = <<>> /\ bytes = <<>>
    /\ reader = "frame"

(* The frame of the next write call. *)
Current == output.frames[writer \div 2 + 1]
Framing == writer < 2 * Len(output.frames)

(* write_to writes the header and the payload, an empty one too here. *)
WriteFrame ==
    /\ stream = "open" /\ Framing
    /\ Encodes(Current)
    /\ wire' = wire \o IF writer % 2 = 0 THEN Header(Current) ELSE EncodePayload(Current)
    /\ writer' = writer + 1
    /\ UNCHANGED <<output, stream, severed, buf, header, frames, bytes, reader>>

(* It refuses a frame that is too long, and its caller drops the stream. *)
WriteRefused ==
    /\ stream = "open" /\ Framing
    /\ ~Encodes(Current)
    /\ stream' = "fin" /\ severed' = TRUE
    /\ UNCHANGED <<output, writer, wire, buf, header, frames, bytes, reader>>

WriteBytes ==
    /\ stream = "open" /\ writer = 2 * Len(output.frames)
    /\ wire' = wire \o output.bytes
    /\ writer' = writer + 1
    /\ UNCHANGED <<output, stream, severed, buf, header, frames, bytes, reader>>

(* The writer has written everything and shuts the stream down. *)
Finish ==
    /\ stream = "open" /\ writer > 2 * Len(output.frames)
    /\ stream' = "fin"
    /\ UNCHANGED <<output, writer, wire, severed, buf, header, frames, bytes, reader>>

(* The writer's task ends in the middle of a write, or the connection does. *)
CutOff ==
    /\ stream = "open"
    /\ stream' \in {"fin", "lost"} /\ severed' = TRUE
    /\ \E n \in 0 .. Len(wire) : wire' = SubSeq(wire, 1, n)
    /\ UNCHANGED <<output, writer, buf, header, frames, bytes, reader>>

-----------------------------------------------------------------------------
Wanted == IF header = <<>> THEN 3 ELSE U16At(header, 2)

(* read_exact goes on until it has what it wants. *)
Complete == Len(buf) = Wanted

(* The stream after a read of n bytes. *)
Rest(n) == SubSeq(wire, n + 1, Len(wire))

ReadSome ==
    /\ reader = "frame" /\ Len(buf) < Wanted
    /\ \E n \in 1 .. Len(wire) :
         /\ n <= Wanted - Len(buf)
         /\ buf' = buf \o SubSeq(wire, 1, n)
         /\ wire' = Rest(n)
    /\ UNCHANGED <<output, writer, stream, severed, header, frames, bytes, reader>>

(* ShortHeader, ShortPayload or Io. *)
ReadEnds ==
    /\ reader = "frame" /\ Len(buf) < Wanted
    /\ wire = <<>> /\ stream # "open"
    /\ reader' = IF stream = "lost" THEN "Io" ELSE IF header = <<>> THEN "ShortHeader" ELSE "ShortPayload"
    /\ UNCHANGED <<output, writer, wire, stream, severed, buf, header, frames, bytes>>

OversizedAtLimit(len) == len >= MaxPayload   \* mutant: the limit itself is refused
Oversized(len) == len > MaxPayload

HeaderRead ==
    /\ reader = "frame" /\ header = <<>> /\ Complete
    /\ IF Oversized(U16At(buf, 2)) THEN reader' = "TooLong" /\ UNCHANGED <<buf, header>>
       ELSE header' = buf /\ buf' = <<>> /\ UNCHANGED reader
    /\ UNCHANGED <<output, writer, wire, stream, severed, frames, bytes>>

(* decode, and the caller goes on to its next frame or to the tunnel. *)
PayloadRead ==
    LET frame == Decode(header[1], buf) IN
    /\ reader = "frame" /\ header # <<>> /\ Complete
    /\ IF frame \in {Err, Panic} THEN reader' = frame.kind /\ UNCHANGED frames
       ELSE /\ frames' = Append(frames, frame)
            /\ reader' = IF Len(frames') = Len(output.frames) THEN "bytes" ELSE "frame"
    /\ header' = <<>> /\ buf' = <<>>
    /\ UNCHANGED <<output, writer, wire, stream, severed, bytes>>

ReadBytes ==
    /\ reader = "bytes" /\ wire # <<>>
    /\ \E n \in 1 .. Len(wire) :
         /\ bytes' = bytes \o SubSeq(wire, 1, n)
         /\ wire' = Rest(n)
    /\ UNCHANGED <<output, writer, stream, severed, buf, header, frames, reader>>

WireNext ==
    \/ WriteFrame \/ WriteRefused \/ WriteBytes \/ Finish \/ CutOff
    \/ ReadSome \/ ReadEnds \/ HeaderRead \/ PayloadRead \/ ReadBytes

WireSpec == WireInit /\ [][WireNext]_wireVars
-----------------------------------------------------------------------------
(***************************************************************************)
(* Properties.                                                             *)
(***************************************************************************)

(* The reader has what the writer wrote: the frames are the first frames    *)
(* written, in order and field by field, and the bytes after them are the   *)
(* tunnel's first bytes: none was swallowed by a frame and none of a frame  *)
(* is left, however the stream was cut into portions or cut off (read_from, *)
(* decode; bridge is handed the same stream).                               *)
RoundTrip ==
    /\ IsPrefix(frames, output.frames)
    /\ bytes # <<>> => frames = output.frames
    /\ IsPrefix(bytes, output.bytes)

(* An error always means that something was lost: a reader of a stream that *)
(* was not cut off accepts every frame that write_to accepted, those at the *)
(* length limit and the empty ones too, and a cut never ends in a panic or  *)
(* in a frame that decode refuses.                                          *)
ErrorMeansCut ==
    /\ reader \notin {"frame", "bytes"} => severed
    /\ reader \notin {"Err", "Panic", "TooLong"}
=============================================================================
