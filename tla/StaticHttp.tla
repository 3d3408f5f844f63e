----------------------------- MODULE StaticHttp -----------------------------
(***************************************************************************)
(* The request loop of the static file service (client/src/static_http.rs):*)
(* serve_one reads a request line and the headers from a buffered stream,  *)
(* builds a response, writes it, and goes on while the connection is kept  *)
(* alive.                                                                  *)
(*                                                                         *)
(* A byte is what the reader tells apart: "r" and "n" are CR and LF, "o"   *)
(* is the version HTTP/1.0 in a request line and "v" one that is neither   *)
(* 1.0 nor 1.1, "c", "k" and "b" are headers (Connection: close,           *)
(* Connection: keep-alive, a Content-Length above 0) and "x" is anything   *)
(* else.  A request line is a GET of a file unless it has "h" (HEAD) or    *)
(* "p" (another method), and "e" (a bad escape), "m" (no such path), "u"   *)
(* (a path that resolves outside root_dir) or "d" (a directory): what the  *)
(* path names when it is resolved; it may name something else when it is   *)
(* looked up again.  The buffer is one chunk: the stream hands over more   *)
(* only when it is empty (AsyncBufReadExt::fill_buf).                      *)
(***************************************************************************)
EXTENDS Integers, Sequences, FiniteSetsExt, SequencesExt

CONSTANTS
    Scripts,        \* the sequences of requests a peer may send
    MaxRequestLine, \* MAX_REQUEST_LINE
    MaxHeaders,     \* MAX_HEADERS
    FileSizes       \* lengths of the files served

ASSUME HttpAssumption ==
    /\ MaxRequestLine \in Nat
    /\ MaxHeaders \in Nat
    /\ FileSizes \subseteq Nat

VARIABLES
    script,         \* the requests of this peer
    listing,        \* spec.allow_directory_listing
    sent,           \* how many of them it has sent
    closed,         \* it has closed its side
    rest,           \* bytes on the way
    buffer,         \* the BufReader's chunk
    taken,          \* buf of the running read_until_limited / read_headers_limited
    consumed,       \* bytes consumed from the stream so far
    line,           \* what the request line of the request being read says
    response,       \* the response built and not yet written, or NoResponse
    served,         \* responses written
    phase,          \* where serve_one is
    cut             \* history: a chunk ended inside a header terminator

vars == <<script, listing, sent, closed, rest, buffer, taken, consumed, line, response,
          served, phase, cut>>

LineBytes == {"o", "v", "h", "p", "e", "m", "u", "d"}
Bytes == {"r", "n", "c", "k", "b", "x"} \cup LineBytes

(* What a path inside root_dir may lead to: a link put there leads outside. *)
Files == {"file", "outside file"}
Dirs == {"dir", "outside dir"}
Targets == Files \cup Dirs \cup {"missing"}

(* Content-Length, bytes of the body and Connection header of a response;   *)
(* where its content is from, and (history) whether the target was replaced *)
(* after it was resolved.                                                   *)
Responses ==
    [status : {200, 400, 403, 404, 405, 500}, length : Nat, body : Nat, close : BOOLEAN,
     from : Targets, moved : BOOLEAN]
NoResponse == [status |-> 0, length |-> 0, body |-> 0, close |-> FALSE,
               from |-> "missing", moved |-> FALSE]

(* Every variable has its type, and neither read keeps more than its limit. *)
TypeOK ==
    /\ script \in Scripts
    /\ sent \in 0 .. Len(script) /\ served \in 0 .. Len(script)
    /\ listing \in BOOLEAN /\ closed \in BOOLEAN /\ cut \in BOOLEAN
    /\ line \subseteq LineBytes
    /\ response \in Responses \cup {NoResponse}
    /\ \A s \in {rest, buffer, taken} : s \in Seq(Bytes)
    /\ consumed \in Nat
    /\ phase \in {"line", "headers", "respond", "write", "ended", "failed", "lost"}
    /\ phase = "line" => Len(taken) <= MaxRequestLine
    /\ phase = "headers" => Len(taken) <= MaxHeaders

Init ==
    /\ script \in Scripts
    /\ sent = 0 /\ served = 0 /\ consumed = 0
    /\ listing \in BOOLEAN
    /\ closed = FALSE /\ cut = FALSE
    /\ line = {} /\ response = NoResponse
    /\ rest = <<>> /\ buffer = <<>> /\ taken = <<>>
    /\ phase = "line"

-----------------------------------------------------------------------------
(* A header terminator, CR LF CR LF or LF LF, starts at position i. *)
CrLfAt(chunk, i) == i + 3 <= Len(chunk) /\ SubSeq(chunk, i, i + 3) = <<"r", "n", "r", "n">>
LfAt(chunk, i) == i + 1 <= Len(chunk) /\ SubSeq(chunk, i, i + 1) = <<"n", "n">>

(* The first k bytes of the text end inside the terminator at i. *)
CutsTerminator(text, i, k) ==
    \/ CrLfAt(text, i) /\ k < i + 3
    \/ LfAt(text, i) /\ k < i + 1

-----------------------------------------------------------------------------
(* The peer and the stream. *)
PeerSends ==
    /\ ~closed
    /\ sent < Len(script)
    /\ rest' = rest \o script[sent + 1]
    /\ sent' = sent + 1
    /\ UNCHANGED <<script, listing, closed, buffer, taken, consumed, line, response, served, phase, cut>>

PeerCloses ==
    /\ ~closed
    /\ sent = Len(script)
    /\ closed' = TRUE
    /\ UNCHANGED <<script, listing, sent, rest, buffer, taken, consumed, line, response, served, phase, cut>>

(* fill_buf returns what has arrived, some or all of it. *)
Arrive ==
    /\ buffer = <<>> /\ rest # <<>>
    /\ phase \in {"line", "headers"}
    /\ \E k \in 1 .. Len(rest) :
         /\ cut' = (cut \/ \E i \in 1 .. k : CutsTerminator(rest, i, k))
         /\ buffer' = SubSeq(rest, 1, k)
         /\ rest' = SubSeq(rest, k + 1, Len(rest))
    /\ UNCHANGED <<script, listing, sent, closed, taken, consumed, line, response, served, phase>>

(* fill_buf returns nothing: a clean end before a request, else an error. *)
EndOfStream ==
    /\ closed /\ buffer = <<>> /\ rest = <<>>
    /\ phase \in {"line", "headers"}
    /\ phase' = IF phase = "line" /\ taken = <<>> THEN "ended" ELSE "failed"
    /\ UNCHANGED <<script, listing, sent, closed, rest, buffer, taken, consumed, line, response, served, cut>>

-----------------------------------------------------------------------------
(* The first position of the delimiter in the chunk, or 0. *)
FindLineEnd(chunk) ==
    LET at == {i \in DOMAIN chunk : chunk[i] = "n"} IN IF at = {} THEN 0 ELSE Min(at)

FindLfOnly(chunk) ==   \* mutant: CR LF CR LF not recognised
    LET at == {i \in DOMAIN chunk : LfAt(chunk, i)} IN IF at = {} THEN 0 ELSE Min(at) + 1

FindEndsEarly(chunk) ==   \* mutant: CR LF CR LF taken to be two bytes long
    LET at == {i \in DOMAIN chunk : CrLfAt(chunk, i) \/ LfAt(chunk, i)}
    IN  IF at = {} THEN 0 ELSE Min(at) + 1

(* The last byte of the first terminator in the chunk, or 0. *)
FindHeaderTerminator(chunk) ==
    LET at == {i \in DOMAIN chunk : CrLfAt(chunk, i) \/ LfAt(chunk, i)}
    IN  IF at = {} THEN 0
        ELSE IF CrLfAt(chunk, Min(at)) THEN Min(at) + 3 ELSE Min(at) + 1

(* The reader consumes n bytes of the chunk. *)
Consume(n) ==
    /\ buffer' = SubSeq(buffer, n + 1, Len(buffer))
    /\ consumed' = consumed + n

(* read_until_limited and read_headers_limited: the end at `end` is within  *)
(* the limit, or the chunk has no end and is kept within the limit, or the  *)
(* limit is exceeded.                                                       *)
TooLongIgnored(n, max) == FALSE   \* mutant: limit not enforced
TooLong(n, max) == Len(taken) + n > max

ReadLength(end) == IF end = 0 THEN Len(buffer) ELSE end

ReadFails(end, max) ==
    /\ TooLong(ReadLength(end), max)
    /\ phase' = "failed"
    /\ UNCHANGED <<buffer, consumed, taken, line>>

ReadOn(end, max) ==
    /\ end = 0 /\ ~TooLong(ReadLength(end), max)
    /\ Consume(ReadLength(end))
    /\ taken' = taken \o buffer
    /\ UNCHANGED <<phase, line>>

ReadTo(end, max) ==
    /\ end # 0 /\ ~TooLong(ReadLength(end), max)
    /\ Consume(ReadLength(end))

(* A request line has a method, a path and a version; else it is an error.  *)
ParsedLine(text) ==
    /\ taken' = <<>>
    /\ line' = Range(text) \cap LineBytes
    /\ phase' = IF Range(text) \subseteq {"r", "n"} THEN "failed" ELSE "headers"

(* The headers end at the first empty line of what was read. *)
EmptyLineAt(text, i) ==
    /\ i = 1 \/ text[i - 1] = "n"
    /\ \/ text[i] = "n"
       \/ text[i] = "r" /\ i < Len(text) /\ text[i + 1] = "n"

Fields(text) ==
    {text[i] : i \in {i \in DOMAIN text : \A j \in 1 .. i : ~EmptyLineAt(text, j)}}

(* What a peer sends: a request line that is not empty, the headers, and an *)
(* empty line, the first one, which makes the only terminator.  The bytes of *)
(* a request line are in the line and those of headers after it.             *)
LineLength(req) == FindLineEnd(req)
HeadersOf(req) == SubSeq(req, LineLength(req) + 1, Len(req))

IsRequest(req) ==
    /\ req \in Seq(Bytes) /\ req # <<>>
    /\ req[1] \notin {"r", "n"}
    /\ \E i \in DOMAIN req : CrLfAt(req, i) \/ LfAt(req, i)
    /\ \A i \in DOMAIN req : CrLfAt(req, i) => i + 3 = Len(req)
    /\ \A i \in DOMAIN req : LfAt(req, i) => i + 1 = Len(req)
    /\ \A i \in DOMAIN HeadersOf(req) :
         EmptyLineAt(HeadersOf(req), i) => i >= Len(HeadersOf(req)) - 1
    /\ \A i \in DOMAIN req :
         req[i] \notin (IF i <= LineLength(req) THEN {"c", "k", "b"} ELSE LineBytes)

ASSUME ScriptsAssumption ==
    \A requests \in Scripts :
        requests \in Seq(Seq(Bytes)) /\ \A i \in DOMAIN requests : IsRequest(requests[i])

(* Request bodies are refused; the headers stay in taken for KeepAlive. *)
ParsedHeaders(headers) ==
    /\ taken' = headers
    /\ phase' = IF "b" \in Fields(headers) THEN "failed" ELSE "respond"
    /\ UNCHANGED line

ReadRequestLine ==
    LET end == FindLineEnd(buffer) IN
    /\ phase = "line" /\ buffer # <<>>
    /\ \/ ReadFails(end, MaxRequestLine)
       \/ ReadOn(end, MaxRequestLine)
       \/ ReadTo(end, MaxRequestLine) /\ ParsedLine(taken \o SubSeq(buffer, 1, end))
    /\ UNCHANGED <<script, listing, sent, closed, rest, response, served, cut>>

ReadHeaders ==
    LET end == FindHeaderTerminator(buffer) IN
    /\ phase = "headers" /\ buffer # <<>>
    /\ \/ ReadFails(end, MaxHeaders)
       \/ ReadOn(end, MaxHeaders)
       \/ ReadTo(end, MaxHeaders) /\ ParsedHeaders(taken \o SubSeq(buffer, 1, end))
    /\ UNCHANGED <<script, listing, sent, closed, rest, response, served, cut>>

KeepAlive ==
    /\ "v" \notin line
    /\ IF "o" \in line THEN "k" \in Fields(taken) ELSE "c" \notin Fields(taken)

-----------------------------------------------------------------------------
(* The response has a body of n bytes, announced in Content-Length; a HEAD  *)
(* gets none, and its error is announced with length 0 (error_response)     *)
(* while its success announces the length of the file or listing.           *)
OkWithBody(n, from, moved) ==   \* mutant: the body is sent to HEAD as well
    [status |-> 200, length |-> n, body |-> n, close |-> ~KeepAlive,
     from |-> from, moved |-> moved]
OkResponse(n, from, moved) ==
    [status |-> 200, length |-> n, body |-> IF "h" \in line THEN 0 ELSE n,
     close |-> ~KeepAlive, from |-> from, moved |-> moved]

ErrorResponse(status) ==
    LET n == IF "h" \in line THEN 0 ELSE 1
    IN  [status |-> status, length |-> n, body |-> n, close |-> ~KeepAlive,
         from |-> "missing", moved |-> FALSE]

(* percent_decode *)
PercentDecodes == "e" \notin line

(* What the path names when it is resolved, inside root_dir. *)
Resolved == IF "d" \in line THEN "dir" ELSE "file"

(* render_directory_listing: a page, or an error of the file system; the    *)
(* page is built whole before its length is announced.                      *)
RenderDirectoryListing(opened, moved) ==
    IF opened \in Dirs THEN {OkResponse(1, opened, moved), ErrorResponse(500)}
    ELSE {ErrorResponse(500)}

ReadFile(opened, moved) ==
    IF opened \in Files THEN {OkResponse(n, opened, moved) : n \in FileSizes}
    ELSE {ErrorResponse(404)}

(* metadata finds `seen` at the path that was resolved, and read_dir or     *)
(* read finds `opened`.                                                     *)
FromTarget(seen, opened) ==
    LET moved == seen # Resolved \/ opened # Resolved IN
    IF seen \in Dirs
    THEN IF listing THEN RenderDirectoryListing(opened, moved) ELSE {ErrorResponse(403)}
    ELSE IF seen \in Files THEN ReadFile(opened, moved) \cup {ErrorResponse(404)}
    ELSE {ErrorResponse(404)}

(* root_dir is resolved, then the path, which is checked to be inside; what *)
(* is behind it is looked up twice more, and others may replace it between  *)
(* two lookups.                                                             *)
FromFileSystem ==
    {ErrorResponse(500), ErrorResponse(404)} \cup
    (IF "m" \in line THEN {}
     ELSE IF "u" \in line THEN {ErrorResponse(403)}
     ELSE UNION {FromTarget(seen, opened) : seen, opened \in Targets})

BuildResponse ==
    IF "p" \in line THEN {ErrorResponse(405)}
    ELSE IF ~PercentDecodes THEN {ErrorResponse(400)}
    ELSE FromFileSystem

Build ==
    /\ phase = "respond"
    /\ response' \in BuildResponse
    /\ phase' = "write"
    /\ UNCHANGED <<script, listing, sent, closed, rest, buffer, taken, consumed, line, served, cut>>

(* serve_one returns keep_alive, and handle goes on or finishes. *)
AlwaysOn == "line"   \* mutant: the result of serve_one ignored
NextPhase == IF KeepAlive THEN "line" ELSE "ended"

(* write_response, and the next request if the connection is kept alive. *)
Respond ==
    /\ phase = "write"
    /\ served' = served + 1
    /\ phase' = NextPhase
    /\ taken' = <<>> /\ line' = {} /\ response' = NoResponse
    /\ UNCHANGED <<script, listing, sent, closed, rest, buffer, consumed, cut>>

(* The stream is reset or its connection lost: the read or write under way  *)
(* fails, and serve_one with it.                                            *)
StreamLost ==
    /\ \/ phase \in {"line", "headers"} /\ buffer = <<>>
       \/ phase = "write"
    /\ phase' = "lost"
    /\ UNCHANGED <<script, listing, sent, closed, rest, buffer, taken, consumed, line, response, served, cut>>

Server == EndOfStream \/ ReadRequestLine \/ ReadHeaders \/ Build \/ Respond

Next == PeerSends \/ PeerCloses \/ Arrive \/ Server \/ StreamLost

Spec == Init /\ [][Next]_vars

(* The handler keeps running and what was sent arrives; a peer sends its    *)
(* requests and need not close; the stream need not be lost.                *)
FairSpec == Spec /\ WF_vars(Server) /\ WF_vars(Arrive) /\ WF_vars(PeerSends)
-----------------------------------------------------------------------------
(***************************************************************************)
(* Properties.                                                             *)
(***************************************************************************)

(* The length of the first n requests. *)
Offset[n \in 0 .. Len(script)] == IF n = 0 THEN 0 ELSE Offset[n - 1] + Len(script[n])

(* A request that ends in an error or closes the connection. *)
Refused(req) ==
    \/ LineLength(req) > MaxRequestLine
    \/ Len(req) - LineLength(req) > MaxHeaders
    \/ "b" \in Range(req)
AsksToClose(req) ==
    IF "o" \in Range(req) THEN "k" \notin Range(req) ELSE "c" \in Range(req)
OtherVersion(req) == "v" \in Range(req)
LastOne(req) == OtherVersion(req) \/ AsksToClose(req)
Stops(req) == Refused(req) \/ LastOne(req)

(* What read_headers_limited needs to find the end of every request: it     *)
(* looks for the terminator within one chunk, after the end of the request  *)
(* line is gone, so no chunk may end inside a terminator and every request  *)
(* must have a header.                                                      *)
HasHeaders(req) == Len(req) - LineLength(req) > 2
Framed == ~cut /\ \A i \in DOMAIN script : HasHeaders(script[i])

(* The loop stays in step with the peer: whenever it starts on a request,   *)
(* it has consumed exactly the requests it answered (read_request,          *)
(* read_headers_limited).                                                   *)
InStep == (Framed /\ phase = "line" /\ taken = <<>>) => consumed = Offset[served]

(* Every well-formed request is answered while the stream lasts: the loop   *)
(* reaches the first request that ends it, and answers all before           *)
(* (serve_one).                                                             *)
EveryRequestAnswered ==
    \A n \in 1 .. 3 :
        (sent >= n /\ n <= Len(script) /\ \A i \in 1 .. n - 1 : ~Stops(script[i]))
            ~> \/ served >= n
               \/ n <= Len(script) /\ Refused(script[n]) /\ phase = "failed"
               \/ phase = "lost"
               \/ ~Framed

(* A connection the peer asked to close is closed after that response, and  *)
(* so is one over which it sent a request of another version than 1.0 and   *)
(* 1.1, whatever it asked (static_http.rs:262-266); any other stays open    *)
(* until the peer closes it.                                                *)
ClosesWhenAsked ==
    Framed =>
      /\ phase = "ended" =>
          \/ closed /\ served = Len(script)
          \/ served > 0 /\ LastOne(script[served])
      /\ (phase \in {"line", "headers", "respond", "write"} /\ served > 0) =>
          ~LastOne(script[served])

(* A peer that reads a response the way HTTP says, the head and then as     *)
(* many bytes as it announces unless the request was a HEAD, is at the next *)
(* response afterwards and is told what becomes of the connection.  Content *)
(* is sent only for a path that was inside root_dir when it was resolved, a *)
(* listing only where listings are allowed, and it is the content of what   *)
(* the request names unless that was replaced between the check and the     *)
(* read, when it may be from anywhere (build_response, error_response,      *)
(* write_response; static_http.rs:440-476).                                 *)
ResponsesFramed ==
    (Framed /\ phase = "write") =>
      LET asked == Range(script[served + 1]) IN
      /\ response.body = IF "h" \in asked THEN 0 ELSE response.length
      /\ response.close <=> LastOne(script[served + 1])
      /\ response.status = 200 =>
           /\ asked \cap {"p", "e", "m", "u"} = {}
           /\ response.from \in Dirs => listing
           /\ ~response.moved => response.from = IF "d" \in asked THEN "dir" ELSE "file"
=============================================================================
