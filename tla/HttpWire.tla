------------------------------ MODULE HttpWire ------------------------------
(***************************************************************************)
(* HTTP messages as the adapter reads them off a socket and writes them    *)
(* again.  A socket holds a sequence of tokens: whole lines and the bytes  *)
(* of bodies, up to the end of the stream.  Reading is a function from     *)
(* what is left of the socket to a result and what is left then; the       *)
(* result is a message, "end" at a clean end of stream, or "error".        *)
(*                                                                         *)
(* Of the header fields the three are kept that say where a message ends   *)
(* or that a connection does; names are compared without regard to case.   *)
(***************************************************************************)
EXTENDS Naturals, Sequences, FiniteSets, SequencesExt, Ranking, Wire

CONSTANTS
    MaxHead,      \* lines of a head
    MaxBody       \* bytes of a body

\* A head may say how long its body is in more than one way.
ASSUME LimitsAssumption == MaxHead \in Nat /\ MaxHead >= 4 /\ MaxBody \in Nat

Byte(b) == [token |-> "byte", byte |-> b]
First(word) == [token |-> "first", word |-> word]
Field(name, value) == [token |-> "field", name |-> name, value |-> value]
Size(n) == [token |-> "size", size |-> n]
Blank == [token |-> "blank"]

-----------------------------------------------------------------------------
\* Heads.

\* read_head: up to the first blank line, if it comes before the limit.
HeadEnds(socket) == {i \in DOMAIN socket : socket[i] = Blank}
ReadHead(socket) ==
    LET end == Min(HeadEnds(socket))
    IN  CASE socket = <<>> -> Ended
          [] socket # <<>> /\ (HeadEnds(socket) = {} \/ end > MaxHead) -> Failed
          [] OTHER -> Taken(SubSeq(socket, 1, end - 1), SubSeq(socket, end + 1, Len(socket)))

\* parse_head refuses a field it could understand otherwise than its peer.
ParsesHead(head) ==
    head # <<>> /\ head[1].token = "first" /\ \A i \in 2 .. Len(head) : head[i].token = "field"

FieldsOf(head) == Tail(head)

\* The first field of a name counts.
Named(fields, name) == {i \in DOMAIN fields : fields[i].name = name}
HasField(fields, name) == Named(fields, name) # {}
ValueOf(fields, name) == fields[Min(Named(fields, name))].value

-----------------------------------------------------------------------------
\* Where a body ends.

Empty == [until |-> "empty"]
Length(n) == [until |-> "length", value |-> n]
Chunked == [until |-> "chunks"]
UntilClose == [until |-> "close"]

Chunks(fields) ==
    HasField(fields, "transfer-encoding") /\ ValueOf(fields, "transfer-encoding") = <<"chunked">>

LengthFirst(fields, openEnded) ==
    CASE HasField(fields, "content-length") -> Length(ValueOf(fields, "content-length")[1])
      [] Chunks(fields) -> Chunked
      [] OTHER -> IF openEnded THEN UntilClose ELSE Empty
Framing(fields, openEnded) ==
    CASE Chunks(fields) -> Chunked
      [] ~Chunks(fields) /\ HasField(fields, "content-length") ->
             Length(ValueOf(fields, "content-length")[1])
      [] OTHER -> IF openEnded THEN UntilClose ELSE Empty

IsBytes(tokens) == \A i \in DOMAIN tokens : tokens[i].token = "byte"

TakeBytes(socket, n) ==
    IF n <= Len(socket) /\ IsBytes(SubSeq(socket, 1, n))
    THEN Taken(SubSeq(socket, 1, n), SubSeq(socket, n + 1, Len(socket)))
    ELSE Failed

\* The trailer goes up to a blank line, or to the end of the stream.
AfterTrailer(socket) ==
    IF HeadEnds(socket) = {} THEN <<>>
    ELSE SubSeq(socket, Min(HeadEnds(socket)) + 1, Len(socket))

\* read_chunked: a turn of its loop, unless it has returned.
Reading(body, left) == [done |-> FALSE, reading |-> Taken(body, left)]
Returned(reading) == [done |-> TRUE, reading |-> reading]
NextChunk(soFar) ==
    LET body  == soFar.reading.result
        left  == soFar.reading.left
        n     == Head(left).size
        chunk == TakeBytes(Tail(left), n)
    IN  CASE soFar.done -> soFar
          [] ~soFar.done /\ (left = <<>> \/ Head(left).token # "size") -> Returned(Failed)
          [] OTHER ->
                IF n = 0 THEN Returned(Taken(body, AfterTrailer(Tail(left))))
                ELSE IF /\ Len(body) + n <= MaxBody /\ IsTaken(chunk)
                        /\ chunk.left # <<>> /\ Head(chunk.left) = Blank
                THEN Reading(body \o chunk.result, Tail(chunk.left))
                ELSE Returned(Failed)

\* A turn takes a line at least, and the last one sees the end.
ReadChunks(socket) ==
    LET after[turns \in 0 .. Len(socket) + 1] ==
            IF turns = 0 THEN Reading(<<>>, socket) ELSE NextChunk(after[turns - 1])
    IN  after[Len(socket) + 1].reading

\* read_body.
ReadBody(socket, framing) ==
    CASE framing = Empty -> Taken(<<>>, socket)
      [] framing = Chunked -> ReadChunks(socket)
      [] framing = UntilClose -> IF Len(socket) > MaxBody THEN Failed ELSE Taken(socket, <<>>)
      [] OTHER -> IF framing.value > MaxBody THEN Failed ELSE TakeBytes(socket, framing.value)

-----------------------------------------------------------------------------
\* Messages.  The first line of a request is its method, that of a response
\* its status.

Methods == {"POST", "HEAD"}
Statuses == {"200", "204"}
HasBody(status) == status # "204"

ReadParsed(socket) ==
    LET head == ReadHead(socket)
    IN  IF IsTaken(head) /\ ~ParsesHead(head.result) THEN Failed ELSE head

WithBody(head, framing) ==
    LET body == ReadBody(head.left, framing)
    IN  IF ~IsTaken(body) THEN Failed
        ELSE Taken([first |-> Head(head.result).word, fields |-> FieldsOf(head.result),
                    body |-> body.result, openEnded |-> framing = UntilClose],
                   body.left)

ReadRequest(socket) ==
    LET head == ReadParsed(socket)
    IN  IF IsTaken(head) THEN WithBody(head, Framing(FieldsOf(head.result), FALSE)) ELSE head

\* An answer to HEAD describes a body it does not carry, and a service that
\* answers must say something.
ResponseFraming(head, method) ==
    IF method = "HEAD" \/ ~HasBody(Head(head).word) THEN Empty ELSE Framing(FieldsOf(head), TRUE)
ReadResponse(socket, method) ==
    LET head == ReadParsed(socket)
    IN  IF IsTaken(head) THEN WithBody(head, ResponseFraming(head.result, method)) ELSE Failed

\* write_headers: one length in place of whatever said how long the body was.
Kept(fields) ==
    Picked(fields, {i \in DOMAIN fields :
                        fields[i].name \notin {"content-length", "transfer-encoding"}})
Encode(message, length) ==
    <<First(message.first)>> \o Kept(message.fields)
        \o (IF length THEN <<Field("content-length", <<Len(message.body)>>)>> ELSE <<>>)
        \o <<Blank>> \o message.body
EncodeRequest(request) == Encode(request, TRUE)
EncodeResponse(response) ==
    Encode(response, ~response.openEnded /\ HasBody(response.first))

ClosesConnection(response) ==
    \/ response.openEnded
    \/ HasField(response.fields, "connection") /\ ValueOf(response.fields, "connection") = <<"close">>

-----------------------------------------------------------------------------
\* What a peer may send: a body framed in any of the ways of the standard.

Bodies == UNION {[1 .. n -> {Byte(0), Byte(1)}] : n \in 0 .. MaxBody}

\* Ways to cut a body into chunks: where each of them ends.
Cuts(body) ==
    {ends \in UNION {[1 .. m -> 1 .. Len(body)] : m \in 0 .. Len(body)} :
        /\ \A i, j \in DOMAIN ends : i < j => ends[i] < ends[j]
        /\ body # <<>> => ends # <<>> /\ ends[Len(ends)] = Len(body)}

\* The chunks: before each its size, behind it a blank.
Pieces(body, ends) ==
    [p \in 1 .. Len(body) + 2 * Len(ends) |->
        LET k    == Min({i \in DOMAIN ends : p <= ends[i] + 2 * i})
            from == IF k = 1 THEN 0 ELSE ends[k - 1]
            at   == p - from - 2 * (k - 1)
        IN  CASE at = 1 -> Size(ends[k] - from)
              [] at # 1 /\ p # ends[k] + 2 * k -> body[from + at - 1]
              [] OTHER -> Blank]

ByLength(body) == <<Field("content-length", <<Len(body)>>), Blank>> \o body
ByChunks(body, ends, before, trailer) ==
    before \o <<Field("transfer-encoding", <<"chunked">>), Blank>> \o Pieces(body, ends)
        \o <<Size(0)>> \o trailer \o <<Blank>>
ByClosing(body) == <<Blank>> \o body

\* A length beside the chunks is what the standard says to ignore.
Framed(body) ==
    {ByLength(body)}
        \cup {ByChunks(body, ends, before, trailer) :
                ends \in Cuts(body),
                before \in {<<>>, <<Field("content-length", <<1>>)>>},
                trailer \in {<<>>, <<Field("digest", <<>>)>>}}

\* What follows on the same socket, perhaps.
Followers == {<<>>, <<First("200"), Field("content-length", <<0>>), Blank>>}

Prefixed(first, tokens) == <<First(first)>> \o tokens

\* Reading what a peer sent gives the body it meant and leaves what follows it
\* alone; what is sent on in its place says the same of itself to whoever reads
\* it next, leaves alone what follows, and is its own encoding.
Relays(reading, body, encoded(_), again(_), follower) ==
    /\ IsTaken(reading) /\ reading.result.body = body /\ reading.left = follower
    /\ LET sent == encoded(reading.result)
           next == again(sent \o follower)
       IN  /\ IsTaken(next) /\ next.result.body = body /\ next.left = follower
           /\ encoded(next.result) = sent

\* A message that was cut off is an error and never a shorter message, unless
\* only the end of a chunked body's trailer is missing.
CutOff(message, reads(_)) ==
    \A i \in 1 .. Len(message) - 1 :
        IsTaken(reads(SubSeq(message, 1, i))) =>
            /\ \E j \in 1 .. i : message[j] = Size(0)
            /\ reads(SubSeq(message, 1, i)).result = reads(message).result

EachIsRelayed ==
    \A body \in Bodies : \A framed \in Framed(body) : \A follower \in Followers :
        /\ Relays(ReadRequest(Prefixed("POST", framed) \o follower), body,
                  EncodeRequest, ReadRequest, follower)
        /\ Relays(ReadResponse(Prefixed("200", framed) \o follower, "POST"), body,
                  EncodeResponse, LAMBDA socket : ReadResponse(socket, "POST"), follower)

\* These have no body, whatever they say of it.
BodilessAreRelayed ==
    \A body \in Bodies, follower \in Followers :
        /\ Relays(ReadResponse(Prefixed("204", <<Blank>>) \o follower, "POST"), <<>>,
                  EncodeResponse, LAMBDA socket : ReadResponse(socket, "POST"), follower)
        /\ Relays(ReadResponse(Prefixed("200", ByLength(body)), "HEAD"), <<>>,
                  EncodeResponse, LAMBDA socket : ReadResponse(socket, "HEAD"), body)

NoneIsCutShort ==
    \A body \in Bodies : \A framed \in Framed(body) :
        /\ CutOff(Prefixed("POST", framed), ReadRequest)
        /\ CutOff(Prefixed("200", framed), LAMBDA socket : ReadResponse(socket, "POST"))

\* An answer whose end only a closed connection shows closes the connection.
OpenEndsAreClosed ==
    \A body \in Bodies :
        LET reading == ReadResponse(Prefixed("200", ByClosing(body)), "POST")
        IN  /\ IsTaken(reading) /\ reading.result.body = body
            /\ ClosesConnection(reading.result)
            /\ EncodeResponse(reading.result) = Prefixed("200", ByClosing(body))
=============================================================================
