------------------------------ MODULE NatsWire ------------------------------
(***************************************************************************)
(* NATS operations as the adapter reads them in either direction, and what *)
(* it reads out of an ack: whose it is, and whether it settles anything.   *)
(*                                                                         *)
(* A token is a line, cut into words, or the bytes an operation announced  *)
(* with the line end that must follow them.  A word is text or a number.   *)
(* The names of operations are compared without regard to case.            *)
(***************************************************************************)
EXTENDS Naturals, SequencesExt, Wire

CONSTANT MaxPayload     \* bytes of a payload and its headers

ASSUME PayloadAssumption == MaxPayload \in Nat

Text(text) == [kind |-> "text", text |-> text]
Number(n) == [kind |-> "number", number |-> n]
Line(op, args) == [token |-> "line", op |-> op, args |-> args]
Body(bytes) == [token |-> "body", bytes |-> bytes]

None == <<>>
Some(x) == <<x>>
IsNumber(word) == word.kind = "number"

-----------------------------------------------------------------------------
\* Operations.

PublishOps == {"PUB", "HPUB"}
MessageOps == {"MSG", "HMSG"}
HeadedOps == {"HPUB", "HMSG"}

\* payload_length: the last word, if there are as many as must be numbers.
LengthOf(line) ==
    LET trailing == IF line.op \in HeadedOps THEN 2 ELSE 1
    IN  IF line.args # <<>> /\ IsNumber(Last(line.args)) /\ Len(line.args) >= trailing
        THEN Some(Last(line.args).number) ELSE None

\* read_exact_crlf.
ReadBody(socket, length) ==
    IF length <= MaxPayload /\ socket # <<>> /\ Head(socket).token = "body"
       /\ Len(Head(socket).bytes) = length
    THEN Taken(Head(socket).bytes, Tail(socket)) ELSE Failed

\* split_headers: the headers come first, and the word before the last says
\* how many bytes they are.
WithHeaders(line, body) == Some(body)
WithoutHeaders(line, body) ==
    LET size == line.args[Len(line.args) - 1]
    IN  CASE line.op \notin HeadedOps -> Some(body)
          [] line.op \in HeadedOps /\ (Len(line.args) < 2 \/ ~IsNumber(size)) -> None
          [] OTHER -> IF size.number > Len(body) THEN None
                      ELSE Some(SubSeq(body, size.number + 1, Len(body)))

\* A word more than must be there is where answers go.
ReplyTo(line) ==
    IF line.op \in MessageOps /\ Len(line.args) > (IF line.op \in HeadedOps THEN 4 ELSE 3)
    THEN Some(line.args[3]) ELSE None

Frame(kind, subject, replyTo, payload, raw) ==
    [kind |-> kind, subject |-> subject, replyTo |-> replyTo, payload |-> payload, raw |-> raw]
Control(line) == Frame("control", None, None, <<>>, <<line>>)

ReadFrame(socket) ==
    LET line    == Head(socket)
        length  == LengthOf(line)
        body    == ReadBody(Tail(socket), length[1])
        payload == WithoutHeaders(line, body.result)
        kind    == IF line.op \in PublishOps THEN "publish" ELSE "message"
    IN  CASE socket = <<>> -> Ended
          [] socket # <<>> /\ line.token # "line" -> Failed
          [] socket # <<>> /\ line.token = "line" ->
                IF line.op \notin PublishOps \cup MessageOps THEN Taken(Control(line), Tail(socket))
                ELSE IF length = None \/ ~IsTaken(body) \/ payload = None THEN Failed
                ELSE Taken(Frame(kind, Some(Head(line.args)), ReplyTo(line), payload[1],
                                 <<line, Body(body.result)>>),
                           body.left)

-----------------------------------------------------------------------------
\* Acks.  A subject is a sequence of words.

AckPrefix == <<Text("$JS"), Text("ACK")>>

\* parse_ack_subject: the number of words tells the two layouts apart.
ParseAck(subject) ==
    LET at == CASE Len(subject) = 9 -> 4 [] Len(subject) = 12 -> 6 [] OTHER -> 0
    IN  IF at # 0 /\ IsPrefix(AckPrefix, subject) /\ IsNumber(subject[at + 1])
        THEN Some([consumer |-> subject[at], delivered |-> subject[at + 1].number])
        ELSE None

\* ack_event: how the payload of an ack begins.
AckTokens == {"", "+ACK", "-NAK", "+WPI", "+TERM", "+NXT"}
AckEvent(token) ==
    CASE token \in {"", "+ACK"} -> "acked"
      [] token = "+TERM" -> "terminated"
      [] OTHER -> "nacked"

-----------------------------------------------------------------------------
\* What a client or a server may send.

Bytes == UNION {[1 .. n -> {0, 1}] : n \in 0 .. MaxPayload}
Subject == Text("ledger")
Inbox == Text("inbox")

Plain(op, between, payload) ==
    <<Line(op, <<Subject>> \o between \o <<Number(Len(payload))>>), Body(payload)>>
WithHeader(op, between, header, payload) ==
    <<Line(op, <<Subject>> \o between
                   \o <<Number(Len(header)), Number(Len(header) + Len(payload))>>),
      Body(header \o payload)>>

\* Every operation, in both forms, with and without somewhere to answer: the
\* frame is read whole and forwarded as it came, nothing of the next one with it,
\* and its payload is the same whatever its headers are.
Reads(sent, kind, replyTo, payload) ==
    \A follower \in {<<>>, <<Line("PING", <<>>)>>} :
        ReadFrame(sent \o follower) =
            (IF Len(sent[2].bytes) <= MaxPayload
             THEN Taken(Frame(kind, Some(Subject), replyTo, payload, sent), follower)
             ELSE Failed)

FramesAreRead ==
    \A header, payload \in Bytes, reply \in {<<>>, <<Inbox>>} :
        /\ Reads(Plain("PUB", reply, payload), "publish", None, payload)
        /\ Reads(WithHeader("HPUB", reply, header, payload), "publish", None, payload)
        /\ Reads(Plain("MSG", <<Number(7)>> \o reply, payload), "message", reply, payload)
        /\ Reads(WithHeader("HMSG", <<Number(7)>> \o reply, header, payload), "message", reply,
                 payload)

NoFrameIsCutShort ==
    /\ \A payload \in Bytes : FailsWhenCut(Plain("MSG", <<Number(7)>>, payload), ReadFrame)
    /\ FailsWhenCut(<<Line("PING", <<>>)>>, ReadFrame)

\* Both layouts of an ack subject name their consumer and count, whatever else
\* they say, and a subject of any other shape names nothing.
Filler(n) == [i \in 1 .. n |-> Text("x")]
AcksNameTheirConsumer ==
    /\ \A consumer \in {Text("C"), Number(9)}, n \in 0 .. 3, before \in {2, 4}, after \in 3 .. 6 :
           LET subject == AckPrefix \o Filler(before - 1) \o <<consumer, Number(n)>> \o Filler(after)
               layout  == <<before, after>> \in {<<2, 4>>, <<4, 5>>}
           IN  ParseAck(subject) =
                   (IF layout THEN Some([consumer |-> consumer, delivered |-> n]) ELSE None)
    /\ \A n \in 0 .. 12 : ParseAck(AckPrefix \o Filler(n)) = None
    /\ \A token \in AckTokens : (AckEvent(token) = "acked") <=> (token \in {"", "+ACK"})
=============================================================================
