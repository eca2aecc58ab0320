------------------------------ MODULE RespWire ------------------------------
(***************************************************************************)
(* Redis commands and replies as the adapter reads them off a socket.  A   *)
(* token is a line, of which the type byte and the number after it are     *)
(* kept, or the body of a bulk string with the line end that must follow   *)
(* it.  Bytes that are read as something else than they were written as    *)
(* are an error: the adapter has lost its place.                           *)
(***************************************************************************)
EXTENDS Integers, FiniteSets, SequencesExt, Wire

CONSTANTS
    MaxDepth,     \* how deeply a reply may nest
    MaxBulk       \* bytes of a bulk string

\* Replies nest, and the bulk strings of both kinds of reply hold a byte.
ASSUME RespAssumption == MaxDepth \in Nat \ {0} /\ MaxBulk \in Nat \ {0}

Line(type, count) == [token |-> "line", type |-> type, count |-> count]
Inline(words) == [token |-> "inline", words |-> words]
Body(word) == [token |-> "body", word |-> word]

Nil == <<>>
Some(word) == <<word>>

-----------------------------------------------------------------------------
\* Lines and bulk strings.

ReadLine(socket) ==
    CASE socket = <<>> -> Ended
      [] socket # <<>> /\ Head(socket).token \notin {"line", "inline"} -> Failed
      [] OTHER -> Taken(Head(socket), Tail(socket))

IsCount(line, type) == line.token = "line" /\ line.type = type

\* read_exact_crlf.
ReadBody(socket, length) ==
    IF length <= MaxBulk /\ socket # <<>> /\ Head(socket).token = "body"
       /\ Len(Head(socket).word) = length
    THEN Taken(Head(socket).word, Tail(socket))
    ELSE Failed

-----------------------------------------------------------------------------
\* Commands.  A word is a sequence of letters, of which "a" has an upper case.

Upper(word) == [i \in DOMAIN word |-> IF word[i] = "a" THEN "A" ELSE word[i]]

AsCommand(words) == [name |-> Upper(Head(words)), args |-> Tail(words)]

\* A null argument is refused, and so is the end of the stream.
ReadBulk(socket) ==
    LET header == ReadLine(socket)
    IN  IF IsTaken(header) /\ IsCount(header.result, "$") /\ header.result.count >= 0
        THEN ReadBody(header.left, header.result.count)
        ELSE Failed

\* The loop of read_command, turn by turn.
NextWord(soFar) ==
    LET word == ReadBulk(soFar.left)
    IN  IF IsTaken(soFar) /\ IsTaken(word) THEN Taken(Append(soFar.result, word.result), word.left)
        ELSE Failed
ReadWords(socket, count) ==
    LET after[turns \in 0 .. count] ==
            IF turns = 0 THEN Taken(<<>>, socket) ELSE NextWord(after[turns - 1])
    IN  after[count]

ReadCommand(socket) ==
    LET line == ReadLine(socket)
    IN  CASE ~IsTaken(line) -> line
          [] IsTaken(line) /\ line.result.token = "inline" ->
                IF line.result.words = <<>> THEN Failed
                ELSE Taken(AsCommand(line.result.words), line.left)
          [] OTHER ->
                LET words == ReadWords(line.left, line.result.count)
                IN  IF IsCount(line.result, "*") /\ line.result.count > 0 /\ IsTaken(words)
                    THEN Taken(AsCommand(words.result), words.left)
                    ELSE Failed

Bulk(word) == <<Line("$", Len(word)), Body(word)>>
Array(words) ==
    <<Line("*", Len(words))>>
        \o [p \in 1 .. 2 * Len(words) |-> Bulk(words[(p + 1) \div 2])[2 - (p % 2)]]

Encode(command) == Array(<<command.name>> \o command.args)

-----------------------------------------------------------------------------
\* Replies.

Scalars == {"+", "-", ":", "_", "#", ",", "("}
Blobs == {"$", "!", "="}
Aggregates == {"*", "~", ">", "%"}

\* A map is pairs.
ElementsUnpaired(line) == line.count
Elements(line) == IF line.type = "%" THEN 2 * line.count ELSE line.count

Reply(raw, error, value) == [raw |-> raw, error |-> error, value |-> value]
Null(line) == Reply(<<line>>, FALSE, Nil)

\* A socket may hold the lines of every type, and what is no line.
Letters == {"a", "A", "b"}
OnSocket ==
    [token : {"line"}, type : Scalars \cup Blobs \cup Aggregates \cup {"|"}, count : Int]
        \cup [token : {"body"}, word : Seq(Letters)]
        \cup [token : {"inline"}, words : Seq(Seq(Letters))] \cup {Torn}

\* count replies in a row, each read as nested says, whose bytes are appended to
\* raw.
NextReply(soFar, nested) ==
    LET reply == nested[soFar.left]
    IN  IF IsTaken(soFar) /\ IsTaken(reply) THEN Taken(soFar.result \o reply.result.raw, reply.left)
        ELSE Failed
ReadReplies(socket, count, nested, raw) ==
    LET after[turns \in 0 .. count] ==
            IF turns = 0 THEN Taken(raw, socket) ELSE NextReply(after[turns - 1], nested)
    IN  IF count <= 0 THEN Taken(raw, socket) ELSE after[count]

ReadBlob(line, left) ==
    LET body == ReadBody(left, line.count)
    IN  CASE line.count < 0 -> Taken(Null(line), left)
          [] line.count >= 0 /\ ~IsTaken(body) -> Failed
          [] OTHER -> Taken(Reply(<<line, Body(body.result)>>, line.type = "!", Some(body.result)),
                            body.left)

ReadAggregate(line, left, nested) ==
    LET parts == ReadReplies(left, Elements(line), nested, <<line>>)
    IN  CASE line.count < 0 -> Taken(Null(line), left)
          [] line.count >= 0 /\ ~IsTaken(parts) -> Failed
          [] OTHER -> Taken(Reply(parts.result, FALSE, Nil), parts.left)

\* Metadata, and then the value it is about, for which it stands.
ReadAttributed(line, left, nested) ==
    LET pairs == ReadReplies(left, 2 * line.count, nested, <<line>>)
        value == nested[pairs.left]
    IN  IF IsTaken(pairs) /\ IsTaken(value)
        THEN Taken(Reply(pairs.result \o value.result.raw, value.result.error, value.result.value),
                   value.left)
        ELSE Failed

ReadValue(socket, nested) ==
    LET reading == ReadLine(socket)
        line == reading.result
        Is(types) == IsTaken(reading) /\ line.token = "line" /\ line.type \in types
    IN  CASE Is(Scalars) -> Taken(Reply(<<line>>, line.type = "-", Some(<<>>)), reading.left)
          [] Is(Blobs) -> ReadBlob(line, reading.left)
          [] Is(Aggregates) -> ReadAggregate(line, reading.left, nested)
          [] Is({"|"}) -> ReadAttributed(line, reading.left, nested)
          [] OTHER -> Failed

\* What is nested is read one level deeper, down to the last.
ReadReply(socket, depth) ==
    LET replies[levels \in 0 .. MaxDepth + 1] ==
            [s \in Seq(OnSocket) |-> IF levels = 0 THEN Failed ELSE ReadValue(s, replies[levels - 1])]
    IN  replies[MaxDepth + 1 - depth][socket]

-----------------------------------------------------------------------------
\* What a client and a server may send.

Words == UNION {[1 .. n -> {"a", "b"}] : n \in 0 .. MaxBulk}
Names == Words \ {<<>>}
Sentences == {<<name>> : name \in Names} \cup (Names \X Words)

\* A value: its tokens, how deeply it nests and what the adapter makes of it.
Value(tokens, deep, error, value) ==
    [tokens |-> tokens, deep |-> deep, error |-> error, value |-> value]
Deepest(a, b) == IF a < b THEN b ELSE a

Atoms ==
    {Value(<<Line("+", 0)>>, 0, FALSE, Some(<<>>)), Value(<<Line("-", 0)>>, 0, TRUE, Some(<<>>)),
     Value(<<Line("$", -1)>>, 0, FALSE, Nil), Value(Bulk(<<"a">>), 0, FALSE, Some(<<"a">>)),
     Value(<<Line("!", 1), Body(<<"b">>)>>, 0, TRUE, Some(<<"b">>))}

Around(type, count, a, b) ==
    Value(<<Line(type, count)>> \o a.tokens \o b.tokens, 1 + Deepest(a.deep, b.deep), FALSE, Nil)

\* An attribute is what is said of the value that follows it.
Attributed(a, b, c) ==
    Value(<<Line("|", 1)>> \o a.tokens \o b.tokens \o c.tokens,
          1 + Deepest(a.deep, Deepest(b.deep, c.deep)), c.error, c.value)

Nothing == Value(<<>>, -1, FALSE, Nil)
Beside(atom, values) ==
    {Around("*", 2, a, atom) : a \in values} \cup {Around("%", 1, atom, a) : a \in values}
        \cup {Attributed(atom, Value(<<Line("+", 0)>>, 0, FALSE, Some(<<>>)), a) : a \in values}
Enclosed(values) ==
    {Around("*", -1, Nothing, Nothing), Around("%", 0, Nothing, Nothing)}
        \cup {Around("~", 1, a, Nothing) : a \in values} \cup UNION {Beside(atom, values) : atom \in Atoms}

\* Values that nest as deeply as they may, and some that nest more.
Values[deep \in 0 .. MaxDepth] ==
    IF deep = 0 THEN Atoms ELSE Values[deep - 1] \cup Enclosed(Values[deep - 1])
Pushed == {Around(">", 1, value, Nothing) : value \in Values[MaxDepth]}

\* Every reply is read whole, nothing of what follows it with it, and forwarded
\* as it came, or it nests too deeply and is refused; and what the adapter says
\* of it is what the server meant.
RepliesAreWhole ==
    \A value \in Values[MaxDepth] \cup Pushed, follower \in {<<>>, <<Line("+", 0)>>} :
        ReadReply(value.tokens \o follower, 0) =
            (IF value.deep <= MaxDepth
             THEN Taken(Reply(value.tokens, value.error, value.value), follower)
             ELSE Failed)

NoReplyIsCutShort ==
    \A value \in Values[1] : FailsWhenCut(value.tokens, LAMBDA socket : ReadReply(socket, 0))

\* What goes to the server is what the client asked for and what is observed,
\* however the client framed it, and means the same to whoever reads it.
CommandsAreWhole ==
    \A words \in Sentences, follower \in {<<>>, Bulk(<<"a">>)} :
        LET reading == ReadCommand(Array(words) \o follower)
        IN  /\ reading = Taken([name |-> Upper(words[1]), args |-> Tail(words)], follower)
            /\ ReadCommand(Encode(reading.result) \o follower) = reading
            /\ <<>> \notin ToSet(words) =>
                   ReadCommand(<<Inline(words)>> \o follower) = reading
            /\ FailsWhenCut(Array(words), ReadCommand)
=============================================================================
