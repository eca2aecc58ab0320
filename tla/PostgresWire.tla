---------------------------- MODULE PostgresWire ----------------------------
(***************************************************************************)
(* What the adapter makes of Postgres messages: the startup packets, the   *)
(* statement groups of a client with the SQL each is reported to run, and  *)
(* the answers of the server.  A token is a whole message; one that was    *)
(* torn, or declares a length the adapter will not buffer, is an error.    *)
(*                                                                         *)
(* SQL is its leading keyword, which is all the adapter looks at.          *)
(***************************************************************************)
EXTENDS Naturals, SequencesExt, FiniteSetsExt, Functions, Wire

CONSTANTS
    MaxMessages,       \* messages of a group; in the code, bytes
    MaxPrepared     \* names a session remembers, of statements and of portals each

ASSUME PostgresAssumption == MaxMessages \in Nat \ {0} /\ MaxPrepared \in Nat

Message(tag) == [token |-> tag]
Query(sql) == [token |-> "Q", sql |-> sql]
Parse(name, sql) == [token |-> "P", name |-> name, sql |-> sql]
Bind(portal, name) == [token |-> "B", portal |-> portal, name |-> name]
ExecuteMessage(portal) == [token |-> "E", portal |-> portal]
Close(kind, name) == [token |-> "C", kind |-> kind, name |-> name]
Sync == Message("S")
Overlong == Message("overlong")

Nothing == <<>>
Just(sql) == <<sql>>

\* get_or_insert.
Or(known, other) == IF known = Nothing THEN other ELSE known

\* Up to the first message of some kinds, read_message failing before it or not.
EndsAt(socket, tags) == {i \in DOMAIN socket : socket[i].token \in tags}
Unreadable == {"torn", "overlong"}

-----------------------------------------------------------------------------
\* Startup.

Encryptions == {"ssl", "gssenc"}
StartupPacket(code, fields) == [token |-> "startup", code |-> code, fields |-> fields]

\* handshake answers N to every request for encryption before anything else.
ReadStartup(socket) ==
    LET others == {i \in DOMAIN socket :
                       ~(socket[i].token = "startup" /\ socket[i].code \in Encryptions)}
        packet == socket[Min(others)]
    IN  CASE others = {} -> Ended
          [] others # {} /\ packet.token # "startup" -> Failed
          [] OTHER -> Taken([packet |-> packet, refusals |-> Min(others) - 1],
                            SubSeq(socket, Min(others) + 1, Len(socket)))

\* parameters: the last of a name counts, and the user's name is the default.
LastField(fields, name) ==
    LET named == {i \in DOMAIN fields : fields[i][1] = name}
    IN  IF named = {} THEN "" ELSE fields[Max(named)][2]
DatabaseOf(packet) ==
    LET database == LastField(packet.fields, "database")
    IN  CASE packet.code # "v3" -> ""
          [] packet.code = "v3" /\ database = "" -> LastField(packet.fields, "user")
          [] OTHER -> database

-----------------------------------------------------------------------------
\* Statement groups.

NewSession == [prepared |-> <<>>, portals |-> <<>>]

\* A map from names to SQL, which takes no more names when it is full.
Remember(map, name, sql) ==
    IF Cardinality(DOMAIN map) >= MaxPrepared /\ name \notin DOMAIN map THEN map
    ELSE [n \in DOMAIN map \cup {name} |-> IF n = name THEN sql ELSE map[n]]
ForgetNothing(map, name) == map
Forget(map, name) == Restrict(map, DOMAIN map \ {name})

\* What a message adds to what is known of its session and its group.
Learn(known, message) ==
    CASE message.token = "Q" -> [known EXCEPT !.sql = Just(message.sql)]
      [] message.token = "P" ->
            [known EXCEPT !.sql = Or(@, Just(message.sql)),
                          !.prepared = Remember(@, message.name, message.sql)]
      [] message.token = "B" /\ message.name \in DOMAIN known.prepared ->
            LET sql == known.prepared[message.name]
            IN  [known EXCEPT !.sql = Or(@, Just(sql)),
                              !.portals = Remember(@, message.portal, sql)]
      [] message.token = "E" /\ message.portal \in DOMAIN known.portals ->
            [known EXCEPT !.sql = Or(@, Just(known.portals[message.portal]))]
      [] message.token = "C" /\ message.kind = "statement" ->
            [known EXCEPT !.prepared = Forget(@, message.name)]
      [] message.token = "C" /\ message.kind = "portal" ->
            [known EXCEPT !.portals = Forget(@, message.name)]
      [] OTHER -> known

GroupEnds == {"Q", "X", "S"}
GroupParts == {"P", "B", "E", "C", "D", "p"}

\* read_group: what is known afterwards comes with the group.
ReadGroup(socket, session) ==
    LET end == Min(EndsAt(socket, GroupEnds))
        raw == SubSeq(socket, 1, end)
        before == [prepared |-> session.prepared, portals |-> session.portals, sql |-> Nothing]
        known == FoldLeft(Learn, before, raw)
    IN  CASE socket = <<>> -> Ended
          [] socket # <<>> /\ EndsAt(socket, GroupEnds) = {} -> Failed
          [] OTHER ->
                IF end > MaxMessages \/ \E i \in 1 .. end - 1 : raw[i].token \notin GroupParts
                THEN Failed
                ELSE Taken([raw |-> raw, sql |-> known.sql, terminate |-> raw[end].token = "X",
                            session |-> [prepared |-> known.prepared, portals |-> known.portals]],
                           SubSeq(socket, end + 1, Len(socket)))

\* transaction and events.
Boundaries ==
    [BEGIN |-> "begin", START |-> "begin", COMMIT |-> "commit", END |-> "commit",
     ROLLBACK |-> "rollback", ABORT |-> "rollback"]
EventsOf(sql) ==
    CASE sql = Nothing -> <<>>
      [] sql # Nothing /\ sql[1] \in DOMAIN Boundaries -> <<Boundaries[sql[1]]>>
      [] OTHER -> <<"statement">>

-----------------------------------------------------------------------------
\* Answers.  The errors of one are where its ErrorResponses are.

Unasked == {"A", "G", "H", "W"}

AnswerOf(socket) ==
    LET ends == EndsAt(socket, {"Z"})
        raw == IF ends = {} THEN socket ELSE SubSeq(socket, 1, Min(ends))
    IN  IF EndsAt(raw, Unasked \cup Unreadable) # {} THEN Failed
        ELSE Taken([raw |-> raw, errors |-> EndsAt(raw, {"E"}), complete |-> ends # {}],
                   SubSeq(socket, Len(raw) + 1, Len(socket)))

\* failure: the last field of a kind, up to the end of the fields.
FailureOf(fields) == [code |-> LastField(fields, "C"), message |-> LastField(fields, "M")]

-----------------------------------------------------------------------------
\* What a client may send: groups that run at most one statement, which they
\* or earlier ones prepared.

Keywords == {"COMMIT", "SELECT"}
Unnamed == ""
Names == {Unnamed, "s"}
RunAnew(name, sql) == <<Parse(name, sql), Bind(Unnamed, name), ExecuteMessage(Unnamed), Sync>>
RunAgain(portal, name) == <<Bind(portal, name), ExecuteMessage(portal), Sync>>
Resume(portal) == <<ExecuteMessage(portal), Sync>>
Describe(name, sql) == <<Parse(name, sql), Message("D"), Sync>>
CloseName(kind, name) == <<Close(kind, name), Sync>>
Replace(sql) == <<Close("statement", "s"), Parse(Unnamed, sql), Sync>>
Ordinary ==
    {<<Query(sql)>> : sql \in Keywords}
        \cup {RunAnew(name, sql) : name \in Names, sql \in Keywords}
        \cup {RunAgain(portal, name) : portal \in Names, name \in Names}
        \cup {Resume(portal) : portal \in Names}
        \cup {Describe(name, sql) : name \in Names, sql \in Keywords}
        \cup {CloseName(kind, name) : kind \in {"statement", "portal"}, name \in Names}
        \cup {Replace(sql) : sql \in Keywords}

\* Names mean what was last said of them: the last message before the i-th that
\* prepares or closes a statement, that binds or closes a portal.
Statement(messages, i, name) ==
    {j \in 1 .. i - 1 :
        \/ messages[j].token = "P" /\ messages[j].name = name
        \/ messages[j].token = "C" /\ messages[j].kind = "statement" /\ messages[j].name = name}
Portal(messages, i, portal) ==
    {j \in 1 .. i - 1 :
        \/ messages[j].token = "B" /\ messages[j].portal = portal
        \/ messages[j].token = "C" /\ messages[j].kind = "portal" /\ messages[j].name = portal}
IsOpen(messages, about) == about # {} /\ messages[Max(about)].token # "C"

\* A server accepts it: nothing is bound or run that is not open.
Legal(messages) ==
    \A i \in DOMAIN messages :
        /\ messages[i].token = "B" => IsOpen(messages, Statement(messages, i, messages[i].name))
        /\ messages[i].token = "E" => IsOpen(messages, Portal(messages, i, messages[i].portal))

\* Of some names, no more are open at once than a session remembers.
HasRoom(messages, names) ==
    \A i \in 1 .. Len(messages) + 1 :
        /\ Quantify(names, LAMBDA n : IsOpen(messages, Statement(messages, i, n))) <= MaxPrepared
        /\ Quantify(names, LAMBDA n : IsOpen(messages, Portal(messages, i, n))) <= MaxPrepared

\* What the server runs for the i-th message.
BoundBy(messages, i) == messages[Max(Statement(messages, i, messages[i].name))].sql
RunBy(messages, i) == BoundBy(messages, Max(Portal(messages, i, messages[i].portal)))

\* The groups of a history, each read with what follows it on the socket.
ReadNext(soFar, group, follower) ==
    LET reading == ReadGroup(group \o follower, soFar.session)
    IN  [messages |-> soFar.messages \o group, session |-> reading.result.session,
         reading |-> reading]
ReadAll(history, follower) ==
    FoldLeft(LAMBDA soFar, group : ReadNext(soFar, group, follower),
             [messages |-> <<>>, session |-> NewSession, reading |-> Ended], history)

\* While there is room for its names, the SQL a group is reported to run is what
\* the server runs for it, whichever message of whichever earlier group that SQL
\* came with.  Every beginning of a history is one, so the last group is enough.
GroupsSayWhatRuns ==
    \A history \in UNION {[1 .. n -> {group \in Ordinary : Len(group) <= MaxMessages}] :
                              n \in 1 .. 3},
       follower \in {<<>>, <<Query("SELECT")>>} :
        LET last     == ReadAll(history, follower)
            messages == last.messages
            sent     == history[Len(history)]
            runs     == Len(messages) - 1
            group    == last.reading.result
        IN  Legal(messages) /\ HasRoom(messages, Names) =>
                /\ last.reading.left = follower /\ group.raw = sent
                /\ Len(sent) = 1 => group.sql = Just(sent[1].sql)
                /\ Len(sent) > 1 /\ messages[runs].token = "E" =>
                       group.sql = Just(RunBy(messages, runs))

\* A group or an answer that was cut off is no shorter one.
NoneIsCutShort ==
    /\ \A group \in Ordinary : FailsWhenCut(group, LAMBDA socket : ReadGroup(socket, NewSession))
    /\ \A i \in 1 .. 2 : \A answer \in [1 .. i -> {Message("D"), Message("E"), Message("N")}] :
           /\ AnswerOf(Append(answer, Torn)) = Failed
           /\ ~AnswerOf(answer).result.complete
           /\ AnswerOf(answer \o <<Message("Z"), Torn>>) =
                  Taken([raw |-> Append(answer, Message("Z")),
                         errors |-> {j \in DOMAIN answer : answer[j] = Message("E")},
                         complete |-> TRUE],
                        <<Torn>>)

\* Every request for encryption is answered before the session's own packet, and
\* that says which database the session is for.
StartupsAreUnderstood ==
    \A asked \in UNION {[1 .. n -> {StartupPacket(code, <<>>) : code \in {"ssl", "gssenc"}}] :
                             n \in 0 .. 2},
       code \in {"v3", "cancel"}, database \in {<<>>, <<<<"database", "ledger">>>>} :
        LET packet == StartupPacket(code, <<<<"user", "alice">>>> \o database)
        IN  /\ ReadStartup(asked \o <<packet, Sync>>) =
                   Taken([packet |-> packet, refusals |-> Len(asked)], <<Sync>>)
            /\ code = "v3" =>
                   DatabaseOf(packet) = (IF database = <<>> THEN "alice" ELSE "ledger")
            /\ ReadStartup(asked) = Ended
=============================================================================
