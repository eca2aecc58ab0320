----------------------------- MODULE NatsProxy -----------------------------
(***************************************************************************)
(* One JetStream consumer behind the NATS adapter: the server with its     *)
(* redeliveries, the two pumps of a connection, the service that consumes, *)
(* reconnects and answers, and the checker of no_delivery_after_ack.       *)
(*                                                                         *)
(* A delivery is <<message, number>>, the number being the server's own    *)
(* count; its ack subject is unique, so it stands for that too.  Messages  *)
(* have one subject and payloads of their own.  Both pumps are branches of *)
(* one task, so a write and the observation after it are one step.         *)
(*                                                                         *)
(* Delays add nothing to the order of steps, and corrupting is left out.   *)
(* No fault answers close, reorder, corrupt or hold at an ack fork.  What  *)
(* is not a delivery or an ack passes straight through and is left out.    *)
(***************************************************************************)
EXTENDS Naturals, Sequences, FiniteSets, SequencesExt, Functions, TLC

CONSTANTS
    Messages,           \* their numbers in the stream
    Permitted,          \* the faults the scenario lists
    MaxDeliver,         \* the stream's max_deliver
    MaxPending,         \* MAX_PENDING_ACKS, the size of the table
    MaxWork,            \* bound: deliveries and connections in all
    MaxUnread           \* bound: answers of the service that wait in its socket

ASSUME MessagesAssumption == Messages \subseteq Nat \ {0}
ASSUME BoundsAssumption == {MaxDeliver, MaxPending, MaxWork, MaxUnread} \subseteq Nat \ {0}

Table == INSTANCE Schedule

VARIABLES
    state, count, toServer,             \* the server, and acks on their way to it
    connection, clientOpen, serverOpen, \* the connection and its two sockets
    closed,                             \* the token either pump cancels
    down, toClient, deferred, batch,    \* deliveries from the server, and pump_to_client
    up, toServerPump, ack,              \* answers from the service, and pump_to_server
    remembered,                         \* Pending
    inHand,                             \* the service: deliveries it may still answer
    lastDelivered, acked, fired,        \* NoDeliveryAfterAck
    received, twice, settled, overdue, mistaken, crossed, cleared    \* history

broker == <<state, count, toServer>>
sockets == <<connection, clientOpen, serverOpen>>
clientPump == <<down, toClient, deferred, batch>>
serverPump == <<up, toServerPump, ack>>
checker == <<lastDelivered, acked, fired>>
history == <<received, twice, settled, overdue, mistaken, crossed, cleared>>
vars == <<broker, sockets, closed, clientPump, serverPump, remembered, inHand, checker, history>>

Nothing == 0
MessageOf(delivery) == delivery[1]
Kinds == {"ack", "progress"}

Init ==
    /\ state = [m \in Messages |-> "queued"] /\ count = [m \in Messages |-> 0]
    /\ toServer = <<>>
    /\ connection = 1 /\ clientOpen = TRUE /\ serverOpen = TRUE /\ closed = FALSE
    /\ down = <<>> /\ toClient = "running" /\ deferred = <<>> /\ batch = <<>>
    /\ up = <<>> /\ toServerPump = "running" /\ ack = <<>>
    /\ remembered = {}
    /\ inHand = [kind \in Kinds |-> {}]
    /\ lastDelivered = Nothing /\ acked = {} /\ fired = FALSE
    /\ received = {} /\ twice = FALSE /\ settled = {} /\ overdue = FALSE
    /\ mistaken = FALSE /\ crossed = FALSE /\ cleared = FALSE

-----------------------------------------------------------------------------
\* The server delivers in the order of the stream, redelivers what was not
\* settled in time or was refused, up to max_deliver, and settles a message on
\* any ack for it.

Work == SumFunction(count) + connection

InOrder(m) == \A earlier \in Messages : earlier < m => count[earlier] >= 1

Send(m) ==
    /\ state[m] = "queued" /\ InOrder(m) /\ count[m] < MaxDeliver /\ serverOpen
    /\ Work < MaxWork
    /\ state' = [state EXCEPT ![m] = "out"]
    /\ count' = [count EXCEPT ![m] = @ + 1]
    /\ down' = Append(down, <<m, count[m] + 1>>)
    /\ crossed' = (crossed \/ m \in ToSet(toServer))
    /\ UNCHANGED <<toServer, sockets, closed, toClient, deferred, batch, serverPump,
                   remembered, inHand, checker, received, twice, settled, overdue, mistaken, cleared>>

AckWaitEnds(m) ==
    /\ state[m] = "out"
    /\ state' = [state EXCEPT ![m] = "queued"]
    /\ UNCHANGED <<count, toServer, sockets, closed, clientPump, serverPump, remembered,
                   inHand, checker, history>>

TakeAck ==
    /\ toServer # <<>>
    /\ toServer' = Tail(toServer)
    /\ state' = [state EXCEPT ![Head(toServer)] = "settled"]
    /\ UNCHANGED <<count, sockets, closed, clientPump, serverPump, remembered, inHand,
                   checker, history>>

Broker == TakeAck \/ \E m \in Messages : Send(m) \/ AckWaitEnds(m)

\* The service acks what it has in hand or leaves it, and may report progress.
\* (The checker and the server take a refusal for progress and a time-out.)
Answer(delivery, kind) ==
    /\ clientOpen /\ Len(up) < MaxUnread
    /\ up' = Append(up, [delivery |-> delivery, kind |-> kind])
    /\ inHand' = [inHand EXCEPT ![kind] = @ \ {delivery},
                                !.progress = @ \ {delivery}]
    /\ UNCHANGED <<broker, sockets, closed, clientPump, toServerPump, ack, remembered,
                   checker, history>>

CloseSocket ==
    /\ \/ clientOpen /\ clientOpen' = FALSE /\ UNCHANGED serverOpen
       \/ serverOpen /\ serverOpen' = FALSE /\ UNCHANGED clientOpen
    /\ UNCHANGED <<broker, connection, closed, clientPump, serverPump, remembered, inHand,
                   checker, history>>

-----------------------------------------------------------------------------
\* The checker.

Delivered(m) ==
    IF m \in acked
    THEN fired' = TRUE /\ UNCHANGED <<lastDelivered, acked>>
    ELSE lastDelivered' = m /\ UNCHANGED <<acked, fired>>

\* An ack names the subject; the payload is that of the subject's last delivery.
Acked ==
    /\ acked' = acked \cup ({lastDelivered} \ {Nothing})
    /\ UNCHANGED <<lastDelivered, fired>>

\* Which answers are an ack.  Progress is not one.
SettlesOrReports(kind) == kind \in {"ack", "progress"}
Settles(kind) == kind = "ack"

\* A pump that ends cancels the token the other one watches.
LeavesTheOther == UNCHANGED closed
CancelsTheOther == closed' = TRUE

\* Reading a delivery's subject for an ack leaves it for the next one.
ForgetOnRead(delivery) == remembered' = remembered \ {delivery}
KeepOnRead(delivery) == UNCHANGED remembered

-----------------------------------------------------------------------------
\* pump_to_client.

OnTheWay(m) ==
    m \in {MessageOf(delivery) : delivery \in ToSet(down \o deferred \o batch)}

\* The stack of deferred deliveries is popped onto the batch, newest first.
Release(first) == batch' = first \o Reverse(deferred) /\ deferred' = <<>>

ReadDelivery ==
    LET delivery == Head(down)
    IN  /\ toClient = "running" /\ batch = <<>> /\ ~closed /\ down # <<>>
        /\ down' = Tail(down)
        /\ \E decision \in Table!Answers(Permitted, "deliver") :
               \/ /\ decision \in {"allow", "delay"}
                  /\ Release(<<delivery>>)
                  /\ UNCHANGED <<toClient, closed>>
               \/ decision = "drop" /\ UNCHANGED <<toClient, closed, batch, deferred>>
               \/ /\ decision = "reorder"
                  /\ deferred' = Append(deferred, delivery)
                  /\ UNCHANGED <<toClient, closed, batch>>
               \/ /\ decision = "close"
                  /\ toClient' = "ended" /\ CancelsTheOther /\ deferred' = <<>>
                  /\ UNCHANGED batch
        /\ UNCHANGED <<broker, sockets, serverPump, remembered, inHand, checker, history>>

\* Pending::remember: a table that is full is emptied first.
Remember(delivery) ==
    LET full == Cardinality(remembered) >= MaxPending
    IN  /\ remembered' = (IF full THEN {} ELSE remembered) \cup {delivery}
        /\ cleared' = (cleared \/ full)

\* deliver.  The write lands or it does not: a client that went away reads no
\* more, and its task ends with StopDelivering or with an error.
WriteDelivery ==
    LET delivery == Head(batch)
        m == MessageOf(delivery)
    IN  /\ batch # <<>>
        /\ batch' = Tail(batch)
        /\ Remember(delivery)
        /\ inHand' = IF clientOpen
                     THEN [kind \in Kinds |-> inHand[kind] \cup {delivery}] ELSE inHand
        /\ Delivered(m)
        /\ received' = received \cup {<<connection, delivery>>}
        /\ twice' = (twice \/ \E n \in 1..connection : <<n, delivery>> \in received)
        /\ overdue' = (overdue \/ m \in settled)
        /\ UNCHANGED <<broker, sockets, closed, down, toClient, deferred, serverPump,
                       settled, mistaken, crossed>>

\* The server stops sending, or the other pump or the run is over.  What was
\* deferred goes first.
StopDelivering ==
    /\ toClient # "ended" /\ batch = <<>>
    /\ closed \/ (down = <<>> /\ ~serverOpen)
    /\ \/ /\ deferred # <<>>
          /\ Release(<<>>) /\ toClient' = "draining"
          /\ UNCHANGED closed
       \/ /\ deferred = <<>>
          /\ toClient' = "ended" /\ CancelsTheOther
          /\ UNCHANGED <<batch, deferred>>
    /\ UNCHANGED <<broker, sockets, down, serverPump, remembered, inHand, checker, history>>

DeliveringFails ==
    /\ toClient # "ended" /\ ~(clientOpen /\ serverOpen)
    /\ toClient' = "ended" /\ CancelsTheOther
    /\ batch' = <<>> /\ deferred' = <<>>
    /\ UNCHANGED <<broker, sockets, down, serverPump, remembered, inHand, checker, history>>

ToClient == ReadDelivery \/ WriteDelivery \/ StopDelivering \/ DeliveringFails

-----------------------------------------------------------------------------
\* pump_to_server.

ReadAck ==
    /\ toServerPump = "running" /\ ack = <<>> /\ ~closed /\ up # <<>>
    /\ up' = Tail(up)
    /\ \E decision \in Table!Answers(Permitted, "ack") :
           \/ decision \in {"allow", "delay"} /\ ack' = <<Head(up)>>
           \/ decision = "drop" /\ UNCHANGED ack
    /\ UNCHANGED <<broker, sockets, closed, clientPump, toServerPump, remembered, inHand,
                   checker, history>>

\* ack_event.  The subject is known if this connection delivered the message.
WriteAck ==
    LET delivery == Head(ack).delivery
        kind == Head(ack).kind
        m == MessageOf(delivery)
        settles == Settles(kind) /\ delivery \in remembered
        isAck == kind = "ack" /\ <<connection, delivery>> \in received
    IN  /\ ack # <<>> /\ serverOpen
        /\ toServer' = (IF kind = "ack" THEN Append(toServer, m) ELSE toServer) /\ ack' = <<>>
        /\ KeepOnRead(delivery)
        /\ IF settles THEN Acked ELSE UNCHANGED checker
        /\ settled' = IF isAck /\ lastDelivered = m THEN settled \cup {m} ELSE settled
        /\ mistaken' = (mistaken \/ (isAck /\ lastDelivered # m))
        /\ crossed' = (crossed \/ (kind = "ack" /\ OnTheWay(m)))
        /\ UNCHANGED <<state, count, sockets, closed, clientPump, up, toServerPump,
                       inHand, received, twice, overdue, cleared>>

StopAnswering ==
    /\ toServerPump = "running" /\ ack = <<>>
    /\ closed \/ (up = <<>> /\ ~clientOpen)
    /\ toServerPump' = "ended" /\ CancelsTheOther
    /\ UNCHANGED <<broker, sockets, clientPump, up, ack, remembered, inHand, checker, history>>

AnsweringFails ==
    /\ toServerPump = "running" /\ ~(clientOpen /\ serverOpen)
    /\ toServerPump' = "ended" /\ CancelsTheOther /\ ack' = <<>>
    /\ UNCHANGED <<broker, sockets, clientPump, up, remembered, inHand, checker, history>>

ToServer == ReadAck \/ WriteAck \/ StopAnswering \/ AnsweringFails

-----------------------------------------------------------------------------
\* Both pumps are over and the client library connects again; the accept loop
\* numbers the connection before it asks whether to refuse it.
Reconnect ==
    /\ toClient = "ended" /\ toServerPump = "ended" /\ Work < MaxWork
    /\ connection' = connection + 1
    /\ \E decision \in Table!Answers(Permitted, "connection") :
           \/ /\ decision = "allow"
              /\ clientOpen' = TRUE /\ serverOpen' = TRUE /\ closed' = FALSE
              /\ down' = <<>> /\ toClient' = "running" /\ deferred' = <<>> /\ batch' = <<>>
              /\ up' = <<>> /\ toServerPump' = "running" /\ ack' = <<>>
              /\ remembered' = {}
           \/ /\ decision = "close"
              /\ UNCHANGED <<clientOpen, serverOpen, closed, clientPump, serverPump, remembered>>
    /\ UNCHANGED <<broker, inHand, checker, history>>

Service == \E kind \in Kinds : \E delivery \in inHand[kind] : Answer(delivery, kind)

Next == Broker \/ Service \/ CloseSocket \/ ToClient \/ ToServer \/ Reconnect

\* Each pump goes on as long as it can.  The write it may be in the middle of
\* succeeds or fails; nothing is assumed of the service, the server or the sockets.
Spec == Init /\ [][Next]_vars /\ WF_vars(ToClient) /\ WF_vars(ToServer)

-----------------------------------------------------------------------------

Deliveries == Messages \X (1..MaxDeliver)

TypeOK ==
    /\ state \in [Messages -> {"queued", "out", "settled"}]
    /\ count \in [Messages -> 0..MaxDeliver] /\ connection \in 1..MaxWork
    /\ {down, deferred, batch} \subseteq Seq(Deliveries)
    /\ toClient \in {"running", "draining", "ended"} /\ toServerPump \in {"running", "ended"}
    /\ toClient = "ended" => batch = <<>> /\ deferred = <<>>
    /\ toServerPump = "ended" => ack = <<>>
    /\ IsInjective(deferred \o batch) /\ ToSet(down) \cap ToSet(deferred \o batch) = {}
    /\ remembered \subseteq Deliveries /\ acked \subseteq Messages
    /\ lastDelivered \in Messages \cup {Nothing}

\* no_delivery_after_ack fires only where the server delivered what had been
\* acked, an ack and a redelivery passed each other between the two, or the ack
\* was charged to another message.  Progress reported before an ack does not do it.
FiresForAReason == fired => mistaken \/ crossed

\* However deliveries are put off, drained and cut short by a reconnection, one
\* the server made reaches the client once, since what it sends again has a new
\* number; and a message acked as the latest delivery and then delivered again is
\* reported, even if the service reported progress on it before, unless the table
\* that names the acked subject was full and emptied.
RedeliveryIsReported ==
    /\ ~twice
    /\ overdue => fired \/ cleared

\* "A half-open proxy would leave the service waiting on a socket nothing is
\* ever going to write to again": when either pump ends, so does the other.
PumpsEndTogether == "ended" \in {toClient, toServerPump} ~> toClient = "ended" /\ toServerPump = "ended"

\* "The payload comes from the delivery it is answering.  That is the same
\* correspondence the server makes": no fault, no crossing, nothing to report.
SoundWithoutCrossing == fired => crossed
=============================================================================
