----------------------------- MODULE RedisProxy -----------------------------
(***************************************************************************)
(* Redis connections that share one lock key: their clients, the adapter's *)
(* task for each, the server, and the two checkers that read what the      *)
(* tasks observed.  A client takes the lock with SET key token NX PX ttl,  *)
(* every time under a token of its own, and frees it with DEL key.         *)
(*                                                                         *)
(* Commands are numbered from 1 in the order a connection asked for them.  *)
(* A delayed, held or corrupted command takes the path of an unharmed one. *)
(* No fault of a scenario answers drop at a fork of this adapter.          *)
(***************************************************************************)
EXTENDS Naturals, Sequences, SequencesExt, FiniteSetsExt, TLC

CONSTANTS
    Clients,        \* one connection each
    Permitted,      \* the faults the scenario lists
    MaxCommands     \* bound: commands the clients send between them

ASSUME MaxCommandsAssumption == MaxCommands \in Nat

Table == INSTANCE Schedule

VARIABLES
    conn,                               \* serve_connection and exchange
    link, wire,                         \* the server's end of each connection
    lock,                               \* the server's key
    unanswered, stranded,               \* EveryCommandGetsAReply
    owner, believed, pending, reported, \* LockReleasedByOwner
    secure, trespassed, stolen, overlapped      \* history

server == <<link, wire, lock>>
replyChecker == <<unanswered, stranded>>
lockChecker == <<owner, believed, pending, reported>>
checkers == <<replyChecker, lockChecker>>
history == <<secure, trespassed, stolen, overlapped>>
vars == <<conn, server, checkers, history>>

Nobody == <<>>
Other == <<>>
Token(c, order) == <<c, order>>
HolderOf(token) == token[1]
Holds(c) == lock # Nobody /\ HolderOf(lock) = c

Init ==
    /\ conn = [c \in Clients |->
                  [pc |-> "accepted", asked |-> <<>>, deferred |-> <<>>, batch |-> <<>>,
                   last |-> FALSE,
                   answers |-> <<>>, got |-> <<>>, outcome |-> "none"]]
    /\ link = [c \in Clients |-> "open"]
    /\ wire = [c \in Clients |-> "idle"]
    /\ lock = Nobody
    /\ unanswered = [c \in Clients |-> 0] /\ stranded = {}
    /\ owner = Nobody /\ believed = [c \in Clients |-> Nobody]
    /\ pending = [c \in Clients |-> <<>>] /\ reported = FALSE
    /\ secure = FALSE /\ trespassed = FALSE /\ stolen = {} /\ overlapped = FALSE

Current(c) == Head(conn[c].batch)
NameOf(c, order) == conn[c].asked[order]

-----------------------------------------------------------------------------
\* The server runs one command at a time, whether or not anybody still waits.
\* secure says that the lock's holder was told so and has not sent DEL since.

\* The server replies, with a frame that read_reply may refuse: nested too deep,
\* too long, of an unknown type, or empty.
ServerReplies(c, reply) == wire' \in {[wire EXCEPT ![c] = reply], [wire EXCEPT ![c] = "refused"]}

Execute(c) ==
    /\ wire[c] = "asked"
    /\ LET order == Current(c)
           set == NameOf(c, order) = "set"
       IN  \/ /\ set /\ lock = Nobody
              /\ lock' = Token(c, order) /\ ServerReplies(c, "ok")
              /\ UNCHANGED <<secure, stolen>>
           \/ /\ ~set
              /\ lock' = Nobody /\ ServerReplies(c, "notOk")
              /\ secure' = FALSE
              /\ stolen' = IF secure /\ ~Holds(c) THEN stolen \cup {c} ELSE stolen
           \/ /\ ServerReplies(c, "notOk")          \* null, or an error
              /\ UNCHANGED <<lock, secure, stolen>>
    /\ UNCHANGED <<conn, link, checkers, trespassed, overlapped>>

\* The time to live ends.
Expire ==
    /\ lock # Nobody
    /\ lock' = Nobody /\ secure' = FALSE
    /\ UNCHANGED <<conn, link, wire, checkers, trespassed, stolen, overlapped>>

\* The server's end of a connection goes, and with it, perhaps, the command it
\* had not run or the reply on its way.
Break(c) ==
    /\ link[c] = "open" /\ conn[c].pc \notin {"refused", "ended"}
    /\ link' = [link EXCEPT ![c] = "broken"]
    /\ wire' \in {wire, [wire EXCEPT ![c] = "idle"]}
    /\ UNCHANGED <<conn, lock, checkers, history>>

-----------------------------------------------------------------------------
\* The checkers.

\* A release clears the owner, whoever sends it.
ReleaseForgiven(c) ==
    /\ owner' = Nobody
    /\ believed' = [believed EXCEPT ![c] = Nobody]
    /\ pending' = [pending EXCEPT ![c] = Append(@, Other)]
    /\ UNCHANGED reported
Release(c) ==
    /\ reported' = (reported \/ believed[c] # owner)
    /\ owner' = Nobody
    /\ believed' = [believed EXCEPT ![c] = Nobody]
    /\ pending' = [pending EXCEPT ![c] = Append(@, Other)]

Queue(c, entry) ==
    /\ pending' = [pending EXCEPT ![c] = Append(@, entry)]
    /\ UNCHANGED <<owner, believed, reported>>

SeeCommand(c, order) ==
    /\ unanswered' = [unanswered EXCEPT ![c] = @ + 1]
    /\ \/ NameOf(c, order) = "set" /\ Queue(c, Token(c, order))
       \/ NameOf(c, order) = "del" /\ owner # Nobody /\ Release(c)
       \/ NameOf(c, order) = "del" /\ owner = Nobody /\ Queue(c, Other)
    /\ UNCHANGED stranded

\* Only +OK acquires: null is the contended case.
Acquires(entry, reply) == entry # Other /\ reply = "ok"

\* What counts as an answer for the reply checker.
OkAnswers(reply) == reply = "ok"
Answers(reply) == TRUE

SeeReply(c, reply) ==
    LET entry == Head(pending[c])
    IN  /\ unanswered' = [unanswered EXCEPT ![c] = IF Answers(reply) THEN @ - 1 ELSE @]
        /\ pending' = [pending EXCEPT ![c] = Tail(@)]
        /\ IF Acquires(entry, reply)
           THEN owner' = entry /\ believed' = [believed EXCEPT ![c] = entry]
           ELSE UNCHANGED <<owner, believed>>
        /\ UNCHANGED <<stranded, reported>>

SeeClose(c) ==
    /\ stranded' = IF unanswered[c] > 0 THEN stranded \cup {c} ELSE stranded
    /\ unanswered' = [unanswered EXCEPT ![c] = 0]
    /\ pending' = [pending EXCEPT ![c] = <<>>]
    /\ believed' = [believed EXCEPT ![c] = Nobody]
    /\ UNCHANGED <<owner, reported>>

-----------------------------------------------------------------------------
\* The accept loop and the task it spawns.

\* However serve_connection returned, what it kept is gone and the close is
\* observed.  The server may yet run the command it was sent.
End(c, result) ==
    /\ conn' = [conn EXCEPT ![c].pc = "ended", ![c].outcome = result,
                            ![c].deferred = <<>>, ![c].answers = <<>>]
    /\ SeeClose(c)

Refuse(c) ==
    /\ conn[c].pc = "accepted"
    /\ "close" \in Table!Answers(Permitted, "connection")
    /\ conn' = [conn EXCEPT ![c].pc = "refused"]
    /\ UNCHANGED <<server, checkers, history>>

Connect(c) ==
    /\ conn[c].pc = "accepted" /\ link[c] = "open"
    /\ conn' = [conn EXCEPT ![c].pc = "reading"]
    /\ UNCHANGED <<server, checkers, history>>

ConnectFails(c) ==
    /\ conn[c].pc = "accepted" /\ link[c] = "broken"
    /\ End(c, "error")
    /\ UNCHANGED <<server, history>>

Asked == FoldSet(LAMBDA c, n : n + Len(conn[c].asked), 0, Clients)

Read(c) ==
    LET order == Len(conn[c].asked) + 1
    IN  /\ conn[c].pc = "reading" /\ Asked < MaxCommands
        /\ \E name \in {"set", "del"}, decision \in Table!Answers(Permitted, "statement") :
               LET asked == Append(conn[c].asked, name)
               IN  \/ /\ decision = "reorder"
                      /\ conn' = [conn EXCEPT ![c].asked = asked,
                                              ![c].deferred = Append(@, order)]
                      /\ UNCHANGED checkers
                   \/ decision = "close" /\ End(c, "ok")
                   \/ /\ decision \notin {"reorder", "close"}
                      /\ conn' = [conn EXCEPT ![c].asked = asked,
                                              ![c].batch = <<order>> \o Reverse(conn[c].deferred),
                                              ![c].deferred = <<>>,
                                              ![c].pc = "forwarding"]
                      /\ UNCHANGED checkers
        /\ UNCHANGED <<server, history>>

\* A command that makes the server speak unasked is refused, and so is a frame
\* that does not decode.  What was deferred is not sent.
ReadFails(c) ==
    /\ conn[c].pc = "reading"
    /\ End(c, "error")
    /\ UNCHANGED <<server, history>>

\* The client stops sending, or the run is cancelled.
StopReading(c) ==
    /\ conn[c].pc = "reading"
    /\ \/ conn[c].deferred = <<>> /\ End(c, "ok")
       \/ /\ conn[c].deferred # <<>>
          /\ conn' = [conn EXCEPT ![c].batch = Reverse(conn[c].deferred),
                                  ![c].deferred = <<>>, ![c].last = TRUE,
                                  ![c].pc = "forwarding"]
          /\ UNCHANGED checkers
    /\ UNCHANGED <<server, history>>

-----------------------------------------------------------------------------
\* exchange.  Each command is answered before the next is written.

InExchange(c) == wire[c] = "asked" \/ conn[c].pc \in {"written", "awaiting"}

Write(c) ==
    LET del == NameOf(c, Current(c)) = "del"
    IN  /\ conn[c].pc = "forwarding"
        /\ conn' = [conn EXCEPT ![c].pc = "written"]
        /\ wire' = IF link[c] = "open" THEN [wire EXCEPT ![c] = "asked"] ELSE wire
        /\ overlapped' = (overlapped \/ \E other \in Clients \ {c} : InExchange(other))
        /\ trespassed' = (trespassed \/ (del /\ ~Holds(c)))
        /\ secure' = (secure /\ ~(del /\ Holds(c)))
        /\ UNCHANGED <<link, lock, checkers, stolen>>

WriteFails(c) ==
    /\ conn[c].pc = "forwarding" /\ link[c] = "broken"
    /\ End(c, "error")
    /\ UNCHANGED <<server, history>>

ObserveCommand(c) ==
    /\ conn[c].pc = "written"
    /\ SeeCommand(c, Current(c))
    /\ conn' = [conn EXCEPT ![c].pc = "awaiting"]
    /\ UNCHANGED <<server, history>>

InTheOrderAnswered(orders) == orders
InTheOrderAsked(orders) ==
    CHOOSE sorted \in [DOMAIN orders -> ToSet(orders)] :
        \A i, j \in DOMAIN orders : i < j => sorted[i] < sorted[j]

ObserveReply(c) ==
    LET rest == Tail(conn[c].batch)
        all == Append(conn[c].answers, Current(c))
    IN  /\ conn[c].pc = "awaiting" /\ wire[c] \in {"ok", "notOk"}
        /\ SeeReply(c, wire[c])
        /\ wire' = [wire EXCEPT ![c] = "idle"]
        /\ secure' = (secure \/ (wire[c] = "ok" /\ lock = Token(c, Current(c))))
        /\ conn' = [conn EXCEPT
                        ![c].batch = rest,
                        ![c].answers = IF rest = <<>> THEN InTheOrderAsked(all) ELSE all,
                        ![c].pc = IF rest = <<>> THEN "answering" ELSE "forwarding"]
        /\ UNCHANGED <<link, lock, trespassed, stolen, overlapped>>

\* read_reply fails: the stream ended, or what came is no reply it takes.
NoReply(c) ==
    /\ conn[c].pc = "awaiting" /\ (link[c] = "broken" \/ wire[c] = "refused")
    /\ End(c, "error")
    /\ UNCHANGED <<server, history>>

Respond(c) ==
    LET answer == Head(conn[c].answers)
    IN  /\ conn[c].pc = "answering" /\ conn[c].answers # <<>>
        /\ \E decision \in Table!Answers(Permitted, "response") :
               \/ /\ decision \in {"allow", "delay", "corrupt"}
                  /\ conn' = [conn EXCEPT ![c].got = Append(@, answer), ![c].answers = Tail(@)]
                  /\ UNCHANGED checkers
               \/ decision = "close" /\ End(c, "ok")
               \/ decision \in {"reorder", "hold"} /\ End(c, "undoable")
        /\ UNCHANGED <<server, history>>

RespondFails(c) ==
    /\ conn[c].pc = "answering" /\ conn[c].answers # <<>>
    /\ End(c, "error")
    /\ UNCHANGED <<server, history>>

Return(c) ==
    /\ conn[c].pc = "answering" /\ conn[c].answers = <<>>
    /\ \/ conn[c].last /\ End(c, "ok")
       \/ ~conn[c].last /\ conn' = [conn EXCEPT ![c].pc = "reading"] /\ UNCHANGED checkers
    /\ UNCHANGED <<server, history>>

Adapter(c) ==
    \/ Refuse(c) \/ Connect(c) \/ ConnectFails(c)
    \/ Read(c) \/ ReadFails(c) \/ StopReading(c)
    \/ Write(c) \/ WriteFails(c) \/ ObserveCommand(c)
    \/ ObserveReply(c) \/ NoReply(c)
    \/ Respond(c) \/ RespondFails(c) \/ Return(c)

Next == Expire \/ \E c \in Clients : Adapter(c) \/ Execute(c) \/ Break(c)

Spec == Init /\ [][Next]_vars

-----------------------------------------------------------------------------

Orders == 1..MaxCommands
Tokens == {Token(c, order) : c \in Clients, order \in Orders}

\* Every variable holds what the code's types allow, no task has more than one
\* command unanswered, and the two checkers' queues of commands stay aligned.
TypeOK ==
    /\ Asked <= MaxCommands
    /\ \A c \in Clients :
           /\ {conn[c].deferred, conn[c].batch, conn[c].answers, conn[c].got} \subseteq Seq(Orders)
           /\ conn[c].pc \in {"accepted", "refused", "reading", "forwarding", "written",
                              "awaiting", "answering", "ended"}
           /\ conn[c].outcome \in {"none", "ok", "error", "undoable"}
           /\ unanswered[c] = (IF conn[c].pc = "awaiting" THEN 1 ELSE 0)
           /\ Len(pending[c]) = unanswered[c]
    /\ link \in [Clients -> {"open", "broken"}]
    /\ wire \in [Clients -> {"idle", "asked", "ok", "notOk", "refused"}]
    /\ {lock, owner} \cup {believed[c] : c \in Clients} \subseteq Tokens \cup {Nobody}
    /\ stolen \cup stranded \subseteq Clients

\* A client matches replies to commands by position, so however the schedule
\* reordered the commands the n-th reply it reads is that of its n-th command
\* (the sort in exchange).
RepliesMatchPositions ==
    \A c \in Clients : \A i \in DOMAIN conn[c].got : conn[c].got[i] = i

\* The reply checker fires for no fault of the schedule: only a connection that
\* the server broke before it answered, or whose server answered what the adapter
\* refuses, is reported.
StrandedOnlyByServer ==
    \A c \in stranded :
        (link[c] = "broken" \/ wire[c] = "refused") /\ conn[c].outcome = "error"

\* While exchanges do not overlap, the lock checker fires only if some client
\* did send DEL for a lock it did not hold at that moment.
QuietWithoutTrespass == reported /\ ~overlapped => trespassed

\* While exchanges do not overlap, a DEL that removes a lock which another
\* connection took and has not released is reported, whatever expired, broke or
\* was reordered before it, once the adapter has observed it.
TheftIsReported ==
    ~overlapped => \A c \in stolen : conn[c].pc # "written" => reported

\* The lock checker reports what it should and nothing else.
LockReportsAreRight == QuietWithoutTrespass /\ TheftIsReported
=============================================================================
