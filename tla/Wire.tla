-------------------------------- MODULE Wire --------------------------------
(***************************************************************************)
(* Reading from a socket.  What is left of a socket is a sequence of       *)
(* tokens up to the end of its stream: a token is what the adapters read   *)
(* at once, a line or a count of bytes.  A reading is what was taken and   *)
(* what is left then, or "end" when the stream ended before anything came, *)
(* or "error".                                                             *)
(***************************************************************************)
EXTENDS Naturals, Sequences

Failed == [result |-> "error"]
Ended == [result |-> "end"]
Taken(message, left) == [result |-> message, left |-> left]
IsTaken(reading) == "left" \in DOMAIN reading

\* A line or a count of bytes of which the stream holds only the beginning.
Torn == [token |-> "torn"]

\* corrupt: one byte of a frame, whatever the offset.
Corrupt(frame, offset) ==
    IF frame = <<>> THEN frame ELSE [frame EXCEPT ![(offset % Len(frame)) + 1] = 1 - @]

\* A frame that is not empty differs in one byte, whatever the offset.
CorruptsOneByte(bytes, offsets) ==
    \A frame \in UNION {[1 .. n -> {0, 1}] : n \in 1 .. bytes}, offset \in 0 .. offsets :
        \E i \in DOMAIN frame :
            \A j \in DOMAIN frame : (Corrupt(frame, offset)[j] # frame[j]) <=> (i = j)

\* Whichever way the stream of a message is cut off, reading it fails or, if
\* nothing came at all, says that the stream ended.
FailsWhenCut(message, reads(_)) ==
    /\ reads(<<>>) \in {Ended, Failed}
    /\ \A i \in 1 .. Len(message) :
           /\ reads(SubSeq(message, 1, i - 1) \o <<Torn>>) = Failed
           /\ i < Len(message) => reads(SubSeq(message, 1, i)) = Failed
=============================================================================
