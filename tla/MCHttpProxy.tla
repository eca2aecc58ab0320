---------------------------- MODULE MCHttpProxy ----------------------------
(***************************************************************************)
(* A connection of a scenario that permits every fault which changes what  *)
(* the adapter does with a message, and the messages themselves.           *)
(***************************************************************************)
EXTENDS HttpProxy, HttpWire

MCPermitted == {"redelivery", "connection_drop", "reorder"}

\* The adapter and its two peers agree on where every message ends, whichever
\* way it was framed (framing, read_body and write_headers), so that no answer
\* is taken for that of another request; a message that was cut off is never
\* taken for a shorter one, what must be closed to be understood is closed, and
\* a corrupted answer differs in one byte.  A fact about messages, looked at once.
FramingAgrees ==
    Init => /\ EachIsRelayed /\ BodilessAreRelayed /\ NoneIsCutShort /\ OpenEndsAreClosed
            /\ CorruptsOneByte(3, 4)
=============================================================================
