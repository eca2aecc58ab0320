---------------------------- MODULE MCRedisProxy ----------------------------
(***************************************************************************)
(* Two clients, interchangeable, every fault that changes what the adapter *)
(* does with a command or a reply, and the frames both come in.            *)
(***************************************************************************)
EXTENDS RedisProxy, RespWire

MCPermitted == {"connection_drop", "reorder"}
Symmetry == Permutations(Clients)

\* The adapter takes one whole reply for every command and nothing of the next
\* (read_reply, with its types, nesting and attributes): a reply read short or
\* long would be given to the wrong command ever after.  The server is asked
\* what is observed, and nothing cut off counts.  Looked at once.
FramesAreWhole == Init => RepliesAreWhole /\ NoReplyIsCutShort /\ CommandsAreWhole
=============================================================================
