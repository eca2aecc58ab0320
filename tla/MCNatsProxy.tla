---------------------------- MODULE MCNatsProxy ----------------------------
(***************************************************************************)
(* Two messages of a consumer, every fault that changes what a pump does   *)
(* with a delivery or an ack, or whether a connection is accepted, and     *)
(* what the adapter and the checkers read out of both.                     *)
(***************************************************************************)
EXTENDS NatsProxy, NatsWire, NatsChecks

MCPermitted == {"redelivery", "reorder", "connection_drop", "swallow_ack"}

\* What the three checkers without a state of this model are told and what they
\* make of it: frames are read whole with their payload apart from their headers
\* (read_frame), an ack subject names its consumer or nothing, a filter matches
\* what a server would deliver by it, and each check fires exactly where it says,
\* by the topology the server has.  Looked at once.
ChecksMeanWhatTheySay ==
    Init => /\ FramesAreRead /\ NoFrameIsCutShort /\ AcksNameTheirConsumer
            /\ FiltersAreExact /\ SightingsAreJudged /\ TopologyIsEnforced
=============================================================================
