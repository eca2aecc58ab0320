------------------------------ MODULE Schedule ------------------------------
(***************************************************************************)
(* The fault vocabulary of a scenario and what the seed may answer at a    *)
(* fork.  A decision is abstracted to its discriminant: which delay, which *)
(* byte of a frame and which later fork are drawn from the same generator  *)
(* and no property tells them apart.  Seeded::decide is a function of the  *)
(* seed and the fork alone, so a seed is any function that gives every     *)
(* fork one of the answers below.                                          *)
(***************************************************************************)

Allow == "allow"

Decisions == {Allow, "delay", "drop", "reorder", "close", "corrupt", "hold"}

PointKinds == {"deliver", "ack", "connection", "statement", "response"}

FaultKinds == {"ack_timeout", "redelivery", "swallow_ack", "connection_drop",
               "reorder", "delay", "corrupt_frame", "hold_statement"}

\* The forks a fault may fire at.
AppliesAt ==
    [ack_timeout     |-> {"ack"},
     swallow_ack     |-> {"ack"},
     redelivery      |-> {"deliver"},
     connection_drop |-> {"connection", "deliver", "statement", "response"},
     reorder         |-> {"deliver", "statement", "response"},
     delay           |-> PointKinds \ {"connection"},
     corrupt_frame   |-> {"deliver", "response"},
     hold_statement  |-> {"statement"}]

\* The forks an adapter reaches.
ForkKinds ==
    [nats     |-> {"connection", "deliver", "ack"},
     postgres |-> {"connection", "statement", "response"},
     redis    |-> {"connection", "statement", "response"},
     http     |-> {"connection", "deliver", "response"}]

\* The decision a fault turns into.  An ack held past ack_wait is a delay.
DecisionFor ==
    [ack_timeout     |-> "delay",
     swallow_ack     |-> "drop",
     redelivery      |-> "drop",
     connection_drop |-> "close",
     reorder         |-> "reorder",
     delay           |-> "delay",
     corrupt_frame   |-> "corrupt",
     hold_statement  |-> "hold"]

Candidates(enabled, kind) == {fault \in enabled : kind \in AppliesAt[fault]}

\* Every answer some seed gives at a fork of this kind.
Answers(enabled, kind) ==
    {Allow} \cup {DecisionFor[fault] : fault \in Candidates(enabled, kind)}

\* A fault no declared protocol reaches is refused by the scenario file.
ProtocolsFor(fault) ==
    {protocol \in DOMAIN ForkKinds : ForkKinds[protocol] \cap AppliesAt[fault] # {}}
=============================================================================
