------------------------------ MODULE MCShrink ------------------------------
(***************************************************************************)
(* Every oracle over a few active decisions, monotone or not.              *)
(***************************************************************************)
EXTENDS Shrink

CONSTANTS k1, k2, k3, k4

MCKeys == {k1, k2, k3, k4}

MCActive == <<k1, k2, k3, k4>>
=============================================================================
