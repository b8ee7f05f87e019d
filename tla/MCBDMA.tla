------------------------------- MODULE MCBDMA -------------------------------
(***************************************************************************)
(* Instance of BDMA for TLC: two callers and loops of two naps.            *)
(***************************************************************************)
EXTENDS BDMA
=============================================================================
