------------------------------ MODULE MCCECRx -------------------------------
(***************************************************************************)
(* Instance of CECRx for TLC: the four slots of the FIFO, which messages   *)
(* overrun when the client leaves four there.                              *)
(***************************************************************************)
EXTENDS CECRx
=============================================================================
