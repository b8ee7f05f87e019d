------------------------------ MODULE MCCECTx -------------------------------
(***************************************************************************)
(* Instance of CECTx for TLC: two threads, a loop of two looks and two     *)
(* devices to ask.                                                         *)
(***************************************************************************)
EXTENDS CECTx
=============================================================================
