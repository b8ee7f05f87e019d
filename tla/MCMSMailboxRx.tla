--------------------------- MODULE MCMSMailboxRx ----------------------------
(***************************************************************************)
(* Instances of MSMailboxRx for TLC.  Rx: one waiter, a second thread      *)
(* that reads the ring and switches the interrupt, and a ring of three     *)
(* slots that overruns.  Rx_two: two waiters.                              *)
(***************************************************************************)
EXTENDS MSMailboxRx
=============================================================================
