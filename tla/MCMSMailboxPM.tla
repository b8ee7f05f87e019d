--------------------------- MODULE MCMSMailboxPM ----------------------------
(***************************************************************************)
(* Instance of MSMailboxPM for TLC: a ring of three slots that is filled,  *)
(* emptied and gone around more than twice.                                *)
(***************************************************************************)
EXTENDS MSMailboxPM
=============================================================================
