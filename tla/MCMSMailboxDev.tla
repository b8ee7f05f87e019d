--------------------------- MODULE MCMSMailboxDev ---------------------------
(***************************************************************************)
(* Instances of MSMailboxDev for TLC.  Dev: two processes and a third one  *)
(* to fork, each with up to two mappings.  Dev_assert: a parent and its    *)
(* child.                                                                  *)
(***************************************************************************)
EXTENDS MSMailboxDev
=============================================================================
