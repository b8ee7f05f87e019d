--------------------------- MODULE MCMSMailboxTx ----------------------------
(***************************************************************************)
(* Instance of MSMailboxTx for TLC: two threads of the ioctl path, groups  *)
(* of three words, and three mails: a plain one, one whose words carry     *)
(* every status bit and FIRE, one with INSTANT.                            *)
(***************************************************************************)
EXTENDS MSMailboxTx

MCRaw == <<{}, {"FIRE", "BUSY", "OVERFLOW"}, {"INSTANT"}>>
=============================================================================
