------------------------------ MODULE MailSlot ------------------------------
(***************************************************************************)
(* What a register group promises to a sender and a receiver: a place for  *)
(* one mail.  A mail is put into an empty place only, never a second time  *)
(* and never into two places, and it stays until it is delivered.          *)
(***************************************************************************)
EXTENDS Naturals

CONSTANTS
  Place,    \* the register groups
  Mail,     \* the mails
  Empty     \* not a mail

VARIABLES
  slot,      \* the mail in each place, or Empty
  delivered  \* the mails handed to a receiver

SlotInit == slot = [p \in Place |-> Empty] /\ delivered = {}

Put(p, m) ==
  /\ slot[p] = Empty
  /\ m \notin delivered /\ \A o \in Place : slot[o] # m
  /\ slot' = [slot EXCEPT ![p] = m]
  /\ UNCHANGED delivered

Get(p) ==
  /\ slot[p] # Empty
  /\ delivered' = delivered \union {slot[p]}
  /\ slot' = [slot EXCEPT ![p] = Empty]

SlotNext == \E p \in Place : Get(p) \/ \E m \in Mail : Put(p, m)

SlotSpec == SlotInit /\ [][SlotNext]_<<slot, delivered>>
=============================================================================
