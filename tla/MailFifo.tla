------------------------------ MODULE MailFifo ------------------------------
(***************************************************************************)
(* What a mail ring promises: a bounded first-in first-out queue that      *)
(* takes a mail while it has room and hands out the oldest one.            *)
(***************************************************************************)
EXTENDS Naturals, Sequences

CONSTANTS
  Mail,     \* the mails
  NoMail,   \* not a mail
  Capacity  \* how many it holds

VARIABLES
  q,        \* the mails held, oldest first
  last      \* the mail handed out last

FifoInit == q = <<>> /\ last = NoMail

Put(m) == Len(q) < Capacity /\ q' = Append(q, m) /\ UNCHANGED last

Get == q # <<>> /\ last' = Head(q) /\ q' = Tail(q)

FifoNext == Get \/ \E m \in Mail : Put(m)

FifoSpec == FifoInit /\ [][FifoNext]_<<q, last>>
=============================================================================
