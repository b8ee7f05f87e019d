----------------------------- MODULE CopyService -----------------------------
(***************************************************************************)
(* What the BDMA driver promises its callers, who may disturb each other:  *)
(* a destination is written once, not any more after "ok", and "ok" means  *)
(* that it was copied, unless the call was disturbed and is not certain of *)
(* its source.                                                             *)
(***************************************************************************)
CONSTANTS
  Callers,
  Results    \* of calls that are over; "ok" for those that have copied

VARIABLES
  result,    \* of the last call of each caller, "none" while it is under way
  busy,      \* the caller is in a call
  data,      \* its destination: "old", "part" or "new"
  disturbed, \* another caller has interfered with the call
  certain    \* the call has a checksum of its source

ServiceInit ==
  /\ result = [c \in Callers |-> "none"] /\ busy = [c \in Callers |-> FALSE]
  /\ data = [c \in Callers |-> "old"]
  /\ disturbed = [c \in Callers |-> FALSE] /\ certain = [c \in Callers |-> FALSE]

Begin(c) ==
  /\ ~busy[c] /\ busy' = [busy EXCEPT ![c] = TRUE]
  /\ result' = [result EXCEPT ![c] = "none"]
  /\ data' = [data EXCEPT ![c] = "old"]
  /\ disturbed' = [disturbed EXCEPT ![c] = FALSE]
  /\ certain' = [certain EXCEPT ![c] = FALSE]

\* A transfer changes the destination once, during the call or after it has failed.
Write(c, d) ==
  /\ result[c] # "ok" /\ data[c] = "old"
  /\ data' = [data EXCEPT ![c] = d]

Copied(c) == Write(c, "new") /\ UNCHANGED <<result, busy, disturbed, certain>>

\* Other callers' transfers are stopped, one of them half way.
Interfere(S) ==
  /\ \A c \in S : busy[c]
  /\ disturbed' = [c \in Callers |-> disturbed[c] \/ c \in S]
  /\ UNCHANGED data \/ \E c \in Callers : Write(c, "part")
  /\ UNCHANGED <<result, busy, certain>>

Ascertain(c) ==
  /\ busy[c] /\ certain' = [certain EXCEPT ![c] = TRUE]
  /\ UNCHANGED <<result, busy, data, disturbed>>

Finish(c, r) ==
  /\ busy[c] /\ busy' = [busy EXCEPT ![c] = FALSE]
  /\ r = "ok" => data[c] = "new" \/ (disturbed[c] /\ ~certain[c])
  /\ result' = [result EXCEPT ![c] = r]
  /\ UNCHANGED <<data, disturbed, certain>>

ServiceNext ==
  \/ \E c \in Callers :
       Begin(c) \/ Copied(c) \/ Ascertain(c) \/ \E r \in Results : Finish(c, r)
  \/ \E S \in SUBSET Callers : Interfere(S)

ServiceSpec ==
  ServiceInit /\ [][ServiceNext]_<<result, busy, data, disturbed, certain>>
=============================================================================
