-------------------------- MODULE DeviceReservation --------------------------
(***************************************************************************)
(* What the command store promises its callers, whatever the network, the  *)
(* Scene Node and the watcher do: a command reserves its device when it is *)
(* created, a device is reserved by one command at a time, and a command   *)
(* gets exactly one outcome, which releases the device for good.           *)
(***************************************************************************)
CONSTANTS Cmd, Device, DeviceOf

VARIABLE outcome   \* what is known of each command

Outcomes == {"completed", "rejected", "failed", "timeout"}

HoldersOf(d) == {c \in Cmd : DeviceOf[c] = d /\ outcome[c] = "pending"}

TypeOK == outcome \in [Cmd -> {"unknown", "pending"} \cup Outcomes]

Init == outcome = [c \in Cmd |-> "unknown"]

Reserve(c) ==
  /\ outcome[c] = "unknown"
  /\ HoldersOf(DeviceOf[c]) = {}
  /\ outcome' = [outcome EXCEPT ![c] = "pending"]

Resolve(c) ==
  /\ outcome[c] = "pending"
  /\ \E o \in Outcomes : outcome' = [outcome EXCEPT ![c] = o]

Next == \E c \in Cmd : Reserve(c) \/ Resolve(c)

Spec == Init /\ [][Next]_outcome
=============================================================================
