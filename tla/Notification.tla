----------------------------- MODULE Notification -----------------------------
(***************************************************************************)
(* What the push pipeline promises an application server, in the abstract: *)
(* a device is told of a version that was accepted, once at most, and      *)
(* never of version 0.  Nothing says that it is told.                      *)
(***************************************************************************)
EXTENDS Naturals, Sequences

CONSTANTS Puts, Devices, MaxVersion, NoVersion

VARIABLES
  version,   \* the version each put was accepted with, or NoVersion
  told       \* the versions each device was told on account of each put

Init ==
  /\ version = [p \in Puts |-> NoVersion]
  /\ told = [p \in Puts |-> [d \in Devices |-> <<>>]]

Accept(p, v) ==
  /\ version[p] = NoVersion
  /\ version' = [version EXCEPT ![p] = v]
  /\ UNCHANGED told

Tell(p, d) ==
  /\ version[p] \notin {NoVersion, 0}
  /\ told[p][d] = <<>>
  /\ told' = [told EXCEPT ![p][d] = <<version[p]>>]
  /\ UNCHANGED version

Next == \E p \in Puts : \/ \E v \in 0..MaxVersion : Accept(p, v)
                        \/ \E d \in Devices : Tell(p, d)

Spec == Init /\ [][Next]_<<version, told>>
===============================================================================
