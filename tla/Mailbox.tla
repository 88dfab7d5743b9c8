-------------------------------- MODULE Mailbox --------------------------------
(***************************************************************************)
(* What the server promises to keep for one device, whatever its database  *)
(* does with duplicates and with the order of the calls: for each channel  *)
(* at most one version, which is a published one, unread until it is       *)
(* acknowledged; and the device is told of nothing but the last version    *)
(* published and the versions kept unread.                                 *)
(***************************************************************************)
EXTENDS Naturals

CONSTANTS ChannelIDs, MaxVersion

VARIABLES
  box,     \* of each channel: {}, or what is kept for it
  latest,  \* the version last published on each channel, 0 for none
  told     \* <<channel, version>> pairs the device was told of

vars == <<box, latest, told>>

Blank == [vs |-> 0, new |-> "unset"]

Init ==
  /\ box = [c \in ChannelIDs |-> {}]
  /\ latest = [c \in ChannelIDs |-> 0]
  /\ told = {}

Becomes(c, kept) ==
  /\ box' = [box EXCEPT ![c] = kept]
  /\ UNCHANGED <<latest, told>>

Open(c) == box[c] = {} /\ Becomes(c, {Blank})

Drop(c) == Becomes(c, {})

\* A version is kept only where the channel is open, and in the place of
\* whatever was there.
Keep(c, v) ==
  /\ box[c] # {}
  /\ v \in 1..latest[c]
  /\ Becomes(c, {[vs |-> v, new |-> "true"]})

Acknowledge(c) == Becomes(c, {[e EXCEPT !.new = "false"] : e \in box[c]})

Publish(c) ==
  /\ latest[c] < MaxVersion
  /\ latest' = [latest EXCEPT ![c] = @ + 1]
  /\ UNCHANGED <<box, told>>

Tell(pairs) == told' = told \cup pairs /\ UNCHANGED <<box, latest>>

Notify(c) == latest[c] > 0 /\ Tell({<<c, latest[c]>>})

\* Everything unread is offered at once.
Offer ==
  Tell({p \in ChannelIDs \X (1..MaxVersion) : [vs |-> p[2], new |-> "true"] \in box[p[1]]})

Next ==
  \/ Offer
  \/ \E c \in ChannelIDs :
       \/ Open(c) \/ Drop(c) \/ Acknowledge(c) \/ Publish(c) \/ Notify(c)
       \/ \E v \in 1..MaxVersion : Keep(c, v)

Spec == Init /\ [][Next]_vars
================================================================================
