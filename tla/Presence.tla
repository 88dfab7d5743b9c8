------------------------------- MODULE Presence -------------------------------
(***************************************************************************)
(* What the rest of the system sees of the devices, one session of each at *)
(* a time: the worker a device is connected to, and the "si" its node      *)
(* holds, which follows the sessions by updates that are sent one after    *)
(* the other, execute in any order, and may fail.                          *)
(***************************************************************************)
CONSTANTS
  Devices, Workers,
  Udp,    \* what "si" may hold in place of the worker: the queue of the
          \* wake-up server, or nothing where devices keep their WebSocket
  None

VARIABLES
  session,  \* the worker each device is connected to
  asking,   \* the worker that looks up the network of the device
  updates,  \* the values that updates of the node under way will write
  node      \* the "si" of the node

Init ==
  /\ session = [d \in Devices |-> None]
  /\ asking = [d \in Devices |-> None]
  /\ updates = [d \in Devices |-> {}]
  /\ node = [d \in Devices |-> None]

\* Nothing is left of the sessions before.
Free(d) == session[d] = None /\ asking[d] = None /\ updates[d] = {}

\* A hello that is registered at once.
Hello(d, w, s) ==
  /\ Free(d) /\ s \in {w} \cup Udp
  /\ session' = [session EXCEPT ![d] = w]
  /\ updates' = [updates EXCEPT ![d] = {s}]
  /\ UNCHANGED <<asking, node>>

\* A hello that is registered when the network of the device is known.
Ask(d, w) ==
  /\ Free(d)
  /\ session' = [session EXCEPT ![d] = w]
  /\ asking' = [asking EXCEPT ![d] = w]
  /\ UNCHANGED <<updates, node>>

\* The network is known, whether or not the session is still there.
Answered(d, s) ==
  /\ asking[d] # None /\ s \in {asking[d]} \cup Udp
  /\ asking' = [asking EXCEPT ![d] = None]
  /\ updates' = [updates EXCEPT ![d] = @ \cup {s}]
  /\ UNCHANGED <<session, node>>

AskFails(d) ==
  /\ asking[d] # None
  /\ asking' = [asking EXCEPT ![d] = None]
  /\ UNCHANGED <<session, updates, node>>

Close(d) ==
  /\ session[d] # None
  /\ session' = [session EXCEPT ![d] = None]
  /\ updates' = [updates EXCEPT ![d] = @ \cup {None}]
  /\ UNCHANGED <<asking, node>>

\* A session that has closed is closed again, by its autoclose timer.
ClosesAgain(d) ==
  /\ Udp # {} /\ session[d] = None
  /\ updates' = [updates EXCEPT ![d] = @ \cup {None}]
  /\ UNCHANGED <<session, asking, node>>

\* An update executes or fails; of those that close the session there may be
\* another one.
UpdateEnds(d, s) ==
  /\ s \in updates[d]
  /\ \/ updates' = [updates EXCEPT ![d] = @ \ {s}]
     \/ Udp # {} /\ s = None /\ updates' = updates
  /\ node' \in {node, [node EXCEPT ![d] = s]}
  /\ UNCHANGED <<session, asking>>

\* The sessions of the worker are gone, and nobody updates their nodes.
WorkerExits(w) ==
  /\ session' = [d \in Devices |-> IF session[d] = w THEN None ELSE session[d]]
  /\ asking' = [d \in Devices |-> IF asking[d] = w THEN None ELSE asking[d]]
  /\ UNCHANGED <<updates, node>>

Next ==
  \/ \E d \in Devices :
       \/ \E w \in Workers : Ask(d, w) \/ \E s \in {w} \cup Udp : Hello(d, w, s)
       \/ \E s \in Workers \cup Udp : Answered(d, s)
       \/ AskFails(d) \/ Close(d) \/ ClosesAgain(d)
       \/ \E s \in updates[d] : UpdateEnds(d, s)
  \/ \E w \in Workers : WorkerExits(w)

Spec == Init /\ [][Next]_<<session, asking, updates, node>>
===============================================================================
