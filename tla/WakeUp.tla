------------------------------- MODULE WakeUp -------------------------------
(***************************************************************************)
(* How a device with a UDP connector is told that something waits for it:  *)
(* the retry timer of Monitor/Monitor.js reads the nodes with a message    *)
(* that was not acknowledged and pushes to the queue "UDP", whose consumer *)
(* WakeUp/udp_server.js asks MobileNetwork for the operator of the device  *)
(* and sends a request to the operator's wake-up server,                   *)
(* WakeUp/wakeup_server.js, which sends the device a datagram.             *)
(***************************************************************************)
EXTENDS MobileNetwork

CONSTANTS
  Devices,
  DeviceOf,    \* the device of each message and of its lookup; several of one
               \* device are those of successive retries
  NetworkOf,   \* the network each device said it is in
  Servers      \* the operators with a wake-up server that has an http(s) address

ASSUME WakeUpConstants ==
  /\ DeviceOf \in [Lookups -> Devices]
  /\ NetworkOf \in [Devices -> Networks]
  /\ Servers \subseteq Operators
  /\ Servers \cap {"free", "queued", "failed"} = {}

VARIABLES
  device,    \* "new" until a UDP connector is registered for it, then "awake",
             \* with "UDP" in "si", or "asleep" (WAKEUP), with no queue in "si"
  unacked,   \* the devices with a channel whose "new" is true
  retry,     \* what retryUDPnotACKed has read and not pushed yet
  udp,       \* the UDP server is subscribed
  ping       \* each message: "free" for none, "queued", "failed" if its lookup
             \* was, or the operator whose server has been asked; "free" too
             \* while its lookup is under way

vars == <<networkVars, device, unacked, retry, udp, ping>>

NotRead == [read |-> FALSE, nodes |-> {}]

WakeUpTypeOK ==
  /\ NetworkTypeOK
  /\ device \in [Devices -> {"new", "awake", "asleep"}]
  /\ unacked \in SUBSET Devices
  /\ retry \in [read : BOOLEAN, nodes : SUBSET Devices]
  /\ udp \in BOOLEAN
  /\ ping \in [Lookups -> {"free", "queued", "failed"} \cup Servers]

Init ==
  /\ NetworkInit
  /\ device = [d \in Devices |-> "new"] /\ unacked = {} /\ retry = NotRead /\ udp = FALSE
  /\ ping = [p \in Lookups |-> "free"]

(***************************************************************************)
(* Devices and their channels                                              *)
(***************************************************************************)
\* A hello that gets a UDP connector, and the autoclose ten seconds after the
\* last message: unregisterNode leaves no queue in the node.
Connect(d) ==
  /\ device[d] # "awake"
  /\ device' = [device EXCEPT ![d] = "awake"]
  /\ UNCHANGED <<networkVars, unacked, retry, udp, ping>>

FallAsleep(d) ==
  /\ device[d] = "awake"
  /\ device' = [device EXCEPT ![d] = "asleep"]
  /\ UNCHANGED <<networkVars, unacked, retry, udp, ping>>

\* newVersion, and the ack of a device that is connected.
NewVersion(d) ==
  /\ unacked' = unacked \cup {d}
  /\ UNCHANGED <<networkVars, device, retry, udp, ping>>

Ack(d) ==
  /\ device[d] = "awake"
  /\ unacked' = unacked \ {d}
  /\ UNCHANGED <<networkVars, device, retry, udp, ping>>

(***************************************************************************)
(* The Monitor                                                             *)
(***************************************************************************)
\* Mutant: the query asks for the channels that are not new.
RetryReadsAcked ==
  /\ retry = NotRead
  /\ retry' = [read |-> TRUE, nodes |-> {d \in Devices \ unacked : device[d] = "awake"}]
  /\ UNCHANGED <<networkVars, device, unacked, udp, ping>>

\* The timer, and the read of getUDPClientsAndUnACKedMessages.  Nodes without
\* "si" are read too; onNodeData skips them.  (Bound: one read at a time.)
RetryReads ==
  /\ retry = NotRead
  /\ retry' = [read |-> TRUE, nodes |-> {d \in unacked : device[d] = "awake"}]
  /\ UNCHANGED <<networkVars, device, unacked, udp, ping>>

\* Its callback with an error: nothing until the timer runs again.
RetryFails ==
  /\ retry.read
  /\ retry' = NotRead
  /\ UNCHANGED <<networkVars, device, unacked, udp, ping>>

Unused(p) == ping[p] \in {"free", "failed"} /\ lookup[p] = Idle

\* And with the nodes: onNodeData pushes each node to the queue "UDP", which exists
\* while the UDP server is subscribed.  (Bound: a device has as many messages in
\* flight as Lookups gives it.)
RetryPushes ==
  LET first(d) == CHOOSE p \in Lookups : Unused(p) /\ DeviceOf[p] = d
  IN /\ retry.read
     /\ retry' = NotRead
     /\ ping' = [p \in Lookups |->
          IF udp /\ Unused(p) /\ DeviceOf[p] \in retry.nodes /\ p = first(DeviceOf[p])
          THEN "queued" ELSE ping[p]]
     /\ UNCHANGED <<networkVars, device, unacked, udp>>

(***************************************************************************)
(* The UDP server                                                          *)
(***************************************************************************)
\* It subscribes, or loses its connections, and the queue is deleted.
UdpListens ==
  /\ ~udp
  /\ udp' = TRUE
  /\ UNCHANGED <<networkVars, device, unacked, retry, ping>>

UdpCut ==
  /\ udp
  /\ udp' = FALSE
  /\ ping' = [p \in Lookups |-> IF ping[p] = "queued" THEN "free" ELSE ping[p]]
  /\ UNCHANGED <<networkVars, device, unacked, retry>>

Net(p) == NetworkOf[DeviceOf[p]]

\* Mutant: without the tests of the wake-up address.
OnNetworkAny(p, op) == ping' = [ping EXCEPT ![p] = IF op = NoOperator THEN "free" ELSE op]

\* The callback of getNetwork: a request to the wake-up server, if there is one.
OnNetwork(p, op) == ping' = [ping EXCEPT ![p] = IF op \in Servers THEN op ELSE "free"]

\* onNewMessage, when the network is in the cache, and when it is not.
OnNewMessageHit(p) ==
  /\ ping[p] = "queued"
  /\ Hit(Net(p)) /\ OnNetwork(p, cache[Net(p)])
  /\ UNCHANGED <<device, unacked, retry, udp>>

OnNewMessageMiss(p) ==
  /\ ping[p] = "queued"
  /\ Miss(p, Net(p))
  /\ ping' = [ping EXCEPT ![p] = "free"]
  /\ UNCHANGED <<device, unacked, retry, udp>>

NetworkExecutes(p) == Executes(p) /\ UNCHANGED <<device, unacked, retry, udp, ping>>

NetworkReturns(p) ==
  /\ Returns(p) /\ OnNetwork(p, lookup[p].value)
  /\ UNCHANGED <<device, unacked, retry, udp>>

NetworkFails(p) ==
  /\ Fails(p)
  /\ ping' = [ping EXCEPT ![p] = "failed"]
  /\ UNCHANGED <<device, unacked, retry, udp>>

\* The request is answered once the wake-up server has given the datagram to
\* its socket, or it fails; nothing more is done either way.
RequestEnds(p) ==
  /\ ping[p] \in Servers
  /\ ping' = [ping EXCEPT ![p] = "free"]
  /\ UNCHANGED <<networkVars, device, unacked, retry, udp>>

(***************************************************************************)
(* Specification                                                           *)
(***************************************************************************)
Network ==
  /\ \/ InitNetwork \/ Reset \/ Connected \/ Closed
     \/ \E n \in Networks, o \in Document : ChangeOperator(n, o)
  /\ UNCHANGED <<device, unacked, retry, udp, ping>>

Next ==
  \/ Network
  \/ \E d \in Devices : Connect(d) \/ FallAsleep(d) \/ NewVersion(d) \/ Ack(d)
  \/ RetryReads \/ RetryFails \/ RetryPushes
  \/ UdpListens \/ UdpCut
  \/ \E p \in Lookups :
       \/ OnNewMessageHit(p) \/ OnNewMessageMiss(p)
       \/ NetworkExecutes(p) \/ NetworkReturns(p) \/ NetworkFails(p)
       \/ RequestEnds(p)

Spec == Init /\ [][Next]_vars

\* The timer runs and not all of its reads fail, the database executes and
\* answers what it is sent, a queue with a consumer is consumed.  Nothing is
\* assumed of the administrator, of devices, connections or wake-up servers.
Fairness ==
  /\ WF_vars(RetryReads) /\ SF_vars(RetryPushes)
  /\ \A p \in Lookups :
       /\ WF_vars(OnNewMessageHit(p) \/ OnNewMessageMiss(p))
       /\ WF_vars(NetworkExecutes(p)) /\ WF_vars(NetworkReturns(p))

FairSpec == Spec /\ Fairness

(***************************************************************************)
(* Properties                                                              *)
(***************************************************************************)
\* The wake-up server that is asked is one that the document of the device's
\* network has named since the last reset of the cache, unless a lookup was
\* waiting for its answer then: no message outlives a reset with an operator.
AskedIsFresh ==
  [][\A p \in Lookups : ping'[p] \in Servers \ {ping[p]} =>
        ping'[p] \in since[Net(p)] \/ Net(p) \in tainted]_vars

\* What a message would find: the cache goes before the document, for ever.
Wakeable(n) == (IF cache[n] # NoOperator THEN cache[n] ELSE operators[n]) \in Servers

CanBePinged(d) == d \in unacked /\ udp /\ db = "open" /\ Wakeable(NetworkOf[d])

\* Its wake-up server has been asked, or the lookup failed.
Pinged(d) == \E p \in Lookups : DeviceOf[p] = d /\ ping[p] \in Servers \cup {"failed"}

\* A connected UDP device that has not acknowledged a message is pinged, again
\* and again until it does.
UnackedIsPinged ==
  \A d \in Devices : device[d] = "awake" /\ CanBePinged(d) ~>
     Pinged(d) \/ ~(device[d] = "awake" /\ CanBePinged(d))

\* connectors/README.md: "connector_udp: The connection is done by closing the
\* websocket and pinging the IP and port given by the client".
AsleepIsPinged ==
  \A d \in Devices : device[d] = "asleep" /\ CanBePinged(d) ~>
     Pinged(d) \/ ~(device[d] = "asleep" /\ CanBePinged(d))
=============================================================================
