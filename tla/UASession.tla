------------------------------ MODULE UASession ------------------------------
(***************************************************************************)
(* The WebSocket sessions of the User Agent front end: ws_server.js (the   *)
(* connection callbacks), datamanager.js, connectors/*.js (the in-memory   *)
(* table of connectors of each worker process), the events the websocket   *)
(* library emits, and the connection state kept in the "node" documents.   *)
(*                                                                         *)
(* A connection says hello at most once, so the connector object created   *)
(* for it is identified with the connection.  Channels, payloads and the   *)
(* text of the answers are left to other modules.                          *)
(***************************************************************************)
EXTENDS Integers, FiniteSets

CONSTANTS
  Servers,         \* the worker processes (process.serverId)
  Conns,           \* WebSocket requests, each used once
  UAIDs,           \* user agent identifiers
  Home,            \* Home[c]: the worker the request c reaches
  MaxConnections,  \* wsMaxConnections, the same for every worker
  NoConn, NoUaid, NoServer

ASSUME ConnsFinite == IsFiniteSet(Conns)
ASSUME HomeType    == Home \in [Conns -> Servers]
ASSUME MaxType     == MaxConnections \in Nat
ASSUME NullsDistinct ==
  NoConn \notin Conns /\ NoUaid \notin UAIDs /\ NoServer \notin Servers \cup {"UDP"}

VARIABLES
  ws,              \* socket of each connection: "idle" until requested
  uaid,            \* connection.uaid
  kind,            \* connector object made for the connection, or "none"
  timer,           \* its autoclose timer: "off", "armed" or "due"
  closes,          \* how many 'close' events the connection has emitted
  hello,           \* the answer to its hello
  lookups,         \* connections whose mn.getNetwork call is pending
  nodesConnectors, \* per worker, the connector registered for each uaid
  wsConnections,   \* per worker, its count of connections
  dbOps,           \* node updates sent to MongoDB and not yet executed
  node,            \* the connection fields of the node documents
  alive            \* the workers that have not exited

vars == <<ws, uaid, kind, timer, closes, hello, lookups, nodesConnectors,
          wsConnections, dbOps, node, alive>>

States == {"CONNECTED", "DISCONNECTED", "WAKEUP"}

\* A node update: the register of conn (nth = 0), or the unregister issued by
\* its nth 'close' event.  The driver spreads updates over a connection pool,
\* so pending updates execute in any order.
DbOp == [conn : Conns, nth : Nat, co : States]

NoNode == [co |-> "ABSENT", si |-> NoServer]

TypeOK ==
  /\ ws \in [Conns -> {"idle", "rejected", "open", "closing", "closed"}]
  /\ uaid \in [Conns -> UAIDs \cup {NoUaid}]
  /\ kind \in [Conns -> {"none", "ws", "udp"}]
  /\ timer \in [Conns -> {"off", "armed", "due"}]
  /\ closes \in [Conns -> Nat]
  /\ hello \in [Conns -> {"none", "pending", "ok", "error"}]
  /\ lookups \in SUBSET Conns
  /\ nodesConnectors \in [Servers -> [UAIDs -> Conns \cup {NoConn}]]
  /\ wsConnections \in [Servers -> Int]
  /\ dbOps \in SUBSET DbOp
  /\ node \in [UAIDs -> [co : States \cup {"ABSENT"}, si : Servers \cup {"UDP", NoServer}]]
  /\ alive \in SUBSET Servers

Init ==
  /\ ws = [c \in Conns |-> "idle"]
  /\ uaid = [c \in Conns |-> NoUaid]
  /\ kind = [c \in Conns |-> "none"]
  /\ timer = [c \in Conns |-> "off"]
  /\ closes = [c \in Conns |-> 0]
  /\ hello = [c \in Conns |-> "none"]
  /\ lookups = {}
  /\ nodesConnectors = [s \in Servers |-> [u \in UAIDs |-> NoConn]]
  /\ wsConnections = [s \in Servers |-> 0]
  /\ dbOps = {}
  /\ node = [u \in UAIDs |-> NoNode]
  /\ alive = Servers

(***************************************************************************)
(* The websocket library and the connector table                           *)
(***************************************************************************)
\* connection.close(): starts the closing handshake of an open connection and
\* does nothing to any other; no message is delivered afterwards.
Closed(w, S) == [c \in Conns |-> IF c \in S /\ w[c] = "open" THEN "closing" ELSE w[c]]

ConnectorOf(c, u) == nodesConnectors[Home[c]][u]

\* Mutant: the connection registered before is left open.
GetConnectorKeepsOld(c, u, k) ==
  /\ kind' = [kind EXCEPT ![c] = k]
  /\ timer' = [timer EXCEPT ![c] = IF k = "udp" THEN "armed" ELSE "off"]
  /\ nodesConnectors' = [nodesConnectors EXCEPT ![Home[c]][u] = c]
  /\ dbOps' = dbOps \cup {[conn |-> c, nth |-> 0, co |-> "CONNECTED"]}
  /\ UNCHANGED ws

\* Mutant: the UDP connector does not start its timer when it is created.
GetConnectorNoTimer(c, u, k) ==
  /\ ws' = Closed(ws, {ConnectorOf(c, u)})
  /\ kind' = [kind EXCEPT ![c] = k]
  /\ nodesConnectors' = [nodesConnectors EXCEPT ![Home[c]][u] = c]
  /\ dbOps' = dbOps \cup {[conn |-> c, nth |-> 0, co |-> "CONNECTED"]}
  /\ UNCHANGED timer

\* getWSconnector / getUDPconnector for connection c saying hello as u: the
\* connection registered before is closed and its table entry overwritten,
\* then registerNode sends the register to the data store.
GetConnector(c, u, k) ==
  /\ ws' = Closed(ws, {ConnectorOf(c, u)})
  /\ kind' = [kind EXCEPT ![c] = k]
  /\ timer' = [timer EXCEPT ![c] = IF k = "udp" THEN "armed" ELSE "off"]
  /\ nodesConnectors' = [nodesConnectors EXCEPT ![Home[c]][u] = c]
  /\ dbOps' = dbOps \cup {[conn |-> c, nth |-> 0, co |-> "CONNECTED"]}

\* Mutant: the register stores getProtocol() where getServer() belongs.
GetProtocolAsServer(c) == kind[c]

GetServer(c) == IF kind[c] = "udp" THEN "UDP" ELSE Home[c]

\* resetAutoclose of the connector registered for the uaid of c, which need
\* not be the connector of c; only UDP connectors have a timer.
ResetAutoclose(c) ==
  LET m == ConnectorOf(c, uaid[c])
  IN timer' = IF uaid[c] # NoUaid /\ m # NoConn /\ kind[m] = "udp"
              THEN [timer EXCEPT ![m] = "armed"] ELSE timer

\* Mutant: returns before the decrement when the connection has no uaid.
OnWSCloseSkipsAnonymous(c) ==
  LET m == ConnectorOf(c, uaid[c])
      op == [conn |-> c, nth |-> closes[c] + 1, co |-> "DISCONNECTED"]
  IN /\ closes' = [closes EXCEPT ![c] = @ + 1]
     /\ IF uaid[c] = NoUaid
        THEN /\ ws' = [ws EXCEPT ![c] = "closed"]
             /\ UNCHANGED <<nodesConnectors, dbOps, wsConnections>>
        ELSE /\ wsConnections' = [wsConnections EXCEPT ![Home[c]] = @ - 1]
             /\ ws' = Closed([ws EXCEPT ![c] = "closed"], {m})
             /\ nodesConnectors' = [nodesConnectors EXCEPT ![Home[c]][uaid[c]] = NoConn]
             /\ dbOps' = dbOps \cup {op}

\* Mutant: unregisterNode does not delete the table entry.
OnWSCloseKeepsEntry(c) ==
  LET m == ConnectorOf(c, uaid[c])
      op == [conn |-> c, nth |-> closes[c] + 1, co |-> "DISCONNECTED"]
  IN /\ wsConnections' = [wsConnections EXCEPT ![Home[c]] = @ - 1]
     /\ closes' = [closes EXCEPT ![c] = @ + 1]
     /\ UNCHANGED nodesConnectors
     /\ IF uaid[c] = NoUaid
        THEN ws' = [ws EXCEPT ![c] = "closed"] /\ UNCHANGED dbOps
        ELSE /\ ws' = Closed([ws EXCEPT ![c] = "closed"], {m})
             /\ dbOps' = dbOps \cup {op}

\* onWSClose with datamanager.unregisterNode: it acts on whatever connector is
\* registered for the uaid, not on the connector of the closed connection.
OnWSClose(c) ==
  LET m == ConnectorOf(c, uaid[c])
      disconnected == IF m # NoConn /\ kind[m] = "udp" THEN "WAKEUP" ELSE "DISCONNECTED"
      op == [conn |-> c, nth |-> closes[c] + 1, co |-> disconnected]
  IN /\ wsConnections' = [wsConnections EXCEPT ![Home[c]] = @ - 1]
     /\ closes' = [closes EXCEPT ![c] = @ + 1]
     /\ IF uaid[c] = NoUaid
        THEN /\ ws' = [ws EXCEPT ![c] = "closed"]
             /\ UNCHANGED <<nodesConnectors, dbOps>>
        ELSE /\ ws' = Closed([ws EXCEPT ![c] = "closed"], {m})
             /\ nodesConnectors' = [nodesConnectors EXCEPT ![Home[c]][uaid[c]] = NoConn]
             /\ dbOps' = dbOps \cup {op}

(***************************************************************************)
(* Requests and messages of the clients                                    *)
(***************************************************************************)
\* Mutant: the limit is compared once the connection is counted.
AcceptThenCheck(c) ==
  /\ ws[c] = "idle" /\ Home[c] \in alive
  /\ wsConnections[Home[c]] <= MaxConnections
  /\ ws' = [ws EXCEPT ![c] = "open"]
  /\ wsConnections' = [wsConnections EXCEPT ![Home[c]] = @ + 1]
  /\ UNCHANGED <<uaid, kind, timer, closes, hello, lookups, nodesConnectors, dbOps, node, alive>>

Accept(c) ==
  /\ ws[c] = "idle" /\ Home[c] \in alive
  /\ wsConnections[Home[c]] < MaxConnections
  /\ ws' = [ws EXCEPT ![c] = "open"]
  /\ wsConnections' = [wsConnections EXCEPT ![Home[c]] = @ + 1]
  /\ UNCHANGED <<uaid, kind, timer, closes, hello, lookups, nodesConnectors, dbOps, node, alive>>

\* The limit is reached, or request.accept throws (bad sub-protocol).
Reject(c) ==
  /\ ws[c] = "idle" /\ Home[c] \in alive
  /\ ws' = [ws EXCEPT ![c] = "rejected"]
  /\ UNCHANGED <<uaid, kind, timer, closes, hello, lookups, nodesConnectors,
                 wsConnections, dbOps, node, alive>>

\* Mutant: a hello that failed clears the uaid, so that it may be tried again.
HelloRetries(c, u, k) ==
  /\ ws[c] = "open" /\ (uaid[c] = NoUaid \/ hello[c] = "error")
  /\ uaid' = [uaid EXCEPT ![c] = u]
  /\ hello' = [hello EXCEPT ![c] = "pending"]
  /\ GetConnector(c, u, k)
  /\ UNCHANGED <<closes, lookups, wsConnections, node, alive>>

\* First hello of a connection whose connector is known at once: no wake-up
\* data (WebSocket), or a network that getNetwork finds in its cache.
Hello(c, u, k) ==
  /\ ws[c] = "open" /\ uaid[c] = NoUaid
  /\ uaid' = [uaid EXCEPT ![c] = u]
  /\ hello' = [hello EXCEPT ![c] = "pending"]
  /\ GetConnector(c, u, k)
  /\ UNCHANGED <<closes, lookups, wsConnections, node, alive>>

\* First hello of a connection whose network is looked up in the database.
HelloLookup(c, u) ==
  /\ ws[c] = "open" /\ uaid[c] = NoUaid
  /\ uaid' = [uaid EXCEPT ![c] = u]
  /\ hello' = [hello EXCEPT ![c] = "pending"]
  /\ lookups' = lookups \cup {c}
  /\ UNCHANGED <<ws, kind, timer, closes, nodesConnectors, wsConnections, dbOps, node, alive>>

\* Any message that keeps the connection open: a ping, register, unregister,
\* ack, or a second hello, which is ignored.
Message(c) ==
  /\ ws[c] = "open" /\ uaid[c] # NoUaid
  /\ ResetAutoclose(c)
  /\ UNCHANGED <<ws, uaid, kind, closes, hello, lookups, nodesConnectors,
                 wsConnections, dbOps, node, alive>>

\* A message answered with an error and connection.close(): bad JSON, no uaid
\* yet, a bad channelID or update list, an unknown type, binary data.
BadMessage(c) ==
  /\ ws[c] = "open"
  /\ ResetAutoclose(c)
  /\ ws' = Closed(ws, {c})
  /\ UNCHANGED <<uaid, kind, closes, hello, lookups, nodesConnectors,
                 wsConnections, dbOps, node, alive>>

\* The client starts the closing handshake.
PeerClose(c) ==
  /\ ws[c] = "open"
  /\ ws' = [ws EXCEPT ![c] = "closing"]
  /\ UNCHANGED <<uaid, kind, timer, closes, hello, lookups, nodesConnectors,
                 wsConnections, dbOps, node, alive>>

(***************************************************************************)
(* Asynchronous events                                                     *)
(***************************************************************************)
\* Mutant: the callback of getNetwork may run again.
LookupReturnsTwice(c, k) ==
  /\ c \in lookups
  /\ GetConnector(c, uaid[c], k)
  /\ UNCHANGED <<uaid, closes, hello, lookups, wsConnections, node, alive>>

\* The callback of mn.getNetwork with a connector of kind k.
LookupReturns(c, k) ==
  /\ c \in lookups
  /\ lookups' = lookups \ {c}
  /\ GetConnector(c, uaid[c], k)
  /\ UNCHANGED <<uaid, closes, hello, wsConnections, node, alive>>

\* Mutant: the error of the lookup is logged and not answered.
LookupFailsSilently(c) ==
  /\ c \in lookups
  /\ lookups' = lookups \ {c}
  /\ UNCHANGED <<ws, uaid, kind, timer, closes, hello, nodesConnectors, wsConnections,
                 dbOps, node, alive>>

\* The callback of mn.getNetwork with an error: ERROR_GETTING_CONNECTOR.
LookupFails(c) ==
  /\ c \in lookups
  /\ lookups' = lookups \ {c}
  /\ hello' = [hello EXCEPT ![c] = "error"]
  /\ UNCHANGED <<ws, uaid, kind, timer, closes, nodesConnectors, wsConnections, dbOps, node, alive>>

\* The TCP socket is gone: the library emits 'close' once.
SocketClosed(c) ==
  /\ ws[c] \in {"open", "closing"}
  /\ OnWSClose(c)
  /\ UNCHANGED <<uaid, kind, timer, hello, lookups, node, alive>>

\* The ten seconds of the autoclose timer have passed.
AutocloseElapses(c) ==
  /\ timer[c] = "armed"
  /\ timer' = [timer EXCEPT ![c] = "due"]
  /\ UNCHANGED <<ws, uaid, kind, closes, hello, lookups, nodesConnectors,
                 wsConnections, dbOps, node, alive>>

\* The timer's callback: connection.drop(), which emits 'close' whether or not
\* the connection has already done so.
AutocloseFires(c) ==
  /\ timer[c] = "due"
  /\ timer' = [timer EXCEPT ![c] = "off"]
  /\ OnWSClose(c)
  /\ UNCHANGED <<uaid, kind, hello, lookups, node, alive>>

\* The callback of registerNode answers the hello if its worker still runs.
Answer(c, a) == hello' = IF Home[c] \in alive THEN [hello EXCEPT ![c] = a] ELSE hello

\* Mutant: the upsert writes the fields of a new document only.
RegisterInsertsOnly(op) ==
  /\ op \in dbOps /\ op.nth = 0
  /\ dbOps' = dbOps \ {op}
  /\ node' = [node EXCEPT ![uaid[op.conn]] =
               IF @ = NoNode THEN [co |-> op.co, si |-> GetServer(op.conn)] ELSE @]
  /\ Answer(op.conn, "ok")
  /\ UNCHANGED <<ws, uaid, kind, timer, closes, lookups, nodesConnectors,
                 wsConnections, alive>>

\* findByIdAndUpdate with upsert.
RegisterExecutes(op) ==
  /\ op \in dbOps /\ op.nth = 0
  /\ dbOps' = dbOps \ {op}
  /\ node' = [node EXCEPT ![uaid[op.conn]] = [co |-> op.co, si |-> GetServer(op.conn)]]
  /\ Answer(op.conn, "ok")
  /\ UNCHANGED <<ws, uaid, kind, timer, closes, lookups, nodesConnectors, wsConnections, alive>>

\* The data store reports an error: FAILED_REGISTERUA.
RegisterFails(op) ==
  /\ op \in dbOps /\ op.nth = 0
  /\ dbOps' = dbOps \ {op}
  /\ Answer(op.conn, "error")
  /\ UNCHANGED <<ws, uaid, kind, timer, closes, lookups, nodesConnectors,
                 wsConnections, node, alive>>

\* findByIdAndUpdate without upsert: an absent document stays absent.
UnregisterExecutes(op) ==
  /\ op \in dbOps /\ op.nth > 0
  /\ dbOps' = dbOps \ {op}
  /\ node' = [node EXCEPT ![uaid[op.conn]] =
               IF @ = NoNode THEN @ ELSE [co |-> op.co, si |-> NoServer]]
  /\ UNCHANGED <<ws, uaid, kind, timer, closes, hello, lookups, nodesConnectors,
                 wsConnections, alive>>

\* The data store reports an error, which is only logged.
UnregisterFails(op) ==
  /\ op \in dbOps /\ op.nth > 0
  /\ dbOps' = dbOps \ {op}
  /\ UNCHANGED <<ws, uaid, kind, timer, closes, hello, lookups, nodesConnectors,
                 wsConnections, node, alive>>

\* The worker exits (log.critical, an exception nobody catches): its memory and
\* sockets are gone; updates it has sent may still reach MongoDB.  The master
\* process only logs the exit.
WorkerExits(s) ==
  /\ s \in alive
  /\ alive' = alive \ {s}
  /\ ws' = [c \in Conns |-> IF Home[c] = s /\ ws[c] \in {"open", "closing"}
                            THEN "closed" ELSE ws[c]]
  /\ timer' = [c \in Conns |-> IF Home[c] = s THEN "off" ELSE timer[c]]
  /\ lookups' = {c \in lookups : Home[c] # s}
  /\ nodesConnectors' = [nodesConnectors EXCEPT ![s] = [u \in UAIDs |-> NoConn]]
  /\ wsConnections' = [wsConnections EXCEPT ![s] = 0]
  /\ UNCHANGED <<uaid, kind, closes, hello, dbOps, node>>

(***************************************************************************)
(* Specification                                                           *)
(***************************************************************************)
Client(c) ==
  \/ Accept(c) \/ Reject(c)
  \/ \E u \in UAIDs : HelloLookup(c, u)
  \/ \E u \in UAIDs, k \in {"ws", "udp"} : Hello(c, u, k)
  \/ Message(c) \/ BadMessage(c) \/ PeerClose(c)

Event(c) ==
  \/ \E k \in {"ws", "udp"} : LookupReturns(c, k)
  \/ LookupFails(c)
  \/ SocketClosed(c)
  \/ AutocloseElapses(c) \/ AutocloseFires(c)

DataStore(op) ==
  \/ RegisterExecutes(op) \/ RegisterFails(op)
  \/ UnregisterExecutes(op) \/ UnregisterFails(op)

Next ==
  \/ \E c \in Conns : Client(c) \/ Event(c)
  \/ \E op \in dbOps : DataStore(op)
  \/ \E s \in Servers : WorkerExits(s)

Spec == Init /\ [][Next]_vars

\* A pending lookup or update is answered, a closing connection's socket is
\* ended by the library's close timer, timers run.  Clients owe nothing.
Fairness ==
  /\ \A c \in Conns :
       /\ WF_vars(LookupFails(c) \/ \E k \in {"ws", "udp"} : LookupReturns(c, k))
       /\ WF_vars(ws[c] = "closing" /\ SocketClosed(c))
       /\ WF_vars(AutocloseElapses(c))
       /\ WF_vars(AutocloseFires(c))
       /\ WF_vars(\E op \in dbOps : op.conn = c /\ DataStore(op))

FairSpec == Spec /\ Fairness

(***************************************************************************)
(* Properties                                                              *)
(***************************************************************************)
HasConnector(c) == kind[c] # "none"

Registered(c) == HasConnector(c) /\ ConnectorOf(c, uaid[c]) = c

\* The device of an open, hello'd connection can be reached through the table:
\* no interleaving of hellos, late lookups, stale 'close' events and autoclose
\* timers leaves an open connection without its entry in nodesConnectors.
OpenSessionIsRegistered ==
  \A c \in Conns : ws[c] = "open" /\ HasConnector(c) => Registered(c)

OpenOn(s) == {c \in Conns : Home[c] = s /\ ws[c] \in {"open", "closing"}}

DroppedLate(s) == {c \in Conns : Home[c] = s /\ closes[c] > 1}

\* What wsConnections really counts: the sockets the worker holds minus the
\* connections whose autoclose timer fired after they had closed.
ConnectionAccounting ==
  \A s \in alive : wsConnections[s] = Cardinality(OpenOn(s)) - Cardinality(DroppedLate(s))

\* How far the limit of wsMaxConnections can be exceeded: by one socket for each
\* connection whose autoclose timer fired after it had closed, and no more.
OverrunBounded ==
  \A s \in alive : Cardinality(OpenOn(s)) <= MaxConnections + Cardinality(DroppedLate(s))

\* onWSClose runs at most twice for a connection, and the second time only for
\* one with a UDP connector: a timer that has fired is never armed again.
AutocloseFiresOnce ==
  \A c \in Conns : closes[c] <= 2 /\ (closes[c] = 2 => kind[c] = "udp" /\ timer[c] = "off")

\* The table keeps the promise of SlotOwner: connections that lost their entry
\* handle no message and never come back.
Owner == INSTANCE SlotOwner WITH
  Slots   <- Servers \X UAIDs,
  Owners  <- Conns,
  None    <- NoConn,
  owner   <- [s \in Servers \X UAIDs |-> nodesConnectors[s[1]][s[2]]],
  retired <- {c \in Conns : HasConnector(c) /\ ~Registered(c)},
  talking <- {c \in Conns : ws[c] = "open"}

RefinesSlotOwner == Owner!Spec

\* The hello of a connection is answered once, whatever its lookup, its register
\* and its worker do, and one that was answered with an error is not tried again
\* on its connection: the uaid it left there has later hellos ignored.
AnsweredOnce ==
  [][\A c \in Conns : hello[c] \in {"ok", "error"} => hello'[c] = hello[c]]_vars

\* A hello is answered, with success or an error, unless its worker exits.
HelloAnswered ==
  \A c \in Conns : hello[c] = "pending" ~> hello[c] # "pending" \/ Home[c] \notin alive

\* A connection displaced by a newer session of its device ends up closed.
DisplacedCloses ==
  \A c \in Conns : HasConnector(c) /\ ~Registered(c) ~> ws[c] = "closed"

\* A UDP connector left in the table by a connection that closed before its
\* lookup returned is removed by its own timer, unless another connection of
\* the same device keeps re-arming it.
UdpZombieCleared ==
  \A c \in Conns :
    ws[c] = "closed" /\ Registered(c) /\ kind[c] = "udp" ~>
      \/ ~Registered(c)
      \/ \E d \in Conns \ {c} : ws[d] = "open" /\ uaid[d] = uaid[c]

\* The stored state of a device with an open, answered session names that
\* session's server once the pending updates of the device have executed.
RoutedSession ==
  \A c \in Conns :
    /\ ws[c] = "open" /\ hello[c] = "ok"
    /\ \A op \in dbOps : uaid[op.conn] # uaid[c]
    => node[uaid[c]] = [co |-> "CONNECTED", si |-> GetServer(c)]

\* ws_server.js, "Check limits": a worker never holds more sockets than
\* wsMaxConnections.
WithinLimit == \A s \in Servers : Cardinality(OpenOn(s)) <= MaxConnections

(***************************************************************************)
(* The inductive invariant behind the safety properties                    *)
(***************************************************************************)
\* An entry of the table is a connection of the worker that said hello with
\* the uaid of the entry, and a pending lookup belongs to one that has no
\* connector yet.
TableSound ==
  /\ \A s \in Servers, u \in UAIDs :
       LET m == nodesConnectors[s][u]
       IN m # NoConn => Home[m] = s /\ uaid[m] = u /\ HasConnector(m)
  /\ \A c \in Conns : HasConnector(c) \/ c \in lookups => uaid[c] # NoUaid
  /\ \A c \in lookups : ~HasConnector(c)

\* What each socket state says of the rest of the connection.
SocketSound ==
  \A c \in Conns :
    /\ ws[c] \in {"idle", "rejected"} => uaid[c] = NoUaid
    /\ ws[c] # "closed" => closes[c] = 0
    /\ ws[c] = "closed" /\ Home[c] \in alive => closes[c] > 0
    /\ Home[c] \notin alive =>
         /\ ws[c] \notin {"open", "closing"} /\ timer[c] = "off" /\ c \notin lookups
         /\ \A u \in UAIDs : ConnectorOf(c, u) = NoConn

\* A timer that is off has fired or died with its worker: the connector is
\* out of the table, so nothing arms the timer again.
TimerSound ==
  \A c \in Conns :
    /\ timer[c] # "off" => kind[c] = "udp" /\ closes[c] < 2
    /\ kind[c] = "udp" /\ timer[c] = "off" => ~Registered(c)

SessionInv ==
  /\ TypeOK
  /\ TableSound
  /\ SocketSound
  /\ TimerSound
  /\ OpenSessionIsRegistered
  /\ AutocloseFiresOnce

(***************************************************************************)
(* Devices that reconnect one connection at a time                         *)
(***************************************************************************)
\* Nothing of the earlier sessions of u is left anywhere but in the table.
Settled(u) ==
  /\ \A c \in Conns : uaid[c] = u => ws[c] = "closed" /\ timer[c] = "off" /\ c \notin lookups
  /\ \A op \in dbOps : uaid[op.conn] # u

SerialHello == \A c \in Conns : uaid'[c] # uaid[c] => Settled(uaid'[c])

SerialSpec == Init /\ [][Next /\ SerialHello]_vars

\* What the updates under way and the answer to a hello say of a connection.
OpSound ==
  \A op \in dbOps :
    /\ uaid[op.conn] # NoUaid /\ op.nth <= closes[op.conn]
    /\ op.nth = 0 => op.co = "CONNECTED" /\ hello[op.conn] = "pending" /\ HasConnector(op.conn)

HelloSound ==
  \A c \in Conns :
    /\ uaid[c] = NoUaid => hello[c] = "none"
    /\ c \in lookups => hello[c] = "pending"
    /\ hello[c] = "ok" => HasConnector(c)

Done(c) ==
  /\ ws[c] = "closed" /\ timer[c] = "off" /\ c \notin lookups
  /\ \A op \in dbOps : op.conn # c

\* Of the connections of one device, one at most is not over.
OneSession ==
  \A c, d \in Conns : uaid[c] # NoUaid /\ uaid[c] = uaid[d] /\ c # d => Done(c) \/ Done(d)

\* The node names the server of an answered session from its answer on.
Routed ==
  \A c \in Conns : ws[c] = "open" /\ hello[c] = "ok" =>
    node[uaid[c]] = [co |-> "CONNECTED", si |-> GetServer(c)]

RoutingInv == SessionInv /\ OpSound /\ HelloSound /\ OneSession /\ Routed

(***************************************************************************)
(* What the rest of the system sees of the devices                         *)
(***************************************************************************)
\* The worker of the connections in S, of which there is one at most.
ServerAmong(S) == IF S = {} THEN NoServer ELSE Home[CHOOSE c \in S : TRUE]

Held(u) == {c \in Conns : uaid[c] = u /\ ws[c] \in {"open", "closing"}}

Asking(u) == {c \in lookups : uaid[c] = u}

OpsOf(u) == {op \in dbOps : uaid[op.conn] = u}

\* The "si" that an update writes.
Written(op) == IF op.nth = 0 THEN GetServer(op.conn) ELSE NoServer

\* Tables, timers, lookups and late 'close' events make of the devices what
\* Presence says, the environment of the push pipeline: the updates of a node
\* under way are those of its last session, and the register of that session
\* is sent once, before or after its end.
Devs == INSTANCE Presence WITH
  Devices <- UAIDs,
  Workers <- Servers,
  Udp     <- {"UDP"},
  None    <- NoServer,
  session <- [u \in UAIDs |-> ServerAmong(Held(u))],
  asking  <- [u \in UAIDs |-> ServerAmong(Asking(u))],
  updates <- [u \in UAIDs |-> {Written(op) : op \in OpsOf(u)}],
  node    <- [u \in UAIDs |-> node[u].si]

RefinesPresence == Devs!Spec
=============================================================================
