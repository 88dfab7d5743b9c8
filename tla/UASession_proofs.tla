--------------------------- MODULE UASession_proofs ---------------------------
(***************************************************************************)
(* Proofs about UASession, for any workers, requests, uaids and limit.     *)
(***************************************************************************)
EXTENDS UASession, FiniteSetTheorems, TLAPS

LEMMA ClosedType ==
  ASSUME NEW w \in [Conns -> {"idle", "rejected", "open", "closing", "closed"}], NEW S
  PROVE  Closed(w, S) \in [Conns -> {"idle", "rejected", "open", "closing", "closed"}]
  BY DEF Closed

LEMMA GetConnectorType ==
  ASSUME TypeOK, NEW c \in Conns, NEW u, NEW k \in {"ws", "udp"},
         GetConnector(c, u, k)
  PROVE  /\ ws' \in [Conns -> {"idle", "rejected", "open", "closing", "closed"}]
         /\ kind' \in [Conns -> {"none", "ws", "udp"}]
         /\ timer' \in [Conns -> {"off", "armed", "due"}]
         /\ nodesConnectors' \in [Servers -> [UAIDs -> Conns \cup {NoConn}]]
         /\ dbOps' \in SUBSET DbOp
<1>1. ws' \in [Conns -> {"idle", "rejected", "open", "closing", "closed"}]
  BY ClosedType DEF TypeOK, GetConnector
<1>2. kind' \in [Conns -> {"none", "ws", "udp"}]
  BY DEF TypeOK, GetConnector
<1>3. timer' \in [Conns -> {"off", "armed", "due"}]
  BY DEF TypeOK, GetConnector
<1>4. nodesConnectors' \in [Servers -> [UAIDs -> Conns \cup {NoConn}]]
  BY HomeType DEF TypeOK, GetConnector
<1>5. dbOps' \in SUBSET DbOp
  BY DEF TypeOK, GetConnector, DbOp, States
<1> QED BY <1>1, <1>2, <1>3, <1>4, <1>5

LEMMA OnWSCloseType ==
  ASSUME TypeOK, NEW c \in Conns, OnWSClose(c)
  PROVE  /\ ws' \in [Conns -> {"idle", "rejected", "open", "closing", "closed"}]
         /\ closes' \in [Conns -> Nat]
         /\ nodesConnectors' \in [Servers -> [UAIDs -> Conns \cup {NoConn}]]
         /\ wsConnections' \in [Servers -> Int]
         /\ dbOps' \in SUBSET DbOp
<1>1. closes' \in [Conns -> Nat]
  <2>1. closes' = [closes EXCEPT ![c] = @ + 1]
    BY DEF OnWSClose
  <2> QED BY <2>1 DEF TypeOK
<1>2. wsConnections' \in [Servers -> Int]
  <2>1. wsConnections' = [wsConnections EXCEPT ![Home[c]] = @ - 1]
    BY DEF OnWSClose
  <2> QED BY <2>1, HomeType DEF TypeOK
<1>3. CASE uaid[c] = NoUaid
  BY <1>1, <1>2, <1>3 DEF TypeOK, OnWSClose
<1>4. CASE uaid[c] # NoUaid
  <2>1. ws' = Closed([ws EXCEPT ![c] = "closed"], {ConnectorOf(c, uaid[c])})
    BY <1>4 DEF OnWSClose
  <2>2. [ws EXCEPT ![c] = "closed"] \in [Conns -> {"idle", "rejected", "open", "closing", "closed"}]
    BY DEF TypeOK
  <2>3. ws' \in [Conns -> {"idle", "rejected", "open", "closing", "closed"}]
    BY <2>1, <2>2, ClosedType
  <2>4. nodesConnectors' = [nodesConnectors EXCEPT ![Home[c]][uaid[c]] = NoConn]
    BY <1>4 DEF OnWSClose
  <2>5. nodesConnectors' \in [Servers -> [UAIDs -> Conns \cup {NoConn}]]
    BY <2>4, HomeType DEF TypeOK
  <2>6. dbOps' \in SUBSET DbOp
    BY <1>4 DEF TypeOK, OnWSClose, DbOp, States
  <2> QED BY <1>1, <1>2, <2>3, <2>5, <2>6
<1> QED BY <1>3, <1>4

LEMMA ResetAutocloseType ==
  ASSUME TypeOK, NEW c \in Conns, ResetAutoclose(c)
  PROVE  timer' \in [Conns -> {"off", "armed", "due"}]
  BY DEF TypeOK, ResetAutoclose

LEMMA TypeStep == TypeOK /\ [Next]_vars => TypeOK'
<1> SUFFICES ASSUME TypeOK, [Next]_vars PROVE TypeOK'
  OBVIOUS
<1>1. ASSUME NEW c \in Conns, Client(c) PROVE TypeOK'
  <2>1. CASE Accept(c)
    BY <2>1, HomeType DEF TypeOK, Accept
  <2>2. CASE Reject(c)
    BY <2>2 DEF TypeOK, Reject
  <2>3. ASSUME NEW u \in UAIDs, HelloLookup(c, u) PROVE TypeOK'
    BY <2>3 DEF TypeOK, HelloLookup
  <2>4. ASSUME NEW u \in UAIDs, NEW k \in {"ws", "udp"}, Hello(c, u, k) PROVE TypeOK'
    BY <2>4, GetConnectorType DEF TypeOK, Hello
  <2>5. CASE Message(c)
    BY <2>5, ResetAutocloseType DEF TypeOK, Message
  <2>6. CASE BadMessage(c)
    BY <2>6, ResetAutocloseType, ClosedType DEF TypeOK, BadMessage
  <2>7. CASE PeerClose(c)
    BY <2>7 DEF TypeOK, PeerClose
  <2> QED BY <1>1, <2>1, <2>2, <2>3, <2>4, <2>5, <2>6, <2>7 DEF Client
<1>2. ASSUME NEW c \in Conns, Event(c) PROVE TypeOK'
  <2>1. ASSUME NEW k \in {"ws", "udp"}, LookupReturns(c, k) PROVE TypeOK'
    BY <2>1, GetConnectorType DEF TypeOK, LookupReturns
  <2>2. CASE LookupFails(c)
    BY <2>2 DEF TypeOK, LookupFails
  <2>3. CASE SocketClosed(c)
    BY <2>3, OnWSCloseType DEF TypeOK, SocketClosed
  <2>4. CASE AutocloseElapses(c)
    BY <2>4 DEF TypeOK, AutocloseElapses
  <2>5. CASE AutocloseFires(c)
    BY <2>5, OnWSCloseType DEF TypeOK, AutocloseFires
  <2> QED BY <1>2, <2>1, <2>2, <2>3, <2>4, <2>5 DEF Event
<1>3. ASSUME NEW op \in dbOps, DataStore(op) PROVE TypeOK'
  <2>0. op.conn \in Conns /\ op.co \in States
    BY DEF TypeOK, DbOp
  <2>1. GetServer(op.conn) \in Servers \cup {"UDP"}
    BY <2>0, HomeType DEF GetServer
  <2>2. CASE RegisterExecutes(op)
    <3>1. node' \in [UAIDs -> [co : States \cup {"ABSENT"}, si : Servers \cup {"UDP", NoServer}]]
      BY <2>0, <2>1, <2>2 DEF TypeOK, RegisterExecutes
    <3> QED BY <2>2, <3>1 DEF TypeOK, RegisterExecutes, Answer
  <2>3. CASE RegisterFails(op)
    BY <2>3 DEF TypeOK, RegisterFails, Answer
  <2>4. CASE UnregisterExecutes(op)
    <3>1. node' \in [UAIDs -> [co : States \cup {"ABSENT"}, si : Servers \cup {"UDP", NoServer}]]
      BY <2>0, <2>4 DEF TypeOK, UnregisterExecutes
    <3> QED BY <2>4, <3>1 DEF TypeOK, UnregisterExecutes
  <2>5. CASE UnregisterFails(op)
    BY <2>5 DEF TypeOK, UnregisterFails
  <2> QED BY <1>3, <2>2, <2>3, <2>4, <2>5 DEF DataStore
<1>4. ASSUME NEW s \in Servers, WorkerExits(s) PROVE TypeOK'
  <2>1. nodesConnectors' \in [Servers -> [UAIDs -> Conns \cup {NoConn}]]
    BY <1>4 DEF TypeOK, WorkerExits
  <2> QED BY <1>4, <2>1 DEF TypeOK, WorkerExits
<1>5. CASE UNCHANGED vars
  BY <1>5 DEF TypeOK, vars
<1> QED BY <1>1, <1>2, <1>3, <1>4, <1>5 DEF Next

LEMMA TypeInit == Init => TypeOK
  BY DEF Init, TypeOK, NoNode

\* Every variable keeps its type, whatever the number of workers, requests,
\* uaids and pending updates.
THEOREM TypeCorrect == Spec => []TypeOK
<1> QED BY TypeInit, TypeStep, PTL DEF Spec

(***************************************************************************)
(* The inductive invariant                                                 *)
(***************************************************************************)
SafeInv ==
  TableSound /\ SocketSound /\ TimerSound /\ OpenSessionIsRegistered /\ AutocloseFiresOnce

\* A connection takes over the entry of its uaid and has none yet.
LEMMA GetConnectorStep ==
  ASSUME SessionInv, TypeOK', NEW c \in Conns, NEW u \in UAIDs, NEW k \in {"ws", "udp"},
         GetConnector(c, u, k), ~HasConnector(c),
         ws[c] \notin {"idle", "rejected"}, Home[c] \in alive,
         uaid' = [uaid EXCEPT ![c] = u], lookups' \subseteq lookups, c \notin lookups',
         UNCHANGED <<closes, alive>>
  PROVE  SafeInv'
<1> USE HomeType, NullsDistinct
<1>1. \A s \in Servers, v \in UAIDs :
        nodesConnectors'[s][v] = IF s = Home[c] /\ v = u THEN c ELSE nodesConnectors[s][v]
  BY DEF GetConnector, SessionInv, TypeOK
<1>2. /\ \A d \in Conns : kind'[d] = IF d = c THEN k ELSE kind[d]
      /\ \A d \in Conns : uaid'[d] = IF d = c THEN u ELSE uaid[d]
      /\ \A d \in Conns : timer'[d] = IF d = c THEN (IF k = "udp" THEN "armed" ELSE "off") ELSE timer[d]
  BY DEF GetConnector, SessionInv, TypeOK
<1>3. \A d \in Conns :
        ws'[d] = IF d = ConnectorOf(c, u) /\ ws[d] = "open" THEN "closing" ELSE ws[d]
  BY DEF GetConnector, Closed
<1>4. \A s \in Servers, v \in UAIDs : nodesConnectors[s][v] # c
  BY DEF SessionInv, TableSound
<1>5. \A d \in Conns : ConnectorOf(d, u)' = IF Home[d] = Home[c] THEN c ELSE ConnectorOf(d, u)
  BY <1>1 DEF ConnectorOf
<1>6. \A d \in Conns, v \in UAIDs : v # u => ConnectorOf(d, v)' = ConnectorOf(d, v)
  BY <1>1 DEF ConnectorOf
<1>7. TableSound'
  BY <1>1, <1>2 DEF SessionInv, TypeOK, TableSound, HasConnector
<1>8. SocketSound'
  BY <1>2, <1>3, <1>5, <1>6 DEF SessionInv, TypeOK, SocketSound
<1>9. OpenSessionIsRegistered'
  <2> SUFFICES ASSUME NEW d \in Conns, ws'[d] = "open", kind'[d] # "none"
               PROVE  ConnectorOf(d, uaid[d])' = d
    BY DEF OpenSessionIsRegistered, HasConnector, Registered
  <2>1. CASE d = c
    BY <1>2, <1>5, <2>1
  <2>2. CASE d # c
    <3>1. ws[d] = "open" /\ d # ConnectorOf(c, u) /\ HasConnector(d) /\ uaid'[d] = uaid[d]
      BY <1>2, <1>3, <2>2 DEF HasConnector
    <3>2. uaid[d] \in UAIDs /\ ConnectorOf(d, uaid[d]) = d
      BY <3>1 DEF SessionInv, TypeOK, TableSound, OpenSessionIsRegistered, Registered
    <3>3. CASE uaid[d] = u
      BY <1>5, <3>1, <3>2, <3>3 DEF ConnectorOf
    <3>4. CASE uaid[d] # u
      BY <1>6, <3>1, <3>2, <3>4
    <3> QED BY <3>3, <3>4
  <2> QED BY <2>1, <2>2
<1>10. TimerSound'
  <2> SUFFICES ASSUME NEW d \in Conns
               PROVE  /\ timer'[d] # "off" => kind'[d] = "udp" /\ closes'[d] < 2
                      /\ kind'[d] = "udp" /\ timer'[d] = "off" => ConnectorOf(d, uaid[d])' # d
    BY DEF TimerSound, Registered, HasConnector
  <2>1. CASE d = c
    <3>1. closes[c] \in Nat /\ closes[c] <= 2 /\ closes[c] # 2
      BY DEF SessionInv, TypeOK, AutocloseFiresOnce, HasConnector
    <3> QED BY <1>2, <2>1, <3>1
  <2>2. CASE d # c
    <3>1. /\ timer[d] # "off" => kind[d] = "udp" /\ closes[d] < 2
          /\ kind[d] = "udp" /\ timer[d] = "off" =>
               uaid[d] \in UAIDs /\ ConnectorOf(d, uaid[d]) # d
      BY DEF SessionInv, TypeOK, TableSound, TimerSound, Registered, HasConnector
    <3>2. uaid[d] \in UAIDs => ConnectorOf(d, uaid[d])' \in {c, ConnectorOf(d, uaid[d])}
      BY <1>2, <1>5, <1>6, <2>2
    <3> QED BY <1>2, <2>2, <3>1, <3>2
  <2> QED BY <2>1, <2>2
<1>11. AutocloseFiresOnce'
  BY <1>2 DEF SessionInv, AutocloseFiresOnce, TypeOK, HasConnector
<1> QED BY <1>7, <1>8, <1>9, <1>10, <1>11 DEF SafeInv

\* A 'close' event of a connection, the first one or the one of its timer.
LEMMA OnWSCloseStep ==
  ASSUME SessionInv, TypeOK', NEW c \in Conns, OnWSClose(c),
         UNCHANGED <<uaid, kind, lookups, alive>>,
         \/ ws[c] \in {"open", "closing"} /\ timer' = timer
         \/ timer[c] = "due" /\ timer' = [timer EXCEPT ![c] = "off"]
  PROVE  SafeInv'
<1> USE HomeType, NullsDistinct
<1>1. Home[c] \in alive /\ ws[c] \notin {"idle", "rejected"}
  BY DEF SessionInv, TypeOK, SocketSound, TableSound, TimerSound, HasConnector
<1>2. \A d \in Conns : closes'[d] = IF d = c THEN closes[c] + 1 ELSE closes[d]
  BY DEF OnWSClose, SessionInv, TypeOK
<1>3. \A s \in Servers, v \in UAIDs :
        nodesConnectors'[s][v] = IF s = Home[c] /\ v = uaid[c] THEN NoConn ELSE nodesConnectors[s][v]
  <2>1. CASE uaid[c] = NoUaid
    BY <2>1 DEF OnWSClose, SessionInv, TypeOK
  <2>2. CASE uaid[c] # NoUaid
    <3>1. nodesConnectors' = [nodesConnectors EXCEPT ![Home[c]][uaid[c]] = NoConn]
      BY <2>2 DEF OnWSClose
    <3> QED BY <3>1 DEF SessionInv, TypeOK
  <2> QED BY <2>1, <2>2
<1>4. \A d \in Conns :
        ws'[d] = IF d = c THEN "closed"
                 ELSE IF uaid[c] # NoUaid /\ d = ConnectorOf(c, uaid[c]) /\ ws[d] = "open"
                      THEN "closing" ELSE ws[d]
  <2>1. CASE uaid[c] = NoUaid
    BY <2>1 DEF OnWSClose, SessionInv, TypeOK
  <2>2. CASE uaid[c] # NoUaid
    <3>1. ws' = Closed([ws EXCEPT ![c] = "closed"], {ConnectorOf(c, uaid[c])})
      BY <2>2 DEF OnWSClose
    <3> QED BY <3>1, <2>2 DEF Closed, SessionInv, TypeOK
  <2> QED BY <2>1, <2>2
<1>5. \A d \in Conns : timer'[d] = timer[d] \/ (d = c /\ timer[c] = "due" /\ timer'[c] = "off")
  BY DEF SessionInv, TypeOK
<1>6. \A d \in Conns, v \in UAIDs :
        ConnectorOf(d, v)' = IF Home[d] = Home[c] /\ v = uaid[c] THEN NoConn ELSE ConnectorOf(d, v)
  BY <1>3 DEF ConnectorOf
<1>7. closes[c] \in {0, 1} /\ (timer'[c] # "off" => closes[c] = 0)
      /\ (closes[c] = 1 => timer[c] = "due" /\ timer'[c] = "off")
  BY DEF SessionInv, TypeOK, SocketSound, TimerSound
<1>8. timer[c] = "due" => kind[c] = "udp"
  BY DEF SessionInv, TimerSound
<1>9. TableSound'
  BY <1>3 DEF SessionInv, TypeOK, TableSound, HasConnector
<1>10. SocketSound'
  BY <1>1, <1>2, <1>4, <1>5, <1>6, <1>7 DEF SessionInv, TypeOK, SocketSound
<1>11. OpenSessionIsRegistered'
  <2> SUFFICES ASSUME NEW d \in Conns, ws'[d] = "open", HasConnector(d)
               PROVE  ConnectorOf(d, uaid[d])' = d
    BY DEF OpenSessionIsRegistered, HasConnector, Registered
  <2>1. d # c /\ ws[d] = "open" /\ ~(uaid[c] # NoUaid /\ d = ConnectorOf(c, uaid[c]))
    BY <1>4
  <2>2. uaid[d] \in UAIDs /\ ConnectorOf(d, uaid[d]) = d
    BY <2>1 DEF SessionInv, TypeOK, TableSound, OpenSessionIsRegistered, Registered
  <2> QED BY <1>6, <2>1, <2>2 DEF ConnectorOf
<1>12. TimerSound'
  <2> SUFFICES ASSUME NEW d \in Conns
               PROVE  /\ timer'[d] # "off" => kind[d] = "udp" /\ closes'[d] < 2
                      /\ kind[d] = "udp" /\ timer'[d] = "off" => ConnectorOf(d, uaid[d])' # d
    BY DEF TimerSound, Registered, HasConnector
  <2>1. /\ timer[d] # "off" => kind[d] = "udp" /\ closes[d] < 2
        /\ kind[d] = "udp" => uaid[d] \in UAIDs
        /\ kind[d] = "udp" /\ timer[d] = "off" => ConnectorOf(d, uaid[d]) # d
    BY DEF SessionInv, TypeOK, TableSound, TimerSound, Registered, HasConnector
  <2> QED BY <1>2, <1>5, <1>6, <1>7, <2>1
<1>13. AutocloseFiresOnce'
  <2> SUFFICES ASSUME NEW d \in Conns
               PROVE  closes'[d] <= 2 /\ (closes'[d] = 2 => kind[d] = "udp" /\ timer'[d] = "off")
    BY DEF AutocloseFiresOnce
  <2>1. closes[d] <= 2 /\ (closes[d] = 2 => kind[d] = "udp" /\ timer[d] = "off")
    BY DEF SessionInv, AutocloseFiresOnce
  <2> QED BY <1>2, <1>5, <1>7, <1>8, <2>1
<1> QED BY <1>9, <1>10, <1>11, <1>12, <1>13 DEF SafeInv

\* A message arms the timer of a registered connector only, and may close its
\* own connection.
LEMMA MessageStep ==
  ASSUME SessionInv, TypeOK', NEW c \in Conns, ResetAutoclose(c), ws[c] = "open",
         ws' = ws \/ ws' = Closed(ws, {c}),
         UNCHANGED <<uaid, kind, closes, lookups, nodesConnectors, alive>>
  PROVE  SafeInv'
<1> USE HomeType, NullsDistinct
<1>1. \A d \in Conns : ws'[d] = ws[d] \/ (ws[d] = "open" /\ ws'[d] = "closing")
  BY DEF Closed
<1>2. \A d \in Conns :
        timer'[d] = timer[d] \/ (Registered(d) /\ kind[d] = "udp" /\ timer'[d] = "armed" /\ Home[d] = Home[c])
  BY DEF ResetAutoclose, SessionInv, TypeOK, TableSound, Registered, ConnectorOf
<1>3. \A d \in Conns : Registered(d)' <=> Registered(d)
  BY DEF Registered, HasConnector, ConnectorOf
<1>4. Home[c] \in alive
  BY DEF SessionInv, SocketSound
<1>5. TableSound'
  BY DEF SessionInv, TableSound, HasConnector
<1>6. SocketSound'
  BY <1>1, <1>2, <1>4 DEF SessionInv, SocketSound, ConnectorOf
<1>7. OpenSessionIsRegistered'
  BY <1>1, <1>3 DEF SessionInv, OpenSessionIsRegistered, HasConnector
<1>8. TimerSound'
  BY <1>2, <1>3 DEF SessionInv, TimerSound
<1>9. AutocloseFiresOnce'
  BY <1>2 DEF SessionInv, AutocloseFiresOnce, TimerSound
<1> QED BY <1>5, <1>6, <1>7, <1>8, <1>9 DEF SafeInv

\* A worker that exits forgets its table, timers and lookups.
LEMMA WorkerExitsStep ==
  ASSUME SessionInv, TypeOK', NEW s \in Servers, WorkerExits(s)
  PROVE  SafeInv'
<1> USE HomeType, NullsDistinct
<1>1. \A t \in Servers, v \in UAIDs :
        nodesConnectors'[t][v] = IF t = s THEN NoConn ELSE nodesConnectors[t][v]
  BY DEF WorkerExits, SessionInv, TypeOK
<1>2. \A d \in Conns :
        /\ ws'[d] = IF Home[d] = s /\ ws[d] \in {"open", "closing"} THEN "closed" ELSE ws[d]
        /\ timer'[d] = IF Home[d] = s THEN "off" ELSE timer[d]
  BY DEF WorkerExits
<1>3. \A d \in Conns, v \in UAIDs :
        ConnectorOf(d, v)' = IF Home[d] = s THEN NoConn ELSE ConnectorOf(d, v)
  BY <1>1 DEF ConnectorOf
<1>4. UNCHANGED <<uaid, kind, closes>> /\ alive' = alive \ {s} /\ lookups' = {c \in lookups : Home[c] # s}
  BY DEF WorkerExits
<1>5. TableSound'
  BY <1>1, <1>4 DEF SessionInv, TypeOK, TableSound, HasConnector
<1>6. SocketSound'
  BY <1>2, <1>3, <1>4 DEF SessionInv, TypeOK, SocketSound
<1>7. OpenSessionIsRegistered'
  <2> SUFFICES ASSUME NEW d \in Conns, ws'[d] = "open", HasConnector(d)
               PROVE  ConnectorOf(d, uaid[d])' = d
    BY <1>4 DEF OpenSessionIsRegistered, HasConnector, Registered
  <2>1. ws[d] = "open" /\ Home[d] # s
    BY <1>2
  <2>2. uaid[d] \in UAIDs /\ ConnectorOf(d, uaid[d]) = d
    BY <2>1 DEF SessionInv, TypeOK, TableSound, OpenSessionIsRegistered, Registered
  <2> QED BY <1>3, <1>4, <2>1, <2>2 DEF ConnectorOf
<1>8. TimerSound'
  <2> SUFFICES ASSUME NEW d \in Conns
               PROVE  /\ timer'[d] # "off" => kind[d] = "udp" /\ closes[d] < 2
                      /\ kind[d] = "udp" /\ timer'[d] = "off" => ConnectorOf(d, uaid[d])' # d
    BY <1>4 DEF TimerSound, Registered, HasConnector
  <2>1. /\ timer[d] # "off" => kind[d] = "udp" /\ closes[d] < 2
        /\ kind[d] = "udp" => uaid[d] \in UAIDs
        /\ kind[d] = "udp" /\ timer[d] = "off" => ConnectorOf(d, uaid[d]) # d
    BY DEF SessionInv, TypeOK, TableSound, TimerSound, Registered, HasConnector
  <2>2. kind[d] = "udp" => ConnectorOf(d, uaid[d])' \in {NoConn, ConnectorOf(d, uaid[d])}
                           /\ (Home[d] = s => ConnectorOf(d, uaid[d])' = NoConn)
    BY <1>3, <1>4, <2>1 DEF ConnectorOf
  <2> QED BY <1>2, <1>4, <2>1, <2>2
<1>9. AutocloseFiresOnce'
  BY <1>2, <1>4 DEF SessionInv, AutocloseFiresOnce
<1> QED BY <1>5, <1>6, <1>7, <1>8, <1>9 DEF SafeInv

\* A step of the data store, and a stutter, leave the sessions alone.
LEMMA FrameStep ==
  ASSUME SessionInv, UNCHANGED <<ws, uaid, kind, timer, closes, lookups, nodesConnectors, alive>>
  PROVE  SafeInv'
  BY DEF SessionInv, SafeInv, TableSound, SocketSound, TimerSound, OpenSessionIsRegistered,
         AutocloseFiresOnce, Registered, HasConnector, ConnectorOf

LEMMA SessionInit == Init => SessionInv
<1> SUFFICES ASSUME Init PROVE SessionInv
  OBVIOUS
<1>1. TypeOK
  BY TypeInit
<1>2. TableSound
  BY HomeType DEF Init, TableSound, HasConnector
<1>3. SocketSound /\ TimerSound
  BY HomeType DEF Init, SocketSound, TimerSound
<1>4. OpenSessionIsRegistered /\ AutocloseFiresOnce
  BY DEF Init, OpenSessionIsRegistered, AutocloseFiresOnce
<1> QED BY <1>1, <1>2, <1>3, <1>4 DEF SessionInv

LEMMA SessionStep == SessionInv /\ [Next]_vars => SessionInv'
<1> SUFFICES ASSUME SessionInv, [Next]_vars PROVE SafeInv'
  BY TypeStep DEF SessionInv, SafeInv
<1>0. TypeOK'
  BY TypeStep DEF SessionInv
<1>1. ASSUME NEW c \in Conns, Client(c) PROVE SafeInv'
  <2>1. CASE Accept(c)
    <3>1. \A d \in Conns : ws'[d] = IF d = c THEN "open" ELSE ws[d]
      BY <2>1 DEF Accept, SessionInv, TypeOK
    <3>2. UNCHANGED <<uaid, kind, timer, closes, lookups, nodesConnectors, alive>>
          /\ ws[c] = "idle" /\ Home[c] \in alive
      BY <2>1 DEF Accept
    <3>3. ~HasConnector(c)
      BY <3>2 DEF SessionInv, SocketSound, TableSound
    <3>4. TableSound' /\ TimerSound' /\ AutocloseFiresOnce'
      BY <3>2 DEF SessionInv, TableSound, TimerSound, AutocloseFiresOnce, Registered,
                  HasConnector, ConnectorOf
    <3>5. SocketSound'
      BY <3>1, <3>2 DEF SessionInv, SocketSound, ConnectorOf
    <3>6. OpenSessionIsRegistered'
      BY <3>1, <3>2, <3>3 DEF SessionInv, OpenSessionIsRegistered, Registered, HasConnector,
                               ConnectorOf
    <3> QED BY <3>4, <3>5, <3>6 DEF SafeInv
  <2>2. CASE Reject(c)
    <3>1. \A d \in Conns : ws'[d] = IF d = c THEN "rejected" ELSE ws[d]
      BY <2>2 DEF Reject, SessionInv, TypeOK
    <3>2. UNCHANGED <<uaid, kind, timer, closes, lookups, nodesConnectors, alive>>
          /\ ws[c] = "idle"
      BY <2>2 DEF Reject
    <3>3. TableSound' /\ TimerSound' /\ AutocloseFiresOnce'
      BY <3>2 DEF SessionInv, TableSound, TimerSound, AutocloseFiresOnce, Registered,
                  HasConnector, ConnectorOf
    <3>4. SocketSound' /\ OpenSessionIsRegistered'
      BY <3>1, <3>2 DEF SessionInv, SocketSound, OpenSessionIsRegistered, Registered,
                        HasConnector, ConnectorOf
    <3> QED BY <3>3, <3>4 DEF SafeInv
  <2>3. ASSUME NEW u \in UAIDs, HelloLookup(c, u) PROVE SafeInv'
    <3>1. \A d \in Conns : uaid'[d] = IF d = c THEN u ELSE uaid[d]
      BY <2>3 DEF HelloLookup, SessionInv, TypeOK
    <3>2. /\ UNCHANGED <<ws, kind, timer, closes, nodesConnectors, alive>>
          /\ lookups' = lookups \cup {c} /\ ws[c] = "open" /\ uaid[c] = NoUaid
      BY <2>3 DEF HelloLookup
    <3>3. ~HasConnector(c) /\ Home[c] \in alive
      BY <3>2 DEF SessionInv, SocketSound, TableSound
    <3>4. TableSound'
      BY <3>1, <3>2, <3>3, NullsDistinct DEF SessionInv, TypeOK, TableSound, HasConnector
    <3>5. SocketSound' /\ AutocloseFiresOnce'
      BY <3>1, <3>2, <3>3 DEF SessionInv, SocketSound, AutocloseFiresOnce, ConnectorOf
    <3>6. OpenSessionIsRegistered' /\ TimerSound'
      BY <3>1, <3>2, <3>3 DEF SessionInv, OpenSessionIsRegistered, TimerSound, Registered,
                               HasConnector, ConnectorOf
    <3> QED BY <3>4, <3>5, <3>6 DEF SafeInv
  <2>4. ASSUME NEW u \in UAIDs, NEW k \in {"ws", "udp"}, Hello(c, u, k) PROVE SafeInv'
    <3>1. ~HasConnector(c) /\ Home[c] \in alive /\ c \notin lookups
      BY <2>4 DEF Hello, SessionInv, SocketSound, TableSound
    <3> QED BY <1>0, <2>4, <3>1, GetConnectorStep DEF Hello
  <2>5. CASE Message(c)
    BY <1>0, <2>5, MessageStep DEF Message
  <2>6. CASE BadMessage(c)
    BY <1>0, <2>6, MessageStep DEF BadMessage
  <2>7. CASE PeerClose(c)
    <3>1. \A d \in Conns : ws'[d] = IF d = c THEN "closing" ELSE ws[d]
      BY <2>7 DEF PeerClose, SessionInv, TypeOK
    <3>2. UNCHANGED <<uaid, kind, timer, closes, lookups, nodesConnectors, alive>>
          /\ ws[c] = "open"
      BY <2>7 DEF PeerClose
    <3>3. TableSound' /\ TimerSound' /\ AutocloseFiresOnce'
      BY <3>2 DEF SessionInv, TableSound, TimerSound, AutocloseFiresOnce, Registered,
                  HasConnector, ConnectorOf
    <3>4. SocketSound' /\ OpenSessionIsRegistered'
      BY <3>1, <3>2 DEF SessionInv, SocketSound, OpenSessionIsRegistered, Registered,
                        HasConnector, ConnectorOf
    <3> QED BY <3>3, <3>4 DEF SafeInv
  <2> QED BY <1>1, <2>1, <2>2, <2>3, <2>4, <2>5, <2>6, <2>7 DEF Client
<1>2. ASSUME NEW c \in Conns, Event(c) PROVE SafeInv'
  <2>1. ASSUME NEW k \in {"ws", "udp"}, LookupReturns(c, k) PROVE SafeInv'
    <3>1. c \in lookups /\ lookups' = lookups \ {c} /\ UNCHANGED <<uaid, closes, alive>>
      BY <2>1 DEF LookupReturns
    <3>2. uaid[c] \in UAIDs /\ ~HasConnector(c)
      BY <3>1 DEF SessionInv, TypeOK, TableSound
    <3>3. ws[c] \notin {"idle", "rejected"} /\ Home[c] \in alive
      BY <3>1, <3>2 DEF SessionInv, SocketSound, TableSound
    <3>4. uaid' = [uaid EXCEPT ![c] = uaid[c]]
      BY <3>1 DEF SessionInv, TypeOK
    <3> QED BY <1>0, <2>1, <3>1, <3>2, <3>3, <3>4, GetConnectorStep DEF LookupReturns
  <2>2. CASE LookupFails(c)
    <3>1. lookups' \subseteq lookups
          /\ UNCHANGED <<ws, uaid, kind, timer, closes, nodesConnectors, alive>>
      BY <2>2 DEF LookupFails
    <3> QED BY <3>1 DEF SessionInv, SafeInv, TableSound, SocketSound, TimerSound,
                OpenSessionIsRegistered, AutocloseFiresOnce, Registered, HasConnector, ConnectorOf
  <2>3. CASE SocketClosed(c)
    BY <1>0, <2>3, OnWSCloseStep DEF SocketClosed
  <2>4. CASE AutocloseElapses(c)
    <3>1. /\ timer[c] = "armed"
          /\ \A d \in Conns : timer'[d] = IF d = c THEN "due" ELSE timer[d]
          /\ UNCHANGED <<ws, uaid, kind, closes, lookups, nodesConnectors, alive>>
      BY <2>4 DEF AutocloseElapses, SessionInv, TypeOK
    <3> QED BY <3>1 DEF SessionInv, SafeInv, TableSound, SocketSound, TimerSound,
                OpenSessionIsRegistered, AutocloseFiresOnce, Registered, HasConnector, ConnectorOf
  <2>5. CASE AutocloseFires(c)
    BY <1>0, <2>5, OnWSCloseStep DEF AutocloseFires
  <2> QED BY <1>2, <2>1, <2>2, <2>3, <2>4, <2>5 DEF Event
<1>3. ASSUME NEW op \in dbOps, DataStore(op) PROVE SafeInv'
  BY <1>3, FrameStep DEF DataStore, RegisterExecutes, RegisterFails, UnregisterExecutes,
                         UnregisterFails
<1>4. ASSUME NEW s \in Servers, WorkerExits(s) PROVE SafeInv'
  BY <1>0, <1>4, WorkerExitsStep
<1>5. CASE UNCHANGED vars
  BY <1>5, FrameStep DEF vars
<1> QED BY <1>1, <1>2, <1>3, <1>4, <1>5 DEF Next

THEOREM SessionCorrect == Spec => []SessionInv
<1> QED BY SessionInit, SessionStep, PTL DEF Spec

\* No interleaving of hellos, late lookups, 'close' events and timers leaves
\* an open connection out of the table of connectors.
THEOREM OpenSessionsAreRegistered == Spec => []OpenSessionIsRegistered
<1>1. SessionInv => OpenSessionIsRegistered
  BY DEF SessionInv
<1> QED BY <1>1, SessionCorrect, PTL

\* A connection emits 'close' twice at most, the second time from its timer.
THEOREM AutocloseFiresAtMostOnce == Spec => []AutocloseFiresOnce
<1>1. SessionInv => AutocloseFiresOnce
  BY DEF SessionInv
<1> QED BY <1>1, SessionCorrect, PTL

(***************************************************************************)
(* The connection counter                                                  *)
(***************************************************************************)
LEMMA CountedSetsFinite ==
  ASSUME NEW s
  PROVE  /\ IsFiniteSet(OpenOn(s)) /\ Cardinality(OpenOn(s)) \in Nat
         /\ IsFiniteSet(DroppedLate(s)) /\ Cardinality(DroppedLate(s)) \in Nat
<1>1. OpenOn(s) \in SUBSET Conns /\ DroppedLate(s) \in SUBSET Conns
  BY DEF OpenOn, DroppedLate
<1>2. IsFiniteSet(OpenOn(s)) /\ IsFiniteSet(DroppedLate(s))
  BY <1>1, ConnsFinite, FS_Subset
<1> QED BY <1>2, FS_CardinalityType

LEMMA AccountingFrame ==
  ASSUME ConnectionAccounting, UNCHANGED <<closes, wsConnections, alive>>,
         \A d \in Conns : ws'[d] \in {"open", "closing"} <=> ws[d] \in {"open", "closing"}
  PROVE  ConnectionAccounting'
<1>1. \A s \in alive : OpenOn(s)' = OpenOn(s) /\ DroppedLate(s)' = DroppedLate(s)
  BY DEF OpenOn, DroppedLate
<1> QED BY <1>1 DEF ConnectionAccounting

LEMMA AcceptCounts ==
  ASSUME SessionInv, ConnectionAccounting, NEW c \in Conns, Accept(c)
  PROVE  ConnectionAccounting'
<1> SUFFICES ASSUME NEW s \in alive
             PROVE  wsConnections'[s] = Cardinality(OpenOn(s)') - Cardinality(DroppedLate(s)')
  BY DEF ConnectionAccounting, Accept
<1>1. /\ s \in Servers /\ Home[c] \in Servers
      /\ wsConnections'[s] = IF s = Home[c] THEN wsConnections[s] + 1 ELSE wsConnections[s]
      /\ \A d \in Conns : ws'[d] = IF d = c THEN "open" ELSE ws[d]
      /\ ws[c] = "idle"
  BY HomeType DEF Accept, SessionInv, TypeOK
<1>2. DroppedLate(s)' = DroppedLate(s)
  BY DEF DroppedLate, Accept
<1>3. OpenOn(s)' = IF s = Home[c] THEN OpenOn(s) \cup {c} ELSE OpenOn(s)
  BY <1>1 DEF OpenOn
<1>4. c \notin OpenOn(s)
  BY <1>1 DEF OpenOn
<1>5. Cardinality(OpenOn(s)') = IF s = Home[c] THEN Cardinality(OpenOn(s)) + 1
                                ELSE Cardinality(OpenOn(s))
  BY <1>3, <1>4, CountedSetsFinite, FS_AddElement
<1>6. wsConnections[s] = Cardinality(OpenOn(s)) - Cardinality(DroppedLate(s))
  BY DEF ConnectionAccounting
<1> QED BY <1>1, <1>2, <1>5, <1>6, CountedSetsFinite

LEMMA OnWSCloseCounts ==
  ASSUME SessionInv, ConnectionAccounting, NEW c \in Conns, OnWSClose(c),
         UNCHANGED <<alive, uaid>>, ws[c] \in {"open", "closing"} \/ timer[c] = "due"
  PROVE  ConnectionAccounting'
<1> SUFFICES ASSUME NEW s \in alive
             PROVE  wsConnections'[s] = Cardinality(OpenOn(s)') - Cardinality(DroppedLate(s)')
  BY DEF ConnectionAccounting
<1> DEFINE StillHeld == ws[c] \in {"open", "closing"}
<1>1. s \in Servers /\ Home[c] \in Servers
  BY HomeType DEF SessionInv, TypeOK
<1>2. wsConnections'[s] = IF s = Home[c] THEN wsConnections[s] - 1 ELSE wsConnections[s]
  <2>1. wsConnections' = [wsConnections EXCEPT ![Home[c]] = @ - 1]
    BY DEF OnWSClose
  <2> QED BY <1>1, <2>1 DEF SessionInv, TypeOK
<1>3. \A d \in Conns : closes'[d] = IF d = c THEN closes[c] + 1 ELSE closes[d]
  BY DEF OnWSClose, SessionInv, TypeOK
<1>4. /\ ws'[c] = "closed"
      /\ \A d \in Conns : d # c => (ws'[d] \in {"open", "closing"} <=> ws[d] \in {"open", "closing"})
  BY DEF OnWSClose, Closed, SessionInv, TypeOK
<1>5. closes[c] = IF StillHeld THEN 0 ELSE 1
  <2>1. CASE StillHeld
    BY <2>1 DEF SessionInv, SocketSound
  <2>2. CASE ~StillHeld
    <3>1. timer[c] = "due" /\ kind[c] = "udp" /\ closes[c] < 2 /\ closes[c] \in Nat
      BY <2>2 DEF SessionInv, TypeOK, TimerSound
    <3>2. ws[c] = "closed" /\ Home[c] \in alive
      BY <2>2, <3>1 DEF SessionInv, TypeOK, SocketSound, TableSound, HasConnector
    <3>3. closes[c] > 0
      BY <3>2 DEF SessionInv, SocketSound
    <3> QED BY <2>2, <3>1, <3>3
  <2> QED BY <2>1, <2>2
<1>6. OpenOn(s)' = IF s = Home[c] THEN OpenOn(s) \ {c} ELSE OpenOn(s)
  BY <1>4 DEF OpenOn
<1>7. DroppedLate(s)' = IF s = Home[c] /\ ~StillHeld THEN DroppedLate(s) \cup {c} ELSE DroppedLate(s)
  BY <1>3, <1>5 DEF DroppedLate
<1>8. s = Home[c] => (c \in OpenOn(s) <=> StillHeld) /\ c \notin DroppedLate(s)
  BY <1>5 DEF OpenOn, DroppedLate
<1>9. wsConnections[s] = Cardinality(OpenOn(s)) - Cardinality(DroppedLate(s))
  BY DEF ConnectionAccounting
<1>10. CASE s # Home[c]
  BY <1>2, <1>6, <1>7, <1>9, <1>10
<1>11. CASE s = Home[c] /\ StillHeld
  <2>1. Cardinality(OpenOn(s)') = Cardinality(OpenOn(s)) - 1
    BY <1>6, <1>8, <1>11, CountedSetsFinite, FS_RemoveElement
  <2>2. DroppedLate(s)' = DroppedLate(s)
    BY <1>7, <1>11
  <2> QED BY <1>2, <1>9, <1>11, <2>1, <2>2, CountedSetsFinite
<1>12. CASE s = Home[c] /\ ~StillHeld
  <2>1. OpenOn(s)' = OpenOn(s)
    BY <1>6, <1>8, <1>12
  <2>2. Cardinality(DroppedLate(s)') = Cardinality(DroppedLate(s)) + 1
    BY <1>7, <1>8, <1>12, CountedSetsFinite, FS_AddElement
  <2> QED BY <1>2, <1>9, <1>12, <2>1, <2>2, CountedSetsFinite
<1> QED BY <1>10, <1>11, <1>12

LEMMA AccountingStep ==
  SessionInv /\ ConnectionAccounting /\ [Next]_vars => ConnectionAccounting'
<1> SUFFICES ASSUME SessionInv, ConnectionAccounting, [Next]_vars PROVE ConnectionAccounting'
  OBVIOUS
<1> DEFINE SameHeld == \A d \in Conns :
             ws'[d] \in {"open", "closing"} <=> ws[d] \in {"open", "closing"}
<1>1. ASSUME NEW c \in Conns, Client(c) PROVE ConnectionAccounting'
  <2>1. CASE Accept(c)
    BY <2>1, AcceptCounts
  <2>2. CASE Reject(c)
    <3>1. SameHeld
      BY <2>2 DEF Reject, SessionInv, TypeOK
    <3> QED BY <2>2, <3>1, AccountingFrame DEF Reject
  <2>3. ASSUME NEW u \in UAIDs, HelloLookup(c, u) PROVE ConnectionAccounting'
    BY <2>3, AccountingFrame DEF HelloLookup
  <2>4. ASSUME NEW u \in UAIDs, NEW k \in {"ws", "udp"}, Hello(c, u, k)
        PROVE  ConnectionAccounting'
    <3>1. SameHeld
      BY <2>4 DEF Hello, GetConnector, Closed
    <3> QED BY <2>4, <3>1, AccountingFrame DEF Hello
  <2>5. CASE Message(c)
    BY <2>5, AccountingFrame DEF Message
  <2>6. CASE BadMessage(c)
    <3>1. SameHeld
      BY <2>6 DEF BadMessage, Closed
    <3> QED BY <2>6, <3>1, AccountingFrame DEF BadMessage
  <2>7. CASE PeerClose(c)
    <3>1. SameHeld
      BY <2>7 DEF PeerClose, SessionInv, TypeOK
    <3> QED BY <2>7, <3>1, AccountingFrame DEF PeerClose
  <2> QED BY <1>1, <2>1, <2>2, <2>3, <2>4, <2>5, <2>6, <2>7 DEF Client
<1>2. ASSUME NEW c \in Conns, Event(c) PROVE ConnectionAccounting'
  <2>1. ASSUME NEW k \in {"ws", "udp"}, LookupReturns(c, k) PROVE ConnectionAccounting'
    <3>1. SameHeld
      BY <2>1 DEF LookupReturns, GetConnector, Closed
    <3> QED BY <2>1, <3>1, AccountingFrame DEF LookupReturns
  <2>2. CASE LookupFails(c)
    BY <2>2, AccountingFrame DEF LookupFails
  <2>3. CASE SocketClosed(c)
    BY <2>3, OnWSCloseCounts DEF SocketClosed
  <2>4. CASE AutocloseElapses(c)
    BY <2>4, AccountingFrame DEF AutocloseElapses
  <2>5. CASE AutocloseFires(c)
    BY <2>5, OnWSCloseCounts DEF AutocloseFires
  <2> QED BY <1>2, <2>1, <2>2, <2>3, <2>4, <2>5 DEF Event
<1>3. ASSUME NEW op \in dbOps, DataStore(op) PROVE ConnectionAccounting'
  BY <1>3, AccountingFrame DEF DataStore, RegisterExecutes, RegisterFails,
                               UnregisterExecutes, UnregisterFails
<1>4. ASSUME NEW s \in Servers, WorkerExits(s) PROVE ConnectionAccounting'
  <2> SUFFICES ASSUME NEW t \in alive, t # s
               PROVE  wsConnections'[t] = Cardinality(OpenOn(t)') - Cardinality(DroppedLate(t)')
    BY <1>4 DEF ConnectionAccounting, WorkerExits
  <2>1. wsConnections'[t] = wsConnections[t]
    BY <1>4 DEF WorkerExits, SessionInv, TypeOK
  <2>2. OpenOn(t)' = OpenOn(t) /\ DroppedLate(t)' = DroppedLate(t)
    BY <1>4 DEF WorkerExits, OpenOn, DroppedLate
  <2> QED BY <2>1, <2>2 DEF ConnectionAccounting
<1>5. CASE UNCHANGED vars
  BY <1>5, AccountingFrame DEF vars
<1> QED BY <1>1, <1>2, <1>3, <1>4, <1>5 DEF Next

\* wsConnections is the number of sockets held minus the connections dropped
\* after they had closed, for any number of connections.
THEOREM ConnectionsAccounted == Spec => []ConnectionAccounting
<1>1. Init => ConnectionAccounting
  <2> SUFFICES ASSUME Init PROVE ConnectionAccounting
    OBVIOUS
  <2>1. \A s \in alive : OpenOn(s) = {} /\ DroppedLate(s) = {}
    BY DEF Init, OpenOn, DroppedLate
  <2>2. \A s \in alive : wsConnections[s] = 0
    BY DEF Init
  <2>3. Cardinality({}) = 0
    BY FS_EmptySet
  <2> QED BY <2>1, <2>2, <2>3 DEF ConnectionAccounting
<1> QED BY <1>1, AccountingStep, SessionCorrect, PTL DEF Spec

\* The count itself never passes the limit, since it only grows in Accept,
\* which compares the two.
CountWithinLimit == \A s \in Servers : wsConnections[s] <= MaxConnections

LEMMA OnWSCloseWithinLimit ==
  ASSUME TypeOK, CountWithinLimit, NEW c \in Conns, OnWSClose(c)
  PROVE  CountWithinLimit'
<1>1. wsConnections' = [wsConnections EXCEPT ![Home[c]] = @ - 1]
  BY DEF OnWSClose
<1>2. Home[c] \in Servers
  BY HomeType
<1> QED BY <1>1, <1>2, MaxType DEF TypeOK, CountWithinLimit

LEMMA LimitStep == TypeOK /\ CountWithinLimit /\ [Next]_vars => CountWithinLimit'
<1> SUFFICES ASSUME TypeOK, CountWithinLimit, [Next]_vars PROVE CountWithinLimit'
  OBVIOUS
<1>1. ASSUME NEW c \in Conns, Client(c) PROVE CountWithinLimit'
  <2>1. CASE Accept(c)
    BY <2>1, HomeType, MaxType DEF Accept, TypeOK, CountWithinLimit
  <2>2. CASE UNCHANGED wsConnections
    BY <2>2 DEF CountWithinLimit
  <2> QED BY <1>1, <2>1, <2>2 DEF Client, Reject, HelloLookup, Hello, Message, BadMessage, PeerClose
<1>2. ASSUME NEW c \in Conns, Event(c) PROVE CountWithinLimit'
  <2>1. CASE SocketClosed(c) \/ AutocloseFires(c)
    BY <2>1, OnWSCloseWithinLimit DEF SocketClosed, AutocloseFires
  <2>2. CASE UNCHANGED wsConnections
    BY <2>2 DEF CountWithinLimit
  <2> QED BY <1>2, <2>1, <2>2 DEF Event, LookupReturns, LookupFails, AutocloseElapses
<1>3. ASSUME NEW op \in dbOps, DataStore(op) PROVE CountWithinLimit'
  BY <1>3 DEF DataStore, RegisterExecutes, RegisterFails, UnregisterExecutes, UnregisterFails,
              CountWithinLimit
<1>4. ASSUME NEW s \in Servers, WorkerExits(s) PROVE CountWithinLimit'
  BY <1>4, MaxType DEF WorkerExits, TypeOK, CountWithinLimit
<1>5. CASE UNCHANGED vars
  BY <1>5 DEF vars, CountWithinLimit
<1> QED BY <1>1, <1>2, <1>3, <1>4, <1>5 DEF Next

\* A worker holds at most wsMaxConnections sockets and one more for each
\* connection that was dropped after it had closed.
THEOREM OverrunIsBounded == Spec => []OverrunBounded
<1>1. Init => CountWithinLimit
  BY MaxType DEF Init, CountWithinLimit
<1>2. TypeOK /\ CountWithinLimit /\ ConnectionAccounting => OverrunBounded
  <2> SUFFICES ASSUME TypeOK, CountWithinLimit, ConnectionAccounting, NEW s \in alive
               PROVE  Cardinality(OpenOn(s)) <= MaxConnections + Cardinality(DroppedLate(s))
    BY DEF OverrunBounded
  <2>1. wsConnections[s] <= MaxConnections
    BY DEF TypeOK, CountWithinLimit
  <2>2. wsConnections[s] = Cardinality(OpenOn(s)) - Cardinality(DroppedLate(s))
    BY DEF ConnectionAccounting
  <2> QED BY <2>1, <2>2, CountedSetsFinite, MaxType
<1> QED BY <1>1, <1>2, LimitStep, TypeCorrect, ConnectionsAccounted, PTL DEF Spec

(***************************************************************************)
(* The table implements SlotOwner                                          *)
(***************************************************************************)
Slots == Servers \X UAIDs
OwnerOf == [s \in Slots |-> nodesConnectors[s[1]][s[2]]]
Retired == {c \in Conns : HasConnector(c) /\ ~Registered(c)}
Talking == {c \in Conns : ws[c] = "open"}

LEMMA RegisteredIsOwner ==
  ASSUME SessionInv, NEW c \in Conns, NEW s \in Slots
  PROVE  OwnerOf[s] = c <=> Registered(c) /\ s = <<Home[c], uaid[c]>>
<1>1. s[1] \in Servers /\ s[2] \in UAIDs /\ s = <<s[1], s[2]>> /\ OwnerOf[s] = nodesConnectors[s[1]][s[2]]
  BY DEF Slots, OwnerOf
<1>2. nodesConnectors[s[1]][s[2]] = c => Home[c] = s[1] /\ uaid[c] = s[2] /\ HasConnector(c)
  BY <1>1, NullsDistinct DEF SessionInv, TableSound
<1> QED BY <1>1, <1>2 DEF Registered, ConnectorOf

\* A step that does not touch the table is a step of Talk.
LEMMA TableUnchanged ==
  ASSUME SessionInv', UNCHANGED <<nodesConnectors, kind>>,
         \A c \in Conns : HasConnector(c) => uaid'[c] = uaid[c]
  PROVE  Owner!Next
<1>1. OwnerOf' = OwnerOf
  BY DEF OwnerOf
<1>2. Retired' = Retired
  BY DEF Retired, HasConnector, Registered, ConnectorOf
<1>3. Talking' \in SUBSET (Conns \ Retired)
  BY <1>2 DEF SessionInv, OpenSessionIsRegistered, Talking, Retired
<1>4. Owner!Talk
  BY <1>1, <1>2, <1>3 DEF Owner!Talk, OwnerOf, Retired, Talking, Slots
<1> QED BY <1>4 DEF Owner!Next

\* A new connector claims the slot of its uaid.
LEMMA GetConnectorClaims ==
  ASSUME SessionInv, SessionInv', NEW c \in Conns, NEW u \in UAIDs, NEW k \in {"ws", "udp"},
         GetConnector(c, u, k), ~HasConnector(c), uaid' = [uaid EXCEPT ![c] = u]
  PROVE  Owner!Next
<1> DEFINE s == <<Home[c], u>>
<1>1. s \in Slots
  BY HomeType DEF Slots
<1>2. OwnerOf' = [OwnerOf EXCEPT ![s] = c]
  <2>1. \A t \in Slots : OwnerOf'[t] = IF t = s THEN c ELSE OwnerOf[t]
    BY DEF GetConnector, SessionInv, TypeOK, OwnerOf, Slots
  <2> QED BY <2>1 DEF OwnerOf
<1>3. \A d \in Conns : HasConnector(d)' <=> HasConnector(d) \/ d = c
  BY DEF GetConnector, SessionInv, TypeOK, HasConnector
<1>4. \A d \in Conns : uaid'[d] = IF d = c THEN u ELSE uaid[d]
  BY DEF SessionInv, TypeOK
<1>5. \A t \in Slots : OwnerOf[t] # c
  BY RegisteredIsOwner DEF Registered
<1>6. \A d \in Conns : d # c => (Registered(d)' <=> Registered(d) /\ d # OwnerOf[s])
  <2> SUFFICES ASSUME NEW d \in Conns, d # c
               PROVE  Registered(d)' <=> Registered(d) /\ d # OwnerOf[s]
    OBVIOUS
  <2>1. CASE HasConnector(d)
    <3>1. uaid[d] \in UAIDs /\ Home[d] \in Servers
      <4>1. uaid[d] # NoUaid
        BY <2>1 DEF SessionInv, TableSound
      <4>2. uaid[d] \in UAIDs \cup {NoUaid}
        BY DEF SessionInv, TypeOK
      <4> QED BY <4>1, <4>2, HomeType
    <3> DEFINE t == <<Home[d], uaid[d]>>
    <3>2. t \in Slots
      BY <3>1 DEF Slots
    <3>3. Registered(d) <=> OwnerOf[t] = d
      BY <3>2, RegisteredIsOwner
    <3>4. Registered(d)' <=> OwnerOf'[t] = d
      BY <1>3, <1>4, <2>1, <3>1 DEF Registered, ConnectorOf, OwnerOf, Slots
    <3>5. OwnerOf'[t] = IF t = s THEN c ELSE OwnerOf[t]
      BY <1>2, <3>2 DEF OwnerOf
    <3>6. d = OwnerOf[s] => t = s
      BY <1>1, RegisteredIsOwner
    <3> QED BY <3>3, <3>4, <3>5, <3>6
  <2>2. CASE ~HasConnector(d)
    BY <1>3, <2>2 DEF Registered
  <2> QED BY <2>1, <2>2
<1>7. Registered(c)'
  BY <1>1, <1>2, <1>3, <1>4 DEF Registered, ConnectorOf, OwnerOf, Slots
<1>8. OwnerOf[s] \in Conns \cup {NoConn} /\ (OwnerOf[s] \in Conns => Registered(OwnerOf[s]))
  BY <1>1, RegisteredIsOwner DEF SessionInv, TypeOK, OwnerOf, Slots
<1>9. Retired' = Retired \cup ({OwnerOf[s]} \ {NoConn})
  BY <1>3, <1>5, <1>6, <1>7, <1>8, NullsDistinct DEF Retired, Registered
<1>10. c \notin Retired
  BY DEF Retired
<1>11. Talking' \in SUBSET (Conns \ Retired')
  BY DEF SessionInv, OpenSessionIsRegistered, Talking, Retired
<1>12. Owner!Claim(s, c)
  BY <1>2, <1>5, <1>9, <1>10, <1>11 DEF Owner!Claim, OwnerOf, Retired, Talking, Slots
<1> QED BY <1>1, <1>12 DEF Owner!Next, Slots

\* Emptying a set of slots releases them.
LEMMA EmptiedSlotsRelease ==
  ASSUME SessionInv, SessionInv', NEW S \in SUBSET Slots, UNCHANGED <<uaid, kind>>,
         \A s \in Slots : OwnerOf'[s] = IF s \in S THEN NoConn ELSE OwnerOf[s]
  PROVE  Owner!Next
<1>1. OwnerOf' = [s \in Slots |-> IF s \in S THEN NoConn ELSE OwnerOf[s]]
  BY DEF OwnerOf
<1>2. \A d \in Conns : Registered(d)' <=> Registered(d) /\ d \notin {OwnerOf[s] : s \in S}
  <2> SUFFICES ASSUME NEW d \in Conns
               PROVE  Registered(d)' <=> Registered(d) /\ d \notin {OwnerOf[s] : s \in S}
    OBVIOUS
  <2>1. CASE HasConnector(d)
    <3>1. uaid[d] \in UAIDs /\ Home[d] \in Servers
      BY <2>1, HomeType DEF SessionInv, TypeOK, TableSound
    <3> DEFINE t == <<Home[d], uaid[d]>>
    <3>2. t \in Slots
      BY <3>1 DEF Slots
    <3>3. Registered(d) <=> OwnerOf[t] = d
      BY <3>2, RegisteredIsOwner
    <3>4. Registered(d)' <=> OwnerOf'[t] = d
      BY <2>1, <3>1 DEF Registered, HasConnector, ConnectorOf, OwnerOf, Slots
    <3>5. OwnerOf'[t] = IF t \in S THEN NoConn ELSE OwnerOf[t]
      BY <3>2
    <3>6. \A s \in S : OwnerOf[s] = d => s = t
      BY RegisteredIsOwner
    <3> QED BY <3>3, <3>4, <3>5, <3>6, NullsDistinct
  <2>2. CASE ~HasConnector(d)
    BY <2>2 DEF Registered, HasConnector
  <2> QED BY <2>1, <2>2
<1>3. \A s \in S : OwnerOf[s] \in Conns \cup {NoConn}
  BY DEF SessionInv, TypeOK, OwnerOf, Slots
<1>4. \A s \in S : OwnerOf[s] \in Conns => Registered(OwnerOf[s])
  BY RegisteredIsOwner
<1>5. Retired' = Retired \cup ({OwnerOf[s] : s \in S} \ {NoConn})
  BY <1>2, <1>3, <1>4, NullsDistinct DEF Retired, Registered, HasConnector
<1>6. Talking' \in SUBSET (Conns \ Retired')
  BY DEF SessionInv, OpenSessionIsRegistered, Talking, Retired
<1>7. Owner!Release(S)
  BY <1>1, <1>5, <1>6 DEF Owner!Release, OwnerOf, Retired, Talking, Slots
<1> QED BY <1>7 DEF Owner!Next, Slots

LEMMA OnWSCloseReleases ==
  ASSUME SessionInv, SessionInv', NEW c \in Conns, OnWSClose(c), UNCHANGED <<uaid, kind>>
  PROVE  Owner!Next
<1>1. CASE uaid[c] = NoUaid
  BY <1>1, TableUnchanged DEF OnWSClose
<1>2. CASE uaid[c] # NoUaid
  <2> DEFINE s == <<Home[c], uaid[c]>>
  <2>1. s \in Slots
    BY <1>2, HomeType DEF SessionInv, TypeOK, Slots
  <2>2. nodesConnectors' = [nodesConnectors EXCEPT ![Home[c]][uaid[c]] = NoConn]
    BY <1>2 DEF OnWSClose
  <2>3. \A t \in Slots : OwnerOf'[t] = IF t \in {s} THEN NoConn ELSE OwnerOf[t]
    BY <2>2 DEF SessionInv, TypeOK, OwnerOf, Slots
  <2> QED BY <2>1, <2>3, EmptiedSlotsRelease
<1> QED BY <1>1, <1>2

LEMMA StepImplements ==
  SessionInv /\ SessionInv' /\ [Next]_vars => [Owner!Next]_<<OwnerOf, Retired, Talking>>
<1> SUFFICES ASSUME SessionInv, SessionInv', [Next]_vars
             PROVE  Owner!Next \/ UNCHANGED <<OwnerOf, Retired, Talking>>
  OBVIOUS
<1>1. ASSUME NEW c \in Conns, Client(c) PROVE Owner!Next
  <2>1. CASE Accept(c) \/ Reject(c) \/ PeerClose(c)
    BY <2>1, TableUnchanged DEF Accept, Reject, PeerClose
  <2>2. CASE Message(c) \/ BadMessage(c)
    BY <2>2, TableUnchanged DEF Message, BadMessage
  <2>3. ASSUME NEW u \in UAIDs, HelloLookup(c, u) PROVE Owner!Next
    <3>1. ~HasConnector(c) /\ \A d \in Conns : d # c => uaid'[d] = uaid[d]
      BY <2>3 DEF HelloLookup, SessionInv, TypeOK, TableSound
    <3> QED BY <2>3, <3>1, TableUnchanged DEF HelloLookup
  <2>4. ASSUME NEW u \in UAIDs, NEW k \in {"ws", "udp"}, Hello(c, u, k) PROVE Owner!Next
    <3>1. ~HasConnector(c)
      BY <2>4 DEF Hello, SessionInv, TableSound
    <3> QED BY <2>4, <3>1, GetConnectorClaims DEF Hello
  <2> QED BY <1>1, <2>1, <2>2, <2>3, <2>4 DEF Client
<1>2. ASSUME NEW c \in Conns, Event(c) PROVE Owner!Next
  <2>1. ASSUME NEW k \in {"ws", "udp"}, LookupReturns(c, k) PROVE Owner!Next
    <3>1. c \in lookups /\ uaid' = uaid
      BY <2>1 DEF LookupReturns
    <3>2. uaid[c] \in UAIDs /\ ~HasConnector(c) /\ uaid' = [uaid EXCEPT ![c] = uaid[c]]
      BY <3>1 DEF SessionInv, TypeOK, TableSound
    <3> QED BY <2>1, <3>2, GetConnectorClaims DEF LookupReturns
  <2>2. CASE LookupFails(c) \/ AutocloseElapses(c)
    BY <2>2, TableUnchanged DEF LookupFails, AutocloseElapses
  <2>3. CASE SocketClosed(c) \/ AutocloseFires(c)
    BY <2>3, OnWSCloseReleases DEF SocketClosed, AutocloseFires
  <2> QED BY <1>2, <2>1, <2>2, <2>3 DEF Event
<1>3. ASSUME NEW op \in dbOps, DataStore(op) PROVE Owner!Next
  BY <1>3, TableUnchanged DEF DataStore, RegisterExecutes, RegisterFails,
                              UnregisterExecutes, UnregisterFails
<1>4. ASSUME NEW s \in Servers, WorkerExits(s) PROVE Owner!Next
  <2>1. \A t \in Slots : OwnerOf'[t] = IF t \in {s} \X UAIDs THEN NoConn ELSE OwnerOf[t]
    BY <1>4 DEF WorkerExits, SessionInv, TypeOK, OwnerOf, Slots
  <2>2. {s} \X UAIDs \in SUBSET Slots /\ UNCHANGED <<uaid, kind>>
    BY <1>4 DEF WorkerExits, Slots
  <2> QED BY <2>1, <2>2, EmptiedSlotsRelease
<1>5. CASE UNCHANGED vars
  BY <1>5 DEF vars, OwnerOf, Retired, Talking, HasConnector, Registered, ConnectorOf
<1> QED BY <1>1, <1>2, <1>3, <1>4, <1>5 DEF Next

LEMMA InitImplements == Init => Owner!Init
<1> SUFFICES ASSUME Init PROVE Owner!Init
  OBVIOUS
<1>1. OwnerOf = [s \in Slots |-> NoConn] /\ Retired = {} /\ Talking = {}
  BY DEF Init, OwnerOf, Slots, Retired, Talking, HasConnector
<1> QED BY <1>1 DEF Owner!Init, OwnerOf, Slots, Retired, Talking

\* Every behaviour of the sessions is one of SlotOwner: a uaid has at most one
\* owner on a worker, and the one displaced is silenced for good.
THEOREM TableImplementsSlotOwner == Spec => RefinesSlotOwner
<1>1. SessionInv /\ SessionInv' /\ [Next]_vars =>
        [Owner!Next]_<<[s \in Servers \X UAIDs |-> nodesConnectors[s[1]][s[2]]],
                       {c \in Conns : HasConnector(c) /\ ~Registered(c)},
                       {c \in Conns : ws[c] = "open"}>>
  BY StepImplements DEF OwnerOf, Retired, Talking, Slots
<1> QED BY <1>1, InitImplements, SessionCorrect, PTL DEF Spec, RefinesSlotOwner, Owner!Spec

(***************************************************************************)
(* Where the stored node says a device is                                  *)
(***************************************************************************)
\* Steps that answer no hello and send no update.
LEMMA SoundFrame ==
  ASSUME OpSound, HelloSound, UNCHANGED <<uaid, kind, closes, hello>>,
         dbOps' \subseteq dbOps, lookups' \subseteq lookups
  PROVE  OpSound' /\ HelloSound'
  BY DEF OpSound, HelloSound, HasConnector

\* A connector is made for a connection whose hello is pending.
LEMMA SoundGetConnector ==
  ASSUME SessionInv, OpSound, HelloSound, NEW c \in Conns, NEW u, NEW k \in {"ws", "udp"},
         GetConnector(c, u, k), closes' = closes, lookups' \subseteq lookups,
         uaid'[c] # NoUaid, hello'[c] = "pending",
         \A d \in Conns \ {c} : uaid'[d] = uaid[d] /\ hello'[d] = hello[d]
  PROVE  OpSound' /\ HelloSound'
<1>1. dbOps' = dbOps \cup {[conn |-> c, nth |-> 0, co |-> "CONNECTED"]}
  BY DEF GetConnector
<1>2. \A d \in Conns : kind'[d] = IF d = c THEN k ELSE kind[d]
  BY DEF GetConnector, SessionInv, TypeOK
<1>3. \A op \in dbOps : op.conn \in Conns /\ op.nth \in Nat
  BY DEF SessionInv, TypeOK, DbOp
<1>4. closes[c] \in Nat
  BY DEF SessionInv, TypeOK
<1>5. OpSound'
  <2> SUFFICES ASSUME NEW op \in dbOps'
               PROVE  /\ uaid'[op.conn] # NoUaid /\ op.nth <= closes'[op.conn]
                      /\ op.nth = 0 => /\ op.co = "CONNECTED" /\ hello'[op.conn] = "pending"
                                       /\ kind'[op.conn] # "none"
    BY DEF OpSound, HasConnector
  <2>1. CASE op \in dbOps
    BY <1>2, <1>3, <2>1 DEF OpSound, HasConnector
  <2>2. CASE op = [conn |-> c, nth |-> 0, co |-> "CONNECTED"]
    BY <1>2, <1>4, <2>2
  <2> QED BY <1>1, <2>1, <2>2
<1>6. HelloSound'
  BY <1>2 DEF HelloSound, HasConnector
<1> QED BY <1>5, <1>6

\* The 'close' event of a connection sends at most one update, its latest.
LEMMA SoundOnWSClose ==
  ASSUME SessionInv, OpSound, HelloSound, NEW c \in Conns, OnWSClose(c),
         UNCHANGED <<uaid, kind, hello, lookups>>
  PROVE  OpSound' /\ HelloSound'
<1>1. closes[c] \in Nat /\ \A d \in Conns : closes'[d] = IF d = c THEN closes[c] + 1 ELSE closes[d]
  BY DEF OnWSClose, SessionInv, TypeOK
<1>2. \A op \in dbOps' : op \in dbOps \/ (op.conn = c /\ op.nth = closes[c] + 1 /\ uaid[c] # NoUaid)
  BY DEF OnWSClose
<1>3. \A op \in dbOps : op.conn \in Conns /\ op.nth \in Nat /\ closes[op.conn] \in Nat
  BY DEF SessionInv, TypeOK, DbOp
<1>4. OpSound'
  <2> SUFFICES ASSUME NEW op \in dbOps'
               PROVE  /\ uaid'[op.conn] # NoUaid /\ op.nth <= closes'[op.conn]
                      /\ op.nth = 0 => /\ op.co = "CONNECTED" /\ hello'[op.conn] = "pending"
                                       /\ kind'[op.conn] # "none"
    BY DEF OpSound, HasConnector
  <2>1. CASE op \in dbOps
    <3>1. op.nth <= closes'[op.conn]
      BY <1>1, <1>3, <2>1 DEF OpSound
    <3> QED BY <2>1, <3>1 DEF OpSound, HasConnector
  <2>2. CASE op.conn = c /\ op.nth = closes[c] + 1 /\ uaid[c] # NoUaid
    BY <1>1, <2>2
  <2> QED BY <1>2, <2>1, <2>2
<1>5. HelloSound'
  BY DEF HelloSound, HasConnector
<1> QED BY <1>4, <1>5

\* The register of a connection is the only one, and its execution or failure
\* the only answer.
LEMMA SoundAnswer ==
  ASSUME SessionInv, OpSound, HelloSound, NEW op \in dbOps, op.nth = 0,
         NEW a \in {"ok", "error"}, Answer(op.conn, a), dbOps' = dbOps \ {op},
         UNCHANGED <<uaid, kind, closes, lookups>>
  PROVE  OpSound' /\ HelloSound'
<1>1. op \in DbOp /\ op.conn \in Conns
  BY DEF SessionInv, TypeOK, DbOp
<1>2. uaid[op.conn] # NoUaid /\ op.co = "CONNECTED" /\ HasConnector(op.conn)
  BY DEF OpSound
<1>3. op.conn \notin lookups
  BY <1>2 DEF SessionInv, TableSound
<1>4. \A d \in Conns \ {op.conn} : hello'[d] = hello[d]
  BY <1>1 DEF Answer, SessionInv, TypeOK
<1>5. \A o \in dbOps' : o.nth = 0 => o.conn # op.conn
  <2> SUFFICES ASSUME NEW o \in dbOps', o.nth = 0, o.conn = op.conn PROVE FALSE
    OBVIOUS
  <2>1. o \in DbOp /\ o.co = "CONNECTED"
    BY DEF SessionInv, TypeOK, OpSound
  <2>2. o = op
    BY <1>1, <1>2, <2>1 DEF DbOp
  <2> QED BY <2>2
<1>6. OpSound'
  <2>1. \A o \in dbOps' : o \in dbOps /\ o.conn \in Conns
    BY DEF SessionInv, TypeOK, DbOp
  <2> QED BY <1>4, <1>5, <2>1 DEF OpSound, HasConnector
<1>7. HelloSound'
  BY <1>2, <1>3, <1>4 DEF HelloSound, HasConnector
<1> QED BY <1>6, <1>7

LEMMA SoundStep ==
  ASSUME SessionInv, OpSound, HelloSound, [Next]_vars
  PROVE  OpSound' /\ HelloSound'
<1>1. ASSUME NEW c \in Conns, Client(c) PROVE OpSound' /\ HelloSound'
  <2>1. ASSUME NEW u \in UAIDs, HelloLookup(c, u) PROVE OpSound' /\ HelloSound'
    <3>1. /\ \A d \in Conns : uaid'[d] = IF d = c THEN u ELSE uaid[d]
          /\ \A d \in Conns : hello'[d] = IF d = c THEN "pending" ELSE hello[d]
          /\ uaid[c] = NoUaid /\ lookups' = lookups \cup {c}
          /\ UNCHANGED <<kind, closes, dbOps>>
      BY <2>1 DEF HelloLookup, SessionInv, TypeOK
    <3>2. \A op \in dbOps : op.conn \in Conns \ {c}
      BY <3>1 DEF SessionInv, TypeOK, DbOp, OpSound
    <3> QED BY <3>1, <3>2, NullsDistinct DEF OpSound, HelloSound, HasConnector
  <2>2. ASSUME NEW u \in UAIDs, NEW k \in {"ws", "udp"}, Hello(c, u, k)
        PROVE  OpSound' /\ HelloSound'
    <3>1. /\ \A d \in Conns : uaid'[d] = IF d = c THEN u ELSE uaid[d]
          /\ \A d \in Conns : hello'[d] = IF d = c THEN "pending" ELSE hello[d]
          /\ closes' = closes /\ lookups' = lookups /\ GetConnector(c, u, k)
      BY <2>2 DEF Hello, SessionInv, TypeOK
    <3> QED BY <3>1, NullsDistinct, SoundGetConnector
  <2>3. CASE Accept(c) \/ Reject(c) \/ Message(c) \/ BadMessage(c) \/ PeerClose(c)
    BY <2>3, SoundFrame DEF Accept, Reject, Message, BadMessage, PeerClose
  <2> QED BY <1>1, <2>1, <2>2, <2>3 DEF Client
<1>2. ASSUME NEW c \in Conns, Event(c) PROVE OpSound' /\ HelloSound'
  <2>1. ASSUME NEW k \in {"ws", "udp"}, LookupReturns(c, k) PROVE OpSound' /\ HelloSound'
    <3>1. /\ c \in lookups /\ lookups' = lookups \ {c} /\ UNCHANGED <<uaid, closes, hello>>
          /\ GetConnector(c, uaid[c], k)
      BY <2>1 DEF LookupReturns
    <3>2. uaid[c] # NoUaid /\ hello[c] = "pending"
      BY <3>1 DEF SessionInv, TableSound, HelloSound
    <3> QED BY <3>1, <3>2, SoundGetConnector
  <2>2. CASE LookupFails(c)
    <3>1. /\ c \in lookups /\ lookups' = lookups \ {c} /\ UNCHANGED <<uaid, kind, closes, dbOps>>
          /\ \A d \in Conns : hello'[d] = IF d = c THEN "error" ELSE hello[d]
      BY <2>2 DEF LookupFails, SessionInv, TypeOK
    <3>2. uaid[c] # NoUaid /\ ~HasConnector(c)
      BY <3>1 DEF SessionInv, TableSound
    <3>3. \A op \in dbOps : op.conn \in Conns
      BY DEF SessionInv, TypeOK, DbOp
    <3>4. HelloSound'
      BY <3>1, <3>2 DEF HelloSound, HasConnector
    <3>5. OpSound'
      BY <3>1, <3>2, <3>3 DEF OpSound, HasConnector
    <3> QED BY <3>4, <3>5
  <2>3. CASE SocketClosed(c)
    BY <2>3, SoundOnWSClose DEF SocketClosed
  <2>4. CASE AutocloseElapses(c)
    BY <2>4, SoundFrame DEF AutocloseElapses
  <2>5. CASE AutocloseFires(c)
    BY <2>5, SoundOnWSClose DEF AutocloseFires
  <2> QED BY <1>2, <2>1, <2>2, <2>3, <2>4, <2>5 DEF Event
<1>3. ASSUME NEW op \in dbOps, DataStore(op) PROVE OpSound' /\ HelloSound'
  <2>1. CASE RegisterExecutes(op)
    BY <2>1, SoundAnswer DEF RegisterExecutes
  <2>2. CASE RegisterFails(op)
    BY <2>2, SoundAnswer DEF RegisterFails
  <2>3. CASE UnregisterExecutes(op) \/ UnregisterFails(op)
    BY <2>3, SoundFrame DEF UnregisterExecutes, UnregisterFails
  <2> QED BY <1>3, <2>1, <2>2, <2>3 DEF DataStore
<1>4. ASSUME NEW s \in Servers, WorkerExits(s) PROVE OpSound' /\ HelloSound'
  BY <1>4, SoundFrame DEF WorkerExits
<1>5. CASE UNCHANGED vars
  BY <1>5, SoundFrame DEF vars
<1> QED BY <1>1, <1>2, <1>3, <1>4, <1>5 DEF Next

\* An answer is due to a hello that is pending only.
LEMMA AnswerStep ==
  ASSUME SessionInv, OpSound, HelloSound, [Next]_vars, NEW c \in Conns,
         hello[c] \in {"ok", "error"}
  PROVE  hello'[c] = hello[c]
<1>1. TypeOK
  BY DEF SessionInv
<1>2. uaid[c] # NoUaid /\ c \notin lookups
  BY DEF HelloSound
<1>3. ASSUME NEW d \in Conns, Client(d) PROVE hello'[c] = hello[c]
  <2>1. ASSUME NEW u \in UAIDs, NEW k \in {"ws", "udp"}, Hello(d, u, k) \/ HelloLookup(d, u)
        PROVE  hello'[c] = hello[c]
    BY <1>1, <1>2, <2>1 DEF Hello, HelloLookup, TypeOK
  <2> QED BY <1>3, <2>1 DEF Client, Accept, Reject, Message, BadMessage, PeerClose
<1>4. ASSUME NEW d \in Conns, Event(d) PROVE hello'[c] = hello[c]
  BY <1>1, <1>2, <1>4 DEF Event, LookupReturns, LookupFails, SocketClosed, AutocloseElapses,
                          AutocloseFires, TypeOK
<1>5. ASSUME NEW op \in dbOps, DataStore(op) PROVE hello'[c] = hello[c]
  <2>1. op.conn \in Conns /\ (op.nth = 0 => op.conn # c)
    BY <1>1 DEF TypeOK, DbOp, OpSound
  <2> QED BY <1>1, <1>5, <2>1 DEF DataStore, RegisterExecutes, RegisterFails, Answer,
                                  UnregisterExecutes, UnregisterFails, TypeOK
<1>6. ASSUME NEW s \in Servers, WorkerExits(s) PROVE hello'[c] = hello[c]
  BY <1>6 DEF WorkerExits
<1>7. CASE UNCHANGED vars
  BY <1>7 DEF vars
<1> QED BY <1>3, <1>4, <1>5, <1>6, <1>7 DEF Next

\* A hello is answered once at most, for any connections and workers and with
\* whatever becomes of lookups and updates.
THEOREM HelloIsAnsweredOnce == Spec => AnsweredOnce
<1>1. Init => OpSound /\ HelloSound
  BY DEF Init, OpSound, HelloSound
<1>2. SessionInv /\ OpSound /\ HelloSound /\ [Next]_vars => OpSound' /\ HelloSound'
  BY SoundStep
<1>3. SessionInv /\ OpSound /\ HelloSound /\ [Next]_vars =>
        [\A c \in Conns : hello[c] \in {"ok", "error"} => hello'[c] = hello[c]]_vars
  BY AnswerStep
<1> QED BY <1>1, <1>2, <1>3, SessionCorrect, PTL DEF Spec, AnsweredOnce

\* What is over stays over: above all, no message of another connection arms a
\* timer that has fired, since its connector is out of the table.
LEMMA ResetSparesDone ==
  ASSUME SessionInv, NEW c \in Conns, NEW d \in Conns, Done(d), ResetAutoclose(c)
  PROVE  timer'[d] = "off"
<1> DEFINE m == ConnectorOf(c, uaid[c])
<1>1. CASE uaid[c] # NoUaid /\ m # NoConn /\ kind[m] = "udp"
  <2>1. timer' = [timer EXCEPT ![m] = "armed"]
    BY <1>1 DEF ResetAutoclose
  <2>2. Home[m] = Home[c] /\ uaid[m] = uaid[c] /\ m \in Conns
    BY <1>1, HomeType DEF SessionInv, TypeOK, TableSound, ConnectorOf
  <2>3. Registered(m)
    BY <1>1, <2>2 DEF Registered, HasConnector, ConnectorOf
  <2>4. m # d
    BY <1>1, <2>3 DEF SessionInv, TimerSound, Done
  <2> QED BY <2>1, <2>4 DEF SessionInv, TypeOK, Done
<1>2. CASE ~(uaid[c] # NoUaid /\ m # NoConn /\ kind[m] = "udp")
  BY <1>2 DEF ResetAutoclose, Done
<1> QED BY <1>1, <1>2

LEMMA DoneStays ==
  ASSUME SessionInv, [Next]_vars, NEW d \in Conns, Done(d)
  PROVE  Done(d)' /\ uaid'[d] = uaid[d]
<1> DEFINE Stays == Done(d)' /\ uaid'[d] = uaid[d]
<1>t. TypeOK
  BY DEF SessionInv
<1>1. ASSUME NEW c \in Conns, NEW u, NEW k, GetConnector(c, u, k), c # d
      PROVE  ws'[d] = "closed" /\ timer'[d] = "off" /\ \A op \in dbOps' : op.conn # d
  BY <1>1, <1>t DEF GetConnector, Closed, Done, TypeOK
<1>2. ASSUME NEW c \in Conns, OnWSClose(c), c # d
      PROVE  ws'[d] = "closed" /\ \A op \in dbOps' : op.conn # d
  BY <1>2, <1>t DEF OnWSClose, Closed, Done, TypeOK
<1>3. ASSUME NEW c \in Conns, Client(c) PROVE Stays
  <2>1. ws[c] # "closed" /\ c # d
    BY <1>3 DEF Client, Accept, Reject, HelloLookup, Hello, Message, BadMessage, PeerClose, Done
  <2>2. CASE Accept(c) \/ Reject(c) \/ PeerClose(c)
    BY <2>1, <2>2, <1>t DEF Accept, Reject, PeerClose, Done, TypeOK
  <2>3. ASSUME NEW u \in UAIDs, HelloLookup(c, u) PROVE Stays
    BY <2>1, <2>3, <1>t DEF HelloLookup, Done, TypeOK
  <2>4. ASSUME NEW u \in UAIDs, NEW k \in {"ws", "udp"}, Hello(c, u, k) PROVE Stays
    <3>1. uaid'[d] = uaid[d] /\ lookups' = lookups /\ GetConnector(c, u, k)
      BY <2>1, <2>4, <1>t DEF Hello, TypeOK
    <3> QED BY <1>1, <2>1, <3>1 DEF Done
  <2>5. CASE Message(c)
    BY <2>5, ResetSparesDone DEF Message, Done
  <2>6. CASE BadMessage(c)
    <3>1. timer'[d] = "off"
      BY <2>6, ResetSparesDone DEF BadMessage
    <3> QED BY <2>6, <3>1 DEF BadMessage, Closed, Done
  <2> QED BY <1>3, <2>2, <2>3, <2>4, <2>5, <2>6 DEF Client
<1>4. ASSUME NEW c \in Conns, Event(c) PROVE Stays
  <2>1. c # d
    BY <1>4 DEF Event, LookupReturns, LookupFails, SocketClosed, AutocloseElapses,
                AutocloseFires, Done
  <2>2. ASSUME NEW k \in {"ws", "udp"}, LookupReturns(c, k) PROVE Stays
    <3>1. lookups' \subseteq lookups /\ uaid' = uaid /\ GetConnector(c, uaid[c], k)
      BY <2>2 DEF LookupReturns
    <3> QED BY <1>1, <2>1, <3>1 DEF Done
  <2>3. CASE LookupFails(c)
    BY <2>3 DEF LookupFails, Done
  <2>4. CASE SocketClosed(c)
    BY <1>2, <2>1, <2>4 DEF SocketClosed, Done
  <2>5. CASE AutocloseElapses(c)
    BY <2>1, <2>5, <1>t DEF AutocloseElapses, Done, TypeOK
  <2>6. CASE AutocloseFires(c)
    <3>1. timer'[d] = "off" /\ OnWSClose(c) /\ UNCHANGED <<lookups, uaid>>
      BY <2>1, <2>6, <1>t DEF AutocloseFires, Done, TypeOK
    <3> QED BY <1>2, <2>1, <3>1 DEF Done
  <2> QED BY <1>4, <2>2, <2>3, <2>4, <2>5, <2>6 DEF Event
<1>5. ASSUME NEW op \in dbOps, DataStore(op) PROVE Stays
  BY <1>5 DEF DataStore, RegisterExecutes, RegisterFails, UnregisterExecutes, UnregisterFails, Done
<1>6. ASSUME NEW s \in Servers, WorkerExits(s) PROVE Stays
  BY <1>6 DEF WorkerExits, Done
<1>7. CASE UNCHANGED vars
  BY <1>7 DEF vars, Done
<1> QED BY <1>3, <1>4, <1>5, <1>6, <1>7 DEF Next

\* A hello of the device waits for its other connections to be over.
LEMMA OneSessionStep ==
  ASSUME SessionInv, OneSession, [Next /\ SerialHello]_vars
  PROVE  OneSession'
<1> SUFFICES ASSUME NEW c \in Conns, NEW d \in Conns,
                    uaid'[c] # NoUaid, uaid'[c] = uaid'[d], c # d
             PROVE  Done(c)' \/ Done(d)'
  BY DEF OneSession
<1>1. [Next]_vars
  OBVIOUS
<1>2. ASSUME NEW e \in Conns, Done(e) PROVE Done(e)'
  BY <1>1, <1>2, DoneStays
<1>3. CASE uaid'[c] = uaid[c] /\ uaid'[d] = uaid[d]
  BY <1>2, <1>3 DEF OneSession
<1>4. ASSUME NEW e \in Conns, NEW f \in Conns, uaid'[e] # uaid[e], uaid'[f] = uaid'[e],
             uaid'[f] = uaid[f]
      PROVE  Done(f)'
  <2>1. Settled(uaid'[e])
    BY <1>4 DEF SerialHello, vars
  <2>2. Done(f)
    BY <1>4, <2>1 DEF Settled, Done
  <2> QED BY <1>2, <2>2
<1>5. ~(uaid'[c] # uaid[c] /\ uaid'[d] # uaid[d])
  <2>1. ASSUME uaid' # uaid PROVE \E e \in Conns : \A f \in Conns \ {e} : uaid'[f] = uaid[f]
    <3>1. PICK e \in Conns : Client(e)
      BY <1>1, <2>1 DEF Next, Event, LookupReturns, LookupFails, SocketClosed, AutocloseElapses,
         AutocloseFires, DataStore, RegisterExecutes, RegisterFails, UnregisterExecutes,
         UnregisterFails, WorkerExits, vars
    <3>2. \E u \in UAIDs : uaid' = [uaid EXCEPT ![e] = u]
      BY <2>1, <3>1 DEF Client, Accept, Reject, HelloLookup, Hello, Message, BadMessage, PeerClose
    <3> QED BY <3>2 DEF SessionInv, TypeOK
  <2> QED BY <2>1
<1> QED BY <1>3, <1>4, <1>5

\* Nothing writes the node of a device with an answered session: its own
\* unregister comes after its close, and its other connections are over.
LEMMA RoutedStep ==
  ASSUME RoutingInv, [Next]_vars
  PROVE  Routed'
<1> USE DEF RoutingInv
<1> SUFFICES ASSUME NEW c \in Conns, ws'[c] = "open", hello'[c] = "ok"
             PROVE  node'[uaid'[c]] = [co |-> "CONNECTED", si |-> GetServer(c)']
  BY DEF Routed
<1> DEFINE Kept == /\ ws[c] = "open" /\ hello[c] = "ok" /\ uaid'[c] = uaid[c]
                   /\ kind'[c] = kind[c] /\ node'[uaid[c]] = node[uaid[c]]
<1>1. ASSUME Kept PROVE node'[uaid'[c]] = [co |-> "CONNECTED", si |-> GetServer(c)']
  BY <1>1 DEF Routed, GetServer
<1>2. ASSUME NEW e \in Conns, Client(e), hello[c] = "ok" PROVE Kept
  <2>1. uaid[c] # NoUaid
    BY <1>2 DEF HelloSound
  <2>2. node' = node /\ ws[c] = "open"
    <3>1. CASE Accept(e)
      <4>1. c # e
        BY <2>1, <3>1 DEF Accept, SessionInv, SocketSound
      <4> QED BY <3>1, <4>1 DEF Accept, SessionInv, TypeOK
    <3>2. CASE Reject(e)
      BY <3>2 DEF Reject, SessionInv, TypeOK
    <3>3. CASE PeerClose(e)
      BY <3>3 DEF PeerClose, SessionInv, TypeOK
    <3>4. CASE ~(Accept(e) \/ Reject(e) \/ PeerClose(e))
      BY <1>2, <3>4 DEF Client, HelloLookup, Hello, Message, BadMessage, GetConnector, Closed
    <3> QED BY <3>1, <3>2, <3>3, <3>4
  <2>3. uaid'[c] = uaid[c] /\ kind'[c] = kind[c]
    <3>1. CASE \E u \in UAIDs : HelloLookup(e, u) \/ \E k \in {"ws", "udp"} : Hello(e, u, k)
      <4>1. c # e
        BY <2>1, <3>1 DEF HelloLookup, Hello
      <4> QED BY <3>1, <4>1 DEF HelloLookup, Hello, GetConnector, SessionInv, TypeOK
    <3>2. CASE ~\E u \in UAIDs : HelloLookup(e, u) \/ \E k \in {"ws", "udp"} : Hello(e, u, k)
      BY <1>2, <3>2 DEF Client, Accept, Reject, Message, BadMessage, PeerClose
    <3> QED BY <3>1, <3>2
  <2> QED BY <1>2, <2>2, <2>3
<1>3. ASSUME NEW e \in Conns, Event(e) PROVE Kept
  <2>1. node' = node /\ uaid' = uaid
    BY <1>3 DEF Event, LookupReturns, LookupFails, SocketClosed, AutocloseElapses, AutocloseFires
  <2>2. hello[c] = "ok"
    BY <1>3 DEF Event, LookupReturns, LookupFails, SocketClosed, AutocloseElapses,
                AutocloseFires, SessionInv, TypeOK
  <2>3. ws[c] = "open"
    <3>1. CASE SocketClosed(e) \/ AutocloseFires(e)
      BY <3>1 DEF SocketClosed, AutocloseFires, OnWSClose, Closed, SessionInv, TypeOK
    <3>2. CASE ~(SocketClosed(e) \/ AutocloseFires(e))
      BY <1>3, <3>2 DEF Event, LookupReturns, LookupFails, AutocloseElapses, GetConnector, Closed
    <3> QED BY <3>1, <3>2
  <2>4. kind'[c] = kind[c]
    <3>1. CASE \E k \in {"ws", "udp"} : LookupReturns(e, k)
      <4>1. c # e
        BY <2>2, <3>1 DEF LookupReturns, HelloSound
      <4> QED BY <3>1, <4>1 DEF LookupReturns, GetConnector, SessionInv, TypeOK
    <3>2. CASE ~\E k \in {"ws", "udp"} : LookupReturns(e, k)
      BY <1>3, <3>2 DEF Event, LookupFails, SocketClosed, AutocloseElapses, AutocloseFires
    <3> QED BY <3>1, <3>2
  <2> QED BY <2>1, <2>2, <2>3, <2>4
<1>4. ASSUME NEW op \in dbOps, DataStore(op)
      PROVE  node'[uaid'[c]] = [co |-> "CONNECTED", si |-> GetServer(c)']
  <2>1. op.conn \in Conns /\ op.nth \in Nat /\ uaid[op.conn] \in UAIDs
    BY DEF SessionInv, TypeOK, DbOp, OpSound
  <2>2. UNCHANGED <<ws, uaid, kind>>
    BY <1>4 DEF DataStore, RegisterExecutes, RegisterFails, UnregisterExecutes, UnregisterFails
  <2>3. hello[c] = "ok" \/ (RegisterExecutes(op) /\ op.conn = c)
    <3>1. ASSUME NEW a \in {"ok", "error"}, Answer(op.conn, a)
          PROVE  hello'[c] = hello[c] \/ (hello'[c] = a /\ op.conn = c)
      BY <2>1, <3>1 DEF Answer, SessionInv, TypeOK
    <3>2. CASE RegisterExecutes(op)
      BY <3>1, <3>2 DEF RegisterExecutes
    <3>3. CASE RegisterFails(op)
      <4>1. Answer(op.conn, "error")
        BY <3>3 DEF RegisterFails
      <4>2. hello'[c] = hello[c] \/ hello'[c] = "error"
        BY <3>1, <4>1
      <4> QED BY <4>2
    <3>4. CASE UnregisterExecutes(op) \/ UnregisterFails(op)
      BY <3>4 DEF UnregisterExecutes, UnregisterFails
    <3> QED BY <1>4, <3>2, <3>3, <3>4 DEF DataStore
  <2>4. CASE RegisterExecutes(op) /\ op.conn = c
    <3>1. op.co = "CONNECTED"
      BY <2>4 DEF RegisterExecutes, OpSound
    <3> QED BY <2>1, <2>2, <2>4, <3>1 DEF RegisterExecutes, SessionInv, TypeOK, GetServer
  <2>5. CASE hello[c] = "ok"
    <3>1. uaid[c] # NoUaid
      BY <2>5 DEF HelloSound
    <3>2. op.conn = c => FALSE
      BY <2>1, <2>2, <2>5 DEF OpSound, SessionInv, SocketSound
    <3>3. uaid[op.conn] # uaid[c]
      BY <2>1, <2>2, <3>1, <3>2 DEF OneSession, Done
    <3>4. node'[uaid[c]] = node[uaid[c]]
      <4>1. node' = node \/ \E n : node' = [node EXCEPT ![uaid[op.conn]] = n]
        BY <1>4 DEF DataStore, RegisterExecutes, RegisterFails, UnregisterExecutes,
                    UnregisterFails
      <4>2. /\ uaid[c] \in UAIDs
            /\ node \in [UAIDs -> [co : States \cup {"ABSENT"}, si : Servers \cup {"UDP", NoServer}]]
        BY <3>1 DEF SessionInv, TypeOK
      <4> QED BY <2>1, <3>3, <4>1, <4>2
    <3> QED BY <1>1, <2>2, <2>5, <3>4
  <2> QED BY <2>3, <2>4, <2>5
<1>5. ASSUME NEW s \in Servers, WorkerExits(s) PROVE Kept
  BY <1>5 DEF WorkerExits
<1>6. CASE UNCHANGED vars
  BY <1>1, <1>6 DEF vars
<1>7. ASSUME NEW e \in Conns, Client(e), hello[c] # "ok" PROVE FALSE
  BY <1>7 DEF Client, Accept, Reject, HelloLookup, Hello, Message, BadMessage, PeerClose,
              SessionInv, TypeOK
<1> QED BY <1>1, <1>2, <1>3, <1>4, <1>5, <1>6, <1>7 DEF Next

\* The sessions of a device, one at a time, keep the routing invariant.
THEOREM RoutingCorrect == SerialSpec => []RoutingInv
<1>1. Init => RoutingInv
  <2> SUFFICES ASSUME Init PROVE OpSound /\ HelloSound /\ OneSession /\ Routed
    BY SessionInit DEF RoutingInv
  <2> QED BY DEF Init, OpSound, HelloSound, OneSession, Routed
<1>2. RoutingInv /\ [Next /\ SerialHello]_vars => RoutingInv'
  <2> SUFFICES ASSUME RoutingInv, [Next /\ SerialHello]_vars PROVE RoutingInv'
    OBVIOUS
  <2>1. [Next]_vars
    OBVIOUS
  <2> QED BY <2>1, SessionStep, SoundStep, OneSessionStep, RoutedStep DEF RoutingInv
<1> QED BY <1>1, <1>2, PTL DEF SerialSpec

\* While the sessions of a device do not overlap, its node names the server of
\* its open, answered session, for any devices, connections and workers.
THEOREM SerialSessionsAreRouted == SerialSpec => []RoutedSession
<1>1. RoutingInv => RoutedSession
  BY DEF RoutingInv, Routed, RoutedSession
<1> QED BY <1>1, RoutingCorrect, PTL
===============================================================================
