---------------------------- MODULE Presence_proofs ----------------------------
(***************************************************************************)
(* Proof that the sessions of the User Agent front end, when those of a    *)
(* device do not overlap, implement Presence: each step of UASession maps  *)
(* to a step of Presence, or to none.                                      *)
(***************************************************************************)
EXTENDS UASession_proofs

SessionOf(u) == ServerAmong(Held(u))
AskingOf(u)  == ServerAmong(Asking(u))
UpdatesOf(u) == {Written(op) : op \in OpsOf(u)}
NodeOf(u)    == node[u].si

SameSession(u) == SessionOf(u)' = SessionOf(u) /\ AskingOf(u)' = AskingOf(u)
Same(u) == SameSession(u) /\ UpdatesOf(u)' = UpdatesOf(u) /\ NodeOf(u)' = NodeOf(u)

(***************************************************************************)
(* What the mapping makes of one connection                                *)
(***************************************************************************)
\* The other connections of the device of c are over.
Sole(c) ==
  /\ uaid[c] \in UAIDs
  /\ \A d \in Conns \ {c} : uaid[d] = uaid[c] => Done(d)

\* What c alone makes of its device.
MapsFrom(c) ==
  /\ SessionOf(uaid[c]) = IF ws[c] \in {"open", "closing"} THEN Home[c] ELSE NoServer
  /\ AskingOf(uaid[c]) = IF c \in lookups THEN Home[c] ELSE NoServer
  /\ OpsOf(uaid[c]) = {op \in dbOps : op.conn = c}

LEMMA ServerAmongOne ==
  ASSUME NEW c \in Conns, NEW S, S \subseteq {c}
  PROVE  ServerAmong(S) = IF c \in S THEN Home[c] ELSE NoServer
<1>1. CASE c \in S
  <2>1. S = {c}
    BY <1>1
  <2>2. (CHOOSE d \in S : TRUE) = c
    BY <2>1
  <2> QED BY <2>1, <2>2 DEF ServerAmong
<1>2. CASE c \notin S
  <2>1. S = {}
    BY <1>2
  <2> QED BY <1>2, <2>1 DEF ServerAmong
<1> QED BY <1>1, <1>2

SolesMap == \A c \in Conns : TypeOK /\ Sole(c) => MapsFrom(c)

LEMMA SolesAlwaysMap == SolesMap
<1> SUFFICES ASSUME NEW c \in Conns, TypeOK, Sole(c) PROVE MapsFrom(c)
  BY DEF SolesMap
<1>1. Held(uaid[c]) \subseteq {c}
  BY DEF Held, Sole, Done
<1>2. Asking(uaid[c]) \subseteq {c}
  BY DEF Asking, Sole, Done, TypeOK
<1>3. c \in Held(uaid[c]) <=> ws[c] \in {"open", "closing"}
  BY DEF Held
<1>4. c \in Asking(uaid[c]) <=> c \in lookups
  BY DEF Asking
<1>5. OpsOf(uaid[c]) = {op \in dbOps : op.conn = c}
  BY DEF OpsOf, Sole, Done, TypeOK, DbOp
<1> QED BY <1>1, <1>2, <1>3, <1>4, <1>5, ServerAmongOne DEF MapsFrom, SessionOf, AskingOf

LEMMA SoleMaps ==
  ASSUME NEW c \in Conns
  PROVE  /\ TypeOK /\ Sole(c) => MapsFrom(c)
         /\ TypeOK' /\ Sole(c)' => MapsFrom(c)'
<1>1. SolesMap'
  BY SolesAlwaysMap, PTL
<1> QED BY <1>1, SolesAlwaysMap DEF SolesMap

\* A connection that is not over is alone, and what its device is seen as
\* depends on it alone.
LivesMap == \A c \in Conns :
  SessionInv /\ OneSession /\ uaid[c] # NoUaid /\ ~Done(c) => MapsFrom(c)

LEMMA LivesAlwaysMap == LivesMap
<1> SUFFICES ASSUME NEW c \in Conns, SessionInv, OneSession, uaid[c] # NoUaid, ~Done(c)
             PROVE  MapsFrom(c)
  BY DEF LivesMap
<1>1. TypeOK /\ Sole(c)
  BY DEF Sole, OneSession, SessionInv, TypeOK
<1> QED BY <1>1, SoleMaps

LEMMA LiveMaps ==
  ASSUME NEW c \in Conns
  PROVE  /\ RoutingInv /\ uaid[c] # NoUaid /\ ~Done(c) => MapsFrom(c)
         /\ RoutingInv' /\ uaid'[c] # NoUaid /\ ~Done(c)' => MapsFrom(c)'
<1>1. LivesMap'
  BY LivesAlwaysMap, PTL
<1> QED BY <1>1, LivesAlwaysMap DEF LivesMap, RoutingInv

(***************************************************************************)
(* Steps about one connection                                              *)
(***************************************************************************)
Holds(w, c) == w[c] \in {"open", "closing"}

\* A step about connection c, of device u after the step, shows on no other
\* device.
LEMMA OthersSame ==
  ASSUME TypeOK, TypeOK', NEW c \in Conns, NEW u, uaid'[c] = u, uaid[c] \in {NoUaid, u},
         \A d \in Conns \ {c} : /\ uaid'[d] = uaid[d] /\ kind'[d] = kind[d]
                                /\ Holds(ws', d) <=> Holds(ws, d)
                                /\ d \in lookups' <=> d \in lookups,
         \A op \in dbOps \cup dbOps' : op.conn # c => (op \in dbOps' <=> op \in dbOps),
         \A v \in UAIDs \ {u} : node'[v] = node[v]
  PROVE  \A v \in UAIDs \ {u} : Same(v)
<1> SUFFICES ASSUME NEW v \in UAIDs \ {u} PROVE Same(v)
  OBVIOUS
<1>1. \A d \in Conns : uaid'[d] = v <=> uaid[d] = v
  BY NullsDistinct
<1>2. \A d \in Conns : uaid[d] = v => d # c
  BY NullsDistinct
<1>3. Held(v)' = Held(v)
  BY <1>1, <1>2 DEF Held, Holds
<1>4. Asking(v)' = Asking(v)
  BY <1>1, <1>2 DEF Asking, TypeOK
<1>5. OpsOf(v)' = OpsOf(v)
  BY <1>1, <1>2 DEF OpsOf, TypeOK, DbOp
<1>6. \A op \in OpsOf(v) : Written(op)' = Written(op)
  BY <1>2 DEF OpsOf, Written, GetServer, TypeOK, DbOp
<1> QED BY <1>3, <1>4, <1>5, <1>6 DEF Same, SameSession, SessionOf, AskingOf, UpdatesOf, NodeOf,
                                      ServerAmong

SessionMap == [u \in UAIDs |-> ServerAmong(Held(u))]
AskingMap  == [u \in UAIDs |-> ServerAmong(Asking(u))]
UpdatesMap == [u \in UAIDs |-> {Written(op) : op \in OpsOf(u)}]
NodeMap    == [u \in UAIDs |-> node[u].si]

\* What the mapping does when only device u changes.
LEMMA OneDevice ==
  ASSUME NEW u \in UAIDs, \A v \in UAIDs \ {u} : Same(v)
  PROVE  /\ SessionMap' = [SessionMap EXCEPT ![u] = SessionOf(u)']
         /\ AskingMap' = [AskingMap EXCEPT ![u] = AskingOf(u)']
         /\ UpdatesMap' = [UpdatesMap EXCEPT ![u] = UpdatesOf(u)']
         /\ NodeMap' = [NodeMap EXCEPT ![u] = NodeOf(u)']
         /\ SessionMap[u] = SessionOf(u) /\ AskingMap[u] = AskingOf(u)
         /\ UpdatesMap[u] = UpdatesOf(u) /\ NodeMap[u] = NodeOf(u)
BY DEF Same, SameSession, SessionMap, AskingMap, UpdatesMap, NodeMap,
       SessionOf, AskingOf, UpdatesOf, NodeOf

LEMMA MapsUnchanged ==
  ASSUME NEW u \in UAIDs, \A v \in UAIDs \ {u} : Same(v)
  PROVE  /\ SessionOf(u)' = SessionOf(u) => SessionMap' = SessionMap
         /\ AskingOf(u)' = AskingOf(u) => AskingMap' = AskingMap
         /\ UpdatesOf(u)' = UpdatesOf(u) => UpdatesMap' = UpdatesMap
         /\ NodeOf(u)' = NodeOf(u) => NodeMap' = NodeMap
BY DEF Same, SameSession, SessionMap, AskingMap, UpdatesMap, NodeMap,
       SessionOf, AskingOf, UpdatesOf, NodeOf

MapVars == <<SessionMap, AskingMap, UpdatesMap, NodeMap>>

LEMMA NothingShows ==
  ASSUME \A v \in UAIDs : Same(v)
  PROVE  UNCHANGED MapVars
BY DEF Same, SameSession, MapVars, SessionMap, AskingMap, UpdatesMap, NodeMap,
       SessionOf, AskingOf, UpdatesOf, NodeOf

(***************************************************************************)
(* Each step maps to a step of Presence, or to none                        *)
(***************************************************************************)
\* The first hello of a session: nothing is left of the sessions before.
LEMMA FirstHello ==
  ASSUME RoutingInv, RoutingInv', SerialHello, NEW c \in Conns, NEW u \in UAIDs,
         ws[c] = "open", uaid[c] = NoUaid, uaid' = [uaid EXCEPT ![c] = u],
         Holds(ws', c),
         \A d \in Conns \ {c} : kind'[d] = kind[d] /\ (Holds(ws', d) <=> Holds(ws, d)),
         lookups' \ {c} = lookups \ {c}, node' = node,
         \A op \in dbOps \cup dbOps' : op.conn # c => (op \in dbOps' <=> op \in dbOps)
  PROVE  /\ \A v \in UAIDs \ {u} : Same(v)
         /\ SessionOf(u) = NoServer /\ AskingOf(u) = NoServer /\ UpdatesOf(u) = {}
         /\ SessionOf(u)' = Home[c] /\ NodeOf(u)' = NodeOf(u)
         /\ AskingOf(u)' = IF c \in lookups' THEN Home[c] ELSE NoServer
         /\ OpsOf(u)' = {op \in dbOps' : op.conn = c}
<1>1. TypeOK /\ TypeOK'
  BY DEF RoutingInv, SessionInv
<1>2. uaid'[c] = u /\ \A d \in Conns \ {c} : uaid'[d] = uaid[d]
  BY <1>1 DEF TypeOK
<1>3. \A v \in UAIDs \ {u} : Same(v)
  BY <1>1, <1>2, OthersSame DEF TypeOK
<1>4. Settled(u)
  BY <1>2, NullsDistinct DEF SerialHello
<1>5. SessionOf(u) = NoServer /\ AskingOf(u) = NoServer /\ UpdatesOf(u) = {}
  <2>1. Held(u) = {} /\ Asking(u) = {} /\ OpsOf(u) = {}
    BY <1>1, <1>4 DEF Settled, Held, Asking, OpsOf, TypeOK
  <2> QED BY <2>1 DEF SessionOf, AskingOf, UpdatesOf, ServerAmong
<1>6. MapsFrom(c)'
  <2>1. ~Done(c)' /\ uaid'[c] # NoUaid
    BY <1>2, NullsDistinct DEF Done, Holds
  <2> QED BY <2>1, LiveMaps
<1> QED BY <1>2, <1>3, <1>5, <1>6 DEF MapsFrom, Holds, NodeOf

LEMMA HelloImplements ==
  ASSUME RoutingInv, RoutingInv', SerialHello, NEW c \in Conns, NEW u \in UAIDs,
         NEW k \in {"ws", "udp"}, Hello(c, u, k)
  PROVE  Devs!Next
<1> DEFINE reg == [conn |-> c, nth |-> 0, co |-> "CONNECTED"]
           si == IF k = "udp" THEN "UDP" ELSE Home[c]
<1>1. TypeOK /\ TypeOK'
  BY DEF RoutingInv, SessionInv
<1>2. /\ ws[c] = "open" /\ uaid[c] = NoUaid /\ uaid' = [uaid EXCEPT ![c] = u]
      /\ \A d \in Conns : kind'[d] = IF d = c THEN k ELSE kind[d]
      /\ \A d \in Conns : Holds(ws', d) <=> Holds(ws, d)
      /\ lookups' = lookups /\ node' = node /\ dbOps' = dbOps \cup {reg}
  BY <1>1 DEF Hello, GetConnector, Closed, Holds, TypeOK
<1>3. c \notin lookups'
  BY <1>2 DEF RoutingInv, SessionInv, TableSound
<1>4. /\ \A v \in UAIDs \ {u} : Same(v)
      /\ SessionOf(u) = NoServer /\ AskingOf(u) = NoServer /\ UpdatesOf(u) = {}
      /\ SessionOf(u)' = Home[c] /\ NodeOf(u)' = NodeOf(u) /\ AskingOf(u)' = NoServer
      /\ OpsOf(u)' = {op \in dbOps' : op.conn = c}
  <2>1. \A op \in dbOps \cup dbOps' : op.conn # c => (op \in dbOps' <=> op \in dbOps)
    BY <1>2
  <2>2. Holds(ws', c)
    BY <1>2 DEF Holds
  <2>3. lookups' \ {c} = lookups \ {c} /\ \A d \in Conns \ {c} : kind'[d] = kind[d]
    BY <1>2
  <2> QED BY <1>2, <1>3, <2>1, <2>2, <2>3, FirstHello
<1>5. UpdatesOf(u)' = {si}
  <2>1. \A op \in dbOps : op.conn # c
    BY <1>2 DEF RoutingInv, OpSound
  <2>2. OpsOf(u)' = {reg}
    BY <1>2, <1>4, <2>1
  <2>3. Written(reg)' = si
    BY <1>2 DEF Written, GetServer
  <2> QED BY <2>2, <2>3 DEF UpdatesOf
<1>6. Home[c] \in Servers /\ si \in {Home[c]} \cup {"UDP"}
  BY HomeType
<1> HIDE DEF si
<1>7. Devs!Hello(u, Home[c], si)
  <2>1. /\ SessionMap[u] = NoServer /\ AskingMap[u] = NoServer /\ UpdatesMap[u] = {}
        /\ SessionMap' = [SessionMap EXCEPT ![u] = Home[c]]
        /\ UpdatesMap' = [UpdatesMap EXCEPT ![u] = {si}]
        /\ AskingMap' = AskingMap /\ NodeMap' = NodeMap
    BY <1>4, <1>5, MapsUnchanged, OneDevice
  <2> QED BY <1>6, <2>1 DEF Devs!Hello, Devs!Free, SessionMap, AskingMap, UpdatesMap, NodeMap
<1> QED BY <1>6, <1>7 DEF Devs!Next

LEMMA HelloLookupImplements ==
  ASSUME RoutingInv, RoutingInv', SerialHello, NEW c \in Conns, NEW u \in UAIDs,
         HelloLookup(c, u)
  PROVE  Devs!Next
<1>1. TypeOK /\ TypeOK'
  BY DEF RoutingInv, SessionInv
<1>2. /\ ws[c] = "open" /\ uaid[c] = NoUaid /\ uaid' = [uaid EXCEPT ![c] = u]
      /\ UNCHANGED <<ws, kind, dbOps, node>> /\ lookups' = lookups \cup {c}
  BY DEF HelloLookup
<1>3. /\ \A v \in UAIDs \ {u} : Same(v)
      /\ SessionOf(u) = NoServer /\ AskingOf(u) = NoServer /\ UpdatesOf(u) = {}
      /\ SessionOf(u)' = Home[c] /\ NodeOf(u)' = NodeOf(u) /\ AskingOf(u)' = Home[c]
      /\ OpsOf(u)' = {op \in dbOps' : op.conn = c}
  BY <1>2, FirstHello DEF Holds
<1>4. UpdatesOf(u)' = {}
  <2>1. \A op \in dbOps : op.conn # c
    BY <1>2 DEF RoutingInv, OpSound
  <2>2. OpsOf(u)' = {}
    BY <1>2, <1>3, <2>1
  <2> QED BY <2>2 DEF UpdatesOf
<1>5. Home[c] \in Servers
  BY HomeType
<1>6. Devs!Ask(u, Home[c])
  <2>1. /\ SessionMap[u] = NoServer /\ AskingMap[u] = NoServer /\ UpdatesMap[u] = {}
        /\ SessionMap' = [SessionMap EXCEPT ![u] = Home[c]]
        /\ AskingMap' = [AskingMap EXCEPT ![u] = Home[c]]
        /\ UpdatesMap' = UpdatesMap /\ NodeMap' = NodeMap
    BY <1>3, <1>4, MapsUnchanged, OneDevice
  <2> QED BY <2>1 DEF Devs!Ask, Devs!Free, SessionMap, AskingMap, UpdatesMap, NodeMap
<1> QED BY <1>5, <1>6 DEF Devs!Next

\* The answer of a lookup registers the device, whether or not its connection
\* is still open.
LEMMA LookupReturnsImplements ==
  ASSUME RoutingInv, RoutingInv', NEW c \in Conns, NEW k \in {"ws", "udp"}, LookupReturns(c, k)
  PROVE  Devs!Next
<1> DEFINE reg == [conn |-> c, nth |-> 0, co |-> "CONNECTED"]
           si == IF k = "udp" THEN "UDP" ELSE Home[c]
<1>1. TypeOK /\ TypeOK'
  BY DEF RoutingInv, SessionInv
<1>2. /\ c \in lookups /\ lookups' = lookups \ {c}
      /\ uaid' = uaid /\ node' = node /\ dbOps' = dbOps \cup {reg}
      /\ \A d \in Conns : kind'[d] = IF d = c THEN k ELSE kind[d]
      /\ \A d \in Conns : Holds(ws', d) <=> Holds(ws, d)
  BY <1>1 DEF LookupReturns, GetConnector, Closed, Holds, TypeOK
<1>3. uaid[c] # NoUaid /\ kind[c] = "none"
  BY <1>2 DEF RoutingInv, SessionInv, TableSound, HasConnector
<1>4. PICK u \in UAIDs : uaid[c] = u
  BY <1>1, <1>3 DEF TypeOK
<1>5. MapsFrom(c) /\ MapsFrom(c)'
  <2>1. ~Done(c)
    BY <1>2 DEF Done
  <2>2. ~Done(c)'
    <3>1. reg \in dbOps' /\ reg.conn = c
      BY <1>2
    <3> QED BY <3>1 DEF Done
  <2> QED BY <1>2, <1>3, <2>1, <2>2, LiveMaps
<1>6. \A v \in UAIDs \ {u} : Same(v)
  <2>1. \A op \in dbOps \cup dbOps' : op.conn # c => (op \in dbOps' <=> op \in dbOps)
    BY <1>2
  <2> QED BY <1>1, <1>2, <1>4, <2>1, OthersSame
<1>7. /\ SessionOf(u)' = SessionOf(u) /\ NodeOf(u)' = NodeOf(u)
      /\ AskingOf(u) = Home[c] /\ AskingOf(u)' = NoServer
  BY <1>2, <1>4, <1>5 DEF MapsFrom, Holds, NodeOf
<1>8. UpdatesOf(u)' = UpdatesOf(u) \cup {si}
  <2>1. OpsOf(u)' = OpsOf(u) \cup {reg}
    BY <1>2, <1>4, <1>5 DEF MapsFrom
  <2>2. Written(reg)' = si
    BY <1>2 DEF Written, GetServer
  <2>3. \A op \in OpsOf(u) : Written(op)' = Written(op)
    <3>1. \A op \in OpsOf(u) : op.conn = c /\ op.nth # 0
      BY <1>3, <1>4, <1>5 DEF MapsFrom, RoutingInv, OpSound, HasConnector
    <3> QED BY <3>1 DEF Written
  <2> QED BY <1>2, <2>1, <2>2, <2>3 DEF UpdatesOf
<1>9. Home[c] \in Servers /\ si \in {Home[c]} \cup {"UDP"}
  BY HomeType
<1> HIDE DEF si
<1>10. Devs!Answered(u, si)
  <2>1. /\ AskingMap[u] = Home[c]
        /\ AskingMap' = [AskingMap EXCEPT ![u] = NoServer]
        /\ UpdatesMap' = [UpdatesMap EXCEPT ![u] = UpdatesMap[u] \cup {si}]
        /\ SessionMap' = SessionMap /\ NodeMap' = NodeMap
    BY <1>4, <1>6, <1>7, <1>8, MapsUnchanged, OneDevice
  <2> QED BY <1>9, <2>1, NullsDistinct DEF Devs!Answered, SessionMap, AskingMap, UpdatesMap, NodeMap
<1>11. si \in Servers \cup {"UDP"}
  BY <1>9
<1> QED BY <1>4, <1>10, <1>11 DEF Devs!Next

LEMMA LookupFailsImplements ==
  ASSUME RoutingInv, RoutingInv', NEW c \in Conns, LookupFails(c)
  PROVE  Devs!Next
<1>1. TypeOK /\ TypeOK'
  BY DEF RoutingInv, SessionInv
<1>2. c \in lookups /\ lookups' = lookups \ {c} /\ UNCHANGED <<ws, uaid, kind, dbOps, node>>
  BY DEF LookupFails
<1>3. uaid[c] # NoUaid
  BY <1>2 DEF RoutingInv, SessionInv, TableSound
<1>4. PICK u \in UAIDs : uaid[c] = u
  BY <1>1, <1>3 DEF TypeOK
<1>5. \A v \in UAIDs \ {u} : Same(v)
  BY <1>1, <1>2, <1>4, OthersSame DEF Holds
<1>6. AskingOf(u) = Home[c] /\ Asking(u) = {c}
  <2>1. ~Done(c)
    BY <1>2 DEF Done
  <2>2. MapsFrom(c) /\ Sole(c)
    BY <1>1, <1>3, <2>1, LiveMaps DEF RoutingInv, OneSession, Sole, TypeOK
  <2> QED BY <1>1, <1>2, <1>4, <2>2 DEF MapsFrom, Sole, Done, Asking, TypeOK
<1>7. /\ SessionOf(u)' = SessionOf(u) /\ UpdatesOf(u)' = UpdatesOf(u) /\ NodeOf(u)' = NodeOf(u)
      /\ AskingOf(u)' = NoServer
  <2>1. Held(u)' = Held(u) /\ OpsOf(u)' = OpsOf(u) /\ Asking(u)' = {}
    BY <1>2, <1>6 DEF Held, OpsOf, Asking
  <2>2. \A op \in OpsOf(u) : Written(op)' = Written(op)
    BY <1>2 DEF Written, GetServer
  <2> QED BY <1>2, <2>1, <2>2 DEF SessionOf, UpdatesOf, NodeOf, AskingOf, ServerAmong
<1>8. Home[c] # NoServer
  BY HomeType, NullsDistinct
<1>9. Devs!AskFails(u)
  <2>1. /\ AskingMap[u] # NoServer
        /\ AskingMap' = [AskingMap EXCEPT ![u] = NoServer]
        /\ SessionMap' = SessionMap /\ UpdatesMap' = UpdatesMap /\ NodeMap' = NodeMap
    BY <1>4, <1>5, <1>6, <1>7, <1>8, MapsUnchanged, OneDevice
  <2> QED BY <2>1 DEF Devs!AskFails, SessionMap, AskingMap, UpdatesMap, NodeMap
<1> QED BY <1>4, <1>9 DEF Devs!Next

\* A 'close' event, the first of its connection or the one of its timer.
LEMMA OnWSCloseImplements ==
  ASSUME RoutingInv, RoutingInv', NEW c \in Conns, OnWSClose(c),
         UNCHANGED <<uaid, kind, lookups, node>>, Holds(ws, c) \/ timer[c] = "due"
  PROVE  Devs!Next \/ UNCHANGED MapVars
<1>1. /\ TypeOK /\ TypeOK'
      /\ ws \in [Conns -> {"idle", "rejected", "open", "closing", "closed"}]
      /\ closes[c] \in Nat
  BY DEF RoutingInv, SessionInv, TypeOK
<1>2. /\ ws'[c] = "closed"
      /\ \A d \in Conns \ {c} : Holds(ws', d) <=> Holds(ws, d)
  BY <1>1 DEF OnWSClose, Closed, Holds
<1>3. PICK op : /\ op.conn = c /\ op.nth = closes[c] + 1
                /\ dbOps' = IF uaid[c] = NoUaid THEN dbOps ELSE dbOps \cup {op}
  <2>1. PICK co : uaid[c] # NoUaid =>
          dbOps' = dbOps \cup {[conn |-> c, nth |-> closes[c] + 1, co |-> co]}
    BY DEF OnWSClose
  <2>2. uaid[c] = NoUaid => dbOps' = dbOps
    BY DEF OnWSClose
  <2> DEFINE o == [conn |-> c, nth |-> closes[c] + 1, co |-> co]
  <2>3. o.conn = c /\ o.nth = closes[c] + 1
    OBVIOUS
  <2>4. uaid[c] # NoUaid => dbOps' = dbOps \cup {o}
    BY <2>1
  <2> HIDE DEF o
  <2> QED BY <2>2, <2>3, <2>4
<1>4. op.conn = c /\ op.nth # 0
  BY <1>1, <1>3
<1>5. \A o \in dbOps \cup dbOps' : o.conn # c => (o \in dbOps' <=> o \in dbOps)
  BY <1>3, <1>4
<1>6. \A v \in UAIDs \ {uaid[c]} : Same(v)
  BY <1>1, <1>2, <1>5, OthersSame
<1>7. CASE uaid[c] = NoUaid
  BY <1>6, <1>7, NothingShows, NullsDistinct
<1>8. ASSUME NEW u \in UAIDs, uaid[c] = u PROVE Devs!Next
  <2>1. op \in dbOps' /\ dbOps' = dbOps \cup {op} /\ uaid[c] # NoUaid
    BY <1>3, <1>8, NullsDistinct
  <2>2. MapsFrom(c)
    <3>1. ~Done(c)
      BY DEF Done, Holds
    <3> QED BY <2>1, <3>1, LiveMaps
  <2>3. MapsFrom(c)'
    <3>1. ~Done(c)'
      BY <1>4, <2>1 DEF Done
    <3> QED BY <2>1, <3>1, LiveMaps
  <2>4. /\ SessionOf(u) = IF Holds(ws, c) THEN Home[c] ELSE NoServer
        /\ SessionOf(u)' = NoServer
        /\ AskingOf(u)' = AskingOf(u) /\ NodeOf(u)' = NodeOf(u)
    BY <1>2, <1>8, <2>2, <2>3 DEF MapsFrom, Holds, NodeOf
  <2>5. UpdatesOf(u)' = UpdatesOf(u) \cup {NoServer}
    <3>1. OpsOf(u)' = OpsOf(u) \cup {op}
      BY <1>4, <1>8, <2>1, <2>2, <2>3 DEF MapsFrom
    <3>2. Written(op)' = NoServer
      BY <1>4 DEF Written
    <3>3. \A o \in OpsOf(u) : Written(o)' = Written(o)
      BY DEF Written, GetServer
    <3> QED BY <3>1, <3>2, <3>3 DEF UpdatesOf
  <2>6. /\ SessionMap[u] = IF Holds(ws, c) THEN Home[c] ELSE NoServer
        /\ SessionMap' = [SessionMap EXCEPT ![u] = NoServer]
        /\ UpdatesMap' = [UpdatesMap EXCEPT ![u] = UpdatesMap[u] \cup {NoServer}]
        /\ AskingMap' = AskingMap /\ NodeMap' = NodeMap
    BY <1>6, <1>8, <2>4, <2>5, MapsUnchanged, OneDevice
  <2>7. CASE Holds(ws, c)
    <3>1. Home[c] # NoServer
      BY HomeType, NullsDistinct
    <3>2. Devs!Close(u)
      BY <2>6, <2>7, <3>1 DEF Devs!Close, SessionMap, AskingMap, UpdatesMap, NodeMap
    <3> QED BY <1>8, <3>2 DEF Devs!Next
  <2>8. CASE ~Holds(ws, c)
    <3>1. SessionOf(u)' = SessionOf(u)
      BY <2>4, <2>8
    <3>2. SessionMap' = SessionMap
      BY <1>6, <1>8, <3>1, MapsUnchanged
    <3>3. Devs!ClosesAgain(u)
      BY <2>6, <2>8, <3>2 DEF Devs!ClosesAgain, SessionMap, AskingMap, UpdatesMap, NodeMap
    <3> QED BY <1>8, <3>3 DEF Devs!Next
  <2> QED BY <2>7, <2>8
<1>9. uaid[c] = NoUaid \/ uaid[c] \in UAIDs
  BY <1>1 DEF TypeOK
<1> QED BY <1>7, <1>8, <1>9

\* An update is one of its device; the register of a session is the only one
\* that writes the name of a server.
LEMMA DataStoreImplements ==
  ASSUME RoutingInv, RoutingInv', NEW op \in dbOps, DataStore(op)
  PROVE  Devs!Next
<1>1. TypeOK /\ TypeOK' /\ op \in DbOp
  BY DEF RoutingInv, SessionInv, TypeOK
<1>2. PICK c \in Conns : op.conn = c
  BY <1>1 DEF DbOp
<1>3. PICK u \in UAIDs : uaid[c] = u
  BY <1>1, <1>2 DEF RoutingInv, OpSound, TypeOK
<1>4. UNCHANGED <<ws, uaid, kind, lookups>> /\ dbOps' = dbOps \ {op}
  BY DEF DataStore, RegisterExecutes, RegisterFails, UnregisterExecutes, UnregisterFails
<1>5. node' = node \/ \E n : node' = [node EXCEPT ![u] = n]
  BY <1>2, <1>3 DEF DataStore, RegisterExecutes, RegisterFails, UnregisterExecutes,
                    UnregisterFails
<1>6. \A v \in UAIDs \ {u} : Same(v)
  <2>1. \A v \in UAIDs \ {u} : node'[v] = node[v]
    BY <1>1, <1>5 DEF TypeOK
  <2>2. \A o \in dbOps \cup dbOps' : o.conn # c => (o \in dbOps' <=> o \in dbOps)
    BY <1>2, <1>4
  <2> QED BY <1>1, <1>3, <1>4, <2>1, <2>2, OthersSame DEF Holds
<1>7. SessionOf(u)' = SessionOf(u) /\ AskingOf(u)' = AskingOf(u)
  <2>1. Held(u)' = Held(u) /\ Asking(u)' = Asking(u)
    BY <1>4 DEF Held, Asking
  <2> QED BY <2>1 DEF SessionOf, AskingOf, ServerAmong
<1>8. OpsOf(u) = {o \in dbOps : o.conn = c}
  <2>1. ~Done(c)
    BY <1>2 DEF Done
  <2> QED BY <1>3, <2>1, NullsDistinct, LiveMaps DEF MapsFrom
<1>9. PICK s : s = Written(op)
  OBVIOUS
<1>10. op \in OpsOf(u) /\ s \in UpdatesOf(u)
  BY <1>2, <1>8, <1>9 DEF UpdatesOf
<1>11. UpdatesOf(u)' = {Written(o) : o \in OpsOf(u) \ {op}}
  <2>1. OpsOf(u)' = OpsOf(u) \ {op}
    BY <1>4 DEF OpsOf
  <2>2. \A o \in OpsOf(u) : Written(o)' = Written(o)
    BY <1>4 DEF Written, GetServer
  <2> QED BY <2>1, <2>2 DEF UpdatesOf
<1>12. UpdatesOf(u)' = UpdatesOf(u) \ {s} \/ (s = NoServer /\ UpdatesOf(u)' = UpdatesOf(u))
  <2>1. CASE op.nth = 0
    <3>1. s = GetServer(c) /\ s # NoServer
      BY <1>2, <1>9, <2>1, HomeType, NullsDistinct DEF Written, GetServer
    <3>2. ASSUME NEW o \in OpsOf(u) \ {op} PROVE Written(o) = NoServer
      <4>1. o.nth # 0
        <5>1. ASSUME o.nth = 0 PROVE o = op
          <6>1. o \in DbOp /\ o.co = "CONNECTED" /\ op.co = "CONNECTED" /\ o.conn = c
            BY <1>1, <1>8, <2>1, <5>1 DEF RoutingInv, OpSound, TypeOK
          <6> QED BY <1>1, <1>2, <2>1, <5>1, <6>1 DEF DbOp
        <5> QED BY <5>1
      <4> QED BY <4>1 DEF Written
    <3> QED BY <1>9, <1>10, <1>11, <3>1, <3>2 DEF UpdatesOf
  <2>2. CASE op.nth # 0
    <3>1. s = NoServer
      BY <1>9, <2>2 DEF Written
    <3>2. CASE \E o \in OpsOf(u) \ {op} : Written(o) = NoServer
      BY <1>9, <1>11, <3>1, <3>2 DEF UpdatesOf
    <3>3. CASE ~\E o \in OpsOf(u) \ {op} : Written(o) = NoServer
      BY <1>9, <1>11, <3>1, <3>3 DEF UpdatesOf
    <3> QED BY <3>2, <3>3
  <2> QED BY <2>1, <2>2
<1>13. NodeOf(u)' = NodeOf(u) \/ NodeOf(u)' = s
  <2>1. CASE node' = node
    BY <2>1 DEF NodeOf
  <2>2. CASE RegisterExecutes(op)
    BY <1>1, <1>2, <1>3, <1>9, <2>2 DEF RegisterExecutes, Written, NodeOf, TypeOK
  <2>3. CASE UnregisterExecutes(op)
    <3>1. s = NoServer
      BY <1>1, <1>9, <2>3 DEF UnregisterExecutes, Written
    <3>2. node'[u] = node[u] \/ node'[u] = [co |-> op.co, si |-> NoServer]
      BY <1>1, <1>2, <1>3, <2>3 DEF UnregisterExecutes, TypeOK
    <3> QED BY <3>1, <3>2 DEF NodeOf
  <2> QED BY <2>1, <2>2, <2>3 DEF DataStore, RegisterFails, UnregisterFails
<1>14. Devs!UpdateEnds(u, s)
  <2>1. /\ s \in UpdatesMap[u]
        /\ SessionMap' = SessionMap /\ AskingMap' = AskingMap
    BY <1>6, <1>7, <1>10, MapsUnchanged, OneDevice
  <2>2. \/ UpdatesMap' = [UpdatesMap EXCEPT ![u] = UpdatesMap[u] \ {s}]
        \/ s = NoServer /\ UpdatesMap' = UpdatesMap
    BY <1>6, <1>12, MapsUnchanged, OneDevice
  <2>3. NodeMap' = NodeMap \/ NodeMap' = [NodeMap EXCEPT ![u] = s]
    BY <1>6, <1>13, MapsUnchanged, OneDevice
  <2> QED BY <2>1, <2>2, <2>3 DEF Devs!UpdateEnds, SessionMap, AskingMap, UpdatesMap, NodeMap
<1>15. s \in UpdatesMap[u]
  BY <1>10 DEF UpdatesMap, UpdatesOf
<1> QED BY <1>14, <1>15 DEF Devs!Next, UpdatesMap

(***************************************************************************)
(* The exit of a worker                                                    *)
(***************************************************************************)
LEMMA AmongSurvivors ==
  ASSUME NEW S, S = {} \/ \E c \in Conns : S = {c}, NEW s \in Servers
  PROVE  ServerAmong({d \in S : Home[d] # s}) =
           IF ServerAmong(S) = s THEN NoServer ELSE ServerAmong(S)
<1>1. CASE S = {}
  <2>1. {d \in S : Home[d] # s} = {}
    BY <1>1
  <2> QED BY <1>1, <2>1 DEF ServerAmong
<1>2. ASSUME NEW c \in Conns, S = {c}
      PROVE  ServerAmong({d \in S : Home[d] # s}) =
               IF ServerAmong(S) = s THEN NoServer ELSE ServerAmong(S)
  <2>1. ServerAmong(S) = Home[c]
    BY <1>2, ServerAmongOne
  <2>2. ServerAmong({d \in S : Home[d] # s}) =
          IF c \in {d \in S : Home[d] # s} THEN Home[c] ELSE NoServer
    BY <1>2, ServerAmongOne
  <2> QED BY <1>2, <2>1, <2>2
<1> QED BY <1>1, <1>2

LEMMA AtMostOne ==
  ASSUME RoutingInv, NEW u \in UAIDs
  PROVE  /\ Held(u) = {} \/ \E c \in Conns : Held(u) = {c}
         /\ Asking(u) = {} \/ \E c \in Conns : Asking(u) = {c}
<1>1. ASSUME NEW c \in Conns, NEW d \in Conns, uaid[c] = u, uaid[d] = u, ~Done(c), ~Done(d)
      PROVE  c = d
  BY <1>1, NullsDistinct DEF RoutingInv, OneSession
<1>2. \A c \in Held(u) : c \in Conns /\ uaid[c] = u /\ ~Done(c)
  BY DEF Held, Done
<1>3. \A c \in Asking(u) : c \in Conns /\ uaid[c] = u /\ ~Done(c)
  BY DEF Asking, Done, RoutingInv, SessionInv, TypeOK
<1>4. Held(u) = {} \/ \E c \in Conns : Held(u) = {c}
  BY <1>1, <1>2
<1>5. Asking(u) = {} \/ \E c \in Conns : Asking(u) = {c}
  BY <1>1, <1>3
<1> QED BY <1>4, <1>5

LEMMA WorkerExitsImplements ==
  ASSUME RoutingInv, NEW s \in Servers, WorkerExits(s)
  PROVE  Devs!Next
<1>1. UNCHANGED <<uaid, kind, dbOps, node>>
  BY DEF WorkerExits
<1>2. ASSUME NEW u \in UAIDs
      PROVE  /\ SessionOf(u)' = IF SessionOf(u) = s THEN NoServer ELSE SessionOf(u)
             /\ AskingOf(u)' = IF AskingOf(u) = s THEN NoServer ELSE AskingOf(u)
  <2>1. Held(u)' = {d \in Held(u) : Home[d] # s}
    BY DEF WorkerExits, Held
  <2>2. Asking(u)' = {d \in Asking(u) : Home[d] # s}
    BY DEF WorkerExits, Asking
  <2>3. SessionOf(u)' = ServerAmong({d \in Held(u) : Home[d] # s})
    BY <2>1 DEF SessionOf, ServerAmong
  <2>4. AskingOf(u)' = ServerAmong({d \in Asking(u) : Home[d] # s})
    BY <2>2 DEF AskingOf, ServerAmong
  <2> QED BY <2>3, <2>4, AtMostOne, AmongSurvivors DEF SessionOf, AskingOf
<1>3. UpdatesMap' = UpdatesMap /\ NodeMap' = NodeMap
  BY <1>1 DEF UpdatesMap, NodeMap, OpsOf, Written, GetServer
<1>4. /\ SessionMap' = [d \in UAIDs |-> IF SessionMap[d] = s THEN NoServer ELSE SessionMap[d]]
      /\ AskingMap' = [d \in UAIDs |-> IF AskingMap[d] = s THEN NoServer ELSE AskingMap[d]]
  BY <1>2 DEF SessionMap, AskingMap, SessionOf, AskingOf
<1>5. Devs!WorkerExits(s)
  BY <1>3, <1>4 DEF Devs!WorkerExits, SessionMap, AskingMap, UpdatesMap, NodeMap
<1> QED BY <1>5 DEF Devs!Next

(***************************************************************************)
(* The theorem                                                             *)
(***************************************************************************)
\* Steps that no one outside the front end sees: a request is accepted or
\* refused, a message, the start of a closing handshake, a timer that elapses.
LEMMA UnseenStep ==
  ASSUME TypeOK, TypeOK', UNCHANGED <<uaid, kind, lookups, dbOps, node>>,
         \A c \in Conns : uaid[c] # NoUaid => (Holds(ws', c) <=> Holds(ws, c))
  PROVE  UNCHANGED MapVars
<1> SUFFICES ASSUME NEW u \in UAIDs PROVE Same(u)
  BY NothingShows
<1>1. Held(u)' = Held(u)
  BY NullsDistinct DEF Held, Holds
<1>2. Asking(u)' = Asking(u) /\ OpsOf(u)' = OpsOf(u)
  BY DEF Asking, OpsOf
<1>3. \A op \in OpsOf(u) : Written(op)' = Written(op)
  BY DEF Written, GetServer
<1> QED BY <1>1, <1>2, <1>3 DEF Same, SameSession, SessionOf, AskingOf, UpdatesOf, NodeOf,
                                ServerAmong

LEMMA PresenceStep ==
  ASSUME RoutingInv, RoutingInv', [Next /\ SerialHello]_vars
  PROVE  Devs!Next \/ UNCHANGED MapVars
<1>1. TypeOK /\ TypeOK'
  BY DEF RoutingInv, SessionInv
<1>2. ASSUME NEW c \in Conns, Client(c), SerialHello PROVE Devs!Next \/ UNCHANGED MapVars
  <2>1. CASE Accept(c) \/ Reject(c)
    <3>1. uaid[c] = NoUaid
      BY <2>1 DEF Accept, Reject, RoutingInv, SessionInv, SocketSound
    <3>2. \A d \in Conns : uaid[d] # NoUaid => (Holds(ws', d) <=> Holds(ws, d))
      BY <1>1, <2>1, <3>1 DEF Accept, Reject, Holds, TypeOK
    <3> QED BY <1>1, <2>1, <3>2, UnseenStep DEF Accept, Reject
  <2>2. CASE Message(c)
    BY <1>1, <2>2, UnseenStep DEF Message
  <2>3. CASE BadMessage(c) \/ PeerClose(c)
    <3>1. \A d \in Conns : Holds(ws', d) <=> Holds(ws, d)
      BY <1>1, <2>3 DEF BadMessage, PeerClose, Closed, Holds, TypeOK
    <3> QED BY <1>1, <2>3, <3>1, UnseenStep DEF BadMessage, PeerClose
  <2> QED BY <1>2, <2>1, <2>2, <2>3, HelloImplements, HelloLookupImplements DEF Client
<1>3. ASSUME NEW c \in Conns, Event(c) PROVE Devs!Next \/ UNCHANGED MapVars
  <2>1. CASE SocketClosed(c)
    BY <2>1, OnWSCloseImplements DEF SocketClosed, Holds
  <2>2. CASE AutocloseFires(c)
    BY <2>2, OnWSCloseImplements DEF AutocloseFires
  <2>3. CASE AutocloseElapses(c)
    BY <1>1, <2>3, UnseenStep DEF AutocloseElapses
  <2> QED BY <1>3, <2>1, <2>2, <2>3, LookupReturnsImplements, LookupFailsImplements DEF Event
<1>4. CASE UNCHANGED vars
  BY <1>1, <1>4, UnseenStep DEF vars
<1>5. CASE Next /\ SerialHello
  BY <1>2, <1>3, <1>5, DataStoreImplements, WorkerExitsImplements DEF Next
<1> QED BY <1>4, <1>5

\* The front end keeps the promise of Presence: for any devices, connections
\* and workers, what its connections, timers, lookups and pending updates make
\* of a device is what the push pipeline takes for granted.
THEOREM SessionsImplementPresence == SerialSpec => RefinesPresence
<1>1. Init => Devs!Init
  <2> SUFFICES ASSUME Init PROVE Devs!Init
    OBVIOUS
  <2>1. ASSUME NEW u \in UAIDs PROVE Held(u) = {} /\ Asking(u) = {} /\ OpsOf(u) = {}
    BY DEF Init, Held, Asking, OpsOf
  <2>2. \A u \in UAIDs : node[u].si = NoServer
    BY DEF Init, NoNode
  <2> QED BY <2>1, <2>2 DEF Devs!Init, ServerAmong
<1>2. RoutingInv /\ RoutingInv' /\ [Next /\ SerialHello]_vars =>
        [Devs!Next]_<<[u \in UAIDs |-> ServerAmong(Held(u))],
                      [u \in UAIDs |-> ServerAmong(Asking(u))],
                      [u \in UAIDs |-> {Written(op) : op \in OpsOf(u)}],
                      [u \in UAIDs |-> node[u].si]>>
  BY PresenceStep DEF MapVars, SessionMap, AskingMap, UpdatesMap, NodeMap
<1> QED BY <1>1, <1>2, RoutingCorrect, PTL DEF SerialSpec, RefinesPresence, Devs!Spec
=============================================================================
