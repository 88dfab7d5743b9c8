--------------------------- MODULE MsgBroker_proofs ---------------------------
(***************************************************************************)
(* Proofs about MsgBroker, for any set of connections.                     *)
(***************************************************************************)
EXTENDS MsgBroker, TLAPS

Injective(q) == \A i, j \in DOMAIN q : q[i] = q[j] => i = j

\* Splice, on a list without repetitions, removes the connection and no other,
\* and repeats none (the 'close' handler, MsgBroker.js:126-129).
LEMMA SpliceRemoves ==
  ASSUME NEW q \in Seq(Conns), NEW c \in Conns, Injective(q)
  PROVE  /\ Splice(q, c) \in Seq(Conns)
         /\ Injective(Splice(q, c))
         /\ ToSet(Splice(q, c)) = ToSet(q) \ {c}
<1> DEFINE found == \E i \in 1..Len(q) : q[i] = c
<1>1. CASE ~found
  <2>1. Splice(q, c) = q
    BY <1>1 DEF Splice, RemoveFirst
  <2>2. c \notin ToSet(q)
    BY <1>1 DEF ToSet
  <2> QED
    BY <2>1, <2>2
<1>2. CASE found
  <2>1. PICK k \in 1..Len(q) : q[k] = c
    BY <1>2
  <2> DEFINE I == {i \in 1..Len(q) : q[i] = c}
             r == RemoveAt(q, k)
  <2>2. I = {k}
    BY <2>1 DEF Injective
  <2>3. Min(I) = k
    BY <2>2 DEF Min
  <2>4. SelectInSeq(q, LAMBDA v : v = c) = k
    BY <2>2, <2>3 DEF SelectInSeq
  <2>5. Splice(q, c) = r
    BY <1>2, <2>4 DEF Splice, RemoveFirst
  <2>6. /\ r \in Seq(Conns)
        /\ Len(r) = Len(q) - 1
        /\ \A i \in 1..(Len(q) - 1) : r[i] = IF i < k THEN q[i] ELSE q[i + 1]
    <3> DEFINE before == SubSeq(q, 1, k - 1)
               after == SubSeq(q, k + 1, Len(q))
    <3>1. /\ before \in Seq(Conns) /\ Len(before) = k - 1
          /\ \A i \in 1..(k - 1) : before[i] = q[i]
      BY <2>1
    <3>2. /\ after \in Seq(Conns) /\ Len(after) = Len(q) - k
          /\ \A i \in 1..(Len(q) - k) : after[i] = q[k + i]
      BY <2>1
    <3>3. r = before \o after
      BY DEF RemoveAt
    <3> HIDE DEF r, before, after
    <3>4. r \in Seq(Conns) /\ Len(r) = Len(q) - 1
      BY <3>1, <3>2, <3>3
    <3>5. ASSUME NEW i \in 1..(Len(q) - 1)
          PROVE  r[i] = IF i < k THEN q[i] ELSE q[i + 1]
      <4>1. CASE i < k
        BY <4>1, <3>1, <3>2, <3>3
      <4>2. CASE ~(i < k)
        <5>1. r[i] = after[i - (k - 1)]
          BY <4>2, <3>1, <3>2, <3>3
        <5>2. i - (k - 1) \in 1..(Len(q) - k)
          BY <4>2
        <5>3. after[i - (k - 1)] = q[i + 1]
          BY <5>2, <3>2
        <5> QED
          BY <4>2, <5>1, <5>3
      <4> QED
        BY <4>1, <4>2
    <3> QED
      BY <3>4, <3>5
  <2> HIDE DEF r
  <2>7. Injective(r)
    <3> SUFFICES ASSUME NEW i \in DOMAIN r, NEW j \in DOMAIN r, r[i] = r[j]
                 PROVE  i = j
      BY DEF Injective
    <3> DEFINE from(x) == IF x < k THEN x ELSE x + 1
    <3>1. /\ i \in 1..(Len(q) - 1) /\ j \in 1..(Len(q) - 1)
      BY <2>6
    <3>2. from(i) \in DOMAIN q /\ from(j) \in DOMAIN q
      BY <3>1
    <3>3. r[i] = q[from(i)] /\ r[j] = q[from(j)]
      BY <3>1, <2>6
    <3> HIDE DEF from
    <3>4. from(i) = from(j)
      BY <3>2, <3>3 DEF Injective
    <3> QED
      BY <3>1, <3>4 DEF from
  <2>8. ToSet(r) = ToSet(q) \ {c}
    <3>1. ASSUME NEW i \in DOMAIN r
          PROVE  r[i] \in ToSet(q) \ {c}
      <4>1. PICK j \in DOMAIN q : r[i] = q[j] /\ j # k
        <5>1. CASE i < k
          BY <5>1, <2>6
        <5>2. CASE ~(i < k)
          BY <5>2, <2>6
        <5> QED
          BY <5>1, <5>2
      <4> QED
        BY <4>1, <2>1 DEF ToSet, Injective
    <3>2. ASSUME NEW j \in DOMAIN q, q[j] # c
          PROVE  q[j] \in ToSet(r)
      <4>1. PICK i \in DOMAIN r : r[i] = q[j]
        <5>1. CASE j < k
          BY <5>1, <2>1, <2>6
        <5>2. CASE ~(j < k)
          <6>1. j - 1 \in DOMAIN r /\ r[j - 1] = q[j]
            BY <5>2, <3>2, <2>1, <2>6
          <6> QED
            BY <6>1
        <5> QED
          BY <5>1, <5>2
      <4> QED
        BY <4>1 DEF ToSet
    <3> QED
      BY <3>1, <3>2 DEF ToSet
  <2> QED
    BY <2>5, <2>6, <2>7, <2>8
<1> QED
  BY <1>1, <1>2

\* The 'ready' handler adds a connection that is not in the list.
LEMMA AppendAdds ==
  ASSUME NEW q \in Seq(Conns), NEW c \in Conns, Injective(q), c \notin ToSet(q)
  PROVE  /\ Append(q, c) \in Seq(Conns)
         /\ Injective(Append(q, c))
         /\ ToSet(Append(q, c)) = ToSet(q) \cup {c}
<1> DEFINE r == Append(q, c)
<1>1. /\ r \in Seq(Conns)
      /\ Len(r) = Len(q) + 1
      /\ \A i \in 1..Len(q) : r[i] = q[i]
      /\ r[Len(q) + 1] = c
  OBVIOUS
<1> HIDE DEF r
<1>2. \A i \in 1..Len(q) : q[i] # c
  BY DEF ToSet
<1>3. Injective(r)
  BY <1>1, <1>2 DEF Injective
<1>4. DOMAIN r = 1..Len(q) \cup {Len(q) + 1}
  BY <1>1
<1>5. ToSet(r) = ToSet(q) \cup {c}
  BY <1>1, <1>4 DEF ToSet
<1> QED
  BY <1>1, <1>3, <1>5 DEF r

(***************************************************************************)
(* The inductive invariant                                                 *)
(***************************************************************************)
\* What the socket, the timer and the state of one connection say of each
\* other: only an error starts the timer, and it leaves the state ERROR.
ConnSound(c) ==
  /\ socket[c] = "up" => c \in InUse
  /\ c \in InUse => socket[c] \notin {"connecting", "closed"}
  /\ c \in retry => state[c] = "ERROR" /\ socket[c] # "connecting"
  /\ state[c] = "DISCONNECTED" => socket[c] = "closed"

BrokerInv ==
  /\ TypeOK
  /\ Injective(queues)
  /\ \A c \in Conns : ConnSound(c)

LEMMA InitSound == Init => BrokerInv
<1> SUFFICES ASSUME Init PROVE BrokerInv
  OBVIOUS
<1>1. InUse = {}
  BY DEF Init, InUse, ToSet
<1>2. TypeOK
  <2>1. queues \in Seq(Conns)
    BY DEF Init
  <2>2. socket \in [Conns -> {"connecting", "up", "broken", "ending", "finishing", "closed"}]
    BY DEF Init
  <2>3. state \in [Conns -> {"CREATED", "ERROR", "CONNECTED", "DISCONNECTED"}]
    BY DEF Init
  <2> QED
    BY <2>1, <2>2, <2>3 DEF Init, TypeOK
<1> QED
  BY <1>1, <1>2 DEF Init, BrokerInv, ConnSound, Injective

\* A step of the system keeps the invariant, and leaves alone a connection that
\* is DISCONNECTED.
LEMMA StepSound ==
  ASSUME BrokerInv, [Next]_vars
  PROVE  /\ BrokerInv'
         /\ \A c \in Conns : state[c] = "DISCONNECTED" =>
              state'[c] = "DISCONNECTED" /\ socket'[c] = "closed"
<1> USE DEF BrokerInv, TypeOK, ConnSound, InUse
<1>1. ASSUME NEW c \in Conns, Ready(c)
      PROVE  /\ BrokerInv'
             /\ \A d \in Conns : state[d] = "DISCONNECTED" =>
                  state'[d] = "DISCONNECTED" /\ socket'[d] = "closed"
  <2>1. c \notin ToSet(queues)
    BY <1>1 DEF Ready
  <2>2. /\ queues' \in Seq(Conns)
        /\ Injective(queues')
        /\ ToSet(queues') = ToSet(queues) \cup {c}
    BY <1>1, <2>1, AppendAdds DEF Ready, OnReady
  <2> QED
    BY <1>1, <2>2 DEF Ready, OnReady
<1>2. ASSUME NEW c \in Conns, NEW w \in {"broken", "ending"}, SocketError(c, w)
      PROVE  /\ BrokerInv'
             /\ \A d \in Conns : state[d] = "DISCONNECTED" =>
                  state'[d] = "DISCONNECTED" /\ socket'[d] = "closed"
  BY <1>2 DEF SocketError, OnError
<1>3. ASSUME NEW c \in Conns, ParserError(c)
      PROVE  /\ BrokerInv'
             /\ \A d \in Conns : state[d] = "DISCONNECTED" =>
                  state'[d] = "DISCONNECTED" /\ socket'[d] = "closed"
  <2>1. /\ queues' \in Seq(Conns)
        /\ Injective(queues')
        /\ ToSet(queues') = ToSet(queues) \ {c}
    BY <1>3, SpliceRemoves DEF ParserError
  <2> QED
    BY <1>3, <2>1 DEF ParserError, OnError
<1>4. ASSUME NEW c \in Conns, PeerEnds(c)
      PROVE  /\ BrokerInv'
             /\ \A d \in Conns : state[d] = "DISCONNECTED" =>
                  state'[d] = "DISCONNECTED" /\ socket'[d] = "closed"
  BY <1>4 DEF PeerEnds
<1>5. ASSUME NEW c \in Conns, Close(c)
      PROVE  /\ BrokerInv'
             /\ \A d \in Conns : state[d] = "DISCONNECTED" =>
                  state'[d] = "DISCONNECTED" /\ socket'[d] = "closed"
  <2>1. /\ queues' \in Seq(Conns)
        /\ Injective(queues')
        /\ ToSet(queues') = ToSet(queues) \ {c}
    BY <1>5, SpliceRemoves DEF Close, OnClose
  <2>2. reported' \in BOOLEAN
    BY <1>5 DEF Close, OnClose
  <2> QED
    BY <1>5, <2>1, <2>2 DEF Close, OnClose
<1>6. ASSUME NEW c \in Conns, Retry(c)
      PROVE  /\ BrokerInv'
             /\ \A d \in Conns : state[d] = "DISCONNECTED" =>
                  state'[d] = "DISCONNECTED" /\ socket'[d] = "closed"
  BY <1>6 DEF Retry, OnError
<1>7. ASSUME CloseAll
      PROVE  /\ BrokerInv'
             /\ \A d \in Conns : state[d] = "DISCONNECTED" =>
                  state'[d] = "DISCONNECTED" /\ socket'[d] = "closed"
  BY <1>7 DEF CloseAll
<1>8. CASE UNCHANGED vars
  BY <1>8 DEF vars, Injective
<1> QED
  BY <1>1, <1>2, <1>3, <1>4, <1>5, <1>6, <1>7, <1>8 DEF Next, Connection

(***************************************************************************)
(* Theorems                                                                *)
(***************************************************************************)
\* BrokerInv holds in every reachable state, whatever errors, closes and
\* reconnections the connections of MsgBroker.js go through.
THEOREM BrokerCorrect == Spec => []BrokerInv
<1>1. BrokerInv /\ [Next]_vars => BrokerInv'
  BY StepSound
<1> QED
  BY InitSound, <1>1, PTL DEF Spec

\* Every variable of MsgBroker keeps its type.
THEOREM TypeCorrect == Spec => []TypeOK
<1>1. BrokerInv => TypeOK
  BY DEF BrokerInv
<1> QED
  BY BrokerCorrect, <1>1, PTL

\* The list that push and subscribe walk holds every connection that is ready,
\* each once, and none that is closed or connecting.
THEOREM ListCorrect == Spec => []ListSound
<1>1. BrokerInv => ListSound
  BY DEF BrokerInv, ConnSound, ListSound, Injective, TypeOK, InUse, ToSet
<1> QED
  BY BrokerCorrect, <1>1, PTL

\* A connection that closed without an error is never opened again.
THEOREM EndedStaysEnded == Spec => EndedIsFinal
<1>1. BrokerInv /\ [Next]_vars =>
        [\A c \in Conns : state[c] = "DISCONNECTED" =>
           state'[c] = "DISCONNECTED" /\ socket'[c] = "closed"]_vars
  BY StepSound
<1> QED
  BY BrokerCorrect, <1>1, PTL DEF Spec, EndedIsFinal

(***************************************************************************)
(* The connections implement BrokerLink                                    *)
(***************************************************************************)
\* A reconnection is scheduled from the error of a socket to the next attempt.
RetrySound ==
  \A c \in Conns :
    /\ socket[c] \in {"broken", "ending"} => c \in retry
    /\ c \in retry => socket[c] \in {"broken", "ending", "closed"}

\* A step changes what one connection is to the process, as BrokerLink says,
\* or none; a socket that is ending counts as failed or in use until it closes.
LEMMA LinkStep ==
  ASSUME TypeOK, RetrySound, [Next]_vars
  PROVE  /\ RetrySound'
         /\ \/ \A c \in Conns : LinkOf(c)' = LinkOf(c)
            \/ \E c \in Conns :
                 /\ \/ LinkOf(c) = "connecting" /\ LinkOf(c)' = "up"
                    \/ LinkOf(c) = "up" /\ LinkOf(c)' \in {"connecting", "ended"}
                 /\ \A d \in Conns \ {c} : LinkOf(d)' = LinkOf(d)
<1> DEFINE Moved(c) == /\ \/ LinkOf(c) = "connecting" /\ LinkOf(c)' = "up"
                          \/ LinkOf(c) = "up" /\ LinkOf(c)' \in {"connecting", "ended"}
                       /\ \A d \in Conns \ {c} : LinkOf(d)' = LinkOf(d)
           Goal == RetrySound' /\ ((\A c \in Conns : LinkOf(c)' = LinkOf(c))
                                   \/ \E c \in Conns : Moved(c))
<1> SUFFICES Goal
  OBVIOUS
<1>1. ASSUME NEW c \in Conns, Ready(c) PROVE RetrySound' /\ Moved(c)
  <2>1. /\ socket[c] = "connecting" /\ c \notin retry /\ retry' = retry
        /\ \A d \in Conns : socket'[d] = IF d = c THEN "up" ELSE socket[d]
    BY <1>1 DEF Ready, RetrySound, TypeOK
  <2>2. RetrySound'
    BY <2>1 DEF RetrySound
  <2> QED
    BY <2>1, <2>2 DEF LinkOf
<1>2. ASSUME NEW c \in Conns, NEW w \in {"broken", "ending"}, SocketError(c, w)
      PROVE  /\ RetrySound'
             /\ Moved(c) \/ \A d \in Conns : LinkOf(d)' = LinkOf(d)
  <2>1. /\ socket[c] \in {"connecting", "up", "ending", "finishing"}
        /\ retry' = retry \cup {c} /\ w \in {"broken", "ending"}
        /\ \A d \in Conns : socket'[d] = IF d = c THEN w ELSE socket[d]
    BY <1>2 DEF SocketError, TypeOK
  <2>2. RetrySound'
    BY <2>1 DEF RetrySound
  <2>3. LinkOf(c)' = "connecting" /\ LinkOf(c) \in {"connecting", "up"}
    BY <2>1 DEF LinkOf, RetrySound
  <2>4. \A d \in Conns \ {c} : LinkOf(d)' = LinkOf(d)
    BY <2>1 DEF LinkOf
  <2> QED
    BY <2>2, <2>3, <2>4
<1>3. ASSUME NEW c \in Conns, ParserError(c)
      PROVE  /\ RetrySound'
             /\ Moved(c) \/ \A d \in Conns : LinkOf(d)' = LinkOf(d)
  BY <1>3 DEF ParserError, RetrySound, LinkOf, TypeOK
<1>4. ASSUME NEW c \in Conns, PeerEnds(c)
      PROVE  RetrySound' /\ \A d \in Conns : LinkOf(d)' = LinkOf(d)
  BY <1>4 DEF PeerEnds, RetrySound, LinkOf, TypeOK
<1>5. ASSUME NEW c \in Conns, Close(c)
      PROVE  /\ RetrySound'
             /\ Moved(c) \/ \A d \in Conns : LinkOf(d)' = LinkOf(d)
  BY <1>5 DEF Close, RetrySound, LinkOf, TypeOK
<1>6. ASSUME NEW c \in Conns, Retry(c)
      PROVE  RetrySound' /\ \A d \in Conns : LinkOf(d)' = LinkOf(d)
  BY <1>6 DEF Retry, RetrySound, LinkOf, TypeOK
<1>7. ASSUME CloseAll
      PROVE  RetrySound' /\ \A d \in Conns : LinkOf(d)' = LinkOf(d)
  BY <1>7 DEF CloseAll, RetrySound, LinkOf, TypeOK
<1>8. CASE UNCHANGED vars
  BY <1>8 DEF vars, RetrySound, LinkOf
<1> QED
  BY <1>1, <1>2, <1>3, <1>4, <1>5, <1>6, <1>7, <1>8 DEF Next, Connection

\* The connections of MsgBroker.js over the amqp library, whatever the order of
\* their errors, closes and timers, are the connections of BrokerLink.
THEOREM ConnectionsImplementLink == Spec => RefinesBrokerLink
<1> DEFINE conn == [c \in Conns |-> LinkOf(c)]
<1>1. Init => RetrySound /\ Link!Init
  <2>1. Init => RetrySound
    BY DEF Init, RetrySound
  <2>2. Init => Link!Init
    BY DEF Init, Link!Init, LinkOf
  <2> QED
    BY <2>1, <2>2
<1>2. TypeOK /\ RetrySound /\ [Next]_vars => RetrySound'
  BY LinkStep
<1>3. TypeOK /\ RetrySound /\ [Next]_vars => [Link!Next]_conn
  <2> SUFFICES ASSUME TypeOK, RetrySound, [Next]_vars PROVE [Link!Next]_conn
    OBVIOUS
  <2>1. CASE \A c \in Conns : LinkOf(c)' = LinkOf(c)
    BY <2>1
  <2>2. ASSUME NEW c \in Conns,
               \/ LinkOf(c) = "connecting" /\ LinkOf(c)' = "up"
               \/ LinkOf(c) = "up" /\ LinkOf(c)' \in {"connecting", "ended"},
               \A d \in Conns \ {c} : LinkOf(d)' = LinkOf(d)
        PROVE  Link!Next
    <3>1. conn' = [conn EXCEPT ![c] = LinkOf(c)']
      BY <2>2
    <3>2. conn[c] = LinkOf(c)
      OBVIOUS
    <3>3. Link!Ready(c) \/ Link!Fails(c) \/ Link!Ends(c)
      BY <2>2, <3>1, <3>2 DEF Link!Ready, Link!Fails, Link!Ends, Link!Moves
    <3> QED
      BY <3>3 DEF Link!Next
  <2> QED
    BY <2>1, <2>2, LinkStep
<1> QED
  BY <1>1, <1>2, <1>3, TypeCorrect, PTL DEF Spec, RefinesBrokerLink, Link!Spec

(***************************************************************************)
(* The loss of the brokers is not reported                                 *)
(***************************************************************************)
\* A connection has been ready or failed before it closes.
Unreported ==
  /\ NeverReported
  /\ \A c \in Conns : socket[c] \in {"connecting", "up"} \/ state[c] # "CREATED"
  /\ \A c \in Conns : socket[c] = "up" => state[c] # "CREATED"

LEMMA UnreportedStep == TypeOK /\ Unreported /\ [Next]_vars => Unreported'
<1> SUFFICES ASSUME TypeOK, Unreported, [Next]_vars PROVE Unreported'
  OBVIOUS
<1> USE DEF TypeOK, Unreported, NeverReported
<1>1. ASSUME NEW c \in Conns, Ready(c) PROVE Unreported'
  BY <1>1 DEF Ready, OnReady
<1>2. ASSUME NEW c \in Conns, NEW w \in {"broken", "ending"}, SocketError(c, w)
      PROVE  Unreported'
  BY <1>2 DEF SocketError, OnError
<1>3. ASSUME NEW c \in Conns, ParserError(c) PROVE Unreported'
  BY <1>3 DEF ParserError, OnError
<1>4. ASSUME NEW c \in Conns, PeerEnds(c) PROVE Unreported'
  BY <1>4 DEF PeerEnds
<1>5. ASSUME NEW c \in Conns, Close(c) PROVE Unreported'
  <2>1. state[c] # "CREATED"
    BY <1>5 DEF Close
  <2>2. ~reported'
    BY <1>5, <2>1 DEF Close, OnClose
  <2> QED BY <1>5, <2>1, <2>2 DEF Close, OnClose
<1>6. ASSUME NEW c \in Conns, Retry(c) PROVE Unreported'
  BY <1>6 DEF Retry, OnError
<1>7. CASE CloseAll
  <2>1. UNCHANGED <<state, reported>>
    BY <1>7 DEF CloseAll
  <2>2. ASSUME NEW c \in Conns
        PROVE  socket'[c] = socket[c] \/ (socket[c] = "up" /\ socket'[c] = "finishing")
    <3>1. socket'[c] = IF c \in InUse /\ socket[c] = "up" THEN "finishing" ELSE socket[c]
      BY <1>7 DEF CloseAll
    <3> QED BY <3>1
  <2>3. ASSUME NEW c \in Conns
        PROVE  /\ socket'[c] \in {"connecting", "up"} \/ state'[c] # "CREATED"
               /\ socket'[c] = "up" => state'[c] # "CREATED"
    BY <2>1, <2>2
  <2>4. ~reported'
    BY <2>1
  <2> QED BY <2>3, <2>4
<1>8. CASE UNCHANGED vars
  BY <1>8 DEF vars
<1> QED BY <1>1, <1>2, <1>3, <1>4, <1>5, <1>6, <1>7, <1>8 DEF Next, Connection

\* No process is told that it has lost its brokers, in whatever order they go.
THEOREM LossIsNeverReported == Spec => []NeverReported
<1>1. Init => Unreported
  BY DEF Init, Unreported, NeverReported
<1>2. Unreported => NeverReported
  BY DEF Unreported
<1> QED BY <1>1, <1>2, TypeCorrect, UnreportedStep, PTL DEF Spec
=============================================================================
