------------------------------ MODULE MsgBroker ------------------------------
(***************************************************************************)
(* The broker connections of one process: common/MsgBroker/MsgBroker.js    *)
(* over the amqp library, from the end of init() on.  Each connection goes *)
(* through the events 'ready', 'error' and 'close', the library reconnects *)
(* the connections that emit 'error', and MsgBroker.js keeps the list of   *)
(* those that push and subscribe use.                                      *)
(***************************************************************************)
EXTENDS Naturals, Sequences, SequencesExt

CONSTANT Conns   \* the connections created by init, one per configured broker

VARIABLES
  socket,    \* the socket of each connection; its 'close' event is pending
             \* while it is "broken", "ending" (we sent the end after an
             \* error) or "finishing" (an end without an error)
  retry,     \* connections whose reconnection timer is running
  state,     \* conn.state
  queues,    \* this.queues: the connections in use, in the order they came
  reported,  \* 'disconnected' has been emitted
  stopped    \* the process has called close()

vars == <<socket, retry, state, queues, reported, stopped>>

TypeOK ==
  /\ socket \in [Conns -> {"connecting", "up", "broken", "ending", "finishing", "closed"}]
  /\ retry \in SUBSET Conns
  /\ state \in [Conns -> {"CREATED", "ERROR", "CONNECTED", "DISCONNECTED"}]
  /\ queues \in Seq(Conns)
  /\ reported \in BOOLEAN /\ stopped \in BOOLEAN

Init ==
  /\ socket = [c \in Conns |-> "connecting"]
  /\ retry = {}
  /\ state = [c \in Conns |-> "CREATED"]
  /\ queues = <<>>
  /\ reported = FALSE /\ stopped = FALSE

InUse == ToSet(queues)

(***************************************************************************)
(* The handlers of MsgBroker.js                                            *)
(***************************************************************************)
\* Mutant: splice without the test of the index: splice(-1, 1) removes the
\* last connection when c is not there.
SpliceAnyway(q, c) ==
  IF c \in ToSet(q) \/ q = <<>> THEN RemoveFirst(q, c) ELSE RemoveAt(q, Len(q))

\* queues.splice(index, 1) at the indexOf c, when it has one.
Splice(q, c) == RemoveFirst(q, c)

\* Mutant: only the comparison of pending put right.
OnCloseReports(c) ==
  /\ queues' = Splice(queues, c)
  /\ reported' = (reported \/
       /\ queues' = <<>>
       /\ \A d \in Conns : state[d] # "DISCONNECTED"
       /\ ~\E d \in Conns : state[d] = "CREATED")
  /\ state' = [state EXCEPT ![c] = IF @ = "CONNECTED" THEN "DISCONNECTED" ELSE @]

\* 'disconnected' is emitted when the list is empty and the two predicates
\* agree; both have their comparison the wrong way round, so every connection
\* must be in its CREATED state.
OnClose(c) ==
  /\ queues' = Splice(queues, c)
  /\ reported' = (reported \/
       /\ queues' = <<>>
       /\ \A d \in Conns : state[d] # "DISCONNECTED"
       /\ ~\E d \in Conns : state[d] # "CREATED")
  /\ state' = [state EXCEPT ![c] = IF @ = "CONNECTED" THEN "DISCONNECTED" ELSE @]

\* Mutant: what is added to the list is a list.
OnReadyNested(c) ==
  /\ state' = [state EXCEPT ![c] = "CONNECTED"]
  /\ queues' = Append(queues, <<c>>)

OnReady(c) ==
  /\ state' = [state EXCEPT ![c] = "CONNECTED"]
  /\ queues' = Append(queues, c)

OnError(c) == state' = [state EXCEPT ![c] = "ERROR"]

(***************************************************************************)
(* What happens to the connections                                         *)
(***************************************************************************)
\* The AMQP handshake ends.
Ready(c) ==
  /\ socket[c] = "connecting"
  /\ socket' = [socket EXCEPT ![c] = "up"]
  /\ OnReady(c)
  /\ UNCHANGED <<retry, reported, stopped>>

\* Mutant: a connection that was never made is not tried again.
SocketErrorWhenUp(c, w) ==
  /\ socket[c] \in {"connecting", "up", "ending", "finishing"}
  /\ socket[c] = "ending" => w = "broken"
  /\ socket' = [socket EXCEPT ![c] = w]
  /\ retry' = IF socket[c] = "connecting" THEN retry ELSE retry \cup {c}
  /\ OnError(c)
  /\ UNCHANGED <<queues, reported, stopped>>

\* 'error' from a socket that is gone, with its 'close' to come, or from a
\* heartbeat or a frame that cannot be handled, after which the library ends
\* the socket.  The library schedules a reconnection unless one is scheduled.
SocketError(c, w) ==
  /\ socket[c] \in {"connecting", "up", "ending", "finishing"}
  /\ socket[c] = "ending" => w = "broken"
  /\ socket' = [socket EXCEPT ![c] = w]
  /\ retry' = retry \cup {c}
  /\ OnError(c)
  /\ UNCHANGED <<queues, reported, stopped>>

\* The parser's onError emits 'error' and then a 'close' of its own, before
\* the one of the socket.  That 'close' finds the connection in its ERROR state,
\* so it reports nothing.
ParserError(c) ==
  /\ socket[c] \in {"connecting", "up"}
  /\ socket' = [socket EXCEPT ![c] = "ending"]
  /\ retry' = retry \cup {c}
  /\ queues' = Splice(queues, c)
  /\ OnError(c)
  /\ UNCHANGED <<reported, stopped>>

\* The broker ends the socket of a connection that is ready: no 'error' is emitted.
\* (Before it is ready the library emits one, as it does for an AMQP close: both
\* are a SocketError.)
PeerEnds(c) ==
  /\ socket[c] = "up"
  /\ socket' = [socket EXCEPT ![c] = "finishing"]
  /\ UNCHANGED <<retry, state, queues, reported, stopped>>

\* Mutant: a connection is retried whatever made it close.
CloseAndRetry(c) ==
  /\ socket[c] \in {"broken", "ending", "finishing"}
  /\ socket' = [socket EXCEPT ![c] = "closed"]
  /\ OnClose(c)
  /\ retry' = retry \cup {c}
  /\ UNCHANGED <<stopped>>

\* The 'close' event of the socket.
Close(c) ==
  /\ socket[c] \in {"broken", "ending", "finishing"}
  /\ socket' = [socket EXCEPT ![c] = "closed"]
  /\ OnClose(c)
  /\ UNCHANGED <<retry, stopped>>

\* Mutant: the flag of the scheduled attempt is not cleared before a connect
\* that fails, so the failure schedules no other.
RetryGivesUp(c) ==
  /\ c \in retry /\ socket[c] \in {"ending", "closed"}
  /\ retry' = retry \ {c}
  /\ \/ /\ socket[c] = "closed"
        /\ socket' = [socket EXCEPT ![c] = "connecting"]
        /\ UNCHANGED state
     \/ /\ socket[c] = "ending"
        /\ socket' = [socket EXCEPT ![c] = "broken"]
        /\ OnError(c)
  /\ UNCHANGED <<queues, reported, stopped>>

\* The reconnection timer: a socket that is still ending refuses to connect,
\* which is an error that breaks it and schedules the next attempt.
Retry(c) ==
  /\ c \in retry
  /\ \/ /\ socket[c] = "closed"
        /\ socket' = [socket EXCEPT ![c] = "connecting"]
        /\ retry' = retry \ {c}
        /\ UNCHANGED state
     \/ /\ socket[c] = "ending"
        /\ socket' = [socket EXCEPT ![c] = "broken"]
        /\ OnError(c)
        /\ UNCHANGED retry
  /\ UNCHANGED <<queues, reported, stopped>>

\* close(), called by stop(): the connections in use are ended.  No caller
\* passes the argument that would keep 'disconnected' from being emitted.
CloseAll ==
  /\ ~stopped
  /\ stopped' = TRUE
  /\ socket' = [c \in Conns |-> IF c \in InUse /\ socket[c] = "up" THEN "finishing"
                                ELSE socket[c]]
  /\ UNCHANGED <<retry, state, queues, reported>>

(***************************************************************************)
(* Specification                                                           *)
(***************************************************************************)
Connection(c) ==
  \/ Ready(c)
  \/ \E w \in {"broken", "ending"} : SocketError(c, w)
  \/ ParserError(c) \/ PeerEnds(c) \/ Close(c) \/ Retry(c)

Next == CloseAll \/ \E c \in Conns : Connection(c)

Spec == Init /\ [][Next]_vars

\* The socket of a connection that has failed or ended closes, and timers run.
\* Brokers owe nothing: a connection may be refused for ever.
Fairness == \A c \in Conns : WF_vars(Close(c)) /\ WF_vars(Retry(c))

FairSpec == Spec /\ Fairness

(***************************************************************************)
(* Properties                                                              *)
(***************************************************************************)
\* Whatever the order of errors, closes and reconnections, a connection is in
\* the list once at most, every one that is ready is, and none that is closed
\* or connecting is: push finds a broker whenever there is one.
ListSound ==
  /\ \A i, j \in DOMAIN queues : queues[i] = queues[j] => i = j
  /\ {c \in Conns : socket[c] = "up"} \subseteq InUse
  /\ \A c \in InUse : socket[c] \notin {"connecting", "closed"}

\* A connection whose socket its broker ended without an error stays closed for good:
\* only errors are retried.
EndedIsFinal ==
  [][\A c \in Conns : state[c] = "DISCONNECTED" =>
        state'[c] = "DISCONNECTED" /\ socket'[c] = "closed"]_vars

\* Every other connection that is down is tried again.
OutageIsRetried ==
  \A c \in Conns : socket[c] # "up" ~> socket[c] = "connecting" \/ state[c] = "DISCONNECTED"

\* What a connection is to the process: being made, from its first attempt or
\* its error on, or in use, or ended for good.
LinkOf(c) ==
  IF socket[c] = "connecting" \/ c \in retry THEN "connecting"
  ELSE IF socket[c] \in {"up", "finishing"} THEN "up" ELSE "ended"

\* The events of the library and the timers make of the connections what
\* BrokerLink says, the environment of the processes that push and subscribe:
\* one that fails before or after it was ready is always made again.
Link == INSTANCE BrokerLink WITH Brokers <- Conns, conn <- [c \in Conns |-> LinkOf(c)]
RefinesBrokerLink == Link!Spec

\* 'disconnected' is never emitted, whatever is lost: a connection that closes has
\* left its CREATED state, and the inverted predicates want all in it.  So no server
\* logs the "MsgBroker DISCONNECTED!!" of logtraces.js.
NeverReported == ~reported
=============================================================================
