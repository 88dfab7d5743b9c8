---------------------------- MODULE PushPipeline ----------------------------
(***************************************************************************)
(* The way of a version from the application server to a device: the PUT  *)
(* that AS/As.js answers and publishes, the queue newMessages, the lookup  *)
(* of Monitor/Monitor.js by the application's token, the queue of the      *)
(* worker that a node's "si" names, and the session of the device there.   *)
(* One application, whose document lists the devices of "no"; the devices  *)
(* keep a WebSocket (those that are woken up are the subject of WakeUp).   *)
(*                                                                         *)
(* The lookup finds no node and its answer kills the Monitor, so in Spec   *)
(* no message gets past it.  OpenSpec adds an environment in which lookups *)
(* find nodes, any of them: what the Monitor and the workers do with the   *)
(* message from there on is checked under it.                              *)
(*                                                                         *)
(* The brokers mirror their queues ('x-ha-policy': 'all'), so a message is *)
(* in one place whatever connection published it.                          *)
(***************************************************************************)
EXTENDS Integers, Sequences

CONSTANTS
  Puts,        \* the requests of application servers, each made once
  Devices, Workers, Brokers,
  Bodies,      \* the request bodies that tell the checks of As.js apart
  MaxVersion,  \* bound: stands for 9007199254740991
  NoVersion, NoWorker

NotNat == -1   \* a string that is not a natural number

\* lead is the number parseInt finds at the front of a version, num the one
\* that the comparisons of isVersion convert the whole string to: "1e1" has
\* lead 1 and num 10, "0x1" has lead 0 and num 1.
Body == [kind : {"long", "malformed", "version"},
         lead : {NotNat} \cup Nat, num : {NotNat} \cup Nat]

\* Mutant: without the parseInt.
IsVersionNumber(b) == b.num # NotNat /\ b.num <= MaxVersion

\* Helpers.isVersion.
IsVersion(b) == b.lead # NotNat /\ b.num # NotNat /\ b.num <= MaxVersion

\* Within the 25 characters of a body, no version has a front that large.
ASSUME BodiesType ==
  /\ Bodies \subseteq Body
  /\ \A b \in Bodies : IsVersion(b) => b.lead <= MaxVersion
ASSUME MaxVersionType == MaxVersion \in Nat
ASSUME NullValues == NoVersion \notin Nat /\ NoWorker \notin Workers
ASSUME SomeBroker == Brokers # {}

VARIABLES
  \* the application server
  as,          \* "cut": ready, and what it publishes reaches no broker
  answer,      \* of each put: "none", "reading" its body, "accepted", "refused"
  version,     \* the version published for each accepted put
  \* the messages
  declared,    \* newMessages exists
  newMessages, sent, lookups, queue, told,
  \* the Monitor
  monitor, dbReady, mbReady,
  conn,        \* its broker connections
  sub,         \* those that hold its subscription
  \* the front end and the documents
  worker,      \* "deaf": before it subscribes, or its subscribed connections are gone
  session,     \* the worker that each device has an open session with
  updates,     \* the values of "si" that updates of each node under way will write
  node,        \* the "si" of each node, NoWorker when it is DISCONNECTED
  no,          \* the devices in the application's document, which nothing reads
  \* history
  due          \* the puts that the Monitor has still to look up, see Due

asVars      == <<as, answer, version>>
messages    == <<newMessages, sent, lookups, queue, told>>
monitorVars == <<monitor, dbReady, mbReady, conn, sub>>
deviceVars  == <<worker, session, updates, node, no>>
vars == <<asVars, declared, messages, monitorVars, deviceVars, due>>

\* Its connections are those that MsgBroker keeps, while it runs.
Link == INSTANCE BrokerLink

\* Sessions and nodes are those that UASession keeps for devices whose sessions
\* do not overlap, here with a WebSocket each (no UDP, so no network to ask).
Docs == INSTANCE Presence WITH
  Udp <- {}, None <- NoWorker, asking <- [d \in Devices |-> NoWorker]

Message == [put : Puts, vs : 0..MaxVersion, via : Brokers]
\* A lookup is under way, or was answered with no node or with an array of them.
Lookup == [msg : Message, state : {"sent", "nothing", "nodes"},
           nodes : SUBSET (Devices \X Workers)]

TypeOK ==
  /\ as \in {"starting", "ready", "cut", "down"}
  /\ answer \in [Puts -> {"none", "reading", "accepted", "refused"}]
  /\ version \in [Puts -> 0..MaxVersion \cup {NoVersion}]
  /\ declared \in BOOLEAN
  /\ newMessages \in SUBSET Message
  /\ sent \in SUBSET [msg : Message, on : Brokers]
  /\ lookups \in SUBSET Lookup
  /\ queue \in SUBSET [msg : Message, dev : Devices, to : Workers, via : Brokers]
  /\ told \in [Puts -> [Devices -> Seq(0..MaxVersion)]]
  /\ monitor \in {"down", "starting", "ready", "stopping"}
  /\ dbReady \in BOOLEAN /\ mbReady \in BOOLEAN
  /\ conn \in [Brokers -> {"connecting", "up", "ended"}]
  /\ sub \in SUBSET Brokers
  /\ worker \in [Workers -> {"deaf", "listening", "exited"}]
  /\ session \in [Devices -> Workers \cup {NoWorker}]
  /\ updates \in [Devices -> SUBSET (Workers \cup {NoWorker})]
  /\ node \in [Devices -> Workers \cup {NoWorker}]
  /\ no \in SUBSET Devices
  /\ due \in SUBSET Puts

Init ==
  /\ as = "starting"
  /\ answer = [p \in Puts |-> "none"]
  /\ version = [p \in Puts |-> NoVersion]
  /\ declared = FALSE
  /\ newMessages = {} /\ sent = {} /\ lookups = {} /\ queue = {}
  /\ told = [p \in Puts |-> [d \in Devices |-> <<>>]]
  /\ monitor = "down" /\ dbReady = FALSE /\ mbReady = FALSE
  /\ Link!Init
  /\ sub = {}
  /\ worker = [w \in Workers |-> "deaf"]
  /\ Docs!Init
  /\ no = {}
  /\ due = {}

\* Mutant: without the flag "sent".
PushedOnAll(conns) == conns

\* push() publishes on the first connection of the list, or on none.
Pushed(conns) == IF conns = {} THEN {} ELSE {CHOOSE b \in conns : TRUE}

Up == {b \in Brokers : conn[b] = "up"}

(***************************************************************************)
(* The application server: AS/As.js                                        *)
(***************************************************************************)
\* A broker connection becomes ready.  The first one makes the server ready.
AsConnects ==
  /\ as \in {"starting", "cut"}
  /\ as' = "ready"
  /\ UNCHANGED <<answer, version, declared, messages, monitorVars, deviceVars>>

\* The last connection of its list closes, or the one that push uses fails; the
\* server stays "ready".
AsCut ==
  /\ as = "ready"
  /\ as' = "cut"
  /\ UNCHANGED <<answer, version, declared, messages, monitorVars, deviceVars>>

\* readyTimeout before the server is ready, or SIGINT.
AsExits ==
  /\ as # "down"
  /\ as' = "down"
  /\ UNCHANGED <<answer, version, declared, messages, monitorVars, deviceVars>>

\* onHTTPMessage: a PUT is refused with 503 until the server is ready.
Request(p) ==
  /\ as # "down" /\ answer[p] = "none"
  /\ answer' = [answer EXCEPT ![p] = IF as = "starting" THEN "refused" ELSE "reading"]
  /\ UNCHANGED <<as, version, declared, messages, monitorVars, deviceVars>>

\* A body that is too long is refused as soon as it is, the 'end' that follows
\* does nothing; processSimplePushV1 refuses a path or a body it cannot read.
BadBody(p) ==
  /\ as # "down" /\ answer[p] = "reading"
  /\ \E b \in Bodies : b.kind # "version" \/ ~IsVersion(b)
  /\ answer' = [answer EXCEPT ![p] = "refused"]
  /\ UNCHANGED <<as, version, declared, messages, monitorVars, deviceVars>>

\* processSimplePushV1: the answer is 200 before the version is published, on
\* the default exchange, which drops what names a queue that does not exist.
GoodBody(p) ==
  /\ as # "down" /\ answer[p] = "reading"
  /\ \E b \in {c \in Bodies : c.kind = "version" /\ IsVersion(c)} :
       /\ version' = [version EXCEPT ![p] = b.lead]
       /\ newMessages' = newMessages \cup
            [put : {p}, vs : {b.lead},
             via : IF as = "ready" /\ declared THEN Pushed(Brokers) ELSE {}]
  /\ answer' = [answer EXCEPT ![p] = "accepted"]
  /\ UNCHANGED <<as, declared, sent, lookups, queue, told, monitorVars, deviceVars>>

(***************************************************************************)
(* The life of the Monitor                                                 *)
(***************************************************************************)
\* onReady: subscribe covers the connections that are in the list now, and the
\* first subscription declares the queue, which is durable.
OnReady ==
  /\ monitor' = "ready"
  /\ sub' = {b \in Brokers : conn'[b] = "up"}
  /\ declared' = (declared \/ sub' # {})

MonitorStarts ==
  /\ monitor = "down"
  /\ monitor' = "starting"
  /\ UNCHANGED <<asVars, declared, messages, dbReady, mbReady, conn, sub, deviceVars>>

\* Mutant: on('connected') for once('connected').
ConnReadyAgain(b) ==
  /\ monitor \in {"starting", "ready"}
  /\ Link!Ready(b)
  /\ mbReady' = TRUE
  /\ IF dbReady THEN OnReady ELSE UNCHANGED <<monitor, sub, declared>>
  /\ UNCHANGED <<asVars, messages, dbReady, deviceVars>>

\* 'ready' of a connection.  The Monitor listens to the first 'connected' only.
ConnReady(b) ==
  /\ monitor \in {"starting", "ready"}
  /\ Link!Ready(b)
  /\ mbReady' = TRUE
  /\ IF ~mbReady /\ dbReady THEN OnReady ELSE UNCHANGED <<monitor, sub, declared>>
  /\ UNCHANGED <<asVars, messages, dbReady, deviceVars>>

\* 'connected' of the data store.
DbReady ==
  /\ monitor = "starting" /\ ~dbReady
  /\ dbReady' = TRUE
  /\ UNCHANGED <<conn, mbReady>>
  /\ IF mbReady THEN OnReady ELSE UNCHANGED <<monitor, sub, declared>>
  /\ UNCHANGED <<asVars, messages, deviceVars>>

\* When a connection goes, the messages the broker had sent on it
\* are lost, since it does not wait for an ack.
Lost(conns) == sent' = {m \in sent : m.on \notin conns}

\* A connection breaks, and is made again with the subscription it had, or its
\* broker ends it, and it is not.
ConnLost(b) ==
  /\ monitor \in {"starting", "ready"}
  /\ \/ Link!Fails(b) /\ UNCHANGED sub
     \/ Link!Ends(b) /\ sub' = sub \ {b}
  /\ Lost({b})
  /\ UNCHANGED <<asVars, declared, newMessages, lookups, queue, told,
                 monitor, dbReady, mbReady, deviceVars>>

\* stop(): the connections in use are ended, and nothing comes of the others
\* in the three seconds before the exit.  A second SIGINT does nothing.
MonitorStops ==
  /\ monitor \in {"starting", "ready"}
  /\ monitor' = "stopping"
  /\ conn' = [b \in Brokers |-> "ended"]
  /\ sub' = {}
  /\ Lost(Brokers)
  /\ UNCHANGED <<asVars, declared, newMessages, lookups, queue, told,
                 dbReady, mbReady, deviceVars>>

\* Mutant: autoDelete for newMessages.
MonitorEndsDeleting ==
  /\ monitor' = "down" /\ dbReady' = FALSE /\ mbReady' = FALSE
  /\ conn' = [b \in Brokers |-> "connecting"]
  /\ declared' = FALSE
  /\ sub' = {} /\ newMessages' = {} /\ sent' = {} /\ lookups' = {}
  /\ UNCHANGED <<asVars, queue, told, deviceVars>>

\* The process ends, with what it was sent and what it was looking up.
MonitorEnds ==
  /\ monitor' = "down" /\ dbReady' = FALSE /\ mbReady' = FALSE
  /\ conn' = [b \in Brokers |-> "connecting"]
  /\ sub' = {}
  /\ sent' = {} /\ lookups' = {}
  /\ UNCHANGED <<asVars, declared, newMessages, queue, told, deviceVars>>

\* The end of the stop, the readyTimeout, or the loss of the data store.
MonitorExits == monitor # "down" /\ MonitorEnds

(***************************************************************************)
(* A message in the Monitor                                                *)
(***************************************************************************)
Consumers == {b \in sub : conn[b] = "up"}

\* The broker sends a message to one consumer and forgets it.
BrokerSends(m, b) ==
  /\ m \in newMessages /\ b \in Consumers
  /\ newMessages' = newMessages \ {m}
  /\ sent' = sent \cup {[msg |-> m, on |-> b]}
  /\ UNCHANGED <<asVars, declared, lookups, queue, told, monitorVars, deviceVars>>

\* onNewMessage: version 0 counts as no version.
OnNewMessage(s) ==
  /\ s \in sent
  /\ sent' = sent \ {s}
  /\ lookups' = lookups \cup
       {[msg |-> m, state |-> "sent", nodes |-> {}] : m \in {n \in {s.msg} : n.vs # 0}}
  /\ UNCHANGED <<asVars, declared, newMessages, queue, told, monitorVars, deviceVars>>

\* What a lookup is answered with.
Answers(l, state, nodes) ==
  /\ l \in lookups /\ l.state = "sent"
  /\ lookups' = (lookups \ {l}) \cup {[msg |-> l.msg, state |-> state, nodes |-> nodes]}
  /\ UNCHANGED <<asVars, declared, newMessages, sent, queue, told, monitorVars, deviceVars>>

\* getNodesByAppToken asks for the one node whose _id is the application's token.
\* An _id is a UAID, so there is none, whatever the application's document lists.
LookupReads(l) == Answers(l, "nothing", {})

\* Not in the code: a lookup that finds nodes, any of those stored, as they are
\* now.  Those that are DISCONNECTED or have no "si" are left out, since
\* onNodeData skips them.
LookupFinds(l) ==
  \E found \in SUBSET {d \in Devices : node[d] # NoWorker} :
    Answers(l, "nodes", {<<d, node[d]>> : d \in found})

\* onApplicationData with an error, or with nodes whose pushes are written to a
\* connection that has failed or is ending and is still in the list.
LookupFails(l) ==
  /\ l \in lookups /\ l.state # "nothing"
  /\ lookups' = lookups \ {l}
  /\ UNCHANGED <<asVars, declared, newMessages, sent, queue, told, monitorVars, deviceVars>>

\* onApplicationData takes forEach of null, and nothing catches what it throws.
OnNoApplicationData(l) ==
  /\ l \in lookups /\ l.state = "nothing"
  /\ MonitorEnds

\* onApplicationData and onNodeData: one push per node, to the queue its "si"
\* names; a push to a queue that does not exist is dropped.
OnApplicationData(l) ==
  /\ l \in lookups /\ l.state = "nodes"
  /\ lookups' = lookups \ {l}
  /\ queue' = queue \cup
       UNION {[msg : {l.msg}, dev : {n[1]}, to : {n[2]}, via : Pushed(Up)] :
              n \in {k \in l.nodes : worker[k[2]] = "listening"}}
  /\ UNCHANGED <<asVars, declared, newMessages, sent, told, monitorVars, deviceVars>>

(***************************************************************************)
(* The workers, the sessions and the documents                             *)
(***************************************************************************)
\* A worker subscribes at its first 'connected', or its subscription is
\* renewed with a connection that broke: either declares its queue.
WorkerListens(w) ==
  /\ worker[w] = "deaf"
  /\ worker' = [worker EXCEPT ![w] = "listening"]
  /\ UNCHANGED <<asVars, declared, messages, monitorVars, session, updates, node, no>>

\* Its queue is deleted when its last subscribed connection goes (autoDelete).
WorkerCut(w) ==
  /\ worker[w] = "listening"
  /\ worker' = [worker EXCEPT ![w] = "deaf"]
  /\ queue' = {m \in queue : m.to # w}
  /\ UNCHANGED <<asVars, declared, newMessages, sent, lookups, told, monitorVars,
                 session, updates, node, no>>

\* Its sessions go with it, and nobody updates their nodes.
WorkerExits(w) ==
  /\ worker[w] # "exited"
  /\ worker' = [worker EXCEPT ![w] = "exited"]
  /\ queue' = {m \in queue : m.to # w}
  /\ Docs!WorkerExits(w)
  /\ UNCHANGED <<asVars, declared, newMessages, sent, lookups, told, monitorVars, no>>

\* onNewMessage of a worker: the connector of the device, if it has one here,
\* sends the notification.
OnWorkerMessage(m) ==
  /\ m \in queue
  /\ queue' = queue \ {m}
  /\ told' = IF session[m.dev] = m.to
             THEN [told EXCEPT ![m.msg.put][m.dev] = Append(@, m.msg.vs)] ELSE told
  /\ UNCHANGED <<asVars, declared, newMessages, sent, lookups, monitorVars, deviceVars>>

\* A hello: a worker takes sessions whether or not it is subscribed.
Hello(d, w) ==
  /\ worker[w] # "exited"
  /\ Docs!Hello(d, w, w)
  /\ UNCHANGED <<asVars, declared, messages, monitorVars, worker, no>>

Close(d) ==
  /\ Docs!Close(d)
  /\ UNCHANGED <<asVars, declared, messages, monitorVars, worker, no>>

\* An update of a node executes, or fails.
Update(d) ==
  /\ \E s \in updates[d] : Docs!UpdateEnds(d, s)
  /\ UNCHANGED <<asVars, declared, messages, monitorVars, worker, no>>

\* app.registerApplication ($addToSet) and app.unregisterApplication ($pull).
RegisterApplication(d) ==
  /\ no' = no \cup {d}
  /\ UNCHANGED <<asVars, declared, messages, monitorVars, worker, session, updates, node>>

UnregisterApplication(d) ==
  /\ no' = no \ {d}
  /\ UNCHANGED <<asVars, declared, messages, monitorVars, worker, session, updates, node>>

(***************************************************************************)
(* What is due                                                             *)
(***************************************************************************)
InMonitor(p) == \/ \E s \in sent : s.msg.put = p
                \/ \E l \in lookups : l.msg.put = p

\* A put is due when it is accepted, if the server has a connection, newMessages
\* exists and the version is not 0.  It is until its lookup is answered, or the
\* message is one that failed in this step.
Due(gone) ==
  due' = {p \in Puts : /\ \/ p \in due
                          \/ version[p] = NoVersion /\ version'[p] \notin {NoVersion, 0}
                               /\ as = "ready" /\ declared
                       /\ p \notin gone}

(***************************************************************************)
(* Specification                                                           *)
(***************************************************************************)
Server == \/ AsConnects \/ AsCut \/ AsExits
          \/ \E p \in Puts : Request(p) \/ BadBody(p) \/ GoodBody(p)

Monitor == \/ MonitorStarts \/ DbReady
           \/ \E b \in Brokers : ConnReady(b)
           \/ \E m \in newMessages, b \in Brokers : BrokerSends(m, b)
           \/ \E s \in sent : OnNewMessage(s)
           \/ \E l \in lookups : OnApplicationData(l)

FrontEnd == \/ \E w \in Workers : WorkerListens(w) \/ WorkerCut(w) \/ WorkerExits(w)
            \/ \E m \in queue : OnWorkerMessage(m)
            \/ \E d \in Devices : \/ \E w \in Workers : Hello(d, w)
                                  \/ Close(d) \/ Update(d)
                                  \/ RegisterApplication(d) \/ UnregisterApplication(d)

\* The steps that lose nothing that is due.
Moves == (Server \/ Monitor \/ FrontEnd) /\ Due({})

Reads(l) == LookupReads(l) /\ Due({l.msg.put})

Finds(l) == LookupFinds(l) /\ Due({l.msg.put})

\* The others that the Monitor holds go with it.
Throws(l) == OnNoApplicationData(l) /\ Due({p \in Puts : InMonitor(p)})

\* The puts whose message the Monitor has been sent on some connections.
SentOn(conns) == {s.msg.put : s \in {t \in sent : t.on \in conns}}

Failure == \/ \E b \in Brokers : ConnLost(b) /\ Due(SentOn({b}))
           \/ MonitorStops /\ Due(SentOn(Brokers))
           \/ MonitorExits /\ Due({p \in Puts : InMonitor(p)})
           \/ \E l \in lookups : LookupFails(l) /\ Due({l.msg.put})

\* What the code does while nothing around it fails.
Calm == Moves \/ \E l \in lookups : Reads(l) \/ Throws(l)

Next == Calm \/ Failure

Spec == Init /\ [][Next]_vars

\* The same code, with lookups that may find nodes.
OpenNext == Next \/ \E l \in lookups : Finds(l)

OpenSpec == Init /\ [][OpenNext]_vars

\* A broker with a consumer sends what it has, handlers run, and the database
\* answers.  Nothing is assumed of processes, connections, devices or servers.
Fairness ==
  \A p \in Puts :
    /\ WF_vars((\E m \in newMessages, b \in Brokers : m.put = p /\ BrokerSends(m, b)) /\ Due({}))
    /\ WF_vars((\E s \in sent : s.msg.put = p /\ OnNewMessage(s)) /\ Due({}))
    /\ WF_vars(\E l \in lookups : l.msg.put = p /\ (Reads(l) \/ Throws(l)))
    /\ WF_vars((\E l \in lookups : l.msg.put = p /\ OnApplicationData(l)) /\ Due({}))
    /\ \A d \in Devices :
         WF_vars((\E m \in queue : m.msg.put = p /\ m.dev = d /\ OnWorkerMessage(m)) /\ Due({}))

CalmSpec == Init /\ [][Calm]_vars /\ Fairness

(***************************************************************************)
(* Properties                                                              *)
(***************************************************************************)
\* The message of a put that is due is in newMessages or with the Monitor,
\* wherever connections and restarts of the Monitor leave it: nothing but the
\* failures that Due is told of loses it before its lookup is answered.
WaitsForLookup ==
  \A p \in due : \/ \E m \in newMessages : m.put = p
                 \/ \E s \in sent : s.msg.put = p
                 \/ \E l \in lookups : l.msg.put = p /\ l.state = "sent"

\* A Monitor that lost every connection it subscribed on hears nothing until it
\* is restarted, though it pushes on those that became ready later.
Deaf == monitor = "ready" /\ sub = {}

DeafIsFinal == [][Deaf => Deaf' \/ monitor' # "ready"]_vars

\* No step tells a device twice, or of anything but the accepted version:
\* newMessages has a subscription per connection, and push a list of them.
N == INSTANCE Notification
RefinesNotification == N!Spec

\* The device has a session that its node names, with a worker that listens.
Reachable(d) ==
  /\ d \in no /\ updates[d] = {}
  /\ session[d] # NoWorker /\ node[d] = session[d]
  /\ worker[session[d]] = "listening"

\* Monitor.js, onApplicationData, "Notifying node": while nothing fails, the
\* devices of the application that stay reachable are told of a version that the
\* Monitor is sent.
SentIsTold ==
  \A p \in Puts, d \in Devices :
    (\E s \in sent : s.msg.put = p /\ s.msg.vs # 0) /\ Reachable(d)
      ~> told[p][d] # <<>> \/ ~Reachable(d)
=============================================================================
