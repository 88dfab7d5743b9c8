-------------------------- MODULE PushPipeline_proofs --------------------------
(* Proofs about PushPipeline: its type invariant, that a deaf Monitor stays    *)
(* deaf, that it implements Notification, that a version waits for its lookup, *)
(* and that with the lookup as it is nobody is told.                           *)
EXTENDS PushPipeline, SequenceTheorems, TLAPS

(***************************************************************************)
(* The types                                                               *)
(***************************************************************************)
LEMMA TypeInit == Init => TypeOK
<1> SUFFICES ASSUME Init PROVE TypeOK
  OBVIOUS
<1>1. <<>> \in Seq(0..MaxVersion)
  OBVIOUS
<1>2. told \in [Puts -> [Devices -> Seq(0..MaxVersion)]]
  BY <1>1 DEF Init, Link!Init
<1> QED BY <1>2 DEF Init, Link!Init, Docs!Init, TypeOK

LEMMA PushedOne ==
  ASSUME NEW conns
  PROVE  /\ Pushed(conns) \subseteq conns
         /\ \A a, b \in Pushed(conns) : a = b
         /\ conns # {} => Pushed(conns) # {}
  BY DEF Pushed

LEMMA DueType == ASSUME NEW gone, Due(gone) PROVE due' \in SUBSET Puts
  BY DEF Due

LEMMA TypeServer ==
  ASSUME TypeOK, Server, due' \in SUBSET Puts
  PROVE  TypeOK'
<1> USE DEF TypeOK, asVars, messages, monitorVars, deviceVars
<1>1. CASE AsConnects \/ AsCut \/ AsExits
  BY <1>1 DEF AsConnects, AsCut, AsExits
<1>2. ASSUME NEW p \in Puts, Request(p) \/ BadBody(p) PROVE TypeOK'
  BY <1>2 DEF Request, BadBody
<1>3. ASSUME NEW p \in Puts, GoodBody(p) PROVE TypeOK'
  <2>1. PICK b \in Bodies :
          /\ IsVersion(b)
          /\ version' = [version EXCEPT ![p] = b.lead]
          /\ newMessages' = newMessages \cup
               [put : {p}, vs : {b.lead},
                via : IF as = "ready" /\ declared THEN Pushed(Brokers) ELSE {}]
    BY <1>3 DEF GoodBody
  <2>2. b.lead \in 0..MaxVersion
    BY <2>1, BodiesType, MaxVersionType DEF Body, IsVersion, NotNat
  <2> DEFINE via == IF as = "ready" /\ declared THEN Pushed(Brokers) ELSE {}
  <2>3. via \subseteq Brokers
    BY PushedOne
  <2> HIDE DEF via
  <2>4. [put : {p}, vs : {b.lead}, via : via] \subseteq Message
    BY <2>2, <2>3 DEF Message
  <2>5. newMessages' = newMessages \cup [put : {p}, vs : {b.lead}, via : via]
    BY <2>1 DEF via
  <2>6. newMessages' \in SUBSET Message
    BY <2>4, <2>5
  <2> QED BY <1>3, <2>1, <2>2, <2>6 DEF GoodBody
<1> QED BY <1>1, <1>2, <1>3 DEF Server

LEMMA TypeMonitor ==
  ASSUME TypeOK, Monitor, due' \in SUBSET Puts
  PROVE  TypeOK'
<1> USE DEF TypeOK, asVars, messages, monitorVars, deviceVars
<1>1. CASE MonitorStarts
  BY <1>1 DEF MonitorStarts
<1>2. CASE DbReady
  BY <1>2 DEF DbReady, OnReady
<1>3. ASSUME NEW b \in Brokers, ConnReady(b) PROVE TypeOK'
  BY <1>3 DEF ConnReady, Link!Ready, Link!Moves, OnReady
<1>4. ASSUME NEW m \in newMessages, NEW b \in Brokers, BrokerSends(m, b) PROVE TypeOK'
  <2>1. [msg |-> m, on |-> b] \in [msg : Message, on : Brokers]
    OBVIOUS
  <2>2. sent' \in SUBSET [msg : Message, on : Brokers]
    BY <1>4, <2>1 DEF BrokerSends
  <2> QED BY <1>4, <2>2 DEF BrokerSends
<1>5. ASSUME NEW s \in sent, OnNewMessage(s) PROVE TypeOK'
  <2>1. \A m \in {s.msg} : [msg |-> m, state |-> "sent", nodes |-> {}] \in Lookup
    BY DEF Lookup
  <2>2. lookups' \in SUBSET Lookup
    BY <1>5, <2>1 DEF OnNewMessage
  <2> QED BY <1>5, <2>2 DEF OnNewMessage
<1>6. ASSUME NEW l \in lookups, OnApplicationData(l) PROVE TypeOK'
  <2>1. \A n \in l.nodes : n[1] \in Devices /\ n[2] \in Workers
    BY DEF Lookup
  <2>2. Pushed(Up) \subseteq Brokers
    BY PushedOne DEF Up
  <2>3. \A n \in l.nodes :
          [msg : {l.msg}, dev : {n[1]}, to : {n[2]}, via : Pushed(Up)]
            \subseteq [msg : Message, dev : Devices, to : Workers, via : Brokers]
    BY <2>1, <2>2 DEF Lookup
  <2>4. queue' \in SUBSET [msg : Message, dev : Devices, to : Workers, via : Brokers]
    BY <1>6, <2>3 DEF OnApplicationData
  <2> QED BY <1>6, <2>4 DEF OnApplicationData
<1> QED BY <1>1, <1>2, <1>3, <1>4, <1>5, <1>6 DEF Monitor

LEMMA TypeAnswers ==
  ASSUME TypeOK, NEW l \in lookups, NEW state \in {"sent", "nothing", "nodes"},
         NEW nodes \in SUBSET (Devices \X Workers), Answers(l, state, nodes),
         due' \in SUBSET Puts
  PROVE  TypeOK'
<1>1. [msg |-> l.msg, state |-> state, nodes |-> nodes] \in Lookup
  BY DEF TypeOK, Lookup
<1>2. lookups' \in SUBSET Lookup
  BY <1>1 DEF Answers, TypeOK
<1> QED BY <1>2 DEF Answers, TypeOK, asVars, monitorVars, deviceVars

LEMMA TypeLookups ==
  ASSUME TypeOK, NEW l \in lookups, Reads(l) \/ Throws(l) \/ Finds(l)
  PROVE  TypeOK'
<1>1. due' \in SUBSET Puts
  BY DueType DEF Reads, Throws, Finds
<1>2. CASE Reads(l)
  BY <1>1, <1>2, TypeAnswers DEF Reads, LookupReads
<1>3. CASE Throws(l)
  BY <1>1, <1>3 DEF Throws, OnNoApplicationData, MonitorEnds, TypeOK, asVars, deviceVars
<1>4. CASE Finds(l)
  <2>1. PICK found \in SUBSET {d \in Devices : node[d] # NoWorker} :
          Answers(l, "nodes", {<<d, node[d]>> : d \in found})
    BY <1>4 DEF Finds, LookupFinds
  <2>2. \A d \in found : <<d, node[d]>> \in Devices \X Workers
    BY DEF TypeOK
  <2>3. {<<d, node[d]>> : d \in found} \in SUBSET (Devices \X Workers)
    BY <2>2
  <2> QED BY <1>1, <2>1, <2>3, TypeAnswers
<1> QED BY <1>2, <1>3, <1>4

LEMMA TypeFrontEnd ==
  ASSUME TypeOK, FrontEnd, due' \in SUBSET Puts
  PROVE  TypeOK'
<1> USE DEF TypeOK, asVars, messages, monitorVars, deviceVars
<1>1. ASSUME NEW w \in Workers, WorkerListens(w) \/ WorkerCut(w) \/ WorkerExits(w)
      PROVE  TypeOK'
  <2>1. CASE WorkerExits(w)
    <3>1. session' = [d \in Devices |-> IF session[d] = w THEN NoWorker ELSE session[d]]
      BY <2>1 DEF WorkerExits, Docs!WorkerExits
    <3>2. UNCHANGED <<updates, node>>
      BY <2>1 DEF WorkerExits, Docs!WorkerExits
    <3> QED BY <2>1, <3>1, <3>2 DEF WorkerExits
  <2> QED BY <1>1, <2>1 DEF WorkerListens, WorkerCut
<1>2. ASSUME NEW m \in queue, OnWorkerMessage(m) PROVE TypeOK'
  <2>1. m.msg.put \in Puts /\ m.dev \in Devices /\ m.msg.vs \in 0..MaxVersion
    BY DEF Message
  <2>2. \A q \in Seq(0..MaxVersion) : Append(q, m.msg.vs) \in Seq(0..MaxVersion)
    BY <2>1
  <2>3. told' \in [Puts -> [Devices -> Seq(0..MaxVersion)]]
    BY <1>2, <2>1, <2>2 DEF OnWorkerMessage
  <2> QED BY <1>2, <2>3 DEF OnWorkerMessage
<1>3. ASSUME NEW d \in Devices, NEW w \in Workers, Hello(d, w) PROVE TypeOK'
  BY <1>3 DEF Hello, Docs!Hello, Docs!Free
<1>4. ASSUME NEW d \in Devices, Close(d) PROVE TypeOK'
  BY <1>4 DEF Close, Docs!Close
<1>5. ASSUME NEW d \in Devices, Update(d) PROVE TypeOK'
  <2>1. PICK s \in updates[d] : /\ updates' = [updates EXCEPT ![d] = @ \ {s}]
                                /\ node' \in {node, [node EXCEPT ![d] = s]}
    BY <1>5 DEF Update, Docs!UpdateEnds
  <2>2. s \in Workers \cup {NoWorker}
    OBVIOUS
  <2>3. updates' \in [Devices -> SUBSET (Workers \cup {NoWorker})]
    BY <2>1
  <2>4. node' \in [Devices -> Workers \cup {NoWorker}]
    BY <2>1, <2>2
  <2> QED BY <1>5, <2>3, <2>4 DEF Update, Docs!UpdateEnds
<1>6. ASSUME NEW d \in Devices, RegisterApplication(d) \/ UnregisterApplication(d)
      PROVE  TypeOK'
  BY <1>6 DEF RegisterApplication, UnregisterApplication
<1> QED BY <1>1, <1>2, <1>3, <1>4, <1>5, <1>6 DEF FrontEnd

LEMMA TypeFailure == TypeOK /\ Failure => TypeOK'
<1> SUFFICES ASSUME TypeOK, Failure PROVE TypeOK'
  OBVIOUS
<1> USE DEF TypeOK, asVars, messages, monitorVars, deviceVars
<1>1. ASSUME NEW b \in Brokers, ConnLost(b), Due(SentOn({b})) PROVE TypeOK'
  BY <1>1, DueType DEF ConnLost, Link!Fails, Link!Ends, Link!Moves, Lost
<1>2. ASSUME MonitorStops, Due(SentOn(Brokers)) PROVE TypeOK'
  BY <1>2, DueType DEF MonitorStops, Lost
<1>3. ASSUME MonitorExits, Due({p \in Puts : InMonitor(p)}) PROVE TypeOK'
  BY <1>3, DueType DEF MonitorExits, MonitorEnds
<1>4. ASSUME NEW l \in lookups, LookupFails(l), Due({l.msg.put}) PROVE TypeOK'
  BY <1>4, DueType DEF LookupFails
<1> QED BY <1>1, <1>2, <1>3, <1>4 DEF Failure

LEMMA TypeStep == TypeOK /\ [OpenNext]_vars => TypeOK'
<1>1. TypeOK /\ UNCHANGED vars => TypeOK'
  BY DEF TypeOK, vars, asVars, messages, monitorVars, deviceVars
<1>2. TypeOK /\ Moves => TypeOK'
  BY DueType, TypeServer, TypeMonitor, TypeFrontEnd DEF Moves
<1> QED BY <1>1, <1>2, TypeLookups, TypeFailure DEF OpenNext, Next, Calm

\* Every variable keeps its type: what is published is what isVersion accepts.
THEOREM TypeCorrect == OpenSpec => []TypeOK
  BY TypeInit, TypeStep, PTL DEF OpenSpec

\* What is shown of OpenSpec is shown of the code.
LEMMA CodeIsOpen == Spec => OpenSpec
<1>1. [Next]_vars => [OpenNext]_vars
  BY DEF OpenNext
<1> QED BY <1>1, PTL DEF Spec, OpenSpec

(***************************************************************************)
(* The deaf Monitor                                                        *)
(***************************************************************************)
\* onReady runs when the second of the two connections is there, once; so a
\* Monitor that is ready has both, and no 'connected' subscribes it again.
ReadyHasBoth == monitor = "ready" => dbReady /\ mbReady

LEMMA ReadyStep == ReadyHasBoth /\ [OpenNext]_vars => ReadyHasBoth'
<1> SUFFICES ASSUME ReadyHasBoth, [OpenNext]_vars PROVE ReadyHasBoth'
  OBVIOUS
<1> USE DEF ReadyHasBoth, monitorVars
<1>1. CASE Server
  BY <1>1 DEF Server, AsConnects, AsCut, AsExits, Request, BadBody, GoodBody
<1>2. CASE Monitor
  BY <1>2 DEF Monitor, MonitorStarts, DbReady, ConnReady, OnReady, BrokerSends,
              OnNewMessage, OnApplicationData
<1>3. CASE FrontEnd
  BY <1>3 DEF FrontEnd, WorkerListens, WorkerCut, WorkerExits, OnWorkerMessage, Hello,
              Close, Update, RegisterApplication, UnregisterApplication
<1>4. CASE Failure
  BY <1>4 DEF Failure, ConnLost, MonitorStops, MonitorExits, MonitorEnds, LookupFails
<1>5. ASSUME NEW l \in lookups, Reads(l) \/ Throws(l) \/ Finds(l)
      PROVE  ReadyHasBoth'
  BY <1>5 DEF Reads, LookupReads, Answers, Throws, OnNoApplicationData, MonitorEnds,
              Finds, LookupFinds
<1>6. CASE UNCHANGED vars
  BY <1>6 DEF vars
<1> QED BY <1>1, <1>2, <1>3, <1>4, <1>5, <1>6 DEF OpenNext, Next, Calm, Moves

LEMMA DeafStep == ReadyHasBoth /\ [OpenNext]_vars /\ Deaf => Deaf' \/ monitor' # "ready"
<1> SUFFICES ASSUME ReadyHasBoth, [OpenNext]_vars, Deaf, monitor' = "ready" PROVE sub' = {}
  BY DEF Deaf
<1> USE DEF Deaf, ReadyHasBoth, monitorVars
<1>1. CASE Server
  BY <1>1 DEF Server, AsConnects, AsCut, AsExits, Request, BadBody, GoodBody
<1>2. CASE Monitor
  BY <1>2 DEF Monitor, MonitorStarts, DbReady, ConnReady, BrokerSends,
              OnNewMessage, OnApplicationData
<1>3. CASE FrontEnd
  BY <1>3 DEF FrontEnd, WorkerListens, WorkerCut, WorkerExits, OnWorkerMessage, Hello,
              Close, Update, RegisterApplication, UnregisterApplication
<1>4. CASE Failure
  BY <1>4 DEF Failure, ConnLost, MonitorStops, MonitorExits, MonitorEnds, LookupFails
<1>5. ASSUME NEW l \in lookups, Reads(l) \/ Throws(l) \/ Finds(l)
      PROVE  sub' = {}
  BY <1>5 DEF Reads, LookupReads, Answers, Throws, OnNoApplicationData, MonitorEnds,
              Finds, LookupFinds
<1>6. CASE UNCHANGED vars
  BY <1>6 DEF vars
<1> QED BY <1>1, <1>2, <1>3, <1>4, <1>5, <1>6 DEF OpenNext, Next, Calm, Moves

\* Whatever connections become ready, a Monitor with no subscription left has
\* none until it is started again.
THEOREM DeafForGood == OpenSpec => DeafIsFinal
<1>1. Init => ReadyHasBoth
  BY DEF Init, ReadyHasBoth
<1>2. ReadyHasBoth /\ [OpenNext]_vars => [Deaf => Deaf' \/ monitor' # "ready"]_vars
  BY DeafStep
<1> QED BY <1>1, <1>2, ReadyStep, PTL DEF OpenSpec, DeafIsFinal

(***************************************************************************)
(* The refinement of Notification                                          *)
(***************************************************************************)
\* A message on its way: of what was accepted, and no device was told of it.
Untold(m) ==
  /\ version[m.put] = m.vs
  /\ \A d \in Devices : told[m.put][d] = <<>>
  /\ \A q \in queue : q.msg.put # m.put

\* A put has one message, which is in one place.
NewOne ==
  \A m \in newMessages :
    /\ Untold(m)
    /\ \A n \in newMessages : n.put = m.put => n = m
    /\ \A s \in sent : s.msg.put # m.put
    /\ \A l \in lookups : l.msg.put # m.put

SentOne ==
  \A s \in sent :
    /\ Untold(s.msg)
    /\ \A t \in sent : t.msg.put = s.msg.put => t = s
    /\ \A l \in lookups : l.msg.put # s.msg.put

LookupOne ==
  \A l \in lookups :
    /\ Untold(l.msg) /\ l.msg.vs # 0
    /\ \A k \in lookups : k.msg.put = l.msg.put => k = l
    /\ \A a, b \in l.nodes : a[1] = b[1] => a[2] = b[2]

\* Then it is in the queues of workers, once for each device.
QueueOne ==
  \A m \in queue :
    /\ version[m.msg.put] = m.msg.vs /\ m.msg.vs # 0
    /\ told[m.msg.put][m.dev] = <<>>
    /\ \A n \in queue : n.msg.put = m.msg.put /\ n.dev = m.dev => n = m

NotYet ==
  \A p \in Puts :
    /\ answer[p] \in {"none", "reading"} => version[p] = NoVersion
    /\ version[p] = NoVersion => \A d \in Devices : told[p][d] = <<>>

OneMessage == NewOne /\ SentOne /\ LookupOne /\ QueueOne /\ NotYet

LEMMA OneInit == Init => OneMessage
  BY DEF Init, OneMessage, NewOne, SentOne, LookupOne, QueueOne, NotYet

\* The steps that do no more than lose messages or refuse a put.
LEMMA OneLess ==
  ASSUME OneMessage, UNCHANGED <<version, told>>,
         newMessages' \subseteq newMessages, sent' \subseteq sent,
         lookups' \subseteq lookups, queue' \subseteq queue,
         \A p \in Puts : answer'[p] \in {"none", "reading"} => answer[p] \in {"none", "reading"}
  PROVE  OneMessage'
<1> USE DEF OneMessage, Untold
<1>1. NewOne'
  BY DEF NewOne
<1>2. SentOne'
  BY DEF SentOne
<1>3. LookupOne'
  BY DEF LookupOne
<1>4. QueueOne' /\ NotYet'
  BY DEF QueueOne, NotYet
<1> QED BY <1>1, <1>2, <1>3, <1>4

LEMMA OneServer == ASSUME TypeOK, OneMessage, Server PROVE OneMessage'
<1> USE DEF messages, asVars
<1>1. CASE AsConnects \/ AsCut \/ AsExits
  BY <1>1, OneLess DEF AsConnects, AsCut, AsExits
<1>2. ASSUME NEW p \in Puts, Request(p) \/ BadBody(p) PROVE OneMessage'
  <2>1. answer[p] \in {"none", "reading"}
    BY <1>2 DEF Request, BadBody
  <2>2. \A q \in Puts : q # p => answer'[q] = answer[q]
    BY <1>2 DEF Request, BadBody, TypeOK
  <2>3. UNCHANGED <<version, messages>>
    BY <1>2 DEF Request, BadBody
  <2> QED BY <2>1, <2>2, <2>3, OneLess
<1>3. ASSUME NEW p \in Puts, GoodBody(p) PROVE OneMessage'
  <2> DEFINE via == IF as = "ready" /\ declared THEN Pushed(Brokers) ELSE {}
  <2>1. PICK b \in Bodies :
          /\ IsVersion(b)
          /\ version' = [version EXCEPT ![p] = b.lead]
          /\ newMessages' = newMessages \cup [put : {p}, vs : {b.lead}, via : via]
    BY <1>3 DEF GoodBody
  <2>2. \A x, y \in via : x = y
    BY PushedOne
  <2> HIDE DEF via
  <2>3. b.lead \in Nat
    BY <2>1, BodiesType DEF Body, IsVersion, NotNat
  <2>4. /\ UNCHANGED <<sent, lookups, queue, told>>
        /\ answer[p] = "reading" /\ answer' = [answer EXCEPT ![p] = "accepted"]
    BY <1>3 DEF GoodBody
  <2>5. version[p] = NoVersion /\ \A d \in Devices : told[p][d] = <<>>
    BY <2>4 DEF OneMessage, NotYet
  <2>6. /\ \A m \in newMessages : m.put # p
        /\ \A s \in sent : s.msg.put # p
        /\ \A l \in lookups : l.msg.put # p
        /\ \A m \in queue : m.msg.put # p
    <3>1. /\ \A m \in newMessages : m.vs # NoVersion
          /\ \A s \in sent : s.msg.vs # NoVersion
          /\ \A l \in lookups : l.msg.vs # NoVersion
          /\ \A m \in queue : m.msg.vs # NoVersion
      BY NullValues, MaxVersionType DEF TypeOK, Message, Lookup
    <3> QED BY <2>5, <3>1 DEF OneMessage, NewOne, SentOne, LookupOne, QueueOne, Untold
  <2>7. \A m \in newMessages' \ newMessages : m.put = p /\ m.vs = b.lead /\ m.via \in via
    BY <2>1
  <2>8. \A m, n \in newMessages' \ newMessages : m = n
    BY <2>1, <2>2
  <2>9. /\ version'[p] = b.lead
        /\ \A q \in Puts : q # p => version'[q] = version[q] /\ answer'[q] = answer[q]
        /\ answer'[p] = "accepted"
    BY <2>1, <2>4 DEF TypeOK
  <2>10. /\ \A m \in newMessages : m.put \in Puts
         /\ \A s \in sent : s.msg.put \in Puts
         /\ \A l \in lookups : l.msg.put \in Puts
         /\ \A m \in queue : m.msg.put \in Puts
    BY DEF TypeOK, Message, Lookup
  <2>11. NewOne'
    <3>1. ASSUME NEW m \in newMessages', m \notin newMessages
          PROVE  /\ Untold(m)'
                 /\ \A n \in newMessages' : n.put = m.put => n = m
                 /\ \A s \in sent' : s.msg.put # m.put
                 /\ \A l \in lookups' : l.msg.put # m.put
      BY <3>1, <2>4, <2>5, <2>6, <2>7, <2>8, <2>9 DEF Untold
    <3>2. ASSUME NEW m \in newMessages
          PROVE  /\ Untold(m)'
                 /\ \A n \in newMessages' : n.put = m.put => n = m
                 /\ \A s \in sent' : s.msg.put # m.put
                 /\ \A l \in lookups' : l.msg.put # m.put
      BY <2>4, <2>6, <2>7, <2>9, <2>10 DEF Untold, OneMessage, NewOne
    <3> QED BY <3>1, <3>2 DEF NewOne
  <2>12. SentOne' /\ LookupOne'
    BY <2>4, <2>6, <2>9, <2>10 DEF OneMessage, SentOne, LookupOne, Untold
  <2>13. QueueOne' /\ NotYet'
    BY <2>3, <2>4, <2>6, <2>9, <2>10, NullValues DEF OneMessage, QueueOne, NotYet
  <2> QED BY <2>11, <2>12, <2>13 DEF OneMessage
<1> QED BY <1>1, <1>2, <1>3 DEF Server

LEMMA OneMonitor == ASSUME TypeOK, OneMessage, Monitor PROVE OneMessage'
<1> USE DEF messages, asVars
<1>1. CASE MonitorStarts
  BY <1>1, OneLess DEF MonitorStarts
<1>2. CASE DbReady
  BY <1>2, OneLess DEF DbReady
<1>3. ASSUME NEW b \in Brokers, ConnReady(b) PROVE OneMessage'
  BY <1>3, OneLess DEF ConnReady, Link!Ready, Link!Moves
<1>4. ASSUME NEW m \in newMessages, NEW b \in Brokers, BrokerSends(m, b) PROVE OneMessage'
  <2>1. /\ newMessages' = newMessages \ {m}
        /\ sent' = sent \cup {[msg |-> m, on |-> b]}
        /\ UNCHANGED <<answer, version, lookups, queue, told>>
    BY <1>4 DEF BrokerSends
  <2>2. NewOne' /\ SentOne'
    BY <2>1 DEF OneMessage, NewOne, SentOne, Untold
  <2>3. LookupOne' /\ QueueOne' /\ NotYet'
    BY <2>1 DEF OneMessage, LookupOne, QueueOne, NotYet, Untold
  <2> QED BY <2>2, <2>3 DEF OneMessage
<1>5. ASSUME NEW s \in sent, OnNewMessage(s) PROVE OneMessage'
  <2>1. /\ sent' = sent \ {s}
        /\ lookups' = lookups \cup
             {[msg |-> m, state |-> "sent", nodes |-> {}] : m \in {n \in {s.msg} : n.vs # 0}}
        /\ UNCHANGED <<answer, version, newMessages, queue, told>>
    BY <1>5 DEF OnNewMessage
  <2>2. \A l \in lookups' \ lookups :
          l.msg = s.msg /\ l.msg.vs # 0 /\ l = [msg |-> s.msg, state |-> "sent", nodes |-> {}]
    BY <2>1
  <2>3. NewOne' /\ SentOne'
    BY <2>1, <2>2 DEF OneMessage, NewOne, SentOne, Untold
  <2>4. LookupOne'
    <3>1. ASSUME NEW l \in lookups', l \notin lookups
          PROVE  /\ Untold(l.msg)' /\ l.msg.vs # 0
                 /\ \A k \in lookups' : k.msg.put = l.msg.put => k = l
                 /\ \A a, b \in l.nodes : a[1] = b[1] => a[2] = b[2]
      <4>1. l.msg = s.msg /\ l.msg.vs # 0 /\ l.nodes = {}
        BY <2>2, <3>1
      <4>2. Untold(s.msg)' /\ \A k \in lookups : k.msg.put # s.msg.put
        BY <2>1 DEF OneMessage, SentOne, Untold
      <4>3. \A k \in lookups' \ lookups : k = l
        BY <2>2, <3>1
      <4> QED BY <4>1, <4>2, <4>3 DEF Untold
    <3>2. ASSUME NEW l \in lookups
          PROVE  /\ Untold(l.msg)' /\ l.msg.vs # 0
                 /\ \A k \in lookups' : k.msg.put = l.msg.put => k = l
                 /\ \A a, b \in l.nodes : a[1] = b[1] => a[2] = b[2]
      BY <2>1, <2>2 DEF OneMessage, SentOne, LookupOne, Untold
    <3> QED BY <3>1, <3>2 DEF LookupOne
  <2>5. QueueOne' /\ NotYet'
    BY <2>1 DEF OneMessage, QueueOne, NotYet
  <2> QED BY <2>3, <2>4, <2>5 DEF OneMessage
<1>6. ASSUME NEW l \in lookups, OnApplicationData(l) PROVE OneMessage'
  <2>1. /\ lookups' = lookups \ {l}
        /\ UNCHANGED <<answer, version, newMessages, sent, told>>
    BY <1>6 DEF OnApplicationData
  <2>2. queue \subseteq queue'
    BY <1>6 DEF OnApplicationData
  <2>3. \A m \in queue' \ queue :
          /\ m.msg = l.msg /\ <<m.dev, m.to>> \in l.nodes /\ m.via \in Pushed(Up)
          /\ m = [msg |-> m.msg, dev |-> m.dev, to |-> m.to, via |-> m.via]
    <3>1. ASSUME NEW m \in queue', m \notin queue
          PROVE  \E n \in l.nodes :
                   m \in [msg : {l.msg}, dev : {n[1]}, to : {n[2]}, via : Pushed(Up)]
      BY <1>6, <3>1 DEF OnApplicationData
    <3>2. \A n \in l.nodes : n = <<n[1], n[2]>>
      BY DEF TypeOK, Lookup
    <3> QED BY <3>1, <3>2
  <2>4. Untold(l.msg) /\ l.msg.vs # 0 /\ \A a, b \in l.nodes : a[1] = b[1] => a[2] = b[2]
    BY DEF OneMessage, LookupOne
  <2>5. l.nodes \subseteq Devices \X Workers
    BY DEF TypeOK, Lookup
  <2>6. ASSUME NEW m \in queue' \ queue, NEW n \in queue' \ queue, m.dev = n.dev
        PROVE  m = n
    <3>1. m.to = n.to
      <4>1. \A x, y, z : <<x, y>> \in l.nodes /\ <<x, z>> \in l.nodes => y = z
        BY <2>4
      <4> QED BY <2>3, <2>6, <4>1
    <3>2. m.via = n.via
      BY <2>3, PushedOne
    <3> QED BY <2>3, <2>6, <3>1, <3>2
  <2>7. NewOne' /\ SentOne' /\ LookupOne'
    <3>1. ASSUME NEW m, Untold(m), m.put # l.msg.put PROVE Untold(m)'
      BY <2>1, <2>3, <3>1 DEF Untold
    <3>2. NewOne'
      BY <2>1, <3>1 DEF OneMessage, NewOne
    <3>3. SentOne'
      BY <2>1, <3>1 DEF OneMessage, SentOne
    <3>4. LookupOne'
      BY <2>1, <3>1 DEF OneMessage, LookupOne
    <3> QED BY <3>2, <3>3, <3>4
  <2>8. QueueOne'
    <3>1. ASSUME NEW m \in queue', m \notin queue
          PROVE  /\ version'[m.msg.put] = m.msg.vs /\ m.msg.vs # 0
                 /\ told'[m.msg.put][m.dev] = <<>>
                 /\ \A n \in queue' : n.msg.put = m.msg.put /\ n.dev = m.dev => n = m
      <4>1. m.dev \in Devices
        <5>1. <<m.dev, m.to>> \in Devices \X Workers
          BY <2>3, <2>5, <3>1
        <5> QED BY <5>1
      <4>2. \A n \in queue : n.msg.put # m.msg.put
        BY <2>3, <2>4, <3>1 DEF Untold
      <4>3. \A n \in queue' \ queue : n.dev = m.dev => n = m
        BY <2>6, <3>1
      <4>4. version[m.msg.put] = m.msg.vs /\ m.msg.vs # 0 /\ told[m.msg.put][m.dev] = <<>>
        BY <2>3, <2>4, <3>1, <4>1 DEF Untold
      <4> QED BY <2>1, <4>2, <4>3, <4>4
    <3>2. ASSUME NEW m \in queue
          PROVE  /\ version'[m.msg.put] = m.msg.vs /\ m.msg.vs # 0
                 /\ told'[m.msg.put][m.dev] = <<>>
                 /\ \A n \in queue' : n.msg.put = m.msg.put /\ n.dev = m.dev => n = m
      BY <2>1, <2>3, <2>4 DEF Untold, OneMessage, QueueOne
    <3> QED BY <3>1, <3>2 DEF QueueOne
  <2>9. NotYet'
    BY <2>1 DEF OneMessage, NotYet
  <2> QED BY <2>7, <2>8, <2>9 DEF OneMessage
<1> QED BY <1>1, <1>2, <1>3, <1>4, <1>5, <1>6 DEF Monitor

\* An answer names no device twice.
LEMMA OneAnswers ==
  ASSUME TypeOK, OneMessage, NEW l \in lookups, NEW state, NEW nodes,
         \A a, b \in nodes : a[1] = b[1] => a[2] = b[2],
         Answers(l, state, nodes)
  PROVE  OneMessage'
<1> USE DEF messages, asVars
<1> DEFINE k == [msg |-> l.msg, state |-> state, nodes |-> nodes]
<1>1. /\ lookups' = (lookups \ {l}) \cup {k}
      /\ UNCHANGED <<answer, version, newMessages, sent, queue, told>>
  BY DEF Answers
<1>2. k.msg = l.msg /\ k.nodes = nodes
  OBVIOUS
<1> HIDE DEF k
<1>3. NewOne' /\ SentOne'
  BY <1>1, <1>2 DEF OneMessage, NewOne, SentOne, Untold
<1>4. LookupOne'
  BY <1>1, <1>2 DEF OneMessage, LookupOne, Untold
<1>5. QueueOne' /\ NotYet'
  BY <1>1 DEF OneMessage, QueueOne, NotYet
<1> QED BY <1>3, <1>4, <1>5 DEF OneMessage

LEMMA OneLookups ==
  ASSUME TypeOK, OneMessage, NEW l \in lookups, Reads(l) \/ Throws(l) \/ Finds(l)
  PROVE  OneMessage'
<1>1. CASE Reads(l)
  BY <1>1, OneAnswers DEF Reads, LookupReads
<1>2. CASE Throws(l)
  BY <1>2, OneLess DEF Throws, OnNoApplicationData, MonitorEnds, asVars
<1>3. CASE Finds(l)
  <2>1. PICK found \in SUBSET {d \in Devices : node[d] # NoWorker} :
          Answers(l, "nodes", {<<d, node[d]>> : d \in found})
    BY <1>3 DEF Finds, LookupFinds
  <2>2. \A a, b \in {<<d, node[d]>> : d \in found} : a[1] = b[1] => a[2] = b[2]
    OBVIOUS
  <2> QED BY <2>1, <2>2, OneAnswers
<1> QED BY <1>1, <1>2, <1>3

LEMMA OneFrontEnd == ASSUME TypeOK, OneMessage, FrontEnd PROVE OneMessage'
<1> USE DEF messages, asVars
<1>1. ASSUME NEW w \in Workers, WorkerListens(w) \/ WorkerCut(w) \/ WorkerExits(w)
      PROVE  OneMessage'
  BY <1>1, OneLess DEF WorkerListens, WorkerCut, WorkerExits
<1>2. ASSUME NEW m \in queue, OnWorkerMessage(m) PROVE OneMessage'
  <2>1. /\ queue' = queue \ {m}
        /\ UNCHANGED <<answer, version, newMessages, sent, lookups>>
    BY <1>2 DEF OnWorkerMessage
  <2>2. m.msg.put \in Puts /\ m.dev \in Devices
    BY DEF TypeOK, Message
  <2>3. \A p \in Puts : \A d \in Devices :
          p # m.msg.put \/ d # m.dev => told'[p][d] = told[p][d]
    BY <1>2, <2>2 DEF OnWorkerMessage, TypeOK
  <2>4. /\ \A n \in newMessages : n.put \in Puts
        /\ \A s \in sent : s.msg.put \in Puts
        /\ \A l \in lookups : l.msg.put \in Puts
        /\ \A q \in queue : q.msg.put \in Puts /\ q.dev \in Devices
    BY DEF TypeOK, Message, Lookup
  <2>5. ASSUME NEW n, n.put \in Puts, Untold(n) PROVE Untold(n)'
    <3>1. n.put # m.msg.put
      BY <2>5 DEF Untold
    <3> QED BY <2>1, <2>3, <2>5, <3>1 DEF Untold
  <2>6. NewOne'
    BY <2>1, <2>4, <2>5 DEF OneMessage, NewOne
  <2>7. SentOne'
    BY <2>1, <2>4, <2>5 DEF OneMessage, SentOne
  <2>8. LookupOne'
    BY <2>1, <2>4, <2>5 DEF OneMessage, LookupOne
  <2>9. QueueOne'
    BY <2>1, <2>3, <2>4 DEF OneMessage, QueueOne
  <2>10. version[m.msg.put] # NoVersion
    BY NullValues, MaxVersionType DEF OneMessage, QueueOne, TypeOK, Message
  <2>11. NotYet'
    BY <2>1, <2>2, <2>3, <2>10 DEF OneMessage, NotYet
  <2> QED BY <2>6, <2>7, <2>8, <2>9, <2>11 DEF OneMessage
<1>3. ASSUME NEW d \in Devices, NEW w \in Workers, Hello(d, w) PROVE OneMessage'
  BY <1>3, OneLess DEF Hello
<1>4. ASSUME NEW d \in Devices, Close(d) \/ Update(d) PROVE OneMessage'
  BY <1>4, OneLess DEF Close, Update
<1>5. ASSUME NEW d \in Devices, RegisterApplication(d) \/ UnregisterApplication(d)
      PROVE  OneMessage'
  BY <1>5, OneLess DEF RegisterApplication, UnregisterApplication
<1> QED BY <1>1, <1>2, <1>3, <1>4, <1>5 DEF FrontEnd

LEMMA OneFailure == ASSUME OneMessage, Failure PROVE OneMessage'
<1> USE DEF asVars, messages
<1>1. ASSUME NEW b \in Brokers, ConnLost(b) PROVE OneMessage'
  BY <1>1, OneLess DEF ConnLost, Link!Fails, Link!Ends, Link!Moves, Lost
<1>2. CASE MonitorStops
  BY <1>2, OneLess DEF MonitorStops, Lost
<1>3. CASE MonitorExits
  BY <1>3, OneLess DEF MonitorExits, MonitorEnds
<1>4. ASSUME NEW l \in lookups, LookupFails(l) PROVE OneMessage'
  BY <1>4, OneLess DEF LookupFails
<1> QED BY <1>1, <1>2, <1>3, <1>4 DEF Failure

LEMMA OneStep == TypeOK /\ OneMessage /\ [OpenNext]_vars => OneMessage'
<1>1. OneMessage /\ UNCHANGED vars => OneMessage'
  BY OneLess DEF vars, asVars, messages
<1> QED BY <1>1, OneServer, OneMonitor, OneFrontEnd, OneLookups, OneFailure
        DEF OpenNext, Next, Calm, Moves

\* A step of the pipeline accepts a version, tells a device, or does neither.
LEMMA RefinementStep ==
  TypeOK /\ OneMessage /\ [OpenNext]_vars => [N!Next]_<<version, told>>
<1> SUFFICES ASSUME TypeOK, OneMessage, [OpenNext]_vars
             PROVE  N!Next \/ UNCHANGED <<version, told>>
  OBVIOUS
<1> USE DEF asVars, messages
<1>1. CASE Server
  <2>1. ASSUME NEW p \in Puts, GoodBody(p) PROVE N!Next
    <3>1. PICK b \in Bodies : IsVersion(b) /\ version' = [version EXCEPT ![p] = b.lead]
      BY <2>1 DEF GoodBody
    <3>2. b.lead \in 0..MaxVersion
      BY <3>1, BodiesType, MaxVersionType DEF Body, IsVersion, NotNat
    <3>3. version[p] = NoVersion /\ UNCHANGED told
      BY <2>1 DEF GoodBody, OneMessage, NotYet
    <3>4. N!Accept(p, b.lead)
      BY <3>1, <3>3 DEF N!Accept
    <3> QED BY <3>2, <3>4 DEF N!Next
  <2> QED BY <1>1, <2>1 DEF Server, AsConnects, AsCut, AsExits, Request, BadBody
<1>2. CASE Monitor
  BY <1>2 DEF Monitor, MonitorStarts, DbReady, ConnReady, BrokerSends,
              OnNewMessage, OnApplicationData
<1>3. CASE FrontEnd
  <2>1. ASSUME NEW m \in queue, OnWorkerMessage(m)
        PROVE  N!Next \/ UNCHANGED <<version, told>>
    <3>1. CASE session[m.dev] # m.to
      BY <2>1, <3>1 DEF OnWorkerMessage
    <3>2. CASE session[m.dev] = m.to
      <4> DEFINE p == m.msg.put
                 d == m.dev
      <4>1. p \in Puts /\ d \in Devices /\ m.msg.vs \in 0..MaxVersion
        BY DEF TypeOK, Message
      <4>2. version[p] = m.msg.vs /\ version[p] # 0 /\ told[p][d] = <<>>
        BY DEF OneMessage, QueueOne
      <4>3. version[p] # NoVersion
        BY <4>1, <4>2, NullValues, MaxVersionType
      <4>4. told' = [told EXCEPT ![p][d] = Append(told[p][d], version[p])] /\ UNCHANGED version
        BY <2>1, <3>2, <4>2 DEF OnWorkerMessage
      <4>5. Append(told[p][d], version[p]) = <<version[p]>>
        BY <4>2
      <4>6. N!Tell(p, d)
        BY <4>2, <4>3, <4>4, <4>5 DEF N!Tell
      <4> QED BY <4>1, <4>6 DEF N!Next
    <3> QED BY <3>1, <3>2
  <2> QED BY <1>3, <2>1 DEF FrontEnd, WorkerListens, WorkerCut, WorkerExits, Hello,
                            Close, Update, RegisterApplication, UnregisterApplication
<1>4. CASE Failure
  BY <1>4 DEF Failure, ConnLost, MonitorStops, MonitorExits, MonitorEnds, LookupFails
<1>5. ASSUME NEW l \in lookups, Reads(l) \/ Throws(l) \/ Finds(l)
      PROVE  N!Next \/ UNCHANGED <<version, told>>
  BY <1>5 DEF Reads, LookupReads, Answers, Throws, OnNoApplicationData, MonitorEnds,
              Finds, LookupFinds
<1>6. CASE UNCHANGED vars
  BY <1>6 DEF vars
<1> QED BY <1>1, <1>2, <1>3, <1>4, <1>5, <1>6 DEF OpenNext, Next, Calm, Moves

\* The pipeline implements Notification: a device is told of a version once at
\* most, of what was accepted, and never of version 0.
THEOREM ImplementsNotification == OpenSpec => RefinesNotification
<1>1. Init => N!Init
  BY DEF Init, N!Init
<1> QED BY <1>1, TypeInit, TypeStep, OneInit, OneStep, RefinementStep, PTL
        DEF OpenSpec, RefinesNotification, N!Spec

(***************************************************************************)
(* What is due waits for its lookup                                        *)
(***************************************************************************)
\* Where the message of a put is, before its lookup is answered.
Waits(p) == \/ \E m \in newMessages : m.put = p
            \/ \E s \in sent : s.msg.put = p
            \/ \E l \in lookups : l.msg.put = p /\ l.state = "sent"

\* The invariant: a due put waits, and was accepted with a version that is looked up.
Kept == \A p \in due : version[p] \notin {NoVersion, 0} /\ Waits(p)

\* What is due after a step was before, or is accepted by it, and did not fail.
LEMMA DueAfter ==
  ASSUME NEW gone, Due(gone), NEW p \in due'
  PROVE  /\ p \in Puts /\ p \notin gone
         /\ \/ p \in due
            \/ /\ version[p] = NoVersion /\ version'[p] \notin {NoVersion, 0}
               /\ as = "ready" /\ declared
  BY DEF Due

LEMMA AcceptedOnce ==
  ASSUME TypeOK, OneMessage, [OpenNext]_vars, NEW p \in Puts, version[p] # NoVersion
  PROVE  version'[p] = version[p]
<1>1. [N!Next]_<<version, told>>
  BY RefinementStep
<1> QED BY <1>1 DEF N!Next, N!Accept, N!Tell, TypeOK

\* The application server adds the message of what it accepts.
LEMMA KeptServer ==
  ASSUME TypeOK, Kept, Server, Due({}), NEW p \in due'
  PROVE  Waits(p)'
<1> USE DEF messages, Waits
<1>1. UNCHANGED <<sent, lookups>> /\ newMessages \subseteq newMessages'
  BY DEF Server, AsConnects, AsCut, AsExits, Request, BadBody, GoodBody
<1>2. CASE p \in due
  BY <1>1, <1>2 DEF Kept
<1>3. CASE p \notin due
  <2>1. /\ p \in Puts /\ version[p] = NoVersion /\ version'[p] # NoVersion
        /\ as = "ready" /\ declared
    BY <1>3, DueAfter
  <2>2. PICK q \in Puts : GoodBody(q)
    BY <2>1 DEF Server, AsConnects, AsCut, AsExits, Request, BadBody, asVars
  <2>3. q = p
    BY <2>1, <2>2 DEF GoodBody, TypeOK
  <2>4. PICK b \in Bodies :
          newMessages' = newMessages \cup [put : {p}, vs : {b.lead}, via : Pushed(Brokers)]
    BY <2>1, <2>2, <2>3 DEF GoodBody
  <2>5. PICK via \in Pushed(Brokers) : TRUE
    BY PushedOne, SomeBroker
  <2>6. [put |-> p, vs |-> b.lead, via |-> via] \in newMessages'
    BY <2>4, <2>5
  <2> QED BY <2>6
<1> QED BY <1>2, <1>3

\* The Monitor moves it on: its version is not 0, and a lookup that is handled
\* was answered.
LEMMA KeptMonitor ==
  ASSUME TypeOK, OneMessage, Kept, Monitor, NEW p \in due
  PROVE  Waits(p)'
<1> USE DEF messages, Waits
<1>1. Waits(p) /\ version[p] # 0
  BY DEF Kept
<1>2. CASE MonitorStarts \/ DbReady \/ \E b \in Brokers : ConnReady(b)
  BY <1>1, <1>2 DEF MonitorStarts, DbReady, ConnReady
<1>3. ASSUME NEW m \in newMessages, NEW b \in Brokers, BrokerSends(m, b)
      PROVE  Waits(p)'
  <2>1. m.put = p => [msg |-> m, on |-> b] \in sent' /\ [msg |-> m, on |-> b].msg.put = p
    BY <1>3 DEF BrokerSends
  <2> QED BY <1>1, <1>3, <2>1 DEF BrokerSends
<1>4. ASSUME NEW s \in sent, OnNewMessage(s) PROVE Waits(p)'
  <2>1. ASSUME s.msg.put = p
        PROVE  \E l \in lookups' : l.msg.put = p /\ l.state = "sent"
    <3>1. s.msg.vs # 0
      BY <1>1, <2>1 DEF OneMessage, SentOne, Untold
    <3>2. [msg |-> s.msg, state |-> "sent", nodes |-> {}] \in lookups'
      BY <1>4, <3>1 DEF OnNewMessage
    <3> QED BY <2>1, <3>2
  <2>2. UNCHANGED newMessages /\ lookups \subseteq lookups' /\ sent' = sent \ {s}
    BY <1>4 DEF OnNewMessage
  <2> QED BY <1>1, <2>1, <2>2
<1>5. ASSUME NEW l \in lookups, OnApplicationData(l) PROVE Waits(p)'
  BY <1>1, <1>5 DEF OnApplicationData
<1> QED BY <1>2, <1>3, <1>4, <1>5 DEF Monitor

\* No worker or device touches it.
LEMMA KeptFrontEnd == ASSUME Kept, FrontEnd, NEW p \in due PROVE Waits(p)'
  BY DEF Kept, Waits, FrontEnd, WorkerListens, WorkerCut, WorkerExits, OnWorkerMessage,
         Hello, Close, Update, RegisterApplication, UnregisterApplication, messages

\* An answer ends what is due of its own put.
LEMMA KeptLookups ==
  ASSUME TypeOK, Kept, NEW l \in lookups, Reads(l) \/ Throws(l) \/ Finds(l),
         NEW p \in due', p \in due
  PROVE  Waits(p)'
<1> USE DEF Waits
<1>1. Waits(p)
  BY DEF Kept
<1>2. ASSUME NEW state, NEW nodes, Answers(l, state, nodes), Due({l.msg.put})
      PROVE  Waits(p)'
  <2>1. p # l.msg.put
    BY <1>2, DueAfter
  <2> QED BY <1>1, <1>2, <2>1 DEF Answers
<1>3. CASE Throws(l)
  <2>1. p \in Puts /\ p \notin {q \in Puts : InMonitor(q)}
    BY <1>3, DueAfter DEF Throws
  <2>2. ~InMonitor(p)
    BY <2>1
  <2> QED BY <1>1, <1>3, <2>2 DEF Throws, OnNoApplicationData, MonitorEnds, InMonitor
<1> QED BY <1>2, <1>3 DEF Reads, LookupReads, Finds, LookupFinds

\* A failure ends what is due of the puts it fails, and loses no other message.
LEMMA KeptFailure ==
  ASSUME TypeOK, Kept, Failure, NEW p \in due', p \in due
  PROVE  Waits(p)'
<1> USE DEF Waits
<1>1. Waits(p)
  BY DEF Kept
<1>2. ASSUME NEW b \in Brokers, ConnLost(b), Due(SentOn({b})) PROVE Waits(p)'
  <2>1. p \notin SentOn({b})
    BY <1>2, DueAfter
  <2> QED BY <1>1, <1>2, <2>1 DEF ConnLost, Lost, SentOn
<1>3. ASSUME MonitorStops, Due(SentOn(Brokers)) PROVE Waits(p)'
  <2>1. p \notin SentOn(Brokers)
    BY <1>3, DueAfter
  <2>2. \A s \in sent : s.msg.put # p
    BY <2>1 DEF SentOn, TypeOK
  <2> QED BY <1>1, <1>3, <2>2 DEF MonitorStops
<1>4. ASSUME MonitorExits, Due({q \in Puts : InMonitor(q)}) PROVE Waits(p)'
  <2>1. p \in Puts /\ p \notin {q \in Puts : InMonitor(q)}
    BY <1>4, DueAfter
  <2>2. ~InMonitor(p)
    BY <2>1
  <2> QED BY <1>1, <1>4, <2>2 DEF MonitorExits, MonitorEnds, InMonitor
<1>5. ASSUME NEW l \in lookups, LookupFails(l), Due({l.msg.put}) PROVE Waits(p)'
  <2>1. p # l.msg.put
    BY <1>5, DueAfter
  <2> QED BY <1>1, <1>5, <2>1 DEF LookupFails
<1> QED BY <1>2, <1>3, <1>4, <1>5 DEF Failure

LEMMA KeptStep == TypeOK /\ OneMessage /\ Kept /\ [OpenNext]_vars => Kept'
<1> SUFFICES ASSUME TypeOK, OneMessage, Kept, [OpenNext]_vars PROVE Kept'
  OBVIOUS
<1>1. CASE UNCHANGED vars
  BY <1>1 DEF vars, asVars, messages, Kept, Waits
<1>2. CASE OpenNext
  <2>1. PICK gone : Due(gone)
    BY <1>2 DEF OpenNext, Next, Calm, Moves, Reads, Throws, Finds, Failure
  <2>2. ASSUME NEW p \in due' PROVE version'[p] \notin {NoVersion, 0}
    <3>1. p \in due => version'[p] = version[p]
      BY <2>1, DueAfter, AcceptedOnce DEF Kept
    <3> QED BY <2>1, <3>1, DueAfter DEF Kept
  <2>3. ASSUME NEW p \in due' PROVE Waits(p)'
    <3>1. CASE Server /\ Due({})
      BY <3>1, KeptServer
    <3>2. CASE ~(Server /\ Due({}))
      <4>1. UNCHANGED version
        BY <1>2, <3>2 DEF OpenNext, Next, Calm, Moves, Monitor, MonitorStarts, DbReady,
           ConnReady, BrokerSends, OnNewMessage, OnApplicationData, FrontEnd,
           WorkerListens, WorkerCut, WorkerExits, OnWorkerMessage, Hello, Close, Update,
           RegisterApplication, UnregisterApplication, Reads, LookupReads, Answers,
           Throws, OnNoApplicationData, MonitorEnds, Finds, LookupFinds, Failure,
           ConnLost, MonitorStops, MonitorExits, LookupFails, asVars
      <4>2. p \in due
        BY <2>1, <4>1, DueAfter
      <4> QED BY <1>2, <3>2, <4>2, KeptMonitor, KeptFrontEnd, KeptLookups, KeptFailure
              DEF OpenNext, Next, Calm, Moves
    <3> QED BY <3>1, <3>2
  <2> QED BY <2>2, <2>3 DEF Kept
<1> QED BY <1>1, <1>2

\* A version that is due waits in newMessages or with the Monitor until its lookup
\* is answered or a failure that takes it, through any restart of the Monitor.
THEOREM DueWaits == OpenSpec => []WaitsForLookup
<1>1. Init => Kept
  BY DEF Init, Kept
<1>2. Kept => WaitsForLookup
  BY DEF Kept, Waits, WaitsForLookup
<1> QED BY <1>1, <1>2, TypeInit, TypeStep, OneInit, OneStep, KeptStep, PTL DEF OpenSpec

(***************************************************************************)
(* With the lookup as it is                                                *)
(***************************************************************************)
NobodyTold == \A p \in Puts, d \in Devices : told[p][d] = <<>>

\* No lookup is answered with nodes, so no worker has a message.
NoneFound == (\A l \in lookups : l.state # "nodes") /\ queue = {} /\ NobodyTold

LEMMA NoneStep == TypeOK /\ NoneFound /\ [Next]_vars => NoneFound'
<1> SUFFICES ASSUME TypeOK, NoneFound, [Next]_vars PROVE NoneFound'
  OBVIOUS
<1> USE DEF NoneFound, NobodyTold, messages
<1>1. CASE Server
  BY <1>1 DEF Server, AsConnects, AsCut, AsExits, Request, BadBody, GoodBody
<1>2. CASE Monitor
  <2>1. ASSUME NEW s \in sent, OnNewMessage(s) PROVE NoneFound'
    <3>1. \A l \in lookups' \ lookups : l.state = "sent"
      BY <2>1 DEF OnNewMessage
    <3> QED BY <2>1, <3>1 DEF OnNewMessage
  <2> QED BY <1>2, <2>1 DEF Monitor, MonitorStarts, DbReady, ConnReady, BrokerSends,
                            OnApplicationData
<1>3. CASE FrontEnd
  BY <1>3 DEF FrontEnd, WorkerListens, WorkerCut, WorkerExits, OnWorkerMessage, Hello,
              Close, Update, RegisterApplication, UnregisterApplication
<1>4. CASE Failure
  BY <1>4 DEF Failure, ConnLost, MonitorStops, MonitorExits, MonitorEnds, LookupFails
<1>5. ASSUME NEW l \in lookups, Reads(l) PROVE NoneFound'
  <2> DEFINE k == [msg |-> l.msg, state |-> "nothing", nodes |-> {}]
  <2>1. lookups' = (lookups \ {l}) \cup {k} /\ UNCHANGED <<queue, told>>
    BY <1>5 DEF Reads, LookupReads, Answers
  <2>2. k.state = "nothing"
    BY DEF TypeOK, Lookup
  <2> QED BY <2>1, <2>2
<1>6. ASSUME NEW l \in lookups, Throws(l) PROVE NoneFound'
  BY <1>6 DEF Throws, OnNoApplicationData, MonitorEnds
<1>7. CASE UNCHANGED vars
  BY <1>7 DEF vars
<1> QED BY <1>1, <1>2, <1>3, <1>4, <1>5, <1>6, <1>7 DEF Next, Calm, Moves

\* The lookup of nodes by the application's token finds none, so no device is
\* ever told of a version, whatever was accepted and whoever can be reached.
THEOREM NobodyIsTold == Spec => []NobodyTold
<1>1. Init => NoneFound
  BY DEF Init, NoneFound, NobodyTold
<1>2. Spec => []TypeOK
  BY CodeIsOpen, TypeCorrect, PTL
<1>3. NoneFound => NobodyTold
  BY DEF NoneFound
<1> QED BY <1>1, <1>2, <1>3, NoneStep, PTL DEF Spec
================================================================================
