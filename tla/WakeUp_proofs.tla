---------------------------- MODULE WakeUp_proofs ----------------------------
(* Proofs about WakeUp: its type invariant, that the cache of networks holds  *)
(* nothing from before its last reset but what a lookup brought back, and     *)
(* that no message asks a wake-up server that the cache could not name.       *)
EXTENDS WakeUp, TLAPS

\* What a lookup can be, and what its fields are then.
LEMMA LookupFields ==
  ASSUME NEW k \in LookupState
  PROVE  /\ k.stage \in {"idle", "sent", "read"}
         /\ k = Idle <=> k.stage = "idle"
         /\ k.stage # "idle" => k.net \in Networks
         /\ k.stage = "sent" => [stage |-> "read", net |-> k.net] # Idle
         /\ k.stage = "read" => k.value \in Document
  BY DEF LookupState, Idle

LEMMA IdleType == Idle \in LookupState
  BY DEF LookupState

LEMMA TypeInit == Init => WakeUpTypeOK
<1> SUFFICES ASSUME Init PROVE WakeUpTypeOK
  OBVIOUS
<1>1. operators \in [Networks -> Document] /\ cache \in [Networks -> Document]
  BY DEF Init, NetworkInit, Document
<1>2. since \in [Networks -> SUBSET Document]
  BY <1>1 DEF Init, NetworkInit
<1>3. lookup \in [Lookups -> LookupState]
  BY IdleType DEF Init, NetworkInit
<1>4. NetworkTypeOK
  BY <1>1, <1>2, <1>3 DEF Init, NetworkInit, NetworkTypeOK
<1> QED BY <1>4 DEF Init, WakeUpTypeOK, NotRead

(***************************************************************************)
(* The types                                                               *)
(***************************************************************************)
LEMMA TypeNetwork == WakeUpTypeOK /\ Network => WakeUpTypeOK'
<1> SUFFICES ASSUME WakeUpTypeOK, Network PROVE WakeUpTypeOK'
  OBVIOUS
<1> USE DEF WakeUpTypeOK, NetworkTypeOK, Network
<1>r. ResetCache => /\ cache' \in [Networks -> Document]
                    /\ since' \in [Networks -> SUBSET Document]
                    /\ tainted' \in SUBSET Networks
  BY DEF ResetCache, Document
<1>1. CASE InitNetwork
  BY <1>1, <1>r DEF InitNetwork
<1>2. CASE Reset
  BY <1>2, <1>r DEF Reset
<1>3. CASE Connected
  BY <1>3 DEF Connected
<1>4. CASE Closed
  BY <1>4 DEF Closed
<1>5. ASSUME NEW n \in Networks, NEW o \in Document, ChangeOperator(n, o)
      PROVE  WakeUpTypeOK'
  BY <1>5 DEF ChangeOperator
<1> QED BY <1>1, <1>2, <1>3, <1>4, <1>5

LEMMA NetType == ASSUME NEW p \in Lookups PROVE Net(p) \in Networks
  BY WakeUpConstants DEF Net

LEMMA TypeMessage ==
  ASSUME NEW p \in Lookups, WakeUpTypeOK,
         \/ OnNewMessageHit(p) \/ OnNewMessageMiss(p) \/ NetworkExecutes(p)
         \/ NetworkReturns(p) \/ NetworkFails(p) \/ RequestEnds(p)
  PROVE  WakeUpTypeOK'
<1> USE DEF WakeUpTypeOK, NetworkTypeOK
<1>k. lookup[p] \in LookupState
  OBVIOUS
<1>1. CASE OnNewMessageHit(p)
  <2>1. ping' \in [Lookups -> {"free", "queued", "failed"} \cup Servers]
    BY <1>1 DEF OnNewMessageHit, OnNetwork
  <2> QED BY <1>1, <2>1 DEF OnNewMessageHit, Hit, networkVars
<1>2. CASE OnNewMessageMiss(p)
  <2>1. [stage |-> "sent", net |-> Net(p)] \in LookupState
    BY NetType DEF LookupState
  <2> QED BY <1>2, <2>1 DEF OnNewMessageMiss, Miss
<1>3. CASE NetworkExecutes(p)
  <2>1. lookup[p].net \in Networks
    BY <1>3, <1>k, LookupFields DEF NetworkExecutes, Executes
  <2>2. [stage |-> "read", net |-> lookup[p].net, value |-> operators[lookup[p].net]] \in LookupState
    BY <2>1 DEF LookupState
  <2> QED BY <1>3, <2>2 DEF NetworkExecutes, Executes
<1>4. CASE NetworkReturns(p)
  <2>1. lookup[p].net \in Networks /\ lookup[p].value \in Document
    BY <1>4, <1>k, LookupFields DEF NetworkReturns, Returns
  <2> QED BY <1>4, <2>1, IdleType DEF NetworkReturns, Returns, OnNetwork
<1>5. CASE NetworkFails(p)
  BY <1>5, IdleType DEF NetworkFails, Fails
<1>6. CASE RequestEnds(p)
  BY <1>6 DEF RequestEnds, networkVars
<1> QED BY <1>1, <1>2, <1>3, <1>4, <1>5, <1>6

LEMMA TypeStep == WakeUpTypeOK /\ [Next]_vars => WakeUpTypeOK'
<1> SUFFICES ASSUME WakeUpTypeOK, [Next]_vars PROVE WakeUpTypeOK'
  OBVIOUS
<1>1. CASE Network
  BY <1>1, TypeNetwork
<1>2. ASSUME NEW d \in Devices, Connect(d) \/ FallAsleep(d) \/ NewVersion(d) \/ Ack(d)
      PROVE  WakeUpTypeOK'
  BY <1>2 DEF Connect, FallAsleep, NewVersion, Ack, WakeUpTypeOK, NetworkTypeOK, networkVars
<1>3. CASE RetryReads
  BY <1>3 DEF RetryReads, WakeUpTypeOK, NetworkTypeOK, networkVars
<1>4. CASE RetryFails \/ RetryPushes
  <2>1. retry' \in [read : BOOLEAN, nodes : SUBSET Devices]
    <3>1. retry' = NotRead
      BY <1>4 DEF RetryFails, RetryPushes
    <3>2. NotRead \in [read : BOOLEAN, nodes : SUBSET Devices]
      BY DEF NotRead
    <3> QED BY <3>1, <3>2
  <2>2. ping' \in [Lookups -> {"free", "queued", "failed"} \cup Servers]
    BY <1>4 DEF RetryFails, RetryPushes, WakeUpTypeOK
  <2>3. UNCHANGED <<networkVars, device, unacked, udp>>
    BY <1>4 DEF RetryFails, RetryPushes
  <2> QED BY <2>1, <2>2, <2>3 DEF WakeUpTypeOK, NetworkTypeOK, networkVars
<1>5. CASE UdpListens \/ UdpCut
  BY <1>5 DEF UdpListens, UdpCut, WakeUpTypeOK, NetworkTypeOK, networkVars
<1>6. ASSUME NEW p \in Lookups,
             \/ OnNewMessageHit(p) \/ OnNewMessageMiss(p) \/ NetworkExecutes(p)
             \/ NetworkReturns(p) \/ NetworkFails(p) \/ RequestEnds(p)
      PROVE  WakeUpTypeOK'
  BY <1>6, TypeMessage
<1>7. CASE UNCHANGED vars
  BY <1>7 DEF vars, networkVars, WakeUpTypeOK, NetworkTypeOK
<1> QED BY <1>1, <1>2, <1>3, <1>4, <1>5, <1>6, <1>7 DEF Next

\* Every variable keeps its type: only operators that have a wake-up server are
\* ever asked, whatever the documents hold.
THEOREM TypeCorrect == Spec => []WakeUpTypeOK
  BY TypeInit, TypeStep, PTL DEF Spec

(***************************************************************************)
(* The freshness of the cache                                              *)
(***************************************************************************)
\* A lookup is of the network of its message, and what it has read is fresh as
\* what is cached is; so is what the documents are now.
LookupFresh ==
  \A p \in Lookups :
    /\ lookup[p].stage # "idle" => lookup[p].net = Net(p)
    /\ lookup[p].stage = "read" =>
         lookup[p].value \in since[Net(p)] \/ Net(p) \in tainted

DocumentsFresh == \A n \in Networks : operators[n] \in since[n]

Fresh == WakeUpTypeOK /\ CacheFresh /\ LookupFresh /\ DocumentsFresh

LEMMA FreshInit == Init => Fresh
  BY TypeInit DEF Init, NetworkInit, Fresh, CacheFresh, LookupFresh, DocumentsFresh, Idle

LEMMA FreshNetwork == Fresh /\ Network => Fresh'
<1> SUFFICES ASSUME Fresh, Network PROVE Fresh'
  OBVIOUS
<1>t. WakeUpTypeOK'
  BY TypeNetwork DEF Fresh
<1> USE DEF CacheFresh, LookupFresh, DocumentsFresh
<1>r. ASSUME ResetCache, UNCHANGED <<operators, lookup>>
      PROVE  CacheFresh' /\ LookupFresh' /\ DocumentsFresh'
  <2>1. CacheFresh' /\ DocumentsFresh'
    BY <1>r DEF ResetCache, Fresh, WakeUpTypeOK, NetworkTypeOK
  <2>2. ASSUME NEW p \in Lookups, lookup[p].stage = "read" PROVE Net(p) \in tainted'
    BY <1>r, <2>2, NetType DEF ResetCache, Fresh
  <2>3. LookupFresh'
    BY <1>r, <2>2 DEF Fresh, Net
  <2> QED BY <2>1, <2>3
<1>1. CASE InitNetwork \/ Reset
  BY <1>1, <1>r, <1>t DEF InitNetwork, Reset, Fresh
<1>2. CASE Connected \/ Closed
  BY <1>2, <1>t DEF Connected, Closed, Fresh, Net
<1>3. ASSUME NEW n \in Networks, NEW o \in Document, ChangeOperator(n, o)
      PROVE  Fresh'
  <2>1. /\ UNCHANGED <<cache, lookup, tainted>>
        /\ \A m \in Networks : since[m] \subseteq since'[m] /\ operators'[m] \in since'[m]
    BY <1>3 DEF ChangeOperator, Fresh, WakeUpTypeOK, NetworkTypeOK
  <2>2. CacheFresh' /\ DocumentsFresh'
    BY <2>1 DEF Fresh
  <2>3. LookupFresh'
    BY <2>1, NetType DEF Fresh, Net
  <2> QED BY <2>2, <2>3, <1>t DEF Fresh
<1> QED BY <1>1, <1>2, <1>3 DEF Network

LEMMA FreshMessage ==
  ASSUME NEW p \in Lookups, Fresh,
         \/ OnNewMessageHit(p) \/ OnNewMessageMiss(p) \/ NetworkExecutes(p)
         \/ NetworkReturns(p) \/ NetworkFails(p) \/ RequestEnds(p)
  PROVE  CacheFresh' /\ LookupFresh' /\ DocumentsFresh'
<1> USE DEF CacheFresh, LookupFresh, DocumentsFresh
<1>t. lookup \in [Lookups -> LookupState] /\ cache \in [Networks -> Document]
  BY DEF Fresh, WakeUpTypeOK, NetworkTypeOK
<1>n. Net(p) \in Networks
  BY NetType
<1>1. CASE OnNewMessageHit(p) \/ RequestEnds(p)
  BY <1>1 DEF OnNewMessageHit, RequestEnds, Hit, networkVars, Fresh, Net
<1>2. CASE OnNewMessageMiss(p)
  BY <1>2, <1>t DEF OnNewMessageMiss, Miss, Fresh, Net
<1>3. CASE NetworkExecutes(p)
  <2>1. lookup[p].net = Net(p)
    BY <1>3, <1>t, LookupFields DEF NetworkExecutes, Executes, Fresh
  <2>2. /\ UNCHANGED <<cache, operators, since, tainted>>
        /\ lookup' = [lookup EXCEPT ![p] =
             [stage |-> "read", net |-> Net(p), value |-> operators[Net(p)]]]
    BY <1>3, <2>1 DEF NetworkExecutes, Executes
  <2>3. LookupFresh'
    BY <2>2, <1>t, <1>n DEF Fresh, Net
  <2> QED BY <2>2, <2>3 DEF Fresh
<1>4. CASE NetworkReturns(p)
  <2>1. lookup[p].stage = "read" /\ lookup[p].net = Net(p)
    BY <1>4, <1>t, LookupFields DEF NetworkReturns, Returns, Fresh
  <2>2. CacheFresh'
    BY <1>4, <2>1, <1>t, <1>n DEF NetworkReturns, Returns, Fresh
  <2>3. LookupFresh' /\ DocumentsFresh'
    BY <1>4, <1>t DEF NetworkReturns, Returns, Fresh, Idle, Net
  <2> QED BY <2>2, <2>3
<1>5. CASE NetworkFails(p)
  BY <1>5, <1>t DEF NetworkFails, Fails, Fresh, Idle, Net
<1> QED BY <1>1, <1>2, <1>3, <1>4, <1>5

\* The other actions leave the network's variables alone.
LEMMA FreshUnchanged ==
  ASSUME Fresh, UNCHANGED networkVars
  PROVE  CacheFresh' /\ LookupFresh' /\ DocumentsFresh'
  BY DEF Fresh, CacheFresh, LookupFresh, DocumentsFresh, networkVars, Net

LEMMA FreshStep == Fresh /\ [Next]_vars => Fresh'
<1> SUFFICES ASSUME Fresh, [Next]_vars PROVE Fresh'
  OBVIOUS
<1>t. WakeUpTypeOK'
  BY TypeStep DEF Fresh
<1>1. CASE Network
  BY <1>1, FreshNetwork
<1>2. ASSUME NEW d \in Devices, Connect(d) \/ FallAsleep(d) \/ NewVersion(d) \/ Ack(d)
      PROVE  UNCHANGED networkVars
  BY <1>2 DEF Connect, FallAsleep, NewVersion, Ack
<1>3. RetryReads \/ RetryFails \/ RetryPushes \/ UdpListens \/ UdpCut => UNCHANGED networkVars
  BY DEF RetryReads, RetryFails, RetryPushes, UdpListens, UdpCut
<1>4. ASSUME NEW p \in Lookups,
             \/ OnNewMessageHit(p) \/ OnNewMessageMiss(p) \/ NetworkExecutes(p)
             \/ NetworkReturns(p) \/ NetworkFails(p) \/ RequestEnds(p)
      PROVE  Fresh'
  BY <1>4, <1>t, FreshMessage DEF Fresh
<1>5. UNCHANGED vars => UNCHANGED networkVars
  BY DEF vars
<1>6. UNCHANGED networkVars => Fresh'
  BY <1>t, FreshUnchanged DEF Fresh
<1> QED BY <1>1, <1>2, <1>3, <1>4, <1>5, <1>6 DEF Next

\* A cached operator is one that its network's document has been since the last
\* reset, except in the networks with a lookup that the reset overtook.
THEOREM CacheIsFresh == Spec => []CacheFresh
<1>1. Fresh => CacheFresh
  BY DEF Fresh
<1> QED BY <1>1, FreshInit, FreshStep, PTL DEF Spec

\* The step that asks a wake-up server takes it from the cache or from a lookup,
\* and either is fresh.
LEMMA AskStep ==
  ASSUME Fresh, [Next]_vars, NEW p \in Lookups, ping'[p] \in Servers \ {ping[p]}
  PROVE  ping'[p] \in since[Net(p)] \/ Net(p) \in tainted
<1>t. /\ lookup \in [Lookups -> LookupState]
      /\ ping \in [Lookups -> {"free", "queued", "failed"} \cup Servers]
      /\ Net(p) \in Networks
  BY NetType DEF Fresh, WakeUpTypeOK, NetworkTypeOK
<1>s. ping'[p] \notin {"free", "queued", "failed"} /\ ping'[p] # NoOperator
  BY WakeUpConstants, NoOperatorIsNone
<1>1. Network \/ RetryReads \/ RetryFails \/ UdpListens \/ UNCHANGED vars => FALSE
  BY DEF Network, RetryReads, RetryFails, UdpListens, vars
<1>2. ASSUME NEW d \in Devices, Connect(d) \/ FallAsleep(d) \/ NewVersion(d) \/ Ack(d)
      PROVE  FALSE
  BY <1>2 DEF Connect, FallAsleep, NewVersion, Ack
<1>3. RetryPushes \/ UdpCut => FALSE
  BY <1>s DEF RetryPushes, UdpCut
<1>4. ASSUME NEW q \in Lookups,
             \/ OnNewMessageMiss(q) \/ NetworkExecutes(q)
             \/ NetworkFails(q) \/ RequestEnds(q)
      PROVE  FALSE
  BY <1>4, <1>s, <1>t DEF OnNewMessageMiss, NetworkExecutes, NetworkFails, RequestEnds
<1>5. ASSUME NEW q \in Lookups, OnNewMessageHit(q)
      PROVE  ping'[p] \in since[Net(p)] \/ Net(p) \in tainted
  <2>1. q = p /\ ping'[p] = cache[Net(p)]
    BY <1>5, <1>s, <1>t DEF OnNewMessageHit, OnNetwork
  <2> QED BY <2>1, <1>s, <1>t DEF Fresh, CacheFresh
<1>6. ASSUME NEW q \in Lookups, NetworkReturns(q)
      PROVE  ping'[p] \in since[Net(p)] \/ Net(p) \in tainted
  <2>1. q = p /\ ping'[p] = lookup[p].value /\ lookup[p].stage = "read"
    BY <1>6, <1>s, <1>t DEF NetworkReturns, Returns, OnNetwork
  <2> QED BY <2>1 DEF Fresh, LookupFresh
<1> QED BY <1>1, <1>2, <1>3, <1>4, <1>5, <1>6 DEF Next

\* No message asks a wake-up server that its network's document has not named
\* since the last reset, except where the reset overtook a lookup.
THEOREM AskedServersAreFresh == Spec => AskedIsFresh
<1>1. Fresh /\ [Next]_vars =>
        [\A p \in Lookups : ping'[p] \in Servers \ {ping[p]} =>
           ping'[p] \in since[Net(p)] \/ Net(p) \in tainted]_vars
  BY AskStep
<1> QED BY <1>1, FreshInit, FreshStep, PTL DEF Spec, AskedIsFresh
==============================================================================
