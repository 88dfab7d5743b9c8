------------------------- MODULE ChannelStore_proofs -------------------------
(* Proofs about ChannelStore: its type invariant, that a channel never has   *)
(* two entries that carry a version, and that recovery converges.            *)
EXTENDS ChannelStore, SequenceTheorems, TLAPS

\* What a node holds for a channel is a short sequence of entries.
ChType == ch \in [ChannelIDs -> Seq(Entry)]

LEMMA TypeInit == Init => TypeOK
  BY MaxVersionType DEF Init, TypeOK

LEMMA BareEntry == Bare \in Entry
  BY MaxVersionType DEF Bare, Entry

\* A published or acknowledged version belongs to the update that carries it.
LEMMA UpdateType ==
  ASSUME NEW i \in Ids, NEW kind \in Kinds, NEW c \in ChannelIDs, NEW v \in 0..MaxVersion
  PROVE  Update(i, kind, c, v) \in Call
  BY DEF Update, Call

LEMMA ReadType ==
  ASSUME NEW i \in Ids, NEW kind \in Kinds, NEW L \in SUBSET ChannelIDs
  PROVE  Read(i, kind, L) \in Call
  BY MaxVersionType DEF Read, Call

\* Every step of the device and of the backend preserves the types.
LEMMA TypeDevice == TypeOK /\ Device => TypeOK'
<1> SUFFICES ASSUME TypeOK, Device PROVE TypeOK'
  OBVIOUS
<1> USE DEF TypeOK
<1>1. ASSUME NEW i \in Ids, NEW L \in SUBSET ChannelIDs, Hello(i, L) PROVE TypeOK'
  <2>1. Read(i, "recovery", L) \in Call /\ Read(i, "pending", {}) \in Call
    BY ReadType DEF Kinds
  <2>2. recovered' \in [list : SUBSET ChannelIDs, clean : SUBSET ChannelIDs]
    BY <1>1 DEF Hello
  <2> QED BY <1>1, <2>1, <2>2 DEF Hello, Issue
<1>2. ASSUME NEW i \in Ids, NEW c \in ChannelIDs, Register(i, c) PROVE TypeOK'
  <2>1. Update(i, "register", c, 0) \in Call
    BY UpdateType, MaxVersionType DEF Kinds
  <2> QED BY <1>2, <2>1 DEF Register, Issue
<1>3. ASSUME NEW i \in Ids, NEW c \in ChannelIDs, Unregister(i, c) PROVE TypeOK'
  <2>1. Update(i, "unregister", c, 0) \in Call
    BY UpdateType, MaxVersionType DEF Kinds
  <2> QED BY <1>3, <2>1 DEF Unregister, Issue
<1>4. ASSUME NEW i \in Ids, NEW m \in received, Ack(i, m[1], m[2]) PROVE TypeOK'
  <2>1. m \in ChannelIDs \X (1..MaxVersion) /\ m = <<m[1], m[2]>>
    OBVIOUS
  <2>2. Update(i, "ack", m[1], m[2]) \in Call
    BY <2>1, UpdateType, MaxVersionType DEF Kinds
  <2> QED BY <1>4, <2>1, <2>2 DEF Ack, Issue
<1>5. ASSUME NEW i \in Ids, Ping(i) PROVE TypeOK'
  <2>1. Read(i, "pending", {}) \in Call
    BY ReadType DEF Kinds
  <2> QED BY <1>5, <2>1 DEF Ping, Issue
<1> QED BY <1>1, <1>2, <1>3, <1>4, <1>5 DEF Device

LEMMA TypeBackend == TypeOK /\ Backend => TypeOK'
<1> SUFFICES ASSUME TypeOK, Backend PROVE TypeOK'
  OBVIOUS
<1> USE DEF TypeOK
<1>1. ASSUME NEW i \in Ids, NEW c \in ChannelIDs, Publish(i, c) PROVE TypeOK'
  <2>1. latest[c] + 1 \in 1..MaxVersion
    BY <1>1, MaxVersionType DEF Publish
  <2>2. Update(i, "newVersion", c, latest[c] + 1) \in Call
    BY <2>1, UpdateType, MaxVersionType DEF Kinds
  <2> QED BY <1>1, <2>1, <2>2, MaxVersionType DEF Publish, Issue
<1>2. ASSUME NEW c \in ChannelIDs, Notify(c) PROVE TypeOK'
  <2>1. latest[c] \in 1..MaxVersion
    BY <1>2, MaxVersionType DEF Notify
  <2> QED BY <1>2, <2>1 DEF Notify
<1> QED BY <1>1, <1>2 DEF Backend

\* What the updates of DB/node.js make of the entries of one channel.
LEMMA ReplaceFirst ==
  ASSUME NEW s \in Seq(Entry), s # <<>>, NEW e \in Entry
  PROVE  /\ [s EXCEPT ![1] = e] \in Seq(Entry)
         /\ Len([s EXCEPT ![1] = e]) = Len(s)
         /\ [s EXCEPT ![1] = e][1] = e
         /\ \A j \in 2..Len(s) : [s EXCEPT ![1] = e][j] = s[j]
  OBVIOUS

LEMMA TypeDatabase == ASSUME NEW k \in calls PROVE TypeOK /\ Database(k) => TypeOK'
<1> SUFFICES ASSUME TypeOK, Database(k) PROVE TypeOK'
  OBVIOUS
<1> USE DEF TypeOK
<1>k. k \in Call
  OBVIOUS
<1>1. CASE RegisterApplication(k)
  <2>1. ChType'
    BY <1>1, BareEntry DEF RegisterApplication, ChType
  <2> QED BY <1>1, <2>1 DEF RegisterApplication, ChType
<1>2. CASE UnregisterApplication(k)
  <2>1. ChType'
    BY <1>2 DEF UnregisterApplication, ChType
  <2> QED BY <1>2, <2>1 DEF UnregisterApplication, ChType
<1>3. CASE NewVersion(k)
  <2>1. [vs |-> k.vs, new |-> "true"] \in Entry
    BY <1>k DEF Call, Entry
  <2>2. ChType'
    BY <1>3, <2>1, ReplaceFirst DEF NewVersion, ChType
  <2> QED BY <1>3, <2>2 DEF NewVersion, ChType
<1>4. CASE AckMessage(k)
  <2>1. ASSUME NEW s \in Seq(Entry), s # <<>>
        PROVE  [s EXCEPT ![1].new = "false"] \in Seq(Entry)
    <3> DEFINE e == [s[1] EXCEPT !.new = "false"]
    <3>1. s[1] \in Entry
      BY <2>1
    <3>2. e \in Entry
      BY <3>1 DEF Entry
    <3>3. [s EXCEPT ![1].new = "false"] = [s EXCEPT ![1] = e]
      OBVIOUS
    <3> HIDE DEF e
    <3> QED BY <2>1, <3>2, <3>3, ReplaceFirst
  <2>2. ChType'
    BY <1>4, <2>1 DEF AckMessage, ChType
  <2> QED BY <1>4, <2>2 DEF AckMessage, ChType
<1>5. CASE GetPendingMessages(k)
  <2>1. ASSUME NEW c \in ChannelIDs, NEW e \in Entries(c), e.vs > 0
        PROVE  <<c, e.vs>> \in ChannelIDs \X (1..MaxVersion)
    <3>1. PICK j \in DOMAIN ch[c] : e = ch[c][j]
      BY DEF Entries
    <3>2. e \in Entry
      BY <3>1
    <3> QED BY <2>1, <3>2, MaxVersionType DEF Entry
  <2>2. received' \in SUBSET (ChannelIDs \X (1..MaxVersion))
    BY <1>5, <2>1 DEF GetPendingMessages
  <2> QED BY <1>5, <2>2 DEF GetPendingMessages
<1>6. CASE RecoveryChannels(k)
  <2>1. ASSUME NEW c \in ChannelIDs, NEW kind \in Membership
        PROVE  [id |-> k.id, kind |-> kind, by |-> "recovery", vs |-> 0,
                c |-> {c}, list |-> k.list] \in Call
    BY <1>k, MaxVersionType DEF Call, Kinds, Membership
  <2>2. k.list \in SUBSET ChannelIDs
    BY <1>k DEF Call
  <2>3. calls' \in SUBSET Call
    BY <1>6, <2>1, <2>2 DEF RecoveryChannels, Membership
  <2> QED BY <1>6, <2>3 DEF RecoveryChannels
<1>7. CASE CallFails(k)
  BY <1>7 DEF CallFails
<1> QED BY <1>1, <1>2, <1>3, <1>4, <1>5, <1>6, <1>7 DEF Database

LEMMA TypeStep == TypeOK /\ [Next]_vars => TypeOK'
<1>1. ASSUME TypeOK, UNCHANGED vars PROVE TypeOK'
  BY <1>1 DEF TypeOK, vars
<1> QED BY <1>1, TypeDevice, TypeBackend, TypeDatabase DEF Next

\* Every variable keeps its type: in particular the device is only notified of
\* published versions and only acknowledges versions it was notified of.
THEOREM TypeCorrect == Spec => []TypeOK
  BY TypeInit, TypeStep, PTL DEF Spec

\* OneVersionedEntry, said of the entries of one channel.
OneVersioned(s) == Len(s) <= 2 /\ (Len(s) = 2 => s[1] # Bare /\ s[2] = Bare)

LEMMA OneVersionedEmpty == OneVersioned(<<>>)
  BY DEF OneVersioned

LEMMA OneVersionedFirst ==
  ASSUME NEW s \in Seq(Entry), s # <<>>, OneVersioned(s), NEW e \in Entry, e # Bare
  PROVE  OneVersioned([s EXCEPT ![1] = e])
  BY ReplaceFirst DEF OneVersioned

\* $addToSet appends a bare entry only where there is none, so behind at most
\* one entry.
LEMMA OneVersionedAppend ==
  ASSUME NEW s \in Seq(Entry), OneVersioned(s), \A j \in DOMAIN s : s[j] # Bare
  PROVE  OneVersioned(Append(s, Bare))
<1>1. Len(s) \in Nat /\ DOMAIN s = 1..Len(s)
  OBVIOUS
<1>2. Len(s) # 2
  <2> SUFFICES ASSUME Len(s) = 2 PROVE FALSE
    OBVIOUS
  <2>1. s[2] = Bare
    BY DEF OneVersioned
  <2> QED BY <2>1, <1>1
<1>3. Len(s) = 0 \/ Len(s) = 1
  BY <1>1, <1>2 DEF OneVersioned
<1>4. Len(Append(s, Bare)) = Len(s) + 1
  BY BareEntry
<1>5. CASE Len(s) = 0
  <2>1. Len(Append(s, Bare)) = 1
    BY <1>4, <1>5
  <2> QED BY <2>1 DEF OneVersioned
<1>6. CASE Len(s) = 1
  <2>1. Append(s, Bare)[1] = s[1] /\ Append(s, Bare)[2] = Bare
    <3>1. Append(s, Bare)[Len(s) + 1] = Bare
      BY BareEntry, AppendProperties
    <3>2. Append(s, Bare)[1] = s[1]
      BY <1>6, BareEntry, AppendProperties
    <3> QED BY <3>1, <3>2, <1>6
  <2>2. s[1] # Bare
    BY <1>1, <1>6
  <2>3. Len(Append(s, Bare)) = 2
    BY <1>4, <1>6
  <2> QED BY <2>1, <2>2, <2>3 DEF OneVersioned
<1> QED BY <1>3, <1>5, <1>6

LEMMA OneVersionedStep ==
  TypeOK /\ OneVersionedEntry /\ [Next]_vars => OneVersionedEntry'
<1> SUFFICES ASSUME TypeOK, OneVersionedEntry, [Next]_vars, NEW c \in ChannelIDs
             PROVE  OneVersioned(ch'[c])
  BY DEF OneVersionedEntry, OneVersioned
<1>t. ch[c] \in Seq(Entry)
  BY DEF TypeOK
<1>i. OneVersioned(ch[c])
  BY DEF OneVersionedEntry, OneVersioned
<1>1. CASE UNCHANGED ch
  BY <1>1, <1>i
<1>2. ASSUME NEW k \in calls, RegisterApplication(k) PROVE OneVersioned(ch'[c])
  <2>1. CASE c \in k.c /\ Bare \notin Entries(c)
    <3>1. ch'[c] = Append(ch[c], Bare)
      BY <1>2, <2>1 DEF RegisterApplication
    <3>2. \A j \in DOMAIN ch[c] : ch[c][j] # Bare
      BY <2>1 DEF Entries
    <3> QED BY <3>1, <3>2, <1>t, <1>i, OneVersionedAppend
  <2>2. CASE ~(c \in k.c /\ Bare \notin Entries(c))
    <3>1. ch'[c] = ch[c]
      BY <1>2, <2>2 DEF RegisterApplication
    <3> QED BY <3>1, <1>i
  <2> QED BY <2>1, <2>2
<1>3. ASSUME NEW k \in calls, UnregisterApplication(k) PROVE OneVersioned(ch'[c])
  <2>1. ch'[c] = <<>> \/ ch'[c] = ch[c]
    BY <1>3 DEF UnregisterApplication
  <2> QED BY <2>1, <1>i, OneVersionedEmpty
<1>4. ASSUME NEW k \in calls, NewVersion(k) PROVE OneVersioned(ch'[c])
  <2> DEFINE e == [vs |-> k.vs, new |-> "true"]
  <2>1. e \in Entry /\ e # Bare
    BY DEF TypeOK, Call, Entry, Bare
  <2>2. ch'[c] = ch[c] \/ (ch[c] # <<>> /\ ch'[c] = [ch[c] EXCEPT ![1] = e])
    BY <1>4 DEF NewVersion
  <2> HIDE DEF e
  <2> QED BY <2>1, <2>2, <1>t, <1>i, OneVersionedFirst
<1>5. ASSUME NEW k \in calls, AckMessage(k) PROVE OneVersioned(ch'[c])
  <2> DEFINE e == [ch[c][1] EXCEPT !.new = "false"]
  <2>1. ch[c] # <<>> => ch[c][1] \in Entry
    BY <1>t
  <2>2. ch[c] # <<>> => e \in Entry /\ e # Bare
    BY <2>1 DEF Entry, Bare
  <2>3. ch'[c] = ch[c] \/ (ch[c] # <<>> /\ ch'[c] = [ch[c] EXCEPT ![1] = e])
    BY <1>5 DEF AckMessage
  <2> HIDE DEF e
  <2> QED BY <2>2, <2>3, <1>t, <1>i, OneVersionedFirst
<1>6. CASE Device
  BY <1>1, <1>6 DEF Device, Hello, Register, Unregister, Ack, Ping
<1>7. CASE Backend
  BY <1>1, <1>7 DEF Backend, Publish, Notify
<1>8. ASSUME NEW k \in calls, Database(k) PROVE OneVersioned(ch'[c])
  <2>1. CASE GetPendingMessages(k) \/ RecoveryChannels(k) \/ CallFails(k)
    BY <1>1, <2>1 DEF GetPendingMessages, RecoveryChannels, CallFails
  <2> QED BY <1>2, <1>3, <1>4, <1>5, <1>8, <2>1 DEF Database
<1>9. CASE UNCHANGED vars
  BY <1>1, <1>9 DEF vars
<1> QED BY <1>6, <1>7, <1>8, <1>9 DEF Next

LEMMA OneVersionedInit == Init => OneVersionedEntry
<1> SUFFICES ASSUME Init, NEW c \in ChannelIDs PROVE OneVersioned(ch[c])
  BY DEF OneVersionedEntry, OneVersioned
<1>1. ch[c] = <<>>
  BY DEF Init
<1> QED BY <1>1, OneVersionedEmpty

\* A channel has at most one entry that carries a version, for any number of
\* channels, of versions and of calls in flight.
THEOREM OneVersionedCorrect == Spec => []OneVersionedEntry
  BY OneVersionedInit, TypeInit, TypeStep, OneVersionedStep, PTL DEF Spec

(***************************************************************************)
(* Recovery                                                                *)
(***************************************************************************)
\* Calls that decide whether channel c is stored.
Touches(k, c) == k.kind = "recovery" \/ (k.kind \in Membership /\ c \in k.c)

\* At most one recovery is under way once it may be counted on.
OneReader ==
  recovered.clean # {} =>
    \A j, k \in calls : j.kind = "recovery" /\ k.kind = "recovery" => j = k

\* Until the recovery reads the node nothing else touches c; after it, what it
\* issued for c goes the way of the hello; when that is done c is as listed.
Converging(c) ==
  /\ \A k \in calls : k.kind = "recovery" =>
       k.list = recovered.list /\ ~Busy(c) /\ Len(ch[c]) <= 1
  /\ \A k \in calls : k.kind \in Membership /\ c \in k.c =>
       (k.kind = "register" <=> c \in recovered.list)
  /\ ~Recovering /\ ~Busy(c) => (ch[c] # <<>> <=> c \in recovered.list)

RecoveryInv == OneReader /\ \A c \in recovered.clean : Converging(c)

\* Steps that touch no channel counted on, and empty or fill none of them.
LEMMA Untouched ==
  ASSUME RecoveryInv, TypeOK, TypeOK',
         recovered'.list = recovered.list,
         recovered'.clean \subseteq recovered.clean,
         \A c \in recovered'.clean : /\ ch'[c] = <<>> <=> ch[c] = <<>>
                                     /\ Len(ch'[c]) = Len(ch[c]),
         \A c \in recovered'.clean : \A k \in calls \cup calls' :
           Touches(k, c) => (k \in calls <=> k \in calls')
  PROVE  RecoveryInv'
<1>1. OneReader'
  BY DEF RecoveryInv, OneReader, Touches
<1>2. ASSUME NEW c \in recovered'.clean PROVE Converging(c)'
  <2>1. Converging(c)
    BY DEF RecoveryInv
  <2>2. (Busy(c) <=> Busy(c)') /\ (Recovering <=> Recovering')
    BY DEF Busy, Recovering, Touches
  <2> QED BY <2>1, <2>2 DEF Converging, Touches
<1> QED BY <1>1, <1>2 DEF RecoveryInv

\* The hello counts on the channels nothing is under way for.
LEMMA RecoveryHello ==
  ASSUME RecoveryInv, TypeOK, NEW i \in Ids, NEW L \in SUBSET ChannelIDs, Hello(i, L)
  PROVE  RecoveryInv'
<1>1. recovered'.list = L
  BY DEF Hello
<1>2. Recovering => recovered'.clean = {}
  BY DEF Hello
<1>3. \A c \in recovered'.clean : ~Recovering /\ ~Busy(c) /\ Len(ch[c]) <= 1
  BY DEF Hello
<1>4. calls' = calls \cup {Read(i, "recovery", L), Read(i, "pending", {})}
  BY DEF Hello, Issue
<1>5. OneReader'
  BY <1>2, <1>4 DEF OneReader, Recovering, Read
<1>6. ASSUME NEW c \in recovered'.clean PROVE Converging(c)'
  <2>1. ~Busy(c)' /\ Recovering'
    <3>1. Read(i, "recovery", L).c = {} /\ Read(i, "pending", {}).c = {}
      BY DEF Read
    <3>2. ~Busy(c)'
      BY <1>3, <1>4, <3>1 DEF Busy
    <3>3. Read(i, "recovery", L).kind = "recovery"
      BY DEF Read
    <3> QED BY <1>4, <3>2, <3>3 DEF Recovering
  <2>2. ch' = ch
    BY DEF Hello
  <2>3. \A k \in calls' : k.kind = "recovery" => k.list = L
    BY <1>3, <1>4 DEF Read, Recovering
  <2> QED BY <1>1, <1>3, <2>1, <2>2, <2>3 DEF Converging, Busy
<1> QED BY <1>5, <1>6 DEF RecoveryInv

\* An update of the membership makes its own channel as the hello lists it.
LEMMA RecoveryUpdate ==
  ASSUME RecoveryInv, TypeOK, TypeOK', NEW k \in calls,
         RegisterApplication(k) \/ UnregisterApplication(k)
  PROVE  RecoveryInv'
<1>1. recovered' = recovered /\ calls' = calls \ {k}
  BY DEF RegisterApplication, UnregisterApplication
<1>2. k.kind \in Membership
  BY DEF RegisterApplication, UnregisterApplication, Take, Membership
<1>3. OneReader'
  BY <1>1 DEF RecoveryInv, OneReader
<1>4. ASSUME NEW c \in recovered'.clean PROVE Converging(c)'
  <2>1. Converging(c) /\ c \in ChannelIDs
    BY <1>1 DEF RecoveryInv, TypeOK
  <2>2. Recovering' <=> Recovering
    BY <1>1, <1>2 DEF Recovering, Membership
  <2>3. Busy(c)' => Busy(c)
    BY <1>1 DEF Busy
  <2>4. CASE c \in k.c
    <3>1. Busy(c)
      BY <1>2, <2>4 DEF Busy
    <3>2. ~Recovering
      BY <2>1, <3>1 DEF Converging, Recovering
    <3>3. k.kind = "register" <=> c \in recovered.list
      BY <1>2, <2>1, <2>4 DEF Converging
    <3>4. ch'[c] # <<>> <=> k.kind = "register"
      <4>1. CASE RegisterApplication(k)
        <5>1. ch'[c] = IF Bare \notin Entries(c) THEN Append(ch[c], Bare) ELSE ch[c]
          BY <2>1, <2>4, <4>1 DEF RegisterApplication
        <5>2. ch[c] \in Seq(Entry)
          BY <2>1 DEF TypeOK
        <5>3. Bare \in Entries(c) => ch[c] # <<>>
          BY DEF Entries
        <5>4. Append(ch[c], Bare) # <<>>
          BY <5>2, BareEntry
        <5> QED BY <4>1, <5>1, <5>3, <5>4 DEF RegisterApplication, Take
      <4>2. CASE UnregisterApplication(k)
        BY <2>1, <2>4, <4>2 DEF UnregisterApplication, Take
      <4> QED BY <4>1, <4>2
    <3> QED BY <1>1, <2>1, <2>2, <3>2, <3>3, <3>4 DEF Converging, Recovering
  <2>5. CASE c \notin k.c
    <3>1. ch'[c] = ch[c]
      BY <2>1, <2>5 DEF RegisterApplication, UnregisterApplication
    <3>2. Busy(c)' <=> Busy(c)
      BY <1>1, <2>5 DEF Busy
    <3> QED BY <1>1, <2>1, <2>2, <3>1, <3>2 DEF Converging
  <2> QED BY <2>4, <2>5
<1> QED BY <1>3, <1>4 DEF RecoveryInv

\* The recovery unregisters what is not listed, registers what is missing and
\* issues nothing for a channel that is already as listed.
LEMMA RecoveryReads ==
  ASSUME RecoveryInv, TypeOK, NEW k \in calls, RecoveryChannels(k)
  PROVE  RecoveryInv'
<1> DEFINE extra   == {c \in ChannelIDs : Len(ch[c]) > (IF c \in k.list THEN 1 ELSE 0)}
           missing == {c \in k.list : ch[c] = <<>>}
           op(kind, c) == [id |-> k.id, kind |-> kind, by |-> "recovery", vs |-> 0,
                           c |-> {c}, list |-> k.list]
<1>1. /\ calls' = (calls \ {k}) \cup {op("unregister", c) : c \in extra}
                                \cup {op("register", c) : c \in missing}
      /\ recovered' = recovered /\ ch' = ch /\ k.kind = "recovery"
  BY DEF RecoveryChannels, Take
<1>2. \A j \in calls' : j.kind = "recovery" => j \in calls \ {k}
  BY <1>1
<1>3. OneReader'
  BY <1>1, <1>2 DEF RecoveryInv, OneReader
<1>4. ASSUME NEW c \in recovered'.clean PROVE Converging(c)'
  <2>1. Converging(c) /\ c \in ChannelIDs /\ ch[c] \in Seq(Entry)
    BY <1>1 DEF RecoveryInv, TypeOK
  <2>2. k.list = recovered.list /\ ~Busy(c) /\ Len(ch[c]) <= 1
    BY <1>1, <2>1 DEF Converging
  <2>3. ~Recovering'
    BY <1>1, <1>2 DEF RecoveryInv, OneReader, Recovering
  <2>4. c \in extra <=> c \notin k.list /\ ch[c] # <<>>
    BY <2>1, <2>2
  <2>5. c \in missing <=> c \in k.list /\ ch[c] = <<>>
    OBVIOUS
  <2>6. ASSUME NEW j \in calls', j.kind \in Membership, c \in j.c
        PROVE  (j = op("unregister", c) /\ c \in extra) \/ (j = op("register", c) /\ c \in missing)
    <3>1. j \notin calls
      BY <2>2, <2>6 DEF Busy
    <3> QED BY <1>1, <2>6, <3>1
  <2>7. \A j \in calls' : j.kind \in Membership /\ c \in j.c =>
          (j.kind = "register" <=> c \in recovered.list)
    BY <2>2, <2>4, <2>5, <2>6
  <2>8. ~Busy(c)' => (ch[c] # <<>> <=> c \in recovered.list)
    <3>1. c \in extra => op("unregister", c) \in calls'
      BY <1>1
    <3>2. c \in missing => op("register", c) \in calls'
      BY <1>1
    <3>3. c \in extra \/ c \in missing => Busy(c)'
      BY <3>1, <3>2 DEF Busy, Membership
    <3> QED BY <2>2, <2>4, <2>5, <3>3
  <2> QED BY <1>1, <2>3, <2>7, <2>8 DEF Converging, Recovering
<1> QED BY <1>3, <1>4 DEF RecoveryInv

LEMMA RecoveryStep == RecoveryInv /\ TypeOK /\ TypeOK' /\ [Next]_vars => RecoveryInv'
<1> SUFFICES ASSUME RecoveryInv, TypeOK, TypeOK', [Next]_vars PROVE RecoveryInv'
  OBVIOUS
<1>1. ASSUME NEW i \in Ids, NEW c \in ChannelIDs, Register(i, c) \/ Unregister(i, c)
      PROVE  RecoveryInv'
  <2>1. /\ ch' = ch /\ recovered'.list = recovered.list
        /\ recovered'.clean = recovered.clean \ {c}
    BY <1>1 DEF Register, Unregister, TypeOK
  <2>2. PICK k : calls' = calls \cup {k} /\ k.c = {c} /\ k.kind \in Membership
    <3>1. \E kind \in Membership : calls' = calls \cup {Update(i, kind, c, 0)}
      BY <1>1 DEF Register, Unregister, Issue, Membership
    <3>2. \A kind : Update(i, kind, c, 0).c = {c} /\ Update(i, kind, c, 0).kind = kind
      BY DEF Update
    <3> QED BY <3>1, <3>2
  <2>3. \A d \in recovered'.clean : ~Touches(k, d)
    BY <2>1, <2>2 DEF Touches, Membership
  <2> QED BY <2>1, <2>2, <2>3, Untouched
<1>2. ASSUME NEW i \in Ids, NEW k, calls' = calls \cup {k}, k.kind \in {"ack", "pending", "newVersion"},
             ch' = ch, recovered' = recovered
      PROVE  RecoveryInv'
  BY <1>2, Untouched DEF Touches, Membership
<1>3. ASSUME NEW i \in Ids, NEW m \in received, Ack(i, m[1], m[2]) PROVE RecoveryInv'
  BY <1>2, <1>3 DEF Ack, Issue, Update
<1>4. ASSUME NEW i \in Ids, Ping(i) PROVE RecoveryInv'
  BY <1>2, <1>4 DEF Ping, Issue, Read
<1>5. ASSUME NEW i \in Ids, NEW c \in ChannelIDs, Publish(i, c) PROVE RecoveryInv'
  BY <1>2, <1>5 DEF Publish, Issue, Update
<1>6. ASSUME NEW c \in ChannelIDs, Notify(c) PROVE RecoveryInv'
  BY <1>6, Untouched DEF Notify
<1>7. CASE Device
  BY <1>1, <1>3, <1>4, <1>7, RecoveryHello DEF Device
<1>8. CASE Backend
  BY <1>5, <1>6, <1>8 DEF Backend
<1>9. ASSUME NEW k \in calls, NewVersion(k) \/ AckMessage(k) PROVE RecoveryInv'
  <2>1. ASSUME NEW c \in recovered'.clean
        PROVE  (ch'[c] = <<>> <=> ch[c] = <<>>) /\ Len(ch'[c]) = Len(ch[c])
    <3>1. c \in ChannelIDs /\ ch[c] \in Seq(Entry)
      BY <1>9 DEF NewVersion, AckMessage, TypeOK
    <3>2. CASE ch'[c] = ch[c]
      BY <3>2
    <3>3. CASE ch[c] # <<>> /\ \E e : ch'[c] = [ch[c] EXCEPT ![1] = e]
      <4>1. ch'[c] \in Seq(Entry)
        BY <3>1 DEF TypeOK
      <4>2. DOMAIN ch'[c] = DOMAIN ch[c]
        BY <3>3
      <4>3. Len(ch'[c]) = Len(ch[c])
        BY <3>1, <4>1, <4>2
      <4> QED BY <3>1, <3>3, <4>1, <4>3
    <3>4. ch'[c] = ch[c] \/ (ch[c] # <<>> /\ \E e : ch'[c] = [ch[c] EXCEPT ![1] = e])
      <4>1. CASE NewVersion(k)
        BY <3>1, <4>1 DEF NewVersion
      <4>2. CASE AckMessage(k)
        BY <3>1, <4>2 DEF AckMessage
      <4> QED BY <1>9, <4>1, <4>2
    <3> QED BY <3>2, <3>3, <3>4
  <2>2. recovered' = recovered /\ calls' = calls \ {k} /\ k.kind \in {"newVersion", "ack"}
    BY <1>9 DEF NewVersion, AckMessage, Take
  <2> QED BY <2>1, <2>2, Untouched DEF Touches, Membership
<1>10. ASSUME NEW k \in calls, GetPendingMessages(k) PROVE RecoveryInv'
  BY <1>10, Untouched DEF GetPendingMessages, Take, Touches, Membership
<1>11. ASSUME NEW k \in calls, CallFails(k) PROVE RecoveryInv'
  <2>1. /\ ch' = ch /\ calls' = calls \ {k} /\ recovered'.list = recovered.list
        /\ recovered'.clean \subseteq recovered.clean
    BY <1>11 DEF CallFails, TypeOK
  <2>2. \A c \in recovered'.clean : ~Touches(k, c)
    BY <1>11 DEF CallFails, Touches, TypeOK, Membership
  <2> QED BY <2>1, <2>2, Untouched
<1>12. ASSUME NEW k \in calls, Database(k) PROVE RecoveryInv'
  BY <1>9, <1>10, <1>11, <1>12, RecoveryUpdate, RecoveryReads DEF Database
<1>13. CASE UNCHANGED vars
  BY <1>13, Untouched DEF vars
<1> QED BY <1>7, <1>8, <1>12, <1>13 DEF Next

\* The recovery protocol makes the stored channels those of the hello, for any
\* number of channels and of calls in flight, in whatever order they execute.
THEOREM RecoveryMakesChannelsThoseListed == Spec => []RecoveryConverges
<1>1. Init => RecoveryInv
  BY DEF Init, RecoveryInv, OneReader
<1>2. RecoveryInv => RecoveryConverges
  BY DEF RecoveryInv, RecoveryConverges, Converging
<1> QED BY <1>1, <1>2, TypeInit, TypeStep, RecoveryStep, PTL DEF Spec

\* The recovery never issues an unregister for a channel counted on and listed,
\* and every other update leaves its first entry or gives it a new version.
LEMMA UnreadStep ==
  ASSUME RecoveryInv, TypeOK, Next,
         NEW c \in recovered.clean \cap recovered.list, Unread(c)
  PROVE  Unread(c)' \/ \E k \in calls \ calls' : k.kind = "ack" /\ c \in k.c
<1>1. c \in ChannelIDs /\ ch[c] \in Seq(Entry) /\ ch[c] # <<>> /\ ch[c][1].new = "true"
  BY DEF TypeOK, Unread
<1>2. ASSUME ch'[c] = ch[c] PROVE Unread(c)'
  BY <1>2 DEF Unread
<1>3. ASSUME NEW k \in calls, RegisterApplication(k) PROVE Unread(c)'
  <2>1. CASE ch'[c] = Append(ch[c], Bare)
    <3>1. /\ ch[c] \in Seq(Entry) /\ Bare \in Entry
          /\ Len(ch[c]) > 0
      BY <1>1, BareEntry
    <3>2. /\ Len(Append(ch[c], Bare)) = Len(ch[c]) + 1
          /\ Append(ch[c], Bare)[1] = ch[c][1]
      BY <3>1
    <3>3. Append(ch[c], Bare) # <<>>
      BY <3>1, <3>2
    <3> QED BY <1>1, <2>1, <3>2, <3>3 DEF Unread
  <2> QED BY <1>1, <1>2, <1>3, <2>1 DEF RegisterApplication
<1>4. ASSUME NEW k \in calls, UnregisterApplication(k) PROVE ch'[c] = ch[c]
  <2>1. c \notin k.c
    BY <1>4 DEF UnregisterApplication, Take, RecoveryInv, Converging, Membership
  <2> QED BY <1>1, <1>4, <2>1 DEF UnregisterApplication
<1>5. ASSUME NEW k \in calls, NewVersion(k) PROVE Unread(c)'
  <2>1. CASE ch'[c] = [ch[c] EXCEPT ![1] = [vs |-> k.vs, new |-> "true"]]
    <3>1. 1 \in DOMAIN ch[c]
      BY <1>1
    <3>2. ch'[c][1] = [vs |-> k.vs, new |-> "true"] /\ DOMAIN ch'[c] = DOMAIN ch[c]
      BY <1>1, <2>1, <3>1
    <3>3. ch'[c] # <<>>
      BY <3>1, <3>2
    <3> QED BY <3>2, <3>3 DEF Unread
  <2> QED BY <1>1, <1>2, <1>5, <2>1 DEF NewVersion
<1>6. ASSUME NEW k \in calls, AckMessage(k)
      PROVE  ch'[c] = ch[c] \/ (k \in calls \ calls' /\ k.kind = "ack" /\ c \in k.c)
  BY <1>1, <1>6 DEF AckMessage, Take
<1>7. ASSUME NEW k \in calls, Database(k)
      PROVE  Unread(c)' \/ \E j \in calls \ calls' : j.kind = "ack" /\ c \in j.c
  <2>1. CASE GetPendingMessages(k) \/ RecoveryChannels(k) \/ CallFails(k)
    BY <1>2, <2>1 DEF GetPendingMessages, RecoveryChannels, CallFails
  <2> QED BY <1>2, <1>3, <1>4, <1>5, <1>6, <1>7, <2>1 DEF Database
<1>8. CASE Device
  BY <1>2, <1>8 DEF Device, Hello, Register, Unregister, Ack, Ping
<1>9. CASE Backend
  BY <1>2, <1>9 DEF Backend, Notify, Publish
<1> QED BY <1>7, <1>8, <1>9 DEF Next

\* A stored version of a channel the device lists is on offer until it is
\* acknowledged, in whatever order hellos, recoveries and updates execute.
THEOREM UnreadIsKept == Spec => UnreadWaitsForAck
<1>1. Init => RecoveryInv
  BY DEF Init, RecoveryInv, OneReader
<1>2. RecoveryInv /\ TypeOK /\ [Next]_vars =>
        [\A c \in recovered.clean \cap recovered.list :
           Unread(c) => Unread(c)' \/ \E k \in calls \ calls' : k.kind = "ack" /\ c \in k.c]_vars
  BY UnreadStep
<1> QED BY <1>1, <1>2, TypeInit, TypeStep, RecoveryStep, PTL DEF Spec, UnreadWaitsForAck

(***************************************************************************)
(* The node document is a mailbox                                          *)
(***************************************************************************)
\* An update is of one channel, and a newVersion update carries a version that
\* was published on it.
CallSound(k) ==
  /\ k.kind \notin {"recovery", "pending"} => \E c \in ChannelIDs : k.c = {c}
  /\ k.kind = "newVersion" => \A c \in k.c : k.vs \in 1..latest[c]

CallsSound == \A k \in calls : CallSound(k)

LEMMA SoundIssued ==
  ASSUME TypeOK, CallsSound, latest' = latest,
         \A k \in calls' \ calls : /\ k.kind # "newVersion"
                                   /\ k.kind \notin {"recovery", "pending"} =>
                                        \E c \in ChannelIDs : k.c = {c}
  PROVE  CallsSound'
  BY DEF CallsSound, CallSound

LEMMA SoundStep == TypeOK /\ CallsSound /\ [Next]_vars => CallsSound'
<1> SUFFICES ASSUME TypeOK, CallsSound, [Next]_vars PROVE CallsSound'
  OBVIOUS
<1>1. ASSUME NEW i \in Ids, NEW L \in SUBSET ChannelIDs, Hello(i, L) PROVE CallsSound'
  BY <1>1, SoundIssued DEF Hello, Issue, Read
<1>2. ASSUME NEW i \in Ids, NEW c \in ChannelIDs, NEW kind \in {"register", "unregister", "ack"},
             NEW v, calls' = calls \cup {Update(i, kind, c, v)}, latest' = latest
      PROVE  CallsSound'
  BY <1>2, SoundIssued DEF Update
<1>3. CASE Device
  <2>1. ASSUME NEW i \in Ids, NEW m \in received, Ack(i, m[1], m[2]) PROVE CallsSound'
    <3>1. m[1] \in ChannelIDs
      BY DEF TypeOK
    <3> QED BY <1>2, <2>1, <3>1 DEF Ack, Issue
  <2>2. ASSUME NEW i \in Ids, NEW c \in ChannelIDs, Register(i, c) \/ Unregister(i, c)
        PROVE  CallsSound'
    BY <1>2, <2>2 DEF Register, Unregister, Issue
  <2>3. ASSUME NEW i \in Ids, Ping(i) PROVE CallsSound'
    BY <2>3, SoundIssued DEF Ping, Issue, Read
  <2> QED BY <1>1, <1>3, <2>1, <2>2, <2>3 DEF Device
<1>4. ASSUME NEW i \in Ids, NEW c \in ChannelIDs, Publish(i, c) PROVE CallsSound'
  <2>1. PICK u : calls' = calls \cup {u} /\ u.c = {c} /\ u.vs = latest[c] + 1
    <3> DEFINE w == Update(i, "newVersion", c, latest[c] + 1)
    <3>1. calls' = calls \cup {w}
      BY <1>4 DEF Publish, Issue
    <3>2. w.c = {c} /\ w.vs = latest[c] + 1
      BY DEF Update
    <3> HIDE DEF w
    <3> QED BY <3>1, <3>2
  <2>2. latest \in [ChannelIDs -> Nat] /\ latest' = [latest EXCEPT ![c] = @ + 1]
    BY <1>4, MaxVersionType DEF Publish, TypeOK
  <2>3. ASSUME NEW k \in calls PROVE CallSound(k)'
    <3>1. CallSound(k) /\ k.c \in SUBSET ChannelIDs
      BY DEF CallsSound, TypeOK, Call
    <3>2. \A d \in ChannelIDs : latest'[d] \in Nat /\ latest[d] <= latest'[d]
      BY <2>2
    <3>3. ASSUME k.kind = "newVersion", NEW d \in k.c PROVE k.vs \in 1..latest'[d]
      BY <2>2, <3>1, <3>2, <3>3 DEF CallSound
    <3> QED BY <3>1, <3>3 DEF CallSound
  <2>4. CallSound(u)'
    <3>1. u.vs \in 1..latest'[c]
      BY <2>1, <2>2
    <3> QED BY <2>1, <3>1 DEF CallSound
  <2> QED BY <2>1, <2>3, <2>4 DEF CallsSound
<1>5. CASE Backend
  BY <1>4, <1>5, SoundIssued DEF Backend, Notify
<1>6. ASSUME NEW k \in calls, Database(k) PROVE CallsSound'
  <2>1. CASE RecoveryChannels(k)
    <3>1. k.list \in SUBSET ChannelIDs
      BY DEF TypeOK, Call
    <3>2. ASSUME NEW j \in calls' \ calls
          PROVE  j.kind # "newVersion" /\ \E c \in ChannelIDs : j.c = {c}
      BY <2>1, <3>1 DEF RecoveryChannels
    <3> QED BY <2>1, <3>2, SoundIssued DEF RecoveryChannels
  <2>2. ASSUME calls' = calls \ {k}, latest' = latest PROVE CallsSound'
    BY <2>2, SoundIssued
  <2> QED BY <1>6, <2>1, <2>2 DEF Database, RegisterApplication, UnregisterApplication,
             NewVersion, AckMessage, GetPendingMessages, CallFails
<1>7. CASE UNCHANGED vars
  BY <1>7, SoundIssued DEF vars
<1> QED BY <1>3, <1>5, <1>6, <1>7 DEF Next

\* What is kept for a channel, read from its entries.
LEMMA KeptIs ==
  ASSUME NEW c \in ChannelIDs, ch[c] \in Seq(Entry)
  PROVE  Kept(c) = IF ch[c] = <<>> THEN {} ELSE {ch[c][1]}
  BY DEF Kept

\* A change of the entries of one channel is a change of its box.
LEMMA OneBox ==
  ASSUME NEW c \in ChannelIDs, NEW kept, Kept(c)' = kept,
         \A d \in ChannelIDs : d # c => ch'[d] = ch[d],
         latest' = latest, received' = received
  PROVE  Mail!Becomes(c, kept)
  BY DEF Mail!Becomes, Kept

LEMMA MailRegister ==
  ASSUME TypeOK, CallsSound, NEW k \in calls, RegisterApplication(k)
  PROVE  \E c \in ChannelIDs : Mail!Open(c) \/ UNCHANGED Mail!vars
<1>1. PICK c \in ChannelIDs : k.c = {c}
  BY DEF CallsSound, CallSound, RegisterApplication, Take
<1>2. ch[c] \in Seq(Entry) /\ \A d \in ChannelIDs : d # c => ch'[d] = ch[d]
  BY <1>1 DEF RegisterApplication, TypeOK
<1>3. latest' = latest /\ received' = received
  BY DEF RegisterApplication
<1>4. ch'[c] = IF Bare \notin Entries(c) THEN Append(ch[c], Bare) ELSE ch[c]
  BY <1>1 DEF RegisterApplication
<1>5. CASE ch[c] = <<>>
  <2>1. ch'[c] = <<Bare>>
    BY <1>4, <1>5 DEF Entries
  <2>2. Kept(c) = {} /\ Kept(c)' = {Bare}
    BY <1>5, <2>1 DEF Kept
  <2> QED BY <1>2, <1>3, <2>2, OneBox DEF Mail!Open, Mail!Blank, Bare
<1>6. CASE ch[c] # <<>>
  <2>1. Kept(c)' = Kept(c)
    <3>1. CASE ch'[c] = Append(ch[c], Bare)
      <4>1. /\ 1 \in DOMAIN ch[c] /\ 1 \in DOMAIN Append(ch[c], Bare)
            /\ Append(ch[c], Bare)[1] = ch[c][1]
        BY <1>2, <1>6, BareEntry
      <4> QED BY <3>1, <4>1 DEF Kept
    <3> QED BY <1>4, <3>1 DEF Kept
  <2>2. ASSUME NEW d \in ChannelIDs PROVE Kept(d)' = Kept(d)
    <3>1. CASE d = c
      BY <2>1, <3>1
    <3>2. CASE d # c
      BY <1>2, <3>2 DEF Kept
    <3> QED BY <3>1, <3>2
  <2> QED BY <1>3, <2>2 DEF Mail!vars
<1> QED BY <1>5, <1>6

LEMMA MailUnregister ==
  ASSUME TypeOK, CallsSound, NEW k \in calls, UnregisterApplication(k)
  PROVE  \E c \in ChannelIDs : Mail!Drop(c)
<1>1. PICK c \in ChannelIDs : k.c = {c}
  BY DEF CallsSound, CallSound, UnregisterApplication, Take
<1>2. ch'[c] = <<>> /\ \A d \in ChannelIDs : d # c => ch'[d] = ch[d]
  BY <1>1 DEF UnregisterApplication, TypeOK
<1>3. Kept(c)' = {}
  BY <1>2 DEF Kept
<1> QED BY <1>2, <1>3, OneBox DEF Mail!Drop, UnregisterApplication

\* An update that changes no entry is a stutter of the mailbox.
LEMMA MailSame ==
  ASSUME latest' = latest, received' = received, \A d \in ChannelIDs : ch'[d] = ch[d]
  PROVE  UNCHANGED Mail!vars
  BY DEF Mail!vars, Kept

LEMMA MailNewVersion ==
  ASSUME TypeOK, CallsSound, NEW k \in calls, NewVersion(k)
  PROVE  UNCHANGED Mail!vars \/ \E c \in ChannelIDs, v \in 1..MaxVersion : Mail!Keep(c, v)
<1> DEFINE e == [vs |-> k.vs, new |-> "true"]
<1>1. PICK c \in ChannelIDs : k.c = {c} /\ k.vs \in 1..latest[c]
  BY DEF CallsSound, CallSound, NewVersion, Take
<1>2. ch[c] \in Seq(Entry) /\ \A d \in ChannelIDs : d # c => ch'[d] = ch[d]
  BY <1>1 DEF NewVersion, TypeOK
<1>3. latest' = latest /\ received' = received
  BY DEF NewVersion
<1>4. ch'[c] = IF ch[c] # <<>> THEN [ch[c] EXCEPT ![1] = e] ELSE ch[c]
  BY <1>1 DEF NewVersion
<1>5. k.vs \in 1..MaxVersion /\ e \in Entry
  BY <1>1, MaxVersionType DEF TypeOK, Entry
<1>6. CASE ch[c] = <<>>
  BY <1>2, <1>3, <1>4, <1>6, MailSame
<1>7. CASE ch[c] # <<>>
  <2>1. 1 \in DOMAIN ch'[c] /\ ch'[c][1] = e
    <3>1. 1 \in DOMAIN ch[c]
      BY <1>2, <1>7
    <3> QED BY <1>4, <1>7, <3>1
  <2>2. Kept(c)' = {e} /\ Kept(c) # {}
    <3>1. 1 \in DOMAIN ch[c]
      BY <1>2, <1>7
    <3> QED BY <2>1, <3>1 DEF Kept
  <2>3. Mail!Keep(c, k.vs)
    BY <1>1, <1>2, <1>3, <2>2, OneBox DEF Mail!Keep
  <2> QED BY <1>5, <2>3
<1> QED BY <1>6, <1>7

LEMMA MailAck ==
  ASSUME TypeOK, CallsSound, NEW k \in calls, AckMessage(k)
  PROVE  UNCHANGED Mail!vars \/ \E c \in ChannelIDs : Mail!Acknowledge(c)
<1>1. PICK c \in ChannelIDs : k.c = {c}
  BY DEF CallsSound, CallSound, AckMessage, Take
<1>2. ch[c] \in Seq(Entry) /\ \A d \in ChannelIDs : d # c => ch'[d] = ch[d]
  BY <1>1 DEF AckMessage, TypeOK
<1>3. latest' = latest /\ received' = received
  BY DEF AckMessage
<1>4. ch'[c] = IF ch[c] # <<>> THEN [ch[c] EXCEPT ![1].new = "false"] ELSE ch[c]
  BY <1>1 DEF AckMessage
<1>5. CASE ch[c] = <<>>
  BY <1>2, <1>3, <1>4, <1>5, MailSame
<1>6. CASE ch[c] # <<>>
  <2>1. 1 \in DOMAIN ch[c]
    BY <1>2, <1>6
  <2>2. 1 \in DOMAIN ch'[c] /\ ch'[c][1] = [ch[c][1] EXCEPT !.new = "false"]
    BY <1>4, <1>6, <2>1
  <2>3. Kept(c) = {ch[c][1]} /\ Kept(c)' = {[ch[c][1] EXCEPT !.new = "false"]}
    BY <2>1, <2>2 DEF Kept
  <2>4. Mail!Becomes(c, {[ch[c][1] EXCEPT !.new = "false"]})
    BY <1>2, <1>3, <2>3, OneBox
  <2>5. {[e EXCEPT !.new = "false"] : e \in Kept(c)} = {[ch[c][1] EXCEPT !.new = "false"]}
    BY <2>3
  <2>6. Mail!Acknowledge(c)
    BY <2>4, <2>5 DEF Mail!Acknowledge
  <2> QED BY <2>6
<1> QED BY <1>5, <1>6

\* A bare entry behind the first is not offered, and there is no other.
LEMMA MailPending ==
  ASSUME TypeOK, OneVersionedEntry, NEW k \in calls, GetPendingMessages(k)
  PROVE  Mail!Offer
<1> DEFINE offered(c) == {e \in Entries(c) : e.vs > 0 /\ e.new = "true"}
           pairs == {p \in ChannelIDs \X (1..MaxVersion) :
                       [vs |-> p[2], new |-> "true"] \in Kept(p[1])}
<1>1. ASSUME NEW c \in ChannelIDs PROVE \A e \in offered(c) : e \in Kept(c) /\ e \in Entry
  <2>1. ch[c] \in Seq(Entry) /\ Len(ch[c]) <= 2 /\ (Len(ch[c]) = 2 => ch[c][2] = Bare)
    BY DEF TypeOK, OneVersionedEntry
  <2>2. SUFFICES ASSUME NEW j \in DOMAIN ch[c], ch[c][j].vs > 0, ch[c][j].new = "true"
                 PROVE  ch[c][j] \in Kept(c) /\ ch[c][j] \in Entry
    BY DEF Entries
  <2>3. ch[c][j] # Bare
    BY <2>2 DEF Bare
  <2>4. DOMAIN ch[c] = 1..Len(ch[c]) /\ Len(ch[c]) \in Nat
    BY <2>1
  <2>5. j = 1
    <3>1. j \in Nat /\ 1 <= j /\ j <= Len(ch[c])
      BY <2>4
    <3>2. j = 1 \/ (j = 2 /\ Len(ch[c]) = 2)
      <4> DEFINE n == Len(ch[c])
      <4>1. n \in Nat /\ n <= 2 /\ j \in Nat /\ 1 <= j /\ j <= n
        BY <2>1, <2>4, <3>1
      <4> HIDE DEF n
      <4>2. j = 1 \/ (j = 2 /\ n = 2)
        BY <4>1
      <4> QED BY <4>2 DEF n
    <3> QED BY <2>1, <2>3, <3>2
  <2> QED BY <2>1, <2>5 DEF Kept
<1>2. ASSUME NEW c \in ChannelIDs PROVE Kept(c) \subseteq Entries(c)
  BY DEF Kept, Entries
<1>3. UNION {{<<c, e.vs>> : e \in offered(c)} : c \in ChannelIDs} = pairs
  <2>1. ASSUME NEW c \in ChannelIDs, NEW e \in offered(c) PROVE <<c, e.vs>> \in pairs
    <3>1. e \in Entry /\ e \in Kept(c) /\ e.vs > 0 /\ e.new = "true"
      BY <1>1
    <3>2. e = [vs |-> e.vs, new |-> "true"] /\ e.vs \in 1..MaxVersion
      BY <3>1, MaxVersionType DEF Entry
    <3> QED BY <3>1, <3>2
  <2>2. ASSUME NEW p \in pairs
        PROVE  \E c \in ChannelIDs : \E e \in offered(c) : p = <<c, e.vs>>
    <3> DEFINE e == [vs |-> p[2], new |-> "true"]
    <3>1. p = <<p[1], p[2]>> /\ p[1] \in ChannelIDs /\ p[2] \in 1..MaxVersion /\ e \in Kept(p[1])
      OBVIOUS
    <3>2. e \in offered(p[1]) /\ e.vs = p[2]
      BY <1>2, <3>1, MaxVersionType
    <3> QED BY <3>1, <3>2
  <2> HIDE DEF offered, pairs
  <2> QED BY <2>1, <2>2
<1>4. received' = received \cup pairs /\ ch' = ch /\ latest' = latest
  BY <1>3 DEF GetPendingMessages
<1> QED BY <1>4 DEF Mail!Offer, Mail!Tell, Kept

LEMMA MailStep ==
  TypeOK /\ OneVersionedEntry /\ CallsSound /\ [Next]_vars => [Mail!Next]_(Mail!vars)
<1> SUFFICES ASSUME TypeOK, OneVersionedEntry, CallsSound, [Next]_vars
             PROVE  Mail!Next \/ UNCHANGED Mail!vars
  OBVIOUS
<1>1. CASE Device
  <2>1. ch' = ch /\ latest' = latest /\ received' = received
    BY <1>1 DEF Device, Hello, Register, Unregister, Ack, Ping
  <2> QED BY <2>1, MailSame
<1>2. CASE Backend
  <2>1. ASSUME NEW c \in ChannelIDs, Notify(c) PROVE Mail!Notify(c)
    BY <2>1 DEF Notify, Mail!Notify, Mail!Tell, Kept
  <2>2. ASSUME NEW i \in Ids, NEW c \in ChannelIDs, Publish(i, c) PROVE Mail!Publish(c)
    BY <2>2 DEF Publish, Mail!Publish, Kept
  <2> QED BY <1>2, <2>1, <2>2 DEF Backend, Mail!Next
<1>3. ASSUME NEW k \in calls, Database(k) PROVE Mail!Next \/ UNCHANGED Mail!vars
  <2>1. CASE RecoveryChannels(k) \/ CallFails(k)
    BY <2>1, MailSame DEF RecoveryChannels, CallFails
  <2> QED BY <1>3, <2>1, MailRegister, MailUnregister, MailNewVersion, MailAck, MailPending
          DEF Database, Mail!Next
<1>4. CASE UNCHANGED vars
  BY <1>4, MailSame DEF vars
<1> QED BY <1>1, <1>2, <1>3, <1>4 DEF Next

\* The channels of a node are a mailbox, for any number of channels, of
\* versions and of database calls executing in any order.
THEOREM ChannelsImplementMailbox == Spec => RefinesMailbox
<1>1. Init => Mail!Init
  <2> SUFFICES ASSUME Init PROVE Mail!Init
    OBVIOUS
  <2>1. ASSUME NEW c \in ChannelIDs PROVE Kept(c) = {}
    <3>1. ch[c] = <<>> /\ ch[c] \in Seq(Entry)
      BY DEF Init
    <3> QED BY <3>1, KeptIs
  <2> QED BY <2>1 DEF Init, Mail!Init
<1>2. Init => CallsSound
  BY DEF Init, CallsSound
<1> QED BY <1>1, <1>2, OneVersionedInit, TypeInit, TypeStep, OneVersionedStep, SoundStep, MailStep, PTL
        DEF Spec, RefinesMailbox, Mail!Spec
=============================================================================
