----------------------------- MODULE ChannelStore -----------------------------
(***************************************************************************)
(* The channels of one device: the "ch" array of its node document as the  *)
(* updates of DB/node.js change it, the register, unregister, ack, ping    *)
(* and hello handlers of ws_server.js that issue them, the recovery        *)
(* protocol, and the versions the device has been notified of.             *)
(*                                                                         *)
(* Only the order of the entries of one channel matters to the updates, so *)
(* the array is kept as one sequence per channel.                          *)
(***************************************************************************)
EXTENDS Naturals, Sequences

CONSTANTS
  ChannelIDs,
  Ids,          \* what tells database calls apart; bounds those in flight
  MaxVersion    \* bound: versions 1..MaxVersion are published

ASSUME MaxVersionType == MaxVersion \in Nat

VARIABLES
  ch,        \* the entries of each channel, in array order
  calls,     \* database calls sent and not executed; they run in any order
  latest,    \* the version last published on each channel, 0 for none
  received,  \* <<channel, version>> pairs the device was notified of
  acked,     \* pairs the device has acknowledged
  recovered  \* history: the channels of the last hello, and those whose
             \* outcome depends on its recovery alone

vars == <<ch, calls, latest, received, acked, recovered>>

Entry == [vs : 0..MaxVersion, new : {"unset", "true", "false"}]

\* What node.registerApplication adds: no version, no "new" field.
Bare == [vs |-> 0, new |-> "unset"]

Kinds == {"register", "unregister", "newVersion", "ack", "recovery", "pending"}

\* by is "recovery" for the updates the recovery protocol issues; list holds
\* the channels of the hello, c the channel of an update.
Call == [id : Ids, kind : Kinds, by : {"client", "recovery"}, vs : 0..MaxVersion,
         c : SUBSET ChannelIDs, list : SUBSET ChannelIDs]

Update(i, kind, c, vs) ==
  [id |-> i, kind |-> kind, by |-> "client", vs |-> vs, c |-> {c}, list |-> {}]

Read(i, kind, list) ==
  [id |-> i, kind |-> kind, by |-> "client", vs |-> 0, c |-> {}, list |-> list]

TypeOK ==
  /\ ch \in [ChannelIDs -> Seq(Entry)]
  /\ calls \in SUBSET Call
  /\ latest \in [ChannelIDs -> 0..MaxVersion]
  /\ received \in SUBSET (ChannelIDs \X (1..MaxVersion))
  /\ acked \in SUBSET received
  /\ recovered \in [list : SUBSET ChannelIDs, clean : SUBSET ChannelIDs]

Init ==
  /\ ch = [c \in ChannelIDs |-> <<>>]
  /\ calls = {}
  /\ latest = [c \in ChannelIDs |-> 0]
  /\ received = {} /\ acked = {}
  /\ recovered = [list |-> {}, clean |-> {}]

Entries(c) == {ch[c][j] : j \in DOMAIN ch[c]}

Issue(i, S) ==
  /\ \A k \in calls : k.id # i
  /\ calls' = calls \cup S

Membership == {"register", "unregister"}

\* Membership updates of c that are still to execute.
Busy(c) == \E k \in calls : k.kind \in Membership /\ c \in k.c

Recovering == \E k \in calls : k.kind = "recovery"

(***************************************************************************)
(* Messages of the device                                                  *)
(***************************************************************************)
\* hello with a channelIDs array: once the node is registered, the recovery
\* protocol and the pending notifications are started.
Hello(i, L) ==
  /\ Issue(i, {Read(i, "recovery", L), Read(i, "pending", {})})
  /\ recovered' = [list |-> L,
                   clean |-> IF Recovering THEN {}
                             ELSE {c \in ChannelIDs : ~Busy(c) /\ Len(ch[c]) <= 1}]
  /\ UNCHANGED <<ch, latest, received, acked>>

Register(i, c) ==
  /\ Issue(i, {Update(i, "register", c, 0)})
  /\ recovered' = [recovered EXCEPT !.clean = @ \ {c}]
  /\ UNCHANGED <<ch, latest, received, acked>>

Unregister(i, c) ==
  /\ Issue(i, {Update(i, "unregister", c, 0)})
  /\ recovered' = [recovered EXCEPT !.clean = @ \ {c}]
  /\ UNCHANGED <<ch, latest, received, acked>>

\* The device acknowledges a version it was notified of.
Ack(i, c, v) ==
  /\ <<c, v>> \in received
  /\ Issue(i, {Update(i, "ack", c, v)})
  /\ acked' = acked \cup {<<c, v>>}
  /\ UNCHANGED <<ch, latest, received, recovered>>

Ping(i) ==
  /\ Issue(i, {Read(i, "pending", {})})
  /\ UNCHANGED <<ch, latest, received, acked, recovered>>

(***************************************************************************)
(* The backend                                                             *)
(***************************************************************************)
\* A new version is published and its newVersion update sent.
Publish(i, c) ==
  /\ latest[c] < MaxVersion
  /\ latest' = [latest EXCEPT ![c] = @ + 1]
  /\ Issue(i, {Update(i, "newVersion", c, latest[c] + 1)})
  /\ UNCHANGED <<ch, received, acked, recovered>>

\* A published version reaches the device through its queue and connector.
Notify(c) ==
  /\ latest[c] > 0
  /\ received' = received \cup {<<c, latest[c]>>}
  /\ UNCHANGED <<ch, calls, latest, acked, recovered>>

(***************************************************************************)
(* Calls that execute in the database                                      *)
(***************************************************************************)
Take(k, kind) == k \in calls /\ k.kind = kind

\* Mutant: $push in the place of $addToSet.
RegisterApplicationPushes(k) ==
  /\ Take(k, "register")
  /\ ch' = [c \in ChannelIDs |-> IF c \in k.c THEN Append(ch[c], Bare) ELSE ch[c]]
  /\ calls' = calls \ {k}
  /\ UNCHANGED <<latest, received, acked, recovered>>

\* $addToSet: an entry is added unless an equal one is there, and an entry
\* that has been given a version or acknowledged is not equal to a new one.
RegisterApplication(k) ==
  /\ Take(k, "register")
  /\ ch' = [c \in ChannelIDs |->
              IF c \in k.c /\ Bare \notin Entries(c) THEN Append(ch[c], Bare) ELSE ch[c]]
  /\ calls' = calls \ {k}
  /\ UNCHANGED <<latest, received, acked, recovered>>

\* $pull by application token: every entry of the channel goes.
UnregisterApplication(k) ==
  /\ Take(k, "unregister")
  /\ ch' = [c \in ChannelIDs |-> IF c \in k.c THEN <<>> ELSE ch[c]]
  /\ calls' = calls \ {k}
  /\ UNCHANGED <<latest, received, acked, recovered>>

\* Mutant: the upsert is not refused, and stores the version of a channel that
\* the device does not have.
NewVersionUpserts(k) ==
  /\ Take(k, "newVersion")
  /\ ch' = [c \in ChannelIDs |-> IF c \in k.c
                                 THEN <<[vs |-> k.vs, new |-> "true"]>>
                                      \o SubSeq(ch[c], 2, Len(ch[c]))
                                 ELSE ch[c]]
  /\ calls' = calls \ {k}
  /\ UNCHANGED <<latest, received, acked, recovered>>

\* The positional update changes the first entry of the channel; without one
\* the upsert is refused and nothing changes.
NewVersion(k) ==
  /\ Take(k, "newVersion")
  /\ ch' = [c \in ChannelIDs |-> IF c \in k.c /\ ch[c] # <<>>
                                 THEN [ch[c] EXCEPT ![1] = [vs |-> k.vs, new |-> "true"]]
                                 ELSE ch[c]]
  /\ calls' = calls \ {k}
  /\ UNCHANGED <<latest, received, acked, recovered>>

\* The first entry of the channel is no longer new, whatever version it holds.
AckMessage(k) ==
  /\ Take(k, "ack")
  /\ ch' = [c \in ChannelIDs |-> IF c \in k.c /\ ch[c] # <<>>
                                 THEN [ch[c] EXCEPT ![1].new = "false"] ELSE ch[c]]
  /\ calls' = calls \ {k}
  /\ UNCHANGED <<latest, received, acked, recovered>>

\* Mutant: every entry is offered, with or without a version.
PendingOffersAll(k) ==
  /\ Take(k, "pending")
  /\ received' = received \cup
       UNION {{<<c, e.vs>> : e \in Entries(c)} : c \in ChannelIDs}
  /\ calls' = calls \ {k}
  /\ UNCHANGED <<ch, latest, acked, recovered>>

\* getPendingMessages offers the entries that have a version and are new.  The
\* device only ever learns more versions, so the answer is handed over at once.
GetPendingMessages(k) ==
  /\ Take(k, "pending")
  /\ received' = received \cup
       UNION {{<<c, e.vs>> : e \in {e \in Entries(c) : e.vs > 0 /\ e.new = "true"}}
              : c \in ChannelIDs}
  /\ calls' = calls \ {k}
  /\ UNCHANGED <<ch, latest, acked, recovered>>

\* Mutant: a return at the first channel to unregister leaves the whole
\* callback, so nothing is registered after it.
RecoveryStopsEarly(k) ==
  LET extra   == {c \in ChannelIDs : Len(ch[c]) > (IF c \in k.list THEN 1 ELSE 0)}
      missing == {c \in k.list : ch[c] = <<>> /\ extra = {}}
      op(kind, c) == [id |-> k.id, kind |-> kind, by |-> "recovery", vs |-> 0,
                      c |-> {c}, list |-> k.list]
  IN /\ Take(k, "recovery")
     /\ calls' = (calls \ {k}) \cup {op("unregister", c) : c \in extra}
                               \cup {op("register", c) : c \in missing}
     /\ UNCHANGED <<ch, latest, received, acked, recovered>>

\* Mutant: the first entry of a listed channel does not take it off the list, so
\* it is unregistered with the others.
RecoveryMatchesNone(k) ==
  LET extra == {c \in ChannelIDs : ch[c] # <<>>}
      op(kind, c) == [id |-> k.id, kind |-> kind, by |-> "recovery", vs |-> 0,
                      c |-> {c}, list |-> k.list]
  IN /\ Take(k, "recovery")
     /\ calls' = (calls \ {k}) \cup {op("unregister", c) : c \in extra}
                               \cup {op("register", c) : c \in k.list}
     /\ UNCHANGED <<ch, latest, received, acked, recovered>>

\* recoveryChannels walks the entries read: the first entry of a listed
\* channel takes it off the list, every other entry is unregistered, and what
\* remains of the list is registered.  One unregister per channel stands for one
\* per entry: $pull removes all entries of the channel, so a second finds none.
RecoveryChannels(k) ==
  LET extra   == {c \in ChannelIDs : Len(ch[c]) > (IF c \in k.list THEN 1 ELSE 0)}
      missing == {c \in k.list : ch[c] = <<>>}
      op(kind, c) == [id |-> k.id, kind |-> kind, by |-> "recovery", vs |-> 0,
                      c |-> {c}, list |-> k.list]
  IN /\ Take(k, "recovery")
     /\ calls' = (calls \ {k}) \cup {op("unregister", c) : c \in extra}
                               \cup {op("register", c) : c \in missing}
     /\ UNCHANGED <<ch, latest, received, acked, recovered>>

\* The database reports an error; recovery and pending give up silently.
CallFails(k) ==
  /\ k \in calls
  /\ calls' = calls \ {k}
  /\ recovered' = [recovered EXCEPT !.clean =
                     IF k.kind = "recovery" THEN {}
                     ELSE IF k.kind \in Membership THEN @ \ k.c ELSE @]
  /\ UNCHANGED <<ch, latest, received, acked>>

(***************************************************************************)
(* Specification                                                           *)
(***************************************************************************)
Device ==
  \/ \E i \in Ids, L \in SUBSET ChannelIDs : Hello(i, L)
  \/ \E i \in Ids, c \in ChannelIDs : Register(i, c) \/ Unregister(i, c)
  \/ \E i \in Ids, m \in received : Ack(i, m[1], m[2])
  \/ \E i \in Ids : Ping(i)

Backend == \E c \in ChannelIDs : Notify(c) \/ \E i \in Ids : Publish(i, c)

Database(k) ==
  \/ RegisterApplication(k) \/ UnregisterApplication(k) \/ NewVersion(k) \/ AckMessage(k)
  \/ GetPendingMessages(k) \/ RecoveryChannels(k) \/ CallFails(k)

Next == Device \/ Backend \/ \E k \in calls : Database(k)

Spec == Init /\ [][Next]_vars

(***************************************************************************)
(* Properties                                                              *)
(***************************************************************************)
\* However registrations, versions, acks and recoveries interleave, a channel
\* has at most one entry beside a bare one that follows it, so a notification
\* never carries two versions of a channel.
OneVersionedEntry ==
  \A c \in ChannelIDs :
    /\ Len(ch[c]) <= 2
    /\ Len(ch[c]) = 2 => ch[c][1] # Bare /\ ch[c][2] = Bare

\* The recovery protocol makes the stored channels those of the hello, for
\* every channel it found without duplicates and that nothing else touches.
RecoveryConverges ==
  \A c \in recovered.clean :
    ~Recovering /\ ~Busy(c) => (ch[c] # <<>> <=> c \in recovered.list)

\* What getPendingMessages offers of channel c, its first entry.
Unread(c) == ch[c] # <<>> /\ ch[c][1].new = "true"

\* A version stored for a channel that the device still lists stays on offer
\* until an ack of the channel executes: no hello, no recovery and no stale read
\* of one drops it.
UnreadWaitsForAck ==
  [][\A c \in recovered.clean \cap recovered.list :
       Unread(c) => Unread(c)' \/ \E k \in calls \ calls' : k.kind = "ack" /\ c \in k.c]_vars

\* What is kept for channel c is its first entry.
Kept(c) == {ch[c][j] : j \in {1} \cap DOMAIN ch[c]}

Mail == INSTANCE Mailbox WITH box <- [c \in ChannelIDs |-> Kept(c)], told <- received

\* The node document is a mailbox: duplicate entries, recoveries and calls that
\* execute late never make it keep or offer more than one version of a channel,
\* nor a version nobody published, nor keep one of a channel it does not have.
RefinesMailbox == Mail!Spec

\* datamanager.js: ackMessage "ACKs an ack'ed message", so an entry that is no
\* longer new holds a version the device has acknowledged.
OnlyAckedIsAcked ==
  \A c \in ChannelIDs :
    ch[c] # <<>> /\ ch[c][1].new = "false" /\ ch[c][1].vs > 0 => <<c, ch[c][1].vs>> \in acked

\* ws_server.js: recovery unregisters a channel that is "not in send", so never
\* one the hello lists.
ListedChannelKept ==
  \A k \in calls : k.kind = "unregister" /\ k.by = "recovery" => k.c \cap k.list = {}
=============================================================================
