---------------------------- MODULE MobileNetwork ----------------------------
(***************************************************************************)
(* The cache of mobile networks of one process,                            *)
(* common/MobileNetwork/MobileNetwork.js, over the connection that         *)
(* common/DataStore/DataStore.js opens and the documents of DB/operator.js, *)
(* which the administrator's scripts write behind the back of the servers. *)
(*                                                                         *)
(* A lookup that misses is sent, executed by the database and answered in  *)
(* three steps; other lookups, changes and resets fall between them.       *)
(***************************************************************************)
CONSTANTS
  Networks,    \* an mcc with an mnc, as padded by getNetwork
  Operators,   \* the contents an operator document can have
  Lookups,     \* what tells the lookups in flight apart, and bounds them
  NoOperator

ASSUME NoOperatorIsNone == NoOperator \notin Operators

VARIABLES
  db,         \* the connection of mongoose
  ready,      \* this.ready
  operators,  \* the operator documents
  cache,      \* this.cache
  lookup,     \* each lookup in flight, with the network asked for, and once
              \* it is "read" the document
  since,      \* history: the documents each network had since the last reset
  tainted     \* history: the networks with a lookup that had been read, and
              \* not answered, at the last reset

networkVars == <<db, ready, operators, cache, lookup, since, tainted>>

Document == Operators \cup {NoOperator}

Idle == [stage |-> "idle"]

LookupState == {Idle} \cup [stage : {"sent"}, net : Networks]
                      \cup [stage : {"read"}, net : Networks, value : Document]

NetworkTypeOK ==
  /\ db \in {"idle", "connecting", "open", "closed"}
  /\ ready \in BOOLEAN
  /\ operators \in [Networks -> Document]
  /\ cache \in [Networks -> Document]
  /\ lookup \in [Lookups -> LookupState]
  /\ since \in [Networks -> SUBSET Document]
  /\ tainted \in SUBSET Networks

NetworkInit ==
  /\ db = "idle" /\ ready = FALSE
  /\ operators \in [Networks -> Document]
  /\ cache = [n \in Networks |-> NoOperator]
  /\ lookup = [c \in Lookups |-> Idle]
  /\ since = [n \in Networks |-> {operators[n]}]
  /\ tainted = {}

(***************************************************************************)
(* The connection and the cache                                            *)
(***************************************************************************)
\* Mutant: the variable that is emptied is not this.cache.
ResetCacheKept ==
  /\ UNCHANGED cache
  /\ since' = [n \in Networks |-> {operators[n]}]
  /\ tainted' = {n \in Networks : \E c \in Lookups : lookup[c].stage = "read" /\ lookup[c].net = n}

\* resetCache, with what the histories make of it.
ResetCache ==
  /\ cache' = [n \in Networks |-> NoOperator]
  /\ since' = [n \in Networks |-> {operators[n]}]
  /\ tainted' = {n \in Networks : \E c \in Lookups : lookup[c].stage = "read" /\ lookup[c].net = n}

\* init(): the cache is reset and the data store connects.
InitNetwork ==
  /\ db = "idle"
  /\ db' = "connecting"
  /\ ResetCache
  /\ UNCHANGED <<ready, operators, lookup>>

Reset ==
  /\ ResetCache
  /\ UNCHANGED <<db, ready, operators, lookup>>

\* 'open' of mongoose makes DataStore emit 'connected'.
Connected ==
  /\ db = "connecting"
  /\ db' = "open" /\ ready' = TRUE
  /\ UNCHANGED <<operators, cache, lookup, since, tainted>>

\* close(), and the 'disconnected' that follows it.
Closed ==
  /\ db = "open"
  /\ db' = "closed" /\ ready' = FALSE
  /\ UNCHANGED <<operators, cache, lookup, since, tainted>>

\* The administrator adds, changes or removes an operator.
ChangeOperator(n, o) ==
  /\ operators' = [operators EXCEPT ![n] = o]
  /\ since' = [since EXCEPT ![n] = @ \cup {o}]
  /\ UNCHANGED <<db, ready, cache, lookup, tainted>>

(***************************************************************************)
(* getNetwork                                                              *)
(***************************************************************************)
\* The network is in the cache: the callback runs at once.
Hit(n) == cache[n] # NoOperator /\ UNCHANGED networkVars

\* It is not: findById is called, and buffered while the database is not open.
Miss(c, n) ==
  /\ cache[n] = NoOperator
  /\ lookup[c] = Idle
  /\ lookup' = [lookup EXCEPT ![c] = [stage |-> "sent", net |-> n]]
  /\ UNCHANGED <<db, ready, operators, cache, since, tainted>>

Executes(c) ==
  /\ db = "open" /\ lookup[c].stage = "sent"
  /\ lookup' = [lookup EXCEPT ![c] =
       [stage |-> "read", net |-> @.net, value |-> operators[@.net]]]
  /\ UNCHANGED <<db, ready, operators, cache, since, tainted>>

\* The callback of the read, with an error, and with a document or null; only
\* a document is put in the cache.
Fails(c) ==
  /\ lookup[c] # Idle /\ db = "open"
  /\ lookup' = [lookup EXCEPT ![c] = Idle]
  /\ UNCHANGED <<db, ready, operators, cache, since, tainted>>

Returns(c) ==
  /\ lookup[c].stage = "read"
  /\ lookup' = [lookup EXCEPT ![c] = Idle]
  /\ cache' = IF lookup[c].value = NoOperator THEN cache
              ELSE [cache EXCEPT ![lookup[c].net] = lookup[c].value]
  /\ UNCHANGED <<db, ready, operators, since, tainted>>

(***************************************************************************)
(* What the cache promises                                                 *)
(***************************************************************************)
\* A cached operator is one that the network's document has been since the last
\* reset, unless a lookup of that network was waiting for its answer then.
CacheFresh ==
  \A n \in Networks : cache[n] # NoOperator => cache[n] \in since[n] \/ n \in tainted
==============================================================================
