------------------------------ MODULE SlotOwner ------------------------------
(***************************************************************************)
(* What the connector table promises, whatever the order of its callbacks: *)
(* a slot (a uaid on a worker) has at most one owner, an owner that loses  *)
(* its slot is retired in the same step, and a retired connection neither  *)
(* talks to its client nor owns a slot again.                              *)
(***************************************************************************)
CONSTANTS Slots, Owners, None

VARIABLES
  owner,    \* owner[s]: the connection that owns slot s, or None
  retired,  \* connections that have owned a slot and lost it
  talking   \* connections whose messages are handled

Init ==
  /\ owner = [s \in Slots |-> None]
  /\ retired = {}
  /\ talking = {}

\* Connections may start or stop talking; retired ones never start.
Talk ==
  /\ talking' \in SUBSET (Owners \ retired)
  /\ UNCHANGED <<owner, retired>>

\* The loser, if any, is retired and the winner is new to the table.
Claim(s, o) ==
  /\ o \notin retired
  /\ \A t \in Slots : owner[t] # o
  /\ owner' = [owner EXCEPT ![s] = o]
  /\ retired' = retired \cup ({owner[s]} \ {None})
  /\ talking' \in SUBSET (Owners \ retired')

\* Some slots lose their owners: one when its session is unregistered, all the
\* slots of a worker when it exits.
Release(S) ==
  /\ owner' = [s \in Slots |-> IF s \in S THEN None ELSE owner[s]]
  /\ retired' = retired \cup ({owner[s] : s \in S} \ {None})
  /\ talking' \in SUBSET (Owners \ retired')

Next ==
  \/ Talk
  \/ \E s \in Slots, o \in Owners : Claim(s, o)
  \/ \E S \in SUBSET Slots : Release(S)

Spec == Init /\ [][Next]_<<owner, retired, talking>>

=============================================================================
