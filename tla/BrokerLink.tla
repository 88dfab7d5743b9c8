------------------------------ MODULE BrokerLink ------------------------------
(***************************************************************************)
(* What a running process sees of its connections to the brokers, whatever *)
(* the library goes through to keep them: a connection being made becomes  *)
(* ready or goes on being made, one that is up fails and is made again, or *)
(* is ended by its broker, and then it is never made again.                *)
(***************************************************************************)
CONSTANT Brokers

VARIABLE conn   \* of each broker: "connecting", "up" or "ended"

Init == conn = [b \in Brokers |-> "connecting"]

Moves(b, from, to) == conn[b] = from /\ conn' = [conn EXCEPT ![b] = to]

Ready(b) == Moves(b, "connecting", "up")

Fails(b) == Moves(b, "up", "connecting")

Ends(b) == Moves(b, "up", "ended")

Next == \E b \in Brokers : Ready(b) \/ Fails(b) \/ Ends(b)

Spec == Init /\ [][Next]_conn
===============================================================================
