--------------------------- MODULE MC_PushPipeline ---------------------------
(* An instance of PushPipeline for TLC.  The bodies: too long, not          *)
(* "version=", "version=", "version=0", "version=1", and "version=1e1", with *)
(* 2 for the 10 it is taken for.                                            *)
EXTENDS PushPipeline, TLC

MCBodies ==
  {[kind |-> "long", lead |-> NotNat, num |-> NotNat],
   [kind |-> "malformed", lead |-> NotNat, num |-> NotNat],
   [kind |-> "version", lead |-> NotNat, num |-> 0],
   [kind |-> "version", lead |-> 0, num |-> 0],
   [kind |-> "version", lead |-> 1, num |-> 1],
   [kind |-> "version", lead |-> 1, num |-> 2]}

\* Workers differ in nothing but their state.
Symmetry == Permutations(Workers)
==============================================================================
