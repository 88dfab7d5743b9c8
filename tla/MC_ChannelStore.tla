---------------------------- MODULE MC_ChannelStore ----------------------------
(* Small instances of ChannelStore; channels are interchangeable, and so are
   the tokens of the calls. *)
EXTENDS ChannelStore, TLC

Symmetry == Permutations(ChannelIDs) \cup Permutations(Ids)
=============================================================================
