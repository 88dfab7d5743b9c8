----------------------------- MODULE MC_MsgBroker -----------------------------
(* Small instances of MsgBroker. *)
EXTENDS MsgBroker
=============================================================================
