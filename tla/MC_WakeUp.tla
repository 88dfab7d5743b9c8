------------------------------ MODULE MC_WakeUp ------------------------------
(* An instance of WakeUp for TLC: one device, one network, and two messages  *)
(* of successive retries.                                                    *)
EXTENDS WakeUp

MCDeviceOf == [p \in Lookups |-> CHOOSE d \in Devices : TRUE]
MCNetworkOf == [d \in Devices |-> CHOOSE n \in Networks : TRUE]
==============================================================================
