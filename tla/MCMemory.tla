------------------------------- MODULE MCMemory -------------------------------
(* The two stores the process keeps in memory, each with its clock: alerts    *)
(* and tracked protocols.  They share no state, so a behaviour is one of      *)
(* theirs, and the other stays at its start.                                  *)
EXTENDS MCAlertStore, MCProtocols

VARIABLE part

MemoryInit ==
  /\ part \in {"alerts", "protocols"}
  /\ StoreInit /\ ProtocolsInit
  /\ part # "protocols" => feed = CHOOSE f \in Feeds : TRUE

MemoryNext ==
  /\ part' = part
  /\ \/ part = "alerts" /\ StoreNext /\ UNCHANGED vars
     \/ part = "protocols" /\ ProtocolsNext /\ UNCHANGED storeVars

MemorySpec == MemoryInit /\ [][MemoryNext]_<<part, storeVars, vars>> /\ Resumption
=============================================================================
