-------------------------------- MODULE Device --------------------------------
(***************************************************************************)
(* The parts of the firmware around the controller: the Bluetooth link,    *)
(* the network and the pairing with Home Assistant.  Each keeps its own    *)
(* state and none of what is modelled reads that of another, so that a     *)
(* behaviour is one of one part while the others rest, and what holds of   *)
(* the parts holds of the firmware.                                        *)
(***************************************************************************)
EXTENDS LinkProperties, NetworkProperties, PairingProperties

VARIABLE part  \* the one that moves

deviceVars == <<part, linkVars, netVars, pairVars>>

Part == {"link", "network", "pairing"}

(* A part that rests has no receiver and lies in one place.                 *)
Rests(p) ==
  CASE p = "link" -> savedMac = NoReceiver
    [] p = "network" -> \A n \in Networks : home.subnet[n] = CHOOSE s \in Subnets : TRUE
    [] p = "pairing" -> TRUE

DeviceInit ==
  /\ part \in Part
  /\ LinkInit /\ NetInit /\ PairInit
  /\ \A p \in Part \ {part} : Rests(p)

InPart(p, step) == part = p /\ step

DeviceNext ==
  /\ UNCHANGED part
  /\ \/ InPart("link", LinkNext) /\ UNCHANGED <<netVars, pairVars>>
     \/ InPart("network", NetNext) /\ UNCHANGED <<linkVars, pairVars>>
     \/ InPart("pairing", PairNext) /\ UNCHANGED <<linkVars, netVars>>

(* LinkFairness, NetFairness or PairFairness, of the part that moves.       *)
DeviceFairness ==
  /\ WF_linkVars(InPart("link", NoticesLink)) /\ SF_linkVars(InPart("link", Maintains))
  /\ SF_linkVars(InPart("link", Forgets)) /\ WF_linkVars(InPart("link", TaskStarts))
  /\ \A r \in Receivers : WF_linkVars(InPart("link", HangUpEnds(r)))
  /\ WF_linkVars(InPart("link", TimePasses)) /\ WF_linkVars(InPart("link", HalfPasses))
  /\ WF_netVars(InPart("network", maintainWifi))
  /\ WF_netVars(InPart("network", TimerElapses))
  /\ WF_pairVars(InPart("pairing", LockJoins))
  /\ \A h \in Hubs : SF_pairVars(InPart("pairing", IsRejected(h)))

DeviceSpec == DeviceInit /\ [][DeviceNext]_deviceVars /\ DeviceFairness

(* Every part keeps the types of its variables.                             *)
DeviceTypeOK == part \in Part /\ LinkTypeOK /\ NetTypeOK /\ PairTypeOK
=============================================================================
