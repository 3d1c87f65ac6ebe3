------------------------------- MODULE Services -------------------------------
(***************************************************************************)
(* The two services beside Home Assistant: the recorder of the device's    *)
(* log, and the collector with its watch over tunneld.  They share no      *)
(* state, and the watch goes by the outcomes of the collector's sessions   *)
(* only, so that a behaviour is one of one part while the others rest.     *)
(***************************************************************************)
EXTENDS LogProperties, CollectorProperties, WatchProperties

VARIABLE part  \* the one that moves

servicesVars == <<part, logVars, collectorVars, watchVars>>

Part == {"log", "collector", "watch"}

(* A part that rests has found a screensaver, or a tunnel.                  *)
Rests(p) ==
  CASE p = "log" -> TRUE
    [] p = "collector" -> view = NoApp
    [] p = "watch" -> tunnel = "up"

ServicesInit ==
  /\ part \in Part
  /\ LogInit /\ CollectorInit /\ WatchInit
  /\ \A p \in Part \ {part} : Rests(p)

InPart(p, step) == part = p /\ step

ServicesNext ==
  /\ UNCHANGED part
  /\ \/ InPart("log", LogNext) /\ UNCHANGED <<collectorVars, watchVars>>
     \/ InPart("collector", CollectorNext) /\ UNCHANGED <<logVars, watchVars>>
     \/ InPart("watch", WatchNext) /\ UNCHANGED <<logVars, collectorVars>>

(* LogFairness, CollectorFairness or WatchFairness, of the part that moves. *)
ServicesFairness ==
  /\ WF_logVars(InPart("log", DeviceLogSteps)) /\ WF_logVars(InPart("log", ReaderSteps))
  /\ WF_logVars(InPart("log", WriterSteps))
  /\ WF_collectorVars(InPart("collector", PollSteps))
  /\ WF_collectorVars(InPart("collector", TickPasses))
  /\ WF_collectorVars(InPart("collector", SessionStarts))
  /\ WF_collectorVars(InPart("collector", Delivers))
  /\ WF_collectorVars(InPart("collector", Connects))
  /\ WF_watchVars(InPart("watch", WatchTick))
  /\ SF_watchVars(InPart("watch", RestartRequested))
  /\ WF_watchVars(InPart("watch", Snapshot \/ FailsOtherwise \/ IsMissing \/ RestartRefused))

ServicesSpec == ServicesInit /\ [][ServicesNext]_servicesVars /\ ServicesFairness

(* Every part keeps the types of its variables.                             *)
ServicesTypeOK == part \in Part /\ LogTypeOK /\ CollectorTypeOK /\ WatchTypeOK
=============================================================================
