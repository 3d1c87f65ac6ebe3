------------------------- MODULE CollectorProperties -------------------------
(***************************************************************************)
(* What the collector promises (src/README.md, "Install the foreground     *)
(* collector").                                                            *)
(***************************************************************************)
EXTENDS Collector

CollectorTypeOK ==
  /\ fg \in Source /\ view \in View /\ polling \in BOOLEAN
  /\ settle \in Guard /\ tracker \in Tracker /\ seen \in History
  /\ mqtt \in [connected : BOOLEAN, pipe : Seq(MessageType)]
  /\ collectorMishaps \in 0..MaxCollectorMishaps

(* The sensor is ForegroundSource: an event names one transition of one app *)
(* for good, through every repetition, outage and restart.                  *)
Sensor == INSTANCE ForegroundSource
SensorIsSource == Sensor!SourceSpec

(* "Screensaver clears, connection failures ... and longer gaps retain the  *)
(* three-second stable-app guard": after one of them an app is shown only   *)
(* when every poll for that long has found it.                              *)
SettledBeforeShown ==
  [][\A a \in Apps :
       PollsAccepted(a) /\ (seen.broken \/ (seen.unclearAge # Never /\ seen.unclearAge > Ambiguity))
         => seen.last = a /\ seen.steady >= Settle]_collectorVars

(* When nothing is under way, Home Assistant sees as available exactly what *)
(* the tracker has, and the tracker has what the last poll found, or the    *)
(* screensaver while an app settles.                                        *)
AvailableIsCurrent ==
  mqtt.connected /\ mqtt.pipe = <<>> =>
    /\ fg.online = tracker.online
    /\ fg.online => /\ fg.app = tracker.app /\ fg.event = tracker.event
                    /\ fg.app = seen.last \/ (fg.app = NoApp /\ settle.armed)

(* An app that stays in front becomes the one that Home Assistant sees.     *)
InFrontNow(a) == polling /\ view = a
FrontIsShown ==
  \A a \in Apps : InFrontNow(a) ~> \/ (fg.online /\ fg.app = a) \/ ~InFrontNow(a)
                                   \/ tracker.issued = MaxEvent
=============================================================================
