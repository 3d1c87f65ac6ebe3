-------------------------- MODULE ForegroundSource --------------------------
(***************************************************************************)
(* What Home Assistant sees of the app in front of the Apple TV: the MQTT  *)
(* sensor that src/tools/appletv_foreground/collector.py publishes.  An    *)
(* event names one transition: as long as it stays, so does the app, and   *)
(* an outage of the sensor takes nothing back.  Relay works from this, and *)
(* Collector is shown to implement it.                                     *)
(***************************************************************************)
EXTENDS Naturals

CONSTANTS
  Apps,      \* the apps of the Apple TV
  NoApp,     \* nothing is in front
  MaxEvent   \* the last event of a behaviour

ASSUME SourceAssumption == NoApp \notin Apps /\ MaxEvent \in Nat

VARIABLE fg  \* the sensor; event 0: nothing has been published yet

MaybeApp == Apps \cup {NoApp}

Source == [online : BOOLEAN, app : MaybeApp, event : 0..MaxEvent]

SourceInit == fg = [online |-> FALSE, app |-> NoApp, event |-> 0]

Outage == fg.online /\ fg' = [fg EXCEPT !.online = FALSE]

Return == ~fg.online /\ fg.event > 0 /\ fg' = [fg EXCEPT !.online = TRUE]

(* Another app, or any after an outage: the collector may have started anew, *)
(* and with it an event that nobody has seen may be gone.                    *)
Announce(a) ==
  /\ a # fg.app \/ ~fg.online
  /\ \E online \in {fg.online, TRUE}, event \in (fg.event + 1)..MaxEvent :
       fg' = [online |-> online, app |-> a, event |-> event]

SourceNext == Outage \/ Return \/ \E a \in MaybeApp : Announce(a)

SourceSpec == SourceInit /\ [][SourceNext]_fg
=============================================================================
