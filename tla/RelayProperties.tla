--------------------------- MODULE RelayProperties ---------------------------
(***************************************************************************)
(* What the relay and the device promise together (src/README.md, "Normal  *)
(* operation", and the comments of AppRelay).                              *)
(***************************************************************************)
EXTENDS Relay

Request == [claim : Handoff, reauthorize : BOOLEAN]

(* Every variable has its type; a request is under way exactly while the    *)
(* relay waits for it.                                                      *)
TypeOK ==
  /\ fg \in Source /\ pb \in Player /\ relay \in RelayState
  /\ line \in Seq(Request) /\ Len(line) <= MaxMishaps + 1
  /\ dev \in [app : MaybeApp, event : 0..MaxEvent]
  /\ ghost \in [granted : SUBSET (1..MaxEvent), told : BOOLEAN, news : BOOLEAN]
  /\ mishaps \in 0..MaxMishaps
  /\ relay.pc = "post" <=> relay.flight # Nothing
  /\ relay.pc = "post" => line # <<>> /\ line[Len(line)].claim = relay.flight

GrantsCurrent == dev'.event # dev.event /\ dev'.event = fg.event

(* "A transport retry cannot renew its short idle authorization": neither a *)
(* lost answer, a request that arrives late, a flap of the sensor nor a     *)
(* restart of Home Assistant makes the device grant an event again.         *)
RetryGrantsNothing == [][dev'.event # dev.event => dev'.event \notin ghost.granted \ {0}]_vars

(* What was delivered once is no news any more: no heartbeat and no change  *)
(* of the player grants it, on a device that has just started either, as    *)
(* long as the sensor does not announce it anew.                            *)
DeliveredIsNotNews == [][GrantsCurrent => ~ghost.told]_vars

(* The idle app a is in front for the relay to claim: the device has not    *)
(* been told yet, or it is what was claimed last.                           *)
InFront(a) ==
  /\ Playback = "separate" /\ pb.state = "idle"
  /\ fg.online /\ fg.app = a /\ a # relay.deferred
  /\ ghost.news \/ relay.last = Claim(a, "no", fg.event)

Plays(a) == Playback = "separate" /\ pb = [state |-> "playing", app |-> a]

(* "Deliver the newest foreground generation without dropping races", and   *)
(* "active playback with a valid app identity owns the receiver": the app   *)
(* that plays or is in front becomes the owner, whatever answer was lost,   *)
(* whatever changed while a request was under way and whoever restarted.    *)
Due(a) == InFront(a) \/ Plays(a)
DueIsOwner == \A a \in Apps : Due(a) ~> (dev.app = a \/ ~Due(a))

-----------------------------------------------------------------------------
(* What the documentation says and the code does not keep.                  *)

TurnedOff == Playback = "combined" /\ pb.state = "off"

(* The clear that follows the player being turned off is delivered.         *)
OffClearsOwner == TurnedOff ~> (dev.app = NoApp \/ ~TurnedOff)
=============================================================================
