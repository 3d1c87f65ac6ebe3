-------------------------------- MODULE Relay --------------------------------
(***************************************************************************)
(* AppRelay of src/custom_components/denon_app_volume/__init__.py: it      *)
(* joins the sensor of the foreground app with the media player of the     *)
(* Apple TV and tells the ESP32 which app owns the receiver, and whether   *)
(* that app may restore its level on an idle receiver.  Requests are lost, *)
(* time out, are answered in vain or refused, both ends restart, and the   *)
(* sources change while a request is under way.                            *)
(***************************************************************************)
EXTENDS ForegroundSource, Sequences

CONSTANTS
  Playback,   \* "separate": a media player next to the sensor, "combined": the
              \* media player is the sensor, "none": no single media player
  MaxMishaps  \* how many things go wrong, of any kind

ASSUME RelayAssumption ==
  Playback \in {"separate", "combined", "none"} /\ MaxMishaps \in Nat

VARIABLES
  pb,       \* the media player
  relay,    \* AppRelay
  line,     \* requests the device has not read yet, also those given up
  dev,      \* the owner and the last event granted, as the device has them
  ghost,    \* granted: the events granted since the device started; of the event of
            \* the sensor, told: it was delivered since its announcement, news: the
            \* relay has yet to tell it
  mishaps   \* how many things have gone wrong

vars == <<fg, pb, relay, line, dev, ghost, mishaps>>

Unknown == "unknown"

(* Next to a sensor, the app of an idle player is not looked at, and one    *)
(* that is off, unavailable or in any other state is treated alike.         *)
Silent == IF Playback = "combined" THEN {"unavailable", "off", "other"} ELSE {"unavailable"}
Player == [state : Silent, app : {NoApp}]
            \cup [state : {"playing"}, app : MaybeApp]
            \cup [state : {"idle"}, app : IF Playback = "combined" THEN MaybeApp ELSE {NoApp}]

(* playing and event are None in the code where they are Unknown and 0 here. *)
Handoff == [app : MaybeApp, playing : {"yes", "no", Unknown}, event : 0..MaxEvent]
Claim(a, playing, event) == [app |-> a, playing |-> playing, event |-> event]
Nothing == Claim(NoApp, "never", 0)

(* fresh: _foreground_generation # _foreground_delivered_generation;        *)
(* superseded: it has advanced since the turn began; heartbeat: the turn    *)
(* began when nothing was to be delivered.                                  *)
RelayState == [pc : {"wait", "sync", "post"}, changed : BOOLEAN, fresh : BOOLEAN,
               superseded : BOOLEAN, deferred : MaybeApp \cup {Unknown},
               last : Handoff \cup {Nothing}, flight : Handoff \cup {Nothing}]

NewRelay == [pc |-> "sync", changed |-> FALSE, fresh |-> FALSE, superseded |-> FALSE,
             deferred |-> Unknown, last |-> Nothing, flight |-> Nothing]

Init ==
  /\ SourceInit
  /\ pb = [state |-> "unavailable", app |-> NoApp]
  /\ relay = NewRelay
  /\ line = <<>>
  /\ dev = [app |-> NoApp, event |-> 0]
  /\ ghost = [granted |-> {}, told |-> FALSE, news |-> FALSE]
  /\ mishaps = 0

Mishap == mishaps < MaxMishaps /\ mishaps' = mishaps + 1

-----------------------------------------------------------------------------
(* What a turn of the relay sees and makes of it.                           *)

(* _app_payload() of the source.                                            *)
Foreground ==
  IF Playback = "combined"
  THEN IF pb.state = "unavailable" THEN Unknown ELSE pb.app
  ELSE IF fg.online THEN fg.app ELSE Unknown

(* An entity that is unavailable has no attributes.                         *)
EventOf == IF Playback # "combined" /\ fg.online THEN fg.event ELSE 0

Revocation ==
  IF relay.last.app = NoApp THEN Nothing ELSE [relay.last EXCEPT !.playing = Unknown]

NothingOrRevocation == IF relay.fresh THEN Nothing ELSE Revocation

(* The outcome of _gated_payload(): the claim, and the app that has to play *)
(* before it is claimed.                                                    *)
Gated(claim, deferred) == [claim |-> claim, deferred |-> deferred]

WhilePlaying ==
  IF pb.app = NoApp
  THEN Gated(NothingOrRevocation, Foreground)
  ELSE Gated(Claim(pb.app, "yes", EventOf),
             IF Foreground \in {Unknown, pb.app, NoApp} THEN Unknown ELSE Foreground)

ClaimFront ==
  Claim(Foreground, IF Foreground = NoApp THEN Unknown ELSE "no", EventOf)

WhileIdle ==
  IF relay.fresh
  THEN IF Foreground = Unknown \/ (Foreground # NoApp /\ Foreground = relay.deferred)
       THEN Gated(Revocation, relay.deferred)
       ELSE Gated(ClaimFront, Unknown)
  ELSE IF EventOf # 0 /\ relay.last = Claim(Foreground, "no", EventOf)
       THEN Gated(relay.last, relay.deferred)
       ELSE Gated(Revocation, relay.deferred)

GatedPayload ==
  CASE Playback = "none" -> Gated(Nothing, Foreground)
    [] Playback = "combined" /\ pb.state = "off" ->
         Gated(Claim(NoApp, Unknown, EventOf), relay.deferred)
    [] Playback # "none" /\ pb.state = "playing" -> WhilePlaying
    [] Playback # "none" /\ pb.state = "idle" -> WhileIdle
    [] OTHER -> Gated(NothingOrRevocation, relay.deferred)

(* A faulty variant: what the device has been told is not told again.       *)
SaidBefore(force, claim) == claim = relay.last /\ (~relay.fresh \/ claim.playing # "no")
Said(force, claim) ==
  /\ claim = relay.last
  /\ ~force \/ claim.app = NoApp
  /\ ~relay.fresh \/ claim.playing # "no"

(* A faulty variant: a heartbeat looks like news.                           *)
ReauthorizesNever(claim) == FALSE
Reauthorizes(claim) == ~relay.fresh /\ claim.playing = "no"

-----------------------------------------------------------------------------
(* The relay.                                                               *)

(* _async_send_pending() up to its first await.                             *)
Turn(force) ==
  LET gated == GatedPayload
      begun == [relay EXCEPT !.deferred = gated.deferred, !.superseded = FALSE,
                             !.changed = @ /\ force]
  IN \/ /\ gated.claim = Nothing
        /\ relay' = [begun EXCEPT !.pc = "wait"]
        /\ UNCHANGED <<line, ghost>>
     \/ /\ gated.claim # Nothing /\ Said(force, gated.claim)
        /\ relay' = [begun EXCEPT !.pc = "wait", !.fresh = FALSE]
        /\ ghost' = [ghost EXCEPT !.news = FALSE]
        /\ UNCHANGED line
     \/ /\ gated.claim # Nothing /\ ~Said(force, gated.claim)
        /\ relay' = [begun EXCEPT !.pc = "post", !.flight = gated.claim]
        /\ line' = Append(line, [claim |-> gated.claim,
                                 reauthorize |-> Reauthorizes(gated.claim)])
        /\ UNCHANGED ghost

(* async_run() wakes up because a source has changed.                       *)
Wake ==
  /\ relay.pc = "wait" /\ relay.changed
  /\ Turn(FALSE)
  /\ UNCHANGED <<fg, pb, dev, mishaps>>

(* It times out, and begins with the backup.                                *)
Heartbeat ==
  /\ relay.pc = "wait" /\ ~relay.changed
  /\ relay' = [relay EXCEPT !.pc = "sync"]
  /\ UNCHANGED <<fg, pb, line, dev, ghost, mishaps>>

Synced ==
  /\ relay.pc = "sync"
  /\ Turn(TRUE)
  /\ UNCHANGED <<fg, pb, dev, mishaps>>

Over(r) == [r EXCEPT !.pc = "wait", !.flight = Nothing, !.superseded = FALSE]

(* _async_send_current() after a 2xx, and the check of the generation.      *)
Delivered ==
  Over([relay EXCEPT !.last = relay.flight, !.fresh = @ /\ relay.superseded])

Failed == Over(relay)

HomeAssistantStarts ==
  /\ Mishap
  /\ relay' = NewRelay
  /\ ghost' = [ghost EXCEPT !.news = FALSE]
  /\ UNCHANGED <<fg, pb, line, dev>>

-----------------------------------------------------------------------------
(* The device: receiveApp() and queueAppCandidate(), as far as the relay    *)
(* can tell.                                                                *)

Grants(r) ==
  r.claim.playing = "no" /\ r.claim.event \notin {0, dev.event} /\ ~r.reauthorize

(* A faulty variant: the event is forgotten with the owner.                 *)
DeviceAfterForgetting(r) ==
  [app |-> r.claim.app, event |-> IF Grants(r) THEN r.claim.event
                                  ELSE IF r.claim.app = dev.app THEN dev.event ELSE 0]
DeviceAfter(r) ==
  [app |-> r.claim.app, event |-> IF Grants(r) THEN r.claim.event ELSE dev.event]

Received(r, inTime) ==
  /\ dev' = DeviceAfter(r)
  /\ ghost' = [ghost EXCEPT !.granted = IF Grants(r) THEN @ \cup {r.claim.event} ELSE @,
                            !.told = @ \/ (inTime /\ r.claim.event = fg.event),
                            !.news = @ /\ ~inTime]

(* The request at the head of the line is the one the relay waits for.      *)
Awaited == relay.pc = "post" /\ Len(line) = 1

Accepts ==
  /\ line # <<>>
  /\ Received(Head(line), Awaited /\ ~relay.superseded)
  /\ line' = Tail(line)
  /\ relay' = IF Awaited THEN Delivered ELSE relay
  /\ UNCHANGED <<fg, pb, mishaps>>

(* The device obeys and its answer is lost.                                 *)
AnswerIsLost ==
  /\ Awaited /\ Mishap
  /\ Received(Head(line), FALSE)
  /\ line' = <<>>
  /\ relay' = Failed
  /\ UNCHANGED <<fg, pb>>

(* The device answers 503 or 401, or cannot be reached.                     *)
Refuses ==
  /\ Awaited /\ Mishap
  /\ line' = <<>>
  /\ relay' = Failed
  /\ UNCHANGED <<fg, pb, dev, ghost>>

(* The relay gives up; the device reads the request later all the same.     *)
TimesOut ==
  /\ relay.pc = "post" /\ Mishap
  /\ relay' = Failed
  /\ UNCHANGED <<fg, pb, line, dev, ghost>>

DeviceStarts ==
  /\ Mishap
  /\ dev' = [app |-> NoApp, event |-> 0]
  /\ line' = <<>>
  /\ relay' = IF relay.pc = "post" THEN Failed ELSE relay
  /\ ghost' = [ghost EXCEPT !.granted = {}]
  /\ UNCHANGED <<fg, pb>>

-----------------------------------------------------------------------------
(* The sources.                                                             *)

(* async_notify() for the entity of the app.                                *)
NotifiedOfSource ==
  [relay EXCEPT !.changed = TRUE, !.fresh = TRUE, !.superseded = (relay.pc = "post")]
NotifiedOfPlayer ==
  IF Playback = "combined" THEN NotifiedOfSource ELSE [relay EXCEPT !.changed = TRUE]

SensorChanges ==
  /\ Playback # "combined"
  /\ SourceNext
  /\ relay' = IF fg.online \/ fg'.online THEN NotifiedOfSource ELSE relay
  /\ ghost' = [ghost EXCEPT !.news = @ \/ fg.online \/ fg'.online,
                            !.told = @ /\ ~fg'.online /\ fg'.event = fg.event]
  /\ UNCHANGED <<pb, line, dev, mishaps>>

PlayerChanges ==
  /\ \E p \in Player \ {pb} : pb' = p
  /\ relay' = NotifiedOfPlayer
  /\ UNCHANGED <<fg, line, dev, ghost, mishaps>>

-----------------------------------------------------------------------------
Next ==
  \/ Wake \/ Heartbeat \/ Synced
  \/ Accepts \/ AnswerIsLost \/ Refuses \/ TimesOut
  \/ HomeAssistantStarts \/ DeviceStarts
  \/ SensorChanges \/ PlayerChanges

Spec == Init /\ [][Next]_vars

(* The sources are quiet for five seconds again and again: a change of them *)
(* starts the wait of async_run() anew.                                     *)
FairSpec ==
  /\ Spec
  /\ WF_vars(Wake) /\ SF_vars(Heartbeat) /\ WF_vars(Synced) /\ WF_vars(Accepts)
=============================================================================
