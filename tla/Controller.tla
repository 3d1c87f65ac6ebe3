----------------------------- MODULE Controller -----------------------------
(***************************************************************************)
(* The ESP32 main loop (src/src/main.cpp) between Home Assistant and the   *)
(* Denon receiver: HTTP handlers, the maintain... steps of loop(), the     *)
(* Bluetooth serial link with commands and reports in flight, a receiver   *)
(* that also has a user with a remote, link losses and power losses.       *)
(*                                                                         *)
(* loop() is single-threaded, so every handler is one step; which of them  *)
(* runs next, and whether a timer has run out, is left open.               *)
(***************************************************************************)
EXTENDS Feedback, Sequences

CONSTANTS
  InitSaved,  \* the app table found in NVS at the first boot
  InitLevel,  \* where the receiver stands
  InitMuted,  \* the ways it may be muted at the start
  Gains,      \* how many raw steps one volume command may move the receiver
  Reordered,  \* the receiver may send a mute report before the volume report
  SlowLink,   \* the timers that wait for the receiver may run out early
  LateReports,\* a report may come in after the last read before a link loss
  MaxQueue,   \* no status poll when so much is in flight already
  MaxIdle, MaxUpdates,                        \* bounds on what HA sends,
  MaxManual, MaxRemote,                       \* on what the users do,
  MaxDrops, MaxBoots, MaxWriteFailures        \* and on what fails

ASSUME ControllerAssumption ==
  /\ InitSaved \in [Apps -> MaybeLevel]
  /\ InitLevel \in Level
  /\ InitMuted \subseteq BOOLEAN
  /\ Gains \subseteq Nat \ {0}
  /\ Reordered \subseteq BOOLEAN
  /\ {SlowLink, LateReports} \subseteq BOOLEAN
  /\ {MaxQueue, MaxIdle, MaxUpdates, MaxManual, MaxRemote, MaxDrops, MaxBoots,
      MaxWriteFailures} \subseteq Nat
  /\ MaxIdle <= MaxEvent

VARIABLES
  f,      \* the firmware state
  link,   \* serialBt.connected()
  rx,     \* the receiver
  toRx,   \* commands in flight
  fromRx, \* reports in flight, or received and not yet read
  ha,     \* the request Home Assistant sent last
  heard,  \* ghost: who had set the level of the last volume report read
  used    \* how much of each bound is used up

vars == <<f, link, rx, toRx, fromRx, ha, heard, used>>

(* Ghost: who set a level.  An app: its user did, with that app in front.   *)
(* NoApp: nobody, or a restore that reached its target.  Midway: a command  *)
(* of a restore that has not reached its target.                            *)
Midway == "midway"
Setter == MaybeApp \cup {Midway}

Click(up, goal, by) == [kind |-> IF up THEN "up" ELSE "down", goal |-> goal, by |-> by]
GetStatus == [kind |-> "status", goal |-> None, by |-> NoApp]
MuteOn == [kind |-> "mute", goal |-> None, by |-> NoApp]
Command == [kind : {"up", "down", "status", "mute"}, goal : MaybeLevel, by : MaybeApp]

VolumeReport(r) == [kind |-> "volume", raw |-> r.vol, by |-> r.by, on |-> FALSE]
MuteReport(r) == [kind |-> "mute", raw |-> None, by |-> NoApp, on |-> r.muted]
Report == [kind : {"volume"}, raw : Level, by : Setter, on : {FALSE}]
          \cup [kind : {"mute"}, raw : {None}, by : {NoApp}, on : BOOLEAN]

(* broken: ghost, a click of a target has undone the user's mute.           *)
Receiver == [vol : Level, muted : BOOLEAN, by : Setter, broken : BOOLEAN]

Bound == [idle |-> MaxIdle, updates |-> MaxUpdates, manual |-> MaxManual,
          remote |-> MaxRemote, drops |-> MaxDrops, boots |-> MaxBoots,
          failures |-> MaxWriteFailures]

(* event is 0 if the request is not about a foreground transition; answered: *)
(* Home Assistant got a 202 for it; last: the app of the last such request. *)
Request == [app : MaybeApp, event : EventId, kind : {"none", "idle", "active", "unknown"},
            answered : BOOLEAN, last : MaybeApp]
NoRequest == [app |-> NoApp, event |-> 0, kind |-> "none", answered |-> FALSE,
              last |-> NoApp]

Use(what) == used[what] < Bound[what] /\ used' = [used EXCEPT ![what] = @ + 1]

Quiescent == toRx = <<>> /\ fromRx = <<>>

(* A timer that waits for the receiver (300 ms to 2 s) runs out: not before *)
(* what is in flight has arrived, unless the link is slow.                  *)
Overdue == SlowLink \/ Quiescent

Init ==
  /\ f = Boot(FALSE, InitSaved)
  /\ link = FALSE
  /\ rx \in [vol : {InitLevel}, muted : InitMuted, by : {NoApp}, broken : {FALSE}]
  /\ toRx = <<>> /\ fromRx = <<>>
  /\ ha = NoRequest
  /\ heard = NoApp
  /\ used = [what \in DOMAIN Bound |-> 0]

-----------------------------------------------------------------------------
(* Steps of the firmware.                                                   *)

Env == <<link, rx, fromRx, ha, heard>>

Becomes(g) == f' = g /\ UNCHANGED <<toRx, used, Env>>

(* sendDenon() writes cmds and the firmware goes on as done, or a write     *)
(* comes up short and it goes on as failed.                                 *)
Sends(cmds, done, failed) ==
  \/ f' = done /\ toRx' = toRx \o cmds /\ UNCHANGED <<used, Env>>
  \/ Use("failures") /\ f' = failed /\ UNCHANGED <<toRx, Env>>

(* POST /api/app with a well-formed identity, after authorization: an idle  *)
(* event is refused with 503, its id unconsumed, while the receiver state   *)
(* is not authoritative.                                                    *)
playbackIdleEventReady ==
  /\ link /\ f.sess /\ f.vol >= 0 /\ f.muteKnown /\ ~f.remReq
  /\ ~(f.t.target >= 0 /\ ~f.t.auto)
  /\ volumeCommandAllowed(f.muteKnown, f.muted, f.locked) \/ (f.muted /\ f.locked)

Received(a, kind, e, reauth) ==
  IF kind = "idle" /\ ~playbackIdleEventReady
  THEN IF f.credit.target >= 0 /\ ~reconnectRestoreMatches(f, a, e)
       THEN invalidateReconnectRestore(f) ELSE f
  ELSE queueAppCandidate(f, a, kind, e, reauth)

AppEnv == <<link, rx, toRx, fromRx, heard>>

Answered(r) == [r EXCEPT !.answered = TRUE, !.last = r.app]

(* A foreground transition with playback authoritatively idle.  The answer  *)
(* may be lost.                                                             *)
ReceiveIdle(a) ==
  /\ Use("idle")
  /\ LET r == [ha EXCEPT !.app = a, !.event = used.idle + 1, !.kind = "idle",
                         !.answered = FALSE]
     IN ha' \in {r} \cup {x \in {Answered(r)} : playbackIdleEventReady}
  /\ f' = Received(a, "idle", used.idle + 1, FALSE)
  /\ UNCHANGED AppEnv

(* The same transition again: a retry of a request without a 202, a state   *)
(* change that is no transition, or, after a 202, the five-second heartbeat *)
(* that asks for reauthorization after a link loss.                         *)
ReceiveAgain(reauth) ==
  /\ ha.event > 0
  /\ reauth => ha.kind = "idle" /\ ha.answered
  /\ Use("updates")
  /\ LET r == [ha EXCEPT !.kind = "idle"]
     IN ha' \in {r} \cup {x \in {Answered(r)} : playbackIdleEventReady}
  /\ f' = Received(ha.app, "idle", ha.event, reauth)
  /\ UNCHANGED AppEnv

(* Another app owns active playback.                                        *)
ReceiveActive(a) ==
  /\ Use("updates")
  /\ ha' = Answered([NoRequest EXCEPT !.app = a, !.kind = "active"])
  /\ f' = Received(a, "active", 0, FALSE)
  /\ UNCHANGED AppEnv

(* Home Assistant revokes the lease of the app of the last 202.             *)
ReceiveRevocation ==
  /\ ha.last # NoApp
  /\ Use("updates")
  /\ ha' = [ha EXCEPT !.kind = "unknown"]
  /\ f' = Received(ha.last, "unknown", 0, FALSE)
  /\ UNCHANGED AppEnv

ReceiveClear ==
  /\ Use("updates")
  /\ ha' = NoRequest
  /\ f' = clearCurrentApp(f)
  /\ UNCHANGED AppEnv

(* An identity such as "unknown" or "none".                                 *)
ReceiveIgnored ==
  /\ f.credit # NoCredit \/ f.pendReconnect >= 0
  /\ Use("updates")
  /\ f' = invalidateReconnectRestore(f)
  /\ UNCHANGED <<ha, AppEnv>>

(* Faulty variant: the handlers forget the mute.                            *)
ManualWhileMuted == ~f.remReq /\ f.t.target < 0

ManualAllowed ==
  ~f.remReq /\ volumeCommandAllowed(f.muteKnown, f.muted, f.locked) /\ f.t.target < 0

(* POST /api/volume/up and /down, when not refused.                         *)
SendVolume(up) ==
  /\ ManualAllowed /\ link
  /\ Use("manual")
  /\ f' = cancelVolumeRestore(acceptManualVolumeFeedback(
            invalidateReconnectRestore(f), IF up THEN 1 ELSE -1))
  /\ toRx' = Append(toRx, Click(up, None, f.cur))
  /\ UNCHANGED Env

(* POST /api/volume/target, when not refused.                               *)
SendTargetVolume(level) ==
  /\ ManualAllowed /\ link /\ f.vol >= 0
  /\ Use("manual")
  /\ f' = invalidateReconnectRestore(setVolume(
            acceptManualVolumeFeedback(f, volumeDirection(f.vol, level)), level, FALSE))
  /\ UNCHANGED <<toRx, Env>>

-----------------------------------------------------------------------------
(* readDenon(): one packet of the serial buffer.  A Preferences call it     *)
(* makes may fail.                                                          *)
ReadDenon ==
  /\ fromRx # <<>>
  /\ fromRx' = Tail(fromRx)
  /\ LET r == Head(fromRx)
     IN IF r.kind = "volume"
        THEN f' = observeVolume(f, r.raw) /\ heard' = r.by /\ UNCHANGED used
        ELSE /\ \/ f' = observeMute(f, r.on, TRUE) /\ UNCHANGED used
                \/ /\ observeMute(f, r.on, TRUE) # observeMute(f, r.on, FALSE)
                   /\ Use("failures")
                   /\ f' = observeMute(f, r.on, FALSE)
             /\ UNCHANGED heard
  /\ UNCHANGED <<link, rx, toRx, ha>>

maintainManualMuteLock ==
  /\ f.autoFb /\ Overdue
  /\ Becomes([f EXCEPT !.autoFb = FALSE, !.lockRaw = f.vol])

(* The 750 ms identity debounce is over; a manual target is not disturbed.  *)
(* A faulty variant: a candidate whose lease has run out is passed over.    *)
SwitchUnderLease ==
  /\ f.pend # NoApp /\ f.pendAuth = "fresh" /\ Overdue
  /\ Becomes(activatePendingApp(f))

maintainAppSwitch ==
  /\ f.pend # NoApp /\ Overdue
  /\ f.t.target < 0 \/ f.t.auto
  /\ Becomes(activatePendingApp(f))

maintainAutomaticRemute ==
  /\ f.remReq /\ ~f.t.cycle /\ link /\ f.sess /\ f.muteKnown /\ Overdue
  /\ Sends(<<MuteOn>>, [f EXCEPT !.remConf = TRUE, !.muteKnown = FALSE], f)

(* What maintainVolumeRestore checks before it looks at the phase.          *)
RestoreRuns ==
  /\ f.t.target >= 0 /\ f.t.armed /\ link /\ f.sess
  /\ ~f.remReq \/ f.t.cycle

LeaseLost == f.t.cycle /\ f.curAuth # "fresh"

(* handleClient() takes one request at the start of a pass of loop(): by    *)
(* then maintainVolumeRestore() of the last pass has dealt with a muted     *)
(* restore that waited for its first command.                               *)
NewPass == ~(RestoreRuns /\ f.t.phase = "waitAutomaticUnmute")

(* A faulty variant: the deadline runs from the first command.              *)
DeadlineOnceMoving == RestoreRuns /\ f.t.steps > 0 /\ Becomes(failVolumeRestore(f))

(* The 30 s deadline, which data in flight does not hold up.                *)
RestoreDeadline == RestoreRuns /\ Becomes(failVolumeRestore(f))

RequestFreshStatus ==
  /\ RestoreRuns /\ f.t.phase = "needFreshStatus"
  /\ Sends(<<GetStatus>>, [f EXCEPT !.t.phase = "waitFreshStatus"], failVolumeRestore(f))

(* fresh_status_timeout, movement_timeout, confirmation_timeout.            *)
ResponseTimeout ==
  /\ RestoreRuns /\ Overdue
  /\ \/ f.t.phase = "waitFreshStatus"
     \/ /\ f.t.phase \in {"waitMovement", "waitMovementStatus", "waitConfirmation"}
        /\ ~LeaseLost /\ automaticRestoreCommandAllowed(f)
  /\ Becomes(failVolumeRestore(f))

(* The session just after its first command, a click in direction dir from  *)
(* level raw; more than one click was planned if clicks > 0.                *)
Clicked(t, raw, dir, clicks) ==
  LET g == [t EXCEPT !.cmd = raw, !.dir = dir, !.steps = @ + 1]
  IN IF clicks = 0 THEN [g EXCEPT !.phase = "waitMovement"]
     ELSE [g EXCEPT !.burst = TRUE, !.start = raw, !.planned = clicks, !.sent = 1,
                    !.phase = "waitBurstSecond"]

(* A faulty variant: the lease is not looked at again.                      *)
RefusedWithoutLease == ~f.muteKnown \/ ~f.muted \/ ~f.locked \/ f.vol < 0

MuteCycleRefused ==
  f.curAuth # "fresh" \/ ~f.muteKnown \/ ~f.muted \/ ~f.locked \/ f.vol < 0

(* A muted idle restore starts: the journal is written before the command   *)
(* that unmutes the receiver.                                               *)
StartMuteCycle ==
  /\ RestoreRuns /\ f.t.phase = "waitAutomaticUnmute"
  /\ LET dir    == volumeDirection(f.vol, f.t.target)
         clicks == volumeRapidClickCount(Distance(f.vol, f.t.target), 0, 0)
         armed  == armAutomaticRemuteRecovery(f, TRUE)
     IN IF MuteCycleRefused
        THEN Becomes(failVolumeRestore(f))
        ELSE IF dir = 0 THEN Becomes(completeVolumeRestore(f))
        ELSE \/ Sends(<<Click(dir > 0, f.t.target, NoApp)>>,
                      [armed EXCEPT !.muteKnown = FALSE,
                         !.t = Clicked([@ EXCEPT !.obs = f.vol], f.vol, dir, clicks)],
                      failVolumeRestore(armed))
             \/ /\ Use("failures")
                /\ f' = failVolumeRestore(armAutomaticRemuteRecovery(f, FALSE))
                /\ UNCHANGED <<toRx, Env>>

(* The lease ran out, or was revoked, midway through a muted restore.       *)
LeaseEnds ==
  /\ RestoreRuns /\ LeaseLost
  /\ f.t.phase \notin {"needFreshStatus", "waitFreshStatus", "waitAutomaticUnmute"}
  /\ Becomes(IF f.vol = f.t.target THEN completeVolumeRestore(f) ELSE failVolumeRestore(f))

Driving(phases) ==
  /\ RestoreRuns /\ ~LeaseLost /\ automaticRestoreCommandAllowed(f)
  /\ f.t.phase \in phases

(* The code also drops an extension that is no longer allowed; none is ever *)
(* found in that state (ExtensionStaysAllowed).                             *)
BurstClick ==
  /\ Driving({"waitBurstSecond"})
  /\ f.t.ext => ExtensionAllowed(f, f.t.obs)
  /\ LET t == IF f.t.ext
              THEN [f.t EXCEPT !.burst = TRUE, !.start = f.t.obs, !.planned = 1,
                               !.sent = 0, !.ext = FALSE]
              ELSE f.t
         sent == t.sent + 1
         done == [f EXCEPT !.t = [t EXCEPT !.steps = @ + 1, !.sent = sent,
                    !.phase = IF sent >= t.planned THEN "waitMovement" ELSE @]]
     IN IF t.sent >= t.planned THEN Becomes([f EXCEPT !.t.phase = "waitMovement"])
        ELSE IF t.steps >= MaxSteps THEN Becomes(failVolumeRestore(f))
        ELSE Sends(<<Click(t.dir > 0, t.target, IF t.auto THEN NoApp ELSE f.cur)>>,
                   done, failVolumeRestore([f EXCEPT !.t = t]))

RequestMovementStatus ==
  /\ Driving({"waitMovement"}) /\ Overdue
  /\ Sends(<<GetStatus>>, [f EXCEPT !.t.phase = "waitMovementStatus"], failVolumeRestore(f))

(* The level has been quiet for 300 ms.                                     *)
Settled ==
  /\ Driving({"settling"}) /\ Overdue
  /\ IF ~f.t.burst /\ volumeDirection(f.t.obs, f.t.target) = f.t.dir
     THEN Becomes([f EXCEPT !.t.phase = "ready"])
     ELSE Sends(<<GetStatus>>, [f EXCEPT !.t.phase = "waitConfirmation"],
                failVolumeRestore(f))

(* ready: the next click, or burst, toward the target.                      *)
NextClick ==
  /\ Driving({"ready"}) /\ f.t.obs >= 0
  /\ LET t      == f.t
         dir    == volumeDirection(t.obs, t.target)
         turned == t.dir # 0 /\ dir # t.dir
         clicks == IF t.coarse
                   THEN volumeRapidClickCount(Distance(t.obs, t.target), t.delta, t.clicks)
                   ELSE 0
         moved  == t.dir # 0 /\ volumeMovementInDirection(t.cmd, t.obs, t.dir)
         next   == [t EXCEPT !.reversed = @ \/ turned]
     IN IF dir = 0 THEN Becomes(completeVolumeRestore(f))
        ELSE /\ t.steps > 0 => moved
             /\ IF (turned /\ t.reversed) \/ t.steps >= MaxSteps
                THEN Becomes(failVolumeRestore(f))
                ELSE Sends(<<Click(dir > 0, t.target, IF t.auto THEN NoApp ELSE f.cur)>>,
                           [f EXCEPT !.t = Clicked(next, t.obs, dir, clicks)],
                           failVolumeRestore(f))

-----------------------------------------------------------------------------
(* maintainDenon(): the edges of the link, and the first poll of a session. *)

SeesConnected == link /\ ~f.was /\ Becomes(ConnectEdge(f))

SeesDisconnected ==
  /\ ~link /\ f.was
  /\ LateReports \/ fromRx = <<>>
  /\ Becomes(DisconnectEdge(f))

StatusPoll ==
  /\ link /\ f.was
  /\ Len(toRx) + Len(fromRx) < MaxQueue
  /\ ~f.sess \/ f.t.target < 0
  /\ Sends(IF f.t.target < 0 THEN <<GetStatus>> ELSE <<>>,
           [f EXCEPT !.sess = TRUE], [f EXCEPT !.sess = TRUE])

-----------------------------------------------------------------------------
(* Time: the five-second leases and the learning cooldown.                  *)

LeaseExpires ==
  \/ f.curAuth = "fresh" /\ Becomes([f EXCEPT !.curAuth = "stale"])
  \/ f.pendAuth = "fresh" /\ Becomes([f EXCEPT !.pendAuth = "stale"])

LearningCooldownEnds == ~f.quiet /\ Overdue /\ Becomes([f EXCEPT !.quiet = TRUE])

-----------------------------------------------------------------------------
(* The receiver, its user, the radio link and the power supply.             *)

Outside == <<f, ha, heard>>

Orders(r) == {IF muteFirst THEN <<MuteReport(r), VolumeReport(r)>>
              ELSE <<VolumeReport(r), MuteReport(r)>> : muteFirst \in Reordered}

Reports(r) ==
  CASE r.vol # rx.vol /\ r.muted # rx.muted -> Orders(r)
    [] r.vol # rx.vol /\ r.muted = rx.muted -> {<<VolumeReport(r)>>}
    [] r.vol = rx.vol /\ r.muted # rx.muted -> {<<MuteReport(r)>>}
    [] OTHER -> {<<>>}

Clamp(v) == IF v < 0 THEN 0 ELSE IF v > MaxRaw THEN MaxRaw ELSE v

(* A volume command unmutes the receiver and moves it by one gain.          *)
Moved(c, gain) ==
  LET vol == Clamp(IF c.kind = "up" THEN rx.vol + gain ELSE rx.vol - gain)
  IN [vol |-> vol, muted |-> FALSE,
      by |-> IF vol = rx.vol THEN rx.by
             ELSE IF c.by # NoApp \/ c.goal < 0 THEN c.by
             ELSE IF vol = c.goal THEN NoApp ELSE Midway,
      broken |-> (rx.broken \/ rx.muted) /\ c.goal >= 0]

ReceiverObeys ==
  /\ toRx # <<>>
  /\ toRx' = Tail(toRx)
  /\ LET c == Head(toRx)
     IN CASE c.kind = "status" ->
               rx' = rx /\ \E out \in Orders(rx) : fromRx' = fromRx \o out
          [] c.kind = "mute" ->
               /\ rx' = [rx EXCEPT !.muted = TRUE, !.broken = FALSE]
               /\ \E out \in Reports(rx') : fromRx' = fromRx \o out
          [] OTHER -> \E gain \in Gains :
               /\ rx' = Moved(c, gain)
               /\ \E out \in Reports(rx') : fromRx' = fromRx \o out
  /\ UNCHANGED <<link, used, Outside>>

(* The user's remote: a volume key also unmutes.                            *)
RemoteKey ==
  {[rx EXCEPT !.vol = v, !.muted = FALSE, !.by = f.cur, !.broken = FALSE] :
     v \in {Clamp(rx.vol - 1), Clamp(rx.vol + 1)} \ {rx.vol}}
  \cup {[rx EXCEPT !.muted = ~@, !.broken = FALSE]}

UseRemote ==
  /\ Use("remote")
  /\ rx' \in RemoteKey
  /\ IF link THEN \E out \in Reports(rx') : fromRx' = fromRx \o out
     ELSE UNCHANGED fromRx
  /\ UNCHANGED <<link, toRx, Outside>>

(* The firmware tries again a second after it saw the loss, when it has     *)
(* read all there was to read.                                              *)
LinkUp ==
  /\ ~link /\ ~f.was /\ fromRx = <<>>
  /\ link' = TRUE
  /\ UNCHANGED <<rx, toRx, fromRx, used, Outside>>

(* Commands in flight are lost; of the reports, those already buffered by   *)
(* the Bluetooth stack are still read.                                      *)
LinkDown ==
  /\ link
  /\ Use("drops")
  /\ link' = FALSE
  /\ toRx' = <<>>
  /\ \E n \in 0..Len(fromRx) : fromRx' = SubSeq(fromRx, 1, n)
  /\ UNCHANGED <<rx, Outside>>

(* Power loss: RAM and the link go, NVS stays.  A row learned in the last   *)
(* two seconds may not have been written yet.                               *)
PowerLoss ==
  /\ Use("boots")
  /\ \E rows \in SUBSET Apps :
       f' = Boot(f.nv, [a \in Apps |-> IF a \in rows THEN f.saved[a] ELSE InitSaved[a]])
  /\ link' = FALSE /\ toRx' = <<>> /\ fromRx' = <<>>
  /\ UNCHANGED <<rx, ha, heard>>

-----------------------------------------------------------------------------
HomeAssistant ==
  /\ NewPass
  /\ \/ \E a \in Apps : ReceiveIdle(a) \/ ReceiveActive(a)
     \/ \E reauth \in BOOLEAN : ReceiveAgain(reauth)
     \/ ReceiveRevocation \/ ReceiveClear \/ ReceiveIgnored

WebUser ==
  /\ NewPass
  /\ \/ \E up \in BOOLEAN : SendVolume(up)
     \/ \E level \in Level : SendTargetVolume(level)

Restore ==
  \/ maintainAutomaticRemute \/ RestoreDeadline \/ RequestFreshStatus
  \/ ResponseTimeout \/ StartMuteCycle \/ LeaseEnds
  \/ BurstClick \/ RequestMovementStatus \/ Settled \/ NextClick

Loop ==
  \/ ReadDenon \/ maintainManualMuteLock \/ maintainAppSwitch \/ Restore
  \/ SeesConnected \/ SeesDisconnected \/ StatusPoll

World ==
  \/ ReceiverObeys \/ UseRemote \/ LinkUp \/ LinkDown \/ PowerLoss
  \/ LeaseExpires \/ LearningCooldownEnds

Next == HomeAssistant \/ WebUser \/ Loop \/ World

Spec == Init /\ [][Next]_vars

(* loop() runs again and again, the receiver answers and lets the firmware  *)
(* connect.  A timer, once it has run out, stays so: that Overdue turns     *)
(* false again while a poll is answered does not hold its step up for good, *)
(* hence strong fairness.                                                   *)
Fairness ==
  /\ WF_vars(ReadDenon) /\ WF_vars(SeesConnected) /\ WF_vars(SeesDisconnected)
  /\ WF_vars(StatusPoll) /\ WF_vars(ReceiverObeys) /\ WF_vars(LinkUp)
  /\ WF_vars(RestoreDeadline)
  /\ SF_vars(maintainAutomaticRemute) /\ SF_vars(maintainAppSwitch)

FairSpec == Spec /\ Fairness
=============================================================================
