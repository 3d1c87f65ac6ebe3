------------------------------ MODULE Feedback ------------------------------
(***************************************************************************)
(* How the firmware reacts to what it hears from the receiver and from its *)
(* Bluetooth link: the mute reports (observeMute), the volume reports      *)
(* (observeVolume), the re-mute journal in NVS, and the connect and        *)
(* disconnect edges of maintainDenon, all in src/src/main.cpp.             *)
(***************************************************************************)
EXTENDS Firmware

-----------------------------------------------------------------------------
(* The re-mute journal: remReq is automaticRemuteRequired, remJournal what  *)
(* RAM believes of the NVS key, nv the key itself.  ok says whether the     *)
(* Preferences call succeeds when one is made.                              *)

(* Faulty variants: the mute is owed in RAM only, or a failed write is taken *)
(* for a good one.                                                          *)
ArmInRam(f, ok) == [f EXCEPT !.remReq = TRUE, !.remConf = FALSE, !.remBase = f.vol]
ArmUnchecked(f, ok) ==
  [f EXCEPT !.remReq = TRUE, !.remConf = FALSE, !.remBase = f.vol,
            !.remJournal = TRUE, !.nv = @ \/ ok]

armAutomaticRemuteRecovery(f, ok) ==
  LET stored == f.remJournal \/ ok
  IN [f EXCEPT !.remReq = TRUE, !.remConf = FALSE, !.remBase = f.vol,
               !.remJournal = stored, !.nv = @ \/ (~f.remJournal /\ ok)]

clearAutomaticRemuteJournal(f, ok) ==
  IF f.remJournal /\ ~ok THEN f
  ELSE [f EXCEPT !.remReq = FALSE, !.remConf = FALSE, !.remJournal = FALSE,
                 !.remBase = None, !.nv = IF f.remJournal THEN FALSE ELSE @]

clearManualMuteLock(f) ==
  [f EXCEPT !.locked = FALSE, !.lockRaw = None, !.autoFb = FALSE, !.manDir = 0]

acceptManualVolumeFeedback(f, direction) ==
  IF ~f.locked THEN f
  ELSE [f EXCEPT !.autoFb = FALSE, !.lockRaw = f.vol, !.manDir = direction]

-----------------------------------------------------------------------------
(* observeMute(): a mute report.                                            *)

HeardUnmuted(f) ==
  LET g == [f EXCEPT !.muteKnown = TRUE, !.muted = FALSE]
  IN IF f.remReq THEN [g EXCEPT !.t.unmuted = @ \/ g.t.cycle]
     ELSE clearManualMuteLock(IF f.muteKnown /\ f.muted
                              THEN invalidateReconnectRestore(g) ELSE g)

(* A faulty variant: a mute locks the volume and lets the target go on.     *)
MuteLocksOnly(f) == [f EXCEPT !.locked = TRUE, !.lockRaw = f.vol]

(* A newly heard mute is the user's: it locks the volume and cancels the    *)
(* target, leaving what the target's late feedback says unlearned.          *)
NewlyMuted(f) ==
  LET g         == invalidateReconnectRestore(f)
      automatic == g.t.auto /\ g.t.target >= 0
      locked    == [g EXCEPT !.autoFb = automatic /\ g.t.steps > 0,
                             !.locked = TRUE, !.lockRaw = g.vol]
  IN IF g.t.target >= 0 /\ (g.t.auto \/ ~g.t.override)
     THEN [cancelVolumeRestore(locked) EXCEPT
             !.suppressed = TRUE, !.failRaw = f.vol, !.quiet = TRUE]
     ELSE locked

(* A faulty variant: any report that says muted settles the mute that is    *)
(* owed, also one from before the mute was sent.                            *)
HeardAnyMute(f, ok) ==
  LET g == [f EXCEPT !.muteKnown = TRUE, !.muted = TRUE]
  IN IF f.remReq THEN clearAutomaticRemuteJournal(g, ok)
     ELSE IF f.muteKnown /\ f.muted THEN g ELSE NewlyMuted(g)

HeardMuted(f, ok) ==
  LET pendingCommand == f.t.target >= 0 /\ f.t.steps > 0
      became    == ~f.muteKnown \/ ~f.muted
      f1        == IF pendingCommand /\ ~f.remReq
                   THEN armAutomaticRemuteRecovery(f, ok) ELSE f
      f2        == [f1 EXCEPT !.muteKnown = TRUE, !.muted = TRUE]
      confirmed == f2.remReq /\ f2.remConf
      f3        == IF confirmed THEN clearAutomaticRemuteJournal(f2, ok) ELSE f2
      f4        == IF confirmed /\ (~f2.remJournal \/ ok)
                   THEN [f3 EXCEPT !.suppressed = FALSE] ELSE f3
      staleMute == f4.t.cycle /\ f4.remReq /\ ~f4.t.unmuted
  IN IF staleMute \/ ~became THEN f4 ELSE NewlyMuted(f4)

observeMute(f, muted, ok) == IF muted THEN HeardMuted(f, ok) ELSE HeardUnmuted(f)

-----------------------------------------------------------------------------
(* observeVolume(): a volume report.                                        *)

NoteRemuteFeedback(f, raw) ==
  IF f.remReq /\ ~f.t.cycle /\ f.remBase # raw
  THEN [f EXCEPT !.remBase = raw, !.remConf = FALSE]
  ELSE f

(* A level that moves away from where the mute lock was taken is the user's *)
(* remote, unless it may still be the feedback of an automatic command.     *)
ReleaseMuteLock(f, raw) ==
  LET released == IF f.manDir # 0
                  THEN volumeMovementInDirection(f.lockRaw, raw, f.manDir)
                  ELSE ~f.autoFb /\ f.lockRaw >= 0
  IN IF f.t.cycle \/ f.remReq \/ ~f.locked \/ f.lockRaw = raw THEN f
     ELSE IF released THEN clearManualMuteLock(f)
     ELSE [f EXCEPT !.lockRaw = raw]

ExtensionAllowed(f, raw) ==
  volumeRapidExtensionAllowed(raw, f.t.target, f.t.dir,
                              automaticRestoreCommandAllowed(f), f.t.steps, MaxSteps)

Settling(f, raw) == [f EXCEPT !.t.obs = raw, !.t.phase = "settling"]

MovementSeen(f, raw) ==
  LET t        == f.t
      baseline == IF t.burst THEN t.obs ELSE t.cmd
      extend   == t.burst /\ ExtensionAllowed(f, raw)
  IN IF raw = baseline THEN f
     ELSE IF ~t.burst /\ ~volumeMovementInDirection(baseline, raw, t.dir)
     THEN failVolumeRestore(f)
     ELSE [f EXCEPT !.t = [t EXCEPT
             !.obs = raw, !.burst = t.burst /\ ~extend, !.ext = IF t.burst THEN extend ELSE @,
             !.phase = IF extend THEN "waitBurstSecond" ELSE "settling",
             !.delta = IF t.burst THEN Distance(raw, t.start) ELSE @,
             !.clicks = IF t.burst THEN t.sent ELSE @]]

MovementDuringBurst(f, raw) ==
  LET t         == f.t
      onward    == volumeMovementInDirection(t.obs, raw, t.dir)
      remaining == volumeDirection(raw, t.target)
  IN IF raw = t.obs THEN f
     ELSE IF t.ext
     THEN IF ~volumeRapidFeedbackValid(t.start, t.obs, raw, t.dir, t.sent)
          THEN failVolumeRestore(f)
          ELSE IF onward /\ ExtensionAllowed(f, raw) THEN [f EXCEPT !.t.obs = raw]
          ELSE [Settling(f, raw) EXCEPT !.t.ext = FALSE, !.t.burst = TRUE]
     ELSE IF remaining # t.dir
     THEN [Settling(f, raw) EXCEPT !.t.coarse = FALSE, !.t.planned = t.sent]
     ELSE [f EXCEPT !.t.obs = raw]

AtTargetOrReady(f, raw) ==
  IF raw = f.t.target THEN completeVolumeRestore(f) ELSE [f EXCEPT !.t.phase = "ready"]

ConfirmationSeen(f, raw) ==
  LET t     == f.t
      moved == Distance(raw, t.start)
      past  == volumeDirection(raw, t.target) \notin {0, t.dir}
  IN IF raw # t.obs THEN Settling(f, raw)
     ELSE IF ~t.burst THEN AtTargetOrReady(f, raw)
     ELSE IF ~volumeRapidGainWithinBound(moved, t.sent) THEN failVolumeRestore(f)
     ELSE AtTargetOrReady([f EXCEPT !.t.delta = moved, !.t.clicks = t.sent,
                                    !.t.burst = FALSE, !.t.coarse = @ /\ ~past], raw)

(* A faulty variant: a restore that settles is done as soon as one report   *)
(* shows the target.                                                        *)
DoneAtOnce(f, raw) ==
  IF raw = f.t.target THEN completeVolumeRestore(f) ELSE [f EXCEPT !.t.obs = raw]

(* While it settles, the target waits for the level to stay, and then for a *)
(* status report to confirm it.                                             *)
StillMoving(f, raw) == [f EXCEPT !.t.obs = raw]

(* The report while a target is set: contradictions fail the target first,  *)
(* then each phase takes it its own way.                                    *)
TargetFeedback(f, raw) ==
  LET t        == f.t
      changed  == t.obs >= 0 /\ raw # t.obs
      wrongWay == t.auto /\ t.steps > 0 /\ t.dir # 0
                  /\ ~volumeMovementInDirection(t.obs, raw, t.dir)
      badBurst == t.burst
                  /\ ~volumeRapidFeedbackValid(t.start, t.obs, raw, t.dir, t.sent)
  IN IF changed /\ (wrongWay \/ badBurst) THEN failVolumeRestore(f)
     ELSE CASE t.phase = "waitFreshStatus" -> AtTargetOrReady([f EXCEPT !.t.obs = raw], raw)
            [] t.phase \in {"waitMovement", "waitMovementStatus"} -> MovementSeen(f, raw)
            [] t.phase = "waitBurstSecond" -> MovementDuringBurst(f, raw)
            [] t.phase = "settling" -> StillMoving(f, raw)
            [] t.phase = "waitConfirmation" -> ConfirmationSeen(f, raw)
            [] t.phase = "ready" -> IF raw # t.obs THEN Settling(f, raw) ELSE f
            [] OTHER -> f

Learn(f, raw) ==
  IF f.cur # NoApp /\ f.pend = NoApp /\ LearningAllowed(f)
  THEN rememberAppVolume(f, f.cur, raw) ELSE f

(* The report while no target is set: after a target was stopped, learning  *)
(* resumes with the first change heard once the cooldown has run out.       *)
IdleFeedback(f, raw) ==
  IF ~f.suppressed THEN Learn(f, raw)
  ELSE IF f.autoFb THEN [f EXCEPT !.failRaw = raw]
  ELSE IF f.failRaw < 0 \/ (~f.quiet /\ raw # f.failRaw)
  THEN [f EXCEPT !.failRaw = raw, !.quiet = FALSE]
  ELSE IF ~f.quiet \/ raw = f.failRaw THEN f
  ELSE Learn([invalidateReconnectRestore(f) EXCEPT
                !.suppressed = FALSE, !.failRaw = None, !.quiet = TRUE], raw)

observeVolume(f, raw) ==
  LET g == ReleaseMuteLock(NoteRemuteFeedback([f EXCEPT !.vol = raw], raw), raw)
  IN IF g.t.target >= 0 THEN TargetFeedback(g, raw) ELSE IdleFeedback(g, raw)

-----------------------------------------------------------------------------
(* The edges of the Bluetooth link, as maintainDenon sees them.             *)

ConnectEdge(f) ==
  LET g == [f EXCEPT !.was = TRUE, !.sess = FALSE, !.vol = None, !.muteKnown = FALSE]
  IN IF g.t.target >= 0 THEN armVolumeTargetSession(g) ELSE g

(* The credit goes to the automatic target that was running, or else to the *)
(* authorized app still waiting out its debounce.                           *)
RememberCredit(f) ==
  IF f.t.auto /\ f.curAuth # "none"
  THEN rememberReconnectRestore(f, f.cur, f.lastEvent, f.t.target)
  ELSE IF f.pend # NoApp /\ f.pendAllowed /\ f.pendAuth # "none" /\ f.saved[f.pend] >= 0
  THEN rememberReconnectRestore(f, f.pend, f.lastEvent, f.saved[f.pend])
  ELSE f

DisconnectEdge(f) ==
  LET g == [RememberCredit(f) EXCEPT
              !.was = FALSE, !.sess = FALSE, !.vol = None, !.muteKnown = FALSE,
              !.curAuth = "none", !.pendAuth = "none", !.pendAllowed = FALSE,
              !.pendReconnect = None]
  IN IF ~f.t.auto /\ ~f.remReq THEN pauseVolumeTargetSession(g)
     ELSE LET c == cancelVolumeRestore([g EXCEPT !.remConf = FALSE])
          IN IF f.t.auto
             THEN [c EXCEPT !.suppressed = TRUE, !.failRaw = None, !.quiet = FALSE]
             ELSE c
=============================================================================
