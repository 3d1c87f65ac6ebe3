------------------------------ MODULE Firmware ------------------------------
(***************************************************************************)
(* The functions of src/src/main.cpp that change the volume, mute and app  *)
(* state, as operators from a firmware state to the next one.  A handler   *)
(* of the firmware is the composition of the calls it makes; the actions   *)
(* of Controller apply it in one step.                                     *)
(*                                                                         *)
(* Data the properties do not tell apart is left out: names, error texts   *)
(* and the clock.  A timestamp that is later compared becomes what the     *)
(* comparison says: curAuth, pendAuth ("fresh" until the five-second lease *)
(* runs out, then "stale") and quiet (the learning cooldown has run out).  *)
(***************************************************************************)
EXTENDS VolumeMath

CONSTANTS
  Apps, NoApp,  \* well-formed application identities; the empty identity
  MaxEvent,     \* event ids are 1..MaxEvent, 0 is "no event id"
  MaxSteps,     \* kRestoreMaxSteps, 196 in the code
  GenSpan       \* volumeTargetGeneration is a uint32_t: 2^32 in the code

ASSUME FirmwareAssumption ==
  /\ NoApp \notin Apps
  /\ MaxEvent \in Nat
  /\ MaxSteps \in Nat \ {0}
  /\ GenSpan \in Nat \ 0..2

MaybeApp == Apps \cup {NoApp}
EventId == 0..MaxEvent
Authority == {"none", "fresh", "stale"}
Phase == {"idle", "needFreshStatus", "waitFreshStatus", "waitAutomaticUnmute",
          "ready", "waitBurstSecond", "waitMovement", "waitMovementStatus",
          "settling", "waitConfirmation"}

(* The restore* variables: one volume target and the controller driving it. *)
Session ==
  [target : MaybeLevel, armed : BOOLEAN, auto : BOOLEAN, override : BOOLEAN,
   steps : Nat, phase : Phase, obs : MaybeLevel, cmd : MaybeLevel,
   dir : Direction, reversed : BOOLEAN, coarse : BOOLEAN, burst : BOOLEAN,
   ext : BOOLEAN, start : MaybeLevel, planned : 0..MaxClicks \cup {1},
   sent : 0..MaxClicks \cup {1}, delta : Nat, clicks : 0..MaxClicks \cup {1},
   cycle : BOOLEAN, unmuted : BOOLEAN]

NoSession ==
  [target |-> None, armed |-> FALSE, auto |-> FALSE, override |-> FALSE,
   steps |-> 0, phase |-> "idle", obs |-> None, cmd |-> None, dir |-> 0,
   reversed |-> FALSE, coarse |-> TRUE, burst |-> FALSE, ext |-> FALSE,
   start |-> None, planned |-> 0, sent |-> 0, delta |-> 0, clicks |-> 0,
   cycle |-> FALSE, unmuted |-> FALSE]

(* reconnectRestoreAppId, -EventId, -TargetRaw: the credit that lets one    *)
(* event start its target again after a link loss.                          *)
Credit == [app : MaybeApp, event : EventId, target : MaybeLevel]
NoCredit == [app |-> NoApp, event |-> 0, target |-> None]

FirmwareState ==
  [t : Session, gen : 0..(GenSpan - 1),
   was : BOOLEAN, sess : BOOLEAN, vol : MaybeLevel,
   muteKnown : BOOLEAN, muted : BOOLEAN, locked : BOOLEAN,
   lockRaw : MaybeLevel, autoFb : BOOLEAN, manDir : Direction,
   remReq : BOOLEAN, remConf : BOOLEAN, remJournal : BOOLEAN,
   remBase : MaybeLevel, nv : BOOLEAN,
   suppressed : BOOLEAN, failRaw : MaybeLevel, quiet : BOOLEAN,
   cur : MaybeApp, curAuth : Authority, pend : MaybeApp, pendAuth : Authority,
   pendAllowed : BOOLEAN, pendReconnect : MaybeLevel, lastEvent : EventId,
   credit : Credit, saved : [Apps -> MaybeLevel]]

(* A faulty variant: setup() does not look for the re-mute key.             *)
BootWithoutKey(nv, saved) ==
  [t |-> NoSession, gen |-> 0, was |-> FALSE, sess |-> FALSE, vol |-> None,
   muteKnown |-> FALSE, muted |-> FALSE, locked |-> FALSE, lockRaw |-> None,
   autoFb |-> FALSE, manDir |-> 0, remReq |-> FALSE, remConf |-> FALSE,
   remJournal |-> FALSE, remBase |-> None, nv |-> nv, suppressed |-> FALSE,
   failRaw |-> None, quiet |-> TRUE, cur |-> NoApp, curAuth |-> "none",
   pend |-> NoApp, pendAuth |-> "none", pendAllowed |-> TRUE,
   pendReconnect |-> None, lastEvent |-> 0, credit |-> NoCredit,
   saved |-> saved]

(* The state setup() leaves: everything volatile is lost, the re-mute key   *)
(* and the app table are read back from NVS.                                *)
Boot(nv, saved) ==
  [t |-> NoSession, gen |-> 0, was |-> FALSE, sess |-> FALSE, vol |-> None,
   muteKnown |-> FALSE, muted |-> FALSE, locked |-> FALSE, lockRaw |-> None,
   autoFb |-> FALSE, manDir |-> 0, remReq |-> nv, remConf |-> FALSE,
   remJournal |-> nv, remBase |-> None, nv |-> nv, suppressed |-> nv,
   failRaw |-> None, quiet |-> TRUE, cur |-> NoApp, curAuth |-> "none",
   pend |-> NoApp, pendAuth |-> "none", pendAllowed |-> TRUE,
   pendReconnect |-> None, lastEvent |-> 0, credit |-> NoCredit,
   saved |-> saved]

-----------------------------------------------------------------------------
(* Reconnect credit.                                                        *)

(* A faulty variant: using the credit does not use it up.                   *)
CreditStays(f) == f

clearReconnectRestore(f) == [f EXCEPT !.credit = NoCredit]

invalidateReconnectRestore(f) ==
  LET revoked == f.pendReconnect >= 0
  IN [f EXCEPT !.credit = NoCredit, !.pendReconnect = None,
               !.pendAllowed = @ /\ ~revoked,
               !.pendAuth = IF revoked THEN "none" ELSE @]

reconnectRestoreMatches(f, a, e) ==
  f.credit.target >= 0 /\ f.credit.app = a /\ f.credit.event = e

rememberReconnectRestore(f, a, e, level) ==
  IF level < 0 \/ e = 0 THEN f
  ELSE [f EXCEPT !.credit = [app |-> a, event |-> e, target |-> level]]

-----------------------------------------------------------------------------
(* The target session.                                                      *)

automaticRestoreCommandAllowed(f) ==
  \/ volumeCommandAllowed(f.muteKnown, f.muted, f.locked)
  \/ f.t.cycle /\ f.remReq /\ f.muteKnown /\ ~f.muted

resetVolumeRestore(f) ==
  [f EXCEPT !.t = NoSession, !.remBase = IF f.remReq THEN f.vol ELSE @]

advanceVolumeTargetGeneration(f) ==
  [f EXCEPT !.gen = IF @ + 1 = GenSpan THEN 1 ELSE @ + 1]

(* What armVolumeTargetSession and pauseVolumeTargetSession share: only the *)
(* target, who asked for it and the mute-cycle flags survive.               *)
RestartedSession(t, armed) ==
  [NoSession EXCEPT !.target = t.target, !.armed = armed, !.auto = t.auto,
                    !.override = t.override, !.phase = "needFreshStatus",
                    !.cycle = t.cycle, !.unmuted = t.unmuted]

armVolumeTargetSession(f) == [f EXCEPT !.t = RestartedSession(@, TRUE)]

pauseVolumeTargetSession(f) ==
  IF f.t.target < 0 THEN f ELSE [f EXCEPT !.t = RestartedSession(@, FALSE)]

completeVolumeRestore(f) ==
  [resetVolumeRestore(f) EXCEPT !.suppressed = f.remReq, !.failRaw = None,
                                !.quiet = TRUE]

cancelVolumeRestore(f) ==
  completeVolumeRestore(IF f.t.target >= 0 THEN advanceVolumeTargetGeneration(f)
                        ELSE f)

(* A faulty variant: a target that fails is put away like one that is reached. *)
FailsUnsuppressed(f) == completeVolumeRestore(f)

failVolumeRestore(f) ==
  [resetVolumeRestore(f) EXCEPT !.suppressed = TRUE, !.failRaw = None,
                                !.quiet = FALSE]

StartTarget(f, level, automatic, mutedIdle) ==
  LET armed == RestartedSession(f.t, TRUE)
  IN [advanceVolumeTargetGeneration(f) EXCEPT
        !.suppressed = TRUE,
        !.t = [armed EXCEPT
                 !.target = level, !.auto = automatic,
                 !.override = ~automatic /\ f.locked,
                 !.cycle = @ \/ mutedIdle,
                 !.phase = IF mutedIdle THEN "waitAutomaticUnmute" ELSE @]]

(* setVolume(): a manual target needs an unmuted receiver; an automatic one *)
(* may start on a muted receiver only under a fresh idle lease.             *)
setVolume(f, level, automatic) ==
  LET mutedIdle == automatic /\ f.muteKnown /\ f.muted /\ f.locked /\ f.curAuth = "fresh"
      blocked   == f.locked \/ (f.muteKnown /\ f.muted)
  IN IF f.remReq \/ (~automatic /\ ~volumeCommandAllowed(f.muteKnown, f.muted, f.locked))
     THEN f
     ELSE IF automatic /\ blocked /\ ~mutedIdle
     THEN [f EXCEPT !.suppressed = TRUE, !.failRaw = f.vol, !.quiet = TRUE]
     ELSE StartTarget(f, level, automatic, mutedIdle)

startRestoreForCurrentApp(f) ==
  IF f.t.target >= 0 /\ ~f.t.auto THEN f
  ELSE IF f.cur = NoApp \/ f.saved[f.cur] < 0 THEN cancelVolumeRestore(f)
  ELSE setVolume(f, f.saved[f.cur], TRUE)

-----------------------------------------------------------------------------
(* The app table and app ownership.                                         *)

rememberAppVolume(f, a, level) == [f EXCEPT !.saved[a] = level]

LearningAllowed(f) ==
  appVolumeLearningAllowed(f.t.target, f.suppressed, f.vol, f.muteKnown,
                           f.muted, f.locked)

(* The outgoing app keeps the level it is left at.                          *)
SaveOutgoing(f) ==
  IF f.cur # NoApp /\ LearningAllowed(f) THEN rememberAppVolume(f, f.cur, f.vol)
  ELSE f

clearCurrentApp(f) ==
  LET g == [invalidateReconnectRestore(f) EXCEPT
              !.pend = NoApp, !.pendAuth = "none", !.pendAllowed = TRUE,
              !.pendReconnect = None, !.cur = NoApp, !.curAuth = "none"]
  IN IF g.t.target >= 0 /\ g.t.auto THEN cancelVolumeRestore(g) ELSE g

(* A faulty variant: an event already consumed is granted again.            *)
GrantAgain(f, a, kind, e, reauth) ==
  LET idle == kind = "idle"
  IN [f         |-> IF idle THEN [f EXCEPT !.lastEvent = e] ELSE f,
      reconnect |-> FALSE,
      idle      |-> idle,
      duplicate |-> FALSE,
      allowed   |-> idle \/ kind = "active",
      auth      |-> IF idle THEN "fresh" ELSE "none"]

(* What queueAppCandidate makes of an update before it looks at who is in   *)
(* front.  kind is "idle" (playback_active false, event id e), "active"     *)
(* (playback_active true) or "unknown" (no playback field).                 *)
Grant(f, a, kind, e, reauth) ==
  LET g         == IF f.pendReconnect >= 0 THEN invalidateReconnectRestore(f) ELSE f
      matches   == kind = "idle" /\ reconnectRestoreMatches(g, a, e)
      reconnect == reauth /\ matches
      idle      == reconnect \/ (~reauth /\ kind = "idle" /\ e # f.lastEvent)
      kept      == IF g.credit.target >= 0 /\ ~matches
                   THEN invalidateReconnectRestore(g) ELSE g
  IN [f         |-> IF idle /\ ~reconnect THEN [kept EXCEPT !.lastEvent = e] ELSE kept,
      reconnect |-> reconnect,
      idle      |-> idle,
      duplicate |-> kind = "idle" /\ ~idle,
      allowed   |-> idle \/ kind = "active",
      auth      |-> IF idle THEN "fresh" ELSE "none"]

(* A faulty variant: active playback does not stop a muted restore.         *)
UpdateCurrentGoesOn(g) ==
  LET f == [g.f EXCEPT !.pend = NoApp, !.pendAllowed = TRUE, !.pendReconnect = None,
                       !.curAuth = IF g.duplicate THEN @ ELSE g.auth]
  IN IF g.idle THEN startRestoreForCurrentApp(f) ELSE f

(* The update names the app already in front: a switch away is called off.  *)
UpdateCurrent(g) ==
  LET f       == g.f
      hadPend == f.pend # NoApp
      f1 == [f EXCEPT !.pend = NoApp, !.pendAllowed = TRUE, !.pendReconnect = None,
                      !.curAuth = IF g.duplicate THEN @ ELSE g.auth]
      f2 == IF ~g.duplicate /\ ~g.idle /\ f1.t.cycle THEN cancelVolumeRestore(f1) ELSE f1
  IN IF g.reconnect
     THEN setVolume(clearReconnectRestore(f2), f2.credit.target, TRUE)
     ELSE IF ~g.duplicate /\ (hadPend \/ g.idle) THEN startRestoreForCurrentApp(f2)
     ELSE f2

(* The candidate takes the authority of its latest update, and the credit.  *)
SetPendingAuthority(f, g) ==
  LET f1 == [f EXCEPT !.pendAuth = g.auth, !.pendAllowed = g.allowed,
                      !.pendReconnect = IF g.reconnect THEN f.credit.target ELSE None]
  IN IF g.reconnect THEN clearReconnectRestore(f1) ELSE f1

UpdatePending(g) ==
  IF g.duplicate THEN g.f ELSE SetPendingAuthority(g.f, g)

NewPending(g, a) ==
  LET f1 == SaveOutgoing(g.f)
      f2 == IF f1.t.target < 0 \/ f1.t.auto THEN cancelVolumeRestore(f1) ELSE f1
  IN SetPendingAuthority([f2 EXCEPT !.pend = a], g)

queueAppCandidate(f, a, kind, e, reauth) ==
  LET g == Grant(f, a, kind, e, reauth)
  IN IF a = f.cur THEN UpdateCurrent(g)
     ELSE IF a = f.pend THEN UpdatePending(g)
     ELSE NewPending(g, a)

activatePendingApp(f) ==
  LET f1 == SaveOutgoing(f)
      f2 == [f1 EXCEPT !.cur = f.pend, !.curAuth = f.pendAuth, !.pend = NoApp,
                       !.pendAuth = "none", !.pendAllowed = TRUE, !.pendReconnect = None]
  IN IF f2.saved[f.pend] >= 0
     THEN IF ~f.pendAllowed THEN f2
          ELSE IF f.pendReconnect >= 0 THEN setVolume(f2, f.pendReconnect, TRUE)
          ELSE startRestoreForCurrentApp(f2)
     ELSE IF LearningAllowed(f2)
     THEN cancelVolumeRestore(rememberAppVolume(f2, f.pend, f2.vol))
     ELSE f2
=============================================================================
