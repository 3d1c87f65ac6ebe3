----------------------------- MODULE VolumeMath -----------------------------
(***************************************************************************)
(* The pure predicates of src/src/volume_target.h: how many rapid clicks a *)
(* restore may queue, which receiver feedback is plausible, when a volume  *)
(* command is allowed and when a reported level may be learned.  Levels    *)
(* are raw half-decibel steps; None (-1) is the "unknown" the code keeps   *)
(* in its int variables.                                                   *)
(***************************************************************************)
EXTENDS Integers

CONSTANTS
  MaxRaw,      \* kMaxVolumeRaw, 196 in the code
  WorstRaw,    \* kVolumeRapidWorstRawPerClick, 5
  FineAim,     \* kVolumeRapidFineAimRaw, 3
  ProbeClicks, \* kVolumeRapidProbeClicks, 2
  MaxClicks    \* kVolumeRapidMaxClicks, 6

ASSUME VolumeAssumption ==
  /\ MaxRaw \in Nat \ {0}
  /\ WorstRaw \in Nat \ {0}
  /\ FineAim \in Nat
  /\ ProbeClicks \in Nat \ {0}
  /\ MaxClicks \in Nat
  /\ ProbeClicks <= MaxClicks

None == -1
Level == 0..MaxRaw
MaybeLevel == Level \cup {None}
Direction == {-1, 0, 1}

Distance(a, b) == IF a < b THEN b - a ELSE a - b

volumeDirection(current, target) ==
  IF current < target THEN 1 ELSE IF current > target THEN -1 ELSE 0

volumeMovementInDirection(from, to, direction) ==
  IF direction > 0 THEN to > from ELSE to < from

(* Faulty variants of the next definition: a burst that fills the distance  *)
(* to the target without the cap on clicks, and one that also rounds up.    *)
ClicksUncapped(distance, measuredDelta, measuredClicks) ==
  IF distance <= FineAim THEN 0 ELSE distance \div WorstRaw
ClicksRoundedUp(distance, measuredDelta, measuredClicks) ==
  IF distance <= FineAim THEN 0 ELSE (distance + WorstRaw - 1) \div WorstRaw

(* Clamp the estimate between the probe size and the count that even the   *)
(* worst acceleration cannot carry past the target.                        *)
volumeRapidClickCount(distance, measuredDelta, measuredClicks) ==
  LET noOvershoot == distance \div WorstRaw
      measured    == measuredDelta > 0 /\ measuredClicks > 0
      wanted      == IF measured
                     THEN ((distance - FineAim) * measuredClicks) \div measuredDelta
                     ELSE ProbeClicks
      atLeast     == IF wanted < ProbeClicks THEN ProbeClicks ELSE wanted
      safe        == IF atLeast > noOvershoot THEN noOvershoot ELSE atLeast
      capped      == IF safe > MaxClicks THEN MaxClicks ELSE safe
  IN IF distance <= FineAim \/ noOvershoot < ProbeClicks THEN 0
     ELSE IF ~measured /\ noOvershoot >= MaxClicks THEN MaxClicks
     ELSE IF capped >= ProbeClicks THEN capped
     ELSE 0

volumeRapidGainWithinBound(moved, sent) ==
  moved > 0 /\ sent > 0 /\ moved <= WorstRaw * sent

volumeRapidFeedbackValid(start, previous, observed, direction, sent) ==
  /\ volumeMovementInDirection(previous, observed, direction)
  /\ volumeRapidGainWithinBound(Distance(start, observed), sent)

volumeRapidExtensionAllowed(current, target, direction, allowed, steps, maxSteps) ==
  /\ target >= 0
  /\ allowed
  /\ steps < maxSteps
  /\ volumeDirection(current, target) = direction
  /\ Distance(current, target) >= WorstRaw

volumeCommandAllowed(known, muted, locked) == known /\ ~muted /\ ~locked

appVolumeLearningAllowed(target, suppressed, level, known, muted, locked) ==
  /\ target < 0
  /\ ~suppressed
  /\ level >= 0
  /\ volumeCommandAllowed(known, muted, locked)
=============================================================================
