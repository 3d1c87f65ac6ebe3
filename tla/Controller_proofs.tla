-------------------------- MODULE Controller_proofs --------------------------
(***************************************************************************)
(* Type correctness of Controller: every handler of the loop leaves the    *)
(* firmware, the link and the receiver in a state of their types.  Then    *)
(* the owners of muted restores and of reconnect credits: CycleIsArmed,    *)
(* CycleIsAuthorized and CreditIsCurrent for every behaviour.              *)
(***************************************************************************)
EXTENDS ControllerProperties, Feedback_proofs, SequenceTheorems

-----------------------------------------------------------------------------
(* Boots, sessions and messages.                                            *)

(* setup() leaves a firmware state.                                         *)
LEMMA BootType ==
  ASSUME NEW nv \in BOOLEAN, NEW saved \in [Apps -> MaybeLevel]
  PROVE  Boot(nv, saved) \in FirmwareState
<1>1. 0 \in 0..(GenSpan - 1) /\ 0 \in Direction
  BY FirmwareAssumption DEF Direction
<1> QED BY <1>1, EmptyValues, AuthorityValues, NoSessionType DEF Boot, FirmwareState

(* The clicks a burst plans are a number its session can hold.              *)
LEMMA ClickCountType ==
  ASSUME NEW x \in MaybeLevel, NEW y \in MaybeLevel, NEW d \in Nat,
         NEW c \in 0..MaxClicks \cup {1}
  PROVE  volumeRapidClickCount(Distance(x, y), d, c) \in 0..MaxClicks
<1>1. Distance(x, y) \in Nat /\ c \in Nat
  BY DistanceType, VolumeAssumption
<1>2. volumeRapidClickCount(Distance(x, y), d, c) \in {0} \cup ProbeClicks..MaxClicks
  BY <1>1, RapidClickCountIsSafe
<1> QED BY <1>2, VolumeAssumption

(* The session after its first command of a burst, or single click, is      *)
(* well-formed.                                                             *)
LEMMA ClickedType ==
  ASSUME NEW s \in Session, NEW raw \in MaybeLevel, NEW dir \in Direction,
         NEW clicks \in 0..MaxClicks
  PROVE  Clicked(s, raw, dir, clicks) \in Session
<1> DEFINE g == [s EXCEPT !.cmd = raw, !.dir = dir, !.steps = @ + 1]
<1>1. g \in Session
  <2>1. s.steps + 1 \in Nat
    BY DEF Session
  <2>2. [s EXCEPT !.cmd = raw, !.dir = dir, !.steps = s.steps + 1] \in Session
    BY <2>1 DEF Session
  <2> QED BY <2>2
<1>2. [g EXCEPT !.phase = "waitMovement"] \in Session
  <2> HIDE DEF g
  <2> QED BY <1>1, PhaseValues DEF Session
<1>3. [g EXCEPT !.burst = TRUE, !.start = raw, !.planned = clicks, !.sent = 1,
                !.phase = "waitBurstSecond"] \in Session
  <2> HIDE DEF g
  <2> QED BY <1>1, PhaseValues DEF Session
<1> QED BY <1>2, <1>3, Zenon DEF Clicked

(* What sendDenon() is given is a command.                                  *)
LEMMA CommandTypes ==
  /\ GetStatus \in Command /\ MuteOn \in Command
  /\ \A up \in BOOLEAN, goal \in MaybeLevel, by \in MaybeApp : Click(up, goal, by) \in Command
  BY EmptyValues DEF GetStatus, MuteOn, Click, Command

(* What the receiver says of itself is a report.                            *)
LEMMA ReportTypes ==
  ASSUME NEW r \in Receiver
  PROVE  VolumeReport(r) \in Report /\ MuteReport(r) \in Report
  BY DEF VolumeReport, MuteReport, Receiver, Report

(* What the receiver says, in either order, is a sequence of reports.       *)
LEMMA OrdersType ==
  ASSUME NEW r \in Receiver
  PROVE  Orders(r) \subseteq Seq(Report) /\ Reports(r) \subseteq Seq(Report)
<1>1. /\ <<MuteReport(r), VolumeReport(r)>> \in Seq(Report)
      /\ <<VolumeReport(r), MuteReport(r)>> \in Seq(Report)
      /\ <<VolumeReport(r)>> \in Seq(Report) /\ <<MuteReport(r)>> \in Seq(Report)
      /\ <<>> \in Seq(Report)
  BY ReportTypes
<1>2. Orders(r) \subseteq Seq(Report)
  BY <1>1 DEF Orders
<1> QED BY <1>1, <1>2 DEF Reports

-----------------------------------------------------------------------------
(* The bounds count up.                                                     *)

(* A bound that is used up a little more stays a number.                    *)
LEMMA UseType ==
  ASSUME used \in [DOMAIN Bound -> Nat], NEW what \in DOMAIN Bound, Use(what)
  PROVE  used' \in [DOMAIN Bound -> Nat]
  BY DEF Use

(* The names of the bounds.                                                 *)
LEMMA BoundNames ==
  {"idle", "updates", "manual", "remote", "drops", "boots", "failures"} = DOMAIN Bound
  BY DEF Bound

-----------------------------------------------------------------------------
(* A step of the firmware that sends nothing, or that may send a command.   *)

(* A step of the firmware that sends nothing keeps the types.               *)
LEMMA BecomesType ==
  ASSUME TypeOK, NEW g \in FirmwareState, Becomes(g)
  PROVE  TypeOK'
  BY DEF TypeOK, Becomes, Env

(* A step that sends one command, or fails to, keeps the types.             *)
LEMMA SendsType ==
  ASSUME TypeOK, NEW c \in Command, NEW done \in FirmwareState, NEW failed \in FirmwareState,
         Sends(<<c>>, done, failed)
  PROVE  TypeOK'
<1>1. CASE f' = done /\ toRx' = toRx \o <<c>> /\ UNCHANGED <<used, Env>>
  <2>1. toRx \o <<c>> \in Seq(Command)
    BY DEF TypeOK
  <2> QED BY <1>1, <2>1 DEF TypeOK, Env
<1>2. CASE Use("failures") /\ f' = failed /\ UNCHANGED <<toRx, Env>>
  <2>1. used' \in [DOMAIN Bound -> Nat]
    BY <1>2, UseType, BoundNames DEF TypeOK
  <2> QED BY <1>2, <2>1 DEF TypeOK, Env
<1> QED BY <1>1, <1>2 DEF Sends

-----------------------------------------------------------------------------
(* The HTTP handlers.                                                       *)

(* POST /api/app leaves a firmware state.                                   *)
LEMMA ReceivedType ==
  ASSUME f \in FirmwareState, NEW a \in MaybeApp, NEW kind, NEW e \in EventId,
         NEW reauth \in BOOLEAN
  PROVE  Received(a, kind, e, reauth) \in FirmwareState
<1>1. /\ invalidateReconnectRestore(f) \in FirmwareState
      /\ queueAppCandidate(f, a, kind, e, reauth) \in FirmwareState
  BY invalidateReconnectRestoreType, queueAppCandidateType
<1> QED BY <1>1, Zenon DEF Received

(* The handlers of POST /api/app and of the clear keep the types.           *)
LEMMA HomeAssistantType ==
  ASSUME TypeOK, HomeAssistant
  PROVE  TypeOK'
<1> USE DEF TypeOK
<1>1. ASSUME NEW a \in Apps, ReceiveIdle(a) PROVE TypeOK'
  <2>1. used.idle + 1 \in EventId /\ used' \in [DOMAIN Bound -> Nat]
    <3>1. "idle" \in DOMAIN Bound /\ Bound["idle"] = MaxIdle
      BY DEF Bound
    <3>2. used["idle"] \in Nat /\ used["idle"] < MaxIdle
      BY <1>1, <3>1 DEF ReceiveIdle, Use
    <3>3. used["idle"] + 1 \in 0..MaxEvent
      BY <3>2, ControllerAssumption, FirmwareAssumption
    <3> QED BY <1>1, <3>1, <3>3, UseType DEF ReceiveIdle, EventId
  <2>2. a \in MaybeApp
    BY DEF MaybeApp
  <2>3. f' \in FirmwareState
    BY <1>1, <2>1, <2>2, ReceivedType DEF ReceiveIdle
  <2>4. ha' \in Request
    BY <1>1, <2>1, <2>2 DEF ReceiveIdle, Answered, Request
  <2> QED BY <1>1, <2>1, <2>3, <2>4 DEF ReceiveIdle, AppEnv
<1>2. ASSUME NEW a \in Apps, ReceiveActive(a) PROVE TypeOK'
  <2>1. a \in MaybeApp /\ used' \in [DOMAIN Bound -> Nat]
    BY <1>2, UseType, BoundNames DEF ReceiveActive, MaybeApp
  <2>2. f' \in FirmwareState
    BY <1>2, <2>1, EmptyValues, ReceivedType DEF ReceiveActive
  <2>3. ha' \in Request
    BY <1>2, <2>1, EmptyValues DEF ReceiveActive, Answered, NoRequest, Request
  <2> QED BY <1>2, <2>1, <2>2, <2>3 DEF ReceiveActive, AppEnv
<1>3. ASSUME NEW reauth \in BOOLEAN, ReceiveAgain(reauth) PROVE TypeOK'
  <2>1. ha.app \in MaybeApp /\ ha.event \in EventId /\ used' \in [DOMAIN Bound -> Nat]
    BY <1>3, UseType, BoundNames DEF ReceiveAgain, Request
  <2>2. f' \in FirmwareState
    BY <1>3, <2>1, ReceivedType DEF ReceiveAgain
  <2>3. ha' \in Request
    BY <1>3, <2>1 DEF ReceiveAgain, Answered, Request
  <2> QED BY <1>3, <2>1, <2>2, <2>3 DEF ReceiveAgain, AppEnv
<1>4. CASE ReceiveRevocation
  <2>1. ha.last \in MaybeApp /\ used' \in [DOMAIN Bound -> Nat]
    BY <1>4, UseType, BoundNames DEF ReceiveRevocation, Request
  <2>2. f' \in FirmwareState
    BY <1>4, <2>1, EmptyValues, ReceivedType DEF ReceiveRevocation
  <2>3. ha' \in Request
    BY <1>4 DEF ReceiveRevocation, Request
  <2> QED BY <1>4, <2>1, <2>2, <2>3 DEF ReceiveRevocation, AppEnv
<1>5. CASE ReceiveClear
  <2>1. used' \in [DOMAIN Bound -> Nat] /\ f' \in FirmwareState
    BY <1>5, UseType, BoundNames, clearCurrentAppType DEF ReceiveClear
  <2>2. ha' \in Request
    BY <1>5, EmptyValues DEF ReceiveClear, NoRequest, Request
  <2> QED BY <1>5, <2>1, <2>2 DEF ReceiveClear, AppEnv
<1>6. CASE ReceiveIgnored
  <2>1. used' \in [DOMAIN Bound -> Nat] /\ f' \in FirmwareState
    BY <1>6, UseType, BoundNames, invalidateReconnectRestoreType DEF ReceiveIgnored
  <2> QED BY <1>6, <2>1 DEF ReceiveIgnored, AppEnv
<1> QED BY <1>1, <1>2, <1>3, <1>4, <1>5, <1>6 DEF HomeAssistant

(* The volume handlers of the web interface keep the types.                 *)
LEMMA WebUserType ==
  ASSUME TypeOK, WebUser
  PROVE  TypeOK'
<1> USE DEF TypeOK
<1>1. ASSUME NEW up \in BOOLEAN, SendVolume(up) PROVE TypeOK'
  <2>1. used' \in [DOMAIN Bound -> Nat]
    BY <1>1, UseType, BoundNames DEF SendVolume
  <2>2. f' \in FirmwareState
    <3>1. (IF up THEN 1 ELSE -1) \in Direction
      BY DEF Direction
    <3> QED BY <1>1, <3>1, invalidateReconnectRestoreType, acceptManualVolumeFeedbackType,
               cancelVolumeRestoreType DEF SendVolume
  <2>3. toRx' \in Seq(Command)
    <3>1. f.cur \in MaybeApp
      BY DEF FirmwareState
    <3>2. Click(up, None, f.cur) \in Command
      BY <3>1, EmptyValues, CommandTypes
    <3> QED BY <1>1, <3>2 DEF SendVolume
  <2> QED BY <1>1, <2>1, <2>2, <2>3 DEF SendVolume, Env
<1>2. ASSUME NEW level \in Level, SendTargetVolume(level) PROVE TypeOK'
  <2>1. used' \in [DOMAIN Bound -> Nat]
    BY <1>2, UseType, BoundNames DEF SendTargetVolume
  <2>2. f' \in FirmwareState
    <3>1. level \in MaybeLevel
      BY DEF MaybeLevel
    <3> QED BY <1>2, <3>1, DirectionType, invalidateReconnectRestoreType,
               acceptManualVolumeFeedbackType, setVolumeType DEF SendTargetVolume
  <2> QED BY <1>2, <2>1, <2>2 DEF SendTargetVolume, Env
<1> QED BY <1>1, <1>2 DEF WebUser

-----------------------------------------------------------------------------
(* The steps of loop().                                                     *)

(* Reading a packet keeps the types.                                        *)
LEMMA ReadDenonType ==
  ASSUME TypeOK, ReadDenon
  PROVE  TypeOK'
<1> USE DEF TypeOK
<1> DEFINE r == Head(fromRx)
<1>1. r \in Report /\ Tail(fromRx) \in Seq(Report)
  BY HeadTailProperties DEF ReadDenon
<1>2. CASE r.kind = "volume"
  <2>1. r.raw \in Level /\ r.by \in Setter
    <3> HIDE DEF r
    <3> QED BY <1>1, <1>2 DEF Report
  <2>2. f' = observeVolume(f, r.raw) /\ heard' = r.by /\ UNCHANGED used
    BY <1>2 DEF ReadDenon
  <2>3. f' \in FirmwareState
    BY <2>1, <2>2, observeVolumeType
  <2> QED BY <1>1, <2>1, <2>2, <2>3 DEF ReadDenon
<1>3. CASE r.kind # "volume"
  <2>1. r.on \in BOOLEAN
    <3> HIDE DEF r
    <3> QED BY <1>1, <1>3 DEF Report
  <2>2. observeMute(f, r.on, TRUE) \in FirmwareState /\ observeMute(f, r.on, FALSE) \in FirmwareState
    BY <2>1, observeMuteType
  <2>3. /\ f' \in FirmwareState /\ used' \in [DOMAIN Bound -> Nat]
        /\ UNCHANGED heard
    BY <1>3, <2>2, UseType, BoundNames DEF ReadDenon
  <2> QED BY <1>1, <2>3 DEF ReadDenon
<1> QED BY <1>2, <1>3

(* The steps of the loop that send at most a status request or a mute keep  *)
(* the types.                                                               *)
LEMMA SmallStepsType ==
  ASSUME TypeOK, \/ maintainManualMuteLock \/ maintainAppSwitch \/ SeesConnected
                 \/ SeesDisconnected \/ maintainAutomaticRemute \/ RestoreDeadline
                 \/ ResponseTimeout \/ LeaseEnds
  PROVE  TypeOK'
<1>f. f \in FirmwareState
  BY DEF TypeOK
<1>1. CASE maintainManualMuteLock
  <2>1. [f EXCEPT !.autoFb = FALSE, !.lockRaw = f.vol] \in FirmwareState
    BY <1>f DEF FirmwareState
  <2> QED BY <1>1, <2>1, BecomesType DEF maintainManualMuteLock
<1>2. CASE maintainAppSwitch
  BY <1>2, <1>f, activatePendingAppType, BecomesType DEF maintainAppSwitch
<1>3. CASE SeesConnected
  BY <1>3, <1>f, ConnectEdgeType, BecomesType DEF SeesConnected
<1>4. CASE SeesDisconnected
  BY <1>4, <1>f, DisconnectEdgeType, BecomesType DEF SeesDisconnected
<1>5. CASE maintainAutomaticRemute
  <2>1. [f EXCEPT !.remConf = TRUE, !.muteKnown = FALSE] \in FirmwareState
    BY <1>f DEF FirmwareState
  <2> QED BY <1>5, <1>f, <2>1, CommandTypes, SendsType DEF maintainAutomaticRemute
<1>6. CASE RestoreDeadline \/ ResponseTimeout
  BY <1>6, <1>f, failVolumeRestoreType, BecomesType DEF RestoreDeadline, ResponseTimeout
<1>7. CASE LeaseEnds
  <2>1. (IF f.vol = f.t.target THEN completeVolumeRestore(f) ELSE failVolumeRestore(f))
          \in FirmwareState
    BY <1>f, completeVolumeRestoreType, failVolumeRestoreType
  <2> QED BY <1>7, <2>1, BecomesType DEF LeaseEnds
<1> QED BY <1>1, <1>2, <1>3, <1>4, <1>5, <1>6, <1>7

(* The steps that only move the phase on, or ask for the status.            *)
LEMMA PhaseStepsType ==
  ASSUME TypeOK, RequestFreshStatus \/ RequestMovementStatus \/ Settled
  PROVE  TypeOK'
<1>f. f \in FirmwareState /\ failVolumeRestore(f) \in FirmwareState
  BY failVolumeRestoreType DEF TypeOK
<1>p. ASSUME NEW p \in Phase
      PROVE  [f EXCEPT !.t.phase = p] \in FirmwareState
  <2>1. f.t \in Session
    BY <1>f DEF FirmwareState
  <2>2. [f.t EXCEPT !.phase = p] \in Session
    BY <2>1 DEF Session
  <2> QED BY <1>f, <2>2 DEF FirmwareState
<1>1. CASE RequestFreshStatus
  BY <1>1, <1>f, <1>p, PhaseValues, CommandTypes, SendsType DEF RequestFreshStatus
<1>2. CASE RequestMovementStatus
  BY <1>2, <1>f, <1>p, PhaseValues, CommandTypes, SendsType DEF RequestMovementStatus
<1>3. CASE Settled
  BY <1>3, <1>f, <1>p, PhaseValues, CommandTypes, BecomesType, SendsType DEF Settled
<1> QED BY <1>1, <1>2, <1>3

(* The step that unmutes the receiver for a restore keeps the types.        *)
LEMMA StartMuteCycleType ==
  ASSUME TypeOK, StartMuteCycle
  PROVE  TypeOK'
<1> DEFINE dir    == volumeDirection(f.vol, f.t.target)
           clicks == volumeRapidClickCount(Distance(f.vol, f.t.target), 0, 0)
           armed  == armAutomaticRemuteRecovery(f, TRUE)
           s      == [armed.t EXCEPT !.obs = f.vol]
           done   == [armed EXCEPT !.muteKnown = FALSE, !.t = Clicked(s, f.vol, dir, clicks)]
           unset  == failVolumeRestore(armAutomaticRemuteRecovery(f, FALSE))
<1>f. f \in FirmwareState /\ f.vol \in MaybeLevel /\ f.t.target \in MaybeLevel
  BY DEF TypeOK, FirmwareState, Session
<1>1. dir \in Direction
  BY DirectionType
<1>2. clicks \in 0..MaxClicks
  <2>1. 0 \in Nat /\ 0 \in 0..MaxClicks \cup {1}
    BY VolumeAssumption
  <2> QED BY <1>f, <2>1, ClickCountType
<1>3. armed \in FirmwareState /\ unset \in FirmwareState
  BY <1>f, armAutomaticRemuteRecoveryType, failVolumeRestoreType
<1>4. Clicked(s, f.vol, dir, clicks) \in Session
  <2>1. s \in Session
    <3> HIDE DEF armed
    <3>1. armed.t \in Session
      BY <1>3 DEF FirmwareState
    <3> QED BY <1>f, <3>1 DEF Session
  <2> HIDE DEF s, dir, clicks
  <2> QED BY <1>f, <1>1, <1>2, <2>1, ClickedType
<1>5. done \in FirmwareState
  <2> HIDE DEF armed, s, dir, clicks
  <2> QED BY <1>3, <1>4 DEF FirmwareState
<1>6. failVolumeRestore(f) \in FirmwareState /\ completeVolumeRestore(f) \in FirmwareState
      /\ failVolumeRestore(armed) \in FirmwareState
  BY <1>f, <1>3, failVolumeRestoreType, completeVolumeRestoreType
<1>7. Click(dir > 0, f.t.target, NoApp) \in Command
  <2>1. (dir > 0) \in BOOLEAN
    BY <1>1 DEF Direction
  <2> HIDE DEF dir
  <2> QED BY <1>f, <2>1, EmptyValues, CommandTypes
<1>8. \/ Becomes(failVolumeRestore(f)) \/ Becomes(completeVolumeRestore(f))
      \/ Sends(<<Click(dir > 0, f.t.target, NoApp)>>, done, failVolumeRestore(armed))
      \/ Use("failures") /\ f' = unset /\ UNCHANGED <<toRx, Env>>
  BY Zenon DEF StartMuteCycle
<1>9. CASE Use("failures") /\ f' = unset /\ UNCHANGED <<toRx, Env>>
  <2>1. used' \in [DOMAIN Bound -> Nat]
    BY <1>9, UseType, BoundNames DEF TypeOK
  <2> HIDE DEF unset
  <2> QED BY <1>3, <1>9, <2>1 DEF TypeOK, Env
<1> HIDE DEF done, unset, armed, dir
<1> QED BY <1>5, <1>6, <1>7, <1>8, <1>9, BecomesType, SendsType

(* The next click of a burst keeps the types.                               *)
LEMMA BurstClickType ==
  ASSUME TypeOK, BurstClick
  PROVE  TypeOK'
<1> DEFINE t    == IF f.t.ext
                   THEN [f.t EXCEPT !.burst = TRUE, !.start = f.t.obs, !.planned = 1,
                                    !.sent = 0, !.ext = FALSE]
                   ELSE f.t
           sent == t.sent + 1
           phase == IF sent >= t.planned THEN "waitMovement" ELSE t.phase
           s    == [t EXCEPT !.steps = t.steps + 1, !.sent = sent, !.phase = phase]
           by   == IF t.auto THEN NoApp ELSE f.cur
<1>f. f \in FirmwareState /\ f.t \in Session /\ f.cur \in MaybeApp
  BY DEF TypeOK, FirmwareState
<1>1. t \in Session
  <2>1. f.t.obs \in MaybeLevel /\ 0 \in 0..MaxClicks \cup {1} /\ 1 \in 0..MaxClicks \cup {1}
    BY <1>f, VolumeAssumption DEF Session
  <2>2. [f.t EXCEPT !.burst = TRUE, !.start = f.t.obs, !.planned = 1, !.sent = 0,
                    !.ext = FALSE] \in Session
    BY <1>f, <2>1 DEF Session
  <2> QED BY <1>f, <2>2
<1>2. [f EXCEPT !.t.phase = "waitMovement"] \in FirmwareState
  <2>1. [f.t EXCEPT !.phase = "waitMovement"] \in Session
    BY <1>f, PhaseValues DEF Session
  <2> QED BY <1>f, <2>1 DEF FirmwareState
<1>3. /\ failVolumeRestore(f) \in FirmwareState
      /\ failVolumeRestore([f EXCEPT !.t = t]) \in FirmwareState
  <2> HIDE DEF t
  <2> QED BY <1>f, <1>1, SessionUpdate, failVolumeRestoreType
<1>4. Click(t.dir > 0, t.target, by) \in Command
  <2>1. t.dir \in Direction /\ t.target \in MaybeLevel /\ by \in MaybeApp
    <3> HIDE DEF t
    <3> QED BY <1>f, <1>1, EmptyValues DEF Session
  <2>2. (t.dir > 0) \in BOOLEAN
    <3> HIDE DEF t
    <3> QED BY <2>1 DEF Direction
  <2> HIDE DEF t, by
  <2> QED BY <2>1, <2>2, CommandTypes
<1>5. CASE ~(t.sent >= t.planned)
  <2>1. s \in Session
    <3>1. sent \in 0..MaxClicks \cup {1} /\ t.steps + 1 \in Nat /\ t.phase \in Phase
      <4> HIDE DEF t
      <4> QED BY <1>1, <1>5, VolumeAssumption DEF Session
    <3>2. phase \in Phase
      <4> HIDE DEF t, sent
      <4> QED BY <3>1, PhaseValues
    <3> HIDE DEF t, sent, phase
    <3> QED BY <1>1, <3>1, <3>2 DEF Session
  <2>2. [f EXCEPT !.t = s] \in FirmwareState
    <3> HIDE DEF s
    <3> QED BY <1>f, <2>1, SessionUpdate
  <2>3. \/ Becomes(failVolumeRestore(f))
        \/ Sends(<<Click(t.dir > 0, t.target, by)>>, [f EXCEPT !.t = s],
                 failVolumeRestore([f EXCEPT !.t = t]))
    BY <1>5, Zenon DEF BurstClick
  <2> HIDE DEF s, t, by
  <2> QED BY <1>3, <1>4, <2>2, <2>3, BecomesType, SendsType
<1>6. CASE t.sent >= t.planned
  <2>1. Becomes([f EXCEPT !.t.phase = "waitMovement"])
    BY <1>6, Zenon DEF BurstClick
  <2> QED BY <1>2, <2>1, BecomesType
<1> QED BY <1>5, <1>6

(* The first click of a burst, or a single click, keeps the types.          *)
LEMMA NextClickType ==
  ASSUME TypeOK, NextClick
  PROVE  TypeOK'
<1> DEFINE t      == f.t
           dir    == volumeDirection(t.obs, t.target)
           turned == t.dir # 0 /\ dir # t.dir
           clicks == IF t.coarse
                     THEN volumeRapidClickCount(Distance(t.obs, t.target), t.delta, t.clicks)
                     ELSE 0
           rev    == t.reversed \/ turned
           next   == [t EXCEPT !.reversed = rev]
           done   == [f EXCEPT !.t = Clicked(next, t.obs, dir, clicks)]
           by     == IF t.auto THEN NoApp ELSE f.cur
<1>f. f \in FirmwareState /\ t \in Session /\ f.cur \in MaybeApp
  BY DEF TypeOK, FirmwareState
<1>1. /\ t.obs \in MaybeLevel /\ t.target \in MaybeLevel /\ t.delta \in Nat
      /\ t.clicks \in 0..MaxClicks \cup {1}
  <2> HIDE DEF t
  <2> QED BY <1>f DEF Session
<1>2. dir \in Direction /\ rev \in BOOLEAN
  BY DirectionType, Zenon
<1>3. clicks \in 0..MaxClicks
  <2>1. volumeRapidClickCount(Distance(t.obs, t.target), t.delta, t.clicks) \in 0..MaxClicks
    <3> HIDE DEF t
    <3> QED BY <1>1, ClickCountType
  <2>2. 0 \in 0..MaxClicks
    BY VolumeAssumption
  <2> QED BY <2>1, <2>2, Zenon
<1>4. next \in Session
  <2> HIDE DEF t, rev
  <2> QED BY <1>f, <1>2 DEF Session
<1>5. done \in FirmwareState
  <2>1. Clicked(next, t.obs, dir, clicks) \in Session
    <3> HIDE DEF next, dir, clicks, t
    <3> QED BY <1>1, <1>2, <1>3, <1>4, ClickedType
  <2> HIDE DEF next, dir, clicks, t
  <2> QED BY <1>f, <2>1, SessionUpdate
<1>6. Click(dir > 0, t.target, by) \in Command
  <2>1. (dir > 0) \in BOOLEAN /\ by \in MaybeApp
    BY <1>2, <1>f, EmptyValues DEF Direction
  <2> HIDE DEF dir, by, t
  <2> QED BY <1>1, <2>1, CommandTypes
<1>7. failVolumeRestore(f) \in FirmwareState /\ completeVolumeRestore(f) \in FirmwareState
  BY <1>f, failVolumeRestoreType, completeVolumeRestoreType
<1>8. \/ Becomes(failVolumeRestore(f)) \/ Becomes(completeVolumeRestore(f))
      \/ Sends(<<Click(dir > 0, t.target, by)>>, done, failVolumeRestore(f))
  BY Zenon DEF NextClick
<1> HIDE DEF done, dir, by
<1> QED BY <1>5, <1>6, <1>7, <1>8, BecomesType, SendsType

(* The status poll keeps the types.                                         *)
LEMMA StatusPollType ==
  ASSUME TypeOK, StatusPoll
  PROVE  TypeOK'
<1>1. [f EXCEPT !.sess = TRUE] \in FirmwareState
  BY DEF TypeOK, FirmwareState
<1>2. CASE f.t.target < 0
  BY <1>1, <1>2, CommandTypes, SendsType DEF StatusPoll
<1>3. CASE ~(f.t.target < 0)
  <2>1. Sends(<<>>, [f EXCEPT !.sess = TRUE], [f EXCEPT !.sess = TRUE])
    BY <1>3, Zenon DEF StatusPoll
  <2>2. toRx' = toRx \/ toRx' = toRx \o <<>>
    BY <2>1 DEF Sends
  <2>3. toRx' \in Seq(Command)
    BY <2>2 DEF TypeOK
  <2>4. used' \in [DOMAIN Bound -> Nat]
    BY <2>1, UseType, BoundNames DEF Sends, TypeOK
  <2> QED BY <1>1, <2>1, <2>3, <2>4 DEF Sends, Env, TypeOK
<1> QED BY <1>2, <1>3

-----------------------------------------------------------------------------
(* The world around the firmware.                                           *)

(* The receiver stays within its range of levels.                           *)
LEMMA ClampType == ASSUME NEW v \in Int PROVE Clamp(v) \in Level
  BY VolumeAssumption DEF Clamp, Level

(* The receiver that takes a command and reports keeps the types.           *)
LEMMA ReceiverObeysType ==
  ASSUME TypeOK, ReceiverObeys
  PROVE  TypeOK'
<1> USE DEF TypeOK
<1> DEFINE c == Head(toRx)
<1>1. c \in Command /\ toRx' \in Seq(Command)
  BY HeadTailProperties DEF ReceiverObeys
<1>2. ASSUME rx' \in Receiver, NEW out \in Seq(Report), fromRx' = fromRx \o out
      PROVE  TypeOK'
  BY <1>1, <1>2 DEF ReceiverObeys, Outside
<1>3. CASE c.kind = "status"
  <2>1. PICK out \in Orders(rx) : rx' = rx /\ fromRx' = fromRx \o out
    BY <1>3, Zenon DEF ReceiverObeys
  <2> QED BY <1>2, <2>1, OrdersType
<1>4. CASE c.kind = "mute"
  <2>1. rx' = [rx EXCEPT !.muted = TRUE, !.broken = FALSE]
    BY <1>4 DEF ReceiverObeys
  <2>2. rx' \in Receiver
    BY <2>1 DEF Receiver
  <2>3. PICK out \in Reports(rx') : fromRx' = fromRx \o out
    BY <1>4 DEF ReceiverObeys
  <2> QED BY <1>2, <2>2, <2>3, OrdersType
<1>5. CASE c.kind \notin {"status", "mute"}
  <2>1. PICK gain \in Gains : /\ rx' = Moved(c, gain)
                              /\ \E out \in Reports(rx') : fromRx' = fromRx \o out
    BY <1>5, Zenon DEF ReceiverObeys
  <2>2. gain \in Nat /\ rx.vol \in Int
    BY ControllerAssumption, VolumeAssumption DEF Receiver, Level
  <2>3. Moved(c, gain) \in Receiver
    <3> DEFINE vol    == Clamp(IF c.kind = "up" THEN rx.vol + gain ELSE rx.vol - gain)
               by     == IF vol = rx.vol THEN rx.by
                         ELSE IF c.by # NoApp \/ c.goal < 0 THEN c.by
                         ELSE IF vol = c.goal THEN NoApp ELSE Midway
               broken == (rx.broken \/ rx.muted) /\ c.goal >= 0
    <3>1. vol \in Level
      BY <2>2, ClampType
    <3>2. by \in Setter
      <4>1. rx.by \in Setter /\ c.by \in Setter
        <5> HIDE DEF c
        <5> QED BY <1>1 DEF Receiver, Command, Setter
      <4> HIDE DEF vol, c
      <4> QED BY <4>1, EmptyValues DEF Setter
    <3>3. broken \in BOOLEAN
      BY Zenon
    <3> HIDE DEF vol, by, broken
    <3>4. [vol |-> vol, muted |-> FALSE, by |-> by, broken |-> broken] \in Receiver
      BY <3>1, <3>2, <3>3 DEF Receiver
    <3> QED BY <3>4 DEF Moved, vol, by, broken
  <2>4. PICK out \in Reports(rx') : fromRx' = fromRx \o out
    BY <2>1
  <2> QED BY <1>2, <2>1, <2>3, <2>4, OrdersType
<1> QED BY <1>3, <1>4, <1>5

(* The user's remote keeps the types.                                       *)
LEMMA UseRemoteType ==
  ASSUME TypeOK, UseRemote
  PROVE  TypeOK'
<1> USE DEF TypeOK
<1>1. used' \in [DOMAIN Bound -> Nat]
  BY UseType, BoundNames DEF UseRemote
<1>2. rx' \in Receiver
  <2>1. f.cur \in Setter
    BY DEF FirmwareState, Setter
  <2>2. rx.vol - 1 \in Int /\ rx.vol + 1 \in Int
    BY VolumeAssumption DEF Receiver, Level
  <2>3. CASE rx' = [rx EXCEPT !.muted = ~@, !.broken = FALSE]
    BY <2>3 DEF Receiver
  <2>4. CASE \E v \in {Clamp(rx.vol - 1), Clamp(rx.vol + 1)} :
               rx' = [rx EXCEPT !.vol = v, !.muted = FALSE, !.by = f.cur, !.broken = FALSE]
    <3>1. PICK v \in Level :
            rx' = [rx EXCEPT !.vol = v, !.muted = FALSE, !.by = f.cur, !.broken = FALSE]
      BY <2>2, <2>4, ClampType
    <3> QED BY <2>1, <3>1 DEF Receiver
  <2> QED BY <2>3, <2>4 DEF UseRemote, RemoteKey
<1>3. fromRx' \in Seq(Report)
  <2>1. \A out \in Reports(rx') : fromRx \o out \in Seq(Report)
    BY <1>2, OrdersType
  <2> QED BY <2>1 DEF UseRemote
<1> QED BY <1>1, <1>2, <1>3 DEF UseRemote, Outside

(* Link losses, reconnections and restarts keep the types.                  *)
LEMMA LinkAndPowerType ==
  ASSUME TypeOK, LinkUp \/ LinkDown \/ PowerLoss
  PROVE  TypeOK'
<1> USE DEF TypeOK
<1>1. CASE LinkUp
  BY <1>1 DEF LinkUp, Outside
<1>2. CASE LinkDown
  <2>1. used' \in [DOMAIN Bound -> Nat]
    BY <1>2, UseType, BoundNames DEF LinkDown
  <2>2. PICK n \in 0..Len(fromRx) : fromRx' = SubSeq(fromRx, 1, n)
    BY <1>2 DEF LinkDown
  <2>3. fromRx' \in Seq(Report)
    <3>1. n \in Int /\ \A i \in 1..n : fromRx[i] \in Report
      BY <2>2, ElementOfSeq, LenProperties
    <3> QED BY <2>2, <3>1, SubSeqProperties
  <2>4. toRx' \in Seq(Command)
    BY <1>2 DEF LinkDown
  <2> QED BY <1>2, <2>1, <2>3, <2>4 DEF LinkDown, Outside
<1>3. CASE PowerLoss
  <2>1. used' \in [DOMAIN Bound -> Nat]
    BY <1>3, UseType, BoundNames DEF PowerLoss
  <2>2. f.nv \in BOOLEAN /\ f.saved \in [Apps -> MaybeLevel]
    BY DEF FirmwareState
  <2>3. f' \in FirmwareState
    <3>1. PICK rows \in SUBSET Apps :
            f' = Boot(f.nv, [a \in Apps |-> IF a \in rows THEN f.saved[a] ELSE InitSaved[a]])
      BY <1>3 DEF PowerLoss
    <3>2. [a \in Apps |-> IF a \in rows THEN f.saved[a] ELSE InitSaved[a]] \in [Apps -> MaybeLevel]
      BY <2>2, ControllerAssumption
    <3> QED BY <2>2, <3>1, <3>2, BootType
  <2>4. toRx' \in Seq(Command) /\ fromRx' \in Seq(Report) /\ link' \in BOOLEAN
    BY <1>3, EmptySeq DEF PowerLoss
  <2> QED BY <1>3, <2>1, <2>3, <2>4 DEF PowerLoss
<1> QED BY <1>1, <1>2, <1>3

(* Leases and cooldowns that run out keep the types.                        *)
LEMMA TimeType ==
  ASSUME TypeOK, LeaseExpires \/ LearningCooldownEnds
  PROVE  TypeOK'
<1>1. /\ [f EXCEPT !.curAuth = "stale"] \in FirmwareState
      /\ [f EXCEPT !.pendAuth = "stale"] \in FirmwareState
      /\ [f EXCEPT !.quiet = TRUE] \in FirmwareState
  BY AuthorityValues DEF TypeOK, FirmwareState
<1> QED BY <1>1, BecomesType DEF LeaseExpires, LearningCooldownEnds

-----------------------------------------------------------------------------
(* Type correctness: no handler, report, loss or restart, in any order,     *)
(* leaves a variable of the firmware outside its range, for tables, level   *)
(* scales, clicks and event ids of every size.                              *)
THEOREM TypeCorrect == Spec => []TypeOK
<1>1. Init => TypeOK
  <2> SUFFICES ASSUME Init PROVE TypeOK
    OBVIOUS
  <2>1. f \in FirmwareState
    BY BootType, ControllerAssumption DEF Init
  <2>2. rx \in Receiver
    BY ControllerAssumption DEF Init, Receiver, Setter, MaybeApp
  <2>3. ha \in Request /\ heard \in Setter
    BY EmptyValues DEF Init, NoRequest, Request, Setter
  <2>4. used \in [DOMAIN Bound -> Nat]
    BY DEF Init
  <2>5. toRx \in Seq(Command) /\ fromRx \in Seq(Report) /\ link \in BOOLEAN
    BY EmptySeq DEF Init
  <2> QED BY <2>1, <2>2, <2>3, <2>4, <2>5 DEF TypeOK
<1>2. TypeOK /\ [Next]_vars => TypeOK'
  <2> SUFFICES ASSUME TypeOK, [Next]_vars PROVE TypeOK'
    OBVIOUS
  <2>1. CASE HomeAssistant \/ WebUser
    BY <2>1, HomeAssistantType, WebUserType
  <2>2. CASE Loop
    BY <2>2, ReadDenonType, SmallStepsType, PhaseStepsType, StartMuteCycleType,
       BurstClickType, NextClickType, StatusPollType DEF Loop, Restore
  <2>3. CASE World
    BY <2>3, ReceiverObeysType, UseRemoteType, LinkAndPowerType, TimeType DEF World
  <2>4. CASE UNCHANGED vars
    BY <2>4 DEF vars, TypeOK
  <2> QED BY <2>1, <2>2, <2>3, <2>4 DEF Next
<1> QED BY <1>1, <1>2, PTL DEF Spec

-----------------------------------------------------------------------------
(* The owner of a muted restore, and of a credit.                           *)

(* A muted restore runs for the app in front, which was granted it, and     *)
(* waits for its first command until the mute is owed.                      *)
TargetOK(fw) ==
  /\ fw.t.auto => fw.t.target >= 0
  /\ fw.t.cycle =>
       /\ fw.t.target >= 0 /\ fw.t.auto /\ fw.t.armed
       /\ fw.cur # NoApp /\ fw.curAuth # "none" /\ fw.pend = NoApp
       /\ ~fw.remConf
       /\ fw.remReq \/ (fw.t.phase = "waitAutomaticUnmute" /\ fw.t.steps = 0)

(* Leases belong to apps and to a session of the link.                      *)
AuthorityOK(fw) ==
  /\ fw.remConf => fw.remReq
  /\ fw.curAuth # "none" => fw.cur # NoApp
  /\ fw.curAuth # "none" \/ fw.pendAuth # "none" => fw.sess
  /\ fw.sess => fw.was

(* A credit is for the event consumed last, and whoever waits for the end   *)
(* of its debounce meanwhile starts nothing.                                *)
CreditOK(fw) ==
  fw.credit.target >= 0 =>
    fw.credit.event = fw.lastEvent /\ ~fw.t.auto /\ (fw.pend # NoApp => ~fw.pendAllowed)

OwnerOK(fw) == TargetOK(fw) /\ AuthorityOK(fw) /\ CreditOK(fw)

-----------------------------------------------------------------------------
(* Operators that leave the owner alone.                                    *)

SameOwner(g, fw) ==
  /\ g.cur = fw.cur /\ g.curAuth = fw.curAuth /\ g.pend = fw.pend
  /\ g.pendAuth = fw.pendAuth /\ g.pendAllowed = fw.pendAllowed
  /\ g.was = fw.was /\ g.sess = fw.sess
  /\ g.credit = fw.credit /\ g.lastEvent = fw.lastEvent
  /\ g.remReq = fw.remReq /\ g.remConf = fw.remConf

(* The session is over, or is that of another target of the same kind.      *)
Over(s) == ~s.auto /\ ~s.cycle
GoesOn(s, t, owed) ==
  /\ s.target = t.target /\ s.auto = t.auto /\ s.armed = t.armed /\ s.cycle = t.cycle
  /\ t.cycle /\ ~owed => s.phase = t.phase /\ s.steps = t.steps

(* What such an operator keeps.                                             *)
LEMMA OwnerIsEnough ==
  ASSUME NEW fw, NEW g, OwnerOK(fw), SameOwner(g, fw), Over(g.t) \/ GoesOn(g.t, fw.t, fw.remReq)
  PROVE  OwnerOK(g)
BY DEF OwnerOK, TargetOK, AuthorityOK, CreditOK, SameOwner, Over, GoesOn

(* A change of the session alone leaves the owner alone.                    *)
LEMMA SessionIsNotOwner ==
  ASSUME NEW fw \in FirmwareState, NEW s
  PROVE  SameOwner([fw EXCEPT !.t = s], fw) /\ [fw EXCEPT !.t = s].t = s
BY DEF SameOwner, FirmwareState

(* However a target ends, only the target ends.                             *)
LEMMA EndsAlone ==
  ASSUME NEW fw \in FirmwareState
  PROVE  /\ SameOwner(completeVolumeRestore(fw), fw) /\ Over(completeVolumeRestore(fw).t)
         /\ SameOwner(failVolumeRestore(fw), fw) /\ Over(failVolumeRestore(fw).t)
         /\ SameOwner(cancelVolumeRestore(fw), fw) /\ Over(cancelVolumeRestore(fw).t)
<1>1. ASSUME NEW g \in FirmwareState
      PROVE  /\ SameOwner(resetVolumeRestore(g), g) /\ resetVolumeRestore(g).t = NoSession
             /\ resetVolumeRestore(g) \in FirmwareState
  <2>1. SameOwner(resetVolumeRestore(g), g) /\ resetVolumeRestore(g).t = NoSession
    BY DEF resetVolumeRestore, SameOwner, FirmwareState
  <2> QED BY <2>1, resetVolumeRestoreType
<1>2. Over(NoSession)
  BY DEF Over, NoSession
<1>3. ASSUME NEW g \in FirmwareState
      PROVE  SameOwner(completeVolumeRestore(g), g) /\ Over(completeVolumeRestore(g).t)
  <2> DEFINE r == resetVolumeRestore(g)
  <2>1. /\ SameOwner([r EXCEPT !.suppressed = g.remReq, !.failRaw = None, !.quiet = TRUE], r)
        /\ [r EXCEPT !.suppressed = g.remReq, !.failRaw = None, !.quiet = TRUE].t = r.t
    <3>1. r \in FirmwareState
      BY <1>1
    <3> HIDE DEF r
    <3> QED BY <3>1 DEF SameOwner, FirmwareState
  <2> QED BY <1>1, <1>2, <2>1 DEF completeVolumeRestore, SameOwner
<1>4. SameOwner(failVolumeRestore(fw), fw) /\ Over(failVolumeRestore(fw).t)
  <2> DEFINE r == resetVolumeRestore(fw)
  <2>1. /\ SameOwner([r EXCEPT !.suppressed = TRUE, !.failRaw = None, !.quiet = FALSE], r)
        /\ [r EXCEPT !.suppressed = TRUE, !.failRaw = None, !.quiet = FALSE].t = r.t
    <3>1. r \in FirmwareState
      BY <1>1
    <3> HIDE DEF r
    <3> QED BY <3>1 DEF SameOwner, FirmwareState
  <2> QED BY <1>1, <1>2, <2>1 DEF failVolumeRestore, SameOwner
<1>5. SameOwner(cancelVolumeRestore(fw), fw) /\ Over(cancelVolumeRestore(fw).t)
  <2> DEFINE a == advanceVolumeTargetGeneration(fw)
  <2>1. a \in FirmwareState /\ SameOwner(a, fw)
    <3>1. SameOwner(a, fw)
      BY DEF advanceVolumeTargetGeneration, SameOwner, FirmwareState
    <3> QED BY <3>1, advanceVolumeTargetGenerationType
  <2>2. SameOwner(completeVolumeRestore(a), fw) /\ Over(completeVolumeRestore(a).t)
    <3> HIDE DEF a
    <3> QED BY <1>3, <2>1 DEF SameOwner
  <2> QED BY <1>3, <2>2 DEF cancelVolumeRestore
<1> QED BY <1>3, <1>4, <1>5

(* Hence every end leaves the owner in order.                               *)
LEMMA EndsOK ==
  ASSUME NEW fw \in FirmwareState, OwnerOK(fw)
  PROVE  /\ OwnerOK(completeVolumeRestore(fw)) /\ OwnerOK(failVolumeRestore(fw))
         /\ OwnerOK(cancelVolumeRestore(fw))
BY EndsAlone, OwnerIsEnough

(* Revoking a credit takes away, and gives nothing.                         *)
LEMMA InvalidateOK ==
  ASSUME NEW fw \in FirmwareState
  PROVE  /\ OwnerOK(fw) => OwnerOK(invalidateReconnectRestore(fw))
         /\ OwnerOK(fw) => OwnerOK(clearReconnectRestore(fw))
         /\ \A g \in {invalidateReconnectRestore(fw), clearReconnectRestore(fw)} :
              /\ g.t = fw.t /\ g.cur = fw.cur /\ g.curAuth = fw.curAuth /\ g.pend = fw.pend
              /\ g.lastEvent = fw.lastEvent /\ g.sess = fw.sess /\ g.was = fw.was
              /\ g.remReq = fw.remReq /\ g.remConf = fw.remConf
              /\ g.credit = NoCredit /\ ~(g.credit.target >= 0)
<1>0. ~(NoCredit.target >= 0)
  BY DEF NoCredit, None
<1>1. ASSUME NEW g \in {invalidateReconnectRestore(fw), clearReconnectRestore(fw)}
      PROVE  /\ g.t = fw.t /\ g.cur = fw.cur /\ g.curAuth = fw.curAuth /\ g.pend = fw.pend
             /\ g.lastEvent = fw.lastEvent /\ g.sess = fw.sess /\ g.was = fw.was
             /\ g.remReq = fw.remReq /\ g.remConf = fw.remConf /\ g.credit = NoCredit
             /\ g.pendAuth \in {"none", fw.pendAuth}
  <2>1. CASE g = clearReconnectRestore(fw)
    BY <2>1 DEF clearReconnectRestore, FirmwareState
  <2>2. CASE g = invalidateReconnectRestore(fw)
    <3>1. CASE fw.pendReconnect >= 0
      BY <2>2, <3>1 DEF invalidateReconnectRestore, FirmwareState
    <3>2. CASE ~(fw.pendReconnect >= 0)
      BY <2>2, <3>2 DEF invalidateReconnectRestore, FirmwareState
    <3> QED BY <3>1, <3>2
  <2> QED BY <2>1, <2>2
<1>2. ASSUME NEW g \in {invalidateReconnectRestore(fw), clearReconnectRestore(fw)}, OwnerOK(fw)
      PROVE  OwnerOK(g)
  BY <1>0, <1>1, <1>2 DEF OwnerOK, TargetOK, AuthorityOK, CreditOK
<1> QED BY <1>0, <1>1, <1>2

(* Writing an app's row leaves the owner alone.                             *)
LEMMA RowsOK ==
  ASSUME NEW fw \in FirmwareState
  PROVE  /\ \A a, v : LET g == rememberAppVolume(fw, a, v) IN SameOwner(g, fw) /\ g.t = fw.t
         /\ SameOwner(SaveOutgoing(fw), fw) /\ SaveOutgoing(fw).t = fw.t
         /\ OwnerOK(fw) => OwnerOK(SaveOutgoing(fw))
<1>1. ASSUME NEW a, NEW v
      PROVE  /\ SameOwner(rememberAppVolume(fw, a, v), fw)
             /\ rememberAppVolume(fw, a, v).t = fw.t
  BY DEF rememberAppVolume, SameOwner, FirmwareState
<1>2. SameOwner(fw, fw)
  BY DEF SameOwner
<1>3. SameOwner(SaveOutgoing(fw), fw) /\ SaveOutgoing(fw).t = fw.t
  BY <1>1, <1>2, Zenon DEF SaveOutgoing
<1>4. OwnerOK(fw) => OwnerOK(SaveOutgoing(fw))
  BY <1>3, OwnerIsEnough DEF GoesOn
<1> QED BY <1>1, <1>3, <1>4

-----------------------------------------------------------------------------
(* Where targets start.                                                     *)

(* setVolume() starts a muted restore under a fresh lease only, and while   *)
(* no mute is owed.                                                         *)
LEMMA setVolumeOK ==
  ASSUME NEW fw \in FirmwareState, OwnerOK(fw), ~fw.t.cycle, NEW level, level >= 0,
         NEW automatic \in BOOLEAN,
         automatic => fw.pend = NoApp /\ ~(fw.credit.target >= 0)
  PROVE  OwnerOK(setVolume(fw, level, automatic))
<1> DEFINE mutedIdle == automatic /\ fw.muteKnown /\ fw.muted /\ fw.locked
                        /\ fw.curAuth = "fresh"
<1>1. ASSUME NEW m \in BOOLEAN, m => mutedIdle, ~fw.remReq
      PROVE  OwnerOK(StartTarget(fw, level, automatic, m))
  <2> DEFINE g     == advanceVolumeTargetGeneration(fw)
             armed == RestartedSession(fw.t, TRUE)
             over  == ~automatic /\ fw.locked
             cycle == armed.cycle \/ m
             phase == IF m THEN "waitAutomaticUnmute" ELSE armed.phase
             s     == [armed EXCEPT !.target = level, !.auto = automatic, !.override = over,
                                    !.cycle = cycle, !.phase = phase]
             h     == [g EXCEPT !.suppressed = TRUE, !.t = s]
  <2>1. /\ armed.armed /\ armed.cycle = fw.t.cycle /\ armed.steps = 0
        /\ s.target = level /\ s.auto = automatic /\ s.armed = armed.armed
        /\ s.cycle = cycle /\ s.phase = phase /\ s.steps = armed.steps
    <3>1. armed.armed /\ armed.cycle = fw.t.cycle /\ armed.steps = 0
      BY DEF RestartedSession, NoSession
    <3>2. /\ s.target = level /\ s.auto = automatic /\ s.armed = armed.armed
          /\ s.cycle = cycle /\ s.phase = phase /\ s.steps = armed.steps
      <4> HIDE DEF over, cycle, phase
      <4> QED BY DEF RestartedSession, NoSession
    <3> QED BY <3>1, <3>2
  <2>2. g \in FirmwareState /\ SameOwner(g, fw)
    <3>1. SameOwner(g, fw)
      BY DEF advanceVolumeTargetGeneration, SameOwner, FirmwareState
    <3> QED BY <3>1, advanceVolumeTargetGenerationType
  <2>3. SameOwner(h, g) /\ h.t = s
    <3> HIDE DEF g, s
    <3> QED BY <2>2 DEF SameOwner, FirmwareState
  <2>4. /\ h.t.target >= 0 /\ h.t.auto = automatic /\ h.t.armed
        /\ h.t.cycle => m /\ h.t.phase = "waitAutomaticUnmute" /\ h.t.steps = 0
    <3> HIDE DEF s, h, armed
    <3> QED BY <2>1, <2>3
  <2>5. SameOwner(h, fw)
    <3> HIDE DEF g, h
    <3> QED BY <2>2, <2>3 DEF SameOwner
  <2>6. OwnerOK(h)
    <3> HIDE DEF h
    <3> QED BY <1>1, <2>4, <2>5 DEF OwnerOK, TargetOK, AuthorityOK, CreditOK, SameOwner
  <2> QED BY <2>6, Zenon DEF StartTarget
<1>2. OwnerOK([fw EXCEPT !.suppressed = TRUE, !.failRaw = fw.vol, !.quiet = TRUE])
  BY DEF OwnerOK, TargetOK, AuthorityOK, CreditOK, FirmwareState
<1>3. mutedIdle \in BOOLEAN
  BY Zenon
<1>4. \/ setVolume(fw, level, automatic)
           \in {fw, [fw EXCEPT !.suppressed = TRUE, !.failRaw = fw.vol, !.quiet = TRUE]}
      \/ ~fw.remReq /\ setVolume(fw, level, automatic) = StartTarget(fw, level, automatic, mutedIdle)
  BY Zenon DEF setVolume
<1> HIDE DEF mutedIdle
<1> QED BY <1>1, <1>2, <1>3, <1>4

(* The restore of the app in front starts under the same conditions.        *)
LEMMA startRestoreOK ==
  ASSUME NEW fw \in FirmwareState, OwnerOK(fw), ~fw.t.cycle, fw.pend = NoApp,
         ~(fw.credit.target >= 0)
  PROVE  OwnerOK(startRestoreForCurrentApp(fw))
<1>1. fw.cur \in MaybeApp
  BY DEF FirmwareState
<1>2. \/ startRestoreForCurrentApp(fw) \in {fw, cancelVolumeRestore(fw)}
      \/ /\ fw.cur # NoApp /\ ~(fw.saved[fw.cur] < 0)
         /\ startRestoreForCurrentApp(fw) = setVolume(fw, fw.saved[fw.cur], TRUE)
  BY Zenon DEF startRestoreForCurrentApp
<1>3. ASSUME fw.cur # NoApp, ~(fw.saved[fw.cur] < 0) PROVE fw.saved[fw.cur] >= 0
  <2>1. fw.saved[fw.cur] \in MaybeLevel
    BY <1>1, <1>3, SavedType
  <2> QED BY <1>3, <2>1, VolumeAssumption DEF MaybeLevel, Level, None
<1> QED BY <1>2, <1>3, setVolumeOK, EndsOK

(* Losing the app in front ends its restore.                                *)
LEMMA clearCurrentAppOK ==
  ASSUME NEW fw \in FirmwareState, OwnerOK(fw)
  PROVE  OwnerOK(clearCurrentApp(fw))
<1> DEFINE h == invalidateReconnectRestore(fw)
           g == [h EXCEPT !.pend = NoApp, !.pendAuth = "none", !.pendAllowed = TRUE,
                          !.pendReconnect = None, !.cur = NoApp, !.curAuth = "none"]
<1>1. h \in FirmwareState /\ OwnerOK(h) /\ ~(h.credit.target >= 0)
  BY invalidateReconnectRestoreType, InvalidateOK
<1>2. /\ g \in FirmwareState /\ g.t = h.t /\ g.credit = h.credit
      /\ g.was = h.was /\ g.sess = h.sess /\ g.remReq = h.remReq /\ g.remConf = h.remConf
      /\ g.pend = NoApp /\ g.pendAuth = "none" /\ g.cur = NoApp /\ g.curAuth = "none"
  <2> HIDE DEF h
  <2>1. g \in FirmwareState
    BY <1>1, EmptyValues, AuthorityValues DEF FirmwareState
  <2>2. /\ g.t = h.t /\ g.credit = h.credit
        /\ g.was = h.was /\ g.sess = h.sess /\ g.remReq = h.remReq /\ g.remConf = h.remConf
        /\ g.pend = NoApp /\ g.pendAuth = "none" /\ g.cur = NoApp /\ g.curAuth = "none"
    BY <1>1 DEF FirmwareState
  <2> QED BY <2>1, <2>2
<1> HIDE DEF g, h
<1>3. OwnerOK(cancelVolumeRestore(g))
  BY <1>1, <1>2, EndsAlone DEF OwnerOK, TargetOK, AuthorityOK, CreditOK, SameOwner, Over
<1>4. ASSUME ~(g.t.target >= 0 /\ g.t.auto) PROVE OwnerOK(g)
  BY <1>1, <1>2, <1>4 DEF OwnerOK, TargetOK, AuthorityOK, CreditOK
<1> QED BY <1>3, <1>4, Zenon DEF clearCurrentApp, g, h

-----------------------------------------------------------------------------
(* Updates from Home Assistant.                                             *)

(* A decision that fits the credit beside it: an update that may start a    *)
(* target finds none, or is the one the credit is for.                      *)
Fits(g, kind) ==
  /\ OwnerOK(g.f)
  /\ g.idle => kind = "idle" /\ g.allowed /\ ~g.duplicate
  /\ g.auth = IF g.idle THEN "fresh" ELSE "none"
  /\ g.reconnect => g.idle /\ g.f.credit.target >= 0
  /\ g.duplicate => ~g.allowed
  /\ ~g.duplicate /\ ~g.reconnect => ~(g.f.credit.target >= 0)

(* What Grant decides fits, and it leaves who is in front alone.            *)
LEMMA GrantOK ==
  ASSUME NEW fw \in FirmwareState, OwnerOK(fw), NEW a \in MaybeApp, NEW kind,
         NEW e \in EventId, NEW reauth \in BOOLEAN
  PROVE  LET g == Grant(fw, a, kind, e, reauth)
         IN Fits(g, kind) /\ g.f.t = fw.t /\ g.f.cur = fw.cur /\ g.f.sess = fw.sess
            /\ g.f.pend = fw.pend
<1> DEFINE g         == IF fw.pendReconnect >= 0 THEN invalidateReconnectRestore(fw) ELSE fw
           credited  == reconnectRestoreMatches(g, a, e)
           matches   == kind = "idle" /\ credited
           reconnect == reauth /\ matches
           idle      == reconnect \/ (~reauth /\ kind = "idle" /\ e # fw.lastEvent)
           kept      == IF g.credit.target >= 0 /\ ~matches
                        THEN invalidateReconnectRestore(g) ELSE g
           next      == IF idle /\ ~reconnect THEN [kept EXCEPT !.lastEvent = e] ELSE kept
           G         == Grant(fw, a, kind, e, reauth)
<1>1. /\ g \in FirmwareState /\ OwnerOK(g) /\ g.t = fw.t /\ g.cur = fw.cur
      /\ g.sess = fw.sess /\ g.pend = fw.pend /\ g.lastEvent = fw.lastEvent
  BY invalidateReconnectRestoreType, InvalidateOK
<1>2. credited => g.credit.target >= 0 /\ g.credit.event = e
  BY DEF reconnectRestoreMatches
<1>3. /\ kept \in FirmwareState /\ OwnerOK(kept) /\ kept.t = g.t /\ kept.cur = g.cur
      /\ kept.sess = g.sess /\ kept.pend = g.pend
      /\ matches => kept = g
      /\ ~matches => ~(kept.credit.target >= 0)
  <2> HIDE DEF g, matches
  <2> QED BY <1>1, invalidateReconnectRestoreType, InvalidateOK
<1>4. idle /\ ~reconnect => ~(kept.credit.target >= 0)
  <2>1. CASE matches /\ ~reauth /\ e # fw.lastEvent
    <3> HIDE DEF g, kept
    <3>1. g.credit.event = g.lastEvent
      BY <1>1, <1>2, <2>1 DEF OwnerOK, CreditOK, matches
    <3> QED BY <1>1, <1>2, <2>1, <3>1 DEF matches
  <2> HIDE DEF g, kept, credited
  <2> QED BY <1>3, <2>1
<1>5. /\ OwnerOK(next) /\ next.t = kept.t /\ next.cur = kept.cur
      /\ next.sess = kept.sess /\ next.pend = kept.pend /\ next.credit = kept.credit
  <2> DEFINE n == [kept EXCEPT !.lastEvent = e]
  <2>1. /\ n.t = kept.t /\ n.cur = kept.cur /\ n.curAuth = kept.curAuth /\ n.was = kept.was
        /\ n.sess = kept.sess /\ n.pend = kept.pend /\ n.credit = kept.credit
        /\ n.pendAuth = kept.pendAuth /\ n.remReq = kept.remReq /\ n.remConf = kept.remConf
    <3> HIDE DEF kept
    <3> QED BY <1>3 DEF FirmwareState
  <2>2. ASSUME ~(kept.credit.target >= 0) PROVE OwnerOK(n)
    <3> HIDE DEF kept, n
    <3> QED BY <1>3, <2>1, <2>2 DEF OwnerOK, TargetOK, AuthorityOK, CreditOK
  <2> HIDE DEF kept, n, idle, reconnect
  <2> QED BY <1>3, <1>4, <2>1, <2>2 DEF n
<1>6. /\ G.f = next /\ G.reconnect = reconnect /\ G.idle = idle
      /\ G.duplicate = (kind = "idle" /\ ~idle) /\ G.allowed = (idle \/ kind = "active")
      /\ G.auth = IF idle THEN "fresh" ELSE "none"
  <2> HIDE DEF next, idle, reconnect
  <2> QED BY DEF Grant, next, kept, idle, reconnect, matches, credited, g
<1>7. reconnect => kept.credit.target >= 0
  <2> HIDE DEF g, kept
  <2> QED BY <1>2, <1>3 DEF matches
<1>8. (kind = "idle" /\ ~idle) \/ idle \/ ~matches
  <2> HIDE DEF credited
  <2> QED OBVIOUS
<1>9. idle => kind = "idle"
  <2> HIDE DEF credited
  <2> QED OBVIOUS
<1>10. reconnect => idle
  <2> HIDE DEF credited
  <2> QED OBVIOUS
<1> HIDE DEF g, kept, next, G, credited, matches, reconnect, idle
<1>11. Fits(G, kind)
  BY <1>3, <1>4, <1>5, <1>6, <1>7, <1>8, <1>9, <1>10 DEF Fits
<1> QED BY <1>1, <1>3, <1>5, <1>6, <1>11 DEF G

(* An update for the app in front: a grant starts a target anew, a refusal  *)
(* ends the muted restore before the lease is gone.                         *)
LEMMA UpdateCurrentOK ==
  ASSUME NEW g \in Granted, NEW kind, Fits(g, kind), g.f.cur # NoApp,
         kind = "idle" /\ ~g.duplicate => g.f.sess /\ ~g.f.t.cycle
  PROVE  OwnerOK(UpdateCurrent(g))
<1> DEFINE fw   == g.f
           auth == IF g.duplicate THEN fw.curAuth ELSE g.auth
           f1   == [fw EXCEPT !.pend = NoApp, !.pendAllowed = TRUE, !.pendReconnect = None,
                             !.curAuth = auth]
           ends == ~g.duplicate /\ ~g.idle /\ f1.t.cycle
           f2   == IF ends THEN cancelVolumeRestore(f1) ELSE f1
           f3   == clearReconnectRestore(f2)
<1>1. fw \in FirmwareState /\ auth \in Authority /\ OwnerOK(fw)
  BY DEF Granted, FirmwareState, Fits
<1>2. /\ f1 \in FirmwareState /\ f1.t = fw.t /\ f1.cur = fw.cur /\ f1.curAuth = auth
      /\ f1.pend = NoApp /\ f1.pendAuth = fw.pendAuth /\ f1.was = fw.was /\ f1.sess = fw.sess
      /\ f1.credit = fw.credit /\ f1.lastEvent = fw.lastEvent
      /\ f1.remReq = fw.remReq /\ f1.remConf = fw.remConf
  <2> HIDE DEF fw, auth
  <2>1. f1 \in FirmwareState
    BY <1>1, EmptyValues DEF FirmwareState
  <2>2. /\ f1.t = fw.t /\ f1.cur = fw.cur /\ f1.curAuth = auth
        /\ f1.pend = NoApp /\ f1.pendAuth = fw.pendAuth /\ f1.was = fw.was /\ f1.sess = fw.sess
        /\ f1.credit = fw.credit /\ f1.lastEvent = fw.lastEvent
        /\ f1.remReq = fw.remReq /\ f1.remConf = fw.remConf
    BY <1>1 DEF FirmwareState
  <2> QED BY <2>1, <2>2
<1>3. /\ f2 \in FirmwareState /\ SameOwner(f2, f1)
      /\ ends => Over(f2.t)
      /\ ~ends => f2.t = f1.t
  <2> HIDE DEF f1
  <2> QED BY <1>2, cancelVolumeRestoreType, EndsAlone DEF SameOwner
<1>4. AuthorityOK(f1) /\ CreditOK(f1)
  <2>1. g.idle => fw.sess
    BY DEF Fits
  <2>2. auth # "none" => fw.curAuth # "none" \/ g.idle
    BY DEF Fits
  <2> HIDE DEF fw, auth, f1
  <2> QED BY <1>1, <1>2, <2>1, <2>2 DEF OwnerOK, AuthorityOK, CreditOK, fw
<1>5. ~ends /\ f1.t.cycle => auth # "none"
  <2>1. g.idle => ~fw.t.cycle
    BY DEF Fits
  <2>2. fw.t.cycle => fw.curAuth # "none"
    <3> HIDE DEF fw
    <3> QED BY <1>1 DEF OwnerOK, TargetOK
  <2> HIDE DEF fw, f1
  <2> QED BY <1>2, <2>1, <2>2
<1>6. OwnerOK(f2)
  <2>1. CASE ends
    <3> HIDE DEF f1, f2, ends
    <3> QED BY <1>3, <1>4, <2>1 DEF OwnerOK, TargetOK, AuthorityOK, CreditOK, SameOwner, Over
  <2>2. CASE ~ends
    <3>1. TargetOK(f1)
      <4> HIDE DEF f1, ends, auth, fw
      <4> QED BY <1>1, <1>2, <1>5, <2>2 DEF OwnerOK, TargetOK
    <3>2. f2 = f1
      <4> HIDE DEF f1
      <4> QED BY <2>2
    <3> HIDE DEF f1, f2, ends
    <3> QED BY <1>4, <3>1, <3>2 DEF OwnerOK
  <2> QED BY <2>1, <2>2
<1>7. f2.pend = NoApp /\ f2.credit = fw.credit
  <2> HIDE DEF f1, f2, fw
  <2> QED BY <1>2, <1>3 DEF SameOwner
<1>8. ~g.duplicate => ~f2.t.cycle
  <2>1. g.idle => ~fw.t.cycle
    BY DEF Fits
  <2> HIDE DEF f1, f2, fw
  <2> QED BY <1>2, <1>3, <2>1 DEF Over, ends
<1>9. g.reconnect => ~g.duplicate /\ f2.credit.target >= 0
  <2> HIDE DEF f2
  <2> QED BY <1>7 DEF Fits
<1>10. ~g.duplicate /\ ~g.reconnect => ~(f2.credit.target >= 0)
  <2> HIDE DEF f2
  <2> QED BY <1>7 DEF Fits
<1>11. \/ g.reconnect /\ UpdateCurrent(g) = setVolume(f3, f2.credit.target, TRUE)
       \/ ~g.reconnect /\ ~g.duplicate /\ UpdateCurrent(g) = startRestoreForCurrentApp(f2)
       \/ UpdateCurrent(g) = f2
  BY Zenon DEF UpdateCurrent
<1> HIDE DEF f2, fw
<1>12. /\ f3 \in FirmwareState /\ OwnerOK(f3) /\ f3.t = f2.t /\ f3.pend = f2.pend
       /\ ~(f3.credit.target >= 0)
  BY <1>3, <1>6, clearReconnectRestoreType, InvalidateOK
<1> HIDE DEF f3
<1>13. g.reconnect => OwnerOK(setVolume(f3, f2.credit.target, TRUE))
  BY <1>7, <1>8, <1>9, <1>12, setVolumeOK
<1>14. ~g.reconnect /\ ~g.duplicate => OwnerOK(startRestoreForCurrentApp(f2))
  BY <1>3, <1>6, <1>7, <1>8, <1>10, startRestoreOK
<1> QED BY <1>6, <1>11, <1>13, <1>14

(* A candidate that waits beside a credit is allowed nothing.               *)
LEMMA SetPendingAuthorityOK ==
  ASSUME NEW fw \in FirmwareState, OwnerOK(fw), ~fw.t.cycle,
         NEW g \in Granted, NEW kind, Fits(g, kind), g.f.credit = fw.credit,
         g.idle => fw.sess, NEW a \in MaybeApp
  PROVE  OwnerOK(SetPendingAuthority([fw EXCEPT !.pend = a], g))
<1> DEFINE h  == [fw EXCEPT !.pend = a]
           level == IF g.reconnect THEN h.credit.target ELSE None
           f1 == [h EXCEPT !.pendAuth = g.auth, !.pendAllowed = g.allowed,
                           !.pendReconnect = level]
           f2 == clearReconnectRestore(f1)
<1>1. level \in MaybeLevel
  <2>1. h.credit = fw.credit
    BY DEF FirmwareState
  <2> HIDE DEF h
  <2> QED BY <2>1, EmptyValues DEF FirmwareState, Credit
<1>2. h \in FirmwareState
  BY DEF FirmwareState
<1>3. f1 \in FirmwareState
  <2>1. g.auth \in Authority /\ g.allowed \in BOOLEAN
    BY DEF Granted
  <2> HIDE DEF h, level
  <2> QED BY <1>1, <1>2, <2>1 DEF FirmwareState
<1>4. /\ f1.t = fw.t /\ f1.cur = fw.cur /\ f1.curAuth = fw.curAuth /\ f1.was = fw.was
      /\ f1.sess = fw.sess /\ f1.credit = fw.credit /\ f1.lastEvent = fw.lastEvent
      /\ f1.remReq = fw.remReq /\ f1.remConf = fw.remConf
      /\ f1.pendAuth = g.auth /\ f1.pendAllowed = g.allowed
  <2> HIDE DEF level
  <2> QED BY DEF FirmwareState
<1>5. /\ f2.t = f1.t /\ f2.cur = f1.cur /\ f2.curAuth = f1.curAuth /\ f2.was = f1.was
      /\ f2.sess = f1.sess /\ f2.remReq = f1.remReq /\ f2.remConf = f1.remConf
      /\ f2.pendAuth = f1.pendAuth /\ ~(f2.credit.target >= 0)
  <2> HIDE DEF f1
  <2>1. f2.pendAuth = f1.pendAuth
    BY <1>3 DEF clearReconnectRestore, FirmwareState
  <2> QED BY <1>3, <2>1, InvalidateOK
<1>6. SetPendingAuthority(h, g) = IF g.reconnect THEN f2 ELSE f1
  BY Zenon DEF SetPendingAuthority
<1> HIDE DEF f1, f2, h
<1>7. CASE g.reconnect
  BY <1>4, <1>5, <1>6, <1>7 DEF Fits, OwnerOK, TargetOK, AuthorityOK, CreditOK, h
<1>8. CASE ~g.reconnect
  <2>1. OwnerOK(f1)
    BY <1>4, <1>8 DEF Fits, OwnerOK, TargetOK, AuthorityOK, CreditOK
  <2> QED BY <1>6, <1>8, <2>1 DEF h
<1> QED BY <1>7, <1>8

(* A new candidate ends the automatic target it may not share.              *)
LEMMA NewPendingOK ==
  ASSUME NEW g \in Granted, NEW kind, Fits(g, kind), g.idle => g.f.sess, NEW a \in MaybeApp
  PROVE  OwnerOK(NewPending(g, a))
<1> DEFINE f1 == SaveOutgoing(g.f)
           f2 == IF f1.t.target < 0 \/ f1.t.auto THEN cancelVolumeRestore(f1) ELSE f1
<1>1. /\ f1 \in FirmwareState /\ OwnerOK(f1) /\ SameOwner(f1, g.f)
  BY SaveOutgoingType, RowsOK DEF Granted, Fits
<1>2. f2 \in FirmwareState /\ OwnerOK(f2) /\ SameOwner(f2, f1) /\ ~f2.t.cycle
  <2> HIDE DEF f1
  <2>1. CASE f1.t.target < 0 \/ f1.t.auto
    BY <1>1, <2>1, cancelVolumeRestoreType, EndsAlone, EndsOK DEF Over
  <2>2. CASE ~(f1.t.target < 0 \/ f1.t.auto)
    BY <1>1, <2>2 DEF SameOwner, OwnerOK, TargetOK
  <2> QED BY <2>1, <2>2
<1>3. NewPending(g, a) = SetPendingAuthority([f2 EXCEPT !.pend = a], g)
  BY Zenon DEF NewPending
<1> HIDE DEF f1, f2
<1>4. f2.credit = g.f.credit /\ f2.sess = g.f.sess
  BY <1>1, <1>2 DEF SameOwner
<1> QED BY <1>2, <1>3, <1>4, SetPendingAuthorityOK

(* POST /api/app, past its guards.                                          *)
LEMMA queueAppCandidateOK ==
  ASSUME NEW fw \in FirmwareState, OwnerOK(fw), NEW a \in Apps, NEW kind,
         NEW e \in EventId, NEW reauth \in BOOLEAN,
         kind = "idle" => fw.sess /\ ~fw.t.cycle
  PROVE  OwnerOK(queueAppCandidate(fw, a, kind, e, reauth))
<1> DEFINE g == Grant(fw, a, kind, e, reauth)
<1>1. a \in MaybeApp /\ a # NoApp
  BY FirmwareAssumption DEF MaybeApp
<1>2. /\ g \in Granted /\ Fits(g, kind) /\ g.f.t = fw.t /\ g.f.cur = fw.cur
      /\ g.f.sess = fw.sess /\ g.f.pend = fw.pend
  BY <1>1, GrantType, GrantOK
<1> HIDE DEF g
<1>3. CASE a = fw.cur
  <2>1. OwnerOK(UpdateCurrent(g))
    BY <1>1, <1>2, <1>3, UpdateCurrentOK
  <2> QED BY <1>3, <2>1 DEF queueAppCandidate, g
<1>4. CASE a # fw.cur /\ a = fw.pend
  <2>1. g.f \in FirmwareState /\ OwnerOK(g.f)
    BY <1>2 DEF Granted, Fits
  <2>2. [g.f EXCEPT !.pend = a] = g.f
    BY <1>2, <1>4, <2>1 DEF FirmwareState
  <2>3. ~g.f.t.cycle
    BY <1>1, <1>2, <1>4 DEF OwnerOK, TargetOK
  <2>4. OwnerOK(SetPendingAuthority(g.f, g))
    <3>1. g.idle => g.f.sess
      BY <1>2 DEF Fits
    <3>2. OwnerOK(SetPendingAuthority([g.f EXCEPT !.pend = a], g))
      BY <1>1, <1>2, <2>1, <2>3, <3>1, SetPendingAuthorityOK
    <3> QED BY <2>2, <3>2
  <2>5. OwnerOK(UpdatePending(g))
    BY <2>1, <2>4 DEF UpdatePending
  <2> QED BY <1>4, <2>5 DEF queueAppCandidate, g
<1>5. CASE a # fw.cur /\ a # fw.pend
  <2>1. g.idle => g.f.sess
    BY <1>2 DEF Fits
  <2>2. OwnerOK(NewPending(g, a))
    BY <1>1, <1>2, <2>1, NewPendingOK
  <2> QED BY <1>5, <2>2 DEF queueAppCandidate, g
<1> QED BY <1>3, <1>4, <1>5

(* The end of the debounce.                                                 *)
LEMMA activatePendingAppOK ==
  ASSUME NEW fw \in FirmwareState, OwnerOK(fw), fw.pend # NoApp
  PROVE  OwnerOK(activatePendingApp(fw))
<1> DEFINE f1 == SaveOutgoing(fw)
           f2 == [f1 EXCEPT !.cur = fw.pend, !.curAuth = fw.pendAuth, !.pend = NoApp,
                            !.pendAuth = "none", !.pendAllowed = TRUE, !.pendReconnect = None]
           f3 == rememberAppVolume(f2, fw.pend, f2.vol)
<1>1. f1 \in FirmwareState /\ SameOwner(f1, fw) /\ f1.t = fw.t
  BY SaveOutgoingType, RowsOK
<1>2. ~fw.t.cycle
  BY DEF OwnerOK, TargetOK
<1>3. /\ f2 \in FirmwareState /\ f2.t = f1.t /\ f2.cur = fw.pend /\ f2.curAuth = fw.pendAuth
      /\ f2.pend = NoApp /\ f2.pendAuth = "none" /\ f2.was = f1.was /\ f2.sess = f1.sess
      /\ f2.credit = f1.credit /\ f2.lastEvent = f1.lastEvent
      /\ f2.remReq = f1.remReq /\ f2.remConf = f1.remConf
  <2>1. fw.pend \in MaybeApp /\ fw.pendAuth \in Authority
    BY DEF FirmwareState
  <2> HIDE DEF f1
  <2>2. f2 \in FirmwareState
    BY <1>1, <2>1, EmptyValues, AuthorityValues DEF FirmwareState
  <2>3. /\ f2.t = f1.t /\ f2.cur = fw.pend /\ f2.curAuth = fw.pendAuth
        /\ f2.pend = NoApp /\ f2.pendAuth = "none" /\ f2.was = f1.was /\ f2.sess = f1.sess
        /\ f2.credit = f1.credit /\ f2.lastEvent = f1.lastEvent
        /\ f2.remReq = f1.remReq /\ f2.remConf = f1.remConf
    BY <1>1 DEF FirmwareState
  <2> QED BY <2>2, <2>3
<1>4. OwnerOK(f2)
  <2> HIDE DEF f1, f2
  <2> QED BY <1>1, <1>2, <1>3 DEF OwnerOK, TargetOK, AuthorityOK, CreditOK, SameOwner
<1>5. ~f2.t.cycle /\ f2.credit = fw.credit
  <2> HIDE DEF f1, f2
  <2> QED BY <1>1, <1>2, <1>3 DEF SameOwner
<1>6. fw.pendAllowed => ~(fw.credit.target >= 0)
  BY DEF OwnerOK, CreditOK
<1>7. OwnerOK(cancelVolumeRestore(f3))
  <2> HIDE DEF f2
  <2>1. fw.pend \in Apps /\ f2.vol \in MaybeLevel
    BY <1>3 DEF FirmwareState, MaybeApp
  <2>2. f3 \in FirmwareState /\ SameOwner(f3, f2) /\ f3.t = f2.t
    BY <1>3, <2>1, RowType, RowsOK
  <2>3. OwnerOK(f3)
    <3> HIDE DEF f3
    <3> QED BY <1>4, <2>2, OwnerIsEnough DEF GoesOn
  <2> HIDE DEF f3
  <2> QED BY <2>2, <2>3, EndsOK
<1>8. \/ activatePendingApp(fw) \in {f2, cancelVolumeRestore(f3)}
      \/ /\ fw.pendAllowed /\ fw.pendReconnect >= 0
         /\ activatePendingApp(fw) = setVolume(f2, fw.pendReconnect, TRUE)
      \/ fw.pendAllowed /\ activatePendingApp(fw) = startRestoreForCurrentApp(f2)
  BY Zenon DEF activatePendingApp
<1> HIDE DEF f1, f2, f3
<1>9. fw.pendAllowed /\ fw.pendReconnect >= 0 => OwnerOK(setVolume(f2, fw.pendReconnect, TRUE))
  BY <1>3, <1>4, <1>5, <1>6, setVolumeOK
<1>10. fw.pendAllowed => OwnerOK(startRestoreForCurrentApp(f2))
  BY <1>3, <1>4, <1>5, <1>6, startRestoreOK
<1> QED BY <1>4, <1>7, <1>8, <1>9, <1>10

-----------------------------------------------------------------------------
(* Mute reports.                                                            *)

(* A change that leaves both the owner and the session alone.               *)
LEMMA SameIsOK ==
  ASSUME NEW fw, NEW g, OwnerOK(fw), SameOwner(g, fw), g.t = fw.t
  PROVE  OwnerOK(g)
BY OwnerIsEnough DEF GoesOn

(* The journal is armed at any time, and cleared once the mute was asked    *)
(* for again, when no muted restore runs any more.                          *)
LEMMA JournalOwnerOK ==
  ASSUME NEW fw \in FirmwareState, OwnerOK(fw), NEW ok \in BOOLEAN
  PROVE  /\ OwnerOK(armAutomaticRemuteRecovery(fw, ok))
         /\ armAutomaticRemuteRecovery(fw, ok).t = fw.t
         /\ armAutomaticRemuteRecovery(fw, ok).remReq
         /\ fw.remConf => OwnerOK(clearAutomaticRemuteJournal(fw, ok))
<1>1. /\ OwnerOK(armAutomaticRemuteRecovery(fw, ok))
      /\ armAutomaticRemuteRecovery(fw, ok).t = fw.t
      /\ armAutomaticRemuteRecovery(fw, ok).remReq
  <2> DEFINE stored == fw.remJournal \/ ok
             key    == fw.nv \/ (~fw.remJournal /\ ok)
             g      == [fw EXCEPT !.remReq = TRUE, !.remConf = FALSE, !.remBase = fw.vol,
                                 !.remJournal = stored, !.nv = key]
  <2>1. /\ g.t = fw.t /\ g.cur = fw.cur /\ g.curAuth = fw.curAuth /\ g.pend = fw.pend
        /\ g.pendAuth = fw.pendAuth /\ g.pendAllowed = fw.pendAllowed
        /\ g.was = fw.was /\ g.sess = fw.sess /\ g.credit = fw.credit
        /\ g.lastEvent = fw.lastEvent /\ g.remReq = TRUE /\ g.remConf = FALSE
    <3> HIDE DEF stored, key
    <3> QED BY DEF FirmwareState
  <2>2. OwnerOK(g)
    <3> HIDE DEF g
    <3> QED BY <2>1 DEF OwnerOK, TargetOK, AuthorityOK, CreditOK
  <2>3. armAutomaticRemuteRecovery(fw, ok) = g
    BY DEF armAutomaticRemuteRecovery
  <2> HIDE DEF g
  <2> QED BY <2>1, <2>2, <2>3
<1>2. ASSUME fw.remConf PROVE OwnerOK(clearAutomaticRemuteJournal(fw, ok))
  <2> DEFINE key == IF fw.remJournal THEN FALSE ELSE fw.nv
             g   == [fw EXCEPT !.remReq = FALSE, !.remConf = FALSE, !.remJournal = FALSE,
                              !.remBase = None, !.nv = key]
  <2>1. /\ g.t = fw.t /\ g.cur = fw.cur /\ g.curAuth = fw.curAuth /\ g.pend = fw.pend
        /\ g.pendAuth = fw.pendAuth /\ g.pendAllowed = fw.pendAllowed
        /\ g.was = fw.was /\ g.sess = fw.sess /\ g.credit = fw.credit
        /\ g.lastEvent = fw.lastEvent /\ g.remReq = FALSE /\ g.remConf = FALSE
    <3> HIDE DEF key
    <3> QED BY DEF FirmwareState
  <2>2. OwnerOK(g)
    <3> HIDE DEF g
    <3> QED BY <1>2, <2>1 DEF OwnerOK, TargetOK, AuthorityOK, CreditOK
  <2>3. clearAutomaticRemuteJournal(fw, ok) \in {fw, g}
    BY Zenon DEF clearAutomaticRemuteJournal
  <2> HIDE DEF g
  <2> QED BY <2>2, <2>3
<1> QED BY <1>1, <1>2

(* The mute lock is not the owner's.                                        *)
LEMMA LockOK ==
  ASSUME NEW fw \in FirmwareState
  PROVE  /\ SameOwner(clearManualMuteLock(fw), fw) /\ clearManualMuteLock(fw).t = fw.t
         /\ \A d : LET g == acceptManualVolumeFeedback(fw, d)
                   IN SameOwner(g, fw) /\ g.t = fw.t
<1>1. SameOwner(clearManualMuteLock(fw), fw) /\ clearManualMuteLock(fw).t = fw.t
  BY DEF clearManualMuteLock, SameOwner, FirmwareState
<1>2. ASSUME NEW d
      PROVE  /\ SameOwner(acceptManualVolumeFeedback(fw, d), fw)
             /\ acceptManualVolumeFeedback(fw, d).t = fw.t
  BY DEF acceptManualVolumeFeedback, SameOwner, FirmwareState
<1> QED BY <1>1, <1>2

(* A report that says unmuted.                                              *)
LEMMA HeardUnmutedOK ==
  ASSUME NEW fw \in FirmwareState, OwnerOK(fw)
  PROVE  OwnerOK(HeardUnmuted(fw))
<1> DEFINE g       == [fw EXCEPT !.muteKnown = TRUE, !.muted = FALSE]
           unmuted == g.t.unmuted \/ g.t.cycle
           s       == [g.t EXCEPT !.unmuted = unmuted]
           h       == [g EXCEPT !.t.unmuted = unmuted]
           k       == IF fw.muteKnown /\ fw.muted THEN invalidateReconnectRestore(g) ELSE g
<1>1. g \in FirmwareState
  BY DEF FirmwareState
<1>2. SameOwner(g, fw) /\ g.t = fw.t
  BY DEF SameOwner, FirmwareState
<1>3. OwnerOK(g)
  <2> HIDE DEF g
  <2> QED BY <1>2, SameIsOK
<1>4. OwnerOK(h)
  <2> HIDE DEF g, unmuted
  <2>1. g.t \in Session
    BY <1>1 DEF FirmwareState
  <2>2. GoesOn(s, g.t, g.remReq)
    BY <2>1 DEF GoesOn, Session
  <2>3. h = [g EXCEPT !.t = s]
    BY Zenon
  <2> HIDE DEF s, h
  <2>4. SameOwner(h, g) /\ h.t = s
    BY <1>1, <2>3, SessionIsNotOwner
  <2> QED BY <1>3, <2>2, <2>4, OwnerIsEnough
<1>5. OwnerOK(clearManualMuteLock(k))
  <2> HIDE DEF g
  <2>1. k \in FirmwareState /\ OwnerOK(k)
    BY <1>1, <1>3, invalidateReconnectRestoreType, InvalidateOK
  <2> HIDE DEF k
  <2> QED BY <2>1, LockOK, SameIsOK
<1>6. HeardUnmuted(fw) \in {h, clearManualMuteLock(k)}
  BY Zenon DEF HeardUnmuted
<1> HIDE DEF g, h, k
<1> QED BY <1>4, <1>5, <1>6

(* A mute of the user's.                                                    *)
LEMMA NewlyMutedOK ==
  ASSUME NEW fw \in FirmwareState, OwnerOK(fw)
  PROVE  OwnerOK(NewlyMuted(fw))
<1> DEFINE g         == invalidateReconnectRestore(fw)
           autoFb    == (g.t.auto /\ g.t.target >= 0) /\ g.t.steps > 0
           locked    == [g EXCEPT !.autoFb = autoFb, !.locked = TRUE, !.lockRaw = g.vol]
           cancelled == cancelVolumeRestore(locked)
           h         == [cancelled EXCEPT !.suppressed = TRUE, !.failRaw = fw.vol, !.quiet = TRUE]
<1>1. g \in FirmwareState /\ OwnerOK(g)
  BY invalidateReconnectRestoreType, InvalidateOK
<1>2. autoFb \in BOOLEAN
  BY Zenon
<1>3. locked \in FirmwareState /\ OwnerOK(locked)
  <2> HIDE DEF g, autoFb
  <2>1. locked \in FirmwareState
    BY <1>1, <1>2 DEF FirmwareState
  <2>2. SameOwner(locked, g) /\ locked.t = g.t
    BY <1>1 DEF SameOwner, FirmwareState
  <2> HIDE DEF locked
  <2> QED BY <1>1, <2>1, <2>2, SameIsOK
<1>4. cancelled \in FirmwareState /\ OwnerOK(cancelled)
  <2> HIDE DEF locked
  <2> QED BY <1>3, cancelVolumeRestoreType, EndsOK
<1>5. OwnerOK(h)
  <2> HIDE DEF cancelled
  <2>1. SameOwner(h, cancelled) /\ h.t = cancelled.t
    BY <1>4 DEF SameOwner, FirmwareState
  <2> HIDE DEF h
  <2> QED BY <1>4, <2>1, SameIsOK
<1>6. NewlyMuted(fw) \in {h, locked}
  BY Zenon DEF NewlyMuted
<1> HIDE DEF g, locked, cancelled, h
<1> QED BY <1>3, <1>5, <1>6

(* A report that says muted: it settles the mute that is owed only when no  *)
(* muted restore owes it.                                                   *)
LEMMA HeardMutedOK ==
  ASSUME NEW fw \in FirmwareState, OwnerOK(fw), NEW ok \in BOOLEAN
  PROVE  OwnerOK(HeardMuted(fw, ok))
<1> DEFINE f1 == IF (fw.t.target >= 0 /\ fw.t.steps > 0) /\ ~fw.remReq
                 THEN armAutomaticRemuteRecovery(fw, ok) ELSE fw
           f2 == [f1 EXCEPT !.muteKnown = TRUE, !.muted = TRUE]
           f3 == IF f2.remReq /\ f2.remConf THEN clearAutomaticRemuteJournal(f2, ok) ELSE f2
           f4 == IF (f2.remReq /\ f2.remConf) /\ (~f2.remJournal \/ ok)
                 THEN [f3 EXCEPT !.suppressed = FALSE] ELSE f3
<1>1. f1 \in FirmwareState /\ OwnerOK(f1)
  BY armAutomaticRemuteRecoveryType, JournalOwnerOK
<1>2. f2 \in FirmwareState /\ OwnerOK(f2)
  <2> HIDE DEF f1
  <2>1. f2 \in FirmwareState
    BY <1>1 DEF FirmwareState
  <2>2. SameOwner(f2, f1) /\ f2.t = f1.t
    BY <1>1 DEF SameOwner, FirmwareState
  <2> HIDE DEF f2
  <2> QED BY <1>1, <2>1, <2>2, SameIsOK
<1>3. f3 \in FirmwareState /\ OwnerOK(f3)
  <2> HIDE DEF f2
  <2> QED BY <1>2, clearAutomaticRemuteJournalType, JournalOwnerOK
<1>4. f4 \in FirmwareState /\ OwnerOK(f4)
  <2> DEFINE h == [f3 EXCEPT !.suppressed = FALSE]
  <2>1. h \in FirmwareState /\ SameOwner(h, f3) /\ h.t = f3.t
    <3> HIDE DEF f3
    <3>1. h \in FirmwareState
      BY <1>3 DEF FirmwareState
    <3>2. SameOwner(h, f3) /\ h.t = f3.t
      BY <1>3 DEF SameOwner, FirmwareState
    <3> QED BY <3>1, <3>2
  <2>2. OwnerOK(h)
    <3> HIDE DEF f3, h
    <3> QED BY <1>3, <2>1, SameIsOK
  <2>3. f4 \in {h, f3}
    BY Zenon
  <2> HIDE DEF f3, f4, h
  <2> QED BY <1>3, <2>1, <2>2, <2>3
<1>5. HeardMuted(fw, ok) \in {f4, NewlyMuted(f4)}
  BY Zenon DEF HeardMuted
<1> HIDE DEF f4
<1> QED BY <1>4, <1>5, NewlyMutedOK

-----------------------------------------------------------------------------
(* Volume reports and the commands that follow them.                        *)

(* The session goes on for the same owner, or is over.                      *)
Drives(s, t) ==
  s.target = t.target /\ s.auto = t.auto /\ s.armed = t.armed /\ s.cycle = t.cycle
Stays(g, fw) == SameOwner(g, fw) /\ (Over(g.t) \/ Drives(g.t, fw.t))

(* Two such steps are one, and once the first command was sent such a step  *)
(* leaves the owner in order.                                               *)
LEMMA StaysIsEnough ==
  /\ \A fw : Stays(fw, fw)
  /\ \A fw, g, h : Stays(h, g) /\ Stays(g, fw) => Stays(h, fw)
  /\ \A fw, g : OwnerOK(fw) /\ Stays(g, fw) /\ fw.t.phase # "waitAutomaticUnmute" => OwnerOK(g)
<1>1. ASSUME NEW fw PROVE Stays(fw, fw)
  BY DEF Stays, SameOwner, Drives
<1>2. ASSUME NEW fw, NEW g, NEW h, Stays(h, g), Stays(g, fw) PROVE Stays(h, fw)
  BY <1>2 DEF Stays, SameOwner, Over, Drives
<1>3. ASSUME NEW fw, NEW g, OwnerOK(fw), Stays(g, fw), fw.t.phase # "waitAutomaticUnmute"
      PROVE  OwnerOK(g)
  BY <1>3 DEF Stays, SameOwner, Over, Drives, OwnerOK, TargetOK, AuthorityOK, CreditOK
<1> QED BY <1>1, <1>2, <1>3

(* Every end, and every change of the session that leaves its target, its   *)
(* kind and its flags, is such a step.                                      *)
LEMMA SessionStays ==
  ASSUME NEW fw \in FirmwareState
  PROVE  /\ Stays(completeVolumeRestore(fw), fw) /\ Stays(failVolumeRestore(fw), fw)
         /\ Stays(cancelVolumeRestore(fw), fw)
         /\ \A s : Drives(s, fw.t) => Stays([fw EXCEPT !.t = s], fw)
<1>1. ASSUME NEW s, Drives(s, fw.t) PROVE Stays([fw EXCEPT !.t = s], fw)
  BY <1>1, SessionIsNotOwner DEF Stays
<1> QED BY <1>1, EndsAlone DEF Stays

(* Noting a level or a phase is such a step.                                *)
LEMMA ObservedStays ==
  ASSUME NEW fw \in FirmwareState, NEW raw
  PROVE  /\ Stays([fw EXCEPT !.t.obs = raw], fw)
         /\ \A p : Stays([fw EXCEPT !.t.phase = p], fw)
         /\ Stays(Settling(fw, raw), fw)
<1> DEFINE o == [fw.t EXCEPT !.obs = raw]
           s == [o EXCEPT !.phase = "settling"]
<1>1. fw.t \in Session
  BY DEF FirmwareState
<1>2. Drives(o, fw.t)
  BY <1>1 DEF Drives, Session
<1>3. Stays([fw EXCEPT !.t.obs = raw], fw)
  <2>1. [fw EXCEPT !.t.obs = raw] = [fw EXCEPT !.t = o]
    BY Zenon
  <2> HIDE DEF o
  <2> QED BY <1>2, <2>1, SessionStays
<1>4. ASSUME NEW p PROVE Stays([fw EXCEPT !.t.phase = p], fw)
  <2> DEFINE q == [fw.t EXCEPT !.phase = p]
  <2>1. Drives(q, fw.t)
    BY <1>1 DEF Drives, Session
  <2>2. [fw EXCEPT !.t.phase = p] = [fw EXCEPT !.t = q]
    BY Zenon
  <2> HIDE DEF q
  <2> QED BY <2>1, <2>2, SessionStays
<1>5. Stays(Settling(fw, raw), fw)
  <2>1. Drives(s, fw.t)
    BY <1>1 DEF Drives, Session
  <2>2. Settling(fw, raw) = [fw EXCEPT !.t = s]
    BY DEF Settling, FirmwareState
  <2> HIDE DEF s
  <2> QED BY <2>1, <2>2, SessionStays
<1> QED BY <1>3, <1>4, <1>5

(* Reaching the target, or not yet.                                         *)
LEMMA AtTargetOrReadyStays ==
  ASSUME NEW fw \in FirmwareState, NEW raw
  PROVE  Stays(AtTargetOrReady(fw, raw), fw)
BY SessionStays, ObservedStays, Zenon DEF AtTargetOrReady

(* The first report after a click.                                          *)
LEMMA MovementSeenStays ==
  ASSUME NEW fw \in FirmwareState, NEW raw
  PROVE  Stays(MovementSeen(fw, raw), fw)
<1>1. fw.t \in Session
  BY DEF FirmwareState
<1>2. ASSUME NEW a, NEW b, NEW c, NEW d, NEW e, NEW h
      PROVE  Drives([fw.t EXCEPT !.obs = a, !.burst = b, !.ext = c, !.phase = d,
                                 !.delta = e, !.clicks = h], fw.t)
  BY <1>1 DEF Drives, Session
<1>3. \/ MovementSeen(fw, raw) \in {fw, failVolumeRestore(fw)}
      \/ \E a, b, c, d, e, h :
           MovementSeen(fw, raw) = [fw EXCEPT !.t = [fw.t EXCEPT
             !.obs = a, !.burst = b, !.ext = c, !.phase = d, !.delta = e, !.clicks = h]]
  BY Zenon DEF MovementSeen
<1>4. ASSUME NEW s, Drives(s, fw.t), MovementSeen(fw, raw) = [fw EXCEPT !.t = s]
      PROVE  Stays(MovementSeen(fw, raw), fw)
  BY <1>4, SessionStays
<1>5. CASE MovementSeen(fw, raw) \in {fw, failVolumeRestore(fw)}
  BY <1>5, StaysIsEnough, SessionStays
<1>6. CASE \E a, b, c, d, e, h :
             MovementSeen(fw, raw) = [fw EXCEPT !.t = [fw.t EXCEPT
               !.obs = a, !.burst = b, !.ext = c, !.phase = d, !.delta = e, !.clicks = h]]
  <2>1. PICK a, b, c, d, e, h :
             MovementSeen(fw, raw) = [fw EXCEPT !.t = [fw.t EXCEPT
               !.obs = a, !.burst = b, !.ext = c, !.phase = d, !.delta = e, !.clicks = h]]
    BY <1>6, Zenon
  <2> DEFINE s == [fw.t EXCEPT !.obs = a, !.burst = b, !.ext = c, !.phase = d,
                               !.delta = e, !.clicks = h]
  <2>2. Drives(s, fw.t)
    BY <1>2
  <2>3. MovementSeen(fw, raw) = [fw EXCEPT !.t = s]
    BY <2>1
  <2> HIDE DEF s
  <2> QED BY <1>4, <2>2, <2>3
<1> QED BY <1>3, <1>5, <1>6, Zenon

(* A report in the middle of a burst.                                       *)
LEMMA MovementDuringBurstStays ==
  ASSUME NEW fw \in FirmwareState, NEW raw \in Level
  PROVE  Stays(MovementDuringBurst(fw, raw), fw)
<1> DEFINE g  == Settling(fw, raw)
           s1 == [g.t EXCEPT !.ext = FALSE, !.burst = TRUE]
           s2 == [g.t EXCEPT !.coarse = FALSE, !.planned = fw.t.sent]
           h1 == [g EXCEPT !.t.ext = FALSE, !.t.burst = TRUE]
           h2 == [g EXCEPT !.t.coarse = FALSE, !.t.planned = fw.t.sent]
           h3 == [fw EXCEPT !.t.obs = raw]
<1>1. g \in FirmwareState /\ Stays(g, fw)
  BY SettlingType, ObservedStays
<1>2. h1 = [g EXCEPT !.t = s1] /\ h2 = [g EXCEPT !.t = s2]
  <2> HIDE DEF g
  <2> QED BY <1>1 DEF FirmwareState
<1>3. Drives(s1, g.t) /\ Drives(s2, g.t)
  <2> HIDE DEF g
  <2>1. g.t \in Session
    BY <1>1 DEF FirmwareState
  <2> QED BY <2>1 DEF Drives, Session
<1>4. MovementDuringBurst(fw, raw) \in {fw, failVolumeRestore(fw), h1, h2, h3}
  BY Zenon DEF MovementDuringBurst
<1>5. Stays(h3, fw) /\ Stays(failVolumeRestore(fw), fw)
  BY ObservedStays, SessionStays
<1> HIDE DEF g, s1, s2, h1, h2, h3
<1>6. Stays(h1, g) /\ Stays(h2, g)
  BY <1>1, <1>2, <1>3, SessionStays
<1> QED BY <1>1, <1>4, <1>5, <1>6, StaysIsEnough

(* The report that confirms a settled level.                                *)
LEMMA ConfirmationSeenStays ==
  ASSUME NEW fw \in FirmwareState, NEW raw \in Level
  PROVE  Stays(ConfirmationSeen(fw, raw), fw)
<1> DEFINE t      == fw.t
           moved  == Distance(raw, t.start)
           past   == volumeDirection(raw, t.target) \notin {0, t.dir}
           coarse == t.coarse /\ ~past
           s      == [t EXCEPT !.delta = moved, !.clicks = t.sent, !.burst = FALSE,
                               !.coarse = coarse]
           g      == [fw EXCEPT !.t.delta = moved, !.t.clicks = t.sent, !.t.burst = FALSE,
                               !.t.coarse = @ /\ ~past]
<1>1. g = [fw EXCEPT !.t = s]
  <2> HIDE DEF moved, past
  <2> QED BY Zenon
<1>2. t \in Session /\ t.start \in MaybeLevel /\ t.sent \in 0..MaxClicks \cup {1}
  BY DEF FirmwareState, Session
<1>3. moved \in Nat /\ coarse \in BOOLEAN
  <2>1. moved \in Nat
    <3> HIDE DEF t
    <3> QED BY <1>2, DistanceType DEF MaybeLevel
  <2>2. coarse \in BOOLEAN
    BY Zenon
  <2> QED BY <2>1, <2>2
<1>4. s \in Session /\ Drives(s, t)
  <2> HIDE DEF t, moved, coarse
  <2> QED BY <1>2, <1>3 DEF Session, Drives
<1>5. ConfirmationSeen(fw, raw) \in {Settling(fw, raw), AtTargetOrReady(fw, raw),
                                    failVolumeRestore(fw), AtTargetOrReady(g, raw)}
  BY Zenon DEF ConfirmationSeen
<1>6. Stays(Settling(fw, raw), fw)
  BY ObservedStays
<1>7. g \in FirmwareState /\ Stays(g, fw)
  <2> HIDE DEF s, g
  <2> QED BY <1>1, <1>4, SessionUpdate, SessionStays
<1> HIDE DEF g
<1>8. Stays(AtTargetOrReady(g, raw), fw)
  BY <1>7, AtTargetOrReadyStays, StaysIsEnough
<1> QED BY <1>5, <1>6, <1>8, AtTargetOrReadyStays, SessionStays

(* A report while a target is set; a muted restore that still waits for its *)
(* first command passes it over or fails.                                   *)
LEMMA TargetFeedbackOK ==
  ASSUME NEW fw \in FirmwareState, OwnerOK(fw), NEW raw \in Level
  PROVE  OwnerOK(TargetFeedback(fw, raw))
<1> DEFINE g == [fw EXCEPT !.t.obs = raw]
<1>1. g \in FirmwareState /\ Stays(g, fw)
  BY ObservedType, PhaseValues, ObservedStays
<1>2. Stays(AtTargetOrReady(g, raw), fw)
  <2> HIDE DEF g
  <2> QED BY <1>1, AtTargetOrReadyStays, StaysIsEnough
<1>3. CASE fw.t.phase = "waitAutomaticUnmute"
  <2>1. TargetFeedback(fw, raw) \in {failVolumeRestore(fw), fw}
    BY <1>3 DEF TargetFeedback
  <2> QED BY <2>1, EndsOK
<1>4. CASE fw.t.phase # "waitAutomaticUnmute"
  <2>1. Stays(Settling(fw, raw), fw) /\ Stays(failVolumeRestore(fw), fw)
    BY ObservedStays, SessionStays
  <2>2. Stays(TargetFeedback(fw, raw), fw)
    BY <1>1, <1>2, <2>1, MovementSeenStays, MovementDuringBurstStays, ConfirmationSeenStays,
       StaysIsEnough DEF TargetFeedback, StillMoving
  <2> QED BY <1>4, <2>2, StaysIsEnough
<1> QED BY <1>3, <1>4

(* A report while no target is set.                                         *)
LEMMA IdleFeedbackOK ==
  ASSUME NEW fw \in FirmwareState, OwnerOK(fw), NEW raw \in Level
  PROVE  OwnerOK(IdleFeedback(fw, raw))
<1> DEFINE g == invalidateReconnectRestore(fw)
           h == [g EXCEPT !.suppressed = FALSE, !.failRaw = None, !.quiet = TRUE]
           x == [fw EXCEPT !.failRaw = raw]
           y == [fw EXCEPT !.failRaw = raw, !.quiet = FALSE]
<1>1. g \in FirmwareState /\ OwnerOK(g)
  BY invalidateReconnectRestoreType, InvalidateOK
<1>2. h \in FirmwareState /\ OwnerOK(h)
  <2> HIDE DEF g
  <2>1. h \in FirmwareState
    BY <1>1, EmptyValues DEF FirmwareState
  <2>2. SameOwner(h, g) /\ h.t = g.t
    BY <1>1 DEF SameOwner, FirmwareState
  <2> HIDE DEF h
  <2> QED BY <1>1, <2>1, <2>2, SameIsOK
<1>3. ASSUME NEW k \in FirmwareState, OwnerOK(k) PROVE OwnerOK(Learn(k, raw))
  <2>1. ASSUME NEW a PROVE OwnerOK(rememberAppVolume(k, a, raw))
    BY <1>3, RowsOK, SameIsOK
  <2> QED BY <1>3, <2>1, Zenon DEF Learn
<1>4. OwnerOK(x) /\ OwnerOK(y)
  <2>1. SameOwner(x, fw) /\ x.t = fw.t
    BY DEF SameOwner, FirmwareState
  <2>2. SameOwner(y, fw) /\ y.t = fw.t
    BY DEF SameOwner, FirmwareState
  <2> HIDE DEF x, y
  <2> QED BY <2>1, <2>2, SameIsOK
<1>5. IdleFeedback(fw, raw) \in {Learn(fw, raw), Learn(h, raw), fw, x, y}
  BY Zenon DEF IdleFeedback
<1> HIDE DEF g, h, x, y
<1> QED BY <1>2, <1>3, <1>4, <1>5

(* observeVolume().                                                         *)
LEMMA observeVolumeOK ==
  ASSUME NEW fw \in FirmwareState, OwnerOK(fw), NEW raw \in Level
  PROVE  OwnerOK(observeVolume(fw, raw))
<1> DEFINE v == [fw EXCEPT !.vol = raw]
           n == NoteRemuteFeedback(v, raw)
           g == ReleaseMuteLock(n, raw)
<1>1. v \in FirmwareState /\ OwnerOK(v)
  <2>1. v \in FirmwareState
    BY DEF FirmwareState, MaybeLevel
  <2>2. SameOwner(v, fw) /\ v.t = fw.t
    BY DEF SameOwner, FirmwareState
  <2> HIDE DEF v
  <2> QED BY <2>1, <2>2, SameIsOK
<1>2. n \in FirmwareState /\ OwnerOK(n)
  <2> DEFINE m == [v EXCEPT !.remBase = raw, !.remConf = FALSE]
  <2> HIDE DEF v
  <2>1. /\ m.t = v.t /\ m.cur = v.cur /\ m.curAuth = v.curAuth /\ m.pend = v.pend
        /\ m.pendAuth = v.pendAuth /\ m.pendAllowed = v.pendAllowed
        /\ m.was = v.was /\ m.sess = v.sess /\ m.credit = v.credit
        /\ m.lastEvent = v.lastEvent /\ m.remReq = v.remReq /\ m.remConf = FALSE
    BY <1>1 DEF FirmwareState
  <2>2. OwnerOK(m)
    <3> HIDE DEF m
    <3> QED BY <1>1, <2>1 DEF OwnerOK, TargetOK, AuthorityOK, CreditOK
  <2>3. n \in {m, v}
    BY Zenon DEF NoteRemuteFeedback
  <2>4. n \in FirmwareState
    BY <1>1, NoteRemuteFeedbackType
  <2> HIDE DEF m, n
  <2> QED BY <1>1, <2>2, <2>3, <2>4
<1>3. g \in FirmwareState /\ OwnerOK(g)
  <2> DEFINE l == [n EXCEPT !.lockRaw = raw]
  <2> HIDE DEF n
  <2>1. SameOwner(l, n) /\ l.t = n.t
    BY <1>2 DEF SameOwner, FirmwareState
  <2>2. g \in {n, clearManualMuteLock(n), l}
    BY Zenon DEF ReleaseMuteLock
  <2>3. g \in FirmwareState
    BY <1>2, ReleaseMuteLockType
  <2> HIDE DEF l, g
  <2> QED BY <1>2, <2>1, <2>2, <2>3, LockOK, SameIsOK
<1>4. observeVolume(fw, raw) \in {TargetFeedback(g, raw), IdleFeedback(g, raw)}
  BY Zenon DEF observeVolume
<1> HIDE DEF v, n, g
<1> QED BY <1>3, <1>4, TargetFeedbackOK, IdleFeedbackOK

-----------------------------------------------------------------------------
(* The edges of the link.                                                   *)

(* A new connection finds no lease, hence no muted restore.                 *)
LEMMA ConnectEdgeOK ==
  ASSUME NEW fw \in FirmwareState, OwnerOK(fw), ~fw.was
  PROVE  OwnerOK(ConnectEdge(fw))
<1> DEFINE g == [fw EXCEPT !.was = TRUE, !.sess = FALSE, !.vol = None, !.muteKnown = FALSE]
           s == RestartedSession(g.t, TRUE)
           h == [g EXCEPT !.t = s]
<1>1. g \in FirmwareState
  BY EmptyValues DEF FirmwareState
<1>2. /\ g.t = fw.t /\ g.cur = fw.cur /\ g.curAuth = fw.curAuth /\ g.pend = fw.pend
      /\ g.pendAuth = fw.pendAuth /\ g.pendAllowed = fw.pendAllowed
      /\ g.was = TRUE /\ g.credit = fw.credit /\ g.lastEvent = fw.lastEvent
      /\ g.remReq = fw.remReq /\ g.remConf = fw.remConf
  BY DEF FirmwareState
<1>3. OwnerOK(g) /\ ~g.t.cycle
  <2> HIDE DEF g
  <2> QED BY <1>2 DEF OwnerOK, TargetOK, AuthorityOK, CreditOK
<1>4. s.target = g.t.target /\ s.auto = g.t.auto /\ s.cycle = g.t.cycle
  <2> HIDE DEF g
  <2> QED BY DEF RestartedSession, NoSession
<1>5. OwnerOK(h)
  <2> HIDE DEF g, s, h
  <2>1. SameOwner(h, g) /\ h.t = s
    BY <1>1, SessionIsNotOwner DEF h
  <2> QED BY <1>3, <1>4, <2>1 DEF OwnerOK, TargetOK, AuthorityOK, CreditOK, SameOwner
<1>6. ConnectEdge(fw) \in {g, h}
  BY Zenon DEF ConnectEdge, armVolumeTargetSession
<1> HIDE DEF g, h
<1> QED BY <1>3, <1>5, <1>6

(* A credit is taken for the event consumed last.                           *)
LEMMA RememberCreditOK ==
  ASSUME NEW fw \in FirmwareState, OwnerOK(fw)
  PROVE  LET r == RememberCredit(fw)
         IN /\ r.t = fw.t /\ r.lastEvent = fw.lastEvent
            /\ r.remReq = fw.remReq /\ r.remConf = fw.remConf
            /\ r.credit.target >= 0 => r.credit.event = r.lastEvent
<1> DEFINE Kept(r) == /\ r.t = fw.t /\ r.lastEvent = fw.lastEvent
                      /\ r.remReq = fw.remReq /\ r.remConf = fw.remConf
                      /\ r.credit.target >= 0 => r.credit.event = r.lastEvent
<1>1. Kept(fw)
  BY DEF OwnerOK, CreditOK
<1>2. ASSUME NEW a, NEW v PROVE Kept(rememberReconnectRestore(fw, a, fw.lastEvent, v))
  <2> DEFINE c == [app |-> a, event |-> fw.lastEvent, target |-> v]
             g == [fw EXCEPT !.credit = c]
  <2>1. c.event = fw.lastEvent
    OBVIOUS
  <2>2. /\ g.t = fw.t /\ g.lastEvent = fw.lastEvent
        /\ g.remReq = fw.remReq /\ g.remConf = fw.remConf /\ g.credit = c
    <3> HIDE DEF c
    <3> QED BY DEF FirmwareState
  <2>3. Kept(g)
    <3> HIDE DEF c, g
    <3> QED BY <2>1, <2>2
  <2>4. rememberReconnectRestore(fw, a, fw.lastEvent, v) \in {fw, g}
    BY Zenon DEF rememberReconnectRestore
  <2> HIDE DEF g, Kept
  <2> QED BY <1>1, <2>3, <2>4
<1>3. \/ RememberCredit(fw) = fw
      \/ \E a, v : RememberCredit(fw) = rememberReconnectRestore(fw, a, fw.lastEvent, v)
  BY Zenon DEF RememberCredit
<1>4. Kept(RememberCredit(fw))
  <2> HIDE DEF Kept
  <2> QED BY <1>1, <1>2, <1>3
<1> QED BY <1>4

(* A link loss takes every lease away, and every automatic target with it.  *)
LEMMA DisconnectEdgeOK ==
  ASSUME NEW fw \in FirmwareState, OwnerOK(fw)
  PROVE  OwnerOK(DisconnectEdge(fw))
<1> DEFINE r == RememberCredit(fw)
           g == [r EXCEPT
                   !.was = FALSE, !.sess = FALSE, !.vol = None, !.muteKnown = FALSE,
                   !.curAuth = "none", !.pendAuth = "none", !.pendAllowed = FALSE,
                   !.pendReconnect = None]
           h == [g EXCEPT !.remConf = FALSE]
           c == cancelVolumeRestore(h)
           d == [c EXCEPT !.suppressed = TRUE, !.failRaw = None, !.quiet = FALSE]
           s == RestartedSession(g.t, FALSE)
           p == [g EXCEPT !.t = s]
           Cut(k) == /\ k.curAuth = "none" /\ k.pendAuth = "none" /\ ~k.pendAllowed
                     /\ ~k.sess /\ ~k.was /\ (k.remConf => k.remReq)
                     /\ k.credit.target >= 0 => k.credit.event = k.lastEvent
<1>0. ASSUME NEW k, NEW m, Cut(k), SameOwner(m, k) PROVE Cut(m)
  BY <1>0 DEF SameOwner
<1>1. /\ r \in FirmwareState /\ r.t = fw.t /\ r.lastEvent = fw.lastEvent
      /\ r.remReq = fw.remReq /\ r.remConf = fw.remConf
      /\ r.credit.target >= 0 => r.credit.event = r.lastEvent
  BY RememberCreditType, RememberCreditOK
<1>2. /\ g \in FirmwareState /\ g.t = r.t /\ g.lastEvent = r.lastEvent
      /\ g.credit = r.credit /\ g.remReq = r.remReq /\ g.remConf = r.remConf
      /\ g.curAuth = "none" /\ g.pendAuth = "none" /\ g.pendAllowed = FALSE
      /\ g.sess = FALSE /\ g.was = FALSE
  <2> HIDE DEF r
  <2>1. g \in FirmwareState
    BY <1>1, EmptyValues, AuthorityValues DEF FirmwareState
  <2>2. /\ g.t = r.t /\ g.lastEvent = r.lastEvent
        /\ g.credit = r.credit /\ g.remReq = r.remReq /\ g.remConf = r.remConf
        /\ g.curAuth = "none" /\ g.pendAuth = "none" /\ g.pendAllowed = FALSE
        /\ g.sess = FALSE /\ g.was = FALSE
    BY <1>1 DEF FirmwareState
  <2> QED BY <2>1, <2>2
<1>3. Cut(g)
  <2> HIDE DEF r, g
  <2> QED BY <1>1, <1>2 DEF OwnerOK, AuthorityOK
<1>4. h \in FirmwareState /\ Cut(h)
  <2> HIDE DEF g
  <2>1. h \in FirmwareState
    BY <1>2 DEF FirmwareState
  <2>2. /\ h.curAuth = g.curAuth /\ h.pendAuth = g.pendAuth /\ h.pendAllowed = g.pendAllowed
        /\ h.sess = g.sess /\ h.was = g.was /\ ~h.remConf
        /\ h.credit = g.credit /\ h.lastEvent = g.lastEvent
    BY <1>2 DEF FirmwareState
  <2> HIDE DEF h
  <2> QED BY <1>3, <2>1, <2>2
<1>5. ASSUME NEW k, Cut(k), Over(k.t) PROVE OwnerOK(k)
  BY <1>5 DEF Over, OwnerOK, TargetOK, AuthorityOK, CreditOK
<1>6. c \in FirmwareState /\ SameOwner(c, h) /\ Over(c.t)
  <2> HIDE DEF h
  <2> QED BY <1>4, cancelVolumeRestoreType, EndsAlone
<1>7. SameOwner(d, c) /\ d.t = c.t
  <2> HIDE DEF c
  <2> QED BY <1>6 DEF SameOwner, FirmwareState
<1>8. OwnerOK(c) /\ OwnerOK(d)
  <2> HIDE DEF h, c, d, Cut
  <2> QED BY <1>0, <1>4, <1>5, <1>6, <1>7
<1>9. ASSUME ~fw.t.auto PROVE OwnerOK(g) /\ OwnerOK(p)
  <2>1. Over(g.t)
    <3> HIDE DEF g, r
    <3> QED BY <1>1, <1>2, <1>9 DEF Over, OwnerOK, TargetOK
  <2>2. s.auto = g.t.auto /\ s.cycle = g.t.cycle
    <3> HIDE DEF g
    <3> QED BY DEF RestartedSession, NoSession
  <2>3. SameOwner(p, g) /\ p.t = s
    <3> HIDE DEF g, s
    <3> QED BY <1>2, SessionIsNotOwner
  <2>4. Over(p.t)
    <3> HIDE DEF g, s, p
    <3> QED BY <2>1, <2>2, <2>3 DEF Over
  <2> HIDE DEF g, s, p, Cut
  <2> QED BY <1>0, <1>3, <1>5, <2>1, <2>3, <2>4
<1>10. \/ ~fw.t.auto /\ DisconnectEdge(fw) \in {g, p}
       \/ DisconnectEdge(fw) \in {c, d}
  BY Zenon DEF DisconnectEdge, pauseVolumeTargetSession
<1> HIDE DEF g, c, d, p
<1> QED BY <1>8, <1>9, <1>10

-----------------------------------------------------------------------------
(* The actions.                                                             *)

(* An event that can be sent again belongs to an app.                       *)
EventHasApp == ha.event > 0 => ha.app # NoApp

OwnerInv == TypeOK /\ OwnerOK(f) /\ EventHasApp

(* At the start of a pass, an idle event that is not refused finds no muted *)
(* restore.                                                                 *)
LEMMA ReceivedOK ==
  ASSUME OwnerInv, NewPass, NEW a \in Apps, NEW kind, NEW e \in EventId, NEW reauth \in BOOLEAN
  PROVE  OwnerOK(Received(a, kind, e, reauth))
<1>f. f \in FirmwareState /\ OwnerOK(f)
  BY DEF OwnerInv, TypeOK
<1>1. playbackIdleEventReady => f.sess /\ ~f.t.cycle
  BY <1>f DEF playbackIdleEventReady, OwnerOK, TargetOK, NewPass, RestoreRuns
<1>2. \/ Received(a, kind, e, reauth) \in {f, invalidateReconnectRestore(f)}
      \/ /\ kind = "idle" => playbackIdleEventReady
         /\ Received(a, kind, e, reauth) = queueAppCandidate(f, a, kind, e, reauth)
  BY Zenon DEF Received
<1> QED BY <1>f, <1>1, <1>2, InvalidateOK, queueAppCandidateOK

(* The updates from Home Assistant.                                         *)
LEMMA HomeAssistantOK ==
  ASSUME OwnerInv, HomeAssistant
  PROVE  OwnerOK(f') /\ EventHasApp'
<1>f. /\ f \in FirmwareState /\ OwnerOK(f) /\ ha \in Request /\ ha.event \in EventId
      /\ ha.app \in MaybeApp /\ ha.last \in MaybeApp
  BY DEF OwnerInv, TypeOK, Request
<1>n. NewPass
  BY DEF HomeAssistant
<1>z. 0 \in EventId /\ ~(0 > 0)
  BY EmptyValues
<1>1. ASSUME NEW a \in Apps, ReceiveIdle(a) PROVE OwnerOK(f') /\ EventHasApp'
  <2>1. used.idle + 1 \in EventId
    <3>1. "idle" \in DOMAIN Bound /\ Bound["idle"] = MaxIdle
      BY DEF Bound
    <3>2. used["idle"] \in Nat /\ used["idle"] < MaxIdle
      BY <1>1, <3>1 DEF ReceiveIdle, Use, OwnerInv, TypeOK
    <3> QED BY <3>2, ControllerAssumption, FirmwareAssumption DEF EventId
  <2>2. ha'.app = a
    <3> DEFINE r == [ha EXCEPT !.app = a, !.event = used.idle + 1, !.kind = "idle",
                               !.answered = FALSE]
    <3>1. r \in [app : {a}, event : EventId, kind : {"idle"}, answered : {FALSE}, last : MaybeApp]
      BY <1>f, <2>1 DEF Request
    <3>2. ha' \in {r, Answered(r)}
      BY <1>1, Zenon DEF ReceiveIdle
    <3> HIDE DEF r
    <3>3. Answered(r).app = r.app
      BY <3>1 DEF Answered
    <3> QED BY <3>1, <3>2, <3>3
  <2> QED BY <1>1, <1>n, <2>1, <2>2, ReceivedOK, FirmwareAssumption DEF ReceiveIdle, EventHasApp
<1>2. ASSUME NEW reauth \in BOOLEAN, ReceiveAgain(reauth) PROVE OwnerOK(f') /\ EventHasApp'
  <2>1. ha.app \in Apps
    BY <1>f, <1>2 DEF ReceiveAgain, OwnerInv, EventHasApp, MaybeApp
  <2>2. ha'.app = ha.app
    <3> DEFINE r == [ha EXCEPT !.kind = "idle"]
    <3>1. r \in Request /\ r.app = ha.app
      BY <1>f DEF Request
    <3>2. ha' \in {r, Answered(r)}
      BY <1>2, Zenon DEF ReceiveAgain
    <3> HIDE DEF r
    <3>3. Answered(r).app = r.app
      BY <3>1 DEF Answered, Request
    <3> QED BY <3>1, <3>2, <3>3
  <2> QED BY <1>f, <1>2, <1>n, <2>1, <2>2, ReceivedOK, FirmwareAssumption
          DEF ReceiveAgain, EventHasApp
<1>3. ASSUME NEW a \in Apps, ReceiveActive(a) PROVE OwnerOK(f') /\ EventHasApp'
  <2>1. ha'.event = 0
    BY <1>3 DEF ReceiveActive, Answered, NoRequest
  <2> QED BY <1>3, <1>n, <1>z, <2>1, ReceivedOK DEF ReceiveActive, EventHasApp
<1>4. CASE ReceiveRevocation
  <2>1. ha.last \in Apps
    BY <1>f, <1>4 DEF ReceiveRevocation, MaybeApp
  <2>2. ha'.app = ha.app /\ ha'.event = ha.event
    BY <1>f, <1>4 DEF ReceiveRevocation, Request
  <2> QED BY <1>4, <1>n, <1>z, <2>1, <2>2, ReceivedOK
          DEF ReceiveRevocation, OwnerInv, EventHasApp
<1>5. CASE ReceiveClear
  BY <1>f, <1>5, <1>z, clearCurrentAppOK DEF ReceiveClear, NoRequest, EventHasApp
<1>6. CASE ReceiveIgnored
  BY <1>f, <1>6, InvalidateOK DEF ReceiveIgnored, OwnerInv, EventHasApp
<1> QED BY <1>1, <1>2, <1>3, <1>4, <1>5, <1>6 DEF HomeAssistant

(* Manual commands.                                                         *)
LEMMA WebUserOK ==
  ASSUME OwnerInv, WebUser
  PROVE  OwnerOK(f') /\ ha' = ha
<1>f. f \in FirmwareState /\ OwnerOK(f)
  BY DEF OwnerInv, TypeOK
<1>1. ASSUME NEW up \in BOOLEAN, SendVolume(up) PROVE OwnerOK(f') /\ ha' = ha
  <2> DEFINE dir == IF up THEN 1 ELSE -1
             g   == invalidateReconnectRestore(f)
             h   == acceptManualVolumeFeedback(g, dir)
  <2>1. g \in FirmwareState /\ OwnerOK(g)
    BY <1>f, invalidateReconnectRestoreType, InvalidateOK
  <2>2. h \in FirmwareState /\ OwnerOK(h)
    <3>1. dir \in Direction
      BY DEF Direction
    <3> HIDE DEF g, dir
    <3> QED BY <2>1, <3>1, acceptManualVolumeFeedbackType, LockOK, SameIsOK
  <2>3. f' = cancelVolumeRestore(h) /\ ha' = ha
    BY <1>1 DEF SendVolume, Env
  <2> HIDE DEF g, h
  <2> QED BY <2>2, <2>3, EndsOK
<1>2. ASSUME NEW level \in Level, SendTargetVolume(level) PROVE OwnerOK(f') /\ ha' = ha
  <2> DEFINE dir == volumeDirection(f.vol, level)
             g   == acceptManualVolumeFeedback(f, dir)
             h   == setVolume(g, level, FALSE)
  <2>1. g \in FirmwareState /\ OwnerOK(g) /\ g.t = f.t
    BY <1>f, DirectionType, acceptManualVolumeFeedbackType, LockOK, SameIsOK
  <2>2. ~f.t.cycle
    <3>1. f.t.target < 0 /\ f.t.target \in MaybeLevel
      BY <1>f, <1>2 DEF SendTargetVolume, ManualAllowed, FirmwareState, Session
    <3> QED BY <1>f, <3>1, VolumeAssumption DEF OwnerOK, TargetOK, MaybeLevel, Level, None
  <2>3. h \in FirmwareState /\ OwnerOK(h)
    <3>1. level \in MaybeLevel /\ level >= 0
      BY VolumeAssumption DEF MaybeLevel, Level
    <3> HIDE DEF g
    <3> QED BY <2>1, <2>2, <3>1, setVolumeType, setVolumeOK
  <2>4. f' = invalidateReconnectRestore(h) /\ ha' = ha
    BY <1>2 DEF SendTargetVolume, Env
  <2> HIDE DEF g, h
  <2> QED BY <2>3, <2>4, InvalidateOK
<1> QED BY <1>1, <1>2 DEF WebUser

(* A packet from the receiver.                                              *)
LEMMA ReadDenonOK ==
  ASSUME OwnerInv, ReadDenon
  PROVE  OwnerOK(f') /\ ha' = ha
<1> DEFINE r == Head(fromRx)
<1>f. f \in FirmwareState /\ OwnerOK(f) /\ ha' = ha
  BY DEF OwnerInv, TypeOK, ReadDenon
<1>1. r \in Report
  BY HeadTailProperties DEF ReadDenon, OwnerInv, TypeOK
<1>2. CASE r.kind = "volume"
  <2>1. r.raw \in Level
    <3> HIDE DEF r
    <3> QED BY <1>1, <1>2 DEF Report
  <2>2. f' = observeVolume(f, r.raw)
    BY <1>2 DEF ReadDenon
  <2> QED BY <1>f, <2>1, <2>2, observeVolumeOK
<1>3. CASE r.kind # "volume"
  <2>1. r.on \in BOOLEAN
    <3> HIDE DEF r
    <3> QED BY <1>1, <1>3 DEF Report
  <2>2. f' \in {observeMute(f, r.on, TRUE), observeMute(f, r.on, FALSE)}
    BY <1>3 DEF ReadDenon
  <2>3. ASSUME NEW on \in BOOLEAN, NEW ok \in BOOLEAN PROVE OwnerOK(observeMute(f, on, ok))
    BY <1>f, HeardMutedOK, HeardUnmutedOK, Zenon DEF observeMute
  <2> QED BY <1>f, <2>1, <2>2, <2>3
<1> QED BY <1>2, <1>3

(* The first command of a muted restore: from here on a mute is owed.       *)
LEMMA StartMuteCycleOK ==
  ASSUME OwnerInv, StartMuteCycle
  PROVE  OwnerOK(f')
<1> DEFINE dir    == volumeDirection(f.vol, f.t.target)
           clicks == volumeRapidClickCount(Distance(f.vol, f.t.target), 0, 0)
           armed  == armAutomaticRemuteRecovery(f, TRUE)
           unset  == armAutomaticRemuteRecovery(f, FALSE)
           s      == Clicked([armed.t EXCEPT !.obs = f.vol], f.vol, dir, clicks)
           done   == [armed EXCEPT !.muteKnown = FALSE, !.t = s]
<1>f. f \in FirmwareState /\ OwnerOK(f)
  BY DEF OwnerInv, TypeOK
<1>1. /\ armed \in FirmwareState /\ OwnerOK(armed) /\ armed.remReq
      /\ unset \in FirmwareState /\ OwnerOK(unset)
  BY <1>f, armAutomaticRemuteRecoveryType, JournalOwnerOK
<1>2. OwnerOK(failVolumeRestore(armed)) /\ OwnerOK(failVolumeRestore(unset))
  <2> HIDE DEF armed, unset
  <2> QED BY <1>1, EndsOK
<1>3. Drives(s, armed.t)
  <2> HIDE DEF armed, dir, clicks
  <2>1. armed.t \in Session
    BY <1>1 DEF FirmwareState
  <2> QED BY <2>1 DEF Drives, Clicked, Session
<1>4. OwnerOK(done)
  <2>1. SameOwner(done, armed) /\ done.t = s
    <3> HIDE DEF armed, s
    <3> QED BY <1>1 DEF SameOwner, FirmwareState
  <2> HIDE DEF done, s, armed
  <2> QED BY <1>1, <1>3, <2>1, OwnerIsEnough DEF Drives, GoesOn
<1>5. \/ Becomes(failVolumeRestore(f)) \/ Becomes(completeVolumeRestore(f))
      \/ Sends(<<Click(dir > 0, f.t.target, NoApp)>>, done, failVolumeRestore(armed))
      \/ f' = failVolumeRestore(unset)
  BY Zenon DEF StartMuteCycle
<1> HIDE DEF done, armed, unset, dir
<1> QED BY <1>f, <1>2, <1>4, <1>5, EndsOK DEF Becomes, Sends

(* The commands after the first, and what ends a target.                    *)
LEMMA RestoreOK ==
  ASSUME OwnerInv,
         \/ RestoreDeadline \/ RequestFreshStatus \/ ResponseTimeout \/ LeaseEnds
         \/ BurstClick \/ RequestMovementStatus \/ Settled \/ NextClick
  PROVE  OwnerOK(f')
<1>f. f \in FirmwareState /\ OwnerOK(f) /\ f.t \in Session
  BY DEF OwnerInv, TypeOK, FirmwareState
<1>e. OwnerOK(failVolumeRestore(f)) /\ OwnerOK(completeVolumeRestore(f))
  BY <1>f, EndsOK
<1>p. ASSUME NEW p, f.t.phase # "waitAutomaticUnmute" PROVE OwnerOK([f EXCEPT !.t.phase = p])
  <2>1. Stays([f EXCEPT !.t.phase = p], f)
    BY <1>f, ObservedStays
  <2> QED BY <1>f, <1>p, <2>1, StaysIsEnough
<1>t. ASSUME NEW s, Drives(s, f.t), f.t.phase # "waitAutomaticUnmute"
      PROVE  OwnerOK([f EXCEPT !.t = s])
  <2>1. Stays([f EXCEPT !.t = s], f)
    BY <1>f, <1>t, SessionStays
  <2> QED BY <1>f, <1>t, <2>1, StaysIsEnough
<1>1. CASE RestoreDeadline \/ ResponseTimeout \/ LeaseEnds
  BY <1>e, <1>1 DEF RestoreDeadline, ResponseTimeout, LeaseEnds, Becomes
<1>2. CASE RequestFreshStatus
  BY <1>e, <1>p, <1>2 DEF RequestFreshStatus, Sends
<1>3. CASE RequestMovementStatus \/ Settled
  <2>1. f.t.phase # "waitAutomaticUnmute"
    BY <1>3 DEF RequestMovementStatus, Settled, Driving
  <2> QED BY <1>e, <1>p, <1>3, <2>1 DEF RequestMovementStatus, Settled, Becomes, Sends
<1>4. CASE BurstClick
  <2> DEFINE t    == IF f.t.ext
                     THEN [f.t EXCEPT !.burst = TRUE, !.start = f.t.obs, !.planned = 1,
                                      !.sent = 0, !.ext = FALSE]
                     ELSE f.t
             sent == t.sent + 1
             s    == [t EXCEPT !.steps = @ + 1, !.sent = sent,
                               !.phase = IF sent >= t.planned THEN "waitMovement" ELSE @]
             g    == [f EXCEPT !.t = t]
  <2>1. f.t.phase # "waitAutomaticUnmute"
    BY <1>4 DEF BurstClick, Driving
  <2>2. t \in Session /\ Drives(t, f.t)
    <3>1. f.t.obs \in MaybeLevel /\ 0 \in 0..MaxClicks \cup {1} /\ 1 \in 0..MaxClicks \cup {1}
      BY <1>f, VolumeAssumption DEF Session
    <3>2. /\ [f.t EXCEPT !.burst = TRUE, !.start = f.t.obs, !.planned = 1, !.sent = 0,
                         !.ext = FALSE] \in Session
          /\ Drives([f.t EXCEPT !.burst = TRUE, !.start = f.t.obs, !.planned = 1, !.sent = 0,
                                !.ext = FALSE], f.t)
      BY <1>f, <3>1 DEF Session, Drives
    <3> QED BY <1>f, <3>2 DEF Drives
  <2>3. Drives(s, f.t)
    <3> HIDE DEF t
    <3>1. Drives(s, t)
      BY <2>2 DEF Session, Drives
    <3> HIDE DEF s
    <3> QED BY <2>2, <3>1 DEF Drives
  <2>4. OwnerOK(failVolumeRestore(g))
    <3>1. g \in FirmwareState /\ OwnerOK(g)
      <4> HIDE DEF t
      <4> QED BY <1>f, <1>t, <2>1, <2>2, SessionUpdate
    <3> HIDE DEF g
    <3> QED BY <3>1, EndsOK
  <2>5. f' \in {failVolumeRestore(f), failVolumeRestore(g), [f EXCEPT !.t = s],
                [f EXCEPT !.t.phase = "waitMovement"]}
    BY <1>4, Zenon DEF BurstClick, Becomes, Sends
  <2> HIDE DEF t, s, g
  <2> QED BY <1>e, <1>p, <1>t, <2>1, <2>3, <2>4, <2>5
<1>5. CASE NextClick
  <2> DEFINE dir    == volumeDirection(f.t.obs, f.t.target)
             turned == f.t.dir # 0 /\ dir # f.t.dir
             clicks == IF f.t.coarse
                       THEN volumeRapidClickCount(Distance(f.t.obs, f.t.target), f.t.delta,
                                                  f.t.clicks)
                       ELSE 0
             next   == [f.t EXCEPT !.reversed = @ \/ turned]
             s      == Clicked(next, f.t.obs, dir, clicks)
  <2>1. f.t.phase # "waitAutomaticUnmute"
    BY <1>5 DEF NextClick, Driving
  <2>2. Drives(s, f.t)
    <3>1. turned \in BOOLEAN
      BY Zenon
    <3> HIDE DEF dir, turned, clicks
    <3>2. (f.t.reversed \/ turned) \in BOOLEAN
      BY Zenon
    <3>3. next \in Session /\ Drives(next, f.t)
      BY <1>f, <3>2 DEF Session, Drives
    <3> HIDE DEF next
    <3>4. Drives(s, next)
      BY <3>3 DEF Session, Drives, Clicked
    <3> HIDE DEF s
    <3> QED BY <3>3, <3>4 DEF Drives
  <2>3. f' \in {failVolumeRestore(f), completeVolumeRestore(f), [f EXCEPT !.t = s]}
    BY <1>5, Zenon DEF NextClick, Becomes, Sends
  <2> HIDE DEF s
  <2> QED BY <1>e, <1>t, <2>1, <2>2, <2>3
<1> QED BY <1>1, <1>2, <1>3, <1>4, <1>5

(* The rest of the loop, and time.                                          *)
LEMMA RestOK ==
  ASSUME OwnerInv,
         \/ maintainManualMuteLock \/ maintainAppSwitch \/ maintainAutomaticRemute
         \/ SeesConnected \/ SeesDisconnected \/ StatusPoll
         \/ LeaseExpires \/ LearningCooldownEnds
  PROVE  OwnerOK(f')
<1>f. f \in FirmwareState /\ OwnerOK(f)
  BY DEF OwnerInv, TypeOK
<1>1. CASE maintainManualMuteLock
  <2> DEFINE g == [f EXCEPT !.autoFb = FALSE, !.lockRaw = f.vol]
  <2>1. SameOwner(g, f) /\ g.t = f.t
    BY <1>f DEF SameOwner, FirmwareState
  <2>2. f' = g
    BY <1>1 DEF maintainManualMuteLock, Becomes
  <2> HIDE DEF g
  <2> QED BY <1>f, <2>1, <2>2, SameIsOK
<1>2. CASE maintainAppSwitch
  BY <1>f, <1>2, activatePendingAppOK DEF maintainAppSwitch, Becomes
<1>3. CASE maintainAutomaticRemute
  <2> DEFINE g == [f EXCEPT !.remConf = TRUE, !.muteKnown = FALSE]
  <2>1. /\ g.t = f.t /\ g.cur = f.cur /\ g.curAuth = f.curAuth /\ g.pend = f.pend
        /\ g.pendAuth = f.pendAuth /\ g.pendAllowed = f.pendAllowed
        /\ g.was = f.was /\ g.sess = f.sess /\ g.credit = f.credit
        /\ g.lastEvent = f.lastEvent /\ g.remReq = f.remReq /\ g.remConf = TRUE
    BY <1>f DEF FirmwareState
  <2>2. f.remReq /\ ~f.t.cycle /\ f' \in {f, g}
    BY <1>3 DEF maintainAutomaticRemute, Sends
  <2>3. OwnerOK(g)
    <3> HIDE DEF g
    <3> QED BY <1>f, <2>1, <2>2 DEF OwnerOK, TargetOK, AuthorityOK, CreditOK
  <2> HIDE DEF g
  <2> QED BY <1>f, <2>2, <2>3
<1>4. CASE SeesConnected \/ SeesDisconnected
  BY <1>f, <1>4, ConnectEdgeOK, DisconnectEdgeOK DEF SeesConnected, SeesDisconnected, Becomes
<1>5. CASE StatusPoll
  <2> DEFINE g == [f EXCEPT !.sess = TRUE]
  <2>1. /\ g.t = f.t /\ g.cur = f.cur /\ g.curAuth = f.curAuth /\ g.pend = f.pend
        /\ g.pendAuth = f.pendAuth /\ g.pendAllowed = f.pendAllowed
        /\ g.was = f.was /\ g.sess = TRUE /\ g.credit = f.credit
        /\ g.lastEvent = f.lastEvent /\ g.remReq = f.remReq /\ g.remConf = f.remConf
    BY <1>f DEF FirmwareState
  <2>2. f.was /\ f' = g
    BY <1>5 DEF StatusPoll, Sends
  <2> HIDE DEF g
  <2> QED BY <1>f, <2>1, <2>2 DEF OwnerOK, TargetOK, AuthorityOK, CreditOK
<1>6. CASE LeaseExpires
  <2> DEFINE x == [f EXCEPT !.curAuth = "stale"]
             y == [f EXCEPT !.pendAuth = "stale"]
  <2>1. /\ x.t = f.t /\ x.cur = f.cur /\ x.curAuth = "stale" /\ x.pend = f.pend
        /\ x.pendAuth = f.pendAuth /\ x.pendAllowed = f.pendAllowed
        /\ x.was = f.was /\ x.sess = f.sess /\ x.credit = f.credit
        /\ x.lastEvent = f.lastEvent /\ x.remReq = f.remReq /\ x.remConf = f.remConf
    BY <1>f DEF FirmwareState
  <2>2. /\ y.t = f.t /\ y.cur = f.cur /\ y.curAuth = f.curAuth /\ y.pend = f.pend
        /\ y.pendAuth = "stale" /\ y.pendAllowed = f.pendAllowed
        /\ y.was = f.was /\ y.sess = f.sess /\ y.credit = f.credit
        /\ y.lastEvent = f.lastEvent /\ y.remReq = f.remReq /\ y.remConf = f.remConf
    BY <1>f DEF FirmwareState
  <2>3. \/ f.curAuth = "fresh" /\ f' = x
        \/ f.pendAuth = "fresh" /\ f' = y
    BY <1>6 DEF LeaseExpires, Becomes
  <2> HIDE DEF x, y
  <2> QED BY <1>f, <2>1, <2>2, <2>3 DEF OwnerOK, TargetOK, AuthorityOK, CreditOK
<1>7. CASE LearningCooldownEnds
  <2> DEFINE g == [f EXCEPT !.quiet = TRUE]
  <2>1. SameOwner(g, f) /\ g.t = f.t
    BY <1>f DEF SameOwner, FirmwareState
  <2>2. f' = g
    BY <1>7 DEF LearningCooldownEnds, Becomes
  <2> HIDE DEF g
  <2> QED BY <1>f, <2>1, <2>2, SameIsOK
<1> QED BY <1>1, <1>2, <1>3, <1>4, <1>5, <1>6, <1>7

(* A restart begins without an owner.                                       *)
LEMMA BootOK == \A nv, saved : OwnerOK(Boot(nv, saved))
BY DEF Boot, NoSession, NoCredit, None, OwnerOK, TargetOK, AuthorityOK, CreditOK

(* The receiver, its user, the radio and the power supply.                  *)
LEMMA WorldOK ==
  ASSUME OwnerInv, \/ ReceiverObeys \/ UseRemote \/ LinkUp \/ LinkDown \/ PowerLoss
  PROVE  OwnerOK(f') /\ ha' = ha
<1>1. CASE ReceiverObeys \/ UseRemote \/ LinkUp \/ LinkDown
  BY <1>1 DEF ReceiverObeys, UseRemote, LinkUp, LinkDown, Outside, OwnerInv
<1>2. CASE PowerLoss
  BY <1>2, BootOK DEF PowerLoss
<1> QED BY <1>1, <1>2

(* Only an update from Home Assistant changes what it may send again.       *)
LEMMA SameRequest ==
  ASSUME Loop \/ LeaseExpires \/ LearningCooldownEnds
  PROVE  ha' = ha
<1>1. ASSUME NEW g, Becomes(g) PROVE ha' = ha
  BY <1>1 DEF Becomes, Env
<1>2. ASSUME NEW cmds, NEW g, NEW h, Sends(cmds, g, h) PROVE ha' = ha
  BY <1>2 DEF Sends, Env
<1>3. CASE ReadDenon
  BY <1>3 DEF ReadDenon
<1>4. CASE StartMuteCycle
  <2>1. \/ \E g : Becomes(g)
        \/ \E cmds, g, h : Sends(cmds, g, h)
        \/ UNCHANGED Env
    BY <1>4, Zenon DEF StartMuteCycle
  <2> QED BY <1>1, <1>2, <2>1 DEF Env
<1>5. CASE BurstClick \/ NextClick
  <2>1. (\E g : Becomes(g)) \/ (\E cmds, g, h : Sends(cmds, g, h))
    BY <1>5, Zenon DEF BurstClick, NextClick
  <2> QED BY <1>1, <1>2, <2>1
<1>6. CASE Settled \/ RequestMovementStatus \/ RequestFreshStatus \/ StatusPoll
           \/ maintainAutomaticRemute
  <2>1. (\E g : Becomes(g)) \/ (\E cmds, g, h : Sends(cmds, g, h))
    BY <1>6, Zenon DEF Settled, RequestMovementStatus, RequestFreshStatus, StatusPoll,
                       maintainAutomaticRemute
  <2> QED BY <1>1, <1>2, <2>1
<1>7. CASE maintainManualMuteLock \/ maintainAppSwitch \/ RestoreDeadline \/ ResponseTimeout
           \/ LeaseEnds \/ SeesConnected \/ SeesDisconnected \/ LeaseExpires
           \/ LearningCooldownEnds
  <2>1. \E g : Becomes(g)
    BY <1>7, Zenon DEF maintainManualMuteLock, maintainAppSwitch, RestoreDeadline,
                       ResponseTimeout, LeaseEnds, SeesConnected, SeesDisconnected,
                       LeaseExpires, LearningCooldownEnds
  <2> QED BY <1>1, <2>1
<1> QED BY <1>3, <1>4, <1>5, <1>6, <1>7 DEF Loop, Restore

(* The invariant is inductive, given the types.                             *)
LEMMA OwnerIsKept == Spec => [](OwnerOK(f) /\ EventHasApp)
<1>1. Init => OwnerOK(f) /\ EventHasApp
  <2> SUFFICES ASSUME Init PROVE OwnerOK(f) /\ EventHasApp
    OBVIOUS
  <2>1. f = Boot(FALSE, InitSaved) /\ ha = NoRequest
    BY DEF Init
  <2>2. OwnerOK(f)
    BY <2>1, BootOK
  <2>3. EventHasApp
    BY <2>1 DEF EventHasApp, NoRequest
  <2> QED BY <2>2, <2>3
<1>2. TypeOK /\ (OwnerOK(f) /\ EventHasApp) /\ [Next]_vars => (OwnerOK(f) /\ EventHasApp)'
  <2> SUFFICES ASSUME OwnerInv, [Next]_vars PROVE OwnerOK(f') /\ EventHasApp'
    BY DEF OwnerInv
  <2>0. ha' = ha => EventHasApp'
    BY DEF OwnerInv, EventHasApp
  <2>1. CASE HomeAssistant
    BY <2>1, HomeAssistantOK
  <2>2. CASE WebUser
    BY <2>0, <2>2, WebUserOK
  <2>3. CASE Loop
    <3>1. EventHasApp'
      BY <2>0, <2>3, SameRequest
    <3>2. OwnerOK(f')
      BY <2>3, ReadDenonOK, StartMuteCycleOK, RestoreOK, RestOK DEF Loop, Restore
    <3> QED BY <3>1, <3>2
  <2>4. CASE World
    BY <2>0, <2>4, SameRequest, WorldOK, RestOK DEF World
  <2>5. CASE UNCHANGED vars
    BY <2>0, <2>5 DEF vars, OwnerInv
  <2> QED BY <2>1, <2>2, <2>3, <2>4, <2>5 DEF Next
<1> QED BY <1>1, <1>2, TypeCorrect, PTL DEF Spec

-----------------------------------------------------------------------------
(* After any sequence of updates, switches, revocations, reports, manual    *)
(* commands, link losses and restarts, a muted restore runs for the app in  *)
(* front, which was granted it and which no candidate is about to replace.  *)
THEOREM CyclesAreAuthorized == Spec => []CycleIsAuthorized
<1>1. OwnerOK(f) => CycleIsAuthorized
  BY DEF OwnerOK, TargetOK, CycleIsAuthorized
<1> QED BY <1>1, OwnerIsKept, PTL

(* A muted restore that has sent a command owes a mute for as long as it    *)
(* runs, whatever mute reports arrive meanwhile.                            *)
THEOREM CyclesAreArmed == Spec => []CycleIsArmed
<1>1. TypeOK /\ OwnerOK(f) => CycleIsArmed
  BY DEF OwnerOK, TargetOK, CycleIsArmed
<1> QED BY <1>1, OwnerIsKept, TypeCorrect, PTL

(* No sequence of updates, retries and link losses leaves a reconnect       *)
(* credit for any event but the last one, or beside an automatic target     *)
(* that it could start a second time.                                       *)
THEOREM CreditsAreCurrent == Spec => []CreditIsCurrent
<1>1. OwnerOK(f) => CreditIsCurrent
  BY DEF OwnerOK, CreditOK, CreditIsCurrent
<1> QED BY <1>1, OwnerIsKept, PTL
=============================================================================
