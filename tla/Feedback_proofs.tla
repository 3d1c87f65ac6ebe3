-------------------------- MODULE Feedback_proofs ---------------------------
(***************************************************************************)
(* Every operator of Firmware and of Feedback takes firmware states to     *)
(* firmware states, whatever the receiver reports; and a burst as          *)
(* VolumeMath plans it stays short of its target.                          *)
(***************************************************************************)
EXTENDS Feedback, TLAPS

-----------------------------------------------------------------------------
(* The constants the operators write.                                       *)

(* "No such app, event or level" is a value of the types that allow it.     *)
LEMMA EmptyValues ==
  /\ None \in MaybeLevel /\ NoApp \in MaybeApp /\ 0 \in EventId
  /\ NoCredit \in Credit
  BY FirmwareAssumption DEF MaybeLevel, None, MaybeApp, EventId, NoCredit, Credit

(* An idle session is a session.                                            *)
LEMMA NoSessionType == NoSession \in Session
<1>1. None \in MaybeLevel /\ 0 \in Nat /\ 0 \in Direction /\ 0 \in 0..MaxClicks
  BY VolumeAssumption DEF MaybeLevel, None, Direction
<1>2. "idle" \in Phase
  BY DEF Phase
<1> QED BY <1>1, <1>2 DEF NoSession, Session

(* Authorities and phases, without unfolding the sets later on.             *)
LEMMA AuthorityValues == {"none", "fresh", "stale"} \subseteq Authority
  BY DEF Authority
(* The phases of the restore controller that the code assigns are phases of *)
(* the model.                                                               *)
LEMMA PhaseValues ==
  {"idle", "needFreshStatus", "waitFreshStatus", "waitAutomaticUnmute", "ready",
   "waitBurstSecond", "waitMovement", "waitMovementStatus", "settling",
   "waitConfirmation"} \subseteq Phase
  BY DEF Phase

(* Volume directions are directions.                                        *)
LEMMA DirectionType == ASSUME NEW x, NEW y PROVE volumeDirection(x, y) \in Direction
  BY DEF volumeDirection, Direction

(* An app row is written with a level.                                      *)
LEMMA RowType ==
  ASSUME NEW f \in FirmwareState, NEW a \in Apps, NEW v \in MaybeLevel
  PROVE  rememberAppVolume(f, a, v) \in FirmwareState
  BY DEF rememberAppVolume, FirmwareState

-----------------------------------------------------------------------------
(* A disjunction or conjunction is a truth value.                           *)
LEMMA OrType == ASSUME NEW x, NEW y PROVE (x \/ y) \in BOOLEAN
  BY Zenon
(* The same of a conjunction, as in the flags the code computes with &&.    *)
LEMMA AndType == ASSUME NEW x, NEW y PROVE (x /\ y) \in BOOLEAN
  BY Zenon

-----------------------------------------------------------------------------
(* The reconnect credit.                                                    *)

(* Forgetting the reconnect credit leaves a firmware state.                 *)
LEMMA clearReconnectRestoreType ==
  ASSUME NEW f \in FirmwareState
  PROVE  clearReconnectRestore(f) \in FirmwareState
  BY EmptyValues DEF clearReconnectRestore, FirmwareState

(* Revoking the credit, and the candidate that was to use it, leaves a      *)
(* firmware state.                                                          *)
LEMMA invalidateReconnectRestoreType ==
  ASSUME NEW f \in FirmwareState
  PROVE  invalidateReconnectRestore(f) \in FirmwareState
<1>1. CASE f.pendReconnect >= 0
  BY <1>1, EmptyValues, AuthorityValues DEF invalidateReconnectRestore, FirmwareState
<1>2. CASE ~(f.pendReconnect >= 0)
  BY <1>2, EmptyValues, AuthorityValues DEF invalidateReconnectRestore, FirmwareState
<1> QED BY <1>1, <1>2

(* Remembering a credit for the event consumed last leaves a firmware       *)
(* state.                                                                   *)
LEMMA rememberReconnectRestoreType ==
  ASSUME NEW f \in FirmwareState, NEW a \in MaybeApp, NEW e \in EventId,
         NEW v \in MaybeLevel
  PROVE  rememberReconnectRestore(f, a, e, v) \in FirmwareState
<1>1. [app |-> a, event |-> e, target |-> v] \in Credit
  BY DEF Credit
<1> QED BY <1>1 DEF rememberReconnectRestore, FirmwareState

-----------------------------------------------------------------------------
(* The target session.                                                      *)

(* A firmware state with another session is a firmware state.               *)
LEMMA SessionUpdate ==
  ASSUME NEW f \in FirmwareState, NEW s \in Session
  PROVE  [f EXCEPT !.t = s] \in FirmwareState
  BY DEF FirmwareState

(* resetVolumeRestore() leaves a firmware state with an idle session.       *)
LEMMA resetVolumeRestoreType ==
  ASSUME NEW f \in FirmwareState
  PROVE  resetVolumeRestore(f) \in FirmwareState
  BY NoSessionType DEF resetVolumeRestore, FirmwareState

(* The target generation wraps around without leaving its type, and without *)
(* becoming 0.                                                              *)
LEMMA advanceVolumeTargetGenerationType ==
  ASSUME NEW f \in FirmwareState
  PROVE  advanceVolumeTargetGeneration(f) \in FirmwareState
  BY FirmwareAssumption DEF advanceVolumeTargetGeneration, FirmwareState

(* Arming or pausing a target keeps a well-formed session.                  *)
LEMMA RestartedSessionType ==
  ASSUME NEW s \in Session, NEW armed \in BOOLEAN
  PROVE  RestartedSession(s, armed) \in Session
  BY NoSessionType, PhaseValues DEF RestartedSession, Session

(* armVolumeTargetSession() leaves a firmware state.                        *)
LEMMA armVolumeTargetSessionType ==
  ASSUME NEW f \in FirmwareState
  PROVE  armVolumeTargetSession(f) \in FirmwareState
  BY RestartedSessionType DEF armVolumeTargetSession, FirmwareState

(* pauseVolumeTargetSession() leaves a firmware state.                      *)
LEMMA pauseVolumeTargetSessionType ==
  ASSUME NEW f \in FirmwareState
  PROVE  pauseVolumeTargetSession(f) \in FirmwareState
<1>1. RestartedSession(f.t, FALSE) \in Session
  BY RestartedSessionType DEF FirmwareState
<1> QED BY <1>1, SessionUpdate DEF pauseVolumeTargetSession

(* A target that ends as reached leaves a firmware state.                   *)
LEMMA completeVolumeRestoreType ==
  ASSUME NEW f \in FirmwareState
  PROVE  completeVolumeRestore(f) \in FirmwareState
  BY resetVolumeRestoreType, EmptyValues DEF completeVolumeRestore, FirmwareState

(* A target that is cancelled leaves a firmware state.                      *)
LEMMA cancelVolumeRestoreType ==
  ASSUME NEW f \in FirmwareState
  PROVE  cancelVolumeRestore(f) \in FirmwareState
  BY completeVolumeRestoreType, advanceVolumeTargetGenerationType DEF cancelVolumeRestore

(* A target that fails leaves a firmware state.                             *)
LEMMA failVolumeRestoreType ==
  ASSUME NEW f \in FirmwareState
  PROVE  failVolumeRestore(f) \in FirmwareState
  BY resetVolumeRestoreType, EmptyValues DEF failVolumeRestore, FirmwareState

(* The tail of setVolume(), which starts a target, leaves a firmware state. *)
LEMMA StartTargetType ==
  ASSUME NEW f \in FirmwareState, NEW v \in MaybeLevel,
         NEW automatic \in BOOLEAN, NEW mutedIdle \in BOOLEAN
  PROVE  StartTarget(f, v, automatic, mutedIdle) \in FirmwareState
<1> DEFINE g     == advanceVolumeTargetGeneration(f)
           armed == RestartedSession(f.t, TRUE)
           over  == ~automatic /\ f.locked
           cycle == armed.cycle \/ mutedIdle
           phase == IF mutedIdle THEN "waitAutomaticUnmute" ELSE armed.phase
           s     == [armed EXCEPT !.target = v, !.auto = automatic, !.override = over,
                                  !.cycle = cycle, !.phase = phase]
<1>1. g \in FirmwareState /\ armed \in Session
  BY advanceVolumeTargetGenerationType, RestartedSessionType DEF FirmwareState
<1>2. over \in BOOLEAN /\ cycle \in BOOLEAN
  BY Zenon
<1>3. phase \in Phase
  <2>1. armed.phase \in Phase
    <3> HIDE DEF armed
    <3> QED BY <1>1 DEF Session
  <2> QED BY <2>1, PhaseValues
<1>4. s \in Session
  <2> HIDE DEF armed, over, cycle, phase
  <2> QED BY <1>1, <1>2, <1>3 DEF Session
<1>5. [g EXCEPT !.suppressed = TRUE, !.t = s] \in FirmwareState
  <2> HIDE DEF g, s
  <2> QED BY <1>1, <1>4 DEF FirmwareState
<1> QED BY <1>5 DEF StartTarget

(* setVolume(), refused or not, leaves a firmware state.                    *)
LEMMA setVolumeType ==
  ASSUME NEW f \in FirmwareState, NEW v \in MaybeLevel, NEW automatic \in BOOLEAN
  PROVE  setVolume(f, v, automatic) \in FirmwareState
<1> DEFINE mutedIdle == automatic /\ f.muteKnown /\ f.muted /\ f.locked /\ f.curAuth = "fresh"
<1>1. mutedIdle \in BOOLEAN
  BY Zenon
<1>2. StartTarget(f, v, automatic, mutedIdle) \in FirmwareState
  <2> HIDE DEF mutedIdle
  <2> QED BY <1>1, StartTargetType
<1>3. [f EXCEPT !.suppressed = TRUE, !.failRaw = f.vol, !.quiet = TRUE] \in FirmwareState
  BY DEF FirmwareState
<1> QED BY <1>2, <1>3, Zenon DEF setVolume

(* The row of an app holds a level or no level.                             *)
LEMMA SavedType ==
  ASSUME NEW f \in FirmwareState, NEW a \in MaybeApp, a # NoApp
  PROVE  f.saved[a] \in MaybeLevel
  BY DEF FirmwareState, MaybeApp

(* Starting the restore of the app in front leaves a firmware state.        *)
LEMMA startRestoreForCurrentAppType ==
  ASSUME NEW f \in FirmwareState
  PROVE  startRestoreForCurrentApp(f) \in FirmwareState
<1>1. f.cur \in MaybeApp
  BY DEF FirmwareState
<1>2. CASE f.cur = NoApp \/ f.saved[f.cur] < 0
  BY <1>2, cancelVolumeRestoreType DEF startRestoreForCurrentApp
<1>3. CASE ~(f.cur = NoApp \/ f.saved[f.cur] < 0)
  <2>1. f.saved[f.cur] \in MaybeLevel
    BY <1>1, <1>3, SavedType
  <2> QED BY <1>3, <2>1, setVolumeType DEF startRestoreForCurrentApp
<1> QED BY <1>2, <1>3

-----------------------------------------------------------------------------
(* The app table and app ownership.                                         *)

(* Keeping the level the outgoing app is left at leaves a firmware state.   *)
LEMMA SaveOutgoingType ==
  ASSUME NEW f \in FirmwareState
  PROVE  SaveOutgoing(f) \in FirmwareState
<1>1. f.cur \in MaybeApp /\ f.vol \in MaybeLevel
  BY DEF FirmwareState
<1> QED BY <1>1, RowType DEF SaveOutgoing, MaybeApp

(* clearCurrentApp() leaves a firmware state.                               *)
LEMMA clearCurrentAppType ==
  ASSUME NEW f \in FirmwareState
  PROVE  clearCurrentApp(f) \in FirmwareState
<1> DEFINE h == invalidateReconnectRestore(f)
           g == [h EXCEPT !.pend = NoApp, !.pendAuth = "none", !.pendAllowed = TRUE,
                          !.pendReconnect = None, !.cur = NoApp, !.curAuth = "none"]
<1>1. h \in FirmwareState
  BY invalidateReconnectRestoreType
<1>2. g \in FirmwareState
  <2> HIDE DEF h
  <2> QED BY <1>1, EmptyValues, AuthorityValues DEF FirmwareState
<1>3. cancelVolumeRestore(g) \in FirmwareState
  <2> HIDE DEF g
  <2> QED BY <1>2, cancelVolumeRestoreType
<1> QED BY <1>2, <1>3, Zenon DEF clearCurrentApp

(* The record Grant returns.                                                *)
Granted ==
  [f : FirmwareState, reconnect : BOOLEAN, idle : BOOLEAN, duplicate : BOOLEAN,
   allowed : BOOLEAN, auth : Authority]

(* What queueAppCandidate() decides before it looks at who is in front is   *)
(* well-formed.                                                             *)
LEMMA GrantType ==
  ASSUME NEW f \in FirmwareState, NEW a \in MaybeApp, NEW kind,
         NEW e \in EventId, NEW reauth \in BOOLEAN
  PROVE  Grant(f, a, kind, e, reauth) \in Granted
<1> DEFINE g         == IF f.pendReconnect >= 0 THEN invalidateReconnectRestore(f) ELSE f
           matches   == kind = "idle" /\ reconnectRestoreMatches(g, a, e)
           reconnect == reauth /\ matches
           idle      == reconnect \/ (~reauth /\ kind = "idle" /\ e # f.lastEvent)
           kept      == IF g.credit.target >= 0 /\ ~matches
                        THEN invalidateReconnectRestore(g) ELSE g
           next      == IF idle /\ ~reconnect THEN [kept EXCEPT !.lastEvent = e] ELSE kept
           duplicate == kind = "idle" /\ ~idle
           allowed   == idle \/ kind = "active"
           auth      == IF idle THEN "fresh" ELSE "none"
<1>1. reconnect \in BOOLEAN /\ idle \in BOOLEAN
  BY Zenon
<1>2. duplicate \in BOOLEAN /\ allowed \in BOOLEAN
  BY Zenon
<1>3. g \in FirmwareState
  BY invalidateReconnectRestoreType
<1>4. kept \in FirmwareState
  <2> HIDE DEF g, matches
  <2> QED BY <1>3, invalidateReconnectRestoreType
<1>5. next \in FirmwareState
  <2> HIDE DEF kept, idle, reconnect
  <2> QED BY <1>4 DEF FirmwareState
<1>6. auth \in Authority
  <2> HIDE DEF idle
  <2> QED BY AuthorityValues
<1>7. [f |-> next, reconnect |-> reconnect, idle |-> idle, duplicate |-> duplicate,
       allowed |-> allowed, auth |-> auth] \in Granted
  <2> HIDE DEF next, reconnect, idle, duplicate, allowed, auth
  <2> QED BY <1>1, <1>2, <1>5, <1>6 DEF Granted
<1> QED BY <1>7, Zenon DEF Grant

(* An update for the app in front leaves a firmware state.                  *)
LEMMA UpdateCurrentType ==
  ASSUME NEW g \in Granted
  PROVE  UpdateCurrent(g) \in FirmwareState
<1> DEFINE f    == g.f
           auth == IF g.duplicate THEN f.curAuth ELSE g.auth
           f1   == [f EXCEPT !.pend = NoApp, !.pendAllowed = TRUE, !.pendReconnect = None,
                             !.curAuth = auth]
           f2   == IF ~g.duplicate /\ ~g.idle /\ f1.t.cycle THEN cancelVolumeRestore(f1) ELSE f1
<1>1. f \in FirmwareState /\ g.auth \in Authority
  BY DEF Granted
<1>2. auth \in Authority
  <2>1. f.curAuth \in Authority
    BY <1>1 DEF FirmwareState
  <2> QED BY <1>1, <2>1
<1>3. f1 \in FirmwareState
  <2> HIDE DEF f, auth
  <2> QED BY <1>1, <1>2, EmptyValues DEF FirmwareState
<1>4. f2 \in FirmwareState
  <2> HIDE DEF f1
  <2> QED BY <1>3, cancelVolumeRestoreType
<1>5. startRestoreForCurrentApp(f2) \in FirmwareState
  <2> HIDE DEF f2
  <2> QED BY <1>4, startRestoreForCurrentAppType
<1>6. setVolume(clearReconnectRestore(f2), f2.credit.target, TRUE) \in FirmwareState
  <2> HIDE DEF f2
  <2>1. f2.credit.target \in MaybeLevel
    BY <1>4 DEF FirmwareState, Credit
  <2> QED BY <1>4, <2>1, clearReconnectRestoreType, setVolumeType
<1> QED BY <1>4, <1>5, <1>6, Zenon DEF UpdateCurrent

(* Giving the candidate the authority of its latest update leaves a         *)
(* firmware state.                                                          *)
LEMMA SetPendingAuthorityType ==
  ASSUME NEW f \in FirmwareState, NEW g \in Granted
  PROVE  SetPendingAuthority(f, g) \in FirmwareState
<1> DEFINE level == IF g.reconnect THEN f.credit.target ELSE None
           f1    == [f EXCEPT !.pendAuth = g.auth, !.pendAllowed = g.allowed,
                              !.pendReconnect = level]
<1>1. level \in MaybeLevel
  BY EmptyValues DEF FirmwareState, Credit
<1>2. g.auth \in Authority /\ g.allowed \in BOOLEAN
  BY DEF Granted
<1>3. f1 \in FirmwareState
  <2> HIDE DEF level
  <2> QED BY <1>1, <1>2 DEF FirmwareState
<1>4. clearReconnectRestore(f1) \in FirmwareState
  <2> HIDE DEF f1
  <2> QED BY <1>3, clearReconnectRestoreType
<1> QED BY <1>3, <1>4, Zenon DEF SetPendingAuthority

(* A new candidate leaves a firmware state.                                 *)
LEMMA NewPendingType ==
  ASSUME NEW g \in Granted, NEW a \in MaybeApp
  PROVE  NewPending(g, a) \in FirmwareState
<1> DEFINE f1 == SaveOutgoing(g.f)
           f2 == IF f1.t.target < 0 \/ f1.t.auto THEN cancelVolumeRestore(f1) ELSE f1
           f3 == [f2 EXCEPT !.pend = a]
<1>1. f1 \in FirmwareState
  BY SaveOutgoingType DEF Granted
<1>2. f2 \in FirmwareState
  <2> HIDE DEF f1
  <2> QED BY <1>1, cancelVolumeRestoreType
<1>3. f3 \in FirmwareState
  <2> HIDE DEF f2
  <2> QED BY <1>2 DEF FirmwareState
<1>4. SetPendingAuthority(f3, g) \in FirmwareState
  <2> HIDE DEF f3
  <2> QED BY <1>3, SetPendingAuthorityType
<1> QED BY <1>4, Zenon DEF NewPending

(* POST /api/app, past its guards.                                          *)
LEMMA queueAppCandidateType ==
  ASSUME NEW f \in FirmwareState, NEW a \in MaybeApp, NEW kind,
         NEW e \in EventId, NEW reauth \in BOOLEAN
  PROVE  queueAppCandidate(f, a, kind, e, reauth) \in FirmwareState
<1>1. Grant(f, a, kind, e, reauth) \in Granted
  BY GrantType
<1>2. ASSUME NEW g \in Granted PROVE UpdatePending(g) \in FirmwareState
  BY SetPendingAuthorityType DEF UpdatePending, Granted
<1> QED BY <1>1, <1>2, UpdateCurrentType, NewPendingType, Zenon DEF queueAppCandidate

(* The end of the debounce, which is only ever reached with a candidate.    *)
LEMMA activatePendingAppType ==
  ASSUME NEW f \in FirmwareState, f.pend # NoApp
  PROVE  activatePendingApp(f) \in FirmwareState
<1> DEFINE f1 == SaveOutgoing(f)
           f2 == [f1 EXCEPT !.cur = f.pend, !.curAuth = f.pendAuth, !.pend = NoApp,
                            !.pendAuth = "none", !.pendAllowed = TRUE, !.pendReconnect = None]
           f3 == rememberAppVolume(f2, f.pend, f2.vol)
<1>1. f1 \in FirmwareState
  BY SaveOutgoingType
<1>2. /\ f.pend \in Apps /\ f.pend \in MaybeApp /\ f.pendAuth \in Authority
      /\ f.pendReconnect \in MaybeLevel
  BY DEF FirmwareState, MaybeApp
<1>3. f2 \in FirmwareState
  <2> HIDE DEF f1
  <2> QED BY <1>1, <1>2, EmptyValues, AuthorityValues DEF FirmwareState
<1>4. cancelVolumeRestore(f3) \in FirmwareState
  <2> HIDE DEF f2
  <2>1. f2.vol \in MaybeLevel
    BY <1>3 DEF FirmwareState
  <2> QED BY <1>2, <1>3, <2>1, RowType, cancelVolumeRestoreType
<1>5. /\ setVolume(f2, f.pendReconnect, TRUE) \in FirmwareState
      /\ startRestoreForCurrentApp(f2) \in FirmwareState
  <2> HIDE DEF f2
  <2> QED BY <1>2, <1>3, setVolumeType, startRestoreForCurrentAppType
<1> QED BY <1>3, <1>4, <1>5, Zenon DEF activatePendingApp

-----------------------------------------------------------------------------
(* The liability bound of volumeRapidClickCount.                            *)

(* The quotient of a distance by the worst gain is the most clicks that     *)
(* cannot carry the receiver further than that distance.                    *)
LEMMA QuotientIsSafe ==
  ASSUME NEW d \in Nat, NEW n \in Int, n <= d \div WorstRaw
  PROVE  d \div WorstRaw \in Nat /\ n * WorstRaw <= d
<1> DEFINE q == d \div WorstRaw
<1>1. WorstRaw \in Nat \ {0}
  BY VolumeAssumption
<1>2. q \in Nat /\ d >= WorstRaw * q
  BY <1>1
<1>3. n * WorstRaw <= q * WorstRaw
  <2>1. q - n \in Nat
    BY <1>1, <1>2
  <2>2. (q - n) * WorstRaw \in Nat
    <3> HIDE DEF q
    <3> QED BY <1>1, <2>1
  <2>3. (q - n) * WorstRaw = q * WorstRaw - n * WorstRaw
    <3> HIDE DEF q
    <3> QED BY <1>1, <1>2
  <2> HIDE DEF q
  <2> QED BY <1>1, <1>2, <2>2, <2>3
<1>4. q * WorstRaw = WorstRaw * q
  <2> HIDE DEF q
  <2> QED BY <1>1, <1>2
<1>5. n * WorstRaw \in Int /\ q * WorstRaw \in Int
  <2> HIDE DEF q
  <2> QED BY <1>1, <1>2
<1>6. n * WorstRaw <= d
  <2> HIDE DEF q
  <2> QED BY <1>2, <1>3, <1>4, <1>5
<1> QED BY <1>2, <1>6

(* How many clicks a measured acceleration asks for is an integer.          *)
LEMMA WantedType ==
  ASSUME NEW d \in Nat, NEW delta \in Nat \ {0}, NEW clicks \in Nat
  PROVE  ((d - FineAim) * clicks) \div delta \in Int
<1>1. (d - FineAim) * clicks \in Int
  BY VolumeAssumption
<1> QED BY <1>1

(* volumeRapidClickCount answers 0, or a burst of at least the probe size   *)
(* and at most the largest one, that even clicks of the worst strength      *)
(* cannot take past the target.                                             *)
THEOREM RapidClickCountIsSafe ==
  ASSUME NEW d \in Nat, NEW delta \in Nat, NEW clicks \in Nat
  PROVE  LET n == volumeRapidClickCount(d, delta, clicks)
         IN /\ n \in {0} \cup ProbeClicks..MaxClicks
            /\ n * WorstRaw <= d
<1> DEFINE noOvershoot == d \div WorstRaw
           measured    == delta > 0 /\ clicks > 0
           wanted      == IF measured THEN ((d - FineAim) * clicks) \div delta ELSE ProbeClicks
           atLeast     == IF wanted < ProbeClicks THEN ProbeClicks ELSE wanted
           safe        == IF atLeast > noOvershoot THEN noOvershoot ELSE atLeast
           capped      == IF safe > MaxClicks THEN MaxClicks ELSE safe
           n           == volumeRapidClickCount(d, delta, clicks)
<1>1. noOvershoot \in Nat
  BY QuotientIsSafe, VolumeAssumption
<1>2. wanted \in Int
  BY WantedType, VolumeAssumption
<1>3. /\ capped \in Int /\ capped <= MaxClicks /\ capped <= noOvershoot
  <2> HIDE DEF noOvershoot, wanted
  <2> QED BY <1>1, <1>2, VolumeAssumption
<1>4. \/ n = 0
      \/ n = MaxClicks /\ noOvershoot >= MaxClicks
      \/ n = capped /\ capped >= ProbeClicks
  BY Zenon DEF volumeRapidClickCount
<1>5. n \in Int /\ n <= noOvershoot /\ n \in {0} \cup ProbeClicks..MaxClicks
  <2> HIDE DEF noOvershoot, capped, n
  <2> QED BY <1>1, <1>3, <1>4, VolumeAssumption
<1>6. n * WorstRaw <= d
  <2> HIDE DEF n
  <2> QED BY <1>5, QuotientIsSafe
<1> QED BY <1>5, <1>6

-----------------------------------------------------------------------------
(* The re-mute journal and the mute lock.                                   *)

(* Journalling an owed mute, or failing to, leaves a firmware state.        *)
LEMMA armAutomaticRemuteRecoveryType ==
  ASSUME NEW f \in FirmwareState, NEW ok \in BOOLEAN
  PROVE  armAutomaticRemuteRecovery(f, ok) \in FirmwareState
<1> DEFINE stored == f.remJournal \/ ok
           key    == f.nv \/ (~f.remJournal /\ ok)
<1>1. stored \in BOOLEAN /\ key \in BOOLEAN
  BY Zenon
<1>2. [f EXCEPT !.remReq = TRUE, !.remConf = FALSE, !.remBase = f.vol,
                !.remJournal = stored, !.nv = key] \in FirmwareState
  <2> HIDE DEF stored, key
  <2> QED BY <1>1 DEF FirmwareState
<1> QED BY <1>2 DEF armAutomaticRemuteRecovery

(* Erasing the re-mute key, or failing to, leaves a firmware state.         *)
LEMMA clearAutomaticRemuteJournalType ==
  ASSUME NEW f \in FirmwareState, NEW ok \in BOOLEAN
  PROVE  clearAutomaticRemuteJournal(f, ok) \in FirmwareState
<1> DEFINE key == IF f.remJournal THEN FALSE ELSE f.nv
<1>1. key \in BOOLEAN
  BY DEF FirmwareState
<1>2. [f EXCEPT !.remReq = FALSE, !.remConf = FALSE, !.remJournal = FALSE,
                !.remBase = None, !.nv = key] \in FirmwareState
  <2> HIDE DEF key
  <2> QED BY <1>1, EmptyValues DEF FirmwareState
<1> QED BY <1>2, Zenon DEF clearAutomaticRemuteJournal

(* Releasing the manual mute lock leaves a firmware state.                  *)
LEMMA clearManualMuteLockType ==
  ASSUME NEW f \in FirmwareState
  PROVE  clearManualMuteLock(f) \in FirmwareState
  BY EmptyValues DEF clearManualMuteLock, FirmwareState, Direction

(* A manual volume command under the lock leaves a firmware state.          *)
LEMMA acceptManualVolumeFeedbackType ==
  ASSUME NEW f \in FirmwareState, NEW dir \in Direction
  PROVE  acceptManualVolumeFeedback(f, dir) \in FirmwareState
<1>1. [f EXCEPT !.autoFb = FALSE, !.lockRaw = f.vol, !.manDir = dir] \in FirmwareState
  BY DEF FirmwareState
<1> QED BY <1>1, Zenon DEF acceptManualVolumeFeedback

-----------------------------------------------------------------------------
(* Mute reports.                                                            *)

(* A report that says unmuted leaves a firmware state.                      *)
LEMMA HeardUnmutedType ==
  ASSUME NEW f \in FirmwareState
  PROVE  HeardUnmuted(f) \in FirmwareState
<1> DEFINE g       == [f EXCEPT !.muteKnown = TRUE, !.muted = FALSE]
           unmuted == g.t.unmuted \/ g.t.cycle
<1>1. g \in FirmwareState
  BY DEF FirmwareState
<1>2. unmuted \in BOOLEAN
  BY Zenon
<1>3. [g EXCEPT !.t.unmuted = unmuted] \in FirmwareState
  <2> HIDE DEF g, unmuted
  <2>1. [g.t EXCEPT !.unmuted = unmuted] \in Session
    BY <1>1, <1>2 DEF FirmwareState, Session
  <2> QED BY <1>1, <2>1 DEF FirmwareState
<1>4. /\ clearManualMuteLock(g) \in FirmwareState
      /\ clearManualMuteLock(invalidateReconnectRestore(g)) \in FirmwareState
  <2> HIDE DEF g
  <2> QED BY <1>1, clearManualMuteLockType, invalidateReconnectRestoreType
<1> QED BY <1>3, <1>4, Zenon DEF HeardUnmuted

(* A mute by the user leaves a firmware state.                              *)
LEMMA NewlyMutedType ==
  ASSUME NEW f \in FirmwareState
  PROVE  NewlyMuted(f) \in FirmwareState
<1> DEFINE g         == invalidateReconnectRestore(f)
           automatic == g.t.auto /\ g.t.target >= 0
           autoFb    == automatic /\ g.t.steps > 0
           locked    == [g EXCEPT !.autoFb = autoFb, !.locked = TRUE, !.lockRaw = g.vol]
           cancelled == cancelVolumeRestore(locked)
<1>1. g \in FirmwareState
  BY invalidateReconnectRestoreType
<1>2. autoFb \in BOOLEAN
  BY Zenon
<1>3. locked \in FirmwareState
  <2> HIDE DEF g, autoFb
  <2> QED BY <1>1, <1>2 DEF FirmwareState
<1>4. cancelled \in FirmwareState
  <2> HIDE DEF locked
  <2> QED BY <1>3, cancelVolumeRestoreType
<1>5. [cancelled EXCEPT !.suppressed = TRUE, !.failRaw = f.vol, !.quiet = TRUE]
        \in FirmwareState
  <2> HIDE DEF cancelled
  <2> QED BY <1>4 DEF FirmwareState
<1> QED BY <1>3, <1>5, Zenon DEF NewlyMuted

(* A report that says muted leaves a firmware state.                        *)
LEMMA HeardMutedType ==
  ASSUME NEW f \in FirmwareState, NEW ok \in BOOLEAN
  PROVE  HeardMuted(f, ok) \in FirmwareState
<1> DEFINE pendingCommand == f.t.target >= 0 /\ f.t.steps > 0
           f1 == IF pendingCommand /\ ~f.remReq
                 THEN armAutomaticRemuteRecovery(f, ok) ELSE f
           f2 == [f1 EXCEPT !.muteKnown = TRUE, !.muted = TRUE]
           confirmed == f2.remReq /\ f2.remConf
           f3 == IF confirmed THEN clearAutomaticRemuteJournal(f2, ok) ELSE f2
           f4 == IF confirmed /\ (~f2.remJournal \/ ok)
                 THEN [f3 EXCEPT !.suppressed = FALSE] ELSE f3
<1>1. f1 \in FirmwareState
  BY armAutomaticRemuteRecoveryType
<1>2. f2 \in FirmwareState
  <2> HIDE DEF f1
  <2> QED BY <1>1 DEF FirmwareState
<1>3. f3 \in FirmwareState
  <2> HIDE DEF f2
  <2> QED BY <1>2, clearAutomaticRemuteJournalType
<1>4. f4 \in FirmwareState
  <2> HIDE DEF f2, f3
  <2>1. [f3 EXCEPT !.suppressed = FALSE] \in FirmwareState
    BY <1>3 DEF FirmwareState
  <2> QED BY <1>3, <2>1, Zenon
<1>5. NewlyMuted(f4) \in FirmwareState
  <2> HIDE DEF f4
  <2> QED BY <1>4, NewlyMutedType
<1> QED BY <1>4, <1>5, Zenon DEF HeardMuted

(* observeMute() leaves a firmware state.                                   *)
LEMMA observeMuteType ==
  ASSUME NEW f \in FirmwareState, NEW muted \in BOOLEAN, NEW ok \in BOOLEAN
  PROVE  observeMute(f, muted, ok) \in FirmwareState
  BY HeardMutedType, HeardUnmutedType DEF observeMute

-----------------------------------------------------------------------------
(* Volume reports.                                                          *)

(* A level that makes an owed mute unconfirmed leaves a firmware state.     *)
LEMMA NoteRemuteFeedbackType ==
  ASSUME NEW f \in FirmwareState, NEW raw \in Level
  PROVE  NoteRemuteFeedback(f, raw) \in FirmwareState
<1>1. [f EXCEPT !.remBase = raw, !.remConf = FALSE] \in FirmwareState
  BY DEF FirmwareState, MaybeLevel
<1> QED BY <1>1, Zenon DEF NoteRemuteFeedback

(* The part of observeVolume() that may release the mute lock leaves a      *)
(* firmware state.                                                          *)
LEMMA ReleaseMuteLockType ==
  ASSUME NEW f \in FirmwareState, NEW raw \in Level
  PROVE  ReleaseMuteLock(f, raw) \in FirmwareState
<1>1. [f EXCEPT !.lockRaw = raw] \in FirmwareState
  BY DEF FirmwareState, MaybeLevel
<1> QED BY <1>1, clearManualMuteLockType, Zenon DEF ReleaseMuteLock

(* The distance of two levels, known or not, is a natural number.           *)
LEMMA DistanceType ==
  ASSUME NEW x \in MaybeLevel, NEW y \in MaybeLevel
  PROVE  Distance(x, y) \in Nat
  BY VolumeAssumption DEF Distance, MaybeLevel, Level, None

(* A report that only changes the observed level and the phase.             *)
LEMMA ObservedType ==
  ASSUME NEW f \in FirmwareState, NEW raw \in Level, NEW p \in Phase
  PROVE  /\ [f EXCEPT !.t.obs = raw] \in FirmwareState
         /\ [f EXCEPT !.t.phase = p] \in FirmwareState
         /\ [f EXCEPT !.t.obs = raw, !.t.phase = p] \in FirmwareState
<1>1. f.t \in Session /\ raw \in MaybeLevel
  BY DEF FirmwareState, MaybeLevel
<1>2. /\ [f.t EXCEPT !.obs = raw] \in Session
      /\ [f.t EXCEPT !.phase = p] \in Session
      /\ [f.t EXCEPT !.obs = raw, !.phase = p] \in Session
  BY <1>1 DEF Session
<1>3. [f EXCEPT !.t.obs = raw] \in FirmwareState
  BY <1>2 DEF FirmwareState
<1>4. [f EXCEPT !.t.phase = p] \in FirmwareState
  BY <1>2 DEF FirmwareState
<1>5. [f EXCEPT !.t.obs = raw, !.t.phase = p] \in FirmwareState
  BY <1>2 DEF FirmwareState
<1> QED BY <1>3, <1>4, <1>5

(* Waiting for a level to settle leaves a firmware state.                   *)
LEMMA SettlingType ==
  ASSUME NEW f \in FirmwareState, NEW raw \in Level
  PROVE  Settling(f, raw) \in FirmwareState
  BY ObservedType, PhaseValues DEF Settling

(* The first report after a click or a burst leaves a firmware state.       *)
LEMMA MovementSeenType ==
  ASSUME NEW f \in FirmwareState, NEW raw \in Level
  PROVE  MovementSeen(f, raw) \in FirmwareState
<1> DEFINE t      == f.t
           extend == t.burst /\ ExtensionAllowed(f, raw)
           burst  == t.burst /\ ~extend
           ext    == IF t.burst THEN extend ELSE t.ext
           phase  == IF extend THEN "waitBurstSecond" ELSE "settling"
           delta  == IF t.burst THEN Distance(raw, t.start) ELSE t.delta
           clicks == IF t.burst THEN t.sent ELSE t.clicks
           s      == [t EXCEPT !.obs = raw, !.burst = burst, !.ext = ext, !.phase = phase,
                               !.delta = delta, !.clicks = clicks]
<1>1. t \in Session /\ raw \in MaybeLevel
  BY DEF FirmwareState, MaybeLevel
<1>2. extend \in BOOLEAN /\ burst \in BOOLEAN
  BY Zenon
<1>3. ext \in BOOLEAN
  <2>1. t.ext \in BOOLEAN
    <3> HIDE DEF t
    <3> QED BY <1>1 DEF Session
  <2> HIDE DEF t, extend
  <2> QED BY <1>2, <2>1
<1>4. phase \in Phase
  BY PhaseValues
<1>5. delta \in Nat /\ clicks \in 0..MaxClicks \cup {1}
  <2>1. t.start \in MaybeLevel /\ t.delta \in Nat /\ {t.sent, t.clicks} \subseteq 0..MaxClicks \cup {1}
    <3> HIDE DEF t
    <3> QED BY <1>1 DEF Session
  <2> HIDE DEF t
  <2> QED BY <1>1, <2>1, DistanceType
<1>6. s \in Session
  <2> HIDE DEF t, burst, ext, phase, delta, clicks
  <2> QED BY <1>1, <1>2, <1>3, <1>4, <1>5 DEF Session
<1>7. [f EXCEPT !.t = s] \in FirmwareState
  <2> HIDE DEF s
  <2> QED BY <1>6, SessionUpdate
<1> QED BY <1>7, failVolumeRestoreType, Zenon DEF MovementSeen

(* A report in the middle of a burst leaves a firmware state.               *)
LEMMA MovementDuringBurstType ==
  ASSUME NEW f \in FirmwareState, NEW raw \in Level
  PROVE  MovementDuringBurst(f, raw) \in FirmwareState
<1> DEFINE g == Settling(f, raw)
<1>1. g \in FirmwareState /\ [f EXCEPT !.t.obs = raw] \in FirmwareState
  BY SettlingType, ObservedType, PhaseValues
<1>2. [g EXCEPT !.t.ext = FALSE, !.t.burst = TRUE] \in FirmwareState
  <2> HIDE DEF g
  <2>1. g.t \in Session
    BY <1>1 DEF FirmwareState
  <2>2. [g.t EXCEPT !.ext = FALSE, !.burst = TRUE] \in Session
    BY <2>1 DEF Session
  <2> QED BY <1>1, <2>2 DEF FirmwareState
<1>3. [g EXCEPT !.t.coarse = FALSE, !.t.planned = f.t.sent] \in FirmwareState
  <2>1. f.t.sent \in 0..MaxClicks \cup {1}
    BY DEF FirmwareState, Session
  <2> HIDE DEF g
  <2>2. g.t \in Session
    BY <1>1 DEF FirmwareState
  <2>3. [g.t EXCEPT !.coarse = FALSE, !.planned = f.t.sent] \in Session
    BY <2>1, <2>2 DEF Session
  <2> QED BY <1>1, <2>3 DEF FirmwareState
<1> QED BY <1>1, <1>2, <1>3, failVolumeRestoreType, Zenon DEF MovementDuringBurst

(* Ending at the target, or going on to the next click, leaves a firmware   *)
(* state.                                                                   *)
LEMMA AtTargetOrReadyType ==
  ASSUME NEW f \in FirmwareState, NEW raw \in Level
  PROVE  AtTargetOrReady(f, raw) \in FirmwareState
  BY completeVolumeRestoreType, ObservedType, PhaseValues DEF AtTargetOrReady

(* The report that confirms a settled level leaves a firmware state.        *)
LEMMA ConfirmationSeenType ==
  ASSUME NEW f \in FirmwareState, NEW raw \in Level
  PROVE  ConfirmationSeen(f, raw) \in FirmwareState
<1> DEFINE t      == f.t
           moved  == Distance(raw, t.start)
           past   == volumeDirection(raw, t.target) \notin {0, t.dir}
           coarse == t.coarse /\ ~past
           s      == [t EXCEPT !.delta = moved, !.clicks = t.sent, !.burst = FALSE,
                               !.coarse = coarse]
           g      == [f EXCEPT !.t = s]
<1>1. t \in Session /\ raw \in MaybeLevel
  BY DEF FirmwareState, MaybeLevel
<1>2. moved \in Nat /\ t.sent \in 0..MaxClicks \cup {1} /\ coarse \in BOOLEAN
  <2>1. t.start \in MaybeLevel /\ t.sent \in 0..MaxClicks \cup {1}
    <3> HIDE DEF t
    <3> QED BY <1>1 DEF Session
  <2>2. coarse \in BOOLEAN
    BY Zenon
  <2> QED BY <1>1, <2>1, <2>2, DistanceType
<1>3. s \in Session
  <2> HIDE DEF t, moved, coarse
  <2> QED BY <1>1, <1>2 DEF Session
<1>4. AtTargetOrReady(g, raw) \in FirmwareState
  <2> HIDE DEF s
  <2> QED BY <1>3, SessionUpdate, AtTargetOrReadyType
<1>5. [f EXCEPT !.t.delta = moved, !.t.clicks = t.sent, !.t.burst = FALSE,
                !.t.coarse = @ /\ ~past] = g
  <2> HIDE DEF moved, past
  <2> QED BY Zenon
<1> QED BY <1>4, <1>5, SettlingType, AtTargetOrReadyType, failVolumeRestoreType, Zenon
        DEF ConfirmationSeen

(* A volume report while a target is set leaves a firmware state, whatever  *)
(* the phase.                                                               *)
LEMMA TargetFeedbackType ==
  ASSUME NEW f \in FirmwareState, NEW raw \in Level
  PROVE  TargetFeedback(f, raw) \in FirmwareState
<1>1. [f EXCEPT !.t.obs = raw] \in FirmwareState
  BY ObservedType, PhaseValues
<1>2. AtTargetOrReady([f EXCEPT !.t.obs = raw], raw) \in FirmwareState
  BY <1>1, AtTargetOrReadyType
<1> QED BY <1>1, <1>2, MovementSeenType, MovementDuringBurstType, ConfirmationSeenType,
           SettlingType, failVolumeRestoreType DEF TargetFeedback, StillMoving

(* Learning a level for the app in front leaves a firmware state.           *)
LEMMA LearnType ==
  ASSUME NEW f \in FirmwareState, NEW raw \in Level
  PROVE  Learn(f, raw) \in FirmwareState
<1>1. f.cur \in MaybeApp /\ raw \in MaybeLevel
  BY DEF FirmwareState, MaybeLevel
<1> QED BY <1>1, RowType DEF Learn, MaybeApp

(* A volume report while no target is set leaves a firmware state.          *)
LEMMA IdleFeedbackType ==
  ASSUME NEW f \in FirmwareState, NEW raw \in Level
  PROVE  IdleFeedback(f, raw) \in FirmwareState
<1> DEFINE g == invalidateReconnectRestore(f)
           h == [g EXCEPT !.suppressed = FALSE, !.failRaw = None, !.quiet = TRUE]
<1>1. raw \in MaybeLevel
  BY DEF MaybeLevel
<1>2. /\ [f EXCEPT !.failRaw = raw] \in FirmwareState
      /\ [f EXCEPT !.failRaw = raw, !.quiet = FALSE] \in FirmwareState
  BY <1>1 DEF FirmwareState
<1>3. h \in FirmwareState
  <2>1. g \in FirmwareState
    BY invalidateReconnectRestoreType
  <2> HIDE DEF g
  <2> QED BY <2>1, EmptyValues DEF FirmwareState
<1>4. Learn(h, raw) \in FirmwareState /\ Learn(f, raw) \in FirmwareState
  <2> HIDE DEF h
  <2> QED BY <1>3, LearnType
<1> QED BY <1>2, <1>4, Zenon DEF IdleFeedback

(* observeVolume() leaves a firmware state.                                 *)
LEMMA observeVolumeType ==
  ASSUME NEW f \in FirmwareState, NEW raw \in Level
  PROVE  observeVolume(f, raw) \in FirmwareState
<1> DEFINE g == ReleaseMuteLock(NoteRemuteFeedback([f EXCEPT !.vol = raw], raw), raw)
<1>1. [f EXCEPT !.vol = raw] \in FirmwareState
  BY DEF FirmwareState, MaybeLevel
<1>2. g \in FirmwareState
  BY <1>1, NoteRemuteFeedbackType, ReleaseMuteLockType
<1>3. TargetFeedback(g, raw) \in FirmwareState /\ IdleFeedback(g, raw) \in FirmwareState
  <2> HIDE DEF g
  <2> QED BY <1>2, TargetFeedbackType, IdleFeedbackType
<1> QED BY <1>3, Zenon DEF observeVolume

-----------------------------------------------------------------------------
(* The edges of the link.                                                   *)

(* The connect edge of maintainDenon() leaves a firmware state.             *)
LEMMA ConnectEdgeType ==
  ASSUME NEW f \in FirmwareState
  PROVE  ConnectEdge(f) \in FirmwareState
<1> DEFINE g == [f EXCEPT !.was = TRUE, !.sess = FALSE, !.vol = None, !.muteKnown = FALSE]
<1>1. g \in FirmwareState
  BY EmptyValues DEF FirmwareState
<1>2. armVolumeTargetSession(g) \in FirmwareState
  <2> HIDE DEF g
  <2> QED BY <1>1, armVolumeTargetSessionType
<1> QED BY <1>1, <1>2, Zenon DEF ConnectEdge

(* The credit taken at a link loss leaves a firmware state.                 *)
LEMMA RememberCreditType ==
  ASSUME NEW f \in FirmwareState
  PROVE  RememberCredit(f) \in FirmwareState
<1>1. /\ f.cur \in MaybeApp /\ f.pend \in MaybeApp
      /\ f.lastEvent \in EventId /\ f.t.target \in MaybeLevel
  BY DEF FirmwareState, Session
<1>2. rememberReconnectRestore(f, f.cur, f.lastEvent, f.t.target) \in FirmwareState
  BY <1>1, rememberReconnectRestoreType
<1>3. CASE f.pend # NoApp
  <2>1. f.saved[f.pend] \in MaybeLevel
    BY <1>1, <1>3, SavedType
  <2>2. rememberReconnectRestore(f, f.pend, f.lastEvent, f.saved[f.pend]) \in FirmwareState
    BY <1>1, <2>1, rememberReconnectRestoreType
  <2> QED BY <1>2, <2>2, Zenon DEF RememberCredit
<1>4. CASE f.pend = NoApp
  BY <1>2, <1>4, Zenon DEF RememberCredit
<1> QED BY <1>3, <1>4

(* The disconnect edge of maintainDenon() leaves a firmware state.          *)
LEMMA DisconnectEdgeType ==
  ASSUME NEW f \in FirmwareState
  PROVE  DisconnectEdge(f) \in FirmwareState
<1> DEFINE r == RememberCredit(f)
           g == [r EXCEPT
                   !.was = FALSE, !.sess = FALSE, !.vol = None, !.muteKnown = FALSE,
                   !.curAuth = "none", !.pendAuth = "none", !.pendAllowed = FALSE,
                   !.pendReconnect = None]
           c == cancelVolumeRestore([g EXCEPT !.remConf = FALSE])
<1>1. g \in FirmwareState
  <2>1. r \in FirmwareState
    BY RememberCreditType
  <2> HIDE DEF r
  <2> QED BY <2>1, EmptyValues, AuthorityValues DEF FirmwareState
<1>2. c \in FirmwareState /\ pauseVolumeTargetSession(g) \in FirmwareState
  <2> HIDE DEF g
  <2>1. [g EXCEPT !.remConf = FALSE] \in FirmwareState
    BY <1>1 DEF FirmwareState
  <2> QED BY <1>1, <2>1, cancelVolumeRestoreType, pauseVolumeTargetSessionType
<1>3. [c EXCEPT !.suppressed = TRUE, !.failRaw = None, !.quiet = FALSE] \in FirmwareState
  <2> HIDE DEF c
  <2> QED BY <1>2, EmptyValues DEF FirmwareState
<1> QED BY <1>2, <1>3, Zenon DEF DisconnectEdge
=============================================================================
