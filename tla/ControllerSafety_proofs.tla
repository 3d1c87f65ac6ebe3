----------------------- MODULE ControllerSafety_proofs -----------------------
(***************************************************************************)
(* Mutes, retries and extensions in every behaviour of Controller: the     *)
(* re-mute journal never lies (JournalIsRight); the mute that is owed goes *)
(* out before any click (MuteBeforeClicks); the retry of an event grants   *)
(* nothing (RetriesStartNothing); an extension that was granted is         *)
(* still allowed when it is sent (ExtensionsStayAllowed); a muted receiver *)
(* is clicked under a lease only (MutedClicksAreGranted); a mute that the  *)
(* firmware broke stays in the journal until it is made good               *)
(* (BrokenMutesAreJournalled, KeyGoesWithTheMute).  The first parts sort   *)
(* the operators by what they leave alone; the last two follow what is in  *)
(* flight over the link.                                                   *)
(***************************************************************************)
EXTENDS Controller_proofs

(* The invariant of a firmware state, and what the other operators keep.    *)
JournalOK(fw) == fw.remJournal = fw.nv /\ (fw.nv => fw.remReq)
Journal(fw) == <<fw.remReq, fw.remJournal, fw.nv, fw.muteKnown, fw.muted, fw.was, fw.remConf>>
Owed(fw) == <<fw.remReq, fw.remJournal, fw.nv>>

(* An operator that leaves the journal alone keeps what is true of it.      *)
LEMMA JournalIsEnough ==
  ASSUME NEW fw, NEW g, JournalOK(fw), Journal(g) = Journal(fw) \/ Owed(g) = Owed(fw)
  PROVE  JournalOK(g)
  BY DEF Journal, Owed, JournalOK

(* An operator that hears nothing of the mute may forget what it knows of   *)
(* it; it neither asks for a confirmation nor erases the key.               *)
Unheard(g, fw) ==
  /\ g.muteKnown => fw.muteKnown /\ g.muted = fw.muted /\ (g.was => fw.was)
  /\ g.remConf => fw.remConf
  /\ fw.nv => g.nv
StaysOK(g, fw) == JournalOK(g) /\ Unheard(g, fw)
Forgets(g, fw) == Owed(g) = Owed(fw) /\ ~g.muteKnown /\ (g.remConf => fw.remConf)

LEMMA UnheardIsEnough ==
  ASSUME NEW fw, NEW g, NEW h, StaysOK(g, fw),
         Journal(h) = Journal(g) \/ Forgets(h, g)
  PROVE  StaysOK(h, fw)
  BY DEF Journal, Forgets, Owed, StaysOK, JournalOK, Unheard

-----------------------------------------------------------------------------
(* Operators of Firmware that leave the journal alone.                      *)

(* Revoking or forgetting a reconnect credit does not touch the journal.    *)
LEMMA CreditKeepsJournal ==
  ASSUME NEW fw \in FirmwareState
  PROVE  /\ Journal(clearReconnectRestore(fw)) = Journal(fw)
         /\ Journal(invalidateReconnectRestore(fw)) = Journal(fw)
<1>1. Journal(clearReconnectRestore(fw)) = Journal(fw)
  BY DEF clearReconnectRestore, Journal, FirmwareState
<1>2. Journal(invalidateReconnectRestore(fw)) = Journal(fw)
  BY DEF invalidateReconnectRestore, Journal, FirmwareState
<1> QED BY <1>1, <1>2

(* Taking a reconnect credit does not touch the journal.                    *)
LEMMA rememberReconnectRestoreKeepsJournal ==
  ASSUME NEW fw \in FirmwareState, NEW a, NEW e, NEW v
  PROVE  Journal(rememberReconnectRestore(fw, a, e, v)) = Journal(fw)
  BY DEF rememberReconnectRestore, Journal, FirmwareState

(* No way of arming, pausing or ending a target touches the journal: a      *)
(* target that fails keeps the mute it owes.                                *)
LEMMA SessionKeepsJournal ==
  ASSUME NEW fw \in FirmwareState
  PROVE  /\ Journal(resetVolumeRestore(fw)) = Journal(fw)
         /\ Journal(advanceVolumeTargetGeneration(fw)) = Journal(fw)
         /\ Journal(armVolumeTargetSession(fw)) = Journal(fw)
         /\ Journal(pauseVolumeTargetSession(fw)) = Journal(fw)
         /\ Journal(completeVolumeRestore(fw)) = Journal(fw)
         /\ Journal(failVolumeRestore(fw)) = Journal(fw)
         /\ Journal(cancelVolumeRestore(fw)) = Journal(fw)
<1>1. ASSUME NEW g \in FirmwareState PROVE Journal(resetVolumeRestore(g)) = Journal(g)
  BY DEF resetVolumeRestore, Journal, FirmwareState
<1>2. Journal(advanceVolumeTargetGeneration(fw)) = Journal(fw)
  BY DEF advanceVolumeTargetGeneration, Journal, FirmwareState
<1>3. Journal(armVolumeTargetSession(fw)) = Journal(fw)
  BY DEF armVolumeTargetSession, Journal, FirmwareState
<1>4. Journal(pauseVolumeTargetSession(fw)) = Journal(fw)
  BY DEF pauseVolumeTargetSession, Journal, FirmwareState
<1>5. ASSUME NEW g \in FirmwareState PROVE Journal(completeVolumeRestore(g)) = Journal(g)
  <2>1. resetVolumeRestore(g) \in FirmwareState /\ Journal(resetVolumeRestore(g)) = Journal(g)
    BY <1>1, resetVolumeRestoreType
  <2> QED BY <2>1 DEF completeVolumeRestore, Journal, FirmwareState
<1>6. Journal(failVolumeRestore(fw)) = Journal(fw)
  <2>1. resetVolumeRestore(fw) \in FirmwareState /\ Journal(resetVolumeRestore(fw)) = Journal(fw)
    BY <1>1, resetVolumeRestoreType
  <2> QED BY <2>1 DEF failVolumeRestore, Journal, FirmwareState
<1>7. Journal(cancelVolumeRestore(fw)) = Journal(fw)
  BY <1>2, <1>5, advanceVolumeTargetGenerationType DEF cancelVolumeRestore
<1> QED BY <1>1, <1>2, <1>3, <1>4, <1>5, <1>6, <1>7

(* setVolume() does not touch the journal: the key is written with the      *)
(* first command only.                                                      *)
LEMMA setVolumeKeepsJournal ==
  ASSUME NEW fw \in FirmwareState, NEW v, NEW automatic \in BOOLEAN
  PROVE  Journal(setVolume(fw, v, automatic)) = Journal(fw)
<1>1. ASSUME NEW m PROVE Journal(StartTarget(fw, v, automatic, m)) = Journal(fw)
  <2> DEFINE g == advanceVolumeTargetGeneration(fw)
  <2>1. g \in FirmwareState /\ Journal(g) = Journal(fw)
    BY advanceVolumeTargetGenerationType, SessionKeepsJournal
  <2>2. ASSUME NEW s PROVE Journal([g EXCEPT !.suppressed = TRUE, !.t = s]) = Journal(g)
    <3> HIDE DEF g
    <3> QED BY <2>1 DEF Journal, FirmwareState
  <2> QED BY <2>1, <2>2, Zenon DEF StartTarget
<1>2. Journal([fw EXCEPT !.suppressed = TRUE, !.failRaw = fw.vol, !.quiet = TRUE]) = Journal(fw)
  BY DEF Journal, FirmwareState
<1> QED BY <1>1, <1>2, Zenon DEF setVolume

(* Starting the restore of the app in front does not touch the journal.     *)
LEMMA startRestoreKeepsJournal ==
  ASSUME NEW fw \in FirmwareState
  PROVE  Journal(startRestoreForCurrentApp(fw)) = Journal(fw)
  BY setVolumeKeepsJournal, SessionKeepsJournal DEF startRestoreForCurrentApp

(* Writing an app's row does not touch the journal.                         *)
LEMMA RowsKeepJournal ==
  ASSUME NEW fw \in FirmwareState, NEW a, NEW v
  PROVE  /\ Journal(rememberAppVolume(fw, a, v)) = Journal(fw)
         /\ Journal(SaveOutgoing(fw)) = Journal(fw)
<1>1. ASSUME NEW x, NEW y PROVE Journal(rememberAppVolume(fw, x, y)) = Journal(fw)
  BY DEF rememberAppVolume, Journal, FirmwareState
<1> QED BY <1>1, Zenon DEF SaveOutgoing

(* Losing the app in front does not touch the journal.                      *)
LEMMA clearCurrentAppKeepsJournal ==
  ASSUME NEW fw \in FirmwareState
  PROVE  Journal(clearCurrentApp(fw)) = Journal(fw)
<1> DEFINE h == invalidateReconnectRestore(fw)
           g == [h EXCEPT !.pend = NoApp, !.pendAuth = "none", !.pendAllowed = TRUE,
                          !.pendReconnect = None, !.cur = NoApp, !.curAuth = "none"]
<1>1. h \in FirmwareState /\ Journal(h) = Journal(fw)
  BY invalidateReconnectRestoreType, CreditKeepsJournal
<1>2. g \in FirmwareState /\ Journal(g) = Journal(h)
  <2> HIDE DEF h
  <2>1. g \in FirmwareState
    BY <1>1, EmptyValues, AuthorityValues DEF FirmwareState
  <2>2. Journal(g) = Journal(h)
    BY <1>1 DEF Journal, FirmwareState
  <2> QED BY <2>1, <2>2
<1>3. Journal(cancelVolumeRestore(g)) = Journal(g)
  <2> HIDE DEF g
  <2> QED BY <1>2, SessionKeepsJournal
<1> QED BY <1>1, <1>2, <1>3, Zenon DEF clearCurrentApp

(* Granting or refusing a lease does not touch the journal.                 *)
LEMMA GrantKeepsJournal ==
  ASSUME NEW fw \in FirmwareState, NEW a, NEW kind, NEW e, NEW reauth
  PROVE  Journal(Grant(fw, a, kind, e, reauth).f) = Journal(fw)
<1> DEFINE g       == IF fw.pendReconnect >= 0 THEN invalidateReconnectRestore(fw) ELSE fw
           matches == kind = "idle" /\ reconnectRestoreMatches(g, a, e)
           kept    == IF g.credit.target >= 0 /\ ~matches
                      THEN invalidateReconnectRestore(g) ELSE g
<1>1. g \in FirmwareState /\ Journal(g) = Journal(fw)
  BY invalidateReconnectRestoreType, CreditKeepsJournal
<1>2. kept \in FirmwareState /\ Journal(kept) = Journal(g)
  <2> HIDE DEF g, matches
  <2> QED BY <1>1, invalidateReconnectRestoreType, CreditKeepsJournal
<1>3. Journal([kept EXCEPT !.lastEvent = e]) = Journal(kept)
  <2> HIDE DEF kept
  <2> QED BY <1>2 DEF Journal, FirmwareState
<1>4. \/ Grant(fw, a, kind, e, reauth).f = kept
      \/ Grant(fw, a, kind, e, reauth).f = [kept EXCEPT !.lastEvent = e]
  <2> HIDE DEF kept
  <2> QED BY DEF Grant, kept
<1> HIDE DEF g, kept
<1> QED BY <1>1, <1>2, <1>3, <1>4

(* An update for the app in front does not touch the journal, even one that *)
(* cancels a muted restore.                                                 *)
LEMMA UpdateCurrentKeepsJournal ==
  ASSUME NEW g \in Granted
  PROVE  Journal(UpdateCurrent(g)) = Journal(g.f)
<1> DEFINE fw    == g.f
           auth == IF g.duplicate THEN fw.curAuth ELSE g.auth
           f1   == [fw EXCEPT !.pend = NoApp, !.pendAllowed = TRUE, !.pendReconnect = None,
                             !.curAuth = auth]
           f2   == IF ~g.duplicate /\ ~g.idle /\ f1.t.cycle THEN cancelVolumeRestore(f1) ELSE f1
           f3   == clearReconnectRestore(f2)
<1>1. fw \in FirmwareState /\ auth \in Authority
  BY DEF Granted, FirmwareState
<1>2. f1 \in FirmwareState /\ Journal(f1) = Journal(fw)
  <2> HIDE DEF fw, auth
  <2>1. f1 \in FirmwareState
    BY <1>1, EmptyValues DEF FirmwareState
  <2>2. Journal(f1) = Journal(fw)
    BY <1>1 DEF Journal, FirmwareState
  <2> QED BY <2>1, <2>2
<1>3. f2 \in FirmwareState /\ Journal(f2) = Journal(f1)
  <2> HIDE DEF f1
  <2> QED BY <1>2, cancelVolumeRestoreType, SessionKeepsJournal
<1>4. /\ Journal(startRestoreForCurrentApp(f2)) = Journal(f2)
      /\ Journal(setVolume(f3, f2.credit.target, TRUE)) = Journal(f2)
  <2> HIDE DEF f2
  <2>1. f3 \in FirmwareState /\ Journal(f3) = Journal(f2)
    BY <1>3, clearReconnectRestoreType, CreditKeepsJournal
  <2> HIDE DEF f3
  <2> QED BY <1>3, <2>1, startRestoreKeepsJournal, setVolumeKeepsJournal
<1>5. UpdateCurrent(g) \in {f2, startRestoreForCurrentApp(f2), setVolume(f3, f2.credit.target, TRUE)}
  BY Zenon DEF UpdateCurrent
<1> HIDE DEF f1, f2, f3
<1> QED BY <1>2, <1>3, <1>4, <1>5

(* The authority of a candidate does not touch the journal.                 *)
LEMMA SetPendingAuthorityKeepsJournal ==
  ASSUME NEW fw \in FirmwareState, NEW g \in Granted
  PROVE  Journal(SetPendingAuthority(fw, g)) = Journal(fw)
<1> DEFINE level == IF g.reconnect THEN fw.credit.target ELSE None
           f1    == [fw EXCEPT !.pendAuth = g.auth, !.pendAllowed = g.allowed,
                              !.pendReconnect = level]
<1>1. f1 \in FirmwareState /\ Journal(f1) = Journal(fw)
  <2>1. level \in MaybeLevel /\ g.auth \in Authority /\ g.allowed \in BOOLEAN
    BY EmptyValues DEF FirmwareState, Credit, Granted
  <2> HIDE DEF level
  <2>2. f1 \in FirmwareState
    BY <2>1 DEF FirmwareState
  <2>3. Journal(f1) = Journal(fw)
    BY DEF Journal, FirmwareState
  <2> QED BY <2>2, <2>3
<1>2. SetPendingAuthority(fw, g) \in {f1, clearReconnectRestore(f1)}
  BY Zenon DEF SetPendingAuthority
<1> HIDE DEF f1
<1> QED BY <1>1, <1>2, CreditKeepsJournal

(* A new candidate does not touch the journal.                              *)
LEMMA NewPendingKeepsJournal ==
  ASSUME NEW g \in Granted, NEW a \in MaybeApp
  PROVE  Journal(NewPending(g, a)) = Journal(g.f)
<1> DEFINE f1 == SaveOutgoing(g.f)
           f2 == IF f1.t.target < 0 \/ f1.t.auto THEN cancelVolumeRestore(f1) ELSE f1
           f3 == [f2 EXCEPT !.pend = a]
<1>1. f1 \in FirmwareState /\ Journal(f1) = Journal(g.f)
  BY SaveOutgoingType, RowsKeepJournal DEF Granted
<1>2. f2 \in FirmwareState /\ Journal(f2) = Journal(f1)
  <2> HIDE DEF f1
  <2> QED BY <1>1, cancelVolumeRestoreType, SessionKeepsJournal
<1>3. f3 \in FirmwareState /\ Journal(f3) = Journal(f2)
  <2> HIDE DEF f2
  <2>1. f3 \in FirmwareState
    BY <1>2 DEF FirmwareState
  <2>2. Journal(f3) = Journal(f2)
    BY <1>2 DEF Journal, FirmwareState
  <2> QED BY <2>1, <2>2
<1>4. Journal(SetPendingAuthority(f3, g)) = Journal(f3)
  <2> HIDE DEF f3
  <2> QED BY <1>3, SetPendingAuthorityKeepsJournal
<1>5. NewPending(g, a) = SetPendingAuthority(f3, g)
  BY Zenon DEF NewPending
<1> HIDE DEF f1, f2, f3
<1> QED BY <1>1, <1>2, <1>3, <1>4, <1>5

(* No update from Home Assistant touches the journal.                       *)
LEMMA queueAppCandidateKeepsJournal ==
  ASSUME NEW fw \in FirmwareState, NEW a \in MaybeApp, NEW kind, NEW e \in EventId,
         NEW reauth \in BOOLEAN
  PROVE  Journal(queueAppCandidate(fw, a, kind, e, reauth)) = Journal(fw)
<1> DEFINE g == Grant(fw, a, kind, e, reauth)
<1>1. g \in Granted /\ g.f \in FirmwareState /\ Journal(g.f) = Journal(fw)
  BY GrantType, GrantKeepsJournal DEF Granted
<1>2. queueAppCandidate(fw, a, kind, e, reauth) \in {UpdateCurrent(g), UpdatePending(g), NewPending(g, a)}
  BY Zenon DEF queueAppCandidate
<1> HIDE DEF g
<1>3. Journal(UpdatePending(g)) = Journal(g.f)
  BY <1>1, SetPendingAuthorityKeepsJournal DEF UpdatePending
<1> QED BY <1>1, <1>2, <1>3, UpdateCurrentKeepsJournal, NewPendingKeepsJournal

(* A switch of apps does not touch the journal.                             *)
LEMMA activatePendingAppKeepsJournal ==
  ASSUME NEW fw \in FirmwareState, fw.pend # NoApp
  PROVE  Journal(activatePendingApp(fw)) = Journal(fw)
<1> DEFINE f1 == SaveOutgoing(fw)
           f2 == [f1 EXCEPT !.cur = fw.pend, !.curAuth = fw.pendAuth, !.pend = NoApp,
                            !.pendAuth = "none", !.pendAllowed = TRUE, !.pendReconnect = None]
           f3 == rememberAppVolume(f2, fw.pend, f2.vol)
<1>1. f1 \in FirmwareState /\ Journal(f1) = Journal(fw)
  BY SaveOutgoingType, RowsKeepJournal
<1>2. f2 \in FirmwareState /\ Journal(f2) = Journal(f1)
  <2>1. fw.pend \in MaybeApp /\ fw.pendAuth \in Authority
    BY DEF FirmwareState
  <2> HIDE DEF f1
  <2>2. f2 \in FirmwareState
    BY <1>1, <2>1, EmptyValues, AuthorityValues DEF FirmwareState
  <2>3. Journal(f2) = Journal(f1)
    BY <1>1 DEF Journal, FirmwareState
  <2> QED BY <2>2, <2>3
<1>3. Journal(cancelVolumeRestore(f3)) = Journal(f2)
  <2> HIDE DEF f2
  <2>1. fw.pend \in Apps /\ f2.vol \in MaybeLevel
    BY <1>2 DEF FirmwareState, MaybeApp
  <2>2. f3 \in FirmwareState /\ Journal(f3) = Journal(f2)
    BY <1>2, <2>1, RowType, RowsKeepJournal
  <2> HIDE DEF f3
  <2> QED BY <2>2, SessionKeepsJournal
<1>4. /\ Journal(setVolume(f2, fw.pendReconnect, TRUE)) = Journal(f2)
      /\ Journal(startRestoreForCurrentApp(f2)) = Journal(f2)
  <2> HIDE DEF f2
  <2> QED BY <1>2, setVolumeKeepsJournal, startRestoreKeepsJournal
<1>5. activatePendingApp(fw) \in {f2, setVolume(f2, fw.pendReconnect, TRUE),
                                 startRestoreForCurrentApp(f2), cancelVolumeRestore(f3)}
  BY Zenon DEF activatePendingApp
<1> HIDE DEF f1, f2, f3
<1> QED BY <1>1, <1>2, <1>3, <1>4, <1>5

-----------------------------------------------------------------------------
(* Mute reports: the journal is armed and cleared here.                     *)

(* The two functions that write the journal keep it right, whether or not   *)
(* their write to NVS succeeds.                                             *)
LEMMA ArmedAndCleared ==
  ASSUME NEW fw \in FirmwareState, JournalOK(fw), NEW ok \in BOOLEAN
  PROVE  /\ JournalOK(armAutomaticRemuteRecovery(fw, ok))
         /\ ~armAutomaticRemuteRecovery(fw, ok).remConf
         /\ fw.nv \/ ok => armAutomaticRemuteRecovery(fw, ok).nv
         /\ JournalOK(clearAutomaticRemuteJournal(fw, ok))
         /\ clearAutomaticRemuteJournal(fw, ok).remConf => fw.remConf
<1>1. /\ JournalOK(armAutomaticRemuteRecovery(fw, ok))
      /\ ~armAutomaticRemuteRecovery(fw, ok).remConf
      /\ fw.nv \/ ok => armAutomaticRemuteRecovery(fw, ok).nv
  <2> DEFINE stored == fw.remJournal \/ ok
             key    == fw.nv \/ (~fw.remJournal /\ ok)
             g      == [fw EXCEPT !.remReq = TRUE, !.remConf = FALSE, !.remBase = fw.vol,
                                 !.remJournal = stored, !.nv = key]
  <2>1. stored = key
    BY DEF JournalOK, FirmwareState
  <2>2. g.remReq = TRUE /\ g.remJournal = stored /\ g.nv = key /\ g.remConf = FALSE
    <3> HIDE DEF stored, key
    <3> QED BY DEF FirmwareState
  <2>3. fw.nv \/ ok => key
    BY DEF JournalOK, FirmwareState
  <2>4. JournalOK(g) /\ ~g.remConf /\ (fw.nv \/ ok => g.nv)
    <3> HIDE DEF g, stored, key
    <3> QED BY <2>1, <2>2, <2>3 DEF JournalOK
  <2> QED BY <2>4 DEF armAutomaticRemuteRecovery
<1>2. /\ JournalOK(clearAutomaticRemuteJournal(fw, ok))
      /\ clearAutomaticRemuteJournal(fw, ok).remConf => fw.remConf
  <2> DEFINE key == IF fw.remJournal THEN FALSE ELSE fw.nv
             g   == [fw EXCEPT !.remReq = FALSE, !.remConf = FALSE, !.remJournal = FALSE,
                              !.remBase = None, !.nv = key]
  <2>1. key = FALSE
    BY DEF JournalOK, FirmwareState
  <2>2. g.remJournal = FALSE /\ g.nv = key /\ g.remConf = FALSE
    <3> HIDE DEF key
    <3> QED BY DEF FirmwareState
  <2>3. JournalOK(g) /\ ~g.remConf
    <3> HIDE DEF g, key
    <3> QED BY <2>1, <2>2 DEF JournalOK
  <2> QED BY <2>3, Zenon DEF clearAutomaticRemuteJournal
<1> QED BY <1>1, <1>2

(* Releasing the mute lock does not touch the journal.                      *)
LEMMA clearManualMuteLockKeepsJournal ==
  ASSUME NEW fw \in FirmwareState
  PROVE  Journal(clearManualMuteLock(fw)) = Journal(fw)
  BY DEF clearManualMuteLock, Journal, FirmwareState

(* A manual volume command does not touch the journal.                      *)
LEMMA acceptManualKeepsJournal ==
  ASSUME NEW fw \in FirmwareState, NEW dir
  PROVE  Journal(acceptManualVolumeFeedback(fw, dir)) = Journal(fw)
  BY DEF acceptManualVolumeFeedback, Journal, FirmwareState

(* A mute report is believed, and the rest is left alone.                   *)
Believes(g, fw, on) ==
  g.muteKnown /\ g.muted = on /\ g.was = fw.was /\ (g.remConf => fw.remConf)

(* A report that says unmuted does not touch the journal: the mute stays    *)
(* owed.                                                                    *)
LEMMA HeardUnmutedKeepsJournal ==
  ASSUME NEW fw \in FirmwareState
  PROVE  Owed(HeardUnmuted(fw)) = Owed(fw) /\ Believes(HeardUnmuted(fw), fw, FALSE)
<1> DEFINE g       == [fw EXCEPT !.muteKnown = TRUE, !.muted = FALSE]
           unmuted == g.t.unmuted \/ g.t.cycle
           h       == [g EXCEPT !.t.unmuted = unmuted]
           k       == IF fw.muteKnown /\ fw.muted THEN invalidateReconnectRestore(g) ELSE g
<1>1. g \in FirmwareState
  BY DEF FirmwareState
<1>2. Owed(g) = Owed(fw) /\ Believes(g, fw, FALSE)
  BY DEF Owed, Believes, FirmwareState
<1>3. Journal(h) = Journal(g)
  <2> HIDE DEF g, unmuted
  <2> QED BY <1>1 DEF Journal, FirmwareState
<1>4. Journal(clearManualMuteLock(k)) = Journal(g)
  <2> HIDE DEF g
  <2>1. k \in FirmwareState /\ Journal(k) = Journal(g)
    BY <1>1, invalidateReconnectRestoreType, CreditKeepsJournal
  <2> HIDE DEF k
  <2> QED BY <2>1, clearManualMuteLockKeepsJournal
<1>5. HeardUnmuted(fw) \in {h, clearManualMuteLock(k)}
  BY Zenon DEF HeardUnmuted
<1> HIDE DEF g, h, k
<1> QED BY <1>2, <1>3, <1>4, <1>5 DEF Owed, Believes, Journal

(* Locking the volume at the user's mute does not touch the journal.        *)
LEMMA NewlyMutedKeepsJournal ==
  ASSUME NEW fw \in FirmwareState
  PROVE  Journal(NewlyMuted(fw)) = Journal(fw)
<1> DEFINE g         == invalidateReconnectRestore(fw)
           autoFb    == (g.t.auto /\ g.t.target >= 0) /\ g.t.steps > 0
           locked    == [g EXCEPT !.autoFb = autoFb, !.locked = TRUE, !.lockRaw = g.vol]
           cancelled == cancelVolumeRestore(locked)
           h         == [cancelled EXCEPT !.suppressed = TRUE, !.failRaw = fw.vol, !.quiet = TRUE]
<1>1. g \in FirmwareState /\ Journal(g) = Journal(fw)
  BY invalidateReconnectRestoreType, CreditKeepsJournal
<1>2. autoFb \in BOOLEAN
  BY Zenon
<1>3. locked \in FirmwareState /\ Journal(locked) = Journal(g)
  <2> HIDE DEF g, autoFb
  <2>1. locked \in FirmwareState
    BY <1>1, <1>2 DEF FirmwareState
  <2>2. Journal(locked) = Journal(g)
    BY <1>1 DEF Journal, FirmwareState
  <2> QED BY <2>1, <2>2
<1>4. cancelled \in FirmwareState /\ Journal(cancelled) = Journal(locked)
  <2> HIDE DEF locked
  <2> QED BY <1>3, cancelVolumeRestoreType, SessionKeepsJournal
<1>5. Journal(h) = Journal(cancelled)
  <2> HIDE DEF cancelled
  <2> QED BY <1>4 DEF Journal, FirmwareState
<1>6. NewlyMuted(fw) \in {h, locked}
  BY Zenon DEF NewlyMuted
<1> HIDE DEF g, locked, cancelled, h
<1> QED BY <1>1, <1>3, <1>4, <1>5, <1>6

(* A mute report arms the journal for a pending command, and clears it when *)
(* it confirms the mute that was owed; a failed write changes neither half. *)
LEMMA HeardMutedKeepsOK ==
  ASSUME NEW fw \in FirmwareState, JournalOK(fw), NEW ok \in BOOLEAN
  PROVE  /\ JournalOK(HeardMuted(fw, ok)) /\ Believes(HeardMuted(fw, ok), fw, TRUE)
         /\ fw.nv /\ ~fw.remConf => HeardMuted(fw, ok).nv
<1> DEFINE f1 == IF (fw.t.target >= 0 /\ fw.t.steps > 0) /\ ~fw.remReq
                 THEN armAutomaticRemuteRecovery(fw, ok) ELSE fw
           f2 == [f1 EXCEPT !.muteKnown = TRUE, !.muted = TRUE]
           f3 == IF f2.remReq /\ f2.remConf THEN clearAutomaticRemuteJournal(f2, ok) ELSE f2
           f4 == IF (f2.remReq /\ f2.remConf) /\ (~f2.remJournal \/ ok)
                 THEN [f3 EXCEPT !.suppressed = FALSE] ELSE f3
           Good(g) == /\ JournalOK(g) /\ Believes(g, fw, TRUE)
                      /\ fw.nv /\ ~fw.remConf => g.nv
<1>1. /\ f1 \in FirmwareState /\ JournalOK(f1) /\ f1.was = fw.was
      /\ f1.remConf => fw.remConf
      /\ fw.nv => f1.nv
  <2>1. armAutomaticRemuteRecovery(fw, ok).was = fw.was
    BY DEF armAutomaticRemuteRecovery, FirmwareState
  <2> QED BY <2>1, armAutomaticRemuteRecoveryType, ArmedAndCleared
<1>2. f2 \in FirmwareState /\ Good(f2)
  <2> HIDE DEF f1
  <2>1. f2 \in FirmwareState
    BY <1>1 DEF FirmwareState
  <2>2. Owed(f2) = Owed(f1) /\ f2.nv = f1.nv /\ Believes(f2, f1, TRUE)
    BY <1>1 DEF Owed, Believes, FirmwareState
  <2> HIDE DEF f2
  <2> QED BY <1>1, <2>1, <2>2, JournalIsEnough DEF Believes
<1>3. f3 \in FirmwareState /\ Good(f3)
  <2> HIDE DEF f2
  <2> DEFINE c == clearAutomaticRemuteJournal(f2, ok)
  <2>1. c.muteKnown = f2.muteKnown /\ c.muted = f2.muted /\ c.was = f2.was
    BY <1>2 DEF clearAutomaticRemuteJournal, FirmwareState
  <2>2. c \in FirmwareState /\ JournalOK(c) /\ (c.remConf => f2.remConf)
    BY <1>2, clearAutomaticRemuteJournalType, ArmedAndCleared
  <2> HIDE DEF c
  <2>3. f2.remConf => Good(c)
    BY <1>2, <2>1, <2>2 DEF Believes
  <2>4. f3 = IF f2.remReq /\ f2.remConf THEN c ELSE f2
    BY DEF c
  <2> QED BY <1>2, <2>2, <2>3, <2>4
<1>4. f4 \in FirmwareState /\ Good(f4)
  <2> DEFINE h == [f3 EXCEPT !.suppressed = FALSE]
  <2>1. h \in FirmwareState /\ Journal(h) = Journal(f3)
    <3> HIDE DEF f3
    <3>1. h \in FirmwareState
      BY <1>3 DEF FirmwareState
    <3>2. Journal(h) = Journal(f3)
      BY <1>3 DEF Journal, FirmwareState
    <3> QED BY <3>1, <3>2
  <2>2. Good(h)
    <3> HIDE DEF f3, h
    <3> QED BY <1>3, <2>1 DEF Journal, JournalOK, Believes
  <2>3. f4 \in {h, f3}
    BY Zenon
  <2> HIDE DEF f3, f4, h, Good
  <2> QED BY <1>3, <2>1, <2>2, <2>3
<1>5. Good(NewlyMuted(f4))
  <2> HIDE DEF f4
  <2> QED BY <1>4, NewlyMutedKeepsJournal DEF Journal, JournalOK, Believes
<1>6. HeardMuted(fw, ok) \in {f4, NewlyMuted(f4)}
  BY Zenon DEF HeardMuted
<1> HIDE DEF f4
<1> QED BY <1>4, <1>5, <1>6

(* observeMute() keeps the journal right, whether or not its write to NVS   *)
(* succeeds, and erases the key only for a mute that was to be confirmed.   *)
LEMMA observeMuteKeepsOK ==
  ASSUME NEW fw \in FirmwareState, JournalOK(fw), NEW muted \in BOOLEAN, NEW ok \in BOOLEAN
  PROVE  /\ JournalOK(observeMute(fw, muted, ok))
         /\ Believes(observeMute(fw, muted, ok), fw, muted)
         /\ (fw.nv /\ ~(muted /\ fw.remConf)) => observeMute(fw, muted, ok).nv
<1>1. CASE muted
  BY <1>1, HeardMutedKeepsOK DEF observeMute
<1>2. CASE ~muted
  <2>1. observeMute(fw, muted, ok) = HeardUnmuted(fw)
    BY <1>2 DEF observeMute
  <2>2. Owed(HeardUnmuted(fw)) = Owed(fw) /\ Believes(HeardUnmuted(fw), fw, FALSE)
    BY HeardUnmutedKeepsJournal
  <2> QED BY <1>2, <2>1, <2>2, JournalIsEnough DEF Owed, Believes
<1> QED BY <1>1, <1>2

-----------------------------------------------------------------------------
(* Volume reports and the edges of the link leave the journal alone.        *)

(* A change of the session alone does not touch the journal.                *)
LEMMA TargetUpdateKeepsJournal ==
  ASSUME NEW fw \in FirmwareState, NEW s
  PROVE  Journal([fw EXCEPT !.t = s]) = Journal(fw)
  BY DEF Journal, FirmwareState

(* Noting a level or a phase does not touch the journal.                    *)
LEMMA ObservedKeepsJournal ==
  ASSUME NEW fw \in FirmwareState, NEW raw
  PROVE  /\ Journal([fw EXCEPT !.t.obs = raw]) = Journal(fw)
         /\ Journal([fw EXCEPT !.t.phase = "ready"]) = Journal(fw)
         /\ Journal(Settling(fw, raw)) = Journal(fw)
<1>1. Journal([fw EXCEPT !.t.obs = raw]) = Journal(fw)
  BY DEF Journal, FirmwareState
<1>2. Journal([fw EXCEPT !.t.phase = "ready"]) = Journal(fw)
  BY DEF Journal, FirmwareState
<1>3. Journal(Settling(fw, raw)) = Journal(fw)
  BY DEF Settling, Journal, FirmwareState
<1> QED BY <1>1, <1>2, <1>3

(* Reaching the target does not touch the journal.                          *)
LEMMA AtTargetOrReadyKeepsJournal ==
  ASSUME NEW fw \in FirmwareState, NEW raw
  PROVE  Journal(AtTargetOrReady(fw, raw)) = Journal(fw)
  BY SessionKeepsJournal, ObservedKeepsJournal, Zenon DEF AtTargetOrReady

(* The first report after a click does not touch the journal.               *)
LEMMA MovementSeenKeepsJournal ==
  ASSUME NEW fw \in FirmwareState, NEW raw
  PROVE  Journal(MovementSeen(fw, raw)) = Journal(fw)
<1>1. \/ MovementSeen(fw, raw) \in {fw, failVolumeRestore(fw)}
      \/ \E s : MovementSeen(fw, raw) = [fw EXCEPT !.t = s]
  BY Zenon DEF MovementSeen
<1> QED BY <1>1, SessionKeepsJournal, TargetUpdateKeepsJournal

(* A report in the middle of a burst does not touch the journal.            *)
LEMMA MovementDuringBurstKeepsJournal ==
  ASSUME NEW fw \in FirmwareState, NEW raw \in Level
  PROVE  Journal(MovementDuringBurst(fw, raw)) = Journal(fw)
<1> DEFINE g  == Settling(fw, raw)
           h1 == [g EXCEPT !.t.ext = FALSE, !.t.burst = TRUE]
           h2 == [g EXCEPT !.t.coarse = FALSE, !.t.planned = fw.t.sent]
           h3 == [fw EXCEPT !.t.obs = raw]
<1>1. g \in FirmwareState /\ Journal(g) = Journal(fw)
  BY SettlingType, ObservedKeepsJournal
<1>2. Journal(h1) = Journal(g) /\ Journal(h2) = Journal(g)
  <2> HIDE DEF g
  <2>1. Journal(h1) = Journal(g)
    BY <1>1 DEF Journal, FirmwareState
  <2>2. Journal(h2) = Journal(g)
    BY <1>1 DEF Journal, FirmwareState
  <2> QED BY <2>1, <2>2
<1>3. MovementDuringBurst(fw, raw) \in {fw, failVolumeRestore(fw), h1, h2, h3}
  BY Zenon DEF MovementDuringBurst
<1>4. Journal(h3) = Journal(fw) /\ Journal(failVolumeRestore(fw)) = Journal(fw)
  BY ObservedKeepsJournal, SessionKeepsJournal
<1> HIDE DEF g, h1, h2, h3
<1> QED BY <1>1, <1>2, <1>3, <1>4

(* A confirmed level does not touch the journal.                            *)
LEMMA ConfirmationSeenKeepsJournal ==
  ASSUME NEW fw \in FirmwareState, NEW raw \in Level
  PROVE  Journal(ConfirmationSeen(fw, raw)) = Journal(fw)
<1> DEFINE t      == fw.t
           moved  == Distance(raw, t.start)
           past   == volumeDirection(raw, t.target) \notin {0, t.dir}
           g      == [fw EXCEPT !.t.delta = moved, !.t.clicks = t.sent, !.t.burst = FALSE,
                               !.t.coarse = @ /\ ~past]
<1>1. g \in FirmwareState /\ Journal(g) = Journal(fw)
  <2> DEFINE coarse == t.coarse /\ ~past
             s      == [t EXCEPT !.delta = moved, !.clicks = t.sent, !.burst = FALSE,
                                 !.coarse = coarse]
  <2>1. g = [fw EXCEPT !.t = s]
    <3> HIDE DEF moved, past
    <3> QED BY Zenon
  <2>2. t \in Session /\ t.start \in MaybeLevel /\ t.sent \in 0..MaxClicks \cup {1}
    BY DEF FirmwareState, Session
  <2>3. moved \in Nat /\ coarse \in BOOLEAN
    <3>1. moved \in Nat
      <4> HIDE DEF t
      <4> QED BY <2>2, DistanceType DEF MaybeLevel
    <3>2. coarse \in BOOLEAN
      BY Zenon
    <3> QED BY <3>1, <3>2
  <2>4. s \in Session
    <3> HIDE DEF t, moved, coarse
    <3> QED BY <2>2, <2>3 DEF Session
  <2> HIDE DEF s, g
  <2> QED BY <2>1, <2>4, SessionUpdate, TargetUpdateKeepsJournal
<1>2. ConfirmationSeen(fw, raw) \in {Settling(fw, raw), AtTargetOrReady(fw, raw),
                                    failVolumeRestore(fw), AtTargetOrReady(g, raw)}
  BY Zenon DEF ConfirmationSeen
<1>3. Journal(Settling(fw, raw)) = Journal(fw)
  BY ObservedKeepsJournal
<1> HIDE DEF g
<1> QED BY <1>1, <1>2, <1>3, AtTargetOrReadyKeepsJournal, SessionKeepsJournal

(* No volume report touches the journal while a target is set.              *)
LEMMA TargetFeedbackKeepsJournal ==
  ASSUME NEW fw \in FirmwareState, NEW raw \in Level
  PROVE  Journal(TargetFeedback(fw, raw)) = Journal(fw)
<1> DEFINE g == [fw EXCEPT !.t.obs = raw]
<1>1. g \in FirmwareState /\ Journal(g) = Journal(fw)
  BY ObservedType, PhaseValues, ObservedKeepsJournal
<1>2. Journal(AtTargetOrReady(g, raw)) = Journal(fw)
  <2> HIDE DEF g
  <2> QED BY <1>1, AtTargetOrReadyKeepsJournal
<1>3. Journal(Settling(fw, raw)) = Journal(fw) /\ Journal(failVolumeRestore(fw)) = Journal(fw)
  BY ObservedKeepsJournal, SessionKeepsJournal
<1> QED BY <1>1, <1>2, <1>3, MovementSeenKeepsJournal, MovementDuringBurstKeepsJournal,
           ConfirmationSeenKeepsJournal DEF TargetFeedback, StillMoving

(* No volume report touches the journal while no target is set.             *)
LEMMA IdleFeedbackKeepsJournal ==
  ASSUME NEW fw \in FirmwareState, NEW raw \in Level
  PROVE  Journal(IdleFeedback(fw, raw)) = Journal(fw)
<1> DEFINE g == invalidateReconnectRestore(fw)
           h == [g EXCEPT !.suppressed = FALSE, !.failRaw = None, !.quiet = TRUE]
           x == [fw EXCEPT !.failRaw = raw]
           y == [fw EXCEPT !.failRaw = raw, !.quiet = FALSE]
<1>1. g \in FirmwareState /\ Journal(g) = Journal(fw)
  BY invalidateReconnectRestoreType, CreditKeepsJournal
<1>2. h \in FirmwareState /\ Journal(h) = Journal(g)
  <2> HIDE DEF g
  <2>1. h \in FirmwareState
    BY <1>1, EmptyValues DEF FirmwareState
  <2>2. Journal(h) = Journal(g)
    BY <1>1 DEF Journal, FirmwareState
  <2> QED BY <2>1, <2>2
<1>3. ASSUME NEW k \in FirmwareState PROVE Journal(Learn(k, raw)) = Journal(k)
  BY RowsKeepJournal, Zenon DEF Learn
<1>4. Journal(x) = Journal(fw) /\ Journal(y) = Journal(fw)
  <2>1. Journal(x) = Journal(fw)
    BY DEF Journal, FirmwareState
  <2>2. Journal(y) = Journal(fw)
    BY DEF Journal, FirmwareState
  <2> QED BY <2>1, <2>2
<1>5. IdleFeedback(fw, raw) \in {Learn(fw, raw), Learn(h, raw), fw, x, y}
  BY Zenon DEF IdleFeedback
<1> HIDE DEF g, h, x, y
<1> QED BY <1>1, <1>2, <1>3, <1>4, <1>5

(* observeVolume() does not touch the journal: at most it asks for the mute *)
(* to be confirmed again.                                                   *)
LEMMA observeVolumeKeepsJournal ==
  ASSUME NEW fw \in FirmwareState, NEW raw \in Level
  PROVE  \/ Journal(observeVolume(fw, raw)) = Journal(fw)
         \/ Journal(observeVolume(fw, raw)) = Journal([fw EXCEPT !.remConf = FALSE])
<1> DEFINE v == [fw EXCEPT !.vol = raw]
           n == NoteRemuteFeedback(v, raw)
           g == ReleaseMuteLock(n, raw)
<1>1. v \in FirmwareState /\ Journal(v) = Journal(fw)
  <2>1. v \in FirmwareState
    BY DEF FirmwareState, MaybeLevel
  <2>2. Journal(v) = Journal(fw)
    BY DEF Journal, FirmwareState
  <2> QED BY <2>1, <2>2
<1>2. /\ n \in FirmwareState
      /\ \/ Journal(n) = Journal(fw)
         \/ Journal(n) = Journal([fw EXCEPT !.remConf = FALSE])
  <2> HIDE DEF v
  <2> DEFINE k == [v EXCEPT !.remBase = raw, !.remConf = FALSE]
  <2>1. Journal(k) = Journal([fw EXCEPT !.remConf = FALSE])
    BY <1>1 DEF Journal, FirmwareState
  <2>2. n \in {v, k}
    BY Zenon DEF NoteRemuteFeedback
  <2>3. n \in FirmwareState
    BY <1>1, NoteRemuteFeedbackType
  <2> HIDE DEF k, n
  <2> QED BY <1>1, <2>1, <2>2, <2>3
<1>3. g \in FirmwareState /\ Journal(g) = Journal(n)
  <2> HIDE DEF n
  <2>1. Journal([n EXCEPT !.lockRaw = raw]) = Journal(n)
    BY <1>2 DEF Journal, FirmwareState
  <2>2. Journal(clearManualMuteLock(n)) = Journal(n)
    BY <1>2, clearManualMuteLockKeepsJournal
  <2>3. g \in FirmwareState
    BY <1>2, ReleaseMuteLockType
  <2>4. Journal(ReleaseMuteLock(n, raw)) = Journal(n)
    BY <2>1, <2>2, Zenon DEF ReleaseMuteLock
  <2> QED BY <2>3, <2>4
<1>4. observeVolume(fw, raw) \in {TargetFeedback(g, raw), IdleFeedback(g, raw)}
  BY Zenon DEF observeVolume
<1> HIDE DEF v, n, g
<1> QED BY <1>1, <1>2, <1>3, <1>4, TargetFeedbackKeepsJournal, IdleFeedbackKeepsJournal

(* A reconnection does not touch the journal.                               *)
LEMMA ConnectEdgeKeepsJournal ==
  ASSUME NEW fw \in FirmwareState
  PROVE  Forgets(ConnectEdge(fw), fw)
<1> DEFINE g == [fw EXCEPT !.was = TRUE, !.sess = FALSE, !.vol = None, !.muteKnown = FALSE]
<1>1. g \in FirmwareState
  BY EmptyValues DEF FirmwareState
<1>2. Forgets(g, fw)
  BY DEF Forgets, Owed, FirmwareState
<1>3. ConnectEdge(fw) \in {g, armVolumeTargetSession(g)}
  BY Zenon DEF ConnectEdge
<1> HIDE DEF g
<1> QED BY <1>1, <1>2, <1>3, SessionKeepsJournal DEF Forgets, Owed, Journal

(* A link loss does not touch the journal: only the confirmation is asked   *)
(* for again.                                                               *)
LEMMA DisconnectEdgeKeepsJournal ==
  ASSUME NEW fw \in FirmwareState
  PROVE  Forgets(DisconnectEdge(fw), fw)
<1> DEFINE r == RememberCredit(fw)
           g == [r EXCEPT
                   !.was = FALSE, !.sess = FALSE, !.vol = None, !.muteKnown = FALSE,
                   !.curAuth = "none", !.pendAuth = "none", !.pendAllowed = FALSE,
                   !.pendReconnect = None]
           h == [g EXCEPT !.remConf = FALSE]
           c == cancelVolumeRestore(h)
           d == [c EXCEPT !.suppressed = TRUE, !.failRaw = None, !.quiet = FALSE]
<1>1. r \in FirmwareState /\ Journal(r) = Journal(fw)
  <2>1. Journal(r) = Journal(fw)
    BY rememberReconnectRestoreKeepsJournal, Zenon DEF RememberCredit
  <2> QED BY <2>1, RememberCreditType
<1>2. g \in FirmwareState /\ Forgets(g, r)
  <2> HIDE DEF r
  <2>1. g \in FirmwareState
    BY <1>1, EmptyValues, AuthorityValues DEF FirmwareState
  <2>2. Forgets(g, r)
    BY <1>1 DEF Forgets, Owed, FirmwareState
  <2> QED BY <2>1, <2>2
<1>3. h \in FirmwareState /\ Forgets(h, r)
  <2> HIDE DEF g
  <2>1. h \in FirmwareState
    BY <1>2 DEF FirmwareState
  <2>2. Forgets(h, r)
    BY <1>2 DEF Forgets, Owed, FirmwareState
  <2> QED BY <2>1, <2>2
<1>4. c \in FirmwareState /\ Journal(c) = Journal(h)
  <2> HIDE DEF h
  <2> QED BY <1>3, cancelVolumeRestoreType, SessionKeepsJournal
<1>5. Journal(d) = Journal(c)
  <2> HIDE DEF c
  <2> QED BY <1>4 DEF Journal, FirmwareState
<1>6. DisconnectEdge(fw) \in {pauseVolumeTargetSession(g), c, d}
  BY Zenon DEF DisconnectEdge
<1> HIDE DEF r, g, h, c, d
<1> QED BY <1>1, <1>2, <1>3, <1>4, <1>5, <1>6, SessionKeepsJournal DEF Forgets, Owed, Journal

-----------------------------------------------------------------------------
(* The actions.                                                             *)

(* A step of the firmware that leaves the journal alone keeps it right.     *)
LEMMA KeptByBecomes ==
  ASSUME StaysOK(f, f), NEW g, Becomes(g),
         Journal(g) = Journal(f) \/ Forgets(g, f)
  PROVE  StaysOK(f', f)
  BY UnheardIsEnough DEF Becomes

(* The HTTP handlers keep the journal right.                                *)
LEMMA RequestsKeepOK ==
  ASSUME TypeOK, StaysOK(f, f), HomeAssistant \/ WebUser
  PROVE  StaysOK(f', f)
<1>f. f \in FirmwareState /\ ha.app \in MaybeApp /\ ha.last \in MaybeApp /\ ha.event \in EventId
  BY DEF TypeOK, Request
<1>r. ASSUME NEW a \in MaybeApp, NEW kind, NEW e \in EventId, NEW reauth \in BOOLEAN,
             f' = Received(a, kind, e, reauth)
      PROVE  StaysOK(f', f)
  <2>1. f' \in {f, invalidateReconnectRestore(f), queueAppCandidate(f, a, kind, e, reauth)}
    BY <1>r, Zenon DEF Received
  <2> QED BY <1>f, <2>1, CreditKeepsJournal, queueAppCandidateKeepsJournal, UnheardIsEnough
<1>1. ASSUME NEW a \in Apps, ReceiveIdle(a) \/ ReceiveActive(a) PROVE StaysOK(f', f)
  <2>1. a \in MaybeApp /\ 0 \in EventId
    BY EmptyValues DEF MaybeApp
  <2>2. CASE ReceiveIdle(a)
    <3>1. used.idle + 1 \in EventId
      <4>1. "idle" \in DOMAIN Bound /\ Bound["idle"] = MaxIdle
        BY DEF Bound
      <4>2. used["idle"] \in Nat /\ used["idle"] < MaxIdle
        BY <2>2, <4>1 DEF ReceiveIdle, Use, TypeOK
      <4> QED BY <4>2, ControllerAssumption, FirmwareAssumption DEF EventId
    <3> QED BY <1>r, <2>1, <2>2, <3>1 DEF ReceiveIdle
  <2>3. CASE ReceiveActive(a)
    BY <1>r, <2>1, <2>3 DEF ReceiveActive
  <2> QED BY <1>1, <2>2, <2>3
<1>2. ASSUME NEW reauth \in BOOLEAN, ReceiveAgain(reauth) PROVE StaysOK(f', f)
  BY <1>f, <1>r, <1>2 DEF ReceiveAgain
<1>3. CASE ReceiveRevocation
  BY <1>f, <1>r, <1>3, EmptyValues DEF ReceiveRevocation
<1>4. CASE ReceiveClear
  BY <1>f, <1>4, clearCurrentAppKeepsJournal, UnheardIsEnough DEF ReceiveClear
<1>5. CASE ReceiveIgnored
  BY <1>f, <1>5, CreditKeepsJournal, UnheardIsEnough DEF ReceiveIgnored
<1>6. ASSUME NEW up \in BOOLEAN, SendVolume(up) PROVE StaysOK(f', f)
  <2> DEFINE dir == IF up THEN 1 ELSE -1
             g   == invalidateReconnectRestore(f)
             h   == acceptManualVolumeFeedback(g, dir)
  <2>1. g \in FirmwareState /\ Journal(g) = Journal(f)
    BY <1>f, invalidateReconnectRestoreType, CreditKeepsJournal
  <2>2. h \in FirmwareState /\ Journal(h) = Journal(g)
    <3>1. dir \in Direction
      BY DEF Direction
    <3> HIDE DEF g, dir
    <3> QED BY <2>1, <3>1, acceptManualVolumeFeedbackType, acceptManualKeepsJournal
  <2>3. f' = cancelVolumeRestore(h)
    BY <1>6 DEF SendVolume
  <2> HIDE DEF g, h
  <2> QED BY <2>1, <2>2, <2>3, SessionKeepsJournal, UnheardIsEnough
<1>7. ASSUME NEW level \in Level, SendTargetVolume(level) PROVE StaysOK(f', f)
  <2> DEFINE dir == volumeDirection(f.vol, level)
             g   == acceptManualVolumeFeedback(f, dir)
             h   == setVolume(g, level, FALSE)
  <2>1. g \in FirmwareState /\ Journal(g) = Journal(f)
    BY <1>f, DirectionType, acceptManualVolumeFeedbackType, acceptManualKeepsJournal
  <2>2. h \in FirmwareState /\ Journal(h) = Journal(g)
    <3>1. level \in MaybeLevel
      BY DEF MaybeLevel
    <3> HIDE DEF g
    <3> QED BY <2>1, <3>1, setVolumeType, setVolumeKeepsJournal
  <2>3. f' = invalidateReconnectRestore(h)
    BY <1>7 DEF SendTargetVolume
  <2> HIDE DEF g, h
  <2> QED BY <2>1, <2>2, <2>3, CreditKeepsJournal, UnheardIsEnough
<1> QED BY <1>1, <1>2, <1>3, <1>4, <1>5, <1>6, <1>7 DEF HomeAssistant, WebUser

(* Reading a packet keeps the journal right, also when a write to NVS       *)
(* fails; it believes what a mute report says, and learns nothing of the    *)
(* mute from a volume report.                                               *)
LEMMA ReadDenonKeepsOK ==
  ASSUME TypeOK, JournalOK(f), ReadDenon
  PROVE  /\ JournalOK(f')
         /\ f'.remConf => f.remConf
         /\ Head(fromRx).kind = "volume" => Unheard(f', f)
         /\ Head(fromRx).kind = "mute" =>
              /\ f'.muteKnown /\ f'.muted = Head(fromRx).on
              /\ (f.nv /\ ~(Head(fromRx).on /\ f.remConf)) => f'.nv
<1> DEFINE r == Head(fromRx)
<1>f. f \in FirmwareState
  BY DEF TypeOK
<1>1. r \in Report
  BY HeadTailProperties DEF ReadDenon, TypeOK
<1>2. CASE r.kind = "volume"
  <2>1. r.raw \in Level
    <3> HIDE DEF r
    <3> QED BY <1>1, <1>2 DEF Report
  <2>2. f' = observeVolume(f, r.raw)
    BY <1>2 DEF ReadDenon
  <2>3. Journal(f') \in {Journal(f), Journal([f EXCEPT !.remConf = FALSE])}
    BY <1>f, <2>1, <2>2, observeVolumeKeepsJournal
  <2>4. StaysOK([f EXCEPT !.remConf = FALSE], f) /\ StaysOK(f, f)
    BY <1>f DEF StaysOK, JournalOK, Unheard, FirmwareState
  <2>5. StaysOK(f', f)
    BY <2>3, <2>4, UnheardIsEnough
  <2> QED BY <1>2, <2>5 DEF StaysOK, Unheard
<1>3. CASE r.kind # "volume"
  <2>1. r.on \in BOOLEAN
    <3> HIDE DEF r
    <3> QED BY <1>1, <1>3 DEF Report
  <2>2. f' \in {observeMute(f, r.on, TRUE), observeMute(f, r.on, FALSE)}
    BY <1>3 DEF ReadDenon
  <2>3. /\ JournalOK(f') /\ Believes(f', f, r.on)
        /\ (f.nv /\ ~(r.on /\ f.remConf)) => f'.nv
    <3> HIDE DEF r
    <3> QED BY <1>f, <2>1, <2>2, observeMuteKeepsOK
  <2> QED BY <1>3, <2>3 DEF Believes
<1> QED BY <1>2, <1>3

(* Writing the key before the unmuting click keeps the journal right, also  *)
(* when the write or the click fails.                                       *)
LEMMA StartMuteCycleKeepsOK ==
  ASSUME TypeOK, StaysOK(f, f), StartMuteCycle
  PROVE  /\ StaysOK(f', f)
         /\ toRx' # toRx => f'.nv
<1> DEFINE dir    == volumeDirection(f.vol, f.t.target)
           clicks == volumeRapidClickCount(Distance(f.vol, f.t.target), 0, 0)
           armed  == armAutomaticRemuteRecovery(f, TRUE)
           unset  == armAutomaticRemuteRecovery(f, FALSE)
           done   == [armed EXCEPT !.muteKnown = FALSE,
                         !.t = Clicked([armed.t EXCEPT !.obs = f.vol], f.vol, dir, clicks)]
<1>f. f \in FirmwareState
  BY DEF TypeOK
<1>1. /\ armed \in FirmwareState /\ StaysOK(armed, f) /\ armed.nv
      /\ unset \in FirmwareState /\ StaysOK(unset, f)
  <2>1. \A ok \in BOOLEAN : LET g == armAutomaticRemuteRecovery(f, ok)
                           IN g.muteKnown = f.muteKnown /\ g.muted = f.muted
    BY <1>f DEF armAutomaticRemuteRecovery, FirmwareState
  <2>w. \A ok \in BOOLEAN : armAutomaticRemuteRecovery(f, ok).was = f.was
    BY <1>f DEF armAutomaticRemuteRecovery, FirmwareState
  <2> HIDE DEF armed, unset
  <2>2. /\ JournalOK(armed) /\ ~armed.remConf /\ armed.nv
        /\ JournalOK(unset) /\ ~unset.remConf /\ (f.nv => unset.nv)
    BY <1>f, ArmedAndCleared DEF StaysOK, armed, unset
  <2>3. armed \in FirmwareState /\ unset \in FirmwareState
    BY <1>f, armAutomaticRemuteRecoveryType DEF armed, unset
  <2> QED BY <2>1, <2>w, <2>2, <2>3 DEF StaysOK, Unheard, armed, unset
<1>2. StaysOK(failVolumeRestore(armed), f) /\ StaysOK(failVolumeRestore(unset), f)
  <2> HIDE DEF armed, unset
  <2> QED BY <1>1, SessionKeepsJournal, UnheardIsEnough
<1>3. StaysOK(done, f) /\ done.nv
  <2>1. ASSUME NEW s
        PROVE  LET g == [armed EXCEPT !.muteKnown = FALSE, !.t = s]
               IN Forgets(g, armed) /\ g.nv = armed.nv
    <3> HIDE DEF armed
    <3> QED BY <1>1 DEF Forgets, Owed, FirmwareState
  <2>2. Forgets(done, armed) /\ done.nv = armed.nv
    <3> HIDE DEF armed
    <3> QED BY <2>1
  <2> HIDE DEF done, armed
  <2> QED BY <1>1, <2>2, UnheardIsEnough
<1>4. StaysOK(failVolumeRestore(f), f) /\ StaysOK(completeVolumeRestore(f), f)
  BY <1>f, SessionKeepsJournal, UnheardIsEnough
<1>5. \/ Becomes(failVolumeRestore(f)) \/ Becomes(completeVolumeRestore(f))
      \/ Sends(<<Click(dir > 0, f.t.target, NoApp)>>, done, failVolumeRestore(armed))
      \/ f' = failVolumeRestore(unset) /\ toRx' = toRx
  BY Zenon DEF StartMuteCycle
<1> HIDE DEF done, armed, unset, dir
<1> QED BY <1>2, <1>3, <1>4, <1>5 DEF Becomes, Sends

(* The rest of the loop and of the world never touches the journal.         *)
LEMMA RestKeepsOK ==
  ASSUME TypeOK, StaysOK(f, f),
         \/ maintainManualMuteLock \/ maintainAppSwitch \/ SeesConnected
         \/ SeesDisconnected \/ StatusPoll \/ RestoreDeadline
         \/ RequestFreshStatus \/ ResponseTimeout \/ LeaseEnds
         \/ BurstClick \/ RequestMovementStatus \/ Settled \/ NextClick
         \/ LeaseExpires \/ LearningCooldownEnds
  PROVE  StaysOK(f', f)
<1>f. f \in FirmwareState
  BY DEF TypeOK
<1>e. /\ StaysOK(failVolumeRestore(f), f) /\ StaysOK(completeVolumeRestore(f), f)
  BY <1>f, SessionKeepsJournal, UnheardIsEnough
<1>t. ASSUME NEW s PROVE StaysOK([f EXCEPT !.t = s], f)
  BY <1>f, TargetUpdateKeepsJournal, UnheardIsEnough
<1>p. ASSUME NEW p PROVE StaysOK([f EXCEPT !.t.phase = p], f)
  <2>1. Journal([f EXCEPT !.t.phase = p]) = Journal(f)
    BY <1>f DEF Journal, FirmwareState
  <2> QED BY <2>1, UnheardIsEnough
<1>1. CASE maintainManualMuteLock
  <2>1. Journal([f EXCEPT !.autoFb = FALSE, !.lockRaw = f.vol]) = Journal(f)
    BY <1>f DEF Journal, FirmwareState
  <2> QED BY <1>f, <1>1, <2>1, KeptByBecomes DEF maintainManualMuteLock
<1>2. CASE maintainAppSwitch
  BY <1>f, <1>2, activatePendingAppKeepsJournal, KeptByBecomes DEF maintainAppSwitch
<1>3. CASE SeesConnected \/ SeesDisconnected
  BY <1>f, <1>3, ConnectEdgeKeepsJournal, DisconnectEdgeKeepsJournal, KeptByBecomes
     DEF SeesConnected, SeesDisconnected
<1>4. CASE StatusPoll
  <2>1. StaysOK([f EXCEPT !.sess = TRUE], f)
    <3>1. Journal([f EXCEPT !.sess = TRUE]) = Journal(f)
      BY <1>f DEF Journal, FirmwareState
    <3> QED BY <3>1, UnheardIsEnough
  <2> QED BY <1>4, <2>1 DEF StatusPoll, Sends
<1>5. CASE RestoreDeadline \/ ResponseTimeout
  BY <1>e, <1>5 DEF RestoreDeadline, ResponseTimeout, Becomes
<1>6. CASE RequestFreshStatus
  BY <1>e, <1>p, <1>6 DEF RequestFreshStatus, Sends
<1>7. CASE LeaseEnds
  BY <1>e, <1>7 DEF LeaseEnds, Becomes
<1>8. CASE BurstClick
  <2>1. ASSUME NEW s PROVE StaysOK(failVolumeRestore([f EXCEPT !.t = s]), f) \/ s \notin Session
    <3>1. CASE s \in Session
      <4> DEFINE g == [f EXCEPT !.t = s]
      <4>1. g \in FirmwareState /\ StaysOK(g, f)
        BY <1>f, <1>t, <3>1, SessionUpdate
      <4> HIDE DEF g
      <4>2. StaysOK(failVolumeRestore(g), f)
        BY <4>1, SessionKeepsJournal, UnheardIsEnough
      <4> QED BY <4>2 DEF g
    <3> QED BY <3>1
  <2> DEFINE t == IF f.t.ext
                  THEN [f.t EXCEPT !.burst = TRUE, !.start = f.t.obs, !.planned = 1,
                                   !.sent = 0, !.ext = FALSE]
                  ELSE f.t
  <2>2. t \in Session
    <3>1. f.t \in Session
      BY <1>f DEF FirmwareState
    <3>2. f.t.obs \in MaybeLevel /\ 0 \in 0..MaxClicks \cup {1} /\ 1 \in 0..MaxClicks \cup {1}
      BY <3>1, VolumeAssumption DEF Session
    <3>3. [f.t EXCEPT !.burst = TRUE, !.start = f.t.obs, !.planned = 1, !.sent = 0,
                      !.ext = FALSE] \in Session
      BY <3>1, <3>2 DEF Session
    <3> QED BY <3>1, <3>3
  <2>3. \/ f' \in {failVolumeRestore(f), failVolumeRestore([f EXCEPT !.t = t])}
        \/ \E s : f' = [f EXCEPT !.t = s]
        \/ f' = [f EXCEPT !.t.phase = "waitMovement"]
    BY <1>8, Zenon DEF BurstClick, Becomes, Sends
  <2> HIDE DEF t
  <2> QED BY <1>e, <1>p, <1>t, <2>1, <2>2, <2>3
<1>9. CASE RequestMovementStatus \/ Settled
  BY <1>e, <1>p, <1>9 DEF RequestMovementStatus, Settled, Becomes, Sends
<1>10. CASE NextClick
  <2>1. \/ f' \in {failVolumeRestore(f), completeVolumeRestore(f)}
        \/ \E s : f' = [f EXCEPT !.t = s]
    BY <1>10, Zenon DEF NextClick, Becomes, Sends
  <2> QED BY <1>e, <1>t, <2>1
<1>11. CASE LeaseExpires \/ LearningCooldownEnds
  <2>1. /\ Journal([f EXCEPT !.curAuth = "stale"]) = Journal(f)
        /\ Journal([f EXCEPT !.pendAuth = "stale"]) = Journal(f)
        /\ Journal([f EXCEPT !.quiet = TRUE]) = Journal(f)
    BY <1>f DEF Journal, FirmwareState
  <2> QED BY <1>f, <1>11, <2>1, KeptByBecomes DEF LeaseExpires, LearningCooldownEnds
<1> QED BY <1>1, <1>2, <1>3, <1>4, <1>5, <1>6, <1>7, <1>8, <1>9, <1>10, <1>11

(* The mute is sent again, and what was known of it forgotten.              *)
LEMMA RemuteKeepsOK ==
  ASSUME TypeOK, JournalOK(f), maintainAutomaticRemute
  PROVE  /\ JournalOK(f')
         /\ \/ f' = f /\ toRx' = toRx
            \/ ~f'.muteKnown /\ f'.nv = f.nv /\ toRx' = toRx \o <<MuteOn>>
<1> DEFINE g == [f EXCEPT !.remConf = TRUE, !.muteKnown = FALSE]
<1>1. Owed(g) = Owed(f) /\ ~g.muteKnown /\ g.nv = f.nv
  BY DEF Owed, TypeOK, FirmwareState
<1>2. \/ f' = f /\ toRx' = toRx
      \/ f' = g /\ toRx' = toRx \o <<MuteOn>>
  BY DEF maintainAutomaticRemute, Sends
<1> HIDE DEF g
<1> QED BY <1>1, <1>2, JournalIsEnough

(* After a power loss RAM takes over what the key says; the rest of the     *)
(* world does not touch it.                                                 *)
LEMMA WorldKeepsOK ==
  ASSUME StaysOK(f, f), \/ ReceiverObeys \/ UseRemote \/ LinkUp \/ LinkDown \/ PowerLoss
  PROVE  StaysOK(f', f)
<1>1. CASE ReceiverObeys \/ UseRemote \/ LinkUp \/ LinkDown
  BY <1>1 DEF ReceiverObeys, UseRemote, LinkUp, LinkDown, Outside
<1>2. CASE PowerLoss
  BY <1>2 DEF PowerLoss, Boot, StaysOK, JournalOK, Unheard
<1> QED BY <1>1, <1>2

-----------------------------------------------------------------------------
(* After any sequence of reports, updates, commands, failed writes, link    *)
(* losses and restarts, RAM and NVS agree on whether a mute is owed.        *)
THEOREM JournalIsRight == Spec => []JournalMatchesKey
<1>1. Init => JournalMatchesKey
  BY DEF Init, Boot, JournalMatchesKey
<1>2. TypeOK /\ JournalMatchesKey /\ [Next]_vars => JournalMatchesKey'
  <2> SUFFICES ASSUME TypeOK, JournalMatchesKey, [Next]_vars PROVE JournalMatchesKey'
    OBVIOUS
  <2>1. StaysOK(f, f) /\ JournalOK(f)
    BY DEF JournalMatchesKey, StaysOK, JournalOK, Unheard
  <2>2. CASE HomeAssistant \/ WebUser
    BY <2>1, <2>2, RequestsKeepOK DEF JournalMatchesKey, StaysOK, JournalOK
  <2>3. CASE Loop
    BY <2>1, <2>3, ReadDenonKeepsOK, RemuteKeepsOK, StartMuteCycleKeepsOK, RestKeepsOK
       DEF Loop, Restore, JournalMatchesKey, StaysOK, JournalOK
  <2>4. CASE World
    BY <2>1, <2>4, WorldKeepsOK, RestKeepsOK DEF World, JournalMatchesKey, StaysOK, JournalOK
  <2>5. CASE UNCHANGED vars
    BY <2>5 DEF vars, JournalMatchesKey
  <2> QED BY <2>2, <2>3, <2>4, <2>5 DEF Next
<1> QED BY <1>1, <1>2, TypeCorrect, PTL DEF Spec
-----------------------------------------------------------------------------
(* The commands: which step sends a click.                                  *)

(* A poll and a mute are no clicks.                                         *)
LEMMA OnlyClicksAreClicks ==
  ASSUME TypeOK, NEW cmds \in {<<>>, <<GetStatus>>, <<MuteOn>>}, toRx' = toRx \o cmds
  PROVE  ~ClickSent
<1> USE DEF TypeOK
<1>1. CASE cmds = <<>>
  BY <1>1 DEF ClickSent
<1>2. ASSUME NEW c, ~IsClick(c), cmds = <<c>> PROVE ~ClickSent
  <2>1. Len(toRx') = Len(toRx) + 1 /\ toRx'[Len(toRx) + 1] = c
    BY <1>2
  <2>2. Sent[1] = c
    BY <2>1 DEF Sent
  <2> QED BY <1>2, <2>2 DEF ClickSent
<1>3. ~IsClick(GetStatus) /\ ~IsClick(MuteOn)
  BY DEF IsClick, GetStatus, MuteOn
<1> QED BY <1>1, <1>2, <1>3

(* A click is sent while no mute is owed, or by the restore that owes it.   *)
LEMMA ClickNeedsNoDebt ==
  ASSUME TypeOK, Next, ClickSent
  PROVE  ~f.remReq \/ f.t.cycle
<1>l. Len(toRx) \in Nat /\ Len(toRx') > Len(toRx)
  BY DEF TypeOK, ClickSent
<1>s. toRx' # toRx
  BY <1>l
<1>1. ~HomeAssistant
  BY <1>s DEF HomeAssistant, ReceiveIdle, ReceiveAgain, ReceiveActive, ReceiveRevocation,
     ReceiveClear, ReceiveIgnored, AppEnv
<1>2. CASE WebUser
  BY <1>s, <1>2 DEF WebUser, SendVolume, SendTargetVolume, ManualAllowed
<1>3. CASE RestoreDeadline \/ RequestFreshStatus \/ ResponseTimeout \/ StartMuteCycle
           \/ LeaseEnds \/ BurstClick \/ RequestMovementStatus \/ Settled \/ NextClick
  BY <1>3 DEF RestoreDeadline, RequestFreshStatus, ResponseTimeout, StartMuteCycle, LeaseEnds,
     BurstClick, RequestMovementStatus, Settled, NextClick, Driving, RestoreRuns
<1>4. ~maintainAutomaticRemute /\ ~StatusPoll
  BY <1>s, OnlyClicksAreClicks DEF maintainAutomaticRemute, StatusPoll, Sends
<1>5. ~(ReadDenon \/ maintainManualMuteLock \/ maintainAppSwitch \/ SeesConnected
        \/ SeesDisconnected)
  BY <1>s DEF ReadDenon, maintainManualMuteLock, maintainAppSwitch, SeesConnected,
     SeesDisconnected, Becomes
<1>6. ~World
  <2>1. ~(UseRemote \/ LinkUp \/ LeaseExpires \/ LearningCooldownEnds)
    BY <1>s DEF UseRemote, LinkUp, LeaseExpires, LearningCooldownEnds, Becomes
  <2>2. ~(LinkDown \/ PowerLoss)
    BY <1>l DEF LinkDown, PowerLoss
  <2>3. ~ReceiverObeys
    BY <1>l, HeadTailProperties DEF ReceiverObeys, TypeOK
  <2> QED BY <2>1, <2>2, <2>3 DEF World
<1> QED BY <1>1, <1>2, <1>3, <1>4, <1>5, <1>6 DEF Next, Loop, Restore

(* After any sequence of restarts, link losses and failed writes, a mute    *)
(* that the key in NVS says is owed comes before any volume command, except *)
(* for those of the muted restore that owes it.                             *)
THEOREM MuteBeforeClicks == Spec => MuteComesFirst
<1>1. TypeOK /\ JournalMatchesKey /\ [Next]_vars => [ClickSent => ~f.nv \/ f.t.cycle]_vars
  BY ClickNeedsNoDebt DEF JournalMatchesKey
<1> QED BY <1>1, TypeCorrect, JournalIsRight, PTL DEF Spec, MuteComesFirst

-----------------------------------------------------------------------------
(* Retries.                                                                 *)

(* The target runs on as it was, or is over.                                *)
NoNewTarget(g, fw) == g.t.target < 0 \/ (g.t = fw.t /\ g.gen = fw.gen)

(* No lease begins anew, and no candidate is allowed more than it was.      *)
NoNewGrant(g, fw) ==
  /\ g.curAuth = fw.curAuth /\ g.pendAuth \in {fw.pendAuth, "none"}
  /\ \/ g.pend = NoApp \/ ~g.pendAllowed
     \/ g.pend = fw.pend /\ fw.pendAllowed

(* A cancelled target is over.                                              *)
LEMMA CancelledIsOver ==
  ASSUME NEW fw \in FirmwareState
  PROVE  cancelVolumeRestore(fw).t.target < 0
<1> DEFINE a == IF fw.t.target >= 0 THEN advanceVolumeTargetGeneration(fw) ELSE fw
           r == resetVolumeRestore(a)
<1>1. a \in FirmwareState
  BY advanceVolumeTargetGenerationType
<1>2. r \in FirmwareState /\ r.t = NoSession
  <2> HIDE DEF a
  <2>1. r.t = NoSession
    BY <1>1 DEF resetVolumeRestore, FirmwareState
  <2> QED BY <1>1, <2>1, resetVolumeRestoreType
<1>3. completeVolumeRestore(a).t = NoSession
  <2> HIDE DEF a
  <2> QED BY <1>2 DEF completeVolumeRestore, FirmwareState
<1> QED BY <1>3 DEF cancelVolumeRestore, NoSession, None

(* An event that was consumed before is granted nothing: it is a duplicate. *)
LEMMA RepeatIsDuplicate ==
  ASSUME NEW fw \in FirmwareState, NEW a
  PROVE  LET g == Grant(fw, a, "idle", fw.lastEvent, FALSE) IN
         /\ g.duplicate /\ ~g.idle /\ ~g.reconnect /\ ~g.allowed /\ g.auth = "none"
         /\ g.f.t = fw.t /\ g.f.gen = fw.gen /\ g.f.curAuth = fw.curAuth
         /\ g.f.pend = fw.pend /\ g.f.pendAuth \in {fw.pendAuth, "none"}
         /\ g.f.pendAllowed => fw.pendAllowed
<1> DEFINE g    == Grant(fw, a, "idle", fw.lastEvent, FALSE)
           h    == IF fw.pendReconnect >= 0 THEN invalidateReconnectRestore(fw) ELSE fw
           kept == IF h.credit.target >= 0 /\ ~("idle" = "idle"
                        /\ reconnectRestoreMatches(h, a, fw.lastEvent))
                   THEN invalidateReconnectRestore(h) ELSE h
           Less(x, y) == /\ x.t = y.t /\ x.gen = y.gen /\ x.curAuth = y.curAuth
                         /\ x.pend = y.pend /\ x.pendAuth \in {y.pendAuth, "none"}
                         /\ x.pendAllowed => y.pendAllowed
<1>1. ASSUME NEW x \in FirmwareState
      PROVE  Less(invalidateReconnectRestore(x), x)
  BY DEF invalidateReconnectRestore, FirmwareState
<1>2. h \in FirmwareState /\ Less(h, fw)
  BY <1>1, invalidateReconnectRestoreType
<1>3. Less(kept, fw)
  <2> HIDE DEF h
  <2> QED BY <1>1, <1>2
<1>4. /\ g.duplicate /\ ~g.idle /\ ~g.reconnect /\ ~g.allowed /\ g.auth = "none"
      /\ g.f = kept
  <2> HIDE DEF h
  <2> QED BY DEF Grant, h
<1> QED BY <1>3, <1>4

(* Whatever the app that a retry names is to the firmware by then, the      *)
(* target goes on as it was or is over, and nothing is granted.             *)
LEMMA RepeatIsNoStart ==
  ASSUME NEW fw \in FirmwareState, NEW a \in MaybeApp
  PROVE  LET q == queueAppCandidate(fw, a, "idle", fw.lastEvent, FALSE)
         IN  NoNewTarget(q, fw) /\ NoNewGrant(q, fw)
<1> DEFINE g  == Grant(fw, a, "idle", fw.lastEvent, FALSE)
           x  == g.f
           f1 == [x EXCEPT !.pend = NoApp, !.pendAllowed = TRUE, !.pendReconnect = None,
                           !.curAuth = IF g.duplicate THEN @ ELSE g.auth]
           s1 == SaveOutgoing(x)
           f2 == IF s1.t.target < 0 \/ s1.t.auto THEN cancelVolumeRestore(s1) ELSE s1
           f3 == [f2 EXCEPT !.pend = a]
           f4 == [f3 EXCEPT !.pendAuth = g.auth, !.pendAllowed = g.allowed,
                      !.pendReconnect = IF g.reconnect THEN f3.credit.target ELSE None]
<1>1. /\ g.duplicate /\ ~g.idle /\ ~g.reconnect /\ ~g.allowed /\ g.auth = "none"
      /\ x \in FirmwareState /\ x.t = fw.t /\ x.gen = fw.gen /\ x.curAuth = fw.curAuth
      /\ x.pend = fw.pend /\ x.pendAuth \in {fw.pendAuth, "none"}
      /\ x.pendAllowed => fw.pendAllowed
  <2>1. fw.lastEvent \in EventId
    BY DEF FirmwareState
  <2>2. g \in Granted
    BY <2>1, GrantType
  <2>3. /\ g.duplicate /\ ~g.idle /\ ~g.reconnect /\ ~g.allowed /\ g.auth = "none"
        /\ g.f.t = fw.t /\ g.f.gen = fw.gen /\ g.f.curAuth = fw.curAuth
        /\ g.f.pend = fw.pend /\ g.f.pendAuth \in {fw.pendAuth, "none"}
        /\ g.f.pendAllowed => fw.pendAllowed
    BY RepeatIsDuplicate, Zenon
  <2> HIDE DEF g
  <2>4. x \in FirmwareState
    BY <2>2 DEF Granted
  <2> QED BY <2>3, <2>4
<1> HIDE DEF g, x
<1>2. /\ f1.t = fw.t /\ f1.gen = fw.gen /\ f1.curAuth = fw.curAuth
      /\ f1.pend = NoApp /\ f1.pendAuth \in {fw.pendAuth, "none"}
  BY <1>1 DEF FirmwareState
<1>3. /\ s1 \in FirmwareState /\ s1.t = fw.t /\ s1.gen = fw.gen
      /\ s1.curAuth = fw.curAuth
  <2>1. ASSUME NEW b, NEW v
        PROVE  LET m == rememberAppVolume(x, b, v)
               IN  m.t = x.t /\ m.gen = x.gen /\ m.curAuth = x.curAuth
    BY <1>1 DEF rememberAppVolume, FirmwareState
  <2>2. s1.t = x.t /\ s1.gen = x.gen /\ s1.curAuth = x.curAuth
    BY <2>1, Zenon DEF SaveOutgoing
  <2> QED BY <1>1, <2>2, SaveOutgoingType
<1>4. f2 \in FirmwareState /\ NoNewTarget(f2, fw) /\ f2.curAuth = fw.curAuth
  <2> HIDE DEF s1
  <2>1. /\ cancelVolumeRestore(s1) \in FirmwareState
        /\ cancelVolumeRestore(s1).t.target < 0
    BY <1>3, cancelVolumeRestoreType, CancelledIsOver
  <2>2. cancelVolumeRestore(s1).curAuth = fw.curAuth
    BY <1>3, EndsAlone DEF SameOwner
  <2> QED BY <1>3, <2>1, <2>2 DEF NoNewTarget
<1>5. /\ f4.t = f2.t /\ f4.gen = f2.gen /\ f4.curAuth = f2.curAuth
      /\ f4.pendAuth = "none" /\ ~f4.pendAllowed
  <2>1. f3.t = f2.t /\ f3.gen = f2.gen /\ f3.curAuth = f2.curAuth /\ f3 \in FirmwareState
    <3> HIDE DEF f2
    <3> QED BY <1>4 DEF FirmwareState
  <2> HIDE DEF f3
  <2> QED BY <1>1, <2>1 DEF FirmwareState
<1>6. UpdateCurrent(g) = f1
  <2> HIDE DEF f1
  <2> QED BY <1>1 DEF UpdateCurrent, f1, x
<1>7. UpdatePending(g) = x
  BY <1>1 DEF UpdatePending, x
<1>8. NewPending(g, a) = f4
  <2> HIDE DEF f2
  <2> QED BY <1>1 DEF NewPending, SetPendingAuthority, f2, s1, x
<1>9. queueAppCandidate(fw, a, "idle", fw.lastEvent, FALSE) \in
        {UpdateCurrent(g), UpdatePending(g), NewPending(g, a)}
  BY Zenon DEF queueAppCandidate, g
<1> HIDE DEF f1, f2, f3, f4, s1
<1>10. NoNewTarget(f1, fw) /\ NoNewTarget(x, fw) /\ NoNewTarget(f4, fw)
  BY <1>1, <1>2, <1>4, <1>5 DEF NoNewTarget
<1>11. NoNewGrant(f1, fw) /\ NoNewGrant(x, fw) /\ NoNewGrant(f4, fw)
  BY <1>1, <1>2, <1>4, <1>5 DEF NoNewGrant
<1> QED BY <1>6, <1>7, <1>8, <1>9, <1>10, <1>11

(* The retry of a request for an event that was consumed before, with any   *)
(* updates, edges and switches in between, starts no second target, renews  *)
(* no lease and admits no candidate to a restore.                           *)
THEOREM RetriesStartNothing == Spec => RepeatStartsNothing
<1>1. ASSUME TypeOK, ReceiveAgain(FALSE), ha.event = f.lastEvent
      PROVE  ~StartsTarget /\ ~RenewsLease /\ ~AdmitsCandidate
  <2>1. f \in FirmwareState /\ ha.app \in MaybeApp
    BY <1>1 DEF TypeOK, Request
  <2>2. f' = Received(ha.app, "idle", f.lastEvent, FALSE)
    BY <1>1 DEF ReceiveAgain
  <2>3. f' \in {f, invalidateReconnectRestore(f),
                queueAppCandidate(f, ha.app, "idle", f.lastEvent, FALSE)}
    BY <2>2, Zenon DEF Received
  <2>4. LET i == invalidateReconnectRestore(f)
        IN  /\ i.t = f.t /\ i.gen = f.gen
            /\ i.curAuth = f.curAuth /\ i.pendAuth \in {f.pendAuth, "none"}
            /\ i.pend = f.pend /\ (i.pendAllowed => f.pendAllowed)
    BY <2>1 DEF invalidateReconnectRestore, FirmwareState
  <2>5. NoNewTarget(f', f) /\ NoNewGrant(f', f)
    <3>1. CASE f' = f
      BY <3>1 DEF NoNewTarget, NoNewGrant
    <3>2. CASE f' = invalidateReconnectRestore(f)
      BY <2>4, <3>2 DEF NoNewTarget, NoNewGrant
    <3>3. CASE f' = queueAppCandidate(f, ha.app, "idle", f.lastEvent, FALSE)
      BY <2>1, <3>3, RepeatIsNoStart
    <3> QED BY <2>3, <3>1, <3>2, <3>3
  <2>6. f'.t.target \in Int /\ f.t.target \in Int
    <3>1. f' \in FirmwareState
      <4>1. f.lastEvent \in EventId
        BY <2>1 DEF FirmwareState
      <4> QED BY <2>1, <2>2, <4>1, ReceivedType
    <3> QED BY <2>1, <3>1 DEF FirmwareState, Session, MaybeLevel, Level, None
  <2>7. ~StartsTarget
    BY <2>5, <2>6 DEF StartsTarget, NoNewTarget
  <2>8. ~RenewsLease /\ ~AdmitsCandidate
    BY <2>5 DEF RenewsLease, AdmitsCandidate, NoNewGrant
  <2> QED BY <2>7, <2>8
<1>2. TypeOK /\ [Next]_vars
        => [ReceiveAgain(FALSE) /\ ha.event = f.lastEvent
            => ~StartsTarget /\ ~RenewsLease /\ ~AdmitsCandidate]_vars
  BY <1>1
<1> QED BY <1>2, TypeCorrect, PTL DEF Spec, RepeatStartsNothing

-----------------------------------------------------------------------------
(* Extensions: what keeps one that was granted allowed.                     *)

(* No target overrides the lock; an extension waits to be sent, and may be; *)
(* only a muted restore owes a mute or runs on a receiver known to be       *)
(* muted, and it knows whether a report has shown its own unmuting, so that *)
(* a mute heard after that is the user's and ends it.                       *)
ExtOK(fw) ==
  /\ ~fw.t.override
  /\ fw.t.ext => fw.t.phase = "waitBurstSecond" /\ ExtensionAllowed(fw, fw.t.obs)
  /\ (fw.t.target >= 0 /\ ~fw.t.cycle) => ~fw.remReq /\ ~(fw.muteKnown /\ fw.muted)
  /\ (fw.t.cycle /\ fw.remReq /\ fw.muteKnown /\ ~fw.muted) => fw.t.unmuted

(* What leaves this alone: the target ends, or goes on with its extension   *)
(* untouched or gone, while nothing is heard of the mute.                   *)
Ended(s) == s.target = None /\ ~s.override /\ ~s.ext /\ ~s.cycle
SameExtension(s, t) ==
  s.ext = t.ext /\ s.phase = t.phase /\ s.obs = t.obs /\ s.dir = t.dir /\ s.steps = t.steps
Follows(s, t) ==
  /\ s.target = t.target /\ s.override = t.override
  /\ s.cycle = t.cycle /\ s.unmuted = t.unmuted
  /\ ~s.ext \/ SameExtension(s, t)
SameMute(g, fw) ==
  g.remReq = fw.remReq /\ g.muteKnown = fw.muteKnown /\ g.muted = fw.muted
  /\ (g.locked => fw.locked)
Calm(g, fw) == Ended(g.t) \/ (SameMute(g, fw) /\ Follows(g.t, fw.t))

(* Two calm steps are one, and a calm step keeps ExtOK.                     *)
LEMMA CalmIsEnough ==
  /\ \A fw : Calm(fw, fw)
  /\ \A fw, g, h : Calm(h, g) /\ Calm(g, fw) => Calm(h, fw)
  /\ \A fw, g : ExtOK(fw) /\ Calm(g, fw) => ExtOK(g)
  /\ \A fw, g : SameMute(g, fw) /\ g.t = fw.t => Calm(g, fw)
<1>1. ASSUME NEW fw PROVE Calm(fw, fw)
  BY DEF Calm, SameMute, Follows, SameExtension
<1>2. ASSUME NEW fw, NEW g, NEW h, Calm(h, g), Calm(g, fw) PROVE Calm(h, fw)
  BY <1>2 DEF Calm, SameMute, Follows, SameExtension, Ended
<1>3. ASSUME NEW fw, NEW g, ExtOK(fw), Calm(g, fw) PROVE ExtOK(g)
  <2>1. CASE Ended(g.t)
    BY <2>1 DEF Ended, ExtOK, None
  <2>2. CASE SameMute(g, fw) /\ Follows(g.t, fw.t)
    <3>1. ASSUME g.t.ext PROVE g.t.phase = "waitBurstSecond" /\ ExtensionAllowed(g, g.t.obs)
      <4>1. SameExtension(g.t, fw.t) /\ fw.t.ext /\ ExtensionAllowed(fw, fw.t.obs)
        BY <1>3, <2>2, <3>1 DEF Follows, SameExtension, ExtOK
      <4>2. automaticRestoreCommandAllowed(fw) => automaticRestoreCommandAllowed(g)
        BY <2>2 DEF automaticRestoreCommandAllowed, volumeCommandAllowed, SameMute, Follows
      <4>3. ExtensionAllowed(g, g.t.obs)
        BY <2>2, <4>1, <4>2
           DEF ExtensionAllowed, volumeRapidExtensionAllowed, Follows, SameExtension
      <4> QED BY <1>3, <4>1, <4>3 DEF ExtOK, SameExtension
    <3> QED BY <1>3, <2>2, <3>1 DEF ExtOK, SameMute, Follows
  <2> QED BY <1>3, <2>1, <2>2 DEF Calm
<1>4. ASSUME NEW fw, NEW g, SameMute(g, fw), g.t = fw.t PROVE Calm(g, fw)
  BY <1>4 DEF Calm, Follows, SameExtension
<1> QED BY <1>1, <1>2, <1>3, <1>4

(* Every end of a target is calm.                                           *)
LEMMA EndsCalmly ==
  ASSUME NEW fw \in FirmwareState
  PROVE  /\ Ended(completeVolumeRestore(fw).t) /\ Ended(failVolumeRestore(fw).t)
         /\ Ended(cancelVolumeRestore(fw).t)
<1>1. ASSUME NEW g \in FirmwareState
      PROVE  resetVolumeRestore(g).t = NoSession /\ resetVolumeRestore(g) \in FirmwareState
  <2>1. resetVolumeRestore(g).t = NoSession
    BY <1>1 DEF resetVolumeRestore, FirmwareState
  <2> QED BY <2>1, resetVolumeRestoreType
<1>2. ASSUME NEW g \in FirmwareState
      PROVE  completeVolumeRestore(g).t = NoSession /\ failVolumeRestore(g).t = NoSession
  <2> DEFINE r == resetVolumeRestore(g)
  <2>1. /\ [r EXCEPT !.suppressed = g.remReq, !.failRaw = None, !.quiet = TRUE].t = r.t
        /\ [r EXCEPT !.suppressed = TRUE, !.failRaw = None, !.quiet = FALSE].t = r.t
    <3>1. r \in FirmwareState
      BY <1>1
    <3> HIDE DEF r
    <3> QED BY <3>1 DEF FirmwareState
  <2> QED BY <1>1, <2>1 DEF completeVolumeRestore, failVolumeRestore
<1>3. cancelVolumeRestore(fw).t = NoSession
  BY <1>2, advanceVolumeTargetGenerationType DEF cancelVolumeRestore
<1>4. Ended(NoSession)
  BY DEF Ended, NoSession
<1> QED BY <1>2, <1>3, <1>4

(* Credits and rows are nothing to a target and to the mute.                *)
LEMMA CreditsAndRowsAreCalm ==
  ASSUME NEW fw \in FirmwareState
  PROVE  /\ Calm(clearReconnectRestore(fw), fw) /\ Calm(invalidateReconnectRestore(fw), fw)
         /\ \A a, e, v : Calm(rememberReconnectRestore(fw, a, e, v), fw)
         /\ \A a, v : Calm(rememberAppVolume(fw, a, v), fw)
         /\ Calm(SaveOutgoing(fw), fw)
<1> DEFINE Alike(g) == SameMute(g, fw) /\ g.t = fw.t
<1>1. Alike(clearReconnectRestore(fw))
  BY DEF clearReconnectRestore, SameMute, FirmwareState
<1>2. Alike(invalidateReconnectRestore(fw))
  BY DEF invalidateReconnectRestore, SameMute, FirmwareState
<1>3. ASSUME NEW a, NEW e, NEW v PROVE Alike(rememberReconnectRestore(fw, a, e, v))
  BY DEF rememberReconnectRestore, SameMute, FirmwareState
<1>4. ASSUME NEW a, NEW v PROVE Alike(rememberAppVolume(fw, a, v))
  BY DEF rememberAppVolume, SameMute, FirmwareState
<1>5. Calm(SaveOutgoing(fw), fw)
  BY <1>4, CalmIsEnough, Zenon DEF SaveOutgoing
<1> QED BY <1>1, <1>2, <1>3, <1>4, <1>5, CalmIsEnough

(* A change of the session that lets it go on is calm.                      *)
LEMMA SessionIsCalm ==
  ASSUME NEW fw \in FirmwareState, NEW s, Follows(s, fw.t)
  PROVE  Calm([fw EXCEPT !.t = s], fw)
  BY DEF Calm, SameMute, FirmwareState

(* A target that is armed or paused starts again, without its extension.    *)
LEMMA RestartIsCalm ==
  ASSUME NEW fw \in FirmwareState
  PROVE  /\ \A armed : LET s == RestartedSession(fw.t, armed) IN Follows(s, fw.t) /\ ~s.ext
         /\ Calm(armVolumeTargetSession(fw), fw) /\ Calm(pauseVolumeTargetSession(fw), fw)
<1>1. ASSUME NEW armed
      PROVE  LET s == RestartedSession(fw.t, armed) IN Follows(s, fw.t) /\ ~s.ext
  <2>1. ~RestartedSession(fw.t, armed).ext
    BY DEF RestartedSession, NoSession
  <2>2. Follows(RestartedSession(fw.t, armed), fw.t)
    BY DEF RestartedSession, NoSession, Follows
  <2> QED BY <2>1, <2>2
<1>2. Calm(armVolumeTargetSession(fw), fw)
  BY <1>1, SessionIsCalm DEF armVolumeTargetSession
<1>3. Calm(pauseVolumeTargetSession(fw), fw)
  BY <1>1, SessionIsCalm, CalmIsEnough DEF pauseVolumeTargetSession
<1> QED BY <1>1, <1>2, <1>3

(* A new target starts on an unmuted receiver, or is a muted restore; a     *)
(* manual one never starts while the volume is locked.                      *)
LEMMA setVolumeKeepsExt ==
  ASSUME NEW fw \in FirmwareState, ExtOK(fw), NEW v, NEW automatic \in BOOLEAN
  PROVE  ExtOK(setVolume(fw, v, automatic))
<1> DEFINE mutedIdle == automatic /\ fw.muteKnown /\ fw.muted /\ fw.locked
                        /\ fw.curAuth = "fresh"
           blocked == fw.locked \/ (fw.muteKnown /\ fw.muted)
           x == [fw EXCEPT !.suppressed = TRUE, !.failRaw = fw.vol, !.quiet = TRUE]
           g == StartTarget(fw, v, automatic, mutedIdle)
<1>1. ExtOK(x)
  <2>1. SameMute(x, fw) /\ x.t = fw.t
    BY DEF SameMute, FirmwareState
  <2> HIDE DEF x
  <2> QED BY <2>1, CalmIsEnough
<1>2. ASSUME ~fw.remReq, ~automatic => volumeCommandAllowed(fw.muteKnown, fw.muted, fw.locked),
             ~(automatic /\ blocked /\ ~mutedIdle)
      PROVE  ExtOK(g)
  <2> DEFINE a == advanceVolumeTargetGeneration(fw)
             armed == RestartedSession(fw.t, TRUE)
             over  == ~automatic /\ fw.locked
             cycle == fw.t.cycle \/ mutedIdle
             phase == IF mutedIdle THEN "waitAutomaticUnmute" ELSE armed.phase
             s == [armed EXCEPT !.target = v, !.auto = automatic, !.override = over,
                     !.cycle = cycle, !.phase = phase]
  <2>1. SameMute(a, fw) /\ a \in FirmwareState
    <3>1. SameMute(a, fw)
      BY DEF advanceVolumeTargetGeneration, SameMute, FirmwareState
    <3> QED BY <3>1, advanceVolumeTargetGenerationType
  <2>2. ~s.override /\ ~s.ext /\ (s.cycle <=> cycle)
    <3>1. over = FALSE
      BY <1>2 DEF volumeCommandAllowed
    <3>2. armed = [NoSession EXCEPT !.target = fw.t.target, !.armed = TRUE, !.auto = fw.t.auto,
                    !.override = fw.t.override, !.phase = "needFreshStatus",
                    !.cycle = fw.t.cycle, !.unmuted = fw.t.unmuted]
      BY DEF RestartedSession
    <3>3. armed \in Session /\ ~armed.ext
      <4>1. fw.t \in Session
        BY DEF FirmwareState
      <4>2. armed \in Session
        BY <4>1, RestartedSessionType
      <4>3. ~armed.ext
        BY <3>2 DEF NoSession
      <4> QED BY <4>2, <4>3
    <3> HIDE DEF over, cycle, armed, phase
    <3> QED BY <3>1, <3>3 DEF Session
  <2>3. g = [a EXCEPT !.suppressed = TRUE, !.t = s]
    <3>1. armed.cycle = fw.t.cycle
      BY DEF RestartedSession, NoSession
    <3> QED BY <3>1, Zenon DEF StartTarget
  <2>4. SameMute(g, fw) /\ g.t = s
    <3> HIDE DEF a, s, g
    <3> QED BY <2>1, <2>3 DEF SameMute, FirmwareState
  <2>5. ~cycle => ~(fw.muteKnown /\ fw.muted)
    <3>1. CASE automatic
      BY <1>2, <3>1
    <3>2. CASE ~automatic
      BY <1>2, <3>2 DEF volumeCommandAllowed
    <3> QED BY <3>1, <3>2
  <2> HIDE DEF g, s, a, cycle, mutedIdle
  <2> QED BY <1>2, <2>2, <2>4, <2>5 DEF ExtOK, SameMute
<1>3. \/ setVolume(fw, v, automatic) \in {fw, x}
      \/ /\ setVolume(fw, v, automatic) = g
         /\ ~fw.remReq
         /\ ~automatic => volumeCommandAllowed(fw.muteKnown, fw.muted, fw.locked)
         /\ ~(automatic /\ blocked /\ ~mutedIdle)
  BY Zenon DEF setVolume
<1> HIDE DEF x, g, mutedIdle, blocked
<1> QED BY <1>1, <1>2, <1>3

(* Starting the restore of the app in front.                                *)
LEMMA startRestoreKeepsExt ==
  ASSUME NEW fw \in FirmwareState, ExtOK(fw)
  PROVE  ExtOK(startRestoreForCurrentApp(fw))
<1>1. ExtOK(cancelVolumeRestore(fw))
  BY EndsCalmly, CalmIsEnough DEF Calm
<1> QED BY <1>1, setVolumeKeepsExt DEF startRestoreForCurrentApp

(* Losing the app in front.                                                 *)
LEMMA clearCurrentAppIsCalm ==
  ASSUME NEW fw \in FirmwareState
  PROVE  Calm(clearCurrentApp(fw), fw)
<1> DEFINE h == invalidateReconnectRestore(fw)
           g == [h EXCEPT !.pend = NoApp, !.pendAuth = "none", !.pendAllowed = TRUE,
                          !.pendReconnect = None, !.cur = NoApp, !.curAuth = "none"]
<1>1. h \in FirmwareState /\ Calm(h, fw)
  BY invalidateReconnectRestoreType, CreditsAndRowsAreCalm
<1>2. g \in FirmwareState /\ SameMute(g, h) /\ g.t = h.t
  <2> HIDE DEF h
  <2>1. g \in FirmwareState
    BY <1>1, EmptyValues, AuthorityValues DEF FirmwareState
  <2>2. SameMute(g, h) /\ g.t = h.t
    BY <1>1 DEF SameMute, FirmwareState
  <2> QED BY <2>1, <2>2
<1>3. clearCurrentApp(fw) \in {g, cancelVolumeRestore(g)}
  BY Zenon DEF clearCurrentApp
<1> HIDE DEF g, h
<1>4. Calm(cancelVolumeRestore(g), g) /\ Calm(g, fw)
  BY <1>1, <1>2, EndsCalmly, CalmIsEnough DEF Calm
<1> QED BY <1>3, <1>4, CalmIsEnough

(* What is granted or refused is nothing to the target that runs.           *)
LEMMA GrantIsCalm ==
  ASSUME NEW fw \in FirmwareState, NEW a, NEW kind, NEW e, NEW reauth
  PROVE  Calm(Grant(fw, a, kind, e, reauth).f, fw)
<1> DEFINE g       == IF fw.pendReconnect >= 0 THEN invalidateReconnectRestore(fw) ELSE fw
           matches == kind = "idle" /\ reconnectRestoreMatches(g, a, e)
           kept    == IF g.credit.target >= 0 /\ ~matches
                      THEN invalidateReconnectRestore(g) ELSE g
<1>1. g \in FirmwareState /\ Calm(g, fw)
  BY invalidateReconnectRestoreType, CreditsAndRowsAreCalm, CalmIsEnough
<1>2. kept \in FirmwareState /\ Calm(kept, g)
  <2> HIDE DEF g, matches
  <2> QED BY <1>1, invalidateReconnectRestoreType, CreditsAndRowsAreCalm, CalmIsEnough
<1>3. Calm([kept EXCEPT !.lastEvent = e], kept)
  <2> HIDE DEF kept
  <2>1. SameMute([kept EXCEPT !.lastEvent = e], kept) /\ [kept EXCEPT !.lastEvent = e].t = kept.t
    BY <1>2 DEF SameMute, FirmwareState
  <2> QED BY <2>1, CalmIsEnough
<1>4. \/ Grant(fw, a, kind, e, reauth).f = kept
      \/ Grant(fw, a, kind, e, reauth).f = [kept EXCEPT !.lastEvent = e]
  <2> HIDE DEF kept
  <2> QED BY DEF Grant, kept
<1> HIDE DEF g, kept
<1> QED BY <1>1, <1>2, <1>3, <1>4, CalmIsEnough

(* An update for the app in front.                                          *)
LEMMA UpdateCurrentKeepsExt ==
  ASSUME NEW g \in Granted, ExtOK(g.f)
  PROVE  ExtOK(UpdateCurrent(g))
<1> DEFINE fw    == g.f
           auth == IF g.duplicate THEN fw.curAuth ELSE g.auth
           f1   == [fw EXCEPT !.pend = NoApp, !.pendAllowed = TRUE, !.pendReconnect = None,
                             !.curAuth = auth]
           f2   == IF ~g.duplicate /\ ~g.idle /\ f1.t.cycle THEN cancelVolumeRestore(f1) ELSE f1
           f3   == clearReconnectRestore(f2)
<1>1. fw \in FirmwareState /\ auth \in Authority
  BY DEF Granted, FirmwareState
<1>2. f1 \in FirmwareState /\ Calm(f1, fw)
  <2> HIDE DEF fw, auth
  <2>1. f1 \in FirmwareState
    BY <1>1, EmptyValues DEF FirmwareState
  <2>2. SameMute(f1, fw) /\ f1.t = fw.t
    BY <1>1 DEF SameMute, FirmwareState
  <2> HIDE DEF f1
  <2> QED BY <2>1, <2>2, CalmIsEnough
<1>3. f2 \in FirmwareState /\ ExtOK(f2)
  <2> HIDE DEF f1
  <2>1. ExtOK(f1) /\ ExtOK(cancelVolumeRestore(f1))
    BY <1>2, EndsCalmly, CalmIsEnough DEF Calm
  <2> QED BY <1>2, <2>1, cancelVolumeRestoreType
<1>4. /\ ExtOK(startRestoreForCurrentApp(f2))
      /\ ExtOK(setVolume(f3, f2.credit.target, TRUE))
  <2> HIDE DEF f2
  <2>1. f3 \in FirmwareState /\ ExtOK(f3)
    BY <1>3, clearReconnectRestoreType, CreditsAndRowsAreCalm, CalmIsEnough
  <2> HIDE DEF f3
  <2> QED BY <1>3, <2>1, startRestoreKeepsExt, setVolumeKeepsExt
<1>5. UpdateCurrent(g) \in {f2, startRestoreForCurrentApp(f2), setVolume(f3, f2.credit.target, TRUE)}
  BY Zenon DEF UpdateCurrent
<1> HIDE DEF f1, f2, f3
<1> QED BY <1>3, <1>4, <1>5

(* The authority of a candidate.                                            *)
LEMMA SetPendingAuthorityIsCalm ==
  ASSUME NEW fw \in FirmwareState, NEW g \in Granted
  PROVE  Calm(SetPendingAuthority(fw, g), fw)
<1> DEFINE level == IF g.reconnect THEN fw.credit.target ELSE None
           f1    == [fw EXCEPT !.pendAuth = g.auth, !.pendAllowed = g.allowed,
                              !.pendReconnect = level]
<1>1. f1 \in FirmwareState /\ SameMute(f1, fw) /\ f1.t = fw.t
  <2>1. level \in MaybeLevel /\ g.auth \in Authority /\ g.allowed \in BOOLEAN
    BY EmptyValues DEF FirmwareState, Credit, Granted
  <2> HIDE DEF level
  <2>2. f1 \in FirmwareState
    BY <2>1 DEF FirmwareState
  <2>3. SameMute(f1, fw) /\ f1.t = fw.t
    BY DEF SameMute, FirmwareState
  <2> QED BY <2>2, <2>3
<1>2. SetPendingAuthority(fw, g) \in {f1, clearReconnectRestore(f1)}
  BY Zenon DEF SetPendingAuthority
<1> HIDE DEF f1
<1> QED BY <1>1, <1>2, CreditsAndRowsAreCalm, CalmIsEnough

(* A new candidate.                                                         *)
LEMMA NewPendingIsCalm ==
  ASSUME NEW g \in Granted, NEW a \in MaybeApp
  PROVE  Calm(NewPending(g, a), g.f)
<1> DEFINE f1 == SaveOutgoing(g.f)
           f2 == IF f1.t.target < 0 \/ f1.t.auto THEN cancelVolumeRestore(f1) ELSE f1
           f3 == [f2 EXCEPT !.pend = a]
<1>1. f1 \in FirmwareState /\ Calm(f1, g.f)
  BY SaveOutgoingType, CreditsAndRowsAreCalm DEF Granted
<1>2. f2 \in FirmwareState /\ Calm(f2, f1)
  <2> HIDE DEF f1
  <2>1. Calm(f1, f1) /\ Calm(cancelVolumeRestore(f1), f1)
    BY <1>1, EndsCalmly, CalmIsEnough DEF Calm
  <2> QED BY <1>1, <2>1, cancelVolumeRestoreType
<1>3. f3 \in FirmwareState /\ SameMute(f3, f2) /\ f3.t = f2.t
  <2> HIDE DEF f2
  <2>1. f3 \in FirmwareState
    BY <1>2 DEF FirmwareState
  <2>2. SameMute(f3, f2) /\ f3.t = f2.t
    BY <1>2 DEF SameMute, FirmwareState
  <2> QED BY <2>1, <2>2
<1>4. Calm(SetPendingAuthority(f3, g), f3)
  <2> HIDE DEF f3
  <2> QED BY <1>3, SetPendingAuthorityIsCalm
<1>5. NewPending(g, a) = SetPendingAuthority(f3, g)
  BY Zenon DEF NewPending
<1> HIDE DEF f1, f2, f3
<1> QED BY <1>1, <1>2, <1>3, <1>4, <1>5, CalmIsEnough

(* An update from Home Assistant.                                           *)
LEMMA queueAppCandidateKeepsExt ==
  ASSUME NEW fw \in FirmwareState, ExtOK(fw), NEW a \in MaybeApp, NEW kind,
         NEW e \in EventId, NEW reauth \in BOOLEAN
  PROVE  ExtOK(queueAppCandidate(fw, a, kind, e, reauth))
<1> DEFINE g == Grant(fw, a, kind, e, reauth)
<1>1. g \in Granted /\ g.f \in FirmwareState /\ ExtOK(g.f)
  BY GrantType, GrantIsCalm, CalmIsEnough DEF Granted
<1>2. queueAppCandidate(fw, a, kind, e, reauth) \in {UpdateCurrent(g), UpdatePending(g), NewPending(g, a)}
  BY Zenon DEF queueAppCandidate
<1> HIDE DEF g
<1>3. ExtOK(UpdatePending(g)) /\ ExtOK(NewPending(g, a))
  BY <1>1, SetPendingAuthorityIsCalm, NewPendingIsCalm, CalmIsEnough DEF UpdatePending
<1> QED BY <1>1, <1>2, <1>3, UpdateCurrentKeepsExt

(* A switch of apps.                                                        *)
LEMMA activatePendingAppKeepsExt ==
  ASSUME NEW fw \in FirmwareState, ExtOK(fw), fw.pend # NoApp
  PROVE  ExtOK(activatePendingApp(fw))
<1> DEFINE f1 == SaveOutgoing(fw)
           f2 == [f1 EXCEPT !.cur = fw.pend, !.curAuth = fw.pendAuth, !.pend = NoApp,
                            !.pendAuth = "none", !.pendAllowed = TRUE, !.pendReconnect = None]
           f3 == rememberAppVolume(f2, fw.pend, f2.vol)
<1>1. f1 \in FirmwareState /\ Calm(f1, fw)
  BY SaveOutgoingType, CreditsAndRowsAreCalm
<1>2. f2 \in FirmwareState /\ SameMute(f2, f1) /\ f2.t = f1.t
  <2>1. fw.pend \in MaybeApp /\ fw.pendAuth \in Authority
    BY DEF FirmwareState
  <2> HIDE DEF f1
  <2>2. f2 \in FirmwareState
    BY <1>1, <2>1, EmptyValues, AuthorityValues DEF FirmwareState
  <2>3. SameMute(f2, f1) /\ f2.t = f1.t
    BY <1>1 DEF SameMute, FirmwareState
  <2> QED BY <2>2, <2>3
<1>3. ExtOK(f2)
  <2> HIDE DEF f1, f2
  <2> QED BY <1>1, <1>2, CalmIsEnough
<1>4. ExtOK(cancelVolumeRestore(f3))
  <2> HIDE DEF f2
  <2>1. fw.pend \in Apps /\ f2.vol \in MaybeLevel
    BY <1>2 DEF FirmwareState, MaybeApp
  <2>2. f3 \in FirmwareState
    BY <1>2, <2>1, RowType
  <2> HIDE DEF f3
  <2> QED BY <2>2, EndsCalmly, CalmIsEnough, <1>3 DEF Calm
<1>5. /\ ExtOK(setVolume(f2, fw.pendReconnect, TRUE))
      /\ ExtOK(startRestoreForCurrentApp(f2))
  <2> HIDE DEF f2
  <2> QED BY <1>2, <1>3, setVolumeKeepsExt, startRestoreKeepsExt
<1>6. activatePendingApp(fw) \in {f2, setVolume(f2, fw.pendReconnect, TRUE),
                                 startRestoreForCurrentApp(f2), cancelVolumeRestore(f3)}
  BY Zenon DEF activatePendingApp
<1> HIDE DEF f1, f2, f3
<1> QED BY <1>3, <1>4, <1>5, <1>6

(* Mute reports.                                                            *)

(* A report that says unmuted: what may be sent still may be, and a muted   *)
(* restore that owes a mute knows it now.                                   *)
LEMMA HeardUnmutedKeepsExt ==
  ASSUME NEW fw \in FirmwareState, ExtOK(fw)
  PROVE  ExtOK(HeardUnmuted(fw))
<1> DEFINE g       == [fw EXCEPT !.muteKnown = TRUE, !.muted = FALSE]
           unmuted == fw.t.unmuted \/ fw.t.cycle
           s       == [fw.t EXCEPT !.unmuted = unmuted]
           h       == [g EXCEPT !.t = s]
           k       == IF fw.muteKnown /\ fw.muted THEN invalidateReconnectRestore(g) ELSE g
           c       == clearManualMuteLock(k)
<1>1. /\ g \in FirmwareState /\ g.t = fw.t /\ g.remReq = fw.remReq
      /\ g.muteKnown /\ ~g.muted /\ g.locked = fw.locked
  BY DEF FirmwareState
<1>2. ASSUME fw.remReq PROVE ExtOK(h)
  <2>1. h.t = s /\ h.remReq /\ h.muteKnown /\ ~h.muted /\ h.locked = fw.locked
    <3> HIDE DEF g, s
    <3> QED BY <1>1, <1>2 DEF FirmwareState
  <2>2. /\ s.override = fw.t.override /\ s.ext = fw.t.ext /\ s.phase = fw.t.phase
        /\ s.obs = fw.t.obs /\ s.dir = fw.t.dir /\ s.steps = fw.t.steps
        /\ s.target = fw.t.target /\ s.cycle = fw.t.cycle /\ (s.unmuted <=> unmuted)
    <3>1. fw.t \in Session /\ unmuted \in BOOLEAN
      BY DEF FirmwareState
    <3> HIDE DEF unmuted
    <3> QED BY <3>1 DEF Session
  <2> HIDE DEF h, s
  <2>3. automaticRestoreCommandAllowed(fw) => automaticRestoreCommandAllowed(h)
    BY <2>1, <2>2 DEF automaticRestoreCommandAllowed, volumeCommandAllowed
  <2>4. ASSUME s.ext PROVE s.phase = "waitBurstSecond" /\ ExtensionAllowed(h, s.obs)
    BY <2>1, <2>2, <2>3, <2>4 DEF ExtOK, ExtensionAllowed, volumeRapidExtensionAllowed
  <2> QED BY <1>2, <2>1, <2>2, <2>4 DEF ExtOK
<1>3. ASSUME ~fw.remReq PROVE ExtOK(c)
  <2>1. /\ k \in FirmwareState /\ k.t = fw.t /\ k.remReq = fw.remReq
        /\ k.muteKnown /\ ~k.muted
    <3> HIDE DEF g
    <3>1. /\ invalidateReconnectRestore(g).t = g.t
          /\ invalidateReconnectRestore(g).remReq = g.remReq
          /\ invalidateReconnectRestore(g).muteKnown = g.muteKnown
          /\ invalidateReconnectRestore(g).muted = g.muted
      BY <1>1 DEF invalidateReconnectRestore, FirmwareState
    <3> QED BY <1>1, <3>1, invalidateReconnectRestoreType
  <2> HIDE DEF k
  <2>2. c.t = fw.t /\ ~c.remReq /\ c.muteKnown /\ ~c.muted /\ ~c.locked
    BY <1>3, <2>1 DEF clearManualMuteLock, FirmwareState
  <2> HIDE DEF c
  <2>3. automaticRestoreCommandAllowed(c)
    BY <2>2 DEF automaticRestoreCommandAllowed, volumeCommandAllowed
  <2>4. ASSUME c.t.ext PROVE c.t.phase = "waitBurstSecond" /\ ExtensionAllowed(c, c.t.obs)
    BY <2>2, <2>3, <2>4 DEF ExtOK, ExtensionAllowed, volumeRapidExtensionAllowed
  <2> QED BY <2>2, <2>4 DEF ExtOK
<1>4. HeardUnmuted(fw) = IF fw.remReq THEN h ELSE c
  <2>1. [g EXCEPT !.t.unmuted = @ \/ g.t.cycle] = h
    <3>1. g.t = fw.t
      BY <1>1
    <3> HIDE DEF g
    <3> QED BY <3>1
  <2> HIDE DEF h
  <2> QED BY <2>1 DEF HeardUnmuted
<1> QED BY <1>2, <1>3, <1>4

(* A mute of the user's ends every target.                                  *)
LEMMA NewlyMutedEnds ==
  ASSUME NEW fw \in FirmwareState, ~fw.t.override
  PROVE  IF fw.t.target >= 0 THEN Ended(NewlyMuted(fw).t) ELSE NewlyMuted(fw).t = fw.t
<1> DEFINE g         == invalidateReconnectRestore(fw)
           autoFb    == (g.t.auto /\ g.t.target >= 0) /\ g.t.steps > 0
           locked    == [g EXCEPT !.autoFb = autoFb, !.locked = TRUE, !.lockRaw = g.vol]
           cancelled == cancelVolumeRestore(locked)
           h         == [cancelled EXCEPT !.suppressed = TRUE, !.failRaw = fw.vol, !.quiet = TRUE]
<1>1. g \in FirmwareState /\ g.t = fw.t
  <2>1. g.t = fw.t
    BY DEF invalidateReconnectRestore, FirmwareState
  <2> QED BY <2>1, invalidateReconnectRestoreType
<1>2. autoFb \in BOOLEAN
  BY Zenon
<1>3. locked \in FirmwareState /\ locked.t = fw.t
  <2> HIDE DEF g, autoFb
  <2>1. locked \in FirmwareState
    BY <1>1, <1>2 DEF FirmwareState
  <2>2. locked.t = g.t
    BY <1>1 DEF FirmwareState
  <2> QED BY <1>1, <2>1, <2>2
<1>4. cancelled \in FirmwareState /\ Ended(cancelled.t)
  <2> HIDE DEF locked
  <2> QED BY <1>3, cancelVolumeRestoreType, EndsCalmly
<1>5. h.t = cancelled.t
  <2> HIDE DEF cancelled
  <2> QED BY <1>4 DEF FirmwareState
<1>6. NewlyMuted(fw) = IF g.t.target >= 0 /\ (g.t.auto \/ ~g.t.override) THEN h ELSE locked
  BY Zenon DEF NewlyMuted
<1> HIDE DEF g, locked, cancelled, h
<1> QED BY <1>1, <1>3, <1>4, <1>5, <1>6

(* A report that says muted ends every target, except a muted restore that  *)
(* has not yet heard of its own unmuting, which has no extension.           *)
LEMMA HeardMutedKeepsExt ==
  ASSUME NEW fw \in FirmwareState, ExtOK(fw), OwnerOK(fw), NEW ok \in BOOLEAN
  PROVE  ExtOK(HeardMuted(fw, ok))
<1> DEFINE f1 == IF (fw.t.target >= 0 /\ fw.t.steps > 0) /\ ~fw.remReq
                 THEN armAutomaticRemuteRecovery(fw, ok) ELSE fw
           f2 == [f1 EXCEPT !.muteKnown = TRUE, !.muted = TRUE]
           f3 == IF f2.remReq /\ f2.remConf THEN clearAutomaticRemuteJournal(f2, ok) ELSE f2
           f4 == IF (f2.remReq /\ f2.remConf) /\ (~f2.remJournal \/ ok)
                 THEN [f3 EXCEPT !.suppressed = FALSE] ELSE f3
           stale  == f4.t.cycle /\ f4.remReq /\ ~f4.t.unmuted
           became == ~fw.muteKnown \/ ~fw.muted
<1>1. f1 \in FirmwareState /\ f1.t = fw.t
  BY armAutomaticRemuteRecoveryType, JournalOwnerOK
<1>2. f2 \in FirmwareState /\ f2.t = fw.t /\ f2.muteKnown /\ f2.muted
  <2> HIDE DEF f1
  <2>1. f2 \in FirmwareState
    BY <1>1 DEF FirmwareState
  <2>2. f2.t = f1.t /\ f2.muteKnown /\ f2.muted
    BY <1>1 DEF FirmwareState
  <2> QED BY <1>1, <2>1, <2>2
<1>3. f3 \in FirmwareState /\ f3.t = fw.t /\ f3.muteKnown /\ f3.muted
  <2> HIDE DEF f2
  <2>1. LET g == clearAutomaticRemuteJournal(f2, ok)
        IN g.t = f2.t /\ g.muteKnown = f2.muteKnown /\ g.muted = f2.muted
    BY <1>2 DEF clearAutomaticRemuteJournal, FirmwareState
  <2> QED BY <1>2, <2>1, clearAutomaticRemuteJournalType
<1>4. f4 \in FirmwareState /\ f4.t = fw.t /\ f4.muteKnown /\ f4.muted
  <2> DEFINE h == [f3 EXCEPT !.suppressed = FALSE]
  <2>1. h \in FirmwareState /\ h.t = f3.t /\ h.muteKnown = f3.muteKnown /\ h.muted = f3.muted
    <3> HIDE DEF f3
    <3>1. h \in FirmwareState
      BY <1>3 DEF FirmwareState
    <3>2. h.t = f3.t /\ h.muteKnown = f3.muteKnown /\ h.muted = f3.muted
      BY <1>3 DEF FirmwareState
    <3> QED BY <3>1, <3>2
  <2>2. f4 \in {h, f3}
    BY Zenon
  <2> HIDE DEF f3, f4, h
  <2> QED BY <1>3, <2>1, <2>2
<1>5. HeardMuted(fw, ok) = IF stale \/ ~became THEN f4 ELSE NewlyMuted(f4)
  BY Zenon DEF HeardMuted
<1>6. fw.t.cycle /\ fw.remReq => f4.remReq = fw.remReq
  <2>1. ASSUME fw.t.cycle, fw.remReq PROVE f4.remReq = fw.remReq
    <3>1. f1 = fw /\ ~fw.remConf
      BY <2>1 DEF OwnerOK, TargetOK
    <3>2. f2.remReq = fw.remReq /\ f2.remConf = fw.remConf
      <4> HIDE DEF f1
      <4> QED BY <3>1 DEF FirmwareState
    <3> HIDE DEF f1, f2
    <3> QED BY <3>1, <3>2
  <2> QED BY <2>1
<1>n. IF fw.t.target >= 0 THEN Ended(NewlyMuted(f4).t) ELSE NewlyMuted(f4).t = fw.t
  <2> HIDE DEF f4
  <2> QED BY <1>4, NewlyMutedEnds DEF ExtOK
<1> HIDE DEF f4
<1>7. CASE ~(fw.t.target >= 0)
  <2>1. ~fw.t.ext /\ ~fw.t.cycle /\ ~fw.t.override
    BY <1>7 DEF ExtOK, OwnerOK, TargetOK, ExtensionAllowed, volumeRapidExtensionAllowed
  <2>2. \A g : g.t = fw.t => ExtOK(g)
    BY <1>7, <2>1 DEF ExtOK
  <2> QED BY <1>4, <1>5, <1>7, <1>n, <2>2
<1>8. CASE fw.t.target >= 0 /\ ~fw.t.cycle
  <2>1. became /\ ~stale
    BY <1>4, <1>8 DEF ExtOK
  <2>2. HeardMuted(fw, ok) = NewlyMuted(f4)
    BY <1>5, <2>1
  <2> QED BY <1>8, <1>n, <2>2, CalmIsEnough DEF Calm
<1>9. CASE fw.t.target >= 0 /\ fw.t.cycle
  <2>1. ExtOK(NewlyMuted(f4))
    BY <1>9, <1>n, CalmIsEnough DEF Calm
  <2>2. ASSUME stale \/ ~became PROVE ~fw.t.ext
    <3>1. SUFFICES ASSUME fw.t.ext PROVE FALSE
      OBVIOUS
    <3>2. fw.t.phase = "waitBurstSecond" /\ automaticRestoreCommandAllowed(fw)
      BY <3>1 DEF ExtOK, ExtensionAllowed, volumeRapidExtensionAllowed
    <3>3. fw.remReq /\ fw.muteKnown /\ ~fw.muted
      BY <1>9, <3>2
         DEF OwnerOK, TargetOK, automaticRestoreCommandAllowed, volumeCommandAllowed
    <3>4. fw.t.unmuted
      BY <1>9, <3>3 DEF ExtOK
    <3> QED BY <1>4, <2>2, <3>3, <3>4
  <2>3. ASSUME stale \/ ~became PROVE ExtOK(f4)
    BY <1>4, <1>9, <2>2, <2>3 DEF ExtOK
  <2> QED BY <1>5, <2>1, <2>3
<1> QED BY <1>7, <1>8, <1>9

(* observeMute().                                                           *)
LEMMA observeMuteKeepsExt ==
  ASSUME NEW fw \in FirmwareState, ExtOK(fw), OwnerOK(fw), NEW muted \in BOOLEAN,
         NEW ok \in BOOLEAN
  PROVE  ExtOK(observeMute(fw, muted, ok))
  BY HeardMutedKeepsExt, HeardUnmutedKeepsExt, Zenon DEF observeMute

(* Volume reports.                                                          *)

(* A session that keeps its target and whose extension, if it has one, is   *)
(* allowed where the level stands.                                          *)
Carries(s, fw) ==
  /\ s.target = fw.t.target /\ s.override = fw.t.override
  /\ s.cycle = fw.t.cycle /\ s.unmuted = fw.t.unmuted
  /\ s.ext => /\ s.phase = "waitBurstSecond" /\ s.dir = fw.t.dir /\ s.steps = fw.t.steps
              /\ ExtensionAllowed(fw, s.obs)

(* Such a change of the session keeps ExtOK.                                *)
LEMMA CarriesIsEnough ==
  ASSUME NEW fw \in FirmwareState, ExtOK(fw), NEW s, Carries(s, fw)
  PROVE  ExtOK([fw EXCEPT !.t = s])
<1> DEFINE g == [fw EXCEPT !.t = s]
<1>1. /\ g.t = s /\ g.remReq = fw.remReq /\ g.muteKnown = fw.muteKnown
      /\ g.muted = fw.muted /\ g.locked = fw.locked
  BY DEF FirmwareState
<1> HIDE DEF g
<1>2. automaticRestoreCommandAllowed(fw) <=> automaticRestoreCommandAllowed(g)
  BY <1>1 DEF automaticRestoreCommandAllowed, volumeCommandAllowed, Carries
<1>3. ASSUME s.ext PROVE s.phase = "waitBurstSecond" /\ ExtensionAllowed(g, s.obs)
  BY <1>1, <1>2, <1>3 DEF ExtensionAllowed, volumeRapidExtensionAllowed, Carries
<1>4. ExtOK(g)
  BY <1>1, <1>3 DEF ExtOK, Carries
<1> QED BY <1>4 DEF g

(* Without an extension, noting a level or a phase changes nothing.         *)
LEMMA ObservedKeepsExt ==
  ASSUME NEW fw \in FirmwareState, ExtOK(fw), NEW raw
  PROVE  /\ ExtOK(Settling(fw, raw)) \/ fw.t.ext
         /\ ExtOK([fw EXCEPT !.t.obs = raw]) \/ fw.t.ext
         /\ \A p : ExtOK([fw EXCEPT !.t.phase = p]) \/ fw.t.ext
<1>1. fw.t \in Session
  BY DEF FirmwareState
<1>2. ASSUME ~fw.t.ext
      PROVE  /\ ExtOK(Settling(fw, raw)) /\ ExtOK([fw EXCEPT !.t.obs = raw])
             /\ \A p : ExtOK([fw EXCEPT !.t.phase = p])
  <2> DEFINE o == [fw.t EXCEPT !.obs = raw]
             s == [fw.t EXCEPT !.obs = raw, !.phase = "settling"]
  <2>1. Carries(o, fw)
    BY <1>1, <1>2 DEF Carries, Session
  <2>2. Carries(s, fw)
    BY <1>1, <1>2 DEF Carries, Session
  <2>3. [fw EXCEPT !.t.obs = raw] = [fw EXCEPT !.t = o]
    BY Zenon
  <2>4. Settling(fw, raw) = [fw EXCEPT !.t = s]
    BY DEF Settling, FirmwareState
  <2>5. ASSUME NEW p PROVE ExtOK([fw EXCEPT !.t.phase = p])
    <3> DEFINE q == [fw.t EXCEPT !.phase = p]
    <3>1. Carries(q, fw)
      BY <1>1, <1>2 DEF Carries, Session
    <3>2. [fw EXCEPT !.t.phase = p] = [fw EXCEPT !.t = q]
      BY Zenon
    <3> HIDE DEF q
    <3> QED BY <3>1, <3>2, CarriesIsEnough
  <2> HIDE DEF o, s
  <2> QED BY <2>1, <2>2, <2>3, <2>4, <2>5, CarriesIsEnough
<1> QED BY <1>2

(* Reaching the target, or not yet.                                         *)
LEMMA AtTargetOrReadyKeepsExt ==
  ASSUME NEW fw \in FirmwareState, ExtOK(fw), ~fw.t.ext, NEW raw
  PROVE  ExtOK(AtTargetOrReady(fw, raw))
<1>1. ExtOK(completeVolumeRestore(fw))
  BY EndsCalmly, CalmIsEnough DEF Calm
<1> QED BY <1>1, ObservedKeepsExt DEF AtTargetOrReady

(* The first report after a click, or after a burst: it grants an extension *)
(* only where one is allowed.                                               *)
LEMMA MovementSeenKeepsExt ==
  ASSUME NEW fw \in FirmwareState, ExtOK(fw), ~fw.t.ext, NEW raw
  PROVE  ExtOK(MovementSeen(fw, raw))
<1> DEFINE t      == fw.t
           extend == t.burst /\ ExtensionAllowed(fw, raw)
           burst  == t.burst /\ ~extend
           ext    == IF t.burst THEN extend ELSE t.ext
           phase  == IF extend THEN "waitBurstSecond" ELSE "settling"
           delta  == IF t.burst THEN Distance(raw, t.start) ELSE t.delta
           clicks == IF t.burst THEN t.sent ELSE t.clicks
           s      == [t EXCEPT !.obs = raw, !.burst = burst, !.ext = ext, !.phase = phase,
                               !.delta = delta, !.clicks = clicks]
<1>1. t \in Session
  BY DEF FirmwareState
<1>2. ext => extend
  BY Zenon
<1>3. ext \in BOOLEAN /\ extend \in BOOLEAN
  <2>1. extend \in BOOLEAN
    BY Zenon
  <2>2. t.ext \in BOOLEAN
    <3> HIDE DEF t
    <3> QED BY <1>1 DEF Session
  <2> HIDE DEF extend, t
  <2> QED BY <2>1, <2>2
<1>4. Carries(s, fw)
  <2>1. /\ s.target = t.target /\ s.override = t.override /\ s.cycle = t.cycle
        /\ s.unmuted = t.unmuted /\ s.dir = t.dir /\ s.steps = t.steps
        /\ s.ext = ext /\ s.phase = phase /\ s.obs = raw
    <3> HIDE DEF t, extend, burst, ext, phase, delta, clicks
    <3> QED BY <1>1, <1>3 DEF Session
  <2>2. ext => phase = "waitBurstSecond" /\ ExtensionAllowed(fw, raw)
    BY <1>2, Zenon
  <2> HIDE DEF s, ext, phase
  <2> QED BY <2>1, <2>2 DEF Carries, t
<1>5. MovementSeen(fw, raw) \in {fw, failVolumeRestore(fw), [fw EXCEPT !.t = s]}
  BY Zenon DEF MovementSeen
<1>6. ExtOK(failVolumeRestore(fw))
  BY EndsCalmly, CalmIsEnough DEF Calm
<1> HIDE DEF s
<1> QED BY <1>4, <1>5, <1>6, CarriesIsEnough

(* A report while an extension waits to be sent, or in the middle of a      *)
(* burst: the extension goes on only where it is still allowed.             *)
LEMMA MovementDuringBurstKeepsExt ==
  ASSUME NEW fw \in FirmwareState, ExtOK(fw), fw.t.phase = "waitBurstSecond", NEW raw \in Level
  PROVE  ExtOK(MovementDuringBurst(fw, raw))
<1> DEFINE t  == fw.t
           g  == Settling(fw, raw)
           o  == [t EXCEPT !.obs = raw]
           s1 == [t EXCEPT !.obs = raw, !.phase = "settling", !.ext = FALSE, !.burst = TRUE]
           s2 == [t EXCEPT !.obs = raw, !.phase = "settling", !.coarse = FALSE, !.planned = t.sent]
<1>1. t \in Session
  BY DEF FirmwareState
<1>2. /\ [g EXCEPT !.t.ext = FALSE, !.t.burst = TRUE] = [fw EXCEPT !.t = s1]
      /\ [g EXCEPT !.t.coarse = FALSE, !.t.planned = t.sent] = [fw EXCEPT !.t = s2]
      /\ [fw EXCEPT !.t.obs = raw] = [fw EXCEPT !.t = o]
  <2>1. fw.t \in Session
    BY <1>1
  <2>2. g = [fw EXCEPT !.t = [t EXCEPT !.obs = raw, !.phase = "settling"]]
    BY <2>1 DEF Settling, FirmwareState, Session
  <2>3. [g EXCEPT !.t.ext = FALSE, !.t.burst = TRUE] = [fw EXCEPT !.t = s1]
    <3> HIDE DEF g
    <3> QED BY <2>1, <2>2 DEF FirmwareState, Session
  <2>4. [g EXCEPT !.t.coarse = FALSE, !.t.planned = t.sent] = [fw EXCEPT !.t = s2]
    <3> HIDE DEF g
    <3> QED BY <2>1, <2>2 DEF FirmwareState, Session
  <2>5. [fw EXCEPT !.t.obs = raw] = [fw EXCEPT !.t = o]
    BY Zenon
  <2> QED BY <2>3, <2>4, <2>5
<1>3. Carries(s1, fw)
  BY <1>1 DEF Carries, Session
<1>4. ~t.ext => Carries(s2, fw)
  BY <1>1 DEF Carries, Session
<1>5. (t.ext => ExtensionAllowed(fw, raw)) => Carries(o, fw)
  BY <1>1 DEF Carries, Session
<1>6. ExtOK(failVolumeRestore(fw))
  BY EndsCalmly, CalmIsEnough DEF Calm
<1> HIDE DEF s1, s2, o, g
<1>7. \/ MovementDuringBurst(fw, raw) \in {fw, failVolumeRestore(fw), [fw EXCEPT !.t = s1]}
      \/ ~t.ext /\ MovementDuringBurst(fw, raw) = [fw EXCEPT !.t = s2]
      \/ (t.ext => ExtensionAllowed(fw, raw)) /\ MovementDuringBurst(fw, raw) = [fw EXCEPT !.t = o]
  BY <1>2, Zenon DEF MovementDuringBurst, g
<1> QED BY <1>3, <1>4, <1>5, <1>6, <1>7, CarriesIsEnough

(* The report that confirms a settled level.                                *)
LEMMA ConfirmationSeenKeepsExt ==
  ASSUME NEW fw \in FirmwareState, ExtOK(fw), ~fw.t.ext, NEW raw \in Level
  PROVE  ExtOK(ConfirmationSeen(fw, raw))
<1> DEFINE t      == fw.t
           moved  == Distance(raw, t.start)
           past   == volumeDirection(raw, t.target) \notin {0, t.dir}
           coarse == t.coarse /\ ~past
           s      == [t EXCEPT !.delta = moved, !.clicks = t.sent, !.burst = FALSE,
                               !.coarse = coarse]
           g      == [fw EXCEPT !.t.delta = moved, !.t.clicks = t.sent, !.t.burst = FALSE,
                               !.t.coarse = @ /\ ~past]
<1>1. g = [fw EXCEPT !.t = s]
  <2> HIDE DEF moved, past
  <2> QED BY Zenon
<1>2. t \in Session /\ t.start \in MaybeLevel /\ t.sent \in 0..MaxClicks \cup {1}
  BY DEF FirmwareState, Session
<1>3. moved \in Nat /\ coarse \in BOOLEAN
  <2>1. moved \in Nat
    <3> HIDE DEF t
    <3> QED BY <1>2, DistanceType DEF MaybeLevel
  <2>2. coarse \in BOOLEAN
    BY Zenon
  <2> QED BY <2>1, <2>2
<1>4. s \in Session /\ Carries(s, fw) /\ ~s.ext
  <2>1. s \in Session /\ s.ext = t.ext
    <3> HIDE DEF t, moved, coarse
    <3> QED BY <1>2, <1>3 DEF Session
  <2>2. /\ s.target = t.target /\ s.override = t.override /\ s.cycle = t.cycle
        /\ s.unmuted = t.unmuted
    <3> HIDE DEF t, moved, coarse
    <3> QED BY <1>2, <1>3 DEF Session
  <2> HIDE DEF s
  <2> QED BY <2>1, <2>2 DEF Carries
<1>5. ConfirmationSeen(fw, raw) \in {Settling(fw, raw), AtTargetOrReady(fw, raw),
                                    failVolumeRestore(fw), AtTargetOrReady(g, raw)}
  BY Zenon DEF ConfirmationSeen
<1>6. ExtOK(Settling(fw, raw)) /\ ExtOK(failVolumeRestore(fw))
  BY ObservedKeepsExt, EndsCalmly, CalmIsEnough DEF Calm
<1>7. g \in FirmwareState /\ ExtOK(g) /\ ~g.t.ext
  <2> HIDE DEF s, g
  <2>1. [fw EXCEPT !.t = s].t = s
    BY DEF FirmwareState
  <2> QED BY <1>1, <1>4, <2>1, SessionUpdate, CarriesIsEnough
<1> HIDE DEF g
<1> QED BY <1>5, <1>6, <1>7, AtTargetOrReadyKeepsExt

(* A volume report while a target is set.                                   *)
LEMMA TargetFeedbackKeepsExt ==
  ASSUME NEW fw \in FirmwareState, ExtOK(fw), NEW raw \in Level
  PROVE  ExtOK(TargetFeedback(fw, raw))
<1> DEFINE g == [fw EXCEPT !.t.obs = raw]
<1>1. ExtOK(failVolumeRestore(fw))
  BY EndsCalmly, CalmIsEnough DEF Calm
<1>2. fw.t.phase # "waitBurstSecond" => ~fw.t.ext
  BY DEF ExtOK
<1>3. ASSUME ~fw.t.ext PROVE ExtOK(AtTargetOrReady(g, raw))
  <2>1. g \in FirmwareState
    BY ObservedType, PhaseValues
  <2>2. ~g.t.ext
    <3>1. fw.t \in Session
      BY DEF FirmwareState
    <3> QED BY <1>3, <3>1 DEF FirmwareState, Session
  <2>3. ExtOK(g)
    BY <1>3, ObservedKeepsExt
  <2> HIDE DEF g
  <2> QED BY <2>1, <2>2, <2>3, AtTargetOrReadyKeepsExt
<1>4. CASE fw.t.phase = "waitBurstSecond"
  <2>1. TargetFeedback(fw, raw) \in {failVolumeRestore(fw), MovementDuringBurst(fw, raw)}
    BY <1>4 DEF TargetFeedback
  <2> QED BY <1>1, <1>4, <2>1, MovementDuringBurstKeepsExt
<1>5. CASE fw.t.phase # "waitBurstSecond"
  <2>1. ExtOK(StillMoving(fw, raw)) /\ ExtOK(Settling(fw, raw))
    BY <1>2, <1>5, ObservedKeepsExt DEF StillMoving
  <2>2. ExtOK(MovementSeen(fw, raw)) /\ ExtOK(ConfirmationSeen(fw, raw))
    BY <1>2, <1>5, MovementSeenKeepsExt, ConfirmationSeenKeepsExt
  <2>3. TargetFeedback(fw, raw) \in {failVolumeRestore(fw), fw, AtTargetOrReady(g, raw),
          MovementSeen(fw, raw), StillMoving(fw, raw), ConfirmationSeen(fw, raw),
          Settling(fw, raw)}
    BY <1>5 DEF TargetFeedback
  <2> HIDE DEF g
  <2> QED BY <1>1, <1>2, <1>3, <1>5, <2>1, <2>2, <2>3
<1> QED BY <1>4, <1>5

(* A volume report while no target is set.                                  *)
LEMMA IdleFeedbackIsCalm ==
  ASSUME NEW fw \in FirmwareState, NEW raw \in Level
  PROVE  Calm(IdleFeedback(fw, raw), fw)
<1> DEFINE g == invalidateReconnectRestore(fw)
           h == [g EXCEPT !.suppressed = FALSE, !.failRaw = None, !.quiet = TRUE]
           x == [fw EXCEPT !.failRaw = raw]
           y == [fw EXCEPT !.failRaw = raw, !.quiet = FALSE]
<1>1. g \in FirmwareState /\ Calm(g, fw)
  BY invalidateReconnectRestoreType, CreditsAndRowsAreCalm
<1>2. h \in FirmwareState /\ Calm(h, g)
  <2> HIDE DEF g
  <2>1. h \in FirmwareState
    BY <1>1, EmptyValues DEF FirmwareState
  <2>2. SameMute(h, g) /\ h.t = g.t
    BY <1>1 DEF SameMute, FirmwareState
  <2> HIDE DEF h
  <2> QED BY <2>1, <2>2, CalmIsEnough
<1>3. ASSUME NEW k \in FirmwareState PROVE Calm(Learn(k, raw), k)
  BY CreditsAndRowsAreCalm, CalmIsEnough, Zenon DEF Learn
<1>4. Calm(x, fw) /\ Calm(y, fw)
  <2>1. SameMute(x, fw) /\ x.t = fw.t
    BY DEF SameMute, FirmwareState
  <2>2. SameMute(y, fw) /\ y.t = fw.t
    BY DEF SameMute, FirmwareState
  <2> HIDE DEF x, y
  <2> QED BY <2>1, <2>2, CalmIsEnough
<1>5. IdleFeedback(fw, raw) \in {Learn(fw, raw), Learn(h, raw), fw, x, y}
  BY Zenon DEF IdleFeedback
<1> HIDE DEF g, h, x, y
<1> QED BY <1>1, <1>2, <1>3, <1>4, <1>5, CalmIsEnough

(* observeVolume().                                                         *)
LEMMA observeVolumeKeepsExt ==
  ASSUME NEW fw \in FirmwareState, ExtOK(fw), NEW raw \in Level
  PROVE  ExtOK(observeVolume(fw, raw))
<1> DEFINE v == [fw EXCEPT !.vol = raw]
           n == NoteRemuteFeedback(v, raw)
           g == ReleaseMuteLock(n, raw)
<1>1. v \in FirmwareState /\ Calm(v, fw)
  <2>1. v \in FirmwareState
    BY DEF FirmwareState, MaybeLevel
  <2>2. SameMute(v, fw) /\ v.t = fw.t
    BY DEF SameMute, FirmwareState
  <2> HIDE DEF v
  <2> QED BY <2>1, <2>2, CalmIsEnough
<1>2. n \in FirmwareState /\ Calm(n, v)
  <2> DEFINE m == [v EXCEPT !.remBase = raw, !.remConf = FALSE]
  <2> HIDE DEF v
  <2>1. SameMute(m, v) /\ m.t = v.t
    BY <1>1 DEF SameMute, FirmwareState
  <2>2. n \in {m, v}
    BY Zenon DEF NoteRemuteFeedback
  <2>3. n \in FirmwareState
    BY <1>1, NoteRemuteFeedbackType
  <2> HIDE DEF m, n
  <2> QED BY <2>1, <2>2, <2>3, CalmIsEnough
<1>3. g \in FirmwareState /\ Calm(g, n)
  <2> DEFINE l == [n EXCEPT !.lockRaw = raw]
             c == clearManualMuteLock(n)
  <2> HIDE DEF n
  <2>1. SameMute(l, n) /\ l.t = n.t
    BY <1>2 DEF SameMute, FirmwareState
  <2>2. SameMute(c, n) /\ c.t = n.t
    BY <1>2 DEF clearManualMuteLock, SameMute, FirmwareState
  <2>3. g \in {n, c, l}
    BY Zenon DEF ReleaseMuteLock
  <2>4. g \in FirmwareState
    BY <1>2, ReleaseMuteLockType
  <2> HIDE DEF l, g, c
  <2> QED BY <2>1, <2>2, <2>3, <2>4, CalmIsEnough
<1>4. observeVolume(fw, raw) \in {TargetFeedback(g, raw), IdleFeedback(g, raw)}
  BY Zenon DEF observeVolume
<1> HIDE DEF v, n, g
<1>5. ExtOK(g)
  BY <1>1, <1>2, <1>3, CalmIsEnough
<1> QED BY <1>3, <1>4, <1>5, TargetFeedbackKeepsExt, IdleFeedbackIsCalm, CalmIsEnough

(* The edges of the link.                                                   *)

(* Both forget the mute, and a target that goes on starts again.            *)
LEMMA ForgottenKeepsExt ==
  ASSUME NEW fw \in FirmwareState, ExtOK(fw), OwnerOK(fw), NEW g,
         g.remReq = fw.remReq, ~g.muteKnown,
         \/ g.t = fw.t /\ fw.t.target < 0
         \/ \E armed : g.t = RestartedSession(fw.t, armed)
  PROVE  ExtOK(g)
<1>1. CASE g.t = fw.t /\ fw.t.target < 0
  <2>1. ~(fw.t.target >= 0)
    BY <1>1 DEF FirmwareState, Session, MaybeLevel, Level, None
  <2> QED BY <1>1, <2>1
          DEF ExtOK, OwnerOK, TargetOK, ExtensionAllowed, volumeRapidExtensionAllowed
<1>2. CASE \E armed : g.t = RestartedSession(fw.t, armed)
  <2>1. PICK armed : g.t = RestartedSession(fw.t, armed)
    BY <1>2
  <2>2. /\ g.t.target = fw.t.target /\ g.t.override = fw.t.override
        /\ g.t.cycle = fw.t.cycle /\ ~g.t.ext
    BY <2>1, RestartIsCalm DEF Follows
  <2> QED BY <2>2 DEF ExtOK
<1> QED BY <1>1, <1>2

(* A new connection arms the target again.                                  *)
LEMMA ConnectEdgeKeepsExt ==
  ASSUME NEW fw \in FirmwareState, ExtOK(fw), OwnerOK(fw)
  PROVE  ExtOK(ConnectEdge(fw))
<1> DEFINE g == [fw EXCEPT !.was = TRUE, !.sess = FALSE, !.vol = None, !.muteKnown = FALSE]
           h == armVolumeTargetSession(g)
<1>1. g.t = fw.t /\ g.remReq = fw.remReq /\ ~g.muteKnown /\ g \in FirmwareState
  <2>1. g \in FirmwareState
    BY EmptyValues DEF FirmwareState
  <2>2. g.t = fw.t /\ g.remReq = fw.remReq /\ ~g.muteKnown
    BY DEF FirmwareState
  <2> QED BY <2>1, <2>2
<1>2. /\ h.t = RestartedSession(fw.t, TRUE) /\ h.remReq = fw.remReq /\ ~h.muteKnown
  <2> HIDE DEF g
  <2>1. h = [g EXCEPT !.t = RestartedSession(fw.t, TRUE)]
    BY <1>1 DEF armVolumeTargetSession
  <2> HIDE DEF h
  <2> QED BY <1>1, <2>1 DEF FirmwareState
<1>3. \/ ConnectEdge(fw) = g /\ ~(g.t.target >= 0)
      \/ ConnectEdge(fw) = h
  BY Zenon DEF ConnectEdge
<1>4. ~(g.t.target >= 0) => fw.t.target < 0
  <2> HIDE DEF g
  <2> QED BY <1>1 DEF FirmwareState, Session, MaybeLevel, Level, None
<1> HIDE DEF g, h
<1> QED BY <1>1, <1>2, <1>3, <1>4, ForgottenKeepsExt

(* A lost one pauses a manual target and cancels every other.               *)
LEMMA DisconnectEdgeKeepsExt ==
  ASSUME NEW fw \in FirmwareState, ExtOK(fw), OwnerOK(fw)
  PROVE  ExtOK(DisconnectEdge(fw))
<1> DEFINE r == RememberCredit(fw)
           g == [r EXCEPT
                   !.was = FALSE, !.sess = FALSE, !.vol = None, !.muteKnown = FALSE,
                   !.curAuth = "none", !.pendAuth = "none", !.pendAllowed = FALSE,
                   !.pendReconnect = None]
           h == [g EXCEPT !.remConf = FALSE]
           c == cancelVolumeRestore(h)
           d == [c EXCEPT !.suppressed = TRUE, !.failRaw = None, !.quiet = FALSE]
           p == pauseVolumeTargetSession(g)
<1>1. r \in FirmwareState /\ r.t = fw.t /\ r.remReq = fw.remReq
  <2>1. r = fw \/ \E x : r = [fw EXCEPT !.credit = x]
    BY Zenon DEF RememberCredit, rememberReconnectRestore
  <2>2. \A x : [fw EXCEPT !.credit = x].t = fw.t /\ [fw EXCEPT !.credit = x].remReq = fw.remReq
    BY DEF FirmwareState
  <2> HIDE DEF r
  <2>3. r.t = fw.t /\ r.remReq = fw.remReq
    BY <2>1, <2>2
  <2> QED BY <2>3, RememberCreditType DEF r
<1>2. g \in FirmwareState /\ g.t = fw.t /\ g.remReq = fw.remReq /\ ~g.muteKnown
  <2> HIDE DEF r
  <2>1. g \in FirmwareState
    BY <1>1, EmptyValues, AuthorityValues DEF FirmwareState
  <2>2. g.t = r.t /\ g.remReq = r.remReq /\ ~g.muteKnown
    BY <1>1 DEF FirmwareState
  <2> QED BY <1>1, <2>1, <2>2
<1>3. h \in FirmwareState
  <2> HIDE DEF g
  <2> QED BY <1>2 DEF FirmwareState
<1>4. c \in FirmwareState /\ Ended(c.t)
  <2> HIDE DEF h
  <2> QED BY <1>3, cancelVolumeRestoreType, EndsCalmly
<1>5. d.t = c.t
  <2> HIDE DEF c
  <2> QED BY <1>4 DEF FirmwareState
<1>6. ExtOK(c) /\ ExtOK(d)
  <2> HIDE DEF c, d
  <2> QED BY <1>4, <1>5, CalmIsEnough DEF Calm
<1>7. ExtOK(p)
  <2> HIDE DEF g
  <2>1. CASE g.t.target < 0
    <3>1. p = g
      BY <2>1 DEF pauseVolumeTargetSession
    <3> QED BY <1>2, <2>1, <3>1, ForgottenKeepsExt
  <2>2. CASE ~(g.t.target < 0)
    <3>1. p = [g EXCEPT !.t = RestartedSession(fw.t, FALSE)]
      BY <1>2, <2>2 DEF pauseVolumeTargetSession
    <3>2. p.t = RestartedSession(fw.t, FALSE) /\ p.remReq = fw.remReq /\ ~p.muteKnown
      <4> HIDE DEF p
      <4> QED BY <1>2, <3>1 DEF FirmwareState
    <3> HIDE DEF p
    <3> QED BY <3>2, ForgottenKeepsExt
  <2> QED BY <2>1, <2>2
<1>8. DisconnectEdge(fw) \in {p, c, d}
  BY Zenon DEF DisconnectEdge
<1> HIDE DEF r, g, h, c, d, p
<1> QED BY <1>6, <1>7, <1>8

(* The actions.                                                             *)

(* A handler of an HTTP request.                                            *)
LEMMA RequestsKeepExt ==
  ASSUME TypeOK, ExtOK(f), HomeAssistant \/ WebUser
  PROVE  ExtOK(f')
<1>f. f \in FirmwareState /\ ha.app \in MaybeApp /\ ha.last \in MaybeApp /\ ha.event \in EventId
  BY DEF TypeOK, Request
<1>r. ASSUME NEW a \in MaybeApp, NEW kind, NEW e \in EventId, NEW reauth \in BOOLEAN,
             f' = Received(a, kind, e, reauth)
      PROVE  ExtOK(f')
  <2>1. f' \in {f, invalidateReconnectRestore(f), queueAppCandidate(f, a, kind, e, reauth)}
    BY <1>r, Zenon DEF Received
  <2> QED BY <1>f, <2>1, CreditsAndRowsAreCalm, CalmIsEnough, queueAppCandidateKeepsExt
<1>1. ASSUME NEW a \in Apps, ReceiveIdle(a) \/ ReceiveActive(a) PROVE ExtOK(f')
  <2>1. a \in MaybeApp /\ 0 \in EventId
    BY EmptyValues DEF MaybeApp
  <2>2. CASE ReceiveIdle(a)
    <3>1. used.idle + 1 \in EventId
      <4>1. "idle" \in DOMAIN Bound /\ Bound["idle"] = MaxIdle
        BY DEF Bound
      <4>2. used["idle"] \in Nat /\ used["idle"] < MaxIdle
        BY <2>2, <4>1 DEF ReceiveIdle, Use, TypeOK
      <4> QED BY <4>2, ControllerAssumption, FirmwareAssumption DEF EventId
    <3> QED BY <1>r, <2>1, <2>2, <3>1 DEF ReceiveIdle
  <2>3. CASE ReceiveActive(a)
    BY <1>r, <2>1, <2>3 DEF ReceiveActive
  <2> QED BY <1>1, <2>2, <2>3
<1>2. ASSUME NEW reauth \in BOOLEAN, ReceiveAgain(reauth) PROVE ExtOK(f')
  BY <1>f, <1>r, <1>2 DEF ReceiveAgain
<1>3. CASE ReceiveRevocation
  BY <1>f, <1>r, <1>3, EmptyValues DEF ReceiveRevocation
<1>4. CASE ReceiveClear \/ ReceiveIgnored
  BY <1>f, <1>4, clearCurrentAppIsCalm, CreditsAndRowsAreCalm, CalmIsEnough
     DEF ReceiveClear, ReceiveIgnored
<1>5. ASSUME NEW up \in BOOLEAN, SendVolume(up) PROVE ExtOK(f')
  <2> DEFINE dir == IF up THEN 1 ELSE -1
             g   == invalidateReconnectRestore(f)
             h   == acceptManualVolumeFeedback(g, dir)
  <2>1. h \in FirmwareState
    <3>1. dir \in Direction
      BY DEF Direction
    <3> HIDE DEF dir
    <3> QED BY <1>f, <3>1, invalidateReconnectRestoreType, acceptManualVolumeFeedbackType
  <2>2. f' = cancelVolumeRestore(h)
    BY <1>5 DEF SendVolume
  <2> HIDE DEF h
  <2> QED BY <2>1, <2>2, EndsCalmly, CalmIsEnough DEF Calm
<1>6. ASSUME NEW level \in Level, SendTargetVolume(level) PROVE ExtOK(f')
  <2> DEFINE dir == volumeDirection(f.vol, level)
             g   == acceptManualVolumeFeedback(f, dir)
             h   == setVolume(g, level, FALSE)
  <2>1. g \in FirmwareState /\ Calm(g, f)
    <3>1. SameMute(g, f) /\ g.t = f.t
      BY <1>f DEF acceptManualVolumeFeedback, SameMute, FirmwareState
    <3> HIDE DEF g
    <3> QED BY <1>f, <3>1, DirectionType, acceptManualVolumeFeedbackType, CalmIsEnough DEF g
  <2>2. h \in FirmwareState /\ ExtOK(h)
    <3>1. level \in MaybeLevel
      BY DEF MaybeLevel
    <3> HIDE DEF g
    <3> QED BY <2>1, <3>1, CalmIsEnough, setVolumeType, setVolumeKeepsExt
  <2>3. f' = invalidateReconnectRestore(h)
    BY <1>6 DEF SendTargetVolume
  <2> HIDE DEF g, h
  <2> QED BY <2>2, <2>3, CreditsAndRowsAreCalm, CalmIsEnough
<1> QED BY <1>1, <1>2, <1>3, <1>4, <1>5, <1>6 DEF HomeAssistant, WebUser

(* Reading a packet.                                                        *)
LEMMA ReadDenonKeepsExt ==
  ASSUME TypeOK, OwnerOK(f), ExtOK(f), ReadDenon
  PROVE  ExtOK(f')
<1> DEFINE r == Head(fromRx)
<1>f. f \in FirmwareState
  BY DEF TypeOK
<1>1. r \in Report
  BY HeadTailProperties DEF ReadDenon, TypeOK
<1>2. CASE r.kind = "volume"
  <2>1. r.raw \in Level
    <3> HIDE DEF r
    <3> QED BY <1>1, <1>2 DEF Report
  <2>2. f' = observeVolume(f, r.raw)
    BY <1>2 DEF ReadDenon
  <2> QED BY <1>f, <2>1, <2>2, observeVolumeKeepsExt
<1>3. CASE r.kind # "volume"
  <2>1. r.on \in BOOLEAN
    <3> HIDE DEF r
    <3> QED BY <1>1, <1>3 DEF Report
  <2>2. f' \in {observeMute(f, r.on, TRUE), observeMute(f, r.on, FALSE)}
    BY <1>3 DEF ReadDenon
  <2> QED BY <1>f, <2>1, <2>2, observeMuteKeepsExt
<1> QED BY <1>2, <1>3

(* The mute is sent again while no target runs, and a muted restore starts  *)
(* without an extension.                                                    *)
LEMMA MuteCommandsKeepExt ==
  ASSUME TypeOK, OwnerOK(f), ExtOK(f), maintainAutomaticRemute \/ StartMuteCycle
  PROVE  ExtOK(f')
<1>f. f \in FirmwareState
  BY DEF TypeOK
<1>1. CASE maintainAutomaticRemute
  <2> DEFINE g == [f EXCEPT !.remConf = TRUE, !.muteKnown = FALSE]
  <2>1. g.t = f.t /\ g.remReq = f.remReq /\ ~g.muteKnown
    BY <1>f DEF FirmwareState
  <2>2. ~(f.t.target >= 0) /\ ~f.t.ext /\ ~f.t.cycle
    BY <1>1 DEF maintainAutomaticRemute, ExtOK, ExtensionAllowed, volumeRapidExtensionAllowed
  <2>3. f' \in {g, f}
    BY <1>1 DEF maintainAutomaticRemute, Sends
  <2> HIDE DEF g
  <2>4. ExtOK(g)
    BY <2>1, <2>2 DEF ExtOK
  <2> QED BY <2>3, <2>4
<1>2. CASE StartMuteCycle
  <2> DEFINE dir    == volumeDirection(f.vol, f.t.target)
             clicks == volumeRapidClickCount(Distance(f.vol, f.t.target), 0, 0)
             armed  == armAutomaticRemuteRecovery(f, TRUE)
             unset  == armAutomaticRemuteRecovery(f, FALSE)
             s      == Clicked([armed.t EXCEPT !.obs = f.vol], f.vol, dir, clicks)
             done   == [armed EXCEPT !.muteKnown = FALSE, !.t = s]
  <2>1. /\ armed \in FirmwareState /\ armed.t = f.t
        /\ unset \in FirmwareState
    BY <1>f, armAutomaticRemuteRecoveryType, JournalOwnerOK
  <2>2. /\ f.t.target >= 0 /\ ~f.t.ext
        /\ MuteCycleRefused \/ f.t.cycle
    BY <1>2 DEF StartMuteCycle, RestoreRuns, ExtOK, MuteCycleRefused
  <2>3. s.target = f.t.target /\ s.override = f.t.override /\ s.cycle = f.t.cycle
        /\ s.ext = f.t.ext
    <3>1. f.t \in Session
      BY <1>f DEF FirmwareState
    <3> HIDE DEF armed, dir, clicks
    <3> QED BY <2>1, <3>1 DEF Clicked, Session
  <2>4. done.t = s /\ ~done.muteKnown
    <3> HIDE DEF armed, s
    <3> QED BY <2>1 DEF FirmwareState
  <2>5. MuteCycleRefused \/ ExtOK(done)
    <3> HIDE DEF done, s
    <3> QED BY <2>2, <2>3, <2>4 DEF ExtOK
  <2>6. /\ ExtOK(failVolumeRestore(f)) /\ ExtOK(completeVolumeRestore(f))
        /\ ExtOK(failVolumeRestore(armed)) /\ ExtOK(failVolumeRestore(unset))
    <3> HIDE DEF armed, unset
    <3> QED BY <1>f, <2>1, EndsCalmly, CalmIsEnough DEF Calm
  <2>7. \/ Becomes(failVolumeRestore(f)) \/ Becomes(completeVolumeRestore(f))
        \/ /\ ~MuteCycleRefused
           /\ Sends(<<Click(dir > 0, f.t.target, NoApp)>>, done, failVolumeRestore(armed))
        \/ f' = failVolumeRestore(unset)
    BY <1>2, Zenon DEF StartMuteCycle
  <2> HIDE DEF done, armed, unset, dir
  <2> QED BY <2>5, <2>6, <2>7 DEF Becomes, Sends
<1> QED BY <1>1, <1>2

(* The steps of the restore: a click uses the extension up.                 *)
LEMMA RestoreKeepsExt ==
  ASSUME TypeOK, ExtOK(f),
         \/ RestoreDeadline \/ RequestFreshStatus \/ ResponseTimeout \/ LeaseEnds
         \/ BurstClick \/ RequestMovementStatus \/ Settled \/ NextClick
  PROVE  ExtOK(f')
<1>f. f \in FirmwareState /\ f.t \in Session
  BY DEF TypeOK, FirmwareState
<1>e. ASSUME NEW g \in FirmwareState
      PROVE  ExtOK(failVolumeRestore(g)) /\ ExtOK(completeVolumeRestore(g))
  BY EndsCalmly, CalmIsEnough DEF Calm
<1>p. ASSUME NEW p, f.t.phase # "waitBurstSecond" PROVE ExtOK([f EXCEPT !.t.phase = p])
  BY <1>f, <1>p, ObservedKeepsExt DEF ExtOK
<1>1. CASE RestoreDeadline \/ ResponseTimeout \/ LeaseEnds
  BY <1>f, <1>1, <1>e DEF RestoreDeadline, ResponseTimeout, LeaseEnds, Becomes
<1>2. CASE RequestFreshStatus
  BY <1>f, <1>2, <1>e, <1>p DEF RequestFreshStatus, Sends
<1>3. CASE RequestMovementStatus \/ Settled
  <2>1. f.t.phase # "waitBurstSecond"
    BY <1>3 DEF RequestMovementStatus, Settled, Driving
  <2>2. \/ f' = failVolumeRestore(f)
        \/ \E p : f' = [f EXCEPT !.t.phase = p]
    BY <1>3, Zenon DEF RequestMovementStatus, Settled, Becomes, Sends
  <2> QED BY <1>f, <1>e, <1>p, <2>1, <2>2
<1>4. CASE BurstClick
  <2> DEFINE t == IF f.t.ext
                  THEN [f.t EXCEPT !.burst = TRUE, !.start = f.t.obs, !.planned = 1,
                                   !.sent = 0, !.ext = FALSE]
                  ELSE f.t
             sent  == t.sent + 1
             phase == IF sent >= t.planned THEN "waitMovement" ELSE t.phase
             s     == [t EXCEPT !.steps = t.steps + 1, !.sent = sent, !.phase = phase]
  <2>1. /\ t \in Session /\ t.target = f.t.target /\ t.override = f.t.override
        /\ t.cycle = f.t.cycle /\ t.unmuted = f.t.unmuted /\ ~t.ext
        /\ f.t.ext => ~(t.sent >= t.planned)
    <3>1. f.t.obs \in MaybeLevel /\ 0 \in 0..MaxClicks \cup {1} /\ 1 \in 0..MaxClicks \cup {1}
      BY <1>f, VolumeAssumption DEF Session
    <3> DEFINE x == [f.t EXCEPT !.burst = TRUE, !.start = f.t.obs, !.planned = 1,
                                !.sent = 0, !.ext = FALSE]
    <3>2. x \in Session
      BY <1>f, <3>1 DEF Session
    <3>3. /\ x.target = f.t.target /\ x.override = f.t.override /\ x.cycle = f.t.cycle
          /\ x.unmuted = f.t.unmuted /\ ~x.ext /\ x.sent = 0 /\ x.planned = 1
      BY <1>f DEF Session
    <3> HIDE DEF x
    <3>4. t = IF f.t.ext THEN x ELSE f.t
      BY DEF x
    <3> HIDE DEF t
    <3> QED BY <1>f, <3>2, <3>3, <3>4
  <2>2. Carries(s, f)
    <3>1. /\ s.target = t.target /\ s.override = t.override /\ s.cycle = t.cycle
          /\ s.unmuted = t.unmuted /\ s.ext = t.ext
      <4> HIDE DEF t, sent, phase
      <4> QED BY <2>1 DEF Session
    <3> HIDE DEF s, t
    <3> QED BY <2>1, <3>1 DEF Carries
  <2>3. [f EXCEPT !.t = t] \in FirmwareState
    <3> HIDE DEF t
    <3> QED BY <1>f, <2>1, SessionUpdate
  <2>4. \/ f' \in {failVolumeRestore(f), failVolumeRestore([f EXCEPT !.t = t])}
        \/ f' = [f EXCEPT !.t = s]
        \/ t.sent >= t.planned /\ f' = [f EXCEPT !.t.phase = "waitMovement"]
    BY <1>4, Zenon DEF BurstClick, Becomes, Sends
  <2> HIDE DEF t, s
  <2>5. ExtOK([f EXCEPT !.t = s])
    BY <1>f, <2>2, CarriesIsEnough
  <2>6. t.sent >= t.planned => ExtOK([f EXCEPT !.t.phase = "waitMovement"])
    BY <1>f, <2>1, ObservedKeepsExt
  <2> QED BY <1>f, <1>e, <2>3, <2>4, <2>5, <2>6
<1>5. CASE NextClick
  <2>1. ~f.t.ext
    BY <1>5 DEF NextClick, Driving, ExtOK
  <2> DEFINE dir    == volumeDirection(f.t.obs, f.t.target)
             turned == f.t.dir # 0 /\ dir # f.t.dir
             clicks == IF f.t.coarse
                       THEN volumeRapidClickCount(Distance(f.t.obs, f.t.target),
                                                  f.t.delta, f.t.clicks)
                       ELSE 0
             n      == [f.t EXCEPT !.reversed = f.t.reversed \/ turned]
             c      == Clicked(n, f.t.obs, dir, clicks)
  <2>2. Carries(c, f)
    <3>1. /\ c.target = f.t.target /\ c.override = f.t.override /\ c.cycle = f.t.cycle
          /\ c.unmuted = f.t.unmuted /\ c.ext = f.t.ext
      <4> HIDE DEF dir, clicks, turned
      <4> QED BY <1>f DEF Clicked, Session
    <3> HIDE DEF c
    <3> QED BY <2>1, <3>1 DEF Carries
  <2>3. f' \in {failVolumeRestore(f), completeVolumeRestore(f), [f EXCEPT !.t = c]}
    BY <1>5, Zenon DEF NextClick, Becomes, Sends
  <2> HIDE DEF c
  <2>4. ExtOK([f EXCEPT !.t = c])
    BY <1>f, <2>2, CarriesIsEnough
  <2> QED BY <1>f, <1>e, <2>3, <2>4
<1> QED BY <1>1, <1>2, <1>3, <1>4, <1>5

(* The rest of the loop, and the world.                                     *)
LEMMA RestKeepsExt ==
  ASSUME TypeOK, OwnerOK(f), ExtOK(f),
         \/ maintainManualMuteLock \/ maintainAppSwitch \/ SeesConnected
         \/ SeesDisconnected \/ StatusPoll \/ World
  PROVE  ExtOK(f')
<1>f. f \in FirmwareState
  BY DEF TypeOK
<1>1. CASE maintainManualMuteLock
  <2> DEFINE g == [f EXCEPT !.autoFb = FALSE, !.lockRaw = f.vol]
  <2>1. SameMute(g, f) /\ g.t = f.t
    BY <1>f DEF SameMute, FirmwareState
  <2>2. f' = g
    BY <1>1 DEF maintainManualMuteLock, Becomes
  <2> HIDE DEF g
  <2> QED BY <2>1, <2>2, CalmIsEnough
<1>2. CASE maintainAppSwitch
  BY <1>f, <1>2, activatePendingAppKeepsExt DEF maintainAppSwitch, Becomes
<1>3. CASE SeesConnected \/ SeesDisconnected
  BY <1>f, <1>3, ConnectEdgeKeepsExt, DisconnectEdgeKeepsExt
     DEF SeesConnected, SeesDisconnected, Becomes
<1>4. CASE StatusPoll \/ LeaseExpires \/ LearningCooldownEnds
  <2>1. /\ SameMute([f EXCEPT !.sess = TRUE], f) /\ [f EXCEPT !.sess = TRUE].t = f.t
    BY <1>f DEF SameMute, FirmwareState
  <2>2. \A x : SameMute([f EXCEPT !.curAuth = x], f) /\ [f EXCEPT !.curAuth = x].t = f.t
    BY <1>f DEF SameMute, FirmwareState
  <2>3. \A x : SameMute([f EXCEPT !.pendAuth = x], f) /\ [f EXCEPT !.pendAuth = x].t = f.t
    BY <1>f DEF SameMute, FirmwareState
  <2>4. SameMute([f EXCEPT !.quiet = TRUE], f) /\ [f EXCEPT !.quiet = TRUE].t = f.t
    BY <1>f DEF SameMute, FirmwareState
  <2>5. f' \in {[f EXCEPT !.sess = TRUE], [f EXCEPT !.curAuth = "stale"],
                [f EXCEPT !.pendAuth = "stale"], [f EXCEPT !.quiet = TRUE]}
    BY <1>4, Zenon DEF StatusPoll, LeaseExpires, LearningCooldownEnds, Becomes, Sends
  <2>6. ASSUME NEW g, SameMute(g, f), g.t = f.t PROVE ExtOK(g)
    BY <2>6, CalmIsEnough
  <2> DEFINE a == [f EXCEPT !.sess = TRUE]
             b == [f EXCEPT !.curAuth = "stale"]
             c == [f EXCEPT !.pendAuth = "stale"]
             d == [f EXCEPT !.quiet = TRUE]
  <2>7. ExtOK(a) /\ ExtOK(b) /\ ExtOK(c) /\ ExtOK(d)
    <3> HIDE DEF a, b, c, d
    <3> QED BY <2>1, <2>2, <2>3, <2>4, <2>6 DEF a, b, c, d
  <2> QED BY <2>5, <2>7
<1>5. CASE ReceiverObeys \/ UseRemote \/ LinkUp \/ LinkDown
  BY <1>5 DEF ReceiverObeys, UseRemote, LinkUp, LinkDown, Outside
<1>6. CASE PowerLoss
  <2>1. \A nv, saved : Boot(nv, saved).t = NoSession
    BY DEF Boot
  <2>2. f'.t = NoSession
    BY <1>6, <2>1 DEF PowerLoss
  <2>3. Ended(NoSession)
    BY DEF Ended, NoSession
  <2> QED BY <2>2, <2>3, CalmIsEnough DEF Calm
<1> QED BY <1>1, <1>2, <1>3, <1>4, <1>5, <1>6 DEF World

(* The invariant of the extensions, on every reachable state.               *)
LEMMA ExtIsKept == Spec => []ExtOK(f)
<1>1. Init => ExtOK(f)
  BY DEF Init, Boot, NoSession, ExtOK, None
<1>2. TypeOK /\ OwnerOK(f) /\ ExtOK(f) /\ [Next]_vars => ExtOK(f)'
  <2> SUFFICES ASSUME TypeOK, OwnerOK(f), ExtOK(f), [Next]_vars PROVE ExtOK(f')
    OBVIOUS
  <2>1. CASE UNCHANGED vars
    BY <2>1 DEF vars
  <2>2. CASE HomeAssistant \/ WebUser
    BY <2>2, RequestsKeepExt
  <2>3. CASE Loop
    BY <2>3, ReadDenonKeepsExt, RestKeepsExt, MuteCommandsKeepExt, RestoreKeepsExt
       DEF Loop, Restore
  <2>4. CASE World
    BY <2>4, RestKeepsExt
  <2> QED BY <2>1, <2>2, <2>3, <2>4 DEF Next
<1> QED BY <1>1, <1>2, TypeCorrect, OwnerIsKept, PTL DEF Spec

(* An extension that a report granted is still allowed when it is sent:     *)
(* mutes, users, updates and edges of the link in between end it with its   *)
(* target.                                                                  *)
THEOREM ExtensionsStayAllowed == Spec => []ExtensionStaysAllowed
<1>1. ExtOK(f) => ExtensionStaysAllowed
  BY DEF ExtOK, ExtensionStaysAllowed
<1> QED BY <1>1, ExtIsKept, PTL

-----------------------------------------------------------------------------
(* The link: which step sends what, and what the reports in flight say.     *)

(* A step of the firmware that hears nothing leaves the world alone.        *)
Wire == UNCHANGED <<link, rx, fromRx>>
Polls == toRx' = toRx \/ toRx' = toRx \o <<>> \/ toRx' = toRx \o <<GetStatus>>

(* A click is sent while the receiver is believed to be unmuted, or, with   *)
(* the key written, under a lease that has not run out.                     *)
Clicks ==
  /\ link /\ f.muteKnown
  /\ ~f.remReq \/ f.t.cycle
  /\ ~f.muted \/ (f.curAuth = "fresh" /\ f'.nv)
  /\ \E c \in Command : IsClick(c) /\ toRx' = Append(toRx, c)

(* A click is a command.                                                    *)
LEMMA ClickIsCommand ==
  ASSUME NEW up \in BOOLEAN, NEW goal \in MaybeLevel, NEW by \in MaybeApp
  PROVE  Click(up, goal, by) \in Command /\ IsClick(Click(up, goal, by))
<1>1. IsClick(Click(up, goal, by))
  BY DEF Click, IsClick
<1> QED BY <1>1, CommandTypes

(* A single command is appended.                                            *)
LEMMA OneMore ==
  ASSUME TypeOK, NEW c \in Command
  PROVE  toRx \o <<c>> = Append(toRx, c) /\ Append(toRx, c) # toRx
  BY DEF TypeOK

(* The HTTP handlers: only a volume key sends a click, and only to a        *)
(* receiver believed to be unmuted.                                         *)
LEMMA RequestsOnTheWire ==
  ASSUME TypeOK, HomeAssistant \/ WebUser
  PROVE  /\ Wire
         /\ toRx' = toRx \/ (Clicks /\ ~f.muted)
<1>1. CASE HomeAssistant
  BY <1>1 DEF HomeAssistant, ReceiveIdle, ReceiveAgain, ReceiveActive, ReceiveRevocation,
              ReceiveClear, ReceiveIgnored, AppEnv, Wire
<1>2. ASSUME NEW up \in BOOLEAN, SendVolume(up) PROVE Wire /\ Clicks /\ ~f.muted
  <2>1. f.cur \in MaybeApp /\ None \in MaybeLevel
    BY EmptyValues DEF TypeOK, FirmwareState
  <2>2. link /\ f.muteKnown /\ ~f.muted /\ ~f.remReq
    BY <1>2 DEF SendVolume, ManualAllowed, volumeCommandAllowed
  <2>3. Wire /\ toRx' = Append(toRx, Click(up, None, f.cur))
    BY <1>2 DEF SendVolume, Env, Wire
  <2> QED BY <2>1, <2>2, <2>3, ClickIsCommand DEF Clicks
<1>3. ASSUME NEW level \in Level, SendTargetVolume(level) PROVE Wire /\ toRx' = toRx
  BY <1>3 DEF SendTargetVolume, Env, Wire
<1> QED BY <1>1, <1>2, <1>3 DEF WebUser

(* The loop, but for the packets it reads and the mute it owes: a click is  *)
(* sent to a receiver believed to be unmuted, or under a running lease.     *)
LEMMA LoopOnTheWire ==
  ASSUME TypeOK, JournalOK(f), Loop \/ LeaseExpires \/ LearningCooldownEnds,
         ~ReadDenon, ~maintainAutomaticRemute
  PROVE  Wire /\ (Polls \/ (Clicks /\ f.sess))
<1>f. f \in FirmwareState /\ f.cur \in MaybeApp /\ f.t.target \in MaybeLevel /\ NoApp \in MaybeApp
  BY EmptyValues DEF TypeOK, FirmwareState, Session
<1>b. ASSUME NEW g, Becomes(g) PROVE Wire /\ Polls
  BY <1>b DEF Becomes, Env, Wire, Polls
<1>s. ASSUME NEW c, NEW g, NEW h, Sends(<<c>>, g, h)
      PROVE  Wire /\ (toRx' = toRx \/ (f' = g /\ toRx' = toRx \o <<c>>))
  BY <1>s DEF Sends, Env, Wire
<1>a. automaticRestoreCommandAllowed(f) => f.muteKnown /\ ~f.muted
  BY DEF automaticRestoreCommandAllowed, volumeCommandAllowed
<1>1. CASE maintainManualMuteLock \/ maintainAppSwitch \/ SeesConnected \/ SeesDisconnected
           \/ RestoreDeadline \/ ResponseTimeout \/ LeaseEnds \/ LeaseExpires
           \/ LearningCooldownEnds
  <2>1. \E g : Becomes(g)
    BY <1>1, Zenon DEF maintainManualMuteLock, maintainAppSwitch, SeesConnected,
       SeesDisconnected, RestoreDeadline, ResponseTimeout, LeaseEnds, LeaseExpires,
       LearningCooldownEnds
  <2> QED BY <1>b, <2>1
<1>2. CASE StatusPoll
  BY <1>2 DEF StatusPoll, Sends, Env, Wire, Polls
<1>3. CASE RequestFreshStatus \/ RequestMovementStatus \/ Settled
  <2>1. \/ \E g : Becomes(g)
        \/ \E g, h : Sends(<<GetStatus>>, g, h)
    BY <1>3, Zenon DEF RequestFreshStatus, RequestMovementStatus, Settled
  <2> QED BY <1>b, <1>s, <2>1 DEF Polls
<1>4. CASE StartMuteCycle
  <2> DEFINE dir    == volumeDirection(f.vol, f.t.target)
             clicks == volumeRapidClickCount(Distance(f.vol, f.t.target), 0, 0)
             armed  == armAutomaticRemuteRecovery(f, TRUE)
             done   == [armed EXCEPT !.muteKnown = FALSE,
                           !.t = Clicked([@ EXCEPT !.obs = f.vol], f.vol, dir, clicks)]
             c      == Click(dir > 0, f.t.target, NoApp)
  <2>1. RestoreRuns /\ link /\ f.sess /\ (~f.remReq \/ f.t.cycle)
    BY <1>4 DEF StartMuteCycle, RestoreRuns
  <2>2. \/ \E g : Becomes(g)
        \/ /\ ~MuteCycleRefused
           /\ Sends(<<c>>, done, failVolumeRestore(armed))
        \/ UNCHANGED <<toRx, Env>>
    BY <1>4, Zenon DEF StartMuteCycle
  <2>3. ASSUME ~MuteCycleRefused, Sends(<<c>>, done, failVolumeRestore(armed))
        PROVE  Wire /\ (Polls \/ (Clicks /\ f.sess))
    <3>1. c \in Command /\ IsClick(c)
      <4> DEFINE up == dir > 0
      <4>1. up \in BOOLEAN
        OBVIOUS
      <4> HIDE DEF up
      <4>2. Click(up, f.t.target, NoApp) \in Command /\ IsClick(Click(up, f.t.target, NoApp))
        BY <1>f, <4>1, ClickIsCommand
      <4> QED BY <4>2 DEF up
    <3> HIDE DEF c, done, armed
    <3>2. Wire /\ (toRx' = toRx \/ toRx' = toRx \o <<c>>)
      BY <1>s, <2>3
    <3>3. toRx' = toRx \o <<c>> => toRx' = Append(toRx, c) /\ toRx' # toRx
      BY <3>1, OneMore
    <3>4. toRx' = toRx \o <<c>> => f'.nv
      BY <1>4, <3>3, StartMuteCycleKeepsOK DEF StaysOK, Unheard
    <3>5. f.muteKnown /\ f.curAuth = "fresh"
      BY <2>3 DEF MuteCycleRefused
    <3> QED BY <2>1, <3>1, <3>2, <3>3, <3>4, <3>5 DEF Polls, Clicks
  <2> HIDE DEF c, done, armed
  <2> QED BY <1>b, <2>2, <2>3 DEF Env, Wire, Polls
<1>5. CASE BurstClick \/ NextClick
  <2>1. /\ RestoreRuns /\ link /\ f.sess /\ (~f.remReq \/ f.t.cycle)
        /\ f.muteKnown /\ ~f.muted
    BY <1>5, <1>a DEF BurstClick, NextClick, Driving, RestoreRuns
  <2>2. \/ \E g : Becomes(g)
        \/ \E up \in BOOLEAN, by \in MaybeApp : \E g, h : Sends(<<Click(up, f.t.target, by)>>, g, h)
    <3>1. CASE BurstClick
      <4> DEFINE t == IF f.t.ext
                      THEN [f.t EXCEPT !.burst = TRUE, !.start = f.t.obs, !.planned = 1,
                                       !.sent = 0, !.ext = FALSE]
                      ELSE f.t
                 up == t.dir > 0
                 by == IF t.auto THEN NoApp ELSE f.cur
      <4>1. up \in BOOLEAN /\ by \in MaybeApp
        BY <1>f
      <4>2. t.target = f.t.target
        BY <1>f DEF FirmwareState, Session
      <4>3. \/ \E g : Becomes(g)
            \/ \E g, h : Sends(<<Click(up, t.target, by)>>, g, h)
        BY <3>1, Zenon DEF BurstClick
      <4> HIDE DEF t, up, by
      <4> QED BY <4>1, <4>2, <4>3
    <3>2. CASE NextClick
      <4> DEFINE up == volumeDirection(f.t.obs, f.t.target) > 0
                 by == IF f.t.auto THEN NoApp ELSE f.cur
      <4>1. up \in BOOLEAN /\ by \in MaybeApp
        BY <1>f
      <4>2. \/ \E g : Becomes(g)
            \/ \E g, h : Sends(<<Click(up, f.t.target, by)>>, g, h)
        BY <3>2, Zenon DEF NextClick
      <4> HIDE DEF up, by
      <4> QED BY <4>1, <4>2
    <3> QED BY <1>5, <3>1, <3>2
  <2>3. ASSUME NEW up \in BOOLEAN, NEW by \in MaybeApp, NEW g, NEW h,
               Sends(<<Click(up, f.t.target, by)>>, g, h)
        PROVE  Wire /\ (Polls \/ (Clicks /\ f.sess))
    <3> DEFINE c == Click(up, f.t.target, by)
    <3>1. c \in Command /\ IsClick(c)
      BY <1>f, ClickIsCommand
    <3> HIDE DEF c
    <3>2. Sends(<<c>>, g, h)
      BY <2>3 DEF c
    <3>3. Wire /\ (toRx' = toRx \/ toRx' = Append(toRx, c))
      BY <1>s, <3>1, <3>2, OneMore
    <3> QED BY <2>1, <3>1, <3>3 DEF Polls, Clicks
  <2> QED BY <1>b, <2>2, <2>3
<1> QED BY <1>1, <1>2, <1>3, <1>4, <1>5 DEF Loop, Restore

(* Every step, by what it does to the link.                                 *)
LEMMA StepsOnTheWire ==
  ASSUME TypeOK, JournalOK(f), [Next]_vars
  PROVE  \/ ReadDenon \/ ReceiverObeys \/ UseRemote \/ LinkUp \/ LinkDown \/ PowerLoss
         \/ maintainAutomaticRemute
         \/ Wire /\ Unheard(f', f) /\ Polls
         \/ Wire /\ Unheard(f', f) /\ Clicks /\ (f.sess \/ ~f.muted)
<1>1. StaysOK(f, f)
  BY DEF StaysOK, Unheard
<1>2. CASE HomeAssistant \/ WebUser
  BY <1>1, <1>2, RequestsKeepOK, RequestsOnTheWire DEF StaysOK, Polls
<1>3. CASE (Loop \/ LeaseExpires \/ LearningCooldownEnds)
           /\ ~ReadDenon /\ ~maintainAutomaticRemute
  <2>1. StaysOK(f', f)
    BY <1>1, <1>3, StartMuteCycleKeepsOK, RestKeepsOK DEF Loop, Restore
  <2> QED BY <1>3, <2>1, LoopOnTheWire DEF StaysOK
<1>4. CASE UNCHANGED vars
  BY <1>4, <1>1 DEF vars, Wire, Polls, StaysOK
<1> QED BY <1>2, <1>3, <1>4 DEF Next, World, Loop, Restore

-----------------------------------------------------------------------------
(* What reports in flight say of the mute.                                  *)

NoMutes(q) == \A i \in DOMAIN q : q[i].kind # "mute"
AllSay(q, on) == \A i \in DOMAIN q : q[i].kind = "mute" => q[i].on = on
EndsWith(q, on) ==
  \A i \in DOMAIN q :
    q[i].kind = "mute" /\ (\A j \in DOMAIN q : j > i => q[j].kind # "mute") => q[i].on = on

(* Reading the oldest report.                                               *)
LEMMA OneReportRead ==
  ASSUME NEW q \in Seq(Report), q # <<>>
  PROVE  /\ \A on : EndsWith(q, on) => EndsWith(Tail(q), on)
         /\ \A on : AllSay(q, on) => AllSay(Tail(q), on)
         /\ \A on : Head(q).kind = "mute" /\ AllSay(q, on) => Head(q).on = on
         /\ \A on : (Head(q).kind = "mute" /\ NoMutes(Tail(q)) /\ EndsWith(q, on))
                      => Head(q).on = on
         /\ (Head(q).kind # "mute" /\ NoMutes(Tail(q))) => NoMutes(q)
<1> DEFINE t == Tail(q)
<1>1. /\ Len(q) \in Nat /\ DOMAIN q = 1..Len(q) /\ Len(q) >= 1
      /\ Head(q) = q[1]
      /\ DOMAIN t = 1..(Len(q) - 1)
      /\ \A i \in 1..(Len(q) - 1) : t[i] = q[i + 1]
  BY HeadTailProperties, LenProperties, EmptySeq
<1> HIDE DEF t
<1>2. ASSUME NEW on, EndsWith(q, on) PROVE EndsWith(t, on)
  <2> SUFFICES ASSUME NEW i \in DOMAIN t, t[i].kind = "mute",
                      \A j \in DOMAIN t : j > i => t[j].kind # "mute"
               PROVE  t[i].on = on
    BY DEF EndsWith
  <2>1. i + 1 \in DOMAIN q /\ q[i + 1] = t[i]
    BY <1>1
  <2>2. ASSUME NEW j \in DOMAIN q, j > i + 1 PROVE q[j].kind # "mute"
    <3>1. j - 1 \in DOMAIN t /\ j - 1 > i /\ t[j - 1] = q[j]
      BY <1>1, <2>2
    <3> QED BY <3>1
  <2> QED BY <1>2, <2>1, <2>2 DEF EndsWith
<1>3. ASSUME NEW on, AllSay(q, on) PROVE AllSay(t, on)
  BY <1>1, <1>3 DEF AllSay
<1>4. ASSUME NEW on, Head(q).kind = "mute", AllSay(q, on) PROVE Head(q).on = on
  BY <1>1, <1>4 DEF AllSay
<1>5. ASSUME NEW j \in DOMAIN q, j > 1, NoMutes(t) PROVE q[j].kind # "mute"
  <2>1. j - 1 \in DOMAIN t /\ t[j - 1] = q[j]
    BY <1>1, <1>5
  <2> QED BY <1>5, <2>1 DEF NoMutes
<1>6. ASSUME NEW on, Head(q).kind = "mute", NoMutes(t), EndsWith(q, on)
      PROVE  Head(q).on = on
  BY <1>1, <1>5, <1>6 DEF EndsWith
<1>7. ASSUME Head(q).kind # "mute", NoMutes(t) PROVE NoMutes(q)
  BY <1>1, <1>5, <1>7 DEF NoMutes
<1> QED BY <1>2, <1>3, <1>4, <1>6, <1>7 DEF t

(* Reports are added, or cut off at the end.                                *)
LEMMA MoreReports ==
  ASSUME NEW q \in Seq(Report), NEW out \in Seq(Report)
  PROVE  /\ \A on : AllSay(q, on) /\ AllSay(out, on) => AllSay(q \o out, on)
         /\ NoMutes(q \o out) => NoMutes(q) /\ NoMutes(out)
         /\ \A on, next : (EndsWith(q, on) /\ AllSay(out, next) /\ (NoMutes(out) => on = next))
                            => EndsWith(q \o out, next)
         /\ \A on : \A n \in 0..Len(q) : AllSay(q, on) => AllSay(SubSeq(q, 1, n), on)
<1> DEFINE m == Len(q)
           k == Len(out)
           r == q \o out
<1>1. /\ m \in Nat /\ DOMAIN q = 1..m /\ k \in Nat /\ DOMAIN out = 1..k
      /\ DOMAIN r = 1..(m + k)
      /\ \A i \in 1..(m + k) : r[i] = IF i <= m THEN q[i] ELSE out[i - m]
  BY ConcatProperties, LenProperties
<1>5. \A i \in 1..k : r[m + i] = out[i] /\ m + i \in 1..(m + k) /\ m + i > m
  <2> HIDE DEF r, m, k
  <2> SUFFICES ASSUME NEW i \in 1..k
               PROVE  r[m + i] = out[i] /\ m + i \in 1..(m + k) /\ m + i > m
    OBVIOUS
  <2>1. m + i \in 1..(m + k) /\ ~(m + i <= m) /\ (m + i) - m = i
    BY <1>1
  <2> QED BY <1>1, <2>1
<1>6. \A i \in 1..m : r[i] = q[i] /\ i \in 1..(m + k)
  <2> HIDE DEF r, m, k
  <2> QED BY <1>1
<1> HIDE DEF r, m, k
<1>2. ASSUME NEW on, AllSay(q, on), AllSay(out, on) PROVE AllSay(r, on)
  <2> SUFFICES ASSUME NEW i \in 1..(m + k), r[i].kind = "mute" PROVE r[i].on = on
    BY <1>1 DEF AllSay
  <2>1. CASE i <= m
    BY <1>1, <1>2, <2>1 DEF AllSay
  <2>2. CASE ~(i <= m)
    <3>1. i - m \in 1..k /\ r[i] = out[i - m]
      BY <1>1, <2>2
    <3> QED BY <1>1, <1>2, <3>1 DEF AllSay
  <2> QED BY <2>1, <2>2
<1>3. ASSUME NoMutes(r) PROVE NoMutes(q) /\ NoMutes(out)
  BY <1>1, <1>3, <1>5, <1>6 DEF NoMutes
<1>4. ASSUME NEW on, NEW next, EndsWith(q, on), AllSay(out, next), NoMutes(out) => on = next
      PROVE  EndsWith(r, next)
  <2> SUFFICES ASSUME NEW i \in 1..(m + k), r[i].kind = "mute",
                      \A j \in 1..(m + k) : j > i => r[j].kind # "mute"
               PROVE  r[i].on = next
    BY <1>1 DEF EndsWith
  <2>1. CASE i <= m
    <3>1. i \in 1..m /\ r[i] = q[i]
      BY <1>1, <2>1
    <3>2. NoMutes(out)
      <4> SUFFICES ASSUME NEW j \in 1..k PROVE out[j].kind # "mute"
        BY <1>1 DEF NoMutes
      <4>1. m + j \in 1..(m + k) /\ m + j > i /\ r[m + j] = out[j]
        BY <1>1, <1>5, <2>1
      <4> QED BY <4>1
    <3>3. \A j \in 1..m : j > i => q[j].kind # "mute"
      BY <1>6
    <3> QED BY <1>1, <1>4, <3>1, <3>2, <3>3 DEF EndsWith
  <2>2. CASE ~(i <= m)
    <3>1. i - m \in 1..k /\ r[i] = out[i - m]
      BY <1>1, <2>2
    <3> QED BY <1>1, <1>4, <3>1 DEF AllSay
  <2> QED BY <2>1, <2>2
<1>7. ASSUME NEW n \in 0..m, NEW on, AllSay(q, on) PROVE AllSay(SubSeq(q, 1, n), on)
  <2> DEFINE s == SubSeq(q, 1, n)
  <2>1. n \in Int /\ \A i \in 1..n : q[i] \in Report /\ i \in 1..m
    BY <1>1, ElementOfSeq DEF m
  <2>2. s \in Seq(Report) /\ Len(s) = n /\ \A i \in 1..n : s[i] = q[i]
    <3>1. /\ s \in Seq(Report) /\ Len(s) = IF 1 <= n THEN n - 1 + 1 ELSE 0
          /\ \A i \in 1..(n - 1 + 1) : s[i] = q[1 + i - 1]
      BY <2>1, SubSeqProperties
    <3> HIDE DEF s
    <3> QED BY <1>1, <3>1
  <2>3. DOMAIN s = 1..n
    <3> HIDE DEF s
    <3> QED BY <2>2, LenProperties
  <2> HIDE DEF s
  <2>4. AllSay(s, on)
    BY <1>1, <1>7, <2>1, <2>2, <2>3 DEF AllSay
  <2> QED BY <2>4 DEF s
<1> QED BY <1>2, <1>3, <1>4, <1>7 DEF r, m

(* What the receiver sends says how it is, and says so when that changes.   *)
LEMMA ReportsAreTrue ==
  ASSUME NEW r \in Receiver
  PROVE  /\ \A out \in Orders(r) : AllSay(out, r.muted) /\ ~NoMutes(out)
         /\ \A out \in Reports(r) :
              AllSay(out, r.muted) /\ (NoMutes(out) => rx.muted = r.muted)
<1>1. /\ MuteReport(r).kind = "mute" /\ MuteReport(r).on = r.muted
      /\ VolumeReport(r).kind = "volume"
  BY DEF MuteReport, VolumeReport
<1>2. /\ AllSay(<<MuteReport(r), VolumeReport(r)>>, r.muted)
      /\ ~NoMutes(<<MuteReport(r), VolumeReport(r)>>)
  BY <1>1 DEF AllSay, NoMutes
<1>3. /\ AllSay(<<VolumeReport(r), MuteReport(r)>>, r.muted)
      /\ ~NoMutes(<<VolumeReport(r), MuteReport(r)>>)
  BY <1>1 DEF AllSay, NoMutes
<1>4. /\ AllSay(<<VolumeReport(r)>>, r.muted)
      /\ AllSay(<<MuteReport(r)>>, r.muted) /\ ~NoMutes(<<MuteReport(r)>>)
      /\ AllSay(<<>>, r.muted)
  BY <1>1 DEF AllSay, NoMutes
<1>5. ASSUME NEW out \in Orders(r) PROVE AllSay(out, r.muted) /\ ~NoMutes(out)
  <2>1. out \in {<<MuteReport(r), VolumeReport(r)>>, <<VolumeReport(r), MuteReport(r)>>}
    BY <1>5, Zenon DEF Orders
  <2> QED BY <1>2, <1>3, <2>1
<1>6. ASSUME NEW out \in Reports(r)
      PROVE  AllSay(out, r.muted) /\ (NoMutes(out) => rx.muted = r.muted)
  <2>1. \/ out \in Orders(r)
        \/ out \in {<<VolumeReport(r)>>, <<>>} /\ r.muted = rx.muted
        \/ out = <<MuteReport(r)>>
    BY <1>6 DEF Reports
  <2> QED BY <1>4, <1>5, <2>1
<1> QED BY <1>5, <1>6

(* The receiver and its remote add true reports.                            *)
LEMMA TrueReportsAreAdded ==
  ASSUME TypeOK, TypeOK', ReceiverObeys \/ (UseRemote /\ link)
  PROVE  \E out \in Seq(Report) : /\ fromRx' = fromRx \o out
                                  /\ AllSay(out, rx'.muted)
                                  /\ NoMutes(out) => rx'.muted = rx.muted
<1>1. rx \in Receiver /\ rx' \in Receiver
  BY DEF TypeOK
<1>2. \/ \E out \in Reports(rx') : fromRx' = fromRx \o out
      \/ rx' = rx /\ \E out \in Orders(rx) : fromRx' = fromRx \o out
  BY Zenon DEF ReceiverObeys, UseRemote
<1>3. CASE \E out \in Reports(rx') : fromRx' = fromRx \o out
  <2>1. PICK out \in Reports(rx') : fromRx' = fromRx \o out
    BY <1>3
  <2>2. out \in Seq(Report)
    BY <1>1, <2>1, OrdersType
  <2>3. AllSay(out, rx'.muted) /\ (NoMutes(out) => rx.muted = rx'.muted)
    BY <1>1, <2>1, ReportsAreTrue
  <2> QED BY <2>1, <2>2, <2>3
<1>4. CASE rx' = rx /\ \E out \in Orders(rx) : fromRx' = fromRx \o out
  <2>1. PICK out \in Orders(rx) : fromRx' = fromRx \o out
    BY <1>4
  <2>2. out \in Seq(Report)
    BY <1>1, <2>1, OrdersType
  <2>3. AllSay(out, rx.muted) /\ ~NoMutes(out)
    BY <1>1, <2>1, ReportsAreTrue
  <2> QED BY <1>4, <2>1, <2>2, <2>3
<1> QED BY <1>2, <1>3, <1>4

(* While the link is up, the reports in flight end with how the receiver    *)
(* is, and when none is in flight the firmware has heard it, provided it    *)
(* has seen that the link is up.                                            *)
HeardIsTrue ==
  link => /\ EndsWith(fromRx, rx.muted)
          /\ f.was /\ f.muteKnown /\ NoMutes(fromRx) => f.muted = rx.muted

(* Every step keeps it.                                                     *)
LEMMA HeardStaysTrue ==
  ASSUME TypeOK, TypeOK', JournalOK(f), HeardIsTrue, [Next]_vars
  PROVE  HeardIsTrue'
<1>1. CASE ReadDenon
  <2> DEFINE r == Head(fromRx)
  <2>1. fromRx \in Seq(Report) /\ fromRx # <<>> /\ fromRx' = Tail(fromRx)
        /\ UNCHANGED <<link, rx>>
    BY <1>1 DEF ReadDenon, TypeOK
  <2>2. r.kind \in {"volume", "mute"}
    <3>1. r \in Report
      BY <2>1, HeadTailProperties
    <3> HIDE DEF r
    <3> QED BY <3>1 DEF Report
  <2>3. CASE r.kind = "volume"
    <3>1. Unheard(f', f)
      BY <1>1, <2>3, ReadDenonKeepsOK
    <3>2. NoMutes(fromRx') => NoMutes(fromRx)
      BY <2>1, <2>3, OneReportRead
    <3>3. EndsWith(fromRx, rx.muted) => EndsWith(fromRx', rx.muted)
      BY <2>1, OneReportRead
    <3> QED BY <2>1, <3>1, <3>2, <3>3 DEF HeardIsTrue, Unheard
  <2>4. CASE r.kind = "mute"
    <3>1. f'.muted = r.on
      BY <1>1, <2>4, ReadDenonKeepsOK
    <3>2. EndsWith(fromRx, rx.muted) => EndsWith(fromRx', rx.muted)
      BY <2>1, OneReportRead
    <3>3. (NoMutes(fromRx') /\ EndsWith(fromRx, rx.muted)) => r.on = rx.muted
      BY <2>1, <2>4, OneReportRead
    <3> QED BY <2>1, <3>1, <3>2, <3>3 DEF HeardIsTrue
  <2> QED BY <2>2, <2>3, <2>4
<1>2. CASE ReceiverObeys \/ (UseRemote /\ link)
  <2>1. PICK out \in Seq(Report) : /\ fromRx' = fromRx \o out
                                   /\ AllSay(out, rx'.muted)
                                   /\ NoMutes(out) => rx'.muted = rx.muted
    BY <1>2, TrueReportsAreAdded
  <2>2. f' = f /\ link' = link
    BY <1>2 DEF ReceiverObeys, UseRemote, Outside
  <2>3. fromRx \in Seq(Report)
    BY DEF TypeOK
  <2>4. EndsWith(fromRx, rx.muted) => EndsWith(fromRx', rx'.muted)
    BY <2>1, <2>3, MoreReports
  <2>5. NoMutes(fromRx') => NoMutes(fromRx) /\ rx'.muted = rx.muted
    BY <2>1, <2>3, MoreReports
  <2> QED BY <2>2, <2>4, <2>5 DEF HeardIsTrue
<1>3. CASE (UseRemote /\ ~link) \/ LinkDown \/ PowerLoss
  BY <1>3 DEF UseRemote, LinkDown, PowerLoss, HeardIsTrue
<1>4. CASE LinkUp
  <2>1. f' = f /\ ~f.was /\ rx' = rx /\ fromRx' = <<>>
    BY <1>4 DEF LinkUp, Outside
  <2> QED BY <2>1 DEF HeardIsTrue, EndsWith
<1>5. CASE maintainAutomaticRemute
  <2>1. UNCHANGED <<link, rx, fromRx>>
    BY <1>5 DEF maintainAutomaticRemute, Sends, Env
  <2>2. f' = f \/ ~f'.muteKnown
    BY <1>5, RemuteKeepsOK
  <2> QED BY <2>1, <2>2 DEF HeardIsTrue
<1>6. CASE Wire /\ Unheard(f', f)
  BY <1>6 DEF Wire, Unheard, HeardIsTrue
<1> QED BY <1>1, <1>2, <1>3, <1>4, <1>5, <1>6, StepsOnTheWire

(* With nothing in flight over a link that the firmware has seen come up,   *)
(* a click goes to a muted receiver only under an idle lease that has not   *)
(* run out.                                                                 *)
THEOREM MutedClicksAreGranted == Spec => MutedNeedsLease
<1>1. Init => HeardIsTrue
  BY DEF Init, HeardIsTrue
<1>2. TypeOK /\ TypeOK' /\ JournalMatchesKey /\ HeardIsTrue /\ [Next]_vars => HeardIsTrue'
  BY HeardStaysTrue DEF JournalMatchesKey, JournalOK
<1>3. TypeOK /\ JournalMatchesKey /\ HeardIsTrue /\ [Next]_vars
        => [ClickSent /\ rx.muted /\ Quiescent /\ f.was => f.curAuth = "fresh"]_vars
  <2> SUFFICES ASSUME TypeOK, JournalOK(f), HeardIsTrue, Next, ClickSent, rx.muted, Quiescent,
                      f.was
               PROVE  f.curAuth = "fresh"
    BY DEF JournalMatchesKey, JournalOK
  <2>1. Clicks
    <3>1. Len(toRx) \in Nat /\ Len(toRx') > Len(toRx) /\ toRx = <<>>
      BY DEF ClickSent, TypeOK, Quiescent
    <3>2. toRx' \notin {toRx, <<>>}
      BY <3>1
    <3>3. ~(ReadDenon \/ UseRemote \/ LinkUp)
      BY <3>2 DEF ReadDenon, UseRemote, LinkUp
    <3>4. ~(LinkDown \/ PowerLoss \/ ReceiverObeys)
      BY <3>1, <3>2 DEF LinkDown, PowerLoss, ReceiverObeys
    <3>5. ~(maintainAutomaticRemute \/ Polls)
      BY <3>2, OnlyClicksAreClicks DEF maintainAutomaticRemute, Sends, Polls
    <3> QED BY <3>3, <3>4, <3>5, StepsOnTheWire
  <2>2. f.muted = rx.muted
    <3>1. NoMutes(fromRx)
      <4>1. fromRx = <<>>
        BY DEF Quiescent
      <4> QED BY <4>1 DEF NoMutes
    <3>2. link /\ f.muteKnown
      BY <2>1 DEF Clicks
    <3> QED BY <3>1, <3>2 DEF HeardIsTrue
  <2>3. f.muted \in BOOLEAN /\ rx.muted \in BOOLEAN
    BY DEF TypeOK, FirmwareState, Receiver
  <2>4. f.muted
    BY <2>2, <2>3
  <2>5. f.muted => f.curAuth = "fresh"
    BY <2>1, <2>3 DEF Clicks
  <2> QED BY <2>4, <2>5
<1> QED BY <1>1, <1>2, <1>3, TypeCorrect, JournalIsRight, PTL DEF Spec, MutedNeedsLease

-----------------------------------------------------------------------------
(* A mute that the firmware broke: what is in flight while it is owed.      *)

NoClicks(q) == \A i \in DOMAIN q : ~IsClick(q[i])
NoGoals(q) == \A i \in DOMAIN q : IsClick(q[i]) => q[i].goal < 0

(* A broken mute is in the journal, and so is one that a click of a target  *)
(* is about to break.                                                       *)
BrokenOK == rx.broken => ~rx.muted /\ f.nv
OnItsWay == rx.muted => f.nv \/ NoGoals(toRx)

(* While a mute is to be confirmed, no click is in flight, and no report    *)
(* from before the mute that could be taken for the confirmation.           *)
ConfirmingOK == f.remConf => NoClicks(toRx) /\ (rx.muted \/ AllSay(fromRx, FALSE))

(* A mute command is alone in flight with the polls sent after it, and the  *)
(* firmware waits for what it hears next.                                   *)
MuteIsAlone ==
  \A i \in DOMAIN toRx :
    toRx[i].kind = "mute" => i = 1 /\ fromRx = <<>> /\ NoClicks(toRx) /\ ~f.muteKnown

(* Of a muted receiver the firmware has heard, and is about to hear, that   *)
(* it is muted.                                                             *)
MutedIsHeard == rx.muted => (f.muteKnown => f.muted) /\ AllSay(fromRx, TRUE)

DebtOK == BrokenOK /\ OnItsWay /\ ConfirmingOK /\ MuteIsAlone /\ MutedIsHeard

(* Until the user takes the remote.                                         *)
DebtIsKept == used.remote = 0 => DebtOK

(* The bounds count up, and the remote counts.                              *)
LEMMA RemoteCounts ==
  ASSUME TypeOK, [Next]_vars, used'.remote = 0
  PROVE  used.remote = 0 /\ ~UseRemote
<1>t. used \in [DOMAIN Bound -> Nat] /\ "remote" \in DOMAIN Bound
  BY BoundNames DEF TypeOK
<1>u. ASSUME NEW what \in DOMAIN Bound, Use(what) PROVE used.remote = 0 /\ what # "remote"
  <2>1. used' = [used EXCEPT ![what] = used[what] + 1]
    BY <1>u DEF Use
  <2>2. used'["remote"] = IF what = "remote" THEN used["remote"] + 1 ELSE used["remote"]
    BY <1>t, <2>1
  <2> QED BY <1>t, <2>2
<1>b. /\ "idle" \in DOMAIN Bound /\ "updates" \in DOMAIN Bound /\ "manual" \in DOMAIN Bound
      /\ "drops" \in DOMAIN Bound /\ "boots" \in DOMAIN Bound /\ "failures" \in DOMAIN Bound
  BY BoundNames
<1>0. ~UseRemote
  BY <1>t, <1>u DEF UseRemote
<1> SUFFICES used.remote = 0
  BY <1>0
<1>1. CASE HomeAssistant \/ WebUser
  BY <1>1, <1>b, <1>u DEF HomeAssistant, WebUser, ReceiveIdle, ReceiveAgain, ReceiveActive,
     ReceiveRevocation, ReceiveClear, ReceiveIgnored, SendVolume, SendTargetVolume
<1>2. CASE Loop \/ LeaseExpires \/ LearningCooldownEnds
  <2>1. ASSUME NEW g, Becomes(g) PROVE used.remote = 0
    BY <2>1 DEF Becomes
  <2>2. ASSUME NEW cmds, NEW g, NEW h, Sends(cmds, g, h) PROVE used.remote = 0
    BY <1>b, <1>u, <2>2 DEF Sends
  <2>3. CASE ReadDenon
    BY <1>b, <1>u, <2>3 DEF ReadDenon
  <2>4. CASE StartMuteCycle
    <3>1. \/ \E g : Becomes(g)
          \/ \E cmds, g, h : Sends(cmds, g, h)
          \/ Use("failures")
      BY <2>4, Zenon DEF StartMuteCycle
    <3> QED BY <1>b, <1>u, <2>1, <2>2, <3>1
  <2>5. CASE BurstClick \/ NextClick
    <3>1. (\E g : Becomes(g)) \/ (\E cmds, g, h : Sends(cmds, g, h))
      BY <2>5, Zenon DEF BurstClick, NextClick
    <3> QED BY <2>1, <2>2, <3>1
  <2>6. CASE Settled \/ RequestMovementStatus \/ RequestFreshStatus \/ StatusPoll
             \/ maintainAutomaticRemute
    <3>1. (\E g : Becomes(g)) \/ (\E cmds, g, h : Sends(cmds, g, h))
      BY <2>6, Zenon DEF Settled, RequestMovementStatus, RequestFreshStatus, StatusPoll,
                         maintainAutomaticRemute
    <3> QED BY <2>1, <2>2, <3>1
  <2>7. CASE maintainManualMuteLock \/ maintainAppSwitch \/ RestoreDeadline \/ ResponseTimeout
             \/ LeaseEnds \/ SeesConnected \/ SeesDisconnected \/ LeaseExpires
             \/ LearningCooldownEnds
    <3>1. \E g : Becomes(g)
      BY <2>7, Zenon DEF maintainManualMuteLock, maintainAppSwitch, RestoreDeadline,
                         ResponseTimeout, LeaseEnds, SeesConnected, SeesDisconnected,
                         LeaseExpires, LearningCooldownEnds
    <3> QED BY <2>1, <3>1
  <2> QED BY <1>2, <2>3, <2>4, <2>5, <2>6, <2>7 DEF Loop, Restore
<1>3. CASE ReceiverObeys \/ LinkUp \/ LinkDown \/ PowerLoss
  BY <1>3, <1>b, <1>u DEF ReceiverObeys, LinkUp, LinkDown, PowerLoss
<1>4. CASE UNCHANGED vars
  BY <1>4 DEF vars
<1> QED BY <1>0, <1>1, <1>2, <1>3, <1>4 DEF Next, World

(* The oldest command goes.                                                 *)
LEMMA OneCommandGone ==
  ASSUME NEW q \in Seq(Command), q # <<>>
  PROVE  /\ NoClicks(q) => NoClicks(Tail(q)) /\ ~IsClick(Head(q))
         /\ NoGoals(q) => NoGoals(Tail(q)) /\ (IsClick(Head(q)) => Head(q).goal < 0)
         /\ \A i \in DOMAIN Tail(q) : i + 1 \in DOMAIN q /\ i + 1 # 1 /\ Tail(q)[i] = q[i + 1]
         /\ 1 \in DOMAIN q /\ q[1] = Head(q)
<1> DEFINE t == Tail(q)
<1>1. /\ Len(q) \in Nat /\ DOMAIN q = 1..Len(q) /\ Len(q) >= 1
      /\ Head(q) = q[1]
      /\ DOMAIN t = 1..(Len(q) - 1)
      /\ \A i \in 1..(Len(q) - 1) : t[i] = q[i + 1]
  BY HeadTailProperties, LenProperties, EmptySeq
<1> HIDE DEF t
<1>2. \A i \in DOMAIN t : i + 1 \in DOMAIN q /\ i + 1 # 1 /\ t[i] = q[i + 1]
  BY <1>1
<1>3. 1 \in DOMAIN q /\ q[1] = Head(q)
  BY <1>1
<1>4. NoClicks(q) => NoClicks(t) /\ ~IsClick(Head(q))
  BY <1>2, <1>3 DEF NoClicks
<1>5. NoGoals(q) => NoGoals(t) /\ (IsClick(Head(q)) => Head(q).goal < 0)
  BY <1>2, <1>3 DEF NoGoals
<1> QED BY <1>2, <1>3, <1>4, <1>5 DEF t

(* A command is added.                                                      *)
LEMMA OneCommandMore ==
  ASSUME NEW q \in Seq(Command), NEW c \in Command
  PROVE  /\ NoClicks(q) /\ ~IsClick(c) => NoClicks(Append(q, c))
         /\ NoGoals(q) /\ (IsClick(c) => c.goal < 0) => NoGoals(Append(q, c))
         /\ \A i \in DOMAIN Append(q, c) :
              \/ i \in DOMAIN q /\ Append(q, c)[i] = q[i]
              \/ Append(q, c)[i] = c
<1> DEFINE a == Append(q, c)
<1>1. \A i \in DOMAIN a : (i \in DOMAIN q /\ a[i] = q[i]) \/ a[i] = c
  <2>1. Len(q) \in Nat /\ DOMAIN q = 1..Len(q) /\ DOMAIN a = 1..(Len(q) + 1)
        /\ \A i \in 1..(Len(q) + 1) : a[i] = IF i <= Len(q) THEN q[i] ELSE c
    BY AppendProperties, LenProperties
  <2> HIDE DEF a
  <2> QED BY <2>1
<1> HIDE DEF a
<1>2. NoClicks(q) /\ ~IsClick(c) => NoClicks(a)
  BY <1>1 DEF NoClicks
<1>3. NoGoals(q) /\ (IsClick(c) => c.goal < 0) => NoGoals(a)
  BY <1>1 DEF NoGoals
<1> QED BY <1>1, <1>2, <1>3 DEF a

(* Reading a packet keeps the debt: the key is erased only when the report  *)
(* is of the mute that was sent.                                            *)
LEMMA ReadDenonKeepsDebt ==
  ASSUME TypeOK, JournalOK(f), DebtOK, ReadDenon
  PROVE  /\ DebtOK'
         /\ f.nv /\ ~f'.nv => ~rx.broken
<1> DEFINE r == Head(fromRx)
<1>1. fromRx \in Seq(Report) /\ fromRx # <<>> /\ fromRx' = Tail(fromRx)
      /\ UNCHANGED <<rx, toRx>>
  BY DEF ReadDenon, TypeOK
<1>2. r.kind \in {"volume", "mute"}
  <2>1. r \in Report
    BY <1>1, HeadTailProperties
  <2> HIDE DEF r
  <2> QED BY <2>1 DEF Report
<1>3. \A on \in BOOLEAN : AllSay(fromRx, on) => AllSay(fromRx', on)
  BY <1>1, OneReportRead
<1>4. \A i \in DOMAIN toRx : toRx[i].kind # "mute"
  BY <1>1 DEF DebtOK, MuteIsAlone
<1>5. NoClicks(toRx) => NoGoals(toRx)
  BY DEF NoClicks, NoGoals
<1>6. f'.remConf => f.remConf
  BY ReadDenonKeepsOK
<1>7. MuteIsAlone'
  BY <1>1, <1>4 DEF MuteIsAlone
<1>8. ConfirmingOK'
  BY <1>1, <1>3, <1>6 DEF DebtOK, ConfirmingOK
<1>9. CASE r.kind = "volume"
  <2>1. Unheard(f', f)
    BY <1>9, ReadDenonKeepsOK
  <2>2. BrokenOK' /\ OnItsWay'
    BY <1>1, <2>1 DEF DebtOK, BrokenOK, OnItsWay, Unheard
  <2>3. MutedIsHeard'
    BY <1>1, <1>3, <2>1 DEF DebtOK, MutedIsHeard, Unheard
  <2> QED BY <1>7, <1>8, <2>1, <2>2, <2>3 DEF DebtOK, Unheard
<1>10. CASE r.kind = "mute"
  <2>1. /\ f'.muteKnown /\ f'.muted = r.on
        /\ (f.nv /\ ~(r.on /\ f.remConf)) => f'.nv
    BY <1>10, ReadDenonKeepsOK
  <2>2. \A on \in BOOLEAN : AllSay(fromRx, on) => r.on = on
    BY <1>1, <1>10, OneReportRead
  <2>3. (r.on /\ f.remConf) => NoClicks(toRx) /\ rx.muted
    BY <2>2 DEF DebtOK, ConfirmingOK
  <2>4. BrokenOK'
    BY <1>1, <2>1, <2>3 DEF DebtOK, BrokenOK
  <2>5. OnItsWay'
    BY <1>1, <1>5, <2>1, <2>3 DEF DebtOK, OnItsWay
  <2>6. MutedIsHeard'
    BY <1>1, <1>3, <2>1, <2>2 DEF DebtOK, MutedIsHeard
  <2>7. f.nv /\ ~f'.nv => ~rx.broken
    BY <2>1, <2>3 DEF DebtOK, BrokenOK
  <2> QED BY <1>7, <1>8, <2>4, <2>5, <2>6, <2>7 DEF DebtOK
<1> QED BY <1>2, <1>9, <1>10

(* The receiver that takes a command keeps the debt: a click of a target    *)
(* breaks no mute that is not journalled.                                   *)
LEMMA ReceiverObeysKeepsDebt ==
  ASSUME TypeOK, TypeOK', DebtOK, ReceiverObeys
  PROVE  DebtOK'
<1> DEFINE c == Head(toRx)
<1>1. toRx \in Seq(Command) /\ toRx # <<>> /\ toRx' = Tail(toRx) /\ f' = f
      /\ fromRx \in Seq(Report) /\ c \in Command
  BY HeadTailProperties DEF ReceiverObeys, TypeOK, Outside
<1>2. PICK out \in Seq(Report) : /\ fromRx' = fromRx \o out
                                 /\ AllSay(out, rx'.muted)
                                 /\ NoMutes(out) => rx'.muted = rx.muted
  BY TrueReportsAreAdded
<1>3. \A on : AllSay(fromRx, on) /\ AllSay(out, on) => AllSay(fromRx', on)
  BY <1>1, <1>2, MoreReports
<1>4. /\ NoClicks(toRx) => NoClicks(toRx') /\ ~IsClick(c)
      /\ NoGoals(toRx) => NoGoals(toRx') /\ (IsClick(c) => c.goal < 0)
      /\ \A i \in DOMAIN toRx' : i + 1 \in DOMAIN toRx /\ i + 1 # 1 /\ toRx'[i] = toRx[i + 1]
      /\ 1 \in DOMAIN toRx /\ toRx[1] = c
  BY <1>1, OneCommandGone
<1>5. c.kind \in {"up", "down", "status", "mute"} /\ (IsClick(c) <=> c.kind \in {"up", "down"})
  <2> HIDE DEF c
  <2> QED BY <1>1 DEF Command, IsClick
<1>6. MuteIsAlone'
  BY <1>4 DEF DebtOK, MuteIsAlone
<1>7. rx.muted \in BOOLEAN /\ rx'.muted \in BOOLEAN /\ rx.broken \in BOOLEAN
  BY DEF TypeOK, Receiver
<1>8. NoClicks(toRx) => NoGoals(toRx)
  BY DEF NoClicks, NoGoals
<1>9. CASE c.kind = "status"
  <2>1. rx' = rx
    BY <1>9 DEF ReceiverObeys
  <2>2. BrokenOK' /\ OnItsWay'
    BY <1>1, <1>4, <2>1 DEF DebtOK, BrokenOK, OnItsWay
  <2>3. ConfirmingOK'
    BY <1>1, <1>2, <1>3, <1>4, <1>7, <2>1 DEF DebtOK, ConfirmingOK
  <2>4. MutedIsHeard'
    BY <1>1, <1>2, <1>3, <1>7, <2>1 DEF DebtOK, MutedIsHeard
  <2> QED BY <1>6, <2>2, <2>3, <2>4 DEF DebtOK
<1>10. CASE c.kind = "mute"
  <2>1. rx' = [rx EXCEPT !.muted = TRUE, !.broken = FALSE]
    BY <1>10 DEF ReceiverObeys
  <2>2. rx'.muted = TRUE /\ rx'.broken = FALSE
    BY <2>1 DEF TypeOK, Receiver
  <2>3. fromRx = <<>> /\ NoClicks(toRx) /\ ~f.muteKnown
    BY <1>4, <1>10 DEF DebtOK, MuteIsAlone
  <2>4. AllSay(fromRx, TRUE)
    BY <2>3 DEF AllSay
  <2>5. BrokenOK' /\ OnItsWay'
    BY <1>4, <1>8, <2>2, <2>3 DEF BrokenOK, OnItsWay
  <2>6. ConfirmingOK'
    BY <1>4, <2>2, <2>3 DEF ConfirmingOK
  <2>7. MutedIsHeard'
    BY <1>1, <1>2, <1>3, <2>2, <2>3, <2>4 DEF MutedIsHeard
  <2> QED BY <1>6, <2>5, <2>6, <2>7 DEF DebtOK
<1>11. CASE IsClick(c)
  <2>1. PICK gain \in Gains : rx' = Moved(c, gain)
    BY <1>5, <1>11, Zenon DEF ReceiverObeys
  <2>2. rx'.muted = FALSE /\ rx'.broken = ((rx.broken \/ rx.muted) /\ c.goal >= 0)
    BY <2>1 DEF Moved
  <2>3. c.goal \in Int
    <3> HIDE DEF c
    <3> QED BY <1>1, VolumeAssumption DEF Command, MaybeLevel, Level, None
  <2>4. ~NoClicks(toRx) /\ (c.goal >= 0 => ~NoGoals(toRx))
    <3>1. ~(c.goal >= 0 /\ c.goal < 0)
      <4> HIDE DEF c
      <4> QED BY <2>3
    <3> QED BY <1>4, <1>11, <3>1
  <2>5. BrokenOK'
    BY <1>1, <2>2, <2>4 DEF DebtOK, BrokenOK, OnItsWay
  <2>6. OnItsWay' /\ MutedIsHeard'
    BY <2>2 DEF OnItsWay, MutedIsHeard
  <2>7. ConfirmingOK'
    BY <1>1, <2>4 DEF DebtOK, ConfirmingOK
  <2> QED BY <1>6, <2>5, <2>6, <2>7 DEF DebtOK
<1> QED BY <1>5, <1>9, <1>10, <1>11

(* With nothing in flight, the mute that is owed is sent.                   *)
LEMMA RemuteKeepsDebt ==
  ASSUME TypeOK, JournalOK(f), DebtOK, maintainAutomaticRemute, ~SlowLink
  PROVE  DebtOK' /\ f'.nv = f.nv
<1>1. UNCHANGED <<rx, fromRx>> /\ toRx = <<>> /\ fromRx = <<>>
  BY DEF maintainAutomaticRemute, Sends, Env, Overdue, Quiescent
<1>2. CASE f' = f /\ toRx' = toRx
  BY <1>1, <1>2 DEF DebtOK, BrokenOK, OnItsWay, ConfirmingOK, MuteIsAlone, MutedIsHeard
<1>3. CASE ~f'.muteKnown /\ f'.nv = f.nv /\ toRx' = toRx \o <<MuteOn>>
  <2>1. toRx' = <<MuteOn>>
    BY <1>1, <1>3
  <2>2. \A i \in DOMAIN toRx' : i = 1 /\ ~IsClick(toRx'[i])
    BY <2>1 DEF MuteOn, IsClick
  <2>3. NoClicks(toRx') /\ NoGoals(toRx') /\ AllSay(fromRx', TRUE) /\ AllSay(fromRx', FALSE)
    BY <1>1, <2>2 DEF NoClicks, NoGoals, AllSay
  <2>4. MuteIsAlone'
    BY <1>1, <1>3, <2>2, <2>3 DEF MuteIsAlone
  <2> QED BY <1>1, <1>3, <2>3, <2>4 DEF DebtOK, BrokenOK, OnItsWay, ConfirmingOK, MutedIsHeard
<1> QED BY <1>2, <1>3, RemuteKeepsOK

(* A poll, or nothing, is sent.                                             *)
LEMMA PollsKeepDebt ==
  ASSUME TypeOK, DebtOK, Wire, Unheard(f', f), Polls
  PROVE  DebtOK'
<1>1. GetStatus \in Command /\ ~IsClick(GetStatus) /\ GetStatus.kind # "mute"
  BY CommandTypes DEF GetStatus, IsClick
<1>2. toRx \in Seq(Command) /\ UNCHANGED <<rx, fromRx>>
  BY DEF TypeOK, Wire
<1>3. /\ NoClicks(toRx) => NoClicks(toRx')
      /\ NoGoals(toRx) => NoGoals(toRx')
      /\ \A i \in DOMAIN toRx' : toRx'[i].kind = "mute" => i \in DOMAIN toRx /\ toRx'[i] = toRx[i]
  <2>1. CASE toRx' = toRx
    BY <2>1
  <2>2. CASE toRx' = Append(toRx, GetStatus)
    BY <1>1, <1>2, <2>2, OneCommandMore
  <2>3. toRx \o <<>> = toRx /\ toRx \o <<GetStatus>> = Append(toRx, GetStatus)
    BY <1>2
  <2> QED BY <2>1, <2>2, <2>3 DEF Polls
<1>4. BrokenOK' /\ OnItsWay'
  BY <1>2, <1>3 DEF DebtOK, BrokenOK, OnItsWay, Unheard
<1>5. ConfirmingOK'
  BY <1>2, <1>3 DEF DebtOK, ConfirmingOK, Unheard
<1>6. MuteIsAlone'
  BY <1>2, <1>3 DEF DebtOK, MuteIsAlone, Unheard
<1>7. MutedIsHeard'
  BY <1>2 DEF DebtOK, MutedIsHeard, Unheard
<1> QED BY <1>4, <1>5, <1>6, <1>7 DEF DebtOK

(* A click is sent: to a receiver that is not muted, or with the key set;   *)
(* no mute is to be confirmed or on its way.                                *)
LEMMA ClicksKeepDebt ==
  ASSUME TypeOK, OwnerOK(f), DebtOK, Wire, Unheard(f', f), Clicks
  PROVE  DebtOK'
<1>1. PICK c \in Command : IsClick(c) /\ toRx' = Append(toRx, c)
  BY DEF Clicks
<1>2. toRx \in Seq(Command) /\ UNCHANGED <<rx, fromRx>>
  BY DEF TypeOK, Wire
<1>3. \A i \in DOMAIN toRx' : (i \in DOMAIN toRx /\ toRx'[i] = toRx[i]) \/ toRx'[i] = c
  BY <1>1, <1>2, OneCommandMore
<1>4. c.kind # "mute"
  BY <1>1 DEF IsClick
<1>5. \A i \in DOMAIN toRx : toRx[i].kind # "mute"
  BY DEF DebtOK, MuteIsAlone, Clicks
<1>6. MuteIsAlone'
  BY <1>3, <1>4, <1>5 DEF MuteIsAlone
<1>7. ~f.remConf
  BY DEF OwnerOK, TargetOK, AuthorityOK, Clicks
<1>8. ConfirmingOK'
  BY <1>7 DEF ConfirmingOK, Unheard
<1>9. rx.muted => f'.nv
  BY DEF DebtOK, MutedIsHeard, Clicks
<1>10. BrokenOK' /\ OnItsWay'
  BY <1>2, <1>9 DEF DebtOK, BrokenOK, OnItsWay, Unheard
<1>11. MutedIsHeard'
  BY <1>2 DEF DebtOK, MutedIsHeard, Unheard
<1> QED BY <1>6, <1>8, <1>10, <1>11 DEF DebtOK

(* The link comes and goes, and the power goes: what is in flight is lost,  *)
(* what has been received may still be read.                                *)
LEMMA FailuresKeepDebt ==
  ASSUME TypeOK, DebtOK, LinkUp \/ LinkDown \/ PowerLoss
  PROVE  DebtOK' /\ f'.nv = f.nv
<1>1. CASE LinkUp
  BY <1>1 DEF LinkUp, Outside, DebtOK, BrokenOK, OnItsWay, ConfirmingOK, MuteIsAlone,
              MutedIsHeard
<1>2. CASE LinkDown
  <2>1. f' = f /\ rx' = rx /\ toRx' = <<>>
    BY <1>2 DEF LinkDown, Outside
  <2>2. \A on : AllSay(fromRx, on) => AllSay(fromRx', on)
    <3>1. PICK n \in 0..Len(fromRx) : fromRx' = SubSeq(fromRx, 1, n)
      BY <1>2 DEF LinkDown
    <3>2. fromRx \in Seq(Report) /\ <<>> \in Seq(Report)
      BY DEF TypeOK
    <3> QED BY <3>1, <3>2, MoreReports
  <2>3. NoClicks(toRx') /\ NoGoals(toRx') /\ MuteIsAlone'
    BY <2>1 DEF NoClicks, NoGoals, MuteIsAlone
  <2> QED BY <2>1, <2>2, <2>3 DEF DebtOK, BrokenOK, OnItsWay, ConfirmingOK, MutedIsHeard
<1>3. CASE PowerLoss
  <2>1. /\ rx' = rx /\ toRx' = <<>> /\ fromRx' = <<>>
        /\ f'.nv = f.nv /\ ~f'.muteKnown /\ ~f'.remConf
    BY <1>3 DEF PowerLoss, Boot
  <2>2. NoGoals(toRx') /\ MuteIsAlone' /\ AllSay(fromRx', TRUE)
    BY <2>1 DEF NoGoals, MuteIsAlone, AllSay
  <2> QED BY <2>1, <2>2 DEF DebtOK, BrokenOK, OnItsWay, ConfirmingOK, MutedIsHeard
<1> QED BY <1>1, <1>2, <1>3

(* Every step keeps the debt, and none erases the key of a mute that is     *)
(* still broken.                                                            *)
LEMMA DebtStaysKept ==
  ASSUME TypeOK, TypeOK', JournalOK(f), OwnerOK(f), DebtIsKept, [Next]_vars, ~SlowLink
  PROVE  DebtIsKept' /\ (f.nv /\ ~f'.nv /\ used.remote = 0 => ~rx.broken)
<1>1. CASE UseRemote
  <2>1. f' = f /\ used'.remote # 0
    BY <1>1, RemoteCounts DEF UseRemote, Outside
  <2> QED BY <2>1 DEF DebtIsKept
<1>2. CASE ~UseRemote
  <2>1. ASSUME used'.remote = 0 PROVE used.remote = 0
    BY <2>1, RemoteCounts
  <2>2. ASSUME DebtOK PROVE DebtOK' /\ (f.nv /\ ~f'.nv => ~rx.broken)
    <3>1. CASE ReadDenon
      BY <2>2, <3>1, ReadDenonKeepsDebt
    <3>2. CASE ReceiverObeys
      BY <2>2, <3>2, ReceiverObeysKeepsDebt DEF ReceiverObeys, Outside
    <3>3. CASE LinkUp \/ LinkDown \/ PowerLoss
      BY <2>2, <3>3, FailuresKeepDebt
    <3>4. CASE maintainAutomaticRemute
      BY <2>2, <3>4, RemuteKeepsDebt
    <3>5. CASE Wire /\ Unheard(f', f) /\ (Polls \/ Clicks)
      BY <2>2, <3>5, PollsKeepDebt, ClicksKeepDebt DEF Unheard
    <3> QED BY <1>2, <3>1, <3>2, <3>3, <3>4, <3>5, StepsOnTheWire
  <2> QED BY <2>1, <2>2 DEF DebtIsKept
<1> QED BY <1>1, <1>2

LEMMA DebtIsAlwaysKept ==
  ASSUME ~SlowLink
  PROVE  Spec => []DebtIsKept
<1>1. Init => DebtIsKept
  <2> SUFFICES ASSUME Init PROVE DebtOK
    BY DEF DebtIsKept
  <2>1. ~rx.broken /\ toRx = <<>> /\ fromRx = <<>> /\ ~f.remConf /\ ~f.muteKnown
    BY DEF Init, Boot
  <2> QED BY <2>1 DEF DebtOK, BrokenOK, OnItsWay, ConfirmingOK, MuteIsAlone, MutedIsHeard,
                      NoGoals, AllSay
<1>2. TypeOK /\ TypeOK' /\ JournalMatchesKey /\ OwnerOK(f) /\ DebtIsKept /\ [Next]_vars
        => DebtIsKept'
  BY DebtStaysKept DEF JournalMatchesKey, JournalOK
<1> QED BY <1>1, <1>2, TypeCorrect, JournalIsRight, OwnerIsKept, PTL DEF Spec

(* Unless a timer runs out with an answer still in flight, and until the    *)
(* user takes the remote: a mute that the firmware broke is in the journal  *)
(* at every moment.                                                         *)
THEOREM BrokenMutesAreJournalled ==
  ASSUME ~SlowLink
  PROVE  Spec => []BrokenMuteIsJournalled
<1>1. DebtIsKept => BrokenMuteIsJournalled
  BY DEF DebtIsKept, DebtOK, BrokenOK, BrokenMuteIsJournalled
<1> QED BY <1>1, DebtIsAlwaysKept, PTL

(* Under the same conditions: the key is erased only when the receiver is   *)
(* muted again.                                                             *)
THEOREM KeyGoesWithTheMute ==
  ASSUME ~SlowLink
  PROVE  Spec => KeyClearedOnlyWhenRemuted
<1>1. TypeOK /\ TypeOK' /\ JournalMatchesKey /\ OwnerOK(f) /\ DebtIsKept /\ [Next]_vars
        => [f.nv /\ ~f'.nv /\ used.remote = 0 => ~rx.broken]_vars
  BY DebtStaysKept DEF JournalMatchesKey, JournalOK
<1> QED BY <1>1, TypeCorrect, JournalIsRight, OwnerIsKept, DebtIsAlwaysKept, PTL
     DEF Spec, KeyClearedOnlyWhenRemuted
=============================================================================
