------------------------ MODULE ControllerProperties ------------------------
(***************************************************************************)
(* What the firmware promises about the volume, the mute and the stored    *)
(* app rows (src/README.md, src/ACCEPTANCE.md), over the steps of          *)
(* Controller.                                                             *)
(***************************************************************************)
EXTENDS Controller

(* Every variable has its type.                                             *)
TypeOK ==
  /\ f \in FirmwareState
  /\ link \in BOOLEAN
  /\ rx \in Receiver
  /\ toRx \in Seq(Command)
  /\ fromRx \in Seq(Report)
  /\ ha \in Request
  /\ heard \in Setter
  /\ used \in [DOMAIN Bound -> Nat]

-----------------------------------------------------------------------------
(* Muted idle restores.                                                     *)

(* What RAM believes of the re-mute key in NVS is what the key says, after  *)
(* every failed write, link loss and power loss; and while the key is set   *)
(* the firmware knows that it owes the receiver a mute.                     *)
JournalMatchesKey == f.remJournal = f.nv /\ (f.nv => f.remReq)

(* The firmware never has a receiver it unmuted on its own account without  *)
(* the key in NVS saying so: a power loss at any moment leaves a marker to  *)
(* recover from (StartMuteCycle writes the key before the first click).     *)
(* Until the user takes the remote: a mute pressed with a click of a target *)
(* in flight is undone by it.                                               *)
BrokenMuteIsJournalled == rx.broken /\ used.remote = 0 => f.nv

(* The key is erased only once the receiver really is muted again, however  *)
(* late, early or doubled the mute reports are; again until the user takes  *)
(* the remote, whose mute can be taken for the one that was sent.           *)
KeyClearedOnlyWhenRemuted == [][f.nv /\ ~f'.nv /\ used.remote = 0 => ~rx.broken]_vars

IsClick(c) == c.kind \in {"up", "down"}
Sent == SubSeq(toRx', Len(toRx) + 1, Len(toRx'))
ClickSent == Len(toRx') > Len(toRx) /\ IsClick(Sent[1])

(* A mute that is owed comes before any volume command, except for those of *)
(* the muted restore that owes it: also after a restart or a reconnection.  *)
MuteComesFirst == [][ClickSent => ~f.nv \/ f.t.cycle]_vars

(* With nothing in flight over a link that the firmware has seen come up, a *)
(* click goes to a muted receiver (and so unmutes it) only under an idle    *)
(* lease that has not run out.  Before the first maintainDenon() of a link  *)
(* a handler still goes by what was heard over the last one.                *)
MutedNeedsLease ==
  [][ClickSent /\ rx.muted /\ Quiescent /\ f.was => f.curAuth = "fresh"]_vars

(* A muted restore belongs to an app that is in front and was granted it.   *)
(* No link edge, update or switch lets it live on under another app.        *)
CycleIsAuthorized ==
  f.t.cycle => /\ f.t.target >= 0 /\ f.t.auto
               /\ f.cur # NoApp /\ f.curAuth # "none" /\ f.pend = NoApp

(* Once a muted restore has sent a command it owes a mute, whatever the     *)
(* mute reports heard since then said.                                      *)
CycleIsArmed == f.t.cycle /\ f.t.steps > 0 => f.remReq

-----------------------------------------------------------------------------
(* Reaching the target.                                                     *)

(* The step ends the target as reached, and not because the lease ran out.  *)
Completes == /\ f.t.target >= 0 /\ f'.t.target < 0
             /\ f'.gen = f.gen /\ f'.quiet /\ link /\ ~LeaseLost

Untouched == used.manual + used.remote = 0

(* One app has come to the front, and nobody has touched the volume: no     *)
(* clicks of an earlier target can still be on their way.                   *)
FirstEvent == Untouched /\ used.updates = 0 /\ used.idle <= 1

(* A target that is declared reached is reached: the receiver stands there  *)
(* and no click is on its way that would take it elsewhere, until a second  *)
(* request or a user's hand, across failed writes and losses of the link    *)
(* and of the power.                                                        *)
CompletionIsExact ==
  [][Completes /\ FirstEvent
       => rx.vol = f.t.target /\ \A i \in DOMAIN toRx : ~IsClick(toRx[i])]_vars

Beyond(v, target, dir) == IF dir > 0 THEN v > target ELSE v < target

(* A burst, planned or extended by early feedback, never takes the receiver *)
(* past its target: the liability bounds prevent overshoot.                 *)
BurstStopsShort == f.t.planned > 0 => ~Beyond(rx.vol, f.t.target, f.t.dir)

(* The same of bursts of several clicks as volumeRapidClickCount plans      *)
(* them, with every click at most as strong as the code assumes at worst.   *)
PlannedBurstStopsShort ==
  f.t.burst /\ f.t.planned > 1 /\ FirstEvent => ~Beyond(rx.vol, f.t.target, f.t.dir)

(* An extension that one report granted is still allowed when the loop gets *)
(* to send it: whatever mutes, users, updates or link edges do in between   *)
(* ends the extension with the target.                                      *)
ExtensionStaysAllowed == f.t.ext => ExtensionAllowed(f, f.t.obs)

-----------------------------------------------------------------------------
(* Learning.                                                                *)

Overwritten(app) == f.saved[app] >= 0 /\ f'.saved[app] # f.saved[app]

(* A level that a restore passes through on its way never overwrites the    *)
(* level saved for an app, whether reports come late or the target is gone. *)
IntermediateNotLearned ==
  [][\A app \in Apps : Overwritten(app) => heard' # Midway]_vars

(* While nobody touches the volume, no saved level changes, whatever        *)
(* restores start, fail or are cut off.                                     *)
UntouchedIsNotLearned ==
  [][Untouched => \A app \in Apps : ~Overwritten(app)]_vars

-----------------------------------------------------------------------------
(* Events, leases and the reconnect credit.                                 *)

StartsTarget == f'.t.target >= 0 /\ (f.t.target < 0 \/ f'.gen # f.gen)

RenewsLease ==
  \/ f'.curAuth = "fresh" /\ f.curAuth # "fresh"
  \/ f'.pendAuth = "fresh" /\ f.pendAuth # "fresh"
AdmitsCandidate ==
  f'.pend # NoApp /\ f'.pendAllowed /\ ~(f.pend = f'.pend /\ f.pendAllowed)

(* A transport retry of an event already consumed grants nothing again: it  *)
(* starts no second target, lets no lease begin anew that has run out or    *)
(* was revoked, and admits no candidate, an old or a new one, to a restore. *)
RepeatStartsNothing ==
  [][ReceiveAgain(FALSE) /\ ha.event = f.lastEvent
     => ~StartsTarget /\ ~RenewsLease /\ ~AdmitsCandidate]_vars

(* An update without a playback field takes a lease away and starts nothing.*)
RevocationStartsNothing == [][ReceiveRevocation => ~StartsTarget]_vars

(* A reconnect credit is for the event consumed last, and no automatic      *)
(* target runs that it could start a second time.                           *)
CreditIsCurrent ==
  f.credit.target >= 0 => f.credit.event = f.lastEvent /\ ~f.t.auto

-----------------------------------------------------------------------------
(* Progress, under FairSpec.                                                *)

(* A receiver the firmware unmuted is muted again, or taken over by its     *)
(* user, across any power loss, link loss or failed write; a remote that    *)
(* mutes while a click is in flight is met by that click all the same.      *)
BrokenMuteIsMended ==
  rx.broken /\ used.remote = 0 ~> ~rx.broken \/ used.remote > 0

(* Every target is reached, fails or is cancelled.                          *)
TargetEnds == f.t.target >= 0 ~> f.t.target < 0

(* A switch of apps that waits out its debounce is made or called off.      *)
SwitchEnds == f.pend # NoApp ~> f.pend = NoApp
=============================================================================
