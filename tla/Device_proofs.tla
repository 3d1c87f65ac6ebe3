--------------------------- MODULE Device_proofs ----------------------------
(***************************************************************************)
(* Of the firmware around the controller: no link without a bond, and      *)
(* nothing left of a receiver that has been forgotten, however the task,   *)
(* the stack, loop() and the handlers interleave; a fixed address that is  *)
(* of one save; and who is paired stays paired, for any number of networks,*)
(* Home Assistants, tokens and failures.                                   *)
(***************************************************************************)
EXTENDS Device, TLAPS

-----------------------------------------------------------------------------
(* DenonLink.                                                               *)

(* Whoever connects has a receiver to connect to.                           *)
TaskHasTarget ==
  /\ task.pc = "none" => task = NoTask
  /\ task.pc # "none" => fw.mac \in Receivers
  /\ task.pc \in {"connecting", "opened"} => task.address \in Receivers

(* While a receiver is forgotten it stays the saved one, and no task runs.  *)
ForgetIsAlone ==
  /\ fw.forgetInProgress <=> http.pc # "none"
  /\ http.pc # "none" => task.pc = "none" /\ http.receiver \in Receivers
  /\ http.pc \notin {"none", "restart"} => fw.mac = http.receiver
  /\ http.pc = "restart" => fw.mac = NoReceiver

(* Audio is open to the saved receiver only, and the firmware knows.        *)
AudioIsTarget == \A r \in Receivers : bt.audio[r] = "open" => r = fw.mac /\ fw.connected

(* What each phase of forgetting has come to stays so.                      *)
ForgetProceeds ==
  /\ http.pc \in {"audio", "bond", "removed", "restart"} => bt.serial = NoReceiver
  /\ http.pc \in {"bond", "removed", "restart"} =>
       \A r \in Receivers : bt.audio[r] # "open"
  /\ http.pc \in {"removed", "restart"} => http.receiver \notin bt.bonds

LinkInv ==
  /\ LinkTypeOK /\ TaskHasTarget /\ ForgetIsAlone /\ AudioIsTarget
  /\ ForgetProceeds /\ LinkIsBonded

LEMMA MishapType ==
  ASSUME LinkTypeOK, NEW ok \in BOOLEAN, Works(ok) \/ LinkMishap \/ UNCHANGED linkMishaps
  PROVE  linkMishaps' \in 0..MaxLinkMishaps
BY LinkAssumption DEF Works, LinkMishap, LinkTypeOK

(* A restart leaves bonds and the saved address.                            *)
LEMMA RestartsSafely ==
  ASSUME LinkInv, NEW ready \in BOOLEAN, Restarts(ready),
         linkMishaps' \in 0..MaxLinkMishaps
  PROVE  LinkInv'
<1>1. LinkTypeOK'
  <2>1. fw' \in LinkState /\ fw'.connectInProgress = FALSE
    BY DEF Restarts, AfterBoot, LinkInv, LinkTypeOK, LinkState, Timer
  <2>2. bt' \in Stack
    BY DEF Restarts, Silence, LinkInv, LinkTypeOK, Stack, MaybeReceiver, Audio
  <2>3. task' \in Task /\ http' \in Http /\ task'.pc = "none"
    BY DEF Restarts, NoTask, NoHttp, Task, Http, MaybeReceiver
  <2> QED BY <2>1, <2>2, <2>3 DEF LinkTypeOK, Restarts, LinkInv
<1>2. TaskHasTarget' /\ ForgetIsAlone' /\ AudioIsTarget' /\ ForgetProceeds' /\ LinkIsBonded'
  BY DEF Restarts, AfterBoot, Silence, NoTask, NoHttp, TaskHasTarget, ForgetIsAlone,
         AudioIsTarget, ForgetProceeds, LinkIsBonded
<1> QED BY <1>1, <1>2 DEF LinkInv

LEMMA InitLinkInv == LinkInit => LinkInv
<1> SUFFICES ASSUME LinkInit PROVE LinkInv
  OBVIOUS
<1>1. PICK mac \in MaybeReceiver, bonds \in SUBSET Receivers :
        fw = AfterBoot(mac, bonds, TRUE) /\ bt = Silence(bonds) /\ savedMac = mac
  BY DEF LinkInit
<1>2. LinkTypeOK
  <2>1. fw \in LinkState /\ fw.connectInProgress = FALSE
    BY <1>1 DEF AfterBoot, LinkState, Timer
  <2>2. bt \in Stack
    BY <1>1 DEF Silence, Stack, MaybeReceiver, Audio
  <2>3. task \in Task /\ http \in Http /\ task.pc = "none"
    BY DEF LinkInit, NoTask, NoHttp, Task, Http, MaybeReceiver
  <2>4. fw.connectInProgress <=> task.pc # "none"
    BY <2>1, <2>3
  <2>5. savedMac \in MaybeReceiver /\ linkMishaps \in 0..MaxLinkMishaps
    BY <1>1, LinkAssumption DEF LinkInit
  <2> QED BY <2>1, <2>2, <2>3, <2>4, <2>5 DEF LinkTypeOK
<1>3. TaskHasTarget /\ ForgetIsAlone /\ AudioIsTarget /\ ForgetProceeds /\ LinkIsBonded
  BY <1>1 DEF LinkInit, AfterBoot, Silence, NoTask, NoHttp, TaskHasTarget, ForgetIsAlone,
              AudioIsTarget, ForgetProceeds, LinkIsBonded
<1> QED BY <1>2, <1>3 DEF LinkInv

(* An event of the audio profile: it moves the audio of one receiver and    *)
(* what the firmware knows of its own.                                      *)
LEMMA AudioEventIsSafe ==
  ASSUME LinkInv, NEW r \in Receivers, NEW state \in Audio, a2dpEvent(r, state)
  PROVE  LinkInv'
<1> DEFINE new == IF HangsUp(r, state) THEN "closing" ELSE state
<1>0. /\ fw \in LinkState /\ bt \in Stack /\ new \in Audio
      /\ bt' = [bt EXCEPT !.audio = [bt.audio EXCEPT ![r] = new]]
      /\ UNCHANGED <<task, http, savedMac, linkMishaps>>
  BY DEF LinkInv, LinkTypeOK, a2dpEvent, AudioOf, Audio
<1>1. /\ bt' \in Stack /\ bt'.bonds = bt.bonds /\ bt'.serial = bt.serial
      /\ bt'.audio = [bt.audio EXCEPT ![r] = new]
  BY <1>0 DEF Stack
<1>2. /\ fw' \in LinkState /\ fw'.mac = fw.mac
      /\ fw'.forgetInProgress = fw.forgetInProgress
      /\ fw'.connectInProgress = fw.connectInProgress
  <2>1. OnTarget(state) \in LinkState /\ OnTarget(state).mac = fw.mac
        /\ OnTarget(state).forgetInProgress = fw.forgetInProgress
        /\ OnTarget(state).connectInProgress = fw.connectInProgress
    <3>1. CASE state = "opening"
      BY <1>0, <3>1 DEF OnTarget, LinkState, Timer
    <3>2. CASE state = "open"
      BY <1>0, <3>2 DEF OnTarget, LinkState, Timer
    <3>3. CASE state = "closing"
      BY <1>0, <3>3 DEF OnTarget, LinkState, Timer
    <3>4. CASE state = "none"
      BY <1>0, <3>4 DEF OnTarget, LinkState, Timer
    <3> QED BY <3>1, <3>2, <3>3, <3>4 DEF Audio
  <2>2. CASE r # fw.mac
    BY <1>0, <2>2 DEF a2dpEvent
  <2>3. CASE r = fw.mac /\ HangsUp(r, state)
    BY <1>0, <2>3 DEF a2dpEvent, LinkState
  <2>4. CASE r = fw.mac /\ ~HangsUp(r, state)
    BY <2>1, <2>4 DEF a2dpEvent
  <2> QED BY <2>2, <2>3, <2>4
<1>3. new = "open" => r = fw.mac /\ fw'.connected /\ ~fw.forgetInProgress
  BY <1>0 DEF a2dpEvent, HangsUp, OnTarget, LinkState
<1>4. r # fw.mac => fw'.connected = fw.connected
  BY DEF a2dpEvent
<1>5. LinkTypeOK' /\ TaskHasTarget' /\ ForgetIsAlone' /\ LinkIsBonded'
  BY <1>0, <1>1, <1>2 DEF LinkInv, LinkTypeOK, TaskHasTarget, ForgetIsAlone, LinkIsBonded
<1>6. AudioIsTarget'
  BY <1>1, <1>2, <1>3, <1>4 DEF LinkInv, AudioIsTarget, Stack
<1>7. ForgetProceeds'
  BY <1>0, <1>1, <1>3 DEF LinkInv, ForgetIsAlone, ForgetProceeds, Stack
<1> QED BY <1>5, <1>6, <1>7 DEF LinkInv

(* A step of the firmware's variables alone that keeps what the invariant   *)
(* speaks of.                                                               *)
SameLink(f) ==
  /\ f \in LinkState
  /\ f.mac = fw.mac /\ f.connected = fw.connected
  /\ f.forgetInProgress = fw.forgetInProgress
  /\ f.connectInProgress = fw.connectInProgress

LEMMA FwStepIsSafe ==
  ASSUME LinkInv, SameLink(fw'), UNCHANGED <<task, http, bt>>,
         savedMac' \in MaybeReceiver, linkMishaps' \in 0..MaxLinkMishaps
  PROVE  LinkInv'
<1>1. LinkTypeOK'
  BY DEF LinkInv, LinkTypeOK, SameLink
<1>2. TaskHasTarget' /\ ForgetIsAlone' /\ ForgetProceeds' /\ LinkIsBonded'
  BY DEF LinkInv, TaskHasTarget, ForgetIsAlone, ForgetProceeds, LinkIsBonded, SameLink
<1>3. AudioIsTarget'
  BY DEF LinkInv, AudioIsTarget, SameLink
<1> QED BY <1>1, <1>2, <1>3 DEF LinkInv

LEMMA NoticesIsSafe ==
  ASSUME LinkInv, NoticesLink \/ TimePasses \/ HalfPasses
  PROVE  LinkInv'
<1>1. UNCHANGED <<task, http, bt, savedMac, linkMishaps>>
  BY DEF NoticesLink, TimePasses, HalfPasses
<1>2. SameLink(fw')
  <2> fw \in LinkState
    BY DEF LinkInv, LinkTypeOK
  <2>1. CASE NoticesLink
    BY <2>1 DEF NoticesLink, SameLink, LinkState, Timer
  <2>2. CASE TimePasses
    BY <2>2 DEF TimePasses, SameLink, LinkState, Timer
  <2>3. CASE HalfPasses
    BY <2>3 DEF HalfPasses, SameLink, LinkState, Timer
  <2> QED BY <2>1, <2>2, <2>3
<1> QED BY <1>1, <1>2, FwStepIsSafe DEF LinkInv, LinkTypeOK

(* A task is created only while nobody forgets and none is there.           *)
LEMMA ConnectStartsSafely ==
  ASSUME LinkInv, NEW f, SameLink(f), f.mac \in Receivers, MayConnect(f),
         NEW read \in BOOLEAN, NEW ok \in BOOLEAN, startDenonConnect(f, read, ok),
         UNCHANGED <<http, savedMac>>
  PROVE  LinkInv'
<1> DEFINE bonded == f.bonded \/ (read /\ f.mac \in bt.bonds)
<1>0. bonded \in BOOLEAN /\ bt' = bt
  BY DEF startDenonConnect
<1>m. linkMishaps' \in 0..MaxLinkMishaps
  BY MishapType DEF startDenonConnect, LinkInv
<1>1. CASE ok
  <2>1. /\ fw' = [f EXCEPT !.bonded = bonded, !.connectInProgress = TRUE]
        /\ task' = [NoTask EXCEPT !.pc = "created"]
    BY <1>1 DEF startDenonConnect
  <2>2. /\ fw' \in LinkState /\ fw'.mac = fw.mac /\ fw'.connected = fw.connected
        /\ fw'.forgetInProgress = fw.forgetInProgress /\ fw'.connectInProgress
        /\ ~fw.forgetInProgress
    BY <1>0, <2>1 DEF SameLink, LinkState, MayConnect
  <2>3. task' \in Task /\ task'.pc = "created"
    BY <2>1 DEF NoTask, Task, MaybeReceiver
  <2>4. LinkTypeOK'
    BY <1>0, <1>m, <2>2, <2>3 DEF LinkInv, LinkTypeOK
  <2>5. TaskHasTarget' /\ ForgetIsAlone' /\ AudioIsTarget'
    BY <1>0, <2>2, <2>3 DEF LinkInv, TaskHasTarget, ForgetIsAlone, AudioIsTarget, SameLink
  <2>6. ForgetProceeds' /\ LinkIsBonded'
    BY <1>0 DEF LinkInv, ForgetProceeds, LinkIsBonded
  <2> QED BY <2>4, <2>5, <2>6 DEF LinkInv
<1>2. CASE ~ok
  <2>1. fw' = [f EXCEPT !.bonded = bonded, !.nextReconnectAt = "ahead"] /\ task' = task
    BY <1>2 DEF startDenonConnect
  <2>2. SameLink(fw')
    BY <1>0, <2>1 DEF SameLink, LinkState, Timer
  <2> QED BY <1>0, <1>m, <2>1, <2>2, FwStepIsSafe DEF LinkInv, LinkTypeOK
<1> QED BY <1>1, <1>2

(* The audio profile is called for the saved receiver.                      *)
LEMMA CallStartsSafely ==
  ASSUME LinkInv, NEW f, SameLink(f), f.mac \in Receivers,
         NEW ok \in BOOLEAN, startA2dpConnect(f, ok), UNCHANGED <<http, savedMac>>
  PROVE  LinkInv'
<1>0. bt \in Stack /\ task' = task
  BY DEF LinkInv, LinkTypeOK, startA2dpConnect
<1>m. linkMishaps' \in 0..MaxLinkMishaps
  BY MishapType DEF startA2dpConnect, LinkInv
<1>1. CASE ok
  <2>1. /\ fw' = [f EXCEPT !.connecting = TRUE]
        /\ bt' = [bt EXCEPT !.audio = [bt.audio EXCEPT ![f.mac] = "opening"]]
    BY <1>1 DEF startA2dpConnect, AudioOf
  <2>2. SameLink(fw')
    BY <2>1 DEF SameLink, LinkState
  <2>3. /\ bt' \in Stack /\ bt'.bonds = bt.bonds /\ bt'.serial = bt.serial
        /\ \A r \in Receivers : bt'.audio[r] = "open" => bt.audio[r] = "open"
    BY <1>0, <2>1 DEF Stack, Audio
  <2>4. LinkTypeOK'
    BY <1>0, <1>m, <2>2, <2>3 DEF LinkInv, LinkTypeOK, SameLink
  <2>5. TaskHasTarget' /\ ForgetIsAlone' /\ AudioIsTarget'
    BY <1>0, <2>2, <2>3 DEF LinkInv, TaskHasTarget, ForgetIsAlone, AudioIsTarget, SameLink
  <2>6. ForgetProceeds' /\ LinkIsBonded'
    BY <2>3 DEF LinkInv, ForgetProceeds, LinkIsBonded
  <2> QED BY <2>4, <2>5, <2>6 DEF LinkInv
<1>2. CASE ~ok
  <2>1. fw' = [f EXCEPT !.nextA2dpReconnectAt = "ahead"] /\ bt' = bt
    BY <1>2 DEF startA2dpConnect
  <2>2. SameLink(fw')
    BY <2>1 DEF SameLink, LinkState, Timer
  <2> QED BY <1>0, <1>m, <2>1, <2>2, FwStepIsSafe DEF LinkInv, LinkTypeOK
<1> QED BY <1>1, <1>2

LEMMA MaintainIsSafe ==
  ASSUME LinkInv, NEW read \in BOOLEAN, NEW ok \in BOOLEAN, maintainDenon(read, ok)
  PROVE  LinkInv'
<1>1. SameLink(fw) /\ fw.mac \in Receivers
  BY DEF maintainDenon, SameLink, LinkInv, LinkTypeOK, LinkState, MaybeReceiver
<1>2. UNCHANGED <<http, savedMac>>
  BY DEF maintainDenon
<1>3. CASE MayConnect(fw) /\ startDenonConnect(fw, read, ok)
  BY <1>1, <1>2, <1>3, ConnectStartsSafely
<1>4. CASE startA2dpConnect(fw, ok)
  BY <1>1, <1>2, <1>4, CallStartsSafely
<1> QED BY <1>3, <1>4 DEF maintainDenon

LEMMA ReconnectIsSafe ==
  ASSUME LinkInv, NEW read \in BOOLEAN, NEW ok \in BOOLEAN, reconnectDenon(read, ok)
  PROVE  LinkInv'
<1> DEFINE serial == [Refreshed EXCEPT !.nextReconnectAt = "now"]
           audio == [Refreshed EXCEPT !.nextA2dpReconnectAt = "now"]
<1>0. /\ fw \in LinkState /\ fw.mac \in Receivers
      /\ ~fw.connectInProgress /\ ~fw.forgetInProgress /\ UNCHANGED <<http, savedMac>>
  BY DEF reconnectDenon, LinkInv, LinkTypeOK, LinkState, MaybeReceiver
<1>1. SameLink(Refreshed)
  <2>0. ASSUME NEW bonded \in BOOLEAN
        PROVE  SameLink([fw EXCEPT !.known = TRUE, !.bonded = bonded])
    BY <1>0 DEF SameLink, LinkState
  <2>1. SameLink([fw EXCEPT !.known = TRUE, !.bonded = fw.mac \in bt.bonds])
    <3>1. (fw.mac \in bt.bonds) \in BOOLEAN  OBVIOUS
    <3> QED BY <2>0, <3>1
  <2>2. SameLink(fw)
    BY <1>0 DEF SameLink
  <2> QED BY <2>1, <2>2 DEF Refreshed
<1>2. SameLink(serial) /\ SameLink(audio)
  <2>1. ASSUME NEW f, SameLink(f)
        PROVE  /\ SameLink([f EXCEPT !.nextReconnectAt = "now"])
               /\ SameLink([f EXCEPT !.nextA2dpReconnectAt = "now"])
    BY <2>1 DEF SameLink, LinkState, Timer
  <2> QED BY <1>1, <2>1
<1>3. CASE LinkMishap /\ UNCHANGED <<fw, task, bt>>
  <2>1. SameLink(fw')
    BY <1>0, <1>3 DEF SameLink
  <2>2. linkMishaps' \in 0..MaxLinkMishaps
    BY <1>3, MishapType DEF LinkInv
  <2> QED BY <1>0, <1>3, <2>1, <2>2, FwStepIsSafe DEF LinkInv, LinkTypeOK
<1>4. CASE startDenonConnect(serial, read, ok)
  <2>1. serial.mac \in Receivers /\ MayConnect(serial)
    BY <1>0, <1>2 DEF SameLink, MayConnect
  <2> QED BY <1>0, <1>2, <1>4, <2>1, ConnectStartsSafely
<1>5. CASE startA2dpConnect(audio, ok)
  <2>1. audio.mac \in Receivers
    BY <1>0, <1>2 DEF SameLink
  <2> QED BY <1>0, <1>2, <1>5, <2>1, CallStartsSafely
<1> QED BY <1>3, <1>4, <1>5 DEF reconnectDenon

(* Another receiver is saved only while none is linked or called.           *)
LEMMA SaveIsSafe ==
  ASSUME LinkInv, NEW r \in Receivers, NEW written \in BOOLEAN, NEW read \in BOOLEAN,
         saveDenon(r, written, read)
  PROVE  LinkInv'
<1>0. /\ fw \in LinkState /\ UNCHANGED <<task, http, bt>>
      /\ http.pc = "none" /\ ~fw.connectInProgress /\ ~fw.connected
  BY DEF saveDenon, Idle, Active, LinkInv, LinkTypeOK
<1>1. /\ fw' \in LinkState /\ fw'.connected = fw.connected
      /\ fw'.forgetInProgress = fw.forgetInProgress
      /\ fw'.connectInProgress = fw.connectInProgress
  <2> DEFINE saved(b) == [fw EXCEPT !.mac = r, !.known = TRUE, !.bonded = b,
                              !.nextReconnectAt = "now", !.nextA2dpReconnectAt = "now"]
  <2>0. ASSUME NEW b \in BOOLEAN
        PROVE  /\ saved(b) \in LinkState /\ saved(b).connected = fw.connected
               /\ saved(b).forgetInProgress = fw.forgetInProgress
               /\ saved(b).connectInProgress = fw.connectInProgress
    BY <1>0 DEF LinkState, Timer, MaybeReceiver
  <2>1. CASE read
    <3>1. fw' = saved(r \in bt.bonds) /\ (r \in bt.bonds) \in BOOLEAN
      BY <2>1 DEF saveDenon
    <3> HIDE DEF saved
    <3> QED BY <2>0, <3>1
  <2>2. CASE ~read
    BY <1>0, <2>2 DEF saveDenon, LinkState, MaybeReceiver
  <2> QED BY <2>1, <2>2
<1>2. savedMac' \in MaybeReceiver
  BY DEF saveDenon, MaybeReceiver, LinkInv, LinkTypeOK
<1>3. linkMishaps' \in 0..MaxLinkMishaps
  <2>1. (written /\ read) \in BOOLEAN
    OBVIOUS
  <2> QED BY <2>1, MishapType DEF saveDenon, LinkInv
<1>4. LinkTypeOK'
  BY <1>0, <1>1, <1>2, <1>3 DEF LinkInv, LinkTypeOK
<1>5. TaskHasTarget' /\ ForgetIsAlone' /\ AudioIsTarget'
  BY <1>0, <1>1 DEF LinkInv, LinkTypeOK, TaskHasTarget, ForgetIsAlone, AudioIsTarget
<1>6. ForgetProceeds' /\ LinkIsBonded'
  BY <1>0 DEF LinkInv, ForgetProceeds, LinkIsBonded
<1> QED BY <1>4, <1>5, <1>6 DEF LinkInv

-----------------------------------------------------------------------------
(* Forgetting.                                                              *)

LEMMA ForgetBeginsSafely == LinkInv /\ ForgetBegins => LinkInv'
<1> SUFFICES ASSUME LinkInv, ForgetBegins PROVE LinkInv'
  OBVIOUS
<1>1. /\ fw \in LinkState /\ fw.mac \in Receivers /\ ~fw.connectInProgress
      /\ task.pc = "none"
  BY DEF ForgetBegins, MayForget, LinkInv, LinkTypeOK, LinkState, MaybeReceiver
<1>2. /\ fw' \in LinkState /\ fw'.mac = fw.mac /\ fw'.connected = fw.connected
      /\ fw'.forgetInProgress /\ fw'.connectInProgress = fw.connectInProgress
  BY <1>1 DEF ForgetBegins, LinkState
<1>3. http' \in Http /\ http'.pc = "disconnect" /\ http'.receiver = fw.mac
  BY <1>1 DEF ForgetBegins, Http, MaybeReceiver
<1>4. UNCHANGED <<task, bt, savedMac, linkMishaps>>
  BY DEF ForgetBegins
<1>5. LinkTypeOK'
  BY <1>2, <1>3, <1>4 DEF LinkInv, LinkTypeOK
<1>6. TaskHasTarget' /\ ForgetIsAlone' /\ AudioIsTarget'
  BY <1>1, <1>2, <1>3, <1>4 DEF LinkInv, TaskHasTarget, ForgetIsAlone, AudioIsTarget
<1>7. ForgetProceeds' /\ LinkIsBonded'
  BY <1>3, <1>4 DEF LinkInv, ForgetProceeds, LinkIsBonded
<1> QED BY <1>5, <1>6, <1>7 DEF LinkInv

(* Forgetting comes to nothing, and everything goes on.                     *)
LEMMA ForgetFailsSafely ==
  ASSUME LinkInv, forgetFailed, LinkMishap, UNCHANGED <<task, bt, savedMac>>
  PROVE  LinkInv'
<1>1. /\ fw' \in LinkState /\ fw'.mac = fw.mac /\ fw'.connected = fw.connected
      /\ ~fw'.forgetInProgress /\ fw'.connectInProgress = fw.connectInProgress
  BY DEF forgetFailed, LinkInv, LinkTypeOK, LinkState
<1>2. http' \in Http /\ http'.pc = "none"
  BY DEF forgetFailed, NoHttp, Http, MaybeReceiver
<1>3. linkMishaps' \in 0..MaxLinkMishaps
  BY MishapType DEF LinkInv
<1>4. LinkTypeOK'
  BY <1>1, <1>2, <1>3 DEF LinkInv, LinkTypeOK
<1>5. TaskHasTarget' /\ ForgetIsAlone' /\ AudioIsTarget'
  BY <1>1, <1>2 DEF LinkInv, TaskHasTarget, ForgetIsAlone, AudioIsTarget
<1>6. ForgetProceeds' /\ LinkIsBonded'
  BY <1>2 DEF LinkInv, ForgetProceeds, LinkIsBonded
<1> QED BY <1>4, <1>5, <1>6 DEF LinkInv

(* It comes to the next phase, with no link and no bond more than before,   *)
(* no audio opened, and what that phase asks for.                           *)
NextPhase(pc) ==
  /\ pc \in {"audio", "bond", "removed"}
  /\ http.pc \in {"disconnect", "audio", "bond"}
  /\ ForgetStep(pc)
  /\ bt' \in Stack /\ bt'.serial = NoReceiver
  /\ \A r \in Receivers : bt'.audio[r] = "open" => bt.audio[r] = "open" /\ pc = "audio"
  /\ pc = "removed" => fw.mac \notin bt'.bonds
  /\ UNCHANGED <<task, savedMac, linkMishaps>>

LEMMA NextPhaseIsSafe ==
  ASSUME LinkInv, NEW pc, NextPhase(pc)
  PROVE  LinkInv'
<1>1. fw' = fw /\ http' \in Http /\ http'.pc = pc /\ http'.receiver = http.receiver
  BY DEF NextPhase, ForgetStep, Http, LinkInv, LinkTypeOK
<1>2. LinkTypeOK'
  BY <1>1 DEF NextPhase, LinkInv, LinkTypeOK
<1>3. TaskHasTarget' /\ ForgetIsAlone' /\ AudioIsTarget'
  BY <1>1 DEF NextPhase, LinkInv, TaskHasTarget, ForgetIsAlone, AudioIsTarget
<1>4. ForgetProceeds' /\ LinkIsBonded'
  BY <1>1 DEF NextPhase, LinkInv, ForgetIsAlone, ForgetProceeds, LinkIsBonded
<1> QED BY <1>2, <1>3, <1>4 DEF LinkInv

LEMMA ForgetDisconnectsSafely == LinkInv /\ ForgetDisconnects => LinkInv'
<1> SUFFICES ASSUME LinkInv, ForgetDisconnects PROVE LinkInv'
  OBVIOUS
<1>0. /\ bt \in Stack /\ fw \in LinkState /\ http.pc = "disconnect"
      /\ fw.mac \in Receivers /\ UNCHANGED <<task, savedMac>>
  BY DEF ForgetDisconnects, LinkInv, LinkTypeOK, ForgetIsAlone
<1>1. ASSUME /\ bt' = [bt EXCEPT !.serial = NoReceiver,
                         !.audio[fw.mac] = IF @ = "none" THEN @ ELSE "closing"]
             /\ ForgetStep("audio") /\ UNCHANGED linkMishaps
      PROVE  LinkInv'
  <2> DEFINE audio == [bt.audio EXCEPT ![fw.mac] = IF @ = "none" THEN @ ELSE "closing"]
  <2>1. /\ bt' = [bt EXCEPT !.serial = NoReceiver, !.audio = audio]
        /\ audio \in [Receivers -> Audio]
        /\ \A r \in Receivers : audio[r] = "open" => bt.audio[r] = "open"
    BY <1>0, <1>1 DEF Stack, Audio
  <2>2. /\ bt' \in Stack /\ bt'.serial = NoReceiver /\ bt'.audio = audio
    BY <1>0, <2>1 DEF Stack, MaybeReceiver
  <2>3. NextPhase("audio")
    BY <1>0, <1>1, <2>1, <2>2 DEF NextPhase
  <2> QED BY <2>3, NextPhaseIsSafe
<1>2. ASSUME ~Active, bt' = [bt EXCEPT !.serial = NoReceiver], ForgetStep("bond"),
             UNCHANGED linkMishaps
      PROVE  LinkInv'
  <2>1. /\ bt' \in Stack /\ bt'.serial = NoReceiver /\ bt'.audio = bt.audio
    BY <1>0, <1>2 DEF Stack, MaybeReceiver
  <2>2. \A r \in Receivers : bt.audio[r] # "open"
    BY <1>2 DEF Active, LinkInv, AudioIsTarget
  <2>3. NextPhase("bond")
    BY <1>0, <1>2, <2>1, <2>2 DEF NextPhase
  <2> QED BY <2>3, NextPhaseIsSafe
<1>3. ASSUME forgetFailed, LinkMishap, UNCHANGED bt PROVE LinkInv'
  BY <1>0, <1>3, ForgetFailsSafely
<1> QED BY <1>1, <1>2, <1>3 DEF ForgetDisconnects

LEMMA ForgetWaitsSafely == LinkInv /\ ForgetWaits => LinkInv'
<1> SUFFICES ASSUME LinkInv, ForgetWaits PROVE LinkInv'
  OBVIOUS
<1>0. bt \in Stack /\ http.pc = "audio" /\ UNCHANGED <<task, bt, savedMac>>
  BY DEF ForgetWaits, LinkInv, LinkTypeOK
<1>1. ASSUME ~Active, ForgetStep("bond"), UNCHANGED linkMishaps PROVE LinkInv'
  <2>1. bt.serial = NoReceiver /\ \A r \in Receivers : bt.audio[r] # "open"
    BY <1>0, <1>1 DEF Active, LinkInv, AudioIsTarget, ForgetProceeds
  <2>2. NextPhase("bond")
    BY <1>0, <1>1, <2>1 DEF NextPhase
  <2> QED BY <2>2, NextPhaseIsSafe
<1>2. ASSUME forgetFailed, LinkMishap PROVE LinkInv'
  BY <1>0, <1>2, ForgetFailsSafely
<1> QED BY <1>1, <1>2 DEF ForgetWaits

LEMMA ForgetRemovesSafely == LinkInv /\ ForgetRemoves => LinkInv'
<1> SUFFICES ASSUME LinkInv, ForgetRemoves PROVE LinkInv'
  OBVIOUS
<1>0. bt \in Stack /\ http.pc = "bond" /\ UNCHANGED <<task, savedMac>>
  BY DEF ForgetRemoves, LinkInv, LinkTypeOK
<1>1. ASSUME bt' = [bt EXCEPT !.bonds = @ \ {fw.mac}], ForgetStep("removed"),
             UNCHANGED linkMishaps
      PROVE  LinkInv'
  <2>1. /\ bt' \in Stack /\ bt'.serial = bt.serial /\ bt'.audio = bt.audio
        /\ fw.mac \notin bt'.bonds
    BY <1>0, <1>1 DEF Stack
  <2>2. bt.serial = NoReceiver /\ \A r \in Receivers : bt.audio[r] # "open"
    BY <1>0 DEF LinkInv, ForgetProceeds
  <2>3. NextPhase("removed")
    BY <1>0, <1>1, <2>1, <2>2 DEF NextPhase
  <2> QED BY <2>3, NextPhaseIsSafe
<1>2. ASSUME forgetFailed, LinkMishap, UNCHANGED bt PROVE LinkInv'
  BY <1>0, <1>2, ForgetFailsSafely
<1> QED BY <1>1, <1>2 DEF ForgetRemoves

LEMMA ForgetAnswersSafely ==
  ASSUME LinkInv, NEW written \in BOOLEAN, ForgetAnswers(written)
  PROVE  LinkInv'
<1>0. fw \in LinkState /\ http \in Http /\ http.pc = "removed" /\ UNCHANGED <<task, bt>>
  BY DEF ForgetAnswers, LinkInv, LinkTypeOK
<1>1. /\ fw' \in LinkState /\ fw'.mac = NoReceiver /\ fw'.connected = fw.connected
      /\ fw'.forgetInProgress = fw.forgetInProgress
      /\ fw'.connectInProgress = fw.connectInProgress
  BY <1>0 DEF ForgetAnswers, LinkState, MaybeReceiver
<1>2. http' \in Http /\ http'.pc = "restart" /\ http'.receiver = http.receiver
  BY <1>0 DEF ForgetAnswers, Http
<1>3. savedMac' \in MaybeReceiver /\ linkMishaps' \in 0..MaxLinkMishaps
  BY MishapType DEF ForgetAnswers, MaybeReceiver, LinkInv, LinkTypeOK
<1>4. LinkTypeOK'
  BY <1>0, <1>1, <1>2, <1>3 DEF LinkInv, LinkTypeOK
<1>5. TaskHasTarget' /\ ForgetIsAlone'
  BY <1>0, <1>1, <1>2 DEF LinkInv, TaskHasTarget, ForgetIsAlone
<1>6. AudioIsTarget' /\ ForgetProceeds' /\ LinkIsBonded'
  BY <1>0, <1>2 DEF LinkInv, AudioIsTarget, ForgetProceeds, LinkIsBonded
<1> QED BY <1>4, <1>5, <1>6 DEF LinkInv

-----------------------------------------------------------------------------
(* The serial link and the task.                                            *)

LEMMA PairsSafely ==
  ASSUME LinkInv, NEW r \in Receivers, Pairs(r)
  PROVE  LinkInv'
<1>1. /\ UNCHANGED <<fw, task, http, savedMac, linkMishaps>>
      /\ ~fw.forgetInProgress /\ bt \in Stack
  BY DEF Pairs, LinkInv, LinkTypeOK
<1>2. /\ bt' \in Stack /\ bt'.serial = bt.serial /\ bt'.audio = bt.audio
      /\ bt'.bonds = bt.bonds \cup {r}
  BY <1>1 DEF Pairs, Stack
<1>3. LinkTypeOK' /\ TaskHasTarget' /\ ForgetIsAlone' /\ AudioIsTarget'
  BY <1>1, <1>2 DEF LinkInv, LinkTypeOK, TaskHasTarget, ForgetIsAlone, AudioIsTarget
<1>4. ForgetProceeds' /\ LinkIsBonded'
  BY <1>1, <1>2 DEF LinkInv, ForgetIsAlone, ForgetProceeds, LinkIsBonded
<1> QED BY <1>3, <1>4 DEF LinkInv

LEMMA LinkIsLostSafely == LinkInv /\ LinkIsLost => LinkInv'
<1> SUFFICES ASSUME LinkInv, LinkIsLost PROVE LinkInv'
  OBVIOUS
<1>1. UNCHANGED <<fw, task, http, savedMac, linkMishaps>> /\ bt \in Stack
  BY DEF LinkIsLost, LinkInv, LinkTypeOK
<1>2. /\ bt' \in Stack /\ bt'.serial = NoReceiver /\ bt'.audio = bt.audio
      /\ bt'.bonds = bt.bonds
  BY <1>1 DEF LinkIsLost, Stack, MaybeReceiver
<1>3. LinkTypeOK' /\ TaskHasTarget' /\ ForgetIsAlone' /\ AudioIsTarget'
  BY <1>1, <1>2 DEF LinkInv, LinkTypeOK, TaskHasTarget, ForgetIsAlone, AudioIsTarget
<1>4. ForgetProceeds' /\ LinkIsBonded'
  BY <1>1, <1>2 DEF LinkInv, ForgetProceeds, LinkIsBonded
<1> QED BY <1>3, <1>4 DEF LinkInv

(* The task ends; a link it opened may end with it.                         *)
LEMMA TaskEndsSafely ==
  ASSUME LinkInv, NEW bonded \in BOOLEAN, TaskEnds(bonded), task.pc # "none",
         bt' = bt \/ bt' = [bt EXCEPT !.serial = NoReceiver],
         UNCHANGED <<http, savedMac>>, linkMishaps' \in 0..MaxLinkMishaps
  PROVE  LinkInv'
<1>1. /\ fw' \in LinkState /\ fw'.mac = fw.mac /\ fw'.connected = fw.connected
      /\ fw'.forgetInProgress = fw.forgetInProgress /\ ~fw'.connectInProgress
  BY DEF TaskEnds, LinkInv, LinkTypeOK, LinkState, Timer
<1>2. task' = NoTask /\ task' \in Task /\ task'.pc = "none"
  BY DEF TaskEnds, NoTask, Task, MaybeReceiver
<1>3. /\ bt' \in Stack /\ bt'.serial \in {bt.serial, NoReceiver}
      /\ bt'.audio = bt.audio /\ bt'.bonds = bt.bonds
  BY DEF LinkInv, LinkTypeOK, Stack, MaybeReceiver
<1>4. LinkTypeOK'
  BY <1>1, <1>2, <1>3 DEF LinkInv, LinkTypeOK
<1>5. TaskHasTarget' /\ ForgetIsAlone' /\ AudioIsTarget'
  BY <1>1, <1>2, <1>3 DEF LinkInv, TaskHasTarget, ForgetIsAlone, AudioIsTarget
<1>6. ForgetProceeds' /\ LinkIsBonded'
  BY <1>3 DEF LinkInv, ForgetProceeds, LinkIsBonded
<1> QED BY <1>4, <1>5, <1>6 DEF LinkInv

LEMMA TaskStartsSafely == LinkInv /\ TaskStarts => LinkInv'
<1> SUFFICES ASSUME LinkInv, TaskStarts PROVE LinkInv'
  OBVIOUS
<1>0. /\ task.pc = "created" /\ fw.mac \in Receivers /\ fw \in LinkState
      /\ UNCHANGED <<http, bt, savedMac, linkMishaps>>
  BY DEF TaskStarts, LinkInv, LinkTypeOK, TaskHasTarget
<1>1. CASE fw' = fw /\ task' = [pc |-> "connecting", address |-> fw.mac]
  <2>1. task' \in Task /\ task'.pc = "connecting" /\ task'.address = fw.mac
    BY <1>0, <1>1 DEF Task, MaybeReceiver
  <2>2. LinkTypeOK'
    BY <1>0, <1>1, <2>1 DEF LinkInv, LinkTypeOK
  <2>3. TaskHasTarget' /\ ForgetIsAlone' /\ AudioIsTarget'
    BY <1>0, <1>1, <2>1 DEF LinkInv, TaskHasTarget, ForgetIsAlone, AudioIsTarget
  <2>4. ForgetProceeds' /\ LinkIsBonded'
    BY <1>0 DEF LinkInv, ForgetProceeds, LinkIsBonded
  <2> QED BY <2>2, <2>3, <2>4 DEF LinkInv
<1>2. CASE task' = NoTask /\ fw' = [fw EXCEPT !.connectInProgress = FALSE]
  <2>1. /\ fw' \in LinkState /\ fw'.mac = fw.mac /\ fw'.connected = fw.connected
        /\ fw'.forgetInProgress = fw.forgetInProgress /\ ~fw'.connectInProgress
    BY <1>0, <1>2 DEF LinkState
  <2>2. task' \in Task /\ task'.pc = "none"
    BY <1>2 DEF NoTask, Task, MaybeReceiver
  <2>3. LinkTypeOK'
    BY <1>0, <2>1, <2>2 DEF LinkInv, LinkTypeOK
  <2>4. TaskHasTarget' /\ ForgetIsAlone' /\ AudioIsTarget'
    BY <1>0, <1>2, <2>1, <2>2 DEF LinkInv, TaskHasTarget, ForgetIsAlone, AudioIsTarget
  <2>5. ForgetProceeds' /\ LinkIsBonded'
    BY <1>0 DEF LinkInv, ForgetProceeds, LinkIsBonded
  <2> QED BY <2>3, <2>4, <2>5 DEF LinkInv
<1> QED BY <1>1, <1>2 DEF TaskStarts

(* The link opens over a bond that authentication uses or makes; nobody is  *)
(* forgetting, since a task runs.                                           *)
LEMMA TaskConnectsSafely == LinkInv /\ TaskConnects => LinkInv'
<1> SUFFICES ASSUME LinkInv, TaskConnects PROVE LinkInv'
  OBVIOUS
<1>0. /\ task.pc = "connecting" /\ task.address \in Receivers /\ bt \in Stack
      /\ http.pc = "none" /\ UNCHANGED <<fw, http, savedMac, linkMishaps>>
  BY DEF TaskConnects, LinkInv, LinkTypeOK, TaskHasTarget, ForgetIsAlone
<1>1. task' \in Task /\ task'.pc = "opened" /\ task'.address = task.address
  BY <1>0 DEF TaskConnects, LinkInv, LinkTypeOK, Task
<1>2. /\ bt' \in Stack /\ bt'.serial = task.address /\ bt'.audio = bt.audio
      /\ bt'.bonds = bt.bonds \cup {task.address}
  BY <1>0 DEF TaskConnects, Stack, MaybeReceiver
<1>3. LinkTypeOK'
  BY <1>0, <1>1, <1>2 DEF LinkInv, LinkTypeOK
<1>4. TaskHasTarget' /\ ForgetIsAlone' /\ AudioIsTarget'
  BY <1>0, <1>1, <1>2 DEF LinkInv, TaskHasTarget, ForgetIsAlone, AudioIsTarget
<1>5. ForgetProceeds' /\ LinkIsBonded'
  BY <1>0, <1>2 DEF ForgetProceeds, LinkIsBonded
<1> QED BY <1>3, <1>4, <1>5 DEF LinkInv

LEMMA TaskStepsSafely == LinkInv /\ TaskSteps => LinkInv'
<1> SUFFICES ASSUME LinkInv, TaskSteps PROVE LinkInv'
  OBVIOUS
<1>1. CASE TaskFails
  <2>1. fw.bonded \in BOOLEAN
    BY DEF LinkInv, LinkTypeOK, LinkState
  <2> QED BY <1>1, <2>1, TaskEndsSafely DEF TaskFails, LinkInv, LinkTypeOK
<1>2. ASSUME NEW ok \in BOOLEAN, TaskChecks(ok) PROVE LinkInv'
  <2> DEFINE bonded == fw.bonded \/ (ok /\ fw.mac \in bt.bonds)
  <2>1. bonded \in BOOLEAN
    OBVIOUS
  <2>2. linkMishaps' \in 0..MaxLinkMishaps
    BY <1>2, MishapType DEF TaskChecks, LinkInv
  <2>3. /\ task.pc # "none" /\ TaskEnds(bonded) /\ UNCHANGED <<http, savedMac>>
        /\ bt' = bt \/ bt' = [bt EXCEPT !.serial = NoReceiver]
    BY <1>2 DEF TaskChecks
  <2> QED BY <2>1, <2>2, <2>3, TaskEndsSafely
<1> QED BY <1>1, <1>2, TaskStartsSafely, TaskConnectsSafely DEF TaskSteps

-----------------------------------------------------------------------------
LEMMA EventsAreSafe == LinkInv /\ BluetoothEvents => LinkInv'
<1> SUFFICES ASSUME LinkInv, BluetoothEvents PROVE LinkInv'
  OBVIOUS
<1>1. CASE LinkIsLost
  BY <1>1, LinkIsLostSafely
<1>2. ASSUME NEW r \in Receivers,
             Calls(r) \/ Pairs(r) \/ GetsThrough(r) \/ HangsUpItself(r) \/ Ends(r)
      PROVE  LinkInv'
  <2>1. {"none", "opening", "open", "closing"} = Audio
    BY DEF Audio
  <2> QED BY <1>2, <2>1, AudioEventIsSafe, PairsSafely
          DEF Calls, GetsThrough, HangsUpItself, Ends
<1> QED BY <1>1, <1>2 DEF BluetoothEvents

LEMMA ForgetsSafely == LinkInv /\ Forgets => LinkInv'
<1> SUFFICES ASSUME LinkInv, Forgets PROVE LinkInv'
  OBVIOUS
<1>1. ASSUME NEW ready \in BOOLEAN, ForgetRestarts(ready) PROVE LinkInv'
  BY <1>1, RestartsSafely, MishapType DEF ForgetRestarts, LinkInv
<1> QED BY <1>1, ForgetDisconnectsSafely, ForgetWaitsSafely, ForgetRemovesSafely,
        ForgetAnswersSafely DEF Forgets

LEMMA PowerLossIsSafe == LinkInv /\ PowerIsLost => LinkInv'
<1> SUFFICES ASSUME LinkInv, PowerIsLost PROVE LinkInv'
  OBVIOUS
<1>1. linkMishaps' \in 0..MaxLinkMishaps
  BY MishapType DEF PowerIsLost, LinkInv
<1> QED BY <1>1, RestartsSafely DEF PowerIsLost

LEMMA LinkStepIsSafe == LinkInv /\ [LinkNext]_linkVars => LinkInv'
<1> SUFFICES ASSUME LinkInv, [LinkNext]_linkVars PROVE LinkInv'
  OBVIOUS
<1>1. CASE LinkRequests
  BY <1>1, ForgetBeginsSafely, ReconnectIsSafe, SaveIsSafe DEF LinkRequests
<1>2. CASE Maintains
  BY <1>2, MaintainIsSafe DEF Maintains
<1>3. CASE UNCHANGED linkVars
  <2>1. SameLink(fw')
    BY <1>3 DEF linkVars, SameLink, LinkInv, LinkTypeOK
  <2> QED BY <1>3, <2>1, FwStepIsSafe DEF linkVars, LinkInv, LinkTypeOK
<1> QED BY <1>1, <1>2, <1>3, EventsAreSafe, TaskStepsSafely, NoticesIsSafe, ForgetsSafely,
        PowerLossIsSafe DEF LinkNext

-----------------------------------------------------------------------------
(* Pairing.                                                                 *)

(* What OwnerIsKept needs: nobody holds a token that has not been made up,  *)
(* so that a new one is nobody's, and no two hold the same one.             *)
TokensAreIssued == lock.token <= lock.issued /\ \A h \in Hubs : hub[h].token <= lock.issued
TokensAreOwn ==
  \A g, h \in Hubs : g # h /\ hub[g].token = hub[h].token => hub[g].token = 0

PairInv == PairTypeOK /\ TokensAreIssued /\ TokensAreOwn


LEMMA NewHubType ==
  ASSUME NEW token \in Token
  PROVE  NewHub(token) \in Hub /\ NewHub(token).token = token
BY DEF NewHub, Hub

(* A step that makes up no token and gives nobody another one.              *)
LEMMA KeptTokens ==
  ASSUME PairInv, PairTypeOK', lock'.issued = lock.issued,
         lock'.token \in {0, lock.token},
         \A h \in Hubs : hub'[h].token \in {0, hub[h].token}
  PROVE  PairInv'
<1>1. lock.issued \in Nat /\ lock.token \in Nat /\ \A h \in Hubs : hub[h].token \in Nat
  BY PairingAssumption DEF PairInv, PairTypeOK, Lock, Hub, Token
<1>2. TokensAreIssued'
  BY <1>1 DEF PairInv, TokensAreIssued
<1>3. TokensAreOwn'
  BY <1>1 DEF PairInv, TokensAreOwn
<1> QED BY <1>2, <1>3 DEF PairInv

(* A device that restarts loads the token it had.                           *)
LEMMA RebootsType ==
  ASSUME PairInv, Reboots
  PROVE  /\ lock' \in Lock /\ lock'.token = lock'.saved
         /\ lock'.token = lock.token /\ lock'.issued = lock.issued
BY DEF PairInv, PairTypeOK, Reboots, Lock

(* What a step of the device leaves of its own variables.                   *)
DeviceSteps ==
  \/ LockLosesPower \/ LockJoins \/ LockLeaves \/ WindowTurns \/ ButtonSteps

LEMMA DeviceKeepsTokens ==
  ASSUME PairInv, DeviceSteps
  PROVE  /\ PairTypeOK'
         /\ lock'.issued = lock.issued /\ hub' = hub
         /\ lock'.token = lock.token \/ (lock'.token = 0 /\ lock'.button = "armed")
<1> USE DEF PairInv, PairTypeOK, Lock, Token
<1>0. 0 \in 0..MaxToken
  BY PairingAssumption
<1>m. PairMishap => pairMishaps' \in 0..MaxPairMishaps
  BY PairingAssumption DEF PairMishap
<1>1. CASE LockLosesPower
  BY <1>1, <1>m, RebootsType DEF LockLosesPower
<1>2. CASE LockJoins \/ LockLeaves \/ WindowTurns
  BY <1>2 DEF LockJoins, LockLeaves, WindowTurns
<1>3. CASE ButtonGoesDown \/ ButtonIsTimed \/ TenSecondsPass
  BY <1>3 DEF ButtonGoesDown, ButtonIsTimed, TenSecondsPass
<1>4. CASE ButtonGoesUp
  BY <1>4, RebootsType DEF ButtonGoesUp
<1>5. ASSUME NEW removed \in BOOLEAN, ButtonResets(removed)
      PROVE  /\ PairTypeOK'
             /\ lock'.issued = lock.issued /\ hub' = hub
             /\ lock'.token = lock.token \/ (lock'.token = 0 /\ lock'.button = "armed")
  BY <1>0, <1>m, <1>5 DEF ButtonResets, Released, Succeeds
<1> QED BY <1>1, <1>2, <1>3, <1>4, <1>5 DEF DeviceSteps, ButtonSteps

(* The steps of a flow that claim nothing.                                  *)
Waits(h) ==
  \/ Discovers(h) \/ Dismisses(h) \/ SubmitsDiscovered(h) \/ SubmitsProbing(h)
  \/ IsRejected(h) \/ HubRestarts(h)

(* A hub that keeps its token.                                              *)
Keeps(h, entry) ==
  hub' = [hub EXCEPT ![h] = entry] /\ entry \in Hub /\ entry.token = hub[h].token

LEMMA KeepsHubs ==
  ASSUME PairInv, NEW h \in Hubs, NEW entry, Keeps(h, entry)
  PROVE  hub' \in [Hubs -> Hub] /\ \A g \in Hubs : hub'[g].token = hub[g].token
BY DEF PairInv, PairTypeOK, Keeps

LEMMA WaitsKeepTokens ==
  ASSUME PairInv, NEW h \in Hubs, Waits(h)
  PROVE  PairTypeOK' /\ lock' = lock /\ \A g \in Hubs : hub'[g].token = hub[g].token
<1>1. hub[h] \in Hub /\ Probe \in {"unpaired", "paired"}
  BY DEF PairInv, PairTypeOK, Probe
<1> DEFINE found(p) == [hub[h] EXCEPT !.device = p]
           dismissed == [hub[h] EXCEPT !.device = "none", !.refused = FALSE]
           answered(p) == [hub[h] EXCEPT !.asking = (p = "unpaired"),
                                         !.refused = (p = "paired")]
           rejected == [hub[h] EXCEPT !.started = TRUE, !.reauth = TRUE]
<1>2. CASE Discovers(h)
  <2>1. Keeps(h, found(Probe))
    BY <1>1, <1>2 DEF Discovers, Keeps, Hub
  <2> QED BY <1>2, <2>1, KeepsHubs DEF Discovers, PairInv, PairTypeOK
<1>3. CASE Dismisses(h)
  <2>1. Keeps(h, dismissed)
    BY <1>1, <1>3 DEF Dismisses, Keeps, Hub
  <2> QED BY <1>3, <2>1, KeepsHubs DEF Dismisses, PairInv, PairTypeOK
<1>4. ASSUME NEW p, Answered(h, p)
      PROVE  PairTypeOK' /\ lock' = lock /\ \A g \in Hubs : hub'[g].token = hub[g].token
  <2>1. Keeps(h, answered(p))
    BY <1>1, <1>4 DEF Answered, Keeps, Hub
  <2> QED BY <1>4, <2>1, KeepsHubs DEF Answered, PairInv, PairTypeOK
<1>5. CASE IsRejected(h)
  <2>1. Keeps(h, rejected)
    BY <1>1, <1>5 DEF IsRejected, Keeps, Hub
  <2> QED BY <1>5, <2>1, KeepsHubs DEF IsRejected, PairInv, PairTypeOK
<1>6. CASE HubRestarts(h)
  <2>1. Keeps(h, NewHub(hub[h].token))
    BY <1>1, <1>6, NewHubType DEF HubRestarts, Keeps, Hub
  <2> QED BY <1>6, <2>1, KeepsHubs, PairingAssumption
          DEF HubRestarts, PairMishap, PairInv, PairTypeOK
<1> QED BY <1>2, <1>3, <1>4, <1>5, <1>6 DEF Waits, SubmitsDiscovered, SubmitsProbing

(* A claim takes a device without a token, and gives its new token to the   *)
(* hub that asked or, when the answer is lost, to nobody.                   *)
LEMMA ClaimKeepsInv ==
  ASSUME PairInv, lock.token = 0, lock.issued < MaxToken, lock' = Claimed,
         pairMishaps' \in 0..MaxPairMishaps, hub' \in [Hubs -> Hub],
         NEW h \in Hubs,
         hub'[h].token \in {hub[h].token, lock'.token},
         \A g \in Hubs \ {h} : hub'[g].token = hub[g].token
  PROVE  PairInv'
<1>1. /\ lock.issued \in Nat /\ lock.issued + 1 \in Token
      /\ \A g \in Hubs : hub[g].token \in Nat
  BY PairingAssumption DEF PairInv, PairTypeOK, Lock, Hub, Token
<1>2. lock' \in Lock /\ lock'.token = lock.issued + 1 /\ lock'.saved = lock.issued + 1
      /\ lock'.issued = lock.issued + 1
  BY <1>1 DEF Claimed, PairInv, PairTypeOK, Lock
<1>3. PairTypeOK'
  BY <1>2 DEF PairTypeOK
<1>4. TokensAreIssued'
  BY <1>1, <1>2 DEF PairInv, TokensAreIssued
<1>5. TokensAreOwn'
  BY <1>1, <1>2 DEF PairInv, TokensAreIssued, TokensAreOwn
<1> QED BY <1>3, <1>4, <1>5 DEF PairInv

-----------------------------------------------------------------------------
SafeStep == PairInv' /\ \A h \in Hubs : KeepsOwner(h)

LEMMA DeviceIsSafe == PairInv /\ DeviceSteps => SafeStep
<1> SUFFICES ASSUME PairInv, DeviceSteps PROVE SafeStep
  OBVIOUS
<1>1. PairInv'
  BY DeviceKeepsTokens, KeptTokens DEF PairInv, PairTypeOK, Hub
<1>2. ASSUME NEW h \in Hubs PROVE KeepsOwner(h)
  BY DeviceKeepsTokens DEF KeepsOwner, IsAccepted
<1> QED BY <1>1, <1>2 DEF SafeStep

LEMMA WaitsIsSafe ==
  ASSUME PairInv, NEW h \in Hubs, Waits(h)
  PROVE  SafeStep
<1>1. PairInv'
  BY WaitsKeepTokens, KeptTokens
<1>2. ASSUME NEW g \in Hubs PROVE KeepsOwner(g)
  BY WaitsKeepTokens DEF KeepsOwner, IsAccepted
<1> QED BY <1>1, <1>2 DEF SafeStep

(* Somebody at the setup network claims a device that has no owner.         *)
LEMMA SetupIsSafe == PairInv /\ SetupClaims => SafeStep
<1> SUFFICES ASSUME PairInv, SetupClaims PROVE SafeStep
  OBVIOUS
<1>1. ASSUME NEW h \in Hubs PROVE KeepsOwner(h)
  BY DEF SetupClaims, KeepsOwner, IsAccepted
<1>2. ASSUME NEW h \in Hubs PROVE PairInv'
  BY <1>2, ClaimKeepsInv DEF SetupClaims, PairInv, PairTypeOK
<1>3. ASSUME Hubs = {} PROVE PairInv'
  <2>1. lock.issued + 1 \in Token /\ lock.issued \in Nat
    BY PairingAssumption DEF SetupClaims, PairInv, PairTypeOK, Lock, Token
  <2>2. lock' \in Lock /\ lock'.token = lock'.saved /\ lock'.token = lock'.issued
    BY <2>1 DEF SetupClaims, Claimed, PairInv, PairTypeOK, Lock
  <2>3. lock'.issued <= lock'.issued
    BY <2>2, PairingAssumption DEF Lock, Token
  <2> QED BY <1>3, <2>2, <2>3
          DEF SetupClaims, PairInv, PairTypeOK, TokensAreIssued, TokensAreOwn
<1> QED BY <1>1, <1>2, <1>3 DEF SafeStep

(* A claim of a hub finds the device without an owner, or changes nothing.  *)
LEMMA ClaimsIsSafe ==
  ASSUME PairInv, NEW h \in Hubs, NEW well \in BOOLEAN, Claims(h, well)
  PROVE  SafeStep
<1>1. hub[h] \in Hub /\ pairMishaps' \in 0..MaxPairMishaps
  BY PairingAssumption DEF Claims, Succeeds, PairMishap, PairInv, PairTypeOK
<1> DEFINE entry == [hub[h] EXCEPT !.asking = FALSE]
<1>2. entry \in Hub /\ entry.token = hub[h].token
  BY <1>1 DEF Hub
<1>3. CASE /\ Claimable /\ lock.issued < MaxToken /\ lock' = Claimed
           /\ hub' = [hub EXCEPT ![h] = IF well THEN Paired(h, lock'.token) ELSE entry]
  <2>1. lock'.token \in Token /\ lock.token = 0
    BY <1>3, PairingAssumption DEF Claimable, Claimed, PairInv, PairTypeOK, Lock, Token
  <2>2. /\ hub' \in [Hubs -> Hub] /\ hub'[h].token \in {hub[h].token, lock'.token}
        /\ \A g \in Hubs \ {h} : hub'[g].token = hub[g].token
    BY <1>2, <1>3, <2>1, NewHubType DEF Paired, PairInv, PairTypeOK
  <2>3. PairInv'
    BY <1>1, <1>3, <2>1, <2>2, ClaimKeepsInv
  <2> QED BY <2>1, <2>3 DEF SafeStep, KeepsOwner, IsAccepted
<1>4. CASE hub' = [hub EXCEPT ![h] = entry] /\ UNCHANGED lock
  <2>1. Keeps(h, entry)
    BY <1>2, <1>4 DEF Keeps
  <2>2. hub' \in [Hubs -> Hub] /\ \A g \in Hubs : hub'[g].token = hub[g].token
    BY <2>1, KeepsHubs
  <2>3. PairTypeOK'
    BY <1>1, <1>4, <2>2 DEF PairInv, PairTypeOK
  <2>4. PairInv'
    BY <1>4, <2>2, <2>3, KeptTokens
  <2> QED BY <1>4, <2>2, <2>4 DEF SafeStep, KeepsOwner, IsAccepted
<1> QED BY <1>3, <1>4 DEF Claims

(* Handing back a token frees the device only of that owner.                *)
LEMMA RemovesIsSafe ==
  ASSUME PairInv, NEW h \in Hubs, NEW well \in BOOLEAN, Removes(h, well)
  PROVE  SafeStep
<1> USE DEF PairInv, PairTypeOK
<1>0. 0 \in Token
  BY PairingAssumption DEF Token
<1>1. /\ hub' \in [Hubs -> Hub] /\ hub'[h].token = 0
      /\ \A g \in Hubs \ {h} : hub'[g].token = hub[g].token
  BY <1>0, NewHubType DEF Removes
<1>2. pairMishaps' \in 0..MaxPairMishaps
  BY PairingAssumption DEF Removes, Succeeds, PairMishap
<1>3. \/ lock' = lock
      \/ lock.token = hub[h].token /\ lock' = [Released EXCEPT !.window = "open"]
  BY DEF Removes
<1>4. /\ lock' \in Lock /\ lock'.token = lock'.saved /\ lock'.issued = lock.issued
      /\ lock'.token \in {0, lock.token}
  BY <1>0, <1>3 DEF Released, Lock
<1>5. PairTypeOK'
  BY <1>1, <1>2, <1>4
<1>6. PairInv'
  BY <1>1, <1>4, <1>5, KeptTokens
<1>7. ASSUME NEW g \in Hubs PROVE KeepsOwner(g)
  <2>1. CASE g = h
    BY <1>1, <2>1 DEF KeepsOwner
  <2>2. CASE g # h
    BY <1>1, <1>3, <2>2 DEF KeepsOwner, IsAccepted, TokensAreOwn
  <2> QED BY <2>1, <2>2
<1> QED BY <1>6, <1>7 DEF SafeStep

LEMMA StepIsSafe == PairInv /\ [PairNext]_pairVars => SafeStep
<1> SUFFICES ASSUME PairInv, [PairNext]_pairVars PROVE SafeStep
  OBVIOUS
<1>1. CASE DeviceSteps
  BY <1>1, DeviceIsSafe
<1>2. CASE SetupClaims
  BY <1>2, SetupIsSafe
<1>3. ASSUME NEW h \in Hubs, HubSteps(h) PROVE SafeStep
  BY <1>3, WaitsIsSafe, ClaimsIsSafe, RemovesIsSafe DEF HubSteps, Waits
<1>4. CASE UNCHANGED pairVars
  BY <1>4 DEF pairVars, SafeStep, KeepsOwner, IsAccepted, PairInv, PairTypeOK,
              TokensAreIssued, TokensAreOwn
<1> QED BY <1>1, <1>2, <1>3, <1>4 DEF PairNext, DeviceSteps

LEMMA InitPairInv == PairInit => PairInv
<1> SUFFICES ASSUME PairInit PROVE PairInv
  OBVIOUS
<1>1. 0 \in Token /\ 0 \in 0..MaxPairMishaps
  BY PairingAssumption DEF Token
<1>2. NewHub(0) \in Hub /\ NewHub(0).token = 0
  BY <1>1, NewHubType
<1>3. PairTypeOK
  BY <1>1, <1>2 DEF PairInit, PairTypeOK, Lock
<1> QED BY <1>2, <1>3 DEF PairInit, PairInv, TokensAreIssued, TokensAreOwn

-----------------------------------------------------------------------------
(* Network.                                                                 *)

(* What a store may hold under each key.                                    *)
TypedStore ==
  {s \in Store : /\ \A k \in {Ssid, Password} : s[k] \in Networks \cup {Unset}
                 /\ \A k \in StaticKeys \cup {PendingIp} : s[k] \in Subnets \cup {Unset}}

(* The keys of the fixed address are all of one save, whole or cut short.   *)
Whole(s) == \A k \in StaticKeys : s[k] = s[StaticIp]
Uniform(s) == \E v \in Subnets \cup {Unset} : \A k \in StaticKeys : s[k] \in {v, Unset}

(* Before anything has gone wrong the firmware runs by what is in NVS; one  *)
(* cut or failed write leaves at most half of one save.                     *)
RunsByStore ==
  /\ Whole(nv) /\ wifi.ssid = nv[Ssid] /\ wifi.static = nv[StaticIp]
  /\ nv[StaticIp] # Unset => nv[Ssid] # Unset

NetInv ==
  /\ NetTypeOK /\ nv \in TypedStore
  /\ home.joined => wifi.ssid # Unset
  /\ netMishaps = 0 => RunsByStore
  /\ netMishaps < 2 => Uniform(nv)
  /\ FixedIsWhole

LEMMA NetKeys ==
  /\ Key = {1, 2, 3, 4, 5, 6, 7} /\ StaticKeys = {3, 4, 5, 6}
  /\ Ssid = 1 /\ Password = 2 /\ StaticIp = 3 /\ StaticGateway = 4 /\ StaticSubnet = 5
  /\ StaticDns = 6 /\ PendingIp = 7
  /\ StaticKeys \subseteq Key /\ {Ssid, Password, PendingIp} \subseteq Key
  /\ {StaticIp, StaticGateway, StaticSubnet, StaticDns} = StaticKeys
  /\ {Ssid, Password, PendingIp} \cap StaticKeys = {} /\ PendingIp \notin {Ssid, Password}
BY DEF Key, StaticKeys, Ssid, Password, StaticIp, StaticGateway, StaticSubnet, StaticDns,
       PendingIp

(* A store that takes every key from one of two.                            *)
Mixed(s, old, new) == s = [k \in Key |-> s[k]] /\ \A k \in Key : s[k] \in {old[k], new[k]}

LEMMA MixedType ==
  ASSUME NEW old \in TypedStore, NEW new \in TypedStore, NEW s, Mixed(s, old, new)
  PROVE  s \in TypedStore
<1>1. old \in Store /\ new \in Store
  BY DEF TypedStore
<1>2. \A k \in Key : s[k] \in Networks \cup Subnets \cup {Unset}
  BY <1>1 DEF Mixed, Store
<1>3. s \in Store
  BY <1>2 DEF Mixed, Store
<1>4. /\ \A k \in {Ssid, Password} : s[k] \in Networks \cup {Unset}
      /\ \A k \in StaticKeys \cup {PendingIp} : s[k] \in Subnets \cup {Unset}
  BY NetKeys DEF Mixed, TypedStore
<1> QED BY <1>3, <1>4 DEF TypedStore

LEMMA PartsAreMixed ==
  ASSUME NEW old, NEW new, NEW s \in Parts(old, new)
  PROVE  Mixed(s, old, new)
BY DEF Parts, Mixed

(* What commitNetworkStorage() may come to: all of the new settings, all of *)
(* the old ones or, when the power goes, some of each; and with two faults  *)
(* whatever can be made of them.                                            *)
LEMMA CommitOutcomes ==
  ASSUME NEW old \in TypedStore, NEW new \in TypedStore, NEW left \in Int,
         NEW end \in Commit(old, new, left)
  PROVE  /\ end.store \in TypedStore /\ end.cost \in {0, 1, 2} /\ end.done \in {"yes", "no", "cut"}
         /\ end.cost = 0 => end.store = new /\ end.done = "yes"
         /\ end.cost = 1 => \/ end.store = old /\ end.done = "no"
                            \/ Mixed(end.store, old, new) /\ end.done = "cut"
         /\ end.done = "yes" => end.cost = 0
<1>1. CASE end = Outcome(new, 0, "yes")
  BY <1>1 DEF Outcome
<1>2. CASE end \in Spoilt(old, new)
  <2>1. \/ end = Outcome(old, 1, "no")
        \/ \E half \in Parts(old, new) : end = Outcome(half, 1, "cut")
    BY <1>2 DEF Spoilt
  <2>2. CASE end = Outcome(old, 1, "no")
    BY <2>2 DEF Outcome
  <2>3. ASSUME NEW half \in Parts(old, new), end = Outcome(half, 1, "cut")
        PROVE  /\ end.store = half /\ end.cost = 1 /\ end.done = "cut"
               /\ Mixed(half, old, new) /\ half \in TypedStore
    BY <2>3, PartsAreMixed, MixedType DEF Outcome
  <2> QED BY <2>1, <2>2, <2>3
<1>3. CASE end \in SpoiltTwice(old, new)
  <2>1. PICK half \in Parts(old, new), rest \in UNION {Parts(h, old) : h \in Parts(old, new)},
             done \in {"no", "cut"} : end = Outcome(rest, 2, done)
    BY <1>3 DEF SpoiltTwice
  <2>2. PICK h \in Parts(old, new) : rest \in Parts(h, old)
    BY <2>1
  <2>3. h \in TypedStore
    BY <2>2, PartsAreMixed, MixedType
  <2>4. rest \in TypedStore
    BY <2>2, <2>3, PartsAreMixed, MixedType
  <2> QED BY <2>1, <2>4 DEF Outcome
<1> QED BY <1>1, <1>2, <1>3 DEF Commit

(* The settings that are saved.                                             *)
LEMMA SettingsAreTyped ==
  ASSUME NEW s \in TypedStore
  PROVE  /\ WithoutStatic(s) \in TypedStore /\ Whole(WithoutStatic(s))
         /\ WithoutStatic(s)[StaticIp] = Unset /\ WithoutStatic(s)[Ssid] = s[Ssid]
         /\ \A v \in Subnets :
              /\ WithStatic(s, v) \in TypedStore /\ Whole(WithStatic(s, v))
              /\ WithStatic(s, v)[StaticIp] = v /\ WithStatic(s, v)[Ssid] = s[Ssid]
<1>1. s \in Store /\ s \in [Key -> Networks \cup Subnets \cup {Unset}]
  BY DEF TypedStore, Store
<1>2. /\ \A k \in {Ssid, Password} : s[k] \in Networks \cup {Unset}
      /\ \A k \in StaticKeys \cup {PendingIp} : s[k] \in Subnets \cup {Unset}
  BY DEF TypedStore
<1>3. /\ WithoutStatic(s) \in TypedStore /\ Whole(WithoutStatic(s))
      /\ WithoutStatic(s)[StaticIp] = Unset /\ WithoutStatic(s)[Ssid] = s[Ssid]
  <2>1. WithoutStatic(s) \in Store
    BY <1>1 DEF WithoutStatic, Store
  <2>2. \A k \in Key : WithoutStatic(s)[k] =
                         IF k \in StaticKeys \cup {PendingIp} THEN Unset ELSE s[k]
    BY DEF WithoutStatic
  <2> QED BY <1>2, <2>1, <2>2, NetKeys DEF TypedStore, Whole
<1>4. ASSUME NEW v \in Subnets
      PROVE  /\ WithStatic(s, v) \in TypedStore /\ Whole(WithStatic(s, v))
             /\ WithStatic(s, v)[StaticIp] = v /\ WithStatic(s, v)[Ssid] = s[Ssid]
  <2>1. WithStatic(s, v) \in Store
    BY <1>1 DEF WithStatic, Store
  <2>2. \A k \in Key : WithStatic(s, v)[k] =
          IF k \in StaticKeys THEN v ELSE IF k = PendingIp THEN Unset ELSE s[k]
    BY DEF WithStatic
  <2> QED BY <1>2, <2>1, <2>2, NetKeys DEF TypedStore, Whole
<1> QED BY <1>3, <1>4

(* What startWifi() makes of the settings.                                  *)
LEMMA StartedIsRight ==
  ASSUME NEW s \in TypedStore
  PROVE  /\ Started(s) \in WifiState /\ Started(s).ssid = s[Ssid]
         /\ Whole(s) /\ (s[StaticIp] # Unset => s[Ssid] # Unset)
              => Started(s).static = s[StaticIp]
         /\ Uniform(s) /\ Started(s).static # Unset =>
              \A k \in StaticKeys : s[k] \in {Started(s).static, Unset}
<1>1. /\ s[Ssid] \in Networks \cup {Unset} /\ s[Password] \in Networks \cup {Unset}
      /\ s[StaticIp] \in Subnets \cup {Unset} /\ StaticIp \in StaticKeys
  BY NetKeys DEF TypedStore
<1>2. Started(s) \in WifiState
  BY <1>1 DEF Started, WifiState
<1>3. Whole(s) /\ s[StaticIp] # Unset => ValidStatic(s)
  BY NetKeys DEF Whole, ValidStatic
<1>4. /\ Started(s).ssid = s[Ssid]
      /\ Started(s).static =
           IF s[Ssid] # Unset /\ ValidStatic(s) THEN s[StaticIp] ELSE Unset
  BY DEF Started
<1>5. ASSUME Uniform(s), Started(s).static # Unset, NEW k \in StaticKeys
      PROVE  s[k] \in {Started(s).static, Unset}
  <2>1. Started(s).static = s[StaticIp]
    BY <1>4, <1>5
  <2> QED BY <1>1, <1>5, <2>1 DEF Uniform
<1> QED BY <1>2, <1>3, <1>4, <1>5

(* The firmware starts anew with what NVS holds.                            *)
LEMMA RestartKeepsNet ==
  ASSUME NetInv, nv' \in TypedStore, startWifi(nv'), netMishaps' \in 0..MaxNetMishaps,
         netMishaps' < 2 => Uniform(nv'),
         netMishaps' = 0 => Whole(nv') /\ (nv'[StaticIp] # Unset => nv'[Ssid] # Unset)
  PROVE  NetInv'
<1>1. /\ wifi' = Started(nv') /\ ap' = (nv'[Ssid] = Unset \/ Started(nv').static # Unset)
      /\ home' = [home EXCEPT !.joined = FALSE, !.unseen = FALSE] /\ home \in Home
  BY DEF startWifi, NetInv, NetTypeOK
<1>2. /\ wifi' \in WifiState /\ wifi'.ssid = nv'[Ssid]
      /\ netMishaps' = 0 => wifi'.static = nv'[StaticIp]
      /\ netMishaps' < 2 /\ wifi'.static # Unset =>
           \A k \in StaticKeys : nv'[k] \in {wifi'.static, Unset}
  BY <1>1, StartedIsRight
<1>3. home' \in Home /\ ~home'.joined
  BY <1>1 DEF Home
<1>4. NetTypeOK'
  BY <1>1, <1>2, <1>3 DEF NetTypeOK, TypedStore
<1>5. RunsByStore' \/ netMishaps' # 0
  BY <1>2 DEF RunsByStore
<1>6. FixedIsWhole'
  BY <1>2 DEF FixedIsWhole
<1> QED BY <1>3, <1>4, <1>5, <1>6 DEF NetInv

(* It runs on.                                                              *)
LEMMA RunningKeepsNet ==
  ASSUME NetInv, nv' \in TypedStore, wifi' \in WifiState, wifi'.ssid = wifi.ssid,
         wifi'.static = wifi.static, ap' \in BOOLEAN, home' \in Home,
         home'.joined => wifi.ssid # Unset, netMishaps' \in 0..MaxNetMishaps,
         \/ nv' = nv /\ netMishaps' >= netMishaps
         \/ netMishaps' >= 2
         \/ /\ netMishaps' < 2 => Uniform(nv')
            /\ wifi.static = Unset
            /\ netMishaps' = 0 =>
                 Whole(nv') /\ nv'[StaticIp] = Unset /\ wifi.ssid = nv'[Ssid]
  PROVE  NetInv'
<1>1. NetTypeOK'
  BY DEF NetTypeOK, TypedStore
<1>2. netMishaps \in Nat /\ netMishaps' \in Nat
  BY NetworkAssumption DEF NetInv, NetTypeOK
<1>3. CASE nv' = nv /\ netMishaps' >= netMishaps
  <2>1. netMishaps' = 0 => RunsByStore'
    BY <1>2, <1>3 DEF NetInv, RunsByStore
  <2>2. netMishaps' < 2 => Uniform(nv')
    BY <1>2, <1>3 DEF NetInv
  <2>3. FixedIsWhole'
    BY <1>2, <1>3 DEF NetInv, FixedIsWhole
  <2> QED BY <1>1, <2>1, <2>2, <2>3 DEF NetInv
<1>4. CASE netMishaps' >= 2
  <2>1. netMishaps' # 0 /\ ~(netMishaps' < 2)
    BY <1>2, <1>4
  <2> QED BY <1>1, <2>1 DEF NetInv, FixedIsWhole
<1>5. CASE /\ netMishaps' < 2 => Uniform(nv')
           /\ wifi.static = Unset
           /\ netMishaps' = 0 =>
                Whole(nv') /\ nv'[StaticIp] = Unset /\ wifi.ssid = nv'[Ssid]
  <2>1. netMishaps' = 0 => RunsByStore'
    BY <1>5 DEF RunsByStore
  <2>2. FixedIsWhole'
    BY <1>5 DEF FixedIsWhole
  <2> QED BY <1>1, <1>5, <2>1, <2>2 DEF NetInv
<1> QED BY <1>3, <1>4, <1>5

LEMMA WholeIsUniform ==
  ASSUME NEW s \in TypedStore, Whole(s)
  PROVE  Uniform(s)
<1>1. s[StaticIp] \in Subnets \cup {Unset}
  BY NetKeys DEF TypedStore
<1> QED BY <1>1 DEF Whole, Uniform

(* Settings that replace each other: at most one of them is a fixed         *)
(* address, or both are the same.                                           *)
Compatible(old, new) ==
  \/ old[StaticIp] = Unset \/ new[StaticIp] = Unset
  \/ old[StaticIp] = new[StaticIp]

LEMMA MixedIsUniform ==
  ASSUME NEW old \in TypedStore, NEW new \in TypedStore, NEW s, Mixed(s, old, new),
         Whole(old), Whole(new), Compatible(old, new)
  PROVE  Uniform(s)
<1>1. /\ old[StaticIp] \in Subnets \cup {Unset} /\ new[StaticIp] \in Subnets \cup {Unset}
      /\ StaticKeys \subseteq Key
  BY NetKeys DEF TypedStore
<1>2. \A k \in StaticKeys : s[k] \in {old[StaticIp], new[StaticIp]}
  BY <1>1 DEF Mixed, Whole
<1> QED BY <1>1, <1>2 DEF Uniform, Compatible

(* The fields of what the network keeps.                                    *)
LEMMA NetFields ==
  ASSUME NetInv
  PROVE  /\ nv \in TypedStore /\ wifi \in WifiState /\ ap \in BOOLEAN /\ home \in Home
         /\ netMishaps \in Nat /\ netMishaps \in 0..MaxNetMishaps /\ MaxNetMishaps \in Nat
         /\ Left \in Nat
         /\ wifi.ssid \in Networks \cup {Unset} /\ wifi.static \in Subnets \cup {Unset}
         /\ wifi.claimed \in BOOLEAN /\ wifi.wasConnected \in BOOLEAN
         /\ home.subnet \in [Networks -> Subnets] /\ home.joined \in BOOLEAN
         /\ home.unseen \in BOOLEAN
BY NetworkAssumption DEF NetInv, NetTypeOK, WifiState, Home, Left

LEMMA MishapsType ==
  ASSUME NetInv, NEW n \in {0, 1, 2, 3, 4}, Mishaps(n)
  PROVE  /\ netMishaps' \in 0..MaxNetMishaps /\ netMishaps' = netMishaps + n
         /\ netMishaps' \in Nat
BY NetFields DEF Mishaps, Left

LEMMA HandlesKeepsNet ==
  ASSUME NetInv, NEW via, NEW s \in TypedStore, Whole(s), Handles(via, s),
         netMishaps = 0 =>
           Compatible(nv, s) /\ (s[StaticIp] # Unset => s[Ssid] # Unset)
  PROVE  NetInv'
<1>1. PICK end \in Commit(nv, s, Left) :
        /\ Mishaps(end.cost) /\ nv' = end.store
        /\ IF end.done = "no" THEN MarkStation(via) /\ UNCHANGED <<ap, home>>
           ELSE startWifi(nv')
  BY DEF Handles
<1>2. /\ end.store \in TypedStore /\ end.cost \in {0, 1, 2} /\ end.done \in {"yes", "no", "cut"}
      /\ end.cost = 0 => end.store = s /\ end.done = "yes"
      /\ end.cost = 1 => \/ end.store = nv /\ end.done = "no"
                         \/ Mixed(end.store, nv, s) /\ end.done = "cut"
  BY NetFields, CommitOutcomes
<1>3. /\ netMishaps' \in 0..MaxNetMishaps /\ netMishaps' = netMishaps + end.cost
      /\ netMishaps \in Nat
  BY <1>1, <1>2, MishapsType, NetFields
<1>4. ASSUME end.done = "no", end.store = nv \/ end.cost = 2
      PROVE  NetInv'
  <2>1. wifi' = [wifi EXCEPT !.claimed = @ \/ via = "station"] /\ UNCHANGED <<ap, home>>
    BY <1>1, <1>4 DEF MarkStation
  <2>2. wifi' \in WifiState /\ wifi'.ssid = wifi.ssid /\ wifi'.static = wifi.static
    BY <2>1, NetFields DEF WifiState
  <2>3. (nv' = nv /\ netMishaps' >= netMishaps) \/ netMishaps' >= 2
    BY <1>1, <1>2, <1>3, <1>4
  <2>4. home'.joined => wifi.ssid # Unset
    BY <2>1 DEF NetInv
  <2> QED BY <1>1, <1>2, <1>3, <2>1, <2>2, <2>3, <2>4, NetFields, RunningKeepsNet
<1>5. CASE end.cost = 0
  <2>1. nv' = s /\ startWifi(nv') /\ netMishaps' = netMishaps
    BY <1>1, <1>2, <1>3, <1>5
  <2> QED BY <1>3, <2>1, WholeIsUniform, RestartKeepsNet
<1>6. CASE end.cost = 1 /\ end.done = "cut"
  <2>1. startWifi(nv') /\ Mixed(nv', nv, s) /\ nv' \in TypedStore /\ netMishaps' # 0
    BY <1>1, <1>2, <1>3, <1>6
  <2>2. netMishaps' < 2 => Uniform(nv')
    <3>1. netMishaps' < 2 => netMishaps = 0
      BY <1>3, <1>6
    <3> QED BY <2>1, <3>1, NetFields, MixedIsUniform DEF NetInv, RunsByStore
  <2> QED BY <1>3, <2>1, <2>2, RestartKeepsNet
<1>7. CASE end.cost = 2 /\ end.done # "no"
  <2>1. startWifi(nv') /\ nv' \in TypedStore /\ netMishaps' # 0 /\ ~(netMishaps' < 2)
    BY <1>1, <1>2, <1>3, <1>7
  <2> QED BY <1>3, <2>1, RestartKeepsNet
<1> QED BY <1>2, <1>4, <1>5, <1>6, <1>7

(* The home network, the timer, the setup access point and the pages.       *)
LEMMA NothingSavedKeepsNet ==
  ASSUME NetInv,
         Joins \/ Drops \/ Moves \/ MaintainsAp \/ LossEdge \/ StartsAp \/ TimerElapses \/ Page
  PROVE  NetInv'
<1>1. UNCHANGED <<nv, netMishaps>> /\ netMishaps' >= netMishaps
  <2>1. CASE Drops \/ Moves
    <3>1. UNCHANGED <<nv, wifi, ap, netMishaps>>
      BY <2>1, Zenon DEF Drops, Moves
    <3> QED BY <3>1, NetFields
  <2>2. CASE Joins \/ MaintainsAp \/ LossEdge \/ StartsAp \/ TimerElapses \/ Page
    BY <2>2, NetFields DEF Joins, MaintainsAp, LossEdge, StartsAp, TimerElapses, Page
  <2> QED BY <2>1, <2>2
<1>2. /\ wifi' \in WifiState /\ wifi'.ssid = wifi.ssid /\ wifi'.static = wifi.static
  <2>1. wifi \in WifiState
    BY NetFields
  <2>2. \/ wifi' = wifi
        \/ wifi' = [wifi EXCEPT !.wasConnected = TRUE]
        \/ wifi' = [wifi EXCEPT !.wasConnected = FALSE, !.claimed = LossClaim,
                               !.timer = "running"]
        \/ wifi' = [wifi EXCEPT !.timer = "elapsed"]
        \/ wifi' = [wifi EXCEPT !.claimed = @ \/ TRUE]
    BY DEF Joins, Drops, Moves, MaintainsAp, LossEdge, StartsAp, TimerElapses, Page, StaysUp,
           MarkStation
  <2>3. LossClaim \in BOOLEAN
    BY NetFields DEF LossClaim
  <2> QED BY <2>1, <2>2, <2>3 DEF WifiState
<1>3. ap' \in BOOLEAN
  BY NetFields DEF Joins, Drops, Moves, MaintainsAp, LossEdge, StartsAp, TimerElapses, Page,
                   StaysUp, shouldStopSetupAp
<1>4. home' \in Home /\ (home'.joined => wifi.ssid # Unset)
  <2>1. home \in Home /\ (home.joined => wifi.ssid # Unset)
    BY NetFields DEF NetInv
  <2>2. CASE Joins
    BY <2>1, <2>2 DEF Joins, Home
  <2>3. CASE Drops
    <3>1. Unseen(~wifi.wasConnected) \in BOOLEAN
      BY NetFields DEF Unseen
    <3> QED BY <2>1, <2>3, <3>1 DEF Drops, Home
  <2>4. CASE Moves
    <3>1. PICK n \in Networks, s \in Subnets :
            home' = [home EXCEPT
              !.subnet[n] = s,
              !.unseen = Unseen(n = wifi.ssid /\ (home.joined \/ wifi.wasConnected))]
      BY <2>4 DEF Moves
    <3>2. Unseen(n = wifi.ssid /\ (home.joined \/ wifi.wasConnected)) \in BOOLEAN
      BY NetFields DEF Unseen
    <3>3. home' \in Home
      BY <2>1, <3>1, <3>2 DEF Home
    <3>4. home'.joined = home.joined
      BY <2>1, <3>1 DEF Home
    <3> QED BY <2>1, <3>3, <3>4
  <2>5. CASE LossEdge
    <3>1. home' = [home EXCEPT !.unseen = FALSE]
      BY <2>5 DEF LossEdge
    <3> QED BY <2>1, <3>1 DEF Home
  <2>6. CASE home' = home
    BY <2>1, <2>6
  <2> QED BY <2>2, <2>3, <2>4, <2>5, <2>6 DEF MaintainsAp, StartsAp, TimerElapses, Page, StaysUp
<1> QED BY <1>1, <1>2, <1>3, <1>4, NetFields, RunningKeepsNet

LEMMA ConnectEdgeKeepsNet ==
  ASSUME NetInv, ConnectEdge
  PROVE  NetInv'
<1>1. home.joined /\ wifi.ssid # Unset /\ wifi.ssid \in Networks /\ Leased \in Subnets
  BY NetFields DEF ConnectEdge, NetInv, Leased
<1>2. ASSUME StaysUp
      PROVE  /\ wifi' \in WifiState /\ wifi'.ssid = wifi.ssid /\ wifi'.static = wifi.static
             /\ ap' \in BOOLEAN /\ home' = home
  <2>1. wifi \in WifiState /\ wifi' = [wifi EXCEPT !.wasConnected = TRUE] /\ home' = home
    BY <1>2, NetFields DEF StaysUp
  <2>2. ap' \in BOOLEAN
    BY <1>2, NetFields DEF StaysUp, shouldStopSetupAp
  <2> QED BY <2>1, <2>2 DEF WifiState
<1>3. CASE StaysUp /\ UNCHANGED <<nv, netMishaps>>
  <2>1. nv' = nv /\ netMishaps' >= netMishaps
    BY <1>3, NetFields
  <2> QED BY <1>1, <1>2, <1>3, <2>1, NetFields, RunningKeepsNet
<1>4. CASE wifi.static = Unset /\ FinishesPending
  <2>0. /\ nv \in TypedStore /\ Left \in Nat /\ netMishaps \in Nat
        /\ WithStatic(nv, Leased) \in TypedStore /\ Whole(WithStatic(nv, Leased))
        /\ WithStatic(nv, Leased)[StaticIp] = Leased
        /\ WithStatic(nv, Leased)[Ssid] = nv[Ssid]
        /\ WithoutStatic(nv) \in TypedStore /\ Whole(WithoutStatic(nv))
        /\ WithoutStatic(nv)[StaticIp] = Unset /\ WithoutStatic(nv)[Ssid] = nv[Ssid]
    BY <1>1, NetFields, SettingsAreTyped
  <2>1. netMishaps = 0 => nv[StaticIp] = Unset /\ wifi.ssid = nv[Ssid] /\ Whole(nv)
    BY <1>4 DEF NetInv, RunsByStore
  <2>2. PICK first \in Preferred :
          IF first.done # "no"
          THEN Mishaps(first.cost) /\ nv' = first.store /\ startWifi(nv')
          ELSE \E last \in Commit(first.store, WithoutStatic(first.store), Left - first.cost) :
                 /\ Mishaps(first.cost + last.cost)
                 /\ nv' = last.store
                 /\ IF last.done = "cut" THEN startWifi(nv') ELSE StaysUp
    BY <1>4 DEF FinishesPending
  <2>3. /\ first.store \in TypedStore /\ first.cost \in {0, 1, 2}
        /\ first.done \in {"yes", "no", "cut"}
        /\ first.done = "no" /\ first.cost < 2 => first.store = nv
        /\ first.done = "yes" => first.store = WithStatic(nv, Leased)
        /\ first.done = "cut" /\ first.cost < 2 =>
             Mixed(first.store, nv, WithStatic(nv, Leased)) /\ first.cost = 1
    <3>1. CASE first = Outcome(nv, 0, "no")
      BY <2>0, <3>1 DEF Outcome
    <3>2. CASE first \in Commit(nv, WithStatic(nv, Leased), Left)
      BY <2>0, <3>2, CommitOutcomes
    <3> QED BY <3>1, <3>2 DEF Preferred
  <2>4. CASE first.done # "no"
    <3>1. /\ nv' = first.store /\ startWifi(nv') /\ netMishaps' \in 0..MaxNetMishaps
          /\ netMishaps' = netMishaps + first.cost /\ netMishaps' \in Nat
      BY <2>2, <2>3, <2>4, MishapsType
    <3>2. CASE first.done = "yes"
      <4>1. /\ Whole(nv') /\ nv' \in TypedStore /\ Uniform(nv')
        BY <2>0, <2>3, <3>1, <3>2, WholeIsUniform
      <4>2. netMishaps' = 0 => nv'[Ssid] # Unset
        BY <1>1, <2>0, <2>1, <2>3, <3>1, <3>2
      <4> QED BY <3>1, <4>1, <4>2, RestartKeepsNet
    <3>3. CASE first.done = "cut"
      <4>1. netMishaps' < 2 => netMishaps = 0 /\ first.cost = 1
        BY <2>0, <2>3, <3>1, <3>3
      <4>2. netMishaps' < 2 => Uniform(nv')
        BY <2>0, <2>1, <2>3, <3>1, <3>3, <4>1, MixedIsUniform DEF Compatible
      <4>3. netMishaps' # 0
        BY <2>0, <2>3, <3>1, <3>3
      <4> QED BY <2>3, <3>1, <4>2, <4>3, RestartKeepsNet
    <3> QED BY <2>3, <2>4, <3>2, <3>3
  <2>5. CASE first.done = "no"
    <3> DEFINE new == WithoutStatic(first.store)
    <3>1. PICK last \in Commit(first.store, new, Left - first.cost) :
                 /\ Mishaps(first.cost + last.cost)
                 /\ nv' = last.store
                 /\ IF last.done = "cut" THEN startWifi(nv') ELSE StaysUp
      BY <2>2, <2>5
    <3>2. /\ new \in TypedStore /\ Whole(new) /\ new[StaticIp] = Unset
          /\ new[Ssid] = first.store[Ssid] /\ Left - first.cost \in Int
      BY <2>0, <2>3, SettingsAreTyped
    <3> HIDE DEF new
    <3>3. /\ last.store \in TypedStore /\ last.cost \in {0, 1, 2}
          /\ last.done \in {"yes", "no", "cut"}
          /\ last.cost = 0 => last.store = new /\ last.done = "yes"
          /\ last.cost = 1 => \/ last.store = first.store /\ last.done = "no"
                              \/ Mixed(last.store, first.store, new) /\ last.done = "cut"
      BY <2>3, <3>1, <3>2, CommitOutcomes
    <3>4. /\ first.cost + last.cost \in {0, 1, 2, 3, 4}
          /\ first.cost \in Nat /\ last.cost \in Nat
      BY <2>3, <3>3
    <3>5. /\ netMishaps' \in 0..MaxNetMishaps
          /\ netMishaps' = netMishaps + (first.cost + last.cost) /\ netMishaps' \in Nat
      BY <3>1, <3>4, MishapsType
    <3>6. netMishaps' < 2 => first.store = nv /\ Uniform(nv')
      <4> SUFFICES ASSUME netMishaps' < 2 PROVE first.store = nv /\ Uniform(nv')
        OBVIOUS
      <4>1. first.cost < 2 /\ last.cost < 2 /\ first.store = nv
        <5>1. \A a, b, c \in Nat : a + (b + c) < 2 => b < 2 /\ c < 2
          OBVIOUS
        <5>2. first.cost < 2 /\ last.cost < 2
          BY <2>0, <3>4, <3>5, <5>1
        <5> QED BY <2>3, <2>5, <5>2
      <4>2. CASE last.cost = 0
        BY <3>1, <3>2, <3>3, <4>1, <4>2, WholeIsUniform
      <4>3. CASE last.cost = 1
        <5>1. netMishaps = 0
          BY <2>0, <3>4, <3>5, <4>3
        <5>2. Uniform(nv) /\ Whole(nv) /\ nv[StaticIp] = Unset
          BY <2>1, <5>1 DEF NetInv
        <5> QED BY <2>0, <3>1, <3>2, <3>3, <4>1, <4>3, <5>2, MixedIsUniform DEF Compatible
      <4> QED BY <3>3, <4>1, <4>2, <4>3
    <3>7. netMishaps' = 0 =>
            /\ Whole(nv') /\ nv'[StaticIp] = Unset /\ wifi.ssid = nv'[Ssid]
            /\ last.done = "yes"
      <4>1. netMishaps' = 0 => netMishaps = 0 /\ last.cost = 0
        BY <2>0, <3>4, <3>5
      <4> QED BY <2>1, <3>1, <3>2, <3>3, <3>6, <4>1
    <3>8. CASE last.done = "cut"
      BY <3>1, <3>3, <3>5, <3>6, <3>7, <3>8, RestartKeepsNet
    <3>9. CASE last.done # "cut"
      <4>1. StaysUp /\ nv' \in TypedStore
        BY <3>1, <3>3, <3>9
      <4> QED BY <1>1, <1>2, <1>4, <3>5, <3>6, <3>7, <4>1, NetFields, RunningKeepsNet
    <3> QED BY <3>8, <3>9
  <2> QED BY <2>4, <2>5
<1> QED BY <1>3, <1>4 DEF ConnectEdge

LEMMA RequestsKeepNet ==
  ASSUME NetInv, NetRequests
  PROVE  NetInv'
<1>1. /\ nv \in TypedStore
      /\ WithoutStatic(nv) \in TypedStore /\ Whole(WithoutStatic(nv))
      /\ WithoutStatic(nv)[StaticIp] = Unset
  BY NetFields, SettingsAreTyped
<1>2. ASSUME NEW n \in Networks, NEW p \in Networks, NEW preferred \in Subnets \cup {Unset},
             saveWifi(n, p, preferred)
      PROVE  NetInv'
  <2> DEFINE old == WithoutStatic(nv)
             s == WifiSettings(n, p, preferred)
  <2>1. s = [old EXCEPT ![Ssid] = n, ![Password] = p, ![PendingIp] = preferred]
    BY DEF WifiSettings
  <2>2. old \in [Key -> Networks \cup Subnets \cup {Unset}]
    BY <1>1 DEF TypedStore, Store
  <2>3. \A k \in StaticKeys : s[k] = old[k]
    BY <2>1, <2>2, NetKeys
  <2>4. s[Ssid] = n /\ s[Password] = p /\ s[PendingIp] = preferred
    BY <2>1, <2>2, NetKeys
  <2>5. s \in Store
    BY <2>1, <2>2 DEF Store
  <2>6. Handles("ap", s)
    BY <1>2 DEF saveWifi
  <2>7. \A k \in StaticKeys : old[k] \in Subnets \cup {Unset}
    BY <1>1 DEF TypedStore
  <2>8. Whole(old) /\ old[StaticIp] = Unset /\ StaticIp \in StaticKeys
    BY <1>1, NetKeys
  <2> HIDE DEF s, old
  <2>9. s \in TypedStore
    BY <2>3, <2>4, <2>5, <2>7 DEF TypedStore
  <2>10. Whole(s) /\ s[StaticIp] = Unset
    BY <2>3, <2>8 DEF Whole
  <2> QED BY <2>6, <2>9, <2>10, HandlesKeepsNet DEF Compatible
<1>3. ASSUME NEW via, saveNetwork(via) PROVE NetInv'
  <2>1. home.joined /\ wifi.ssid # Unset /\ Handles(via, WithStatic(nv, OwnSubnet))
    BY <1>3 DEF saveNetwork, NetInv
  <2>2. OwnSubnet \in Subnets
    BY <2>1, NetFields DEF OwnSubnet, Leased
  <2>3. /\ WithStatic(nv, OwnSubnet) \in TypedStore /\ Whole(WithStatic(nv, OwnSubnet))
        /\ WithStatic(nv, OwnSubnet)[StaticIp] = OwnSubnet
        /\ WithStatic(nv, OwnSubnet)[Ssid] = nv[Ssid]
    BY <1>1, <2>2, SettingsAreTyped
  <2>4. netMishaps = 0 => wifi.static = nv[StaticIp] /\ nv[Ssid] # Unset
    BY <2>1 DEF NetInv, RunsByStore
  <2>5. nv[StaticIp] # Unset /\ netMishaps = 0 => OwnSubnet = nv[StaticIp]
    BY <2>4 DEF OwnSubnet
  <2> QED BY <2>1, <2>3, <2>4, <2>5, HandlesKeepsNet DEF Compatible
<1>4. ASSUME NEW via, clearNetwork(via) PROVE NetInv'
  BY <1>1, <1>4, HandlesKeepsNet DEF clearNetwork, Compatible
<1>5. CASE Page
  BY <1>5, NothingSavedKeepsNet
<1> QED BY <1>2, <1>3, <1>4, <1>5 DEF NetRequests

LEMMA PowerFailsKeepsNet ==
  ASSUME NetInv, PowerFails
  PROVE  NetInv'
<1>1. /\ netMishaps' \in 0..MaxNetMishaps /\ netMishaps' = netMishaps + 1
      /\ netMishaps' \in Nat /\ netMishaps \in Nat
  BY MishapsType, NetFields DEF PowerFails
<1>2. nv' = nv /\ startWifi(nv') /\ nv' \in TypedStore
  BY NetFields DEF PowerFails
<1>3. netMishaps' # 0 /\ (netMishaps' < 2 => netMishaps < 2)
  BY <1>1
<1>4. netMishaps' < 2 => Uniform(nv')
  BY <1>2, <1>3 DEF NetInv
<1> QED BY <1>1, <1>2, <1>3, <1>4, RestartKeepsNet

LEMMA NetStepKeepsInv == NetInv /\ [NetNext]_netVars => NetInv'
<1> SUFFICES ASSUME NetInv, [NetNext]_netVars PROVE NetInv'
  OBVIOUS
<1>1. CASE UNCHANGED netVars
  <2>1. UNCHANGED <<nv, wifi, ap, home, netMishaps>>
    BY <1>1 DEF netVars
  <2> QED BY <2>1 DEF NetInv, NetTypeOK, RunsByStore, Whole, Uniform, FixedIsWhole
<1> QED
  BY <1>1, NothingSavedKeepsNet, ConnectEdgeKeepsNet, RequestsKeepNet, PowerFailsKeepsNet
     DEF NetNext, maintainWifi

LEMMA InitNetInv == NetInit => NetInv
<1> SUFFICES ASSUME NetInit PROVE NetInv
  OBVIOUS
<1>1. /\ nv = [k \in Key |-> Unset] /\ wifi = Started(nv) /\ ap = TRUE /\ netMishaps = 0
      /\ \E subnet \in [Networks -> Subnets] :
           home = [joined |-> FALSE, subnet |-> subnet, unseen |-> FALSE]
  BY DEF NetInit
<1>2. nv \in TypedStore /\ Whole(nv) /\ nv[StaticIp] = Unset
  BY <1>1, NetKeys DEF TypedStore, Store, Whole
<1>3. home \in Home /\ ~home.joined
  BY <1>1 DEF Home
<1>4. wifi \in WifiState /\ wifi.ssid = nv[Ssid] /\ wifi.static = nv[StaticIp]
  BY <1>1, <1>2, StartedIsRight
<1>5. NetTypeOK
  BY <1>1, <1>2, <1>3, <1>4, NetworkAssumption DEF NetTypeOK, TypedStore
<1>6. RunsByStore /\ Uniform(nv)
  BY <1>2, <1>4, WholeIsUniform DEF RunsByStore
<1>7. FixedIsWhole
  BY <1>2, <1>4 DEF FixedIsWhole
<1> QED BY <1>2, <1>3, <1>5, <1>6, <1>7 DEF NetInv

-----------------------------------------------------------------------------
(* Device: the parts side by side.                                          *)

(* A step of the firmware is one of one part, or none, to each part.        *)
LEMMA PartsMove ==
  ASSUME [DeviceNext]_deviceVars
  PROVE  /\ [LinkNext]_linkVars /\ [NetNext]_netVars /\ [PairNext]_pairVars
         /\ UNCHANGED part
BY DEF DeviceNext, deviceVars, InPart

(* The invariants of the parts.                                             *)
DeviceInv == part \in Part /\ LinkInv /\ NetInv /\ PairInv

LEMMA DeviceStepKeepsInv ==
  ASSUME DeviceInv, [DeviceNext]_deviceVars
  PROVE  DeviceInv'
<1>1. /\ [LinkNext]_linkVars /\ [NetNext]_netVars /\ [PairNext]_pairVars
      /\ UNCHANGED part
  BY PartsMove
<1>2. PairInv'
  BY <1>1, StepIsSafe DEF DeviceInv, SafeStep
<1> QED BY <1>1, <1>2, LinkStepIsSafe, NetStepKeepsInv DEF DeviceInv

LEMMA DeviceIsRight == DeviceSpec => []DeviceInv
<1>1. DeviceInit => DeviceInv
  BY InitLinkInv, InitNetInv, InitPairInv DEF DeviceInit, DeviceInv
<1>2. DeviceInv /\ [DeviceNext]_deviceVars => DeviceInv'
  BY DeviceStepKeepsInv
<1> QED BY <1>1, <1>2, PTL DEF DeviceSpec

(* Every variable keeps its type, the task runs exactly while               *)
(* connectInProgress says so, and the token the device goes by is the one   *)
(* that a restart loads.                                                    *)
THEOREM DeviceIsTyped == DeviceSpec => []DeviceTypeOK
<1>1. DeviceInv => DeviceTypeOK
  BY DEF DeviceInv, DeviceTypeOK, LinkInv, NetInv, PairInv
<1> QED BY <1>1, DeviceIsRight, PTL

(* Whatever the task, the stack, loop() and the handlers do to each other,  *)
(* the serial link is never open to a receiver without a bond               *)
(* (connectDenonTask, forgetDenon).                                         *)
THEOREM SerialIsBonded == DeviceSpec => []LinkIsBonded
<1>1. DeviceInv => LinkIsBonded
  BY DEF DeviceInv, LinkInv
<1> QED BY <1>1, DeviceIsRight, PTL

(* When forgetDenon answers 202, the receiver has no bond, no link and no   *)
(* audio, and no task is about to connect to it.                            *)
THEOREM ForgottenIsGone == DeviceSpec => []ForgetIsFinal
<1>1. DeviceInv => ForgetIsFinal
  BY DEF DeviceInv, LinkInv, ForgetIsFinal, ForgetProceeds, ForgetIsAlone, TaskHasTarget
<1> QED BY <1>1, DeviceIsRight, PTL

(* The fixed address that is applied is of one save, whatever write of      *)
(* commitNetworkStorage() fails or is cut by a loss of power - once; and    *)
(* for any number of networks and subnets.                                  *)
THEOREM FixedAddressIsWhole == DeviceSpec => []FixedIsWhole
<1>1. DeviceInv => FixedIsWhole
  BY DEF DeviceInv, NetInv
<1> QED BY <1>1, DeviceIsRight, PTL

(* A paired Home Assistant stays paired until it hands the token back or    *)
(* the button takes it away: neither a claim that was asked for while the   *)
(* device was free, nor the claim window, a lost answer or a restart of     *)
(* either side gives the device to somebody else (pairApi, unpairApi,       *)
(* maintainTokenResetButton).                                               *)
THEOREM OwnerStays == DeviceSpec => OwnerIsKept
<1>1. DeviceInv /\ [DeviceNext]_deviceVars => [\A h \in Hubs : KeepsOwner(h)]_pairVars
  BY PartsMove, StepIsSafe DEF DeviceInv, SafeStep
<1> QED BY <1>1, DeviceIsRight, PTL DEF DeviceSpec, OwnerIsKept
=============================================================================
