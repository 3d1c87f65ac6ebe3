------------------------------ MODULE DenonLink ------------------------------
(***************************************************************************)
(* The Bluetooth link to the receiver (src/src/main.cpp): a receiver is    *)
(* saved, paired over A2DP, then controlled over an SPP serial link that a *)
(* task of its own opens, and forgotten again.  loop() and the web         *)
(* handlers run in one thread; the task and the events of the Bluetooth    *)
(* stack run at any time, also while forgetDenon() waits for them.         *)
(***************************************************************************)
EXTENDS Naturals

CONSTANTS
  Receivers,       \* the receivers within reach
  NoReceiver,      \* none saved, none linked
  MaxLinkMishaps   \* how many calls fail and how often the power goes

ASSUME LinkAssumption == NoReceiver \notin Receivers /\ MaxLinkMishaps \in Nat

VARIABLES
  fw,           \* the firmware's variables
  task,         \* connectDenonTask()
  http,         \* where forgetDenon() is
  bt,           \* the stack: bonds, the serial link, audio of each receiver
  savedMac,     \* "denon_mac" in NVS
  linkMishaps   \* how many things have gone wrong

linkVars == <<fw, task, http, bt, savedMac, linkMishaps>>

MaybeReceiver == Receivers \cup {NoReceiver}

(* A time to retry at: "now" is the 0 that the code writes.                 *)
Timer == {"now", "ahead", "reached"}
Audio == {"none", "opening", "open", "closing"}

(* upperHalf: millis() is beyond 2^31.                                      *)
LinkState == [ready : BOOLEAN, mac : MaybeReceiver, known : BOOLEAN, bonded : BOOLEAN,
              connecting : BOOLEAN, connected : BOOLEAN, disconnecting : BOOLEAN,
              forgetInProgress : BOOLEAN, connectInProgress : BOOLEAN,
              wasConnected : BOOLEAN, nextReconnectAt : Timer,
              nextA2dpReconnectAt : Timer, upperHalf : BOOLEAN]

Task == [pc : {"none", "created", "connecting", "opened"}, address : MaybeReceiver]
NoTask == [pc |-> "none", address |-> NoReceiver]

Http == [pc : {"none", "disconnect", "audio", "bond", "removed", "restart"},
         receiver : MaybeReceiver]
NoHttp == [pc |-> "none", receiver |-> NoReceiver]

Stack == [bonds : SUBSET Receivers, serial : MaybeReceiver, audio : [Receivers -> Audio]]

(* The variables of loadDenonMac() and refreshDenonBondState() in setup().  *)
AfterBoot(mac, bonds, ready) ==
  [ready |-> ready, mac |-> mac, known |-> ready, bonded |-> ready /\ mac \in bonds,
   connecting |-> FALSE, connected |-> FALSE, disconnecting |-> FALSE,
   forgetInProgress |-> FALSE, connectInProgress |-> FALSE, wasConnected |-> FALSE,
   nextReconnectAt |-> "now", nextA2dpReconnectAt |-> "now", upperHalf |-> FALSE]

Silence(bonds) ==
  [bonds |-> bonds, serial |-> NoReceiver, audio |-> [r \in Receivers |-> "none"]]

LinkInit ==
  /\ \E mac \in MaybeReceiver, bonds \in SUBSET Receivers :
       /\ bonds \subseteq {mac}
       /\ fw = AfterBoot(mac, bonds, TRUE)
       /\ bt = Silence(bonds)
       /\ savedMac = mac
  /\ task = NoTask /\ http = NoHttp
  /\ linkMishaps = 0

LinkMishap == linkMishaps < MaxLinkMishaps /\ linkMishaps' = linkMishaps + 1
Works(ok) == IF ok THEN UNCHANGED linkMishaps ELSE LinkMishap

(* timeReached() compares signed: 0 lies ahead for half of all times.       *)
Reached(t) == t = "reached" \/ (t = "now" /\ ~fw.upperHalf)

-----------------------------------------------------------------------------
(* The audio profile.                                                       *)

AudioOf(r, state) == [bt.audio EXCEPT ![r] = state]

Active == fw.connecting \/ fw.connected \/ fw.disconnecting

(* A faulty variant: events mean the same while a receiver is forgotten.    *)
RefusesStrangers(r, state) == r # fw.mac /\ state \in {"opening", "open"}
(* a2dpEvent() hangs up on a stranger and on a receiver being forgotten.    *)
HangsUp(r, state) ==
  (r # fw.mac \/ fw.forgetInProgress) /\ state \in {"opening", "open"}

OnTarget(state) ==
  CASE state = "opening" -> [fw EXCEPT !.connecting = TRUE, !.disconnecting = FALSE]
    [] state = "open" -> [fw EXCEPT !.connecting = FALSE, !.connected = TRUE,
                                    !.disconnecting = FALSE, !.nextReconnectAt = "now"]
    [] state = "closing" -> [fw EXCEPT !.connecting = FALSE, !.disconnecting = TRUE]
    [] state = "none" -> [fw EXCEPT !.connecting = FALSE, !.connected = FALSE,
                                    !.disconnecting = FALSE,
                                    !.nextA2dpReconnectAt = "ahead"]

(* The audio connection of r has come to a state.                           *)
a2dpEvent(r, state) ==
  /\ bt' = [bt EXCEPT !.audio = AudioOf(r, IF HangsUp(r, state) THEN "closing" ELSE state)]
  /\ fw' = IF r # fw.mac THEN fw
           ELSE IF HangsUp(r, state)
                THEN [fw EXCEPT !.connecting = FALSE, !.connected = FALSE,
                                !.disconnecting = TRUE]
                ELSE OnTarget(state)
  /\ UNCHANGED <<task, http, savedMac, linkMishaps>>

(* A receiver calls, gets through once it is paired, or ends a connection.  *)
Calls(r) == bt.audio[r] = "none" /\ a2dpEvent(r, "opening")
GetsThrough(r) == bt.audio[r] = "opening" /\ r \in bt.bonds /\ a2dpEvent(r, "open")
HangsUpItself(r) == bt.audio[r] = "open" /\ a2dpEvent(r, "closing")
Ends(r) == bt.audio[r] # "none" /\ a2dpEvent(r, "none")

(* confirmDenonPairing() replies for the saved receiver only.               *)
Pairs(r) ==
  /\ r = fw.mac /\ r \notin bt.bonds /\ bt.audio[r] = "opening"
  /\ ~fw.forgetInProgress /\ (fw.connecting \/ fw.connectInProgress)
  /\ bt' = [bt EXCEPT !.bonds = @ \cup {r}]
  /\ UNCHANGED <<fw, task, http, savedMac, linkMishaps>>

-----------------------------------------------------------------------------
(* The serial link.                                                         *)

(* What connectDenonTask() asks before it connects and after.               *)
StillTarget(bonded) == (bonded \/ fw.connected) /\ ~fw.forgetInProgress

TaskStarts ==
  /\ task.pc = "created"
  /\ IF StillTarget(fw.bonded)
     THEN task' = [pc |-> "connecting", address |-> fw.mac] /\ UNCHANGED fw
     ELSE task' = NoTask /\ fw' = [fw EXCEPT !.connectInProgress = FALSE]
  /\ UNCHANGED <<http, bt, savedMac, linkMishaps>>

(* serialBt.connect() authenticates, which bonds an unknown receiver unless *)
(* the confirmation is refused.                                             *)
TaskConnects ==
  /\ task.pc = "connecting"
  /\ task.address \in bt.bonds \/ ~fw.forgetInProgress
  /\ task' = [task EXCEPT !.pc = "opened"]
  /\ bt' = [bt EXCEPT !.serial = task.address, !.bonds = @ \cup {task.address}]
  /\ UNCHANGED <<fw, http, savedMac, linkMishaps>>

(* A faulty variant: the flag is cleared on success only.                   *)
TaskEndsWaiting(bonded) ==
  /\ task' = NoTask
  /\ fw' = [fw EXCEPT !.bonded = bonded, !.nextReconnectAt = "ahead",
                      !.connectInProgress = task.pc = "connecting"]
TaskEnds(bonded) ==
  /\ task' = NoTask
  /\ fw' = [fw EXCEPT !.bonded = bonded, !.nextReconnectAt = "ahead",
                      !.connectInProgress = FALSE]

TaskFails ==
  /\ task.pc = "connecting"
  /\ TaskEnds(fw.bonded)
  /\ UNCHANGED <<http, bt, savedMac, linkMishaps>>

(* ok: the bonds can be read; they are only if there was none before.       *)
TaskChecks(ok) ==
  LET bonded == fw.bonded \/ (ok /\ fw.mac \in bt.bonds)
  IN /\ task.pc = "opened"
     /\ ok \/ ~fw.bonded
     /\ Works(ok)
     /\ TaskEnds(bonded)
     /\ bt' = IF StillTarget(bonded) THEN bt ELSE [bt EXCEPT !.serial = NoReceiver]
     /\ UNCHANGED <<http, savedMac>>

LinkIsLost ==
  /\ bt.serial # NoReceiver
  /\ bt' = [bt EXCEPT !.serial = NoReceiver]
  /\ UNCHANGED <<fw, task, http, savedMac, linkMishaps>>

-----------------------------------------------------------------------------
(* loop().                                                                  *)

(* startA2dpConnect() in state f; ok: the stack takes the call.             *)
MayCall(f) ==
  ~f.bonded /\ ~Active /\ ~f.connectInProgress /\ ~f.forgetInProgress
startA2dpConnect(f, ok) ==
  /\ ok => bt.audio[f.mac] = "none"
  /\ Works(ok \/ bt.audio[f.mac] # "none")
  /\ fw' = IF ok THEN [f EXCEPT !.connecting = TRUE]
           ELSE [f EXCEPT !.nextA2dpReconnectAt = "ahead"]
  /\ bt' = IF ok THEN [bt EXCEPT !.audio = AudioOf(f.mac, "opening")] ELSE bt
  /\ UNCHANGED task

(* startDenonConnect() in state f; read: the bonds can be read, ok: there   *)
(* is memory for the task.                                                  *)
MayConnect(f) == ~f.connectInProgress /\ ~f.forgetInProgress
startDenonConnect(f, read, ok) ==
  LET bonded == f.bonded \/ (read /\ f.mac \in bt.bonds)
  IN /\ Works(read /\ ok)
     /\ fw' = IF ok THEN [f EXCEPT !.bonded = bonded, !.connectInProgress = TRUE]
              ELSE [f EXCEPT !.bonded = bonded, !.nextReconnectAt = "ahead"]
     /\ task' = IF ok THEN [NoTask EXCEPT !.pc = "created"] ELSE task
     /\ UNCHANGED bt

Idle == http.pc = "none"

(* The edges of the link in maintainDenon().                                *)
NoticesLink ==
  /\ Idle /\ fw.ready /\ fw.mac # NoReceiver /\ fw.known
  /\ fw.wasConnected # (bt.serial # NoReceiver)
  /\ fw' = IF fw.wasConnected
           THEN [fw EXCEPT !.wasConnected = FALSE, !.nextReconnectAt = "ahead"]
           ELSE [fw EXCEPT !.wasConnected = TRUE]
  /\ UNCHANGED <<task, http, bt, savedMac, linkMishaps>>

(* The rest of it: over SPP with a bond or audio, otherwise over A2DP.      *)
maintainDenon(read, ok) ==
  /\ Idle /\ fw.ready /\ fw.mac # NoReceiver /\ fw.known
  /\ bt.serial = NoReceiver /\ ~fw.wasConnected
  /\ \/ /\ fw.bonded \/ fw.connected
        /\ Reached(fw.nextReconnectAt) /\ MayConnect(fw)
        /\ startDenonConnect(fw, read, ok)
     \/ /\ ~fw.connected
        /\ Reached(fw.nextA2dpReconnectAt) /\ MayCall(fw)
        /\ startA2dpConnect(fw, ok)
  /\ UNCHANGED <<http, savedMac>>

TimePasses ==
  /\ \/ /\ fw.nextReconnectAt = "ahead"
        /\ fw' = [fw EXCEPT !.nextReconnectAt = "reached"]
     \/ /\ fw.nextA2dpReconnectAt = "ahead"
        /\ fw' = [fw EXCEPT !.nextA2dpReconnectAt = "reached"]
  /\ UNCHANGED <<task, http, bt, savedMac, linkMishaps>>

(* Twenty-five days without a restart.                                      *)
HalfPasses ==
  /\ fw' = [fw EXCEPT !.upperHalf = ~@]
  /\ UNCHANGED <<task, http, bt, savedMac, linkMishaps>>

-----------------------------------------------------------------------------
(* The web handlers.                                                        *)

(* It reads the bonds first when they are not known.                        *)
Refreshed == IF fw.known THEN fw ELSE [fw EXCEPT !.known = TRUE, !.bonded = fw.mac \in bt.bonds]
reconnectDenon(read, ok) ==
  /\ Idle /\ fw.ready /\ fw.mac # NoReceiver /\ bt.serial = NoReceiver
  /\ ~fw.forgetInProgress /\ ~fw.connecting /\ ~fw.disconnecting
  /\ ~fw.connectInProgress
  /\ \/ ~fw.known /\ ~read /\ LinkMishap /\ UNCHANGED <<fw, task, bt>>
     \/ /\ fw.known \/ read
        /\ Refreshed.bonded \/ fw.connected
        /\ startDenonConnect([Refreshed EXCEPT !.nextReconnectAt = "now"], read, ok)
     \/ /\ fw.known \/ read
        /\ ~fw.connected /\ MayCall(Refreshed)
        /\ startA2dpConnect([Refreshed EXCEPT !.nextA2dpReconnectAt = "now"], ok)
  /\ UNCHANGED <<http, savedMac>>

(* written: NVS takes the address; read: the bonds can be read.             *)
saveDenon(r, written, read) ==
  /\ Idle
  /\ ~fw.forgetInProgress /\ ~Active /\ ~fw.connectInProgress /\ bt.serial = NoReceiver
  /\ Works(written /\ read)
  /\ savedMac' = IF written THEN r ELSE savedMac
  /\ fw' = IF read
           THEN [fw EXCEPT !.mac = r, !.known = TRUE, !.bonded = r \in bt.bonds,
                           !.nextReconnectAt = "now", !.nextA2dpReconnectAt = "now"]
           ELSE [fw EXCEPT !.mac = r, !.known = FALSE]
  /\ UNCHANGED <<task, http, bt>>

(* A faulty variant: an attempt under way is no reason to wait.             *)
MayForgetAlways == Idle /\ fw.ready /\ fw.mac # NoReceiver
(* forgetDenon() runs in phases: it waits for the stack, loop() does not.   *)
MayForget ==
  /\ Idle /\ fw.ready /\ fw.mac # NoReceiver
  /\ ~fw.forgetInProgress /\ ~fw.connectInProgress

ForgetBegins ==
  /\ MayForget
  /\ fw' = [fw EXCEPT !.forgetInProgress = TRUE]
  /\ http' = [pc |-> "disconnect", receiver |-> fw.mac]
  /\ UNCHANGED <<task, bt, savedMac, linkMishaps>>

ForgetStep(pc) == http' = [http EXCEPT !.pc = pc] /\ UNCHANGED fw
(* A faulty variant: an early return leaves the flag.                       *)
forgetReturns == http' = NoHttp /\ UNCHANGED fw
forgetFailed == http' = NoHttp /\ fw' = [fw EXCEPT !.forgetInProgress = FALSE]

ForgetDisconnects ==
  /\ http.pc = "disconnect"
  /\ \/ /\ Active
        /\ bt' = [bt EXCEPT !.serial = NoReceiver,
                            !.audio[fw.mac] = IF @ = "none" THEN @ ELSE "closing"]
        /\ ForgetStep("audio") /\ UNCHANGED linkMishaps
     \/ /\ ~Active
        /\ bt' = [bt EXCEPT !.serial = NoReceiver]
        /\ ForgetStep("bond") /\ UNCHANGED linkMishaps
     \/ forgetFailed /\ LinkMishap /\ UNCHANGED bt
  /\ UNCHANGED <<task, savedMac>>

(* The audio ends within five seconds or it does not.                       *)
ForgetWaits ==
  /\ http.pc = "audio"
  /\ \/ ~Active /\ ForgetStep("bond") /\ UNCHANGED linkMishaps
     \/ Active /\ forgetFailed /\ LinkMishap
  /\ UNCHANGED <<task, bt, savedMac>>

ForgetRemoves ==
  /\ http.pc = "bond"
  /\ \/ /\ bt' = [bt EXCEPT !.bonds = @ \ {fw.mac}]
        /\ ForgetStep("removed") /\ UNCHANGED linkMishaps
     \/ forgetFailed /\ LinkMishap /\ UNCHANGED bt
  /\ UNCHANGED <<task, savedMac>>

ForgetAnswers(written) ==
  /\ http.pc = "removed"
  /\ Works(written)
  /\ savedMac' = IF written THEN NoReceiver ELSE savedMac
  /\ fw' = [fw EXCEPT !.mac = NoReceiver, !.bonded = FALSE, !.known = TRUE]
  /\ http' = [http EXCEPT !.pc = "restart"]
  /\ UNCHANGED <<task, bt>>

Restarts(ready) ==
  /\ fw' = AfterBoot(savedMac, bt.bonds, ready)
  /\ bt' = Silence(bt.bonds)
  /\ task' = NoTask /\ http' = NoHttp
  /\ UNCHANGED savedMac

(* ready: the stack starts and the bonds can be read.                       *)
ForgetRestarts(ready) == http.pc = "restart" /\ Works(ready) /\ Restarts(ready)
PowerIsLost == LinkMishap /\ Restarts(TRUE)

-----------------------------------------------------------------------------
BluetoothEvents ==
  \/ \E r \in Receivers :
       Calls(r) \/ Pairs(r) \/ GetsThrough(r) \/ HangsUpItself(r) \/ Ends(r)
  \/ LinkIsLost

TaskSteps == TaskStarts \/ TaskConnects \/ TaskFails \/ \E ok \in BOOLEAN : TaskChecks(ok)

Maintains == \E read, ok \in BOOLEAN : maintainDenon(read, ok)

Forgets ==
  \/ ForgetDisconnects \/ ForgetWaits \/ ForgetRemoves
  \/ \E written \in BOOLEAN : ForgetAnswers(written)
  \/ \E ready \in BOOLEAN : ForgetRestarts(ready)

LinkRequests ==
  \/ ForgetBegins
  \/ \E read, ok \in BOOLEAN : reconnectDenon(read, ok)
  \/ \E r \in Receivers, written, read \in BOOLEAN : saveDenon(r, written, read)

LinkNext ==
  \/ BluetoothEvents \/ TaskSteps
  \/ NoticesLink \/ Maintains \/ LinkRequests \/ Forgets
  \/ TimePasses \/ HalfPasses \/ PowerIsLost

(* loop(), the handlers and the task run on, the stack ends what it is told *)
(* to end, and time passes.  loop() runs in each half of the range of       *)
(* millis(), and the handler looks again and again while it waits.          *)
HangUpEnds(r) == bt.audio[r] = "closing" /\ Ends(r)
LinkFairness ==
  /\ WF_linkVars(NoticesLink) /\ SF_linkVars(Maintains) /\ SF_linkVars(Forgets)
  /\ WF_linkVars(TaskStarts) /\ \A r \in Receivers : WF_linkVars(HangUpEnds(r))
  /\ WF_linkVars(TimePasses) /\ WF_linkVars(HalfPasses)

LinkSpec == LinkInit /\ [][LinkNext]_linkVars /\ LinkFairness
=============================================================================
