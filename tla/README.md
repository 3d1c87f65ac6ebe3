# Denon app volume: a TLA+ verification project

The system keeps one receiver volume per Apple TV app. When an app comes to the
front, an ESP32 drives a Denon receiver to the volume saved for that app; when
somebody changes the volume, the ESP32 learns it. This directory holds TLA+
modules translated from the source, TLC configurations that check them on small
instances, and TLAPS proofs of theorems about them. The documentation of the
program (`src/README.md`, `src/ACCEPTANCE.md`) is used only for what it promises;
every definition comes from the code.

```
Apple TV --DVT--> collector --MQTT--> Home Assistant --HTTP--> ESP32 --Bluetooth SPP--> receiver
```

Contents: [inventory](#inventory), [modules](#modules),
[correspondence](#how-the-modules-correspond-to-the-code),
[runs and bounds](#runs), [fairness](#fairness), [proofs](#proofs),
[findings](#findings), [limits](#limits), [plan](#plan).

## Inventory

| Component | Source | State | Operations | Hard behaviour | What makes it correct |
|---|---|---|---|---|---|
| Volume arithmetic | `src/src/volume_target.h` | none | predicates and `volumeRapidClickCount` | clamps that cross near the target | a planned burst never passes the target |
| Volume target controller | `src/src/main.cpp` `setVolume`, `maintainVolumeRestore`, `observeVolume` | `restore*`, `volumeTargetGeneration` | start, pause, click, burst, extend, settle, confirm, fail, complete | reports come late and out of step with the clicks that caused them; ten phases with timers | every target ends; "reached" means reached; no overshoot |
| Mute lock and re-mute journal | `observeMute`, `armAutomaticRemuteRecovery`, `clearAutomaticRemuteJournal`, `maintainAutomaticRemute` | `denonMuted`, `manualMuteLocked`, `automaticRemute*`, NVS key | unmute for a muted idle restore and mute again | power loss, failed NVS writes and lost commands between unmute and re-mute | a mute the firmware broke is journalled before, mended after, forgotten never |
| App ownership, leases, learning | `receiveApp`, `queueAppCandidate`, `activatePendingApp`, `clearCurrentApp`, learning in `observeVolume` | `currentApp*`, `pendingApp*`, `current/pendingPlayback*`, `reconnectRestore*` | candidate, debounce, switch, idle event, revocation, reauthorization | retries, stale leases, link losses in the debounce | no muted restore without authority; a retry starts nothing; nothing is learned that nobody chose |
| App table and backup bank | `loadAppVolumes` ... `maintainAppStorage`, `sendBackup`, `restoreBackup` | `appVolumes`, `appDirty`, `appSequence`, `activeAppBank`, NVS | learn, evict, delayed save, load, snapshot, restore | crash between two writes; eviction before a save | what is believed saved is saved; a restore is atomic |
| Bluetooth link | `maintainDenon`, `readDenon`, `connectDenonTask`, `a2dpEvent`, `forgetDenon` | `denonMac`, `denonBonded`, `connectInProgress`, `forgetInProgress`, reconnect timers, bonds | save, pair, connect, notice the edges, read, forget | a task and a callback besides `loop()`; a handler that waits; a clock that is compared signed | no link without a bond; a forgotten receiver is gone; a saved one is tried for ever |
| Bluetooth diagnostics | `src/include/bt_diagnostics.h` | none | log a status | | |
| Wi-Fi and static network | `saveNetwork`, `saveWifi`, `commitNetworkStorage`, `maintainWifi`, `startWifi` | seven NVS keys, the setup access point, `stationHttpClaimed`, timers | write, roll back, restart, join, lose, start and stop the access point | partial writes, power loss, a fixed address its network has outgrown | a fixed address is one save as a whole; what `loop()` has seen of the network locks nobody out |
| API pairing | `pairApi`, `unpairApi`, `maintainTokenResetButton`; `config_flow.py` | token, claim window, button; entry and flows of Home Assistant | claim, release, reset, reject, reauthenticate | a probe and a claim are two requests; lost answers; restarts | the owner stays the owner; a rejected entry asks to be paired |
| Web interface | `sendVolume`, `sendTargetVolume`, pages | none of its own | clicks and targets | a user in the middle of a restore | see the controller |
| Log ring | `src/include/network_logs.h` | ring, sequence, boot id | append, statistics, read from cursor | overwriting while a page is built | what is missing is a visible gap |
| Home Assistant relay | `src/custom_components/denon_app_volume/__init__.py`, `api.py` | generations, last sent, deferred app | send, retry, heartbeat, revoke | changes while a POST is awaited | the app in front becomes the owner; nothing is granted twice |
| Backup synchronisation | same, `_async_sync_backup` | stored snapshot, `Store`, delayed save | mirror, restore, read back | failing requests, restarts | the mirror is saved; an empty device gets it |
| Setup and config flow | `config_flow.py`, `const.py` | config entry, flows | discover, pair, reauthenticate, remove | a form that is older than the device's state | see API pairing |
| Foreground collector | `src/tools/appletv_foreground/collector.py` | guard, tracker, MQTT client, outages | poll, settle, publish, replay, restart tunneld | glimpses, ambiguous snapshots, outages of source and broker, back-off | only a settled app is shown; an event names one transition; unavailable rather than wrong |
| Rolling log recorder | `src/tools/rolling_logs/recorder.py` | segments, cursors, queue | ask, check, queue, commit with checkpoint, stop | death between fetch and commit, reboots, a full queue | nothing is lost silently or stored twice; what is logged arrives |

The components talk through HTTP requests (Home Assistant to ESP32), commands
and reports on the Bluetooth serial link (ESP32 to receiver and back), NVS
(across restarts of the ESP32) and `Store` (across restarts of Home Assistant).
`loop()` is single-threaded: a handler runs to its end before the next one, so
concurrency lies in the messages in flight, the timers, the users and the
failures - and for the Bluetooth link also in the connection task and the stack's
callback, which run while `loop()` or a handler waits. The hazards of this code, each at its line, are in `PROJECT.json`.

## Modules

| Module | What it is |
|---|---|
| `VolumeMath` | the predicates and the click count of `volume_target.h`, as operators |
| `Firmware` | the functions of `main.cpp` on ownership, leases, targets and learning, as operators from a firmware state to the next |
| `Feedback` | `observeMute`, `observeVolume`, the journal and the link edges, likewise |
| `Controller` | the state machine: HTTP handlers, steps of `loop()`, the link with commands and reports in flight, receiver, users, failures |
| `ControllerProperties`, `MCController` | its properties; constants for TLC |
| `AppTable` | the slots in RAM, the two NVS banks, the backup endpoints |
| `BackupSync` | `AppTable` composed with the mirror in Home Assistant |
| `SlotStore` | abstract: one table and one stored copy, restored at once or not at all |
| `BackupProperties`, `MCBackup` | properties of the two, the refinement mapping; constants for TLC |
| `ForegroundSource` | abstract: the foreground sensor that Home Assistant sees; an event names one transition |
| `Relay` | `AppRelay`: changes, turns, the gate, requests in flight, heartbeats, restarts; the device's side of a request |
| `RelayProperties`, `MCRelay` | its properties; constants for TLC |
| `DenonLink`, `LinkProperties` | the Bluetooth link: task, callback, `loop()`, web handlers; its properties |
| `Network`, `NetworkProperties` | Wi-Fi, the seven keys, the setup access point; its properties |
| `Pairing`, `PairingProperties` | the device's token, its button, and the Home Assistants that claim it; its properties |
| `Device`, `MCDevice` | the three parts as one specification; constants for TLC |
| `LogArchive`, `LogProperties` | the log ring, the reader, the queue, the writer and the database; its properties |
| `Collector`, `CollectorProperties` | polls, guard, tracker, MQTT; its properties and the refinement of `ForegroundSource` |
| `TunneldWatch`, `WatchProperties` | when the collector asks tunneld to exit; its properties |
| `Services`, `MCServices` | the three parts as one specification; constants for TLC |
| `*_proofs` | theorems and their lemmas, one module per module they are about |

`Controller` EXTENDS `Feedback` EXTENDS `Firmware` EXTENDS `VolumeMath`. In this
chain a handler is a composition of operators on a record `f`, as it is a
composition of calls in C++; the actions of `Controller` apply it in one step.
`BackupSync` EXTENDS `AppTable`, whose operations are actions on its variables.
`Relay` EXTENDS `ForegroundSource` for the sensor it reads, and `Collector` is
checked to implement that same module (`SensorIsSource`), so that the relay is
checked against what the collector really publishes.

`Device` and `Services` are sums, not products. Their parts share no state: a
behaviour chooses in `Init` which `part` moves, with the others at rest in one
initial state, and everything that is true of each part by itself is true of the
sum and conversely. It lets one run ask the questions of three parts without
multiplying their states.

## How the modules correspond to the code

**Controller.** `f` holds the globals of `main.cpp` (lines 128-230). `f.t` are the
`restore*` variables; `f.nv` is the NVS key for the owed mute and `f.remJournal`
what RAM believes of it; `f.saved` is the app table as a function from apps to
levels. `toRx` and `fromRx` are the serial link, `rx` the receiver, `ha` the last
request of Home Assistant. Ghosts: `rx.by` and `heard` (who set a level: an app's
user, nobody, or a restore that has not arrived - `Midway`), `rx.broken` (a click
undid the user's mute), `used` (bounds).

- An action is a whole handler. `ReadDenon` is the read of one report with
  everything `observeMute` or `observeVolume` does; `SeesConnected` and
  `SeesDisconnected` are the edges in `maintainDenon`; `maintainVolumeRestore` is
  one action per branch, guarded by the earlier returns (`RestoreRuns`,
  `Driving`). A serial write that comes up short takes the failure branch
  (`Sends`).
- The clock is abstracted to what its comparisons say. A lease is an `Authority`
  (none, fresh, stale) and may expire at any step; the 30 s deadline may pass at
  any step; `quiet` says that the learning cooldown has run out. Timers that wait
  for the receiver (300 ms to 2 s) run out only when nothing is in flight, or at
  any time if `SlowLink`. Only the receiver's serial link is slow: reports already
  buffered are read after a link loss, and with `LateReports` also after the
  disconnect edge has been seen.
- `PowerLoss` reloads every row as it is or as it was at the start: the delay of a
  save is `AppTable`'s matter.
- Home Assistant is the source of requests the API accepts: a new idle event, the
  same event again (retry or reauthorization), active playback, a revocation, a
  clear, an ignored id. How the relay decides between them is `Relay`'s matter.
- The receiver obeys one command at a time, moves by any of `Gains` raw steps,
  unmutes on a volume command and reports volume and mute in either order.
- The dropping of a burst extension that is no longer allowed (main.cpp 1653-1658
  and 1664-1672) cannot be reached: an extension that was granted stays allowed.
  The model has no such branch and run `liveness` checks `ExtensionStaysAllowed`
  instead. `restoreManualMuteOverride` and `muteManualFeedbackDirection` are kept
  although little depends on them.

**AppTable.** `rows`, `dirty`, `appSequence`, `activeAppBank` are the globals of
the same names; `nv` holds the keys `app_bank`, `appNN`/`bakNN` and
`app_seq`/`bak_seq`. A row's value is its name and level together: a rename and a
new level do the same to the table. `Remember` is `rememberAppVolume` with the
slot it finds or allocates, and the save if it is immediate; `Persist` is one slot
of `maintainAppStorage`. A write is saved, failed, or saved without its sequence
number, whose result the code does not look at. `PartlyWritten(apps, done)` is
`writeBackupBank` cut off after any number of its writes, by a failure (answer
500) or by a power loss; the readback only turns what was not written into a
failure. A commit of no apps answers 204 and changes nothing, and Home Assistant
never asks for it. After a commit the firmware calls `startRestoreForCurrentApp`,
which touches no row and belongs to `Firmware`.

**BackupSync.** `ha.next` says where `AppRelay.async_run` stands: reading the
backup, restoring it, or sending the app. A turn after a heartbeat begins with the
backup, a turn after a change does not. The readback after a restore decides only
what is logged and is not a step. Sending an app makes it the owner at once; the
debounce and everything else about a switch is `Controller`'s matter, and any
level may be learned for the owner at any time.

**Relay.** `relay.pc` says where `async_run` awaits: nothing, the backup, or the
answer to a POST. `fresh` stands for the two generation counters being unequal,
`superseded` for the foreground generation having advanced during the POST,
`deferred` and `last` for `_deferred_app` and `_last_sent`. `GatedPayload`,
`Said` and `Reauthorizes` are the decisions of `_gated_payload` and
`_async_send_current`, `Turn` one pass up to its await, `Accepts` the device's side
together with the answer. A request whose answer is not awaited any more stays in
`line` and is read later (`TimesOut`). The device is its owner and the last event
it granted; everything else of it is `Controller`'s.

**DenonLink.** Everything that runs concurrently is an action of its own: the
events of the stack (`Calls`, `Pairs`, `GetsThrough`, `Ends`, ...), the steps of
`connectDenonTask` between its blocking calls, and `forgetDenon` cut at the places
where it waits (`http.pc`). `loop()` and the other handlers do not run while a
handler waits (`Idle`); the stack and the task do. A timer is the 0 that the code
writes (`now`), ahead, or reached, and 0 is reached only while `millis()` is in its
lower half (`upperHalf`). A call of the stack that fails, NVS that does not take a
value and bonds that cannot be read count as mishaps.

**Network.** `nv` has the seven keys of `NetworkStorageKey`, with a subnet for an
address: two addresses belong together if their subnets are the same. `Commit`
gives every store that `commitNetworkStorage` can leave: the new one, the old one
after a rollback, any prefix of the writes at a power loss, and any mixture of two
prefixes when the rollback fails as well. `Usable` is that the network is joined
and the address in use is one of it; requests come over it or over the access
point. The network drops and changes its addresses at any moment (`Drops`, `Moves`).
`home.unseen` is a history for `Reachable`: with a fixed address, such a thing has
happened and no pass of `loop()` has found the device without its network since.

**Pairing.** A flow keeps what its probe found and claims later (`SubmitsDiscovered`,
`Claims`): two hubs may both have found the device unpaired. The claim window is
unset, open or over, and over turns to open again by the signed comparison. Tokens
are numbered as they are made up. The loss of an answer after the claim, a failed
NVS removal, restarts of either side and the button with its two timers are
actions.

**LogArchive.** A record is its boot and number. A page is built record by record
(`ReadsRecord`) while `Logs` goes on, from statistics taken first; `reader` is
`esp32_text` with `pc` for where it is and `offer` for what `EventQueue.put` waits
to hand over. `TakesBatch` takes any number of the queued events, `Writes` commits
rows, gaps and the last cursor at once, as the transaction does. `Dies` loses what
was not committed; `IsTerminated` begins the orderly stop.

**Collector.** The clock is in ticks: an age beyond its limit stands for all that
are. `settle` is `DvtSettleGuard`, `tracker` is `ForegroundTracker` with
`ForegroundState`, `mqtt.pipe` what the client has yet to send. A poll is one
action per kind of outcome with all it does to guard, tracker and messages. `seen`
is the history of the polls that `SettledBeforeShown` is stated with; it is
recorded from the polls and not from the guard.

**TunneldWatch.** `recovery` is `TunneldRecovery` with the ages of `absent_since`
and `next_at`; every tick makes one attempt. `since` is history.

## Runs

Passing runs, with two workers on a small machine:

| Run | States | Question | Properties |
|---|---|---|---|
| `mute_cycle` | 1.9 M | is a mute that a restore breaks always owed, journalled, paid first and forgotten last? | `TypeOK`, `JournalMatchesKey`, `BrokenMuteIsJournalled`, `CycleIsArmed`, `KeyClearedOnlyWhenRemuted`, `MuteComesFirst` |
| `two_apps` | 3.0 M | does authority follow the app in front, through switches, retries and link losses? | `CycleIsAuthorized`, `CreditIsCurrent`, `MutedNeedsLease`, `RepeatStartsNothing` |
| `bursts` | 4.9 M | do long restores of several bursts arrive, learn nothing on the way, and stay muted without a lease, also with a web user in between? | `PlannedBurstStopsShort`, `CompletionIsExact`, `UntouchedIsNotLearned`, `MutedNeedsLease` |
| `liveness` | 393 k | does everything started end? | `ExtensionStaysAllowed`, `BrokenMuteIsMended`, `TargetEnds`, `SwitchEnds` |
| `app_table` | 378 k | are the table and its mirror what they are believed to be, whatever goes wrong? | `CleanRowsAreStored`, `UnsavedIsPending`, `RevisionTellsTables`, `RestoreIsAtomic` |
| `relay` | 681 k | does the device learn which app is in front, and nothing twice, whatever is lost? | `RetryGrantsNothing`, `DeliveredIsNotNews`, `DueIsOwner` |
| `device` | 227 k | are link, network settings and pairing safe and never stuck? | `DeviceTypeOK`, `LinkIsBonded`, `ForgetIsFinal`, `FixedIsWhole`, `RetriesGoOn`, `Reachable`, `OwnerIsKept`, `RejectionIsNoticed` |
| `services` | 162 k | is the archive complete, the sensor right and tunneld left alone? | `NothingIsLostSilently`, `LogsArrive`, `AvailableIsCurrent`, `SensorIsSource`, `SettledBeforeShown`, `FrontIsShown`, `RestartsAreDue` |

Every property is stated and explained where it is defined. Each has a mutant in
`PROJECT.json`: a plausible bug in a mapped definition (the faulty variants stand
next to the definitions) with which TLC finds the property violated.

### Bounds and why they are enough

- *Levels.* `MaxRaw` is 3 (196 in the code), 9 in `bursts` with a saved level of 7:
  a probe, a planned burst, an extension and a fine approach all fit in. Worst gain
  1 or 2 (16 in the code), probe 2, burst at most 2 or 3 clicks (196 raw steps need
  no other case; the arithmetic is proved for all values).
- *Steps.* `MaxSteps` 4 to 8 (196 in the code), so that running out of steps
  happens. `GenSpan` 3: the generation wraps.
- *Events.* One or two idle events, up to two further updates, one manual and one
  remote action, at most one link loss, power loss and failed write each - and all
  of them in one behaviour in `mute_cycle`. The hazards take one failure in the
  middle of one event that overlaps another.
- *Apps.* One where ownership does not matter, two where it does. Both runs on
  muted restores start with the receiver muted and not.
- `SlowLink` and `LateReports` are TRUE in `mute_cycle`, where any disorder of
  reports must be harmless.
- *Table.* Two slots and three apps (16 slots in the code), so that eviction,
  a full table and an order among rows all occur; two values, four sequence
  numbers; one mishap of any kind, where a power loss in the middle of a save or a
  restore counts as one. Apps and values are symmetric: no property or constant
  names one of them.
- *Users.* One web user's request in `bursts`, one key of the remote in `liveness`.
- *Relay.* Two apps, a media player of its own (`Playback` is `separate`), two
  events, one mishap of any kind: a lost answer, a refusal, a request that arrives
  late, a restart of either side. Two events are enough for one that is granted
  again after another.
- *Device.* Two receivers, networks, subnets and hubs. One failing call or power
  loss for the link; two failing writes or power losses for the network, so that a
  rollback fails too; three tokens and one mishap for the pairing.
- *Services.* A ring of two records, pages of two, a queue of two, three records per
  boot, two boots, one mishap: a page is overtaken, the queue fills, the recorder
  dies with a batch in hand. Three events, a settle time of two ticks after an
  ambiguity of one, one loss of the broker or the collector. An absence of two
  ticks with pauses of 4 and 8, the largest.

## Fairness

What must happen in the end is checked under the following.

Controller (`liveness`):

- Weak fairness of `ReadDenon`, `SeesConnected`, `SeesDisconnected`, `StatusPoll`
  and `RestoreDeadline`: `loop()` calls them again and again, and each stays enabled
  until it is taken.
- Weak fairness of `ReceiverObeys` and `LinkUp`: a receiver that is there answers,
  and the connection task retries. Without them nothing could be mended.
- Strong fairness of `maintainAutomaticRemute` and `maintainAppSwitch`: their timers,
  once they have run out, stay so, while `Overdue` of the model turns false again
  during each poll.
- No fairness for clicks and bursts: that every target ends rests on the deadline,
  as in the code. No fairness for users, Home Assistant or failures.

Elsewhere, and nowhere for users, sources, networks or failures:

- `Relay`: weak for `Wake`, `Synced` and `Accepts` - the loop runs on, requests are
  answered; strong for `Heartbeat`, since every change starts its five seconds anew:
  the sources are quiet for that long again and again.
- `DenonLink`: weak for `NoticesLink`, the start of the task, the passing of time in
  both halves of the clock's range, and the end of an audio connection that was told
  to end; strong for `maintainDenon`, which looks in each half of the range, and for
  the waiting handler, which looks again every 20 ms. Whether a connection attempt
  ever succeeds is left open.
- `Network`: weak for `maintainWifi` and its timer. Nothing makes a network come.
- `Pairing`: weak for joining Wi-Fi; strong for the 401 of a heartbeat, which is
  possible only while the device is joined.
- `LogArchive`: weak for the device's answers, the reader, and the writer with the
  restart of a service that has failed.
- `Collector`: weak for the polls, the ticks, a new session, and the MQTT client.
- `TunneldWatch`: weak for ticks and attempts. Its one property is a safety property.

## Proofs

`tlapm` checks the following for every value of the constants that satisfies the
named assumptions (`VolumeAssumption`, `FirmwareAssumption`,
`ControllerAssumption`, `TableAssumption`, `SyncAssumption`, `RelayAssumption`,
`LinkAssumption`, `NetworkAssumption`, `PairingAssumption`, `LogAssumption`,
`CollectorAssumption`, `WatchAssumption`: non-empty ranges, an empty identity that is no
app or no receiver, bounds that are numbers, and at least three values of the generation
of a target, `GenSpan`, which is 2^32 in the code). `PowerAssumption` of `TunneldWatch` says
that a power of two is a natural number: the
prover has no exponentiation, and TLC evaluates it over the exponents that occur. An invariant that is not
inductive as it stands is a conjunct of one that is; the proof has a lemma per
operator or action, and one that composes them.

The volume controller:

- `Feedback_proofs!RapidClickCountIsSafe`. Whatever distance and gain were
  measured, `volumeRapidClickCount` is 0 or between the probe size and the maximum,
  and even clicks of the worst gain stay short of the target. By cases on the
  clamps, with lemmas on integer division.
- `Controller_proofs!TypeCorrect` (`TypeOK`). `TypeOK` is inductive.
  `Feedback_proofs` shows that each operator takes a typed
  firmware state to one; `Controller_proofs` has one lemma per action. It is more than
  hygiene: levels stay in 0..196 or absent, planned clicks within their bound,
  phases among the ten.
- `Controller_proofs!CyclesAreAuthorized`, `CyclesAreArmed`, `CreditsAreCurrent`
  (`CycleIsAuthorized`, `CycleIsArmed`, `CreditIsCurrent`). All three follow from one
  invariant, `OwnerOK`, inductive with `TypeOK` and with the fact that an event which may
  be sent again names an app. None of the three is inductive. That a muted restore keeps
  its app needs that no candidate waits beside it and that every lease belongs to a
  session of the link, so that a connect edge finds none; that it owes a mute needs that
  it has sent nothing while it waits for its first command, and that no re-mute was asked
  for while it runs, so that no report can settle the mute; that a credit never stands
  beside a running target needs that a candidate which waits beside a credit is allowed
  nothing. `NewPass` is used once: the handler of an idle event finds no muted restore that
  still waits. Operators are sorted by what they do to the owner (nothing, end the target,
  go on), so that most lemmas only say which.
- `ControllerSafety_proofs!JournalIsRight` (`JournalMatchesKey`). What RAM believes
  of the re-mute key is what NVS holds, and a set key is known (`JournalOK`): only
  `armAutomaticRemuteRecovery`, `clearAutomaticRemuteJournal` and `Boot` touch the key,
  and the lemmas show that every other operator leaves it and what is believed of it
  alone.
- `ControllerSafety_proofs!MuteBeforeClicks` (`MuteComesFirst`). From the same
  invariant: a set key is a mute the firmware knows it owes, and each action that sends
  a click either runs in a muted restore or is refused while a mute is owed.
- `ControllerSafety_proofs!RetriesStartNothing` (`RepeatStartsNothing`). An event
  that was the last one consumed can only confirm, end or pause what runs
  (`NoNewTarget`), and adds to no authority (`NoNewGrant`): no lease begins anew, and a
  candidate the retry brings back waits out its debounce without the permission to be
  restored. It speaks of transport retries; a reauthorization may start a target from
  the credit, which `CreditIsCurrent` is about.
- `ControllerSafety_proofs!ExtensionsStayAllowed` (`ExtensionStaysAllowed`). The
  inductive invariant is `ExtOK`: an extension waits in `waitBurstSecond` for its click;
  no target overrides the lock; only a muted restore owes a mute or runs on a receiver
  known to be muted; and once it has unmuted the receiver, a report of no mute is known
  to be its own. The last two are what keeps the reports of a mute that come between
  grant and click harmless: they end the target. With it goes the claim made above that
  main.cpp 1653-1658 and 1664-1672 cannot be reached.
- `ControllerSafety_proofs!MutedClicksAreGranted` (`MutedNeedsLease`), for every value
  of the constants. `StepsOnTheWire` sorts all steps by what they put on the serial link.
  The inductive invariant, `HeardIsTrue`, is about the reports in flight: while the link
  is up the last mute report among them says how the receiver is, and when there is
  none the firmware, if it has seen the link come up, knows.
- `ControllerSafety_proofs!BrokenMutesAreJournalled` (`BrokenMuteIsJournalled`) and
  `KeyGoesWithTheMute` (`KeyClearedOnlyWhenRemuted`), under `~SlowLink`, with any
  queue. The inductive invariant, `DebtOK`, says what is in flight while a mute is
  owed: no click of a target is on its way to a muted receiver unless the key is
  written (`OnItsWay`); a mute command travels alone and the firmware believes nothing
  meanwhile (`MuteIsAlone`); while its confirmation is awaited no click is in flight and
  no report of an earlier mute is (`ConfirmingOK`); and what has been heard of a muted
  receiver is that it is muted (`MutedIsHeard`).
- `Target_proofs!PlannedBurstsStopShort` (`PlannedBurstStopsShort`) and
  `CompletionsAreExact` (`CompletionIsExact`), under `~SlowLink`; the first for gains of
  at most `WorstRaw`, the second for any. Both come from one inductive invariant,
  `FirstOK`, which says for each phase of the first target what may be in flight:
  nothing at all between the phases (`Still`), one click and its report while a step is
  awaited (`Waiting`), reports that all tell the present level (`Steady`), or reports the
  last of which does (`Settles`) - so that the report a completion goes by is true. For a
  burst, `BurstOK` counts the clicks on the wire: all of them go the one way, and the way
  come so far plus the worst of the clicks in flight is within the worst of the clicks
  sent, that of the clicks planned, and thereby the distance to the target, where
  `RapidClickCountIsSafe` enters. A sent sequence is counted as a finite set, with lemmas
  on what one command more or less does to the count. Both speak of the first event
  (`FirstEvent`): at a second one clicks of the earlier target may still be on their way,
  and nothing in the code waits for them.

The app table and its mirror:

- `AppTable_proofs!SavedIsSaved` (`CleanRowsAreStored`). Inductive with the types,
  `DirtyRowsAreUsed` (a mark is on a used row, or a save would be skipped) and
  `RowsAreCounted` (no row is ahead of `appSequence`). The proof has one lemma per
  operation of the table; steps of Home Assistant leave the table alone.
- `AppTable_proofs!TableIsSlotStore` (`RestoreIsAtomic`). The same invariant gives the
  refinement of `SlotStore`: `rows` is the table, the bank that `app_bank` names is
  its stored copy. A half-written restore maps to a stutter, since it writes to the
  other bank; a commit maps to `RestoreAll`, for which an empty table must have an
  empty copy, which is where `CleanRowsAreStored` and `DirtyRowsAreUsed` are needed;
  a changed slot has a later number by `RowsAreCounted`.
- `AppTable_proofs!UnsavedIsSavedLater` (`UnsavedIsPending`). Inductive with
  `PendingIsStored`: a save that waits was scheduled after the backup was loaded, and
  will write what the relay holds now.
- `AppTable_proofs!RevisionsTell` (`RevisionTellsTables`). A step that changes what a
  snapshot shows raises `appSequence`, except one: a restore sets it anew. That one
  starts from an empty table, and `EmptyIsUnnumbered` says that an empty table is at
  revision 0, in RAM as in the bank that a restart would load.

Home Assistant's relay:

- `Relay_proofs!RetriesAreHarmless` (`RetryGrantsNothing`) and `DeliveryEndsNews`
  (`DeliveredIsNotNews`), for any number of mishaps and thus of requests under way
  whose answers nobody awaits any more. The device compares with the last event only; that is
  enough because events are granted in the order of the sensor (`GrantsAreOver`,
  `LineIsAhead`), and the requests under way are in that order too (`LineIsInOrder`).
  What was delivered is not said again as news because nothing of it is under way and
  the relay knows (`ToldIsOver`).

The parts of `Device`, each with an invariant of its own, put together by
`PartsMove` - a step of the sum is a step or a stutter of each part
(`Device_proofs`):

- `DeviceIsTyped` (`DeviceTypeOK`): with the types, the task runs exactly while
  `connectInProgress` says so and the token in use is the one a restart loads.
- `SerialIsBonded` (`LinkIsBonded`) and `ForgottenIsGone` (`ForgetIsFinal`).
  Both from `LinkInv`: no task runs while a receiver is forgotten
  and the saved one does not change, audio is open to the saved receiver only and the
  firmware knows of it, and each phase of `forgetDenon` keeps what the one before has
  reached. The lemmas say what a start of the task, a callback and a phase may
  disturb. In the invariant `LinkIsBonded` needs the exclusion of the task from the
  forgetting, which is what the tests of `connectInProgress` and `forgetInProgress` are
  for.
- `FixedAddressIsWhole` (`FixedIsWhole`), from `NetInv`. Until something fails, NVS
  holds one save as a whole and the firmware runs by it (`RunsByStore`); after one
  failed or cut write the keys of the address are all of one save or absent
  (`Uniform`), because a save that replaces another never puts one fixed address in the
  place of one of a different subnet (`Compatible`): a new network is saved without an
  address, a pending one is made fixed where none was, and `saveNetwork` saves an address
  of the network the device has joined, with the subnet of the one it replaces.
- `OwnerStays` (`OwnerIsKept`). `PairInv` adds to the types that
  nobody holds a token which has not been made up, and that no two hold the same one.
  So a new token is nobody's, and a step that makes up none can only take one away.

The parts of `Services`, likewise (`Services_proofs`):

- `LogIsComplete` (`NothingIsLostSilently`), from `LogInv`. What is stored and what is
  on its way to the database (the reader's gap, the queue, the batch) is one sequence
  of events, `UnderWay`. In it cursors grow and every record is just after what its
  predecessors name (`Intact`); all before the reader's cursor is named by it or by the
  archive (`SavedIsAhead`), even after the service has died, since it starts at the
  cursor that was committed with the rows; what a gap names was overwritten in the ring
  (`GapsAreOverwritten`), so that no page contains it; and what is left out between two
  records of a page was overwritten while the page was built (`PageIsRight`).
- `ShownIsCurrent` (`AvailableIsCurrent`), `NothingIsShownEarly` (`SettledBeforeShown`)
  and `SensorIsRight`, the refinement of `ForegroundSource` (`SensorIsSource`), from
  `CollectorInv`. `PipeIsRight`: the messages in MQTT lead, in their order, from what Home
  Assistant shows to what the tracker has published, each one a step the source may
  take, and availability comes last; so a delivery is a step of the abstract sensor and a poll is a stutter.
  `TrackerIsCurrent` and `GuardIsRight` tie tracker and guard to the history of the
  polls.
- `RestartsNeedAbsence` (`RestartsAreDue`), from `WatchInv`: the absence that is counted is
  not longer than the trouble was, and the pause that is left together with the one
  that has passed is a whole one (`PauseIsWhole`).
- `ServicesAreTyped`.

Only model-checked:

- Liveness: `BrokenMuteIsMended`, `TargetEnds`, `SwitchEnds`, `DueIsOwner`,
  `RetriesGoOn`, `Reachable`, `RejectionIsNoticed`, `LogsArrive`, `FrontIsShown`. They
  rest on fairness, hence on ENABLED, for which the prover has no means.
- `UntouchedIsNotLearned`, which holds within bounds of the environment (one app, no
  link loss) and not in general, as [limits](#limits) explains.
- `BrokenMuteIsJournalled` and `KeyClearedOnlyWhenRemuted` with `SlowLink`, as
  `mute_cycle` has it: the theorems are about links that are not slow, with any number of
  polls in flight, the run about a slow one with at most one.

## Findings

Each is a run that TLC finds violated, with the documentation quoted in
`PROJECT.json`.

| Run | Property | What happens |
|---|---|---|
| `midway` | `IntermediateNotLearned` | a new candidate cancels the restore of the app in front; the level it had reached is saved as that app's |
| `debounce` | `UntouchedIsNotLearned` | the link is lost in the debounce; the app becomes current without a restore, and the first report overwrites its level |
| `eviction` | `SavedRowSurvives` | a slot is evicted in RAM and its new row not yet saved when its former app returns into another slot that is saved at once; after a power loss two rows name the app, and the older is used |
| `late_backup` | `EmptyTableGetsBackup` | the sync fails once, the app is sent nevertheless, and the new device learns a level before it gets its backup, which is then overwritten |

The violation runs use the same specification as the passing ones, with the
smallest bounds that show the trace.

Known divergences without a run (the definitions stand in the `*Properties`
modules, and a run with them as PROPERTY or INVARIANT shows the trace):

- `BurstStopsShort` (main.cpp 1421): a burst is extended on the first report after
  it, while its other clicks are under way; together they pass the target.
- `RevocationStartsNothing` (main.cpp 1163): an update that only withdraws a lease
  calls off a pending switch, and by that starts the restore of the app in front.
- `OffClearsOwner` (`__init__.py` 173-178), with a media player that names the app
  itself (`Playback` is `combined`): a clear that equals what was delivered last is
  not sent, although a request whose answer was lost has made an app the owner since.
- `RefusedIsPaired` (`config_flow.py` 129): the confirmation form of a discovered
  device goes on refusing after the token was released, because it looks at the
  probe of the discovery; `translations/en.json` 35 tells the user to release it and
  try again.
- Read in the code and not stated: a bond that pairing over audio has just made is
  noticed only when the serial link asks for it; if the audio ends before, the device
  calls over audio again although main.cpp 2092 says "Use only SPP" for a saved bond.
  And the sensor that comes back from unavailable counts as a fresh transition for the
  relay, so that a device that has restarted meanwhile grants the retained event again
  (README.md 254-256 says a retained state is not treated as fresh); `RetryGrantsNothing`
  speaks of one life of the device, and `DeliveredIsNotNews` of what the sensor has not
  announced anew.

## Limits

- `UntouchedIsNotLearned` holds in `bursts` with one app, no link loss and no other
  update; `debounce` shows that it does not hold in general. `IntermediateNotLearned`
  also fails when a muted restore is aborted on its way and the user then unmutes;
  the documentation accepts learning after a manual unmute.
- `CompletionIsExact` and `PlannedBurstStopsShort` speak of the first event:
  `waitFreshStatus` takes any report for the answer to its request, so a target armed anew
  while clicks are in flight can be declared reached on an old report, and those clicks
  come on top of the next burst. A lease that expires at the target
  with a click in flight has the same effect.
- `BrokenMuteIsJournalled` and `KeyClearedOnlyWhenRemuted` speak of the time until the
  user takes the remote. A user who mutes by remote while a click is in flight is unmuted
  by it, and no code could prevent that. Over a slow link, a report that a mute by remote
  has caused may still be on its way when the firmware asks for the mute it owes, and is
  taken for its confirmation; no report says which command it answers.
- For that reason the two also fail over a slow link (`SlowLink`) with two polls in
  flight (`MaxQueue` 2): the second answer from before the click comes after
  the mute was sent again, confirms it, and the key goes while click and mute are
  on their way. The mute itself is not lost by that unless the link is.
- `MutedNeedsLease` speaks of a link that the firmware has seen come up (`f.was`). Between
  the connection and the next `maintainDenon()` an HTTP handler goes by a report of the
  last link that was read after its loss had been seen (`DisconnectEdge` has forgotten
  all earlier ones), and a click of the web user may meet a receiver muted meanwhile.
- `RevocationStartsNothing` holds with one app. `SavedRowSurvives` holds while the
  table has a slot for every app. `EmptyTableGetsBackup` needs a sync that succeeds
  before an app is sent.
- Sequence numbers are not followed beyond `MaxSequence` (2^32 - 1 in the code).
- The order of the steps within one `loop()` is left open, which only adds
  behaviours, with one exception: a request is handled at the start of a pass, when
  no muted restore waits for its first command any more (`NewPass`). App names, error texts and the contents of pages are left out.
- *Properties defined and not run.* `SequencesAreDistinct` and `TypeOK` of
  `BackupProperties` (the types of the table are proved, `TableTypeOK`), `TypeOK` of
  `RelayProperties` and `ServicesTypeOK` hold in these runs' instances; they say less
  than what the runs check and are left to the reader of a counterexample.
- `SwitchEnds` is checked without manual targets (`MaxManual` 0 in `liveness`): with one,
  checking the temporal properties takes longer than a run may. `RetriesGoOn` counts the
  passing of half of the range of `millis()` as progress, which may take 25 days
  (main.cpp 1904).
- `BrokenMuteIsMended` speaks of a restore in which nobody uses the remote: whoever
  unmutes by remote takes over the mute.
- *Link.* `saveDenon` writes its keys as one; results of `preferences.remove` are not
  looked at in the code and stand for `written`. `a2dpReady` is taken as true. The
  dialogue of a pairing, its number and its timeouts, discovery, and audio data are
  left out.
- *Network.* `Reachable` speaks of what the firmware has seen. When the addresses of the
  network change without a drop, or with one that is over before the next pass of
  `loop()`, after somebody has used the fixed address, `stationHttpClaimed` stays set,
  the access point stays down, and nothing in the code looks for it: src/README.md 82-84
  asks for a power-cycle then. The model has these steps; without `home.unseen` TLC
  shows the stranded device. A drop that a pass does see brings the access point back as
  well. A device with a lease is taken to get one of the new addresses. `FixedIsWhole`
  speaks of one fault: with a second, that of the rollback, the keys of two saves of valid
  addresses may mix, and the code has no third copy to repair them with.
- *Pairing.* A claim whose answer is lost leaves a token nobody holds; that device can
  only be reset by its button, as documented. A reauthentication that the user dismisses
  is left out; `_reauth_started` stays set after it until the relay is set up anew. `WindowTurns` happens at any time instead
  of every 25 days.
- *Log.* The tail of a boot is lost at a reboot and no gap names it, since nothing says
  how many records it had; `NothingIsLostSilently` speaks of records with a later one in
  the archive. A page with a record logged after its statistics is refused as a whole
  and asked for again. The other sources of the recorder, redaction, retention and the
  byte budget of its queue are left out.
- *Collector.* MQTT delivers in order, and what the client has queued while the broker
  was away goes out before the replay of `on_connect`; `SensorIsSource` rests on that
  order, which is the client library's. A clock that steps back, the source that reads
  the syslog, and the parsing of snapshots are left out. The first app after a start is
  shown without the guard, as in the code.
- *Relay.* The retry without the reauthorization field after a 400 (api.py 147-154) is
  for an older firmware and is left out.
- Not modelled: Bluetooth diagnostics, which log and keep no state; what is partly
  modelled is listed with its reason in `PROJECT.json`.

## Plan

Done: `VolumeMath`, `Firmware`, `Feedback`, `Controller`, `AppTable`, `BackupSync`,
`Relay`, `DenonLink`, `Network`, `Pairing`, `LogArchive`, `Collector`, `TunneldWatch`.

Theorems: every safety property of the passing runs but `UntouchedIsNotLearned`.
Next would be that one, and the parts that are only partly modelled.
