------------------------------ MODULE Collector ------------------------------
(***************************************************************************)
(* The collector of the app in front of the Apple TV                       *)
(* (src/tools/appletv_foreground/collector.py with DVT polling): a thread  *)
(* polls the processes, a guard holds back what may be a glimpse after a   *)
(* screensaver or an outage, a tracker gives each transition an event, and *)
(* MQTT messages carry state and availability to Home Assistant.  Polls    *)
(* fail, snapshots are ambiguous, the broker is lost, the collector dies.  *)
(***************************************************************************)
EXTENDS ForegroundSource, Sequences

CONSTANTS
  LastGood,            \* _DVT_LAST_GOOD_SECONDS, all three in ticks
  Ambiguity,           \* _DVT_AMBIGUITY_SECONDS
  Settle,              \* _DVT_SETTLE_SECONDS
  Never,               \* no time, no app
  MaxPipe,             \* messages under way when the next poll is made
  MaxCollectorMishaps  \* losses of the broker and of the collector

ASSUME CollectorAssumption ==
  /\ {LastGood, Ambiguity, Settle, MaxPipe, MaxCollectorMishaps} \subseteq Nat
  /\ LastGood <= Ambiguity /\ Ambiguity < Settle
  /\ Never \notin MaybeApp \cup Nat

VARIABLES
  view,       \* what a poll finds: an app, NoApp for a screensaver, or neither
  polling,    \* a DVT session is up
  settle,     \* DvtSettleGuard
  tracker,    \* ForegroundTracker and ForegroundState
  mqtt,       \* the client: connected, and what it has yet to send
  seen,       \* history of the polls, for SettledBeforeShown
  collectorMishaps

collectorVars == <<fg, view, polling, settle, tracker, mqtt, seen, collectorMishaps>>

View == MaybeApp \cup {"ambiguous"}

(* Ages in ticks: of pending_since, last_good_at and ambiguity_since; one   *)
(* beyond the limit stands for all that are.                                *)
Guard == [armed : BOOLEAN, pending : Apps \cup {Never}, pendingAge : 0..Settle,
          goodAge : (0..(LastGood + 1)) \cup {Never},
          ambiguityAge : (0..(Ambiguity + 1)) \cup {Never}]
NewGuard == [armed |-> FALSE, pending |-> Never, pendingAge |-> 0, goodAge |-> Never,
             ambiguityAge |-> Never]

(* event: of the payload, 0 if there is none.                               *)
Tracker == [app : MaybeApp, event : 0..MaxEvent, issued : 0..MaxEvent, online : BOOLEAN]
NewTracker(issued) == [app |-> NoApp, event |-> 0, issued |-> issued, online |-> FALSE]

MessageType == [topic : {"state"}, app : MaybeApp, event : 1..MaxEvent]
                 \cup [topic : {"availability"}, online : BOOLEAN]
Availability(online) == [topic |-> "availability", online |-> online]

(* last: the app of the last poll, steady: for how long; broken: a          *)
(* screensaver or a failure since an app was accepted, unclearAge: of the   *)
(* first ambiguous poll since then.                                         *)
History == [last : Apps \cup {Never}, steady : 0..Settle, broken : BOOLEAN,
            unclearAge : (0..(Ambiguity + 1)) \cup {Never}]
NewHistory == [last |-> Never, steady |-> 0, broken |-> FALSE, unclearAge |-> Never]

CollectorInit ==
  /\ SourceInit
  /\ view \in View
  /\ polling = FALSE
  /\ settle = NewGuard
  /\ tracker = NewTracker(0)
  /\ mqtt = [connected |-> FALSE, pipe |-> <<>>]
  /\ seen = NewHistory
  /\ collectorMishaps = 0

CollectorMishap ==
  collectorMishaps < MaxCollectorMishaps /\ collectorMishaps' = collectorMishaps + 1

Older(age, limit) == IF age = Never \/ age > limit THEN age ELSE age + 1

TickPasses ==
  /\ settle' = [settle EXCEPT !.pendingAge = Older(@, Settle - 1),
                              !.goodAge = Older(@, LastGood),
                              !.ambiguityAge = Older(@, Ambiguity)]
  /\ seen' = [seen EXCEPT !.steady = Older(@, Settle - 1),
                          !.unclearAge = Older(@, Ambiguity)]
  /\ <<settle, seen>>' # <<settle, seen>>
  /\ UNCHANGED <<fg, view, polling, tracker, mqtt, collectorMishaps>>

ViewChanges ==
  /\ view' \in View \ {view}
  /\ UNCHANGED <<fg, polling, settle, tracker, mqtt, seen, collectorMishaps>>

-----------------------------------------------------------------------------
(* DvtSettleGuard.                                                          *)

(* A faulty variant: an app that was waiting goes on waiting.               *)
armKeepsPending(guard) == [guard EXCEPT !.armed = TRUE, !.ambiguityAge = Never]
arm(guard) == [guard EXCEPT !.armed = TRUE, !.pending = Never, !.pendingAge = 0,
                            !.ambiguityAge = Never]

Within(age, limit) == age # Never /\ age <= limit

ambiguous(guard) ==
  IF guard.ambiguityAge # Never
  THEN IF Within(guard.ambiguityAge, Ambiguity) THEN guard ELSE arm(guard)
  ELSE IF ~guard.armed /\ Within(guard.goodAge, LastGood)
       THEN [guard EXCEPT !.armed = TRUE, !.ambiguityAge = 0]
       ELSE arm(guard)

Accepted(guard) == [guard EXCEPT !.armed = FALSE, !.pending = Never, !.pendingAge = 0,
                                 !.goodAge = 0, !.ambiguityAge = Never]

Lasts(guard, a) == guard.pending = a /\ guard.pendingAge >= Settle
accepts(guard, a) ==
  ~guard.armed \/ Within(guard.ambiguityAge, Ambiguity) \/ Lasts(guard, a)

(* A faulty variant: each poll starts the wait anew.                        *)
HoldsAnew(guard, a) ==
  [guard EXCEPT !.ambiguityAge = Never, !.pending = a, !.pendingAge = 0]
Holds(guard, a) ==
  IF guard.pending = a THEN [guard EXCEPT !.ambiguityAge = Never]
  ELSE [guard EXCEPT !.ambiguityAge = Never, !.pending = a, !.pendingAge = 0]

-----------------------------------------------------------------------------
(* ForegroundTracker, ForegroundState and the messages.                     *)

StateMessage(t) == [topic |-> "state", app |-> t.app, event |-> t.event]

Publishes(messages) == mqtt' = [mqtt EXCEPT !.pipe = @ \o messages]

(* source_outage().                                                         *)
Fails ==
  /\ tracker' = [tracker EXCEPT !.online = FALSE]
  /\ Publishes(IF tracker.online THEN <<Availability(FALSE)>> ELSE <<>>)

(* An app that is the same after an outage is stated again.                 *)
BackOnline == <<StateMessage(tracker), Availability(TRUE)>>

SameAgain ==
  /\ tracker' = [tracker EXCEPT !.online = TRUE]
  /\ Publishes(IF tracker.online THEN <<>> ELSE BackOnline)

(* Another app, or the first since the collector runs, is a transition.     *)
Transition(a) ==
  /\ tracker.issued < MaxEvent
  /\ tracker' = [app |-> a, event |-> tracker.issued + 1, issued |-> tracker.issued + 1,
                 online |-> TRUE]
  /\ Publishes(<<StateMessage(tracker')>>
                 \o IF tracker.online THEN <<>> ELSE <<Availability(TRUE)>>)

(* A faulty variant: an app that comes back is a transition.                *)
ShowsAnew(a) == Transition(a)
Shows(a) == IF tracker.event > 0 /\ tracker.app = a THEN SameAgain ELSE Transition(a)

-----------------------------------------------------------------------------
(* accept_dvt() with what a poll has found.                                 *)

Polls(found) ==
  /\ polling /\ view = found
  /\ Len(mqtt.pipe) <= MaxPipe
  /\ UNCHANGED <<fg, view, polling, collectorMishaps>>

SeenApp(a) == [seen EXCEPT !.last = a, !.steady = IF seen.last = a THEN @ ELSE 0]

PollsAccepted(a) ==
  /\ Polls(a) /\ accepts(settle, a)
  /\ settle' = Accepted(settle)
  /\ seen' = [SeenApp(a) EXCEPT !.broken = FALSE, !.unclearAge = Never]
  /\ Shows(a)

PollsHeld(a) ==
  /\ Polls(a) /\ ~accepts(settle, a)
  /\ settle' = Holds(settle, a)
  /\ seen' = SeenApp(a)
  /\ UNCHANGED <<tracker, mqtt>>

PollsScreensaver ==
  /\ Polls(NoApp)
  /\ settle' = arm(settle)
  /\ seen' = [NewHistory EXCEPT !.broken = TRUE]
  /\ Shows(NoApp)

PollsAmbiguous ==
  /\ Polls("ambiguous")
  /\ settle' = ambiguous(settle)
  /\ seen' = [seen EXCEPT !.last = Never, !.steady = 0,
                          !.unclearAge = IF @ = Never THEN 0 ELSE @]
  /\ Fails

(* The session ends with an error: _dvt_loop() reports the outage.          *)
PollFails ==
  /\ polling
  /\ polling' = FALSE
  /\ settle' = arm(settle)
  /\ seen' = [NewHistory EXCEPT !.broken = TRUE]
  /\ Fails
  /\ UNCHANGED <<fg, view, collectorMishaps>>

SessionStarts ==
  /\ ~polling
  /\ polling' = TRUE
  /\ UNCHANGED <<fg, view, settle, tracker, mqtt, seen, collectorMishaps>>

-----------------------------------------------------------------------------
(* MQTT; messages are retained and arrive in the order they were published. *)

Delivers ==
  /\ mqtt.connected /\ mqtt.pipe # <<>>
  /\ LET m == Head(mqtt.pipe)
     IN fg' = IF m.topic = "state" THEN [fg EXCEPT !.app = m.app, !.event = m.event]
              ELSE [fg EXCEPT !.online = m.online]
  /\ mqtt' = [mqtt EXCEPT !.pipe = Tail(@)]
  /\ UNCHANGED <<view, polling, settle, tracker, seen, collectorMishaps>>

(* A faulty variant: who is connected is available.                         *)
ReplayStale == <<Availability(TRUE)>>
(* on_connect().                                                            *)
Replay ==
  IF tracker.online THEN <<StateMessage(tracker), Availability(TRUE)>>
  ELSE <<Availability(FALSE)>>

Connects ==
  /\ ~mqtt.connected
  /\ mqtt' = [connected |-> TRUE, pipe |-> mqtt.pipe \o Replay]
  /\ UNCHANGED <<fg, view, polling, settle, tracker, seen, collectorMishaps>>

(* The broker publishes the will.                                           *)
BrokerIsLost ==
  /\ mqtt.connected /\ CollectorMishap
  /\ mqtt' = [mqtt EXCEPT !.connected = FALSE]
  /\ fg' = [fg EXCEPT !.online = FALSE]
  /\ UNCHANGED <<view, polling, settle, tracker, seen>>

CollectorRestarts ==
  /\ CollectorMishap
  /\ polling' = FALSE
  /\ settle' = NewGuard
  /\ tracker' = NewTracker(tracker.issued)
  /\ mqtt' = [connected |-> FALSE, pipe |-> <<>>]
  /\ seen' = NewHistory
  /\ fg' = [fg EXCEPT !.online = FALSE]
  /\ UNCHANGED view

-----------------------------------------------------------------------------
PollSteps ==
  \/ \E a \in Apps : PollsAccepted(a) \/ PollsHeld(a)
  \/ PollsScreensaver \/ PollsAmbiguous

CollectorNext ==
  \/ TickPasses \/ ViewChanges
  \/ PollSteps \/ PollFails \/ SessionStarts
  \/ Delivers \/ Connects \/ BrokerIsLost \/ CollectorRestarts

(* The loop polls on, time passes, and the client reconnects and delivers.  *)
CollectorFairness ==
  /\ WF_collectorVars(PollSteps) /\ WF_collectorVars(TickPasses)
  /\ WF_collectorVars(SessionStarts)
  /\ WF_collectorVars(Delivers) /\ WF_collectorVars(Connects)

CollectorSpec == CollectorInit /\ [][CollectorNext]_collectorVars /\ CollectorFairness
=============================================================================
