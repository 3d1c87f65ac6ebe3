---------------------------- MODULE Relay_proofs ----------------------------
(***************************************************************************)
(* What the relay says again authorizes nothing again: for any apps, any   *)
(* number of events, mishaps and requests under way, and each of the three *)
(* ways the sources are set up.                                            *)
(***************************************************************************)
EXTENDS RelayProperties, SequenceTheorems, TLAPS

(* A request that the device may grant.                                     *)
IsNews(r) == r.claim.playing = "no" /\ r.claim.event # 0 /\ ~r.reauthorize

(* Requests that were given up are no more than the things that went wrong. *)
LineIsShort == Len(line) <= mishaps + (IF relay.pc = "post" THEN 1 ELSE 0)

(* The device grants events in the order of the sensor, and so does the     *)
(* line, in which requests that were given up come first.                   *)
GrantsAreOver == \A e \in ghost.granted : e <= dev.event
LineIsAhead ==
  /\ dev.event <= fg.event
  /\ \A i \in DOMAIN line :
       IsNews(line[i]) => dev.event <= line[i].claim.event /\ line[i].claim.event <= fg.event
LineIsInOrder ==
  \A i, j \in DOMAIN line :
    i < j /\ IsNews(line[i]) /\ IsNews(line[j]) => line[i].claim.event <= line[j].claim.event

(* What has been told is not under way any more, and will not be said as    *)
(* news: the relay knows that it was delivered, or the sensor is down.      *)
ToldIsOver ==
  ghost.told =>
    /\ ~relay.fresh \/ ~fg.online \/ Playback # "separate"
    /\ \A i \in DOMAIN line : IsNews(line[i]) => line[i].claim.event # fg.event

RelayInv ==
  TypeOK /\ LineIsShort /\ GrantsAreOver /\ LineIsAhead /\ LineIsInOrder /\ ToldIsOver

-----------------------------------------------------------------------------
(* The values the relay computes.                                           *)

(* "unknown" and "never" are not among what the device understands.         *)
LEMMA ClaimTypes ==
  /\ Nothing \notin Handoff
  /\ \A a \in MaybeApp, playing \in {"yes", "no", Unknown}, event \in 0..MaxEvent :
       Claim(a, playing, event) \in Handoff
  /\ \A h \in Handoff : [h EXCEPT !.playing = Unknown] \in Handoff
BY DEF Nothing, Claim, Handoff, Unknown

(* A change of the sensor takes no event back.                              *)
LEMMA SourceGoesOn ==
  ASSUME fg \in Source, SourceNext
  PROVE  fg' \in Source /\ fg.event <= fg'.event
<1>0. fg.online \in BOOLEAN /\ fg.event \in 0..MaxEvent /\ MaxEvent \in Nat
  BY SourceAssumption DEF Source
<1>1. CASE Outage
  <2>1. fg' = [fg EXCEPT !.online = FALSE]
    BY <1>1 DEF Outage
  <2>2. fg' \in Source
    BY <2>1 DEF Source
  <2>3. fg'.event = fg.event
    BY <2>1 DEF Source
  <2> QED BY <1>0, <2>2, <2>3
<1>2. CASE Return
  <2>1. fg' = [fg EXCEPT !.online = TRUE]
    BY <1>2 DEF Return
  <2>2. fg' \in Source
    BY <2>1 DEF Source
  <2>3. fg'.event = fg.event
    BY <2>1 DEF Source
  <2> QED BY <1>0, <2>2, <2>3
<1>3. ASSUME NEW a \in MaybeApp, Announce(a) PROVE fg' \in Source /\ fg.event <= fg'.event
  <2>1. PICK online \in {fg.online, TRUE}, event \in (fg.event + 1)..MaxEvent :
          fg' = [online |-> online, app |-> a, event |-> event]
    BY <1>3 DEF Announce
  <2>2. event \in 0..MaxEvent /\ fg.event <= event
    BY <1>0
  <2>3. online \in BOOLEAN
    BY <1>0, Zenon
  <2> QED BY <2>1, <2>2, <2>3 DEF Source
<1> QED BY <1>1, <1>2, <1>3 DEF SourceNext

(* What a turn sees is an app, or unknown; what it revokes is a claim.      *)
LEMMA SeenTypes ==
  ASSUME TypeOK
  PROVE  /\ pb.app \in MaybeApp /\ Foreground \in MaybeApp \cup {Unknown}
         /\ EventOf \in 0..MaxEvent
         /\ relay.deferred \in MaybeApp \cup {Unknown}
         /\ relay.last \in Handoff \cup {Nothing}
         /\ Revocation \in Handoff \cup {Nothing}
         /\ NothingOrRevocation \in Handoff \cup {Nothing}
<1>1. pb.app \in MaybeApp /\ fg.app \in MaybeApp /\ fg.event \in 0..MaxEvent /\ fg.online \in BOOLEAN
  BY DEF TypeOK, Player, Source, MaybeApp
<1>2. Foreground \in MaybeApp \cup {Unknown} /\ EventOf \in 0..MaxEvent
  BY <1>1, SourceAssumption DEF Foreground, EventOf
<1>3. relay.deferred \in MaybeApp \cup {Unknown} /\ relay.last \in Handoff \cup {Nothing}
  BY DEF TypeOK, RelayState
<1>4. Revocation \in Handoff \cup {Nothing}
  BY <1>3, ClaimTypes DEF Revocation, Nothing, Claim
<1> QED BY <1>1, <1>2, <1>3, <1>4 DEF NothingOrRevocation

(* The claim of a turn is a claim; one that the device may grant names the  *)
(* event of the sensor, and a relay that was told of it.                    *)
LEMMA GatedClaim ==
  ASSUME TypeOK
  PROVE  /\ GatedPayload.claim \in Handoff \cup {Nothing}
         /\ GatedPayload.deferred \in MaybeApp \cup {Unknown}
         /\ relay.fresh /\ GatedPayload.claim.playing = "no" =>
              GatedPayload.claim.event = EventOf
<1> USE DEF Gated
<1>0. /\ Nothing.playing = "never" /\ "never" # "no" /\ Unknown # "no" /\ "yes" # "no"
      /\ \A a, playing, event : /\ Claim(a, playing, event).playing = playing
                                /\ Claim(a, playing, event).event = event
  BY DEF Nothing, Claim, Unknown
<1>1. /\ Revocation.playing # "no" /\ NothingOrRevocation.playing # "no"
  <2>1. relay.last.app # NoApp => relay.last \in Handoff
    BY SeenTypes DEF Nothing, Claim
  <2>2. Revocation.playing # "no"
    BY <1>0, <2>1 DEF Revocation, Handoff
  <2> QED BY <1>0, <2>2 DEF NothingOrRevocation
<1>2. /\ WhilePlaying.claim \in Handoff \cup {Nothing}
      /\ WhilePlaying.deferred \in MaybeApp \cup {Unknown}
      /\ WhilePlaying.claim.playing # "no"
  <2>1. CASE pb.app = NoApp
    BY <2>1, <1>1, SeenTypes DEF WhilePlaying
  <2>2. CASE pb.app # NoApp
    BY <2>2, <1>0, SeenTypes, ClaimTypes DEF WhilePlaying
  <2> QED BY <2>1, <2>2
<1>3. /\ WhileIdle.claim \in Handoff \cup {Nothing}
      /\ WhileIdle.deferred \in MaybeApp \cup {Unknown}
      /\ relay.fresh /\ WhileIdle.claim.playing = "no" => WhileIdle.claim.event = EventOf
  <2>1. CASE relay.fresh
    <3>1. CASE Foreground = Unknown \/ (Foreground # NoApp /\ Foreground = relay.deferred)
      BY <2>1, <3>1, <1>1, SeenTypes DEF WhileIdle
    <3>2. CASE ~(Foreground = Unknown \/ (Foreground # NoApp /\ Foreground = relay.deferred))
      <4>1. Foreground \in MaybeApp
        BY <3>2, SeenTypes
      <4>2. ClaimFront \in Handoff /\ ClaimFront.event = EventOf
        BY <4>1, <1>0, SeenTypes, ClaimTypes DEF ClaimFront
      <4>3. WhileIdle = Gated(ClaimFront, Unknown)
        BY <2>1, <3>2 DEF WhileIdle
      <4> QED BY <4>2, <4>3
    <3> QED BY <3>1, <3>2
  <2>2. CASE ~relay.fresh
    BY <2>2, SeenTypes DEF WhileIdle
  <2> QED BY <2>1, <2>2
<1>4. CASE Playback = "none"
  BY <1>4, <1>0, SeenTypes DEF GatedPayload
<1>5. CASE Playback = "combined" /\ pb.state = "off"
  <2>1. GatedPayload = Gated(Claim(NoApp, Unknown, EventOf), relay.deferred)
    BY <1>5 DEF GatedPayload
  <2>2. NoApp \in MaybeApp
    BY DEF MaybeApp
  <2> QED BY <2>1, <2>2, <1>0, SeenTypes, ClaimTypes
<1>6. CASE Playback # "none" /\ pb.state = "playing"
  BY <1>6, <1>2 DEF GatedPayload
<1>7. CASE Playback # "none" /\ pb.state = "idle"
  BY <1>7, <1>3 DEF GatedPayload
<1>8. CASE /\ Playback # "none" /\ ~(Playback = "combined" /\ pb.state = "off")
           /\ pb.state \notin {"playing", "idle"}
  BY <1>8, <1>1, SeenTypes DEF GatedPayload
<1> QED BY <1>4, <1>5, <1>6, <1>7, <1>8

(* A claim that a turn sends as news: the sensor is up, and the relay has   *)
(* yet to tell its event.                                                   *)
LEMMA NewsIsFresh ==
  ASSUME TypeOK,
         NEW r, r = [claim |-> GatedPayload.claim, reauthorize |-> Reauthorizes(GatedPayload.claim)],
         IsNews(r)
  PROVE  /\ relay.fresh /\ fg.online /\ Playback = "separate"
         /\ r.claim.event = fg.event
<1>1. relay.fresh /\ r.claim.event = EventOf /\ EventOf # 0
  BY GatedClaim DEF IsNews, Reauthorizes, TypeOK, RelayState
<1>2. fg.online /\ Playback # "combined" /\ EventOf = fg.event
  BY <1>1 DEF EventOf
<1>3. Playback # "none"
  BY DEF GatedPayload, Gated, Nothing, Claim, IsNews
<1> QED BY <1>1, <1>2, <1>3, RelayAssumption

-----------------------------------------------------------------------------
(* The line.                                                                *)

(* What the parts of RelayInv that look at the line say of the new state,   *)
(* when it has lost its first requests.                                     *)
LEMMA ShorterLine ==
  ASSUME RelayInv, UNCHANGED fg,
         line' = <<>> \/ (line # <<>> /\ line' = Tail(line)) \/ line' = line
  PROVE  /\ line' \in Seq(Request) /\ Len(line') <= Len(line)
         /\ \A i \in DOMAIN line' :
              \E j \in DOMAIN line : j >= i /\ line'[i] = line[j]
         /\ LineIsInOrder'
         /\ ghost.told => \A i \in DOMAIN line' : IsNews(line'[i]) => line'[i].claim.event # fg.event
<1>0. line \in Seq(Request) /\ LineIsInOrder /\ ToldIsOver
  BY DEF RelayInv, TypeOK
<1>1. CASE line' = <<>>
  <2>1. DOMAIN line' = {} /\ Len(line') = 0 /\ line' \in Seq(Request) /\ Len(line) \in Nat
    BY <1>0, <1>1, EmptySeq, LenProperties
  <2> QED BY <2>1 DEF LineIsInOrder
<1>2. CASE line # <<>> /\ line' = Tail(line)
  <2>1. /\ line' \in Seq(Request) /\ Len(line') = Len(line) - 1 /\ Len(line) \in Nat
        /\ \A i \in 1..Len(line') : line'[i] = line[i + 1]
        /\ DOMAIN line' = 1..Len(line') /\ DOMAIN line = 1..Len(line)
    BY <1>0, <1>2, HeadTailProperties, LenProperties
  <2>2. \A i \in DOMAIN line' : i + 1 \in DOMAIN line /\ line'[i] = line[i + 1]
    BY <2>1
  <2>3. LineIsInOrder'
    <3> SUFFICES ASSUME NEW i \in DOMAIN line', NEW j \in DOMAIN line',
                        i < j, IsNews(line'[i]), IsNews(line'[j])
                 PROVE  line'[i].claim.event <= line'[j].claim.event
      BY DEF LineIsInOrder, IsNews
    <3>1. i + 1 < j + 1
      BY <2>1
    <3> QED BY <2>2, <3>1, <1>0 DEF LineIsInOrder
  <2>4. \A i \in DOMAIN line' : i + 1 >= i
    BY <2>1
  <2> QED BY <1>0, <2>1, <2>2, <2>3, <2>4 DEF ToldIsOver
<1>3. CASE line' = line
  <2>1. Len(line) \in Nat /\ DOMAIN line = 1..Len(line)
    BY <1>0, LenProperties
  <2> QED BY <1>0, <1>3, <2>1 DEF LineIsInOrder, IsNews, ToldIsOver
<1> QED BY <1>1, <1>2, <1>3

(* The rest of the invariant, when the line has lost its first requests,    *)
(* nothing was granted and nothing became news.                             *)
LEMMA QuietStep ==
  ASSUME RelayInv, UNCHANGED <<fg, dev>>, TypeOK', LineIsShort',
         line' = <<>> \/ (line # <<>> /\ line' = Tail(line)) \/ line' = line,
         ghost'.granted = ghost.granted, ghost'.told => ghost.told,
         relay'.fresh => relay.fresh \/ Playback = "combined"
  PROVE  RelayInv'
<1>1. GrantsAreOver'
  BY DEF RelayInv, GrantsAreOver
<1>2. LineIsAhead'
  <2>1. \A i \in DOMAIN line' : \E j \in DOMAIN line : line'[i] = line[j]
    BY ShorterLine
  <2> QED BY <2>1 DEF RelayInv, LineIsAhead, IsNews
<1>3. LineIsInOrder'
  BY ShorterLine
<1>4. ToldIsOver'
  BY ShorterLine DEF RelayInv, ToldIsOver, IsNews
<1> QED BY <1>1, <1>2, <1>3, <1>4 DEF RelayInv

(* A turn of the relay, which may put a request into the line.              *)
LEMMA TurnKeepsInv ==
  ASSUME RelayInv, NEW force \in BOOLEAN, relay.pc # "post", Turn(force),
         UNCHANGED <<fg, pb, dev, mishaps>>
  PROVE  RelayInv'
<1> DEFINE gated == GatedPayload
           begun == [relay EXCEPT !.deferred = gated.deferred, !.superseded = FALSE,
                                  !.changed = @ /\ force]
           request == [claim |-> gated.claim, reauthorize |-> Reauthorizes(gated.claim)]
<1>0. /\ TypeOK /\ relay \in RelayState /\ line \in Seq(Request) /\ Len(line) \in Nat
      /\ mishaps \in 0..MaxMishaps /\ Len(line) <= mishaps /\ MaxMishaps \in Nat
      /\ relay.flight = Nothing
  BY RelayAssumption, LenProperties DEF RelayInv, TypeOK, LineIsShort
<1>1. gated.claim \in Handoff \cup {Nothing} /\ gated.deferred \in MaybeApp \cup {Unknown}
  BY <1>0, GatedClaim
<1>2. /\ begun \in RelayState /\ begun.flight = Nothing /\ begun.fresh = relay.fresh
      /\ begun.pc = relay.pc
  <2> HIDE DEF gated
  <2>1. (relay.changed /\ force) \in BOOLEAN
    BY <1>0, Zenon
  <2> DEFINE changed == relay.changed /\ force
  <2>2. begun = [relay EXCEPT !.deferred = gated.deferred, !.superseded = FALSE,
                              !.changed = changed]
    BY Zenon
  <2> HIDE DEF changed, begun
  <2> QED BY <1>0, <1>1, <2>1, <2>2 DEF RelayState, changed
<1>3. CASE gated.claim = Nothing \/ Said(force, gated.claim)
  <2> DEFINE quiet == [begun EXCEPT !.pc = "wait"]
  <2>1. /\ relay' = quiet \/ relay' = [quiet EXCEPT !.fresh = FALSE]
        /\ line' = line
        /\ ghost' = ghost \/ ghost' = [ghost EXCEPT !.news = FALSE]
    <3>1. [begun EXCEPT !.pc = "wait", !.fresh = FALSE] = [quiet EXCEPT !.fresh = FALSE]
      OBVIOUS
    <3> QED BY <1>3, <3>1, Zenon DEF Turn
  <2> HIDE DEF gated, begun
  <2>2. quiet \in RelayState /\ quiet.pc = "wait" /\ quiet.flight = Nothing /\ quiet.fresh = relay.fresh
    BY <1>2 DEF RelayState
  <2> HIDE DEF quiet
  <2>3. /\ relay' \in RelayState /\ relay'.pc = "wait" /\ relay'.flight = Nothing
        /\ relay'.fresh => relay.fresh
    BY <2>1, <2>2 DEF RelayState
  <2>4. ghost' \in [granted : SUBSET (1..MaxEvent), told : BOOLEAN, news : BOOLEAN]
    BY <1>0, <2>1 DEF TypeOK
  <2>5. TypeOK'
    BY <1>0, <2>1, <2>3, <2>4 DEF TypeOK
  <2>6. LineIsShort'
    BY <1>0, <2>1, <2>3 DEF LineIsShort
  <2>7. ghost'.granted = ghost.granted /\ ghost'.told = ghost.told
    BY <1>0, <2>1 DEF TypeOK
  <2> QED BY <2>1, <2>3, <2>5, <2>6, <2>7, QuietStep
<1>4. CASE gated.claim # Nothing /\ ~Said(force, gated.claim)
  <2>1. /\ relay' = [begun EXCEPT !.pc = "post", !.flight = gated.claim]
        /\ line' = Append(line, request) /\ ghost' = ghost
    BY <1>4 DEF Turn
  <2>2. request \in Request
    BY <1>1, <1>4 DEF Request, Reauthorizes
  <2>3. request.claim = gated.claim
    OBVIOUS
  <2>4. IsNews(request) => /\ relay.fresh /\ fg.online /\ Playback = "separate"
                           /\ request.claim.event = fg.event
    BY <1>0, NewsIsFresh
  <2> HIDE DEF gated, begun, request
  <2>5. /\ relay' \in RelayState /\ relay'.pc = "post" /\ relay'.flight = gated.claim
        /\ relay'.fresh = relay.fresh
    BY <1>1, <1>2, <2>1 DEF RelayState
  <2>6. /\ line' \in Seq(Request) /\ line' # <<>> /\ Len(line') = Len(line) + 1
        /\ \A i \in 1..Len(line) : line'[i] = line[i]
        /\ line'[Len(line) + 1] = request
        /\ DOMAIN line = 1..Len(line) /\ DOMAIN line' = 1..(Len(line) + 1)
    BY <1>0, <2>1, <2>2, AppendProperties, LenProperties
  <2>7. \A i \in DOMAIN line' : \/ i \in DOMAIN line /\ line'[i] = line[i]
                                \/ i = Len(line) + 1 /\ line'[i] = request
    BY <1>0, <2>6
  <2>8. TypeOK'
    <3>1. Len(line') <= MaxMishaps + 1
      BY <1>0, <2>6
    <3> QED BY <1>0, <1>4, <2>1, <2>3, <2>5, <2>6, <3>1 DEF TypeOK
  <2>9. LineIsShort'
    BY <1>0, <2>5, <2>6 DEF LineIsShort
  <2>10. GrantsAreOver'
    BY <2>1 DEF RelayInv, GrantsAreOver
  <2>11. dev.event \in 0..MaxEvent /\ fg.event \in 0..MaxEvent /\ MaxEvent \in Nat
    BY <1>0, SourceAssumption DEF TypeOK, Source
  <2>12. LineIsAhead'
    BY <2>4, <2>7, <2>11 DEF RelayInv, LineIsAhead, IsNews
  <2>13. LineIsInOrder'
    <3> SUFFICES ASSUME NEW i \in DOMAIN line', NEW j \in DOMAIN line',
                        i < j, IsNews(line'[i]), IsNews(line'[j])
                 PROVE  line'[i].claim.event <= line'[j].claim.event
      BY DEF LineIsInOrder, IsNews
    <3>1. i \in DOMAIN line /\ line'[i] = line[i]
      BY <1>0, <2>6, <2>7
    <3>2. CASE j \in DOMAIN line /\ line'[j] = line[j]
      BY <3>1, <3>2 DEF RelayInv, LineIsInOrder
    <3>3. CASE line'[j] = request
      BY <2>4, <3>1, <3>3 DEF RelayInv, LineIsAhead
    <3> QED BY <2>7, <3>2, <3>3
  <2>14. ToldIsOver'
    BY <2>1, <2>4, <2>5, <2>7 DEF RelayInv, ToldIsOver, IsNews
  <2> QED BY <2>8, <2>9, <2>10, <2>12, <2>13, <2>14 DEF RelayInv
<1> QED BY <1>3, <1>4

-----------------------------------------------------------------------------
(* The steps.                                                               *)

(* What the two properties say of a step.                                   *)
GrantsAnew ==
  dev'.event # dev.event => dev'.event \notin ghost.granted \ {0}
GrantsNews == GrantsCurrent => ~ghost.told

(* A step that leaves the device as it is grants nothing.                   *)
LEMMA NoGrant ==
  ASSUME dev' = dev
  PROVE  GrantsAnew /\ GrantsNews
BY DEF GrantsAnew, GrantsNews, GrantsCurrent

(* The device reads the first request of the line.                          *)
LEMMA ReceivedKeepsInv ==
  ASSUME RelayInv, UNCHANGED fg, line # <<>>, NEW inTime \in BOOLEAN,
         Received(Head(line), inTime), line' = <<>> \/ line' = Tail(line),
         inTime => line' = <<>> /\ ~relay'.fresh,
         relay'.fresh => relay.fresh
  PROVE  /\ dev' \in [app : MaybeApp, event : 0..MaxEvent]
         /\ ghost' \in [granted : SUBSET (1..MaxEvent), told : BOOLEAN, news : BOOLEAN]
         /\ GrantsAreOver' /\ LineIsAhead' /\ LineIsInOrder' /\ ToldIsOver'
         /\ GrantsAnew /\ GrantsNews
<1> DEFINE r == Head(line)
<1>0. /\ TypeOK /\ line \in Seq(Request) /\ 1 \in DOMAIN line /\ line[1] = r
      /\ r \in Request /\ r.claim \in Handoff
      /\ r.claim.event \in 0..MaxEvent /\ r.claim.app \in MaybeApp
      /\ dev \in [app : MaybeApp, event : 0..MaxEvent]
      /\ ghost \in [granted : SUBSET (1..MaxEvent), told : BOOLEAN, news : BOOLEAN]
      /\ MaxEvent \in Nat /\ fg.event \in 0..MaxEvent /\ dev.event \in 0..MaxEvent
  <2>1. line \in Seq(Request)
    BY DEF RelayInv, TypeOK
  <2>2. 1 \in DOMAIN line /\ line[1] = r /\ r \in Request
    BY <2>1, HeadTailProperties, LenProperties, EmptySeq
  <2>3. r.claim \in Handoff
    BY <2>2 DEF Request
  <2>4. r.claim.event \in 0..MaxEvent /\ r.claim.app \in MaybeApp
    BY <2>3 DEF Handoff
  <2> QED BY <2>1, <2>2, <2>3, <2>4, SourceAssumption DEF RelayInv, TypeOK, Source
<1> DEFINE granted == IF Grants(r) THEN ghost.granted \cup {r.claim.event} ELSE ghost.granted
           told == ghost.told \/ (inTime /\ r.claim.event = fg.event)
           news == ghost.news /\ ~inTime
<1>1. /\ dev' = [app |-> r.claim.app, event |-> IF Grants(r) THEN r.claim.event ELSE dev.event]
      /\ ghost' = [ghost EXCEPT !.granted = granted, !.told = told, !.news = news]
  BY DEF Received, DeviceAfter
<1>2. granted \in SUBSET (1..MaxEvent) /\ told \in BOOLEAN /\ news \in BOOLEAN
  <2>1. Grants(r) => r.claim.event \in 1..MaxEvent
    BY <1>0 DEF Grants
  <2>2. granted \in SUBSET (1..MaxEvent)
    BY <1>0, <2>1
  <2> QED BY <2>2, Zenon
<1>3. Grants(r) => /\ IsNews(r) /\ dev.event < r.claim.event /\ r.claim.event <= fg.event
  <2>1. Grants(r) => IsNews(r) /\ r.claim.event # dev.event
    BY DEF Grants, IsNews
  <2> QED BY <1>0, <2>1 DEF RelayInv, LineIsAhead
<1> HIDE DEF r, granted, told, news
<1>4. dev' \in [app : MaybeApp, event : 0..MaxEvent]
  BY <1>0, <1>1
<1>5. /\ ghost' \in [granted : SUBSET (1..MaxEvent), told : BOOLEAN, news : BOOLEAN]
      /\ ghost'.granted = granted /\ ghost'.told = told
  BY <1>0, <1>1, <1>2
<1>6. dev'.event = IF Grants(r) THEN r.claim.event ELSE dev.event
  BY <1>1
<1>7. GrantsAreOver'
  <2> SUFFICES ASSUME NEW e \in granted PROVE e <= dev'.event
    BY <1>5 DEF GrantsAreOver
  <2>1. e \in 1..MaxEvent
    BY <1>2
  <2>2. CASE e \in ghost.granted
    <3>1. e <= dev.event
      BY <2>2 DEF RelayInv, GrantsAreOver
    <3> QED BY <1>0, <1>3, <1>6, <2>1, <3>1
  <2>3. CASE Grants(r) /\ e = r.claim.event
    BY <1>6, <2>1, <2>3
  <2> QED BY <2>2, <2>3 DEF granted
<1>8. /\ \A i \in DOMAIN line' : \E j \in DOMAIN line : j > 1 /\ line'[i] = line[j]
      /\ LineIsInOrder'
      /\ ghost.told => \A i \in DOMAIN line' : IsNews(line'[i]) => line'[i].claim.event # fg.event
  <2>1. CASE line' = <<>>
    <3>1. DOMAIN line' = {}
      BY <2>1
    <3> QED BY <2>1, <3>1, ShorterLine
  <2>2. CASE line' = Tail(line)
    <3>1. /\ Len(line') = Len(line) - 1 /\ Len(line) \in Nat
          /\ \A i \in 1..Len(line') : line'[i] = line[i + 1]
          /\ DOMAIN line' = 1..Len(line') /\ DOMAIN line = 1..Len(line)
      BY <1>0, <2>2, HeadTailProperties, LenProperties
    <3>2. \A i \in DOMAIN line' : i + 1 \in DOMAIN line /\ i + 1 > 1 /\ line'[i] = line[i + 1]
      BY <3>1
    <3> QED BY <2>2, <3>2, ShorterLine
  <2> QED BY <2>1, <2>2
<1>9. LineIsAhead'
  <2>1. dev'.event <= fg.event
    BY <1>0, <1>3, <1>6 DEF RelayInv, LineIsAhead
  <2>2. ASSUME NEW i \in DOMAIN line', IsNews(line'[i])
        PROVE  dev'.event <= line'[i].claim.event /\ line'[i].claim.event <= fg.event
    <3>1. PICK j \in DOMAIN line : j > 1 /\ line'[i] = line[j]
      BY <1>8
    <3>2. IsNews(line[j])
      BY <2>2, <3>1
    <3>3. dev.event <= line[j].claim.event /\ line[j].claim.event <= fg.event
      BY <3>2 DEF RelayInv, LineIsAhead
    <3>4. Grants(r) => r.claim.event <= line[j].claim.event
      BY <1>0, <1>3, <3>1, <3>2 DEF RelayInv, LineIsInOrder
    <3> QED BY <1>6, <3>1, <3>3, <3>4
  <2> QED BY <2>1, <2>2 DEF LineIsAhead, IsNews
<1>10. ToldIsOver'
  <2>1. CASE ghost.told
    BY <1>8, <2>1 DEF RelayInv, ToldIsOver, IsNews
  <2>2. CASE ~ghost.told /\ inTime
    <3>1. DOMAIN line' = {} /\ ~relay'.fresh
      BY <2>2
    <3> QED BY <3>1 DEF ToldIsOver
  <2>3. CASE ~ghost.told /\ ~inTime
    <3>1. ~ghost'.told
      BY <1>5, <2>3 DEF told
    <3> QED BY <3>1 DEF ToldIsOver
  <2> QED BY <2>1, <2>2, <2>3
<1>11. GrantsAnew
  <2> SUFFICES ASSUME Grants(r) PROVE r.claim.event \notin ghost.granted
    BY <1>6 DEF GrantsAnew
  <2>1. \A e \in ghost.granted : e \in 1..MaxEvent /\ e <= dev.event
    BY <1>0 DEF RelayInv, GrantsAreOver
  <2>2. \A e \in ghost.granted : e < r.claim.event
    BY <1>0, <1>3, <2>1
  <2> QED BY <1>0, <2>2
<1>12. GrantsNews
  <2> SUFFICES ASSUME GrantsCurrent, ghost.told PROVE FALSE
    BY DEF GrantsNews
  <2>1. Grants(r) /\ r.claim.event = fg.event
    BY <1>6 DEF GrantsCurrent
  <2>2. IsNews(r)
    BY <1>3, <2>1
  <2> QED BY <1>0, <2>1, <2>2 DEF RelayInv, ToldIsOver
<1> QED BY <1>4, <1>5, <1>7, <1>8, <1>9, <1>10, <1>11, <1>12

(* The request is over, for the relay.                                      *)
LEMMA OverType ==
  ASSUME NEW r \in RelayState
  PROVE  /\ Over(r) \in RelayState /\ Over(r).pc = "wait" /\ Over(r).flight = Nothing
         /\ Over(r).fresh = r.fresh
BY DEF Over, RelayState

(* The device answers.                                                      *)
LEMMA AcceptsKeepsInv ==
  ASSUME RelayInv, Accepts
  PROVE  RelayInv' /\ GrantsAnew /\ GrantsNews
<1> DEFINE inTime == Awaited /\ ~relay.superseded
<1>0. /\ TypeOK /\ LineIsShort /\ relay \in RelayState /\ line \in Seq(Request)
      /\ mishaps \in 0..MaxMishaps /\ MaxMishaps \in Nat
  BY RelayAssumption DEF RelayInv, TypeOK
<1>1. /\ line # <<>> /\ Received(Head(line), inTime) /\ line' = Tail(line)
      /\ relay' = IF Awaited THEN Delivered ELSE relay
      /\ UNCHANGED <<fg, pb, mishaps>>
  BY DEF Accepts
<1>2. inTime \in BOOLEAN
  BY Zenon
<1>3. /\ line' \in Seq(Request) /\ Len(line') = Len(line) - 1 /\ Len(line) \in Nat \ {0}
      /\ Len(line') >= 1 => line' # <<>> /\ line'[Len(line')] = line[Len(line)]
  <2>1. /\ line' \in Seq(Request) /\ Len(line') = Len(line) - 1
        /\ \A i \in 1..Len(line') : line'[i] = line[i + 1]
    BY <1>0, <1>1, HeadTailProperties
  <2>2. Len(line) \in Nat \ {0}
    BY <1>0, <1>1, EmptySeq
  <2>3. Len(line') >= 1 => line'[Len(line')] = line[Len(line)]
    BY <2>1, <2>2
  <2>4. line' = <<>> => Len(line') = 0
    BY EmptySeq
  <2> QED BY <2>1, <2>2, <2>3, <2>4
<1>4. Awaited => line' = <<>>
  BY <1>3, EmptySeq DEF Awaited
<1>5. CASE Awaited
  <2> DEFINE fresh == relay.fresh /\ relay.superseded
             told == [relay EXCEPT !.last = relay.flight, !.fresh = fresh]
  <2>1. told \in RelayState /\ told.fresh = fresh
    <3>1. fresh \in BOOLEAN
      BY Zenon
    <3> HIDE DEF fresh
    <3> QED BY <1>0, <3>1 DEF RelayState
  <2>2. relay' = Over(told)
    BY <1>1, <1>5 DEF Delivered
  <2> HIDE DEF told
  <2>3. /\ relay' \in RelayState /\ relay'.pc = "wait" /\ relay'.flight = Nothing
        /\ relay'.fresh = fresh
    BY <2>1, <2>2, OverType
  <2>4. inTime => ~relay'.fresh
    BY <2>3
  <2>5. relay'.fresh => relay.fresh
    BY <2>3
  <2>6. /\ dev' \in [app : MaybeApp, event : 0..MaxEvent]
        /\ ghost' \in [granted : SUBSET (1..MaxEvent), told : BOOLEAN, news : BOOLEAN]
        /\ GrantsAreOver' /\ LineIsAhead' /\ LineIsInOrder' /\ ToldIsOver'
        /\ GrantsAnew /\ GrantsNews
    BY <1>1, <1>2, <1>4, <2>4, <2>5, ReceivedKeepsInv
  <2>7. TypeOK' /\ LineIsShort'
    BY <1>0, <1>1, <1>3, <2>3, <2>6 DEF TypeOK, LineIsShort
  <2> QED BY <2>6, <2>7 DEF RelayInv
<1>6. CASE ~Awaited
  <2>1. ~inTime /\ relay' = relay
    BY <1>1, <1>6
  <2>2. /\ dev' \in [app : MaybeApp, event : 0..MaxEvent]
        /\ ghost' \in [granted : SUBSET (1..MaxEvent), told : BOOLEAN, news : BOOLEAN]
        /\ GrantsAreOver' /\ LineIsAhead' /\ LineIsInOrder' /\ ToldIsOver'
        /\ GrantsAnew /\ GrantsNews
    BY <1>1, <1>2, <2>1, ReceivedKeepsInv
  <2>3. relay.pc = "post" => Len(line') >= 1
    BY <1>3, <1>6 DEF Awaited
  <2>4. TypeOK' /\ LineIsShort'
    BY <1>0, <1>1, <1>3, <2>1, <2>2, <2>3 DEF TypeOK, LineIsShort
  <2> QED BY <2>2, <2>4 DEF RelayInv
<1> QED BY <1>5, <1>6

LEMMA AnswerIsLostKeepsInv ==
  ASSUME RelayInv, AnswerIsLost
  PROVE  RelayInv' /\ GrantsAnew /\ GrantsNews
<1>0. /\ TypeOK /\ relay \in RelayState /\ line \in Seq(Request)
      /\ mishaps \in 0..MaxMishaps /\ MaxMishaps \in Nat
  BY RelayAssumption DEF RelayInv, TypeOK
<1>1. /\ Received(Head(line), FALSE) /\ line' = <<>> /\ relay' = Over(relay)
      /\ mishaps < MaxMishaps /\ mishaps' = mishaps + 1 /\ UNCHANGED <<fg, pb>>
      /\ Len(line) = 1
  BY DEF AnswerIsLost, Awaited, Mishap, Failed
<1>2. line # <<>> /\ line' \in Seq(Request) /\ Len(line') = 0
  BY <1>1, EmptySeq
<1>3. /\ relay' \in RelayState /\ relay'.pc = "wait" /\ relay'.flight = Nothing
      /\ relay'.fresh = relay.fresh
  BY <1>0, <1>1, OverType
<1>4. /\ dev' \in [app : MaybeApp, event : 0..MaxEvent]
      /\ ghost' \in [granted : SUBSET (1..MaxEvent), told : BOOLEAN, news : BOOLEAN]
      /\ GrantsAreOver' /\ LineIsAhead' /\ LineIsInOrder' /\ ToldIsOver'
      /\ GrantsAnew /\ GrantsNews
  BY <1>1, <1>2, <1>3, ReceivedKeepsInv
<1>5. TypeOK' /\ LineIsShort'
  BY <1>0, <1>1, <1>2, <1>3, <1>4 DEF TypeOK, LineIsShort
<1> QED BY <1>4, <1>5 DEF RelayInv

(* The request comes to nothing, or one end starts anew.                    *)
LEMMA FailureKeepsInv ==
  ASSUME RelayInv, Refuses \/ TimesOut \/ HomeAssistantStarts
  PROVE  RelayInv' /\ GrantsAnew /\ GrantsNews
<1>0. /\ TypeOK /\ LineIsShort /\ relay \in RelayState /\ line \in Seq(Request)
      /\ mishaps \in 0..MaxMishaps /\ MaxMishaps \in Nat /\ Len(line) \in Nat
      /\ ghost \in [granted : SUBSET (1..MaxEvent), told : BOOLEAN, news : BOOLEAN]
  BY RelayAssumption, LenProperties DEF RelayInv, TypeOK
<1>1. /\ mishaps < MaxMishaps /\ mishaps' = mishaps + 1 /\ UNCHANGED <<fg, pb, dev>>
      /\ line' = line \/ line' = <<>>
      /\ relay' = Over(relay) \/ relay' = NewRelay
      /\ ghost' = ghost \/ ghost' = [ghost EXCEPT !.news = FALSE]
  BY DEF Refuses, TimesOut, HomeAssistantStarts, Mishap, Failed
<1>2. NewRelay \in RelayState /\ NewRelay.pc = "sync" /\ NewRelay.flight = Nothing /\ ~NewRelay.fresh
  BY DEF NewRelay, RelayState
<1>3. /\ relay' \in RelayState /\ relay'.pc # "post" /\ relay'.flight = Nothing
      /\ relay'.fresh => relay.fresh
  BY <1>0, <1>1, <1>2, OverType
<1>4. /\ line' \in Seq(Request) /\ Len(line') <= Len(line) /\ Len(line') \in Nat
  <2>1. CASE line' = line
    BY <1>0, <2>1
  <2>2. CASE line' = <<>>
    <3>1. line' \in Seq(Request) /\ Len(line') = 0
      BY <2>2, EmptySeq
    <3> QED BY <1>0, <3>1
  <2> QED BY <1>1, <2>1, <2>2
<1>5. /\ ghost' \in [granted : SUBSET (1..MaxEvent), told : BOOLEAN, news : BOOLEAN]
      /\ ghost'.granted = ghost.granted /\ ghost'.told = ghost.told
  BY <1>0, <1>1
<1>6. LineIsShort' /\ Len(line') <= MaxMishaps + 1
  BY <1>0, <1>1, <1>3, <1>4 DEF LineIsShort
<1>7. TypeOK'
  BY <1>0, <1>1, <1>3, <1>4, <1>5, <1>6 DEF TypeOK
<1> QED BY <1>1, <1>3, <1>5, <1>6, <1>7, QuietStep, NoGrant

LEMMA DeviceStartsKeepsInv ==
  ASSUME RelayInv, DeviceStarts
  PROVE  RelayInv' /\ GrantsAnew /\ GrantsNews
<1>0. /\ TypeOK /\ relay \in RelayState
      /\ mishaps \in 0..MaxMishaps /\ MaxMishaps \in Nat
      /\ ghost \in [granted : SUBSET (1..MaxEvent), told : BOOLEAN, news : BOOLEAN]
      /\ MaxEvent \in Nat /\ fg.event \in 0..MaxEvent /\ dev.event \in 0..MaxEvent
  BY RelayAssumption, SourceAssumption DEF RelayInv, TypeOK, Source
<1>1. /\ mishaps < MaxMishaps /\ mishaps' = mishaps + 1
      /\ dev' = [app |-> NoApp, event |-> 0] /\ line' = <<>>
      /\ relay' = IF relay.pc = "post" THEN Over(relay) ELSE relay
      /\ ghost' = [ghost EXCEPT !.granted = {}] /\ UNCHANGED <<fg, pb>>
  BY DEF DeviceStarts, Mishap, Failed
<1>2. /\ relay' \in RelayState /\ relay'.pc # "post" /\ relay'.flight = Nothing
      /\ relay'.fresh = relay.fresh
  <2>1. relay.pc # "post" => relay.flight = Nothing
    BY <1>0 DEF TypeOK
  <2> QED BY <1>0, <1>1, <2>1, OverType
<1>3. line' \in Seq(Request) /\ Len(line') = 0 /\ DOMAIN line' = {}
  BY <1>1, EmptySeq
<1>4. /\ ghost' \in [granted : SUBSET (1..MaxEvent), told : BOOLEAN, news : BOOLEAN]
      /\ ghost'.granted = {} /\ ghost'.told = ghost.told
  BY <1>0, <1>1
<1>5. dev' \in [app : MaybeApp, event : 0..MaxEvent] /\ dev'.event = 0
  BY <1>0, <1>1 DEF MaybeApp
<1>6. TypeOK' /\ LineIsShort'
  BY <1>0, <1>1, <1>2, <1>3, <1>4, <1>5 DEF TypeOK, LineIsShort
<1>7. GrantsAreOver' /\ LineIsAhead' /\ LineIsInOrder'
  BY <1>0, <1>1, <1>3, <1>4, <1>5 DEF GrantsAreOver, LineIsAhead, LineIsInOrder
<1>8. ToldIsOver'
  BY <1>1, <1>2, <1>3, <1>4 DEF RelayInv, ToldIsOver
<1>9. GrantsAnew
  BY <1>5 DEF GrantsAnew
<1>10. GrantsNews
  BY <1>0, <1>5 DEF GrantsNews, GrantsCurrent, RelayInv, LineIsAhead
<1> QED BY <1>6, <1>7, <1>8, <1>9, <1>10 DEF RelayInv

(* The sensor or the player changes.                                        *)
LEMMA NotifiedType ==
  ASSUME TypeOK
  PROVE  /\ NotifiedOfSource \in RelayState /\ NotifiedOfSource.pc = relay.pc
         /\ NotifiedOfSource.flight = relay.flight
         /\ NotifiedOfPlayer \in RelayState /\ NotifiedOfPlayer.pc = relay.pc
         /\ NotifiedOfPlayer.flight = relay.flight
         /\ NotifiedOfPlayer.fresh => relay.fresh \/ Playback = "combined"
<1> DEFINE posts == relay.pc = "post"
<1>1. posts \in BOOLEAN
  BY Zenon
<1>2. /\ NotifiedOfSource = [relay EXCEPT !.changed = TRUE, !.fresh = TRUE, !.superseded = posts]
      /\ Playback # "combined" => NotifiedOfPlayer = [relay EXCEPT !.changed = TRUE]
      /\ Playback = "combined" => NotifiedOfPlayer = NotifiedOfSource
  BY DEF NotifiedOfSource, NotifiedOfPlayer
<1>3. relay \in RelayState
  BY DEF TypeOK
<1> HIDE DEF posts
<1> QED BY <1>1, <1>2, <1>3 DEF RelayState

LEMMA SensorChangesKeepsInv ==
  ASSUME RelayInv, SensorChanges
  PROVE  RelayInv' /\ GrantsAnew /\ GrantsNews
<1>0. /\ TypeOK /\ fg \in Source
      /\ ghost \in [granted : SUBSET (1..MaxEvent), told : BOOLEAN, news : BOOLEAN]
      /\ MaxEvent \in Nat
  BY SourceAssumption DEF RelayInv, TypeOK
<1> DEFINE told == ghost.told /\ ~fg'.online /\ fg'.event = fg.event
           news == ghost.news \/ fg.online \/ fg'.online
<1>1. /\ Playback # "combined" /\ SourceNext
      /\ relay' = relay \/ relay' = NotifiedOfSource
      /\ ghost' = [ghost EXCEPT !.news = news, !.told = told]
      /\ UNCHANGED <<pb, line, dev, mishaps>>
  BY DEF SensorChanges
<1>2. /\ fg' \in Source /\ fg.event \in 0..MaxEvent /\ fg'.event \in 0..MaxEvent
      /\ fg.event <= fg'.event /\ fg.online \in BOOLEAN /\ fg'.online \in BOOLEAN
  <2>1. fg' \in Source /\ fg.event <= fg'.event
    BY <1>0, <1>1, SourceGoesOn
  <2> QED BY <1>0, <2>1 DEF Source
<1>3. told \in BOOLEAN /\ news \in BOOLEAN
  BY Zenon
<1>4. /\ ghost' \in [granted : SUBSET (1..MaxEvent), told : BOOLEAN, news : BOOLEAN]
      /\ ghost'.granted = ghost.granted /\ ghost'.told = told
  <2> HIDE DEF told, news
  <2> QED BY <1>0, <1>1, <1>3
<1>5. relay' \in RelayState /\ relay'.pc = relay.pc /\ relay'.flight = relay.flight
  BY <1>0, <1>1, NotifiedType DEF TypeOK
<1>6. TypeOK' /\ LineIsShort'
  BY <1>0, <1>1, <1>2, <1>4, <1>5 DEF RelayInv, TypeOK, LineIsShort
<1>7. GrantsAreOver' /\ LineIsInOrder'
  BY <1>1, <1>4 DEF RelayInv, GrantsAreOver, LineIsInOrder, IsNews
<1>8. LineIsAhead'
  <2>1. dev.event \in 0..MaxEvent
    BY <1>0 DEF TypeOK
  <2>2. \A i \in DOMAIN line : line[i].claim.event \in 0..MaxEvent
    <3> TAKE i \in DOMAIN line
    <3>1. line[i] \in Request
      BY <1>0, LenProperties, ElementOfSeq DEF TypeOK
    <3> QED BY <3>1 DEF Request, Handoff
  <2> QED BY <1>0, <1>1, <1>2, <2>1, <2>2 DEF RelayInv, LineIsAhead, IsNews
<1>9. ToldIsOver'
  BY <1>1, <1>4 DEF RelayInv, ToldIsOver, IsNews
<1> QED BY <1>1, <1>6, <1>7, <1>8, <1>9, NoGrant DEF RelayInv

LEMMA PlayerChangesKeepsInv ==
  ASSUME RelayInv, PlayerChanges
  PROVE  RelayInv' /\ GrantsAnew /\ GrantsNews
<1>1. /\ pb' \in Player /\ relay' = NotifiedOfPlayer
      /\ UNCHANGED <<fg, line, dev, ghost, mishaps>>
  BY DEF PlayerChanges
<1>2. TypeOK /\ LineIsShort
  BY DEF RelayInv
<1>3. /\ relay' \in RelayState /\ relay'.pc = relay.pc /\ relay'.flight = relay.flight
      /\ relay'.fresh => relay.fresh \/ Playback = "combined"
  BY <1>1, <1>2, NotifiedType
<1>4. TypeOK' /\ LineIsShort'
  BY <1>1, <1>2, <1>3 DEF TypeOK, LineIsShort
<1> QED BY <1>1, <1>3, <1>4, QuietStep, NoGrant

LEMMA InitIsRight == Init => RelayInv
<1> SUFFICES ASSUME Init PROVE RelayInv
  OBVIOUS
<1> USE DEF Init, SourceInit
<1>1. /\ NewRelay \in RelayState /\ NewRelay.pc = "sync" /\ NewRelay.flight = Nothing
      /\ ~NewRelay.fresh
  BY DEF NewRelay, RelayState
<1>2. line \in Seq(Request) /\ Len(line) = 0 /\ DOMAIN line = {}
  BY EmptySeq
<1>3. fg \in Source /\ fg.event = 0 /\ MaxEvent \in Nat
  BY SourceAssumption DEF Source, MaybeApp
<1>4. pb \in Player
  BY DEF Player, Silent
<1>5. /\ dev \in [app : MaybeApp, event : 0..MaxEvent] /\ dev.event = 0
      /\ ghost \in [granted : SUBSET (1..MaxEvent), told : BOOLEAN, news : BOOLEAN]
      /\ ghost.granted = {} /\ ~ghost.told
  BY <1>3 DEF MaybeApp
<1>6. TypeOK /\ LineIsShort
  BY <1>1, <1>2, <1>3, <1>4, <1>5, RelayAssumption DEF TypeOK, LineIsShort
<1>7. GrantsAreOver /\ LineIsAhead /\ LineIsInOrder /\ ToldIsOver
  BY <1>2, <1>3, <1>5 DEF GrantsAreOver, LineIsAhead, LineIsInOrder, ToldIsOver
<1> QED BY <1>6, <1>7 DEF RelayInv

LEMMA StepKeepsInv ==
  ASSUME RelayInv, [Next]_vars
  PROVE  RelayInv' /\ GrantsAnew /\ GrantsNews
<1>1. CASE UNCHANGED vars
  BY <1>1, NoGrant DEF vars, RelayInv, TypeOK, LineIsShort, GrantsAreOver, LineIsAhead,
                       LineIsInOrder, ToldIsOver, IsNews
<1>2. CASE Wake
  BY <1>2, TurnKeepsInv, NoGrant DEF Wake
<1>3. CASE Heartbeat
  <2>1. TypeOK /\ LineIsShort /\ relay \in RelayState
    BY DEF RelayInv, TypeOK
  <2>2. /\ relay.pc = "wait" /\ relay' = [relay EXCEPT !.pc = "sync"]
        /\ UNCHANGED <<fg, pb, line, dev, ghost, mishaps>>
    BY <1>3 DEF Heartbeat
  <2>3. /\ relay' \in RelayState /\ relay'.pc = "sync" /\ relay'.flight = relay.flight
        /\ relay'.fresh = relay.fresh
    BY <2>1, <2>2 DEF RelayState
  <2>4. TypeOK' /\ LineIsShort'
    BY <2>1, <2>2, <2>3 DEF TypeOK, LineIsShort
  <2> QED BY <2>2, <2>3, <2>4, QuietStep, NoGrant
<1>4. CASE Synced
  BY <1>4, TurnKeepsInv, NoGrant DEF Synced
<1> QED BY <1>1, <1>2, <1>3, <1>4, AcceptsKeepsInv, AnswerIsLostKeepsInv, FailureKeepsInv,
           DeviceStartsKeepsInv, SensorChangesKeepsInv, PlayerChangesKeepsInv DEF Next

-----------------------------------------------------------------------------
(* Whatever is lost, late or started anew, every variable keeps its type    *)
(* and the invariant that the next two theorems rest on holds.              *)
LEMMA RelayIsRight == Spec => []RelayInv
<1>1. RelayInv /\ [Next]_vars => RelayInv'
  BY StepKeepsInv
<1> QED BY <1>1, InitIsRight, PTL DEF Spec

(* RetryGrantsNothing holds for any number of mishaps and of requests under *)
(* way: queueAppCandidate() compares with the last event only, and that is  *)
(* enough because requests reach the device in the order of their events.   *)
THEOREM RetriesAreHarmless == Spec => RetryGrantsNothing
<1>1. RelayInv /\ [Next]_vars => [dev'.event # dev.event => dev'.event \notin ghost.granted \ {0}]_vars
  BY StepKeepsInv DEF GrantsAnew
<1> QED BY <1>1, RelayIsRight, PTL DEF Spec, RetryGrantsNothing

(* DeliveredIsNotNews holds: a delivered generation is marked as delivered  *)
(* before anything else can be said, and the mark goes only with news.      *)
THEOREM DeliveryEndsNews == Spec => DeliveredIsNotNews
<1>1. RelayInv /\ [Next]_vars => [GrantsCurrent => ~ghost.told]_vars
  BY StepKeepsInv DEF GrantsNews
<1> QED BY <1>1, RelayIsRight, PTL DEF Spec, DeliveredIsNotNews
=============================================================================
