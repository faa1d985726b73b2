---------------------------- MODULE DashboardProofs ----------------------------
(******************************************************************************)
(* What the event stream tells of a breaker, for buffers of every size, any   *)
(* number of fetches, and every budget, threshold and cooldown.               *)
(*                                                                            *)
(* LogEndsTrue is inductive with the types: a transition is announced in the  *)
(* step it happens in, so the last announcement in the buffer is the state    *)
(* the breaker is in, and reading the buffer moves it to the log.             *)
(******************************************************************************)
EXTENDS Dashboard, CircuitBreakerProofs

DashInv ==
  /\ DashTypeOK
  /\ IInv
  /\ LogEndsTrue

(* The part of the type that is about the stream.                             *)
BusOK ==
  /\ stream \in {"down", "connected", "subscribed"}
  /\ buffer \in Seq(Event) /\ Len(buffer) <= Buffer
  /\ stream # "subscribed" => buffer = <<>>
  /\ heard \in cbState \cup {"missed"}

LEMMA DashInvBus == DashInv => BusOK /\ cb.state \in cbState
  BY DEF DashInv, DashTypeOK, BusOK, TypeOK, BreakerType

--------------------------------------------------------------------------------
(* What a publication does to the end of the log.                             *)

(* A transition that is taken is the last one the buffer tells.               *)
LEMMA AppendedIsLast ==
  ASSUME NEW s \in cbState, buffer \in Seq(Event), buffer' = Append(buffer, s)
  PROVE  LogEndsWith(s)'
<1> DEFINE n == Len(buffer)
<1>1. /\ n \in Nat
      /\ DOMAIN buffer' = 1 .. n + 1
      /\ buffer'[n + 1] = s
  OBVIOUS
<1>2. s # "health"
  BY DEF cbState
<1>3. n + 1 \in Told'
  BY <1>1, <1>2 DEF Told
<1>4. \A j \in Told' : j <= n + 1
  BY <1>1 DEF Told
<1> QED BY <1>1, <1>3, <1>4 DEF LogEndsWith

(* A health event changes nothing about it.                                   *)
LEMMA HealthTellsNothing ==
  ASSUME NEW s \in cbState, buffer \in Seq(Event), heard' = heard, LogEndsWith(s),
         buffer' = Append(buffer, "health")
  PROVE  LogEndsWith(s)'
<1> DEFINE n == Len(buffer)
<1>1. /\ n \in Nat
      /\ DOMAIN buffer = 1 .. n
      /\ DOMAIN buffer' = 1 .. n + 1
      /\ \A i \in 1 .. n : buffer'[i] = buffer[i]
      /\ buffer'[n + 1] = "health"
  OBVIOUS
<1>2. Told' = Told
  BY <1>1 DEF Told
<1>3. \A i \in Told : buffer'[i] = buffer[i]
  BY <1>1 DEF Told
<1> QED BY <1>2, <1>3 DEF LogEndsWith

(* Nor does reading an event, which moves to the log.                         *)
LEMMA ReadingMoves ==
  ASSUME NEW s \in cbState, buffer \in Seq(Event), buffer # <<>>,
         heard # "missed", LogEndsWith(s), buffer' = Tail(buffer),
         heard' = IF Head(buffer) = "health" THEN heard ELSE Head(buffer)
  PROVE  LogEndsWith(s)'
<1> DEFINE n == Len(buffer)
<1>1. /\ n \in Nat \ {0}
      /\ DOMAIN buffer = 1 .. n
      /\ DOMAIN buffer' = 1 .. n - 1
      /\ \A i \in 1 .. n - 1 : buffer'[i] = buffer[i + 1]
      /\ Head(buffer) = buffer[1]
  OBVIOUS
<1>2. \A i \in 1 .. n - 1 : i \in Told' <=> i + 1 \in Told
  BY <1>1 DEF Told
<1>3. Told' \subseteq 1 .. n - 1 /\ Told \subseteq 1 .. n
  BY <1>1 DEF Told
<1>4. CASE Told' = {}
  <2>1. Told \subseteq {1}
    <3>1. \A i \in Told : i = 1 \/ i - 1 \in 1 .. n - 1
      BY <1>1, <1>3
    <3>2. \A i \in Told : i = 1 \/ i - 1 \in Told'
      BY <1>1, <1>2, <1>3, <3>1
    <3> QED BY <1>4, <3>2
  <2>2. CASE Told = {}
    <3>1. 1 \notin Told /\ 1 \in DOMAIN buffer
      BY <1>1, <2>2
    <3>2. Head(buffer) = "health" /\ heard = s
      BY <1>1, <2>2, <3>1 DEF Told, LogEndsWith
    <3> QED BY <1>4, <3>2 DEF LogEndsWith
  <2>3. CASE Told # {}
    <3>1. 1 \in Told /\ buffer[1] = s
      BY <2>1, <2>3 DEF LogEndsWith
    <3>2. heard' = s
      BY <1>1, <3>1 DEF Told
    <3> QED BY <1>4, <3>2 DEF LogEndsWith
  <2> QED BY <2>2, <2>3
<1>5. CASE Told' # {}
  <2>1. PICK k \in Told' : TRUE
    BY <1>5
  <2>2. k \in 1 .. n - 1 /\ k + 1 \in Told
    BY <1>2, <1>3, <2>1
  <2>3. PICK i \in Told : buffer[i] = s /\ \A j \in Told : j <= i
    BY <2>2 DEF LogEndsWith
  <2>4. i \in 1 .. n /\ k + 1 <= i
    BY <1>3, <2>2, <2>3
  <2>5. i - 1 \in 1 .. n - 1
    BY <1>1, <2>2, <2>4
  <2>6. i - 1 \in Told' /\ buffer'[i - 1] = s
    BY <1>1, <1>2, <2>3, <2>4, <2>5
  <2>7. \A j \in Told' : j <= i - 1
    <3> SUFFICES ASSUME NEW j \in Told' PROVE j <= i - 1
      OBVIOUS
    <3>1. j \in 1 .. n - 1 /\ j + 1 \in Told
      BY <1>2, <1>3
    <3>2. j + 1 <= i
      BY <2>3, <3>1
    <3> QED BY <2>4, <3>1, <3>2
  <2> QED BY <1>5, <2>6, <2>7 DEF LogEndsWith
<1> QED BY <1>4, <1>5

--------------------------------------------------------------------------------
LEMMA DashInitInv == DashInit => DashInv
<1> SUFFICES ASSUME DashInit PROVE DashInv
  OBVIOUS
<1>1. IInv
  BY InitIInv DEF DashInit
<1>2. LogEndsTrue
  BY DEF DashInit, LogEndsTrue
<1>3. DashTypeOK
  <2>1. fetch \in [Fetch -> FetchType]
    BY DEF DashInit, FetchType
  <2>2. buffer \in Seq(Event) /\ Len(buffer) <= Buffer
    BY DashboardAssumption DEF DashInit
  <2>3. stream = "down" /\ heard = "missed" /\ healthy = TRUE /\ probing = FALSE
        /\ shown = {} /\ buffer = <<>>
    BY DEF DashInit
  <2> QED BY <1>1, IInvImplies, <2>1, <2>2, <2>3 DEF DashTypeOK
<1> QED BY <1>1, <1>2, <1>3 DEF DashInv

(* A publication keeps the stream well formed.                                *)
LEMMA PublishKeepsBus ==
  ASSUME BusOK, NEW e \in Event, Publish(e), heard' \in cbState \cup {"missed"}
  PROVE  BusOK'
<1>1. CASE Taken
  <2>1. buffer' = Append(buffer, e) /\ stream' = stream /\ stream = "subscribed"
    BY <1>1 DEF Publish, Taken
  <2>2. buffer' \in Seq(Event) /\ Len(buffer') = Len(buffer) + 1
    BY <2>1 DEF BusOK
  <2>3. Len(buffer') <= Buffer
    BY <1>1, <2>2, DashboardAssumption DEF BusOK, Taken
  <2> QED BY <2>1, <2>2, <2>3 DEF BusOK
<1>2. CASE ~Taken
  BY <1>2 DEF Publish, BusOK
<1> QED BY <1>1, <1>2

(* A step of the traffic: what the breaker did is announced in it.            *)
LEMMA AnnounceKeeps ==
  ASSUME BusOK, LogEndsTrue, cb'.state \in cbState, Announce
  PROVE  BusOK' /\ LogEndsTrue'
<1>1. CASE cb'.state = cb.state
  BY <1>1 DEF Announce, bus, BusOK, LogEndsTrue, LogEndsWith, Told
<1>2. CASE cb'.state # cb.state
  <2>1. Publish(cb'.state) /\ heard' = IF Taken THEN cb'.state ELSE "missed"
    BY <1>2 DEF Announce, Reckon
  <2>2. BusOK'
    BY <2>1, PublishKeepsBus DEF Event
  <2>3. CASE Taken
    <3>1. buffer \in Seq(Event) /\ buffer' = Append(buffer, cb'.state)
      BY <2>1, <2>3 DEF BusOK, Publish
    <3>2. \A s \in cbState : buffer' = Append(buffer, s) => LogEndsWith(s)'
      BY <3>1, AppendedIsLast
    <3>3. LogEndsWith(cb.state)'
      BY <3>1, <3>2 DEF LogEndsWith
    <3> QED BY <2>2, <3>3 DEF LogEndsTrue
  <2>4. CASE ~Taken
    BY <2>1, <2>2, <2>4 DEF LogEndsTrue
  <2> QED BY <2>3, <2>4
<1> QED BY <1>1, <1>2

LEMMA TrafficKeeps ==
  ASSUME DashInv, Traffic
  PROVE  DashInv'
<1>1. IInv'
  BY NextKeeps DEF DashInv, Traffic
<1>2. TypeOK' /\ cb'.state \in cbState
  BY <1>1 DEF IInv, Sound, Running, TypeOK, BreakerType
<1>3. BusOK' /\ LogEndsTrue'
  BY <1>2, DashInvBus, AnnounceKeeps DEF DashInv, Traffic
<1>4. DashTypeOK'
  BY <1>2, <1>3 DEF DashInv, DashTypeOK, BusOK, Traffic
<1> QED BY <1>1, <1>3, <1>4 DEF DashInv

(* No other step touches the breaker.                                         *)
LEMMA BreakerUntouched ==
  ASSUME DashInv, UNCHANGED <<cb, calls>>
  PROVE  IInv' /\ TypeOK'
  BY DEF DashInv, IInv, Sound, TypeOK, Running

LEMMA PublishCheckKeeps ==
  ASSUME DashInv, PublishCheck
  PROVE  DashInv'
<1>1. IInv' /\ TypeOK' /\ cb' = cb /\ heard' = heard
  BY BreakerUntouched DEF PublishCheck
<1>2. BusOK'
  <2>1. heard' \in cbState \cup {"missed"}
    BY <1>1, DashInvBus DEF BusOK
  <2> QED BY <2>1, DashInvBus, PublishKeepsBus DEF PublishCheck, Event
<1>3. LogEndsTrue'
  <2> SUFFICES ASSUME heard # "missed" PROVE LogEndsWith(cb.state)'
    BY <1>1 DEF LogEndsTrue
  <2>1. LogEndsWith(cb.state)
    BY DEF DashInv, LogEndsTrue
  <2>2. CASE Taken
    <3>1. buffer \in Seq(Event) /\ buffer' = Append(buffer, "health")
      BY <2>2, DashInvBus DEF BusOK, PublishCheck, Publish
    <3>2. \A s \in cbState : LogEndsWith(s) => LogEndsWith(s)'
      BY <1>1, <3>1, HealthTellsNothing
    <3> QED BY <1>1, <2>1, <3>2, DashInvBus DEF LogEndsWith
  <2>3. CASE ~Taken
    BY <1>1, <2>1, <2>3 DEF PublishCheck, Publish, LogEndsWith, Told
  <2> QED BY <2>2, <2>3
<1>4. DashTypeOK'
  BY <1>1, <1>2 DEF DashInv, DashTypeOK, BusOK, PublishCheck
<1> QED BY <1>1, <1>3, <1>4 DEF DashInv

LEMMA OnMessageKeeps ==
  ASSUME DashInv, OnMessage
  PROVE  DashInv'
<1>1. IInv' /\ TypeOK' /\ cb' = cb
  BY BreakerUntouched DEF OnMessage
<1>2. /\ buffer # <<>> /\ buffer' = Tail(buffer) /\ stream' = stream
      /\ heard' = IF Head(buffer) = "health" \/ heard = "missed"
                  THEN heard ELSE Head(buffer)
      /\ BusOK
  BY DashInvBus DEF OnMessage
<1>3. BusOK'
  <2>1. Head(buffer) \in Event /\ Tail(buffer) \in Seq(Event)
        /\ Len(Tail(buffer)) = Len(buffer) - 1 /\ Len(buffer) \in Nat
    BY <1>2 DEF BusOK
  <2>2. Len(Tail(buffer)) <= Buffer
    BY <1>2, <2>1, DashboardAssumption DEF BusOK
  <2>3. heard' \in cbState \cup {"missed"}
    BY <1>2, <2>1 DEF BusOK, Event
  <2> QED BY <1>2, <2>1, <2>2, <2>3 DEF BusOK
<1>4. LogEndsTrue'
  <2> SUFFICES ASSUME heard' # "missed" PROVE LogEndsWith(cb.state)'
    BY <1>1 DEF LogEndsTrue
  <2>1. heard # "missed"
    BY <1>2
  <2>2. LogEndsWith(cb.state) /\ cb.state \in cbState /\ buffer \in Seq(Event)
    BY <1>2, <2>1, DashInvBus DEF DashInv, LogEndsTrue, BusOK
  <2>3. heard' = IF Head(buffer) = "health" THEN heard ELSE Head(buffer)
    BY <1>2, <2>1
  <2>4. \A s \in cbState : LogEndsWith(s) => LogEndsWith(s)'
    BY <1>2, <2>1, <2>2, <2>3, ReadingMoves
  <2> QED BY <1>1, <2>2, <2>4 DEF LogEndsWith
<1>5. fetch' \in [Fetch -> FetchType]
  BY DEF DashInv, DashTypeOK, OnMessage, Ask, FetchType
<1>6. DashTypeOK'
  BY <1>1, <1>3, <1>5 DEF DashInv, DashTypeOK, BusOK, OnMessage
<1> QED BY <1>1, <1>4, <1>6 DEF DashInv

(* A connection changes nothing about the log; one that is lost takes the     *)
(* events in the channel with it.                                             *)
LEMMA StreamKeeps ==
  ASSUME DashInv, Connect \/ Subscribe \/ Lose
  PROVE  DashInv'
<1>1. IInv' /\ TypeOK' /\ cb' = cb
  BY BreakerUntouched DEF Connect, Subscribe, Lose
<1>2. CASE Connect \/ Subscribe
  <2>1. LogEndsTrue'
    BY <1>1, <1>2 DEF DashInv, Connect, Subscribe, LogEndsTrue, LogEndsWith, Told
  <2>2. stream' # "subscribed" => buffer' = <<>>
    BY <1>2, DashInvBus DEF BusOK, Connect, Subscribe
  <2>3. DashTypeOK'
    BY <1>1, <1>2, <2>2 DEF DashInv, DashTypeOK, Connect, Subscribe
  <2> QED BY <1>1, <2>1, <2>3 DEF DashInv
<1>3. CASE Lose
  <2>1. Told' = {}
    BY <1>3 DEF Lose, Told
  <2>2. heard' # "missed" => heard' = cb.state
    BY <1>3 DEF Lose, DashInv, LogEndsTrue, LogEndsWith
  <2>3. LogEndsTrue'
    BY <1>1, <2>1, <2>2 DEF LogEndsTrue, LogEndsWith
  <2>4. DashTypeOK'
    BY <1>1, <1>3, DashboardAssumption DEF DashInv, DashTypeOK, Lose
  <2> QED BY <1>1, <2>3, <2>4 DEF DashInv
<1> QED BY <1>2, <1>3

(* The probes and the page leave breaker and stream alone.                    *)
LEMMA PageKeeps ==
  ASSUME DashInv, UNCHANGED <<cb, calls, bus>>, healthy' \in BOOLEAN,
         probing' \in BOOLEAN, fetch' \in [Fetch -> FetchType], shown' \subseteq Status
  PROVE  DashInv'
<1>1. IInv' /\ TypeOK'
  BY BreakerUntouched
<1>2. LogEndsTrue'
  BY DEF DashInv, bus, LogEndsTrue, LogEndsWith, Told
<1>3. DashTypeOK'
  BY <1>1 DEF DashInv, DashTypeOK, bus
<1> QED BY <1>1, <1>2, <1>3 DEF DashInv

LEMMA RefreshKeeps ==
  ASSUME DashInv, NEW f \in Fetch, Refresh(f)
  PROVE  DashInv'
<1>1. /\ fetch \in [Fetch -> FetchType] /\ shown \subseteq Status
      /\ healthy \in BOOLEAN /\ probing \in BOOLEAN /\ cb.state \in cbState
  BY DashInvBus DEF DashInv, DashTypeOK
<1>2. CASE ReadBreaker(f)
  <2>1. [at |-> "reading", cb_state |-> cb.state] \in FetchType
    BY <1>1 DEF FetchType
  <2>2. fetch' \in [Fetch -> FetchType]
    BY <1>1, <1>2, <2>1 DEF ReadBreaker
  <2> QED BY <1>1, <1>2, <2>2, PageKeeps DEF ReadBreaker
<1>3. CASE ReadHealth(f)
  <2>1. fetch[f].cb_state \in cbState
    BY <1>1, <1>3 DEF ReadHealth, FetchType
  <2>2. [cb_state |-> fetch[f].cb_state, healthy |-> healthy] \in Status
    BY <1>1, <2>1 DEF Status
  <2>3. fetch' \in [Fetch -> FetchType]
    BY <1>1, <1>3, <2>2 DEF ReadHealth, FetchType
  <2> QED BY <1>1, <1>3, <2>3, PageKeeps DEF ReadHealth
<1>4. CASE RenderStatus(f)
  <2>1. fetch[f].status \in Status
    BY <1>1, <1>4 DEF RenderStatus, FetchType
  <2>2. fetch' \in [Fetch -> FetchType] /\ shown' \subseteq Status
    BY <1>1, <1>4, <2>1 DEF RenderStatus, FetchType
  <2> QED BY <1>1, <1>4, <2>2, PageKeeps DEF RenderStatus
<1> QED BY <1>2, <1>3, <1>4 DEF Refresh

LEMMA DashNextKeeps == DashInv /\ [DashNext]_dash => DashInv'
<1> SUFFICES ASSUME DashInv, [DashNext]_dash PROVE DashInv'
  OBVIOUS
<1>1. CASE Traffic
  BY <1>1, TrafficKeeps
<1>2. ASSUME NEW ok \in BOOLEAN, CheckOne(ok) PROVE DashInv'
  BY <1>2, PageKeeps DEF CheckOne, DashInv, DashTypeOK
<1>3. CASE PublishCheck
  BY <1>3, PublishCheckKeeps
<1>4. CASE Connect \/ Subscribe \/ Lose
  BY <1>4, StreamKeeps
<1>5. CASE OnMessage
  BY <1>5, OnMessageKeeps
<1>6. CASE Poll
  <2>1. fetch' \in [Fetch -> FetchType]
    BY <1>6 DEF DashInv, DashTypeOK, Poll, Ask, FetchType
  <2> QED BY <1>6, <2>1, PageKeeps DEF Poll, DashInv, DashTypeOK
<1>7. ASSUME NEW f \in Fetch, Refresh(f) PROVE DashInv'
  BY <1>7, RefreshKeeps
<1>8. CASE UNCHANGED dash
  BY <1>8, PageKeeps DEF dash, DashInv, DashTypeOK
<1> QED BY <1>1, <1>2, <1>3, <1>4, <1>5, <1>6, <1>7, <1>8 DEF DashNext

--------------------------------------------------------------------------------
(* The stream, the fetches and the page are well formed, and the channel is   *)
(* never filled past its capacity (Publish drops).                            *)
THEOREM SpecDashTypeOK == DashSpec => []DashTypeOK
<1>1. DashInv => DashTypeOK
  BY DEF DashInv
<1> QED BY <1>1, DashInitInv, DashNextKeeps, PTL DEF DashSpec

(* For every size of the channel and whatever is dropped, read or lost: the   *)
(* log of a stream that took the last transition ends with the state the      *)
(* breaker is in (Publish under cb.mu).                                       *)
THEOREM SpecLogEndsTrue == DashSpec => []LogEndsTrue
<1>1. DashInv => LogEndsTrue
  BY DEF DashInv
<1> QED BY <1>1, DashInitInv, DashNextKeeps, PTL DEF DashSpec

================================================================================
