------------------------------- MODULE Dashboard -------------------------------
(******************************************************************************)
(* What an operator sees of one backend: its breaker and its health flag, the *)
(* event bus and the event stream of one browser tab (gateway/events.go and   *)
(* GET /events), GET /gateway/status, and the page that joins the two         *)
(* (gateway/static/index.html).  The breaker is CircuitBreaker's, under calls *)
(* whose results come at any time.                                            *)
(*                                                                            *)
(* Events are lost whenever the tab's buffer is full or its stream is down,   *)
(* the status is read field by field without a lock, and answers to several   *)
(* fetches may overtake each other; the page only has its poll against that.  *)
(******************************************************************************)
EXTENDS CircuitBreaker, Sequences

CONSTANTS
  Buffer,     \* slots of a subscriber's channel: 64 in the code
  Fetch       \* status fetches a tab has under way at once: what a browser allows

ASSUME DashboardAssumption == Buffer \in Nat \ {0}

VARIABLES
  healthy,    \* Backend.healthy
  probing,    \* a health probe has set healthy and is yet to publish it
  stream,     \* "down", "connected" (greeted, not subscribed yet), "subscribed"
  buffer,     \* the events in the subscriber's channel
  heard,      \* history: the breaker state that the tab's log ends with, or will
              \* once the buffer is read; "missed" if it was not sent the last one
  fetch,      \* the status fetches: how far, and what was read so far
  shown       \* the status on the page, {} before the first

bus  == <<stream, buffer, heard>>
dash == <<cb, calls, healthy, probing, bus, fetch, shown>>

Present == [cb_state |-> cb.state, healthy |-> healthy]

Status == [cb_state : cbState, healthy : BOOLEAN]

Event == cbState \cup {"health"}

FetchType == [at : {"idle", "asked"}] \cup [at : {"reading"}, cb_state : cbState]
               \cup [at : {"answered"}, status : Status]

DashTypeOK ==
  /\ TypeOK
  /\ healthy \in BOOLEAN /\ probing \in BOOLEAN
  /\ stream \in {"down", "connected", "subscribed"}
  /\ buffer \in Seq(Event) /\ Len(buffer) <= Buffer
  /\ stream # "subscribed" => buffer = <<>>
  /\ heard \in cbState \cup {"missed"}
  /\ fetch \in [Fetch -> FetchType]
  /\ shown \subseteq Status

DashInit ==
  /\ Init
  /\ healthy = TRUE /\ probing = FALSE
  /\ stream = "down" /\ buffer = <<>> /\ heard = "missed"
  /\ fetch = [f \in Fetch |-> [at |-> "idle"]]
  /\ shown = {}

(* The buffered events that tell a state of the breaker.                      *)
Told == {i \in DOMAIN buffer : buffer[i] # "health"}

(* Publish never blocks: an event that finds the buffer full is dropped, and  *)
(* a tab that is not subscribed gets none.                                    *)
Taken == stream = "subscribed" /\ Len(buffer) < Buffer

Publish(e) ==
  /\ buffer' = IF Taken THEN Append(buffer, e) ELSE buffer
  /\ UNCHANGED stream

(* History: once a transition was dropped the log is behind, until the next   *)
(* one is taken.                                                              *)
Reckon(e) == heard' = IF Taken THEN e ELSE "missed"

(* Seeded fault: a late success that closes an open breaker is not announced. *)
FaultyAnnounce ==
  IF cb'.state = cb.state \/ (cb.state = "open" /\ cb'.state = "closed")
  THEN UNCHANGED bus
  ELSE Publish(cb'.state) /\ Reckon(cb'.state)

(* Every transition is published while cb.mu is held: no other event of this  *)
(* breaker can come in between.                                               *)
Announce ==
  IF cb'.state = cb.state
  THEN UNCHANGED bus
  ELSE Publish(cb'.state) /\ Reckon(cb'.state)

(* A step of the breaker and its calls.                                       *)
Traffic ==
  /\ Next
  /\ Announce
  /\ UNCHANGED <<healthy, probing, fetch, shown>>

(* checkOne: swap the flag, then publish the outcome.  The next probe is due  *)
(* after 5 s and this one is over within 2 s: they do not overlap.            *)
CheckOne(ok) ==
  /\ ~probing
  /\ probing' = TRUE
  /\ healthy' = ok
  /\ UNCHANGED <<cb, calls, bus, fetch, shown>>

PublishCheck ==
  /\ probing
  /\ probing' = FALSE
  /\ Publish("health")
  /\ UNCHANGED <<cb, calls, healthy, heard, fetch, shown>>

(* GET /events: the tab is told that it is connected, and subscribed after.   *)
Connect ==
  /\ stream = "down"
  /\ stream' = "connected"
  /\ UNCHANGED <<cb, calls, healthy, probing, buffer, heard, fetch, shown>>

Subscribe ==
  /\ stream = "connected"
  /\ stream' = "subscribed"
  /\ UNCHANGED <<cb, calls, healthy, probing, buffer, heard, fetch, shown>>

(* The connection is lost: the handler unsubscribes, what is in the channel   *)
(* is gone, and the browser will reconnect.  The log stays on the page.       *)
Lose ==
  /\ stream # "down"
  /\ stream' = "down"
  /\ buffer' = <<>>
  /\ heard' = IF Told = {} THEN heard ELSE "missed"
  /\ UNCHANGED <<cb, calls, healthy, probing, fetch, shown>>

(* refreshStatus sends a fetch.                                               *)
Ask(f) ==
  /\ fetch[f].at = "idle"
  /\ fetch' = [fetch EXCEPT ![f] = [at |-> "asked"]]

(* onmessage: log the event and refresh, except that health events are passed *)
(* over while their box is not ticked.                                        *)
OnMessage ==
  /\ buffer # <<>>
  /\ buffer' = Tail(buffer)
  /\ heard' = IF Head(buffer) = "health" \/ heard = "missed" THEN heard ELSE Head(buffer)
  /\ \/ \E f \in Fetch : Ask(f)
     \/ Head(buffer) = "health" /\ UNCHANGED fetch
  /\ UNCHANGED <<cb, calls, healthy, probing, stream, shown>>

(* Seeded fault: the page polls only while its stream is down.                *)
FaultyPoll ==
  /\ stream = "down"
  /\ \E f \in Fetch : Ask(f)
  /\ UNCHANGED <<cb, calls, healthy, probing, bus, shown>>

(* The interval timer, the first refresh, and the one after a click.          *)
Poll ==
  /\ \E f \in Fetch : Ask(f)
  /\ UNCHANGED <<cb, calls, healthy, probing, bus, shown>>

(* Status: the breaker's state under cb.mu, then the flag, at two instants.   *)
ReadBreaker(f) ==
  /\ fetch[f].at = "asked"
  /\ fetch' = [fetch EXCEPT ![f] = [at |-> "reading", cb_state |-> cb.state]]
  /\ UNCHANGED <<cb, calls, healthy, probing, bus, shown>>

ReadHealth(f) ==
  /\ fetch[f].at = "reading"
  /\ fetch' = [fetch EXCEPT ![f] =
       [at |-> "answered", status |-> [cb_state |-> @.cb_state, healthy |-> healthy]]]
  /\ UNCHANGED <<cb, calls, healthy, probing, bus, shown>>

(* Answers are rendered as they come in, whichever was asked for last.        *)
RenderStatus(f) ==
  /\ fetch[f].at = "answered"
  /\ shown' = {fetch[f].status}
  /\ fetch' = [fetch EXCEPT ![f] = [at |-> "idle"]]
  /\ UNCHANGED <<cb, calls, healthy, probing, bus>>

Refresh(f) == ReadBreaker(f) \/ ReadHealth(f) \/ RenderStatus(f)

DashNext ==
  \/ Traffic
  \/ \E ok \in BOOLEAN : CheckOne(ok)
  \/ PublishCheck
  \/ Connect \/ Subscribe \/ Lose
  \/ OnMessage
  \/ Poll
  \/ \E f \in Fetch : Refresh(f)

(* The timer fires again and again, and a fetch is answered and rendered.     *)
(* Nothing is assumed of the stream, the probes or the traffic.               *)
DashSpec ==
  /\ DashInit /\ [][DashNext]_dash
  /\ WF_dash(Poll)
  /\ \A f \in Fetch : WF_dash(Refresh(f))

--------------------------------------------------------------------------------
(* The last state the log tells of the breaker once the buffer is read.       *)
LogEndsWith(s) ==
  IF Told = {}
  THEN heard = s
  ELSE \E i \in Told : buffer[i] = s /\ \A j \in Told : j <= i

(* The log never settles on a state the breaker has left, unless the very     *)
(* last transition was not sent to the tab (a full buffer, a lost connection, *)
(* the gap between the greeting and Subscribe): transitions are all           *)
(* announced, and in order.                                                   *)
LogEndsTrue == heard # "missed" => LogEndsWith(cb.state)

(* "The frontend will recover on its next status poll" (gateway/events.go):   *)
(* whatever events were dropped, whatever mixture of old and new a status     *)
(* combined and in whatever order the answers came, once the backend stays as *)
(* it is the page comes to show it, and goes on showing it.                   *)
PageCatchesUp ==
  <>[][UNCHANGED Present]_dash => <>[](shown = {Present})

================================================================================
