----------------------------- MODULE EventStream -----------------------------
(***************************************************************************)
(* The event streams of the notification service (handler.GetEventsStream, *)
(* handler/lookup.go). Every stream has a handler, which loops on a select *)
(* between the unbuffered channel lookup.C and a ticker, and a subscriber  *)
(* goroutine of the broker client, which receives the deliveries of a      *)
(* temporary queue and sends each on lookup.C. At a tick the handler sends *)
(* the client what it has gathered; an error ends the stream: the          *)
(* subscription is ended, then lookup.C is closed. A goroutine that sends  *)
(* on a closed channel, or is blocked in a send when it is closed, panics, *)
(* and nothing recovers: the process ends.                                 *)
(*                                                                         *)
(* A temporary queue exists while its subscriber consumes from it. A       *)
(* subscriber whose connection was lost consumes again from a new queue.   *)
(***************************************************************************)
EXTENDS EventCodes, Integers, Sequences

CONSTANTS
  Tenant,
  Stream,
  Asked,    \* Asked[s]: what the request of stream s asks for
  None,     \* no event, no interval
  MaxEvents \* bound on the events

Event == [id: 1 .. MaxEvents, tenant: Tenant, code: Code]

ASSUME StreamAssumption ==
  /\ Asked \in [Stream -> [solution: STRING, class: STRING, level: STRING]]
  /\ None \notin Event
  /\ MaxEvents \in Nat

VARIABLES
  lastEvent,   \* the last identifier given to an event
  unpublished, \* stored events whose goroutine has yet to publish them
  log,         \* what was published, in order
  topic,       \* topic[s]: the tenant whose events stream s follows
  spc,         \* where the handler of a stream is,
  sub,         \* and its subscriber
  queue,       \* the deliveries of the subscription
  hand,        \* the event that the subscriber is sending on lookup.C
  gathered,    \* the events the handler has gathered since the last tick
  tick,        \* there is a tick in the ticker's channel
  client,      \* the client is there
  sent,        \* the events the client was sent
  panicked     \* the process ended by a panic

streamVars == <<lastEvent, unpublished, log, topic, spc, sub, queue, hand, gathered,
                tick, client, sent, panicked>>

StreamInit ==
  /\ lastEvent = 0
  /\ unpublished = {}
  /\ log = <<>>
  /\ topic \in [Stream -> Tenant]
  /\ spc = [s \in Stream |-> "none"]
  /\ sub = [s \in Stream |-> "none"]
  /\ queue = [s \in Stream |-> <<>>]
  /\ hand = [s \in Stream |-> None]
  /\ gathered = [s \in Stream |-> <<>>]
  /\ tick = [s \in Stream |-> FALSE]
  /\ client = [s \in Stream |-> TRUE]
  /\ sent = [s \in Stream |-> <<>>]
  /\ panicked = FALSE

-----------------------------------------------------------------------------
(* Publication                                                             *)

\* subscribeEvent starts a goroutine for each stored event, ...
CreateEvent(t, c) ==
  /\ lastEvent < MaxEvents
  /\ lastEvent' = lastEvent + 1
  /\ unpublished' = unpublished \cup {[id |-> lastEvent + 1, tenant |-> t, code |-> c]}
  /\ UNCHANGED <<log, topic, spc, sub, queue, hand, gathered, tick, client, sent,
                 panicked>>

\* ... which publishes it on the topic of its tenant, ...
PublishEvent(e) ==
  /\ e \in unpublished
  /\ unpublished' = unpublished \ {e}
  /\ log' = Append(log, e)
  /\ queue' = [s \in Stream |->
       IF sub[s] = "consuming" /\ topic[s] = e.tenant THEN Append(queue[s], e) ELSE queue[s]]
  /\ UNCHANGED <<lastEvent, topic, spc, sub, hand, gathered, tick, client, sent,
                 panicked>>

\* ... or fails to, and logs a warning.
PublishFails(e) ==
  /\ e \in unpublished
  /\ unpublished' = unpublished \ {e}
  /\ UNCHANGED <<lastEvent, log, topic, spc, sub, queue, hand, gathered, tick, client,
                 sent, panicked>>

-----------------------------------------------------------------------------
(* The subscriber                                                          *)

\* resubscribe: it ends when it finds the subscription ended, ...
CheckMayRun(s) ==
  /\ sub[s] = "loop"
  /\ hand[s] = None
  /\ sub' = [sub EXCEPT ![s] =
       IF spc[s] \in {"close", "returned"} THEN "ended" ELSE "connecting"]
  /\ UNCHANGED <<lastEvent, unpublished, log, topic, spc, queue, hand, gathered, tick,
                 client, sent, panicked>>

\* ... and else consumes, also when it was ended since.
Consume(s) ==
  /\ sub[s] = "connecting"
  /\ sub' = [sub EXCEPT ![s] = "consuming"]
  /\ UNCHANGED <<lastEvent, unpublished, log, topic, spc, queue, hand, gathered, tick,
                 client, sent, panicked>>

\* eventLookup.subscribeEvent is called with a delivery.
Deliver(s) ==
  /\ sub[s] = "consuming"
  /\ hand[s] = None
  /\ queue[s] # <<>>
  /\ hand' = [hand EXCEPT ![s] = Head(queue[s])]
  /\ queue' = [queue EXCEPT ![s] = Tail(@)]
  /\ UNCHANGED <<lastEvent, unpublished, log, topic, spc, sub, gathered, tick, client,
                 sent, panicked>>

\* The channel of the subscriber is closed: what it has not received is dropped.
\* It loops when the call it is in has returned.
LoseSubscription(s) ==
  /\ sub[s] = "consuming"
  /\ sub' = [sub EXCEPT ![s] = "loop"]
  /\ queue' = [queue EXCEPT ![s] = <<>>]
  /\ UNCHANGED <<lastEvent, unpublished, log, topic, spc, hand, gathered, tick, client,
                 sent, panicked>>

\* Mutant of SendPanics: lookup.C is not closed, and the subscriber blocks.
SendBlocks(s) ==
  /\ hand[s] # None
  /\ spc[s] = "returned"
  /\ UNCHANGED streamVars

\* The send on lookup.C when it is closed
SendPanics(s) ==
  /\ hand[s] # None
  /\ spc[s] = "returned"
  /\ panicked' = TRUE
  /\ UNCHANGED <<lastEvent, unpublished, log, topic, spc, sub, queue, hand, gathered,
                 tick, client, sent>>

-----------------------------------------------------------------------------
(* The handler                                                             *)

\* An interval that is not given is five seconds.
validateGetEventsStreamParams(in) == validateGetEventsParams(in)

validateInterval(i) == i = None \/ i \in 2 .. 30

GetEventsStream(s, interval) ==
  /\ spc[s] = "none"
  /\ validateGetEventsStreamParams(Asked[s])
  /\ validateInterval(interval)
  /\ spc' = [spc EXCEPT ![s] = "select"]
  /\ sub' = [sub EXCEPT ![s] = "loop"]
  /\ UNCHANGED <<lastEvent, unpublished, log, topic, queue, hand, gathered, tick,
                 client, sent, panicked>>

\* The handler receives from lookup.C.
Gather(s) ==
  /\ spc[s] = "select"
  /\ hand[s] # None
  /\ gathered' = [gathered EXCEPT ![s] =
       IF Matches(hand[s].code, Asked[s]) THEN Append(@, hand[s]) ELSE @]
  /\ hand' = [hand EXCEPT ![s] = None]
  /\ UNCHANGED <<lastEvent, unpublished, log, topic, spc, sub, queue, tick, client,
                 sent, panicked>>

\* time.Ticker: ticks that are not received are dropped.
Tick(s) ==
  /\ spc[s] \notin {"none", "returned"}
  /\ ~ tick[s]
  /\ tick' = [tick EXCEPT ![s] = TRUE]
  /\ UNCHANGED <<lastEvent, unpublished, log, topic, spc, sub, queue, hand, gathered,
                 client, sent, panicked>>

OnTick(s) ==
  /\ spc[s] = "select"
  /\ tick[s]
  /\ tick' = [tick EXCEPT ![s] = FALSE]
  /\ spc' = [spc EXCEPT ![s] = IF gathered[s] = <<>> THEN "select" ELSE "send"]
  /\ UNCHANGED <<lastEvent, unpublished, log, topic, sub, queue, hand, gathered, client,
                 sent, panicked>>

\* Mutant of Send: the events that were sent are not forgotten.
SendAgain(s) ==
  /\ spc[s] = "send"
  /\ spc' = [spc EXCEPT ![s] = "select"]
  /\ sent' = [sent EXCEPT ![s] = IF client[s] THEN @ \o gathered[s] ELSE @]
  /\ UNCHANGED <<lastEvent, unpublished, log, topic, sub, queue, hand, gathered, tick,
                 client, panicked>>

\* Mutant of Send: only the first event is sent.
SendFirst(s) ==
  /\ spc[s] = "send"
  /\ spc' = [spc EXCEPT ![s] = "select"]
  /\ gathered' = [gathered EXCEPT ![s] = <<>>]
  /\ sent' = [sent EXCEPT ![s] = IF client[s] THEN Append(@, Head(gathered[s])) ELSE @]
  /\ UNCHANGED <<lastEvent, unpublished, log, topic, sub, queue, hand, tick, client,
                 panicked>>

\* out.Send returns nil; when the client has just left, what was sent is lost.
Send(s) ==
  /\ spc[s] = "send"
  /\ spc' = [spc EXCEPT ![s] = "select"]
  /\ gathered' = [gathered EXCEPT ![s] = <<>>]
  /\ sent' = [sent EXCEPT ![s] = IF client[s] THEN @ \o gathered[s] ELSE @]
  /\ UNCHANGED <<lastEvent, unpublished, log, topic, sub, queue, hand, tick, client,
                 panicked>>

\* out.Send returns an error, of whatever cause: the handler returns, and its
\* deferred calls end the subscription ...
SendFails(s) ==
  /\ spc[s] = "send"
  /\ spc' = [spc EXCEPT ![s] = "unsubscribe"]
  /\ gathered' = [gathered EXCEPT ![s] = <<>>]
  /\ UNCHANGED <<lastEvent, unpublished, log, topic, sub, queue, hand, tick, client,
                 sent, panicked>>

Unsubscribe(s) ==
  /\ spc[s] = "unsubscribe"
  /\ spc' = [spc EXCEPT ![s] = "close"]
  /\ sub' = [sub EXCEPT ![s] = IF @ = "consuming" THEN "loop" ELSE @]
  /\ queue' = [queue EXCEPT ![s] = <<>>]
  /\ UNCHANGED <<lastEvent, unpublished, log, topic, hand, gathered, tick, client, sent,
                 panicked>>

\* ... and close lookup.C.
CloseLookup(s) ==
  /\ spc[s] = "close"
  /\ spc' = [spc EXCEPT ![s] = "returned"]
  /\ tick' = [tick EXCEPT ![s] = FALSE]
  /\ UNCHANGED <<lastEvent, unpublished, log, topic, sub, queue, hand, gathered, client,
                 sent, panicked>>

ClientLeaves(s) ==
  /\ client[s]
  /\ spc[s] \notin {"none", "returned"}
  /\ client' = [client EXCEPT ![s] = FALSE]
  /\ UNCHANGED <<lastEvent, unpublished, log, topic, spc, sub, queue, hand, gathered,
                 tick, sent, panicked>>

Subscriber(s) == CheckMayRun(s) \/ Consume(s) \/ Deliver(s) \/ SendPanics(s)

Handler(s) ==
  \/ Gather(s) \/ OnTick(s) \/ Send(s) \/ SendFails(s) \/ Unsubscribe(s) \/ CloseLookup(s)

-----------------------------------------------------------------------------
(* Properties                                                              *)

StreamTypeOK ==
  /\ lastEvent \in 0 .. MaxEvents
  /\ unpublished \subseteq Event
  /\ log \in Seq(Event)
  /\ topic \in [Stream -> Tenant]
  /\ spc \in [Stream -> {"none", "select", "send", "unsubscribe", "close", "returned"}]
  /\ sub \in [Stream -> {"none", "loop", "connecting", "consuming", "ended"}]
  /\ queue \in [Stream -> Seq(Event)]
  /\ hand \in [Stream -> Event \cup {None}]
  /\ gathered \in [Stream -> Seq(Event)]
  /\ tick \in [Stream -> BOOLEAN]
  /\ client \in [Stream -> BOOLEAN]
  /\ sent \in [Stream -> Seq(Event)]
  /\ panicked \in BOOLEAN
  /\ \A s \in Stream :
       /\ spc[s] = "none" <=> sub[s] = "none"
       /\ tick[s] => spc[s] \notin {"none", "returned"}
       /\ gathered[s] # <<>> => spc[s] \in {"select", "send"}

InHand(s) == IF hand[s] = None THEN <<>> ELSE <<hand[s]>>

\* What a stream has on its way to the client, in order
Pipeline(s) == sent[s] \o gathered[s] \o InHand(s) \o queue[s]

\* A stream gives its client events of its own tenant that match the request,
\* each once, and all in the order in which they were published, however the
\* subscription is lost and made again.
StreamFaithful ==
  \A s \in Stream :
    /\ \A i \in DOMAIN (sent[s] \o gathered[s]) :
         Matches((sent[s] \o gathered[s])[i].code, Asked[s])
    /\ \A i \in DOMAIN Pipeline(s) : Pipeline(s)[i].tenant = topic[s]
    /\ \E f \in [DOMAIN Pipeline(s) -> DOMAIN log] :
         /\ \A i \in DOMAIN f : Pipeline(s)[i] = log[f[i]]
         /\ \A i, j \in DOMAIN f : i < j => f[i] < f[j]

=============================================================================
