---------------------- MODULE NotificationServiceProofs ----------------------
(***************************************************************************)
(* Proofs about NotificationService and its event streams, for any number  *)
(* of tenants, streams, events and faults: what a stream has on its way to *)
(* the client stays a selection of what was published, in order, because   *)
(* each step either moves an event along or drops it; and main undoes in   *)
(* the opposite order what it started.                                     *)
(***************************************************************************)
EXTENDS NotificationService, SequenceTheorems, TLAPS

-----------------------------------------------------------------------------
(* Selections of a sequence                                                *)

\* p is q with some of its elements left out.
Selects(p, q) ==
  \E f \in [DOMAIN p -> DOMAIN q] :
    /\ \A i \in DOMAIN f : p[i] = q[f[i]]
    /\ \A i, j \in DOMAIN f : i < j => f[i] < f[j]

\* A sequence selects itself.
LEMMA SelectsItself ==
  ASSUME NEW S, NEW p \in Seq(S)
  PROVE  Selects(p, p)
<1> DEFINE f == [i \in DOMAIN p |-> i]
<1>1. f \in [DOMAIN p -> DOMAIN p]
  OBVIOUS
<1>2. \A i \in DOMAIN f : p[i] = p[f[i]]
  OBVIOUS
<1>3. \A i, j \in DOMAIN f : i < j => f[i] < f[j]
  OBVIOUS
<1> HIDE DEF f
<1> QED
  BY <1>1, <1>2, <1>3 DEF Selects

\* A selection of a selection is one.
LEMMA SelectsTransitive ==
  ASSUME NEW p, NEW q, NEW r, Selects(p, q), Selects(q, r)
  PROVE  Selects(p, r)
<1>1. PICK f \in [DOMAIN p -> DOMAIN q] :
        /\ \A i \in DOMAIN f : p[i] = q[f[i]]
        /\ \A i, j \in DOMAIN f : i < j => f[i] < f[j]
  BY DEF Selects
<1>2. PICK g \in [DOMAIN q -> DOMAIN r] :
        /\ \A i \in DOMAIN g : q[i] = r[g[i]]
        /\ \A i, j \in DOMAIN g : i < j => g[i] < g[j]
  BY DEF Selects
<1> DEFINE h == [i \in DOMAIN p |-> g[f[i]]]
<1>3. h \in [DOMAIN p -> DOMAIN r]
  BY <1>1, <1>2
<1>4. \A i \in DOMAIN h : p[i] = r[h[i]]
  BY <1>1, <1>2
<1>5. \A i, j \in DOMAIN h : i < j => h[i] < h[j]
  BY <1>1, <1>2
<1> HIDE DEF h
<1> QED
  BY <1>3, <1>4, <1>5 DEF Selects

\* A longer sequence has all of a shorter one.
LEMMA SelectsShorter ==
  ASSUME NEW S, NEW p \in Seq(S), NEW q \in Seq(S)
  PROVE  Selects(p, p \o q)
<1> DEFINE f == [i \in DOMAIN p |-> i]
<1>1. DOMAIN p = 1 .. Len(p) /\ DOMAIN (p \o q) = 1 .. Len(p) + Len(q)
      /\ Len(p) \in Nat /\ Len(q) \in Nat
  BY LenProperties, ConcatProperties
<1>2. f \in [DOMAIN p -> DOMAIN (p \o q)]
  BY <1>1
<1>3. \A i \in DOMAIN f : p[i] = (p \o q)[f[i]]
  BY <1>1, ConcatProperties
<1>4. \A i, j \in DOMAIN f : i < j => f[i] < f[j]
  OBVIOUS
<1> HIDE DEF f
<1> QED
  BY <1>2, <1>3, <1>4 DEF Selects

\* Selections can be put one after the other.
LEMMA SelectsConcat ==
  ASSUME NEW S, NEW p \in Seq(S), NEW q \in Seq(S), NEW u \in Seq(S), NEW v \in Seq(S),
         Selects(p, u), Selects(q, v)
  PROVE  Selects(p \o q, u \o v)
<1>1. PICK f \in [DOMAIN p -> DOMAIN u] :
        /\ \A i \in DOMAIN f : p[i] = u[f[i]]
        /\ \A i, j \in DOMAIN f : i < j => f[i] < f[j]
  BY DEF Selects
<1>2. PICK g \in [DOMAIN q -> DOMAIN v] :
        /\ \A i \in DOMAIN g : q[i] = v[g[i]]
        /\ \A i, j \in DOMAIN g : i < j => g[i] < g[j]
  BY DEF Selects
<1>3. /\ DOMAIN p = 1 .. Len(p) /\ DOMAIN q = 1 .. Len(q)
      /\ DOMAIN u = 1 .. Len(u) /\ DOMAIN v = 1 .. Len(v)
      /\ Len(p) \in Nat /\ Len(q) \in Nat /\ Len(u) \in Nat /\ Len(v) \in Nat
  BY LenProperties
<1>4. /\ p \o q \in Seq(S) /\ Len(p \o q) = Len(p) + Len(q)
      /\ u \o v \in Seq(S) /\ Len(u \o v) = Len(u) + Len(v)
      /\ \A i \in 1 .. Len(p) + Len(q) :
           (p \o q)[i] = IF i <= Len(p) THEN p[i] ELSE q[i - Len(p)]
      /\ \A i \in 1 .. Len(u) + Len(v) :
           (u \o v)[i] = IF i <= Len(u) THEN u[i] ELSE v[i - Len(u)]
  BY ConcatProperties
<1>5. DOMAIN (p \o q) = 1 .. Len(p) + Len(q) /\ DOMAIN (u \o v) = 1 .. Len(u) + Len(v)
  BY <1>4, LenProperties
<1> DEFINE h == [i \in DOMAIN (p \o q) |->
                   IF i <= Len(p) THEN f[i] ELSE Len(u) + g[i - Len(p)]]
<1>6. \A i \in DOMAIN (p \o q) :
        /\ i <= Len(p) => h[i] = f[i] /\ i \in DOMAIN p /\ f[i] \in 1 .. Len(u)
        /\ ~ (i <= Len(p)) => /\ i - Len(p) \in DOMAIN q
                              /\ g[i - Len(p)] \in 1 .. Len(v)
                              /\ h[i] = Len(u) + g[i - Len(p)]
  <2> TAKE i \in DOMAIN (p \o q)
  <2>1. h[i] = IF i <= Len(p) THEN f[i] ELSE Len(u) + g[i - Len(p)]
    OBVIOUS
  <2> HIDE DEF h
  <2>2. i \in 1 .. Len(p) + Len(q)
    BY <1>5
  <2>3. ASSUME i <= Len(p)
        PROVE  i \in DOMAIN p /\ f[i] \in 1 .. Len(u)
    BY <1>1, <1>3, <2>2, <2>3
  <2>4. ASSUME ~ (i <= Len(p))
        PROVE  i - Len(p) \in DOMAIN q /\ g[i - Len(p)] \in 1 .. Len(v)
    BY <1>2, <1>3, <2>2, <2>4
  <2> QED
    BY <2>1, <2>3, <2>4
<1>7. DOMAIN h = DOMAIN (p \o q) /\ h = [i \in DOMAIN (p \o q) |-> h[i]]
  OBVIOUS
<1> HIDE DEF h
<1>8. \A i \in DOMAIN (p \o q) : h[i] \in DOMAIN (u \o v)
  <2> TAKE i \in DOMAIN (p \o q)
  <2>1. CASE i <= Len(p)
    <3>1. h[i] \in 1 .. Len(u)
      BY <1>6, <2>1
    <3> QED
      BY <1>3, <1>5, <3>1
  <2>2. CASE ~ (i <= Len(p))
    <3>1. h[i] = Len(u) + g[i - Len(p)] /\ g[i - Len(p)] \in 1 .. Len(v)
      BY <1>6, <2>2
    <3> QED
      BY <1>3, <1>5, <3>1
  <2> QED
    BY <2>1, <2>2
<1>9. h \in [DOMAIN (p \o q) -> DOMAIN (u \o v)]
  BY <1>7, <1>8
<1>10. \A i \in DOMAIN h : (p \o q)[i] = (u \o v)[h[i]]
  <2> TAKE i \in DOMAIN h
  <2>1. CASE i <= Len(p)
    BY <1>1, <1>3, <1>4, <1>5, <1>6, <1>7, <1>8, <2>1
  <2>2. CASE ~ (i <= Len(p))
    <3>1. (p \o q)[i] = q[i - Len(p)] /\ q[i - Len(p)] = v[g[i - Len(p)]]
      BY <1>2, <1>4, <1>5, <1>6, <1>7, <2>2
    <3>2. h[i] \in 1 .. Len(u) + Len(v) /\ ~ (h[i] <= Len(u))
          /\ h[i] - Len(u) = g[i - Len(p)]
      BY <1>3, <1>5, <1>6, <1>7, <1>8, <2>2
    <3> QED
      BY <1>4, <3>1, <3>2
  <2> QED
    BY <2>1, <2>2
<1>11. \A i, j \in DOMAIN h : i < j => h[i] < h[j]
  <2> SUFFICES ASSUME NEW i \in DOMAIN h, NEW j \in DOMAIN h, i < j
               PROVE  h[i] < h[j]
    OBVIOUS
  <2>1. i \in Nat /\ j \in Nat
    BY <1>3, <1>5, <1>7
  <2>2. CASE j <= Len(p)
    <3>1. i <= Len(p)
      BY <1>3, <2>1, <2>2
    <3>2. h[i] = f[i] /\ h[j] = f[j] /\ i \in DOMAIN f /\ j \in DOMAIN f
      BY <1>1, <1>6, <1>7, <2>2, <3>1
    <3> QED
      BY <1>1, <3>2
  <2>3. CASE i <= Len(p) /\ ~ (j <= Len(p))
    BY <1>3, <1>6, <1>7, <2>1, <2>3
  <2>4. CASE ~ (i <= Len(p))
    <3>1. i - Len(p) < j - Len(p) /\ i - Len(p) \in DOMAIN g /\ j - Len(p) \in DOMAIN g
      BY <1>2, <1>3, <1>6, <1>7, <2>1, <2>4
    <3>2. g[i - Len(p)] < g[j - Len(p)]
      BY <1>2, <3>1
    <3> QED
      BY <1>3, <1>6, <1>7, <2>1, <2>4, <3>2
  <2> QED
    BY <1>3, <2>1, <2>2, <2>3, <2>4
<1> QED
  BY <1>9, <1>10, <1>11 DEF Selects

\* The empty sequence selects nothing.
LEMMA SelectsNothing ==
  ASSUME NEW S, NEW q \in Seq(S)
  PROVE  Selects(<<>>, q)
<1>1. <<>> \in Seq(S)
  BY EmptySeq
<1>2. Selects(<<>>, <<>> \o q)
  BY <1>1, SelectsShorter
<1>3. <<>> \o q = q
  BY ConcatEmptySeq
<1> QED
  BY <1>2, <1>3

\* What is appended to the last part is appended to the whole.
LEMMA AppendToWhole ==
  ASSUME NEW S, NEW p \in Seq(S), NEW q \in Seq(S), NEW e \in S
  PROVE  p \o Append(q, e) = Append(p \o q, e)
<1> DEFINE a == Append(q, e)
           w == p \o q
           v == Append(w, e)
<1>1. Len(p) \in Nat /\ Len(q) \in Nat
  BY LenProperties
<1>2. a \in Seq(S) /\ Len(a) = Len(q) + 1 /\ (\A i \in 1 .. Len(q) : a[i] = q[i])
      /\ a[Len(q) + 1] = e
  BY AppendProperties
<1>3. w \in Seq(S) /\ Len(w) = Len(p) + Len(q)
      /\ \A i \in 1 .. Len(p) + Len(q) : w[i] = IF i <= Len(p) THEN p[i] ELSE q[i - Len(p)]
  BY ConcatProperties
<1>4. a \in Seq(S) /\ w \in Seq(S)
  BY <1>2, <1>3
<1> HIDE DEF a, w
<1>5. v \in Seq(S) /\ Len(v) = Len(w) + 1 /\ (\A i \in 1 .. Len(w) : v[i] = w[i])
      /\ v[Len(w) + 1] = e
  BY <1>4, AppendProperties
<1> HIDE DEF v
<1>6. p \o a \in Seq(S) /\ Len(p \o a) = Len(p) + Len(a)
      /\ \A i \in 1 .. Len(p) + Len(a) :
           (p \o a)[i] = IF i <= Len(p) THEN p[i] ELSE a[i - Len(p)]
  BY <1>4, ConcatProperties
<1>7. ASSUME NEW i \in 1 .. Len(p) + Len(q) + 1
      PROVE  (p \o a)[i] = v[i]
  <2>1. CASE i = Len(p) + Len(q) + 1
    <3>1. i - Len(p) = Len(q) + 1 /\ ~ (i <= Len(p)) /\ i = Len(w) + 1
          /\ i \in 1 .. Len(p) + Len(a)
      BY <1>1, <1>2, <1>3, <2>1
    <3> QED
      BY <1>2, <1>5, <1>6, <3>1
  <2>2. CASE i # Len(p) + Len(q) + 1
    <3>1. i \in 1 .. Len(p) + Len(q) /\ i \in 1 .. Len(w) /\ i \in 1 .. Len(p) + Len(a)
          /\ (~ (i <= Len(p)) => i - Len(p) \in 1 .. Len(q))
      BY <1>1, <1>2, <1>3, <2>2
    <3> QED
      BY <1>2, <1>3, <1>5, <1>6, <3>1
  <2> QED
    BY <2>1, <2>2
<1>8. Len(p \o a) = Len(v) /\ Len(p \o a) = Len(p) + Len(q) + 1
  BY <1>1, <1>2, <1>3, <1>5, <1>6
<1>9. p \o a = v
  BY <1>5, <1>6, <1>7, <1>8, SeqEqual
<1> QED
  BY <1>9 DEF a, v, w

-----------------------------------------------------------------------------
(* What a step does to the streams                                         *)

StreamStep ==
  \/ \E t \in Tenant, c \in Code : CreateEvent(t, c)
  \/ \E e \in unpublished : PublishEvent(e) \/ PublishFails(e)
  \/ \E s \in Stream :
       \/ \E i \in Interval : GetEventsStream(s, i)
       \/ Subscriber(s) \/ Handler(s) \/ Tick(s) \/ ClientLeaves(s) \/ LoseSubscription(s)
  \/ RunReturns
  \/ destroyBroker
  \/ UNCHANGED streamVars

\* The rest of main leaves the streams alone.
LEMMA StepOfStreams == [Next]_vars => StreamStep
<1> SUFFICES ASSUME [Next]_vars PROVE StreamStep
  OBVIOUS
<1>1. CASE Main \/ Fatal
  BY <1>1 DEF Main, Before, initDefaults, initBroker, initStore, initSync, initDatabase,
              initLogger, Bring, loadDefaultTenantID, SubscribeIntake, SubscribeNotifier,
              StartCleaner, RegisterNotificationHandler, StopCleaner, UnsubscribeNotifier,
              UnsubscribeIntake, Destroy,
              destroyLogger, destroyDatabase, destroyStore, destroySync, Drop, WgWait, Fatal,
              StreamStep
<1>2. CASE PublishStep
  BY <1>2 DEF PublishStep, StreamStep
<1>3. ASSUME NEW s \in Stream,
             \/ OpenStream(s) \/ SubscriberStep(s) \/ HandlerStep(s) \/ TickStep(s)
             \/ Leave(s) \/ LoseBroker(s)
      PROVE  StreamStep
  BY <1>3 DEF OpenStream, SubscriberStep, HandlerStep, TickStep, Leave, LoseBroker, StreamStep
<1>4. CASE \E t \in Tenant, c \in Code : StoreEvent(t, c)
  BY <1>4 DEF StoreEvent, StreamStep
<1>5. CASE UNCHANGED vars
  BY <1>5 DEF vars, StreamStep
<1> QED
  BY <1>1, <1>2, <1>3, <1>4, <1>5 DEF Next, StreamStep

\* The variables of the control and of the data of streams
controlVars == <<spc, sub, tick, client, panicked>>
dataVars == <<queue, hand, gathered, sent>>

\* Publication leaves the control alone.
LEMMA PublicationFrame ==
  ASSUME \/ \E t \in Tenant, c \in Code : CreateEvent(t, c)
         \/ \E e \in unpublished : PublishEvent(e) \/ PublishFails(e)
  PROVE  UNCHANGED controlVars /\ UNCHANGED <<topic, hand, gathered, sent>>
  BY DEF CreateEvent, PublishEvent, PublishFails, controlVars

-----------------------------------------------------------------------------
(* Types                                                                   *)

SpcState == {"none", "select", "send", "unsubscribe", "close", "returned"}
SubState == {"none", "loop", "connecting", "consuming", "ended"}

\* The parts of the type invariant
LogType ==
  /\ lastEvent \in 0 .. MaxEvents
  /\ unpublished \subseteq Event
  /\ log \in Seq(Event)
  /\ topic \in [Stream -> Tenant]

ControlType ==
  /\ spc \in [Stream -> SpcState]
  /\ sub \in [Stream -> SubState]
  /\ \A s \in Stream : spc[s] = "none" <=> sub[s] = "none"

SignalType ==
  /\ tick \in [Stream -> BOOLEAN]
  /\ client \in [Stream -> BOOLEAN]
  /\ panicked \in BOOLEAN
  /\ \A s \in Stream : tick[s] => spc[s] \notin {"none", "returned"}

DataType ==
  /\ queue \in [Stream -> Seq(Event)]
  /\ hand \in [Stream -> Event \cup {None}]
  /\ gathered \in [Stream -> Seq(Event)]
  /\ sent \in [Stream -> Seq(Event)]
  /\ \A s \in Stream : gathered[s] # <<>> => spc[s] \in {"select", "send"}

\* The type invariant of the streams is the conjunction of its parts.
LEMMA StreamTypeParts ==
  StreamTypeOK <=> LogType /\ ControlType /\ SignalType /\ DataType
  BY DEF StreamTypeOK, LogType, ControlType, SignalType, DataType, SpcState, SubState

\* The streams have their types initially.
LEMMA StreamInitType == StreamInit => StreamTypeOK
<1> SUFFICES ASSUME StreamInit PROVE LogType /\ ControlType /\ SignalType /\ DataType
  BY StreamTypeParts
<1>1. LogType
  BY StreamAssumption, EmptySeq DEF StreamInit, LogType
<1>2. ControlType
  BY DEF StreamInit, ControlType, SpcState, SubState
<1>3. SignalType
  BY DEF StreamInit, SignalType
<1>4. DataType
  BY EmptySeq DEF StreamInit, DataType
<1> QED
  BY <1>1, <1>2, <1>3, <1>4

\* Every step keeps the types of what is published ...
LEMMA LogStep ==
  ASSUME LogType, StreamStep
  PROVE  LogType'
<1>1. ASSUME NEW t \in Tenant, NEW c \in Code, CreateEvent(t, c)
      PROVE  LogType'
  <2> DEFINE e == [id |-> lastEvent + 1, tenant |-> t, code |-> c]
  <2>1. lastEvent + 1 \in 1 .. MaxEvents
    BY <1>1, StreamAssumption DEF CreateEvent, LogType
  <2>2. e \in Event
    BY <2>1 DEF Event
  <2>3. unpublished' = unpublished \cup {e} /\ lastEvent' = lastEvent + 1
        /\ UNCHANGED <<log, topic>>
    BY <1>1 DEF CreateEvent
  <2> QED
    BY <2>1, <2>2, <2>3 DEF LogType
<1>2. ASSUME NEW e \in unpublished, PublishEvent(e)
      PROVE  LogType'
  <2>1. Append(log, e) \in Seq(Event)
    BY AppendProperties DEF LogType
  <2> QED
    BY <1>2, <2>1 DEF PublishEvent, LogType
<1>3. ASSUME NEW e \in unpublished, PublishFails(e)
      PROVE  LogType'
  BY <1>3 DEF PublishFails, LogType
<1>4. ASSUME UNCHANGED <<lastEvent, unpublished, log, topic>>
      PROVE  LogType'
  BY <1>4 DEF LogType
<1>5. ASSUME NEW s \in Stream,
             \/ \E i \in Interval : GetEventsStream(s, i)
             \/ Subscriber(s) \/ Handler(s) \/ Tick(s) \/ ClientLeaves(s) \/ LoseSubscription(s)
      PROVE  LogType'
  BY <1>4, <1>5 DEF GetEventsStream, Subscriber, CheckMayRun, Consume, Deliver, SendPanics,
       Handler, Gather, OnTick, Send, SendFails, Unsubscribe, CloseLookup, Tick, ClientLeaves,
       LoseSubscription
<1> QED
  BY <1>1, <1>2, <1>3, <1>4, <1>5 DEF StreamStep, RunReturns, destroyBroker, streamVars

\* ... of the control ...
LEMMA ControlStep ==
  ASSUME ControlType, StreamStep
  PROVE  ControlType'
<1>1. ASSUME UNCHANGED <<spc, sub>>
      PROVE  ControlType'
  BY <1>1 DEF ControlType
<1>2. ASSUME NEW s \in Stream, NEW i, GetEventsStream(s, i)
      PROVE  ControlType'
  BY <1>2 DEF GetEventsStream, ControlType, SpcState, SubState
<1>3. ASSUME NEW s \in Stream, Subscriber(s) \/ LoseSubscription(s)
      PROVE  ControlType'
  <2>1. CASE CheckMayRun(s)
    BY <2>1 DEF CheckMayRun, ControlType, SubState
  <2>2. CASE Consume(s) \/ LoseSubscription(s)
    BY <2>2 DEF Consume, LoseSubscription, ControlType, SubState
  <2> QED
    BY <1>1, <1>3, <2>1, <2>2 DEF Subscriber, Deliver, SendPanics
<1>4. ASSUME NEW s \in Stream, Handler(s)
      PROVE  ControlType'
  <2>1. CASE OnTick(s) \/ Send(s) \/ SendFails(s) \/ CloseLookup(s)
    BY <2>1 DEF OnTick, Send, SendFails, CloseLookup, ControlType, SpcState
  <2>2. CASE Unsubscribe(s)
    BY <2>2 DEF Unsubscribe, ControlType, SpcState, SubState
  <2> QED
    BY <1>1, <1>4, <2>1, <2>2 DEF Handler, Gather
<1>5. CASE destroyBroker
  BY <1>5 DEF destroyBroker, ControlType, SubState
<1> QED
  BY <1>1, <1>2, <1>3, <1>4, <1>5, PublicationFrame
     DEF StreamStep, Tick, ClientLeaves, RunReturns, streamVars, controlVars

\* ... of ticks, clients and the panic ...
LEMMA SignalStep ==
  ASSUME ControlType, SignalType, StreamStep
  PROVE  SignalType'
<1>1. ASSUME UNCHANGED <<spc, tick, client, panicked>>
      PROVE  SignalType'
  BY <1>1 DEF SignalType
<1>2. ASSUME NEW s \in Stream, NEW i, GetEventsStream(s, i)
      PROVE  SignalType'
  BY <1>2 DEF GetEventsStream, ControlType, SignalType
<1>3. ASSUME NEW s \in Stream, Subscriber(s) \/ LoseSubscription(s)
      PROVE  SignalType'
  <2>1. CASE SendPanics(s)
    BY <2>1 DEF SendPanics, SignalType
  <2> QED
    BY <1>1, <1>3, <2>1 DEF Subscriber, CheckMayRun, Consume, Deliver, LoseSubscription
<1>4. ASSUME NEW s \in Stream, Handler(s)
      PROVE  SignalType'
  <2>1. CASE OnTick(s)
    BY <2>1 DEF OnTick, ControlType, SignalType
  <2>2. CASE Send(s) \/ SendFails(s) \/ Unsubscribe(s)
    BY <2>2 DEF Send, SendFails, Unsubscribe, ControlType, SignalType
  <2>3. CASE CloseLookup(s)
    BY <2>3 DEF CloseLookup, ControlType, SignalType
  <2> QED
    BY <1>1, <1>4, <2>1, <2>2, <2>3 DEF Handler, Gather
<1>5. ASSUME NEW s \in Stream, Tick(s)
      PROVE  SignalType'
  BY <1>5 DEF Tick, SignalType
<1>6. ASSUME NEW s \in Stream, ClientLeaves(s)
      PROVE  SignalType'
  BY <1>6 DEF ClientLeaves, SignalType
<1>7. CASE RunReturns
  BY <1>7 DEF RunReturns, SignalType
<1> QED
  BY <1>1, <1>2, <1>3, <1>4, <1>5, <1>6, <1>7, PublicationFrame
     DEF StreamStep, destroyBroker, streamVars, controlVars

\* ... and of what is on its way.
LEMMA DataStep ==
  ASSUME LogType, ControlType, DataType, StreamStep
  PROVE  DataType'
<1>1. ASSUME UNCHANGED spc, UNCHANGED dataVars
      PROVE  DataType'
  BY <1>1 DEF DataType, dataVars
<1>2. ASSUME NEW s \in Stream, NEW i, GetEventsStream(s, i)
      PROVE  DataType'
  BY <1>2 DEF GetEventsStream, ControlType, DataType
<1>3. ASSUME NEW e \in unpublished, PublishEvent(e)
      PROVE  DataType'
  <2>1. \A s \in Stream : Append(queue[s], e) \in Seq(Event)
    BY AppendProperties DEF DataType, LogType
  <2> QED
    BY <1>3, <2>1 DEF PublishEvent, DataType
<1>4. ASSUME NEW s \in Stream, Subscriber(s) \/ LoseSubscription(s)
      PROVE  DataType'
  <2>1. CASE Deliver(s)
    <3>1. Head(queue[s]) \in Event /\ Tail(queue[s]) \in Seq(Event)
      BY <2>1, HeadTailProperties DEF Deliver, DataType
    <3> QED
      BY <2>1, <3>1 DEF Deliver, DataType
  <2>2. CASE LoseSubscription(s)
    BY <2>2, EmptySeq DEF LoseSubscription, DataType
  <2> QED
    BY <1>1, <1>4, <2>1, <2>2 DEF Subscriber, CheckMayRun, Consume, SendPanics, dataVars
<1>5. ASSUME NEW s \in Stream, Handler(s)
      PROVE  DataType'
  <2>0. <<>> \in Seq(Event)
    BY EmptySeq
  <2>1. CASE Gather(s)
    <3>1. hand[s] \in Event /\ Append(gathered[s], hand[s]) \in Seq(Event)
      BY <2>1, AppendProperties DEF Gather, DataType
    <3> QED
      BY <2>1, <3>1 DEF Gather, DataType
  <2>2. CASE OnTick(s)
    BY <2>2 DEF OnTick, ControlType, DataType
  <2>3. CASE Send(s)
    <3>1. sent[s] \o gathered[s] \in Seq(Event)
      BY ConcatProperties DEF DataType
    <3> QED
      BY <2>0, <2>3, <3>1 DEF Send, ControlType, DataType
  <2>4. CASE SendFails(s)
    BY <2>0, <2>4 DEF SendFails, ControlType, DataType
  <2>5. CASE Unsubscribe(s)
    BY <2>0, <2>5 DEF Unsubscribe, ControlType, DataType
  <2>6. CASE CloseLookup(s)
    BY <2>6 DEF CloseLookup, ControlType, DataType
  <2> QED
    BY <1>5, <2>1, <2>2, <2>3, <2>4, <2>5, <2>6 DEF Handler
<1>6. CASE destroyBroker
  BY <1>6, EmptySeq DEF destroyBroker, DataType
<1> QED
  BY <1>1, <1>2, <1>3, <1>4, <1>5, <1>6
     DEF StreamStep, CreateEvent, PublishFails, Tick, ClientLeaves, RunReturns, streamVars,
         dataVars

\* All parts together
LEMMA StreamTypeStep == StreamTypeOK /\ [Next]_vars => StreamTypeOK'
<1> SUFFICES ASSUME LogType, ControlType, SignalType, DataType, StreamStep
             PROVE  LogType' /\ ControlType' /\ SignalType' /\ DataType'
  BY StepOfStreams, StreamTypeParts, PTL
<1> QED
  BY LogStep, ControlStep, SignalStep, DataStep

-----------------------------------------------------------------------------
(* What is on its way to a client                                          *)

\* The events of the tenant of a stream, and those its request asks for
Own(s) == {e \in Event : e.tenant = topic[s]}
Wanted(s) == {e \in Event : Matches(e.code, Asked[s])}

\* The parts of StreamFaithful as an inductive invariant
OwnOnly ==
  \A s \in Stream :
    /\ sent[s] \in Seq(Own(s)) /\ gathered[s] \in Seq(Own(s)) /\ queue[s] \in Seq(Own(s))
    /\ hand[s] # None => hand[s] \in Own(s)

WantedOnly ==
  \A s \in Stream : sent[s] \in Seq(Wanted(s)) /\ gathered[s] \in Seq(Wanted(s))

InOrder == \A s \in Stream : Selects(Pipeline(s), log)

\* The pipeline is a sequence of events.
LEMMA PipelineType ==
  ASSUME DataType, NEW s \in Stream
  PROVE  /\ sent[s] \in Seq(Event) /\ gathered[s] \in Seq(Event) /\ queue[s] \in Seq(Event)
         /\ InHand(s) \in Seq(Event)
         /\ Pipeline(s) \in Seq(Event)
<1>1. sent[s] \in Seq(Event) /\ gathered[s] \in Seq(Event) /\ queue[s] \in Seq(Event)
  BY DEF DataType
<1>2. CASE hand[s] = None
  <2>1. InHand(s) \in Seq(Event)
    BY <1>2, EmptySeq DEF InHand
  <2> QED
    BY <1>1, <2>1, ConcatProperties DEF Pipeline
<1>3. CASE hand[s] # None
  <2>1. hand[s] \in Event
    BY <1>3 DEF DataType
  <2>2. InHand(s) \in Seq(Event)
    BY <1>3, <2>1 DEF InHand
  <2> QED
    BY <1>1, <2>2, ConcatProperties DEF Pipeline
<1> QED
  BY <1>2, <1>3

\* What selects from each part of a pipeline selects from the pipeline.
LEMMA PartsSelect ==
  ASSUME NEW S,
         NEW a \in Seq(S), NEW b \in Seq(S), NEW c \in Seq(S), NEW d \in Seq(S),
         NEW w \in Seq(S), NEW x \in Seq(S), NEW y \in Seq(S), NEW z \in Seq(S),
         Selects(a, w), Selects(b, x), Selects(c, y), Selects(d, z)
  PROVE  Selects(a \o b \o c \o d, w \o x \o y \o z)
<1>1. a \o b \in Seq(S) /\ w \o x \in Seq(S) /\ Selects(a \o b, w \o x)
  BY ConcatProperties, SelectsConcat
<1>2. a \o b \o c \in Seq(S) /\ w \o x \o y \in Seq(S) /\ Selects(a \o b \o c, w \o x \o y)
  BY <1>1, ConcatProperties, SelectsConcat
<1> QED
  BY <1>2, SelectsConcat

\* A step that moves events along or drops some keeps the order.
LEMMA PipelineShrinks ==
  ASSUME NEW s \in Stream, Selects(Pipeline(s), log), UNCHANGED log,
         Selects(Pipeline(s)', Pipeline(s))
  PROVE  Selects(Pipeline(s)', log')
  BY SelectsTransitive

\* A stream that a step does not touch
LEMMA PipelineFrame ==
  ASSUME NEW s \in Stream, DataType, Selects(Pipeline(s), log), UNCHANGED log,
         queue'[s] = queue[s], hand'[s] = hand[s], gathered'[s] = gathered[s],
         sent'[s] = sent[s]
  PROVE  Selects(Pipeline(s)', log')
<1>1. Pipeline(s)' = Pipeline(s)
  BY DEF Pipeline, InHand
<1> QED
  BY <1>1

\* What is published reaches the end of the queue, or not.
LEMMA PublishInOrder ==
  ASSUME LogType, DataType, InOrder, NEW e \in unpublished, PublishEvent(e)
  PROVE  InOrder'
<1> SUFFICES ASSUME NEW s \in Stream
             PROVE  Selects(Pipeline(s)', log')
  BY DEF InOrder
<1>1. Pipeline(s) \in Seq(Event) /\ queue[s] \in Seq(Event) /\ log \in Seq(Event) /\ e \in Event
      /\ Selects(Pipeline(s), log)
  BY PipelineType DEF LogType, InOrder
<1> DEFINE front == sent[s] \o gathered[s] \o InHand(s)
<1>2. front \in Seq(Event) /\ Pipeline(s) = front \o queue[s]
  BY PipelineType, ConcatProperties DEF Pipeline
<1>3. Pipeline(s)' = front \o queue'[s] /\ log' = Append(log, e)
  BY DEF PublishEvent, Pipeline, InHand
<1> HIDE DEF front
<1>4. <<e>> \in Seq(Event)
  BY <1>1
<1>5. log' = log \o <<e>>
  BY <1>1, <1>3, AppendIsConcat
<1>6. Selects(<<e>>, <<e>>)
  BY <1>4, SelectsItself
<1>7. CASE queue'[s] = queue[s]
  <2>1. Pipeline(s)' = Pipeline(s)
    BY <1>2, <1>3, <1>7
  <2>2. Selects(log, log')
    BY <1>1, <1>4, <1>5, SelectsShorter
  <2> QED
    BY <1>1, <2>1, <2>2, SelectsTransitive
<1>8. CASE queue'[s] = Append(queue[s], e)
  <2>1. front \o Append(queue[s], e) = Append(front \o queue[s], e)
    BY <1>1, <1>2, AppendToWhole
  <2>2. Append(Pipeline(s), e) = Pipeline(s) \o <<e>>
    BY <1>1, AppendIsConcat
  <2>3. Pipeline(s)' = Pipeline(s) \o <<e>>
    BY <1>2, <1>3, <1>8, <2>1, <2>2
  <2>4. Selects(Pipeline(s) \o <<e>>, log \o <<e>>)
    BY <1>1, <1>4, <1>6, SelectsConcat
  <2> QED
    BY <1>5, <2>3, <2>4
<1> QED
  BY <1>7, <1>8 DEF PublishEvent

\* Putting sequences together does not depend on the order of doing so.
LEMMA Regroup ==
  ASSUME NEW S, NEW p \in Seq(S), NEW q \in Seq(S), NEW r \in Seq(S)
  PROVE  (p \o q) \o r = p \o (q \o r)
<1>1. /\ Len(p) \in Nat /\ Len(q) \in Nat /\ Len(r) \in Nat
  BY LenProperties
<1>2. /\ p \o q \in Seq(S) /\ Len(p \o q) = Len(p) + Len(q)
      /\ \A i \in 1 .. Len(p) + Len(q) :
           (p \o q)[i] = IF i <= Len(p) THEN p[i] ELSE q[i - Len(p)]
  BY ConcatProperties
<1>3. /\ q \o r \in Seq(S) /\ Len(q \o r) = Len(q) + Len(r)
      /\ \A i \in 1 .. Len(q) + Len(r) :
           (q \o r)[i] = IF i <= Len(q) THEN q[i] ELSE r[i - Len(q)]
  BY ConcatProperties
<1>4. /\ (p \o q) \o r \in Seq(S) /\ Len((p \o q) \o r) = Len(p \o q) + Len(r)
      /\ \A i \in 1 .. Len(p \o q) + Len(r) :
           ((p \o q) \o r)[i] = IF i <= Len(p \o q) THEN (p \o q)[i] ELSE r[i - Len(p \o q)]
  BY <1>2, ConcatProperties
<1>5. /\ p \o (q \o r) \in Seq(S) /\ Len(p \o (q \o r)) = Len(p) + Len(q \o r)
      /\ \A i \in 1 .. Len(p) + Len(q \o r) :
           (p \o (q \o r))[i] = IF i <= Len(p) THEN p[i] ELSE (q \o r)[i - Len(p)]
  BY <1>3, ConcatProperties
<1>6. ASSUME NEW i \in 1 .. Len(p) + Len(q) + Len(r)
      PROVE  ((p \o q) \o r)[i] = (p \o (q \o r))[i]
  <2>1. CASE i <= Len(p)
    BY <1>1, <1>2, <1>3, <1>4, <1>5, <2>1
  <2>2. CASE ~ (i <= Len(p)) /\ i <= Len(p) + Len(q)
    BY <1>1, <1>2, <1>3, <1>4, <1>5, <2>2
  <2>3. CASE ~ (i <= Len(p) + Len(q))
    <3>1. ((p \o q) \o r)[i] = r[i - (Len(p) + Len(q))]
      BY <1>1, <1>2, <1>4, <2>3
    <3>2. (p \o (q \o r))[i] = (q \o r)[i - Len(p)]
      BY <1>1, <1>3, <1>5, <2>3
    <3>3. (q \o r)[i - Len(p)] = r[(i - Len(p)) - Len(q)]
      BY <1>1, <1>3, <2>3
    <3>4. (i - Len(p)) - Len(q) = i - (Len(p) + Len(q))
      BY <1>1
    <3> QED
      BY <3>1, <3>2, <3>3, <3>4
  <2> QED
    BY <1>1, <2>1, <2>2, <2>3
<1>7. Len((p \o q) \o r) = Len(p) + Len(q) + Len(r)
      /\ Len(p \o (q \o r)) = Len(p) + Len(q) + Len(r)
  BY <1>1, <1>2, <1>3, <1>4, <1>5
<1> QED
  BY <1>4, <1>5, <1>6, <1>7, SeqEqual

\* The head of a queue can be taken in hand: the whole stays the same.
LEMMA MoveHead ==
  ASSUME NEW S, NEW p \in Seq(S), NEW q \in Seq(S), q # <<>>
  PROVE  (p \o <<Head(q)>>) \o Tail(q) = (p \o <<>>) \o q
<1> DEFINE h == <<Head(q)>>
           t == Tail(q)
<1>1. /\ Head(q) \in S /\ t \in Seq(S) /\ Len(t) = Len(q) - 1
      /\ \A i \in 1 .. Len(t) : t[i] = q[i + 1]
  BY HeadTailProperties
<1>2. Len(q) \in Nat \ {0} /\ Head(q) = q[1]
  BY EmptySeq
<1>3. h \in Seq(S) /\ Len(h) = 1 /\ h[1] = q[1]
  BY <1>1, <1>2
<1>4. h \in Seq(S) /\ t \in Seq(S)
  BY <1>1, <1>3
<1> HIDE DEF h, t
<1>5. /\ h \o t \in Seq(S) /\ Len(h \o t) = Len(h) + Len(t)
      /\ \A i \in 1 .. Len(h) + Len(t) :
           (h \o t)[i] = IF i <= Len(h) THEN h[i] ELSE t[i - Len(h)]
  BY <1>4, ConcatProperties
<1>6. Len(h \o t) = Len(q)
  BY <1>1, <1>2, <1>3, <1>5
<1>7. ASSUME NEW i \in 1 .. Len(q)
      PROVE  (h \o t)[i] = q[i]
  <2>1. CASE i = 1
    BY <1>1, <1>2, <1>3, <1>5, <2>1
  <2>2. CASE i # 1
    <3>1. i - 1 \in 1 .. Len(t) /\ ~ (i <= 1) /\ (i - 1) + 1 = i
      BY <1>1, <1>2, <2>2
    <3> QED
      BY <1>1, <1>2, <1>3, <1>5, <3>1
  <2> QED
    BY <2>1, <2>2
<1>8. h \o t = q
  BY <1>5, <1>6, <1>7, SeqEqual
<1>9. (p \o h) \o t = p \o (h \o t)
  BY <1>4, Regroup, SMTT(40)
<1>10. p \o <<>> = p
  BY ConcatEmptySeq
<1> QED
  BY <1>8, <1>9, <1>10 DEF h, t

\* So can what is in hand be put at the end of what was gathered.
LEMMA MoveHand ==
  ASSUME NEW S, NEW p \in Seq(S), NEW q \in Seq(S), NEW e \in S
  PROVE  (p \o Append(q, e)) \o <<>> = (p \o q) \o <<e>>
<1>1. p \o q \in Seq(S) /\ Append(q, e) \in Seq(S)
  BY ConcatProperties, AppendProperties
<1>2. p \o Append(q, e) \in Seq(S)
  BY <1>1, ConcatProperties
<1> DEFINE w == p \o Append(q, e)
           v == p \o q
<1>3. w = Append(v, e)
  BY AppendToWhole
<1>4. w \in Seq(S) /\ v \in Seq(S)
  BY <1>1, <1>2
<1> HIDE DEF w, v
<1>5. w \o <<>> = w
  BY <1>4, ConcatEmptySeq
<1>6. Append(v, e) = v \o <<e>>
  BY <1>4, AppendIsConcat
<1> QED
  BY <1>3, <1>5, <1>6 DEF w, v

-----------------------------------------------------------------------------
(* Every step keeps the order                                              *)

\* A step that leaves out part of what is on its way keeps the order.
LEMMA DropsInOrder ==
  ASSUME NEW s \in Stream, DataType, DataType', Selects(Pipeline(s), log), UNCHANGED log,
         Selects(sent'[s], sent[s]), Selects(gathered'[s], gathered[s]),
         Selects(InHand(s)', InHand(s)), Selects(queue'[s], queue[s])
  PROVE  Selects(Pipeline(s)', log')
<1>1. /\ sent[s] \in Seq(Event) /\ gathered[s] \in Seq(Event) /\ queue[s] \in Seq(Event)
      /\ InHand(s) \in Seq(Event)
  BY PipelineType
<1>2. /\ sent'[s] \in Seq(Event) /\ gathered'[s] \in Seq(Event) /\ queue'[s] \in Seq(Event)
  BY DEF DataType
<1>3. InHand(s)' \in Seq(Event)
  <2>1. CASE hand'[s] = None
    BY <2>1, EmptySeq DEF InHand
  <2>2. CASE hand'[s] # None
    <3>1. hand'[s] \in Event
      BY <2>2 DEF DataType
    <3> QED
      BY <2>2, <3>1 DEF InHand
  <2> QED
    BY <2>1, <2>2
<1> DEFINE c == InHand(s)
           d == InHand(s)'
<1>4. Selects(sent'[s] \o gathered'[s] \o d \o queue'[s],
              sent[s] \o gathered[s] \o c \o queue[s])
  <2>1. c \in Seq(Event) /\ d \in Seq(Event) /\ Selects(d, c)
    BY <1>1, <1>3
  <2> HIDE DEF c, d
  <2> QED
    BY <1>1, <1>2, <2>1, PartsSelect
<1>5. Selects(Pipeline(s)', Pipeline(s))
  BY <1>4 DEF Pipeline
<1> QED
  BY <1>5, PipelineShrinks

\* The subscriber takes an event in hand, or loses its queue.
LEMMA SubscriberInOrder ==
  ASSUME LogType, DataType, DataType', InOrder, NEW s \in Stream, UNCHANGED log,
         Deliver(s) \/ LoseSubscription(s)
  PROVE  InOrder'
<1> SUFFICES ASSUME NEW t \in Stream
             PROVE  Selects(Pipeline(t)', log')
  BY DEF InOrder
<1>0. Selects(Pipeline(t), log)
  BY DEF InOrder
<1>1. UNCHANGED <<gathered, sent>>
  BY DEF Deliver, LoseSubscription
<1>2. CASE t # s
  <2>1. queue'[t] = queue[t] /\ hand'[t] = hand[t]
    BY <1>2 DEF Deliver, LoseSubscription, DataType
  <2> QED
    BY <1>0, <1>1, <2>1, PipelineFrame
<1>3. CASE t = s /\ Deliver(s)
  <2> DEFINE front == sent[s] \o gathered[s]
  <2>1. front \in Seq(Event) /\ queue[s] \in Seq(Event) /\ queue[s] # <<>> /\ hand[s] = None
    BY <1>3, ConcatProperties DEF DataType, Deliver
  <2>2. hand'[s] = Head(queue[s]) /\ queue'[s] = Tail(queue[s]) /\ Head(queue[s]) # None
    BY <1>3, <2>1, HeadTailProperties, StreamAssumption DEF Deliver, DataType
  <2>3. Pipeline(s) = (front \o <<>>) \o queue[s]
    BY <2>1 DEF Pipeline, InHand
  <2>4. Pipeline(s)' = (front \o <<Head(queue[s])>>) \o Tail(queue[s])
    BY <1>1, <2>2 DEF Pipeline, InHand
  <2> HIDE DEF front
  <2>5. Pipeline(s)' = Pipeline(s)
    BY <2>1, <2>3, <2>4, MoveHead
  <2> QED
    BY <1>0, <1>3, <2>5
<1>4. CASE t = s /\ LoseSubscription(s)
  <2>1. queue'[s] = <<>> /\ hand'[s] = hand[s] /\ InHand(s)' = InHand(s)
    BY <1>4 DEF LoseSubscription, DataType, InHand
  <2>2. /\ sent[s] \in Seq(Event) /\ gathered[s] \in Seq(Event) /\ queue[s] \in Seq(Event)
        /\ InHand(s) \in Seq(Event)
    BY PipelineType
  <2>3. /\ Selects(sent'[s], sent[s]) /\ Selects(gathered'[s], gathered[s])
        /\ Selects(InHand(s)', InHand(s)) /\ Selects(queue'[s], queue[s])
    BY <1>1, <2>1, <2>2, SelectsItself, SelectsNothing
  <2> QED
    BY <1>0, <1>4, <2>3, DropsInOrder
<1> QED
  BY <1>2, <1>3, <1>4

\* What was gathered is sent, or not.
LEMMA SentStep ==
  ASSUME DataType, NEW s \in Stream, Send(s) \/ SendFails(s)
  PROVE  sent'[s] = sent[s] \o gathered[s] \/ sent'[s] = sent[s]
<1>1. CASE Send(s)
  <2>1. sent' = [sent EXCEPT ![s] = IF client[s] THEN sent[s] \o gathered[s] ELSE sent[s]]
    BY <1>1 DEF Send
  <2>2. sent'[s] = IF client[s] THEN sent[s] \o gathered[s] ELSE sent[s]
    BY <2>1 DEF DataType
  <2> QED
    BY <2>2
<1> QED
  BY <1>1 DEF SendFails

\* The handler gathers what it wants of what is in the subscriber's hand, ...
LEMMA GatherInOrder ==
  ASSUME LogType, DataType, DataType', InOrder, NEW s \in Stream, Gather(s)
  PROVE  InOrder'
<1> SUFFICES ASSUME NEW t \in Stream
             PROVE  Selects(Pipeline(t)', log')
  BY DEF InOrder
<1>0. Selects(Pipeline(t), log)
  BY DEF InOrder
<1>1. UNCHANGED <<log, queue, sent>>
  BY DEF Gather
<1>2. CASE t # s
  <2>1. gathered'[t] = gathered[t] /\ hand'[t] = hand[t]
    BY <1>2 DEF Gather, DataType
  <2> QED
    BY <1>0, <1>1, <2>1, PipelineFrame
<1>3. hand[s] # None /\ hand'[s] = None /\ hand[s] \in Event
  BY DEF Gather, DataType
<1>4. CASE t = s /\ gathered'[s] = Append(gathered[s], hand[s])
  <2> DEFINE e == hand[s]
  <2>1. /\ sent[s] \in Seq(Event) /\ gathered[s] \in Seq(Event) /\ queue[s] \in Seq(Event)
        /\ e \in Event
    BY <1>3 DEF DataType
  <2>2. Pipeline(s) = ((sent[s] \o gathered[s]) \o <<e>>) \o queue[s]
    BY <1>3 DEF Pipeline, InHand
  <2>3. Pipeline(s)' = ((sent[s] \o Append(gathered[s], e)) \o <<>>) \o queue[s]
    BY <1>1, <1>3, <1>4 DEF Pipeline, InHand
  <2> HIDE DEF e
  <2>4. (sent[s] \o Append(gathered[s], e)) \o <<>> = (sent[s] \o gathered[s]) \o <<e>>
    <3> DEFINE a == sent[s]
               b == gathered[s]
    <3>1. a \in Seq(Event) /\ b \in Seq(Event) /\ e \in Event
      BY <2>1
    <3> HIDE DEF a, b
    <3>2. (a \o Append(b, e)) \o <<>> = (a \o b) \o <<e>>
      BY <3>1, MoveHand, SMT
    <3> QED
      BY <3>2 DEF a, b
  <2> QED
    BY <1>0, <1>1, <1>4, <2>2, <2>3, <2>4
<1>5. CASE t = s /\ gathered'[s] = gathered[s]
  <2>1. InHand(s)' = <<>>
    BY <1>3 DEF InHand
  <2>2. /\ sent[s] \in Seq(Event) /\ gathered[s] \in Seq(Event) /\ queue[s] \in Seq(Event)
        /\ InHand(s) \in Seq(Event)
    BY PipelineType
  <2>3. /\ Selects(sent'[s], sent[s]) /\ Selects(gathered'[s], gathered[s])
        /\ Selects(InHand(s)', InHand(s)) /\ Selects(queue'[s], queue[s])
    BY <1>1, <1>5, <2>1, <2>2, SelectsItself, SelectsNothing
  <2> QED
    BY <1>0, <1>1, <1>5, <2>3, DropsInOrder
<1> QED
  BY <1>2, <1>4, <1>5 DEF Gather, DataType

\* ... sends the client what it gathered, or drops it when the client has left ...
LEMMA SendInOrder ==
  ASSUME LogType, DataType, DataType', InOrder, NEW s \in Stream, Send(s) \/ SendFails(s)
  PROVE  InOrder'
<1> SUFFICES ASSUME NEW t \in Stream
             PROVE  Selects(Pipeline(t)', log')
  BY DEF InOrder
<1>0. Selects(Pipeline(t), log)
  BY DEF InOrder
<1>1. UNCHANGED <<log, queue, hand>>
  BY DEF Send, SendFails
<1>2. CASE t # s
  <2>1. gathered'[t] = gathered[t] /\ sent'[t] = sent[t]
    BY <1>2 DEF Send, SendFails, DataType
  <2> QED
    BY <1>0, <1>1, <2>1, PipelineFrame
<1>3. gathered'[s] = <<>> /\ InHand(s)' = InHand(s)
  BY <1>1 DEF Send, SendFails, DataType, InHand
<1>4. /\ sent[s] \in Seq(Event) /\ gathered[s] \in Seq(Event) /\ queue[s] \in Seq(Event)
      /\ InHand(s) \in Seq(Event)
  BY PipelineType
<1>5. CASE t = s /\ sent'[s] = sent[s] \o gathered[s]
  <2> DEFINE front == sent[s] \o gathered[s]
  <2>1. front \in Seq(Event)
    BY <1>4, ConcatProperties
  <2>2. Pipeline(s) = (front \o InHand(s)) \o queue[s]
    BY DEF Pipeline
  <2>3. Pipeline(s)' = ((front \o <<>>) \o InHand(s)) \o queue[s]
    BY <1>1, <1>3, <1>5 DEF Pipeline
  <2> HIDE DEF front
  <2>4. front \o <<>> = front
    BY <2>1, ConcatEmptySeq
  <2> QED
    BY <1>0, <1>1, <1>5, <2>2, <2>3, <2>4
<1>6. CASE t = s /\ sent'[s] = sent[s]
  <2>1. /\ Selects(sent'[s], sent[s]) /\ Selects(gathered'[s], gathered[s])
        /\ Selects(InHand(s)', InHand(s)) /\ Selects(queue'[s], queue[s])
    BY <1>1, <1>3, <1>4, <1>6, SelectsItself, SelectsNothing
  <2> QED
    BY <1>0, <1>1, <1>6, <2>1, DropsInOrder
<1>7. sent'[s] = sent[s] \o gathered[s] \/ sent'[s] = sent[s]
  BY SentStep
<1> QED
  BY <1>2, <1>5, <1>6, <1>7

\* ... and the end of its subscription, or of all, drops what is queued.
LEMMA EndInOrder ==
  ASSUME LogType, DataType, DataType', InOrder,
         (\E s \in Stream : Unsubscribe(s)) \/ destroyBroker
  PROVE  InOrder'
<1> SUFFICES ASSUME NEW t \in Stream
             PROVE  Selects(Pipeline(t)', log')
  BY DEF InOrder
<1>0. Selects(Pipeline(t), log)
  BY DEF InOrder
<1>1. UNCHANGED <<log, hand, gathered, sent>>
  BY DEF Unsubscribe, destroyBroker
<1>2. queue'[t] = queue[t] \/ queue'[t] = <<>>
  BY DEF Unsubscribe, destroyBroker, DataType
<1>3. /\ sent[t] \in Seq(Event) /\ gathered[t] \in Seq(Event) /\ queue[t] \in Seq(Event)
      /\ InHand(t) \in Seq(Event) /\ InHand(t)' = InHand(t)
  BY <1>1, PipelineType DEF InHand
<1>4. /\ Selects(sent'[t], sent[t]) /\ Selects(gathered'[t], gathered[t])
      /\ Selects(InHand(t)', InHand(t)) /\ Selects(queue'[t], queue[t])
  BY <1>1, <1>2, <1>3, SelectsItself, SelectsNothing
<1> QED
  BY <1>0, <1>1, <1>4, DropsInOrder

\* All steps together
LEMMA InOrderStep ==
  ASSUME LogType, DataType, DataType', InOrder, StreamStep
  PROVE  InOrder'
<1>1. ASSUME UNCHANGED log, UNCHANGED dataVars
      PROVE  InOrder'
  <2> SUFFICES ASSUME NEW s \in Stream
               PROVE  Selects(Pipeline(s)', log')
    BY DEF InOrder
  <2>1. Selects(Pipeline(s), log)
    BY DEF InOrder
  <2> QED
    BY <1>1, <2>1, PipelineFrame DEF dataVars
<1>2. ASSUME NEW s \in Stream, Subscriber(s) \/ LoseSubscription(s)
      PROVE  InOrder'
  <2>1. CASE Deliver(s) \/ LoseSubscription(s)
    BY <2>1, SubscriberInOrder DEF Deliver, LoseSubscription
  <2> QED
    BY <1>1, <1>2, <2>1 DEF Subscriber, CheckMayRun, Consume, SendPanics, dataVars
<1>3. ASSUME NEW s \in Stream, Handler(s)
      PROVE  InOrder'
  BY <1>1, <1>3, GatherInOrder, SendInOrder, EndInOrder
     DEF Handler, OnTick, CloseLookup, dataVars
<1> QED
  BY <1>1, <1>2, <1>3, PublishInOrder, EndInOrder
     DEF StreamStep, CreateEvent, PublishFails, GetEventsStream, Tick, ClientLeaves, RunReturns,
         streamVars, dataVars

-----------------------------------------------------------------------------
(* Every step keeps to the tenant and the request of a stream              *)

\* The topic of a stream never changes.
LEMMA TopicStep == StreamStep => UNCHANGED topic
  BY DEF StreamStep, CreateEvent, PublishEvent, PublishFails, GetEventsStream, Subscriber,
       CheckMayRun, Consume, Deliver, SendPanics, Handler, Gather, OnTick, Send, SendFails,
       Unsubscribe, CloseLookup, Tick, ClientLeaves, LoseSubscription, RunReturns,
       destroyBroker, streamVars

\* The parts of OwnOnly for one stream
OwnAt(s) ==
  /\ sent[s] \in Seq(Own(s)) /\ gathered[s] \in Seq(Own(s)) /\ queue[s] \in Seq(Own(s))
  /\ hand[s] # None => hand[s] \in Own(s)

\* A stream that a step does not touch
LEMMA OwnFrame ==
  ASSUME NEW s \in Stream, OwnAt(s), UNCHANGED topic,
         queue'[s] = queue[s], hand'[s] = hand[s], gathered'[s] = gathered[s],
         sent'[s] = sent[s]
  PROVE  OwnAt(s)'
  BY DEF OwnAt, Own

\* Only what is published on the topic of a stream gets into its queue, and
\* from there into the subscriber's hand, to the handler and to the client.
LEMMA OwnOnlyStep ==
  ASSUME LogType, DataType, OwnOnly, StreamStep
  PROVE  OwnOnly'
<1> SUFFICES ASSUME NEW t \in Stream, OwnAt(t), UNCHANGED topic
             PROVE  OwnAt(t)'
  BY TopicStep DEF OwnOnly, OwnAt
<1>0. Own(t)' = Own(t) /\ <<>> \in Seq(Own(t))
  BY EmptySeq DEF Own
<1>1. ASSUME UNCHANGED dataVars
      PROVE  OwnAt(t)'
  BY <1>1, OwnFrame DEF dataVars
<1>2. ASSUME NEW e \in unpublished, PublishEvent(e)
      PROVE  OwnAt(t)'
  <2>1. CASE sub[t] = "consuming" /\ topic[t] = e.tenant
    <3>1. e \in Own(t)
      BY <2>1 DEF LogType, Own
    <3>2. Append(queue[t], e) \in Seq(Own(t))
      BY <3>1, AppendProperties DEF OwnAt
    <3>3. queue'[t] = Append(queue[t], e) /\ UNCHANGED <<hand, gathered, sent>>
      BY <1>2, <2>1 DEF PublishEvent
    <3> QED
      BY <1>0, <3>2, <3>3 DEF OwnAt
  <2>2. CASE ~ (sub[t] = "consuming" /\ topic[t] = e.tenant)
    <3>1. queue'[t] = queue[t] /\ UNCHANGED <<hand, gathered, sent>>
      BY <1>2, <2>2 DEF PublishEvent
    <3> QED
      BY <3>1, OwnFrame
  <2> QED
    BY <2>1, <2>2
<1>3. ASSUME NEW s \in Stream, Subscriber(s) \/ LoseSubscription(s)
      PROVE  OwnAt(t)'
  <2>1. CASE Deliver(s) /\ t = s
    <3>1. Head(queue[s]) \in Own(s) /\ Tail(queue[s]) \in Seq(Own(s))
      BY <2>1, HeadTailProperties DEF Deliver, OwnAt
    <3>2. hand'[s] = Head(queue[s]) /\ queue'[s] = Tail(queue[s]) /\ UNCHANGED <<gathered, sent>>
      BY <2>1 DEF Deliver, DataType
    <3> QED
      BY <1>0, <2>1, <3>1, <3>2 DEF OwnAt
  <2>2. CASE LoseSubscription(s) /\ t = s
    <3>1. queue'[s] = <<>> /\ UNCHANGED <<hand, gathered, sent>>
      BY <2>2 DEF LoseSubscription, DataType
    <3> QED
      BY <1>0, <2>2, <3>1 DEF OwnAt
  <2>3. CASE (Deliver(s) \/ LoseSubscription(s)) /\ t # s
    <3>1. /\ queue'[t] = queue[t] /\ hand'[t] = hand[t] /\ UNCHANGED <<gathered, sent>>
      BY <2>3 DEF Deliver, LoseSubscription, DataType
    <3> QED
      BY <3>1, OwnFrame
  <2> QED
    BY <1>1, <1>3, <2>1, <2>2, <2>3 DEF Subscriber, CheckMayRun, Consume, SendPanics, dataVars
<1>4. ASSUME NEW s \in Stream, Gather(s)
      PROVE  OwnAt(t)'
  <2>1. CASE t = s
    <3>1. hand[s] \in Own(s) /\ Append(gathered[s], hand[s]) \in Seq(Own(s))
      BY <1>4, <2>1, AppendProperties DEF Gather, OwnAt
    <3>2. /\ gathered'[s] = Append(gathered[s], hand[s]) \/ gathered'[s] = gathered[s]
          /\ hand'[s] = None /\ UNCHANGED <<queue, sent>>
      BY <1>4 DEF Gather, DataType
    <3> QED
      BY <1>0, <2>1, <3>1, <3>2 DEF OwnAt
  <2>2. CASE t # s
    <3>1. gathered'[t] = gathered[t] /\ hand'[t] = hand[t] /\ UNCHANGED <<queue, sent>>
      BY <1>4, <2>2 DEF Gather, DataType
    <3> QED
      BY <3>1, OwnFrame
  <2> QED
    BY <2>1, <2>2
<1>5. ASSUME NEW s \in Stream, Send(s) \/ SendFails(s)
      PROVE  OwnAt(t)'
  <2>1. CASE t = s
    <3>1. sent[s] \o gathered[s] \in Seq(Own(s))
      BY <2>1, ConcatProperties DEF OwnAt
    <3>2. sent'[s] = sent[s] \o gathered[s] \/ sent'[s] = sent[s]
      BY <1>5, SentStep
    <3>3. gathered'[s] = <<>> /\ UNCHANGED <<queue, hand>>
      BY <1>5 DEF Send, SendFails, DataType
    <3> QED
      BY <1>0, <2>1, <3>1, <3>2, <3>3 DEF OwnAt
  <2>2. CASE t # s
    <3>1. gathered'[t] = gathered[t] /\ sent'[t] = sent[t] /\ UNCHANGED <<queue, hand>>
      BY <1>5, <2>2 DEF Send, SendFails, DataType
    <3> QED
      BY <3>1, OwnFrame
  <2> QED
    BY <2>1, <2>2
<1>6. CASE (\E s \in Stream : Unsubscribe(s)) \/ destroyBroker
  <2>1. queue'[t] = queue[t] \/ queue'[t] = <<>>
    BY <1>6 DEF Unsubscribe, destroyBroker, DataType
  <2>2. UNCHANGED <<hand, gathered, sent>>
    BY <1>6 DEF Unsubscribe, destroyBroker
  <2> QED
    BY <1>0, <2>1, <2>2 DEF OwnAt
<1> QED
  BY <1>1, <1>2, <1>3, <1>4, <1>5, <1>6
     DEF StreamStep, Handler, OnTick, CloseLookup, CreateEvent, PublishFails, GetEventsStream,
         Tick, ClientLeaves, RunReturns, streamVars, dataVars

\* The handler gathers only what the request asks for.
LEMMA WantedOnlyStep ==
  ASSUME DataType, WantedOnly, StreamStep
  PROVE  WantedOnly'
<1> SUFFICES ASSUME NEW t \in Stream
             PROVE  sent'[t] \in Seq(Wanted(t)) /\ gathered'[t] \in Seq(Wanted(t))
  BY DEF WantedOnly, Wanted
<1>0. sent[t] \in Seq(Wanted(t)) /\ gathered[t] \in Seq(Wanted(t)) /\ <<>> \in Seq(Wanted(t))
  BY EmptySeq DEF WantedOnly
<1>1. ASSUME NEW s \in Stream, Gather(s)
      PROVE  sent'[t] \in Seq(Wanted(t)) /\ gathered'[t] \in Seq(Wanted(t))
  <2>1. CASE t = s /\ Matches(hand[s].code, Asked[s])
    <3>1. hand[s] \in Wanted(s)
      BY <1>1, <2>1 DEF Gather, DataType, Wanted
    <3>2. Append(gathered[s], hand[s]) \in Seq(Wanted(s))
      BY <1>0, <2>1, <3>1, AppendProperties
    <3> QED
      BY <1>0, <1>1, <2>1, <3>2 DEF Gather, DataType
  <2> QED
    BY <1>0, <1>1, <2>1 DEF Gather, DataType
<1>2. ASSUME NEW s \in Stream, Send(s) \/ SendFails(s)
      PROVE  sent'[t] \in Seq(Wanted(t)) /\ gathered'[t] \in Seq(Wanted(t))
  <2>1. CASE t = s
    <3>1. sent[s] \o gathered[s] \in Seq(Wanted(s))
      BY <1>0, <2>1, ConcatProperties
    <3>2. sent'[s] = sent[s] \o gathered[s] \/ sent'[s] = sent[s]
      BY <1>2, SentStep
    <3>3. gathered'[s] = <<>>
      BY <1>2 DEF Send, SendFails, DataType
    <3> QED
      BY <1>0, <2>1, <3>1, <3>2, <3>3
  <2>2. CASE t # s
    BY <1>0, <1>2, <2>2 DEF Send, SendFails, DataType
  <2> QED
    BY <2>1, <2>2
<1> QED
  BY <1>0, <1>1, <1>2
     DEF StreamStep, Subscriber, CheckMayRun, Consume, Deliver, SendPanics, LoseSubscription,
         Handler, OnTick, Unsubscribe, CloseLookup, CreateEvent, PublishEvent, PublishFails,
         GetEventsStream, Tick, ClientLeaves, RunReturns, destroyBroker, streamVars

-----------------------------------------------------------------------------
(* Main                                                                    *)

MainState ==
  Part \cup
    {"defaults", "load", "subscribe", "notifier", "cleaner", "register", "run", "stopCleaner",
     "unsubscribeNotifier", "unsubscribeIntake", "destroyLogger", "destroyDatabase",
     "destroyStore", "destroySync", "destroyBroker", "wgWait", "exited"}

\* The parts of the framework that main finds up
UpBefore ==
  /\ mpc \in {"defaults", "broker"} => up = {}
  /\ mpc = "store" => up = {"broker"}
  /\ mpc = "sync" => up = {"broker", "store"}
  /\ mpc = "database" => up = {"broker", "store", "sync"}
  /\ mpc = "logger" => up = {"broker", "store", "sync", "database"}
  /\ mpc \in {"load", "subscribe"} => up = Part

\* What runs needs what was started before it, at every step of start-up and
\* shutdown.
MainInv ==
  /\ mpc \in MainState
  /\ up \subseteq Part
  /\ intake \in BOOLEAN
  /\ mailer \in BOOLEAN
  /\ cleaner \in BOOLEAN
  /\ (cleaner => mailer) /\ (mailer => intake) /\ (intake => up = Part)
  /\ UpBefore
  /\ mpc = "notifier" => intake
  /\ mpc = "cleaner" => mailer
  /\ mpc = "unsubscribeNotifier" => ~ cleaner
  /\ mpc = "unsubscribeIntake" => ~ mailer
  /\ mpc \in {"destroyLogger", "destroyDatabase", "destroyStore", "destroySync",
              "destroyBroker", "wgWait"} => ~ intake

\* Main starts with nothing up, ...
LEMMA MainInit == Init => MainInv
  BY DEF Init, MainInv, MainState, UpBefore

\* ... and each of its steps keeps this.
LEMMA MainStep == MainInv /\ [Next]_vars => MainInv'
<1> SUFFICES ASSUME MainInv, [Next]_vars
             PROVE  MainInv'
  OBVIOUS
<1>1. CASE initDefaults
  BY <1>1 DEF initDefaults, Goto, MainInv, MainState, UpBefore, Part
<1>2. CASE initBroker
  BY <1>2 DEF initBroker, Bring, Goto, MainInv, MainState, UpBefore, Part
<1>3. CASE initStore
  BY <1>3 DEF initStore, Bring, Goto, MainInv, MainState, UpBefore, Part
<1>4. CASE initSync
  BY <1>4 DEF initSync, Bring, Goto, MainInv, MainState, UpBefore, Part
<1>5. CASE initDatabase
  BY <1>5 DEF initDatabase, Bring, Goto, MainInv, MainState, UpBefore, Part
<1>6. CASE initLogger
  BY <1>6 DEF initLogger, Bring, Goto, MainInv, MainState, UpBefore, Part
<1>7. CASE loadDefaultTenantID
  BY <1>7 DEF loadDefaultTenantID, Goto, MainInv, MainState, UpBefore, Part
<1>8. CASE SubscribeIntake
  BY <1>8 DEF SubscribeIntake, Goto, MainInv, MainState, UpBefore, Part
<1>9. CASE SubscribeNotifier
  BY <1>9 DEF SubscribeNotifier, Goto, MainInv, MainState, UpBefore, Part
<1>10. CASE StartCleaner
  BY <1>10 DEF StartCleaner, Goto, MainInv, MainState, UpBefore, Part
<1>11. CASE RunReturns
  BY <1>11 DEF RunReturns, Goto, MainInv, MainState, UpBefore, Part
<1>12. CASE StopCleaner
  BY <1>12 DEF StopCleaner, Goto, MainInv, MainState, UpBefore, Part
<1>13. CASE UnsubscribeNotifier
  BY <1>13 DEF UnsubscribeNotifier, Goto, MainInv, MainState, UpBefore, Part
<1>14. CASE UnsubscribeIntake
  BY <1>14 DEF UnsubscribeIntake, Goto, MainInv, MainState, UpBefore, Part
<1>15. CASE destroyLogger
  BY <1>15 DEF destroyLogger, Drop, Goto, MainInv, MainState, UpBefore, Part
<1>16. CASE destroyDatabase
  BY <1>16 DEF destroyDatabase, Drop, Goto, MainInv, MainState, UpBefore, Part
<1>17. CASE destroyStore
  BY <1>17 DEF destroyStore, Drop, Goto, MainInv, MainState, UpBefore, Part
<1>18. CASE destroySync
  BY <1>18 DEF destroySync, Drop, Goto, MainInv, MainState, UpBefore, Part
<1>19. CASE destroyBroker
  BY <1>19 DEF destroyBroker, Goto, MainInv, MainState, UpBefore, Part
<1>20. CASE WgWait
  BY <1>20 DEF WgWait, Goto, MainInv, MainState, UpBefore, Part
<1>21. CASE Fatal
  BY <1>21 DEF Fatal, MainInv, MainState, UpBefore, Part
<1>22. CASE RegisterNotificationHandler
  BY <1>22 DEF RegisterNotificationHandler, Goto, MainInv, MainState, UpBefore, Part
<1>23. CASE UNCHANGED mainVars
  BY <1>23 DEF mainVars, MainInv, UpBefore
<1> QED
  BY <1>1, <1>2, <1>3, <1>4, <1>5, <1>6, <1>7, <1>8, <1>9, <1>10, <1>11, <1>12, <1>13, <1>14,
     <1>15, <1>16, <1>17, <1>18, <1>19, <1>20, <1>21, <1>22, <1>23
     DEF Next, Main, Before, Destroy, StoreEvent, PublishStep, OpenStream, SubscriberStep,
         HandlerStep, TickStep, Leave, LoseBroker, vars

\* Faults are counted up to their bound.
LEMMA FaultStep ==
  ASSUME faults \in 0 .. MaxFaults, [Next]_vars
  PROVE  faults' \in 0 .. MaxFaults
<1>1. CASE Fault
  BY <1>1, ServiceAssumption DEF Fault
<1>2. CASE UNCHANGED faults
  BY <1>2
<1> QED
  BY <1>1, <1>2
     DEF Next, Main, Before, initDefaults, initBroker, initStore, initSync, initDatabase,
         initLogger, Bring, loadDefaultTenantID, SubscribeIntake, SubscribeNotifier,
         StartCleaner, RegisterNotificationHandler, RunReturns, StopCleaner, UnsubscribeNotifier, UnsubscribeIntake,
         Destroy, destroyLogger, destroyDatabase, destroyStore, destroySync, Drop,
         destroyBroker, WgWait, Goto, Fatal, StoreEvent, PublishStep, OpenStream,
         SubscriberStep, HandlerStep, TickStep, Leave, LoseBroker, vars

-----------------------------------------------------------------------------
(* Events are published once                                               *)

\* Identifiers are given once, and an event that is published is no longer to
\* be published.
PublishedOnce ==
  /\ \A e \in unpublished : e.id <= lastEvent
  /\ \A i \in DOMAIN log : log[i].id <= lastEvent
  /\ \A e, f \in unpublished : e.id = f.id => e = f
  /\ \A e \in unpublished : \A i \in DOMAIN log : log[i].id # e.id
  /\ \A i, j \in DOMAIN log : log[i].id = log[j].id => i = j

\* Every step keeps this.
LEMMA PublishedOnceStep ==
  ASSUME LogType, PublishedOnce, StreamStep
  PROVE  PublishedOnce'
<1>0. \A e \in Event : e.id \in Int
  BY DEF Event
<1>1. ASSUME NEW t \in Tenant, NEW c \in Code, CreateEvent(t, c)
      PROVE  PublishedOnce'
  <2> DEFINE new == [id |-> lastEvent + 1, tenant |-> t, code |-> c]
  <2>1. new.id = lastEvent + 1
    OBVIOUS
  <2>2. unpublished' = unpublished \cup {new} /\ lastEvent' = lastEvent + 1 /\ log' = log
    BY <1>1 DEF CreateEvent
  <2> HIDE DEF new
  <2>3. /\ lastEvent \in Int
        /\ \A e \in unpublished : e.id \in Int
        /\ \A i \in DOMAIN log : log[i].id \in Int
    <3>1. \A i \in DOMAIN log : log[i] \in Event
      BY LenProperties DEF LogType
    <3> QED
      BY <1>0, <3>1 DEF LogType
  <2>4. /\ \A e \in unpublished : e.id <= lastEvent + 1 /\ e.id # lastEvent + 1
        /\ \A i \in DOMAIN log : log[i].id <= lastEvent + 1 /\ log[i].id # lastEvent + 1
    BY <2>3 DEF PublishedOnce
  <2>5. lastEvent + 1 <= lastEvent + 1
    BY <2>3
  <2> QED
    BY <2>1, <2>2, <2>4, <2>5 DEF PublishedOnce
<1>2. ASSUME NEW e \in unpublished, PublishEvent(e)
      PROVE  PublishedOnce'
  <2>1. /\ log' \in Seq(Event) /\ Len(log') = Len(log) + 1 /\ Len(log) \in Nat
        /\ \A i \in 1 .. Len(log) : log'[i] = log[i]
        /\ log'[Len(log) + 1] = e
        /\ DOMAIN log = 1 .. Len(log) /\ DOMAIN log' = 1 .. Len(log) + 1
    BY <1>2, AppendProperties, LenProperties DEF PublishEvent, LogType
  <2>2. unpublished' = unpublished \ {e} /\ UNCHANGED lastEvent
    BY <1>2 DEF PublishEvent
  <2>3. \A i \in DOMAIN log' : (i \in DOMAIN log /\ log'[i] = log[i])
                               \/ (i = Len(log) + 1 /\ log'[i] = e)
    BY <2>1
  <2> QED
    BY <2>2, <2>3 DEF PublishedOnce
<1>3. ASSUME NEW e \in unpublished, PublishFails(e)
      PROVE  PublishedOnce'
  BY <1>3 DEF PublishFails, PublishedOnce
<1>4. ASSUME UNCHANGED <<lastEvent, unpublished, log>>
      PROVE  PublishedOnce'
  BY <1>4 DEF PublishedOnce
<1>5. ASSUME NEW s \in Stream,
             \/ \E i \in Interval : GetEventsStream(s, i)
             \/ Subscriber(s) \/ Handler(s) \/ Tick(s) \/ ClientLeaves(s) \/ LoseSubscription(s)
      PROVE  PublishedOnce'
  BY <1>4, <1>5 DEF GetEventsStream, Subscriber, CheckMayRun, Consume, Deliver, SendPanics,
       Handler, Gather, OnTick, Send, SendFails, Unsubscribe, CloseLookup, Tick, ClientLeaves,
       LoseSubscription
<1> QED
  BY <1>1, <1>2, <1>3, <1>4, <1>5 DEF StreamStep, RunReturns, destroyBroker, streamVars

-----------------------------------------------------------------------------
(* The inductive invariant                                                 *)

ServiceInv ==
  /\ StreamTypeOK
  /\ MainInv
  /\ faults \in 0 .. MaxFaults
  /\ OwnOnly
  /\ WantedOnly
  /\ InOrder
  /\ PublishedOnce

\* It holds initially, ...
LEMMA ServiceInit == Init => ServiceInv
<1> SUFFICES ASSUME Init
             PROVE  ServiceInv
  OBVIOUS
<1>1. StreamTypeOK /\ MainInv
  BY StreamInitType, MainInit DEF Init
<1>2. faults \in 0 .. MaxFaults
  BY ServiceAssumption DEF Init
<1>3. OwnOnly
  <2> SUFFICES ASSUME NEW s \in Stream
               PROVE  OwnAt(s)
    BY DEF OwnOnly, OwnAt
  <2> QED
    BY EmptySeq DEF Init, StreamInit, OwnAt
<1>4. WantedOnly
  BY EmptySeq DEF Init, StreamInit, WantedOnly
<1>5. InOrder
  <2> SUFFICES ASSUME NEW s \in Stream
               PROVE  Selects(Pipeline(s), log)
    BY DEF InOrder
  <2>1. /\ sent[s] = <<>> /\ gathered[s] = <<>> /\ queue[s] = <<>> /\ InHand(s) = <<>>
        /\ log = <<>>
    BY DEF Init, StreamInit, InHand
  <2>2. Pipeline(s) = <<>>
    BY <2>1 DEF Pipeline
  <2>3. <<>> \in Seq(Event)
    BY EmptySeq
  <2> QED
    BY <2>1, <2>2, <2>3, SelectsNothing
<1>6. PublishedOnce
  <2>1. unpublished = {} /\ log = <<>>
    BY DEF Init, StreamInit
  <2>2. DOMAIN log = {}
    BY <2>1
  <2> QED
    BY <2>1, <2>2 DEF PublishedOnce
<1> QED
  BY <1>1, <1>2, <1>3, <1>4, <1>5, <1>6 DEF ServiceInv

\* ... and every step keeps it.
LEMMA ServiceStep == ServiceInv /\ [Next]_vars => ServiceInv'
<1> SUFFICES ASSUME ServiceInv, [Next]_vars
             PROVE  ServiceInv'
  OBVIOUS
<1>1. StreamStep
  BY StepOfStreams
<1>2. LogType /\ ControlType /\ SignalType /\ DataType
  BY StreamTypeParts DEF ServiceInv
<1>3. StreamTypeOK'
  BY StreamTypeStep DEF ServiceInv
<1>4. DataType'
  BY <1>1, <1>2, DataStep
<1>5. MainInv' /\ faults' \in 0 .. MaxFaults
  BY MainStep, FaultStep DEF ServiceInv
<1>6. OwnOnly' /\ WantedOnly' /\ InOrder'
  BY <1>1, <1>2, <1>4, OwnOnlyStep, WantedOnlyStep, InOrderStep DEF ServiceInv
<1>7. PublishedOnce'
  BY <1>1, <1>2, PublishedOnceStep DEF ServiceInv
<1> QED
  BY <1>3, <1>5, <1>6, <1>7 DEF ServiceInv

\* So it always holds.
LEMMA SpecServiceInv == Spec => []ServiceInv
  BY ServiceInit, ServiceStep, PTL DEF Spec

-----------------------------------------------------------------------------
(* The theorems                                                            *)

\* Every variable of the service and of its streams always has its type, and
\* the mailer only runs with the intake, the cleaner only with the mailer, and
\* all of them only while every part of the framework is up: main stops in
\* the opposite order what it started.
THEOREM TypeCorrect == Spec => []TypeOK
<1>1. ServiceInv => TypeOK
  BY DEF ServiceInv, MainInv, MainState, TypeOK
<1> QED
  BY <1>1, SpecServiceInv, PTL

\* The elements of a sequence over a set are in that set.
LEMMA ElementsIn ==
  ASSUME NEW S, NEW p \in Seq(S), NEW i \in DOMAIN p
  PROVE  p[i] \in S
  BY LenProperties

\* Whatever happens to connections, clients and the process, a stream has only
\* events of its own tenant on their way to its client, gathers and sends only
\* those that its request asks for, and all in the order in which they were
\* published: GetEventsStream loses events, but never reorders, repeats or
\* mixes them up.
THEOREM StreamsFaithful == Spec => []StreamFaithful
<1>1. ASSUME ServiceInv
      PROVE  StreamFaithful
  <2>1. DataType
    BY <1>1, StreamTypeParts DEF ServiceInv
  <2> SUFFICES ASSUME NEW s \in Stream
               PROVE  /\ \A i \in DOMAIN (sent[s] \o gathered[s]) :
                           Matches((sent[s] \o gathered[s])[i].code, Asked[s])
                      /\ \A i \in DOMAIN Pipeline(s) : Pipeline(s)[i].tenant = topic[s]
                      /\ Selects(Pipeline(s), log)
    BY DEF StreamFaithful, Selects
  <2>2. ASSUME NEW i \in DOMAIN (sent[s] \o gathered[s])
        PROVE  Matches((sent[s] \o gathered[s])[i].code, Asked[s])
    <3>1. sent[s] \o gathered[s] \in Seq(Wanted(s))
      BY <1>1, ConcatProperties DEF ServiceInv, WantedOnly
    <3>2. (sent[s] \o gathered[s])[i] \in Wanted(s)
      BY <3>1, ElementsIn
    <3> QED
      BY <3>2 DEF Wanted
  <2>3. ASSUME NEW i \in DOMAIN Pipeline(s)
        PROVE  Pipeline(s)[i].tenant = topic[s]
    <3>1. sent[s] \in Seq(Own(s)) /\ gathered[s] \in Seq(Own(s)) /\ queue[s] \in Seq(Own(s))
          /\ (hand[s] # None => hand[s] \in Own(s))
      BY <1>1 DEF ServiceInv, OwnOnly
    <3>2. InHand(s) \in Seq(Own(s))
      <4>1. CASE hand[s] = None
        BY <4>1, EmptySeq DEF InHand
      <4>2. CASE hand[s] # None
        BY <3>1, <4>2 DEF InHand
      <4> QED
        BY <4>1, <4>2
    <3>3. sent[s] \o gathered[s] \in Seq(Own(s))
      BY <3>1, ConcatProperties
    <3>4. sent[s] \o gathered[s] \o InHand(s) \in Seq(Own(s))
      BY <3>2, <3>3, ConcatProperties
    <3>5. Pipeline(s) \in Seq(Own(s))
      BY <3>1, <3>4, ConcatProperties DEF Pipeline
    <3>6. Pipeline(s)[i] \in Own(s)
      BY <3>5, ElementsIn
    <3> QED
      BY <3>6 DEF Own
  <2> QED
    BY <1>1, <2>2, <2>3 DEF ServiceInv, InOrder
<1> QED
  BY <1>1, SpecServiceInv, PTL

\* No event is sent to a client twice
SentOnce ==
  \A s \in Stream : \A i, j \in DOMAIN sent[s] :
    sent[s][i].id = sent[s][j].id => i = j

\* A client is sent no event twice, however often the stream subscribes again:
\* an event has an identifier of its own and is published at most once.
THEOREM NothingSentTwice == Spec => []SentOnce
<1>1. ASSUME ServiceInv
      PROVE  SentOnce
  <2> SUFFICES ASSUME NEW s \in Stream, NEW i \in DOMAIN sent[s], NEW j \in DOMAIN sent[s],
                      sent[s][i].id = sent[s][j].id
               PROVE  i = j
    BY DEF SentOnce
  <2>1. DataType
    BY <1>1, StreamTypeParts DEF ServiceInv
  <2>2. /\ sent[s] \in Seq(Event) /\ gathered[s] \in Seq(Event) /\ queue[s] \in Seq(Event)
        /\ InHand(s) \in Seq(Event)
    BY <2>1, PipelineType
  <2>3. Selects(sent[s], Pipeline(s))
    <3> DEFINE a == sent[s]
               b == gathered[s]
               c == InHand(s)
               d == queue[s]
    <3>1. Selects(a, a \o b) /\ a \o b \in Seq(Event)
      BY <2>2, SelectsShorter, ConcatProperties
    <3>2. Selects(a \o b, a \o b \o c) /\ a \o b \o c \in Seq(Event)
      BY <2>2, <3>1, SelectsShorter, ConcatProperties
    <3>3. Selects(a \o b \o c, a \o b \o c \o d)
      BY <2>2, <3>2, SelectsShorter
    <3>4. Selects(a, a \o b \o c \o d)
      BY <3>1, <3>2, <3>3, SelectsTransitive
    <3> QED
      BY <3>4 DEF Pipeline
  <2>4. Selects(sent[s], log)
    BY <1>1, <2>3, SelectsTransitive DEF ServiceInv, InOrder
  <2>5. PICK f \in [DOMAIN sent[s] -> DOMAIN log] :
          /\ \A k \in DOMAIN f : sent[s][k] = log[f[k]]
          /\ \A k, l \in DOMAIN f : k < l => f[k] < f[l]
    BY <2>4 DEF Selects
  <2>6. f[i] = f[j] /\ f[i] \in DOMAIN log
    BY <1>1, <2>5 DEF ServiceInv, PublishedOnce
  <2>7. i \in Nat /\ j \in Nat /\ f[i] \in Nat
    BY <1>1, <2>2, <2>6, LenProperties DEF ServiceInv, StreamTypeOK
  <2> QED
    BY <2>5, <2>6, <2>7
<1> QED
  BY <1>1, SpecServiceInv, PTL

=============================================================================
