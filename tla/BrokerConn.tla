------------------------------ MODULE BrokerConn ------------------------------
(***************************************************************************)
(* The RabbitMQ broker client (common/broker): one connection that         *)
(* rabbitMQConn keeps, the goroutine that reconnects it, the subscribers'  *)
(* resubscribe goroutines, and the service that calls Connect, Disconnect, *)
(* subscribe and Unsubscribe.                                              *)
(*                                                                         *)
(* Connections (amqp.Connection) are numbered as they are dialled; 0 is    *)
(* nil. A dial that fails leaves r.Connection nil. A channel belongs to    *)
(* one connection, and a subscriber opens at most one on each, so the      *)
(* number of the connection names the channel too. A call on a connection  *)
(* fails exactly when the connection is gone. An attempt that changes      *)
(* nothing (a sleep, a failed discovery) is a stuttering step. Touching a  *)
(* nil connection, or closing a channel twice, panics: the process ends.   *)
(*                                                                         *)
(* Channels r.close and r.waitConnection are made anew now and then, while *)
(* a goroutine may still select on the one before. What it then does, it   *)
(* could also have done, with the same result, just before they were made  *)
(* anew; so one flag for each is enough.                                   *)
(***************************************************************************)
EXTENDS Naturals

CONSTANTS
  App,         \* the goroutine that calls Connect and Disconnect
  Loop,        \* reconnect goroutines, one for each successful Connect
  Sub,         \* subscribers
  Free,        \* rbroker.mtx is not held
  HasQueues,   \* there are persistent queues to declare (r.qNames)
  MaxFaults    \* bound on the outages and lost connections

ASSUME BrokerAssumption ==
  /\ App \notin Loop
  /\ Free \notin Sub
  /\ HasQueues \in BOOLEAN
  /\ MaxFaults \in Nat

VARIABLES
  up,         \* the RabbitMQ server answers
  faults,     \* number of outages and lost connections so far
  cur,        \* r.Connection
  alive,      \* the connections that are open
  last,       \* number of connections dialled
  connected,  \* r.connected
  closed,     \* channel r.close is closed
  waiting,    \* channel r.waitConnection is not closed
  hasConn,    \* rbroker.conn is not nil
  pc,         \* pc[p]: what App or a reconnect goroutine does next
  watch,      \* watch[g]: the connection whose NotifyClose g waits for
  mtx,        \* the subscriber that holds rbroker.mtx, or Free
  spc,        \* spc[s]: what the resubscribe goroutine of s does next
  mayRun,     \* mayRun[s]
  local,      \* local[s]: the channel resubscribe reads deliveries from
  ch,         \* ch[s]: s.ch, 0 for nil
  cut,        \* cut[s]: the channel that Unsubscribe has closed
  overlap     \* history: overlap[s]: s was resubscribing when Unsubscribe was called

Process == Loop \cup {App}

server == <<up, faults>>
link == <<cur, alive, last>>
flags == <<connected, closed, waiting, hasConn>>
subs == <<mtx, spc, mayRun, local, ch, cut, overlap>>
vars == <<server, link, flags, pc, watch, subs>>

Init ==
  /\ up = TRUE
  /\ faults = 0
  /\ cur = 0
  /\ alive = {}
  /\ last = 0
  /\ connected = FALSE
  /\ closed = FALSE
  /\ waiting = FALSE
  /\ hasConn = FALSE
  /\ pc = [p \in Process |-> IF p = App THEN "idle" ELSE "none"]
  /\ watch = [g \in Loop |-> 0]
  /\ mtx = Free
  /\ spc = [s \in Sub |-> "none"]
  /\ mayRun = [s \in Sub |-> FALSE]
  /\ local = [s \in Sub |-> 0]
  /\ ch = [s \in Sub |-> 0]
  /\ cut = [s \in Sub |-> 0]
  /\ overlap = [s \in Sub |-> FALSE]

-----------------------------------------------------------------------------
(* The environment                                                         *)

\* The server stops; all connections are lost.
Outage ==
  /\ up
  /\ faults < MaxFaults
  /\ up' = FALSE
  /\ faults' = faults + 1
  /\ alive' = {}
  /\ UNCHANGED <<cur, last, flags, pc, watch, subs>>

Recover ==
  /\ ~ up
  /\ up' = TRUE
  /\ UNCHANGED <<faults, link, flags, pc, watch, subs>>

\* One connection is lost.
Lose(c) ==
  /\ faults < MaxFaults
  /\ faults' = faults + 1
  /\ alive' = alive \ {c}
  /\ UNCHANGED <<up, cur, last, flags, pc, watch, subs>>

-----------------------------------------------------------------------------
Goto(p, step) == pc' = [pc EXCEPT ![p] = step]

SGoto(s, step) == spc' = [spc EXCEPT ![s] = step]

Panic ==
  /\ pc' = [p \in Process |-> "dead"]
  /\ spc' = [s \in Sub |-> "dead"]
  /\ mtx' = Free
  /\ alive' = {}

\* rabbitMQConn.Close with a connection, or when it was called before
Close ==
  /\ closed \/ cur # 0
  /\ closed' = TRUE
  /\ connected' = (closed /\ connected)
  /\ alive' = IF closed THEN alive ELSE alive \ {cur}

-----------------------------------------------------------------------------
(* tryConnect, called by App in Connect and by the reconnect goroutines    *)

\* Where an error of tryConnect leads to: out of Connect, or once more round.
OnError(p) == IF p = App THEN "idle" ELSE "dial"

Dial(p) ==
  /\ pc[p] = "dial"
  /\ \/ /\ up
        /\ last' = last + 1
        /\ cur' = last + 1
        /\ alive' = alive \cup {last + 1}
        /\ Goto(p, "setup")
     \/ /\ ~ up
        /\ cur' = 0
        /\ Goto(p, OnError(p))
        /\ UNCHANGED <<last, alive>>
  /\ UNCHANGED <<server, flags, watch, subs>>

\* The channel, the exchange and the exchange channel, or else r.Close()
Setup(p) ==
  /\ pc[p] = "setup"
  /\ \/ /\ cur \in alive
        /\ Goto(p, IF HasQueues THEN "queues" ELSE "established")
        /\ UNCHANGED <<alive, closed, connected>>
     \/ /\ cur # 0 /\ cur \notin alive
        /\ Close
        /\ Goto(p, OnError(p))
  /\ UNCHANGED <<server, cur, last, waiting, hasConn, watch, subs>>

\* Setup through a connection that another goroutine has set to nil
SetupPanics(p) ==
  /\ pc[p] \in {"setup", "queues"}
  /\ cur = 0
  /\ Panic
  /\ UNCHANGED <<server, cur, last, flags, watch, mayRun, local, ch, cut, overlap>>

\* declarePersistentQueue, repeated until it succeeds
DeclareQueues(p) ==
  /\ pc[p] = "queues"
  /\ cur \in alive
  /\ Goto(p, "established")
  /\ UNCHANGED <<server, link, flags, watch, subs>>

-----------------------------------------------------------------------------
(* Connect, reconnect, Disconnect                                          *)

\* rbroker.Connect with rabbitMQConn.Connect: a connection object that is new or
\* was closed gets a channel close that is not.
Connect ==
  /\ pc[App] \in {"idle", "disconnected"}
  /\ ~ connected
  /\ \E g \in Loop : pc[g] = "none"
  /\ closed' = FALSE
  /\ Goto(App, "dial")
  /\ UNCHANGED <<server, link, connected, waiting, hasConn, watch, subs>>

\* connect, after tryConnect: go r.reconnect
Connected(g) ==
  /\ pc[App] = "established"
  /\ pc[g] = "none"
  /\ connected' = TRUE
  /\ hasConn' = TRUE
  /\ pc' = [pc EXCEPT ![App] = "idle", ![g] = "listen"]
  /\ UNCHANGED <<server, link, closed, waiting, watch, subs>>

\* reconnect, after tryConnect
Reconnected(g) ==
  /\ pc[g] = "established"
  /\ connected' = TRUE
  /\ Goto(g, "unblock")
  /\ UNCHANGED <<server, link, closed, waiting, hasConn, watch, subs>>

\* Mutant of Unblock: r.waitConnection is not closed.
UnblockForgets(g) ==
  /\ pc[g] = "unblock"
  /\ Goto(g, "listen")
  /\ UNCHANGED <<server, link, flags, watch, subs>>

\* close(r.waitConnection)
Unblock(g) ==
  /\ pc[g] = "unblock"
  /\ waiting
  /\ waiting' = FALSE
  /\ Goto(g, "listen")
  /\ UNCHANGED <<server, link, connected, closed, hasConn, watch, subs>>

UnblockPanics(g) ==
  /\ pc[g] = "unblock"
  /\ ~ waiting
  /\ Panic
  /\ UNCHANGED <<server, cur, last, flags, watch, mayRun, local, ch, cut, overlap>>

\* r.Connection.NotifyClose(notifyClose)
Listen(g) ==
  /\ pc[g] = "listen"
  /\ cur # 0
  /\ watch' = [watch EXCEPT ![g] = cur]
  /\ Goto(g, "select")
  /\ UNCHANGED <<server, link, flags, subs>>

ListenPanics(g) ==
  /\ pc[g] = "listen"
  /\ cur = 0
  /\ Panic
  /\ UNCHANGED <<server, cur, last, flags, watch, mayRun, local, ch, cut, overlap>>

\* Mutant of Lost: reconnect goes on without the connection having been closed.
LostSpuriously(g) ==
  /\ pc[g] = "select"
  /\ connected' = FALSE
  /\ waiting' = TRUE
  /\ Goto(g, "dial")
  /\ UNCHANGED <<server, link, closed, hasConn, watch, subs>>

\* Mutant of Lost: r.connected is left as it was.
LostStillConnected(g) ==
  /\ pc[g] = "select"
  /\ watch[g] \notin alive
  /\ waiting' = TRUE
  /\ Goto(g, "dial")
  /\ UNCHANGED <<server, link, connected, closed, hasConn, watch, subs>>

\* case <-notifyClose
Lost(g) ==
  /\ pc[g] = "select"
  /\ watch[g] \notin alive
  /\ connected' = FALSE
  /\ waiting' = TRUE
  /\ Goto(g, "dial")
  /\ UNCHANGED <<server, link, closed, hasConn, watch, subs>>

\* Mutant of Stop: r.close is only looked at once the connection is lost.
StopLate(g) ==
  /\ pc[g] = "select"
  /\ closed /\ watch[g] \notin alive
  /\ Goto(g, "returned")
  /\ UNCHANGED <<server, link, flags, watch, subs>>

\* case <-r.close
Stop(g) ==
  /\ pc[g] = "select"
  /\ closed
  /\ Goto(g, "returned")
  /\ UNCHANGED <<server, link, flags, watch, subs>>

\* rbroker.Disconnect up to wg.Wait, under rbroker.mtx
Disconnect ==
  /\ pc[App] = "idle"
  /\ hasConn
  /\ mtx = Free
  /\ Close
  /\ Goto(App, "wgWait")
  /\ UNCHANGED <<server, cur, last, waiting, hasConn, watch, subs>>

DisconnectPanics ==
  /\ pc[App] = "idle"
  /\ hasConn
  /\ mtx = Free
  /\ ~ closed
  /\ cur = 0
  /\ Panic
  /\ UNCHANGED <<server, cur, last, flags, watch, mayRun, local, ch, cut, overlap>>

\* wg.Wait: no handler is running
WgWait ==
  /\ pc[App] = "wgWait"
  /\ \A s \in Sub : spc[s] # "handle"
  /\ Goto(App, "disconnected")
  /\ UNCHANGED <<server, link, flags, watch, subs>>

-----------------------------------------------------------------------------
(* Subscribers                                                             *)

Subscribe(s) ==
  /\ spc[s] = "none"
  /\ hasConn
  /\ mayRun' = [mayRun EXCEPT ![s] = TRUE]
  /\ SGoto(s, "loop")
  /\ UNCHANGED <<server, link, flags, pc, watch, mtx, local, ch, cut, overlap>>

\* resubscribe: are we unsubscribed?
CheckMayRun(s) ==
  /\ spc[s] = "loop"
  /\ SGoto(s, IF mayRun[s] THEN "wait" ELSE "returned")
  /\ UNCHANGED <<server, link, flags, pc, watch, mtx, mayRun, local, ch, cut, overlap>>

\* case <-s.r.conn.close
SubStop(s) ==
  /\ spc[s] = "wait"
  /\ closed
  /\ SGoto(s, "returned")
  /\ UNCHANGED <<server, link, flags, pc, watch, mtx, mayRun, local, ch, cut, overlap>>

\* case <-s.r.conn.waitConnection
SubGo(s) ==
  /\ spc[s] = "wait"
  /\ ~ waiting
  /\ SGoto(s, "lock")
  /\ UNCHANGED <<server, link, flags, pc, watch, mtx, mayRun, local, ch, cut, overlap>>

\* s.r.mtx.Lock(), and the check of r.conn.connected
CheckConnected(s) ==
  /\ spc[s] = "lock"
  /\ mtx = Free
  /\ \/ /\ connected
        /\ mtx' = s
        /\ SGoto(s, "consume")
     \/ /\ ~ connected
        /\ SGoto(s, "loop")
        /\ UNCHANGED mtx
  /\ UNCHANGED <<server, link, flags, pc, watch, mayRun, local, ch, cut, overlap>>

\* Consume, then s.r.mtx.Unlock(). On an error: back off and start over.
Consume(s) ==
  /\ spc[s] = "consume"
  /\ cur # 0
  /\ mtx' = Free
  /\ \/ /\ cur \in alive
        /\ local' = [local EXCEPT ![s] = cur]
        /\ SGoto(s, "set")
     \/ /\ cur \notin alive
        /\ SGoto(s, "loop")
        /\ UNCHANGED local
  /\ UNCHANGED <<server, link, flags, pc, watch, mayRun, ch, cut, overlap>>

ConsumePanics(s) ==
  /\ spc[s] = "consume"
  /\ cur = 0
  /\ Panic
  /\ UNCHANGED <<server, cur, last, flags, watch, mayRun, local, ch, cut, overlap>>

\* Mutant of SetChannel: s.ch is only set the first time.
SetChannelOnce(s) ==
  /\ spc[s] = "set"
  /\ ch' = [ch EXCEPT ![s] = IF @ = 0 THEN local[s] ELSE @]
  /\ SGoto(s, "deliver")
  /\ UNCHANGED <<server, link, flags, pc, watch, mtx, mayRun, local, cut, overlap>>

\* s.ch = ch
SetChannel(s) ==
  /\ spc[s] = "set"
  /\ ch' = [ch EXCEPT ![s] = local[s]]
  /\ SGoto(s, "deliver")
  /\ UNCHANGED <<server, link, flags, pc, watch, mtx, mayRun, local, cut, overlap>>

Delivering(s) == local[s] \in alive /\ local[s] # cut[s]

\* for d := range sub: a delivery arrives
Receive(s) ==
  /\ spc[s] = "deliver"
  /\ Delivering(s)
  /\ SGoto(s, "got")
  /\ UNCHANGED <<server, link, flags, pc, watch, mtx, mayRun, local, ch, cut, overlap>>

\* for d := range sub: the channel is closed
EndOfDeliveries(s) ==
  /\ spc[s] = "deliver"
  /\ ~ Delivering(s)
  /\ SGoto(s, "loop")
  /\ UNCHANGED <<server, link, flags, pc, watch, mtx, mayRun, local, ch, cut, overlap>>

\* s.r.wg.Add(1), s.fn(d)
Handle(s) ==
  /\ spc[s] = "got"
  /\ SGoto(s, "handle")
  /\ UNCHANGED <<server, link, flags, pc, watch, mtx, mayRun, local, ch, cut, overlap>>

\* s.r.wg.Done()
Handled(s) ==
  /\ spc[s] = "handle"
  /\ SGoto(s, "deliver")
  /\ UNCHANGED <<server, link, flags, pc, watch, mtx, mayRun, local, ch, cut, overlap>>

Unsubscribe(s) ==
  /\ mayRun[s]
  /\ spc[s] # "dead"
  /\ mayRun' = [mayRun EXCEPT ![s] = FALSE]
  /\ cut' = [cut EXCEPT ![s] = ch[s]]
  /\ overlap' = [overlap EXCEPT ![s] = spc[s] \in {"wait", "lock", "consume", "set"}]
  /\ UNCHANGED <<server, link, flags, pc, watch, mtx, spc, local, ch>>

-----------------------------------------------------------------------------
TryConnect(p) == Dial(p) \/ Setup(p) \/ SetupPanics(p) \/ DeclareQueues(p)

LoopStep(g) ==
  \/ TryConnect(g)
  \/ Reconnected(g)
  \/ Unblock(g)
  \/ UnblockPanics(g)
  \/ Listen(g)
  \/ ListenPanics(g)
  \/ Lost(g)
  \/ Stop(g)

\* What App goes on with once it has called Connect or Disconnect
AppStep ==
  \/ TryConnect(App)
  \/ \E g \in Loop : Connected(g)
  \/ WgWait

AppCall ==
  \/ Connect
  \/ Disconnect
  \/ DisconnectPanics

SubStep(s) ==
  \/ CheckMayRun(s)
  \/ SubStop(s)
  \/ SubGo(s)
  \/ CheckConnected(s)
  \/ Consume(s)
  \/ ConsumePanics(s)
  \/ SetChannel(s)
  \/ EndOfDeliveries(s)
  \/ Handle(s)
  \/ Handled(s)

Next ==
  \/ Outage
  \/ Recover
  \/ \E c \in alive : Lose(c)
  \/ AppCall
  \/ AppStep
  \/ \E g \in Loop : LoopStep(g)
  \/ \E s \in Sub : SubStep(s) \/ Receive(s) \/ Subscribe(s) \/ Unsubscribe(s)

Spec == Init /\ [][Next]_vars

\* Goroutines are scheduled, handlers and calls return, and a mutex that is free
\* again and again is obtained. Nothing is said of calls, of deliveries arriving,
\* or of the server coming back.
FairSpec ==
  /\ Spec
  /\ \A g \in Loop : WF_vars(LoopStep(g))
  /\ WF_vars(AppStep)
  /\ \A s \in Sub : WF_vars(SubStep(s)) /\ SF_vars(CheckConnected(s))

-----------------------------------------------------------------------------
(* Properties                                                              *)

\* Types; a subscriber holds rbroker.mtx exactly while it consumes.
TypeOK ==
  /\ up \in BOOLEAN /\ faults \in Nat
  /\ cur \in Nat /\ last \in Nat /\ alive \subseteq Nat
  /\ connected \in BOOLEAN /\ closed \in BOOLEAN
  /\ waiting \in BOOLEAN /\ hasConn \in BOOLEAN
  /\ pc \in [Process -> {"none", "idle", "dial", "setup", "queues", "established",
                         "unblock", "listen", "select", "returned", "wgWait",
                         "disconnected", "dead"}]
  /\ watch \in [Loop -> Nat]
  /\ mtx \in Sub \cup {Free}
  /\ spc \in [Sub -> {"none", "loop", "wait", "lock", "consume", "set", "deliver",
                      "got", "handle", "returned", "dead"}]
  /\ mayRun \in [Sub -> BOOLEAN]
  /\ local \in [Sub -> Nat] /\ ch \in [Sub -> Nat] /\ cut \in [Sub -> Nat]
  /\ overlap \in [Sub -> BOOLEAN]
  /\ \A s \in Sub : spc[s] = "consume" <=> mtx = s

\* While r.close is open, there is no open connection besides r.Connection: however
\* often the connection is lost and dialled again, none is left behind
\* (rabbitmq_connection.go doTryConnect, tryConnect).
NoConnectionLeft == ~ closed => alive \subseteq {cur}

\* r.connected, which publishers and subscribers go by, says there is a connection
\* object: it is reset before a failing dial makes r.Connection nil.
ConnectedHasConnection == connected => cur # 0

\* After Unsubscribe no delivery is received any more, whatever reconnections there
\* were before, unless the subscriber was just resubscribing: then Unsubscribe closes
\* the channel before, and the deliveries of the new one go on (rabbitmq.go
\* Unsubscribe, resubscribe).
QuietAfterUnsubscribe ==
  [][\A s \in Sub : Receive(s) => mayRun[s] \/ overlap[s]]_vars

Subscribed(s) == spc[s] \in {"deliver", "got", "handle"} /\ Delivering(s)

\* What makes the client give up: r.close is closed, or a connection is lost while
\* queues are declared on it.
GivesUp == closed \/ (\E p \in Process : pc[p] = "queues" /\ cur \notin alive)

\* Once the server stays up, every subscriber that is not unsubscribed gets back to
\* receiving deliveries, whatever was lost before, unless the client gave up
\* (rabbitmq_connection.go reconnect, rabbitmq.go resubscribe).
Resubscribes ==
  \A s \in Sub :
    (<>[](up /\ mayRun[s]) /\ []~GivesUp) => []<>(Subscribed(s) \/ spc[s] = "dead")

\* Once the server stays up, a client that stays closed has no reconnect goroutine
\* left, also when Close and the loss of the connection it causes are there to be
\* selected at once, and when Connect and Disconnect were called again in between;
\* except one that declares queues on a connection that is gone
\* (rabbitmq_connection.go reconnect, Close, tryConnect).
ReconnectEnds ==
  <>[](up /\ closed) =>
    <>[](\A g \in Loop : \/ pc[g] \in {"none", "returned", "dead"}
                         \/ pc[g] = "queues" /\ cur \notin alive)

=============================================================================
