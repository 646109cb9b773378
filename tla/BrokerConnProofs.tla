-------------------------- MODULE BrokerConnProofs --------------------------
(***************************************************************************)
(* Proofs about BrokerConn. The types, the mutual exclusion of consumers   *)
(* and QuietAfterUnsubscribe hold for any number of reconnect goroutines   *)
(* and subscribers. That no connection is left behind is a matter of who   *)
(* may dial: it is proved for a client connected once, as a service        *)
(* does when it starts (command.go initBroker), with any number of         *)
(* attempts, outages, lost connections and subscribers. A second Connect,  *)
(* after a Disconnect, may find the first reconnect goroutine still at     *)
(* work, and then either dials beside the other.                           *)
(***************************************************************************)
EXTENDS BrokerConn, TLAPS

PcState ==
  {"none", "idle", "dial", "setup", "queues", "established", "unblock", "listen",
   "select", "returned", "wgWait", "disconnected", "dead"}

SpcState ==
  {"none", "loop", "wait", "lock", "consume", "set", "deliver", "got", "handle",
   "returned", "dead"}

\* The parts of the type invariant
LinkType ==
  /\ faults \in Nat
  /\ cur \in Nat /\ last \in Nat /\ alive \subseteq Nat

FlagType ==
  /\ up \in BOOLEAN
  /\ connected \in BOOLEAN /\ closed \in BOOLEAN
  /\ waiting \in BOOLEAN /\ hasConn \in BOOLEAN

ProcessType ==
  /\ pc \in [Process -> PcState]
  /\ watch \in [Loop -> Nat]

SubType ==
  /\ mtx \in Sub \cup {Free}
  /\ spc \in [Sub -> SpcState]
  /\ mayRun \in [Sub -> BOOLEAN]
  /\ local \in [Sub -> Nat] /\ ch \in [Sub -> Nat] /\ cut \in [Sub -> Nat]
  /\ overlap \in [Sub -> BOOLEAN]
  /\ \A s \in Sub : spc[s] = "consume" <=> mtx = s

\* The type invariant is the conjunction of its parts.
LEMMA TypeParts == TypeOK <=> LinkType /\ FlagType /\ ProcessType /\ SubType
  BY DEF TypeOK, LinkType, FlagType, ProcessType, SubType, PcState, SpcState

-----------------------------------------------------------------------------
(* Types                                                                   *)

\* The initial states have the types.
LEMMA InitType == Init => TypeOK
<1> SUFFICES ASSUME Init PROVE LinkType /\ FlagType /\ ProcessType /\ SubType
  BY TypeParts
<1>1. LinkType
  BY DEF Init, LinkType
<1>2. ProcessType
  BY DEF Init, ProcessType, PcState, Process
<1>4. FlagType
  BY DEF Init, FlagType
<1>3. SubType
  BY BrokerAssumption DEF Init, SubType, SpcState
<1> QED
  BY <1>1, <1>2, <1>3, <1>4

\* A goroutine goes on to another step.
LEMMA GotoType ==
  ASSUME ProcessType, NEW p \in Process, NEW step \in PcState, Goto(p, step), UNCHANGED watch
  PROVE  ProcessType'
  BY DEF ProcessType, Goto

\* A panic ends everything.
LEMMA PanicType ==
  ASSUME LinkType, ProcessType, SubType, Panic,
         UNCHANGED <<server, cur, last, flags, watch, mayRun, local, ch, cut, overlap>>
  PROVE  LinkType' /\ ProcessType' /\ SubType'
<1>1. LinkType'
  BY DEF LinkType, Panic, server
<1>2. ProcessType'
  BY DEF ProcessType, Panic, PcState
<1>3. SubType'
  BY BrokerAssumption DEF SubType, Panic, SpcState
<1> QED
  BY <1>1, <1>2, <1>3

\* The steps that leave the subscribers alone
LEMMA SubFrame ==
  ASSUME SubType, UNCHANGED subs
  PROVE  SubType'
  BY DEF SubType, subs

\* tryConnect, whoever calls it
LEMMA TryConnectType ==
  ASSUME LinkType, ProcessType, SubType, NEW p \in Process, TryConnect(p)
  PROVE  LinkType' /\ ProcessType' /\ SubType'
<1>0. OnError(p) \in PcState
  BY DEF OnError, PcState
<1>1. CASE Dial(p)
  <2>0. /\ \/ last' = last + 1 /\ cur' = last + 1 /\ alive' = alive \cup {last + 1}
           \/ cur' = 0 /\ last' = last /\ alive' = alive
        /\ faults' = faults
    BY <1>1 DEF Dial, server
  <2>1. last + 1 \in Nat /\ faults' \in Nat
    BY <2>0 DEF LinkType
  <2>2. last' \in Nat /\ cur' \in Nat
    BY <2>0, <2>1 DEF LinkType
  <2>3. PICK n \in Nat : alive' \subseteq alive \cup {n}
    BY <2>0, <2>1, Zenon
  <2>4. alive' \subseteq Nat
    BY <2>3 DEF LinkType
  <2>5. LinkType'
    BY <2>1, <2>2, <2>4 DEF LinkType
  <2>6. ProcessType'
    BY <1>0, <1>1, GotoType DEF Dial, PcState
  <2> QED
    BY <1>1, <2>5, <2>6, SubFrame DEF Dial
<1>2. CASE Setup(p)
  <2>1. LinkType'
    BY <1>2 DEF Setup, Close, LinkType, server
  <2>2. ProcessType'
    BY <1>0, <1>2, GotoType DEF Setup, PcState
  <2> QED
    BY <1>2, <2>1, <2>2, SubFrame DEF Setup
<1>3. CASE SetupPanics(p)
  BY <1>3, PanicType DEF SetupPanics
<1>4. CASE DeclareQueues(p)
  <2>1. LinkType'
    BY <1>4 DEF DeclareQueues, LinkType, server, link
  <2>2. ProcessType'
    BY <1>4, GotoType DEF DeclareQueues, PcState
  <2> QED
    BY <1>4, <2>1, <2>2, SubFrame DEF DeclareQueues
<1> QED
  BY <1>1, <1>2, <1>3, <1>4 DEF TryConnect

\* The reconnect goroutines
LEMMA LoopType ==
  ASSUME LinkType, ProcessType, SubType, NEW g \in Loop, LoopStep(g)
  PROVE  LinkType' /\ ProcessType' /\ SubType'
<1>0. g \in Process
  BY DEF Process
<1>1. CASE TryConnect(g)
  BY <1>0, <1>1, TryConnectType
<1>2. CASE UnblockPanics(g) \/ ListenPanics(g)
  BY <1>2, PanicType DEF UnblockPanics, ListenPanics
<1>3. CASE Listen(g)
  <2>1. LinkType'
    BY <1>3 DEF Listen, LinkType, server, link
  <2>2. ProcessType'
    BY <1>3 DEF Listen, LinkType, ProcessType, Goto, PcState
  <2> QED
    BY <1>3, <2>1, <2>2, SubFrame DEF Listen
<1>4. CASE Reconnected(g) \/ Unblock(g) \/ Lost(g) \/ Stop(g)
  <2>1. LinkType'
    BY <1>4 DEF Reconnected, Unblock, Lost, Stop, LinkType, server, link
  <2>2. ProcessType'
    BY <1>0, <1>4, GotoType DEF Reconnected, Unblock, Lost, Stop, PcState
  <2> QED
    BY <1>4, <2>1, <2>2, SubFrame DEF Reconnected, Unblock, Lost, Stop
<1> QED
  BY <1>1, <1>2, <1>3, <1>4 DEF LoopStep

\* The goroutine that connects and disconnects
LEMMA AppType ==
  ASSUME LinkType, ProcessType, SubType, AppCall \/ AppStep
  PROVE  LinkType' /\ ProcessType' /\ SubType'
<1>0. App \in Process
  BY DEF Process
<1>1. CASE TryConnect(App)
  BY <1>0, <1>1, TryConnectType
<1>2. CASE DisconnectPanics
  BY <1>2, PanicType DEF DisconnectPanics
<1>3. CASE Disconnect
  <2>1. LinkType'
    BY <1>3 DEF Disconnect, Close, LinkType, server
  <2>2. ProcessType'
    BY <1>0, <1>3, GotoType DEF Disconnect, PcState
  <2> QED
    BY <1>3, <2>1, <2>2, SubFrame DEF Disconnect
<1>4. CASE Connect \/ WgWait
  <2>1. LinkType'
    BY <1>4 DEF Connect, WgWait, LinkType, server, link
  <2>2. ProcessType'
    BY <1>0, <1>4, GotoType DEF Connect, WgWait, PcState
  <2> QED
    BY <1>4, <2>1, <2>2, SubFrame DEF Connect, WgWait
<1>5. ASSUME NEW g \in Loop, Connected(g)
      PROVE  LinkType' /\ ProcessType' /\ SubType'
  <2>1. LinkType'
    BY <1>5 DEF Connected, LinkType, server, link
  <2>2. ProcessType'
    BY <1>5 DEF Connected, ProcessType, PcState
  <2> QED
    BY <1>5, <2>1, <2>2, SubFrame DEF Connected
<1> QED
  BY <1>1, <1>2, <1>3, <1>4, <1>5 DEF AppCall, AppStep

\* The subscribers: only who got the mutex consumes.
LEMMA SubscriberType ==
  ASSUME LinkType, ProcessType, SubType, NEW s \in Sub,
         SubStep(s) \/ Receive(s) \/ Subscribe(s) \/ Unsubscribe(s)
  PROVE  LinkType' /\ ProcessType' /\ SubType'
<1>1. CASE ConsumePanics(s)
  BY <1>1, PanicType DEF ConsumePanics
<1>2. CASE CheckConnected(s)
  <2>1. SubType'
    BY <1>2, BrokerAssumption DEF CheckConnected, SGoto, SubType, SpcState
  <2> QED
    BY <1>2, <2>1 DEF CheckConnected, LinkType, ProcessType, server, link
<1>3. CASE Consume(s)
  <2>1. SubType'
    BY <1>3, BrokerAssumption DEF Consume, SGoto, SubType, SpcState, LinkType
  <2> QED
    BY <1>3, <2>1 DEF Consume, LinkType, ProcessType, server, link
<1>4. CASE SetChannel(s)
  <2>1. SubType'
    BY <1>4 DEF SetChannel, SGoto, SubType, SpcState
  <2> QED
    BY <1>4, <2>1 DEF SetChannel, LinkType, ProcessType, server, link
<1>5. CASE Unsubscribe(s)
  <2>1. SubType'
    BY <1>5 DEF Unsubscribe, SubType
  <2> QED
    BY <1>5, <2>1 DEF Unsubscribe, LinkType, ProcessType, server, link
<1>6. CASE Subscribe(s)
  <2>1. SubType'
    BY <1>6 DEF Subscribe, SGoto, SubType, SpcState
  <2> QED
    BY <1>6, <2>1 DEF Subscribe, LinkType, ProcessType, server, link
<1>7. CASE CheckMayRun(s) \/ SubStop(s) \/ SubGo(s) \/ EndOfDeliveries(s) \/ Handle(s)
             \/ Handled(s) \/ Receive(s)
  <2>1. PICK step \in SpcState : SGoto(s, step) /\ step # "consume"
    BY <1>7 DEF CheckMayRun, SubStop, SubGo, EndOfDeliveries, Handle, Handled, Receive,
                SpcState
  <2>2. UNCHANGED <<server, link, flags, pc, watch, mtx, mayRun, local, ch, cut, overlap>>
        /\ spc[s] # "consume"
    BY <1>7 DEF CheckMayRun, SubStop, SubGo, EndOfDeliveries, Handle, Handled, Receive
  <2>3. SubType'
    BY <2>1, <2>2 DEF SGoto, SubType
  <2> QED
    BY <2>2, <2>3 DEF LinkType, ProcessType, server, link
<1> QED
  BY <1>1, <1>2, <1>3, <1>4, <1>5, <1>6, <1>7 DEF SubStep

\* What is true or false stays so.
LEMMA FlagStep ==
  ASSUME FlagType, [Next]_vars
  PROVE  FlagType'
<1>1. CASE Outage \/ Recover \/ \E c \in alive : Lose(c)
  BY <1>1 DEF Outage, Recover, Lose, FlagType, flags
<1>2. ASSUME NEW p, TryConnect(p)
      PROVE  FlagType'
  BY <1>2 DEF TryConnect, Dial, Setup, SetupPanics, DeclareQueues, Close, FlagType, server,
              flags
<1>3. CASE AppCall \/ AppStep
  BY <1>2, <1>3 DEF AppCall, AppStep, Connect, Disconnect, DisconnectPanics, Connected,
                    WgWait, Close, FlagType, server, flags
<1>4. ASSUME NEW g \in Loop, LoopStep(g)
      PROVE  FlagType'
  BY <1>2, <1>4 DEF LoopStep, Reconnected, Unblock, UnblockPanics, Listen, ListenPanics,
                    Lost, Stop, FlagType, server, flags
<1>5. ASSUME NEW s \in Sub, SubStep(s) \/ Receive(s) \/ Subscribe(s) \/ Unsubscribe(s)
      PROVE  FlagType'
  BY <1>5 DEF SubStep, CheckMayRun, SubStop, SubGo, CheckConnected, Consume, ConsumePanics,
              SetChannel, EndOfDeliveries, Handle, Handled, Receive, Subscribe,
              Unsubscribe, FlagType, server, flags
<1> QED
  BY <1>1, <1>3, <1>4, <1>5 DEF Next, vars, FlagType, server, flags

\* Every step keeps the types.
LEMMA TypeStep == TypeOK /\ [Next]_vars => TypeOK'
<1> SUFFICES ASSUME LinkType, FlagType, ProcessType, SubType, [Next]_vars
             PROVE  LinkType' /\ ProcessType' /\ SubType'
  BY TypeParts, FlagStep, PTL
<1>1. CASE Outage \/ Recover \/ \E c \in alive : Lose(c)
  <2>0. /\ faults' = faults \/ faults' = faults + 1
        /\ alive' \subseteq alive
        /\ UNCHANGED <<cur, last>>
    BY <1>1, Zenon DEF Outage, Recover, Lose, link
  <2>1. LinkType'
    BY <2>0 DEF LinkType
  <2>2. UNCHANGED <<pc, watch>> /\ UNCHANGED subs
    BY <1>1 DEF Outage, Recover, Lose
  <2>3. ProcessType'
    BY <2>2 DEF ProcessType
  <2> QED
    BY <2>1, <2>2, <2>3, SubFrame
<1>2. CASE UNCHANGED vars
  BY <1>2, SubFrame DEF vars, server, link, LinkType, ProcessType
<1> QED
  BY <1>1, <1>2, AppType, LoopType, SubscriberType DEF Next

\* The state of the broker client keeps its types, and the subscriber that holds
\* rbroker.mtx is the one between its Lock and Unlock: no two consume at a time.
THEOREM TypeCorrect == Spec => []TypeOK
  BY InitType, TypeStep, PTL DEF Spec

-----------------------------------------------------------------------------
(* Deliveries after Unsubscribe                                            *)

\* Where a subscriber reads deliveries, it reads them from s.ch. Once Unsubscribe was
\* called, and not while the subscriber was resubscribing, the channel it reads is
\* the one that was closed, and it takes no other any more.
QuietOf(s) ==
  /\ spc[s] \in {"deliver", "got", "handle"} => local[s] = ch[s]
  /\ ~ mayRun[s] /\ ~ overlap[s] =>
       /\ spc[s] \notin {"wait", "lock", "consume", "set"}
       /\ spc[s] \in {"deliver", "got", "handle"} => cut[s] = local[s]

Quiet == \A s \in Sub : QuietOf(s)

\* A subscriber that does nothing, or panics
LEMMA QuietFrame ==
  ASSUME NEW s, QuietOf(s), spc'[s] = spc[s] \/ spc'[s] = "dead",
         local'[s] = local[s], ch'[s] = ch[s], cut'[s] = cut[s],
         mayRun'[s] = mayRun[s], overlap'[s] = overlap[s]
  PROVE  QuietOf(s)'
  BY DEF QuietOf

\* The steps of a subscriber, for that subscriber
LEMMA QuietSub ==
  ASSUME SubType, NEW s \in Sub, QuietOf(s),
         SubStep(s) \/ Receive(s) \/ Subscribe(s) \/ Unsubscribe(s)
  PROVE  QuietOf(s)'
<1>1. CASE ConsumePanics(s)
  BY <1>1, QuietFrame DEF ConsumePanics, Panic
<1>2. CASE Consume(s)
  BY <1>2 DEF Consume, SGoto, SubType, QuietOf
<1>3. CASE SetChannel(s)
  BY <1>3 DEF SetChannel, SGoto, SubType, QuietOf
<1>4. CASE Unsubscribe(s)
  <2>1. /\ UNCHANGED <<spc, local, ch>>
        /\ cut'[s] = ch[s]
        /\ overlap'[s] = (spc[s] \in {"wait", "lock", "consume", "set"})
    BY <1>4 DEF Unsubscribe, SubType
  <2> QED
    BY <2>1 DEF QuietOf
<1>5. CASE Receive(s) \/ Handle(s) \/ Handled(s)
  BY <1>5 DEF Receive, Handle, Handled, SGoto, SubType, QuietOf
<1>6. CASE Subscribe(s) \/ CheckMayRun(s) \/ SubStop(s) \/ SubGo(s) \/ CheckConnected(s)
             \/ EndOfDeliveries(s)
  <2>1. UNCHANGED <<local, ch, cut, overlap>>
    BY <1>6 DEF Subscribe, CheckMayRun, SubStop, SubGo, CheckConnected, EndOfDeliveries
  <2>2. \/ spc'[s] \in {"loop", "returned"}
        \/ spc'[s] = "wait" /\ mayRun'[s]
        \/ /\ spc'[s] \in {"lock", "consume"} /\ mayRun'[s] = mayRun[s]
           /\ spc[s] \in {"wait", "lock"}
    BY <1>6 DEF Subscribe, CheckMayRun, SubStop, SubGo, CheckConnected, EndOfDeliveries,
                SGoto, SubType
  <2> QED
    BY <2>1, <2>2 DEF QuietOf
<1> QED
  BY <1>1, <1>2, <1>3, <1>4, <1>5, <1>6 DEF SubStep

\* A step of one subscriber leaves the others alone, unless it panics.
LEMMA SubAlone ==
  ASSUME SubType, NEW s \in Sub, NEW v \in Sub, v # s,
         SubStep(s) \/ Receive(s) \/ Subscribe(s) \/ Unsubscribe(s)
  PROVE  /\ spc'[v] = spc[v] \/ spc'[v] = "dead"
         /\ local'[v] = local[v] /\ ch'[v] = ch[v] /\ cut'[v] = cut[v]
         /\ mayRun'[v] = mayRun[v] /\ overlap'[v] = overlap[v]
<1>1. CASE ConsumePanics(s)
  BY <1>1 DEF ConsumePanics, Panic
<1>2. CASE Consume(s) \/ SetChannel(s)
  BY <1>2 DEF Consume, SetChannel, SGoto, SubType
<1>3. CASE Unsubscribe(s) \/ Subscribe(s)
  BY <1>3 DEF Unsubscribe, Subscribe, SGoto, SubType
<1>4. CASE CheckMayRun(s) \/ SubStop(s) \/ SubGo(s) \/ CheckConnected(s)
             \/ EndOfDeliveries(s) \/ Receive(s) \/ Handle(s) \/ Handled(s)
  BY <1>4 DEF CheckMayRun, SubStop, SubGo, CheckConnected, EndOfDeliveries, Receive,
              Handle, Handled, SGoto, SubType
<1> QED
  BY <1>1, <1>2, <1>3, <1>4 DEF SubStep

\* Every step keeps it.
LEMMA QuietStep == TypeOK /\ Quiet /\ [Next]_vars => Quiet'
<1> SUFFICES ASSUME SubType, Quiet, [Next]_vars, NEW v \in Sub
             PROVE  QuietOf(v)'
  BY TypeParts DEF Quiet
<1>0. QuietOf(v)
  BY DEF Quiet
<1>1. ASSUME UNCHANGED subs
      PROVE  QuietOf(v)'
  BY <1>0, <1>1, QuietFrame DEF subs
<1>2. ASSUME Panic, UNCHANGED <<mayRun, local, ch, cut, overlap>>
      PROVE  QuietOf(v)'
  BY <1>0, <1>2, QuietFrame DEF Panic
<1>3. CASE Outage \/ Recover \/ \E c \in alive : Lose(c)
  BY <1>1, <1>3 DEF Outage, Recover, Lose
<1>4. ASSUME NEW p, TryConnect(p)
      PROVE  QuietOf(v)'
  BY <1>1, <1>2, <1>4 DEF TryConnect, Dial, Setup, SetupPanics, DeclareQueues
<1>5. CASE AppCall \/ AppStep
  BY <1>1, <1>2, <1>4, <1>5 DEF AppCall, AppStep, Connect, Disconnect, DisconnectPanics,
                                Connected, WgWait
<1>6. ASSUME NEW g \in Loop, LoopStep(g)
      PROVE  QuietOf(v)'
  BY <1>1, <1>2, <1>4, <1>6 DEF LoopStep, Reconnected, Unblock, UnblockPanics, Listen,
                                ListenPanics, Lost, Stop
<1>7. ASSUME NEW s \in Sub, SubStep(s) \/ Receive(s) \/ Subscribe(s) \/ Unsubscribe(s)
      PROVE  QuietOf(v)'
  <2>1. CASE v = s
    BY <1>0, <1>7, <2>1, QuietSub
  <2>2. CASE v # s
    BY <1>0, <1>7, <2>2, SubAlone, QuietFrame
  <2> QED
    BY <2>1, <2>2
<1> QED
  BY <1>1, <1>3, <1>5, <1>6, <1>7 DEF Next, vars

\* No delivery is received after Unsubscribe, for any number of reconnections,
\* subscribers and outages, unless Unsubscribe was called while the subscriber was
\* between its check of mayRun and the assignment to s.ch (rabbitmq.go resubscribe).
THEOREM UnsubscribeQuiets == Spec => QuietAfterUnsubscribe
<1>1. Init => Quiet
  BY DEF Init, Quiet, QuietOf
<1>2. Spec => []Quiet
  BY <1>1, TypeCorrect, QuietStep, PTL DEF Spec
<1>3. Quiet => \A s \in Sub : Receive(s) => mayRun[s] \/ overlap[s]
  BY DEF Quiet, QuietOf, Receive, Delivering
<1>4. Quiet /\ [Next]_vars => [\A s \in Sub : Receive(s) => mayRun[s] \/ overlap[s]]_vars
  BY <1>3
<1> QED
  BY <1>2, <1>4, PTL DEF Spec, QuietAfterUnsubscribe

-----------------------------------------------------------------------------
(* Connections, for a client that is connected once                        *)

\* There is one reconnect goroutine: Connect succeeds at most once.
ConnectsOnce == \E g : Loop = {g}

\* Before Connect has succeeded, App alone dials: only when no connection is open.
BeforeConnected ==
  /\ ~ hasConn /\ ~ connected
  /\ pc[App] \in {"idle", "dial", "setup", "queues", "established"}
  /\ pc[App] \in {"idle", "dial"} => alive = {}
  /\ pc[App] # "idle" => ~ closed
  /\ pc[App] \in {"setup", "queues", "established"} => cur # 0 /\ alive \subseteq {cur}

\* After that its reconnect goroutine alone dials: only when it has found the
\* connection it watches lost, or one it has just made, and Connect is not called
\* again.
WhenConnected(g) ==
  /\ pc[App] \in {"idle", "wgWait", "disconnected", "dead"}
  /\ pc[g] \in {"dial", "setup", "queues", "established"} => ~ connected
  /\ pc[g] \in {"setup", "queues", "established", "unblock", "listen", "select"} => cur # 0
  /\ pc[g] = "select" => watch[g] = cur
  /\ ~ closed =>
       /\ pc[g] # "returned"
       /\ alive \subseteq IF pc[g] \in {"dial", "dead"} THEN {} ELSE {cur}
  /\ connected => cur # 0

OneConnection(g) == IF pc[g] = "none" THEN BeforeConnected ELSE WhenConnected(g)

\* Steps that leave the goroutines, the connection and the flags alone
LEMMA ConnectionFrame ==
  ASSUME NEW g, OneConnection(g), alive' \subseteq alive,
         UNCHANGED <<cur, connected, closed, hasConn, pc, watch>>
  PROVE  OneConnection(g)'
  BY DEF OneConnection, BeforeConnected, WhenConnected

\* A panic ends the reconnect goroutine too, and the connections.
LEMMA ConnectionPanic ==
  ASSUME NEW g \in Process, OneConnection(g), Panic,
         UNCHANGED <<cur, connected>>
  PROVE  OneConnection(g)'
<1>1. alive' = {} /\ pc'[g] = "dead" /\ pc'[App] = "dead"
  BY DEF Panic, Process
<1>2. connected => cur # 0
  BY DEF OneConnection, BeforeConnected, WhenConnected
<1> QED
  BY <1>1, <1>2 DEF OneConnection, WhenConnected

\* A dial, and what becomes of it
LEMMA ConnectionDial ==
  ASSUME TypeOK, NEW g, Loop = {g}, OneConnection(g), NEW p \in Process, Dial(p)
  PROVE  OneConnection(g)'
<1>1. UNCHANGED <<connected, closed, hasConn, watch>>
  BY DEF Dial, flags
<1>2. g # App /\ (p = g \/ p = App) /\ pc \in [Process -> PcState]
      /\ g \in Process /\ App \in Process /\ last + 1 # 0
  BY BrokerAssumption, TypeParts DEF Process, ProcessType, LinkType
<1>3. CASE p = App
  <2>1. pc[App] = "dial" /\ pc[g] = "none" /\ BeforeConnected
    BY <1>3 DEF Dial, OneConnection, WhenConnected
  <2>2. /\ \/ pc'[App] = "setup" /\ cur' = last + 1 /\ alive' = alive \cup {last + 1}
           \/ pc'[App] = "idle" /\ alive' = alive
        /\ pc'[g] = "none"
    BY <1>2, <1>3, <2>1 DEF Dial, Goto, OnError
  <2> QED
    BY <1>1, <1>2, <2>1, <2>2 DEF OneConnection, BeforeConnected
<1>4. CASE p = g
  <2>1. pc[g] = "dial" /\ WhenConnected(g)
    BY <1>4 DEF Dial, OneConnection
  <2>2. /\ \/ pc'[g] = "setup" /\ cur' = last + 1 /\ alive' = alive \cup {last + 1}
           \/ pc'[g] = "dial" /\ alive' = alive
        /\ pc'[App] = pc[App]
    BY <1>2, <1>4, <2>1 DEF Dial, Goto, OnError
  <2> QED
    BY <1>1, <1>2, <2>1, <2>2 DEF OneConnection, WhenConnected
<1> QED
  BY <1>2, <1>3, <1>4

\* The rest of tryConnect
LEMMA ConnectionSetup ==
  ASSUME TypeOK, NEW g, Loop = {g}, OneConnection(g), NEW p \in Process,
         Setup(p) \/ DeclareQueues(p)
  PROVE  OneConnection(g)'
<1>1. UNCHANGED <<cur, hasConn, watch>>
  BY DEF Setup, DeclareQueues, link, flags
<1>2. g # App /\ (p = g \/ p = App) /\ pc \in [Process -> PcState]
      /\ g \in Process /\ App \in Process
  BY BrokerAssumption, TypeParts DEF Process, ProcessType
<1>3. \/ /\ UNCHANGED <<alive, closed, connected>>
         /\ Goto(p, "queues") \/ Goto(p, "established")
      \/ /\ closed' = TRUE /\ connected' = (closed /\ connected)
         /\ alive' = IF closed THEN alive ELSE alive \ {cur}
         /\ Goto(p, OnError(p))
  BY DEF Setup, DeclareQueues, Close, link, flags
<1>4. CASE p = App
  <2>1. pc[App] \in {"setup", "queues"} /\ pc[g] = "none" /\ BeforeConnected
    BY <1>4 DEF Setup, DeclareQueues, OneConnection, WhenConnected
  <2>2. /\ \/ pc'[App] \in {"queues", "established"} /\ UNCHANGED <<alive, closed, connected>>
           \/ pc'[App] = "idle" /\ ~ connected' /\ alive' = {}
        /\ pc'[g] = "none"
    BY <1>2, <1>3, <1>4, <2>1 DEF Goto, OnError, BeforeConnected
  <2> QED
    BY <1>1, <2>1, <2>2 DEF OneConnection, BeforeConnected
<1>5. CASE p = g
  <2>1. pc[g] \in {"setup", "queues"} /\ WhenConnected(g)
    BY <1>5 DEF Setup, DeclareQueues, OneConnection
  <2>2. /\ \/ pc'[g] \in {"queues", "established"} /\ UNCHANGED <<alive, closed, connected>>
           \/ pc'[g] = "dial" /\ ~ connected' /\ closed'
        /\ pc'[App] = pc[App]
    BY <1>2, <1>3, <1>5, <2>1 DEF Goto, OnError, WhenConnected
  <2> QED
    BY <1>1, <2>1, <2>2 DEF OneConnection, WhenConnected
<1> QED
  BY <1>2, <1>4, <1>5

\* The reconnect goroutine
LEMMA ConnectionLoop ==
  ASSUME TypeOK, NEW g, Loop = {g}, OneConnection(g),
         Reconnected(g) \/ Unblock(g) \/ Listen(g) \/ Lost(g) \/ Stop(g)
  PROVE  OneConnection(g)'
<1>1. g # App /\ pc \in [Process -> PcState] /\ watch \in [Loop -> Nat]
      /\ g \in Process /\ g \in Loop /\ App \in Process
  BY BrokerAssumption, TypeParts DEF Process, ProcessType
<1>2. UNCHANGED <<cur, alive, closed>> /\ pc'[App] = pc[App]
  BY <1>1 DEF Reconnected, Unblock, Listen, Lost, Stop, Goto, link, flags
<1>3. pc[g] # "none" /\ WhenConnected(g)
  BY DEF Reconnected, Unblock, Listen, Lost, Stop, OneConnection
<1>4. CASE Reconnected(g) \/ Unblock(g)
  <2>1. pc[g] \in {"established", "unblock"} /\ pc'[g] \in {"unblock", "listen"}
        /\ UNCHANGED watch
    BY <1>1, <1>4 DEF Reconnected, Unblock, Goto
  <2> QED
    BY <1>2, <1>3, <2>1 DEF OneConnection, WhenConnected
<1>5. CASE Listen(g)
  <2>1. pc[g] = "listen" /\ pc'[g] = "select" /\ watch'[g] = cur /\ UNCHANGED connected
    BY <1>1, <1>5 DEF Listen, Goto, flags
  <2> QED
    BY <1>2, <1>3, <2>1 DEF OneConnection, WhenConnected
<1>6. CASE Lost(g)
  <2>1. pc[g] = "select" /\ pc'[g] = "dial" /\ ~ connected' /\ cur \notin alive
    BY <1>1, <1>3, <1>6 DEF Lost, Goto, WhenConnected
  <2> QED
    BY <1>2, <1>3, <2>1 DEF OneConnection, WhenConnected
<1>7. CASE Stop(g)
  <2>1. pc'[g] = "returned" /\ closed /\ UNCHANGED connected
    BY <1>1, <1>7 DEF Stop, Goto, flags
  <2> QED
    BY <1>2, <1>3, <2>1 DEF OneConnection, WhenConnected
<1> QED
  BY <1>4, <1>5, <1>6, <1>7

\* The calls of App
LEMMA ConnectionApp ==
  ASSUME TypeOK, NEW g, Loop = {g}, OneConnection(g),
         Connect \/ Connected(g) \/ Disconnect \/ WgWait
  PROVE  OneConnection(g)'
<1>1. g # App /\ pc \in [Process -> PcState]
      /\ g \in Process /\ g \in Loop /\ App \in Process
  BY BrokerAssumption, TypeParts DEF Process, ProcessType
<1>2. UNCHANGED <<cur, watch>>
  BY DEF Connect, Connected, Disconnect, WgWait, link
<1>3. CASE Connect
  <2>1. pc[g] = "none" /\ pc'[g] = "none" /\ pc'[App] = "dial" /\ ~ closed'
        /\ UNCHANGED <<alive, connected, hasConn>> /\ pc[App] \in {"idle", "disconnected"}
    BY <1>1, <1>3 DEF Connect, Goto, link
  <2> QED
    BY <1>2, <2>1 DEF OneConnection, BeforeConnected
<1>4. CASE Connected(g)
  <2>1. pc[g] = "none" /\ pc'[g] = "listen" /\ pc[App] = "established" /\ pc'[App] = "idle"
        /\ UNCHANGED <<alive, closed>>
    BY <1>1, <1>4 DEF Connected, link
  <2> QED
    BY <1>2, <2>1 DEF OneConnection, BeforeConnected, WhenConnected
<1>5. CASE Disconnect
  <2>1. pc'[g] = pc[g] /\ pc'[App] = "wgWait" /\ closed' /\ hasConn
        /\ connected' = (closed /\ connected)
    BY <1>1, <1>5 DEF Disconnect, Goto, Close
  <2> QED
    BY <1>2, <2>1 DEF OneConnection, BeforeConnected, WhenConnected
<1>6. CASE WgWait
  <2>1. pc'[g] = pc[g] /\ pc[App] = "wgWait" /\ pc'[App] = "disconnected"
        /\ UNCHANGED <<alive, connected, closed>>
    BY <1>1, <1>6 DEF WgWait, Goto, link, flags
  <2> QED
    BY <1>2, <2>1 DEF OneConnection, BeforeConnected, WhenConnected
<1> QED
  BY <1>3, <1>4, <1>5, <1>6

\* Every step
LEMMA ConnectionStep ==
  ASSUME NEW g, Loop = {g}
  PROVE  TypeOK /\ OneConnection(g) /\ [Next]_vars => OneConnection(g)'
<1> SUFFICES ASSUME TypeOK, OneConnection(g), [Next]_vars
             PROVE  OneConnection(g)'
  OBVIOUS
<1>0. g \in Process /\ App \in Process
  BY DEF Process
<1>1. ASSUME alive' \subseteq alive, UNCHANGED <<cur, connected, closed, hasConn, pc, watch>>
      PROVE  OneConnection(g)'
  BY <1>1, ConnectionFrame
<1>2. ASSUME Panic, UNCHANGED <<cur, flags>>
      PROVE  OneConnection(g)'
  BY <1>0, <1>2, ConnectionPanic DEF flags
<1>3. CASE Outage \/ Recover \/ \E c \in alive : Lose(c)
  <2>1. alive' \subseteq alive /\ UNCHANGED <<cur, connected, closed, hasConn, pc, watch>>
    BY <1>3 DEF Outage, Recover, Lose, link, flags
  <2> QED
    BY <1>1, <2>1
<1>4. ASSUME NEW p \in Process, TryConnect(p)
      PROVE  OneConnection(g)'
  BY <1>2, <1>4, ConnectionDial, ConnectionSetup DEF TryConnect, SetupPanics
<1>5. CASE AppCall \/ AppStep
  BY <1>0, <1>2, <1>4, <1>5, ConnectionApp DEF AppCall, AppStep, DisconnectPanics
<1>6. CASE LoopStep(g)
  BY <1>0, <1>2, <1>4, <1>6, ConnectionLoop DEF LoopStep, UnblockPanics, ListenPanics
<1>7. ASSUME NEW s \in Sub, SubStep(s) \/ Receive(s) \/ Subscribe(s) \/ Unsubscribe(s)
      PROVE  OneConnection(g)'
  <2>1. CASE ConsumePanics(s)
    BY <1>2, <2>1 DEF ConsumePanics
  <2>2. CASE ~ ConsumePanics(s)
    <3>1. UNCHANGED <<link, flags, pc, watch>>
      BY <1>7, <2>2 DEF SubStep, CheckMayRun, SubStop, SubGo, CheckConnected, Consume,
                        SetChannel, EndOfDeliveries, Handle, Handled, Receive, Subscribe,
                        Unsubscribe
    <3> QED
      BY <1>1, <3>1 DEF link, flags
  <2> QED
    BY <2>1, <2>2
<1>8. CASE UNCHANGED vars
  BY <1>1, <1>8 DEF vars, link, flags
<1> QED
  BY <1>3, <1>5, <1>6, <1>7, <1>8 DEF Next

\* It holds initially, and so it always does.
LEMMA ConnectionInv ==
  ASSUME NEW g, Loop = {g}
  PROVE  Spec => []OneConnection(g)
<1>1. Init => OneConnection(g)
  BY BrokerAssumption DEF Init, Process, OneConnection, BeforeConnected
<1> QED
  BY <1>1, TypeCorrect, ConnectionStep, PTL DEF Spec

\* A client that is connected once never has more than one connection open while it
\* is not closed: however often tryConnect is repeated and connections are lost,
\* none is left behind.
THEOREM OneConnectionOpen == ConnectsOnce => (Spec => []NoConnectionLeft)
<1> SUFFICES ASSUME NEW g, Loop = {g}
             PROVE  Spec => []NoConnectionLeft
  BY Zenon DEF ConnectsOnce
<1>1. OneConnection(g) => NoConnectionLeft
  BY DEF OneConnection, BeforeConnected, WhenConnected, NoConnectionLeft
<1> QED
  BY <1>1, ConnectionInv, PTL

\* Of such a client r.connected says that there is a connection object: neither a
\* publisher nor a subscriber that has seen it runs into nil before the connection
\* is found lost.
THEOREM ConnectedMeansConnection == ConnectsOnce => (Spec => []ConnectedHasConnection)
<1> SUFFICES ASSUME NEW g, Loop = {g}
             PROVE  Spec => []ConnectedHasConnection
  BY Zenon DEF ConnectsOnce
<1>1. OneConnection(g) => ConnectedHasConnection
  BY DEF OneConnection, BeforeConnected, WhenConnected, ConnectedHasConnection
<1> QED
  BY <1>1, ConnectionInv, PTL

=============================================================================
