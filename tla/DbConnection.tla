----------------------------- MODULE DbConnection -----------------------------
(***************************************************************************)
(* database.ConnectionWrapper (common/database): a database handle that is *)
(* replaced when its server no longer answers. After Open or Connect four  *)
(* kinds of goroutines share it without a lock: the one that runs          *)
(* reconnect, the health monitors that reconnect starts, those that run    *)
(* transactions, and the callers of Close.                                 *)
(*                                                                         *)
(* A handle, a gorm.DB, is a connection pool bound to one server node. A   *)
(* Ping, or a BEGIN, succeeds exactly when the pool is not closed and its  *)
(* node is up. A transaction that has begun keeps its connection when the  *)
(* pool is closed; what it does then is the matter of other modules.       *)
(* An attempt that changes nothing (a failed discovery, a healthy Ping, a  *)
(* sleep) is a stuttering step.                                            *)
(***************************************************************************)
EXTENDS Naturals

CONSTANTS
  Node,        \* database server nodes, as the registry lists them
  Registry,    \* the service registry itself
  Closer,      \* goroutines that call Close
  Caller,      \* goroutines that run transactions
  NoHandle,    \* a nil *gorm.DB
  MaxOutages   \* bound on the outages of nodes and registry

Handle == [id : Nat, node : Node]

ASSUME DbAssumption ==
  /\ Registry \notin Node
  /\ NoHandle \notin Handle
  /\ MaxOutages \in Nat

VARIABLES
  up,       \* the nodes, and the registry, that answer
  outages,  \* number of outages so far
  db,       \* c.DB
  open,     \* the pools that are open
  last,     \* number of pools opened so far
  closed,   \* channel c.close is closed
  rpc,      \* what the reconnect goroutine does next
  tried,    \* nodes that connect has tried in vain
  fresh,    \* the pool connect has opened and not yet stored in c.DB
  old,      \* the pool connect has replaced and not yet closed
  ch,       \* number of the channel reconnect waits on
  failed,   \* the health channels that their monitor has closed
  live,     \* the monitors running, each named by its channel
  cpc,      \* cpc[c]: what the caller c of Close does next
  tpc,      \* tpc[t]: what t does next in Transaction
  pool,     \* pool[t]: the pool t has read from c.DB
  lost      \* history: the pools of which a Ping has failed

env == <<up, outages>>
conn == <<rpc, tried, fresh, old>>
mon == <<ch, failed, live>>
txs == <<tpc, pool>>
vars == <<env, db, open, last, closed, conn, mon, cpc, txs, lost>>

\* Open has connected to some node and started reconnect.
Init ==
  /\ up = Node \cup {Registry}
  /\ outages = 0
  /\ \E n \in Node : db = [id |-> 1, node |-> n]
  /\ open = {db}
  /\ last = 1
  /\ closed = FALSE
  /\ rpc = "start"
  /\ tried = {}
  /\ fresh = NoHandle
  /\ old = NoHandle
  /\ ch = 0
  /\ failed = {}
  /\ live = {}
  /\ cpc = [c \in Closer |-> "idle"]
  /\ tpc = [t \in Caller |-> "idle"]
  /\ pool = [t \in Caller |-> NoHandle]
  /\ lost = {}

-----------------------------------------------------------------------------
(* The environment                                                         *)

Outage(n) ==
  /\ n \in up
  /\ outages < MaxOutages
  /\ outages' = outages + 1
  /\ up' = up \ {n}
  /\ UNCHANGED <<db, open, last, closed, conn, mon, cpc, txs, lost>>

Recover(n) ==
  /\ n \notin up
  /\ up' = up \cup {n}
  /\ UNCHANGED <<outages, db, open, last, closed, conn, mon, cpc, txs, lost>>

-----------------------------------------------------------------------------
(* connect, called by reconnect                                            *)

\* The service is looked up in the registry.
Discover ==
  /\ rpc = "connect"
  /\ Registry \in up
  /\ rpc' = "dial"
  /\ tried' = {}
  /\ UNCHANGED <<env, db, open, last, closed, fresh, old, mon, cpc, txs, lost>>

\* gorm.Open on the next node, in any order
Dial(n) ==
  /\ rpc = "dial"
  /\ n \in Node \ tried
  /\ \/ /\ n \in up
        /\ last' = last + 1
        /\ fresh' = [id |-> last + 1, node |-> n]
        /\ open' = open \cup {fresh'}
        /\ rpc' = "swap"
        /\ UNCHANGED tried
     \/ /\ n \notin up
        /\ tried' = tried \cup {n}
        /\ UNCHANGED <<last, fresh, open, rpc>>
  /\ UNCHANGED <<env, db, closed, old, mon, cpc, txs, lost>>

\* No node could be connected to: sleep ReconnectInterval and start over.
ConnectFailed ==
  /\ rpc = "dial"
  /\ tried = Node
  /\ rpc' = "connect"
  /\ UNCHANGED <<env, db, open, last, closed, tried, fresh, old, mon, cpc, txs, lost>>

\* Mutant of Swap: the pool that is replaced is forgotten.
SwapForgets ==
  /\ rpc = "swap"
  /\ db' = fresh
  /\ fresh' = NoHandle
  /\ rpc' = "drop"
  /\ UNCHANGED <<env, open, last, closed, tried, old, mon, cpc, txs, lost>>

\* old := c.DB; c.DB = db
Swap ==
  /\ rpc = "swap"
  /\ old' = db
  /\ db' = fresh
  /\ fresh' = NoHandle
  /\ rpc' = "drop"
  /\ UNCHANGED <<env, open, last, closed, tried, mon, cpc, txs, lost>>

\* Mutant of DropOld: c.DB is closed, which by now is the new pool.
DropCurrent ==
  /\ rpc = "drop"
  /\ open' = open \ {db}
  /\ old' = NoHandle
  /\ rpc' = "start"
  /\ UNCHANGED <<env, db, last, closed, tried, fresh, mon, cpc, txs, lost>>

\* old.Close()
DropOld ==
  /\ rpc = "drop"
  /\ open' = open \ {old}
  /\ old' = NoHandle
  /\ rpc' = "start"
  /\ UNCHANGED <<env, db, last, closed, tried, fresh, mon, cpc, txs, lost>>

-----------------------------------------------------------------------------
(* reconnect and the health monitors                                       *)

\* ch := make(chan struct{}); go c.monitorHealthStatus(ch)
StartMonitor ==
  /\ rpc = "start"
  /\ ch' = ch + 1
  /\ live' = live \cup {ch + 1}
  /\ rpc' = "select"
  /\ UNCHANGED <<env, db, open, last, closed, tried, fresh, old, failed, cpc, txs, lost>>

\* case <-ch
HealthLost ==
  /\ rpc = "select"
  /\ ch \in failed
  /\ rpc' = "connect"
  /\ UNCHANGED <<env, db, open, last, closed, tried, fresh, old, mon, cpc, txs, lost>>

\* Mutant of Stop: c.close is only looked at once the connection is lost.
StopLate ==
  /\ rpc = "select"
  /\ closed
  /\ ch \in failed
  /\ rpc' = "returned"
  /\ UNCHANGED <<env, db, open, last, closed, tried, fresh, old, mon, cpc, txs, lost>>

\* case <-c.close
Stop ==
  /\ rpc = "select"
  /\ closed
  /\ rpc' = "returned"
  /\ UNCHANGED <<env, db, open, last, closed, tried, fresh, old, mon, cpc, txs, lost>>

\* A pool that serves
Usable(h) == h \in open /\ h.node \in up

PingFails == ~ Usable(db)

\* Mutant of MonitorFail: the monitor goes on after having closed its channel.
MonitorGoesOn(m) ==
  /\ m \in live
  /\ PingFails
  /\ failed' = failed \cup {m}
  /\ lost' = lost \cup {db}
  /\ UNCHANGED <<env, db, open, last, closed, conn, ch, live, cpc, txs>>

\* Mutant of MonitorFail: a monitor ends without closing its channel.
MonitorSilent(m) ==
  /\ m \in live
  /\ PingFails
  /\ live' = live \ {m}
  /\ lost' = lost \cup {db}
  /\ UNCHANGED <<env, db, open, last, closed, conn, ch, failed, cpc, txs>>

\* Ping of c.DB, whichever pool that is by now, has failed.
MonitorFail(m) ==
  /\ m \in live
  /\ PingFails
  /\ failed' = failed \cup {m}
  /\ live' = live \ {m}
  /\ lost' = lost \cup {db}
  /\ UNCHANGED <<env, db, open, last, closed, conn, ch, cpc, txs>>

-----------------------------------------------------------------------------
(* Close                                                                   *)

\* select: return when c.close is closed
CloseCheck(c) ==
  /\ cpc[c] = "idle"
  /\ cpc' = [cpc EXCEPT ![c] = IF closed THEN "done" ELSE "closing"]
  /\ UNCHANGED <<env, db, open, last, closed, conn, mon, txs, lost>>

\* close(c.close)
CloseChan(c) ==
  /\ cpc[c] = "closing"
  /\ ~ closed
  /\ closed' = TRUE
  /\ cpc' = [cpc EXCEPT ![c] = "closeDB"]
  /\ UNCHANGED <<env, db, open, last, conn, mon, txs, lost>>

\* close(c.close) after another caller was faster: a panic, the process ends.
ClosePanics(c) ==
  /\ cpc[c] = "closing"
  /\ closed
  /\ cpc' = [d \in Closer |-> "panicked"]
  /\ rpc' = "returned"
  /\ live' = {}
  /\ open' = {}
  /\ fresh' = NoHandle
  /\ old' = NoHandle
  /\ tpc' = [t \in Caller |-> "panicked"]
  /\ UNCHANGED <<env, db, last, closed, tried, ch, failed, pool, lost>>

\* c.DB.Close()
CloseDB(c) ==
  /\ cpc[c] = "closeDB"
  /\ open' = open \ {db}
  /\ cpc' = [cpc EXCEPT ![c] = "done"]
  /\ UNCHANGED <<env, db, last, closed, conn, mon, txs, lost>>

-----------------------------------------------------------------------------
(* Transaction, Execute and GormTransaction, outside of test mode          *)

\* c.DB is read, without a lock.
TxLoad(t) ==
  /\ tpc[t] = "idle"
  /\ pool' = [pool EXCEPT ![t] = db]
  /\ tpc' = [tpc EXCEPT ![t] = "begin"]
  /\ UNCHANGED <<env, db, open, last, closed, conn, mon, cpc, lost>>

\* BeginTx on the pool that was read, which may have been replaced and closed since
TxBegin(t) ==
  /\ tpc[t] = "begin"
  /\ Usable(pool[t])
  /\ tpc' = [tpc EXCEPT ![t] = "running"]
  /\ UNCHANGED <<env, db, open, last, closed, conn, mon, cpc, pool, lost>>

\* The transaction does not begin, which its caller is told.
TxFails(t) ==
  /\ tpc[t] = "begin"
  /\ ~ Usable(pool[t])
  /\ tpc' = [tpc EXCEPT ![t] = "idle"]
  /\ pool' = [pool EXCEPT ![t] = NoHandle]
  /\ UNCHANGED <<env, db, open, last, closed, conn, mon, cpc, lost>>

\* The transaction is committed or rolled back, or its connection fails.
TxEnd(t) ==
  /\ tpc[t] = "running"
  /\ tpc' = [tpc EXCEPT ![t] = "idle"]
  /\ pool' = [pool EXCEPT ![t] = NoHandle]
  /\ UNCHANGED <<env, db, open, last, closed, conn, mon, cpc, lost>>

-----------------------------------------------------------------------------
Reconnect ==
  \/ Discover
  \/ \E n \in Node : Dial(n)
  \/ ConnectFailed
  \/ Swap
  \/ DropOld
  \/ StartMonitor
  \/ HealthLost
  \/ Stop

Monitor == \E m \in live : MonitorFail(m)

Close == \E c \in Closer :
  CloseCheck(c) \/ CloseChan(c) \/ ClosePanics(c) \/ CloseDB(c)

Environment == \E n \in Node \cup {Registry} : Outage(n) \/ Recover(n)

Transaction == \E t \in Caller : TxLoad(t) \/ TxBegin(t) \/ TxFails(t) \/ TxEnd(t)

Next == Reconnect \/ Monitor \/ Close \/ Transaction \/ Environment

Spec == Init /\ [][Next]_vars

\* Goroutines are scheduled, sleeps and calls end; nothing is said of Close being
\* called, or of servers coming back.
FairSpec ==
  /\ Spec
  /\ WF_vars(Reconnect)
  /\ WF_vars(Monitor)

-----------------------------------------------------------------------------
(* Properties                                                              *)

\* Types of the variables; fresh and old are set where connect uses them.
TypeOK ==
  /\ up \subseteq Node \cup {Registry}
  /\ outages \in Nat
  /\ db \in Handle
  /\ open \subseteq Handle
  /\ last \in Nat
  /\ closed \in BOOLEAN
  /\ rpc \in {"start", "select", "connect", "dial", "swap", "drop", "returned"}
  /\ tried \subseteq Node
  /\ IF rpc = "swap" THEN fresh \in Handle ELSE fresh = NoHandle
  /\ IF rpc = "drop" THEN old \in Handle ELSE old = NoHandle
  /\ ch \in Nat
  /\ failed \subseteq Nat
  /\ live \subseteq Nat
  /\ cpc \in [Closer -> {"idle", "closing", "closeDB", "done", "panicked"}]
  /\ tpc \in [Caller -> {"idle", "begin", "running", "panicked"}]
  /\ pool \in [Caller -> Handle \cup {NoHandle}]
  /\ \A t \in Caller : tpc[t] = "begin" => pool[t] \in Handle
  /\ lost \subseteq Handle

\* However reconnect, the monitors and Close interleave, no pool is lost: a pool
\* that is open is c.DB, or one that connect is about to store or to close
\* (connection.go connect).
NoPoolLost == open \subseteq {db, fresh, old}

\* The wrapper never takes a good pool from under a transaction: one that does not
\* begin although the node of its pool is up has read c.DB before it was replaced,
\* and replaced is only a pool that has failed a Ping, or the wrapper was closed
\* (connection.go Transaction, connect, reconnect, Close).
TxFailsOnlyWhenLost ==
  [][\A t \in Caller : TxFails(t) =>
       closed \/ pool[t].node \notin up \/ pool[t] \in lost]_vars

\* There is never more than one health monitor, however often the connection is
\* lost (connection.go reconnect, monitorHealthStatus).
OneMonitor == \A m1, m2 \in live : m1 = m2

\* What Open's comment promises (database.go): once some node stays up, and the
\* registry with it, the wrapper ends up connected to a node that is up, unless it
\* is closed, however many outages there were before.
Failover ==
  (\E n \in Node : <>[](n \in up /\ Registry \in up))
    => <>[](closed \/ ~ PingFails)

\* Once some node stays up, closing the wrapper ends its reconnect goroutine,
\* even when a lost connection and Close are there to be selected at once.
CloseStopsReconnect ==
  (\E n \in Node : <>[](n \in up /\ Registry \in up))
    => (closed ~> rpc = "returned")

=============================================================================
