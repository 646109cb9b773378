-------------------------- MODULE DbConnectionProofs --------------------------
(***************************************************************************)
(* Proofs about DbConnection, for any number of nodes, transactions,       *)
(* callers of Close and outages.                                           *)
(***************************************************************************)
EXTENDS DbConnection, TLAPS

\* Pools are numbered in the order they are opened, so the one connect has just
\* opened is no other than it is: not c.DB, and not the one it replaces.
PoolsDistinct ==
  /\ db.id <= last
  /\ rpc = "swap" => fresh.id <= last /\ fresh # db
  /\ rpc = "drop" => old # db

\* Until Close is called, the pool that is to become c.DB is open, and c.DB too.
PoolsOpen ==
  /\ \A c \in Closer : cpc[c] = "closeDB" => closed
  /\ ~ closed => db \in open /\ (rpc = "swap" => fresh \in open)

\* The only monitor that may run is the one reconnect waits for, and it runs only
\* until it has closed its channel.
MonitorIsWatched ==
  /\ live \subseteq {ch}
  /\ \A m \in failed : m <= ch
  /\ ch \in failed => live = {}
  /\ rpc \notin {"select", "returned"} => live = {}

\* connect replaces, and closes, only a pool of which a Ping has failed.
ReplacedIsLost ==
  /\ rpc = "select" /\ ch \in failed => db \in lost
  /\ rpc \in {"connect", "dial", "swap"} => db \in lost
  /\ rpc = "drop" => old \in lost

\* A pool that a transaction has read is open, unless it was lost or Close was called.
ReadIsOpen ==
  \A t \in Caller : tpc[t] = "begin" /\ ~ closed => pool[t] \in open \cup lost

\* The inductive invariant
Inv ==
  /\ TypeOK
  /\ NoPoolLost
  /\ PoolsDistinct
  /\ PoolsOpen
  /\ MonitorIsWatched
  /\ ReplacedIsLost
  /\ ReadIsOpen

-----------------------------------------------------------------------------
\* The invariant holds initially.
LEMMA InitInv == Init => Inv
<1> SUFFICES ASSUME Init PROVE Inv
  OBVIOUS
<1>1. PICK n \in Node : db = [id |-> 1, node |-> n]
  BY DEF Init
<1>2. db \in Handle /\ db.id = 1
  BY <1>1 DEF Handle
<1>3. TypeOK
  BY <1>2 DEF Init, TypeOK
<1>4. NoPoolLost
  BY DEF Init, NoPoolLost
<1>5. PoolsDistinct /\ MonitorIsWatched
  BY <1>2 DEF Init, PoolsDistinct, MonitorIsWatched
<1>6. PoolsOpen
  BY DEF Init, PoolsOpen
<1>7. ReplacedIsLost /\ ReadIsOpen
  BY DEF Init, ReplacedIsLost, ReadIsOpen
<1> QED
  BY <1>3, <1>4, <1>5, <1>6, <1>7 DEF Inv

\* Every step of reconnect, of a monitor, of Close and of the servers preserves it.
LEMMA NextInv == Inv /\ [Next]_vars => Inv'
<1> USE DbAssumption
<1> SUFFICES ASSUME Inv, [Next]_vars PROVE Inv'
  OBVIOUS
<1> USE DEF Inv, TypeOK, env, conn, mon, txs, vars
<1>1. ASSUME NEW n \in Node \cup {Registry}, Outage(n) \/ Recover(n)
      PROVE  Inv'
  <2>1. UNCHANGED <<db, open, last, closed, conn, mon, cpc, txs, lost>>
    BY <1>1 DEF Outage, Recover
  <2>2. up' \subseteq Node \cup {Registry}
    BY <1>1 DEF Outage, Recover
  <2>3. outages' \in Nat
    BY <1>1 DEF Outage, Recover
  <2> QED
    BY <2>1, <2>2, <2>3 DEF NoPoolLost, PoolsDistinct, PoolsOpen, MonitorIsWatched, ReplacedIsLost,
     ReadIsOpen
<1>2. CASE Discover
  BY <1>2 DEF Discover, NoPoolLost, PoolsDistinct, PoolsOpen, MonitorIsWatched, ReplacedIsLost,
     ReadIsOpen
<1>3. ASSUME NEW n \in Node, Dial(n)
      PROVE  Inv'
  <2>1. CASE n \in up
    <3>1. [id |-> last + 1, node |-> n] \in Handle
      BY DEF Handle
    <3> QED
      BY <1>3, <2>1, <3>1
      DEF Dial, NoPoolLost, PoolsDistinct, PoolsOpen, MonitorIsWatched, ReplacedIsLost,
     ReadIsOpen, Handle
  <2>2. CASE n \notin up
    BY <1>3, <2>2 DEF Dial, NoPoolLost, PoolsDistinct, PoolsOpen, MonitorIsWatched, ReplacedIsLost,
     ReadIsOpen
  <2> QED
    BY <2>1, <2>2
<1>4. CASE ConnectFailed
  BY <1>4 DEF ConnectFailed, NoPoolLost, PoolsDistinct, PoolsOpen, MonitorIsWatched, ReplacedIsLost,
     ReadIsOpen
<1>5. CASE Swap
  BY <1>5 DEF Swap, NoPoolLost, PoolsDistinct, PoolsOpen, MonitorIsWatched, ReplacedIsLost,
     ReadIsOpen
<1>6. CASE DropOld
  BY <1>6 DEF DropOld, NoPoolLost, PoolsDistinct, PoolsOpen, MonitorIsWatched, ReplacedIsLost,
     ReadIsOpen
<1>7. CASE StartMonitor
  <2>1. NoPoolLost' /\ PoolsDistinct' /\ PoolsOpen' /\ TypeOK' /\ ReadIsOpen'
    BY <1>7 DEF StartMonitor, NoPoolLost, PoolsDistinct, PoolsOpen, ReadIsOpen
  <2>2. ch + 1 \notin failed
    BY DEF MonitorIsWatched
  <2>3. MonitorIsWatched' /\ ReplacedIsLost'
    BY <1>7, <2>2 DEF StartMonitor, MonitorIsWatched, ReplacedIsLost
  <2> QED
    BY <2>1, <2>3
<1>8. CASE HealthLost
  BY <1>8 DEF HealthLost, NoPoolLost, PoolsDistinct, PoolsOpen, MonitorIsWatched, ReplacedIsLost,
     ReadIsOpen
<1>9. CASE Stop
  BY <1>9 DEF Stop, NoPoolLost, PoolsDistinct, PoolsOpen, MonitorIsWatched, ReplacedIsLost,
     ReadIsOpen
<1>10. ASSUME NEW m \in live, MonitorFail(m)
       PROVE  Inv'
  BY <1>10 DEF MonitorFail, NoPoolLost, PoolsDistinct, PoolsOpen, MonitorIsWatched, ReplacedIsLost,
     ReadIsOpen
<1>11. ASSUME NEW c \in Closer, CloseCheck(c)
       PROVE  Inv'
  BY <1>11 DEF CloseCheck, NoPoolLost, PoolsDistinct, PoolsOpen, MonitorIsWatched, ReplacedIsLost,
     ReadIsOpen
<1>12. ASSUME NEW c \in Closer, CloseChan(c)
       PROVE  Inv'
  BY <1>12 DEF CloseChan, NoPoolLost, PoolsDistinct, PoolsOpen, MonitorIsWatched, ReplacedIsLost,
     ReadIsOpen
<1>13. ASSUME NEW c \in Closer, ClosePanics(c)
       PROVE  Inv'
  BY <1>13 DEF ClosePanics, NoPoolLost, PoolsDistinct, PoolsOpen, MonitorIsWatched, ReplacedIsLost,
     ReadIsOpen
<1>14. ASSUME NEW c \in Closer, CloseDB(c)
       PROVE  Inv'
  BY <1>14 DEF CloseDB, NoPoolLost, PoolsDistinct, PoolsOpen, MonitorIsWatched, ReplacedIsLost,
     ReadIsOpen
<1>15. CASE UNCHANGED vars
  BY <1>15 DEF NoPoolLost, PoolsDistinct, PoolsOpen, MonitorIsWatched, ReplacedIsLost,
     ReadIsOpen
<1>16. ASSUME NEW t \in Caller, TxLoad(t) \/ TxBegin(t) \/ TxFails(t) \/ TxEnd(t)
       PROVE  Inv'
  <2>1. UNCHANGED <<env, db, open, last, closed, conn, mon, cpc, lost>>
    BY <1>16 DEF TxLoad, TxBegin, TxFails, TxEnd
  <2>2. /\ NoPoolLost' /\ PoolsDistinct' /\ PoolsOpen' /\ MonitorIsWatched'
        /\ ReplacedIsLost'
    BY <2>1 DEF NoPoolLost, PoolsDistinct, PoolsOpen, MonitorIsWatched, ReplacedIsLost
  <2>3. /\ tpc' \in [Caller -> {"idle", "begin", "running", "panicked"}]
        /\ pool' \in [Caller -> Handle \cup {NoHandle}]
        /\ \A v \in Caller : tpc'[v] = "begin" =>
              pool'[v] \in Handle /\ (pool'[v] = db \/ (tpc[v] = "begin" /\ pool'[v] = pool[v]))
    <3>1. CASE TxLoad(t)
      <4>1. /\ tpc' = [tpc EXCEPT ![t] = "begin"] /\ pool' = [pool EXCEPT ![t] = db]
            /\ db \in Handle
        BY <3>1 DEF TxLoad
      <4>2. pool' \in [Caller -> Handle \cup {NoHandle}]
        BY <4>1
      <4>3. ASSUME NEW v \in Caller, tpc'[v] = "begin"
            PROVE  pool'[v] \in Handle /\ (pool'[v] = db \/ (tpc[v] = "begin" /\ pool'[v] = pool[v]))
        BY <4>1, <4>3
      <4> QED
        BY <4>1, <4>2, <4>3
    <3>2. CASE TxBegin(t)
      BY <3>2 DEF TxBegin
    <3>3. CASE TxFails(t) \/ TxEnd(t)
      BY <3>3 DEF TxFails, TxEnd
    <3> QED
      BY <1>16, <3>1, <3>2, <3>3
  <2>4. TypeOK'
    BY <2>1, <2>3
  <2>5. ReadIsOpen'
    BY <2>1, <2>3 DEF ReadIsOpen, PoolsOpen
  <2> QED
    BY <2>2, <2>4, <2>5
<1> QED
  BY <1>1, <1>2, <1>3, <1>4, <1>5, <1>6, <1>7, <1>8, <1>9, <1>10, <1>11, <1>12,
     <1>13, <1>14, <1>15, <1>16
  DEF Next, Reconnect, Monitor, Close, Transaction, Environment

\* The invariant always holds.
LEMMA SpecInv == Spec => []Inv
  BY InitInv, NextInv, PTL DEF Spec

\* The variables of the wrapper always have their types, and connect has a fresh or
\* a replaced pool in its hands exactly where it uses one (connection.go connect).
THEOREM TypeCorrect == Spec => []TypeOK
<1>1. Inv => TypeOK
  BY DEF Inv
<1> QED
  BY SpecInv, <1>1, PTL

\* No pool is ever lost: an open pool is c.DB or in the hands of connect
\* (connection.go connect), whatever the interleaving with monitors and Close.
THEOREM PoolsAccounted == Spec => []NoPoolLost
<1>1. Inv => NoPoolLost
  BY DEF Inv
<1> QED
  BY SpecInv, <1>1, PTL

\* A transaction fails to begin on a node that is up only when the pool it has read
\* was lost and replaced meanwhile, or Close was called (connection.go Transaction,
\* connect, reconnect, Close).
THEOREM TransactionsBegin == Spec => TxFailsOnlyWhenLost
<1> DEFINE Excused(t) == closed \/ pool[t].node \notin up \/ pool[t] \in lost
<1>1. ASSUME Inv, NEW t \in Caller, TxFails(t)
      PROVE  Excused(t)
  BY <1>1 DEF Inv, ReadIsOpen, TxFails, Usable
<1>2. Inv => [\A t \in Caller : TxFails(t) => Excused(t)]_vars
  BY <1>1
<1> QED
  BY SpecInv, <1>2, PTL DEF TxFailsOnlyWhenLost

\* At most one health monitor runs at any time (connection.go reconnect,
\* monitorHealthStatus).
THEOREM MonitorUnique == Spec => []OneMonitor
<1>1. Inv => OneMonitor
  BY DEF Inv, MonitorIsWatched, OneMonitor
<1> QED
  BY SpecInv, <1>1, PTL

=============================================================================
