------------------------------ MODULE Election ------------------------------
(***************************************************************************)
(* Leader election and locks (common/sync/etcd_sync.go) over the sessions, *)
(* elections and mutexes of the etcd client. A contender opens a session,  *)
(* which is a lease that the client keeps alive, puts a key under that     *)
(* lease, and waits until all keys that were created earlier are gone. It  *)
(* does not look whether its own key is still there.                       *)
(*                                                                         *)
(* CampaignLeader and Lock return a handle in every case but one: when no  *)
(* session could be opened. Of a handle that failed only Close may be      *)
(* called, which ends the session.                                         *)
(*                                                                         *)
(* Faults: a call of etcd fails, a lease runs out while its session is in  *)
(* use (a partition or a long pause), a watch breaks, a process dies.      *)
(***************************************************************************)
EXTENDS Integers

CONSTANTS
  Proc,
  Nobody,       \* no process
  MaxSessions,  \* bound on the sessions that are opened
  MaxFaults

ASSUME ElectionAssumption ==
  /\ Nobody \notin Proc
  /\ MaxSessions \in Nat
  /\ MaxFaults \in Nat

VARIABLES
  mode,    \* what the contenders want: "lead" (CampaignLeader) or "lock" (Lock)
  pc,      \* where each process is
  session, \* the session of its handle, 0: none
  last,    \* the last session that was opened
  leases,  \* the sessions whose lease is alive
  keys,    \* the sessions that have a key
  rev,     \* rev[i]: the revision at which session i created its key, 0: never
  clock,   \* the revision of the store
  watch,   \* what Status of a leader does
  faults

etcdVars == <<leases, keys, rev, clock>>
vars == <<mode, pc, session, last, etcdVars, watch, faults>>

Session == 1 .. MaxSessions

Init ==
  /\ mode \in {"lead", "lock"}
  /\ pc = [p \in Proc |-> "idle"]
  /\ session = [p \in Proc |-> 0]
  /\ last = 0
  /\ leases = {}
  /\ keys = {}
  /\ rev = [i \in Session |-> 0]
  /\ clock = 0
  /\ watch = [p \in Proc |-> "off"]
  /\ faults = 0

Fault ==
  /\ faults < MaxFaults
  /\ faults' = faults + 1

-----------------------------------------------------------------------------
(* Getting the lock                                                        *)

\* NewSession; when it fails, there is no handle, and nothing to be closed.
NewSession(p) ==
  /\ pc[p] = "idle"
  /\ last < MaxSessions
  /\ last' = last + 1
  /\ leases' = leases \cup {last + 1}
  /\ session' = [session EXCEPT ![p] = last + 1]
  /\ pc' = [pc EXCEPT ![p] = "put"]
  /\ UNCHANGED <<mode, keys, rev, clock, watch, faults>>

\* The transaction of Campaign or Mutex.Lock puts the key, ...
PutKey(p) ==
  /\ pc[p] = "put"
  /\ session[p] \in leases
  /\ clock' = clock + 1
  /\ rev' = [rev EXCEPT ![session[p]] = clock + 1]
  /\ keys' = keys \cup {session[p]}
  /\ pc' = [pc EXCEPT ![p] = "wait"]
  /\ UNCHANGED <<mode, session, last, leases, watch, faults>>

\* ... unless the call fails or the lease is gone. A call that fails may have
\* put the key.
PutFails(p) ==
  /\ pc[p] = "put"
  /\ \/ /\ session[p] \notin leases
        /\ UNCHANGED <<clock, rev, keys, faults>>
     \/ Fault /\ UNCHANGED <<clock, rev, keys>>
     \/ /\ Fault
        /\ session[p] \in leases
        /\ clock' = clock + 1
        /\ rev' = [rev EXCEPT ![session[p]] = clock + 1]
        /\ keys' = keys \cup {session[p]}
  /\ pc' = [pc EXCEPT ![p] = "failed"]
  /\ UNCHANGED <<mode, session, last, leases, watch>>

\* Mutant of Granted: a contender waits for the last key before its own only.
GrantedNext(p) ==
  /\ pc[p] = "wait"
  /\ \A i \in keys : rev[i] # rev[session[p]] - 1
  /\ pc' = [pc EXCEPT ![p] = "held"]
  /\ UNCHANGED <<mode, session, last, etcdVars, watch, faults>>

\* waitDeletes: no key is left that was created earlier.
Granted(p) ==
  /\ pc[p] = "wait"
  /\ \A i \in keys : rev[i] >= rev[session[p]]
  /\ pc' = [pc EXCEPT ![p] = "held"]
  /\ UNCHANGED <<mode, session, last, etcdVars, watch, faults>>

\* The context of the call is done: the key is deleted.
Cancel(p) ==
  /\ pc[p] = "wait"
  /\ keys' = keys \ {session[p]}
  /\ pc' = [pc EXCEPT ![p] = "failed"]
  /\ UNCHANGED <<mode, session, last, leases, rev, clock, watch, faults>>

\* Mutant of WaitFails: there is no handle, and the session is never closed.
WaitFailsNil(p) ==
  /\ pc[p] = "wait"
  /\ Fault
  /\ keys' = IF mode = "lock" THEN keys \ {session[p]} ELSE keys
  /\ pc' = [pc EXCEPT ![p] = "gone"]
  /\ UNCHANGED <<mode, session, last, leases, rev, clock, watch>>

\* The wait fails for another reason: a mutex deletes its key, an election
\* keeps it.
WaitFails(p) ==
  /\ pc[p] = "wait"
  /\ Fault
  /\ keys' = IF mode = "lock" THEN keys \ {session[p]} ELSE keys
  /\ pc' = [pc EXCEPT ![p] = "failed"]
  /\ UNCHANGED <<mode, session, last, leases, rev, clock, watch>>

-----------------------------------------------------------------------------
(* Being told, and giving up                                               *)

\* Status: the goroutine reads what Observe tells of the election.
Status(p) ==
  /\ mode = "lead"
  /\ pc[p] = "held"
  /\ watch[p] = "off"
  /\ watch' = [watch EXCEPT ![p] = "on"]
  /\ UNCHANGED <<mode, pc, session, last, etcdVars, faults>>

First(i) == i \in keys /\ \A j \in keys : rev[i] <= rev[j]

\* Mutant of Told: the goroutine is told of its own proposal only.
ToldOfItself(p) ==
  /\ watch[p] = "on"
  /\ \E i \in keys : First(i) /\ i = session[p]
  /\ pc[p] = "released"
  /\ watch' = [watch EXCEPT ![p] = "told"]
  /\ UNCHANGED <<mode, pc, session, last, etcdVars, faults>>

\* It tells the leader when the value of another one is observed, ...
Told(p) ==
  /\ watch[p] = "on"
  /\ \E i \in keys : First(i) /\ i # session[p]
  /\ watch' = [watch EXCEPT ![p] = "told"]
  /\ UNCHANGED <<mode, pc, session, last, etcdVars, faults>>

\* ... and ends without a word when Observe does.
WatchBreaks(p) ==
  /\ watch[p] = "on"
  /\ Fault
  /\ watch' = [watch EXCEPT ![p] = "broken"]
  /\ UNCHANGED <<mode, pc, session, last, etcdVars>>

\* Resign or Unlock; when it fails, the key may stay until the session ends.
Release(p) ==
  /\ pc[p] = "held"
  /\ \/ keys' = keys \ {session[p]} /\ UNCHANGED faults
     \/ Fault /\ UNCHANGED keys
  /\ pc' = [pc EXCEPT ![p] = "released"]
  /\ UNCHANGED <<mode, session, last, leases, rev, clock, watch>>

EndLease(i) ==
  /\ leases' = leases \ {i}
  /\ keys' = keys \ {i}

\* Close of a handle revokes the lease; when that fails, nobody keeps the lease
\* alive any more.
Close(p) ==
  /\ pc[p] \in {"held", "released", "failed"}
  /\ \/ EndLease(session[p]) /\ UNCHANGED faults
     \/ Fault /\ UNCHANGED <<leases, keys>>
  /\ pc' = [pc EXCEPT ![p] = "idle"]
  /\ session' = [session EXCEPT ![p] = 0]
  /\ watch' = [watch EXCEPT ![p] = "off"]
  /\ UNCHANGED <<mode, last, rev, clock>>

-----------------------------------------------------------------------------
(* Leases                                                                  *)

Orphans == leases \ {session[p] : p \in Proc}

\* A lease that nobody keeps alive runs out.
OrphanExpires(i) ==
  /\ i \in Orphans
  /\ EndLease(i)
  /\ UNCHANGED <<mode, pc, session, last, rev, clock, watch, faults>>

\* The lease of a session runs out although it is in use.
Expire(p) ==
  /\ session[p] \in leases
  /\ Fault
  /\ EndLease(session[p])
  /\ UNCHANGED <<mode, pc, session, last, rev, clock, watch>>

Crash(p) ==
  /\ pc[p] # "idle"
  /\ Fault
  /\ pc' = [pc EXCEPT ![p] = "idle"]
  /\ session' = [session EXCEPT ![p] = 0]
  /\ watch' = [watch EXCEPT ![p] = "off"]
  /\ UNCHANGED <<mode, last, etcdVars>>

-----------------------------------------------------------------------------
Contend(p) == PutKey(p) \/ PutFails(p) \/ Granted(p)

Next ==
  \/ \E p \in Proc :
       \/ NewSession(p) \/ Contend(p) \/ Cancel(p) \/ WaitFails(p)
       \/ Status(p) \/ Told(p) \/ WatchBreaks(p)
       \/ Release(p) \/ Close(p) \/ Expire(p) \/ Crash(p)
  \/ \E i \in Session : OrphanExpires(i)

Spec == Init /\ [][Next]_vars

(***************************************************************************)
(* Calls return, watches report, leases run out. A caller closes handles   *)
(* that failed or were released, as it has to; nothing makes it give up a  *)
(* lock that it holds.                                                     *)
(***************************************************************************)
Fairness ==
  /\ \A p \in Proc :
       /\ WF_vars(Contend(p))
       /\ WF_vars(Told(p))
       /\ WF_vars(pc[p] # "held" /\ Close(p))
  /\ \A i \in Session : WF_vars(OrphanExpires(i))

FairSpec == Spec /\ Fairness

-----------------------------------------------------------------------------
(* Properties                                                              *)

TypeOK ==
  /\ mode \in {"lead", "lock"}
  /\ pc \in [Proc -> {"idle", "put", "wait", "held", "released", "failed"}]
  /\ last \in 0 .. MaxSessions
  /\ session \in [Proc -> 0 .. last]
  /\ \A p \in Proc : pc[p] = "idle" <=> session[p] = 0
  /\ leases \subseteq 1 .. last
  /\ keys \subseteq leases
  /\ clock \in Nat
  /\ rev \in [Session -> 0 .. clock]
  /\ watch \in [Proc -> {"off", "on", "told", "broken"}]
  /\ faults \in 0 .. MaxFaults

\* Who has been granted the lock and has not lost it since
Owner(p) == pc[p] = "held" /\ session[p] \in keys

\* Of all that believe to hold the lock at most one does: two holders whose
\* leases are both alive are the same, whatever expired, failed and crashed in
\* between.
MutualExclusion == \A p, q \in Proc : Owner(p) /\ Owner(q) => p = q

Lock == INSTANCE LeasedLock
          WITH Contender <- Proc,
               owner <- IF \E p \in Proc : Owner(p)
                          THEN CHOOSE p \in Proc : Owner(p)
                          ELSE Nobody

\* Sessions, keys and revisions implement a lock that is passed on only after
\* its owner has lost it.
ImplementsLock == Lock!Spec

\* Nobody waits for ever for a lock that nobody holds: keys of contenders that
\* failed, gave up or died go away.
WaitEnds ==
  \A p \in Proc : pc[p] = "wait" ~> pc[p] # "wait" \/ \E q \in Proc : pc[q] = "held"

Superseded(p) ==
  /\ pc[p] = "held"
  /\ watch[p] = "on"
  /\ \E q \in Proc : q # p /\ Owner(q)

\* A leader that watches its status learns that it has been superseded, unless
\* its watch breaks or the new leader has gone before.
SupersededIsTold == \A p \in Proc : Superseded(p) ~> ~ Superseded(p)

=============================================================================
