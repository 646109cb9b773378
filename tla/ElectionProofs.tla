--------------------------- MODULE ElectionProofs ---------------------------
(***************************************************************************)
(* Proofs about Election, for any number of processes, sessions and        *)
(* faults. Mutual exclusion rests on three facts about keys: each key was  *)
(* put at a revision of its own, no two handles have the same session, and *)
(* the key of whoever holds the lock is the oldest there is. That the lock *)
(* is passed on only after its owner has lost it then follows from mutual  *)
(* exclusion after each step.                                              *)
(***************************************************************************)
EXTENDS Election, TLAPS

\* No two handles have the same session.
OwnSessions == \A p, q \in Proc : session[p] = session[q] /\ session[p] # 0 => p = q

\* Each key was put at a revision of its own.
OwnRevisions ==
  \A i, j \in keys : rev[i] = rev[j] => i = j

\* The key of whoever holds the lock is the oldest.
OwnerFirst == \A p \in Proc : Owner(p) => \A i \in keys : rev[i] >= rev[session[p]]

Inv == TypeOK /\ OwnSessions /\ OwnRevisions /\ OwnerFirst

-----------------------------------------------------------------------------
(* The invariant                                                           *)

\* Initially nobody has a session.
LEMMA InitInv == Init => Inv
  BY ElectionAssumption
     DEF Init, Inv, TypeOK, OwnSessions, OwnRevisions, OwnerFirst, Owner, Session

\* A new session is one that nobody has and that has no key.
LEMMA NewSessionInv ==
  ASSUME Inv, NEW p \in Proc, NewSession(p)
  PROVE  Inv'
<1> USE ElectionAssumption
<1>1. TypeOK'
  BY DEF Inv, TypeOK, NewSession, Session
<1>2. OwnSessions'
  BY DEF Inv, TypeOK, OwnSessions, NewSession
<1>3. OwnRevisions'
  BY DEF Inv, OwnRevisions, NewSession
<1>4. OwnerFirst'
  BY DEF Inv, TypeOK, OwnerFirst, Owner, NewSession
<1> QED
  BY <1>1, <1>2, <1>3, <1>4 DEF Inv

\* What PutKey does to the store, and PutFails when the answer is lost
PutAtRevision(p) ==
  /\ session[p] \in leases
  /\ clock' = clock + 1
  /\ rev' = [rev EXCEPT ![session[p]] = clock + 1]
  /\ keys' = keys \cup {session[p]}

\* A key that is put is younger than all others.
LEMMA PutInv ==
  ASSUME Inv, NEW p \in Proc, NEW to \in {"wait", "failed"},
         pc[p] = "put", PutAtRevision(p), pc' = [pc EXCEPT ![p] = to],
         faults' \in 0 .. MaxFaults,
         UNCHANGED <<mode, session, last, leases, watch>>
  PROVE  Inv'
<1> USE ElectionAssumption DEF PutAtRevision
<1>0. session[p] \in Session /\ clock \in Nat
  BY DEF Inv, TypeOK, Session
<1>1. TypeOK'
  <2>1. pc' \in [Proc -> {"idle", "put", "wait", "held", "released", "failed"}]
    BY DEF Inv, TypeOK
  <2>2. rev' \in [Session -> 0 .. clock']
    BY <1>0 DEF Inv, TypeOK
  <2>3. \A q \in Proc : pc'[q] = "idle" <=> session'[q] = 0
    BY <1>0 DEF Inv, TypeOK, Session
  <2>4. keys \subseteq leases
    BY DEF Inv, TypeOK
  <2>5. keys' \subseteq leases'
    BY <2>4
  <2>6. clock' \in Nat
    BY <1>0
  <2> QED
    BY <2>1, <2>2, <2>3, <2>5, <2>6 DEF Inv, TypeOK
<1>2. OwnSessions'
  BY DEF Inv, OwnSessions
<1>3. \A i \in keys : i \in Session /\ rev[i] \in 0 .. clock
  BY DEF Inv, TypeOK, Session
<1>4. /\ rev'[session[p]] = clock + 1
      /\ \A i \in keys \ {session[p]} : rev'[i] = rev[i]
  BY <1>0, <1>3 DEF Inv, TypeOK
<1>5. OwnRevisions'
  BY <1>0, <1>3, <1>4 DEF Inv, OwnRevisions
<1>6. OwnerFirst'
  <2> SUFFICES ASSUME NEW q \in Proc, Owner(q)', NEW i \in keys'
               PROVE  rev'[i] >= rev'[session[q]]
    BY DEF OwnerFirst
  <2>1. q # p /\ pc[q] = "held"
    BY DEF Owner, Inv, TypeOK
  <2>2. session[q] # session[p]
    BY <1>0, <2>1 DEF Inv, OwnSessions, Session
  <2>3. Owner(q) /\ session[q] \in keys \ {session[p]}
    BY <2>1, <2>2 DEF Owner
  <2>4. CASE i = session[p]
    BY <1>0, <1>3, <1>4, <2>3, <2>4
  <2>5. CASE i # session[p]
    BY <1>3, <1>4, <2>3, <2>5 DEF Inv, OwnerFirst
  <2> QED
    BY <2>4, <2>5
<1> QED
  BY <1>1, <1>2, <1>5, <1>6 DEF Inv

\* What all steps have in common that take keys away and give none: the rest
\* of the store stays, and who has a handle keeps its session or closes it.
Shrinks ==
  /\ keys' \subseteq keys
  /\ leases' \subseteq leases
  /\ \A q \in Proc : session'[q] \in {session[q], 0}
  /\ \A q \in Proc : Owner(q)' => Owner(q) /\ session'[q] = session[q]
  /\ UNCHANGED <<last, rev, clock>>

\* Such a step keeps the facts about keys.
LEMMA ShrinksInv ==
  ASSUME Inv, Shrinks, TypeOK'
  PROVE  Inv'
<1>1. OwnSessions'
  BY DEF Inv, OwnSessions, Shrinks
<1>2. OwnRevisions'
  BY DEF Inv, OwnRevisions, Shrinks
<1>3. OwnerFirst'
  BY DEF Inv, OwnerFirst, Shrinks
<1> QED
  BY <1>1, <1>2, <1>3 DEF Inv

\* Who is granted the lock has the oldest key, if any.
LEMMA GrantedInv ==
  ASSUME Inv, NEW p \in Proc, Granted(p)
  PROVE  Inv'
<1>1. TypeOK'
  BY DEF Inv, TypeOK, Granted, etcdVars
<1>2. OwnSessions' /\ OwnRevisions'
  BY DEF Inv, OwnSessions, OwnRevisions, Granted, etcdVars
<1>3. OwnerFirst'
  BY DEF Inv, TypeOK, OwnerFirst, Owner, Granted, etcdVars
<1> QED
  BY <1>1, <1>2, <1>3 DEF Inv

\* All other steps of a process but Granted, NewSession and those that put a key
GivesUp(p) ==
  \/ pc[p] = "put" /\ PutFails(p) /\ UNCHANGED <<clock, rev, keys>>
  \/ Cancel(p) \/ WaitFails(p) \/ Status(p) \/ Told(p) \/ WatchBreaks(p)
  \/ Release(p) \/ Close(p) \/ Expire(p) \/ Crash(p)

\* They give no key.
LEMMA GivesUpShrinks ==
  ASSUME Inv, NEW p \in Proc, GivesUp(p)
  PROVE  Shrinks /\ TypeOK'
<1> USE ElectionAssumption
<1>1. CASE pc[p] = "put" /\ PutFails(p) /\ UNCHANGED <<clock, rev, keys>>
  BY <1>1 DEF Inv, TypeOK, Shrinks, Owner, PutFails, Fault
<1>2. CASE Cancel(p)
  BY <1>2 DEF Inv, TypeOK, Shrinks, Owner, Cancel
<1>3. CASE WaitFails(p)
  <2>1. Shrinks
    BY <1>3 DEF Inv, TypeOK, Shrinks, Owner, WaitFails, Fault
  <2>2. /\ pc' \in [Proc -> {"idle", "put", "wait", "held", "released", "failed"}]
        /\ session' \in [Proc -> 0 .. last]
        /\ \A q \in Proc : pc'[q] = "idle" <=> session'[q] = 0
    BY <1>3 DEF Inv, TypeOK, WaitFails, Fault
  <2>3. /\ watch' \in [Proc -> {"off", "on", "told", "broken"}]
        /\ faults' \in 0 .. MaxFaults
        /\ mode' = mode
    BY <1>3 DEF Inv, TypeOK, WaitFails, Fault
  <2>4. keys' \subseteq leases'
    BY <1>3 DEF Inv, TypeOK, WaitFails, Fault
  <2> QED
    BY <2>1, <2>2, <2>3, <2>4 DEF Shrinks, Inv, TypeOK
<1>4. CASE Status(p) \/ Told(p) \/ WatchBreaks(p)
  <2>1. Shrinks
    BY <1>4 DEF Inv, TypeOK, Shrinks, Owner, Status, Told, WatchBreaks, Fault, etcdVars
  <2>2. /\ pc' \in [Proc -> {"idle", "put", "wait", "held", "released", "failed"}]
        /\ session' \in [Proc -> 0 .. last]
        /\ \A q \in Proc : pc'[q] = "idle" <=> session'[q] = 0
    BY <1>4 DEF Inv, TypeOK, Status, Told, WatchBreaks, Fault, etcdVars
  <2>3. /\ watch' \in [Proc -> {"off", "on", "told", "broken"}]
        /\ faults' \in 0 .. MaxFaults
        /\ mode' = mode
    BY <1>4 DEF Inv, TypeOK, Status, Told, WatchBreaks, Fault, etcdVars
  <2>4. keys' \subseteq leases'
    BY <1>4 DEF Inv, TypeOK, Status, Told, WatchBreaks, Fault, etcdVars
  <2> QED
    BY <2>1, <2>2, <2>3, <2>4 DEF Shrinks, Inv, TypeOK
<1>5. CASE Release(p)
  <2>1. Shrinks
    BY <1>5 DEF Inv, TypeOK, Shrinks, Owner, Release, Fault
  <2>2. /\ pc' \in [Proc -> {"idle", "put", "wait", "held", "released", "failed"}]
        /\ session' \in [Proc -> 0 .. last]
        /\ \A q \in Proc : pc'[q] = "idle" <=> session'[q] = 0
    BY <1>5 DEF Inv, TypeOK, Release, Fault
  <2>3. /\ watch' \in [Proc -> {"off", "on", "told", "broken"}]
        /\ faults' \in 0 .. MaxFaults
        /\ mode' = mode
    BY <1>5 DEF Inv, TypeOK, Release, Fault
  <2>4. keys' \subseteq leases'
    BY <1>5 DEF Inv, TypeOK, Release, Fault
  <2> QED
    BY <2>1, <2>2, <2>3, <2>4 DEF Shrinks, Inv, TypeOK
<1>6. CASE Close(p)
  <2>1. Shrinks
    BY <1>6 DEF Inv, TypeOK, Shrinks, Owner, Close, EndLease, Fault
  <2>2. /\ pc' \in [Proc -> {"idle", "put", "wait", "held", "released", "failed"}]
        /\ session' \in [Proc -> 0 .. last]
        /\ \A q \in Proc : pc'[q] = "idle" <=> session'[q] = 0
    BY <1>6 DEF Inv, TypeOK, Close, EndLease, Fault
  <2>3. /\ watch' \in [Proc -> {"off", "on", "told", "broken"}]
        /\ faults' \in 0 .. MaxFaults
        /\ mode' = mode
    BY <1>6 DEF Inv, TypeOK, Close, EndLease, Fault
  <2>4. keys' \subseteq leases'
    BY <1>6 DEF Inv, TypeOK, Close, EndLease, Fault
  <2> QED
    BY <2>1, <2>2, <2>3, <2>4 DEF Shrinks, Inv, TypeOK
<1>7. CASE Expire(p)
  <2>1. Shrinks
    BY <1>7 DEF Inv, TypeOK, Shrinks, Owner, Expire, EndLease, Fault
  <2>2. /\ pc' \in [Proc -> {"idle", "put", "wait", "held", "released", "failed"}]
        /\ session' \in [Proc -> 0 .. last]
        /\ \A q \in Proc : pc'[q] = "idle" <=> session'[q] = 0
    BY <1>7 DEF Inv, TypeOK, Expire, EndLease, Fault
  <2>3. /\ watch' \in [Proc -> {"off", "on", "told", "broken"}]
        /\ faults' \in 0 .. MaxFaults
        /\ mode' = mode
    BY <1>7 DEF Inv, TypeOK, Expire, EndLease, Fault
  <2>4. keys' \subseteq leases'
    BY <1>7 DEF Inv, TypeOK, Expire, EndLease, Fault
  <2> QED
    BY <2>1, <2>2, <2>3, <2>4 DEF Shrinks, Inv, TypeOK
<1>8. CASE Crash(p)
  <2>1. Shrinks
    BY <1>8 DEF Inv, TypeOK, Shrinks, Owner, Crash, Fault, etcdVars
  <2>2. /\ pc' \in [Proc -> {"idle", "put", "wait", "held", "released", "failed"}]
        /\ session' \in [Proc -> 0 .. last]
        /\ \A q \in Proc : pc'[q] = "idle" <=> session'[q] = 0
    BY <1>8 DEF Inv, TypeOK, Crash, Fault, etcdVars
  <2>3. /\ watch' \in [Proc -> {"off", "on", "told", "broken"}]
        /\ faults' \in 0 .. MaxFaults
        /\ mode' = mode
    BY <1>8 DEF Inv, TypeOK, Crash, Fault, etcdVars
  <2>4. keys' \subseteq leases'
    BY <1>8 DEF Inv, TypeOK, Crash, Fault, etcdVars
  <2> QED
    BY <2>1, <2>2, <2>3, <2>4 DEF Shrinks, Inv, TypeOK
<1> QED
  BY <1>1, <1>2, <1>3, <1>4, <1>5, <1>6, <1>7, <1>8 DEF GivesUp

\* A lease that nobody keeps alive belongs to nobody who holds the lock.
LEMMA OrphanShrinks ==
  ASSUME Inv, NEW i \in Session, OrphanExpires(i)
  PROVE  Shrinks /\ TypeOK'
  BY DEF Inv, TypeOK, Shrinks, Owner, OrphanExpires, Orphans, EndLease

\* The kinds of steps of a process
LEMMA StepKinds ==
  ASSUME Inv, Next
  PROVE  \/ \E p \in Proc : NewSession(p) \/ Granted(p) \/ GivesUp(p)
         \/ \E p \in Proc : \E to \in {"wait", "failed"} :
              /\ pc[p] = "put"
              /\ PutAtRevision(p)
              /\ pc' = [pc EXCEPT ![p] = to]
              /\ faults' \in 0 .. MaxFaults
              /\ UNCHANGED <<mode, session, last, leases, watch>>
         \/ \E i \in Session : OrphanExpires(i)
<1> USE ElectionAssumption
<1>1. ASSUME NEW p \in Proc, PutKey(p)
      PROVE  \E to \in {"wait", "failed"} :
              /\ pc[p] = "put"
              /\ PutAtRevision(p)
              /\ pc' = [pc EXCEPT ![p] = to]
              /\ faults' \in 0 .. MaxFaults
              /\ UNCHANGED <<mode, session, last, leases, watch>>
  BY <1>1 DEF PutKey, PutAtRevision, Inv, TypeOK
<1>2. ASSUME NEW p \in Proc, PutFails(p), ~ UNCHANGED <<clock, rev, keys>>
      PROVE  \E to \in {"wait", "failed"} :
              /\ pc[p] = "put"
              /\ PutAtRevision(p)
              /\ pc' = [pc EXCEPT ![p] = to]
              /\ faults' \in 0 .. MaxFaults
              /\ UNCHANGED <<mode, session, last, leases, watch>>
  BY <1>2 DEF PutFails, PutAtRevision, Fault, Inv, TypeOK
<1>3. ASSUME NEW p \in Proc, PutFails(p), UNCHANGED <<clock, rev, keys>>
      PROVE  GivesUp(p)
  BY <1>3 DEF PutFails, GivesUp
<1> QED
  BY <1>1, <1>2, <1>3 DEF Next, Contend, GivesUp

\* Every step keeps the invariant.
LEMMA NextInv == Inv /\ [Next]_vars => Inv'
<1> SUFFICES ASSUME Inv, [Next]_vars PROVE Inv'
  OBVIOUS
<1>1. CASE Next
  <2>1. ASSUME NEW p \in Proc, NewSession(p) PROVE Inv'
    BY <2>1, NewSessionInv
  <2>2. ASSUME NEW p \in Proc, Granted(p) PROVE Inv'
    BY <2>2, GrantedInv
  <2>3. ASSUME NEW p \in Proc, GivesUp(p) PROVE Inv'
    BY <2>3, GivesUpShrinks, ShrinksInv
  <2>4. ASSUME NEW i \in Session, OrphanExpires(i) PROVE Inv'
    BY <2>4, OrphanShrinks, ShrinksInv
  <2>5. ASSUME NEW p \in Proc, NEW to \in {"wait", "failed"},
               pc[p] = "put", PutAtRevision(p), pc' = [pc EXCEPT ![p] = to],
               faults' \in 0 .. MaxFaults,
               UNCHANGED <<mode, session, last, leases, watch>>
        PROVE  Inv'
    BY <2>5, PutInv
  <2> HIDE DEF Inv
  <2> QED
    BY <1>1, <2>1, <2>2, <2>3, <2>4, <2>5, StepKinds
<1>2. CASE UNCHANGED vars
  BY <1>2 DEF vars, etcdVars, Inv, TypeOK, OwnSessions, OwnRevisions, OwnerFirst, Owner
<1> QED
  BY <1>1, <1>2

\* The invariant excludes two owners.
LEMMA InvExcludes == Inv => MutualExclusion
<1> SUFFICES ASSUME Inv, NEW p \in Proc, NEW q \in Proc, Owner(p), Owner(q)
             PROVE  p = q
  BY DEF MutualExclusion
<1>1. session[p] \in keys /\ session[q] \in keys
  BY DEF Owner
<1>2. \A i \in keys : i \in Session /\ rev[i] \in Nat
  BY ElectionAssumption DEF Inv, TypeOK, Session
<1>3. rev[session[p]] = rev[session[q]]
  BY <1>1, <1>2 DEF Inv, OwnerFirst
<1>4. session[p] = session[q] /\ session[p] # 0
  BY <1>1, <1>2, <1>3 DEF Inv, OwnRevisions, Session
<1> QED
  BY <1>4 DEF Inv, OwnSessions

\* The inductive invariant holds in every state.
LEMMA SpecInv == Spec => []Inv
<1> QED
  BY InitInv, NextInv, PTL DEF Spec

\* Types, keys live within leases, and a process has a session exactly while
\* it has a handle.
THEOREM TypeCorrect == Spec => []TypeOK
<1>1. Inv => TypeOK
  BY DEF Inv
<1> QED
  BY <1>1, SpecInv, PTL

\* Whatever expired, failed and crashed, of all that were granted the lock at
\* most one has its key still.
THEOREM Exclusive == Spec => []MutualExclusion
<1> QED
  BY InvExcludes, SpecInv, PTL

-----------------------------------------------------------------------------
(* The refinement                                                          *)

\* The owner of the abstract lock
owner ==
  IF \E p \in Proc : Owner(p) THEN CHOOSE p \in Proc : Owner(p) ELSE Nobody

\* It is the process that owns the lock, if there is one.
LEMMA OwnerIs ==
  MutualExclusion =>
    /\ \A p \in Proc : Owner(p) => owner = p
    /\ (\A p \in Proc : ~ Owner(p)) => owner = Nobody
<1> HIDE DEF Owner
<1> QED
  BY DEF MutualExclusion, owner

\* A process becomes owner only when there is none.
LEMMA BecomesOwner ==
  ASSUME Inv, Next, MutualExclusion', NEW p \in Proc, Owner(p)', ~ Owner(p)
  PROVE  \A q \in Proc : ~ Owner(q)
<1>1. ASSUME NEW r \in Proc, NewSession(r) PROVE FALSE
  BY <1>1 DEF NewSession, Owner, Inv, TypeOK
<1>2. ASSUME NEW r \in Proc, GivesUp(r) PROVE FALSE
  BY <1>2, GivesUpShrinks DEF Shrinks
<1>3. ASSUME NEW i \in Session, OrphanExpires(i) PROVE FALSE
  BY <1>3, OrphanShrinks DEF Shrinks
<1>4. ASSUME NEW r \in Proc, NEW to \in {"wait", "failed"},
             pc[r] = "put", PutAtRevision(r), pc' = [pc EXCEPT ![r] = to],
             UNCHANGED <<mode, session, last, leases, watch>>
      PROVE  FALSE
  <2>1. p # r /\ pc[p] = "held"
    BY <1>4 DEF Owner, Inv, TypeOK
  <2>2. session[r] # 0
    BY <1>4 DEF Inv, TypeOK
  <2>3. session[p] # session[r]
    BY <2>1, <2>2 DEF Inv, OwnSessions
  <2> QED
    BY <1>4, <2>1, <2>3 DEF Owner, PutAtRevision
<1>5. ASSUME NEW r \in Proc, Granted(r), NEW q \in Proc, Owner(q) PROVE FALSE
  <2>1. Owner(q)'
    BY <1>5 DEF Granted, Owner, Inv, TypeOK, etcdVars
  <2>2. q = p
    BY <2>1 DEF MutualExclusion
  <2> QED
    BY <1>5, <2>2
<1> QED
  BY <1>1, <1>2, <1>3, <1>4, <1>5, StepKinds

\* The lock starts without an owner.
LEMMA InitLock == Init => Lock!Init
  BY DEF Init, Lock!Init, Owner

\* Every step is one of the lock, or none.
LEMMA NextLock ==
  ASSUME Inv, Inv', [Next]_vars
  PROVE  [Lock!Next]_owner
<1>1. MutualExclusion /\ MutualExclusion'
  BY InvExcludes, PTL
<1>a. /\ \A p \in Proc : Owner(p) => owner = p
      /\ (\A p \in Proc : ~ Owner(p)) => owner = Nobody
  BY <1>1, OwnerIs
<1>b. /\ \A p \in Proc : Owner(p)' => owner' = p
      /\ (\A p \in Proc : ~ Owner(p)') => owner' = Nobody
  <2>1. (/\ \A p \in Proc : Owner(p) => owner = p
         /\ (\A p \in Proc : ~ Owner(p)) => owner = Nobody)'
    BY <1>1, OwnerIs, PTL
  <2> QED
    BY <2>1
<1>2. CASE UNCHANGED vars
  BY <1>2 DEF vars, etcdVars, owner, Owner
<1>3. CASE Next
  <2>1. CASE \E p \in Proc : Owner(p)' /\ Owner(p)
    BY <1>a, <1>b, <2>1
  <2>2. CASE \A p \in Proc : ~ Owner(p)'
    BY <1>a, <1>b, <2>2 DEF Lock!Next, Lock!Lose, owner
  <2>3. ASSUME NEW p \in Proc, Owner(p)', ~ Owner(p)
        PROVE  Lock!Next
    BY <1>1, <1>3, <1>a, <1>b, <2>3, BecomesOwner DEF owner, Lock!Next, Lock!Acquire
  <2> QED
    BY <2>1, <2>2, <2>3
<1> QED
  BY <1>2, <1>3

\* Sessions, keys and revisions implement a lock that is passed on only after
\* its owner has lost it.
THEOREM LockRefined == Spec => ImplementsLock
<1>1. Inv /\ Inv' /\ [Next]_vars => [Lock!Next]_owner
  BY NextLock
<1> QED
  BY <1>1, InitLock, SpecInv, PTL DEF Spec, ImplementsLock, Lock!Spec, owner

=============================================================================
