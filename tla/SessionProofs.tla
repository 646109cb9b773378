---------------------------- MODULE SessionProofs ----------------------------
(***************************************************************************)
(* Proofs about Session, for any number of users, handlers, addresses and  *)
(* sessions and for every timeout and login restriction.                   *)
(***************************************************************************)
EXTENDS Session, TLAPS

\* The types of what handlers share
SharedOK ==
  /\ now \in Nat
  /\ store \in [User -> Key \cup {NoKey}]
  /\ lease \in [User -> Nat]
  /\ row \in [User -> Row]
  /\ lastMagic \in Nat
  /\ issued \subseteq Key
  /\ raced \subseteq Nat

\* The types of what belongs to a handler, and its position
HandlerOK ==
  /\ pc \in [Handler -> Step]
  /\ req \in [Handler -> Request \cup {NoReq}]
  /\ seen \in [Handler -> Row]
  /\ key \in [Handler -> Key \cup {NoKey}]
  /\ granted \in [Handler -> Nat]
  /\ retries \in [Handler -> Nat]
  /\ \A h \in Handler :
       IF pc[h] = "idle" THEN req[h] = NoReq
       ELSE req[h] \in Request /\ pc[h] \in StepOf(req[h].op)


\* What holds of a busy handler: a verification presents a key that some handler has
\* returned, and updates a session only from the address of that key; a login past
\* loginUser has read a row that allows it; what a login or a verification puts in
\* the store and returns on commit is a key.
HandlerGood(h) ==
  /\ pc[h] # "idle" /\ req[h].op = "verify" => req[h].key \in issued
  /\ pc[h] = "update" => req[h].ip = req[h].key.ip
  /\ pc[h] \in {"get", "delete", "put", "grant", "write", "commit"} /\ req[h].op = "login"
       => ~ Restricted(seen[h], now)
  /\ pc[h] \in {"grant", "write", "commit"} /\ req[h].op \in {"login", "verify"}
       => key[h] # NoKey

\* No key runs ahead of the magic numbers drawn, or of the clock.
KeysBounded ==
  \A k \in KnownKeys : k.magic <= lastMagic /\ k.expiry <= now + Timeout

\* A key is stored under the user it names.
StoredUnderUser ==
  \A u \in User : store[u] # NoKey => store[u].user = u

\* A handler that has built its key and not put it in the store yet
Pending(h) == pc[h] \in {"grant", "write"}

\* The keys that are in the store or have been there
Settled ==
  (issued \cup {store[u] : u \in User}
     \cup {key[h] : h \in {g \in Handler : ~ Pending(g)}}) \ {NoKey}

\* Of a session of which no two keys were being put at a time, the lease lasts as
\* long as every settled key.
LeaseCovers ==
  \A u \in User : \A k \in Settled :
    store[u] # NoKey /\ store[u].magic = k.magic /\ k.magic \notin raced
      => k.expiry <= lease[u]

\* Of such a session at most one key is pending, and it is the youngest.
PendingYoungest ==
  \A h \in Handler : Pending(h) /\ key[h].magic \notin raced =>
    /\ \A g \in Handler \ {h} : Pending(g) => key[g].magic # key[h].magic
    /\ \A k \in Settled : k.magic = key[h].magic => k.expiry <= key[h].expiry

\* A lease is granted after the key was built.
GrantCovers ==
  \A h \in Handler : pc[h] = "write" => key[h].expiry <= granted[h]

\* What holds of the keys
KeysGood ==
  /\ KeysBounded
  /\ StoredUnderUser
  /\ SessionBoundToClient
  /\ LeaseCovers
  /\ PendingYoungest
  /\ GrantCovers

\* The inductive invariant
Inv ==
  /\ SharedOK
  /\ HandlerOK
  /\ \A h \in Handler : HandlerGood(h)
  /\ KeysGood

-----------------------------------------------------------------------------
(* Lemmas about the parts of the invariant                                 *)

\* The type invariant has a part for each of the two.
LEMMA TypeOKSplit == TypeOK <=> SharedOK /\ HandlerOK
  BY DEF TypeOK, SharedOK, HandlerOK

\* A handler that returns is idle, and the others stay as they are.
LEMMA FinishOK ==
  ASSUME HandlerOK, NEW h \in Handler, Finish(h)
  PROVE  /\ HandlerOK'
         /\ pc'[h] = "idle" /\ key'[h] = NoKey
         /\ \A g \in Handler \ {h} :
              /\ pc'[g] = pc[g] /\ req'[g] = req[g] /\ granted'[g] = granted[g]
              /\ seen'[g] = seen[g] /\ key'[g] = key[g]
<1>1. [count |-> 0, at |-> 0] \in Row
  BY DEF Row
<1>2. "idle" \in Step
  BY DEF Step
<1>3. pc' = [pc EXCEPT ![h] = "idle"]
  BY DEF Finish, Goto
<1>4. /\ pc' \in [Handler -> Step]
      /\ req' \in [Handler -> Request \cup {NoReq}]
      /\ seen' \in [Handler -> Row]
      /\ key' \in [Handler -> Key \cup {NoKey}]
      /\ granted' \in [Handler -> Nat]
      /\ retries' \in [Handler -> Nat]
  BY <1>1, <1>2, <1>3 DEF HandlerOK, Finish
<1>5. pc'[h] = "idle" /\ key'[h] = NoKey /\ req'[h] = NoReq
  BY <1>3 DEF HandlerOK, Finish
<1>6. \A g \in Handler \ {h} :
        /\ pc'[g] = pc[g] /\ req'[g] = req[g] /\ granted'[g] = granted[g]
        /\ seen'[g] = seen[g] /\ key'[g] = key[g]
  BY <1>3 DEF HandlerOK, Finish
<1> QED
  BY <1>4, <1>5, <1>6 DEF HandlerOK

\* A busy handler that goes on with its operation keeps its request.
LEMMA GotoOK ==
  ASSUME HandlerOK, NEW h \in Handler, NEW step \in Step, pc[h] # "idle",
         step \in StepOf(req[h].op), step # "idle",
         Goto(h, step), UNCHANGED req,
         seen' \in [Handler -> Row], key' \in [Handler -> Key \cup {NoKey}],
         granted' \in [Handler -> Nat], retries' \in [Handler -> Nat]
  PROVE  /\ HandlerOK'
         /\ pc'[h] = step
         /\ \A g \in Handler \ {h} : pc'[g] = pc[g]
<1>1. pc' \in [Handler -> Step] /\ pc'[h] = step /\ \A g \in Handler \ {h} : pc'[g] = pc[g]
  BY DEF HandlerOK, Goto
<1> QED
  BY <1>1 DEF HandlerOK

\* A handler whose own variables do not change stays good, as time goes on and
\* other handlers return keys.
LEMMA OthersGood ==
  ASSUME SharedOK, HandlerOK, NEW g \in Handler, HandlerGood(g),
         pc'[g] = pc[g], req'[g] = req[g], seen'[g] = seen[g], key'[g] = key[g],
         issued \subseteq issued', now' = now \/ now' = now + 1
  PROVE  HandlerGood(g)'
<1>1. ~ Restricted(seen[g], now) => ~ Restricted(seen[g], now')
  <2>1. seen[g] \in Row
    BY DEF HandlerOK
  <2>2. seen[g].at \in Nat
    BY <2>1 DEF Row
  <2> QED
    BY <2>2, SessionAssumption DEF Restricted, SharedOK
<1> QED
  BY <1>1 DEF HandlerGood, Restricted

\* Every known key has the type of a key.
LEMMA KnownKeysAreKeys ==
  ASSUME SharedOK, HandlerOK
  PROVE  KnownKeys \subseteq Key
  BY DEF SharedOK, HandlerOK, KnownKeys

\* Fields of a key
LEMMA KeyFields ==
  ASSUME NEW k \in Key
  PROVE  k.user \in User /\ k.magic \in Nat /\ k.ip \in IP /\ k.expiry \in Nat
  BY DEF Key

\* No handler has built a key in this step, was granted a lease, or has put its key.
NoneBegun ==
  \A h \in Handler : Pending(h)' =>
    pc'[h] = pc[h] /\ key'[h] = key[h] /\ granted'[h] = granted[h]

\* The keys stay good when none is new and a store key is kept or removed.
LEMMA KeysKept ==
  ASSUME SharedOK, HandlerOK, KeysGood, KnownKeys' \subseteq KnownKeys,
         Settled' \subseteq Settled, NoneBegun, raced' = raced,
         now' = now \/ now' = now + 1, lastMagic' = lastMagic,
         \A u \in User : \/ store'[u] = NoKey
                         \/ store'[u] = store[u] /\ lease'[u] = lease[u]
  PROVE  KeysGood'
<1>1. KnownKeys \subseteq Key
  BY KnownKeysAreKeys
<1>2. KeysBounded'
  <2> SUFFICES ASSUME NEW k \in KnownKeys'
               PROVE  k.magic <= lastMagic' /\ k.expiry <= now' + Timeout
    BY DEF KeysBounded
  <2>1. k \in KnownKeys /\ k \in Key
    BY <1>1
  <2> QED
    BY <2>1, KeyFields, SessionAssumption DEF KeysGood, KeysBounded, SharedOK
<1>3. StoredUnderUser'
  BY DEF KeysGood, StoredUnderUser
<1>4. SessionBoundToClient'
  BY DEF KeysGood, SessionBoundToClient
<1>5. LeaseCovers'
  BY DEF KeysGood, LeaseCovers
<1>6. PendingYoungest'
  BY DEF KeysGood, PendingYoungest, NoneBegun, Pending
<1>7. GrantCovers'
  BY DEF KeysGood, GrantCovers, NoneBegun, Pending
<1> QED
  BY <1>2, <1>3, <1>4, <1>5, <1>6, <1>7 DEF KeysGood

\* Where the known keys come from
LEMMA KnownKeysStep ==
  ASSUME NEW X,
         issued' \subseteq KnownKeys \cup X,
         \A u \in User : store'[u] \in KnownKeys \cup X \cup {NoKey},
         \A g \in Handler : key'[g] \in KnownKeys \cup X \cup {NoKey}
  PROVE  KnownKeys' \subseteq KnownKeys \cup X
  BY DEF KnownKeys

\* The known keys are those at clients, in the store and in handlers' hands.
LEMMA KnownKeysHold ==
  /\ SharedOK => issued \subseteq KnownKeys
  /\ \A u \in User : store[u] \in KnownKeys \cup {NoKey}
  /\ \A g \in Handler : key[g] \in KnownKeys \cup {NoKey}
  BY SessionAssumption DEF KnownKeys, SharedOK

\* Where the settled keys come from
LEMMA SettledStep ==
  ASSUME NEW X,
         issued' \subseteq Settled \cup X,
         \A u \in User : store'[u] \in Settled \cup X \cup {NoKey},
         \A g \in Handler : Pending(g)' \/ key'[g] \in Settled \cup X \cup {NoKey}
  PROVE  Settled' \subseteq Settled \cup X
  BY DEF Settled

\* The settled keys are those at clients, in the store, and in the hands of handlers
\* that have put theirs.
LEMMA SettledHold ==
  /\ SharedOK => issued \subseteq Settled
  /\ \A u \in User : store[u] \in Settled \cup {NoKey}
  /\ \A g \in Handler : Pending(g) \/ key[g] \in Settled \cup {NoKey}
  /\ Settled \subseteq KnownKeys
  BY SessionAssumption DEF Settled, KnownKeys, SharedOK

-----------------------------------------------------------------------------
(* How a handler's step preserves the invariant                            *)

\* A step of handler h only has to care for h, for the shared state and the keys.
LEMMA StepInv ==
  ASSUME Inv, NEW h \in Handler,
         SharedOK', HandlerOK', HandlerGood(h)', KeysGood',
         issued \subseteq issued', now' = now,
         \A g \in Handler \ {h} :
           /\ pc'[g] = pc[g] /\ req'[g] = req[g]
           /\ seen'[g] = seen[g] /\ key'[g] = key[g]
  PROVE  Inv'
<1>1. ASSUME NEW g \in Handler PROVE HandlerGood(g)'
  <2>1. CASE g = h
    BY <2>1
  <2>2. CASE g # h
    BY <2>2, OthersGood DEF Inv
  <2> QED
    BY <2>1, <2>2
<1> QED
  BY <1>1 DEF Inv

\* A handler that returns
LEMMA FinishInv ==
  ASSUME Inv, NEW h \in Handler, Finish(h),
         SharedOK', KeysGood', issued \subseteq issued', now' = now
  PROVE  Inv'
<1>1. HandlerOK' /\ pc'[h] = "idle"
  BY FinishOK DEF Inv
<1>2. HandlerGood(h)'
  BY <1>1 DEF HandlerGood
<1> QED
  BY <1>1, <1>2, FinishOK, StepInv DEF Inv

\* A handler that returns and leaves the keys alone, or has removed some
LEMMA FinishKeys ==
  ASSUME Inv, NEW h \in Handler, Finish(h), issued' \subseteq Settled,
         now' = now, lastMagic' = lastMagic, raced' = raced,
         \A u \in User : \/ store'[u] = NoKey
                         \/ store'[u] = store[u] /\ lease'[u] = lease[u]
  PROVE  KeysGood'
<1>1. /\ \A g \in Handler : key'[g] = key[g] \/ key'[g] = NoKey
      /\ \A g \in Handler : Pending(g)' => Pending(g)
      /\ \A g \in Handler : key'[g] = NoKey \/ pc'[g] = pc[g]
      /\ NoneBegun
  BY FinishOK DEF Inv, NoneBegun, Pending
<1>2. KnownKeys' \subseteq KnownKeys \cup {}
  BY <1>1, SettledHold, KnownKeysHold, KnownKeysStep DEF Inv
<1>3. \A g \in Handler : Pending(g)' \/ key'[g] \in Settled \cup {} \cup {NoKey}
  BY <1>1, SettledHold DEF Pending
<1>4. Settled' \subseteq Settled \cup {}
  BY <1>3, SettledHold, SettledStep DEF Inv
<1> QED
  BY <1>1, <1>2, <1>4, KeysKept DEF Inv

\* A handler that returns and changes nothing else
LEMMA ReturnInv ==
  ASSUME Inv, NEW h \in Handler, Return(h)
  PROVE  Inv'
<1>1. Finish(h) /\ UNCHANGED shared
  BY DEF Return
<1>2. SharedOK' /\ issued' = issued /\ now' = now
  BY <1>1 DEF Inv, SharedOK, shared
<1>3. KeysGood'
  BY <1>1, <1>2, SettledHold, FinishKeys DEF Inv, shared
<1> QED
  BY <1>1, <1>2, <1>3, FinishInv

\* A handler that goes on, neither from nor to a step of store.Put, forgets its key at
\* most and leaves the sessions alone, or removes some.
LEMMA GotoKeys ==
  ASSUME Inv, NEW h \in Handler, NEW step, step \notin {"grant", "write"}, ~ Pending(h),
         Goto(h, step), UNCHANGED <<now, lastMagic, issued, raced, granted>>,
         key'[h] \in {key[h], NoKey}, \A g \in Handler \ {h} : key'[g] = key[g],
         \A u \in User : \/ store'[u] = NoKey
                         \/ store'[u] = store[u] /\ lease'[u] = lease[u]
  PROVE  KeysGood'
<1>1. pc'[h] = step /\ \A g \in Handler \ {h} : pc'[g] = pc[g]
  BY DEF Inv, HandlerOK, Goto
<1>2. NoneBegun /\ \A g \in Handler : Pending(g)' \/ ~ Pending(g)
  BY <1>1 DEF NoneBegun, Pending
<1>3. KnownKeys' \subseteq KnownKeys \cup {}
  BY KnownKeysHold, KnownKeysStep DEF Inv
<1>4. \A g \in Handler : Pending(g)' \/ key'[g] \in Settled \cup {} \cup {NoKey}
  BY <1>2, SettledHold
<1>5. Settled' \subseteq Settled \cup {}
  BY <1>4, SettledHold, SettledStep DEF Inv
<1> QED
  BY <1>2, <1>3, <1>5, KeysKept DEF Inv

\* A handler that goes on without touching shared state
LEMMA GotoInv ==
  ASSUME Inv, NEW h \in Handler, NEW step \in Step, pc[h] # "idle",
         step \in StepOf(req[h].op), step # "idle",
         step \notin {"grant", "write"}, ~ Pending(h),
         Goto(h, step), UNCHANGED <<shared, req, granted>>,
         key' \in [Handler -> Key \cup {NoKey}], key'[h] \in {key[h], NoKey},
         seen' \in [Handler -> Row], retries' \in [Handler -> Nat],
         \A g \in Handler \ {h} : seen'[g] = seen[g] /\ key'[g] = key[g],
         HandlerGood(h)'
  PROVE  Inv'
<1>1. SharedOK'
  BY DEF Inv, SharedOK, shared
<1>2. HandlerOK' /\ \A g \in Handler \ {h} : pc'[g] = pc[g]
  BY GotoOK DEF Inv, HandlerOK
<1>3. KeysGood'
  BY GotoKeys DEF shared
<1> QED
  BY <1>1, <1>2, <1>3, StepInv DEF shared

\* A handler that accepts a request
LEMMA BeginInv ==
  ASSUME Inv, NEW h \in Handler, NEW r \in Request, Begin(h, r, FirstStep(r.op)),
         r.op = "verify" => r.key \in issued
  PROVE  Inv'
<1> DEFINE step == FirstStep(r.op)
<1>1. step \in Step /\ step \in StepOf(r.op) /\ step \in {"loginUser", "verify", "check"}
  BY DEF FirstStep, Step, StepOf, Request, Op
<1> HIDE DEF step
<1>2. /\ pc' = [pc EXCEPT ![h] = step]
      /\ req' = [req EXCEPT ![h] = r]
      /\ UNCHANGED <<shared, seen, key, granted, retries>> /\ pc[h] = "idle"
  BY DEF Begin, Goto, step
<1>3. pc'[h] = step /\ req'[h] = r
      /\ \A g \in Handler \ {h} : pc'[g] = pc[g] /\ req'[g] = req[g]
  BY <1>2 DEF Inv, HandlerOK
<1>4. HandlerOK'
  <2>1. pc' \in [Handler -> Step] /\ req' \in [Handler -> Request \cup {NoReq}]
    BY <1>1, <1>2 DEF Inv, HandlerOK
  <2>2. step # "idle"
    BY <1>1
  <2> QED
    BY <1>1, <1>2, <1>3, <2>1, <2>2 DEF Inv, HandlerOK
<1>5. SharedOK' /\ issued' = issued /\ now' = now
  BY <1>2 DEF Inv, SharedOK, shared
<1>6. step \notin {"grant", "write"} /\ ~ Pending(h) /\ Goto(h, step)
  BY <1>1, <1>2 DEF Pending, Goto
<1>7. KeysGood'
  BY <1>2, <1>6, GotoKeys DEF shared
<1>8. HandlerGood(h)'
  BY <1>1, <1>3, <1>5 DEF HandlerGood
<1> QED
  BY <1>2, <1>3, <1>4, <1>5, <1>7, <1>8, StepInv

\* A busy handler has a request, and its position tells the operation.
LEMMA BusyHandler ==
  ASSUME Inv, NEW h \in Handler, pc[h] # "idle"
  PROVE  /\ req[h] \in Request /\ req[h].op \in Op
         /\ req[h].user \in User /\ req[h].ip \in IP
         /\ pc[h] \in StepOf(req[h].op)
         /\ pc[h] \in {"loginUser", "failedInfo", "get", "delete", "put"}
              => req[h].op = "login"
         /\ pc[h] \in {"verify", "update"} => req[h].op = "verify"
         /\ pc[h] \in {"grant", "write"} => req[h].op \in {"login", "verify"}
         /\ pc[h] \in {"check", "remove"} => req[h].op \in {"logout", "revoke"}
<1>1. req[h] \in Request /\ pc[h] \in StepOf(req[h].op)
  BY DEF Inv, HandlerOK
<1>2. req[h].op \in Op /\ req[h].user \in User /\ req[h].ip \in IP
  BY <1>1 DEF Request
<1> QED
  BY <1>1, <1>2 DEF StepOf, Op

-----------------------------------------------------------------------------
(* The actions                                                             *)

\* The requests (handler.go Login, VerifySession, Logout, RevokeSession)
LEMMA ArriveInv ==
  ASSUME Inv, NEW h \in Handler, Arrive(h)
  PROVE  Inv'
<1>1. ASSUME NEW u \in User, NEW a \in IP, NEW force \in BOOLEAN, NEW correct \in BOOLEAN,
             Login(h, u, a, force, correct)
      PROVE  Inv'
  <2> DEFINE r == [op |-> "login", user |-> u, ip |-> a, key |-> NoKey,
                   force |-> force, correct |-> correct]
  <2>1. r \in Request /\ r.op = "login"
    BY DEF Request, Op
  <2>2. Begin(h, r, FirstStep(r.op))
    BY <1>1 DEF Login, FirstStep
  <2> QED
    BY <2>1, <2>2, BeginInv
<1>2. ASSUME NEW k \in issued, NEW a \in IP, VerifySession(h, k, a)
      PROVE  Inv'
  <2> DEFINE r == [op |-> "verify", user |-> k.user, ip |-> a, key |-> k,
                   force |-> FALSE, correct |-> FALSE]
  <2>1. k \in Key
    BY DEF Inv, SharedOK
  <2>2. r \in Request /\ r.op = "verify" /\ r.key = k
    BY <2>1, KeyFields DEF Request, Op
  <2>3. Begin(h, r, FirstStep(r.op))
    BY <1>2 DEF VerifySession, FirstStep
  <2> QED
    BY <2>2, <2>3, BeginInv
<1>3. ASSUME NEW k \in issued, NEW u \in User, Logout(h, k, u)
      PROVE  Inv'
  <2> DEFINE r == [op |-> "logout", user |-> k.user, ip |-> k.ip, key |-> NoKey,
                   force |-> FALSE, correct |-> FALSE]
  <2>1. k \in Key
    BY DEF Inv, SharedOK
  <2>2. r \in Request /\ r.op = "logout"
    BY <2>1, KeyFields DEF Request, Op
  <2>3. Begin(h, r, FirstStep(r.op)) \/ Return(h)
    BY <1>3 DEF Logout, FirstStep
  <2> QED
    BY <2>2, <2>3, BeginInv, ReturnInv
<1>4. ASSUME NEW k \in Listed, NEW isAdmin \in BOOLEAN, RevokeSession(h, k, isAdmin)
      PROVE  Inv'
  <2> DEFINE r == [op |-> "revoke", user |-> k.user, ip |-> k.ip, key |-> NoKey,
                   force |-> FALSE, correct |-> FALSE]
  <2>1. k \in Key
    BY DEF Inv, SharedOK, Listed
  <2>2. r \in Request /\ r.op = "revoke"
    BY <2>1, KeyFields DEF Request, Op
  <2>3. Begin(h, r, FirstStep(r.op)) \/ Return(h)
    BY <1>4 DEF RevokeSession, FirstStep
  <2> QED
    BY <2>2, <2>3, BeginInv, ReturnInv
<1> QED
  BY <1>1, <1>2, <1>3, <1>4 DEF Arrive

\* session.go loginUser: a login goes on only from a row that allows it.
LEMMA LoginUserInv ==
  ASSUME Inv, NEW h \in Handler, LoginUser(h)
  PROVE  Inv'
<1> DEFINE r == row[req[h].user]
<1>1. pc[h] = "loginUser" /\ req[h].op = "login" /\ r \in Row
  BY BusyHandler DEF LoginUser, Inv, SharedOK
<1>2. CASE Return(h)
  BY <1>2, ReturnInv
<1>3. CASE /\ Goto(h, "failedInfo")
           /\ UNCHANGED <<shared, req, seen, key, granted, retries>>
  <2>1. "failedInfo" \in Step /\ "failedInfo" \in StepOf(req[h].op)
    BY <1>1 DEF Step, StepOf
  <2>2. pc'[h] = "failedInfo" /\ req'[h] = req[h]
    BY <1>3 DEF Goto, Inv, HandlerOK
  <2>3. HandlerGood(h)'
    BY <1>1, <2>2 DEF HandlerGood
  <2> QED
    BY <1>1, <1>3, <2>1, <2>3, GotoInv DEF Inv, HandlerOK, Pending
<1>4. CASE /\ ~ Restricted(r, now)
           /\ seen' = [seen EXCEPT ![h] = r]
           /\ Goto(h, "get")
           /\ UNCHANGED <<shared, req, key, granted, retries>>
  <2>1. "get" \in Step /\ "get" \in StepOf(req[h].op)
    BY <1>1 DEF Step, StepOf
  <2>2. pc'[h] = "get" /\ req'[h] = req[h] /\ seen'[h] = r /\ now' = now
    BY <1>4 DEF Goto, Inv, HandlerOK, shared
  <2>3. HandlerGood(h)'
    BY <1>1, <1>4, <2>2 DEF HandlerGood, Restricted
  <2>4. /\ seen' \in [Handler -> Row]
        /\ \A g \in Handler \ {h} : seen'[g] = seen[g]
    BY <1>1, <1>4 DEF Inv, HandlerOK
  <2> QED
    BY <1>1, <1>4, <2>1, <2>3, <2>4, GotoInv DEF Inv, HandlerOK, Pending
<1> QED
  BY <1>2, <1>3, <1>4 DEF LoginUser

\* session.go updateUserLoginFailedInfo
LEMMA FailedInfoInv ==
  ASSUME Inv, NEW h \in Handler, FailedInfo(h)
  PROVE  Inv'
<1> DEFINE u == req[h].user
<1>1. u \in User /\ row[u] \in Row
  BY BusyHandler DEF FailedInfo, Inv, SharedOK
<1>2. [count |-> row[u].count + 1, at |-> now] \in Row
  BY <1>1 DEF Row, Inv, SharedOK
<1>3. SharedOK'
  BY <1>2 DEF FailedInfo, Inv, SharedOK
<1>4. KeysGood'
  BY SettledHold, FinishKeys DEF FailedInfo, Inv
<1> QED
  BY <1>3, <1>4, FinishInv DEF FailedInfo

\* session.go newSession, its store.Get
LEMMA NewSessionGetInv ==
  ASSUME Inv, NEW h \in Handler, NewSessionGet(h)
  PROVE  Inv'
<1>1. pc[h] = "get" /\ req[h].op = "login"
  BY BusyHandler DEF NewSessionGet
<1>2. CASE Return(h)
  BY <1>2, ReturnInv
<1>3. ASSUME NEW step \in {"put", "delete"}, Goto(h, step),
             UNCHANGED <<shared, req, seen, key, granted, retries>>
      PROVE  Inv'
  <2>1. step \in Step /\ step \in StepOf(req[h].op) /\ step # "idle"
    BY <1>1 DEF Step, StepOf
  <2>2. pc'[h] = step /\ req'[h] = req[h] /\ seen'[h] = seen[h] /\ now' = now
    BY <1>3, <2>1 DEF Goto, Inv, HandlerOK, shared
  <2>3. HandlerGood(h)'
    BY <1>1, <2>2 DEF HandlerGood, Inv, Restricted
  <2> QED
    BY <1>1, <1>3, <2>1, <2>3, GotoInv DEF Inv, HandlerOK, Pending
<1> QED
  BY <1>2, <1>3 DEF NewSessionGet

\* What Delete leaves in the store
LEMMA DeleteKeeps ==
  ASSUME SharedOK, NEW u \in User, Delete(u)
  PROVE  /\ store' \in [User -> Key \cup {NoKey}]
         /\ lease' \in [User -> Nat]
         /\ \A v \in User : \/ store'[v] = NoKey
                            \/ store'[v] = store[v] /\ lease'[v] = lease[v]
  BY DEF SharedOK, Delete

\* A handler that removes a session, and returns or goes on.
LEMMA DeleteStepInv ==
  ASSUME Inv, NEW h \in Handler, pc[h] \in {"delete", "remove"}, Delete(req[h].user),
         NEW step \in {"put", "commit"}, step \in StepOf(req[h].op),
         \/ Finish(h)
         \/ /\ Goto(h, step)
            /\ UNCHANGED <<req, seen, key, granted, retries>>,
         UNCHANGED <<now, row, lastMagic, issued, raced>>,
         step = "commit" => req[h].op \notin {"login", "verify"}
  PROVE  Inv'
<1> DEFINE u == req[h].user
<1>1. /\ pc[h] # "idle" /\ u \in User
      /\ req[h].op \in {"login", "logout", "revoke"}
      /\ req[h].op = "login" => pc[h] = "delete"
  BY BusyHandler
<1>2. SharedOK'
  BY <1>1, DeleteKeeps DEF Inv, SharedOK
<1>3. CASE Finish(h)
  <2>1. KeysGood'
    BY <1>1, <1>3, DeleteKeeps, SettledHold, FinishKeys DEF Inv
  <2> QED
    BY <1>2, <1>3, <2>1, FinishInv
<1>4. CASE /\ Goto(h, step)
           /\ UNCHANGED <<req, seen, key, granted, retries>>
  <2>1. step \in Step /\ step # "idle" /\ step \notin {"grant", "write"} /\ ~ Pending(h)
    BY DEF Step, Pending
  <2>2. HandlerOK' /\ pc'[h] = step /\ \A g \in Handler \ {h} : pc'[g] = pc[g]
    BY <1>1, <1>4, <2>1, GotoOK DEF Inv, HandlerOK
  <2>3. KeysGood'
    BY <1>1, <1>4, <2>1, DeleteKeeps, GotoKeys DEF Inv
  <2>4. HandlerGood(h)'
    BY <1>1, <1>4, <2>2 DEF HandlerGood, Inv, Restricted
  <2> QED
    BY <1>2, <1>4, <2>2, <2>3, <2>4, StepInv
<1> QED
  BY <1>3, <1>4

\* session.go newSession, its store.Delete
LEMMA NewSessionDeleteInv ==
  ASSUME Inv, NEW h \in Handler, NewSessionDelete(h)
  PROVE  Inv'
<1>1. pc[h] = "delete" /\ req[h].op = "login"
  BY BusyHandler DEF NewSessionDelete
<1>2. "put" \in StepOf(req[h].op)
  BY <1>1 DEF StepOf
<1> QED
  BY <1>1, <1>2, DeleteStepInv DEF NewSessionDelete

\* session.go deleteSession, its store.Delete
LEMMA DeleteSessionDeleteInv ==
  ASSUME Inv, NEW h \in Handler, DeleteSessionDelete(h)
  PROVE  Inv'
<1>1. pc[h] = "remove" /\ req[h].op \in {"logout", "revoke"}
  BY BusyHandler DEF DeleteSessionDelete
<1>2. "commit" \in StepOf(req[h].op) /\ req[h].op \notin {"login", "verify"}
  BY <1>1 DEF StepOf
<1> QED
  BY <1>1, <1>2, DeleteStepInv DEF DeleteSessionDelete

\* A handler builds a key that starts a session, or continues the session of a key
\* known before.
LEMMA BuildKeys ==
  ASSUME Inv, NEW h \in Handler, ~ Pending(h), NEW k \in Key,
         Build(h, k), k.expiry = now + Timeout,
         lastMagic' \in Nat, lastMagic <= lastMagic', k.magic <= lastMagic',
         \/ k.magic = lastMagic + 1
         \/ \E k0 \in KnownKeys : k0.magic = k.magic /\ k0.user = k.user /\ k0.ip = k.ip
  PROVE  KeysGood'
<1>1. /\ pc'[h] = "grant" /\ key'[h] = k
      /\ \A g \in Handler \ {h} : pc'[g] = pc[g] /\ key'[g] = key[g]
      /\ UNCHANGED <<now, store, lease, issued, granted>>
  BY DEF Build, Goto, Inv, HandlerOK
<1>2. KnownKeys' \subseteq KnownKeys \cup {k}
  <2>1. \A g \in Handler : key'[g] \in KnownKeys \cup {k} \cup {NoKey}
    BY <1>1, KnownKeysHold
  <2>2. \A u \in User : store'[u] \in KnownKeys \cup {k} \cup {NoKey}
    BY <1>1, KnownKeysHold
  <2>3. issued' \subseteq KnownKeys \cup {k}
    BY <1>1, KnownKeysHold DEF Inv
  <2> QED
    BY <2>1, <2>2, <2>3, KnownKeysStep
<1>3. Settled' \subseteq Settled
  <2>1. \A g \in Handler : Pending(g)' \/ key'[g] \in Settled \cup {} \cup {NoKey}
    BY <1>1, SettledHold DEF Pending
  <2>2. Settled' \subseteq Settled \cup {}
    BY <1>1, <2>1, SettledHold, SettledStep DEF Inv
  <2> QED
    BY <2>2
<1>4. KnownKeys \subseteq Key
  BY KnownKeysAreKeys DEF Inv
<1>5. \A k1 \in KnownKeys : k1.magic = k.magic => k1.user = k.user /\ k1.ip = k.ip
  <2>1. CASE k.magic = lastMagic + 1
    <3> SUFFICES ASSUME NEW k1 \in KnownKeys PROVE k1.magic # lastMagic + 1
      BY <2>1
    <3>1. k1 \in Key /\ k1.magic <= lastMagic
      BY <1>4 DEF Inv, KeysGood, KeysBounded
    <3> QED
      BY <3>1, KeyFields DEF Inv, SharedOK
  <2>2. CASE \E k0 \in KnownKeys : k0.magic = k.magic /\ k0.user = k.user /\ k0.ip = k.ip
    BY <2>2 DEF Inv, KeysGood, SessionBoundToClient
  <2> QED
    BY <2>1, <2>2
<1>6. KeysBounded'
  <2> SUFFICES ASSUME NEW k1 \in KnownKeys'
               PROVE  k1.magic <= lastMagic' /\ k1.expiry <= now' + Timeout
    BY DEF KeysBounded
  <2>1. CASE k1 = k
    BY <1>1, <2>1, KeyFields, SessionAssumption DEF Inv, SharedOK
  <2>2. CASE k1 \in KnownKeys
    <3>1. k1 \in Key
      BY <1>4, <2>2
    <3> QED
      BY <1>1, <2>2, <3>1, KeyFields, SessionAssumption DEF Inv, KeysGood, KeysBounded, SharedOK
  <2> QED
    BY <1>2, <2>1, <2>2
<1>7. StoredUnderUser'
  BY <1>1 DEF Inv, KeysGood, StoredUnderUser
<1>8. SessionBoundToClient'
  BY <1>2, <1>5 DEF Inv, KeysGood, SessionBoundToClient
<1>9. /\ raced \subseteq raced'
      /\ k.magic \notin raced' => \A g \in Handler : Pending(g) => key[g].magic # k.magic
  BY DEF Build, Putting, Pending
<1>10. LeaseCovers'
  BY <1>1, <1>3, <1>9 DEF Inv, KeysGood, LeaseCovers
<1>11. PendingYoungest'
  <2> SUFFICES ASSUME NEW g \in Handler, Pending(g)', key'[g].magic \notin raced'
               PROVE  /\ \A f \in Handler \ {g} : Pending(f)' => key'[f].magic # key'[g].magic
                      /\ \A k1 \in Settled' : k1.magic = key'[g].magic
                                             => k1.expiry <= key'[g].expiry
    BY DEF PendingYoungest
  <2>1. CASE g = h
    <3>1. \A k1 \in Settled' : k1.expiry <= now + Timeout
      BY <1>3, SettledHold DEF Inv, KeysGood, KeysBounded
    <3>2. \A f \in Handler \ {h} : Pending(f)' => key'[f].magic # k.magic
      BY <1>1, <1>9, <2>1 DEF Pending
    <3> QED
      BY <1>1, <2>1, <3>1, <3>2
  <2>2. CASE g # h
    <3>1. Pending(g) /\ key'[g] = key[g] /\ key[g].magic \notin raced
      BY <1>1, <1>9, <2>2 DEF Pending
    <3>2. /\ \A f \in Handler \ {g} : Pending(f) => key[f].magic # key[g].magic
          /\ \A k1 \in Settled : k1.magic = key[g].magic => k1.expiry <= key[g].expiry
      BY <3>1 DEF Inv, KeysGood, PendingYoungest
    <3>3. key[g].magic # k.magic
      <4>1. CASE k.magic \in raced'
        BY <3>1, <4>1
      <4>2. CASE k.magic \notin raced'
        BY <1>9, <3>1, <4>2
      <4> QED
        BY <4>1, <4>2
    <3>4. \A f \in Handler \ {g} : Pending(f)' => key'[f].magic # key[g].magic
      BY <1>1, <3>2, <3>3 DEF Pending
    <3> QED
      BY <1>3, <3>1, <3>2, <3>4
  <2> QED
    BY <2>1, <2>2
<1>12. GrantCovers'
  BY <1>1 DEF Inv, KeysGood, GrantCovers
<1> QED
  BY <1>6, <1>7, <1>8, <1>10, <1>11, <1>12 DEF KeysGood

\* A handler builds a key and goes on to put it in the store.
LEMMA BuildInv ==
  ASSUME Inv, NEW h \in Handler, pc[h] \in {"put", "update"}, NEW k \in Key,
         Build(h, k), k.expiry = now + Timeout,
         lastMagic' \in Nat, lastMagic <= lastMagic', k.magic <= lastMagic',
         \/ k.magic = lastMagic + 1
         \/ \E k0 \in KnownKeys : k0.magic = k.magic /\ k0.user = k.user /\ k0.ip = k.ip
  PROVE  Inv'
<1>1. /\ pc[h] # "idle" /\ req[h].op \in {"login", "verify"}
      /\ req[h].op = "login" => pc[h] = "put"
      /\ "grant" \in StepOf(req[h].op) /\ "grant" \in Step
  BY BusyHandler DEF StepOf, Step
<1>2. Goto(h, "grant") /\ UNCHANGED <<now, store, lease, row, issued, req, seen, granted, retries>>
  BY DEF Build
<1>3. /\ key' \in [Handler -> Key \cup {NoKey}] /\ key'[h] = k
      /\ \A g \in Handler \ {h} : key'[g] = key[g]
  BY DEF Build, Inv, HandlerOK
<1>4. HandlerOK' /\ pc'[h] = "grant" /\ \A g \in Handler \ {h} : pc'[g] = pc[g]
  BY <1>1, <1>2, <1>3, GotoOK DEF Inv, HandlerOK
<1>5. raced' \subseteq Nat
  BY KeyFields DEF Build, Inv, SharedOK
<1>6. SharedOK'
  BY <1>2, <1>5 DEF Inv, SharedOK
<1>7. k # NoKey
  BY SessionAssumption
<1>8. HandlerGood(h)'
  BY <1>1, <1>2, <1>3, <1>4, <1>7 DEF HandlerGood, Inv, Restricted
<1>9. KeysGood'
  BY BuildKeys DEF Pending
<1> QED
  BY <1>2, <1>3, <1>4, <1>6, <1>8, <1>9, StepInv

\* session.go newSession, its key: a session that is new
LEMMA NewSessionBuildInv ==
  ASSUME Inv, NEW h \in Handler, NewSessionBuild(h)
  PROVE  Inv'
<1> DEFINE k == Payload(req[h].user, lastMagic + 1, req[h].ip)
<1>1. pc[h] = "put" /\ lastMagic \in Nat /\ lastMagic' = lastMagic + 1 /\ Build(h, k)
  BY DEF NewSessionBuild, Inv, SharedOK
<1>2. k \in Key /\ k.magic = lastMagic + 1 /\ k.expiry = now + Timeout
  BY <1>1, BusyHandler, SessionAssumption DEF Payload, Key, Inv, SharedOK
<1> HIDE DEF k
<1> QED
  BY <1>1, <1>2, BuildInv

\* session.go updateSession: a session of which a client has a key
LEMMA UpdateSessionInv ==
  ASSUME Inv, NEW h \in Handler, UpdateSession(h)
  PROVE  Inv'
<1> DEFINE k0 == req[h].key
           k == Payload(k0.user, k0.magic, req[h].ip)
<1>1. pc[h] = "update" /\ Build(h, k) /\ lastMagic' = lastMagic /\ lastMagic \in Nat
  BY DEF UpdateSession, Inv, SharedOK
<1>2. req[h].op = "verify" /\ req[h].ip = k0.ip /\ k0 \in issued
  BY <1>1, BusyHandler DEF HandlerGood, Inv
<1>3. k0 \in Key /\ k0 \in KnownKeys
  BY <1>2, KnownKeysHold DEF Inv, SharedOK
<1>4. k0.magic <= lastMagic
  BY <1>3 DEF Inv, KeysGood, KeysBounded
<1>5. /\ k \in Key /\ k.expiry = now + Timeout
      /\ k0.magic = k.magic /\ k0.user = k.user /\ k0.ip = k.ip
  BY <1>2, <1>3, KeyFields, SessionAssumption DEF Payload, Key, Inv, SharedOK
<1> HIDE DEF k
<1> QED
  BY <1>1, <1>3, <1>4, <1>5, BuildInv

\* etcd_store.go Put, its Lease.Grant: the lease lasts at least as long as the key,
\* which was built before.
LEMMA LeaseGrantInv ==
  ASSUME Inv, NEW h \in Handler, LeaseGrant(h)
  PROVE  Inv'
<1>1. /\ pc[h] = "grant" /\ req[h].op \in {"login", "verify"} /\ Goto(h, "write")
      /\ UNCHANGED <<shared, req, seen, key, retries>>
      /\ "write" \in StepOf(req[h].op) /\ "write" \in Step
  BY BusyHandler DEF LeaseGrant, StepOf, Step
<1>2. SharedOK' /\ now' = now /\ issued' = issued
  BY <1>1 DEF Inv, SharedOK, shared
<1>3. /\ granted' \in [Handler -> Nat] /\ granted'[h] = now + Timeout
      /\ \A g \in Handler \ {h} : granted'[g] = granted[g]
  BY SessionAssumption DEF LeaseGrant, Inv, SharedOK, HandlerOK
<1>4. HandlerOK' /\ pc'[h] = "write" /\ \A g \in Handler \ {h} : pc'[g] = pc[g]
  BY <1>1, <1>3, GotoOK DEF Inv, HandlerOK
<1>5. HandlerGood(h)'
  BY <1>1, <1>2, <1>4 DEF HandlerGood, Inv, Restricted
<1>6. \A g \in Handler : Pending(g)' <=> Pending(g)
  BY <1>1, <1>4 DEF Pending
<1>7. KnownKeys' = KnownKeys /\ Settled' = Settled
  BY <1>1, <1>6 DEF KnownKeys, Settled, shared
<1>8. key[h] \in KnownKeys
  BY <1>1, KnownKeysHold DEF Inv, HandlerGood
<1>9. GrantCovers'
  BY <1>1, <1>3, <1>4, <1>8 DEF Inv, KeysGood, GrantCovers, KeysBounded
<1>10. KeysGood'
  BY <1>1, <1>6, <1>7, <1>9 DEF Inv, KeysGood, KeysBounded, StoredUnderUser,
     SessionBoundToClient, LeaseCovers, PendingYoungest, shared
<1> QED
  BY <1>1, <1>2, <1>4, <1>5, <1>10, StepInv

\* etcd_store.go Put, its KV.Put: what is known of the keys when handler h is through
\* with it, whether or not it has an answer.
LEMMA KVPutKeys ==
  ASSUME Inv, NEW h \in Handler, KVPut(h), pc'[h] \in {"idle", "commit"},
         \A g \in Handler \ {h} :
           pc'[g] = pc[g] /\ key'[g] = key[g] /\ granted'[g] = granted[g],
         key'[h] \in {key[h], NoKey}
  PROVE  KeysGood'
<1> DEFINE k == key[h]
           u == k.user
<1>1. k \in Key /\ k \in KnownKeys /\ u \in User /\ pc[h] = "write" /\ Pending(h)
  BY BusyHandler, KnownKeysHold, KeyFields DEF KVPut, Inv, HandlerGood, HandlerOK, Pending
<1> HIDE DEF k
<1>2. /\ store'[u] = k /\ lease'[u] = granted[h]
      /\ \A v \in User \ {u} : store'[v] = store[v] /\ lease'[v] = lease[v]
      /\ UNCHANGED <<now, lastMagic, issued, raced>>
  BY <1>1 DEF KVPut, Inv, SharedOK, k
<1>3. /\ \A g \in Handler : key'[g] \in KnownKeys \cup {NoKey}
      /\ \A v \in User : store'[v] \in KnownKeys \cup {NoKey}
  BY <1>1, <1>2, KnownKeysHold DEF k
<1>4. KnownKeys' \subseteq KnownKeys \cup {}
  BY <1>2, <1>3, KnownKeysHold, KnownKeysStep DEF Inv
<1>5. KnownKeys \subseteq Key
  BY KnownKeysAreKeys DEF Inv
<1>6. Settled' \subseteq Settled \cup {k}
  <2>1. \A g \in Handler : Pending(g)' \/ key'[g] \in Settled \cup {k} \cup {NoKey}
    BY SettledHold DEF Pending, k
  <2>2. \A v \in User : store'[v] \in Settled \cup {k} \cup {NoKey}
    BY <1>2, SettledHold
  <2> QED
    BY <1>2, <2>1, <2>2, SettledHold, SettledStep DEF Inv
<1>7. k.expiry <= granted[h] /\ k.expiry \in Nat /\ granted[h] \in Nat
  BY <1>1, KeyFields DEF Inv, KeysGood, GrantCovers, HandlerOK, k
<1>8. k.magic \notin raced =>
        /\ \A g \in Handler \ {h} : Pending(g) => key[g].magic # k.magic
        /\ \A k1 \in Settled : k1.magic = k.magic => k1.expiry <= k.expiry
  BY <1>1 DEF Inv, KeysGood, PendingYoungest, k
<1>9. KeysBounded' /\ SessionBoundToClient'
  BY <1>2, <1>4 DEF Inv, KeysGood, KeysBounded, SessionBoundToClient
<1>10. StoredUnderUser'
  BY <1>2 DEF Inv, KeysGood, StoredUnderUser
<1>11. LeaseCovers'
  <2> SUFFICES ASSUME NEW v \in User, NEW k1 \in Settled',
                      store'[v] # NoKey, store'[v].magic = k1.magic, k1.magic \notin raced
               PROVE  k1.expiry <= lease'[v]
    BY <1>2 DEF LeaseCovers
  <2>1. CASE v = u
    <3>1. k1.magic = k.magic /\ lease'[v] = granted[h]
      BY <1>2, <2>1
    <3>2. CASE k1 = k
      BY <1>7, <3>1, <3>2
    <3>3. CASE k1 \in Settled
      <4>1. k1 \in Key /\ k1.expiry \in Nat
        BY <1>5, <3>3, SettledHold, KeyFields
      <4>2. k1.expiry <= k.expiry
        BY <1>8, <3>1, <3>3
      <4> QED
        BY <1>7, <3>1, <4>1, <4>2
    <3> QED
      BY <1>6, <3>2, <3>3
  <2>2. CASE v # u
    <3>1. store[v] # NoKey /\ store[v].user = v /\ store[v] \in KnownKeys
      BY <1>2, <2>2, KnownKeysHold DEF Inv, KeysGood, StoredUnderUser
    <3>2. k1 # k
      BY <1>1, <1>2, <2>2, <3>1 DEF Inv, KeysGood, SessionBoundToClient
    <3> QED
      BY <1>2, <1>6, <2>2, <3>2 DEF Inv, KeysGood, LeaseCovers
  <2> QED
    BY <2>1, <2>2
<1>12. PendingYoungest'
  <2> SUFFICES ASSUME NEW g \in Handler, Pending(g)', key'[g].magic \notin raced
               PROVE  /\ \A f \in Handler \ {g} : Pending(f)' => key'[f].magic # key'[g].magic
                      /\ \A k1 \in Settled' : k1.magic = key'[g].magic
                                             => k1.expiry <= key'[g].expiry
    BY <1>2 DEF PendingYoungest
  <2>1. g # h /\ Pending(g) /\ key'[g] = key[g]
    BY DEF Pending
  <2>2. /\ \A f \in Handler \ {g} : Pending(f) => key[f].magic # key[g].magic
        /\ \A k1 \in Settled : k1.magic = key[g].magic => k1.expiry <= key[g].expiry
    BY <2>1 DEF Inv, KeysGood, PendingYoungest
  <2>3. k.magic # key[g].magic
    BY <1>1, <2>1, <2>2 DEF k
  <2>4. \A f \in Handler \ {g} : Pending(f)' => key'[f].magic # key[g].magic
    BY <2>2 DEF Pending
  <2> QED
    BY <1>6, <2>1, <2>2, <2>3, <2>4
<1>13. GrantCovers'
  BY DEF Inv, KeysGood, GrantCovers
<1> QED
  BY <1>9, <1>10, <1>11, <1>12, <1>13 DEF KeysGood

\* etcd_store.go Put, its KV.Put
LEMMA KVPutInv ==
  ASSUME Inv, NEW h \in Handler, KVPut(h)
  PROVE  Inv'
<1>1. /\ pc[h] = "write" /\ req[h].op \in {"login", "verify"}
      /\ "commit" \in StepOf(req[h].op) /\ "commit" \in Step
      /\ key[h] \in Key /\ key[h] # NoKey
  BY BusyHandler DEF KVPut, StepOf, Step, Inv, HandlerGood, HandlerOK
<1>2. store' \in [User -> Key \cup {NoKey}] /\ lease' \in [User -> Nat]
  BY <1>1, KeyFields DEF KVPut, Inv, SharedOK, HandlerOK
<1>3. UNCHANGED <<now, row, lastMagic, issued, raced>>
  BY DEF KVPut
<1>4. SharedOK'
  BY <1>2, <1>3 DEF Inv, SharedOK
<1>5. CASE Finish(h)
  <2>1. KeysGood'
    BY <1>5, FinishOK, KVPutKeys DEF Inv
  <2> QED
    BY <1>3, <1>4, <1>5, <2>1, FinishInv
<1>6. CASE /\ Goto(h, "commit")
           /\ granted' = [granted EXCEPT ![h] = 0]
           /\ UNCHANGED <<req, seen, key, retries>>
  <2>1. /\ granted' \in [Handler -> Nat]
        /\ \A g \in Handler \ {h} : granted'[g] = granted[g]
    BY <1>6 DEF Inv, HandlerOK
  <2>2. HandlerOK' /\ pc'[h] = "commit" /\ \A g \in Handler \ {h} : pc'[g] = pc[g]
    BY <1>1, <1>6, <2>1, GotoOK DEF Inv, HandlerOK
  <2>3. KeysGood'
    BY <1>6, <2>1, <2>2, KVPutKeys
  <2>4. HandlerGood(h)'
    BY <1>1, <1>3, <1>6, <2>2 DEF HandlerGood, Inv, Restricted
  <2> QED
    BY <1>3, <1>4, <1>6, <2>2, <2>3, <2>4, StepInv
<1> QED
  BY <1>5, <1>6 DEF KVPut

\* session.go verifySession: what it accepts comes from the client of the session.
LEMMA VerifyStoredInv ==
  ASSUME Inv, NEW h \in Handler, VerifyStored(h)
  PROVE  Inv'
<1> DEFINE k == req[h].key
<1>1. pc[h] = "verify" /\ req[h].op = "verify" /\ k \in issued
  BY BusyHandler DEF VerifyStored, HandlerGood, Inv
<1>2. CASE Return(h)
  BY <1>2, ReturnInv
<1>3. CASE /\ Valid(k, req[h].ip, store[k.user])
           /\ Goto(h, "update")
           /\ UNCHANGED <<shared, req, seen, key, granted, retries>>
  <2>1. k \in Key /\ k \in KnownKeys
    BY <1>1, KnownKeysHold DEF Inv, SharedOK
  <2>2. store[k.user] \in KnownKeys
    BY <1>3, <2>1, KeyFields, KnownKeysHold DEF Valid
  <2>3. req[h].ip = k.ip
    BY <1>3, <2>1, <2>2 DEF Valid, Inv, KeysGood, SessionBoundToClient
  <2>4. "update" \in Step /\ "update" \in StepOf(req[h].op)
    BY <1>1 DEF Step, StepOf
  <2>5. pc'[h] = "update" /\ req'[h] = req[h] /\ issued' = issued
    BY <1>3 DEF Goto, Inv, HandlerOK, shared
  <2>6. HandlerGood(h)'
    BY <1>1, <2>3, <2>5 DEF HandlerGood
  <2> QED
    BY <1>1, <1>3, <2>4, <2>6, GotoInv DEF Inv, HandlerOK, Pending
<1> QED
  BY <1>2, <1>3 DEF VerifyStored

\* session.go deleteSession, its store.Get
LEMMA DeleteSessionGetInv ==
  ASSUME Inv, NEW h \in Handler, DeleteSessionGet(h)
  PROVE  Inv'
<1>1. pc[h] = "check" /\ req[h].op \in {"logout", "revoke"}
  BY BusyHandler DEF DeleteSessionGet
<1>2. CASE Return(h)
  BY <1>2, ReturnInv
<1>3. CASE /\ Goto(h, "remove")
           /\ UNCHANGED <<shared, req, seen, key, granted, retries>>
  <2>1. "remove" \in Step /\ "remove" \in StepOf(req[h].op)
    BY <1>1 DEF Step, StepOf
  <2>2. pc'[h] = "remove" /\ req'[h] = req[h]
    BY <1>3 DEF Goto, Inv, HandlerOK
  <2>3. HandlerGood(h)'
    BY <1>1, <2>2 DEF HandlerGood
  <2> QED
    BY <1>1, <1>3, <2>1, <2>3, GotoInv DEF Inv, HandlerOK, Pending
<1> QED
  BY <1>2, <1>3 DEF DeleteSessionGet

\* A successful login leaves a row behind.
LEMMA LoggedInRowType ==
  ASSUME NEW r \in Row
  PROVE  LoggedInRow(r) \in Row
  BY DEF Row, LoggedInRow

\* database Transaction commits, and the handler returns its key.
LEMMA CommitTxInv ==
  ASSUME Inv, NEW h \in Handler, CommitTx(h)
  PROVE  Inv'
<1>1. pc[h] = "commit" /\ req[h].user \in User /\ seen[h] \in Row
  BY BusyHandler DEF CommitTx, Inv, HandlerOK
<1>2. row' \in [User -> Row]
  BY <1>1, LoggedInRowType DEF CommitTx, Inv, SharedOK
<1>3. req[h].op \in {"login", "verify"} => key[h] \in Key /\ key[h] \in Settled
  BY <1>1, SettledHold DEF Inv, HandlerGood, HandlerOK, Pending
<1>4. issued \subseteq issued' /\ issued' \subseteq Key /\ issued' \subseteq Settled
  BY <1>3, SettledHold DEF CommitTx, Inv, SharedOK
<1>5. Finish(h) /\ UNCHANGED <<now, store, lease, lastMagic, raced>>
  BY DEF CommitTx
<1>6. SharedOK'
  BY <1>2, <1>4, <1>5 DEF Inv, SharedOK
<1>7. KeysGood'
  BY <1>4, <1>5, FinishKeys
<1> QED
  BY <1>4, <1>5, <1>6, <1>7, FinishInv

\* database Transaction commits, and the answer is lost.
LEMMA AmbiguousCommitInv ==
  ASSUME Inv, NEW h \in Handler, AmbiguousCommit(h)
  PROVE  Inv'
<1>1. pc[h] = "commit" /\ req[h].user \in User /\ seen[h] \in Row
  BY BusyHandler DEF AmbiguousCommit, Inv, HandlerOK
<1>2. Finish(h) /\ UNCHANGED <<now, store, lease, lastMagic, issued, raced>>
  BY DEF AmbiguousCommit
<1>3. SharedOK'
  BY <1>1, LoggedInRowType DEF AmbiguousCommit, Inv, SharedOK
<1>4. KeysGood'
  BY <1>2, SettledHold, FinishKeys DEF Inv
<1> QED
  BY <1>2, <1>3, <1>4, FinishInv

\* database Transaction runs the handler again, from its first step.
LEMMA RetryTxInv ==
  ASSUME Inv, NEW h \in Handler, RetryTx(h)
  PROVE  Inv'
<1> DEFINE step == FirstStep(req[h].op)
<1>1. pc[h] = "commit" /\ req[h].op \in Op
  BY BusyHandler DEF RetryTx
<1>2. /\ step \in Step /\ step \in StepOf(req[h].op)
      /\ step \in {"loginUser", "verify", "check"}
  BY <1>1 DEF FirstStep, Step, StepOf, Op
<1>3. Goto(h, step) /\ UNCHANGED <<shared, req, granted>>
  BY DEF RetryTx
<1> HIDE DEF step
<1>4. /\ retries' \in [Handler -> Nat] /\ seen' \in [Handler -> Row]
      /\ key' \in [Handler -> Key \cup {NoKey}] /\ key'[h] \in {key[h], NoKey}
      /\ \A g \in Handler \ {h} : seen'[g] = seen[g] /\ key'[g] = key[g]
  BY DEF RetryTx, Inv, HandlerOK, Row
<1>5. pc'[h] = step /\ req'[h] = req[h] /\ issued' = issued
  BY <1>3 DEF Goto, Inv, HandlerOK, shared
<1>6. HandlerGood(h)'
  BY <1>1, <1>2, <1>5 DEF HandlerGood, Inv
<1> QED
  BY <1>1, <1>2, <1>3, <1>4, <1>6, GotoInv DEF Inv, HandlerOK, Pending

\* etcd drops a key.
LEMMA LeaseExpireInv ==
  ASSUME Inv, NEW u \in User, LeaseExpire(u)
  PROVE  Inv'
<1>1. /\ Delete(u)
      /\ UNCHANGED <<now, row, lastMagic, issued, raced, pc, req, seen, key, granted, retries>>
  BY DEF LeaseExpire
<1>2. SharedOK'
  BY <1>1, DeleteKeeps DEF Inv, SharedOK
<1>3. HandlerOK'
  BY <1>1 DEF Inv, HandlerOK
<1>4. \A h \in Handler : HandlerGood(h)'
  BY <1>1 DEF Inv, HandlerGood, Restricted
<1>5. /\ KnownKeys' \subseteq KnownKeys /\ Settled' \subseteq Settled
      /\ NoneBegun
  BY <1>1, DeleteKeeps DEF KnownKeys, Settled, NoneBegun, Pending, Inv
<1>6. KeysGood'
  BY <1>1, <1>5, DeleteKeeps, KeysKept DEF Inv
<1> QED
  BY <1>2, <1>3, <1>4, <1>6 DEF Inv

\* A user is updated: only the failed-login columns change, which no handler and no
\* key depends on.
LEMMA UpdateUserInv ==
  ASSUME Inv, NEW u \in User, UpdateUser(u)
  PROVE  Inv'
<1>1. UNCHANGED <<now, store, lease, lastMagic, issued, raced, pc, req, seen, key, granted,
                 retries>>
  BY DEF UpdateUser
<1>2. row' \in [User -> Row]
  BY DEF UpdateUser, Inv, SharedOK, Row
<1>3. SharedOK' /\ HandlerOK'
  BY <1>1, <1>2 DEF Inv, SharedOK, HandlerOK
<1>4. \A h \in Handler : HandlerGood(h)'
  BY <1>1 DEF Inv, HandlerGood, Restricted
<1>5. KnownKeys' \subseteq KnownKeys /\ Settled' \subseteq Settled /\ NoneBegun
  BY <1>1 DEF KnownKeys, Settled, NoneBegun, Pending
<1>6. KeysGood'
  BY <1>1, <1>5, KeysKept DEF Inv
<1> QED
  BY <1>3, <1>4, <1>6 DEF Inv

\* Time goes on: what was allowed stays allowed, and no key gets ahead of the clock.
LEMMA TickInv ==
  ASSUME Inv, Tick
  PROVE  Inv'
<1>1. now' = now + 1
      /\ UNCHANGED <<store, lease, row, lastMagic, issued, raced, pc, req, seen, key, granted,
                     retries>>
  BY DEF Tick
<1>2. SharedOK'
  BY <1>1 DEF Inv, SharedOK
<1>3. HandlerOK'
  BY <1>1 DEF Inv, HandlerOK
<1>4. \A h \in Handler : HandlerGood(h)'
  BY <1>1, OthersGood DEF Inv
<1>5. KnownKeys' \subseteq KnownKeys /\ Settled' \subseteq Settled /\ NoneBegun
  BY <1>1 DEF KnownKeys, Settled, NoneBegun, Pending
<1>6. KeysGood'
  BY <1>1, <1>5, KeysKept DEF Inv
<1> QED
  BY <1>2, <1>3, <1>4, <1>6 DEF Inv

-----------------------------------------------------------------------------
(* The invariant, and what follows from it                                 *)

\* The invariant holds initially.
LEMMA InitInv == Init => Inv
<1> SUFFICES ASSUME Init PROVE Inv
  OBVIOUS
<1>1. [count |-> 0, at |-> 0] \in Row
  BY DEF Row
<1>2. SharedOK
  BY <1>1 DEF Init, SharedOK
<1>3. HandlerOK
  BY <1>1 DEF Init, HandlerOK, Step
<1>4. \A h \in Handler : HandlerGood(h)
  BY DEF Init, HandlerGood
<1>5. KnownKeys = {} /\ \A u \in User : store[u] = NoKey
  BY DEF Init, KnownKeys
<1>6. KeysGood
  BY <1>5 DEF Init, KeysGood, KeysBounded, StoredUnderUser, SessionBoundToClient,
              LeaseCovers, PendingYoungest, GrantCovers, Pending
<1> QED
  BY <1>2, <1>3, <1>4, <1>6 DEF Inv

\* A stuttering step
LEMMA UnchangedInv ==
  ASSUME Inv, UNCHANGED vars
  PROVE  Inv'
<1>1. SharedOK' /\ HandlerOK'
  BY DEF Inv, SharedOK, HandlerOK, vars, shared
<1>2. \A h \in Handler : HandlerGood(h)'
  BY DEF Inv, HandlerGood, Restricted, vars, shared
<1>3. KnownKeys' \subseteq KnownKeys /\ Settled' \subseteq Settled /\ NoneBegun
  BY DEF KnownKeys, Settled, NoneBegun, Pending, vars, shared
<1>4. KeysGood'
  BY <1>3, KeysKept DEF Inv, vars, shared
<1> QED
  BY <1>1, <1>2, <1>4 DEF Inv

\* Every step preserves the invariant.
LEMMA NextInv == Inv /\ [Next]_vars => Inv'
<1> SUFFICES ASSUME Inv, [Next]_vars PROVE Inv'
  OBVIOUS
<1>1. ASSUME NEW h \in Handler, LoginStep(h)
      PROVE  Inv'
  BY <1>1, LoginUserInv, FailedInfoInv, NewSessionGetInv, NewSessionDeleteInv,
     NewSessionBuildInv DEF LoginStep
<1>2. ASSUME NEW h \in Handler, SessionStep(h)
      PROVE  Inv'
  BY <1>2, VerifyStoredInv, UpdateSessionInv, LeaseGrantInv, KVPutInv,
     DeleteSessionGetInv, DeleteSessionDeleteInv DEF SessionStep
<1>3. ASSUME NEW h \in Handler, TxStep(h)
      PROVE  Inv'
  BY <1>3, CommitTxInv, AmbiguousCommitInv, RetryTxInv, ReturnInv DEF TxStep, Fail
<1> QED
  BY <1>1, <1>2, <1>3, ArriveInv, LeaseExpireInv, UpdateUserInv,
     TickInv, UnchangedInv DEF Next

\* The invariant always holds.
LEMMA SpecInv == Spec => []Inv
  BY InitInv, NextInv, PTL DEF Spec

\* Types, and the position of every handler in its operation (handler.go Login,
\* VerifySession, Logout, RevokeSession, and the retries of database Transaction).
THEOREM TypeCorrect == Spec => []TypeOK
<1>1. Inv => TypeOK
  BY TypeOKSplit DEF Inv
<1> QED
  BY SpecInv, <1>1, PTL

\* A session belongs to one user and one client address, however concurrent
\* verifications refresh it (session.go verifySession, updateSession).
THEOREM SessionsBound == Spec => []SessionBoundToClient
<1>1. Inv => SessionBoundToClient
  BY DEF Inv, KeysGood
<1> QED
  BY SpecInv, <1>1, PTL

\* The lease of a stored session lasts as long as every key of it that clients hold,
\* unless two updates of the session overlapped (session.go newSession, updateSession;
\* etcd_store.go Put, whose Lease.Grant and KV.Put other handlers come between).
THEOREM LeaseLasts == Spec => []LeaseOutlivesKeys
<1>1. Inv => LeaseOutlivesKeys
  BY SettledHold DEF Inv, KeysGood, LeaseCovers, LeaseOutlivesKeys
<1> QED
  BY SpecInv, <1>1, PTL

\* No login commits while its user is restricted, also when the restriction set in
\* after the login had read the user's row (session.go checkLoginRestricted, run
\* again by database Transaction).
THEOREM RestrictionHolds == Spec => NoLoginWhileRestricted
<1> DEFINE Allowed(h) ==
      LET r == row[req[h].user] IN
      CommitTx(h) /\ req[h].op = "login"
        => ~ (r.count # 0 /\ TryCount # 0 /\ r.count % TryCount = 0
              /\ r.at + RestrictionTime > now)
<1>1. ASSUME Inv, NEW h \in Handler
      PROVE  Allowed(h)
  <2> SUFFICES ASSUME CommitTx(h), req[h].op = "login"
               PROVE  ~ Restricted(row[req[h].user], now)
    BY DEF Restricted
  <2>1. pc[h] = "commit" /\ row[req[h].user] = seen[h]
    BY DEF CommitTx
  <2>2. ~ Restricted(seen[h], now)
    BY <1>1, <2>1 DEF Inv, HandlerGood
  <2> QED
    BY <2>1, <2>2
<1>2. Inv => \A h \in Handler : Allowed(h)
  BY <1>1
<1>3. Inv => [\A h \in Handler : Allowed(h)]_vars
  BY <1>2
<1> QED
  BY SpecInv, <1>3, PTL DEF NoLoginWhileRestricted

\* A session that is neither stored nor about to be put never comes back: no key
\* that a client still has revives it (session.go verifySession, updateSession).
LEMMA DeadStep ==
  ASSUME Inv, [Next]_vars, NEW m \in 1 .. lastMagic, Dead(m)
  PROVE  Dead(m)'
<1>1. ASSUME NEW h \in Handler,
             \A g \in Handler \ {h} : pc'[g] = pc[g] /\ req'[g] = req[g] /\ key'[g] = key[g],
             pc'[h] \notin {"update", "grant", "write"},
             \A u \in User : store'[u] \in {store[u], NoKey}
      PROVE  Dead(m)'
  BY <1>1 DEF Dead, Putting
<1>2. ASSUME NEW h \in Handler, Finish(h), \A u \in User : store'[u] \in {store[u], NoKey}
      PROVE  Dead(m)'
  BY <1>1, <1>2, FinishOK DEF Inv
<1>3. ASSUME NEW h \in Handler, Return(h)
      PROVE  Dead(m)'
  BY <1>2, <1>3 DEF Return, shared
<1>4. ASSUME NEW h \in Handler, NEW step, Goto(h, step),
             step \notin {"update", "grant", "write"},
             \A g \in Handler \ {h} : req'[g] = req[g] /\ key'[g] = key[g],
             \A u \in User : store'[u] \in {store[u], NoKey}
      PROVE  Dead(m)'
  <2>1. pc'[h] = step /\ \A g \in Handler \ {h} : pc'[g] = pc[g]
    BY <1>4 DEF Goto, Inv, HandlerOK
  <2> QED
    BY <1>1, <1>4, <2>1
<1>5. ASSUME NEW h \in Handler, NEW r, NEW step, Begin(h, r, step),
             step \notin {"update", "grant", "write"}
      PROVE  Dead(m)'
  BY <1>4, <1>5 DEF Begin, shared, Inv, HandlerOK
<1>6. ASSUME NEW h \in Handler, NEW k \in Key, Build(h, k), k.magic # m
      PROVE  Dead(m)'
  <2>1. /\ store' = store /\ req' = req /\ pc'[h] = "grant" /\ key'[h] = k
        /\ \A g \in Handler \ {h} : pc'[g] = pc[g] /\ key'[g] = key[g]
    BY <1>6 DEF Build, Goto, Inv, HandlerOK
  <2> QED
    BY <1>6, <2>1 DEF Dead, Putting
<1>7. ASSUME NEW h \in Handler, Arrive(h)
      PROVE  Dead(m)'
  <2>1. ASSUME NEW r, NEW step \in {"loginUser", "verify", "check"}, Begin(h, r, step)
        PROVE  Dead(m)'
    BY <1>5, <2>1
  <2> QED
    BY <1>3, <1>7, <2>1 DEF Arrive, Login, VerifySession, Logout, RevokeSession
<1>8. ASSUME NEW h \in Handler, LoginStep(h)
      PROVE  Dead(m)'
  <2>1. CASE LoginUser(h)
    BY <1>3, <1>4, <2>1 DEF LoginUser, shared
  <2>2. CASE FailedInfo(h)
    BY <1>2, <2>2 DEF FailedInfo
  <2>3. CASE NewSessionGet(h)
    BY <1>3, <1>4, <2>3 DEF NewSessionGet, shared
  <2>4. CASE NewSessionDelete(h)
    <3>1. req[h].user \in User /\ Delete(req[h].user)
      BY <2>4, BusyHandler DEF NewSessionDelete
    <3>2. \A u \in User : store'[u] \in {store[u], NoKey}
      BY <3>1 DEF Delete, Inv, SharedOK
    <3> QED
      BY <1>2, <1>4, <2>4, <3>2 DEF NewSessionDelete
  <2>5. CASE NewSessionBuild(h)
    <3> DEFINE k == Payload(req[h].user, lastMagic + 1, req[h].ip)
    <3>1. k \in Key /\ k.magic = lastMagic + 1
      BY <2>5, BusyHandler, SessionAssumption DEF NewSessionBuild, Payload, Key, Inv, SharedOK
    <3>2. k.magic # m
      BY <3>1 DEF Inv, SharedOK
    <3>3. Build(h, k)
      BY <2>5 DEF NewSessionBuild
    <3> HIDE DEF k
    <3> QED
      BY <1>6, <3>1, <3>2, <3>3
  <2> QED
    BY <1>8, <2>1, <2>2, <2>3, <2>4, <2>5 DEF LoginStep
<1>9. ASSUME NEW h \in Handler, SessionStep(h)
      PROVE  Dead(m)'
  <2>1. CASE VerifyStored(h)
    <3> DEFINE k == req[h].key
    <3>1. CASE Return(h)
      BY <1>3, <3>1
    <3>2. CASE /\ Valid(k, req[h].ip, store[k.user])
               /\ Goto(h, "update")
               /\ UNCHANGED <<shared, req, seen, key, granted, retries>>
      <4>1. req[h].op = "verify" /\ k \in issued
        BY <2>1, BusyHandler DEF VerifyStored, Inv, HandlerGood
      <4>2. k.user \in User
        BY <4>1, KeyFields DEF Inv, SharedOK
      <4>3. k.magic # m
        BY <3>2, <4>2 DEF Valid, Dead
      <4>4. /\ req' = req /\ store' = store
            /\ \A g \in Handler \ {h} : pc'[g] = pc[g]
        BY <3>2 DEF Goto, shared, Inv, HandlerOK
      <4> QED
        BY <3>2, <4>3, <4>4 DEF Dead, Putting, Goto, Inv, HandlerOK
    <3> QED
      BY <2>1, <3>1, <3>2 DEF VerifyStored
  <2>2. CASE UpdateSession(h)
    <3> DEFINE k0 == req[h].key
               k == Payload(k0.user, k0.magic, req[h].ip)
    <3>1. pc[h] = "update" /\ req[h].op = "verify" /\ k0 \in issued
      BY <2>2, BusyHandler DEF UpdateSession, Inv, HandlerGood
    <3>2. k0 \in Key /\ k0.magic # m
      BY <3>1 DEF Dead, Inv, SharedOK
    <3>3. k0.user \in User /\ k0.magic \in Nat /\ req[h].ip \in IP /\ now + Timeout \in Nat
      BY <3>1, <3>2, KeyFields, BusyHandler, SessionAssumption DEF Inv, SharedOK
    <3>4. k \in Key /\ k.magic = k0.magic
      BY <3>3 DEF Payload, Key
    <3>5. Build(h, k)
      BY <2>2 DEF UpdateSession
    <3> HIDE DEF k
    <3> QED
      BY <1>6, <3>2, <3>4, <3>5
  <2>3. CASE DeleteSessionGet(h)
    BY <1>3, <1>4, <2>3 DEF DeleteSessionGet, shared
  <2>4. CASE DeleteSessionDelete(h)
    <3>1. req[h].user \in User /\ Delete(req[h].user)
      BY <2>4, BusyHandler DEF DeleteSessionDelete
    <3>2. \A u \in User : store'[u] \in {store[u], NoKey}
      BY <3>1 DEF Delete, Inv, SharedOK
    <3> QED
      BY <1>2, <1>4, <2>4, <3>2 DEF DeleteSessionDelete
  <2>5. CASE LeaseGrant(h)
    <3>1. /\ pc[h] = "grant" /\ pc'[h] = "write" /\ UNCHANGED <<store, req, key>>
          /\ \A g \in Handler \ {h} : pc'[g] = pc[g]
      BY <2>5 DEF LeaseGrant, Goto, shared, Inv, HandlerOK
    <3> QED
      BY <3>1 DEF Dead, Putting
  <2>6. CASE KVPut(h)
    <3>1. pc[h] = "write" /\ key[h] \in Key /\ key[h].magic # m
      BY <2>6, BusyHandler DEF KVPut, Dead, Putting, Inv, HandlerGood, HandlerOK
    <3>2. \A u \in User : store'[u] = store[u] \/ store'[u] = key[h]
      BY <2>6, <3>1, KeyFields DEF KVPut, Inv, SharedOK
    <3>3. /\ pc'[h] \in {"idle", "commit"}
          /\ \A g \in Handler \ {h} : pc'[g] = pc[g] /\ req'[g] = req[g] /\ key'[g] = key[g]
      <4>1. CASE Finish(h)
        BY <4>1, FinishOK DEF Inv
      <4>2. CASE Goto(h, "commit") /\ UNCHANGED <<req, key>>
        BY <4>2 DEF Goto, Inv, HandlerOK
      <4> QED
        BY <2>6, <4>1, <4>2 DEF KVPut
    <3> QED
      BY <3>1, <3>2, <3>3 DEF Dead, Putting
  <2> QED
    BY <1>9, <2>1, <2>2, <2>3, <2>4, <2>5, <2>6 DEF SessionStep
<1>10. ASSUME NEW h \in Handler, TxStep(h)
       PROVE  Dead(m)'
  <2>1. CASE RetryTx(h)
    <3>1. FirstStep(req[h].op) \notin {"update", "grant", "write"}
      BY DEF FirstStep
    <3>2. \A g \in Handler \ {h} : req'[g] = req[g] /\ key'[g] = key[g]
      BY <2>1 DEF RetryTx, Inv, HandlerOK
    <3> QED
      BY <1>4, <2>1, <3>1, <3>2 DEF RetryTx, shared
  <2>2. CASE CommitTx(h) \/ AmbiguousCommit(h)
    BY <1>2, <2>2 DEF CommitTx, AmbiguousCommit
  <2> QED
    BY <1>3, <1>10, <2>1, <2>2 DEF TxStep, Fail
<1>11. ASSUME NEW u \in User, LeaseExpire(u)
       PROVE  Dead(m)'
  <2>1. \A v \in User : store'[v] \in {store[v], NoKey}
    BY <1>11 DEF LeaseExpire, Delete, Inv, SharedOK
  <2> QED
    BY <1>11, <2>1 DEF LeaseExpire, Dead, Putting
<1>12. ASSUME NEW u \in User, UpdateUser(u)
       PROVE  Dead(m)'
  BY <1>12 DEF UpdateUser, Dead, Putting
<1>13. CASE Tick \/ UNCHANGED vars
  BY <1>13 DEF Tick, vars, shared, Dead, Putting
<1> QED
  BY <1>7, <1>8, <1>9, <1>10, <1>11, <1>12, <1>13 DEF Next

\* What DeadStep says of one step, for every step: a dead session stays dead.
THEOREM NoRevival == Spec => DeadStaysDead
<1>1. Inv /\ [Next]_vars => [\A m \in 1 .. lastMagic : Dead(m) => Dead(m)']_vars
  BY DeadStep
<1> QED
  BY SpecInv, <1>1, PTL DEF Spec, DeadStaysDead

=============================================================================
