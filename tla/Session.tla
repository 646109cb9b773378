------------------------------- MODULE Session -------------------------------
(***************************************************************************)
(* Login sessions of the identity service: the handlers Login,             *)
(* VerifySession, Logout and RevokeSession (services/identity/handler),    *)
(* each run by a goroutine of its own, over the etcd store that keeps one  *)
(* session key per user and the database row that keeps the failed-login   *)
(* bookkeeping of a user.                                                  *)
(*                                                                         *)
(* A handler runs inside database.Transaction, but the store takes no part *)
(* in that transaction: every store.Get and store.Delete is a step of its  *)
(* own, store.Put is two, other handlers run in between, and nothing       *)
(* undoes a store write when the transaction is rolled back or run again.  *)
(*                                                                         *)
(* Time is counted in the unit of the session timeout (minutes); the       *)
(* signature of a key is left out, a client can only present keys that     *)
(* some handler returned; a magic number (64 random bits) is always fresh. *)
(***************************************************************************)
EXTENDS Naturals, FiniteSets

CONSTANTS
  User,             \* users, one database row and one store key each
  Handler,          \* goroutines serving requests
  IP,               \* client addresses
  Timeout,          \* user_session_timeout
  TryCount,         \* user_login_restriction_try_count
  RestrictionTime,  \* user_login_restriction_time
  AdminUser,        \* the user adminUser, whose sessions only administrators revoke
  NoKey,            \* no session key: a store key that does not exist
  NoReq,            \* no request: a handler that is idle
  MaxTime,          \* bound on the clock
  MaxMagic,         \* bound on the sessions ever created
  MaxFailed,        \* bound on the failed-login count
  MaxRetry          \* bound on the re-runs of one transaction

\* SessionPayload: what a session key carries.
Key == [user : User, magic : Nat, ip : IP, expiry : Nat]

\* The columns of the user row that a login reads and writes.
Row == [count : Nat, at : Nat]

Op == {"login", "verify", "logout", "revoke"}

Request == [op : Op, user : User, ip : IP, key : Key \cup {NoKey},
            force : BOOLEAN, correct : BOOLEAN]

ASSUME SessionAssumption ==
  /\ Timeout \in Nat \ {0}
  /\ TryCount \in Nat
  /\ RestrictionTime \in Nat
  /\ MaxTime \in Nat /\ MaxMagic \in Nat /\ MaxFailed \in Nat /\ MaxRetry \in Nat
  /\ AdminUser \in User
  /\ NoKey \notin Key
  /\ NoReq \notin Request

VARIABLES
  now,        \* the clock
  store,      \* store[u]: the key stored for user u
  lease,      \* lease[u]: when the lease of that store key ends
  row,        \* row[u]: the committed row of user u
  lastMagic,  \* number of magic numbers drawn so far
  issued,     \* the keys that handlers have returned to clients
  pc,         \* pc[h]: what handler h does next
  req,        \* req[h]: the request h serves
  seen,       \* seen[h]: the row that the transaction of h has read
  key,        \* key[h]: the key h has built
  granted,    \* granted[h]: when the lease ends that h was granted for its key
  retries,    \* retries[h]: how often the transaction of h was run again
  raced       \* history: the sessions of which two keys were being put at a time

shared == <<now, store, lease, row, lastMagic, issued, raced>>
vars == <<shared, pc, req, seen, key, granted, retries>>

Step == {"idle", "loginUser", "failedInfo", "get", "delete", "put", "grant",
         "write", "verify", "update", "check", "remove", "commit"}

Init ==
  /\ now = 0
  /\ store = [u \in User |-> NoKey]
  /\ lease = [u \in User |-> 0]
  /\ row = [u \in User |-> [count |-> 0, at |-> 0]]
  /\ lastMagic = 0
  /\ issued = {}
  /\ pc = [h \in Handler |-> "idle"]
  /\ req = [h \in Handler |-> NoReq]
  /\ seen = [h \in Handler |-> [count |-> 0, at |-> 0]]
  /\ key = [h \in Handler |-> NoKey]
  /\ granted = [h \in Handler |-> 0]
  /\ retries = [h \in Handler |-> 0]
  /\ raced = {}

-----------------------------------------------------------------------------
(* The store. Delete of a missing key is no error.                         *)

Delete(u) ==
  /\ store' = [store EXCEPT ![u] = NoKey]
  /\ lease' = [lease EXCEPT ![u] = 0]

\* etcd drops a key some time after its lease has ended.
LeaseExpire(u) ==
  /\ store[u] # NoKey
  /\ lease[u] <= now
  /\ Delete(u)
  /\ UNCHANGED <<now, row, lastMagic, issued, raced, pc, req, seen, key, granted, retries>>

Tick ==
  /\ now < MaxTime
  /\ now' = now + 1
  /\ UNCHANGED <<store, lease, row, lastMagic, issued, raced, pc, req, seen, key, granted,
                 retries>>

-----------------------------------------------------------------------------
(* Handlers and the transaction around them.                               *)

Goto(h, step) == pc' = [pc EXCEPT ![h] = step]

\* A handler accepts a request.
Begin(h, r, step) ==
  /\ pc[h] = "idle"
  /\ Goto(h, step)
  /\ req' = [req EXCEPT ![h] = r]
  /\ UNCHANGED <<shared, seen, key, granted, retries>>

\* A handler returns.
Finish(h) ==
  /\ Goto(h, "idle")
  /\ req' = [req EXCEPT ![h] = NoReq]
  /\ seen' = [seen EXCEPT ![h] = [count |-> 0, at |-> 0]]
  /\ key' = [key EXCEPT ![h] = NoKey]
  /\ granted' = [granted EXCEPT ![h] = 0]
  /\ retries' = [retries EXCEPT ![h] = 0]

\* A handler returns without having changed anything in this step.
Return(h) ==
  /\ Finish(h)
  /\ UNCHANGED shared

\* A database statement or a store call fails without effect, or the process
\* dies: the transaction is rolled back, what was put in the store stays.
Fail(h) ==
  /\ pc[h] # "idle"
  /\ Return(h)

\* The row a successful login leaves behind.
LoggedInRow(r) == [r EXCEPT !.count = 0]

\* RELEASE SAVEPOINT commits, if no other transaction has changed what this one
\* read, and the handler returns what it has built.
CommitTx(h) ==
  LET r == req[h]
      login == r.op = "login"
  IN
  /\ pc[h] = "commit"
  /\ login => row[r.user] = seen[h]
  /\ row' = IF login THEN [row EXCEPT ![r.user] = LoggedInRow(seen[h])] ELSE row
  /\ issued' = IF r.op \in {"login", "verify"} THEN issued \cup {key[h]} ELSE issued
  /\ Finish(h)
  /\ UNCHANGED <<now, store, lease, lastMagic, raced>>

\* RELEASE SAVEPOINT takes effect, but its answer, or the handler's, is lost.
AmbiguousCommit(h) ==
  LET r == req[h] IN
  /\ pc[h] = "commit"
  /\ r.op = "login"
  /\ row[r.user] = seen[h]
  /\ row' = [row EXCEPT ![r.user] = LoggedInRow(seen[h])]
  /\ Finish(h)
  /\ UNCHANGED <<now, store, lease, lastMagic, issued, raced>>

FirstStep(op) ==
  CASE op = "login" -> "loginUser"
    [] op = "verify" -> "verify"
    [] OTHER -> "check"

\* RELEASE SAVEPOINT answers 40001, serialization failure: ROLLBACK TO SAVEPOINT
\* and run the handler's function again. Logout has no statement to conflict.
RetryTx(h) ==
  /\ pc[h] = "commit"
  /\ req[h].op # "logout"
  /\ retries[h] < MaxRetry
  /\ retries' = [retries EXCEPT ![h] = @ + 1]
  /\ Goto(h, FirstStep(req[h].op))
  /\ key' = [key EXCEPT ![h] = NoKey]
  /\ seen' = [seen EXCEPT ![h] = [count |-> 0, at |-> 0]]
  /\ UNCHANGED <<shared, req, granted>>

-----------------------------------------------------------------------------
(* Login                                                                   *)

Login(h, u, a, force, correct) ==
  Begin(h, [op |-> "login", user |-> u, ip |-> a, key |-> NoKey,
            force |-> force, correct |-> correct], "loginUser")

\* checkLoginRestricted; a restriction that is disabled is TryCount = 0.
Restricted(r, t) ==
  /\ r.count # 0
  /\ TryCount # 0
  /\ r.count % TryCount = 0
  /\ r.at + RestrictionTime > t

\* Mutant of LoginUser: a correct password is accepted before the restriction is
\* checked.
LoginUserUnchecked(h) ==
  /\ pc[h] = "loginUser"
  /\ seen' = [seen EXCEPT ![h] = row[req[h].user]]
  /\ Goto(h, IF req[h].correct THEN "get" ELSE "failedInfo")
  /\ UNCHANGED <<shared, req, key, granted, retries>>

\* loginUser, validateUserLogin: what they write is kept in the transaction.
LoginUser(h) ==
  LET r == row[req[h].user] IN
  /\ pc[h] = "loginUser"
  /\ \/ /\ Restricted(r, now)
        /\ Return(h)  \* login_restricted
     \/ /\ ~ Restricted(r, now)
        /\ ~ req[h].correct
        /\ Goto(h, "failedInfo")
        /\ UNCHANGED <<shared, req, seen, key, granted, retries>>
     \/ /\ ~ Restricted(r, now)
        /\ req[h].correct
        /\ seen' = [seen EXCEPT ![h] = r]
        /\ Goto(h, "get")
        /\ UNCHANGED <<shared, req, key, granted, retries>>

\* updateUserLoginFailedInfo, in the deferred transaction of its own
FailedInfo(h) ==
  LET u == req[h].user IN
  /\ pc[h] = "failedInfo"
  /\ row[u].count < MaxFailed
  /\ row' = [row EXCEPT ![u] = [count |-> row[u].count + 1, at |-> now]]
  /\ Finish(h)  \* incorrect_password
  /\ UNCHANGED <<now, store, lease, lastMagic, issued, raced>>

\* newSession, store.Get
NewSessionGet(h) ==
  LET s == store[req[h].user] IN
  /\ pc[h] = "get"
  /\ \/ /\ s # NoKey /\ ~ req[h].force
        /\ Return(h)  \* already_login
     \/ /\ s = NoKey \/ req[h].force
        /\ Goto(h, IF s = NoKey THEN "put" ELSE "delete")
        /\ UNCHANGED <<shared, req, seen, key, granted, retries>>

\* newSession, store.Delete of the session to be replaced. Without an answer in
\* time it has had its effect all the same.
NewSessionDelete(h) ==
  /\ pc[h] = "delete"
  /\ Delete(req[h].user)
  /\ \/ Finish(h)
     \/ /\ Goto(h, "put")
        /\ UNCHANGED <<req, seen, key, granted, retries>>
  /\ UNCHANGED <<now, row, lastMagic, issued, raced>>

\* generatePayload
Payload(u, magic, a) ==
  [user |-> u, magic |-> magic, ip |-> a, expiry |-> now + Timeout]

\* The handlers that have built a key of session m and not put it in the store yet
Putting(m) == {h \in Handler : pc[h] \in {"grant", "write"} /\ key[h].magic = m}

\* generateSessionKey: what goes to the store is fixed before store.Put is called.
Build(h, k) ==
  /\ Goto(h, "grant")
  /\ key' = [key EXCEPT ![h] = k]
  /\ raced' = IF Putting(k.magic) = {} THEN raced ELSE raced \cup {k.magic}
  /\ UNCHANGED <<now, store, lease, row, issued, req, seen, granted, retries>>

\* newSession, the magic number and the key
NewSessionBuild(h) ==
  /\ pc[h] = "put"
  /\ lastMagic < MaxMagic
  /\ lastMagic' = lastMagic + 1
  /\ Build(h, Payload(req[h].user, lastMagic + 1, req[h].ip))

\* store.Put, first Lease.Grant
LeaseGrant(h) ==
  /\ pc[h] = "grant"
  /\ granted' = [granted EXCEPT ![h] = now + Timeout]
  /\ Goto(h, "write")
  /\ UNCHANGED <<shared, req, seen, key, retries>>

\* Mutant of KVPut: replacing a key keeps the lease of the key that was there.
KVPutKeepsLease(h) ==
  LET u == key[h].user IN
  /\ pc[h] = "write"
  /\ store' = [store EXCEPT ![u] = key[h]]
  /\ lease' = [lease EXCEPT ![u] = IF store[u] = NoKey THEN granted[h] ELSE @]
  /\ Goto(h, "commit")
  /\ granted' = [granted EXCEPT ![h] = 0]
  /\ UNCHANGED <<now, row, lastMagic, issued, raced, req, seen, key, retries>>

\* store.Put, then KV.Put, with the lease granted before and whatever is stored by
\* now. Without an answer in time the handler fails although the store has the key.
KVPut(h) ==
  LET u == key[h].user IN
  /\ pc[h] = "write"
  /\ store' = [store EXCEPT ![u] = key[h]]
  /\ lease' = [lease EXCEPT ![u] = granted[h]]
  /\ \/ Finish(h)
     \/ /\ Goto(h, "commit")
        /\ granted' = [granted EXCEPT ![h] = 0]
        /\ UNCHANGED <<req, seen, key, retries>>
  /\ UNCHANGED <<now, row, lastMagic, issued, raced>>

-----------------------------------------------------------------------------
(* VerifySession                                                           *)

\* A client presents a key it was given, from whatever address it now has.
VerifySession(h, k, a) ==
  Begin(h, [op |-> "verify", user |-> k.user, ip |-> a, key |-> k,
            force |-> FALSE, correct |-> FALSE], "verify")

\* Mutant of Valid: the client's address is not compared.
ValidAnyAddress(k, a, s) ==
  /\ s # NoKey
  /\ k.magic = s.magic
  /\ k.expiry >= now

\* Mutant of Valid: the magic number is not compared.
ValidAnyMagic(k, a, s) ==
  /\ s # NoKey
  /\ a = s.ip
  /\ k.expiry >= now

\* What verifySession accepts.
Valid(k, a, s) ==
  /\ s # NoKey
  /\ a = s.ip
  /\ k.magic = s.magic
  /\ k.expiry >= now

\* verifySession. The key it checks against is not looked at again.
VerifyStored(h) ==
  LET k == req[h].key IN
  /\ pc[h] = "verify"
  /\ \/ /\ ~ Valid(k, req[h].ip, store[k.user])
        /\ Return(h)  \* unauthenticated
     \/ /\ Valid(k, req[h].ip, store[k.user])
        /\ Goto(h, "update")
        /\ UNCHANGED <<shared, req, seen, key, granted, retries>>

\* updateSession, unconditional: the key of the same session, to be put in the store
UpdateSession(h) ==
  LET k == req[h].key IN
  /\ pc[h] = "update"
  /\ Build(h, Payload(k.user, k.magic, req[h].ip))
  /\ UNCHANGED lastMagic

-----------------------------------------------------------------------------
(* Logout and RevokeSession                                                *)

\* The key must be of the user the gateway authenticated; whether it is the key
\* of the stored session is not checked.
Logout(h, k, reqUser) ==
  IF k.user = reqUser
    THEN Begin(h, [op |-> "logout", user |-> k.user, ip |-> k.ip, key |-> NoKey,
                   force |-> FALSE, correct |-> FALSE], "check")
    ELSE /\ pc[h] = "idle"
         /\ Return(h)  \* invalid_session

\* validateRevokeSession; only the user the key names is used from then on. A
\* user of another tenant ends the request too (Fail).
RevokeSession(h, k, isAdmin) ==
  IF isAdmin \/ k.user # AdminUser
    THEN Begin(h, [op |-> "revoke", user |-> k.user, ip |-> k.ip, key |-> NoKey,
                   force |-> FALSE, correct |-> FALSE], "check")
    ELSE /\ pc[h] = "idle"
         /\ Return(h)  \* invalid_session

\* deleteSession, store.Get
DeleteSessionGet(h) ==
  /\ pc[h] = "check"
  /\ \/ /\ store[req[h].user] = NoKey
        /\ Return(h)  \* unknown_session
     \/ /\ store[req[h].user] # NoKey
        /\ Goto(h, "remove")
        /\ UNCHANGED <<shared, req, seen, key, granted, retries>>

\* deleteSession, store.Delete: of whatever is stored by now
DeleteSessionDelete(h) ==
  /\ pc[h] = "remove"
  /\ Delete(req[h].user)
  /\ \/ Finish(h)
     \/ /\ Goto(h, "commit")
        /\ UNCHANGED <<req, seen, key, granted, retries>>
  /\ UNCHANGED <<now, row, lastMagic, issued, raced>>

-----------------------------------------------------------------------------
\* UpdateUser, one transaction without store access: the row is saved without the
\* failed-login columns, which become NULL.
UpdateUser(u) ==
  /\ row' = [row EXCEPT ![u] = [count |-> 0, at |-> 0]]
  /\ UNCHANGED <<now, store, lease, lastMagic, issued, raced, pc, req, seen, key, granted,
                 retries>>

\* The keys an administrator can name: clients' keys, and stored keys as the
\* user queries return them (getSession).
Listed == issued \cup {store[u] : u \in {v \in User : store[v] # NoKey}}

Arrive(h) ==
  \/ \E u \in User, a \in IP, force, correct \in BOOLEAN :
        Login(h, u, a, force, correct)
  \/ \E k \in issued, a \in IP : VerifySession(h, k, a)
  \/ \E k \in issued, u \in User : Logout(h, k, u)
  \/ \E k \in Listed, isAdmin \in BOOLEAN : RevokeSession(h, k, isAdmin)

LoginStep(h) ==
  \/ LoginUser(h)
  \/ FailedInfo(h)
  \/ NewSessionGet(h)
  \/ NewSessionDelete(h)
  \/ NewSessionBuild(h)

SessionStep(h) ==
  \/ VerifyStored(h)
  \/ UpdateSession(h)
  \/ LeaseGrant(h)
  \/ KVPut(h)
  \/ DeleteSessionGet(h)
  \/ DeleteSessionDelete(h)

TxStep(h) ==
  \/ CommitTx(h)
  \/ AmbiguousCommit(h)
  \/ RetryTx(h)
  \/ Fail(h)

Next ==
  \/ \E h \in Handler : Arrive(h) \/ LoginStep(h) \/ SessionStep(h) \/ TxStep(h)
  \/ \E u \in User : LeaseExpire(u) \/ UpdateUser(u)
  \/ Tick

Spec == Init /\ [][Next]_vars

-----------------------------------------------------------------------------
(* Properties                                                              *)

StepOf(op) ==
  CASE op = "login" -> {"loginUser", "failedInfo", "get", "delete", "put", "grant", "write",
                      "commit"}
    [] op = "verify" -> {"verify", "update", "grant", "write", "commit"}
    [] OTHER -> {"check", "remove", "commit"}

\* Types, and what a handler's position says about its request: an idle handler
\* has none, a busy one is at a step of the operation it serves.
TypeOK ==
  /\ now \in Nat
  /\ store \in [User -> Key \cup {NoKey}]
  /\ lease \in [User -> Nat]
  /\ row \in [User -> Row]
  /\ lastMagic \in Nat
  /\ issued \subseteq Key
  /\ pc \in [Handler -> Step]
  /\ req \in [Handler -> Request \cup {NoReq}]
  /\ seen \in [Handler -> Row]
  /\ key \in [Handler -> Key \cup {NoKey}]
  /\ granted \in [Handler -> Nat]
  /\ retries \in [Handler -> Nat]
  /\ raced \subseteq Nat
  /\ \A h \in Handler :
       IF pc[h] = "idle" THEN req[h] = NoReq
       ELSE req[h] \in Request /\ pc[h] \in StepOf(req[h].op)

\* Every key there is: at a client, in the store, or in a handler's hands.
KnownKeys ==
  (issued \cup {store[u] : u \in User} \cup {key[h] : h \in Handler}) \ {NoKey}

\* A session belongs to one user and one client address for as long as it lives:
\* however verifications refresh it (session.go verifySession, updateSession),
\* concurrently or not, all keys with its magic number name the same two.
SessionBoundToClient ==
  \A k1, k2 \in KnownKeys :
    k1.magic = k2.magic => k1.user = k2.user /\ k1.ip = k2.ip

\* etcd never drops a session that a client still holds an unexpired key for, unless
\* two keys of it were being put at a time: the lease that etcd_store.go Put attaches
\* lasts at least as long as every key of the stored session that was returned,
\* whatever was deleted, written late or run again in between. When updateSession
\* overlaps with itself, the writes may land in another order than the keys were
\* built, and the lease of the older key is the one that counts. (All for as long as
\* user_session_timeout is not changed.)
LeaseOutlivesKeys ==
  \A u \in User : \A k \in issued :
    store[u] # NoKey /\ store[u].magic = k.magic /\ k.magic \notin raced
      => k.expiry <= lease[u]

\* A session is dead when it is not stored and no login or verification is still on
\* its way to put a key of it in the store.
Dead(m) ==
  /\ \A u \in User : store[u] # NoKey => store[u].magic # m
  /\ \A h \in Handler : pc[h] = "update" => req[h].key.magic # m
  /\ Putting(m) = {}

\* A dead session stays dead, whatever keys of it clients still present: the only
\* way back for a session that was deleted, replaced or has expired is a
\* verification that overlaps with that (session.go updateSession).
DeadStaysDead ==
  [][\A m \in 1 .. lastMagic : Dead(m) => Dead(m)']_vars

\* No login succeeds while its user is restricted: neither one that arrives then
\* nor one that read the row before the restriction set in, which commits only
\* after having read it again (session.go checkLoginRestricted, database
\* Transaction).
NoLoginWhileRestricted ==
  [][\A h \in Handler :
       LET r == row[req[h].user] IN
       CommitTx(h) /\ req[h].op = "login"
         => ~ (r.count # 0 /\ TryCount # 0 /\ r.count % TryCount = 0
               /\ r.at + RestrictionTime > now)]_vars

=============================================================================
