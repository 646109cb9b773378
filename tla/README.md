# CDM-Cloud: specifications, model checking and proofs

CDM-Cloud is the common platform of the CDM services: a library (`common/`) for
databases, message brokers, key-value stores, leader election, logging and errors,
and the services built on it (`services/identity`, `services/notification`,
`services/api-gateway`). This directory holds TLA+ modules that model its core, the
TLC configurations that check them on small instances, and TLAPS proofs.

## 1. Inventory

| Component | State it keeps | Operations | Interacts with |
|---|---|---|---|
| identity sessions (`services/identity/handler/session.go`, `handler.go`) | one session key per user in etcd, under a lease; failed-login count and time in the user's row; keys at clients | Login, VerifySession, Logout, RevokeSession, and the listing of sessions | store, database transactions, gateway |
| key-value store (`common/store`) | etcd client, endpoints refreshed by a goroutine | Get, GetAll, List, Put with a TTL, Delete, Transaction | registry, etcd |
| database connection (`common/database`) | `c.DB`, channel `c.close`, reconnect and monitor goroutines | Open, connect, reconnect, monitorHealthStatus, Close, Transaction | registry, CockroachDB |
| message broker client (`common/broker`) | connection, exchange channel, `connected`, `close`, `waitConnection`; per subscriber `mayRun`, `s.ch` | Connect, reconnect, Disconnect, subscribe, resubscribe, Unsubscribe, Publish | registry, RabbitMQ, every service |
| notification: intake and classification (`services/notification/event`, `notifier`) | rows of events, two queues, a goroutine per event | ReportEvent, subscribeEvent, createEvent, ClassifyEvent, notifyEvent | broker, database, mail server |
| notification: event stream (`handler/handler.go`, `lookup.go`) | an unbuffered channel and a subscription per stream | GetEventsStream, eventLookup | broker, gateway websocket |
| notification: cleaner (`event/cleaner.go`) | channel `done`, a goroutine | Start, Stop, clean | database |
| notification: configuration and queries (`config`, `event/query.go`) | receive settings per tenant and user | SetConfig, GetConfig, ResetUserEventReceives, queries | database |
| API gateway (`services/api-gateway`) | map of paths to endpoints | authentication, routing, authorisation, error conversion, websocket | identity, registry |
| identity administration (`handler/user.go`, `group.go`, `tenant.go`) | users, their roles, groups, members, tenants and their solutions | add, update, delete, assign, passwords, activation, CheckAuthorization | database, gateway, sessions |
| identity queries and configuration (the Get handlers, `user_filter.go`, `role_filter.go`, `config.go`) | a tenant's configuration rows | GetUser(s), GetSimpleUser, GetGroup(s), GetTenant(s), GetRoles, GetConfig, SetConfig | accounts, sessions, database |
| leader election and locks (`common/sync`) | etcd session, election, lock | CampaignLeader, Status, Resign, Close, Lock, Unlock | etcd |
| start-up and shutdown (`common/command.go`, the services' `main.go`) | which parts are up | Before, Run, Destroy | everything |
| configuration values, logger, errors, metadata, registry daemon | values, levels, formats | lookups and conversions | everything |

### What is hard here

* **Sessions.** A handler runs in a database transaction, but the store is outside
  of it. Every `store.Get`, `Put` and `Delete` is a step that other handlers can get
  in between of; a store write is not undone when the transaction fails, and is
  repeated when CockroachDB answers 40001 and `database.Transaction` runs the
  handler again; a call may have had its effect although its answer was lost. `Put` is
  two calls, the grant of a lease and the write of a key that was built before both.
* **Database connection.** `c.DB` is replaced, and the old pool closed, while
  transactions, the health monitor and `Close` use it, without a lock.
* **Broker client.** The reconnect goroutine changes the connection without the
  mutex that subscribers hold; channels are closed and made anew; `Close` is both
  the reaction to a failed set-up and the shutdown everybody else looks for.
* **Administration.** A handler decides by a snapshot of its requester that the gateway
  took when it verified the session; roles, groups and users change in the meantime.
  The same relations are written by several handlers, each with checks of its own.
* **Notification.** A report is acknowledged when its event is stored, and dropped when
  that fails; a delivery is put back after partial work, and for ever when the user's time
  zone, the address or the configuration is not one that mail can be sent with; per-user
  publications happen inside a transaction that may be run again; users and settings
  change between publication and mail. A stream's channel is closed while deliveries
  may still be sent to it. The cleaner's transaction goes on after a failure.
* **Queries.** Pages, totals and filters are computed in different places.
* **Leader election.** A leader's lease may end without the leader noticing.

`PROJECT.json` lists each hazard at its line, with the properties that cover it.

### What makes each component correct

* Sessions: a session is bound to a user and a client address for life; what has
  ended is not revived; etcd does not drop what a client holds a valid key for; no
  login succeeds while a user is restricted, and a restriction lasts its time; a logout
  ends the session; a duplicate login is reported.
* Database connection: no pool leaks; no good pool is closed under a transaction; one monitor;
  a lost node is replaced; `Close` ends the goroutine and the connection.
* Broker client: no connection leaks; `connected` means there is one; a channel is
  closed once; subscribers get back to receiving; `Unsubscribe` and `Disconnect` end
  what they are to end.
* Administration: there is one administrator, whom nobody else can touch; a request
  stays within the requester's tenant, and an ordinary user's within the own account;
  groups hold users of their tenant and have unique names.
* Queries and configuration: what is read stays within the reader's tenant; lists and
  pages agree with what they list; a configured tenant stays usable.
* Notification: a valid report is stored before it is forgotten; mail stays within the
  tenant and is delivered at least once where it can be; a stream is faithful; the
  cleaner removes what has expired and nothing else; shutdown and `Stop` return.
* Leader election: at most one holder whose lease is alive; the lock passes on only when
  it was lost; nobody waits for nothing; a superseded leader that watches is told.
* Gateway (what `Accounts` has of it): a request is only served for a user that was
  verified and a role that is allowed.

## 2. Modules

| Module | Models |
|---|---|
| `Session` | login sessions of the identity service over store and database |
| `Accounts` | users, roles, groups and tenants of the identity service, and the authorisation of the requests that change them |
| `Identity` | extends `Accounts`: the queries, and the configuration of tenants |
| `EventCodes` | event codes, and the requests that select by them |
| `NotificationSettings` | extends `EventCodes`: configuration and receive settings of the notification service |
| `Notification` | extends `NotificationSettings`: reports, stored events, classification, mail |
| `AtLeastOnce` | what a consumer of a queue with requeue promises; implemented by `Notification` |
| `EventStore` | extends `EventCodes`: stored events, their queries and the cleaner |
| `EventStream` | extends `EventCodes`: event streams |
| `NotificationService` | extends `EventStream`: the process around the streams, from start-up to shutdown |
| `Election` | leader election and locks over etcd sessions |
| `LeasedLock` | what they promise; implemented by `Election` |
| `DbConnection` | `database.ConnectionWrapper` |
| `BrokerConn` | `rabbitMQConn`, `rbroker`, and its subscribers |
| `MC...` | instances for TLC |
| `SessionProofs`, `IdentityProofs` (also of `Accounts`), `EventStoreProofs`, `NotificationServiceProofs` (also of `EventStream`), `NotificationProofs`, `ElectionProofs`, `DbConnectionProofs`, `BrokerConnProofs` | invariants, theorems and proofs |

### Session

State: the clock `now`; `store[u]` and `lease[u]`, the key etcd has for user `u` and
the end of its lease; `row[u]`, the committed failed-login columns; `lastMagic`, the
magic numbers drawn; `issued`, the keys at clients; and for each handler goroutine
its position `pc`, its request `req`, the row `seen` its transaction has read, the
`key` it has built, the end `granted` of the lease it got for it, and its `retries`.
`raced` is a history: the sessions of which two keys were being put at a time.

An action is what a handler does between two points where another handler can get in:

| Action | Code |
|---|---|
| `Login`, `VerifySession`, `Logout`, `RevokeSession` | a request arrives, with the checks made before the first access |
| `LoginUser` | `loginUser`: the row is read, the restriction and the password are checked |
| `FailedInfo` | `updateUserLoginFailedInfo` in its own transaction |
| `NewSessionGet`, `NewSessionDelete`, `NewSessionBuild` | `newSession`: look, delete when forced, build a key |
| `VerifyStored`, `UpdateSession` | `verifySession`; `updateSession` up to the new key |
| `LeaseGrant`, `KVPut` | the two calls of `etcdStore.Put`, for both |
| `DeleteSessionGet`, `DeleteSessionDelete` | `deleteSession` |
| `UpdateUser` | `updateUser` of `user.go`, for what it does to the failed-login columns |
| `CommitTx`, `AmbiguousCommit`, `RetryTx`, `Fail` | how `database.Transaction` ends: commit, commit with a lost answer, 40001, error or crash |
| `LeaseExpire`, `Tick` | etcd and the clock (external) |

Abstractions: a key's signature and encoding are left out, clients present keys they
were given, from any address, at any time; administrators may also name stored keys,
which the user queries list. Magic numbers are 64 random bits and taken to be
fresh. The timeout is a constant: changing `user_session_timeout` at run time is not
modelled. Validation of names and passwords is the input `correct`. A conflict of
transactions shows at commit, where a login's row must be what it has read; retries
by the database at other statements would start over from an earlier point and do
no store access the model lacks. `Fail` is possible at every step.

### DbConnection

State: which servers are `up`; `db` is `c.DB`, a pool of a node; `open` the pools
not closed; `closed` the channel `c.close`; `rpc`, `tried`, `fresh`, `old` the
position and locals of `reconnect` and `connect`; `ch`, `failed`, `live` the health
channels and monitors; `cpc` the callers of `Close`; `tpc` and `pool` the callers of
`Transaction` and the pool each has read; `lost`, a history, the pools that failed a ping. `Discover`, `Dial`,
`ConnectFailed`, `Swap`, `DropOld` are the steps of `connect`; `StartMonitor`,
`HealthLost`, `Stop` those of `reconnect`; `MonitorFail` is a monitor whose ping
fails; `CloseCheck`, `CloseChan`, `ClosePanics`, `CloseDB` are `Close`. A second
`close` of the channel is a panic and ends the process. `TxLoad` reads `c.DB`, `TxBegin` and
`TxFails` begin on what was read, which may have been replaced and closed in between, and
`TxEnd` ends the transaction. What one does while it runs is left to the other modules.

### BrokerConn

State: the server (`up`), the connections (`cur` is `r.Connection`, 0 for nil;
`alive` the open ones), `connected`, `closed` and `waiting` (the channels `r.close`
and `r.waitConnection`), the position of the application and of each reconnect
goroutine (`pc`, `watch`), `rbroker.mtx`, and for each subscriber its position
`spc`, `mayRun`, the channel it reads (`local`), `s.ch` (`ch`), the channel
`Unsubscribe` has closed (`cut`) and, as history, whether `Unsubscribe` met it while it was
resubscribing (`overlap`). `Dial`, `Setup`, `DeclareQueues` are `tryConnect`;
`Reconnected`, `Unblock`, `Listen`, `Lost`, `Stop` are `reconnect`; `CheckMayRun` to
`Handled` are `resubscribe`. Where the code would touch a nil connection or close a
closed channel there is an action `...Panics`, which ends the process.

### Accounts

State: the rows `tenant`, `user`, `group`, the relations `role` and `member`, and for
each request in flight `req[r]`: the requester with roles and tenant as `VerifySession`
returned them, and the tenant the request names in its header.

| Action | Code |
|---|---|
| `VerifySession` | the gateway's `Wrap` up to the snapshot, `getUser` |
| `Serve`, in every request | `CheckAuthorization` (`Authorized`, `Enforce`, `Policy`) and the call of the handler |
| `AddUser`, `UpdateUser`, `DeleteUser`, `UpdateUserPassword`, `ResetUserPassword` | `user.go` |
| `AddGroup`, `UpdateGroup`, `DeleteGroup`, `SetGroupUsers` | `group.go` |
| `AddTenant`, `UpdateTenant`, `ActivateTenant`, `DeactivateTenant` | `tenant.go` |
| `Refuse` | a request that is turned away, fails or only reads |

A handler is one serializable transaction, hence one step. `CheckAuthorization` is part
of that step, which loses nothing: it reads only the snapshot, which does not change,
and whether the tenant exists, which stays so. Initially there is what
`cdm-cloud-dml.sql` delivers: one tenant, one group, one user with the role `admin`.
Identifiers come from sequences and are not used again. What a user's row holds of names,
addresses and the like is one value, the `profile`, which `AddUser` and `UpdateUser` take from
the request; lengths and formats are left out, and so are the passwords, except for
`password_update_flag`. Whether the session still exists when the handler runs is
nothing the handler looks at. Receive settings of users, whose foreign key can make
`DeleteUser` fail, are in `NotificationSettings`; here the failure is a `Refuse`.

### Identity

A step of `Accounts`, or `SetConfig`, which changes `conf`, the configuration rows of
each tenant. A request's field that is not given is not in its domain; the rows about
restricted logins are only saved when the restriction is enabled. The queries are
operators over the state, for a query is one transaction and returns what one state
says; a refused one returns the empty set. `ReadsWithinTenant` and `ListsAgree` quantify
over all requests in flight, so that every query is asked in every state with every
snapshot. The users found by name, department or position, and those with a stored
session, are parameters. `getUsers` has no `ORDER BY`: `GetUsers` is the set of the answers
the database may give, in which a page has any rows, as many as offset and limit leave.
Hence `ListsAgree` says of pages how many there are, how full they are and that they show
nobody who should not be on the list, and not that every user is on one of them: that the
code does not ensure.

### EventCodes, NotificationSettings and Notification

State of the settings: `conf[t]`, a tenant's event configuration (or no rows, for which
the defaults stand), `tenantRcv[t][c]` and `userRcv[u][c]`, the receive flags, `users`, and
`profile[u]`, the address and the time zone of a user.
`SetConfig`, `SetTenantEventReceives`, `SetUserEventReceives`, `ResetUserEventReceives`
are the handlers with their validation, `DeleteUser` and `UpdateUser` are the identity
service's: the foreign key refuses the first while the user has settings, and the second
checks of a time zone no more than its length.

State of the pipeline: the queue `reports`, the report in `intake` and what the intake
does next; `events`, the rows; `tasks`, the goroutines that classify; the queue `mailq`,
the delivery in `mailer` and what the mailer does next; `settled`, the deliveries that
are done. `returned` has the handlers whose message the broker has taken back.

| Action | Code |
|---|---|
| `ReportEvent`, `reportEvent` | `event.ReportEvent` of another service, and of this one after a failure |
| `ReceiveReport`, `StoreEvent`, `SkipReport`, `RefuseReport`, `AckReport` | `subscribeEvent` within the subscriber of a queue without requeue |
| `ClassifyRead`, `ClassifyPublish`, `ClassifyDone`, `ClassifyRetry`, `ClassifyFail` | the transaction of `ClassifyEvent` |
| `ReceiveDelivery`, `NotifySend`, `NotifySkip`, `NotifyClose`, `NotifyRetry`, `NotifyFail`, `AckDelivery` | `notifyEvent` and `emailNotifier.notify` within the subscriber of a queue with requeue |
| `LoseConnection`, `Crash` | unacknowledged messages return; handlers go on, or are gone |

`Sendable` has every condition under which `emailNotifier.notify` gets as far as sending:
the time zone is known, the configuration has a transport (`NewEmail`) and an address to
connect to, the mail server accepts sender and password (`Auth`; the code presents the sender,
not the configured user name) and the recipient's mailbox. Which zones, credentials and
mailboxes are good are constants, for they are the environment's. A delivery that is wanted
and not sendable, or whose user is deleted, is `Stuck`: each attempt fails (`NotifyFail`,
without a fault) and queues it again.

`Recipients` follows the query as it is: an inner join with all rows of a user, of any
code, so that a user with several rows gets several deliveries and one without rows none.
`ResetUserEventReceives` follows gorm, which builds no condition here. The broker keeps
its queues: messages are transient, and a restart of the broker, which loses them, is not
in the model.

### EventStore

State: the day, the rows `events`, `period[t]`, the position `cpc` and locals of the
cleaner, `main` for `Start` and `Stop`, and as history `began`, `done` and `inForce`, the
periods each tenant has had since the cleaning began. `CleanBegin`, `CleanTenant`,
`CleanEnd`, `CleanRetry` are the transaction of `cleanExpiredEvent`, `Midnight` and
`Stopped` the select of `cleaner`. A statement after a failed one changes nothing, and the
transaction does not commit. Time is in days, for the cleaner compares with midnights. The
queries `GetEvent` and `GetEvents` are operators, from the handler down.

### EventStream and NotificationService

A stream is a handler (`spc`), a subscriber (`sub`) with the deliveries of its temporary
queue (`queue`) and the one it is sending on `lookup.C` (`hand`), the events gathered, and
a ticker. `CheckMayRun`, `Consume`, `Deliver`, `SendPanics` are the subscriber;
`GetEventsStream`, `Gather`, `OnTick`, `Send`, `SendFails`, `Unsubscribe`, `CloseLookup` the
handler, which returns on any error of `Send`, whether the client is gone or not; `CreateEvent`, `PublishEvent`, `PublishFails` the goroutine of each stored event.
`NotificationService` has `main` (`mpc`) go through `Before`, its own steps, `Run`, and all
back through `Destroy`, the parts in the order of the code; a step that fails, the
registration of the handler and `Run` included, is fatal (`Fatal`), which runs no deferred call; `destroyBroker` ends all subscriptions and `WgWait` waits for their handlers.

### Election

State: for each process its position `pc`, its `session` and its `watch`; in etcd the
`leases` that are alive, the `keys` under them and the revision `rev` of each. `NewSession`,
`PutKey`, `PutFails`, `Granted`, `Cancel`, `WaitFails` are `CampaignLeader` and `Lock`;
`Status`, `Told`, `WatchBreaks` are `Status`; `Release` and `Close` the rest. `Expire` ends
a lease in use, `OrphanExpires` one that nobody keeps alive, `Crash` a process. All
contenders want the same thing, `mode`, which says whether it is a leader or a lock.
`LeasedLock` has one variable, the owner; the mapping takes for the owner whoever was
granted the lock and whose key is still there, which is not what that process itself can
know.

## 3. Runs

| Run | Instance | Shows |
|---|---|---|
| `session` | 1 user, 2 handlers, 2 addresses, clock 0..2, 2 sessions | `SessionBoundToClient`, `LeaseOutlivesKeys`, `DeadStaysDead` |
| `session_restriction` | 2 users (one the administrator), 2 handlers, restriction after 1 failure for 1 unit, clock 0..2, 1 session, 1 retry | `NoLoginWhileRestricted` |
| `db` | 2 nodes, the registry, 2 callers of `Close`, 1 of `Transaction`, 3 outages | `NoPoolLost`, `TxFailsOnlyWhenLost`, `OneMonitor`, `Failover`, `CloseStopsReconnect` |
| `broker` | 1 reconnect goroutine, 1 subscriber, persistent queues, 3 faults | `NoConnectionLeft`, `ConnectedHasConnection`, `QuietAfterUnsubscribe`, `Resubscribes` |
| `broker_twice` | 2 reconnect goroutines (Connect, Disconnect, Connect), 2 faults | `ReconnectEnds` |
| `accounts` | 2 tenants, the administrator and 2 users, 2 profiles, 2 groups, 2 names, the roles `admin` and `manager` (and none), 2 requests in flight, 4 rows that differ from the delivered ones | `OneAdmin`, `MembersWithinTenant`, `UniqueGroupNames`, `TenantIsolation`, `AdminUntouched`, `OrdinaryUsersChangeThemselves` |
| `identity` | as `accounts` with 1 name, 1 profile and 3 rows that differ, configurations included; 5 configurations, 3 of which are refused | `ReadsWithinTenant`, `ListsAgree`, `ConfigUsable`, `ConfigWithinTenant` |
| `notification` | 2 tenants with a user each, one without an address; 1 report of another service, about one of the tenants, and 1 of its own, 2 deliveries, 2 changes of settings or accounts, 1 fault | `NoReportLost`, `MailWithinTenant`, `MailContract`, `DeliverySettles` |
| `store` | 2 tenants, 3 events, 3 days, a month of 1 day, periods 0 and 1, pages of 1 or 2, 1 change, 1 fault | `CleanedInTime`, `PagesComplete`, `NothingCleanedEarly`, `StopReturns` |
| `service` | 1 stream, 2 tenants, 2 codes, 2 events, 2 faults | `StreamFaithful`, `ShutdownEnds`, `StreamDelivers` |
| `election` | 3 processes, 3 sessions, 1 fault | `MutualExclusion`, `ImplementsLock`, `WaitEnds`, `SupersededIsTold` |

The type invariants are theorems and need no run.

**Why these bounds.** Races of sessions are between two handlers at one user's key:
the second user only matters for what is per user (`session_restriction`). Two
sessions let a session be replaced and its old keys be presented; with a timeout of 1
a clock up to 2 lets keys and leases end and be renewed. With one failure allowed and
a restriction of one unit the restriction sets in, overlaps with a login that has
read the row before, and ends. Two nodes and three outages let the wrapper lose its
node, fail over, and lose that node or the registry too. Three faults let a
connection be lost, be lost again during set-up, and be lost again. Two reconnect
goroutines and two faults let one be left over from the first `Connect` while the other loses
its connection; subscribers play no part in their ending. Two requests let one change what
the other's snapshot says, and two users besides the administrator are in turn ordinary ones,
managers, deleted, and of either tenant, so that one can try to change another. The rows that
differ from the delivered database are counted over all tables; states with more than four,
out of fifteen, are not explored any further (a `CONSTRAINT`): four are enough for a tenant, two
users and a role or a membership, and without the bound the instance is out of reach. In
`identity`, where every query is asked in every state, it is three: a tenant with a user and a
role or a membership, or the delivered one with three users and what one of them has. Requests are
interchangeable, and in `accounts` ordinary users, so their permutations are a symmetry. A
report, the failure it ends in, and two deliveries let one delivery stand in another's way; one fault is
enough for each step that can be repeated or lost, and two changes let settings be
replaced, a user's settings be reset and the user deleted, or a time zone be made unknown and
put right again, between publication and mail. Three days with a
period of one let events expire while a cleaning goes on past midnight. Two events let a
stream block in a send while another is queued, and two faults let the subscription be
lost and made again while a publication fails. Three contenders let one wait behind
another that waits. The safety properties hold for all values of the constants by
the proofs below, two of `BrokerConn` for a client that is connected once, so that for them
the bounds only serve as a check of the formulas; they matter for the liveness properties.

**Deadlock.** Checked for `Session`, `Accounts` and `Identity`. The database wrapper and the
broker client stop for good after `Close`, `Disconnect` or a panic, a service after its
shutdown, the cleaner after `Stop`; in `Notification` and `Election` nothing need happen any
more once the bounds are reached. Hence `CHECK_DEADLOCK FALSE` there.

**Fairness.** `DbConnection!FairSpec`: weak fairness of the reconnect goroutine and of
the monitors, as goroutines are scheduled and sleeps and calls end.
`BrokerConn!FairSpec`: weak fairness of each goroutine that has something to go on
with, and strong fairness of obtaining `rbroker.mtx`, for `sync.Mutex` does not starve
a waiter. `Notification!FairSpec`: weak fairness of intake, mailer and classification, and
strong fairness of taking each message, for a queue is served in order. `EventStore!FairSpec`:
weak fairness of the cleaner and strong fairness of its branch for `done`, for `select`
chooses at random among ready branches. `NotificationService!FairSpec`: weak fairness of main,
of each goroutine and of the tickers, and strong fairness of the branch that receives from
`lookup.C`. `Election!FairSpec`: calls return, watches report, leases that nobody keeps alive
run out, and a caller closes a handle that failed or was released; nothing makes it give up
a lock. Otherwise nothing is assumed of the environment: servers need not recover,
deliveries need not arrive, nobody need call `Close`, and no fault need happen; a property
that needs a server says so.

### Where the code departs from what its texts say

| Run | Property | What happens |
|---|---|---|
| `receive_reset` | `ChangesOneUser` | `ResetUserEventReceives` of one user removes the rows of every user: gorm's `Delete` builds its condition from a primary key only when the key's first field is set |

More such behaviours are in the models without a run of their own, and show when they are
stated as properties:

* Sessions: a verification that has read the session before `Logout` deletes it stores it
  again (`documents/functions.md:734`); two logins both find no session and the later one
  replaces the earlier one unreported (`functions.md:745`); an update of a restricted user's
  account, or failed logins that overlap, lift the restriction (`functions.md:747`); a login that is run again
  after a serialization failure is refused for the session of its own first run; of two
  refreshes that overlap the older key is stored last, with the older lease, and etcd drops the
  session before the newer key expires.
* Database connection: `Close` during `connect` closes the old pool, and the new one stays
  open; the second of two concurrent calls of `Close` panics.
* Broker client: a connection lost during set-up closes `r.close`, and subscribers return
  for good; the connection may be nil between the recheck and `Consume`; `Unsubscribe`
  between `Consume` and `s.ch = ch` closes the old channel; a delivery is counted after
  `wg.Wait`; a connection is dialled after `Disconnect`; two reconnect goroutines close
  `r.waitConnection` twice.
* Administration: a user is put in a group that was deleted and is shown with it; the
  default group is renamed and deleted.
* Configuration: `addTenant` creates no configuration rows, so that `GetConfig` fails there,
  and after one failed login every login of that user, until `SetConfig`.
* Queries: `getUsers` asks for no order, so that pages may repeat users and leave others out.
* Notification: a user's time zone is only checked for its length, and an unknown one makes
  every delivery to that user fail and be queued again; users without rows get no mail although the tenant's default says so;
  encryption `none` can be configured, and every delivery then fails and is queued again;
  a mail whose `Close` fails is sent again; a handler that returns while its subscriber is
  blocked in the send panics the service, which any failing `Send` can lead to.
* Cleaner: a failing removal keeps all tenants' expired events for another day.
* Election: a process whose lease has run out holds on until it is told.

## 4. Proofs

`SessionProofs` assumes `SessionAssumption` (numbers are naturals, the timeout is not
0, the administrator is a user, "none" values are none) and proves, for any number
of users, handlers, addresses and retries:

* `TypeCorrect`, `SessionsBound`, `LeaseLasts`: `TypeOK`, `SessionBoundToClient` and
  `LeaseOutlivesKeys` always hold;
* `RestrictionHolds`, `NoRevival`: the action properties `NoLoginWhileRestricted` and
  `DeadStaysDead`.

None of these is inductive by itself. `Inv` adds to them: no key has a magic number
that was not drawn or an expiry further away than the timeout (`KeysBounded`: a new
session cannot collide with a known key, and a new key expires last); a key
is stored under its user (`StoredUnderUser`); a lease is granted after its key was built
and hence ends no earlier (`GrantCovers`), of a session that was never put twice at a time
at most one key is on its way to the store and it is the youngest (`PendingYoungest`), and the
lease lasts as long as all the others (`LeaseCovers`): these carry `LeaseLasts` over the gap
between grant and write; and for each handler (`HandlerGood`)
that a verification presents a key some client was given, one that got as far as
`updateSession` comes from the address in that key, and a login past `loginUser` has
read a row that allows it. The last is what `RestrictionHolds` rests on: the row at
commit is the row read, and waiting never turns an allowed row into a restricted one.
The proofs have one lemma per action; `StepInv` reduces a step of handler `h` to `h`,
the shared state and the keys, and further lemmas say what a step may do to the keys.

`DbConnectionProofs` assumes `DbAssumption` and proves for any nodes, callers and
outages that `TypeOK`, `NoPoolLost` and `OneMonitor` always hold, and the action property
`TxFailsOnlyWhenLost` (`TransactionsBegin`).
`Inv` adds that pools are told apart by their numbers (`PoolsDistinct`: closing the
replaced pool does not close `c.DB`), that the pool about to be stored is open
(`PoolsOpen`), that a running monitor is the one `reconnect` waits for
(`MonitorIsWatched`), that `reconnect` only gets to replacing a pool once that pool has failed a
ping (`ReplacedIsLost`), and that a pool a transaction has read is open unless it was lost or
the wrapper closed (`ReadIsOpen`).

`IdentityProofs` has first the proofs about `Accounts`. They assume `AccountsAssumption` (the delivered rows exist, the two roles
are roles, "none" values are none) and show `TypeOK` and all six properties of the run
`accounts`, for any tenants, users, groups, names, roles and requests in flight:
`TypeCorrect`, `AdminUnique`, `MembersOfTenant`, `NamesUnique` as invariants,
`TenantsIsolated`, `AdminProtected` and `OrdinaryConfined` as action properties, the last two
by the conditions of `validateUserUpdate` on whose row is saved. `Inv`
is the four invariants and `SnapshotsOfUsers`: a requester had a row when verified, and
still is in the tenant of the snapshot unless deleted. It is what makes a stale
snapshot harmless: roles may have changed since, but not the tenant, and a new user
never has the identifier in somebody's snapshot, so that nobody inherits a request.
The action properties follow from `Inv` without induction: by `OneAdmin` the snapshot
of anyone but the administrator lacks the role `admin`, hence names its own tenant
(`NotAdmin`), and each handler confines itself to that (`Confined`).

Then come the proofs about `Identity`, which assume `IdentityAssumption` too (there are
finitely many users, their numbers differ, and zero is no identifier). `AccountsKept` shows
that every behaviour of `Identity` is one of `Accounts`, for to the accounts `SetConfig` is a
request that changes nothing, so that `Inv` and all its consequences carry over.
`ReadsConfined` needs no other invariant: memberships stay within the tenant, and by
`OneAdmin` a requester other than the administrator names its own tenant. `ListsRight`
(`ListsAgree`) reduces every list to the set of users that pass its filters (`WholeList`,
`FiltersOf`); a page, whichever rows it holds, begins at a multiple of the limit (`PageBegins`)
and has as many rows as are left from there (`PageRows`), so that by division exactly the
pages that are announced show somebody and all but the last are full (`PagesShown`). `ConfInv` for `ConfigTypeCorrect` and `ConfigStaysUsable` says that a tenant
has no rows or all that are needed, each with a value in range, and rows only when it
exists; `ConfigConfined` is about single steps.

`ElectionProofs` assumes `ElectionAssumption` and proves `TypeCorrect`, `Exclusive`
(`MutualExclusion`) and `LockRefined` (`Election` implements `LeasedLock`) for any processes,
sessions and faults. `Inv` adds that no two handles share a session, that each key has a
revision of its own, and that the key of an owner is the oldest: nobody can be
granted the lock while an older key is there. The refinement then has to
show that no step replaces an owner by another, which follows from mutual exclusion before
and after it.

`EventStoreProofs` assumes `StoreAssumption` and proves `TypeCorrect`, `CleansInTime`,
`CleansNothingEarly` and `PagesShowAll` (`PagesComplete`). `Inv` follows the cleaning: what it
has removed was expired by a period in force, what is left of the tenants it is done with
was not expired when it began, and the present period is among those in force. Days that
pass only make more events expire, which is why the bound in `CleanedInTime` is the day the
cleaning began. For the pages the invariant is `EventsDistinct`: there are finitely many
events, and no two have the same identifier. Hence the order of the results is total, their
ranks are different and fill the numbers below their number (`RankTaken`: an injection
between finite sets of the same size is onto), no page is empty or too long, and division
puts each result on one page.

`NotificationServiceProofs` assumes `StreamAssumption` and `ServiceAssumption` and proves, for
any tenants, streams, events, intervals and faults, `TypeCorrect`, `StreamsFaithful`
(`StreamFaithful`) and `NothingSentTwice`. The heart is the relation
`Selects(p, q)`: p is q with some elements left out. It is transitive and respects
concatenation, so a step keeps the order if it moves an event along the pipeline from queue
to hand to handler to client (the whole stays the same: `MoveHead`, `MoveHand`), drops a part
of it (`DropsInOrder`), or appends to the queue what it appends to what was published
(`PublishInOrder`). `OwnOnly` and `WantedOnly` say which events a part may hold. With
`PublishedOnce` (an identifier is given once, and what was published is not to be published
again) the order gives `NothingSentTwice`, for identifiers, which `StreamFaithful` says of
positions only. For the types of the process `MainInv` says at
each step of `main` which parts of the framework are up and what is subscribed.

`BrokerConnProofs` assumes `BrokerAssumption` and proves `TypeCorrect` and `UnsubscribeQuiets`
(`QuietAfterUnsubscribe`) for any number of reconnect goroutines, subscribers and outages. The
invariant `Quiet` of the latter says that a subscriber reads deliveries from `s.ch`, and that
after an `Unsubscribe` which did not meet it resubscribing the channel it reads is the closed
one and it is on its way to none other.
`OneConnectionOpen` (`NoConnectionLeft`) and `ConnectedMeansConnection`
(`ConnectedHasConnection`) have the hypothesis `ConnectsOnce`, that `Connect` starts one
reconnect goroutine in the life of the client, as in every service (`command.go` `initBroker`
is the one caller). Without it they do not hold: a goroutine left over from an earlier
`Connect` dials beside the new one. The invariant `OneConnection` goes through the
places where that goroutine, or before it `Connect`, can be, and says at each how many
connections are open and which is `r.conn`.

`NotificationProofs` assumes `NotificationAssumption`, `SettingsAssumption` and
`ConfigAssumption` (a complete configuration request has values of the protocol's types) and
proves `TypeCorrect`, `ReportsKept` (`NoReportLost`), `MailConfined` (`MailWithinTenant`) and
`ContractRefined` (the mailer implements `AtLeastOnce`) for any tenants, users, codes,
messages, changes of settings and faults. `Inv` adds, for each of the two handlers, when it
may acknowledge and what the broker has taken back: the intake acknowledges a report that is
stored or not valid (`IntakeKeeps`), the mailer a delivery that is settled (`MailerKeeps`), and
a message that went back to its queue stays there as long as its handler runs, because each
queue has one handler; an acknowledgement without effect and a crash therefore lose nothing.
`TasksWithinTenant` carries the tenant from the query to the delivery. In the refinement a
publication assigns a job, `NotifySend` and `NotifySkip` do it, and `AckDelivery` releases it,
or changes nothing when the broker has a copy to deliver again.

Only model-checked: the liveness properties (`Failover`, `CloseStopsReconnect`,
`Resubscribes`, `ReconnectEnds`, `DeliverySettles`, `StopReturns`, `ShutdownEnds`, `StreamDelivers`, `WaitEnds`,
`SupersededIsTold`), which are out of the prover's reach. Every other property that holds is
also a theorem.

## 5. Not modelled

`PROJECT.json` gives the reason for each component. For good: generated protocol code,
container images, the SMTP dialogue, log output, conversions of errors and headers, the
registry daemon. Of the gateway, routing with its unlocked map, error conversion and
websockets: what a map written by two goroutines does is not a question of the order of
steps. The logger's watcher can leave an old level in force when its two subscriptions
overlap. Within the modelled components: `store.Transaction`, `List` and the refresh of
etcd endpoints, the test mode of `database.Transaction`, `GetEventClassifications`, a restart
of the message broker, and the contents of mails.

## 6. Plan

Theorems worth proving next: what the liveness runs rest on and the prover can reach, the
absence of deadlock as an invariant. For `ShutdownEnds` that is that `wgWait` only waits for a
handler that can still take a step; for `WaitEnds`, that among the keys waiting there is
always one whose predecessor is gone or alive.

Then `Gateway`, composed with `Session` and `Accounts`: what a request that gets through
implies about the session at that time; and `SessionRegister`, an abstract specification of
one register per user that is set, refreshed and cleared.
