---------------------------- MODULE Notification ----------------------------
(***************************************************************************)
(* The way of an event through the notification service: another service   *)
(* reports it (common/event), the intake stores it (event.subscribeEvent), *)
(* a goroutine finds out who is to be notified and publishes one delivery  *)
(* for each (notifier.ClassifyEvent), and the mailer sends the deliveries  *)
(* (notifyEvent, emailNotifier). Both queues are persistent queues of the  *)
(* broker with manual acknowledgement; a failed report is dropped, a       *)
(* failed delivery is queued again. The intake and the mailer each handle  *)
(* one message at a time.                                                  *)
(*                                                                         *)
(* Faults: a call of the database, the broker or the mail server fails, a  *)
(* transaction is run again after a serialization failure, the connection  *)
(* to the broker is lost (unacknowledged messages go back to their queue   *)
(* while their handlers go on), or the service crashes and is restarted.   *)
(*                                                                         *)
(* A report that cannot be published is logged and forgotten; so is, in    *)
(* the model, one beyond MaxReports, and a delivery beyond MaxDeliveries   *)
(* is one whose publication fails.                                         *)
(***************************************************************************)
EXTENDS NotificationSettings

CONSTANTS
  FailCode,       \* the code under which the service reports its failures
  KnownZone,      \* the time zones that time.LoadLocation knows
  GlobalZone,     \* the time zone of who has none
  Credential,     \* the senders and passwords that the mail server accepts
  Mailbox,        \* the addresses that it accepts mail for
  NoTenant,       \* tenant 0 in a report
  None,           \* no message
  Input,          \* the events that other services report
  InitialConfig, InitialTenantRcv, InitialUserRcv,  \* the settings at first,
  InitialProfile, \* and the accounts
  MaxInputs,      \* bounds on the reports of other services, on all reports,
  MaxReports, MaxDeliveries, MaxFaults   \* on deliveries, and on faults

ASSUME NotificationAssumption ==
  /\ FailCode \in Code
  /\ NoTenant \notin Tenant
  /\ InitialConfig \subseteq EventConfig \cup {NoRow}
  /\ InitialTenantRcv \subseteq [Code -> BOOLEAN \cup {NoRow}]
  /\ InitialUserRcv \subseteq [Code -> BOOLEAN \cup {NoRow}]
  /\ InitialProfile \in [User -> Profile]
  /\ Input \subseteq [tenant: Tenant \cup {NoTenant}, code: Code, ok: BOOLEAN]
  /\ MaxInputs \in Nat
  /\ MaxReports \in Nat
  /\ MaxDeliveries \in Nat
  /\ MaxFaults \in Nat

\* ok: the contents of a reported event are empty or a JSON object.
Report ==
  [id: 1 .. MaxReports, tenant: Tenant \cup {NoTenant}, code: Code, ok: BOOLEAN]

\* A row of cdm_event; report tells which report it was made from.
Event == [id: Nat \ {0}, tenant: Tenant, code: Code, report: 1 .. MaxReports]

Delivery == [id: 1 .. MaxDeliveries, event: Event, user: User]

\* A goroutine that classifies an event: whether its transaction has read the
\* recipients, and the rows of users it still has to publish a delivery for
Task == [event: Event, read: BOOLEAN, todo: SUBSET (User \X Code)]

ASSUME NoneAssumption == None \notin Report \cup Delivery

VARIABLES
  reports,     \* the queue of reports
  intake,      \* the report that subscribeEvent handles
  ipc,         \* what the intake does next
  reported,    \* the reports published so far
  lastReport,  \* their number
  refused,     \* the reports that were dropped by a Nack
  events,      \* the stored events
  lastEvent,   \* the last identifier the database gave to an event
  tasks,       \* the classifications that run
  mailq,       \* the queue of deliveries
  mailer,      \* the delivery that notifyEvent handles
  mpc,         \* what the mailer does next
  lastMail,    \* number of deliveries published so far
  settled,     \* deliveries that were sent, or whose user has no address
  returned,    \* the handlers whose message went back to its queue
  faults

queueVars == <<reports, reported, lastReport>>
intakeVars == <<queueVars, intake, ipc, refused>>
storeVars == <<events, lastEvent>>
mailVars == <<mailq, mailer, mpc, lastMail, settled>>
vars == <<settings, intakeVars, storeVars, tasks, mailVars, returned, faults>>

Init ==
  /\ conf \in [Tenant -> InitialConfig]
  /\ tenantRcv \in [Tenant -> InitialTenantRcv]
  /\ userRcv \in [User -> InitialUserRcv]
  /\ users = User
  /\ profile = InitialProfile
  /\ changes = 0
  /\ reports = {}
  /\ intake = None
  /\ ipc = "idle"
  /\ reported = {}
  /\ lastReport = 0
  /\ refused = {}
  /\ events = {}
  /\ lastEvent = 0
  /\ tasks = {}
  /\ mailq = {}
  /\ mailer = None
  /\ mpc = "idle"
  /\ lastMail = 0
  /\ settled = {}
  /\ returned = {}
  /\ faults = 0

Fault ==
  /\ faults < MaxFaults
  /\ faults' = faults + 1

-----------------------------------------------------------------------------
(* Reporting                                                               *)

Publish(t, c, ok) ==
  /\ lastReport < MaxReports
  /\ lastReport' = lastReport + 1
  /\ LET r == [id |-> lastReport + 1, tenant |-> t, code |-> c, ok |-> ok]
     IN  /\ reports' = reports \cup {r}
         /\ reported' = reported \cup {r}

ReportEvent(t, c, ok) ==
  /\ lastReport < MaxInputs
  /\ Publish(t, c, ok)
  /\ UNCHANGED <<settings, intake, ipc, refused, storeVars, tasks, mailVars,
                 returned, faults>>

\* reportEvent: a failure of the service is reported, and logged only when
\* that fails too.
reportEvent(t) ==
  \/ Publish(t, FailCode, TRUE)
  \/ UNCHANGED queueVars

-----------------------------------------------------------------------------
(* The intake                                                              *)

ReceiveReport(r) ==
  /\ ipc = "idle"
  /\ r \in reports
  /\ intake' = r
  /\ reports' = reports \ {r}
  /\ ipc' = "handle"
  /\ UNCHANGED <<settings, reported, lastReport, refused, storeVars, tasks,
                 mailVars, returned, faults>>

\* The validity of a report; tenants are not deleted.
validateEvent(r) == r.ok /\ r.tenant \in Tenant

createEvent(r) ==
  /\ lastEvent' = lastEvent + 1
  /\ events' = events \cup {[id |-> lastEvent + 1, tenant |-> r.tenant,
                             code |-> r.code, report |-> r.id]}

\* The transaction commits; the goroutine that classifies is started.
StoreEvent ==
  /\ ipc = "handle"
  /\ validateEvent(intake)
  /\ createEvent(intake)
  /\ tasks' = tasks \cup {[event |-> e, read |-> FALSE, todo |-> {}] :
                            e \in events' \ events}
  /\ ipc' = "ack"
  /\ UNCHANGED <<settings, queueVars, intake, refused, mailVars, returned, faults>>

\* Mutant of SkipReport: every report is skipped that way.
SkipAnyReport ==
  /\ ipc = "handle"
  /\ ipc' = "ack"
  /\ UNCHANGED <<settings, queueVars, intake, refused, storeVars, tasks, mailVars,
                 returned, faults>>

\* A report without a tenant (or code) is acknowledged and forgotten.
SkipReport ==
  /\ ipc = "handle"
  /\ intake.tenant = NoTenant
  /\ ipc' = "ack"
  /\ UNCHANGED <<settings, queueVars, intake, refused, storeVars, tasks, mailVars,
                 returned, faults>>

IntakeDone ==
  /\ intake' = None
  /\ ipc' = "idle"
  /\ returned' = returned \ {"intake"}

\* An error: the report is invalid, or the database fails, perhaps after the
\* commit. The Nack drops the message, unless it is back in the queue.
RefuseReport ==
  /\ ipc = "handle"
  /\ intake.tenant # NoTenant
  /\ \/ ~ validateEvent(intake) /\ UNCHANGED <<storeVars, faults>>
     \/ Fault /\ UNCHANGED storeVars
     \/ Fault /\ validateEvent(intake) /\ createEvent(intake)
  /\ refused' = IF "intake" \in returned THEN refused ELSE refused \cup {intake}
  /\ IntakeDone
  /\ UNCHANGED <<settings, queueVars, tasks, mailVars>>

\* An Ack of a message that has gone back to the queue has no effect.
AckReport ==
  /\ ipc = "ack"
  /\ IntakeDone
  /\ UNCHANGED <<settings, queueVars, refused, storeVars, tasks, mailVars, faults>>

-----------------------------------------------------------------------------
(* Classification                                                          *)

\* Mutant of Recipients: the query forgets the event's tenant.
RecipientsAnywhere(e) ==
  {row \in User \X Code :
     /\ row[1] \in users
     /\ tenantRcv[TenantOf[row[1]]][e.code] # NoRow
     /\ userRcv[row[1]][row[2]] = TRUE}

\* The query joins a user with the user's own rows, of any code, and with the
\* tenant's row of the event's code: it has one result for each row of the
\* user that says yes.
Recipients(e) ==
  {row \in User \X Code :
     /\ row[1] \in users
     /\ TenantOf[row[1]] = e.tenant
     /\ tenantRcv[e.tenant][e.code] # NoRow
     /\ userRcv[row[1]][row[2]] = TRUE}

\* Of the kinds of notification only e-mail is implemented.
Notified(e) == GetConfig(e.tenant).enable /\ GetConfig(e.tenant).email

\* The transaction of ClassifyEvent reads the configuration and the recipients.
ClassifyRead(k) ==
  /\ k \in tasks
  /\ ~ k.read
  /\ tasks' = (tasks \ {k}) \cup
       {[k EXCEPT !.read = TRUE,
                  !.todo = IF Notified(k.event) THEN Recipients(k.event) ELSE {}]}
  /\ UNCHANGED <<settings, intakeVars, storeVars, mailVars, returned, faults>>

\* It publishes one delivery after the other ...
ClassifyPublish(k, row) ==
  /\ k \in tasks
  /\ row \in k.todo
  /\ lastMail < MaxDeliveries
  /\ lastMail' = lastMail + 1
  /\ mailq' = mailq \cup {[id |-> lastMail + 1, event |-> k.event, user |-> row[1]]}
  /\ tasks' = (tasks \ {k}) \cup {[k EXCEPT !.todo = @ \ {row}]}
  /\ UNCHANGED <<settings, intakeVars, storeVars, mailer, mpc, settled, returned,
                 faults>>

\* ... and commits, ...
ClassifyDone(k) ==
  /\ k \in tasks
  /\ k.read
  /\ k.todo = {}
  /\ tasks' = tasks \ {k}
  /\ UNCHANGED <<settings, intakeVars, storeVars, mailVars, returned, faults>>

\* ... or is run again: what was published stays published.
ClassifyRetry(k) ==
  /\ k \in tasks
  /\ k.read
  /\ k.todo = {}
  /\ Fault
  /\ tasks' = (tasks \ {k}) \cup {[k EXCEPT !.read = FALSE]}
  /\ UNCHANGED <<settings, intakeVars, storeVars, mailVars, returned>>

\* The database or a publication fails: the rest of the deliveries is
\* forgotten, and the failure reported.
ClassifyFail(k) ==
  /\ k \in tasks
  /\ \/ Fault
     \/ k.todo # {} /\ lastMail = MaxDeliveries /\ UNCHANGED faults
  /\ tasks' = tasks \ {k}
  /\ reportEvent(k.event.tenant)
  /\ UNCHANGED <<settings, intake, ipc, refused, storeVars, mailVars, returned>>

-----------------------------------------------------------------------------
(* The mailer                                                              *)

ReceiveDelivery(d) ==
  /\ mpc = "idle"
  /\ d \in mailq
  /\ mailer' = d
  /\ mailq' = mailq \ {d}
  /\ mpc' = "notify"
  /\ UNCHANGED <<settings, intakeVars, storeVars, tasks, lastMail, settled,
                 returned, faults>>

\* What NewEmail has a transport for (it compares in lower case)
NewEmail(smtp) ==
  /\ smtp.encryption \in {"ssl/tls", "starttls"}
  /\ smtp.auth \in {"PLAIN", "LOGIN", "CRAM-MD5"}

\* What Connect needs to dial
Connect(smtp) == smtp.address # "" /\ smtp.port \in 1 .. 65535

\* The mail server is given the sender, not the user name of the configuration.
Auth(smtp) == <<smtp.sender, smtp.password>> \in Credential

getOrDefaultTimeZone(zone) == IF zone = NoRow THEN GlobalZone ELSE zone

Smtp(d) == GetConfig(d.event.tenant).smtp

Wanted(d) == d.user \in users /\ profile[d.user].email # NoRow

\* The mail server accepts the message of a delivery.
Sendable(d) ==
  /\ Wanted(d)
  /\ getOrDefaultTimeZone(profile[d.user].zone) \in KnownZone
  /\ NewEmail(Smtp(d))
  /\ Connect(Smtp(d))
  /\ Auth(Smtp(d))
  /\ profile[d.user].email \in Mailbox

\* Every attempt to notify the user fails, until settings or accounts change.
Stuck(d) == d.user \notin users \/ (Wanted(d) /\ ~ Sendable(d))

\* emailNotifier.notify up to Send
NotifySend ==
  /\ mpc = "notify"
  /\ Sendable(mailer)
  /\ settled' = settled \cup {mailer.id}
  /\ mpc' = "close"
  /\ UNCHANGED <<settings, intakeVars, storeVars, tasks, mailq, mailer, lastMail,
                 returned, faults>>

\* Mutant of NotifySkip: a missing address is an error: the delivery is put back.
NotifySkipFails ==
  /\ mpc = "notify"
  /\ mailer.user \in users
  /\ ~ Wanted(mailer)
  /\ mailq' = mailq \cup {mailer}
  /\ mailer' = None
  /\ mpc' = "idle"
  /\ returned' = returned \ {"mailer"}
  /\ UNCHANGED <<settings, intakeVars, storeVars, tasks, lastMail, settled, faults>>

\* A user without an address is not notified.
NotifySkip ==
  /\ mpc = "notify"
  /\ mailer.user \in users
  /\ ~ Wanted(mailer)
  /\ settled' = settled \cup {mailer.id}
  /\ mpc' = "ack"
  /\ UNCHANGED <<settings, intakeVars, storeVars, tasks, mailq, mailer, lastMail,
                 returned, faults>>

\* The connection to the mail server is closed and the transaction commits,
NotifyClose ==
  /\ mpc = "close"
  /\ mpc' = "ack"
  /\ UNCHANGED <<settings, intakeVars, storeVars, tasks, mailq, mailer, lastMail,
                 settled, returned, faults>>

\* or the transaction is run again.
NotifyRetry ==
  /\ mpc = "close"
  /\ Fault
  /\ mpc' = "notify"
  /\ UNCHANGED <<settings, intakeVars, storeVars, tasks, mailq, mailer, lastMail,
                 settled, returned>>

MailerDone ==
  /\ mailer' = None
  /\ mpc' = "idle"
  /\ returned' = returned \ {"mailer"}

\* Mutant of NotifyFail: deliveries are subscribed without requeue, as reports are.
NotifyFailDrops ==
  /\ \/ mpc = "notify" /\ Stuck(mailer) /\ UNCHANGED faults
     \/ mpc \in {"notify", "close"} /\ Fault
  /\ reportEvent(mailer.event.tenant)
  /\ MailerDone
  /\ UNCHANGED <<settings, intake, ipc, refused, storeVars, tasks, mailq, lastMail,
                 settled>>

\* notifyEvent fails: the delivery is stuck, or a call fails, that of Close after
\* Send included. The failure is reported, and the Nack queues the delivery again.
NotifyFail ==
  /\ \/ mpc = "notify" /\ Stuck(mailer) /\ UNCHANGED faults
     \/ mpc \in {"notify", "close"} /\ Fault
  /\ reportEvent(mailer.event.tenant)
  /\ mailq' = mailq \cup {mailer}
  /\ MailerDone
  /\ UNCHANGED <<settings, intake, ipc, refused, storeVars, tasks, lastMail, settled>>

AckDelivery ==
  /\ mpc = "ack"
  /\ MailerDone
  /\ UNCHANGED <<settings, intakeVars, storeVars, tasks, mailq, lastMail, settled,
                 faults>>

-----------------------------------------------------------------------------
(* Faults                                                                  *)

Held(pc) == pc # "idle"

\* The broker takes back what was delivered and not acknowledged.
TakeBack ==
  /\ reports' = reports \cup
       (IF Held(ipc) /\ "intake" \notin returned THEN {intake} ELSE {})
  /\ mailq' = mailq \cup
       (IF Held(mpc) /\ "mailer" \notin returned THEN {mailer} ELSE {})

\* The handlers go on, and their acknowledgements will fail.
LoseConnection ==
  /\ Fault
  /\ TakeBack
  /\ returned' = (IF Held(ipc) THEN {"intake"} ELSE {})
                   \cup (IF Held(mpc) THEN {"mailer"} ELSE {})
  /\ UNCHANGED <<settings, reported, lastReport, intake, ipc, refused, storeVars,
                 tasks, mailer, mpc, lastMail, settled>>

\* The service is restarted. The goroutines are gone.
Crash ==
  /\ Fault
  /\ TakeBack
  /\ tasks' = {}
  /\ intake' = None
  /\ ipc' = "idle"
  /\ mailer' = None
  /\ mpc' = "idle"
  /\ returned' = {}
  /\ UNCHANGED <<settings, reported, lastReport, refused, storeVars, lastMail,
                 settled>>

-----------------------------------------------------------------------------
Intake ==
  \/ \E r \in reports : ReceiveReport(r)
  \/ StoreEvent \/ SkipReport \/ RefuseReport \/ AckReport

Classify(k) ==
  \/ ClassifyRead(k) \/ ClassifyDone(k) \/ ClassifyRetry(k) \/ ClassifyFail(k)
  \/ \E row \in k.todo : ClassifyPublish(k, row)

Mailer ==
  \/ \E d \in mailq : ReceiveDelivery(d)
  \/ NotifySend \/ NotifySkip \/ NotifyClose \/ NotifyRetry \/ NotifyFail \/ AckDelivery

Next ==
  \/ \E i \in Input : ReportEvent(i.tenant, i.code, i.ok)
  \/ SettingsNext /\ UNCHANGED <<intakeVars, storeVars, tasks, mailVars, returned, faults>>
  \/ Intake
  \/ \E k \in tasks : Classify(k)
  \/ Mailer
  \/ LoseConnection
  \/ Crash

Spec == Init /\ [][Next]_vars

(***************************************************************************)
(* The goroutines run as long as the service does. The broker hands out    *)
(* the messages of a queue in order, so none waits for ever.               *)
(***************************************************************************)
TakeReport(i) == \E r \in reports : r.id = i /\ ReceiveReport(r)

TakeDelivery(i) == \E d \in mailq : d.id = i /\ ReceiveDelivery(d)

Fairness ==
  /\ WF_vars(Intake)
  /\ WF_vars(Mailer)
  /\ WF_vars(\E k \in tasks : Classify(k))
  /\ \A i \in 1 .. MaxReports : SF_vars(TakeReport(i))
  /\ \A i \in 1 .. MaxDeliveries : SF_vars(TakeDelivery(i))

FairSpec == Spec /\ Fairness

-----------------------------------------------------------------------------
(* Properties                                                              *)

TypeOK ==
  /\ SettingsTypeOK
  /\ reports \subseteq reported
  /\ reported \subseteq Report
  /\ lastReport \in 0 .. MaxReports
  /\ refused \subseteq reported
  /\ ipc \in {"idle", "handle", "ack"}
  /\ intake \in IF ipc = "idle" THEN {None} ELSE reported
  /\ events \subseteq Event
  /\ lastEvent \in Nat
  /\ tasks \subseteq Task
  /\ mailq \subseteq Delivery
  /\ mpc \in {"idle", "notify", "close", "ack"}
  /\ mailer \in IF mpc = "idle" THEN {None} ELSE Delivery
  /\ lastMail \in 0 .. MaxDeliveries
  /\ settled \subseteq 1 .. lastMail
  /\ returned \subseteq {"intake", "mailer"}
  /\ faults \in 0 .. MaxFaults

Handled == IF ipc = "idle" THEN {} ELSE {intake}

Mailed == IF mpc = "idle" THEN {} ELSE {mailer}

\* A valid report that subscribeEvent was given is in the queue, being
\* handled, stored, or was refused by a Nack: it is never acknowledged
\* unstored, whatever crashes and lost connections come in between.
NoReportLost ==
  \A r \in reported :
    validateEvent(r) =>
      \/ r \in reports \cup Handled \cup refused
      \/ \E e \in events : e.report = r.id

\* A user is only ever sent, and only ever has queued, mail about stored
\* events of the user's own tenant, also after the settings have changed.
MailWithinTenant ==
  \A d \in mailq \cup Mailed :
    /\ d.event \in events
    /\ d.event.tenant = TenantOf[d.user]

DueMail == {d.id : d \in mailq \cup Mailed}

Contract == INSTANCE AtLeastOnce
              WITH Job <- 1 .. MaxDeliveries, due <- DueMail, done <- settled

\* The mailer implements at-least-once delivery: a delivery stays in the
\* queue, or in its handler, until the mail was sent or is not wanted. The
\* interface notifier says of notify: put back into the queue on failure.
MailContract == Contract!Spec

\* A delivery is settled, once faults and changes stop, unless it stays stuck for
\* ever: its user is deleted or has a time zone or an address that is unknown, or
\* the tenant's configuration does not get the mail server to take it. What was
\* stuck and is no longer is sent, and no other delivery, however often it fails,
\* keeps it in the queue. A stuck delivery is tried again and again: nothing ends
\* that but a change of what makes it fail.
DeliverySettles ==
  \A i \in 1 .. MaxDeliveries :
    i \in DueMail ~> \/ i \in settled
                     \/ [](\E d \in mailq \cup Mailed : d.id = i /\ Stuck(d))

=============================================================================
