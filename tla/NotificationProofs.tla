------------------------- MODULE NotificationProofs -------------------------
(***************************************************************************)
(* Proofs about Notification, for any number of tenants, users, codes,     *)
(* messages, changes and faults. A message that the broker has taken back  *)
(* while its handler goes on is in the queue as long as the handler runs,  *)
(* for each queue has one handler; so neither an acknowledgement without   *)
(* effect nor a crash loses it. A handler acknowledges a report only when  *)
(* it is stored or not valid, and a delivery only when it is settled.      *)
(***************************************************************************)
EXTENDS Notification, TLAPS

\* The parts of the type invariant
QueueType ==
  /\ reports \subseteq reported
  /\ reported \subseteq Report
  /\ lastReport \in 0 .. MaxReports
  /\ refused \subseteq reported
  /\ ipc \in {"idle", "handle", "ack"}
  /\ intake \in IF ipc = "idle" THEN {None} ELSE reported

EventType ==
  /\ events \subseteq Event
  /\ lastEvent \in Nat
  /\ tasks \subseteq Task

MailType ==
  /\ mailq \subseteq Delivery
  /\ mpc \in {"idle", "notify", "close", "ack"}
  /\ mailer \in IF mpc = "idle" THEN {None} ELSE Delivery
  /\ lastMail \in 0 .. MaxDeliveries
  /\ settled \subseteq 1 .. lastMail

FaultType ==
  /\ returned \subseteq {"intake", "mailer"}
  /\ faults \in 0 .. MaxFaults

\* The type invariant is the conjunction of its parts.
LEMMA TypeParts ==
  TypeOK <=> SettingsTypeOK /\ QueueType /\ EventType /\ MailType /\ FaultType
  BY DEF TypeOK, QueueType, EventType, MailType, FaultType

\* A report that needs no more to be done
Stored(r) == validateEvent(r) => \E e \in events : e.report = r.id

\* What the intake acknowledges was stored, and what the broker has taken back from
\* it is in the queue.
IntakeKeeps ==
  /\ ipc = "ack" => Stored(intake)
  /\ "intake" \in returned => ipc # "idle" /\ intake \in reports

\* A classification is of a stored event, and for users of its tenant.
TasksWithinTenant ==
  \A k \in tasks :
    /\ k.event \in events
    /\ \A row \in k.todo : TenantOf[row[1]] = k.event.tenant

\* The same of the mailer; and no delivery has a number that is not given yet.
MailerKeeps ==
  /\ mpc \in {"close", "ack"} => mailer.id \in settled
  /\ "mailer" \in returned => mpc # "idle" /\ mailer \in mailq
  /\ \A d \in mailq \cup Mailed : d.id <= lastMail

Inv ==
  /\ TypeOK
  /\ NoReportLost /\ IntakeKeeps
  /\ MailWithinTenant /\ TasksWithinTenant /\ MailerKeeps

-----------------------------------------------------------------------------
(* Types                                                                   *)

\* The initial states have the types.
LEMMA InitType == Init => TypeOK
<1> SUFFICES ASSUME Init PROVE TypeOK
  OBVIOUS
<1>1. SettingsTypeOK
  BY NotificationAssumption, SettingsAssumption DEF Init, SettingsTypeOK
<1>2. QueueType
  BY NotificationAssumption DEF Init, QueueType
<1>3. EventType
  BY DEF Init, EventType
<1>4. MailType
  BY NotificationAssumption DEF Init, MailType
<1>5. FaultType
  BY NotificationAssumption DEF Init, FaultType
<1> QED
  BY <1>1, <1>2, <1>3, <1>4, <1>5, TypeParts

\* The rows of a valid configuration
LEMMA ConfigRowsType ==
  ASSUME NEW t \in Tenant, NEW c \in ConfigRequest[t], ValidateConfig(c)
  PROVE  ConfigRows(c) \in EventConfig
<1>1. c \in EventConfig
  BY ConfigAssumption DEF ValidateConfig
<1>2. DOMAIN defaultConfig =
        {"enable", "email", "sms", "desktop", "popup", "custom", "period", "smtp",
         "smsNotifier"}
  BY DEF defaultConfig
<1>3. c = [key \in DOMAIN defaultConfig |-> c[key]]
  BY <1>1, <1>2 DEF EventConfig
<1> QED
  BY <1>1, <1>3 DEF ConfigRows

\* A change of the settings keeps their types.
LEMMA SettingsStep ==
  ASSUME SettingsTypeOK, SettingsNext
  PROVE  SettingsTypeOK'
<1> USE SettingsAssumption
<1>1. ASSUME NEW t \in Tenant, NEW c \in ConfigRequest[t], SetConfig(t, c)
      PROVE  SettingsTypeOK'
  BY <1>1, ConfigRowsType DEF SettingsTypeOK, SetConfig, Change
<1>2. ASSUME NEW t \in Tenant, NEW items \in ReceiveRequest[t], SetTenantEventReceives(t, items)
      PROVE  SettingsTypeOK'
  BY <1>2 DEF SettingsTypeOK, SetTenantEventReceives, Change
<1>3. ASSUME NEW u \in User, NEW items \in ReceiveRequest[TenantOf[u]],
             SetUserEventReceives(u, items)
      PROVE  SettingsTypeOK'
  BY <1>3 DEF SettingsTypeOK, SetUserEventReceives, Change
<1>4. ASSUME NEW u \in User, ResetUserEventReceives(u)
      PROVE  SettingsTypeOK'
  BY <1>4 DEF SettingsTypeOK, ResetUserEventReceives, Change
<1>5. ASSUME NEW u \in User, DeleteUser(u)
      PROVE  SettingsTypeOK'
  BY <1>5 DEF SettingsTypeOK, DeleteUser, Change
<1>6. ASSUME NEW u \in User, NEW p \in Profile, UpdateUser(u, p)
      PROVE  SettingsTypeOK'
  BY <1>6 DEF SettingsTypeOK, UpdateUser, Change
<1> QED
  BY <1>1, <1>2, <1>3, <1>4, <1>5, <1>6
     DEF SettingsNext, ChangeConfig, ChangeReceives, ChangeAccount

\* Faults stay within their bound.
LEMMA FaultStep ==
  ASSUME FaultType, Fault
  PROVE  faults' \in 0 .. MaxFaults
  BY NotificationAssumption DEF FaultType, Fault

\* A new report
LEMMA PublishType ==
  ASSUME QueueType, NEW t \in Tenant \cup {NoTenant}, NEW c \in Code, NEW ok \in BOOLEAN,
         Publish(t, c, ok)
  PROVE  /\ lastReport' \in 0 .. MaxReports
         /\ reports' \subseteq reported' /\ reported' \subseteq Report
         /\ reports \subseteq reports' /\ reported \subseteq reported'
         /\ \A r \in reported' \ reported : r \in reports'
<1> DEFINE r == [id |-> lastReport + 1, tenant |-> t, code |-> c, ok |-> ok]
<1>1. lastReport + 1 \in 1 .. MaxReports
  BY NotificationAssumption DEF QueueType, Publish
<1>2. r \in Report
  BY <1>1 DEF Report
<1>3. reports' = reports \cup {r} /\ reported' = reported \cup {r}
      /\ lastReport' = lastReport + 1
  BY DEF Publish
<1> QED
  BY <1>1, <1>2, <1>3 DEF QueueType

\* A failure is reported, or not.
LEMMA ReportType ==
  ASSUME QueueType, NEW t \in Tenant, reportEvent(t)
  PROVE  /\ lastReport' \in 0 .. MaxReports
         /\ reports' \subseteq reported' /\ reported' \subseteq Report
         /\ reports \subseteq reports' /\ reported \subseteq reported'
         /\ \A r \in reported' \ reported : r \in reports'
<1>1. CASE Publish(t, FailCode, TRUE)
  BY <1>1, PublishType, NotificationAssumption
<1>2. CASE UNCHANGED queueVars
  BY <1>2 DEF queueVars, QueueType
<1> QED
  BY <1>1, <1>2 DEF reportEvent

\* The steps that change neither the queue of reports nor the intake
LEMMA QueueFrame ==
  ASSUME QueueType, UNCHANGED intakeVars
  PROVE  QueueType'
  BY DEF QueueType, intakeVars, queueVars

\* The intake
LEMMA IntakeQueue ==
  ASSUME QueueType, Intake
  PROVE  QueueType'
<1>1. ASSUME NEW r \in reports, ReceiveReport(r)
      PROVE  QueueType'
  BY <1>1 DEF QueueType, ReceiveReport
<1>2. CASE StoreEvent
  BY <1>2 DEF QueueType, StoreEvent, queueVars
<1>3. CASE SkipReport
  BY <1>3 DEF QueueType, SkipReport, queueVars
<1>4. CASE RefuseReport
  BY <1>4 DEF QueueType, RefuseReport, IntakeDone, queueVars
<1>5. CASE AckReport
  BY <1>5 DEF QueueType, AckReport, IntakeDone, queueVars
<1> QED
  BY <1>1, <1>2, <1>3, <1>4, <1>5 DEF Intake

\* The reports of others, and of failures
LEMMA ReportsQueue ==
  ASSUME TypeOK,
         \/ \E i \in Input : ReportEvent(i.tenant, i.code, i.ok)
         \/ \E k \in tasks : ClassifyFail(k)
         \/ NotifyFail
  PROVE  QueueType'
<1>0. QueueType /\ EventType /\ MailType
  BY TypeParts
<1>1. ASSUME NEW i \in Input, ReportEvent(i.tenant, i.code, i.ok)
      PROVE  QueueType'
  <2>1. i.tenant \in Tenant \cup {NoTenant} /\ i.code \in Code /\ i.ok \in BOOLEAN
    BY NotificationAssumption
  <2> QED
    BY <1>0, <1>1, <2>1, PublishType DEF ReportEvent, QueueType
<1>2. ASSUME NEW k \in tasks, ClassifyFail(k)
      PROVE  QueueType'
  <2>1. k.event.tenant \in Tenant
    BY <1>0 DEF EventType, Task, Event
  <2> QED
    BY <1>0, <1>2, <2>1, ReportType DEF ClassifyFail, QueueType
<1>3. CASE NotifyFail
  <2>1. mailer \in Delivery
    BY <1>0, <1>3 DEF MailType, NotifyFail
  <2>2. mailer.event.tenant \in Tenant
    BY <2>1 DEF Delivery, Event
  <2> QED
    BY <1>0, <1>3, <2>2, ReportType DEF NotifyFail, QueueType
<1> QED
  BY <1>1, <1>2, <1>3

\* What the broker takes back was reported.
LEMMA FaultsQueue ==
  ASSUME QueueType, LoseConnection \/ Crash
  PROVE  QueueType'
<1>1. CASE LoseConnection
  BY <1>1 DEF QueueType, LoseConnection, TakeBack, Held
<1>2. CASE Crash
  BY <1>2 DEF QueueType, Crash, TakeBack, Held
<1> QED
  BY <1>1, <1>2

-----------------------------------------------------------------------------
(* Events and tasks                                                        *)

\* A stored event
LEMMA CreateType ==
  ASSUME QueueType, EventType, ipc = "handle", validateEvent(intake), createEvent(intake)
  PROVE  /\ events' \subseteq Event /\ lastEvent' \in Nat /\ events \subseteq events'
         /\ \E e \in events' : e.report = intake.id
<1> DEFINE e == [id |-> lastEvent + 1, tenant |-> intake.tenant, code |-> intake.code,
                 report |-> intake.id]
<1>1. intake \in Report
  BY DEF QueueType
<1>2. e \in Event
  BY <1>1 DEF Report, Event, validateEvent, EventType
<1>3. events' = events \cup {e} /\ lastEvent' = lastEvent + 1
  BY DEF createEvent
<1> QED
  BY <1>2, <1>3 DEF EventType

\* The steps that change neither events nor tasks
LEMMA EventFrame ==
  ASSUME EventType, UNCHANGED <<storeVars, tasks>>
  PROVE  EventType'
  BY DEF EventType, storeVars

\* The intake stores well-formed events and starts well-formed tasks.
LEMMA IntakeEvents ==
  ASSUME QueueType, EventType, Intake
  PROVE  EventType'
<1>1. CASE StoreEvent
  <2>1. events' \subseteq Event /\ lastEvent' \in Nat
    BY <1>1, CreateType DEF StoreEvent
  <2>2. \A e \in events' : [event |-> e, read |-> FALSE, todo |-> {}] \in Task
    BY <2>1 DEF Task
  <2> QED
    BY <1>1, <2>1, <2>2 DEF StoreEvent, EventType
<1>2. CASE RefuseReport
  BY <1>2, CreateType DEF RefuseReport, EventType, storeVars
<1> QED
  BY <1>1, <1>2, EventFrame
     DEF Intake, ReceiveReport, SkipReport, AckReport, storeVars

\* A classification keeps the types of tasks, and the events.
LEMMA ClassifyEvents ==
  ASSUME EventType, NEW k \in tasks, Classify(k)
  PROVE  EventType'
<1>1. k \in Task /\ k.event \in Event /\ k.todo \in SUBSET (User \X Code)
  BY DEF EventType, Task
<1>2. CASE ClassifyRead(k)
  <2> DEFINE l == [k EXCEPT !.read = TRUE,
                     !.todo = IF Notified(k.event) THEN Recipients(k.event) ELSE {}]
  <2>1. Recipients(k.event) \in SUBSET (User \X Code)
    BY DEF Recipients
  <2>2. l \in Task
    BY <1>1, <2>1 DEF Task
  <2>3. tasks' = (tasks \ {k}) \cup {l} /\ UNCHANGED storeVars
    BY <1>2 DEF ClassifyRead
  <2> QED
    BY <2>2, <2>3 DEF EventType, storeVars
<1>3. CASE ClassifyDone(k)
  BY <1>3 DEF ClassifyDone, EventType, storeVars
<1>4. CASE ClassifyRetry(k)
  <2>1. [k EXCEPT !.read = FALSE] \in Task
    BY <1>1 DEF Task
  <2> QED
    BY <1>4, <2>1 DEF ClassifyRetry, EventType, storeVars
<1>5. CASE ClassifyFail(k)
  BY <1>5 DEF ClassifyFail, EventType, storeVars
<1>6. ASSUME NEW row \in k.todo, ClassifyPublish(k, row)
      PROVE  EventType'
  <2>1. [k EXCEPT !.todo = @ \ {row}] \in Task
    BY <1>1 DEF Task
  <2> QED
    BY <1>6, <2>1 DEF ClassifyPublish, EventType, storeVars
<1> QED
  BY <1>2, <1>3, <1>4, <1>5, <1>6 DEF Classify

-----------------------------------------------------------------------------
(* Deliveries                                                              *)

\* The steps that do not touch the deliveries
LEMMA MailFrame ==
  ASSUME MailType, UNCHANGED mailVars
  PROVE  MailType'
  BY DEF MailType, mailVars

\* A classification publishes well-formed deliveries.
LEMMA ClassifyMail ==
  ASSUME EventType, MailType, NEW k \in tasks, Classify(k)
  PROVE  MailType'
<1>1. ASSUME NEW row \in k.todo, ClassifyPublish(k, row)
      PROVE  MailType'
  <2> DEFINE d == [id |-> lastMail + 1, event |-> k.event, user |-> row[1]]
  <2>1. k.event \in Event /\ row[1] \in User
    BY DEF EventType, Task
  <2>2. lastMail + 1 \in 1 .. MaxDeliveries
    BY <1>1, NotificationAssumption DEF ClassifyPublish, MailType
  <2>3. d \in Delivery
    BY <2>1, <2>2 DEF Delivery
  <2>4. lastMail' = lastMail + 1 /\ mailq' = mailq \cup {d}
    BY <1>1 DEF ClassifyPublish
  <2>5. settled' \subseteq 1 .. lastMail'
    BY <1>1, <2>4, NotificationAssumption DEF ClassifyPublish, MailType
  <2> QED
    BY <1>1, <2>2, <2>3, <2>4, <2>5 DEF ClassifyPublish, MailType
<1> QED
  BY <1>1, MailFrame DEF Classify, ClassifyRead, ClassifyDone, ClassifyRetry, ClassifyFail

\* What the mailer handles has a number that was given.
LEMMA MailerMail ==
  ASSUME MailType, MailerKeeps, Mailer
  PROVE  MailType'
<1>1. ASSUME NEW d \in mailq, ReceiveDelivery(d)
      PROVE  MailType'
  BY <1>1 DEF ReceiveDelivery, MailType
<1>2. CASE NotifySend \/ NotifySkip
  <2>1. mailer \in Delivery /\ mailer.id <= lastMail
    BY <1>2 DEF NotifySend, NotifySkip, MailType, MailerKeeps, Mailed
  <2>2. mailer.id \in 1 .. lastMail
    BY <2>1 DEF Delivery, MailType
  <2> QED
    BY <1>2, <2>2 DEF NotifySend, NotifySkip, MailType
<1>3. CASE NotifyClose \/ NotifyRetry
  BY <1>3 DEF NotifyClose, NotifyRetry, MailType
<1>4. CASE NotifyFail
  BY <1>4 DEF NotifyFail, MailerDone, MailType
<1>5. CASE AckDelivery
  BY <1>5 DEF AckDelivery, MailerDone, MailType
<1> QED
  BY <1>1, <1>2, <1>3, <1>4, <1>5 DEF Mailer

\* What the broker takes back is a delivery.
LEMMA FaultsMail ==
  ASSUME MailType, LoseConnection \/ Crash
  PROVE  MailType'
<1>1. CASE LoseConnection
  BY <1>1 DEF MailType, LoseConnection, TakeBack, Held
<1>2. CASE Crash
  BY <1>2 DEF MailType, Crash, TakeBack, Held
<1> QED
  BY <1>1, <1>2

-----------------------------------------------------------------------------
(* Every step keeps the types.                                             *)

\* The intake, and the handlers whose message went back
LEMMA IntakeFaults ==
  ASSUME FaultType, Intake
  PROVE  FaultType'
<1>1. CASE RefuseReport
  BY <1>1, FaultStep DEF RefuseReport, IntakeDone, FaultType
<1>2. CASE AckReport
  BY <1>2 DEF AckReport, IntakeDone, FaultType
<1> QED
  BY <1>1, <1>2 DEF Intake, ReceiveReport, StoreEvent, SkipReport, FaultType

\* The same of a classification
LEMMA ClassifyFaults ==
  ASSUME FaultType, NEW k \in tasks, Classify(k)
  PROVE  FaultType'
<1>1. CASE ClassifyRetry(k) \/ ClassifyFail(k)
  BY <1>1, FaultStep DEF ClassifyRetry, ClassifyFail, FaultType
<1> QED
  BY <1>1 DEF Classify, ClassifyRead, ClassifyDone, ClassifyPublish, FaultType

\* The same of the mailer
LEMMA MailerFaults ==
  ASSUME FaultType, Mailer
  PROVE  FaultType'
<1>1. CASE NotifyRetry
  BY <1>1, FaultStep DEF NotifyRetry, FaultType
<1>2. CASE NotifyFail
  BY <1>2, FaultStep DEF NotifyFail, MailerDone, FaultType
<1>3. CASE AckDelivery
  BY <1>3 DEF AckDelivery, MailerDone, FaultType
<1> QED
  BY <1>1, <1>2, <1>3
     DEF Mailer, ReceiveDelivery, NotifySend, NotifySkip, NotifyClose, FaultType

\* The steps that leave the settings alone
LEMMA SettingsFrame ==
  ASSUME SettingsTypeOK, UNCHANGED settings
  PROVE  SettingsTypeOK'
  BY DEF SettingsTypeOK, settings, rows

\* The steps of the intake
LEMMA IntakeTypes ==
  ASSUME TypeOK, Intake
  PROVE  TypeOK'
<1>1. SettingsTypeOK /\ QueueType /\ EventType /\ MailType /\ FaultType
  BY TypeParts
<1>2. UNCHANGED <<settings, mailVars>>
  BY DEF Intake, ReceiveReport, StoreEvent, SkipReport, RefuseReport, AckReport
<1>3. SettingsTypeOK' /\ MailType'
  BY <1>1, <1>2, SettingsFrame, MailFrame
<1>4. QueueType' /\ EventType' /\ FaultType'
  BY <1>1, IntakeQueue, IntakeEvents, IntakeFaults
<1> QED
  BY <1>3, <1>4, TypeParts, PTL

\* The steps of a classification
LEMMA ClassifyTypes ==
  ASSUME TypeOK, NEW k \in tasks, Classify(k)
  PROVE  TypeOK'
<1>1. SettingsTypeOK /\ QueueType /\ EventType /\ MailType /\ FaultType
  BY TypeParts
<1>2. UNCHANGED settings
  BY DEF Classify, ClassifyRead, ClassifyDone, ClassifyRetry, ClassifyFail, ClassifyPublish
<1>3. SettingsTypeOK' /\ EventType' /\ MailType' /\ FaultType'
  BY <1>1, <1>2, SettingsFrame, ClassifyEvents, ClassifyMail, ClassifyFaults
<1>4. CASE ClassifyFail(k)
  <2>1. QueueType'
    BY <1>4, ReportsQueue
  <2> QED
    BY <2>1, <1>3, TypeParts, PTL
<1>5. CASE ~ ClassifyFail(k)
  <2>1. UNCHANGED intakeVars
    BY <1>5 DEF Classify, ClassifyRead, ClassifyDone, ClassifyRetry, ClassifyPublish
  <2>2. QueueType'
    BY <2>1, <1>1, QueueFrame
  <2> QED
    BY <2>2, <1>3, TypeParts, PTL
<1> QED
  BY <1>4, <1>5

\* The steps of the mailer
LEMMA MailerTypes ==
  ASSUME TypeOK, MailerKeeps, Mailer
  PROVE  TypeOK'
<1>1. SettingsTypeOK /\ QueueType /\ EventType /\ MailType /\ FaultType
  BY TypeParts
<1>2. UNCHANGED <<settings, storeVars, tasks>>
  BY DEF Mailer, ReceiveDelivery, NotifySend, NotifySkip, NotifyClose, NotifyRetry,
         NotifyFail, AckDelivery
<1>3. SettingsTypeOK' /\ EventType' /\ MailType' /\ FaultType'
  BY <1>1, <1>2, SettingsFrame, EventFrame, MailerMail, MailerFaults
<1>4. CASE NotifyFail
  <2>1. QueueType'
    BY <1>4, ReportsQueue
  <2> QED
    BY <2>1, <1>3, TypeParts, PTL
<1>5. CASE ~ NotifyFail
  <2>1. UNCHANGED intakeVars
    BY <1>5 DEF Mailer, ReceiveDelivery, NotifySend, NotifySkip, NotifyClose,
                NotifyRetry, AckDelivery
  <2>2. QueueType'
    BY <2>1, <1>1, QueueFrame
  <2> QED
    BY <2>2, <1>3, TypeParts, PTL
<1> QED
  BY <1>4, <1>5

\* All steps
LEMMA TypeStep ==
  ASSUME TypeOK, MailerKeeps, [Next]_vars
  PROVE  TypeOK'
<1>1. SettingsTypeOK /\ QueueType /\ EventType /\ MailType /\ FaultType
  BY TypeParts
<1>2. ASSUME NEW i \in Input, ReportEvent(i.tenant, i.code, i.ok)
      PROVE  TypeOK'
  <2>1. UNCHANGED <<settings, storeVars, tasks, mailVars>> /\ UNCHANGED <<returned, faults>>
    BY <1>2 DEF ReportEvent
  <2>2. SettingsTypeOK' /\ EventType' /\ MailType'
    BY <1>1, <2>1, SettingsFrame, EventFrame, MailFrame
  <2>3. FaultType'
    BY <1>1, <2>1 DEF FaultType
  <2>4. QueueType'
    BY <1>2, ReportsQueue
  <2> QED
    BY <2>2, <2>3, <2>4, TypeParts, PTL
<1>3. ASSUME SettingsNext,
             UNCHANGED <<intakeVars, storeVars, tasks, mailVars, returned, faults>>
      PROVE  TypeOK'
  <2>1. SettingsTypeOK'
    BY <1>1, <1>3, SettingsStep
  <2>2. QueueType' /\ EventType' /\ MailType'
    BY <1>1, <1>3, QueueFrame, EventFrame, MailFrame
  <2>3. FaultType'
    BY <1>1, <1>3 DEF FaultType
  <2> QED
    BY <2>1, <2>2, <2>3, TypeParts, PTL
<1>4. CASE LoseConnection \/ Crash
  <2>1. UNCHANGED <<settings, storeVars>>
    BY <1>4 DEF LoseConnection, Crash
  <2>2. SettingsTypeOK' /\ QueueType' /\ MailType'
    BY <1>1, <1>4, <2>1, SettingsFrame, FaultsQueue, FaultsMail
  <2>3. EventType'
    BY <1>1, <1>4 DEF LoseConnection, Crash, EventType, storeVars
  <2>4. FaultType'
    BY <1>1, <1>4, FaultStep DEF LoseConnection, Crash, FaultType
  <2> QED
    BY <2>2, <2>3, <2>4, TypeParts, PTL
<1>5. CASE UNCHANGED vars
  <2>1. UNCHANGED <<settings, intakeVars, storeVars, tasks, mailVars, returned, faults>>
    BY <1>5 DEF vars
  <2>2. SettingsTypeOK' /\ QueueType' /\ EventType' /\ MailType'
    BY <1>1, <2>1, SettingsFrame, QueueFrame, EventFrame, MailFrame
  <2>3. FaultType'
    BY <1>1, <2>1 DEF FaultType
  <2> QED
    BY <2>2, <2>3, TypeParts, PTL
<1> QED
  BY <1>2, <1>3, <1>4, <1>5, IntakeTypes, ClassifyTypes, MailerTypes DEF Next

-----------------------------------------------------------------------------
(* No report is lost.                                                      *)

\* What is stored stays stored.
LEMMA StoredStays ==
  ASSUME events \subseteq events', NEW r, Stored(r)
  PROVE  Stored(r)'
  BY DEF Stored, validateEvent

\* No step removes an event.
LEMMA EventsStay ==
  ASSUME TypeOK, [Next]_vars
  PROVE  events \subseteq events'
<1>1. QueueType /\ EventType
  BY TypeParts
<1>2. CASE Intake
  BY <1>2 DEF Intake, ReceiveReport, StoreEvent, SkipReport, RefuseReport, AckReport,
              createEvent, storeVars
<1>3. ASSUME NEW k \in tasks, Classify(k)
      PROVE  events \subseteq events'
  BY <1>3 DEF Classify, ClassifyRead, ClassifyDone, ClassifyRetry, ClassifyFail,
              ClassifyPublish, storeVars
<1>4. CASE Mailer
  BY <1>4 DEF Mailer, ReceiveDelivery, NotifySend, NotifySkip, NotifyClose, NotifyRetry,
              NotifyFail, AckDelivery, storeVars
<1> QED
  BY <1>2, <1>3, <1>4 DEF Next, ReportEvent, LoseConnection, Crash, vars, storeVars

\* Steps that add to the queue of reports and leave the intake alone
LEMMA ReportsGrow ==
  ASSUME TypeOK, NoReportLost, IntakeKeeps, events \subseteq events',
         reports \subseteq reports', \A r \in reported' \ reported : r \in reports',
         UNCHANGED <<intake, ipc, refused>>,
         "intake" \in returned' <=> "intake" \in returned
  PROVE  NoReportLost' /\ IntakeKeeps'
<1>1. IntakeKeeps'
  BY DEF IntakeKeeps, Stored, validateEvent
<1>2. NoReportLost'
  BY DEF NoReportLost, Handled, validateEvent
<1> QED
  BY <1>1, <1>2

\* The intake: it acknowledges what it stored or what is not valid.
LEMMA IntakeLosesNone ==
  ASSUME TypeOK, NoReportLost, IntakeKeeps, Intake, events \subseteq events'
  PROVE  NoReportLost' /\ IntakeKeeps'
<1>0. QueueType /\ EventType
  BY TypeParts
<1>1. ASSUME NEW r \in reports, ReceiveReport(r)
      PROVE  NoReportLost' /\ IntakeKeeps'
  BY <1>0, <1>1 DEF ReceiveReport, NoReportLost, IntakeKeeps, Handled, QueueType,
                    validateEvent, storeVars
<1>2. CASE StoreEvent
  <2>1. \E e \in events' : e.report = intake.id
    BY <1>0, <1>2, CreateType DEF StoreEvent
  <2>2. UNCHANGED <<reports, reported, intake, refused, returned>> /\ ipc' = "ack"
        /\ ipc = "handle"
    BY <1>2 DEF StoreEvent, queueVars
  <2>3. IntakeKeeps'
    BY <2>1, <2>2 DEF IntakeKeeps, Stored
  <2>4. NoReportLost'
    BY <2>2 DEF NoReportLost, Handled, validateEvent
  <2> QED
    BY <2>3, <2>4
<1>3. CASE SkipReport
  <2>1. ~ validateEvent(intake)
    BY <1>3, NotificationAssumption DEF SkipReport, validateEvent
  <2>2. UNCHANGED <<reports, reported, intake, refused, returned, events>> /\ ipc' = "ack"
        /\ ipc = "handle"
    BY <1>3 DEF SkipReport, queueVars, storeVars
  <2>3. IntakeKeeps'
    BY <2>1, <2>2 DEF IntakeKeeps, Stored, validateEvent
  <2>4. NoReportLost'
    BY <2>2 DEF NoReportLost, Handled, validateEvent
  <2> QED
    BY <2>3, <2>4
<1>4. CASE RefuseReport
  <2>1. UNCHANGED <<reports, reported>> /\ ipc' = "idle" /\ returned' = returned \ {"intake"}
    BY <1>4 DEF RefuseReport, IntakeDone, queueVars
  <2>2. intake \in reports \cup refused' /\ refused \subseteq refused'
    BY <1>4 DEF RefuseReport, IntakeKeeps
  <2>3. NoReportLost'
    BY <2>1, <2>2 DEF NoReportLost, Handled, validateEvent
  <2> QED
    BY <2>1, <2>3 DEF IntakeKeeps
<1>5. CASE AckReport
  <2>1. UNCHANGED <<reports, reported, refused, events>> /\ ipc' = "idle"
        /\ returned' = returned \ {"intake"}
    BY <1>5 DEF AckReport, IntakeDone, queueVars, storeVars
  <2>2. Stored(intake)
    BY <1>5 DEF AckReport, IntakeKeeps
  <2>3. NoReportLost'
    BY <2>1, <2>2 DEF NoReportLost, Handled, Stored, validateEvent
  <2> QED
    BY <2>1, <2>3 DEF IntakeKeeps
<1> QED
  BY <1>1, <1>2, <1>3, <1>4, <1>5 DEF Intake

\* A lost connection and a crash put back what was being handled.
LEMMA FaultsLoseNone ==
  ASSUME TypeOK, NoReportLost, IntakeKeeps, LoseConnection \/ Crash
  PROVE  NoReportLost' /\ IntakeKeeps'
<1>1. UNCHANGED <<reported, refused, events>>
  BY DEF LoseConnection, Crash, storeVars
<1>2. reports \subseteq reports' /\ (ipc # "idle" => intake \in reports')
  BY DEF LoseConnection, Crash, TakeBack, Held, IntakeKeeps
<1>3. NoReportLost'
  BY <1>1, <1>2 DEF NoReportLost, Handled, validateEvent
<1>4. IntakeKeeps'
  BY <1>1, <1>2 DEF LoseConnection, Crash, Held, IntakeKeeps, Stored, validateEvent
<1> QED
  BY <1>3, <1>4

\* A failure that is reported
LEMMA FailuresLoseNone ==
  ASSUME TypeOK, NoReportLost, IntakeKeeps, events \subseteq events',
         (\E k \in tasks : ClassifyFail(k)) \/ NotifyFail
  PROVE  NoReportLost' /\ IntakeKeeps'
<1>0. QueueType /\ EventType /\ MailType
  BY TypeParts
<1>1. ASSUME NEW k \in tasks, ClassifyFail(k)
      PROVE  NoReportLost' /\ IntakeKeeps'
  <2>1. k.event.tenant \in Tenant
    BY <1>0 DEF EventType, Task, Event
  <2>2. reports \subseteq reports' /\ (\A r \in reported' \ reported : r \in reports')
    BY <1>0, <1>1, <2>1, ReportType DEF ClassifyFail
  <2> QED
    BY <1>1, <2>2, ReportsGrow DEF ClassifyFail
<1>2. CASE NotifyFail
  <2>1. mailer \in Delivery
    BY <1>0, <1>2 DEF MailType, NotifyFail
  <2>2. mailer.event.tenant \in Tenant
    BY <2>1 DEF Delivery, Event
  <2>3. reports \subseteq reports' /\ (\A r \in reported' \ reported : r \in reports')
    BY <1>0, <1>2, <2>2, ReportType DEF NotifyFail
  <2> QED
    BY <1>2, <2>3, ReportsGrow DEF NotifyFail, MailerDone
<1> QED
  BY <1>1, <1>2

\* No step loses a report.
LEMMA LostNone ==
  ASSUME TypeOK, NoReportLost, IntakeKeeps, [Next]_vars
  PROVE  NoReportLost' /\ IntakeKeeps'
<1>0. QueueType /\ events \subseteq events'
  BY TypeParts, EventsStay
<1>1. ASSUME NEW i \in Input, ReportEvent(i.tenant, i.code, i.ok)
      PROVE  NoReportLost' /\ IntakeKeeps'
  <2>1. i.tenant \in Tenant \cup {NoTenant} /\ i.code \in Code /\ i.ok \in BOOLEAN
    BY NotificationAssumption
  <2>2. reports \subseteq reports' /\ (\A r \in reported' \ reported : r \in reports')
    BY <1>0, <1>1, <2>1, PublishType DEF ReportEvent
  <2> QED
    BY <1>0, <1>1, <2>2, ReportsGrow DEF ReportEvent
<1>2. ASSUME UNCHANGED intakeVars, "intake" \in returned' <=> "intake" \in returned
      PROVE  NoReportLost' /\ IntakeKeeps'
  BY <1>0, <1>2, ReportsGrow DEF intakeVars, queueVars
<1>3. ASSUME NEW k \in tasks, Classify(k)
      PROVE  NoReportLost' /\ IntakeKeeps'
  <2>1. CASE ClassifyFail(k)
    BY <1>0, <2>1, FailuresLoseNone
  <2>2. CASE ~ ClassifyFail(k)
    BY <1>2, <1>3, <2>2 DEF Classify, ClassifyRead, ClassifyDone, ClassifyRetry,
                            ClassifyPublish
  <2> QED
    BY <2>1, <2>2
<1>4. CASE Mailer
  <2>1. CASE NotifyFail
    BY <1>0, <2>1, FailuresLoseNone
  <2>2. CASE ~ NotifyFail
    BY <1>2, <1>4, <2>2 DEF Mailer, ReceiveDelivery, NotifySend, NotifySkip, NotifyClose,
                            NotifyRetry, AckDelivery, MailerDone
  <2> QED
    BY <2>1, <2>2
<1>5. CASE UNCHANGED vars
  BY <1>2, <1>5 DEF vars
<1> QED
  BY <1>0, <1>1, <1>2, <1>3, <1>4, <1>5, IntakeLosesNone, FaultsLoseNone DEF Next

-----------------------------------------------------------------------------
(* Mail stays within a tenant, and a delivery stays until it is settled.   *)

\* The tasks and the deliveries that a step leaves are among those it found.
LEMMA MailShrinks ==
  ASSUME MailWithinTenant, TasksWithinTenant, events \subseteq events',
         tasks' \subseteq tasks, (mailq \cup Mailed)' \subseteq mailq \cup Mailed
  PROVE  MailWithinTenant' /\ TasksWithinTenant'
<1>1. MailWithinTenant'
  BY DEF MailWithinTenant
<1>2. TasksWithinTenant'
  BY DEF TasksWithinTenant
<1> QED
  BY <1>1, <1>2

\* The mailer neither makes deliveries nor changes them.
LEMMA MailerShrinks ==
  ASSUME Mailer
  PROVE  (mailq \cup Mailed)' \subseteq mailq \cup Mailed
<1>1. ASSUME NEW d \in mailq, ReceiveDelivery(d)
      PROVE  (mailq \cup Mailed)' \subseteq mailq \cup Mailed
  BY <1>1 DEF ReceiveDelivery, Mailed
<1>2. CASE NotifySend \/ NotifySkip \/ NotifyClose \/ NotifyRetry
  BY <1>2 DEF NotifySend, NotifySkip, NotifyClose, NotifyRetry, Mailed
<1>3. CASE NotifyFail
  BY <1>3 DEF NotifyFail, MailerDone, Mailed
<1>4. CASE AckDelivery
  BY <1>4 DEF AckDelivery, MailerDone, Mailed
<1> QED
  BY <1>1, <1>2, <1>3, <1>4 DEF Mailer

\* Nor does the broker when it takes them back.
LEMMA FaultsShrink ==
  ASSUME LoseConnection \/ Crash
  PROVE  (mailq \cup Mailed)' \subseteq mailq \cup Mailed
  BY DEF LoseConnection, Crash, TakeBack, Held, Mailed

\* The intake starts a classification of the event that it stores.
LEMMA StoreWithin ==
  ASSUME TasksWithinTenant, StoreEvent
  PROVE  TasksWithinTenant'
<1>1. events \subseteq events'
  BY DEF StoreEvent, createEvent
<1>2. ASSUME NEW e \in events'
      PROVE  LET k == [event |-> e, read |-> FALSE, todo |-> {}]
             IN  k.event \in events' /\ k.todo = {}
  OBVIOUS
<1>3. tasks' = tasks \cup {[event |-> e, read |-> FALSE, todo |-> {}] : e \in events' \ events}
  BY DEF StoreEvent
<1> QED
  BY <1>1, <1>2, <1>3 DEF TasksWithinTenant

\* The query finds users of the event's tenant only, and a delivery is for one of
\* them.
LEMMA ClassifyWithin ==
  ASSUME TypeOK, MailWithinTenant, TasksWithinTenant, NEW k \in tasks, Classify(k)
  PROVE  MailWithinTenant' /\ TasksWithinTenant'
<1>0. k \in Task /\ k.event \in events /\ events' = events
      /\ (\A row \in k.todo : TenantOf[row[1]] = k.event.tenant)
  BY TypeParts DEF EventType, TasksWithinTenant, Classify, ClassifyRead, ClassifyDone,
         ClassifyRetry, ClassifyFail, ClassifyPublish, storeVars
<1>1. CASE ClassifyRead(k)
  <2> DEFINE l == [k EXCEPT !.read = TRUE,
                     !.todo = IF Notified(k.event) THEN Recipients(k.event) ELSE {}]
  <2>1. l.event = k.event /\ l.todo \subseteq Recipients(k.event)
    BY <1>0 DEF Task
  <2>2. \A row \in Recipients(k.event) : TenantOf[row[1]] = k.event.tenant
    BY DEF Recipients
  <2>3. tasks' = (tasks \ {k}) \cup {l} /\ UNCHANGED mailVars
    BY <1>1 DEF ClassifyRead
  <2>4. TasksWithinTenant'
    <3> HIDE DEF l
    <3> QED BY <1>0, <2>1, <2>2, <2>3 DEF TasksWithinTenant
  <2>5. MailWithinTenant'
    BY <1>0, <2>3 DEF MailWithinTenant, Mailed, mailVars
  <2> QED
    BY <2>4, <2>5
<1>2. CASE ClassifyDone(k) \/ ClassifyFail(k)
  <2>1. tasks' \subseteq tasks /\ UNCHANGED mailVars
    BY <1>2 DEF ClassifyDone, ClassifyFail
  <2> QED
    BY <1>0, <2>1, MailShrinks DEF Mailed, mailVars
<1>3. CASE ClassifyRetry(k)
  <2> DEFINE l == [k EXCEPT !.read = FALSE]
  <2>1. l.event = k.event /\ l.todo = k.todo
    BY <1>0 DEF Task
  <2>2. tasks' = (tasks \ {k}) \cup {l} /\ UNCHANGED mailVars
    BY <1>3 DEF ClassifyRetry
  <2>3. TasksWithinTenant'
    <3> HIDE DEF l
    <3> QED BY <1>0, <2>1, <2>2 DEF TasksWithinTenant
  <2>4. MailWithinTenant'
    BY <1>0, <2>2 DEF MailWithinTenant, Mailed, mailVars
  <2> QED
    BY <2>3, <2>4
<1>4. ASSUME NEW row \in k.todo, ClassifyPublish(k, row)
      PROVE  MailWithinTenant' /\ TasksWithinTenant'
  <2> DEFINE l == [k EXCEPT !.todo = @ \ {row}]
             d == [id |-> lastMail + 1, event |-> k.event, user |-> row[1]]
  <2>1. l.event = k.event /\ l.todo \subseteq k.todo
    BY <1>0 DEF Task
  <2>2. d.event = k.event /\ d.user = row[1]
    OBVIOUS
  <2>3. /\ tasks' = (tasks \ {k}) \cup {l}
        /\ mailq' = mailq \cup {d}
        /\ UNCHANGED <<mailer, mpc>>
    BY <1>4 DEF ClassifyPublish
  <2> HIDE DEF l, d
  <2>4. TasksWithinTenant'
    BY <1>0, <2>1, <2>3 DEF TasksWithinTenant
  <2>5. MailWithinTenant'
    BY <1>0, <2>2, <2>3 DEF MailWithinTenant, Mailed
  <2> QED
    BY <2>4, <2>5
<1> QED
  BY <1>1, <1>2, <1>3, <1>4 DEF Classify

\* No step lets mail leave its tenant.
LEMMA Within ==
  ASSUME TypeOK, MailWithinTenant, TasksWithinTenant, [Next]_vars
  PROVE  MailWithinTenant' /\ TasksWithinTenant'
<1>0. events \subseteq events'
  BY EventsStay
<1>1. CASE Intake
  <2>1. UNCHANGED mailVars
    BY <1>1 DEF Intake, ReceiveReport, StoreEvent, SkipReport, RefuseReport, AckReport
  <2>2. MailWithinTenant'
    BY <1>0, <2>1 DEF MailWithinTenant, Mailed, mailVars
  <2>3. CASE StoreEvent
    BY <2>2, <2>3, StoreWithin
  <2>4. CASE ~ StoreEvent
    <3>1. UNCHANGED tasks
      BY <1>1, <2>4 DEF Intake, ReceiveReport, SkipReport, RefuseReport, AckReport
    <3> QED
      BY <1>0, <2>2, <3>1 DEF TasksWithinTenant
  <2> QED
    BY <2>3, <2>4
<1>2. CASE Mailer
  <2>1. UNCHANGED tasks
    BY <1>2 DEF Mailer, ReceiveDelivery, NotifySend, NotifySkip, NotifyClose,
                NotifyRetry, NotifyFail, AckDelivery
  <2> QED
    BY <1>0, <1>2, <2>1, MailerShrinks, MailShrinks
<1>3. CASE LoseConnection \/ Crash
  <2>1. tasks' \subseteq tasks
    BY <1>3 DEF LoseConnection, Crash
  <2> QED
    BY <1>0, <1>3, <2>1, FaultsShrink, MailShrinks
<1>4. ASSUME UNCHANGED <<tasks, mailVars>>
      PROVE  MailWithinTenant' /\ TasksWithinTenant'
  BY <1>0, <1>4, MailShrinks DEF Mailed, mailVars
<1> QED
  BY <1>1, <1>2, <1>3, <1>4, ClassifyWithin DEF Next, ReportEvent, vars

\* The steps of others leave the mailer alone, and give higher numbers.
LEMMA MailerFrame ==
  ASSUME MailerKeeps, mailq \subseteq mailq', \A d \in mailq' \ mailq : d.id <= lastMail',
         lastMail \in Nat, lastMail' \in Nat, lastMail <= lastMail',
         \A d \in mailq \cup Mailed : d.id \in Nat,
         UNCHANGED <<mailer, mpc, settled>>, "mailer" \in returned' <=> "mailer" \in returned
  PROVE  MailerKeeps'
<1>1. Mailed' = Mailed
  BY DEF Mailed
<1> QED
  BY <1>1 DEF MailerKeeps

\* The numbers of the deliveries
LEMMA DeliveryIds ==
  ASSUME TypeOK
  PROVE  lastMail \in Nat /\ \A d \in mailq \cup Mailed : d.id \in Nat
  BY TypeParts, NotificationAssumption DEF MailType, Mailed, Delivery

\* The mailer acknowledges only after it has settled.
LEMMA MailerKeepsOwn ==
  ASSUME TypeOK, MailerKeeps, Mailer
  PROVE  MailerKeeps'
<1>0. (mailq \cup Mailed)' \subseteq mailq \cup Mailed
  BY MailerShrinks
<1>1. lastMail' = lastMail
  BY DEF Mailer, ReceiveDelivery, NotifySend, NotifySkip, NotifyClose, NotifyRetry,
         NotifyFail, AckDelivery
<1>2. \A d \in (mailq \cup Mailed)' : d.id <= lastMail'
  BY <1>0, <1>1 DEF MailerKeeps
<1>3. MailType /\ FaultType
  BY TypeParts
<1>4. ASSUME NEW d \in mailq, ReceiveDelivery(d)
      PROVE  MailerKeeps'
  BY <1>2, <1>3, <1>4 DEF ReceiveDelivery, MailerKeeps
<1>5. CASE NotifySend \/ NotifySkip \/ NotifyClose \/ NotifyRetry
  BY <1>2, <1>5 DEF NotifySend, NotifySkip, NotifyClose, NotifyRetry, MailerKeeps
<1>6. CASE NotifyFail
  BY <1>2, <1>6 DEF NotifyFail, MailerDone, MailerKeeps
<1>7. CASE AckDelivery
  BY <1>2, <1>7 DEF AckDelivery, MailerDone, MailerKeeps
<1> QED
  BY <1>4, <1>5, <1>6, <1>7 DEF Mailer

\* No step of anybody changes that.
LEMMA MailerStep ==
  ASSUME TypeOK, MailerKeeps, [Next]_vars
  PROVE  MailerKeeps'
<1>0. lastMail \in Nat /\ \A d \in mailq \cup Mailed : d.id \in Nat
  BY DeliveryIds
<1>1. ASSUME UNCHANGED mailVars, "mailer" \in returned' <=> "mailer" \in returned
      PROVE  MailerKeeps'
  BY <1>0, <1>1, MailerFrame DEF mailVars
<1>2. CASE Intake
  BY <1>1, <1>2 DEF Intake, ReceiveReport, StoreEvent, SkipReport, RefuseReport,
                    AckReport, IntakeDone
<1>3. ASSUME NEW k \in tasks, Classify(k)
      PROVE  MailerKeeps'
  <2>1. ASSUME NEW row \in k.todo, ClassifyPublish(k, row)
        PROVE  MailerKeeps'
    <3> DEFINE d == [id |-> lastMail + 1, event |-> k.event, user |-> row[1]]
    <3>1. d.id = lastMail + 1
      OBVIOUS
    <3>2. mailq' = mailq \cup {d} /\ lastMail' = lastMail + 1
          /\ UNCHANGED <<mailer, mpc, settled, returned>>
      BY <2>1 DEF ClassifyPublish
    <3> HIDE DEF d
    <3> QED
      BY <1>0, <3>1, <3>2, MailerFrame
  <2>2. CASE ~ \E row \in k.todo : ClassifyPublish(k, row)
    BY <1>1, <1>3, <2>2 DEF Classify, ClassifyRead, ClassifyDone, ClassifyRetry, ClassifyFail
  <2> QED
    BY <2>1, <2>2
<1>4. CASE LoseConnection \/ Crash
  <2>1. \A d \in (mailq \cup Mailed)' : d.id <= lastMail'
    BY <1>4, FaultsShrink DEF LoseConnection, Crash, MailerKeeps
  <2>2. CASE LoseConnection
    BY <2>1, <2>2 DEF LoseConnection, TakeBack, Held, MailerKeeps
  <2>3. CASE Crash
    BY <2>1, <2>3 DEF Crash, MailerKeeps
  <2> QED
    BY <1>4, <2>2, <2>3
<1> QED
  BY <1>1, <1>2, <1>3, <1>4, MailerKeepsOwn DEF Next, ReportEvent, vars

-----------------------------------------------------------------------------
(* The theorems                                                            *)

\* The inductive invariant holds initially ...
LEMMA InitInv == Init => Inv
<1> SUFFICES ASSUME Init PROVE Inv
  OBVIOUS
<1>1. TypeOK
  BY InitType
<1>2. NoReportLost /\ IntakeKeeps
  BY DEF Init, NoReportLost, IntakeKeeps
<1>3. MailWithinTenant /\ TasksWithinTenant /\ MailerKeeps
  BY DEF Init, MailWithinTenant, TasksWithinTenant, MailerKeeps, Mailed
<1> QED
  BY <1>1, <1>2, <1>3 DEF Inv

\* ... every step keeps it ...
LEMMA InvStep == Inv /\ [Next]_vars => Inv'
<1> SUFFICES ASSUME Inv, [Next]_vars PROVE Inv'
  OBVIOUS
<1>1. TypeOK' /\ MailerKeeps'
  BY TypeStep, MailerStep DEF Inv
<1>2. NoReportLost' /\ IntakeKeeps'
  BY LostNone DEF Inv
<1>3. MailWithinTenant' /\ TasksWithinTenant'
  BY Within DEF Inv
<1> QED
  BY <1>1, <1>2, <1>3 DEF Inv

\* ... and so it always holds.
LEMMA SpecInv == Spec => []Inv
  BY InitInv, InvStep, PTL DEF Spec

\* The state of the notification service keeps its types: in particular what a
\* handler has in hand is a message that was published.
THEOREM TypeCorrect == Spec => []TypeOK
<1>1. Inv => TypeOK
  BY DEF Inv
<1> QED
  BY <1>1, SpecInv, PTL

\* Whatever crashes, lost connections and failures of the database come in between,
\* a valid report is never acknowledged before subscribeEvent has stored it.
THEOREM ReportsKept == Spec => []NoReportLost
<1>1. Inv => NoReportLost
  BY DEF Inv
<1> QED
  BY <1>1, SpecInv, PTL

\* What ClassifyEvent publishes, and notifyEvent sends, is about stored events of the
\* recipient's own tenant, however the settings change between the two.
THEOREM MailConfined == Spec => []MailWithinTenant
<1>1. Inv => MailWithinTenant
  BY DEF Inv
<1> QED
  BY <1>1, SpecInv, PTL

-----------------------------------------------------------------------------
(* The mailer implements at-least-once delivery.                           *)

\* Steps that keep the set of deliveries and what is settled
LEMMA SameDue ==
  ASSUME (mailq \cup Mailed)' = mailq \cup Mailed, UNCHANGED settled
  PROVE  UNCHANGED <<DueMail, settled>>
  BY DEF DueMail

\* A classification assigns a job; the mailer does one; its acknowledgement releases
\* one that is done.
LEMMA ContractMailer ==
  ASSUME TypeOK, MailerKeeps, Mailer
  PROVE  [Contract!Next]_<<DueMail, settled>>
<1>0. MailType /\ FaultType
  BY TypeParts
<1>1. ASSUME NEW d \in mailq, ReceiveDelivery(d)
      PROVE  UNCHANGED <<DueMail, settled>>
  BY <1>1, SameDue DEF ReceiveDelivery, Mailed
<1>2. CASE NotifyClose \/ NotifyRetry
  BY <1>2, SameDue DEF NotifyClose, NotifyRetry, Mailed
<1>3. CASE NotifyFail
  BY <1>3, SameDue DEF NotifyFail, MailerDone, Mailed
<1>4. CASE NotifySend \/ NotifySkip
  <2>1. mailer.id \in 1 .. MaxDeliveries /\ mailer.id \in DueMail
    BY <1>0, <1>4 DEF NotifySend, NotifySkip, MailType, Delivery, DueMail, Mailed
  <2>2. settled' = settled \cup {mailer.id} /\ UNCHANGED DueMail
    BY <1>4 DEF NotifySend, NotifySkip, DueMail, Mailed
  <2>3. Contract!Do(mailer.id)
    BY <2>1, <2>2 DEF Contract!Do
  <2> QED
    BY <2>1, <2>3 DEF Contract!Next
<1>5. CASE AckDelivery
  <2>1. mailer \in Delivery /\ mailer.id \in settled /\ Mailed = {mailer}
    BY <1>0, <1>5 DEF AckDelivery, MailType, MailerKeeps, Mailed
  <2>2. mailer.id \in 1 .. MaxDeliveries /\ mailer.id \in DueMail
    BY <2>1 DEF Delivery, DueMail
  <2>3. mailq' = mailq /\ settled' = settled /\ Mailed' = {}
    BY <1>5 DEF AckDelivery, MailerDone, Mailed
  <2>4. DueMail = {d.id : d \in mailq} \cup {mailer.id} /\ DueMail' = {d.id : d \in mailq}
    BY <2>1, <2>3 DEF DueMail
  <2>5. CASE mailer.id \in {d.id : d \in mailq}
    BY <2>3, <2>4, <2>5
  <2>6. CASE mailer.id \notin {d.id : d \in mailq}
    <3>1. Contract!Release(mailer.id)
      BY <2>1, <2>2, <2>3, <2>4, <2>6 DEF Contract!Release
    <3> QED
      BY <2>2, <3>1 DEF Contract!Next
  <2> QED
    BY <2>5, <2>6
<1> QED
  BY <1>1, <1>2, <1>3, <1>4, <1>5 DEF Mailer

\* Every step is one of the contract, or leaves due and done alone.
LEMMA ContractStep ==
  Inv /\ [Next]_vars => [Contract!Next]_<<DueMail, settled>>
<1> SUFFICES ASSUME Inv, [Next]_vars
             PROVE  [Contract!Next]_<<DueMail, settled>>
  OBVIOUS
<1>0. TypeOK /\ MailerKeeps /\ MailType /\ FaultType
  BY TypeParts DEF Inv
<1>1. ASSUME UNCHANGED mailVars
      PROVE  UNCHANGED <<DueMail, settled>>
  BY <1>1, SameDue DEF mailVars, Mailed
<1>2. CASE Intake
  BY <1>1, <1>2 DEF Intake, ReceiveReport, StoreEvent, SkipReport, RefuseReport, AckReport
<1>3. ASSUME NEW k \in tasks, Classify(k)
      PROVE  [Contract!Next]_<<DueMail, settled>>
  <2>1. ASSUME NEW row \in k.todo, ClassifyPublish(k, row)
        PROVE  [Contract!Next]_<<DueMail, settled>>
    <3> DEFINE d == [id |-> lastMail + 1, event |-> k.event, user |-> row[1]]
    <3>1. d.id = lastMail + 1 /\ lastMail + 1 \in 1 .. MaxDeliveries
      BY <1>0, <2>1, NotificationAssumption DEF ClassifyPublish, MailType
    <3>2. mailq' = mailq \cup {d} /\ UNCHANGED <<settled, Mailed>>
      BY <2>1 DEF ClassifyPublish, Mailed
    <3> HIDE DEF d
    <3>3. DueMail' = DueMail \cup {d.id}
      BY <3>2 DEF DueMail
    <3>4. Contract!Assign(lastMail + 1)
      BY <3>1, <3>2, <3>3 DEF Contract!Assign
    <3> QED
      BY <3>1, <3>4 DEF Contract!Next
  <2>2. CASE ~ \E row \in k.todo : ClassifyPublish(k, row)
    BY <1>1, <1>3, <2>2 DEF Classify, ClassifyRead, ClassifyDone, ClassifyRetry, ClassifyFail
  <2> QED
    BY <2>1, <2>2
<1>4. CASE LoseConnection \/ Crash
  <2>1. (mailq \cup Mailed)' = mailq \cup Mailed
    BY <1>0, <1>4 DEF LoseConnection, Crash, TakeBack, Held, Mailed, MailerKeeps
  <2> QED
    BY <1>4, <2>1, SameDue DEF LoseConnection, Crash
<1> QED
  BY <1>0, <1>1, <1>2, <1>3, <1>4, ContractMailer DEF Next, ReportEvent, vars

\* The mailer implements at-least-once delivery: a delivery stays in the queue, or in
\* its handler, until notify has sent it or found it unwanted, for any number of
\* failures, crashes and lost connections.
THEOREM ContractRefined == Spec => MailContract
<1>1. Init => Contract!Init
  BY DEF Init, Contract!Init, DueMail, Mailed
<1> QED
  BY <1>1, SpecInv, ContractStep, PTL DEF Spec, MailContract, Contract!Spec

=============================================================================
