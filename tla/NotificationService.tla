------------------------- MODULE NotificationService -------------------------
(***************************************************************************)
(* The process of the notification service (services/notification/main.go  *)
(* and common/command.go) around its event streams: the framework brings   *)
(* up its parts, main subscribes the intake and the mailer, starts the     *)
(* cleaner, serves until it is told to stop, and undoes all that: its own  *)
(* steps in the opposite order, the framework's in an order of their own.  *)
(* What intake and mailer do is the subject of Notification, and that      *)
(* Cleaner.Stop returns one of EventStore; here the intake stores events   *)
(* while it is subscribed.                                                 *)
(***************************************************************************)
EXTENDS EventStream

CONSTANTS
  Interval,  \* the intervals that streams are asked for
  MaxFaults  \* bound on the failures of start-up, publications and connections

ASSUME ServiceAssumption == MaxFaults \in Nat

VARIABLES
  mpc,     \* where main is
  up,      \* the parts of the framework that are up
  intake,  \* the intake is subscribed
  mailer,  \* the mailer is subscribed
  cleaner, \* the cleaner is started
  faults

mainVars == <<mpc, up, intake, mailer, cleaner>>
vars == <<streamVars, mainVars, faults>>

Init ==
  /\ StreamInit
  /\ mpc = "defaults"
  /\ up = {}
  /\ intake = FALSE
  /\ mailer = FALSE
  /\ cleaner = FALSE
  /\ faults = 0

Fault ==
  /\ faults < MaxFaults
  /\ faults' = faults + 1

Running == mpc # "exited" /\ ~ panicked

Part == {"broker", "store", "sync", "database", "logger"}

-----------------------------------------------------------------------------
(* main                                                                    *)

Goto(from, to) ==
  /\ Running
  /\ mpc = from
  /\ mpc' = to
  /\ UNCHANGED faults

\* A step of main that fails, Run included, ends in Fatalf, which exits without the
\* deferred calls; a part that does not come up has the command end the process in
\* the same way.
Fatal ==
  /\ Running
  /\ mpc \in Part \cup {"defaults", "load", "subscribe", "notifier", "register", "run"}
  /\ Fault
  /\ mpc' = "exited"
  /\ UNCHANGED <<up, intake, mailer, cleaner, streamVars>>

initDefaults ==
  /\ Goto("defaults", "broker")
  /\ UNCHANGED <<up, intake, mailer, cleaner, streamVars>>

Bring(part, next) ==
  /\ Goto(part, next)
  /\ up' = up \cup {part}
  /\ UNCHANGED <<intake, mailer, cleaner, streamVars>>

initBroker == Bring("broker", "store")

initStore == Bring("store", "sync")

initSync == Bring("sync", "database")

initDatabase == Bring("database", "logger")

initLogger == Bring("logger", "load")

Before ==
  initDefaults \/ initBroker \/ initStore \/ initSync \/ initDatabase \/ initLogger

loadDefaultTenantID ==
  /\ Goto("load", "subscribe")
  /\ UNCHANGED <<up, intake, mailer, cleaner, streamVars>>

SubscribeIntake ==
  /\ Goto("subscribe", "notifier")
  /\ intake' = TRUE
  /\ UNCHANGED <<up, mailer, cleaner, streamVars>>

SubscribeNotifier ==
  /\ Goto("notifier", "cleaner")
  /\ mailer' = TRUE
  /\ UNCHANGED <<up, intake, cleaner, streamVars>>

StartCleaner ==
  /\ Goto("cleaner", "register")
  /\ cleaner' = TRUE
  /\ UNCHANGED <<up, intake, mailer, streamVars>>

RegisterNotificationHandler ==
  /\ Goto("register", "run")
  /\ UNCHANGED <<up, intake, mailer, cleaner, streamVars>>

\* Run returns nil after a signal: the server has stopped, and with it the
\* connections of its clients; it does not wait for their handlers.
RunReturns ==
  /\ Goto("run", "stopCleaner")
  /\ client' = [s \in Stream |-> client[s] /\ spc[s] = "none"]
  /\ UNCHANGED <<up, intake, mailer, cleaner, lastEvent, unpublished, log, topic, spc, sub,
                 queue, hand, gathered, tick, sent, panicked>>

StopCleaner ==
  /\ Goto("stopCleaner", "unsubscribeNotifier")
  /\ cleaner' = FALSE
  /\ UNCHANGED <<up, intake, mailer, streamVars>>

UnsubscribeNotifier ==
  /\ Goto("unsubscribeNotifier", "unsubscribeIntake")
  /\ mailer' = FALSE
  /\ UNCHANGED <<up, intake, cleaner, streamVars>>

UnsubscribeIntake ==
  /\ Goto("unsubscribeIntake", "destroyLogger")
  /\ intake' = FALSE
  /\ UNCHANGED <<up, mailer, cleaner, streamVars>>

Drop(part, from, to) ==
  /\ Goto(from, to)
  /\ up' = up \ {part}
  /\ UNCHANGED <<intake, mailer, cleaner, streamVars>>

\* An error of one of these is logged, and the next one follows.
destroyLogger == Drop("logger", "destroyLogger", "destroyDatabase")

destroyDatabase == Drop("database", "destroyDatabase", "destroyStore")

destroyStore == Drop("store", "destroyStore", "destroySync")

destroySync == Drop("sync", "destroySync", "destroyBroker")

\* Every subscription is lost for good, ...
destroyBroker ==
  /\ Goto("destroyBroker", "wgWait")
  /\ up' = up \ {"broker"}
  /\ sub' = [s \in Stream |-> IF sub[s] = "none" THEN "none" ELSE "ended"]
  /\ queue' = [s \in Stream |-> <<>>]
  /\ UNCHANGED <<intake, mailer, cleaner, lastEvent, unpublished, log, topic, spc, hand,
                 gathered, tick, client, sent, panicked>>

\* ... and Disconnect waits for the handlers of deliveries.
WgWait ==
  /\ Goto("wgWait", "exited")
  /\ \A s \in Stream : hand[s] = None
  /\ UNCHANGED <<up, intake, mailer, cleaner, streamVars>>

Destroy ==
  \/ destroyLogger \/ destroyDatabase \/ destroyStore \/ destroySync \/ destroyBroker
  \/ WgWait

Main ==
  \/ Before
  \/ loadDefaultTenantID \/ SubscribeIntake \/ SubscribeNotifier \/ StartCleaner
  \/ RegisterNotificationHandler
  \/ StopCleaner \/ UnsubscribeNotifier \/ UnsubscribeIntake
  \/ Destroy

-----------------------------------------------------------------------------
(* The goroutines of the process                                           *)

\* The intake has stored an event: its record is to be published. A handler that
\* was running when the subscription ended can do so until the database is closed.
StoreEvent(t, c) ==
  /\ Running
  /\ intake \/ mpc \in {"destroyLogger", "destroyDatabase"}
  /\ CreateEvent(t, c)
  /\ UNCHANGED <<mainVars, faults>>

PublishStep ==
  /\ Running
  /\ \E e \in unpublished :
       \/ "broker" \in up /\ PublishEvent(e) /\ UNCHANGED faults
       \/ "broker" \notin up /\ PublishFails(e) /\ UNCHANGED faults
       \/ Fault /\ PublishFails(e)
  /\ UNCHANGED mainVars

OpenStream(s) ==
  /\ Running
  /\ mpc = "run"
  /\ \E i \in Interval : GetEventsStream(s, i)
  /\ UNCHANGED <<mainVars, faults>>

SubscriberStep(s) ==
  /\ Running
  /\ Subscriber(s)
  /\ UNCHANGED <<mainVars, faults>>

HandlerStep(s) ==
  /\ Running
  /\ Handler(s)
  /\ UNCHANGED <<mainVars, faults>>

TickStep(s) ==
  /\ Running
  /\ Tick(s)
  /\ UNCHANGED <<mainVars, faults>>

LoseBroker(s) ==
  /\ Running
  /\ Fault
  /\ LoseSubscription(s)
  /\ UNCHANGED mainVars

Leave(s) ==
  /\ Running
  /\ ClientLeaves(s)
  /\ UNCHANGED <<mainVars, faults>>

Next ==
  \/ Main \/ Fatal \/ RunReturns
  \/ \E t \in Tenant, c \in Code : StoreEvent(t, c)
  \/ PublishStep
  \/ \E s \in Stream :
       \/ OpenStream(s) \/ SubscriberStep(s) \/ HandlerStep(s) \/ TickStep(s)
       \/ Leave(s) \/ LoseBroker(s)

Spec == Init /\ [][Next]_vars

(***************************************************************************)
(* Goroutines run, tickers tick, and calls return. Nothing makes events or *)
(* clients come, or the process be told to stop. A select takes each of    *)
(* its branches some time, if that is ready again and again.               *)
(***************************************************************************)
Fairness ==
  /\ WF_vars(Main)
  /\ WF_vars(PublishStep)
  /\ \A s \in Stream :
       /\ WF_vars(SubscriberStep(s))
       /\ WF_vars(HandlerStep(s))
       /\ WF_vars(TickStep(s))
       /\ SF_vars(Gather(s) /\ UNCHANGED <<mainVars, faults>>)

FairSpec == Spec /\ Fairness

-----------------------------------------------------------------------------
(* Properties                                                              *)

\* Types, and intake, mailer and cleaner run only on top of each other and of the whole
\* framework, which main starts and stops in opposite orders.
TypeOK ==
  /\ StreamTypeOK
  /\ mpc \in Part \cup
       {"defaults", "load", "subscribe", "notifier", "cleaner", "register", "run",
        "stopCleaner", "unsubscribeNotifier", "unsubscribeIntake", "destroyLogger",
        "destroyDatabase", "destroyStore", "destroySync", "destroyBroker", "wgWait", "exited"}
  /\ up \subseteq Part
  /\ intake \in BOOLEAN
  /\ mailer \in BOOLEAN
  /\ cleaner \in BOOLEAN
  /\ (cleaner => mailer) /\ (mailer => intake) /\ (intake => up = Part)
  /\ faults \in 0 .. MaxFaults

\* A service that is told to stop does: it never waits for ever for a delivery
\* to a stream that nobody reads any more.
ShutdownEnds == mpc = "stopCleaner" ~> ~ Running

Reached(s, i) ==
  \/ hand[s] # None /\ hand[s].id = i /\ Matches(hand[s].code, Asked[s])
  \/ \E j \in DOMAIN gathered[s] : gathered[s][j].id = i

\* An event that has reached a stream and matches its request is sent to the
\* client, unless the client leaves, an error of Send ends the stream or the
\* service ends first, whatever happens to the connection to the broker: no event
\* is dropped while the stream goes on.
StreamDelivers ==
  \A s \in Stream : \A i \in 1 .. MaxEvents :
    Reached(s, i) ~> \/ \E j \in DOMAIN sent[s] : sent[s][j].id = i
                     \/ spc[s] \notin {"select", "send"} \/ ~ client[s]
                     \/ ~ Running

=============================================================================
