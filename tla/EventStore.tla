----------------------------- MODULE EventStore -----------------------------
(***************************************************************************)
(* The stored events of the notification service: how they are created,    *)
(* read page by page (event/query.go, GetEvents), and removed when the     *)
(* period that their tenant keeps events has passed (event/cleaner.go).    *)
(*                                                                         *)
(* Time is counted in days. The cleaner compares the time of an event with *)
(* a midnight, so the day of the event is all that matters to it.          *)
(*                                                                         *)
(* The cleaner removes the events of one tenant after the other, in one    *)
(* transaction. An error of one removal is reported and not returned; the  *)
(* database however takes nothing more in a transaction that had an error, *)
(* and does not commit it.                                                 *)
(***************************************************************************)
EXTENDS EventCodes, Integers, FiniteSets

CONSTANTS
  Tenant,
  Reader,             \* who reads events: tenant and roles
  EventsRequest,      \* what readers ask for
  BadDate,            \* a date that cannot be parsed
  DefaultPeriod,      \* defaultEventStorePeriod (12)
  MaxPeriod,          \* the longest period that can be configured (120)
  Month,              \* days of a month (30)
  MinLimit, MaxLimit, \* the limits of a page (10 and 100)
  MaxEvents, MaxDays, MaxSets, MaxFaults  \* bounds on events, days, changes of
                      \* periods, and faults of the database

ASSUME StoreAssumption ==
  /\ NoRow \notin Nat
  /\ DefaultPeriod \in Nat \ {0}
  /\ MaxPeriod \in Nat
  /\ Month \in Nat \ {0}
  /\ MinLimit \in Nat \ {0}
  /\ MaxLimit \in Nat
  /\ MinLimit <= MaxLimit
  /\ MaxEvents \in Nat
  /\ MaxDays \in Nat \ {0}
  /\ MaxSets \in Nat
  /\ MaxFaults \in Nat
  /\ \A in \in EventsRequest : in.start \in Nat \cup {BadDate} /\ in.end \in Nat \cup {BadDate}

VARIABLES
  today,
  events,     \* the rows of cdm_event
  lastEvent,  \* the last identifier given to an event
  period,     \* period[t]: the months that tenant t keeps its events
  sets,       \* number of changes of periods
  faults,
  main,       \* where main is with Start and Stop of the cleaner
  cpc,        \* where the cleaner is
  todo,       \* the tenants whose events it has not yet removed
  doomed,     \* the events its transaction has removed
  aborted,    \* the transaction had an error
  timer,      \* the day at whose midnight the ticker fires
  began,      \* the day on which the last cleaning began,
  done,       \* whether it was committed, and the periods that tenants
  inForce     \* have had since it began

rowVars == <<events, lastEvent>>
cleanerVars == <<cpc, todo, doomed, aborted, timer, began, done>>
vars == <<today, rowVars, period, sets, faults, main, cleanerVars, inForce>>

Event == [id: Nat \ {0}, tenant: Tenant, code: Code, day: Nat \ {0}]

Period == (0 .. MaxPeriod) \cup {NoRow}

Months(p) == IF p = NoRow THEN DefaultPeriod ELSE p

Init ==
  /\ today = 1
  /\ events = {}
  /\ lastEvent = 0
  /\ period = [t \in Tenant |-> NoRow]
  /\ sets = 0
  /\ faults = 0
  /\ main = "new"
  /\ cpc = "off"
  /\ todo = {}
  /\ doomed = {}
  /\ aborted = FALSE
  /\ timer = 0
  /\ began = 0
  /\ done = FALSE
  /\ inForce = [t \in Tenant |-> {NoRow}]

Fault ==
  /\ faults < MaxFaults
  /\ faults' = faults + 1

NextDay ==
  /\ today < MaxDays
  /\ today' = today + 1
  /\ UNCHANGED <<rowVars, period, sets, faults, main, cleanerVars, inForce>>

\* createEvent; BeforeCreate of the model sets the time.
NewEvent(t, c) ==
  [id |-> lastEvent + 1, tenant |-> t, code |-> c, day |-> today]

CreateEvent(t, c) ==
  /\ lastEvent < MaxEvents
  /\ lastEvent' = lastEvent + 1
  /\ events' = events \cup {NewEvent(t, c)}
  /\ UNCHANGED <<today, period, sets, faults, main, cleanerVars, inForce>>

\* SetConfig as far as the cleaner is concerned
SetPeriod(t, p) ==
  /\ sets < MaxSets
  /\ sets' = sets + 1
  /\ p <= MaxPeriod
  /\ period' = [period EXCEPT ![t] = p]
  /\ inForce' = [inForce EXCEPT ![t] = @ \cup {p}]
  /\ UNCHANGED <<today, rowVars, faults, main, cleanerVars>>

-----------------------------------------------------------------------------
(* The cleaner                                                             *)

Start ==
  /\ main = "new"
  /\ main' = "started"
  /\ cpc' = "begin"
  /\ UNCHANGED <<today, rowVars, period, sets, faults, todo, doomed, aborted, timer,
                 began, done, inForce>>

\* Stop is called; it waits until the cleaner receives from c.done.
Stop ==
  /\ main = "started"
  /\ main' = "stopping"
  /\ UNCHANGED <<today, rowVars, period, sets, faults, cleanerVars, inForce>>

\* cleanExpiredEvent: the transaction begins and reads the tenants, ...
CleanBegin ==
  /\ cpc = "begin"
  /\ cpc' = "clean"
  /\ todo' = Tenant
  /\ doomed' = {}
  /\ aborted' = FALSE
  /\ began' = today
  /\ done' = FALSE
  /\ inForce' = [t \in Tenant |-> {period[t]}]
  /\ UNCHANGED <<today, rowVars, period, sets, faults, main, timer>>

\* Mutant of Expired: zero is a period like any other.
ExpiredAlways(t) ==
  {e \in events : e.tenant = t /\ e.day < today - Months(period[t]) * Month}

\* Mutant of Expired: the bound is off by one day.
ExpiredLate(t) ==
  {e \in events :
     /\ e.tenant = t
     /\ Months(period[t]) # 0
     /\ e.day < today - Months(period[t]) * Month - 1}

\* The events that were created before the midnight that began this day, less
\* the period; a period of zero keeps them for ever.
Expired(t) ==
  {e \in events :
     /\ e.tenant = t
     /\ Months(period[t]) # 0
     /\ e.day < today - Months(period[t]) * Month}

\* ... cleanExpiredTenantEvent removes what is expired of each, ...
CleanTenant(t) ==
  /\ cpc = "clean"
  /\ t \in todo
  /\ todo' = todo \ {t}
  /\ \/ /\ ~ aborted
        /\ doomed' = doomed \cup Expired(t)
        /\ UNCHANGED <<aborted, faults>>
     \/ aborted /\ UNCHANGED <<doomed, aborted, faults>>
     \/ /\ Fault
        /\ aborted' = TRUE
        /\ UNCHANGED doomed
  /\ UNCHANGED <<today, rowVars, period, sets, main, cpc, timer, began, done, inForce>>

\* Mutant of CleanEnd: the cleaner returns when a cleaning has failed.
CleanEndReturns ==
  /\ cpc = "clean"
  /\ todo = {}
  /\ \/ ~ aborted /\ events' = events \ doomed /\ done' = TRUE /\ cpc' = "select"
     \/ aborted /\ cpc' = "off" /\ UNCHANGED <<events, done>>
  /\ timer' = today + 1
  /\ UNCHANGED <<today, lastEvent, period, sets, faults, main, todo, doomed, aborted,
                 began, inForce>>

\* ... and the transaction is committed, or not. The ticker is set for the next
\* midnight.
CleanEnd ==
  /\ cpc = "clean"
  /\ todo = {}
  /\ \/ /\ ~ aborted
        /\ events' = events \ doomed
        /\ done' = TRUE
        /\ UNCHANGED faults
     \/ aborted /\ UNCHANGED <<events, done, faults>>
     \/ Fault /\ UNCHANGED <<events, done>>
  /\ cpc' = "select"
  /\ timer' = today + 1
  /\ UNCHANGED <<today, lastEvent, period, sets, main, todo, doomed, aborted, began,
                 inForce>>

\* The database asks for the transaction to be run again.
CleanRetry ==
  /\ cpc = "clean"
  /\ Fault
  /\ cpc' = "begin"
  /\ UNCHANGED <<today, rowVars, period, sets, main, todo, doomed, aborted, timer, began, done,
                 inForce>>

Midnight ==
  /\ cpc = "select"
  /\ today >= timer
  /\ cpc' = "begin"
  /\ UNCHANGED <<today, rowVars, period, sets, faults, main, todo, doomed, aborted, timer,
                 began, done, inForce>>

\* The cleaner receives from c.done and returns; Stop closes c.done and returns.
Stopped ==
  /\ cpc = "select"
  /\ main = "stopping"
  /\ cpc' = "off"
  /\ main' = "stopped"
  /\ UNCHANGED <<today, rowVars, period, sets, faults, todo, doomed, aborted, timer,
                 began, done, inForce>>

Cleaner ==
  \/ CleanBegin
  \/ \E t \in todo : CleanTenant(t)
  \/ CleanEnd
  \/ CleanRetry
  \/ Midnight
  \/ Stopped

Next ==
  \/ NextDay
  \/ \E t \in Tenant, c \in Code : CreateEvent(t, c)
  \/ \E t \in Tenant, p \in 0 .. MaxPeriod : SetPeriod(t, p)
  \/ Start
  \/ Stop
  \/ Cleaner

Spec == Init /\ [][Next]_vars

\* The cleaner's goroutine runs, and the database answers. Of the branches of
\* a select that is ready again and again, each is taken some time.
FairSpec ==
  /\ Spec
  /\ WF_vars(Cleaner)
  /\ SF_vars(Stopped)

-----------------------------------------------------------------------------
(* Queries                                                                 *)

\* The condition of a query: the tenant of the reader, the codes that match the
\* request, and the days from and to (zero: not given)
Matching(t, in) ==
  {e \in events :
     /\ e.tenant = t
     /\ Matches(e.code, in)
     /\ in.start # 0 => e.day >= in.start
     /\ in.end # 0 => e.day <= in.end}

Limit(limit) ==
  IF limit < MinLimit THEN MinLimit ELSE IF limit > MaxLimit THEN MaxLimit ELSE limit

\* The order of the results: the last created first, ties by identifier
Newer(e, f) == e.day > f.day \/ (e.day = f.day /\ e.id > f.id)

Rank(e, t, in) == Cardinality({f \in Matching(t, in) : Newer(f, e)})

\* Mutant of GetEvents: the offset is a page number.
GetEventsByPage(t, in, limit, offset) ==
  {e \in Matching(t, in) :
     Rank(e, t, in) \in (offset * limit) .. (offset * limit + Limit(limit) - 1)}

GetEvents(t, in, limit, offset) ==
  {e \in Matching(t, in) : Rank(e, t, in) \in offset .. (offset + Limit(limit) - 1)}

pagination(n, limit, offset) ==
  IF limit = 0
    THEN [page |-> 1, total |-> 1, items |-> n]
    ELSE [page |-> offset \div limit + 1, total |-> (n + limit - 1) \div limit, items |-> n]

\* A start without an end may be in the future.
getValidDate(in) ==
  /\ BadDate \notin {in.start, in.end}
  /\ in.end # 0 => in.start <= in.end

NoPage == [page |-> 0, total |-> 0, items |-> 0]

\* An answer with an error
Refused(status) == [status |-> status, events |-> {}, pagination |-> NoPage]

\* The handler GetEvents
AnswerEvents(r, in, limit, offset) ==
  LET n == Cardinality(Matching(r.tenant, in))
  IN  IF ~ checkAuthorization(r.roles) THEN Refused("unknown_user")
      ELSE IF ~ (validateGetEventsParams(in) /\ getValidDate(in)) THEN Refused("invalid_parameter")
      ELSE IF n = 0 THEN Refused("no_content")
      ELSE [status |-> "ok", events |-> GetEvents(r.tenant, in, limit, offset),
            pagination |-> pagination(n, limit, offset)]

\* event.GetEvent: zero is not a condition. One of the rows found is returned.
GetEvent(id, t) == {e \in events : e.tenant = t /\ (id # 0 => e.id = id)}

\* The handler GetEvent
AnswerEvent(r, id) == {e \in GetEvent(id, r.tenant) : checkAuthorization(r.roles)}

-----------------------------------------------------------------------------
(* Properties                                                              *)

TypeOK ==
  /\ today \in 1 .. MaxDays
  /\ events \subseteq Event
  /\ \A e \in events : e.id <= lastEvent
  /\ lastEvent \in 0 .. MaxEvents
  /\ period \in [Tenant -> Period]
  /\ sets \in 0 .. MaxSets
  /\ faults \in 0 .. MaxFaults
  /\ main \in {"new", "started", "stopping", "stopped"}
  /\ cpc \in {"off", "begin", "clean", "select"}
  /\ cpc = "off" <=> main \in {"new", "stopped"}
  /\ todo \subseteq Tenant
  /\ doomed \subseteq Event
  /\ aborted \in BOOLEAN
  /\ timer \in Nat
  /\ began \in 0 .. today
  /\ done \in BOOLEAN
  /\ inForce \in [Tenant -> SUBSET Period]

\* The cleaner removes an event only when a period that its tenant had
\* configured, while the cleaning was under way, has passed; with zero it
\* keeps events for ever, and a change of the period that overlaps with the
\* cleaning counts as made before or after it.
NothingCleanedEarly ==
  [][\A e \in events \ events' :
       \E p \in inForce[e.tenant] :
         Months(p) # 0 /\ e.day < today - Months(p) * Month]_vars

\* A cleaning that was committed leaves no event behind that was expired when
\* it began, of any tenant whose period has not changed since: one that goes on
\* past midnight is late by one day, and not by more.
CleanedInTime ==
  cpc = "select" /\ done =>
    \A e \in events :
      inForce[e.tenant] = {period[e.tenant]} /\ Months(period[e.tenant]) # 0
        => e.day >= began - Months(period[e.tenant]) * Month

\* Stop returns, however often the ticker fires and the database fails.
StopReturns == main = "stopping" ~> main = "stopped"

\* A reader who goes through the pages that pagination announces sees every event
\* of the tenant that the request asks for on exactly one of them, for every
\* limit within bounds, and no other event; no page is empty or too long, and each
\* has its own number. "No content" is the answer only if there is none. An event
\* is found by its identifier in its own tenant only, and who has no role that
\* counts is shown no page.
PagesComplete ==
  /\ \A r \in Reader, e \in events :
       AnswerEvent(r, e.id) = {f \in {e} : f.tenant = r.tenant /\ checkAuthorization(r.roles)}
  /\ \A r \in Reader, in \in EventsRequest, limit \in MinLimit .. MaxLimit :
       LET first == AnswerEvents(r, in, limit, 0)
           pages == 1 .. first.pagination.total
           page == [i \in pages |-> AnswerEvents(r, in, limit, (i - 1) * limit)]
           shown == UNION {page[i].events : i \in pages}
       IN  /\ \A i \in pages :
                /\ page[i].status = "ok"
                /\ Cardinality(page[i].events) \in 1 .. limit
                /\ page[i].pagination = [first.pagination EXCEPT !.page = i]
                /\ \A j \in pages \ {i} : page[i].events \cap page[j].events = {}
           /\ first.status \in {"ok", "no_content"} =>
                shown = {e \in events : /\ AnswerEvent(r, e.id) = {e}
                                        /\ Matches(e.code, in)
                                        /\ e.day >= in.start
                                        /\ in.end # 0 => e.day <= in.end}
           /\ ~ checkAuthorization(r.roles) => shown = {}

=============================================================================
