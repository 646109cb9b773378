-------------------------- MODULE EventStoreProofs --------------------------
(***************************************************************************)
(* Proofs about EventStore, for any number of tenants, events, days and    *)
(* faults, and any length of a month and of the periods.                   *)
(*                                                                         *)
(* The cleaner: while a cleaning is under way, all that it has removed was *)
(* expired by a period in force since it began, and of the tenants it is   *)
(* done with nothing is left that was expired when it began, unless it has *)
(* failed. Both need that the present period is among those in force.      *)
(*                                                                         *)
(* The queries: as identifiers are given once, the order of the results is *)
(* total, and their ranks are the numbers from zero to one below their     *)
(* number. Division by the limit then puts each on one page.               *)
(***************************************************************************)
EXTENDS EventStore, FiniteSetTheorems, TLAPS

\* The days that a period lasts
Span(p) == Months(p) * Month

\* The event was created more than a period before the day.
OutOf(e, p, day) == Months(p) # 0 /\ e.day < day - Span(p)

\* The event was not, if the period of its tenant has not changed since the
\* cleaning began.
KeptRightly(e) ==
  inForce[e.tenant] = {period[e.tenant]} /\ Months(period[e.tenant]) # 0
    => e.day >= began - Span(period[e.tenant])

InForceNow == \A t \in Tenant : period[t] \in inForce[t]

\* What a cleaning has removed
RemovedRightly ==
  cpc = "clean" => \A e \in doomed : \E p \in inForce[e.tenant] : OutOf(e, p, today)

\* What a cleaning has left
LeftRightly ==
  /\ cpc = "clean" => ~ done
  /\ cpc = "clean" /\ ~ aborted =>
       \A e \in events \ doomed : e.tenant \notin todo => KeptRightly(e)
  /\ cpc = "select" /\ done => \A e \in events : KeptRightly(e)

Inv == TypeOK /\ InForceNow /\ RemovedRightly /\ LeftRightly

-----------------------------------------------------------------------------
(* Types                                                                   *)

\* Periods are numbers of months, and last a number of days.
LEMMA SpanType ==
  ASSUME NEW p \in Period
  PROVE  Months(p) \in Nat /\ Span(p) \in Nat
<1>1. Months(p) \in Nat
  BY StoreAssumption DEF Period, Months
<1> QED
  BY <1>1, StoreAssumption DEF Span

\* The store, the cleaner and the clock start with values of their types.
LEMMA InitType == Init => TypeOK
<1> SUFFICES ASSUME Init PROVE TypeOK
  OBVIOUS
<1>1. NoRow \in Period
  BY DEF Period
<1>2. period \in [Tenant -> Period] /\ inForce \in [Tenant -> SUBSET Period]
  BY <1>1 DEF Init
<1>3. today \in 1 .. MaxDays /\ began \in 0 .. today
  BY StoreAssumption DEF Init
<1>4. lastEvent \in 0 .. MaxEvents /\ sets \in 0 .. MaxSets /\ faults \in 0 .. MaxFaults
      /\ timer \in Nat
  BY StoreAssumption DEF Init
<1>5. events = {} /\ todo = {} /\ doomed = {} /\ main = "new" /\ cpc = "off"
      /\ aborted \in BOOLEAN /\ done \in BOOLEAN
  BY DEF Init
<1> QED
  BY <1>2, <1>3, <1>4, <1>5 DEF TypeOK

\* The clock, the events and the periods
LEMMA RowsType ==
  ASSUME TypeOK,
         \/ NextDay
         \/ \E t \in Tenant, c \in Code : CreateEvent(t, c)
         \/ \E t \in Tenant, p \in 0 .. MaxPeriod : SetPeriod(t, p)
  PROVE  TypeOK'
<1> USE StoreAssumption
<1>1. CASE NextDay
  BY <1>1 DEF TypeOK, NextDay, rowVars, cleanerVars
<1>2. ASSUME NEW t \in Tenant, NEW c \in Code, CreateEvent(t, c)
      PROVE  TypeOK'
  <2>1. NewEvent(t, c) \in Event /\ NewEvent(t, c).id = lastEvent + 1
    BY DEF TypeOK, NewEvent, Event
  <2>2. events' \subseteq Event /\ lastEvent' \in 0 .. MaxEvents
    BY <1>2, <2>1 DEF TypeOK, CreateEvent
  <2>3. \A e \in events' : e.id <= lastEvent'
    BY <1>2, <2>1 DEF TypeOK, CreateEvent, Event
  <2> QED
    BY <1>2, <2>2, <2>3 DEF TypeOK, CreateEvent, cleanerVars
<1>3. ASSUME NEW t \in Tenant, NEW p \in 0 .. MaxPeriod, SetPeriod(t, p)
      PROVE  TypeOK'
  <2>1. period' \in [Tenant -> Period]
    BY <1>3 DEF TypeOK, SetPeriod, Period
  <2>2. inForce' \in [Tenant -> SUBSET Period]
    BY <1>3 DEF TypeOK, SetPeriod, Period
  <2>3. sets' \in 0 .. MaxSets
    BY <1>3 DEF TypeOK, SetPeriod
  <2> QED
    BY <1>3, <2>1, <2>2, <2>3 DEF TypeOK, SetPeriod, rowVars, cleanerVars
<1> QED
  BY <1>1, <1>2, <1>3

\* main and the cleaner
LEMMA CleanerType ==
  ASSUME TypeOK, Start \/ Stop \/ Cleaner
  PROVE  TypeOK'
<1> USE StoreAssumption
<1>1. CASE Start
  BY <1>1 DEF TypeOK, Start, rowVars
<1>2. CASE Stop
  BY <1>2 DEF TypeOK, Stop, rowVars, cleanerVars
<1>3. CASE CleanBegin
  <2>1. inForce' \in [Tenant -> SUBSET Period]
    BY <1>3 DEF TypeOK, CleanBegin
  <2>2. began' \in 0 .. today'
    BY <1>3 DEF TypeOK, CleanBegin
  <2>3. cpc' = "clean" /\ main' = main /\ cpc = "begin"
    BY <1>3 DEF CleanBegin
  <2>4. aborted' \in BOOLEAN /\ done' \in BOOLEAN /\ todo' = Tenant /\ doomed' = {}
    BY <1>3 DEF CleanBegin
  <2>5. UNCHANGED <<today, events, lastEvent, period, sets, faults, timer>>
    BY <1>3 DEF CleanBegin, rowVars
  <2> QED
    BY <2>1, <2>2, <2>3, <2>4, <2>5 DEF TypeOK
<1>4. ASSUME NEW t \in todo, CleanTenant(t)
      PROVE  TypeOK'
  <2>1. doomed' \subseteq Event
    BY <1>4 DEF TypeOK, CleanTenant, Expired
  <2>2. aborted' \in BOOLEAN
    BY <1>4 DEF TypeOK, CleanTenant
  <2>3. faults' \in 0 .. MaxFaults
    BY <1>4 DEF TypeOK, CleanTenant, Fault
  <2>4. todo' \subseteq Tenant
    BY <1>4 DEF TypeOK, CleanTenant
  <2>5. UNCHANGED <<today, events, lastEvent, period, sets, main, cpc, timer, began, done,
                    inForce>>
    BY <1>4 DEF CleanTenant, rowVars
  <2> QED
    BY <2>1, <2>2, <2>3, <2>4, <2>5 DEF TypeOK
<1>5. CASE CleanEnd
  <2>1. events' \subseteq events
    BY <1>5 DEF CleanEnd
  <2>2. done' \in BOOLEAN
    BY <1>5 DEF TypeOK, CleanEnd
  <2>3. faults' \in 0 .. MaxFaults /\ timer' \in Nat
    BY <1>5 DEF TypeOK, CleanEnd, Fault
  <2>4. cpc' = "select" /\ cpc = "clean"
    BY <1>5 DEF CleanEnd
  <2>5. UNCHANGED <<today, lastEvent, period, sets, main, todo, doomed, aborted, began, inForce>>
    BY <1>5 DEF CleanEnd
  <2> QED
    BY <2>1, <2>2, <2>3, <2>4, <2>5 DEF TypeOK
<1>6. CASE CleanRetry
  BY <1>6 DEF TypeOK, CleanRetry, Fault, rowVars
<1>7. CASE Midnight
  BY <1>7 DEF TypeOK, Midnight, rowVars
<1>8. CASE Stopped
  BY <1>8 DEF TypeOK, Stopped, rowVars
<1> QED
  BY <1>1, <1>2, <1>3, <1>4, <1>5, <1>6, <1>7, <1>8 DEF Cleaner

\* Every step keeps the types.
LEMMA NextType == TypeOK /\ [Next]_vars => TypeOK'
<1>1. TypeOK /\ UNCHANGED vars => TypeOK'
  BY DEF TypeOK, vars, rowVars, cleanerVars
<1> QED
  BY <1>1, RowsType, CleanerType DEF Next

-----------------------------------------------------------------------------
(* The invariant                                                           *)

\* The inductive invariant holds when the service starts.
LEMMA InitInv == Init => Inv
  BY InitType DEF Init, Inv, InForceNow, RemovedRightly, LeftRightly

\* Nobody but the clock: what was expired stays so.
LEMMA NextDayInv ==
  ASSUME Inv, NextDay
  PROVE  Inv'
<1>1. TypeOK'
  BY RowsType DEF Inv
<1>2. InForceNow'
  BY DEF Inv, InForceNow, NextDay
<1>3. RemovedRightly'
  <2> SUFFICES ASSUME cpc = "clean", NEW e \in doomed
               PROVE  \E p \in inForce[e.tenant] : OutOf(e, p, today')
    BY DEF RemovedRightly, NextDay, cleanerVars
  <2>1. PICK p \in inForce[e.tenant] : OutOf(e, p, today)
    BY DEF Inv, RemovedRightly
  <2>2. e \in Event /\ p \in Period /\ today \in Nat
    BY StoreAssumption DEF Inv, TypeOK, Event
  <2>3. Span(p) \in Nat /\ e.day \in Nat
    BY <2>2, SpanType DEF Event
  <2> QED
    BY <2>1, <2>2, <2>3 DEF OutOf, NextDay
<1>4. LeftRightly'
  BY DEF Inv, LeftRightly, KeptRightly, NextDay, rowVars, cleanerVars
<1> QED
  BY <1>1, <1>2, <1>3, <1>4 DEF Inv

\* An event that is new was not there when the cleaning began.
LEMMA CreateEventInv ==
  ASSUME Inv, NEW t \in Tenant, NEW c \in Code, CreateEvent(t, c)
  PROVE  Inv'
<1>1. TypeOK'
  BY RowsType DEF Inv
<1>2. InForceNow' /\ RemovedRightly'
  BY DEF Inv, InForceNow, RemovedRightly, CreateEvent, cleanerVars
<1>3. \A e : e = NewEvent(t, c) => KeptRightly(e)'
  <2>1. period[t] \in Period /\ began \in Nat /\ today \in Nat /\ began <= today
    BY StoreAssumption DEF Inv, TypeOK
  <2>2. Span(period[t]) \in Nat
    BY <2>1, SpanType
  <2>3. today >= began - Span(period[t])
    BY <2>1, <2>2
  <2> QED
    BY <2>3 DEF KeptRightly, NewEvent, CreateEvent, cleanerVars
<1>4. \A e \in events : KeptRightly(e)' <=> KeptRightly(e)
  BY DEF KeptRightly, CreateEvent, cleanerVars
<1>5. LeftRightly'
  <2>1. events' = events \cup {NewEvent(t, c)}
    BY DEF CreateEvent
  <2>2. \A e \in events' : e \in events \/ KeptRightly(e)'
    BY <1>3, <2>1
  <2> QED
    BY <1>4, <2>2 DEF Inv, LeftRightly, CreateEvent, cleanerVars
<1> QED
  BY <1>1, <1>2, <1>5 DEF Inv

\* A period that is changed is no longer the only one in force.
LEMMA SetPeriodInv ==
  ASSUME Inv, NEW t \in Tenant, NEW p \in 0 .. MaxPeriod, SetPeriod(t, p)
  PROVE  Inv'
<1>1. TypeOK'
  BY RowsType DEF Inv
<1>2. /\ \A s \in Tenant : inForce[s] \subseteq inForce'[s]
      /\ \A s \in Tenant : inForce'[s] = {period'[s]} => period'[s] = period[s]
      /\ \A s \in Tenant : inForce'[s] = {period'[s]} => inForce[s] = {period[s]}
      /\ InForceNow'
  BY DEF Inv, TypeOK, InForceNow, SetPeriod
<1>3. RemovedRightly'
  <2> SUFFICES ASSUME cpc = "clean", NEW e \in doomed
               PROVE  \E q \in inForce'[e.tenant] : OutOf(e, q, today)
    BY DEF RemovedRightly, SetPeriod, cleanerVars
  <2>1. e.tenant \in Tenant
    BY DEF Inv, TypeOK, Event
  <2> QED
    BY <1>2, <2>1 DEF Inv, RemovedRightly
<1>4. \A e \in events : KeptRightly(e) => KeptRightly(e)'
  <2> SUFFICES ASSUME NEW e \in events, KeptRightly(e)
               PROVE  KeptRightly(e)'
    OBVIOUS
  <2>1. e.tenant \in Tenant
    BY DEF Inv, TypeOK, Event
  <2> QED
    BY <1>2, <2>1 DEF KeptRightly, SetPeriod, cleanerVars
<1>5. LeftRightly'
  BY <1>4 DEF Inv, LeftRightly, SetPeriod, rowVars, cleanerVars
<1> QED
  BY <1>1, <1>2, <1>3, <1>5 DEF Inv

\* One tenant is cleaned: what is expired today was expired when the cleaning began.
LEMMA CleanTenantInv ==
  ASSUME Inv, NEW t \in todo, CleanTenant(t)
  PROVE  Inv'
<1> USE DEF rowVars
<1>1. TypeOK'
  BY CleanerType DEF Inv, Cleaner
<1>2. InForceNow'
  BY DEF Inv, InForceNow, CleanTenant
<1>3. t \in Tenant /\ period[t] \in Period /\ period[t] \in inForce[t]
  BY DEF Inv, TypeOK, InForceNow
<1>4. doomed' \in {doomed, doomed \cup Expired(t)}
  BY DEF CleanTenant
<1>5. \A e \in Expired(t) : e.tenant = t /\ OutOf(e, period[t], today)
  BY DEF Expired, OutOf, Span
<1>6. RemovedRightly'
  BY <1>3, <1>4, <1>5 DEF Inv, RemovedRightly, CleanTenant
<1>7. \A e \in events \ Expired(t) : e.tenant = t => KeptRightly(e)
  <2> SUFFICES ASSUME NEW e \in events \ Expired(t), e.tenant = t, Months(period[t]) # 0
               PROVE  e.day >= began - Span(period[t])
    BY DEF KeptRightly
  <2>1. ~ (e.day < today - Span(period[t]))
    BY DEF Expired, Span
  <2>2. e.day \in Nat /\ began \in Nat /\ today \in Nat /\ began <= today
    BY StoreAssumption DEF Inv, TypeOK, Event
  <2>3. Span(period[t]) \in Nat
    BY <1>3, SpanType
  <2> HIDE DEF Span
  <2> QED
    BY <2>1, <2>2, <2>3
<1>8. \A e \in events : KeptRightly(e)' <=> KeptRightly(e)
  BY DEF KeptRightly, CleanTenant
<1>9. LeftRightly'
  <2>1. cpc' = "clean" /\ cpc = "clean" /\ done' = done /\ events' = events
    BY DEF CleanTenant
  <2>2. ASSUME ~ aborted', NEW e \in events, e \notin doomed', e.tenant \notin todo'
        PROVE  KeptRightly(e)
    <3>1. ~ aborted /\ doomed' = doomed \cup Expired(t) /\ todo' = todo \ {t}
      BY <2>2 DEF CleanTenant, Inv, TypeOK
    <3>2. CASE e.tenant = t
      BY <1>7, <2>2, <3>1, <3>2
    <3>3. CASE e.tenant # t
      BY <2>1, <2>2, <3>1, <3>3 DEF Inv, LeftRightly
    <3> QED
      BY <3>2, <3>3
  <2> QED
    BY <1>8, <2>1, <2>2 DEF Inv, LeftRightly
<1> QED
  BY <1>1, <1>2, <1>6, <1>9 DEF Inv

\* The cleaning ends: when it is committed, it was done with all tenants.
LEMMA CleanEndInv ==
  ASSUME Inv, CleanEnd
  PROVE  Inv'
<1>1. TypeOK'
  BY CleanerType DEF Inv, Cleaner
<1>2. InForceNow' /\ RemovedRightly'
  BY DEF Inv, InForceNow, RemovedRightly, CleanEnd
<1>3. \A e \in events : KeptRightly(e)' <=> KeptRightly(e)
  BY DEF KeptRightly, CleanEnd
<1>4. LeftRightly'
  <2>1. cpc = "clean" /\ ~ done /\ todo = {} /\ cpc' = "select"
    BY DEF Inv, LeftRightly, CleanEnd
  <2>2. CASE done'
    <3>1. ~ aborted /\ events' = events \ doomed
      BY <2>1, <2>2 DEF CleanEnd, Inv, TypeOK
    <3> QED
      BY <1>3, <2>1, <3>1 DEF Inv, LeftRightly
  <2>3. CASE ~ done'
    BY <2>1, <2>3 DEF LeftRightly
  <2> QED
    BY <2>2, <2>3
<1> QED
  BY <1>1, <1>2, <1>4 DEF Inv

\* The other steps of main and the cleaner
LEMMA OtherInv ==
  ASSUME Inv, Start \/ Stop \/ CleanBegin \/ CleanRetry \/ Midnight \/ Stopped
  PROVE  Inv'
<1> USE DEF rowVars, cleanerVars
<1>1. TypeOK'
  BY CleanerType DEF Inv, Cleaner
<1>2. InForceNow'
  BY DEF Inv, TypeOK, InForceNow, Start, Stop, CleanBegin, CleanRetry, Midnight, Stopped
<1>3. CASE CleanBegin
  <2>1. cpc' = "clean" /\ doomed' = {} /\ todo' = Tenant /\ done' = FALSE /\ events' = events
    BY <1>3 DEF CleanBegin
  <2>2. \A e \in events : e.tenant \in Tenant
    BY DEF Inv, TypeOK, Event
  <2>3. RemovedRightly' /\ LeftRightly'
    BY <2>1, <2>2 DEF RemovedRightly, LeftRightly
  <2> QED
    BY <1>1, <1>2, <2>3 DEF Inv
<1>4. CASE Start \/ CleanRetry \/ Midnight \/ Stopped
  <2>1. cpc' \notin {"clean", "select"}
    BY <1>4 DEF Start, CleanRetry, Midnight, Stopped
  <2> QED
    BY <1>1, <1>2, <2>1 DEF Inv, RemovedRightly, LeftRightly
<1>5. CASE Stop
  BY <1>1, <1>2, <1>5 DEF Inv, RemovedRightly, LeftRightly, KeptRightly, Stop
<1> QED
  BY <1>3, <1>4, <1>5

\* Every step keeps the invariant.
LEMMA NextInv == Inv /\ [Next]_vars => Inv'
<1> SUFFICES ASSUME Inv, [Next]_vars PROVE Inv'
  OBVIOUS
<1>1. CASE UNCHANGED vars
  <2>1. TypeOK'
    BY NextType DEF Inv
  <2> QED
    BY <1>1, <2>1 DEF Inv, InForceNow, RemovedRightly, LeftRightly, KeptRightly, vars, rowVars,
                      cleanerVars
<1>2. CASE Next
  BY <1>2, NextDayInv, CreateEventInv, SetPeriodInv, CleanTenantInv, CleanEndInv, OtherInv
     DEF Next, Cleaner
<1> QED
  BY <1>1, <1>2

\* The inductive invariant holds in every state.
LEMMA SpecInv == Spec => []Inv
<1> QED
  BY InitInv, NextInv, PTL DEF Spec

-----------------------------------------------------------------------------
(* The theorems                                                            *)

\* Types, and the cleaner runs from Start until Stop returns.
THEOREM TypeCorrect == Spec => []TypeOK
<1>1. Inv => TypeOK
  BY DEF Inv
<1> QED
  BY <1>1, SpecInv, PTL

\* A cleaning that was committed has left nothing that was expired when it began.
THEOREM CleansInTime == Spec => []CleanedInTime
<1>1. Inv => CleanedInTime
  BY DEF Inv, LeftRightly, KeptRightly, CleanedInTime, Span
<1> QED
  BY <1>1, SpecInv, PTL

\* No event is removed whose period, in force while the cleaning was under way, had
\* not passed.
THEOREM CleansNothingEarly == Spec => NothingCleanedEarly
<1>1. ASSUME Inv, [Next]_vars, NEW e \in events \ events'
      PROVE  \E p \in inForce[e.tenant] : Months(p) # 0 /\ e.day < today - Months(p) * Month
  <2>1. CleanEnd
    BY <1>1 DEF Next, Cleaner, NextDay, CreateEvent, SetPeriod, Start, Stop, CleanBegin,
                CleanTenant, CleanRetry, Midnight, Stopped, vars, rowVars
  <2>2. cpc = "clean" /\ e \in doomed
    BY <1>1, <2>1 DEF CleanEnd
  <2> QED
    BY <1>1, <2>2 DEF Inv, RemovedRightly, OutOf, Span
<1>2. Inv /\ [Next]_vars
        => [\A e \in events \ events' :
              \E p \in inForce[e.tenant] : Months(p) # 0 /\ e.day < today - Months(p) * Month]_vars
  BY <1>1
<1> QED
  BY <1>2, SpecInv, PTL DEF Spec, NothingCleanedEarly

-----------------------------------------------------------------------------
(* Ranks and pages                                                         *)

\* What comes before an element leaves out the element itself: its rank is
\* below the number of elements.
LEMMA RankBounded ==
  ASSUME NEW U, IsFiniteSet(U), NEW e \in U, NEW before \in SUBSET (U \ {e})
  PROVE  /\ Cardinality(U) \in Nat
         /\ Cardinality(before) \in 0 .. (Cardinality(U) - 1)
<1>1. IsFiniteSet(U \ {e}) /\ Cardinality(U \ {e}) = Cardinality(U) - 1
  BY FS_RemoveElement
<1>2. IsFiniteSet(before) /\ Cardinality(before) <= Cardinality(U \ {e})
  BY <1>1, FS_Subset
<1>3. Cardinality(before) \in Nat /\ Cardinality(U) \in Nat
  BY <1>2, FS_CardinalityType
<1> QED
  BY <1>1, <1>2, <1>3

\* When ranks are different, there is an element of every rank, ...
LEMMA RankTaken ==
  ASSUME NEW U, IsFiniteSet(U), NEW rank \in [U -> 0 .. (Cardinality(U) - 1)],
         \A e, f \in U : rank[e] = rank[f] => e = f,
         NEW k \in 0 .. (Cardinality(U) - 1)
  PROVE  \E e \in U : rank[e] = k
<1> DEFINE n == Cardinality(U)
           T == 0 .. (n - 1)
<1>1. n \in Nat
  BY FS_CardinalityType
<1>2. IsFiniteSet(T) /\ Cardinality(T) = n
  <2> DEFINE m == n - 1
  <2>1. m \in Int /\ 0 \in Int
    BY <1>1
  <2> HIDE DEF m
  <2>2. IsFiniteSet(0 .. m) /\ Cardinality(0 .. m) = IF 0 > m THEN 0 ELSE m - 0 + 1
    BY <2>1, FS_Interval
  <2> QED
    BY <1>1, <2>2 DEF m
<1>3. rank \in Injection(U, T)
  BY DEF Injection, IsInjective
<1>4. rank \in Surjection(U, T)
  BY <1>2, <1>3, FS_Injection
<1> QED
  BY <1>4 DEF Surjection

\* ... and no more elements than ranks.
LEMMA RanksApart ==
  ASSUME NEW U, NEW rank \in [U -> Nat], \A e, f \in U : rank[e] = rank[f] => e = f,
         NEW k \in Nat, NEW m \in Nat,
         NEW P \in SUBSET U, \A e \in P : rank[e] \in k .. (k + m - 1)
  PROVE  IsFiniteSet(P) /\ Cardinality(P) \in 0 .. m
<1> DEFINE T == k .. (k + m - 1)
           g == [e \in P |-> rank[e]]
<1>1. IsFiniteSet(T) /\ Cardinality(T) = m
  <2>1. IsFiniteSet(T) /\ Cardinality(T) = IF k > k + m - 1 THEN 0 ELSE (k + m - 1) - k + 1
    BY FS_Interval
  <2> QED
    BY <2>1
<1>2. g \in Injection(P, T)
  BY DEF Injection, IsInjective
<1>3. IsFiniteSet(P) /\ Cardinality(P) <= Cardinality(T)
  BY <1>1, <1>2, FS_Injection
<1> QED
  BY <1>1, <1>3, FS_CardinalityType

\* The number of the page that a rank is on
PageOf(rank, limit) == rank \div limit + 1

\* The number of pages of n elements
PagesOf(n, limit) == (n + limit - 1) \div limit

\* Division
LEMMA Quotient ==
  ASSUME NEW a \in Nat, NEW b \in Nat \ {0}
  PROVE  a \div b \in Nat /\ b * (a \div b) <= a /\ a < b * (a \div b) + b
  OBVIOUS

\* A quotient is determined by its bounds.
LEMMA QuotientUnique ==
  ASSUME NEW a \in Int, NEW b \in Nat \ {0}, NEW p \in Int, NEW q \in Int,
         b * p <= a, a < b * p + b, b * q <= a, a < b * q + b
  PROVE  p = q
<1>1. CASE p < q
  <2>1. b * (p + 1) <= b * q
    BY <1>1
  <2>2. b * (p + 1) = b * p + b
    OBVIOUS
  <2> QED
    BY <2>1, <2>2
<1>2. CASE q < p
  <2>1. b * (q + 1) <= b * p
    BY <1>2
  <2>2. b * (q + 1) = b * q + b
    OBVIOUS
  <2> QED
    BY <2>1, <2>2
<1> QED
  BY <1>1, <1>2

\* Every rank is on one of the pages, and on that one only.
LEMMA OnePage ==
  ASSUME NEW n \in Nat, NEW limit \in Nat \ {0}, NEW rank \in 0 .. (n - 1)
  PROVE  /\ PageOf(rank, limit) \in 1 .. PagesOf(n, limit)
         /\ \A i \in Nat \ {0} :
              rank \in ((i - 1) * limit) .. ((i - 1) * limit + limit - 1)
                <=> i = PageOf(rank, limit)
<1> DEFINE q == rank \div limit
           m == (n + limit - 1) \div limit
<1>1. q \in Nat /\ limit * q <= rank /\ rank < limit * q + limit
  BY Quotient
<1>2. m \in Nat /\ limit * m <= n + limit - 1 /\ n + limit - 1 < limit * m + limit
  BY Quotient
<1> HIDE DEF q, m
<1>3. q + 1 <= m
  <2>1. CASE m <= q
    <3>1. limit * m <= limit * q
      BY <1>1, <1>2, <2>1
    <3> QED
      BY <1>1, <1>2, <3>1
  <2> QED
    BY <1>1, <1>2, <2>1
<1>4. PageOf(rank, limit) = q + 1 /\ PagesOf(n, limit) = m
  BY DEF PageOf, PagesOf, q, m
<1>5. ASSUME NEW i \in Nat \ {0}
      PROVE  rank \in ((i - 1) * limit) .. ((i - 1) * limit + limit - 1) <=> i = q + 1
  <2> DEFINE j == i - 1
  <2>1. j \in Nat /\ (i = q + 1 <=> j = q)
    BY <1>1
  <2>2. j * limit = limit * j /\ j * limit \in Nat
    BY <2>1
  <2> HIDE DEF j
  <2>3. ASSUME rank \in (j * limit) .. (j * limit + limit - 1)
        PROVE  j = q
    BY <1>1, <2>1, <2>2, <2>3, QuotientUnique
  <2>4. ASSUME j = q
        PROVE  rank \in (j * limit) .. (j * limit + limit - 1)
    BY <1>1, <2>1, <2>2, <2>4
  <2> QED
    BY <2>1, <2>3, <2>4 DEF j
<1> QED
  BY <1>1, <1>2, <1>3, <1>4, <1>5

\* A page begins below the number of elements, and its offset is its number.
LEMMA PageBegins ==
  ASSUME NEW n \in Nat, NEW limit \in Nat \ {0}, NEW i \in 1 .. PagesOf(n, limit)
  PROVE  /\ (i - 1) * limit \in 0 .. (n - 1)
         /\ PageOf((i - 1) * limit, limit) = i
<1> DEFINE m == (n + limit - 1) \div limit
           j == i - 1
<1>1. m \in Nat /\ limit * m <= n + limit - 1
  BY Quotient
<1>2. j \in Nat /\ j + 1 <= m /\ i = j + 1
  BY <1>1 DEF PagesOf
<1> HIDE DEF m, j
<1>3. limit * (j + 1) <= limit * m
  BY <1>1, <1>2
<1>4. limit * (j + 1) = limit * j + limit /\ limit * j \in Nat /\ j * limit = limit * j
  BY <1>2
<1>5. j * limit \in 0 .. (n - 1)
  BY <1>1, <1>3, <1>4
<1>6. (j * limit) \div limit = j
  <2> DEFINE a == j * limit
             q == a \div limit
  <2>1. a \in Nat /\ q \in Nat /\ limit * q <= a /\ a < limit * q + limit
    BY <1>4, Quotient
  <2>2. a = limit * j
    BY <1>4
  <2> HIDE DEF a, q
  <2>3. limit * j <= a /\ a < limit * j + limit
    BY <1>4, <2>1, <2>2
  <2>4. q = j
    BY <1>2, <2>1, <2>3, QuotientUnique
  <2> QED
    BY <2>4 DEF q, a
<1> QED
  BY <1>2, <1>5, <1>6 DEF PageOf, j

-----------------------------------------------------------------------------
(* The stored events                                                       *)

\* Identifiers are given once, and there are finitely many events.
EventsDistinct ==
  /\ IsFiniteSet(events)
  /\ \A e, f \in events : e.id = f.id => e = f

\* Every step keeps this.
LEMMA DistinctStep ==
  ASSUME TypeOK, EventsDistinct, [Next]_vars
  PROVE  EventsDistinct'
<1>1. ASSUME NEW t \in Tenant, NEW c \in Code, CreateEvent(t, c)
      PROVE  EventsDistinct'
  <2> DEFINE new == NewEvent(t, c)
  <2>1. events' = events \cup {new} /\ new.id = lastEvent + 1
    BY <1>1 DEF CreateEvent, NewEvent
  <2> HIDE DEF new
  <2>2. IsFiniteSet(events')
    BY <2>1, FS_AddElement DEF EventsDistinct
  <2>3. \A e \in events : e.id # new.id
    BY <2>1 DEF TypeOK, Event
  <2> QED
    BY <2>1, <2>2, <2>3 DEF EventsDistinct
<1>2. CASE CleanEnd
  <2>1. events' \in SUBSET events
    BY <1>2 DEF CleanEnd
  <2>2. IsFiniteSet(events')
    BY <2>1, FS_Subset DEF EventsDistinct
  <2> QED
    BY <2>1, <2>2 DEF EventsDistinct
<1>3. CASE UNCHANGED events
  BY <1>3 DEF EventsDistinct
<1> QED
  BY <1>1, <1>2, <1>3
     DEF Next, NextDay, SetPeriod, Start, Stop, Cleaner, CleanBegin, CleanTenant, CleanRetry,
         Midnight, Stopped, rowVars, vars

\* So it always holds.
LEMMA SpecDistinct == Spec => [](TypeOK /\ EventsDistinct)
<1>1. Init => EventsDistinct
  BY FS_EmptySet DEF Init, EventsDistinct
<1>2. TypeOK /\ EventsDistinct /\ [Next]_vars => EventsDistinct'
  BY DistinctStep
<1> QED
  BY <1>1, <1>2, InitType, NextType, PTL DEF Spec

-----------------------------------------------------------------------------
(* Reading page by page                                                    *)

\* The rows that a query counts
LEMMA MatchingFinite ==
  ASSUME TypeOK, EventsDistinct, NEW t, NEW in
  PROVE  /\ Matching(t, in) \subseteq events
         /\ IsFiniteSet(Matching(t, in)) /\ Cardinality(Matching(t, in)) \in Nat
         /\ Cardinality(Matching(t, in)) = 0 <=> Matching(t, in) = {}
<1>1. Matching(t, in) \in SUBSET events
  BY DEF Matching
<1>2. IsFiniteSet(Matching(t, in))
  BY <1>1, FS_Subset DEF EventsDistinct
<1> QED
  BY <1>1, <1>2, FS_CardinalityType, FS_EmptySet

\* The order of the results is total.
LEMMA NewerOrder ==
  ASSUME TypeOK, EventsDistinct
  PROVE  /\ \A e \in events : ~ Newer(e, e)
         /\ \A e, f \in events : e = f \/ Newer(e, f) \/ Newer(f, e)
         /\ \A e, f, g \in events : Newer(e, f) /\ Newer(f, g) => Newer(e, g)
<1>1. \A e \in events : e.id \in Nat /\ e.day \in Nat
  BY DEF TypeOK, Event
<1>2. \A e, f \in events : e.id = f.id => e = f
  BY DEF EventsDistinct
<1> QED
  BY <1>1, <1>2 DEF Newer

\* The ranks of the results are different, and below their number.
LEMMA RanksOfResults ==
  ASSUME TypeOK, EventsDistinct, NEW t, NEW in
  PROVE  LET M == Matching(t, in)
         IN  /\ \A e \in M : Rank(e, t, in) \in 0 .. (Cardinality(M) - 1)
             /\ \A e, f \in M : Rank(e, t, in) = Rank(f, t, in) => e = f
<1> DEFINE M == Matching(t, in)
           Before(e) == {f \in M : Newer(f, e)}
<1>0. \A e : Rank(e, t, in) = Cardinality(Before(e))
  BY DEF Rank
<1>1. M \subseteq events /\ IsFiniteSet(M)
  BY MatchingFinite
<1> HIDE DEF M
<1>2. ASSUME NEW e \in M
      PROVE  Rank(e, t, in) \in 0 .. (Cardinality(M) - 1)
  <2>1. Before(e) \in SUBSET (M \ {e})
    BY <1>1, NewerOrder
  <2>2. Cardinality(Before(e)) \in 0 .. (Cardinality(M) - 1)
    BY <1>1, <2>1, RankBounded
  <2> QED
    BY <1>0, <2>2
<1>3. ASSUME NEW e \in M, NEW f \in M, Newer(f, e)
      PROVE  Rank(e, t, in) # Rank(f, t, in)
  <2>1. Before(f) \in SUBSET Before(e) /\ f \in Before(e) /\ f \notin Before(f)
    BY <1>1, <1>3, NewerOrder
  <2>2. Before(e) \in SUBSET M
    OBVIOUS
  <2>3. IsFiniteSet(Before(e))
    BY <1>1, <2>2, FS_Subset
  <2>4. Cardinality(Before(e)) = Cardinality(Before(f)) => Before(e) = Before(f)
    BY <2>1, <2>3, FS_Subset
  <2>5. Cardinality(Before(e)) # Cardinality(Before(f))
    BY <2>1, <2>4
  <2> QED
    BY <1>0, <2>5
<1>4. ASSUME NEW e \in M, NEW f \in M, Rank(e, t, in) = Rank(f, t, in)
      PROVE  e = f
  BY <1>1, <1>3, <1>4, NewerOrder
<1> QED
  BY <1>2, <1>4 DEF M

\* A limit within bounds is used as it is.
LEMMA LimitWithin ==
  ASSUME NEW limit \in MinLimit .. MaxLimit
  PROVE  limit \in Nat \ {0} /\ Limit(limit) = limit
  BY StoreAssumption DEF Limit

\* A page holds the results whose rank is on it: at least one, and no more than the
\* limit.
LEMMA PageOfResults ==
  ASSUME TypeOK, EventsDistinct, NEW t, NEW in, NEW limit \in MinLimit .. MaxLimit,
         NEW i \in 1 .. PagesOf(Cardinality(Matching(t, in)), limit)
  PROVE  /\ GetEvents(t, in, limit, (i - 1) * limit)
              = {e \in Matching(t, in) : PageOf(Rank(e, t, in), limit) = i}
         /\ Cardinality(GetEvents(t, in, limit, (i - 1) * limit)) \in 1 .. limit
<1> DEFINE M == Matching(t, in)
           n == Cardinality(M)
           rank == [e \in M |-> Rank(e, t, in)]
           P == GetEvents(t, in, limit, (i - 1) * limit)
           k == (i - 1) * limit
<1>1. limit \in Nat \ {0} /\ Limit(limit) = limit
  BY LimitWithin
<1>2. IsFiniteSet(M) /\ n \in Nat
  BY MatchingFinite
<1>3. /\ \A e \in M : rank[e] \in 0 .. (n - 1) /\ rank[e] = Rank(e, t, in)
      /\ \A e, f \in M : rank[e] = rank[f] => e = f
  BY RanksOfResults
<1>4. rank \in [M -> 0 .. (n - 1)]
  BY <1>3
<1>5. k \in 0 .. (n - 1)
  BY <1>1, <1>2, PageBegins
<1>6. P = {e \in M : Rank(e, t, in) \in k .. (k + limit - 1)}
  BY <1>1 DEF GetEvents
<1>7. i \in Nat \ {0}
  <2>1. PagesOf(n, limit) \in Int
    <3>1. n + limit - 1 \in Nat
      BY <1>1, <1>2
    <3> QED
      BY <1>1, <3>1, Quotient DEF PagesOf
  <2> QED
    BY <2>1
<1> HIDE DEF rank
<1>8. \A e \in M : rank[e] \in k .. (k + limit - 1) <=> i = PageOf(rank[e], limit)
  BY <1>1, <1>2, <1>3, <1>7, OnePage
<1> HIDE DEF M, n, P, k
<1>9. P = {e \in M : PageOf(Rank(e, t, in), limit) = i}
  BY <1>3, <1>6, <1>8
<1>10. IsFiniteSet(P) /\ Cardinality(P) \in 0 .. limit
  <2>1. rank \in [M -> Nat]
    BY <1>2, <1>4
  <2>2. P \in SUBSET M /\ \A e \in P : rank[e] \in k .. (k + limit - 1)
    BY <1>3, <1>6
  <2>3. k \in Nat /\ limit \in Nat
    BY <1>1, <1>2, <1>5
  <2> QED
    BY <1>3, <2>1, <2>2, <2>3, RanksApart
<1>11. P # {}
  <2>1. PICK e \in M : rank[e] = k
    BY <1>2, <1>3, <1>4, <1>5, RankTaken DEF n
  <2>2. k \in k .. (k + limit - 1)
    BY <1>1, <1>2, <1>5
  <2> QED
    BY <1>3, <1>6, <2>1, <2>2
<1>12. Cardinality(P) # 0
  BY <1>10, <1>11, FS_EmptySet
<1> QED
  BY <1>1, <1>9, <1>10, <1>12 DEF P, M, k

\* Every result is on a page, and no page has anything else.
LEMMA PagesOfResults ==
  ASSUME TypeOK, EventsDistinct, NEW t, NEW in, NEW limit \in MinLimit .. MaxLimit
  PROVE  UNION {GetEvents(t, in, limit, (i - 1) * limit) :
                  i \in 1 .. PagesOf(Cardinality(Matching(t, in)), limit)}
           = Matching(t, in)
<1> DEFINE M == Matching(t, in)
           n == Cardinality(M)
           pages == 1 .. PagesOf(n, limit)
           Page(i) == GetEvents(t, in, limit, (i - 1) * limit)
<1>1. limit \in Nat \ {0} /\ n \in Nat
  BY LimitWithin, MatchingFinite
<1>2. \A i \in pages : Page(i) = {e \in M : PageOf(Rank(e, t, in), limit) = i}
  BY PageOfResults
<1>3. \A e \in M : PageOf(Rank(e, t, in), limit) \in pages
  BY <1>1, RanksOfResults, OnePage
<1> HIDE DEF M, pages, Page
<1>4. UNION {Page(i) : i \in pages} = M
  BY <1>2, <1>3
<1> QED
  BY <1>4 DEF Page, pages, n, M

\* An event is found by its identifier, in its own tenant only.
LEMMA EventFound ==
  ASSUME TypeOK, EventsDistinct, NEW r, NEW e \in events
  PROVE  AnswerEvent(r, e.id) = {f \in {e} : f.tenant = r.tenant /\ checkAuthorization(r.roles)}
<1>1. e.id # 0
  BY DEF TypeOK, Event
<1>2. GetEvent(e.id, r.tenant) = {f \in {e} : f.tenant = r.tenant}
  BY <1>1 DEF GetEvent, EventsDistinct
<1> QED
  BY <1>2 DEF AnswerEvent

\* What an answer is
LEMMA AnswerCases ==
  ASSUME NEW r, NEW in, NEW limit, NEW offset
  PROVE  LET n == Cardinality(Matching(r.tenant, in))
             good == /\ checkAuthorization(r.roles) /\ validateGetEventsParams(in)
                     /\ getValidDate(in)
             a == AnswerEvents(r, in, limit, offset)
         IN  /\ good /\ n # 0 =>
                  /\ a.status = "ok" /\ a.events = GetEvents(r.tenant, in, limit, offset)
                  /\ a.pagination = pagination(n, limit, offset)
             /\ good /\ n = 0 => a = Refused("no_content")
             /\ ~ good => \E s \in {"unknown_user", "invalid_parameter"} : a = Refused(s)
  BY DEF AnswerEvents

\* What a request within the dates asks for
LEMMA MatchingDates ==
  ASSUME TypeOK, NEW t, NEW in \in EventsRequest, getValidDate(in)
  PROVE  Matching(t, in) = {e \in events : /\ e.tenant = t
                                           /\ Matches(e.code, in)
                                           /\ e.day >= in.start
                                           /\ in.end # 0 => e.day <= in.end}
<1>1. in.start \in Nat
  BY StoreAssumption DEF getValidDate
<1>2. \A e \in events : e.day \in Nat \ {0}
  BY DEF TypeOK, Event
<1>3. \A e \in events : (in.start # 0 => e.day >= in.start) <=> e.day >= in.start
  BY <1>1, <1>2
<1> QED
  BY <1>3 DEF Matching

\* The pages of an answer that is refused: there are none.
LEMMA NoPages == 1 .. NoPage.total = {}
  BY DEF NoPage

\* Going through the pages of GetEvents shows every event of the tenant that the
\* request asks for on exactly one page, for any number of events and any limit
\* within bounds: the order is total, as no two events have the same identifier,
\* so offsets that are multiples of the limit cut the result into pages.
THEOREM PagesShowAll == Spec => []PagesComplete
<1>1. ASSUME TypeOK, EventsDistinct
      PROVE  PagesComplete
  <2> SUFFICES ASSUME NEW r \in Reader, NEW in \in EventsRequest,
                      NEW limit \in MinLimit .. MaxLimit
               PROVE  LET first == AnswerEvents(r, in, limit, 0)
                          pages == 1 .. first.pagination.total
                          page == [i \in pages |-> AnswerEvents(r, in, limit, (i - 1) * limit)]
                          shown == UNION {page[i].events : i \in pages}
                      IN  /\ \A i \in pages :
                               /\ page[i].status = "ok"
                               /\ Cardinality(page[i].events) \in 1 .. limit
                               /\ page[i].pagination = [first.pagination EXCEPT !.page = i]
                               /\ \A j \in pages \ {i} : page[i].events \cap page[j].events = {}
                          /\ first.status \in {"ok", "no_content"} =>
                               shown = {e \in events : /\ AnswerEvent(r, e.id) = {e}
                                                       /\ Matches(e.code, in)
                                                       /\ e.day >= in.start
                                                       /\ in.end # 0 => e.day <= in.end}
                          /\ ~ checkAuthorization(r.roles) => shown = {}
    BY <1>1, EventFound DEF PagesComplete
  <2> DEFINE first == AnswerEvents(r, in, limit, 0)
             pages == 1 .. first.pagination.total
             page == [i \in pages |-> AnswerEvents(r, in, limit, (i - 1) * limit)]
             shown == UNION {page[i].events : i \in pages}
             asked == {e \in events : /\ AnswerEvent(r, e.id) = {e}
                                      /\ Matches(e.code, in)
                                      /\ e.day >= in.start
                                      /\ in.end # 0 => e.day <= in.end}
             M == Matching(r.tenant, in)
             n == Cardinality(M)
             good == /\ checkAuthorization(r.roles) /\ validateGetEventsParams(in)
                     /\ getValidDate(in)
             Page(i) == GetEvents(r.tenant, in, limit, (i - 1) * limit)
  <2>1. limit \in Nat \ {0} /\ n \in Nat /\ (n = 0 <=> M = {})
    BY <1>1, LimitWithin, MatchingFinite
  <2>2. ASSUME good
        PROVE  asked = M
    <3>1. \A e \in events : AnswerEvent(r, e.id) = {e} <=> e.tenant = r.tenant
      BY <1>1, <2>2, EventFound
    <3>2. M = {e \in events : /\ e.tenant = r.tenant
                              /\ Matches(e.code, in)
                              /\ e.day >= in.start
                              /\ in.end # 0 => e.day <= in.end}
      BY <1>1, <2>2, MatchingDates
    <3> QED
      BY <3>1, <3>2
  <2>3. CASE good /\ n # 0
    <3>1. first.status = "ok" /\ first.pagination = pagination(n, limit, 0)
      BY <2>3, AnswerCases
    <3>2. /\ first.pagination.total = PagesOf(n, limit)
          /\ \A i : [first.pagination EXCEPT !.page = i]
                      = [page |-> i, total |-> PagesOf(n, limit), items |-> n]
      BY <2>1, <3>1 DEF pagination, PagesOf
    <3>3. pages = 1 .. PagesOf(n, limit)
      BY <3>2
    <3>4. \A i \in pages : page[i] = AnswerEvents(r, in, limit, (i - 1) * limit)
      OBVIOUS
    <3>5. \A i \in pages :
            /\ page[i].status = "ok" /\ page[i].events = Page(i)
            /\ page[i].pagination = pagination(n, limit, (i - 1) * limit)
      BY <2>3, <3>4, AnswerCases
    <3>6. \A i \in pages : /\ Page(i) = {e \in M : PageOf(Rank(e, r.tenant, in), limit) = i}
                           /\ Cardinality(Page(i)) \in 1 .. limit
      BY <1>1, <3>3, PageOfResults
    <3>7. UNION {Page(i) : i \in pages} = M
      BY <1>1, <3>3, PagesOfResults
    <3>8. \A i \in pages : PageOf((i - 1) * limit, limit) = i
      <4> HIDE DEF n, pages
      <4> QED
        BY <2>1, <3>3, PageBegins
    <3>9. \A i \in pages : pagination(n, limit, (i - 1) * limit)
                             = [page |-> i, total |-> PagesOf(n, limit), items |-> n]
      BY <2>1, <3>8 DEF pagination, PagesOf, PageOf
    <3> HIDE DEF first, pages, page, M, Page
    <3>10. shown = M
      BY <3>5, <3>7
    <3>11. ASSUME NEW i \in pages
           PROVE  /\ page[i].status = "ok"
                  /\ Cardinality(page[i].events) \in 1 .. limit
                  /\ page[i].pagination = [first.pagination EXCEPT !.page = i]
                  /\ \A j \in pages \ {i} : page[i].events \cap page[j].events = {}
      <4>1. page[i].pagination = [first.pagination EXCEPT !.page = i]
        <5>1. page[i].pagination = [page |-> i, total |-> PagesOf(n, limit), items |-> n]
          BY <3>5, <3>9
        <5> QED
          BY <3>2, <5>1
      <4>2. \A j \in pages \ {i} : Page(i) \cap Page(j) = {}
        BY <3>6
      <4> QED
        BY <3>5, <3>6, <4>1, <4>2
    <3> QED
      BY <2>2, <2>3, <3>10, <3>11 DEF first, pages, page
  <2>4. CASE ~ (good /\ n # 0)
    <3>1. PICK s \in {"no_content", "unknown_user", "invalid_parameter"} :
            first = Refused(s) /\ (s = "no_content" => good /\ n = 0)
      BY <2>4, AnswerCases
    <3>2. first.status = s /\ first.pagination = NoPage
      BY <3>1 DEF Refused
    <3>3. pages = {}
      BY <3>2, NoPages
    <3>4. shown = {}
      BY <3>3
    <3>5. first.status \in {"ok", "no_content"} => asked = {}
      BY <2>1, <2>2, <3>1, <3>2
    <3> HIDE DEF first, pages, page, shown, asked
    <3>6. /\ \A i \in pages :
               /\ page[i].status = "ok"
               /\ Cardinality(page[i].events) \in 1 .. limit
               /\ page[i].pagination = [first.pagination EXCEPT !.page = i]
               /\ \A j \in pages \ {i} : page[i].events \cap page[j].events = {}
          /\ first.status \in {"ok", "no_content"} => shown = asked
          /\ ~ checkAuthorization(r.roles) => shown = {}
      BY <3>3, <3>4, <3>5
    <3> QED
      BY <3>6 DEF first, pages, page, shown, asked
  <2> QED
    BY <2>3, <2>4
<1> QED
  BY <1>1, SpecDistinct, PTL

=============================================================================
