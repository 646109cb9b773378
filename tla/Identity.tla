------------------------------ MODULE Identity ------------------------------
(***************************************************************************)
(* What the identity service lets its clients read of tenants, users,      *)
(* groups and roles, and the configuration of tenants that it keeps        *)
(* (services/identity/handler: the Get handlers, user_filter.go,           *)
(* role_filter.go, config.go). The reads are operators over the state of   *)
(* Accounts: each is one transaction, so what it returns depends on one    *)
(* state. A read returns the set of what it finds; a request that is       *)
(* refused or finds nothing gets the empty set. A page of users may be     *)
(* made of any of them, hence GetUsers has a set of possible answers.      *)
(*                                                                         *)
(* The sessions that loginFilter lists, and the users whose name,          *)
(* department and position match a request, are parameters.                *)
(***************************************************************************)
EXTENDS Accounts, Integers, FiniteSets

CONSTANTS
  IdOf,          \* IdOf[u]: the number of user u (cdm_user.id)
  SolutionOf,    \* SolutionOf[ro]: the solution of a role (cdm_role)
  TimeZone,      \* the time zones there are
  ConfigRequest  \* the configurations that SetConfig is called with

ASSUME IdentityAssumption ==
  /\ NoRow \notin User \cup Group \cup Solution
  /\ IsFiniteSet(User)
  /\ IdOf \in [User -> Nat]
  /\ \A u, v \in User : IdOf[u] = IdOf[v] => u = v
  /\ SolutionOf \in [Role -> Solution]
  /\ "UTC" \in TimeZone
  /\ \A c \in ConfigRequest :
       /\ "enable" \in DOMAIN c => c.enable \in BOOLEAN
       /\ "reuse" \in DOMAIN c => c.reuse \in BOOLEAN

VARIABLE conf  \* conf[t]: the rows of cdm_tenant_config about users, by key

-----------------------------------------------------------------------------
(* Configuration                                                           *)

\* The rows that are saved in any case, and those about restricted logins
AlwaysKeys == {"language", "timezone", "cycle", "reuse", "timeout", "enable"}
RestrictionKeys == {"tries", "time"}

Delivered ==
  [language |-> "eng", timezone |-> "UTC", cycle |-> 90, reuse |-> FALSE,
   timeout |-> 30, enable |-> TRUE, tries |-> 5, time |-> 300]

NoConfig == [k \in {} |-> k]

DeliveredConfig == [t \in Tenant |-> IF t = DefaultTenant THEN Delivered ELSE NoConfig]

IdentityInit ==
  /\ Init
  /\ conf = DeliveredConfig

\* Mutant of validateConfig: any number of tries is accepted.
validateConfigNoTries(c) ==
  /\ AlwaysKeys \subseteq DOMAIN c
  /\ c.timezone \in TimeZone
  /\ c.language \in {"eng", "kor"}
  /\ c.cycle \in 0 .. 180
  /\ c.timeout \in 1 .. 1440
  /\ c.enable => RestrictionKeys \subseteq DOMAIN c

\* A field that a request leaves out is not in its domain.
validateConfig(c) ==
  /\ AlwaysKeys \subseteq DOMAIN c
  /\ c.timezone \in TimeZone
  /\ c.language \in {"eng", "kor"}
  /\ c.cycle \in 0 .. 180
  /\ c.timeout \in 1 .. 1440
  /\ c.enable =>
       /\ RestrictionKeys \subseteq DOMAIN c
       /\ c.tries \in 5 .. 30
       /\ c.time \in 10 .. 7200

\* A restriction that is disabled leaves the rows about it as they are.
setConfig(rows, c) ==
  LET saved == AlwaysKeys \cup (IF c.enable THEN RestrictionKeys ELSE {})
  IN  [k \in DOMAIN rows \cup saved |-> IF k \in saved THEN c[k] ELSE rows[k]]

\* The keys that getConfig reads; it fails when one has no row.
NeededKeys(rows) ==
  IF "enable" \in DOMAIN rows /\ rows.enable
    THEN AlwaysKeys \cup RestrictionKeys ELSE AlwaysKeys

Readable(rows) == NeededKeys(rows) \subseteq DOMAIN rows

getConfig(rows) == [k \in NeededKeys(rows) |-> rows[k]]

\* What checkLoginRestricted makes of the rows when a login has failed before
LoginRestriction(rows) ==
  CASE "enable" \notin DOMAIN rows                 -> "error"
    [] "enable" \in DOMAIN rows /\ ~ rows.enable   -> "off"
    [] "enable" \in DOMAIN rows /\ rows.enable     ->
         IF ~ RestrictionKeys \subseteq DOMAIN rows THEN "error"
         ELSE IF rows.tries = 0 THEN "off" ELSE "on"

\* SetConfig reads the configuration again before the transaction commits.
SetConfig(r, c) ==
  LET t == req[r].tid IN
  /\ Serve(r, "SetConfig")
  /\ validateConfig(c)
  /\ Readable(setConfig(conf[t], c))
  /\ conf' = [conf EXCEPT ![t] = setConfig(@, c)]
  /\ UNCHANGED <<tenant, user, role, group, member>>

IdentityNext ==
  \/ Next /\ UNCHANGED conf
  \/ \E r \in Request, c \in ConfigRequest : SetConfig(r, c)

IdentitySpec == IdentityInit /\ [][IdentityNext]_<<vars, conf>>

-----------------------------------------------------------------------------
(* Reading tenants, groups and roles                                       *)

\* GetConfig fails in a tenant that nobody has configured.
GetConfig(q) ==
  {getConfig(conf[t]) : t \in {t \in {q.tid} : Authorized(q, "GetConfig") /\ Readable(conf[t])}}

\* The tenants, groups and roles whose names match a request are parameters.
getTenants(named) == {t \in named : tenant[t] # NoRow}

GetTenants(q, named) == {t \in getTenants(named) : Authorized(q, "GetTenants")}

getTenant(id) == {t \in {id} : tenant[t] # NoRow}

GetTenant(q, id) == {t \in getTenant(id) : Authorized(q, "GetTenant")}

getGroups(t, named) == {g \in named : GroupIn(g, t)}

GetGroups(q, named) == {g \in getGroups(q.tid, named) : Authorized(q, "GetGroups")}

getGroup(t, id) == {g \in {id} : GroupIn(g, t)}

GetGroup(q, id) == {g \in getGroup(q.tid, id) : Authorized(q, "GetGroup")}

\* The roles of the solutions that the tenant uses
tenantSolutionFilter(t) ==
  {ro \in Role : tenant[t] # NoRow /\ SolutionOf[ro] \in tenant[t].solutions}

getRoles(filters) == {ro \in Role : \A f \in filters : ro \in f}

\* A role can be looked for by the names of those that can be given.
validateRoleList(name) == name \in {"", "manager", "operator", "viewer"}

GetRoles(q, name) ==
  {ro \in getRoles({tenantSolutionFilter(q.tid)} \cup (IF name = "" THEN {} ELSE {{name}})) :
     Authorized(q, "GetRoles") /\ validateRoleList(name)}

-----------------------------------------------------------------------------
(* Reading users                                                           *)

\* Roles and Groups of the user model: also a group that is deleted
Roles(u) == role[u]
Groups(u) == {g \in Group : <<u, g>> \in member}

\* An administrator is shown with all groups of the tenant in the request.
userModelToRsp(u, t) ==
  [id |-> u, tenant |-> user[u].tenant, roles |-> Roles(u),
   groups |-> IF "admin" \in Roles(u) THEN getGroups(t, Group) ELSE Groups(u)]

validateUserGet(q, u) == IsAdmin(q) \/ IsManager(q) \/ u = q.user

\* getUser finds a user of any tenant; the handler compares the tenants.
GetUser(q, id) ==
  {userModelToRsp(u, q.tid) : u \in {v \in {id} :
     /\ Authorized(q, "GetUser")
     /\ validateUserGet(q, v)
     /\ Live(v)
     /\ user[v].tenant = q.tid}}

\* NoRow stands for zero, which is not a condition: the first user of the tenant.
getSimpleUser(t, id) ==
  {userModelToRsp(u, t) : u \in {v \in User :
     /\ UserIn(v, t)
     /\ IF id = NoRow THEN \A w \in User : UserIn(w, t) => IdOf[v] <= IdOf[w] ELSE v = id}}

\* GetSimpleUser is called by other services only: there is no policy for it.
GetSimpleUser(q, id) == getSimpleUser(q.tid, id)

\* Without a role of that name, and without a user who has it, nobody is found.
userSolutionFilter(solution, name) ==
  {u \in User : \E ro \in role[u] : SolutionOf[ro] = solution /\ (name = "" \/ ro = name)}

userGroupFilter(g) == {u \in User : <<u, g>> \in member}

userExcludeGroupFilter(g) == {u \in User : <<u, g>> \notin member}

\* The users that have a session in the store
loginFilter(keys) == {u \in User : u \in keys}

\* A role is looked for within a solution only. Users whose name, department and
\* position match are a field of the request.
makeUserFilter(in, keys) ==
  {in.named}
    \cup (IF in.solution = NoRow THEN {} ELSE {userSolutionFilter(in.solution, in.role)})
    \cup (IF in.group = NoRow THEN {} ELSE {userGroupFilter(in.group)})
    \cup (IF in.exclude = NoRow THEN {} ELSE {userExcludeGroupFilter(in.exclude)})
    \cup (IF in.loginOnly THEN {loginFilter(keys)} ELSE {})

\* Everybody
AllUsers ==
  [solution |-> NoRow, role |-> "", group |-> NoRow, exclude |-> NoRow, named |-> User,
   loginOnly |-> FALSE]

validateUserListGet(in) == validateRoleList(in.role)

\* The users of a tenant that pass all filters
getUsers(t, filters) == {u \in User : UserIn(u, t) /\ \A f \in filters : u \in f}

\* How many of n rows an offset and a limit leave
PageSize(n, offset, limit) ==
  IF n <= offset THEN 0 ELSE IF n - offset < limit THEN n - offset ELSE limit

\* The pages that the database may return: the query asks for no order, so any rows
\* may come first, and others with the next query. Zero is no limit.
paginationFilter(us, offset, limit) ==
  IF limit = 0
    THEN {us}
    ELSE {page \in SUBSET us : Cardinality(page) = PageSize(Cardinality(us), offset, limit)}

\* What GetUsers may answer
GetUsers(q, in, keys, offset, limit) ==
  {{userModelToRsp(u, q.tid) :
      u \in {v \in page : Authorized(q, "GetUsers") /\ validateUserListGet(in)}} :
     page \in paginationFilter(getUsers(q.tid, makeUserFilter(in, keys)), offset, limit)}

\* Mutant of getUsersPagination: what does not fill a page is not counted as one.
getUsersPaginationFloor(q, in, keys, offset, limit) ==
  LET total == Cardinality(getUsers(q.tid, makeUserFilter(in, keys)))
  IN  IF limit = 0
        THEN [page |-> 1, pages |-> 1, total |-> total]
        ELSE [page |-> offset \div limit + 1, pages |-> total \div limit, total |-> total]

getUsersPagination(q, in, keys, offset, limit) ==
  LET total == Cardinality(getUsers(q.tid, makeUserFilter(in, keys)))
  IN  IF limit = 0
        THEN [page |-> 1, pages |-> 1, total |-> total]
        ELSE [page |-> offset \div limit + 1, pages |-> (total + limit - 1) \div limit,
              total |-> total]

-----------------------------------------------------------------------------
(* Properties                                                              *)

ValueOf(key) ==
  CASE key = "language" -> {"eng", "kor"}
    [] key = "timezone" -> TimeZone
    [] key = "cycle" -> 0 .. 180
    [] key = "timeout" -> 1 .. 1440
    [] key = "tries" -> 5 .. 30
    [] key = "time" -> 10 .. 7200
    [] OTHER -> BOOLEAN

\* The rows of the configuration are those of tenants that there are, and each
\* holds what a reader of its key can parse.
ConfigTypeOK ==
  \A t \in Tenant :
    /\ DOMAIN conf[t] \subseteq AlwaysKeys \cup RestrictionKeys
    /\ tenant[t] = NoRow => DOMAIN conf[t] = {}
    /\ \A key \in DOMAIN conf[t] : conf[t][key] \in ValueOf(key)

Requests == {req[r] : r \in Request} \ {NoReq}

\* Nobody but the administrator is ever shown a tenant, a user or a group outside
\* the requester's own tenant, not as an answer and not inside one, and who is not
\* a manager sees no other user: getUser does not look at the tenant, and groups
\* are found through memberships, whoever has changed these in the meantime. Of a
\* configuration nobody but a manager sees anything.
ReadsWithinTenant ==
  \A q \in Requests :
    q.user # AdminUser =>
      /\ \A x \in (UNION GetUsers(q, AllUsers, {}, 0, 0)) \cup UNION {GetUser(q, u) : u \in User} :
           /\ x.tenant = q.tenant
           /\ \A g \in x.groups : group[g].tenant = q.tenant
           /\ IsManager(q) \/ x.id = q.user
      /\ \A g \in GetGroups(q, Group) \cup UNION {GetGroup(q, h) : h \in Group} :
           group[g].tenant = q.tenant
      /\ GetTenants(q, Tenant) \cup UNION {GetTenant(q, t) : t \in Tenant} = {}
      /\ GetRoles(q, "") # {} \/ GetConfig(q) # {} => IsManager(q)

\* The announced pages of the users with a session are those that show somebody, and
\* have room for all who are to be shown.
PagesShow(q, shown, keys, limit) ==
  LET in == [AllUsers EXCEPT !.loginOnly = TRUE]
      Info(i) == getUsersPagination(q, in, keys, (i - 1) * limit, limit)
      total == Info(1).total
      pages == Info(1).pages
  IN  /\ total = Cardinality(shown)
      /\ \A i \in 1 .. pages + 1 :
           /\ Info(i).page = i
           /\ \A page \in GetUsers(q, in, keys, (i - 1) * limit, limit) :
                /\ page \subseteq shown
                /\ page # {} <=> i <= pages
                /\ i < pages => Cardinality(page) = limit
                /\ i = pages => (i - 1) * limit + Cardinality(page) = total

\* What a list shows agrees with what it is a list of. Whatever rows the database
\* puts on a page, the pages that getUsersPagination announces are the ones that show
\* somebody, all but the last are full, together they have room for the announced
\* number of users, and all they show are users that pass the filters; a group and
\* its complement divide the tenant; whoever is found by a solution of the tenant has
\* a role that GetRoles names; every user on a list can be read, and looks the same
\* to users and to other services.
ListsAgree ==
  \A q \in Requests :
    Authorized(q, "GetUsers") =>
      LET all == UNION GetUsers(q, AllUsers, {}, 0, 0)
          Found(in) == UNION GetUsers(q, in, {}, 0, 0)
      IN
      /\ \A x \in all : GetUser(q, x.id) = {x} /\ GetSimpleUser(q, x.id) = {x}
      /\ GetSimpleUser(q, NoRow) \subseteq all
      /\ \A g \in Group :
           /\ Found([AllUsers EXCEPT !.group = g, !.exclude = g]) = {}
           /\ Found([AllUsers EXCEPT !.group = g]) \cup Found([AllUsers EXCEPT !.exclude = g]) = all
      /\ \A s \in tenant[q.tid].solutions, name \in {"", "manager"} :
           \A x \in Found([AllUsers EXCEPT !.solution = s, !.role = name]) :
             x.roles \cap GetRoles(q, name) # {}
      /\ \A keys \in SUBSET User, limit \in 1 .. Cardinality(all) :
           PagesShow(q, {x \in all : x.id \in keys}, keys, limit)

\* A tenant that has once been configured stays so: its configuration can be read,
\* and a login after a failed one is restricted as it says, never refused because a
\* row is missing, nor let through because the number of tries is useless.
ConfigUsable ==
  \A t \in Tenant :
    DOMAIN conf[t] # {} =>
      /\ Readable(conf[t])
      /\ LoginRestriction(conf[t]) = IF getConfig(conf[t]).enable THEN "on" ELSE "off"

\* Nobody but the administrator changes the configuration of another tenant, and
\* nobody who was not a manager when the request was verified changes any.
ConfigWithinTenant ==
  [][\A t \in Tenant :
       conf'[t] # conf[t] =>
         \E r \in Request :
           /\ Ends(r)
           /\ req[r].user # AdminUser =>
                IsManager(req[r]) /\ t = req[r].tenant]_<<vars, conf>>

=============================================================================
