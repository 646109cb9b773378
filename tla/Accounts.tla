------------------------------ MODULE Accounts ------------------------------
(***************************************************************************)
(* Tenants, users, roles and groups of the identity service, and the       *)
(* authorisation of the requests that change them.                         *)
(*                                                                         *)
(* The gateway (services/api-gateway/handler/wrapper/wrapper_auth.go)      *)
(* verifies the session of a request, checks its authorisation and passes  *)
(* it on with the user as VerifySession has returned it. What the handler  *)
(* (services/identity/handler) knows of its requester is this snapshot:    *)
(* other requests may have taken the requester's roles away, or deleted    *)
(* the requester, by the time it runs. A handler runs in one serializable  *)
(* transaction, hence is one step.                                         *)
(*                                                                         *)
(* What users are called, where they work and how they read dates is one   *)
(* value, their profile. Left out: accounts (unique, and never changed),   *)
(* remarks, lengths and formats. Of a password only who has chosen it is   *)
(* kept. A request that is refused, fails, or only reads ends in Refuse.   *)
(***************************************************************************)
CONSTANTS
  Tenant,         \* identifiers of tenants
  User,           \* identifiers of users
  Group,          \* identifiers of groups
  Name,           \* names of groups
  Solution,       \* solutions a tenant may use
  Profile,        \* data of a user: name, mail address, language, time zone and so on
  Role,           \* roles that can be assigned (cdm_role)
  Request,        \* requests in flight
  DefaultTenant,  \* the tenant, the group and the user that the database is
  DefaultGroup,   \*   delivered with
  AdminUser,
  DefaultProfile,
  DefaultName,    \* the group name "default"
  CloudSolution,  \* the solution "CDM-Cloud"
  NoRow,          \* no such row yet
  Gone,           \* a deleted row; its identifier is not given out again
  NoReq           \* no request

TenantRow == [use : BOOLEAN, solutions : SUBSET Solution]

\* generated is PasswordUpdateFlag: the password was generated, not chosen.
UserRow == [tenant : Tenant, generated : BOOLEAN, profile : Profile]

GroupRow == [tenant : Tenant, name : Name, deleted : BOOLEAN]

\* The user as VerifySession returned it, and the tenant the request is about.
Snapshot == [user : User, roles : SUBSET Role, tenant : Tenant, tid : Tenant]

ASSUME AccountsAssumption ==
  /\ DefaultTenant \in Tenant
  /\ DefaultGroup \in Group
  /\ AdminUser \in User
  /\ DefaultProfile \in Profile
  /\ DefaultName \in Name
  /\ CloudSolution \in Solution
  /\ {"admin", "manager"} \subseteq Role
  /\ NoRow \notin TenantRow /\ NoRow \notin UserRow /\ NoRow \notin GroupRow
  /\ Gone \notin UserRow /\ Gone # NoRow
  /\ NoReq \notin Snapshot

VARIABLES
  tenant,  \* tenant[t]: the row of tenant t (cdm_tenant, cdm_tenant_solution)
  user,    \* user[u]: the row of user u (cdm_user)
  role,    \* role[u]: the roles assigned to user u (cdm_user_role)
  group,   \* group[g]: the row of group g (cdm_group)
  member,  \* who is in which group (cdm_user_group)
  req      \* req[r]: request r

vars == <<tenant, user, role, group, member, req>>

\* What the database is delivered with
DeliveredTenants ==
  [t \in Tenant |->
     IF t = DefaultTenant
       THEN [use |-> TRUE, solutions |-> {CloudSolution}] ELSE NoRow]

DeliveredUsers ==
  [u \in User |->
     IF u = AdminUser
       THEN [tenant |-> DefaultTenant, generated |-> TRUE, profile |-> DefaultProfile]
       ELSE NoRow]

DeliveredGroups ==
  [g \in Group |->
     IF g = DefaultGroup
       THEN [tenant |-> DefaultTenant, name |-> DefaultName, deleted |-> FALSE]
       ELSE NoRow]

Init ==
  /\ tenant = DeliveredTenants
  /\ user = DeliveredUsers
  /\ role = [u \in User |-> IF u = AdminUser THEN {"admin"} ELSE {}]
  /\ group = DeliveredGroups
  /\ member = {}
  /\ req = [r \in Request |-> NoReq]

Live(u) == user[u] \notin {NoRow, Gone}

\* A row found by identifier and tenant
UserIn(u, t) == Live(u) /\ user[u].tenant = t

IsAdmin(q) == "admin" \in q.roles
IsManager(q) == "manager" \in q.roles

-----------------------------------------------------------------------------
(* The gateway                                                             *)

\* VerifySession, getUser. For an administrator the groups of the tenant named in
\* the request are listed too, which fails when there is no such tenant.
VerifySession(r, u, t) ==
  /\ req[r] = NoReq
  /\ Live(u)
  /\ "admin" \in role[u] => tenant[t] # NoRow
  /\ req' = [req EXCEPT ![r] = [user |-> u, roles |-> role[u],
                                tenant |-> user[u].tenant, tid |-> t]]
  /\ UNCHANGED <<tenant, user, role, group, member>>

\* The role that a policy of cdm_casbin_rule names for an endpoint
Policy(endpoint) ==
  CASE endpoint \in {"AddTenant", "UpdateTenant", "ActivateTenant",
                     "DeactivateTenant", "GetTenants", "GetTenant"} -> "admin"
    [] endpoint \in {"UpdateUser", "UpdateUserPassword", "GetUser"} -> "user"
    [] OTHER -> "manager"

\* enforcer.Enforce with the matcher of casbinModelConf
Enforce(ro, endpoint) == ro = Policy(endpoint) \/ ro = "admin"

\* Mutant of Authorized: the tenant of the request is not compared.
AuthorizedAnywhere(q, endpoint) ==
  /\ tenant[q.tid] # NoRow
  /\ \E ro \in q.roles \cup {"user"} : Enforce(ro, endpoint)

\* CheckAuthorization. It reads nothing but the snapshot and that the tenant exists,
\* which stays so: checking together with the handler's step is checking before it.
Authorized(q, endpoint) ==
  /\ tenant[q.tid] # NoRow
  /\ IsAdmin(q) \/ q.tid = q.tenant
  /\ \E ro \in q.roles \cup {"user"} : Enforce(ro, endpoint)

\* A request reaches its handler, and is over when the handler returns.
Serve(r, endpoint) ==
  /\ req[r] # NoReq
  /\ Authorized(req[r], endpoint)
  /\ req' = [req EXCEPT ![r] = NoReq]

\* A request that changes nothing
Refuse(r) ==
  /\ req[r] # NoReq
  /\ req' = [req EXCEPT ![r] = NoReq]
  /\ UNCHANGED <<tenant, user, role, group, member>>

-----------------------------------------------------------------------------
(* Users                                                                   *)

\* Mutant of AssignableGroups: the tenant of the group is not compared.
AssignableFromAnywhere(t) == {g \in Group : group[g] # NoRow}

\* The groups a request assigns exist in the tenant; whether they are deleted is
\* not looked at.
AssignableGroups(t) ==
  {g \in Group : group[g] # NoRow /\ group[g].tenant = t}

\* updateUserGroupRelations: all relations of a user are replaced.
UserGroupRelations(u, groups) ==
  {m \in member : m[1] # u} \cup {u} \X groups

\* validateUserAdd: the user is new, in the tenant of the request
ValidUserAdd(u, roles, groups, t) ==
  /\ "admin" \notin roles  \* unassignable_role
  /\ user[u] = NoRow
  /\ groups \subseteq AssignableGroups(t)

\* addUser
AddUser(r, u, roles, groups, profile) ==
  LET t == req[r].tid IN
  /\ Serve(r, "AddUser")
  /\ ValidUserAdd(u, roles, groups, t)
  /\ user' = [user EXCEPT ![u] = [tenant |-> t, generated |-> TRUE, profile |-> profile]]
  /\ role' = [role EXCEPT ![u] = roles]
  /\ member' = UserGroupRelations(u, groups)
  /\ UNCHANGED <<tenant, group>>

\* Mutant of MayUpdate: roles in the request are not looked at.
MayUpdateRoles(q, u, roles) ==
  /\ u = AdminUser => IsAdmin(q)
  /\ ~ IsAdmin(q) /\ ~ IsManager(q) => u = q.user

\* Mutant of MayUpdate: the administrator's account is like any other.
MayUpdateAdmin(q, u, roles) ==
  /\ "admin" \in roles => u = AdminUser
  /\ ~ IsAdmin(q) /\ ~ IsManager(q) => u = q.user

\* Mutant of MayUpdate: ordinary users may update any account.
MayUpdateOthers(q, u, roles) ==
  /\ u = AdminUser => IsAdmin(q)
  /\ "admin" \in roles => u = AdminUser

\* validateUserUpdate: who may update whom, and with which roles
MayUpdate(q, u, roles) ==
  /\ u = AdminUser => IsAdmin(q)
  /\ "admin" \in roles => u = AdminUser  \* unassignable_role
  /\ ~ IsAdmin(q) /\ ~ IsManager(q) => u = q.user

\* updateUser: whether roles and groups are taken from the request
AssignsRelations(q, u) == (IsAdmin(q) \/ IsManager(q)) /\ u # AdminUser

\* validateUserUpdate, updateUser. The row is built from the request and saved. The
\* columns that are not data of the user, the tenant among them, are what they were,
\* those of failed logins apart (Session!UpdateUser).
UpdateUser(r, u, roles, profile) ==
  LET q == req[r] IN
  /\ Serve(r, "UpdateUser")
  /\ MayUpdate(q, u, roles)
  /\ UserIn(u, q.tid)
  /\ user' = [user EXCEPT ![u].profile = profile]
  /\ IF AssignsRelations(q, u)
       THEN /\ role' = [role EXCEPT ![u] = roles]
            /\ \E groups \in SUBSET AssignableGroups(q.tid) :
                 member' = UserGroupRelations(u, groups)
       ELSE UNCHANGED <<role, member>>
  /\ UNCHANGED <<tenant, group>>

\* validateUserDelete, deleteUser. The session of the user stays, and is refused by
\* getUser from now on.
DeleteUser(r, u) ==
  /\ Serve(r, "DeleteUser")
  /\ UserIn(u, req[r].tid)
  /\ "admin" \notin role[u]  \* undeletable_user
  /\ user' = [user EXCEPT ![u] = Gone]
  /\ role' = [role EXCEPT ![u] = {}]
  /\ member' = UserGroupRelations(u, {})
  /\ UNCHANGED <<tenant, group>>

\* validateUserPasswordUpdate, updateUserPassword: the requester's own password, in
\* whatever tenant the request names
UpdateUserPassword(r) ==
  LET u == req[r].user IN
  /\ Serve(r, "UpdateUserPassword")
  /\ Live(u)
  /\ user' = [user EXCEPT ![u].generated = FALSE]
  /\ UNCHANGED <<tenant, role, group, member>>

\* validateUserPasswordReset, resetUserPassword
ResetUserPassword(r, u) ==
  /\ Serve(r, "ResetUserPassword")
  /\ UserIn(u, req[r].tid)
  /\ ~ (IsManager(req[r]) /\ u = AdminUser)
  /\ user' = [user EXCEPT ![u].generated = TRUE]
  /\ UNCHANGED <<tenant, role, group, member>>

-----------------------------------------------------------------------------
(* Groups                                                                  *)

GroupIn(g, t) == group[g] # NoRow /\ ~ group[g].deleted /\ group[g].tenant = t

\* No group other than g has the name, among those of the tenant not deleted.
NameFree(g, n, t) == \A o \in Group \ {g} : GroupIn(o, t) => group[o].name # n

\* validateGroupAdd, addGroup
AddGroup(r, g, n) ==
  LET t == req[r].tid IN
  /\ Serve(r, "AddGroup")
  /\ group[g] = NoRow
  /\ NameFree(g, n, t)
  /\ group' = [group EXCEPT ![g] = [tenant |-> t, name |-> n, deleted |-> FALSE]]
  /\ UNCHANGED <<tenant, user, role, member>>

\* Mutant of UpdateGroup: the new name is not looked for.
UpdateGroupUnchecked(r, g, n) ==
  /\ Serve(r, "UpdateGroup")
  /\ GroupIn(g, req[r].tid)
  /\ group' = [group EXCEPT ![g].name = n]
  /\ UNCHANGED <<tenant, user, role, member>>

\* validateUpdateGroup, updateGroup. The group "default" may be renamed.
UpdateGroup(r, g, n) ==
  /\ Serve(r, "UpdateGroup")
  /\ GroupIn(g, req[r].tid)
  /\ NameFree(g, n, req[r].tid)
  /\ group' = [group EXCEPT ![g].name = n]
  /\ UNCHANGED <<tenant, user, role, member>>

\* validDeleteGroup, deleteGroup
DeleteGroup(r, g) ==
  /\ Serve(r, "DeleteGroup")
  /\ GroupIn(g, req[r].tid)
  /\ group[g].name # DefaultName  \* undeletable_group
  /\ member' = {m \in member : m[2] # g}
  /\ group' = [group EXCEPT ![g].deleted = TRUE]
  /\ UNCHANGED <<tenant, user, role>>

\* validateGroupUserSet, setGroupUsers
SetGroupUsers(r, g, us) ==
  /\ Serve(r, "SetGroupUsers")
  /\ GroupIn(g, req[r].tid)
  /\ \A u \in us : UserIn(u, group[g].tenant)
  /\ member' = {m \in member : m[2] # g} \cup us \X {g}
  /\ UNCHANGED <<tenant, user, role, group>>

-----------------------------------------------------------------------------
(* Tenants: the one changed is named in the request, not in its header.    *)

\* validateTenantAdd, addTenant; names need not be unique
AddTenant(r, t, use, solutions) ==
  /\ Serve(r, "AddTenant")
  /\ solutions # {}
  /\ tenant[t] = NoRow
  /\ tenant' = [tenant EXCEPT ![t] = [use |-> use, solutions |-> solutions]]
  /\ UNCHANGED <<user, role, group, member>>

\* validateTenantUpdate, updateTenant
UpdateTenant(r, t, solutions) ==
  /\ Serve(r, "UpdateTenant")
  /\ solutions # {}
  /\ tenant[t] # NoRow
  /\ tenant' = [tenant EXCEPT ![t].solutions = solutions]
  /\ UNCHANGED <<user, role, group, member>>

\* activateTenant
ActivateTenant(r, t) ==
  /\ Serve(r, "ActivateTenant")
  /\ tenant[t] # NoRow
  /\ tenant' = [tenant EXCEPT ![t].use = TRUE]
  /\ UNCHANGED <<user, role, group, member>>

\* deactivateTenant; no other code looks at the flag
DeactivateTenant(r, t) ==
  /\ Serve(r, "DeactivateTenant")
  /\ tenant[t] # NoRow
  /\ tenant' = [tenant EXCEPT ![t].use = FALSE]
  /\ UNCHANGED <<user, role, group, member>>

-----------------------------------------------------------------------------
ChangePassword(r) ==
  \/ \E u \in User : ResetUserPassword(r, u)
  \/ UpdateUserPassword(r)

ChangeUser(r) ==
  \/ \E u \in User, roles \in SUBSET Role, profile \in Profile :
        \/ \E groups \in SUBSET Group : AddUser(r, u, roles, groups, profile)
        \/ UpdateUser(r, u, roles, profile)
  \/ \E u \in User : DeleteUser(r, u)
  \/ ChangePassword(r)

ChangeGroup(r) ==
  \/ \E g \in Group, n \in Name : AddGroup(r, g, n) \/ UpdateGroup(r, g, n)
  \/ \E g \in Group : DeleteGroup(r, g)
  \/ \E g \in Group, us \in SUBSET User : SetGroupUsers(r, g, us)

ChangeTenant(r) ==
  \E t \in Tenant :
    \/ \E use \in BOOLEAN, solutions \in SUBSET Solution :
          AddTenant(r, t, use, solutions)
    \/ \E solutions \in SUBSET Solution : UpdateTenant(r, t, solutions)
    \/ ActivateTenant(r, t)
    \/ DeactivateTenant(r, t)

Next ==
  \E r \in Request :
    \/ \E u \in User, t \in Tenant : VerifySession(r, u, t)
    \/ ChangeUser(r)
    \/ ChangeGroup(r)
    \/ ChangeTenant(r)
    \/ Refuse(r)

Spec == Init /\ [][Next]_vars

-----------------------------------------------------------------------------
(* Properties                                                              *)

\* Types, and that a row refers to rows there are: a user, a group and a requester
\* belong to a tenant that exists, a user without a row has no roles.
TypeOK ==
  /\ tenant \in [Tenant -> TenantRow \cup {NoRow}]
  /\ user \in [User -> UserRow \cup {NoRow, Gone}]
  /\ role \in [User -> SUBSET Role]
  /\ group \in [Group -> GroupRow \cup {NoRow}]
  /\ member \subseteq User \X Group
  /\ req \in [Request -> Snapshot \cup {NoReq}]
  /\ \A u \in User :
       IF Live(u) THEN tenant[user[u].tenant] # NoRow ELSE role[u] = {}
  /\ \A g \in Group : group[g] # NoRow => tenant[group[g].tenant] # NoRow

\* There is one administrator, from delivery on: no sequence of requests, whatever
\* their requesters were when they were verified, takes the role from AdminUser,
\* deletes it, or gives anyone else the role, not even a request that is on its
\* way (user.go validateUserAdd, validateUserUpdate, validateUserDelete).
OneAdmin ==
  /\ Live(AdminUser)
  /\ \A u \in User : "admin" \in role[u] <=> u = AdminUser
  /\ \A r \in Request :
       req[r] # NoReq => ("admin" \in req[r].roles <=> req[r].user = AdminUser)

\* A group has only users that there are, of its own tenant (user.go
\* updateUserGroupRelations, group.go setGroupUsers).
MembersWithinTenant ==
  \A m \in member :
    Live(m[1]) /\ group[m[2]] # NoRow /\ user[m[1]].tenant = group[m[2]].tenant

\* documents/functions.md FC-CL-06081, FC-CL-06091: the name of a group is unique in
\* its tenant (group.go validateGroupAdd, validateUpdateGroup).
UniqueGroupNames ==
  \A g, o \in Group :
    /\ group[g] # NoRow /\ ~ group[g].deleted
    /\ group[o] # NoRow /\ ~ group[o].deleted
    /\ group[g].tenant = group[o].tenant /\ group[g].name = group[o].name
    => g = o

\* Request r is over with this step.
Ends(r) == req[r] # NoReq /\ req'[r] = NoReq

\* What there is of a row, before and after a step, belongs to tenant t.
Of(row, rowNext, t) ==
  /\ row \notin {NoRow, Gone} => row.tenant = t
  /\ rowNext \notin {NoRow, Gone} => rowNext.tenant = t

\* A request of anyone but the administrator changes nothing outside the tenant its
\* requester belongs to (handler.go CheckAuthorization, and each handler using the
\* tenant of the request in its queries).
TenantIsolation ==
  [][\A r \in Request :
       Ends(r) /\ req[r].user # AdminUser =>
         LET t == req[r].tenant IN
         /\ Live(req[r].user) => user[req[r].user].tenant = t
         /\ tenant' = tenant
         /\ \A u \in User :
              user'[u] # user[u] \/ role'[u] # role[u] => Of(user[u], user'[u], t)
         /\ \A g \in Group : group'[g] # group[g] => Of(group[g], group'[g], t)
         /\ \A m \in (member \cup member') \ (member \cap member') :
              Of(group[m[2]], group'[m[2]], t)]_vars

\* Nobody but the administrator changes the administrator's account or its roles
\* (user.go validateUserUpdate, validateUserDelete, validateUserPasswordReset).
AdminUntouched ==
  [][user'[AdminUser] # user[AdminUser] \/ role'[AdminUser] # role[AdminUser]
       => \E r \in Request : Ends(r) /\ req[r].user = AdminUser]_vars

\* documents/functions.md FC-CL-06041: users who were neither administrator nor
\* manager when their request was verified change their own account only, and
\* neither roles nor groups (user.go validateUserUpdate, updateUser).
OrdinaryUsersChangeThemselves ==
  [][\A r \in Request :
       Ends(r) /\ req[r].roles \cap {"admin", "manager"} = {} =>
         /\ \A u \in User \ {req[r].user} : user'[u] = user[u]
         /\ UNCHANGED <<tenant, role, group, member>>]_vars

=============================================================================
