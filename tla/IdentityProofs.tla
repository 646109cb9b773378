--------------------------- MODULE IdentityProofs ---------------------------
(***************************************************************************)
(* Proofs about Accounts and Identity, for any number of tenants, users,   *)
(* groups, roles, requests in flight and configurations. First the         *)
(* invariants and the action properties of Accounts. To the accounts a     *)
(* change of configuration is a request that changes nothing: a behaviour  *)
(* of Identity is one of Accounts, and all of that holds of it. The reads  *)
(* stay within the tenant because of that. Of the configuration the proof  *)
(* needs that a tenant's rows are either none or all that are needed, each *)
(* with a value within bounds. How many users a page shows follows by      *)
(* division with a remainder, whichever users the database puts there.     *)
(***************************************************************************)
EXTENDS Identity, FiniteSetTheorems, TLAPS

-----------------------------------------------------------------------------
(* Accounts: the inductive invariant                                       *)

\* What a snapshot is worth when its request is served: its requester had a row, and
\* if it still has one, it is in the tenant the snapshot says.
SnapshotsOfUsers ==
  \A r \in Request :
    req[r] # NoReq =>
      /\ user[req[r].user] # NoRow
      /\ Live(req[r].user) => user[req[r].user].tenant = req[r].tenant

\* The inductive invariant
Inv ==
  /\ TypeOK
  /\ OneAdmin
  /\ MembersWithinTenant
  /\ UniqueGroupNames
  /\ SnapshotsOfUsers

-----------------------------------------------------------------------------
(* Requests                                                                *)

\* A request that is served had a snapshot, and is the only one that ends.
LEMMA ServeRequest ==
  ASSUME TypeOK, NEW r \in Request, NEW e, Serve(r, e)
  PROVE  /\ req[r] \in Snapshot
         /\ req' \in [Request -> Snapshot \cup {NoReq}]
         /\ \A q \in Request : req'[q] = (IF q = r THEN NoReq ELSE req[q])
         /\ \A q \in Request : Ends(q) => q = r
         /\ tenant[req[r].tid] # NoRow
         /\ IsAdmin(req[r]) \/ req[r].tid = req[r].tenant
  BY DEF TypeOK, Serve, Authorized, Ends

\* The requests left after one was served are as good as before, for no user comes
\* back or moves to another tenant.
LEMMA SnapshotsKept ==
  ASSUME Inv, NEW r \in Request, NEW e, Serve(r, e),
         \A u \in User : user[u] # NoRow => user'[u] # NoRow,
         \A u \in User : user[u] # NoRow /\ user'[u] # Gone
                            => user[u] # Gone /\ user'[u].tenant = user[u].tenant
  PROVE  SnapshotsOfUsers'
<1> SUFFICES ASSUME NEW q \in Request, req'[q] # NoReq
             PROVE  /\ user'[req'[q].user] # NoRow
                    /\ user'[req'[q].user] # Gone
                         => user'[req'[q].user].tenant = req'[q].tenant
  BY DEF SnapshotsOfUsers, Live
<1>1. req'[q] = req[q] /\ req[q] \in Snapshot
  BY ServeRequest DEF Inv, TypeOK
<1>2. req[q].user \in User
  BY <1>1 DEF Snapshot
<1>3. /\ user[req[q].user] # NoRow
      /\ user[req[q].user] # Gone => user[req[q].user].tenant = req[q].tenant
  BY <1>1 DEF Inv, SnapshotsOfUsers, Live
<1> QED
  BY <1>1, <1>2, <1>3

\* Snapshots of the administrator stay as good when its role does.
LEMMA OneAdminKept ==
  ASSUME Inv, NEW r \in Request, NEW e, Serve(r, e),
         user'[AdminUser] \notin {NoRow, Gone},
         \A u \in User : "admin" \in role'[u] <=> "admin" \in role[u]
  PROVE  OneAdmin'
<1>1. \A q \in Request : req'[q] # NoReq => req'[q] = req[q]
  BY ServeRequest DEF Inv
<1> QED
  BY <1>1 DEF Inv, OneAdmin, Live

-----------------------------------------------------------------------------
(* The initial state, and every action, keep to the invariant.             *)

\* The database as it is delivered
LEMMA InitInv == Init => Inv
<1> SUFFICES ASSUME Init PROVE Inv
  OBVIOUS
<1> USE AccountsAssumption DEF DeliveredTenants, DeliveredUsers, DeliveredGroups
<1>1. [tenant |-> DefaultTenant, generated |-> TRUE, profile |-> DefaultProfile] \in UserRow
      /\ [use |-> TRUE, solutions |-> {CloudSolution}] \in TenantRow
      /\ [tenant |-> DefaultTenant, name |-> DefaultName, deleted |-> FALSE] \in GroupRow
  BY DEF UserRow, TenantRow, GroupRow
<1>2. TypeOK
  BY <1>1 DEF Init, TypeOK, Live
<1>3. OneAdmin
  BY <1>1 DEF Init, OneAdmin, Live
<1>4. MembersWithinTenant /\ UniqueGroupNames /\ SnapshotsOfUsers
  BY DEF Init, MembersWithinTenant, UniqueGroupNames, SnapshotsOfUsers
<1> QED
  BY <1>2, <1>3, <1>4 DEF Inv

\* A new snapshot: that of a user with a row.
LEMMA VerifySessionInv ==
  ASSUME Inv, NEW r \in Request, NEW u \in User, NEW t \in Tenant,
         VerifySession(r, u, t)
  PROVE  Inv'
<1> DEFINE q == [user |-> u, roles |-> role[u], tenant |-> user[u].tenant, tid |-> t]
<1>1. user[u] \in UserRow /\ user[u].tenant \in Tenant /\ role[u] \in SUBSET Role
  BY DEF VerifySession, Live, Inv, TypeOK, UserRow
<1>2. q \in Snapshot
  BY <1>1 DEF Snapshot
<1>3. UNCHANGED <<tenant, user, role, group, member>>
      /\ req' = [req EXCEPT ![r] = q]
  BY DEF VerifySession
<1>4. q.user = u /\ q.roles = role[u] /\ q.tenant = user[u].tenant
  OBVIOUS
<1> HIDE DEF q
<1>5. TypeOK'
  BY <1>2, <1>3 DEF Inv, TypeOK, Live
<1>6. \A p \in Request : req'[p] = (IF p = r THEN q ELSE req[p])
  BY <1>3 DEF Inv, TypeOK
<1>7. OneAdmin'
  BY <1>3, <1>4, <1>6 DEF Inv, OneAdmin, Live
<1>8. SnapshotsOfUsers'
  BY <1>1, <1>3, <1>4, <1>6 DEF Inv, SnapshotsOfUsers, Live, VerifySession
<1>9. MembersWithinTenant' /\ UniqueGroupNames'
  BY <1>3 DEF Inv, MembersWithinTenant, UniqueGroupNames, Live
<1> QED
  BY <1>5, <1>7, <1>8, <1>9 DEF Inv

\* A request without effect
LEMMA RefuseInv ==
  ASSUME Inv, NEW r \in Request, Refuse(r)
  PROVE  Inv'
<1>1. UNCHANGED <<tenant, user, role, group, member>>
  BY DEF Refuse
<1>2. req' \in [Request -> Snapshot \cup {NoReq}]
      /\ \A q \in Request : req'[q] # NoReq => req'[q] = req[q]
  BY DEF Refuse, Inv, TypeOK
<1>3. TypeOK' /\ MembersWithinTenant' /\ UniqueGroupNames'
  BY <1>1, <1>2 DEF Inv, TypeOK, MembersWithinTenant, UniqueGroupNames, Live
<1>4. OneAdmin' /\ SnapshotsOfUsers'
  BY <1>1, <1>2 DEF Inv, OneAdmin, SnapshotsOfUsers, Live
<1> QED
  BY <1>3, <1>4 DEF Inv

\* What a handler does not have to care about when it changes neither the users nor
\* their roles
LEMMA UsersKept ==
  ASSUME Inv, NEW r \in Request, NEW e, Serve(r, e), UNCHANGED <<user, role>>
  PROVE  OneAdmin' /\ SnapshotsOfUsers'
<1>1. OneAdmin'
  BY OneAdminKept DEF Inv, OneAdmin, Live
<1>2. SnapshotsOfUsers'
  BY SnapshotsKept DEF Live
<1> QED
  BY <1>1, <1>2

\* A user's relations replaced by ones to groups of the user's tenant
LEMMA RelationsWithinTenant ==
  ASSUME MembersWithinTenant, NEW u \in User, NEW groups, NEW t,
         groups \subseteq AssignableGroups(t),
         UNCHANGED group, member' = UserGroupRelations(u, groups),
         user'[u] \notin {NoRow, Gone} /\ user'[u].tenant = t,
         \A v \in User \ {u} : user'[v] = user[v],
         member \subseteq User \X Group
  PROVE  MembersWithinTenant'
<1> SUFFICES ASSUME NEW m \in member'
             PROVE  user'[m[1]] \notin {NoRow, Gone} /\ group[m[2]] # NoRow
                    /\ user'[m[1]].tenant = group[m[2]].tenant
  BY DEF MembersWithinTenant, Live
<1>1. CASE m \in member /\ m[1] # u
  BY <1>1 DEF MembersWithinTenant, Live
<1>2. CASE m[1] = u /\ m[2] \in groups
  BY <1>2 DEF AssignableGroups
<1> QED
  BY <1>1, <1>2 DEF UserGroupRelations

\* The relations of a user are relations.
LEMMA RelationsTyped ==
  ASSUME member \subseteq User \X Group, NEW u \in User, NEW groups \in SUBSET Group
  PROVE  UserGroupRelations(u, groups) \subseteq User \X Group
  BY DEF UserGroupRelations

\* A new user has a new identifier, which neither the administrator nor a snapshot
\* has.
LEMMA AddUserInv ==
  ASSUME Inv, NEW r \in Request, NEW u \in User, NEW roles \in SUBSET Role,
         NEW groups \in SUBSET Group, NEW profile \in Profile,
         AddUser(r, u, roles, groups, profile)
  PROVE  Inv'
<1> DEFINE t == req[r].tid
           row == [tenant |-> t, generated |-> TRUE, profile |-> profile]
<1>1. Serve(r, "AddUser") /\ "admin" \notin roles /\ user[u] = NoRow
      /\ groups \subseteq AssignableGroups(t)
      /\ user' = [user EXCEPT ![u] = row]
      /\ role' = [role EXCEPT ![u] = roles]
      /\ member' = UserGroupRelations(u, groups)
      /\ UNCHANGED <<tenant, group>>
  BY DEF AddUser, ValidUserAdd
<1>2. t \in Tenant /\ tenant[t] # NoRow /\ req' \in [Request -> Snapshot \cup {NoReq}]
  BY <1>1, ServeRequest DEF Inv, Snapshot
<1>3. row \in UserRow /\ row.tenant = t /\ row \notin {NoRow, Gone}
  <2>1. row \in UserRow /\ row.tenant = t
    BY <1>2 DEF UserRow
  <2> HIDE DEF row
  <2> QED
    BY <2>1, AccountsAssumption
<1> HIDE DEF row, t
<1>4. \A v \in User : /\ user'[v] = (IF v = u THEN row ELSE user[v])
                       /\ role'[v] = (IF v = u THEN roles ELSE role[v])
  BY <1>1 DEF Inv, TypeOK
<1>5. TypeOK'
  <2>1. member' \subseteq User \X Group
    BY <1>1, RelationsTyped DEF Inv, TypeOK
  <2>2. user' \in [User -> UserRow \cup {NoRow, Gone}] /\ role' \in [User -> SUBSET Role]
    BY <1>1, <1>3 DEF Inv, TypeOK
  <2> QED
    BY <1>1, <1>2, <1>3, <1>4, <2>1, <2>2 DEF Inv, TypeOK, Live
<1>6. OneAdmin'
  <2>1. u # AdminUser /\ "admin" \notin role[u]
    BY <1>1 DEF Inv, OneAdmin, TypeOK, Live
  <2> QED
    BY <1>1, <1>4, <2>1, OneAdminKept, AccountsAssumption DEF Inv, OneAdmin, Live
<1>7. MembersWithinTenant'
  BY <1>1, <1>3, <1>4, RelationsWithinTenant DEF Inv, TypeOK
<1>8. UniqueGroupNames'
  BY <1>1 DEF Inv, UniqueGroupNames
<1>9. SnapshotsOfUsers'
  <2>1. \A q \in Request : req'[q] # NoReq =>
          req'[q] = req[q] /\ req[q].user \in User /\ user[req[q].user] # NoRow
    BY <1>1, ServeRequest DEF Inv, TypeOK, Snapshot, SnapshotsOfUsers
  <2> QED
    BY <1>1, <1>4, <2>1 DEF Inv, SnapshotsOfUsers, Live
<1> QED
  BY <1>5, <1>6, <1>7, <1>8, <1>9 DEF Inv

\* Neither the administrator nor anyone's snapshot loses more than a row.
LEMMA DeleteUserInv ==
  ASSUME Inv, NEW r \in Request, NEW u \in User, DeleteUser(r, u)
  PROVE  Inv'
<1>1. Serve(r, "DeleteUser") /\ UserIn(u, req[r].tid) /\ "admin" \notin role[u]
      /\ user' = [user EXCEPT ![u] = Gone]
      /\ role' = [role EXCEPT ![u] = {}]
      /\ member' = UserGroupRelations(u, {})
      /\ UNCHANGED <<tenant, group>>
  BY DEF DeleteUser
<1>2. req' \in [Request -> Snapshot \cup {NoReq}]
  BY <1>1, ServeRequest DEF Inv
<1>3. \A v \in User : /\ user'[v] = (IF v = u THEN Gone ELSE user[v])
                       /\ role'[v] = (IF v = u THEN {} ELSE role[v])
  BY <1>1 DEF Inv, TypeOK
<1>4. \A m \in member' : m \in member /\ m[1] # u
  BY <1>1 DEF UserGroupRelations
<1>5. TypeOK'
  <2>1. user' \in [User -> UserRow \cup {NoRow, Gone}] /\ role' \in [User -> SUBSET Role]
    BY <1>1 DEF Inv, TypeOK
  <2>2. member' \subseteq User \X Group
    BY <1>4 DEF Inv, TypeOK
  <2> QED
    BY <1>1, <1>2, <1>3, <2>1, <2>2 DEF Inv, TypeOK, Live
<1>6. OneAdmin'
  <2>1. u # AdminUser
    BY <1>1 DEF Inv, OneAdmin
  <2> QED
    BY <1>1, <1>3, <2>1, OneAdminKept, AccountsAssumption DEF Inv, OneAdmin, Live
<1>7. MembersWithinTenant'
  <2>1. \A m \in member : m[1] \in User
    BY DEF Inv, TypeOK
  <2> QED
    BY <1>1, <1>3, <1>4, <2>1 DEF Inv, MembersWithinTenant, Live
<1>8. SnapshotsOfUsers'
  <2>1. Gone # NoRow
    BY AccountsAssumption
  <2>2. \A v \in User : user[v] # NoRow => user'[v] # NoRow
    BY <1>3, <2>1
  <2>3. ASSUME NEW q \in Request, req'[q] # NoReq
        PROVE  /\ user'[req'[q].user] # NoRow
               /\ user'[req'[q].user] # Gone
                    => user'[req'[q].user].tenant = req'[q].tenant
    <3>1. req'[q] = req[q] /\ req[q] \in Snapshot
      BY <1>1, <2>3, ServeRequest DEF Inv, TypeOK
    <3>2. req[q].user \in User
      BY <3>1 DEF Snapshot
    <3> QED
      BY <1>3, <2>1, <2>3, <3>1, <3>2 DEF Inv, SnapshotsOfUsers, Live
  <2> QED
    BY <2>3 DEF SnapshotsOfUsers, Live
<1> QED
  BY <1>1, <1>5, <1>6, <1>7, <1>8 DEF Inv, UniqueGroupNames

\* The flag of a password is set in a row of the same tenant.
LEMMA FlagSet ==
  ASSUME TypeOK, NEW u \in User, Live(u), NEW b \in BOOLEAN
  PROVE  /\ [user[u] EXCEPT !.generated = b] \in UserRow
         /\ [user[u] EXCEPT !.generated = b].tenant = user[u].tenant
<1>1. user[u] \in UserRow
  BY DEF TypeOK, Live
<1> QED
  BY <1>1 DEF UserRow

\* Rows replaced by others of the same tenant leave everything as it was.
LEMMA PasswordInv ==
  ASSUME Inv, NEW r \in Request, NEW e, Serve(r, e),
         UNCHANGED <<tenant, role, group, member>>,
         user' \in [User -> UserRow \cup {NoRow, Gone}],
         \A v \in User : \/ user'[v] = user[v]
                         \/ /\ user[v] \in UserRow /\ user'[v] \in UserRow
                            /\ user'[v].tenant = user[v].tenant
  PROVE  Inv'
<1>1. \A x \in UserRow : x # NoRow /\ x # Gone
  BY AccountsAssumption
<1>2. \A v \in User : user'[v] = NoRow <=> user[v] = NoRow
  BY <1>1
<1>3. \A v \in User : user'[v] = Gone <=> user[v] = Gone
  BY <1>1
<1>4. \A v \in User : user'[v].tenant = user[v].tenant
  OBVIOUS
<1>5. TypeOK'
  <2>1. req' \in [Request -> Snapshot \cup {NoReq}]
    BY ServeRequest DEF Inv
  <2>2. ASSUME NEW v \in User
        PROVE  IF user'[v] \notin {NoRow, Gone}
                 THEN tenant[user'[v].tenant] # NoRow ELSE role[v] = {}
    BY <1>2, <1>3, <1>4 DEF Inv, TypeOK, Live
  <2> QED
    BY <2>1, <2>2 DEF Inv, TypeOK, Live
<1>6. OneAdmin'
  BY <1>2, <1>3, OneAdminKept, AccountsAssumption DEF Inv, OneAdmin, Live
<1>7. MembersWithinTenant'
  <2>1. ASSUME NEW m \in member
        PROVE  user'[m[1]] \notin {NoRow, Gone} /\ group[m[2]] # NoRow
               /\ user'[m[1]].tenant = group[m[2]].tenant
    <3>1. m[1] \in User
      BY DEF Inv, TypeOK
    <3> QED
      BY <1>2, <1>3, <1>4, <3>1 DEF Inv, MembersWithinTenant, Live
  <2> QED
    BY <2>1 DEF MembersWithinTenant, Live
<1>8. SnapshotsOfUsers'
  BY <1>2, <1>3, <1>4, SnapshotsKept DEF Live
<1> QED
  BY <1>5, <1>6, <1>7, <1>8 DEF Inv, UniqueGroupNames

\* Replacing the row of one user
LEMMA RowReplaced ==
  ASSUME TypeOK, NEW u \in User, Live(u), NEW row \in UserRow,
         row.tenant = user[u].tenant, user' = [user EXCEPT ![u] = row]
  PROVE  /\ user' \in [User -> UserRow \cup {NoRow, Gone}]
         /\ \A v \in User : \/ user'[v] = user[v]
                            \/ /\ user[v] \in UserRow /\ user'[v] \in UserRow
                               /\ user'[v].tenant = user[v].tenant
  BY DEF TypeOK, Live

\* The two requests that set a password
LEMMA PasswordRequestsInv ==
  ASSUME Inv, NEW r \in Request,
         UpdateUserPassword(r) \/ \E u \in User : ResetUserPassword(r, u)
  PROVE  Inv'
<1>1. CASE UpdateUserPassword(r)
  <2>1. Serve(r, "UpdateUserPassword") /\ Live(req[r].user)
        /\ user' = [user EXCEPT ![req[r].user].generated = FALSE]
        /\ UNCHANGED <<tenant, role, group, member>>
    BY <1>1 DEF UpdateUserPassword
  <2>2. req[r].user \in User
    BY <2>1, ServeRequest DEF Inv, Snapshot
  <2> DEFINE row == [user[req[r].user] EXCEPT !.generated = FALSE]
  <2>3. row \in UserRow /\ row.tenant = user[req[r].user].tenant
    BY <2>1, <2>2, FlagSet DEF Inv
  <2>4. user' = [user EXCEPT ![req[r].user] = row]
    BY <2>1
  <2> HIDE DEF row
  <2>5. /\ user' \in [User -> UserRow \cup {NoRow, Gone}]
        /\ \A v \in User : \/ user'[v] = user[v]
                           \/ /\ user[v] \in UserRow /\ user'[v] \in UserRow
                              /\ user'[v].tenant = user[v].tenant
    BY <2>1, <2>2, <2>3, <2>4, RowReplaced DEF Inv
  <2>6. Serve(r, "UpdateUserPassword") /\ UNCHANGED <<tenant, role, group, member>>
    BY <2>1
  <2> QED
    BY <2>5, <2>6, PasswordInv
<1>2. ASSUME NEW u \in User, ResetUserPassword(r, u)
      PROVE  Inv'
  <2>1. Serve(r, "ResetUserPassword") /\ Live(u)
        /\ user' = [user EXCEPT ![u].generated = TRUE]
        /\ UNCHANGED <<tenant, role, group, member>>
    BY <1>2 DEF ResetUserPassword, UserIn
  <2> DEFINE row == [user[u] EXCEPT !.generated = TRUE]
  <2>2. row \in UserRow /\ row.tenant = user[u].tenant
    BY <2>1, FlagSet DEF Inv
  <2>3. user' = [user EXCEPT ![u] = row]
    BY <2>1
  <2> HIDE DEF row
  <2>4. /\ user' \in [User -> UserRow \cup {NoRow, Gone}]
        /\ \A v \in User : \/ user'[v] = user[v]
                           \/ /\ user[v] \in UserRow /\ user'[v] \in UserRow
                              /\ user'[v].tenant = user[v].tenant
    BY <2>1, <2>2, <2>3, RowReplaced DEF Inv
  <2>5. Serve(r, "ResetUserPassword") /\ UNCHANGED <<tenant, role, group, member>>
    BY <2>1
  <2> QED
    BY <2>4, <2>5, PasswordInv
<1> QED
  BY <1>1, <1>2

\* updateUser saves a row of the same tenant for one user.
LEMMA ProfileSaved ==
  ASSUME Inv, NEW r \in Request, NEW u \in User, NEW roles, NEW profile \in Profile,
         UpdateUser(r, u, roles, profile)
  PROVE  /\ Live(u) /\ user[u].tenant = req[r].tid
         /\ user' \in [User -> UserRow \cup {NoRow, Gone}]
         /\ user[u] \in UserRow /\ user'[u] \in UserRow
         /\ user'[u].tenant = user[u].tenant
         /\ \A v \in User : v # u => user'[v] = user[v]
<1> DEFINE row == [user[u] EXCEPT !.profile = profile]
<1>1. Live(u) /\ user[u].tenant = req[r].tid /\ user' = [user EXCEPT ![u] = row]
  BY DEF UpdateUser, UserIn
<1>2. user[u] \in UserRow
  BY <1>1 DEF Inv, TypeOK, Live
<1>3. row \in UserRow /\ row.tenant = user[u].tenant
  BY <1>2 DEF UserRow
<1> HIDE DEF row
<1> QED
  BY <1>1, <1>2, <1>3 DEF Inv, TypeOK

\* Relations are replaced by a request that may do so, and never the administrator's.
LEMMA UpdateUserInv ==
  ASSUME Inv, NEW r \in Request, NEW u \in User, NEW roles \in SUBSET Role,
         NEW profile \in Profile, UpdateUser(r, u, roles, profile)
  PROVE  Inv'
<1>1. Serve(r, "UpdateUser") /\ MayUpdate(req[r], u, roles) /\ UNCHANGED <<tenant, group>>
  BY DEF UpdateUser
<1>2. req' \in [Request -> Snapshot \cup {NoReq}]
  BY <1>1, ServeRequest DEF Inv
<1>3. /\ Live(u) /\ user[u].tenant = req[r].tid
      /\ user' \in [User -> UserRow \cup {NoRow, Gone}]
      /\ user[u] \in UserRow /\ user'[u] \in UserRow
      /\ user'[u].tenant = user[u].tenant
      /\ \A v \in User : v # u => user'[v] = user[v]
  BY ProfileSaved
<1>4. \A x \in UserRow : x # NoRow /\ x # Gone
  BY AccountsAssumption
<1>5. CASE AssignsRelations(req[r], u)
  <2>1. PICK groups \in SUBSET AssignableGroups(req[r].tid) :
          member' = UserGroupRelations(u, groups)
    BY <1>5 DEF UpdateUser
  <2>2. role' = [role EXCEPT ![u] = roles]
    BY <1>5 DEF UpdateUser
  <2>3. u # AdminUser /\ "admin" \notin roles
    BY <1>1, <1>5 DEF MayUpdate, AssignsRelations
  <2>4. \A v \in User : role'[v] = (IF v = u THEN roles ELSE role[v])
    BY <2>2 DEF Inv, TypeOK
  <2>5. TypeOK'
    <3>1. member' \subseteq User \X Group
      BY <2>1, RelationsTyped DEF Inv, TypeOK, AssignableGroups
    <3>2. role' \in [User -> SUBSET Role]
      BY <2>2 DEF Inv, TypeOK
    <3>3. ASSUME NEW v \in User
          PROVE  IF user'[v] \notin {NoRow, Gone}
                   THEN tenant[user'[v].tenant] # NoRow ELSE role'[v] = {}
      <4>1. CASE v = u
        BY <1>3, <1>4, <4>1 DEF Inv, TypeOK, Live
      <4>2. CASE v # u
        BY <1>3, <2>4, <4>2 DEF Inv, TypeOK, Live
      <4> QED
        BY <4>1, <4>2
    <3> QED
      BY <1>1, <1>2, <1>3, <3>1, <3>2, <3>3 DEF Inv, TypeOK, Live
  <2>6. OneAdmin'
    BY <1>1, <1>3, <2>3, <2>4, OneAdminKept, AccountsAssumption DEF Inv, OneAdmin, Live
  <2>7. MembersWithinTenant'
    BY <1>1, <1>3, <1>4, <2>1, RelationsWithinTenant DEF Inv, TypeOK
  <2>8. SnapshotsOfUsers'
    BY <1>1, <1>3, <1>4, SnapshotsKept
  <2> QED
    BY <1>1, <2>5, <2>6, <2>7, <2>8 DEF Inv, UniqueGroupNames
<1>6. CASE ~ AssignsRelations(req[r], u)
  <2>1. UNCHANGED <<tenant, role, group, member>>
    BY <1>1, <1>6 DEF UpdateUser
  <2> QED
    BY <1>1, <1>3, <2>1, PasswordInv
<1> QED
  BY <1>5, <1>6

\* What the requests that change groups only have to keep
LEMMA GroupStepInv ==
  ASSUME Inv, NEW r \in Request, NEW e, Serve(r, e), UNCHANGED <<tenant, user, role>>,
         group' \in [Group -> GroupRow \cup {NoRow}],
         \A g \in Group : group'[g] # NoRow => tenant[group'[g].tenant] # NoRow,
         member' \subseteq User \X Group,
         MembersWithinTenant', UniqueGroupNames'
  PROVE  Inv'
<1>1. OneAdmin' /\ SnapshotsOfUsers'
  BY UsersKept
<1>2. req' \in [Request -> Snapshot \cup {NoReq}]
  BY ServeRequest DEF Inv
<1>3. TypeOK'
  BY <1>2 DEF Inv, TypeOK, Live
<1> QED
  BY <1>1, <1>3 DEF Inv

\* A group gets a row, or its row a new name, that is free in its tenant: names stay
\* unique, and members are not concerned.
LEMMA NameGivenInv ==
  ASSUME Inv, NEW r \in Request, NEW e, Serve(r, e),
         UNCHANGED <<tenant, user, role, member>>,
         NEW g \in Group, NEW n \in Name, NEW t \in Tenant, NameFree(g, n, t),
         group[g] = NoRow \/ GroupIn(g, t), tenant[t] # NoRow,
         group' = [group EXCEPT ![g] = [tenant |-> t, name |-> n, deleted |-> FALSE]]
  PROVE  Inv'
<1> DEFINE row == [tenant |-> t, name |-> n, deleted |-> FALSE]
<1>1. row \in GroupRow /\ row.tenant = t /\ row.name = n /\ row.deleted = FALSE
  BY DEF GroupRow
<1>2. group' = [group EXCEPT ![g] = row]
  OBVIOUS
<1> HIDE DEF row
<1>3. row # NoRow
  BY <1>1, AccountsAssumption
<1>4. \A o \in Group : group'[o] = (IF o = g THEN row ELSE group[o])
  BY <1>2 DEF Inv, TypeOK
<1>5. group' \in [Group -> GroupRow \cup {NoRow}]
  BY <1>1, <1>2 DEF Inv, TypeOK
<1>6. \A o \in Group : group'[o] # NoRow => tenant[group'[o].tenant] # NoRow
  BY <1>1, <1>4 DEF Inv, TypeOK
<1>7. MembersWithinTenant'
  <2>1. ASSUME NEW m \in member
        PROVE  /\ Live(m[1]) /\ group'[m[2]] # NoRow
               /\ user[m[1]].tenant = group'[m[2]].tenant
    <3>1. m[2] \in Group /\ Live(m[1]) /\ group[m[2]] # NoRow
          /\ user[m[1]].tenant = group[m[2]].tenant
      BY DEF Inv, TypeOK, MembersWithinTenant
    <3>2. CASE m[2] = g
      BY <1>1, <1>3, <1>4, <3>1, <3>2 DEF GroupIn
    <3>3. CASE m[2] # g
      BY <1>4, <3>1, <3>3
    <3> QED
      BY <3>2, <3>3
  <2> QED
    BY <2>1 DEF MembersWithinTenant, Live
<1>8. UniqueGroupNames'
  BY <1>1, <1>4 DEF Inv, UniqueGroupNames, NameFree, GroupIn
<1>9. member' \subseteq User \X Group
  BY DEF Inv, TypeOK
<1> HIDE DEF Inv
<1> QED
  BY <1>5, <1>6, <1>7, <1>8, <1>9, GroupStepInv

\* The row of a group under another name
LEMMA Renamed ==
  ASSUME NEW row \in GroupRow, NEW n \in Name
  PROVE  [row EXCEPT !.name = n]
           = [tenant |-> row.tenant, name |-> n, deleted |-> row.deleted]
<1>1. row = [tenant |-> row.tenant, name |-> row.name, deleted |-> row.deleted]
  BY DEF GroupRow
<1>2. \A a, b, c : [[tenant |-> a, name |-> b, deleted |-> c] EXCEPT !.name = n]
                     = [tenant |-> a, name |-> n, deleted |-> c]
  OBVIOUS
<1> QED
  BY <1>1, <1>2

\* A new group, or a renamed one
LEMMA NamingInv ==
  ASSUME Inv, NEW r \in Request, NEW g \in Group, NEW n \in Name,
         AddGroup(r, g, n) \/ UpdateGroup(r, g, n)
  PROVE  Inv'
<1> DEFINE t == req[r].tid
<1>1. PICK e : Serve(r, e)
  BY DEF AddGroup, UpdateGroup
<1>2. t \in Tenant /\ tenant[t] # NoRow
  BY <1>1, ServeRequest DEF Inv, Snapshot
<1>3. NameFree(g, n, t) /\ (group[g] = NoRow \/ GroupIn(g, t))
      /\ UNCHANGED <<tenant, user, role, member>>
  BY DEF AddGroup, UpdateGroup
<1>4. group' = [group EXCEPT ![g] = [tenant |-> t, name |-> n, deleted |-> FALSE]]
  <2>1. CASE AddGroup(r, g, n)
    BY <2>1 DEF AddGroup
  <2>2. CASE UpdateGroup(r, g, n)
    <3>1. GroupIn(g, t) /\ group' = [group EXCEPT ![g] = [group[g] EXCEPT !.name = n]]
      BY <2>2 DEF UpdateGroup
    <3>2. group[g] \in GroupRow /\ group[g].tenant = t /\ group[g].deleted = FALSE
      <4>1. group[g] \in GroupRow
        BY <3>1 DEF Inv, TypeOK, GroupIn
      <4>2. group[g].deleted \in BOOLEAN
        BY <4>1 DEF GroupRow
      <4> QED
        BY <3>1, <4>1, <4>2 DEF GroupIn
    <3> QED
      BY <3>1, <3>2, Renamed
  <2> QED
    BY <2>1, <2>2
<1> HIDE DEF t
<1> QED
  BY <1>1, <1>2, <1>3, <1>4, NameGivenInv

\* A deleted group loses its members and its claim to a name.
LEMMA DeleteGroupInv ==
  ASSUME Inv, NEW r \in Request, NEW g \in Group, DeleteGroup(r, g)
  PROVE  Inv'
<1> DEFINE row == [group[g] EXCEPT !.deleted = TRUE]
<1>1. Serve(r, "DeleteGroup") /\ GroupIn(g, req[r].tid)
      /\ member' = {m \in member : m[2] # g}
      /\ group' = [group EXCEPT ![g] = row]
      /\ UNCHANGED <<tenant, user, role>>
  BY DEF DeleteGroup
<1>2. group[g] \in GroupRow
  BY <1>1 DEF Inv, TypeOK, GroupIn
<1>3. row \in GroupRow /\ row.tenant = group[g].tenant /\ row.deleted = TRUE
  BY <1>2 DEF GroupRow
<1> HIDE DEF row
<1>4. \A o \in Group : group'[o] = (IF o = g THEN row ELSE group[o])
  BY <1>1 DEF Inv, TypeOK
<1>5. group' \in [Group -> GroupRow \cup {NoRow}]
  BY <1>1, <1>3 DEF Inv, TypeOK
<1>6. \A o \in Group : group'[o] # NoRow => tenant[group'[o].tenant] # NoRow
  BY <1>1, <1>3, <1>4 DEF Inv, TypeOK, GroupIn
<1>7. member' \subseteq member /\ \A m \in member' : m[2] \in Group /\ m[2] # g
  BY <1>1 DEF Inv, TypeOK
<1>8. MembersWithinTenant'
  BY <1>1, <1>4, <1>7 DEF Inv, MembersWithinTenant, Live
<1>9. UniqueGroupNames'
  BY <1>3, <1>4 DEF Inv, UniqueGroupNames
<1>10. member' \subseteq User \X Group
  BY <1>7 DEF Inv, TypeOK
<1> QED
  BY <1>1, <1>5, <1>6, <1>8, <1>9, <1>10, GroupStepInv

\* The users put into a group are of its tenant.
LEMMA SetGroupUsersInv ==
  ASSUME Inv, NEW r \in Request, NEW g \in Group, NEW us \in SUBSET User,
         SetGroupUsers(r, g, us)
  PROVE  Inv'
<1>1. Serve(r, "SetGroupUsers") /\ GroupIn(g, req[r].tid)
      /\ (\A u \in us : UserIn(u, group[g].tenant))
      /\ member' = {m \in member : m[2] # g} \cup us \X {g}
      /\ UNCHANGED <<tenant, user, role, group>>
  BY DEF SetGroupUsers
<1>2. \A m \in member' : m \in member \/ (m[1] \in us /\ m[2] = g)
  BY <1>1
<1>3. MembersWithinTenant'
  BY <1>1, <1>2 DEF Inv, MembersWithinTenant, UserIn, Live, GroupIn
<1>4. member' \subseteq User \X Group
  BY <1>1 DEF Inv, TypeOK
<1>5. group' \in [Group -> GroupRow \cup {NoRow}]
      /\ \A o \in Group : group'[o] # NoRow => tenant[group'[o].tenant] # NoRow
  BY <1>1 DEF Inv, TypeOK
<1>6. UniqueGroupNames'
  BY <1>1 DEF Inv, UniqueGroupNames
<1> QED
  BY <1>1, <1>3, <1>4, <1>5, <1>6, GroupStepInv

\* A tenant that exists stays, whatever becomes of its row.
LEMMA TenantStepInv ==
  ASSUME Inv, NEW r \in Request, NEW e, Serve(r, e),
         UNCHANGED <<user, role, group, member>>,
         NEW t \in Tenant, NEW row \in TenantRow, tenant' = [tenant EXCEPT ![t] = row]
  PROVE  Inv'
<1>1. row # NoRow
  BY AccountsAssumption
<1>2. \A s \in Tenant : tenant'[s] = (IF s = t THEN row ELSE tenant[s])
  BY DEF Inv, TypeOK
<1>3. \A u \in User : Live(u) => user[u].tenant \in Tenant
  BY DEF Inv, TypeOK, Live, UserRow
<1>4. \A g \in Group : group[g] # NoRow => group[g].tenant \in Tenant
  BY DEF Inv, TypeOK, GroupRow
<1>5. OneAdmin' /\ SnapshotsOfUsers'
  BY UsersKept
<1>6. req' \in [Request -> Snapshot \cup {NoReq}]
  BY ServeRequest DEF Inv
<1>7. tenant' \in [Tenant -> TenantRow \cup {NoRow}]
  BY DEF Inv, TypeOK
<1>8. TypeOK'
  BY <1>1, <1>2, <1>3, <1>4, <1>6, <1>7 DEF Inv, TypeOK, Live
<1>9. MembersWithinTenant' /\ UniqueGroupNames'
  BY DEF Inv, MembersWithinTenant, UniqueGroupNames, Live
<1> QED
  BY <1>5, <1>8, <1>9 DEF Inv

\* Each of the requests that change a tenant
LEMMA ChangeTenantInv ==
  ASSUME Inv, NEW r \in Request, ChangeTenant(r)
  PROVE  Inv'
<1>1. PICK t \in Tenant :
        \/ \E use \in BOOLEAN, solutions \in SUBSET Solution :
              AddTenant(r, t, use, solutions)
        \/ \E solutions \in SUBSET Solution : UpdateTenant(r, t, solutions)
        \/ ActivateTenant(r, t)
        \/ DeactivateTenant(r, t)
  BY DEF ChangeTenant
<1>2. PICK e : Serve(r, e)
  BY <1>1 DEF AddTenant, UpdateTenant, ActivateTenant, DeactivateTenant
<1>3. UNCHANGED <<user, role, group, member>>
  BY <1>1 DEF AddTenant, UpdateTenant, ActivateTenant, DeactivateTenant
<1>4. tenant[t] # NoRow => tenant[t] \in TenantRow
  BY DEF Inv, TypeOK
<1>5. \E row \in TenantRow : tenant' = [tenant EXCEPT ![t] = row]
  <2>1. ASSUME NEW use \in BOOLEAN, NEW solutions \in SUBSET Solution,
               AddTenant(r, t, use, solutions)
        PROVE  \E row \in TenantRow : tenant' = [tenant EXCEPT ![t] = row]
    <3>1. [use |-> use, solutions |-> solutions] \in TenantRow
      BY DEF TenantRow
    <3> QED
      BY <2>1, <3>1 DEF AddTenant
  <2>2. ASSUME NEW solutions \in SUBSET Solution, UpdateTenant(r, t, solutions)
        PROVE  \E row \in TenantRow : tenant' = [tenant EXCEPT ![t] = row]
    <3>1. tenant[t] # NoRow
          /\ tenant' = [tenant EXCEPT ![t] = [tenant[t] EXCEPT !.solutions = solutions]]
      BY <2>2 DEF UpdateTenant
    <3>2. [tenant[t] EXCEPT !.solutions = solutions] \in TenantRow
      BY <1>4, <3>1 DEF TenantRow
    <3> QED
      BY <3>1, <3>2
  <2>3. ASSUME ActivateTenant(r, t)
        PROVE  \E row \in TenantRow : tenant' = [tenant EXCEPT ![t] = row]
    <3>1. tenant[t] # NoRow
          /\ tenant' = [tenant EXCEPT ![t] = [tenant[t] EXCEPT !.use = TRUE]]
      BY <2>3 DEF ActivateTenant
    <3>2. [tenant[t] EXCEPT !.use = TRUE] \in TenantRow
      BY <1>4, <3>1 DEF TenantRow
    <3> QED
      BY <3>1, <3>2
  <2>4. ASSUME DeactivateTenant(r, t)
        PROVE  \E row \in TenantRow : tenant' = [tenant EXCEPT ![t] = row]
    <3>1. tenant[t] # NoRow
          /\ tenant' = [tenant EXCEPT ![t] = [tenant[t] EXCEPT !.use = FALSE]]
      BY <2>4 DEF DeactivateTenant
    <3>2. [tenant[t] EXCEPT !.use = FALSE] \in TenantRow
      BY <1>4, <3>1 DEF TenantRow
    <3> QED
      BY <3>1, <3>2
  <2> QED
    BY <1>1, <2>1, <2>2, <2>3, <2>4
<1> QED
  BY <1>2, <1>3, <1>5, TenantStepInv

\* Every step keeps to the invariant.
LEMMA NextInv == Inv /\ [Next]_vars => Inv'
<1> SUFFICES ASSUME Inv, [Next]_vars PROVE Inv'
  OBVIOUS
<1>1. ASSUME NEW r \in Request, NEW u \in User, NEW t \in Tenant,
             VerifySession(r, u, t)
      PROVE  Inv'
  BY <1>1, VerifySessionInv
<1>2. ASSUME NEW r \in Request, ChangeUser(r)
      PROVE  Inv'
  <2>1. ASSUME NEW u \in User, NEW roles \in SUBSET Role, NEW groups \in SUBSET Group,
               NEW profile \in Profile, AddUser(r, u, roles, groups, profile)
        PROVE  Inv'
    BY <2>1, AddUserInv
  <2>2. ASSUME NEW u \in User, NEW roles \in SUBSET Role, NEW profile \in Profile,
               UpdateUser(r, u, roles, profile)
        PROVE  Inv'
    BY <2>2, UpdateUserInv
  <2>3. ASSUME NEW u \in User, DeleteUser(r, u)
        PROVE  Inv'
    BY <2>3, DeleteUserInv
  <2>4. CASE UpdateUserPassword(r) \/ \E u \in User : ResetUserPassword(r, u)
    BY <2>4, PasswordRequestsInv
  <2> QED
    BY <1>2, <2>1, <2>2, <2>3, <2>4 DEF ChangeUser, ChangePassword
<1>3. ASSUME NEW r \in Request, ChangeGroup(r)
      PROVE  Inv'
  <2>1. ASSUME NEW g \in Group, NEW n \in Name, AddGroup(r, g, n) \/ UpdateGroup(r, g, n)
        PROVE  Inv'
    BY <2>1, NamingInv
  <2>2. ASSUME NEW g \in Group, DeleteGroup(r, g)
        PROVE  Inv'
    BY <2>2, DeleteGroupInv
  <2>3. ASSUME NEW g \in Group, NEW us \in SUBSET User, SetGroupUsers(r, g, us)
        PROVE  Inv'
    BY <2>3, SetGroupUsersInv
  <2> QED
    BY <1>3, <2>1, <2>2, <2>3 DEF ChangeGroup
<1>4. ASSUME NEW r \in Request, ChangeTenant(r)
      PROVE  Inv'
  BY <1>4, ChangeTenantInv
<1>5. ASSUME NEW r \in Request, Refuse(r)
      PROVE  Inv'
  BY <1>5, RefuseInv
<1>6. CASE UNCHANGED vars
  BY <1>6 DEF vars, Inv, TypeOK, OneAdmin, MembersWithinTenant, UniqueGroupNames,
              SnapshotsOfUsers, Live
<1> QED
  BY <1>1, <1>2, <1>3, <1>4, <1>5, <1>6 DEF Next

\* The inductive invariant holds throughout.
LEMMA SpecInv == Spec => []Inv
  BY InitInv, NextInv, PTL DEF Spec

-----------------------------------------------------------------------------
(* The invariants                                                          *)

\* Types, and that rows and snapshots refer to tenants that exist, whatever the
\* requests (the foreign keys the handlers have to respect)
THEOREM TypeCorrect == Spec => []TypeOK
<1>1. Inv => TypeOK
  BY DEF Inv
<1> QED
  BY <1>1, SpecInv, PTL

\* No sequence of requests makes a second administrator or loses the first one
\* (validateUserAdd, validateUserUpdate, validateUserDelete).
THEOREM AdminUnique == Spec => []OneAdmin
<1>1. Inv => OneAdmin
  BY DEF Inv
<1> QED
  BY <1>1, SpecInv, PTL

\* The members of a group are users of its tenant (updateUserGroupRelations,
\* setGroupUsers, deleteUser).
THEOREM MembersOfTenant == Spec => []MembersWithinTenant
<1>1. Inv => MembersWithinTenant
  BY DEF Inv
<1> QED
  BY <1>1, SpecInv, PTL

\* Two groups of a tenant that are not deleted have different names
\* (validateGroupAdd, validateUpdateGroup).
THEOREM NamesUnique == Spec => []UniqueGroupNames
<1>1. Inv => UniqueGroupNames
  BY DEF Inv
<1> QED
  BY <1>1, SpecInv, PTL

-----------------------------------------------------------------------------
(* The action properties                                                   *)

\* The snapshot of anyone but the administrator has no role "admin", so that its
\* request is about the tenant of the requester.
LEMMA NotAdmin ==
  ASSUME Inv, NEW r \in Request, NEW e, Serve(r, e), req[r].user # AdminUser
  PROVE  ~ IsAdmin(req[r]) /\ req[r].tid = req[r].tenant
  BY ServeRequest DEF Inv, OneAdmin, IsAdmin, Serve

\* Whoever may change a tenant is the administrator.
LEMMA TenantsByAdmin ==
  ASSUME Inv, NEW r \in Request, ChangeTenant(r)
  PROVE  /\ \E e : Serve(r, e)
         /\ req[r].user = AdminUser /\ IsAdmin(req[r])
         /\ UNCHANGED <<user, role, group, member>>
<1>1. PICK e \in {"AddTenant", "UpdateTenant", "ActivateTenant", "DeactivateTenant"} :
        Serve(r, e)
  BY DEF ChangeTenant, AddTenant, UpdateTenant, ActivateTenant, DeactivateTenant
<1>2. Policy(e) = "admin"
  BY <1>1 DEF Policy
<1>3. IsAdmin(req[r])
  BY <1>1, <1>2 DEF Serve, Authorized, Enforce, IsAdmin
<1>4. req[r].user = AdminUser
  BY <1>1, <1>3, NotAdmin
<1>5. UNCHANGED <<user, role, group, member>>
  BY DEF ChangeTenant, AddTenant, UpdateTenant, ActivateTenant, DeactivateTenant
<1> QED
  BY <1>1, <1>3, <1>4, <1>5

\* Verifying a session ends no request.
LEMMA VerifyEndsNone ==
  ASSUME Inv, NEW r \in Request, NEW u \in User, NEW t \in Tenant,
         VerifySession(r, u, t)
  PROVE  \A q \in Request : ~ Ends(q)
  BY DEF VerifySession, Inv, TypeOK, Ends

\* The request that sets a password sets the administrator's only for the
\* administrator, and changes one row of the requester's tenant or the requester's.
LEMMA PasswordStep ==
  ASSUME Inv, NEW r \in Request,
         UpdateUserPassword(r) \/ \E u \in User : ResetUserPassword(r, u)
  PROVE  /\ \E e : Serve(r, e)
         /\ UNCHANGED <<tenant, role, group, member>>
         /\ \A u \in User :
              user'[u] # user[u] =>
                /\ u = AdminUser => req[r].user = AdminUser
                /\ u = req[r].user \/ UserIn(u, req[r].tid)
                /\ Live(u) /\ user'[u].tenant = user[u].tenant
<1>1. ASSUME NEW u \in User, ResetUserPassword(r, u), u = AdminUser
      PROVE  req[r].user = AdminUser
  <2>1. Serve(r, "ResetUserPassword") /\ "manager" \notin req[r].roles
    BY <1>1 DEF ResetUserPassword, IsManager
  <2>2. Policy("ResetUserPassword") = "manager"
    BY DEF Policy
  <2>3. IsAdmin(req[r])
    BY <2>1, <2>2 DEF Serve, Authorized, Enforce, IsAdmin
  <2> QED
    BY <2>1, <2>3, NotAdmin
<1>2. ASSUME NEW u \in User, ResetUserPassword(r, u)
      PROVE  /\ UserIn(u, req[r].tid) /\ Live(u) /\ user'[u].tenant = user[u].tenant
             /\ \A v \in User : v # u => user'[v] = user[v]
  <2>1. Live(u) /\ UserIn(u, req[r].tid)
        /\ user' = [user EXCEPT ![u] = [user[u] EXCEPT !.generated = TRUE]]
    BY <1>2 DEF ResetUserPassword, UserIn
  <2>2. [user[u] EXCEPT !.generated = TRUE].tenant = user[u].tenant
    BY <2>1, FlagSet DEF Inv
  <2> QED
    BY <2>1, <2>2 DEF Inv, TypeOK
<1>3. ASSUME UpdateUserPassword(r)
      PROVE  /\ Live(req[r].user) /\ user'[req[r].user].tenant = user[req[r].user].tenant
             /\ \A v \in User : v # req[r].user => user'[v] = user[v]
  <2> DEFINE u == req[r].user
  <2>1. Live(u) /\ user' = [user EXCEPT ![u] = [user[u] EXCEPT !.generated = FALSE]]
    BY <1>3 DEF UpdateUserPassword
  <2>2. u \in User
    BY <1>3, ServeRequest DEF UpdateUserPassword, Inv, Snapshot
  <2> HIDE DEF u
  <2>3. [user[u] EXCEPT !.generated = FALSE].tenant = user[u].tenant
    BY <2>1, <2>2, FlagSet DEF Inv
  <2>4. user'[u].tenant = user[u].tenant /\ \A v \in User : v # u => user'[v] = user[v]
    BY <2>1, <2>2, <2>3 DEF Inv, TypeOK
  <2> QED
    BY <2>1, <2>4 DEF u
<1>4. (\E e : Serve(r, e)) /\ UNCHANGED <<tenant, role, group, member>>
  BY DEF UpdateUserPassword, ResetUserPassword
<1>5. ASSUME NEW u \in User, user'[u] # user[u]
      PROVE  /\ u = AdminUser => req[r].user = AdminUser
             /\ u = req[r].user \/ UserIn(u, req[r].tid)
             /\ Live(u) /\ user'[u].tenant = user[u].tenant
  <2>1. CASE UpdateUserPassword(r)
    BY <1>3, <1>5, <2>1
  <2>2. ASSUME NEW v \in User, ResetUserPassword(r, v)
        PROVE  /\ u = AdminUser => req[r].user = AdminUser
               /\ u = req[r].user \/ UserIn(u, req[r].tid)
               /\ Live(u) /\ user'[u].tenant = user[u].tenant
    <3>1. u = v
      BY <1>2, <1>5, <2>2
    <3> QED
      BY <1>1, <1>2, <2>2, <3>1
  <2> QED
    BY <2>1, <2>2
<1> QED
  BY <1>4, <1>5

\* The administrator's row and roles change on its own request only: everyone else's
\* is turned away by the checks of the handlers, whatever their snapshot says.
LEMMA AdminUntouchedStep ==
  ASSUME Inv, [Next]_vars,
         user'[AdminUser] # user[AdminUser] \/ role'[AdminUser] # role[AdminUser]
  PROVE  \E r \in Request : Ends(r) /\ req[r].user = AdminUser
<1> USE AccountsAssumption
<1>1. PICK r \in Request : ChangeUser(r)
  <2>1. ~ UNCHANGED <<user, role>>
    OBVIOUS
  <2>2. \A r \in Request : ~ ChangeTenant(r)
    BY <2>1, TenantsByAdmin
  <2>3. \A r \in Request : ~ ChangeGroup(r)
    BY <2>1 DEF ChangeGroup, AddGroup, UpdateGroup, DeleteGroup, SetGroupUsers
  <2>4. \A r \in Request, u \in User, t \in Tenant : ~ VerifySession(r, u, t)
    BY <2>1 DEF VerifySession
  <2>5. \A r \in Request : ~ Refuse(r)
    BY <2>1 DEF Refuse
  <2> QED
    BY <2>1, <2>2, <2>3, <2>4, <2>5 DEF Next, vars
<1>2. ASSUME NEW u \in User, NEW roles \in SUBSET Role, NEW groups \in SUBSET Group,
             NEW profile \in Profile, AddUser(r, u, roles, groups, profile)
      PROVE  FALSE
  <2>1. u # AdminUser /\ AdminUser \in User
    BY <1>2 DEF AddUser, ValidUserAdd, Inv, OneAdmin, Live
  <2> QED
    BY <1>2, <2>1 DEF AddUser, Inv, TypeOK
<1>3. ASSUME NEW u \in User, NEW roles \in SUBSET Role, NEW profile \in Profile,
             UpdateUser(r, u, roles, profile)
      PROVE  req[r].user = AdminUser /\ \E e : Serve(r, e)
  <2>1. Serve(r, "UpdateUser") /\ MayUpdate(req[r], u, roles)
        /\ (role' = role \/ (u # AdminUser /\ role' = [role EXCEPT ![u] = roles]))
    BY <1>3 DEF UpdateUser, AssignsRelations
  <2>2. u = AdminUser
    BY <1>3, <2>1, ProfileSaved DEF Inv, TypeOK
  <2>3. IsAdmin(req[r])
    BY <2>1, <2>2 DEF MayUpdate
  <2> QED
    BY <2>1, <2>3, NotAdmin
<1>4. ASSUME NEW u \in User, DeleteUser(r, u)
      PROVE  FALSE
  <2>1. u # AdminUser
    BY <1>4 DEF DeleteUser, Inv, OneAdmin
  <2> QED
    BY <1>4, <2>1 DEF DeleteUser, Inv, TypeOK
<1>5. ASSUME UpdateUserPassword(r) \/ \E u \in User : ResetUserPassword(r, u)
      PROVE  req[r].user = AdminUser /\ \E e : Serve(r, e)
  <2>1. role' = role
    BY <1>5 DEF UpdateUserPassword, ResetUserPassword
  <2> QED
    BY <1>5, <2>1, PasswordStep
<1>6. req[r].user = AdminUser /\ \E e : Serve(r, e)
  BY <1>1, <1>2, <1>3, <1>4, <1>5 DEF ChangeUser, ChangePassword
<1>7. Ends(r)
  BY <1>6, ServeRequest DEF Serve, Ends, Inv
<1> QED
  BY <1>6, <1>7

\* Nobody but the administrator changes the administrator's account: not its data
\* (validateUserUpdate), not its password (validateUserPasswordReset), not its roles.
THEOREM AdminProtected == Spec => AdminUntouched
<1>1. Inv /\ [Next]_vars
        => [user'[AdminUser] # user[AdminUser] \/ role'[AdminUser] # role[AdminUser]
              => \E r \in Request : Ends(r) /\ req[r].user = AdminUser]_vars
  BY AdminUntouchedStep
<1> QED
  BY <1>1, SpecInv, PTL DEF Spec, AdminUntouched

\* What an ordinary user's request may do, other than nothing
LEMMA OrdinaryRequest ==
  ASSUME Inv, NEW r \in Request, NEW e, Serve(r, e),
         req[r].roles \cap {"admin", "manager"} = {}
  PROVE  e \in {"UpdateUser", "UpdateUserPassword", "GetUser"}
<1>1. PICK ro \in req[r].roles \cup {"user"} : Enforce(ro, e)
  BY DEF Serve, Authorized
<1>2. Policy(e) \notin {"admin", "manager"}
  BY <1>1 DEF Enforce
<1> QED
  BY <1>2 DEF Policy

\* A request of someone who was neither administrator nor manager is let through to
\* two handlers that change anything, and these confine it to the requester's row.
LEMMA OrdinaryStep ==
  ASSUME Inv, [Next]_vars, NEW r \in Request, Ends(r),
         req[r].roles \cap {"admin", "manager"} = {}
  PROVE  /\ \A u \in User \ {req[r].user} : user'[u] = user[u]
         /\ UNCHANGED <<tenant, role, group, member>>
<1> DEFINE Goal == /\ \A u \in User \ {req[r].user} : user'[u] = user[u]
                   /\ UNCHANGED <<tenant, role, group, member>>
<1>1. ASSUME NEW q \in Request, NEW u \in User, NEW t \in Tenant,
             VerifySession(q, u, t)
      PROVE  Goal
  BY <1>1, VerifyEndsNone
<1>2. ASSUME NEW q \in Request, NEW e, Serve(q, e)
      PROVE  q = r /\ e \in {"UpdateUser", "UpdateUserPassword", "GetUser"}
  <2>1. q = r
    BY <1>2, ServeRequest DEF Inv
  <2> QED
    BY <1>2, <2>1, OrdinaryRequest
<1>3. ASSUME NEW q \in Request, ChangeUser(q)
      PROVE  Goal
  <2>1. ASSUME NEW u \in User, NEW roles \in SUBSET Role, NEW profile \in Profile,
               UpdateUser(q, u, roles, profile)
        PROVE  Goal
    <3>1. q = r
      BY <1>2, <2>1 DEF UpdateUser
    <3>2. ~ IsAdmin(req[r]) /\ ~ IsManager(req[r])
      BY DEF IsAdmin, IsManager
    <3>3. u = req[r].user
      BY <2>1, <3>1, <3>2 DEF UpdateUser, MayUpdate
    <3>4. \A v \in User : v # u => user'[v] = user[v]
      BY <2>1, ProfileSaved
    <3>5. UNCHANGED <<tenant, role, group, member>>
      BY <2>1, <3>1, <3>2 DEF UpdateUser, AssignsRelations
    <3> QED
      BY <3>3, <3>4, <3>5
  <2>2. ASSUME UpdateUserPassword(q)
        PROVE  Goal
    <3>1. q = r
      BY <1>2, <2>2 DEF UpdateUserPassword
    <3> QED
      BY <2>2, <3>1 DEF UpdateUserPassword, Inv, TypeOK
  <2>3. ASSUME NEW u \in User, NEW roles \in SUBSET Role, NEW groups \in SUBSET Group,
               NEW profile \in Profile, AddUser(q, u, roles, groups, profile)
        PROVE  FALSE
    BY <1>2, <2>3 DEF AddUser
  <2>4. ASSUME NEW u \in User, DeleteUser(q, u) \/ ResetUserPassword(q, u)
        PROVE  FALSE
    BY <1>2, <2>4 DEF DeleteUser, ResetUserPassword
  <2> HIDE DEF Goal
  <2> QED
    BY <1>3, <2>1, <2>2, <2>3, <2>4 DEF ChangeUser, ChangePassword
<1>4. ASSUME NEW q \in Request, ChangeGroup(q)
      PROVE  FALSE
  BY <1>2, <1>4 DEF ChangeGroup, AddGroup, UpdateGroup, DeleteGroup, SetGroupUsers
<1>5. ASSUME NEW q \in Request, ChangeTenant(q)
      PROVE  FALSE
  BY <1>2, <1>5 DEF ChangeTenant, AddTenant, UpdateTenant, ActivateTenant,
                    DeactivateTenant
<1>6. ASSUME NEW q \in Request, Refuse(q)
      PROVE  Goal
  BY <1>6 DEF Refuse
<1>7. CASE UNCHANGED vars
  BY <1>7 DEF vars
<1> QED
  BY <1>1, <1>3, <1>4, <1>5, <1>6, <1>7 DEF Next

\* Users who are neither administrator nor manager change the row of their own
\* account (validateUserUpdate), nobody else's, and neither roles nor groups.
THEOREM OrdinaryConfined == Spec => OrdinaryUsersChangeThemselves
<1>1. Inv /\ [Next]_vars
        => [\A r \in Request :
              Ends(r) /\ req[r].roles \cap {"admin", "manager"} = {} =>
                /\ \A u \in User \ {req[r].user} : user'[u] = user[u]
                /\ UNCHANGED <<tenant, role, group, member>>]_vars
  BY OrdinaryStep
<1> QED
  BY <1>1, SpecInv, PTL DEF Spec, OrdinaryUsersChangeThemselves

-----------------------------------------------------------------------------
(* Isolation of tenants                                                    *)

\* What a step may change when it is confined to tenant t
Confined(t) ==
  /\ tenant' = tenant
  /\ \A u \in User :
       user'[u] # user[u] \/ role'[u] # role[u] => Of(user[u], user'[u], t)
  /\ \A g \in Group : group'[g] # group[g] => Of(group[g], group'[g], t)
  /\ \A m \in (member \cup member') \ (member \cap member') :
       Of(group[m[2]], group'[m[2]], t)

\* A user's relations are to groups of the user's tenant, the old as the new ones.
LEMMA RelationsConfined ==
  ASSUME Inv, NEW u \in User, NEW t \in Tenant, NEW groups \in SUBSET Group,
         ~ Live(u) \/ UserIn(u, t), groups \subseteq AssignableGroups(t),
         member' = UserGroupRelations(u, groups), group' = group
  PROVE  \A m \in (member \cup member') \ (member \cap member') :
           Of(group[m[2]], group'[m[2]], t)
<1> SUFFICES ASSUME NEW m \in (member \cup member') \ (member \cap member')
             PROVE  group[m[2]].tenant = t
  BY DEF Of
<1>1. CASE m \in member
  <2>1. m[1] = u
    BY <1>1 DEF UserGroupRelations
  <2> QED
    BY <1>1, <2>1 DEF Inv, MembersWithinTenant, UserIn
<1>2. CASE m \in member' /\ m \notin member
  <2>1. m \in {u} \X groups
    BY <1>2 DEF UserGroupRelations
  <2> QED
    BY <2>1 DEF AssignableGroups
<1> QED
  BY <1>1, <1>2

\* Requests that change users
LEMMA UsersConfined ==
  ASSUME Inv, NEW r \in Request, ChangeUser(r), req[r].user # AdminUser
  PROVE  Confined(req[r].tenant)
<1> DEFINE t == req[r].tenant
<1>1. PICK e : Serve(r, e)
  BY DEF ChangeUser, ChangePassword, AddUser, UpdateUser, DeleteUser, UpdateUserPassword,
         ResetUserPassword
<1>2. t \in Tenant /\ req[r].tid = t /\ req[r].user \in User
  BY <1>1, NotAdmin, ServeRequest DEF Inv, Snapshot
<1>3. UserIn(req[r].user, t) \/ ~ Live(req[r].user)
  BY <1>1 DEF Serve, Inv, SnapshotsOfUsers, UserIn
<1> HIDE DEF t
<1>4. ASSUME NEW u \in User, NEW roles \in SUBSET Role, NEW groups \in SUBSET Group,
             NEW profile \in Profile, AddUser(r, u, roles, groups, profile)
      PROVE  Confined(t)
  <2>1. user[u] = NoRow /\ groups \subseteq AssignableGroups(t)
        /\ user' = [user EXCEPT ![u] = [tenant |-> t, generated |-> TRUE,
                                       profile |-> profile]]
        /\ role' = [role EXCEPT ![u] = roles]
        /\ member' = UserGroupRelations(u, groups)
        /\ UNCHANGED <<tenant, group>>
    BY <1>2, <1>4 DEF AddUser, ValidUserAdd
  <2>2. \A m \in (member \cup member') \ (member \cap member') :
          Of(group[m[2]], group'[m[2]], t)
    BY <1>2, <2>1, RelationsConfined DEF Live
  <2>3. user'[u].tenant = t /\ \A v \in User \ {u} : user'[v] = user[v] /\ role'[v] = role[v]
    BY <2>1 DEF Inv, TypeOK
  <2> QED
    BY <2>1, <2>2, <2>3 DEF Confined, Of
<1>5. ASSUME NEW u \in User, NEW roles \in SUBSET Role, NEW profile \in Profile,
             UpdateUser(r, u, roles, profile)
      PROVE  Confined(t)
  <2>1. UserIn(u, t) /\ UNCHANGED <<tenant, group>>
    BY <1>2, <1>5 DEF UpdateUser
  <2>2. /\ user[u].tenant = t /\ user'[u].tenant = t
        /\ \A v \in User : v # u => user'[v] = user[v]
    BY <1>2, <1>5, ProfileSaved
  <2>3. CASE UNCHANGED <<role, member>>
    BY <2>1, <2>2, <2>3 DEF Confined, Of
  <2>4. CASE ~ UNCHANGED <<role, member>>
    <3>1. PICK groups \in SUBSET AssignableGroups(t) : member' = UserGroupRelations(u, groups)
      BY <1>2, <1>5, <2>4 DEF UpdateUser
    <3>2. role' = [role EXCEPT ![u] = roles]
      BY <1>5, <2>4 DEF UpdateUser
    <3>3. groups \in SUBSET Group
      BY <3>1 DEF AssignableGroups
    <3>4. \A m \in (member \cup member') \ (member \cap member') :
            Of(group[m[2]], group'[m[2]], t)
      BY <1>2, <2>1, <3>1, <3>3, RelationsConfined
    <3>5. \A v \in User \ {u} : role'[v] = role[v]
      BY <3>2 DEF Inv, TypeOK
    <3> QED
      BY <2>1, <2>2, <3>4, <3>5 DEF Confined, Of
  <2> QED
    BY <2>3, <2>4
<1>6. ASSUME NEW u \in User, DeleteUser(r, u)
      PROVE  Confined(t)
  <2>1. UserIn(u, t) /\ user' = [user EXCEPT ![u] = Gone]
        /\ role' = [role EXCEPT ![u] = {}]
        /\ member' = UserGroupRelations(u, {})
        /\ UNCHANGED <<tenant, group>>
    BY <1>2, <1>6 DEF DeleteUser
  <2>2. \A m \in (member \cup member') \ (member \cap member') :
          Of(group[m[2]], group'[m[2]], t)
    BY <1>2, <2>1, RelationsConfined
  <2>3. user[u].tenant = t /\ user'[u] = Gone
        /\ \A v \in User \ {u} : user'[v] = user[v] /\ role'[v] = role[v]
    BY <2>1 DEF UserIn, Inv, TypeOK
  <2> QED
    BY <2>1, <2>2, <2>3 DEF Confined, Of
<1>7. ASSUME UpdateUserPassword(r) \/ \E u \in User : ResetUserPassword(r, u)
      PROVE  Confined(t)
  <2>1. UNCHANGED <<tenant, role, group, member>>
    BY <1>7, PasswordStep
  <2>2. \A u \in User : user'[u] # user[u] =>
          UserIn(u, t) /\ user'[u].tenant = user[u].tenant
    BY <1>2, <1>3, <1>7, PasswordStep
  <2> QED
    BY <2>1, <2>2 DEF Confined, Of, UserIn
<1>8. Confined(t)
  BY <1>4, <1>5, <1>6, <1>7 DEF ChangeUser, ChangePassword
<1> QED
  BY <1>8 DEF t

\* Requests that change groups
LEMMA GroupsConfined ==
  ASSUME Inv, NEW r \in Request, ChangeGroup(r), req[r].user # AdminUser
  PROVE  Confined(req[r].tenant)
<1> DEFINE t == req[r].tenant
<1>1. PICK e : Serve(r, e)
  BY DEF ChangeGroup, AddGroup, UpdateGroup, DeleteGroup, SetGroupUsers
<1>2. t \in Tenant /\ req[r].tid = t
  BY <1>1, NotAdmin, ServeRequest DEF Inv, Snapshot
<1> HIDE DEF t
<1>3. ASSUME NEW g \in Group, NEW n \in Name, AddGroup(r, g, n)
      PROVE  Confined(t)
  <2>1. group[g] = NoRow /\ UNCHANGED <<tenant, user, role, member>>
        /\ group' = [group EXCEPT ![g] = [tenant |-> t, name |-> n, deleted |-> FALSE]]
    BY <1>2, <1>3 DEF AddGroup
  <2>2. group'[g].tenant = t /\ \A o \in Group \ {g} : group'[o] = group[o]
    BY <2>1 DEF Inv, TypeOK
  <2> QED
    BY <2>1, <2>2 DEF Confined, Of
<1>4. ASSUME NEW g \in Group, NEW n \in Name, UpdateGroup(r, g, n)
      PROVE  Confined(t)
  <2>1. GroupIn(g, t) /\ UNCHANGED <<tenant, user, role, member>>
        /\ group' = [group EXCEPT ![g] = [group[g] EXCEPT !.name = n]]
    BY <1>2, <1>4 DEF UpdateGroup
  <2>2. group[g] \in GroupRow /\ group[g].tenant = t
    BY <2>1 DEF GroupIn, Inv, TypeOK
  <2>3. [group[g] EXCEPT !.name = n].tenant = t
    BY <2>2 DEF GroupRow
  <2>4. group'[g].tenant = t /\ \A o \in Group \ {g} : group'[o] = group[o]
    BY <2>1, <2>3 DEF Inv, TypeOK
  <2> QED
    BY <2>1, <2>2, <2>4 DEF Confined, Of
<1>5. ASSUME NEW g \in Group, DeleteGroup(r, g)
      PROVE  Confined(t)
  <2>1. GroupIn(g, t) /\ UNCHANGED <<tenant, user, role>>
        /\ group' = [group EXCEPT ![g] = [group[g] EXCEPT !.deleted = TRUE]]
        /\ member' = {m \in member : m[2] # g}
    BY <1>2, <1>5 DEF DeleteGroup
  <2>2. group[g] \in GroupRow /\ group[g].tenant = t
    BY <2>1 DEF GroupIn, Inv, TypeOK
  <2>3. [group[g] EXCEPT !.deleted = TRUE].tenant = t
    BY <2>2 DEF GroupRow
  <2>4. group'[g].tenant = t /\ \A o \in Group \ {g} : group'[o] = group[o]
    BY <2>1, <2>3 DEF Inv, TypeOK
  <2>5. \A m \in (member \cup member') \ (member \cap member') : m[2] = g
    BY <2>1
  <2> QED
    BY <2>1, <2>2, <2>4, <2>5 DEF Confined, Of
<1>6. ASSUME NEW g \in Group, NEW us \in SUBSET User, SetGroupUsers(r, g, us)
      PROVE  Confined(t)
  <2>1. group[g].tenant = t /\ UNCHANGED <<tenant, user, role, group>>
        /\ member' = {m \in member : m[2] # g} \cup us \X {g}
    BY <1>2, <1>6 DEF SetGroupUsers, GroupIn
  <2>2. \A m \in (member \cup member') \ (member \cap member') : m[2] = g
    BY <2>1
  <2> QED
    BY <2>1, <2>2 DEF Confined, Of
<1>7. Confined(t)
  BY <1>3, <1>4, <1>5, <1>6 DEF ChangeGroup
<1> QED
  BY <1>7 DEF t

\* A request of anyone but the administrator is confined to the requester's tenant.
LEMMA IsolationStep ==
  ASSUME Inv, [Next]_vars, NEW r \in Request, Ends(r), req[r].user # AdminUser
  PROVE  /\ Live(req[r].user) => user[req[r].user].tenant = req[r].tenant
         /\ Confined(req[r].tenant)
<1>1. Live(req[r].user) => user[req[r].user].tenant = req[r].tenant
  BY DEF Ends, Inv, SnapshotsOfUsers
<1>2. ASSUME NEW q \in Request, ChangeUser(q) \/ ChangeGroup(q) \/ ChangeTenant(q)
      PROVE  q = r
  <2>1. PICK e : Serve(q, e)
    BY <1>2 DEF ChangeUser, ChangePassword, AddUser, UpdateUser, DeleteUser, UpdateUserPassword,
                ResetUserPassword, ChangeGroup, AddGroup, UpdateGroup, DeleteGroup,
                SetGroupUsers, ChangeTenant, AddTenant, UpdateTenant, ActivateTenant,
                DeactivateTenant
  <2> QED
    BY <2>1, ServeRequest DEF Inv
<1>3. ASSUME NEW q \in Request, NEW u \in User, NEW t \in Tenant,
             VerifySession(q, u, t)
      PROVE  FALSE
  BY <1>3, VerifyEndsNone
<1>4. ASSUME NEW q \in Request, ChangeTenant(q)
      PROVE  FALSE
  BY <1>2, <1>4, TenantsByAdmin
<1>5. ASSUME NEW q \in Request, ChangeUser(q) \/ ChangeGroup(q)
      PROVE  Confined(req[r].tenant)
  BY <1>2, <1>5, UsersConfined, GroupsConfined
<1>6. ASSUME NEW q \in Request, Refuse(q)
      PROVE  Confined(req[r].tenant)
  BY <1>6 DEF Refuse, Confined
<1>7. CASE UNCHANGED vars
  BY <1>1, <1>7 DEF vars, Confined
<1> QED
  BY <1>1, <1>3, <1>4, <1>5, <1>6, <1>7 DEF Next

\* No request but the administrator's reaches into another tenant.
THEOREM TenantsIsolated == Spec => TenantIsolation
<1>1. Inv /\ [Next]_vars
        => [\A r \in Request :
              Ends(r) /\ req[r].user # AdminUser =>
                LET t == req[r].tenant IN
                /\ Live(req[r].user) => user[req[r].user].tenant = t
                /\ tenant' = tenant
                /\ \A u \in User :
                     user'[u] # user[u] \/ role'[u] # role[u]
                       => Of(user[u], user'[u], t)
                /\ \A g \in Group : group'[g] # group[g] => Of(group[g], group'[g], t)
                /\ \A m \in (member \cup member') \ (member \cap member') :
                     Of(group[m[2]], group'[m[2]], t)]_vars
  <2> SUFFICES ASSUME Inv, [Next]_vars, NEW r \in Request, Ends(r),
                      req[r].user # AdminUser
               PROVE  /\ Live(req[r].user) => user[req[r].user].tenant = req[r].tenant
                      /\ Confined(req[r].tenant)
    BY Zenon DEF Confined
  <2> QED
    BY IsolationStep
<1> QED
  BY <1>1, SpecInv, PTL DEF Spec, TenantIsolation

-----------------------------------------------------------------------------
(* Accounts under Identity                                                 *)

\* A change of configuration is a request that changes no account.
LEMMA SetConfigRefuses ==
  ASSUME NEW r \in Request, NEW c, SetConfig(r, c)
  PROVE  Refuse(r)
  BY DEF SetConfig, Refuse, Serve

\* Every step of Identity is one of Accounts, or none.
LEMMA AccountsStep == [IdentityNext]_<<vars, conf>> => [Next]_vars
  BY SetConfigRefuses DEF IdentityNext, Next

\* What is proved of the accounts holds while their tenants are configured.
THEOREM AccountsKept == IdentitySpec => Spec
<1> QED
  BY AccountsStep, PTL DEF IdentitySpec, IdentityInit, Spec

\* No request takes a tenant away.
LEMMA TenantsStay ==
  ASSUME Inv, [Next]_vars, NEW t \in Tenant, tenant[t] # NoRow
  PROVE  tenant'[t] # NoRow
<1>1. ASSUME NEW r \in Request, ChangeTenant(r)
      PROVE  tenant'[t] # NoRow
  <2>1. PICK s \in Tenant :
          \/ \E use \in BOOLEAN, solutions \in SUBSET Solution :
                AddTenant(r, s, use, solutions)
          \/ \E solutions \in SUBSET Solution : UpdateTenant(r, s, solutions)
          \/ ActivateTenant(r, s)
          \/ DeactivateTenant(r, s)
    BY <1>1 DEF ChangeTenant
  <2>2. CASE s # t
    BY <2>1, <2>2 DEF AddTenant, UpdateTenant, ActivateTenant, DeactivateTenant, Inv, TypeOK
  <2>3. CASE s = t
    <3>1. tenant[t] \in TenantRow
      BY DEF Inv, TypeOK
    <3>2. ASSUME NEW solutions \in SUBSET Solution, UpdateTenant(r, t, solutions)
          PROVE  tenant'[t] \in TenantRow
      <4>1. tenant'[t] = [tenant[t] EXCEPT !.solutions = solutions]
        BY <3>2 DEF UpdateTenant, Inv, TypeOK
      <4> QED
        BY <3>1, <4>1 DEF TenantRow
    <3>3. ASSUME ActivateTenant(r, t) \/ DeactivateTenant(r, t)
          PROVE  tenant'[t] \in TenantRow
      <4>1. \E use \in BOOLEAN : tenant'[t] = [tenant[t] EXCEPT !.use = use]
        BY <3>3 DEF ActivateTenant, DeactivateTenant, Inv, TypeOK
      <4> QED
        BY <3>1, <4>1 DEF TenantRow
    <3>4. tenant'[t] \in TenantRow
      BY <2>1, <2>3, <3>2, <3>3 DEF AddTenant
    <3> QED
      BY <3>4, AccountsAssumption
  <2> QED
    BY <2>2, <2>3
<1>2. ASSUME NEW r \in Request,
             \/ \E u \in User, s \in Tenant : VerifySession(r, u, s)
             \/ ChangeUser(r)
             \/ ChangeGroup(r)
             \/ Refuse(r)
      PROVE  tenant' = tenant
  BY <1>2 DEF VerifySession, Refuse, ChangeUser, ChangePassword, AddUser, UpdateUser,
              DeleteUser, UpdateUserPassword, ResetUserPassword, ChangeGroup, AddGroup,
              UpdateGroup, DeleteGroup, SetGroupUsers
<1> QED
  BY <1>1, <1>2 DEF Next, vars

-----------------------------------------------------------------------------
(* The configuration                                                       *)

\* Rows that can be used
Usable(rows) ==
  /\ AlwaysKeys \subseteq DOMAIN rows
  /\ DOMAIN rows \subseteq AlwaysKeys \cup RestrictionKeys
  /\ \A key \in DOMAIN rows : rows[key] \in ValueOf(key)
  /\ rows["enable"] => RestrictionKeys \subseteq DOMAIN rows

ConfInv ==
  /\ conf \in [Tenant -> {conf[t] : t \in Tenant}]
  /\ \A t \in Tenant : DOMAIN conf[t] = {} \/ Usable(conf[t])
  /\ \A t \in Tenant : tenant[t] = NoRow => DOMAIN conf[t] = {}

\* The delivered rows are usable.
LEMMA DeliveredUsable == Usable(Delivered)
<1>1. DOMAIN Delivered = AlwaysKeys \cup RestrictionKeys
  BY DEF Delivered, AlwaysKeys, RestrictionKeys
<1>2. /\ Delivered["language"] \in ValueOf("language")
      /\ Delivered["timezone"] \in ValueOf("timezone")
      /\ Delivered["cycle"] \in ValueOf("cycle")
      /\ Delivered["reuse"] \in ValueOf("reuse")
      /\ Delivered["timeout"] \in ValueOf("timeout")
      /\ Delivered["enable"] \in ValueOf("enable")
      /\ Delivered["tries"] \in ValueOf("tries")
      /\ Delivered["time"] \in ValueOf("time")
  BY IdentityAssumption DEF Delivered, ValueOf
<1>3. \A key \in AlwaysKeys \cup RestrictionKeys : Delivered[key] \in ValueOf(key)
  BY <1>2 DEF AlwaysKeys, RestrictionKeys
<1> QED
  BY <1>1, <1>3 DEF Usable

\* The configuration rows are well formed at the start.
LEMMA InitConf == IdentityInit => ConfInv
<1> SUFFICES ASSUME IdentityInit PROVE ConfInv
  OBVIOUS
<1>1. conf = [t \in Tenant |-> IF t = DefaultTenant THEN Delivered ELSE NoConfig]
  BY DEF IdentityInit, DeliveredConfig
<1>2. DOMAIN NoConfig = {}
  BY DEF NoConfig
<1>3. tenant[DefaultTenant] # NoRow
  <2>1. tenant[DefaultTenant] \in TenantRow
    BY AccountsAssumption DEF IdentityInit, Init, DeliveredTenants, TenantRow
  <2> QED
    BY <2>1, AccountsAssumption
<1>4. \A t \in Tenant : conf[t] = IF t = DefaultTenant THEN Delivered ELSE NoConfig
  BY <1>1
<1>5. conf \in [Tenant -> {conf[t] : t \in Tenant}]
  BY <1>1
<1> QED
  BY <1>2, <1>3, <1>4, <1>5, DeliveredUsable DEF ConfInv

\* A valid configuration makes usable rows usable, and no rows as well.
LEMMA SetConfigUsable ==
  ASSUME NEW rows, DOMAIN rows = {} \/ Usable(rows),
         NEW c \in ConfigRequest, validateConfig(c)
  PROVE  Usable(setConfig(rows, c))
<1> DEFINE saved == AlwaysKeys \cup (IF c.enable THEN RestrictionKeys ELSE {})
           new == setConfig(rows, c)
<1>1. /\ DOMAIN new = DOMAIN rows \cup saved
      /\ \A k \in saved : new[k] = c[k]
      /\ \A k \in DOMAIN rows \ saved : new[k] = rows[k]
  BY DEF setConfig
<1>2. /\ c["language"] \in ValueOf("language")
      /\ c["timezone"] \in ValueOf("timezone")
      /\ c["cycle"] \in ValueOf("cycle")
      /\ c["timeout"] \in ValueOf("timeout")
  BY DEF validateConfig, ValueOf
<1>3. /\ c["reuse"] \in ValueOf("reuse")
      /\ c["enable"] \in ValueOf("enable")
  BY IdentityAssumption DEF validateConfig, ValueOf, AlwaysKeys
<1>4. /\ c["enable"] => c["tries"] \in ValueOf("tries")
      /\ c["enable"] => c["time"] \in ValueOf("time")
  BY DEF validateConfig, ValueOf
<1>5. \A k \in saved : c[k] \in ValueOf(k)
  BY <1>2, <1>3, <1>4 DEF AlwaysKeys, RestrictionKeys
<1>6. \A k \in DOMAIN rows \ saved : rows[k] \in ValueOf(k)
  BY DEF Usable
<1>7. DOMAIN rows \subseteq AlwaysKeys \cup RestrictionKeys
  BY DEF Usable
<1>8. "enable" \in saved
  BY DEF AlwaysKeys
<1> HIDE DEF new
<1>9. new["enable"] => RestrictionKeys \subseteq DOMAIN new
  BY <1>1, <1>8
<1>10. \A k \in DOMAIN new : new[k] \in ValueOf(k)
  BY <1>1, <1>5, <1>6
<1>11. AlwaysKeys \subseteq DOMAIN new /\ DOMAIN new \subseteq AlwaysKeys \cup RestrictionKeys
  BY <1>1, <1>7
<1> QED
  BY <1>9, <1>10, <1>11 DEF Usable, new

\* Every step keeps the rows usable, and within tenants that there are.
LEMMA NextConf == Inv /\ ConfInv /\ [IdentityNext]_<<vars, conf>> => ConfInv'
<1> SUFFICES ASSUME Inv, ConfInv, [IdentityNext]_<<vars, conf>>
             PROVE  ConfInv'
  OBVIOUS
<1>1. \A t \in Tenant : tenant[t] # NoRow => tenant'[t] # NoRow
  BY AccountsStep, TenantsStay
<1>2. CASE UNCHANGED conf
  BY <1>1, <1>2 DEF ConfInv
<1>3. ASSUME NEW r \in Request, NEW c \in ConfigRequest, SetConfig(r, c)
      PROVE  ConfInv'
  <2> DEFINE t == req[r].tid
  <2>1. t \in Tenant /\ tenant[t] # NoRow
    BY <1>3, ServeRequest DEF SetConfig, Inv, Snapshot
  <2>2. conf' = [conf EXCEPT ![t] = setConfig(conf[t], c)] /\ validateConfig(c)
    BY <1>3 DEF SetConfig
  <2>3. Usable(setConfig(conf[t], c))
    BY <2>1, <2>2, SetConfigUsable DEF ConfInv
  <2> HIDE DEF t
  <2>4. \A s \in Tenant : conf'[s] = IF s = t THEN setConfig(conf[t], c) ELSE conf[s]
    BY <2>1, <2>2 DEF ConfInv
  <2>5. conf' \in [Tenant -> {conf'[s] : s \in Tenant}]
    BY <2>2 DEF ConfInv
  <2>6. \A s \in Tenant : DOMAIN conf'[s] = {} \/ Usable(conf'[s])
    BY <2>3, <2>4 DEF ConfInv
  <2>7. \A s \in Tenant : tenant'[s] = NoRow => DOMAIN conf'[s] = {}
    BY <1>1, <2>1, <2>4 DEF ConfInv
  <2> QED
    BY <2>5, <2>6, <2>7 DEF ConfInv
<1> QED
  BY <1>2, <1>3 DEF IdentityNext

\* The invariants of the accounts and of the configuration hold in every state.
LEMMA IdentityInv == IdentitySpec => [](Inv /\ ConfInv)
<1>1. IdentitySpec => []Inv
  BY AccountsKept, SpecInv, PTL
<1> QED
  BY <1>1, InitConf, NextConf, PTL DEF IdentitySpec

-----------------------------------------------------------------------------
(* The theorems                                                            *)

\* The rows are those of tenants that there are, with values that can be parsed.
THEOREM ConfigTypeCorrect == IdentitySpec => []ConfigTypeOK
<1>1. ConfInv => ConfigTypeOK
  BY DEF ConfInv, Usable, ConfigTypeOK
<1> QED
  BY <1>1, IdentityInv, PTL

\* A tenant that has once been configured can be read, and restricts logins as its
\* configuration says.
THEOREM ConfigStaysUsable == IdentitySpec => []ConfigUsable
<1>1. ASSUME NEW rows, Usable(rows)
      PROVE  /\ Readable(rows)
             /\ LoginRestriction(rows) = IF getConfig(rows).enable THEN "on" ELSE "off"
  <2>1. "enable" \in DOMAIN rows /\ rows["enable"] \in BOOLEAN
    BY <1>1 DEF Usable, AlwaysKeys, ValueOf
  <2>2. NeededKeys(rows) \subseteq DOMAIN rows /\ "enable" \in NeededKeys(rows)
    BY <1>1, <2>1 DEF Usable, NeededKeys, AlwaysKeys
  <2>3. getConfig(rows)["enable"] = rows["enable"]
    BY <2>2 DEF getConfig
  <2>4. CASE rows["enable"] = TRUE
    <3>1. RestrictionKeys \subseteq DOMAIN rows
      BY <1>1, <2>4 DEF Usable
    <3>2. rows["tries"] \in 5 .. 30
      <4>1. rows["tries"] \in ValueOf("tries")
        BY <1>1, <3>1 DEF Usable, RestrictionKeys
      <4> QED
        BY <4>1 DEF ValueOf
    <3>3. rows["tries"] # 0
      BY <3>2
    <3>4. LoginRestriction(rows) = "on"
      BY <2>1, <2>4, <3>1, <3>3 DEF LoginRestriction
    <3> QED
      BY <2>2, <2>3, <2>4, <3>4 DEF Readable
  <2>5. CASE rows["enable"] = FALSE
    <3>1. LoginRestriction(rows) = "off"
      BY <2>1, <2>5 DEF LoginRestriction
    <3> QED
      BY <2>2, <2>3, <2>5, <3>1 DEF Readable
  <2> QED
    BY <2>1, <2>4, <2>5
<1>2. ConfInv => ConfigUsable
  BY <1>1 DEF ConfInv, ConfigUsable
<1> QED
  BY <1>2, IdentityInv, PTL

\* What a manager's endpoint asks of who is not the administrator
LEMMA ManagerRequest ==
  ASSUME Inv, NEW r \in Request, req[r] # NoReq, NEW e, Policy(e) = "manager",
         Authorized(req[r], e), req[r].user # AdminUser
  PROVE  IsManager(req[r]) /\ req[r].tid = req[r].tenant
<1>1. "admin" \notin req[r].roles
  BY DEF Inv, OneAdmin
<1>2. PICK ro \in req[r].roles \cup {"user"} : ro = "manager" \/ ro = "admin"
  BY DEF Authorized, Enforce
<1>3. IsManager(req[r])
  BY <1>1, <1>2 DEF IsManager
<1> QED
  BY <1>1, <1>3 DEF Authorized, IsAdmin

\* A configuration is changed by the administrator, or by a manager of the tenant.
THEOREM ConfigConfined == IdentitySpec => ConfigWithinTenant
<1>1. ASSUME Inv, ConfInv, [IdentityNext]_<<vars, conf>>,
             NEW t \in Tenant, conf'[t] # conf[t]
      PROVE  \E r \in Request :
               /\ Ends(r)
               /\ req[r].user # AdminUser => IsManager(req[r]) /\ t = req[r].tenant
  <2>1. PICK r \in Request, c \in ConfigRequest : SetConfig(r, c)
    BY <1>1 DEF IdentityNext
  <2>2. Serve(r, "SetConfig") /\ conf' = [conf EXCEPT ![req[r].tid] = setConfig(conf[req[r].tid], c)]
    BY <2>1 DEF SetConfig
  <2>3. t = req[r].tid
    BY <1>1, <2>2 DEF ConfInv
  <2>4. Ends(r)
    BY <1>1, <2>2 DEF Ends, Serve, Inv, TypeOK
  <2>5. Policy("SetConfig") = "manager"
    BY DEF Policy
  <2>6. req[r] # NoReq /\ Authorized(req[r], "SetConfig")
    BY <2>2 DEF Serve
  <2>7. req[r].user # AdminUser => IsManager(req[r]) /\ req[r].tid = req[r].tenant
    BY <1>1, <2>5, <2>6, ManagerRequest
  <2> QED
    BY <2>3, <2>4, <2>7
<1>2. Inv /\ ConfInv /\ [IdentityNext]_<<vars, conf>>
        => [\A t \in Tenant :
              conf'[t] # conf[t] =>
                \E r \in Request :
                  /\ Ends(r)
                  /\ req[r].user # AdminUser =>
                       IsManager(req[r]) /\ t = req[r].tenant]_<<vars, conf>>
  BY <1>1
<1> QED
  BY <1>2, IdentityInv, PTL DEF IdentitySpec, ConfigWithinTenant

-----------------------------------------------------------------------------
(* The reads                                                               *)

\* How a user of a tenant looks, to a request about that tenant
LEMMA ShownWithinTenant ==
  ASSUME Inv, NEW u \in User, NEW t \in Tenant, UserIn(u, t)
  PROVE  LET x == userModelToRsp(u, t)
         IN  /\ x.id = u
             /\ x.tenant = t
             /\ \A g \in x.groups : group[g].tenant = t
<1>1. userModelToRsp(u, t).id = u /\ userModelToRsp(u, t).tenant = t
  BY DEF userModelToRsp, UserIn
<1>2. \A g \in getGroups(t, Group) : group[g].tenant = t
  BY DEF getGroups, GroupIn
<1>3. \A g \in Groups(u) : group[g].tenant = t
  <2> SUFFICES ASSUME NEW g \in Group, <<u, g>> \in member
               PROVE  group[g].tenant = t
    BY DEF Groups
  <2>1. user[<<u, g>>[1]].tenant = group[<<u, g>>[2]].tenant
    BY DEF Inv, MembersWithinTenant
  <2> QED
    BY <2>1 DEF UserIn
<1>4. userModelToRsp(u, t).groups \in {getGroups(t, Group), Groups(u)}
  BY DEF userModelToRsp
<1> QED
  BY <1>1, <1>2, <1>3, <1>4

\* Whatever requests are on their way, and whoever has changed accounts since they
\* were verified, nobody but the administrator is shown anything of another tenant.
THEOREM ReadsConfined == IdentitySpec => []ReadsWithinTenant
<1>1. ASSUME Inv, NEW q \in Requests, q.user # AdminUser
      PROVE  /\ \A x \in (UNION GetUsers(q, AllUsers, {}, 0, 0)) \cup UNION {GetUser(q, u) : u \in User} :
                  /\ x.tenant = q.tenant
                  /\ \A g \in x.groups : group[g].tenant = q.tenant
                  /\ IsManager(q) \/ x.id = q.user
             /\ \A g \in GetGroups(q, Group) \cup UNION {GetGroup(q, h) : h \in Group} :
                  group[g].tenant = q.tenant
             /\ GetTenants(q, Tenant) \cup UNION {GetTenant(q, t) : t \in Tenant} = {}
             /\ GetRoles(q, "") # {} \/ GetConfig(q) # {} => IsManager(q)
  <2>0. PICK r \in Request : q = req[r] /\ req[r] # NoReq
    BY DEF Requests
  <2>1. "admin" \notin q.roles /\ q \in Snapshot
    BY <1>1, <2>0 DEF Inv, OneAdmin, TypeOK
  <2>2. q.tid \in Tenant /\ q.tenant \in Tenant
    BY <2>1 DEF Snapshot
  <2>3. \A e : Authorized(q, e) => q.tid = q.tenant
    BY <2>1 DEF Authorized, IsAdmin
  <2>4. /\ Policy("GetUsers") = "manager" /\ Policy("GetRoles") = "manager"
        /\ Policy("GetConfig") = "manager"
    BY DEF Policy
  <2>5. Policy("GetTenants") = "admin" /\ Policy("GetTenant") = "admin"
    BY DEF Policy
  <2>6. \A e : Authorized(q, e) /\ Policy(e) = "manager" => IsManager(q)
    BY <1>1, <2>0, ManagerRequest
  <2>7. \A e : Policy(e) = "admin" => ~ Authorized(q, e)
    BY <2>1 DEF Authorized, Enforce
  <2>8. ASSUME NEW u \in User, NEW x \in GetUser(q, u)
        PROVE  /\ x.tenant = q.tenant
               /\ \A g \in x.groups : group[g].tenant = q.tenant
               /\ IsManager(q) \/ x.id = q.user
    <3>1. /\ x = userModelToRsp(u, q.tid)
          /\ Authorized(q, "GetUser")
          /\ validateUserGet(q, u)
          /\ UserIn(u, q.tid)
      BY <2>8 DEF GetUser, UserIn
    <3>2. IsManager(q) \/ u = q.user
      BY <2>1, <3>1 DEF validateUserGet, IsAdmin
    <3> QED
      BY <1>1, <2>2, <2>3, <3>1, <3>2, ShownWithinTenant
  <2>9. ASSUME NEW x \in UNION GetUsers(q, AllUsers, {}, 0, 0)
        PROVE  /\ x.tenant = q.tenant
               /\ \A g \in x.groups : group[g].tenant = q.tenant
               /\ IsManager(q) \/ x.id = q.user
    <3>0. paginationFilter(getUsers(q.tid, makeUserFilter(AllUsers, {})), 0, 0)
            = {getUsers(q.tid, makeUserFilter(AllUsers, {}))}
      BY DEF paginationFilter
    <3>1. PICK u \in getUsers(q.tid, makeUserFilter(AllUsers, {})) :
            x = userModelToRsp(u, q.tid) /\ Authorized(q, "GetUsers")
      BY <2>9, <3>0 DEF GetUsers
    <3>2. u \in User /\ UserIn(u, q.tid)
      BY <3>1 DEF getUsers
    <3> QED
      BY <1>1, <2>2, <2>3, <2>4, <2>6, <3>1, <3>2, ShownWithinTenant
  <2>10. \A g \in GetGroups(q, Group) \cup UNION {GetGroup(q, h) : h \in Group} :
           group[g].tenant = q.tenant
    BY <2>3 DEF GetGroups, GetGroup, getGroups, getGroup, GroupIn
  <2>11. GetTenants(q, Tenant) \cup UNION {GetTenant(q, t) : t \in Tenant} = {}
    BY <2>5, <2>7 DEF GetTenants, GetTenant
  <2>12. GetRoles(q, "") # {} \/ GetConfig(q) # {} => IsManager(q)
    BY <2>4, <2>6 DEF GetRoles, GetConfig
  <2>13. \A x \in (UNION GetUsers(q, AllUsers, {}, 0, 0)) \cup UNION {GetUser(q, u) : u \in User} :
           /\ x.tenant = q.tenant
           /\ \A g \in x.groups : group[g].tenant = q.tenant
           /\ IsManager(q) \/ x.id = q.user
    <3> SUFFICES ASSUME NEW x \in (UNION GetUsers(q, AllUsers, {}, 0, 0))
                                    \cup UNION {GetUser(q, u) : u \in User}
                 PROVE  /\ x.tenant = q.tenant
                        /\ \A g \in x.groups : group[g].tenant = q.tenant
                        /\ IsManager(q) \/ x.id = q.user
      BY Zenon
    <3>1. CASE x \in UNION GetUsers(q, AllUsers, {}, 0, 0)
      BY <2>9, <3>1
    <3>2. CASE \E u \in User : x \in GetUser(q, u)
      BY <2>8, <3>2
    <3> QED
      BY <3>1, <3>2
  <2> QED
    BY <2>10, <2>11, <2>12, <2>13, Zenon
<1>2. Inv => ReadsWithinTenant
  BY <1>1, Zenon DEF ReadsWithinTenant
<1> QED
  BY <1>2, IdentityInv, PTL

-----------------------------------------------------------------------------
(* Pages                                                                   *)

\* The number of the page that begins with an offset
PageOf(offset, limit) == offset \div limit + 1

\* The number of pages of n elements
PagesOf(n, limit) == (n + limit - 1) \div limit

\* Division
LEMMA Quotient ==
  ASSUME NEW a \in Nat, NEW b \in Nat \ {0}
  PROVE  a \div b \in Nat /\ b * (a \div b) <= a /\ a < b * (a \div b) + b
  OBVIOUS

\* A quotient is determined by its bounds.
LEMMA QuotientUnique ==
  ASSUME NEW a \in Int, NEW b \in Nat \ {0}, NEW p \in Int, NEW q \in Int,
         b * p <= a, a < b * p + b, b * q <= a, a < b * q + b
  PROVE  p = q
<1>1. CASE p < q
  <2>1. b * (p + 1) <= b * q
    BY <1>1
  <2>2. b * (p + 1) = b * p + b
    OBVIOUS
  <2> QED
    BY <2>1, <2>2
<1>2. CASE q < p
  <2>1. b * (q + 1) <= b * p
    BY <1>2
  <2>2. b * (q + 1) = b * q + b
    OBVIOUS
  <2> QED
    BY <2>1, <2>2
<1> QED
  BY <1>1, <1>2

\* The offset of a page tells its number.
LEMMA PageBegins ==
  ASSUME NEW limit \in Nat \ {0}, NEW i \in Nat \ {0}
  PROVE  PageOf((i - 1) * limit, limit) = i
<1> DEFINE j == i - 1
           a == j * limit
           q == a \div limit
<1>1. j \in Nat /\ i = j + 1
  OBVIOUS
<1> HIDE DEF j
<1>2. a \in Nat /\ a = limit * j
  BY <1>1
<1>3. q \in Nat /\ limit * q <= a /\ a < limit * q + limit
  BY <1>2, Quotient
<1> HIDE DEF a, q
<1>4. limit * j <= a /\ a < limit * j + limit
  BY <1>1, <1>2
<1>5. q = j
  BY <1>1, <1>2, <1>3, <1>4, QuotientUnique
<1> QED
  BY <1>1, <1>5 DEF PageOf, q, a, j

\* How many of n rows are on a page: all pages but the last are full, the last has
\* what is left, and the one after it is empty.
LEMMA PageRows ==
  ASSUME NEW n \in Nat, NEW limit \in Nat \ {0}, NEW i \in 1 .. (PagesOf(n, limit) + 1)
  PROVE  LET size == PageSize(n, (i - 1) * limit, limit)
         IN  /\ size \in Nat
             /\ size # 0 <=> i <= PagesOf(n, limit)
             /\ i < PagesOf(n, limit) => size = limit
             /\ i = PagesOf(n, limit) => (i - 1) * limit + size = n
<1> DEFINE m == PagesOf(n, limit)
           j == i - 1
           a == j * limit
           size == PageSize(n, a, limit)
<1>1. m \in Nat /\ limit * m <= n + limit - 1 /\ n + limit - 1 < limit * m + limit
  BY Quotient DEF PagesOf
<1> HIDE DEF m
<1>2. j \in Nat /\ j <= m /\ i = j + 1
  BY <1>1 DEF m
<1> HIDE DEF j
<1>3. a \in Nat /\ a = limit * j
  BY <1>2
<1>4. limit * m \in Nat
  BY <1>1
<1> HIDE DEF a
<1>5. CASE j + 1 < m
  <2>1. limit * (j + 2) <= limit * m
    BY <1>1, <1>2, <1>5
  <2>2. limit * (j + 2) = a + limit + limit
    BY <1>2, <1>3
  <2>3. a + limit < n
    BY <1>1, <1>3, <1>4, <2>1, <2>2
  <2>4. size = limit
    BY <1>3, <2>3 DEF PageSize
  <2> QED
    BY <1>1, <1>2, <1>5, <2>4 DEF m, j, a
<1>6. CASE j + 1 = m
  <2>1. limit * m = a + limit
    BY <1>2, <1>3, <1>6
  <2>2. a < n /\ n <= a + limit
    BY <1>1, <1>3, <1>4, <2>1
  <2>3. size = n - a /\ size \in Nat /\ size # 0
    BY <1>3, <2>2 DEF PageSize
  <2> QED
    BY <1>1, <1>2, <1>3, <1>6, <2>3 DEF m, j, a
<1>7. CASE j = m
  <2>1. n <= a
    BY <1>1, <1>3, <1>4, <1>7
  <2>2. size = 0
    BY <1>3, <2>1 DEF PageSize
  <2> QED
    BY <1>1, <1>2, <1>7, <2>2 DEF m, j, a
<1> QED
  BY <1>1, <1>2, <1>5, <1>6, <1>7

-----------------------------------------------------------------------------
(* The lists                                                               *)

\* The users that pass the filters of a request
LEMMA FiltersOf ==
  ASSUME NEW t, NEW in, NEW keys, NEW u
  PROVE  u \in getUsers(t, makeUserFilter(in, keys)) <=>
           /\ u \in User /\ UserIn(u, t) /\ u \in in.named
           /\ in.solution # NoRow => u \in userSolutionFilter(in.solution, in.role)
           /\ in.group # NoRow => u \in userGroupFilter(in.group)
           /\ in.exclude # NoRow => u \in userExcludeGroupFilter(in.exclude)
           /\ in.loginOnly => u \in loginFilter(keys)
<1> DEFINE a == userSolutionFilter(in.solution, in.role)
           b == userGroupFilter(in.group)
           c == userExcludeGroupFilter(in.exclude)
           d == loginFilter(keys)
<1>1. makeUserFilter(in, keys) =
        {in.named}
          \cup (IF in.solution = NoRow THEN {} ELSE {a})
          \cup (IF in.group = NoRow THEN {} ELSE {b})
          \cup (IF in.exclude = NoRow THEN {} ELSE {c})
          \cup (IF in.loginOnly THEN {d} ELSE {})
  BY DEF makeUserFilter
<1> HIDE DEF a, b, c, d
<1>2. (\A f \in makeUserFilter(in, keys) : u \in f) <=>
        /\ u \in in.named
        /\ in.solution # NoRow => u \in a
        /\ in.group # NoRow => u \in b
        /\ in.exclude # NoRow => u \in c
        /\ in.loginOnly => u \in d
  BY <1>1
<1> QED
  BY <1>2 DEF getUsers, a, b, c, d

\* What an authorised request for a list may get
LEMMA ListOf ==
  ASSUME NEW q, Authorized(q, "GetUsers"), NEW in, validateRoleList(in.role), NEW keys,
         NEW offset, NEW limit
  PROVE  GetUsers(q, in, keys, offset, limit) =
           {{userModelToRsp(u, q.tid) : u \in page} :
              page \in paginationFilter(getUsers(q.tid, makeUserFilter(in, keys)), offset, limit)}
<1>1. \A page : {v \in page : Authorized(q, "GetUsers") /\ validateUserListGet(in)} = page
  BY DEF validateUserListGet
<1> QED
  BY <1>1 DEF GetUsers

\* Without a limit it gets all of them.
LEMMA WholeList ==
  ASSUME NEW q, Authorized(q, "GetUsers"), NEW in, validateRoleList(in.role), NEW keys
  PROVE  UNION GetUsers(q, in, keys, 0, 0) =
           {userModelToRsp(u, q.tid) : u \in getUsers(q.tid, makeUserFilter(in, keys))}
<1> DEFINE us == getUsers(q.tid, makeUserFilter(in, keys))
           list == {userModelToRsp(u, q.tid) : u \in us}
<1>1. paginationFilter(us, 0, 0) = {us}
  BY DEF paginationFilter
<1>2. GetUsers(q, in, keys, 0, 0) =
        {{userModelToRsp(u, q.tid) : u \in page} : page \in paginationFilter(us, 0, 0)}
  BY ListOf
<1> HIDE DEF us
<1>3. GetUsers(q, in, keys, 0, 0) = {list}
  BY <1>1, <1>2
<1> QED
  BY <1>3 DEF us

\* A user is shown with the own identifier and roles.
LEMMA ShownAs ==
  ASSUME NEW u, NEW t
  PROVE  userModelToRsp(u, t).id = u /\ userModelToRsp(u, t).roles = role[u]
  BY DEF userModelToRsp, Roles

\* The request for everybody
LEMMA Everybody ==
  ASSUME NEW t
  PROVE  getUsers(t, makeUserFilter(AllUsers, {})) = {u \in User : UserIn(u, t)}
<1>1. /\ AllUsers.solution = NoRow /\ AllUsers.group = NoRow /\ AllUsers.exclude = NoRow
      /\ AllUsers.named = User /\ AllUsers.loginOnly = FALSE
  BY DEF AllUsers
<1>2. \A u : u \in getUsers(t, makeUserFilter(AllUsers, {})) <=> u \in User /\ UserIn(u, t)
  BY <1>1, FiltersOf
<1> QED
  BY <1>2

\* Every user on a list can be read, and looks the same.
LEMMA ListedReadable ==
  ASSUME NEW q, Authorized(q, "GetUsers"), NEW x \in UNION GetUsers(q, AllUsers, {}, 0, 0)
  PROVE  GetUser(q, x.id) = {x} /\ GetSimpleUser(q, x.id) = {x}
<1>1. validateRoleList(AllUsers.role)
  BY DEF AllUsers, validateRoleList
<1>2. PICK u \in User : UserIn(u, q.tid) /\ x = userModelToRsp(u, q.tid)
  <2>1. UNION GetUsers(q, AllUsers, {}, 0, 0) =
          {userModelToRsp(u, q.tid) : u \in {u \in User : UserIn(u, q.tid)}}
    BY <1>1, WholeList, Everybody
  <2> QED
    BY <2>1
<1>3. x.id = u
  BY <1>2, ShownAs
<1>4. Authorized(q, "GetUser") /\ validateUserGet(q, u)
  <2>1. Policy("GetUser") = "user" /\ Policy("GetUsers") = "manager"
    BY DEF Policy
  <2> QED
    BY <2>1 DEF Authorized, Enforce, validateUserGet, IsAdmin, IsManager
<1>5. GetUser(q, u) = {userModelToRsp(u, q.tid)}
  <2>1. {v \in {u} : /\ Authorized(q, "GetUser") /\ validateUserGet(q, v)
                     /\ Live(v) /\ user[v].tenant = q.tid} = {u}
    BY <1>2, <1>4 DEF UserIn
  <2> QED
    BY <2>1 DEF GetUser
<1>6. getSimpleUser(q.tid, u) = {userModelToRsp(u, q.tid)}
  <2>1. u # NoRow
    BY IdentityAssumption
  <2>2. {v \in User :
           /\ UserIn(v, q.tid)
           /\ IF u = NoRow THEN \A w \in User : UserIn(w, q.tid) => IdOf[v] <= IdOf[w]
              ELSE v = u} = {u}
    BY <1>2, <2>1
  <2> QED
    BY <2>2 DEF getSimpleUser
<1> QED
  BY <1>2, <1>3, <1>5, <1>6 DEF GetSimpleUser

\* The first user of a tenant is on its list.
LEMMA FirstListed ==
  ASSUME NEW q, Authorized(q, "GetUsers")
  PROVE  GetSimpleUser(q, NoRow) \subseteq UNION GetUsers(q, AllUsers, {}, 0, 0)
<1>1. validateRoleList(AllUsers.role)
  BY DEF AllUsers, validateRoleList
<1>2. UNION GetUsers(q, AllUsers, {}, 0, 0) =
        {userModelToRsp(u, q.tid) : u \in {u \in User : UserIn(u, q.tid)}}
  BY <1>1, WholeList, Everybody
<1> QED
  BY <1>2 DEF GetSimpleUser, getSimpleUser

\* A group and its complement divide the list.
LEMMA GroupDivides ==
  ASSUME NEW q, Authorized(q, "GetUsers"), NEW g \in Group
  PROVE  LET Found(in) == UNION GetUsers(q, in, {}, 0, 0)
         IN  /\ Found([AllUsers EXCEPT !.group = g, !.exclude = g]) = {}
             /\ Found([AllUsers EXCEPT !.group = g]) \cup Found([AllUsers EXCEPT !.exclude = g])
                  = Found(AllUsers)
<1> DEFINE both == [AllUsers EXCEPT !.group = g, !.exclude = g]
           in == [AllUsers EXCEPT !.group = g]
           out == [AllUsers EXCEPT !.exclude = g]
           Us(i) == getUsers(q.tid, makeUserFilter(i, {}))
           Found(i) == UNION GetUsers(q, i, {}, 0, 0)
<1>1. g # NoRow
  BY IdentityAssumption
<1>2. /\ both.solution = NoRow /\ both.named = User /\ both.loginOnly = FALSE /\ both.role = ""
      /\ both.group = g /\ both.exclude = g
  BY DEF AllUsers
<1>3. /\ in.solution = NoRow /\ in.named = User /\ in.loginOnly = FALSE /\ in.role = ""
      /\ in.group = g /\ in.exclude = NoRow
  BY DEF AllUsers
<1>4. /\ out.solution = NoRow /\ out.named = User /\ out.loginOnly = FALSE /\ out.role = ""
      /\ out.group = NoRow /\ out.exclude = g
  BY DEF AllUsers
<1>5. AllUsers.role = "" /\ validateRoleList("")
  BY DEF AllUsers, validateRoleList
<1>6. Us(AllUsers) = {u \in User : UserIn(u, q.tid)}
  BY Everybody
<1> HIDE DEF both, in, out
<1>7. \A u : u \in Us(both) <=> /\ u \in User /\ UserIn(u, q.tid)
                                /\ u \in userGroupFilter(g) /\ u \in userExcludeGroupFilter(g)
  BY <1>1, <1>2, FiltersOf
<1>8. \A u : u \in Us(in) <=> u \in User /\ UserIn(u, q.tid) /\ u \in userGroupFilter(g)
  BY <1>1, <1>3, FiltersOf
<1>9. \A u : u \in Us(out) <=> u \in User /\ UserIn(u, q.tid) /\ u \in userExcludeGroupFilter(g)
  BY <1>1, <1>4, FiltersOf
<1>10. \A u \in User : u \in userGroupFilter(g) <=> u \notin userExcludeGroupFilter(g)
  BY DEF userGroupFilter, userExcludeGroupFilter
<1>11. Us(both) = {} /\ Us(in) \cup Us(out) = Us(AllUsers)
  BY <1>6, <1>7, <1>8, <1>9, <1>10
<1>12. /\ Found(both) = {userModelToRsp(u, q.tid) : u \in Us(both)}
       /\ Found(in) = {userModelToRsp(u, q.tid) : u \in Us(in)}
       /\ Found(out) = {userModelToRsp(u, q.tid) : u \in Us(out)}
       /\ Found(AllUsers) = {userModelToRsp(u, q.tid) : u \in Us(AllUsers)}
  BY <1>2, <1>3, <1>4, <1>5, WholeList
<1> HIDE DEF Us, Found
<1>13. Found(both) = {} /\ Found(in) \cup Found(out) = Found(AllUsers)
  BY <1>11, <1>12
<1> QED
  BY <1>13 DEF Found, both, in, out

\* Who is found by a solution of the tenant has a role that can be listed.
LEMMA RolesListed ==
  ASSUME Inv, NEW q, Authorized(q, "GetUsers"), NEW s \in tenant[q.tid].solutions,
         s \in Solution, NEW name \in {"", "manager"},
         NEW x \in UNION GetUsers(q, [AllUsers EXCEPT !.solution = s, !.role = name], {}, 0, 0)
  PROVE  x.roles \cap GetRoles(q, name) # {}
<1> DEFINE in == [AllUsers EXCEPT !.solution = s, !.role = name]
<1>1. s # NoRow /\ tenant[q.tid] # NoRow
  BY IdentityAssumption DEF Authorized
<1>2. in.solution = s /\ in.role = name
  BY DEF AllUsers
<1>3. validateRoleList(name)
  BY DEF validateRoleList
<1>4. PICK u \in getUsers(q.tid, makeUserFilter(in, {})) : x = userModelToRsp(u, q.tid)
  <2>1. x \in UNION GetUsers(q, in, {}, 0, 0)
    OBVIOUS
  <2> HIDE DEF in
  <2>2. UNION GetUsers(q, in, {}, 0, 0) =
          {userModelToRsp(u, q.tid) : u \in getUsers(q.tid, makeUserFilter(in, {}))}
    BY <1>2, <1>3, WholeList
  <2> QED
    BY <2>1, <2>2
<1> HIDE DEF in
<1>5. u \in User /\ u \in userSolutionFilter(s, name)
  BY <1>1, <1>2, <1>4, FiltersOf
<1>6. PICK ro \in role[u] : SolutionOf[ro] = s /\ (name = "" \/ ro = name)
  BY <1>5 DEF userSolutionFilter
<1>7. ro \in Role
  BY <1>5, <1>6 DEF Inv, TypeOK
<1>8. Authorized(q, "GetRoles")
  <2>1. Policy("GetRoles") = "manager" /\ Policy("GetUsers") = "manager"
    BY DEF Policy
  <2> QED
    BY <2>1 DEF Authorized, Enforce
<1>9. ro \in tenantSolutionFilter(q.tid)
  BY <1>1, <1>6, <1>7 DEF tenantSolutionFilter
<1>10. ro \in GetRoles(q, name)
  BY <1>3, <1>6, <1>7, <1>8, <1>9 DEF GetRoles, getRoles
<1>11. ro \in x.roles
  BY <1>4, <1>6, ShownAs
<1> QED
  BY <1>10, <1>11

\* As many are shown as are on the page, for each is shown with the own identifier.
LEMMA ShownCount ==
  ASSUME NEW us, IsFiniteSet(us), NEW t
  PROVE  LET shown == {userModelToRsp(u, t) : u \in us}
         IN  IsFiniteSet(shown) /\ Cardinality(shown) = Cardinality(us)
<1> DEFINE shown == {userModelToRsp(u, t) : u \in us}
           f == [u \in us |-> userModelToRsp(u, t)]
<1>1. \A u, v \in us : f[u] = f[v] => u = v
  BY ShownAs
<1>2. f \in [us -> shown] /\ \A x \in shown : \E u \in us : f[u] = x
  OBVIOUS
<1> HIDE DEF f, shown
<1>3. f \in Injection(us, shown) /\ f \in Surjection(us, shown)
  BY <1>1, <1>2 DEF Injection, Surjection, IsInjective
<1>4. ExistsBijection(us, shown)
  BY <1>3 DEF ExistsBijection, Bijection
<1> QED
  BY <1>4, FS_Bijection DEF shown

\* The pages that are announced are those that show somebody, whichever users with a
\* session the database puts on them.
LEMMA PagesShown ==
  ASSUME NEW q, Authorized(q, "GetUsers"), NEW keys \in SUBSET User,
         NEW limit \in Nat \ {0}
  PROVE  PagesShow(q, {x \in UNION GetUsers(q, AllUsers, {}, 0, 0) : x.id \in keys}, keys, limit)
<1> DEFINE in == [AllUsers EXCEPT !.loginOnly = TRUE]
           us == getUsers(q.tid, makeUserFilter(in, keys))
           n == Cardinality(us)
           shown == {x \in UNION GetUsers(q, AllUsers, {}, 0, 0) : x.id \in keys}
           Info(i) == getUsersPagination(q, in, keys, (i - 1) * limit, limit)
           Pages(i) == GetUsers(q, in, keys, (i - 1) * limit, limit)
           m == PagesOf(n, limit)
<1>1. /\ in.solution = NoRow /\ in.group = NoRow /\ in.exclude = NoRow
      /\ in.named = User /\ in.loginOnly = TRUE /\ in.role = ""
  BY DEF AllUsers
<1>2. validateRoleList("") /\ AllUsers.role = ""
  BY DEF validateRoleList, AllUsers
<1> HIDE DEF in
<1>3. us = {u \in User : UserIn(u, q.tid) /\ u \in keys}
  <2>1. \A u : u \in us <=> u \in User /\ UserIn(u, q.tid) /\ u \in loginFilter(keys)
    BY <1>1, FiltersOf
  <2> QED
    BY <2>1 DEF loginFilter
<1>4. IsFiniteSet(us) /\ n \in Nat
  <2>1. us \in SUBSET User
    BY <1>3
  <2>2. IsFiniteSet(us)
    BY <2>1, IdentityAssumption, FS_Subset
  <2> QED
    BY <2>2, FS_CardinalityType
<1>5. \A i : /\ Info(i).page = PageOf((i - 1) * limit, limit)
             /\ Info(i).pages = m /\ Info(i).total = n
  BY DEF getUsersPagination, PageOf, PagesOf
<1>6. \A i : Pages(i) = {{userModelToRsp(u, q.tid) : u \in page} :
                           page \in paginationFilter(us, (i - 1) * limit, limit)}
  <2>1. validateRoleList(in.role)
    BY <1>1, <1>2
  <2> SUFFICES ASSUME NEW i
               PROVE  Pages(i) = {{userModelToRsp(u, q.tid) : u \in page} :
                                    page \in paginationFilter(us, (i - 1) * limit, limit)}
    BY Zenon
  <2> DEFINE a == (i - 1) * limit
  <2> HIDE DEF a
  <2>2. GetUsers(q, in, keys, a, limit) =
          {{userModelToRsp(u, q.tid) : u \in page} : page \in paginationFilter(us, a, limit)}
    BY <2>1, ListOf
  <2> QED
    BY <2>2, Zenon DEF a
<1>7. shown = {userModelToRsp(u, q.tid) : u \in us}
  <2>1. UNION GetUsers(q, AllUsers, {}, 0, 0) =
          {userModelToRsp(u, q.tid) : u \in {u \in User : UserIn(u, q.tid)}}
    BY <1>2, WholeList, Everybody
  <2> HIDE DEF us
  <2> QED
    BY <1>3, <2>1, ShownAs
<1>8. \A i : paginationFilter(us, (i - 1) * limit, limit)
               = {page \in SUBSET us : Cardinality(page) = PageSize(n, (i - 1) * limit, limit)}
  BY DEF paginationFilter
<1>9. m \in Nat
  <2>1. n + limit - 1 \in Nat
    BY <1>4
  <2> QED
    BY <2>1, Quotient DEF PagesOf
<1> HIDE DEF us, n, m, shown, Info, Pages
<1>10. n = Cardinality(shown)
  BY <1>4, <1>7, ShownCount DEF n
<1>11. ASSUME NEW i \in 1 .. m + 1
       PROVE  Info(i).page = i
  <2>1. i \in Nat \ {0}
    BY <1>9
  <2> QED
    BY <1>5, <2>1, PageBegins
<1>12. ASSUME NEW i \in 1 .. m + 1, NEW page \in Pages(i)
       PROVE  /\ page \subseteq shown
              /\ page # {} <=> i <= m
              /\ i < m => Cardinality(page) = limit
              /\ i = m => (i - 1) * limit + Cardinality(page) = n
  <2> DEFINE size == PageSize(n, (i - 1) * limit, limit)
  <2>1. PICK rows \in SUBSET us :
          page = {userModelToRsp(u, q.tid) : u \in rows} /\ Cardinality(rows) = size
    BY <1>6, <1>8, <1>12
  <2>2. IsFiniteSet(rows)
    BY <1>4, FS_Subset
  <2>3. IsFiniteSet(page) /\ Cardinality(page) = size
    BY <2>1, <2>2, ShownCount
  <2>4. page # {} <=> size # 0
    BY <2>3, FS_EmptySet
  <2>5. /\ size # 0 <=> i <= m
        /\ i < m => size = limit
        /\ i = m => (i - 1) * limit + size = n
    BY <1>4, PageRows DEF m
  <2>6. page \subseteq shown
    BY <1>7, <2>1
  <2> HIDE DEF size
  <2> QED
    BY <2>3, <2>4, <2>5, <2>6
<1>13. Info(1).total = n /\ Info(1).pages = m
  BY <1>5
<1>14. /\ Info(1).total = Cardinality(shown)
       /\ \A i \in 1 .. Info(1).pages + 1 :
            /\ Info(i).page = i
            /\ \A page \in Pages(i) :
                 /\ page \subseteq shown
                 /\ page # {} <=> i <= Info(1).pages
                 /\ i < Info(1).pages => Cardinality(page) = limit
                 /\ i = Info(1).pages => (i - 1) * limit + Cardinality(page) = Info(1).total
  BY <1>10, <1>11, <1>12, <1>13
<1> QED
  BY <1>14, Zenon DEF PagesShow, in, shown, Info, Pages

\* What the identity service lists agrees with what it is a list of, for any number
\* of users, groups and roles and any limit of a page, whatever order the database
\* returns the rows in: the announced pages are those that show somebody, all but the
\* last are full, filters by a group and by its complement divide the tenant, and the
\* reads of single users, by users and by other services, show the same.
THEOREM ListsRight == IdentitySpec => []ListsAgree
<1>1. ASSUME Inv, NEW q \in Requests, Authorized(q, "GetUsers")
      PROVE  LET all == UNION GetUsers(q, AllUsers, {}, 0, 0)
                 Found(in) == UNION GetUsers(q, in, {}, 0, 0)
             IN
             /\ \A x \in all : GetUser(q, x.id) = {x} /\ GetSimpleUser(q, x.id) = {x}
             /\ GetSimpleUser(q, NoRow) \subseteq all
             /\ \A g \in Group :
                  /\ Found([AllUsers EXCEPT !.group = g, !.exclude = g]) = {}
                  /\ Found([AllUsers EXCEPT !.group = g])
                       \cup Found([AllUsers EXCEPT !.exclude = g]) = all
             /\ \A s \in tenant[q.tid].solutions, name \in {"", "manager"} :
                  \A x \in Found([AllUsers EXCEPT !.solution = s, !.role = name]) :
                    x.roles \cap GetRoles(q, name) # {}
             /\ \A keys \in SUBSET User, limit \in 1 .. Cardinality(all) :
                  PagesShow(q, {x \in all : x.id \in keys}, keys, limit)
  <2>1. \A s \in tenant[q.tid].solutions : s \in Solution
    <3>1. q \in Snapshot
      <4>1. PICK r \in Request : q = req[r] /\ req[r] # NoReq
        BY DEF Requests
      <4> QED
        BY <1>1, <4>1 DEF Inv, TypeOK
    <3>2. tenant[q.tid] \in TenantRow
      BY <1>1, <3>1 DEF Inv, TypeOK, Authorized, Snapshot
    <3> QED
      BY <3>2 DEF TenantRow
  <2>2. \A limit \in 1 .. Cardinality(UNION GetUsers(q, AllUsers, {}, 0, 0)) : limit \in Nat \ {0}
    <3> DEFINE us == {u \in User : UserIn(u, q.tid)}
    <3>1. UNION GetUsers(q, AllUsers, {}, 0, 0) = {userModelToRsp(u, q.tid) : u \in us}
      <4>1. validateRoleList(AllUsers.role)
        BY DEF AllUsers, validateRoleList
      <4> QED
        BY <1>1, <4>1, WholeList, Everybody
    <3>2. IsFiniteSet(us)
      BY IdentityAssumption, FS_Subset
    <3> HIDE DEF us
    <3>3. Cardinality(UNION GetUsers(q, AllUsers, {}, 0, 0)) \in Nat
      BY <3>1, <3>2, ShownCount, FS_CardinalityType
    <3> QED
      BY <3>3
  <2>3. \A s \in tenant[q.tid].solutions, name \in {"", "manager"} :
          \A x \in UNION GetUsers(q, [AllUsers EXCEPT !.solution = s, !.role = name], {}, 0, 0) :
            x.roles \cap GetRoles(q, name) # {}
    BY <1>1, <2>1, RolesListed
  <2>4. \A keys \in SUBSET User, limit \in 1 .. Cardinality(UNION GetUsers(q, AllUsers, {}, 0, 0)) :
          PagesShow(q, {x \in UNION GetUsers(q, AllUsers, {}, 0, 0) : x.id \in keys}, keys, limit)
    BY <1>1, <2>2, PagesShown, Zenon
  <2> QED
    BY <1>1, <2>3, <2>4, ListedReadable, FirstListed, GroupDivides, Zenon
<1>2. Inv => ListsAgree
  BY <1>1, Zenon DEF ListsAgree
<1> QED
  BY <1>2, IdentityInv, PTL

=============================================================================
