------------------------ MODULE NotificationSettings ------------------------
(***************************************************************************)
(* The settings of the notification service (services/notification/config  *)
(* and the handlers that change them): the event configuration of each     *)
(* tenant, the event codes its users receive by default, and the codes     *)
(* each user has chosen; and what the mailer reads of the accounts that    *)
(* the identity service keeps. All are rows of the database; each handler  *)
(* is one transaction.                                                     *)
(*                                                                         *)
(* A text is "" (not given), "text", or "long" (over the column's length). *)
(* A field that a request leaves out is not in the request's domain.       *)
(***************************************************************************)
EXTENDS EventCodes, Integers

CONSTANTS
  Tenant, User,
  TenantOf,       \* TenantOf[u]: the tenant that user u belongs to
  Profile,        \* what UpdateUser can make of a user's address and time zone
  ConfigRequest,  \* ConfigRequest[t]: the configurations SetConfig is called with
  ReceiveRequest, \* ReceiveRequest[t]: the requests that SetTenantEventReceives
                  \* and, by its users, SetUserEventReceives are called with
  MaxChanges      \* bound on the changes of settings and accounts

ASSUME SettingsAssumption ==
  /\ TenantOf \in [User -> Tenant]
  /\ NoRow \notin BOOLEAN
  /\ \A p \in Profile : {"email", "zone"} \subseteq DOMAIN p
  /\ \A t \in Tenant : \A items \in ReceiveRequest[t] : \A c \in DOMAIN items : items[c] \in BOOLEAN \cup {NoRow}
  /\ MaxChanges \in Nat

VARIABLES
  conf,       \* conf[t]: the rows of cdm_tenant_config about events
  tenantRcv,  \* tenantRcv[t][c]: cdm_tenant_receive_event
  userRcv,    \* userRcv[u][c]: cdm_user_receive_event
  users,      \* the users that exist
  profile,    \* profile[u]: address and time zone in cdm_user, NoRow for none
  changes     \* number of changes so far

rows == <<conf, tenantRcv, userRcv, users, profile>>
settings == <<rows, changes>>

Text == {"", "text", "long"}

SMTPNotifier ==
  [address: Text, port: Nat, encryption: STRING, auth: STRING,
   username: Text, password: Text, sender: Text]

SMSNotifier == [provider: Text, version: Text]

EventConfig ==
  [enable: BOOLEAN, email: BOOLEAN, sms: BOOLEAN, desktop: BOOLEAN,
   popup: BOOLEAN, custom: BOOLEAN, period: Nat,
   smtp: SMTPNotifier, smsNotifier: SMSNotifier]

\* What a missing row stands for; an empty notifier has blank fields.
defaultConfig ==
  [enable |-> FALSE, email |-> FALSE, sms |-> FALSE, desktop |-> FALSE,
   popup |-> FALSE, custom |-> FALSE, period |-> 12,
   smtp |-> [address |-> "", port |-> 0, encryption |-> "", auth |-> "",
             username |-> "", password |-> "", sender |-> ""],
   smsNotifier |-> [provider |-> "", version |-> ""]]

\* A request that leaves nothing out has values of the types of the protocol.
ASSUME ConfigAssumption ==
  \A t \in Tenant : \A req \in ConfigRequest[t] : DOMAIN req = DOMAIN defaultConfig => req \in EventConfig

getConfigOne(t, key) ==
  IF conf[t] = NoRow THEN defaultConfig[key] ELSE conf[t][key]

GetConfig(t) == [key \in DOMAIN defaultConfig |-> getConfigOne(t, key)]

-----------------------------------------------------------------------------
(* Validation of a configuration                                           *)

validateEventStorePeriod(period) == period <= 120

validateServerAddress(address) == address \notin {"", "long"}

validateServerPort(port) == port \in 1 .. 65535

validateEncryption(enc) == enc \in {"none", "ssl/tls", "starttls"}

validateAuthMechanism(mec) == mec \in {"PLAIN", "LOGIN", "CRAM-MD5"}

validateAuthUsername(name) == name \notin {"", "long"}

validateAuthPassword(password) == password \notin {"", "long"}

validateSender(sender) == sender # "long"

validateProvider(provider) == provider \notin {"", "long"}

validateVersion(version) == version \notin {"", "long"}

ValidateConfig(req) ==
  /\ DOMAIN req = DOMAIN defaultConfig
  /\ validateEventStorePeriod(req.period)
  /\ req.email =>
       /\ validateServerAddress(req.smtp.address)
       /\ validateServerPort(req.smtp.port)
       /\ validateEncryption(req.smtp.encryption)
       /\ validateAuthMechanism(req.smtp.auth)
       /\ validateAuthUsername(req.smtp.username)
       /\ validateAuthPassword(req.smtp.password)
       /\ validateSender(req.smtp.sender)
  /\ req.sms =>
       /\ validateProvider(req.smsNotifier.provider)
       /\ validateVersion(req.smsNotifier.version)

-----------------------------------------------------------------------------
(* The handlers                                                            *)

Change ==
  /\ changes < MaxChanges
  /\ changes' = changes + 1

\* setConfigOne and its variants: one row for each key, all or none
ConfigRows(req) == [key \in DOMAIN defaultConfig |-> req[key]]

SetConfig(t, req) ==
  /\ Change
  /\ ValidateConfig(req)
  /\ conf' = [conf EXCEPT ![t] = ConfigRows(req)]
  /\ UNCHANGED <<tenantRcv, userRcv, users, profile>>

\* A request has a flag, or none (NoRow), for some codes: at least one is
\* given, and none is blank.
validateEventReceives(items) ==
  /\ DOMAIN items # {}
  /\ DOMAIN items \subseteq Code

\* A flag that is left out is saved as false.
SetTenantEventReceives(t, items) ==
  /\ Change
  /\ validateEventReceives(items)
  /\ tenantRcv' = [tenantRcv EXCEPT ![t] =
       [c \in Code |-> IF c \in DOMAIN items THEN items[c] = TRUE ELSE @[c]]]
  /\ UNCHANGED <<conf, userRcv, users, profile>>

ValidateUser(u) == u \in users

\* A flag that is left out deletes the row.
SetUserEventReceives(u, items) ==
  /\ Change
  /\ validateEventReceives(items)
  /\ ValidateUser(u)
  /\ userRcv' = [userRcv EXCEPT ![u] =
       [c \in Code |-> IF c \in DOMAIN items THEN items[c] ELSE @[c]]]
  /\ UNCHANGED <<conf, tenantRcv, users, profile>>

\* gorm's Delete builds its condition from the primary key only when the
\* first field of the key, the code, is set. It is not: every row goes.
ResetUserEventReceives(u) ==
  /\ Change
  /\ ValidateUser(u)
  /\ userRcv' = [v \in User |-> [c \in Code |-> NoRow]]
  /\ UNCHANGED <<conf, tenantRcv, users, profile>>

\* deleteUser of the identity service. The foreign key of
\* cdm_user_receive_event refuses it while the user has settings.
DeleteUser(u) ==
  /\ Change
  /\ u \in users
  /\ \A c \in Code : userRcv[u][c] = NoRow
  /\ users' = users \ {u}
  /\ UNCHANGED <<conf, tenantRcv, userRcv, profile>>

\* updateUser of the identity service: an address belongs to one user, and of a time
\* zone only the length is checked.
UpdateUser(u, p) ==
  /\ Change
  /\ u \in users
  /\ p.email # NoRow => \A v \in users \ {u} : profile[v].email # p.email
  /\ profile' = [profile EXCEPT ![u] = p]
  /\ UNCHANGED <<conf, tenantRcv, userRcv, users>>

ChangeConfig == \E t \in Tenant : \E req \in ConfigRequest[t] : SetConfig(t, req)

ChangeReceives ==
  \/ \E t \in Tenant : \E items \in ReceiveRequest[t] : SetTenantEventReceives(t, items)
  \/ \E u \in User : \E items \in ReceiveRequest[TenantOf[u]] : SetUserEventReceives(u, items)
  \/ \E u \in User : ResetUserEventReceives(u)

ChangeAccount ==
  \/ \E u \in User : DeleteUser(u)
  \/ \E u \in User, p \in Profile : UpdateUser(u, p)

\* A request that leaves all rows as they are is no step.
SettingsNext ==
  /\ ChangeConfig \/ ChangeReceives \/ ChangeAccount
  /\ rows' # rows

-----------------------------------------------------------------------------
(* Reading the settings                                                    *)

validateGetEventReceivesRequest(in) == validateGetEventsParams(in)

\* A request that no row of cdm_event_code matches is refused.
Selected(in) ==
  {c \in Code : CodeRow[c] # NoRow /\ validateGetEventReceivesRequest(in) /\ Matches(c, in)}

\* The rows of one tenant, or of one user, joined with the event codes that
\* match the request; those of a user where there is a flag
GetTenantEventReceives(t, in) ==
  [c \in {c \in Selected(in) : tenantRcv[t][c] # NoRow} |-> tenantRcv[t][c]]

GetUserEventReceives(u, in) ==
  [c \in {c \in Selected(in) : userRcv[u][c] # NoRow} |-> userRcv[u][c]]

-----------------------------------------------------------------------------
SettingsTypeOK ==
  /\ conf \in [Tenant -> EventConfig \cup {NoRow}]
  /\ tenantRcv \in [Tenant -> [Code -> BOOLEAN \cup {NoRow}]]
  /\ userRcv \in [User -> [Code -> BOOLEAN \cup {NoRow}]]
  /\ users \subseteq User
  /\ profile \in [User -> Profile]
  /\ changes \in 0 .. MaxChanges

\* The comment of ResetUserEventReceives says that it removes the settings
\* of one given user: no request changes what two users, or two tenants, are
\* shown as their settings.
ChangesOneUser ==
  [][/\ \A u, v \in User :
          /\ GetUserEventReceives(u, Blank)' # GetUserEventReceives(u, Blank)
          /\ GetUserEventReceives(v, Blank)' # GetUserEventReceives(v, Blank)
          => u = v
     /\ \A s, t \in Tenant :
          /\ GetTenantEventReceives(s, Blank)' # GetTenantEventReceives(s, Blank)
          /\ GetTenantEventReceives(t, Blank)' # GetTenantEventReceives(t, Blank)
          => s = t]_settings

=============================================================================
