--------------------------- MODULE MCNotification ---------------------------
EXTENDS Notification, TLC

CONSTANTS t1, t2, u1, u2, c1, fail

MCTenantOf == (u1 :> t1) @@ (u2 :> t2)

MCCodeRow ==
  [c \in Code |-> [solution |-> CloudSolution, class |-> "event", level |-> "error"]]

Enabled ==
  [defaultConfig EXCEPT !.enable = TRUE, !.email = TRUE,
     !.smtp = [address |-> "text", port |-> 25, encryption |-> "ssl/tls",
               auth |-> "PLAIN", username |-> "text", password |-> "text",
               sender |-> "text"]]

\* an account that can be mailed, one without an address, and one with a time zone
\* that nobody knows
MCProfile == [email: {"text", NoRow}, zone: {NoRow}] \cup {[email |-> "text", zone |-> "text"]}

MCInitialProfile ==
  [u \in User |-> [email |-> IF u = u1 THEN "text" ELSE NoRow, zone |-> NoRow]]

\* Of the tenant whose events are reported: a configuration without encryption, one
\* that turns everything off, and two that are refused, for a port out of range and
\* for a field left out
MCConfigRequest ==
  (t1 :> {[Enabled EXCEPT !.smtp.encryption = "none"],
          defaultConfig,
          [Enabled EXCEPT !.smtp.port = 65536],
          [f \in DOMAIN Enabled \ {"period"} |-> Enabled[f]]})
    @@ (t2 :> {})

MCCredential == {<<"text", "text">>}

MCReceiveRequest == (t1 :> {c1 :> NoRow, [c \in {} |-> TRUE]}) @@ (t2 :> {})

\* reports of one of the tenants, of no tenant, and one that is malformed
MCInput ==
  {[tenant |-> t, code |-> c1, ok |-> TRUE] : t \in {t1, NoTenant}}
    \cup {[tenant |-> t1, code |-> c1, ok |-> FALSE]}

MCInitialTenantRcv == {[c \in Code |-> TRUE]}

MCInitialUserRcv == {[c \in Code |-> IF c = c1 THEN TRUE ELSE NoRow]}

MCInitialConfig == {Enabled}
=============================================================================
