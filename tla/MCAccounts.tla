----------------------------- MODULE MCAccounts -----------------------------
(* An instance of Accounts for TLC                                         *)
EXTENDS Accounts, FiniteSets, Naturals, TLC

CONSTANTS t1, t2, adm, u1, u2, p1, p2, g1, g2, n1, n2, r1, r2, s1

CONSTANT MaxChanged  \* bound on the rows that differ from the delivered database

\* Requests are interchangeable, and so are users other than the administrator.
Symmetry == Permutations(Request) \cup Permutations(User \ {AdminUser})

\* The rows of all tables that differ, those of roles and groups of users included
Changed ==
  Cardinality({t \in Tenant : tenant[t] # DeliveredTenants[t]})
    + Cardinality({u \in User : user[u] # DeliveredUsers[u]})
    + Cardinality({g \in Group : group[g] # DeliveredGroups[g]})
    + Cardinality({u \in User \ {AdminUser} : role[u] # {}})
    + Cardinality(member)

FewChanged == Changed <= MaxChanged
=============================================================================
