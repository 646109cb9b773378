----------------------------- MODULE MCIdentity -----------------------------
(* An instance of Identity for TLC                                         *)
EXTENDS Identity, MCAccounts

ids == adm :> 1 @@ u1 :> 2 @@ u2 :> 3

solutions == [ro \in Role |-> s1]

\* With restriction, without, and three that are refused
enabled == [Delivered EXCEPT !.time = 10]
disabled == [k \in AlwaysKeys |-> IF k = "enable" THEN FALSE ELSE Delivered[k]]
requests ==
  {enabled, disabled, [enabled EXCEPT !.tries = 0], [disabled EXCEPT !.enable = TRUE],
   [enabled EXCEPT !.timeout = 0]}

\* Configurations count as rows, too.
FewRowsChanged ==
  Changed + Cardinality({t \in Tenant : conf[t] # DeliveredConfig[t]}) <= MaxChanged

\* Users have numbers, so that only requests are interchangeable.
RequestSymmetry == Permutations(Request)

=============================================================================
