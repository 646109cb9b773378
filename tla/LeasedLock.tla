----------------------------- MODULE LeasedLock -----------------------------
(***************************************************************************)
(* What CampaignLeader and Lock of common/sync promise: at any time at     *)
(* most one contender owns the lock, and it is passed on only after its    *)
(* owner has lost it, by giving it up or because its lease has run out.    *)
(***************************************************************************)
CONSTANTS Contender, Nobody

VARIABLE owner

Init == owner = Nobody

Acquire(c) ==
  /\ owner = Nobody
  /\ owner' = c

Lose ==
  /\ owner # Nobody
  /\ owner' = Nobody

Next == Lose \/ \E c \in Contender : Acquire(c)

Spec == Init /\ [][Next]_owner

=============================================================================
