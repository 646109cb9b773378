----------------------------- MODULE AtLeastOnce -----------------------------
(***************************************************************************)
(* What a consumer of a persistent queue with requeue promises about the   *)
(* jobs it is given: a job stays due until it has been done at least once. *)
(* It may be done several times.                                           *)
(***************************************************************************)
CONSTANT Job

VARIABLES due, done

Init ==
  /\ due = {}
  /\ done = {}

Assign(j) ==
  /\ due' = due \cup {j}
  /\ UNCHANGED done

Do(j) ==
  /\ j \in due
  /\ done' = done \cup {j}
  /\ UNCHANGED due

Release(j) ==
  /\ j \in due \cap done
  /\ due' = due \ {j}
  /\ UNCHANGED done

Next == \E j \in Job : Assign(j) \/ Do(j) \/ Release(j)

Spec == Init /\ [][Next]_<<due, done>>

=============================================================================
