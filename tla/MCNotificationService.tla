------------------------ MODULE MCNotificationService ------------------------
(* NotificationService on a small instance.                                   *)
EXTENDS NotificationService, TLC

CONSTANTS t1, t2, s1, s2, c1, c2

MCCodeRow == c1 :> [solution |-> CloudSolution, class |-> "user", level |-> "info"]
               @@ c2 :> [solution |-> CloudSolution, class |-> "user", level |-> "warn"]

MCAsked == [s \in Stream |-> [Blank EXCEPT !.level = "info"]]

MCInterval == {None, 1, 5}
=============================================================================
