---------------------------- MODULE MCEventStore ----------------------------
(* EventStore on a small instance: a month has one day, and a page one or two *)
(* events.                                                                    *)
EXTENDS EventStore, TLC

CONSTANTS t1, t2, c1

MCCodeRow == c1 :> [solution |-> CloudSolution, class |-> "user", level |-> "info"]

\* An operator of this solution, and one of another
MCReader ==
  {[tenant |-> t1, roles |-> {[role |-> "operator", solution |-> CloudSolution]}],
   [tenant |-> t2, roles |-> {[role |-> "operator", solution |-> "other"]}]}

Asks(solution, level, start, end) ==
  [solution |-> solution, class |-> "", level |-> level, start |-> start, end |-> end]

\* Events of some days, of a level, from a day on, and requests that are refused
MCEventsRequest ==
  {Asks(CloudSolution, "info", 0, 2), Asks("", "", 2, 0), Asks("", "none", 0, 0),
   Asks("", "", 3, 2), Asks("", "", BadDate, 0)}

=============================================================================
