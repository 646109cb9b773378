----------------------------- MODULE EventCodes -----------------------------
(***************************************************************************)
(* Event codes, and the requests of the notification service that select   *)
(* events or settings by what the table cdm_event_code says of their code  *)
(* (services/notification/handler/utils.go). One class stands for the      *)
(* three that a code and a request have. A text of a request is "" when it *)
(* is not given, and "long" when it is over the column's length.           *)
(***************************************************************************)
CONSTANTS
  Code,
  CodeRow,  \* CodeRow[c]: the row of cdm_event_code, or NoRow
  NoRow     \* there is no row in the table

ASSUME EventCodesAssumption ==
  \A c \in Code :
    CodeRow[c] = NoRow \/ CodeRow[c] \in [solution: STRING, class: STRING, level: STRING]

CloudSolution == "CDM-Cloud"

Blank == [solution |-> "", class |-> "", level |-> ""]

validateLevel(level) == level \in {"trace", "info", "warn", "error", "fatal"}

\* validateGetEventsStreamParams and validateGetEventReceivesRequest ask the same.
validateGetEventsParams(in) ==
  /\ in.solution # "long"
  /\ in.class # "long"
  /\ in.level # "" => validateLevel(in.level)

Unfiltered(in) == in.solution = "" /\ in.class = "" /\ in.level = ""

\* A blank field is not a condition; a code without a row fails any other.
Matches(c, in) ==
  IF CodeRow[c] = NoRow
    THEN Unfiltered(in)
    ELSE /\ in.solution = "" \/ in.solution = CodeRow[c].solution
         /\ in.class = "" \/ in.class = CodeRow[c].class
         /\ in.level = "" \/ in.level = CodeRow[c].level

\* The roles of a caller as the gateway has put them in the metadata
checkAuthorization(roles) ==
  \E r \in roles : r.role \in {"manager", "admin"} \/ r.solution = CloudSolution

=============================================================================
