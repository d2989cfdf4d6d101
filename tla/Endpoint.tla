------------------------------ MODULE Endpoint ------------------------------
(***************************************************************************)
(* The vocabulary every other module uses of a monitored endpoint: its     *)
(* lifecycle states, the applications behind it and the command each one   *)
(* is queried with (pkg/monitor/ctl_interface.go, pkg/monitor/applications)*)
(***************************************************************************)
CONSTANTS EP,        \* endpoint uuids, one per directory under CTLPath
          Kind       \* Kind[e]: the application that runs behind e

AppName == {"PMDB", "NISD", "NCLIENT"}

-----------------------------------------------------------------------------
(* Lifecycle states.  EPstateUnknown is only ever seen by the goroutine    *)
(* that is creating the endpoint, so in the model it says that the uuid    *)
(* is not in epMap.  EPstateAny is a query wildcard, never a state.        *)
Epstate == {"unknown", "init", "identified", "running", "down", "removing"}

isWatchedState(s) == s \notin {"removing", "unknown"}

(* The states whose entry stamps LastSeen in ChangeState.                  *)
stampsLastSeen(s) == s \in {"init", "running", "identified"}

-----------------------------------------------------------------------------
(* Applications and the command each one is polled with.                   *)
App == AppName \cup {"unrecognized"}

EPcmdType == {"IdentifyOp", "RaftInfoOp", "SystemInfoOp", "NISDInfoOp",
              "NCLIENTInfoOp", "CustomOp"}

PmdbDetectInfo(b) == IF b THEN "RaftInfoOp" ELSE "SystemInfoOp"

NisdDetectInfo(b) == "NISDInfoOp"

NclientDetectInfo(b) == "NCLIENTInfoOp"

UnrecognizedDetectInfo(b) == "CustomOp"

GetAppDetectInfo(a, b) ==
  CASE a = "PMDB"         -> PmdbDetectInfo(b)
    [] a = "NISD"         -> NisdDetectInfo(b)
    [] a = "NCLIENT"      -> NclientDetectInfo(b)
    [] a = "unrecognized" -> UnrecognizedDetectInfo(b)

(* What an application can leave in its output file.  "good" parses, and   *)
(* names the application when it answers an identify command; "bad" does   *)
(* not parse or has no known root entry; "big" is over maxOutFileSize, or  *)
(* cannot be read.                                                         *)
Answer == {"good", "bad", "big"}

DetermineApp(answer, e) == IF answer = "good" THEN Kind[e] ELSE "unrecognized"
=============================================================================
