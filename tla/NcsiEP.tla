------------------------------- MODULE NcsiEP -------------------------------
(***************************************************************************)
(* The records in which the lookout keeps an endpoint and a command sent   *)
(* to it, and the tests it makes of them (pkg/monitor/ctl_interface.go).   *)
(***************************************************************************)
EXTENDS Endpoint, Integers

CONSTANTS NoEP,      \* "no endpoint": a nil *NcsiEP
          Cmd,       \* command uuids (a pool: see Unused in Lookout)
          NoCmd,     \* "no command"
          Timeout,   \* EPtimeoutSec, in ticks of the model's clock
          TTL,       \* OutfileTtlMinutes, in ticks
          MaxWd      \* bound: inotify watch descriptors the kernel hands out

ASSUME NcsiEPAssumption ==
  /\ NoEP \notin EP
  /\ NoCmd \notin Cmd
  /\ Kind \in [EP -> AppName]
  /\ Timeout \in Nat /\ TTL \in Nat /\ Timeout <= TTL
  /\ MaxWd \in Nat

-----------------------------------------------------------------------------
(* inotify watch descriptors; NoWd is the code's -1.                       *)
Wd == 1..MaxWd

NoWd == 0

(* NcsiEP.  Times are kept as ages (capped just past the threshold they    *)
(* are compared with): seen is time.Since(LastSeen).  lag is the number of *)
(* lsof generations lh.lsofGen is ahead of the endpoint's, capped at 2.    *)
EpRec == [state   : Epstate,
          watched : BOOLEAN,
          wid     : Wd \cup {NoWd},
          app     : App,
          seen    : 0..(Timeout + 1),
          lag     : 0..2]

(* Mutant: a new endpoint gets the generation of the next scan.            *)
NewEpAhead == [state |-> "unknown", watched |-> FALSE, wid |-> NoWd,
               app |-> "unrecognized", seen |-> 0, lag |-> -1]

(* The struct literal of AddEp, before ChangeState(EPstateInit).           *)
NewEp == [state |-> "unknown", watched |-> FALSE, wid |-> NoWd,
          app |-> "unrecognized", seen |-> 0, lag |-> 0]

LastSeenIsStale(r) == r.seen > Timeout

(* Mutants: any generation behind is stale; the comparison turned round.   *)
LsofGenIsBehind(r) == r.lag >= 1

LsofGenIsAhead(r) == r.lag < 0

LsofGenIsStale(r) == r.lag >= 2

(* epCommand with the files it owns: file is "in" while the command file   *)
(* waits in the endpoint's input directory and an Answer once the output   *)
(* file is there.  age counts from addCmd.  live is a ghost: the command   *)
(* was submitted and has been neither completed nor flushed.               *)
CmdRec == [ep   : EP \cup {NoEP},
           op   : EPcmdType \cup {"none"},
           age  : 0..(TTL + 1),
           file : {"none", "in"} \cup Answer,
           live : BOOLEAN]

NoCommand == [ep |-> NoEP, op |-> "none", age |-> 0, file |-> "none",
              live |-> FALSE]

cmdIsStale(r) == r.age > Timeout

(* removeFiles: a command file is removed once its mtime, which is never   *)
(* earlier than the command's start, is more than TTL ago.                 *)
mayExpire(r) == r.age > TTL

Older(n, cap) == IF n < cap THEN n + 1 ELSE n
=============================================================================
