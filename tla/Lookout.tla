------------------------------- MODULE Lookout ------------------------------
(***************************************************************************)
(* The monitoring core of niova-lookout: the goroutines that share the     *)
(* endpoint container (pkg/monitor), at the granularity at which they can  *)
(* interleave.                                                             *)
(*                                                                         *)
(*   monitor  LookoutHandler.monitor: CleanEPs, then PollEPs, then sleep   *)
(*   lsof     monitorLsof: a scan of /proc that adds or refreshes the      *)
(*            endpoints whose process is alive                             *)
(*   inotify  epInotifyWatch: new endpoint directories and command answers *)
(*                                                                         *)
(* epc.mutex serialises CleanEPs, PollEPs and AddEp.  Complete, which the  *)
(* inotify goroutine runs for every answer, does NOT take it: only         *)
(* ep.Mutex inside addCmd/removeCmd and inotify.mutex inside EpWatchAdd,   *)
(* EpWatchRemove and epWatchLookup protect what it shares with the others. *)
(* A critical section of those two is one action; ChangeState and submit,  *)
(* which hold neither over their checks and writes, are several.           *)
(***************************************************************************)
EXTENDS NcsiEP, Sequences, FiniteSets

CONSTANTS Rereads,    \* TRUE: the build loads a field at every read of it
          Prompt,     \* TRUE: a reachable application answers within Timeout
          MaxEvents,  \* the kernel's limit on queued inotify events
          Faults,     \* what the environment may do (Fault, below)
          MaxEnv      \* bound: how often it may do it

(* A process starts or stops, its directory is touched or removed, it      *)
(* answers a command again or with what the lookout cannot read, a command *)
(* file cannot be written.                                                 *)
Fault == {"start", "stop", "touch", "rmdir", "resend", "garble", "write"}

ASSUME LookoutAssumption ==
  /\ Rereads \in BOOLEAN /\ Prompt \in BOOLEAN
  /\ Faults \subseteq Fault
  /\ MaxEvents \in Nat /\ MaxEnv \in Nat

Thread == {"monitor", "lsof", "inotify"}

VARIABLES
  ep,      \* ep[e]: the *NcsiEP of e; state "unknown" = e is not in epMap
  pend,    \* pend[e]: the keys of e's pendingCmds
  cmd,     \* cmd[c]: the epCommand c and its files
  wmap,    \* inotify.wmap: watch descriptor -> endpoint
  lock,    \* the thread that holds epc.mutex, or "none"
  th,      \* th[t]: program counter and locals of goroutine t
  exit,    \* "no", or what ended the process (Fatal, panic, runtime throw)
  kern,    \* kernel: kern[e] is the watch on e's present output directory
  nextWd,  \* kernel: next watch descriptor
  evq,     \* kernel: queued inotify events, oldest first
  proc,    \* proc[e]: e's process runs
  dir,     \* dir[e]: e's directory, "root" while output/ is still missing
  budget,  \* environment changes still allowed (bound)
  up       \* ghost: lsof scans begun since e became visible, capped at 2

epVars  == <<ep, pend, cmd, wmap>>
kerVars == <<kern, nextWd, evq>>
envVars == <<proc, dir, budget>>
vars    == <<ep, pend, cmd, wmap, lock, th, exit, kern, nextWd, evq, proc,
             dir, budget, up>>

-----------------------------------------------------------------------------
(* Program counters.  A thread calls ChangeState with pc "changeState" and *)
(* addCmd with pc "addCmd"; both go on at ret when they return.            *)
PC == {"none",
       "boot", "sleep", "cleanNext", "decide",
       "pollLock", "pollNext", "pollAge",
       "addEp", "found", "unlock",
       "read", "complete", "revive", "apply", "query",
       "addCmd", "retry",
       "changeState", "watchAdd", "watchRemove", "setWatched", "setState",
       "setSeen"}

Exit == {"no", "watchAssert", "EBUSY", "notWatched", "ENOENT", "widTaken",
         "wmapMismatch", "mapRace", "nilDeref"}

(* A uuid that appears under CTLPath (IN_CREATE, IN_ATTRIB), or an output  *)
(* file that is moved into a watched directory (IN_MOVED_TO).              *)
CreateEvent(e) == [type |-> "create", ep |-> e, wd |-> NoWd, cmd |-> NoCmd]

MovedEvent(w, c) == [type |-> "moved", ep |-> NoEP, wd |-> w, cmd |-> c]

Event ==
  [type : {"create"}, ep : EP, wd : {NoWd}, cmd : {NoCmd}]
    \cup [type : {"moved"}, ep : {NoEP}, wd : Wd, cmd : Cmd]

(* Where ChangeState and submit may return to.                             *)
RetPC == {"none", "cleanNext", "pollNext", "pollAge", "unlock", "read",
          "apply", "query"}

ThRec == [pc : PC, ret : RetPC, ep : EP \cup {NoEP}, tgt : Epstate,
          op : EPcmdType \cup {"none"}, cmd : Cmd \cup {NoCmd},
          out : Answer \cup {"none"}, todo : SUBSET EP]

Alive == exit = "no"

At(t, p) == Alive /\ th[t].pc = p

Cur(t) == th[t].ep

Goto(t, p) == th' = [th EXCEPT ![t].pc = p]

Idle(p) == [pc |-> p, ret |-> "none", ep |-> NoEP, tgt |-> "unknown",
            op |-> "none", cmd |-> NoCmd, out |-> "none", todo |-> {}]

(* On to the next turn of the thread's loop at p.                          *)
Done(t, p) ==
  th' = [th EXCEPT ![t] = [Idle(p) EXCEPT !.todo = th[t].todo]]

LoopHead == {"read", "cleanNext", "pollNext"}

Return(t) ==
  IF th[t].ret \in LoopHead THEN Done(t, th[t].ret)
  ELSE th' = [th EXCEPT ![t].pc = th[t].ret, ![t].ret = "none",
                        ![t].tgt = "unknown"]

CallChangeState(t, s, r) ==
  th' = [th EXCEPT ![t].pc = "changeState", ![t].tgt = s, ![t].ret = r]

Die(why) == exit' = why /\ UNCHANGED th

InMap == {e \in EP : ep[e].state # "unknown"}

(* lsof finds e: its process runs and holds e's directory open.            *)
Visible(e) == proc[e] /\ dir[e] = "full"

-----------------------------------------------------------------------------
(* ChangeState(th[t].tgt) on th[t].ep by thread t.                         *)

(* The early return when nothing changes, ensureWatchedState, and the      *)
(* checks that watchCtl, EpWatchAdd and EpWatchRemove make before they     *)
(* take inotify.mutex.                                                     *)
ensureWatchedState(r) == r.watched = isWatchedState(r.state)

ChangeState(t) ==
  LET r   == ep[Cur(t)]
      s   == th[t].tgt
      iws == isWatchedState(s)
  IN /\ At(t, "changeState")
     /\ \/ s = r.state /\ Return(t) /\ UNCHANGED exit
        \/ s # r.state /\ ~ensureWatchedState(r) /\ Die("watchAssert")
        \/ /\ s # r.state /\ ensureWatchedState(r)
           /\ \/ iws = r.watched /\ Goto(t, "setState") /\ UNCHANGED exit
              \/ iws /\ ~r.watched /\ r.wid = NoWd
                 /\ Goto(t, "watchAdd") /\ UNCHANGED exit
              \/ iws /\ ~r.watched /\ r.wid # NoWd /\ Die("EBUSY")
              \/ ~iws /\ r.watched /\ r.wid # NoWd
                 /\ Goto(t, "watchRemove") /\ UNCHANGED exit
              \/ ~iws /\ r.watched /\ r.wid = NoWd /\ Die("notWatched")
     /\ UNCHANGED <<epVars, lock, kerVars, envVars, up>>

(* inotify_add_watch(2): the descriptor of an already watched directory,   *)
(* or a new one.                                                           *)
InotifyAddWatch(e) == IF kern[e] # NoWd THEN kern[e] ELSE nextWd

Watches(e, w) ==
  /\ kern' = [kern EXCEPT ![e] = w]
  /\ nextWd' = IF w = nextWd THEN nextWd + 1 ELSE nextWd

(* Mutant: the watch is not entered in wmap.                               *)
EpWatchAddUnmapped(t) ==
  LET e == Cur(t)
      w == InotifyAddWatch(e)
  IN /\ At(t, "watchAdd")
     /\ w <= MaxWd /\ dir[e] = "full"
     /\ Watches(e, w)
     /\ ep' = [ep EXCEPT ![e].wid = w]
     /\ Goto(t, "setWatched")
     /\ UNCHANGED <<pend, cmd, wmap, lock, exit, evq, envVars, up>>

EpWatchAdd(t) ==
  LET e == Cur(t)
      w == InotifyAddWatch(e)
  IN /\ At(t, "watchAdd")
     /\ w <= MaxWd
     /\ \/ /\ dir[e] # "full" /\ Die("ENOENT")
           /\ UNCHANGED <<ep, wmap, kern, nextWd>>
        \/ /\ dir[e] = "full" /\ wmap[w] # NoEP /\ Die("widTaken")
           /\ UNCHANGED <<ep, wmap, kern, nextWd>>
        \/ /\ dir[e] = "full" /\ wmap[w] = NoEP
           /\ Watches(e, w)
           /\ ep' = [ep EXCEPT ![e].wid = w]
           /\ wmap' = [wmap EXCEPT ![w] = e]
           /\ Goto(t, "setWatched") /\ UNCHANGED exit
     /\ UNCHANGED <<pend, cmd, lock, evq, envVars, up>>

(* inotify_rm_watch(2): fails, and changes nothing, for a descriptor that  *)
(* is not in use.                                                          *)
InotifyRmWatch(w) == [e \in EP |-> IF kern[e] = w THEN NoWd ELSE kern[e]]

(* Mutant: the wid is reset but the entry stays in wmap.                   *)
EpWatchRemoveKept(t) ==
  /\ At(t, "watchRemove")
  /\ ep' = [ep EXCEPT ![Cur(t)].wid = NoWd]
  /\ Goto(t, "setWatched")
  /\ UNCHANGED <<pend, cmd, wmap, lock, exit, kerVars, envVars, up>>

(* The wid is reset before it is handed to the kernel: what                *)
(* InotifyRmWatch gets is -1.                                              *)
EpWatchRemove(t) ==
  LET e == Cur(t)
  IN /\ At(t, "watchRemove")
     /\ \/ /\ wmap[ep[e].wid] # e /\ Die("wmapMismatch")
           /\ UNCHANGED <<ep, wmap, kern>>
        \/ /\ wmap[ep[e].wid] = e
           /\ wmap' = [wmap EXCEPT ![ep[e].wid] = NoEP]
           /\ ep' = [ep EXCEPT ![e].wid = NoWd]
           /\ kern' = InotifyRmWatch(NoWd)
           /\ Goto(t, "setWatched") /\ UNCHANGED exit
     /\ UNCHANGED <<pend, cmd, lock, nextWd, evq, envVars, up>>

SetWatched(t) ==
  /\ At(t, "setWatched")
  /\ ep' = [ep EXCEPT ![Cur(t)].watched = isWatchedState(th[t].tgt)]
  /\ Goto(t, "setState")
  /\ UNCHANGED <<pend, cmd, wmap, lock, exit, kerVars, envVars, up>>

SetState(t) ==
  /\ At(t, "setState")
  /\ ep' = [ep EXCEPT ![Cur(t)].state = th[t].tgt]
  /\ IF stampsLastSeen(th[t].tgt) THEN Goto(t, "setSeen") ELSE Return(t)
  /\ UNCHANGED <<pend, cmd, wmap, lock, exit, kerVars, envVars, up>>

SetSeen(t) ==
  /\ At(t, "setSeen")
  /\ ep' = [ep EXCEPT ![Cur(t)].seen = 0]
  /\ Return(t)
  /\ UNCHANGED <<pend, cmd, wmap, lock, exit, kerVars, envVars, up>>

-----------------------------------------------------------------------------
(* epCommand.submit of an op th[t].op to th[t].ep by thread t.             *)

(* Mutant: the queue is held to maxPendingCmdsEP.                          *)
mayQueueCmdUpTo32(e) == Cardinality(pend[e]) < 32

(* mayQueueCmd looks at pendingCmds without ep.Mutex; addCmd takes it      *)
(* later.  A thread that may queue goes on at "addCmd", then at r.         *)
mayQueueCmd(e) == pend[e] = {}

MayQueue(t, e, o, r) ==
  IF mayQueueCmd(e)
  THEN th' = [th EXCEPT ![t].pc = "addCmd", ![t].op = o, ![t].ret = r,
                        ![t].ep = e, ![t].todo = @ \ {e}]
  ELSE th' = [th EXCEPT ![t] =
                [Idle(r) EXCEPT !.todo = th[t].todo \ {e},
                                !.ep = IF r = "pollAge" THEN e ELSE NoEP]]

Spend(f) == f \in Faults /\ budget > 0 /\ budget' = budget - 1

(* A fresh uuid.  The pool is finite, so a uuid may come back once nothing *)
(* can refer to it any more but a file left on disk, which is forgotten.   *)
Unused(c) ==
  /\ \A e \in EP : c \notin pend[e]
  /\ \A i \in 1..Len(evq) : evq[i].cmd # c
  /\ th["inotify"].cmd # c

(* prep adds the command, then WriteFile creates its input file.  When the *)
(* write fails the command stays pending; queryApp then tries RaftInfoOp   *)
(* once if it was a SystemInfoOp.                                          *)
Submit(t) ==
  LET e == Cur(t)
      o == th[t].op
  IN /\ At(t, "addCmd")
     /\ \E c \in {x \in Cmd : Unused(x)}, written \in BOOLEAN :
          /\ IF dir[e] = "full" /\ ~written THEN Spend("write")
             ELSE (written => dir[e] = "full") /\ UNCHANGED budget
          /\ pend' = [pend EXCEPT ![e] = @ \cup {c}]
          /\ cmd' = [cmd EXCEPT ![c] =
               [ep |-> e, op |-> o, age |-> 0, live |-> TRUE,
                file |-> IF written THEN "in" ELSE "none"]]
          /\ IF ~written /\ o = "SystemInfoOp"
               THEN th' = [th EXCEPT ![t].pc = "retry",
                             ![t].op = GetAppDetectInfo(ep[e].app, TRUE)]
               ELSE Return(t)
     /\ UNCHANGED <<ep, wmap, lock, exit, kerVars, proc, dir, up>>

Retry(t) ==
  /\ At(t, "retry")
  /\ MayQueue(t, Cur(t), th[t].op, th[t].ret)
  /\ UNCHANGED <<epVars, lock, exit, kerVars, envVars, up>>

-----------------------------------------------------------------------------
(* The monitor goroutine.                                                  *)

Acquire(t) == lock = "none" /\ lock' = t

(* Start runs the monitor loop after the first lsof scan.                  *)
Start ==
  /\ At("monitor", "boot")
  /\ th["lsof"].pc = "sleep" /\ th["lsof"].todo = {}
  /\ Goto("monitor", "sleep")
  /\ UNCHANGED <<epVars, lock, exit, kerVars, envVars, up>>

(* CleanEPs takes epc.mutex and ranges over epMap, in any order.           *)
CleanEPs ==
  /\ At("monitor", "sleep")
  /\ Acquire("monitor")
  /\ th' = [th EXCEPT !["monitor"].pc = "cleanNext",
                      !["monitor"].todo = InMap]
  /\ UNCHANGED <<epVars, exit, kerVars, envVars, up>>

(* Mutant: stale commands are looked for in a running endpoint only.       *)
flushRunningOnly(e) ==
  {c \in pend[e] : cmdIsStale(cmd[c]) /\ ep[e].state = "running"}

(* The next endpoint: flushStaleCmds and RemoveStaleFiles.  An output file *)
(* is younger than its command, so it may outlive TTL.  A flushed command  *)
(* is remembered only as long as its command file can still be answered.   *)
flushStaleCmds(e) == {c \in pend[e] : cmdIsStale(cmd[c])}

RemoveStaleFiles(e) ==
  {c \in Cmd : /\ cmd[c].ep = e /\ cmd[c].file # "none"
               /\ mayExpire(cmd[c]) /\ isWatchedState(ep[e].state)}

Forget(r) ==
  IF r.file = "in" THEN [r EXCEPT !.op = "none", !.live = FALSE]
                   ELSE NoCommand

CleanNext ==
  /\ At("monitor", "cleanNext")
  /\ \E e \in th["monitor"].todo, gone \in SUBSET Cmd :
       LET Swept(c) == [cmd[c] EXCEPT !.file = IF c \in gone THEN "none" ELSE @]
           flushed  == flushStaleCmds(e)
       IN /\ gone \subseteq RemoveStaleFiles(e)
          /\ pend' = [pend EXCEPT ![e] = @ \ flushed]
          /\ cmd' = [c \in Cmd |->
               IF c \in flushed \/ (c \in gone /\ ~cmd[c].live)
               THEN Forget(Swept(c)) ELSE Swept(c)]
          /\ th' = [th EXCEPT !["monitor"].pc = "decide",
                              !["monitor"].ep = e,
                              !["monitor"].todo = @ \ {e}]
  /\ UNCHANGED <<ep, wmap, lock, exit, kerVars, envVars, up>>

CleanDone ==
  /\ At("monitor", "cleanNext") /\ th["monitor"].todo = {}
  /\ lock' = "none"
  /\ Done("monitor", "pollLock")
  /\ UNCHANGED <<epVars, exit, kerVars, envVars, up>>

(* Mutant: a running endpoint is removed too when lsof misses it.          *)
DecideRunningToo ==
  LET r == ep[Cur("monitor")]
  IN /\ At("monitor", "decide")
     /\ IF r.state = "running" /\ LastSeenIsStale(r)
          THEN CallChangeState("monitor", "down", "cleanNext")
          ELSE IF LsofGenIsStale(r)
            THEN CallChangeState("monitor", "removing", "cleanNext")
            ELSE Done("monitor", "cleanNext")
     /\ UNCHANGED <<epVars, lock, exit, kerVars, envVars, up>>

Decide ==
  LET r == ep[Cur("monitor")]
  IN /\ At("monitor", "decide")
     /\ \/ /\ r.state = "running" /\ LastSeenIsStale(r)
           /\ CallChangeState("monitor", "down", "cleanNext")
        \/ /\ ~(r.state = "running" /\ LastSeenIsStale(r))
           /\ IF LsofGenIsStale(r) /\ r.state # "running"
                THEN CallChangeState("monitor", "removing", "cleanNext")
                ELSE Done("monitor", "cleanNext")
     /\ UNCHANGED <<epVars, lock, exit, kerVars, envVars, up>>

PollEPs ==
  /\ At("monitor", "pollLock")
  /\ Acquire("monitor")
  /\ th' = [th EXCEPT !["monitor"].pc = "pollNext",
                      !["monitor"].todo = InMap]
  /\ UNCHANGED <<epVars, exit, kerVars, envVars, up>>

(* Mutant: a down endpoint is polled only while it was seen lately.        *)
PollSubmitsFresh(r) ==
  \/ r.state \in {"init", "identified", "running"}
  \/ r.state = "down" /\ ~LastSeenIsStale(r)

(* Poll: the command it submits for an endpoint in state r.state, if any,  *)
(* and where it goes on.                                                   *)
PollSubmits(r) ==
  \/ r.state \in {"init", "identified", "running"}
  \/ r.state = "down" /\ LastSeenIsStale(r)

PollOp(r) ==
  IF r.state = "init" THEN "IdentifyOp" ELSE GetAppDetectInfo(r.app, FALSE)

AfterPoll(r) == IF r.state = "running" THEN "pollAge" ELSE "pollNext"

PollNext ==
  /\ At("monitor", "pollNext")
  /\ \E e \in th["monitor"].todo :
       IF PollSubmits(ep[e])
       THEN MayQueue("monitor", e, PollOp(ep[e]), AfterPoll(ep[e]))
       ELSE th' = [th EXCEPT !["monitor"].todo = @ \ {e}]
  /\ UNCHANGED <<epVars, lock, exit, kerVars, envVars, up>>

PollDone ==
  /\ At("monitor", "pollNext") /\ th["monitor"].todo = {}
  /\ lock' = "none"
  /\ Done("monitor", "sleep")
  /\ UNCHANGED <<epVars, exit, kerVars, envVars, up>>

PollAge ==
  LET r == ep[Cur("monitor")]
  IN /\ At("monitor", "pollAge")
     /\ IF LastSeenIsStale(r) /\ r.state = "running"
          THEN CallChangeState("monitor", "down", "pollNext")
          ELSE Done("monitor", "pollNext")
     /\ UNCHANGED <<epVars, lock, exit, kerVars, envVars, up>>

-----------------------------------------------------------------------------
(* AddEp of th[t].ep by thread t, which the lsof and the inotify goroutine *)
(* call.  It holds epc.mutex from its first step to its last.              *)
Home(t) == IF t = "lsof" THEN "sleep" ELSE "read"

Release(t) == lock' = "none" /\ Done(t, Home(t))

(* An endpoint already in epMap gets the current generation.  AddEp reads  *)
(* its State for newState, for the switch and for the test that follows,   *)
(* and Complete may write it in between.  The optimised build (Makefile,   *)
(* "build") may load it once for all three, the other ("debug", -N -l)     *)
(* loads it anew each time; tgt then keeps the first look.  A step between *)
(* the other two would show in nothing, as Complete never writes removing: *)
(* if the switch finds removing, ChangeState(init) follows in any case,    *)
(* and if it does not, its look counts for nothing.                        *)
newState(first, now) == IF now = "removing" THEN "init" ELSE first

Settle(t, first, now) ==
  LET s == newState(first, now)
  IN \/ s # now /\ CallChangeState(t, s, "unlock") /\ lock' = t
     \/ s = now /\ Release(t)

AddEpKnown(t) ==
  LET e == Cur(t)
      s == ep[e].state
  IN /\ At(t, "addEp") /\ e \in InMap /\ lock = "none"
     /\ ep' = [ep EXCEPT ![e].lag = 0]
     /\ \/ ~Rereads /\ Settle(t, s, s)
        \/ /\ Rereads /\ lock' = t
           /\ th' = [th EXCEPT ![t].pc = "found", ![t].tgt = s]
     /\ UNCHANGED <<pend, cmd, wmap, exit, kerVars, envVars, up>>

AddEpTest(t) ==
  /\ At(t, "found")
  /\ Settle(t, th[t].tgt, ep[Cur(t)].state)
  /\ UNCHANGED <<epVars, exit, kerVars, envVars, up>>

(* A new endpoint goes through ChangeState(EPstateInit), watch included,   *)
(* and into epMap before epc.mutex is released.  Nothing else can reach it *)
(* meanwhile but an answer, of which it awaits none.                       *)
AddEpNew(t) ==
  LET e == Cur(t)
      w == InotifyAddWatch(e)
  IN /\ At(t, "addEp") /\ e \notin InMap
     /\ lock = "none" /\ w <= MaxWd
     /\ \/ /\ dir[e] # "full" /\ Die("ENOENT")
           /\ UNCHANGED <<ep, wmap, kern, nextWd>>
        \/ /\ dir[e] = "full" /\ wmap[w] # NoEP /\ Die("widTaken")
           /\ UNCHANGED <<ep, wmap, kern, nextWd>>
        \/ /\ dir[e] = "full" /\ wmap[w] = NoEP
           /\ Watches(e, w)
           /\ ep' = [ep EXCEPT ![e] = [NewEp EXCEPT !.state = "init",
                                         !.watched = TRUE, !.wid = w]]
           /\ wmap' = [wmap EXCEPT ![w] = e]
           /\ Done(t, Home(t)) /\ UNCHANGED exit
     /\ UNCHANGED <<pend, cmd, lock, evq, envVars, up>>

AddEp(t) == AddEpKnown(t) \/ AddEpNew(t)

Unlock(t) ==
  /\ At(t, "unlock")
  /\ Release(t)
  /\ UNCHANGED <<epVars, exit, kerVars, envVars, up>>

-----------------------------------------------------------------------------
(* The lsof goroutine.                                                     *)

(* A scan: one generation more, then one AddEp for every process found in  *)
(* the listing of /proc that is still there when its descriptors are read. *)
(* The first scan is made by Start, before the monitor loop begins.  The   *)
(* goroutine sleeps when its todo is empty.                                *)
LookoutLsof ==
  /\ Alive /\ th["lsof"].pc \in {"boot", "sleep"} /\ th["lsof"].todo = {}
  /\ ep' = [e \in EP |-> IF e \in InMap
                          THEN [ep[e] EXCEPT !.lag = Older(@, 2)] ELSE ep[e]]
  /\ up' = [e \in EP |-> IF Visible(e) THEN Older(up[e], 2) ELSE 0]
  /\ th' = [th EXCEPT !["lsof"].pc = "sleep",
                      !["lsof"].todo = {e \in EP : Visible(e)}]
  /\ UNCHANGED <<pend, cmd, wmap, lock, exit, kerVars, envVars>>

(* The descriptors are read before AddEp waits for epc.mutex.              *)
ScanNext ==
  /\ At("lsof", "sleep")
  /\ \E e \in th["lsof"].todo :
       /\ Visible(e)
       /\ th' = [th EXCEPT !["lsof"].pc = "addEp", !["lsof"].ep = e,
                           !["lsof"].todo = @ \ {e}]
  /\ UNCHANGED <<epVars, lock, exit, kerVars, envVars, up>>

ScanMiss ==
  /\ At("lsof", "sleep")
  /\ \E e \in th["lsof"].todo :
       ~Visible(e) /\ th' = [th EXCEPT !["lsof"].todo = @ \ {e}]
  /\ UNCHANGED <<epVars, lock, exit, kerVars, envVars, up>>

-----------------------------------------------------------------------------
(* The inotify goroutine.                                                  *)

(* processEvent: a uuid created under CTLPath goes to AddEp; an answer     *)
(* goes to the endpoint its watch descriptor belongs to, if any.           *)
ProcessEvent ==
  LET ev == Head(evq)
      e  == IF ev.type = "create" THEN ev.ep
            ELSE wmap[ev.wd]
  IN /\ At("inotify", "read") /\ evq # <<>>
     /\ evq' = Tail(evq)
     /\ \/ /\ ev.type = "create"
           /\ th' = [th EXCEPT !["inotify"].pc = "addEp",
                               !["inotify"].ep = e]
        \/ /\ ev.type = "moved" /\ e # NoEP
           /\ th' = [th EXCEPT !["inotify"].pc = "complete",
                               !["inotify"].ep = e,
                               !["inotify"].cmd = ev.cmd]
        \/ ev.type = "moved" /\ e = NoEP /\ UNCHANGED th
     /\ UNCHANGED <<epVars, lock, exit, kern, nextWd, envVars, up>>

(* Mutant: the command is handed out but not deleted.                      *)
removeCmdKept(e, c) == pend

(* Complete: removeCmd(force) under ep.Mutex, then loadOutfile.  From here *)
(* on the command lives in the thread's locals op (c.op) and out           *)
(* (c.outJSON): its record is given up.                                    *)
removeCmd(e, c) == [pend EXCEPT ![e] = @ \ {c}]

loadOutfile(c) == cmd[c].file \in {"good", "bad"}

Complete ==
  LET e == Cur("inotify")
      c == th["inotify"].cmd
  IN /\ At("inotify", "complete")
     /\ pend' = removeCmd(e, c)
     /\ cmd' = IF c \in pend[e] THEN [cmd EXCEPT ![c] = NoCommand] ELSE cmd
     /\ IF c \in pend[e] /\ loadOutfile(c)
          THEN th' = [th EXCEPT !["inotify"].pc = "revive",
                                !["inotify"].op = cmd[c].op,
                                !["inotify"].out = cmd[c].file,
                                !["inotify"].cmd = NoCmd]
          ELSE Done("inotify", "read")
     /\ UNCHANGED <<ep, wmap, lock, exit, kerVars, envVars, up>>

(* Any answer that could be read brings an endpoint that is down back.     *)
Revive ==
  /\ At("inotify", "revive")
  /\ IF ep[Cur("inotify")].state = "down"
       THEN th' = [th EXCEPT !["inotify"].pc = "changeState",
                             !["inotify"].tgt = "running",
                             !["inotify"].ret = "apply"]
       ELSE Goto("inotify", "apply")
  /\ UNCHANGED <<epVars, lock, exit, kerVars, envVars, up>>

(* The switch on c.op.  processEvent passes a nil output, which the        *)
(* CustomOp case dereferences.                                             *)
InfoOp == {"SystemInfoOp", "NCLIENTInfoOp", "NISDInfoOp"}

Apply ==
  LET e == Cur("inotify")
      o == th["inotify"].op
      a == th["inotify"].out
  IN /\ At("inotify", "apply")
     /\ \/ /\ o \in InfoOp /\ a = "good"
           /\ ep' = [ep EXCEPT ![e].seen = 0]
           /\ CallChangeState("inotify", "running", "read")
           /\ UNCHANGED exit
        \/ /\ o \in InfoOp /\ a # "good"
           /\ Done("inotify", "read") /\ UNCHANGED <<ep, exit>>
        \/ /\ o = "CustomOp" /\ Die("nilDeref") /\ UNCHANGED ep
        \/ /\ o = "IdentifyOp"
           /\ ep' = [ep EXCEPT ![e].app = DetermineApp(a, e)]
           /\ IF a = "good" THEN CallChangeState("inotify", "identified", "query")
                           ELSE Done("inotify", "read")
           /\ UNCHANGED exit
        \/ /\ o = "RaftInfoOp"
           /\ Done("inotify", "read") /\ UNCHANGED <<ep, exit>>
     /\ UNCHANGED <<pend, cmd, wmap, lock, kerVars, envVars, up>>

QueryApp ==
  LET e == Cur("inotify")
  IN /\ At("inotify", "query")
     /\ MayQueue("inotify", e, GetAppDetectInfo(ep[e].app, FALSE), "read")
     /\ UNCHANGED <<epVars, lock, exit, kerVars, envVars, up>>

(* flushStaleCmds ranges over pendingCmds without ep.Mutex: the runtime    *)
(* may throw when the inotify goroutine writes the same map meanwhile.     *)
ConcurrentMapWrite ==
  LET e == Cur("inotify")
  IN /\ At("monitor", "cleanNext") /\ e \in th["monitor"].todo
     /\ pend[e] # {}
     /\ \/ At("inotify", "complete") /\ th["inotify"].cmd \in pend[e]
        \/ At("inotify", "addCmd")
     /\ Die("mapRace")
     /\ UNCHANGED <<epVars, lock, kerVars, envVars, up>>

-----------------------------------------------------------------------------
(* The outside world: time, the monitored processes, the file system.      *)

(* The kernel drops an event when the queue is full.                       *)
Emit(ev) == evq' = IF Len(evq) < MaxEvents THEN Append(evq, ev) ELSE evq

InFlight(c) ==
  /\ cmd[c].live
  /\ \/ /\ cmd[c].file = "in" /\ Visible(cmd[c].ep)
        /\ kern[cmd[c].ep] # NoWd
     \/ \E i \in 1..Len(evq) : evq[i].cmd = c
     \/ th["inotify"].cmd = c

Tick ==
  /\ Alive
  /\ Prompt => \A c \in Cmd : InFlight(c) => cmd[c].age < Timeout
  /\ ep' = [e \in EP |-> IF e \in InMap
               THEN [ep[e] EXCEPT !.seen = Older(@, Timeout + 1)] ELSE ep[e]]
  /\ cmd' = [c \in Cmd |-> IF cmd[c].ep = NoEP THEN cmd[c]
               ELSE [cmd[c] EXCEPT !.age = Older(@, TTL + 1)]]
  /\ UNCHANGED <<pend, wmap, lock, th, exit, kerVars, envVars, up>>

(* An application answers by renaming a temporary file into output/.       *)
AppAnswer(c) ==
  LET e == cmd[c].ep
  IN /\ Alive /\ cmd[c].file = "in" /\ Visible(e)
     /\ \E a \in Answer :
          /\ IF a = "good" THEN UNCHANGED budget ELSE Spend("garble")
          /\ cmd' = [cmd EXCEPT ![c] = IF @.live THEN [@ EXCEPT !.file = a]
                                                 ELSE NoCommand]
     /\ IF kern[e] = NoWd THEN UNCHANGED evq
        ELSE Emit(MovedEvent(kern[e], c))
     /\ UNCHANGED <<ep, pend, wmap, lock, th, exit, kern, nextWd, proc, dir, up>>

(* It may answer again (the command file was touched, or written twice).   *)
AppAnswersAgain(c) ==
  LET e == cmd[c].ep
  IN /\ Alive /\ cmd[c].file \in Answer /\ Visible(e) /\ kern[e] # NoWd
     /\ Spend("resend")
     /\ Emit(MovedEvent(kern[e], c))
     /\ UNCHANGED <<epVars, lock, th, exit, kern, nextWd, proc, dir, up>>

ProcStart(e) ==
  /\ Alive
  /\ ~proc[e] /\ Spend("start")
  /\ proc' = [proc EXCEPT ![e] = TRUE]
  /\ UNCHANGED <<epVars, lock, th, exit, kerVars, dir, up>>

(* The process creates its directory, then the directories in it.          *)
MakeRoot(e) ==
  /\ Alive
  /\ proc[e] /\ dir[e] = "none"
  /\ dir' = [dir EXCEPT ![e] = "root"]
  /\ Emit(CreateEvent(e))
  /\ UNCHANGED <<epVars, lock, th, exit, kern, nextWd, proc, budget, up>>

MakeOutput(e) ==
  /\ Alive
  /\ proc[e] /\ dir[e] = "root"
  /\ dir' = [dir EXCEPT ![e] = "full"]
  /\ UNCHANGED <<epVars, lock, th, exit, kerVars, proc, budget, up>>

ProcStop(e) ==
  /\ Alive
  /\ proc[e] /\ Spend("stop")
  /\ proc' = [proc EXCEPT ![e] = FALSE]
  /\ up' = [up EXCEPT ![e] = 0]
  /\ UNCHANGED <<epVars, lock, th, exit, kerVars, dir>>

(* An IN_ATTRIB event on the endpoint's directory.                         *)
Touch(e) ==
  /\ Alive
  /\ dir[e] # "none" /\ Spend("touch")
  /\ Emit(CreateEvent(e))
  /\ UNCHANGED <<epVars, lock, th, exit, kern, nextWd, proc, dir, up>>

(* An endpoint's directory is removed, by hand or by a restart of its      *)
(* process too quick for lsof to notice; a process that runs makes it anew *)
(* (MakeRoot).  The kernel's watch on the old directory goes with it.      *)
RemoveDir(e) ==
  /\ Alive
  /\ dir[e] # "none" /\ Spend("rmdir")
  /\ dir' = [dir EXCEPT ![e] = "none"]
  /\ kern' = [kern EXCEPT ![e] = NoWd]
  /\ cmd' = [c \in Cmd |-> IF cmd[c].ep = e
                           THEN [cmd[c] EXCEPT !.file = "none"] ELSE cmd[c]]
  /\ up' = [up EXCEPT ![e] = 0]
  /\ UNCHANGED <<ep, pend, wmap, lock, th, exit, nextWd, evq, proc>>

-----------------------------------------------------------------------------
Init ==
  /\ ep = [e \in EP |-> NewEp]
  /\ pend = [e \in EP |-> {}]
  /\ cmd = [c \in Cmd |-> NoCommand]
  /\ wmap = [w \in Wd |-> NoEP]
  /\ lock = "none"
  /\ th = [t \in Thread |-> CASE t = "monitor" -> Idle("boot")
                              [] t = "lsof"    -> Idle("boot")
                              [] t = "inotify" -> Idle("read")]
  /\ exit = "no"
  /\ kern = [e \in EP |-> NoWd]
  /\ nextWd = 1
  /\ evq = <<>>
  /\ proc \in [EP -> BOOLEAN]
  /\ dir \in [EP -> {"none", "full"}]
  /\ \A e \in EP : proc[e] => dir[e] = "full"
  /\ budget = MaxEnv
  /\ up = [e \in EP |-> 0]

ChangeStateStep(t) ==
  ChangeState(t) \/ SetWatched(t) \/ SetState(t) \/ SetSeen(t)

SubmitStep(t) == Submit(t) \/ Retry(t)

Monitor ==
  \/ Start \/ CleanEPs \/ CleanNext \/ CleanDone \/ Decide
  \/ PollEPs \/ PollNext \/ PollAge \/ PollDone
  \/ ChangeStateStep("monitor") \/ EpWatchRemove("monitor")
  \/ SubmitStep("monitor")

Lsof ==
  \/ LookoutLsof \/ ScanNext \/ ScanMiss
  \/ AddEp("lsof") \/ AddEpTest("lsof") \/ Unlock("lsof")
  \/ ChangeStateStep("lsof") \/ EpWatchAdd("lsof") \/ EpWatchRemove("lsof")

Inotify ==
  \/ ProcessEvent
  \/ AddEp("inotify") \/ AddEpTest("inotify") \/ Unlock("inotify")
  \/ Complete \/ Revive \/ Apply \/ QueryApp
  \/ ChangeStateStep("inotify") \/ EpWatchAdd("inotify")
  \/ SubmitStep("inotify")

Environment ==
  \/ Tick
  \/ \E c \in Cmd : AppAnswer(c) \/ AppAnswersAgain(c)
  \/ \E e \in EP : \/ ProcStart(e) \/ ProcStop(e) \/ MakeRoot(e)
                   \/ MakeOutput(e) \/ Touch(e) \/ RemoveDir(e)

Halted == ~Alive /\ UNCHANGED vars

Next ==
  Monitor \/ Lsof \/ Inotify \/ ConcurrentMapWrite \/ Environment \/ Halted

Spec == Init /\ [][Next]_vars

(* The Go scheduler runs every goroutine again and again, sync.Mutex hands *)
(* epc.mutex to a waiter that has starved for 1 ms, sleeps end, and time   *)
(* goes on.  Nothing is assumed of the monitored processes.                *)
FairSpec ==
  /\ Spec
  /\ SF_vars(Monitor) /\ SF_vars(Lsof) /\ SF_vars(Inotify)
  /\ WF_vars(Tick)

(* In addition the monitored processes make progress: one that runs builds *)
(* its directory and answers the commands it finds there.                  *)
ResponsiveSpec ==
  /\ FairSpec
  /\ \A c \in Cmd : WF_vars(AppAnswer(c))
  /\ \A e \in EP : WF_vars(MakeRoot(e) \/ MakeOutput(e))

-----------------------------------------------------------------------------
(* Properties.                                                             *)

(* Every variable keeps its type; the kernel's queue keeps to its limit,   *)
(* and no endpoint's generation is ahead of lh.lsofGen (the FATAL of       *)
(* LsofGenUpdate, "ep_gen is >").                                          *)
TypeOK ==
  /\ ep \in [EP -> EpRec]
  /\ pend \in [EP -> SUBSET Cmd]
  /\ cmd \in [Cmd -> CmdRec]
  /\ wmap \in [Wd -> EP \cup {NoEP}]
  /\ lock \in Thread \cup {"none"}
  /\ th \in [Thread -> ThRec]
  /\ exit \in Exit
  /\ kern \in [EP -> Wd \cup {NoWd}]
  /\ nextWd \in 1..(MaxWd + 1)
  /\ evq \in Seq(Event) /\ Len(evq) <= MaxEvents
  /\ proc \in [EP -> BOOLEAN]
  /\ dir \in [EP -> {"none", "root", "full"}]
  /\ budget \in 0..MaxEnv
  /\ up \in [EP -> 0..2]

(* pendingCmds never holds more than two commands of an endpoint, far      *)
(* below maxPendingCmdsEP.  mayQueueCmd means to allow one, but the        *)
(* monitor (Poll) and the inotify goroutine (Complete, queryApp) may both  *)
(* see an empty map before either has run addCmd.                          *)
PendingBounded == \A e \in EP : Cardinality(pend[e]) <= 2

(* Complete acts on an answer at most once, and never on the answer to a   *)
(* command that CleanEPs has flushed meanwhile: removeCmd hands the        *)
(* command out only while it is pending.                                   *)
AnsweredOnce ==
  LET c == th["inotify"].cmd
  IN At("inotify", "complete") /\ c \in pend[Cur("inotify")] => cmd[c].live

(* While directories are not replaced, inotify.wmap and the endpoints' wid *)
(* fields agree, and name the watch that the kernel has, whatever          *)
(* ChangeState calls overlap: an answer is never looked up to the wrong    *)
(* endpoint.                                                               *)
WatchTable ==
  "rmdir" \notin Faults =>
    \A e \in EP, w \in Wd :
      /\ wmap[w] = e <=> ep[e].wid = w
      /\ wmap[w] = e => kern[e] = w

(* Under the same condition EpWatchRemove never meets its own fatal        *)
(* errors, "ep is not being watched" and "ep does not exist in map".       *)
WatchRemoveSafe ==
  "rmdir" \notin Faults => exit \notin {"notWatched", "wmapMismatch"}

(* CleanEPs moves no endpoint to "removing" whose process was there        *)
(* throughout two lsof scans: the test of LsofGenIsStale leaves a scan     *)
(* that is under way the time to refresh every endpoint it will find.      *)
(* (AddEp too may write "removing", a State it read before an answer came; *)
(* that change is its own.)                                                *)
NoFalseRemoval ==
  [][\A e \in EP :
       (/\ lock = "monitor"
        /\ ep[e].state # "removing" /\ ep'[e].state = "removing")
         => up[e] < 2]_vars

(* No endpoint is kept from being polled for ever: again and again its     *)
(* pendingCmds is empty, as mayQueueCmd asks, though answers may never     *)
(* come, come late, be dropped by the kernel, or find no command file.     *)
PollsResume == \A e \in EP : []<>(pend[e] = {} \/ ~Alive)

(* An endpoint whose process is gone for good ends up, and stays, in       *)
(* "removing", even if it was "running" and its last answer comes late.    *)
DeadEndpointRemoved ==
  \A e \in EP :
    <>[](Alive /\ ~proc[e]) => <>[](ep[e].state \in {"removing", "unknown"})

(* An endpoint whose process stays up and answers in time is "running"     *)
(* again and again, from whatever state it was in.                         *)
RespondingIsRunning ==
  \A e \in EP : <>[](Alive /\ Visible(e)) => []<>(ep[e].state = "running")

(* "ep's which are down but are still detected by lsof will be held in the *)
(* down position.  The[y] can be brought back to 'running' via Poll":      *)
(* no endpoint whose process stays up and answers is "down" for ever.      *)
DownComesBack ==
  \A e \in EP : ~<>[](Alive /\ Visible(e) /\ ep[e].state = "down")

(* The assertion of ensureWatchedState, "invalid state for being watched", *)
(* does not fail.                                                          *)
NeverWatchAssert == exit # "watchAssert"

(* The watch of an endpoint in "removing" has been taken down: what        *)
(* ensureWatchedState and EpWatchRemove say of watched is true of the      *)
(* kernel's watch too.                                                     *)
RemovingNotWatched ==
  \A e \in EP : (ep[e].state = "removing" /\ ~\E t \in Thread : Cur(t) = e)
                  => kern[e] = NoWd
=============================================================================
