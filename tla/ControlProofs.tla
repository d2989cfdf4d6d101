--------------------------- MODULE ControlProofs ----------------------------
(***************************************************************************)
(* Where each goroutine can be while it does, and while it does not, hold  *)
(* epc.mutex, and which endpoints it can be working on: the facts about    *)
(* control that the proofs of the other properties rest on.                *)
(***************************************************************************)
EXTENDS LookoutProofs

(* Inside ChangeState, up to the assignment of State and after it.         *)
ChangePC == {"changeState", "watchAdd", "watchRemove", "setWatched",
             "setState"}

InChange(r) == r.pc \in ChangePC \cup {"setSeen"}

(* Where the monitor and the lsof goroutine hold epc.mutex.  The monitor   *)
(* changes endpoints to down and removing only, so it never adds a watch   *)
(* and never stamps LastSeen.                                              *)
MonitorHolds == {"cleanNext", "decide", "pollNext", "pollAge", "addCmd",
                 "retry", "changeState", "watchRemove", "setWatched",
                 "setState"}

LsofHolds == {"found", "changeState", "watchAdd", "watchRemove",
              "setWatched", "setState", "setSeen", "unlock"}

InotifyPC == {"read", "addEp", "found", "complete", "revive", "apply",
              "query", "addCmd", "retry", "changeState", "watchAdd",
              "setWatched", "setState", "setSeen", "unlock"}

MonitorCtl(r, l) ==
  /\ r.pc \in {"boot", "sleep", "pollLock"} \cup MonitorHolds
  /\ l = "monitor" <=> r.pc \in MonitorHolds
  /\ r.pc \in {"addCmd", "retry"} => r.ret \in {"pollNext", "pollAge"}
  /\ InChange(r) => /\ r.ret \in {"cleanNext", "pollNext"}
                    /\ r.tgt \in {"down", "removing"}

(* The lsof goroutine may change an endpoint to any state: to init, or to  *)
(* the one that AddEp read before an answer came.                          *)
LsofCtl(r, l) ==
  /\ r.pc \in {"boot", "sleep", "addEp"} \cup LsofHolds
  /\ l = "lsof" <=> r.pc \in LsofHolds
  /\ InChange(r) => r.ret = "unlock"
  /\ r.pc = "found" \/ InChange(r) => r.tgt # "unknown"

(* Complete runs ChangeState without epc.mutex, AddEp with it.  The        *)
(* goroutine does one or the other, so its own AddEp reads the same State  *)
(* every time.                                                             *)
InotifyCtl(r, l) ==
  /\ r.pc \in InotifyPC
  /\ l = "inotify" <=> \/ r.pc \in {"found", "unlock"}
                       \/ InChange(r) /\ r.ret = "unlock"
  /\ r.pc \in {"addCmd", "retry"} => r.ret = "read"
  /\ InChange(r) => \/ r.ret = "unlock" /\ r.tgt = "init"
                    \/ r.ret \in {"apply", "read"} /\ r.tgt = "running"
                    \/ r.ret = "query" /\ r.tgt = "identified"

Ctl(t, r, l) ==
  /\ t = "monitor" => MonitorCtl(r, l)
  /\ t = "lsof" => LsofCtl(r, l)
  /\ t = "inotify" => InotifyCtl(r, l)

ThreadCtl == \A t \in Thread : Ctl(t, th[t], lock)

(* A goroutine works on endpoints that are in epMap, and epMap keeps them; *)
(* an endpoint gets its App from an answer, so not before it is there.     *)
Known ==
  /\ \A t \in Thread :
       th[t].pc \in EpPC \ {"addEp"} => th[t].ep \in InMap
  /\ th["monitor"].todo \subseteq InMap
  /\ \A w \in Wd : wmap[w] # NoEP => wmap[w] \in InMap
  /\ \A e \in EP : e \notin InMap => ep[e].app = "unrecognized"

(* The monitor decides to take an endpoint down when it is running; until  *)
(* State is written, only the inotify goroutine can change it, to running  *)
(* or identified.                                                          *)
DownFromWatched ==
  LET r == th["monitor"]
  IN r.pc \in ChangePC /\ r.tgt = "down" => ep[r.ep].state # "removing"

(* What AddEp read of State is still so, but for what Complete may have    *)
(* written meanwhile, which is never removing.                             *)
LookAgrees(t) ==
  LET r == th[t]
  IN r.pc = "found" =>
       \/ r.tgt = ep[r.ep].state
       \/ t = "lsof" /\ ep[r.ep].state # "removing"

LooksAgree == \A t \in Thread : LookAgrees(t)

ControlInv == ThreadCtl /\ Known /\ DownFromWatched /\ LooksAgree

-----------------------------------------------------------------------------
(* epc.mutex is taken only when it is free and released only by its holder.*)
LockStep(t) ==
  UNCHANGED lock \/ (lock \in {"none", t} /\ lock' \in {"none", t})

(* State is written under epc.mutex, or by Complete.                       *)
StateStep(t) ==
  \A e \in EP : \/ ep'[e].state = ep[e].state
                \/ lock \in {"none", t}
                \/ t = "inotify" /\ ep'[e].state # "removing"

(* What has to be shown of a step of goroutine t.                          *)
LEMMA ControlBy ==
  ASSUME TypeInv, ControlInv, NEW t \in Thread, Others(t), LockStep(t),
         Ctl(t, th'[t], lock'),
         InMap \subseteq InMap',
         th'[t].pc \in EpPC \ {"addEp"} => th'[t].ep \in InMap',
         t = "monitor" => th'[t].todo \subseteq InMap' /\ DownFromWatched',
         t # "monitor" => th'[t].pc # "found" \/ LookAgrees(t)',
         \A w \in Wd : wmap'[w] \in {wmap[w], NoEP} \cup InMap',
         \A e \in EP : e \notin InMap' => ep'[e].app = ep[e].app,
         StateStep(t)
  PROVE  ControlInv'
  <1>0. {"monitor", "inotify"} \subseteq Thread
    BY DEF Thread
  <1>1. ThreadCtl'
    <2> SUFFICES ASSUME NEW u \in Thread, u # t PROVE Ctl(u, th'[u], lock')
      BY DEF ThreadCtl
    <2>1. th'[u] = th[u] /\ Ctl(u, th[u], lock)
      BY DEF Others, ControlInv, ThreadCtl
    <2>2. lock' = u <=> lock = u
      BY DEF LockStep, Thread
    <2> QED
      BY <2>1, <2>2 DEF Ctl, MonitorCtl, LsofCtl, InotifyCtl
  <1>2. Known'
    <2>1. ASSUME NEW u \in Thread, th'[u].pc \in EpPC \ {"addEp"}
          PROVE  th'[u].ep \in InMap'
      BY <2>1 DEF Others, ControlInv, Known
    <2>2. th'["monitor"].todo \subseteq InMap'
      BY <1>0 DEF Others, ControlInv, Known
    <2>3. ASSUME NEW w \in Wd, wmap'[w] # NoEP PROVE wmap'[w] \in InMap'
      BY <2>3 DEF ControlInv, Known
    <2>4. ASSUME NEW e \in EP, e \notin InMap'
          PROVE  ep'[e].app = "unrecognized"
      BY <2>4 DEF ControlInv, Known
    <2> QED
      BY <2>1, <2>2, <2>3, <2>4 DEF Known
  <1>3. DownFromWatched'
    <2>1. CASE t # "monitor"
      <3>1. th'["monitor"] = th["monitor"]
        BY <1>0, <2>1 DEF Others
      <3>2. th["monitor"].pc \in ChangePC =>
              th["monitor"].ep \in EP /\ lock = "monitor"
        BY <1>0 DEF TypeInv, ThreadOK, LocalsOK, EpPC, ChangePC, ControlInv,
                    ThreadCtl, Ctl, MonitorCtl, MonitorHolds
      <3> QED
        BY <2>1, <3>1, <3>2 DEF ControlInv, DownFromWatched, StateStep
    <2> QED
      BY <2>1
  <1>4. LooksAgree'
    <2> SUFFICES ASSUME NEW u \in Thread, th'[u].pc = "found"
                 PROVE  LookAgrees(u)'
      BY DEF LooksAgree, LookAgrees
    <2>1. CASE u # t
      <3>1. th'[u] = th[u]
        BY <2>1 DEF Others
      <3>2. th[u].ep \in EP /\ lock = u /\ u # "none" /\ u # "monitor"
        BY <3>1 DEF TypeInv, ThreadOK, LocalsOK, EpPC, ControlInv, ThreadCtl,
                    Ctl, MonitorCtl, MonitorHolds, LsofCtl, LsofHolds,
                    InotifyCtl, Thread
      <3>3. \/ ep'[th[u].ep].state = ep[th[u].ep].state
            \/ t = "inotify" /\ ep'[th[u].ep].state # "removing"
        BY <2>1, <3>2 DEF StateStep
      <3>4. LookAgrees(u) /\ u \in {"lsof", "inotify"}
        BY <3>2 DEF ControlInv, LooksAgree, Thread
      <3> QED
        BY <2>1, <3>1, <3>3, <3>4 DEF LookAgrees
    <2>2. CASE u = t
      <3>1. t # "monitor"
        BY <2>2 DEF Ctl, MonitorCtl, MonitorHolds
      <3> QED
        BY <2>2, <3>1
    <2> QED
      BY <2>1, <2>2
  <1> QED
    BY <1>1, <1>2, <1>3, <1>4 DEF ControlInv

(* A step of goroutine t that leaves the container alone.                  *)
LEMMA ControlFrame ==
  ASSUME TypeInv, ControlInv, NEW t \in Thread, Others(t), LockStep(t),
         Ctl(t, th'[t], lock'), UNCHANGED <<ep, wmap>>,
         th'[t].pc \in EpPC \ {"addEp"} => th'[t].ep \in InMap,
         t = "monitor" => th'[t].todo \subseteq InMap /\ DownFromWatched',
         t # "monitor" => th'[t].pc # "found"
  PROVE  ControlInv'
  <1>1. InMap' = InMap
    BY DEF InMap
  <1> QED
    BY <1>1, ControlBy DEF StateStep

(* A Fatal, a panic or a throw, and whatever else moves no goroutine and   *)
(* leaves State, App and wmap alone.                                       *)
LEMMA ControlStill ==
  ASSUME TypeInv, ControlInv, UNCHANGED <<th, lock, wmap>>,
         \A e \in EP : ep'[e].state = ep[e].state /\ ep'[e].app = ep[e].app
  PROVE  ControlInv'
  <1>1. InMap' = InMap
    BY DEF InMap
  <1>2. "monitor" \in Thread
    BY DEF Thread
  <1>3. /\ th["monitor"].pc \in ChangePC => th["monitor"].ep \in EP
        /\ \A t \in Thread : th[t].pc = "found" => th[t].ep \in EP
    BY <1>2 DEF TypeInv, ThreadOK, LocalsOK, EpPC, ChangePC
  <1> QED
    BY <1>1, <1>3 DEF ControlInv, ThreadCtl, Known, DownFromWatched,
                      LooksAgree, LookAgrees

-----------------------------------------------------------------------------
(* ChangeState.                                                            *)

(* A goroutine inside ChangeState works on an endpoint that is in epMap.   *)
LEMMA InChangeFacts ==
  ASSUME TypeInv, ControlInv, NEW t \in Thread, InChange(th[t])
  PROVE  /\ th \in [Thread -> ThRec] /\ th[t].pc \in EpPC \ {"addEp"}
         /\ th[t].ep \in InMap /\ th[t].ep \in EP
         /\ t = "monitor" => th["monitor"].todo \subseteq InMap
         /\ Ctl(t, th[t], lock)
  BY DEF InChange, ChangePC, EpPC, TypeInv, TypeOK, ControlInv, Known, InMap,
         ThreadCtl

(* ChangeState returns to a place where its caller still holds, or still   *)
(* does without, epc.mutex.                                                *)
LEMMA ReturnControl ==
  ASSUME TypeInv, ControlInv, NEW t \in Thread, InChange(th[t]), Return(t),
         UNCHANGED lock
  PROVE  /\ Others(t) /\ LockStep(t) /\ Ctl(t, th'[t], lock')
         /\ th'[t].pc \in EpPC => th'[t].ep = th[t].ep
         /\ th'[t].todo = th[t].todo
         /\ th'[t].pc \notin ChangePC \cup {"found"}
  <1>1. /\ th \in [Thread -> ThRec] /\ Ctl(t, th[t], lock)
        /\ th[t].ret \in RetPC
    BY InChangeFacts DEF ThRec
  <1>2. /\ Others(t) /\ th'[t].pc = th[t].ret /\ th'[t].todo = th[t].todo
        /\ th[t].ret \notin LoopHead => th'[t].ep = th[t].ep
    BY <1>1, ReturnThread
  <1>3. th'[t].pc \notin ChangePC \cup {"found"}
    BY <1>1, <1>2 DEF RetPC, ChangePC
  <1>4. Ctl(t, th'[t], lock')
    <2>1. CASE t = "monitor"
      <3>1. MonitorCtl(th[t], lock)
        BY <1>1, <2>1 DEF Ctl
      <3> QED
        BY <1>2, <2>1, <3>1
        DEF Ctl, MonitorCtl, MonitorHolds, InChange, ChangePC
    <2>2. CASE t = "lsof"
      <3>1. LsofCtl(th[t], lock)
        BY <1>1, <2>2 DEF Ctl
      <3> QED
        BY <1>2, <2>2, <3>1 DEF Ctl, LsofCtl, LsofHolds, InChange, ChangePC
    <2>3. CASE t = "inotify"
      <3>1. InotifyCtl(th[t], lock)
        BY <1>1, <2>3 DEF Ctl
      <3> QED
        BY <1>2, <2>3, <3>1 DEF Ctl, InotifyCtl, InotifyPC, InChange, ChangePC
    <2> QED
      BY <2>1, <2>2, <2>3 DEF Thread
  <1> QED
    BY <1>2, <1>3, <1>4 DEF EpPC, LoopHead, LockStep

(* Going on inside ChangeState.                                            *)
LEMMA GotoControl ==
  ASSUME TypeInv, ControlInv, NEW t \in Thread, InChange(th[t]),
         NEW p \in ChangePC \cup {"setSeen"}, Goto(t, p),
         t = "monitor" => p \notin {"watchAdd", "setSeen"},
         t = "inotify" => p # "watchRemove", UNCHANGED lock
  PROVE  /\ Others(t) /\ LockStep(t) /\ Ctl(t, th'[t], lock')
         /\ th'[t].pc = p /\ th'[t].ep = th[t].ep
         /\ th'[t].todo = th[t].todo /\ th'[t].tgt = th[t].tgt
  <1>1. th \in [Thread -> ThRec] /\ Ctl(t, th[t], lock) /\ p \in PC
    BY InChangeFacts DEF ChangePC, PC
  <1>2. /\ Others(t) /\ th'[t].pc = p /\ th'[t].ret = th[t].ret
        /\ th'[t].ep = th[t].ep /\ th'[t].tgt = th[t].tgt
        /\ th'[t].todo = th[t].todo
    BY <1>1, GotoThread
  <1>3. Ctl(t, th'[t], lock')
    <2>1. CASE t = "monitor"
      <3>1. MonitorCtl(th[t], lock)
        BY <1>1, <2>1 DEF Ctl
      <3> QED
        BY <1>2, <2>1, <3>1
        DEF Ctl, MonitorCtl, MonitorHolds, InChange, ChangePC
    <2>2. CASE t = "lsof"
      <3>1. LsofCtl(th[t], lock)
        BY <1>1, <2>2 DEF Ctl
      <3> QED
        BY <1>2, <2>2, <3>1 DEF Ctl, LsofCtl, LsofHolds, InChange, ChangePC
    <2>3. CASE t = "inotify"
      <3>1. InotifyCtl(th[t], lock)
        BY <1>1, <2>3 DEF Ctl
      <3> QED
        BY <1>2, <2>3, <3>1 DEF Ctl, InotifyCtl, InotifyPC, InChange, ChangePC
    <2> QED
      BY <2>1, <2>2, <2>3 DEF Thread
  <1> QED
    BY <1>2, <1>3 DEF LockStep

(* Which way ChangeState may take.  The monitor takes endpoints down that  *)
(* are watched already, so it never adds a watch; the inotify goroutine    *)
(* changes to watched states only, so it never removes one.  These are the *)
(* actions that Next leaves out.                                           *)
LEMMA WatchWays ==
  ASSUME TypeInv, ControlInv, NEW t \in Thread, th[t].pc = "changeState",
         th[t].tgt # ep[th[t].ep].state, ensureWatchedState(ep[th[t].ep])
  PROVE  LET r   == ep[th[t].ep]
             iws == isWatchedState(th[t].tgt)
         IN  /\ t = "monitor" => ~(iws /\ ~r.watched)
             /\ t = "inotify" => ~(~iws /\ r.watched)
  <1>1. /\ th[t].ep \in EP /\ ep[th[t].ep].state # "unknown"
        /\ Ctl(t, th[t], lock) /\ InChange(th[t])
    BY InChangeFacts DEF InChange, ChangePC, InMap
  <1>2. CASE t = "monitor"
    <2>1. th[t].tgt \in {"down", "removing"}
      BY <1>1, <1>2 DEF Ctl, MonitorCtl
    <2>2. th[t].tgt = "down" => ep[th[t].ep].state # "removing"
      BY <1>2 DEF ControlInv, DownFromWatched, ChangePC
    <2>3. th[t].tgt = "down" => ep[th[t].ep].watched = TRUE
      BY <1>1, <2>2 DEF ensureWatchedState, isWatchedState
    <2> QED
      BY <1>2, <2>1, <2>3 DEF isWatchedState
  <1>3. CASE t = "inotify"
    <2>1. th[t].tgt \in {"init", "running", "identified"}
      BY <1>1, <1>3 DEF Ctl, InotifyCtl
    <2> QED
      BY <1>3, <2>1 DEF isWatchedState
  <1> QED
    BY <1>2, <1>3

(* The checks of ChangeState, watchCtl and ensureWatchedState.             *)
LEMMA ControlChangeState ==
  ASSUME TypeInv, ControlInv, NEW t \in Thread, ChangeState(t)
  PROVE  ControlInv'
  <1>1. /\ th[t].pc = "changeState" /\ InChange(th[t])
        /\ UNCHANGED <<ep, wmap, lock>>
    BY DEF ChangeState, At, InChange, ChangePC, epVars
  <1>2. /\ th \in [Thread -> ThRec] /\ th[t].pc \in EpPC \ {"addEp"}
        /\ th[t].ep \in InMap
        /\ t = "monitor" => th["monitor"].todo \subseteq InMap
    BY <1>1, InChangeFacts
  <1>3. CASE Return(t)
    <2>1. /\ Others(t) /\ LockStep(t) /\ Ctl(t, th'[t], lock')
          /\ th'[t].pc \in EpPC => th'[t].ep = th[t].ep
          /\ th'[t].todo = th[t].todo
          /\ th'[t].pc \notin ChangePC \cup {"found"}
      BY <1>1, <1>3, ReturnControl
    <2>2. t = "monitor" => DownFromWatched'
      BY <2>1 DEF DownFromWatched
    <2> QED
      BY <1>1, <1>2, <2>1, <2>2, ControlFrame
  <1>4. ASSUME NEW p \in {"setState", "watchAdd", "watchRemove"}, Goto(t, p),
               t = "monitor" => p # "watchAdd",
               t = "inotify" => p # "watchRemove"
        PROVE  ControlInv'
    <2>1. /\ Others(t) /\ LockStep(t) /\ Ctl(t, th'[t], lock')
          /\ th'[t].pc = p /\ th'[t].ep = th[t].ep
          /\ th'[t].todo = th[t].todo /\ th'[t].tgt = th[t].tgt
      BY <1>1, <1>4, GotoControl DEF ChangePC
    <2>2. t = "monitor" => DownFromWatched'
      BY <1>1, <2>1 DEF ControlInv, DownFromWatched, ChangePC
    <2> QED
      BY <1>1, <1>2, <2>1, <2>2, ControlFrame
  <1>5. CASE UNCHANGED th
    BY <1>1, <1>5, ControlStill
  <1>6. \/ Return(t) \/ UNCHANGED th
        \/ Goto(t, "setState")
        \/ t # "monitor" /\ Goto(t, "watchAdd")
        \/ t # "inotify" /\ Goto(t, "watchRemove")
    <2>1. CASE th[t].tgt # ep[th[t].ep].state /\ ensureWatchedState(ep[th[t].ep])
      BY <1>1, <2>1, WatchWays DEF ChangeState, Die, Cur
    <2>2. CASE ~(th[t].tgt # ep[th[t].ep].state /\ ensureWatchedState(ep[th[t].ep]))
      BY <2>2 DEF ChangeState, Die, Cur
    <2> QED
      BY <2>1, <2>2
  <1> QED
    BY <1>3, <1>4, <1>5, <1>6

-----------------------------------------------------------------------------
(* The assignments to an endpoint.                                         *)

(* The updates that are none of State or App.                              *)
LEMMA StateAppKept ==
  ASSUME ep \in [EP -> EpRec], NEW e \in EP, NEW x,
         \/ ep' = [ep EXCEPT ![e].wid = x]
         \/ ep' = [ep EXCEPT ![e].watched = x]
         \/ ep' = [ep EXCEPT ![e].seen = x]
         \/ ep' = [ep EXCEPT ![e].lag = x]
  PROVE  \A f \in EP : ep'[f].state = ep[f].state /\ ep'[f].app = ep[f].app
  <1>1. ASSUME NEW r, ep' = [ep EXCEPT ![e] = r],
               r.state = ep[e].state, r.app = ep[e].app
        PROVE  \A f \in EP : ep'[f].state = ep[f].state /\ ep'[f].app = ep[f].app
    BY <1>1
  <1>2. ep[e] \in EpRec
    OBVIOUS
  <1>3. /\ [ep[e] EXCEPT !.wid = x].state = ep[e].state
        /\ [ep[e] EXCEPT !.watched = x].state = ep[e].state
        /\ [ep[e] EXCEPT !.seen = x].state = ep[e].state
        /\ [ep[e] EXCEPT !.lag = x].state = ep[e].state
        /\ [ep[e] EXCEPT !.wid = x].app = ep[e].app
        /\ [ep[e] EXCEPT !.watched = x].app = ep[e].app
        /\ [ep[e] EXCEPT !.seen = x].app = ep[e].app
        /\ [ep[e] EXCEPT !.lag = x].app = ep[e].app
    BY <1>2 DEF EpRec
  <1> QED
    BY <1>1, <1>3

(* Time and lsof generations pass without touching State or App.           *)
LEMMA StateAppAges ==
  ASSUME TypeInv, Tick \/ LookoutLsof
  PROVE  \A f \in EP : ep'[f].state = ep[f].state /\ ep'[f].app = ep[f].app
  <1> SUFFICES ASSUME NEW f \in EP
               PROVE  ep'[f].state = ep[f].state /\ ep'[f].app = ep[f].app
    OBVIOUS
  <1>1. ep[f] \in EpRec
    BY DEF TypeInv, TypeOK
  <1>2. \/ ep'[f] = ep[f]
        \/ ep'[f] = [ep[f] EXCEPT !.seen = Older(@, Timeout + 1)]
        \/ ep'[f] = [ep[f] EXCEPT !.lag = Older(@, 2)]
    BY DEF Tick, LookoutLsof
  <1>3. /\ [ep[f] EXCEPT !.seen = Older(@, Timeout + 1)].state = ep[f].state
        /\ [ep[f] EXCEPT !.lag = Older(@, 2)].state = ep[f].state
        /\ [ep[f] EXCEPT !.seen = Older(@, Timeout + 1)].app = ep[f].app
        /\ [ep[f] EXCEPT !.lag = Older(@, 2)].app = ep[f].app
    BY <1>1 DEF EpRec
  <1> QED
    BY <1>2, <1>3

(* EpWatchAdd and EpWatchRemove leave State and App alone, and put nothing *)
(* but the endpoint at hand into wmap.                                     *)
LEMMA ControlWatch ==
  ASSUME TypeInv, ControlInv, NEW t \in Thread,
         \/ t # "monitor" /\ EpWatchAdd(t)
         \/ t # "inotify" /\ EpWatchRemove(t)
  PROVE  ControlInv'
  <1>1. /\ th[t].pc \in {"watchAdd", "watchRemove"} /\ InChange(th[t])
        /\ UNCHANGED lock
    BY DEF EpWatchAdd, EpWatchRemove, At, InChange, ChangePC
  <1>2. /\ th \in [Thread -> ThRec] /\ th[t].pc \in EpPC \ {"addEp"}
        /\ th[t].ep \in InMap /\ th[t].ep \in EP
        /\ t = "monitor" => th["monitor"].todo \subseteq InMap
        /\ wmap \in [Wd -> EP \cup {NoEP}] /\ ep \in [EP -> EpRec]
    BY <1>1, InChangeFacts DEF TypeInv, TypeOK
  <1>3. \A f \in EP : ep'[f].state = ep[f].state /\ ep'[f].app = ep[f].app
    <2>1. UNCHANGED ep \/ \E x : ep' = [ep EXCEPT ![th[t].ep].wid = x]
      BY DEF EpWatchAdd, EpWatchRemove, Cur
    <2> QED
      BY <1>2, <2>1, StateAppKept
  <1>4. InMap' = InMap
    BY <1>3 DEF InMap
  <1>5. CASE UNCHANGED <<th, wmap>>
    BY <1>1, <1>3, <1>5, ControlStill
  <1>6. CASE Goto(t, "setWatched")
    <2>1. /\ Others(t) /\ LockStep(t) /\ Ctl(t, th'[t], lock')
          /\ th'[t].pc = "setWatched" /\ th'[t].ep = th[t].ep
          /\ th'[t].todo = th[t].todo /\ th'[t].tgt = th[t].tgt
      BY <1>1, <1>6, GotoControl DEF ChangePC
    <2>2. t = "monitor" => DownFromWatched'
      BY <1>1, <1>2, <1>3, <2>1 DEF ControlInv, DownFromWatched, ChangePC
    <2>3. \A w \in Wd : wmap'[w] \in {wmap[w], NoEP} \cup InMap'
      BY <1>2, <1>4 DEF EpWatchAdd, EpWatchRemove, Cur
    <2> QED
      BY <1>2, <1>3, <1>4, <2>1, <2>2, <2>3, ControlBy DEF StateStep
  <1>7. UNCHANGED <<th, wmap>> \/ Goto(t, "setWatched")
    BY DEF EpWatchAdd, EpWatchRemove, Die
  <1> QED
    BY <1>5, <1>6, <1>7

(* The assignments of ChangeState: State is only ever set to a state of    *)
(* endpoints in epMap, and by Complete never to removing.                  *)
LEMMA ControlSetters ==
  ASSUME TypeInv, ControlInv, NEW t \in Thread,
         SetWatched(t) \/ SetState(t) \/ SetSeen(t)
  PROVE  ControlInv'
  <1>1. InChange(th[t]) /\ UNCHANGED <<lock, wmap>>
    BY DEF SetWatched, SetState, SetSeen, At, InChange, ChangePC
  <1>2. /\ th \in [Thread -> ThRec] /\ th[t].pc \in EpPC \ {"addEp"}
        /\ th[t].ep \in InMap /\ th[t].ep \in EP
        /\ t = "monitor" => th["monitor"].todo \subseteq InMap
        /\ ep \in [EP -> EpRec] /\ ep[th[t].ep] \in EpRec
        /\ Ctl(t, th[t], lock)
    BY <1>1, InChangeFacts DEF TypeInv, TypeOK
  <1>3. /\ th[t].tgt # "unknown"
        /\ lock = t \/ (t = "inotify" /\ th[t].tgt # "removing")
    BY <1>1, <1>2 DEF Ctl, MonitorCtl, MonitorHolds, LsofCtl, LsofHolds,
                      InotifyCtl, InChange, ChangePC, Thread
  <1>4. \A f \in EP : /\ ep'[f].app = ep[f].app
                      /\ \/ ep'[f].state = ep[f].state
                         \/ f = th[t].ep /\ ep'[f].state = th[t].tgt
    <2>1. CASE SetState(t)
      <3>1. ep' = [ep EXCEPT ![th[t].ep] = [ep[th[t].ep] EXCEPT !.state = th[t].tgt]]
        BY <2>1 DEF SetState, Cur
      <3>2. /\ [ep[th[t].ep] EXCEPT !.state = th[t].tgt].app = ep[th[t].ep].app
            /\ [ep[th[t].ep] EXCEPT !.state = th[t].tgt].state = th[t].tgt
        BY <1>2 DEF EpRec
      <3> QED
        BY <1>2, <3>1, <3>2
    <2>2. CASE SetWatched(t) \/ SetSeen(t)
      <3>1. \E x : \/ ep' = [ep EXCEPT ![th[t].ep].watched = x]
                   \/ ep' = [ep EXCEPT ![th[t].ep].seen = x]
        BY <2>2 DEF SetWatched, SetSeen, Cur
      <3> QED
        BY <1>2, <3>1, StateAppKept
    <2> QED
      BY <2>1, <2>2
  <1>5. InMap \subseteq InMap' /\ StateStep(t)
    BY <1>3, <1>4 DEF InMap, StateStep
  <1>6. \/ Return(t) /\ ~SetWatched(t)
        \/ SetWatched(t) /\ Goto(t, "setState")
        \/ SetState(t) /\ Goto(t, "setSeen") /\ stampsLastSeen(th[t].tgt)
    BY DEF SetWatched, SetState, SetSeen, At
  <1>7. CASE Return(t)
    <2>1. /\ Others(t) /\ LockStep(t) /\ Ctl(t, th'[t], lock')
          /\ th'[t].pc \in EpPC => th'[t].ep = th[t].ep
          /\ th'[t].todo = th[t].todo
          /\ th'[t].pc \notin ChangePC \cup {"found"}
      BY <1>1, <1>7, ReturnControl
    <2>2. t = "monitor" => DownFromWatched'
      BY <2>1 DEF DownFromWatched
    <2> QED
      BY <1>1, <1>2, <1>3, <1>4, <1>5, <2>1, <2>2, ControlBy
  <1>8. CASE SetWatched(t) /\ Goto(t, "setState")
    <2>1. /\ Others(t) /\ LockStep(t) /\ Ctl(t, th'[t], lock')
          /\ th'[t].pc = "setState" /\ th'[t].ep = th[t].ep
          /\ th'[t].todo = th[t].todo /\ th'[t].tgt = th[t].tgt
      BY <1>1, <1>8, GotoControl DEF ChangePC
    <2>2. ep'[th[t].ep].state = ep[th[t].ep].state
      <3>1. ep' = [ep EXCEPT ![th[t].ep].watched = isWatchedState(th[t].tgt)]
        BY <1>8 DEF SetWatched, Cur
      <3> QED
        BY <1>2, <3>1, StateAppKept
    <2>3. t = "monitor" => DownFromWatched'
      BY <1>8, <2>1, <2>2
      DEF ControlInv, DownFromWatched, ChangePC, SetWatched, At
    <2> QED
      BY <1>1, <1>2, <1>3, <1>4, <1>5, <2>1, <2>3, ControlBy
  <1>9. CASE SetState(t) /\ Goto(t, "setSeen") /\ stampsLastSeen(th[t].tgt)
    <2>0. t # "monitor"
      BY <1>1, <1>2, <1>9 DEF Ctl, MonitorCtl, stampsLastSeen
    <2>1. /\ Others(t) /\ LockStep(t) /\ Ctl(t, th'[t], lock')
          /\ th'[t].pc = "setSeen" /\ th'[t].ep = th[t].ep
          /\ th'[t].todo = th[t].todo /\ th'[t].tgt = th[t].tgt
      BY <1>1, <1>9, <2>0, GotoControl
    <2> QED
      BY <1>1, <1>2, <1>3, <1>4, <1>5, <2>0, <2>1, ControlBy
  <1> QED
    BY <1>6, <1>7, <1>8, <1>9

-----------------------------------------------------------------------------
(* submit.                                                                 *)

(* queryApp's second attempt, the query that follows an identify, and the  *)
(* queries of Poll.                                                        *)
LEMMA ControlMayQueue ==
  ASSUME TypeInv, ControlInv, NEW t \in Thread, NEW e \in InMap,
         NEW o \in EPcmdType \cup {"none"},
         NEW r \in {"pollNext", "pollAge", "read"}, MayQueue(t, e, o, r),
         \/ t = "monitor" /\ r # "read" /\ th[t].pc \in MonitorHolds
         \/ t = "inotify" /\ r = "read" /\ th[t].pc \in {"query", "retry"},
         UNCHANGED <<epVars, lock>>
  PROVE  ControlInv'
  <1>1. /\ th \in [Thread -> ThRec] /\ Ctl(t, th[t], lock) /\ e \in EP
        /\ th["monitor"].todo \subseteq InMap
    BY DEF TypeInv, TypeOK, ControlInv, ThreadCtl, Known, InMap
  <1>2. /\ Others(t)
        /\ th'[t].pc = "addCmd" => th'[t].ep = e
        /\ \/ th'[t].pc = "addCmd" /\ th'[t].ret = r
           \/ th'[t].pc = r /\ (r = "pollAge" => th'[t].ep = e)
        /\ th'[t].todo = th[t].todo \ {e}
    BY <1>1, MayQueueThread
  <1>3. Ctl(t, th'[t], lock') /\ th'[t].pc \notin ChangePC
    <2>1. th'[t].pc \notin ChangePC /\ ~InChange(th'[t])
      BY <1>2 DEF ChangePC, InChange
    <2>2. CASE t = "monitor"
      <3>1. lock' = "monitor" /\ th'[t].pc \in {"addCmd", "pollNext", "pollAge"}
        BY <1>1, <1>2, <2>2 DEF Ctl, MonitorCtl
      <3> QED
        BY <1>2, <2>1, <2>2, <3>1 DEF Ctl, MonitorCtl, MonitorHolds
    <2>3. CASE t = "inotify"
      <3>1. lock' # "inotify" /\ th'[t].pc \in {"addCmd", "read"}
        BY <1>1, <1>2, <2>3 DEF Ctl, InotifyCtl, InChange, ChangePC
      <3> QED
        BY <1>2, <2>1, <2>3, <3>1 DEF Ctl, InotifyCtl, InotifyPC
    <2> QED
      BY <2>1, <2>2, <2>3
  <1>4. th'[t].pc \in EpPC => th'[t].ep \in InMap
    BY <1>2 DEF EpPC
  <1>5. t = "monitor" => th'[t].todo \subseteq InMap /\ DownFromWatched'
    BY <1>1, <1>2, <1>3 DEF DownFromWatched
  <1> QED
    BY <1>2, <1>3, <1>4, <1>5, ControlFrame DEF epVars, LockStep

(* submit leaves its goroutine where it may try again, or returns.         *)
LEMMA ControlSubmit ==
  ASSUME TypeInv, ControlInv, NEW t \in Thread, Submit(t)
  PROVE  ControlInv'
  <1>1. th[t].pc = "addCmd" /\ UNCHANGED <<ep, wmap, lock>>
    BY DEF Submit, At
  <1>2. /\ th \in [Thread -> ThRec] /\ Ctl(t, th[t], lock)
        /\ th[t].ep \in InMap /\ th["monitor"].todo \subseteq InMap
    BY <1>1 DEF TypeInv, TypeOK, ControlInv, ThreadCtl, Known, EpPC
  <1>3. CASE Return(t)
    <2>1. /\ Others(t) /\ th'[t].pc = th[t].ret /\ th'[t].todo = th[t].todo
          /\ th[t].ret \notin LoopHead => th'[t].ep = th[t].ep
      BY <1>2, <1>3, ReturnThread
    <2>2. Ctl(t, th'[t], lock') /\ th'[t].pc \in {"pollNext", "pollAge", "read"}
      BY <1>1, <1>2, <2>1
      DEF Ctl, MonitorCtl, MonitorHolds, LsofCtl, LsofHolds, InotifyCtl,
          InotifyPC, InChange, ChangePC, Thread
    <2>3. th'[t].pc \in EpPC => th'[t].ep \in InMap
      BY <1>2, <2>1, <2>2 DEF EpPC, LoopHead
    <2>4. t = "monitor" => th'[t].todo \subseteq InMap /\ DownFromWatched'
      BY <1>2, <2>1, <2>2 DEF DownFromWatched, ChangePC
    <2> QED
      BY <1>1, <2>1, <2>2, <2>3, <2>4, ControlFrame DEF LockStep
  <1>4. CASE th' = [th EXCEPT ![t].pc = "retry",
                              ![t].op = GetAppDetectInfo(ep[Cur(t)].app, TRUE)]
    <2> DEFINE x == [th[t] EXCEPT !.pc = "retry",
                       !.op = GetAppDetectInfo(ep[Cur(t)].app, TRUE)]
    <2>1. /\ x.pc = "retry" /\ x.ret = th[t].ret /\ x.ep = th[t].ep
          /\ x.todo = th[t].todo
      BY <1>2 DEF ThRec
    <2>2. th' = [th EXCEPT ![t] = x]
      BY <1>4
    <2> HIDE DEF x
    <2>3. th'[t] = x /\ Others(t)
      BY <1>2, <2>2 DEF Others
    <2>4. Ctl(t, th'[t], lock')
      BY <1>1, <1>2, <2>1, <2>3
      DEF Ctl, MonitorCtl, MonitorHolds, LsofCtl, LsofHolds, InotifyCtl,
          InotifyPC, InChange, ChangePC, Thread
    <2>5. t = "monitor" => th'[t].todo \subseteq InMap /\ DownFromWatched'
      BY <1>2, <2>1, <2>3 DEF DownFromWatched, ChangePC
    <2> QED
      BY <1>1, <1>2, <2>1, <2>3, <2>4, <2>5, ControlFrame DEF LockStep
  <1> QED
    BY <1>3, <1>4 DEF Submit

(* The callers of submit.                                                  *)
LEMMA ControlQuery ==
  ASSUME TypeInv, ControlInv, NEW t \in Thread,
         Retry(t) \/ (t = "inotify" /\ QueryApp)
  PROVE  ControlInv'
  <1>1. /\ th[t].pc \in {"retry", "query"} /\ UNCHANGED <<epVars, lock>>
        /\ Retry(t) => th[t].pc = "retry"
        /\ ~Retry(t) => th[t].pc = "query"
    BY DEF Retry, QueryApp, At
  <1>2. /\ th[t] \in ThRec /\ Ctl(t, th[t], lock) /\ Cur(t) \in InMap
        /\ ep[Cur(t)].app \in App
    BY <1>1 DEF TypeInv, TypeOK, ControlInv, ThreadCtl, Known, EpPC, Cur, InMap,
                EpRec
  <1>3. CASE Retry(t)
    <2>1. /\ th[t].pc = "retry" /\ MayQueue(t, Cur(t), th[t].op, th[t].ret)
          /\ th[t].op \in EPcmdType \cup {"none"}
      BY <1>2, <1>3 DEF Retry, At, ThRec
    <2>2. \/ t = "monitor" /\ th[t].ret \in {"pollNext", "pollAge"}
             /\ th[t].pc \in MonitorHolds
          \/ t = "inotify" /\ th[t].ret = "read"
      BY <1>2, <2>1
      DEF Ctl, MonitorCtl, MonitorHolds, LsofCtl, LsofHolds, InotifyCtl, Thread
    <2> QED
      BY <1>1, <1>2, <2>1, <2>2, ControlMayQueue
  <1>4. CASE t = "inotify" /\ QueryApp
    <2>1. GetAppDetectInfo(ep[Cur(t)].app, FALSE) \in EPcmdType
      BY <1>2, DetectInfoType
    <2> QED
      BY <1>1, <1>2, <1>4, <2>1, ControlMayQueue DEF QueryApp, At
  <1> QED
    BY <1>3, <1>4

-----------------------------------------------------------------------------
(* The monitor goroutine.                                                  *)

(* A goroutine that ends a turn of its loop works on no endpoint.          *)
LEMMA ControlDone ==
  ASSUME TypeInv, ControlInv, NEW t \in Thread, NEW p \in PC \ EpPC, Done(t, p),
         LockStep(t), UNCHANGED <<ep, wmap>>,
         t = "monitor" => \/ lock' = "monitor" /\ p \in {"cleanNext", "pollNext"}
                          \/ lock' = "none" /\ p \in {"sleep", "pollLock"},
         t = "lsof" => lock' # "lsof" /\ p = "sleep",
         t = "inotify" => lock' # "inotify" /\ p = "read"
  PROVE  ControlInv'
  <1>1. th \in [Thread -> ThRec] /\ th["monitor"].todo \subseteq InMap
    BY DEF TypeInv, TypeOK, ControlInv, Known
  <1>2. /\ Others(t) /\ th'[t].pc = p /\ th'[t].todo = th[t].todo
    BY <1>1, DoneThread
  <1>3. Ctl(t, th'[t], lock')
    BY <1>2 DEF Ctl, MonitorCtl, MonitorHolds, LsofCtl, LsofHolds, InotifyCtl,
                InotifyPC, InChange, ChangePC, Thread
  <1>4. t = "monitor" => th'[t].todo \subseteq InMap /\ DownFromWatched'
    BY <1>1, <1>2 DEF DownFromWatched, ChangePC, EpPC
  <1> QED
    BY <1>2, <1>3, <1>4, ControlFrame DEF EpPC

(* CleanEPs and PollEPs take epc.mutex and look at the endpoints in epMap. *)
LEMMA ControlLoops ==
  ASSUME TypeInv, ControlInv,
         Start \/ CleanEPs \/ PollEPs \/ CleanDone \/ PollDone
  PROVE  ControlInv'
  <1> DEFINE t == "monitor"
  <1>1. /\ t \in Thread /\ th \in [Thread -> ThRec] /\ th[t] \in ThRec
        /\ Ctl(t, th[t], lock) /\ th[t].todo \subseteq InMap
    BY DEF Thread, TypeInv, TypeOK, ControlInv, ThreadCtl, Known
  <1>2. UNCHANGED <<ep, wmap>>
    BY DEF Start, CleanEPs, PollEPs, CleanDone, PollDone, epVars
  <1>3. CASE Start
    <2>1. /\ Others(t) /\ th'[t].pc = "sleep" /\ th'[t].todo = th[t].todo
      BY <1>1, <1>3, GotoThread DEF Start, PC
    <2>2. lock' = lock /\ th[t].pc = "boot"
      BY <1>3 DEF Start, At
    <2>3. Ctl(t, th'[t], lock')
      BY <1>1, <2>1, <2>2 DEF Ctl, MonitorCtl, MonitorHolds, InChange, ChangePC
    <2>4. th'[t].todo \subseteq InMap /\ DownFromWatched'
      BY <1>1, <2>1 DEF DownFromWatched, ChangePC
    <2> QED
      BY <1>1, <1>2, <2>1, <2>2, <2>3, <2>4, ControlFrame DEF EpPC, LockStep
  <1>4. CASE CleanEPs \/ PollEPs
    <2>1. PICK p \in {"cleanNext", "pollNext"} :
             th' = [th EXCEPT ![t].pc = p, ![t].todo = InMap]
      BY <1>4 DEF CleanEPs, PollEPs
    <2> DEFINE x == [th[t] EXCEPT !.pc = p, !.todo = InMap]
    <2>2. x.pc = p /\ x.todo = InMap
      BY <1>1 DEF ThRec
    <2>3. th' = [th EXCEPT ![t] = x]
      BY <2>1
    <2> HIDE DEF x
    <2>4. th'[t] = x /\ Others(t)
      BY <1>1, <2>3 DEF Others
    <2>5. lock = "none" /\ lock' = t
      BY <1>4 DEF CleanEPs, PollEPs, Acquire
    <2>6. Ctl(t, th'[t], lock')
      BY <2>2, <2>4, <2>5 DEF Ctl, MonitorCtl, MonitorHolds, InChange, ChangePC
    <2>7. th'[t].todo \subseteq InMap /\ DownFromWatched'
      BY <2>2, <2>4 DEF DownFromWatched, ChangePC
    <2> QED
      BY <1>1, <1>2, <2>2, <2>4, <2>5, <2>6, <2>7, ControlFrame
      DEF EpPC, LockStep
  <1>5. CASE CleanDone \/ PollDone
    <2>1. /\ lock' = "none" /\ th[t].pc \in {"cleanNext", "pollNext"}
          /\ Done(t, "pollLock") \/ Done(t, "sleep")
      BY <1>5 DEF CleanDone, PollDone, At
    <2>2. lock = "monitor"
      BY <1>1, <2>1 DEF Ctl, MonitorCtl, MonitorHolds
    <2>3. {"pollLock", "sleep"} \subseteq PC \ EpPC
      BY DEF PC, EpPC
    <2> QED
      BY <1>1, <1>2, <2>1, <2>2, <2>3, ControlDone DEF LockStep
  <1> QED
    BY <1>3, <1>4, <1>5

(* CleanEPs goes on with one of the endpoints it has yet to visit.         *)
LEMMA ControlCleanNext ==
  ASSUME TypeInv, ControlInv, CleanNext
  PROVE  ControlInv'
  <1> DEFINE t == "monitor"
  <1>1. /\ t \in Thread /\ th \in [Thread -> ThRec] /\ th[t] \in ThRec
        /\ Ctl(t, th[t], lock) /\ th[t].todo \subseteq InMap
    BY DEF Thread, TypeInv, TypeOK, ControlInv, ThreadCtl, Known
  <1>2. PICK e \in th[t].todo :
           th' = [th EXCEPT ![t].pc = "decide", ![t].ep = e, ![t].todo = @ \ {e}]
    BY DEF CleanNext
  <1> DEFINE x == [th[t] EXCEPT !.pc = "decide", !.ep = e, !.todo = @ \ {e}]
  <1>3. /\ x.pc = "decide" /\ x.ep = e /\ x.todo = th[t].todo \ {e}
    BY <1>1 DEF ThRec
  <1>4. th' = [th EXCEPT ![t] = x]
    BY <1>2
  <1> HIDE DEF x
  <1>5. th'[t] = x /\ Others(t)
    BY <1>1, <1>4 DEF Others
  <1>6. UNCHANGED <<ep, wmap, lock>> /\ th[t].pc = "cleanNext"
    BY DEF CleanNext, At
  <1>7. Ctl(t, th'[t], lock')
    BY <1>1, <1>3, <1>5, <1>6 DEF Ctl, MonitorCtl, MonitorHolds, InChange, ChangePC
  <1>8. th'[t].todo \subseteq InMap /\ DownFromWatched'
    BY <1>1, <1>3, <1>5 DEF DownFromWatched, ChangePC
  <1> QED
    BY <1>1, <1>3, <1>5, <1>6, <1>7, <1>8, ControlFrame DEF LockStep

(* The monitor's decisions: down only for an endpoint that is running.     *)
LEMMA ControlDecide ==
  ASSUME TypeInv, ControlInv, Decide \/ PollAge
  PROVE  ControlInv'
  <1> DEFINE t == "monitor"
  <1>1. /\ t \in Thread /\ th \in [Thread -> ThRec]
        /\ Ctl(t, th[t], lock) /\ th[t].todo \subseteq InMap
    BY DEF Thread, TypeInv, TypeOK, ControlInv, ThreadCtl, Known
  <1>2. /\ th[t].pc \in {"decide", "pollAge"} /\ UNCHANGED <<ep, wmap, lock>>
    BY DEF Decide, PollAge, At, epVars
  <1>3. th[t].ep \in InMap /\ lock = "monitor"
    BY <1>1, <1>2 DEF ControlInv, Known, EpPC, Ctl, MonitorCtl, MonitorHolds
  <1>4. ASSUME NEW s \in {"down", "removing"}, NEW r \in {"cleanNext", "pollNext"},
               CallChangeState(t, s, r),
               s = "down" => ep[th[t].ep].state = "running"
        PROVE  ControlInv'
    <2>1. s \in Epstate /\ r \in RetPC
      BY DEF Epstate, RetPC
    <2>2. /\ Others(t)
          /\ th'[t].pc = "changeState" /\ th'[t].tgt = s /\ th'[t].ret = r
          /\ th'[t].ep = th[t].ep /\ th'[t].todo = th[t].todo
      BY <1>1, <1>4, <2>1, CallThread
    <2>3. Ctl(t, th'[t], lock')
      BY <1>2, <1>3, <2>2 DEF Ctl, MonitorCtl, MonitorHolds
    <2>4. th'[t].todo \subseteq InMap /\ DownFromWatched'
      BY <1>1, <1>2, <1>4, <2>2 DEF DownFromWatched
    <2> QED
      BY <1>1, <1>2, <1>3, <2>2, <2>3, <2>4, ControlFrame DEF LockStep
  <1>5. ASSUME NEW p \in {"cleanNext", "pollNext"}, Done(t, p)
        PROVE  ControlInv'
    <2>1. p \in PC \ EpPC
      BY DEF PC, EpPC
    <2> QED
      BY <1>1, <1>2, <1>3, <1>5, <2>1, ControlDone DEF LockStep
  <1>6. CASE Decide
    BY <1>4, <1>5, <1>6 DEF Decide, Cur
  <1>7. CASE PollAge
    BY <1>4, <1>5, <1>7 DEF PollAge, Cur
  <1> QED
    BY <1>6, <1>7

(* PollEPs goes on with one of the endpoints it has yet to visit.          *)
LEMMA ControlPollNext ==
  ASSUME TypeInv, ControlInv, PollNext
  PROVE  ControlInv'
  <1> DEFINE t == "monitor"
  <1>1. /\ t \in Thread /\ th \in [Thread -> ThRec] /\ th[t] \in ThRec
        /\ Ctl(t, th[t], lock) /\ th[t].todo \subseteq InMap
        /\ ep \in [EP -> EpRec]
    BY DEF Thread, TypeInv, TypeOK, ControlInv, ThreadCtl, Known
  <1>2. th[t].pc = "pollNext" /\ UNCHANGED <<epVars, lock>>
    BY DEF PollNext, At
  <1>3. PICK e \in th[t].todo :
           \/ MayQueue(t, e, PollOp(ep[e]), AfterPoll(ep[e]))
           \/ th' = [th EXCEPT ![t].todo = @ \ {e}]
    BY DEF PollNext
  <1>4. e \in InMap /\ e \in EP
    BY <1>1, <1>3 DEF InMap
  <1>5. CASE MayQueue(t, e, PollOp(ep[e]), AfterPoll(ep[e]))
    <2>1. PollOp(ep[e]) \in EPcmdType
      <3>1. ep[e].app \in App
        BY <1>1, <1>4 DEF EpRec
      <3>2. GetAppDetectInfo(ep[e].app, FALSE) \in EPcmdType
        BY <3>1, DetectInfoType
      <3> QED
        BY <3>2 DEF PollOp, EPcmdType
    <2>2. AfterPoll(ep[e]) \in {"pollAge", "pollNext"}
      BY DEF AfterPoll
    <2>3. th[t].pc \in MonitorHolds
      BY <1>2 DEF MonitorHolds
    <2> QED
      BY <1>1, <1>2, <1>4, <1>5, <2>1, <2>2, <2>3, ControlMayQueue
  <1>6. CASE th' = [th EXCEPT ![t].todo = @ \ {e}]
    <2> DEFINE x == [th[t] EXCEPT !.todo = @ \ {e}]
    <2>1. x.pc = th[t].pc /\ x.todo \subseteq th[t].todo
      BY <1>1 DEF ThRec
    <2>2. th' = [th EXCEPT ![t] = x]
      BY <1>6
    <2> HIDE DEF x
    <2>3. th'[t] = x /\ Others(t)
      BY <1>1, <2>2 DEF Others
    <2>4. Ctl(t, th'[t], lock')
      BY <1>1, <1>2, <2>1, <2>3
      DEF Ctl, MonitorCtl, MonitorHolds, InChange, ChangePC
    <2>5. th'[t].todo \subseteq InMap /\ DownFromWatched'
      BY <1>1, <1>2, <2>1, <2>3 DEF DownFromWatched, ChangePC
    <2> QED
      BY <1>1, <1>2, <2>1, <2>3, <2>4, <2>5, ControlFrame
      DEF EpPC, LockStep, epVars
  <1> QED
    BY <1>3, <1>5, <1>6

-----------------------------------------------------------------------------
(* The lsof and the inotify goroutine.                                     *)

(* The record of a goroutine that has none but todo to go on with.         *)
LEMMA IdleFields ==
  ASSUME NEW p, NEW s
  PROVE  /\ [Idle(p) EXCEPT !.todo = s].pc = p
         /\ [Idle(p) EXCEPT !.todo = s].todo = s
  BY DEF Idle

(* AddEp of an endpoint in epMap: while the inotify goroutine is at it,    *)
(* nothing else writes State.                                              *)
LEMMA ControlAddEpKnown ==
  ASSUME TypeInv, ControlInv, NEW t \in {"lsof", "inotify"},
         AddEpKnown(t) \/ AddEpTest(t)
  PROVE  ControlInv'
  <1> DEFINE e == th[t].ep
             s == ep[e].state
  <1>1. /\ t \in Thread /\ ep \in [EP -> EpRec] /\ Ctl(t, th[t], lock)
        /\ t # "monitor" /\ UNCHANGED wmap
    BY DEF Thread, TypeInv, TypeOK, ControlInv, ThreadCtl, AddEpKnown,
           AddEpTest, epVars
  <1>2. /\ th[t].pc \in {"addEp", "found"} /\ e \in EP /\ Others(t)
        /\ Looked(t, s)
    BY <1>1, KnownThread
  <1>3. e \in InMap /\ s # "unknown"
    BY <1>1, <1>2 DEF AddEpKnown, AddEpTest, At, ControlInv, Known, EpPC, InMap,
                      Cur
  <1>4. lock \in {"none", t} /\ lock' \in {"none", t}
    BY <1>1, <1>2 DEF AddEpKnown, AddEpTest, At, Ctl, LsofCtl, LsofHolds,
                      InotifyCtl, Looked
  <1>5. \A f \in EP : ep'[f].state = ep[f].state /\ ep'[f].app = ep[f].app
    BY <1>1, <1>2, StateAppKept DEF AddEpKnown, AddEpTest, epVars, Cur
  <1>6. InMap' = InMap
    BY <1>5 DEF InMap
  <1>7. Ctl(t, th'[t], lock')
    <2>1. CASE t = "lsof"
      <3>1. th[t].pc = "found" => th[t].tgt # "unknown"
        BY <1>1, <2>1 DEF Ctl, LsofCtl
      <3> QED
        BY <1>2, <1>3, <2>1, <3>1
        DEF Looked, Home, Ctl, LsofCtl, LsofHolds, InChange, ChangePC
    <2>2. CASE t = "inotify"
      <3>1. th[t].pc = "found" => th[t].tgt = s
        BY <1>1, <2>2 DEF ControlInv, LooksAgree, LookAgrees
      <3> QED
        BY <1>2, <2>2, <3>1
        DEF Looked, Home, Ctl, InotifyCtl, InotifyPC, InChange, ChangePC
    <2> QED
      BY <2>1, <2>2
  <1>8. /\ th'[t].pc \in EpPC \ {"addEp"} => th'[t].ep = e
        /\ th'[t].pc = "found" => th'[t].ep = e /\ th'[t].tgt = s
    BY <1>2 DEF Looked, Home, EpPC
  <1>9. th'[t].pc # "found" \/ LookAgrees(t)'
    BY <1>2, <1>5, <1>8 DEF LookAgrees
  <1> QED
    BY <1>1, <1>2, <1>3, <1>4, <1>5, <1>6, <1>7, <1>8, <1>9, ControlBy
    DEF LockStep, StateStep

(* AddEp of a new endpoint: it is in epMap, watched, when AddEp releases   *)
(* epc.mutex.                                                              *)
LEMMA ControlAddEpNew ==
  ASSUME TypeInv, ControlInv, NEW t \in {"lsof", "inotify"}, AddEpNew(t)
  PROVE  ControlInv'
  <1> DEFINE e == th[t].ep
             w0 == InotifyAddWatch(e)
  <1>1. /\ t \in Thread /\ th \in [Thread -> ThRec]
        /\ ep \in [EP -> EpRec] /\ wmap \in [Wd -> EP \cup {NoEP}]
        /\ th[t].pc = "addEp" /\ e \in EP /\ lock = "none" /\ UNCHANGED lock
        /\ t # "monitor"
    BY DEF Thread, TypeInv, TypeOK, ThreadOK, LocalsOK, EpPC, AddEpNew, At
  <1>2. CASE UNCHANGED <<th, ep, wmap>>
    BY <1>1, <1>2, ControlStill
  <1>3. CASE /\ ep' = [ep EXCEPT ![e] = [NewEp EXCEPT !.state = "init",
                                          !.watched = TRUE, !.wid = w0]]
             /\ wmap' = [wmap EXCEPT ![w0] = e]
             /\ Done(t, Home(t))
    <2> DEFINE x == [NewEp EXCEPT !.state = "init", !.watched = TRUE,
                                  !.wid = w0]
    <2>1. x.state = "init" /\ ep' = [ep EXCEPT ![e] = x]
      BY <1>3 DEF NewEp
    <2> HIDE DEF x
    <2>2. /\ InMap' = InMap \cup {e}
          /\ \A f \in EP : f # e => ep'[f] = ep[f]
      BY <1>1, <2>1 DEF InMap
    <2>3. \A w \in Wd : wmap'[w] \in {wmap[w], NoEP} \cup InMap'
      BY <1>1, <1>3, <2>2
    <2>4. Home(t) \in PC \ EpPC /\ Home(t) # "found"
      BY DEF Home, PC, EpPC
    <2>5. Others(t) /\ th'[t].pc = Home(t)
      BY <1>1, <1>3, <2>4, DoneThread
    <2>6. Ctl(t, th'[t], lock')
      BY <1>1, <2>5 DEF Home, Ctl, LsofCtl, LsofHolds, InotifyCtl, InotifyPC,
                        InChange, ChangePC
    <2>7. StateStep(t) /\ LockStep(t)
      BY <1>1 DEF StateStep, LockStep
    <2> QED
      BY <1>1, <2>2, <2>3, <2>4, <2>5, <2>6, <2>7, ControlBy
  <1> QED
    BY <1>2, <1>3 DEF AddEpNew, Die, Cur

(* The lsof goroutine starts a scan, finds a process, or finds it gone.    *)
LEMMA ControlScan ==
  ASSUME TypeInv, ControlInv, LookoutLsof \/ ScanNext \/ ScanMiss
  PROVE  ControlInv'
  <1> DEFINE t == "lsof"
  <1>1. /\ t \in Thread /\ th \in [Thread -> ThRec] /\ th[t] \in ThRec
        /\ Ctl(t, th[t], lock)
    BY DEF Thread, TypeInv, TypeOK, ControlInv, ThreadCtl
  <1>2. th[t].pc \in {"boot", "sleep"} /\ UNCHANGED <<wmap, lock>>
    BY DEF LookoutLsof, ScanNext, ScanMiss, At, epVars
  <1>3. \A f \in EP : ep'[f].state = ep[f].state /\ ep'[f].app = ep[f].app
    <2>1. CASE LookoutLsof
      BY <2>1, StateAppAges
    <2>2. CASE ScanNext \/ ScanMiss
      BY <2>2 DEF ScanNext, ScanMiss, epVars
    <2> QED
      BY <2>1, <2>2
  <1>4. InMap' = InMap
    BY <1>3 DEF InMap
  <1>5. th'[t].pc \in {"sleep", "addEp"} /\ Others(t)
    <2>1. CASE LookoutLsof
      <3> DEFINE x == [th[t] EXCEPT !.pc = "sleep",
                                    !.todo = {e \in EP : Visible(e)}]
      <3>1. x.pc = "sleep" /\ th' = [th EXCEPT ![t] = x]
        BY <1>1, <2>1 DEF LookoutLsof, ThRec
      <3> HIDE DEF x
      <3> QED
        BY <1>1, <3>1 DEF Others
    <2>2. CASE ScanMiss
      <3>1. PICK e \in th[t].todo : th' = [th EXCEPT ![t].todo = @ \ {e}]
        BY <2>2 DEF ScanMiss
      <3> DEFINE x == [th[t] EXCEPT !.todo = @ \ {e}]
      <3>2. x.pc = "sleep" /\ th' = [th EXCEPT ![t] = x]
        BY <1>1, <2>2, <3>1 DEF ScanMiss, At, ThRec
      <3> HIDE DEF x
      <3> QED
        BY <1>1, <3>2 DEF Others
    <2>3. CASE ScanNext
      <3>1. PICK e \in th[t].todo :
              th' = [th EXCEPT ![t].pc = "addEp", ![t].ep = e,
                               ![t].todo = @ \ {e}]
        BY <2>3 DEF ScanNext
      <3> DEFINE x == [th[t] EXCEPT !.pc = "addEp", !.ep = e, !.todo = @ \ {e}]
      <3>2. x.pc = "addEp" /\ th' = [th EXCEPT ![t] = x]
        BY <1>1, <3>1 DEF ThRec
      <3> HIDE DEF x
      <3> QED
        BY <1>1, <3>2 DEF Others
    <2> QED
      BY <2>1, <2>2, <2>3
  <1>6. Ctl(t, th'[t], lock')
    BY <1>1, <1>2, <1>5 DEF Ctl, LsofCtl, LsofHolds, InChange, ChangePC
  <1>7. th'[t].pc \notin EpPC \ {"addEp"} /\ th'[t].pc # "found"
    BY <1>5 DEF EpPC
  <1> QED
    BY <1>1, <1>2, <1>3, <1>4, <1>5, <1>6, <1>7, ControlBy
    DEF LockStep, StateStep

(* AddEp releases epc.mutex.                                               *)
LEMMA ControlUnlock ==
  ASSUME TypeInv, ControlInv, NEW t \in {"lsof", "inotify"}, Unlock(t)
  PROVE  ControlInv'
  <1>1. /\ t \in Thread /\ Ctl(t, th[t], lock) /\ th[t].pc = "unlock"
        /\ lock' = "none" /\ UNCHANGED <<ep, wmap>>
        /\ Done(t, Home(t))
    BY DEF Thread, ControlInv, ThreadCtl, Unlock, Release, At, epVars
  <1>2. lock = t
    BY <1>1 DEF Ctl, LsofCtl, LsofHolds, InotifyCtl, InChange, ChangePC
  <1>3. Home(t) \in PC \ EpPC
        /\ Home(t) = IF t = "lsof" THEN "sleep" ELSE "read"
    BY DEF Home, PC, EpPC
  <1> QED
    BY <1>1, <1>2, <1>3, ControlDone DEF LockStep

(* The inotify goroutine goes on, outside epc.mutex, with the endpoint x.ep.*)
LEMMA ControlInotify ==
  ASSUME TypeInv, ControlInv, NEW x, th' = [th EXCEPT !["inotify"] = x],
         th["inotify"].pc \in {"read", "complete", "revive", "apply"},
         x.pc \in {"addEp", "complete", "revive", "apply"}
           \/ /\ x.pc = "changeState"
              /\ \/ x.ret \in {"apply", "read"} /\ x.tgt = "running"
                 \/ x.ret = "query" /\ x.tgt = "identified",
         x.pc # "addEp" => x.ep \in InMap, UNCHANGED <<lock, wmap>>,
         \A e \in EP : ep'[e].state = ep[e].state,
         \A e \in EP : e \notin InMap => ep'[e].app = ep[e].app
  PROVE  ControlInv'
  <1> DEFINE t == "inotify"
  <1>1. /\ t \in Thread /\ th \in [Thread -> ThRec] /\ Ctl(t, th[t], lock)
        /\ wmap \in [Wd -> EP \cup {NoEP}]
    BY DEF Thread, TypeInv, TypeOK, ControlInv, ThreadCtl
  <1>2. th'[t] = x /\ Others(t)
    BY <1>1 DEF Others
  <1>3. lock # "inotify"
    BY <1>1 DEF Ctl, InotifyCtl, InChange, ChangePC
  <1>4. Ctl(t, th'[t], lock') /\ th'[t].pc # "found"
    BY <1>2, <1>3 DEF Ctl, InotifyCtl, InotifyPC, InChange, ChangePC
  <1>5. InMap' = InMap
    BY DEF InMap
  <1> QED
    BY <1>1, <1>2, <1>4, <1>5, ControlBy DEF LockStep, StateStep

(* processEvent: an answer's endpoint is one that is in epMap.             *)
LEMMA ControlProcessEvent ==
  ASSUME TypeInv, ControlInv, ProcessEvent
  PROVE  ControlInv'
  <1> DEFINE t == "inotify"
             ev == Head(evq)
  <1>1. /\ t \in Thread /\ th \in [Thread -> ThRec] /\ th[t] \in ThRec
        /\ th[t].pc = "read" /\ UNCHANGED <<lock, wmap, ep>> /\ ev \in Event
    BY DEF Thread, TypeInv, TypeOK, ProcessEvent, At, epVars
  <1>2. CASE UNCHANGED th
    BY <1>1, <1>2, ControlStill
  <1>3. CASE th' = [th EXCEPT ![t].pc = "addEp", ![t].ep = ev.ep]
    <2> DEFINE x == [th[t] EXCEPT !.pc = "addEp", !.ep = ev.ep]
    <2>1. x.pc = "addEp"
      BY <1>1 DEF ThRec
    <2>2. th' = [th EXCEPT ![t] = x]
      BY <1>3
    <2> HIDE DEF x
    <2> QED
      BY <1>1, <2>1, <2>2, ControlInotify
  <1>4. CASE /\ ev.type = "moved" /\ wmap[ev.wd] # NoEP
             /\ th' = [th EXCEPT ![t].pc = "complete",
                                 ![t].ep = wmap[ev.wd], ![t].cmd = ev.cmd]
    <2>0. wmap[ev.wd] \in InMap
      <3>1. ev.wd \in Wd
        BY <1>1, <1>4 DEF Event
      <3> QED
        BY <1>4, <3>1 DEF ControlInv, Known
    <2> DEFINE y == wmap[ev.wd]
               x == [th[t] EXCEPT !.pc = "complete", !.ep = y, !.cmd = ev.cmd]
    <2> HIDE DEF y
    <2>1. x.pc = "complete" /\ x.ep = y
      BY <1>1 DEF ThRec
    <2>2. th' = [th EXCEPT ![t] = x]
      BY <1>4 DEF y
    <2> HIDE DEF x
    <2> QED
      BY <1>1, <2>0, <2>1, <2>2, ControlInotify DEF y
  <1> QED
    BY <1>2, <1>3, <1>4 DEF ProcessEvent

(* Complete, up to the call of ChangeState.                                *)
LEMMA ControlComplete ==
  ASSUME TypeInv, ControlInv, Complete \/ Revive \/ Apply
  PROVE  ControlInv'
  <1> DEFINE t == "inotify"
             e == Cur(t)
  <1>1. /\ t \in Thread /\ th \in [Thread -> ThRec] /\ th[t] \in ThRec
        /\ th[t].pc \in {"complete", "revive", "apply"}
        /\ UNCHANGED <<lock, wmap>> /\ ep \in [EP -> EpRec] /\ e \in InMap
        /\ Ctl(t, th[t], lock)
    BY DEF Thread, TypeInv, TypeOK, Complete, Revive, Apply, At, epVars,
           ControlInv, ThreadCtl, Known, Cur, EpPC
  <1>2. e \in EP /\ lock # t
    BY <1>1 DEF InMap, Ctl, InotifyCtl, InChange, ChangePC
  <1>3. /\ \A f \in EP : ep'[f].state = ep[f].state
        /\ \A f \in EP : f \notin InMap => ep'[f].app = ep[f].app
    <2>1. CASE UNCHANGED ep
      BY <2>1
    <2>2. CASE ep' = [ep EXCEPT ![e].seen = 0]
      BY <1>1, <1>2, <2>2, StateAppKept
    <2>3. CASE ep' = [ep EXCEPT ![e].app = DetermineApp(th[t].out, e)]
      <3>1. ep' = [ep EXCEPT ![e] = [ep[e] EXCEPT !.app = DetermineApp(th[t].out, e)]]
        BY <2>3
      <3>2. [ep[e] EXCEPT !.app = DetermineApp(th[t].out, e)].state = ep[e].state
        BY <1>1, <1>2 DEF EpRec
      <3> QED
        BY <1>1, <1>2, <3>1, <3>2
    <2> QED
      BY <2>1, <2>2, <2>3 DEF Complete, Revive, Apply, epVars
  <1>4. CASE Done(t, "read")
    <2>1. Others(t) /\ th'[t].pc = "read"
      BY <1>1, <1>4, DoneThread DEF PC
    <2>2. Ctl(t, th'[t], lock')
      BY <1>1, <1>2, <2>1 DEF Ctl, InotifyCtl, InotifyPC, InChange, ChangePC
    <2>3. InMap' = InMap
      BY <1>3 DEF InMap
    <2> QED
      BY <1>1, <1>3, <2>1, <2>2, <2>3, ControlBy DEF LockStep, EpPC, StateStep
  <1>5. ASSUME NEW x, th' = [th EXCEPT ![t] = x],
               x.pc \in {"revive", "apply"}
                 \/ /\ x.pc = "changeState"
                    /\ \/ x.ret \in {"apply", "read"} /\ x.tgt = "running"
                       \/ x.ret = "query" /\ x.tgt = "identified",
               x.ep = e
        PROVE  ControlInv'
    BY <1>1, <1>3, <1>5, ControlInotify
  <1>6. CASE th' = [th EXCEPT ![t].pc = "revive", ![t].op = cmd[th[t].cmd].op,
                              ![t].out = cmd[th[t].cmd].file, ![t].cmd = NoCmd]
    <2> DEFINE x == [th[t] EXCEPT !.pc = "revive", !.op = cmd[th[t].cmd].op,
                       !.out = cmd[th[t].cmd].file, !.cmd = NoCmd]
    <2>1. x.pc = "revive" /\ x.ep = e
      BY <1>1 DEF ThRec, Cur
    <2>2. th' = [th EXCEPT ![t] = x]
      BY <1>6
    <2> HIDE DEF x
    <2> QED
      BY <1>5, <2>1, <2>2
  <1>7. CASE Goto(t, "apply")
    <2> DEFINE x == [th[t] EXCEPT !.pc = "apply"]
    <2>1. x.pc = "apply" /\ x.ep = e
      BY <1>1 DEF ThRec, Cur
    <2>2. th' = [th EXCEPT ![t] = x]
      BY <1>7 DEF Goto
    <2> HIDE DEF x
    <2> QED
      BY <1>5, <2>1, <2>2
  <1>8. ASSUME NEW s \in Epstate, NEW r \in RetPC, CallChangeState(t, s, r),
               \/ s = "running" /\ r \in {"apply", "read"}
               \/ s = "identified" /\ r = "query"
        PROVE  ControlInv'
    <2> DEFINE x == [th[t] EXCEPT !.pc = "changeState", !.tgt = s, !.ret = r]
    <2>1. x.pc = "changeState" /\ x.ep = e /\ x.tgt = s /\ x.ret = r
      BY <1>1 DEF ThRec, Cur
    <2>2. th' = [th EXCEPT ![t] = x]
      BY <1>8 DEF CallChangeState
    <2> HIDE DEF x
    <2> QED
      BY <1>5, <1>8, <2>1, <2>2
  <1>9. CASE UNCHANGED th
    <2>1. InMap' = InMap /\ Others(t)
      BY <1>3, <1>9 DEF InMap, Others
    <2> QED
      BY <1>1, <1>2, <1>3, <1>9, <2>1, ControlBy DEF LockStep, StateStep, Cur
  <1>10. CASE Revive
    <2>1. CallChangeState(t, "running", "apply") \/ Goto(t, "apply")
      BY <1>10 DEF Revive, CallChangeState
    <2>2. "running" \in Epstate /\ "apply" \in RetPC
      BY DEF Epstate, RetPC
    <2>3. CASE CallChangeState(t, "running", "apply")
      BY <1>8, <2>2, <2>3
    <2> QED
      BY <1>7, <2>1, <2>3
  <1>11. CASE Apply
    <2>1. \/ CallChangeState(t, "running", "read") \/ Done(t, "read")
          \/ CallChangeState(t, "identified", "query") \/ UNCHANGED th
      BY <1>11 DEF Apply, Die
    <2>2. /\ "running" \in Epstate /\ "identified" \in Epstate
          /\ "read" \in RetPC /\ "query" \in RetPC
      BY DEF Epstate, RetPC
    <2>3. CASE CallChangeState(t, "running", "read")
      BY <1>8, <2>2, <2>3
    <2>4. CASE CallChangeState(t, "identified", "query")
      BY <1>8, <2>2, <2>4
    <2> QED
      BY <1>4, <1>9, <2>1, <2>3, <2>4
  <1>12. CASE Complete
    BY <1>4, <1>6, <1>12 DEF Complete
  <1> QED
    BY <1>10, <1>11, <1>12

-----------------------------------------------------------------------------
(* Every step keeps ControlInv.                                            *)
LEMMA NextControl == TypeInv /\ ControlInv /\ [Next]_vars => ControlInv'
  <1> SUFFICES ASSUME TypeInv, ControlInv, [Next]_vars PROVE ControlInv'
    OBVIOUS
  <1>0. {"monitor", "lsof", "inotify"} \subseteq Thread
    BY DEF Thread
  <1>1. ASSUME NEW t \in Thread, ChangeStateStep(t) PROVE ControlInv'
    BY <1>1, ControlChangeState, ControlSetters DEF ChangeStateStep
  <1>2. ASSUME NEW t \in Thread, SubmitStep(t) PROVE ControlInv'
    BY <1>2, ControlSubmit, ControlQuery DEF SubmitStep
  <1>3. CASE Monitor
    BY <1>0, <1>1, <1>2, <1>3, ControlLoops, ControlCleanNext, ControlDecide,
       ControlPollNext, ControlWatch DEF Monitor
  <1>4. CASE Lsof
    BY <1>0, <1>1, <1>4, ControlScan, ControlAddEpKnown, ControlAddEpNew,
       ControlWatch, ControlUnlock DEF Lsof, AddEp
  <1>5. CASE Inotify
    BY <1>0, <1>1, <1>2, <1>5, ControlProcessEvent, ControlAddEpKnown,
       ControlAddEpNew, ControlComplete, ControlQuery, ControlWatch,
       ControlUnlock DEF Inotify, AddEp
  <1>6. CASE ConcurrentMapWrite \/ UNCHANGED vars
    BY <1>6, ControlStill DEF ConcurrentMapWrite, Die, epVars, vars
  <1>7. CASE Environment
    <2>1. UNCHANGED <<th, lock, wmap>>
      BY <1>7 DEF Environment, Tick, AppAnswer, AppAnswersAgain, ProcStart,
                  ProcStop, MakeRoot, MakeOutput, Touch, RemoveDir, epVars
    <2>2. CASE Tick
      BY <2>1, <2>2, StateAppAges, ControlStill
    <2>3. CASE ~Tick
      <3>1. UNCHANGED ep
        BY <1>7, <2>3
        DEF Environment, AppAnswer, AppAnswersAgain, ProcStart, ProcStop,
            MakeRoot, MakeOutput, Touch, RemoveDir, epVars
      <3> QED
        BY <2>1, <3>1, ControlStill
    <2> QED
      BY <2>2, <2>3
  <1> QED
    BY <1>3, <1>4, <1>5, <1>6, <1>7 DEF Next, Halted

(* Each goroutine is only ever where its program, and epc.mutex, allow it  *)
(* to be, and works on endpoints that are in epMap.  In particular the     *)
(* monitor never adds a watch and the inotify goroutine never removes one, *)
(* and only the lsof goroutine can write a State that AddEp read too soon. *)
THEOREM ControlInvariant == Spec => []ControlInv
  <1>1. Init => ControlInv
    <2> SUFFICES ASSUME Init PROVE ControlInv
      OBVIOUS
    <2>1. ThreadCtl
      BY DEF Init, ThreadCtl, Ctl, MonitorCtl, MonitorHolds, LsofCtl, LsofHolds,
             InotifyCtl, InotifyPC, InChange, ChangePC, Idle, Thread
    <2>2. Known
      BY DEF Init, Known, InMap, NewEp, EpPC, Idle, Thread
    <2>3. DownFromWatched /\ LooksAgree
      BY DEF Init, DownFromWatched, LooksAgree, LookAgrees, ChangePC, Idle,
             Thread
    <2> QED
      BY <2>1, <2>2, <2>3 DEF ControlInv
  <1> QED
    BY <1>1, NextControl, TypeInvariant, PTL DEF Spec

-----------------------------------------------------------------------------
(* Which goroutine a step moves.                                           *)

(* The operations that several goroutines call move the caller.            *)
LEMMA CallerMoves ==
  ASSUME TypeInv, NEW t \in Thread,
         \/ ChangeStateStep(t) \/ SubmitStep(t) \/ Unlock(t)
         \/ EpWatchAdd(t) \/ EpWatchRemove(t)
  PROVE  Others(t)
  <1>1. th \in [Thread -> ThRec]
    BY DEF TypeInv, TypeOK
  <1>2. CASE ChangeStateStep(t)
    BY <1>1, <1>2 DEF ChangeStateStep, ChangeState, SetWatched, SetState,
                      SetSeen, Return, Done, Goto, Die, Others
  <1>3. CASE SubmitStep(t)
    BY <1>1, <1>3 DEF SubmitStep, Submit, Retry, Return, Done, MayQueue, Others
  <1>4. CASE Unlock(t) \/ EpWatchAdd(t) \/ EpWatchRemove(t)
    BY <1>1, <1>4 DEF Unlock, Release, EpWatchAdd, EpWatchRemove, Done, Goto,
                      Die, Others
  <1> QED
    BY <1>2, <1>3, <1>4

(* A step of one goroutine leaves the records of the others alone.         *)
LEMMA OneMoves ==
  ASSUME TypeInv
  PROVE  /\ Monitor => Others("monitor")
         /\ Lsof => Others("lsof")
         /\ Inotify => Others("inotify")
         /\ ConcurrentMapWrite \/ Environment \/ Halted => UNCHANGED th
  <1>1. th \in [Thread -> ThRec] /\ {"monitor", "lsof", "inotify"} \subseteq Thread
    BY DEF TypeInv, TypeOK, Thread
  <1>2. ASSUME Monitor PROVE Others("monitor")
    <2>1. CASE Start \/ CleanEPs \/ CleanNext \/ CleanDone
      BY <1>1, <2>1 DEF Start, CleanEPs, CleanNext, CleanDone, Goto, Done,
                        Others
    <2>2. CASE Decide \/ PollAge
      BY <1>1, <2>2 DEF Decide, PollAge, CallChangeState, Done, Others
    <2>3. CASE PollEPs \/ PollNext \/ PollDone
      BY <1>1, <2>3 DEF PollEPs, PollNext, PollDone, MayQueue, Done, Others
    <2> QED
      BY <1>1, <1>2, <2>1, <2>2, <2>3, CallerMoves DEF Monitor
  <1>3. ASSUME Lsof PROVE Others("lsof")
    <2>1. CASE LookoutLsof \/ ScanNext \/ ScanMiss
      BY <1>1, <2>1 DEF LookoutLsof, ScanNext, ScanMiss, Others
    <2>2. CASE AddEp("lsof") \/ AddEpTest("lsof")
      BY <1>1, <2>2, AddEpThread
    <2> QED
      BY <1>1, <1>3, <2>1, <2>2, CallerMoves DEF Lsof
  <1>4. ASSUME Inotify PROVE Others("inotify")
    <2>1. CASE ProcessEvent \/ Complete
      BY <1>1, <2>1 DEF ProcessEvent, Complete, Done, Others
    <2>2. CASE AddEp("inotify") \/ AddEpTest("inotify")
      BY <1>1, <2>2, AddEpThread
    <2>3. CASE Revive \/ Apply \/ QueryApp
      BY <1>1, <2>3 DEF Revive, Apply, QueryApp, Goto, Done, Die,
                        CallChangeState, MayQueue, Others
    <2> QED
      BY <1>1, <1>4, <2>1, <2>2, <2>3, CallerMoves DEF Inotify
  <1>5. ASSUME ConcurrentMapWrite \/ Environment \/ Halted PROVE UNCHANGED th
    BY <1>5 DEF ConcurrentMapWrite, Die, Halted, vars, Environment, Tick,
                AppAnswer, AppAnswersAgain, ProcStart, ProcStop, MakeRoot,
                MakeOutput, Touch, RemoveDir
  <1> QED
    BY <1>2, <1>3, <1>4, <1>5

(* submit goes on at addCmd or returns to r.                               *)
LEMMA MayQueuePC ==
  ASSUME TypeInv, NEW t \in Thread, NEW e, NEW o, NEW r, MayQueue(t, e, o, r)
  PROVE  th'[t].pc \in {"addCmd", r}
  <1>1. th \in [Thread -> ThRec] /\ th[t] \in ThRec
    BY DEF TypeInv, TypeOK
  <1>2. CASE mayQueueCmd(e)
    BY <1>1, <1>2 DEF MayQueue, ThRec
  <1>3. CASE ~mayQueueCmd(e)
    BY <1>1, <1>3 DEF MayQueue, Idle
  <1> QED
    BY <1>2, <1>3

(* Submit and Retry do not leave their caller inside ChangeState.          *)
LEMMA SubmitPC ==
  ASSUME TypeInv, NEW t \in Thread, SubmitStep(t)
  PROVE  /\ th[t].pc \in {"addCmd", "retry"}
         /\ th'[t].pc \in {"addCmd", "retry", "pollNext", "pollAge", "read"}
  <1>1. /\ th \in [Thread -> ThRec] /\ th[t] \in ThRec
        /\ th[t].pc \in {"addCmd", "retry"}
        /\ th[t].ret \in {"pollNext", "pollAge", "read"}
    BY DEF TypeInv, TypeOK, ThreadOK, LocalsOK, SubmitStep, Submit, Retry, At
  <1>2. CASE Submit(t)
    <2>1. \/ Return(t)
          \/ th' = [th EXCEPT ![t].pc = "retry",
                              ![t].op = GetAppDetectInfo(ep[Cur(t)].app, TRUE)]
      BY <1>2 DEF Submit
    <2>2. CASE Return(t)
      BY <1>1, <2>2, ReturnThread
    <2>3. CASE ~Return(t)
      BY <1>1, <2>1, <2>3 DEF ThRec
    <2> QED
      BY <2>2, <2>3
  <1>3. CASE Retry(t)
    BY <1>1, <1>3, MayQueuePC DEF Retry
  <1> QED
    BY <1>2, <1>3 DEF SubmitStep
=============================================================================
