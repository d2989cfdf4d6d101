----------------------------- MODULE CleanProofs -----------------------------
(***************************************************************************)
(* What CleanEPs may and may not take away.  Of the commands in flight: an *)
(* answer is acted on once, and never after its command was flushed, and   *)
(* pendingCmds stays bounded although mayQueueCmd and addCmd are not one   *)
(* critical section.  Of the endpoints: none whose process was there       *)
(* throughout two lsof scans is moved to removing.                         *)
(***************************************************************************)
EXTENDS ControlProofs

-----------------------------------------------------------------------------
(* The commands in flight.                                                 *)

(* Thread t has passed mayQueueCmd for e and has not run addCmd yet.       *)
Queuing(t, e) == th[t].pc = "addCmd" /\ th[t].ep = e

AtMostOne(S) == \E c \in Cmd \cup {NoCmd} : S \subseteq {c}

AtMostTwo(S) == \E c, d \in Cmd \cup {NoCmd} : S \subseteq {c, d}

(* The room left in pendingCmds pays for the threads that are about to add *)
(* to it.  The lsof goroutine never submits.                               *)
PendInv ==
  /\ th["lsof"].pc \notin {"addCmd", "retry"}
  /\ \A e \in EP :
       /\ Queuing("monitor", e) /\ Queuing("inotify", e) => pend[e] = {}
       /\ Queuing("monitor", e) \/ Queuing("inotify", e) => AtMostOne(pend[e])
       /\ AtMostTwo(pend[e])

(* A command is in pendingCmds of the endpoint it was submitted to, and    *)
(* has been neither completed nor flushed.                                 *)
LiveInv == \A e \in EP : \A c \in pend[e] : cmd[c].live /\ cmd[c].ep = e

-----------------------------------------------------------------------------
(* A thread that takes a step which does not end in addCmd is not about to *)
(* add a command.                                                          *)
Quiet(t) == Others(t) /\ th'[t].pc \notin {"addCmd", "retry"}

(* A step after which no thread is about to add a command that was not     *)
(* before, and no endpoint has more commands, keeps PendInv.               *)
LEMMA PendShrinks ==
  ASSUME PendInv, \A e \in EP : pend'[e] \subseteq pend[e],
         UNCHANGED th \/ \E t \in Thread : Quiet(t)
  PROVE  PendInv'
  <1>1. th'["lsof"].pc \notin {"addCmd", "retry"}
    BY DEF PendInv, Quiet, Others, Thread
  <1>2. ASSUME NEW t \in Thread, NEW e \in EP, Queuing(t, e)'
        PROVE  Queuing(t, e)
    BY <1>2 DEF Quiet, Others, Queuing
  <1>3. {"monitor", "inotify"} \subseteq Thread
    BY DEF Thread
  <1>4. ASSUME NEW e \in EP
        PROVE  /\ Queuing("monitor", e)' /\ Queuing("inotify", e)'
                    => pend'[e] = {}
               /\ Queuing("monitor", e)' \/ Queuing("inotify", e)'
                    => AtMostOne(pend'[e])
               /\ AtMostTwo(pend'[e])
    <2>1. /\ Queuing("monitor", e) /\ Queuing("inotify", e) => pend[e] = {}
          /\ Queuing("monitor", e) \/ Queuing("inotify", e)
               => AtMostOne(pend[e])
          /\ AtMostTwo(pend[e])
      BY DEF PendInv
    <2>2. /\ Queuing("monitor", e)' => Queuing("monitor", e)
          /\ Queuing("inotify", e)' => Queuing("inotify", e)
      BY <1>2, <1>3
    <2>3. pend'[e] \subseteq pend[e]
      OBVIOUS
    <2> QED
      BY <2>1, <2>2, <2>3 DEF AtMostOne, AtMostTwo
  <1> QED
    BY <1>1, <1>4 DEF PendInv, AtMostOne, AtMostTwo

(* Returning, going on and calling ChangeState do not end at addCmd: ret   *)
(* is never "addCmd".                                                      *)
LEMMA QuietMoves ==
  ASSUME TypeInv, NEW t \in Thread,
         \/ Return(t)
         \/ \E p \in PC \ {"addCmd", "retry"} : Goto(t, p) \/ Done(t, p)
         \/ \E s \in Epstate, r \in RetPC : CallChangeState(t, s, r)
  PROVE  Quiet(t)
  <1>0. th \in [Thread -> ThRec] /\ th[t].ret \in RetPC
    BY DEF TypeInv, TypeOK, ThRec
  <1>1. CASE Return(t)
    BY <1>0, <1>1, ReturnThread DEF Quiet, RetPC
  <1>2. ASSUME NEW p \in PC \ {"addCmd", "retry"}, Goto(t, p) \/ Done(t, p)
        PROVE  Quiet(t)
    <2>1. CASE Goto(t, p)
      BY <1>0, <1>2, <2>1, GotoThread DEF Quiet
    <2>2. CASE Done(t, p)
      BY <1>0, <1>2, <2>2, DoneThread DEF Quiet
    <2> QED
      BY <1>2, <2>1, <2>2
  <1>3. ASSUME NEW s \in Epstate, NEW r \in RetPC, CallChangeState(t, s, r)
        PROVE  Quiet(t)
    BY <1>0, <1>3, CallThread DEF Quiet
  <1> QED
    BY <1>1, <1>2, <1>3

(* ChangeState never leads into addCmd.                                    *)
LEMMA QuietChangeState ==
  ASSUME TypeInv, NEW t \in Thread,
         \/ ChangeStateStep(t) \/ EpWatchAdd(t) \/ EpWatchRemove(t)
         \/ Unlock(t)
  PROVE  UNCHANGED pend /\ (UNCHANGED th \/ Quiet(t))
  <1>1. {"setState", "watchAdd", "watchRemove", "setWatched", "setSeen", "sleep",
         "read"} \subseteq PC \ {"addCmd", "retry"}
    BY DEF PC
  <1>2. UNCHANGED pend
    BY DEF ChangeStateStep, ChangeState, SetWatched, SetState, SetSeen,
           EpWatchAdd, EpWatchRemove, Unlock, epVars
  <1>3. \/ UNCHANGED th \/ Return(t)
        \/ \E p \in {"setState", "watchAdd", "watchRemove", "setWatched",
                     "setSeen", "sleep", "read"} : Goto(t, p) \/ Done(t, p)
    BY DEF ChangeStateStep, ChangeState, SetWatched, SetState, SetSeen,
           EpWatchAdd, EpWatchRemove, Unlock, Release, Home, Die
  <1> QED
    BY <1>1, <1>2, <1>3, QuietMoves

(* A thread whose new record is not at addCmd is quiet.                    *)
LEMMA QuietRecord ==
  ASSUME TypeInv, NEW t \in Thread, NEW x, th' = [th EXCEPT ![t] = x],
         x.pc \notin {"addCmd", "retry"}
  PROVE  Quiet(t)
  <1>1. th \in [Thread -> ThRec]
    BY DEF TypeInv, TypeOK
  <1> QED
    BY <1>1 DEF Quiet, Others

(* CleanEPs only takes commands away.                                      *)
LEMMA QuietClean ==
  ASSUME TypeInv, CleanNext
  PROVE  (\A e \in EP : pend'[e] \subseteq pend[e]) /\ Quiet("monitor")
  <1> DEFINE t == "monitor"
  <1>0. t \in Thread /\ th[t] \in ThRec /\ pend \in [EP -> SUBSET Cmd]
    BY DEF Thread, TypeInv, TypeOK
  <1>1. PICK e \in th[t].todo :
          /\ pend' = [pend EXCEPT ![e] = @ \ flushStaleCmds(e)]
          /\ th' = [th EXCEPT ![t].pc = "decide", ![t].ep = e,
                              ![t].todo = @ \ {e}]
    BY Zenon DEF CleanNext
  <1> DEFINE x == [th[t] EXCEPT !.pc = "decide", !.ep = e, !.todo = @ \ {e}]
  <1>2. th' = [th EXCEPT ![t] = x]
    BY <1>1
  <1>3. x.pc = "decide"
    BY <1>0 DEF ThRec
  <1> HIDE DEF x
  <1>4. Quiet(t)
    BY <1>0, <1>2, <1>3, QuietRecord
  <1>5. \A f \in EP : pend'[f] \subseteq pend[f]
    BY <1>0, <1>1
  <1> QED
    BY <1>4, <1>5

(* The control steps of the monitor loop, Poll's submissions apart.        *)
LEMMA QuietMonitor ==
  ASSUME TypeInv, \/ Start \/ CleanEPs \/ CleanDone \/ Decide \/ PollEPs
                  \/ PollAge \/ PollDone
  PROVE  UNCHANGED pend /\ Quiet("monitor")
  <1> DEFINE t == "monitor"
  <1>0. t \in Thread /\ th[t] \in ThRec
    BY DEF Thread, TypeInv, TypeOK
  <1>1. UNCHANGED pend
    BY DEF Start, CleanEPs, CleanDone, Decide, PollEPs, PollAge, PollDone, epVars
  <1>2. CASE CleanEPs \/ PollEPs
    <2>1. PICK p \in {"cleanNext", "pollNext"} :
             th' = [th EXCEPT ![t].pc = p, ![t].todo = InMap]
      BY <1>2 DEF CleanEPs, PollEPs
    <2> DEFINE x == [th[t] EXCEPT !.pc = p, !.todo = InMap]
    <2>2. x.pc = p
      BY <1>0 DEF ThRec
    <2>3. th' = [th EXCEPT ![t] = x]
      BY <2>1
    <2> HIDE DEF x
    <2> QED
      BY <1>0, <1>1, <2>2, <2>3, QuietRecord
  <1>3. CASE Start \/ CleanDone \/ Decide \/ PollAge \/ PollDone
    <2>1. /\ {"sleep", "pollLock", "pollNext", "cleanNext"}
               \subseteq PC \ {"addCmd", "retry"}
          /\ {"down", "removing"} \subseteq Epstate
          /\ {"cleanNext", "pollNext"} \subseteq RetPC
      BY DEF PC, Epstate, RetPC
    <2>2. \/ \E p \in {"sleep", "pollLock", "pollNext", "cleanNext"} :
                Goto(t, p) \/ Done(t, p)
          \/ \E s \in {"down", "removing"}, r \in {"cleanNext", "pollNext"} :
                CallChangeState(t, s, r)
      BY <1>3 DEF Start, CleanDone, Decide, PollAge, PollDone
    <2> QED
      BY <1>0, <1>1, <2>1, <2>2, QuietMoves
  <1> QED
    BY <1>2, <1>3

(* AddEp never submits a command.                                          *)
LEMMA QuietAddEp ==
  ASSUME TypeInv, NEW t \in Thread, AddEp(t) \/ AddEpTest(t)
  PROVE  UNCHANGED pend /\ (UNCHANGED th \/ Quiet(t))
  <1>1. UNCHANGED pend
    BY DEF AddEp, AddEpKnown, AddEpNew, AddEpTest, epVars
  <1>2. Home(t) \in PC \ {"addCmd", "retry"}
    BY DEF Home, PC
  <1>3. CASE AddEpKnown(t) \/ AddEpTest(t)
    BY <1>1, <1>2, <1>3, KnownThread DEF Looked, Quiet
  <1>4. CASE AddEpNew(t)
    BY <1>1, <1>2, <1>4, QuietMoves DEF AddEpNew, Die
  <1> QED
    BY <1>3, <1>4 DEF AddEp

(* An lsof scan submits no command.                                        *)
LEMMA QuietScan ==
  ASSUME TypeInv, LookoutLsof \/ ScanNext \/ ScanMiss
  PROVE  UNCHANGED pend /\ (UNCHANGED th \/ \E t \in Thread : Quiet(t))
  <1>0. {"lsof", "inotify"} \subseteq Thread /\ th["lsof"] \in ThRec
    BY DEF Thread, TypeInv, TypeOK
  <1>1. th["lsof"].todo \subseteq EP
    BY <1>0 DEF ThRec
  <1>2. CASE ScanNext
    <2>1. PICK e \in EP : th' = [th EXCEPT !["lsof"].pc = "addEp",
                                 !["lsof"].ep = e, !["lsof"].todo = @ \ {e}]
      BY <1>1, <1>2 DEF ScanNext
    <2> DEFINE x == [th["lsof"] EXCEPT !.pc = "addEp", !.ep = e,
                                       !.todo = @ \ {e}]
    <2>2. x.pc = "addEp"
      BY <1>0 DEF ThRec
    <2>3. th' = [th EXCEPT !["lsof"] = x]
      BY <2>1
    <2> HIDE DEF x
    <2> QED
      BY <1>0, <1>2, <2>2, <2>3, QuietRecord DEF ScanNext, epVars
  <1>4. CASE ScanMiss
    <2>1. PICK e \in EP : th' = [th EXCEPT !["lsof"].todo = @ \ {e}]
      BY <1>1, <1>4 DEF ScanMiss
    <2> DEFINE x == [th["lsof"] EXCEPT !.todo = @ \ {e}]
    <2>2. x.pc = "sleep"
      BY <1>0, <1>4 DEF ThRec, ScanMiss, At
    <2>3. th' = [th EXCEPT !["lsof"] = x]
      BY <2>1
    <2> HIDE DEF x
    <2> QED
      BY <1>0, <1>4, <2>2, <2>3, QuietRecord DEF ScanMiss, epVars
  <1>5. CASE LookoutLsof
    <2> DEFINE x == [th["lsof"] EXCEPT !.pc = "sleep",
                                       !.todo = {e \in EP : Visible(e)}]
    <2>1. x.pc = "sleep"
      BY <1>0 DEF ThRec
    <2>2. th' = [th EXCEPT !["lsof"] = x]
      BY <1>5 DEF LookoutLsof
    <2> HIDE DEF x
    <2> QED
      BY <1>0, <1>5, <2>1, <2>2, QuietRecord DEF LookoutLsof
  <1> QED
    BY <1>2, <1>4, <1>5

(* The inotify goroutine outside submit: Complete takes commands away.     *)
LEMMA QuietInotify ==
  ASSUME TypeInv, ProcessEvent \/ Complete \/ Revive \/ Apply
  PROVE  /\ \A e \in EP : pend'[e] \subseteq pend[e]
         /\ UNCHANGED th \/ Quiet("inotify")
  <1> DEFINE t == "inotify"
  <1>0. t \in Thread /\ th[t] \in ThRec /\ pend \in [EP -> SUBSET Cmd]
    BY DEF Thread, TypeInv, TypeOK
  <1>1. \A e \in EP : pend'[e] \subseteq pend[e]
    BY <1>0 DEF ProcessEvent, Complete, removeCmd, Revive, Apply, epVars
  <1>2. /\ {"read", "apply"} \subseteq PC \ {"addCmd", "retry"}
        /\ {"running", "identified"} \subseteq Epstate
        /\ {"apply", "read", "query"} \subseteq RetPC
    BY DEF PC, Epstate, RetPC
  <1>3. CASE ProcessEvent
    <2> DEFINE f == IF Head(evq).type = "create" THEN Head(evq).ep
                    ELSE wmap[Head(evq).wd]
               x == [th[t] EXCEPT !.pc = "addEp", !.ep = f]
               y == [th[t] EXCEPT !.pc = "complete", !.ep = f,
                                  !.cmd = Head(evq).cmd]
    <2> HIDE DEF f
    <2>1. x.pc = "addEp" /\ y.pc = "complete"
      BY <1>0 DEF ThRec
    <2>2. \/ th' = [th EXCEPT ![t].pc = "addEp", ![t].ep = f]
          \/ th' = [th EXCEPT ![t].pc = "complete", ![t].ep = f,
                              ![t].cmd = Head(evq).cmd]
          \/ UNCHANGED th
      BY <1>3 DEF ProcessEvent, f
    <2>3. \/ th' = [th EXCEPT ![t] = x] \/ th' = [th EXCEPT ![t] = y]
          \/ UNCHANGED th
      BY <2>2
    <2> HIDE DEF x, y
    <2> QED
      BY <1>0, <1>1, <2>1, <2>3, QuietRecord
  <1>4. CASE Complete
    <2> DEFINE c == th[t].cmd
               x == [th[t] EXCEPT !.pc = "revive", !.op = cmd[c].op,
                                  !.out = cmd[c].file, !.cmd = NoCmd]
    <2>1. x.pc = "revive"
      BY <1>0 DEF ThRec
    <2>2. Done(t, "read") \/ th' = [th EXCEPT ![t] = x]
      BY <1>4 DEF Complete
    <2> HIDE DEF x
    <2> QED
      BY <1>0, <1>1, <1>2, <2>1, <2>2, QuietRecord, QuietMoves
  <1>5. CASE Revive \/ Apply
    <2>1. \/ UNCHANGED th \/ Done(t, "read") \/ Goto(t, "apply")
          \/ \E s \in {"running", "identified"}, r \in {"apply", "read", "query"} :
               CallChangeState(t, s, r)
      BY <1>5 DEF Revive, Apply, Die, CallChangeState
    <2> QED
      BY <1>0, <1>1, <1>2, <2>1, QuietMoves
  <1> QED
    BY <1>3, <1>4, <1>5

(* The environment and the runtime's throw move no thread and no command.  *)
LEMMA QuietWorld ==
  ASSUME ConcurrentMapWrite \/ Environment
  PROVE  UNCHANGED <<th, pend>>
  BY DEF ConcurrentMapWrite, Environment, Die, Tick, AppAnswer, AppAnswersAgain,
         ProcStart, ProcStop, MakeRoot, MakeOutput, Touch, RemoveDir, epVars

-----------------------------------------------------------------------------
(* The two steps that matter: passing mayQueueCmd, and addCmd.             *)

(* A thread that passes mayQueueCmd has seen pendingCmds empty.            *)
LEMMA PendMayQueue ==
  ASSUME TypeInv, PendInv, NEW t \in {"monitor", "inotify"}, NEW e \in EP,
         NEW o \in EPcmdType \cup {"none"}, NEW r \in {"pollNext", "pollAge", "read"},
         MayQueue(t, e, o, r), UNCHANGED pend
  PROVE  PendInv'
  <1>0. t \in Thread /\ th \in [Thread -> ThRec]
    BY DEF Thread, TypeInv, TypeOK
  <1>1. Others(t) /\ (th'[t].pc = "addCmd" => pend[e] = {} /\ th'[t].ep = e)
    BY <1>0, MayQueueThread DEF mayQueueCmd
  <1>2. th'["lsof"].pc \notin {"addCmd", "retry"}
    BY <1>1 DEF Others, Thread, PendInv
  <1>3. ASSUME NEW f \in EP, NEW u \in {"monitor", "inotify"}, Queuing(u, f)'
        PROVE  pend[f] = {} \/ (u # t /\ Queuing(u, f))
    BY <1>1, <1>3 DEF Others, Thread, Queuing
  <1>4. ASSUME NEW f \in EP
        PROVE  /\ Queuing("monitor", f)' /\ Queuing("inotify", f)'
                    => pend'[f] = {}
               /\ Queuing("monitor", f)' \/ Queuing("inotify", f)'
                    => AtMostOne(pend'[f])
               /\ AtMostTwo(pend'[f])
    <2>1. /\ Queuing("monitor", f) \/ Queuing("inotify", f) => AtMostOne(pend[f])
          /\ AtMostTwo(pend[f])
      BY DEF PendInv
    <2>2. pend[f] = {} => AtMostOne(pend[f])
      BY DEF AtMostOne
    <2>3. pend'[f] = pend[f]
      OBVIOUS
    <2> QED
      BY <1>3, <2>1, <2>2, <2>3
  <1> QED
    BY <1>2, <1>4 DEF PendInv, AtMostOne, AtMostTwo

(* addCmd uses up the room that its thread was granted.                    *)
LEMMA PendSubmit ==
  ASSUME TypeInv, PendInv, NEW t \in {"monitor", "inotify"}, Submit(t)
  PROVE  PendInv'
  <1> DEFINE e == Cur(t)
  <1>0. /\ t \in Thread /\ th \in [Thread -> ThRec] /\ th[t] \in ThRec
        /\ e \in EP /\ Queuing(t, e) /\ pend \in [EP -> SUBSET Cmd]
    BY DEF Thread, TypeInv, TypeOK, Submit, At, Cur, Queuing, ThreadOK,
           LocalsOK, EpPC
  <1>1. PICK c \in Cmd :
          /\ pend' = [pend EXCEPT ![e] = @ \cup {c}]
          /\ \/ Return(t)
             \/ th' = [th EXCEPT ![t].pc = "retry",
                           ![t].op = GetAppDetectInfo(ep[e].app, TRUE)]
    BY DEF Submit
  <1>2. Others(t) /\ th'[t].pc # "addCmd"
    <2>1. CASE Return(t)
      BY <1>0, <2>1, QuietMoves DEF Quiet
    <2>2. CASE th' = [th EXCEPT ![t].pc = "retry",
                           ![t].op = GetAppDetectInfo(ep[e].app, TRUE)]
      <3> DEFINE o == GetAppDetectInfo(ep[e].app, TRUE)
                 x == [th[t] EXCEPT !.pc = "retry", !.op = o]
      <3> HIDE DEF o
      <3>1. x.pc = "retry"
        BY <1>0 DEF ThRec
      <3>2. th' = [th EXCEPT ![t] = x]
        BY <2>2 DEF o
      <3> HIDE DEF x
      <3> QED
        BY <1>0, <3>1, <3>2 DEF Others
    <2> QED
      BY <1>1, <2>1, <2>2
  <1>3. th'["lsof"].pc \notin {"addCmd", "retry"}
    BY <1>2 DEF Others, Thread, PendInv
  <1>4. ASSUME NEW f \in EP, NEW u \in {"monitor", "inotify"}, Queuing(u, f)'
        PROVE  u # t /\ Queuing(u, f)
    BY <1>2, <1>4 DEF Others, Thread, Queuing
  <1>5. ASSUME NEW f \in EP
        PROVE  /\ Queuing("monitor", f)' /\ Queuing("inotify", f)'
                    => pend'[f] = {}
               /\ Queuing("monitor", f)' \/ Queuing("inotify", f)'
                    => AtMostOne(pend'[f])
               /\ AtMostTwo(pend'[f])
    <2>1. /\ Queuing("monitor", f) /\ Queuing("inotify", f) => pend[f] = {}
          /\ Queuing("monitor", f) \/ Queuing("inotify", f)
               => AtMostOne(pend[f])
          /\ AtMostTwo(pend[f])
      BY DEF PendInv
    <2>2. ~(Queuing("monitor", f)' /\ Queuing("inotify", f)')
      BY <1>4
    <2>3. CASE f # e
      <3>1. pend'[f] = pend[f]
        BY <1>0, <1>1, <2>3
      <3> QED
        BY <1>4, <2>1, <2>2, <3>1
    <2>4. CASE f = e
      <3>1. pend'[f] = pend[f] \cup {c}
        BY <1>0, <1>1, <2>4
      <3>2. AtMostOne(pend[f])
        BY <1>0, <2>1, <2>4
      <3>3. AtMostTwo(pend'[f])
        BY <3>1, <3>2 DEF AtMostOne, AtMostTwo
      <3>4. Queuing("monitor", f)' \/ Queuing("inotify", f)'
              => AtMostOne(pend'[f])
        <4>1. Queuing("monitor", f)' \/ Queuing("inotify", f)' => pend[f] = {}
          BY <1>0, <1>4, <2>1, <2>4
        <4> QED
          BY <3>1, <4>1 DEF AtMostOne
      <3> QED
        BY <2>2, <3>3, <3>4
    <2> QED
      BY <2>3, <2>4
  <1> QED
    BY <1>3, <1>5 DEF PendInv, AtMostOne, AtMostTwo

(* Poll, and queryApp with its second attempt.                             *)
LEMMA PendQuery ==
  ASSUME TypeInv, PendInv,
         \/ PollNext \/ QueryApp \/ Retry("monitor") \/ Retry("inotify")
  PROVE  PendInv'
  <1>0. /\ {"monitor", "inotify"} \subseteq Thread
        /\ th \in [Thread -> ThRec]
    BY DEF Thread, TypeInv, TypeOK
  <1>1. UNCHANGED pend
    BY DEF PollNext, QueryApp, Retry, epVars
  <1>2. ASSUME NEW t \in {"monitor", "inotify"}, Retry(t) PROVE PendInv'
    <2>1. /\ Cur(t) \in EP /\ th[t].op \in EPcmdType \cup {"none"}
          /\ th[t].ret \in {"pollNext", "pollAge", "read"}
      BY <1>0, <1>2 DEF Retry, At, TypeInv, TypeOK, ThreadOK, LocalsOK, ThRec,
                        EpPC, Cur
    <2> QED
      BY <1>1, <1>2, <2>1, PendMayQueue DEF Retry
  <1>3. CASE QueryApp
    <2>1. Cur("inotify") \in EP
      BY <1>0, <1>3 DEF QueryApp, At, TypeInv, ThreadOK, LocalsOK, EpPC, Cur
    <2>2. GetAppDetectInfo(ep[Cur("inotify")].app, FALSE) \in EPcmdType
      BY <2>1, DetectInfoType DEF TypeInv, TypeOK, EpRec
    <2> QED
      BY <1>1, <1>3, <2>1, <2>2, PendMayQueue DEF QueryApp
  <1>4. CASE PollNext
    <2> DEFINE t == "monitor"
    <2>1. PICK e \in th[t].todo :
             IF PollSubmits(ep[e])
             THEN MayQueue(t, e, PollOp(ep[e]), AfterPoll(ep[e]))
             ELSE th' = [th EXCEPT ![t].todo = @ \ {e}]
      BY <1>4 DEF PollNext
    <2>2. e \in EP /\ ep[e].app \in App /\ th[t] \in ThRec
      BY <1>0 DEF ThRec, TypeInv, TypeOK, EpRec
    <2>3. CASE PollSubmits(ep[e])
      <3>1. /\ PollOp(ep[e]) \in EPcmdType
            /\ AfterPoll(ep[e]) \in {"pollNext", "pollAge", "read"}
        BY <2>2, DetectInfoType DEF PollOp, AfterPoll, EPcmdType
      <3> QED
        BY <1>1, <2>1, <2>2, <2>3, <3>1, PendMayQueue
    <2>4. CASE ~PollSubmits(ep[e])
      <3> DEFINE x == [th[t] EXCEPT !.todo = @ \ {e}]
      <3>1. x.pc = "pollNext"
        BY <1>4, <2>2 DEF ThRec, PollNext, At
      <3>2. th' = [th EXCEPT ![t] = x]
        BY <2>1, <2>4
      <3> HIDE DEF x
      <3>3. Quiet(t)
        BY <1>0, <3>1, <3>2, QuietRecord
      <3> QED
        BY <1>0, <1>1, <3>3, PendShrinks
    <2> QED
      BY <2>3, <2>4
  <1> QED
    BY <1>2, <1>3, <1>4

(* Every step keeps PendInv: one case per group of actions; only Poll,     *)
(* queryApp and submit are not quiet.                                      *)
LEMMA NextPend == TypeInv /\ PendInv /\ [Next]_vars => PendInv'
  <1> SUFFICES ASSUME TypeInv, PendInv, [Next]_vars PROVE PendInv'
    OBVIOUS
  <1>0. {"monitor", "lsof", "inotify"} \subseteq Thread
    BY DEF Thread
  <1>1. CASE UNCHANGED <<th, pend>>
    BY <1>1, PendShrinks
  <1>2. CASE PollNext \/ QueryApp \/ Retry("monitor") \/ Retry("inotify")
    BY <1>2, PendQuery
  <1>3. CASE Submit("monitor") \/ Submit("inotify")
    BY <1>3, PendSubmit
  <1>4. ASSUME NEW t \in Thread,
               \/ ChangeStateStep(t) \/ EpWatchAdd(t) \/ EpWatchRemove(t)
               \/ Unlock(t)
        PROVE  PendInv'
    BY <1>4, QuietChangeState, PendShrinks
  <1>5. CASE \/ Start \/ CleanEPs \/ CleanDone \/ Decide \/ PollEPs
             \/ PollAge \/ PollDone
    BY <1>0, <1>5, QuietMonitor, PendShrinks
  <1>6. CASE CleanNext
    BY <1>0, <1>6, QuietClean, PendShrinks
  <1>7. CASE LookoutLsof \/ ScanNext \/ ScanMiss
    BY <1>7, QuietScan, PendShrinks
  <1>13. ASSUME NEW t \in Thread, AddEp(t) \/ AddEpTest(t) PROVE PendInv'
    BY <1>13, QuietAddEp, PendShrinks
  <1>8. CASE ProcessEvent \/ Complete \/ Revive \/ Apply
    BY <1>0, <1>8, QuietInotify, PendShrinks
  <1>9. CASE ConcurrentMapWrite \/ Environment \/ UNCHANGED vars
    BY <1>1, <1>9, QuietWorld DEF vars
  <1>10. CASE Monitor
    BY <1>0, <1>2, <1>3, <1>4, <1>5, <1>6, <1>10 DEF Monitor, SubmitStep
  <1>11. CASE Lsof
    BY <1>0, <1>4, <1>7, <1>11, <1>13 DEF Lsof
  <1>12. CASE Inotify
    BY <1>0, <1>2, <1>3, <1>4, <1>8, <1>12, <1>13 DEF Inotify, SubmitStep
  <1> QED
    BY <1>9, <1>10, <1>11, <1>12 DEF Next, Halted

(* A set of at most two elements, as PendInv states it, has cardinality at *)
(* most two.                                                               *)
LEMMA TwoElements ==
  ASSUME NEW S, AtMostTwo(S)
  PROVE  Cardinality(S) <= 2
  <1>1. PICK c, d : S \subseteq {c, d}
    BY DEF AtMostTwo
  <1>2. IsFiniteSet({d}) /\ Cardinality({d}) = 1
    BY FS_Singleton
  <1>3. IsFiniteSet({d} \cup {c}) /\ Cardinality({d} \cup {c}) <= 2
    <2>1. /\ IsFiniteSet({d} \cup {c})
          /\ Cardinality({d} \cup {c}) =
               IF c \in {d} THEN Cardinality({d}) ELSE Cardinality({d}) + 1
      BY <1>2, FS_AddElement
    <2> QED
      BY <1>2, <2>1
  <1>4. {d} \cup {c} = {c, d}
    OBVIOUS
  <1>5. IsFiniteSet(S) /\ Cardinality(S) <= Cardinality({c, d})
    BY <1>1, <1>3, <1>4, FS_Subset
  <1>6. Cardinality(S) \in Nat /\ Cardinality({c, d}) \in Nat
    BY <1>3, <1>4, <1>5, FS_CardinalityType
  <1> QED
    BY <1>3, <1>4, <1>5, <1>6

(* However the monitor and the inotify goroutine interleave between        *)
(* mayQueueCmd and addCmd, no endpoint ever has more than two pending      *)
(* commands: for any number of endpoints, any kinds, timeouts and faults.  *)
THEOREM PendingIsBounded == Spec => []PendingBounded
  <1>1. Init => PendInv
    <2> SUFFICES ASSUME Init PROVE PendInv
      OBVIOUS
    <2>1. \A t \in Thread : th[t].pc \in {"boot", "read"}
      BY DEF Init, Idle, Thread
    <2>2. \A e \in EP : pend[e] = {}
      BY DEF Init
    <2> QED
      BY <2>1, <2>2 DEF PendInv, Queuing, AtMostOne, AtMostTwo, Thread
  <1>2. PendInv => PendingBounded
    BY TwoElements DEF PendInv, PendingBounded
  <1> QED
    BY <1>1, <1>2, NextPend, TypeInvariant, PTL DEF Spec

-----------------------------------------------------------------------------
(* Complete acts on live commands only.                                    *)

(* Steps that touch neither pendingCmds nor a command.                     *)
LEMMA LiveFrame ==
  ASSUME TypeInv, Next,
         ~ \/ CleanNext \/ Complete \/ Submit("monitor") \/ Submit("inotify")
           \/ Tick \/ (\E c \in Cmd : AppAnswer(c)) \/ \E e \in EP : RemoveDir(e)
  PROVE  UNCHANGED <<pend, cmd>>
  <1>1. ASSUME NEW t \in Thread,
               \/ ChangeStateStep(t) \/ EpWatchAdd(t) \/ EpWatchRemove(t)
               \/ Unlock(t) \/ Retry(t)
        PROVE  UNCHANGED <<pend, cmd>>
    BY <1>1 DEF ChangeStateStep, ChangeState, SetWatched, SetState, SetSeen,
                EpWatchAdd, EpWatchRemove, Unlock, Retry, epVars
  <1>2. ASSUME NEW t, AddEp(t) \/ AddEpTest(t) PROVE UNCHANGED <<pend, cmd>>
    BY <1>2 DEF AddEp, AddEpKnown, AddEpNew, AddEpTest, epVars
  <1>3. CASE Monitor
    BY <1>1, <1>3 DEF Monitor, SubmitStep, Thread, Start, CleanEPs, CleanDone,
                Decide, PollEPs, PollNext, PollAge, PollDone, epVars
  <1>4. CASE Lsof
    BY <1>1, <1>2, <1>4 DEF Lsof, Thread, LookoutLsof, ScanNext, ScanMiss, epVars
  <1>5. CASE Inotify
    BY <1>1, <1>2, <1>5 DEF Inotify, SubmitStep, Thread, ProcessEvent, Revive,
                Apply, QueryApp, epVars
  <1>6. CASE ConcurrentMapWrite \/ Environment \/ Halted
    BY <1>6 DEF ConcurrentMapWrite, Environment, Halted, vars, AppAnswersAgain,
                ProcStart, ProcStop, MakeRoot, MakeOutput, Touch, epVars
  <1> QED
    BY <1>3, <1>4, <1>5, <1>6 DEF Next

(* submit enters a uuid that no endpoint awaits.                           *)
LEMMA LiveSubmit ==
  ASSUME TypeInv, LiveInv, NEW t \in Thread, Submit(t)
  PROVE  LiveInv'
  <1> DEFINE e == Cur(t)
  <1>0. e \in EP /\ pend \in [EP -> SUBSET Cmd] /\ cmd \in [Cmd -> CmdRec]
    BY DEF TypeInv, TypeOK, Submit, At, Cur, ThreadOK, LocalsOK, EpPC
  <1>1. PICK c \in Cmd, written \in BOOLEAN :
          /\ Unused(c)
          /\ pend' = [pend EXCEPT ![e] = @ \cup {c}]
          /\ cmd' = [cmd EXCEPT ![c] =
               [ep |-> e, op |-> th[t].op, age |-> 0, live |-> TRUE,
                file |-> IF written THEN "in" ELSE "none"]]
    BY DEF Submit
  <1>2. \A f \in EP : c \notin pend[f]
    BY <1>1 DEF Unused
  <1>3. cmd'[c].live /\ cmd'[c].ep = e
    BY <1>0, <1>1
  <1>4. \A d \in Cmd : d # c => cmd'[d] = cmd[d]
    BY <1>0, <1>1
  <1>5. \A f \in EP : pend'[f] = IF f = e THEN pend[f] \cup {c} ELSE pend[f]
    BY <1>0, <1>1
  <1>6. ASSUME NEW f \in EP, NEW d \in pend'[f]
        PROVE  cmd'[d].live /\ cmd'[d].ep = f
    <2>1. CASE d = c
      BY <1>2, <1>3, <1>5, <1>6, <2>1
    <2>2. CASE d # c
      <3>1. d \in pend[f]
        BY <1>5, <1>6, <2>2
      <3>2. d \in Cmd
        BY <1>0, <1>6, <3>1
      <3> QED
        BY <1>4, <1>6, <2>2, <3>1, <3>2 DEF LiveInv
    <2> QED
      BY <2>1, <2>2
  <1> QED
    BY <1>6 DEF LiveInv

(* CleanEPs forgets exactly the commands it takes out of pendingCmds, and  *)
(* files of commands that no endpoint awaits.                              *)
LEMMA LiveClean ==
  ASSUME TypeInv, LiveInv, CleanNext
  PROVE  LiveInv'
  <1> DEFINE t == "monitor"
  <1>0. /\ th[t] \in ThRec
        /\ pend \in [EP -> SUBSET Cmd] /\ cmd \in [Cmd -> CmdRec]
    BY DEF TypeInv, TypeOK, Thread
  <1>1. PICK e \in th[t].todo, gone \in SUBSET Cmd :
          /\ pend' = [pend EXCEPT ![e] = @ \ flushStaleCmds(e)]
          /\ cmd' = [c \in Cmd |->
               IF c \in flushStaleCmds(e) \/ (c \in gone /\ ~cmd[c].live)
               THEN Forget([cmd[c] EXCEPT !.file =
                              IF c \in gone THEN "none" ELSE @])
               ELSE [cmd[c] EXCEPT !.file = IF c \in gone THEN "none" ELSE @]]
    BY Zenon DEF CleanNext
  <1>2. e \in EP /\ flushStaleCmds(e) \subseteq pend[e]
    BY <1>0 DEF ThRec, flushStaleCmds
  <1>3. ASSUME NEW f \in EP, NEW c \in pend'[f]
        PROVE  cmd'[c].live /\ cmd'[c].ep = f
    <2>1. c \in pend[f] /\ c \in Cmd /\ (f = e => c \notin flushStaleCmds(e))
      BY <1>0, <1>1, <1>2
    <2>2. cmd[c].live /\ cmd[c].ep = f /\ cmd[c] \in CmdRec
      BY <1>0, <2>1 DEF LiveInv
    <2>3. c \notin flushStaleCmds(e)
      BY <1>2, <2>1, <2>2 DEF LiveInv
    <2>4. cmd'[c] = [cmd[c] EXCEPT !.file = IF c \in gone THEN "none" ELSE @]
      BY <1>1, <2>1, <2>2, <2>3
    <2> QED
      BY <2>2, <2>4 DEF CmdRec
  <1> QED
    BY <1>3 DEF LiveInv

(* Complete gives up the record of the command that removeCmd handed out.  *)
LEMMA LiveComplete ==
  ASSUME TypeInv, LiveInv, Complete
  PROVE  LiveInv'
  <1> DEFINE e == Cur("inotify")
             c == th["inotify"].cmd
  <1>0. /\ e \in EP /\ c \in Cmd
        /\ pend \in [EP -> SUBSET Cmd] /\ cmd \in [Cmd -> CmdRec]
    BY DEF TypeInv, TypeOK, Complete, At, Cur, ThreadOK, LocalsOK, EpPC, Thread
  <1>1. /\ pend' = [pend EXCEPT ![e] = @ \ {c}]
        /\ cmd' = IF c \in pend[e] THEN [cmd EXCEPT ![c] = NoCommand] ELSE cmd
    BY DEF Complete, removeCmd
  <1>2. ASSUME NEW f \in EP, NEW d \in pend'[f]
        PROVE  cmd'[d].live /\ cmd'[d].ep = f
    <2>1. d \in pend[f] /\ d \in Cmd /\ (f = e => d # c)
      BY <1>0, <1>1
    <2>2. cmd[d].live /\ cmd[d].ep = f
      BY <2>1 DEF LiveInv
    <2>3. c \in pend[e] => d # c
      BY <1>0, <2>1, <2>2 DEF LiveInv
    <2>4. cmd'[d] = cmd[d]
      BY <1>0, <1>1, <2>1, <2>3
    <2> QED
      BY <2>2, <2>4
  <1> QED
    BY <1>2 DEF LiveInv

(* Time, answers and removed directories change a command's age and file.  *)
LEMMA LiveWorld ==
  ASSUME TypeInv, LiveInv,
         \/ Tick \/ (\E c \in Cmd : AppAnswer(c)) \/ \E e \in EP : RemoveDir(e)
  PROVE  LiveInv'
  <1>0. pend \in [EP -> SUBSET Cmd] /\ cmd \in [Cmd -> CmdRec]
    BY DEF TypeInv, TypeOK
  <1>1. UNCHANGED pend
    BY DEF Tick, AppAnswer, RemoveDir
  <1>2. ASSUME NEW d \in Cmd, cmd[d].live
        PROVE  cmd'[d].live /\ cmd'[d].ep = cmd[d].ep
    <2>0. cmd[d] \in CmdRec
      BY <1>0
    <2>1. CASE Tick
      <3>1. \/ cmd'[d] = cmd[d]
            \/ cmd'[d] = [cmd[d] EXCEPT !.age = Older(@, TTL + 1)]
        BY <2>1 DEF Tick
      <3> QED
        BY <1>2, <2>0, <3>1 DEF CmdRec
    <2>2. ASSUME NEW c \in Cmd, AppAnswer(c)
          PROVE  cmd'[d].live /\ cmd'[d].ep = cmd[d].ep
      <3>1. PICK a \in Answer :
              cmd' = [cmd EXCEPT ![c] = IF @.live THEN [@ EXCEPT !.file = a]
                                                  ELSE NoCommand]
        BY <2>2 DEF AppAnswer
      <3>2. cmd'[d] = cmd[d] \/ cmd'[d] = [cmd[d] EXCEPT !.file = a]
        BY <1>0, <1>2, <3>1
      <3> QED
        BY <1>2, <2>0, <3>2 DEF CmdRec
    <2>3. ASSUME NEW e \in EP, RemoveDir(e)
          PROVE  cmd'[d].live /\ cmd'[d].ep = cmd[d].ep
      <3>1. cmd'[d] = cmd[d] \/ cmd'[d] = [cmd[d] EXCEPT !.file = "none"]
        BY <2>3 DEF RemoveDir
      <3> QED
        BY <1>2, <2>0, <3>1 DEF CmdRec
    <2> QED
      BY <2>1, <2>2, <2>3
  <1> QED
    BY <1>0, <1>1, <1>2 DEF LiveInv

(* Every step keeps LiveInv: only submit, CleanEPs, Complete, time,        *)
(* answers and removed directories touch commands.                         *)
LEMMA NextLive == TypeInv /\ LiveInv /\ [Next]_vars => LiveInv'
  <1> SUFFICES ASSUME TypeInv, LiveInv, [Next]_vars PROVE LiveInv'
    OBVIOUS
  <1>1. CASE UNCHANGED <<pend, cmd>>
    BY <1>1 DEF LiveInv
  <1>2. CASE Submit("monitor") \/ Submit("inotify")
    BY <1>2, LiveSubmit DEF Thread
  <1>3. CASE CleanNext
    BY <1>3, LiveClean
  <1>4. CASE Complete
    BY <1>4, LiveComplete
  <1>5. CASE \/ Tick \/ (\E c \in Cmd : AppAnswer(c))
             \/ \E e \in EP : RemoveDir(e)
    BY <1>5, LiveWorld
  <1>6. CASE UNCHANGED vars
    BY <1>1, <1>6 DEF vars
  <1> QED
    BY <1>1, <1>2, <1>3, <1>4, <1>5, <1>6, LiveFrame

(* An answer is acted on only while its command is awaited: not twice, and *)
(* not after CleanEPs has flushed the command, whatever the order in which *)
(* answers, duplicates and flushes come.                                   *)
THEOREM AnswersActedOnOnce == Spec => []AnsweredOnce
  <1>1. Init => LiveInv
    BY DEF Init, LiveInv
  <1>2. TypeInv /\ LiveInv => AnsweredOnce
    BY DEF TypeInv, ThreadOK, LocalsOK, LiveInv, AnsweredOnce, At, Cur, EpPC,
           Thread
  <1> QED
    BY <1>1, <1>2, NextLive, TypeInvariant, PTL DEF Spec

-----------------------------------------------------------------------------
(* The endpoints.  LsofGenIsStale is read in one step and State is written *)
(* several steps later, with scans in between: the invariant says how far  *)
(* up and lag can be apart meanwhile.                                      *)

(* The monitor has decided to remove e and has not written State yet.      *)
Removes(e) ==
  /\ th["monitor"].pc \in ChangePC
  /\ th["monitor"].tgt = "removing" /\ th["monitor"].ep = e

(* The scan under way has found e, and its AddEp has not begun yet.        *)
Awaited(e) ==
  \/ e \in th["lsof"].todo
  \/ th["lsof"].pc = "addEp" /\ th["lsof"].ep = e

(* e is there since a scan began; that scan, or one before, has refreshed  *)
(* it; so two scans leave it at most one generation behind; and the        *)
(* monitor holds epc.mutex from LsofGenIsStale to the assignment of State, *)
(* which keeps a scan from getting past e, and the next from beginning.    *)
RemovalInvOf(e) ==
  /\ up[e] > 0 => Visible(e)
  /\ up[e] > 0 /\ ~Awaited(e) => ep[e].lag = 0
  /\ up[e] = 2 => ep[e].lag <= 1
  /\ Removes(e) => up[e] = 0 \/ (up[e] = 1 /\ Awaited(e))

RemovalInv == \A e \in EP : RemovalInvOf(e)

-----------------------------------------------------------------------------
(* Only the test of LsofGenIsStale makes the monitor remove an endpoint.   *)
LEMMA RemovesKept ==
  ASSUME TypeInv, ControlInv, Monitor, ~Decide, NEW e \in EP, Removes(e)'
  PROVE  Removes(e)
  <1> DEFINE t == "monitor"
  <1>1. /\ th \in [Thread -> ThRec] /\ t \in Thread /\ th[t] \in ThRec
        /\ Ctl(t, th[t], lock)
    BY DEF TypeInv, TypeOK, Thread, ControlInv, ThreadCtl
  <1>2. /\ th'[t].pc \in ChangePC /\ th'[t].tgt = "removing"
        /\ th'[t].ep = e
    BY DEF Removes
  <1>3. CASE Start \/ CleanEPs \/ CleanNext \/ PollEPs
    <2>1. th'[t].pc \in {"sleep", "cleanNext", "decide", "pollNext"}
      <3>1. CASE Start
        BY <1>1, <3>1, GotoThread DEF Start, PC
      <3>2. CASE CleanEPs
        BY <1>1, <3>2 DEF CleanEPs, ThRec
      <3>3. CASE CleanNext
        <4>1. PICK f \in th[t].todo :
                th' = [th EXCEPT ![t].pc = "decide", ![t].ep = f,
                                 ![t].todo = @ \ {f}]
          BY <3>3 DEF CleanNext
        <4> QED
          BY <1>1, <4>1 DEF ThRec
      <3>4. CASE PollEPs
        BY <1>1, <3>4 DEF PollEPs, ThRec
      <3> QED
        BY <1>3, <3>1, <3>2, <3>3, <3>4
    <2> QED
      BY <1>2, <2>1 DEF ChangePC
  <1>4. CASE CleanDone \/ PollDone
    <2>1. Done(t, "pollLock") \/ Done(t, "sleep")
      BY <1>4 DEF CleanDone, PollDone
    <2>2. th'[t].pc \in {"pollLock", "sleep"}
      BY <1>1, <2>1, DoneThread DEF PC
    <2> QED
      BY <1>2, <2>2 DEF ChangePC
  <1>5. CASE PollAge
    <2>1. \/ CallChangeState(t, "down", "pollNext")
          \/ Done(t, "pollNext")
      BY <1>5 DEF PollAge
    <2>2. "down" \in Epstate /\ "pollNext" \in RetPC /\ "pollNext" \in PC
      BY DEF Epstate, RetPC, PC
    <2>3. th'[t].tgt = "down" \/ th'[t].pc = "pollNext"
      BY <1>1, <2>1, <2>2, CallThread, DoneThread
    <2> QED
      BY <1>2, <2>3 DEF ChangePC
  <1>6. CASE PollNext
    <2>1. th'[t].pc \in {"addCmd", "pollNext", "pollAge"}
      <3>1. th[t].pc = "pollNext"
        BY <1>6 DEF PollNext, At
      <3>2. \/ th' = [th EXCEPT ![t].todo = th'[t].todo]
            \/ \E f, o : MayQueue(t, f, o, "pollNext") \/ MayQueue(t, f, o, "pollAge")
        BY <1>1, <1>6 DEF PollNext, AfterPoll, ThRec
      <3> QED
        BY <1>1, <3>1, <3>2, MayQueuePC DEF ThRec
    <2> QED
      BY <1>2, <2>1 DEF ChangePC
  <1>7. CASE SubmitStep(t)
    BY <1>1, <1>2, <1>7, SubmitPC DEF ChangePC
  <1>8. CASE ChangeStateStep(t) \/ EpWatchRemove(t)
    <2>1. th[t].pc \in ChangePC /\ InChange(th[t]) /\ UNCHANGED lock
      BY <1>1, <1>8
      DEF ChangeStateStep, ChangeState, SetWatched, SetState, SetSeen,
          EpWatchRemove, At, ChangePC, InChange, Ctl, MonitorCtl,
          MonitorHolds
    <2>2. CASE Return(t)
      BY <1>1, <1>2, <2>1, <2>2, ReturnControl
    <2>3. ASSUME NEW p \in PC, Goto(t, p)
          PROVE  th'[t].ep = th[t].ep /\ th'[t].tgt = th[t].tgt
      BY <1>1, <2>3, GotoThread
    <2>4. \/ Return(t) \/ UNCHANGED th
          \/ \E p \in {"setState", "watchAdd", "watchRemove", "setWatched",
                       "setSeen"} : Goto(t, p)
      BY <1>8 DEF ChangeStateStep, ChangeState, SetWatched, SetState, SetSeen,
                  EpWatchRemove, Die
    <2> QED
      BY <1>2, <2>1, <2>2, <2>3, <2>4 DEF Removes, PC
  <1> QED
    BY <1>3, <1>4, <1>5, <1>6, <1>8, <1>7 DEF Monitor

(* What the invariant needs of a step other than Decide and LookoutLsof:   *)
(* it may only reset up, only refresh generations, and the scan only gets  *)
(* past an endpoint it refreshes or finds gone.                            *)
LEMMA RemovalBy ==
  ASSUME TypeInv, RemovalInv, NEW e \in EP,
         up'[e] \in {up[e], 0},
         up'[e] > 0 => (Visible(e) => Visible(e)'),
         ep'[e].lag \in {ep[e].lag, 0},
         Awaited(e) => \/ Awaited(e)' \/ up'[e] = 0
                       \/ ep'[e].lag = 0 /\ ~Removes(e)',
         Removes(e)' => Removes(e)
  PROVE  RemovalInvOf(e)'
  <1>1. up[e] \in 0..2 /\ ep[e].lag \in 0..2
    BY DEF TypeInv, TypeOK, EpRec
  <1>2. RemovalInvOf(e)
    BY DEF RemovalInv
  <1> QED
    BY <1>1, <1>2 DEF RemovalInvOf

-----------------------------------------------------------------------------
(* Generations.                                                            *)

(* The updates of an endpoint that are none of its generation.             *)
LEMMA LagKept ==
  ASSUME ep \in [EP -> EpRec], NEW e \in EP, NEW x,
         \/ ep' = [ep EXCEPT ![e].wid = x]
         \/ ep' = [ep EXCEPT ![e].watched = x]
         \/ ep' = [ep EXCEPT ![e].seen = x]
         \/ ep' = [ep EXCEPT ![e].state = x]
         \/ ep' = [ep EXCEPT ![e].app = x]
  PROVE  \A f \in EP : ep'[f].lag = ep[f].lag
  <1>1. ASSUME NEW r, ep' = [ep EXCEPT ![e] = r], r.lag = ep[e].lag
        PROVE  \A f \in EP : ep'[f].lag = ep[f].lag
    BY <1>1
  <1>2. ep[e] \in EpRec
    OBVIOUS
  <1>3. /\ [ep[e] EXCEPT !.wid = x].lag = ep[e].lag
        /\ [ep[e] EXCEPT !.watched = x].lag = ep[e].lag
        /\ [ep[e] EXCEPT !.seen = x].lag = ep[e].lag
        /\ [ep[e] EXCEPT !.state = x].lag = ep[e].lag
        /\ [ep[e] EXCEPT !.app = x].lag = ep[e].lag
    BY <1>2 DEF EpRec
  <1> QED
    BY <1>1, <1>3

(* AddEp begins while epc.mutex is free: it gives the endpoint it is called *)
(* for the current generation, or dies, and holds up no other.             *)
LEMMA AddEpLag ==
  ASSUME TypeInv, NEW t \in Thread, AddEp(t), NEW f \in EP
  PROVE  /\ lock = "none" /\ UNCHANGED <<up, proc, dir>>
         /\ f # th[t].ep => ep'[f].lag = ep[f].lag
         /\ UNCHANGED <<ep, th>> \/ ep'[th[t].ep].lag = 0
  <1> DEFINE e == th[t].ep
  <1>1. /\ ep \in [EP -> EpRec] /\ e \in EP /\ ep[e] \in EpRec
    BY AddEpThread DEF TypeInv, TypeOK
  <1>2. lock = "none" /\ UNCHANGED <<up, proc, dir>>
    BY DEF AddEp, AddEpKnown, AddEpNew, envVars
  <1>3. CASE AddEpKnown(t)
    <2>1. ep' = [ep EXCEPT ![e] = [ep[e] EXCEPT !.lag = 0]]
      BY <1>3 DEF AddEpKnown, Cur
    <2>2. [ep[e] EXCEPT !.lag = 0].lag = 0
      BY <1>1 DEF EpRec
    <2> QED
      BY <1>1, <1>2, <2>1, <2>2
  <1>4. CASE AddEpNew(t)
    <2>1. CASE UNCHANGED <<ep, th>>
      BY <1>2, <2>1
    <2>2. CASE ~UNCHANGED <<ep, th>>
      <3>1. PICK w : ep' = [ep EXCEPT ![e] = [NewEp EXCEPT !.state = "init",
                                         !.watched = TRUE, !.wid = w]]
        BY <1>4, <2>2 DEF AddEpNew, Die, Cur
      <3> QED
        BY <1>1, <1>2, <3>1 DEF NewEp
    <2> QED
      BY <2>1, <2>2
  <1> QED
    BY <1>3, <1>4 DEF AddEp

(* Within ChangeState, submit and Complete no generation changes, and      *)
(* neither does the scan's list, up or what lsof can see.                  *)
LEMMA StepLag ==
  ASSUME TypeInv, NEW f \in EP,
         \/ \E t \in Thread : \/ ChangeStateStep(t) \/ Unlock(t)
                              \/ SubmitStep(t) /\ t # "lsof"
                              \/ EpWatchAdd(t) \/ EpWatchRemove(t)
         \/ Apply
  PROVE  /\ ep'[f].lag = ep[f].lag /\ UNCHANGED <<up, proc, dir>>
         /\ Awaited(f) => Awaited(f)'
  <1>1. /\ ep \in [EP -> EpRec] /\ th \in [Thread -> ThRec]
        /\ "lsof" \in Thread /\ "inotify" \in Thread
    BY DEF TypeInv, TypeOK, Thread
  <1>2. ASSUME NEW t \in Thread, th[t].pc \in EpPC PROVE Cur(t) \in EP
    BY <1>2 DEF TypeInv, ThreadOK, LocalsOK, Cur
  <1>3. CASE Apply
    <2>1. Cur("inotify") \in EP /\ UNCHANGED <<up, proc, dir>>
      BY <1>1, <1>2, <1>3 DEF Apply, At, EpPC, envVars
    <2>2. Others("inotify")
      BY <1>1, <1>3 DEF Apply, CallChangeState, Done, Die, Others
    <2>3. ep'[f].lag = ep[f].lag
      <3>1. \/ UNCHANGED ep
            \/ ep' = [ep EXCEPT ![Cur("inotify")].seen = 0]
            \/ \E x : ep' = [ep EXCEPT ![Cur("inotify")].app = x]
        BY <1>3 DEF Apply
      <3> QED
        BY <1>1, <2>1, <3>1, LagKept
    <2> QED
      BY <1>1, <2>1, <2>2, <2>3 DEF Awaited, Others
  <1>4. ASSUME NEW t \in Thread,
               \/ ChangeStateStep(t) \/ (SubmitStep(t) /\ t # "lsof")
               \/ Unlock(t) \/ EpWatchAdd(t) \/ EpWatchRemove(t)
        PROVE  ep'[f].lag = ep[f].lag /\ UNCHANGED <<up, proc, dir>>
    <2>1. UNCHANGED <<up, proc, dir>>
      BY <1>4 DEF ChangeStateStep, ChangeState, SetWatched, SetState, SetSeen,
                  SubmitStep, Submit, Retry, Unlock, EpWatchAdd, EpWatchRemove,
                  envVars
    <2>2. Cur(t) \in EP \/ UNCHANGED ep
      BY <1>2, <1>4
      DEF ChangeStateStep, ChangeState, SetWatched, SetState, SetSeen,
          SubmitStep, Submit, Retry, Unlock, EpWatchAdd, EpWatchRemove, At,
          EpPC, epVars
    <2>3. \/ UNCHANGED ep
          \/ \E x : \/ ep' = [ep EXCEPT ![Cur(t)].wid = x]
                    \/ ep' = [ep EXCEPT ![Cur(t)].watched = x]
                    \/ ep' = [ep EXCEPT ![Cur(t)].seen = x]
                    \/ ep' = [ep EXCEPT ![Cur(t)].state = x]
      BY <1>4 DEF ChangeStateStep, ChangeState, SetWatched, SetState, SetSeen,
                  SubmitStep, Submit, Retry, Unlock, EpWatchAdd, EpWatchRemove,
                  epVars
    <2> QED
      BY <1>1, <2>1, <2>2, <2>3, LagKept
  <1>5. ASSUME NEW t \in Thread,
               \/ ChangeStateStep(t) \/ (SubmitStep(t) /\ t # "lsof")
               \/ Unlock(t) \/ EpWatchAdd(t) \/ EpWatchRemove(t)
        PROVE  Awaited(f) => Awaited(f)'
    <2>0. th[t].pc # "addEp"
      BY <1>5 DEF ChangeStateStep, ChangeState, SetWatched, SetState, SetSeen,
                  SubmitStep, Submit, Retry, Unlock, EpWatchAdd, EpWatchRemove,
                  At
    <2>1. CASE t # "lsof"
      BY <1>1, <1>5, <2>1, CallerMoves DEF Awaited, Others
    <2>2. CASE UNCHANGED th
      BY <2>2 DEF Awaited
    <2>3. CASE Return(t) /\ t = "lsof"
      BY <1>1, <2>0, <2>3, ReturnThread DEF Awaited
    <2>4. ASSUME NEW p \in PC, Goto(t, p) \/ Done(t, p), t = "lsof"
          PROVE  Awaited(f) => Awaited(f)'
      BY <1>1, <2>0, <2>4, GotoThread, DoneThread DEF Awaited
    <2> QED
      BY <1>5, <2>1, <2>2, <2>3, <2>4
      DEF ChangeStateStep, ChangeState, SetWatched, SetState, SetSeen, Unlock,
          Release, Home, EpWatchAdd, EpWatchRemove, Die, PC
  <1> QED
    BY <1>3, <1>4, <1>5

-----------------------------------------------------------------------------
(* The invariant, step by step.                                            *)

(* A scan begins once the one before has visited all it had found, so its  *)
(* endpoints are at the current generation and fall behind by one.         *)
LEMMA RemovalScanBegins ==
  ASSUME TypeInv, RemovalInv, LookoutLsof
  PROVE  RemovalInv'
  <1> SUFFICES ASSUME NEW e \in EP PROVE RemovalInvOf(e)'
    BY DEF RemovalInv
  <1>1. /\ ep[e] \in EpRec /\ up[e] \in 0..2 /\ ep[e].lag \in 0..2
        /\ th \in [Thread -> ThRec] /\ "lsof" \in Thread
        /\ "monitor" \in Thread
    BY DEF TypeInv, TypeOK, EpRec, Thread
  <1>2. ~Awaited(e) /\ (Visible(e)' <=> Visible(e))
    BY DEF LookoutLsof, Awaited, Visible, envVars
  <1>3. Awaited(e)' <=> Visible(e)
    BY <1>1 DEF LookoutLsof, Awaited, ThRec
  <1>4. th'["monitor"] = th["monitor"]
    BY <1>1 DEF LookoutLsof
  <1>5. up'[e] = IF Visible(e) THEN Older(up[e], 2) ELSE 0
    BY DEF LookoutLsof
  <1>6. ep'[e].lag \in {ep[e].lag, Older(ep[e].lag, 2)}
    <2>1. [ep[e] EXCEPT !.lag = Older(@, 2)].lag = Older(ep[e].lag, 2)
      BY <1>1 DEF EpRec
    <2>2. ep'[e] \in {ep[e], [ep[e] EXCEPT !.lag = Older(@, 2)]}
      BY DEF LookoutLsof
    <2> QED
      BY <2>1, <2>2
  <1>7. Removes(e)' <=> Removes(e)
    BY <1>4 DEF Removes
  <1>8. RemovalInvOf(e)
    BY DEF RemovalInv
  <1> QED
    BY <1>1, <1>2, <1>3, <1>5, <1>6, <1>7, <1>8 DEF RemovalInvOf, Older

(* The monitor decides to remove an endpoint two generations behind: no    *)
(* two scans can have begun since it is there.                             *)
LEMMA RemovalDecide ==
  ASSUME TypeInv, ControlInv, RemovalInv, Decide
  PROVE  RemovalInv'
  <1> SUFFICES ASSUME NEW e \in EP PROVE RemovalInvOf(e)'
    BY DEF RemovalInv
  <1>1. /\ ep[e] \in EpRec /\ up[e] \in 0..2 /\ ep[e].lag \in 0..2
        /\ th \in [Thread -> ThRec] /\ "lsof" \in Thread
        /\ "monitor" \in Thread
    BY DEF TypeInv, TypeOK, EpRec, Thread
  <1>2. UNCHANGED <<ep, up, proc, dir>> /\ Others("monitor")
    BY <1>1 DEF Decide, epVars, envVars, CallChangeState, Done, Others
  <1>3. Awaited(e)' <=> Awaited(e)
    BY <1>1, <1>2 DEF Awaited, Others
  <1>4. Removes(e)' => ep[e].lag >= 2
    <2> DEFINE f == th["monitor"].ep
    <2>1. CASE Done("monitor", "cleanNext")
      BY <1>1, <2>1, DoneThread DEF Removes, ChangePC, PC
    <2>2. CASE CallChangeState("monitor", "down", "cleanNext")
      <3>1. "down" \in Epstate /\ "cleanNext" \in RetPC
        BY DEF Epstate, RetPC
      <3> QED
        BY <1>1, <2>2, <3>1, CallThread DEF Removes
    <2>3. CASE /\ LsofGenIsStale(ep[f])
               /\ CallChangeState("monitor", "removing", "cleanNext")
      <3>1. "removing" \in Epstate /\ "cleanNext" \in RetPC
        BY DEF Epstate, RetPC
      <3>2. th'["monitor"].ep = f
        BY <1>1, <2>3, <3>1, CallThread
      <3> QED
        BY <2>3, <3>2 DEF Removes, LsofGenIsStale
    <2> QED
      BY <2>1, <2>2, <2>3 DEF Decide, Cur
  <1>5. RemovalInvOf(e)
    BY DEF RemovalInv
  <1> QED
    BY <1>1, <1>2, <1>3, <1>4, <1>5 DEF RemovalInvOf, Visible

(* AddEp refreshes an endpoint only while the monitor, which needs         *)
(* epc.mutex too, is not removing any.                                     *)
LEMMA RemovalAddEp ==
  ASSUME TypeInv, ControlInv, RemovalInv, NEW t \in {"lsof", "inotify"},
         AddEp(t) \/ AddEpTest(t)
  PROVE  RemovalInv'
  <1> SUFFICES ASSUME NEW f \in EP PROVE RemovalInvOf(f)'
    BY DEF RemovalInv
  <1>1. /\ t \in Thread /\ "lsof" \in Thread /\ "monitor" \in Thread
        /\ up[f] \in 0..2
    BY DEF Thread, TypeInv, TypeOK
  <1>2. /\ Others(t) /\ th'[t].todo = th[t].todo
        /\ th[t].pc \in {"addEp", "found"}
    BY <1>1, AddEpThread
  <1>3. CASE AddEpTest(t)
    <2>1. UNCHANGED <<ep, up, proc, dir>> /\ th[t].pc = "found"
      BY <1>3 DEF AddEpTest, At, epVars, envVars
    <2>2. (Awaited(f) => Awaited(f)') /\ (Removes(f)' => Removes(f))
      BY <1>1, <1>2, <2>1 DEF Awaited, Removes, Others
    <2> QED
      BY <1>1, <2>1, <2>2, RemovalBy DEF Visible
  <1>4. CASE AddEp(t)
    <2>1. /\ lock = "none" /\ UNCHANGED <<up, proc, dir>>
          /\ f # th[t].ep => ep'[f].lag = ep[f].lag
          /\ UNCHANGED <<ep, th>> \/ ep'[th[t].ep].lag = 0
      BY <1>1, <1>4, AddEpLag
    <2>2. ~Removes(f) /\ ~Removes(f)'
      <3>1. Ctl("monitor", th["monitor"], lock)
        BY <1>1 DEF ControlInv, ThreadCtl
      <3>2. ~Removes(f)
        BY <2>1, <3>1 DEF Ctl, MonitorCtl, MonitorHolds, Removes, ChangePC
      <3> QED
        BY <1>1, <1>2, <3>2 DEF Removes, Others
    <2>3. ep'[f].lag \in {ep[f].lag, 0}
      BY <2>1
    <2>4. Awaited(f) => Awaited(f)' \/ ep'[f].lag = 0
      BY <1>1, <1>2, <2>1 DEF Awaited, Others
    <2> QED
      BY <1>1, <2>1, <2>2, <2>3, <2>4, RemovalBy DEF Visible
  <1> QED
    BY <1>3, <1>4

(* The other steps of the three goroutines.                                *)
LEMMA RemovalThreads ==
  ASSUME TypeInv, ControlInv, RemovalInv, ~Decide, ~LookoutLsof,
         Monitor \/ Lsof \/ Inotify
  PROVE  RemovalInv'
  <1>1. /\ "lsof" \in Thread /\ "monitor" \in Thread /\ "inotify" \in Thread
        /\ th \in [Thread -> ThRec] /\ up \in [EP -> 0..2]
    BY DEF Thread, TypeInv, TypeOK
  <1>2. ASSUME NEW f \in EP PROVE Removes(f)' => Removes(f)
    <2>1. CASE Monitor
      BY <2>1, RemovesKept
    <2>2. CASE Lsof \/ Inotify
      BY <1>1, <2>2, OneMoves DEF Removes, Others
    <2> QED
      BY <2>1, <2>2
  <1>3. ASSUME \A f \in EP : ep'[f].lag = ep[f].lag, UNCHANGED <<up, proc, dir>>,
               \A f \in EP : Awaited(f) => Awaited(f)' \/ ~Visible(f)
        PROVE  RemovalInv'
    <2> SUFFICES ASSUME NEW f \in EP PROVE RemovalInvOf(f)'
      BY DEF RemovalInv
    <2>1. Visible(f)' <=> Visible(f)
      BY <1>3 DEF Visible
    <2>2. ~Visible(f) => up'[f] = 0
      BY <1>1, <1>3 DEF RemovalInv, RemovalInvOf
    <2> QED
      BY <1>1, <1>2, <1>3, <2>1, <2>2, RemovalBy
  <1>4. CASE ScanNext
    <2>1. PICK e \in th["lsof"].todo :
            th' = [th EXCEPT !["lsof"].pc = "addEp", !["lsof"].ep = e,
                             !["lsof"].todo = @ \ {e}]
      BY <1>4 DEF ScanNext
    <2>2. /\ th'["lsof"].pc = "addEp" /\ th'["lsof"].ep = e
          /\ th'["lsof"].todo = th["lsof"].todo \ {e}
          /\ th["lsof"].pc = "sleep"
      BY <1>1, <1>4, <2>1 DEF ThRec, ScanNext, At
    <2>3. UNCHANGED <<ep, up, proc, dir>>
      BY <1>4 DEF ScanNext, epVars, envVars
    <2> QED
      BY <1>3, <2>2, <2>3 DEF Awaited
  <1>8. ASSUME NEW t \in {"lsof", "inotify"}, AddEp(t) \/ AddEpTest(t)
        PROVE  RemovalInv'
    BY <1>8, RemovalAddEp
  <1>5. CASE ScanMiss
    <2>1. PICK e \in th["lsof"].todo :
            ~Visible(e) /\ th' = [th EXCEPT !["lsof"].todo = @ \ {e}]
      BY <1>5 DEF ScanMiss
    <2>2. /\ th'["lsof"].todo = th["lsof"].todo \ {e}
          /\ th["lsof"].pc = "sleep"
      BY <1>1, <1>5, <2>1 DEF ThRec, ScanMiss, At
    <2> QED
      BY <1>3, <1>5, <2>1, <2>2 DEF ScanMiss, Awaited, epVars, envVars
  <1>6. CASE \/ \E t \in Thread : \/ ChangeStateStep(t) \/ Unlock(t)
                                  \/ SubmitStep(t) /\ t # "lsof"
                                  \/ EpWatchAdd(t) \/ EpWatchRemove(t)
             \/ Apply
    <2>1. \A f \in EP : /\ ep'[f].lag = ep[f].lag /\ UNCHANGED <<up, proc, dir>>
                        /\ Awaited(f) => Awaited(f)'
      BY <1>6, StepLag
    <2>2. UNCHANGED <<up, proc, dir>>
      BY <1>6 DEF ChangeStateStep, ChangeState, SetWatched, SetState, SetSeen,
                  SubmitStep, Submit, Retry, Unlock, EpWatchAdd,
                  EpWatchRemove, Apply, envVars
    <2> QED
      BY <1>3, <2>1, <2>2
  <1>7. CASE \/ Start \/ CleanEPs \/ CleanNext \/ CleanDone
             \/ PollEPs \/ PollNext \/ PollAge \/ PollDone
             \/ ProcessEvent \/ Complete \/ Revive \/ QueryApp
    <2>1. UNCHANGED <<ep, up, proc, dir>>
      BY <1>7 DEF Start, CleanEPs, CleanNext, CleanDone, PollEPs, PollNext,
                  PollAge, PollDone, ProcessEvent, Complete, Revive, QueryApp,
                  epVars, envVars
    <2>2. \A f \in EP : Awaited(f) => Awaited(f)'
      <3>1. Monitor \/ Inotify
        BY <1>7 DEF Monitor, Inotify
      <3> QED
        BY <1>1, <3>1, OneMoves DEF Awaited, Others
    <2> QED
      BY <1>3, <2>1, <2>2
  <1> QED
    BY <1>1, <1>4, <1>5, <1>6, <1>7, <1>8 DEF Monitor, Lsof, Inotify

(* A process that stops, or loses its directory, is not there any more.    *)
LEMMA RemovalWorld ==
  ASSUME TypeInv, RemovalInv, UNCHANGED th,
         Environment \/ ConcurrentMapWrite \/ UNCHANGED vars
  PROVE  RemovalInv'
  <1> SUFFICES ASSUME NEW f \in EP PROVE RemovalInvOf(f)'
    BY DEF RemovalInv
  <1>1. /\ up \in [EP -> 0..2] /\ ep[f] \in EpRec
        /\ dir \in [EP -> {"none", "root", "full"}] /\ proc \in [EP -> BOOLEAN]
    BY DEF TypeInv, TypeOK
  <1>2. (Awaited(f)' <=> Awaited(f)) /\ (Removes(f)' <=> Removes(f))
    BY DEF Awaited, Removes
  <1>3. ep'[f].lag = ep[f].lag
    <2>1. CASE Tick
      <3>1. ep'[f] \in {ep[f], [ep[f] EXCEPT !.seen = Older(@, Timeout + 1)]}
        BY <2>1 DEF Tick
      <3>2. [ep[f] EXCEPT !.seen = Older(@, Timeout + 1)].lag = ep[f].lag
        BY <1>1 DEF EpRec
      <3> QED
        BY <3>1, <3>2
    <2>2. CASE ~Tick
      BY <2>2 DEF Environment, AppAnswer, AppAnswersAgain, ProcStart, ProcStop,
                  MakeRoot, MakeOutput, Touch, RemoveDir, epVars,
                  ConcurrentMapWrite, vars
    <2> QED
      BY <2>1, <2>2
  <1>4. /\ up'[f] \in {up[f], 0}
        /\ up'[f] > 0 => (Visible(f) => Visible(f)')
    <2>1. CASE UNCHANGED <<up, proc, dir>>
      BY <2>1 DEF Visible
    <2>2. CASE \E e \in EP : ProcStop(e) \/ RemoveDir(e)
      BY <1>1, <2>2 DEF ProcStop, RemoveDir, Visible, Spend
    <2>3. CASE \E e \in EP : ProcStart(e) \/ MakeRoot(e) \/ MakeOutput(e)
      BY <1>1, <2>3 DEF ProcStart, MakeRoot, MakeOutput, Visible, Spend
    <2>4. CASE \E c \in Cmd : AppAnswer(c) \/ AppAnswersAgain(c)
      BY <2>1, <2>4 DEF AppAnswer, AppAnswersAgain
    <2>5. CASE Tick \/ ConcurrentMapWrite \/ UNCHANGED vars
                 \/ \E e \in EP : Touch(e)
      BY <2>1, <2>5 DEF Tick, ConcurrentMapWrite, vars, Touch, envVars
    <2> QED
      BY <2>2, <2>3, <2>4, <2>5 DEF Environment
  <1> QED
    BY <1>1, <1>2, <1>3, <1>4, RemovalBy

(* Every step keeps RemovalInv.                                            *)
LEMMA NextRemoval ==
  TypeInv /\ ControlInv /\ RemovalInv /\ [Next]_vars => RemovalInv'
  <1> SUFFICES ASSUME TypeInv, ControlInv, RemovalInv, [Next]_vars
               PROVE  RemovalInv'
    OBVIOUS
  <1>1. CASE LookoutLsof
    BY <1>1, RemovalScanBegins
  <1>2. CASE Decide
    BY <1>2, RemovalDecide
  <1>3. CASE ~LookoutLsof /\ ~Decide /\ (Monitor \/ Lsof \/ Inotify)
    BY <1>3, RemovalThreads
  <1>4. CASE ConcurrentMapWrite \/ Environment \/ Halted \/ UNCHANGED vars
    <2>1. UNCHANGED th
      BY <1>4, OneMoves DEF vars
    <2> QED
      BY <1>4, <2>1, RemovalWorld DEF Halted
  <1> QED
    BY <1>1, <1>2, <1>3, <1>4 DEF Next

-----------------------------------------------------------------------------
(* The assignments to State.                                               *)

(* State changes where ChangeState assigns it, or from nothing to init.    *)
LEMMA StateWrites ==
  ASSUME TypeInv, [Next]_vars, NEW e \in EP, ep'[e].state = "removing",
         ep[e].state # "removing"
  PROVE  \E t \in Thread : SetState(t)
  <1>1. /\ ep \in [EP -> EpRec] /\ th \in [Thread -> ThRec]
        /\ {"monitor", "lsof", "inotify"} \subseteq Thread
    BY DEF TypeInv, TypeOK, Thread
  <1>2. ASSUME NEW t \in Thread, th[t].pc \in EpPC PROVE Cur(t) \in EP
    BY <1>2 DEF TypeInv, ThreadOK, LocalsOK, Cur
  <1> SUFFICES ASSUME \A t \in Thread : ~SetState(t)
               PROVE  FALSE
    OBVIOUS
  <1>3. ASSUME NEW t \in Thread, \/ ChangeStateStep(t) \/ Unlock(t)
                                 \/ SubmitStep(t)
                                 \/ EpWatchAdd(t) \/ EpWatchRemove(t)
        PROVE  FALSE
    <2>1. Cur(t) \in EP \/ UNCHANGED ep
      BY <1>2, <1>3
      DEF ChangeStateStep, ChangeState, SetWatched, SetSeen, SubmitStep,
          Submit, Retry, Unlock, EpWatchAdd, EpWatchRemove, At, EpPC, epVars
    <2>2. \/ UNCHANGED ep
          \/ \E x : \/ ep' = [ep EXCEPT ![Cur(t)].wid = x]
                    \/ ep' = [ep EXCEPT ![Cur(t)].watched = x]
                    \/ ep' = [ep EXCEPT ![Cur(t)].seen = x]
      BY <1>3 DEF ChangeStateStep, ChangeState, SetWatched, SetSeen,
                  SubmitStep, Submit, Retry, Unlock, EpWatchAdd,
                  EpWatchRemove, epVars
    <2> QED
      BY <1>1, <2>1, <2>2, StateAppKept
  <1>4. ASSUME NEW t \in Thread, AddEp(t) \/ AddEpTest(t)
        PROVE  FALSE
    <2>0. Cur(t) \in EP
      BY <1>4, AddEpThread DEF Cur
    <2>1. CASE UNCHANGED ep
      BY <2>1
    <2>2. CASE AddEpKnown(t)
      BY <1>1, <2>0, <2>2, StateAppKept DEF AddEpKnown
    <2>3. CASE AddEpNew(t) /\ ~UNCHANGED ep
      <3>1. PICK w : ep' = [ep EXCEPT ![Cur(t)] = [NewEp EXCEPT !.state = "init",
                                         !.watched = TRUE, !.wid = w]]
        BY <2>3 DEF AddEpNew
      <3> QED
        BY <1>1, <2>0, <3>1 DEF NewEp
    <2> QED
      BY <1>4, <2>1, <2>2, <2>3 DEF AddEp, AddEpTest, epVars
  <1>7. CASE Apply
    <2>1. Cur("inotify") \in EP
      BY <1>1, <1>2, <1>7 DEF Apply, At, EpPC
    <2>2. \/ UNCHANGED ep
          \/ ep' = [ep EXCEPT ![Cur("inotify")].seen = 0]
          \/ \E x : ep' = [ep EXCEPT ![Cur("inotify")].app = x]
      BY <1>7 DEF Apply
    <2>3. ASSUME NEW x, ep' = [ep EXCEPT ![Cur("inotify")].app = x]
          PROVE  FALSE
      <3>1. [ep[Cur("inotify")] EXCEPT !.app = x].state
              = ep[Cur("inotify")].state
        BY <1>1, <2>1 DEF EpRec
      <3> QED
        BY <1>1, <2>1, <2>3, <3>1
    <2> QED
      BY <1>1, <2>1, <2>2, <2>3, StateAppKept
  <1>8. CASE LookoutLsof \/ Tick
    BY <1>8, StateAppAges
  <1>9. CASE UNCHANGED ep
    BY <1>9
  <1>10. CASE Monitor
    BY <1>1, <1>3, <1>9, <1>10
    DEF Monitor, Start, CleanEPs, CleanNext, CleanDone, Decide, PollEPs,
        PollNext, PollAge, PollDone, epVars
  <1>11. CASE Lsof
    BY <1>1, <1>3, <1>4, <1>8, <1>9, <1>11 DEF Lsof, ScanNext, ScanMiss, epVars
  <1>12. CASE Inotify
    BY <1>1, <1>3, <1>4, <1>7, <1>9, <1>12
    DEF Inotify, ProcessEvent, Complete, Revive, QueryApp, epVars
  <1>13. CASE ConcurrentMapWrite \/ Environment \/ Halted \/ UNCHANGED vars
    BY <1>8, <1>9, <1>13
    DEF ConcurrentMapWrite, Environment, AppAnswer, AppAnswersAgain, ProcStart,
        ProcStop, MakeRoot, MakeOutput, Touch, RemoveDir, Halted, vars, epVars
  <1> QED
    BY <1>10, <1>11, <1>12, <1>13 DEF Next

(* While the monitor holds epc.mutex, State becomes "removing" only when    *)
(* the monitor writes it, and then not for an endpoint that was there      *)
(* throughout two scans.                                                   *)
LEMMA RemovalWritten ==
  ASSUME TypeInv, ControlInv, RemovalInv, [Next]_vars, NEW e \in EP,
         lock = "monitor",
         ep[e].state # "removing", ep'[e].state = "removing"
  PROVE  up[e] < 2
  <1>1. /\ ep \in [EP -> EpRec] /\ th \in [Thread -> ThRec]
        /\ "monitor" \in Thread /\ up[e] \in 0..2
    BY DEF TypeInv, TypeOK, Thread
  <1>2. PICK t \in Thread : SetState(t)
    BY StateWrites
  <1>3. /\ th[t].pc = "setState" /\ Cur(t) = th[t].ep
        /\ ep' = [ep EXCEPT ![Cur(t)].state = th[t].tgt]
    BY <1>2 DEF SetState, At, Cur
  <1>4. th[t].ep = e /\ th[t].tgt = "removing"
    <2>1. Cur(t) \in EP
      BY <1>3 DEF TypeInv, ThreadOK, LocalsOK, EpPC, Cur
    <2>2. [ep[Cur(t)] EXCEPT !.state = th[t].tgt].state = th[t].tgt
      BY <1>1, <2>1 DEF EpRec
    <2> QED
      BY <1>1, <1>3, <2>1, <2>2
  <1>5. t = "monitor"
    <2>1. InChange(th[t])
      BY <1>3 DEF InChange, ChangePC
    <2>2. Ctl(t, th[t], lock)
      BY DEF ControlInv, ThreadCtl
    <2> QED
      BY <1>3, <1>4, <2>1, <2>2
      DEF Ctl, LsofCtl, LsofHolds, InotifyCtl, Thread
  <1>6. Removes(e)
    BY <1>3, <1>4, <1>5 DEF Removes, ChangePC
  <1> QED
    BY <1>1, <1>6 DEF RemovalInv, RemovalInvOf

(* The facts the property needs hold in every state.                       *)
THEOREM RemovalInvariant == Spec => []RemovalInv
  <1>1. Init => RemovalInv
    <2> SUFFICES ASSUME Init, NEW e \in EP PROVE RemovalInvOf(e)
      BY DEF RemovalInv
    <2>1. up[e] = 0 /\ ~Removes(e)
      BY DEF Init, Removes, ChangePC, Idle, Thread
    <2> QED
      BY <2>1 DEF RemovalInvOf
  <1> QED
    BY <1>1, NextRemoval, TypeInvariant, ControlInvariant, PTL DEF Spec

(* CleanEPs never moves an endpoint to "removing" whose process was there  *)
(* throughout two lsof scans, however the scans, the inotify goroutine and *)
(* the monitor interleave and however many endpoints there are.            *)
THEOREM NoEndpointRemovedFalsely == Spec => NoFalseRemoval
  <1>1. TypeInv /\ ControlInv /\ RemovalInv /\ [Next]_vars =>
          [\A e \in EP :
             (/\ lock = "monitor"
              /\ ep[e].state # "removing" /\ ep'[e].state = "removing")
               => up[e] < 2]_vars
    BY RemovalWritten
  <1> QED
    BY <1>1, TypeInvariant, ControlInvariant, RemovalInvariant, PTL
    DEF Spec, NoFalseRemoval
=============================================================================
