--------------------------- MODULE LookoutProofs ----------------------------
(***************************************************************************)
(* Type correctness of the monitoring core, and the lemmas about threads   *)
(* and endpoints that the other proofs share.  TypeOK alone is not         *)
(* inductive: a thread inside ChangeState, submit or Complete must have an *)
(* endpoint to work on, one in Complete a command, and a file must belong  *)
(* to an endpoint.                                                         *)
(***************************************************************************)
EXTENDS Lookout, TLAPS, FiniteSetTheorems

(* Where a thread works on the endpoint th[t].ep.                          *)
EpPC == {"decide", "pollAge", "addEp", "found", "complete", "revive",
         "apply", "query", "addCmd", "retry", "changeState", "watchAdd",
         "watchRemove", "setWatched", "setState", "setSeen"}

LocalsOK(r) ==
  /\ r.pc \in EpPC => r.ep \in EP
  /\ r.pc = "complete" => r.cmd \in Cmd
  /\ r.pc \in {"addCmd", "retry"} => r.ret \in {"pollNext", "pollAge", "read"}

ThreadOK == \A t \in Thread : LocalsOK(th[t])

FilesOK == \A c \in Cmd : cmd[c].file # "none" => cmd[c].ep \in EP

TypeInv == TypeOK /\ ThreadOK /\ FilesOK

(* The state in which Start begins is well typed.                          *)
LEMMA InitType == Init => TypeInv
  <1> SUFFICES ASSUME Init PROVE TypeInv
    OBVIOUS
  <1> USE NcsiEPAssumption, LookoutAssumption DEF Init
  <1>1. ep \in [EP -> EpRec] /\ pend \in [EP -> SUBSET Cmd]
    BY DEF NewEp, EpRec, Epstate, Wd, NoWd, App, AppName
  <1>2. cmd \in [Cmd -> CmdRec]
    BY DEF NoCommand, CmdRec, EPcmdType, Answer
  <1>3. th \in [Thread -> ThRec]
    BY DEF Idle, ThRec, Thread, PC, RetPC, Epstate, EPcmdType, Answer
  <1>4. /\ wmap \in [Wd -> EP \cup {NoEP}]
        /\ lock \in Thread \cup {"none"}
        /\ exit \in Exit
        /\ kern \in [EP -> Wd \cup {NoWd}]
        /\ nextWd \in 1..(MaxWd + 1)
        /\ proc \in [EP -> BOOLEAN]
        /\ dir \in [EP -> {"none", "root", "full"}]
        /\ budget \in 0..MaxEnv
        /\ up \in [EP -> 0..2]
    BY DEF Wd, NoWd, Exit
  <1>5. evq \in Seq(Event) /\ Len(evq) <= MaxEvents
    OBVIOUS
  <1>6. ThreadOK /\ FilesOK
    BY DEF ThreadOK, LocalsOK, FilesOK, Idle, Thread, EpPC, NoCommand
  <1> QED
    BY <1>1, <1>2, <1>3, <1>4, <1>5, <1>6 DEF TypeInv, TypeOK

(* What the operators that move a thread do to th.                         *)
Others(t) == \A u \in Thread : u # t => th'[u] = th[u]

(* Replacing the record of one goroutine.                                  *)
LEMMA ThreadUpdate ==
  ASSUME th \in [Thread -> ThRec], NEW t \in Thread, NEW r \in ThRec,
         th' = [th EXCEPT ![t] = r]
  PROVE  th' \in [Thread -> ThRec] /\ Others(t) /\ th'[t] = r
  BY DEF Others

(* Goto moves one goroutine to p and keeps its locals.                     *)
LEMMA GotoThread ==
  ASSUME th \in [Thread -> ThRec], NEW t \in Thread, NEW p \in PC, Goto(t, p)
  PROVE  /\ th' \in [Thread -> ThRec]
         /\ Others(t)
         /\ th'[t].pc = p /\ th'[t].ret = th[t].ret /\ th'[t].ep = th[t].ep
         /\ th'[t].tgt = th[t].tgt /\ th'[t].cmd = th[t].cmd
         /\ th'[t].todo = th[t].todo
  <1> DEFINE r == [th[t] EXCEPT !.pc = p]
  <1>1. th' = [th EXCEPT ![t] = r]
    BY DEF Goto
  <1>2. r \in ThRec
    BY DEF ThRec
  <1>3. th' \in [Thread -> ThRec] /\ Others(t) /\ th'[t] = r
    BY <1>1, <1>2, ThreadUpdate
  <1> QED
    BY <1>3 DEF ThRec

(* The record of a goroutine between two turns of its loop is well typed.  *)
LEMMA IdleThread ==
  ASSUME NEW p \in PC, NEW s \in SUBSET EP
  PROVE  [Idle(p) EXCEPT !.todo = s] \in ThRec
  BY DEF Idle, ThRec, RetPC, Epstate

(* Done clears a goroutine's locals and keeps the endpoints it still has   *)
(* to visit.                                                               *)
LEMMA DoneThread ==
  ASSUME th \in [Thread -> ThRec], NEW t \in Thread, NEW p \in PC, Done(t, p)
  PROVE  /\ th' \in [Thread -> ThRec]
         /\ Others(t)
         /\ th'[t].pc = p /\ th'[t].ret = "none" /\ th'[t].ep = NoEP
         /\ th'[t].tgt = "unknown" /\ th'[t].cmd = NoCmd
         /\ th'[t].todo = th[t].todo
  <1> DEFINE r == [Idle(p) EXCEPT !.todo = th[t].todo]
  <1>1. th[t].todo \in SUBSET EP
    BY DEF ThRec
  <1>2. r \in ThRec
    BY <1>1, IdleThread
  <1>3. th' \in [Thread -> ThRec] /\ Others(t) /\ th'[t] = r
    BY <1>2, ThreadUpdate DEF Done
  <1> QED
    BY <1>3 DEF Idle

(* Return goes on at ret; at the head of a loop it clears the locals.      *)
LEMMA ReturnThread ==
  ASSUME th \in [Thread -> ThRec], NEW t \in Thread, Return(t)
  PROVE  /\ th' \in [Thread -> ThRec]
         /\ Others(t)
         /\ th'[t].pc = th[t].ret /\ th'[t].ret = "none"
         /\ th'[t].tgt = "unknown"
         /\ th[t].ret \notin LoopHead =>
              th'[t].ep = th[t].ep /\ th'[t].cmd = th[t].cmd
         /\ th'[t].todo = th[t].todo
  <1>0. th[t].ret \in PC
    BY DEF ThRec, RetPC, PC
  <1>1. CASE th[t].ret \in LoopHead
    <2>1. Done(t, th[t].ret)
      BY <1>1 DEF Return
    <2> QED
      BY <1>0, <1>1, <2>1, DoneThread
  <1>2. CASE th[t].ret \notin LoopHead
    <2> DEFINE r == [th[t] EXCEPT !.pc = th[t].ret, !.ret = "none",
                                  !.tgt = "unknown"]
    <2>1. th' = [th EXCEPT ![t] = r]
      BY <1>2 DEF Return
    <2>2. r \in ThRec
      BY <1>0 DEF ThRec, RetPC, Epstate
    <2>3. th' \in [Thread -> ThRec] /\ Others(t) /\ th'[t] = r
      BY <2>1, <2>2, ThreadUpdate
    <2> QED
      BY <2>3 DEF ThRec
  <1> QED
    BY <1>1, <1>2

(* CallChangeState enters ChangeState with its target and its return       *)
(* point.                                                                  *)
LEMMA CallThread ==
  ASSUME th \in [Thread -> ThRec], NEW t \in Thread, NEW s \in Epstate,
         NEW r \in RetPC, CallChangeState(t, s, r)
  PROVE  /\ th' \in [Thread -> ThRec]
         /\ Others(t)
         /\ th'[t].pc = "changeState" /\ th'[t].tgt = s /\ th'[t].ret = r
         /\ th'[t].ep = th[t].ep /\ th'[t].cmd = th[t].cmd
         /\ th'[t].todo = th[t].todo
  <1> DEFINE x == [th[t] EXCEPT !.pc = "changeState", !.tgt = s, !.ret = r]
  <1>1. th' = [th EXCEPT ![t] = x]
    BY DEF CallChangeState
  <1>2. x \in ThRec
    BY DEF ThRec, PC
  <1>3. th' \in [Thread -> ThRec] /\ Others(t) /\ th'[t] = x
    BY <1>1, <1>2, ThreadUpdate
  <1> QED
    BY <1>3 DEF ThRec

(* A goroutine goes on at addCmd only if mayQueueCmd found pendingCmds of  *)
(* its endpoint empty, and at r otherwise.                                 *)
LEMMA MayQueueThread ==
  ASSUME th \in [Thread -> ThRec], NEW t \in Thread, NEW e \in EP,
         NEW o \in EPcmdType \cup {"none"}, NEW r \in {"pollNext", "pollAge", "read"},
         MayQueue(t, e, o, r)
  PROVE  /\ th' \in [Thread -> ThRec]
         /\ Others(t)
         /\ LocalsOK(th'[t])
         /\ th'[t].pc = "addCmd" => mayQueueCmd(e) /\ th'[t].ep = e
         /\ \/ th'[t].pc = "addCmd" /\ th'[t].ret = r
            \/ th'[t].pc = r /\ (r = "pollAge" => th'[t].ep = e)
         /\ th'[t].todo = th[t].todo \ {e}
  <1>0. th[t].todo \in SUBSET EP /\ th[t].todo \ {e} \in SUBSET EP
    BY DEF ThRec
  <1>1. CASE mayQueueCmd(e)
    <2> DEFINE x == [th[t] EXCEPT !.pc = "addCmd", !.op = o, !.ret = r,
                                  !.ep = e, !.todo = @ \ {e}]
    <2>1. th' = [th EXCEPT ![t] = x]
      BY <1>1 DEF MayQueue
    <2>2. x \in ThRec
      <3>1. th[t] \in ThRec
        OBVIOUS
      <3>2. /\ "addCmd" \in PC /\ r \in RetPC
            /\ o \in EPcmdType \cup {"none"} /\ e \in EP \cup {NoEP}
        BY DEF PC, RetPC
      <3> HIDE DEF PC, RetPC, EPcmdType
      <3> QED
        BY <1>0, <3>1, <3>2 DEF ThRec
    <2>3. th' \in [Thread -> ThRec] /\ Others(t) /\ th'[t] = x
      BY <2>1, <2>2, ThreadUpdate
    <2> QED
      BY <1>1, <2>3 DEF LocalsOK, EpPC, ThRec
  <1>2. CASE ~mayQueueCmd(e)
    <2> DEFINE x == [Idle(r) EXCEPT !.todo = th[t].todo \ {e},
                                    !.ep = IF r = "pollAge" THEN e ELSE NoEP]
    <2>1. th' = [th EXCEPT ![t] = x]
      BY <1>2 DEF MayQueue
    <2>2. x \in ThRec
      BY <1>0 DEF Idle, ThRec, PC, RetPC, Epstate
    <2>3. th' \in [Thread -> ThRec] /\ Others(t) /\ th'[t] = x
      BY <2>1, <2>2, ThreadUpdate
    <2> QED
      BY <2>3 DEF LocalsOK, EpPC, Idle
  <1> QED
    BY <1>1, <1>2

(* When one goroutine moves, the locals of the others stay good.           *)
LEMMA ThreadStep ==
  ASSUME ThreadOK, NEW t \in Thread, Others(t), LocalsOK(th'[t])
  PROVE  ThreadOK'
  BY DEF ThreadOK, Others

(* A step that changes only th, lock and exit keeps the types if the       *)
(* thread's new record is good.                                            *)
LEMMA ControlStep ==
  ASSUME TypeInv, NEW t \in Thread, th' \in [Thread -> ThRec], Others(t),
         LocalsOK(th'[t]), exit' \in Exit, lock' \in Thread \cup {"none"},
         UNCHANGED <<epVars, kerVars, envVars, up>>
  PROVE  TypeInv'
  <1>1. ThreadOK'
    BY ThreadStep DEF TypeInv
  <1> QED
    BY <1>1 DEF TypeInv, TypeOK, FilesOK, epVars, kerVars, envVars

(* Returning from ChangeState or submit leaves good locals.                *)
LEMMA ReturnLocals ==
  ASSUME TypeInv, NEW t \in Thread, th[t].pc \in EpPC, Return(t)
  PROVE  th' \in [Thread -> ThRec] /\ Others(t) /\ LocalsOK(th'[t])
  <1>1. th \in [Thread -> ThRec] /\ th[t].ep \in EP /\ th[t].ret \in RetPC
    BY DEF TypeInv, TypeOK, ThreadOK, LocalsOK, ThRec
  <1> QED
    BY <1>1, ReturnThread DEF LocalsOK, EpPC, RetPC, LoopHead

(* Going on within ChangeState or Complete leaves good locals.             *)
LEMMA GotoLocals ==
  ASSUME TypeInv, NEW t \in Thread, th[t].pc \in EpPC, NEW p \in PC,
         p \notin {"complete", "addCmd", "retry"}, Goto(t, p)
  PROVE  th' \in [Thread -> ThRec] /\ Others(t) /\ LocalsOK(th'[t])
  <1>1. th \in [Thread -> ThRec] /\ th[t].ep \in EP
    BY DEF TypeInv, TypeOK, ThreadOK, LocalsOK
  <1> QED
    BY <1>1, GotoThread DEF LocalsOK

(* Ending a turn of a loop leaves good locals.                             *)
LEMMA DoneLocals ==
  ASSUME TypeInv, NEW t \in Thread, NEW p \in PC \ EpPC, Done(t, p)
  PROVE  th' \in [Thread -> ThRec] /\ Others(t) /\ LocalsOK(th'[t])
  <1>1. th \in [Thread -> ThRec]
    BY DEF TypeInv, TypeOK
  <1> QED
    BY <1>1, DoneThread DEF LocalsOK, EpPC

(* Calling ChangeState leaves good locals.                                 *)
LEMMA CallLocals ==
  ASSUME TypeInv, NEW t \in Thread, th[t].pc \in EpPC, NEW s \in Epstate,
         NEW r \in RetPC, CallChangeState(t, s, r)
  PROVE  th' \in [Thread -> ThRec] /\ Others(t) /\ LocalsOK(th'[t])
  <1>1. th \in [Thread -> ThRec] /\ th[t].ep \in EP
    BY DEF TypeInv, TypeOK, ThreadOK, LocalsOK
  <1> QED
    BY <1>1, CallThread DEF LocalsOK

(* A Fatal, a panic or a throw moves no goroutine.                         *)
LEMMA DieLocals ==
  ASSUME TypeInv, NEW t \in Thread, UNCHANGED th
  PROVE  th' \in [Thread -> ThRec] /\ Others(t) /\ LocalsOK(th'[t])
  BY DEF TypeInv, TypeOK, ThreadOK, Others

(* Updates of one field of an endpoint.                                    *)
LEMMA EpWid ==
  ASSUME ep \in [EP -> EpRec], NEW e \in EP, NEW w \in Wd \cup {NoWd},
         ep' = [ep EXCEPT ![e].wid = w]
  PROVE  ep' \in [EP -> EpRec]
  <1>1. [ep[e] EXCEPT !.wid = w] \in EpRec
    BY DEF EpRec
  <1> QED
    BY <1>1

(* ep.watched is assigned a Boolean.                                       *)
LEMMA EpWatched ==
  ASSUME ep \in [EP -> EpRec], NEW e \in EP, NEW b \in BOOLEAN,
         ep' = [ep EXCEPT ![e].watched = b]
  PROVE  ep' \in [EP -> EpRec]
  <1>1. [ep[e] EXCEPT !.watched = b] \in EpRec
    BY DEF EpRec
  <1> QED
    BY <1>1

(* ep.State is assigned a lifecycle state.                                 *)
LEMMA EpState ==
  ASSUME ep \in [EP -> EpRec], NEW e \in EP, NEW s \in Epstate,
         ep' = [ep EXCEPT ![e].state = s]
  PROVE  ep' \in [EP -> EpRec]
  <1>1. [ep[e] EXCEPT !.state = s] \in EpRec
    BY DEF EpRec
  <1> QED
    BY <1>1

(* ep.App is assigned an application.                                      *)
LEMMA EpApp ==
  ASSUME ep \in [EP -> EpRec], NEW e \in EP, NEW a \in App,
         ep' = [ep EXCEPT ![e].app = a]
  PROVE  ep' \in [EP -> EpRec]
  <1>1. [ep[e] EXCEPT !.app = a] \in EpRec
    BY DEF EpRec
  <1> QED
    BY <1>1

(* ep.LastSeen is stamped.                                                 *)
LEMMA EpSeen ==
  ASSUME ep \in [EP -> EpRec], NEW e \in EP,
         ep' = [ep EXCEPT ![e].seen = 0]
  PROVE  ep' \in [EP -> EpRec]
  <1>1. [ep[e] EXCEPT !.seen = 0] \in EpRec
    BY NcsiEPAssumption DEF EpRec
  <1> QED
    BY <1>1

(* LsofGenUpdate gives an endpoint the current generation.                 *)
LEMMA EpLag ==
  ASSUME ep \in [EP -> EpRec], NEW e \in EP,
         ep' = [ep EXCEPT ![e].lag = 0]
  PROVE  ep' \in [EP -> EpRec]
  <1>1. [ep[e] EXCEPT !.lag = 0] \in EpRec
    BY NcsiEPAssumption DEF EpRec
  <1> QED
    BY <1>1

-----------------------------------------------------------------------------
(* The actions keep the types.                                             *)

(* The checks of ChangeState, watchCtl and ensureWatchedState.             *)
LEMMA TypeChangeState ==
  ASSUME TypeInv, NEW t \in Thread, ChangeState(t)
  PROVE  TypeInv'
  <1>1. th[t].pc \in EpPC
    BY DEF ChangeState, At, EpPC
  <1>2. {"setState", "watchAdd", "watchRemove"} \subseteq PC
    BY DEF PC
  <1>3. th' \in [Thread -> ThRec] /\ Others(t) /\ LocalsOK(th'[t])
    BY <1>1, <1>2, ReturnLocals, GotoLocals, DieLocals DEF ChangeState, Die
  <1>4. exit' \in Exit
    BY DEF ChangeState, Die, Exit, TypeInv, TypeOK
  <1>5. lock' \in Thread \cup {"none"} /\ UNCHANGED <<epVars, kerVars, envVars, up>>
    BY DEF ChangeState, TypeInv, TypeOK
  <1> QED
    BY <1>3, <1>4, <1>5, ControlStep

(* A watch the kernel hands out.                                           *)
LEMMA WatchType ==
  ASSUME TypeInv, NEW e \in EP, InotifyAddWatch(e) <= MaxWd
  PROVE  InotifyAddWatch(e) \in Wd
  BY NcsiEPAssumption DEF TypeInv, TypeOK, InotifyAddWatch, Wd, NoWd

(* EpWatchAdd: the watch, the wid and the entry in wmap are well typed.    *)
LEMMA TypeEpWatchAdd ==
  ASSUME TypeInv, NEW t \in Thread, EpWatchAdd(t)
  PROVE  TypeInv'
  <1> DEFINE e == Cur(t)
             w == InotifyAddWatch(e)
  <1>1. th[t].pc \in EpPC /\ e \in EP /\ w \in Wd
    <2>1. th[t].pc \in EpPC /\ e \in EP
      BY DEF EpWatchAdd, At, EpPC, Cur, TypeInv, ThreadOK, LocalsOK
    <2> QED
      BY <2>1, WatchType DEF EpWatchAdd
  <1>2. "setWatched" \in PC
    BY DEF PC
  <1>3. th' \in [Thread -> ThRec] /\ Others(t) /\ LocalsOK(th'[t])
    BY <1>1, <1>2, GotoLocals, DieLocals DEF EpWatchAdd, Die
  <1>4. ThreadOK'
    BY <1>3, ThreadStep DEF TypeInv
  <1>5. exit' \in Exit
    BY DEF EpWatchAdd, Die, Exit, TypeInv, TypeOK
  <1>6. ep' \in [EP -> EpRec]
    BY <1>1, EpWid DEF EpWatchAdd, TypeInv, TypeOK
  <1>7. wmap' \in [Wd -> EP \cup {NoEP}] /\ kern' \in [EP -> Wd \cup {NoWd}]
    BY <1>1 DEF EpWatchAdd, Watches, TypeInv, TypeOK
  <1>8. nextWd' \in 1..(MaxWd + 1)
    BY <1>1, NcsiEPAssumption DEF EpWatchAdd, Watches, TypeInv, TypeOK, Wd
  <1> QED
    BY <1>3, <1>4, <1>5, <1>6, <1>7, <1>8
    DEF EpWatchAdd, TypeInv, TypeOK, FilesOK, envVars

(* EpWatchRemove: a removed watch leaves well-typed tables.                *)
LEMMA TypeEpWatchRemove ==
  ASSUME TypeInv, NEW t \in Thread, EpWatchRemove(t)
  PROVE  TypeInv'
  <1>1. th[t].pc \in EpPC /\ Cur(t) \in EP
    BY DEF EpWatchRemove, At, EpPC, Cur, TypeInv, ThreadOK, LocalsOK
  <1>2. "setWatched" \in PC
    BY DEF PC
  <1>3. th' \in [Thread -> ThRec] /\ Others(t) /\ LocalsOK(th'[t])
    BY <1>1, <1>2, GotoLocals, DieLocals DEF EpWatchRemove, Die
  <1>4. ThreadOK'
    BY <1>3, ThreadStep DEF TypeInv
  <1>5. exit' \in Exit
    BY DEF EpWatchRemove, Die, Exit, TypeInv, TypeOK
  <1>6. ep' \in [EP -> EpRec] /\ wmap' \in [Wd -> EP \cup {NoEP}]
    BY <1>1, EpWid DEF EpWatchRemove, TypeInv, TypeOK
  <1>7. kern' \in [EP -> Wd \cup {NoWd}]
    BY DEF EpWatchRemove, InotifyRmWatch, TypeInv, TypeOK
  <1> QED
    BY <1>3, <1>4, <1>5, <1>6, <1>7
    DEF EpWatchRemove, TypeInv, TypeOK, FilesOK, envVars

(* The three assignments of ChangeState.                                   *)
LEMMA TypeSetters ==
  ASSUME TypeInv, NEW t \in Thread, SetWatched(t) \/ SetState(t) \/ SetSeen(t)
  PROVE  TypeInv'
  <1>1. th[t].pc \in EpPC /\ th[t].tgt \in Epstate /\ Cur(t) \in EP
    BY DEF SetWatched, SetState, SetSeen, At, EpPC, Cur, TypeInv, TypeOK,
           ThreadOK, LocalsOK, ThRec
  <1>2. {"setState", "setSeen"} \subseteq PC
    BY DEF PC
  <1>3. th' \in [Thread -> ThRec] /\ Others(t) /\ LocalsOK(th'[t])
    BY <1>1, <1>2, ReturnLocals, GotoLocals DEF SetWatched, SetState, SetSeen
  <1>4. ThreadOK'
    BY <1>3, ThreadStep DEF TypeInv
  <1>5. ep' \in [EP -> EpRec]
    <2>1. CASE SetWatched(t)
      BY <1>1, <2>1, EpWatched DEF SetWatched, TypeInv, TypeOK, isWatchedState
    <2>2. CASE SetState(t)
      BY <1>1, <2>2, EpState DEF SetState, TypeInv, TypeOK
    <2>3. CASE SetSeen(t)
      BY <1>1, <2>3, EpSeen DEF SetSeen, TypeInv, TypeOK
    <2> QED
      BY <2>1, <2>2, <2>3
  <1> QED
    BY <1>3, <1>4, <1>5
    DEF SetWatched, SetState, SetSeen, TypeInv, TypeOK, FilesOK, kerVars, envVars

(* GetAppDetectInfo names a command for every application.                 *)
LEMMA DetectInfoType ==
  ASSUME NEW a \in App, NEW b \in BOOLEAN
  PROVE  GetAppDetectInfo(a, b) \in EPcmdType
  BY DEF GetAppDetectInfo, App, AppName, EPcmdType, PmdbDetectInfo,
         NisdDetectInfo, NclientDetectInfo, UnrecognizedDetectInfo

(* submit: the new command and the goroutine's next step are well typed.   *)
LEMMA TypeSubmit ==
  ASSUME TypeInv, NEW t \in Thread, Submit(t)
  PROVE  TypeInv'
  <1> DEFINE e == Cur(t)
  <1>1. /\ th[t].pc \in EpPC /\ e \in EP /\ th[t].op \in EPcmdType \cup {"none"}
        /\ th \in [Thread -> ThRec] /\ ep[e].app \in App
        /\ th[t].ret \in {"pollNext", "pollAge", "read"}
    BY DEF Submit, At, EpPC, Cur, TypeInv, TypeOK, ThreadOK, LocalsOK, ThRec, EpRec
  <1>2. PICK c \in Cmd, written \in BOOLEAN :
          /\ pend' = [pend EXCEPT ![e] = @ \cup {c}]
          /\ cmd' = [cmd EXCEPT ![c] =
               [ep |-> e, op |-> th[t].op, age |-> 0, live |-> TRUE,
                file |-> IF written THEN "in" ELSE "none"]]
          /\ IF ~written /\ th[t].op = "SystemInfoOp"
               THEN th' = [th EXCEPT ![t].pc = "retry",
                             ![t].op = GetAppDetectInfo(ep[e].app, TRUE)]
               ELSE Return(t)
    BY DEF Submit
  <1>3. th' \in [Thread -> ThRec] /\ Others(t) /\ LocalsOK(th'[t])
    <2>1. CASE Return(t)
      BY <1>1, <2>1, ReturnLocals
    <2>2. CASE th' = [th EXCEPT ![t].pc = "retry",
                                ![t].op = GetAppDetectInfo(ep[e].app, TRUE)]
      <3> DEFINE o == GetAppDetectInfo(ep[e].app, TRUE)
                 r == [th[t] EXCEPT !.pc = "retry", !.op = o]
      <3>1. o \in EPcmdType
        BY <1>1, DetectInfoType
      <3> HIDE DEF o
      <3>2. r \in ThRec
        BY <1>1, <3>1 DEF ThRec, PC
      <3>3. th' \in [Thread -> ThRec] /\ Others(t) /\ th'[t] = r
        BY <1>1, <2>2, <3>2, ThreadUpdate DEF o
      <3>4. th'[t].ep = th[t].ep /\ th'[t].ret = th[t].ret /\ th'[t].pc = "retry"
        BY <1>1, <3>3 DEF ThRec
      <3> QED
        BY <1>1, <3>3, <3>4 DEF LocalsOK, Cur
    <2> QED
      BY <1>2, <2>1, <2>2
  <1>4. ThreadOK'
    BY <1>3, ThreadStep DEF TypeInv
  <1>5. pend' \in [EP -> SUBSET Cmd]
    BY <1>2 DEF TypeInv, TypeOK
  <1>6. cmd' \in [Cmd -> CmdRec] /\ FilesOK'
    <2> DEFINE r == [ep |-> e, op |-> th[t].op, age |-> 0, live |-> TRUE,
                     file |-> IF written THEN "in" ELSE "none"]
    <2>1. r \in CmdRec /\ r.ep \in EP
      BY <1>1, NcsiEPAssumption DEF CmdRec
    <2> HIDE DEF r
    <2>2. cmd' = [cmd EXCEPT ![c] = r] /\ cmd \in [Cmd -> CmdRec] /\ FilesOK
      BY <1>2 DEF r, TypeInv, TypeOK
    <2> QED
      BY <2>1, <2>2 DEF FilesOK
  <1>7. budget' \in 0..MaxEnv
    BY LookoutAssumption DEF Submit, Spend, TypeInv, TypeOK
  <1>8. UNCHANGED <<ep, wmap, lock, exit, kerVars, proc, dir, up>>
    BY DEF Submit
  <1> QED
    BY <1>3, <1>4, <1>5, <1>6, <1>7, <1>8 DEF TypeInv, TypeOK, kerVars

(* queryApp's second attempt, and the query that follows an identify.      *)
LEMMA TypeQuery ==
  ASSUME TypeInv, NEW t \in Thread, Retry(t) \/ (t = "inotify" /\ QueryApp)
  PROVE  TypeInv'
  <1>1. th \in [Thread -> ThRec] /\ Cur(t) \in EP
    BY DEF Retry, QueryApp, At, EpPC, Cur, TypeInv, TypeOK, ThreadOK, LocalsOK
  <1>2. CASE Retry(t)
    <2>1. /\ th[t].op \in EPcmdType \cup {"none"}
          /\ th[t].ret \in {"pollNext", "pollAge", "read"}
      BY <1>1, <1>2 DEF Retry, At, TypeInv, TypeOK, ThreadOK, LocalsOK, ThRec
    <2>2. th' \in [Thread -> ThRec] /\ Others(t) /\ LocalsOK(th'[t])
      BY <1>1, <1>2, <2>1, MayQueueThread DEF Retry
    <2>3. exit' \in Exit /\ lock' \in Thread \cup {"none"}
      BY <1>2 DEF Retry, TypeInv, TypeOK
    <2> QED
      BY <1>2, <2>2, <2>3, ControlStep DEF Retry
  <1>3. CASE t = "inotify" /\ QueryApp
    <2>1. GetAppDetectInfo(ep[Cur(t)].app, FALSE) \in EPcmdType \cup {"none"}
      BY <1>1, DetectInfoType DEF TypeInv, TypeOK, EpRec
    <2>2. th' \in [Thread -> ThRec] /\ Others(t) /\ LocalsOK(th'[t])
      BY <1>1, <1>3, <2>1, MayQueueThread DEF QueryApp
    <2>3. exit' \in Exit /\ lock' \in Thread \cup {"none"}
      BY <1>3 DEF QueryApp, TypeInv, TypeOK
    <2> QED
      BY <1>3, <2>2, <2>3, ControlStep DEF QueryApp
  <1> QED
    BY <1>2, <1>3

(* Steps of the monitor loop that touch nothing but th and lock.           *)
LEMMA TypeMonitorControl ==
  ASSUME TypeInv, Start \/ CleanEPs \/ CleanDone \/ Decide \/ PollEPs
                    \/ PollNext \/ PollAge \/ PollDone
  PROVE  TypeInv'
  <1> DEFINE t == "monitor"
  <1>1. t \in Thread /\ th \in [Thread -> ThRec] /\ exit \in Exit
    BY DEF Thread, TypeInv, TypeOK
  <1>2. /\ UNCHANGED <<epVars, exit, kerVars, envVars, up>>
        /\ lock' \in Thread \cup {"none"}
    BY <1>1 DEF Start, CleanEPs, CleanDone, Decide, PollEPs, PollNext, PollAge,
                PollDone, Acquire, TypeInv, TypeOK
  <1>3. th' \in [Thread -> ThRec] /\ Others(t) /\ LocalsOK(th'[t])
    <2>0. {"sleep", "cleanNext", "pollLock", "pollNext"} \subseteq PC \ EpPC
      BY DEF PC, EpPC
    <2>1. CASE Start
      BY <1>1, <2>0, <2>1, GotoThread DEF Start, LocalsOK
    <2>2. CASE CleanEPs \/ PollEPs
      <3> PICK p \in {"cleanNext", "pollNext"} :
               th' = [th EXCEPT ![t].pc = p, ![t].todo = InMap]
        BY <2>2 DEF CleanEPs, PollEPs
      <3> DEFINE r == [th[t] EXCEPT !.pc = p, !.todo = InMap]
      <3>1. r \in ThRec
        BY <1>1, <2>0 DEF ThRec, InMap
      <3>2. th' \in [Thread -> ThRec] /\ Others(t) /\ th'[t] = r
        BY <1>1, <3>1, ThreadUpdate
      <3>3. th'[t].pc = p
        BY <1>1, <3>2 DEF ThRec
      <3> QED
        BY <2>0, <3>2, <3>3 DEF LocalsOK, EpPC
    <2>3. CASE CleanDone \/ PollDone
      BY <1>1, <2>0, <2>3, DoneLocals DEF CleanDone, PollDone
    <2>4. CASE Decide \/ PollAge
      <3>1. th[t].pc \in EpPC
        BY <2>4 DEF Decide, PollAge, At, EpPC
      <3>2. /\ {"down", "removing"} \subseteq Epstate
            /\ {"cleanNext", "pollNext"} \subseteq RetPC
        BY DEF Epstate, RetPC
      <3> QED
        BY <1>1, <2>0, <2>4, <3>1, <3>2, CallLocals, DoneLocals DEF Decide, PollAge
    <2>5. CASE PollNext
      <3> PICK e \in th[t].todo :
               IF PollSubmits(ep[e])
               THEN MayQueue(t, e, PollOp(ep[e]), AfterPoll(ep[e]))
               ELSE th' = [th EXCEPT ![t].todo = @ \ {e}]
        BY <2>5 DEF PollNext
      <3>1. e \in EP /\ ep[e].app \in App /\ th[t].pc = "pollNext"
        BY <1>1, <2>5 DEF ThRec, TypeInv, TypeOK, EpRec, PollNext, At
      <3>2. CASE PollSubmits(ep[e])
        <4>1. /\ PollOp(ep[e]) \in EPcmdType
              /\ AfterPoll(ep[e]) \in {"pollNext", "pollAge", "read"}
          BY <3>1, DetectInfoType DEF PollOp, AfterPoll, EPcmdType
        <4> QED
          BY <1>1, <3>1, <3>2, <4>1, MayQueueThread
      <3>3. CASE ~PollSubmits(ep[e])
        <4> DEFINE r == [th[t] EXCEPT !.todo = @ \ {e}]
        <4>1. r \in ThRec
          BY <1>1 DEF ThRec
        <4>2. th' \in [Thread -> ThRec] /\ Others(t) /\ th'[t] = r
          BY <1>1, <3>3, <4>1, ThreadUpdate
        <4>3. th'[t].pc = "pollNext"
          BY <1>1, <3>1, <4>2 DEF ThRec
        <4> QED
          BY <4>2, <4>3 DEF LocalsOK, EpPC
      <3> QED
        BY <3>2, <3>3
    <2> QED
      BY <2>1, <2>2, <2>3, <2>4, <2>5
  <1> QED
    BY <1>1, <1>2, <1>3, ControlStep

(* CleanEPs' flushStaleCmds and RemoveStaleFiles keep commands well typed. *)
LEMMA TypeCleanNext ==
  ASSUME TypeInv, CleanNext
  PROVE  TypeInv'
  <1> DEFINE t == "monitor"
  <1>1. /\ t \in Thread /\ th \in [Thread -> ThRec]
        /\ cmd \in [Cmd -> CmdRec] /\ pend \in [EP -> SUBSET Cmd]
    BY DEF Thread, TypeInv, TypeOK
  <1>2. PICK e \in th[t].todo, gone \in SUBSET Cmd, flushed \in SUBSET Cmd :
          /\ pend' = [pend EXCEPT ![e] = @ \ flushed]
          /\ cmd' = [c \in Cmd |->
               IF c \in flushed \/ (c \in gone /\ ~cmd[c].live)
               THEN Forget([cmd[c] EXCEPT !.file =
                              IF c \in gone THEN "none" ELSE @])
               ELSE [cmd[c] EXCEPT !.file = IF c \in gone THEN "none" ELSE @]]
          /\ th' = [th EXCEPT ![t].pc = "decide", ![t].ep = e,
                              ![t].todo = @ \ {e}]
    <2>1. PICK e \in th[t].todo, gone \in SUBSET Cmd :
            /\ pend' = [pend EXCEPT ![e] = @ \ flushStaleCmds(e)]
            /\ cmd' = [c \in Cmd |->
                 IF c \in flushStaleCmds(e) \/ (c \in gone /\ ~cmd[c].live)
                 THEN Forget([cmd[c] EXCEPT !.file =
                                IF c \in gone THEN "none" ELSE @])
                 ELSE [cmd[c] EXCEPT !.file = IF c \in gone THEN "none" ELSE @]]
            /\ th' = [th EXCEPT ![t].pc = "decide", ![t].ep = e,
                                ![t].todo = @ \ {e}]
      BY Zenon DEF CleanNext
    <2>2. e \in EP
      BY <1>1 DEF ThRec
    <2>3. flushStaleCmds(e) \in SUBSET Cmd
      BY <1>1, <2>2 DEF flushStaleCmds
    <2> QED
      BY <2>1, <2>3
  <1>3. e \in EP
    BY <1>1 DEF ThRec
  <1>4. th' \in [Thread -> ThRec] /\ Others(t) /\ LocalsOK(th'[t])
    <2> DEFINE r == [th[t] EXCEPT !.pc = "decide", !.ep = e, !.todo = @ \ {e}]
    <2>1. r \in ThRec
      <3>1. th[t] \in ThRec /\ th[t].todo \ {e} \in SUBSET EP
        BY <1>1 DEF ThRec
      <3>2. "decide" \in PC /\ e \in EP \cup {NoEP}
        BY <1>3 DEF PC
      <3> HIDE DEF t
      <3> QED
        BY <3>1, <3>2 DEF ThRec
    <2>2. th' \in [Thread -> ThRec] /\ Others(t) /\ th'[t] = r
      <3>1. th' = [th EXCEPT ![t] = r]
        BY <1>2
      <3> HIDE DEF r, t
      <3> QED
        BY <1>1, <2>1, <3>1, ThreadUpdate
    <2>3. th'[t].pc = "decide" /\ th'[t].ep = e
      BY <1>1, <2>2 DEF ThRec
    <2> QED
      BY <1>3, <2>2, <2>3 DEF LocalsOK
  <1>5. ThreadOK'
    BY <1>1, <1>4, ThreadStep DEF TypeInv
  <1>6. pend' \in [EP -> SUBSET Cmd]
    BY <1>1, <1>2
  <1>7. cmd' \in [Cmd -> CmdRec] /\ FilesOK'
    <2> SUFFICES ASSUME NEW c \in Cmd
                 PROVE  /\ cmd'[c] \in CmdRec
                        /\ cmd'[c].file # "none" => cmd'[c].ep \in EP
      BY <1>2 DEF FilesOK
    <2> DEFINE r == [cmd[c] EXCEPT !.file = IF c \in gone THEN "none" ELSE @]
    <2>1. r \in CmdRec /\ r.file \in {"none", cmd[c].file} /\ r.ep = cmd[c].ep
      BY <1>1 DEF CmdRec
    <2>2. r.file # "none" => r.ep \in EP
      BY <2>1 DEF TypeInv, FilesOK
    <2>3. cmd'[c] = r \/ cmd'[c] = Forget(r)
      BY <1>2
    <2> HIDE DEF r
    <2>4. /\ Forget(r) \in CmdRec
          /\ Forget(r).file # "none" => Forget(r).ep \in EP
      <3>1. NoCommand \in CmdRec /\ NoCommand.file = "none"
        BY NcsiEPAssumption DEF NoCommand, CmdRec
      <3>2. /\ [r EXCEPT !.op = "none", !.live = FALSE] \in CmdRec
            /\ [r EXCEPT !.op = "none", !.live = FALSE].ep = r.ep
        BY <2>1 DEF CmdRec
      <3>3. CASE r.file = "in"
        BY <2>2, <3>2, <3>3 DEF Forget
      <3>4. CASE r.file # "in"
        BY <3>1, <3>4 DEF Forget
      <3> QED
        BY <3>3, <3>4
    <2> QED
      BY <2>1, <2>2, <2>3, <2>4
  <1> QED
    BY <1>4, <1>5, <1>6, <1>7
    DEF CleanNext, TypeInv, TypeOK, kerVars, envVars

(* AddEp ends: the mutex is free, the goroutine back in its loop.          *)
LEMMA ReleaseThread ==
  ASSUME th \in [Thread -> ThRec], NEW t \in Thread, Release(t)
  PROVE  /\ th' \in [Thread -> ThRec] /\ Others(t) /\ LocalsOK(th'[t])
         /\ th'[t].pc = Home(t) /\ th'[t].ret = "none"
         /\ th'[t].todo = th[t].todo /\ lock' = "none"
  <1>1. Home(t) \in {"sleep", "read"} /\ Home(t) \in PC
    BY DEF Home, PC
  <1>2. Done(t, Home(t)) /\ lock' = "none"
    BY DEF Release
  <1> QED
    BY <1>1, <1>2, DoneThread DEF LocalsOK, EpPC

(* AddEp compares: it calls ChangeState, or is done.                       *)
LEMMA SettleThread ==
  ASSUME th \in [Thread -> ThRec], NEW t \in Thread, th[t].ep \in EP,
         NEW first \in Epstate, NEW now \in Epstate, Settle(t, first, now)
  PROVE  /\ th' \in [Thread -> ThRec] /\ Others(t) /\ LocalsOK(th'[t])
         /\ th'[t].todo = th[t].todo
         /\ \/ /\ th'[t].pc = "changeState" /\ th'[t].ret = "unlock"
               /\ th'[t].tgt = newState(first, now) /\ th'[t].tgt # now
               /\ th'[t].ep = th[t].ep /\ lock' = t
            \/ /\ th'[t].pc = Home(t) /\ th'[t].ret = "none"
               /\ lock' = "none"
  <1>1. newState(first, now) \in Epstate /\ "unlock" \in RetPC
    BY DEF newState, Epstate, RetPC
  <1>2. CASE /\ newState(first, now) # now /\ lock' = t
             /\ CallChangeState(t, newState(first, now), "unlock")
    BY <1>1, <1>2, CallThread DEF LocalsOK
  <1>3. CASE Release(t)
    BY <1>3, ReleaseThread
  <1> QED
    BY <1>2, <1>3 DEF Settle

(* What AddEp does with the goroutine that calls it: s is its last look at *)
(* State.                                                                  *)
Looked(t, s) ==
  \/ /\ th'[t].pc = "found" /\ th'[t].tgt = s
     /\ th'[t].ep = th[t].ep /\ lock' = t
  \/ /\ th'[t].pc = "changeState" /\ th'[t].ret = "unlock"
     /\ th'[t].tgt # s /\ th'[t].ep = th[t].ep /\ lock' = t
     /\ \/ s = "removing" /\ th'[t].tgt = "init"
        \/ s # "removing" /\ th[t].pc = "found" /\ th'[t].tgt = th[t].tgt
  \/ /\ th'[t].pc = Home(t) /\ th'[t].ret = "none" /\ lock' = "none"

LEMMA KnownThread ==
  ASSUME TypeInv, NEW t \in Thread, AddEpKnown(t) \/ AddEpTest(t)
  PROVE  /\ th[t].pc \in {"addEp", "found"} /\ th[t].ep \in EP
         /\ th' \in [Thread -> ThRec] /\ Others(t) /\ LocalsOK(th'[t])
         /\ th'[t].todo = th[t].todo
         /\ Looked(t, ep[th[t].ep].state)
  <1> DEFINE e == th[t].ep
             s == ep[e].state
  <1>0. /\ th[t].pc \in {"addEp", "found"} /\ e \in EP /\ s \in Epstate
        /\ th[t] \in ThRec /\ th \in [Thread -> ThRec] /\ th[t].tgt \in Epstate
    BY DEF AddEpKnown, AddEpTest, At, EpPC, TypeInv, TypeOK, ThreadOK, LocalsOK,
           EpRec, ThRec
  <1>1. CASE Settle(t, s, s)
    BY <1>0, <1>1, SettleThread DEF newState, Looked
  <1>2. CASE th[t].pc = "found" /\ Settle(t, th[t].tgt, s)
    BY <1>0, <1>2, SettleThread DEF newState, Looked
  <1>3. CASE /\ th' = [th EXCEPT ![t].pc = "found", ![t].tgt = s]
             /\ lock' = t
    <2> DEFINE x == [th[t] EXCEPT !.pc = "found", !.tgt = s]
    <2>1. x \in ThRec
      BY <1>0 DEF ThRec, PC
    <2>2. th' \in [Thread -> ThRec] /\ Others(t) /\ th'[t] = x
      BY <1>0, <1>3, <2>1, ThreadUpdate
    <2>3. /\ th'[t].pc = "found" /\ th'[t].tgt = s /\ th'[t].ep = e
          /\ th'[t].todo = th[t].todo
      BY <1>0, <2>2 DEF ThRec
    <2> QED
      BY <1>0, <1>3, <2>2, <2>3 DEF LocalsOK, Looked
  <1> QED
    BY <1>1, <1>2, <1>3 DEF AddEpKnown, AddEpTest, At, Cur

LEMMA AddEpThread ==
  ASSUME TypeInv, NEW t \in Thread, AddEp(t) \/ AddEpTest(t)
  PROVE  /\ th[t].pc \in {"addEp", "found"} /\ th[t].ep \in EP
         /\ th' \in [Thread -> ThRec] /\ Others(t) /\ LocalsOK(th'[t])
         /\ th'[t].todo = th[t].todo
  <1>1. CASE AddEpKnown(t) \/ AddEpTest(t)
    BY <1>1, KnownThread
  <1>2. CASE AddEpNew(t)
    <2>1. th[t].pc = "addEp" /\ th[t].ep \in EP /\ th \in [Thread -> ThRec]
      BY <1>2 DEF AddEpNew, At, EpPC, TypeInv, TypeOK, ThreadOK, LocalsOK
    <2>2. CASE UNCHANGED th
      BY <2>1, <2>2, DieLocals
    <2>3. CASE Done(t, Home(t))
      <3>1. Home(t) \in PC \ EpPC /\ Home(t) \notin {"complete", "addCmd", "retry"}
        BY DEF Home, PC, EpPC
      <3> QED
        BY <2>1, <2>3, <3>1, DoneThread DEF LocalsOK
    <2> QED
      BY <1>2, <2>2, <2>3 DEF AddEpNew, Die
  <1> QED
    BY <1>1, <1>2 DEF AddEp

(* AddEp: a known endpoint is refreshed, a new one is well typed.          *)
LEMMA TypeAddEp ==
  ASSUME TypeInv, NEW t \in Thread, AddEp(t) \/ AddEpTest(t)
  PROVE  TypeInv'
  <1> DEFINE e == Cur(t)
  <1>0. e \in EP
    BY AddEpThread DEF Cur
  <1>1. th' \in [Thread -> ThRec] /\ Others(t) /\ LocalsOK(th'[t])
    BY AddEpThread
  <1>2. ThreadOK'
    BY <1>1, ThreadStep DEF TypeInv
  <1>3. CASE AddEpKnown(t) \/ AddEpTest(t)
    <2>1. ep' \in [EP -> EpRec]
      BY <1>0, <1>3, EpLag DEF AddEpKnown, AddEpTest, epVars, TypeInv, TypeOK
    <2>2. lock' \in Thread \cup {"none"}
      BY <1>3, KnownThread DEF Looked
    <2> QED
      BY <1>1, <1>2, <1>3, <2>1, <2>2
      DEF AddEpKnown, AddEpTest, TypeInv, TypeOK, FilesOK, epVars, kerVars,
          envVars
  <1>4. CASE AddEpNew(t)
    <2> DEFINE w == InotifyAddWatch(e)
    <2>1. w \in Wd
      BY <1>0, <1>4, WatchType DEF AddEpNew, Cur
    <2>2. exit' \in Exit
      BY <1>4 DEF AddEpNew, Die, Exit, TypeInv, TypeOK
    <2>3. ep' \in [EP -> EpRec]
      <3> DEFINE x == [NewEp EXCEPT !.state = "init", !.watched = TRUE, !.wid = w]
      <3>1. x \in EpRec
        <4>1. NewEp \in EpRec
          BY NcsiEPAssumption DEF NewEp, EpRec, Epstate, App
        <4> HIDE DEF w
        <4> QED
          BY <2>1, <4>1 DEF EpRec, Epstate
      <3> HIDE DEF x
      <3>2. ep' = ep \/ ep' = [ep EXCEPT ![e] = x]
        BY <1>4 DEF AddEpNew, x
      <3> QED
        BY <3>1, <3>2 DEF TypeInv, TypeOK
    <2>4. wmap' \in [Wd -> EP \cup {NoEP}] /\ kern' \in [EP -> Wd \cup {NoWd}]
      <3>1. \/ UNCHANGED <<wmap, kern>>
            \/ /\ wmap' = [wmap EXCEPT ![w] = e]
               /\ kern' = [kern EXCEPT ![e] = w]
        BY <1>4 DEF AddEpNew, Watches
      <3> HIDE DEF w, e
      <3> QED
        BY <1>0, <2>1, <3>1 DEF TypeInv, TypeOK
    <2>5. nextWd' \in 1..(MaxWd + 1)
      BY <2>1, <1>4, NcsiEPAssumption DEF AddEpNew, Watches, TypeInv, TypeOK, Wd
    <2> QED
      BY <1>1, <1>2, <1>4, <2>2, <2>3, <2>4, <2>5
      DEF AddEpNew, TypeInv, TypeOK, FilesOK, envVars
  <1> QED
    BY <1>3, <1>4 DEF AddEp

(* The lsof goroutine's scan.                                              *)
LEMMA TypeScan ==
  ASSUME TypeInv, LookoutLsof \/ ScanNext \/ ScanMiss
  PROVE  TypeInv'
  <1>0. /\ {"lsof", "inotify"} \subseteq Thread
        /\ th \in [Thread -> ThRec] /\ th["lsof"] \in ThRec
    BY DEF Thread, TypeInv, TypeOK
  <1>1. th["lsof"].todo \in SUBSET EP
    BY <1>0 DEF ThRec
  <1>2. CASE ScanNext
    <2>1. PICK e \in th["lsof"].todo :
            th' = [th EXCEPT !["lsof"].pc = "addEp", !["lsof"].ep = e,
                             !["lsof"].todo = @ \ {e}]
      BY <1>2 DEF ScanNext
    <2> DEFINE x == [th["lsof"] EXCEPT !.pc = "addEp", !.ep = e,
                                       !.todo = @ \ {e}]
    <2>2. x \in ThRec /\ x.pc = "addEp" /\ x.ep = e /\ e \in EP
      BY <1>0, <1>1, <2>1 DEF ThRec, PC
    <2>3. th' = [th EXCEPT !["lsof"] = x]
      BY <2>1
    <2> HIDE DEF x
    <2>4. th' \in [Thread -> ThRec] /\ Others("lsof") /\ th'["lsof"] = x
      BY <1>0, <2>2, <2>3, ThreadUpdate
    <2>5. LocalsOK(th'["lsof"])
      BY <2>2, <2>4 DEF LocalsOK
    <2> QED
      BY <1>0, <1>2, <2>4, <2>5, ControlStep DEF ScanNext, TypeInv, TypeOK
  <1>4. CASE ScanMiss
    <2>1. PICK e \in th["lsof"].todo : th' = [th EXCEPT !["lsof"].todo = @ \ {e}]
      BY <1>4 DEF ScanMiss
    <2> DEFINE x == [th["lsof"] EXCEPT !.todo = @ \ {e}]
    <2>2. x \in ThRec
      BY <1>0 DEF ThRec
    <2>3. th' \in [Thread -> ThRec] /\ Others("lsof") /\ th'["lsof"] = x
      BY <1>0, <2>1, <2>2, ThreadUpdate
    <2>4. th'["lsof"].pc = "sleep"
      BY <1>0, <1>4, <2>3 DEF ThRec, ScanMiss, At
    <2>5. LocalsOK(th'["lsof"])
      BY <2>4 DEF LocalsOK, EpPC
    <2> QED
      BY <1>0, <1>4, <2>3, <2>5, ControlStep DEF ScanMiss, TypeInv, TypeOK
  <1>5. CASE LookoutLsof
    <2> DEFINE x == [th["lsof"] EXCEPT !.pc = "sleep",
                                       !.todo = {e \in EP : Visible(e)}]
    <2>1. x \in ThRec
      <3>1. {e \in EP : Visible(e)} \in SUBSET EP /\ "sleep" \in PC
        BY DEF PC
      <3> QED
        BY <1>0, <3>1 DEF ThRec
    <2>2. th' \in [Thread -> ThRec] /\ Others("lsof") /\ th'["lsof"] = x
      <3>1. th' = [th EXCEPT !["lsof"] = x]
        BY <1>5 DEF LookoutLsof
      <3> HIDE DEF x
      <3> QED
        BY <1>0, <2>1, <3>1, ThreadUpdate
    <2>3. LocalsOK(th'["lsof"])
      <3>1. th'["lsof"].pc = "sleep"
        BY <1>0, <2>2 DEF ThRec
      <3> QED
        BY <3>1 DEF LocalsOK, EpPC
    <2>4. ThreadOK'
      BY <1>0, <2>2, <2>3, ThreadStep DEF TypeInv
    <2>5. ep' \in [EP -> EpRec]
      <3> SUFFICES ASSUME NEW e \in EP
                   PROVE  [ep[e] EXCEPT !.lag = Older(@, 2)] \in EpRec
        BY <1>5 DEF LookoutLsof, TypeInv, TypeOK
      <3>1. ep[e] \in EpRec
        BY DEF TypeInv, TypeOK
      <3>2. Older(ep[e].lag, 2) \in 0..2
        BY <3>1 DEF EpRec, Older
      <3> QED
        BY <3>1, <3>2 DEF EpRec
    <2>6. up' \in [EP -> 0..2]
      BY <1>5 DEF LookoutLsof, Older, TypeInv, TypeOK
    <2> QED
      BY <1>5, <2>2, <2>4, <2>5, <2>6
      DEF LookoutLsof, TypeInv, TypeOK, FilesOK, kerVars, envVars
  <1> QED
    BY <1>2, <1>4, <1>5

(* What the kernel queues: an event of its type, within the queue's limit. *)
LEMMA EmitType ==
  ASSUME evq \in Seq(Event), Len(evq) <= MaxEvents, NEW ev \in Event, Emit(ev)
  PROVE  evq' \in Seq(Event) /\ Len(evq') <= MaxEvents
  BY LookoutAssumption DEF Emit

(* An IN_CREATE event names an endpoint.                                   *)
LEMMA CreateEventType ==
  ASSUME NEW e \in EP PROVE CreateEvent(e) \in Event
  BY DEF CreateEvent, Event

(* An IN_MOVED_TO event names a watch and a command.                       *)
LEMMA MovedEventType ==
  ASSUME NEW w \in Wd, NEW c \in Cmd PROVE MovedEvent(w, c) \in Event
  BY DEF MovedEvent, Event

(* AddEp releases epc.mutex.                                               *)
LEMMA TypeUnlock ==
  ASSUME TypeInv, NEW t \in Thread, Unlock(t)
  PROVE  TypeInv'
  <1>1. /\ th' \in [Thread -> ThRec] /\ Others(t) /\ LocalsOK(th'[t])
        /\ lock' = "none"
    BY ReleaseThread DEF Unlock, TypeInv, TypeOK
  <1> QED
    BY <1>1, ControlStep DEF Unlock, TypeInv, TypeOK

(* processEvent: the endpoint that epWatchLookup finds is one that exists. *)
LEMMA TypeProcessEvent ==
  ASSUME TypeInv, ProcessEvent
  PROVE  TypeInv'
  <1> DEFINE t  == "inotify"
             ev == Head(evq)
  <1>0. t \in Thread /\ th \in [Thread -> ThRec] /\ th[t] \in ThRec
    BY DEF Thread, TypeInv, TypeOK
  <1>1. /\ ev \in Event
        /\ evq' \in Seq(Event) /\ Len(evq') <= MaxEvents
    BY LookoutAssumption DEF ProcessEvent, TypeInv, TypeOK
  <1>2. th' \in [Thread -> ThRec] /\ Others(t) /\ LocalsOK(th'[t])
    <2>1. CASE /\ ev.type = "create"
               /\ th' = [th EXCEPT ![t].pc = "addEp", ![t].ep = ev.ep]
      <3> DEFINE x == [th[t] EXCEPT !.pc = "addEp", !.ep = ev.ep]
      <3>1. ev.ep \in EP
        BY <1>1, <2>1 DEF Event
      <3>2. x \in ThRec
        BY <1>0, <3>1 DEF ThRec, PC
      <3>3. th' \in [Thread -> ThRec] /\ Others(t) /\ th'[t] = x
        BY <1>0, <2>1, <3>2, ThreadUpdate
      <3>4. th'[t].pc = "addEp" /\ th'[t].ep = ev.ep
        BY <1>0, <3>3 DEF ThRec
      <3> QED
        BY <3>1, <3>3, <3>4 DEF LocalsOK
    <2>2. CASE /\ ev.type = "moved" /\ wmap[ev.wd] # NoEP
               /\ th' = [th EXCEPT ![t].pc = "complete",
                                   ![t].ep = wmap[ev.wd], ![t].cmd = ev.cmd]
      <3> DEFINE y == wmap[ev.wd]
                 x == [th[t] EXCEPT !.pc = "complete", !.ep = y, !.cmd = ev.cmd]
      <3>1. y \in EP /\ ev.cmd \in Cmd
        <4>1. ev.wd \in Wd /\ ev.cmd \in Cmd
          BY <1>1, <2>2 DEF Event
        <4> QED
          BY <4>1, <2>2 DEF TypeInv, TypeOK
      <3> HIDE DEF y
      <3>2. x \in ThRec
        BY <1>0, <3>1 DEF ThRec, PC
      <3>3. th' \in [Thread -> ThRec] /\ Others(t) /\ th'[t] = x
        <4>1. th' = [th EXCEPT ![t] = x]
          BY <2>2 DEF y
        <4> HIDE DEF x, t
        <4> QED
          BY <1>0, <3>2, <4>1, ThreadUpdate
      <3>4. th'[t].pc = "complete" /\ th'[t].ep = y /\ th'[t].cmd = ev.cmd
        BY <1>0, <3>3 DEF ThRec
      <3> QED
        BY <3>1, <3>3, <3>4 DEF LocalsOK
    <2>3. CASE UNCHANGED th
      BY <1>0, <2>3, DieLocals
    <2> QED
      BY <2>1, <2>2, <2>3 DEF ProcessEvent
  <1>3. ThreadOK'
    BY <1>0, <1>2, ThreadStep DEF TypeInv
  <1> QED
    BY <1>1, <1>2, <1>3 DEF ProcessEvent, TypeInv, TypeOK, FilesOK, epVars, envVars

(* Complete's removeCmd and loadOutfile.                                   *)
LEMMA TypeComplete ==
  ASSUME TypeInv, Complete
  PROVE  TypeInv'
  <1> DEFINE t == "inotify"
             c == th[t].cmd
             r == cmd[c]
  <1>0. /\ t \in Thread /\ th \in [Thread -> ThRec] /\ th[t] \in ThRec
        /\ th[t].pc \in EpPC /\ Cur(t) \in EP /\ c \in Cmd
    BY DEF Complete, At, EpPC, Thread, Cur, TypeInv, TypeOK, ThreadOK, LocalsOK
  <1>1. pend' \in [EP -> SUBSET Cmd]
    BY <1>0 DEF Complete, removeCmd, TypeInv, TypeOK
  <1>2. cmd' \in [Cmd -> CmdRec] /\ FilesOK'
    <2>1. NoCommand \in CmdRec /\ NoCommand.file = "none"
      BY NcsiEPAssumption DEF NoCommand, CmdRec
    <2>2. cmd' = cmd \/ cmd' = [cmd EXCEPT ![c] = NoCommand]
      BY DEF Complete
    <2> QED
      BY <1>0, <2>1, <2>2 DEF FilesOK, TypeInv, TypeOK
  <1>3. th' \in [Thread -> ThRec] /\ Others(t) /\ LocalsOK(th'[t])
    <2>0. "read" \in PC \ EpPC
      BY DEF PC, EpPC
    <2>1. CASE Done(t, "read")
      BY <1>0, <2>0, <2>1, DoneLocals
    <2>2. CASE /\ loadOutfile(c)
               /\ th' = [th EXCEPT ![t].pc = "revive", ![t].op = r.op,
                                   ![t].out = r.file, ![t].cmd = NoCmd]
      <3>1. r.op \in EPcmdType \cup {"none"} /\ r.file \in Answer \cup {"none"}
        BY <1>0, <2>2 DEF loadOutfile, TypeInv, TypeOK, CmdRec, Answer
      <3> HIDE DEF r
      <3> DEFINE x == [th[t] EXCEPT !.pc = "revive", !.op = r.op,
                                    !.out = r.file, !.cmd = NoCmd]
      <3>2. x \in ThRec
        <4>1. "revive" \in PC
          BY DEF PC
        <4> QED
          BY <1>0, <3>1, <4>1 DEF ThRec
      <3>3. th' \in [Thread -> ThRec] /\ Others(t) /\ th'[t] = x
        <4>1. th' = [th EXCEPT ![t] = x]
          BY <2>2 DEF r
        <4> HIDE DEF x, t
        <4> QED
          BY <1>0, <3>2, <4>1, ThreadUpdate
      <3>4. th'[t].pc = "revive" /\ th'[t].ep = th[t].ep
        BY <1>0, <3>3 DEF ThRec
      <3> QED
        BY <1>0, <3>3, <3>4 DEF LocalsOK, Cur
    <2> QED
      BY <2>1, <2>2 DEF Complete
  <1>4. ThreadOK'
    BY <1>0, <1>3, ThreadStep DEF TypeInv
  <1> QED
    BY <1>1, <1>2, <1>3, <1>4 DEF Complete, TypeInv, TypeOK, kerVars, envVars

(* Complete's ChangeState from down, and its switch on c.op.               *)
LEMMA TypeReviveApply ==
  ASSUME TypeInv, Revive \/ Apply
  PROVE  TypeInv'
  <1> DEFINE t == "inotify"
             e == Cur(t)
  <1>0. /\ t \in Thread /\ th \in [Thread -> ThRec]
        /\ th[t].pc \in EpPC /\ e \in EP
    BY DEF Revive, Apply, At, EpPC, Thread, Cur, TypeInv, TypeOK, ThreadOK,
           LocalsOK
  <1>1. /\ "read" \in PC \ EpPC /\ "apply" \in PC
        /\ {"running", "identified"} \subseteq Epstate
        /\ {"apply", "read", "query"} \subseteq RetPC
    BY DEF PC, EpPC, Epstate, RetPC
  <1>2. th' \in [Thread -> ThRec] /\ Others(t) /\ LocalsOK(th'[t])
    <2>1. CASE Revive
      <3>1. CallChangeState(t, "running", "apply") \/ Goto(t, "apply")
        BY <2>1 DEF Revive, CallChangeState
      <3> QED
        BY <1>0, <1>1, <3>1, CallLocals, GotoLocals
    <2>2. CASE Apply
      <3>1. \/ CallChangeState(t, "running", "read") \/ Done(t, "read")
            \/ CallChangeState(t, "identified", "query") \/ UNCHANGED th
        BY <2>2 DEF Apply, Die
      <3> QED
        BY <1>0, <1>1, <3>1, CallLocals, DoneLocals, DieLocals
    <2> QED
      BY <2>1, <2>2
  <1>3. ThreadOK'
    BY <1>0, <1>2, ThreadStep DEF TypeInv
  <1>4. ep' \in [EP -> EpRec]
    <2>0. ep \in [EP -> EpRec]
      BY DEF TypeInv, TypeOK
    <2>1. CASE UNCHANGED ep
      BY <2>0, <2>1
    <2>2. CASE ep' = [ep EXCEPT ![e].seen = 0]
      BY <1>0, <2>0, <2>2, EpSeen
    <2>3. CASE ep' = [ep EXCEPT ![e].app = DetermineApp(th[t].out, e)]
      <3>1. DetermineApp(th[t].out, e) \in App
        BY <1>0, NcsiEPAssumption DEF DetermineApp, App
      <3> QED
        BY <1>0, <2>0, <2>3, <3>1, EpApp
    <2> QED
      BY <2>1, <2>2, <2>3 DEF Revive, Apply, epVars
  <1>5. exit' \in Exit
    BY DEF Revive, Apply, Die, Exit, TypeInv, TypeOK
  <1> QED
    BY <1>2, <1>3, <1>4, <1>5
    DEF Revive, Apply, TypeInv, TypeOK, FilesOK, epVars, kerVars, envVars

(* The runtime's throw on concurrent use of pendingCmds.                   *)
LEMMA TypeConcurrentMapWrite ==
  ASSUME TypeInv, ConcurrentMapWrite
  PROVE  TypeInv'
  BY DEF ConcurrentMapWrite, Die, Exit, TypeInv, TypeOK, ThreadOK, FilesOK,
         epVars, kerVars, envVars

(* Time passes: ages stay within their caps.                               *)
LEMMA TypeTick ==
  ASSUME TypeInv, Tick
  PROVE  TypeInv'
  <1>1. ep' \in [EP -> EpRec]
    <2> SUFFICES ASSUME NEW e \in EP
                 PROVE  [ep[e] EXCEPT !.seen = Older(@, Timeout + 1)] \in EpRec
      BY DEF Tick, TypeInv, TypeOK
    <2>1. ep[e] \in EpRec
      BY DEF TypeInv, TypeOK
    <2>2. Older(ep[e].seen, Timeout + 1) \in 0..(Timeout + 1)
      BY <2>1, NcsiEPAssumption DEF EpRec, Older
    <2> QED
      BY <2>1, <2>2 DEF EpRec
  <1>2. cmd' \in [Cmd -> CmdRec] /\ FilesOK'
    <2> SUFFICES ASSUME NEW c \in Cmd
                 PROVE  /\ cmd'[c] \in CmdRec
                        /\ cmd'[c].file # "none" => cmd'[c].ep \in EP
      BY DEF Tick, FilesOK
    <2>1. cmd[c] \in CmdRec
      BY DEF TypeInv, TypeOK
    <2>2. Older(cmd[c].age, TTL + 1) \in 0..(TTL + 1)
      BY <2>1, NcsiEPAssumption DEF CmdRec, Older
    <2>3. \/ cmd'[c] = cmd[c]
          \/ cmd'[c] = [cmd[c] EXCEPT !.age = Older(@, TTL + 1)]
      BY DEF Tick
    <2>4. /\ cmd'[c] \in CmdRec
          /\ cmd'[c].file = cmd[c].file /\ cmd'[c].ep = cmd[c].ep
      BY <2>1, <2>2, <2>3 DEF CmdRec
    <2> QED
      BY <2>4 DEF TypeInv, FilesOK
  <1> QED
    BY <1>1, <1>2 DEF Tick, TypeInv, TypeOK, ThreadOK, kerVars, envVars

(* An application answers, once or again.                                  *)
LEMMA TypeAnswer ==
  ASSUME TypeInv, NEW c \in Cmd, AppAnswer(c) \/ AppAnswersAgain(c)
  PROVE  TypeInv'
  <1> DEFINE e == cmd[c].ep
  <1>0. cmd[c] \in CmdRec /\ e \in EP
    BY DEF AppAnswer, AppAnswersAgain, TypeInv, TypeOK, FilesOK, Answer
  <1>1. evq' \in Seq(Event) /\ Len(evq') <= MaxEvents
    <2>1. CASE UNCHANGED evq
      BY <2>1 DEF TypeInv, TypeOK
    <2>2. CASE kern[e] # NoWd /\ Emit(MovedEvent(kern[e], c))
      <3>1. kern[e] \in Wd
        BY <1>0, <2>2 DEF TypeInv, TypeOK
      <3> QED
        BY <2>2, <3>1, MovedEventType, EmitType DEF TypeInv, TypeOK
    <2> QED
      BY <2>1, <2>2 DEF AppAnswer, AppAnswersAgain
  <1>2. cmd' \in [Cmd -> CmdRec] /\ FilesOK'
    <2>1. CASE UNCHANGED cmd
      BY <2>1 DEF TypeInv, TypeOK, FilesOK
    <2>2. CASE AppAnswer(c)
      <3>1. PICK a \in Answer :
              cmd' = [cmd EXCEPT ![c] = IF @.live THEN [@ EXCEPT !.file = a]
                                                  ELSE NoCommand]
        BY <2>2 DEF AppAnswer
      <3> DEFINE x == IF cmd[c].live THEN [cmd[c] EXCEPT !.file = a]
                                     ELSE NoCommand
      <3>2. x \in CmdRec /\ (x.file # "none" => x.ep \in EP)
        <4>1. NoCommand \in CmdRec /\ NoCommand.file = "none"
          BY NcsiEPAssumption DEF NoCommand, CmdRec
        <4>2. /\ [cmd[c] EXCEPT !.file = a] \in CmdRec
              /\ [cmd[c] EXCEPT !.file = a].ep = e
          BY <1>0, LookoutAssumption DEF CmdRec
        <4> QED
          BY <1>0, <4>1, <4>2
      <3>3. cmd' = [cmd EXCEPT ![c] = x]
        BY <3>1
      <3> HIDE DEF x
      <3> QED
        BY <3>2, <3>3 DEF TypeInv, TypeOK, FilesOK
    <2> QED
      BY <2>1, <2>2 DEF AppAnswersAgain, epVars
  <1>3. budget' \in 0..MaxEnv
    BY LookoutAssumption
    DEF AppAnswer, AppAnswersAgain, Spend, envVars, TypeInv, TypeOK
  <1> QED
    BY <1>1, <1>2, <1>3
    DEF AppAnswer, AppAnswersAgain, TypeInv, TypeOK, ThreadOK, epVars, envVars

(* A monitored process starts, stops, builds or touches its directory.     *)
LEMMA TypeProcess ==
  ASSUME TypeInv, NEW e \in EP,
         \/ ProcStart(e) \/ ProcStop(e) \/ MakeRoot(e)
         \/ MakeOutput(e) \/ Touch(e)
  PROVE  TypeInv'
  <1>1. evq' \in Seq(Event) /\ Len(evq') <= MaxEvents
    <2>1. UNCHANGED evq \/ Emit(CreateEvent(e))
      BY DEF ProcStart, ProcStop, MakeRoot, MakeOutput, Touch, kerVars
    <2> QED
      BY <2>1, CreateEventType, EmitType DEF TypeInv, TypeOK
  <1>2. budget' \in 0..MaxEnv
    BY LookoutAssumption
    DEF ProcStart, ProcStop, MakeRoot, MakeOutput, Touch, Spend, TypeInv, TypeOK
  <1>3. /\ proc' \in [EP -> BOOLEAN] /\ up' \in [EP -> 0..2]
        /\ dir' \in [EP -> {"none", "root", "full"}]
    <2>0. /\ proc \in [EP -> BOOLEAN] /\ up \in [EP -> 0..2]
          /\ dir \in [EP -> {"none", "root", "full"}]
      BY DEF TypeInv, TypeOK
    <2>1. proc' \in [EP -> BOOLEAN]
      <3>1. \/ UNCHANGED proc
            \/ \E b \in BOOLEAN : proc' = [proc EXCEPT ![e] = b]
        BY DEF ProcStart, ProcStop, MakeRoot, MakeOutput, Touch
      <3> QED
        BY <2>0, <3>1
    <2>2. up' \in [EP -> 0..2]
      BY <2>0 DEF ProcStart, ProcStop, MakeRoot, MakeOutput, Touch
    <2>3. dir' \in [EP -> {"none", "root", "full"}]
      BY <2>0 DEF ProcStart, ProcStop, MakeRoot, MakeOutput, Touch
    <2> QED
      BY <2>1, <2>2, <2>3
  <1>4. UNCHANGED <<ep, pend, cmd, wmap, lock, th, exit, kern, nextWd>>
    BY DEF ProcStart, ProcStop, MakeRoot, MakeOutput, Touch, epVars, kerVars
  <1> QED
    BY <1>1, <1>2, <1>3, <1>4 DEF TypeInv, TypeOK, ThreadOK, FilesOK

(* An endpoint's directory is removed.                                     *)
LEMMA TypeRemoveDir ==
  ASSUME TypeInv, NEW e \in EP, RemoveDir(e)
  PROVE  TypeInv'
  <1>1. cmd' \in [Cmd -> CmdRec] /\ FilesOK'
    <2> SUFFICES ASSUME NEW c \in Cmd
                 PROVE  /\ cmd'[c] \in CmdRec
                        /\ cmd'[c].file # "none" => cmd'[c].ep \in EP
      BY DEF RemoveDir, FilesOK
    <2>1. cmd[c] \in CmdRec
      BY DEF TypeInv, TypeOK
    <2>2. /\ [cmd[c] EXCEPT !.file = "none"] \in CmdRec
          /\ [cmd[c] EXCEPT !.file = "none"].file = "none"
      BY <2>1 DEF CmdRec
    <2> QED
      BY <2>1, <2>2 DEF RemoveDir, TypeInv, FilesOK
  <1>2. budget' \in 0..MaxEnv
    BY LookoutAssumption DEF RemoveDir, Spend, TypeInv, TypeOK
  <1>3. /\ up' \in [EP -> 0..2] /\ kern' \in [EP -> Wd \cup {NoWd}]
        /\ dir' \in [EP -> {"none", "root", "full"}]
    BY DEF RemoveDir, TypeInv, TypeOK
  <1> QED
    BY <1>1, <1>2, <1>3 DEF RemoveDir, TypeInv, TypeOK, ThreadOK

(* Every step keeps TypeInv.                                               *)
LEMMA NextType == TypeInv /\ [Next]_vars => TypeInv'
  <1> SUFFICES ASSUME TypeInv, [Next]_vars PROVE TypeInv'
    OBVIOUS
  <1>0. {"monitor", "lsof", "inotify"} \subseteq Thread
    BY DEF Thread
  <1>1. CASE UNCHANGED vars
    BY <1>1 DEF vars, TypeInv, TypeOK, ThreadOK, FilesOK
  <1>2. ASSUME NEW t \in Thread, ChangeStateStep(t) PROVE TypeInv'
    BY <1>2, TypeChangeState, TypeSetters DEF ChangeStateStep
  <1>3. ASSUME NEW t \in Thread, SubmitStep(t) PROVE TypeInv'
    BY <1>3, TypeSubmit, TypeQuery DEF SubmitStep
  <1>4. CASE Monitor
    BY <1>0, <1>2, <1>3, <1>4, TypeMonitorControl, TypeCleanNext,
       TypeEpWatchRemove DEF Monitor
  <1>5. CASE Lsof
    BY <1>0, <1>2, <1>5, TypeScan, TypeAddEp, TypeEpWatchAdd,
       TypeEpWatchRemove, TypeUnlock DEF Lsof
  <1>6. CASE Inotify
    <2>1. "inotify" \in Thread
      BY <1>0
    <2>2. CASE QueryApp
      BY <2>1, <2>2, TypeQuery
    <2>3. CASE ~QueryApp
      BY <2>1, <2>3, <1>2, <1>3, <1>6, TypeProcessEvent, TypeAddEp, TypeUnlock,
         TypeComplete, TypeReviveApply, TypeEpWatchAdd DEF Inotify
    <2> QED
      BY <2>2, <2>3
  <1>7. CASE ConcurrentMapWrite
    BY <1>7, TypeConcurrentMapWrite
  <1>8. CASE Environment
    BY <1>8, TypeTick, TypeAnswer, TypeProcess, TypeRemoveDir DEF Environment
  <1> QED
    BY <1>1, <1>4, <1>5, <1>6, <1>7, <1>8 DEF Next, Halted

(* Type correctness of the whole monitoring core.                          *)
THEOREM TypeInvariant == Spec => []TypeInv
  BY InitType, NextType, PTL DEF Spec

(* Every variable of the monitoring core keeps its type, and the kernel's  *)
(* event queue its limit, in every state any interleaving of the           *)
(* goroutines reaches.                                                     *)
THEOREM TypeCorrect == Spec => []TypeOK
  <1>1. TypeInv => TypeOK
    BY DEF TypeInv
  <1> QED
    BY <1>1, TypeInvariant, PTL
=============================================================================
