---------------------------- MODULE WatchProofs -----------------------------
(***************************************************************************)
(* Proofs about the inotify watches: inotify.wmap, the wid fields of the   *)
(* endpoints and the kernel's watches stay consistent although ChangeState *)
(* checks ep.wid in one step and takes inotify.mutex in a later one; and   *)
(* what the assertion of ensureWatchedState rests on.                      *)
(***************************************************************************)
EXTENDS ControlProofs

(* The kernel gives different directories different descriptors, and a new *)
(* watch one that was never handed out before.                             *)
KernelInv ==
  /\ \A e \in EP : kern[e] < nextWd
  /\ \A e, f \in EP : kern[e] = kern[f] /\ kern[e] # NoWd => e = f

(* wmap and the wid fields are inverse to each other, and name a watch     *)
(* that the kernel has.                                                    *)
TableInv ==
  \A e \in EP, w \in Wd :
    /\ wmap[w] = e <=> ep[e].wid = w
    /\ wmap[w] = e => kern[e] = w

WatchInv == "rmdir" \notin Faults => KernelInv /\ TableInv

-----------------------------------------------------------------------------
(* A watch is added where wmap has no entry, which is what EpWatchAdd and  *)
(* AddEp check under inotify.mutex: then e has no other watch either,      *)
(* although ep.wid was read before the mutex was taken.                    *)
LEMMA AddWatch ==
  ASSUME TypeInv, KernelInv, TableInv, NEW e \in EP, NEW w \in Wd,
         w = InotifyAddWatch(e), wmap[w] = NoEP, Watches(e, w),
         wmap' = [wmap EXCEPT ![w] = e],
         ep' \in [EP -> EpRec], ep'[e].wid = w,
         \A f \in EP : f # e => ep'[f].wid = ep[f].wid
  PROVE  KernelInv' /\ TableInv'
  <1>0. /\ kern \in [EP -> Wd \cup {NoWd}] /\ nextWd \in 1..(MaxWd + 1)
        /\ wmap \in [Wd -> EP \cup {NoEP}] /\ NoEP \notin EP
        /\ ep \in [EP -> EpRec] /\ MaxWd \in Nat
    BY NcsiEPAssumption DEF TypeInv, TypeOK
  <1>1. /\ kern'[e] = w /\ \A f \in EP : f # e => kern'[f] = kern[f]
        /\ nextWd' >= nextWd /\ w < nextWd'
    <2>1. kern'[e] = w /\ \A f \in EP : f # e => kern'[f] = kern[f]
      BY <1>0 DEF Watches
    <2>2. kern[e] < nextWd
      BY DEF KernelInv
    <2>3. nextWd' >= nextWd /\ w < nextWd'
      BY <1>0, <2>2 DEF Watches, InotifyAddWatch, Wd
    <2> QED
      BY <2>1, <2>3
  <1>2. ASSUME NEW f \in EP, f # e PROVE kern[f] # w
    BY <1>0, <1>2 DEF KernelInv, InotifyAddWatch, Wd, NoWd
  <1>3. KernelInv'
    <2>1. ASSUME NEW f \in EP PROVE kern'[f] < nextWd'
      <3>1. kern[f] < nextWd /\ kern[f] \in Int
        BY <1>0 DEF KernelInv, Wd, NoWd
      <3>2. nextWd \in Int /\ nextWd' \in Int
        BY <1>0 DEF Watches
      <3> QED
        BY <1>1, <3>1, <3>2
    <2>2. ASSUME NEW f \in EP, NEW g \in EP, kern'[f] = kern'[g],
                 kern'[f] # NoWd
          PROVE  f = g
      BY <1>1, <1>2, <2>2 DEF KernelInv
    <2> QED
      BY <2>1, <2>2 DEF KernelInv
  <1>4. ASSUME NEW x \in Wd, x # w PROVE wmap[x] # e
    <2> SUFFICES ASSUME wmap[x] = e PROVE FALSE
      OBVIOUS
    <2>1. kern[e] = x
      BY <1>4 DEF TableInv
    <2>2. w = x
      BY <2>1 DEF InotifyAddWatch, Wd, NoWd
    <2> QED
      BY <1>4, <2>2
  <1>5. wmap'[w] = e /\ \A x \in Wd : x # w => wmap'[x] = wmap[x]
    BY <1>0
  <1>6. ASSUME NEW f \in EP, NEW x \in Wd
        PROVE  /\ wmap'[x] = f <=> ep'[f].wid = x
               /\ wmap'[x] = f => kern'[f] = x
    <2>1. /\ wmap[x] = f <=> ep[f].wid = x
          /\ wmap[x] = f => kern[f] = x
      BY DEF TableInv
    <2>2. CASE f = e
      BY <1>1, <1>4, <1>5, <2>2
    <2>3. CASE f # e
      <3>1. ep[f].wid # w
        BY <1>0, <2>3 DEF TableInv
      <3> QED
        BY <1>1, <1>5, <2>1, <2>3, <3>1
    <2> QED
      BY <2>2, <2>3
  <1> QED
    BY <1>3, <1>6 DEF TableInv

(* A step that touches no watch and no wid keeps WatchInv.                 *)
LEMMA WatchFrame ==
  ASSUME WatchInv, UNCHANGED <<wmap, kern, nextWd>>,
         \A e \in EP : ep'[e].wid = ep[e].wid
  PROVE  WatchInv'
  BY DEF WatchInv, KernelInv, TableInv

(* EpWatchAdd keeps WatchInv.                                              *)
LEMMA WatchEpWatchAdd ==
  ASSUME TypeInv, TypeInv', WatchInv, NEW t \in Thread, EpWatchAdd(t)
  PROVE  WatchInv'
  <1> DEFINE e == Cur(t)
             w == InotifyAddWatch(e)
  <1>0. /\ e \in EP /\ ep \in [EP -> EpRec] /\ ep' \in [EP -> EpRec]
        /\ ep[e] \in EpRec
    BY DEF EpWatchAdd, At, EpPC, Cur, TypeInv, TypeOK, ThreadOK, LocalsOK
  <1>1. w \in Wd
    BY <1>0, WatchType DEF EpWatchAdd
  <1>2. CASE UNCHANGED <<ep, wmap, kern, nextWd>>
    BY <1>2, WatchFrame
  <1>3. CASE /\ wmap[w] = NoEP /\ Watches(e, w)
             /\ ep' = [ep EXCEPT ![e].wid = w]
             /\ wmap' = [wmap EXCEPT ![w] = e]
    <2>1. ep' = [ep EXCEPT ![e] = [ep[e] EXCEPT !.wid = w]]
      BY <1>3
    <2>2. [ep[e] EXCEPT !.wid = w].wid = w
      BY <1>0 DEF EpRec
    <2>3. ep'[e].wid = w /\ \A f \in EP : f # e => ep'[f].wid = ep[f].wid
      BY <1>0, <2>1, <2>2
    <2> HIDE DEF e, w
    <2>4. w = InotifyAddWatch(e)
      BY DEF w
    <2> QED
      BY <1>0, <1>1, <1>3, <2>3, <2>4, AddWatch DEF WatchInv
  <1> QED
    BY <1>2, <1>3 DEF EpWatchAdd

(* AddEp keeps WatchInv.                                                   *)
LEMMA WatchAddEp ==
  ASSUME TypeInv, TypeInv', WatchInv, NEW t \in Thread, AddEp(t)
  PROVE  WatchInv'
  <1> DEFINE e == Cur(t)
             w == InotifyAddWatch(e)
             x == [NewEp EXCEPT !.state = "init", !.watched = TRUE, !.wid = w]
  <1>0. /\ ep \in [EP -> EpRec] /\ ep' \in [EP -> EpRec] /\ ep[e] \in EpRec
        /\ e \in EP
    BY AddEpThread DEF TypeInv, TypeOK, Cur
  <1>1. CASE AddEpKnown(t)
    <2>1. ep' = [ep EXCEPT ![e] = [ep[e] EXCEPT !.lag = 0]]
      BY <1>1 DEF AddEpKnown
    <2>2. [ep[e] EXCEPT !.lag = 0].wid = ep[e].wid
      BY <1>0 DEF EpRec
    <2>3. \A f \in EP : ep'[f].wid = ep[f].wid
      BY <1>0, <2>1, <2>2
    <2> QED
      BY <1>1, <2>3, WatchFrame DEF AddEpKnown, kerVars
  <1>2. CASE AddEpNew(t)
    <2>0. w \in Wd
      BY <1>0, <1>2, WatchType DEF AddEpNew
    <2>1. CASE UNCHANGED <<ep, wmap, kern, nextWd>>
      BY <2>1, WatchFrame
    <2>2. CASE /\ wmap[w] = NoEP /\ Watches(e, w)
               /\ ep' = [ep EXCEPT ![e] = x] /\ wmap' = [wmap EXCEPT ![w] = e]
      <3>1. x.wid = w
        <4> HIDE DEF w
        <4> QED
          BY DEF NewEp
      <3> HIDE DEF x
      <3>2. ep'[e].wid = w /\ \A f \in EP : f # e => ep'[f].wid = ep[f].wid
        BY <1>0, <2>2, <3>1
      <3> HIDE DEF w
      <3>3. w = InotifyAddWatch(e)
        BY DEF w
      <3> HIDE DEF e
      <3> QED
        BY <1>0, <2>0, <2>2, <3>2, <3>3, AddWatch DEF WatchInv
    <2> QED
      BY <1>2, <2>1, <2>2 DEF AddEpNew
  <1> QED
    BY <1>1, <1>2 DEF AddEp

(* EpWatchRemove takes out the entry and resets the wid together; what it  *)
(* then asks the kernel to remove is -1, so no watch goes.                 *)
LEMMA WatchEpWatchRemove ==
  ASSUME TypeInv, WatchInv, NEW t \in Thread, EpWatchRemove(t)
  PROVE  WatchInv'
  <1> DEFINE e == Cur(t)
             v == ep[e].wid
  <1>0. /\ e \in EP /\ ep \in [EP -> EpRec] /\ ep[e] \in EpRec
        /\ wmap \in [Wd -> EP \cup {NoEP}] /\ kern \in [EP -> Wd \cup {NoWd}]
        /\ NoEP \notin EP
    BY NcsiEPAssumption
    DEF EpWatchRemove, At, EpPC, Cur, TypeInv, TypeOK, ThreadOK, LocalsOK
  <1>1. CASE UNCHANGED <<ep, wmap, kern>>
    BY <1>1, WatchFrame DEF EpWatchRemove
  <1>2. CASE /\ wmap' = [wmap EXCEPT ![v] = NoEP]
             /\ ep' = [ep EXCEPT ![e].wid = NoWd]
             /\ kern' = InotifyRmWatch(NoWd)
    <2>1. kern' = kern
      BY <1>0, <1>2 DEF InotifyRmWatch
    <2>2. ep'[e].wid = NoWd /\ \A f \in EP : f # e => ep'[f].wid = ep[f].wid
      <3>1. ep' = [ep EXCEPT ![e] = [ep[e] EXCEPT !.wid = NoWd]]
        BY <1>2
      <3>2. [ep[e] EXCEPT !.wid = NoWd].wid = NoWd
        BY <1>0 DEF EpRec
      <3> QED
        BY <1>0, <3>1, <3>2
    <2>3. \A x \in Wd : wmap'[x] = IF x = v THEN NoEP ELSE wmap[x]
      BY <1>0, <1>2
    <2>4. ASSUME "rmdir" \notin Faults PROVE KernelInv' /\ TableInv'
      <3>1. KernelInv /\ TableInv /\ UNCHANGED nextWd
        BY <2>4 DEF WatchInv, EpWatchRemove
      <3>2. ASSUME NEW f \in EP, NEW x \in Wd
            PROVE  /\ wmap'[x] = f <=> ep'[f].wid = x
                   /\ wmap'[x] = f => kern'[f] = x
        <4>1. /\ wmap[x] = f <=> ep[f].wid = x
              /\ wmap[x] = f => kern[f] = x
              /\ wmap[x] = e <=> ep[e].wid = x
          BY <1>0, <3>1 DEF TableInv
        <4>2. x # NoWd
          BY DEF Wd, NoWd
        <4> HIDE DEF e
        <4> QED
          BY <1>0, <2>1, <2>2, <2>3, <4>1, <4>2
      <3> QED
        BY <2>1, <3>1, <3>2 DEF KernelInv, TableInv
    <2> QED
      BY <2>4 DEF WatchInv
  <1> QED
    BY <1>1, <1>2 DEF EpWatchRemove

(* Every other update of an endpoint leaves its wid alone.                 *)
LEMMA WidField ==
  ASSUME ep \in [EP -> EpRec], NEW e \in EP, NEW x,
         \/ ep' = [ep EXCEPT ![e].watched = x]
         \/ ep' = [ep EXCEPT ![e].state = x]
         \/ ep' = [ep EXCEPT ![e].seen = x]
         \/ ep' = [ep EXCEPT ![e].app = x]
  PROVE  \A f \in EP : ep'[f].wid = ep[f].wid
  <1>1. ASSUME NEW r, ep' = [ep EXCEPT ![e] = r], r.wid = ep[e].wid
        PROVE  \A f \in EP : ep'[f].wid = ep[f].wid
    BY <1>1
  <1>2. ep[e] \in EpRec
    OBVIOUS
  <1>3. /\ [ep[e] EXCEPT !.watched = x].wid = ep[e].wid
        /\ [ep[e] EXCEPT !.state = x].wid = ep[e].wid
        /\ [ep[e] EXCEPT !.seen = x].wid = ep[e].wid
        /\ [ep[e] EXCEPT !.app = x].wid = ep[e].wid
    BY <1>2 DEF EpRec
  <1> QED
    BY <1>1, <1>3

(* The assignments of ChangeState leave every wid alone.                   *)
LEMMA WatchSetters ==
  ASSUME TypeInv, NEW t \in Thread, SetWatched(t) \/ SetState(t) \/ SetSeen(t)
  PROVE  \A f \in EP : ep'[f].wid = ep[f].wid
  <1>1. ep \in [EP -> EpRec] /\ Cur(t) \in EP
    BY DEF SetWatched, SetState, SetSeen, At, EpPC, Cur, TypeInv, TypeOK,
           ThreadOK, LocalsOK
  <1>2. \E x : \/ ep' = [ep EXCEPT ![Cur(t)].watched = x]
               \/ ep' = [ep EXCEPT ![Cur(t)].state = x]
               \/ ep' = [ep EXCEPT ![Cur(t)].seen = x]
    BY DEF SetWatched, SetState, SetSeen
  <1> QED
    BY <1>1, <1>2, WidField

(* Complete's switch on c.op leaves every wid alone.                       *)
LEMMA WatchApply ==
  ASSUME TypeInv, Apply
  PROVE  \A f \in EP : ep'[f].wid = ep[f].wid
  <1>1. ep \in [EP -> EpRec] /\ Cur("inotify") \in EP
    BY DEF Apply, At, EpPC, Cur, TypeInv, TypeOK, ThreadOK, LocalsOK, Thread
  <1>2. \/ UNCHANGED ep
        \/ \E x : \/ ep' = [ep EXCEPT ![Cur("inotify")].seen = x]
                  \/ ep' = [ep EXCEPT ![Cur("inotify")].app = x]
    BY DEF Apply
  <1> QED
    BY <1>1, <1>2, WidField

(* The passing of time and of lsof generations.                            *)
LEMMA WatchAges ==
  ASSUME TypeInv, Tick \/ LookoutLsof
  PROVE  \A f \in EP : ep'[f].wid = ep[f].wid
  <1> SUFFICES ASSUME NEW f \in EP PROVE ep'[f].wid = ep[f].wid
    OBVIOUS
  <1>1. ep[f] \in EpRec
    BY DEF TypeInv, TypeOK
  <1>2. \/ ep'[f] = ep[f]
        \/ ep'[f] = [ep[f] EXCEPT !.seen = Older(@, Timeout + 1)]
        \/ ep'[f] = [ep[f] EXCEPT !.lag = Older(@, 2)]
    BY DEF Tick, LookoutLsof
  <1>3. /\ [ep[f] EXCEPT !.seen = Older(@, Timeout + 1)].wid = ep[f].wid
        /\ [ep[f] EXCEPT !.lag = Older(@, 2)].wid = ep[f].wid
    BY <1>1 DEF EpRec
  <1> QED
    BY <1>2, <1>3

(* Every step keeps WatchInv; removing a directory needs the fault that    *)
(* the invariant excludes.                                                 *)
LEMMA NextWatch == TypeInv /\ TypeInv' /\ WatchInv /\ [Next]_vars => WatchInv'
  <1> SUFFICES ASSUME TypeInv, TypeInv', WatchInv, [Next]_vars PROVE WatchInv'
    OBVIOUS
  <1>0. {"monitor", "lsof", "inotify"} \subseteq Thread
    BY DEF Thread
  <1>1. CASE UNCHANGED <<ep, wmap, kern, nextWd>>
    BY <1>1, WatchFrame
  <1>2. ASSUME NEW t \in Thread, ChangeStateStep(t) PROVE WatchInv'
    <2>1. CASE ChangeState(t)
      BY <1>1, <2>1 DEF ChangeState, epVars, kerVars
    <2>2. CASE SetWatched(t) \/ SetState(t) \/ SetSeen(t)
      <3>1. UNCHANGED <<wmap, kern, nextWd>>
        BY <2>2 DEF SetWatched, SetState, SetSeen, kerVars
      <3> QED
        BY <2>2, <3>1, WatchSetters, WatchFrame
    <2> QED
      BY <1>2, <2>1, <2>2 DEF ChangeStateStep
  <1>3. ASSUME NEW t \in Thread, SubmitStep(t) PROVE WatchInv'
    BY <1>1, <1>3 DEF SubmitStep, Submit, Retry, epVars, kerVars
  <1>4. ASSUME NEW t \in Thread, Unlock(t) PROVE WatchInv'
    BY <1>1, <1>4 DEF Unlock, epVars, kerVars
  <1>5. CASE \/ Start \/ CleanEPs \/ CleanNext \/ CleanDone \/ Decide \/ PollEPs
             \/ PollNext \/ PollAge \/ PollDone \/ ScanNext \/ ScanMiss
             \/ ProcessEvent \/ Complete \/ Revive \/ QueryApp
             \/ ConcurrentMapWrite
    BY <1>1, <1>5
    DEF Start, CleanEPs, CleanNext, CleanDone, Decide, PollEPs, PollNext,
        PollAge, PollDone, ScanNext, ScanMiss, ProcessEvent, Complete, Revive,
        QueryApp, ConcurrentMapWrite, epVars, kerVars
  <1>6. ASSUME NEW t \in Thread, AddEp(t) \/ AddEpTest(t) PROVE WatchInv'
    BY <1>1, <1>6, WatchAddEp DEF AddEpTest, epVars, kerVars
  <1>8. CASE Tick \/ LookoutLsof \/ Apply
    <2>1. UNCHANGED <<wmap, kern, nextWd>>
      BY <1>8 DEF Tick, LookoutLsof, Apply, kerVars
    <2> QED
      BY <1>8, <2>1, WatchAges, WatchApply, WatchFrame
  <1>9. CASE Environment
    <2>1. CASE \E e \in EP : RemoveDir(e)
      BY <2>1 DEF RemoveDir, Spend, WatchInv
    <2>2. CASE ~(Tick \/ \E e \in EP : RemoveDir(e))
      BY <1>1, <1>9, <2>2
      DEF Environment, AppAnswer, AppAnswersAgain, ProcStart, ProcStop, MakeRoot,
          MakeOutput, Touch, epVars, kerVars
    <2> QED
      BY <1>8, <2>1, <2>2
  <1>10. CASE Monitor
    BY <1>0, <1>2, <1>3, <1>5, <1>10, WatchEpWatchRemove DEF Monitor
  <1>11. CASE Lsof
    BY <1>0, <1>2, <1>4, <1>5, <1>6, <1>8, <1>11, WatchEpWatchAdd,
       WatchEpWatchRemove DEF Lsof
  <1>12. CASE Inotify
    BY <1>0, <1>2, <1>3, <1>4, <1>5, <1>6, <1>8, <1>12, WatchEpWatchAdd
    DEF Inotify
  <1>13. CASE UNCHANGED vars
    BY <1>1, <1>13 DEF vars
  <1> QED
    BY <1>5, <1>9, <1>10, <1>11, <1>12, <1>13 DEF Next, Halted

(* wmap, the wid fields and the kernel's watches stay consistent.          *)
THEOREM WatchInvariant == Spec => []WatchInv
  <1>1. Init => WatchInv
    <2> SUFFICES ASSUME Init PROVE WatchInv
      OBVIOUS
    <2>1. KernelInv
      BY DEF Init, KernelInv, NoWd
    <2>2. TableInv
      BY NcsiEPAssumption DEF Init, TableInv, NewEp, NoWd, Wd
    <2> QED
      BY <2>1, <2>2 DEF WatchInv
  <1> QED
    BY <1>1, NextWatch, TypeInvariant, PTL DEF Spec

(* However the ChangeState calls of the three goroutines overlap, an event *)
(* on a watch descriptor is looked up to the endpoint whose directory the  *)
(* kernel watches under it, and the endpoint knows the descriptor.         *)
THEOREM WatchTableConsistent == Spec => []WatchTable
  <1>1. WatchInv => WatchTable
    BY DEF WatchInv, TableInv, WatchTable
  <1> QED
    BY <1>1, WatchInvariant, PTL

-----------------------------------------------------------------------------
(* EpWatchRemove's fatal errors.                                           *)

(* Goroutine t has added e's watch and not yet noted so in watched; or it  *)
(* has e's watch to remove; or has removed it and not noted so.            *)
Adds(t, e) ==
  th[t].pc = "setWatched" /\ th[t].ep = e /\ isWatchedState(th[t].tgt)

Removing(t, e) == th[t].pc = "watchRemove" /\ th[t].ep = e

Removed(t, e) ==
  th[t].pc = "setWatched" /\ th[t].ep = e /\ ~isWatchedState(th[t].tgt)

(* An endpoint that is watched has a descriptor, but for the time in which *)
(* a goroutine has removed the watch and watched does not say so yet; one  *)
(* goroutine at a time can be about to set watched, while it is not set or *)
(* about to be reset, and none while another is about to remove the watch. *)
RemoveSafe(e) ==
  /\ ep[e].watched /\ (\A t \in Thread : ~Removed(t, e)) => ep[e].wid # NoWd
  /\ \A t \in Thread : Adds(t, e) =>
       /\ ep[e].wid # NoWd
       /\ ~ep[e].watched \/ \E u \in Thread : Removed(u, e)
       /\ \A u \in Thread : Adds(u, e) => u = t
  /\ \A u \in Thread : Removing(u, e) =>
       /\ ep[e].watched /\ ep[e].wid # NoWd
       /\ \A t \in Thread : ~Adds(t, e)

Watching == {"watchAdd", "watchRemove", "setWatched"}

RemoveFatal == {"notWatched", "wmapMismatch"}

(* A goroutine adds a watch for a state that wants one, and removes it for *)
(* one that does not.                                                      *)
WatchGoal(t) ==
  /\ th[t].pc = "watchAdd" => isWatchedState(th[t].tgt)
  /\ th[t].pc = "watchRemove" => ~isWatchedState(th[t].tgt)

RemoveInv ==
  "rmdir" \notin Faults =>
    /\ exit \notin RemoveFatal
    /\ \A t \in Thread : WatchGoal(t)
    /\ \A e \in EP : RemoveSafe(e)

(* Complete changes endpoints to watched states only, so a goroutine that  *)
(* removes a watch holds epc.mutex: there is one of them at most.          *)
LEMMA RemoverHolds ==
  ASSUME ControlInv, NEW t \in Thread,
         \/ th[t].pc = "watchRemove"
         \/ InChange(th[t]) /\ ~isWatchedState(th[t].tgt)
  PROVE  lock = t
  <1>1. Ctl(t, th[t], lock)
    BY DEF ControlInv, ThreadCtl
  <1> QED
    BY <1>1 DEF Ctl, MonitorCtl, MonitorHolds, LsofCtl, LsofHolds, InotifyCtl,
                InotifyPC, InChange, ChangePC, isWatchedState, Thread

(* A step of a goroutine that is not between its watch and its watched     *)
(* field, nor comes there, and changes neither.                            *)
LEMMA RemoveFrame ==
  ASSUME TypeInv, RemoveInv, NEW t \in Thread, Others(t),
         th[t].pc \notin Watching \/ th'[t] = th[t],
         th'[t].pc \notin Watching \/ th'[t] = th[t],
         exit' = exit \/ exit' \notin RemoveFatal,
         \A e \in EP : /\ ep'[e].watched = ep[e].watched
                       /\ ep'[e].wid = ep[e].wid
  PROVE  RemoveInv'
  <1>1. \A u \in Thread : \/ th'[u] = th[u]
                          \/ th[u].pc \notin Watching /\ th'[u].pc \notin Watching
    BY DEF Others
  <1>2. ASSUME NEW e \in EP, RemoveSafe(e) PROVE RemoveSafe(e)'
    <2>1. ASSUME NEW u \in Thread
          PROVE  /\ Adds(u, e)' <=> Adds(u, e)
                 /\ Removed(u, e)' <=> Removed(u, e)
                 /\ Removing(u, e)' <=> Removing(u, e)
      BY <1>1 DEF Adds, Removed, Removing, Watching
    <2> QED
      BY <1>2, <2>1 DEF RemoveSafe
  <1>3. ASSUME NEW u \in Thread, WatchGoal(u) PROVE WatchGoal(u)'
    BY <1>1, <1>3 DEF WatchGoal, Watching
  <1> QED
    BY <1>2, <1>3 DEF RemoveInv

(* The updates of an endpoint that touch neither watched nor wid.          *)
LEMMA WatchedKept ==
  ASSUME ep \in [EP -> EpRec], NEW e \in EP, NEW x,
         \/ ep' = [ep EXCEPT ![e].state = x]
         \/ ep' = [ep EXCEPT ![e].seen = x]
         \/ ep' = [ep EXCEPT ![e].app = x]
         \/ ep' = [ep EXCEPT ![e].lag = x]
  PROVE  \A f \in EP : ep'[f].watched = ep[f].watched /\ ep'[f].wid = ep[f].wid
  <1>1. ASSUME NEW r, ep' = [ep EXCEPT ![e] = r],
               r.watched = ep[e].watched, r.wid = ep[e].wid
        PROVE  \A f \in EP : /\ ep'[f].watched = ep[f].watched
                             /\ ep'[f].wid = ep[f].wid
    BY <1>1
  <1>2. ep[e] \in EpRec
    OBVIOUS
  <1>3. /\ [ep[e] EXCEPT !.state = x].watched = ep[e].watched
        /\ [ep[e] EXCEPT !.seen = x].watched = ep[e].watched
        /\ [ep[e] EXCEPT !.app = x].watched = ep[e].watched
        /\ [ep[e] EXCEPT !.lag = x].watched = ep[e].watched
        /\ [ep[e] EXCEPT !.state = x].wid = ep[e].wid
        /\ [ep[e] EXCEPT !.seen = x].wid = ep[e].wid
        /\ [ep[e] EXCEPT !.app = x].wid = ep[e].wid
        /\ [ep[e] EXCEPT !.lag = x].wid = ep[e].wid
    BY <1>2 DEF EpRec
  <1> QED
    BY <1>1, <1>3

(* ChangeState finds an endpoint watched, and its descriptor set, or is    *)
(* about to add a watch: only a goroutine that holds epc.mutex goes on to  *)
(* remove one, and then none is between EpWatchAdd and the assignment of   *)
(* watched.                                                                *)
LEMMA RemoveChangeState ==
  ASSUME TypeInv, ControlInv, RemoveInv, NEW t \in Thread, ChangeState(t)
  PROVE  RemoveInv'
  <1> SUFFICES ASSUME "rmdir" \notin Faults PROVE RemoveInv'
    BY DEF RemoveInv
  <1> DEFINE e == th[t].ep
  <1>1. /\ th[t].pc = "changeState" /\ InChange(th[t])
        /\ UNCHANGED <<ep, lock>>
    BY DEF ChangeState, At, InChange, ChangePC, epVars
  <1>2. th \in [Thread -> ThRec] /\ e \in EP /\ ep[e] \in EpRec
    BY <1>1, InChangeFacts DEF TypeInv, TypeOK
  <1>3. Others(t)
    BY CallerMoves DEF ChangeStateStep
  <1>4. \/ Return(t) /\ UNCHANGED exit
        \/ Goto(t, "setState") /\ UNCHANGED exit
        \/ isWatchedState(th[t].tgt) /\ Goto(t, "watchAdd") /\ UNCHANGED exit
        \/ Die("watchAssert") \/ Die("EBUSY")
        \/ /\ ~isWatchedState(th[t].tgt) /\ ep[e].watched
           /\ \/ ep[e].wid # NoWd /\ Goto(t, "watchRemove") /\ UNCHANGED exit
              \/ ep[e].wid = NoWd /\ Die("notWatched")
    BY DEF ChangeState, Cur
  <1>5. CASE Return(t) /\ UNCHANGED exit
    <2>1. th'[t].pc \notin ChangePC
      BY <1>1, <1>5, ReturnControl
    <2> QED
      BY <1>1, <1>3, <1>5, <2>1, RemoveFrame DEF Watching, ChangePC
  <1>6. CASE Goto(t, "setState") /\ UNCHANGED exit
    <2>1. th'[t].pc \notin Watching
      BY <1>2, <1>6, GotoThread DEF Watching, PC
    <2> QED
      BY <1>1, <1>3, <1>6, <2>1, RemoveFrame DEF Watching
  <1>7. CASE Die("watchAssert") \/ Die("EBUSY")
    BY <1>1, <1>3, <1>7, RemoveFrame DEF Die, RemoveFatal
  <1>8. CASE isWatchedState(th[t].tgt) /\ Goto(t, "watchAdd") /\ UNCHANGED exit
    <2>1. th'[t].pc = "watchAdd" /\ th'[t].tgt = th[t].tgt
      BY <1>2, <1>8, GotoThread DEF PC
    <2>2. ASSUME NEW f \in EP PROVE RemoveSafe(f)'
      <3>1. ASSUME NEW u \in Thread
            PROVE  /\ Adds(u, f)' <=> Adds(u, f)
                   /\ Removed(u, f)' <=> Removed(u, f)
                   /\ Removing(u, f)' <=> Removing(u, f)
        BY <1>1, <1>3, <2>1 DEF Adds, Removed, Removing, Others
      <3> QED
        BY <1>1, <3>1 DEF RemoveInv, RemoveSafe
    <2> QED
      BY <1>3, <1>8, <2>1, <2>2 DEF RemoveInv, WatchGoal, Others
  <1>9. CASE /\ ~isWatchedState(th[t].tgt) /\ ep[e].watched
             /\ \/ ep[e].wid # NoWd /\ Goto(t, "watchRemove") /\ UNCHANGED exit
                \/ ep[e].wid = NoWd /\ Die("notWatched")
    <2>1. lock = t
      BY <1>1, <1>9, RemoverHolds
    <2>2. \A u \in Thread, f \in EP : ~Removed(u, f) /\ ~Removing(u, f)
      BY <1>1, <2>1, RemoverHolds DEF Removed, Removing, InChange, ChangePC
    <2>3. RemoveSafe(e) /\ ep[e].wid # NoWd
      BY <1>2, <1>9, <2>2 DEF RemoveInv, RemoveSafe
    <2>4. ASSUME NEW u \in Thread PROVE ~Adds(u, e)
      <3>1. Adds(u, e) => ~ep[e].watched \/ \E v \in Thread : Removed(v, e)
        BY <2>3 DEF RemoveSafe
      <3> QED
        BY <1>2, <1>9, <2>2, <3>1
    <2>5. Goto(t, "watchRemove") /\ UNCHANGED exit
      BY <1>9, <2>3
    <2>6. /\ th'[t].pc = "watchRemove" /\ th'[t].ep = e
          /\ th'[t].tgt = th[t].tgt
      BY <1>2, <2>5, GotoThread DEF PC
    <2>7. ASSUME NEW f \in EP PROVE RemoveSafe(f)'
      <3>1. ASSUME NEW u \in Thread
            PROVE  /\ Adds(u, f)' <=> Adds(u, f)
                   /\ Removed(u, f)' <=> Removed(u, f)
                   /\ Removing(u, f)' <=> (u = t /\ f = e)
        BY <1>1, <1>3, <2>2, <2>6 DEF Adds, Removed, Removing, Others
      <3> QED
        BY <1>1, <1>9, <2>2, <2>3, <2>4, <3>1 DEF RemoveInv, RemoveSafe
    <2> QED
      BY <1>3, <1>9, <2>5, <2>6, <2>7 DEF RemoveInv, WatchGoal, Others
  <1> QED
    BY <1>4, <1>5, <1>6, <1>7, <1>8, <1>9

(* A watch is added to an endpoint that has no descriptor and that no      *)
(* other goroutine is marking as watched: with a watch of the kernel's in  *)
(* wmap EpWatchAdd would have failed.                                      *)
LEMMA RemoveWatchAdd ==
  ASSUME TypeInv, ControlInv, WatchInv, RemoveInv, NEW t \in Thread,
         EpWatchAdd(t)
  PROVE  RemoveInv'
  <1> SUFFICES ASSUME "rmdir" \notin Faults PROVE RemoveInv'
    BY DEF RemoveInv
  <1> DEFINE e == th[t].ep
             w == InotifyAddWatch(e)
  <1>1. /\ th[t].pc = "watchAdd" /\ InChange(th[t]) /\ UNCHANGED lock
        /\ ep \in [EP -> EpRec]
    BY DEF EpWatchAdd, At, InChange, ChangePC, TypeInv, TypeOK
  <1>2. /\ th \in [Thread -> ThRec] /\ e \in EP /\ ep[e] \in EpRec
        /\ isWatchedState(th[t].tgt)
    BY <1>1, InChangeFacts DEF TypeInv, TypeOK, RemoveInv, WatchGoal
  <1>3. Others(t)
    BY CallerMoves
  <1>4. CASE UNCHANGED <<ep, th>> /\ exit' \in {"ENOENT", "widTaken"}
    BY <1>3, <1>4, RemoveFrame DEF RemoveFatal
  <1>5. CASE /\ wmap[w] = NoEP /\ w \in Wd /\ UNCHANGED exit
             /\ ep' = [ep EXCEPT ![e].wid = w] /\ Goto(t, "setWatched")
    <2>1. ep[e].wid = NoWd
      <3>1. ASSUME ep[e].wid \in Wd PROVE FALSE
        <4>1. wmap[ep[e].wid] = e /\ kern[e] = ep[e].wid
          BY <1>2, <3>1 DEF WatchInv, TableInv
        <4>2. w = ep[e].wid
          BY <3>1, <4>1 DEF InotifyAddWatch, Wd, NoWd
        <4> QED
          BY <1>2, <1>5, <4>1, <4>2, NcsiEPAssumption
      <3> QED
        BY <1>2, <3>1 DEF EpRec
    <2>2. /\ ~ep[e].watched \/ \E u \in Thread : Removed(u, e)
          /\ \A u \in Thread : ~Adds(u, e) /\ ~Removing(u, e)
      BY <1>2, <2>1 DEF RemoveInv, RemoveSafe
    <2>3. /\ th'[t].pc = "setWatched" /\ th'[t].ep = e
          /\ th'[t].tgt = th[t].tgt
      BY <1>1, <1>2, <1>3, <1>5, GotoThread DEF PC
    <2>4. /\ ep'[e].watched = ep[e].watched /\ ep'[e].wid # NoWd
          /\ \A f \in EP : f # e => ep'[f] = ep[f]
      <3> DEFINE x == [ep[e] EXCEPT !.wid = w]
      <3>1. x.watched = ep[e].watched /\ x.wid = w
        BY <1>2 DEF EpRec
      <3>2. ep' = [ep EXCEPT ![e] = x]
        BY <1>5
      <3>3. w # NoWd
        BY <1>5 DEF Wd, NoWd
      <3> HIDE DEF x, w
      <3> QED
        BY <1>1, <1>2, <3>1, <3>2, <3>3
    <2>5. ASSUME NEW f \in EP PROVE RemoveSafe(f)'
      <3>1. RemoveSafe(f)
        BY DEF RemoveInv
      <3>2. ASSUME NEW u \in Thread
            PROVE  /\ Removed(u, f)' <=> Removed(u, f)
                   /\ Removing(u, f)' <=> Removing(u, f)
                   /\ Adds(u, f)' <=> Adds(u, f) \/ (u = t /\ f = e)
        BY <1>1, <1>2, <1>3, <2>3 DEF Adds, Removed, Removing, Others
      <3>4. CASE f = e
        BY <2>2, <2>4, <3>2, <3>4 DEF RemoveSafe
      <3>5. CASE f # e
        BY <2>4, <3>1, <3>2, <3>5 DEF RemoveSafe
      <3> QED
        BY <3>4, <3>5
    <2> QED
      BY <1>3, <1>5, <2>3, <2>5 DEF RemoveInv, WatchGoal, Others
  <1>6. \/ UNCHANGED <<ep, th>> /\ exit' \in {"ENOENT", "widTaken"}
        \/ /\ wmap[w] = NoEP /\ UNCHANGED exit
           /\ ep' = [ep EXCEPT ![e].wid = w] /\ Goto(t, "setWatched")
    BY DEF EpWatchAdd, Die, Cur
  <1>7. w \in Wd
    BY <1>2, WatchType DEF EpWatchAdd, Cur
  <1> QED
    BY <1>4, <1>5, <1>6, <1>7

(* EpWatchRemove finds the endpoint in wmap under its descriptor, and from *)
(* then on the endpoint has none and is about to be marked so.             *)
LEMMA RemoveWatchRemove ==
  ASSUME TypeInv, ControlInv, WatchInv, RemoveInv, NEW t \in Thread,
         EpWatchRemove(t)
  PROVE  RemoveInv'
  <1> SUFFICES ASSUME "rmdir" \notin Faults PROVE RemoveInv'
    BY DEF RemoveInv
  <1> DEFINE e == th[t].ep
  <1>1. /\ th[t].pc = "watchRemove" /\ InChange(th[t])
        /\ ep \in [EP -> EpRec]
    BY DEF EpWatchRemove, At, InChange, ChangePC, TypeInv, TypeOK
  <1>2. th \in [Thread -> ThRec] /\ e \in EP /\ ep[e] \in EpRec
    BY <1>1, InChangeFacts DEF TypeInv, TypeOK
  <1>3. Others(t) /\ lock = t
    BY <1>1, CallerMoves, RemoverHolds
  <1>4. RemoveSafe(e) /\ Removing(t, e) /\ ~isWatchedState(th[t].tgt)
    BY <1>1, <1>2 DEF RemoveInv, Removing, WatchGoal
  <1>5. ep[e].wid # NoWd /\ \A u \in Thread : ~Adds(u, e)
    BY <1>4 DEF RemoveSafe
  <1>6. wmap[ep[e].wid] = e
    BY <1>2, <1>5 DEF WatchInv, TableInv, EpRec
  <1>7. /\ ep' = [ep EXCEPT ![e].wid = NoWd] /\ Goto(t, "setWatched")
        /\ UNCHANGED exit
    BY <1>6 DEF EpWatchRemove, Cur
  <1>8. /\ th'[t].pc = "setWatched" /\ th'[t].ep = e
        /\ th'[t].tgt = th[t].tgt
    BY <1>1, <1>2, <1>7, GotoThread DEF PC
  <1>9. ASSUME NEW u \in Thread, NEW f \in EP
        PROVE  /\ ~Removed(u, f) /\ (Removing(u, f) => u = t)
               /\ Adds(u, f)' <=> Adds(u, f)
               /\ Removed(u, f)' <=> (u = t /\ f = e)
               /\ ~Removing(u, f)'
    <2>1. ~Removed(u, f) /\ (Removing(u, f) => u = t)
      BY <1>1, <1>3, RemoverHolds DEF Removed, Removing, InChange, ChangePC
    <2> QED
      BY <1>1, <1>3, <1>4, <1>8, <2>1 DEF Adds, Removed, Removing, Others
  <1>10. ASSUME NEW f \in EP PROVE RemoveSafe(f)'
    <2>1. RemoveSafe(f)
      BY DEF RemoveInv
    <2>4. CASE f = e
      BY <1>5, <1>9, <2>4 DEF RemoveSafe
    <2>5. CASE f # e
      <3>1. ep'[f] = ep[f]
        BY <1>1, <1>2, <1>7, <2>5
      <3> QED
        BY <1>9, <2>1, <2>5, <3>1 DEF RemoveSafe
    <2> QED
      BY <2>4, <2>5
  <1> QED
    BY <1>3, <1>7, <1>8, <1>10 DEF RemoveInv, WatchGoal, Others

(* The assignment of watched, and of the fields after it.                  *)
LEMMA RemoveSetters ==
  ASSUME TypeInv, ControlInv, RemoveInv, NEW t \in Thread,
         SetWatched(t) \/ SetState(t) \/ SetSeen(t)
  PROVE  RemoveInv'
  <1> SUFFICES ASSUME "rmdir" \notin Faults PROVE RemoveInv'
    BY DEF RemoveInv
  <1> DEFINE e == th[t].ep
  <1>1. /\ InChange(th[t]) /\ UNCHANGED <<lock, exit>>
        /\ ep \in [EP -> EpRec]
    BY DEF SetWatched, SetState, SetSeen, At, InChange, ChangePC, TypeInv,
           TypeOK
  <1>2. th \in [Thread -> ThRec] /\ e \in EP /\ ep[e] \in EpRec
    BY <1>1, InChangeFacts DEF TypeInv, TypeOK
  <1>3. Others(t)
    BY CallerMoves DEF ChangeStateStep
  <1>4. CASE SetState(t) \/ SetSeen(t)
    <2>1. th[t].pc \notin Watching
      BY <1>4 DEF SetState, SetSeen, At, Watching
    <2>2. th'[t].pc \notin Watching
      <3>1. CASE Return(t)
        BY <1>1, <3>1, ReturnControl DEF Watching, ChangePC
      <3>2. CASE Goto(t, "setSeen")
        BY <1>2, <3>2, GotoThread DEF PC, Watching
      <3> QED
        BY <1>4, <3>1, <3>2 DEF SetState, SetSeen
    <2>3. \E x : ep' = [ep EXCEPT ![e].state = x] \/ ep' = [ep EXCEPT ![e].seen = x]
      BY <1>4 DEF SetState, SetSeen, Cur
    <2>4. \A f \in EP : ep'[f].watched = ep[f].watched /\ ep'[f].wid = ep[f].wid
      BY <1>1, <1>2, <2>3, WatchedKept
    <2> QED
      BY <1>1, <1>3, <2>1, <2>2, <2>4, RemoveFrame
  <1>5. CASE SetWatched(t)
    <2>1. /\ th[t].pc = "setWatched" /\ Goto(t, "setState")
          /\ ep' = [ep EXCEPT ![e].watched = isWatchedState(th[t].tgt)]
      BY <1>5 DEF SetWatched, At, Cur
    <2>2. th'[t].pc = "setState"
      BY <1>2, <2>1, GotoThread DEF PC
    <2>3. /\ ep'[e].watched = isWatchedState(th[t].tgt)
          /\ ep'[e].wid = ep[e].wid
          /\ \A f \in EP : f # e => ep'[f] = ep[f]
      <3> DEFINE x == [ep[e] EXCEPT !.watched = isWatchedState(th[t].tgt)]
      <3>1. x.watched = isWatchedState(th[t].tgt) /\ x.wid = ep[e].wid
        BY <1>2 DEF EpRec
      <3>2. ep' = [ep EXCEPT ![e] = x]
        BY <2>1
      <3> HIDE DEF x
      <3> QED
        BY <1>1, <1>2, <3>1, <3>2
    <2>4. ASSUME NEW u \in Thread, NEW f \in EP
          PROVE  /\ Removing(u, f)' <=> Removing(u, f)
                 /\ Adds(u, f)' <=> Adds(u, f) /\ u # t
                 /\ Removed(u, f)' <=> Removed(u, f) /\ u # t
      BY <1>3, <2>1, <2>2 DEF Adds, Removed, Removing, Others
    <2>5. ASSUME NEW f \in EP PROVE RemoveSafe(f)'
      <3>1. RemoveSafe(f) /\ RemoveSafe(e)
        BY <1>2 DEF RemoveInv
      <3>2. CASE f # e
        <4>1. ~Removed(t, f) /\ ~Adds(t, f)
          BY <3>2 DEF Removed, Adds
        <4> QED
          BY <2>3, <2>4, <3>1, <3>2, <4>1 DEF RemoveSafe
      <3>3. CASE f = e /\ isWatchedState(th[t].tgt)
        <4>1. Adds(t, e) /\ ep'[e].watched
          BY <2>1, <2>3, <3>3 DEF Adds
        <4> QED
          BY <2>3, <2>4, <3>1, <3>3, <4>1 DEF RemoveSafe
      <3>4. CASE f = e /\ ~isWatchedState(th[t].tgt)
        <4>1. lock = t /\ ~ep'[e].watched
          BY <1>1, <2>3, <3>4, RemoverHolds
        <4>2. \A u \in Thread : ~Removing(u, e)
          BY <2>1, <4>1, RemoverHolds DEF Removing
        <4> QED
          BY <2>3, <2>4, <3>1, <3>4, <4>1, <4>2 DEF RemoveSafe
      <3> QED
        BY <3>2, <3>3, <3>4
    <2> QED
      BY <1>1, <1>3, <2>2, <2>5 DEF RemoveInv, WatchGoal, Others
  <1> QED
    BY <1>4, <1>5

(* AddEp marks a new endpoint as watched once it has its descriptor; no    *)
(* other goroutine knows of it.                                            *)
LEMMA RemoveAddEp ==
  ASSUME TypeInv, ControlInv, RemoveInv, NEW t \in Thread, AddEpNew(t)
  PROVE  RemoveInv'
  <1> SUFFICES ASSUME "rmdir" \notin Faults PROVE RemoveInv'
    BY DEF RemoveInv
  <1> DEFINE e == Cur(t)
  <1>1. /\ th \in [Thread -> ThRec] /\ ep \in [EP -> EpRec]
        /\ e \in EP /\ Others(t)
    BY AddEpThread DEF TypeInv, TypeOK, AddEp, Cur
  <1>2. th[t].pc \notin Watching
    BY DEF AddEpNew, At, Watching
  <1>3. CASE UNCHANGED <<ep, th>> /\ exit' \in {"ENOENT", "widTaken"}
    BY <1>1, <1>2, <1>3, RemoveFrame DEF RemoveFatal
  <1>4. ASSUME NEW w \in Wd, UNCHANGED exit, Done(t, Home(t)),
               ep' = [ep EXCEPT ![e] = [NewEp EXCEPT !.state = "init",
                                          !.watched = TRUE, !.wid = w]]
        PROVE  RemoveInv'
    <2>1. \A u \in Thread : th[u].pc \in EpPC \ {"addEp"} => th[u].ep # e
      BY DEF AddEpNew, ControlInv, Known
    <2>2. th'[t].pc \notin Watching
      BY <1>1, <1>4, DoneThread DEF Home, PC, Watching
    <2>3. ep'[e].watched /\ ep'[e].wid # NoWd
      BY <1>1, <1>4 DEF NewEp, Wd, NoWd
    <2>4. ASSUME NEW u \in Thread, NEW f \in EP
          PROVE  /\ Adds(u, f)' <=> Adds(u, f)
                 /\ Removed(u, f)' <=> Removed(u, f)
                 /\ Removing(u, f)' <=> Removing(u, f)
      BY <1>1, <1>2, <2>2 DEF Adds, Removed, Removing, Others, Watching
    <2>5. ASSUME NEW f \in EP PROVE RemoveSafe(f)'
      <3>1. RemoveSafe(f)
        BY DEF RemoveInv
      <3>2. CASE f = e
        <4>1. \A u \in Thread : ~Adds(u, e) /\ ~Removed(u, e) /\ ~Removing(u, e)
          BY <2>1 DEF Removing, Removed, Adds, EpPC
        <4> QED
          BY <2>3, <2>4, <3>2, <4>1 DEF RemoveSafe
      <3>3. CASE f # e
        <4>1. ep'[f] = ep[f]
          BY <1>1, <1>4, <3>3
        <4> QED
          BY <2>4, <3>1, <4>1 DEF RemoveSafe
      <3> QED
        BY <3>2, <3>3
    <2> QED
      BY <1>1, <1>4, <2>2, <2>5 DEF RemoveInv, WatchGoal, Watching, Others
  <1>5. InotifyAddWatch(e) \in Wd
    BY <1>1, WatchType DEF AddEpNew
  <1> QED
    BY <1>3, <1>4, <1>5 DEF AddEpNew, Die

(* The rest of ChangeState, once its tests are made.                       *)
Inside == {"watchAdd", "watchRemove", "setWatched", "setState"}

(* What ChangeState and the watches know of an endpoint stays.             *)
SameWatch(f) ==
  /\ ep'[f].watched = ep[f].watched /\ ep'[f].wid = ep[f].wid
  /\ ep'[f].state = ep[f].state

(* A step of goroutine t that is no part of ChangeState and makes no new   *)
(* endpoint.                                                               *)
Quiet(t) ==
  /\ Others(t)
  /\ th'[t] = th[t] \/ (th[t].pc \notin Inside /\ th'[t].pc \notin Inside)
  /\ exit' \in {exit, "nilDeref", "mapRace"}
  /\ \A f \in EP : SameWatch(f)

(* The updates of an endpoint that touch none of the three fields.         *)
LEMMA FieldsKept ==
  ASSUME ep \in [EP -> EpRec], NEW e \in EP, NEW x,
         \/ ep' = [ep EXCEPT ![e].seen = x]
         \/ ep' = [ep EXCEPT ![e].app = x]
         \/ ep' = [ep EXCEPT ![e].lag = x]
  PROVE  \A f \in EP : SameWatch(f)
  <1>1. /\ [ep[e] EXCEPT !.seen = x].state = ep[e].state
        /\ [ep[e] EXCEPT !.app = x].state = ep[e].state
        /\ [ep[e] EXCEPT !.lag = x].state = ep[e].state
    BY DEF EpRec
  <1>2. ASSUME NEW r, ep' = [ep EXCEPT ![e] = r], r.state = ep[e].state
        PROVE  \A f \in EP : ep'[f].state = ep[f].state
    BY <1>2
  <1>3. \A f \in EP : ep'[f].state = ep[f].state
    BY <1>1, <1>2
  <1> QED
    BY <1>3, WatchedKept DEF SameWatch

(* Such a step keeps RemoveInv.                                            *)
LEMMA RemoveQuiet ==
  ASSUME TypeInv, RemoveInv, NEW t \in Thread, Quiet(t)
  PROVE  RemoveInv'
  <1>1. th'[t] = th[t] \/ (th[t].pc \notin Watching /\ th'[t].pc \notin Watching)
    BY DEF Quiet, Inside, Watching
  <1> QED
    BY <1>1, RemoveFrame DEF Quiet, SameWatch, RemoveFatal

(* The steps of the monitor outside ChangeState.                           *)
LEMMA QuietMonitor ==
  ASSUME TypeInv, ControlInv,
         \/ Start \/ CleanEPs \/ CleanNext \/ CleanDone \/ Decide
         \/ PollEPs \/ PollNext \/ PollAge \/ PollDone
  PROVE  Quiet("monitor")
  <1> DEFINE t == "monitor"
  <1>1. /\ th \in [Thread -> ThRec] /\ t \in Thread /\ th[t] \in ThRec
    BY DEF TypeInv, TypeOK, Thread
  <1>2. Others(t)
    BY OneMoves DEF Monitor
  <1>3. UNCHANGED <<ep, exit>> /\ th[t].pc \notin Inside
    BY DEF Start, CleanEPs, CleanNext, CleanDone, Decide, PollEPs, PollNext,
           PollAge, PollDone, At, Inside, epVars
  <1>4. th'[t].pc \notin Inside
    <2>1. CASE Start
      BY <1>1, <2>1, GotoThread DEF Start, PC, Inside
    <2>2. CASE CleanEPs \/ PollEPs
      BY <1>1, <2>2 DEF CleanEPs, PollEPs, ThRec, Inside
    <2>3. CASE CleanNext
      <3>1. PICK f \in th[t].todo :
              th' = [th EXCEPT ![t].pc = "decide", ![t].ep = f,
                               ![t].todo = @ \ {f}]
        BY <2>3 DEF CleanNext
      <3> QED
        BY <1>1, <3>1 DEF ThRec, Inside
    <2>4. CASE CleanDone \/ PollDone
      BY <1>1, <2>4, DoneThread DEF CleanDone, PollDone, PC, Inside
    <2>5. CASE Decide \/ PollAge
      <3>1. \/ CallChangeState(t, "down", "cleanNext") \/ Done(t, "cleanNext")
            \/ CallChangeState(t, "removing", "cleanNext")
            \/ CallChangeState(t, "down", "pollNext") \/ Done(t, "pollNext")
        BY <2>5 DEF Decide, PollAge
      <3>2. /\ {"down", "removing"} \subseteq Epstate
            /\ {"cleanNext", "pollNext"} \subseteq RetPC \cap PC
        BY DEF Epstate, RetPC, PC
      <3> QED
        BY <1>1, <3>1, <3>2, CallThread, DoneThread DEF Inside
    <2>6. CASE PollNext
      <3>1. \/ th' = [th EXCEPT ![t].todo = th'[t].todo]
            \/ \E f, o : MayQueue(t, f, o, "pollNext") \/ MayQueue(t, f, o, "pollAge")
        BY <1>1, <2>6 DEF PollNext, AfterPoll, ThRec
      <3> QED
        BY <1>1, <1>3, <3>1, MayQueuePC DEF ThRec, Inside
    <2> QED
      BY <2>1, <2>2, <2>3, <2>4, <2>5, <2>6
  <1> QED
    BY <1>2, <1>3, <1>4 DEF Quiet, SameWatch

(* Complete and what follows it, up to ChangeState.                        *)
LEMMA QuietComplete ==
  ASSUME TypeInv, ControlInv,
         ProcessEvent \/ Complete \/ Revive \/ Apply \/ QueryApp
  PROVE  Quiet("inotify")
  <1> DEFINE t == "inotify"
  <1>1. /\ th \in [Thread -> ThRec] /\ t \in Thread /\ th[t] \in ThRec
        /\ ep \in [EP -> EpRec]
    BY DEF TypeInv, TypeOK, Thread
  <1>2. Others(t)
    BY OneMoves DEF Inotify
  <1>3. /\ exit' \in {exit, "nilDeref"} /\ th[t].pc \notin Inside
        /\ th[t].pc \in EpPC \/ UNCHANGED ep
    BY DEF ProcessEvent, Complete, Revive, Apply, QueryApp, Die, At, Inside,
           EpPC, epVars
  <1>4. th'[t].pc \notin Inside
    <2>1. CASE ProcessEvent
      BY <1>1, <1>3, <2>1 DEF ProcessEvent, ThRec, Inside
    <2>2. CASE Complete
      <3>1. CASE Done(t, "read")
        BY <1>1, <3>1, DoneThread DEF PC, Inside
      <3>2. CASE ~Done(t, "read")
        BY <1>1, <2>2, <3>2 DEF Complete, ThRec, Inside
      <3> QED
        BY <3>1, <3>2
    <2>3. CASE Revive
      BY <1>1, <2>3 DEF Revive, Goto, ThRec, Inside
    <2>4. CASE Apply
      <3>1. \/ CallChangeState(t, "running", "read") \/ Done(t, "read")
            \/ CallChangeState(t, "identified", "query") \/ UNCHANGED th
        BY <2>4 DEF Apply, Die
      <3>2. /\ {"running", "identified"} \subseteq Epstate
            /\ {"read", "query"} \subseteq RetPC /\ "read" \in PC
        BY DEF Epstate, RetPC, PC
      <3> QED
        BY <1>1, <1>3, <3>1, <3>2, CallThread, DoneThread DEF Inside
    <2>5. CASE QueryApp
      <3>1. MayQueue(t, Cur(t), GetAppDetectInfo(ep[Cur(t)].app, FALSE), "read")
        BY <2>5 DEF QueryApp
      <3>2. th'[t].pc \in {"addCmd", "read"}
        BY <1>1, <3>1, MayQueuePC
      <3> QED
        BY <3>2 DEF Inside
    <2> QED
      BY <2>1, <2>2, <2>3, <2>4, <2>5
  <1>5. \A f \in EP : SameWatch(f)
    <2>1. \/ UNCHANGED ep
          \/ \E x : \/ ep' = [ep EXCEPT ![Cur(t)].seen = x]
                    \/ ep' = [ep EXCEPT ![Cur(t)].app = x]
      BY DEF ProcessEvent, Complete, Revive, Apply, QueryApp, epVars
    <2>2. Cur(t) \in EP \/ UNCHANGED ep
      BY <1>1, <1>3 DEF Cur, TypeInv, ThreadOK, LocalsOK
    <2> QED
      BY <1>1, <2>1, <2>2, FieldsKept DEF SameWatch
  <1> QED
    BY <1>2, <1>3, <1>4, <1>5 DEF Quiet

(* AddEp of an endpoint that is there already, up to ChangeState.          *)
LEMMA QuietKnown ==
  ASSUME TypeInv, NEW t \in Thread, AddEpKnown(t) \/ AddEpTest(t)
  PROVE  Quiet(t)
  <1>1. /\ Others(t) /\ th[t].ep \in EP /\ ep \in [EP -> EpRec]
        /\ th[t].pc \in {"addEp", "found"}
        /\ th'[t].pc \in {"found", "changeState", "sleep", "read"}
    BY KnownThread DEF Looked, Home, TypeInv, TypeOK
  <1>2. /\ UNCHANGED exit
        /\ UNCHANGED ep \/ ep' = [ep EXCEPT ![th[t].ep].lag = 0]
    BY DEF AddEpKnown, AddEpTest, epVars, Cur
  <1>3. \A f \in EP : SameWatch(f)
    BY <1>1, <1>2, FieldsKept DEF SameWatch
  <1> QED
    BY <1>1, <1>2, <1>3 DEF Quiet, Inside

(* Time, lsof generations, and the steps that end a goroutine's turn.      *)
LEMMA QuietRest ==
  ASSUME TypeInv, ControlInv,
         \/ \E t \in Thread : Unlock(t) \/ SubmitStep(t)
         \/ LookoutLsof \/ ScanNext \/ ScanMiss
         \/ Environment \/ ConcurrentMapWrite \/ UNCHANGED vars
  PROVE  \E t \in Thread : Quiet(t)
  <1>1. /\ th \in [Thread -> ThRec] /\ "lsof" \in Thread
        /\ ep \in [EP -> EpRec]
    BY DEF TypeInv, TypeOK, Thread
  <1>2. CASE \E t \in Thread : Unlock(t) \/ SubmitStep(t)
    <2>1. PICK t \in Thread : Unlock(t) \/ SubmitStep(t)
      BY <1>2
    <2>2. UNCHANGED <<ep, exit>> /\ th[t].pc \notin Inside
      BY <2>1 DEF Unlock, SubmitStep, Submit, Retry, At, Inside, epVars
    <2>3. th'[t].pc \notin Inside
      BY <1>1, <2>1, SubmitPC, ReleaseThread DEF Unlock, Home, Inside
    <2> QED
      BY <2>1, <2>2, <2>3, CallerMoves DEF Quiet, SameWatch
  <1>3. ASSUME NEW f \in EP, LookoutLsof \/ Tick
        PROVE  SameWatch(f)
    <2>1. ep[f] \in EpRec
      BY <1>1
    <2>2. \/ ep'[f] = ep[f]
          \/ ep'[f] = [ep[f] EXCEPT !.seen = Older(@, Timeout + 1)]
          \/ ep'[f] = [ep[f] EXCEPT !.lag = Older(@, 2)]
      BY <1>3 DEF Tick, LookoutLsof
    <2>3. /\ [ep[f] EXCEPT !.seen = Older(@, Timeout + 1)].watched = ep[f].watched
          /\ [ep[f] EXCEPT !.lag = Older(@, 2)].watched = ep[f].watched
          /\ [ep[f] EXCEPT !.seen = Older(@, Timeout + 1)].wid = ep[f].wid
          /\ [ep[f] EXCEPT !.lag = Older(@, 2)].wid = ep[f].wid
          /\ [ep[f] EXCEPT !.seen = Older(@, Timeout + 1)].state = ep[f].state
          /\ [ep[f] EXCEPT !.lag = Older(@, 2)].state = ep[f].state
      BY <2>1 DEF EpRec
    <2> QED
      BY <2>2, <2>3 DEF SameWatch
  <1>4. CASE LookoutLsof \/ ScanNext \/ ScanMiss
    <2>1. Others("lsof")
      BY <1>4, OneMoves DEF Lsof
    <2>2. /\ th["lsof"].pc \notin Inside /\ th'["lsof"].pc \notin Inside
      <3>1. CASE ScanNext
        <4>1. PICK e \in EP :
                th' = [th EXCEPT !["lsof"].pc = "addEp", !["lsof"].ep = e,
                                 !["lsof"].todo = @ \ {e}]
          BY <1>1, <3>1 DEF ScanNext, ThRec
        <4>2. th["lsof"].pc = "sleep"
          BY <3>1 DEF ScanNext, At
        <4>3. th'["lsof"].pc = "addEp"
          BY <1>1, <4>1 DEF ThRec
        <4> QED
          BY <4>2, <4>3 DEF Inside
      <3>2. CASE LookoutLsof \/ ScanMiss
        BY <1>1, <3>2 DEF LookoutLsof, ScanMiss, At, ThRec, Inside
      <3> QED
        BY <1>4, <3>1, <3>2
    <2>3. UNCHANGED exit /\ (LookoutLsof \/ UNCHANGED ep)
      BY <1>4 DEF LookoutLsof, ScanNext, ScanMiss, epVars
    <2> QED
      BY <1>1, <1>3, <2>1, <2>2, <2>3 DEF Quiet, SameWatch
  <1>5. CASE Environment \/ ConcurrentMapWrite \/ UNCHANGED vars
    <2>1. UNCHANGED th
      BY <1>5, OneMoves DEF vars
    <2>2. exit' \in {exit, "mapRace"} /\ (Tick \/ UNCHANGED ep)
      BY <1>5 DEF Environment, ConcurrentMapWrite, Die, vars, Tick, AppAnswer,
                  AppAnswersAgain, ProcStart, ProcStop, MakeRoot, MakeOutput,
                  Touch, RemoveDir, epVars
    <2> QED
      BY <1>1, <1>3, <2>1, <2>2 DEF Quiet, SameWatch, Others
  <1> QED
    BY <1>2, <1>4, <1>5

(* Every step keeps RemoveInv.                                             *)
LEMMA NextRemove ==
  TypeInv /\ ControlInv /\ WatchInv /\ RemoveInv /\ [Next]_vars => RemoveInv'
  <1> SUFFICES ASSUME TypeInv, ControlInv, WatchInv, RemoveInv, [Next]_vars
               PROVE  RemoveInv'
    OBVIOUS
  <1>0. {"monitor", "lsof", "inotify"} \subseteq Thread
    BY DEF Thread
  <1>1. ASSUME NEW t \in Thread, ChangeStateStep(t) PROVE RemoveInv'
    BY <1>1, RemoveChangeState, RemoveSetters DEF ChangeStateStep
  <1>2. CASE Monitor
    BY <1>0, <1>1, <1>2, QuietMonitor, QuietRest, RemoveQuiet,
       RemoveWatchRemove DEF Monitor
  <1>5. ASSUME NEW t \in Thread, AddEp(t) \/ AddEpTest(t) PROVE RemoveInv'
    BY <1>5, QuietKnown, RemoveQuiet, RemoveAddEp DEF AddEp
  <1>3. CASE Lsof
    BY <1>0, <1>1, <1>3, <1>5, QuietRest, RemoveQuiet, RemoveWatchAdd,
       RemoveWatchRemove DEF Lsof
  <1>4. CASE Inotify
    BY <1>0, <1>1, <1>4, <1>5, QuietComplete, QuietRest, RemoveQuiet,
       RemoveWatchAdd DEF Inotify
  <1> QED
    BY <1>2, <1>3, <1>4, QuietRest, RemoveQuiet DEF Next, Halted

(* While no directory is replaced, EpWatchRemove never ends the process:   *)
(* the endpoint it is called for has a descriptor, and wmap has the        *)
(* endpoint under it, although both are checked before inotify.mutex is    *)
(* taken and Complete may run ChangeState on the endpoint meanwhile.       *)
THEOREM EpWatchRemoveNeverFails == Spec => []WatchRemoveSafe
  <1>1. Init => RemoveInv
    <2> SUFFICES ASSUME Init PROVE RemoveInv
      OBVIOUS
    <2>1. \A t \in Thread : th[t].pc \notin Watching
      BY DEF Init, Idle, Watching, Thread
    <2>2. \A e \in EP : RemoveSafe(e)
      <3>1. \A e \in EP : /\ ~ep[e].watched
                          /\ \A t \in Thread : ~Removing(t, e) /\ ~Adds(t, e)
        BY <2>1 DEF Init, NewEp, Removing, Adds, Watching
      <3> QED
        BY <3>1 DEF RemoveSafe
    <2> QED
      BY <2>1, <2>2 DEF Init, RemoveInv, RemoveFatal, WatchGoal, Watching
  <1>2. RemoveInv => WatchRemoveSafe
    BY DEF RemoveInv, RemoveFatal, WatchRemoveSafe
  <1> QED
    BY <1>1, <1>2, NextRemove, WatchInvariant, TypeInvariant, ControlInvariant,
       PTL DEF Spec
-----------------------------------------------------------------------------
(* The assertion of ensureWatchedState.                                    *)

(* Two goroutines are in ChangeState for one endpoint: Complete does not   *)
(* take epc.mutex, and ChangeState has no lock of its own.                 *)
Overlap ==
  \E t, u \in Thread : /\ t # u /\ th[t].ep = th[u].ep
                       /\ th[t].pc \in ChangePC /\ th[u].pc \in ChangePC

(* Goroutine t has written e's watched and is about to write its state.    *)
Writes(t, e) == th[t].pc = "setState" /\ th[t].ep = e

(* watched and state agree but between their two assignments, where        *)
(* watched agrees with the state to come.                                  *)
AssertSafe(e) ==
  /\ (\A t \in Thread : ~Writes(t, e)) => ensureWatchedState(ep[e])
  /\ \A t \in Thread : Writes(t, e) => ep[e].watched = isWatchedState(th[t].tgt)

AssertInv == exit # "watchAssert" /\ \A e \in EP : AssertSafe(e)

(* A step of a goroutine that neither is at the assignment of state nor    *)
(* comes there, and changes neither field.                                 *)
LEMMA AssertFrame ==
  ASSUME AssertInv, NEW t \in Thread, Others(t),
         \/ th'[t] = th[t]
         \/ th[t].pc # "setState" /\ th'[t].pc # "setState",
         exit' = exit \/ exit' # "watchAssert",
         \A f \in EP : /\ ep'[f].watched = ep[f].watched
                       /\ ep'[f].state = ep[f].state
  PROVE  AssertInv'
  <1>1. \A u \in Thread : \/ th'[u] = th[u]
                          \/ th[u].pc # "setState" /\ th'[u].pc # "setState"
    BY DEF Others
  <1>2. ASSUME NEW f \in EP PROVE AssertSafe(f)'
    <2>1. AssertSafe(f)
      BY DEF AssertInv
    <2>2. ASSUME NEW u \in Thread
          PROVE  /\ Writes(u, f)' <=> Writes(u, f)
                 /\ Writes(u, f) => th'[u].tgt = th[u].tgt
      BY <1>1 DEF Writes
    <2>3. ensureWatchedState(ep[f])' <=> ensureWatchedState(ep[f])
      BY DEF ensureWatchedState
    <2> QED
      BY <2>1, <2>2, <2>3 DEF AssertSafe
  <1> QED
    BY <1>2 DEF AssertInv

(* A step outside ChangeState and AddEp keeps AssertInv.                   *)
LEMMA AssertQuiet ==
  ASSUME AssertInv, NEW t \in Thread, Quiet(t)
  PROVE  AssertInv'
  BY AssertFrame DEF Quiet, SameWatch, Inside

(* ChangeState's tests, made while no other goroutine is in ChangeState    *)
(* for the endpoint: the assertion holds, and a goroutine that goes on to  *)
(* the assignment of state has found watched as its new state wants it.    *)
LEMMA AssertChangeState ==
  ASSUME TypeInv, ControlInv, AssertInv, ~Overlap, NEW t \in Thread,
         ChangeState(t)
  PROVE  AssertInv'
  <1> DEFINE e == th[t].ep
  <1>1. /\ th[t].pc = "changeState" /\ InChange(th[t])
        /\ UNCHANGED <<ep, lock>> /\ th \in [Thread -> ThRec]
    BY DEF ChangeState, At, InChange, ChangePC, epVars, TypeInv, TypeOK
  <1>2. e \in EP /\ Others(t)
    BY <1>1, InChangeFacts, CallerMoves DEF ChangeStateStep
  <1>3. \A u \in Thread : ~Writes(u, e)
    BY <1>1 DEF Writes, Overlap, ChangePC
  <1>4. ensureWatchedState(ep[e])
    BY <1>2, <1>3 DEF AssertInv, AssertSafe
  <1>5. \/ Return(t) /\ UNCHANGED exit
        \/ Die("EBUSY") \/ Die("notWatched")
        \/ Goto(t, "watchAdd") /\ UNCHANGED exit
        \/ Goto(t, "watchRemove") /\ UNCHANGED exit
        \/ /\ isWatchedState(th[t].tgt) = ep[e].watched
           /\ Goto(t, "setState") /\ UNCHANGED exit
    BY <1>4 DEF ChangeState, Cur
  <1>6. CASE Return(t) /\ UNCHANGED exit
    <2>1. th'[t].pc # "setState"
      BY <1>1, <1>6, ReturnControl DEF ChangePC
    <2> QED
      BY <1>1, <1>2, <1>6, <2>1, AssertFrame
  <1>7. CASE Die("EBUSY") \/ Die("notWatched")
    BY <1>1, <1>2, <1>7, AssertFrame DEF Die
  <1>8. CASE \/ Goto(t, "watchAdd") /\ UNCHANGED exit
             \/ Goto(t, "watchRemove") /\ UNCHANGED exit
    <2>1. th'[t].pc # "setState"
      BY <1>1, <1>8, GotoThread DEF PC
    <2> QED
      BY <1>1, <1>2, <1>8, <2>1, AssertFrame
  <1>9. CASE /\ isWatchedState(th[t].tgt) = ep[e].watched
             /\ Goto(t, "setState") /\ UNCHANGED exit
    <2>1. /\ th'[t].pc = "setState" /\ th'[t].ep = e
          /\ th'[t].tgt = th[t].tgt
      BY <1>1, <1>9, GotoThread DEF PC
    <2>2. ASSUME NEW f \in EP PROVE AssertSafe(f)'
      <3>1. AssertSafe(f)
        BY DEF AssertInv
      <3>2. ASSUME NEW u \in Thread
            PROVE  Writes(u, f)' <=> Writes(u, f) \/ (u = t /\ f = e)
        BY <1>1, <1>2, <2>1 DEF Writes, Others
      <3>3. \A u \in Thread : u # t => th'[u] = th[u]
        BY <1>2 DEF Others
      <3>4. CASE f = e
        BY <1>1, <1>3, <1>9, <2>1, <3>2, <3>4 DEF AssertSafe
      <3>5. CASE f # e
        <4>1. \A u \in Thread : Writes(u, f) => th'[u].tgt = th[u].tgt
          BY <2>1, <3>3
        <4> QED
          BY <1>1, <3>1, <3>2, <3>5, <4>1 DEF AssertSafe, ensureWatchedState
      <3> QED
        BY <3>4, <3>5
    <2> QED
      BY <1>9, <2>2 DEF AssertInv
  <1> QED
    BY <1>5, <1>6, <1>7, <1>8, <1>9

(* The watches: only the descriptor changes.                               *)
LEMMA AssertWatch ==
  ASSUME TypeInv, ControlInv, AssertInv, NEW t \in Thread,
         EpWatchAdd(t) \/ EpWatchRemove(t)
  PROVE  AssertInv'
  <1> DEFINE e == th[t].ep
  <1>1. /\ th[t].pc \in {"watchAdd", "watchRemove"} /\ InChange(th[t])
        /\ th \in [Thread -> ThRec] /\ ep \in [EP -> EpRec]
    BY DEF EpWatchAdd, EpWatchRemove, At, InChange, ChangePC, TypeInv, TypeOK
  <1>2. e \in EP /\ Others(t)
    BY <1>1, InChangeFacts, CallerMoves
  <1>3. \/ UNCHANGED <<ep, th>> /\ exit' \in {"ENOENT", "widTaken", "wmapMismatch"}
        \/ /\ UNCHANGED exit /\ Goto(t, "setWatched")
           /\ \E w : ep' = [ep EXCEPT ![e].wid = w]
    BY DEF EpWatchAdd, EpWatchRemove, Die, Cur
  <1>4. CASE UNCHANGED <<ep, th>> /\ exit' \in {"ENOENT", "widTaken", "wmapMismatch"}
    BY <1>2, <1>4, AssertFrame
  <1>5. ASSUME NEW w, UNCHANGED exit, Goto(t, "setWatched"),
               ep' = [ep EXCEPT ![e].wid = w]
        PROVE  AssertInv'
    <2>1. th'[t].pc = "setWatched"
      BY <1>1, <1>5, GotoThread DEF PC
    <2>2. ASSUME NEW f \in EP
          PROVE  ep'[f].watched = ep[f].watched /\ ep'[f].state = ep[f].state
      <3>1. /\ [ep[e] EXCEPT !.wid = w].watched = ep[e].watched
            /\ [ep[e] EXCEPT !.wid = w].state = ep[e].state
        BY <1>1, <1>2 DEF EpRec
      <3>2. ep'[f] = IF f = e THEN [ep[e] EXCEPT !.wid = w] ELSE ep[f]
        BY <1>1, <1>2, <1>5
      <3> QED
        BY <3>1, <3>2
    <2> QED
      BY <1>1, <1>2, <1>5, <2>1, <2>2, AssertFrame
  <1> QED
    BY <1>3, <1>4, <1>5

(* The two assignments, made while no other goroutine is in ChangeState    *)
(* for the endpoint: nobody tests the endpoint between them.               *)
LEMMA AssertSetters ==
  ASSUME TypeInv, ControlInv, AssertInv, ~Overlap, NEW t \in Thread,
         SetWatched(t) \/ SetState(t) \/ SetSeen(t)
  PROVE  AssertInv'
  <1> DEFINE e == th[t].ep
  <1>1. /\ InChange(th[t]) /\ UNCHANGED <<lock, exit>>
        /\ th \in [Thread -> ThRec] /\ ep \in [EP -> EpRec]
    BY DEF SetWatched, SetState, SetSeen, At, InChange, ChangePC, TypeInv, TypeOK
  <1>2. e \in EP /\ ep[e] \in EpRec /\ Others(t)
    BY <1>1, InChangeFacts, CallerMoves DEF ChangeStateStep
  <1>3. \A u \in Thread : u # t => th'[u] = th[u]
    BY <1>2 DEF Others
  <1>4. CASE SetSeen(t)
    <2>1. /\ th[t].pc # "setState" /\ th'[t].pc # "setState"
      BY <1>1, <1>4, ReturnControl DEF SetSeen, At, ChangePC
    <2>2. \A f \in EP : SameWatch(f)
      BY <1>1, <1>2, <1>4, FieldsKept DEF SetSeen, Cur
    <2> QED
      BY <1>1, <1>2, <2>1, <2>2, AssertFrame DEF SameWatch
  <1>5. ASSUME SetWatched(t) \/ SetState(t)
        PROVE  \A u \in Thread : u # t => ~Writes(u, e)
    BY <1>5 DEF SetWatched, SetState, At, Writes, Overlap, ChangePC
  <1>6. CASE SetWatched(t)
    <2>1. /\ th[t].pc = "setWatched" /\ th'[t].pc = "setState"
          /\ th'[t].ep = e /\ th'[t].tgt = th[t].tgt
      BY <1>1, <1>6, GotoThread DEF SetWatched, At, PC
    <2>2. /\ ep'[e].watched = isWatchedState(th[t].tgt)
          /\ \A f \in EP : f # e => ep'[f] = ep[f]
      <3> DEFINE x == [ep[e] EXCEPT !.watched = isWatchedState(th[t].tgt)]
      <3>1. x.watched = isWatchedState(th[t].tgt)
        BY <1>2 DEF EpRec
      <3>2. ep' = [ep EXCEPT ![e] = x]
        BY <1>6 DEF SetWatched, Cur
      <3> HIDE DEF x
      <3> QED
        BY <1>1, <1>2, <3>1, <3>2
    <2>3. ASSUME NEW f \in EP PROVE AssertSafe(f)'
      <3>1. AssertSafe(f)
        BY DEF AssertInv
      <3>2. ASSUME NEW u \in Thread
            PROVE  Writes(u, f)' <=> Writes(u, f) \/ (u = t /\ f = e)
        BY <1>3, <2>1 DEF Writes
      <3>3. CASE f = e
        BY <1>5, <1>6, <2>1, <2>2, <3>2, <3>3 DEF AssertSafe
      <3>4. CASE f # e
        <4>1. \A u \in Thread : Writes(u, f) => th'[u].tgt = th[u].tgt
          BY <1>3, <2>1
        <4> QED
          BY <2>2, <3>1, <3>2, <3>4, <4>1 DEF AssertSafe, ensureWatchedState
      <3> QED
        BY <3>3, <3>4
    <2> QED
      BY <1>1, <2>3 DEF AssertInv
  <1>7. CASE SetState(t)
    <2>1. th[t].pc = "setState" /\ th'[t].pc # "setState"
      <3>1. CASE Return(t)
        BY <1>1, <1>7, <3>1, ReturnControl DEF SetState, At, ChangePC
      <3>2. CASE Goto(t, "setSeen")
        BY <1>1, <1>7, <3>2, GotoThread DEF SetState, At, PC
      <3> QED
        BY <1>7, <3>1, <3>2 DEF SetState
    <2>2. /\ ep'[e].state = th[t].tgt /\ ep'[e].watched = ep[e].watched
          /\ \A f \in EP : f # e => ep'[f] = ep[f]
      <3> DEFINE x == [ep[e] EXCEPT !.state = th[t].tgt]
      <3>1. x.state = th[t].tgt /\ x.watched = ep[e].watched
        BY <1>2 DEF EpRec
      <3>2. ep' = [ep EXCEPT ![e] = x]
        BY <1>7 DEF SetState, Cur
      <3> HIDE DEF x
      <3> QED
        BY <1>1, <1>2, <3>1, <3>2
    <2>3. Writes(t, e)
      BY <2>1 DEF Writes
    <2>4. ASSUME NEW f \in EP PROVE AssertSafe(f)'
      <3>1. AssertSafe(f)
        BY DEF AssertInv
      <3>2. ASSUME NEW u \in Thread
            PROVE  Writes(u, f)' <=> Writes(u, f) /\ u # t
        BY <1>3, <2>1 DEF Writes
      <3>3. CASE f = e
        <4>1. ep[e].watched = isWatchedState(th[t].tgt)
          BY <2>3, <3>1, <3>3 DEF AssertSafe
        <4>2. \A u \in Thread : ~Writes(u, f)'
          BY <1>5, <1>7, <3>2, <3>3
        <4> QED
          BY <2>2, <3>3, <4>1, <4>2 DEF AssertSafe, ensureWatchedState
      <3>4. CASE f # e
        <4>1. /\ ~Writes(t, f)
              /\ \A u \in Thread : u # t => th'[u].tgt = th[u].tgt
          BY <1>3, <3>4 DEF Writes
        <4> QED
          BY <2>2, <3>1, <3>2, <3>4, <4>1 DEF AssertSafe, ensureWatchedState
      <3> QED
        BY <3>3, <3>4
    <2> QED
      BY <1>1, <2>4 DEF AssertInv
  <1> QED
    BY <1>4, <1>6, <1>7

(* AddEp makes an endpoint that is watched and "init"; no goroutine knows  *)
(* of it yet.                                                              *)
LEMMA AssertAddEp ==
  ASSUME TypeInv, ControlInv, AssertInv, NEW t \in Thread, AddEpNew(t)
  PROVE  AssertInv'
  <1> DEFINE e == Cur(t)
  <1>1. /\ th \in [Thread -> ThRec] /\ ep \in [EP -> EpRec]
        /\ e \in EP /\ Others(t) /\ th[t].pc # "setState"
    BY AddEpThread DEF TypeInv, TypeOK, AddEp, Cur
  <1>2. CASE UNCHANGED <<ep, th>> /\ exit' \in {"ENOENT", "widTaken"}
    BY <1>1, <1>2, AssertFrame
  <1>3. ASSUME NEW w, UNCHANGED exit, Done(t, Home(t)),
               ep' = [ep EXCEPT ![e] = [NewEp EXCEPT !.state = "init",
                                          !.watched = TRUE, !.wid = w]]
        PROVE  AssertInv'
    <2>1. \A u \in Thread : ~Writes(u, e)
      BY DEF AddEpNew, ControlInv, Known, Writes, EpPC
    <2>2. th'[t].pc # "setState"
      BY <1>1, <1>3, DoneThread DEF Home, PC
    <2>3. ensureWatchedState(ep'[e])
      BY <1>1, <1>3 DEF NewEp, ensureWatchedState, isWatchedState
    <2>4. ASSUME NEW f \in EP PROVE AssertSafe(f)'
      <3>1. AssertSafe(f)
        BY DEF AssertInv
      <3>2. ASSUME NEW u \in Thread
            PROVE  /\ Writes(u, f)' <=> Writes(u, f)
                   /\ Writes(u, f) => th'[u].tgt = th[u].tgt
        BY <1>1, <2>2 DEF Writes, Others
      <3>3. CASE f = e
        BY <2>1, <2>3, <3>2, <3>3 DEF AssertSafe, ensureWatchedState
      <3>4. CASE f # e
        <4>1. ep'[f] = ep[f]
          BY <1>1, <1>3, <3>4
        <4> QED
          BY <3>1, <3>2, <4>1 DEF AssertSafe, ensureWatchedState
      <3> QED
        BY <3>3, <3>4
    <2> QED
      BY <1>3, <2>4 DEF AssertInv
  <1> QED
    BY <1>2, <1>3 DEF AddEpNew, Die

(* Every step from a state without an overlap keeps AssertInv.             *)
LEMMA NextAssert ==
  TypeInv /\ ControlInv /\ ~Overlap /\ AssertInv /\ [Next]_vars => AssertInv'
  <1> SUFFICES ASSUME TypeInv, ControlInv, ~Overlap, AssertInv, [Next]_vars
               PROVE  AssertInv'
    OBVIOUS
  <1>0. {"monitor", "lsof", "inotify"} \subseteq Thread
    BY DEF Thread
  <1>1. ASSUME NEW t \in Thread, ChangeStateStep(t) PROVE AssertInv'
    BY <1>1, AssertChangeState, AssertSetters DEF ChangeStateStep
  <1>2. CASE Monitor
    BY <1>0, <1>1, <1>2, QuietMonitor, QuietRest, AssertQuiet, AssertWatch
    DEF Monitor
  <1>5. ASSUME NEW t \in Thread, AddEp(t) \/ AddEpTest(t) PROVE AssertInv'
    BY <1>5, QuietKnown, AssertQuiet, AssertAddEp DEF AddEp
  <1>3. CASE Lsof
    BY <1>0, <1>1, <1>3, <1>5, QuietRest, AssertQuiet, AssertWatch DEF Lsof
  <1>4. CASE Inotify
    BY <1>0, <1>1, <1>4, <1>5, QuietComplete, QuietRest, AssertQuiet,
       AssertWatch DEF Inotify
  <1> QED
    BY <1>2, <1>3, <1>4, QuietRest, AssertQuiet DEF Next, Halted

(* The assertion of ensureWatchedState fails only where two goroutines     *)
(* have been in ChangeState for one endpoint at once: serialised calls,    *)
(* whatever their order, keep watched and state in step.                   *)
THEOREM AssertNeedsOverlap == Spec /\ []~Overlap => []NeverWatchAssert
  <1>1. Init => AssertInv
    <2> SUFFICES ASSUME Init PROVE AssertInv
      OBVIOUS
    <2>1. \A t \in Thread : th[t].pc # "setState"
      BY DEF Init, Idle, Thread
    <2>2. \A e \in EP : ensureWatchedState(ep[e])
      BY DEF Init, NewEp, ensureWatchedState, isWatchedState
    <2> QED
      BY <2>1, <2>2 DEF Init, AssertInv, AssertSafe, Writes
  <1>2. AssertInv => NeverWatchAssert
    BY DEF AssertInv, NeverWatchAssert
  <1> QED
    BY <1>1, <1>2, NextAssert, TypeInvariant, ControlInvariant, PTL DEF Spec
=============================================================================
