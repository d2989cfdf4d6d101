-------------------------- MODULE LifecycleProofs ---------------------------
(***************************************************************************)
(* The monitoring core implements Lifecycle: every step of Lookout is a    *)
(* step of Lifecycle, or changes nothing of it, under the refinement       *)
(* mapping of LookoutLifecycle.  The facts about control in ControlProofs  *)
(* say which goroutine a change belongs to.                                *)
(***************************************************************************)
EXTENDS ControlProofs, LookoutLifecycle

-----------------------------------------------------------------------------
(* How the goals move with the goroutines.                                 *)

(* Where a goroutine has a goal: in ChangeState, up to the assignment of   *)
(* State, and in AddEp, between its looks at State.                        *)
GoalPC == ChangePC \cup {"found"}

(* A goroutine with a goal works on an endpoint that is in epMap, and      *)
(* holds epc.mutex or is the inotify goroutine in Complete.                *)
LEMMA GoalFacts ==
  ASSUME TypeInv, ControlInv, NEW t \in Thread, th[t].pc \in GoalPC
  PROVE  /\ th[t].ep \in EP /\ ep[th[t].ep].state # "unknown"
         /\ lock = t \/ (t = "inotify" /\ lock # t)
  <1>1. Ctl(t, th[t], lock) /\ th[t].ep \in InMap
    BY DEF ControlInv, ThreadCtl, Known, GoalPC, ChangePC, EpPC
  <1> QED
    BY <1>1 DEF InMap, Ctl, MonitorCtl, MonitorHolds, LsofCtl, LsofHolds,
                GoalPC, ChangePC, Thread

(* A goroutine that keeps its goal, and takes or releases epc.mutex only   *)
(* while it has none, leaves both abstract goals as they are.              *)
LEMMA GoalKept ==
  ASSUME NEW t \in Thread, Others(t), LockStep(t), GoalOf(t)' = GoalOf(t),
         lock' = lock \/ GoalOf(t) = <<>>, lock \in Thread \cup {"none"}
  PROVE  UNCHANGED lcGoal
  <1>1. \A u \in Thread : GoalOf(u)' = GoalOf(u)
    BY DEF Others, GoalOf, ChangesState
  <1>2. ContainerGoal' = ContainerGoal
    BY <1>1 DEF ContainerGoal, LockStep
  <1>3. CompleteGoal' = CompleteGoal
    BY <1>1 DEF CompleteGoal, LockStep, Thread
  <1> QED
    BY <1>2, <1>3 DEF lcGoal

(* Which abstract writer a goroutine inside ChangeState is.                *)
WriterOf(t) == IF lock = t THEN "container" ELSE "complete"

(* The goal of a goroutine that has one is the goal of its writer.         *)
LEMMA GoalIs ==
  ASSUME TypeInv, ControlInv, NEW t \in Thread, th[t].pc \in GoalPC
  PROVE  /\ GoalOf(t) = <<th[t].ep, th[t].tgt>>
         /\ lcGoal[WriterOf(t)] = GoalOf(t)
         /\ WriterOf(t) \in {"container", "complete"}
  <1>1. lock = t \/ (t = "inotify" /\ lock # t)
    BY GoalFacts
  <1>2. GoalOf(t) = <<th[t].ep, th[t].tgt>>
    BY DEF GoalOf, ChangesState, GoalPC, ChangePC
  <1>3. CASE lock = t
    <2>1. t # "none"
      BY DEF Thread
    <2> QED
      BY <1>2, <1>3, <2>1 DEF WriterOf, lcGoal, ContainerGoal
  <1>4. CASE t = "inotify" /\ lock # t
    BY <1>2, <1>4 DEF WriterOf, lcGoal, CompleteGoal
  <1> QED
    BY <1>1, <1>3, <1>4

(* When the goal of a goroutine that keeps epc.mutex, or does without it,  *)
(* changes, that of its writer does, and no other.                         *)
LEMMA GoalMoves ==
  ASSUME NEW t \in Thread, Others(t), LockStep(t),
         lock \in Thread \cup {"none"},
         \/ lock' = t /\ (lock = t \/ GoalOf(t) = <<>>)
         \/ t = "inotify" /\ lock' = lock /\ lock # t
  PROVE  lcGoal' = [lcGoal EXCEPT ![WriterOf(t)'] = GoalOf(t)']
  <1>1. \A u \in Thread : u # t => GoalOf(u)' = GoalOf(u)
    BY DEF Others, GoalOf, ChangesState
  <1>2. CASE lock' = t /\ (lock = t \/ GoalOf(t) = <<>>)
    <2>1. WriterOf(t)' = "container" /\ t # "none"
      BY <1>2 DEF WriterOf, Thread
    <2>2. ContainerGoal' = GoalOf(t)'
      BY <1>2, <2>1 DEF ContainerGoal
    <2>3. CompleteGoal' = CompleteGoal
      BY <1>1, <1>2 DEF CompleteGoal, LockStep, Thread
    <2> QED
      BY <2>1, <2>2, <2>3 DEF lcGoal
  <1>3. CASE t = "inotify" /\ lock' = lock /\ lock # t
    <2>1. WriterOf(t)' = "complete"
      BY <1>3 DEF WriterOf
    <2>2. CompleteGoal' = GoalOf(t)'
      BY <1>3 DEF CompleteGoal
    <2>3. ContainerGoal' = ContainerGoal
      BY <1>1, <1>3 DEF ContainerGoal
    <2> QED
      BY <2>1, <2>2, <2>3 DEF lcGoal
  <1> QED
    BY <1>2, <1>3

-----------------------------------------------------------------------------
(* The steps of ChangeState.                                               *)
LcStep == LC!LcNext \/ UNCHANGED LC!lcVars

(* A step that keeps State, App and goals is a stutter of Lifecycle.       *)
LEMMA Stutters ==
  ASSUME UNCHANGED <<lcState, lcApp, lcGoal>>
  PROVE  LcStep
  BY DEF LcStep, LC!lcVars

(* State and App, field by field, are the abstract state and app.          *)
LEMMA SameStateApp ==
  ASSUME \A e \in EP : ep'[e].state = ep[e].state /\ ep'[e].app = ep[e].app
  PROVE  UNCHANGED <<lcState, lcApp>>
  BY DEF lcState, lcApp

(* A goroutine that carries on with the same change stutters.              *)
LEMMA ChangeGoesOn ==
  ASSUME TypeInv, NEW t \in Thread, Others(t), UNCHANGED lock,
         th[t].pc \in ChangePC, th'[t].pc \in ChangePC,
         th'[t].ep = th[t].ep, th'[t].tgt = th[t].tgt,
         \A e \in EP : ep'[e].state = ep[e].state /\ ep'[e].app = ep[e].app
  PROVE  LcStep
  <1>1. GoalOf(t)' = GoalOf(t)
    BY DEF GoalOf, ChangesState, ChangePC
  <1>2. UNCHANGED lcGoal
    BY <1>1, GoalKept DEF LockStep, TypeInv, TypeOK
  <1> QED
    BY <1>2, SameStateApp, Stutters

(* A goroutine that has no goal before a step and none after it stutters,  *)
(* if State and App stay.                                                  *)
LEMMA NoGoal ==
  ASSUME TypeInv, NEW t \in Thread, Others(t), LockStep(t),
         th[t].pc \notin GoalPC, th'[t].pc \notin GoalPC,
         \A e \in EP : ep'[e].state = ep[e].state /\ ep'[e].app = ep[e].app
  PROVE  LcStep
  <1>1. GoalOf(t) = <<>> /\ GoalOf(t)' = <<>>
    BY DEF GoalOf, ChangesState, GoalPC, ChangePC
  <1>2. UNCHANGED lcGoal
    BY <1>1, GoalKept DEF TypeInv, TypeOK
  <1> QED
    BY <1>2, SameStateApp, Stutters

(* Nothing moves: a Fatal, a panic, a throw, or the outside world.         *)
LEMMA NothingMoves ==
  ASSUME UNCHANGED <<th, lock>>,
         \A e \in EP : ep'[e].state = ep[e].state /\ ep'[e].app = ep[e].app
  PROVE  LcStep
  <1>1. UNCHANGED lcGoal
    BY DEF lcGoal, ContainerGoal, CompleteGoal, GoalOf, ChangesState
  <1> QED
    BY <1>1, SameStateApp, Stutters

(* Writing State, or finding it written, finishes the change.              *)
LEMMA FinishStep ==
  ASSUME TypeInv, ControlInv, NEW t \in Thread, th[t].pc \in GoalPC,
         Others(t), th'[t].pc \notin GoalPC,
         lock' = lock \/ (lock = t /\ lock' = "none"),
         \A e \in EP : /\ ep'[e].app = ep[e].app
                       /\ ep'[e].state = IF e = th[t].ep THEN th[t].tgt
                                                         ELSE ep[e].state
  PROVE  LcStep
  <1> DEFINE w == WriterOf(t)
  <1>1. /\ lcGoal[w] = <<th[t].ep, th[t].tgt>>
        /\ w \in {"container", "complete"}
    BY GoalIs
  <1>2. lock = t \/ (t = "inotify" /\ lock # t)
    BY GoalFacts
  <1>3. GoalOf(t)' = <<>>
    BY DEF GoalOf, ChangesState, GoalPC, ChangePC
  <1>4. lcGoal' = [lcGoal EXCEPT ![w] = <<>>]
    <2>1. CASE UNCHANGED lock
      <3>1. WriterOf(t)' = w
        BY <2>1 DEF WriterOf
      <3> QED
        BY <1>2, <1>3, <2>1, <3>1, GoalMoves DEF LockStep, TypeInv, TypeOK
    <2>2. CASE lock = t /\ lock' = "none"
      <3>1. \A u \in Thread : u # t => GoalOf(u)' = GoalOf(u)
        BY DEF Others, GoalOf, ChangesState
      <3>2. w = "container" /\ ContainerGoal' = <<>>
        BY <2>2 DEF WriterOf, ContainerGoal
      <3>3. CompleteGoal' = CompleteGoal
        BY <1>3, <2>2, <3>1 DEF CompleteGoal, Thread
      <3> QED
        BY <3>2, <3>3 DEF lcGoal
    <2> QED
      BY <2>1, <2>2
  <1>5. lcState' = [lcState EXCEPT ![th[t].ep] = th[t].tgt]
    <2>1. th[t].ep \in EP
      BY GoalFacts
    <2> QED
      BY <2>1 DEF lcState
  <1>6. lcApp' = lcApp
    BY DEF lcApp
  <1> HIDE DEF w
  <1>7. LC!Finish(w)
    BY <1>1, <1>4, <1>5, <1>6 DEF LC!Finish, LC!Idle
  <1> QED
    BY <1>1, <1>7 DEF LcStep, LC!LcNext, LC!Writer

(* ChangeState's checks, watchCtl and assignments.                         *)
LEMMA RefinesChangeState ==
  ASSUME TypeInv, ControlInv, NEW t \in Thread, ChangeStateStep(t)
  PROVE  LcStep
  <1>1. /\ InChange(th[t]) /\ UNCHANGED lock
        /\ ~SetSeen(t) => th[t].pc \in ChangePC
        /\ SetSeen(t) => th[t].pc = "setSeen"
    BY DEF ChangeStateStep, ChangeState, SetWatched, SetState, SetSeen, At,
           InChange, ChangePC
  <1>2. /\ ep \in [EP -> EpRec] /\ th[t].ep \in EP /\ ep[th[t].ep] \in EpRec
        /\ th \in [Thread -> ThRec]
    BY <1>1, InChangeFacts DEF TypeInv, TypeOK
  <1>3. CASE ChangeState(t)
    <2>0. UNCHANGED ep /\ th[t].pc = "changeState"
      BY <1>3 DEF ChangeState, epVars, At
    <2>1. CASE UNCHANGED th
      BY <1>1, <2>0, <2>1, NothingMoves
    <2>2. ASSUME NEW p \in {"setState", "watchAdd", "watchRemove"}, Goto(t, p)
          PROVE  LcStep
      <3>1. /\ Others(t) /\ th'[t].pc = p /\ th'[t].ep = th[t].ep
            /\ th'[t].tgt = th[t].tgt
        BY <1>2, <2>2, GotoThread DEF PC
      <3> QED
        BY <1>1, <2>0, <3>1, ChangeGoesOn DEF GoalPC, ChangePC
    <2>3. CASE th[t].tgt = ep[th[t].ep].state /\ Return(t)
      <3>1. Others(t) /\ th'[t].pc \notin GoalPC
        BY <1>1, <2>3, ReturnControl DEF GoalPC
      <3> QED
        BY <1>1, <2>0, <2>3, <3>1, FinishStep DEF GoalPC, ChangePC
    <2> QED
      BY <1>3, <2>1, <2>2, <2>3 DEF ChangeState, Die, Cur
  <1>4. CASE SetWatched(t)
    <2>1. ep' = [ep EXCEPT ![th[t].ep].watched = isWatchedState(th[t].tgt)]
      BY <1>4 DEF SetWatched, Cur
    <2>2. \A f \in EP : ep'[f].state = ep[f].state /\ ep'[f].app = ep[f].app
      BY <1>2, <2>1, StateAppKept
    <2>3. /\ Others(t) /\ th'[t].pc = "setState" /\ th'[t].ep = th[t].ep
          /\ th'[t].tgt = th[t].tgt
      BY <1>2, <1>4, GotoThread DEF SetWatched, PC
    <2>4. th[t].pc = "setWatched"
      BY <1>4 DEF SetWatched, At
    <2> QED
      BY <1>1, <2>2, <2>3, <2>4, ChangeGoesOn DEF GoalPC, ChangePC
  <1>5. CASE SetState(t)
    <2>1. ep' = [ep EXCEPT ![th[t].ep] = [ep[th[t].ep] EXCEPT !.state = th[t].tgt]]
      BY <1>5 DEF SetState, Cur
    <2>2. /\ [ep[th[t].ep] EXCEPT !.state = th[t].tgt].state = th[t].tgt
          /\ [ep[th[t].ep] EXCEPT !.state = th[t].tgt].app = ep[th[t].ep].app
      BY <1>2 DEF EpRec
    <2>3. \A f \in EP : /\ ep'[f].app = ep[f].app
                        /\ ep'[f].state = IF f = th[t].ep THEN th[t].tgt
                                                          ELSE ep[f].state
      BY <1>2, <2>1, <2>2
    <2>4. Others(t) /\ th'[t].pc \notin GoalPC
      <3>1. CASE Return(t)
        BY <1>1, <3>1, ReturnControl DEF GoalPC
      <3>2. CASE Goto(t, "setSeen")
        BY <1>2, <3>2, GotoThread DEF PC, GoalPC, ChangePC
      <3> QED
        BY <1>5, <3>1, <3>2 DEF SetState
    <2>5. th[t].pc \in ChangePC
      BY <1>5 DEF SetState, At, GoalPC, ChangePC
    <2> QED
      BY <1>1, <2>3, <2>4, <2>5, FinishStep DEF GoalPC
  <1>6. CASE SetSeen(t)
    <2>1. ep' = [ep EXCEPT ![th[t].ep].seen = 0]
      BY <1>6 DEF SetSeen, Cur
    <2>2. \A f \in EP : ep'[f].state = ep[f].state /\ ep'[f].app = ep[f].app
      BY <1>2, <2>1, StateAppKept
    <2>3. Others(t) /\ LockStep(t) /\ th'[t].pc \notin GoalPC
      BY <1>1, <1>6, ReturnControl DEF SetSeen, GoalPC
    <2> QED
      BY <1>1, <1>6, <2>2, <2>3, NoGoal DEF GoalPC, ChangePC
  <1> QED
    BY <1>3, <1>4, <1>5, <1>6 DEF ChangeStateStep

(* Adding and removing watches is invisible to the readers of the          *)
(* container.                                                              *)
LEMMA RefinesWatch ==
  ASSUME TypeInv, ControlInv, NEW t \in Thread, EpWatchAdd(t) \/ EpWatchRemove(t)
  PROVE  LcStep
  <1>1. /\ th[t].pc \in ChangePC /\ UNCHANGED lock /\ InChange(th[t])
    BY DEF EpWatchAdd, EpWatchRemove, At, GoalPC, ChangePC, InChange
  <1>2. /\ ep \in [EP -> EpRec] /\ th[t].ep \in EP /\ th \in [Thread -> ThRec]
    BY <1>1, InChangeFacts DEF TypeInv, TypeOK
  <1>3. \A f \in EP : ep'[f].state = ep[f].state /\ ep'[f].app = ep[f].app
    <2>1. UNCHANGED ep \/ \E x : ep' = [ep EXCEPT ![th[t].ep].wid = x]
      BY DEF EpWatchAdd, EpWatchRemove, Cur
    <2> QED
      BY <1>2, <2>1, StateAppKept
  <1>4. CASE UNCHANGED th
    BY <1>1, <1>3, <1>4, NothingMoves
  <1>5. CASE Goto(t, "setWatched")
    <2>1. /\ Others(t) /\ th'[t].pc = "setWatched" /\ th'[t].ep = th[t].ep
          /\ th'[t].tgt = th[t].tgt
      BY <1>2, <1>5, GotoThread DEF PC
    <2> QED
      BY <1>1, <1>3, <2>1, ChangeGoesOn DEF GoalPC, ChangePC
  <1> QED
    BY <1>4, <1>5 DEF EpWatchAdd, EpWatchRemove, Die

-----------------------------------------------------------------------------
(* The steps that decide on a change.                                      *)

(* A goroutine without a goal that calls ChangeState, or has looked at     *)
(* State in AddEp, aims its writer.                                        *)
LEMMA AimStep ==
  ASSUME TypeInv, NEW t \in Thread, Others(t), LockStep(t),
         th[t].pc \notin GoalPC, th'[t].pc \in {"changeState", "found"},
         lock' = t \/ (t = "inotify" /\ lock' = lock /\ lock # t)
  PROVE  LC!Aim(WriterOf(t)', th'[t].ep, th'[t].tgt)
  <1> DEFINE w == WriterOf(t)'
  <1>1. GoalOf(t) = <<>> /\ GoalOf(t)' = <<th'[t].ep, th'[t].tgt>>
    BY DEF GoalOf, ChangesState, GoalPC, ChangePC
  <1>2. lcGoal' = [lcGoal EXCEPT ![w] = <<th'[t].ep, th'[t].tgt>>]
    BY <1>1, GoalMoves DEF TypeInv, TypeOK
  <1>3. lcGoal[w] = <<>>
    <2>1. CASE lock' = t
      <3>1. w = "container"
        BY <2>1 DEF WriterOf
      <3>2. ContainerGoal = <<>>
        BY <1>1, <2>1 DEF ContainerGoal, LockStep
      <3> QED
        BY <3>1, <3>2 DEF lcGoal
    <2>2. CASE t = "inotify" /\ lock' = lock /\ lock # t
      <3>1. w = "complete"
        BY <2>2 DEF WriterOf
      <3>2. CompleteGoal = <<>>
        BY <1>1, <2>2 DEF CompleteGoal
      <3> QED
        BY <3>1, <3>2 DEF lcGoal
    <2> QED
      BY <2>1, <2>2
  <1> QED
    BY <1>2, <1>3 DEF LC!Aim, LC!Idle

(* The monitor decides to take an endpoint down when it finds it running,  *)
(* and to remove it when it does not.                                      *)
LEMMA RefinesDecide ==
  ASSUME TypeInv, ControlInv, Decide \/ PollAge
  PROVE  LcStep
  <1> DEFINE t == "monitor"
             e == th[t].ep
  <1>1. /\ t \in Thread /\ th \in [Thread -> ThRec] /\ Ctl(t, th[t], lock)
        /\ th[t].pc \in {"decide", "pollAge"} /\ UNCHANGED <<ep, lock>>
    BY DEF Thread, TypeInv, TypeOK, ControlInv, ThreadCtl, Decide, PollAge, At,
           epVars
  <1>2. e \in InMap /\ e \in EP /\ lock = "monitor"
    BY <1>1 DEF ControlInv, Known, EpPC, Ctl, MonitorCtl, MonitorHolds, InMap
  <1>3. UNCHANGED <<lcState, lcApp>> /\ lcState[e] = ep[e].state
    BY <1>1, <1>2 DEF lcState, lcApp
  <1>4. ASSUME NEW s \in {"down", "removing"}, NEW r \in {"cleanNext", "pollNext"},
               CallChangeState(t, s, r),
               s = "down" => ep[e].state = "running",
               s = "removing" => ep[e].state # "running"
        PROVE  LcStep
    <2>1. s \in Epstate /\ r \in RetPC
      BY DEF Epstate, RetPC
    <2>2. /\ Others(t) /\ th'[t].pc = "changeState" /\ th'[t].tgt = s
          /\ th'[t].ep = e
      BY <1>1, <1>4, <2>1, CallThread
    <2>3. WriterOf(t)' = "container"
      BY <1>1, <1>2 DEF WriterOf
    <2>4. LC!Aim("container", e, s)
      BY <1>1, <1>2, <2>2, <2>3, AimStep DEF LockStep, GoalPC, ChangePC
    <2>5. ep[e].state # "unknown"
      BY <1>2 DEF InMap
    <2>6. LC!LosesTouch(e) \/ LC!Vanishes(e)
      BY <1>3, <1>4, <2>4, <2>5 DEF LC!LosesTouch, LC!Vanishes
    <2> QED
      BY <1>2, <2>6 DEF LcStep, LC!LcNext
  <1>5. ASSUME NEW p \in {"cleanNext", "pollNext"}, Done(t, p)
        PROVE  LcStep
    <2>1. Others(t) /\ th'[t].pc = p
      BY <1>1, <1>5, DoneThread DEF PC
    <2> QED
      BY <1>1, <2>1, NoGoal DEF LockStep, GoalPC, ChangePC
  <1>6. CASE Decide
    BY <1>4, <1>5, <1>6 DEF Decide, Cur
  <1>7. CASE PollAge
    BY <1>4, <1>5, <1>7 DEF PollAge, Cur
  <1> QED
    BY <1>6, <1>7

(* AddEp finds an endpoint again: it looks at State, goes by what it has   *)
(* read, or begins anew an endpoint that was being removed.                *)
LEMMA RefinesAddEpKnown ==
  ASSUME TypeInv, ControlInv, NEW t \in {"lsof", "inotify"},
         AddEpKnown(t) \/ AddEpTest(t)
  PROVE  LcStep
  <1> DEFINE e == th[t].ep
             s == ep[e].state
  <1>1. /\ t \in Thread /\ th[t].pc \in {"addEp", "found"} /\ e \in EP
        /\ Others(t) /\ Looked(t, s) /\ Ctl(t, th[t], lock)
        /\ ep \in [EP -> EpRec] /\ lock \in Thread \cup {"none"}
    BY KnownThread DEF Thread, TypeInv, TypeOK, ControlInv, ThreadCtl
  <1>2. s # "unknown" /\ t # "none"
    BY <1>1 DEF AddEpKnown, AddEpTest, At, ControlInv, Known, EpPC, InMap, Cur
  <1>3. /\ AddEpKnown(t) => th[t].pc = "addEp" /\ lock = "none"
        /\ AddEpTest(t) => th[t].pc = "found" /\ lock = t
        /\ AddEpTest(t) => th'[t].pc # "found"
    <2>1. AddEpTest(t) => th'[t].pc # "found"
      BY <1>1, SettleThread
      DEF AddEpTest, Cur, Home, TypeInv, TypeOK, ThRec, EpRec
    <2> QED
      BY <1>1, <2>1 DEF AddEpKnown, AddEpTest, At, Ctl, LsofCtl, LsofHolds,
                        InotifyCtl
  <1>4. UNCHANGED <<lcState, lcApp>> /\ lcState[e] = s
    <2>1. \A f \in EP : ep'[f].state = ep[f].state /\ ep'[f].app = ep[f].app
      BY <1>1, StateAppKept DEF AddEpKnown, AddEpTest, epVars, Cur
    <2> QED
      BY <1>1, <2>1, SameStateApp DEF lcState
  <1>5. \A f \in EP : ep'[f].state = ep[f].state /\ ep'[f].app = ep[f].app
    BY <1>1, StateAppKept DEF AddEpKnown, AddEpTest, epVars, Cur
  <1>6. CASE AddEpKnown(t)
    <2>0. th[t].pc \notin GoalPC
      BY <1>3, <1>6 DEF GoalPC, ChangePC
    <2>1. CASE th'[t].pc \in {"found", "changeState"}
      <3>1. lock' = t /\ th'[t].ep = e /\ WriterOf(t)' = "container"
        BY <1>1, <1>3, <1>6, <2>1 DEF Looked, Home, WriterOf
      <3>2. LC!Aim("container", e, th'[t].tgt)
        BY <1>1, <1>3, <1>6, <2>0, <2>1, <3>1, AimStep DEF LockStep
      <3>3. \/ th'[t].tgt = s
            \/ s = "removing" /\ th'[t].tgt = "init"
        BY <1>1, <1>3, <1>6, <2>1 DEF Looked, Home
      <3>4. LC!Looks(e) \/ LC!Reappears(e)
        BY <1>2, <1>4, <3>2, <3>3 DEF LC!Looks, LC!Reappears, LC!Aim
      <3> QED
        BY <1>1, <3>4 DEF LcStep, LC!LcNext
    <2>2. CASE th'[t].pc \notin {"found", "changeState"}
      <3>1. th'[t].pc = Home(t) /\ lock' = "none"
        BY <1>1, <2>2 DEF Looked
      <3>2. th'[t].pc \notin GoalPC
        BY <3>1 DEF Home, GoalPC, ChangePC
      <3> QED
        BY <1>1, <1>3, <1>5, <1>6, <2>0, <3>1, <3>2, NoGoal DEF LockStep
    <2> QED
      BY <2>1, <2>2
  <1>7. CASE AddEpTest(t)
    <2>0. /\ th[t].pc \in GoalPC /\ lock = t /\ WriterOf(t) = "container"
          /\ GoalOf(t) = <<e, th[t].tgt>>
          /\ lcGoal["container"] = <<e, th[t].tgt>>
      BY <1>1, <1>3, <1>7, GoalIs DEF GoalPC, WriterOf
    <2>1. CASE th'[t].pc = "changeState"
      <3>1. /\ lock' = t /\ th'[t].ep = e
            /\ \/ s = "removing" /\ th'[t].tgt = "init"
               \/ th'[t].tgt = th[t].tgt
        BY <1>1, <1>3, <1>7, <2>1 DEF Looked, Home
      <3>2. GoalOf(t)' = <<e, th'[t].tgt>>
        BY <2>1, <3>1 DEF GoalOf, ChangesState
      <3>3. CASE th'[t].tgt = th[t].tgt
        <4>1. GoalOf(t)' = GoalOf(t)
          BY <2>0, <3>2, <3>3
        <4>2. UNCHANGED lcGoal
          BY <1>1, <2>0, <3>1, <4>1, GoalKept DEF LockStep
        <4> QED
          BY <1>4, <4>2, Stutters
      <3>4. CASE s = "removing" /\ th'[t].tgt = "init"
        <4>1. th[t].tgt = "removing"
          BY <1>1, <1>3, <1>7, <3>4 DEF ControlInv, LooksAgree, LookAgrees
        <4>2. WriterOf(t)' = "container"
          BY <3>1 DEF WriterOf
        <4>3. lcGoal' = [lcGoal EXCEPT !["container"] = <<e, "init">>]
          BY <1>1, <2>0, <3>1, <3>2, <3>4, <4>2, GoalMoves DEF LockStep
        <4>4. LC!Reappears(e)
          BY <1>4, <2>0, <3>4, <4>1, <4>3 DEF LC!Reappears
        <4> QED
          BY <1>1, <4>4 DEF LcStep, LC!LcNext
      <3> QED
        BY <3>1, <3>3, <3>4
    <2>2. CASE th'[t].pc # "changeState"
      <3>1. th'[t].pc = Home(t) /\ lock' = "none" /\ s = th[t].tgt
        <4>1. th[t].tgt \in Epstate /\ s \in Epstate /\ th \in [Thread -> ThRec]
          BY <1>1 DEF TypeInv, TypeOK, ThRec, EpRec
        <4>2. Settle(t, th[t].tgt, s)
          BY <1>7 DEF AddEpTest, Cur
        <4>3. CASE CallChangeState(t, newState(th[t].tgt, s), "unlock")
          <5>1. newState(th[t].tgt, s) \in Epstate /\ "unlock" \in RetPC
            BY <4>1 DEF newState, Epstate, RetPC
          <5> QED
            BY <1>1, <2>2, <4>1, <4>3, <5>1, CallThread
        <4>4. CASE newState(th[t].tgt, s) = s /\ Release(t)
          BY <1>1, <4>1, <4>4, ReleaseThread DEF newState
        <4> QED
          BY <4>2, <4>3, <4>4 DEF Settle
      <3>2. th'[t].pc \notin GoalPC
        BY <3>1 DEF Home, GoalPC, ChangePC
      <3>3. \A f \in EP : /\ ep'[f].app = ep[f].app
                          /\ ep'[f].state = IF f = e THEN th[t].tgt
                                                      ELSE ep[f].state
        BY <1>5, <3>1
      <3> QED
        BY <1>1, <2>0, <3>1, <3>2, <3>3, FinishStep
    <2> QED
      BY <2>1, <2>2
  <1> QED
    BY <1>6, <1>7

(* AddEp finds a new endpoint.                                             *)
LEMMA RefinesAddEpNew ==
  ASSUME TypeInv, ControlInv, NEW t \in {"lsof", "inotify"}, AddEpNew(t)
  PROVE  LcStep
  <1> DEFINE e == th[t].ep
  <1>1. /\ t \in Thread /\ th \in [Thread -> ThRec] /\ ep \in [EP -> EpRec]
        /\ th[t].pc = "addEp" /\ e \in EP /\ lock = "none" /\ UNCHANGED lock
    BY DEF Thread, TypeInv, TypeOK, ThreadOK, LocalsOK, EpPC, AddEpNew, At
  <1>2. CASE UNCHANGED <<th, ep>>
    BY <1>1, <1>2, NothingMoves
  <1>3. CASE /\ ep' = [ep EXCEPT ![e] = [NewEp EXCEPT !.state = "init",
                            !.watched = TRUE, !.wid = InotifyAddWatch(e)]]
             /\ Done(t, Home(t))
    <2> DEFINE x == [NewEp EXCEPT !.state = "init", !.watched = TRUE,
                                  !.wid = InotifyAddWatch(e)]
    <2>1. /\ x.state = "init" /\ x.app = "unrecognized"
          /\ ep' = [ep EXCEPT ![e] = x]
      BY <1>3 DEF NewEp
    <2> HIDE DEF x
    <2>2. ep[e].state = "unknown" /\ ep[e].app = "unrecognized"
      BY <1>1 DEF AddEpNew, InMap, ControlInv, Known, Cur
    <2>3. lcState[e] = "unknown" /\ lcState' = [lcState EXCEPT ![e] = "init"]
      BY <1>1, <2>1, <2>2 DEF lcState
    <2>4. lcApp' = lcApp
      BY <1>1, <2>1, <2>2 DEF lcApp
    <2>5. Others(t) /\ GoalOf(t) = <<>> /\ GoalOf(t)' = <<>>
      <3>1. Home(t) \in PC /\ Home(t) \notin GoalPC
        BY DEF Home, PC, GoalPC, ChangePC
      <3>2. Others(t) /\ th'[t].pc = Home(t)
        BY <1>1, <1>3, <3>1, DoneThread
      <3> QED
        BY <1>1, <3>1, <3>2 DEF GoalOf, ChangesState, GoalPC, ChangePC
    <2>6. lcGoal' = lcGoal
      BY <1>1, <2>5, GoalKept DEF LockStep, TypeInv, TypeOK
    <2>7. lcGoal["container"] = <<>>
      BY <1>1 DEF lcGoal, ContainerGoal
    <2>8. LC!Found(e)
      BY <2>3, <2>4, <2>6, <2>7 DEF LC!Found, LC!Idle
    <2> QED
      BY <1>1, <2>8 DEF LcStep, LC!LcNext
  <1> QED
    BY <1>2, <1>3 DEF AddEpNew, Die, Cur

(* Complete: an answer aims at running or identified, or loses the App.    *)
LEMMA RefinesApply ==
  ASSUME TypeInv, ControlInv, Revive \/ Apply
  PROVE  LcStep
  <1> DEFINE t == "inotify"
             e == th[t].ep
             a == th[t].out
  <1>1. /\ t \in Thread /\ th \in [Thread -> ThRec] /\ Ctl(t, th[t], lock)
        /\ th[t].pc \in {"revive", "apply"} /\ UNCHANGED lock
        /\ ep \in [EP -> EpRec]
    BY DEF Thread, TypeInv, TypeOK, ControlInv, ThreadCtl, Revive, Apply, At
  <1>2. /\ e \in EP /\ ep[e].state # "unknown" /\ lock # t
        /\ ep[e] \in EpRec
    BY <1>1 DEF ControlInv, Known, EpPC, Ctl, InotifyCtl, InChange, GoalPC, ChangePC,
                InMap
  <1>3. th[t].pc \notin GoalPC /\ LockStep(t)
    BY <1>1 DEF GoalPC, ChangePC, LockStep
  <1>4. ASSUME NEW s \in Epstate, NEW r \in RetPC, CallChangeState(t, s, r)
        PROVE  LC!Aim("complete", e, s)
    <2>1. /\ Others(t) /\ th'[t].pc = "changeState" /\ th'[t].tgt = s
          /\ th'[t].ep = e
      BY <1>1, <1>4, CallThread
    <2>2. WriterOf(t)' = "complete"
      BY <1>1, <1>2 DEF WriterOf
    <2> QED
      BY <1>1, <1>2, <1>3, <2>1, <2>2, AimStep
  <1>5. lcState[e] # "unknown"
    BY <1>2 DEF lcState
  <1>6. /\ {"running", "identified"} \subseteq Epstate
        /\ {"apply", "read", "query"} \subseteq RetPC
    BY DEF Epstate, RetPC
  <1>7. CASE Revive
    <2>1. UNCHANGED ep
      BY <1>7 DEF Revive, epVars
    <2>2. CASE CallChangeState(t, "running", "apply")
      <3>1. LC!Aim("complete", e, "running")
        BY <1>4, <1>6, <2>2
      <3>2. LC!Answered(e)
        BY <1>5, <2>1, <3>1, SameStateApp DEF LC!Answered
      <3> QED
        BY <1>2, <3>2 DEF LcStep, LC!LcNext
    <2>3. CASE Goto(t, "apply")
      <3>1. Others(t) /\ th'[t].pc = "apply"
        BY <1>1, <2>3, GotoThread DEF PC
      <3> QED
        BY <1>1, <1>3, <2>1, <3>1, NoGoal DEF GoalPC, ChangePC
    <2> QED
      BY <1>7, <2>2, <2>3 DEF Revive, CallChangeState
  <1>8. CASE Apply
    <2>1. CASE ep' = [ep EXCEPT ![e].seen = 0] /\ CallChangeState(t, "running", "read")
      <3>1. LC!Aim("complete", e, "running")
        BY <1>4, <1>6, <2>1
      <3>2. UNCHANGED <<lcState, lcApp>>
        BY <1>1, <1>2, <2>1, StateAppKept, SameStateApp
      <3>3. LC!Answered(e)
        BY <1>5, <3>1, <3>2 DEF LC!Answered
      <3> QED
        BY <1>2, <3>3 DEF LcStep, LC!LcNext
    <2>2. CASE UNCHANGED ep /\ Done(t, "read")
      <3>1. Others(t) /\ th'[t].pc = "read"
        BY <1>1, <2>2, DoneThread DEF PC
      <3> QED
        BY <1>1, <1>3, <2>2, <3>1, NoGoal DEF GoalPC, ChangePC
    <2>3. CASE UNCHANGED <<ep, th>>
      BY <1>1, <2>3, NothingMoves
    <2>4. CASE /\ ep' = [ep EXCEPT ![e].app = DetermineApp(a, e)]
               /\ IF a = "good" THEN CallChangeState(t, "identified", "query")
                                ELSE Done(t, "read")
      <3> DEFINE x == [ep[e] EXCEPT !.app = DetermineApp(a, e)]
      <3>1. x.app = DetermineApp(a, e) /\ x.state = ep[e].state
        BY <1>2 DEF EpRec
      <3>2. ep' = [ep EXCEPT ![e] = x]
        BY <2>4
      <3> HIDE DEF x
      <3>3. lcState' = lcState
        BY <1>1, <1>2, <3>1, <3>2 DEF lcState
      <3>4. lcApp' = [lcApp EXCEPT ![e] = DetermineApp(a, e)]
        BY <1>1, <1>2, <3>1, <3>2 DEF lcApp
      <3>5. CASE a = "good" /\ CallChangeState(t, "identified", "query")
        <4>1. LC!Aim("complete", e, "identified")
          BY <1>4, <1>6, <3>5
        <4>2. LC!Identified(e)
          BY <1>5, <3>3, <3>4, <3>5, <4>1 DEF LC!Identified, DetermineApp
        <4> QED
          BY <1>2, <4>2 DEF LcStep, LC!LcNext
      <3>6. CASE a # "good" /\ Done(t, "read")
        <4>1. Others(t) /\ th'[t].pc = "read"
          BY <1>1, <3>6, DoneThread DEF PC
        <4>2. GoalOf(t) = <<>> /\ GoalOf(t)' = <<>>
          BY <1>3, <4>1 DEF GoalOf, ChangesState, GoalPC, ChangePC
        <4>3. lcGoal' = lcGoal
          BY <1>1, <1>3, <4>1, <4>2, GoalKept DEF TypeInv, TypeOK
        <4>4. lcGoal["complete"] = <<>>
          BY <1>2, <4>2 DEF lcGoal, CompleteGoal
        <4>5. LC!Misread(e)
          BY <1>5, <3>3, <3>4, <3>6, <4>3, <4>4
          DEF LC!Misread, LC!Idle, DetermineApp
        <4> QED
          BY <1>2, <4>5 DEF LcStep, LC!LcNext
      <3> QED
        BY <2>4, <3>5, <3>6
    <2> QED
      BY <1>8, <2>1, <2>2, <2>3, <2>4 DEF Apply, Die, Cur
  <1> QED
    BY <1>7, <1>8

-----------------------------------------------------------------------------
(* The steps that decide on nothing.                                       *)

(* The loops of the monitor and the lsof goroutine, and what takes and     *)
(* releases epc.mutex.                                                     *)
LEMMA RefinesLoops ==
  ASSUME TypeInv, ControlInv,
         \/ Start \/ CleanEPs \/ CleanNext \/ CleanDone
         \/ PollEPs \/ PollDone
         \/ \E u \in {"lsof", "inotify"} : Unlock(u)
         \/ LookoutLsof \/ ScanNext \/ ScanMiss
  PROVE  LcStep
  <1>1. th \in [Thread -> ThRec] /\ {"monitor", "lsof", "inotify"} \subseteq Thread
    BY DEF Thread, TypeInv, TypeOK
  <1>2. \A f \in EP : ep'[f].state = ep[f].state /\ ep'[f].app = ep[f].app
    <2>1. CASE LookoutLsof
      BY <2>1, StateAppAges
    <2>2. CASE ~LookoutLsof
      BY <2>2 DEF Start, CleanEPs, CleanNext, CleanDone, PollEPs, PollDone,
                  Unlock, ScanNext, ScanMiss, epVars
    <2> QED
      BY <2>1, <2>2
  <1>3. CASE Start
    <2>1. /\ Others("monitor") /\ th'["monitor"].pc = "sleep"
          /\ th["monitor"].pc = "boot" /\ UNCHANGED lock
      BY <1>1, <1>3, GotoThread DEF Start, At, PC
    <2> QED
      BY <1>1, <1>2, <2>1, NoGoal DEF GoalPC, ChangePC, LockStep
  <1>4. CASE CleanEPs \/ PollEPs
    <2>1. PICK p \in {"cleanNext", "pollNext"} :
             th' = [th EXCEPT !["monitor"].pc = p, !["monitor"].todo = InMap]
      BY <1>4 DEF CleanEPs, PollEPs
    <2>2. Others("monitor") /\ th'["monitor"].pc = p
      BY <1>1, <2>1 DEF Others, ThRec
    <2>3. LockStep("monitor") /\ th["monitor"].pc \in {"sleep", "pollLock"}
      BY <1>4 DEF CleanEPs, PollEPs, Acquire, LockStep, At
    <2> QED
      BY <1>1, <1>2, <2>2, <2>3, NoGoal DEF GoalPC, ChangePC
  <1>5. CASE CleanNext
    <2>1. PICK e \in th["monitor"].todo :
             th' = [th EXCEPT !["monitor"].pc = "decide", !["monitor"].ep = e,
                              !["monitor"].todo = @ \ {e}]
      BY <1>5 DEF CleanNext
    <2>2. Others("monitor") /\ th'["monitor"].pc = "decide"
      BY <1>1, <2>1 DEF Others, ThRec
    <2>3. UNCHANGED lock /\ th["monitor"].pc = "cleanNext"
      BY <1>5 DEF CleanNext, At
    <2> QED
      BY <1>1, <1>2, <2>2, <2>3, NoGoal DEF GoalPC, ChangePC, LockStep
  <1>6. CASE CleanDone \/ PollDone \/ \E u \in {"lsof", "inotify"} : Unlock(u)
    <2>1. PICK t \in Thread, p \in {"pollLock", "sleep", "read"} :
             /\ Done(t, p) /\ lock' = "none"
             /\ \/ t = "monitor" /\ th[t].pc \in {"cleanNext", "pollNext"}
                \/ t # "monitor" /\ th[t].pc = "unlock"
      BY <1>1, <1>6 DEF CleanDone, PollDone, Unlock, Release, Home, At
    <2>2. Ctl(t, th[t], lock)
      BY DEF ControlInv, ThreadCtl
    <2>3. lock = t
      BY <1>1, <2>1, <2>2
      DEF Ctl, MonitorCtl, MonitorHolds, LsofCtl, LsofHolds, InotifyCtl, Thread
    <2>4. Others(t) /\ th'[t].pc = p
      BY <1>1, <2>1, DoneThread DEF PC
    <2> QED
      BY <1>2, <2>1, <2>3, <2>4, NoGoal DEF GoalPC, ChangePC, LockStep
  <1>7. CASE LookoutLsof
    <2>1. Others("lsof") /\ th'["lsof"].pc = "sleep"
      BY <1>1, <1>7 DEF LookoutLsof, Others, ThRec
    <2>2. th["lsof"].pc \in {"boot", "sleep"} /\ UNCHANGED lock
      BY <1>7 DEF LookoutLsof
    <2> QED
      BY <1>1, <1>2, <2>1, <2>2, NoGoal DEF GoalPC, ChangePC, LockStep
  <1>8. CASE ScanMiss
    <2>1. Others("lsof") /\ th'["lsof"].pc = th["lsof"].pc
      BY <1>1, <1>8 DEF ScanMiss, Others, ThRec
    <2>2. th["lsof"].pc = "sleep" /\ UNCHANGED lock
      BY <1>8 DEF ScanMiss, At
    <2> QED
      BY <1>1, <1>2, <2>1, <2>2, NoGoal DEF GoalPC, ChangePC, LockStep
  <1>9. CASE ScanNext
    <2>1. PICK e \in th["lsof"].todo :
            th' = [th EXCEPT !["lsof"].pc = "addEp", !["lsof"].ep = e,
                             !["lsof"].todo = @ \ {e}]
      BY <1>9 DEF ScanNext
    <2>2. Others("lsof") /\ th'["lsof"].pc = "addEp"
      BY <1>1, <2>1 DEF Others, ThRec
    <2>3. th["lsof"].pc = "sleep" /\ UNCHANGED lock
      BY <1>9 DEF ScanNext, At
    <2> QED
      BY <1>1, <1>2, <2>2, <2>3, NoGoal DEF GoalPC, ChangePC, LockStep
  <1> QED
    BY <1>3, <1>4, <1>5, <1>6, <1>7, <1>8, <1>9

(* Polling and submitting commands, and picking up answers.                *)
LEMMA RefinesCommands ==
  ASSUME TypeInv, ControlInv,
         \/ PollNext \/ QueryApp \/ \E u \in Thread : Submit(u) \/ Retry(u)
         \/ ProcessEvent \/ Complete
  PROVE  LcStep
  <1>1. /\ th \in [Thread -> ThRec] /\ {"monitor", "inotify"} \subseteq Thread
        /\ ep \in [EP -> EpRec]
    BY DEF Thread, TypeInv, TypeOK
  <1>2. /\ \A f \in EP : ep'[f].state = ep[f].state /\ ep'[f].app = ep[f].app
        /\ UNCHANGED lock
    BY DEF PollNext, QueryApp, Submit, Retry, ProcessEvent, Complete, epVars
  <1>3. ASSUME NEW t \in Thread, Others(t), th[t].pc \notin GoalPC,
               th'[t].pc \notin GoalPC
        PROVE  LcStep
    BY <1>2, <1>3, NoGoal DEF LockStep
  <1>4. ASSUME NEW t \in Thread, NEW e \in EP, NEW o \in EPcmdType \cup {"none"},
               NEW r \in {"pollNext", "pollAge", "read"}, MayQueue(t, e, o, r),
               th[t].pc \notin GoalPC
        PROVE  LcStep
    <2>1. Others(t) /\ (th'[t].pc = "addCmd" \/ th'[t].pc = r)
      BY <1>1, <1>4, MayQueueThread
    <2> QED
      BY <1>3, <1>4, <2>1 DEF GoalPC, ChangePC
  <1>5. CASE PollNext
    <2>1. PICK e \in th["monitor"].todo :
             \/ MayQueue("monitor", e, PollOp(ep[e]), AfterPoll(ep[e]))
             \/ th' = [th EXCEPT !["monitor"].todo = @ \ {e}]
      BY <1>5 DEF PollNext
    <2>2. e \in EP /\ ep[e].app \in App /\ th["monitor"].pc = "pollNext"
      BY <1>1, <1>5 DEF ThRec, EpRec, PollNext, At
    <2>3. PollOp(ep[e]) \in EPcmdType \cup {"none"}
      <3>1. GetAppDetectInfo(ep[e].app, FALSE) \in EPcmdType
        BY <2>2, DetectInfoType
      <3> QED
        BY <3>1 DEF PollOp, EPcmdType
    <2>4. AfterPoll(ep[e]) \in {"pollNext", "pollAge", "read"}
      BY DEF AfterPoll
    <2>5. CASE MayQueue("monitor", e, PollOp(ep[e]), AfterPoll(ep[e]))
      BY <1>1, <1>4, <2>2, <2>3, <2>4, <2>5 DEF GoalPC, ChangePC
    <2>6. CASE th' = [th EXCEPT !["monitor"].todo = @ \ {e}]
      <3>1. Others("monitor") /\ th'["monitor"].pc = th["monitor"].pc
        BY <1>1, <2>6 DEF Others, ThRec
      <3> QED
        BY <1>1, <1>3, <2>2, <3>1 DEF GoalPC, ChangePC
    <2> QED
      BY <2>1, <2>5, <2>6
  <1>6. CASE QueryApp \/ \E u \in Thread : Retry(u)
    <2>1. PICK t, o, r :
             /\ t \in Thread
             /\ MayQueue(t, Cur(t), o, r) /\ th[t].pc \in {"query", "retry"}
             /\ \/ t = "inotify" /\ r = "read"
                   /\ o = GetAppDetectInfo(ep[Cur(t)].app, FALSE)
                \/ th[t].pc = "retry" /\ r = th[t].ret /\ o = th[t].op
      BY <1>1, <1>6 DEF QueryApp, Retry, At
    <2>2. Cur(t) \in EP
      BY <2>1 DEF Cur, TypeInv, ThreadOK, LocalsOK, EpPC
    <2>3. o \in EPcmdType \cup {"none"} /\ r \in {"pollNext", "pollAge", "read"}
      <3>1. GetAppDetectInfo(ep[Cur(t)].app, FALSE) \in EPcmdType
        BY <1>1, <2>2, DetectInfoType DEF EpRec
      <3>2. th[t].op \in EPcmdType \cup {"none"}
        BY <1>1, <2>1 DEF ThRec
      <3>3. th[t].pc = "retry" => th[t].ret \in {"pollNext", "pollAge", "read"}
        BY <2>1 DEF TypeInv, ThreadOK, LocalsOK
      <3> QED
        BY <2>1, <3>1, <3>2, <3>3
    <2> QED
      BY <1>4, <2>1, <2>2, <2>3 DEF GoalPC, ChangePC
  <1>7. CASE \E u \in Thread : Submit(u)
    <2>1. PICK t \in Thread : Submit(t)
      BY <1>7
    <2>2. /\ th[t].pc = "addCmd"
          /\ th[t].ret \in {"pollNext", "pollAge", "read"}
      BY <2>1 DEF Submit, At, TypeInv, ThreadOK, LocalsOK
    <2>3. CASE Return(t)
      <3>1. Others(t) /\ th'[t].pc = th[t].ret
        BY <1>1, <2>3, ReturnThread
      <3> QED
        BY <1>3, <2>2, <3>1 DEF GoalPC, ChangePC
    <2>4. CASE th' = [th EXCEPT ![t].pc = "retry",
                                ![t].op = GetAppDetectInfo(ep[Cur(t)].app, TRUE)]
      <3>1. Others(t) /\ th'[t].pc = "retry"
        BY <1>1, <2>4 DEF Others, ThRec
      <3> QED
        BY <1>3, <2>2, <3>1 DEF GoalPC, ChangePC
    <2> QED
      BY <2>1, <2>3, <2>4 DEF Submit
  <1>8. CASE ProcessEvent \/ Complete
    <2>1. th["inotify"].pc \in {"read", "complete"}
      BY <1>8 DEF ProcessEvent, Complete, At
    <2>2. Others("inotify")
      BY <1>1, <1>8 DEF ProcessEvent, Complete, Done, Others
    <2>3. th'["inotify"].pc \in {"read", "addEp", "complete", "revive"}
      <3>1. CASE ProcessEvent
        BY <1>1, <2>1, <3>1 DEF ProcessEvent, At, ThRec
      <3>2. CASE Complete
        <4>1. CASE Done("inotify", "read")
          BY <1>1, <4>1, DoneThread DEF PC
        <4>2. CASE ~Done("inotify", "read")
          BY <1>1, <3>2, <4>2 DEF Complete, ThRec
        <4> QED
          BY <4>1, <4>2
      <3> QED
        BY <1>8, <3>1, <3>2
    <2> QED
      BY <1>1, <1>3, <2>1, <2>2, <2>3 DEF GoalPC, ChangePC
  <1> QED
    BY <1>5, <1>6, <1>7, <1>8

-----------------------------------------------------------------------------
(* Every step of the monitoring core is a step of Lifecycle or a stutter.  *)
LEMMA NextRefines ==
  TypeInv /\ ControlInv /\ [Next]_vars => [LC!LcNext]_(LC!lcVars)
  <1> SUFFICES ASSUME TypeInv, ControlInv, [Next]_vars PROVE LcStep
    BY DEF LcStep
  <1>0. {"monitor", "lsof", "inotify"} \subseteq Thread
    BY DEF Thread
  <1>1. CASE Monitor
    BY <1>0, <1>1, RefinesChangeState, RefinesWatch, RefinesDecide,
       RefinesLoops, RefinesCommands
    DEF Monitor, SubmitStep
  <1>2. CASE Lsof
    BY <1>0, <1>2, RefinesChangeState, RefinesWatch, RefinesLoops,
       RefinesAddEpKnown, RefinesAddEpNew DEF Lsof, AddEp
  <1>3. CASE Inotify
    BY <1>0, <1>3, RefinesChangeState, RefinesWatch, RefinesLoops,
       RefinesCommands, RefinesApply, RefinesAddEpKnown, RefinesAddEpNew
    DEF Inotify, AddEp, SubmitStep
  <1>4. CASE ConcurrentMapWrite \/ UNCHANGED vars
    BY <1>4, NothingMoves DEF ConcurrentMapWrite, Die, epVars, vars
  <1>5. CASE Environment
    <2>1. UNCHANGED <<th, lock>>
      BY <1>5 DEF Environment, Tick, AppAnswer, AppAnswersAgain, ProcStart,
                  ProcStop, MakeRoot, MakeOutput, Touch, RemoveDir
    <2>2. CASE Tick
      BY <2>1, <2>2, StateAppAges, NothingMoves
    <2>3. CASE ~Tick
      <3>1. UNCHANGED ep
        BY <1>5, <2>3
        DEF Environment, AppAnswer, AppAnswersAgain, ProcStart, ProcStop,
            MakeRoot, MakeOutput, Touch, RemoveDir, epVars
      <3> QED
        BY <2>1, <3>1, NothingMoves
    <2> QED
      BY <2>2, <2>3
  <1> QED
    BY <1>1, <1>2, <1>3, <1>4, <1>5 DEF Next, Halted

(* At the start no endpoint is known and no change under way.              *)
LEMMA InitRefines == Init => LC!LcInit
  <1> SUFFICES ASSUME Init PROVE LC!LcInit
    OBVIOUS
  <1>1. \A t \in Thread : GoalOf(t) = <<>>
    BY DEF Init, GoalOf, ChangesState, Idle, Thread
  <1>2. ContainerGoal = <<>> /\ CompleteGoal = <<>>
    BY <1>1 DEF ContainerGoal, CompleteGoal, Init, Thread
  <1>3. lcGoal = [w \in LC!Writer |-> <<>>]
    BY <1>2 DEF lcGoal, LC!Writer
  <1>4. /\ lcState = [e \in EP |-> "unknown"]
        /\ lcApp = [e \in EP |-> "unrecognized"]
    BY DEF Init, lcState, lcApp, NewEp
  <1> QED
    BY <1>3, <1>4 DEF LC!LcInit

(* The monitoring core implements the lifecycle that its readers rely on,  *)
(* for any number of endpoints and commands and whatever the environment   *)
(* does, and however often the build loads State in AddEp: only the holder *)
(* of epc.mutex decides on init, down or removing, one change at a time,   *)
(* only an answer makes an endpoint anew identified or running, and AddEp  *)
(* puts back at most what it has read under the same hold of the mutex.    *)
THEOREM LifecycleImplemented == Spec => ImplementsLifecycle
  <1> QED
    BY InitRefines, NextRefines, TypeInvariant, ControlInvariant, PTL
    DEF Spec, ImplementsLifecycle, LC!LcSpec
=============================================================================
