-------------------------- MODULE LookoutLifecycle --------------------------
(***************************************************************************)
(* The refinement mapping from Lookout to Lifecycle.  A goroutine has      *)
(* decided on a change from the call of ChangeState, or AddEp's first look *)
(* at State, until State is written or found as it should be; the one that *)
(* holds epc.mutex is the abstract "container".                            *)
(***************************************************************************)
EXTENDS Lookout

ChangesState(t) ==
  th[t].pc \in {"found", "changeState", "watchAdd", "watchRemove", "setWatched",
                "setState"}

GoalOf(t) == IF ChangesState(t) THEN <<th[t].ep, th[t].tgt>> ELSE <<>>

ContainerGoal == IF lock = "none" THEN <<>> ELSE GoalOf(lock)

CompleteGoal == IF lock = "inotify" THEN <<>> ELSE GoalOf("inotify")

lcState == [e \in EP |-> ep[e].state]

lcApp == [e \in EP |-> ep[e].app]

lcGoal == [w \in {"container", "complete"} |->
             IF w = "container" THEN ContainerGoal ELSE CompleteGoal]

LC == INSTANCE Lifecycle WITH state <- lcState, app <- lcApp, goal <- lcGoal

(* The monitoring core implements the lifecycle its readers rely on,       *)
(* whatever its three goroutines do to one endpoint at the same time: only *)
(* the holder of epc.mutex starts a change to init, down or removing, and  *)
(* only one; it takes an endpoint down only when it finds it running and   *)
(* removes it only when it does not, or else puts back, as AddEp may, the  *)
(* State it has read under that same hold of the mutex; only an answer     *)
(* makes an endpoint anew identified or running.                           *)
ImplementsLifecycle == LC!LcSpec
=============================================================================
