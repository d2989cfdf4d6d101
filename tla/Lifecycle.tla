----------------------------- MODULE Lifecycle ------------------------------
(***************************************************************************)
(* What the monitoring core promises its readers (the HTTP handlers and    *)
(* the gossip goroutines) about an endpoint's State and App: which side    *)
(* may decide on which change, from which state, and that the container's  *)
(* side, serialised by epc.mutex, has at most one change under way while   *)
(* Complete, which does not take that mutex, may have another.  A change   *)
(* is decided in one step and written in a later one, so what is written   *)
(* may no longer fit the state it meets.  Lookout implements this.         *)
(***************************************************************************)
EXTENDS Endpoint

VARIABLES state,   \* state[e]: State of e's NcsiEP; "unknown": not in epMap
          app,     \* app[e]: the kind of e's App
          goal     \* goal[w]: the change writer w has decided on, or <<>>

lcVars == <<state, app, goal>>

(* CleanEPs, PollEPs and AddEp, under epc.mutex; Complete, without it.     *)
Writer == {"container", "complete"}

Idle(w) == goal[w] = <<>>

Aim(w, e, s) == Idle(w) /\ goal' = [goal EXCEPT ![w] = <<e, s>>]

-----------------------------------------------------------------------------
(* AddEp finds a new uuid; it is in epMap, in init, when the mutex is      *)
(* released.                                                               *)
Found(e) ==
  /\ state[e] = "unknown" /\ Idle("container")
  /\ state' = [state EXCEPT ![e] = "init"]
  /\ UNCHANGED <<app, goal>>

(* AddEp finds an endpoint again and reads its state.  It means to leave   *)
(* that as it is, but does so by what it has read: when Complete writes in *)
(* between, AddEp may put the old state back.                              *)
Looks(e) ==
  /\ state[e] # "unknown" /\ Aim("container", e, state[e])
  /\ UNCHANGED <<state, app>>

(* AddEp finds an endpoint again that was being removed, and still is when *)
(* it looks once more.                                                     *)
Reappears(e) ==
  /\ state[e] = "removing"
  /\ Idle("container") \/ goal["container"] = <<e, "removing">>
  /\ goal' = [goal EXCEPT !["container"] = <<e, "init">>]
  /\ UNCHANGED <<state, app>>

(* CleanEPs or Poll: LastSeen of a running endpoint is stale.              *)
LosesTouch(e) ==
  /\ state[e] = "running" /\ Aim("container", e, "down")
  /\ UNCHANGED <<state, app>>

(* CleanEPs: lsof no longer sees an endpoint that is not running.          *)
Vanishes(e) ==
  /\ state[e] \notin {"unknown", "running"}
  /\ Aim("container", e, "removing")
  /\ UNCHANGED <<state, app>>

(* Complete, on the answer to an identify command: a known application,    *)
(* or none.                                                                *)
Identified(e) ==
  /\ state[e] # "unknown" /\ Aim("complete", e, "identified")
  /\ app' = [app EXCEPT ![e] = Kind[e]]
  /\ UNCHANGED state

Misread(e) ==
  /\ state[e] # "unknown" /\ Idle("complete")
  /\ app' = [app EXCEPT ![e] = "unrecognized"]
  /\ UNCHANGED <<state, goal>>

(* Complete, on any readable answer to a down endpoint, and on the answer  *)
(* to an info command.                                                     *)
Answered(e) ==
  /\ state[e] # "unknown" /\ Aim("complete", e, "running")
  /\ UNCHANGED <<state, app>>

(* ChangeState writes State, or finds it written already.                  *)
Finish(w) ==
  /\ ~Idle(w)
  /\ state' = [state EXCEPT ![goal[w][1]] = goal[w][2]]
  /\ goal' = [goal EXCEPT ![w] = <<>>]
  /\ UNCHANGED app

-----------------------------------------------------------------------------
LcInit ==
  /\ state = [e \in EP |-> "unknown"]
  /\ app = [e \in EP |-> "unrecognized"]
  /\ goal = [w \in Writer |-> <<>>]

LcNext ==
  \/ \E e \in EP : \/ Found(e) \/ Looks(e) \/ Reappears(e)
                   \/ LosesTouch(e) \/ Vanishes(e) \/ Identified(e)
                   \/ Misread(e) \/ Answered(e)
  \/ \E w \in Writer : Finish(w)

LcSpec == LcInit /\ [][LcNext]_lcVars
=============================================================================
