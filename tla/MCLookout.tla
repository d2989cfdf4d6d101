----------------------------- MODULE MCLookout ------------------------------
(***************************************************************************)
(* Instances of Lookout for TLC.  The applications behind the endpoints,   *)
(* and the symmetry of the command uuids (used for safety only).           *)
(***************************************************************************)
EXTENDS LookoutLifecycle, TLC

NisdKind == [e \in EP |-> "NISD"]

PmdbKind == [e \in EP |-> "PMDB"]

(* Only the behaviours in which at most one goroutine is in the middle of  *)
(* something: what they violate, the specification violates.               *)
Resting(t) == th[t].pc \in {"boot", "sleep", "cleanNext", "pollLock",
                            "pollNext", "read"}

OneAtATime == Cardinality({t \in Thread : ~Resting(t)}) <= 1

CmdSymmetry == Permutations(Cmd)
=============================================================================
