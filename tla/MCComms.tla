------------------------------ MODULE MCComms -------------------------------
(***************************************************************************)
(* Instances of Comms for TLC: the applications behind the endpoints, and  *)
(* the bounds of the histograms that are reported.                         *)
(***************************************************************************)
EXTENDS Comms

CONSTANTS e1, e2

OneNisd == e1 :> "NISD"

PmdbAndNisd == e1 :> "PMDB" @@ e2 :> "NISD"

FourBounds == {1, 2, 4, 8}
=============================================================================
