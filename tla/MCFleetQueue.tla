---------------------------- MODULE MCFleetQueue ----------------------------
(***************************************************************************)
(* Instances of FleetQueue for TLC.                                        *)
(***************************************************************************)
EXTENDS FleetQueue, TLC

CONSTANTS w1, k1, k2, c1, o1

OneClass == [p \in Workers |-> "small"]

\* The workers of one class are interchangeable.
WorkerSymmetry == Permutations(Workers)
=============================================================================
