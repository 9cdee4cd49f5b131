---------------------------- MODULE MCPublication ----------------------------
(* Instances of Publication for TLC.                                       *)
EXTENDS Publication

\* Candidate 3 is a rebuild of the snapshot of candidate 2.
MCRebuild == <<1, 2, 2>>

\* Every candidate has a snapshot of its own.
MCMonthly == <<1, 2, 3>>

MCTwo == <<1, 2>>
=============================================================================
