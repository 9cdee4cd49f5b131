--------------------------- MODULE MCCandidateStore ---------------------------
(***************************************************************************)
(* An instance of CandidateStore for TLC. The last of the events is a kill *)
(* in what the others began, or a retirement that is taken up again.       *)
(***************************************************************************)
EXTENDS CandidateStore

EarlyLimit == [kind \in Events |-> IF kind \in {"crash", "resume"} THEN 3 ELSE 2]
=============================================================================
