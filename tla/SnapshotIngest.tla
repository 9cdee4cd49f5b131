---------------------------- MODULE SnapshotIngest ----------------------------
(***************************************************************************)
(* What the preparation of a snapshot promises its readers, with no        *)
(* process, download or file: sources are committed one by one, each with  *)
(* the rows of one published version and for good; the generation is       *)
(* sealed once every source is committed; only a sealed one is selected.   *)
(***************************************************************************)
EXTENDS Integers

CONSTANTS NumSources, NumVersions

Sources == 1..NumSources

VARIABLES
    content,  \* version of each source that the generation holds, 0 for none
    sealed,   \* the generation is receipted
    selected  \* compute reads it

Init == content = [s \in Sources |-> 0] /\ sealed = FALSE /\ selected = FALSE

Commit(s) ==
    /\ ~sealed
    /\ content[s] = 0
    /\ \E v \in 1..NumVersions : content' = [content EXCEPT ![s] = v]
    /\ UNCHANGED <<sealed, selected>>

Seal ==
    /\ \A s \in Sources : content[s] # 0
    /\ sealed' = TRUE
    /\ UNCHANGED <<content, selected>>

Select ==
    /\ sealed
    /\ selected' = TRUE
    /\ UNCHANGED <<content, sealed>>

Next == Seal \/ Select \/ \E s \in Sources : Commit(s)

Spec == Init /\ [][Next]_<<content, sealed, selected>>
=============================================================================
