---------------------------- MODULE PublishedSite ----------------------------
(***************************************************************************)
(* What readers of the site are promised, without transactions, journals   *)
(* or crashes: candidates are offered, and now and then the site moves, in *)
(* one step for all wikis, to offered candidates that are no older than    *)
(* the ones it showed.                                                     *)
(***************************************************************************)
EXTENDS Naturals

CONSTANTS Wikis, Cands

VARIABLES
    offered,   \* the candidates of each wiki that have been ready
    served     \* the candidate of each wiki the site shows

Init ==
    /\ served \in [Wikis -> Cands]
    /\ offered = [w \in Wikis |-> {served[w]}]

Offer ==
    /\ \E w \in Wikis, S \in SUBSET Cands :
          offered' = [offered EXCEPT ![w] = @ \cup S]
    /\ UNCHANGED served

Publish ==
    /\ served' \in [Wikis -> Cands]
    /\ \A w \in Wikis : served'[w] \in offered[w] /\ served'[w] >= served[w]
    /\ UNCHANGED offered

Next == Offer \/ Publish

Spec == Init /\ [][Next]_<<offered, served>>

=============================================================================
