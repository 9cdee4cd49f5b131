---------------------------- MODULE MCPatrolMonths ----------------------------
(* A user, two revisions, three months of which the first ends a year. *)
EXTENDS PatrolMonths, TLC

Grant(t, g) == <<[user |-> "u", at |-> t, old |-> {}, new |-> {g}]>>
Revoke(t) == <<[user |-> "u", at |-> t, old |-> {"g"}, new |-> {}]>>
MCRightsLogs == {<<>>, Grant(1, "g"), Revoke(3)}
MCMonthOf == "r1" :> 1 @@ "r2" :> 3
MCTimeOf == [r \in {"r1", "r2"} |-> 2]
MCAuthor == [r \in {"r1", "r2"} |-> "u"]
MCLogEdits == {{<<2, "r1">>}, {<<3, "r1">>}, {<<2, "r1">>, <<3, "r2">>}}
MCPartOf == <<1, 1, 2>>
MCWorlds ==
    {[revs |-> [r \in {"r1", "r2"} |-> "a"],
      log |-> <<{}, {}, {"r1", "r2"}>>,
      rights |-> <<Grant(1, "g"), Revoke(3), <<>>>>,
      groups |-> {"g"}]}
=============================================================================
