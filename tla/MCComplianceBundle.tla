------------------------- MODULE MCComplianceBundle -------------------------
(***************************************************************************)
(* An instance of ComplianceBundle for TLC: two operators, one list of     *)
(* hits and one policy dict that the office uses again and again.          *)
(***************************************************************************)
EXTENDS ComplianceBundle, TLC

CONSTANTS k1, k2, list

AllDids == [tier : {"operator"}, key : {k1, k2}] \cup [tier : {"agent"}, key : {k1}]

Whole(sha, rest) == [hashes |-> [h \in HashNames |-> sha], rest |-> rest]

AllPolicyValues ==
    {Whole("sha", "text keys"), Whole("sha", "number keys"), Whole("sha", "not JSON"),
     [hashes |-> [[h \in HashNames |-> "sha"] EXCEPT !["binarySha256"] = "not a sha"],
      rest |-> "text keys"],
     [hashes |-> [h \in HashNames \ {"binarySha256"} |-> "sha"], rest |-> "text keys"]}

Event(i, d) == [id |-> i, decision |-> d, hits |-> list, wellFormed |-> TRUE]

AllDrafts ==
    {<<>>,
     <<Event("e1", "block")>>,
     <<Event("e1", "block"), Event("e2", "allow"), Event("e3", "block")>>,
     <<Event("e1", "block"), Event("e2", "warn"), Event("e1", "warn")>>,
     <<Event("e1", "block"), Event("e2", "warn"), Event("e3", "warn"), Event("e4", "warn")>>,
     <<Event("e1", "other")>>,
     <<[Event("e1", "warn") EXCEPT !.wellFormed = FALSE]>>}

AllWindows == {<<0, 1>>, <<1, 1>>}
=============================================================================
