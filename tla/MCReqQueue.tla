----------------------------- MODULE MCReqQueue -----------------------------
(* A small instance of ReqQueue for TLC.                                   *)
EXTENDS ReqQueue

(* A response with room left, and one whose burst rule is used up.         *)
Room  == {[hits |-> 2, period |-> 1, stateHits |-> 1]}
Burst == {[hits |-> 2, period |-> 1, stateHits |-> 2], [hits |-> 9, period |-> 2, stateHits |-> 2]}

MCRuleSet == {Room, Burst}

(* h1's endpoint has a policy of its own; h2's shares one with requests    *)
(* that carry no hint.                                                     *)
MCPolicyOf == [h \in Hint \cup {NoHint} |-> IF h = "h1" THEN {"p1"} ELSE {"p2"}]
=============================================================================
