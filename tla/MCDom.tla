------------------------------- MODULE MCDom -------------------------------
(* Dom with an observer of its target's children, with calls that pass two  *)
(* nodes, and with texts that can be exchanged.                             *)
EXTENDS Dom, TLC

MCOptions == {[childList |-> TRUE, subtree |-> FALSE, attributes |-> FALSE]}

CONSTANT e2
MCLists == {<<e2, t>> : t \in Texts}

Exchange == Permutations(Texts)
=============================================================================
