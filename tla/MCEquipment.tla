---------------------------- MODULE MCEquipment ----------------------------
(* Equipment with two workers: n1 and n2 are new models that two files     *)
(* mention in opposite orders, a1 is another spelling of n1, n3 is in the  *)
(* registry and n4 is no ZWO camera.                                       *)
EXTENDS Equipment

CONSTANTS n1, a1, n2, n3, n4

MCNames == {n1, a1, n2, n3, n4}
MCModels == {n1, n2, n3}
MCModelOf == [n \in MCNames |-> CASE n = a1 -> n1 [] n = n4 -> NoModel [] OTHER -> n]
MCKnown == {n3}
MCFiles == {<<n1, n2>>, <<n2, a1>>, <<n3, n1>>, <<n4, n2>>, <<n1, a1>>}
MCPairs == {<<n1, n2>>, <<n2, n1>>}
=============================================================================
