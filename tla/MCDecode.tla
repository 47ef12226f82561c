------------------------------- MODULE MCDecode -------------------------------
(* Image decodes of several sizes that share a budget of three units.      *)
EXTENDS DecodeBudget

CONSTANTS u1, u2, u3, u4

MCUsers == {u1, u2, u3, u4}
MCNeed == [u \in MCUsers |-> CASE u = u3 -> 2 [] u = u4 -> 3 [] OTHER -> 1]
====
