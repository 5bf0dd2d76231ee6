--------------------------- MODULE MCNfcExchange ---------------------------
(* Three scenes of two workers.  They carry an operation each to one phone,    *)
(* where their fragments mix; or one operation to one phone; or one operation  *)
(* to two phones, of which another issuer authorizes the second.  A receipt    *)
(* has one fragment, the other messages two, and no more can be read.          *)
EXTENDS NfcExchange, TLC

CONSTANTS op1, op2, p1, p2, w1, w2

MCOps == {op1, op2}
MCPhones == {p1, p2}
MCTrusted == {p1}
MCWorkers == {w1, w2}
MCStamps == {1}
MCSize == [kind \in Kinds |-> IF kind = "receipt" THEN 1 ELSE 2]
MCScenes == {{<<w1, op1, p1>>, <<w2, op2, p1>>},
             {<<w1, op1, p1>>, <<w2, op1, p1>>},
             {<<w1, op1, p1>>, <<w2, op1, p2>>}}
=============================================================================
