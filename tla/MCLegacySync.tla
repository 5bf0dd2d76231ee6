---------------------------- MODULE MCLegacySync ----------------------------
(* A small instance of LegacySync: two receipts of one operation, two         *)
(* operations with one nonce, a budget that lacks cents for a second payment  *)
(* and one that lacks payments.                                               *)
EXTENDS LegacySync, TLC

CONSTANTS w1, m, a1, a2, o1, o2, o3, n1, n2

MCReceipts ==
    {[op |-> o1, auth |-> a1, amount |-> 2, nonce |-> n1],
     [op |-> o1, auth |-> a2, amount |-> 1, nonce |-> n1],
     [op |-> o2, auth |-> a2, amount |-> 1, nonce |-> n2],
     [op |-> o3, auth |-> a1, amount |-> 1, nonce |-> n2]}

MCWallets == {w1}
MCAuths == {a1, a2}
MCOps == {o1, o2, o3}
MCNonces == {n1, n2}
MCHolder == [a \in MCAuths |-> w1]
MCOpeningBudget == (a1 :> 2) @@ (a2 :> 2)
MCOpeningCount == (a1 :> 2) @@ (a2 :> 1)
MCOpeningBalance == (w1 :> 4) @@ (m :> 0)
MCAcks == [r \in MCReceipts |-> {"ack"}]
MCTwoThreads == {1, 2}
=============================================================================
