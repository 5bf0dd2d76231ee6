--------------------------- MODULE MCExternalTopup ---------------------------
(* A small instance of ExternalTopup: repeated, conflicting and mismatched    *)
(* notifications next to movements of other handlers.                         *)
EXTENDS ExternalTopup

Order(id, n) == [id |-> id, amount |-> n]
Paid(id, o, n) == [id |-> id, order |-> o, amount |-> n]

MCOrders == {Order("r1", 1), Order("r2", 2), Order("r3", 1)}

\* p1 is notified with two contents and p4 paid another amount than its order.
MCApproved == {Paid("p1", "r1", 1), Paid("p1", "r2", 2), Paid("p2", "r2", 2),
               Paid("p3", "r3", 1), Paid("p4", "r3", 2)}

MCMovements == {[id |-> "topup", cents |-> 1], [id |-> "payment", cents |-> -2],
                [id |-> "another", cents |-> -2]}
=============================================================================
