------------------------- MODULE MCCommitmentLedger -------------------------
(* A small instance of CommitmentLedger.                                     *)
EXTENDS CommitmentLedger, TLC

CONSTANTS w1, m, a1, a2, o1, o2, o3, kw, kp

MCWallets == {w1}
MCAuths == {a1, a2}
MCOps == {o1, o2, o3}
MCKeys == {kw, kp}
MCThreads == {1, 2}
MCRevocationTimes == {3}
MCOpeningBalance == (w1 :> 4) @@ (m :> 0)
MCOpeningLegacy == (w1 :> 1)

Receipt(op, a, index, amount, time) ==
    [op |-> op, auth |-> a, index |-> index, amount |-> amount, pos |-> kp,
     issued |-> time, confirmed |-> time]

\* The wallet signed o2 twice: one receipt repeats the first index of a1, which
\* o1 has, and the other exceeds the reserve of a1 when that is only 2.
Copied == Receipt(o2, a1, 1, 1, 2)

MCEvidence ==
    {Receipt(o1, a1, 1, 2, 1), Copied, Receipt(o2, a1, 2, 1, 2), Receipt(o3, a2, 1, 2, 3)}

\* The terminal acknowledged one receipt of each operation.
MCAckTimes == [e \in MCEvidence |-> IF e = Copied THEN {} ELSE {e.confirmed + 1}]

MCIssueRequests ==
    {[id |-> "r1", wallet |-> w1, key |-> kw, maxPayment |-> 2, maxPayments |-> 2],
     [id |-> "r2", wallet |-> w1, key |-> kw, maxPayment |-> 2, maxPayments |-> 1]}

MCTopupRequests == {[id |-> "t1", wallet |-> w1, amount |-> 1]}
MCLegacyPayments == {[op |-> "v2", wallet |-> w1, amount |-> 1]}

\* The contracts of this ledger are contracts of Escrow.
ASSUME Promise!EscrowAssumption
=============================================================================
