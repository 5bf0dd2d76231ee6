----------------------------- MODULE Settlement -----------------------------
(***************************************************************************)
(* What the terminal, the payer's phone and the backend agree about an     *)
(* offline payment, without their tables: of an operation one receipt is   *)
(* acknowledged, the backend decides it once, and the merchant is told     *)
(* once what was decided.  A payment is decided as paid only for an        *)
(* acknowledged receipt, and shown as paid only when it was decided so.    *)
(***************************************************************************)

CONSTANTS
    Ops,       \* operations
    Receipts,  \* receipts that a terminal may acknowledge
    None       \* no receipt

VARIABLES
    receipt,  \* per operation: the acknowledged receipt
    verdict,  \* per operation: what the backend decided
    shown     \* per operation: what the merchant was told

vars == <<receipt, verdict, shown>>

\* ACCEPTED is paid; the others are under review, decided for another receipt of
\* the operation, or refused whatever happens.
Decisions == {"ACCEPTED", "PENDING_REVIEW", "OTHER", "REFUSED"}

\* What the merchant may be told of each decision.
Told(decision) == IF decision = "ACCEPTED" THEN "PAID" ELSE "UNPAID"

SettlementTypeOK ==
    /\ receipt \in [Ops -> Receipts \cup {None}]
    /\ verdict \in [Ops -> Decisions \cup {"NONE"}]
    /\ shown \in [Ops -> {"NOTHING", "PAID", "UNPAID"}]

\* Whoever reads a later register may rely on the earlier ones.
Agreement ==
    \A op \in Ops :
        /\ shown[op] # "NOTHING" => verdict[op] # "NONE" /\ shown[op] = Told(verdict[op])
        /\ verdict[op] = "ACCEPTED" => receipt[op] # None

\* Operations of an older version may be settled from the start.
Init == SettlementTypeOK /\ Agreement

\* The terminal acknowledges receipt r of op.
Acknowledge(op, r) ==
    /\ receipt[op] = None
    /\ receipt' = [receipt EXCEPT ![op] = r]
    /\ UNCHANGED <<verdict, shown>>

\* What may be decided of op now.
Decidable(op) == IF receipt[op] = None THEN Decisions \ {"ACCEPTED"} ELSE Decisions

\* The backend decides some operations that are not decided.
Decide ==
    /\ verdict' \in [Ops -> Decisions \cup {"NONE"}]
    /\ \A op \in Ops :
        verdict'[op] # verdict[op] => verdict[op] = "NONE" /\ verdict'[op] \in Decidable(op)
    /\ UNCHANGED <<receipt, shown>>

\* The merchant learns what was decided of op.
Show(op) ==
    /\ shown[op] = "NOTHING"
    /\ verdict[op] # "NONE"
    /\ shown' = [shown EXCEPT ![op] = Told(verdict[op])]
    /\ UNCHANGED <<receipt, verdict>>

Next ==
    \/ \E op \in Ops, r \in Receipts : Acknowledge(op, r)
    \/ Decide
    \/ \E op \in Ops : Show(op)

Spec == Init /\ [][Next]_vars
=============================================================================
