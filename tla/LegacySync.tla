----------------------------- MODULE LegacySync -----------------------------
(***************************************************************************)
(* The conciliation of v2 evidence (sync_v2.py), which remains for the     *)
(* receipts signed before the v3 ledger, and the inventory that admits     *)
(* them (register_legacy_inventory of api_v3.py).                          *)
(*                                                                         *)
(* The v2 processor reads the stored row and validates the evidence before *)
(* its first write takes the write lock, so a thread may act on a row that *)
(* another thread has made final meanwhile: handler[t] is what thread t    *)
(* read.  The v2 state VALIDATED is written and replaced inside one        *)
(* transaction and is not a state of the table.                            *)
(***************************************************************************)
EXTENDS CentSums

CONSTANTS
    Wallets,        \* client wallets
    Merchant,       \* the wallet of the merchant that owns the terminals
    Auths,          \* v2 authorizations, all issued before v3
    Holder,         \* the wallet of an authorization
    OpeningBudget,  \* remaining_amount_cents of an authorization at the start
    OpeningCount,   \* remaining_payments of an authorization at the start
    OpeningBalance, \* confirmed cents of every account at the start
    Ops,            \* operation identifiers
    Nonces,         \* nonces of payment requests
    Receipts,       \* signed receipts of payments
    Acks,           \* per receipt, the acks its terminal signed
    Threads         \* threads of the pool that serve these handlers

Accounts == Wallets \cup {Merchant}

NoAck == "none"

ASSUME LegacyAssumption ==
    /\ Merchant \notin Wallets
    /\ Holder \in [Auths -> Wallets]
    /\ OpeningBudget \in [Auths -> Nat] /\ OpeningCount \in [Auths -> Nat]
    /\ OpeningBalance \in [Accounts -> Nat]
    /\ Receipts \subseteq [op : Ops, auth : Auths, amount : Nat \ {0}, nonce : Nonces]
    /\ \A r \in Receipts : NoAck \notin Acks[r]
    /\ IsFiniteSet(Receipts) /\ IsFiniteSet(Auths)

VARIABLES
    inventory, \* legacy_evidence_inventory
    payment,   \* offline_payments_v2, by operation
    budget,    \* offline_authorizations.remaining_amount_cents
    count,     \* offline_authorizations.remaining_payments
    balance,   \* wallets.confirmed_balance_cents
    ledger,    \* the receipts that have their DEBIT and CREDIT rows
    revoked,   \* authorizations whose wallet key is revoked
    handler    \* what each thread read before its transaction

books == <<budget, count, balance, ledger>>
vars == <<inventory, payment, books, revoked, handler>>

NoRow == [state |-> "NONE"]

AckValues == {NoAck} \cup UNION {Acks[r] : r \in Receipts}

PaymentRows ==
    [state : {"PENDING_EVIDENCE", "ACCEPTED", "REJECTED"}, ev : Receipts, ack : AckValues]

Row(state, r, ack) == [state |-> state, ev |-> r, ack |-> ack]

Idle == [kind |-> "idle"]

Frames == {Idle} \cup [kind : {"new", "stored", "refused"}, ev : Receipts, ack : AckValues]

Init ==
    /\ inventory = {}
    /\ payment = [op \in Ops |-> NoRow]
    /\ budget = OpeningBudget
    /\ count = OpeningCount
    /\ balance = OpeningBalance
    /\ ledger = {}
    /\ revoked = {}
    /\ handler = [t \in Threads |-> Idle]

----------------------------------------------------------------------------
\* MUTANT: only the batch itself is examined
ImportableAlone(batch) == \A r, s \in batch : r.op = s.op => r = s

\* No operation gets a second receipt, neither of the batch nor stored before.
Importable(batch) == \A r \in batch, s \in batch \cup inventory : r.op = s.op => r = s

\* One receipt that conflicts refuses the whole batch.
Import(batch) ==
    /\ Importable(batch)
    /\ inventory' = inventory \cup batch
    /\ UNCHANGED <<payment, books, revoked, handler>>

\* The v2 processor does not ask when a receipt was signed: a revoked key sends
\* all that is not final to manual review, outside the tables.
Revoke(a) ==
    /\ revoked' = revoked \cup {a}
    /\ UNCHANGED <<inventory, payment, books, handler>>

Valid(r) == r \in inventory /\ r.auth \notin revoked

Known(op) == payment[op] # NoRow

\* The stored row, when there is one, is the same receipt and waits for its ack.
Unsettled(r) == Known(r.op) => payment[r.op] = Row("PENDING_EVIDENCE", r, NoAck)

\* Without an ack a stored row stays as it is, so the thread has nothing to do.
Read(t, r, ack) ==
    /\ handler[t] = Idle
    /\ Valid(r) /\ Unsettled(r)
    /\ Known(r.op) => ack # NoAck
    /\ handler' = [handler EXCEPT ![t] =
                     [kind |-> IF Known(r.op) THEN "stored" ELSE "new", ev |-> r, ack |-> ack]]
    /\ UNCHANGED <<inventory, payment, books, revoked>>

\* MUTANT: the nonce has no unique index
InsertableByKey(r) == ~Known(r.op)

\* The primary key and the unique index on the nonce.
Insertable(r) == ~Known(r.op) /\ \A op \in Ops : Known(op) => payment[op].ev.nonce # r.nonce

\* A receipt without its ack is stored.
Store(t) ==
    LET r == handler[t].ev IN
    /\ handler[t].kind = "new" /\ handler[t].ack = NoAck
    /\ Insertable(r)
    /\ payment' = [payment EXCEPT ![r.op] = Row("PENDING_EVIDENCE", r, NoAck)]
    /\ handler' = [handler EXCEPT ![t] = Idle]
    /\ UNCHANGED <<inventory, books, revoked>>

\* The two conditional UPDATEs of _apply_payment.
Applicable(r) ==
    /\ budget[r.auth] >= r.amount /\ count[r.auth] > 0
    /\ balance[Holder[r.auth]] >= r.amount

\* The thread has the ack, and its row is inserted or was there when it read.
Ready(t) ==
    /\ handler[t].kind \in {"new", "stored"} /\ handler[t].ack # NoAck
    /\ handler[t].kind = "new" => Insertable(handler[t].ev)

\* MUTANT: no unique index on the ledger rows
UnpaidUnchecked(r) == TRUE

Unpaid(r) == r.op \notin {l.op : l \in ledger}

\* Debit, credit, ledger rows and final state commit together.
Accept(t) ==
    LET r == handler[t].ev IN
    /\ Ready(t) /\ Applicable(r) /\ Unpaid(r)
    /\ payment' = [payment EXCEPT ![r.op] = Row("ACCEPTED", r, handler[t].ack)]
    /\ budget' = [budget EXCEPT ![r.auth] = @ - r.amount]
    /\ count' = [count EXCEPT ![r.auth] = @ - 1]
    /\ balance' = [balance EXCEPT ![Holder[r.auth]] = @ - r.amount, ![Merchant] = @ + r.amount]
    /\ ledger' = ledger \cup {r}
    /\ handler' = [handler EXCEPT ![t] = Idle]
    /\ UNCHANGED <<inventory, revoked>>

\* An UPDATE matched no row: the rollback drops the lock before the outcome is
\* written.
Refuse(t) ==
    /\ Ready(t) /\ ~Applicable(handler[t].ev)
    /\ handler' = [handler EXCEPT ![t].kind = "refused"]
    /\ UNCHANGED <<inventory, payment, books, revoked>>

\* The row it leaves is refused, whatever state the row it finds is in.
RefuseCommit(t) ==
    LET r == handler[t].ev IN
    /\ handler[t].kind = "refused"
    /\ Known(r.op) \/ Insertable(r)
    /\ payment' = [payment EXCEPT ![r.op] = Row("REJECTED", r, handler[t].ack)]
    /\ handler' = [handler EXCEPT ![t] = Idle]
    /\ UNCHANGED <<inventory, books, revoked>>

\* A unique index, the busy timeout or a crash ends the handler; its transaction
\* is rolled back.
Abandon(t) ==
    /\ handler[t] # Idle
    /\ handler' = [handler EXCEPT ![t] = Idle]
    /\ UNCHANGED <<inventory, payment, books, revoked>>

Next ==
    \/ \E batch \in SUBSET Receipts : Import(batch)
    \/ \E a \in Auths : Revoke(a)
    \/ \E t \in Threads, r \in Receipts : \E ack \in Acks[r] \cup {NoAck} : Read(t, r, ack)
    \/ \E t \in Threads : Store(t)
    \/ \E t \in Threads : Accept(t)
    \/ \E t \in Threads : Refuse(t)
    \/ \E t \in Threads : RefuseCommit(t)
    \/ \E t \in Threads : Abandon(t)

Spec == Init /\ [][Next]_vars

----------------------------------------------------------------------------
\* Every row has its columns and every column its range (models.py).
LegacyTypeOK ==
    /\ inventory \subseteq Receipts /\ ledger \subseteq Receipts
    /\ payment \in [Ops -> PaymentRows \cup {NoRow}]
    /\ budget \in [Auths -> Nat] /\ count \in [Auths -> Nat]
    /\ balance \in [Accounts -> Nat]
    /\ revoked \subseteq Auths
    /\ handler \in [Threads -> Frames]

Value == [r \in Receipts |-> r.amount]

PaidUnder(a) == {r \in ledger : r.auth = a}

\* What an authorization has spent is exactly what the ledger shows of it, in
\* cents and in payments, although two threads may hold the same unpaid row
\* (_apply_payment and the unique index on ledger rows).
BudgetMatchesLedger ==
    \A a \in Auths :
        /\ budget[a] + SumOver(Value, PaidUnder(a)) = OpeningBudget[a]
        /\ count[a] + Cardinality(PaidUnder(a)) = OpeningCount[a]

\* A client's request nonce is paid once, whatever operations carry it
\* (the unique column nonce of OfflinePaymentV2).
NoncePaidOnce == \A r, s \in ledger : r.nonce = s.nonce => r = s

\* No operation is paid with a receipt other than the one that the inventory
\* took first, and an accepted row is always in the ledger
\* (register_legacy_inventory, _validate_evidence).
AcceptedWasInventoried ==
    /\ \A r \in ledger : \A s \in inventory : s.op = r.op => s = r
    /\ \A op \in Ops : Known(op) /\ payment[op].state = "ACCEPTED" => payment[op].ev \in ledger

\* A final v2 row is never rewritten: "garantizar inmutabilidad e idempotencia
\* estricta de resultados finales ante reenvíos sucesivos".
FinalRowIsForever ==
    [][\A op \in Ops : Known(op) /\ payment[op].state \in {"ACCEPTED", "REJECTED"}
                            => payment'[op] = payment[op]]_payment
=============================================================================
