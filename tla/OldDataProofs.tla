---------------------------- MODULE OldDataProofs ----------------------------
(***************************************************************************)
(* Proofs about what older versions left, side by side as in MCOldData:    *)
(* receipts of protocol v2 (LegacySync), for every set of authorizations,  *)
(* receipts, nonces and threads; the database of an older backend          *)
(* (BackendUpgrade), for every set of contracts, payments and claims; and  *)
(* that of an older POS (PosUpgrade), for any number of windows.           *)
(***************************************************************************)
EXTENDS LegacySync, BackendUpgrade, PosUpgrade, CentSumsProofs

----------------------------------------------------------------------------
(* Receipts of protocol v2: types.                                         *)

\* The columns of a receipt, and who pays it.
LEMMA ReceiptFields ==
  ASSUME NEW r \in Receipts
  PROVE  /\ r.op \in Ops /\ r.auth \in Auths /\ r.amount \in Nat \ {0} /\ r.nonce \in Nonces
         /\ Holder[r.auth] \in Accounts /\ Holder[r.auth] # Merchant
         /\ Acks[r] \cup {NoAck} \subseteq AckValues /\ NoAck \in AckValues
BY LegacyAssumption DEF LegacyAssumption, Accounts, AckValues

\* A thread that is not idle holds a receipt and its ack.
LEMMA FrameFields ==
  ASSUME LegacyTypeOK, NEW t \in Threads, handler[t] # Idle
  PROVE  /\ handler[t].ev \in Receipts /\ handler[t].ack \in AckValues
         /\ handler[t].kind \in {"new", "stored", "refused"}
         /\ handler[t] = [kind |-> handler[t].kind, ev |-> handler[t].ev, ack |-> handler[t].ack]
BY DEF LegacyTypeOK, Frames

\* The rows a step may write are rows of the table.
LEMMA RowType ==
  ASSUME NEW r \in Receipts, NEW ack \in AckValues,
         NEW state \in {"PENDING_EVIDENCE", "ACCEPTED", "REJECTED"}
  PROVE  /\ Row(state, r, ack) \in PaymentRows /\ Row(state, r, ack) # NoRow
         /\ Row(state, r, ack).ev = r /\ Row(state, r, ack).state = state
<1>1. Row(state, r, ack) \in PaymentRows
  BY DEF Row, PaymentRows
<1>2. "ev" \in DOMAIN Row(state, r, ack) /\ "ev" \notin DOMAIN NoRow
  BY DEF Row, NoRow
<1>3. QED
  BY <1>1, <1>2 DEF Row

\* The tables start with rows of their type.
LEMMA TypeInit == Init => LegacyTypeOK
BY LegacyAssumption DEF LegacyAssumption, Init, LegacyTypeOK, Frames

\* Every step keeps the types.
LEMMA TypeStep == LegacyTypeOK /\ [Next]_vars => LegacyTypeOK'
<1> SUFFICES ASSUME LegacyTypeOK, [Next]_vars PROVE LegacyTypeOK'
  OBVIOUS
<1> USE DEF LegacyTypeOK, books
<1>1. ASSUME NEW batch \in SUBSET Receipts, Import(batch) PROVE LegacyTypeOK'
  BY <1>1 DEF Import
<1>2. ASSUME NEW a \in Auths, Revoke(a) PROVE LegacyTypeOK'
  BY <1>2 DEF Revoke
<1>3. ASSUME NEW t \in Threads, NEW r \in Receipts, NEW ack \in Acks[r] \cup {NoAck}, Read(t, r, ack)
      PROVE  LegacyTypeOK'
  <2>1. ack \in AckValues
    BY ReceiptFields
  <2>2. handler' \in [Threads -> Frames]
    BY <1>3, <2>1 DEF Read, Frames
  <2>3. QED
    BY <1>3, <2>2 DEF Read
<1>4. ASSUME NEW t \in Threads, Store(t) PROVE LegacyTypeOK'
  <2>1. handler[t].ev \in Receipts /\ handler[t].ev.op \in Ops
    BY <1>4, FrameFields, ReceiptFields DEF Store, Idle
  <2>2. Row("PENDING_EVIDENCE", handler[t].ev, NoAck) \in PaymentRows
    BY <2>1, RowType, ReceiptFields
  <2>3. QED
    BY <1>4, <2>1, <2>2 DEF Store, Frames
<1>5. ASSUME NEW t \in Threads, Accept(t) PROVE LegacyTypeOK'
  <2> DEFINE r == handler[t].ev
  <2>1. handler[t] # Idle
    BY <1>5 DEF Accept, Ready, Idle
  <2>2. r \in Receipts /\ handler[t].ack \in AckValues
    BY <2>1, FrameFields
  <2>3. /\ r.op \in Ops /\ r.auth \in Auths /\ r.amount \in Nat
        /\ Holder[r.auth] \in Accounts /\ Holder[r.auth] # Merchant /\ Merchant \in Accounts
    BY <2>2, ReceiptFields DEF Accounts
  <2>4. Row("ACCEPTED", r, handler[t].ack) \in PaymentRows
    BY <2>2, RowType
  <2>5. budget' \in [Auths -> Nat] /\ count' \in [Auths -> Nat]
    BY <1>5, <2>3 DEF Accept, Applicable
  <2>6. balance' \in [Accounts -> Nat]
    BY <1>5, <2>3 DEF Accept, Applicable
  <2>7. QED
    BY <1>5, <2>2, <2>3, <2>4, <2>5, <2>6 DEF Accept, Frames
<1>6. ASSUME NEW t \in Threads, Refuse(t) PROVE LegacyTypeOK'
  <2>1. handler[t] # Idle
    BY <1>6 DEF Refuse, Ready, Idle
  <2>2. [handler[t] EXCEPT !.kind = "refused"] \in Frames
    <3>1. [handler[t] EXCEPT !.kind = "refused"]
            = [kind |-> "refused", ev |-> handler[t].ev, ack |-> handler[t].ack]
      BY <2>1, FrameFields
    <3>2. QED
      BY <2>1, <3>1, FrameFields DEF Frames
  <2>3. QED
    BY <1>6, <2>2 DEF Refuse
<1>7. ASSUME NEW t \in Threads, RefuseCommit(t) PROVE LegacyTypeOK'
  <2>1. handler[t].ev \in Receipts /\ handler[t].ack \in AckValues
    BY <1>7, FrameFields DEF RefuseCommit, Idle
  <2>2. handler[t].ev.op \in Ops /\ Row("REJECTED", handler[t].ev, handler[t].ack) \in PaymentRows
    BY <2>1, RowType, ReceiptFields
  <2>3. QED
    BY <1>7, <2>2 DEF RefuseCommit, Frames
<1>8. ASSUME NEW t \in Threads, Abandon(t) PROVE LegacyTypeOK'
  BY <1>8 DEF Abandon, Frames
<1>9. CASE UNCHANGED vars
  BY <1>9 DEF vars
<1>10. QED
  BY <1>1, <1>2, <1>3, <1>4, <1>5, <1>6, <1>7, <1>8, <1>9 DEF Next

\* Every reachable state has the types of its tables: no budget, number of
\* payments or balance becomes negative, for any number of threads with stale rows.
THEOREM LegacyTypeCorrect == Spec => []LegacyTypeOK
BY TypeInit, TypeStep, PTL DEF Spec

----------------------------------------------------------------------------
(* The budget of an authorization and its rows of the ledger.              *)

\* The receipts of the ledger are finitely many amounts.
LEMMA LedgerFinite ==
  ASSUME LegacyTypeOK, NEW a \in Auths
  PROVE  /\ IsFiniteSet(PaidUnder(a)) /\ Cardinality(PaidUnder(a)) \in Nat
         /\ SumOver(Value, PaidUnder(a)) \in Nat
         /\ \A r \in Receipts : Value[r] = r.amount /\ Value[r] \in Nat
<1>1. PaidUnder(a) \subseteq Receipts /\ IsFiniteSet(Receipts)
  BY LegacyAssumption DEF LegacyAssumption, LegacyTypeOK, PaidUnder
<1>2. IsFiniteSet(PaidUnder(a)) /\ Cardinality(PaidUnder(a)) \in Nat
  BY <1>1, FS_Subset, FS_CardinalityType
<1>3. \A r \in Receipts : Value[r] = r.amount /\ Value[r] \in Nat
  BY ReceiptFields DEF Value
<1>4. SumOver(Value, PaidUnder(a)) \in Nat
  BY <1>1, <1>2, <1>3, SumNat
<1>5. QED
  BY <1>2, <1>3, <1>4

\* Before the first payment nothing is spent.
LEMMA BudgetInit == Init => BudgetMatchesLedger
<1> SUFFICES ASSUME Init, NEW a \in Auths
             PROVE  /\ budget[a] + SumOver(Value, PaidUnder(a)) = OpeningBudget[a]
                    /\ count[a] + Cardinality(PaidUnder(a)) = OpeningCount[a]
  BY DEF BudgetMatchesLedger
<1>1. PaidUnder(a) = {}
  BY DEF Init, PaidUnder
<1>2. SumOver(Value, {}) = 0 /\ Cardinality({}) = 0
  BY SumEmpty, FS_EmptySet
<1>3. OpeningBudget[a] \in Nat /\ OpeningCount[a] \in Nat
  BY LegacyAssumption DEF LegacyAssumption
<1>4. QED
  BY <1>1, <1>2, <1>3 DEF Init

\* A payment adds one receipt to the ledger of its authorization and takes its
\* cents off the budget; no other step touches either.
LEMMA BudgetStep == LegacyTypeOK /\ BudgetMatchesLedger /\ [Next]_vars => BudgetMatchesLedger'
<1> SUFFICES ASSUME LegacyTypeOK, BudgetMatchesLedger, [Next]_vars PROVE BudgetMatchesLedger'
  OBVIOUS
<1>1. ASSUME UNCHANGED <<budget, count, ledger>> PROVE BudgetMatchesLedger'
  BY <1>1 DEF BudgetMatchesLedger, PaidUnder
<1>2. ASSUME NEW t \in Threads, Accept(t) PROVE BudgetMatchesLedger'
  <2> DEFINE r == handler[t].ev
             x == r.auth
  <2>1. r \in Receipts /\ x \in Auths /\ r.amount \in Nat
    <3>1. handler[t] # Idle
      BY <1>2 DEF Accept, Ready, Idle
    <3>2. QED
      BY <3>1, FrameFields, ReceiptFields
  <2>2. r \notin ledger /\ ledger' = ledger \cup {r}
    BY <1>2 DEF Accept, Unpaid
  <2>3. SUFFICES ASSUME NEW a \in Auths
                 PROVE  /\ budget'[a] + SumOver(Value, PaidUnder(a)') = OpeningBudget[a]
                        /\ count'[a] + Cardinality(PaidUnder(a)') = OpeningCount[a]
    BY DEF BudgetMatchesLedger
  <2>4. /\ budget[a] + SumOver(Value, PaidUnder(a)) = OpeningBudget[a]
        /\ count[a] + Cardinality(PaidUnder(a)) = OpeningCount[a]
        /\ budget[a] \in Nat /\ count[a] \in Nat
        /\ budget \in [Auths -> Nat] /\ count \in [Auths -> Nat]
    BY DEF BudgetMatchesLedger, LegacyTypeOK
  <2>5. CASE a # x
    <3>1. PaidUnder(a)' = PaidUnder(a)
      BY <2>2, <2>5 DEF PaidUnder
    <3>2. budget'[a] = budget[a] /\ count'[a] = count[a]
      BY <1>2, <2>4, <2>5 DEF Accept
    <3>3. QED
      BY <2>4, <3>1, <3>2
  <2>6. CASE a = x
    <3>1. PaidUnder(a)' = PaidUnder(a) \cup {r} /\ r \notin PaidUnder(a)
      BY <2>2, <2>6 DEF PaidUnder
    <3>2. PaidUnder(a) \cup {r} \subseteq Receipts
      BY <2>1 DEF LegacyTypeOK, PaidUnder
    <3>3. SumOver(Value, PaidUnder(a) \cup {r}) = SumOver(Value, PaidUnder(a)) + Value[r]
      BY <3>1, <3>2, LedgerFinite, SumAdd
    <3>4. Cardinality(PaidUnder(a) \cup {r}) = Cardinality(PaidUnder(a)) + 1
      BY <3>1, LedgerFinite, FS_AddElement
    <3>5. budget'[a] = budget[a] - r.amount /\ count'[a] = count[a] - 1
      BY <1>2, <2>4, <2>6 DEF Accept
    <3>6. Value[r] = r.amount
      BY <2>1, LedgerFinite
    <3>7. SumOver(Value, PaidUnder(a)) \in Nat /\ Cardinality(PaidUnder(a)) \in Nat
      BY LedgerFinite
    <3>8. budget'[a] + SumOver(Value, PaidUnder(a)') = OpeningBudget[a]
      BY <2>1, <2>4, <3>1, <3>3, <3>5, <3>6, <3>7
    <3>9. count'[a] + Cardinality(PaidUnder(a)') = OpeningCount[a]
      BY <2>4, <3>1, <3>4, <3>5, <3>7
    <3>10. QED
      BY <3>8, <3>9
  <2>7. QED
    BY <2>5, <2>6
<1>3. QED
  BY <1>1, <1>2
     DEF Next, Import, Revoke, Read, Store, Refuse, RefuseCommit, Abandon, books, vars

\* What an authorization has spent is what the ledger shows of it, although any
\* number of threads may act on one row that was not paid when they read it.
THEOREM BudgetIsTheLedger == Spec => []BudgetMatchesLedger
<1>1. Init => LegacyTypeOK /\ BudgetMatchesLedger
  BY TypeInit, BudgetInit
<1>2. LegacyTypeOK /\ BudgetMatchesLedger /\ [Next]_vars => (LegacyTypeOK /\ BudgetMatchesLedger)'
  BY TypeStep, BudgetStep
<1>3. QED
  BY <1>1, <1>2, PTL DEF Spec

----------------------------------------------------------------------------
(* One receipt per operation and per nonce.                                *)

\* The inventory has one receipt of an operation, and whatever is stored, held
\* by a thread or paid for the operation is that receipt.
RowsInventoried ==
    /\ \A r, s \in inventory : r.op = s.op => r = s
    /\ \A op \in Ops : Known(op) => payment[op].ev \in inventory /\ payment[op].ev.op = op
    /\ \A t \in Threads : handler[t] # Idle =>
         /\ handler[t].ev \in inventory
         /\ handler[t].kind = "stored" => Known(handler[t].ev.op)

\* The rows of two operations have two nonces.
RowsHaveNonces ==
    \A p, q \in Ops :
        Known(p) /\ Known(q) /\ payment[p].ev.nonce = payment[q].ev.nonce => p = q

\* The ledger and the table of payments agree about what was paid.
LedgerHasRows ==
    /\ \A r \in ledger : Known(r.op) /\ payment[r.op].ev = r
    /\ \A op \in Ops : Known(op) /\ payment[op].state = "ACCEPTED" => payment[op].ev \in ledger

RInv == LegacyTypeOK /\ RowsInventoried /\ RowsHaveNonces /\ LedgerHasRows

\* What a step does when it writes the row of r over the same receipt, or over
\* no row when the unique index admits the nonce.
LEMMA RowWritten ==
  ASSUME RInv, NEW r \in inventory, Known(r.op) \/ Insertable(r),
         NEW row \in PaymentRows, row # NoRow, row.ev = r,
         payment' = [payment EXCEPT ![r.op] = row]
  PROVE  /\ r.op \in Ops /\ payment'[r.op] = row
         /\ \A op \in Ops \ {r.op} : payment'[op] = payment[op]
         /\ \A op \in Ops : Known(op) => Known(op)' /\ payment'[op].ev = payment[op].ev
         /\ \A op \in Ops : Known(op)' => payment'[op].ev \in inventory /\ payment'[op].ev.op = op
         /\ RowsHaveNonces'
<1>1. r \in Receipts /\ r.op \in Ops
  BY ReceiptFields DEF RInv, LegacyTypeOK
<1>2. payment'[r.op] = row /\ \A op \in Ops \ {r.op} : payment'[op] = payment[op]
  BY <1>1 DEF RInv, LegacyTypeOK
<1>3. Known(r.op) => payment[r.op].ev = r
  BY <1>1 DEF RInv, RowsInventoried
<1>4. \A op \in Ops : Known(op) => Known(op)' /\ payment'[op].ev = payment[op].ev
  BY <1>2, <1>3 DEF Known
<1>5. \A op \in Ops : Known(op)' => payment'[op].ev \in inventory /\ payment'[op].ev.op = op
  BY <1>1, <1>2 DEF Known, RInv, RowsInventoried
<1>6. \A op \in Ops \ {r.op} : Known(op) => payment[op].ev.nonce # r.nonce
  <2>1. CASE Known(r.op)
    BY <1>1, <1>3, <2>1 DEF RInv, RowsHaveNonces
  <2>2. CASE Insertable(r)
    BY <2>2 DEF Insertable
  <2>3. QED
    BY <2>1, <2>2
<1>7. RowsHaveNonces'
  BY <1>2, <1>6 DEF RowsHaveNonces, RInv, Known
<1>8. QED
  BY <1>1, <1>2, <1>4, <1>5, <1>7

\* The tables start empty.
LEMMA RowsInit == Init => RInv
BY TypeInit DEF RInv, Init, RowsInventoried, RowsHaveNonces, LedgerHasRows, Known

\* Every step keeps one receipt per operation and per nonce.
LEMMA RowsStep == RInv /\ [Next]_vars => RInv'
<1> SUFFICES ASSUME RInv, [Next]_vars PROVE RInv'
  OBVIOUS
<1>0. LegacyTypeOK' /\ LegacyTypeOK
  BY TypeStep DEF RInv
<1>1. ASSUME NEW batch \in SUBSET Receipts, Import(batch) PROVE RInv'
  <2>1. \A r, s \in inventory' : r.op = s.op => r = s
    BY <1>1 DEF Import, Importable, RInv, RowsInventoried
  <2>2. RowsInventoried'
    BY <1>1, <2>1 DEF Import, RInv, RowsInventoried, Known
  <2>3. QED
    BY <1>0, <1>1, <2>2 DEF Import, RInv, RowsHaveNonces, LedgerHasRows, Known, books
<1>2. ASSUME UNCHANGED <<inventory, payment, ledger, handler>> PROVE RInv'
  BY <1>0, <1>2 DEF RInv, RowsInventoried, RowsHaveNonces, LedgerHasRows, Known
<1>3. ASSUME NEW t \in Threads, NEW r \in Receipts, NEW ack \in Acks[r] \cup {NoAck}, Read(t, r, ack)
      PROVE  RInv'
  <2>1. \A u \in Threads : handler'[u] # Idle =>
          /\ handler'[u].ev \in inventory
          /\ handler'[u].kind = "stored" => Known(handler'[u].ev.op)
    BY <1>0, <1>3 DEF Read, Valid, RInv, RowsInventoried, LegacyTypeOK
  <2>2. RowsInventoried'
    BY <1>3, <2>1 DEF Read, RInv, RowsInventoried, Known
  <2>3. QED
    BY <1>0, <1>3, <2>2 DEF Read, RInv, RowsHaveNonces, LedgerHasRows, Known, books
<1>4. ASSUME NEW t \in Threads, UNCHANGED <<inventory, payment, ledger>>,
             handler' = [handler EXCEPT ![t] = Idle] \/ handler' = [handler EXCEPT ![t].kind = "refused"],
             handler[t] # Idle
      PROVE  RInv'
  <2>1. handler[t] = [kind |-> handler[t].kind, ev |-> handler[t].ev, ack |-> handler[t].ack]
    BY <1>0, <1>4, FrameFields
  <2>2. \A u \in Threads : handler'[u] # Idle =>
          handler[u] # Idle /\ handler'[u].ev = handler[u].ev
          /\ (handler'[u].kind = "stored" => handler[u].kind = "stored")
    BY <1>0, <1>4, <2>1 DEF LegacyTypeOK
  <2>3. RowsInventoried'
    BY <1>4, <2>2 DEF RInv, RowsInventoried, Known
  <2>4. QED
    BY <1>0, <1>4, <2>3 DEF RInv, RowsHaveNonces, LedgerHasRows, Known
\* The three steps that write a row for the receipt r of a thread.
<1>5. ASSUME NEW t \in Threads, handler[t] # Idle, NEW r, r = handler[t].ev,
             Known(r.op) \/ Insertable(r),
             NEW row \in PaymentRows, row # NoRow, row.ev = r,
             payment' = [payment EXCEPT ![r.op] = row],
             ledger' = ledger \/ ledger' = ledger \cup {r},
             row.state = "ACCEPTED" => r \in ledger',
             handler' = [handler EXCEPT ![t] = Idle], UNCHANGED inventory
      PROVE  RInv'
  <2>1. r \in inventory
    BY <1>5 DEF RInv, RowsInventoried
  <2>2. /\ r.op \in Ops /\ payment'[r.op] = row
        /\ \A op \in Ops \ {r.op} : payment'[op] = payment[op]
        /\ \A op \in Ops : Known(op) => Known(op)' /\ payment'[op].ev = payment[op].ev
        /\ \A op \in Ops : Known(op)' => payment'[op].ev \in inventory /\ payment'[op].ev.op = op
        /\ RowsHaveNonces'
    BY <1>5, <2>1, RowWritten
  <2>3. \A u \in Threads : handler'[u] # Idle => handler'[u] = handler[u]
    BY <1>0, <1>5 DEF LegacyTypeOK
  <2>4. \A s \in inventory : s.op \in Ops
    BY <1>0, ReceiptFields DEF LegacyTypeOK
  <2>5. RowsInventoried'
    BY <1>5, <2>2, <2>3, <2>4 DEF RInv, RowsInventoried
  <2>6. \A s \in ledger' : Known(s.op)' /\ payment'[s.op].ev = s
    <3>1. \A s \in ledger : s.op \in Ops /\ Known(s.op) /\ payment[s.op].ev = s
      BY <1>0, ReceiptFields DEF LegacyTypeOK, RInv, LedgerHasRows
    <3>2. Known(r.op)' /\ payment'[r.op].ev = r
      BY <1>5, <2>2 DEF Known
    <3>3. QED
      BY <1>5, <2>2, <3>1, <3>2
  <2>7. \A op \in Ops : Known(op)' /\ payment'[op].state = "ACCEPTED" => payment'[op].ev \in ledger'
    BY <1>5, <2>2 DEF RInv, LedgerHasRows, Known
  <2>8. QED
    BY <1>0, <2>2, <2>5, <2>6, <2>7 DEF RInv, LedgerHasRows
<1>6. ASSUME NEW t \in Threads, Store(t) PROVE RInv'
  <2>1. handler[t] # Idle
    BY <1>6 DEF Store, Idle
  <2>2. handler[t].ev \in Receipts
    BY <1>0, <2>1, FrameFields
  <2> DEFINE row == Row("PENDING_EVIDENCE", handler[t].ev, NoAck)
  <2>3. row \in PaymentRows /\ row # NoRow /\ row.ev = handler[t].ev /\ row.state # "ACCEPTED"
    BY <2>2, RowType, ReceiptFields
  <2>4. Insertable(handler[t].ev) /\ payment' = [payment EXCEPT ![handler[t].ev.op] = row]
        /\ handler' = [handler EXCEPT ![t] = Idle] /\ UNCHANGED <<inventory, ledger>>
    BY <1>6 DEF Store, books
  <2> HIDE DEF row
  <2>5. QED
    BY <1>5, <2>1, <2>3, <2>4
<1>7. ASSUME NEW t \in Threads, Accept(t) PROVE RInv'
  <2>1. handler[t] # Idle
    BY <1>7 DEF Accept, Ready, Idle
  <2>2. handler[t].ev \in Receipts /\ handler[t].ack \in AckValues
    BY <1>0, <2>1, FrameFields
  <2> DEFINE row == Row("ACCEPTED", handler[t].ev, handler[t].ack)
  <2>3. row \in PaymentRows /\ row # NoRow /\ row.ev = handler[t].ev
    BY <2>2, RowType
  <2>4. payment' = [payment EXCEPT ![handler[t].ev.op] = row]
        /\ handler' = [handler EXCEPT ![t] = Idle] /\ UNCHANGED inventory
        /\ ledger' = ledger \cup {handler[t].ev}
    BY <1>7 DEF Accept
  <2>5. Known(handler[t].ev.op) \/ Insertable(handler[t].ev)
    BY <1>7, <2>1 DEF Accept, Ready, RInv, RowsInventoried
  <2> HIDE DEF row
  <2>6. QED
    BY <1>5, <2>1, <2>3, <2>4, <2>5
<1>8. ASSUME NEW t \in Threads, RefuseCommit(t) PROVE RInv'
  <2>1. handler[t] # Idle
    BY <1>8 DEF RefuseCommit, Idle
  <2>2. handler[t].ev \in Receipts /\ handler[t].ack \in AckValues
    BY <1>0, <2>1, FrameFields
  <2> DEFINE row == Row("REJECTED", handler[t].ev, handler[t].ack)
  <2>3. row \in PaymentRows /\ row # NoRow /\ row.ev = handler[t].ev /\ row.state # "ACCEPTED"
    BY <2>2, RowType
  <2>4. payment' = [payment EXCEPT ![handler[t].ev.op] = row]
        /\ handler' = [handler EXCEPT ![t] = Idle] /\ UNCHANGED <<inventory, ledger>>
        /\ (Known(handler[t].ev.op) \/ Insertable(handler[t].ev))
    BY <1>8 DEF RefuseCommit, books
  <2> HIDE DEF row
  <2>5. QED
    BY <1>5, <2>1, <2>3, <2>4
<1>9. ASSUME NEW t \in Threads, Refuse(t) \/ Abandon(t) PROVE RInv'
  <2>1. handler[t] # Idle
    BY <1>9 DEF Refuse, Ready, Abandon, Idle
  <2>2. QED
    BY <1>4, <1>9, <2>1 DEF Refuse, Abandon, books
<1>10. ASSUME NEW a \in Auths, Revoke(a) PROVE RInv'
  BY <1>2, <1>10 DEF Revoke, books
<1>11. CASE UNCHANGED vars
  BY <1>2, <1>11 DEF vars, books
<1>12. QED
  BY <1>1, <1>3, <1>6, <1>7, <1>8, <1>9, <1>10, <1>11 DEF Next

\* A client's nonce is paid once: two receipts of the ledger with one nonce have
\* rows with one nonce, so they are of one operation.
THEOREM NoncesArePaidOnce == Spec => []NoncePaidOnce
<1>1. RInv => NoncePaidOnce
  <2> SUFFICES ASSUME RInv, NEW r \in ledger, NEW s \in ledger, r.nonce = s.nonce PROVE r = s
    BY DEF NoncePaidOnce
  <2>1. r.op \in Ops /\ s.op \in Ops
    BY ReceiptFields DEF RInv, LegacyTypeOK
  <2>2. Known(r.op) /\ payment[r.op].ev = r /\ Known(s.op) /\ payment[s.op].ev = s
    BY DEF RInv, LedgerHasRows
  <2>3. QED
    BY <2>1, <2>2 DEF RInv, RowsHaveNonces
<1>2. QED
  BY <1>1, RowsInit, RowsStep, PTL DEF Spec

\* What the ledger pays for an operation is the receipt that the inventory admitted.
THEOREM InventoryRules == Spec => []AcceptedWasInventoried
<1>1. RInv => AcceptedWasInventoried
  <2> SUFFICES ASSUME RInv PROVE AcceptedWasInventoried
    OBVIOUS
  <2>1. ASSUME NEW r \in ledger, NEW s \in inventory, s.op = r.op PROVE s = r
    <3>1. r.op \in Ops
      BY ReceiptFields DEF RInv, LegacyTypeOK
    <3>2. r \in inventory
      BY <3>1 DEF RInv, LedgerHasRows, RowsInventoried
    <3>3. QED
      BY <2>1, <3>2 DEF RInv, RowsInventoried
  <2>2. QED
    BY <2>1 DEF AcceptedWasInventoried, RInv, LedgerHasRows
<1>2. QED
  BY <1>1, RowsInit, RowsStep, PTL DEF Spec

----------------------------------------------------------------------------
(* Upgrades of the backend: cents and phases.                                *)

\* A commitment after one undisturbed start.
Once(c) == Repaired(c, DefaultAccount(c))

\* The start has computed what it computes.
AccountsDone == stage \in {"claims", "wallets", "serving"}

AccountsConverge ==
    /\ account = [c \in Contracts |-> account[c]]
    /\ \A c \in Contracts :
         \/ account[c] = DefaultAccount(c) /\ ~AccountsDone
         \/ account[c] = Once(c)
         \/ account[c] = Released(Once(c)) /\ Once(c).held > 0

AccountRows == [held : Nat, unissued : Nat, phase : {"OPEN", "SEALED", "SETTLED"},
                closed : BOOLEAN, evidence : BOOLEAN]

\* Rows with equal columns are equal.
LEMMA SameRow ==
  ASSUME NEW a \in AccountRows, NEW b \in AccountRows, a.held = b.held,
         a.unissued = b.unissued, a.phase = b.phase, a.closed = b.closed, a.evidence = b.evidence
  PROVE  a = b
BY DEF AccountRows

\* What the UPDATE statements write.
LEMMA RepairedFields ==
  ASSUME NEW c \in Contracts, NEW a \in AccountRows
  PROVE  /\ Repaired(c, a) \in AccountRows
         /\ Repaired(c, a).held =
              IF a.held = 0 /\ OldRow[c].reserved - OldRow[c].emitted >= 0 /\ a.unissued = 0
              THEN OldRow[c].reserved - OldRow[c].emitted ELSE a.held
         /\ Repaired(c, a).unissued = a.unissued /\ Repaired(c, a).phase = PhaseOf(a)
         /\ Repaired(c, a).closed = a.closed /\ Repaired(c, a).evidence = a.evidence
<1> DEFINE cents == OldRow[c].reserved - OldRow[c].emitted
           held == IF a.held = 0 /\ cents >= 0 /\ a.unissued = 0 THEN cents ELSE a.held
           phase == PhaseOf(a)
<1>1. OldRow[c].reserved \in Nat /\ OldRow[c].emitted \in Nat
  BY UpgradeAssumption
<1>2. held \in Nat /\ phase \in {"OPEN", "SEALED", "SETTLED"}
  BY <1>1 DEF AccountRows, PhaseOf
<1>3. Repaired(c, a) = [a EXCEPT !.held = held, !.phase = phase]
  BY DEF Repaired
<1> HIDE DEF held, phase
<1>4. QED
  <2>1. /\ Repaired(c, a) \in AccountRows /\ Repaired(c, a).held = held
        /\ Repaired(c, a).phase = phase /\ Repaired(c, a).unissued = a.unissued
        /\ Repaired(c, a).closed = a.closed /\ Repaired(c, a).evidence = a.evidence
    BY <1>2, <1>3 DEF AccountRows
  <2>2. QED
    BY <2>1 DEF held, phase

\* What a closure writes.
LEMMA ReleasedFields ==
  ASSUME NEW a \in AccountRows
  PROVE  /\ Released(a) \in AccountRows
         /\ Released(a).held = 0 /\ Released(a).unissued = a.held /\ Released(a).phase = "SETTLED"
         /\ Released(a).closed = TRUE /\ Released(a).evidence = TRUE
BY DEF AccountRows, Released

\* What one start makes of a commitment.
LEMMA OnceFields ==
  ASSUME NEW c \in Contracts
  PROVE  /\ Once(c) \in AccountRows
         /\ Once(c).held = IF OldRow[c].reserved - OldRow[c].emitted >= 0
                           THEN OldRow[c].reserved - OldRow[c].emitted ELSE 0
         /\ Once(c).unissued = 0 /\ ~Once(c).evidence
         /\ Once(c).phase = IF Once(c).closed THEN "SEALED" ELSE "OPEN"
<1>1. OldRow[c].closed \in BOOLEAN
  BY UpgradeAssumption
<1> DEFINE a == DefaultAccount(c)
<1>2. /\ a \in AccountRows /\ a.held = 0 /\ a.unissued = 0 /\ a.phase = "OPEN"
      /\ ~a.evidence
  BY <1>1 DEF DefaultAccount, AccountRows
<1>3. Once(c) = Repaired(c, a)
  BY DEF Once
<1> HIDE DEF a
<1>4. QED
  BY <1>2, <1>3, RepairedFields DEF PhaseOf

\* A repetition of the UPDATE statements changes nothing that a start computed and
\* nothing that a closure released (run_schema_migrations).
LEMMA RepairedOnce ==
  ASSUME NEW c \in Contracts
  PROVE  /\ Repaired(c, Once(c)) = Once(c)
         /\ Once(c).held > 0 => Repaired(c, Released(Once(c))) = Released(Once(c))
<1>1. Repaired(c, Once(c)) = Once(c)
  <2>1. Repaired(c, Once(c)) \in AccountRows /\ Once(c) \in AccountRows
    BY OnceFields, RepairedFields
  <2>2. /\ Repaired(c, Once(c)).held = Once(c).held
        /\ Repaired(c, Once(c)).phase = Once(c).phase
        /\ Repaired(c, Once(c)).unissued = Once(c).unissued
        /\ Repaired(c, Once(c)).closed = Once(c).closed
        /\ Repaired(c, Once(c)).evidence = Once(c).evidence
    BY OnceFields, RepairedFields DEF PhaseOf
  <2>3. QED
    BY <2>1, <2>2, SameRow
<1>2. ASSUME Once(c).held > 0
      PROVE  Repaired(c, Released(Once(c))) = Released(Once(c))
  <2> DEFINE a == Released(Once(c))
  <2>1. /\ a \in AccountRows /\ a.held = 0 /\ a.unissued # 0 /\ a.phase = "SETTLED"
    <3>1. Once(c) \in AccountRows /\ Once(c).held # 0
      BY <1>2, OnceFields
    <3>2. QED
      BY <3>1, ReleasedFields
  <2> HIDE DEF a
  <2>2. /\ Repaired(c, a) \in AccountRows /\ Repaired(c, a).held = a.held
        /\ Repaired(c, a).phase = a.phase /\ Repaired(c, a).unissued = a.unissued
        /\ Repaired(c, a).closed = a.closed /\ Repaired(c, a).evidence = a.evidence
    BY <2>1, RepairedFields DEF PhaseOf
  <2>3. Repaired(c, a) = a
    BY <2>1, <2>2, SameRow
  <2>4. QED
    BY <2>3 DEF a
<1>3. QED
  BY <1>1, <1>2

LEMMA AccountsInit == UpgradeInit => AccountsConverge
BY DEF UpgradeInit, AccountsConverge, AccountsDone, Once

\* The columns that a start tests come before what it computes.
LEMMA ColumnsFirst ==
  ASSUME AddColumn \/ AddCompanion
  PROVE  ~AccountsDone' /\ UnchangedData
<1>1. \A col \in DOMAIN After : After[col] \notin {"claims", "wallets", "serving"}
  BY DEF After
<1>2. \A col \in DOMAIN Companion :
        Companion[col] \notin {"claims", "wallets", "serving"} /\ col \in DOMAIN After
  <2>1. DOMAIN Companion = {"merchant_id", "issuance_index", "issuance_request_id"}
    BY DEF Companion
  <2>2. \A col \in DOMAIN Companion : Companion[col] \notin {"claims", "wallets", "serving"}
    <3>1. /\ Companion["merchant_id"] = "merchant of terminals"
          /\ Companion["issuance_index"] = "uq_commitment_issuance_index"
          /\ Companion["issuance_request_id"] = "uq_offline_authorization_issuance_request"
      BY DEF Companion
    <3>2. QED
      BY <2>1, <3>1
  <2>3. \A col \in DOMAIN Companion : col \in DOMAIN After
    BY <2>1 DEF After
  <2>4. QED
    BY <2>2, <2>3
<1>3. QED
  BY <1>1, <1>2 DEF AddColumn, AddCompanion, AccountsDone

\* Only the repair and a closure write commitments.
LEMMA AccountsStep ==
  ASSUME AccountsConverge, [UpgradeNext]_upgradeVars
  PROVE  AccountsConverge'
<1>1. ASSUME UNCHANGED account, AccountsDone' => AccountsDone PROVE AccountsConverge'
  BY <1>1 DEF AccountsConverge
<1>2. CASE RepairAccounts
  <2>1. account' = [c \in Contracts |-> Repaired(c, account[c])]
    BY <1>2 DEF RepairAccounts
  <2>2. ASSUME NEW c \in Contracts
        PROVE  \/ account'[c] = Once(c)
               \/ account'[c] = Released(Once(c)) /\ Once(c).held > 0
    <3>1. account'[c] = Repaired(c, account[c])
      BY <2>1
    <3>2. QED
      BY <3>1, RepairedOnce DEF AccountsConverge, Once
  <2>3. QED
    BY <2>1, <2>2 DEF AccountsConverge
<1>3. ASSUME NEW c \in Contracts, Close(c) PROVE AccountsConverge'
  <2>1. /\ account' = [account EXCEPT ![c] = Released(account[c])]
        /\ account[c].phase = "OPEN" /\ account[c].held > 0 /\ AccountsDone
    BY <1>3 DEF Close, AccountsDone
  <2>2. account[c] = Once(c)
    BY <2>1, OnceFields, ReleasedFields DEF AccountsConverge
  <2>3. QED
    BY <2>1, <2>2 DEF AccountsConverge
<1>4. CASE AddColumn \/ AddCompanion
  BY <1>1, <1>4, ColumnsFirst DEF UnchangedData
<1>5. CASE Start \/ AddAccountColumn \/ BackfillClaims
           \/ BackfillWallets \/ Stop \/ ListRepairable \/ Apply
           \/ (\E c \in LateClaims : RecordClaim(c)) \/ UNCHANGED upgradeVars
  BY <1>1, <1>5 DEF Start, AddAccountColumn, BackfillClaims, BackfillWallets, Stop,
     ListRepairable, Apply, RecordClaim, upgradeVars, UnchangedData, AccountsDone
<1>6. QED
  BY <1>2, <1>3, <1>4, <1>5 DEF UpgradeNext

----------------------------------------------------------------------------
(* Upgrades of the backend: claims.                                          *)

\* The backfill of a start is behind it.
ClaimsDone == stage \in {"wallets", "serving"}

\* A backfill makes all the claims of the past or none, and a start that has done
\* it has them.
PastIsClaimed ==
    /\ claims = {} \/ \A p \in History : p.readable => ClaimOf(p) \in claims
    /\ ClaimsDone => \A p \in History : p.readable => ClaimOf(p) \in claims
    /\ stage = "serving" => users = Users

\* A receipt that cannot be read has no claim before its wallet is in review, and
\* after each repair of a start, what the repair leaves open is in review.
PastIsReviewed ==
    /\ \A p \in History : ~p.readable =>
         \/ WalletOf[p.of] \in review
         \/ ~ClaimsDone /\ ~\E c \in claims : c.of = p.of /\ c.op = p.op
    /\ ClaimsDone => \A c \in Contested(claims) : WalletOf[c.of] \in review
    /\ AccountsDone => \A c \in Contracts : Unsealed(account[c]) => WalletOf[c] \in review

UpgradeInv == AccountsConverge /\ PastIsClaimed /\ PastIsReviewed /\ IsFiniteSet(claims)

\* The operations of History keep its rows apart.
LEMMA PastFields ==
  ASSUME NEW p \in History, NEW q \in History, ClaimOf(p).op = q.op
  PROVE  p = q
BY UpgradeAssumption DEF ClaimOf

\* The claims of some payments are finitely many.
LEMMA PastIsFinite ==
  ASSUME NEW S \in SUBSET History
  PROVE  IsFiniteSet({ClaimOf(p) : p \in S})
<1> DEFINE T == {ClaimOf(p) : p \in S}
           f == [p \in S |-> ClaimOf(p)]
<1>1. f \in Surjection(S, T)
  BY DEF Surjection
<1>2. IsFiniteSet(S)
  BY UpgradeAssumption, FS_Subset
<1>3. QED
  BY <1>1, <1>2, FS_Surjection

LEMMA UpgradeInvInit == UpgradeInit => UpgradeInv
<1> SUFFICES ASSUME UpgradeInit PROVE UpgradeInv
  OBVIOUS
<1> DEFINE R == {q \in History : q.readable}
<1>1. claims \in {{}, {ClaimOf(p) : p \in R}} /\ stage = "down" /\ review = {}
  BY DEF UpgradeInit
<1>2. PastIsClaimed
  BY <1>1 DEF PastIsClaimed, ClaimsDone
<1>3. PastIsReviewed
  BY <1>1, PastFields DEF PastIsReviewed, ClaimsDone, AccountsDone
<1>4. IsFiniteSet(claims)
  BY <1>1, PastIsFinite, FS_EmptySet
<1>5. QED
  BY <1>2, <1>3, <1>4, AccountsInit DEF UpgradeInv

\* One transaction completes the claims and leaves every ambiguity to review.
LEMMA BackfillStep ==
  ASSUME UpgradeInv, BackfillClaims
  PROVE  PastIsClaimed' /\ PastIsReviewed' /\ IsFiniteSet(claims')
<1> DEFINE missing == {p \in History : ~\E c \in claims : c.of = p.of /\ c.op = p.op}
           inserted == {ClaimOf(p) : p \in {q \in missing : q.readable}}
<1>1. /\ claims' = claims \cup inserted /\ stage' = "wallets" /\ UNCHANGED account
      /\ review \subseteq review' /\ AccountsDone
      /\ \A p \in missing : ~p.readable => WalletOf[p.of] \in review'
      /\ \A c \in Contested(claims') : WalletOf[c.of] \in review'
  BY DEF BackfillClaims, Ambiguous, AccountsDone
<1>2. \A p \in History : p.readable => ClaimOf(p) \in claims'
  <2>1. CASE claims = {}
    BY <1>1, <2>1
  <2>2. CASE \A p \in History : p.readable => ClaimOf(p) \in claims
    BY <1>1, <2>2
  <2>3. QED
    BY <2>1, <2>2 DEF UpgradeInv, PastIsClaimed
<1>3. PastIsClaimed'
  BY <1>1, <1>2 DEF PastIsClaimed
<1>4. \A p \in History : ~p.readable => WalletOf[p.of] \in review'
  BY <1>1 DEF UpgradeInv, PastIsReviewed
<1>5. PastIsReviewed'
  BY <1>1, <1>4 DEF UpgradeInv, PastIsReviewed
<1>6. IsFiniteSet(inserted)
  BY PastIsFinite
<1>7. IsFiniteSet(claims')
  BY <1>1, <1>6, FS_Union DEF UpgradeInv
<1>8. QED
  BY <1>3, <1>5, <1>7

\* A claim that is recorded later contests at most claims of its own wallet.
LEMMA RecordStep ==
  ASSUME UpgradeInv, NEW c \in LateClaims, RecordClaim(c)
  PROVE  PastIsClaimed' /\ PastIsReviewed' /\ IsFiniteSet(claims')
<1>1. /\ claims' = claims \cup {c} /\ UNCHANGED <<stage, account, users>>
      /\ review' = IF c \in Contested(claims') THEN review \cup {WalletOf[c.of]} ELSE review
      /\ ClaimsDone /\ stage = "serving"
  BY DEF RecordClaim, ClaimsDone
<1>2. PastIsClaimed'
  BY <1>1 DEF UpgradeInv, PastIsClaimed, ClaimsDone
<1>3. ASSUME NEW d \in Contested(claims') PROVE WalletOf[d.of] \in review'
  <2>1. CASE d \in Contested(claims)
    BY <1>1, <2>1 DEF UpgradeInv, PastIsReviewed
  <2>2. CASE d \notin Contested(claims)
    <3>1. c \in Contested(claims') /\ c.of = d.of
      BY <1>1, <2>2 DEF Contested
    <3>2. QED
      BY <1>1, <3>1
  <2>3. QED
    BY <2>1, <2>2
<1>4. PastIsReviewed'
  BY <1>1, <1>3 DEF UpgradeInv, PastIsReviewed, ClaimsDone, AccountsDone
<1>5. IsFiniteSet(claims')
  BY <1>1, FS_Singleton, FS_Union DEF UpgradeInv
<1>6. QED
  BY <1>2, <1>4, <1>5

LEMMA UpgradeInvStep == UpgradeInv /\ [UpgradeNext]_upgradeVars => UpgradeInv'
<1> SUFFICES ASSUME UpgradeInv, [UpgradeNext]_upgradeVars PROVE UpgradeInv'
  OBVIOUS
<1> DEFINE Goal == PastIsClaimed' /\ PastIsReviewed' /\ IsFiniteSet(claims')
<1>0. AccountsConverge'
  BY AccountsStep DEF UpgradeInv
<1>1. ASSUME UNCHANGED <<account, claims, review>>, stage' = "serving" => users' = Users,
             ClaimsDone' => ClaimsDone, AccountsDone' => AccountsDone
      PROVE  Goal
  BY <1>1 DEF UpgradeInv, PastIsClaimed, PastIsReviewed
<1>2. ASSUME RepairAccounts PROVE Goal
  <2>1. /\ UNCHANGED <<claims, users>> /\ stage' = "claims" /\ review \subseteq review' /\ ~ClaimsDone
        /\ \A c \in Contracts : Unsealed(account'[c]) => WalletOf[c] \in review'
    BY <1>2 DEF RepairAccounts, ClaimsDone
  <2>2. QED
    BY <2>1 DEF UpgradeInv, PastIsClaimed, PastIsReviewed, ClaimsDone
<1>3. ASSUME NEW c \in Contracts, Close(c) PROVE Goal
  <2>1. /\ UNCHANGED <<claims, review, users, stage>>
        /\ account' = [account EXCEPT ![c] = Released(account[c])] /\ account[c].phase = "OPEN"
        /\ AccountsDone
    BY <1>3 DEF Close, AccountsDone
  <2>2. ~Unsealed(account'[c])
    <3>1. account[c] = Once(c)
      BY <2>1, OnceFields, ReleasedFields DEF UpgradeInv, AccountsConverge
    <3>2. account'[c] = Released(Once(c))
      BY <2>1, <3>1 DEF UpgradeInv, AccountsConverge
    <3>3. Released(Once(c)).evidence = TRUE
      BY OnceFields, ReleasedFields
    <3>4. QED
      BY <3>2, <3>3 DEF Unsealed
  <2>3. \A d \in Contracts \ {c} : account'[d] = account[d]
    BY <2>1 DEF UpgradeInv, AccountsConverge
  <2>4. QED
    BY <2>1, <2>2, <2>3 DEF UpgradeInv, PastIsClaimed, PastIsReviewed, ClaimsDone, AccountsDone
<1>4. ASSUME NEW c \in LateClaims, RecordClaim(c) PROVE Goal
  BY <1>4, RecordStep
<1>5. ASSUME BackfillClaims PROVE Goal
  BY <1>5, BackfillStep
<1>6. ASSUME AddColumn \/ AddCompanion PROVE Goal
  <2>1. UNCHANGED <<account, claims, review>> /\ ~AccountsDone'
    BY <1>6, ColumnsFirst DEF UnchangedData
  <2>2. QED
    BY <1>1, <2>1 DEF AccountsDone, ClaimsDone
<1>7. ASSUME \/ Start \/ AddAccountColumn \/ BackfillWallets \/ Stop
             \/ ListRepairable \/ Apply \/ UNCHANGED upgradeVars
      PROVE  Goal
  <2>1. UNCHANGED <<account, claims, review>>
    BY <1>7 DEF Start, AddAccountColumn, BackfillWallets, Stop, ListRepairable, Apply,
       upgradeVars, UnchangedData
  <2>2. /\ stage' = "serving" => users' = Users
        /\ ClaimsDone' => ClaimsDone
        /\ AccountsDone' => AccountsDone
    BY <1>7 DEF Start, AddAccountColumn, BackfillWallets, Stop, ListRepairable, Apply,
       upgradeVars, UnchangedData, UpgradeInv, PastIsClaimed, ClaimsDone, AccountsDone
  <2>3. QED
    BY <1>1, <2>1, <2>2
<1>8. Goal
  BY <1>2, <1>3, <1>4, <1>5, <1>6, <1>7 DEF UpgradeNext
<1>9. QED
  BY <1>0, <1>8 DEF UpgradeInv

\* However many starts were cut short, a backend that serves has the cents of one
\* undisturbed start or of a closure after it, all claims and all wallets
\* (run_schema_migrations, backfill_wallets).
THEOREM StartsAgree == UpgradeSpec => []StartsConverge
<1>1. UpgradeInv => StartsConverge
  BY DEF UpgradeInv, AccountsConverge, PastIsClaimed, StartsConverge, AccountsDone,
     ClaimsDone, Once
<1>2. QED
  BY <1>1, UpgradeInvInit, UpgradeInvStep, PTL DEF UpgradeSpec

\* A backend that serves has left every ambiguity of the past to review
\* (run_schema_migrations, _backfill_commitment_claims).
THEOREM AmbiguitiesAreReviewed == UpgradeSpec => []AmbiguityIsReviewed
<1>1. UpgradeInv => AmbiguityIsReviewed
  BY DEF UpgradeInv, PastIsReviewed, AmbiguityIsReviewed, AccountsDone, ClaimsDone
<1>2. QED
  BY <1>1, UpgradeInvInit, UpgradeInvStep, PTL DEF UpgradeSpec

\* What the tool finds eligible has its own claim, and no other operation claims
\* the index: the count of claims alone would not say whose the one claim is, but
\* a backfill makes all claims or none (recover_final_payments.py, _eligible).
LEMMA EligibleIsUncontested ==
  ASSUME UpgradeInv, NEW p, Eligible(p)
  PROVE  ClaimOf(p) \notin Contested(claims \cup {ClaimOf(p)})
<1> DEFINE D == {d \in claims : d.of = p.of /\ d.index = p.index}
           S == {c.op : c \in D}
           f == [c \in D |-> c.op]
<1>1. p \in History /\ p.readable /\ Cardinality(S) = 1
  BY UpgradeAssumption DEF Eligible
<1>2. IsFiniteSet(D)
  BY FS_Subset DEF UpgradeInv
<1>3. f \in Surjection(D, S)
  BY DEF Surjection
<1>4. IsFiniteSet(S)
  BY <1>2, <1>3, FS_Surjection
<1>5. PICK x : S = {x}
  BY <1>1, <1>4, FS_Singleton
<1>6. ClaimOf(p) \in claims
  BY <1>1, <1>5 DEF UpgradeInv, PastIsClaimed
<1>7. p.op \in S
  BY <1>6 DEF ClaimOf
<1>8. \A d \in claims : d.of = p.of /\ d.index = p.index => d.op = p.op
  BY <1>5, <1>7
<1>9. QED
  BY <1>8 DEF Contested, ClaimOf

\* No payment is restored against a claim that contradicts it, although the server
\* may record claims between the tool's list and its transaction (main).
THEOREM RestoredStaysUncontested == UpgradeSpec => RestoredIsUncontested
<1>1. UpgradeInv /\ [UpgradeNext]_upgradeVars =>
        [\A p \in restored' \ restored :
            ClaimOf(p) \notin Contested(claims \cup {ClaimOf(p)})]_upgradeVars
  <2> SUFFICES ASSUME UpgradeInv, [UpgradeNext]_upgradeVars, NEW p \in restored' \ restored
               PROVE  ClaimOf(p) \notin Contested(claims \cup {ClaimOf(p)})
    OBVIOUS
  <2>1. CASE Apply
    BY <2>1, EligibleIsUncontested DEF Apply, StillEligible
  <2>2. CASE ~Apply
    BY <2>2 DEF UpgradeNext, Start, AddColumn, AddCompanion, AddAccountColumn, RepairAccounts,
       BackfillClaims, BackfillWallets, Stop, RecordClaim, Close, ListRepairable,
       upgradeVars, UnchangedData
  <2>3. QED
    BY <2>1, <2>2
<1>2. QED
  BY <1>1, UpgradeInvInit, UpgradeInvStep, PTL DEF UpgradeSpec, RestoredIsUncontested

----------------------------------------------------------------------------
(* Upgrades of the POS.                                                      *)

\* A window believes in a version that the database has reached.
SchemaInv ==
    /\ version \in 0 .. Latest
    /\ objects = ObjectsOf(version)
    /\ starter \in [Starters -> Down .. Latest]
    /\ \A s \in Starters : starter[s] <= version

\* A script creates what its version lacks of the version it leaves.
LEMMA Scripts ==
  ASSUME NEW v \in 0 .. Latest - 1
  PROVE  /\ Creates[v] = {x \in DOMAIN Since : v < Since[x] /\ Since[x] <= VersionAfter(v)}
         /\ VersionAfter(v) \in v + 1 .. Latest
<1>1. DOMAIN Since = {"tables", "retries", "profile_and_lock", "authorizations",
                      "issuers", "resolutions", "recovery"}
  BY DEF Since
<1>2. /\ Since["tables"] = 1 /\ Since["retries"] = 2 /\ Since["profile_and_lock"] = 3
      /\ Since["authorizations"] = 4 /\ Since["issuers"] = 5 /\ Since["resolutions"] = 6
      /\ Since["recovery"] = 7
  BY DEF Since
<1>3. v \in {0, 1, 2, 3, 4, 5, 6}
  BY DEF Latest
<1>4. VersionAfter(v) = IF v = 0 THEN 2 ELSE v + 1
  BY DEF VersionAfter
<1>5. /\ Creates[0] = {"tables", "retries"} /\ Creates[1] = {"retries"}
      /\ Creates[2] = {"profile_and_lock"} /\ Creates[3] = {"authorizations"}
      /\ Creates[4] = {"issuers"} /\ Creates[5] = {"resolutions"} /\ Creates[6] = {"recovery"}
  BY DEF Creates, Latest
<1> DEFINE Fits == /\ Creates[v] \subseteq DOMAIN Since
                   /\ \A x \in DOMAIN Since :
                        x \in Creates[v] <=> v < Since[x] /\ Since[x] <= VersionAfter(v)
<1>6. ASSUME v = 0 PROVE Fits
  BY <1>1, <1>2, <1>4, <1>5, <1>6
<1>7. ASSUME v = 1 PROVE Fits
  BY <1>1, <1>2, <1>4, <1>5, <1>7
<1>8. ASSUME v = 2 PROVE Fits
  BY <1>1, <1>2, <1>4, <1>5, <1>8
<1>9. ASSUME v = 3 PROVE Fits
  BY <1>1, <1>2, <1>4, <1>5, <1>9
<1>10. ASSUME v = 4 PROVE Fits
  BY <1>1, <1>2, <1>4, <1>5, <1>10
<1>11. ASSUME v = 5 PROVE Fits
  BY <1>1, <1>2, <1>4, <1>5, <1>11
<1>12. ASSUME v = 6 PROVE Fits
  BY <1>1, <1>2, <1>4, <1>5, <1>12
<1>13. VersionAfter(v) \in v + 1 .. Latest
  BY <1>3, <1>4 DEF Latest
<1>14. Fits
  BY <1>3, <1>6, <1>7, <1>8, <1>9, <1>10, <1>11, <1>12
<1>15. QED
  BY <1>13, <1>14

\* Every version brings something.
LEMMA VersionsBring ==
  ASSUME NEW v \in 1 .. Latest
  PROVE  \E x \in DOMAIN Since : Since[x] = v
BY DEF Since, Latest

\* A script finds an object made unless the database is of its version, and then
\* it makes the next one.
LEMMA ScriptFits ==
  ASSUME NEW v \in 0 .. Latest, NEW u \in 0 .. Latest - 1, u <= v,
         Creates[u] \cap ObjectsOf(v) = {}
  PROVE  /\ u = v /\ VersionAfter(u) \in u + 1 .. Latest
         /\ ObjectsOf(v) \cup Creates[u] = ObjectsOf(VersionAfter(u))
<1>1. \A x \in DOMAIN Since : Since[x] \in Nat
  BY DEF Since
<1>2. /\ Creates[u] = {x \in DOMAIN Since : u < Since[x] /\ Since[x] <= VersionAfter(u)}
      /\ VersionAfter(u) \in u + 1 .. Latest
  BY Scripts
<1>3. u = v
  <2>1. SUFFICES ASSUME u < v PROVE FALSE
    OBVIOUS
  <2>2. PICK x \in DOMAIN Since : Since[x] = u + 1
    <3>1. u + 1 \in 1 .. Latest
      BY DEF Latest
    <3>2. QED
      BY <3>1, VersionsBring
  <2>3. x \in Creates[u] /\ x \in ObjectsOf(v)
    BY <1>2, <2>1, <2>2 DEF ObjectsOf
  <2>4. QED
    BY <2>3
<1>4. ObjectsOf(v) \cup Creates[u] = ObjectsOf(VersionAfter(u))
  BY <1>1, <1>2, <1>3 DEF ObjectsOf
<1>5. QED
  BY <1>2, <1>3, <1>4

LEMMA SchemaStep == SchemaInv /\ [PosUpgradeNext]_posUpgradeVars => SchemaInv'
<1> SUFFICES ASSUME SchemaInv, [PosUpgradeNext]_posUpgradeVars PROVE SchemaInv'
  OBVIOUS
<1>1. ASSUME NEW s \in Starters, ReadVersion(s) PROVE SchemaInv'
  BY <1>1 DEF SchemaInv, ReadVersion, Latest, Down
<1>2. ASSUME NEW s \in Starters, RunScript(s) PROVE SchemaInv'
  <2> DEFINE u == starter[s]
             after == VersionAfter(u)
  <2>1. u \in 0 .. Latest - 1 /\ u <= version /\ Creates[u] \cap ObjectsOf(version) = {}
    BY <1>2 DEF SchemaInv, RunScript, Applies, Creates
  <2>2. u = version /\ after \in u + 1 .. Latest /\ ObjectsOf(version) \cup Creates[u] = ObjectsOf(after)
    BY <2>1, ScriptFits DEF SchemaInv
  <2>3. /\ objects' = objects \cup Creates[u] /\ version' = after
        /\ starter' = [starter EXCEPT ![s] = after]
    BY <1>2 DEF RunScript
  <2>4. version <= after
    BY <2>2 DEF SchemaInv
  <2>5. QED
    <3> HIDE DEF after, u
    <3>1. QED
      BY <2>2, <2>3, <2>4 DEF SchemaInv, Latest, Down
<1>3. ASSUME NEW s \in Starters, ScriptFails(s) \/ StopWindow(s) PROVE SchemaInv'
  BY <1>3 DEF SchemaInv, ScriptFails, StopWindow, Latest, Down
<1>4. CASE UNCHANGED posUpgradeVars
  BY <1>4 DEF SchemaInv, posUpgradeVars
<1>5. QED
  BY <1>1, <1>2, <1>3, <1>4 DEF PosUpgradeNext

\* However the starts of windows interleave, the database of the POS has exactly the
\* objects of the version it declares (PosDatabase.migrate).
THEOREM SchemasMatchVersions == PosUpgradeSpec => []SchemaMatchesVersion
<1>1. PosUpgradeInit => SchemaInv
  BY DEF PosUpgradeInit, SchemaInv, Latest, Down
<1>2. SchemaInv => SchemaMatchesVersion
  BY DEF SchemaInv, SchemaMatchesVersion, Latest, Down
<1>3. QED
  BY <1>1, <1>2, SchemaStep, PTL DEF PosUpgradeSpec
=============================================================================
