----------------------- MODULE CommitmentLedgerProofs -----------------------
(***************************************************************************)
(* Proofs about CommitmentLedger for every set of wallets, authorizations, *)
(* receipts, requests and threads.                                         *)
(***************************************************************************)
EXTENDS CommitmentLedger, CentSumsProofs

USE DEF NoAck, NotRevoked

----------------------------------------------------------------------------
(* Types.                                                                  *)

\* The fields of a receipt that may arrive.
LEMMA EvidenceFields ==
  ASSUME NEW e \in Evidence
  PROVE  /\ e.op \in Ops /\ e.auth \in Auths /\ e.index \in Nat \ {0}
         /\ e.amount \in Nat \ {0} /\ e.pos \in Keys
         /\ AckTimes[e] \subseteq Nat
BY EvidenceAssumption DEF EvidenceAssumption

\* The fields of a request that may arrive.
LEMMA RequestFields ==
  /\ \A r \in IssueRequests : /\ r.wallet \in Wallets /\ r.key \in Keys
                              /\ r.maxPayment \in Nat \ {0} /\ r.maxPayments \in Nat \ {0}
  /\ \A r \in TopupRequests : r.wallet \in Wallets /\ r.amount \in Nat \ {0}
  /\ \A p \in LegacyPayments : p.wallet \in Wallets /\ p.amount \in Nat \ {0}
BY RequestsAssumption DEF RequestsAssumption

\* The owner of an issued authorization is a client wallet.
LEMMA OwnerIsWallet ==
  ASSUME TypeOK, NEW a \in Auths, Issued(a)
  PROVE  /\ Owner(a) \in Wallets /\ Owner(a) \in Accounts /\ Owner(a) # Merchant
         /\ auth[a].req \in IssueRequests
BY RequestFields, WalletsAssumption
   DEF TypeOK, Issued, Owner, AuthRows, Requests, Accounts, WalletsAssumption

\* What the commitments of a wallet hold is an amount.
LEMMA HeldNat ==
  ASSUME TypeOK, NEW w \in Wallets
  PROVE  /\ \A a \in Auths : HeldOf(w)[a] \in Nat
         /\ SumOver(HeldOf(w), Auths) \in Nat
         /\ Committed(w) \in Nat
<1>1. \A a \in Auths : HeldOf(w)[a] \in Nat
  BY DEF TypeOK, HeldOf, CommitmentRows
<1>2. SumOver(HeldOf(w), Auths) \in Nat
  BY <1>1, SumNat, FiniteAssumption DEF FiniteAssumption
<1>3. QED
  BY <1>1, <1>2 DEF Committed, TypeOK

\* The product of two positive amounts is positive.
LEMMA ProductPositive ==
  ASSUME NEW m \in Nat \ {0}, NEW n \in Nat \ {0}
  PROVE  m * n \in Nat \ {0}
OBVIOUS

\* A grant is a positive amount that fits in what is free.
LEMMA GrantFits ==
  ASSUME TypeOK, NEW r \in IssueRequests, Grantable(r) > 0
  PROVE  /\ Grantable(r) \in Nat \ {0}
         /\ Committed(r.wallet) + Grantable(r) <= balance[r.wallet]
<1>1. r.wallet \in Wallets /\ r.wallet \in Accounts
  BY RequestFields DEF Accounts
<1>2. Committed(r.wallet) \in Nat
  BY <1>1, HeldNat
<1>3. balance[r.wallet] \in Nat
  BY <1>1 DEF TypeOK
<1>4. r.maxPayment * r.maxPayments \in Nat \ {0}
  BY RequestFields, ProductPositive
<1>5. QED
  BY <1>2, <1>3, <1>4 DEF Grantable

\* The receipts claimed on an authorization are worth an amount.
LEMMA IssuedTotalNat ==
  ASSUME TypeOK, NEW a \in Auths
  PROVE  IssuedTotal(a) \in Nat
<1>1. ClaimsOn(a) \subseteq Evidence
  BY DEF TypeOK, ClaimsOn
<1>2. IsFiniteSet(ClaimsOn(a))
  BY <1>1, FS_Subset, FiniteAssumption DEF FiniteAssumption
<1>3. \A e \in ClaimsOn(a) : Amounts[e] \in Nat
  BY <1>1, EvidenceFields DEF Amounts
<1>4. QED
  BY <1>2, <1>3, SumNat DEF IssuedTotal

\* A frame of a thread holds a request or a receipt with its ack.
LEMMA FrameFields ==
  ASSUME TypeOK, NEW t \in Threads
  PROVE  /\ handler[t].kind = "topup" => handler[t].req \in TopupRequests
         /\ handler[t].kind = "issue" => handler[t].req \in IssueRequests
         /\ handler[t].kind = "insufficient" => handler[t].ev \in Evidence /\ handler[t].ack \in Nat
BY DEF TypeOK, Frames, Idle

\* Moving cents between two accounts leaves amounts, when the payer has them.
LEMMA TransferNat ==
  ASSUME NEW f \in [Accounts -> Nat], NEW w \in Wallets, NEW n \in Nat, f[w] >= n
  PROVE  /\ Transfer(f, w, n) \in [Accounts -> Nat]
         /\ Transfer(f, w, n)[w] = f[w] - n
         /\ \A v \in Wallets \ {w} : Transfer(f, w, n)[v] = f[v]
BY WalletsAssumption DEF WalletsAssumption, Accounts, Transfer

\* The table of payments keeps its type when the row of one operation is replaced
\* by a row of that operation.
LEMMA RowReplaced ==
  ASSUME TypeOK, NEW op \in Ops, NEW row \in PaymentRows, row.ev.op = op
  PROVE  LET p == [payment EXCEPT ![op] = row] IN
         /\ p \in [Ops -> PaymentRows \cup {NoRow}]
         /\ \A o \in Ops : p[o] # NoRow => p[o].ev.op = o
BY DEF TypeOK, Known

\* So it does in each of the two ways a submission rewrites a row.
LEMMA RowTypes ==
  ASSUME TypeOK, NEW e \in Evidence, NEW ack \in Nat,
         NEW st \in {"PENDING_EVIDENCE", "PENDING_REVIEW", "ACCEPTED"},
         NEW p \in {WithState(e, ack, st), WithAck(e, ack, st)}
  PROVE  /\ p \in [Ops -> PaymentRows \cup {NoRow}]
         /\ \A op \in Ops : p[op] # NoRow => p[op].ev.op = op
<1> DEFINE old == payment[e.op]
           marked == [old EXCEPT !.state = st]
           acked == Row(st, e, IF old = NoRow \/ old.ack = NoAck THEN ack ELSE old.ack)
<1>1. e.op \in Ops
  BY EvidenceFields
<1>2. old # NoRow => old \in PaymentRows /\ old.ev.op = e.op
  BY <1>1 DEF TypeOK, Known
<1>3. Row(st, e, ack) \in PaymentRows /\ Row(st, e, ack).ev.op = e.op
  BY DEF Row, PaymentRows
<1>4. old # NoRow => marked \in PaymentRows /\ marked.ev.op = e.op
  BY <1>2 DEF PaymentRows
<1>5. old.ack = NoAck \/ old = NoRow \/ old.ack \in Nat
  BY <1>2 DEF PaymentRows
<1>6. acked \in PaymentRows /\ acked.ev.op = e.op
  BY <1>5 DEF Row, PaymentRows
<1>7. CASE p = WithAck(e, ack, st)
  <2>1. p = [payment EXCEPT ![e.op] = acked]
    BY <1>1, <1>7 DEF WithAck, TypeOK
  <2>2. QED
    BY <1>1, <1>6, <2>1, RowReplaced
<1>8. CASE p = WithState(e, ack, st)
  <2>1. p = [payment EXCEPT ![e.op] = IF old = NoRow THEN Row(st, e, ack) ELSE marked]
    BY <1>1, <1>8 DEF WithState, TypeOK
  <2>2. QED
    BY <1>1, <1>3, <1>4, <2>1, RowReplaced
<1>9. QED
  BY <1>7, <1>8

Phases == {"OPEN", "SEALED", "SETTLED"}

\* A commitment row keeps its type when it is issued,
LEMMA IssuedRowType ==
  ASSUME NEW c \in CommitmentRows, NEW n \in Nat
  PROVE  [c EXCEPT !.reserved = n, !.held = n] \in CommitmentRows
BY DEF CommitmentRows

\* when it is closed,
LEMMA SealedRowType ==
  ASSUME NEW c \in CommitmentRows, NEW u \in Nat, NEW h \in Nat, NEW phase \in Phases,
         NEW m \in SUBSET Evidence
  PROVE  [c EXCEPT !.closed = TRUE, !.manifest = m, !.unissued = u, !.held = h, !.phase = phase]
           \in CommitmentRows
BY DEF CommitmentRows, Phases

\* and when it is migrated.
LEMMA MigratedRowType ==
  ASSUME NEW c \in CommitmentRows, NEW h \in Nat, NEW phase \in Phases
  PROVE  [c EXCEPT !.held = h, !.phase = phase] \in CommitmentRows
BY DEF CommitmentRows, Phases

\* The columns of a commitment row.
LEMMA CommitmentFields ==
  ASSUME NEW c \in CommitmentRows
  PROVE  /\ c.reserved \in Nat /\ c.emitted \in Nat /\ c.count \in Nat /\ c.held \in Nat
         /\ c.unissued \in Nat /\ c.closed \in BOOLEAN /\ c.manifest \subseteq Evidence
         /\ c.phase \in Phases
BY DEF CommitmentRows, Phases

\* A row keeps its type when it pays what it holds.
LEMMA EmittedRowType ==
  ASSUME NEW c \in CommitmentRows, NEW n \in Nat, c.held >= n
  PROVE  Emit(c, n) \in CommitmentRows
<1> DEFINE k == c.emitted + n
           l == c.count + 1
           h == c.held - n
           phase == IF c.closed /\ c.held = n THEN "SETTLED" ELSE c.phase
<1>1. k \in Nat /\ l \in Nat /\ h \in Nat /\ phase \in Phases
  BY CommitmentFields DEF Phases
<1>2. Emit(c, n) = [c EXCEPT !.emitted = k, !.count = l, !.held = h, !.phase = phase]
  BY DEF Emit
<1> HIDE DEF k, l, h, phase
<1>3. [c EXCEPT !.emitted = k, !.count = l, !.held = h, !.phase = phase] \in CommitmentRows
  BY <1>1 DEF CommitmentRows, Phases
<1>4. QED
  BY <1>2, <1>3

\* Claims and flags keep their type.
LEMMA ClaimTypes ==
  ASSUME TypeOK, NEW e \in Evidence, NEW w, NEW b \in BOOLEAN
  PROVE  /\ ClaimsWith(e) \subseteq Evidence
         /\ Flag(w, b) \in [Wallets -> BOOLEAN]
BY DEF TypeOK, ClaimsWith, Flag

\* The panel's balance has no check of its own when a payment debits it: it is
\* an amount because it equals the balance that is checked.
PanelAgrees == saldo = balance

TypeInv == TypeOK /\ PanelAgrees

\* The tables start with rows of their type.
LEMMA TypeInit == Init => TypeInv
BY WalletsAssumption
   DEF TypeInv, PanelAgrees, Init, TypeOK, WalletsAssumption, AuthRows, NoAuth, Requests, CommitmentRows, NoCommitment,
       Known, Frames

\* Every step of the handlers and of the environment keeps the types.
LEMMA TypeStep == TypeInv /\ [Next]_vars => TypeInv'
<1> SUFFICES ASSUME TypeOK, PanelAgrees, [Next]_vars PROVE TypeInv'
  BY DEF TypeInv
<1> USE DEF TypeInv, PanelAgrees, TypeOK, Known, money, evidenceTables
<1>1. ASSUME NEW t \in Threads, NEW r \in TopupRequests, TopupRead(t, r) PROVE TypeInv'
  BY <1>1 DEF TopupRead, Frames
<1>2. ASSUME NEW t \in Threads, TopupCommit(t) PROVE TypeInv'
  <2> DEFINE r == handler[t].req
  <2>1. r \in TopupRequests /\ r.wallet \in Accounts /\ r.amount \in Nat
    BY <1>2, FrameFields, RequestFields DEF TopupCommit, Accounts
  <2>2. handler' \in [Threads -> Frames]
    BY <1>2 DEF TopupCommit, Frames
  <2>3. CASE TopupKeyFree(r)
    <3>1. balance' \in [Accounts -> Nat] /\ saldo' \in [Accounts -> Nat]
      BY <1>2, <2>1, <2>3 DEF TopupCommit
    <3>2. QED
      BY <1>2, <2>1, <2>2, <2>3, <3>1 DEF TopupCommit
  <2>4. CASE ~TopupKeyFree(r)
    BY <1>2, <2>2, <2>4 DEF TopupCommit
  <2>5. QED
    BY <2>3, <2>4
<1>3. ASSUME NEW t \in Threads, NEW r \in IssueRequests, IssueRead(t, r) PROVE TypeInv'
  BY <1>3 DEF IssueRead, Frames
<1>4. ASSUME NEW t \in Threads, IssueGrant(t) PROVE TypeInv'
  <2> DEFINE r == handler[t].req
  <2>1. r \in IssueRequests /\ Grantable(r) \in Nat
    BY <1>4, FrameFields, GrantFits DEF IssueGrant, GrantAllowed
  <2>2. r.maxPayments \in Nat
    BY <2>1, RequestFields
  <2>3. PICK a \in Auths :
          /\ auth' = [auth EXCEPT ![a] = [req |-> r, remaining |-> Grantable(r),
                                          payments |-> r.maxPayments, active |-> TRUE]]
          /\ commitment' = [commitment EXCEPT ![a].reserved = Grantable(r), ![a].held = Grantable(r)]
    BY <1>4 DEF IssueGrant
  <2>4. auth' \in [Auths -> AuthRows]
    BY <2>1, <2>2, <2>3 DEF AuthRows, Requests
  <2>5. commitment' \in [Auths -> CommitmentRows]
    <3>1. commitment[a] \in CommitmentRows
      OBVIOUS
    <3>2. [commitment[a] EXCEPT !.reserved = Grantable(r), !.held = Grantable(r)] \in CommitmentRows
      BY <2>1, <3>1, IssuedRowType
    <3>3. commitment' =
            [commitment EXCEPT ![a] = [commitment[a] EXCEPT !.reserved = Grantable(r), !.held = Grantable(r)]]
      BY <2>3
    <3>4. QED
      BY <3>2, <3>3
  <2>6. handler' \in [Threads -> Frames]
    BY <1>4 DEF IssueGrant, Frames
  <2>7. QED
    BY <1>4, <2>4, <2>5, <2>6 DEF IssueGrant
<1>5. ASSUME NEW t \in Threads, IssueRefuse(t) PROVE TypeInv'
  BY <1>5 DEF IssueRefuse, Frames
<1>6. ASSUME NEW t \in Threads, NEW e \in Evidence, NEW ack \in AckTimes[e] \cup {NoAck},
             Submit(t, e, ack)
      PROVE  TypeInv'
  <2>1. /\ ack \in Nat /\ e.op \in Ops /\ e.auth \in Auths /\ e.amount \in Nat
    BY EvidenceFields
  <2>2. ASSUME BooksUnchanged, UNCHANGED handler,
               NEW b \in BOOLEAN, review' = Flag(Owner(e.auth), b), claims' = ClaimsWith(e),
               payment' \in {WithState(e, ack, "PENDING_REVIEW"), WithAck(e, ack, "PENDING_REVIEW")}
        PROVE  TypeInv'
    <3>1. /\ payment' \in [Ops -> PaymentRows \cup {NoRow}]
          /\ \A op \in Ops : payment'[op] # NoRow => payment'[op].ev.op = op
      BY <2>1, <2>2, RowTypes
    <3>2. claims' \subseteq Evidence /\ review' \in [Wallets -> BOOLEAN]
      BY <2>2, ClaimTypes
    <3>3. QED
      BY <2>2, <3>1, <3>2 DEF BooksUnchanged
  <2>3. CASE SubmitOmitted(e, ack)
    BY <2>2, <2>3 DEF SubmitOmitted
  <2>4. CASE SubmitOnHold(e, ack)
    BY <2>2, <2>4 DEF SubmitOnHold, Collides
  <2>5. CASE SubmitContested(e, ack)
    BY <2>2, <2>5 DEF SubmitContested
  <2>6. CASE SubmitAccepted(e, ack)
    <3>1. Issued(e.auth)
      BY <2>6 DEF SubmitAccepted, Ready, Processable, Valid
    <3>2. Owner(e.auth) \in Wallets /\ Owner(e.auth) \in Accounts
      BY <2>1, <3>1, OwnerIsWallet
    <3>3. balance' \in [Accounts -> Nat] /\ saldo' = balance'
      BY <2>1, <2>6, <3>2, TransferNat DEF SubmitAccepted, Applicable
    <3>4. /\ payment' \in [Ops -> PaymentRows \cup {NoRow}]
          /\ \A op \in Ops : payment'[op] # NoRow => payment'[op].ev.op = op
      BY <2>1, <2>6, RowTypes DEF SubmitAccepted
    <3>5. auth' \in [Auths -> AuthRows]
      BY <2>1, <2>6 DEF SubmitAccepted, Applicable, AuthRows
    <3>6. Emit(commitment[e.auth], e.amount) \in CommitmentRows
      <4>1. commitment[e.auth] \in CommitmentRows /\ commitment[e.auth].held >= e.amount
        BY <2>1, <2>6 DEF SubmitAccepted, Applicable
      <4>2. QED
        BY <2>1, <4>1, EmittedRowType
    <3>7. commitment' \in [Auths -> CommitmentRows]
      BY <2>1, <2>6, <3>6 DEF SubmitAccepted
    <3>8. ledger' \subseteq LedgerRows
      BY <2>1, <2>6, <3>2 DEF SubmitAccepted, Entries, LedgerRows, Accounts
    <3>9. claims' \subseteq Evidence /\ emissions' \subseteq Evidence /\ resolution' \subseteq Ops
      BY <2>1, <2>6, ClaimTypes DEF SubmitAccepted
    <3>10. QED
      BY <2>6, <3>3, <3>4, <3>5, <3>7, <3>8, <3>9 DEF SubmitAccepted
  <2>7. CASE SubmitInsufficient(t, e, ack)
    BY <2>1, <2>7 DEF SubmitInsufficient, Frames
  <2>8. QED
    BY <1>6, <2>3, <2>4, <2>5, <2>6, <2>7 DEF Submit
<1>7. ASSUME NEW e \in Evidence, SubmitReceipt(e) PROVE TypeInv'
  <2> DEFINE p == WithAck(e, NoAck, "PENDING_EVIDENCE")
  <2>1. /\ p \in [Ops -> PaymentRows \cup {NoRow}]
        /\ \A op \in Ops : p[op] # NoRow => p[op].ev.op = op
    <3>1. NoAck \in Nat
      OBVIOUS
    <3>2. p \in {WithState(e, NoAck, "PENDING_EVIDENCE"), WithAck(e, NoAck, "PENDING_EVIDENCE")}
      OBVIOUS
    <3> HIDE DEF p
    <3>3. QED
      BY <3>1, <3>2, RowTypes
  <2>2. claims' \subseteq Evidence
    BY <1>7, ClaimTypes DEF SubmitReceipt
  <2>3. QED
    BY <1>7, <2>1, <2>2 DEF SubmitReceipt, BooksUnchanged
<1>8. ASSUME NEW t \in Threads, InsufficientCommit(t) PROVE TypeInv'
  <2> DEFINE e == handler[t].ev
             old == payment[e.op]
             row == IF old = NoRow THEN Row("PENDING_REVIEW", e, handler[t].ack)
                    ELSE [old EXCEPT !.state = "PENDING_REVIEW", !.ack = handler[t].ack]
  <2>1. e \in Evidence /\ handler[t].ack \in Nat
    BY <1>8, FrameFields DEF InsufficientCommit
  <2>2. e.op \in Ops
    BY <2>1, EvidenceFields
  <2>3. old # NoRow => old \in PaymentRows /\ old.ev.op = e.op
    BY <2>2
  <2>4. row \in PaymentRows /\ row.ev.op = e.op
    BY <2>1, <2>3 DEF Row, PaymentRows
  <2>5. payment' = [payment EXCEPT ![e.op] = row]
    BY <1>8, <2>2 DEF InsufficientCommit
  <2>6. /\ payment' \in [Ops -> PaymentRows \cup {NoRow}]
        /\ \A op \in Ops : payment'[op] # NoRow => payment'[op].ev.op = op
    BY <2>2, <2>4, <2>5, RowReplaced
  <2>7. claims' \subseteq Evidence /\ review' \in [Wallets -> BOOLEAN]
    BY <1>8, <2>1, ClaimTypes DEF InsufficientCommit
  <2>8. handler' \in [Threads -> Frames]
    BY <1>8 DEF InsufficientCommit, Frames
  <2>9. QED
    BY <1>8, <2>6, <2>7, <2>8 DEF InsufficientCommit, BooksUnchanged
<1>9. ASSUME NEW a \in Auths, Close(a) PROVE TypeInv'
  <2> DEFINE c == commitment[a]
  <2>1. IssuedTotal(a) \in Nat /\ ClaimsOn(a) \subseteq Evidence
    BY IssuedTotalNat DEF ClaimsOn
  <2>2. Seal(c, ClaimsOn(a), IssuedTotal(a)) \in CommitmentRows
    <3> DEFINE unissued == c.reserved - IssuedTotal(a)
               rest == c.held - unissued
    <3>1. c \in CommitmentRows
      OBVIOUS
    <3>2. unissued \in Nat /\ rest \in Nat
      BY <1>9, <2>1, <3>1, CommitmentFields DEF Close, Closable, ManifestSound, BooksAgree
    <3>3. (IF rest = 0 THEN "SETTLED" ELSE "SEALED") \in Phases
      BY DEF Phases
    <3>4. QED
      BY <2>1, <3>1, <3>2, <3>3, SealedRowType DEF Seal
  <2>3. commitment' \in [Auths -> CommitmentRows]
    BY <1>9, <2>2 DEF Close
  <2>4. auth' \in [Auths -> AuthRows]
    BY <1>9 DEF Close, AuthRows
  <2>5. QED
    BY <1>9, <2>3, <2>4 DEF Close
<1>10. ASSUME NEW a \in Auths, CloseRevoked(a) \/ CloseContested(a) PROVE TypeInv'
  <2>1. review' = Flag(Owner(a), TRUE)
    BY <1>10 DEF CloseRevoked, CloseContested
  <2>2. review' \in [Wallets -> BOOLEAN]
    BY <2>1 DEF Flag
  <2>3. QED
    BY <1>10, <2>2 DEF CloseRevoked, CloseContested
<1>11. ASSUME NEW p \in LegacyPayments, LegacyAccept(p) PROVE TypeInv'
  <2>1. p.wallet \in Wallets /\ p.wallet \in Accounts /\ p.amount \in Nat
    BY RequestFields DEF Accounts
  <2>2. balance' \in [Accounts -> Nat] /\ saldo' = balance'
    BY <1>11, <2>1, TransferNat DEF LegacyAccept
  <2>3. ledger' \subseteq LedgerRows
    BY <1>11, <2>1 DEF LegacyAccept, Entries, LedgerRows, Accounts
  <2>4. legacy' \in [Wallets -> Nat]
    BY <1>11, <2>1 DEF LegacyAccept
  <2>5. QED
    BY <1>11, <2>2, <2>3, <2>4 DEF LegacyAccept
<1>12. ASSUME NEW k \in Keys, NEW date \in RevocationTimes, Revoke(k, date) PROVE TypeInv'
  BY <1>12, RequestsAssumption DEF Revoke, RequestsAssumption
<1>13. ASSUME NEW t \in Threads, Abandon(t) PROVE TypeInv'
  BY <1>13 DEF Abandon, Frames
<1>14. CASE Restart
  <2>1. \A c \in CommitmentRows : Migrated(c) \in CommitmentRows
    <3> SUFFICES ASSUME NEW c \in CommitmentRows PROVE Migrated(c) \in CommitmentRows
      OBVIOUS
    <3> DEFINE held == IF c.held = 0 /\ c.reserved >= c.emitted /\ c.unissued = 0
                       THEN c.reserved - c.emitted ELSE c.held
               phase == IF c.phase = "SETTLED" THEN c.phase
                        ELSE IF c.closed THEN "SEALED" ELSE "OPEN"
    <3>1. held \in Nat /\ phase \in Phases
      BY CommitmentFields DEF Phases
    <3>2. QED
      BY <3>1, MigratedRowType DEF Migrated
  <2>2. commitment' \in [Auths -> CommitmentRows]
    BY <1>14, <2>1 DEF Restart
  <2>3. BackfilledClaims \subseteq Evidence
    BY DEF BackfilledClaims, PaymentRows
  <2>4. review' \in [Wallets -> BOOLEAN]
    BY <1>14 DEF Restart, DuplicateIndices
  <2>5. handler' \in [Threads -> Frames]
    BY <1>14 DEF Restart, Frames
  <2>6. QED
    BY <1>14, <2>2, <2>3, <2>4, <2>5 DEF Restart
<1>15. CASE UNCHANGED vars
  BY <1>15 DEF vars
<1>16. QED
  BY <1>1, <1>2, <1>3, <1>4, <1>5, <1>6, <1>7, <1>8, <1>9, <1>10, <1>11, <1>12, <1>13, <1>14, <1>15
     DEF Next

\* Every table keeps its columns and ranges, for every set of wallets, receipts,
\* requests and threads (models.py).
THEOREM TypeCorrect == Spec => []TypeOK
<1>1. TypeInv => TypeOK
  BY DEF TypeInv
<1>2. QED
  BY <1>1, TypeInit, TypeStep, PTL DEF Spec

----------------------------------------------------------------------------
(* Conservation and cover.  The invariant adds to the two properties that an *)
(* authorization that was not issued has blank rows: its identifier is what  *)
(* the next grant takes.                                                     *)

Fresh == \A a \in Auths : ~Issued(a) => auth[a] = NoAuth /\ commitment[a] = NoCommitment

IInv == TypeInv /\ Fresh /\ Conservation /\ EscrowCovered /\ OneGrantPerRequest

\* The steps that touch the budgets; every other one leaves all four tables alone.
LEMMA BudgetSteps ==
  ASSUME [Next]_vars
  PROVE  \/ UNCHANGED <<balance, auth, commitment, legacy>>
         \/ \E t \in Threads : TopupCommit(t) /\ TopupKeyFree(handler[t].req)
         \/ \E t \in Threads : IssueGrant(t)
         \/ \E e \in Evidence : \E ack \in AckTimes[e] \cup {NoAck} : SubmitAccepted(e, ack)
         \/ \E a \in Auths : Close(a)
         \/ \E p \in LegacyPayments : LegacyAccept(p)
         \/ Restart
<1> USE DEF money, evidenceTables, BooksUnchanged
<1>1. ASSUME NEW t \in Threads, NEW e \in Evidence, NEW ack \in AckTimes[e] \cup {NoAck},
             Submit(t, e, ack), ~SubmitAccepted(e, ack)
      PROVE  UNCHANGED <<balance, auth, commitment, legacy>>
  BY <1>1 DEF Submit, SubmitOmitted, SubmitOnHold, SubmitContested, SubmitInsufficient
<1>2. ASSUME NEW t \in Threads, TopupCommit(t), ~TopupKeyFree(handler[t].req)
      PROVE  UNCHANGED <<balance, auth, commitment, legacy>>
  BY <1>2 DEF TopupCommit
<1>3. CASE UNCHANGED vars
  BY <1>3 DEF vars
<1>4. CASE Next
  BY <1>1, <1>2, <1>4
     DEF Next, TopupRead, IssueRead, IssueRefuse, SubmitReceipt, InsufficientCommit,
         CloseRevoked, CloseContested, Revoke, Abandon
<1>5. QED
  BY <1>3, <1>4

\* What an accepted payment finds: an issued authorization of a client wallet
\* whose budget and balance have the amount.
LEMMA AcceptedFinds ==
  ASSUME TypeOK, NEW e \in Evidence, NEW ack, SubmitAccepted(e, ack)
  PROVE  /\ e.auth \in Auths /\ Issued(e.auth) /\ e.amount \in Nat \ {0}
         /\ Owner(e.auth) \in Wallets /\ Owner(e.auth) # Merchant
         /\ auth[e.auth].remaining >= e.amount
         /\ commitment[e.auth].held >= e.amount
         /\ balance[Owner(e.auth)] >= e.amount
<1>1. e.auth \in Auths /\ Issued(e.auth) /\ e.amount \in Nat \ {0}
  BY EvidenceFields DEF SubmitAccepted, Ready, Processable, Valid
<1>2. QED
  BY <1>1, OwnerIsWallet DEF SubmitAccepted, Applicable

\* A restart leaves what a commitment holds and its totals: the migration fills
\* held_cents only where conservation already makes the rest zero.
LEMMA MigratedKeeps ==
  ASSUME TypeOK, Conservation, NEW a \in Auths
  PROVE  LET c == commitment[a] IN
         /\ Migrated(c).held = c.held /\ Migrated(c).reserved = c.reserved
         /\ Migrated(c).emitted = c.emitted /\ Migrated(c).unissued = c.unissued
         /\ Migrated(c).closed = c.closed /\ Migrated(c).manifest = c.manifest
         /\ Migrated(c).count = c.count
<1>1. commitment[a] \in CommitmentRows
  BY DEF TypeOK
<1>2. QED
  BY <1>1, CommitmentFields DEF Conservation, Migrated, CommitmentRows

\* Conservation starts true and every step keeps it.
LEMMA ConservationStep ==
  ASSUME TypeOK, Fresh, Conservation, [Next]_vars
  PROVE  Conservation' /\ Fresh'
<1> USE DEF Conservation, Fresh, Issued
<1>1. CASE UNCHANGED <<balance, auth, commitment, legacy>>
  BY <1>1
<1>2. ASSUME NEW t \in Threads, TopupCommit(t) PROVE Conservation' /\ Fresh'
  BY <1>2 DEF TopupCommit
<1>3. ASSUME NEW t \in Threads, IssueGrant(t) PROVE Conservation' /\ Fresh'
  <2> DEFINE r == handler[t].req
  <2>1. r \in IssueRequests /\ Grantable(r) \in Nat \ {0} /\ r # NoRequest
    BY <1>3, FrameFields, GrantFits, RequestsAssumption DEF IssueGrant, GrantAllowed, RequestsAssumption
  <2>2. PICK a \in Auths :
          /\ ~Issued(a)
          /\ auth' = [auth EXCEPT ![a] = [req |-> r, remaining |-> Grantable(r),
                                          payments |-> r.maxPayments, active |-> TRUE]]
          /\ commitment' = [commitment EXCEPT ![a].reserved = Grantable(r), ![a].held = Grantable(r)]
    BY <1>3 DEF IssueGrant
  <2>3. commitment[a] = NoCommitment
    BY <2>2
  <2>4. \A b \in Auths \ {a} : auth'[b] = auth[b] /\ commitment'[b] = commitment[b]
    BY <2>2 DEF TypeOK
  <2>5. /\ auth'[a].req = r /\ auth'[a].remaining = Grantable(r)
        /\ commitment'[a].reserved = Grantable(r) /\ commitment'[a].held = Grantable(r)
        /\ commitment'[a].emitted = 0 /\ commitment'[a].unissued = 0
    BY <2>2, <2>3 DEF TypeOK, NoCommitment
  <2>6. QED
    BY <2>1, <2>4, <2>5
<1>4. ASSUME NEW e \in Evidence, NEW ack \in AckTimes[e] \cup {NoAck}, SubmitAccepted(e, ack)
      PROVE  Conservation' /\ Fresh'
  <2> DEFINE a == e.auth
  <2>1. a \in Auths /\ Issued(a) /\ e.amount \in Nat
    BY <1>4, AcceptedFinds
  <2>2. \A b \in Auths \ {a} : auth'[b] = auth[b] /\ commitment'[b] = commitment[b]
    BY <1>4, <2>1 DEF SubmitAccepted, TypeOK
  <2>3. auth'[a].req = auth[a].req /\ auth'[a].remaining = auth[a].remaining - e.amount
    BY <1>4, <2>1 DEF SubmitAccepted, TypeOK, AuthRows
  <2>4. commitment'[a] = Emit(commitment[a], e.amount)
    BY <1>4, <2>1 DEF SubmitAccepted, TypeOK
  <2>5. /\ commitment[a] \in CommitmentRows
        /\ auth[a].remaining \in Nat
    BY <2>1 DEF TypeOK, AuthRows
  <2>6. /\ commitment'[a].reserved = commitment[a].reserved
        /\ commitment'[a].emitted = commitment[a].emitted + e.amount
        /\ commitment'[a].held = commitment[a].held - e.amount
        /\ commitment'[a].unissued = commitment[a].unissued
        /\ commitment'[a].closed = commitment[a].closed
    BY <2>4, <2>5 DEF Emit, CommitmentRows
  <2>7. QED
    BY <2>1, <2>2, <2>3, <2>5, <2>6, CommitmentFields
<1>5. ASSUME NEW a \in Auths, Close(a) PROVE Conservation' /\ Fresh'
  <2>1. \A b \in Auths \ {a} : auth'[b] = auth[b] /\ commitment'[b] = commitment[b]
    BY <1>5 DEF Close, TypeOK
  <2>2. auth'[a].req = auth[a].req /\ auth'[a].remaining = auth[a].remaining
    BY <1>5 DEF Close, TypeOK, AuthRows
  <2>3. commitment'[a] = Seal(commitment[a], ClaimsOn(a), IssuedTotal(a))
    BY <1>5 DEF Close, TypeOK
  <2>4. commitment[a] \in CommitmentRows /\ IssuedTotal(a) \in Nat /\ commitment[a].unissued = 0
    BY <1>5, IssuedTotalNat DEF TypeOK, Close, BooksAgree
  <2>5. /\ commitment'[a].reserved = commitment[a].reserved
        /\ commitment'[a].emitted = commitment[a].emitted
        /\ commitment'[a].unissued = commitment[a].reserved - IssuedTotal(a)
        /\ commitment'[a].held = commitment[a].held - (commitment[a].reserved - IssuedTotal(a))
        /\ commitment'[a].closed
    BY <2>3, <2>4 DEF Seal, CommitmentRows
  <2>6. QED
    BY <1>5, <2>1, <2>2, <2>4, <2>5, CommitmentFields DEF Close, Closable, ManifestSound
<1>6. ASSUME NEW p \in LegacyPayments, LegacyAccept(p) PROVE Conservation' /\ Fresh'
  BY <1>6 DEF LegacyAccept
<1>7. CASE Restart
  <2>1. UNCHANGED auth
    BY <1>7 DEF Restart
  <2>2. \A a \in Auths : commitment'[a] = IF Issued(a) THEN Migrated(commitment[a]) ELSE commitment[a]
    BY <1>7 DEF Restart
  <2>3. QED
    BY <2>1, <2>2, MigratedKeeps
<1>8. QED
  BY <1>1, <1>2, <1>3, <1>4, <1>5, <1>6, <1>7, BudgetSteps

\* When only the row of authorization a changes, the sum of what its owner's
\* commitments hold follows that row, and the other wallets' sums stay.
LEMMA HeldFollows ==
  ASSUME TypeOK, TypeOK', Fresh, NEW a \in Auths, Issued(a)',
         Issued(a) => auth'[a].req = auth[a].req,
         \A b \in Auths \ {a} : auth'[b].req = auth[b].req /\ commitment'[b].held = commitment[b].held,
         NEW w \in Wallets
  PROVE  SumOver(HeldOf(w), Auths)' =
           IF Owner(a)' = w
           THEN SumOver(HeldOf(w), Auths) - commitment[a].held + commitment'[a].held
           ELSE SumOver(HeldOf(w), Auths)
<1>1. \A b \in Auths : HeldOf(w)[b] \in Nat /\ HeldOf(w)'[b] \in Nat
  BY DEF TypeOK, HeldOf, CommitmentRows
<1>2. \A b \in Auths \ {a} : HeldOf(w)[b] = HeldOf(w)'[b]
  BY DEF HeldOf, Issued, Owner
<1>3. commitment[a].held \in Nat /\ commitment'[a].held \in Nat
  BY DEF TypeOK, CommitmentRows
<1>4. HeldOf(w)[a] = (IF Owner(a)' = w THEN commitment[a].held ELSE 0)
  BY DEF HeldOf, Issued, Owner, Fresh, NoCommitment
<1>5. HeldOf(w)'[a] = (IF Owner(a)' = w THEN commitment'[a].held ELSE 0)
  BY DEF HeldOf, Issued, Owner
<1>6. SumOver(HeldOf(w)', Auths) = SumOver(HeldOf(w), Auths) - HeldOf(w)[a] + HeldOf(w)'[a]
  BY <1>1, <1>2, SumUpdate, FiniteAssumption DEF FiniteAssumption
<1>7. SumOver(HeldOf(w), Auths) \in Nat
  BY HeldNat
<1>8. QED
  BY <1>3, <1>4, <1>5, <1>6, <1>7

\* When no row changes what it holds, no sum changes.
LEMMA HeldStays ==
  ASSUME \A a \in Auths : auth'[a].req = auth[a].req /\ commitment'[a].held = commitment[a].held,
         NEW w \in Wallets
  PROVE  SumOver(HeldOf(w), Auths)' = SumOver(HeldOf(w), Auths)
<1>1. \A a \in Auths : HeldOf(w)[a] = HeldOf(w)'[a]
  BY DEF HeldOf, Issued, Owner
<1>2. QED
  BY <1>1, SumSame

\* Every step keeps the cover of every wallet.
LEMMA CoverStep ==
  ASSUME TypeOK, TypeOK', Fresh, Conservation, EscrowCovered, [Next]_vars
  PROVE  EscrowCovered'
<1> SUFFICES ASSUME NEW w \in Wallets
             PROVE  Committed(w)' <= balance'[w]
  BY DEF EscrowCovered
<1> DEFINE held == SumOver(HeldOf(w), Auths)
           Goal == held' + legacy'[w] <= balance'[w]
<1>a. held \in Nat /\ legacy[w] \in Nat /\ balance[w] \in Nat /\ held + legacy[w] <= balance[w]
  BY HeldNat DEF EscrowCovered, Committed, TypeOK, Accounts
<1> HIDE DEF held
<1>1. ASSUME UNCHANGED <<balance, auth, commitment, legacy>> PROVE Goal
  BY <1>1, <1>a, HeldStays DEF held
<1>2. ASSUME NEW t \in Threads, TopupCommit(t), TopupKeyFree(handler[t].req)
      PROVE  Goal
  <2> DEFINE r == handler[t].req
  <2>1. r \in TopupRequests /\ r.wallet \in Accounts /\ r.amount \in Nat
    BY <1>2, FrameFields, RequestFields DEF TopupCommit, Accounts
  <2>2. balance' = [balance EXCEPT ![r.wallet] = @ + r.amount] /\ UNCHANGED <<auth, commitment, legacy>>
    BY <1>2 DEF TopupCommit
  <2>3. balance'[w] >= balance[w]
    BY <2>1, <2>2, <1>a DEF TypeOK, Accounts
  <2>4. balance'[w] \in Nat
    BY DEF TypeOK, Accounts
  <2>5. held' = held
    BY <2>2, HeldStays DEF held
  <2>6. QED
    BY <1>a, <2>2, <2>3, <2>4, <2>5
<1>3. ASSUME NEW t \in Threads, IssueGrant(t) PROVE Goal
  <2> DEFINE r == handler[t].req
             total == Grantable(r)
  <2>1. /\ r \in IssueRequests /\ total \in Nat \ {0}
        /\ Committed(r.wallet) + total <= balance[r.wallet]
    BY <1>3, FrameFields, GrantFits DEF IssueGrant, GrantAllowed
  <2>2. r # NoRequest
    BY <2>1, RequestsAssumption DEF RequestsAssumption
  <2> HIDE DEF total
  <2>3. PICK a \in Auths :
          /\ ~Issued(a)
          /\ auth' = [auth EXCEPT ![a] = [req |-> r, remaining |-> total,
                                          payments |-> r.maxPayments, active |-> TRUE]]
          /\ commitment' = [commitment EXCEPT ![a].reserved = total, ![a].held = total]
    BY <1>3 DEF IssueGrant, total
  <2>4. UNCHANGED <<balance, legacy>>
    BY <1>3 DEF IssueGrant, money
  <2>5. commitment[a] = NoCommitment /\ auth[a] = NoAuth
    BY <2>3 DEF Fresh
  <2>6. \A b \in Auths \ {a} : auth'[b].req = auth[b].req /\ commitment'[b].held = commitment[b].held
    BY <2>3 DEF TypeOK
  <2>7. auth'[a].req = r /\ commitment'[a].held = total /\ commitment[a].held = 0
    BY <2>3, <2>5 DEF TypeOK, NoCommitment
  <2>8. Issued(a)' /\ Owner(a)' = r.wallet
    BY <2>2, <2>7 DEF Issued, Owner
  <2>9. held' = IF r.wallet = w THEN held - 0 + total ELSE held
    BY <2>3, <2>6, <2>7, <2>8, HeldFollows DEF held
  <2>10. r.wallet = w => held + legacy[w] + total <= balance[w]
    BY <2>1 DEF Committed, held
  <2>11. QED
    BY <1>a, <2>1, <2>4, <2>9, <2>10
<1>4. ASSUME NEW e \in Evidence, NEW ack \in AckTimes[e] \cup {NoAck}, SubmitAccepted(e, ack)
      PROVE  Goal
  <2> DEFINE a == e.auth
             n == e.amount
  <2>1. /\ a \in Auths /\ Issued(a) /\ n \in Nat /\ Owner(a) \in Wallets
        /\ balance[Owner(a)] >= n
    BY <1>4, AcceptedFinds
  <2>2. \A b \in Auths \ {a} : auth'[b].req = auth[b].req /\ commitment'[b].held = commitment[b].held
    BY <1>4, <2>1 DEF SubmitAccepted, TypeOK
  <2>3. auth'[a].req = auth[a].req
    BY <1>4, <2>1 DEF SubmitAccepted, TypeOK, AuthRows
  <2>4. commitment'[a] = Emit(commitment[a], n) /\ commitment[a] \in CommitmentRows
    BY <1>4, <2>1 DEF SubmitAccepted, TypeOK
  <2>5. commitment'[a].held = commitment[a].held - n /\ commitment[a].held \in Nat
    BY <2>4 DEF Emit, CommitmentRows
  <2>6. Issued(a)' /\ Owner(a)' = Owner(a)
    BY <2>1, <2>3 DEF Issued, Owner
  <2>7. held' = IF Owner(a) = w THEN held - commitment[a].held + commitment'[a].held ELSE held
    BY <2>1, <2>2, <2>3, <2>6, HeldFollows DEF held
  <2>8. balance' = Transfer(balance, Owner(a), n) /\ UNCHANGED legacy
    BY <1>4 DEF SubmitAccepted
  <2> HIDE DEF n
  <2>9. balance'[w] = IF Owner(a) = w THEN balance[w] - n ELSE balance[w]
    <3>1. balance \in [Accounts -> Nat]
      BY DEF TypeOK
    <3>2. /\ Transfer(balance, Owner(a), n)[Owner(a)] = balance[Owner(a)] - n
          /\ \A v \in Wallets \ {Owner(a)} : Transfer(balance, Owner(a), n)[v] = balance[v]
      BY <2>1, <3>1, TransferNat
    <3>3. QED
      BY <2>8, <3>2
  <2>10. QED
    BY <1>a, <2>1, <2>5, <2>7, <2>8, <2>9
<1>5. ASSUME NEW a \in Auths, Close(a) PROVE Goal
  <2>1. Issued(a)
    BY <1>5 DEF Close, Closable, ManifestSound
  <2>2. \A b \in Auths \ {a} : auth'[b].req = auth[b].req /\ commitment'[b].held = commitment[b].held
    BY <1>5 DEF Close, TypeOK
  <2>3. auth'[a].req = auth[a].req
    BY <1>5 DEF Close, TypeOK, AuthRows
  <2>4. commitment'[a] = Seal(commitment[a], ClaimsOn(a), IssuedTotal(a))
    BY <1>5 DEF Close, TypeOK
  <2>5. /\ commitment[a] \in CommitmentRows /\ IssuedTotal(a) \in Nat
        /\ IssuedTotal(a) <= commitment[a].reserved
    BY <1>5, IssuedTotalNat DEF TypeOK, Close, Closable, ManifestSound
  <2>6. commitment'[a].held = commitment[a].held - (commitment[a].reserved - IssuedTotal(a))
    BY <2>4, <2>5 DEF Seal, CommitmentRows
  <2>7. Issued(a)' /\ Owner(a)' = Owner(a)
    BY <2>1, <2>3 DEF Issued, Owner
  <2>8. held' = IF Owner(a) = w THEN held - commitment[a].held + commitment'[a].held ELSE held
    BY <2>2, <2>3, <2>7, HeldFollows DEF held
  <2>9. UNCHANGED <<balance, legacy>>
    BY <1>5 DEF Close, money
  <2>10. commitment[a].held \in Nat /\ commitment[a].reserved \in Nat
    BY <2>5, CommitmentFields
  <2>11. QED
    BY <1>a, <2>5, <2>6, <2>8, <2>9, <2>10
<1>6. ASSUME NEW p \in LegacyPayments, LegacyAccept(p) PROVE Goal
  <2>1. /\ p.wallet \in Wallets /\ p.amount \in Nat /\ p.amount <= balance[p.wallet]
        /\ p.amount <= legacy[p.wallet]
    BY <1>6, RequestFields DEF LegacyAccept, TypeOK, Accounts
  <2>2. /\ balance' = Transfer(balance, p.wallet, p.amount)
        /\ legacy' = [legacy EXCEPT ![p.wallet] = @ - p.amount]
        /\ UNCHANGED <<auth, commitment>>
    BY <1>6 DEF LegacyAccept
  <2>3. balance'[w] = IF p.wallet = w THEN balance[w] - p.amount ELSE balance[w]
    BY <2>1, <2>2, TransferNat DEF TypeOK
  <2>4. legacy'[w] = IF p.wallet = w THEN legacy[w] - p.amount ELSE legacy[w]
    BY <2>1, <2>2 DEF TypeOK
  <2>5. held' = held
    BY <2>2, HeldStays DEF held
  <2>6. QED
    BY <1>a, <2>1, <2>3, <2>4, <2>5
<1>7. ASSUME Restart PROVE Goal
  <2>1. UNCHANGED <<auth, balance, legacy>>
    BY <1>7 DEF Restart, money
  <2>2. \A a \in Auths : commitment'[a].held = commitment[a].held
    BY <1>7, MigratedKeeps DEF Restart
  <2>3. held' = held
    BY <2>1, <2>2, HeldStays DEF held
  <2>4. QED
    BY <1>a, <2>1, <2>3
<1>8. Goal
  <2> HIDE DEF Goal
  <2>1. QED
    BY <1>1, <1>2, <1>3, <1>4, <1>5, <1>6, <1>7, BudgetSteps
<1>9. QED
  BY <1>8, Zenon DEF held, Committed

\* The request of an authorization changes only when the authorization is granted,
\* and a grant takes a request_id that no authorization has.
LEMMA RequestsStay ==
  ASSUME TypeOK, [Next]_vars
  PROVE  \/ \A a \in Auths : auth'[a].req = auth[a].req
         \/ \E t \in Threads, a \in Auths :
              /\ ~Issued(a) /\ ~RequestUsed(handler[t].req)
              /\ auth'[a].req = handler[t].req
              /\ \A b \in Auths \ {a} : auth'[b].req = auth[b].req
<1>1. CASE UNCHANGED <<balance, auth, commitment, legacy>>
  BY <1>1
<1>2. CASE \E t \in Threads : TopupCommit(t) /\ TopupKeyFree(handler[t].req)
  BY <1>2 DEF TopupCommit
<1>3. ASSUME NEW t \in Threads, IssueGrant(t)
      PROVE  \E a \in Auths :
              /\ ~Issued(a) /\ ~RequestUsed(handler[t].req)
              /\ auth'[a].req = handler[t].req
              /\ \A b \in Auths \ {a} : auth'[b].req = auth[b].req
  BY <1>3 DEF IssueGrant, GrantAllowed, TypeOK
<1>4. ASSUME NEW e \in Evidence, NEW ack \in AckTimes[e] \cup {NoAck}, SubmitAccepted(e, ack)
      PROVE  \A a \in Auths : auth'[a].req = auth[a].req
  BY <1>4 DEF SubmitAccepted, TypeOK, AuthRows
<1>5. ASSUME NEW a \in Auths, Close(a) PROVE \A b \in Auths : auth'[b].req = auth[b].req
  BY <1>5 DEF Close, TypeOK, AuthRows
<1>6. CASE \E p \in LegacyPayments : LegacyAccept(p)
  BY <1>6 DEF LegacyAccept
<1>7. CASE Restart
  BY <1>7 DEF Restart
<1>8. QED
  BY <1>1, <1>2, <1>3, <1>4, <1>5, <1>6, <1>7, BudgetSteps

\* No step gives a request_id a second authorization.
LEMMA OneGrantStep ==
  ASSUME TypeOK, OneGrantPerRequest, [Next]_vars
  PROVE  OneGrantPerRequest'
<1>1. CASE \A a \in Auths : auth'[a].req = auth[a].req
  BY <1>1 DEF OneGrantPerRequest, Issued
<1>2. ASSUME NEW t \in Threads, NEW a \in Auths,
             ~Issued(a), ~RequestUsed(handler[t].req), auth'[a].req = handler[t].req,
             \A b \in Auths \ {a} : auth'[b].req = auth[b].req
      PROVE  OneGrantPerRequest'
  BY <1>2 DEF OneGrantPerRequest, Issued, RequestUsed
<1>3. QED
  BY <1>1, <1>2, RequestsStay

\* The invariant holds at the start,
LEMMA InvariantInit == Init => IInv
<1> SUFFICES ASSUME Init PROVE IInv
  OBVIOUS
<1>1. TypeInv
  BY TypeInit
<1>2. \A a \in Auths : ~Issued(a) /\ auth[a] = NoAuth /\ commitment[a] = NoCommitment
  BY DEF Init, Issued, NoAuth
<1>3. Fresh /\ Conservation /\ OneGrantPerRequest
  <2>1. Fresh
    BY <1>2 DEF Fresh
  <2>2. Conservation
    BY <1>2 DEF Conservation, NoAuth, NoCommitment
  <2>3. OneGrantPerRequest
    BY <1>2 DEF OneGrantPerRequest
  <2>4. QED
    BY <2>1, <2>2, <2>3
<1>4. ASSUME NEW w \in Wallets PROVE Committed(w) <= balance[w]
  <2>1. Coins(HeldOf(w), Auths) = {}
    BY <1>2 DEF Coins, HeldOf
  <2>2. SumOver(HeldOf(w), Auths) = 0
    BY <2>1, FS_EmptySet DEF SumOver
  <2>3. QED
    BY <2>2, WalletsAssumption DEF Committed, Init, WalletsAssumption, Accounts
<1>5. QED
  BY <1>1, <1>3, <1>4 DEF IInv, EscrowCovered

\* and every step keeps it.
LEMMA InvariantStep == IInv /\ [Next]_vars => IInv'
<1> SUFFICES ASSUME IInv, [Next]_vars PROVE IInv'
  OBVIOUS
<1>1. TypeInv /\ TypeOK /\ Fresh /\ Conservation /\ EscrowCovered /\ OneGrantPerRequest
  BY DEF IInv, TypeInv
<1>2. TypeInv' /\ TypeOK'
  BY <1>1, TypeStep DEF TypeInv
<1>3. Conservation' /\ Fresh'
  BY <1>1, ConservationStep
<1>4. EscrowCovered'
  BY <1>1, <1>2, CoverStep
<1>5. OneGrantPerRequest'
  BY <1>1, OneGrantStep
<1>6. QED
  BY <1>2, <1>3, <1>4, <1>5 DEF IInv

\* Every reserved cent is emitted, held or released, in both tables, whatever the
\* order of issuances, payments, closures, crashes and migrations.
THEOREM ReservesAreConserved == Spec => []Conservation
<1>1. IInv => Conservation
  BY DEF IInv
<1>2. QED
  BY <1>1, InvariantInit, InvariantStep, PTL DEF Spec

\* The balance of every wallet covers what its commitments hold and its v2 budget:
\* no promise made to a merchant lacks its funds.
THEOREM EscrowIsCovered == Spec => []EscrowCovered
<1>1. IInv => EscrowCovered
  BY DEF IInv
<1>2. QED
  BY <1>1, InvariantInit, InvariantStep, PTL DEF Spec

\* A request_id obtains at most one authorization, although handlers look it up
\* before they take the lock.
THEOREM RequestsAreGrantedOnce == Spec => []OneGrantPerRequest
<1>1. IInv => OneGrantPerRequest
  BY DEF IInv
<1>2. QED
  BY <1>1, InvariantInit, InvariantStep, PTL DEF Spec

----------------------------------------------------------------------------
(* Evidence.  What is final and what is in dispute, in spite of outcomes     *)
(* that are written after the lock was dropped, and of restarts.             *)

Paid(op) == Known(op) /\ payment[op].state = "ACCEPTED"

\* Every stored receipt has its claim, on an authorization that was issued.
ClaimsComplete ==
    /\ \A c \in claims : Issued(c.auth)
    /\ \A op \in Ops : Known(op) => Issued(payment[op].ev.auth) /\ ClaimOf(payment[op].ev) # {}

\* A commitment is open until it is closed.
OpenUntilClosed == \A a \in Auths : (commitment[a].phase = "OPEN") <=> ~commitment[a].closed

\* An authorization that cannot pay e, and never will.
Exhausted(e) == commitment[e.auth].held < e.amount \/ auth[e.auth].payments = 0

\* A thread that is about to write that a payment was insufficient is still right:
\* the payment can no longer be made, and nobody made it.
InsufficientStays ==
    \A t \in Threads :
        handler[t].kind = "insufficient" =>
            LET e == handler[t].ev IN
            /\ Issued(e.auth) /\ Exhausted(e) /\ ~Paid(e.op)
            /\ handler[t].ack \in AckTimes[e]

EInv == IInv /\ ClaimsComplete /\ OpenUntilClosed /\ InsufficientStays /\ ContestedIndexReviewed

\* The first transaction of a submission, by the tables it writes.
Recorded(e) ==
    \E ack \in AckTimes[e] \cup {NoAck} :
        SubmitOmitted(e, ack) \/ SubmitOnHold(e, ack) \/ SubmitContested(e, ack)

Accepted(e) == \E ack \in AckTimes[e] \cup {NoAck} : SubmitAccepted(e, ack)

\* The steps that touch the evidence, its claims or the reviews.
LEMMA EvidenceSteps ==
  ASSUME [Next]_vars
  PROVE  \/ UNCHANGED <<payment, claims, emissions, review>>
         \/ \E e \in Evidence : Recorded(e) \/ Accepted(e) \/ SubmitReceipt(e)
         \/ \E t \in Threads : InsufficientCommit(t)
         \/ \E a \in Auths : CloseRevoked(a) \/ CloseContested(a)
         \/ Restart
<1> USE DEF evidenceTables
<1>1. ASSUME NEW t \in Threads, NEW e \in Evidence, NEW ack \in AckTimes[e] \cup {NoAck},
             Submit(t, e, ack)
      PROVE  Recorded(e) \/ Accepted(e) \/ UNCHANGED <<payment, claims, emissions, review>>
  BY <1>1 DEF Submit, SubmitInsufficient, Recorded, Accepted
<1>2. CASE UNCHANGED vars
  BY <1>2 DEF vars
<1>3. CASE Next
  BY <1>1, <1>3
     DEF Next, TopupRead, TopupCommit, IssueRead, IssueGrant, IssueRefuse, Close,
         LegacyAccept, Revoke, Abandon
<1>4. QED
  BY <1>2, <1>3

\* An authorization keeps the request it was issued for.
LEMMA IssuedStays ==
  ASSUME TypeOK, [Next]_vars, NEW a \in Auths, Issued(a)
  PROVE  Issued(a)' /\ auth'[a].req = auth[a].req /\ Owner(a)' = Owner(a)
<1>1. auth'[a].req = auth[a].req
  BY RequestsStay
<1>2. QED
  BY <1>1 DEF Issued, Owner

\* What a recorded submission writes.
LEMMA RecordedWrites ==
  ASSUME TypeOK, NEW e \in Evidence, Recorded(e)
  PROVE  /\ e.op \in Ops /\ e.auth \in Auths /\ Issued(e.auth) /\ ~Paid(e.op)
         /\ Known(e.op) => payment[e.op].ev = e
         /\ claims' = ClaimsWith(e)
         /\ payment'[e.op] # NoRow /\ payment'[e.op].ev = e
         /\ payment'[e.op].state = "PENDING_REVIEW"
         /\ \A op \in Ops \ {e.op} : payment'[op] = payment[op]
         /\ \A w \in Wallets : review[w] => review'[w]
         /\ Collides(e) /\ Owner(e.auth) \in Wallets => review'[Owner(e.auth)]
         /\ UNCHANGED <<auth, commitment, handler, emissions>>
<1>1. e.op \in Ops /\ e.auth \in Auths
  BY EvidenceFields
<1>2. PICK ack \in AckTimes[e] \cup {NoAck} :
        SubmitOmitted(e, ack) \/ SubmitOnHold(e, ack) \/ SubmitContested(e, ack)
  BY DEF Recorded
<1>3. Admissible(e, ack) /\ Valid(e, ack) /\ claims' = ClaimsWith(e)
  BY <1>2 DEF SubmitOmitted, SubmitOnHold, SubmitContested, Processable
<1>4. /\ Issued(e.auth) /\ ~Paid(e.op)
      /\ Known(e.op) => payment[e.op].ev = e
  BY <1>3 DEF Valid, Admissible, Paid
<1>5. UNCHANGED <<auth, commitment, handler, emissions>>
  BY <1>2 DEF SubmitOmitted, SubmitOnHold, SubmitContested, BooksUnchanged
<1>6. /\ \A w \in Wallets : review[w] => review'[w]
      /\ Collides(e) /\ Owner(e.auth) \in Wallets => review'[Owner(e.auth)]
  <2>1. PICK b \in BOOLEAN : (Collides(e) => b) /\ review' = Flag(Owner(e.auth), b)
    BY <1>2 DEF SubmitOmitted, SubmitOnHold, SubmitContested, Collides
  <2>2. QED
    BY <2>1 DEF Flag, TypeOK
<1>7. payment' \in {WithState(e, ack, "PENDING_REVIEW"), WithAck(e, ack, "PENDING_REVIEW")}
  BY <1>2 DEF SubmitOmitted, SubmitOnHold, SubmitContested
<1>8. \A op \in Ops \ {e.op} : payment'[op] = payment[op]
  BY <1>1, <1>7 DEF WithState, WithAck, TypeOK
<1>9. /\ payment'[e.op] # NoRow /\ payment'[e.op].ev = e
      /\ payment'[e.op].state = "PENDING_REVIEW"
  <2>1. CASE payment' = WithAck(e, ack, "PENDING_REVIEW")
    BY <1>1, <2>1 DEF WithAck, Row, NoRow, TypeOK
  <2>2. CASE payment' = WithState(e, ack, "PENDING_REVIEW") /\ ~Known(e.op)
    BY <1>1, <2>2 DEF WithState, Row, NoRow, TypeOK, Known
  <2>3. CASE payment' = WithState(e, ack, "PENDING_REVIEW") /\ Known(e.op)
    <3>1. payment[e.op] \in PaymentRows /\ payment[e.op].ev = e
      BY <1>1, <1>4, <2>3 DEF TypeOK, Known
    <3>2. payment'[e.op] = [payment[e.op] EXCEPT !.state = "PENDING_REVIEW"]
      BY <1>1, <2>3 DEF WithState, TypeOK, Known
    <3>3. QED
      BY <3>1, <3>2 DEF PaymentRows, NoRow
  <2>4. QED
    BY <1>7, <2>1, <2>2, <2>3
<1>10. QED
  BY <1>1, <1>3, <1>4, <1>5, <1>6, <1>8, <1>9

\* The same of a receipt that waits for its ack, and of a payment.
LEMMA ProcessedWrites ==
  ASSUME TypeOK, NEW e \in Evidence, SubmitReceipt(e) \/ Accepted(e)
  PROVE  /\ e.op \in Ops /\ e.auth \in Auths /\ Issued(e.auth) /\ ~Paid(e.op)
         /\ Known(e.op) => payment[e.op].ev = e
         /\ claims' = ClaimsWith(e) /\ ~Collides(e)
         /\ payment'[e.op] # NoRow /\ payment'[e.op].ev = e
         /\ SubmitReceipt(e) => payment'[e.op].state = "PENDING_EVIDENCE"
         /\ \A op \in Ops \ {e.op} : payment'[op] = payment[op]
         /\ UNCHANGED <<review, handler>>
<1>1. e.op \in Ops /\ e.auth \in Auths
  BY EvidenceFields
<1>2. PICK ack \in AckTimes[e] \cup {NoAck} :
        /\ Processable(e, ack) /\ ~Collides(e) /\ claims' = ClaimsWith(e)
        /\ UNCHANGED <<review, handler>>
        /\ \/ payment' = WithAck(e, ack, "ACCEPTED") /\ Accepted(e)
           \/ payment' = WithAck(e, ack, "PENDING_EVIDENCE")
        /\ SubmitReceipt(e) => payment' = WithAck(e, NoAck, "PENDING_EVIDENCE")
  <2>1. CASE SubmitReceipt(e)
    BY <2>1 DEF SubmitReceipt
  <2>2. CASE Accepted(e) /\ ~SubmitReceipt(e)
    BY <2>2 DEF Accepted, SubmitAccepted, Ready
  <2>3. QED
    BY <2>1, <2>2
<1>3. /\ Issued(e.auth) /\ ~Paid(e.op)
      /\ Known(e.op) => payment[e.op].ev = e
  BY <1>2 DEF Processable, Valid, Admissible, Paid
<1>4. /\ \A op \in Ops \ {e.op} : payment'[op] = payment[op]
      /\ payment'[e.op] # NoRow /\ payment'[e.op].ev = e
  BY <1>1, <1>2 DEF WithAck, Row, NoRow, TypeOK
<1>5. SubmitReceipt(e) => payment'[e.op].state = "PENDING_EVIDENCE"
  BY <1>1, <1>2 DEF WithAck, Row, TypeOK
<1>6. QED
  BY <1>1, <1>2, <1>3, <1>4, <1>5

\* And of the outcome that is written after the lock was dropped.
LEMMA InsufficientWrites ==
  ASSUME TypeOK, InsufficientStays, NEW t \in Threads, InsufficientCommit(t)
  PROVE  LET e == handler[t].ev IN
         /\ e \in Evidence /\ e.op \in Ops /\ e.auth \in Auths /\ Issued(e.auth) /\ ~Paid(e.op)
         /\ claims' = ClaimsWith(e)
         /\ payment'[e.op] # NoRow /\ payment'[e.op].state = "PENDING_REVIEW"
         /\ payment'[e.op].ev = IF Known(e.op) THEN payment[e.op].ev ELSE e
         /\ \A op \in Ops \ {e.op} : payment'[op] = payment[op]
         /\ \A w \in Wallets : review[w] => review'[w]
         /\ review'[Owner(e.auth)]
         /\ UNCHANGED <<auth, commitment, emissions>>
         /\ handler'[t] = Idle /\ \A u \in Threads \ {t} : handler'[u] = handler[u]
<1> DEFINE e == handler[t].ev
<1>1. e \in Evidence /\ e.op \in Ops /\ e.auth \in Auths
  BY FrameFields, EvidenceFields DEF InsufficientCommit
<1>2. Issued(e.auth) /\ ~Paid(e.op) /\ Owner(e.auth) \in Wallets
  BY <1>1, OwnerIsWallet DEF InsufficientCommit, InsufficientStays
<1>3. claims' = ClaimsWith(e) /\ UNCHANGED <<auth, commitment, emissions>>
  BY DEF InsufficientCommit, BooksUnchanged
<1>4. (\A w \in Wallets : review[w] => review'[w]) /\ review'[Owner(e.auth)]
  BY <1>2 DEF InsufficientCommit, Flag, TypeOK
<1>5. handler'[t] = Idle /\ \A u \in Threads \ {t} : handler'[u] = handler[u]
  BY DEF InsufficientCommit, TypeOK
<1>6. \A op \in Ops \ {e.op} : payment'[op] = payment[op]
  BY <1>1 DEF InsufficientCommit, TypeOK
<1>7. /\ payment'[e.op] # NoRow /\ payment'[e.op].state = "PENDING_REVIEW"
      /\ payment'[e.op].ev = IF Known(e.op) THEN payment[e.op].ev ELSE e
  <2>1. CASE Known(e.op)
    <3>1. payment[e.op] \in PaymentRows
      BY <1>1, <2>1 DEF TypeOK, Known
    <3>2. payment'[e.op] = [payment[e.op] EXCEPT !.state = "PENDING_REVIEW", !.ack = handler[t].ack]
      BY <1>1, <2>1 DEF InsufficientCommit, TypeOK, Known
    <3>3. QED
      BY <2>1, <3>1, <3>2 DEF PaymentRows, NoRow
  <2>2. CASE ~Known(e.op)
    BY <1>1, <2>2 DEF InsufficientCommit, TypeOK, Known, Row, NoRow
  <2>3. QED
    BY <2>1, <2>2
<1>8. QED
  BY <1>1, <1>2, <1>3, <1>4, <1>5, <1>6, <1>7

\* A claim that is recorded as contested flags its wallet: after the step no two
\* claims of one index belong to a wallet that is not in review.
LEMMA ClaimRecorded ==
  ASSUME TypeOK, [Next]_vars, ClaimsComplete, ContestedIndexReviewed,
         NEW e \in Evidence, Issued(e.auth), claims' = ClaimsWith(e),
         \A w \in Wallets : review[w] => review'[w],
         Collides(e) => review'[Owner(e.auth)]
  PROVE  ContestedIndexReviewed' /\ (\A c \in claims' : Issued(c.auth)')
<1>1. \A c \in claims' : c \in claims \/ (c = e /\ ClaimOf(e) = {})
  BY DEF ClaimsWith
<1>2. \A c \in claims' : c \in Evidence /\ c.auth \in Auths /\ Issued(c.auth)
  BY <1>1, EvidenceFields DEF ClaimsComplete, TypeOK
<1>3. \A c \in claims' : Issued(c.auth)' /\ Owner(c.auth)' = Owner(c.auth)
                         /\ Owner(c.auth) \in Wallets
  BY <1>2, IssuedStays, OwnerIsWallet
<1>4. ASSUME NEW c \in claims', NEW d \in claims',
             c.auth = d.auth, c.index = d.index, c.op # d.op
      PROVE  review'[Owner(c.auth)]
  <2>1. CASE c \in claims /\ d \in claims
    BY <1>3, <1>4, <2>1 DEF ContestedIndexReviewed
  <2>2. CASE c = e /\ d \in claims
    BY <1>4, <2>2 DEF Collides, IndexContested
  <2>3. CASE d = e /\ c \in claims
    BY <1>4, <2>3 DEF Collides, IndexContested
  <2>4. QED
    BY <1>1, <1>4, <2>1, <2>2, <2>3
<1>5. QED
  BY <1>3, <1>4 DEF ContestedIndexReviewed

\* A restart finds nothing to repair.
LEMMA RestartRepairsNothing ==
  ASSUME EInv, Restart
  PROVE  UNCHANGED <<commitment, claims, review>>
<1>0. TypeOK /\ Conservation /\ ClaimsComplete /\ OpenUntilClosed /\ ContestedIndexReviewed
  BY DEF EInv, IInv, TypeInv
<1>1. BackfilledClaims = claims
  BY <1>0 DEF BackfilledClaims, ClaimsComplete
<1>2. ASSUME NEW a \in Auths PROVE Migrated(commitment[a]) = commitment[a]
  <2> DEFINE c == commitment[a]
  <2>1. c \in CommitmentRows
    BY <1>0 DEF TypeOK
  <2>2. Migrated(c).held = c.held
    BY <1>0, MigratedKeeps
  <2>3. Migrated(c).phase = c.phase
    <3>1. c.phase = "OPEN" <=> ~c.closed
      BY <1>0 DEF OpenUntilClosed
    <3>2. Migrated(c).phase = IF c.phase = "SETTLED" THEN c.phase
                              ELSE IF c.closed THEN "SEALED" ELSE "OPEN"
      BY <2>1 DEF Migrated, CommitmentRows
    <3>3. QED
      BY <2>1, <3>1, <3>2, CommitmentFields DEF Phases
  <2>4. PICK h, phase : Migrated(c) = [c EXCEPT !.held = h, !.phase = phase]
    BY DEF Migrated
  <2>5. h = c.held /\ phase = c.phase
    BY <2>1, <2>2, <2>3, <2>4 DEF CommitmentRows
  <2>6. QED
    BY <2>1, <2>4, <2>5 DEF CommitmentRows
<1>3. commitment' = commitment
  <2>1. commitment' = [a \in Auths |-> commitment[a]]
    BY <1>2 DEF Restart
  <2>2. QED
    BY <1>0, <2>1 DEF TypeOK
<1>4. claims' = claims
  BY <1>1 DEF Restart
<1>5. ASSUME NEW w \in Wallets PROVE (review[w] \/ DuplicateIndices(w, claims)) = review[w]
  <2>1. DuplicateIndices(w, claims) => review[w]
    BY <1>0 DEF DuplicateIndices, ContestedIndexReviewed
  <2>2. review[w] \in BOOLEAN
    BY <1>0 DEF TypeOK
  <2>3. DuplicateIndices(w, claims) \in BOOLEAN
    BY DEF DuplicateIndices
  <2>4. QED
    BY <2>1, <2>2, <2>3
<1>6. review' = review
  <2>1. review' = [w \in Wallets |-> review[w]]
    BY <1>1, <1>5 DEF Restart
  <2>2. QED
    BY <1>0, <2>1 DEF TypeOK
<1>7. QED
  BY <1>3, <1>4, <1>6

\* The claims of stored receipts after a step that stores one receipt.
LEMMA ReceiptStored ==
  ASSUME TypeOK, [Next]_vars, ClaimsComplete,
         NEW e \in Evidence, e.op \in Ops, Issued(e.auth), claims' = ClaimsWith(e),
         payment'[e.op] # NoRow,
         payment'[e.op].ev = e \/ (Known(e.op) /\ payment'[e.op].ev = payment[e.op].ev),
         \A op \in Ops \ {e.op} : payment'[op] = payment[op]
  PROVE  \A op \in Ops : Known(op)' => Issued(payment[op].ev.auth)' /\ ClaimOf(payment[op].ev)' # {}
<1>1. claims \subseteq claims' /\ ClaimOf(e)' # {}
  <2>1. CASE ClaimOf(e) = {}
    BY <2>1 DEF ClaimsWith, ClaimOf
  <2>2. CASE ClaimOf(e) # {}
    BY <2>2 DEF ClaimsWith, ClaimOf
  <2>3. QED
    BY <2>1, <2>2
<1>2. ASSUME NEW op \in Ops, Known(op), payment'[op].ev = payment[op].ev
      PROVE  Issued(payment[op].ev.auth)' /\ ClaimOf(payment[op].ev)' # {}
  <2>1. payment[op].ev \in Evidence /\ Issued(payment[op].ev.auth) /\ ClaimOf(payment[op].ev) # {}
    BY <1>2 DEF ClaimsComplete, TypeOK, Known, PaymentRows
  <2>2. auth'[payment[op].ev.auth].req # NoRequest
    BY <2>1, IssuedStays, EvidenceFields DEF Issued
  <2>3. PICK c \in claims : c.auth = payment[op].ev.auth /\ c.op = payment[op].ev.op
    BY <2>1 DEF ClaimOf
  <2>4. QED
    BY <1>1, <1>2, <2>2, <2>3 DEF Issued, ClaimOf
<1>3. Issued(e.auth)'
  BY IssuedStays, EvidenceFields
<1>4. ASSUME NEW op \in Ops, Known(op)'
      PROVE  Issued(payment[op].ev.auth)' /\ ClaimOf(payment[op].ev)' # {}
  <2>1. CASE op = e.op /\ payment'[e.op].ev = e
    BY <1>1, <1>3, <2>1 DEF Issued, ClaimOf
  <2>2. CASE op = e.op /\ payment'[e.op].ev # e
    BY <1>2, <2>2
  <2>3. CASE op # e.op
    BY <1>2, <1>4, <2>3 DEF Known
  <2>4. QED
    BY <2>1, <2>2, <2>3
<1>5. QED
  BY <1>4

\* Every step keeps the claims complete and the contested indices in review.
LEMMA ClaimsStep ==
  ASSUME EInv, [Next]_vars
  PROVE  ClaimsComplete' /\ ContestedIndexReviewed'
<1> DEFINE Goal == ClaimsComplete' /\ ContestedIndexReviewed'
<1>0. TypeOK /\ ClaimsComplete /\ ContestedIndexReviewed /\ InsufficientStays
  BY DEF EInv, IInv, TypeInv
<1>a. \A c \in claims : c \in Evidence /\ c.auth \in Auths /\ Issued(c.auth)
  BY <1>0, EvidenceFields DEF ClaimsComplete, TypeOK
<1>b. \A c \in claims : Issued(c.auth)' /\ Owner(c.auth)' = Owner(c.auth)
                       /\ Owner(c.auth) \in Wallets
  BY <1>0, <1>a, IssuedStays, OwnerIsWallet
<1>1. ASSUME UNCHANGED <<payment, claims>>, \A w \in Wallets : review[w] => review'[w]
      PROVE  Goal
  <2>1. ContestedIndexReviewed'
    BY <1>0, <1>b, <1>1 DEF ContestedIndexReviewed
  <2>2. \A c \in claims' : Issued(c.auth)'
    BY <1>b, <1>1
  <2>3. ASSUME NEW op \in Ops, Known(op)'
        PROVE  Issued(payment[op].ev.auth)' /\ ClaimOf(payment[op].ev)' # {}
    <3>1. payment[op].ev \in Evidence /\ Issued(payment[op].ev.auth) /\ ClaimOf(payment[op].ev) # {}
      BY <1>0, <1>1, <2>3 DEF ClaimsComplete, TypeOK, Known, PaymentRows
    <3>2. auth'[payment[op].ev.auth].req # NoRequest
      BY <1>0, <3>1, IssuedStays, EvidenceFields DEF Issued
    <3>3. QED
      BY <1>1, <3>1, <3>2 DEF Issued, ClaimOf
  <2>4. QED
    BY <2>1, <2>2, <2>3 DEF ClaimsComplete
<1>2. ASSUME NEW e \in Evidence, e.op \in Ops, Issued(e.auth), claims' = ClaimsWith(e),
             payment'[e.op] # NoRow,
             payment'[e.op].ev = e \/ (Known(e.op) /\ payment'[e.op].ev = payment[e.op].ev),
             \A op \in Ops \ {e.op} : payment'[op] = payment[op],
             \A w \in Wallets : review[w] => review'[w],
             Collides(e) => review'[Owner(e.auth)]
      PROVE  Goal
  <2>1. ContestedIndexReviewed' /\ \A c \in claims' : Issued(c.auth)'
    BY <1>0, <1>2, ClaimRecorded
  <2>2. \A op \in Ops : Known(op)' => Issued(payment[op].ev.auth)' /\ ClaimOf(payment[op].ev)' # {}
    BY <1>0, <1>2, ReceiptStored
  <2>3. QED
    BY <2>1, <2>2 DEF ClaimsComplete
<1> HIDE DEF Goal
<1>3. ASSUME UNCHANGED <<payment, claims, emissions, review>> PROVE Goal
  BY <1>1, <1>3
<1>4. ASSUME NEW e \in Evidence, Recorded(e) PROVE Goal
  <2>1. Owner(e.auth) \in Wallets
    BY <1>0, <1>4, RecordedWrites, OwnerIsWallet
  <2>2. QED
    BY <1>0, <1>2, <1>4, <2>1, RecordedWrites
<1>5. ASSUME NEW e \in Evidence, SubmitReceipt(e) \/ Accepted(e) PROVE Goal
  BY <1>0, <1>2, <1>5, ProcessedWrites
<1>6. ASSUME NEW t \in Threads, InsufficientCommit(t) PROVE Goal
  <2> DEFINE e == handler[t].ev
  <2>1. /\ e \in Evidence /\ e.op \in Ops /\ Issued(e.auth)
        /\ claims' = ClaimsWith(e) /\ payment'[e.op] # NoRow
        /\ payment'[e.op].ev = IF Known(e.op) THEN payment[e.op].ev ELSE e
        /\ \A op \in Ops \ {e.op} : payment'[op] = payment[op]
        /\ \A w \in Wallets : review[w] => review'[w]
        /\ review'[Owner(e.auth)]
    BY <1>0, <1>6, InsufficientWrites
  <2> HIDE DEF e
  <2>2. QED
    BY <1>2, <2>1
<1>7. ASSUME NEW a \in Auths, CloseRevoked(a) \/ CloseContested(a) PROVE Goal
  <2>1. UNCHANGED <<payment, claims>> /\ review' = Flag(Owner(a), TRUE)
    BY <1>7 DEF CloseRevoked, CloseContested, evidenceTables
  <2>2. QED
    BY <1>0, <1>1, <2>1 DEF Flag, TypeOK
<1>8. ASSUME Restart PROVE Goal
  <2>1. UNCHANGED <<payment, claims, review>>
    BY <1>8, RestartRepairsNothing DEF Restart
  <2>2. QED
    BY <1>1, <2>1
<1>9. Goal
  BY <1>3, <1>4, <1>5, <1>6, <1>7, <1>8, EvidenceSteps
<1>10. QED
  BY <1>9 DEF Goal

\* Every step keeps a commitment open until its closure.
LEMMA OpenStep ==
  ASSUME EInv, [Next]_vars
  PROVE  OpenUntilClosed'
<1>0. TypeOK /\ OpenUntilClosed /\ TypeInv /\ TypeOK'
  BY TypeStep DEF EInv, IInv, TypeInv
<1>1. ASSUME UNCHANGED commitment PROVE OpenUntilClosed'
  BY <1>0, <1>1 DEF OpenUntilClosed
<1>2. ASSUME NEW a \in Auths, NEW c, commitment' = [commitment EXCEPT ![a] = c],
             c.phase = "OPEN" <=> ~c.closed
      PROVE  OpenUntilClosed'
  BY <1>0, <1>2 DEF OpenUntilClosed, TypeOK
<1>3. ASSUME NEW t \in Threads, IssueGrant(t) PROVE OpenUntilClosed'
  <2> DEFINE n == Grantable(handler[t].req)
  <2>1. PICK a \in Auths :
          commitment' = [commitment EXCEPT ![a].reserved = n, ![a].held = n]
    BY <1>3 DEF IssueGrant
  <2> HIDE DEF n
  <2> DEFINE c == [commitment[a] EXCEPT !.reserved = n, !.held = n]
  <2>2. commitment' = [commitment EXCEPT ![a] = c]
    BY <1>0, <2>1 DEF TypeOK
  <2>3. c.phase = commitment[a].phase /\ c.closed = commitment[a].closed
    BY <1>0 DEF TypeOK, CommitmentRows
  <2> HIDE DEF c
  <2>4. QED
    BY <1>0, <1>2, <2>2, <2>3 DEF OpenUntilClosed
<1>4. ASSUME NEW e \in Evidence, NEW ack \in AckTimes[e] \cup {NoAck}, SubmitAccepted(e, ack)
      PROVE  OpenUntilClosed'
  <2> DEFINE c == Emit(commitment[e.auth], e.amount)
  <2>1. e.auth \in Auths
    BY EvidenceFields
  <2>2. commitment' = [commitment EXCEPT ![e.auth] = c]
    BY <1>4 DEF SubmitAccepted
  <2>3. c.phase = "OPEN" <=> ~c.closed
    BY <1>0, <2>1 DEF TypeOK, CommitmentRows, Emit, OpenUntilClosed
  <2> HIDE DEF c
  <2>4. QED
    BY <1>2, <2>1, <2>2, <2>3
<1>5. ASSUME NEW a \in Auths, Close(a) PROVE OpenUntilClosed'
  <2> DEFINE c == Seal(commitment[a], ClaimsOn(a), IssuedTotal(a))
  <2>1. commitment' = [commitment EXCEPT ![a] = c]
    BY <1>5 DEF Close
  <2>2. c.phase = "OPEN" <=> ~c.closed
    BY <1>0 DEF TypeOK, CommitmentRows, Seal
  <2> HIDE DEF c
  <2>3. QED
    BY <1>2, <2>1, <2>2
<1>6. CASE Restart
  BY <1>1, <1>6, RestartRepairsNothing
<1>7. QED
  BY <1>1, <1>3, <1>4, <1>5, <1>6, BudgetSteps DEF TopupCommit, LegacyAccept

\* A budget never grows: what an authorization cannot pay it never will.
LEMMA ExhaustedStays ==
  ASSUME EInv, [Next]_vars, NEW e \in Evidence, Issued(e.auth), Exhausted(e)
  PROVE  Exhausted(e)'
<1>0. TypeOK /\ e.auth \in Auths /\ e.amount \in Nat
  BY EvidenceFields DEF EInv, IInv, TypeInv
<1>1. /\ commitment[e.auth] \in CommitmentRows /\ commitment[e.auth].held \in Nat
      /\ auth[e.auth] \in AuthRows /\ auth[e.auth].payments \in Nat
  BY <1>0 DEF TypeOK, CommitmentRows, AuthRows
<1>2. ASSUME commitment'[e.auth] = commitment[e.auth], auth'[e.auth] = auth[e.auth]
      PROVE  Exhausted(e)'
  BY <1>2 DEF Exhausted
<1>3. ASSUME NEW t \in Threads, IssueGrant(t) PROVE Exhausted(e)'
  BY <1>0, <1>2, <1>3 DEF IssueGrant, TypeOK
<1>4. ASSUME NEW f \in Evidence, NEW ack \in AckTimes[f] \cup {NoAck}, SubmitAccepted(f, ack)
      PROVE  Exhausted(e)'
  <2>1. CASE f.auth # e.auth
    BY <1>0, <1>2, <1>4, <2>1 DEF SubmitAccepted, TypeOK
  <2>2. CASE f.auth = e.auth
    <3>1. auth[e.auth].payments > 0 /\ f.amount \in Nat /\ commitment[e.auth].held >= f.amount
      BY <1>4, <2>2, EvidenceFields DEF SubmitAccepted, Applicable
    <3>2. commitment'[e.auth].held = commitment[e.auth].held - f.amount
      BY <1>0, <1>1, <1>4, <2>2 DEF SubmitAccepted, TypeOK, Emit, CommitmentRows
    <3>3. commitment[e.auth].held < e.amount
      BY <3>1 DEF Exhausted
    <3>4. commitment'[e.auth].held < e.amount
      BY <1>0, <1>1, <3>1, <3>2, <3>3
    <3>5. QED
      BY <3>4 DEF Exhausted
  <2>3. QED
    BY <2>1, <2>2
<1>5. ASSUME NEW a \in Auths, Close(a) PROVE Exhausted(e)'
  <2>1. CASE a # e.auth
    BY <1>0, <1>2, <1>5, <2>1 DEF Close, TypeOK
  <2>2. CASE a = e.auth
    <3>1. IssuedTotal(a) \in Nat /\ IssuedTotal(a) <= commitment[a].reserved
      BY <1>0, <1>5, IssuedTotalNat DEF Close, Closable, ManifestSound
    <3>2. commitment'[a] = Seal(commitment[a], ClaimsOn(a), IssuedTotal(a))
      BY <1>0, <1>5, <2>2 DEF Close, TypeOK
    <3>3. commitment'[a].held = commitment[a].held - (commitment[a].reserved - IssuedTotal(a))
      BY <1>1, <2>2, <3>2 DEF Seal, CommitmentRows
    <3>4. auth'[a].payments = auth[a].payments
      BY <1>0, <1>1, <1>5, <2>2 DEF Close, TypeOK, AuthRows
    <3>5. commitment[a].reserved \in Nat
      BY <1>1, <2>2, CommitmentFields
    <3>6. CASE auth[a].payments = 0
      BY <2>2, <3>4, <3>6 DEF Exhausted
    <3>7. CASE commitment[a].held < e.amount
      <4>1. commitment'[a].held < e.amount
        BY <1>0, <1>1, <2>2, <3>1, <3>3, <3>5, <3>7
      <4>2. QED
        BY <2>2, <4>1 DEF Exhausted
    <3>8. QED
      BY <2>2, <3>6, <3>7 DEF Exhausted
  <2>3. QED
    BY <2>1, <2>2
<1>6. CASE Restart
  BY <1>2, <1>6, RestartRepairsNothing DEF Restart
<1>7. QED
  BY <1>2, <1>3, <1>4, <1>5, <1>6, BudgetSteps DEF TopupCommit, LegacyAccept

\* The balance of a wallet covers what each of its commitments holds.
LEMMA HeldCovered ==
  ASSUME TypeOK, EscrowCovered, NEW a \in Auths, Issued(a)
  PROVE  commitment[a].held <= balance[Owner(a)]
<1> DEFINE w == Owner(a)
<1>1. w \in Wallets /\ w \in Accounts
  BY OwnerIsWallet
<1>2. /\ \A b \in Auths : HeldOf(w)[b] \in Nat
      /\ SumOver(HeldOf(w), Auths) \in Nat
  BY <1>1, HeldNat
<1>3. HeldOf(w)[a] = commitment[a].held
  BY DEF HeldOf
<1>4. SumOver(HeldOf(w), {a}) = HeldOf(w)[a]
  BY <1>2, SumOne
<1>5. SumOver(HeldOf(w), {a}) <= SumOver(HeldOf(w), Auths)
  BY <1>2, SumSubset, FiniteAssumption DEF FiniteAssumption
<1>6. SumOver(HeldOf(w), Auths) + legacy[w] <= balance[w]
  BY <1>1 DEF EscrowCovered, Committed
<1>7. legacy[w] \in Nat /\ balance[w] \in Nat /\ commitment[a].held \in Nat
  BY <1>1 DEF TypeOK, CommitmentRows
<1>8. QED
  BY <1>2, <1>3, <1>4, <1>5, <1>6, <1>7

\* A payment that cannot be applied exhausts its authorization: the balance and
\* the authorization row never refuse what the commitment still holds.
LEMMA InsufficientFound ==
  ASSUME EInv, NEW t \in Threads, NEW e \in Evidence, NEW ack \in AckTimes[e] \cup {NoAck},
         SubmitInsufficient(t, e, ack)
  PROVE  Issued(e.auth) /\ Exhausted(e) /\ ~Paid(e.op) /\ ack \in AckTimes[e]
<1>0. TypeOK /\ Conservation /\ EscrowCovered
  BY DEF EInv, IInv, TypeInv
<1>1. Issued(e.auth) /\ ~Paid(e.op) /\ ack \in AckTimes[e]
  BY DEF SubmitInsufficient, Ready, Processable, Valid, Admissible, Paid
<1>2. e.auth \in Auths /\ e.amount \in Nat
  BY EvidenceFields
<1> DEFINE c == commitment[e.auth]
           p == auth[e.auth]
<1>3. c \in CommitmentRows /\ p.payments \in Nat /\ balance[Owner(e.auth)] \in Nat
  BY <1>0, <1>1, <1>2, OwnerIsWallet DEF TypeOK, AuthRows
<1>4. c.reserved = c.emitted + c.held + c.unissued /\ p.remaining = c.reserved - c.emitted
  BY <1>0, <1>2 DEF Conservation
<1>5. c.held <= balance[Owner(e.auth)]
  BY <1>0, <1>1, <1>2, HeldCovered
<1>6. ~(/\ p.remaining >= e.amount /\ p.payments > 0
        /\ balance[Owner(e.auth)] >= e.amount
        /\ c.held >= e.amount
        /\ c.emitted + e.amount <= c.reserved)
  BY DEF SubmitInsufficient, Applicable
<1>7. /\ c.held \in Nat /\ c.reserved \in Nat /\ c.emitted \in Nat /\ c.unissued \in Nat
  BY <1>3, CommitmentFields
<1> HIDE DEF c, p
<1>8. c.held < e.amount \/ p.payments = 0
  BY <1>2, <1>3, <1>4, <1>5, <1>6, <1>7
<1>9. QED
  BY <1>1, <1>8 DEF c, p, Exhausted

\* A paid operation keeps its row, and only an accepted submission pays one.
LEMMA PaymentChanges ==
  ASSUME TypeOK, InsufficientStays, [Next]_vars, NEW op \in Ops
  PROVE  \/ payment'[op] = payment[op]
         \/ ~Paid(op) /\ (Paid(op)' => \E f \in Evidence : f.op = op /\ Accepted(f))
<1>1. ASSUME NEW e \in Evidence, Recorded(e)
      PROVE  payment'[op] = payment[op] \/ (~Paid(op) /\ ~Paid(op)')
  BY <1>1, RecordedWrites DEF Paid
<1>2. ASSUME NEW e \in Evidence, SubmitReceipt(e)
      PROVE  payment'[op] = payment[op] \/ (~Paid(op) /\ ~Paid(op)')
  BY <1>2, ProcessedWrites DEF Paid
<1>3. ASSUME NEW e \in Evidence, Accepted(e)
      PROVE  payment'[op] = payment[op] \/ (~Paid(op) /\ e.op = op /\ Accepted(e))
  BY <1>3, ProcessedWrites
<1>4. ASSUME NEW t \in Threads, InsufficientCommit(t)
      PROVE  payment'[op] = payment[op] \/ (~Paid(op) /\ ~Paid(op)')
  BY <1>4, InsufficientWrites DEF Paid
<1>5. QED
  BY <1>1, <1>2, <1>3, <1>4, EvidenceSteps
     DEF CloseRevoked, CloseContested, evidenceTables, Restart

\* A frame about an insufficient payment was there before, or was just written.
LEMMA FrameChanges ==
  ASSUME TypeOK, [Next]_vars, NEW t \in Threads, handler'[t].kind = "insufficient"
  PROVE  \/ handler'[t] = handler[t]
         \/ \E e \in Evidence : \E ack \in AckTimes[e] \cup {NoAck} :
              /\ SubmitInsufficient(t, e, ack)
              /\ handler'[t].ev = e /\ handler'[t].ack = ack
<1> USE DEF TypeOK, Idle
<1>1. ASSUME NEW u \in Threads, NEW e \in Evidence, NEW ack \in AckTimes[e] \cup {NoAck},
             Submit(u, e, ack)
      PROVE  \/ UNCHANGED handler
             \/ handler' = [handler EXCEPT ![u] = [kind |-> "insufficient", ev |-> e, ack |-> ack]]
                /\ SubmitInsufficient(u, e, ack)
  BY <1>1 DEF Submit, SubmitOmitted, SubmitOnHold, SubmitContested, SubmitAccepted,
              SubmitInsufficient, BooksUnchanged
<1>2. ASSUME NEW u \in Threads, NEW e \in Evidence, NEW ack \in AckTimes[e] \cup {NoAck},
             SubmitInsufficient(u, e, ack),
             handler' = [handler EXCEPT ![u] = [kind |-> "insufficient", ev |-> e, ack |-> ack]]
      PROVE  \/ handler'[t] = handler[t]
             \/ SubmitInsufficient(t, e, ack) /\ handler'[t].ev = e /\ handler'[t].ack = ack
  BY <1>2
<1>3. ASSUME NEW u \in Threads, NEW frame, frame.kind # "insufficient",
             handler' = [handler EXCEPT ![u] = frame]
      PROVE  handler'[t] = handler[t]
  BY <1>3
<1>4. CASE UNCHANGED handler
  BY <1>4
<1>5. ASSUME NEW u \in Threads, NEW r \in TopupRequests, TopupRead(u, r)
      PROVE  handler'[t] = handler[t]
  <2>1. [kind |-> "topup", req |-> r].kind # "insufficient"
    OBVIOUS
  <2>2. QED
    BY <1>3, <1>5, <2>1 DEF TopupRead
<1>6. ASSUME NEW u \in Threads, NEW r \in IssueRequests, IssueRead(u, r)
      PROVE  handler'[t] = handler[t]
  <2>1. [kind |-> "issue", req |-> r].kind # "insufficient"
    OBVIOUS
  <2>2. QED
    BY <1>3, <1>6, <2>1 DEF IssueRead
<1>7. ASSUME NEW u \in Threads,
             TopupCommit(u) \/ IssueGrant(u) \/ IssueRefuse(u) \/ InsufficientCommit(u) \/ Abandon(u)
      PROVE  handler'[t] = handler[t]
  <2>1. handler' = [handler EXCEPT ![u] = Idle]
    BY <1>7 DEF TopupCommit, IssueGrant, IssueRefuse, InsufficientCommit, Abandon
  <2>2. Idle.kind # "insufficient"
    OBVIOUS
  <2>3. QED
    BY <1>3, <2>1, <2>2
<1>8. CASE Restart
  BY <1>8 DEF Restart
<1>9. CASE UNCHANGED vars
  BY <1>4, <1>9 DEF vars
<1>10. CASE \/ \E e \in Evidence : SubmitReceipt(e)
            \/ \E a \in Auths : Close(a) \/ CloseRevoked(a) \/ CloseContested(a)
            \/ \E p \in LegacyPayments : LegacyAccept(p)
            \/ \E k \in Keys, date \in RevocationTimes : Revoke(k, date)
  BY <1>4, <1>10 DEF SubmitReceipt, Close, CloseRevoked, CloseContested, LegacyAccept, Revoke
<1>11. CASE \E u \in Threads, e \in Evidence : \E ack \in AckTimes[e] \cup {NoAck} : Submit(u, e, ack)
  BY <1>1, <1>2, <1>4, <1>11
<1>12. QED
  BY <1>5, <1>6, <1>7, <1>8, <1>9, <1>10, <1>11 DEF Next

\* Every step keeps the pending outcomes right.  Two receipts of one operation do
\* not both have acks, so nobody else can pay the operation meanwhile.
LEMMA InsufficientStep ==
  ASSUME EInv, [Next]_vars
  PROVE  InsufficientStays'
<1>0. TypeOK /\ InsufficientStays
  BY DEF EInv, IInv, TypeInv
<1>1. ASSUME NEW t \in Threads, handler'[t].kind = "insufficient",
             NEW e \in Evidence, handler'[t].ev = e,
             Issued(e.auth), Exhausted(e), ~Paid(e.op), handler'[t].ack \in AckTimes[e]
      PROVE  Issued(e.auth)' /\ Exhausted(e)' /\ ~Paid(e.op)'
  <2>1. e.op \in Ops /\ e.auth \in Auths /\ e.amount \in Nat
    BY EvidenceFields
  <2>2. Issued(e.auth)' /\ Exhausted(e)'
    BY <1>0, <1>1, <2>1, IssuedStays, ExhaustedStays
  <2>3. ASSUME NEW f \in Evidence, f.op = e.op, Accepted(f) PROVE FALSE
    <3>1. PICK ack \in AckTimes[f] \cup {NoAck} : SubmitAccepted(f, ack)
      BY <2>3 DEF Accepted
    <3>2. ack \in AckTimes[f] /\ auth[f.auth].payments > 0 /\ commitment[f.auth].held >= f.amount
      BY <3>1 DEF SubmitAccepted, Ready, Applicable
    <3>3. f = e
      BY <1>1, <2>3, <3>2, EvidenceAssumption DEF EvidenceAssumption
    <3>4. commitment[e.auth].held \in Nat /\ auth[e.auth].payments \in Nat
      BY <1>0, <2>1 DEF TypeOK, CommitmentRows, AuthRows
    <3>5. QED
      BY <1>1, <2>1, <3>2, <3>3, <3>4 DEF Exhausted
  <2>4. ~Paid(e.op)'
    <3>1. CASE payment'[e.op] = payment[e.op]
      BY <1>1, <3>1 DEF Paid, Known
    <3>2. CASE Paid(e.op)' => \E f \in Evidence : f.op = e.op /\ Accepted(f)
      BY <2>3, <3>2
    <3>3. QED
      BY <1>0, <2>1, <3>1, <3>2, PaymentChanges
  <2>5. QED
    BY <2>2, <2>4
<1>2. ASSUME NEW t \in Threads, handler'[t].kind = "insufficient"
      PROVE  \E e \in Evidence :
               /\ handler'[t].ev = e /\ handler'[t].ack \in AckTimes[e]
               /\ Issued(e.auth)' /\ Exhausted(e)' /\ ~Paid(e.op)'
  <2>1. CASE handler'[t] = handler[t]
    <3>1. PICK e \in Evidence : handler[t].ev = e
      BY <1>0, <1>2, <2>1, FrameFields
    <3>2. /\ Issued(e.auth) /\ Exhausted(e) /\ ~Paid(e.op)
          /\ handler'[t].ack \in AckTimes[e] /\ handler'[t].ev = e
      BY <1>0, <1>2, <2>1, <3>1 DEF InsufficientStays
    <3>3. QED
      BY <1>1, <1>2, <3>2
  <2>2. ASSUME NEW e \in Evidence, NEW ack \in AckTimes[e] \cup {NoAck},
               SubmitInsufficient(t, e, ack), handler'[t].ev = e, handler'[t].ack = ack
        PROVE  /\ Issued(e.auth)' /\ Exhausted(e)' /\ ~Paid(e.op)'
               /\ handler'[t].ack \in AckTimes[e]
    <3>1. Issued(e.auth) /\ Exhausted(e) /\ ~Paid(e.op) /\ ack \in AckTimes[e]
      BY <2>2, InsufficientFound
    <3>2. QED
      BY <1>1, <1>2, <2>2, <3>1
  <2>3. QED
    BY <1>0, <1>2, <2>1, <2>2, FrameChanges
<1>3. QED
  BY <1>2 DEF InsufficientStays, Issued, Exhausted, Paid, Known

\* The invariant of the evidence holds at the start,
LEMMA EvidenceInit == Init => EInv
<1> SUFFICES ASSUME Init PROVE EInv
  OBVIOUS
<1>1. IInv
  BY InvariantInit
<1>2. ClaimsComplete /\ ContestedIndexReviewed
  BY DEF Init, ClaimsComplete, ContestedIndexReviewed, Known
<1>3. OpenUntilClosed
  BY DEF Init, OpenUntilClosed, NoCommitment
<1>4. InsufficientStays
  BY DEF Init, InsufficientStays, Idle
<1>5. QED
  BY <1>1, <1>2, <1>3, <1>4 DEF EInv

\* and every step keeps it.
LEMMA EvidenceStep == EInv /\ [Next]_vars => EInv'
<1> SUFFICES ASSUME EInv, [Next]_vars PROVE EInv'
  OBVIOUS
<1>1. IInv'
  BY InvariantStep DEF EInv
<1>2. ClaimsComplete' /\ ContestedIndexReviewed' /\ OpenUntilClosed' /\ InsufficientStays'
  BY ClaimsStep, OpenStep, InsufficientStep
<1>3. QED
  BY <1>1, <1>2 DEF EInv

\* Two operations that claim one index leave the wallet in review, by whichever of
\* the handlers, the closure or the start of the backend the claims arrive.
THEOREM ContestedIndicesAreReviewed == Spec => []ContestedIndexReviewed
<1>1. EInv => ContestedIndexReviewed
  BY DEF EInv
<1>2. QED
  BY <1>1, EvidenceInit, EvidenceStep, PTL DEF Spec

\* A final payment is never rewritten: not by a repetition, a late conflict, or
\* the outcome that another thread writes after it dropped the lock (_apply).
FinalIsForever ==
    [][\A op \in Ops : payment[op] # NoRow /\ payment[op].state = "ACCEPTED"
                            => payment'[op] = payment[op]]_payment

\* A final payment is never rewritten, although a handler whose payment did not fit
\* overwrites the row after it dropped the lock: by then the budget is still
\* exhausted, so no other thread can have paid the operation (_apply).
THEOREM FinalStays == Spec => FinalIsForever
<1>1. EInv /\ [Next]_vars =>
        [\A op \in Ops : payment[op] # NoRow /\ payment[op].state = "ACCEPTED"
                             => payment'[op] = payment[op]]_payment
  <2> SUFFICES ASSUME EInv, [Next]_vars, NEW op \in Ops,
                      payment[op] # NoRow, payment[op].state = "ACCEPTED"
               PROVE  payment'[op] = payment[op]
    OBVIOUS
  <2>1. TypeOK /\ InsufficientStays
    BY DEF EInv, IInv, TypeInv
  <2>2. Paid(op)
    BY DEF Paid, Known
  <2>3. QED
    BY <2>1, <2>2, PaymentChanges
<1>2. QED
  BY <1>1, EvidenceInit, EvidenceStep, PTL DEF Spec, FinalIsForever

\* A start of the backend repairs nothing in a ledger that the backend wrote: its
\* migrations change no commitment, no claim and no review (run_schema_migrations).
THEOREM RestartsRepairNothing == Spec => RestartChangesNothing
<1>1. EInv /\ [Next]_vars => [Restart => UNCHANGED <<commitment, claims, review>>]_vars
  BY RestartRepairsNothing
<1>2. QED
  BY <1>1, EvidenceInit, EvidenceStep, PTL DEF Spec, RestartChangesNothing

\* No wallet in review is granted an authorization, whatever happened between the
\* first look at its flag and the lock (issue_authorization_v3).
THEOREM NoGrantDuringReview == Spec => NoGrantInReview
<1>1. EInv /\ [Next]_vars => [\A a \in Auths : ~Issued(a) /\ Issued(a)' => ~review[Owner(a)']]_auth
  <2> SUFFICES ASSUME EInv, [Next]_vars, NEW a \in Auths, ~Issued(a), Issued(a)'
               PROVE  ~review[Owner(a)']
    OBVIOUS
  <2>1. TypeOK
    BY DEF EInv, IInv, TypeInv
  <2>2. ASSUME NEW t \in Threads, IssueGrant(t) PROVE ~review[Owner(a)']
    <3> DEFINE r == handler[t].req
    <3>1. PICK b \in Auths :
            auth' = [auth EXCEPT ![b] = [req |-> r, remaining |-> Grantable(r),
                                         payments |-> r.maxPayments, active |-> TRUE]]
      BY <2>2 DEF IssueGrant
    <3>2. a = b
      BY <2>1, <3>1 DEF Issued, TypeOK
    <3>3. Owner(a)' = r.wallet
      BY <2>1, <3>1, <3>2 DEF Owner, TypeOK
    <3>4. ~review[r.wallet]
      BY <2>2 DEF IssueGrant, GrantAllowed
    <3>5. QED
      BY <3>3, <3>4 DEF Owner
  <2>3. CASE \A b \in Auths : auth'[b].req = auth[b].req
    BY <2>3 DEF Issued
  <2>4. ASSUME NEW e \in Evidence, NEW ack \in AckTimes[e] \cup {NoAck}, SubmitAccepted(e, ack)
        PROVE  \A b \in Auths : auth'[b].req = auth[b].req
    BY <2>1, <2>4 DEF SubmitAccepted, TypeOK, AuthRows
  <2>5. ASSUME NEW c \in Auths, Close(c) PROVE \A b \in Auths : auth'[b].req = auth[b].req
    BY <2>1, <2>5 DEF Close, TypeOK, AuthRows
  <2>6. QED
    BY <2>2, <2>3, <2>4, <2>5, BudgetSteps DEF TopupCommit, LegacyAccept, Restart
<1>2. QED
  BY <1>1, EvidenceInit, EvidenceStep, PTL DEF Spec, NoGrantInReview

\* No payment is applied while another operation claims its index, whichever of the
\* two receipts reached the backend first (_record_claim).
THEOREM ContestedIsNeverPaid == Spec => ContestedNeverPaid
<1>1. EInv /\ [Next]_vars => [\A e \in emissions' \ emissions : ~IndexContested(e)]_emissions
  <2> SUFFICES ASSUME EInv, [Next]_vars, NEW e \in emissions' \ emissions
               PROVE  ~IndexContested(e)
    OBVIOUS
  <2>1. ASSUME NEW f \in Evidence, Accepted(f) PROVE ~IndexContested(e)
    BY <2>1 DEF Accepted, SubmitAccepted, Ready, Collides
  <2>2. ASSUME NEW f \in Evidence, Recorded(f) \/ SubmitReceipt(f) PROVE UNCHANGED emissions
    BY <2>2 DEF Recorded, SubmitOmitted, SubmitOnHold, SubmitContested, SubmitReceipt, BooksUnchanged
  <2>3. QED
    BY <2>1, <2>2, EvidenceSteps
       DEF InsufficientCommit, BooksUnchanged, CloseRevoked, CloseContested, evidenceTables, Restart
<1>2. QED
  BY <1>1, EvidenceInit, EvidenceStep, PTL DEF Spec, ContestedNeverPaid

----------------------------------------------------------------------------
(* What lies under the promise: the three tables of evidence agree.          *)

\* Every emission is a claimed receipt whose operation is paid with it, and the
\* receipts of a manifest stay the receipts of their operations.
StoredOnce ==
    /\ \A e \in emissions : Paid(e.op) /\ payment[e.op].ev = e /\ e \in claims
    /\ \A op \in Ops : Paid(op) => payment[op].ev \in emissions
    /\ \A a \in Auths : commitment[a].closed =>
         \A c \in commitment[a].manifest : Known(c.op) /\ payment[c.op].ev = c

\* The receipt of an operation is never replaced, and no claim is dropped.
LEMMA ReceiptStays ==
  ASSUME EInv, [Next]_vars
  PROVE  /\ claims \subseteq claims'
         /\ \A op \in Ops : Known(op) => Known(op)' /\ payment'[op].ev = payment[op].ev
<1>0. TypeOK /\ InsufficientStays
  BY DEF EInv, IInv, TypeInv
<1>1. \A e \in Evidence : claims \subseteq ClaimsWith(e)
  BY DEF ClaimsWith
<1>2. ASSUME NEW e \in Evidence, claims' = ClaimsWith(e),
             payment'[e.op] # NoRow,
             Known(e.op) => payment'[e.op].ev = payment[e.op].ev,
             \A op \in Ops \ {e.op} : payment'[op] = payment[op]
      PROVE  /\ claims \subseteq claims'
             /\ \A op \in Ops : Known(op) => Known(op)' /\ payment'[op].ev = payment[op].ev
  BY <1>1, <1>2 DEF Known
<1>3. ASSUME UNCHANGED <<payment, claims>>
      PROVE  /\ claims \subseteq claims'
             /\ \A op \in Ops : Known(op) => Known(op)' /\ payment'[op].ev = payment[op].ev
  BY <1>3 DEF Known
<1>4. ASSUME NEW e \in Evidence, Recorded(e)
      PROVE  /\ claims' = ClaimsWith(e) /\ payment'[e.op] # NoRow
             /\ Known(e.op) => payment'[e.op].ev = payment[e.op].ev
             /\ \A op \in Ops \ {e.op} : payment'[op] = payment[op]
  BY <1>0, <1>4, RecordedWrites
<1>5. ASSUME NEW e \in Evidence, SubmitReceipt(e) \/ Accepted(e)
      PROVE  /\ claims' = ClaimsWith(e) /\ payment'[e.op] # NoRow
             /\ Known(e.op) => payment'[e.op].ev = payment[e.op].ev
             /\ \A op \in Ops \ {e.op} : payment'[op] = payment[op]
  BY <1>0, <1>5, ProcessedWrites
<1>6. ASSUME NEW t \in Threads, InsufficientCommit(t)
      PROVE  \E e \in Evidence :
             /\ claims' = ClaimsWith(e) /\ payment'[e.op] # NoRow
             /\ Known(e.op) => payment'[e.op].ev = payment[e.op].ev
             /\ \A op \in Ops \ {e.op} : payment'[op] = payment[op]
  BY <1>0, <1>6, InsufficientWrites
<1>7. CASE \E a \in Auths : CloseRevoked(a) \/ CloseContested(a)
  BY <1>3, <1>7 DEF CloseRevoked, CloseContested, evidenceTables
<1>8. CASE Restart
  BY <1>3, <1>8, RestartRepairsNothing DEF Restart
<1>9. QED
  BY <1>2, <1>3, <1>4, <1>5, <1>6, <1>7, <1>8, EvidenceSteps

\* What a payment adds: an emission of a claimed receipt, with its final row.
LEMMA AcceptedWrites ==
  ASSUME TypeOK, NEW e \in Evidence, NEW ack, SubmitAccepted(e, ack)
  PROVE  /\ payment'[e.op].state = "ACCEPTED" /\ payment'[e.op].ev = e /\ payment'[e.op] # NoRow
         /\ emissions' = emissions \cup {e} /\ e \in claims'
<1>1. e.op \in Ops
  BY EvidenceFields
<1>2. payment'[e.op].state = "ACCEPTED" /\ payment'[e.op].ev = e /\ payment'[e.op] # NoRow
  BY <1>1 DEF SubmitAccepted, WithAck, Row, NoRow, TypeOK
<1>3. emissions' = emissions \cup {e} /\ claims' = ClaimsWith(e) /\ ~Collides(e)
  BY DEF SubmitAccepted, Ready
<1>4. e \in claims'
  BY <1>3 DEF ClaimsWith, Collides, ClaimOf
<1>5. QED
  BY <1>2, <1>3, <1>4

\* Only payments add emissions.
LEMMA EmissionSteps ==
  ASSUME [Next]_vars
  PROVE  UNCHANGED emissions \/ \E e \in Evidence : Accepted(e)
<1>1. ASSUME NEW f \in Evidence, Recorded(f) \/ SubmitReceipt(f) PROVE UNCHANGED emissions
  BY <1>1 DEF Recorded, SubmitOmitted, SubmitOnHold, SubmitContested, SubmitReceipt, BooksUnchanged
<1>2. QED
  BY <1>1, EvidenceSteps
     DEF InsufficientCommit, BooksUnchanged, CloseRevoked, CloseContested, evidenceTables, Restart

\* A manifest changes only when its commitment is closed.
LEMMA ManifestStays ==
  ASSUME EInv, [Next]_vars, NEW a \in Auths
  PROVE  \/ commitment'[a].closed = commitment[a].closed
            /\ commitment'[a].manifest = commitment[a].manifest
         \/ Close(a)
<1>0. TypeOK
  BY DEF EInv, IInv, TypeInv
<1>1. ASSUME NEW t \in Threads, IssueGrant(t)
      PROVE  /\ commitment'[a].closed = commitment[a].closed
             /\ commitment'[a].manifest = commitment[a].manifest
  BY <1>0, <1>1 DEF IssueGrant, TypeOK, CommitmentRows
<1>2. ASSUME NEW e \in Evidence, NEW ack \in AckTimes[e] \cup {NoAck}, SubmitAccepted(e, ack)
      PROVE  /\ commitment'[a].closed = commitment[a].closed
             /\ commitment'[a].manifest = commitment[a].manifest
  BY <1>0, <1>2 DEF SubmitAccepted, TypeOK, CommitmentRows, Emit
<1>3. ASSUME NEW b \in Auths, Close(b), b # a PROVE commitment'[a] = commitment[a]
  BY <1>0, <1>3 DEF Close, TypeOK
<1>4. CASE Restart
  BY <1>4, RestartRepairsNothing
<1>5. QED
  BY <1>1, <1>2, <1>3, <1>4, BudgetSteps DEF TopupCommit, LegacyAccept

\* Every step keeps the agreement of the tables.
LEMMA StoredStep ==
  ASSUME EInv, StoredOnce, [Next]_vars
  PROVE  StoredOnce'
<1>0. TypeOK /\ InsufficientStays
  BY DEF EInv, IInv, TypeInv
<1>1. /\ claims \subseteq claims'
      /\ \A op \in Ops : Known(op) => Known(op)' /\ payment'[op].ev = payment[op].ev
  BY ReceiptStays
<1>2. ASSUME NEW op \in Ops, Paid(op) PROVE payment'[op] = payment[op]
  BY <1>0, <1>2, PaymentChanges
<1>3. ASSUME NEW e \in Evidence, Accepted(e)
      PROVE  /\ Paid(e.op)' /\ payment'[e.op].ev = e /\ e \in claims'
             /\ emissions' = emissions \cup {e}
  BY <1>0, <1>3, AcceptedWrites DEF Accepted, Paid, Known
<1>4. emissions \subseteq emissions'
  BY <1>3, EmissionSteps
<1>5. ASSUME NEW e \in emissions' PROVE Paid(e.op)' /\ payment'[e.op].ev = e /\ e \in claims'
  <2>1. CASE e \in emissions
    <3>1. e.op \in Ops
      BY <1>0, <2>1, EvidenceFields DEF TypeOK
    <3>2. payment'[e.op] = payment[e.op]
      BY <1>2, <2>1, <3>1 DEF StoredOnce
    <3>3. QED
      BY <1>1, <2>1, <3>2 DEF StoredOnce, Paid, Known
  <2>2. CASE e \notin emissions
    BY <1>3, <1>5, <2>2, EmissionSteps
  <2>3. QED
    BY <2>1, <2>2
<1>6. ASSUME NEW op \in Ops, Paid(op)' PROVE payment'[op].ev \in emissions'
  <2>1. CASE payment'[op] = payment[op]
    BY <1>4, <1>6, <2>1 DEF StoredOnce, Paid, Known
  <2>2. CASE \E f \in Evidence : f.op = op /\ Accepted(f)
    BY <1>3, <2>2
  <2>3. QED
    BY <1>0, <1>6, <2>1, <2>2, PaymentChanges
<1>7. ASSUME NEW a \in Auths, commitment'[a].closed, NEW c \in commitment'[a].manifest
      PROVE  Known(c.op)' /\ payment'[c.op].ev = c
  <2>1. c \in Evidence /\ c.op \in Ops /\ Known(c.op) /\ payment[c.op].ev = c
    <3>1. CASE Close(a)
      <4>1. commitment'[a].manifest = ClaimsOn(a)
        BY <1>0, <3>1 DEF Close, Seal, TypeOK, CommitmentRows
      <4>2. EntrySound(c) /\ c \in Evidence
        BY <1>0, <1>7, <3>1, <4>1 DEF Close, ClaimsOn, TypeOK
      <4>3. QED
        BY <4>2, EvidenceFields DEF EntrySound, Known, NoRow
    <3>2. CASE ~Close(a)
      <4>1. commitment[a].closed /\ c \in commitment[a].manifest
        BY <1>7, <3>2, ManifestStays
      <4>2. c \in Evidence
        BY <1>0, <4>1 DEF TypeOK, CommitmentRows
      <4>3. QED
        BY <4>1, <4>2, EvidenceFields DEF StoredOnce
    <3>3. QED
      BY <3>1, <3>2
  <2>2. QED
    BY <1>1, <2>1
<1>8. QED
  BY <1>5, <1>6, <1>7 DEF StoredOnce

----------------------------------------------------------------------------
(* The ledger implements the contracts of Escrow.                            *)

\* The contracts of the ledger, as Promise reads them.
HolderOf == [a \in Auths |-> IF Issued(a) THEN Owner(a) ELSE NoRequest]
EscrowOf == [a \in Auths |-> commitment[a].held]
Released == {a \in Auths : commitment[a].closed}
ListOf == [a \in Auths |-> commitment[a].manifest]

\* Promise adds up cents as the ledger does.
LEMMA SameSums ==
  ASSUME NEW f, NEW S
  PROVE  Promise!SumOver(f, S) = SumOver(f, S)
BY DEF Promise!SumOver, Promise!Coins, SumOver, Coins, Promise!Cardinality, Cardinality

\* What the contracts of a wallet set aside is what its commitments hold.
LEMMA SetAsideIsHeld ==
  ASSUME NEW w \in Wallets
  PROVE  Promise!SetAside(w) = SumOver(HeldOf(w), Auths)
<1> DEFINE f == [c \in Auths |-> IF HolderOf[c] = w THEN EscrowOf[c] ELSE 0]
<1>1. NoRequest # w
  BY RequestsAssumption DEF RequestsAssumption, Accounts
<1>2. \A a \in Auths : f[a] = HeldOf(w)[a]
  BY <1>1 DEF HolderOf, EscrowOf, HeldOf
<1>3. SumOver(f, Auths) = SumOver(HeldOf(w), Auths)
  BY <1>2, SumSame
<1>4. Promise!SetAside(w) = Promise!SumOver(f, Auths)
  BY DEF Promise!SetAside, HolderOf, EscrowOf
<1> HIDE DEF f
<1>5. QED
  BY <1>3, <1>4, SameSums

\* The tables start as contracts that nobody made.
LEMMA PromiseInit == Init => Promise!Init
<1> SUFFICES ASSUME Init PROVE Promise!Init
  OBVIOUS
<1>1. \A a \in Auths : ~Issued(a) /\ commitment[a] = NoCommitment
  BY DEF Init, Issued, NoAuth
<1>2. HolderOf = [a \in Auths |-> NoRequest] /\ EscrowOf = [a \in Auths |-> 0]
  BY <1>1 DEF HolderOf, EscrowOf, NoCommitment
<1>3. Released = {} /\ ListOf = [a \in Auths |-> {}]
  BY <1>1 DEF Released, ListOf, NoCommitment
<1>4. QED
  BY <1>2, <1>3 DEF Init, Promise!Init, HolderOf, EscrowOf, Released, ListOf

\* A step that leaves these tables alone leaves the contracts alone.
LEMMA PromiseStutters ==
  ASSUME UNCHANGED <<balance, topups, auth, commitment, emissions>>
  PROVE  UNCHANGED Promise!vars
<1>1. UNCHANGED <<HolderOf, EscrowOf, Released, ListOf>>
  BY DEF HolderOf, EscrowOf, Released, ListOf, Issued, Owner
<1>2. QED
  BY <1>1 DEF Promise!vars, HolderOf, EscrowOf, Released, ListOf

\* A topup is a deposit.
LEMMA TopupDeposits ==
  ASSUME TypeOK, NEW t \in Threads, TopupCommit(t), TopupKeyFree(handler[t].req)
  PROVE  Promise!Next
<1> DEFINE r == handler[t].req
<1>1. r \in TopupRequests
  BY FrameFields DEF TopupCommit
<1>2. UNCHANGED <<auth, commitment, emissions>>
  BY DEF TopupCommit, evidenceTables
<1>3. UNCHANGED <<HolderOf, EscrowOf, Released, ListOf>>
  BY <1>2 DEF HolderOf, EscrowOf, Released, ListOf, Issued, Owner
<1>4. Promise!Deposit(r)
  BY <1>2, <1>3 DEF TopupCommit, TopupKeyFree, Promise!Deposit, HolderOf, EscrowOf, Released, ListOf
<1>5. QED
  BY <1>1, <1>4 DEF Promise!Next

\* A v2 payment spends what no contract holds: the v2 budget is apart.
LEMMA LegacySpends ==
  ASSUME TypeOK, EscrowCovered, NEW p \in LegacyPayments, LegacyAccept(p)
  PROVE  Promise!Next
<1> DEFINE w == p.wallet
           n == p.amount
<1>1. /\ w \in Wallets /\ w \in Accounts /\ w # Merchant /\ n \in Nat \ {0}
      /\ balance[w] \in Nat /\ n <= balance[w] /\ legacy[w] \in Nat /\ n <= legacy[w]
  BY RequestFields, WalletsAssumption DEF WalletsAssumption, Accounts, LegacyAccept, TypeOK
<1>2. Promise!Free(w, n)
  <2>1. SumOver(HeldOf(w), Auths) \in Nat /\ SumOver(HeldOf(w), Auths) + legacy[w] <= balance[w]
    BY <1>1, HeldNat DEF EscrowCovered, Committed
  <2>2. SumOver(HeldOf(w), Auths) + n <= balance[w]
    BY <1>1, <2>1
  <2>3. QED
    BY <1>1, <2>2, SetAsideIsHeld DEF Promise!Free
<1>3. UNCHANGED <<auth, commitment, emissions, topups>>
  BY DEF LegacyAccept, evidenceTables
<1>4. UNCHANGED <<HolderOf, EscrowOf, Released, ListOf>>
  BY <1>3 DEF HolderOf, EscrowOf, Released, ListOf, Issued, Owner
<1>5. balance' = [balance EXCEPT ![w] = @ - n, ![Merchant] = @ + n]
  BY DEF LegacyAccept, Transfer
<1>6. Promise!Spend(w, n)
  BY <1>1, <1>2, <1>3, <1>4, <1>5 DEF Promise!Spend, HolderOf, EscrowOf, Released, ListOf
<1>7. n \in 1 .. balance[w]
  BY <1>1
<1>8. QED
  BY <1>1, <1>6, <1>7 DEF Promise!Next

\* A grant makes a contract for what is free.
LEMMA GrantReserves ==
  ASSUME IInv, IInv', NEW t \in Threads, IssueGrant(t)
  PROVE  Promise!Next
<1>0. TypeOK /\ TypeOK' /\ Fresh
  BY DEF IInv, TypeInv
<1>a. handler[t].req \in IssueRequests /\ Grantable(handler[t].req) \in Nat \ {0}
  BY <1>0, FrameFields, GrantFits DEF IssueGrant, GrantAllowed
<1>b. PICK r \in IssueRequests, total \in Nat \ {0} : r = handler[t].req /\ total = Grantable(r)
  BY <1>a
<1>c. r.wallet \in Wallets
  BY RequestFields
<1>d. PICK w \in Wallets : w = r.wallet
  BY <1>c
<1>1. /\ Committed(w) + total <= balance[w]
      /\ w \in Accounts /\ w # Merchant /\ r # NoRequest
  BY <1>0, <1>b, <1>d, GrantFits, WalletsAssumption, RequestsAssumption
     DEF IssueGrant, GrantAllowed, WalletsAssumption, RequestsAssumption, Accounts
<1>2. PICK a \in Auths :
        /\ ~Issued(a)
        /\ auth' = [auth EXCEPT ![a] = [req |-> r, remaining |-> total,
                                        payments |-> r.maxPayments, active |-> TRUE]]
        /\ commitment' = [commitment EXCEPT ![a].reserved = total, ![a].held = total]
  BY <1>b DEF IssueGrant
<1>3. Promise!Free(w, total) /\ total \in 1 .. balance[w]
  <2>1. /\ SumOver(HeldOf(w), Auths) \in Nat /\ legacy[w] \in Nat /\ balance[w] \in Nat
        /\ Committed(w) = SumOver(HeldOf(w), Auths) + legacy[w]
    BY <1>0, <1>1, HeldNat DEF Committed, TypeOK
  <2>2. SumOver(HeldOf(w), Auths) + total <= balance[w]
    BY <1>1, <2>1
  <2>3. total \in 1 .. balance[w]
    BY <1>1, <2>1, <2>2
  <2>4. QED
    BY <1>1, <2>2, <2>3, SetAsideIsHeld DEF Promise!Free
<1>4. HolderOf[a] = NoRequest /\ HolderOf' = [HolderOf EXCEPT ![a] = w]
  <2>1. Issued(a)' /\ Owner(a)' = w
    BY <1>0, <1>1, <1>2, <1>d DEF Issued, Owner, TypeOK
  <2>2. \A b \in Auths \ {a} : (Issued(b)' <=> Issued(b)) /\ Owner(b)' = Owner(b)
    BY <1>0, <1>2 DEF Issued, Owner, TypeOK
  <2>3. QED
    BY <1>2, <2>1, <2>2 DEF HolderOf
<1>5. EscrowOf' = [EscrowOf EXCEPT ![a] = total]
  <2>1. commitment'[a].held = total /\ \A b \in Auths \ {a} : commitment'[b] = commitment[b]
    BY <1>0, <1>2 DEF TypeOK, CommitmentRows
  <2>2. QED
    BY <2>1 DEF EscrowOf
<1>6. \A b \in Auths : commitment'[b].closed = commitment[b].closed
                       /\ commitment'[b].manifest = commitment[b].manifest
  BY <1>0, <1>2 DEF TypeOK, CommitmentRows
<1>7. UNCHANGED <<Released, ListOf>>
  BY <1>6 DEF Released, ListOf
<1>8. UNCHANGED <<balance, topups, emissions>>
  BY DEF IssueGrant, money, evidenceTables
<1>9. Promise!Reserve(a, w, total)
  BY <1>1, <1>3, <1>4, <1>5, <1>7, <1>8
     DEF Promise!Reserve, HolderOf, EscrowOf, Released, ListOf
<1>10. QED
  BY <1>1, <1>3, <1>9 DEF Promise!Next

\* An accepted submission pays its receipt out of its contract.
LEMMA AcceptedPays ==
  ASSUME IInv, StoredOnce, NEW e \in Evidence, NEW ack, SubmitAccepted(e, ack)
  PROVE  Promise!Next
<1>0. TypeOK
  BY DEF IInv, TypeInv
<1> DEFINE a == e.auth
<1>1. /\ a \in Auths /\ Issued(a) /\ e.amount \in Nat \ {0} /\ e.op \in Ops
      /\ Owner(a) \in Wallets /\ Owner(a) \in Accounts /\ Owner(a) # NoRequest
      /\ commitment[a].held >= e.amount
  BY <1>0, AcceptedFinds, EvidenceFields, RequestsAssumption DEF RequestsAssumption, Accounts
<1>2. HolderOf[a] = Owner(a) /\ HolderOf[a] # NoRequest
  BY <1>1 DEF HolderOf
<1>3. Admissible(e, ack) /\ ~Omitted(e) /\ e.op \notin {m.op : m \in emissions}
  BY DEF SubmitAccepted, Ready, Processable
<1>4. \A p \in emissions : p.op # e.op
  BY <1>3
<1>5. a \in Released => e \in ListOf[a]
  BY <1>1, <1>3 DEF Omitted, Released, ListOf
<1>6. \A c \in Released : \A l \in ListOf[c] : l.op = e.op => l = e
  BY <1>3 DEF Released, ListOf, StoredOnce, Admissible
<1>7. \A b \in Auths \ {a} : auth'[b] = auth[b] /\ commitment'[b] = commitment[b]
  BY <1>0, <1>1 DEF SubmitAccepted, TypeOK
<1>8. auth'[a].req = auth[a].req
  BY <1>0, <1>1 DEF SubmitAccepted, TypeOK, AuthRows
<1>9. /\ commitment'[a].held = commitment[a].held - e.amount
      /\ commitment'[a].closed = commitment[a].closed /\ commitment'[a].manifest = commitment[a].manifest
  <2>1. commitment'[a] = Emit(commitment[a], e.amount) /\ commitment[a] \in CommitmentRows
    BY <1>0, <1>1 DEF SubmitAccepted, TypeOK
  <2>2. QED
    BY <2>1 DEF Emit, CommitmentRows
<1>10. EscrowOf[a] >= e.amount /\ EscrowOf' = [EscrowOf EXCEPT ![a] = @ - e.amount]
  BY <1>1, <1>7, <1>9 DEF EscrowOf
<1>11. UNCHANGED <<HolderOf, Released, ListOf>>
  <2>1. \A b \in Auths : (Issued(b)' <=> Issued(b)) /\ Owner(b)' = Owner(b)
    BY <1>7, <1>8 DEF Issued, Owner
  <2>2. \A b \in Auths : commitment'[b].closed = commitment[b].closed
                         /\ commitment'[b].manifest = commitment[b].manifest
    BY <1>7, <1>9
  <2>3. QED
    BY <2>1, <2>2 DEF HolderOf, Released, ListOf
<1>12. /\ balance' = [balance EXCEPT ![HolderOf[a]] = @ - e.amount, ![Merchant] = @ + e.amount]
       /\ emissions' = emissions \cup {e} /\ UNCHANGED topups
  BY <1>2 DEF SubmitAccepted, Transfer
<1>13. Promise!NotDisplacing(e)
  BY <1>6 DEF Promise!NotDisplacing, Released, ListOf
<1>14. Promise!Pay(e)
  BY <1>2, <1>4, <1>5, <1>10, <1>11, <1>12, <1>13
     DEF Promise!Pay, HolderOf, EscrowOf, Released, ListOf
<1>15. QED
  BY <1>14 DEF Promise!Next

\* What a closure lists and what it keeps: the receipts of the manifest that are
\* not paid, which is what the authorization still holds of them.
LEMMA ClosureKeeps ==
  ASSUME IInv, StoredOnce, NEW a \in Auths, Close(a)
  PROVE  /\ SumOver(Amounts, ClaimsOn(a) \ emissions) = IssuedTotal(a) - AcceptedTotal(a)
         /\ \A c \in ClaimsOn(a) : c \in emissions <=> payment[c.op].state = "ACCEPTED"
<1>0. TypeOK
  BY DEF IInv, TypeInv
<1> DEFINE S == ClaimsOn(a)
           A == {c \in S : payment[c.op].state = "ACCEPTED"}
<1>1. ASSUME NEW c \in S PROVE c \in emissions <=> payment[c.op].state = "ACCEPTED"
  <2>1. c \in Evidence /\ c.op \in Ops /\ EntrySound(c)
    BY <1>0, EvidenceFields DEF ClaimsOn, TypeOK, Close
  <2>2. payment[c.op].ev = c /\ Known(c.op)
    BY <2>1 DEF EntrySound, Known, NoRow
  <2>3. QED
    BY <2>1, <2>2 DEF StoredOnce, Paid
<1>2. S \ emissions = S \ A
  BY <1>1
<1>3. S \subseteq Evidence /\ IsFiniteSet(S) /\ IsFiniteSet(A) /\ IsFiniteSet(S \ A)
  <2>1. S \subseteq Evidence
    BY <1>0 DEF ClaimsOn, TypeOK
  <2>2. QED
    BY <2>1, FS_Subset, FiniteAssumption DEF FiniteAssumption
<1>4. \A e \in S : Amounts[e] \in Nat
  BY <1>3, EvidenceFields DEF Amounts
<1>5. /\ SumOver(Amounts, S) = SumOver(Amounts, A) + SumOver(Amounts, S \ A)
      /\ SumOver(Amounts, A) \in Nat /\ SumOver(Amounts, S \ A) \in Nat
  <2>1. A \cup (S \ A) = S /\ A \cap (S \ A) = {}
    OBVIOUS
  <2> HIDE DEF A
  <2>2. SumOver(Amounts, A \cup (S \ A)) = SumOver(Amounts, A) + SumOver(Amounts, S \ A)
    BY <1>3, <1>4, <2>1, SumSplit
  <2>3. SumOver(Amounts, A) \in Nat /\ SumOver(Amounts, S \ A) \in Nat
    BY <1>3, <1>4, <2>1, SumNat
  <2>4. QED
    BY <2>1, <2>2, <2>3
<1>6. IssuedTotal(a) = SumOver(Amounts, S) /\ AcceptedTotal(a) = SumOver(Amounts, A)
  BY DEF IssuedTotal, AcceptedTotal
<1> HIDE DEF A
<1>7. SumOver(Amounts, S \ emissions) = IssuedTotal(a) - AcceptedTotal(a)
  <2> HIDE DEF S
  <2>1. SumOver(Amounts, S \ emissions) = SumOver(Amounts, S \ A)
    BY <1>2, Zenon
  <2>2. QED
    BY <1>5, <1>6, <2>1
<1>8. QED
  BY <1>1, <1>7

\* The row of a commitment after its closure.
LEMMA ClosureHolds ==
  ASSUME IInv, StoredOnce, NEW a \in Auths, Close(a)
  PROVE  /\ commitment'[a].closed /\ commitment'[a].manifest = ClaimsOn(a)
         /\ commitment'[a].held = SumOver(Amounts, ClaimsOn(a) \ emissions)
         /\ commitment'[a].held <= commitment[a].held
         /\ commitment'[a].phase = IF commitment'[a].held = 0 THEN "SETTLED" ELSE "SEALED"
<1>0. TypeOK
  BY DEF IInv, TypeInv
<1>1. commitment[a] \in CommitmentRows
  BY <1>0 DEF TypeOK
<1>2. commitment'[a] = Seal(commitment[a], ClaimsOn(a), IssuedTotal(a))
  BY <1>0 DEF Close, TypeOK
<1>3. /\ commitment'[a].closed /\ commitment'[a].manifest = ClaimsOn(a)
      /\ commitment'[a].held = commitment[a].held - (commitment[a].reserved - IssuedTotal(a))
      /\ commitment'[a].phase = IF commitment'[a].held = 0 THEN "SETTLED" ELSE "SEALED"
  BY <1>1, <1>2 DEF Seal, CommitmentRows
<1>4. IssuedTotal(a) \in Nat
  BY <1>0, IssuedTotalNat
<1>5. /\ AcceptedTotal(a) = commitment[a].emitted /\ IssuedTotal(a) <= commitment[a].reserved
      /\ commitment[a].held = commitment[a].reserved - commitment[a].emitted - commitment[a].unissued
      /\ commitment[a].unissued = 0
  BY DEF Close, BooksAgree, Closable, ManifestSound
<1>6. SumOver(Amounts, ClaimsOn(a) \ emissions) = IssuedTotal(a) - AcceptedTotal(a)
  BY ClosureKeeps
<1>7. commitment[a].held \in Nat /\ commitment[a].reserved \in Nat /\ commitment[a].emitted \in Nat
  BY <1>1, CommitmentFields
<1>8. /\ commitment'[a].held = SumOver(Amounts, ClaimsOn(a) \ emissions)
      /\ commitment'[a].held <= commitment[a].held
  BY <1>3, <1>4, <1>5, <1>6, <1>7
<1>9. QED
  BY <1>3, <1>8

\* A closure releases the contract, with the claimed receipts as its list.
LEMMA CloseReleases ==
  ASSUME IInv, StoredOnce, NEW a \in Auths, Close(a)
  PROVE  Promise!Next
<1>0. TypeOK
  BY DEF IInv, TypeInv
<1>1. ClaimsOn(a) \in SUBSET Evidence
  BY <1>0 DEF ClaimsOn, TypeOK
<1>2. PICK list \in SUBSET Evidence : list = ClaimsOn(a)
  BY <1>1
<1>3. HolderOf[a] # NoRequest /\ a \notin Released
  <2>1. Issued(a) /\ ~commitment[a].closed
    BY DEF Close, Closable
  <2>2. QED
    BY <1>0, <2>1, OwnerIsWallet, RequestsAssumption DEF HolderOf, Released, RequestsAssumption
<1>4. \A l \in list : l.auth = a /\ l.op \in Ops /\ payment[l.op].ev = l
  BY <1>2, EvidenceFields DEF ClaimsOn, Close, EntrySound
<1>5. \A l \in list : /\ \A k \in list \cup emissions : k.op = l.op => k = l
                     /\ \A c \in Released : \A k \in ListOf[c] : k.op = l.op => k = l
  BY <1>4 DEF StoredOnce, Released, ListOf
<1>6. {r \in emissions : r.auth = a} \subseteq list
  BY <1>2 DEF StoredOnce, ClaimsOn
<1>7. /\ commitment'[a].closed /\ commitment'[a].manifest = list
      /\ commitment'[a].held = SumOver(Amounts, list \ emissions)
      /\ commitment'[a].held <= commitment[a].held
  BY <1>2, ClosureHolds
<1>8. Promise!Kept(list) = commitment'[a].held
  <2>1. Promise!Kept(list) = Promise!SumOver(Amounts, list \ emissions)
    BY DEF Promise!Kept, Promise!Worth, Amounts
  <2>2. QED
    BY <1>7, <2>1, SameSums
<1>9. \A b \in Auths \ {a} : auth'[b] = auth[b] /\ commitment'[b] = commitment[b]
  BY <1>0 DEF Close, TypeOK
<1>10. Released' = Released \cup {a} /\ ListOf' = [ListOf EXCEPT ![a] = list]
  BY <1>7, <1>9 DEF Released, ListOf
<1>11. /\ EscrowOf' = [EscrowOf EXCEPT ![a] = Promise!Kept(list)]
       /\ Promise!Kept(list) <= EscrowOf[a]
  BY <1>7, <1>8, <1>9 DEF EscrowOf
<1>12. UNCHANGED HolderOf
  <2>1. auth'[a].req = auth[a].req
    BY <1>0 DEF Close, TypeOK, AuthRows
  <2>2. QED
    BY <1>9, <2>1 DEF HolderOf, Issued, Owner
<1>13. UNCHANGED <<balance, topups, emissions>>
  BY DEF Close, money, evidenceTables
<1>14. Promise!Listable(a, list)
  BY <1>4, <1>5 DEF Promise!Listable, Promise!NotDisplacing, Released, ListOf
<1>15. Promise!Release(a, list)
  BY <1>3, <1>6, <1>10, <1>11, <1>12, <1>13, <1>14
     DEF Promise!Release, HolderOf, EscrowOf, Released, ListOf
<1>16. QED
  BY <1>15 DEF Promise!Next

\* The steps that touch what Promise reads.
LEMMA PromiseReads ==
  ASSUME [Next]_vars
  PROVE  \/ UNCHANGED <<balance, topups, auth, commitment, emissions>>
         \/ \E t \in Threads : TopupCommit(t) /\ TopupKeyFree(handler[t].req)
         \/ \E t \in Threads : IssueGrant(t)
         \/ \E e \in Evidence : \E ack \in AckTimes[e] \cup {NoAck} : SubmitAccepted(e, ack)
         \/ \E a \in Auths : Close(a)
         \/ \E p \in LegacyPayments : LegacyAccept(p)
         \/ Restart
<1> USE DEF money, evidenceTables, BooksUnchanged
<1>1. ASSUME NEW t \in Threads, NEW e \in Evidence, NEW ack \in AckTimes[e] \cup {NoAck},
             Submit(t, e, ack), ~SubmitAccepted(e, ack)
      PROVE  UNCHANGED <<balance, topups, auth, commitment, emissions>>
  BY <1>1 DEF Submit, SubmitOmitted, SubmitOnHold, SubmitContested, SubmitInsufficient
<1>2. ASSUME NEW t \in Threads, TopupCommit(t), ~TopupKeyFree(handler[t].req)
      PROVE  UNCHANGED <<balance, topups, auth, commitment, emissions>>
  BY <1>2 DEF TopupCommit
<1>3. CASE UNCHANGED vars
  BY <1>3 DEF vars
<1>4. CASE Next
  BY <1>1, <1>2, <1>4
     DEF Next, TopupRead, IssueRead, IssueRefuse, SubmitReceipt, InsufficientCommit,
         CloseRevoked, CloseContested, Revoke, Abandon
<1>5. QED
  BY <1>3, <1>4

\* The invariant under the promise.
PInv == EInv /\ StoredOnce

LEMMA PromiseInvariant ==
  /\ Init => PInv
  /\ PInv /\ [Next]_vars => PInv'
<1>1. Init => StoredOnce
  BY DEF Init, StoredOnce, Paid, Known, NoCommitment
<1>2. QED
  BY <1>1, EvidenceInit, EvidenceStep, StoredStep DEF PInv

\* Every step of the ledger is a step of the contracts, or leaves them alone.
LEMMA PromiseStep ==
  PInv /\ [Next]_vars => [Promise!Next]_(Promise!vars)
<1> SUFFICES ASSUME PInv, [Next]_vars PROVE Promise!Next \/ UNCHANGED Promise!vars
  OBVIOUS
<1>0. EInv /\ StoredOnce /\ IInv /\ IInv' /\ TypeOK /\ EscrowCovered
  BY InvariantStep DEF PInv, EInv, IInv, TypeInv
<1>1. ASSUME NEW t \in Threads, TopupCommit(t), TopupKeyFree(handler[t].req) PROVE Promise!Next
  BY <1>0, <1>1, TopupDeposits
<1>2. ASSUME NEW t \in Threads, IssueGrant(t) PROVE Promise!Next
  BY <1>0, <1>2, GrantReserves
<1>3. ASSUME NEW e \in Evidence, NEW ack \in AckTimes[e] \cup {NoAck}, SubmitAccepted(e, ack)
      PROVE  Promise!Next
  BY <1>0, <1>3, AcceptedPays
<1>4. ASSUME NEW a \in Auths, Close(a) PROVE Promise!Next
  BY <1>0, <1>4, CloseReleases
<1>5. ASSUME NEW p \in LegacyPayments, LegacyAccept(p) PROVE Promise!Next
  BY <1>0, <1>5, LegacySpends
<1>6. CASE Restart
  <2>1. UNCHANGED <<balance, topups, auth, commitment, emissions>>
    BY <1>0, <1>6, RestartRepairsNothing DEF Restart, money
  <2>2. QED
    BY <2>1, PromiseStutters
<1>7. CASE UNCHANGED <<balance, topups, auth, commitment, emissions>>
  BY <1>7, PromiseStutters
<1>8. \/ UNCHANGED <<balance, topups, auth, commitment, emissions>>
      \/ \E t \in Threads : TopupCommit(t) /\ TopupKeyFree(handler[t].req)
      \/ \E t \in Threads : IssueGrant(t)
      \/ \E e \in Evidence : \E ack \in AckTimes[e] \cup {NoAck} : SubmitAccepted(e, ack)
      \/ \E a \in Auths : Close(a)
      \/ \E p \in LegacyPayments : LegacyAccept(p)
      \/ Restart
  BY PromiseReads
<1>9. QED
  BY <1>1, <1>2, <1>3, <1>4, <1>5, <1>6, <1>7, <1>8

\* The ledger keeps the promise: whatever the threads, the races, the crashes and
\* the order of the receipts, its tables behave as contracts that reserve, pay each
\* receipt once and release once (api_v3.py, sync_v3.py).
THEOREM LedgerKeepsPromise == Spec => KeepsPromise
<1>1. PInv /\ [Next]_vars => [Promise!Next]_(Promise!vars)
  BY PromiseStep
<1>2. QED
  BY <1>1, PromiseInit, PromiseInvariant, PTL DEF Spec, KeepsPromise, Promise!Spec

----------------------------------------------------------------------------
(* The counters of the commitments and the emission rows.                   *)

Emitted(a) == {e \in emissions : e.auth = a}

\* The emissions of an authorization are finitely many receipts, and it was issued.
LEMMA EmittedFinite ==
  ASSUME PInv, NEW a \in Auths
  PROVE  /\ Emitted(a) \subseteq Evidence /\ IsFiniteSet(Emitted(a))
         /\ \A e \in Evidence : Amounts[e] = e.amount /\ Amounts[e] \in Nat \ {0}
         /\ Emitted(a) # {} => Issued(a)
<1>1. TypeOK /\ ClaimsComplete /\ StoredOnce
  BY DEF PInv, EInv, IInv, TypeInv
<1>2. Emitted(a) \subseteq Evidence
  BY <1>1 DEF Emitted, TypeOK
<1>3. IsFiniteSet(Emitted(a))
  BY <1>2, FS_Subset, FiniteAssumption DEF FiniteAssumption
<1>4. \A e \in Evidence : Amounts[e] = e.amount /\ Amounts[e] \in Nat \ {0}
  BY EvidenceFields DEF Amounts
<1>5. Emitted(a) # {} => Issued(a)
  BY <1>1 DEF Emitted, StoredOnce, ClaimsComplete
<1>6. QED
  BY <1>2, <1>3, <1>4, <1>5

\* One more receipt in a set of them.
LEMMA ReceiptCounted ==
  ASSUME NEW S, S \subseteq Evidence, NEW e \in Evidence, e \notin S
  PROVE  /\ SumOver(Amounts, S \cup {e}) = SumOver(Amounts, S) + e.amount
         /\ Cardinality(S \cup {e}) = Cardinality(S) + 1
<1>1. IsFiniteSet(S)
  BY FS_Subset, FiniteAssumption DEF FiniteAssumption
<1>2. \A f \in S \cup {e} : Amounts[f] \in Nat
  BY EvidenceFields DEF Amounts
<1>3. Amounts[e] = e.amount
  BY DEF Amounts
<1>4. SumOver(Amounts, S \cup {e}) = SumOver(Amounts, S) + Amounts[e]
  BY <1>1, <1>2, SumAdd
<1>5. QED
  BY <1>1, <1>3, <1>4, FS_AddElement

\* Every step keeps the counters explained.
LEMMA CountersStep ==
  ASSUME PInv, EmissionsExplainCommitment, [Next]_vars
  PROVE  EmissionsExplainCommitment'
<1>0. EInv /\ IInv /\ TypeOK /\ Fresh /\ StoredOnce /\ ClaimsComplete
  BY DEF PInv, EInv, IInv, TypeInv
<1> DEFINE Counted(a) ==
      /\ commitment[a].emitted = SumOver(Amounts, Emitted(a))
      /\ commitment[a].count = Cardinality(Emitted(a))
      /\ Issued(a) => auth[a].payments + commitment[a].count = auth[a].req.maxPayments
      /\ \A e, f \in Emitted(a) : e.index = f.index => e = f
<1> SUFFICES ASSUME NEW a \in Auths PROVE Counted(a)'
  BY Zenon DEF EmissionsExplainCommitment, Emitted
<1>a. Counted(a)
  BY Zenon DEF EmissionsExplainCommitment, Emitted
<1>b. /\ commitment[a] \in CommitmentRows /\ auth[a] \in AuthRows
      /\ auth[a].payments \in Nat
  BY <1>0 DEF TypeOK, AuthRows
<1>1. ASSUME Emitted(a)' = Emitted(a),
             commitment'[a].emitted = commitment[a].emitted,
             commitment'[a].count = commitment[a].count,
             auth'[a].payments = auth[a].payments, auth'[a].req = auth[a].req
      PROVE  Counted(a)'
  BY <1>a, <1>1 DEF Issued
<1>2. ASSUME NEW t \in Threads, IssueGrant(t) PROVE Counted(a)'
  <2> DEFINE r == handler[t].req
             n == Grantable(r)
  <2>1. PICK b \in Auths :
          /\ ~Issued(b)
          /\ auth' = [auth EXCEPT ![b] = [req |-> r, remaining |-> n,
                                          payments |-> r.maxPayments, active |-> TRUE]]
          /\ commitment' = [commitment EXCEPT ![b].reserved = n, ![b].held = n]
    BY <1>2 DEF IssueGrant
  <2>2. Emitted(a)' = Emitted(a)
    BY <1>2 DEF IssueGrant, evidenceTables, Emitted
  <2>3. r \in IssueRequests /\ r.maxPayments \in Nat
    BY <1>0, <1>2, FrameFields, RequestFields DEF IssueGrant
  <2> HIDE DEF r, n
  <2>4. CASE b = a
    <3>1. Emitted(a) = {}
      BY <2>1, <2>4, EmittedFinite
    <3>2. commitment[a] = NoCommitment
      BY <1>0, <2>1, <2>4 DEF Fresh
    <3>3. commitment'[a].emitted = commitment[a].emitted /\ commitment'[a].count = commitment[a].count
      BY <1>0, <1>b, <2>1, <2>4 DEF TypeOK, CommitmentRows
    <3>4. auth'[a].payments = r.maxPayments /\ auth'[a].req = r
      BY <1>0, <2>1, <2>4 DEF TypeOK
    <3>5. commitment'[a].count = 0
      BY <3>2, <3>3 DEF NoCommitment
    <3>6. QED
      BY <1>a, <2>2, <2>3, <3>1, <3>3, <3>4, <3>5 DEF Issued
  <2>5. CASE b # a
    <3>1. commitment'[a] = commitment[a] /\ auth'[a] = auth[a]
      BY <1>0, <2>1, <2>5 DEF TypeOK
    <3>2. QED
      BY <1>1, <2>2, <3>1
  <2>6. QED
    BY <2>4, <2>5
<1>3. ASSUME NEW e \in Evidence, NEW ack \in AckTimes[e] \cup {NoAck}, SubmitAccepted(e, ack)
      PROVE  Counted(a)'
  <2>1. /\ e.auth \in Auths /\ Issued(e.auth) /\ e.amount \in Nat \ {0}
        /\ emissions' = emissions \cup {e} /\ e \notin emissions
        /\ auth[e.auth].payments > 0
    BY <1>0, <1>3, AcceptedFinds, AcceptedWrites DEF SubmitAccepted, Ready, Applicable
  <2>2. CASE e.auth # a
    <3>1. commitment'[a] = commitment[a] /\ auth'[a] = auth[a]
      BY <1>0, <1>3, <2>2 DEF SubmitAccepted, TypeOK
    <3>2. Emitted(a)' = Emitted(a)
      BY <2>1, <2>2 DEF Emitted
    <3>3. QED
      BY <1>1, <3>1, <3>2
  <2>3. CASE e.auth = a
    <3>1. Emitted(a)' = Emitted(a) \cup {e} /\ e \notin Emitted(a) /\ Emitted(a) \subseteq Evidence
      BY <2>1, <2>3, EmittedFinite DEF Emitted
    <3>2. commitment'[a] = Emit(commitment[a], e.amount)
      BY <1>0, <1>3, <2>1, <2>3 DEF SubmitAccepted, TypeOK
    <3>3. /\ commitment'[a].emitted = commitment[a].emitted + e.amount
          /\ commitment'[a].count = commitment[a].count + 1
      BY <1>b, <3>2 DEF Emit, CommitmentRows
    <3>4. auth'[a].payments = auth[a].payments - 1 /\ auth'[a].req = auth[a].req
      BY <1>0, <1>b, <1>3, <2>3 DEF SubmitAccepted, TypeOK, AuthRows
    <3>5. \A f \in Emitted(a) : f.index # e.index
      <4>1. ~IndexEmitted(e) /\ e.op \notin {m.op : m \in emissions}
        BY <1>3 DEF SubmitAccepted, Ready
      <4>2. QED
        BY <2>3, <4>1 DEF Emitted, IndexEmitted
    <3>6. /\ SumOver(Amounts, Emitted(a) \cup {e}) = SumOver(Amounts, Emitted(a)) + e.amount
          /\ Cardinality(Emitted(a) \cup {e}) = Cardinality(Emitted(a)) + 1
      BY <3>1, ReceiptCounted
    <3>7. /\ commitment'[a].emitted = SumOver(Amounts, Emitted(a)')
          /\ commitment'[a].count = Cardinality(Emitted(a)')
      BY <1>a, <3>1, <3>3, <3>6
    <3>8. auth'[a].payments + commitment'[a].count = auth'[a].req.maxPayments
      <4>1. auth[a].payments + commitment[a].count = auth[a].req.maxPayments
        BY <1>a, <2>1, <2>3
      <4>2. commitment[a].count \in Nat
        BY <1>b, CommitmentFields
      <4>3. QED
        BY <1>b, <3>3, <3>4, <4>1, <4>2
    <3>9. \A f, g \in Emitted(a)' : f.index = g.index => f = g
      BY <1>a, <3>1, <3>5
    <3>10. QED
      BY <3>7, <3>8, <3>9
  <2>4. QED
    BY <2>2, <2>3
<1>4. ASSUME NEW b \in Auths, Close(b) PROVE Counted(a)'
  <2>1. Emitted(a)' = Emitted(a)
    BY <1>4 DEF Close, evidenceTables, Emitted
  <2>2. auth'[a].payments = auth[a].payments /\ auth'[a].req = auth[a].req
    BY <1>0, <1>b, <1>4 DEF Close, TypeOK, AuthRows
  <2>3. commitment'[a].emitted = commitment[a].emitted /\ commitment'[a].count = commitment[a].count
    <3>1. CASE b # a
      BY <1>0, <1>4, <3>1 DEF Close, TypeOK
    <3>2. CASE b = a
      <4>1. commitment'[a] = Seal(commitment[a], ClaimsOn(a), IssuedTotal(a))
        BY <1>0, <1>4, <3>2 DEF Close, TypeOK
      <4>2. QED
        BY <1>b, <4>1 DEF Seal, CommitmentRows
    <3>3. QED
      BY <3>1, <3>2
  <2>4. QED
    BY <1>1, <2>1, <2>2, <2>3
<1>5. ASSUME UNCHANGED <<auth, commitment, emissions>> PROVE Counted(a)'
  BY <1>1, <1>5 DEF Emitted
<1>6. CASE Restart
  BY <1>0, <1>5, <1>6, RestartRepairsNothing DEF Restart
<1> HIDE DEF Counted
<1>7. QED
  BY <1>2, <1>3, <1>4, <1>5, <1>6, PromiseReads DEF TopupCommit, LegacyAccept, evidenceTables

\* The invariant of the counters holds at the start and every step keeps it.
LEMMA CountersInvariant ==
  /\ Init => EmissionsExplainCommitment
  /\ PInv /\ EmissionsExplainCommitment /\ [Next]_vars => EmissionsExplainCommitment'
<1>1. ASSUME Init, NEW a \in Auths
      PROVE  /\ commitment[a].emitted = SumOver(Amounts, Emitted(a))
             /\ commitment[a].count = Cardinality(Emitted(a))
             /\ ~Issued(a)
             /\ \A e, f \in Emitted(a) : e.index = f.index => e = f
  <2>1. Emitted(a) = {}
    BY <1>1 DEF Init, Emitted
  <2>2. commitment[a].emitted = 0 /\ commitment[a].count = 0 /\ ~Issued(a)
    BY <1>1 DEF Init, NoCommitment, Issued, NoAuth
  <2>3. QED
    BY <2>1, <2>2, SumEmpty, FS_EmptySet
<1>2. Init => EmissionsExplainCommitment
  BY <1>1, Zenon DEF EmissionsExplainCommitment, Emitted
<1>3. QED
  BY <1>2, CountersStep

\* The counters of every commitment and of its authorization are explained by its
\* emission rows, whatever the order of payments, closures and restarts (_apply).
THEOREM EmissionsExplain == Spec => []EmissionsExplainCommitment
BY CountersInvariant, PromiseInvariant, PTL DEF Spec

\* When the entries of an authorization are sound, the accepted ones are its emissions.
LEMMA AcceptedAreEmitted ==
  ASSUME PInv, NEW a \in Auths, \A c \in ClaimsOn(a) : EntrySound(c)
  PROVE  {c \in ClaimsOn(a) : payment[c.op].state = "ACCEPTED"} = Emitted(a)
<1>0. TypeOK /\ StoredOnce
  BY DEF PInv, EInv, IInv, TypeInv
<1>1. ASSUME NEW c \in ClaimsOn(a), payment[c.op].state = "ACCEPTED" PROVE c \in Emitted(a)
  <2>1. c \in Evidence /\ c.op \in Ops /\ c.auth = a /\ payment[c.op].ev = c
    BY <1>0, EvidenceFields DEF ClaimsOn, TypeOK, EntrySound
  <2>2. Paid(c.op)
    BY <1>1, <2>1 DEF Paid, Known, NoRow
  <2>3. QED
    BY <1>0, <2>1, <2>2 DEF StoredOnce, Emitted
<1>2. ASSUME NEW e \in Emitted(a)
      PROVE  e \in ClaimsOn(a) /\ payment[e.op].state = "ACCEPTED"
  BY <1>0, <1>2 DEF StoredOnce, Emitted, ClaimsOn, Paid
<1>3. QED
  BY <1>1, <1>2

\* The tables agree so far that no handler can find what it refuses.
LEMMA TablesAgree ==
  ASSUME PInv, EmissionsExplainCommitment
  PROVE  RefusalsNeverArise
<1>0. TypeOK /\ Conservation /\ StoredOnce
  BY DEF PInv, EInv, IInv, TypeInv
<1>1. ASSUME NEW e \in Evidence, NEW ack \in AckTimes[e] \cup {NoAck},
             Processable(e, ack), ~Collides(e)
      PROVE  ~IndexEmitted(e) /\ e.op \notin {m.op : m \in emissions}
  <2>1. ASSUME NEW m \in emissions PROVE m \in claims /\ Paid(m.op)
    BY <1>0, <2>1 DEF StoredOnce
  <2>2. ~IndexEmitted(e)
    BY <1>1, <2>1 DEF IndexEmitted, Collides, IndexContested
  <2>3. ~Paid(e.op)
    BY <1>1 DEF Processable, Admissible, Paid
  <2>4. QED
    BY <2>1, <2>2, <2>3
<1>2. ASSUME NEW a \in Auths, Closable(a), \A c \in ClaimsOn(a) : EntrySound(c)
      PROVE  BooksAgree(a)
  <2>1. commitment[a].emitted = SumOver(Amounts, Emitted(a))
    BY Zenon DEF EmissionsExplainCommitment, Emitted
  <2>2. AcceptedTotal(a) = commitment[a].emitted
    BY <1>2, <2>1, AcceptedAreEmitted DEF AcceptedTotal
  <2>3. IssuedTotal(a) >= commitment[a].emitted
    <3>1. ClaimsOn(a) \subseteq Evidence
      BY <1>0 DEF ClaimsOn, TypeOK
    <3>2. IsFiniteSet(ClaimsOn(a)) /\ \A c \in ClaimsOn(a) : Amounts[c] \in Nat
      BY <3>1, EmittedFinite, FS_Subset, FiniteAssumption DEF FiniteAssumption
    <3>3. Emitted(a) \subseteq ClaimsOn(a)
      BY <1>0 DEF StoredOnce, Emitted, ClaimsOn
    <3>4. SumOver(Amounts, Emitted(a)) <= SumOver(Amounts, ClaimsOn(a))
      BY <3>2, <3>3, SumSubset
    <3>5. IssuedTotal(a) \in Nat /\ commitment[a].emitted \in Nat
      BY <1>0, IssuedTotalNat, CommitmentFields DEF TypeOK
    <3>6. QED
      BY <2>1, <3>4, <3>5 DEF IssuedTotal
  <2>4. /\ commitment[a].held = commitment[a].reserved - commitment[a].emitted - commitment[a].unissued
        /\ commitment[a].unissued = 0
    <3>1. commitment[a] \in CommitmentRows
      BY <1>0 DEF TypeOK
    <3>2. QED
      BY <1>0, <1>2, <3>1, CommitmentFields DEF Conservation, Closable
  <2>5. QED
    BY <2>2, <2>3, <2>4 DEF BooksAgree
<1>3. QED
  BY <1>1, <1>2 DEF RefusalsNeverArise

\* The refusals that answer a contradiction between the tables never arise: a payment
\* that no claim announced, and books that a sound manifest does not fit (_apply,
\* close_authorization_v3).
THEOREM ContradictionsNeverArise == Spec => []RefusalsNeverArise
<1>1. PInv /\ EmissionsExplainCommitment => RefusalsNeverArise
  BY TablesAgree
<1>2. QED
  BY <1>1, CountersInvariant, PromiseInvariant, PTL DEF Spec

----------------------------------------------------------------------------
(* What a closed commitment holds, and why an operation is in review.        *)

\* A closed commitment lists its own receipts and holds the ones not emitted.
SealedOwes ==
    \A a \in Auths : commitment[a].closed =>
        /\ \A c \in commitment[a].manifest : c.auth = a
        /\ commitment[a].held = SumOver(Amounts, commitment[a].manifest \ emissions)
        /\ commitment[a].phase = "SETTLED" <=> commitment[a].held = 0

\* Every step keeps it.
LEMMA SealedStep ==
  ASSUME PInv, SealedOwes, [Next]_vars
  PROVE  SealedOwes'
<1>0. EInv /\ IInv /\ TypeOK /\ StoredOnce
  BY DEF PInv, EInv, IInv, TypeInv
<1> DEFINE Owes(a) ==
      commitment[a].closed =>
        /\ \A c \in commitment[a].manifest : c.auth = a
        /\ commitment[a].held = SumOver(Amounts, commitment[a].manifest \ emissions)
        /\ commitment[a].phase = "SETTLED" <=> commitment[a].held = 0
<1> SUFFICES ASSUME NEW a \in Auths PROVE Owes(a)'
  BY DEF SealedOwes
<1>a. Owes(a)
  BY DEF SealedOwes
<1>1. ASSUME UNCHANGED <<commitment, emissions>> PROVE Owes(a)'
  BY <1>a, <1>1
<1>2. ASSUME commitment'[a] = commitment[a], UNCHANGED emissions PROVE Owes(a)'
  BY <1>a, <1>2
<1>3. ASSUME NEW t \in Threads, IssueGrant(t) PROVE Owes(a)'
  <2> DEFINE n == Grantable(handler[t].req)
  <2>1. PICK b \in Auths :
          ~Issued(b) /\ commitment' = [commitment EXCEPT ![b].reserved = n, ![b].held = n]
    BY <1>3 DEF IssueGrant
  <2> HIDE DEF n
  <2>2. UNCHANGED emissions
    BY <1>3 DEF IssueGrant, evidenceTables
  <2>3. CASE b = a
    <3>1. commitment[a].closed = FALSE
      BY <1>0, <2>1, <2>3 DEF IInv, Fresh, NoCommitment
    <3>2. commitment'[a].closed = commitment[a].closed
      BY <1>0, <2>1 DEF TypeOK, CommitmentRows
    <3>3. QED
      BY <3>1, <3>2
  <2>4. CASE b # a
    <3>1. commitment'[a] = commitment[a]
      BY <1>0, <2>1, <2>4 DEF TypeOK
    <3>2. QED
      BY <1>2, <2>2, <3>1
  <2>5. QED
    BY <2>3, <2>4
<1>4. ASSUME NEW e \in Evidence, NEW ack \in AckTimes[e] \cup {NoAck}, SubmitAccepted(e, ack)
      PROVE  Owes(a)'
  <2>1. /\ e.auth \in Auths /\ e.amount \in Nat \ {0} /\ commitment[e.auth].held >= e.amount
        /\ emissions' = emissions \cup {e} /\ e \notin emissions
    BY <1>0, <1>4, AcceptedFinds, AcceptedWrites DEF SubmitAccepted, Ready
  <2>2. CASE e.auth # a
    <3>1. commitment'[a] = commitment[a]
      BY <1>0, <1>4, <2>1, <2>2 DEF SubmitAccepted, TypeOK
    <3>2. ASSUME commitment[a].closed
          PROVE  commitment[a].manifest \ emissions' = commitment[a].manifest \ emissions
      BY <1>a, <2>1, <2>2, <3>2
    <3>3. QED
      BY <1>a, <3>1, <3>2
  <2>3. CASE e.auth = a
    <3> DEFINE c == commitment[a]
               S == c.manifest \ emissions
    <3>1. commitment'[a] = Emit(c, e.amount) /\ c \in CommitmentRows
      BY <1>0, <1>4, <2>1, <2>3 DEF SubmitAccepted, TypeOK
    <3>2. /\ commitment'[a].closed = c.closed /\ commitment'[a].manifest = c.manifest
          /\ commitment'[a].held = c.held - e.amount
          /\ commitment'[a].phase = IF c.closed /\ c.held = e.amount THEN "SETTLED" ELSE c.phase
      BY <3>1 DEF Emit, CommitmentRows
    <3>3. SUFFICES ASSUME c.closed
                   PROVE  /\ \A l \in c.manifest : l.auth = a
                          /\ c.held - e.amount = SumOver(Amounts, c.manifest \ (emissions \cup {e}))
                          /\ (c.held = e.amount \/ c.phase = "SETTLED") <=> c.held - e.amount = 0
      BY <2>1, <3>2
    <3>4. e \in S
      BY <1>4, <2>1, <2>3, <3>3 DEF SubmitAccepted, Ready, Processable, Omitted
    <3>5. c.manifest \ (emissions \cup {e}) = S \ {e} /\ (S \ {e}) \cup {e} = S /\ e \notin S \ {e}
      BY <3>4
    <3>6. S \subseteq Evidence /\ IsFiniteSet(S) /\ IsFiniteSet(S \ {e})
      <4>1. S \subseteq Evidence /\ S \ {e} \subseteq Evidence
        BY <3>1 DEF CommitmentRows
      <4>2. QED
        BY <4>1, FS_Subset, FiniteAssumption DEF FiniteAssumption
    <3>7. \A l \in Evidence : Amounts[l] \in Nat
      BY EvidenceFields DEF Amounts
    <3>8. Amounts[e] = e.amount
      BY DEF Amounts
    <3> DEFINE R == S \ {e}
    <3>9. /\ SumOver(Amounts, R) \in Nat
          /\ SumOver(Amounts, R \cup {e}) = SumOver(Amounts, R) + Amounts[e]
      <4>1. R \cup {e} \subseteq Evidence /\ IsFiniteSet(R) /\ e \notin R
        BY <3>6
      <4> HIDE DEF R
      <4>2. QED
        BY <3>7, <4>1, SumAdd, SumNat
    <3>10. c.held = SumOver(Amounts, S) /\ (c.phase = "SETTLED" <=> c.held = 0)
           /\ \A l \in c.manifest : l.auth = a
      BY <1>a, <3>3
    <3>11. SumOver(Amounts, R \cup {e}) = SumOver(Amounts, S)
      BY <3>5, Zenon
    <3>12. SumOver(Amounts, c.manifest \ (emissions \cup {e})) = SumOver(Amounts, R)
      BY <3>5, Zenon
    <3>13. c.held \in Nat
      BY <3>1, CommitmentFields
    <3> HIDE DEF c, S, R
    <3>14. QED
      BY <2>1, <3>8, <3>9, <3>10, <3>11, <3>12, <3>13
  <2>4. QED
    BY <2>2, <2>3
<1>5. ASSUME NEW b \in Auths, Close(b) PROVE Owes(a)'
  <2>1. UNCHANGED emissions
    BY <1>5 DEF Close, evidenceTables
  <2>2. CASE b # a
    <3>1. commitment'[a] = commitment[a]
      BY <1>0, <1>5, <2>2 DEF Close, TypeOK
    <3>2. QED
      BY <1>2, <2>1, <3>1
  <2>3. CASE b = a
    <3>1. /\ commitment'[a].closed /\ commitment'[a].manifest = ClaimsOn(a)
          /\ commitment'[a].held = SumOver(Amounts, ClaimsOn(a) \ emissions)
          /\ commitment'[a].phase = IF commitment'[a].held = 0 THEN "SETTLED" ELSE "SEALED"
      BY <1>0, <1>5, <2>3, ClosureHolds
    <3>2. QED
      BY <2>1, <3>1 DEF ClaimsOn
  <2>4. QED
    BY <2>2, <2>3
<1>6. ASSUME Restart PROVE Owes(a)'
  BY <1>0, <1>1, <1>6, RestartRepairsNothing DEF Restart
<1> HIDE DEF Owes
<1>7. QED
  BY <1>1, <1>3, <1>4, <1>5, <1>6, PromiseReads DEF TopupCommit, LegacyAccept, evidenceTables

\* The indices of what was claimed, or is about to be, fit in the authorization; so
\* do the receipts of a manifest, among which are all that the authorization paid.
Fits(e) == e.index <= auth[e.auth].req.maxPayments

ManifestFits ==
    /\ \A c \in claims : Fits(c)
    /\ \A t \in Threads : handler[t].kind = "insufficient" => Fits(handler[t].ev)
    /\ \A a \in Auths : commitment[a].closed =>
         /\ Cardinality(commitment[a].manifest) <= auth[a].req.maxPayments
         /\ Emitted(a) \subseteq commitment[a].manifest

\* A claim was there before, or it is the claim of a receipt that fits.
LEMMA ClaimsFit ==
  ASSUME PInv, ManifestFits, [Next]_vars
  PROVE  \A c \in claims' : c \in Evidence /\ Issued(c.auth) /\ Fits(c)
<1>0. EInv /\ TypeOK /\ ClaimsComplete /\ InsufficientStays
  BY DEF PInv, EInv, IInv, TypeInv
<1>1. \A c \in claims : c \in Evidence /\ Issued(c.auth) /\ Fits(c)
  BY <1>0 DEF TypeOK, ClaimsComplete, ManifestFits
<1>2. ASSUME NEW e \in Evidence, Issued(e.auth), Fits(e), claims' = ClaimsWith(e)
      PROVE  \A c \in claims' : c \in Evidence /\ Issued(c.auth) /\ Fits(c)
  BY <1>1, <1>2 DEF ClaimsWith
<1>3. ASSUME NEW e \in Evidence, NEW ack, Valid(e, ack) PROVE Issued(e.auth) /\ Fits(e)
  BY <1>3 DEF Valid, Bound, Fits
<1>4. ASSUME NEW e \in Evidence, Recorded(e) \/ SubmitReceipt(e) \/ Accepted(e)
      PROVE  \A c \in claims' : c \in Evidence /\ Issued(c.auth) /\ Fits(c)
  <2>1. PICK ack : Valid(e, ack) /\ claims' = ClaimsWith(e)
    BY <1>4 DEF Recorded, SubmitOmitted, SubmitOnHold, SubmitContested, SubmitReceipt,
                Accepted, SubmitAccepted, Ready, Processable
  <2>2. QED
    BY <1>2, <1>3, <2>1
<1>5. ASSUME NEW t \in Threads, InsufficientCommit(t)
      PROVE  \A c \in claims' : c \in Evidence /\ Issued(c.auth) /\ Fits(c)
  <2>1. /\ handler[t].ev \in Evidence /\ Issued(handler[t].ev.auth)
        /\ claims' = ClaimsWith(handler[t].ev)
    BY <1>0, <1>5, InsufficientWrites
  <2>2. Fits(handler[t].ev)
    BY <1>5 DEF ManifestFits, InsufficientCommit
  <2>3. QED
    BY <1>2, <2>1, <2>2
<1>6. CASE UNCHANGED claims
  BY <1>1, <1>6
<1>7. CASE Restart
  BY <1>0, <1>6, <1>7, RestartRepairsNothing
<1>8. CASE \E a \in Auths : CloseRevoked(a) \/ CloseContested(a)
  BY <1>6, <1>8 DEF CloseRevoked, CloseContested, evidenceTables
<1>9. QED
  BY <1>4, <1>5, <1>6, <1>7, <1>8, EvidenceSteps

\* A closure lists no more receipts than the authorization allows: they are numbered
\* from 1, and the index of each fits.
LEMMA ClosureFits ==
  ASSUME PInv, ManifestFits, NEW a \in Auths, Close(a)
  PROVE  /\ commitment'[a].manifest = ClaimsOn(a)
         /\ Cardinality(ClaimsOn(a)) <= auth[a].req.maxPayments
         /\ Emitted(a) \subseteq ClaimsOn(a)
<1>0. EInv /\ IInv /\ TypeOK /\ StoredOnce
  BY DEF PInv, EInv, IInv, TypeInv
<1> DEFINE n == Cardinality(ClaimsOn(a))
<1>1. n \in Nat
  <2>1. ClaimsOn(a) \subseteq Evidence
    BY <1>0 DEF ClaimsOn, TypeOK
  <2>2. QED
    BY <2>1, FS_Subset, FS_CardinalityType, FiniteAssumption DEF FiniteAssumption
<1>2. auth[a].req.maxPayments \in Nat
  BY <1>0, OwnerIsWallet, RequestFields DEF Close, Closable
<1>3. \A c \in ClaimsOn(a) : c.index <= auth[a].req.maxPayments
  BY DEF ManifestFits, Fits, ClaimsOn
<1>4. {c.index : c \in ClaimsOn(a)} = 1 .. n
  BY DEF Close, Closable, ManifestSound
<1> HIDE DEF n
<1>5. n <= auth[a].req.maxPayments
  <2>1. CASE n = 0
    BY <1>2, <2>1
  <2>2. CASE n # 0
    <3>1. n \in 1 .. n
      BY <1>1, <2>2
    <3>2. PICK c \in ClaimsOn(a) : c.index = n
      BY <1>4, <3>1
    <3>3. QED
      BY <1>3, <3>2
  <2>3. QED
    BY <2>1, <2>2
<1>6. commitment'[a].manifest = ClaimsOn(a)
  BY <1>0, ClosureHolds
<1>7. Emitted(a) \subseteq ClaimsOn(a)
  BY <1>0 DEF StoredOnce, Emitted, ClaimsOn
<1>8. QED
  BY <1>5, <1>6, <1>7 DEF n

\* Every step keeps the manifests within their authorizations.
LEMMA ManifestFitsStep ==
  ASSUME PInv, ManifestFits, [Next]_vars
  PROVE  ManifestFits'
<1>0. EInv /\ IInv /\ TypeOK /\ Fresh /\ StoredOnce /\ InsufficientStays
  BY DEF PInv, EInv, IInv, TypeInv
<1>1. ASSUME NEW e \in Evidence, Issued(e.auth), Fits(e)
      PROVE  Fits(e)'
  <2>1. auth'[e.auth].req = auth[e.auth].req
    BY <1>0, <1>1, IssuedStays, EvidenceFields
  <2>2. QED
    BY <1>1, <2>1 DEF Fits
<1>2. \A c \in claims' : Fits(c)'
  BY <1>1, ClaimsFit
<1>3. ASSUME NEW t \in Threads, handler'[t].kind = "insufficient"
      PROVE  \E e \in Evidence : handler'[t].ev = e /\ Fits(e)'
  <2>1. CASE handler'[t] = handler[t]
    <3>1. /\ handler[t].ev \in Evidence /\ Issued(handler[t].ev.auth)
          /\ Fits(handler[t].ev)
      BY <1>0, <1>3, <2>1, FrameFields DEF InsufficientStays, ManifestFits
    <3>2. PICK e \in Evidence : handler[t].ev = e
      BY <3>1
    <3>3. QED
      BY <1>1, <2>1, <3>1, <3>2
  <2>2. ASSUME NEW e \in Evidence, NEW ack \in AckTimes[e] \cup {NoAck},
               SubmitInsufficient(t, e, ack)
        PROVE  Fits(e)'
    <3>1. Issued(e.auth) /\ Fits(e)
      BY <2>2 DEF SubmitInsufficient, Ready, Processable, Valid, Bound, Fits
    <3>2. QED
      BY <1>1, <3>1
  <2>3. QED
    BY <1>0, <1>3, <2>1, <2>2, FrameChanges
<1>4. ASSUME NEW a \in Auths, commitment'[a].closed
      PROVE  /\ Cardinality(commitment'[a].manifest) <= auth'[a].req.maxPayments
             /\ Emitted(a)' \subseteq commitment'[a].manifest
  <2>1. CASE Close(a)
    <3>1. /\ commitment'[a].manifest = ClaimsOn(a) /\ Emitted(a) \subseteq ClaimsOn(a)
          /\ Cardinality(ClaimsOn(a)) <= auth[a].req.maxPayments
      BY <2>1, ClosureFits
    <3>2. Emitted(a)' = Emitted(a) /\ auth'[a].req = auth[a].req
      <4>1. Issued(a)
        BY <2>1 DEF Close, Closable
      <4>2. QED
        BY <1>0, <2>1, <4>1, IssuedStays DEF Close, evidenceTables, Emitted
    <3>3. QED
      BY <3>1, <3>2
  <2>2. CASE ~Close(a)
    <3>1. commitment[a].closed /\ commitment'[a].manifest = commitment[a].manifest
      BY <1>0, <1>4, <2>2, ManifestStays
    <3>2. Issued(a)
      BY <1>0, <3>1 DEF Fresh, NoCommitment
    <3>3. auth'[a].req = auth[a].req
      BY <1>0, <3>2, IssuedStays
    <3>4. Emitted(a)' \subseteq commitment[a].manifest
      <4>1. Emitted(a) \subseteq commitment[a].manifest
        BY <3>1 DEF ManifestFits
      <4>2. ASSUME NEW e \in Evidence, Accepted(e), e.auth = a
            PROVE  e \in commitment[a].manifest
        BY <3>1, <4>2 DEF Accepted, SubmitAccepted, Ready, Processable, Omitted
      <4>3. ASSUME NEW e \in Evidence, Accepted(e)
            PROVE  emissions' = emissions \cup {e}
        BY <4>3 DEF Accepted, SubmitAccepted
      <4>4. QED
        BY <4>1, <4>2, <4>3, EmissionSteps DEF Emitted
    <3>5. QED
      BY <3>1, <3>3, <3>4 DEF ManifestFits
  <2>3. QED
    BY <2>1, <2>2
<1>5. QED
  BY <1>2, <1>3, <1>4 DEF ManifestFits, Fits

\* Each receipt that a closed commitment holds can still be paid.
LEMMA OwedIsApplicable ==
  ASSUME PInv, SealedOwes, EmissionsExplainCommitment, ManifestFits,
         NEW a \in Auths, commitment[a].closed, NEW e \in commitment[a].manifest \ emissions
  PROVE  Applicable(e)
<1>0. IInv /\ TypeOK /\ Fresh /\ Conservation /\ EscrowCovered
  BY DEF PInv, EInv, IInv, TypeInv
<1> DEFINE c == commitment[a]
           S == c.manifest \ emissions
<1>1. c \in CommitmentRows /\ auth[a] \in AuthRows /\ auth[a].payments \in Nat
  BY <1>0 DEF TypeOK, AuthRows
<1>2. /\ c.reserved \in Nat /\ c.emitted \in Nat /\ c.held \in Nat /\ c.unissued \in Nat
      /\ c.count \in Nat /\ c.manifest \subseteq Evidence
  BY <1>1, CommitmentFields
<1>3. e \in Evidence /\ e.auth = a /\ e.amount \in Nat \ {0} /\ Amounts[e] = e.amount
  BY <1>2, EvidenceFields DEF SealedOwes, Amounts
<1>4. Issued(a) /\ Owner(a) \in Accounts /\ auth[a].req.maxPayments \in Nat
  <2>1. Issued(a)
    BY <1>0 DEF Fresh, NoCommitment
  <2>2. QED
    BY <1>0, <2>1, OwnerIsWallet, RequestFields
<1>5. c.held >= e.amount
  <2>1. \A f \in S : Amounts[f] \in Nat
    BY <1>2, EmittedFinite
  <2>2. IsFiniteSet(S)
    BY <1>2, FS_Subset, FiniteAssumption DEF FiniteAssumption
  <2>3. SumOver(Amounts, {e}) = e.amount
    BY <1>3, SumOne
  <2>4. SumOver(Amounts, {e}) <= SumOver(Amounts, S)
    BY <2>1, <2>2, SumSubset
  <2>5. c.held = SumOver(Amounts, S)
    BY DEF SealedOwes
  <2>6. QED
    BY <1>2, <1>3, <2>3, <2>4, <2>5
<1>6. c.reserved = c.emitted + c.held + c.unissued /\ auth[a].remaining = c.reserved - c.emitted
  BY <1>0 DEF Conservation
<1>7. c.held <= balance[Owner(a)] /\ balance[Owner(a)] \in Nat
  BY <1>0, <1>4, HeldCovered DEF TypeOK
<1>8. auth[a].payments > 0
  <2> DEFINE M == c.manifest
  <2>1. auth[a].payments + c.count = auth[a].req.maxPayments /\ c.count = Cardinality(Emitted(a))
    BY <1>4, Zenon DEF EmissionsExplainCommitment, Emitted
  <2>2. Cardinality(M) <= auth[a].req.maxPayments /\ Emitted(a) \subseteq M
    BY DEF ManifestFits
  <2>3. IsFiniteSet(M) /\ IsFiniteSet(M \ {e}) /\ e \in M
    BY <1>2, FS_Subset, FiniteAssumption DEF FiniteAssumption
  <2>4. Emitted(a) \subseteq M \ {e}
    BY <2>2 DEF Emitted
  <2> HIDE DEF M
  <2>5. Cardinality(M \ {e}) = Cardinality(M) - 1
    BY <2>3, FS_RemoveElement
  <2>6. Cardinality(Emitted(a)) <= Cardinality(M \ {e})
    BY <2>3, <2>4, FS_Subset
  <2>7. Cardinality(M) \in Nat
    BY <2>3, FS_CardinalityType
  <2>8. QED
    BY <1>1, <1>2, <1>4, <2>1, <2>2, <2>5, <2>6, <2>7
<1> HIDE DEF c
<1>9. /\ auth[a].remaining >= e.amount /\ balance[Owner(a)] >= e.amount
      /\ c.emitted + e.amount <= c.reserved
  BY <1>2, <1>3, <1>5, <1>6, <1>7
<1>10. QED
  BY <1>3, <1>5, <1>8, <1>9 DEF Applicable, c

\* A closed commitment holds exactly its unpaid receipts, each of which can still be
\* paid, and it is settled when none is left, in whatever order they are paid
\* (close_authorization_v3, _apply).
THEOREM SealedHoldsItsReceipts == Spec => []SealedHoldsWhatIsOwed
<1>1. Init => SealedOwes /\ ManifestFits
  BY DEF Init, SealedOwes, ManifestFits, NoCommitment, Idle
<1>2. PInv /\ SealedOwes /\ EmissionsExplainCommitment /\ ManifestFits => SealedHoldsWhatIsOwed
  <2> SUFFICES ASSUME PInv, SealedOwes, EmissionsExplainCommitment, ManifestFits,
                      NEW a \in Auths, commitment[a].closed
               PROVE  /\ {e \in commitment[a].manifest : payment[e.op].state # "ACCEPTED"}
                           = commitment[a].manifest \ emissions
                      /\ \A e \in commitment[a].manifest \ emissions : Applicable(e)
    BY Zenon DEF SealedHoldsWhatIsOwed, SealedOwes
  <2>1. TypeOK /\ StoredOnce
    BY DEF PInv, EInv, IInv, TypeInv
  <2>2. ASSUME NEW e \in commitment[a].manifest
        PROVE  e \in emissions <=> payment[e.op].state = "ACCEPTED"
    <3>1. e \in Evidence /\ e.op \in Ops /\ Known(e.op) /\ payment[e.op].ev = e
      BY <2>1, EvidenceFields DEF TypeOK, CommitmentRows, StoredOnce
    <3>2. QED
      BY <2>1, <3>1 DEF StoredOnce, Paid
  <2>3. QED
    BY <2>2, OwedIsApplicable
<1>3. QED
  BY <1>1, <1>2, PromiseInvariant, CountersInvariant, SealedStep, ManifestFitsStep, PTL DEF Spec

\* A cause for the review of an operation whose receipt is e.
Cause(op, e) ==
    \/ \E ack \in AckTimes[e] \cup {NoAck} : Revoked(e, ack)
    \/ \E f \in Evidence : f.op = op /\ Issued(f.auth) /\ review[Owner(f.auth)]

\* A key is revoked once, and nobody takes a revocation back.
LEMMA RevocationStays ==
  ASSUME TypeOK, [Next]_vars, NEW k \in Keys, revokedAt[k] # NotRevoked
  PROVE  revokedAt'[k] = revokedAt[k]
<1>1. ASSUME NEW j \in Keys, NEW date \in RevocationTimes, Revoke(j, date)
      PROVE  revokedAt'[k] = revokedAt[k]
  BY <1>1 DEF Revoke, TypeOK
<1>2. ASSUME NEW t \in Threads, NEW e \in Evidence, NEW ack \in AckTimes[e] \cup {NoAck},
             Submit(t, e, ack)
      PROVE  UNCHANGED revokedAt
  BY <1>2 DEF Submit, SubmitOmitted, SubmitOnHold, SubmitContested, SubmitAccepted,
              SubmitInsufficient, BooksUnchanged
<1>3. CASE UNCHANGED vars
  BY <1>3 DEF vars
<1>4. CASE Next
  BY <1>1, <1>2, <1>4
     DEF Next, TopupRead, TopupCommit, IssueRead, IssueGrant, IssueRefuse, SubmitReceipt,
         InsufficientCommit, Close, CloseRevoked, CloseContested, LegacyAccept, Abandon, Restart,
         BooksUnchanged
<1>5. QED
  BY <1>3, <1>4

\* A wallet in review stays in review: the backend has no operation that lifts it.
LEMMA ReviewStays ==
  ASSUME EInv, [Next]_vars, NEW w \in Wallets, review[w]
  PROVE  review'[w]
<1>0. TypeOK /\ InsufficientStays
  BY DEF EInv, IInv, TypeInv
<1>1. ASSUME NEW e \in Evidence, Recorded(e) \/ Accepted(e) \/ SubmitReceipt(e) PROVE review'[w]
  BY <1>0, <1>1, RecordedWrites, ProcessedWrites
<1>2. ASSUME NEW t \in Threads, InsufficientCommit(t) PROVE review'[w]
  BY <1>0, <1>2, InsufficientWrites
<1>3. CASE \E a \in Auths : CloseRevoked(a) \/ CloseContested(a)
  BY <1>0, <1>3 DEF CloseRevoked, CloseContested, Flag, TypeOK
<1>4. CASE Restart
  BY <1>4, RestartRepairsNothing
<1>5. QED
  BY <1>1, <1>2, <1>3, <1>4, EvidenceSteps

\* A cause does not go away.
LEMMA CauseStays ==
  ASSUME EInv, [Next]_vars, NEW op \in Ops, NEW e \in Evidence, Issued(e.auth), Cause(op, e)
  PROVE  Cause(op, e)'
<1>0. TypeOK
  BY DEF EInv, IInv, TypeInv
<1>1. ASSUME NEW ack \in AckTimes[e] \cup {NoAck}, Revoked(e, ack)
      PROVE  Revoked(e, ack)'
  <2>1. e.pos \in Keys /\ e.auth \in Auths
    BY EvidenceFields
  <2>2. auth[e.auth].req.key \in Keys /\ auth'[e.auth].req = auth[e.auth].req
    BY <1>0, <2>1, IssuedStays, OwnerIsWallet, RequestFields
  <2>3. ASSUME NEW k \in Keys, NEW time, RequiresReview(k, time) PROVE RequiresReview(k, time)'
    <3>1. revokedAt'[k] = revokedAt[k]
      BY <1>0, <2>3, RevocationStays DEF RequiresReview
    <3>2. QED
      BY <2>3, <3>1 DEF RequiresReview
  <2>4. PICK key \in Keys : key = auth[e.auth].req.key
    BY <2>2
  <2>5. \/ RequiresReview(e.pos, e.issued)
        \/ RequiresReview(key, e.confirmed)
        \/ ack # NoAck /\ RequiresReview(e.pos, ack)
    BY <1>1, <2>4 DEF Revoked
  <2>6. \/ RequiresReview(e.pos, e.issued)'
        \/ RequiresReview(key, e.confirmed)'
        \/ ack # NoAck /\ RequiresReview(e.pos, ack)'
    BY <2>1, <2>3, <2>5
  <2>7. QED
    BY <2>2, <2>4, <2>6 DEF Revoked, RequiresReview
<1>2. ASSUME NEW f \in Evidence, f.op = op, Issued(f.auth), review[Owner(f.auth)]
      PROVE  Issued(f.auth)' /\ review'[Owner(f.auth)']
  <2>1. f.auth \in Auths
    BY EvidenceFields
  <2>2. Owner(f.auth) \in Wallets /\ Issued(f.auth)' /\ Owner(f.auth)' = Owner(f.auth)
    BY <1>0, <1>2, <2>1, OwnerIsWallet, IssuedStays
  <2>3. review'[Owner(f.auth)]
    BY <1>2, <2>2, ReviewStays
  <2>4. QED
    BY <2>2, <2>3
<1>3. CASE \E ack \in AckTimes[e] \cup {NoAck} : Revoked(e, ack)
  BY <1>1, <1>3 DEF Cause
<1>4. CASE \E f \in Evidence : f.op = op /\ Issued(f.auth) /\ review[Owner(f.auth)]
  BY <1>2, <1>4 DEF Cause
<1>5. QED
  BY <1>3, <1>4 DEF Cause

\* A recorded submission has a cause, or gives one.
LEMMA RecordedHasCause ==
  ASSUME EInv, ReviewHasCause, [Next]_vars, NEW e \in Evidence, Recorded(e)
  PROVE  Cause(e.op, e)'
<1>0. TypeOK
  BY DEF EInv, IInv, TypeInv
<1>1. PICK ack \in AckTimes[e] \cup {NoAck} :
        SubmitOmitted(e, ack) \/ SubmitOnHold(e, ack) \/ SubmitContested(e, ack)
  BY DEF Recorded
<1>2. /\ e.op \in Ops /\ e.auth \in Auths /\ Issued(e.auth)
      /\ Known(e.op) => payment[e.op].ev = e
  BY <1>0, RecordedWrites
<1>3. Owner(e.auth) \in Wallets /\ Issued(e.auth)' /\ Owner(e.auth)' = Owner(e.auth)
  BY <1>0, <1>2, OwnerIsWallet, IssuedStays
<1>4. CASE SubmitOmitted(e, ack) \/ SubmitContested(e, ack)
  <2>1. review' = Flag(Owner(e.auth), TRUE)
    BY <1>4 DEF SubmitOmitted, SubmitContested
  <2>2. review'[Owner(e.auth)']
    BY <1>0, <1>3, <2>1 DEF Flag, TypeOK
  <2>3. QED
    BY <1>3, <2>2 DEF Cause
<1>5. CASE SubmitOnHold(e, ack)
  <2>1. CASE Revoked(e, ack)
    <3>1. Cause(e.op, e)
      BY <2>1 DEF Cause
    <3>2. QED
      BY <1>2, <3>1, CauseStays
  <2>2. CASE Known(e.op) /\ payment[e.op].state = "PENDING_REVIEW"
    <3>1. Cause(e.op, e)
      BY <1>2, <2>2 DEF ReviewHasCause, Cause
    <3>2. QED
      BY <1>2, <3>1, CauseStays
  <2>3. QED
    BY <1>5, <2>1, <2>2 DEF SubmitOnHold, OnHold
<1>6. QED
  BY <1>1, <1>4, <1>5

\* Every step leaves a cause for every operation in review.
LEMMA CauseStep ==
  ASSUME EInv, ReviewHasCause, [Next]_vars
  PROVE  ReviewHasCause'
<1>0. TypeOK /\ TypeOK' /\ InsufficientStays /\ ClaimsComplete
  BY TypeStep DEF EInv, IInv, TypeInv
<1> SUFFICES ASSUME NEW op \in Ops, payment'[op] # NoRow, payment'[op].state = "PENDING_REVIEW",
                    NEW e \in Evidence, e = payment'[op].ev
             PROVE  Cause(op, e)'
  <2>1. \A op \in Ops : payment'[op] # NoRow => payment'[op].ev \in Evidence
    BY <1>0 DEF TypeOK, PaymentRows
  <2>2. QED
    BY <2>1 DEF ReviewHasCause, Cause, Known, Revoked, RequiresReview
<1>1. ASSUME payment'[op] = payment[op] PROVE Cause(op, e)'
  <2>1. Known(op) /\ payment[op].state = "PENDING_REVIEW" /\ payment[op].ev = e
    BY <1>1 DEF Known
  <2>2. Issued(e.auth) /\ Cause(op, e)
    BY <1>0, <2>1 DEF ClaimsComplete, ReviewHasCause, Cause
  <2>3. QED
    BY <2>2, CauseStays
<1>2. ASSUME NEW f \in Evidence, Recorded(f) PROVE Cause(op, e)'
  <2>1. CASE op = f.op
    <3>1. e = f
      BY <1>0, <1>2, <2>1, RecordedWrites
    <3>2. QED
      BY <1>2, <2>1, <3>1, RecordedHasCause
  <2>2. CASE op # f.op
    BY <1>0, <1>1, <1>2, <2>2, RecordedWrites
  <2>3. QED
    BY <2>1, <2>2
<1>3. ASSUME NEW f \in Evidence, SubmitReceipt(f) \/ Accepted(f) PROVE Cause(op, e)'
  <2>1. op # f.op
    <3>1. SubmitReceipt(f) => payment'[f.op].state = "PENDING_EVIDENCE"
      BY <1>0, ProcessedWrites
    <3>2. Accepted(f) => payment'[f.op].state = "ACCEPTED"
      BY <1>0, AcceptedWrites DEF Accepted
    <3>3. QED
      BY <1>3, <3>1, <3>2
  <2>2. QED
    BY <1>0, <1>1, <1>3, <2>1, ProcessedWrites
<1>4. ASSUME NEW t \in Threads, InsufficientCommit(t) PROVE Cause(op, e)'
  <2>1. PICK f \in Evidence : f = handler[t].ev
    BY <1>0, <1>4, InsufficientWrites
  <2>2. /\ f.auth \in Auths /\ Issued(f.auth) /\ review'[Owner(f.auth)]
        /\ \A o \in Ops \ {f.op} : payment'[o] = payment[o]
    BY <1>0, <1>4, <2>1, InsufficientWrites
  <2>3. Issued(f.auth)' /\ Owner(f.auth)' = Owner(f.auth)
    BY <1>0, <2>2, IssuedStays
  <2>4. CASE op = f.op
    BY <2>2, <2>3, <2>4 DEF Cause
  <2>5. CASE op # f.op
    BY <1>1, <2>2, <2>5
  <2>6. QED
    BY <2>4, <2>5
<1>5. ASSUME UNCHANGED payment PROVE Cause(op, e)'
  BY <1>1, <1>5
<1> HIDE DEF Cause
<1>6. QED
  BY <1>2, <1>3, <1>4, <1>5, EvidenceSteps
     DEF CloseRevoked, CloseContested, evidenceTables, Restart

\* An operation in review has a reason: a revocation that reaches it, or a wallet
\* of one of its receipts in review (process_evidence_v3, _apply).
THEOREM ReviewsHaveCauses == Spec => []ReviewHasCause
<1>1. Init => ReviewHasCause
  BY DEF Init, ReviewHasCause, Known
<1>2. QED
  BY <1>1, EvidenceInit, EvidenceStep, CauseStep, PTL DEF Spec

----------------------------------------------------------------------------
(* The books.                                                                *)

\* What the rows of L debit or credit to an account.
Booked(acc, entry, L) ==
    SumOver([r \in L |-> r.cents], {r \in L : r.account = acc /\ r.entry = entry})

\* What the topups of T add to an account.
Added(acc, T) == SumOver([p \in T |-> p.amount], {p \in T : p.wallet = acc})

\* What is booked is an amount.
LEMMA BookedNat ==
  ASSUME NEW L, IsFiniteSet(L), \A r \in L : r.cents \in Nat, NEW acc, NEW entry
  PROVE  Booked(acc, entry, L) \in Nat
<1> DEFINE f == [r \in L |-> r.cents]
           S == {r \in L : r.account = acc /\ r.entry = entry}
<1>1. IsFiniteSet(S) /\ \A r \in S : f[r] \in Nat
  BY FS_Subset
<1> HIDE DEF f, S
<1>2. SumOver(f, S) \in Nat
  BY <1>1, SumNat
<1>3. QED
  BY <1>2 DEF Booked, f, S

\* One more row books its cents once.
LEMMA RowBooked ==
  ASSUME NEW L, IsFiniteSet(L), NEW x, x \notin L, \A r \in L \cup {x} : r.cents \in Nat,
         NEW acc, NEW entry
  PROVE  /\ Booked(acc, entry, L) \in Nat
         /\ Booked(acc, entry, L \cup {x}) =
              Booked(acc, entry, L) + (IF x.account = acc /\ x.entry = entry THEN x.cents ELSE 0)
<1> DEFINE f == [r \in L |-> r.cents]
           g == [r \in L \cup {x} |-> r.cents]
           S == {r \in L : r.account = acc /\ r.entry = entry}
           T == {r \in L \cup {x} : r.account = acc /\ r.entry = entry}
<1>1. IsFiniteSet(S) /\ x \notin S
  BY FS_Subset
<1>2. \A r \in S : f[r] \in Nat /\ g[r] = f[r]
  OBVIOUS
<1>3. SumOver(g, S) = SumOver(f, S) /\ SumOver(f, S) \in Nat
  <2> HIDE DEF f, g, S
  <2>1. QED
    BY <1>1, <1>2, SumSame, SumNat
<1>4. CASE x.account = acc /\ x.entry = entry
  <2>1. T = S \cup {x}
    BY <1>4
  <2>2. g[x] = x.cents /\ \A r \in S \cup {x} : g[r] \in Nat
    OBVIOUS
  <2>3. SumOver(g, S \cup {x}) = SumOver(g, S) + g[x]
    <3> HIDE DEF f, g, S
    <3>1. QED
      BY <1>1, <2>2, SumAdd
  <2>4. SumOver(g, T) = SumOver(g, S \cup {x})
    BY <2>1, Zenon
  <2> HIDE DEF f, g, S, T
  <2>5. SumOver(g, T) = SumOver(f, S) + x.cents
    BY <1>3, <2>2, <2>3, <2>4
  <2>6. QED
    BY <1>3, <1>4, <2>5 DEF Booked, f, g, S, T
<1>5. CASE ~(x.account = acc /\ x.entry = entry)
  <2>1. T = S
    BY <1>5
  <2>2. SumOver(g, T) = SumOver(g, S)
    BY <2>1, Zenon
  <2> HIDE DEF f, g, S, T
  <2>3. SumOver(g, T) = SumOver(f, S) + 0
    BY <1>3, <2>2
  <2>4. QED
    BY <1>3, <1>5, <2>3 DEF Booked, f, g, S, T
<1>6. QED
  BY <1>4, <1>5

\* One more topup adds its amount once.
LEMMA TopupAdded ==
  ASSUME NEW T, IsFiniteSet(T), NEW x, x \notin T, \A p \in T \cup {x} : p.amount \in Nat,
         NEW acc
  PROVE  /\ Added(acc, T) \in Nat
         /\ Added(acc, T \cup {x}) = Added(acc, T) + (IF x.wallet = acc THEN x.amount ELSE 0)
<1> DEFINE f == [p \in T |-> p.amount]
           g == [p \in T \cup {x} |-> p.amount]
           S == {p \in T : p.wallet = acc}
           R == {p \in T \cup {x} : p.wallet = acc}
<1>1. IsFiniteSet(S) /\ x \notin S
  BY FS_Subset
<1>2. \A p \in S : f[p] \in Nat /\ g[p] = f[p]
  OBVIOUS
<1>3. SumOver(g, S) = SumOver(f, S) /\ SumOver(f, S) \in Nat
  <2> HIDE DEF f, g, S
  <2>1. QED
    BY <1>1, <1>2, SumSame, SumNat
<1>4. CASE x.wallet = acc
  <2>1. R = S \cup {x}
    BY <1>4
  <2>2. g[x] = x.amount /\ \A p \in S \cup {x} : g[p] \in Nat
    OBVIOUS
  <2>3. SumOver(g, S \cup {x}) = SumOver(g, S) + g[x]
    <3> HIDE DEF f, g, S
    <3>1. QED
      BY <1>1, <2>2, SumAdd
  <2>4. SumOver(g, R) = SumOver(g, S \cup {x})
    BY <2>1, Zenon
  <2> HIDE DEF f, g, S, R
  <2>5. SumOver(g, R) = SumOver(f, S) + x.amount
    BY <1>3, <2>2, <2>3, <2>4
  <2>6. QED
    BY <1>3, <1>4, <2>5 DEF Added, f, g, S, R
<1>5. CASE x.wallet # acc
  <2>1. R = S
    BY <1>5
  <2>2. SumOver(g, R) = SumOver(g, S)
    BY <2>1, Zenon
  <2> HIDE DEF f, g, S, R
  <2>3. SumOver(g, R) = SumOver(f, S) + 0
    BY <1>3, <2>2
  <2>4. QED
    BY <1>3, <1>5, <2>3 DEF Added, f, g, S, R
<1>6. QED
  BY <1>4, <1>5

\* A transfer that books its two rows keeps an account explained.
LEMMA TransferBooked ==
  ASSUME NEW L, IsFiniteSet(L), \A r \in L : r.cents \in Nat,
         NEW op, \A r \in L : r.op # op,
         NEW w \in Wallets, NEW n \in Nat, NEW acc \in Accounts
  PROVE  LET M == L \cup Entries(op, w, n) IN
         /\ IsFiniteSet(M)
         /\ Booked(acc, "DEBIT", L) \in Nat /\ Booked(acc, "CREDIT", L) \in Nat
         /\ Booked(acc, "DEBIT", M) = Booked(acc, "DEBIT", L) + (IF acc = w THEN n ELSE 0)
         /\ Booked(acc, "CREDIT", M) = Booked(acc, "CREDIT", L) + (IF acc = Merchant THEN n ELSE 0)
<1> DEFINE d == [op |-> op, entry |-> "DEBIT", account |-> w, cents |-> n]
           c == [op |-> op, entry |-> "CREDIT", account |-> Merchant, cents |-> n]
           N == L \cup {d}
<1>1. /\ d \notin L /\ c \notin N /\ d.cents = n /\ c.cents = n
      /\ d.account = w /\ c.account = Merchant /\ d.entry = "DEBIT" /\ c.entry = "CREDIT"
  <2>1. d.op = op /\ c.op = op /\ c.entry # d.entry
    OBVIOUS
  <2>2. QED
    BY <2>1
<1>2. L \cup Entries(op, w, n) = N \cup {c}
  BY DEF Entries
<1> HIDE DEF d, c
<1>3. IsFiniteSet(N) /\ IsFiniteSet(N \cup {c})
  BY FS_AddElement
<1>4. (\A r \in N : r.cents \in Nat) /\ \A r \in N \cup {c} : r.cents \in Nat
  BY <1>1
<1>5. ASSUME NEW entry
      PROVE  /\ Booked(acc, entry, L) \in Nat
             /\ Booked(acc, entry, N) =
                  Booked(acc, entry, L) + (IF w = acc /\ "DEBIT" = entry THEN n ELSE 0)
             /\ Booked(acc, entry, N \cup {c}) =
                  Booked(acc, entry, N) + (IF Merchant = acc /\ "CREDIT" = entry THEN n ELSE 0)
  <2>1. /\ Booked(acc, entry, L) \in Nat
        /\ Booked(acc, entry, N) =
             Booked(acc, entry, L) + (IF d.account = acc /\ d.entry = entry THEN d.cents ELSE 0)
    BY <1>1, <1>4, RowBooked
  <2> HIDE DEF N
  <2>2. Booked(acc, entry, N \cup {c}) =
             Booked(acc, entry, N) + (IF c.account = acc /\ c.entry = entry THEN c.cents ELSE 0)
    BY <1>1, <1>3, <1>4, RowBooked
  <2>3. QED
    BY <1>1, <2>1, <2>2
<1> HIDE DEF N
<1>6. Booked(acc, "DEBIT", L) \in Nat /\ Booked(acc, "CREDIT", L) \in Nat
  BY <1>5
<1>7. Booked(acc, "DEBIT", N \cup {c}) = Booked(acc, "DEBIT", L) + (IF acc = w THEN n ELSE 0)
  <2>1. Booked(acc, "DEBIT", N) = Booked(acc, "DEBIT", L) + (IF acc = w THEN n ELSE 0)
    BY <1>5
  <2>2. Booked(acc, "DEBIT", N \cup {c}) = Booked(acc, "DEBIT", N) + 0
    BY <1>5
  <2>3. QED
    BY <1>6, <2>1, <2>2
<1>8. Booked(acc, "CREDIT", N \cup {c}) = Booked(acc, "CREDIT", L) + (IF acc = Merchant THEN n ELSE 0)
  <2>1. Booked(acc, "CREDIT", N) = Booked(acc, "CREDIT", L) + 0
    BY <1>5
  <2>2. Booked(acc, "CREDIT", N \cup {c}) = Booked(acc, "CREDIT", N) + (IF acc = Merchant THEN n ELSE 0)
    BY <1>5
  <2>3. QED
    BY <1>6, <2>1, <2>2
<1>9. IsFiniteSet(N \cup {c})
  BY <1>3
<1>10. QED
  BY <1>2, <1>6, <1>7, <1>8, <1>9, Zenon

\* Every balance is explained by the rows that moved it, which name operations
\* that were emitted or v2 operations.
Explained ==
    \A acc \in Accounts :
        balance[acc] + Booked(acc, "DEBIT", ledger)
          = OpeningBalance[acc] + Added(acc, topups) + Booked(acc, "CREDIT", ledger)

BooksInv ==
    /\ PInv
    /\ IsFiniteSet(ledger) /\ IsFiniteSet(topups)
    /\ \A r \in ledger : r.op \in Ops => \E m \in emissions : m.op = r.op
    /\ Explained

\* A transfer of n cents from a wallet, with its two rows, leaves every balance explained.
LEMMA TransferExplained ==
  ASSUME TypeOK, IsFiniteSet(ledger), IsFiniteSet(topups), Explained,
         NEW w \in Wallets, NEW n \in Nat, NEW op, \A r \in ledger : r.op # op,
         balance' = Transfer(balance, w, n), ledger' = ledger \cup Entries(op, w, n),
         UNCHANGED topups
  PROVE  Explained' /\ IsFiniteSet(ledger')
<1>1. \A r \in ledger : r.cents \in Nat
  BY DEF TypeOK, LedgerRows
<1>2. w \in Accounts /\ w # Merchant /\ Merchant \in Accounts
  BY WalletsAssumption DEF Accounts, WalletsAssumption
<1>3. ASSUME NEW acc \in Accounts
      PROVE  /\ balance'[acc] + Booked(acc, "DEBIT", ledger')
                  = OpeningBalance[acc] + Added(acc, topups') + Booked(acc, "CREDIT", ledger')
             /\ IsFiniteSet(ledger')
  <2>1. /\ IsFiniteSet(ledger')
        /\ Booked(acc, "DEBIT", ledger) \in Nat /\ Booked(acc, "CREDIT", ledger) \in Nat
        /\ Booked(acc, "DEBIT", ledger') = Booked(acc, "DEBIT", ledger) + (IF acc = w THEN n ELSE 0)
        /\ Booked(acc, "CREDIT", ledger')
             = Booked(acc, "CREDIT", ledger) + (IF acc = Merchant THEN n ELSE 0)
    BY <1>1, TransferBooked
  <2>2. balance'[acc] = IF acc = w THEN balance[acc] - n
                        ELSE IF acc = Merchant THEN balance[acc] + n ELSE balance[acc]
    BY <1>2 DEF TypeOK, Transfer
  <2>3. balance[acc] \in Nat /\ OpeningBalance[acc] \in Nat
    BY WalletsAssumption DEF WalletsAssumption, TypeOK
  <2>4. \A p \in topups : p.amount \in Nat
    BY RequestFields DEF TypeOK
  <2>5. Added(acc, topups) \in Nat
    <3> DEFINE f == [p \in topups |-> p.amount]
               S == {p \in topups : p.wallet = acc}
    <3>1. IsFiniteSet(S) /\ \A p \in S : f[p] \in Nat
      BY <2>4, FS_Subset
    <3> HIDE DEF f, S
    <3>2. SumOver(f, S) \in Nat
      BY <3>1, SumNat
    <3>3. QED
      BY <3>2 DEF Added, f, S
  <2>6. balance[acc] + Booked(acc, "DEBIT", ledger)
          = OpeningBalance[acc] + Added(acc, topups) + Booked(acc, "CREDIT", ledger)
    BY DEF Explained
  <2>7. Added(acc, topups') = Added(acc, topups)
    OBVIOUS
  <2>8. CASE acc = w
    BY <1>2, <2>1, <2>2, <2>3, <2>5, <2>6, <2>7, <2>8
  <2>9. CASE acc = Merchant
    BY <1>2, <2>1, <2>2, <2>3, <2>5, <2>6, <2>7, <2>9
  <2>10. CASE acc # w /\ acc # Merchant
    BY <2>1, <2>2, <2>3, <2>5, <2>6, <2>7, <2>10
  <2>11. QED
    BY <2>1, <2>8, <2>9, <2>10
<1>4. QED
  BY <1>2, <1>3 DEF Explained

\* Only topups and the two kinds of payment move money.
LEMMA MoneySteps ==
  ASSUME [Next]_vars
  PROVE  \/ UNCHANGED <<balance, ledger, topups>>
         \/ \E t \in Threads : TopupCommit(t) /\ TopupKeyFree(handler[t].req)
         \/ \E e \in Evidence : \E ack \in AckTimes[e] \cup {NoAck} : SubmitAccepted(e, ack)
         \/ \E p \in LegacyPayments : LegacyAccept(p)
<1> USE DEF money, evidenceTables, BooksUnchanged
<1>1. ASSUME NEW t \in Threads, NEW e \in Evidence, NEW ack \in AckTimes[e] \cup {NoAck},
             Submit(t, e, ack), ~SubmitAccepted(e, ack)
      PROVE  UNCHANGED <<balance, ledger, topups>>
  BY <1>1 DEF Submit, SubmitOmitted, SubmitOnHold, SubmitContested, SubmitInsufficient
<1>2. ASSUME NEW t \in Threads, TopupCommit(t), ~TopupKeyFree(handler[t].req)
      PROVE  UNCHANGED <<balance, ledger, topups>>
  BY <1>2 DEF TopupCommit
<1>3. CASE UNCHANGED vars
  BY <1>3 DEF vars
<1>4. CASE Next
  BY <1>1, <1>2, <1>4
     DEF Next, TopupRead, IssueRead, IssueGrant, IssueRefuse, SubmitReceipt, InsufficientCommit,
         Close, CloseRevoked, CloseContested, Revoke, Abandon, Restart
<1>5. QED
  BY <1>3, <1>4

\* Every step keeps the books explained.
LEMMA BooksStep ==
  ASSUME BooksInv, [Next]_vars
  PROVE  BooksInv'
<1>0. TypeOK /\ TypeOK' /\ StoredOnce /\ StoredOnce' /\ PInv'
  BY TypeStep, PromiseInvariant DEF BooksInv, PInv, EInv, IInv, TypeInv
<1>1. emissions \subseteq emissions'
  BY <1>0, EmissionSteps, AcceptedWrites DEF Accepted
<1> DEFINE Named == \A r \in ledger : r.op \in Ops => \E m \in emissions : m.op = r.op
           Goal == IsFiniteSet(ledger)' /\ IsFiniteSet(topups)' /\ Named' /\ Explained'
<1>2. Named /\ Explained /\ IsFiniteSet(ledger) /\ IsFiniteSet(topups)
  BY DEF BooksInv
<1>3. ASSUME UNCHANGED <<balance, ledger, topups>> PROVE Goal
  BY <1>1, <1>2, <1>3 DEF Explained
<1>4. ASSUME NEW t \in Threads, TopupCommit(t), TopupKeyFree(handler[t].req) PROVE Goal
  <2>1. PICK r \in TopupRequests : r = handler[t].req
    BY <1>0, <1>4, FrameFields DEF TopupCommit
  <2>2. /\ r.wallet \in Wallets /\ r.wallet \in Accounts /\ r.amount \in Nat
        /\ r \notin topups /\ topups' = topups \cup {r} /\ UNCHANGED ledger
        /\ balance' = [balance EXCEPT ![r.wallet] = @ + r.amount]
    BY <1>4, <2>1, RequestFields DEF TopupCommit, TopupKeyFree, Accounts
  <2>3. \A p \in topups \cup {r} : p.amount \in Nat
    BY <1>0, RequestFields DEF TypeOK
  <2>4. ASSUME NEW acc \in Accounts
        PROVE  balance'[acc] + Booked(acc, "DEBIT", ledger')
                 = OpeningBalance[acc] + Added(acc, topups') + Booked(acc, "CREDIT", ledger')
    <3>1. /\ Added(acc, topups) \in Nat
          /\ Added(acc, topups') = Added(acc, topups) + (IF r.wallet = acc THEN r.amount ELSE 0)
      BY <1>2, <2>2, <2>3, TopupAdded
    <3>2. balance'[acc] = balance[acc] + (IF r.wallet = acc THEN r.amount ELSE 0)
      BY <1>0, <2>2 DEF TypeOK
    <3>3. balance[acc] \in Nat /\ OpeningBalance[acc] \in Nat
      BY <1>0, WalletsAssumption DEF WalletsAssumption, TypeOK
    <3>4. Booked(acc, "DEBIT", ledger) \in Nat /\ Booked(acc, "CREDIT", ledger) \in Nat
      BY <1>2, <1>0, BookedNat DEF TypeOK, LedgerRows
    <3>5. balance[acc] + Booked(acc, "DEBIT", ledger)
            = OpeningBalance[acc] + Added(acc, topups) + Booked(acc, "CREDIT", ledger)
      BY <1>2 DEF Explained
    <3>6. UNCHANGED ledger /\ r.amount \in Nat
      BY <2>2
    <3>7. CASE r.wallet = acc
      BY <3>1, <3>2, <3>3, <3>4, <3>5, <3>6, <3>7
    <3>8. CASE r.wallet # acc
      BY <3>1, <3>2, <3>3, <3>4, <3>5, <3>6, <3>8
    <3>9. QED
      BY <3>7, <3>8
  <2>5. IsFiniteSet(topups')
    BY <1>2, <2>2, FS_AddElement
  <2>6. Explained'
    BY <2>4 DEF Explained
  <2>7. QED
    BY <1>1, <1>2, <2>2, <2>5, <2>6
<1>5. ASSUME NEW e \in Evidence, NEW ack \in AckTimes[e] \cup {NoAck}, SubmitAccepted(e, ack)
      PROVE  Goal
  <2>1. e.auth \in Auths /\ Issued(e.auth) /\ Owner(e.auth) \in Wallets /\ e.amount \in Nat /\ e.op \in Ops
    BY <1>0, <1>5, AcceptedFinds, EvidenceFields
  <2>2. PICK w \in Wallets : w = Owner(e.auth)
    BY <2>1
  <2>3. /\ balance' = Transfer(balance, w, e.amount) /\ ledger' = ledger \cup Entries(e.op, w, e.amount)
        /\ UNCHANGED topups /\ \A m \in emissions : m.op # e.op
    BY <1>5, <2>2 DEF SubmitAccepted, Ready
  <2>4. \A r \in ledger : r.op # e.op
    BY <1>2, <2>1, <2>3
  <2>5. Explained' /\ IsFiniteSet(ledger')
    BY <1>0, <1>2, <2>1, <2>3, <2>4, TransferExplained
  <2>6. Named'
    <3>1. e \in emissions' /\ \A r \in Entries(e.op, w, e.amount) : r.op = e.op
      BY <1>0, <1>5, AcceptedWrites DEF Entries
    <3>2. QED
      BY <1>1, <1>2, <2>3, <3>1
  <2>7. QED
    BY <1>2, <2>3, <2>5, <2>6
<1>6. ASSUME NEW p \in LegacyPayments, LegacyAccept(p) PROVE Goal
  <2>1. p.wallet \in Wallets /\ p.amount \in Nat /\ p.op \notin Ops
    BY RequestFields, RequestsAssumption DEF RequestsAssumption
  <2>2. /\ balance' = Transfer(balance, p.wallet, p.amount)
        /\ ledger' = ledger \cup Entries(p.op, p.wallet, p.amount)
        /\ UNCHANGED topups /\ \A r \in ledger : r.op # p.op
    BY <1>6 DEF LegacyAccept
  <2>3. Explained' /\ IsFiniteSet(ledger')
    BY <1>0, <1>2, <2>1, <2>2, TransferExplained
  <2>4. Named'
    <3>1. \A r \in Entries(p.op, p.wallet, p.amount) : r.op = p.op
      BY DEF Entries
    <3>2. QED
      BY <1>1, <1>2, <2>1, <2>2, <3>1
  <2>5. QED
    BY <1>2, <2>2, <2>3, <2>4
<1> HIDE DEF Goal
<1>7. Goal
  BY <1>3, <1>4, <1>5, <1>6, MoneySteps
<1>8. QED
  BY <1>0, <1>7 DEF BooksInv, Goal

\* The balance of every account is what it started with, its topups and its ledger
\* rows, and the web panel shows the same.
THEOREM BooksAreBalanced == Spec => []BooksBalance
<1>1. Init => BooksInv
  <2> SUFFICES ASSUME Init PROVE BooksInv
    OBVIOUS
  <2>1. PInv
    BY PromiseInvariant
  <2>2. ledger = {} /\ topups = {} /\ balance = OpeningBalance
    BY DEF Init
  <2>3. ASSUME NEW acc \in Accounts
        PROVE  /\ Booked(acc, "DEBIT", {}) = 0 /\ Booked(acc, "CREDIT", {}) = 0
               /\ Added(acc, {}) = 0 /\ OpeningBalance[acc] \in Nat
    <3>1. \A entry : {r \in {} : r.account = acc /\ r.entry = entry} = {}
      OBVIOUS
    <3>2. {p \in {} : p.wallet = acc} = {}
      OBVIOUS
    <3>3. Booked(acc, "DEBIT", {}) = 0 /\ Booked(acc, "CREDIT", {}) = 0
      BY <3>1, SumEmpty DEF Booked
    <3>4. Added(acc, {}) = 0
      BY <3>2, SumEmpty DEF Added
    <3>5. QED
      BY <3>3, <3>4, WalletsAssumption DEF WalletsAssumption
  <2>4. Explained
    BY <2>2, <2>3 DEF Explained
  <2>5. QED
    BY <2>1, <2>2, <2>4, FS_EmptySet DEF BooksInv
<1>2. BooksInv => BooksBalance
  BY DEF BooksInv, PInv, EInv, IInv, TypeInv, PanelAgrees, Explained, Booked, Added, BooksBalance
<1>3. BooksInv /\ [Next]_vars => BooksInv'
  BY BooksStep
<1>4. QED
  BY <1>1, <1>2, <1>3, PTL DEF Spec
----------------------------------------------------------------------------
(* The ledger decides every operation once (Settlement).                     *)

\* An operation is paid with a receipt that the terminal acknowledged.
PaidWithAck == \A op \in Ops : Paid(op) => AckTimes[payment[op].ev] # {}

\* A row in review stays in review.
LEMMA ReviewIsFinal ==
  ASSUME PInv, [Next]_vars, NEW op \in Ops, Known(op), payment[op].state = "PENDING_REVIEW"
  PROVE  payment'[op].state = "PENDING_REVIEW"
<1>0. EInv /\ TypeOK /\ InsufficientStays
  BY DEF PInv, EInv, IInv, TypeInv
<1>1. ASSUME NEW e \in Evidence, Recorded(e) PROVE payment'[op].state = "PENDING_REVIEW"
  BY <1>0, <1>1, RecordedWrites
<1>2. ASSUME NEW e \in Evidence, SubmitReceipt(e) \/ Accepted(e)
      PROVE  payment'[op] = payment[op]
  <2>1. e.op # op
    BY <1>2 DEF SubmitReceipt, Accepted, SubmitAccepted, Ready, Processable, OnHold
  <2>2. QED
    BY <1>0, <1>2, <2>1, ProcessedWrites
<1>3. ASSUME NEW t \in Threads, InsufficientCommit(t)
      PROVE  payment'[op].state = "PENDING_REVIEW"
  BY <1>0, <1>3, InsufficientWrites
<1>4. QED
  BY <1>1, <1>2, <1>3, EvidenceSteps DEF CloseRevoked, CloseContested, evidenceTables, Restart

\* Every step pays only with acks.
LEMMA PaidWithAckStep ==
  ASSUME PInv, PaidWithAck, [Next]_vars
  PROVE  PaidWithAck'
<1>0. EInv /\ TypeOK /\ InsufficientStays
  BY DEF PInv, EInv, IInv, TypeInv
<1>1. ASSUME NEW f \in Evidence, Accepted(f)
      PROVE  AckTimes[f] # {} /\ payment'[f.op].ev = f
  BY <1>0, <1>1, AcceptedWrites DEF Accepted, SubmitAccepted, Ready
<1>2. ASSUME NEW op \in Ops, Paid(op)' PROVE AckTimes[payment'[op].ev] # {}
  <2>1. CASE payment'[op] = payment[op]
    BY <1>2, <2>1 DEF PaidWithAck, Paid, Known
  <2>2. CASE \E f \in Evidence : f.op = op /\ Accepted(f)
    BY <1>1, <2>2
  <2>3. QED
    BY <1>0, <1>2, <2>1, <2>2, PaymentChanges
<1>3. QED
  BY <1>2 DEF PaidWithAck

DInv == PInv /\ PaidWithAck

\* It holds at the start and every step keeps it.
LEMMA DecisionInvariant ==
  /\ Init => DInv
  /\ DInv /\ [Next]_vars => DInv'
<1>1. Init => PaidWithAck
  BY DEF Init, PaidWithAck, Paid, Known
<1>2. QED
  BY <1>1, PromiseInvariant, PaidWithAckStep DEF DInv

\* The registers of Settlement, as functions of the rows.
AckedOf == [op \in Ops |-> Acknowledged(op)]
DecisionOf == [op \in Ops |-> Decision(op)]
Nothing == [op \in Ops |-> "NOTHING"]

\* No receipt is the absence of one.
LEMMA ReceiptIsNoBlank == \A e \in Evidence : e # NoRow
<1>1. \A e \in Evidence : DOMAIN e = {"op", "auth", "index", "amount", "pos", "issued", "confirmed"}
  BY EvidenceAssumption DEF EvidenceAssumption
<1>2. DOMAIN NoRow = {"state"}
  BY DEF NoRow
<1>3. QED
  BY <1>1, <1>2

\* What Settlement says of the registers, where the invariant holds.
Settles(op) ==
    /\ Decision(op) \in Decided!Decisions \cup {"NONE"}
    /\ Paid(op) => payment[op].ev = Acknowledged(op)
    /\ Decision(op) = "ACCEPTED" => Acknowledged(op) # NoRow

\* The acknowledged receipt of an operation is one receipt of it.
LEMMA AcknowledgedIsOne ==
  ASSUME NEW e \in Evidence, AckTimes[e] # {}
  PROVE  Acknowledged(e.op) = e
<1>1. \E f \in Evidence : f.op = e.op /\ AckTimes[f] # {}
  OBVIOUS
<1>2. /\ Acknowledged(e.op) \in Evidence /\ Acknowledged(e.op).op = e.op
      /\ AckTimes[Acknowledged(e.op)] # {}
  BY <1>1, Zenon DEF Acknowledged
<1>3. QED
  BY <1>2, EvidenceAssumption DEF EvidenceAssumption

\* A decision is paid only with the acknowledged receipt.
LEMMA DecisionsAgree ==
  ASSUME DInv, NEW op \in Ops
  PROVE  Settles(op)
<1>1. TypeOK
  BY DEF DInv, PInv, EInv, IInv, TypeInv
<1>2. Known(op) => /\ payment[op].ev \in Evidence /\ payment[op].ev.op = op
                   /\ payment[op].state \in {"PENDING_EVIDENCE", "PENDING_REVIEW", "ACCEPTED"}
  BY <1>1 DEF TypeOK, Known, PaymentRows
<1>3. Paid(op) => payment[op].ev = Acknowledged(op)
  BY <1>2, AcknowledgedIsOne DEF DInv, PaidWithAck, Paid
<1>4. QED
  BY <1>2, <1>3, ReceiptIsNoBlank DEF Settles, Decision, Decided!Decisions, Paid

\* So it does of the next state.
LEMMA DecisionsAgreeNext == DInv' => (\A op \in Ops : Settles(op))'
<1>1. DInv => \A op \in Ops : Settles(op)
  BY DecisionsAgree
<1>2. QED
  BY <1>1, PTL

\* A decision that was taken stays.
LEMMA DecisionMoves ==
  ASSUME DInv, [Next]_vars, NEW op \in Ops
  PROVE  Decision(op) # "NONE" => Decision(op)' = Decision(op)
<1>0. PInv /\ EInv /\ TypeOK /\ InsufficientStays
  BY DEF DInv, PInv, EInv, IInv, TypeInv
<1>1. Known(op) => Known(op)' /\ payment'[op].ev = payment[op].ev
  BY <1>0, ReceiptStays
<1>2. Known(op) => payment[op].state \in {"PENDING_EVIDENCE", "PENDING_REVIEW", "ACCEPTED"}
  BY <1>0 DEF TypeOK, Known, PaymentRows
<1>3. Settles(op) /\ Settles(op)'
  BY DecisionsAgree, DecisionsAgreeNext, DecisionInvariant
<1>4. CASE Paid(op)
  <2>1. payment'[op] = payment[op]
    BY <1>0, <1>4, PaymentChanges
  <2>2. QED
    BY <2>1 DEF Decision, Known
<1>5. CASE Known(op) /\ payment[op].ev # Acknowledged(op)
  <2>1. Known(op)' /\ payment'[op].ev # Acknowledged(op)
    BY <1>1, <1>5
  <2>2. payment[op].state # "ACCEPTED" /\ payment'[op].state # "ACCEPTED"
    BY <1>3, <1>5, <2>1 DEF Settles, Paid, Known
  <2>3. QED
    BY <1>5, <2>1, <2>2 DEF Decision, Known
<1>6. CASE Known(op) /\ payment[op].state = "PENDING_REVIEW"
  <2>1. payment'[op].state = "PENDING_REVIEW"
    BY <1>0, <1>6, ReviewIsFinal
  <2>2. QED
    BY <1>1, <1>6, <2>1 DEF Decision, Known
<1>7. QED
  BY <1>2, <1>4, <1>5, <1>6 DEF Decision, Paid

\* Every step decides some operations, or none.
LEMMA DecideStep ==
  DInv /\ [Next]_vars => [Decided!Next]_(Decided!vars)
<1> SUFFICES ASSUME DInv, [Next]_vars PROVE Decided!Next
  OBVIOUS
<1>1. (\A op \in Ops : Settles(op)) /\ (\A op \in Ops : Settles(op))'
  BY DecisionsAgree, DecisionsAgreeNext, DecisionInvariant
<1>2. DecisionOf' \in [Ops -> Decided!Decisions \cup {"NONE"}]
  BY <1>1 DEF DecisionOf, Settles
<1>3. ASSUME NEW op \in Ops, DecisionOf'[op] # DecisionOf[op]
      PROVE  DecisionOf[op] = "NONE" /\ DecisionOf'[op] \in Decided!Decidable(op)
  <2>1. DecisionOf[op] = Decision(op) /\ DecisionOf'[op] = Decision(op)'
    BY DEF DecisionOf
  <2>2. Decision(op) = "NONE" /\ Decision(op)' # "NONE"
    BY <1>3, <2>1, DecisionMoves
  <2>3. QED
    BY <1>1, <2>1, <2>2 DEF Settles, Decided!Decidable, Decided!Decisions
<1>4. Decided!Decide
  BY <1>2, <1>3 DEF Decided!Decide, DecisionOf
<1>5. QED
  BY <1>4 DEF Decided!Next

\* The ledger decides every operation once, and pays it only with the receipt that the
\* terminal acknowledged, whatever arrives later, in whatever order, and whatever
\* outcome a thread writes after it dropped the lock (process_evidence_v3, _apply).
THEOREM LedgerDecidesOnce == Spec => DecisionsStand
<1>1. Init => Decided!Init
  <2> SUFFICES ASSUME Init PROVE Decided!Init
    OBVIOUS
  <2>1. \A op \in Ops : Decision(op) = "NONE"
    BY DEF Init, Decision, Known
  <2>2. \A op \in Ops : Acknowledged(op) \in Evidence \cup {NoRow}
    <3> SUFFICES ASSUME NEW op \in Ops, \E e \in Evidence : e.op = op /\ AckTimes[e] # {}
                 PROVE  Acknowledged(op) \in Evidence
      BY DEF Acknowledged
    <3>1. QED
      BY AcknowledgedIsOne
  <2>3. Decided!SettlementTypeOK /\ Decided!Agreement
    BY <2>1, <2>2 DEF Decided!SettlementTypeOK, Decided!Agreement, Decided!Decisions
  <2>4. QED
    BY <2>3 DEF Decided!Init
<1>2. QED
  BY <1>1, DecisionInvariant, DecideStep, PTL DEF Spec, DecisionsStand, Decided!Spec

----------------------------------------------------------------------------
(* What is proved of the contracts holds of the ledger, which implements them. *)

Contract == INSTANCE EscrowProofs WITH
    Payee <- Merchant, Contracts <- Auths, Nobody <- NoRequest, Receipts <- Evidence,
    Deposits <- TopupRequests, Opening <- OpeningBalance,
    funds <- balance, credited <- topups,
    holder <- [a \in Auths |-> IF Issued(a) THEN Owner(a) ELSE NoRequest],
    escrow <- [a \in Auths |-> commitment[a].held],
    released <- {a \in Auths : commitment[a].closed},
    listed <- [a \in Auths |-> commitment[a].manifest],
    paid <- emissions

\* The constants of the ledger are constants of contracts.
LEMMA ContractAssumptions == Contract!EscrowAssumption
<1>1. IsFiniteSet(Accounts)
  BY FS_AddElement, FiniteAssumption DEF FiniteAssumption, Accounts
<1>2. Merchant \in Accounts /\ NoRequest \notin Accounts /\ OpeningBalance \in [Accounts -> Nat]
  BY WalletsAssumption, RequestsAssumption DEF WalletsAssumption, RequestsAssumption, Accounts
<1>3. \A e \in Evidence : e.auth \in Auths /\ e.amount \in Nat \ {0}
  BY EvidenceFields
<1>4. \A d \in TopupRequests : d.wallet \in Accounts /\ d.amount \in Nat
  BY RequestFields DEF Accounts
<1>5. IsFiniteSet(Auths) /\ IsFiniteSet(Evidence)
  BY FiniteAssumption DEF FiniteAssumption
<1>6. \A S : Contract!IsFiniteSet(S) <=> IsFiniteSet(S)
  BY Zenon DEF Contract!IsFiniteSet, IsFiniteSet
<1>7. QED
  BY <1>1, <1>2, <1>3, <1>4, <1>5, <1>6, Zenon DEF Contract!EscrowAssumption

\* The contracts of the two instances are the same.
LEMMA SameContracts ==
  /\ Contract!Init <=> Promise!Init
  /\ [Contract!Next]_(Contract!vars) <=> [Promise!Next]_(Promise!vars)
<1>1. \A f, S : Contract!SumOver(f, S) = Promise!SumOver(f, S)
  BY Zenon DEF Contract!SumOver, Promise!SumOver, Contract!Coins, Promise!Coins,
               Contract!Cardinality, Promise!Cardinality
<1>2. Contract!Init <=> Promise!Init
  BY Zenon DEF Contract!Init, Promise!Init
<1>3. \A x, n : Contract!Free(x, n) <=> Promise!Free(x, n)
  BY <1>1, Zenon DEF Contract!Free, Promise!Free, Contract!SetAside, Promise!SetAside
<1>4. \A list : Contract!Kept(list) = Promise!Kept(list)
  BY <1>1, Zenon DEF Contract!Kept, Promise!Kept, Contract!Worth, Promise!Worth
<1>5. \A r : Contract!NotDisplacing(r) <=> Promise!NotDisplacing(r)
  BY Zenon DEF Contract!NotDisplacing, Promise!NotDisplacing
<1>6. \A c, list : Contract!Listable(c, list) <=> Promise!Listable(c, list)
  BY <1>5, Zenon DEF Contract!Listable, Promise!Listable
<1>7. \A d : Contract!Deposit(d) <=> Promise!Deposit(d)
  BY Zenon DEF Contract!Deposit, Promise!Deposit
<1>8. \A x, n : Contract!Spend(x, n) <=> Promise!Spend(x, n)
  BY <1>3, Zenon DEF Contract!Spend, Promise!Spend
<1>9. \A c, x, n : Contract!Reserve(c, x, n) <=> Promise!Reserve(c, x, n)
  BY <1>3, Zenon DEF Contract!Reserve, Promise!Reserve
<1>10. \A r : Contract!Pay(r) <=> Promise!Pay(r)
  BY <1>5, Zenon DEF Contract!Pay, Promise!Pay
<1>11. \A c, list : Contract!Release(c, list) <=> Promise!Release(c, list)
  BY <1>4, <1>6, Zenon DEF Contract!Release, Promise!Release
<1>12. Contract!Next <=> Promise!Next
  BY <1>7, <1>8, <1>9, <1>10, <1>11, Zenon DEF Contract!Next, Promise!Next
<1>13. QED
  BY <1>2, <1>12, Zenon DEF Contract!vars, Promise!vars

\* The balances of all accounts together are the opening balances and the topups.
NoCentLost ==
    SumOver(balance, Accounts) =
        SumOver(OpeningBalance, Accounts) + SumOver([d \in topups |-> d.amount], topups)

\* No cent is made or lost, whatever the threads deposit, pay, reserve and release: what
\* holds of the contracts holds of the tables that implement them (api_v3.py, _apply).
THEOREM NoCentIsLost == Spec => []NoCentLost
<1>1. Contract!MoneyInv => NoCentLost
  <2>1. \A f, S : Contract!SumOver(f, S) = SumOver(f, S)
    BY Zenon DEF Contract!SumOver, SumOver, Contract!Coins, Coins, Contract!Cardinality, Cardinality
  <2>2. QED
    BY <2>1, Zenon DEF Contract!MoneyInv, Contract!MoneyIsConserved, NoCentLost
<1>2. Promise!Init => Contract!MoneyInv
  BY SameContracts, ContractAssumptions, Contract!MoneyInitial
<1>3. Contract!MoneyInv /\ [Promise!Next]_(Promise!vars) => Contract!MoneyInv'
  BY SameContracts, ContractAssumptions, Contract!MoneyStep
<1>4. QED
  BY <1>1, <1>2, <1>3, LedgerKeepsPromise, PTL DEF KeepsPromise, Promise!Spec
=============================================================================
