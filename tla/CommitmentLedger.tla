-------------------------- MODULE CommitmentLedger --------------------------
(***************************************************************************)
(* The v3 ledger of the backend: the HTTP handlers of api_v3.py and the    *)
(* evidence processor of sync_v3.py over the tables of models.py.          *)
(*                                                                         *)
(* A client reserves part of its balance in a signed authorization (a      *)
(* commitment), signs receipts against it while offline, and the receipts  *)
(* reach the backend later, from the client or from the merchant, in any   *)
(* order and any number of times.  The client may close the commitment     *)
(* with a manifest of everything it signed, which releases the rest.       *)
(*                                                                         *)
(* Concurrency.  Handlers run in a thread pool over one SQLite database.   *)
(* The first write of a handler takes the single write lock and keeps it   *)
(* until commit or rollback: what a handler does between the two is one    *)
(* step here.  What it read before the lock, or after it dropped the lock, *)
(* belongs to an earlier step: the three handlers that do so keep what     *)
(* they read in handler[t], the frame of their thread.                     *)
(*                                                                         *)
(* A submission that the code answers without changing any row (malformed  *)
(* evidence, content that differs from the stored row, a repetition of a   *)
(* final payment) is a stuttering step and is not listed as an action.     *)
(***************************************************************************)
EXTENDS CentSums

CONSTANTS
    Wallets,         \* client wallets
    Merchant,        \* the wallet of the merchant that owns the terminals
    Auths,           \* identifiers of offline authorizations (uuid4)
    Ops,             \* operation identifiers
    Keys,            \* registered keys of wallets and terminals
    Evidence,        \* the signed request and receipt pairs that may arrive
    AckTimes,        \* per evidence, the accepted_at of its signed acks
    IssueRequests,   \* bodies of POST /offline-authorizations
    NoRequest,       \* the request of an authorization that was not issued
    TopupRequests,   \* bodies of POST /simulated-topups
    LegacyPayments,  \* v2 payments still to be conciliated
    RevocationTimes, \* effective dates an operator may give a revocation
    Threads,         \* threads of the pool that serve these handlers
    OpeningBalance,  \* confirmed cents of every account at the start
    OpeningLegacy    \* active v2 budget of every wallet at the start

NoAck == 0
NotRevoked == -1

Accounts == Wallets \cup {Merchant}

ASSUME WalletsAssumption ==
    /\ Merchant \notin Wallets
    /\ OpeningBalance \in [Accounts -> Nat]
    /\ OpeningLegacy \in [Wallets -> Nat]
    /\ \A w \in Wallets : OpeningLegacy[w] <= OpeningBalance[w]

ASSUME EvidenceAssumption ==
    /\ Evidence \subseteq [op : Ops, auth : Auths, index : Nat \ {0}, amount : Nat \ {0},
                           pos : Keys, issued : Nat \ {0}, confirmed : Nat \ {0}]
    /\ AckTimes \in [Evidence -> SUBSET (Nat \ {0})]
    \* the terminal stores one receipt of an operation and signs acks of that one
    /\ \A e, f \in Evidence : e.op = f.op /\ AckTimes[e] # {} /\ AckTimes[f] # {} => e = f

ASSUME RequestsAssumption ==
    /\ IssueRequests \subseteq [id : STRING, wallet : Wallets, key : Keys,
                                maxPayment : Nat \ {0}, maxPayments : Nat \ {0}]
    /\ NoRequest \notin IssueRequests \cup Accounts
    /\ TopupRequests \subseteq [id : STRING, wallet : Wallets, amount : Nat \ {0}]
    /\ LegacyPayments \subseteq [op : STRING, wallet : Wallets, amount : Nat \ {0}]
    \* v2 and v3 payments share the table whose key is the operation
    /\ \A p \in LegacyPayments : p.op \notin Ops
    /\ RevocationTimes \subseteq Nat

ASSUME FiniteAssumption ==
    /\ IsFiniteSet(Wallets) /\ IsFiniteSet(Auths) /\ IsFiniteSet(Evidence)

VARIABLES
    balance,     \* wallets.confirmed_balance_cents
    saldo,       \* users.saldo_real, the older balance the web panel shows
    review,      \* wallets.offline_review_required
    auth,        \* offline_authorizations
    commitment,  \* offline_commitments
    payment,     \* offline_payments_v2, by operation
    claims,      \* offline_commitment_claims
    emissions,   \* offline_commitment_emissions
    ledger,      \* ledger_entries
    resolution,  \* operations with a signed ACCEPTED payment_resolution
    topups,      \* simulated_topups
    legacy,      \* remaining budget of active v2 authorizations, by wallet
    revokedAt,   \* registered_keys.revoked_at
    handler      \* what each thread read before it (re)takes the write lock

money == <<balance, saldo, ledger>>
evidenceTables == <<payment, claims, emissions, resolution>>
vars == <<money, review, auth, commitment, evidenceTables, topups, legacy, revokedAt, handler>>

----------------------------------------------------------------------------
(* Rows.                                                                   *)

Requests == IssueRequests \cup {NoRequest}

AuthRows == [req : Requests, remaining : Nat, payments : Nat, active : BOOLEAN]

\* released_rejected_cents stays 0: no code of the backend writes it.
CommitmentRows ==
    [reserved : Nat, emitted : Nat, count : Nat, held : Nat, unissued : Nat,
     phase : {"OPEN", "SEALED", "SETTLED"}, closed : BOOLEAN, manifest : SUBSET Evidence]

PaymentRows ==
    [state : {"PENDING_EVIDENCE", "PENDING_REVIEW", "ACCEPTED"}, ev : Evidence, ack : Nat]

NoRow == [state |-> "NONE"]

LedgerRows == [op : Ops \cup {p.op : p \in LegacyPayments}, entry : {"DEBIT", "CREDIT"},
               account : Accounts, cents : Nat]

NoAuth == [req |-> NoRequest, remaining |-> 0, payments |-> 0, active |-> FALSE]

NoCommitment == [reserved |-> 0, emitted |-> 0, count |-> 0, held |-> 0, unissued |-> 0,
                 phase |-> "OPEN", closed |-> FALSE, manifest |-> {}]

Idle == [kind |-> "idle"]

Frames == {Idle} \cup [kind : {"topup"}, req : TopupRequests]
                 \cup [kind : {"issue"}, req : IssueRequests]
                 \cup [kind : {"insufficient"}, ev : Evidence, ack : Nat]

Issued(a) == auth[a].req # NoRequest

Owner(a) == auth[a].req.wallet

\* The two ledger rows of an applied payment.
Entries(op, w, n) == {[op |-> op, entry |-> "DEBIT", account |-> w, cents |-> n],
                      [op |-> op, entry |-> "CREDIT", account |-> Merchant, cents |-> n]}

Transfer(f, w, n) == [f EXCEPT ![w] = @ - n, ![Merchant] = @ + n]

Init ==
    /\ balance = OpeningBalance
    /\ saldo = OpeningBalance
    /\ review = [w \in Wallets |-> FALSE]
    /\ auth = [a \in Auths |-> NoAuth]
    /\ commitment = [a \in Auths |-> NoCommitment]
    /\ payment = [op \in Ops |-> NoRow]
    /\ claims = {}
    /\ emissions = {}
    /\ ledger = {}
    /\ resolution = {}
    /\ topups = {}
    /\ legacy = OpeningLegacy
    /\ revokedAt = [k \in Keys |-> NotRevoked]
    /\ handler = [t \in Threads |-> Idle]

----------------------------------------------------------------------------
(* Simulated topups.                                                       *)

\* The handler looks for the request_id before it holds the lock.
TopupRead(t, r) ==
    /\ handler[t] = Idle
    /\ ~\E p \in topups : p.id = r.id
    /\ handler' = [handler EXCEPT ![t] = [kind |-> "topup", req |-> r]]
    /\ UNCHANGED <<money, review, auth, commitment, evidenceTables, topups, legacy, revokedAt>>

\* MUTANT: no primary key on request_id
TopupKeyUnchecked(r) == TRUE

TopupKeyFree(r) == ~\E p \in topups : p.id = r.id

\* Insert and credit in one transaction; the primary key refuses a request_id
\* that another thread committed meanwhile, and the credit is rolled back.
TopupCommit(t) ==
    LET r == handler[t].req IN
    /\ handler[t].kind = "topup"
    /\ handler' = [handler EXCEPT ![t] = Idle]
    /\ IF TopupKeyFree(r)
       THEN /\ topups' = topups \cup {r}
            /\ balance' = [balance EXCEPT ![r.wallet] = @ + r.amount]
            /\ saldo' = [saldo EXCEPT ![r.wallet] = @ + r.amount]
            /\ UNCHANGED ledger
       ELSE UNCHANGED <<money, topups>>
    /\ UNCHANGED <<review, auth, commitment, evidenceTables, legacy, revokedAt>>

----------------------------------------------------------------------------
(* Issuance of an authorization and its commitment.                        *)

RequestUsed(r) == \E a \in Auths : Issued(a) /\ auth[a].req.id = r.id

\* The checks before the lock: the key, the review flag and the request_id.
IssueRead(t, r) ==
    /\ handler[t] = Idle
    /\ ~RequestUsed(r)
    /\ revokedAt[r.key] = NotRevoked
    /\ ~review[r.wallet]
    /\ handler' = [handler EXCEPT ![t] = [kind |-> "issue", req |-> r]]
    /\ UNCHANGED <<money, review, auth, commitment, evidenceTables, topups, legacy, revokedAt>>

\* What each commitment of w holds of its balance.
HeldOf(w) == [a \in Auths |-> IF Issued(a) /\ Owner(a) = w THEN commitment[a].held ELSE 0]

Committed(w) == SumOver(HeldOf(w), Auths) + legacy[w]

\* MUTANT: only the v3 commitments count as committed
GrantableIgnoringLegacy(r) ==
    LET free == balance[r.wallet] - SumOver(HeldOf(r.wallet), Auths)
        requested == r.maxPayment * r.maxPayments
    IN  IF free < requested THEN free ELSE requested

\* min(max(balance - committed, 0), requested): not positive when nothing is free.
Grantable(r) ==
    LET free == balance[r.wallet] - Committed(r.wallet)
        requested == r.maxPayment * r.maxPayments
    IN  IF free < requested THEN free ELSE requested

\* MUTANT: the wallet is not refreshed under the lock
GrantWithoutRefresh(r) == Grantable(r) > 0 /\ ~RequestUsed(r)

\* MUTANT: no unique index on issuance_request_id
GrantWithoutIndex(r) == ~review[r.wallet] /\ Grantable(r) > 0

\* Under the lock: the refreshed review flag, the budget, and the unique index
\* on issuance_request_id.
GrantAllowed(r) == ~review[r.wallet] /\ Grantable(r) > 0 /\ ~RequestUsed(r)

\* Both rows are inserted with the same total.
IssueGrant(t) ==
    LET r == handler[t].req
        total == Grantable(r)
    IN
    /\ handler[t].kind = "issue"
    /\ GrantAllowed(r)
    /\ \E a \in Auths :
        /\ ~Issued(a)
        /\ auth' = [auth EXCEPT ![a] = [req |-> r, remaining |-> total,
                                        payments |-> r.maxPayments, active |-> TRUE]]
        /\ commitment' = [commitment EXCEPT ![a].reserved = total, ![a].held = total]
    /\ handler' = [handler EXCEPT ![t] = Idle]
    /\ UNCHANGED <<money, review, evidenceTables, topups, legacy, revokedAt>>

\* Every other outcome under the lock leaves the tables alone: a refusal (409),
\* or the stored authorization when request_id was committed meanwhile.
IssueRefuse(t) ==
    LET r == handler[t].req IN
    /\ handler[t].kind = "issue"
    /\ ~GrantAllowed(r)
    /\ handler' = [handler EXCEPT ![t] = Idle]
    /\ UNCHANGED <<money, review, auth, commitment, evidenceTables, topups, legacy, revokedAt>>

----------------------------------------------------------------------------
(* A submission of evidence e, with the ack accepted at time ack or with   *)
(* none: process_evidence_v3, under the lock.                              *)

Known(op) == payment[op] # NoRow

Amounts == [e \in Evidence |-> e.amount]

\* MUTANT: a stored row is not asked whether it is final
AdmissibleFinal(e, ack) ==
    Known(e.op) => /\ payment[e.op].ev = e
                   /\ payment[e.op].ack = NoAck \/ ack = NoAck \/ payment[e.op].ack = ack

\* MUTANT: the ack of a stored row has to be the same, even when it has none
AdmissibleSameAck(e, ack) ==
    Known(e.op) => /\ payment[e.op].state # "ACCEPTED"
                   /\ payment[e.op].ev = e
                   /\ payment[e.op].ack = ack

\* The stored row, when there is one, is not final and holds the same request,
\* receipt and ack; otherwise the code answers CONFLICT and writes nothing.
Admissible(e, ack) ==
    Known(e.op) => /\ payment[e.op].state # "ACCEPTED"
                   /\ payment[e.op].ev = e
                   /\ payment[e.op].ack = NoAck \/ ack = NoAck \/ payment[e.op].ack = ack

\* The terms of the authorization that bind its receipts.
Bound(e) ==
    /\ e.amount <= auth[e.auth].req.maxPayment
    /\ e.amount <= commitment[e.auth].reserved
    /\ e.index <= auth[e.auth].req.maxPayments

\* The receipt is bound to an authorization that exists, and the ack to both.
Valid(e, ack) ==
    /\ Issued(e.auth)
    /\ Bound(e)
    /\ ack \in AckTimes[e] \cup {NoAck}

RequiresReview(k, time) == revokedAt[k] # NotRevoked /\ time >= revokedAt[k]

\* Evidence dated at or after the revocation of a key that signed it.
Revoked(e, ack) ==
    \/ RequiresReview(e.pos, e.issued)
    \/ RequiresReview(auth[e.auth].req.key, e.confirmed)
    \/ ack # NoAck /\ RequiresReview(e.pos, ack)

\* A closed commitment answers only for the receipts of its manifest.
Omitted(e) == commitment[e.auth].closed /\ e \notin commitment[e.auth].manifest

OnHold(e, ack) == Revoked(e, ack) \/ (Known(e.op) /\ payment[e.op].state = "PENDING_REVIEW")

ClaimOf(e) == {c \in claims : c.auth = e.auth /\ c.op = e.op}

\* The claim of e is written once per operation of the authorization.
ClaimsWith(e) == IF ClaimOf(e) = {} THEN claims \cup {e} ELSE claims

\* Another operation of the authorization claims the index of e.
IndexContested(e) == \E c \in claims : c.auth = e.auth /\ c.index = e.index /\ c.op # e.op

\* MUTANT: the claims of other operations are not looked at
CollidesOwn(e) == \E c \in ClaimOf(e) : c # e

\* MUTANT: an operation that has its claim already is not compared again
CollidesOnce(e) == IF ClaimOf(e) # {} THEN \E c \in ClaimOf(e) : c # e ELSE IndexContested(e)

\* What _record_claim returns.
Collides(e) == (\E c \in ClaimOf(e) : c # e) \/ IndexContested(e)

Row(state, e, ack) == [state |-> state, ev |-> e, ack |-> ack]

\* The row of e after a step that leaves it in a state: a stored row keeps its
\* ack in the paths that do not attach one.
WithState(e, ack, state) ==
    [payment EXCEPT ![e.op] = IF @ = NoRow THEN Row(state, e, ack) ELSE [@ EXCEPT !.state = state]]

WithAck(e, ack, state) ==
    [payment EXCEPT ![e.op] = Row(state, e, IF @ = NoRow \/ @.ack = NoAck THEN ack ELSE @.ack)]

\* MUTANT: the wallet is not flagged
FlagNever(w, cond) == review

Flag(w, cond) == [review EXCEPT ![w] = @ \/ cond]

BooksUnchanged ==
    UNCHANGED <<money, auth, commitment, emissions, resolution, topups, legacy, revokedAt>>

\* Evidence that a closed commitment did not list: the client signed it and left
\* it out of its manifest, so its wallet goes to review.
SubmitOmitted(e, ack) ==
    /\ Admissible(e, ack) /\ Valid(e, ack)
    /\ Omitted(e)
    /\ payment' = WithState(e, ack, "PENDING_REVIEW")
    /\ claims' = ClaimsWith(e)
    /\ review' = Flag(Owner(e.auth), TRUE)
    /\ BooksUnchanged /\ UNCHANGED handler

\* Evidence signed after a revocation, or an operation already in review: its
\* claim is still recorded, and a contested index flags the wallet.
SubmitOnHold(e, ack) ==
    /\ Admissible(e, ack) /\ Valid(e, ack)
    /\ ~Omitted(e) /\ OnHold(e, ack)
    /\ payment' = WithState(e, ack, "PENDING_REVIEW")
    /\ claims' = ClaimsWith(e)
    /\ review' = Flag(Owner(e.auth), Collides(e))
    /\ BooksUnchanged /\ UNCHANGED handler

Processable(e, ack) == Admissible(e, ack) /\ Valid(e, ack) /\ ~Omitted(e) /\ ~OnHold(e, ack)

\* Two operations of one authorization with the same issuance index: a wallet
\* that was restored from a copy signed both.
SubmitContested(e, ack) ==
    /\ Processable(e, ack)
    /\ Collides(e)
    /\ payment' = WithAck(e, ack, "PENDING_REVIEW")
    /\ claims' = ClaimsWith(e)
    /\ review' = Flag(Owner(e.auth), TRUE)
    /\ BooksUnchanged /\ UNCHANGED handler

\* A receipt without the merchant's ack waits for it.
SubmitReceipt(e) ==
    /\ Processable(e, NoAck)
    /\ ~Collides(e)
    /\ payment' = WithAck(e, NoAck, "PENDING_EVIDENCE")
    /\ claims' = ClaimsWith(e)
    /\ UNCHANGED review /\ BooksUnchanged /\ UNCHANGED handler

\* MUTANT: only the wallet's UPDATE is conditional
ApplicableByBalance(e) == balance[Owner(e.auth)] >= e.amount

\* The three conditional UPDATEs of _apply: authorization, wallet, commitment.
Applicable(e) ==
    LET a == e.auth IN
    /\ auth[a].remaining >= e.amount /\ auth[a].payments > 0
    /\ balance[Owner(a)] >= e.amount
    /\ commitment[a].held >= e.amount
    /\ commitment[a].emitted + e.amount <= commitment[a].reserved

IndexEmitted(e) == \E m \in emissions : m.auth = e.auth /\ m.index = e.index /\ m.op # e.op

Ready(e, ack) ==
    /\ ack # NoAck
    /\ Processable(e, ack)
    /\ ~Collides(e)
    /\ ~IndexEmitted(e)
    /\ e.op \notin {m.op : m \in emissions}

\* MUTANT: the payment does not lower what the commitment holds
EmitKeepsHeld(c, n) == [c EXCEPT !.emitted = @ + n, !.count = @ + 1]

\* MUTANT: the payment is not counted
EmitUncounted(c, n) ==
    [c EXCEPT !.emitted = @ + n, !.held = @ - n,
              !.phase = IF c.closed /\ c.held = n THEN "SETTLED" ELSE @]

\* A commitment after it pays n cents.
Emit(c, n) ==
    [c EXCEPT !.emitted = @ + n, !.count = @ + 1, !.held = @ - n,
              !.phase = IF c.closed /\ c.held = n THEN "SETTLED" ELSE @]

\* The payment is applied: debit, credit, emission, ledger rows, final state and
\* signed resolution commit together.
SubmitAccepted(e, ack) ==
    LET a == e.auth
        w == Owner(e.auth)
    IN
    /\ Ready(e, ack)
    /\ Applicable(e)
    /\ payment' = WithAck(e, ack, "ACCEPTED")
    /\ claims' = ClaimsWith(e)
    /\ auth' = [auth EXCEPT ![a].remaining = @ - e.amount, ![a].payments = @ - 1]
    /\ commitment' = [commitment EXCEPT ![a] = Emit(@, e.amount)]
    /\ emissions' = emissions \cup {e}
    /\ balance' = Transfer(balance, w, e.amount)
    /\ saldo' = Transfer(saldo, w, e.amount)
    /\ ledger' = ledger \cup Entries(e.op, w, e.amount)
    /\ resolution' = resolution \cup {e.op}
    /\ UNCHANGED <<review, topups, legacy, revokedAt, handler>>

\* One of the UPDATEs matched no row: everything is rolled back, which also
\* drops the lock before the outcome is written.
SubmitInsufficient(t, e, ack) ==
    /\ handler[t] = Idle
    /\ Ready(e, ack)
    /\ ~Applicable(e)
    /\ handler' = [handler EXCEPT ![t] = [kind |-> "insufficient", ev |-> e, ack |-> ack]]
    /\ UNCHANGED <<money, review, auth, commitment, evidenceTables, topups, legacy, revokedAt>>

\* The second transaction of that handler: it overwrites the row it finds, of
\* whatever state, or inserts it, and flags the wallet.
InsufficientCommit(t) ==
    LET e == handler[t].ev
        ack == handler[t].ack
    IN
    /\ handler[t].kind = "insufficient"
    /\ payment' = [payment EXCEPT ![e.op] =
                     IF @ = NoRow THEN Row("PENDING_REVIEW", e, ack)
                     ELSE [@ EXCEPT !.state = "PENDING_REVIEW", !.ack = ack]]
    /\ claims' = ClaimsWith(e)
    /\ review' = Flag(Owner(e.auth), TRUE)
    /\ handler' = [handler EXCEPT ![t] = Idle]
    /\ BooksUnchanged

----------------------------------------------------------------------------
(* Closure of a commitment by its client.                                  *)

ClaimsOn(a) == {c \in claims : c.auth = a}

\* The manifest names exactly the operations the backend knows.
ManifestComplete(a) == {c.op : c \in ClaimsOn(a)} = {op \in Ops : Known(op) /\ payment[op].ev.auth = a}

\* Entry c is the registered evidence of its operation and is not in dispute.
EntrySound(c) ==
    /\ payment[c.op].ev = c
    /\ ~Revoked(c, payment[c.op].ack)
    /\ payment[c.op].state \in {"PENDING_EVIDENCE", "ACCEPTED"}

IssuedTotal(a) == SumOver(Amounts, ClaimsOn(a))

AcceptedTotal(a) == SumOver(Amounts, {c \in ClaimsOn(a) : payment[c.op].state = "ACCEPTED"})

\* The entries are numbered from 1, and the reserve covers them.
ManifestSound(a) ==
    /\ {c.index : c \in ClaimsOn(a)} = 1 .. Cardinality(ClaimsOn(a))
    /\ IssuedTotal(a) <= commitment[a].reserved

Closable(a) ==
    /\ Issued(a)
    /\ ~commitment[a].closed
    /\ ManifestComplete(a)
    /\ ManifestSound(a)

\* The accounting identities the handler demands before it releases anything.
BooksAgree(a) ==
    /\ AcceptedTotal(a) = commitment[a].emitted
    /\ IssuedTotal(a) >= commitment[a].emitted
    /\ commitment[a].held = commitment[a].reserved - commitment[a].emitted - commitment[a].unissued
    /\ commitment[a].unissued = 0

\* MUTANT: the receipts paid before the closure stay held
SealHoldsTotal(c, manifest, total) ==
    [c EXCEPT !.closed = TRUE, !.manifest = manifest, !.unissued = c.reserved - total,
              !.held = total, !.phase = IF total = 0 THEN "SETTLED" ELSE "SEALED"]

\* MUTANT: the receipts not paid yet are released too
SealHoldsNothing(c, manifest, total) ==
    [c EXCEPT !.closed = TRUE, !.manifest = manifest, !.unissued = @ + c.held,
              !.held = 0, !.phase = "SETTLED"]

\* A commitment after its closure with the receipts of manifest, worth total.
Seal(c, manifest, total) ==
    LET rest == c.held - (c.reserved - total) IN
    [c EXCEPT !.closed = TRUE, !.manifest = manifest,
              !.unissued = c.reserved - total, !.held = rest,
              !.phase = IF rest = 0 THEN "SETTLED" ELSE "SEALED"]

Close(a) ==
    /\ Closable(a)
    /\ \A c \in ClaimsOn(a) : EntrySound(c)
    /\ BooksAgree(a)
    /\ commitment' = [commitment EXCEPT ![a] = Seal(@, ClaimsOn(a), IssuedTotal(a))]
    /\ auth' = [auth EXCEPT ![a].active = FALSE]
    /\ UNCHANGED <<money, review, evidenceTables, topups, legacy, revokedAt, handler>>

\* No two operations of the authorization claim one index.
IndicesDistinct(a) == \A c, d \in ClaimsOn(a) : c.index = d.index => c.op = d.op

\* The entries are examined in order; the first one that a revocation reaches
\* flags the wallet, and the commitment stays open.  Later entries are not
\* looked at, so their indices may have gaps.
CloseRevoked(a) ==
    /\ Issued(a)
    /\ ~commitment[a].closed
    /\ ManifestComplete(a)
    /\ IndicesDistinct(a)
    /\ IssuedTotal(a) <= commitment[a].reserved
    /\ \E c \in ClaimsOn(a) :
        /\ payment[c.op].ev = c
        /\ Revoked(c, payment[c.op].ack)
        /\ \A i \in 1 .. c.index - 1 : \E d \in ClaimsOn(a) : d.index = i /\ EntrySound(d)
    /\ review' = Flag(Owner(a), TRUE)
    /\ UNCHANGED <<money, auth, commitment, evidenceTables, topups, legacy, revokedAt, handler>>

\* Two claims share an index: the handler flags the wallet and refuses.  The
\* manifest numbers its entries from 1 and gives each at least a cent.
CloseContested(a) ==
    /\ Issued(a)
    /\ ~commitment[a].closed
    /\ ManifestComplete(a)
    /\ ~IndicesDistinct(a)
    /\ Cardinality(ClaimsOn(a)) <= auth[a].req.maxPayments
    /\ Cardinality(ClaimsOn(a)) <= commitment[a].reserved
    /\ review' = Flag(Owner(a), TRUE)
    /\ UNCHANGED <<money, auth, commitment, evidenceTables, topups, legacy, revokedAt, handler>>

----------------------------------------------------------------------------
(* Environment: v2 payments, revocation, restarts.                         *)

\* The v2 path debits the same balance for an authorization without commitment.
LegacyAccept(p) ==
    /\ p.op \notin {r.op : r \in ledger}
    /\ legacy[p.wallet] >= p.amount
    /\ balance[p.wallet] >= p.amount
    /\ legacy' = [legacy EXCEPT ![p.wallet] = @ - p.amount]
    /\ balance' = Transfer(balance, p.wallet, p.amount)
    /\ saldo' = Transfer(saldo, p.wallet, p.amount)
    /\ ledger' = ledger \cup Entries(p.op, p.wallet, p.amount)
    /\ UNCHANGED <<review, auth, commitment, evidenceTables, topups, revokedAt, handler>>

\* tools/revoke_key.py: a key is revoked once, from a date the operator gives.
Revoke(k, date) ==
    /\ revokedAt[k] = NotRevoked
    /\ revokedAt' = [revokedAt EXCEPT ![k] = date]
    /\ UNCHANGED <<money, review, auth, commitment, evidenceTables, topups, legacy, handler>>

\* MUTANT: what a closure released is not taken into account
MigratedReleased(c) ==
    [c EXCEPT !.held = IF c.held = 0 /\ c.reserved >= c.emitted THEN c.reserved - c.emitted ELSE @,
              !.phase = IF @ = "SETTLED" THEN @ ELSE IF c.closed THEN "SEALED" ELSE "OPEN"]

\* What run_schema_migrations makes of a commitment row at every start.
Migrated(c) ==
    [c EXCEPT !.held = IF c.held = 0 /\ c.reserved >= c.emitted /\ c.unissued = 0
                       THEN c.reserved - c.emitted ELSE @,
              !.phase = IF @ = "SETTLED" THEN @ ELSE IF c.closed THEN "SEALED" ELSE "OPEN"]

\* Payments of a commitment whose claim is missing get one.
BackfilledClaims ==
    claims \cup {payment[op].ev : op \in {o \in Ops :
                    Known(o) /\ Issued(payment[o].ev.auth) /\ ClaimOf(payment[o].ev) = {}}}

DuplicateIndices(w, rows) ==
    \E c, d \in rows : c.auth = d.auth /\ c.index = d.index /\ c.op # d.op /\ Owner(c.auth) = w

\* A handler gives up before it writes: SQLite's busy timeout expires while it
\* waits for the lock, or its insert meets a row that another thread committed.
Abandon(t) ==
    /\ handler[t] # Idle
    /\ handler' = [handler EXCEPT ![t] = Idle]
    /\ UNCHANGED <<money, review, auth, commitment, evidenceTables, topups, legacy, revokedAt>>

\* A crash loses the threads, whose open transactions SQLite rolls back, and the
\* next start runs the migrations.
Restart ==
    /\ handler' = [t \in Threads |-> Idle]
    /\ commitment' = [a \in Auths |-> IF Issued(a) THEN Migrated(commitment[a]) ELSE commitment[a]]
    /\ claims' = BackfilledClaims
    /\ review' = [w \in Wallets |-> review[w] \/ DuplicateIndices(w, BackfilledClaims)]
    /\ UNCHANGED <<money, auth, payment, emissions, resolution, topups, legacy, revokedAt>>

Submit(t, e, ack) ==
    \/ SubmitOmitted(e, ack)
    \/ SubmitOnHold(e, ack)
    \/ SubmitContested(e, ack)
    \/ SubmitAccepted(e, ack)
    \/ SubmitInsufficient(t, e, ack)

Next ==
    \/ \E t \in Threads, r \in TopupRequests : TopupRead(t, r)
    \/ \E t \in Threads : TopupCommit(t)
    \/ \E t \in Threads, r \in IssueRequests : IssueRead(t, r)
    \/ \E t \in Threads : IssueGrant(t)
    \/ \E t \in Threads : IssueRefuse(t)
    \/ \E t \in Threads, e \in Evidence : \E ack \in AckTimes[e] \cup {NoAck} : Submit(t, e, ack)
    \/ \E e \in Evidence : SubmitReceipt(e)
    \/ \E t \in Threads : InsufficientCommit(t)
    \/ \E a \in Auths : Close(a)
    \/ \E a \in Auths : CloseRevoked(a)
    \/ \E a \in Auths : CloseContested(a)
    \/ \E p \in LegacyPayments : LegacyAccept(p)
    \/ \E k \in Keys, date \in RevocationTimes : Revoke(k, date)
    \/ \E t \in Threads : Abandon(t)
    \/ Restart

Spec == Init /\ [][Next]_vars

\* A terminal submits an acknowledged receipt again until it has a result
\* (pos_desktop/sync.py) and the pool serves every request; a handler ends, and
\* one that reached its second transaction does not lose every race for the lock.
Fairness ==
    /\ \A e \in Evidence : \A ack \in AckTimes[e] :
         SF_vars(\E t \in Threads : Submit(t, e, ack))
    /\ \A t \in Threads : /\ WF_vars(TopupCommit(t) \/ IssueGrant(t) \/ IssueRefuse(t))
                         /\ SF_vars(InsufficientCommit(t))

FairSpec == Spec /\ Fairness

----------------------------------------------------------------------------
(* Properties.                                                             *)

\* Every row has its columns and every column its range (models.py).
TypeOK ==
    /\ balance \in [Accounts -> Nat] /\ saldo \in [Accounts -> Nat]
    /\ review \in [Wallets -> BOOLEAN]
    /\ auth \in [Auths -> AuthRows]
    /\ commitment \in [Auths -> CommitmentRows]
    /\ payment \in [Ops -> PaymentRows \cup {NoRow}]
    /\ \A op \in Ops : Known(op) => payment[op].ev.op = op
    /\ claims \subseteq Evidence /\ emissions \subseteq Evidence
    /\ ledger \subseteq LedgerRows
    /\ resolution \subseteq Ops
    /\ topups \subseteq TopupRequests
    /\ legacy \in [Wallets -> Nat]
    /\ revokedAt \in [Keys -> Nat \cup {NotRevoked}]
    /\ handler \in [Threads -> Frames]

\* Every cent a commitment reserved is emitted, still held or released by the
\* closure, and the authorization row agrees with the commitment row: the two
\* tables are updated by separate statements (_apply, close).
Conservation ==
    \A a \in Auths :
        /\ commitment[a].reserved =
             commitment[a].emitted + commitment[a].held + commitment[a].unissued
        /\ auth[a].remaining = commitment[a].reserved - commitment[a].emitted
        /\ ~commitment[a].closed => commitment[a].unissued = 0

\* The balance of a wallet covers everything its commitments hold and its active
\* v2 budget, so no accepted promise can fail for lack of funds, whatever the
\* order of topups, issuances, closures and payments (issue_authorization_v3).
EscrowCovered == \A w \in Wallets : Committed(w) <= balance[w]

\* Two operations that claim one issuance index of an authorization leave its
\* wallet in review, whichever arrives first and by whatever path
\* (_record_claim and its callers).
ContestedIndexReviewed ==
    \A c, d \in claims :
        c.auth = d.auth /\ c.index = d.index /\ c.op # d.op => review[Owner(c.auth)]

\* The balance of every account is explained by its opening balance, its topups
\* and its ledger rows, and the panel's saldo_real agrees with it.
BooksBalance ==
    \A acc \in Accounts :
        LET cents(entry) == SumOver([r \in ledger |-> r.cents],
                                    {r \in ledger : r.account = acc /\ r.entry = entry})
            added == SumOver([p \in topups |-> p.amount], {p \in topups : p.wallet = acc})
        IN  /\ balance[acc] + cents("DEBIT") = OpeningBalance[acc] + added + cents("CREDIT")
            /\ saldo[acc] = balance[acc]

\* A closed commitment holds exactly the manifest receipts that are not paid, each of
\* them can still be paid, and it is settled exactly when nothing is left
\* (close_authorization_v3, _apply).
SealedHoldsWhatIsOwed ==
    \A a \in Auths :
        commitment[a].closed =>
            LET owed == {e \in commitment[a].manifest : payment[e.op].state # "ACCEPTED"} IN
            /\ commitment[a].held = SumOver(Amounts, owed)
            /\ \A e \in owed : Applicable(e)
            /\ commitment[a].phase = "SETTLED" <=> commitment[a].held = 0

\* The counters of a commitment and of its authorization are those of its emission
\* rows, of which there is one for an index, although three tables are written by
\* statements of their own and a closure and every restart touch the counters (_apply).
EmissionsExplainCommitment ==
    \A a \in Auths :
        LET emitted == {e \in emissions : e.auth = a} IN
        /\ commitment[a].emitted = SumOver(Amounts, emitted)
        /\ commitment[a].count = Cardinality(emitted)
        /\ Issued(a) => auth[a].payments + commitment[a].count = auth[a].req.maxPayments
        /\ \A e, f \in emitted : e.index = f.index => e = f

\* What the handlers refuse because their tables contradict each other never happens:
\* an emission of the operation, or of its index, that no claim announced
\* (_apply), and books that a sound manifest does not fit (close_authorization_v3).
RefusalsNeverArise ==
    /\ \A e \in Evidence : \A ack \in AckTimes[e] \cup {NoAck} :
         Processable(e, ack) /\ ~Collides(e) =>
            ~IndexEmitted(e) /\ e.op \notin {m.op : m \in emissions}
    /\ \A a \in Auths :
         Closable(a) /\ (\A c \in ClaimsOn(a) : EntrySound(c)) => BooksAgree(a)

\* One request_id obtains one authorization, although it is looked up before the
\* lock is taken (issue_authorization_v3).
OneGrantPerRequest ==
    \A a, b \in Auths : Issued(a) /\ Issued(b) /\ auth[a].req.id = auth[b].req.id => a = b

\* An operation in review can be explained: a revocation reaches its evidence, or
\* the wallet of one of its receipts is in review.  That wallet may be another than
\* the one of the stored row: an outcome written after the lock was dropped marks
\* the row it finds, which a second wallet may have left meanwhile, and flags the
\* wallet it was about (process_evidence_v3, _apply).
ReviewHasCause ==
    \A op \in Ops :
        Known(op) /\ payment[op].state = "PENDING_REVIEW" =>
            \/ \E ack \in AckTimes[payment[op].ev] \cup {NoAck} : Revoked(payment[op].ev, ack)
            \/ \E f \in Evidence : f.op = op /\ Issued(f.auth) /\ review[Owner(f.auth)]

\* No payment is applied while another operation claims its index.
ContestedNeverPaid ==
    [][\A e \in emissions' \ emissions : ~IndexContested(e)]_emissions

\* No authorization is granted to a wallet that is in review when it is granted,
\* although the flag may be raised between the first check and the lock.
NoGrantInReview ==
    [][\A a \in Auths : ~Issued(a) /\ Issued(a)' => ~review[Owner(a)']]_auth

\* Starting the backend again changes no row of a ledger it wrote itself
\* (run_schema_migrations repairs only databases of older versions).
RestartChangesNothing ==
    [][Restart => UNCHANGED <<commitment, claims, review>>]_vars

\* The acknowledged receipt of an operation that has no other receipt ends up
\* paid or in review, whether the receipt first arrived without its ack or not.
AcknowledgedIsResolved ==
    \A e \in Evidence : \A ack \in AckTimes[e] :
        (\A f \in Evidence : f.op = e.op => f = e) =>
            (Valid(e, ack) ~> /\ Known(e.op)
                              /\ payment[e.op].state \in {"ACCEPTED", "PENDING_REVIEW"})

\* Every acknowledged receipt ends up paid or in review, also when the operation
\* has another receipt: "cada comprobante autenticado queda registrado [...] y la
\* evidencia contradictoria se conservan en revisión".
EveryAcknowledgedIsResolved ==
    \A e \in Evidence : \A ack \in AckTimes[e] :
        Valid(e, ack) ~> /\ Known(e.op)
                         /\ payment[e.op].state \in {"ACCEPTED", "PENDING_REVIEW"}

\* The contracts of the ledger: what a client may rely on (Escrow).
Promise == INSTANCE Escrow WITH
    Payee <- Merchant, Contracts <- Auths, Nobody <- NoRequest, Receipts <- Evidence,
    Deposits <- TopupRequests, Opening <- OpeningBalance,
    funds <- balance, credited <- topups,
    holder <- [a \in Auths |-> IF Issued(a) THEN Owner(a) ELSE NoRequest],
    escrow <- [a \in Auths |-> commitment[a].held],
    released <- {a \in Auths : commitment[a].closed},
    listed <- [a \in Auths |-> commitment[a].manifest],
    paid <- emissions

\* The tables, the locks and the races of the handlers implement the contracts.
KeepsPromise == Promise!Spec

\* The receipt of an operation that the terminal acknowledged, if there is one.
Acknowledged(op) ==
    IF \E e \in Evidence : e.op = op /\ AckTimes[e] # {}
    THEN CHOOSE e \in Evidence : e.op = op /\ AckTimes[e] # {}
    ELSE NoRow

\* What the payment row of an operation says of that receipt: nothing while there is
\* no row, or a row that waits for its ack.  No decision is named PAID_OTHER.
Decision(op) ==
    IF ~Known(op) THEN "NONE"
    ELSE IF payment[op].ev # Acknowledged(op)
         THEN IF payment[op].state = "ACCEPTED" THEN "PAID_OTHER" ELSE "OTHER"
    ELSE IF payment[op].state = "PENDING_EVIDENCE" THEN "NONE" ELSE payment[op].state

\* The rows of the operations as decisions that a terminal waits for (Settlement).
Decided == INSTANCE Settlement WITH
    Receipts <- Evidence, None <- NoRow,
    receipt <- [op \in Ops |-> Acknowledged(op)],
    verdict <- [op \in Ops |-> Decision(op)],
    shown <- [op \in Ops |-> "NOTHING"]

\* An operation is decided once: paid only with the acknowledged receipt, and a
\* review, a payment or another receipt stays what it is, whatever arrives later.
DecisionsStand == Decided!Spec
=============================================================================
