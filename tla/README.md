# Verification of the offline payments backend and its POS terminal

TLA+ models of the payment backend (FastAPI over SQLite) and of the desktop
terminal that collects payments over NFC and reports them.  TLC checks the models
on small instances, TLAPS proves the central results for every instance.

Tools: `tlc -config MCX.cfg MCX` checks a run, `tlapm XProofs.tla` checks proofs.
`PROJECT.json` is the index: runs, properties, the lines of `src/` that each
definition models, hazards, findings and theorems.

## 1. The system

A client keeps a balance in the backend.  It *reserves* part of it in a signed
authorization (v3: a commitment), and its Android wallet then signs *receipts*
against the authorization without a connection.  A merchant's terminal hands a
payment request to the phone (first NFC approach), reads authorization and receipt
(second approach), and signs an *acknowledgement* of the receipt, which the phone
stores.  Phone and terminal later submit request, authorization, receipt and ack to
the backend, in any order and any number of times; the backend pays an acknowledged
receipt once and signs a resolution.  The client may *close* a commitment with a
manifest of everything it signed, which releases the rest of the reserve.

| Component | State | Operations | Interacts with |
|---|---|---|---|
| v3 ledger (`api_v3.py`, `sync_v3.py`, `models.py`) | wallets, authorizations, commitments, payments, claims, emissions, ledger entries, resolutions, simulated topups | topup, issue, submit evidence, close | clients and terminals over HTTP; v2 and topups share its wallets; restarts |
| v2 conciliation (`sync_v2.py`, inventory of `api_v3.py`) | v2 rows, budgets, inventory | register inventory, submit evidence | the wallets of the v3 ledger |
| external topups (`main.py`) | orders, payment events | `crear_link`, `mp_webhook` | payment provider; the wallets |
| upgrades (`migrations.py`, `PosDatabase.migrate`, `tools/recover_final_payments.py`) | the schemas and what older versions wrote | a start of the backend, a start of a POS window, list and apply of the tool | every table of either database |
| key registry, revocation (`api_v2.py`, `demo_access.py`, `tools/revoke_key.py`) | wallets of devices, registered keys and terminals | register, revoke, first login of a device | terminals and phones over HTTP; issuance and evidence |
| login and throttle (`auth.py`, `main.py`) | failures per identity and address | login | every route |
| terminal: enrolment (`backend_client.py`, `key_store.py`, `database.py`) | identity, profile, trusted wallet keys | log in and register the key | the key registry |
| terminal: collection (`pos_desktop/service.py`, `database.py`) | table `operations` | create, deliver, collect | phones over NFC |
| NFC exchange (`service.py`, `nfc.py`, `simulator.py`, `protocol_v3.py`) | connections, fragments, cached answers | send and read messages in fragments | collection |
| terminal: synchronisation (`pos_desktop/sync.py`, `backend_client.py`) | the same table, `sync_lock` | report, recover resolutions | the backend over HTTP |
| issuer keys, envelopes, tokens, window, demo tools | nothing that changes | — | — |

How the concurrency works, which every model follows:

- The backend is one process.  Plain handlers run in a thread pool, each with its
  own SQLAlchemy session (no autoflush).  A read outside a transaction sees what is
  committed; the first write takes SQLite's single write lock, which stays until
  commit or rollback.  So *everything between the first write and the commit is one
  step*, and what was read earlier, or is written after a rollback, belongs to
  another step.  `mp_webhook` is a coroutine without awaits after its body, so
  webhooks do not interleave with each other but do with the pool.
- The terminal has its own SQLite.  Each button starts a worker of a thread pool.
  Every statement (or `BEGIN IMMEDIATE` block) is one step, and so is every exchange
  with a phone or the backend; workers and windows interleave freely.

What is hard, by component, and what must hold:

- *Ledger*: checks before the lock (request ids, review flag), outcomes written after
  the lock was dropped, evidence that arrives in any order, a restored wallet that
  signs one index twice, closures between receipts and acks, two ledgers over one
  balance, restarts.  Every reserved cent must stay accounted for, every promise
  covered, a payment applied once and never rewritten, contested evidence held.
- *v2 conciliation*: it validates a row it read before its transaction.  Budgets, nonces
  and operations must not be spent twice.
- *Topups*: notifications are repeated and change; each payment is credited once.
- *Upgrades*: SQLite commits every ALTER by itself, so a start may end between a column
  and what goes with it; ambiguity that older versions left must end in review, a repair
  must not be done twice, and windows that start together must not disagree.
- *Registration and enrolment*: the registry reads before it inserts, and an enrolment
  is four writes in two databases that other presses of the button repeat.  A till that
  works offline must have a key that the backend knows as its own.
- *Login*: the counters are tested and updated in separate critical sections.  They must
  neither be outrun without bound nor lock anybody out for ever.
- *NFC exchange*: the phone has one list of fragments per instruction and repeats
  answers; connections overlap and clear each other.  An exchange must remain atomic.
- *Collection*: exchanges break anywhere and two may run on one operation.  One receipt
  of an operation may be acknowledged, by one ack, which must reach its phone.
- *Synchronisation*: lost answers, leases that expire under a slow run, closed windows,
  late results.  What the terminal shows must be true, and everything gets reported.

The `hazards` list of `PROJECT.json` has each of these at its line.

## 2. Modules

| Module | Models | Lines up with |
|---|---|---|
| `CentSums` | `func.sum` over rows, as a cardinality, so that it can be proved about | `api_v3.py` |
| `CommitmentLedger` | the v3 ledger with revocation, v2 debits and restarts | `api_v3.py`, `sync_v3.py`, `migrations.py` |
| `Escrow` | the abstract promise: contracts over funds, paid out and released once | — |
| `Settlement` | the abstract agreement: of an operation one receipt is acknowledged, it is decided once and shown once | — |
| `LegacySync` | the v2 processor and its inventory | `sync_v2.py`, `api_v3.py:37-77` |
| `ExternalTopup` | links, notifications, and movements of other handlers | `main.py:364-521` |
| `KeyRegistry` | registration and revocation of keys, accounts of devices | `api_v2.py`, `demo_access.py`, `tools/revoke_key.py` |
| `Enrollment` | the enrolment of tills over `KeyRegistry` (EXTENDS it) | `backend_client.py`, `key_store.py`, `database.py` |
| `LoginThrottle` | logins and their counters | `auth.py`, `main.py:189-240` |
| `PosTerminal` | the life of an operation over both approaches | `service.py`, `database.py` |
| `NfcExchange` | the exchanges of `PosTerminal` APDU by APDU (EXTENDS it) | `service.py`, `simulator.py`, `protocol_v3.py` |
| `PosSync` | lease, batch, results, retries, recovery of resolutions | `sync.py`, `database.py`, `backend_client.py` |
| `BackendUpgrade` | a start over an older database, and the recovery tool | `migrations.py`, `main.py`, `tools/recover_final_payments.py` |
| `PosUpgrade` | starts of POS windows over an older database | `pos_desktop/database.py` |
| `*Proofs` | theorems | — |
| `MC*` | constants of the instances; `MCOldData` and `MCEndpoints` put modules side by side | — |

How they fit together.  `CommitmentLedger` implements `Escrow` (refinement mapping
`Promise`): funds are the balances, a contract's escrow is `held_cents`, the receipts
listed are the manifest, the receipts paid are the emissions.  `Settlement` is implemented
from two sides.  In the ledger (`Decided`) the acknowledged receipts are given, and what a row
says of them is the decision; in `PosSync` (`Settled`) the terminal acknowledges, the
backend's answers are the decisions, and the column `state` is what the merchant is told.
`PosTerminal` shows what
`CommitmentLedger` assumes of the evidence (a single receipt per operation is acknowledged):
`OneAckPerOperation`.  `PosSync` sees the ledger one operation at a time (`verdict`), and
its `AcceptLocally` is `StoreAck` of `PosTerminal`, whose `Report` is in turn `PosSync`.
`LegacyAccept` in the ledger is `Accept` of `LegacySync`.  `NfcExchange` refines
`PosTerminal`: it only adds variables, so the mapping is the identity and the refinement is
the property `ExchangeIsAtomic`.  `Enrollment` drives the registry with the requests of its
tills; the keys it leaves behind are those whose revocation the ledger reacts to.

`MCOldData` and `MCEndpoints` check modules that share no variable in one run: the first
state picks the group that moves (`group`), so that TLC explores the sum of their states
and not the product.

Conventions.  A handler that reads before it locks has an action for the read and one
for the transaction; `handler[t]` or `worker[w]` is what the thread carries from one
to the other.  `Abandon`, `GiveUp`, `Restart` and `CloseWindow` are the ways in which a
thread ends early: the busy timeout, a unique index, an exception, a crash.  Operators
marked `MUTANT` are plausible errors that `PROJECT.json` swaps in for the operator that
follows; no specification uses them.

Correspondence in detail:

- *CommitmentLedger*.  `TopupRead`/`TopupCommit` are `simulated_topup_v3`;
  `IssueRead`/`IssueGrant`/`IssueRefuse` are `issue_authorization_v3`.  The outcomes of
  `process_evidence_v3` are actions of their own, in the order of its tests: `SubmitOmitted`
  (closed and not in the manifest), `SubmitOnHold` (revoked, or in review already),
  `SubmitContested` (`_record_claim` saw another claim), `SubmitReceipt` (no ack yet),
  `SubmitAccepted` (`_apply`), and `SubmitInsufficient` followed by `InsufficientCommit`
  (an UPDATE matched no row: rollback, then a second transaction).  `Close`, `CloseRevoked`
  and `CloseContested` are `close_authorization_v3`.  `Restart` ends the threads and runs
  the repairs of `run_schema_migrations`.  Signatures and time windows are
  abstracted into the set `Evidence` of receipts that may arrive and the times of their acks;
  a submission that changes no row is a stutter.
- *LegacySync*.  `Read` is all that `process_evidence_core` does before its first write;
  `Store`, `Accept` and `Refuse` its transaction; `RefuseCommit` the one after the rollback.
- *ExternalTopup*.  `ReadUser`, `ReadWallet`, `Credit` split the webhook at its reads;
  `Credit` writes absolute values, as the ORM attributes do, and `Move` writes deltas.
- *PosTerminal*.  `PutRequest` and `MarkDelivered` are `deliver_request`; `StartCollection`
  reads the row, and `GetStatus`, `MarkWaiting`, `StoreGrant`, `SignAck`, `StoreAck`,
  `PutAck` are the rest of `collect_receipt`.  The phones follow the simulated
  wallet of `simulator.py`.
- *KeyRegistry*.  `LookScope`, `CompareKey` and `InsertKey` are `register_key`: the reads of
  the terminal and of the key, each at its own moment, and the transaction, in which only
  unique columns count.  `RegisterAlone` is the same handler for a key that no other
  request names.
- *Enrollment*.  `ReadIdentity` … `Done` are `login_and_register_key`: `SaveIdentity` is the
  INSERT that fails when another worker made a key pair first, `Send` and `Receive` the
  exchange, `TimeOut` and `DropAnswer` an answer that comes too late.
- *LoginThrottle*.  `Checked`, `Failed` and `Succeeded` are the critical sections of
  `check`, `fail` and `succeed`; each is used for the address and then for the identity.
- *NfcExchange*.  `AcceptFragment` is `_accept_fragment` of the simulated wallet, `Repeated` and
  `Remember` the cache in `transceive`, `Clear` the end of a connection.  `SendPart`,
  `AskStatus` and `ReadPart` are one APDU each; `Record` the statements between exchanges, and
  `Refuse` the exceptions after a receipt was read: `set_authorization` has stored the
  authorization by then (`service.py:112`), and the issuer (182) and the expiry (118) are tested
  after it.  `Expire` of `PosTerminal` is a step here, `Report` is not: it only changes the
  state of a row that is accepted, and an exchange asks whether a row is open and for its ack.
  `scene`, chosen in the beginning, says which worker may meet which phone over which operation;
  with `Scenes = {Workers \X Ops \X Phones}` nothing is excluded, and the proofs hold for every
  value.
- *BackendUpgrade*.  `stage` is where `run_schema_migrations` stands; `AddColumn` and
  `AddCompanion` are separate because SQLite commits them separately.  `RepairAccounts`,
  `BackfillClaims` and `BackfillWallets` are transactions.  `ListRepairable` and `Apply` are
  the tool before and after its backup.
- *PosUpgrade*.  `ReadVersion` is outside, `RunScript` inside a transaction; a script that
  finds its objects made is `ScriptFails`.
- *PosSync*.  `Acquire` … `Release` are `sync_due`; `Answered`/`Unanswered` the HTTP exchange, in
  which any part of a batch may be served before the connection breaks; `ApplyOne` and
  `RetryOne` write results one by one and raise at the first row that has changed;
  `List` and `RecoverOne` are `_recover_final`.  `Status` is the normalisation of
  `backend_client.py`.

## 3. Runs

| Run | Instance | Shows |
|---|---|---|
| `ledger_contest` | 1 wallet, 2 authorizations, 3 operations, 4 receipts, 2 threads, a topup, a v2 payment | the safety of the ledger, its counters, that its tables never contradict each other, and the refinement of `Escrow` |
| `ledger_retry` | the same without topup and v2 payment, with retries; both keys may be revoked | closures and reviews under revocation; decisions stand (`Settlement`); acknowledged receipts are resolved |
| `ledger_conflict` | the same without revocation | finding 1 |
| `old_data` | v2: 2 threads, 4 receipts with a shared operation and a shared nonce; backend: 2 contracts, 4 payments, a late claim; POS: 2 windows, any version | what older versions left is carried over once |
| `legacy_race` | the v2 part | finding 2 |
| `upgrade_crash` | the backend part | finding 4 |
| `endpoints` | 3 orders, 5 notifications, 3 movements; 2 sessions, 2 users, locked after 2 failures | credits; counters and locks |
| `topup_race` | the topups | finding 3 |
| `enrollment` | 2 workers, 2 tills with the same names, 2 merchants, 1 phone, one stop or lost answer | enrolment and bindings |
| `pos_terminal` | 1 operation, 3 phones of which 1 untrusted, 2 workers | evidence and acks |
| `nfc_exchange` | 2 operations, 2 phones of which 1 trusted, 2 workers, three scenes, messages of 1 or 2 fragments, at most 2 reads | exchanges are atomic and get through, in time and without another issuer's authorization |
| `pos_sync` | 2 operations of which 1 the backend refuses, 2 windows | truth of reports, the refinement of `Settlement`, and progress |

Why the bounds suffice.  Two threads are enough for every race: only one holds the lock,
and each kind of stale read needs one other actor to become stale.  The
ledger's evidence was chosen so that each path is taken: `o2` is signed twice, one
receipt repeats the index of `o1`, the other does not fit when only part of the request is
granted (the balance of 4 and the v2 budget of 1 make both full and partial grants
happen); `o3` uses a second authorization, so that reserves compete.
Amounts of 1 and 2 cents distinguish partial from full.  In the v2
instance one budget lacks cents and the other lacks payments for the second receipt.
The old backend has a commitment with cents left and one that was closed without
evidence, an index that two payments claim, a receipt nobody can read, and a downgraded
payment with and without a rival; the initial states are every set of columns that
versions and interrupted starts can leave.  In `endpoints` two failures lock, so that two
concurrent logins overshoot.  In `enrollment` the tills kept the default names, which is
when they compete for terminal and key; the revocation, the phone's registration and a
stop may come at any time, and `MaxStops = 1` lets every step be the one that is lost.
In `pos_terminal` one operation is enough because no statement touches two rows; two trusted
phones compete and the third is of another issuer.  `Stamps` has two values
since two workers sign at most two acks at a time.  In `nfc_exchange` two operations and
two workers mix fragments of two messages in one list; two fragments are the fewest that
can mix, and a single one is the case without a list.  Its scenes are the three ways in which
two exchanges can meet: two operations at one phone, one operation at one phone, and
one operation at a trusted phone and at one of another issuer, whose authorization may be
stored first.  One stamp is enough there, because a second ack of an operation is never sent
(`OneAckPerOperation`, which `pos_terminal` checks with two).  In `pos_sync` an operation may
be old (SYNCED without resolution) or new, refused or paid.

Deadlock checking is off: every system here may stop (nothing left to submit, or all
threads idle).

Abstractions and bounds in the models: amounts are natural numbers (the columns are
64-bit and amounts at most 100,000 cents), each topup and request body comes from a finite
set, a revocation has one of a few dates, an operation of the terminal is due or not (the
length of the backoff is left out), a batch has every due row (the code takes 100),
all logins come from one address (another one has a counter of its own).

### Fairness

Safety is checked of the specification without or with fairness; these runs need it.

- `ledger_retry`: `pos_desktop/sync.py` submits a row again until it has a final
  result, so `Submit` of acknowledged evidence is strongly fair (a retry may find the row
  in another state, and the next one another). A handler that is running
  ends (weak).  `InsufficientCommit` is strongly fair: it may lose the lock, but not
  every time.
- `pos_terminal`: a worker ends (every exchange has a timeout), and the customer
  keeps bringing the phone near until one delivery of the ack is not interrupted.
- `pos_sync`: time passes (a lease expires, an operation becomes due), a running worker goes
  on, the merchant keeps pressing the button and does not close the window during every
  run, and the backend is not busy at every attempt.  There is no timer in the
  code: `sync_due` runs only when the button is pressed, which is why the merchant
  appears here.

- `endpoints`: a login that was let in ends and `lock_seconds` pass (weak).  Whoever knows a
  password keeps trying, and neither a lock nor a restart meets every attempt at the same
  place (strong).  `LockIsLifted` has a premise, that from some time on nobody behind
  the address mistypes: the address is a shared counter, which others could keep locked.
- `enrollment`: the pool serves requests, a run that is not stopped ends (weak), and the
  merchant of a till tries again, with whichever worker is free (strong).
- `nfc_exchange`: a worker ends (weak); a customer with a trusted phone brings it near again
  and the request is resumed from the history (strong).  Nothing makes a request expire or
  brings the phone of another issuer near.  `SignedIsAcknowledged` has the premise
  `Calm`: from some time on connections neither overlap nor break.  Without it two
  workers may clear each other's fragments for ever, which the code does not exclude.
  Its conclusion has two exceptions (`Lost`), and the property fails without either: a
  receipt that is brought near after the request expired (120 s) is never acknowledged, and
  neither is one of an operation with which an authorization of another issuer was stored
  before it was verified (`service.py:112`), which nothing replaces.  Both end with the
  ack: once it is stored it reaches its phone, however late.

## 4. Findings

Each is a disagreement between a document and the code, shown by a run that is expected to
fail.

1. `ledger_conflict`, `EveryAcknowledgedIsResolved` (`sync_v3.py:83`).  `REGISTRO_CAMBIOS.md:693`:
   every authenticated receipt is recorded and contradictory evidence is kept in review.
   When a wallet signed an operation twice and the receipt without ack arrives first, the
   acknowledged one is answered CONFLICT, without a record, every time.
   `AcknowledgedIsResolved` is what holds: operations with one receipt are resolved.
2. `legacy_race`, `FinalRowIsForever` (`sync_v2.py:273`).  `REGISTRO_CAMBIOS.md:423` asks for
   immutable final results.  The refusal that is written after a rollback turns a row that
   another thread accepted into REJECTED.  `BudgetMatchesLedger` and `NoncePaidOnce` show
   that the money stays right.
3. `topup_race`, `BalancesAgree` (`main.py:480`).  `REGISTRO_CAMBIOS.md:407` speaks of atomic
   deltas.  The webhook writes absolute values it read earlier, so a payment that
   commits between the reads is lost from one of the two balances, or from both.
4. `upgrade_crash`, `ServesTheDeclaredSchema` (`migrations.py:85`).  `migrations.py:1` calls
   the migrations safe and incremental, and `models.py:160` declares the merchant of a
   terminal not nullable.  A start that ends after an ALTER was committed and before what
   goes with it (the merchants, a unique index) makes every later start skip both.

A lease belongs to a window, and its owner may take it again (`database.py:209`), so two
presses of the button run two synchronisations at once although `REGISTRO_CAMBIOS.md:470`
says that the lease prevents two simultaneous conciliators.  `pos_sync` and its proofs show that
this does no harm: nothing in them relies on the lease being exclusive.

## 5. Proofs

All proofs are checked to the last leaf; nothing is assumed beyond the named assumptions
on the constants.

*CentSumsProofs*.  A sum of cents is the cardinality of a set of coins.  The lemmas say
that a sum is a natural number, is unchanged by equal values, splits over a
partition, grows by what an element gains, and is monotone in its set.

*CommitmentLedgerProofs*, for any number of wallets, authorizations, keys, threads and receipts:

- `TypeCorrect` (`TypeOK`).  Not inductive alone: the conditional UPDATEs compare the
  balance, while `saldo_real` follows by the same deltas, so `TypeInv` adds
  `PanelAgrees` (`saldo = balance`).  No balance, budget or held amount becomes negative.
- `ReservesAreConserved` (`Conservation`), `EscrowIsCovered` (`EscrowCovered`) and
  `RequestsAreGrantedOnce` (`OneGrantPerRequest`), from
  `IInv == TypeInv /\ Fresh /\ Conservation /\ EscrowCovered /\ OneGrantPerRequest`.
  `Fresh` says that rows of unissued authorizations are empty, which a grant needs:
  it writes only some columns.  `Conservation` is needed for cover, since `Seal` computes
  what stays held by subtraction; the cover step splits the sum of a wallet's holdings
  at the one commitment that a step changes (`HeldFollows`, `HeldStays`).
- `ContestedIndicesAreReviewed`, `FinalStays` (`FinalIsForever`, stated with its proof: a row that
  is final is never rewritten), `RestartsRepairNothing`,
  `NoGrantDuringReview` and `ContestedIsNeverPaid`, from
  `EInv == IInv /\ ClaimsComplete /\ OpenUntilClosed /\ InsufficientStays /\ ContestedIndexReviewed`.
  `ClaimsComplete` says that every stored receipt has its claim, on an issued authorization:
  that is why a second claim is always seen, and why the backfill of a start finds nothing
  to insert.  `OpenUntilClosed` is why its other repairs find nothing either.
  `InsufficientStays` is about the thread that dropped the lock because its payment did not
  fit: budgets only shrink and one receipt of an operation is acknowledged, so no other
  thread can have paid the operation before the outcome is written.
- `LedgerKeepsPromise` (`KeepsPromise`, the refinement of `Escrow`), from
  `PInv == EInv /\ StoredOnce`.  One lemma per kind of step names the abstract action:
  `TopupDeposits`, `LegacySpends`, `GrantReserves`, `AcceptedPays`, `CloseReleases`; all
  others leave balances, commitments and emissions alone (`PromiseStutters`,
  `PromiseReads`).  `StoredOnce` says that rows, emissions and manifests name one
  receipt per operation.
- `EmissionsExplain` (`EmissionsExplainCommitment`), inductive with `PInv`: the emitted cents
  and the count are the sum and the number of the emission rows, and a new row has an
  index of its own because it was a claim that nobody contests.
- `ContradictionsNeverArise` (`RefusalsNeverArise`) follows from the two together.  An emission is
  of a stored claim, so `_record_claim` stops what `_apply` would find; and when all entries of
  a manifest are sound, its paid receipts are the emission rows, so the books fit.
- `SealedHoldsItsReceipts` (`SealedHoldsWhatIsOwed`) from
  `PInv /\ SealedOwes /\ EmissionsExplainCommitment /\ ManifestFits`.  `SealedOwes` gives the cents
  that are held.  That the three conditional UPDATEs of a payment out of a closed commitment
  match needs more: `payments_remaining` is not reserved like cents, and no statement ties it to the
  manifest.  `ManifestFits` does: claims have indices up to `max_payments`, a manifest
  has distinct indices, hence at most that many receipts, and the paid ones are among them; by
  `EmissionsExplainCommitment` a payment is left for each unpaid one.
- `LedgerDecidesOnce` (`DecisionsStand`, the refinement of `Settlement`) from
  `DInv == PInv /\ PaidWithAck`: a payment is of the receipt that its terminal acknowledged, and a
  final row, a review or another receipt is never replaced, also by `InsufficientCommit`, which
  writes after the lock was dropped.
- `NoCentIsLost` (`NoCentLost`): all balances together are the opening balances and the
  topups.  It is not proved over the tables: `Contract`, an instance of `EscrowProofs` under the
  refinement mapping, lifts `MoneyStays` through `LedgerKeepsPromise`.
- `ReviewsHaveCauses` (`ReviewHasCause`) from `EInv`, step by step:
  a cause, once there, stays.
- `BooksAreBalanced` (`BooksBalance`) from `BooksInv`: the new ledger rows of a step are not in
  the ledger yet, because a row of a v3 operation belongs to an emission and v2 operations have
  other names, so that the sums grow by exactly what the balances change by.

*OldDataProofs*, over `LegacySync`, `BackendUpgrade` and `PosUpgrade`.  Of v2 evidence:
`LegacyTypeCorrect`; `BudgetIsTheLedger`, where stale reads are harmless
because the unique ledger rows are tested in the transaction; and
`NoncesArePaidOnce`, `InventoryRules` from
`RInv == LegacyTypeOK /\ RowsInventoried /\ RowsHaveNonces /\ LedgerHasRows`: whatever a row or
a thread holds was admitted by the inventory, rows with one nonce are one row, and
a paid receipt keeps its row.  Of the starts over old data, however many are cut short:

- `StartsAgree` (`StartsConverge`) and `AmbiguitiesAreReviewed` (`AmbiguityIsReviewed`), from
  `UpgradeInv == AccountsConverge /\ PastIsClaimed /\ PastIsReviewed /\ IsFiniteSet(claims)`.
  The UPDATEs of a start are idempotent, so a commitment is at any moment on the way of one
  undisturbed start (`AccountsConverge`).  The backfill inserts all claims or none: that
  is why its test of single rows is enough, and why a wallet that an earlier start
  should have put in review is there (`PastIsReviewed`).
- `RestoredStaysUncontested` (`RestoredIsUncontested`), from the second test of the recovery
  tool under its lock; the first one, before the backup, is not used.
- `SchemasMatchVersions` (`SchemaMatchesVersion`): each script tests by its CREATE or ALTER that no
  other window ran it, so objects and version change together although the version was
  read before (`SchemaInv` bounds what a window read).

*PosTerminalProofs*, for any number of operations, workers, phones and grants:
`TerminalTypeCorrect`, `EvidenceBelongsTogether`, `OneAckIsGiven` and the action property
`AcceptanceIsKept`, from
`TInv == TerminalTypeOK /\ WorkersCarry /\ EvidenceIsOfOneGrant /\ OneAckPerOperation`.
The types are not inductive alone: a worker accepts an operation on the row it read
before the exchange, so that the accepted row has an authorization because of what the
worker carries.  `WorkersCarry` says what that is at each step, and that it agrees with
the row as it is now; the conditions of the UPDATEs in `database.py` do the rest.

The same module proves, for messages of any length, `ExchangesAreAtomic` (`ExchangeIsAtomic`): every
step of `NfcExchange` is a step of `PosTerminal` or a stutter, so what is proved of the
terminal holds fragment by fragment (`FragmentsKeepEvidence`).  `NInv == TInv /\ LinksSound /\ CacheSound`.  The signature
makes a completed list one message, the one its last fragment is of (`WholeIsLast`), so that
another worker's fragments can spoil an exchange and never complete it with something else.
`CacheSound` says that a cached answer is behind the phone, which holds because phones
keep what they have (`PhonesKeep`); it also gives `RepeatsAreBehind` (`RepeatedIsBehind`, stated with its proof).

*PosSyncProofs*, for any number of windows, workers and operations:
`SyncTypeCorrect`, `TerminalShowsTheTruth`, `RecoveryIsExact` and `ReportsAreFinal` (a
reported state is never rewritten), from
`SInv == SyncTypeOK /\ RecoveryMatchesEvidence /\ RowsTrue /\ ResultsTrue`.  `ResultsTrue` says that
an answer a worker still holds, however old, is true of the backend, which never goes
back on one (`VerdictsStand`).  The argument uses neither the lease nor its length: an
expired lease and a second window cost repeated work, never a wrong row.
`SynchronisationSettles` (`SettlesOnce`, the refinement of `Settlement`) adds what `Settlement` says of
the three registers together, in
`SettleInv == SInv /\ SubmittedAreKnown /\ RefusedUndecided /\ NeverRejected`: whatever a worker or
the payer's phone submits is acknowledged already, so the backend decides nothing that the
terminal has not accepted, and what it refuses it never decides.  `RegistersAgree` states the
result as an invariant of the three registers (`Agreement` of `Settlement`).

*EscrowProofs*, for any accounts, contracts and receipts: `ContractsAreSolvent` (`Solvent`)
and `ListedCanBePaid` (`ListedStaysPayable`), from
`EscrowInv == EscrowType /\ Unmade /\ ReleasedAreMade /\ Solvent /\ KeepsWorth /\ ListedAlone`.
They say that the promise, which the ledger is shown to implement, is worth having.
`KeepsWorth` says that a released contract keeps exactly what its unpaid receipts are worth,
`ListedAlone` that no other receipt of a listed operation is listed or paid.  `MoneyStays`
(`MoneyIsConserved`) says that no step makes or loses a cent, from `MoneyInv`; a payment moves
cents between two accounts, which must differ (`Unmade`: no contract is held by its payee).  The
theorems have `EscrowAssumption` as a hypothesis: `Escrow` is instantiated, so it cannot assume.

*EndpointsProofs*.  Of topups, for any orders and notifications:
`EventsExplainTheBalance` (`EventsExplainBalance`, one of whose parts is `CreditedOnce`), from `TopupInv`, whose part
`WebhookSound` says that what a webhook read is still so unless another handler moved the
balances: exactly the case that the run `topup_race` shows to fail.
Of logins, for any number of threads, users and permitted attempts:
`OvershootIsBounded` (`OvershootBounded`).  A counter alone has no inductive bound; a counter
together with the logins that passed its test and may still add to it has one, because
a test that passes leaves the counter below the limit, and a failure turns a login in
progress into a count.

*EnrollmentProofs*, for any number of tills, workers, merchants, keys and stops:
`ProfilesAreRegistered` (`ProfileIsRegistered`), `TrustedKeysAreRegistered`
(`TrustIsRegistered`) and the action property `BindingsStay` (`BindingsAreForever`).  First
every step is `Steady`: it binds no name anew, changes no merchant and no identity.  So
what a worker or a thread read stays true while it holds it, and the rest of
`EnrollmentInv` says what each holds: a call what its terminal still allows
(`CallsAllowed`), a positive answer a registered key (`AnswersTrue`), a worker the identity of
its till and later its registration (`WorkersSound`).

Assumptions: `EvidenceAssumption` has one acknowledged receipt per operation, which
`OneAckIsGiven` proves of the terminal and `FinalStays` needs; `RequestsAssumption` keeps the
operations of v2 and v3 apart, since `offline_payments_v2` has one key for both;
`UpgradeAssumption` has one row per operation, finitely many of them, and complete evidence only in
readable rows; the others
only give the constants their types and finiteness.

Model-checked only: liveness and fairness, which are out of the prover's reach.  Every
invariant, action property and refinement of the passing runs is proved.

## 6. Not modelled, and why

- Cryptography, encoding and parsing: valid evidence is a member of a set.  What an
  envelope binds, as far as the ledger relies on it, is `Bound` and `ManifestSound`.
- Access tokens and issuer trust: functions of a secret, a key and a clock, without state.
- The length of the backoff (`sync.py:141`), the pruning of old counters and the limits of
  sizes and counts in `schemas.py`: no property tells them apart.  An operation is due or not.
- `CREATE TABLE/INDEX IF NOT EXISTS` of the migrations: they run before anything that
  depends on them and repeat without effect.
- The backup tool copies a file with the interface of SQLite.
- `store_resolution_v3` changes no row of a ledger that the v3 code wrote: an ACCEPTED
  payment has its resolution, and nothing in v3 makes a payment REJECTED.
- Retired handlers of `main.py` and `api_v2.py`: the statements after their `raise` of 410
  (`/usuarios`, `/api/billetera/recargar`, `/sync-offline-payments` and others) are unreachable.
- The window, the PC/SC driver under the APDUs, dashboards, demo launchers,
  logs and benchmarks: presentation, input and output.
- The order in which a batch is served: results depend on single operations only.  So do the
  terminal filter and the LIMIT of `list_sync_candidates`: a till has one profile, and what
  is not in a batch is in a later one.
- Two synchronisations of one window (`database.py:209`) are in the proofs, which do not
  look at who has the lease, and not in the run `pos_sync`, whose workers are of two windows.
- A payment that the recovery tool restores after its terminal was told CONFLICT: `PosSync` and
  the tool are not composed, and the terminal does not ask again for what it was told.
- `StartsConverge` looks at cents, phases, claims and wallets, not at the companions of added
  columns; those are what `ServesTheDeclaredSchema` is about, and it fails (finding 4).

## 7. Plan

Order: what holds money first, then what feeds it.

Done: `CentSums`, `CommitmentLedger` with `Escrow` and `Settlement`, `LegacySync`, `ExternalTopup`,
`PosTerminal` with `NfcExchange`, `PosSync`, `KeyRegistry` with `Enrollment`, `LoginThrottle`,
`BackendUpgrade`, `PosUpgrade`; the proofs above.

Next, models:

1. Composition of `PosTerminal` with the ledger's evidence, so that the conjunct of
   `EvidenceAssumption` becomes a consequence.
2. Manifest validation and the splitting of messages as algorithms, against reference
   definitions.

Next, theorems: that composition, once it is modelled.  The safety of every present module is
proved, and so are the refinements of `Escrow`, `Settlement` and `PosTerminal`.
