--------------------------- MODULE BackendUpgrade ---------------------------
(***************************************************************************)
(* The start of the backend over the database of an older version          *)
(* (migrations.py and main.py, lifespan), and the tool that restores       *)
(* payments which an older version downgraded                              *)
(* (tools/recover_final_payments.py).                                      *)
(*                                                                         *)
(* A start may end anywhere.  The driver of SQLite opens a transaction     *)
(* with the first UPDATE or INSERT: every CREATE and ALTER before it is    *)
(* committed by itself, though the code runs them in one engine.begin().   *)
(* What a start skips is decided by the columns that it finds.             *)
(***************************************************************************)
EXTENDS Integers, FiniteSets

CONSTANTS
    Contracts,   \* v3 commitments of the old database
    WalletOf,    \* the wallet of each
    OldRow,      \* reserved and emitted cents of each, and whether it was closed
    History,     \* its payments: contract, operation, index, and readable or not
    Damaged,     \* payments of History that an older version downgraded
    Proven,      \* damaged payments whose evidence, resolution and ledger are complete
    Users,       \* users of the old database
    LateClaims   \* claims that contradictory receipts add while the backend serves

\* The operation is the key of the payments, evidence that is complete can be
\* read, and the tables are finite.
ASSUME UpgradeAssumption ==
    /\ WalletOf \in [Contracts -> STRING]
    /\ OldRow \in [Contracts -> [reserved : Nat, emitted : Nat, closed : BOOLEAN]]
    /\ \A p, q \in History : p.op = q.op => p = q
    /\ Proven \subseteq Damaged /\ Damaged \subseteq History
    /\ \A p \in Proven : p.readable
    /\ IsFiniteSet(History) /\ IsFiniteSet(LateClaims)

VARIABLES
    made,      \* columns, indexes and computed columns that the database has
    stage,     \* where the start is
    account,   \* the columns of each commitment that a start reads or computes
    claims,    \* offline_commitment_claims
    review,    \* wallets with offline_review_required
    users,     \* users that have a wallet
    restored,  \* damaged payments that are ACCEPTED again
    listed     \* what a run of the tool found repairable

upgradeVars == <<made, stage, account, claims, review, users, restored, listed>>

\* The columns that a start tests one by one, each with what it does next, and what
\* it adds with a column.
After == [role |-> "revoked_at",
          revoked_at |-> "offline_review_required",
          offline_review_required |-> "merchant_id",
          merchant_id |-> "issuance_index",
          issuance_index |-> "issuance_request_id",
          issuance_request_id |-> "columns"]

Companion == [merchant_id |-> "merchant of terminals",
              issuance_index |-> "uq_commitment_issuance_index",
              issuance_request_id |-> "uq_offline_authorization_issuance_request"]

\* The columns of offline_commitments, each tested by itself.
AccountColumns == {"held_cents", "released_unissued_cents", "released_rejected_cents",
                   "phase", "closure_envelope"}

ClaimOf(p) == [of |-> p.of, op |-> p.op, index |-> p.index]

\* A column that is there has its default, until a start computes it.
DefaultAccount(c) == [held |-> 0, unissued |-> 0, phase |-> "OPEN",
                      closed |-> OldRow[c].closed, evidence |-> FALSE]

PhaseOf(a) == IF a.phase = "SETTLED" THEN "SETTLED" ELSE IF a.closed THEN "SEALED" ELSE "OPEN"

\* MUTANT: cents that were released since are held again
RepairedAgain(c, a) ==
    LET cents == OldRow[c].reserved - OldRow[c].emitted IN
    [a EXCEPT !.held = IF @ = 0 /\ cents >= 0 THEN cents ELSE @,
              !.phase = PhaseOf(a)]

\* The UPDATE statements over a commitment.
Repaired(c, a) ==
    LET cents == OldRow[c].reserved - OldRow[c].emitted IN
    [a EXCEPT !.held = IF @ = 0 /\ cents >= 0 /\ a.unissued = 0 THEN cents ELSE @,
              !.phase = PhaseOf(a)]

\* What the client did not issue is released at the closure, with evidence.
Released(a) ==
    [a EXCEPT !.held = 0, !.unissued = a.held, !.phase = "SETTLED",
              !.closed = TRUE, !.evidence = TRUE]

\* Closed by a version that kept no evidence of the closure.
Unsealed(a) == a.closed /\ ~a.evidence /\ a.held > 0

Contested(some) ==
    {c \in some : \E d \in some : d.of = c.of /\ d.index = c.index /\ d.op # c.op}

UpgradeInit ==
    /\ \E cols \in SUBSET DOMAIN After, accounts \in {{}, AccountColumns} :
          made = cols \cup accounts
                   \cup {Companion[col] : col \in cols \cap DOMAIN Companion}
    /\ account = [c \in Contracts |->
          IF "held_cents" \in made THEN Repaired(c, DefaultAccount(c)) ELSE DefaultAccount(c)]
    /\ claims \in {{}, {ClaimOf(p) : p \in {q \in History : q.readable}}}
    /\ users \in SUBSET Users
    /\ stage = "down" /\ review = {} /\ restored = {} /\ listed = {}

UnchangedData == UNCHANGED <<account, claims, review, users, restored, listed>>

\* After the tables and indexes that are made only if they do not exist.
Start ==
    /\ stage = "down"
    /\ stage' = "role"
    /\ UNCHANGED made /\ UnchangedData

\* A column that is missing, committed by itself.
AddColumn ==
    /\ stage \in DOMAIN After
    /\ IF stage \in made
       THEN stage' = After[stage] /\ UNCHANGED made
       ELSE /\ made' = made \cup {stage}
            /\ stage' = IF stage \in DOMAIN Companion THEN Companion[stage] ELSE After[stage]
    /\ UnchangedData

\* What goes with the column: the merchant of every terminal, or a unique index.
AddCompanion ==
    \E col \in DOMAIN Companion :
        /\ stage = Companion[col]
        /\ made' = made \cup {stage}
        /\ stage' = After[col]
        /\ UnchangedData

\* A missing column of offline_commitments, in any order.
AddAccountColumn ==
    /\ stage = "columns"
    /\ \E col \in AccountColumns \ made : made' = made \cup {col}
    /\ UNCHANGED stage /\ UnchangedData

\* One transaction: cents, phases, and the review of old closures.
RepairAccounts ==
    /\ stage = "columns" /\ AccountColumns \subseteq made
    /\ account' = [c \in Contracts |-> Repaired(c, account[c])]
    /\ review' = review \cup {WalletOf[c] : c \in {d \in Contracts : Unsealed(account'[d])}}
    /\ stage' = "claims"
    /\ UNCHANGED <<made, claims, users, restored, listed>>

\* MUTANT: only what this start inserts is compared
AmbiguousInserted(inserted) == Contested(inserted)

\* The claims with an index that another operation claims, of this start or not.
Ambiguous(inserted) == Contested(claims \cup inserted)

\* One transaction: historical receipts become claims, and what is ambiguous is
\* left to review.
BackfillClaims ==
    LET missing == {p \in History : ~\E c \in claims : c.of = p.of /\ c.op = p.op}
        inserted == {ClaimOf(p) : p \in {q \in missing : q.readable}}
    IN
    /\ stage = "claims"
    /\ claims' = claims \cup inserted
    /\ review' = review \cup {WalletOf[p.of] : p \in {q \in missing : ~q.readable}}
                        \cup {WalletOf[c.of] : c \in Ambiguous(inserted)}
    /\ stage' = "wallets"
    /\ UNCHANGED <<made, account, users, restored, listed>>

\* After create_all and the column of passwords, every user gets a wallet.
BackfillWallets ==
    /\ stage = "wallets"
    /\ users' = Users
    /\ stage' = "serving"
    /\ UNCHANGED <<made, account, claims, review, restored, listed>>

Stop ==
    /\ stage # "down"
    /\ stage' = "down"
    /\ UNCHANGED made /\ UnchangedData

\* While it serves, the backend records a receipt that contradicts another one.
RecordClaim(c) ==
    /\ stage = "serving" /\ c \notin claims
    /\ claims' = claims \cup {c}
    /\ review' = IF c \in Contested(claims') THEN review \cup {WalletOf[c.of]} ELSE review
    /\ UNCHANGED <<made, stage, account, users, restored, listed>>

\* While it serves, it closes a commitment of which nothing more was issued.
Close(c) ==
    /\ stage = "serving" /\ account[c].phase = "OPEN" /\ account[c].held > 0
    /\ account' = [account EXCEPT ![c] = Released(@)]
    /\ UNCHANGED <<made, stage, claims, review, users, restored, listed>>

\* _eligible: complete evidence, and exactly one operation claims the index.
Eligible(p) ==
    /\ p \in Proven \ restored
    /\ Cardinality({c.op : c \in {d \in claims : d.of = p.of /\ d.index = p.index}}) = 1

\* The tool reads what it can repair, and makes a backup.  It needs the indexes of
\* the emissions; whether the server is stopped it cannot tell.
ListRepairable ==
    /\ "issuance_index" \in made
    /\ listed' = {p \in Damaged : Eligible(p)}
    /\ UNCHANGED <<made, stage, account, claims, review, users, restored>>

\* MUTANT: what was repairable is repaired
StillEligibleAsListed(p) == TRUE

\* Under the lock it looks at each of them again.
StillEligible(p) == Eligible(p)

Apply ==
    /\ listed # {}
    /\ restored' = restored \cup {p \in listed : StillEligible(p)}
    /\ listed' = {}
    /\ UNCHANGED <<made, stage, account, claims, review, users>>

UpgradeNext ==
    \/ Start \/ AddColumn \/ AddCompanion \/ AddAccountColumn
    \/ RepairAccounts \/ BackfillClaims \/ BackfillWallets \/ Stop
    \/ \E c \in LateClaims : RecordClaim(c)
    \/ \E c \in Contracts : Close(c)
    \/ ListRepairable \/ Apply

UpgradeSpec == UpgradeInit /\ [][UpgradeNext]_upgradeVars

----------------------------------------------------------------------------
(* Properties.                                                             *)

\* However many starts were cut short, and wherever, and however often the backend
\* starts again after commitments were closed: the cents and phases of every
\* commitment are those of one undisturbed start, or of the closure after it, every
\* readable receipt has its claim, and every user a wallet.
StartsConverge ==
    stage = "serving" =>
        /\ \A c \in Contracts :
              LET once == Repaired(c, DefaultAccount(c)) IN account[c] \in {once, Released(once)}
        /\ \A p \in History : p.readable => ClaimOf(p) \in claims
        /\ users = Users

\* A backend that serves has no ambiguity of the past outside review: two claims of
\* one index, a receipt it cannot read, or cents of a closure without evidence.
AmbiguityIsReviewed ==
    stage = "serving" =>
        /\ \A c \in Contested(claims) : WalletOf[c.of] \in review
        /\ \A p \in History : ~p.readable => WalletOf[p.of] \in review
        /\ \A c \in Contracts : Unsealed(account[c]) => WalletOf[c] \in review

\* No payment is restored against a claim that contradicts it, also when the claim
\* was recorded while the tool made its backup (recover_final_payments.py, main).
RestoredIsUncontested ==
    [][\A p \in restored' \ restored :
          ClaimOf(p) \notin Contested(claims \cup {ClaimOf(p)})]_upgradeVars

\* A backend that serves has what its models declare: a merchant_id in every
\* terminal, "nullable=False" (models.py:160), and the unique indexes.
ServesTheDeclaredSchema ==
    stage = "serving" => \A col \in DOMAIN Companion : Companion[col] \in made
=============================================================================
