------------------------------- MODULE Escrow -------------------------------
(***************************************************************************)
(* What the ledger promises, without its tables: a contract sets part of   *)
(* its holder's funds aside, pays receipts out of it to one payee, each    *)
(* receipt once, and is released once.  At the release the holder lists    *)
(* the receipts that may still be paid: the contract keeps exactly what    *)
(* they are worth and pays no other one.                                   *)
(***************************************************************************)
EXTENDS CentSums

CONSTANTS
    Accounts,   \* who holds funds
    Payee,      \* the account every receipt pays
    Contracts,  \* identifiers of contracts
    Nobody,     \* the holder of a contract that was not made
    Receipts,   \* records with an operation op, a contract auth and an amount
    Deposits,   \* records with an id, an account and an amount from outside
    Opening     \* cents of every account at the start

\* TLC evaluates it for the contracts of the ledger, in MCCommitmentLedger.
EscrowAssumption ==
    /\ Payee \in Accounts
    /\ Nobody \notin Accounts
    /\ IsFiniteSet(Accounts) /\ IsFiniteSet(Contracts) /\ IsFiniteSet(Receipts)
    /\ \A r \in Receipts : r.auth \in Contracts /\ r.amount \in Nat \ {0}
    /\ \A d \in Deposits : d.wallet \in Accounts /\ d.amount \in Nat
    /\ Opening \in [Accounts -> Nat]

VARIABLES
    funds,     \* cents of every account
    credited,  \* deposits credited
    holder,    \* the account that made a contract
    escrow,    \* cents a contract holds of its holder's funds
    released,  \* contracts that were released
    listed,    \* receipts a released contract may pay
    paid       \* receipts paid

vars == <<funds, credited, holder, escrow, released, listed, paid>>

\* What the contracts of account x hold together.
SetAside(x) == SumOver([c \in Contracts |-> IF holder[c] = x THEN escrow[c] ELSE 0], Contracts)

\* x has n cents that no contract holds.
Free(x, n) == SetAside(x) + n <= funds[x]

Worth == [r \in Receipts |-> r.amount]

Init ==
    /\ funds = Opening
    /\ credited = {}
    /\ holder = [c \in Contracts |-> Nobody]
    /\ escrow = [c \in Contracts |-> 0]
    /\ released = {}
    /\ listed = [c \in Contracts |-> {}]
    /\ paid = {}

\* A deposit arrives; its id is credited once.
Deposit(d) ==
    /\ \A p \in credited : p.id # d.id
    /\ credited' = credited \cup {d}
    /\ funds' = [funds EXCEPT ![d.wallet] = @ + d.amount]
    /\ UNCHANGED <<holder, escrow, released, listed, paid>>

\* x pays n cents that no contract holds.
Spend(x, n) ==
    /\ x # Payee
    /\ Free(x, n)
    /\ funds' = [funds EXCEPT ![x] = @ - n, ![Payee] = @ + n]
    /\ UNCHANGED <<credited, holder, escrow, released, listed, paid>>

\* x makes contract c for n cents that no other contract holds.
Reserve(c, x, n) ==
    /\ holder[c] = Nobody /\ x # Payee
    /\ Free(x, n)
    /\ holder' = [holder EXCEPT ![c] = x]
    /\ escrow' = [escrow EXCEPT ![c] = n]
    /\ UNCHANGED <<funds, credited, released, listed, paid>>

\* No contract lists another receipt of the operation of r.
NotDisplacing(r) == \A c \in released : \A l \in listed[c] : l.op = r.op => l = r

\* Receipt r is paid out of its contract, and its operation never again.
Pay(r) ==
    LET c == r.auth IN
    /\ holder[c] # Nobody
    /\ \A p \in paid : p.op # r.op
    /\ c \in released => r \in listed[c]
    /\ NotDisplacing(r)
    /\ escrow[c] >= r.amount
    /\ funds' = [funds EXCEPT ![holder[c]] = @ - r.amount, ![Payee] = @ + r.amount]
    /\ escrow' = [escrow EXCEPT ![c] = @ - r.amount]
    /\ paid' = paid \cup {r}
    /\ UNCHANGED <<credited, holder, released, listed>>

\* A list of receipts of c that can all be paid, if they are not paid already.
Listable(c, list) ==
    \A l \in list : /\ l.auth = c
                    /\ \A k \in list \cup paid : k.op = l.op => k = l
                    /\ NotDisplacing(l)

\* What a release with a list keeps.
Kept(list) == SumOver(Worth, list \ paid)

\* The holder releases contract c, listing every receipt it ever signed.
Release(c, list) ==
    /\ holder[c] # Nobody /\ c \notin released
    /\ Listable(c, list)
    /\ {r \in paid : r.auth = c} \subseteq list
    /\ Kept(list) <= escrow[c]
    /\ released' = released \cup {c}
    /\ listed' = [listed EXCEPT ![c] = list]
    /\ escrow' = [escrow EXCEPT ![c] = Kept(list)]
    /\ UNCHANGED <<funds, credited, holder, paid>>

Next ==
    \/ \E d \in Deposits : Deposit(d)
    \/ \E x \in Accounts : \E n \in 1 .. funds[x] : Spend(x, n)
    \/ \E c \in Contracts, x \in Accounts : \E n \in 1 .. funds[x] : Reserve(c, x, n)
    \/ \E r \in Receipts : Pay(r)
    \/ \E c \in Contracts, list \in SUBSET Receipts : Release(c, list)

Spec == Init /\ [][Next]_vars

----------------------------------------------------------------------------
\* Every contract can be honoured: the funds of an account cover what its
\* contracts hold.
Solvent == \A x \in Accounts : SetAside(x) <= funds[x]

\* A listed receipt that is not paid can be paid: nothing else was paid for its
\* operation, and the contract holds its amount.
ListedStaysPayable ==
    \A c \in released : \A r \in listed[c] \ paid :
        escrow[c] >= r.amount /\ \A p \in paid : p.op # r.op

\* No cent is made or lost: all accounts together hold what they opened with and what
\* was deposited.
MoneyIsConserved ==
    SumOver(funds, Accounts) =
        SumOver(Opening, Accounts) + SumOver([d \in credited |-> d.amount], credited)
=============================================================================
