---------------------------- MODULE EscrowProofs ----------------------------
(***************************************************************************)
(* The abstract promise of the ledger is worth having, for every set of    *)
(* accounts, contracts, receipts and deposits.                             *)
(***************************************************************************)
EXTENDS Escrow, CentSumsProofs

\* What every contract of x holds, as an amount per contract.
HoldingOf(x) == [c \in Contracts |-> IF holder[c] = x THEN escrow[c] ELSE 0]

EscrowType ==
    /\ funds \in [Accounts -> Nat]
    /\ holder \in [Contracts -> Accounts \cup {Nobody}]
    /\ escrow \in [Contracts -> Nat]
    /\ released \in SUBSET Contracts
    /\ listed \in [Contracts -> SUBSET Receipts]
    /\ paid \in SUBSET Receipts

\* A contract that nobody made holds nothing, and the payee makes none.
Unmade == \A c \in Contracts : /\ holder[c] # Payee
                               /\ holder[c] = Nobody => escrow[c] = 0

ReleasedAreMade == \A c \in released : holder[c] # Nobody

\* A released contract holds what its unpaid receipts are worth.
KeepsWorth ==
    \A c \in released :
        /\ \A r \in listed[c] : r.auth = c
        /\ escrow[c] = Kept(listed[c])

\* No other receipt of a listed operation is listed or paid.
ListedAlone ==
    \A c, d \in released : \A r \in listed[c], k \in listed[d] \cup paid :
        k.op = r.op => k = r

EscrowInv ==
    EscrowType /\ Unmade /\ ReleasedAreMade /\ Solvent /\ KeepsWorth /\ ListedAlone

----------------------------------------------------------------------------

\* The fields of a receipt.
LEMMA ReceiptFields ==
  ASSUME EscrowAssumption
  PROVE  /\ \A r \in Receipts : r.auth \in Contracts /\ r.amount \in Nat \ {0} /\ Worth[r] = r.amount
         /\ Payee \in Accounts /\ Nobody \notin Accounts
         /\ IsFiniteSet(Contracts) /\ IsFiniteSet(Receipts)
BY DEF EscrowAssumption, Worth

\* What the contracts of an account hold is an amount.
LEMMA SetAsideNat ==
  ASSUME EscrowAssumption, EscrowType, NEW x
  PROVE  /\ \A c \in Contracts : HoldingOf(x)[c] \in Nat
         /\ SetAside(x) = SumOver(HoldingOf(x), Contracts)
         /\ SetAside(x) \in Nat
<1>1. \A c \in Contracts : HoldingOf(x)[c] \in Nat
  BY DEF EscrowType, HoldingOf
<1>2. SetAside(x) = SumOver(HoldingOf(x), Contracts)
  BY DEF SetAside, HoldingOf
<1>3. QED
  BY <1>1, <1>2, SumNat, ReceiptFields

\* When one contract changes, the sums follow it.
LEMMA SetAsideFollows ==
  ASSUME EscrowAssumption, EscrowType, EscrowType', NEW c \in Contracts, NEW x,
         \A d \in Contracts \ {c} : holder'[d] = holder[d] /\ escrow'[d] = escrow[d]
  PROVE  SetAside(x)' = SetAside(x) - HoldingOf(x)[c] + HoldingOf(x)'[c]
<1>1. \A d \in Contracts : HoldingOf(x)[d] \in Nat /\ HoldingOf(x)'[d] \in Nat
  BY DEF EscrowType, HoldingOf
<1>2. \A d \in Contracts \ {c} : HoldingOf(x)[d] = HoldingOf(x)'[d]
  BY DEF HoldingOf
<1>3. SumOver(HoldingOf(x)', Contracts)
        = SumOver(HoldingOf(x), Contracts) - HoldingOf(x)[c] + HoldingOf(x)'[c]
  BY <1>1, <1>2, SumUpdate, ReceiptFields
<1>4. QED
  BY <1>3 DEF SetAside, HoldingOf

\* When no contract changes, no sum changes.
LEMMA SetAsideStays ==
  ASSUME UNCHANGED <<holder, escrow>>, NEW x
  PROVE  SetAside(x)' = SetAside(x)
BY DEF SetAside

\* What a list keeps is an amount.
LEMMA KeptNat ==
  ASSUME EscrowAssumption, NEW list \in SUBSET Receipts
  PROVE  Kept(list) \in Nat
<1>1. IsFiniteSet(list \ paid) /\ \A r \in list \ paid : Worth[r] \in Nat
  BY ReceiptFields, FS_Subset
<1>2. QED
  BY <1>1, SumNat DEF Kept

\* The funds of the holder of a contract cover what it holds.
LEMMA HolderCovers ==
  ASSUME EscrowAssumption, EscrowInv, NEW c \in Contracts, holder[c] \in Accounts
  PROVE  escrow[c] <= funds[holder[c]]
<1> DEFINE x == holder[c]
<1>1. EscrowType /\ Solvent
  BY DEF EscrowInv
<1>2. \A d \in Contracts : HoldingOf(x)[d] \in Nat
  BY <1>1, SetAsideNat
<1>3. HoldingOf(x)[c] = escrow[c]
  BY DEF HoldingOf
<1>4. SumOver(HoldingOf(x), {c}) = escrow[c]
  BY <1>2, <1>3, SumOne
<1>5. SumOver(HoldingOf(x), {c}) <= SumOver(HoldingOf(x), Contracts)
  BY <1>2, SumSubset, ReceiptFields
<1>6. SetAside(x) \in Nat /\ SetAside(x) = SumOver(HoldingOf(x), Contracts)
  BY <1>1, SetAsideNat
<1>7. escrow[c] \in Nat /\ funds[x] \in Nat /\ SetAside(x) <= funds[x]
  BY <1>1 DEF EscrowType, Solvent
<1>8. QED
  BY <1>4, <1>5, <1>6, <1>7

----------------------------------------------------------------------------
(* Every step keeps the invariant.                                         *)

LEMMA EscrowInitial == EscrowAssumption /\ Init => EscrowInv
<1> SUFFICES ASSUME EscrowAssumption, Init PROVE EscrowInv
  OBVIOUS
<1>1. EscrowType
  BY DEF EscrowAssumption, Init, EscrowType
<1>2. Unmade /\ ReleasedAreMade /\ KeepsWorth /\ ListedAlone
  BY DEF EscrowAssumption, Init, Unmade, ReleasedAreMade, KeepsWorth, ListedAlone
<1>3. Solvent
  <2> SUFFICES ASSUME NEW x \in Accounts PROVE SetAside(x) <= funds[x]
    BY DEF Solvent
  <2>1. \A c \in Contracts : HoldingOf(x)[c] = [d \in Contracts |-> 0][c]
    BY DEF HoldingOf, Init
  <2>2. SetAside(x) = SumOver([d \in Contracts |-> 0], Contracts)
    BY <1>1, <2>1, SumSame, SetAsideNat
  <2>3. Coins([d \in Contracts |-> 0], Contracts) = {}
    BY DEF Coins
  <2>4. SetAside(x) = 0
    BY <2>2, <2>3, FS_EmptySet DEF SumOver
  <2>5. QED
    BY <1>1, <2>4 DEF EscrowType
<1>4. QED
  BY <1>1, <1>2, <1>3 DEF EscrowInv

LEMMA EscrowTypeStep ==
  ASSUME EscrowAssumption, EscrowInv, [Next]_vars
  PROVE  EscrowType' /\ Unmade' /\ ReleasedAreMade'
<1> USE ReceiptFields DEF EscrowInv, EscrowType, Unmade, ReleasedAreMade
<1>1. ASSUME NEW d \in Deposits, Deposit(d) PROVE EscrowType' /\ Unmade' /\ ReleasedAreMade'
  BY <1>1 DEF Deposit, EscrowAssumption
<1>2. ASSUME NEW x \in Accounts, NEW n \in 1 .. funds[x], Spend(x, n)
      PROVE  EscrowType' /\ Unmade' /\ ReleasedAreMade'
  <2>1. n \in Nat /\ funds[x] - n \in Nat
    OBVIOUS
  <2>2. funds' \in [Accounts -> Nat]
    BY <1>2, <2>1 DEF Spend
  <2>3. QED
    BY <1>2, <2>2 DEF Spend
<1>3. ASSUME NEW c \in Contracts, NEW x \in Accounts, NEW n \in 1 .. funds[x], Reserve(c, x, n)
      PROVE  EscrowType' /\ Unmade' /\ ReleasedAreMade'
  BY <1>3 DEF Reserve
<1>4. ASSUME NEW r \in Receipts, Pay(r) PROVE EscrowType' /\ Unmade' /\ ReleasedAreMade'
  <2> DEFINE c == r.auth
  <2>1. c \in Contracts /\ holder[c] \in Accounts /\ holder[c] # Payee
    BY <1>4 DEF Pay
  <2>4. funds[holder[c]] >= escrow[c] /\ escrow[c] >= r.amount
    BY <2>1, <1>4, HolderCovers DEF Pay
  <2>5. funds' \in [Accounts -> Nat] /\ escrow' \in [Contracts -> Nat]
    BY <1>4, <2>1, <2>4 DEF Pay
  <2>6. Unmade'
    BY <1>4, <2>1 DEF Pay
  <2>7. QED
    BY <1>4, <2>5, <2>6 DEF Pay
<1>5. ASSUME NEW c \in Contracts, NEW list \in SUBSET Receipts, Release(c, list)
      PROVE  EscrowType' /\ Unmade' /\ ReleasedAreMade'
  BY <1>5, KeptNat DEF Release
<1>6. CASE UNCHANGED vars
  BY <1>6 DEF vars
<1>7. QED
  BY <1>1, <1>2, <1>3, <1>4, <1>5, <1>6 DEF Next

LEMMA SolventStep ==
  ASSUME EscrowAssumption, EscrowInv, [Next]_vars
  PROVE  Solvent'
<1> SUFFICES ASSUME NEW x \in Accounts
             PROVE  SetAside(x)' <= funds'[x]
  BY DEF Solvent
<1>a. EscrowType /\ EscrowType'
  BY EscrowTypeStep DEF EscrowInv
<1>b. /\ SetAside(x) \in Nat /\ SetAside(x)' \in Nat
      /\ funds[x] \in Nat /\ funds'[x] \in Nat
      /\ SetAside(x) <= funds[x]
  <2>1. SetAside(x) \in Nat
    BY <1>a, SetAsideNat
  <2>2. \A c \in Contracts : HoldingOf(x)'[c] \in Nat
    BY <1>a DEF EscrowType, HoldingOf
  <2>3. SumOver(HoldingOf(x)', Contracts) \in Nat
    BY <2>2, SumNat, ReceiptFields
  <2>4. SetAside(x)' \in Nat
    BY <2>3 DEF SetAside, HoldingOf
  <2>5. QED
    BY <1>a, <2>1, <2>4 DEF EscrowInv, Solvent, EscrowType
<1>1. ASSUME NEW d \in Deposits, Deposit(d) PROVE SetAside(x)' <= funds'[x]
  <2>1. SetAside(x)' = SetAside(x)
    BY <1>1, SetAsideStays DEF Deposit
  <2>2. funds'[x] >= funds[x]
    BY <1>1, <1>a, <1>b DEF Deposit, EscrowType, EscrowAssumption
  <2>3. QED
    BY <1>b, <2>1, <2>2
<1>2. ASSUME NEW y \in Accounts, NEW n \in 1 .. funds[y], Spend(y, n)
      PROVE  SetAside(x)' <= funds'[x]
  <2>1. SetAside(x)' = SetAside(x)
    BY <1>2, SetAsideStays DEF Spend
  <2>2. funds[y] \in Nat /\ n \in Nat /\ y # Payee
    BY <1>2, <1>a DEF Spend, EscrowType
  <2>3. CASE x = y
    <3>1. funds'[x] = funds[x] - n /\ SetAside(x) + n <= funds[x]
      BY <1>2, <1>a, <2>2, <2>3, ReceiptFields DEF Spend, Free, EscrowType
    <3>2. QED
      BY <1>b, <2>1, <2>2, <3>1
  <2>4. CASE x # y
    <3>1. funds'[x] >= funds[x]
      BY <1>2, <1>a, <1>b, <2>2, <2>4, ReceiptFields DEF Spend, EscrowType
    <3>2. QED
      BY <1>b, <2>1, <3>1
  <2>5. QED
    BY <2>3, <2>4
<1>3. ASSUME NEW c \in Contracts, NEW y \in Accounts, NEW n \in 1 .. funds[y], Reserve(c, y, n)
      PROVE  SetAside(x)' <= funds'[x]
  <2>1. \A d \in Contracts \ {c} : holder'[d] = holder[d] /\ escrow'[d] = escrow[d]
    BY <1>3, <1>a DEF Reserve, EscrowType
  <2>2. SetAside(x)' = SetAside(x) - HoldingOf(x)[c] + HoldingOf(x)'[c]
    BY <1>a, <2>1, SetAsideFollows
  <2>3. HoldingOf(x)[c] = 0
    BY <1>3, ReceiptFields DEF Reserve, HoldingOf
  <2>4. HoldingOf(x)'[c] = (IF x = y THEN n ELSE 0)
    BY <1>3, <1>a DEF Reserve, HoldingOf, EscrowType
  <2>5. n \in Nat /\ funds'[x] = funds[x]
    BY <1>3, <1>a DEF Reserve, EscrowType
  <2>6. x = y => SetAside(x) + n <= funds[x]
    BY <1>3 DEF Reserve, Free
  <2>7. QED
    BY <1>b, <2>2, <2>3, <2>4, <2>5, <2>6
<1>4. ASSUME NEW r \in Receipts, Pay(r) PROVE SetAside(x)' <= funds'[x]
  <2> DEFINE c == r.auth
  <2>1. /\ c \in Contracts /\ holder[c] \in Accounts /\ holder[c] # Payee
        /\ r.amount \in Nat /\ escrow[c] \in Nat /\ escrow[c] >= r.amount
    BY <1>4, <1>a, ReceiptFields DEF Pay, EscrowInv, EscrowType, Unmade
  <2>2. \A d \in Contracts \ {c} : holder'[d] = holder[d] /\ escrow'[d] = escrow[d]
    BY <1>4, <1>a DEF Pay, EscrowType
  <2>3. SetAside(x)' = SetAside(x) - HoldingOf(x)[c] + HoldingOf(x)'[c]
    BY <1>a, <2>1, <2>2, SetAsideFollows
  <2>4. CASE x = holder[c]
    <3>1. HoldingOf(x)[c] = escrow[c] /\ HoldingOf(x)'[c] = escrow[c] - r.amount
      BY <1>4, <1>a, <2>1, <2>4 DEF Pay, HoldingOf, EscrowType
    <3>2. funds'[x] = funds[x] - r.amount
      BY <1>4, <1>a, <2>1, <2>4, ReceiptFields DEF Pay, EscrowType
    <3>3. QED
      BY <1>b, <2>1, <2>3, <3>1, <3>2
  <2>5. CASE x # holder[c]
    <3>1. HoldingOf(x)[c] = 0 /\ HoldingOf(x)'[c] = 0
      BY <1>4, <2>1, <2>5 DEF Pay, HoldingOf
    <3>2. funds'[x] >= funds[x]
      BY <1>4, <1>a, <1>b, <2>1, <2>5, ReceiptFields DEF Pay, EscrowType
    <3>3. QED
      BY <1>b, <2>3, <3>1, <3>2
  <2>6. QED
    BY <2>4, <2>5
<1>5. ASSUME NEW c \in Contracts, NEW list \in SUBSET Receipts, Release(c, list)
      PROVE  SetAside(x)' <= funds'[x]
  <2>1. \A d \in Contracts \ {c} : holder'[d] = holder[d] /\ escrow'[d] = escrow[d]
    BY <1>5, <1>a DEF Release, EscrowType
  <2>2. SetAside(x)' = SetAside(x) - HoldingOf(x)[c] + HoldingOf(x)'[c]
    BY <1>a, <2>1, SetAsideFollows
  <2>3. Kept(list) \in Nat /\ escrow[c] \in Nat /\ escrow'[c] = Kept(list) /\ Kept(list) <= escrow[c]
    BY <1>5, <1>a, KeptNat DEF Release, EscrowType
  <2>4. HoldingOf(x)'[c] <= HoldingOf(x)[c] /\ HoldingOf(x)[c] \in Nat /\ HoldingOf(x)'[c] \in Nat
    BY <1>5, <2>3 DEF Release, HoldingOf
  <2>5. funds'[x] = funds[x]
    BY <1>5 DEF Release
  <2>6. QED
    BY <1>b, <2>2, <2>4, <2>5
<1>6. CASE UNCHANGED vars
  BY <1>6, <1>b, SetAsideStays DEF vars
<1>7. QED
  BY <1>1, <1>2, <1>3, <1>4, <1>5, <1>6 DEF Next

\* A released contract holds what its unpaid receipts are worth.
LEMMA WorthStep ==
  ASSUME EscrowAssumption, EscrowInv, [Next]_vars
  PROVE  KeepsWorth'
<1> SUFFICES ASSUME NEW d \in released'
             PROVE  /\ \A r \in listed'[d] : r.auth = d
                    /\ escrow'[d] = Kept(listed[d])'
  BY DEF KeepsWorth
<1>a. EscrowType /\ EscrowType'
  BY EscrowTypeStep DEF EscrowInv
<1>b. d \in released => /\ \A r \in listed[d] : r.auth = d
                        /\ escrow[d] = Kept(listed[d])
                        /\ listed[d] \subseteq Receipts
  BY <1>a DEF EscrowInv, KeepsWorth, EscrowType
<1>c. ASSUME d \in released, UNCHANGED <<listed, paid>>, escrow'[d] = escrow[d]
      PROVE  /\ \A r \in listed'[d] : r.auth = d
             /\ escrow'[d] = Kept(listed[d])'
  BY <1>b, <1>c DEF Kept
<1>1. ASSUME NEW e \in Deposits, Deposit(e) PROVE escrow'[d] = Kept(listed[d])' /\ \A r \in listed'[d] : r.auth = d
  BY <1>1, <1>c DEF Deposit
<1>2. ASSUME NEW y \in Accounts, NEW n \in 1 .. funds[y], Spend(y, n)
      PROVE  escrow'[d] = Kept(listed[d])' /\ \A r \in listed'[d] : r.auth = d
  BY <1>2, <1>c DEF Spend
<1>3. ASSUME NEW c \in Contracts, NEW y \in Accounts, NEW n \in 1 .. funds[y], Reserve(c, y, n)
      PROVE  escrow'[d] = Kept(listed[d])' /\ \A r \in listed'[d] : r.auth = d
  <2>1. d \in released /\ d # c
    BY <1>3, ReceiptFields DEF Reserve, EscrowInv, ReleasedAreMade
  <2>2. QED
    BY <1>3, <1>a, <1>c, <2>1 DEF Reserve, EscrowType
<1>4. ASSUME NEW r \in Receipts, Pay(r)
      PROVE  escrow'[d] = Kept(listed[d])' /\ \A k \in listed'[d] : k.auth = d
  <2>1. d \in released /\ listed' = listed /\ paid' = paid \cup {r} /\ r \notin paid
    BY <1>4 DEF Pay
  <2>2. CASE d # r.auth
    <3>1. escrow'[d] = escrow[d] /\ r \notin listed[d]
      BY <1>4, <1>a, <1>b, <2>1, <2>2 DEF Pay, EscrowType
    <3>2. listed[d] \ paid' = listed[d] \ paid
      BY <2>1, <3>1
    <3>3. QED
      BY <1>b, <2>1, <3>1, <3>2 DEF Kept
  <2>3. CASE d = r.auth
    <3> DEFINE rest == listed[d] \ (paid \cup {r})
    <3>1. r \in listed[d] /\ escrow'[d] = escrow[d] - r.amount
      BY <1>4, <1>a, <2>1, <2>3 DEF Pay, EscrowType
    <3>2. listed[d] \ paid = rest \cup {r} /\ r \notin rest
      BY <2>1, <3>1
    <3>3. IsFiniteSet(rest) /\ \A k \in rest \cup {r} : Worth[k] \in Nat
      BY <1>b, <2>1, ReceiptFields, FS_Subset
    <3>4. SumOver(Worth, listed[d] \ paid) = SumOver(Worth, rest) + r.amount
      <4> HIDE DEF rest
      <4>1. SumOver(Worth, rest \cup {r}) = SumOver(Worth, rest) + Worth[r]
        BY <3>2, <3>3, SumAdd
      <4>2. QED
        BY <3>2, <4>1, ReceiptFields
    <3>5. SumOver(Worth, rest) \in Nat /\ r.amount \in Nat
      BY <3>3, SumNat, ReceiptFields
    <3>6. escrow'[d] = SumOver(Worth, rest)
      BY <1>b, <2>1, <3>1, <3>4, <3>5 DEF Kept
    <3>7. QED
      BY <1>b, <2>1, <3>6 DEF Kept
  <2>4. QED
    BY <2>2, <2>3
<1>5. ASSUME NEW c \in Contracts, NEW list \in SUBSET Receipts, Release(c, list)
      PROVE  escrow'[d] = Kept(listed[d])' /\ \A r \in listed'[d] : r.auth = d
  <2>1. CASE d = c
    <3>1. listed'[d] = list /\ escrow'[d] = Kept(list) /\ paid' = paid
      BY <1>5, <1>a, <2>1 DEF Release, EscrowType
    <3>2. \A r \in list : r.auth = d
      BY <1>5, <2>1 DEF Release, Listable
    <3>3. QED
      BY <3>1, <3>2 DEF Kept
  <2>2. CASE d # c
    <3>1. d \in released /\ listed'[d] = listed[d] /\ escrow'[d] = escrow[d] /\ paid' = paid
      BY <1>5, <1>a, <2>2 DEF Release, EscrowType
    <3>2. QED
      BY <1>b, <3>1 DEF Kept
  <2>3. QED
    BY <2>1, <2>2
<1>6. CASE UNCHANGED vars
  BY <1>6, <1>c DEF vars
<1>7. QED
  BY <1>1, <1>2, <1>3, <1>4, <1>5, <1>6 DEF Next

\* No other receipt of a listed operation is listed or paid.
LEMMA AloneStep ==
  ASSUME EscrowAssumption, EscrowInv, [Next]_vars
  PROVE  ListedAlone'
<1> SUFFICES ASSUME NEW c \in released', NEW d \in released',
                    NEW l \in listed'[c], NEW k \in listed'[d] \cup paid', k.op = l.op
             PROVE  k = l
  BY DEF ListedAlone
<1>a. EscrowType
  BY DEF EscrowInv
<1>1. CASE UNCHANGED <<released, listed, paid>>
  BY <1>1 DEF EscrowInv, ListedAlone
<1>2. ASSUME NEW r \in Receipts, Pay(r) PROVE k = l
  <2>1. released' = released /\ listed' = listed /\ paid' = paid \cup {r}
    BY <1>2 DEF Pay
  <2>2. CASE k = r
    BY <1>2, <2>1, <2>2 DEF Pay, NotDisplacing
  <2>3. CASE k # r
    BY <2>1, <2>3 DEF EscrowInv, ListedAlone
  <2>4. QED
    BY <2>2, <2>3
<1>3. ASSUME NEW b \in Contracts, NEW list \in SUBSET Receipts, Release(b, list)
      PROVE  k = l
  <2>1. /\ released' = released \cup {b} /\ paid' = paid
        /\ \A e \in Contracts : listed'[e] = IF e = b THEN list ELSE listed[e]
    BY <1>3, <1>a DEF Release, EscrowType
  <2>2. c \in Contracts /\ d \in Contracts
    BY <1>a, <2>1 DEF EscrowType
  <2>3. \A x \in list : /\ \A y \in list \cup paid : y.op = x.op => y = x
                        /\ \A e \in released : \A y \in listed[e] : y.op = x.op => y = x
    BY <1>3 DEF Release, Listable, NotDisplacing
  <2>4. CASE c = b
    BY <2>1, <2>2, <2>3, <2>4
  <2>5. CASE c # b /\ k \in paid
    BY <2>1, <2>2, <2>5 DEF EscrowInv, ListedAlone
  <2>6. CASE c # b /\ k \in listed'[d]
    BY <2>1, <2>2, <2>3, <2>6 DEF EscrowInv, ListedAlone
  <2>7. QED
    BY <2>1, <2>4, <2>5, <2>6
<1>4. QED
  BY <1>1, <1>2, <1>3 DEF Next, Deposit, Spend, Reserve, vars

LEMMA EscrowStep == EscrowAssumption /\ EscrowInv /\ [Next]_vars => EscrowInv'
BY EscrowTypeStep, SolventStep, WorthStep, AloneStep DEF EscrowInv

----------------------------------------------------------------------------

\* Every contract can be honoured, whatever is deposited, spent, reserved, paid and
\* released: what api_v3.py promises to a merchant with a signed authorization.
THEOREM ContractsAreSolvent ==
  ASSUME EscrowAssumption
  PROVE  Spec => []Solvent
<1>1. EscrowInv => Solvent
  BY DEF EscrowInv
<1>2. QED
  BY <1>1, EscrowInitial, EscrowStep, PTL DEF Spec

\* A receipt that a released contract lists can always be paid until it is: the
\* release of the rest (close_authorization_v3) takes nothing from a merchant.
THEOREM ListedCanBePaid ==
  ASSUME EscrowAssumption
  PROVE  Spec => []ListedStaysPayable
<1>1. EscrowInv => ListedStaysPayable
  <2> SUFFICES ASSUME EscrowInv, NEW c \in released, NEW r \in listed[c] \ paid
               PROVE  escrow[c] >= r.amount /\ \A p \in paid : p.op # r.op
    BY DEF ListedStaysPayable
  <2>1. \A p \in paid : p.op # r.op
    BY DEF EscrowInv, ListedAlone
  <2> DEFINE due == listed[c] \ paid
  <2>2. due \subseteq Receipts /\ r \in Receipts /\ escrow[c] = SumOver(Worth, due)
    BY DEF EscrowInv, EscrowType, KeepsWorth, Kept
  <2>3. IsFiniteSet(due) /\ \A k \in due : Worth[k] \in Nat
    BY <2>2, ReceiptFields, FS_Subset
  <2>4. SumOver(Worth, {r}) <= SumOver(Worth, due)
    BY <2>3, SumSubset
  <2>5. SumOver(Worth, {r}) = r.amount
    BY <2>2, ReceiptFields, SumOne
  <2>6. SumOver(Worth, due) \in Nat /\ r.amount \in Nat
    BY <2>2, <2>3, ReceiptFields, SumNat
  <2>7. QED
    BY <2>1, <2>2, <2>4, <2>5, <2>6
<1>2. QED
  BY <1>1, EscrowInitial, EscrowStep, PTL DEF Spec

----------------------------------------------------------------------------
(* No cent is made or lost.                                                *)

Credits(T) == SumOver([d \in T |-> d.amount], T)

MoneyInv ==
    /\ EscrowInv
    /\ IsFiniteSet(credited) /\ credited \subseteq Deposits
    /\ MoneyIsConserved

\* A deposit that was not credited adds its amount.
LEMMA CreditAdds ==
  ASSUME EscrowAssumption, NEW T \in SUBSET Deposits, IsFiniteSet(T), NEW d \in Deposits, d \notin T
  PROVE  /\ Credits(T) \in Nat /\ IsFiniteSet(T \cup {d})
         /\ Credits(T \cup {d}) = Credits(T) + d.amount
<1> DEFINE f == [e \in T |-> e.amount]
           g == [e \in T \cup {d} |-> e.amount]
<1>1. /\ \A e \in T : f[e] \in Nat /\ f[e] = g[e]
      /\ \A e \in T \cup {d} : g[e] \in Nat
      /\ g[d] = d.amount
  BY DEF EscrowAssumption
<1>2. Credits(T) = SumOver(f, T) /\ Credits(T \cup {d}) = SumOver(g, T \cup {d})
  BY DEF Credits
<1> HIDE DEF f, g
<1>3. SumOver(g, T \cup {d}) = SumOver(g, T) + g[d]
  BY <1>1, SumAdd
<1>4. SumOver(f, T) = SumOver(g, T) /\ SumOver(f, T) \in Nat
  BY <1>1, SumSame, SumNat
<1>5. QED
  BY <1>1, <1>2, <1>3, <1>4, FS_AddElement

\* The money starts at the opening balances, and every step keeps the sum.
LEMMA MoneyInitial == EscrowAssumption /\ Init => MoneyInv
<1> SUFFICES ASSUME EscrowAssumption, Init PROVE MoneyInv
  OBVIOUS
<1>1. EscrowInv
  BY EscrowInitial
<1>2. credited = {} /\ funds = Opening
  BY DEF Init
<1>3. SumOver([d \in credited |-> d.amount], credited) = 0
  BY <1>2, SumEmpty
<1>4. SumOver(Opening, Accounts) \in Nat
  BY SumNat DEF EscrowAssumption
<1>5. QED
  BY <1>1, <1>2, <1>3, <1>4, FS_EmptySet DEF MoneyInv, MoneyIsConserved

LEMMA MoneyStep == EscrowAssumption /\ MoneyInv /\ [Next]_vars => MoneyInv'
<1> SUFFICES ASSUME EscrowAssumption, MoneyInv, [Next]_vars PROVE MoneyInv'
  OBVIOUS
<1>a. EscrowInv /\ EscrowInv' /\ EscrowType /\ EscrowType' /\ IsFiniteSet(Accounts)
  BY EscrowStep DEF MoneyInv, EscrowInv, EscrowAssumption
<1>b. /\ SumOver(funds, Accounts) \in Nat
      /\ SumOver(funds, Accounts) = SumOver(Opening, Accounts) + Credits(credited)
  BY <1>a, SumNat DEF MoneyInv, MoneyIsConserved, Credits, EscrowType
<1>c. ASSUME UNCHANGED credited, SumOver(funds', Accounts) = SumOver(funds, Accounts)
      PROVE  MoneyInv'
  BY <1>a, <1>b, <1>c DEF MoneyInv, MoneyIsConserved, Credits
<1>d. ASSUME NEW x \in Accounts, NEW n \in Nat, x # Payee, n <= funds[x],
             funds' = [funds EXCEPT ![x] = @ - n, ![Payee] = @ + n]
      PROVE  SumOver(funds', Accounts) = SumOver(funds, Accounts)
  <2>1. funds \in [Accounts -> Nat] /\ Payee \in Accounts /\ IsFiniteSet(Accounts)
    BY <1>a DEF EscrowType, EscrowAssumption
  <2>2. /\ funds'[x] = funds[x] - n /\ funds'[Payee] = funds[Payee] + n
        /\ \A z \in Accounts \ {x, Payee} : funds'[z] = funds[z]
    BY <1>d, <2>1
  <2>3. Payee # x /\ x \in Accounts
    BY <1>d
  <2>4. n <= funds[x]
    BY <1>d
  <2>5. QED
    BY <2>1, <2>2, <2>3, <2>4, SumMoved, SMTT(30)
<1>1. ASSUME NEW d \in Deposits, Deposit(d) PROVE MoneyInv'
  <2>1. /\ credited \in SUBSET Deposits /\ IsFiniteSet(credited) /\ d \notin credited
        /\ credited' = credited \cup {d}
    BY <1>1 DEF MoneyInv, Deposit
  <2>2. /\ Credits(credited) \in Nat /\ IsFiniteSet(credited')
        /\ Credits(credited') = Credits(credited) + d.amount
    BY <2>1, CreditAdds
  <2>3. d.wallet \in Accounts /\ d.amount \in Nat
    BY DEF EscrowAssumption
  <2>4. SumOver(funds', Accounts) = SumOver(funds, Accounts) + d.amount
    <3>1. /\ \A x \in Accounts : funds[x] \in Nat /\ funds'[x] \in Nat
          /\ \A x \in Accounts \ {d.wallet} : funds[x] = funds'[x]
          /\ funds'[d.wallet] = funds[d.wallet] + d.amount
      BY <1>1, <1>a, <2>3 DEF Deposit, EscrowType
    <3>2. SumOver(funds', Accounts)
            = SumOver(funds, Accounts) - funds[d.wallet] + funds'[d.wallet]
      BY <1>a, <2>3, <3>1, SumUpdate
    <3>3. QED
      BY <1>b, <2>3, <3>1, <3>2
  <2>5. SumOver(Opening, Accounts) \in Nat
    BY <1>a, SumNat DEF EscrowAssumption
  <2>6. SumOver(funds', Accounts) = SumOver(Opening, Accounts) + Credits(credited')
    BY <1>b, <2>2, <2>3, <2>4, <2>5
  <2>7. QED
    BY <1>a, <2>1, <2>2, <2>6 DEF MoneyInv, MoneyIsConserved, Credits
<1>2. ASSUME NEW x \in Accounts, NEW n \in 1 .. funds[x], Spend(x, n) PROVE MoneyInv'
  <2>1. n \in Nat /\ n <= funds[x]
    BY <1>a DEF EscrowType
  <2>2. QED
    BY <1>2, <1>c, <1>d, <2>1 DEF Spend
<1>3. ASSUME NEW r \in Receipts, Pay(r) PROVE MoneyInv'
  <2>1. /\ r.auth \in Contracts /\ holder[r.auth] \in Accounts /\ holder[r.auth] # Payee
        /\ r.amount \in Nat /\ escrow[r.auth] >= r.amount
    BY <1>3, <1>a, ReceiptFields DEF Pay, EscrowType, EscrowInv, Unmade
  <2>2. escrow[r.auth] <= funds[holder[r.auth]]
    BY <1>a, <2>1, HolderCovers DEF EscrowInv
  <2>3. r.amount <= funds[holder[r.auth]]
    BY <1>a, <2>1, <2>2 DEF EscrowType
  <2>4. QED
    BY <1>3, <1>c, <1>d, <2>1, <2>3 DEF Pay
<1>4. ASSUME UNCHANGED <<funds, credited>> PROVE MoneyInv'
  BY <1>c, <1>4
<1>5. QED
  BY <1>1, <1>2, <1>3, <1>4 DEF Next, Reserve, Release, vars

\* No cent is made or lost by deposits, spending, reserving, paying and releasing.
THEOREM MoneyStays ==
  ASSUME EscrowAssumption
  PROVE  Spec => []MoneyIsConserved
<1>1. MoneyInv => MoneyIsConserved
  BY DEF MoneyInv
<1>2. QED
  BY <1>1, MoneyInitial, MoneyStep, PTL DEF Spec
=============================================================================
