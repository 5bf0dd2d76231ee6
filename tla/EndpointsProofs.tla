--------------------------- MODULE EndpointsProofs ---------------------------
(***************************************************************************)
(* Proofs about two groups of endpoints of main.py, side by side as in     *)
(* MCEndpoints: logins (LoginThrottle) and external topups (ExternalTopup).*)
(*                                                                         *)
(* Logins.  The counters of failed logins stay bounded, for any number of  *)
(* threads, users and permitted attempts.  A login that passed a test may  *)
(* add one failure to the counter, so what the proof bounds is a counter   *)
(* together with the logins that have passed its test and not yet counted. *)
(*                                                                         *)
(* Topups.  Events and balances agree, for any number of orders, payments  *)
(* and notifications.  What a webhook read before its transaction is stale *)
(* only if another handler moved the balances, since webhooks do not       *)
(* interleave with each other: that is what the invariant says of it.      *)
(***************************************************************************)
EXTENDS ExternalTopup, LoginThrottle, CentSumsProofs, FiniteSetTheorems, TLAPS

----------------------------------------------------------------------------
(* Logins.                                                                  *)

ThrottleInv == LoginTypeOK /\ OvershootBounded

\* What OvershootBounded says of a counter n and the logins P that may add to it.
Bounded(n, P) == n + Cardinality(P) < MaximumAttempts + Cardinality(Sessions)

\* A counter that is not full leaves room for every thread.
LEMMA NotFull ==
  ASSUME NEW n \in Nat, n < MaximumAttempts, NEW P \in SUBSET Sessions
  PROVE  Bounded(n, P)
<1>1. IsFiniteSet(Sessions) /\ MaximumAttempts \in Nat
  BY ThrottleAssumption
<1>2. IsFiniteSet(P) /\ Cardinality(P) <= Cardinality(Sessions)
  BY <1>1, FS_Subset
<1>3. Cardinality(P) \in Nat /\ Cardinality(Sessions) \in Nat
  BY <1>1, <1>2, FS_CardinalityType
<1>4. QED
  BY <1>1, <1>2, <1>3 DEF Bounded

\* A login that leaves without a failure takes its place with it.
LEMMA OneLess ==
  ASSUME NEW n \in Nat, NEW Q \in SUBSET Sessions, Bounded(n, Q), NEW P \in SUBSET Q
  PROVE  Bounded(n, P)
<1>1. IsFiniteSet(Sessions) /\ MaximumAttempts \in Nat
  BY ThrottleAssumption
<1>2. IsFiniteSet(Q)
  BY <1>1, FS_Subset
<1>3. IsFiniteSet(P) /\ Cardinality(P) <= Cardinality(Q)
  BY <1>2, FS_Subset
<1>4. Cardinality(P) \in Nat /\ Cardinality(Q) \in Nat /\ Cardinality(Sessions) \in Nat
  BY <1>1, <1>2, <1>3, FS_CardinalityType
<1>5. QED
  BY <1>1, <1>3, <1>4 DEF Bounded

\* A login that fails turns its place into a failure.
LEMMA OneCounted ==
  ASSUME NEW n \in Nat, NEW Q \in SUBSET Sessions, Bounded(n, Q),
         NEW s \in Q, NEW P \in SUBSET (Q \ {s})
  PROVE  Bounded(n + 1, P)
<1>1. IsFiniteSet(Sessions) /\ MaximumAttempts \in Nat
  BY ThrottleAssumption
<1>2. IsFiniteSet(Q)
  BY <1>1, FS_Subset
<1>3. IsFiniteSet(Q \ {s}) /\ Cardinality(Q \ {s}) = Cardinality(Q) - 1
  BY <1>2, FS_RemoveElement
<1>4. IsFiniteSet(P) /\ Cardinality(P) <= Cardinality(Q \ {s})
  BY <1>3, FS_Subset
<1>5. Cardinality(P) \in Nat /\ Cardinality(Q) \in Nat /\ Cardinality(Sessions) \in Nat
  BY <1>1, <1>2, <1>4, FS_CardinalityType
<1>6. QED
  BY <1>1, <1>3, <1>4, <1>5 DEF Bounded

----------------------------------------------------------------------------

\* A test that lets a login pass leaves a counter that is not full, and the others
\* as they are.
LEMMA CheckedRoom ==
  ASSUME LoginTypeOK, NEW b \in Buckets, Checked(b)
  PROVE  /\ failures' \in [Buckets -> Nat] /\ elapsed' \in [Buckets -> BOOLEAN]
         /\ failures'[b] < MaximumAttempts
         /\ \A c \in Buckets \ {b} : failures'[c] = failures[c]
<1>1. MaximumAttempts \in Nat \ {0}
  BY ThrottleAssumption
<1>2. failures' \in [Buckets -> Nat] /\ elapsed' \in [Buckets -> BOOLEAN]
  BY DEF LoginTypeOK, Checked
<1>3. failures'[b] = IF failures[b] >= MaximumAttempts THEN 0 ELSE failures[b]
  BY DEF LoginTypeOK, Checked
<1>4. failures'[b] < MaximumAttempts
  BY <1>1, <1>3 DEF LoginTypeOK
<1>5. QED
  BY <1>2, <1>4 DEF LoginTypeOK, Checked

LEMMA FailedOne ==
  ASSUME LoginTypeOK, NEW b \in Buckets, Failed(b)
  PROVE  /\ failures' \in [Buckets -> Nat] /\ elapsed' \in [Buckets -> BOOLEAN]
         /\ failures'[b] = failures[b] + 1
         /\ \A c \in Buckets \ {b} : failures'[c] = failures[c]
BY DEF LoginTypeOK, Failed

LEMMA SucceededNone ==
  ASSUME LoginTypeOK, NEW b \in Buckets, Succeeded(b)
  PROVE  /\ failures' \in [Buckets -> Nat] /\ elapsed' \in [Buckets -> BOOLEAN]
         /\ failures'[b] = 0
         /\ \A c \in Buckets \ {b} : failures'[c] = failures[c]
BY DEF LoginTypeOK, Succeeded

\* A login that goes on keeps its user and its password.
LEMMA AttemptGoesOn ==
  ASSUME LoginTypeOK, NEW s \in Sessions, login[s] \in Attempts,
         NEW at \in {"identity", "verify", "failing", "passing", "granted"}
  PROVE  [login EXCEPT ![s].at = at] \in [Sessions -> Attempts \cup {NoLogin}]
BY DEF LoginTypeOK, Attempts

\* Who is at a step of a login has an attempt.
LEMMA AtStep ==
  ASSUME LoginTypeOK, NEW s \in Sessions, login[s].at # "none"
  PROVE  login[s] \in Attempts /\ login[s].user \in Users /\ login[s].user \in Buckets
         /\ login[s].user # Address
BY ThrottleAssumption DEF LoginTypeOK, Attempts, NoLogin, Buckets

\* The logins that passed a test are threads.
LEMMA PassedThreads == \A b : Passed(b) \in SUBSET Sessions /\ Passed(b)' \in SUBSET Sessions
BY DEF Passed

----------------------------------------------------------------------------

LEMMA ThrottleInit == LoginInit => ThrottleInv
<1> SUFFICES ASSUME LoginInit PROVE ThrottleInv
  OBVIOUS
<1>1. LoginTypeOK
  BY DEF LoginInit, LoginTypeOK
<1>2. ASSUME NEW b \in Buckets
      PROVE  failures[b] + Cardinality(Passed(b)) < MaximumAttempts + Cardinality(Sessions)
  <2>1. failures[b] = 0 /\ 0 < MaximumAttempts
    BY <1>2, ThrottleAssumption DEF LoginInit
  <2>2. QED
    BY <2>1, NotFull, PassedThreads DEF Bounded
<1>3. QED
  BY <1>1, <1>2 DEF ThrottleInv, OvershootBounded

LEMMA TypeStep == LoginTypeOK /\ [LoginNext]_loginVars => LoginTypeOK'
<1> SUFFICES ASSUME LoginTypeOK, [LoginNext]_loginVars PROVE LoginTypeOK'
  OBVIOUS
<1> USE DEF LoginTypeOK
<1>0. Address \in Buckets /\ Users \subseteq Buckets
  BY DEF Buckets
<1>1. ASSUME NEW s \in Sessions, NEW u \in Users, NEW valid \in BOOLEAN, CheckAddress(s, u, valid)
      PROVE  LoginTypeOK'
  BY <1>0, <1>1, CheckedRoom DEF CheckAddress, Attempts
<1>2. ASSUME NEW s \in Sessions, CheckIdentity(s) PROVE LoginTypeOK'
  BY <1>2, AtStep, CheckedRoom, AttemptGoesOn DEF CheckIdentity
<1>3. ASSUME NEW s \in Sessions, RefuseIdentity(s) PROVE LoginTypeOK'
  BY <1>3 DEF RefuseIdentity
<1>4. ASSUME NEW s \in Sessions, FailAddress(s) PROVE LoginTypeOK'
  BY <1>0, <1>4, AtStep, FailedOne, AttemptGoesOn DEF FailAddress
<1>5. ASSUME NEW s \in Sessions, FailIdentity(s) PROVE LoginTypeOK'
  BY <1>5, AtStep, FailedOne DEF FailIdentity
<1>6. ASSUME NEW s \in Sessions, ClearAddress(s) PROVE LoginTypeOK'
  BY <1>0, <1>6, AtStep, SucceededNone, AttemptGoesOn DEF ClearAddress
<1>7. ASSUME NEW s \in Sessions, ClearIdentity(s) PROVE LoginTypeOK'
  BY <1>7, AtStep, SucceededNone, AttemptGoesOn DEF ClearIdentity
<1>8. ASSUME NEW s \in Sessions, Leave(s) PROVE LoginTypeOK'
  BY <1>8 DEF Leave
<1>9. ASSUME NEW b \in Buckets, TimePasses(b) PROVE LoginTypeOK'
  BY <1>9 DEF TimePasses
<1>10. CASE RestartThrottle
  BY <1>10 DEF RestartThrottle
<1>11. CASE UNCHANGED loginVars
  BY <1>11 DEF loginVars
<1>12. QED
  BY <1>1, <1>2, <1>3, <1>4, <1>5, <1>6, <1>7, <1>8, <1>9, <1>10, <1>11
  DEF LoginNext, LoginStep

\* What a step does to a counter b: it is not full, or it stands and nobody joins
\* those who may add to it, or one of them has added to it.
LEMMA CounterSteps ==
  ASSUME LoginTypeOK, [LoginNext]_loginVars, NEW b \in Buckets
  PROVE  \/ failures'[b] < MaximumAttempts
         \/ failures'[b] = failures[b] /\ Passed(b)' \in SUBSET Passed(b)
         \/ /\ failures'[b] = failures[b] + 1
            /\ \E s \in Passed(b) : Passed(b)' \in SUBSET (Passed(b) \ {s})
<1>0. /\ Address \in Buckets /\ Address \notin Users /\ 0 < MaximumAttempts
      /\ \A s \in Sessions : login[s].at # "none" => login[s].user \in Users \cap Buckets
      /\ \A s \in Sessions : login[s] \in Attempts \cup {NoLogin}
  BY AtStep, ThrottleAssumption DEF Buckets, LoginTypeOK
<1>1. ASSUME NEW s \in Sessions, NEW u \in Users, NEW valid \in BOOLEAN, CheckAddress(s, u, valid)
      PROVE  \/ failures'[b] < MaximumAttempts
             \/ failures'[b] = failures[b] /\ Passed(b)' \in SUBSET Passed(b)
  <2>1. CASE b = Address
    BY <2>1, <1>1, CheckedRoom DEF CheckAddress
  <2>2. CASE b # Address
    <3>1. failures'[b] = failures[b]
      BY <2>2, <1>0, <1>1, CheckedRoom DEF CheckAddress
    <3>2. Passed(b)' \in SUBSET Passed(b)
      BY <2>2, <1>1 DEF CheckAddress, Passed, LoginTypeOK
    <3>3. QED
      BY <3>1, <3>2
  <2>3. QED
    BY <2>1, <2>2
<1>2. ASSUME NEW s \in Sessions, CheckIdentity(s)
      PROVE  \/ failures'[b] < MaximumAttempts
             \/ failures'[b] = failures[b] /\ Passed(b)' \in SUBSET Passed(b)
  <2>1. CASE b = login[s].user
    BY <2>1, <1>2, CheckedRoom DEF CheckIdentity
  <2>2. CASE b # login[s].user
    <3>1. failures'[b] = failures[b]
      BY <2>2, <1>0, <1>2, CheckedRoom DEF CheckIdentity
    <3>2. Passed(b)' \in SUBSET Passed(b)
      BY <2>2, <1>0, <1>2 DEF CheckIdentity, Passed, LoginTypeOK, Attempts
    <3>3. QED
      BY <3>1, <3>2
  <2>3. QED
    BY <2>1, <2>2
<1>3. ASSUME NEW s \in Sessions, RefuseIdentity(s) \/ Leave(s)
      PROVE  failures'[b] = failures[b] /\ Passed(b)' \in SUBSET Passed(b)
  BY <1>3 DEF RefuseIdentity, Leave, Passed, LoginTypeOK, NoLogin
<1>4. ASSUME NEW s \in Sessions, FailAddress(s)
      PROVE  \/ failures'[b] = failures[b] /\ Passed(b)' \in SUBSET Passed(b)
             \/ /\ failures'[b] = failures[b] + 1
                /\ \E r \in Passed(b) : Passed(b)' \in SUBSET (Passed(b) \ {r})
  <2>1. CASE b = Address
    <3>1. failures'[b] = failures[b] + 1 /\ s \in Passed(b)
      BY <2>1, <1>4, FailedOne DEF FailAddress, Passed
    <3>2. Passed(b)' \in SUBSET (Passed(b) \ {s})
      BY <2>1, <1>0, <1>4 DEF FailAddress, Passed, LoginTypeOK, Attempts
    <3>3. QED
      BY <3>1, <3>2
  <2>2. CASE b # Address
    <3>1. failures'[b] = failures[b]
      BY <2>2, <1>0, <1>4, FailedOne DEF FailAddress
    <3>2. Passed(b)' \in SUBSET Passed(b)
      BY <2>2, <1>0, <1>4 DEF FailAddress, Passed, LoginTypeOK, Attempts
    <3>3. QED
      BY <3>1, <3>2
  <2>3. QED
    BY <2>1, <2>2
<1>5. ASSUME NEW s \in Sessions, FailIdentity(s)
      PROVE  \/ failures'[b] = failures[b] /\ Passed(b)' \in SUBSET Passed(b)
             \/ /\ failures'[b] = failures[b] + 1
                /\ \E r \in Passed(b) : Passed(b)' \in SUBSET (Passed(b) \ {r})
  <2>0. Passed(b)' \in SUBSET (Passed(b) \ {s})
    BY <1>5 DEF FailIdentity, Passed, LoginTypeOK, NoLogin
  <2>1. CASE b = login[s].user
    <3>1. failures'[b] = failures[b] + 1 /\ s \in Passed(b)
      BY <2>1, <1>5, FailedOne DEF FailIdentity, Passed
    <3>2. QED
      BY <2>0, <3>1
  <2>2. CASE b # login[s].user
    BY <2>0, <2>2, <1>0, <1>5, FailedOne DEF FailIdentity
  <2>3. QED
    BY <2>1, <2>2
<1>6. ASSUME NEW s \in Sessions, ClearAddress(s)
      PROVE  \/ failures'[b] < MaximumAttempts
             \/ failures'[b] = failures[b] /\ Passed(b)' \in SUBSET Passed(b)
  <2>1. CASE b = Address
    BY <2>1, <1>0, <1>6, SucceededNone DEF ClearAddress
  <2>2. CASE b # Address
    <3>1. failures'[b] = failures[b]
      BY <2>2, <1>0, <1>6, SucceededNone DEF ClearAddress
    <3>2. Passed(b)' \in SUBSET Passed(b)
      BY <1>0, <1>6 DEF ClearAddress, Passed, LoginTypeOK, Attempts
    <3>3. QED
      BY <3>1, <3>2
  <2>3. QED
    BY <2>1, <2>2
<1>7. ASSUME NEW s \in Sessions, ClearIdentity(s)
      PROVE  \/ failures'[b] < MaximumAttempts
             \/ failures'[b] = failures[b] /\ Passed(b)' \in SUBSET Passed(b)
  <2>1. CASE b = login[s].user
    BY <2>1, <1>0, <1>7, SucceededNone DEF ClearIdentity
  <2>2. CASE b # login[s].user
    <3>1. failures'[b] = failures[b]
      BY <2>2, <1>0, <1>7, SucceededNone DEF ClearIdentity
    <3>2. Passed(b)' \in SUBSET Passed(b)
      BY <1>0, <1>7 DEF ClearIdentity, Passed, LoginTypeOK, Attempts
    <3>3. QED
      BY <3>1, <3>2
  <2>3. QED
    BY <2>1, <2>2
<1>8. ASSUME NEW c \in Buckets, TimePasses(c)
      PROVE  failures'[b] = failures[b] /\ Passed(b)' \in SUBSET Passed(b)
  BY <1>8 DEF TimePasses, Passed
<1>9. CASE RestartThrottle
  BY <1>0, <1>9 DEF RestartThrottle
<1>10. CASE UNCHANGED loginVars
  BY <1>10 DEF loginVars, Passed
<1>11. QED
  BY <1>1, <1>2, <1>3, <1>4, <1>5, <1>6, <1>7, <1>8, <1>9, <1>10 DEF LoginNext, LoginStep

LEMMA ThrottleStep == ThrottleInv /\ [LoginNext]_loginVars => ThrottleInv'
<1> SUFFICES ASSUME ThrottleInv, [LoginNext]_loginVars PROVE ThrottleInv'
  OBVIOUS
<1>1. LoginTypeOK /\ LoginTypeOK'
  BY TypeStep DEF ThrottleInv
<1>2. ASSUME NEW b \in Buckets PROVE Bounded(failures'[b], Passed(b)')
  <2>1. failures[b] \in Nat /\ failures'[b] \in Nat
    BY <1>1 DEF LoginTypeOK
  <2>2. Bounded(failures[b], Passed(b))
    BY DEF ThrottleInv, OvershootBounded, Bounded
  <2>3. Passed(b) \in SUBSET Sessions /\ Passed(b)' \in SUBSET Sessions
    BY PassedThreads
  <2>4. CASE failures'[b] < MaximumAttempts
    BY <2>1, <2>3, <2>4, NotFull
  <2>5. CASE failures'[b] = failures[b] /\ Passed(b)' \in SUBSET Passed(b)
    BY <2>1, <2>2, <2>3, <2>5, OneLess
  <2>6. CASE /\ failures'[b] = failures[b] + 1
             /\ \E s \in Passed(b) : Passed(b)' \in SUBSET (Passed(b) \ {s})
    BY <2>1, <2>2, <2>3, <2>6, OneCounted
  <2>7. QED
    BY <1>1, <2>4, <2>5, <2>6, CounterSteps
<1>3. QED
  BY <1>1, <1>2 DEF ThrottleInv, OvershootBounded, Bounded

\* No counter of failures passes its limit by more than the logins that the threads
\* of the pool can have in progress, however they interleave (auth.py:75-90).
THEOREM OvershootIsBounded == LoginSpec => []OvershootBounded
<1>1. ThrottleInv => OvershootBounded
  BY DEF ThrottleInv
<1>2. QED
  BY <1>1, ThrottleInit, ThrottleStep, PTL DEF LoginSpec

----------------------------------------------------------------------------
(* Topups.                                                                   *)

\* What a webhook has read is of an ordered payment, and true of the balances
\* unless another handler moved them.
WebhookSound ==
    \/ webhook = Idle
    \/ /\ webhook.stage \in {"user", "wallet"}
       /\ webhook.pay \in Approved /\ Ordered(webhook.pay)
       /\ webhook.saldo \in Int /\ (moved = {} => webhook.saldo = saldo)
       /\ webhook.stage = "wallet" =>
            webhook.balance \in Int /\ (moved = {} => webhook.balance = balance)

TopupInv ==
    /\ balance \in Int /\ saldo \in Int
    /\ events \subseteq Approved
    /\ EventsExplainBalance
    /\ WebhookSound

\* The credits of a set of payments are an amount, and one more adds its own.
LEMMA CreditAdds ==
  ASSUME NEW E \in SUBSET Approved, NEW p \in Approved \ E
  PROVE  LET worth == [e \in Approved |-> e.amount] IN
         /\ SumOver(worth, E) \in Nat
         /\ SumOver(worth, E \cup {p}) = SumOver(worth, E) + p.amount
<1> DEFINE worth == [e \in Approved |-> e.amount]
<1>1. IsFiniteSet(E) /\ p \notin E
  BY FS_Subset, TopupAssumption
<1>2. \A e \in E \cup {p} : worth[e] \in Nat
  BY TopupAssumption
<1>3. worth[p] = p.amount
  OBVIOUS
<1> HIDE DEF worth
<1>4. SumOver(worth, E) \in Nat /\ SumOver(worth, E \cup {p}) = SumOver(worth, E) + worth[p]
  BY <1>1, <1>2, SumNat, SumAdd
<1>5. QED
  BY <1>3, <1>4 DEF worth

LEMMA TopupInit == Init => TopupInv
<1> SUFFICES ASSUME Init PROVE TopupInv
  OBVIOUS
<1>1. Credits = 0
  BY SumEmpty DEF Init, Credits
<1>2. Opening \in Nat
  BY TopupAssumption
<1>3. EventsExplainBalance
  BY <1>1, <1>2 DEF Init, EventsExplainBalance, CreditedOnce
<1>4. QED
  BY <1>2, <1>3 DEF Init, TopupInv, WebhookSound

\* A credit: the event is new, and the values it is added to are those of the
\* tables unless another handler moved them.
LEMMA CreditStep ==
  ASSUME TopupInv, Credit
  PROVE  TopupInv'
<1> DEFINE p == webhook.pay
<1>1. /\ p \in Approved \ events /\ Ordered(p) /\ ~Registered(p)
      /\ webhook.saldo \in Int /\ webhook.balance \in Int /\ p.amount \in Nat
      /\ moved = {} => webhook.saldo = saldo /\ webhook.balance = balance
  BY TopupAssumption DEF TopupInv, WebhookSound, Credit, Registered, Idle
<1>2. /\ events' = events \cup {p} /\ webhook' = Idle
      /\ saldo' = webhook.saldo + p.amount /\ balance' = webhook.balance + p.amount
      /\ UNCHANGED <<orders, moved>>
  BY DEF Credit
<1>3. Credits \in Nat /\ Credits' = Credits + p.amount
  BY <1>1, <1>2, CreditAdds DEF Credits, TopupInv
<1>4. moved' = {} => balance' = Opening + Credits' /\ saldo' = Opening + Credits'
  BY <1>1, <1>2, <1>3, TopupAssumption DEF TopupInv, EventsExplainBalance
<1>5. \A e \in events' : \E o \in orders' : o.id = e.order /\ o.amount = e.amount
  BY <1>1, <1>2 DEF TopupInv, EventsExplainBalance, Ordered
<1>6. CreditedOnce'
  BY <1>1, <1>2 DEF TopupInv, EventsExplainBalance, CreditedOnce, Registered
<1>7. balance' \in Int /\ saldo' \in Int /\ events' \subseteq Approved /\ WebhookSound'
  BY <1>1, <1>2 DEF TopupInv, WebhookSound
<1>8. EventsExplainBalance'
  BY <1>4, <1>5, <1>6 DEF EventsExplainBalance
<1>9. QED
  BY <1>6, <1>7, <1>8 DEF TopupInv

LEMMA TopupStep == TopupInv /\ [Next]_vars => TopupInv'
<1> SUFFICES ASSUME TopupInv, [Next]_vars PROVE TopupInv'
  OBVIOUS
<1>1. ASSUME UNCHANGED <<events, balance, saldo, moved>>, orders \subseteq orders', WebhookSound'
      PROVE  TopupInv'
  BY <1>1 DEF TopupInv, CreditedOnce, EventsExplainBalance, Credits
<1>2. ASSUME NEW o \in Orders, CrearLink(o) PROVE TopupInv'
  <2>1. WebhookSound'
    BY <1>2 DEF TopupInv, WebhookSound, CrearLink, Ordered
  <2>2. QED
    BY <1>1, <1>2, <2>1 DEF CrearLink
<1>3. ASSUME NEW p \in Approved, ReadUser(p) PROVE TopupInv'
  <2>1. WebhookSound'
    BY <1>3 DEF TopupInv, WebhookSound, ReadUser, Ordered
  <2>2. QED
    BY <1>1, <1>3, <2>1 DEF ReadUser
<1>4. CASE ReadWallet
  <2>1. WebhookSound'
    BY <1>4 DEF TopupInv, WebhookSound, ReadWallet, Ordered, Idle
  <2>2. QED
    BY <1>1, <1>4, <2>1 DEF ReadWallet
<1>5. CASE Credit
  BY <1>5, CreditStep
<1>6. CASE GiveUp
  <2>1. WebhookSound'
    BY <1>6 DEF WebhookSound, GiveUp
  <2>2. QED
    BY <1>1, <1>6, <2>1 DEF GiveUp
<1>7. ASSUME NEW v \in Movements, Move(v) PROVE TopupInv'
  <2>1. /\ moved' # {} /\ UNCHANGED <<orders, events, webhook>>
        /\ balance' = balance + v.cents /\ saldo' = saldo + v.cents /\ v.cents \in Int
    BY <1>7, TopupAssumption DEF Move
  <2>2. WebhookSound'
    BY <2>1 DEF TopupInv, WebhookSound, Ordered
  <2>3. EventsExplainBalance'
    BY <2>1 DEF TopupInv, CreditedOnce, EventsExplainBalance
  <2>4. QED
    BY <2>1, <2>2, <2>3 DEF TopupInv
<1>8. CASE UNCHANGED vars
  <2>1. WebhookSound'
    BY <1>8 DEF TopupInv, WebhookSound, vars, Ordered
  <2>2. QED
    BY <1>1, <1>8, <2>1 DEF vars
<1>9. QED
  BY <1>2, <1>3, <1>4, <1>5, <1>6, <1>7, <1>8 DEF Next

\* A payment of the provider is credited once, whatever else is notified under its
\* identifier, for what its order asked for, and as long as no other handler moves
\* the balances the events explain both of them (mp_webhook).
THEOREM EventsExplainTheBalance == Spec => []EventsExplainBalance
<1>1. TopupInv => EventsExplainBalance
  BY DEF TopupInv
<1>2. QED
  BY <1>1, TopupInit, TopupStep, PTL DEF Spec
=============================================================================
