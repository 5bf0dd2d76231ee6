---------------------------- MODULE ExternalTopup ----------------------------
(***************************************************************************)
(* External topups of one client (main.py): crear_link records an order,   *)
(* the payment provider charges it, and mp_webhook credits the payment.    *)
(*                                                                         *)
(* The webhook is a coroutine without awaits after its body is read, so    *)
(* one of them runs at a time in the event loop; the handlers that move    *)
(* the same balances run in the thread pool and interleave with its reads. *)
(* It adds the amount to the values it read, in ORM attributes, while the  *)
(* other handlers write SQL deltas.                                        *)
(***************************************************************************)
EXTENDS CentSums, Integers

CONSTANTS
    Orders,    \* records with an id and an amount: links the client may ask for
    Approved,  \* records with an id, an order id and an amount: approved payments
    Movements, \* records with an id and cents: what other handlers commit
    Opening    \* cents of the client at the start

ASSUME TopupAssumption ==
    /\ Orders \subseteq [id : STRING, amount : Nat \ {0}] /\ IsFiniteSet(Orders)
    /\ Approved \subseteq [id : STRING, order : STRING, amount : Nat \ {0}]
    /\ Movements \subseteq [id : STRING, cents : Int] /\ IsFiniteSet(Movements)
    /\ IsFiniteSet(Approved)
    /\ Opening \in Nat

VARIABLES
    orders,  \* external_topup_orders
    events,  \* external_payment_events
    balance, \* wallets.confirmed_balance_cents
    saldo,   \* users.saldo_real, in cents
    moved,   \* movements that other handlers committed
    webhook  \* what the running webhook has read

vars == <<orders, events, balance, saldo, moved, webhook>>

Idle == [stage |-> "idle"]

Init ==
    /\ orders = {}
    /\ events = {}
    /\ balance = Opening
    /\ saldo = Opening
    /\ moved = {}
    /\ webhook = Idle

\* The order is committed once the provider has answered with a link.
CrearLink(o) ==
    /\ orders' = orders \cup {o}
    /\ UNCHANGED <<events, balance, saldo, moved, webhook>>

\* MUTANT: the amount that was paid is not compared with the order
OrderedById(p) == \E o \in orders : o.id = p.order

\* The order exists and asked for this amount.
Ordered(p) == \E o \in orders : o.id = p.order /\ o.amount = p.amount

\* The provider notifies a payment, any number of times; the webhook reads the
\* order and the user.
ReadUser(p) ==
    /\ webhook = Idle
    /\ Ordered(p)
    /\ webhook' = [stage |-> "user", pay |-> p, saldo |-> saldo]
    /\ UNCHANGED <<orders, events, balance, saldo, moved>>

\* One event per identifier of the provider, whatever its content.
Registered(p) == \E e \in events : e.id = p.id

\* It reads the wallet and looks for the event.
ReadWallet ==
    /\ webhook.stage = "user"
    /\ ~Registered(webhook.pay)
    /\ webhook' = [stage |-> "wallet", pay |-> webhook.pay,
                   saldo |-> webhook.saldo, balance |-> balance]
    /\ UNCHANGED <<orders, events, balance, saldo, moved>>

\* Under the lock: the event, which the unique index admits, and both balances
\* from the values that were read.
Credit ==
    LET p == webhook.pay IN
    /\ webhook.stage = "wallet"
    /\ ~Registered(p)
    /\ events' = events \cup {p}
    /\ saldo' = webhook.saldo + p.amount
    /\ balance' = webhook.balance + p.amount
    /\ webhook' = Idle
    /\ UNCHANGED <<orders, moved>>

\* A repetition, a conflict, the unique index, the busy timeout or a crash.
GiveUp ==
    /\ webhook # Idle
    /\ webhook' = Idle
    /\ UNCHANGED <<orders, events, balance, saldo, moved>>

\* The condition of the UPDATE of wallets.
Covered(v) == balance + v.cents >= 0

\* A handler of the thread pool moves both balances with deltas.
Move(v) ==
    /\ v \notin moved
    /\ Covered(v)
    /\ moved' = moved \cup {v}
    /\ balance' = balance + v.cents
    /\ saldo' = saldo + v.cents
    /\ UNCHANGED <<orders, events, webhook>>

Next ==
    \/ \E o \in Orders : CrearLink(o)
    \/ \E p \in Approved : ReadUser(p)
    \/ ReadWallet
    \/ Credit
    \/ GiveUp
    \/ \E v \in Movements : Move(v)

Spec == Init /\ [][Next]_vars

----------------------------------------------------------------------------
\* A payment of the provider is credited once, although it is notified again and
\* with another content (mp_webhook).
CreditedOnce == \A e, f \in events : e.id = f.id => e = f

Credits == SumOver([e \in Approved |-> e.amount], events)

\* Each payment is credited once, for what its order asked, and as long as no other
\* handler moves the balances the events explain them (mp_webhook).
EventsExplainBalance ==
    /\ CreditedOnce
    /\ moved = {} => balance = Opening + Credits /\ saldo = Opening + Credits
    /\ \A e \in events : \E o \in orders : o.id = e.order /\ o.amount = e.amount

\* The two balances of a client never differ: "actualizar simultáneamente
\* `saldo_real` y `confirmed_balance_cents` con deltas atómicos".
BalancesAgree == balance = saldo
=============================================================================
