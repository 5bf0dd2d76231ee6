---------------------------- MODULE KeyRegistry ----------------------------
(***************************************************************************)
(* The registry of keys and terminals (api_v2.py, register_key), the       *)
(* wallets of demonstration devices (demo_access.py) and the revocation of *)
(* a key (tools/revoke_key.py).  A registration reads the terminal and the *)
(* key without a lock and inserts both in one transaction at the end; what *)
(* keeps concurrent registrations apart are the unique columns alone.      *)
(***************************************************************************)
EXTENDS Naturals, FiniteSets

CONSTANTS
    Threads,     \* threads of the pool that serve registrations
    Merchants,   \* users with role comercio
    Clients,     \* users with role cliente; each has at most one wallet
    Terminals,   \* identifiers of terminals
    KeyIds,      \* identifiers of keys
    PubKeys,     \* public keys
    MaxDevices   \* DEMO_MAX_DEVICE_ACCOUNTS

ASSUME RegistryAssumption ==
    /\ Merchants \cap Clients = {}
    /\ Terminals \cap Clients = {}
    /\ "nobody" \notin Merchants \cup Clients

VARIABLES
    wallets,    \* clients that have a wallet
    terminals,  \* the merchant of every terminal
    keys,       \* rows of registered_keys
    register    \* what each thread carries from one step to the next

registryVars == <<wallets, terminals, keys, register>>

Purposes == {"wallet", "pos"}

\* The signed proof of a registration, from the user of the token.
Proofs ==
    [key : KeyIds, purpose : Purposes, user : Merchants \cup Clients,
     scope : Terminals \cup Clients, pub : PubKeys]

NoKey == [purpose |-> "none"]

KeyRows ==
    [owner : Merchants \cup Clients, purpose : Purposes, scope : Terminals \cup Clients,
     pub : PubKeys, revoked : BOOLEAN]

NoCall == [at |-> "none"]

\* fresh: the terminal was not there when it was read.
Calls ==
    [at : {"compare", "insert"}, proof : Proofs, fresh : BOOLEAN]
      \cup [at : {"answered"}, proof : Proofs, ok : BOOLEAN]

RegistryInit ==
    /\ wallets = {}
    /\ terminals = [t \in Terminals |-> "nobody"]
    /\ keys = [k \in KeyIds |-> NoKey]
    /\ register = [t \in Threads |-> NoCall]

\* The first login of a device makes its account and its wallet in one immediate
\* transaction, if the limit allows it.
DeviceLogin(c) ==
    /\ c \notin wallets
    /\ Cardinality(wallets) < MaxDevices
    /\ wallets' = wallets \cup {c}
    /\ UNCHANGED <<terminals, keys, register>>

Registered(k) == keys[k].purpose # "none"

Answer(t, ok) ==
    register' = [register EXCEPT ![t] = [at |-> "answered", proof |-> @.proof, ok |-> ok]]

\* The scope that the user may register keys for: a wallet of his own, a terminal
\* of his own or one that nobody has.
ScopeAllowed(p) ==
    \/ p.purpose = "wallet" /\ p.user \in wallets /\ p.scope = p.user
    \/ p.purpose = "pos" /\ p.user \in Merchants /\ p.scope \in Terminals
         /\ terminals[p.scope] \in {"nobody", p.user}

LookScope(t, p) ==
    /\ register[t] = NoCall
    /\ register' = [register EXCEPT ![t] =
          IF ScopeAllowed(p)
          THEN [at |-> "compare", proof |-> p,
                fresh |-> p.purpose = "pos" /\ terminals[p.scope] = "nobody"]
          ELSE [at |-> "answered", proof |-> p, ok |-> FALSE]]
    /\ UNCHANGED <<wallets, terminals, keys>>

\* The row a proof asks for.
RowOf(p) ==
    [owner |-> p.user, purpose |-> p.purpose, scope |-> p.scope, pub |-> p.pub,
     revoked |-> FALSE]

\* MUTANT: every repetition is refused
SameContentRefused(p) == FALSE

\* A repetition of what is registered and not revoked is answered as it was.
SameContent(p) == keys[p.key] = RowOf(p)

CompareKey(t) ==
    /\ register[t].at = "compare"
    /\ LET p == register[t].proof IN
       IF Registered(p.key)
       THEN Answer(t, SameContent(p))
       ELSE register' = [register EXCEPT ![t].at = "insert"]
    /\ UNCHANGED <<wallets, terminals, keys>>

\* MUTANT: the name of the key is not a primary key
InsertableByPub(p, fresh) ==
    /\ \A k \in KeyIds \ {p.key} : Registered(k) => keys[k].pub # p.pub
    /\ fresh => terminals[p.scope] = "nobody"

\* No unique column is taken: the key's name, its fingerprint and, when a new
\* terminal goes with it, the terminal's name.
Insertable(p, fresh) ==
    /\ \A k \in KeyIds : Registered(k) => k # p.key /\ keys[k].pub # p.pub
    /\ fresh => terminals[p.scope] = "nobody"

\* The commit of the key, with its terminal when that is new; or neither.
InsertKey(t) ==
    /\ register[t].at = "insert"
    /\ LET p == register[t].proof IN
       IF Insertable(p, register[t].fresh)
       THEN /\ keys' = [keys EXCEPT ![p.key] = RowOf(p)]
            /\ terminals' = IF register[t].fresh THEN [terminals EXCEPT ![p.scope] = p.user]
                                                 ELSE terminals
            /\ Answer(t, TRUE)
       ELSE /\ Answer(t, FALSE)
            /\ UNCHANGED <<keys, terminals>>
    /\ UNCHANGED wallets

\* The registration of a key that no other request names, in one step: what it
\* reads cannot change before it commits.
RegisterAlone(p) ==
    /\ ScopeAllowed(p)
    /\ Insertable(p, FALSE)
    /\ keys' = [keys EXCEPT ![p.key] = RowOf(p)]
    /\ UNCHANGED <<wallets, terminals, register>>

\* A revocation is immutable: a revoked key is not touched again.
RevokeKey(k) ==
    /\ Registered(k) /\ ~keys[k].revoked
    /\ keys' = [keys EXCEPT ![k].revoked = TRUE]
    /\ UNCHANGED <<wallets, terminals, register>>

\* Keys of the other side that a caller receives as trusted.
Trusted(purpose) == {k \in KeyIds : keys[k].purpose = purpose /\ ~keys[k].revoked}

\* The process ends with its requests; what is committed stays.
RestartRegistry ==
    /\ register' = [t \in Threads |-> NoCall]
    /\ UNCHANGED <<wallets, terminals, keys>>
=============================================================================
