----------------------------- MODULE Enrollment -----------------------------
(***************************************************************************)
(* How a terminal becomes able to work offline (backend_client.py,         *)
(* login_and_register_key): it logs in, makes its key pair once            *)
(* (key_store.py), registers the public key, stores its profile and the    *)
(* wallet keys it may trust (database.py).  Each press of the button is a  *)
(* worker, which is served by the thread of its name; two may run on one   *)
(* till, two tills may be configured alike, the answer of a registration   *)
(* may be lost, and till and backend may stop between any two steps.       *)
(***************************************************************************)
EXTENDS KeyRegistry

CONSTANTS
    Tills,    \* installations of the terminal
    Config,   \* terminal_id and pos_key_id of each till
    Staff,    \* the merchants that log in at each till
    Phones,   \* the proof that the phone of each client sends
    MaxStops  \* bound: lost answers and stops of tills and of the backend

ASSUME EnrollmentAssumption ==
    /\ Config \in [Tills -> [terminal : Terminals, key : KeyIds]]
    /\ Staff \in [Tills -> SUBSET Merchants]
    /\ Phones \in [Clients -> {p \in Proofs : p.purpose = "wallet"}]
    /\ "none" \notin PubKeys /\ MaxStops \in Nat

VARIABLES
    identity,  \* table pos_identity: the public key of the till's key, if it has one
    profile,   \* table pos_profile
    trusted,   \* table trusted_wallet_keys
    work,      \* what each worker carries
    stops      \* answers lost and programs stopped so far

tillVars == <<identity, profile, trusted>>

vars == <<wallets, terminals, keys, register, identity, profile, trusted, work, stops>>

NoProfile == [user |-> "none"]
Profiles == [user : Merchants, merchant : Merchants, terminal : Terminals, key : KeyIds]

TrustRows == [key : KeyIds, wallet : Terminals \cup Clients, pub : PubKeys]

NoWork == [at |-> "none"]
Works ==
    [at : {"save", "send", "wait", "profile", "list"}, till : Tills, user : Merchants,
     pub : PubKeys]
      \cup [at : {"trust"}, till : Tills, rows : SUBSET TrustRows]

Init ==
    /\ RegistryInit
    /\ identity = [p \in Tills |-> "none"]
    /\ profile = [p \in Tills |-> NoProfile]
    /\ trusted = [p \in Tills |-> {}]
    /\ work = [w \in Threads |-> NoWork]
    /\ stops = 0

\* A public key that nobody has: the pairs that are generated are all different.
Unused ==
    PubKeys \ ({identity[p] : p \in Tills}
               \cup {Phones[c].pub : c \in Clients}
               \cup {work[w].pub : w \in {v \in Threads : work[v].at = "save"}})

\* The login of merchant u succeeded (LoginThrottle) and worker w reads the
\* identity of its till; if there is none it generates a key pair.
ReadIdentity(w, p, u) ==
    /\ work[w] = NoWork /\ u \in Staff[p]
    /\ \E at \in {"save", "send"}, pub \in PubKeys :
          /\ IF identity[p] = "none" THEN at = "save" /\ pub \in Unused
                                     ELSE at = "send" /\ pub = identity[p]
          /\ work' = [work EXCEPT ![w] = [at |-> at, till |-> p, user |-> u, pub |-> pub]]
    /\ UNCHANGED <<registryVars, tillVars, stops>>

\* The run of worker w ends, with or without success.
Finish(w) == work' = [work EXCEPT ![w] = NoWork]

\* MUTANT: a later key pair replaces the earlier one
SaveableAlways(p) == TRUE

\* The key name is the primary key of pos_identity.
Saveable(p) == identity[p] = "none"

\* The key pair is stored; when another worker stored one, the INSERT fails.
SaveIdentity(w) ==
    /\ work[w].at = "save"
    /\ LET p == work[w].till IN
       IF Saveable(p)
       THEN /\ identity' = [identity EXCEPT ![p] = work[w].pub]
            /\ work' = [work EXCEPT ![w].at = "send"]
       ELSE /\ Finish(w)
            /\ UNCHANGED identity
    /\ UNCHANGED <<registryVars, profile, trusted, stops>>

ProofOf(w) ==
    LET c == Config[work[w].till] IN
    [key |-> c.key, purpose |-> "pos", user |-> work[w].user,
     scope |-> c.terminal, pub |-> work[w].pub]

Send(w) ==
    /\ work[w].at = "send"
    /\ LookScope(w, ProofOf(w))
    /\ work' = [work EXCEPT ![w].at = "wait"]
    /\ UNCHANGED <<tillVars, stops>>

\* The answer arrives.  A refusal ends the run.
Receive(w) ==
    /\ work[w].at = "wait" /\ register[w].at = "answered"
    /\ register' = [register EXCEPT ![w] = NoCall]
    /\ IF register[w].ok THEN work' = [work EXCEPT ![w].at = "profile"] ELSE Finish(w)
    /\ UNCHANGED <<wallets, terminals, keys, tillVars, stops>>

Stop == stops < MaxStops /\ stops' = stops + 1

\* The answer does not arrive in time; the request goes on in the backend.
TimeOut(w) ==
    /\ Stop /\ work[w].at = "wait"
    /\ Finish(w)
    /\ UNCHANGED <<registryVars, tillVars>>

\* An answer that nobody waits for.
DropAnswer(t) ==
    /\ register[t].at = "answered"
    /\ work[t].at # "wait"
    /\ register' = [register EXCEPT ![t] = NoCall]
    /\ UNCHANGED <<wallets, terminals, keys, tillVars, work, stops>>

\* The profile is written over the one before; its merchant is the one that the
\* backend answered with.
SaveProfile(w) ==
    /\ work[w].at = "profile"
    /\ LET p == work[w].till
           c == Config[p]
       IN  profile' = [profile EXCEPT ![p] =
              [user |-> work[w].user, merchant |-> terminals[c.terminal],
               terminal |-> c.terminal, key |-> c.key]]
    /\ work' = [work EXCEPT ![w].at = "list"]
    /\ UNCHANGED <<registryVars, identity, trusted, stops>>

TrustRow(k) == [key |-> k, wallet |-> keys[k].scope, pub |-> keys[k].pub]

ListKeys(w) ==
    /\ work[w].at = "list"
    /\ work' = [work EXCEPT ![w] =
          [at |-> "trust", till |-> work[w].till,
           rows |-> {TrustRow(k) : k \in Trusted("wallet")}]]
    /\ UNCHANGED <<registryVars, tillVars, stops>>

\* The wallet keys are stored one by one; a row with the same name is replaced.
TrustNext(w) ==
    /\ work[w].at = "trust"
    /\ \E r \in work[w].rows :
          /\ trusted' = [trusted EXCEPT ![work[w].till] =
                            {s \in @ : s.key # r.key} \cup {r}]
          /\ work' = [work EXCEPT ![w].rows = @ \ {r}]
    /\ UNCHANGED <<registryVars, identity, profile, stops>>

Done(w) ==
    /\ work[w].at = "trust" /\ work[w].rows = {}
    /\ Finish(w)
    /\ UNCHANGED <<registryVars, tillVars, stops>>

\* The application of till p is closed or dies; a request it sent goes on.
CloseTill(p) ==
    LET mine == {w \in Threads : work[w].at # "none" /\ work[w].till = p} IN
    /\ Stop /\ mine # {}
    /\ work' = [w \in Threads |-> IF w \in mine THEN NoWork ELSE work[w]]
    /\ UNCHANGED <<registryVars, tillVars>>

\* The backend stops: who waits for an answer gets an error.
RestartBackend ==
    /\ Stop
    /\ RestartRegistry
    /\ work' = [w \in Threads |-> IF work[w].at = "wait" THEN NoWork ELSE work[w]]
    /\ UNCHANGED tillVars

Serve(t) == (CompareKey(t) \/ InsertKey(t)) /\ UNCHANGED <<tillVars, work, stops>>

Work(w) ==
    \/ SaveIdentity(w) \/ Send(w) \/ Receive(w) \/ SaveProfile(w)
    \/ ListKeys(w) \/ TrustNext(w) \/ Done(w)

Next ==
    \/ \E w \in Threads, p \in Tills, u \in Merchants : ReadIdentity(w, p, u)
    \/ \E w \in Threads : Work(w)
    \/ \E w \in Threads : TimeOut(w)
    \/ \E t \in Threads : Serve(t)
    \/ \E t \in Threads : DropAnswer(t)
    \/ \E c \in Clients : DeviceLogin(c) /\ UNCHANGED <<tillVars, work, stops>>
    \/ \E c \in Clients : RegisterAlone(Phones[c]) /\ UNCHANGED <<tillVars, work, stops>>
    \/ \E k \in KeyIds : RevokeKey(k) /\ UNCHANGED <<tillVars, work, stops>>
    \/ \E p \in Tills : CloseTill(p)
    \/ RestartBackend

Spec == Init /\ [][Next]_vars

\* The pool serves every request and a run that is not stopped ends (weak).  The
\* merchant of a till tries again, with whichever worker is free (strong).
Fairness ==
    /\ \A w \in Threads : WF_vars(Work(w)) /\ WF_vars(Serve(w)) /\ WF_vars(DropAnswer(w))
    /\ \A p \in Tills : \A u \in Staff[p] : SF_vars(\E w \in Threads : ReadIdentity(w, p, u))

FairSpec == Spec /\ Fairness

----------------------------------------------------------------------------
(* Properties.                                                             *)

EnrollmentTypeOK ==
    /\ wallets \subseteq Clients
    /\ terminals \in [Terminals -> Merchants \cup {"nobody"}]
    /\ keys \in [KeyIds -> KeyRows \cup {NoKey}]
    /\ register \in [Threads -> Calls \cup {NoCall}]
    /\ identity \in [Tills -> PubKeys \cup {"none"}]
    /\ profile \in [Tills -> Profiles \cup {NoProfile}]
    /\ trusted \in [Tills -> SUBSET TrustRows]
    /\ work \in [Threads -> Works \cup {NoWork}]
    /\ stops \in 0 .. MaxStops

\* A till that has a profile, and so works offline, has a key that the backend
\* registered for its merchant and its terminal: whatever it signs can be
\* verified, although identity, registration and profile are stored by three
\* steps of two databases that other workers and tills repeat.
ProfileIsRegistered ==
    \A p \in Tills :
        profile[p] # NoProfile =>
            /\ terminals[profile[p].terminal] = profile[p].merchant
            /\ keys[profile[p].key].purpose = "pos"
            /\ keys[profile[p].key].owner = profile[p].user
            /\ keys[profile[p].key].scope = profile[p].terminal
            /\ keys[profile[p].key].pub = identity[p]

\* What a till trusts is a wallet key of the registry, by its name, wallet and
\* public key, also if it was revoked since.
TrustIsRegistered ==
    \A p \in Tills : \A r \in trusted[p] :
        keys[r.key].purpose = "wallet" /\ TrustRow(r.key) = r

\* A name stays bound to its key, its owner and its scope, a terminal to its
\* merchant, and a revocation is not undone: not by a repetition, nor by a
\* registration that read the tables before another one committed.
BindingsAreForever ==
    [][/\ \A k \in KeyIds : Registered(k) =>
             keys'[k] \in {keys[k], [keys[k] EXCEPT !.revoked = TRUE]}
       /\ \A t \in Terminals : terminals[t] # "nobody" => terminals'[t] = terminals[t]]_vars

\* The configured names belong to another till or merchant, or the key was revoked.
TakenBy(p, u) ==
    LET c == Config[p] IN
    \/ terminals[c.terminal] \notin {"nobody", u}
    \/ Registered(c.key) /\ keys[c.key] # [owner |-> u, purpose |-> "pos",
                                scope |-> c.terminal, pub |-> identity[p], revoked |-> FALSE]

\* A till is enrolled in the end, or its names are taken, however registrations
\* interleave, get lost or are cut short.
EnrolledEventually ==
    \A p \in Tills :
        <>(profile[p] # NoProfile \/ \E u \in Staff[p] : TakenBy(p, u))
=============================================================================
