-------------------------- MODULE EnrollmentProofs --------------------------
(***************************************************************************)
(* A terminal that works offline is registered, for any number of tills,   *)
(* merchants, workers, keys, lost answers and stops.                       *)
(***************************************************************************)
EXTENDS Enrollment, TLAPS

\* The key of a proof is registered as the proof says, whether revoked or not.
RegisteredAs(p) ==
    /\ keys[p.key].purpose = p.purpose /\ keys[p.key].owner = p.user
    /\ keys[p.key].scope = p.scope /\ keys[p.key].pub = p.pub
    /\ p.purpose = "pos" => terminals[p.scope] = p.user

\* A registered key of a terminal belongs to the merchant of that terminal.
TerminalsOwned ==
    \A k \in KeyIds :
        keys[k].purpose = "pos" =>
            keys[k].scope \in Terminals /\ terminals[keys[k].scope] = keys[k].owner

\* What a request that is not answered yet has read of its terminal still allows
\* it, or it believes the terminal is new.
CallAllowed(t) ==
    register[t].at \in {"compare", "insert"} =>
        LET p == register[t].proof IN
        /\ register[t].fresh => p.purpose = "pos"
        /\ p.purpose = "pos" =>
              /\ p.user \in Merchants /\ p.scope \in Terminals
              /\ register[t].fresh \/ terminals[p.scope] = p.user

CallsAllowed == \A t \in Threads : CallAllowed(t)

\* A registration that was answered with success is there.
AnswerTrue(t) ==
    register[t].at = "answered" /\ register[t].ok => RegisteredAs(register[t].proof)

AnswersTrue == \A t \in Threads : AnswerTrue(t)

\* A worker uses the identity of its till, waits for its own proof, stores a
\* profile after its key was registered, and trusts what the registry listed.
WorkerSound(w) ==
    /\ work[w].at \in {"send", "wait", "profile", "list"} =>
          identity[work[w].till] = work[w].pub
    /\ work[w].at = "wait" =>
          register[w].at # "none" /\ register[w].proof = ProofOf(w)
    /\ work[w].at \in {"profile", "list"} => RegisteredAs(ProofOf(w))
    /\ work[w].at = "trust" =>
          \A r \in work[w].rows : keys[r.key].purpose = "wallet" /\ TrustRow(r.key) = r

WorkersSound == \A w \in Threads : WorkerSound(w)

EnrollmentInv ==
    /\ EnrollmentTypeOK /\ TerminalsOwned /\ CallsAllowed /\ AnswersTrue
    /\ WorkersSound /\ ProfileIsRegistered /\ TrustIsRegistered

\* What no step does: bind a name anew, change the merchant of a terminal, or
\* replace the identity of a till.
Steady ==
    /\ \A k \in KeyIds : Registered(k) =>
          keys'[k] \in {keys[k], [keys[k] EXCEPT !.revoked = TRUE]}
    /\ \A t \in Terminals : terminals[t] # "nobody" => terminals'[t] = terminals[t]
    /\ \A p \in Tills : identity[p] # "none" => identity'[p] = identity[p]

----------------------------------------------------------------------------
(* Types.                                                                  *)

\* A registered key has the fields of its row.
LEMMA KeyFields ==
  ASSUME EnrollmentTypeOK, NEW k \in KeyIds, Registered(k)
  PROVE  keys[k] \in KeyRows
BY DEF EnrollmentTypeOK, Registered, NoKey

\* A request that is under way has a proof.
LEMMA CallFields ==
  ASSUME EnrollmentTypeOK, NEW t \in Threads, register[t].at # "none"
  PROVE  /\ register[t] \in Calls /\ register[t].proof \in Proofs
         /\ register[t].at \in {"compare", "insert"} => register[t].fresh \in BOOLEAN
BY DEF EnrollmentTypeOK, Calls, NoCall

\* A worker at a step before the last has a till, a merchant and a key.
LEMMA WorkFields ==
  ASSUME EnrollmentTypeOK, NEW w \in Threads,
         work[w].at \in {"save", "send", "wait", "profile", "list"}
  PROVE  /\ work[w] \in Works
         /\ work[w].till \in Tills /\ work[w].user \in Merchants /\ work[w].pub \in PubKeys
         /\ ProofOf(w) \in Proofs
         /\ Config[work[w].till].terminal \in Terminals /\ Config[work[w].till].key \in KeyIds
<1>1. work[w] \in Works /\ work[w].till \in Tills /\ work[w].user \in Merchants
      /\ work[w].pub \in PubKeys
  BY DEF EnrollmentTypeOK, Works, NoWork
<1>2. Config[work[w].till].terminal \in Terminals /\ Config[work[w].till].key \in KeyIds
  BY <1>1, EnrollmentAssumption
<1>3. ProofOf(w) \in Proofs
  BY <1>1, <1>2 DEF ProofOf, Proofs, Purposes
<1>4. QED
  BY <1>1, <1>2, <1>3

LEMMA TrustFields ==
  ASSUME EnrollmentTypeOK, NEW w \in Threads, work[w].at = "trust"
  PROVE  work[w].till \in Tills /\ work[w].rows \in SUBSET TrustRows
BY DEF EnrollmentTypeOK, Works, NoWork

\* The row of a proof is a row.
LEMMA RowFields ==
  ASSUME NEW p \in Proofs
  PROVE  /\ RowOf(p) \in KeyRows /\ RowOf(p).purpose \in Purposes
         /\ RowOf(p).purpose = p.purpose /\ RowOf(p).owner = p.user
         /\ RowOf(p).scope = p.scope /\ RowOf(p).pub = p.pub
         /\ p.key \in KeyIds /\ p.scope \in Terminals \cup Clients /\ p.pub \in PubKeys
         /\ p.user \in Merchants \cup Clients
BY DEF RowOf, KeyRows, Proofs, Purposes

\* An answer keeps the form of a request.
LEMMA AnswerFields ==
  ASSUME EnrollmentTypeOK, NEW t \in Threads, register[t].at # "none", NEW ok \in BOOLEAN,
         Answer(t, ok)
  PROVE  /\ register' \in [Threads -> Calls \cup {NoCall}]
         /\ register'[t] = [at |-> "answered", proof |-> register[t].proof, ok |-> ok]
         /\ \A s \in Threads \ {t} : register'[s] = register[s]
<1>1. register[t].proof \in Proofs
  BY CallFields
<1>2. [at |-> "answered", proof |-> register[t].proof, ok |-> ok] \in Calls
  BY <1>1 DEF Calls
<1>3. QED
  BY <1>2 DEF Answer, EnrollmentTypeOK

\* The proof of a phone.
LEMMA PhoneFields ==
  ASSUME NEW c \in Clients
  PROVE  Phones[c] \in Proofs /\ Phones[c].purpose = "wallet"
BY EnrollmentAssumption

\* A worker that goes on keeps its till, its merchant and its key.
LEMMA WorkGoesOn ==
  ASSUME EnrollmentTypeOK, NEW w \in Threads,
         work[w].at \in {"save", "send", "wait", "profile", "list"},
         NEW at \in {"save", "send", "wait", "profile", "list"}
  PROVE  [work EXCEPT ![w].at = at] \in [Threads -> Works \cup {NoWork}]
<1> DEFINE Early == [at : {"save", "send", "wait", "profile", "list"}, till : Tills,
                     user : Merchants, pub : PubKeys]
<1>1. work[w] \in Early
  BY DEF EnrollmentTypeOK, Works, NoWork
<1>2. [work[w] EXCEPT !.at = at] \in Early
  BY <1>1
<1>3. Early \in SUBSET Works
  BY DEF Works
<1> HIDE DEF Early
<1>4. QED
  BY <1>2, <1>3 DEF EnrollmentTypeOK

\* The same while it stores the keys it may trust.
LEMMA TrustGoesOn ==
  ASSUME EnrollmentTypeOK, NEW w \in Threads, work[w].at = "trust", NEW r
  PROVE  [work EXCEPT ![w].rows = @ \ {r}] \in [Threads -> Works \cup {NoWork}]
<1> DEFINE Late == [at : {"trust"}, till : Tills, rows : SUBSET TrustRows]
<1>1. work[w] \in Late
  BY DEF EnrollmentTypeOK, Works, NoWork
<1>2. [work[w] EXCEPT !.rows = @ \ {r}] \in Late
  BY <1>1
<1>3. Late \in SUBSET Works
  BY DEF Works
<1> HIDE DEF Late
<1>4. QED
  BY <1>2, <1>3 DEF EnrollmentTypeOK

LEMMA TypeInitially == Init => EnrollmentTypeOK
<1> SUFFICES ASSUME Init PROVE EnrollmentTypeOK
  OBVIOUS
<1>1. stops \in 0 .. MaxStops
  BY EnrollmentAssumption DEF Init
<1>2. QED
  BY <1>1 DEF Init, RegistryInit, EnrollmentTypeOK

\* The steps of a worker on its till.
LEMMA TypeOfWork ==
  ASSUME EnrollmentInv, NEW w \in Threads, Work(w)
  PROVE  EnrollmentTypeOK'
<1>0. EnrollmentTypeOK
  BY DEF EnrollmentInv
<1>1. CASE SaveIdentity(w)
  <2>1. work[w].till \in Tills /\ work[w].user \in Merchants /\ work[w].pub \in PubKeys
    BY <1>0, <1>1, WorkFields DEF SaveIdentity
  <2>2. work' \in [Threads -> Works \cup {NoWork}]
    <3>1. [work EXCEPT ![w].at = "send"] \in [Threads -> Works \cup {NoWork}]
      BY <1>0, <1>1, WorkGoesOn DEF SaveIdentity
    <3>2. [work EXCEPT ![w] = NoWork] \in [Threads -> Works \cup {NoWork}]
      BY <1>0 DEF EnrollmentTypeOK
    <3>3. work' = [work EXCEPT ![w].at = "send"] \/ work' = [work EXCEPT ![w] = NoWork]
      BY <1>1, Zenon DEF SaveIdentity, Finish
    <3>4. QED
      BY <3>1, <3>2, <3>3, Zenon
  <2>3. identity' \in [Tills -> PubKeys \cup {"none"}]
    BY <1>0, <1>1, <2>1 DEF SaveIdentity, EnrollmentTypeOK
  <2>4. QED
    BY <1>0, <1>1, <2>2, <2>3 DEF SaveIdentity, EnrollmentTypeOK, registryVars
<1>2. CASE Send(w)
  <2>1. /\ work[w].till \in Tills /\ work[w].user \in Merchants /\ work[w].pub \in PubKeys
        /\ ProofOf(w) \in Proofs
    BY <1>0, <1>2, WorkFields DEF Send
  <2>2. work' \in [Threads -> Works \cup {NoWork}]
    BY <1>0, <1>2, <2>1, WorkGoesOn DEF Send, EnrollmentTypeOK
  <2>3. /\ [at |-> "compare", proof |-> ProofOf(w), fresh |->
              ProofOf(w).purpose = "pos" /\ terminals[ProofOf(w).scope] = "nobody"] \in Calls
        /\ [at |-> "answered", proof |-> ProofOf(w), ok |-> FALSE] \in Calls
    BY <2>1 DEF Calls
  <2>4. register' \in [Threads -> Calls \cup {NoCall}]
    BY <1>0, <1>2, <2>3 DEF Send, LookScope, EnrollmentTypeOK
  <2>5. QED
    BY <1>0, <1>2, <2>2, <2>4 DEF Send, LookScope, EnrollmentTypeOK, tillVars
<1>3. CASE Receive(w)
  <2>1. work[w].till \in Tills /\ work[w].user \in Merchants /\ work[w].pub \in PubKeys
    BY <1>0, <1>3, WorkFields DEF Receive
  <2>2. work' \in [Threads -> Works \cup {NoWork}]
    BY <1>0, <1>3, <2>1, WorkGoesOn DEF Receive, Finish, EnrollmentTypeOK
  <2>3. QED
    BY <1>0, <1>3, <2>2 DEF Receive, EnrollmentTypeOK, tillVars
<1>4. CASE SaveProfile(w)
  <2>1. /\ work[w].till \in Tills /\ work[w].user \in Merchants /\ work[w].pub \in PubKeys
        /\ Config[work[w].till].terminal \in Terminals /\ Config[work[w].till].key \in KeyIds
    BY <1>0, <1>4, WorkFields DEF SaveProfile
  <2>2. work' \in [Threads -> Works \cup {NoWork}]
    BY <1>0, <1>4, <2>1, WorkGoesOn DEF SaveProfile, EnrollmentTypeOK
  <2>3. terminals[Config[work[w].till].terminal] = work[w].user
    BY <1>4 DEF SaveProfile, EnrollmentInv, WorkersSound, WorkerSound, RegisteredAs, ProofOf
  <2>4. profile' \in [Tills -> Profiles \cup {NoProfile}]
    BY <1>0, <1>4, <2>1, <2>3 DEF SaveProfile, EnrollmentTypeOK, Profiles
  <2>5. QED
    BY <1>0, <1>4, <2>2, <2>4 DEF SaveProfile, EnrollmentTypeOK, registryVars
<1>5. CASE ListKeys(w)
  <2>1. work[w].till \in Tills
    BY <1>0, <1>5, WorkFields DEF ListKeys
  <2>2. ASSUME NEW k \in Trusted("wallet") PROVE TrustRow(k) \in TrustRows
    BY <1>0, <2>2, KeyFields DEF Trusted, TrustRow, TrustRows, Registered, KeyRows
  <2>3. QED
    BY <1>0, <1>5, <2>1, <2>2 DEF ListKeys, EnrollmentTypeOK, Works, registryVars, tillVars
<1>6. CASE TrustNext(w)
  <2>1. work[w].till \in Tills /\ work[w].rows \in SUBSET TrustRows
    BY <1>0, <1>6, TrustFields DEF TrustNext
  <2>2. work' \in [Threads -> Works \cup {NoWork}]
    <3>1. PICK r \in work[w].rows : work' = [work EXCEPT ![w].rows = @ \ {r}]
      BY <1>6, Zenon DEF TrustNext
    <3>2. [work EXCEPT ![w].rows = @ \ {r}] \in [Threads -> Works \cup {NoWork}]
      BY <1>0, <1>6, TrustGoesOn DEF TrustNext
    <3>3. QED
      BY <3>1, <3>2, Zenon
  <2>3. trusted' \in [Tills -> SUBSET TrustRows]
    BY <1>0, <1>6, <2>1 DEF TrustNext, EnrollmentTypeOK
  <2>4. QED
    BY <1>0, <1>6, <2>2, <2>3 DEF TrustNext, EnrollmentTypeOK, registryVars
<1>7. CASE Done(w)
  BY <1>0, <1>7 DEF Done, Finish, EnrollmentTypeOK, registryVars, tillVars
<1>8. QED
  BY <1>1, <1>2, <1>3, <1>4, <1>5, <1>6, <1>7 DEF Work

\* The steps of a thread of the backend.
LEMMA TypeOfServe ==
  ASSUME EnrollmentInv, NEW t \in Threads, Serve(t)
  PROVE  EnrollmentTypeOK'
<1>0. EnrollmentTypeOK
  BY DEF EnrollmentInv
<1>1. CASE CompareKey(t)
  <2>1. register[t] \in Calls /\ register[t].proof \in Proofs /\ register[t].fresh \in BOOLEAN
    BY <1>0, <1>1, CallFields DEF CompareKey
  <2>2. SameContent(register[t].proof) \in BOOLEAN
    BY DEF SameContent
  <2>3. register' \in [Threads -> Calls \cup {NoCall}]
    <3>1. CASE Registered(register[t].proof.key)
      BY <1>0, <1>1, <2>2, <3>1, AnswerFields DEF CompareKey
    <3>2. CASE ~Registered(register[t].proof.key)
      <4>1. register[t] \in [at : {"compare", "insert"}, proof : Proofs, fresh : BOOLEAN]
        BY <1>0, <1>1, <2>1 DEF CompareKey, Calls
      <4>2. [register[t] EXCEPT !.at = "insert"] \in Calls
        BY <4>1 DEF Calls
      <4>3. QED
        BY <1>0, <1>1, <3>2, <4>2 DEF CompareKey, EnrollmentTypeOK
    <3>3. QED
      BY <3>1, <3>2
  <2>4. QED
    BY <1>0, <1>1, <2>3 DEF Serve, CompareKey, EnrollmentTypeOK, tillVars
<1>2. CASE InsertKey(t)
  <2>1. register[t].proof \in Proofs /\ register[t].fresh \in BOOLEAN
    BY <1>0, <1>2, CallFields DEF InsertKey
  <2>2. register' \in [Threads -> Calls \cup {NoCall}]
    BY <1>0, <1>2, AnswerFields DEF InsertKey
  <2>3. keys' \in [KeyIds -> KeyRows \cup {NoKey}]
    BY <1>0, <1>2, <2>1, RowFields DEF InsertKey, EnrollmentTypeOK
  <2>4. terminals' \in [Terminals -> Merchants \cup {"nobody"}]
    BY <1>0, <1>2, <2>1 DEF InsertKey, EnrollmentTypeOK, EnrollmentInv, CallsAllowed, CallAllowed
  <2>5. QED
    BY <1>0, <1>2, <2>1, <2>2, <2>3, <2>4 DEF Serve, InsertKey, EnrollmentTypeOK, tillVars
<1>3. QED
  BY <1>0, <1>1, <1>2 DEF Serve

\* A till that begins.
LEMMA TypeOfRead ==
  ASSUME EnrollmentTypeOK, NEW w \in Threads, NEW p \in Tills, NEW u \in Merchants,
         ReadIdentity(w, p, u)
  PROVE  EnrollmentTypeOK'
<1>1. PICK at \in {"save", "send"}, pub \in PubKeys :
        work' = [work EXCEPT ![w] = [at |-> at, till |-> p, user |-> u, pub |-> pub]]
  BY Zenon DEF ReadIdentity
<1>2. [at |-> at, till |-> p, user |-> u, pub |-> pub] \in Works
  BY DEF Works
<1>3. work' \in [Threads -> Works \cup {NoWork}]
  BY <1>1, <1>2 DEF EnrollmentTypeOK
<1>4. QED
  BY <1>3 DEF ReadIdentity, EnrollmentTypeOK, registryVars, tillVars

\* A registration that no other request names.
LEMMA TypeOfPhone ==
  ASSUME EnrollmentTypeOK, NEW c \in Clients,
         RegisterAlone(Phones[c]), UNCHANGED <<tillVars, work, stops>>
  PROVE  EnrollmentTypeOK'
<1>1. RowOf(Phones[c]) \in KeyRows
  BY PhoneFields, RowFields
<1>2. QED
  BY <1>1 DEF RegisterAlone, EnrollmentTypeOK, tillVars

\* The revocation of a key.
LEMMA TypeOfRevocation ==
  ASSUME EnrollmentTypeOK, NEW k \in KeyIds,
         RevokeKey(k), UNCHANGED <<tillVars, work, stops>>
  PROVE  EnrollmentTypeOK'
<1>1. keys[k] \in KeyRows
  BY KeyFields DEF RevokeKey
<1>2. [keys[k] EXCEPT !.revoked = TRUE] \in KeyRows
  BY <1>1 DEF KeyRows
<1>3. QED
  BY <1>2 DEF RevokeKey, EnrollmentTypeOK, tillVars

\* The steps that stop a program or lose an answer.
LEMMA TypeOfStop ==
  ASSUME EnrollmentTypeOK,
         \/ \E w \in Threads : TimeOut(w)
         \/ \E t \in Threads : DropAnswer(t)
         \/ \E p \in Tills : CloseTill(p)
         \/ RestartBackend
  PROVE  EnrollmentTypeOK'
<1>1. ASSUME Stop PROVE (stops \in 0 .. MaxStops)'
  BY <1>1, EnrollmentAssumption DEF Stop, EnrollmentTypeOK
<1>2. CASE \E w \in Threads : TimeOut(w)
  BY <1>1, <1>2 DEF TimeOut, Finish, EnrollmentTypeOK, registryVars, tillVars
<1>3. CASE \E t \in Threads : DropAnswer(t)
  BY <1>3 DEF DropAnswer, EnrollmentTypeOK, tillVars
<1>4. CASE \E p \in Tills : CloseTill(p)
  BY <1>1, <1>4 DEF CloseTill, EnrollmentTypeOK, registryVars, tillVars
<1>5. CASE RestartBackend
  BY <1>1, <1>5 DEF RestartBackend, RestartRegistry, EnrollmentTypeOK, tillVars
<1>6. QED
  BY <1>2, <1>3, <1>4, <1>5

LEMMA TypeOfStep ==
  ASSUME EnrollmentInv, [Next]_vars
  PROVE  EnrollmentTypeOK'
<1>0. EnrollmentTypeOK
  BY DEF EnrollmentInv
<1>1. CASE \E w \in Threads, p \in Tills, u \in Merchants : ReadIdentity(w, p, u)
  BY <1>0, <1>1, TypeOfRead
<1>2. CASE \E w \in Threads : Work(w)
  BY <1>2, TypeOfWork
<1>3. CASE \/ \E w \in Threads : TimeOut(w)
           \/ \E t \in Threads : DropAnswer(t)
           \/ \E p \in Tills : CloseTill(p)
           \/ RestartBackend
  BY <1>0, <1>3, TypeOfStop
<1>4. CASE \E t \in Threads : Serve(t)
  BY <1>4, TypeOfServe
<1>5. CASE \E c \in Clients : DeviceLogin(c) /\ UNCHANGED <<tillVars, work, stops>>
  BY <1>0, <1>5 DEF DeviceLogin, EnrollmentTypeOK, tillVars
<1>6. CASE \E c \in Clients : RegisterAlone(Phones[c]) /\ UNCHANGED <<tillVars, work, stops>>
  BY <1>0, <1>6, TypeOfPhone
<1>7. CASE \E k \in KeyIds : RevokeKey(k) /\ UNCHANGED <<tillVars, work, stops>>
  BY <1>0, <1>7, TypeOfRevocation
<1>8. CASE UNCHANGED vars
  BY <1>0, <1>8 DEF vars, EnrollmentTypeOK
<1>9. QED
  BY <1>1, <1>2, <1>3, <1>4, <1>5, <1>6, <1>7, <1>8 DEF Next

----------------------------------------------------------------------------
(* What no step undoes.                                                    *)

\* An insertion takes no name that is taken.
LEMMA InsertionIsSteady ==
  ASSUME EnrollmentInv, NEW t \in Threads, InsertKey(t), UNCHANGED identity
  PROVE  Steady
<1>1. register[t].proof \in Proofs
  BY CallFields DEF InsertKey, EnrollmentInv
<1>2. CASE Insertable(register[t].proof, register[t].fresh)
  <2>1. /\ keys' = [keys EXCEPT ![register[t].proof.key] = RowOf(register[t].proof)]
        /\ register[t].fresh => terminals[register[t].proof.scope] = "nobody"
        /\ ~Registered(register[t].proof.key)
    BY <1>1, <1>2, RowFields DEF InsertKey, Insertable
  <2>2. ASSUME NEW s \in Terminals, terminals[s] # "nobody" PROVE terminals'[s] = terminals[s]
    BY <1>2, <2>1, <2>2 DEF InsertKey, EnrollmentTypeOK, EnrollmentInv
  <2>3. ASSUME NEW k \in KeyIds, Registered(k) PROVE keys'[k] = keys[k]
    BY <2>1, <2>3 DEF EnrollmentTypeOK, EnrollmentInv
  <2>4. QED
    BY <2>2, <2>3 DEF Steady
<1>3. CASE ~Insertable(register[t].proof, register[t].fresh)
  BY <1>3 DEF InsertKey, Steady
<1>4. QED
  BY <1>2, <1>3

LEMMA EveryStepIsSteady ==
  ASSUME EnrollmentInv, [Next]_vars
  PROVE  Steady
<1>0. EnrollmentTypeOK
  BY DEF EnrollmentInv
<1>1. ASSUME UNCHANGED <<keys, terminals, identity>> PROVE Steady
  BY <1>1 DEF Steady
<1>2. CASE \E w \in Threads, p \in Tills, u \in Merchants : ReadIdentity(w, p, u)
  BY <1>1, <1>2 DEF ReadIdentity, registryVars, tillVars
<1>3. ASSUME NEW w \in Threads, Work(w) PROVE Steady
  <2>1. CASE SaveIdentity(w)
    <3>1. ASSUME NEW p \in Tills, identity[p] # "none" PROVE identity'[p] = identity[p]
      BY <1>0, <2>1, <3>1 DEF SaveIdentity, Saveable, EnrollmentTypeOK
    <3>2. QED
      BY <2>1, <3>1 DEF SaveIdentity, registryVars, Steady
  <2>2. CASE Send(w) \/ Receive(w) \/ SaveProfile(w) \/ ListKeys(w) \/ TrustNext(w) \/ Done(w)
    BY <1>1, <2>2 DEF Send, LookScope, Receive, SaveProfile, ListKeys, TrustNext, Done,
                      registryVars, tillVars
  <2>3. QED
    BY <1>3, <2>1, <2>2 DEF Work
<1>4. CASE \/ \E w \in Threads : TimeOut(w)
           \/ \E t \in Threads : DropAnswer(t)
           \/ \E p \in Tills : CloseTill(p)
           \/ RestartBackend
  BY <1>1, <1>4 DEF TimeOut, DropAnswer, CloseTill, RestartBackend, RestartRegistry,
                    registryVars, tillVars
<1>5. ASSUME NEW t \in Threads, Serve(t) PROVE Steady
  <2>1. CASE CompareKey(t)
    BY <1>1, <1>5, <2>1 DEF Serve, CompareKey, tillVars
  <2>2. CASE InsertKey(t)
    BY <1>5, <2>2, InsertionIsSteady DEF Serve, tillVars
  <2>3. QED
    BY <1>5, <2>1, <2>2 DEF Serve
<1>6. CASE \E c \in Clients : DeviceLogin(c) /\ UNCHANGED <<tillVars, work, stops>>
  BY <1>1, <1>6 DEF DeviceLogin, tillVars
<1>7. ASSUME NEW c \in Clients, RegisterAlone(Phones[c]), UNCHANGED <<tillVars, work, stops>>
      PROVE  Steady
  <2>1. ASSUME NEW k \in KeyIds, Registered(k) PROVE keys'[k] = keys[k]
    BY <1>0, <1>7, <2>1 DEF RegisterAlone, Insertable, EnrollmentTypeOK
  <2>2. QED
    BY <1>7, <2>1 DEF RegisterAlone, tillVars, Steady
<1>8. ASSUME NEW k \in KeyIds, RevokeKey(k), UNCHANGED <<tillVars, work, stops>> PROVE Steady
  <2>1. ASSUME NEW j \in KeyIds
        PROVE  keys'[j] \in {keys[j], [keys[j] EXCEPT !.revoked = TRUE]}
    BY <1>0, <1>8 DEF RevokeKey, EnrollmentTypeOK
  <2>2. QED
    BY <1>8, <2>1 DEF RevokeKey, tillVars, Steady
<1>9. CASE UNCHANGED vars
  BY <1>1, <1>9 DEF vars
<1>10. QED
  BY <1>2, <1>3, <1>4, <1>5, <1>6, <1>7, <1>8, <1>9 DEF Next

\* So a registered key keeps all of its row but its revocation.
LEMMA RegisteredStays ==
  ASSUME EnrollmentTypeOK, Steady, NEW k \in KeyIds, Registered(k)
  PROVE  /\ keys'[k].purpose = keys[k].purpose /\ keys'[k].owner = keys[k].owner
         /\ keys'[k].scope = keys[k].scope /\ keys'[k].pub = keys[k].pub
<1>1. keys[k] \in KeyRows
  BY KeyFields
<1>2. keys'[k] \in {keys[k], [keys[k] EXCEPT !.revoked = TRUE]}
  BY DEF Steady
<1>3. QED
  BY <1>1, <1>2 DEF KeyRows

\* A terminal that has a merchant keeps him.
LEMMA MerchantStays ==
  ASSUME EnrollmentTypeOK, Steady, NEW s \in Terminals,
         terminals[s] \in Merchants \cup Clients
  PROVE  terminals'[s] = terminals[s]
BY RegistryAssumption DEF Steady

\* What was registered as a proof says remains so.
LEMMA RegisteredAsStays ==
  ASSUME EnrollmentTypeOK, TerminalsOwned, Steady, NEW p \in Proofs, RegisteredAs(p)
  PROVE  /\ keys'[p.key].purpose = p.purpose /\ keys'[p.key].owner = p.user
         /\ keys'[p.key].scope = p.scope /\ keys'[p.key].pub = p.pub
         /\ p.purpose = "pos" => terminals'[p.scope] = p.user
<1>1. p.key \in KeyIds /\ p.purpose \in Purposes /\ p.user \in Merchants \cup Clients
  BY DEF Proofs
<1>2. Registered(p.key)
  BY <1>1 DEF RegisteredAs, Registered, Purposes
<1>3. p.purpose = "pos" => p.scope \in Terminals /\ terminals[p.scope] = p.user
  BY <1>1 DEF RegisteredAs, TerminalsOwned
<1>4. QED
  BY <1>1, <1>2, <1>3, RegisteredStays, MerchantStays DEF RegisteredAs

----------------------------------------------------------------------------
(* The parts of the invariant, one by one.                                 *)

\* The registrations that commit, and the only other steps on the keys.
LEMMA KeysChangeBy ==
  ASSUME [Next]_vars, keys' # keys
  PROVE  \/ \E t \in Threads : InsertKey(t) /\ UNCHANGED <<tillVars, work>>
         \/ \E c \in Clients : RegisterAlone(Phones[c])
         \/ \E k \in KeyIds : RevokeKey(k)
<1>1. CASE \E w \in Threads : Work(w)
  BY <1>1 DEF Work, SaveIdentity, Send, LookScope, Receive, SaveProfile, ListKeys,
              TrustNext, Done, registryVars
<1>2. CASE \E t \in Threads : Serve(t)
  BY <1>2 DEF Serve, CompareKey
<1>3. CASE \/ \E w \in Threads, p \in Tills, u \in Merchants : ReadIdentity(w, p, u)
           \/ \E w \in Threads : TimeOut(w)
           \/ \E t \in Threads : DropAnswer(t)
           \/ \E p \in Tills : CloseTill(p)
           \/ RestartBackend
           \/ \E c \in Clients : DeviceLogin(c)
           \/ UNCHANGED vars
  BY <1>3 DEF ReadIdentity, TimeOut, DropAnswer, CloseTill, RestartBackend, RestartRegistry,
              DeviceLogin, registryVars, vars
<1>4. QED
  BY <1>1, <1>2, <1>3 DEF Next

\* The commit registers what the proof says, for the merchant of the terminal.
LEMMA InsertionRegisters ==
  ASSUME EnrollmentInv, NEW t \in Threads, InsertKey(t),
         Insertable(register[t].proof, register[t].fresh)
  PROVE  LET p == register[t].proof IN
         /\ p \in Proofs
         /\ keys' = [keys EXCEPT ![p.key] = RowOf(p)]
         /\ keys'[p.key] = RowOf(p)
         /\ p.purpose = "pos" => p.scope \in Terminals /\ terminals'[p.scope] = p.user
<1> DEFINE p == register[t].proof
<1>1. p \in Proofs
  BY CallFields DEF InsertKey, EnrollmentInv
<1>2. keys' = [keys EXCEPT ![p.key] = RowOf(p)]
  BY DEF InsertKey
<1>3. keys'[p.key] = RowOf(p)
  BY <1>1, <1>2, RowFields DEF EnrollmentInv, EnrollmentTypeOK
<1>4. ASSUME p.purpose = "pos" PROVE p.scope \in Terminals /\ terminals'[p.scope] = p.user
  <2>1. p.scope \in Terminals /\ (register[t].fresh \/ terminals[p.scope] = p.user)
    BY <1>4 DEF InsertKey, EnrollmentInv, CallsAllowed, CallAllowed
  <2>2. QED
    BY <2>1 DEF InsertKey, EnrollmentInv, EnrollmentTypeOK
<1>5. QED
  BY <1>1, <1>2, <1>3, <1>4

LEMMA TerminalsOwnedPreserved ==
  ASSUME EnrollmentInv, [Next]_vars, Steady
  PROVE  TerminalsOwned'
<1>0. EnrollmentTypeOK /\ TerminalsOwned
  BY DEF EnrollmentInv
<1> SUFFICES ASSUME NEW k \in KeyIds, keys'[k].purpose = "pos"
             PROVE  keys'[k].scope \in Terminals /\ terminals'[keys'[k].scope] = keys'[k].owner
  BY DEF TerminalsOwned
<1>1. CASE Registered(k)
  <2>1. keys[k] \in KeyRows /\ keys[k].purpose = "pos"
    BY <1>0, <1>1, KeyFields, RegisteredStays
  <2>2. keys[k].scope \in Terminals /\ terminals[keys[k].scope] = keys[k].owner
        /\ keys[k].owner \in Merchants \cup Clients
    BY <1>0, <2>1 DEF TerminalsOwned, KeyRows
  <2>3. QED
    BY <1>0, <1>1, <2>2, RegisteredStays, MerchantStays
<1>2. CASE ~Registered(k)
  <2>0. keys'[k] # keys[k]
    BY <1>2 DEF Registered
  <2>1. CASE \E t \in Threads : InsertKey(t)
    <3>1. PICK t \in Threads : InsertKey(t)
      BY <2>1
    <3>2. Insertable(register[t].proof, register[t].fresh)
      BY <2>0, <3>1 DEF InsertKey
    <3>3. LET p == register[t].proof IN
          /\ p \in Proofs /\ keys' = [keys EXCEPT ![p.key] = RowOf(p)]
          /\ keys'[p.key] = RowOf(p)
          /\ p.purpose = "pos" => p.scope \in Terminals /\ terminals'[p.scope] = p.user
      BY <3>1, <3>2, InsertionRegisters
    <3>4. k = register[t].proof.key
      BY <1>0, <2>0, <3>3 DEF EnrollmentTypeOK
    <3>5. QED
      BY <3>3, <3>4, RowFields
  <2>2. CASE \E c \in Clients : RegisterAlone(Phones[c])
    <3>1. PICK c \in Clients : keys' = [keys EXCEPT ![Phones[c].key] = RowOf(Phones[c])]
      BY <2>2 DEF RegisterAlone
    <3>2. k = Phones[c].key
      BY <1>0, <2>0, <3>1 DEF EnrollmentTypeOK
    <3>3. keys'[k].purpose = "wallet"
      BY <1>0, <3>1, <3>2, PhoneFields, RowFields DEF EnrollmentTypeOK
    <3>4. QED
      BY <3>3
  <2>3. CASE \E j \in KeyIds : RevokeKey(j)
    BY <1>0, <1>2, <2>0, <2>3 DEF RevokeKey, EnrollmentTypeOK
  <2>4. QED
    BY <2>0, <2>1, <2>2, <2>3, KeysChangeBy
<1>3. QED
  BY <1>1, <1>2

\* A call that goes on, and has not been answered yet, is still allowed.
LEMMA CallStaysAllowed ==
  ASSUME EnrollmentInv, Steady, NEW t \in Threads,
         register[t].at \in {"compare", "insert"},
         register'[t].proof = register[t].proof, register'[t].fresh = register[t].fresh
  PROVE  CallAllowed(t)'
<1> DEFINE p == register[t].proof
<1>1. CallAllowed(t) /\ EnrollmentTypeOK
  BY DEF EnrollmentInv, CallsAllowed
<1>2. ASSUME p.purpose = "pos"
      PROVE  p.user \in Merchants /\ p.scope \in Terminals
             /\ (register[t].fresh \/ terminals'[p.scope] = p.user)
  BY <1>1, <1>2, MerchantStays DEF CallAllowed
<1>3. QED
  BY <1>1, <1>2 DEF CallAllowed

\* What an answered request promises stays true.
LEMMA AnswerStaysTrue ==
  ASSUME EnrollmentInv, Steady, NEW t \in Threads, register'[t] = register[t]
  PROVE  AnswerTrue(t)'
<1>1. CASE register[t].at = "answered" /\ register[t].ok
  <2>1. register[t].proof \in Proofs
    BY <1>1, CallFields DEF EnrollmentInv
  <2>2. RegisteredAs(register[t].proof)
    BY <1>1 DEF EnrollmentInv, AnswersTrue, AnswerTrue
  <2>3. LET p == register[t].proof IN
        /\ keys'[p.key].purpose = p.purpose /\ keys'[p.key].owner = p.user
        /\ keys'[p.key].scope = p.scope /\ keys'[p.key].pub = p.pub
        /\ p.purpose = "pos" => terminals'[p.scope] = p.user
    BY <2>1, <2>2, RegisteredAsStays DEF EnrollmentInv
  <2>4. QED
    BY <2>3 DEF AnswerTrue, RegisteredAs
<1>2. CASE ~(register[t].at = "answered" /\ register[t].ok)
  BY <1>2 DEF AnswerTrue
<1>3. QED
  BY <1>1, <1>2

LEMMA CallStays ==
  ASSUME EnrollmentInv, Steady, NEW t \in Threads, register'[t] \in {register[t], NoCall}
  PROVE  CallAllowed(t)' /\ AnswerTrue(t)'
<1>1. CASE register'[t] = NoCall
  BY <1>1 DEF NoCall, CallAllowed, AnswerTrue
<1>2. CASE register'[t] = register[t]
  <2>1. AnswerTrue(t)'
    BY <1>2, AnswerStaysTrue
  <2>2. CASE register[t].at \in {"compare", "insert"}
    BY <1>2, <2>1, <2>2, CallStaysAllowed
  <2>3. CASE register[t].at \notin {"compare", "insert"}
    BY <1>2, <2>1, <2>3 DEF CallAllowed
  <2>4. QED
    BY <2>2, <2>3
<1>3. QED
  BY <1>1, <1>2

\* A request that arrives: allowed by the wallets and terminals it reads.
LEMMA SendKeepsCalls ==
  ASSUME EnrollmentInv, Steady, NEW w \in Threads, Send(w)
  PROVE  CallAllowed(w)' /\ AnswerTrue(w)'
<1> DEFINE p == ProofOf(w)
<1>1. register'[w] = IF ScopeAllowed(p)
                     THEN [at |-> "compare", proof |-> p,
                           fresh |-> p.purpose = "pos" /\ terminals[p.scope] = "nobody"]
                     ELSE [at |-> "answered", proof |-> p, ok |-> FALSE]
  BY DEF Send, LookScope, EnrollmentInv, EnrollmentTypeOK
<1>2. AnswerTrue(w)'
  BY <1>1 DEF AnswerTrue
<1>3. CASE ScopeAllowed(p)
  <2>1. register'[w].proof = p
        /\ register'[w].fresh = (p.purpose = "pos" /\ terminals[p.scope] = "nobody")
    BY <1>1, <1>3
  <2>2. ASSUME p.purpose = "pos"
        PROVE  /\ p.user \in Merchants /\ p.scope \in Terminals
               /\ terminals[p.scope] = "nobody" \/ terminals[p.scope] = p.user
    BY <1>3, <2>2 DEF ScopeAllowed
  <2>3. p.purpose = "pos" /\ terminals[p.scope] = p.user => terminals'[p.scope] = p.user
    BY <2>2, MerchantStays DEF EnrollmentInv
  <2>4. QED
    BY <1>2, <2>1, <2>2, <2>3 DEF CallAllowed
<1>4. CASE ~ScopeAllowed(p)
  BY <1>1, <1>2, <1>4 DEF CallAllowed
<1>5. QED
  BY <1>3, <1>4

\* A request that finds its key registered is answered by comparing with it.
LEMMA CompareKeepsCalls ==
  ASSUME EnrollmentInv, Steady, NEW t \in Threads, CompareKey(t)
  PROVE  CallAllowed(t)' /\ AnswerTrue(t)'
<1> DEFINE p == register[t].proof
<1>0. EnrollmentTypeOK /\ TerminalsOwned /\ p \in Proofs
  BY CallFields DEF CompareKey, EnrollmentInv
<1>1. CASE Registered(p.key)
  <2>1. register'[t] = [at |-> "answered", proof |-> p, ok |-> SameContent(p)]
    BY <1>0, <1>1 DEF CompareKey, Answer, EnrollmentTypeOK
  <2>2. CASE SameContent(p)
    <3>1. keys[p.key] = RowOf(p)
      BY <2>2 DEF SameContent
    <3>2. RegisteredAs(p)
      BY <1>0, <3>1, RowFields DEF RegisteredAs, TerminalsOwned
    <3>3. /\ keys'[p.key].purpose = p.purpose /\ keys'[p.key].owner = p.user
          /\ keys'[p.key].scope = p.scope /\ keys'[p.key].pub = p.pub
          /\ p.purpose = "pos" => terminals'[p.scope] = p.user
      BY <1>0, <3>2, RegisteredAsStays
    <3>4. QED
      BY <2>1, <3>3 DEF AnswerTrue, CallAllowed, RegisteredAs
  <2>3. CASE ~SameContent(p)
    BY <2>1, <2>3 DEF AnswerTrue, CallAllowed
  <2>4. QED
    BY <2>2, <2>3
<1>2. CASE ~Registered(p.key)
  <2>1. /\ register' = [register EXCEPT ![t].at = "insert"]
        /\ register[t].at = "compare" /\ register[t] \in Calls
    BY <1>0, <1>2, CallFields DEF CompareKey
  <2>2. register[t] \in [at : {"compare", "insert"}, proof : Proofs, fresh : BOOLEAN]
    BY <2>1 DEF Calls
  <2>3. register'[t] = [register[t] EXCEPT !.at = "insert"]
    BY <1>0, <2>1 DEF EnrollmentTypeOK
  <2>4. /\ register'[t].at = "insert" /\ register'[t].proof = register[t].proof
        /\ register'[t].fresh = register[t].fresh
    BY <2>2, <2>3
  <2>5. QED
    BY <2>1, <2>4, CallStaysAllowed DEF AnswerTrue
<1>3. QED
  BY <1>1, <1>2

\* A request that inserts is answered with success after the commit.
LEMMA InsertKeepsCalls ==
  ASSUME EnrollmentInv, Steady, NEW t \in Threads, InsertKey(t)
  PROVE  CallAllowed(t)' /\ AnswerTrue(t)'
<1> DEFINE p == register[t].proof
<1>0. EnrollmentTypeOK
  BY DEF EnrollmentInv
<1>1. CASE Insertable(p, register[t].fresh)
  <2>1. register'[t] = [at |-> "answered", proof |-> p, ok |-> TRUE]
    BY <1>0, <1>1 DEF InsertKey, Answer, EnrollmentTypeOK
  <2>2. /\ p \in Proofs /\ keys'[p.key] = RowOf(p)
        /\ p.purpose = "pos" => p.scope \in Terminals /\ terminals'[p.scope] = p.user
    BY <1>1, InsertionRegisters
  <2>3. QED
    BY <2>1, <2>2, RowFields DEF AnswerTrue, CallAllowed, RegisteredAs
<1>2. CASE ~Insertable(p, register[t].fresh)
  <2>1. register'[t] = [at |-> "answered", proof |-> p, ok |-> FALSE]
    BY <1>0, <1>2 DEF InsertKey, Answer, EnrollmentTypeOK
  <2>2. QED
    BY <2>1 DEF AnswerTrue, CallAllowed
<1>3. QED
  BY <1>1, <1>2

LEMMA CallsPreserved ==
  ASSUME EnrollmentInv, [Next]_vars, Steady
  PROVE  CallsAllowed' /\ AnswersTrue'
<1>0. EnrollmentTypeOK
  BY DEF EnrollmentInv
<1> SUFFICES ASSUME NEW t \in Threads PROVE CallAllowed(t)' /\ AnswerTrue(t)'
  BY DEF CallsAllowed, AnswersTrue
<1>1. CASE register'[t] \in {register[t], NoCall}
  BY <1>1, CallStays
<1>2. CASE \E s \in Threads : Send(s)
  BY <1>0, <1>1, <1>2, SendKeepsCalls DEF Send, LookScope, EnrollmentTypeOK
<1>3. CASE \E s \in Threads : Serve(s)
  <2>1. PICK s \in Threads : Serve(s)
    BY <1>3
  <2>2. CASE s = t
    BY <2>1, <2>2, CompareKeepsCalls, InsertKeepsCalls DEF Serve
  <2>3. CASE s # t
    <3>1. register'[t] = register[t]
      BY <1>0, <2>1, <2>3 DEF Serve, CompareKey, InsertKey, Answer, EnrollmentTypeOK
    <3>2. QED
      BY <1>1, <3>1
  <2>4. QED
    BY <2>2, <2>3
<1>4. CASE (\E s \in Threads : Receive(s) \/ DropAnswer(s)) \/ RestartBackend
  BY <1>0, <1>1, <1>4 DEF Receive, DropAnswer, RestartBackend, RestartRegistry,
                          EnrollmentTypeOK
<1>5. CASE UNCHANGED register
  BY <1>1, <1>5
<1>6. QED
  <2>1. CASE \E s \in Threads : Work(s)
    BY <1>2, <1>4, <1>5, <2>1
       DEF Work, SaveIdentity, SaveProfile, ListKeys, TrustNext, Done, registryVars
  <2>2. CASE \/ \E w \in Threads, p \in Tills, u \in Merchants : ReadIdentity(w, p, u)
             \/ \E w \in Threads : TimeOut(w)
             \/ \E c \in Clients : DeviceLogin(c) \/ RegisterAlone(Phones[c])
             \/ \E k \in KeyIds : RevokeKey(k)
             \/ \E p \in Tills : CloseTill(p)
             \/ UNCHANGED vars
    BY <1>5, <2>2 DEF ReadIdentity, TimeOut, DeviceLogin, RegisterAlone, RevokeKey,
                      CloseTill, registryVars, vars
  <2>3. QED
    BY <1>3, <1>4, <2>1, <2>2 DEF Next

\* A wallet key of the registry is listed as it was before.
LEMMA TrustRowStays ==
  ASSUME EnrollmentTypeOK, Steady, NEW r \in TrustRows,
         keys[r.key].purpose = "wallet", TrustRow(r.key) = r
  PROVE  keys'[r.key].purpose = "wallet"
         /\ [key |-> r.key, wallet |-> keys'[r.key].scope, pub |-> keys'[r.key].pub] = r
<1>1. r.key \in KeyIds /\ Registered(r.key)
  BY DEF TrustRows, Registered
<1>2. QED
  BY <1>1, RegisteredStays DEF TrustRow

\* A worker that does not move, and whose request is still the same, remains sound.
LEMMA WorkerStays ==
  ASSUME EnrollmentInv, Steady, NEW w \in Threads, work'[w] = work[w],
         work[w].at = "wait" =>
            register'[w].at # "none" /\ register'[w].proof = register[w].proof
  PROVE  WorkerSound(w)'
<1>0. EnrollmentTypeOK /\ TerminalsOwned /\ WorkerSound(w)
  BY DEF EnrollmentInv, WorkersSound
<1>1. ASSUME work[w].at \in {"send", "wait", "profile", "list"}
      PROVE  identity'[work[w].till] = work[w].pub
  <2>1. work[w].till \in Tills /\ work[w].pub \in PubKeys
    BY <1>0, <1>1, WorkFields
  <2>2. identity[work[w].till] # "none"
    BY <1>0, <1>1, <2>1, EnrollmentAssumption DEF WorkerSound
  <2>3. QED
    BY <1>0, <1>1, <2>1, <2>2 DEF WorkerSound, Steady
<1>2. ProofOf(w)' = ProofOf(w)
  BY DEF ProofOf
<1>3. ASSUME work[w].at \in {"profile", "list"} PROVE RegisteredAs(ProofOf(w))'
  <2>1. ProofOf(w) \in Proofs /\ RegisteredAs(ProofOf(w))
    BY <1>0, <1>3, WorkFields DEF WorkerSound
  <2>2. LET p == ProofOf(w) IN
        /\ keys'[p.key].purpose = p.purpose /\ keys'[p.key].owner = p.user
        /\ keys'[p.key].scope = p.scope /\ keys'[p.key].pub = p.pub
        /\ p.purpose = "pos" => terminals'[p.scope] = p.user
    BY <1>0, <2>1, RegisteredAsStays
  <2>3. QED
    BY <1>2, <2>2 DEF RegisteredAs
<1>4. ASSUME work[w].at = "trust", NEW r \in work[w].rows
      PROVE  keys'[r.key].purpose = "wallet" /\ TrustRow(r.key)' = r
  BY <1>0, <1>4, TrustFields, TrustRowStays DEF WorkerSound, TrustRow
<1>5. QED
  BY <1>0, <1>1, <1>2, <1>3, <1>4 DEF WorkerSound

\* A worker without work is sound.
LEMMA IdleIsSound ==
  ASSUME NEW w \in Threads, work'[w] = NoWork
  PROVE  WorkerSound(w)'
BY DEF WorkerSound, NoWork

\* Each step of a worker leaves it sound.
LEMMA WorkKeepsSound ==
  ASSUME EnrollmentInv, Steady, NEW w \in Threads, Work(w)
  PROVE  WorkerSound(w)'
<1>0. EnrollmentTypeOK /\ TerminalsOwned /\ WorkerSound(w)
  BY DEF EnrollmentInv, WorkersSound
<1>1. CASE SaveIdentity(w)
  <2>1. work[w].till \in Tills /\ work[w] \in Works /\ work[w].at = "save"
    BY <1>0, <1>1, WorkFields DEF SaveIdentity
  <2>2. CASE Saveable(work[w].till)
    <3>1. /\ identity' = [identity EXCEPT ![work[w].till] = work[w].pub]
          /\ work' = [work EXCEPT ![w].at = "send"]
      BY <1>1, <2>2, Zenon DEF SaveIdentity
    <3>2. work'[w] = [work[w] EXCEPT !.at = "send"]
      BY <1>0, <3>1 DEF EnrollmentTypeOK
    <3>3. work'[w].at = "send" /\ work'[w].till = work[w].till /\ work'[w].pub = work[w].pub
      BY <2>1, <3>2 DEF Works
    <3>4. identity'[work[w].till] = work[w].pub
      BY <1>0, <2>1, <3>1 DEF EnrollmentTypeOK
    <3>5. QED
      BY <3>3, <3>4 DEF WorkerSound
  <2>3. CASE ~Saveable(work[w].till)
    <3>1. work'[w] = NoWork
      BY <1>0, <1>1, <2>3 DEF SaveIdentity, Finish, EnrollmentTypeOK
    <3>2. QED
      BY <3>1, IdleIsSound
  <2>4. QED
    BY <2>2, <2>3
<1>2. CASE Send(w)
  <2>1. /\ work[w] \in Works /\ work[w].at = "send" /\ work[w].till \in Tills
        /\ work[w].pub \in PubKeys
    BY <1>0, <1>2, WorkFields DEF Send
  <2>2. work'[w] = [work[w] EXCEPT !.at = "wait"]
    BY <1>0, <1>2 DEF Send, EnrollmentTypeOK
  <2>3. /\ work'[w].at = "wait" /\ work'[w].till = work[w].till /\ work'[w].pub = work[w].pub
        /\ work'[w].user = work[w].user
    BY <2>1, <2>2 DEF Works
  <2>4. register'[w].at # "none" /\ register'[w].proof = ProofOf(w)
    BY <1>0, <1>2 DEF Send, LookScope, EnrollmentTypeOK
  <2>5. ProofOf(w)' = ProofOf(w)
    BY <2>3 DEF ProofOf
  <2>6. identity'[work[w].till] = work[w].pub
    BY <1>0, <1>2, <2>1 DEF WorkerSound, Send, tillVars
  <2>7. QED
    BY <2>3, <2>4, <2>5, <2>6 DEF WorkerSound
<1>3. CASE Receive(w)
  <2>1. /\ work[w] \in Works /\ work[w].at = "wait" /\ register[w].at = "answered"
        /\ register[w].proof = ProofOf(w) /\ ProofOf(w) \in Proofs
        /\ identity[work[w].till] = work[w].pub
    BY <1>0, <1>3, WorkFields DEF Receive, WorkerSound
  <2>2. CASE register[w].ok
    <3>1. work'[w] = [work[w] EXCEPT !.at = "profile"]
      BY <1>0, <1>3, <2>2 DEF Receive, EnrollmentTypeOK
    <3>2. /\ work'[w].at = "profile" /\ work'[w].till = work[w].till
          /\ work'[w].pub = work[w].pub /\ work'[w].user = work[w].user
      BY <1>0, <2>1, <3>1, WorkFields DEF Works
    <3>3. RegisteredAs(ProofOf(w))
      BY <2>1, <2>2 DEF EnrollmentInv, AnswersTrue, AnswerTrue
    <3>4. ProofOf(w)' = ProofOf(w)
      BY <3>2 DEF ProofOf
    <3>5. RegisteredAs(ProofOf(w))'
      BY <1>3, <3>3, <3>4 DEF RegisteredAs, Receive
    <3>6. QED
      BY <1>3, <2>1, <3>2, <3>5 DEF WorkerSound, Receive, tillVars
  <2>3. CASE ~register[w].ok
    <3>1. work'[w] = NoWork
      BY <1>0, <1>3, <2>3 DEF Receive, Finish, EnrollmentTypeOK
    <3>2. QED
      BY <3>1, IdleIsSound
  <2>4. QED
    BY <2>2, <2>3
<1>4. CASE SaveProfile(w)
  <2>1. /\ work[w] \in Works /\ work[w].at = "profile" /\ RegisteredAs(ProofOf(w))
        /\ identity[work[w].till] = work[w].pub
    BY <1>0, <1>4, WorkFields DEF SaveProfile, WorkerSound
  <2>2. work'[w] = [work[w] EXCEPT !.at = "list"]
    BY <1>0, <1>4 DEF SaveProfile, EnrollmentTypeOK
  <2>3. /\ work'[w].at = "list" /\ work'[w].till = work[w].till
        /\ work'[w].pub = work[w].pub /\ work'[w].user = work[w].user
    BY <1>0, <2>1, <2>2, WorkFields DEF Works
  <2>4. ProofOf(w)' = ProofOf(w)
    BY <2>3 DEF ProofOf
  <2>5. RegisteredAs(ProofOf(w))'
    BY <1>4, <2>1, <2>4 DEF RegisteredAs, SaveProfile, registryVars
  <2>6. QED
    BY <1>4, <2>1, <2>3, <2>5 DEF WorkerSound, SaveProfile
<1>5. CASE ListKeys(w)
  <2>1. work'[w].at = "trust" /\ work'[w].rows = {TrustRow(k) : k \in Trusted("wallet")}
    BY <1>0, <1>5 DEF ListKeys, EnrollmentTypeOK
  <2>2. ASSUME NEW k \in Trusted("wallet")
        PROVE  TrustRow(k).key = k /\ keys'[k].purpose = "wallet" /\ TrustRow(k)' = TrustRow(k)
    BY <1>5, <2>2 DEF Trusted, TrustRow, ListKeys, registryVars
  <2>3. QED
    BY <2>1, <2>2 DEF WorkerSound
<1>6. CASE TrustNext(w)
  <2>1. PICK r \in work[w].rows : work' = [work EXCEPT ![w].rows = @ \ {r}]
    BY <1>6, Zenon DEF TrustNext
  <2>2. work[w].at = "trust" /\ work[w] \in [at : {"trust"}, till : Tills, rows : SUBSET TrustRows]
    BY <1>0, <1>6 DEF TrustNext, EnrollmentTypeOK, Works, NoWork
  <2>3. work'[w] = [work[w] EXCEPT !.rows = @ \ {r}]
    BY <1>0, <2>1 DEF EnrollmentTypeOK
  <2>4. work'[w].at = "trust" /\ work'[w].rows \subseteq work[w].rows
    BY <2>2, <2>3
  <2>5. ASSUME NEW q \in work[w].rows
        PROVE  keys'[q.key].purpose = "wallet" /\ TrustRow(q.key)' = q
    BY <1>0, <1>6, <2>2 DEF WorkerSound, TrustNext, TrustRow, registryVars
  <2>6. QED
    BY <2>4, <2>5 DEF WorkerSound
<1>7. CASE Done(w)
  <2>1. work'[w] = NoWork
    BY <1>0, <1>7 DEF Done, Finish, EnrollmentTypeOK
  <2>2. QED
    BY <2>1, IdleIsSound
<1>8. QED
  BY <1>1, <1>2, <1>3, <1>4, <1>5, <1>6, <1>7 DEF Work

LEMMA WorkersPreserved ==
  ASSUME EnrollmentInv, [Next]_vars, Steady
  PROVE  WorkersSound'
<1>0. EnrollmentTypeOK
  BY DEF EnrollmentInv
<1> SUFFICES ASSUME NEW w \in Threads PROVE WorkerSound(w)'
  BY DEF WorkersSound
<1>1. CASE \E v \in Threads, p \in Tills, u \in Merchants : ReadIdentity(v, p, u)
  <2>1. PICK v \in Threads, p \in Tills, u \in Merchants : ReadIdentity(v, p, u)
    BY <1>1
  <2>2. CASE v = w
    <3>1. PICK at \in {"save", "send"}, pub \in PubKeys :
            /\ IF identity[p] = "none" THEN at = "save" /\ pub \in Unused
                                       ELSE at = "send" /\ pub = identity[p]
            /\ work' = [work EXCEPT ![v] = [at |-> at, till |-> p, user |-> u, pub |-> pub]]
      BY <2>1, Zenon DEF ReadIdentity
    <3>2. work'[w] = [at |-> at, till |-> p, user |-> u, pub |-> pub]
      BY <1>0, <2>2, <3>1 DEF EnrollmentTypeOK
    <3>3. QED
      BY <2>1, <3>1, <3>2 DEF WorkerSound, ReadIdentity, tillVars
  <2>3. CASE v # w
    <3>1. work'[w] = work[w] /\ register' = register
      BY <1>0, <2>1, <2>3 DEF ReadIdentity, registryVars, EnrollmentTypeOK
    <3>2. WorkerSound(w)
      BY DEF EnrollmentInv, WorkersSound
    <3>3. QED
      BY <3>1, <3>2, WorkerStays DEF WorkerSound
  <2>4. QED
    BY <2>2, <2>3
<1>2. CASE \E v \in Threads : Work(v)
  <2>1. PICK v \in Threads : Work(v)
    BY <1>2
  <2>2. CASE v = w
    BY <2>1, <2>2, WorkKeepsSound
  <2>3. CASE v # w
    <3>1. work'[w] = work[w]
      BY <1>0, <2>1, <2>3 DEF Work, SaveIdentity, Send, Receive, SaveProfile, ListKeys,
                              TrustNext, Done, Finish, EnrollmentTypeOK
    <3>2. register'[w] = register[w]
      BY <1>0, <2>1, <2>3 DEF Work, SaveIdentity, Send, LookScope, Receive, SaveProfile,
                              ListKeys, TrustNext, Done, registryVars, EnrollmentTypeOK
    <3>3. WorkerSound(w)
      BY DEF EnrollmentInv, WorkersSound
    <3>4. QED
      BY <3>1, <3>2, <3>3, WorkerStays DEF WorkerSound
  <2>4. QED
    BY <2>2, <2>3
<1>3. CASE \E t \in Threads : Serve(t)
  <2>1. PICK t \in Threads : Serve(t)
    BY <1>3
  <2>2. work' = work /\ register[t].at # "none"
    BY <2>1 DEF Serve, CompareKey, InsertKey
  <2>3. /\ register'[t].at # "none" /\ register'[t].proof = register[t].proof
        /\ \A s \in Threads \ {t} : register'[s] = register[s]
    <3>1. CASE InsertKey(t)
      <4>1. PICK ok \in BOOLEAN : Answer(t, ok)
        BY <3>1 DEF InsertKey
      <4>2. /\ register'[t] = [at |-> "answered", proof |-> register[t].proof, ok |-> ok]
           /\ \A s \in Threads \ {t} : register'[s] = register[s]
        BY <1>0, <2>2, <4>1, AnswerFields, Zenon
      <4>3. QED
        BY <4>2
    <3>2. CASE CompareKey(t)
      <4>1. CASE Registered(register[t].proof.key)
        <5>1. PICK ok \in BOOLEAN : Answer(t, ok)
          BY <3>2, <4>1 DEF CompareKey, SameContent
        <5>2. /\ register'[t] = [at |-> "answered", proof |-> register[t].proof, ok |-> ok]
             /\ \A s \in Threads \ {t} : register'[s] = register[s]
          BY <1>0, <2>2, <5>1, AnswerFields, Zenon
        <5>3. QED
          BY <5>2
      <4>2. CASE ~Registered(register[t].proof.key)
        <5>1. register' = [register EXCEPT ![t].at = "insert"]
          BY <3>2, <4>2 DEF CompareKey
        <5>2. register[t] \in [at : {"compare", "insert"}, proof : Proofs, fresh : BOOLEAN]
          BY <1>0, <2>2, <3>2, CallFields DEF CompareKey, Calls
        <5>3. register'[t] = [register[t] EXCEPT !.at = "insert"]
          BY <1>0, <5>1 DEF EnrollmentTypeOK
        <5>4. QED
          BY <1>0, <5>1, <5>2, <5>3 DEF EnrollmentTypeOK
      <4>3. QED
        BY <4>1, <4>2
    <3>3. QED
      BY <2>1, <3>1, <3>2 DEF Serve
  <2>4. WorkerSound(w)
    BY DEF EnrollmentInv, WorkersSound
  <2>5. QED
    BY <2>2, <2>3, <2>4, WorkerStays DEF WorkerSound
<1>4. CASE \E t \in Threads : DropAnswer(t)
  <2>1. PICK t \in Threads : DropAnswer(t)
    BY <1>4
  <2>2. work' = work /\ work[t].at # "wait"
    BY <2>1 DEF DropAnswer
  <2>3. \A s \in Threads \ {t} : register'[s] = register[s]
    BY <1>0, <2>1 DEF DropAnswer, EnrollmentTypeOK
  <2>4. WorkerSound(w)
    BY DEF EnrollmentInv, WorkersSound
  <2>5. QED
    BY <2>2, <2>3, <2>4, WorkerStays DEF WorkerSound
<1>5. CASE (\E v \in Threads : TimeOut(v)) \/ (\E p \in Tills : CloseTill(p))
  <2>1. work'[w] \in {work[w], NoWork} /\ register' = register
    BY <1>0, <1>5 DEF TimeOut, CloseTill, Finish, registryVars, EnrollmentTypeOK
  <2>2. WorkerSound(w)
    BY DEF EnrollmentInv, WorkersSound
  <2>3. QED
    BY <2>1, <2>2, IdleIsSound, WorkerStays DEF WorkerSound
<1>6. CASE RestartBackend
  <2>1. work'[w] = IF work[w].at = "wait" THEN NoWork ELSE work[w]
    BY <1>6 DEF RestartBackend
  <2>2. QED
    BY <2>1, IdleIsSound, WorkerStays
<1>7. CASE UNCHANGED <<register, work>>
  <2>1. WorkerSound(w)
    BY DEF EnrollmentInv, WorkersSound
  <2>2. QED
    BY <1>7, <2>1, WorkerStays DEF WorkerSound
<1>8. QED
  <2>1. CASE \/ \E c \in Clients : DeviceLogin(c) /\ UNCHANGED <<tillVars, work, stops>>
             \/ \E c \in Clients : RegisterAlone(Phones[c]) /\ UNCHANGED <<tillVars, work, stops>>
             \/ \E k \in KeyIds : RevokeKey(k) /\ UNCHANGED <<tillVars, work, stops>>
             \/ UNCHANGED vars
    BY <1>7, <2>1 DEF DeviceLogin, RegisterAlone, RevokeKey, vars
  <2>2. QED
    BY <1>1, <1>2, <1>3, <1>4, <1>5, <1>6, <2>1 DEF Next

\* A profile stays registered: what it names is bound for ever.
LEMMA ProfileStays ==
  ASSUME EnrollmentInv, Steady, NEW p \in Tills, profile[p] # NoProfile
  PROVE  /\ terminals'[profile[p].terminal] = profile[p].merchant
         /\ keys'[profile[p].key].purpose = "pos"
         /\ keys'[profile[p].key].owner = profile[p].user
         /\ keys'[profile[p].key].scope = profile[p].terminal
         /\ keys'[profile[p].key].pub = identity'[p]
<1>0. EnrollmentTypeOK
  BY DEF EnrollmentInv
<1>1. profile[p] \in Profiles
  BY <1>0 DEF EnrollmentTypeOK
<1>2. /\ profile[p].terminal \in Terminals /\ profile[p].merchant \in Merchants
      /\ profile[p].key \in KeyIds
  BY <1>1 DEF Profiles
<1>3. /\ terminals[profile[p].terminal] = profile[p].merchant
      /\ keys[profile[p].key].purpose = "pos"
      /\ keys[profile[p].key].owner = profile[p].user
      /\ keys[profile[p].key].scope = profile[p].terminal
      /\ keys[profile[p].key].pub = identity[p]
  BY DEF EnrollmentInv, ProfileIsRegistered
<1>4. Registered(profile[p].key) /\ keys[profile[p].key] \in KeyRows
  BY <1>0, <1>2, <1>3, KeyFields DEF Registered
<1>5. identity[p] # "none"
  BY <1>3, <1>4, EnrollmentAssumption DEF KeyRows
<1>6. identity'[p] = identity[p]
  BY <1>5 DEF Steady
<1>7. terminals'[profile[p].terminal] = terminals[profile[p].terminal]
  BY <1>0, <1>2, <1>3, MerchantStays
<1>8. QED
  BY <1>0, <1>2, <1>3, <1>4, <1>6, <1>7, RegisteredStays

LEMMA ProfilesPreserved ==
  ASSUME EnrollmentInv, [Next]_vars, Steady
  PROVE  ProfileIsRegistered'
<1>0. EnrollmentTypeOK
  BY DEF EnrollmentInv
<1> SUFFICES ASSUME NEW p \in Tills, profile'[p] # NoProfile
             PROVE  /\ terminals'[profile'[p].terminal] = profile'[p].merchant
                    /\ keys'[profile'[p].key].purpose = "pos"
                    /\ keys'[profile'[p].key].owner = profile'[p].user
                    /\ keys'[profile'[p].key].scope = profile'[p].terminal
                    /\ keys'[profile'[p].key].pub = identity'[p]
  BY DEF ProfileIsRegistered
<1>1. CASE profile'[p] = profile[p]
  BY <1>1, ProfileStays
<1>2. CASE \E w \in Threads : SaveProfile(w)
  <2>1. PICK w \in Threads : SaveProfile(w)
    BY <1>2
  <2>2. CASE work[w].till = p
    <3>1. RegisteredAs(ProofOf(w)) /\ identity[p] = work[w].pub
      BY <2>1, <2>2 DEF EnrollmentInv, WorkersSound, WorkerSound, SaveProfile
    <3>2. profile'[p] = [user |-> work[w].user,
                         merchant |-> terminals[Config[p].terminal],
                         terminal |-> Config[p].terminal, key |-> Config[p].key]
      BY <1>0, <2>1, <2>2 DEF SaveProfile, EnrollmentTypeOK
    <3>3. QED
      BY <2>1, <2>2, <3>1, <3>2 DEF SaveProfile, registryVars, RegisteredAs, ProofOf
  <2>3. CASE work[w].till # p
    BY <1>0, <1>1, <2>1, <2>3 DEF SaveProfile, EnrollmentTypeOK
  <2>4. QED
    BY <2>2, <2>3
<1>3. CASE ~ \E w \in Threads : SaveProfile(w)
  <2>1. CASE \E w \in Threads : Work(w)
    BY <1>1, <1>3, <2>1 DEF Work, SaveIdentity, Send, Receive, ListKeys, TrustNext, Done,
                            tillVars
  <2>2. CASE ~ \E w \in Threads : Work(w)
    BY <1>1, <2>2 DEF Next, ReadIdentity, TimeOut, Serve, DropAnswer, CloseTill,
                      RestartBackend, tillVars, vars
  <2>3. QED
    BY <2>1, <2>2
<1>4. QED
  BY <1>2, <1>3

LEMMA TrustPreserved ==
  ASSUME EnrollmentInv, [Next]_vars, Steady
  PROVE  TrustIsRegistered'
<1>0. EnrollmentTypeOK
  BY DEF EnrollmentInv
<1>1. ASSUME NEW r \in TrustRows, keys[r.key].purpose = "wallet", TrustRow(r.key) = r
      PROVE  keys'[r.key].purpose = "wallet" /\ TrustRow(r.key)' = r
  BY <1>0, <1>1, TrustRowStays DEF TrustRow
<1>2. CASE \E w \in Threads : TrustNext(w)
  <2>1. PICK w \in Threads : TrustNext(w)
    BY <1>2
  <2>2. PICK q \in work[w].rows :
          trusted' = [trusted EXCEPT ![work[w].till] = {s \in @ : s.key # q.key} \cup {q}]
    BY <2>1, Zenon DEF TrustNext
  <2>3. /\ work[w].till \in Tills /\ q \in TrustRows
        /\ keys[q.key].purpose = "wallet" /\ TrustRow(q.key) = q
    BY <1>0, <2>1, <2>2, TrustFields
       DEF TrustNext, EnrollmentInv, WorkersSound, WorkerSound
  <2>4. ASSUME NEW p \in Tills, NEW r \in trusted'[p]
        PROVE  r \in TrustRows /\ keys[r.key].purpose = "wallet" /\ TrustRow(r.key) = r
    <3>1. r \in trusted[p] \/ r = q
      BY <1>0, <2>2, <2>3, <2>4 DEF EnrollmentTypeOK
    <3>2. QED
      BY <1>0, <2>3, <3>1 DEF EnrollmentTypeOK, EnrollmentInv, TrustIsRegistered
  <2>5. QED
    BY <1>1, <2>4 DEF TrustIsRegistered
<1>3. CASE UNCHANGED trusted
  <2>1. ASSUME NEW p \in Tills, NEW r \in trusted'[p]
        PROVE  r \in TrustRows /\ keys[r.key].purpose = "wallet" /\ TrustRow(r.key) = r
    BY <1>0, <1>3, <2>1 DEF EnrollmentTypeOK, EnrollmentInv, TrustIsRegistered
  <2>2. QED
    BY <1>1, <2>1 DEF TrustIsRegistered
<1>4. QED
  <2>1. CASE \E w \in Threads : Work(w)
    BY <1>2, <1>3, <2>1 DEF Work, SaveIdentity, Send, Receive, SaveProfile, ListKeys, Done,
                            tillVars
  <2>2. CASE ~ \E w \in Threads : Work(w)
    BY <1>3, <2>2 DEF Next, ReadIdentity, TimeOut, Serve, DropAnswer, CloseTill,
                      RestartBackend, tillVars, vars
  <2>3. QED
    BY <2>1, <2>2

----------------------------------------------------------------------------
(* Theorems.                                                               *)

LEMMA InvariantInitially == Init => EnrollmentInv
<1> SUFFICES ASSUME Init PROVE EnrollmentInv
  OBVIOUS
<1>1. EnrollmentTypeOK
  BY TypeInitially
<1>2. TerminalsOwned
  BY DEF Init, RegistryInit, NoKey, TerminalsOwned
<1>3. CallsAllowed /\ AnswersTrue
  BY DEF Init, RegistryInit, NoCall, CallsAllowed, CallAllowed, AnswersTrue, AnswerTrue
<1>4. WorkersSound
  BY DEF Init, NoWork, WorkersSound, WorkerSound
<1>5. ProfileIsRegistered /\ TrustIsRegistered
  BY DEF Init, ProfileIsRegistered, TrustIsRegistered
<1>6. QED
  BY <1>1, <1>2, <1>3, <1>4, <1>5 DEF EnrollmentInv

LEMMA InvariantPreserved == EnrollmentInv /\ [Next]_vars => EnrollmentInv'
<1> SUFFICES ASSUME EnrollmentInv, [Next]_vars PROVE EnrollmentInv'
  OBVIOUS
<1>1. Steady
  BY EveryStepIsSteady
<1>2. EnrollmentTypeOK' /\ TerminalsOwned' /\ CallsAllowed' /\ AnswersTrue' /\ WorkersSound'
      /\ ProfileIsRegistered' /\ TrustIsRegistered'
  BY <1>1, TypeOfStep, TerminalsOwnedPreserved, CallsPreserved, WorkersPreserved,
     ProfilesPreserved, TrustPreserved
<1>3. QED
  BY <1>2 DEF EnrollmentInv

\* However the presses of the button, the registrations and the stops interleave,
\* a till that has a profile has the key that the backend registered for it.
THEOREM ProfilesAreRegistered == Spec => []ProfileIsRegistered
<1>1. Init => EnrollmentInv
  BY InvariantInitially
<1>2. EnrollmentInv /\ [Next]_vars => EnrollmentInv'
  BY InvariantPreserved
<1>3. EnrollmentInv => ProfileIsRegistered
  BY DEF EnrollmentInv
<1>4. QED
  BY <1>1, <1>2, <1>3, PTL DEF Spec

\* A till never trusts a wallet key that the registry does not have.
THEOREM TrustedKeysAreRegistered == Spec => []TrustIsRegistered
<1>1. Init => EnrollmentInv
  BY InvariantInitially
<1>2. EnrollmentInv /\ [Next]_vars => EnrollmentInv'
  BY InvariantPreserved
<1>3. EnrollmentInv => TrustIsRegistered
  BY DEF EnrollmentInv
<1>4. QED
  BY <1>1, <1>2, <1>3, PTL DEF Spec

\* No step, of any worker or thread, binds the name of a key or a terminal anew or
\* undoes a revocation.
THEOREM BindingsStay == Spec => BindingsAreForever
<1>1. Init => EnrollmentInv
  BY InvariantInitially
<1>2. EnrollmentInv /\ [Next]_vars => EnrollmentInv'
  BY InvariantPreserved
<1>3. EnrollmentInv /\ [Next]_vars =>
        [/\ \A k \in KeyIds : Registered(k) =>
               keys'[k] \in {keys[k], [keys[k] EXCEPT !.revoked = TRUE]}
         /\ \A t \in Terminals : terminals[t] # "nobody" => terminals'[t] = terminals[t]]_vars
  BY EveryStepIsSteady DEF Steady
<1>4. QED
  BY <1>1, <1>2, <1>3, PTL DEF Spec, BindingsAreForever
=============================================================================
