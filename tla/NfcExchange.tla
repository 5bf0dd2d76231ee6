---------------------------- MODULE NfcExchange ----------------------------
(***************************************************************************)
(* The exchanges of PosTerminal, APDU by APDU: pos_desktop/service.py over *)
(* a transport, and the phone as pos_desktop/simulator.py answers.         *)
(*                                                                         *)
(* A message travels in fragments.  The phone collects the fragments of a  *)
(* request and of an ack in one list each, whoever sends them, and repeats *)
(* its answer to an APDU that it has seen in the connection; the end of a  *)
(* connection clears both, for all connections.  The module shows that the *)
(* terminal may nevertheless be described as PosTerminal does, where an    *)
(* exchange is one step: it adds variables and hides nothing, so the       *)
(* refinement mapping is the identity.                                     *)
(***************************************************************************)
EXTENDS PosTerminal, Sequences, FiniteSets

CONSTANTS
    Size,     \* number of fragments of each kind of message
    MaxReads, \* fragments that the terminal reads before it gives up
    Scenes    \* sets of encounters: which worker may meet which phone over which operation

Kinds == {"request", "grant", "receipt", "ack"}

ASSUME ExchangeAssumption ==
    /\ Size \in [Kinds -> Nat \ {0}]
    /\ MaxReads \in Nat /\ \A kind \in Kinds : Size[kind] <= MaxReads
    /\ Scenes \subseteq SUBSET (Workers \X Ops \X Phones)

VARIABLES
    link,    \* the connection of each worker and the fragments exchanged of a message
    parts,   \* per phone: the fragments it collects of a request and of an ack
    cache,   \* per phone: the APDUs it answered, with the answers
    scene    \* the encounters of this behaviour

linkVars == <<link, parts, cache>>

nfcVars == <<vars, linkVars, scene>>

NoLink == [to |-> Nobody]

Requests == [kind : {"request"}, op : Ops]
AckMessages == [kind : {"ack"}, op : Ops, ack : Acks]
Parts == [of : Requests \cup AckMessages, at : Nat \ {0}]

\* An answer without a body, a refusal, and the states that a body reports.
Answers == {"more", "bad", "nothing", "request", "receipt", "stored"}

\* Instruction, sequence number and data; the APDUs that read evidence are left
\* out, because the answer to them never changes once there is one.
Apdus == Parts \cup [status : Ops]

NfcInit ==
    /\ Init
    /\ link = [w \in Workers |-> NoLink]
    /\ parts = [p \in Phones |-> [kind \in {"request", "ack"} |-> <<>>]]
    /\ cache = [p \in Phones |-> {}]
    /\ scene \in Scenes

----------------------------------------------------------------------------
(* The phone.                                                              *)

\* MUTANT: the fragments are not checked against each other
WholeUnsigned(list) == Len(list) = Size[list[1].of.kind]

\* The fragments are those of one message, as the signature over it requires.
Whole(list) ==
    \A i \in DOMAIN list : list[i] = [of |-> list[1].of, at |-> i]

\* A request is stored unless the phone has it.
TakeRequest(p, op) ==
    /\ phone' = [phone EXCEPT ![p][op] = IF @ = "nothing" THEN "request" ELSE @]
    /\ UNCHANGED held

\* An ack is stored if it is bound to the receipt that the phone signed, and no
\* other one is there.
AckFits(p, m) ==
    phone[p][m.op] = "receipt" /\ m.ack.of = p /\ held[p][m.op] \in {NoAck, m.ack}

TakeAck(p, m) ==
    /\ held' = [held EXCEPT ![p][m.op] = m.ack]
    /\ UNCHANGED phone

Collect(p, kind, list) == parts' = [parts EXCEPT ![p][kind] = list]

\* _accept_fragment.
AcceptFragment(p, x, answer) ==
    LET kind == x.of.kind
        list == Append(parts[p][kind], x)
        m == list[1].of
    IN
    \/ /\ x.at # Len(list)
       /\ answer = "bad" /\ UNCHANGED <<parts, phone, held>>
    \/ /\ x.at = Len(list) /\ x.at < Size[kind]
       /\ Collect(p, kind, list)
       /\ answer = "more" /\ UNCHANGED <<phone, held>>
    \/ /\ x.at = Len(list) /\ x.at = Size[kind]
       /\ Collect(p, kind, <<>>)
       /\ \/ Whole(list) /\ kind = "request"
             /\ TakeRequest(p, m.op) /\ answer = "request"
          \/ Whole(list) /\ kind = "ack" /\ AckFits(p, m)
             /\ TakeAck(p, m) /\ answer = "stored"
          \/ ~(Whole(list) /\ (kind = "request" \/ AckFits(p, m)))
             /\ answer = "bad" /\ UNCHANGED <<phone, held>>

\* MUTANT: answers are kept for the next connection
ClearFragmentsOnly(p) ==
    /\ parts' = [parts EXCEPT ![p] = [kind \in {"request", "ack"} |-> <<>>]]
    /\ UNCHANGED cache

\* The end of a connection, whichever it is.
Clear(p) ==
    /\ parts' = [parts EXCEPT ![p] = [kind \in {"request", "ack"} |-> <<>>]]
    /\ cache' = [cache EXCEPT ![p] = {}]

\* transceive: an APDU that was answered is answered the same.
Known(p, apdu) == \E e \in cache[p] : e.apdu = apdu

Repeated(p, apdu, answer) ==
    /\ [apdu |-> apdu, answer |-> answer] \in cache[p]
    /\ UNCHANGED <<parts, cache, phone, held>>

Remember(p, apdu, answer) ==
    cache' = [cache EXCEPT ![p] = @ \cup {[apdu |-> apdu, answer |-> answer]}]

TransmitPart(p, x, answer) ==
    \/ Repeated(p, x, answer)
    \/ ~Known(p, x) /\ AcceptFragment(p, x, answer) /\ Remember(p, x, answer)

TransmitStatus(p, op, answer) ==
    \/ Repeated(p, [status |-> op], answer)
    \/ /\ ~Known(p, [status |-> op])
       /\ answer = phone[p][op]
       /\ Remember(p, [status |-> op], answer)
       /\ UNCHANGED <<parts, phone, held>>

----------------------------------------------------------------------------
(* The terminal.                                                           *)

Advance(w) == link' = [link EXCEPT ![w].next = @ + 1]
Rewind(w) == link' = [link EXCEPT ![w].next = 0]

Connect(w, p) ==
    /\ link[w] = NoLink
    /\ link' = [link EXCEPT ![w] = [to |-> p, next |-> 0]]
    /\ UNCHANGED <<parts, cache>>

NfcStartDelivery(w, op, p) ==
    <<w, op, p>> \in scene /\ Connect(w, p) /\ StartDelivery(w, op, p)

NfcStartCollection(w, op, p) ==
    <<w, op, p>> \in scene /\ Connect(w, p) /\ StartCollection(w, op, p)

\* The next fragment of a message.  The exchange goes on with frame when the last
\* one is answered as expected; any other answer ends it.
SendPart(w, m, expected, frame) ==
    \E answer \in Answers :
        /\ TransmitPart(worker[w].phone, [of |-> m, at |-> link[w].next + 1], answer)
        /\ IF link[w].next + 1 < Size[m.kind] /\ answer = "more"
           THEN Advance(w) /\ UNCHANGED worker
           ELSE /\ Become(w, IF link[w].next + 1 = Size[m.kind] /\ answer = expected
                             THEN frame ELSE Idle)
                /\ UNCHANGED link
        /\ UNCHANGED <<row, expired>>

\* deliver_request.
SendRequest(w) ==
    LET f == worker[w] IN
    /\ f.step = "deliver"
    /\ SendPart(w, [kind |-> "request", op |-> f.op], "request", [f EXCEPT !.step = "mark"])

\* _send_ack.
SendAck(w) ==
    LET f == worker[w] IN
    /\ f.step \in {"collect", "send"} /\ f.ack # NoAck
    /\ SendPart(w, [kind |-> "ack", op |-> f.op, ack |-> f.ack], "stored", Idle)

\* _get_status.  A phone that does not know the operation answers with an error.
AskStatus(w) ==
    LET f == worker[w] IN
    /\ f.step = "collect" /\ f.ack = NoAck
    /\ \E answer \in Answers :
        /\ TransmitStatus(f.phone, f.op, answer)
        /\ \/ answer = "receipt" /\ Continue(w, "fetch")
           \/ answer = "request" /\ Continue(w, "wait")
           \/ answer \notin {"receipt", "request"} /\ Become(w, Idle)
    /\ UNCHANGED <<row, expired, link>>

\* _read_fragmented: at most 26 fragments.
Readable(w) == link[w].next < MaxReads

\* What the two steps that read evidence read.
Evidence(step) == IF step = "fetch" THEN "grant" ELSE "receipt"

ReadPart(w) ==
    /\ worker[w].step \in {"fetch", "verify"}
    /\ link[w].next < Size[Evidence(worker[w].step)]
    /\ Readable(w)
    /\ Advance(w)
    /\ UNCHANGED <<vars, parts, cache>>

HasRead(w) ==
    worker[w].step \in {"fetch", "verify"} => link[w].next = Size[Evidence(worker[w].step)]

\* The statements on the database, and the signature.
Record(w) ==
    /\ MarkDelivered(w) \/ MarkWaiting(w) \/ StoreGrant(w) \/ SignAck(w) \/ StoreAck(w)
    /\ HasRead(w)
    /\ Rewind(w)
    /\ UNCHANGED <<parts, cache>>

\* The phone leaves the field or refuses.
Break(w) == GiveUp(w) /\ UNCHANGED linkVars

\* collect_receipt raises on an authorization of another issuer, which is stored by
\* then, and on a receipt of a request that has expired.
Refuse(w) ==
    /\ worker[w].step = "verify" /\ HasRead(w)
    /\ worker[w].phone \notin Trusted \/ worker[w].op \in expired
    /\ Break(w)

\* Every exchange ends with the end of its connection.
Close(w) ==
    /\ worker[w] = Idle /\ link[w] # NoLink
    /\ Clear(link[w].to)
    /\ link' = [link EXCEPT ![w] = NoLink]
    /\ UNCHANGED vars

NfcStep(w) ==
    SendRequest(w) \/ SendAck(w) \/ AskStatus(w) \/ ReadPart(w) \/ Record(w) \/ Refuse(w)

\* The report of an operation is PosTerminal's: it changes the state of a row that is
\* accepted, and an exchange asks only whether the row is open and for its ack.
NfcMove ==
    \/ \E op \in Ops : (Create(op) \/ Expire(op)) /\ UNCHANGED linkVars
    \/ \E w \in Workers, op \in Ops, p \in Phones :
          NfcStartDelivery(w, op, p) \/ NfcStartCollection(w, op, p)
    \/ \E p \in Phones, op \in Ops : Confirm(p, op) /\ UNCHANGED linkVars
    \/ \E w \in Workers : NfcStep(w) \/ Break(w) \/ Close(w)

NfcNext == NfcMove /\ UNCHANGED scene

NfcSpec == NfcInit /\ [][NfcNext]_nfcVars

\* A worker ends (weak).  A trusted phone of the scene is brought near again and
\* again, and a request that is not marked as delivered is resumed from the history,
\* whatever else is done in between (strong).
NfcFairness ==
    /\ \A w \in Workers :
        /\ WF_nfcVars((NfcStep(w) \/ Break(w)) /\ UNCHANGED scene)
        /\ WF_nfcVars(Close(w) /\ UNCHANGED scene)
    /\ \A op \in Ops, p \in Trusted :
        /\ SF_nfcVars((\E w \in Workers : NfcStartDelivery(w, op, p)) /\ UNCHANGED scene)
        /\ SF_nfcVars((\E w \in Workers : NfcStartCollection(w, op, p)) /\ UNCHANGED scene)

NfcFairSpec == NfcSpec /\ NfcFairness

----------------------------------------------------------------------------
(* Properties.                                                             *)

\* Fragment by fragment, with answers repeated and connections cleared by others,
\* an exchange still does what PosTerminal says in one step: a phone stores the
\* request or the ack that one worker sent, whole, and a worker goes on only after
\* the phone has it (deliver_request, _send_ack, _accept_fragment).
ExchangeIsAtomic == Spec

\* No two connections overlap any more, and none breaks; a refusal or a last
\* statement that changes no row also ends an exchange, and is no break.
Calm ==
    /\ <>[](Cardinality({w \in Workers : link[w] # NoLink}) <= 1)
    /\ <>[][\A w \in Workers : Break(w) => NfcStep(w)]_nfcVars

\* A receipt of op that no exchange can acknowledge: its request has expired, or an
\* authorization of another issuer is stored, which set_authorization never replaces.
Lost(op) == row[op].ack = NoAck /\ (op \in expired \/ row[op].grant \in Phones \ Trusted)

\* Once connections neither overlap nor break, whatever fragments and answers earlier
\* ones left at the phone: a receipt that a trusted phone signed is acknowledged and
\* the ack reaches it, unless the receipt is lost before it is; once there is an ack,
\* an expiry does not keep it from the phone (collect_receipt).
SignedIsAcknowledged ==
    Calm =>
        \A op \in Ops, p \in Trusted :
            phone[p][op] = "receipt" ~> held[p][op] # NoAck \/ Lost(op)
=============================================================================
