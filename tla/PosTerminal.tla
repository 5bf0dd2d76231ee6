---------------------------- MODULE PosTerminal ----------------------------
(***************************************************************************)
(* The terminal's side of an offline payment: pos_desktop/service.py over  *)
(* the table operations of pos_desktop/database.py.                        *)
(*                                                                         *)
(* The merchant creates a request, a phone comes near and receives it, its *)
(* holder confirms and signs a receipt, and at a second approach the       *)
(* terminal stores authorization and receipt, signs an acknowledgement,    *)
(* and hands it to the phone.  Any exchange may break at any point, and    *)
(* the merchant may start it again, also with another phone.               *)
(*                                                                         *)
(* Concurrency.  Each button of the window starts a worker of a thread     *)
(* pool (ui.py), so two exchanges may run over one operation.  Every       *)
(* statement on the database is a transaction of its own: it is one step   *)
(* here, and so is every exchange with the phone.  worker[w] is what a     *)
(* worker carries between its steps.  The end of the process is that all   *)
(* its workers give up.                                                    *)
(***************************************************************************)
EXTENDS Naturals

CONSTANTS
    Ops,      \* operation identifiers (uuid4)
    Phones,   \* Android wallets that come near the reader
    Trusted,  \* the phones whose authorization a trusted issuer signed
    Nobody,   \* no phone
    Workers,  \* threads of the window's pool
    Stamps    \* tells two signatures of acknowledgements apart

ASSUME TerminalAssumption == Trusted \subseteq Phones /\ Nobody \notin Phones

VARIABLES
    row,      \* the table operations
    expired,  \* operations whose expires_at has passed
    phone,    \* per phone and operation: nothing, the request, or a signed receipt
    held,     \* per phone and operation: the acknowledgement it stored
    worker    \* what each worker carries

vars == <<row, expired, phone, held, worker>>

----------------------------------------------------------------------------
(* Rows.  A phone signs one receipt of an operation, bound to one of its   *)
(* authorizations: both are named by the phone.                            *)

NoAck == [of |-> Nobody]

Acks == [of : Phones, at : Stamps]

Open == {"REQUEST_DELIVERED", "WAITING_CONFIRMATION"}

Reported == {"SYNCED", "REJECTED", "CONFLICT"}

OpenRows == [state : {"NONE", "REQUEST_CREATED"} \cup Open, grant : Phones \cup {Nobody},
             receipt : {Nobody}, ack : {NoAck}]

AcceptedRows == [state : {"LOCALLY_ACCEPTED"} \cup Reported, grant : Phones,
                 receipt : Phones, ack : Acks]

Idle == [step |-> "idle"]

Frames == {Idle}
    \cup [step : {"deliver", "mark", "wait", "fetch", "verify"}, op : Ops, phone : Phones]
    \cup [step : {"collect"}, op : Ops, phone : Phones, ack : Acks \cup {NoAck}]
    \cup [step : {"store", "send"}, op : Ops, phone : Phones, ack : Acks]

Init ==
    /\ row = [op \in Ops |-> [state |-> "NONE", grant |-> Nobody, receipt |-> Nobody, ack |-> NoAck]]
    /\ expired = {}
    /\ phone = [p \in Phones |-> [op \in Ops |-> "nothing"]]
    /\ held = [p \in Phones |-> [op \in Ops |-> NoAck]]
    /\ worker = [w \in Workers |-> Idle]

Become(w, frame) == worker' = [worker EXCEPT ![w] = frame]

\* Worker w goes on to a step of the exchange it is in.
Continue(w, step) == Become(w, [step |-> step, op |-> worker[w].op, phone |-> worker[w].phone])

----------------------------------------------------------------------------
(* First approach: the request.                                            *)

Create(op) ==
    /\ row[op].state = "NONE"
    /\ row' = [row EXCEPT ![op].state = "REQUEST_CREATED"]
    /\ UNCHANGED <<expired, phone, held, worker>>

\* The window offers the delivery of an operation it read as REQUEST_CREATED.
StartDelivery(w, op, p) ==
    /\ worker[w] = Idle
    /\ row[op].state = "REQUEST_CREATED"
    /\ Become(w, [step |-> "deliver", op |-> op, phone |-> p])
    /\ UNCHANGED <<row, expired, phone, held>>

PutRequest(w) ==
    LET f == worker[w] IN
    /\ f.step = "deliver"
    /\ phone' = [phone EXCEPT ![f.phone][f.op] = IF @ = "nothing" THEN "request" ELSE @]
    /\ Continue(w, "mark")
    /\ UNCHANGED <<row, expired, held>>

\* MUTANT: the UPDATE has no condition on the state
TransitionUnchecked(op, allowed, state) == row' = [row EXCEPT ![op].state = state]

\* _transition: the row changes only from an allowed state; otherwise it raises.
Transition(op, allowed, state) ==
    row' = [row EXCEPT ![op].state = IF @ \in allowed THEN state ELSE @]

MarkDelivered(w) ==
    /\ worker[w].step = "mark"
    /\ Transition(worker[w].op, {"REQUEST_CREATED", "REQUEST_DELIVERED"}, "REQUEST_DELIVERED")
    /\ Become(w, Idle)
    /\ UNCHANGED <<expired, phone, held>>

\* The holder of the phone confirms while the request is in force.
Confirm(p, op) ==
    /\ phone[p][op] = "request"
    /\ op \notin expired
    /\ phone' = [phone EXCEPT ![p][op] = "receipt"]
    /\ UNCHANGED <<row, expired, held, worker>>

----------------------------------------------------------------------------
(* Second approach: authorization, receipt and acknowledgement.            *)

\* MUTANT: the stored ack is only sent before the operation is reported
StoredAckBeforeReport(op) ==
    IF row[op].state = "LOCALLY_ACCEPTED" THEN row[op].ack ELSE NoAck

StoredAck(op) == row[op].ack

\* The operation is read once, before the exchange.
StartCollection(w, op, p) ==
    /\ worker[w] = Idle
    /\ row[op].state # "NONE"
    /\ Become(w, [step |-> "collect", op |-> op, phone |-> p, ack |-> StoredAck(op)])
    /\ UNCHANGED <<row, expired, phone, held>>

\* A row that had no ack when it was read: ask the phone how far it is.  The phone
\* may repeat an answer that it gave before its holder confirmed (NfcExchange).
GetStatus(w) ==
    LET f == worker[w] IN
    /\ f.step = "collect"
    /\ f.ack = NoAck
    /\ phone[f.phone][f.op] # "nothing"
    /\ \/ phone[f.phone][f.op] = "receipt" /\ Continue(w, "fetch")
       \/ Continue(w, "wait")
    /\ UNCHANGED <<row, expired, phone, held>>

MarkWaiting(w) ==
    /\ worker[w].step = "wait"
    /\ Transition(worker[w].op, Open, "WAITING_CONFIRMATION")
    /\ Become(w, Idle)
    /\ UNCHANGED <<expired, phone, held>>

\* MUTANT: an authorization stored before is overwritten
GrantStorableAgain(r, p) == r.state \in Open

GrantStorable(r, p) == r.state \in Open /\ r.grant \in {Nobody, p}

\* set_authorization: before anything of the authorization is verified.
StoreGrant(w) ==
    LET f == worker[w] IN
    /\ f.step = "fetch"
    /\ IF GrantStorable(row[f.op], f.phone)
       THEN /\ row' = [row EXCEPT ![f.op].grant = f.phone]
            /\ Continue(w, "verify")
       ELSE Become(w, Idle) /\ UNCHANGED row
    /\ UNCHANGED <<expired, phone, held>>

\* Every signature is different, even of the same content.
Fresh(op, ack) ==
    /\ row[op].ack # ack
    /\ \A w \in Workers : worker[w].step = "store" /\ worker[w].op = op => worker[w].ack # ack

SignAck(w) ==
    LET f == worker[w] IN
    /\ f.step = "verify"
    /\ f.phone \in Trusted
    /\ f.op \notin expired
    /\ \E ack \in Acks :
        /\ ack.of = f.phone
        /\ Fresh(f.op, ack)
        /\ Become(w, [step |-> "store", op |-> f.op, phone |-> f.phone, ack |-> ack])
    /\ UNCHANGED <<row, expired, phone, held>>

\* MUTANT: evidence stored before is replaced by the later one
AcceptableAgain(r) == r.state \in Open \cup {"LOCALLY_ACCEPTED"}

Acceptable(r) == r.receipt = Nobody /\ r.state \in Open

\* accept_receipt_and_ack: both envelopes and the state in one transaction; it
\* raises when the row has other evidence already.
StoreAck(w) ==
    LET f == worker[w] IN
    /\ f.step = "store"
    /\ IF Acceptable(row[f.op])
       THEN /\ row' = [row EXCEPT ![f.op].state = "LOCALLY_ACCEPTED",
                                  ![f.op].receipt = f.phone, ![f.op].ack = f.ack]
            /\ Become(w, [f EXCEPT !.step = "send"])
       ELSE Become(w, Idle) /\ UNCHANGED row
    /\ UNCHANGED <<expired, phone, held>>

\* The phone takes the ack of the receipt it signed, and only one.
PutAck(w) ==
    LET f == worker[w] IN
    /\ f.step \in {"collect", "send"}
    /\ f.ack # NoAck
    /\ Become(w, Idle)
    /\ held' = [held EXCEPT ![f.phone][f.op] = IF f.ack.of = f.phone /\ @ = NoAck THEN f.ack ELSE @]
    /\ UNCHANGED <<row, expired, phone>>

----------------------------------------------------------------------------
(* Environment.                                                            *)

\* The phone leaves the field, refuses, or the verification fails.
GiveUp(w) ==
    /\ worker[w] # Idle
    /\ Become(w, Idle)
    /\ UNCHANGED <<row, expired, phone, held>>

Expire(op) ==
    /\ row[op].state # "NONE"
    /\ op \notin expired
    /\ expired' = expired \cup {op}
    /\ UNCHANGED <<row, phone, held, worker>>

\* The synchronisation reports the operation (PosSync).
Report(op, outcome) ==
    /\ row[op].state = "LOCALLY_ACCEPTED"
    /\ row' = [row EXCEPT ![op].state = outcome]
    /\ UNCHANGED <<expired, phone, held, worker>>

Exchange(w) ==
    \/ PutRequest(w)
    \/ MarkDelivered(w)
    \/ GetStatus(w)
    \/ MarkWaiting(w)
    \/ StoreGrant(w)
    \/ SignAck(w)
    \/ StoreAck(w)
    \/ PutAck(w)

Next ==
    \/ \E op \in Ops : Create(op) \/ Expire(op)
    \/ \E op \in Ops, outcome \in Reported : Report(op, outcome)
    \/ \E w \in Workers, op \in Ops, p \in Phones : StartDelivery(w, op, p) \/ StartCollection(w, op, p)
    \/ \E p \in Phones, op \in Ops : Confirm(p, op)
    \/ \E w \in Workers : Exchange(w) \/ GiveUp(w)

Spec == Init /\ [][Next]_vars

\* The customer brings the phone that signed near again and again, until one
\* exchange is not interrupted; a worker ends.
Fairness ==
    /\ \A w \in Workers : WF_vars(Exchange(w) \/ GiveUp(w))
    /\ \A op \in Ops, p \in Trusted :
        /\ SF_vars(\E w \in Workers : row[op].ack.of = p /\ StartCollection(w, op, p))
        /\ SF_vars(\E w \in Workers : PutAck(w) /\ worker[w].op = op /\ worker[w].phone = p)

FairSpec == Spec /\ Fairness

----------------------------------------------------------------------------
(* Properties.                                                             *)

\* Evidence is in a row completely or not at all, and a row that has none is not
\* past its acceptance (accept_receipt_and_ack).
TerminalTypeOK ==
    /\ row \in [Ops -> OpenRows \cup AcceptedRows]
    /\ expired \subseteq Ops
    /\ phone \in [Phones -> [Ops -> {"nothing", "request", "receipt"}]]
    /\ held \in [Phones -> [Ops -> Acks \cup {NoAck}]]
    /\ worker \in [Workers -> Frames]

\* The authorization, the receipt and the ack of an accepted operation belong
\* together and to a trusted phone, although they are stored by separate
\* statements and two exchanges may be under way (collect_receipt).
EvidenceIsOfOneGrant ==
    \A op \in Ops :
        row[op].receipt # Nobody =>
            /\ row[op].receipt = row[op].grant
            /\ row[op].receipt = row[op].ack.of
            /\ row[op].receipt \in Trusted
            /\ phone[row[op].receipt][op] = "receipt"

\* No phone ever holds an ack that is not the one in the terminal's row, so of one
\* operation a single receipt is acknowledged, and by a single ack: what the
\* backend's ledger relies on (accept_receipt_and_ack before _send_ack).
OneAckPerOperation ==
    \A p \in Phones, op \in Ops : held[p][op] # NoAck => held[p][op] = row[op].ack

\* Accepted evidence is never replaced, and an operation never leaves its
\* acceptance except to be reported, whatever a slower exchange still writes.
AcceptanceStays ==
    [][\A op \in Ops :
        row[op].receipt # Nobody =>
            /\ row'[op].receipt = row[op].receipt
            /\ row'[op].ack = row[op].ack
            /\ row'[op].grant = row[op].grant
            /\ row'[op].state # row[op].state =>
                 row[op].state = "LOCALLY_ACCEPTED" /\ row'[op].state \in Reported]_row

\* The phone that signed the accepted receipt ends up with its ack, also when the
\* terminal stopped before it was sent or has reported the operation meanwhile.
AckReachesPhone ==
    \A op \in Ops, p \in Trusted :
        (row[op].ack.of = p) ~> (held[p][op] # NoAck)
=============================================================================
