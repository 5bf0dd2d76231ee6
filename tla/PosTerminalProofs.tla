------------------------- MODULE PosTerminalProofs -------------------------
(***************************************************************************)
(* The evidence of an operation is of one phone and one acknowledgement,   *)
(* for any number of phones, workers and operations.                       *)
(*                                                                         *)
(* The types of the rows are not inductive alone: that an accepted row has *)
(* an authorization depends on what the workers carry.                     *)
(*                                                                         *)
(* The last part shows that the exchanges of NfcExchange, fragment by      *)
(* fragment, implement those of PosTerminal, for messages of any length:   *)
(* what is proved of the terminal holds of its exchanges, too.             *)
(***************************************************************************)
EXTENDS NfcExchange, TLAPS

----------------------------------------------------------------------------
(* Frames and rows.                                                        *)

\* What a worker carries at each step of its exchange.
LEMMA FrameFields ==
  ASSUME NEW f \in Frames, f.step # "idle"
  PROVE  /\ f.op \in Ops /\ f.phone \in Phones
         /\ f.step = "collect" => f.ack \in Acks \cup {NoAck}
         /\ f.step \in {"store", "send"} => f.ack \in Acks
BY DEF Frames, Idle

\* The frames that the steps of an exchange leave behind.
LEMMA FrameTypes ==
  ASSUME NEW op \in Ops, NEW p \in Phones
  PROVE  /\ \A step \in {"deliver", "mark", "wait", "fetch", "verify"} :
              [step |-> step, op |-> op, phone |-> p] \in Frames
         /\ \A ack \in Acks \cup {NoAck} :
              [step |-> "collect", op |-> op, phone |-> p, ack |-> ack] \in Frames
         /\ \A ack \in Acks : \A step \in {"store", "send"} :
              [step |-> step, op |-> op, phone |-> p, ack |-> ack] \in Frames
BY DEF Frames, Idle

\* An ack is of a phone, so it is not the absence of one.
LEMMA AckIsOfPhone == NoAck \notin Acks /\ \A ack \in Acks : ack.of \in Phones /\ ack # NoAck
BY TerminalAssumption DEF NoAck, Acks, TerminalAssumption

\* The two shapes of a row.
LEMMA RowFields ==
  ASSUME NEW r \in OpenRows \cup AcceptedRows
  PROVE  /\ r \in OpenRows => r.receipt = Nobody /\ r.ack = NoAck /\ r.grant \in Phones \cup {Nobody}
         /\ r \in AcceptedRows => /\ r.receipt \in Phones /\ r.receipt # Nobody
                                  /\ r.ack \in Acks /\ r.grant \in Phones
         /\ r.state \in {"NONE", "REQUEST_CREATED"} \cup Open => r \in OpenRows
         /\ r.state \in {"LOCALLY_ACCEPTED"} \cup Reported => r \in AcceptedRows
BY TerminalAssumption DEF OpenRows, AcceptedRows, Open, Reported, TerminalAssumption

----------------------------------------------------------------------------
(* The inductive invariant.                                                *)

\* From the moment it stored the authorization, a worker carries evidence that
\* agrees with the row and with the phone it came from.
Agrees(f, rows, phones) ==
    /\ f.step \in {"fetch", "verify", "store"} => phones[f.phone][f.op] = "receipt"
    /\ f.step \in {"verify", "store"} => rows[f.op].grant = f.phone
    /\ f.step = "store" => f.ack.of = f.phone /\ f.phone \in Trusted
    /\ f.step \in {"collect", "send"} /\ f.ack # NoAck => f.ack = rows[f.op].ack

WorkersCarry == \A w \in Workers : Agrees(worker[w], row, phone)

TInv == TerminalTypeOK /\ WorkersCarry /\ EvidenceIsOfOneGrant /\ OneAckPerOperation

----------------------------------------------------------------------------
(* What one step makes of a row.                                           *)

\* An open row stays open and keeps its authorization;
StaysOpen(r, s) == /\ r \in OpenRows /\ s \in OpenRows
                   /\ r.grant # Nobody => s.grant = r.grant

\* or it is accepted with evidence of its authorization,
Accepts(op, r, s) == /\ r \in OpenRows /\ s \in AcceptedRows
                     /\ s.grant = r.grant /\ s.receipt = r.grant /\ s.ack.of = r.grant
                     /\ r.grant \in Trusted
                     /\ phone[r.grant][op] = "receipt"

\* and an accepted row is only reported.
Reports(r, s) == /\ r \in AcceptedRows /\ s \in AcceptedRows
                 /\ s.grant = r.grant /\ s.receipt = r.receipt /\ s.ack = r.ack
                 /\ s.state # r.state => r.state = "LOCALLY_ACCEPTED" /\ s.state \in Reported

RowMoves(op) == \/ StaysOpen(row[op], row'[op])
                \/ Accepts(op, row[op], row'[op])
                \/ Reports(row[op], row'[op])

\* A row that a step leaves alone has moved, too.
LEMMA RowStays ==
  ASSUME NEW op \in Ops, row[op] \in OpenRows \cup AcceptedRows, row'[op] = row[op]
  PROVE  RowMoves(op)
BY DEF RowMoves, StaysOpen, Reports

\* A change of state from an open state to another.
LEMMA RowTransition ==
  ASSUME NEW r \in OpenRows, NEW state \in {"REQUEST_CREATED"} \cup Open
  PROVE  StaysOpen(r, [r EXCEPT !.state = state])
BY DEF OpenRows, StaysOpen

\* An authorization stored over none or over itself.
LEMMA RowGranted ==
  ASSUME NEW r \in OpenRows, NEW p \in Phones, r.grant \in {Nobody, p}
  PROVE  StaysOpen(r, [r EXCEPT !.grant = p])
BY DEF OpenRows, StaysOpen

\* Evidence stored with its acceptance.
LEMMA RowAccepted ==
  ASSUME NEW op \in Ops, NEW r \in OpenRows, NEW ack \in Acks,
         r.grant \in Trusted, ack.of = r.grant, phone[r.grant][op] = "receipt"
  PROVE  Accepts(op, r, [r EXCEPT !.state = "LOCALLY_ACCEPTED", !.receipt = r.grant, !.ack = ack])
<1> DEFINE s == [r EXCEPT !.state = "LOCALLY_ACCEPTED", !.receipt = r.grant, !.ack = ack]
<1>1. r.grant \in Phones
  BY TerminalAssumption DEF TerminalAssumption
<1>2. s \in [state : {"LOCALLY_ACCEPTED"}, grant : {r.grant}, receipt : {r.grant}, ack : {ack}]
  BY DEF OpenRows
<1>3. /\ s.grant = r.grant /\ s.receipt = r.grant /\ s.ack = ack
      /\ s \in AcceptedRows
  BY <1>1, <1>2 DEF AcceptedRows
<1> HIDE DEF s
<1>4. Accepts(op, r, s)
  BY <1>3 DEF Accepts
<1>5. QED
  BY <1>4 DEF s

\* The outcome of a report.
LEMMA RowReported ==
  ASSUME NEW r \in AcceptedRows, r.state = "LOCALLY_ACCEPTED", NEW outcome \in Reported
  PROVE  Reports(r, [r EXCEPT !.state = outcome])
BY DEF AcceptedRows, Reports

\* Every step moves every row in one of these ways.
LEMMA RowsMove == TInv /\ [Next]_vars => \A op \in Ops : RowMoves(op)
<1> SUFFICES ASSUME TInv, [Next]_vars, NEW o \in Ops PROVE RowMoves(o)
  OBVIOUS
<1>1. /\ row \in [Ops -> OpenRows \cup AcceptedRows] /\ worker \in [Workers -> Frames]
      /\ WorkersCarry
  BY DEF TInv, TerminalTypeOK
<1>2. ASSUME row'[o] = row[o] PROVE RowMoves(o)
  BY <1>1, <1>2, RowStays
<1>3. ASSUME NEW op \in Ops, Create(op) PROVE RowMoves(o)
  <2>1. row[op] \in OpenRows /\ row' = [row EXCEPT ![op] = [row[op] EXCEPT !.state = "REQUEST_CREATED"]]
    BY <1>1, <1>3, RowFields DEF Create
  <2>2. CASE o = op
    BY <1>1, <2>1, <2>2, RowTransition DEF RowMoves
  <2>3. QED
    BY <1>1, <1>2, <2>1, <2>2
<1>4. ASSUME NEW op \in Ops, NEW outcome \in Reported, Report(op, outcome) PROVE RowMoves(o)
  <2>1. row[op] \in AcceptedRows /\ row' = [row EXCEPT ![op] = [row[op] EXCEPT !.state = outcome]]
    BY <1>1, <1>4, RowFields DEF Report
  <2>2. CASE o = op
    BY <1>1, <1>4, <2>1, <2>2, RowReported DEF RowMoves, Report
  <2>3. QED
    BY <1>1, <1>2, <2>1, <2>2
<1>5. ASSUME NEW op \in Ops, NEW allowed \in SUBSET ({"REQUEST_CREATED"} \cup Open),
             NEW state \in Open, Transition(op, allowed, state)
      PROVE  RowMoves(o)
  <2>1. row' = [row EXCEPT ![op] = [row[op] EXCEPT
                   !.state = IF row[op].state \in allowed THEN state ELSE row[op].state]]
    BY <1>5 DEF Transition
  <2>2. CASE o = op /\ row[op].state \in allowed
    <3>1. row[op] \in OpenRows
      BY <1>1, <2>2, RowFields
    <3>2. row'[op] = [row[op] EXCEPT !.state = state]
      BY <1>1, <2>1, <2>2
    <3>3. QED
      BY <2>2, <3>1, <3>2, RowTransition DEF RowMoves
  <2>3. CASE ~(o = op /\ row[op].state \in allowed)
    <3>1. [row[op] EXCEPT !.state = row[op].state] = row[op]
      BY <1>1 DEF OpenRows, AcceptedRows
    <3>2. QED
      BY <1>1, <1>2, <2>1, <2>3, <3>1
  <2>4. QED
    BY <2>2, <2>3
<1>6. ASSUME NEW w \in Workers, StoreGrant(w) PROVE RowMoves(o)
  <2> DEFINE op == worker[w].op
             p == worker[w].phone
  <2>1. op \in Ops /\ p \in Phones
    BY <1>1, <1>6, FrameFields DEF StoreGrant
  <2>2. CASE GrantStorable(row[op], p) /\ o = op
    <3>1. row[op] \in OpenRows /\ row[op].grant \in {Nobody, p}
      BY <1>1, <2>1, <2>2, RowFields DEF GrantStorable
    <3>2. row'[op] = [row[op] EXCEPT !.grant = p]
      BY <1>1, <1>6, <2>1, <2>2 DEF StoreGrant
    <3>3. QED
      BY <2>1, <2>2, <3>1, <3>2, RowGranted DEF RowMoves
  <2>3. CASE ~(GrantStorable(row[op], p) /\ o = op)
    BY <1>1, <1>2, <1>6, <2>3 DEF StoreGrant
  <2>4. QED
    BY <2>2, <2>3
<1>7. ASSUME NEW w \in Workers, StoreAck(w) PROVE RowMoves(o)
  <2> DEFINE op == worker[w].op
             p == worker[w].phone
             ack == worker[w].ack
  <2>1. op \in Ops /\ p \in Phones /\ ack \in Acks
    BY <1>1, <1>7, FrameFields DEF StoreAck
  <2>2. p \in Trusted /\ ack.of = p /\ row[op].grant = p /\ phone[p][op] = "receipt"
    BY <1>1, <1>7 DEF StoreAck, WorkersCarry, Agrees
  <2>3. CASE Acceptable(row[op]) /\ o = op
    <3>1. row[op] \in OpenRows
      BY <1>1, <2>1, <2>3, RowFields DEF Acceptable
    <3>2. row'[op] = [row[op] EXCEPT !.state = "LOCALLY_ACCEPTED", !.receipt = p, !.ack = ack]
      BY <1>1, <1>7, <2>1, <2>3 DEF StoreAck
    <3>3. Accepts(op, row[op], row'[op])
      <4> HIDE DEF op, p, ack
      <4>1. row[op].grant = p /\ p \in Trusted
        BY <2>2
      <4>2. Accepts(op, row[op], [row[op] EXCEPT !.state = "LOCALLY_ACCEPTED",
                                                 !.receipt = row[op].grant, !.ack = ack])
        BY <2>1, <2>2, <3>1, <4>1, RowAccepted
      <4>3. QED
        BY <3>2, <4>1, <4>2
    <3>4. QED
      BY <2>3, <3>3 DEF RowMoves
  <2>4. CASE ~(Acceptable(row[op]) /\ o = op)
    BY <1>1, <1>2, <1>7, <2>4 DEF StoreAck
  <2>5. QED
    BY <2>3, <2>4
<1>8. ASSUME NEW w \in Workers, MarkDelivered(w) PROVE RowMoves(o)
  BY <1>1, <1>5, <1>8, FrameFields DEF MarkDelivered, Open
<1>9. ASSUME NEW w \in Workers, MarkWaiting(w) PROVE RowMoves(o)
  BY <1>1, <1>5, <1>9, FrameFields DEF MarkWaiting, Open
<1>10. CASE UNCHANGED row
  BY <1>2, <1>10
<1>11. QED
  BY <1>3, <1>4, <1>6, <1>7, <1>8, <1>9, <1>10
     DEF Next, Exchange, Expire, StartDelivery, StartCollection, Confirm, GiveUp, PutRequest,
         GetStatus, SignAck, PutAck, vars

\* What the rest of the proof needs of a row that has moved.
LEMMA RowFollows ==
  ASSUME NEW op \in Ops, row[op] \in OpenRows \cup AcceptedRows, RowMoves(op)
  PROVE  /\ row'[op] \in OpenRows \cup AcceptedRows
         /\ row[op].grant # Nobody => row'[op].grant = row[op].grant
         /\ row[op].ack # NoAck => row'[op].ack = row[op].ack
BY RowFields, TerminalAssumption
   DEF RowMoves, StaysOpen, Accepts, Reports, TerminalAssumption

----------------------------------------------------------------------------
(* Phones and workers.                                                     *)

PhoneStates == {"nothing", "request", "receipt"}

\* A receipt that was signed stays signed.
LEMMA PhonesStep ==
  ASSUME TInv, [Next]_vars
  PROVE  /\ phone' \in [Phones -> [Ops -> PhoneStates]]
         /\ \A p \in Phones, op \in Ops : phone[p][op] = "receipt" => phone'[p][op] = "receipt"
<1>1. phone \in [Phones -> [Ops -> PhoneStates]] /\ worker \in [Workers -> Frames]
  BY DEF TInv, TerminalTypeOK, PhoneStates
<1>2. ASSUME NEW p \in Phones, NEW op \in Ops, NEW from \in {"nothing", "request"},
             NEW to \in PhoneStates,
             phone' = [phone EXCEPT ![p][op] = IF @ = from THEN to ELSE @]
      PROVE  /\ phone' \in [Phones -> [Ops -> PhoneStates]]
             /\ \A q \in Phones, o \in Ops : phone[q][o] = "receipt" => phone'[q][o] = "receipt"
  BY <1>1, <1>2
<1>3. ASSUME NEW w \in Workers, PutRequest(w)
      PROVE  /\ phone' \in [Phones -> [Ops -> PhoneStates]]
             /\ \A p \in Phones, op \in Ops : phone[p][op] = "receipt" => phone'[p][op] = "receipt"
  <2>1. worker[w].op \in Ops /\ worker[w].phone \in Phones
    BY <1>1, <1>3, FrameFields DEF PutRequest
  <2>2. QED
    BY <1>2, <1>3, <2>1 DEF PutRequest, PhoneStates
<1>4. ASSUME NEW p \in Phones, NEW op \in Ops, Confirm(p, op)
      PROVE  /\ phone' \in [Phones -> [Ops -> PhoneStates]]
             /\ \A q \in Phones, o \in Ops : phone[q][o] = "receipt" => phone'[q][o] = "receipt"
  BY <1>1, <1>4 DEF Confirm, PhoneStates
<1>5. CASE UNCHANGED phone
  BY <1>1, <1>5
<1>6. QED
  BY <1>3, <1>4, <1>5
     DEF Next, Exchange, Create, Expire, Report, StartDelivery, StartCollection, GiveUp,
         MarkDelivered, GetStatus, MarkWaiting, StoreGrant, SignAck, StoreAck, PutAck, vars

\* A frame that a step leaves alone agrees with what the step makes of row and phone.
LEMMA AgreesStays ==
  ASSUME TInv, [Next]_vars, NEW f \in Frames, Agrees(f, row, phone)
  PROVE  Agrees(f, row', phone')
<1>1. CASE f.step = "idle"
  BY <1>1 DEF Agrees
<1>2. CASE f.step # "idle"
  <2>1. f.op \in Ops /\ f.phone \in Phones /\ f.phone # Nobody
    BY <1>2, FrameFields, TerminalAssumption DEF TerminalAssumption
  <2>2. /\ row[f.op].grant # Nobody => row'[f.op].grant = row[f.op].grant
        /\ row[f.op].ack # NoAck => row'[f.op].ack = row[f.op].ack
    BY <2>1, RowsMove, RowFollows DEF TInv, TerminalTypeOK
  <2>3. phone[f.phone][f.op] = "receipt" => phone'[f.phone][f.op] = "receipt"
    BY <2>1, PhonesStep
  <2>4. QED
    BY <2>1, <2>2, <2>3 DEF Agrees
<1>3. QED
  BY <1>1, <1>2

\* The worker that a step moves.
LEMMA WorkerMoves ==
  ASSUME TInv, [Next]_vars
  PROVE  \/ UNCHANGED worker
         \/ \E w \in Workers, f \in Frames :
               worker' = [worker EXCEPT ![w] = f] /\ Agrees(f, row', phone')
<1>1. /\ worker \in [Workers -> Frames] /\ row \in [Ops -> OpenRows \cup AcceptedRows]
      /\ WorkersCarry
  BY DEF TInv, TerminalTypeOK
<1>2. Idle \in Frames /\ Agrees(Idle, row', phone')
  BY DEF Agrees, Frames, Idle
<1> DEFINE Moved == \E w \in Workers, f \in Frames :
                      worker' = [worker EXCEPT ![w] = f] /\ Agrees(f, row', phone')
<1>3. ASSUME NEW w \in Workers, Become(w, Idle) PROVE Moved
  BY <1>2, <1>3 DEF Become
<1> HIDE DEF Moved
<1>4. ASSUME NEW w \in Workers, NEW op \in Ops, NEW p \in Phones,
             StartDelivery(w, op, p) \/ StartCollection(w, op, p)
      PROVE  Moved
  <2>1. CASE StartDelivery(w, op, p)
    <3> DEFINE f == [step |-> "deliver", op |-> op, phone |-> p]
    <3>1. f \in Frames /\ Agrees(f, row', phone')
      BY FrameTypes DEF Agrees
    <3>2. QED
      BY <2>1, <3>1 DEF StartDelivery, Become, Moved
  <2>2. CASE StartCollection(w, op, p)
    <3> DEFINE f == [step |-> "collect", op |-> op, phone |-> p, ack |-> row[op].ack]
    <3>1. row[op].ack \in Acks \cup {NoAck}
      BY <1>1, RowFields
    <3>2. f \in Frames
      BY <3>1, FrameTypes
    <3>3. Agrees(f, row', phone')
      BY <2>2 DEF Agrees, StartCollection
    <3>4. QED
      BY <2>2, <3>2, <3>3 DEF StartCollection, StoredAck, Become, Moved
  <2>3. QED
    BY <1>4, <2>1, <2>2
<1>5. ASSUME NEW w \in Workers, Exchange(w) PROVE Moved
  <2> DEFINE op == worker[w].op
             p == worker[w].phone
             ack == worker[w].ack
  <2>1. worker[w].step # "idle" => op \in Ops /\ p \in Phones
    BY <1>1, FrameFields
  <2>2. CASE PutRequest(w)
    <3> DEFINE f == [step |-> "mark", op |-> op, phone |-> p]
    <3>1. f \in Frames /\ Agrees(f, row', phone')
      BY <2>1, <2>2, FrameTypes DEF Agrees, PutRequest
    <3>2. QED
      BY <2>2, <3>1 DEF PutRequest, Continue, Become, Moved
  <2>3. CASE MarkDelivered(w)
    BY <1>3, <2>3 DEF MarkDelivered
  <2>4. CASE GetStatus(w)
    <3> DEFINE f(step) == [step |-> step, op |-> op, phone |-> p]
    <3>1. f("fetch") \in Frames /\ f("wait") \in Frames
      BY <2>1, FrameTypes, <2>4 DEF GetStatus
    <3>2. CASE phone[p][op] = "receipt" /\ Continue(w, "fetch")
      <4>1. Agrees(f("fetch"), row', phone')
        BY <2>4, <3>2 DEF Agrees, GetStatus
      <4>2. QED
        BY <2>4, <3>1, <3>2, <4>1 DEF GetStatus, Continue, Become, Moved
    <3>3. CASE Continue(w, "wait")
      <4>1. Agrees(f("wait"), row', phone')
        BY <2>4 DEF Agrees, GetStatus
      <4>2. QED
        BY <2>4, <3>1, <3>3, <4>1 DEF GetStatus, Continue, Become, Moved
    <3>4. QED
      BY <2>4, <3>2, <3>3 DEF GetStatus
  <2>5. CASE MarkWaiting(w)
    BY <1>3, <2>5 DEF MarkWaiting
  <2>6. CASE StoreGrant(w)
    <3>1. CASE GrantStorable(row[op], p)
      <4> DEFINE f == [step |-> "verify", op |-> op, phone |-> p]
      <4>1. f \in Frames
        BY <2>1, <2>6, FrameTypes DEF StoreGrant
      <4>2. row'[op].grant = p /\ phone'[p][op] = "receipt"
        <5>1. row' = [row EXCEPT ![op].grant = p] /\ phone' = phone /\ op \in Ops
          BY <2>1, <2>6, <3>1 DEF StoreGrant
        <5>2. phone[p][op] = "receipt"
          BY <1>1, <2>6 DEF StoreGrant, WorkersCarry, Agrees
        <5>3. row'[op] = [row[op] EXCEPT !.grant = p] /\ row[op] \in OpenRows \cup AcceptedRows
          BY <1>1, <5>1
        <5>4. [row[op] EXCEPT !.grant = p].grant = p
          BY <5>3 DEF OpenRows, AcceptedRows
        <5>5. QED
          BY <5>1, <5>2, <5>3, <5>4
      <4>3. Agrees(f, row', phone')
        BY <4>2 DEF Agrees
      <4>4. QED
        BY <2>6, <3>1, <4>1, <4>3 DEF StoreGrant, Continue, Become, Moved
    <3>2. CASE ~GrantStorable(row[op], p)
      BY <1>3, <2>6, <3>2 DEF StoreGrant
    <3>3. QED
      BY <3>1, <3>2
  <2>7. CASE SignAck(w)
    <3>1. PICK a \in Acks : a.of = p /\ Become(w, [step |-> "store", op |-> op, phone |-> p, ack |-> a])
      BY <2>7 DEF SignAck
    <3> DEFINE f == [step |-> "store", op |-> op, phone |-> p, ack |-> a]
    <3>2. f \in Frames
      BY <2>1, <2>7, FrameTypes DEF SignAck
    <3>3. Agrees(f, row', phone')
      BY <1>1, <2>7, <3>1 DEF Agrees, SignAck, WorkersCarry
    <3>4. QED
      BY <3>1, <3>2, <3>3 DEF Become, Moved
  <2>8. CASE StoreAck(w)
    <3>1. CASE Acceptable(row[op])
      <4> DEFINE f == [worker[w] EXCEPT !.step = "send"]
      <4>1. op \in Ops /\ worker[w] \in [step : {"store", "send"}, op : Ops, phone : Phones, ack : Acks]
        BY <1>1, <2>1, <2>8 DEF StoreAck, Frames, Idle
      <4>2. f \in Frames /\ f.op = op /\ f.ack = ack /\ f.step = "send"
        BY <4>1 DEF Frames
      <4>3. row' = [row EXCEPT ![op] = [row[op] EXCEPT !.state = "LOCALLY_ACCEPTED",
                                                       !.receipt = p, !.ack = ack]]
        BY <1>1, <2>8, <3>1, <4>1 DEF StoreAck
      <4>4. row'[op].ack = ack
        BY <1>1, <4>1, <4>3 DEF OpenRows, AcceptedRows
      <4>5. Agrees(f, row', phone')
        BY <4>2, <4>4 DEF Agrees
      <4>6. QED
        BY <2>8, <3>1, <4>2, <4>5 DEF StoreAck, Become, Moved
    <3>2. CASE ~Acceptable(row[op])
      BY <1>3, <2>8, <3>2 DEF StoreAck
    <3>3. QED
      BY <3>1, <3>2
  <2>9. CASE PutAck(w)
    BY <1>3, <2>9 DEF PutAck
  <2>10. QED
    BY <1>5, <2>2, <2>3, <2>4, <2>5, <2>6, <2>7, <2>8, <2>9 DEF Exchange
<1>6. ASSUME NEW w \in Workers, GiveUp(w) PROVE Moved
  BY <1>3, <1>6 DEF GiveUp
<1>7. QED
  BY <1>4, <1>5, <1>6 DEF Moved, Next, Create, Expire, Report, Confirm, vars

----------------------------------------------------------------------------
(* The invariant is inductive.                                             *)

\* It holds before the first operation.
LEMMA InvariantInit == Init => TInv
<1> SUFFICES ASSUME Init PROVE TInv
  OBVIOUS
<1>1. row \in [Ops -> OpenRows]
  BY DEF Init, OpenRows
<1>2. TerminalTypeOK
  BY <1>1 DEF Init, TerminalTypeOK, Frames
<1>3. WorkersCarry
  BY DEF Init, WorkersCarry, Agrees, Idle
<1>4. EvidenceIsOfOneGrant /\ OneAckPerOperation
  BY <1>1, RowFields DEF Init, EvidenceIsOfOneGrant, OneAckPerOperation
<1>5. QED
  BY <1>2, <1>3, <1>4 DEF TInv

\* What the phones hold, of which type and from which row.
LEMMA HeldStep ==
  ASSUME TInv, [Next]_vars
  PROVE  /\ held' \in [Phones -> [Ops -> Acks \cup {NoAck}]]
         /\ \A q \in Phones, o \in Ops :
              held'[q][o] # NoAck => held'[q][o] = held[q][o] \/ held'[q][o] = row[o].ack
<1>1. /\ held \in [Phones -> [Ops -> Acks \cup {NoAck}]]
      /\ worker \in [Workers -> Frames]
      /\ WorkersCarry
  BY DEF TInv, TerminalTypeOK
<1>2. ASSUME NEW w \in Workers, PutAck(w)
      PROVE  /\ held' \in [Phones -> [Ops -> Acks \cup {NoAck}]]
             /\ \A q \in Phones, o \in Ops :
                  held'[q][o] # NoAck => held'[q][o] = held[q][o] \/ held'[q][o] = row[o].ack
  <2> DEFINE op == worker[w].op
             p == worker[w].phone
             ack == worker[w].ack
             new == IF ack.of = p /\ held[p][op] = NoAck THEN ack ELSE held[p][op]
  <2>1. op \in Ops /\ p \in Phones /\ ack \in Acks \cup {NoAck}
    BY <1>1, <1>2, FrameFields DEF PutAck
  <2>2. ack = row[op].ack
    BY <1>1, <1>2 DEF PutAck, WorkersCarry, Agrees
  <2>3. held' = [held EXCEPT ![p][op] = new] /\ new \in Acks \cup {NoAck}
    BY <1>1, <1>2, <2>1 DEF PutAck
  <2>4. new = row[op].ack \/ new = held[p][op]
    BY <2>2
  <2> HIDE DEF op, p, ack, new
  <2>5. QED
    BY <1>1, <2>1, <2>3, <2>4
<1>3. CASE UNCHANGED held
  BY <1>1, <1>3
<1>4. QED
  BY <1>2, <1>3
     DEF Next, Exchange, Create, Expire, Report, StartDelivery, StartCollection, Confirm, GiveUp,
         PutRequest, MarkDelivered, GetStatus, MarkWaiting, StoreGrant, SignAck, StoreAck, vars

\* Every step keeps it.
LEMMA InvariantStep == TInv /\ [Next]_vars => TInv'
<1> SUFFICES ASSUME TInv, [Next]_vars PROVE TInv'
  OBVIOUS
<1>1. /\ row \in [Ops -> OpenRows \cup AcceptedRows]
      /\ expired \subseteq Ops
      /\ worker \in [Workers -> Frames]
  BY DEF TInv, TerminalTypeOK
<1>2. \A op \in Ops : RowMoves(op)
  BY RowsMove
<1>3. TerminalTypeOK'
  <2>1. row' \in [Ops -> OpenRows \cup AcceptedRows]
    <3>1. row' = [op \in Ops |-> row'[op]]
      BY <1>1 DEF Next, Exchange, Create, Expire, Report, StartDelivery, StartCollection, Confirm,
                  GiveUp, PutRequest, MarkDelivered, GetStatus, MarkWaiting, StoreGrant, SignAck,
                  StoreAck, PutAck, Transition, vars
    <3>2. \A op \in Ops : row'[op] \in OpenRows \cup AcceptedRows
      BY <1>1, <1>2, RowFollows
    <3>3. QED
      BY <3>1, <3>2
  <2>2. expired' \subseteq Ops
    BY <1>1 DEF Next, Exchange, Create, Expire, Report, StartDelivery, StartCollection, Confirm,
                GiveUp, PutRequest, MarkDelivered, GetStatus, MarkWaiting, StoreGrant, SignAck,
                StoreAck, PutAck, vars
  <2>3. worker' \in [Workers -> Frames]
    BY <1>1, WorkerMoves
  <2>4. QED
    BY <2>1, <2>2, <2>3, PhonesStep, HeldStep DEF TerminalTypeOK, PhoneStates
<1>4. WorkersCarry'
  <2>1. \A w \in Workers : Agrees(worker[w], row', phone')
    BY <1>1, AgreesStays DEF TInv, WorkersCarry
  <2>2. \A w \in Workers : Agrees(worker'[w], row', phone')
    BY <1>1, <2>1, WorkerMoves
  <2>3. QED
    BY <2>2 DEF WorkersCarry
<1>5. EvidenceIsOfOneGrant'
  <2> SUFFICES ASSUME NEW op \in Ops, row'[op].receipt # Nobody
               PROVE  /\ row'[op].receipt = row'[op].grant
                      /\ row'[op].receipt = row'[op].ack.of
                      /\ row'[op].receipt \in Trusted
                      /\ phone'[row'[op].receipt][op] = "receipt"
    BY DEF EvidenceIsOfOneGrant
  <2>1. CASE StaysOpen(row[op], row'[op])
    BY <2>1, RowFields DEF StaysOpen
  <2>2. CASE Accepts(op, row[op], row'[op])
    BY <2>2, PhonesStep, TerminalAssumption DEF Accepts, TerminalAssumption
  <2>3. CASE Reports(row[op], row'[op])
    <3>1. /\ row[op].receipt = row[op].grant /\ row[op].receipt = row[op].ack.of
          /\ row[op].receipt \in Trusted /\ phone[row[op].receipt][op] = "receipt"
      BY <2>3 DEF Reports, TInv, EvidenceIsOfOneGrant
    <3>2. QED
      BY <2>3, <3>1, PhonesStep, TerminalAssumption DEF Reports, TerminalAssumption
  <2>4. QED
    BY <1>2, <2>1, <2>2, <2>3 DEF RowMoves
<1>6. OneAckPerOperation'
  <2> SUFFICES ASSUME NEW p \in Phones, NEW op \in Ops, held'[p][op] # NoAck
               PROVE  held'[p][op] = row'[op].ack
    BY DEF OneAckPerOperation
  <2>1. held'[p][op] = row[op].ack
    BY HeldStep DEF TInv, OneAckPerOperation
  <2>2. row'[op].ack = row[op].ack
    BY <1>1, <1>2, <2>1, RowFollows
  <2>3. QED
    BY <2>1, <2>2
<1>7. QED
  BY <1>3, <1>4, <1>5, <1>6 DEF TInv

----------------------------------------------------------------------------
(* Theorems.                                                               *)

\* It is an invariant.
LEMMA Invariant == Spec => []TInv
<1>1. QED
  BY InvariantInit, InvariantStep, PTL DEF Spec

\* The rows of the terminal hold complete evidence or none (accept_receipt_and_ack).
THEOREM TerminalTypeCorrect == Spec => []TerminalTypeOK
<1>1. TInv => TerminalTypeOK
  BY DEF TInv
<1>2. QED
  BY Invariant, <1>1, PTL

\* Authorization, receipt and ack of an accepted operation belong together, for any
\* number of exchanges under way (collect_receipt).
THEOREM EvidenceBelongsTogether == Spec => []EvidenceIsOfOneGrant
<1>1. TInv => EvidenceIsOfOneGrant
  BY DEF TInv
<1>2. QED
  BY Invariant, <1>1, PTL

\* Of one operation a single receipt is acknowledged, by one ack, for any number of
\* phones and exchanges: what the backend's ledger assumes of the evidence.
THEOREM OneAckIsGiven == Spec => []OneAckPerOperation
<1>1. TInv => OneAckPerOperation
  BY DEF TInv
<1>2. QED
  BY Invariant, <1>1, PTL

\* Accepted evidence is never replaced, and its operation is only reported
\* (set_authorization, accept_receipt_and_ack, _transition).
THEOREM AcceptanceIsKept == Spec => AcceptanceStays
<1> DEFINE Kept ==
      \A op \in Ops :
        row[op].receipt # Nobody =>
            /\ row'[op].receipt = row[op].receipt
            /\ row'[op].ack = row[op].ack
            /\ row'[op].grant = row[op].grant
            /\ row'[op].state # row[op].state =>
                 row[op].state = "LOCALLY_ACCEPTED" /\ row'[op].state \in Reported
<1>1. TInv /\ [Next]_vars => [Kept]_row
  <2> SUFFICES ASSUME TInv, [Next]_vars, NEW op \in Ops, row[op].receipt # Nobody
               PROVE  /\ row'[op].receipt = row[op].receipt
                      /\ row'[op].ack = row[op].ack
                      /\ row'[op].grant = row[op].grant
                      /\ row'[op].state # row[op].state =>
                           row[op].state = "LOCALLY_ACCEPTED" /\ row'[op].state \in Reported
    OBVIOUS
  <2>1. row[op] \notin OpenRows
    BY RowFields
  <2>2. RowMoves(op)
    BY RowsMove
  <2>3. QED
    BY <2>1, <2>2 DEF RowMoves, StaysOpen, Accepts, Reports
<1>2. QED
  BY Invariant, <1>1, PTL DEF Spec, AcceptanceStays

----------------------------------------------------------------------------
(* Exchanges: what connections, fragments and cached answers are.            *)

\* A worker in an exchange has a connection, and the lists of a phone are lists.
LinksSound ==
    /\ link = [w \in Workers |-> link[w]]
    /\ \A w \in Workers : worker[w] # Idle => link[w] \in [to : Phones, next : Nat]
    /\ parts \in [Phones -> [{"request", "ack"} -> Seq(Parts)]]

\* An answer to a status of op; it is never ahead of the phone.
StatusSound(p, e) ==
    \E op \in Ops :
        /\ e.apdu = [status |-> op]
        /\ e.answer \in {"nothing", "request", "receipt"}
        /\ e.answer = "request" => phone[p][op] # "nothing"
        /\ e.answer = "receipt" => phone[p][op] = "receipt"

\* An answer to a fragment of a request, or
RequestSound(p, e) ==
    \E m \in Requests, n \in Nat \ {0} :
        /\ e.apdu = [of |-> m, at |-> n]
        /\ e.answer \in {"more", "bad", "request"}
        /\ e.answer = "request" => phone[p][m.op] # "nothing"

\* of an ack.
AckSound(p, e) ==
    \E m \in AckMessages, n \in Nat \ {0} :
        /\ e.apdu = [of |-> m, at |-> n]
        /\ e.answer \in {"more", "bad", "stored"}
        /\ e.answer = "stored" => held[p][m.op] = m.ack

CacheSound ==
    /\ cache = [p \in Phones |-> cache[p]]
    /\ \A p \in Phones : \A e \in cache[p] :
          StatusSound(p, e) \/ RequestSound(p, e) \/ AckSound(p, e)

NInv == TInv /\ LinksSound /\ CacheSound

\* What the frames of two steps are, as records.
LEMMA FrameShapes ==
  ASSUME NEW f \in Frames
  PROVE  /\ f.step = "deliver" => f = [step |-> "deliver", op |-> f.op, phone |-> f.phone]
         /\ f.step = "idle" => f = Idle
BY DEF Frames, Idle

\* The messages of a worker.
LEMMA MessageTypes ==
  ASSUME NEW op \in Ops
  PROVE  /\ [kind |-> "request", op |-> op] \in Requests
         /\ \A ack \in Acks : [kind |-> "ack", op |-> op, ack |-> ack] \in AckMessages
BY DEF Requests, AckMessages

\* A list whose last fragment completes a whole message is of that message.
LEMMA WholeIsLast ==
  ASSUME NEW list \in Seq(Parts), NEW x \in Parts, Whole(Append(list, x))
  PROVE  Append(list, x)[1].of = x.of
<1> DEFINE all == Append(list, x)
<1>1. all \in Seq(Parts) /\ Len(all) = Len(list) + 1 /\ all[Len(all)] = x
  OBVIOUS
<1>2. Len(all) \in DOMAIN all
  BY <1>1
<1>3. x = [of |-> all[1].of, at |-> Len(all)]
  BY <1>1, <1>2 DEF Whole
<1> HIDE DEF all
<1>4. all[1].of = x.of
  BY <1>3
<1>5. QED
  BY <1>4 DEF all

\* What the phone does with a fragment.
Fragment(p, x, answer) ==
    \/ answer \in {"bad", "more"} /\ UNCHANGED <<phone, held>> /\ (answer = "more" => x.at < Size[x.of.kind])
    \/ /\ x.of.kind = "request" /\ x.at = Size["request"] /\ answer = "request"
       /\ TakeRequest(p, x.of.op)
    \/ /\ x.of.kind = "ack" /\ x.at = Size["ack"] /\ answer = "stored"
       /\ AckFits(p, x.of) /\ TakeAck(p, x.of)

LEMMA FragmentTaken ==
  ASSUME LinksSound, NEW p \in Phones, NEW x \in Parts, NEW answer,
         AcceptFragment(p, x, answer)
  PROVE  /\ Fragment(p, x, answer)
         /\ parts' \in [Phones -> [{"request", "ack"} -> Seq(Parts)]]
<1> DEFINE kind == x.of.kind
           list == Append(parts[p][kind], x)
           m == list[1].of
<1>1. kind \in {"request", "ack"} /\ x.at \in Nat \ {0}
  BY DEF Parts, Requests, AckMessages
<1>2. parts[p][kind] \in Seq(Parts) /\ list \in Seq(Parts) /\ <<>> \in Seq(Parts)
  BY <1>1 DEF LinksSound
<1>3. Whole(list) => m = x.of
  BY <1>2, WholeIsLast
<1>4. \/ answer = "bad" /\ UNCHANGED <<parts, phone, held>>
      \/ x.at < Size[kind] /\ Collect(p, kind, list) /\ answer = "more" /\ UNCHANGED <<phone, held>>
      \/ /\ x.at = Size[kind] /\ Collect(p, kind, <<>>)
         /\ \/ Whole(list) /\ kind = "request" /\ TakeRequest(p, m.op) /\ answer = "request"
            \/ Whole(list) /\ kind = "ack" /\ AckFits(p, m) /\ TakeAck(p, m) /\ answer = "stored"
            \/ answer = "bad" /\ UNCHANGED <<phone, held>>
  BY DEF AcceptFragment
<1>5. UNCHANGED parts \/ Collect(p, kind, list) \/ Collect(p, kind, <<>>)
  BY <1>4
<1>6. parts' \in [Phones -> [{"request", "ack"} -> Seq(Parts)]]
  <2>1. ASSUME NEW new \in Seq(Parts), Collect(p, kind, new)
        PROVE  parts' \in [Phones -> [{"request", "ack"} -> Seq(Parts)]]
    <3>1. [parts[p] EXCEPT ![kind] = new] \in [{"request", "ack"} -> Seq(Parts)]
      BY <1>1, <2>1 DEF LinksSound
    <3>2. parts' = [parts EXCEPT ![p] = [parts[p] EXCEPT ![kind] = new]]
      BY <2>1 DEF Collect
    <3>3. QED
      BY <3>1, <3>2 DEF LinksSound
  <2>2. UNCHANGED parts => parts' \in [Phones -> [{"request", "ack"} -> Seq(Parts)]]
    BY DEF LinksSound
  <2>3. QED
    BY <1>2, <1>5, <2>1, <2>2
<1> HIDE DEF list, m, kind
<1>7. Fragment(p, x, answer)
  BY <1>3, <1>4 DEF Fragment, kind
<1>8. QED
  BY <1>6, <1>7

----------------------------------------------------------------------------
(* Exchanges: answers stay true.                                             *)

\* What a phone has it keeps, and it never replaces an ack.
PhonesKeep ==
    \A p \in Phones, op \in Ops :
        /\ phone[p][op] # "nothing" => phone'[p][op] # "nothing"
        /\ phone[p][op] = "receipt" => phone'[p][op] = "receipt"
        /\ held[p][op] # NoAck => held'[p][op] = held[p][op]

\* Then what it has answered stays true.
LEMMA AnswersStay ==
  ASSUME PhonesKeep, NEW p \in Phones, NEW e,
         StatusSound(p, e) \/ RequestSound(p, e) \/ AckSound(p, e)
  PROVE  StatusSound(p, e)' \/ RequestSound(p, e)' \/ AckSound(p, e)'
<1>1. CASE StatusSound(p, e)
  BY <1>1 DEF StatusSound, PhonesKeep
<1>2. CASE RequestSound(p, e)
  <2>1. \A m \in Requests : m.op \in Ops
    BY DEF Requests
  <2>2. QED
    BY <1>2, <2>1 DEF RequestSound, PhonesKeep
<1>3. CASE AckSound(p, e)
  <2>1. \A m \in AckMessages : m.op \in Ops /\ m.ack # NoAck
    BY AckIsOfPhone DEF AckMessages
  <2>2. QED
    BY <1>3, <2>1 DEF AckSound, PhonesKeep
<1>4. QED
  BY <1>1, <1>2, <1>3

\* A fragment that is taken keeps what the phone has.
LEMMA FragmentKeeps ==
  ASSUME TerminalTypeOK, NEW p \in Phones, NEW x \in Parts, NEW answer,
         Fragment(p, x, answer)
  PROVE  PhonesKeep
<1>1. x.of.kind = "request" => x.of.op \in Ops
  BY DEF Parts, Requests, AckMessages
<1>2. x.of.kind = "ack" => x.of.op \in Ops /\ x.of.ack \in Acks
  BY DEF Parts, Requests, AckMessages
<1>3. CASE UNCHANGED <<phone, held>>
  BY <1>3 DEF PhonesKeep
<1>4. CASE x.of.kind = "request" /\ TakeRequest(p, x.of.op)
  BY <1>1, <1>4 DEF TakeRequest, PhonesKeep, TerminalTypeOK
<1>5. CASE x.of.kind = "ack" /\ AckFits(p, x.of) /\ TakeAck(p, x.of)
  BY <1>2, <1>5 DEF TakeAck, AckFits, PhonesKeep, TerminalTypeOK
<1>6. QED
  BY <1>3, <1>4, <1>5 DEF Fragment

\* The answer to a fragment is sound, whether it is repeated or new.
LEMMA PartAnswered ==
  ASSUME NInv, NEW p \in Phones, NEW m \in Requests \cup AckMessages, NEW n \in Nat \ {0},
         NEW answer, TransmitPart(p, [of |-> m, at |-> n], answer)
  PROVE  /\ PhonesKeep /\ CacheSound'
         /\ parts' \in [Phones -> [{"request", "ack"} -> Seq(Parts)]]
         /\ \/ UNCHANGED <<phone, held>> /\ ~(answer = "request" /\ m.kind = "request")
                                         /\ ~(answer = "stored" /\ m.kind = "ack")
            \/ /\ m.kind = "request" /\ answer = "request"
               /\ phone' = [phone EXCEPT ![p][m.op] = IF @ = "nothing" THEN "request" ELSE @]
               /\ UNCHANGED held
            \/ /\ m.kind = "ack" /\ answer = "stored"
               /\ held' = [held EXCEPT ![p][m.op] = IF @ = NoAck THEN m.ack ELSE @]
               /\ UNCHANGED phone
               /\ m.ack.of = p \/ held[p][m.op] # NoAck
         /\ answer = "more" \/ n # Size[m.kind] => UNCHANGED <<phone, held>>
<1> DEFINE x == [of |-> m, at |-> n]
           e == [apdu |-> x, answer |-> answer]
<1>0. /\ x \in Parts /\ x.of = m /\ x.at = n /\ e.apdu = x /\ e.answer = answer
      /\ TerminalTypeOK /\ LinksSound /\ CacheSound
      /\ m \in Requests => m.kind = "request" /\ m.op \in Ops
      /\ m \in AckMessages => m.kind = "ack" /\ m.op \in Ops /\ m.ack \in Acks /\ m.ack # NoAck
  BY AckIsOfPhone DEF NInv, TInv, Parts, Requests, AckMessages
<1>1. CASE Repeated(p, x, answer)
  <2>1. e \in cache[p] /\ UNCHANGED <<parts, cache, phone, held>>
    BY <1>1 DEF Repeated
  <2>2. StatusSound(p, e) \/ RequestSound(p, e) \/ AckSound(p, e)
    BY <1>0, <2>1 DEF CacheSound
  <2>3. ~StatusSound(p, e)
    BY DEF StatusSound
  <2>4. /\ answer = "request" => phone[p][m.op] # "nothing"
        /\ answer = "stored" => m \in AckMessages /\ held[p][m.op] = m.ack
    <3>1. CASE RequestSound(p, e)
      <4>1. PICK r \in Requests, k \in Nat \ {0} :
              /\ x = [of |-> r, at |-> k] /\ answer \in {"more", "bad", "request"}
              /\ answer = "request" => phone[p][r.op] # "nothing"
        BY <1>0, <3>1 DEF RequestSound
      <4>2. m = r
        BY <1>0, <4>1
      <4>3. QED
        BY <4>1, <4>2
    <3>2. CASE AckSound(p, e)
      <4>1. PICK r \in AckMessages, k \in Nat \ {0} :
              /\ x = [of |-> r, at |-> k] /\ answer \in {"more", "bad", "stored"}
              /\ answer = "stored" => held[p][r.op] = r.ack
        BY <1>0, <3>2 DEF AckSound
      <4>2. m = r
        BY <1>0, <4>1
      <4>3. QED
        BY <4>1, <4>2
    <3>3. QED
      BY <2>2, <2>3, <3>1, <3>2
  <2>5. PhonesKeep /\ CacheSound'
    <3>1. PhonesKeep
      BY <2>1 DEF PhonesKeep
    <3>2. cache' = cache
      BY <2>1
    <3>3. \A q \in Phones : \A d \in cache'[q] :
            StatusSound(q, d)' \/ RequestSound(q, d)' \/ AckSound(q, d)'
      BY <1>0, <3>1, <3>2, AnswersStay DEF CacheSound
    <3>4. QED
      BY <1>0, <3>1, <3>2, <3>3 DEF CacheSound
  <2>6. parts' \in [Phones -> [{"request", "ack"} -> Seq(Parts)]]
    BY <1>0, <2>1 DEF LinksSound
  <2>7. CASE m.kind = "request" /\ answer = "request"
    BY <1>0, <2>1, <2>4, <2>5, <2>6, <2>7 DEF TerminalTypeOK
  <2>8. CASE m.kind = "ack" /\ answer = "stored"
    BY <1>0, <2>1, <2>4, <2>5, <2>6, <2>8 DEF TerminalTypeOK
  <2>9. QED
    BY <2>1, <2>5, <2>6, <2>7, <2>8
<1>2. CASE AcceptFragment(p, x, answer) /\ Remember(p, x, answer)
  <2>1. Fragment(p, x, answer) /\ parts' \in [Phones -> [{"request", "ack"} -> Seq(Parts)]]
    BY <1>0, <1>2, FragmentTaken
  <2>2. PhonesKeep
    BY <1>0, <2>1, FragmentKeeps
  <2>3. cache' = [cache EXCEPT ![p] = cache[p] \cup {e}]
    BY <1>2 DEF Remember
  <2>4. RequestSound(p, e)' \/ AckSound(p, e)'
    <3>1. CASE m \in Requests
      <4>1. answer \in {"more", "bad", "request"}
        BY <1>0, <2>1, <3>1 DEF Fragment
      <4>2. answer = "request" => phone'[p][m.op] # "nothing"
        BY <1>0, <2>1, <3>1 DEF Fragment, TakeRequest, TerminalTypeOK
      <4>3. QED
        BY <1>0, <3>1, <4>1, <4>2 DEF RequestSound
    <3>2. CASE m \in AckMessages
      <4>1. answer \in {"more", "bad", "stored"}
        BY <1>0, <2>1, <3>2 DEF Fragment
      <4>2. answer = "stored" => held'[p][m.op] = m.ack
        BY <1>0, <2>1, <3>2 DEF Fragment, TakeAck, TerminalTypeOK
      <4>3. QED
        BY <1>0, <3>2, <4>1, <4>2 DEF AckSound
    <3>3. QED
      BY <3>1, <3>2
  <2>5. CacheSound'
    <3>1. ASSUME NEW q \in Phones, NEW d \in cache'[q]
          PROVE  StatusSound(q, d)' \/ RequestSound(q, d)' \/ AckSound(q, d)'
      <4>1. d \in cache[q] \/ (q = p /\ d = e)
        BY <1>0, <2>3 DEF CacheSound
      <4>2. CASE d \in cache[q]
        BY <1>0, <2>2, <4>2, AnswersStay DEF CacheSound
      <4>3. CASE q = p /\ d = e
        BY <2>4, <4>3
      <4>4. QED
        BY <4>1, <4>2, <4>3
    <3>2. cache' = [q \in Phones |-> cache'[q]]
      BY <1>0, <2>3 DEF CacheSound
    <3>3. QED
      BY <3>1, <3>2 DEF CacheSound
  <2>6. CASE answer \in {"bad", "more"} /\ UNCHANGED <<phone, held>>
    BY <2>1, <2>2, <2>5, <2>6
  <2>7. CASE m.kind = "request" /\ n = Size[m.kind] /\ answer = "request" /\ TakeRequest(p, m.op)
    BY <2>1, <2>2, <2>5, <2>7 DEF TakeRequest
  <2>8. CASE /\ m.kind = "ack" /\ n = Size[m.kind] /\ answer = "stored"
             /\ AckFits(p, m) /\ TakeAck(p, m)
    <3>1. held' = [held EXCEPT ![p][m.op] = IF held[p][m.op] = NoAck THEN m.ack ELSE held[p][m.op]]
      BY <2>8 DEF AckFits, TakeAck
    <3>2. QED
      BY <2>1, <2>2, <2>5, <2>8, <3>1 DEF AckFits, TakeAck
  <2>9. QED
    BY <1>0, <2>1, <2>6, <2>7, <2>8 DEF Fragment
<1>3. QED
  BY <1>1, <1>2 DEF TransmitPart

----------------------------------------------------------------------------
(* Exchanges: every step is one of PosTerminal, or a stutter.                *)

\* Answers that are kept stay sound.
LEMMA AnswersKept ==
  ASSUME CacheSound, PhonesKeep, UNCHANGED cache
  PROVE  CacheSound'
<1>1. \A q \in Phones : \A d \in cache'[q] :
        StatusSound(q, d)' \/ RequestSound(q, d)' \/ AckSound(q, d)'
  BY AnswersStay DEF CacheSound
<1>2. QED
  BY <1>1 DEF CacheSound

\* A worker that goes on keeps its connection.
LEMMA LinksStay ==
  ASSUME LinksSound, NEW w \in Workers, UNCHANGED link \/ Advance(w) \/ Rewind(w),
         parts' \in [Phones -> [{"request", "ack"} -> Seq(Parts)]],
         \A v \in Workers : worker'[v] # Idle => worker[v] # Idle
  PROVE  LinksSound'
<1>1. link = [v \in Workers |-> link[v]]
  BY DEF LinksSound
<1>2. link' = [v \in Workers |-> link'[v]]
  BY <1>1 DEF Advance, Rewind
<1>3. ASSUME NEW v \in Workers, worker'[v] # Idle
      PROVE  link'[v] \in [to : Phones, next : Nat]
  <2>1. link[v] \in [to : Phones, next : Nat]
    BY <1>3 DEF LinksSound
  <2>2. CASE UNCHANGED link
    BY <2>1, <2>2
  <2>3. CASE Advance(w)
    <3>1. link'[v] = IF v = w THEN [link[v] EXCEPT !.next = link[v].next + 1] ELSE link[v]
      BY <1>1, <2>3 DEF Advance
    <3>2. [link[v] EXCEPT !.next = link[v].next + 1] \in [to : Phones, next : Nat]
      BY <2>1
    <3>3. QED
      BY <2>1, <3>1, <3>2
  <2>4. CASE Rewind(w)
    <3>1. link'[v] = IF v = w THEN [link[v] EXCEPT !.next = 0] ELSE link[v]
      BY <1>1, <2>4 DEF Rewind
    <3>2. [link[v] EXCEPT !.next = 0] \in [to : Phones, next : Nat]
      BY <2>1
    <3>3. QED
      BY <2>1, <3>1, <3>2
  <2>5. QED
    BY <2>2, <2>3, <2>4
<1>4. QED
  BY <1>2, <1>3 DEF LinksSound

\* A fragment is a stutter, or the end of the exchange, or the phone has taken the
\* whole message.
LEMMA PartSent ==
  ASSUME NInv, NEW w \in Workers, worker[w] # Idle, worker[w].phone \in Phones,
         NEW m \in Requests \cup AckMessages, NEW frame, NEW expected,
         m.kind = "request" => expected = "request", m.kind = "ack" => expected = "stored",
         SendPart(w, m, expected, frame)
  PROVE  /\ LinksSound' /\ CacheSound'
         /\ \/ UNCHANGED vars
            \/ GiveUp(w)
            \/ /\ Become(w, frame) /\ UNCHANGED <<row, expired>>
               /\ m.kind = "request" =>
                    /\ phone' = [phone EXCEPT ![worker[w].phone][m.op] =
                                    IF @ = "nothing" THEN "request" ELSE @]
                    /\ UNCHANGED held
               /\ m.kind = "ack" =>
                    /\ held' = [held EXCEPT ![worker[w].phone][m.op] = IF @ = NoAck THEN m.ack ELSE @]
                    /\ UNCHANGED phone
                    /\ m.ack.of = worker[w].phone \/ held[worker[w].phone][m.op] # NoAck
<1> DEFINE p == worker[w].phone
           n == link[w].next + 1
<1>1. n \in Nat \ {0} /\ worker \in [Workers -> Frames] /\ m.kind \in {"request", "ack"}
      /\ CacheSound /\ LinksSound
  BY DEF NInv, LinksSound, TInv, TerminalTypeOK, Requests, AckMessages
<1>2. PICK answer \in Answers :
        /\ TransmitPart(p, [of |-> m, at |-> n], answer)
        /\ \/ n < Size[m.kind] /\ answer = "more" /\ Advance(w) /\ UNCHANGED worker
           \/ Become(w, Idle) /\ UNCHANGED link /\ ~(n = Size[m.kind] /\ answer = expected)
           \/ Become(w, frame) /\ UNCHANGED link /\ n = Size[m.kind] /\ answer = expected
        /\ UNCHANGED <<row, expired>>
  BY DEF SendPart
<1> HIDE DEF n, p
<1>3. /\ PhonesKeep /\ CacheSound'
      /\ parts' \in [Phones -> [{"request", "ack"} -> Seq(Parts)]]
      /\ \/ UNCHANGED <<phone, held>> /\ ~(answer = "request" /\ m.kind = "request")
                                      /\ ~(answer = "stored" /\ m.kind = "ack")
         \/ /\ m.kind = "request" /\ answer = "request"
            /\ phone' = [phone EXCEPT ![p][m.op] = IF @ = "nothing" THEN "request" ELSE @]
            /\ UNCHANGED held
         \/ /\ m.kind = "ack" /\ answer = "stored"
            /\ held' = [held EXCEPT ![p][m.op] = IF @ = NoAck THEN m.ack ELSE @]
            /\ UNCHANGED phone
            /\ m.ack.of = p \/ held[p][m.op] # NoAck
      /\ answer = "more" \/ n # Size[m.kind] => UNCHANGED <<phone, held>>
  BY <1>1, <1>2, PartAnswered DEF p
<1>4. LinksSound'
  <2>1. UNCHANGED link \/ Advance(w)
    BY <1>2
  <2>2. \A v \in Workers : worker'[v] # Idle => worker[v] # Idle
    BY <1>1, <1>2 DEF Become
  <2>3. QED
    BY <1>1, <1>3, <2>1, <2>2, LinksStay
<1>5. CASE answer = "more" /\ UNCHANGED worker
  BY <1>2, <1>3, <1>4, <1>5 DEF vars
<1>6. CASE Become(w, Idle) /\ ~(n = Size[m.kind] /\ answer = expected)
  <2>1. UNCHANGED <<phone, held>>
    BY <1>1, <1>3, <1>6
  <2>2. GiveUp(w)
    BY <1>2, <1>6, <2>1 DEF GiveUp
  <2>3. QED
    BY <1>3, <1>4, <2>2
<1>7. CASE Become(w, frame) /\ answer = expected
  BY <1>1, <1>2, <1>3, <1>4, <1>7 DEF p
<1>8. QED
  BY <1>2, <1>5, <1>6, <1>7

\* The delivery of a request, fragment by fragment.
LEMMA RequestSent ==
  ASSUME NInv, NEW w \in Workers, SendRequest(w)
  PROVE  [Next]_vars /\ LinksSound' /\ CacheSound'
<1> DEFINE f == worker[w]
           m == [kind |-> "request", op |-> f.op]
           marked == [f EXCEPT !.step = "mark"]
<1>1. f.step = "deliver" /\ SendPart(w, m, "request", marked)
  BY DEF SendRequest
<1>2. f \in Frames /\ f # Idle /\ f.op \in Ops /\ f.phone \in Phones
  BY <1>1, FrameFields DEF NInv, TInv, TerminalTypeOK, Idle
<1>3. m \in Requests /\ m.kind = "request" /\ m.op = f.op
  BY <1>2, MessageTypes
<1>4. marked = [step |-> "mark", op |-> f.op, phone |-> f.phone]
  BY <1>1, <1>2, FrameShapes
<1> HIDE DEF m, marked
<1>5. /\ LinksSound' /\ CacheSound'
      /\ \/ UNCHANGED vars
         \/ GiveUp(w)
         \/ /\ Become(w, marked) /\ UNCHANGED <<row, expired, held>>
            /\ phone' = [phone EXCEPT ![f.phone][m.op] = IF @ = "nothing" THEN "request" ELSE @]
  <2>1. m.kind # "ack"
    BY <1>3
  <2>2. QED
    BY <1>1, <1>2, <1>3, <2>1, PartSent
<1>6. CASE /\ Become(w, marked) /\ UNCHANGED <<row, expired, held>>
           /\ phone' = [phone EXCEPT ![f.phone][m.op] = IF @ = "nothing" THEN "request" ELSE @]
  <2>1. PutRequest(w)
    BY <1>1, <1>3, <1>4, <1>6 DEF PutRequest, Continue
  <2>2. QED
    BY <1>5, <2>1 DEF Next, Exchange
<1>7. CASE GiveUp(w)
  BY <1>5, <1>7 DEF Next
<1>8. QED
  BY <1>5, <1>6, <1>7

\* The delivery of an ack.
LEMMA AckSent ==
  ASSUME NInv, NEW w \in Workers, SendAck(w)
  PROVE  [Next]_vars /\ LinksSound' /\ CacheSound'
<1> DEFINE f == worker[w]
           m == [kind |-> "ack", op |-> f.op, ack |-> f.ack]
<1>1. f.step \in {"collect", "send"} /\ f.ack # NoAck /\ SendPart(w, m, "stored", Idle)
  BY DEF SendAck
<1>2. f \in Frames /\ f # Idle /\ f.op \in Ops /\ f.phone \in Phones /\ f.ack \in Acks
  BY <1>1, FrameFields DEF NInv, TInv, TerminalTypeOK, Idle
<1>3. m \in AckMessages /\ m.kind = "ack" /\ m.op = f.op /\ m.ack = f.ack
  BY <1>2, MessageTypes
<1> HIDE DEF m
<1>4. /\ LinksSound' /\ CacheSound'
      /\ \/ UNCHANGED vars
         \/ GiveUp(w)
         \/ /\ Become(w, Idle) /\ UNCHANGED <<row, expired, phone>>
            /\ held' = [held EXCEPT ![f.phone][m.op] = IF @ = NoAck THEN m.ack ELSE @]
            /\ m.ack.of = f.phone \/ held[f.phone][m.op] # NoAck
  <2>1. m.kind # "request"
    BY <1>3
  <2>2. QED
    BY <1>1, <1>2, <1>3, <2>1, PartSent
<1>5. CASE /\ Become(w, Idle) /\ UNCHANGED <<row, expired, phone>>
           /\ held' = [held EXCEPT ![f.phone][m.op] = IF @ = NoAck THEN m.ack ELSE @]
           /\ m.ack.of = f.phone \/ held[f.phone][m.op] # NoAck
  <2>1. held' = [held EXCEPT ![f.phone][f.op] = IF f.ack.of = f.phone /\ @ = NoAck THEN f.ack ELSE @]
    BY <1>3, <1>5
  <2>2. PutAck(w)
    BY <1>1, <1>5, <2>1 DEF PutAck
  <2>3. QED
    BY <1>4, <2>2 DEF Next, Exchange
<1>6. CASE GiveUp(w)
  BY <1>4, <1>6 DEF Next
<1>7. QED
  BY <1>4, <1>5, <1>6

\* The answer to a status is sound, whether it is repeated or new.
LEMMA StatusAnswered ==
  ASSUME NInv, NEW p \in Phones, NEW op \in Ops, NEW answer, TransmitStatus(p, op, answer)
  PROVE  /\ UNCHANGED <<parts, phone, held>> /\ CacheSound'
         /\ answer = "request" => phone[p][op] # "nothing"
         /\ answer = "receipt" => phone[p][op] = "receipt"
<1> DEFINE apdu == [status |-> op]
           e == [apdu |-> apdu, answer |-> answer]
<1>1. LinksSound /\ CacheSound /\ TerminalTypeOK
  BY DEF NInv, TInv
<1>2. UNCHANGED <<parts, phone, held>>
  BY DEF TransmitStatus, Repeated
<1>3. PhonesKeep
  BY <1>2 DEF PhonesKeep
<1>4. CASE Repeated(p, apdu, answer)
  <2>1. StatusSound(p, e) \/ RequestSound(p, e) \/ AckSound(p, e)
    BY <1>1, <1>4 DEF CacheSound, Repeated
  <2>2. ~RequestSound(p, e) /\ ~AckSound(p, e)
    BY DEF RequestSound, AckSound
  <2>3. /\ answer = "request" => phone[p][op] # "nothing"
        /\ answer = "receipt" => phone[p][op] = "receipt"
    BY <2>1, <2>2 DEF StatusSound
  <2>4. CacheSound'
    BY <1>1, <1>3, <1>4, AnswersKept DEF Repeated
  <2>5. QED
    BY <1>2, <2>3, <2>4
<1>5. CASE answer = phone[p][op] /\ Remember(p, apdu, answer)
  <2>1. phone[p][op] \in {"nothing", "request", "receipt"}
    BY <1>1 DEF TerminalTypeOK
  <2>2. StatusSound(p, e)'
    BY <1>2, <1>5, <2>1 DEF StatusSound
  <2>3. ASSUME NEW q \in Phones, NEW d \in cache'[q]
        PROVE  StatusSound(q, d)' \/ RequestSound(q, d)' \/ AckSound(q, d)'
    <3>1. d \in cache[q] \/ (q = p /\ d = e)
      BY <1>1, <1>5 DEF CacheSound, Remember
    <3>2. CASE d \in cache[q]
      BY <1>1, <1>3, <3>2, AnswersStay DEF CacheSound
    <3>3. CASE q = p /\ d = e
      BY <2>2, <3>3
    <3>4. QED
      BY <3>1, <3>2, <3>3
  <2>4. cache' = [q \in Phones |-> cache'[q]]
    BY <1>1, <1>5 DEF CacheSound, Remember
  <2>5. CacheSound'
    BY <2>3, <2>4 DEF CacheSound
  <2>6. QED
    BY <1>2, <1>5, <2>5
<1>6. QED
  BY <1>4, <1>5 DEF TransmitStatus

\* The state of an operation, as the phone reports it or has reported it.
LEMMA StatusAsked ==
  ASSUME NInv, NEW w \in Workers, AskStatus(w)
  PROVE  [Next]_vars /\ LinksSound' /\ CacheSound'
<1> DEFINE f == worker[w]
<1>1. PICK answer \in Answers :
        /\ TransmitStatus(f.phone, f.op, answer)
        /\ \/ answer = "receipt" /\ Continue(w, "fetch")
           \/ answer = "request" /\ Continue(w, "wait")
           \/ answer \notin {"receipt", "request"} /\ Become(w, Idle)
  BY DEF AskStatus
<1>2. f.step = "collect" /\ f.ack = NoAck /\ UNCHANGED <<row, expired, link>>
  BY DEF AskStatus
<1>3. /\ f \in Frames /\ f # Idle /\ f.op \in Ops /\ f.phone \in Phones
      /\ worker \in [Workers -> Frames] /\ LinksSound
  BY <1>2, FrameFields DEF NInv, TInv, TerminalTypeOK, Idle
<1>4. /\ UNCHANGED <<parts, phone, held>> /\ CacheSound'
      /\ answer = "request" => phone[f.phone][f.op] # "nothing"
      /\ answer = "receipt" => phone[f.phone][f.op] = "receipt"
  BY <1>1, <1>3, StatusAnswered
<1>5. LinksSound'
  <2>1. \A v \in Workers : worker'[v] # Idle => worker[v] # Idle
    BY <1>1, <1>3 DEF Become, Continue
  <2>2. parts' \in [Phones -> [{"request", "ack"} -> Seq(Parts)]]
    BY <1>3, <1>4 DEF LinksSound
  <2>3. QED
    BY <1>2, <1>3, <2>1, <2>2, LinksStay
<1>6. GetStatus(w) \/ GiveUp(w)
  BY <1>1, <1>2, <1>3, <1>4 DEF GetStatus, GiveUp
<1>7. QED
  BY <1>4, <1>5, <1>6 DEF Next, Exchange

\* The statements on the database are PosTerminal's.
LEMMA Recorded ==
  ASSUME NInv, NEW w \in Workers, Record(w)
  PROVE  [Next]_vars /\ LinksSound' /\ CacheSound'
<1>1. MarkDelivered(w) \/ MarkWaiting(w) \/ StoreGrant(w) \/ SignAck(w) \/ StoreAck(w)
  BY DEF Record
<1>2. UNCHANGED <<parts, cache>> /\ Rewind(w)
  BY DEF Record
<1>3. LinksSound /\ CacheSound /\ worker \in [Workers -> Frames]
  BY DEF NInv, TInv, TerminalTypeOK
<1>4. UNCHANGED <<phone, held>> /\ worker[w] # Idle
  BY <1>1 DEF MarkDelivered, MarkWaiting, StoreGrant, SignAck, StoreAck, Idle
<1>5. PhonesKeep
  BY <1>4 DEF PhonesKeep
<1>6. \A v \in Workers : worker'[v] # Idle => worker[v] # Idle
  BY <1>1, <1>3, <1>4 DEF MarkDelivered, MarkWaiting, StoreGrant, SignAck, StoreAck, Become, Continue
<1>7. parts' \in [Phones -> [{"request", "ack"} -> Seq(Parts)]]
  BY <1>2, <1>3 DEF LinksSound
<1>8. LinksSound'
  BY <1>2, <1>3, <1>6, <1>7, LinksStay
<1>9. CacheSound'
  BY <1>2, <1>3, <1>5, AnswersKept
<1>10. QED
  BY <1>1, <1>8, <1>9 DEF Next, Exchange

\* Beginnings and ends of exchanges, and what is no exchange.
LEMMA OtherSteps ==
  ASSUME NInv,
         \/ \E op \in Ops : (Create(op) \/ Expire(op)) /\ UNCHANGED linkVars
         \/ \E w \in Workers, op \in Ops, p \in Phones :
               NfcStartDelivery(w, op, p) \/ NfcStartCollection(w, op, p)
         \/ \E p \in Phones, op \in Ops : Confirm(p, op) /\ UNCHANGED linkVars
         \/ \E w \in Workers : ReadPart(w) \/ Break(w) \/ Close(w)
         \/ UNCHANGED nfcVars
  PROVE  [Next]_vars /\ LinksSound' /\ CacheSound'
<1>1. LinksSound /\ CacheSound /\ TerminalTypeOK
  BY DEF NInv, TInv
<1>2. CASE \/ \E op \in Ops : (Create(op) \/ Expire(op)) /\ UNCHANGED linkVars
           \/ \E p \in Phones, op \in Ops : Confirm(p, op) /\ UNCHANGED linkVars
           \/ \E w \in Workers : Break(w)
           \/ UNCHANGED nfcVars
  <2>1. [Next]_vars
    BY <1>2 DEF Next, Break, nfcVars
  <2>2. PhonesKeep
    BY <1>1, <1>2 DEF PhonesKeep, Create, Expire, Confirm, Break, GiveUp, nfcVars, vars, TerminalTypeOK
  <2>3. UNCHANGED <<link, parts, cache>>
    BY <1>2 DEF Break, nfcVars, linkVars
  <2>4. \A v \in Workers : worker'[v] # Idle => worker[v] # Idle
    BY <1>1, <1>2 DEF Create, Expire, Confirm, Break, GiveUp, Become, nfcVars, vars, TerminalTypeOK
  <2>5. LinksSound'
    BY <1>1, <2>3, <2>4 DEF LinksSound
  <2>6. QED
    BY <1>1, <2>1, <2>2, <2>3, <2>5, AnswersKept
<1>3. ASSUME NEW w \in Workers, NEW op \in Ops, NEW p \in Phones,
             NfcStartDelivery(w, op, p) \/ NfcStartCollection(w, op, p)
      PROVE  [Next]_vars /\ LinksSound' /\ CacheSound'
  <2>1. StartDelivery(w, op, p) \/ StartCollection(w, op, p)
    BY <1>3 DEF NfcStartDelivery, NfcStartCollection
  <2>2. Connect(w, p)
    BY <1>3 DEF NfcStartDelivery, NfcStartCollection
  <2>3. UNCHANGED <<phone, held>> /\ \A v \in Workers : v # w => worker'[v] = worker[v]
    BY <1>1, <2>1 DEF StartDelivery, StartCollection, Become, TerminalTypeOK
  <2>4. PhonesKeep
    BY <2>3 DEF PhonesKeep
  <2>5. LinksSound'
    <3>1. link' = [link EXCEPT ![w] = [to |-> p, next |-> 0]] /\ UNCHANGED parts
      BY <2>2 DEF Connect
    <3>2. [to |-> p, next |-> 0] \in [to : Phones, next : Nat]
      OBVIOUS
    <3>3. QED
      BY <1>1, <2>3, <3>1, <3>2 DEF LinksSound
  <2>6. CacheSound'
    BY <1>1, <2>2, <2>4, AnswersKept DEF Connect
  <2>7. QED
    BY <2>1, <2>5, <2>6 DEF Next
<1>4. ASSUME NEW w \in Workers, ReadPart(w) \/ Close(w)
      PROVE  [Next]_vars /\ LinksSound' /\ CacheSound'
  <2>1. UNCHANGED vars /\ UNCHANGED <<phone, held, worker>>
    BY <1>4 DEF ReadPart, Close, vars
  <2>2. PhonesKeep
    BY <2>1 DEF PhonesKeep
  <2>3. CASE ReadPart(w)
    <3>1. Advance(w) /\ UNCHANGED <<parts, cache>>
      BY <2>3 DEF ReadPart
    <3>2. parts' \in [Phones -> [{"request", "ack"} -> Seq(Parts)]]
      BY <1>1, <3>1 DEF LinksSound
    <3>3. LinksSound'
      BY <1>1, <2>1, <3>1, <3>2, LinksStay
    <3>4. QED
      BY <1>1, <2>1, <2>2, <3>1, <3>3, AnswersKept
  <2>4. CASE Close(w)
    <3>1. /\ worker[w] = Idle /\ link' = [link EXCEPT ![w] = NoLink]
          /\ parts' = [parts EXCEPT ![link[w].to] = [kind \in {"request", "ack"} |-> <<>>]]
          /\ cache' = [cache EXCEPT ![link[w].to] = {}]
      BY <2>4 DEF Close, Clear
    <3>2. [kind \in {"request", "ack"} |-> <<>>] \in [{"request", "ack"} -> Seq(Parts)]
      OBVIOUS
    <3>3. parts' \in [Phones -> [{"request", "ack"} -> Seq(Parts)]]
      BY <1>1, <3>1, <3>2 DEF LinksSound
    <3>4. LinksSound'
      BY <1>1, <2>1, <3>1, <3>3 DEF LinksSound
    <3>5. cache' = [q \in Phones |-> cache'[q]] /\ \A q \in Phones : cache'[q] \subseteq cache[q]
      BY <1>1, <3>1 DEF CacheSound
    <3>6. \A q \in Phones : \A d \in cache'[q] :
            StatusSound(q, d)' \/ RequestSound(q, d)' \/ AckSound(q, d)'
      BY <1>1, <2>2, <3>5, AnswersStay DEF CacheSound
    <3>7. QED
      BY <2>1, <3>4, <3>5, <3>6 DEF CacheSound
  <2>5. QED
    BY <1>4, <2>3, <2>4
<1>5. QED
  BY <1>2, <1>3, <1>4

\* The invariant of the exchanges holds at first,
LEMMA ExchangeInit == NfcInit => NInv
<1> SUFFICES ASSUME NfcInit PROVE NInv
  OBVIOUS
<1>1. TInv
  BY InvariantInit DEF NfcInit
<1>2. \A w \in Workers : worker[w] = Idle
  BY DEF NfcInit, Init
<1>3. LinksSound
  BY <1>2 DEF NfcInit, LinksSound
<1>4. CacheSound
  BY DEF NfcInit, CacheSound
<1>5. QED
  BY <1>1, <1>3, <1>4 DEF NInv

\* every step keeps it, and is a step of the terminal or a stutter.
LEMMA ExchangeStep == NInv /\ [NfcNext]_nfcVars => [Next]_vars /\ NInv'
<1> SUFFICES ASSUME NInv, [NfcNext]_nfcVars PROVE [Next]_vars /\ NInv'
  OBVIOUS
<1>1. ASSUME NEW w \in Workers, SendRequest(w) \/ SendAck(w) \/ AskStatus(w) \/ Record(w)
      PROVE  [Next]_vars /\ LinksSound' /\ CacheSound'
  BY <1>1, RequestSent, AckSent, StatusAsked, Recorded
<1>2. [Next]_vars /\ LinksSound' /\ CacheSound'
  BY <1>1, OtherSteps DEF NfcNext, NfcMove, NfcStep, Refuse
<1>3. TInv'
  BY <1>2, InvariantStep DEF NInv
<1>4. QED
  BY <1>2, <1>3 DEF NInv

\* Fragment by fragment, an exchange does what PosTerminal says in one step, for any
\* number of workers and phones and any length of the messages (_accept_fragment).
THEOREM ExchangesAreAtomic == NfcSpec => ExchangeIsAtomic
<1>1. NfcInit => Init
  BY DEF NfcInit
<1>2. QED
  BY <1>1, ExchangeInit, ExchangeStep, PTL DEF NfcSpec, ExchangeIsAtomic, Spec

\* What holds of whole exchanges holds fragment by fragment: the evidence of an
\* operation belongs together and one ack leaves the terminal, whatever connections
\* overlap and whatever the phone repeats (collect_receipt, _accept_fragment).
THEOREM FragmentsKeepEvidence ==
  NfcSpec => [](EvidenceIsOfOneGrant /\ OneAckPerOperation) /\ AcceptanceStays
BY ExchangesAreAtomic, EvidenceBelongsTogether, OneAckIsGiven, AcceptanceIsKept, PTL
   DEF ExchangeIsAtomic

\* What a phone repeats is never ahead of what it stores: a repeated answer can
\* delay the terminal and cannot make it collect what is not there (transceive).
RepeatedIsBehind ==
    \A p \in Phones : \A e \in cache[p], op \in Ops :
        /\ e.apdu = [status |-> op] /\ e.answer = "receipt" => phone[p][op] = "receipt"
        /\ e.answer = "request" /\ e.apdu \in Parts /\ e.apdu.of.op = op => phone[p][op] # "nothing"
        /\ e.answer = "stored" /\ e.apdu.of.op = op => held[p][op] = e.apdu.of.ack

\* A repeated answer is never ahead of what the phone stores (transceive).
THEOREM RepeatsAreBehind == NfcSpec => []RepeatedIsBehind
<1>1. ASSUME NInv PROVE RepeatedIsBehind
  <2>1. SUFFICES ASSUME NEW p \in Phones, NEW e \in cache[p], NEW op \in Ops
                 PROVE  /\ e.apdu = [status |-> op] /\ e.answer = "receipt" => phone[p][op] = "receipt"
                        /\ e.answer = "request" /\ e.apdu \in Parts /\ e.apdu.of.op = op
                             => phone[p][op] # "nothing"
                        /\ e.answer = "stored" /\ e.apdu.of.op = op => held[p][op] = e.apdu.of.ack
    BY DEF RepeatedIsBehind
  <2>2. StatusSound(p, e) \/ RequestSound(p, e) \/ AckSound(p, e)
    BY <1>1 DEF NInv, CacheSound
  <2>3. CASE StatusSound(p, e)
    BY <2>3 DEF StatusSound, Parts
  <2>4. CASE RequestSound(p, e)
    BY <2>4 DEF RequestSound
  <2>5. CASE AckSound(p, e)
    BY <2>5 DEF AckSound
  <2>6. QED
    BY <2>2, <2>3, <2>4, <2>5
<1>2. QED
  BY <1>1, ExchangeInit, ExchangeStep, PTL DEF NfcSpec
=============================================================================
