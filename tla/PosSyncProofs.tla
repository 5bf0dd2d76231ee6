--------------------------- MODULE PosSyncProofs ---------------------------
(***************************************************************************)
(* The terminal shows what the backend has decided, for any number of      *)
(* operations, windows and workers: neither the lease nor its length is    *)
(* needed, only the conditions of the UPDATEs and that the backend does    *)
(* not go back on what it answered.                                        *)
(***************************************************************************)
EXTENDS PosSync, TLAPS

----------------------------------------------------------------------------
(* Frames.                                                                 *)

\* What a worker carries at each step of a run.
LEMMA FrameFields ==
  ASSUME NEW f \in Frames
  PROVE  /\ f.step \in {"post", "retry", "recover"} => f.todo \subseteq Ops
         /\ f.step = "apply" => /\ DOMAIN f.result \subseteq Ops
                                /\ f.result \in [DOMAIN f.result -> Statuses]
<1>1. CASE f = Idle
  BY <1>1 DEF Idle
<1>2. CASE f \in [step : {"read", "list", "release"}]
  BY <1>2
<1>3. CASE f \in [step : {"post", "retry", "recover"}, todo : SUBSET Ops]
  BY <1>3
<1>4. ASSUME NEW batch \in SUBSET Ops, f \in [step : {"apply"}, result : [batch -> Statuses]]
      PROVE  f.step = "apply" /\ DOMAIN f.result \subseteq Ops /\ f.result \in [DOMAIN f.result -> Statuses]
  BY <1>4
<1>5. QED
  BY <1>1, <1>2, <1>3, <1>4 DEF Frames

\* The frames that the steps of a run leave behind.
LEMMA FrameTypes ==
  /\ Idle \in Frames
  /\ \A step \in {"read", "list", "release"} : [step |-> step] \in Frames
  /\ \A step \in {"post", "retry", "recover"}, todo \in SUBSET Ops : [step |-> step, todo |-> todo] \in Frames
  /\ \A batch \in SUBSET Ops : \A result \in [batch -> Statuses] :
        [step |-> "apply", result |-> result] \in Frames
BY DEF Frames

----------------------------------------------------------------------------
(* The inductive invariant.                                                *)

\* The backend has decided an operation, and not by paying it.
Refused(op) == verdict[op] \in {"PENDING_REVIEW", "OTHER"} \/ (op \in Invalid /\ verdict[op] = "NONE")

\* What the terminal shows of an operation has its cause in the backend.
RowsTrue ==
    \A op \in Ops : /\ row[op].state = "SYNCED" => verdict[op] = "ACCEPTED"
                    /\ row[op].state = "CONFLICT" => Refused(op)

\* So has every result that a worker has still to write.
True(f, op) == /\ f.result[op] = "ACCEPTED" => verdict[op] = "ACCEPTED"
               /\ f.result[op] = "CONFLICT" => Refused(op)

ResultsTrue ==
    \A w \in Workers : worker[w].step = "apply" =>
        \A op \in DOMAIN worker[w].result : True(worker[w], op)

SInv == SyncTypeOK /\ RecoveryMatchesEvidence /\ RowsTrue /\ ResultsTrue

----------------------------------------------------------------------------
(* What one step makes of a row, and of the backend's record.              *)

Agree(r) == r \in Rows /\ (r.resolved <=> r.recovery = "COMPLETE")

StateMoves(op, r, s) ==
    \/ s.state = r.state
    \/ r.state = "OPEN" /\ s.state = "LOCALLY_ACCEPTED"
    \/ r.state = "LOCALLY_ACCEPTED" /\ s.state = "SYNCED" /\ verdict[op] = "ACCEPTED"
    \/ r.state = "LOCALLY_ACCEPTED" /\ s.state = "CONFLICT" /\ Refused(op)

RowMoves(op) == Agree(row'[op]) /\ StateMoves(op, row[op], row'[op])

\* A result makes of a row that waits for one what the backend has decided.
LEMMA OutcomeMoves ==
  ASSUME NEW op \in Ops, NEW r, Agree(r), r.state = "LOCALLY_ACCEPTED", NEW status \in Statuses,
         status = "ACCEPTED" => verdict[op] = "ACCEPTED", status = "CONFLICT" => Refused(op)
  PROVE  Agree(Outcome(r, status)) /\ StateMoves(op, r, Outcome(r, status))
<1>1. CASE status = "ACCEPTED"
  BY <1>1 DEF Outcome, Agree, StateMoves, Rows, Final
<1>2. CASE status = "CONFLICT"
  BY <1>2 DEF Outcome, Agree, StateMoves, Rows, Final
<1>3. CASE status = "RETRYABLE_ERROR"
  BY <1>3 DEF Outcome, Agree, StateMoves, Rows, Final
<1>4. QED
  BY <1>1, <1>2, <1>3 DEF Statuses

\* The steps of the recovery write these columns.
LEMMA RecoveryMoves ==
  ASSUME NEW op \in Ops, NEW r, Agree(r)
  PROVE  /\ LET s == [r EXCEPT !.resolved = TRUE, !.recovery = "COMPLETE"] IN
              Agree(s) /\ StateMoves(op, r, s)
         /\ ~r.resolved => \A status \in {"PENDING", "ATTENTION_REQUIRED"} :
              LET s == [r EXCEPT !.recovery = status] IN Agree(s) /\ StateMoves(op, r, s)
         /\ r.state = "OPEN" =>
              LET s == [r EXCEPT !.state = "LOCALLY_ACCEPTED"] IN Agree(s) /\ StateMoves(op, r, s)
BY DEF Agree, StateMoves, Rows

\* Every step moves every row in one of these ways.
LEMMA RowsMove ==
  ASSUME SInv, [Next]_vars
  PROVE  row' = [op \in Ops |-> row'[op]] /\ \A op \in Ops : RowMoves(op)
<1> DEFINE Good == row' = [op \in Ops |-> row'[op]] /\ \A op \in Ops : RowMoves(op)
<1>1. /\ row \in [Ops -> Rows] /\ worker \in [Workers -> Frames]
      /\ \A op \in Ops : Agree(row[op]) /\ StateMoves(op, row[op], row[op])
  BY DEF SInv, SyncTypeOK, RecoveryMatchesEvidence, Agree, StateMoves
<1>2. ASSUME UNCHANGED row PROVE Good
  BY <1>1, <1>2 DEF RowMoves
<1>3. ASSUME NEW op \in Ops, NEW s, row' = [row EXCEPT ![op] = s], Agree(s),
             StateMoves(op, row[op], s)
      PROVE  Good
  BY <1>1, <1>3 DEF RowMoves
<1> HIDE DEF Good
<1>4. ASSUME NEW op \in Ops, AcceptLocally(op) PROVE Good
  <2>1. row' = [row EXCEPT ![op] = [row[op] EXCEPT !.state = "LOCALLY_ACCEPTED"]]
    BY <1>4 DEF AcceptLocally
  <2>2. QED
    BY <1>1, <1>3, <1>4, <2>1, RecoveryMoves DEF AcceptLocally
<1>5. ASSUME NEW w \in Workers, Read(w) PROVE Good
  <2>1. row' = Reopened
    BY <1>5 DEF Read
  <2>2. ASSUME NEW op \in Ops PROVE RowMoves(op)
    <3>1. CASE row'[op] = row[op]
      BY <1>1, <3>1 DEF RowMoves
    <3>2. CASE row'[op] = [row[op] EXCEPT !.recovery = "PENDING"] /\ ~row[op].resolved
      <4> DEFINE s == [row[op] EXCEPT !.recovery = "PENDING"]
      <4>1. Agree(s) /\ StateMoves(op, row[op], s)
        BY <1>1, <3>2, RecoveryMoves
      <4> HIDE DEF s
      <4>2. row'[op] = s
        BY <3>2 DEF s
      <4>3. QED
        BY <4>1, <4>2 DEF RowMoves
    <3>3. QED
      BY <2>1, <3>1, <3>2 DEF Reopened
  <2>3. row' = [op \in Ops |-> row'[op]]
    BY <2>1 DEF Reopened
  <2>4. QED
    BY <2>2, <2>3 DEF Good
<1>6. ASSUME NEW w \in Workers, ApplyOne(w) PROVE Good
  <2>1. CASE UNCHANGED row
    BY <1>2, <2>1
  <2>2. ASSUME NEW op \in DOMAIN worker[w].result, Updatable(op), Apply(op, worker[w].result[op])
        PROVE  Good
    <3> DEFINE status == worker[w].result[op]
    <3>1. op \in Ops /\ status \in Statuses
      BY <1>1, <1>6, <2>2, FrameFields DEF ApplyOne
    <3>2. /\ status = "ACCEPTED" => verdict[op] = "ACCEPTED"
          /\ status = "CONFLICT" => Refused(op)
      BY <1>6, <2>2 DEF ApplyOne, SInv, ResultsTrue, True
    <3>3. row' = [row EXCEPT ![op] = Outcome(row[op], status)]
      BY <2>2 DEF Apply
    <3> HIDE DEF status
    <3>4. QED
      BY <1>1, <1>3, <2>2, <3>1, <3>2, <3>3, OutcomeMoves DEF Updatable
  <2>3. QED
    BY <1>6, <2>1, <2>2 DEF ApplyOne
<1>7. ASSUME NEW w \in Workers, RetryOne(w) PROVE Good
  <2>1. CASE UNCHANGED row
    BY <1>2, <2>1
  <2>2. ASSUME NEW op \in worker[w].todo, Updatable(op), Apply(op, "RETRYABLE_ERROR")
        PROVE  Good
    <3>1. op \in Ops
      BY <1>1, <1>7, <2>2, FrameFields DEF RetryOne
    <3>2. row' = [row EXCEPT ![op] = Outcome(row[op], "RETRYABLE_ERROR")]
      BY <2>2 DEF Apply
    <3>3. QED
      BY <1>1, <1>3, <2>2, <3>1, <3>2, OutcomeMoves DEF Updatable, Statuses
  <2>3. QED
    BY <1>7, <2>1, <2>2 DEF RetryOne
<1>8. ASSUME NEW w \in Workers, RecoverOne(w) PROVE Good
  <2>1. CASE UNCHANGED row
    BY <1>2, <2>1
  <2>2. ASSUME NEW op \in worker[w].todo, Attach(w, op) PROVE Good
    <3>1. op \in Ops
      BY <1>1, <1>8, <2>2, FrameFields DEF RecoverOne
    <3>2. CASE Recoverable(op)
      <4>1. row' = [row EXCEPT ![op] = [row[op] EXCEPT !.resolved = TRUE, !.recovery = "COMPLETE"]]
        BY <1>1, <2>2, <3>1, <3>2 DEF Attach
      <4>2. QED
        BY <1>1, <1>3, <3>1, <4>1, RecoveryMoves
    <3>3. CASE ~Recoverable(op)
      BY <2>1, <2>2, <3>3 DEF Attach
    <3>4. QED
      BY <3>2, <3>3
  <2>3. ASSUME NEW op \in worker[w].todo, FlagAttention(w, op) PROVE Good
    <3>1. op \in Ops
      BY <1>1, <1>8, <2>3, FrameFields DEF RecoverOne
    <3>2. CASE Flaggable(op)
      <4>1. row' = [row EXCEPT ![op] = [row[op] EXCEPT !.recovery = "ATTENTION_REQUIRED"]]
        BY <2>3, <3>2 DEF FlagAttention
      <4>2. QED
        BY <1>1, <1>3, <3>1, <3>2, <4>1, RecoveryMoves DEF Flaggable
    <3>3. CASE ~Flaggable(op)
      BY <2>1, <2>3, <3>3 DEF FlagAttention
    <3>4. QED
      BY <3>2, <3>3
  <2>4. QED
    BY <1>8, <2>1, <2>2, <2>3 DEF RecoverOne, Postpone
<1>9. QED
  BY <1>2, <1>4, <1>5, <1>6, <1>7, <1>8
     DEF Good, Next, Step, Acquire, Answered, Unanswered, List, Release, BecomeDue, PhoneSubmits,
         ExpireLease, CloseWindow, vars

\* The backend does not go back on what it has decided.
Stands(op) == /\ verdict'[op] \in Verdicts
              /\ verdict[op] = "ACCEPTED" => verdict'[op] = "ACCEPTED"
              /\ Refused(op) => Refused(op)'

LEMMA VerdictsStand ==
  ASSUME SInv, [Next]_vars
  PROVE  verdict' \in [Ops -> Verdicts] /\ \A op \in Ops : Stands(op)
<1>1. verdict \in [Ops -> Verdicts] /\ worker \in [Workers -> Frames]
  BY DEF SInv, SyncTypeOK
<1> DEFINE Good == verdict' \in [Ops -> Verdicts] /\ \A op \in Ops : Stands(op)
<1>2. ASSUME NEW w \in Workers, NEW batch \in SUBSET Ops, NEW v \in [batch -> Verdicts],
             \A op \in batch : v[op] \in Served(op) \cup {verdict[op]},
             verdict' = [op \in Ops |-> IF op \in batch THEN v[op] ELSE verdict[op]]
      PROVE  Good
  <2>1. ASSUME NEW op \in Ops PROVE Stands(op)
    BY <1>1, <1>2 DEF Stands, Served, Refused, Verdicts
  <2>2. QED
    BY <1>1, <1>2, <2>1
<1>3. ASSUME NEW op \in Ops, PhoneSubmits(op) PROVE Good
  BY <1>1, <1>3 DEF PhoneSubmits, Stands, Refused, Verdicts
<1>4. CASE UNCHANGED verdict
  BY <1>1, <1>4 DEF Stands, Refused
<1> HIDE DEF Good
<1>5. ASSUME NEW w \in Workers, NEW busy \in SUBSET Ops, Answered(w, busy) PROVE Good
  <2>1. worker[w].todo \subseteq Ops
    BY <1>1, <1>5, FrameFields DEF Answered
  <2>2. QED
    BY <1>2, <1>5, <2>1 DEF Answered
<1>6. ASSUME NEW w \in Workers, Unanswered(w) PROVE Good
  <2>1. worker[w].todo \subseteq Ops
    BY <1>1, <1>6, FrameFields DEF Unanswered
  <2>2. QED
    BY <1>2, <1>6, <2>1 DEF Unanswered
<1>7. QED
  BY <1>3, <1>4, <1>5, <1>6
     DEF Good, Next, Step, Acquire, Read, ApplyOne, RetryOne, List, RecoverOne, Release,
         AcceptLocally, BecomeDue, ExpireLease, CloseWindow, vars

----------------------------------------------------------------------------
(* Workers.                                                                *)

\* Every result of a frame has its cause in the record of the backend.
Caused(f, record) ==
    f.step = "apply" => \A op \in DOMAIN f.result :
        /\ f.result[op] = "ACCEPTED" => record[op] = "ACCEPTED"
        /\ f.result[op] = "CONFLICT" =>
             record[op] \in {"PENDING_REVIEW", "OTHER"} \/ (op \in Invalid /\ record[op] = "NONE")

\* A frame that a step leaves alone keeps its causes.
LEMMA CausedStays ==
  ASSUME SInv, [Next]_vars, NEW f \in Frames, Caused(f, verdict)
  PROVE  Caused(f, verdict')
BY VerdictsStand, FrameFields DEF Caused, Stands, Refused

\* The workers that a step moves.
LEMMA WorkersMove ==
  ASSUME SInv, [Next]_vars
  PROVE  /\ worker' \in [Workers -> Frames]
         /\ \A w \in Workers : Caused(worker'[w], verdict')
<1>1. /\ worker \in [Workers -> Frames] /\ verdict \in [Ops -> Verdicts]
      /\ \A w \in Workers : Caused(worker[w], verdict)
  BY DEF SInv, SyncTypeOK, ResultsTrue, True, Refused, Caused
<1>2. \A w \in Workers : Caused(worker[w], verdict')
  BY <1>1, CausedStays
<1> DEFINE Good == /\ worker' \in [Workers -> Frames]
                   /\ \A w \in Workers : Caused(worker'[w], verdict')
<1>3. ASSUME NEW w \in Workers, NEW f \in Frames, Caused(f, verdict'), Become(w, f) PROVE Good
  BY <1>1, <1>2, <1>3 DEF Become
<1>4. ASSUME NEW w \in Workers, NEW f \in Frames, f.step # "apply", Become(w, f) PROVE Good
  BY <1>3, <1>4 DEF Caused
<1>5. CASE UNCHANGED worker
  BY <1>1, <1>2, <1>5
<1> HIDE DEF Good
<1>6. ASSUME NEW w \in Workers, NEW step \in {"read", "list", "release"}, Become(w, [step |-> step])
      PROVE  Good
  BY <1>4, <1>6, FrameTypes
<1>7. ASSUME NEW w \in Workers, Leave(w) PROVE Good
  BY <1>6, <1>7 DEF Leave
<1>8. ASSUME NEW w \in Workers, NEW step \in {"post", "retry", "recover"}, NEW todo \in SUBSET Ops,
             Become(w, [step |-> step, todo |-> todo])
      PROVE  Good
  BY <1>4, <1>8, FrameTypes
<1>9. ASSUME NEW w \in Workers, Acquire(w) \/ Release(w) PROVE Good
  <2>1. Idle \in Frames /\ Idle.step # "apply"
    BY FrameTypes DEF Idle
  <2>2. QED
    BY <1>4, <1>6, <1>9, <2>1 DEF Acquire, Release
<1>10. ASSUME NEW w \in Workers, Read(w) \/ List(w) PROVE Good
  <2>1. Candidates \subseteq Ops /\ {op \in due : Recoverable(op)} \subseteq Ops
    BY DEF Candidates, SInv, SyncTypeOK
  <2>2. QED
    BY <1>6, <1>8, <1>10, <2>1 DEF Read, List
<1>11. ASSUME NEW w \in Workers, NEW busy \in SUBSET Ops, Answered(w, busy) PROVE Good
  <2> DEFINE batch == worker[w].todo
  <2>1. batch \subseteq Ops
    BY <1>1, <1>11, FrameFields DEF Answered
  <2>2. PICK v \in [batch -> Verdicts] :
          /\ \A op \in batch : v[op] \in IF op \in busy THEN {verdict[op]} ELSE Served(op)
          /\ verdict' = [op \in Ops |-> IF op \in batch THEN v[op] ELSE verdict[op]]
          /\ Become(w, [step |-> "apply",
                        result |-> [op \in batch |-> Status(op, v[op], op \in busy)]])
    BY <1>11 DEF Answered
  <2> DEFINE result == [op \in batch |-> Status(op, v[op], op \in busy)]
             f == [step |-> "apply", result |-> result]
  <2>3. result \in [batch -> Statuses]
    BY DEF Status, Statuses
  <2>4. f \in Frames
    BY <2>1, <2>3, FrameTypes
  <2>5. ASSUME NEW op \in batch
        PROVE  /\ result[op] = "ACCEPTED" => verdict'[op] = "ACCEPTED"
               /\ result[op] = "CONFLICT" =>
                    \/ verdict'[op] \in {"PENDING_REVIEW", "OTHER"}
                    \/ op \in Invalid /\ verdict'[op] = "NONE"
    <3>1. verdict'[op] = v[op] /\ v[op] \in Verdicts /\ op \in Ops
      BY <2>1, <2>2
    <3>2. result[op] = Status(op, v[op], op \in busy)
      OBVIOUS
    <3>3. op \notin busy => v[op] \in Served(op)
      BY <2>2
    <3>4. op \notin busy /\ v[op] = "NONE" => op \in Invalid
      BY <1>1, <3>1, <3>3 DEF Served
    <3>5. QED
      BY <3>1, <3>2, <3>4 DEF Status, Verdicts
  <2>6. Caused(f, verdict')
    BY <2>5 DEF Caused
  <2>7. QED
    BY <1>3, <2>2, <2>4, <2>6
<1>12. ASSUME NEW w \in Workers, Unanswered(w) PROVE Good
  BY <1>1, <1>8, <1>12, FrameFields DEF Unanswered
<1>13. ASSUME NEW w \in Workers, ApplyOne(w) PROVE Good
  <2>1. CASE Become(w, [step |-> "list"]) \/ Leave(w)
    BY <1>6, <1>7, <2>1
  <2>2. ASSUME NEW op \in DOMAIN worker[w].result,
               Become(w, [step |-> "apply", result |->
                            [o \in DOMAIN worker[w].result \ {op} |-> worker[w].result[o]]])
        PROVE  Good
    <3> DEFINE rest == DOMAIN worker[w].result \ {op}
               f == [step |-> "apply", result |-> [o \in rest |-> worker[w].result[o]]]
    <3>1. rest \in SUBSET Ops /\ [o \in rest |-> worker[w].result[o]] \in [rest -> Statuses]
      BY <1>1, <1>13, FrameFields DEF ApplyOne
    <3>2. f \in Frames
      BY <3>1, FrameTypes
    <3>3. Caused(f, verdict')
      BY <1>2, <1>13 DEF Caused, ApplyOne
    <3>4. QED
      BY <1>3, <2>2, <3>2, <3>3
  <2>3. QED
    BY <1>13, <2>1, <2>2 DEF ApplyOne
<1>14. ASSUME NEW w \in Workers, RetryOne(w) \/ RecoverOne(w) PROVE Good
  <2>1. worker[w].todo \subseteq Ops
    BY <1>1, <1>14, FrameFields DEF RetryOne, RecoverOne
  <2>2. QED
    BY <1>7, <1>8, <1>14, <2>1
       DEF RetryOne, RecoverOne, Attach, FlagAttention, Postpone, RecoverNext
<1>15. ASSUME NEW x \in Windows, CloseWindow(x) PROVE Good
  BY <1>1, <1>2, <1>15, FrameTypes DEF CloseWindow, Good, Caused, Idle
<1>16. QED
  BY <1>5, <1>9, <1>10, <1>11, <1>12, <1>13, <1>14, <1>15
     DEF Good, Next, Step, AcceptLocally, BecomeDue, PhoneSubmits, ExpireLease, vars

----------------------------------------------------------------------------
(* The invariant is inductive.                                             *)

\* It holds when the application starts on a database of an older version.
LEMMA InvariantInit == Init => SInv
<1> SUFFICES ASSUME Init PROVE SInv
  OBVIOUS
<1>1. PICK old \in SUBSET (Ops \ Invalid) :
        /\ row = [op \in Ops |-> [state |-> IF op \in old THEN "SYNCED" ELSE "OPEN",
                                  resolved |-> FALSE, recovery |-> "PENDING"]]
        /\ verdict = [op \in Ops |-> IF op \in old THEN "ACCEPTED" ELSE "NONE"]
  BY DEF Init
<1>2. SyncTypeOK
  <2>1. row \in [Ops -> Rows] /\ verdict \in [Ops -> Verdicts]
    BY <1>1 DEF Rows, Final, Verdicts
  <2>2. worker \in [Workers -> Frames] /\ due \subseteq Ops
        /\ lease \in [owner : Windows \cup {Closed, Nobody}, expired : BOOLEAN]
    BY FrameTypes DEF Init
  <2>3. QED
    BY <2>1, <2>2 DEF SyncTypeOK
<1>3. RecoveryMatchesEvidence /\ RowsTrue
  BY <1>1 DEF RecoveryMatchesEvidence, RowsTrue
<1>4. ResultsTrue
  BY DEF Init, ResultsTrue, Idle
<1>5. QED
  BY <1>2, <1>3, <1>4 DEF SInv

\* Every step keeps it.
LEMMA InvariantStep == SInv /\ [Next]_vars => SInv'
<1> SUFFICES ASSUME SInv, [Next]_vars PROVE SInv'
  OBVIOUS
<1>1. /\ row \in [Ops -> Rows] /\ due \subseteq Ops /\ worker \in [Workers -> Frames]
      /\ lease \in [owner : Windows \cup {Closed, Nobody}, expired : BOOLEAN]
  BY DEF SInv, SyncTypeOK
<1>2. row' \in [Ops -> Rows] /\ RecoveryMatchesEvidence'
  BY RowsMove DEF RowMoves, Agree, RecoveryMatchesEvidence
<1>3. due' \subseteq Ops
  <2>1. \A w \in Workers : worker[w].step \in {"retry", "recover"} => worker[w].todo \subseteq Ops
    BY <1>1, FrameFields
  <2>2. \A w \in Workers : worker[w].step = "apply" => DOMAIN worker[w].result \subseteq Ops
    BY <1>1, FrameFields
  <2>3. ASSUME NEW w \in Workers, ApplyOne(w) PROVE due' \subseteq Ops
    BY <1>1, <2>2, <2>3 DEF ApplyOne, Apply
  <2>4. ASSUME NEW w \in Workers, RetryOne(w) PROVE due' \subseteq Ops
    BY <1>1, <2>1, <2>4 DEF RetryOne, Apply
  <2>5. ASSUME NEW w \in Workers, RecoverOne(w) PROVE due' \subseteq Ops
    BY <1>1, <2>1, <2>5 DEF RecoverOne, Attach, FlagAttention, Postpone
  <2>6. QED
    BY <1>1, <2>3, <2>4, <2>5
       DEF Next, Step, Acquire, Read, Answered, Unanswered, List, Release, AcceptLocally, BecomeDue,
           PhoneSubmits, ExpireLease, CloseWindow, vars
<1> DEFINE Leased == lease' \in [owner : Windows \cup {Closed, Nobody}, expired : BOOLEAN]
<1>4. Leased
  <2>0. lease \in [owner : Windows \cup {Closed, Nobody}, expired : BOOLEAN]
    BY <1>1
  <2>1. ASSUME NEW w \in Workers, Acquire(w) PROVE Leased
    <3>1. WindowOf[w] \in Windows /\ FALSE \in BOOLEAN
      BY SyncAssumption DEF SyncAssumption
    <3>2. lease' = [owner |-> WindowOf[w], expired |-> FALSE]
      BY <2>1 DEF Acquire
    <3>3. QED
      BY <3>1, <3>2
  <2>2. ASSUME NEW w \in Workers, Release(w) PROVE Leased
    <3>1. CASE lease' = [owner |-> Nobody, expired |-> FALSE]
      <4>1. Nobody \in Windows \cup {Closed, Nobody} /\ FALSE \in BOOLEAN
        OBVIOUS
      <4>2. QED
        BY <3>1, <4>1
    <3>2. CASE lease' = lease
      BY <2>0, <3>2
    <3>3. QED
      BY <2>2, <3>1, <3>2 DEF Release
  <2>3. ASSUME ExpireLease PROVE Leased
    BY <2>0, <2>3 DEF ExpireLease
  <2>4. ASSUME NEW x \in Windows, CloseWindow(x) PROVE Leased
    <3>1. lease' = [lease EXCEPT !.owner = Closed] \/ lease' = lease
      BY <2>4 DEF CloseWindow
    <3>2. QED
      BY <2>0, <3>1
  <2>5. CASE UNCHANGED lease
    BY <2>0, <2>5
  <2> HIDE DEF Leased
  <2>6. QED
    BY <2>1, <2>2, <2>3, <2>4, <2>5
       DEF Next, Step, Read, Answered, Unanswered, ApplyOne, RetryOne, List, RecoverOne,
           AcceptLocally, BecomeDue, PhoneSubmits, vars
<1>5. SyncTypeOK'
  BY <1>2, <1>3, <1>4, VerdictsStand, WorkersMove DEF SyncTypeOK
<1>6. RowsTrue'
  BY RowsMove, VerdictsStand DEF SInv, RowsTrue, RowMoves, StateMoves, Stands
<1>7. ResultsTrue'
  BY WorkersMove DEF ResultsTrue, True, Refused, Caused
<1>8. QED
  BY <1>2, <1>5, <1>6, <1>7 DEF SInv

\* It is an invariant.
LEMMA Invariant == Spec => []SInv
<1>1. QED
  BY InvariantInit, InvariantStep, PTL DEF Spec

----------------------------------------------------------------------------
(* Theorems.                                                               *)

\* Rows, lease and workers keep their form (database.py).
THEOREM SyncTypeCorrect == Spec => []SyncTypeOK
<1>1. SInv => SyncTypeOK
  BY DEF SInv
<1>2. QED
  BY Invariant, <1>1, PTL

\* The terminal shows an operation as paid only when it is, and as in conflict only
\* when it is not, for any number of windows and runs and whatever answers are lost
\* (sync_operations, apply_sync_result).
THEOREM TerminalShowsTheTruth == Spec => []LocalStateIsTrue
<1>1. SInv => LocalStateIsTrue
  BY DEF SInv, RowsTrue, Refused, LocalStateIsTrue
<1>2. QED
  BY Invariant, <1>1, PTL

\* A row asks for its resolution exactly while it lacks it
\* (attach_final_resolution, flag_resolution_recovery, retry_attention_resolutions).
THEOREM RecoveryIsExact == Spec => []RecoveryMatchesEvidence
<1>1. SInv => RecoveryMatchesEvidence
  BY DEF SInv
<1>2. QED
  BY Invariant, <1>1, PTL

\* What was reported stays reported: a late result or a late failure of a slower
\* run does not reopen it (the condition on state of apply_sync_result).
ReportedStays ==
    [][\A op \in Ops : row[op].state \in Final \cup {"CONFLICT"} => row'[op].state = row[op].state]_row

\* What was reported stays reported, whatever a slower run still writes
\* (the condition on state of apply_sync_result).
THEOREM ReportsAreFinal == Spec => ReportedStays
<1> DEFINE Kept == \A op \in Ops :
              row[op].state \in Final \cup {"CONFLICT"} => row'[op].state = row[op].state
<1>1. SInv /\ [Next]_vars => [Kept]_row
  BY RowsMove DEF RowMoves, StateMoves, Final
<1>2. QED
  BY Invariant, <1>1, PTL DEF Spec, ReportedStays

----------------------------------------------------------------------------
(* The terminal and the backend settle an operation once.                  *)

\* The terminal has the receipt of every operation that a worker submits.
SubmitsWhatItHas(f) == f.step = "post" => \A op \in f.todo : row[op].state # "OPEN"

SubmittedAreKnown == \A w \in Workers : SubmitsWhatItHas(worker[w])

\* A worker comes to submit only what it has just read.
LEMMA SubmittedStep ==
  ASSUME SInv, SubmittedAreKnown, [Next]_vars
  PROVE  SubmittedAreKnown'
<1>1. /\ worker \in [Workers -> Frames] /\ row' \in [Ops -> Rows]
      /\ \A op \in Ops : row[op].state # "OPEN" => row'[op].state # "OPEN"
  BY RowsMove DEF SInv, SyncTypeOK, RowMoves, StateMoves, Agree
<1>2. \A w \in Workers : worker[w].step = "post" =>
        worker[w].todo \subseteq Ops /\ \A op \in worker[w].todo : row'[op].state # "OPEN"
  BY <1>1, FrameFields DEF SubmittedAreKnown, SubmitsWhatItHas
<1>3. ASSUME NEW w \in Workers, NEW g, Become(w, g),
             g.step = "post" => \A op \in g.todo : row'[op].state # "OPEN"
      PROVE  SubmittedAreKnown'
  BY <1>1, <1>2, <1>3 DEF Become, SubmittedAreKnown, SubmitsWhatItHas
<1>4. CASE UNCHANGED worker
  BY <1>2, <1>4 DEF SubmittedAreKnown, SubmitsWhatItHas
<1>5. ASSUME NEW w \in Workers, Read(w) PROVE SubmittedAreKnown'
  <2>1. CASE Become(w, [step |-> "list"])
    BY <1>3, <2>1
  <2>2. CASE Become(w, [step |-> "post", todo |-> Candidates])
    <3>1. \A op \in Candidates : op \in Ops /\ row[op].state # "OPEN"
      BY DEF SInv, SyncTypeOK, Candidates
    <3>2. QED
      BY <1>1, <1>3, <2>2, <3>1
  <2>3. QED
    BY <1>5, <2>1, <2>2 DEF Read
<1>6. ASSUME NEW w \in Workers, NEW g, Become(w, g), g.step # "post" PROVE SubmittedAreKnown'
  BY <1>3, <1>6
<1>7. ASSUME NEW x \in Windows, CloseWindow(x) PROVE SubmittedAreKnown'
  BY <1>1, <1>2, <1>7 DEF CloseWindow, SubmittedAreKnown, SubmitsWhatItHas, Idle
<1>8. ASSUME NEW w \in Workers, Acquire(w) \/ Release(w) \/ List(w) PROVE SubmittedAreKnown'
  BY <1>6, <1>8 DEF Acquire, Release, List, Idle
<1>9. ASSUME NEW w \in Workers, Leave(w) PROVE SubmittedAreKnown'
  BY <1>6, <1>9 DEF Leave
<1>10. ASSUME NEW w \in Workers, NEW busy \in SUBSET Ops, Answered(w, busy) PROVE SubmittedAreKnown'
  BY <1>6, <1>10 DEF Answered
<1>11. ASSUME NEW w \in Workers, Unanswered(w) \/ RetryOne(w) \/ ApplyOne(w) PROVE SubmittedAreKnown'
  BY <1>6, <1>9, <1>11 DEF Unanswered, RetryOne, ApplyOne
<1>12. ASSUME NEW w \in Workers, RecoverOne(w) PROVE SubmittedAreKnown'
  BY <1>6, <1>9, <1>12 DEF RecoverOne, Attach, FlagAttention, Postpone, RecoverNext
<1>13. QED
  BY <1>4, <1>5, <1>7, <1>8, <1>10, <1>11, <1>12
     DEF Next, Step, AcceptLocally, BecomeDue, PhoneSubmits, ExpireLease, vars

\* What a step makes of a row, as Settlement reads it: nothing, the acknowledgement
\* of a receipt, or the report of what was decided.
LEMMA RowSettles ==
  ASSUME SInv, [Next]_vars
  PROVE  \/ \A op \in Ops : Shown(op)' = Shown(op) /\ (row'[op].state = "OPEN" <=> row[op].state = "OPEN")
         \/ \E op \in Ops : /\ \A o \in Ops \ {op} : row'[o] = row[o]
                           /\ row'[op].state # row[op].state
                           /\ UNCHANGED verdict
<1> DEFINE Same == \A op \in Ops : row'[op].state = row[op].state
           One == \E op \in Ops : /\ \A o \in Ops \ {op} : row'[o] = row[o]
                                 /\ UNCHANGED verdict
<1>1. row \in [Ops -> Rows] /\ worker \in [Workers -> Frames]
  BY DEF SInv, SyncTypeOK
<1>2. CASE UNCHANGED row
  BY <1>2 DEF Shown
<1>3. ASSUME NEW w \in Workers, Read(w) PROVE Same
  BY <1>1, <1>3 DEF Read, Reopened, Rows
<1>4. ASSUME NEW w \in Workers, ApplyOne(w) \/ RetryOne(w) \/ RecoverOne(w), row' # row PROVE One
  <2>1. UNCHANGED verdict
    BY <1>4 DEF ApplyOne, RetryOne, RecoverOne
  <2>2. worker[w].step = "apply" => DOMAIN worker[w].result \subseteq Ops
    BY <1>1, FrameFields
  <2>3. worker[w].step \in {"retry", "recover"} => worker[w].todo \subseteq Ops
    BY <1>1, FrameFields
  <2>4. \E op \in Ops : \A o \in Ops \ {op} : row'[o] = row[o]
    BY <1>1, <1>4, <2>2, <2>3 DEF ApplyOne, RetryOne, RecoverOne, Apply, Attach, FlagAttention, Postpone
  <2>5. QED
    BY <2>1, <2>4
<1>5. ASSUME NEW op \in Ops, AcceptLocally(op) PROVE One
  BY <1>1, <1>5 DEF AcceptLocally
<1>6. Same \/ One
  <2> HIDE DEF Same, One
  <2>1. UNCHANGED row => Same
    BY DEF Same
  <2>2. QED
    BY <1>3, <1>4, <1>5, <2>1
       DEF Next, Step, Acquire, Answered, Unanswered, List, Release, BecomeDue, PhoneSubmits,
           ExpireLease, CloseWindow, vars
<1>7. CASE Same
  BY <1>7 DEF Shown
<1>8. CASE ~Same /\ One
  <2>1. PICK op \in Ops : (\A o \in Ops \ {op} : row'[o] = row[o]) /\ UNCHANGED verdict
    BY <1>8
  <2>2. row'[op].state # row[op].state
    BY <1>8, <2>1
  <2>3. QED
    BY <2>1, <2>2
<1>9. QED
  BY <1>6, <1>7, <1>8

\* What the backend decides in a step, it decides of operations whose receipt the
\* terminal has, if it pays them.
LEMMA VerdictSettles ==
  ASSUME SInv, SubmittedAreKnown, [Next]_vars
  PROVE  \/ UNCHANGED verdict
         \/ /\ UNCHANGED row
            /\ \A op \in Ops : \/ verdict'[op] = verdict[op]
                              \/ /\ verdict[op] = "NONE" /\ op \notin Invalid
                                 /\ verdict'[op] \in {"ACCEPTED", "PENDING_REVIEW", "OTHER"}
                                 /\ verdict'[op] = "ACCEPTED" => row[op].state # "OPEN"
<1> DEFINE Good == \A op \in Ops : \/ verdict'[op] = verdict[op]
                              \/ /\ verdict[op] = "NONE" /\ op \notin Invalid
                                 /\ verdict'[op] \in {"ACCEPTED", "PENDING_REVIEW", "OTHER"}
                                 /\ verdict'[op] = "ACCEPTED" => row[op].state # "OPEN"
<1>1. verdict \in [Ops -> Verdicts] /\ worker \in [Workers -> Frames]
  BY DEF SInv, SyncTypeOK
<1>2. ASSUME NEW w \in Workers, worker[w].step = "post", NEW batch, batch = worker[w].todo,
             NEW v \in [batch -> Verdicts], \A op \in batch : v[op] \in Served(op) \cup {verdict[op]},
             verdict' = [op \in Ops |-> IF op \in batch THEN v[op] ELSE verdict[op]]
      PROVE  Good
  <2>1. batch \subseteq Ops /\ \A op \in batch : row[op].state # "OPEN"
    BY <1>1, <1>2, FrameFields DEF SubmittedAreKnown, SubmitsWhatItHas
  <2>2. QED
    BY <1>1, <1>2, <2>1 DEF Served
<1>3. ASSUME NEW op \in Ops, PhoneSubmits(op) PROVE Good
  BY <1>1, <1>3 DEF PhoneSubmits
<1> HIDE DEF Good
<1>4. ASSUME NEW w \in Workers, NEW busy \in SUBSET Ops, Answered(w, busy) PROVE Good
  BY <1>2, <1>4 DEF Answered
<1>5. ASSUME NEW w \in Workers, Unanswered(w) PROVE Good
  BY <1>2, <1>5 DEF Unanswered
<1>6. UNCHANGED verdict \/ (UNCHANGED row /\ Good)
  BY <1>3, <1>4, <1>5
     DEF Next, Step, Acquire, Read, ApplyOne, RetryOne, List, RecoverOne, Release, Answered,
         Unanswered, AcceptLocally, BecomeDue, PhoneSubmits, ExpireLease, CloseWindow, vars
<1>7. QED
  BY <1>6 DEF Good

\* What the backend refuses it never decides, and no result rejects a payment.
RefusedUndecided == \A op \in Invalid : verdict[op] = "NONE"

NeverRejected == \A op \in Ops : row[op].state # "REJECTED"

SettleInv == SInv /\ SubmittedAreKnown /\ RefusedUndecided /\ NeverRejected

\* The invariant holds at the start and is kept.
LEMMA SettleInvariant ==
  /\ Init => SettleInv
  /\ SettleInv /\ [Next]_vars => SettleInv'
<1>1. ASSUME Init PROVE SettleInv
  <2>1. SInv
    BY <1>1, InvariantInit
  <2>2. SubmittedAreKnown
    BY <1>1 DEF Init, SubmittedAreKnown, SubmitsWhatItHas, Idle
  <2>3. RefusedUndecided /\ NeverRejected
    <3>1. PICK old \in SUBSET (Ops \ Invalid) :
            /\ row = [op \in Ops |-> [state |-> IF op \in old THEN "SYNCED" ELSE "OPEN",
                                      resolved |-> FALSE, recovery |-> "PENDING"]]
            /\ verdict = [op \in Ops |-> IF op \in old THEN "ACCEPTED" ELSE "NONE"]
      BY <1>1 DEF Init
    <3>2. Invalid \subseteq Ops
      BY SyncAssumption
    <3>3. QED
      BY <3>1, <3>2 DEF RefusedUndecided, NeverRejected
  <2>4. QED
    BY <2>1, <2>2, <2>3 DEF SettleInv
<1>2. ASSUME SettleInv, [Next]_vars PROVE SettleInv'
  <2>1. SInv' /\ SubmittedAreKnown'
    BY <1>2, InvariantStep, SubmittedStep DEF SettleInv
  <2>2. RefusedUndecided'
    BY <1>2, VerdictSettles, SyncAssumption DEF SettleInv, RefusedUndecided, SyncAssumption
  <2>3. NeverRejected'
    BY <1>2, RowsMove DEF SettleInv, NeverRejected, RowMoves, StateMoves
  <2>4. QED
    BY <2>1, <2>2, <2>3 DEF SettleInv
<1>3. QED
  BY <1>1, <1>2

\* The registers of Settlement, as functions of the rows.
ReceiptOf == [op \in Ops |-> IF row[op].state = "OPEN" THEN "none" ELSE "receipt"]
VerdictOf == [op \in Ops |-> IF op \in Invalid THEN "REFUSED" ELSE verdict[op]]
ShownOf == [op \in Ops |-> Shown(op)]

\* What Settlement says of them, where the invariant holds.
LEMMA SettledAgreement ==
  ASSUME SettleInv
  PROVE  Settled!SettlementTypeOK /\ \A op \in Ops :
           Shown(op) # "NOTHING" => VerdictOf[op] # "NONE" /\ Shown(op) = Settled!Told(VerdictOf[op])
<1>1. /\ row \in [Ops -> Rows] /\ verdict \in [Ops -> Verdicts] /\ Invalid \subseteq Ops
      /\ RowsTrue /\ RefusedUndecided /\ NeverRejected
  BY SyncAssumption DEF SettleInv, SInv, SyncTypeOK, SyncAssumption
<1>2. \A op \in Ops : Shown(op) \in {"NOTHING", "PAID", "UNPAID"}
  BY DEF Shown
<1>3. Settled!SettlementTypeOK
  <2>1. VerdictOf \in [Ops -> {"ACCEPTED", "PENDING_REVIEW", "OTHER", "REFUSED"} \cup {"NONE"}]
    BY <1>1 DEF VerdictOf, Verdicts
  <2>2. ReceiptOf \in [Ops -> {"receipt"} \cup {"none"}]
    BY DEF ReceiptOf
  <2>3. ShownOf \in [Ops -> {"NOTHING", "PAID", "UNPAID"}]
    BY <1>2 DEF ShownOf
  <2>4. QED
    BY <2>1, <2>2, <2>3
       DEF Settled!SettlementTypeOK, Settled!Decisions, VerdictOf, ReceiptOf, ShownOf
<1>4. ASSUME NEW op \in Ops, Shown(op) # "NOTHING"
      PROVE  VerdictOf[op] # "NONE" /\ Shown(op) = Settled!Told(VerdictOf[op])
  <2>1. CASE row[op].state = "SYNCED"
    <3>1. verdict[op] = "ACCEPTED" /\ op \notin Invalid
      BY <1>1, <2>1 DEF RowsTrue, RefusedUndecided
    <3>2. QED
      BY <2>1, <3>1 DEF Shown, VerdictOf, Settled!Told
  <2>2. CASE row[op].state = "CONFLICT"
    <3>1. VerdictOf[op] \in {"PENDING_REVIEW", "OTHER", "REFUSED"}
      BY <1>1, <2>2 DEF RowsTrue, Refused, VerdictOf
    <3>2. Shown(op) = "UNPAID"
      BY <2>2 DEF Shown
    <3>3. QED
      BY <3>1, <3>2 DEF Settled!Told
  <2>3. QED
    BY <1>1, <1>4, <2>1, <2>2 DEF Shown, NeverRejected
<1>5. QED
  BY <1>3, <1>4

\* What is shown of an operation was decided.
ShownAgrees(op) ==
    Shown(op) # "NOTHING" => VerdictOf[op] # "NONE" /\ Shown(op) = Settled!Told(VerdictOf[op])

\* It says so of the next state too.
LEMMA ShownStaysTrue == SettleInv' => (\A op \in Ops : ShownAgrees(op))'
<1>1. SettleInv => \A op \in Ops : ShownAgrees(op)
  BY SettledAgreement DEF ShownAgrees
<1>2. QED
  BY <1>1, PTL

\* Every step acknowledges, decides or shows.
LEMMA SettledStep ==
  SettleInv /\ [Next]_vars => [Settled!Next]_(Settled!vars)
<1> SUFFICES ASSUME SettleInv, [Next]_vars PROVE Settled!Next \/ UNCHANGED Settled!vars
  OBVIOUS
<1>1. /\ row \in [Ops -> Rows] /\ verdict \in [Ops -> Verdicts] /\ SInv /\ SubmittedAreKnown
      /\ row' \in [Ops -> Rows] /\ verdict' \in [Ops -> Verdicts] /\ SettleInv'
  BY SettleInvariant DEF SettleInv, SInv, SyncTypeOK
<1>2. CASE UNCHANGED verdict /\ \A op \in Ops : Shown(op)' = Shown(op)
                                              /\ (row'[op].state = "OPEN" <=> row[op].state = "OPEN")
  <2>1. UNCHANGED <<ReceiptOf, VerdictOf, ShownOf>>
    BY <1>2 DEF ReceiptOf, VerdictOf, ShownOf
  <2>2. QED
    BY <2>1 DEF Settled!vars, ReceiptOf, VerdictOf, ShownOf
<1>3. ASSUME NEW op \in Ops, \A o \in Ops \ {op} : row'[o] = row[o],
             row'[op].state # row[op].state, UNCHANGED verdict
      PROVE  Settled!Next
  <2>1. StateMoves(op, row[op], row'[op]) /\ UNCHANGED VerdictOf
    BY <1>1, <1>3, RowsMove DEF RowMoves, VerdictOf
  <2>2. \A o \in Ops \ {op} : Shown(o)' = Shown(o)
    BY <1>3 DEF Shown
  <2>3. CASE row[op].state = "OPEN"
    <3>1. row'[op].state = "LOCALLY_ACCEPTED" /\ Shown(op)' = Shown(op)
      BY <1>3, <2>1, <2>3 DEF StateMoves, Shown
    <3>2. UNCHANGED ShownOf
      BY <2>2, <3>1 DEF ShownOf
    <3>3. ReceiptOf' = [ReceiptOf EXCEPT ![op] = "receipt"] /\ ReceiptOf[op] = "none"
      BY <1>3, <2>3, <3>1 DEF ReceiptOf
    <3>4. Settled!Acknowledge(op, "receipt")
      BY <2>1, <3>2, <3>3 DEF Settled!Acknowledge, ReceiptOf, VerdictOf, ShownOf
    <3>5. QED
      BY <3>4 DEF Settled!Next
  <2>4. CASE row[op].state = "LOCALLY_ACCEPTED"
    <3>1. row'[op].state \in {"SYNCED", "CONFLICT"} /\ Shown(op) = "NOTHING" /\ Shown(op)' # "NOTHING"
      BY <1>3, <2>1, <2>4 DEF StateMoves, Shown
    <3>2. ReceiptOf' = ReceiptOf
      BY <1>3, <2>4, <3>1 DEF ReceiptOf
    <3>3. VerdictOf[op] # "NONE" /\ Shown(op)' = Settled!Told(VerdictOf[op])
      <4>1. (ShownAgrees(op))'
        BY <1>1, ShownStaysTrue
      <4>2. (Settled!Told(VerdictOf[op]))' = Settled!Told(VerdictOf[op]) /\ VerdictOf'[op] = VerdictOf[op]
        BY <2>1 DEF Settled!Told
      <4>3. QED
        BY <3>1, <4>1, <4>2 DEF ShownAgrees
    <3>4. ShownOf' = [ShownOf EXCEPT ![op] = Settled!Told(VerdictOf[op])]
      BY <2>2, <3>3 DEF ShownOf
    <3>5. Settled!Show(op)
      BY <2>1, <3>1, <3>2, <3>3, <3>4 DEF Settled!Show, ReceiptOf, VerdictOf, ShownOf
    <3>6. QED
      BY <3>5 DEF Settled!Next
  <2>5. QED
    BY <1>3, <2>1, <2>3, <2>4 DEF StateMoves
<1>4. ASSUME UNCHANGED row,
             \A op \in Ops : \/ verdict'[op] = verdict[op]
                            \/ /\ verdict[op] = "NONE" /\ op \notin Invalid
                               /\ verdict'[op] \in {"ACCEPTED", "PENDING_REVIEW", "OTHER"}
                               /\ verdict'[op] = "ACCEPTED" => row[op].state # "OPEN"
      PROVE  Settled!Next
  <2>1. UNCHANGED <<ReceiptOf, ShownOf>>
    BY <1>4 DEF ReceiptOf, ShownOf, Shown
  <2>2. VerdictOf' \in [Ops -> Settled!Decisions \cup {"NONE"}]
    BY <1>1 DEF VerdictOf, Settled!Decisions, Verdicts
  <2>3. \A op \in Ops : VerdictOf'[op] # VerdictOf[op] =>
           VerdictOf[op] = "NONE" /\ VerdictOf'[op] \in Settled!Decidable(op)
    BY <1>4 DEF VerdictOf, Settled!Decidable, Settled!Decisions
  <2>4. Settled!Decide
    BY <2>1, <2>2, <2>3 DEF Settled!Decide, ReceiptOf, VerdictOf, ShownOf
  <2>5. QED
    BY <2>4 DEF Settled!Next
<1>5. QED
  BY <1>1, <1>2, <1>3, <1>4, RowSettles, VerdictSettles

\* The synchronisation settles every operation once, whatever answers are lost and
\* whatever slower runs still write: it shows what the backend decided, when it was
\* decided, and the backend pays only what the terminal acknowledged.
THEOREM SynchronisationSettles == Spec => SettlesOnce
<1>1. Init => Settled!Init
  <2> SUFFICES ASSUME Init PROVE Settled!Init
    OBVIOUS
  <2>1. SettleInv
    BY SettleInvariant
  <2>2. \A op \in Ops : VerdictOf[op] = "ACCEPTED" => ReceiptOf[op] # "none"
    BY DEF Init, VerdictOf, ReceiptOf
  <2>3. Settled!Agreement
    BY <2>1, <2>2, SettledAgreement DEF Settled!Agreement, VerdictOf, ReceiptOf, ShownOf
  <2>4. QED
    BY <2>1, <2>3, SettledAgreement DEF Settled!Init
<1>2. QED
  BY <1>1, SettleInvariant, SettledStep, PTL DEF Spec, SettlesOnce, Settled!Spec

\* The backend has paid only what the terminal accepted.
PaidWasAccepted == \A op \in Ops : verdict[op] = "ACCEPTED" => row[op].state # "OPEN"

\* It holds at the start and is kept.
LEMMA PaidInvariant ==
  /\ Init => PaidWasAccepted
  /\ SettleInv /\ PaidWasAccepted /\ [Next]_vars => PaidWasAccepted'
<1>1. Init => PaidWasAccepted
  BY DEF Init, PaidWasAccepted
<1>2. ASSUME SettleInv, PaidWasAccepted, [Next]_vars PROVE PaidWasAccepted'
  <2>1. \A op \in Ops : row[op].state # "OPEN" => row'[op].state # "OPEN"
    BY <1>2, RowsMove DEF SettleInv, RowMoves, StateMoves
  <2>2. \A op \in Ops : \/ verdict'[op] = verdict[op]
                        \/ verdict'[op] = "ACCEPTED" => row[op].state # "OPEN"
    BY <1>2, VerdictSettles DEF SettleInv
  <2>3. QED
    BY <1>2, <2>1, <2>2 DEF PaidWasAccepted
<1>3. QED
  BY <1>1, <1>2

\* Terminal, backend and merchant agree at every moment: what the merchant is told is
\* what the backend decided, and it paid only what the terminal accepted, although
\* the payer's phone submits evidence too (sync_v3, accept_receipt_and_ack).
THEOREM RegistersAgree == Spec => [](Settled!Agreement)
<1>1. SettleInv /\ PaidWasAccepted => Settled!Agreement
  <2> SUFFICES ASSUME SettleInv, PaidWasAccepted PROVE Settled!Agreement
    OBVIOUS
  <2>1. \A op \in Ops : VerdictOf[op] = "ACCEPTED" => ReceiptOf[op] # "none"
    BY DEF PaidWasAccepted, VerdictOf, ReceiptOf
  <2>2. QED
    BY <2>1, SettledAgreement DEF Settled!Agreement, VerdictOf, ReceiptOf, ShownOf
<1>2. QED
  BY <1>1, SettleInvariant, PaidInvariant, PTL DEF Spec
=============================================================================
