------------------------------ MODULE PosSync ------------------------------
(***************************************************************************)
(* The terminal reports its accepted operations to the backend:            *)
(* pos_desktop/sync.py and the table operations of pos_desktop/database.py,*)
(* with the results as pos_desktop/backend_client.py normalises them.      *)
(*                                                                         *)
(* Concurrency.  Every press of the button starts a worker of the window's *)
(* thread pool, and the merchant may press again while one still runs or   *)
(* open a second window.  A lease in the database keeps others out for     *)
(* five minutes; its owner is the window, not the worker.  Each statement  *)
(* on the database is a transaction of its own and one step here, and so   *)
(* is each HTTP exchange.                                                  *)
(*                                                                         *)
(* The backend serves a batch operation by operation; its answer to one    *)
(* depends on no other, so the whole exchange is one step, in which any    *)
(* part of the batch may have been served before the connection broke.     *)
(***************************************************************************)
EXTENDS Naturals

CONSTANTS
    Ops,      \* operations whose evidence the terminal has
    Invalid,  \* those whose evidence the backend refuses
    Workers,  \* threads that run sync_due
    Windows,  \* windows of the application; each has its own lease owner
    WindowOf, \* the window a worker belongs to
    Closed,   \* stands for the owner of a window that was closed
    Nobody    \* no owner

ASSUME SyncAssumption ==
    /\ Invalid \subseteq Ops
    /\ WindowOf \in [Workers -> Windows]
    /\ {Closed, Nobody} \cap Windows = {} /\ Closed # Nobody

VARIABLES
    row,     \* operations: state, resolution and its recovery
    due,     \* operations whose next_sync_at is absent or has passed
    lease,   \* sync_lock: its owner, and whether expires_at has passed
    worker,  \* what each worker carries
    verdict  \* the backend's record of each operation

vars == <<row, due, lease, worker, verdict>>

----------------------------------------------------------------------------
(* Rows and answers.                                                       *)

Final == {"SYNCED", "REJECTED"}

Rows == [state : {"OPEN", "LOCALLY_ACCEPTED", "CONFLICT"} \cup Final,
         resolved : BOOLEAN, recovery : {"PENDING", "COMPLETE", "ATTENTION_REQUIRED"}]

\* What the backend may have of an operation: nothing, a payment, a case under
\* review, or the evidence of another receipt.
Verdicts == {"NONE", "ACCEPTED", "PENDING_REVIEW", "OTHER"}

\* The status of a result, after sync_operations.
Statuses == {"ACCEPTED", "CONFLICT", "RETRYABLE_ERROR"}

Idle == [step |-> "idle"]

Frames == {Idle}
    \cup [step : {"read", "list", "release"}]
    \cup [step : {"post", "retry", "recover"}, todo : SUBSET Ops]
    \cup UNION {[step : {"apply"}, result : [batch -> Statuses]] : batch \in SUBSET Ops}

\* An older version may have left some operations SYNCED without a resolution.
Init ==
    /\ \E old \in SUBSET (Ops \ Invalid) :
        /\ row = [op \in Ops |-> [state |-> IF op \in old THEN "SYNCED" ELSE "OPEN",
                                  resolved |-> FALSE, recovery |-> "PENDING"]]
        /\ verdict = [op \in Ops |-> IF op \in old THEN "ACCEPTED" ELSE "NONE"]
    /\ due = Ops
    /\ lease = [owner |-> Nobody, expired |-> FALSE]
    /\ worker = [w \in Workers |-> Idle]

Become(w, frame) == worker' = [worker EXCEPT ![w] = frame]

\* The end of a run, whether it returns or raises: the finally block follows.
Leave(w) == Become(w, [step |-> "release"])

----------------------------------------------------------------------------
(* The backend (CommitmentLedger), as one operation sees it.               *)

\* Serving the evidence of op settles it, the first time.
Served(op) ==
    IF verdict[op] = "NONE" /\ op \notin Invalid THEN {"ACCEPTED", "PENDING_REVIEW"} ELSE {verdict[op]}

\* MUTANT: an error of the backend is taken for a refusal
StatusStrict(op, v, busy) ==
    IF busy THEN "CONFLICT" ELSE IF v = "ACCEPTED" THEN "ACCEPTED" ELSE "CONFLICT"

\* sync_operations: a signed final result counts whatever became of this
\* submission; evidence that is invalid, in conflict or in review is CONFLICT.
Status(op, v, busy) ==
    IF busy THEN "RETRYABLE_ERROR" ELSE IF v = "ACCEPTED" THEN "ACCEPTED" ELSE "CONFLICT"

\* The payer's phone submits the same evidence, which is paid only with the ack of
\* the terminal, or another phone submits its own receipt of the operation.
PhoneSubmits(op) ==
    /\ verdict[op] = "NONE"
    /\ op \notin Invalid
    /\ \E v \in {"ACCEPTED", "PENDING_REVIEW", "OTHER"} :
        /\ v = "ACCEPTED" => row[op].state # "OPEN"
        /\ verdict' = [verdict EXCEPT ![op] = v]
    /\ UNCHANGED <<row, due, lease, worker>>

----------------------------------------------------------------------------
(* One run of sync_due.                                                    *)

\* MUTANT: a lease is only given up by its owner
AvailableNever(w) == lease.owner \in {Nobody, WindowOf[w]}

\* A lease keeps other owners out until it expires.
Available(w) == lease.owner \in {Nobody, WindowOf[w]} \/ lease.expired

\* A worker that finds the lease taken ends without any effect.
Acquire(w) ==
    /\ worker[w] = Idle
    /\ Available(w)
    /\ lease' = [owner |-> WindowOf[w], expired |-> FALSE]
    /\ Become(w, [step |-> "read"])
    /\ UNCHANGED <<row, due, verdict>>

\* MUTANT: what was flagged stays flagged
ReopenedNever == row

\* A manual run asks again for what was flagged (retry_attention_resolutions).
Reopened ==
    [op \in Ops |-> IF /\ row[op].recovery = "ATTENTION_REQUIRED"
                       /\ row[op].state \in Final
                       /\ ~row[op].resolved
                    THEN [row[op] EXCEPT !.recovery = "PENDING"] ELSE row[op]]

Candidates == {op \in due : row[op].state = "LOCALLY_ACCEPTED"}

Read(w) ==
    /\ worker[w].step = "read"
    /\ row' = Reopened
    /\ IF Candidates = {} THEN Become(w, [step |-> "list"])
                          ELSE Become(w, [step |-> "post", todo |-> Candidates])
    /\ UNCHANGED <<due, lease, verdict>>

\* The backend serves the batch, except the operations it fails on.
Answered(w, busy) ==
    /\ worker[w].step = "post"
    /\ LET batch == worker[w].todo IN
       \E v \in [batch -> Verdicts] :
          /\ \A op \in batch : v[op] \in IF op \in busy THEN {verdict[op]} ELSE Served(op)
          /\ verdict' = [op \in Ops |-> IF op \in batch THEN v[op] ELSE verdict[op]]
          /\ Become(w, [step |-> "apply",
                        result |-> [op \in batch |-> Status(op, v[op], op \in busy)]])
    /\ UNCHANGED <<row, due, lease>>

\* No answer comes, or one that cannot be read; the backend may have served any
\* part of the batch, and PhoneSubmits stands for what it serves later.
Unanswered(w) ==
    /\ worker[w].step = "post"
    /\ LET batch == worker[w].todo IN
       \E v \in [batch -> Verdicts] :
          /\ \A op \in batch : v[op] \in Served(op) \cup {verdict[op]}
          /\ verdict' = [op \in Ops |-> IF op \in batch THEN v[op] ELSE verdict[op]]
    /\ Become(w, [step |-> "retry", todo |-> worker[w].todo])
    /\ UNCHANGED <<row, due, lease>>

\* MUTANT: the UPDATE has no condition on the state
UpdatableAlways(op) == TRUE

Updatable(op) == row[op].state = "LOCALLY_ACCEPTED"

\* apply_sync_result: what a result makes of a row that waits for one.
Outcome(r, status) ==
    CASE status = "ACCEPTED" -> [state |-> "SYNCED", resolved |-> TRUE, recovery |-> "COMPLETE"]
      [] status = "CONFLICT" -> [r EXCEPT !.state = "CONFLICT"]
      [] OTHER -> [r EXCEPT !.state = "LOCALLY_ACCEPTED"]

Apply(op, status) ==
    /\ row' = [row EXCEPT ![op] = Outcome(@, status)]
    /\ due' = IF status = "RETRYABLE_ERROR" THEN due \ {op} ELSE due \cup {op}

\* The results are written one by one; the first whose row has changed raises,
\* and the others are dropped.
ApplyOne(w) ==
    /\ worker[w].step = "apply"
    /\ LET result == worker[w].result IN
       \/ /\ DOMAIN result = {}
          /\ Become(w, [step |-> "list"])
          /\ UNCHANGED <<row, due>>
       \/ \E op \in DOMAIN result :
            IF Updatable(op)
            THEN /\ Apply(op, result[op])
                 /\ Become(w, [step |-> "apply",
                               result |-> [o \in DOMAIN result \ {op} |-> result[o]]])
            ELSE Leave(w) /\ UNCHANGED <<row, due>>
    /\ UNCHANGED <<lease, verdict>>

\* After a failed exchange every operation of the batch waits for its next turn,
\* and the error is raised.
RetryOne(w) ==
    /\ worker[w].step = "retry"
    /\ LET todo == worker[w].todo IN
       \/ todo = {} /\ Leave(w) /\ UNCHANGED <<row, due>>
       \/ \E op \in todo :
            IF Updatable(op)
            THEN /\ Apply(op, "RETRYABLE_ERROR")
                 /\ Become(w, [step |-> "retry", todo |-> todo \ {op}])
            ELSE Leave(w) /\ UNCHANGED <<row, due>>
    /\ UNCHANGED <<lease, verdict>>

----------------------------------------------------------------------------
(* Recovery of final evidence (_recover_final).                            *)

Recoverable(op) == row[op].state \in Final /\ ~row[op].resolved /\ row[op].recovery = "PENDING"

List(w) ==
    /\ worker[w].step = "list"
    /\ Become(w, [step |-> "recover", todo |-> {op \in due : Recoverable(op)}])
    /\ UNCHANGED <<row, due, lease, verdict>>

RecoverNext(w, op) == Become(w, [step |-> "recover", todo |-> worker[w].todo \ {op}])

\* The backend has the signed resolution; it raises when the row has changed.
Attach(w, op) ==
    /\ verdict[op] = "ACCEPTED"
    /\ IF Recoverable(op)
       THEN /\ row' = [row EXCEPT ![op].resolved = TRUE, ![op].recovery = "COMPLETE"]
            /\ due' = due \cup {op}
            /\ RecoverNext(w, op)
       ELSE Leave(w) /\ UNCHANGED <<row, due>>

\* MUTANT: the row is flagged although its evidence has arrived meanwhile
FlaggableAlways(op) == row[op].state \in Final

Flaggable(op) == row[op].state \in Final /\ ~row[op].resolved

\* A definite refusal, or an answer that does not fit the evidence.
FlagAttention(w, op) ==
    /\ IF Flaggable(op)
       THEN row' = [row EXCEPT ![op].recovery = "ATTENTION_REQUIRED"] /\ due' = due \cup {op}
       ELSE UNCHANGED <<row, due>>
    /\ RecoverNext(w, op)

\* The backend could not be asked.
Postpone(w, op) ==
    /\ due' = IF Recoverable(op) THEN due \ {op} ELSE due
    /\ RecoverNext(w, op)
    /\ UNCHANGED row

RecoverOne(w) ==
    /\ worker[w].step = "recover"
    /\ \/ worker[w].todo = {} /\ Leave(w) /\ UNCHANGED <<row, due>>
       \/ \E op \in worker[w].todo :
            \/ Attach(w, op) \/ FlagAttention(w, op) \/ Postpone(w, op)
            \/ Leave(w) /\ UNCHANGED <<row, due>>   \* 401 or 403: it raises
    /\ UNCHANGED <<lease, verdict>>

\* The finally block deletes the lease of the window, also when another worker of
\* the window has taken it since.
Release(w) ==
    /\ worker[w].step = "release"
    /\ lease' = IF lease.owner = WindowOf[w] THEN [owner |-> Nobody, expired |-> FALSE] ELSE lease
    /\ Become(w, Idle)
    /\ UNCHANGED <<row, due, verdict>>

----------------------------------------------------------------------------
(* Environment.                                                            *)

\* The terminal accepts the receipt of an operation (PosTerminal).
AcceptLocally(op) ==
    /\ row[op].state = "OPEN"
    /\ row' = [row EXCEPT ![op].state = "LOCALLY_ACCEPTED"]
    /\ UNCHANGED <<due, lease, worker, verdict>>

BecomeDue(op) ==
    /\ op \notin due
    /\ due' = due \cup {op}
    /\ UNCHANGED <<row, lease, worker, verdict>>

\* Five minutes have passed since the lease was taken.
ExpireLease ==
    /\ lease.owner # Nobody
    /\ ~lease.expired
    /\ lease' = [lease EXCEPT !.expired = TRUE]
    /\ UNCHANGED <<row, due, worker, verdict>>

\* A window is closed or its process dies; the next one has a new owner.
CloseWindow(x) ==
    /\ \E w \in Workers : WindowOf[w] = x /\ worker[w] # Idle
    /\ worker' = [w \in Workers |-> IF WindowOf[w] = x THEN Idle ELSE worker[w]]
    /\ lease' = IF lease.owner = x THEN [lease EXCEPT !.owner = Closed] ELSE lease
    /\ UNCHANGED <<row, due, verdict>>

Step(w) ==
    \/ Read(w)
    \/ \E busy \in SUBSET Ops : Answered(w, busy)
    \/ Unanswered(w)
    \/ ApplyOne(w)
    \/ RetryOne(w)
    \/ List(w)
    \/ RecoverOne(w)
    \/ Release(w)

Next ==
    \/ \E w \in Workers : Acquire(w) \/ Step(w)
    \/ \E op \in Ops : AcceptLocally(op) \/ BecomeDue(op) \/ PhoneSubmits(op)
    \/ ExpireLease
    \/ \E x \in Windows : CloseWindow(x)

Spec == Init /\ [][Next]_vars

\* Time passes and a worker ends.  The merchant keeps pressing the button and does
\* not close the window during every run; the backend is neither busy nor out of
\* reach at every attempt.
Fairness ==
    /\ <>[][\A x \in Windows : ~CloseWindow(x)]_vars
    /\ WF_vars(ExpireLease)
    /\ \A op \in Ops : WF_vars(BecomeDue(op))
    /\ \A w \in Workers : WF_vars(Step(w))
    /\ SF_vars(\E w \in Workers : Acquire(w))
    /\ SF_vars(\E w \in Workers : Answered(w, {}))
    /\ \A op \in Ops : SF_vars(\E w \in Workers : RecoverOne(w) /\ ~row[op].resolved /\ row'[op].resolved)

FairSpec == Spec /\ Fairness

----------------------------------------------------------------------------
(* Properties.                                                             *)

\* Rows, the lease and what the workers carry have their form (database.py).
SyncTypeOK ==
    /\ row \in [Ops -> Rows]
    /\ due \subseteq Ops
    /\ lease \in [owner : Windows \cup {Closed, Nobody}, expired : BOOLEAN]
    /\ worker \in [Workers -> Frames]
    /\ verdict \in [Ops -> Verdicts]

\* The terminal shows an operation as paid only when the backend has paid it, and
\* as in conflict only when it has not, although answers are lost and the payer's
\* phone submits the same evidence (sync_operations, apply_sync_result).
LocalStateIsTrue ==
    \A op \in Ops :
        /\ row[op].state = "SYNCED" => verdict[op] = "ACCEPTED"
        /\ row[op].state = "CONFLICT" => verdict[op] # "ACCEPTED"

\* A row asks for its signed resolution exactly while it lacks it, whichever of
\* two runs attached or flagged it (attach_final_resolution, flag_resolution_recovery).
RecoveryMatchesEvidence ==
    \A op \in Ops : row[op].resolved <=> row[op].recovery = "COMPLETE"

\* What the merchant sees of an operation.
Shown(op) ==
    CASE row[op].state = "SYNCED" -> "PAID"
      [] row[op].state \in {"REJECTED", "CONFLICT"} -> "UNPAID"
      [] OTHER -> "NOTHING"

\* The rows of the terminal and the record of the backend, as the decisions that
\* they agree on (Settlement).
Settled == INSTANCE Settlement WITH
    Receipts <- {"receipt"}, None <- "none",
    receipt <- [op \in Ops |-> IF row[op].state = "OPEN" THEN "none" ELSE "receipt"],
    verdict <- [op \in Ops |-> IF op \in Invalid THEN "REFUSED" ELSE verdict[op]],
    shown <- [op \in Ops |-> Shown(op)]

\* An operation is reported once, with what the backend decided of it and never
\* before, and paid only after the terminal accepted its receipt: a late result or
\* a late failure of a slower run changes nothing (apply_sync_result, sync_due).
SettlesOnce == Settled!Spec

\* An accepted operation is eventually reported, whatever runs were broken off,
\* raised or left their lease behind.
AcceptedIsReported ==
    \A op \in Ops : row[op].state = "LOCALLY_ACCEPTED" ~> row[op].state \in {"SYNCED", "CONFLICT"}

\* The signed resolution of an operation that an older version reported is
\* eventually recovered, also after it was flagged for attention.
ResolutionIsRecovered ==
    \A op \in Ops : row[op].state = "SYNCED" ~> row[op].resolved
=============================================================================
