--------------------------- MODULE LoginThrottle ---------------------------
(***************************************************************************)
(* The login of the backend (main.py, login_usuario) and the counters of   *)
(* failed attempts that limit it (auth.py, LoginThrottle).  A login tests  *)
(* the counter of its address and the one of its identity, verifies the    *)
(* password and then updates both, each time in a critical section of its  *)
(* own, so that several logins may be between a test and its update.  All  *)
(* logins of the model come from one address.                              *)
(***************************************************************************)
EXTENDS Naturals, FiniteSets

CONSTANTS
    Sessions,         \* threads of the pool that serve logins
    Users,            \* identities, known to the backend or not
    Address,          \* the address the logins come from
    MaximumAttempts   \* failures after which a counter locks

ASSUME ThrottleAssumption ==
    /\ IsFiniteSet(Sessions) /\ Address \notin Users
    /\ MaximumAttempts \in Nat \ {0}

VARIABLES
    failures,  \* failed attempts of the address and of every identity
    elapsed,   \* the last failure of a counter is older than lock_seconds
    login      \* what each thread carries from one critical section to the next

loginVars == <<failures, elapsed, login>>

Buckets == Users \cup {Address}

NoLogin == [at |-> "none"]

\* The points between the critical sections of one login.
Attempts ==
    [at : {"identity", "verify", "failing", "passing", "granted"},
     user : Users, valid : BOOLEAN]

\* MUTANT: a lock never ends
LockedForEver(b) == failures[b] >= MaximumAttempts

\* LoginThrottle.check answers 429.
Locked(b) == failures[b] >= MaximumAttempts /\ ~elapsed[b]

\* MUTANT: a lock that has ended is not removed
CheckedKept(b) == ~Locked(b) /\ UNCHANGED <<failures, elapsed>>

\* LoginThrottle.check lets the login pass; a lock that has ended is removed.
Checked(b) ==
    /\ ~Locked(b)
    /\ failures' = [failures EXCEPT ![b] = IF @ >= MaximumAttempts THEN 0 ELSE @]
    /\ elapsed' = [elapsed EXCEPT ![b] = FALSE]

\* LoginThrottle.fail.
Failed(b) ==
    /\ failures' = [failures EXCEPT ![b] = @ + 1]
    /\ elapsed' = [elapsed EXCEPT ![b] = FALSE]

\* LoginThrottle.succeed.
Succeeded(b) ==
    /\ failures' = [failures EXCEPT ![b] = 0]
    /\ elapsed' = [elapsed EXCEPT ![b] = FALSE]

LoginInit ==
    /\ failures = [b \in Buckets |-> 0]
    /\ elapsed = [b \in Buckets |-> FALSE]
    /\ login = [s \in Sessions |-> NoLogin]

\* A login of user u arrives and its address is not locked.  If it is, the answer
\* is 429 and nothing changes, the time of the last failure neither.
CheckAddress(s, u, valid) ==
    /\ login[s] = NoLogin
    /\ Checked(Address)
    /\ login' = [login EXCEPT ![s] = [at |-> "identity", user |-> u, valid |-> valid]]

CheckIdentity(s) ==
    /\ login[s].at = "identity"
    /\ Checked(login[s].user)
    /\ login' = [login EXCEPT ![s].at = "verify"]

\* The identity is locked: 429, and no failure is counted.
RefuseIdentity(s) ==
    /\ login[s].at = "identity"
    /\ Locked(login[s].user)
    /\ login' = [login EXCEPT ![s] = NoLogin]
    /\ UNCHANGED <<failures, elapsed>>

\* The password is wrong: the address counts a failure, then the identity does.
FailAddress(s) ==
    /\ login[s].at = "verify" /\ ~login[s].valid
    /\ Failed(Address)
    /\ login' = [login EXCEPT ![s].at = "failing"]

FailIdentity(s) ==
    /\ login[s].at = "failing"
    /\ Failed(login[s].user)
    /\ login' = [login EXCEPT ![s] = NoLogin]

\* The password is right: both counters are removed and a token is granted.
ClearAddress(s) ==
    /\ login[s].at = "verify" /\ login[s].valid
    /\ Succeeded(Address)
    /\ login' = [login EXCEPT ![s].at = "passing"]

ClearIdentity(s) ==
    /\ login[s].at = "passing"
    /\ Succeeded(login[s].user)
    /\ login' = [login EXCEPT ![s].at = "granted"]

\* The holder of the token is done with it.
Leave(s) ==
    /\ login[s].at = "granted"
    /\ login' = [login EXCEPT ![s] = NoLogin]
    /\ UNCHANGED <<failures, elapsed>>

\* lock_seconds pass without another failure of a locked counter.
TimePasses(b) ==
    /\ Locked(b)
    /\ elapsed' = [elapsed EXCEPT ![b] = TRUE]
    /\ UNCHANGED <<failures, login>>

\* The counters live in the memory of the process: a restart forgets them, and
\* the logins in progress.
RestartThrottle ==
    /\ failures' = [b \in Buckets |-> 0]
    /\ elapsed' = [b \in Buckets |-> FALSE]
    /\ login' = [s \in Sessions |-> IF login[s].at = "granted" THEN login[s] ELSE NoLogin]

LoginStep(s) ==
    \/ CheckIdentity(s) \/ RefuseIdentity(s)
    \/ FailAddress(s) \/ FailIdentity(s)
    \/ ClearAddress(s) \/ ClearIdentity(s)

LoginNext ==
    \/ \E s \in Sessions, u \in Users, valid \in BOOLEAN : CheckAddress(s, u, valid)
    \/ \E s \in Sessions : LoginStep(s) \/ Leave(s)
    \/ \E b \in Buckets : TimePasses(b)
    \/ RestartThrottle

LoginSpec == LoginInit /\ [][LoginNext]_loginVars

\* The steps of a login of user u with the right password.
RightLogin(u, Step(_)) ==
    \E s \in Sessions : login[s].at # "none" /\ login[s].user = u /\ login[s].valid /\ Step(s)

\* Time passes and a login that was let in ends (weak).  Whoever knows a password
\* keeps trying, and neither a lock nor a restart meets every attempt (strong).
LoginFairness ==
    /\ \A b \in Buckets : WF_loginVars(TimePasses(b))
    /\ \A s \in Sessions : WF_loginVars(LoginStep(s)) /\ WF_loginVars(Leave(s))
    /\ \A u \in Users :
        /\ SF_loginVars(\E s \in Sessions : CheckAddress(s, u, TRUE))
        /\ SF_loginVars(RightLogin(u, CheckIdentity))
        /\ SF_loginVars(RightLogin(u, ClearAddress))
        /\ SF_loginVars(RightLogin(u, ClearIdentity))

----------------------------------------------------------------------------
(* Properties.                                                             *)

LoginTypeOK ==
    /\ failures \in [Buckets -> Nat]
    /\ elapsed \in [Buckets -> BOOLEAN]
    /\ login \in [Sessions -> Attempts \cup {NoLogin}]

\* The logins that passed the test of counter b and may still add a failure to it.
Passed(b) ==
    {s \in Sessions :
        \/ b = Address /\ login[s].at \in {"identity", "verify"}
        \/ login[s].at \in {"verify", "failing"} /\ login[s].user = b}

\* Counting in another critical section than the test lets a counter pass its
\* limit, but only by the logins that one pool of threads can have in progress:
\* no interleaving lets a locked counter grow without bound (auth.py:75-90).
OvershootBounded ==
    \A b \in Buckets :
        failures[b] + Cardinality(Passed(b)) < MaximumAttempts + Cardinality(Sessions)

NobodyErrs == \A s \in Sessions : login[s].at # "none" => login[s].valid

\* Locks are lifted in the end: once nobody behind the address mistypes any more,
\* whoever knows a password gets in again and again, whatever counters the failures,
\* the interleavings and the restarts before have left.
LockIsLifted ==
    <>[]NobodyErrs =>
        \A u \in Users : []<>(\E s \in Sessions : login[s].at = "granted" /\ login[s].user = u)
=============================================================================
