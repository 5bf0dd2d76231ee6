----------------------------- MODULE PosUpgrade -----------------------------
(***************************************************************************)
(* The start of the POS over its own database (pos_desktop/database.py,    *)
(* PosDatabase.migrate), by several windows at a time.  Each reads the     *)
(* version outside a transaction and then runs the scripts from there on,  *)
(* each in a transaction of its own.  SQLite serializes the transactions;  *)
(* a script that creates what exists fails, and is rolled back.            *)
(***************************************************************************)
EXTENDS Integers, FiniteSets

CONSTANT Starters     \* windows that may start

VARIABLES
    version,    \* PRAGMA user_version
    objects,    \* what the scripts create
    starter     \* the version that each window believes in, or Down

posUpgradeVars == <<version, objects, starter>>

Latest == 7
Down == -1

\* What the script for each version creates, and the version it leaves.
Creates == [v \in 0 .. Latest - 1 |->
    <<{"tables", "retries"}, {"retries"}, {"profile_and_lock"}, {"authorizations"},
      {"issuers"}, {"resolutions"}, {"recovery"}>>[v + 1]]

VersionAfter(v) == IF v = 0 THEN 2 ELSE v + 1

\* The version that brought each object, and the objects of a database of version v.
Since == [tables |-> 1, retries |-> 2, profile_and_lock |-> 3, authorizations |-> 4,
          issuers |-> 5, resolutions |-> 6, recovery |-> 7]

ObjectsOf(v) == {x \in DOMAIN Since : Since[x] <= v}

\* MUTANT: CREATE ... IF NOT EXISTS, and columns added only when they are missing
AppliesAnyway(v) == TRUE

\* No CREATE and no ALTER of the script finds its object made.
Applies(v) == Creates[v] \cap objects = {}

\* A database of any version up to the present one.
PosUpgradeInit ==
    /\ version \in 0 .. Latest
    /\ objects = ObjectsOf(version)
    /\ starter = [s \in Starters |-> Down]

ReadVersion(s) ==
    /\ starter[s] = Down
    /\ starter' = [starter EXCEPT ![s] = version]
    /\ UNCHANGED <<version, objects>>

RunScript(s) ==
    /\ starter[s] \in DOMAIN Creates
    /\ Applies(starter[s])
    /\ objects' = objects \cup Creates[starter[s]]
    /\ version' = VersionAfter(starter[s])
    /\ starter' = [starter EXCEPT ![s] = VersionAfter(@)]

\* The script fails and ends the window.
ScriptFails(s) ==
    /\ starter[s] \in DOMAIN Creates
    /\ ~Applies(starter[s])
    /\ starter' = [starter EXCEPT ![s] = Down]
    /\ UNCHANGED <<version, objects>>

\* The window is closed, or the machine stops, between two scripts or later.
StopWindow(s) ==
    /\ starter[s] # Down
    /\ starter' = [starter EXCEPT ![s] = Down]
    /\ UNCHANGED <<version, objects>>

PosUpgradeNext ==
    \E s \in Starters : ReadVersion(s) \/ RunScript(s) \/ ScriptFails(s) \/ StopWindow(s)

PosUpgradeSpec == PosUpgradeInit /\ [][PosUpgradeNext]_posUpgradeVars

\* However the starts of several windows interleave, and wherever they end, the
\* database has exactly the objects of the version it declares, so that the next
\* start continues where the last one stopped, and no window runs on less than it
\* needs.
SchemaMatchesVersion ==
    /\ objects = ObjectsOf(version)
    /\ \A s \in Starters : starter[s] = Latest => version = Latest
=============================================================================
