--------------------------- MODULE MCTransactions ---------------------------
(***************************************************************************)
(* Safety of what transactions go through, side by side: how they commit,  *)
(* how they wait for each other's locks, and how a mutation that is called *)
(* again is recognised.  Each behaviour is one of the part named by        *)
(* `active`, while the others keep an initial state.                       *)
(***************************************************************************)
EXTENDS MCTwoPhaseCommit, DeadlockAvoidance, IdempotentMutations

VARIABLE active

transactionsVars == <<active, vars, deadlockVars, idempotentVars>>

\* Three transactions and two states: crossed demands, and two upgrades.
Demand(s, m) == [state |-> s, mode |-> m]
MCDemands ==
    "a" :> {Demand("x", "exclusive"), Demand("y", "shared")}
    @@ "b" :> {Demand("x", "shared"), Demand("y", "exclusive"), Demand("y", "shared")}
    @@ "c" :> {Demand("x", "shared"), Demand("x", "exclusive")}

\* Two calls carry the same mutation, the third one of a workflow that may expire.
MCMutationOf ==
    "p" :> [scope |-> "plain", key |-> "k"] @@ "q" :> [scope |-> "plain", key |-> "k"]
    @@ "w" :> [scope |-> "workflow", key |-> "e"]

\* What was answered is history, and the more was, the more the properties
\* ask: every row found at the start counts as answered.
TransactionsInit ==
    /\ active \in {"commit", "deadlock", "idempotent"}
    /\ Init /\ DeadlockInit /\ IdempotentInit
    /\ answers = rows
    /\ active # "idempotent" => prepared = {} /\ rows = {}

TransactionsNext ==
    /\ \/ active = "commit" /\ Next /\ UNCHANGED <<deadlockVars, idempotentVars>>
       \/ active = "deadlock" /\ DeadlockNext /\ UNCHANGED <<vars, idempotentVars>>
       \/ active = "idempotent" /\ IdempotentNext /\ UNCHANGED <<vars, deadlockVars>>
    /\ UNCHANGED active

TransactionsSpec == TransactionsInit /\ [][TransactionsNext]_transactionsVars
=============================================================================
