------------------------- MODULE IdempotentMutations -------------------------
(***************************************************************************)
(* How a mutation of one state that carries an idempotency key is          *)
(* recognised when it is called again: the bloom filter in memory over the *)
(* rows of the database, its loading (by a preload or on demand) and the   *)
(* bulk recovery of a workflow's rows.  A mutation is the scope and the    *)
(* key of its row; several calls may carry the same one.                   *)
(***************************************************************************)
EXTENDS Integers, Sequences, FiniteSets

CONSTANTS
    Caller,         \* calls with an idempotency key
    Plain,          \* the scope outside any workflow
    MutationOf,     \* the mutation a call carries: [scope, key]
    ByTransaction,  \* calls of transaction methods; the others are writers
    Expiring,       \* keys that are UUIDv7
    NoFuture0

ASSUME IdempotentAssumption ==
    ByTransaction \subseteq Caller

Mutation == {MutationOf[c] : c \in Caller}
Scope == {m.scope : m \in Mutation} \cup {Plain}
Future == Caller \X {"preload", "own"}

VARIABLES
    rows,       \* idempotent mutations in the database
    objects,    \* the IdempotentMutations created, the last one is in use
    mut_loads,  \* _idempotent_mutations_loads: a future, or NoFuture0
    futures,    \* the futures of preloads and loads
    caller,     \* where each call is
    turn,       \* the call that holds the state's lock, or none
    prepared,    \* mutations of a transaction recovered as prepared
    expired,    \* UUIDv7 keys whose time has passed
    executions, \* history: how often each mutation was stored
    answers,    \* history: mutations whose call was answered
    forgot,     \* history: a filter was put in use that misses rows
    broken      \* history: an assertion on mut_loads failed

idempotentVars == <<rows, objects, mut_loads, futures, caller, turn, prepared,
                    expired, executions, answers, forgot, broken>>

Rest == [at |-> "new", got |-> {}, on |-> NoFuture0, object |-> 0,
         again |-> FALSE]
Unused == [at |-> "none", rows |-> {}]
Loaded == objects # <<>>
Mine(c) == MutationOf[c]
Step(c, at) == caller' = [caller EXCEPT ![c].at = at]
Ends(c) == caller' = [caller EXCEPT ![c] = [Rest EXCEPT !.at = "done"]]
Awaited(f) == \E d \in Caller : caller[d].on = f
Frees(c) == turn' = turn \ {c}

IdempotentTypeOK ==
    /\ rows \subseteq Mutation /\ prepared \subseteq Mutation
    /\ \A i \in DOMAIN objects : /\ objects[i].has \subseteq Mutation
                                 /\ objects[i].scopes \subseteq Scope
    /\ mut_loads \in Future \cup {NoFuture0}
    /\ futures \in [Future -> [at : {"none", "asking", "rows", "loaded",
                                     "failed"}, rows : SUBSET Mutation]]
    /\ caller \in [Caller ->
          [at : {"new", "check", "await", "recover", "land", "get", "scan",
                 "scanned", "lookup", "lock", "body", "remember", "done"},
           got : SUBSET Mutation, on : Future \cup {NoFuture0},
           object : Nat, again : BOOLEAN]]
    /\ turn \subseteq Caller /\ Cardinality(turn) <= 1
    /\ executions \in [Mutation -> Nat] /\ answers \subseteq Mutation
    /\ {forgot, broken} \subseteq BOOLEAN

\* The server has just started.  Rows of earlier processes are stored, not
\* all of them answered, and a prepared transaction may have been recovered.
IdempotentInit ==
    /\ prepared \in {{}} \cup {{Mine(c)} : c \in ByTransaction}
    /\ rows \in SUBSET (Mutation \ prepared) /\ answers \in SUBSET rows
    /\ executions = [m \in Mutation |-> IF m \in rows THEN 1 ELSE 0]
    /\ objects = <<>> /\ mut_loads = NoFuture0
    /\ futures = [f \in Future |-> Unused]
    /\ caller = [c \in Caller |-> Rest]
    /\ turn = {} /\ expired = {}
    /\ forgot = FALSE /\ broken = FALSE

\* RecoverIdempotentMutations of a scope skips what has expired.
RowsOf(scope) == {m \in rows : m.scope = scope /\ m.key \notin expired}

\* A new IdempotentMutations is put in use.
PutInUse(has) ==
    /\ objects' = Append(objects, [has |-> has, scopes |-> {}])
    /\ forgot' = (forgot \/ ~(RowsOf(Plain) \subseteq has))

----------------------------------------------------------------------------
\* A call starts a preload, unless the mutations are loaded or being loaded,
\* and checks that its key has not expired.
StartMutation(c) ==
    /\ caller[c].at = "new"
    /\ IF ~Loaded /\ mut_loads = NoFuture0
       THEN /\ mut_loads' = <<c, "preload">>
            /\ futures' = [futures EXCEPT ![<<c, "preload">>].at = "asking"]
       ELSE UNCHANGED <<mut_loads, futures>>
    /\ IF Mine(c).key \in expired
       THEN Ends(c)
       ELSE caller' = [caller EXCEPT ![c].at = "check",
                                     ![c].again = Mine(c) \in answers]
    /\ UNCHANGED <<rows, objects, turn, prepared, expired, executions, answers,
                   forgot, broken>>

\* The background task of a preload: the answer, a failure, or the cleanup 60
\* seconds after an answer nobody waited for.
PreloadRows(c) ==
    LET f == <<c, "preload">> IN
    /\ futures[f].at = "asking"
    /\ \/ /\ futures' = [futures EXCEPT ![f] =
                            [at |-> "rows", rows |-> RowsOf(Plain)]]
          /\ UNCHANGED mut_loads
       \/ /\ futures' = [futures EXCEPT ![f] =
                IF Awaited(f) THEN [@ EXCEPT !.at = "failed"] ELSE Unused]
          /\ mut_loads' = IF mut_loads = f THEN NoFuture0 ELSE mut_loads
    /\ UNCHANGED <<rows, objects, caller, turn, prepared, expired, executions,
                   answers, forgot, broken>>

PreloadCleanup(c) ==
    LET f == <<c, "preload">> IN
    /\ futures[f].at = "rows" /\ mut_loads = f
    /\ ~Awaited(f)
    /\ mut_loads' = NoFuture0
    /\ futures' = [futures EXCEPT ![f] = Unused]
    /\ UNCHANGED <<rows, objects, caller, turn, prepared, expired,
                   executions, answers, forgot, broken>>

----------------------------------------------------------------------------
\* A transaction waits for one with its key that runs here, or was recovered.
Duplicated(c) ==
    /\ c \in ByTransaction
    /\ \/ \E d \in turn \cap ByTransaction : Mine(d).key = Mine(c).key
       \/ \E m \in prepared : m.key = Mine(c).key

OwnLoad(c) ==
    /\ caller' = [caller EXCEPT ![c].at = "recover", ![c].on = NoFuture0]
    /\ mut_loads' = <<c, "own">>
    /\ futures' = [f \in Future |->
          IF f = <<c, "own">> THEN [Unused EXCEPT !.at = "asking"]
          ELSE IF \E d \in Caller \ {c} : caller[d].on = f \/ mut_loads = f
               THEN futures[f] ELSE Unused]

\* Load the mutations, or wait for whoever loads them.
CheckLoaded(c) ==
    /\ caller[c].at = "check" /\ ~Duplicated(c)
    /\ \/ Loaded /\ Step(c, "get") /\ UNCHANGED <<mut_loads, futures>>
       \/ /\ ~Loaded /\ mut_loads # NoFuture0
          /\ caller' = [caller EXCEPT ![c].at = "await", ![c].on = mut_loads]
          /\ UNCHANGED <<mut_loads, futures>>
       \/ ~Loaded /\ mut_loads = NoFuture0 /\ OwnLoad(c)
    /\ UNCHANGED <<rows, objects, turn, prepared, expired, executions, answers,
                   forgot, broken>>

\* A future that its last waiter has seen is dropped.
Forgets(c, f) ==
    futures' = IF \E d \in Caller \ {c} : caller[d].on = f THEN futures
               ELSE [futures EXCEPT ![f] = Unused]

\* The future a call waits for is done.  The first to see a preload's rows
\* puts them in use and removes the future; after a failure it loads itself.
LoadResolved(c) ==
    LET f == caller[c].on IN
    /\ caller[c].at = "await" /\ futures[f].at \in {"rows", "loaded", "failed"}
    /\ \/ /\ futures[f].at = "rows" /\ ~Loaded
          /\ PutInUse(futures[f].rows)
          /\ broken' = (broken \/ mut_loads # f)
          /\ mut_loads' = IF mut_loads = f THEN NoFuture0 ELSE mut_loads
          /\ IF mut_loads = f
             THEN caller' = [caller EXCEPT ![c].at = "get", ![c].on = NoFuture0]
             ELSE Ends(c)
          /\ Forgets(c, f)
       \/ /\ Loaded
          /\ caller' = [caller EXCEPT ![c].at = "get", ![c].on = NoFuture0]
          /\ Forgets(c, f)
          /\ UNCHANGED <<objects, forgot, mut_loads, broken>>
       \/ /\ futures[f].at # "rows" /\ ~Loaded
          /\ OwnLoad(c)
          /\ UNCHANGED <<objects, forgot, broken>>
    /\ UNCHANGED <<rows, turn, prepared, expired, executions, answers>>

RecoverRows(c) ==
    /\ caller[c].at = "recover"
    /\ caller' = [caller EXCEPT ![c].at = "land", ![c].got = RowsOf(Plain)]
    /\ UNCHANGED <<rows, objects, mut_loads, futures, turn, prepared, expired,
                   executions, answers, forgot, broken>>

Resolves(c, at) ==
    futures' = [futures EXCEPT ![<<c, "own">>] =
                  [Unused EXCEPT !.at = IF Awaited(<<c, "own">>) THEN at ELSE @]]

\* The `finally` of a load asserts that its future is still registered.
Unregister(c) ==
    /\ broken' = (broken \/ mut_loads # <<c, "own">>)
    /\ mut_loads' = IF mut_loads = <<c, "own">> THEN NoFuture0 ELSE mut_loads

LandRows(c) ==
    /\ caller[c].at = "land"
    /\ PutInUse(caller[c].got)
    /\ Resolves(c, "loaded")
    /\ Unregister(c)
    /\ IF mut_loads = <<c, "own">>
       THEN caller' = [caller EXCEPT ![c].at = "get", ![c].got = {}]
       ELSE Ends(c)
    /\ UNCHANGED <<rows, turn, prepared, expired, executions, answers>>

----------------------------------------------------------------------------
\* IdempotentMutations.get of the one in use.  The rows of a workflow or of
\* an iteration are first recovered in bulk, once.
MutGetMutation(c) ==
    /\ caller[c].at = "get"
    /\ caller' = [caller EXCEPT ![c].object = Len(objects), ![c].at = "lookup"]
    /\ UNCHANGED <<rows, objects, mut_loads, futures, turn, prepared, expired,
                   executions, answers, forgot, broken>>

GetMutation(c) ==
    /\ caller[c].at = "get"
    /\ LET o == Len(objects) IN
       caller' = [caller EXCEPT ![c].object = o,
                    ![c].at = IF Mine(c).scope \in objects[o].scopes \cup {Plain}
                              THEN "lookup" ELSE "scan"]
    /\ UNCHANGED <<rows, objects, mut_loads, futures, turn, prepared, expired,
                   executions, answers, forgot, broken>>

\* _recover_workflow and _recover_workflow_iteration: the query, then (later)
\* its rows are added to the filter and the scope is marked.
ScanScope(c) ==
    /\ caller[c].at = "scan"
    /\ caller' = [caller EXCEPT ![c].at = "scanned",
                                ![c].got = RowsOf(Mine(c).scope)]
    /\ UNCHANGED <<rows, objects, mut_loads, futures, turn, prepared, expired,
                   executions, answers, forgot, broken>>

AddScope(c) ==
    /\ caller[c].at = "scanned"
    /\ objects' = [objects EXCEPT
          ![caller[c].object] = [has |-> @.has \cup caller[c].got,
                                 scopes |-> @.scopes \cup {Mine(c).scope}]]
    /\ caller' = [caller EXCEPT ![c].at = "lookup", ![c].got = {}]
    /\ UNCHANGED <<rows, mut_loads, futures, turn, prepared, expired,
                   executions, answers, forgot, broken>>

\* A key the filter has is looked up in the database, and so may be one it
\* was not given: it knows no false negatives only.  Then the same for the
\* key outside of workflows.
Keys(c) == {Mine(c), [Mine(c) EXCEPT !.scope = Plain]}
Ruled(c, m) == m \in objects[caller[c].object].has => m \notin rows

Found(c) ==
    /\ caller[c].at = "lookup"
    /\ \E m \in Keys(c) : m \in rows
    /\ Ends(c)
    /\ UNCHANGED <<rows, objects, mut_loads, futures, turn, prepared, expired,
                   executions, answers, forgot, broken>>

NotFound(c) ==
    /\ caller[c].at = "lookup"
    /\ \A m \in Keys(c) : Ruled(c, m)
    /\ Step(c, "lock")
    /\ UNCHANGED <<rows, objects, mut_loads, futures, turn, prepared, expired,
                   executions, answers, forgot, broken>>

----------------------------------------------------------------------------
\* The mutation is executed holding the lock of the state, which a recovered
\* transaction holds until it is finished.
Execute(c) ==
    /\ caller[c].at = "lock" /\ turn = {} /\ prepared = {}
    /\ turn' = {c}
    /\ Step(c, "body")
    /\ UNCHANGED <<rows, objects, mut_loads, futures, prepared, expired,
                   executions, answers, forgot, broken>>

StoreRow(c) ==
    /\ caller[c].at = "body"
    /\ rows' = rows \cup {Mine(c)}
    /\ executions' = [executions EXCEPT ![Mine(c)] = @ + 1]
    /\ Step(c, "remember")
    /\ UNCHANGED <<objects, mut_loads, futures, turn, prepared, expired,
                   answers, forgot, broken>>

\* Only once stored it is added to the filter in use, and answered.
MutAddKey(c) ==
    /\ caller[c].at = "remember"
    /\ answers' = answers \cup {Mine(c)}
    /\ Ends(c) /\ Frees(c)
    /\ UNCHANGED <<rows, objects, mut_loads, futures, prepared, expired,
                   executions, forgot, broken>>

AddKey(c) ==
    /\ caller[c].at = "remember"
    /\ objects' = [objects EXCEPT ![Len(objects)].has = @ \cup {Mine(c)}]
    /\ answers' = answers \cup {Mine(c)}
    /\ Ends(c) /\ Frees(c)
    /\ UNCHANGED <<rows, mut_loads, futures, prepared, expired, executions,
                   forgot, broken>>

\* The caller goes away, or an await raises, while it loads or holds the lock
\* (one that holds nothing may as well take no further step).
CancelMutation(c) ==
    /\ caller[c].at \in {"recover", "land", "body", "remember"}
    /\ Ends(c) /\ Frees(c)
    /\ IF caller[c].at \in {"recover", "land"}
       THEN /\ Resolves(c, "failed")
            /\ Unregister(c)
       ELSE UNCHANGED <<futures, mut_loads, broken>>
    /\ UNCHANGED <<rows, objects, prepared, expired, executions, answers,
                   forgot>>

\* The recovered transaction commits: its mutations are added to the filter
\* if there is one, else "any later lookup recovers from the database".
CommitPending ==
    /\ prepared # {}
    /\ rows' = rows \cup prepared
    /\ executions' = [m \in Mutation |->
                        executions[m] + IF m \in prepared THEN 1 ELSE 0]
    /\ answers' = answers \cup prepared
    /\ objects' = IF Loaded
                  THEN [objects EXCEPT ![Len(objects)].has = @ \cup prepared]
                  ELSE objects
    /\ prepared' = {}
    /\ UNCHANGED <<mut_loads, futures, caller, turn, expired, forgot, broken>>

\* A workflow or an iteration is completed: its mark is dropped.
CompleteScope(scope) ==
    /\ Loaded /\ scope \in objects[Len(objects)].scopes
    /\ objects' = [objects EXCEPT ![Len(objects)].scopes = @ \ {scope}]
    /\ UNCHANGED <<rows, mut_loads, futures, caller, turn, prepared, expired,
                   executions, answers, forgot, broken>>

Expire(key) ==
    /\ key \notin expired
    /\ expired' = expired \cup {key}
    /\ UNCHANGED <<rows, objects, mut_loads, futures, caller, turn, prepared,
                   executions, answers, forgot, broken>>

IdempotentNext ==
    \/ \E c \in Caller :
          \/ StartMutation(c) \/ PreloadRows(c) \/ PreloadCleanup(c)
          \/ CheckLoaded(c) \/ LoadResolved(c) \/ RecoverRows(c) \/ LandRows(c)
          \/ GetMutation(c) \/ ScanScope(c) \/ AddScope(c) \/ Found(c)
          \/ NotFound(c) \/ Execute(c) \/ StoreRow(c) \/ AddKey(c)
          \/ CancelMutation(c)
    \/ CommitPending
    \/ \E scope \in Scope : CompleteScope(scope)
    \/ \E key \in Expiring : Expire(key)

IdempotentSpec == IdempotentInit /\ [][IdempotentNext]_idempotentVars

----------------------------------------------------------------------------
\* A call that starts after its mutation was answered never executes it
\* again, across restarts and whoever loads the filter, while its key has not
\* expired and unless a filter was put in use that misses a stored row.
AnsweredNotRepeated ==
    \A c \in Caller :
        /\ caller[c].again /\ ~forgot
        /\ Mine(c).key \notin expired
        => caller[c].at \notin {"body", "remember"}

\* The filter in use gives no false negative: what it was asked to cover and
\* was answered is in it.
FilterCovers ==
    Loaded /\ ~forgot =>
        LET o == objects[Len(objects)] IN
        \A m \in answers : m.scope \in o.scopes \cup {Plain}
                           /\ m.key \notin expired => m \in o.has

\* "Idempotency makes a retried mutation apply once."
AppliedOnce == \A m \in Mutation : executions[m] <= 1

\* The assertions that a load's future is still the registered one.
LoadStillRegistered == ~broken

\* A mutation that was answered is remembered: the filter covers it, and no
\* later call executes it again (check_for_idempotent_mutation).
MutationsRemembered == IdempotentTypeOK /\ AnsweredNotRepeated /\ FilterCovers

==============================================================================
