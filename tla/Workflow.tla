------------------------------ MODULE Workflow ------------------------------
(***************************************************************************)
(* A workflow with a control loop whose iterations each run one memoized   *)
(* block: `at_most_once`, `at_least_once` or `until_changes`               *)
(* (workflows.py), built on `memoize` and the Memoize actor (memoize.py),  *)
(* and `SidecarStateManager.task_workflow`, which counts iterations.       *)
(* The actor lives on another server: a call that was under way when the   *)
(* workflow's server crashed may be lost, or arrive during a later attempt.*)
(* Calls made `idempotently` are deduplicated by their key, which all      *)
(* attempts share; calls made `always()` are not.                          *)
(***************************************************************************)
EXTENDS Naturals, FiniteSets

CONSTANTS
    Value,          \* results of the callable
    NoValue,
    LastIteration,  \* the iteration in which the loop's body breaks
    MaxCrashes,     \* bound on outages of the workflow's server
    MaxFailures     \* bound on exceptions of the callable, hooks and stores

ASSUME WorkflowAssumption == NoValue \notin Value /\ LastIteration \in Nat

Iteration == 0..LastIteration

VARIABLES
    style,      \* the primitive the block is made with
    phase,      \* where the attempt is
    iteration,  \* task_effect.iteration in memory
    recorded,   \* the iteration stored with the task
    result,     \* what the callable returned to this attempt
    validating, \* this run of the method validates effects
    memo,       \* the Memoize actor of each iteration
    mutations,  \* idempotent mutations the actors have seen
    late,       \* calls of crashed attempts that are still under way
    runs,       \* history: runs of the callable not ended by a retryable exception
    returned,   \* history: results the block returned
    overtaken,  \* history: a late Store arrived behind the Status of an attempt
    outages, failures

attemptVars == <<phase, iteration, recorded, result, validating>>
actorVars == <<memo, mutations>>
workflowHistory == <<runs, returned, overtaken, outages, failures>>
workflowVars == <<style, attemptVars, actorVars, late, workflowHistory>>

----------------------------------------------------------------------------
Blank == [started |-> FALSE, stored |-> FALSE, failed |-> FALSE, data |-> NoValue]

\* `state.stored`, `state.started`: what the assertion of each writer demands.
Accepts(m, what) == IF what = "start" THEN ~m.started ELSE ~m.stored

Written(m, what, data) ==
    CASE what \in {"reset", "again"} -> Blank
      [] what = "start" -> [m EXCEPT !.started = TRUE]
      [] what = "store" -> [m EXCEPT !.stored = TRUE, !.data = data]
      [] what = "fail"  -> [m EXCEPT !.failed = TRUE]

MutKeyed == {"store", "fail"}

\* The calls that `memoize` makes idempotently: initial reset, store and fail.
Keyed == {"reset", "store", "fail"}

Answered(i, what) == what \in Keyed /\ <<i, what>> \in mutations

Succeeds(i, what) == Answered(i, what) \/ Accepts(memo[i], what)

\* A call arrives at the actor. One whose key is known changes nothing and
\* is answered as before, one whose assertion fails changes nothing and aborts.
Arrives(i, what, data) ==
    IF ~Answered(i, what) /\ Accepts(memo[i], what)
    THEN /\ memo' = [memo EXCEPT ![i] = Written(@, what, data)]
         /\ mutations' = IF what \in Keyed THEN mutations \cup {<<i, what>>} ELSE mutations
    ELSE UNCHANGED actorVars

WorkflowInit ==
    /\ style \in {"at_most_once", "at_least_once", "until_changes"}
    /\ phase = "down" /\ iteration = 0 /\ recorded = 0
    /\ result = NoValue /\ validating = FALSE
    /\ memo = [i \in Iteration |-> Blank] /\ mutations = {} /\ late = {}
    /\ runs = [i \in Iteration |-> 0] /\ returned = [i \in Iteration |-> {}]
    /\ overtaken = FALSE /\ outages = 0 /\ failures = 0

----------------------------------------------------------------------------
(* One attempt of the workflow method *)

Moves(p) == phase' = p /\ UNCHANGED <<style, iteration, recorded, validating, late>>

\* The dispatcher runs the method, with the iteration it has in memory.
Attempt ==
    /\ phase = "down"
    /\ Moves("reset") /\ result' = NoValue
    /\ UNCHANGED <<actorVars, workflowHistory>>

\* A call of the attempt arrives and its answer returns: on to phase `p`, or
\* the exception leaves the method and the dispatcher retries it.
CallTo(what, p) ==
    /\ Arrives(iteration, what, result)
    /\ Moves(IF Succeeds(iteration, what) THEN p ELSE "down")

InitialReset ==
    /\ phase = "reset" /\ CallTo("reset", "status")
    /\ UNCHANGED <<result, workflowHistory>>

MutStatus ==
    /\ phase = "status"
    /\ Moves(IF style = "at_most_once" THEN "start" ELSE "call")
    /\ UNCHANGED <<result, actorVars, workflowHistory>>

\* The Status of the block decides: AtMostOnceFailedBeforeCompleting, the
\* memoized result, or a run. `until_changes` first fetched the previous
\* result, and raises if it is missing.
Status ==
    LET m == memo[iteration]
        atMostOnce == style = "at_most_once"
        missing == style = "until_changes" /\ iteration > 0 /\ ~memo[iteration - 1].stored
        raises == missing \/ (atMostOnce /\ m.started /\ ~m.stored)
    IN /\ phase = "status"
       /\ Moves(IF raises THEN "down"
                ELSE IF m.stored THEN "body"
                ELSE IF atMostOnce THEN "start" ELSE "call")
       /\ returned' = IF ~raises /\ m.stored
                      THEN [returned EXCEPT ![iteration] = @ \cup {m.data}] ELSE returned
       /\ UNCHANGED <<result, actorVars, runs, overtaken, outages, failures>>

StartBlock ==
    /\ phase = "start" /\ CallTo("start", "call")
    /\ UNCHANGED <<result, workflowHistory>>

\* The callable is called: twice by `at_least_once`, to validate its effects.
CallCallable ==
    /\ phase \in {"call", "recall"}
    /\ Moves(IF phase = "recall" \/ style # "at_least_once" THEN "running" ELSE "first")
    /\ runs' = [runs EXCEPT ![iteration] = @ + 1]
    /\ UNCHANGED <<result, actorVars, returned, overtaken, outages, failures>>

MutAcceptable(v) == TRUE

\* `until_changes` waits until the callable's result is not the previous one.
Acceptable(v) ==
    style = "until_changes" /\ iteration > 0 => v # memo[iteration - 1].data

CallableReturns(v) ==
    /\ phase \in {"first", "running"} /\ Acceptable(v)
    /\ Moves(IF phase = "first" THEN "recall" ELSE "store")
    /\ result' = v
    /\ UNCHANGED <<actorVars, workflowHistory>>

\* Only `at_most_once` tells the actor: Reset if the exception is retryable,
\* Fail if it is not.
CallableRaises(retryable) ==
    /\ phase \in {"first", "running"} /\ failures < MaxFailures
    /\ failures' = failures + 1
    /\ Moves(IF style # "at_most_once" THEN "down" ELSE IF retryable THEN "again" ELSE "fail")
    /\ runs' = IF retryable THEN [runs EXCEPT ![iteration] = @ - 1] ELSE runs
    /\ UNCHANGED <<result, actorVars, returned, overtaken, outages>>

ResetOrFail ==
    /\ phase \in {"again", "fail"} /\ CallTo(phase, "down")
    /\ UNCHANGED <<result, workflowHistory>>

MutStore ==
    /\ phase = "store" /\ Moves("body")
    /\ returned' = [returned EXCEPT ![iteration] = @ \cup {result}]
    /\ UNCHANGED <<result, actorVars, runs, overtaken, outages, failures>>

Store ==
    /\ phase = "store" /\ CallTo("store", "body")
    /\ returned' = IF Succeeds(iteration, "store")
                   THEN [returned EXCEPT ![iteration] = @ \cup {result}] ELSE returned
    /\ UNCHANGED <<result, runs, overtaken, outages, failures>>

\* The body breaks out of the loop in its last iteration. The method is run
\* a second time to validate effects, starting with that iteration.
Break ==
    /\ phase = "body" /\ iteration = LastIteration
    /\ phase' = IF validating THEN "ended" ELSE "down"
    /\ validating' = TRUE
    /\ UNCHANGED <<style, iteration, recorded, result, actorVars, late, workflowHistory>>

\* Next iteration: the hooks were called, the counter is advanced in memory
\* and stored under the state's lock.
NextIteration ==
    /\ phase = "body" /\ iteration < LastIteration
    /\ iteration' = iteration + 1 /\ recorded' = iteration + 1
    /\ phase' = "reset"
    /\ UNCHANGED <<style, result, validating, actorVars, late, workflowHistory>>

\* A hook raises before the counter is advanced, or the store after it was
\* advanced in memory: the retry starts from what is in memory.
IterateRaises(n) ==
    /\ phase = "body" /\ iteration < LastIteration /\ failures < MaxFailures
    /\ failures' = failures + 1
    /\ iteration' = iteration + n /\ phase' = "down"
    /\ UNCHANGED <<style, recorded, result, validating, actorVars, late,
                   runs, returned, overtaken, outages>>

----------------------------------------------------------------------------
(* Crashes *)

\* The call under way, if any, is lost or still arrives.
Crash ==
    /\ phase \notin {"down", "ended"} /\ outages < MaxCrashes
    /\ outages' = outages + 1
    /\ phase' = "down" /\ iteration' = recorded /\ validating' = FALSE
    /\ late' \in {late} \cup
          (IF phase \in {"reset", "start", "store", "fail", "again"}
           THEN {late \cup {[at |-> iteration, what |-> phase, data |-> result]}} ELSE {})
    /\ UNCHANGED <<style, recorded, result, actorVars, runs, returned, overtaken, failures>>

LateCall(c) ==
    /\ c \in late /\ late' = late \ {c}
    /\ Arrives(c.at, c.what, c.data)
    /\ overtaken' = (overtaken \/ ( /\ c.what = "store" /\ Succeeds(c.at, "store")
                                    /\ c.at = iteration
                                    /\ phase \in {"call", "first", "recall", "running", "store"}))
    /\ UNCHANGED <<style, attemptVars, runs, returned, outages, failures>>

WorkflowStep ==
    \/ Attempt \/ InitialReset \/ Status \/ StartBlock \/ CallCallable
    \/ \E v \in Value : CallableReturns(v)
    \/ ResetOrFail \/ Store \/ Break \/ NextIteration

WorkflowNext ==
    \/ WorkflowStep
    \/ \E retryable \in BOOLEAN : CallableRaises(retryable)
    \/ \E n \in {0, 1} : IterateRaises(n)
    \/ Crash
    \/ \E c \in late : LateCall(c)

WorkflowSpec == WorkflowInit /\ [][WorkflowNext]_workflowVars

----------------------------------------------------------------------------
\* Every variable has its type.
WorkflowTypeOK ==
    /\ phase \in {"down", "reset", "status", "start", "call", "first", "recall", "running",
                  "store", "fail", "again", "body", "ended"}
    /\ iteration \in Iteration /\ recorded \in Iteration
    /\ result \in Value \cup {NoValue} /\ validating \in BOOLEAN
    /\ memo \in [Iteration -> [started : BOOLEAN, stored : BOOLEAN, failed : BOOLEAN,
                               data : Value \cup {NoValue}]]
    /\ mutations \subseteq Iteration \X {"reset", "store", "fail"}
    /\ late \subseteq [at : Iteration, what : {"reset", "start", "store", "fail", "again"},
                       data : Value \cup {NoValue}]
    /\ runs \in [Iteration -> Nat] /\ returned \in [Iteration -> SUBSET Value]

\* `at_most_once` does not run its callable again unless it ended with a
\* retryable exception, whatever attempts crashed and whichever of their
\* calls arrive later (memoize.py: Start before the callable, Status first).
AtMostOnce ==
    style = "at_most_once" => \A i \in Iteration : runs[i] <= 1

\* All attempts get the same result from a block. Not so for at_least_once
\* and until_changes when a late Store arrives after a new attempt has asked
\* for the Status: the attempt's own Store is then answered without effect.
ResultsStable ==
    (style = "at_most_once" \/ ~overtaken) =>
        \A i \in Iteration : Cardinality(returned[i]) <= 1

\* `until_changes` returns in no iteration what it returned in the one
\* before (save for the same race).
ChangesObserved ==
    (style = "until_changes" /\ ~overtaken) =>
        \A i \in Iteration \ {0} : returned[i] \cap returned[i - 1] = {}

\* Once a block has returned a result its callable is not called again, also
\* when the counter in memory ran ahead of the stored one and a crash takes
\* the workflow back to an iteration it had completed.
CompletedNotRerun == \A i \in Iteration : returned[i] # {} => runs'[i] <= runs[i]

\* A workflow that does not use at_most_once ends once outages and failures
\* stop: no retry is refused for ever by what earlier attempts left behind.
WorkflowEnds ==
    style # "at_most_once" /\ phase = "reset" ~> phase = "ended"

\* The blocks of a workflow keep what `memoize` promises across attempts.
BlocksMemoized ==
    [](AtMostOnce /\ ResultsStable /\ ChangesObserved) /\ [][CompletedNotRerun]_workflowVars

=============================================================================
