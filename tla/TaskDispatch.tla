---------------------------- MODULE TaskDispatch ----------------------------
(***************************************************************************)
(* Tasks of one server: the dispatcher's retry loop and its cleanup, the   *)
(* cache of responses, waiting for and cancelling a task, and their        *)
(* recovery from the database after a restart.                             *)
(***************************************************************************)
EXTENDS Integers, Sequences, FiniteSets

CONSTANTS
    Task,
    InTransaction,  \* the tasks that a transaction schedules, not a writer
    Waiter,         \* calls of Tasks.Wait
    TaskLimit,      \* DISPATCHED_TASKS_LIMIT
    CacheTarget,    \* TASKS_RESPONSES_CACHE_TARGET_CAPACITY
    MaxCrash,       \* bound: restarts
    NoTask

ASSUME TaskAssumption ==
    /\ {TaskLimit, CacheTarget, MaxCrash} \subseteq Nat
    /\ InTransaction \subseteq Task /\ NoTask \notin Task /\ IsFiniteSet(Task)

\* A response or a declared error, or that the task was cancelled.
Outcome == {"result", "cancelled"}

VARIABLES
    task_row,       \* each task in the database
    prepared_tasks, \* _transaction_prepared_tasks
    dispatched,     \* _dispatched_tasks, with the flag IsCancelled
    loop,           \* each task's retry loop, then its cleanup
    outcome,        \* what the current attempt came to
    cache,          \* _cache: tasks, least recently used first
    response,       \* the futures of the cache
    waiter,         \* each call of Wait
    stop_requested, \* _stop_requested
    given,          \* history: the answers given for each task, or "unstored"
    crashes

taskVars == <<task_row, prepared_tasks, dispatched, loop, outcome, cache,
              response, waiter, stop_requested, given, crashes>>

Completed(t) == task_row[t] \in Outcome
Dispatched == {t \in Task : dispatched[t] # "no"}
Open == "open"
Away == [at |-> "away", task |-> NoTask]

TaskTypeOK ==
    /\ task_row \in [Task -> {"none", "prepared", "pending"} \cup Outcome]
    /\ prepared_tasks \subseteq Task
    /\ dispatched \in [Task -> {"no", "yes", "cancelled"}]
    /\ loop \in [Task -> {"none", "scheduled", "body", "complete", "respond",
                          "backoff", "ended", "cleaning", "cleaned"}]
    /\ outcome \in [Task -> Outcome \cup {"none"}]
    /\ \A i, j \in DOMAIN cache : i # j => cache[i] # cache[j]
    /\ response \in [Task -> {"none", Open} \cup Outcome]
    /\ waiter \in [Waiter -> [at : {"away", "prepared", Open, "done"}
                                    \cup Outcome,
                              task : Task \cup {NoTask}]]
    /\ given \in [Task -> SUBSET (Outcome \cup {"lost", "unstored"})]
    /\ crashes \in 0..MaxCrash

TaskInit ==
    /\ task_row = [t \in Task |-> "none"] /\ prepared_tasks = {}
    /\ dispatched = [t \in Task |-> "no"] /\ loop = [t \in Task |-> "none"]
    /\ outcome = [t \in Task |-> "none"]
    /\ cache = <<>> /\ response = [t \in Task |-> "none"]
    /\ waiter = [w \in Waiter |-> Away]
    /\ stop_requested = FALSE /\ crashes = 0
    /\ given = [t \in Task |-> {}]

----------------------------------------------------------------------------
\* The entries of c that are not in E, in their order.
Without(c, E) ==
    LET keep == {i \in DOMAIN c : c[i] \notin E}
        Rank(i) == Cardinality({j \in keep : j <= i})
    IN  [k \in 1..Cardinality(keep) |-> c[CHOOSE i \in keep : Rank(i) = k]]

\* move_to_end, then _trim_cache: of the entries in excess of the target the
\* least recently used ones that are done are removed.
Moved(c, t) == Append(Without(c, {t}), t)
MutTrimmed(c, r) ==
    SubSeq(c, Len(c) - (IF Len(c) < CacheTarget THEN Len(c) ELSE CacheTarget) + 1,
           Len(c))
Trimmed(c, r) ==
    LET Done(i) == r[c[i]] # Open
        Before(i) == Cardinality({j \in 1..(i - 1) : Done(j)})
        Evicted == {c[i] : i \in {j \in DOMAIN c :
                       Done(j) /\ Len(c) - Before(j) > CacheTarget}}
    IN  Without(c, Evicted)

CacheIs(c, r) ==
    LET kept == Trimmed(c, r) IN
    /\ cache' = kept
    /\ response' = [t \in Task |->
          IF \E i \in DOMAIN kept : kept[i] = t THEN r[t] ELSE "none"]

\* Only moves the entry of a cached task to the end; the cache is not trimmed.
update_task_info(t) ==
    cache' = IF \E i \in DOMAIN cache : cache[i] = t THEN Moved(cache, t) ELSE cache

\* The dispatch of tasks that are stored: ignored once stopping, or if the
\* task is already dispatched.
dispatch(t) ==
    IF stop_requested \/ t \in Dispatched
    THEN UNCHANGED <<dispatched, loop, cache, response>>
    ELSE /\ dispatched' = [dispatched EXCEPT ![t] = "yes"]
         /\ loop' = [loop EXCEPT ![t] = "scheduled"]
         /\ CacheIs(Moved(cache, t), [response EXCEPT ![t] = Open])

\* A writer schedules a task: validated, stored, dispatched.
ScheduleTask(t) ==
    /\ t \notin InTransaction /\ task_row[t] = "none"
    /\ Cardinality(Dispatched) + 1 <= TaskLimit
    /\ task_row' = [task_row EXCEPT ![t] = "pending"]
    /\ dispatch(t)
    /\ UNCHANGED <<prepared_tasks, outcome, waiter, stop_requested, given,
                   crashes>>

\* A transaction prepares with a task, and then commits or aborts.
MutPrepareTask(t) ==
    /\ t \in InTransaction /\ task_row[t] = "none"
    /\ Cardinality(Dispatched) + 1 <= TaskLimit
    /\ task_row' = [task_row EXCEPT ![t] = "prepared"]
    /\ UNCHANGED <<prepared_tasks, dispatched, loop, outcome, cache, response,
                   waiter, stop_requested, given, crashes>>

PrepareTask(t) ==
    /\ t \in InTransaction /\ task_row[t] = "none"
    /\ Cardinality(Dispatched) + 1 <= TaskLimit
    /\ task_row' = [task_row EXCEPT ![t] = "prepared"]
    /\ prepared_tasks' = prepared_tasks \cup {t}
    /\ UNCHANGED <<dispatched, loop, outcome, cache, response, waiter,
                   stop_requested, given, crashes>>

CommitTask(t) ==
    /\ task_row[t] = "prepared"
    /\ task_row' = [task_row EXCEPT ![t] = "pending"]
    /\ dispatch(t)
    /\ prepared_tasks' = prepared_tasks \ (IF stop_requested THEN {} ELSE {t})
    /\ UNCHANGED <<outcome, waiter, stop_requested, given, crashes>>

----------------------------------------------------------------------------
\* Whoever waits holds the future itself, which stays when it is evicted.
Hear(t, o) ==
    waiter' = [w \in Waiter |-> IF waiter[w] = [at |-> Open, task |-> t]
                                THEN [at |-> o, task |-> t] ELSE waiter[w]]

\* dispatch_retry_loop.  The method runs once the task's time has come.
StartBody(t) ==
    /\ loop[t] \in {"scheduled", "backoff"}
    /\ loop' = [loop EXCEPT ![t] = "body"]
    /\ update_task_info(t)
    /\ UNCHANGED <<task_row, prepared_tasks, dispatched, outcome, response,
                   waiter, stop_requested, given, crashes>>

\* It returns or raises a declared error, which is then stored ...
BodyEnds(t) ==
    /\ loop[t] = "body"
    /\ outcome' = [outcome EXCEPT ![t] = "result"]
    /\ loop' = [loop EXCEPT ![t] = "complete"]
    /\ UNCHANGED <<task_row, prepared_tasks, dispatched, cache, response,
                   waiter, stop_requested, given, crashes>>

\* ... or it, the store or a callable run on completion raises anything else,
\* and the task is retried after a backoff.
BodyRaises(t) ==
    /\ loop[t] \in {"body", "complete", "respond"}
    /\ loop' = [loop EXCEPT ![t] = "backoff"]
    /\ outcome' = [outcome EXCEPT ![t] = "none"]
    /\ update_task_info(t)
    /\ UNCHANGED <<task_row, prepared_tasks, dispatched, response, waiter,
                   stop_requested, given, crashes>>

MutCompleteTask(t) ==
    /\ loop[t] = "complete"
    /\ loop' = [loop EXCEPT ![t] = "respond"]
    /\ UNCHANGED <<task_row, prepared_tasks, dispatched, outcome, cache,
                   response, waiter, stop_requested, given, crashes>>

CompleteTask(t) ==
    /\ loop[t] = "complete"
    /\ task_row' = [task_row EXCEPT ![t] = outcome[t]]
    /\ loop' = [loop EXCEPT ![t] = "respond"]
    /\ UNCHANGED <<prepared_tasks, dispatched, outcome, cache, response, waiter,
                   stop_requested, given, crashes>>

Respond(t) ==
    /\ loop[t] = "respond"
    /\ loop' = [loop EXCEPT ![t] = "ended"]
    /\ response' = [response EXCEPT ![t] = outcome[t]]
    /\ update_task_info(t)
    /\ Hear(t, outcome[t])
    /\ UNCHANGED <<task_row, prepared_tasks, dispatched, outcome,
                   stop_requested, given, crashes>>

----------------------------------------------------------------------------
\* asyncio's cancellation reaches a loop where it awaits.  The method may
\* have caught it; a cancelled task's outcome is stored, unless it is the
\* server that stops, and a result already stored is not answered.
Interrupt(t) ==
    /\ \/ /\ loop[t] \in {"body", "complete"} /\ dispatched[t] = "cancelled"
          /\ outcome' = [outcome EXCEPT ![t] = "cancelled"]
          /\ loop' = [loop EXCEPT ![t] = "complete"]
       \/ /\ \/ loop[t] \in {"scheduled", "backoff", "respond"}
             \/ loop[t] \in {"body", "complete"} /\ dispatched[t] = "yes"
          /\ loop' = [loop EXCEPT ![t] = "ended"]
          /\ UNCHANGED outcome

\* CancelTask, and `stop`, which does not mark the tasks.
CancelTask(t) ==
    /\ dispatched[t] = "yes"
    /\ dispatched' = [dispatched EXCEPT ![t] = "cancelled"]
    /\ UNCHANGED <<task_row, prepared_tasks, loop, outcome, cache, response,
                   waiter, stop_requested, given, crashes>>

Interrupted(t) ==
    /\ dispatched[t] = "cancelled" \/ stop_requested
    /\ outcome[t] # "cancelled"
    /\ Interrupt(t)
    /\ UNCHANGED <<task_row, prepared_tasks, dispatched, cache, response,
                   waiter, stop_requested, given, crashes>>

StopTasks ==
    /\ ~stop_requested
    /\ stop_requested' = TRUE
    /\ UNCHANGED <<task_row, prepared_tasks, dispatched, loop, outcome, cache,
                   response, waiter, given, crashes>>

\* The loop is done: a callback starts cleanup_async, which stores that the
\* task was cancelled (it may fail to), and cleanup_done follows.
CleanupAsync(t) ==
    /\ loop[t] = "ended"
    /\ loop' = [loop EXCEPT ![t] = IF dispatched[t] = "cancelled" THEN "cleaning"
                                                                  ELSE "cleaned"]
    /\ UNCHANGED <<task_row, prepared_tasks, dispatched, outcome, cache,
                   response, waiter, stop_requested, given, crashes>>

CleanupStores(t) ==
    /\ loop[t] = "cleaning"
    /\ \/ task_row' = [task_row EXCEPT ![t] = "cancelled"] /\ UNCHANGED given
       \/ UNCHANGED task_row /\ given' = [given EXCEPT ![t] = @ \cup {"unstored"}]
    /\ loop' = [loop EXCEPT ![t] = "cleaned"]
    /\ UNCHANGED <<prepared_tasks, dispatched, outcome, cache, response, waiter,
                   stop_requested, crashes>>

MutCleanupDone(t) ==
    /\ loop[t] = "cleaned"
    /\ loop' = [loop EXCEPT ![t] = "none"]
    /\ outcome' = [outcome EXCEPT ![t] = "none"]
    /\ dispatched' = [dispatched EXCEPT ![t] = "no"]
    /\ UNCHANGED <<task_row, prepared_tasks, cache, response, waiter,
                   stop_requested, given, crashes>>

CleanupDone(t) ==
    /\ loop[t] = "cleaned"
    /\ loop' = [loop EXCEPT ![t] = "none"]
    /\ outcome' = [outcome EXCEPT ![t] = "none"]
    /\ dispatched' = [dispatched EXCEPT ![t] = "no"]
    /\ IF dispatched[t] = "cancelled" /\ response[t] = Open
       THEN /\ CacheIs(Moved(cache, t), [response EXCEPT ![t] = "cancelled"])
            /\ Hear(t, "cancelled")
       ELSE UNCHANGED <<cache, response, waiter>>
    /\ UNCHANGED <<task_row, prepared_tasks, stop_requested, given, crashes>>

----------------------------------------------------------------------------
Gives(t, answer) == given' = [given EXCEPT ![t] = @ \cup {answer}]

\* Wait: a task that a transaction has prepared is awaited first, ...
WaitPrepared(w, t) ==
    /\ waiter[w] = Away /\ t \in prepared_tasks
    /\ waiter' = [waiter EXCEPT ![w] = [at |-> "prepared", task |-> t]]
    /\ UNCHANGED <<task_row, prepared_tasks, dispatched, loop, outcome, cache,
                   response, stop_requested, given, crashes>>

LooksUp(w, t) ==
    \/ waiter[w] = Away /\ t \notin prepared_tasks
    \/ waiter[w] = [at |-> "prepared", task |-> t] /\ t \notin prepared_tasks

\* ... then the future of the cache, if there is one, ...
WaitCached(w, t) ==
    /\ LooksUp(w, t) /\ response[t] # "none"
    /\ waiter' = [waiter EXCEPT ![w] = [at |-> response[t], task |-> t]]
    /\ CacheIs(Moved(cache, t), response)
    /\ UNCHANGED <<task_row, prepared_tasks, dispatched, loop, outcome,
                   stop_requested, given, crashes>>

WaitAnswered(w) ==
    /\ waiter[w].at \in Outcome
    /\ waiter' = [waiter EXCEPT ![w].at = "done"]
    /\ Gives(waiter[w].task, waiter[w].at)
    /\ UNCHANGED <<task_row, prepared_tasks, dispatched, loop, outcome, cache,
                   response, stop_requested, crashes>>

\* ... else the database, whose answer is cached.
WaitLoaded(w, t) ==
    /\ LooksUp(w, t) /\ response[t] = "none"
    /\ waiter' = [waiter EXCEPT ![w] = [at |-> "done", task |-> t]]
    /\ IF Completed(t)
       THEN /\ Gives(t, task_row[t])
            /\ CacheIs(Moved(cache, t), [response EXCEPT ![t] = task_row[t]])
       ELSE /\ given' = [given EXCEPT ![t] = IF task_row[t] = "none" THEN @
                                            ELSE @ \cup {"lost"}]
            /\ UNCHANGED <<cache, response>>
    /\ UNCHANGED <<task_row, prepared_tasks, dispatched, loop, outcome,
                   stop_requested, crashes>>

\* The transaction of a prepared task aborts; those who wait hear an error.
AbortTask(t) ==
    /\ task_row[t] = "prepared"
    /\ task_row' = [task_row EXCEPT ![t] = "none"]
    /\ prepared_tasks' = prepared_tasks \ {t}
    /\ waiter' = [w \in Waiter |->
                    IF waiter[w] = [at |-> "prepared", task |-> t]
                    THEN [waiter[w] EXCEPT !.at = "done"] ELSE waiter[w]]
    /\ UNCHANGED <<dispatched, loop, outcome, cache, response, stop_requested,
                   given, crashes>>

\* The server restarts and dispatches the pending tasks it recovers.
CrashTasks ==
    /\ crashes < MaxCrash
    /\ crashes' = crashes + 1
    /\ prepared_tasks' = {} /\ stop_requested' = FALSE
    /\ LET again == {t \in Task : task_row[t] = "pending"} IN
       /\ dispatched' = [t \in Task |-> IF t \in again THEN "yes" ELSE "no"]
       /\ loop' = [t \in Task |-> IF t \in again THEN "scheduled" ELSE "none"]
       /\ response' = [t \in Task |-> IF t \in again THEN Open ELSE "none"]
       /\ \E order \in [1..Cardinality(again) -> again] :
             /\ \A i, j \in DOMAIN order : i # j => order[i] # order[j]
             /\ cache' = order
    /\ outcome' = [t \in Task |-> "none"]
    /\ waiter' = [w \in Waiter |-> IF waiter[w].at = "done" THEN waiter[w]
                                                            ELSE Away]
    /\ UNCHANGED <<task_row, given>>

TaskNext ==
    \/ \E t \in Task :
          \/ ScheduleTask(t) \/ PrepareTask(t) \/ CommitTask(t) \/ AbortTask(t)
          \/ StartBody(t) \/ BodyEnds(t) \/ BodyRaises(t) \/ CompleteTask(t)
          \/ Respond(t) \/ CancelTask(t) \/ Interrupted(t) \/ CleanupAsync(t)
          \/ CleanupStores(t) \/ CleanupDone(t)
    \/ StopTasks \/ CrashTasks
    \/ \E w \in Waiter : WaitAnswered(w)
    \/ \E w \in Waiter, t \in Task :
          WaitPrepared(w, t) \/ WaitCached(w, t) \/ WaitLoaded(w, t)

TaskSpec == TaskInit /\ [][TaskNext]_taskVars

----------------------------------------------------------------------------
\* Once a task's waiter was given its result the task stays completed in the
\* database, across restarts, and is never run again.  (That its row still
\* holds this result is not promised: a cancellation that arrives after the
\* result was stored overwrites it in cleanup_async.)
ResultsDurable ==
    \A t \in Task : "result" \in given[t] => Completed(t)

\* A task that still runs is never evicted: whoever waits for it finds its
\* future, however full the cache.  (Otherwise Wait would fail its assertion
\* that an evicted task has a stored response.)
RunningTasksCached ==
    \A t \in Task :
        loop[t] \in {"scheduled", "body", "backoff", "complete", "respond"}
        => response[t] = Open /\ \E i \in DOMAIN cache : cache[i] = t

\* Whoever waits for a task of a committed or a prepared transaction, or of a
\* writer, is not told that there is no such task, even before it has been
\* dispatched and however often the cache evicts, as long as the server runs
\* and the cancellation of the task could be stored.
NoKnownTaskLost ==
    \A t \in Task : "lost" \in given[t] =>
        crashes > 0 \/ stop_requested \/ "unstored" \in given[t]

\* Under the fairness of the event loop, and if the method eventually ends,
\* who waits for a task gets an answer, unless the server is stopping.
TaskProgress(t) ==
    \/ StartBody(t) \/ CompleteTask(t) \/ Respond(t) \/ Interrupted(t)
    \/ CleanupAsync(t) \/ CleanupStores(t) \/ CleanupDone(t)
WaitsEnd ==
    \A w \in Waiter : waiter[w].at = Open ~> waiter[w].at # Open \/ stop_requested

\* No task or result is lost between the database, the dispatcher's loops and
\* the cache, whatever is evicted, cancelled or restarted.
TasksKept == ResultsDurable /\ RunningTasksCached /\ NoKnownTaskLost

==============================================================================
