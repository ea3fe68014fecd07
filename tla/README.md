# Reboot in TLA+

A verification of the runtime of Reboot, the part that every application relies
on and that is hardest to test: the lock on each state, two phase commit with
crashes and restart detection, nested transactions, deadlock avoidance, the
database's clock, idempotency, tasks, workflows, reactive readers, the loading
of states, placement and the configuration of Envoy, sign-in, and the services of
the standard library that keep state across several actors. Most of the code is
`reboot/aio/state_managers.py` (below: SM); every definition that models code is
tied to its lines in `PROJECT.json`.

- [1. The system](#1-the-system)
- [2. Modules](#2-modules)
- [3. Runs](#3-runs)
- [4. Where the code departs from what it says](#4-where-the-code-departs-from-what-it-says)
- [5. Proofs](#5-proofs)
- [6. What is not modelled](#6-what-is-not-modelled)
- [7. Plan](#7-plan)

## 1. The system

A Reboot application is a set of servers. Each hosts *states* (actors), whose
methods are readers, writers, transactions or workflows. A transaction calls
methods of other states, on other servers; the states it touches become its
*participants*, and the state whose transaction method runs is the
*coordinator* (and a participant). All servers of the application share one
database process (RocksDB behind gRPC, `reboot.py:124-192`), which outlives
them.

| Component | State it keeps | Operations | Talks to |
|---|---|---|---|
| State lock (`Lock`, SM:1764-2256) | `_shared`, `_exclusive`, `_upgrader`, `_waiters`, named holders | acquire, try_acquire, upgrade, downgrade, release, grant, give up | every reader, writer and participant of the state |
| Coordinator (SM:5527-5985, 7100-7310) | `_coordinator_participants`, commit control loop tasks, its record in the database | start, complete, prepare, commit, abort, `Watch`, recover | participants by RPC, database |
| Participant (SM:4040-4310, 5459-5525, 5987-6843) | `_participant_transactions`, prepare and watch tasks, provisional state | join, `Prepare`, `Commit`, `Abort`, watch, recover | coordinator by RPC, database, state lock |
| Nested ownership (`StateManager.Transaction`, SM:446-1228) | `owner_ids`, `_snapshots`, lock mode, provisional state, idempotency keys and tasks | wait, claim, relinquish ownership, snapshot, roll back, `RelinquishOwnership` | the servers of the nested transactions' methods |
| Database (`database.cc`) | coordinator records, open and prepared participant transactions | prepare, commit, abort, cleanup, recover | all servers |
| Deadlock avoidance (SM:280-320, 2890-2936) | transaction ages | abort the younger after a grace period | state lock, ownership |
| Monotonic clock (`monotonic_clock.cc`) | high water mark, last returned | `Now`, `Flush`, `Start` | database; gives timestamps to restart detection |
| Idempotent mutations (SM:2500-2760, `idempotency.py`) | bloom filter, per-workflow recovery sets | get, add, recover, discard | database |
| Task dispatcher and cache (`aio/internals/tasks_*.py`) | dispatched tasks, cached responses | dispatch, retry, cancel, stop, trim | state manager, database |
| Loading of states (SM:3290-3760) | `_states`, `_load_events`, `_state_preloads` | preload, load, store, construct | database, every call |
| Reactive readers (SM:4480-4640, `contexts.py` `React`, `react.py`) | queues of streaming readers, queriers, events | react, query, iterate, invalidate | clients, other actors |
| Workflows (`workflows.py`, `memoize.py`, SM:4860-5000) | the Memoize actor of a block, the iteration of the task | memoize, at least / most once, until, loop | task dispatcher, database |
| `concurrently.py` | tasks in flight, the limiter's window | fill, yield, adapt, close | any caller |
| Idempotency manager (`idempotency.py`) | RPCs by key, aliases, uncertainty, a checkpoint | generate or get a key, acknowledge, checkpoint, restore | every call of a context |
| OAuth server (`auth/oauth_server.py`, `std/oauth`) | nothing: signed tokens, cookies; the token vault | authorize, callback, consent, token, start, finish, refresh, sign out | provider, browser, registered clients |
| Placement (`placement.py`, `controller/`, `routing/`) | plan and version, servers, routes, waiters for a change | plan, up, down, start, stop, listen, wait | servers, Envoy |
| xDS server (`routing/xds_server.py`) | configuration and version, an entry per stream | set configuration, stream, acknowledge | Envoy |
| Ordered map (`std/collections/ordered_map`) | a B+ tree of node actors | create, insert, remove, search, ranges | transactions over the nodes |
| Pubsub and queue (`std/pubsub`, `std/collections/queue`) | items and queue ids of a topic, entries of a queue | publish, subscribe, broker, enqueue, dequeue | workflows, sorted map |
| Presence (`std/presence`) | toggles, disconnect events, the list | connect, toggle, subscribe, watch | clients, workflows |

The rest (clients in other languages, code generation, CLI, dashboard) is listed
in `PROJECT.json` with the reason why it is left out.

What is hard in it:

- *Concurrency.* Everything in a server runs on one asyncio loop: a method is
  atomic up to its next `await` and nothing else is. A future may be resolved
  by one coroutine, and the coroutine that awaits it be cancelled, before it
  runs again. `asyncio.gather` lets a method make several calls at once.
- *Failure.* Servers and the database crash at any point. What a participant
  did before it prepared is only in memory, so a server that restarts has
  forgotten it, and the lock with it. *Restart detection* refuses a call or a
  `Prepare` of a transaction that is older than the recovery of the server.
- *Messages.* RPCs are retried until a definitive answer, so they are delivered
  late, twice and, as different tasks and servers send them, in any order.
  Requests to the database run on its own threads in any order.
- *Staleness.* A preload, a querier's response, a cached plan, a filter or a
  checkpoint is read before an `await` and used after it.
- *Elision.* Read-only participants skip the disk writes and the commit;
  transactions without effects answer the client before they prepare.

What makes each component correct: the lock excludes, leaks no hold, strands
nobody and starves no writer; the protocol has one verdict, durable, the one
the client is told; no commit lacks a write and no success rests on reads that
nothing protected; a nested transaction that aborts leaves no trace and takes
nobody else's effects with it; a cycle of waiting transactions is broken at the
expense of the younger; readings of the clock never go back; a mutation that was
answered is remembered, a task that was stored is run, a memoized block is not
run again; what a client is shown catches up with the state and never goes back;
every plan routes a state to the server that has it; nobody is signed in whom the
provider did not identify; a tree answers as the map it stands for, and a message
is delivered once and in order; everybody finishes.

## 2. Modules

### StateLock

One `Lock`. `shared`, `exclusive`, `upgrader`, `exclusive_holder`,
`shared_holders` and `waiters` are the fields of the class; `mode`, `wait` and
`granted` are the callers': what each holds, the `_wait` it is suspended in,
and whether the future of its waiter is resolved. An action is what runs
between two awaits: a call (`acquire_shared`, ..., `downgrade`), the return of
a granted `_wait` (`Resume`), and the two branches of its `except
BaseException`: the future is resolved already and the hold is handed back
(`HandBack`), or it is not (`GiveUp`). A deadline, an `on_grace` that raises
and a cancellation all take these. `maybe_grant_next` translates the loop of
`_maybe_grant_next` by what it does: it grants the head if that is exclusive,
else all shared waiters before the first exclusive one. Only transactions
upgrade and downgrade, as in the code, and a caller outside a transaction is
not named as a holder.

`ParticipantLock` extends it by one step: a participant is completed, and its
hold released in `transaction.mode`, while a writer of the same transaction is
suspended in `upgrade`.

### TwoPhaseCommit, AtomicCommit

One root transaction. The kinds of participants are constants: `Writer` (holds
its lock exclusive, has effects), `Reader` (shared, read-only) and `SortedMap`
(opens its transaction in the database at once and cannot use restart
detection); `Home` places them on servers. The variables are the coordinator's
memory (`phase`, `future`, `participants`, `answered`, `acked`, `recording`),
the participants' (`txn`, `task`, `watch`), the database (`record`, `db`,
`written`), the requests sent, what the client was told, and history.

- The body calls states (`Call`, `CallAgain`), whose answer may be lost
  (`CallLost`) or which refuse since they restarted (`CallRefused`); it may
  fail or be cancelled. `Complete` starts the gather of the record's write and
  the `Prepare`s, `RecordLands` is the database handling the write, even after
  the gather was abandoned.
- `Publish` resolves the future and answers the client; `MarkPrepared`,
  `AllCommitted` and `Cleanup` are the commit control loop; `StartAbort` and
  `FinishAbort` are the two sides of the first `await` of the abort.
- `Prepare` has one action for each of its outcomes: the transaction is unknown,
  prepared already, elided, or a prepare task starts, lands or fails.
- `Watch` is answered by the coordinator in one step and acted on by the
  participant in another.
- `Crash`, `CrashAll`: servers, or the database with all of them, crash and
  recover from what the database has.
- What the database does with a request is an operator named after its handler
  (`TransactionCoordinatorPrepare`, `LookupOrBeginTransaction`,
  `TransactionParticipantCommit`, ...), used by the action in which it lands.

A request that was sent stays in `sent`: it may be delivered at any later time
and again. A response may be lost, in which case the request is delivered again.

`AtomicCommit` is what the client and the states with effects see: one verdict,
never revised, by which everybody ends and which is all the client is told.
`TwoPhaseCommit` maps its own state to `verdict`, `fate` and `told`.

Assumed of the environment: a server's requests that are in flight at the
database when the server dies are handled or dropped before its restart reads
the database; and a server's recovery timestamp exceeds a transaction's
timestamp exactly if it recovered after the transaction started, which the
monotonic clock is there to provide.

### NestedOwnership

One state and the tree of nested transactions of one root. `owner_ids`,
`snapshots`, `mode`, `value` and `keys` are the participant's: the chain of
ids that owns the state, the stack of snapshots, the mode of the lock, the
provisional state as the set of mutations in it, and the idempotency keys and
tasks. `status`, `call`, `loaded` and `made` are the method bodies'. `Here` are
the transactions whose method is a method of this very state; these wait until
no call is in flight on it (`StartHere`, `Drained`), mutate it through a live
reference (`Mutate`) and relinquish directly (`EndHere`). The others
relinquish by requests, which arrive late, twice and in any order
(`EndElsewhere`, `RelinquishOwnership`). `Prepare` waits until no nested
transaction owns the state.

Simplified: a writer's upgrade of the lock is part of the start of its call
(`StateLock` has it step by step), and a transaction that is doomed, by a
timeout or a presumed deadlock, is not followed further, since nothing of it is
prepared. `races` records which of three things happened that the code does not
withstand (section 4); the exact properties are stated of the behaviours without
them.

### DeadlockAvoidance, SiblingDeadlock

`DeadlockAvoidance` has several transactions over several states, with the lock of
each at the level that the theorems about `StateLock` allow: holds by mode, an
upgrade slot and a FIFO queue. A transaction may wait for several locks at once.
When the grace period of a wait is over it looks at the holders
(`_abort_if_presumed_deadlock`, SM:2890-2936) and gives up if one is older; it is retried
with the age of its first attempt. When the deadline of the wait is over it gives up whoever holds the
lock, as a second upgrader does, and tells its caller no age. `DeadlockResolved`: in every cycle somebody will give
way, and of two transactions always the same one does, until the other comes back as a new transaction since it
failed without an age (section 4). `SiblingDeadlock` is the
same within one root: nested transactions that wait for ownership of each other's
states, `presumed_deadlocked_nested_transaction`, and the late `RelinquishOwnership` of one
that gave way and was issued again under a new id. `gave_way` records who was presumed
deadlocked and which siblings it had then: those under way and those whose states are
on their way back. `SiblingsResolved`: somebody can always move on or gives way; whoever
gives way has an older sibling, so that the oldest never does; and no state stays with an owner that
neither runs nor is about to relinquish it. That the oldest sibling *under way* never gives
way, which the property once said, is not true: with three siblings, one may be
presumed deadlocked because of an older one that has ended and whose state is still on its
way back. The attempt to prove it showed this.

### MonotonicClock, RestartDetection

`MonotonicClock` is `monotonic_clock.cc` step by step: each load, store and
compare-and-swap of the lock-free `Now` by several threads, the flush of the mark, a crash, and a
wall clock that was rewound meanwhile. `RestartDetection` takes its readings in
milliseconds: the stamp of a transaction, the recovery time of a server, the refresh
loop that updates the latest timestamp each server has seen.

### IdempotentMutations, IdempotencyManager

`IdempotentMutations` is the server's side: the filter over the rows of the database, its
preload and its loading on demand, the bulk recovery of a workflow's rows across
awaits, eviction when the workflow ends, the expiry of keys, and what a recovered transaction
adds. `IdempotencyManager` is the caller's: which key a call gets (from its alias, its
iteration, a key it gives, or none), what a key stands for, the checkpoint that a control loop
restores, and the uncertainty after a mutation that failed without an answer.
`ManagerSound`: no two different RPCs are under way with one key, nothing is sent
while the fate of a mutation is in doubt, and a call is refused only with a reason.

### TaskDispatch

The tasks of one server: rows in the database, the retry loop of each task with its
body, completion, response and cleanup, the cache with its bound, `Wait` and `CancelTask`, `stop`, and
recovery. `Without` takes entries out of the cache and keeps the order of use, which
says what is evicted next. `TasksKept`: a task whose result anybody saw stays completed; a running task is in the
cache; a task that is known is not lost.

### StateLoading

One state in the state manager: preloads that are fired before the call needs
them, `_load` with its event, `_store`, construction, cancellation at each await, and the
commit or abort of a transaction that was recovered. `raced` is the case of section 4.

### Workflow, Reactive, Concurrently

`Workflow` is `memoize` with its three primitives over the `Memoize` actor, inside
a control loop whose counter is stored late; calls of crashed attempts arrive during
later ones. `Reactive` is a client's query of an actor that itself queries another:
streaming readers, sessions, the querier that waits for its response to be used,
broken streams, and mutations that the client repeats. `Concurrently` is the generator with its
batches and the limiter that adapts to latency.

### Placement, XdsServer

`Placement` computes what the code computes, on small numbers: first keys of shards
(`total_keys` is the power of `Base` that bounds them),
the shard of a hash, the server of a shard when there are more or fewer servers, and the route map
of Envoy, which the manager builds from the shards of every server in its dictionary, a later one
replacing an earlier one (`server_id_by_shard_id`; `at` is the place in the dictionary). Its actions are the commands of `Reboot` (up, down, stop, start), starts that
fail, the streams of plans to placement clients, and waiting for a change. `PlacementSound`:
Envoy, clients and the database agree where a state lives, once a command returned and but for a server that a failed
one left over (section 4); doubling the servers moves a shard only
to a new one; and plans do not go back. `XdsServer` has one Envoy with successive
streams, which asks for clusters and listeners and acknowledges them, and `set_config`, which
waits for the clients that it told. Of the fatal errors only the rejection of a configuration is modelled; those for an old
Envoy, an unexpected type or any other exception end the server the same way.

### OAuthSignIn

Flows of tabs of one browser and of clients that registered themselves, as steps between
the awaits of each handler: `/finish` checks the cookie and the code before the hook runs (`finish`) and sets and
deletes cookies after it (`FinishAnswers`), with requests of other tabs in between; the browser's cookies; the vault of the provider's
tokens, fetched and stored in separate transactions, where a fetch that is aborted finds nothing; sign-out and refresh under way at
any point. Tokens are modelled by what they say; signatures cannot be forged.

### OrderedMap

The B+ tree. A transaction of the map is one step, as isolation is the subject of the
modules above; what it computes is translated function by function (`insert_leaf`,
`insert_inner`, `build_root_levels`, ...), the readers as well, and `contents` is the plain map that
they are compared with.

### PubSub, Presence

`PubSub` is a topic with its broker, queues and concurrent dequeues, with crashes between any two
steps of the workflows: what is memoized and what is only in memory is kept apart. A queue's
entries are sorted by the UUIDv7 they are given (`queue.py:90-93`); assumed is that a later one is greater, which `uuidv7.py:77-106`
ensures within a process, and which after a restart takes a wall clock that was not set back.
`Presence` has clients that connect, toggle, subscribe and leave, the disconnect events
in memory, and `Watch`, whose view of the status is a querier as in `Reactive`.

### MCTransactions, MCRuntime, MCProgress

The parts above share no variable, so three modules run them side by side: `active` names the
part that moves, the others keep an initial state. `MCTransactions`
(two phase commit, deadlock avoidance, idempotent mutations) and `MCRuntime` check safety,
`MCProgress` safety and liveness, with fairness for the actions of the active part.

### The proofs

Eight modules hold the theorems of section 5:

| Module | About |
|---|---|
| `StateLockProofs` | `StateLock` |
| `TwoPhaseCommitProofs` | `TwoPhaseCommit` and its refinement of `AtomicCommit` |
| `NestedOwnershipProofs` | `NestedOwnership` |
| `DeadlockAvoidanceProofs` | `DeadlockAvoidance`, `SiblingDeadlock` |
| `IdempotentMutationsProofs` | `IdempotentMutations`, `IdempotencyManager` |
| `ServerProofs` | `MonotonicClock`, `RestartDetection`, `StateLoading`, `TaskDispatch`, `Placement` |
| `ExecutionProofs` | `Workflow`, `Reactive` |
| `LibraryProofs` | `Concurrently`, `Presence`, `PubSub`, `OAuthSignIn` |

They are about the specification that each component's module ends its actions with (`Spec`, `ClockSpec`,
`LoadingSpec`, `WorkflowSpec`, ...); the runs check the same actions, side by side.

## 3. Runs

| Run | Checks | Shows |
|---|---|---|
| `state_lock` | `TypeOK`, `MutualExclusion`, `HoldsAccounted`, `HoldersExact`, `NoLostWakeup`, `QueueFIFO`, `WriterServed` | the lock, for 3 transactions and 2 plain callers |
| `transactions` | `DecisionStands`, `WritesApplied`, `ReadsProtected`, `ParticipantsTracked`, `DeadlockResolved`, `MutationsRemembered`, `CommitmentSpec` | deadlock avoidance, idempotent mutations, and the commit protocol, for 2 writers and a reader on 3 servers and 2 crashes; it implements `AtomicCommit` while the coordinator does not crash in the window |
| `two_phase_live` | `EveryoneFinishes` | termination, with a read-only coordinator, a writer and a sorted map, and a crash |
| `nested` | `SnapshotsExact`, `EffectsExact`, `LoadsExact`, `MethodsAlone`, `OwnershipReturns` | 3 nested transactions at depths 1 and 2; one of them and the root are methods of the state itself |
| `runtime` | `RuntimeTypeOK`, `TasksKept`, `SiblingsResolved`, `AckedKept`, `MapSound`, `NeverBackwards`, `BlocksMemoized`, `ManagerSound`, `SignInSound`, `PlacementSound` | safety of nine parts |
| `progress` | `ProgressTypeOK`, `GeneratorSound`, `MessagesKept`, `PresenceSound`, `NothingMissed`, `ForgottenStaysOut`, `RetriesAccepted`, `WorkEnds`, `ClientsCatchUp`, `ConfigDelivered` | progress of nine parts, and the safety of four |
| `participant_lock`, `two_phase_success`, `nested_overtaken`, `loading_recovered`, `idempotent_once`, `reverse_range` | one property each, violated | section 4 |

*Bounds.* Five callers of the lock suffice for an upgrader next to another shared
holder, with queued waiters of both modes and one that has been granted and has
not run; the theorems remove this bound. Two crashes (`MaxCrashes`) let the
coordinator crash before and after a participant does, or crash again while it
recovers; two writers are needed for a mixed outcome, and a reader for elision
and lost locks. A nested transaction within a nested one, and a sibling, are the
least with which requests overtake each other across levels; `MaxCalls` bounds the
calls of a transaction to one or two, enough for one before and one after a
nested transaction. Each kind of message is kept once in `sent`, which loses nothing,
as it may be delivered again and again.

In `transactions`, `runtime` and `progress`: three transactions over two states with crossed demands and
two upgrades; four nested transactions at two depths; two threads, two starts and three
readings of the clock; three callers, two of them with one mutation and one of a workflow whose
key may expire, every row found at the start counted as answered; two tasks, one of them scheduled in a transaction, a waiter, a cache that holds
one task and a crash; a reader, a writer and a constructor of a state; two iterations of a
loop, two crashes and a failure; six kinds of call in two branches and three iterations; two of two tabs and a
registered client, two users, one sign-out; four plans with one or two servers and four shards, one of which may fail after one of its servers started; four
keys in trees of degree 2 and 3, with which leaves and inner nodes split at up to three levels; two
servers restarted twice within two milliseconds; four items with at most three in flight; three
mutations of two actors and a broken stream; three configurations over three streams of Envoy (with two, the iteration of `set_config` cannot come to a withheld client); two
messages, two queues, two dequeues and a crash; two connections of one subscriber and a crash.
Each is the least with which the case that its property is about happens, and each property has a
mutant of the code that the same instance refutes.

Deadlock is not checked where the system may stop: a transaction ends. The lock
never stops.

*Fairness.* The lock: a resolved coroutine runs (weak fairness of `Resume` or
`HandBack`); a caller that again and again could release does (strong fairness
of `Release`), as methods and transactions run under deadlines. Nothing is
assumed of arrivals or of giving up. Two phase commit: a method body ends, RPCs are
retried with backoff until they are answered, the control loops go on, the
database handles what it is asked, and a prepare that is retried for ever in the
end succeeds (strong fairness of `PrepareLands`, the only one). Crashes are
bounded, so in the end there are none. Nested: methods end and
`RelinquishOwnership` is retried until it is acknowledged. The parts of `progress`, each
beside its definition in `MCProgress`: loops and callbacks of the event loop go on, the database
answers, the dispatcher retries, streams reconnect; strong fairness only for the end
of a task's body and the writes that follow it, which fail and are retried, but not for
ever. Nothing is assumed of mutations, publications, connections or departures.

## 4. Where the code departs from what it says

Six runs expect a violation; each states a sentence of the code's comments, tests or docs.

- `two_phase_success`. The outcome is published (SM:5640) before the record says
  so (SM:7226: "This MUST complete _before_ committing"). A participant that hears
  "commit" from `Watch` commits; the coordinator crashes, recovers, prepares again,
  and the participant, which has finished, answers that it never prepared: the rest
  aborts. The client was told of a success.
- `participant_lock`. The outcome of a transaction may release a lock while a writer
  of it is suspended in `upgrade` (SM:4668, 2961-2990).
- `nested_overtaken`. `RelinquishOwnership` of an outer commit overtakes that of an
  inner abort, which is then ignored (SM:815-820).
- `loading_recovered`. A preload that was fired before a recovered transaction committed is
  used after it, and the cached state lacks the commit (SM:6681-6684).
- `idempotent_once`. A writer looks for an earlier mutation with its key before it
  has the lock and not again under it (SM:5234): a call and its retry are both applied.
- `reverse_range`. When a leaf that has a next leaf is split, the `prev_id` of that
  next leaf stays what it was (`ordered_map.py:303-328`), so a reverse range skips the new
  leaf. `MapSound` speaks of reverse ranges until then (`relinked`).

Others of the same families were met on the way. They have no run; the
properties of the passing runs leave them out by name.

- `windowCrash`, a crash of the coordinator while its published outcome differs from
  its record, also covers: a `Watch` answered "aborted" before the record is
  removed, after which a recovery commits (SM:5917-5937, against SM:5908-5912); and a record
  that lands after the cleanup of an abort (SM:5617, against SM:5725-5730), after which a
  recovery commits what the client was told had failed.
- `ReadsProtected` speaks of a transaction with effects whose client was told of its
  success. One without effects is answered before its `Prepare`s, so a restart between two of
  its reads goes unnoticed (against SM:5560-5562); so does one in a transaction
  committed by a recovered coordinator, which skips readers (SM:7145).
- `races`: besides "overtaken", "interleaved" is a snapshot taken before the calls in flight
  are drained (SM:760, 883), so that a rollback drops the write of an ancestor, and "live"
  is a method that mutates its state, or upgrades the lock, before the rollback of its
  nested transaction has arrived (SM:1207, 1226).
- When the exclusive head of the queue gives up (SM:2186) nobody is granted: shared
  waiters behind it stay queued until the next release while newcomers
  are granted at once. Nobody is stranded (`NoLostWakeup`), and those granted from the
  queue are granted in order (`QueueFIFO`).
- A transaction that is presumed deadlocked is retried with its age. One that fails with `Unavailable` first, because the deadline
  of a wait is over (SM:2159-2161, 2189-2197) or another one upgrades already, tells its caller no age, and is retried as
  the youngest (`stubs.py:202-231`). One that gave way to it as the older may then see it give way in turn.
  `NoMutualGivingWay` takes such a retry for a new transaction.
- A transaction that the database recovers without its writes must abort
  (`database.cc:3737-3740`), but for a sorted map the flag that would make it is reset at SM:526.
- A rollback that arrives after the method upgraded the lock restores the shared mode (SM:1226), and
  the prepare of a state with effects is elided.
- `presence.py:126` says of `Watch` "We *atomically* wait until no longer present and remove". Its
  `Status` is answered by the querier of `until`, which holds the response back until it is used
  (`contexts.py:440-556`): a client that reconnects and subscribes after "absent" was received
  finds itself listed, and is removed by the check that follows, for good. `unseen` in
  `Presence`.
- The write with which the broker takes items off a topic, and the transaction with which a dequeue
  takes them off a queue, are not idempotent within `until`. A crash before the result is memoized loses the
  items, against "Any subsequent messages published to the `Topic` will be received"
  (`pubsub.mdx`). `dropped` in `PubSub`.
- `set_config` iterates over the clients while streams come and go, and skips one when an
  earlier one leaves (`xds_server.py:167-189`; `skipped`). An Envoy that reconnects with the current
  clusters and not the listeners is sent no clusters on its new stream and thus no listeners
  (354-391; `Withheld`), against "all current and future clients" (210-218). Both together: when streams that the iteration has
  passed leave the list, it can come to such a client, and `set_config` waits for it until the stream breaks (167-183).
  `ConfigReturns` excepts a wait for a withheld client.
- `wait_for_change` of a placement client sets and clears an event at once (`placement.py:323-367`): one who
  looks at the plan and then waits can miss a change in between. Servers that started before another one of the
  same `up` failed are not stopped (`server_managers.py:122-146`), nor by `down`, which stops those of the last plan that was made
  (656-679), but Envoy is told of them with their shards (1263-1282), and the last one in the dictionary that has a shard gets it
  (`envoy_config.py:350-360`). One launched after the server of the plan thus takes over its shards in Envoy, against "we MUST keep them in
  sync" (`compute_header_x_reboot_server_id.lua.j2:225-226`): `up` with two servers of which the second
  fails, `down`, `up` with four, which fails too (the first server is there, from another specification) and leaves the third and the fourth, `down`,
  and `up` with two: the first server is older than the third, which keeps one of its shards. `RoutesAgree` has this as its one exception; it takes
  five commands and two numbers of servers above one, which the theorem covers and the run does not reach. The Lua filter of
  Envoy hashes a whole state reference (`database.cc:4378-4383` hashes its first component); compound
  references are not modelled.
- `restore` of the idempotency manager does not copy (`idempotency.py:380-388`): from the third
  iteration of a loop on, the checkpoint holds the calls of earlier iterations, and a call without
  alias is refused, against SM:4978-4990 ("each new loop iteration we allow empty calls").
  A `ValueError` for the reuse of a key makes the manager uncertain although nothing was sent.
- A refresh that is answered after the sign-out sets the cookies again
  (`oauth_server.py:1861-1895`); the finish of one tab clears the pending sign-in of another, be it because it fails (1738-1760) or because
  the other one started while its hook ran (1808-1826); of two
  sign-ins that fetch and store in turn one may lose the provider's refresh token (829-850), and so does a sign-in whose fetch or
  decryption is aborted for any reason, which is taken for "nothing stored" (838-841, `std/oauth/v1/oauth.py:172-176`).
- The assertion that a load is still registered (SM:5375-5378) can fail when a state's filter is loaded by two calls and one is
  cancelled (`broken` in `IdempotentMutations`); a key may expire between its check and the recovery of its workflow's
  rows (`forgot`).
- Two constructors of one state may both find it missing (against SM:3655-3658; `raced`), and a call cancelled
  between the store in the database and in memory leaves the cache behind.
- A `Store` of a crashed attempt may arrive after the `Status` of the next (`overtaken`), which then returns
  another result than the one memoized.
- A task whose cleanup cannot be stored is evicted and a later `Wait` fails its assertion; `CancelTask` after the response
  overwrites its row; tasks of a prepared transaction are unknown to `Wait` between a restart and the commit. `TasksKept`
  names these cases.

## 5. Proofs

Every theorem is of the form `Spec => []P`, or `Spec => P` for an action property or a
refinement, holds for all values of the constants that satisfy the named assumptions, and has no other
hypothesis. All but those of `Typing` and `Covered`, and the invariants themselves, are properties that the runs check. Hardly any is inductive: each
module first defines the invariant that is, as a conjunction of named parts, which TLC helped to find on small
instances. Every action has a lemma, or a step of its own, that it keeps the invariant.

| Theorem | States | Of | Assumptions |
|---|---|---|---|
| `TypeCorrect`, `ExclusionHolds`, `HoldsHold`, `HoldersHold`, `NoWakeupLost` | `TypeOK`, `MutualExclusion`, `HoldsAccounted`, `HoldersExact`, `NoLostWakeup` | `StateLock` | `ClientAssumption`, `TransactionAssumption` |
| `GrantedInOrder` | `QueueFIFO` | `StateLock` | the same |
| `Typing`, `Tracking`, `Durability`, `Isolation`, `Agreement` | `TypeOK`, `ParticipantsTracked`, `WritesApplied`, `ReadsProtected`, `DecisionStands` | `TwoPhaseCommit` | `KindAssumption`, `HomeAssumption`, `CoordinatorAssumption`, `MaxCrashesAssumption` |
| `Refinement` | `CommitmentSpec`: `AtomicCommit` is implemented | `TwoPhaseCommit` | the same |
| `Covered`, `ReadingsAdvance` | `MarkDurable`, `NeverBackwards` | `MonotonicClock` | `ClockAssumption` |
| `ForgottenRefused` | `ForgottenStaysOut` | `RestartDetection` | `RestartAssumption` |
| `AcknowledgedKept` | `AckedKept` | `StateLoading` | `LoadingAssumption` |
| `TasksAreKept` | `TaskTypeOK`, `TasksKept` | `TaskDispatch` | `TaskAssumption` |
| `PlacementIsSound` | `PlacementSound` | `Placement` | `PlacementAssumption` |
| `SnapshotsAreExact`, `EffectsAreExact`, `LoadsAreExact`, `MethodsRunAlone` | `SnapshotsExact`, `EffectsExact`, `LoadsExact`, `MethodsAlone` | `NestedOwnership` | `RootAssumption`, `ParentAssumption`, `AcyclicAssumption`, `HereAssumption`, `BoundAssumption` |
| `ManagerIsSound` | `ManagerSound` | `IdempotencyManager` | `ManagerAssumption` |
| `Remembrance` | `MutationsRemembered` | `IdempotentMutations` | `IdempotentAssumption` |
| `Resolution` | `DeadlockResolved` | `DeadlockAvoidance` | `DeadlockAssumption` |
| `SiblingsResolve` | `SiblingsResolved` | `SiblingDeadlock` | `SiblingAssumption`, `CallTreeAssumption` |
| `SignInIsSound` | `SignInSound` | `OAuthSignIn` | `OAuthAssumption` |
| `GeneratorKept` | `GeneratorSound` | `Concurrently` | `ConcurrentlyAssumption` |
| `PresenceKept` | `PresenceSound` | `Presence` | `PresenceAssumption` |
| `MessagesStay` | `MessagesKept` | `PubSub` | `PubSubAssumption` |
| `BlocksKept` | `BlocksMemoized` | `Workflow` | `WorkflowAssumption` |
| `NothingGoesBack` | `NothingMissed` | `Reactive` | `ReactiveAssumption` |

The assumptions say of the constants what kind of thing they are (naturals, functions between
the given sets, a value that is not one of a set), that the sets a cardinality is taken of are finite, and of
`Concurrently` that `MinLimit <= MaxLimit`: `concurrently` leaves `min_limit` at 1 and asserts that the limit is positive. No number of processes,
calls, messages or crashes is bounded by them. `AcyclicAssumption` and `CallTreeAssumption` say that nested transactions form a
finite tree: one is created by a call within its parent (its ids are the parent's and a new one), so none is within itself.
`PlacementAssumption` says that each number of servers divides the number of shards, which `make_plan` asserts.

The recursive functions of the models (the chain of ids of a transaction, the powers that bound the keys, the binary search of the Lua filter) have
defining equations that a proof may only use once the function is shown to exist. The proofs do so without an induction
scheme, which the provers cannot instantiate: the set of depths (or lengths, or widths) at which no solution exists has, if it is not
empty, a least element (`Least`, from well-foundedness), and a solution there is put together from the one below.

**StateLock.** `IndInv` adds what ties the callers
to the lock: a caller that waits for a first hold has none and one that
upgrades has a shared one; a resolved future belongs to a caller that waits
(`CallersOK`); the queue has exactly the callers that wait unresolved, each once
and in the mode it waits for (`QueueOK`); the upgrade slot is the one unresolved
upgrader (`UpgraderOK`); the counters and the named holders are those of the callers
that really have holds, be they resumed or not (`LockOK`); and an exclusive hold is
alone (`Exclusion`). The sets of holders are functions `HS` and `HX` of what the
callers believe, what they wait for, and which futures are resolved, so that a
step that moves a hold from "granted" to "resumed" provably changes nothing.
Every release, hand-back and downgrade goes through
`maybe_grant_next`. The lemma `Granting` says that, called in a state in which the
invariant holds of the given shared count, holders and resolved futures and nobody
holds exclusively, it restores the invariant, in each of its three grants
(`GrantUpgrade`, `GrantExclusive`, `GrantCohort`) and in the case that it grants nobody.
Every action then has its own lemma, which shows that it calls `maybe_grant_next` in
such a state or preserves the invariant itself. For `QueueFIFO`, `GrantsInOrder` says that what is
granted is the upgrader, who is not in the queue, or a beginning of the queue, all of which is taken off.

**TwoPhaseCommit.** The invariant has five layers, each kept by a step that keeps the ones before it.
`CoordinatorOK`: the future, the record and the write of it in flight follow the phase. `ParticipantsOK`: what a
server has in memory of a participant follows what the database has. `VotesOK`: who voted, and who may be asked to
commit, has prepared. `LossesOK`: a participant that lost its lock to a crash is gone, and its server remembers the restart
and does not vote for it. `DecisionOK`: nothing is heard before the decision, only a commit after it, and at the end not
both; this last layer holds until the coordinator crashes in its window (`windowCrash`), after which the
code does not have the property (section 4). `Durability` and `Isolation` do not depend on it: even a crash in the
window commits no participant that lost its work. `Refinement` maps the state to the abstract one and shows
for every action that it is a step of `AtomicCommit` or none (`VisibleStep`, `VerdictKept`).

**MonotonicClock, RestartDetection.** The mark on disk covers every reading ever returned (`EverOK`), because the mark in
memory is durable, and is the durable one except for the holder of the mutex between its write and its store
(`MarkOK`); what a thread read without the mutex stays usable whatever the others do before it compares and swaps
(`LocalsOK`). Of a server that an attempt has joined, either it still knows the attempt or it
recovered after the attempt's stamp (`RestartInv`), so that joining again is refused.

**NestedOwnership.** `Structure` holds always: those under way form a subtree (`TreeOK`), calls are made by who runs and requests
sent by who ended (`CallsOK`), the owner's chain is one with which somebody claimed (`OwnerOK`), and each snapshot on the
stack names a claim and the owner before it, with an older snapshot for every nested owner in that (`SnapshotsOK`). From it follow `MethodsAlone` and
that there is a snapshot to roll back to. `Data` holds until one of the `races` of section 4. `Now` says what is in the
state: the mutations of those who did not abort, or who aborted and still own it, as their rollback has yet to arrive. That is not
inductive, as a rollback installs an older value; `Later` therefore says the same of every snapshot that a rollback can reach
(`RollsTo`), as it will be seen once that rollback has happened: without the mutations of whoever is rolled back and with those
that were there before. A commit drops a snapshot or hands it up, so that the one an ancestor rolls back to
becomes another; that this one is consistent too is shown in `RelinquishData`. `EffectsExact` is what `Now` says at `Prepare`, when
nobody nested owns the state.

**StateLoading.** A call that changes the state holds its lock from the load to the end, and so does a recovered
transaction (`LockOK`), until whose end nothing is loaded (`QuietOK`); what is about to be acknowledged is in the
database (`WrittenOK`); and what a writer works on has everything acknowledged (`WorkOK`). The exception is a load
that was overtaken, or a second constructor (`raced`, section 4).

**IdempotentMutations.** `FilterCovers` alone is not inductive: an answer may be added between the scan of a
workflow's rows and their addition to the filter. `ScanOK` says that what a scan found together with what the filter got
since covers the scope, `AgainOK` that a call made again is stopped by the filter at the latest, and `PlaceOK` what a call
has at each of its steps. The exception is a filter that misses rows (`forgot`).

**IdempotencyManager.** A call under way stands for what its key was recorded with and a doubt not yet acknowledged is known to
the manager (`ManagerInv`), across every order in which branches call and are answered. For the refusals,
`KeysOfIteration`: until the second iteration the checkpoint that a control loop restores is the empty one. From the third iteration on
this is false, and so is the property (section 4).

**TaskDispatch.** `ResultsStored`: what a waiter hears, or the future has, is a result only if the row says so. `Accounted`: while the
server runs, a prepared task is awaited and a pending one has its open future in the cache. Eviction takes only tasks whose future is
not open, and `Without` keeps the others (`CacheDistinct`: no task is in the cache twice, so that taking one out takes it out altogether).

**Placement.** That the three lookups agree is a fact about numbers, strings of bytes and a search. The first keys are big-endian
bytes of increasing multiples, so the order of bytes is that of the shards (`BytesOrder`, `FirstKeys`, from quotients and
remainders); for every hash there is thus one last shard that starts at or before it (`ShardOf`). Counting (the placement client),
stepping back from the first key after it (the database) and the binary search (Envoy) each find that one (`ShardCounted`,
`ShardSteppedBack`, `ShardSearched`, of which the last says what the search finds between any two bounds).
The invariant ties plans to servers: a client's plan and those in its queue are in order and none is newer than the current one (`ClientsOK`);
the plan being made is newer, and Reboot's own client has the current one unless Reboot waits for it (`VersionsOK`); servers of
the plan that is made are up with the ports it gives as far as it has come, and those of the current one stay up
until it is published (`ServersOK`); and without a failed start there are no others (`NoneLeftOver`). For Envoy, `EnvoyOK`: no two servers have
the same place in the dictionary (`DictOK`); the servers of the plan were launched from its number, so every shard has a claimant
(`SpecsOK`), and the route map has, for each shard, the claimant launched last (`MapOK`). Two servers of one plan never claim the same shard, so whoever
takes one from its server is left over and came later.

**DeadlockAvoidance.** The lock of a state is well formed and nobody waits in it for nobody (`LocksOK`), only a
transaction under way, which has an age, holds or waits (`BusyOK`), ages are handed out once (`AgesOK`) and last over
retries (`LastingOK`). When everything waits, the youngest waits for an older one and gives way
(`YoungestGivesWay`; the least element comes from well-foundedness), and of two transactions it is always the same, as who
gave way to one that has still the age it had then is younger than it. One that comes back without an age is a new one, to which nobody gave way.

**SiblingDeadlock.** Ids are handed out once and a caller outlives its calls (`CallsOK`); one chain of ids leads to each nested
transaction, whichever of its attempts left it in an owner, a snapshot or a request (`ChainsOK`); whoever owns a state, or owned it when a snapshot
was taken, has a snapshot of its own or of a call within it (`SnapsOK`), so that relinquishing gives the state back; and an owner that
does not run has a request on its way (`OwnersOK`, `MailOK`), also when the request of its caller arrives first. If nobody can start, claim or
return and nothing is on its way, everybody who runs waits; from the top the youngest sibling is followed down
to one with no call under way (`YoungestLeaf`). The owner it waits for runs, and where the two chains
part it is the younger: it is presumed deadlocked.

**Concurrently, Presence, PubSub, OAuthSignIn.** `TasksOK`, `FlightOK` and `EndOK` say where each item of the generator is,
thus what is in flight; the limiter's arithmetic stays between the limits (`Clamped`). `ClientOK` says which of a client's
records there are in each phase of its connection, and the counter is the number of clients that toggled and were not
undone; `ListedOK` says why a subscriber is listed, except `unseen`. For the messages of one subscriber, `Line(q)` puts one
after another what was taken, is queued, is memoized or sliced for it by the broker, and is in the topic; every action
moves a message along it, or appends one that is published; only a crash that finds a slice not memoized takes some out
(`dropped`). `SignInInv` adds to the property what is true between the awaits: a refresh under way mints for a user who was identified and for whom
the hook has run, a browser that signed out has none under way, and the verifier of the flow started last is there
from its start to its end, unless the answer to another one's `/finish` took it.

**Workflow.** `AttemptOK` ties the phase of an attempt to what the memoizing actor stores, `MemoOK` the stored
result to the mutations that the actor has seen and to what blocks returned, `LateOK` says which calls of crashed
attempts can be under way, `OnceOK` where the one run of an at-most-once block is known, and `ChangeOK` that no result stored
or about to be is the previous one. The exception is a late `Store` (`overtaken`).

**Reactive.** What is known of an actor is ordered by inclusion along its way to the client: what the client is shown, the
state or the response that an execution works on, the querier's response, the responses on the wire (`WireOK`), the
latest state of the session, the states in its queue (`QueueOK`), the actor. `FloorA` and `FloorB` are what the client will at
least be shown from now on; a step moves a value down the line, and a query that starts anew loads the
actor, which is above the floor. `SessionOK` also has that the latest state contains the mutations of the keys that wait, and that
nothing wakes an execution before there is a state, without which the client would be shown none.

**Only model-checked.**

- All liveness, as fairness and `ENABLED` are beyond the prover: `WriterServed`, `EveryoneFinishes`, `OwnershipReturns`,
  `RetriesAccepted`, `WorkEnds`, `ClientsCatchUp`, and `ConfigDelivered`, all that is said of `XdsServer`.
- `MapSound`: the B+ tree of `OrderedMap` is built of recursive operators, and what they compute needs induction over trees.
- `RuntimeTypeOK`, `ProgressTypeOK`: the types of the parts that a run puts side by side, each part in one of the two. Of the parts with a theorem, the
  invariant that is proved has the types.
- The six violations of section 4 are counterexamples, which TLC gives.

## 6. What is not modelled

- Several transactions through two phase commit in one model: they meet only in the lock and in
  `DeadlockAvoidance`.
- Coordinators of older versions (those not `read_only_aware` or without `abort_via_response`).
- The contents of states, requests and errors; header propagation, the classification of errors, and authorization.
- Database rows as bytes: column families, key encodings, migrations, colocated ranges. The sorted map is one such range.
- The text of Envoy's configuration and compound state references; the providers' endpoints and token formats of OAuth;
  ciphertext, whose protocol is single writes around cryptography.
- Process start-up, wiring, the development CLI and its file watching, the dashboard's code watcher, BDD, inspection and export, code
  generation, agents and MCP, and the clients in other languages: sequential code, text output, user interfaces or
  bindings, whose behaviour no property of the runtime tells apart. They are more than half of the Python lines of the
  repository.

`PROJECT.json` lists each with its reason.

## 7. Plan

The order in which the project was made: the lock; two phase commit with its abstract specification; nested ownership; deadlock
avoidance, clock and restarts; idempotency, tasks, loading, workflows and readers; placement and Envoy, sign-in and the library. The
proofs followed in the same order. Every safety property that a run checks now has a theorem, except those listed at the end
of section 5.

What would come next, in the order of what it says about the system:

- several transactions in one model of two phase commit, with the theorems about one as what each of them keeps;
- compound state references in `Placement`, where the Lua filter and the database hash different things;
- `NestedOwnership` over the lock of `StateLock`, step by step, where it has the upgrade as part of a call (`ParticipantLock` has
  the two together for one transaction);
- a B+ tree as a function from ids to nodes with the depth of each, in which the search could be proved as the one of `Placement` is.
