---------------------------- MODULE StateLoading ----------------------------
(***************************************************************************)
(* How calls load, cache and store one state in `SidecarStateManager`:     *)
(* `preload`, `_load` with its load event, `_store` and the commit of a    *)
(* transaction recovered after a restart.  A stored state is abstracted    *)
(* to the set of mutations it includes, so that a lost one is noticed.     *)
(***************************************************************************)
EXTENDS Integers, FiniteSets

CONSTANTS
    Call,                   \* calls of methods of the state
    Kind,                   \* "reader", "writer" or "constructor"
    RequiresConstructor,    \* requires_constructor
    Recovered,              \* the transaction recovered as prepared
    NoCall

ASSUME LoadingAssumption ==
    /\ Kind \in [Call -> {"reader", "writer", "constructor"}]
    /\ RequiresConstructor \in BOOLEAN
    /\ Recovered \notin Call /\ NoCall \notin Call \cup {Recovered}

VARIABLES
    stored,         \* the state in the database, or Missing
    states,         \* _states: the cached state, or Missing
    load_event,     \* _loads: the call that loads, or NoCall
    state_preloads, \* _state_preloads: whose preload future, or NoCall
    preloaded,      \* each call's preload future
    call,           \* each call: where it is and what it holds
    state_lock,     \* who holds the state's lock exclusively, or NoCall
    recovered_tx,   \* the recovered transaction
    acked,          \* history: mutations known to have succeeded
    raced           \* history: a load landed what was no longer current

loadingVars == <<stored, states, load_event, state_preloads, preloaded, call,
                 state_lock, recovered_tx, acked, raced>>

Missing == {NoCall}
Contents == (SUBSET (Call \cup {Recovered})) \cup {Missing}
NoFuture == [at |-> "none", data |-> Missing]
Mutates(c) == Kind[c] # "reader"

LoadingTypeOK ==
    /\ {stored, states} \subseteq Contents
    /\ {load_event, state_preloads} \subseteq Call \cup {NoCall}
    /\ preloaded \in [Call -> [at : {"none", "asking", "done", "failed"},
                               data : Contents]]
    /\ call \in [Call -> [at : {"new", "lock", "lookup", "waiting", "preload",
                                "query", "authorize", "body", "remember",
                                "done"},
                          got : Contents, on : Call \cup {NoCall},
                          saw : SUBSET (Call \cup {Recovered})]]
    /\ state_lock \in Call \cup {Recovered, NoCall}
    /\ recovered_tx \in {"none", "prepared", "written", "committed", "aborted"}
    /\ acked \subseteq Call \cup {Recovered}
    /\ raced \in BOOLEAN

\* The server has just started.  It may have recovered a prepared transaction,
\* which then holds the lock.
LoadingInit ==
    /\ stored \in {Missing, {}}
    /\ states = Missing
    /\ load_event = NoCall /\ state_preloads = NoCall
    /\ preloaded = [c \in Call |-> NoFuture]
    /\ call = [c \in Call |->
                 [at |-> "new", got |-> Missing, on |-> NoCall, saw |-> {}]]
    /\ recovered_tx \in {"none", "prepared"}
    /\ state_lock = IF recovered_tx = "prepared" THEN Recovered ELSE NoCall
    /\ acked = {} /\ raced = FALSE

To(c, at) == call' = [call EXCEPT ![c].at = at]
End(c) == call' = [call EXCEPT ![c] =
             [at |-> "done", got |-> Missing, on |-> NoCall, saw |-> {}]]
MutLoadDone(c) == UNCHANGED load_event
LoadDone(c) == load_event' = IF load_event = c THEN NoCall ELSE load_event
Unlocked(c) == state_lock' = IF state_lock = c THEN NoCall ELSE state_lock

----------------------------------------------------------------------------
\* A method call first fires a preload, unless the state is cached, being
\* loaded or already preloaded.
preload(c) ==
    IF states = Missing /\ load_event = NoCall /\ state_preloads = NoCall
    THEN /\ state_preloads' = c
         /\ preloaded' = [preloaded EXCEPT ![c].at = "asking"]
    ELSE UNCHANGED <<state_preloads, preloaded>>

StartCall(c) ==
    /\ call[c].at = "new"
    /\ preload(c)
    /\ call' = [call EXCEPT ![c].at = IF Mutates(c) THEN "lock" ELSE "lookup",
                            ![c].saw = acked]
    /\ UNCHANGED <<stored, states, load_event, state_lock, recovered_tx, acked,
                   raced>>

\* The background task of a preload hears from the database, fails, or gives
\* up waiting for a consumer after 60 seconds.
PreloadAnswers(c) ==
    /\ preloaded[c].at = "asking"
    /\ preloaded' = [preloaded EXCEPT ![c] = [at |-> "done", data |-> stored]]
    /\ UNCHANGED <<stored, states, load_event, state_preloads, call,
                   state_lock, recovered_tx, acked, raced>>

ForgetPreload(c) ==
    state_preloads' = IF state_preloads = c THEN NoCall ELSE state_preloads

PreloadFails(c) ==
    /\ preloaded[c].at = "asking"
    /\ preloaded' = [preloaded EXCEPT ![c] =
          IF state_preloads = c THEN NoFuture ELSE [@ EXCEPT !.at = "failed"]]
    /\ ForgetPreload(c)
    /\ UNCHANGED <<stored, states, load_event, call, state_lock, recovered_tx,
                   acked, raced>>

PreloadUnused(c) ==
    /\ preloaded[c].at = "done" /\ state_preloads = c
    /\ preloaded' = [preloaded EXCEPT ![c] = NoFuture]
    /\ ForgetPreload(c)
    /\ UNCHANGED <<stored, states, load_event, call, state_lock, recovered_tx,
                   acked, raced>>

AcquireLock(c) ==
    /\ call[c].at = "lock" /\ state_lock = NoCall
    /\ state_lock' = c
    /\ To(c, "lookup")
    /\ UNCHANGED <<stored, states, load_event, state_preloads, preloaded,
                   recovered_tx, acked, raced>>

----------------------------------------------------------------------------
MutPastPrepared(c) == call[c].at = "lookup"

\* `_load` outside a transaction first waits for a prepared transaction.
PastPrepared(c) ==
    call[c].at = "lookup" /\ recovered_tx \notin {"prepared", "written"}

LoadCached(c) ==
    /\ PastPrepared(c) /\ states # Missing
    /\ IF Kind[c] = "constructor"       \* StateAlreadyConstructed
       THEN End(c) /\ Unlocked(c)
       ELSE /\ call' = [call EXCEPT ![c].at = "body", ![c].got = states]
            /\ UNCHANGED state_lock
    /\ UNCHANGED <<stored, states, load_event, state_preloads, preloaded,
                   recovered_tx, acked, raced>>

\* The first to need the state loads it, from a preload if there is one.
StartLoad(c) ==
    /\ PastPrepared(c) /\ states = Missing /\ load_event = NoCall
    /\ load_event' = c
    /\ call' = [call EXCEPT ![c].on = state_preloads,
                            ![c].at = IF state_preloads = NoCall THEN "query"
                                                                 ELSE "preload"]
    /\ state_preloads' = NoCall
    /\ UNCHANGED <<stored, states, preloaded, state_lock, recovered_tx, acked,
                   raced>>

WaitLoad(c) ==
    /\ PastPrepared(c) /\ states = Missing /\ load_event # NoCall
    /\ call' = [call EXCEPT ![c].at = "waiting", ![c].on = load_event]
    /\ UNCHANGED <<stored, states, load_event, state_preloads, preloaded,
                   state_lock, recovered_tx, acked, raced>>

\* The load event is set: try again from the start.
LoadSet(c) ==
    /\ call[c].at = "waiting"
    /\ load_event # call[c].on
    /\ To(c, "lookup")
    /\ UNCHANGED <<stored, states, load_event, state_preloads, preloaded,
                   state_lock, recovered_tx, acked, raced>>

TakePreload(c) ==
    /\ call[c].at = "preload"
    /\ LET future == preloaded[call[c].on] IN
       \/ /\ future.at = "done"
          /\ call' = [call EXCEPT ![c].at = "authorize", ![c].got = future.data]
       \/ /\ future.at = "failed"
          /\ To(c, "query")
    /\ preloaded' = [preloaded EXCEPT ![call[c].on] = NoFuture]
    /\ UNCHANGED <<stored, states, load_event, state_preloads, state_lock,
                   recovered_tx, acked, raced>>

\* load_actor_state() reads the database.
Query(c) ==
    /\ call[c].at = "query"
    /\ call' = [call EXCEPT ![c].at = "authorize", ![c].got = stored]
    /\ UNCHANGED <<stored, states, load_event, state_preloads, preloaded,
                   state_lock, recovered_tx, acked, raced>>

\* The answer is there and the authorizer, which may wait, has agreed: cache
\* the state and let waiters go on.
Land(c) ==
    /\ call[c].at = "authorize" /\ call[c].got # Missing
    /\ IF Kind[c] = "constructor"       \* StateAlreadyConstructed
       THEN /\ End(c) /\ Unlocked(c)
            /\ UNCHANGED <<states, raced>>
       ELSE /\ states' = call[c].got
            /\ raced' = (raced \/ ~(acked \subseteq call[c].got))
            /\ To(c, "body")
            /\ UNCHANGED state_lock
    /\ LoadDone(c)
    /\ UNCHANGED <<stored, state_preloads, preloaded, recovered_tx, acked>>

\* There is no such state: a reader fails, a writer constructs it if it may.
LandMissing(c) ==
    /\ call[c].at = "authorize" /\ call[c].got = Missing
    /\ IF \/ Kind[c] = "reader"
          \/ RequiresConstructor /\ Kind[c] # "constructor"
       THEN End(c) /\ Unlocked(c) /\ UNCHANGED raced
       ELSE /\ call' = [call EXCEPT ![c].at = "body", ![c].got = {}]
            /\ raced' = (raced \/ acked # {})
            /\ UNCHANGED state_lock
    /\ LoadDone(c)
    /\ UNCHANGED <<stored, states, state_preloads, preloaded, recovered_tx,
                   acked>>

----------------------------------------------------------------------------
\* A reader answers from its copy; a writer's effects go to the database.
Answer(c) ==
    /\ call[c].at = "body" /\ ~Mutates(c)
    /\ End(c)
    /\ UNCHANGED <<stored, states, load_event, state_preloads, preloaded,
                   state_lock, recovered_tx, acked, raced>>

StoreInDatabase(c) ==
    /\ call[c].at = "body" /\ Mutates(c)
    /\ stored' = call[c].got \cup {c}
    /\ To(c, "remember")
    /\ UNCHANGED <<states, load_event, state_preloads, preloaded, state_lock,
                   recovered_tx, acked, raced>>

\* Only then the cached state; the lock is released on the way out.
Remember(c) ==
    /\ call[c].at = "remember"
    /\ states' = call[c].got \cup {c}
    /\ acked' = acked \cup {c}
    /\ End(c)
    /\ Unlocked(c)
    /\ UNCHANGED <<stored, load_event, state_preloads, preloaded, recovered_tx,
                   raced>>

\* The caller goes away, or an await raises: the `finally` clauses run.
CancelCall(c) ==
    /\ call[c].at \in {"lock", "lookup", "waiting", "preload", "query",
                       "authorize", "body", "remember"}
    /\ End(c)
    /\ LoadDone(c) /\ Unlocked(c)
    /\ UNCHANGED <<stored, states, state_preloads, preloaded, recovered_tx,
                   acked, raced>>

\* The coordinator tells the recovered transaction to commit or to abort.  It
\* has no state in memory, so nothing is cached.
CommitRecovered ==
    \/ /\ recovered_tx = "prepared"
       /\ stored' = (IF stored = Missing THEN {} ELSE stored) \cup {Recovered}
       /\ recovered_tx' = "written"
       /\ UNCHANGED <<states, load_event, state_preloads, preloaded, call,
                      state_lock, acked, raced>>
    \/ /\ recovered_tx = "written"
       /\ recovered_tx' = "committed"
       /\ acked' = acked \cup {Recovered}
       /\ Unlocked(Recovered)
       /\ UNCHANGED <<stored, states, load_event, state_preloads, preloaded,
                      call, raced>>

AbortRecovered ==
    /\ recovered_tx = "prepared"
    /\ recovered_tx' = "aborted"
    /\ Unlocked(Recovered)
    /\ UNCHANGED <<stored, states, load_event, state_preloads, preloaded, call,
                   acked, raced>>

LoadingNext ==
    \/ \E c \in Call :
          \/ StartCall(c) \/ AcquireLock(c) \/ PreloadAnswers(c)
          \/ PreloadFails(c) \/ PreloadUnused(c) \/ LoadCached(c)
          \/ StartLoad(c) \/ WaitLoad(c) \/ LoadSet(c) \/ TakePreload(c)
          \/ Query(c) \/ Land(c) \/ LandMissing(c) \/ Answer(c)
          \/ StoreInDatabase(c) \/ Remember(c) \/ CancelCall(c)
    \/ CommitRecovered \/ AbortRecovered

LoadingSpec == LoadingInit /\ [][LoadingNext]_loadingVars

----------------------------------------------------------------------------
\* No acknowledged mutation is ever missing from the database or from the
\* cached state, nor from what a call that started later works on: however
\* preloads, loads, cancellations and stores interleave, unless a load has
\* landed a state that had been overtaken meanwhile (`raced`).
AckedKept ==
    ~raced => /\ acked \subseteq stored
              /\ states # Missing => acked \subseteq states
              /\ \A c \in Call :
                    call[c].at = "body" => call[c].saw \subseteq call[c].got

\* Once a recovered transaction has committed, "a subsequent reader or writer
\* will retrieve the committed state from disk storage which will properly
\* store it in `self._states`".
RecoveredStateCached ==
    recovered_tx = "committed" /\ states # Missing => Recovered \in states

\* Under the fairness of the event loop no call waits for a load for ever:
\* whoever loads, fails or is cancelled sets the event it registered.
LoadProgress(c) ==
    \/ LoadCached(c) \/ StartLoad(c) \/ WaitLoad(c) \/ LoadSet(c)
    \/ TakePreload(c) \/ Query(c) \/ Land(c) \/ LandMissing(c)
LoadsEnd ==
    \A c \in Call : call[c].at = "waiting" ~> call[c].at # "waiting"
==============================================================================
