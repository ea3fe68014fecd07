--------------------------- MODULE NestedOwnership ---------------------------
(***************************************************************************)
(* Ownership of one state among the nested transactions of one root        *)
(* transaction, and the rollback of the ones that abort: the ownership     *)
(* half of class `StateManager.Transaction` in                             *)
(* reboot/aio/state_managers.py, for one participant.                      *)
(*                                                                         *)
(* A transaction method may start nested transactions, catch the declared  *)
(* error of one that aborts, and go on.  Every state that the nested       *)
(* transaction used must then be rolled back, which a `RelinquishOwnership`*)
(* RPC tells it to do.  These RPCs are sent by background tasks of         *)
(* different servers and retried: they arrive late, twice and in any order.*)
(***************************************************************************)
EXTENDS Naturals, Sequences, FiniteSets

CONSTANTS
    Root,           \* the root transaction
    Nested,         \* the nested transactions that may be started
    Parent,         \* the transaction whose method starts each of them
    Here,           \* those whose method is a method of this very state
    MaxCalls,       \* bound on the calls and mutations of each transaction
    Concurrent      \* whether a method makes several calls at once (gather)

Transaction == Nested \cup {Root}

ASSUME RootAssumption == Root \notin Nested
ASSUME ParentAssumption == Parent \in [Nested -> Transaction]
\* No transaction is started within itself.
ASSUME AcyclicAssumption ==
    /\ IsFiniteSet(Nested)
    /\ \E depth \in [Transaction -> 0..Cardinality(Nested)] :
          \A t \in Nested : depth[Parent[t]] < depth[t]
ASSUME HereAssumption == Here \subseteq Transaction
ASSUME BoundAssumption == MaxCalls \in Nat /\ Concurrent \in BOOLEAN

VARIABLES
    \* the participant
    owner_ids,      \* the chain of ids that owns the state, outermost first
    snapshots,      \* _snapshots
    mode,           \* the mode the lock is held in; "none" before joining
    value,          \* the state: the mutations it contains
    keys,           \* idempotent_mutations and tasks: the calls that added
    prepared,
    \* the method bodies
    status,
    call,           \* the reader or writer call of each that is in flight
    loaded,         \* the state as a writer, or a method of it, loaded it
    made,           \* how many calls and mutations each has made
    \* the network
    sent,           \* RelinquishOwnership requests
    \* history
    done,           \* the mutations that were made
    races           \* which of the three races below have happened

participantVars == <<owner_ids, snapshots, mode, value, keys>>
bodyVars == <<status, call, loaded, made>>
vars == <<participantVars, prepared, bodyVars, sent, done, races>>

\* `context.transaction_ids`
transaction_ids[t \in Transaction] ==
    IF t = Root THEN <<Root>> ELSE Append(transaction_ids[Parent[t]], t)

Contains(ids, t) == \E i \in DOMAIN ids : ids[i] = t
IndexOf(ids, t) == CHOOSE i \in DOMAIN ids : ids[i] = t
IsWithin(d, t) == Contains(transaction_ids[d], t)

Mode == {"shared", "exclusive"}
Mutation == Transaction \X (1..MaxCalls)
Request == [id : Nested, aborted : BOOLEAN]
Snapshot == [transaction_ids : Seq(Transaction), owner_ids : Seq(Transaction),
             mode : Mode, value : SUBSET Mutation, keys : SUBSET Mutation]

TypeOK ==
    /\ owner_ids \in Seq(Transaction)
    /\ snapshots \in Seq(Snapshot)
    /\ mode \in Mode \cup {"none"}
    /\ value \subseteq Mutation
    /\ keys \subseteq Mutation
    /\ prepared \in BOOLEAN
    /\ status \in [Transaction ->
                     {"idle", "draining", "running", "committed", "aborted"}]
    /\ call \in [Transaction -> {"none", "reader", "writer", "loaded"}]
    /\ loaded \in [Transaction -> SUBSET Mutation]
    /\ made \in [Transaction -> 0..MaxCalls]
    /\ sent \subseteq Request
    /\ done \subseteq Mutation
    /\ races \subseteq {"overtaken", "interleaved", "live"}

\* If the root's method is a method of this state then it has joined in
\* shared mode and claimed the state.
Init ==
    /\ owner_ids = IF Root \in Here THEN <<Root>> ELSE <<>>
    /\ snapshots = <<>>
    /\ mode = IF Root \in Here THEN "shared" ELSE "none"
    /\ value = {}
    /\ keys = {}
    /\ prepared = FALSE
    /\ status = [t \in Transaction |->
                    IF t = Root THEN "running" ELSE "idle"]
    /\ call = [t \in Transaction |-> "none"]
    /\ loaded = [t \in Transaction |-> {}]
    /\ made = [t \in Transaction |-> 0]
    /\ sent = {}
    /\ done = {}
    /\ races = {}

Race(happened, r) == races' = races \cup {x \in {r} : happened}

-----------------------------------------------------------------------------
(* Claiming.                                                               *)

\* Mutant: the owner's depth is compared, not the owner's chain.
MutIsClaimableBy(ids) == Len(owner_ids) <= Len(ids)

is_claimable_by(ids) ==
    /\ Len(owner_ids) <= Len(ids)
    /\ SubSeq(ids, 1, Len(owner_ids)) = owner_ids

\* Mutant: the mode is recorded before the first call has joined.
MutPushUnjoined(t, m) ==
    snapshots' = Append(snapshots,
        [transaction_ids |-> transaction_ids[t],
         owner_ids |-> owner_ids,
         mode |-> mode,
         value |-> value,
         keys |-> keys])

\* m: the mode held, the one joined in if this is the first call.
push_snapshot(t, m) ==
    snapshots' = Append(snapshots,
        [transaction_ids |-> transaction_ids[t],
         owner_ids |-> owner_ids,
         mode |-> IF owner_ids # <<>> THEN m ELSE "shared",
         value |-> value,
         keys |-> keys])

claim_ownership(t, m) ==
    /\ is_claimable_by(transaction_ids[t])
    /\ owner_ids' = transaction_ids[t]
    /\ IF t = Root \/ owner_ids = transaction_ids[t]
       THEN UNCHANGED <<snapshots, races>>
       ELSE /\ push_snapshot(t, m)
            /\ Race(\E d \in Transaction : call[d] # "none", "interleaved")

-----------------------------------------------------------------------------
(* Relinquishing.                                                          *)

\* Mutant: the idempotency keys and tasks are not rolled back.
MutRollback(s) ==
    /\ value' = s.value
    /\ owner_ids' = s.owner_ids
    /\ mode' = s.mode
    /\ UNCHANGED keys

\* Mutant: ownership goes to the parent, which may not have used the state.
MutRollbackOwner(s) ==
    /\ value' = s.value
    /\ keys' = keys \cap s.keys
    /\ owner_ids' = SubSeq(s.transaction_ids, 1, Len(s.transaction_ids) - 1)
    /\ mode' = s.mode

rollback(s) ==
    /\ value' = s.value
    /\ keys' = keys \cap s.keys
    /\ owner_ids' = s.owner_ids
    /\ mode' = s.mode

\* The oldest snapshot taken within t.
IsOldest(i, t) ==
    /\ Contains(snapshots[i].transaction_ids, t)
    /\ \A j \in 1..i - 1 : ~Contains(snapshots[j].transaction_ids, t)

\* Mutant: a snapshot is dropped on every commit.
MutPop(i, t, aborted) == TRUE

\* Whether that snapshot, and every deeper one, is popped.
pop(i, t, aborted) ==
    \/ aborted
    \/ IndexOf(snapshots[i].transaction_ids, t) = 2
    \/ \E j \in 1..i - 1 : Contains(snapshots[j].transaction_ids, Parent[t])

\* m: the mode held.
relinquish_ownership(t, aborted, m) ==
    \/ /\ ~Contains(owner_ids, t)
       /\ mode' = m
       /\ UNCHANGED <<owner_ids, snapshots, value, keys, races>>
    \/ /\ Contains(owner_ids, t)
       /\ \E i \in DOMAIN snapshots :
            /\ IsOldest(i, t)
            /\ IF pop(i, t, aborted)
               THEN snapshots' = SubSeq(snapshots, 1, i - 1)
               ELSE UNCHANGED snapshots
            /\ IF aborted
               THEN rollback(snapshots[i])
               ELSE /\ owner_ids' =
                         SubSeq(owner_ids, 1, IndexOf(owner_ids, t) - 1)
                    /\ mode' = m
                    /\ UNCHANGED <<value, keys>>
       /\ Race(/\ ~aborted
               /\ \E d \in Nested \ {t} :
                    Contains(owner_ids, d) /\ status[d] = "aborted",
               "overtaken")

\* A request may be delivered at any time once sent, and again.
RelinquishOwnership(r) ==
    /\ r \in sent
    /\ relinquish_ownership(r.id, r.aborted, mode)
    /\ UNCHANGED <<prepared, bodyVars, sent, done>>

-----------------------------------------------------------------------------
(* Calls of readers and writers of this state.                             *)

Active(t) == status[t] \in {"draining", "running"}
Children(t) == {d \in Nested : Parent[d] = t}
NoChildActive(t) == \A d \in Children(t) : ~Active(d)

\* t's method can make a call: it is not awaiting another one.
CanCall(t) ==
    /\ status[t] = "running"
    /\ Concurrent \/ (call[t] = "none" /\ NoChildActive(t))

JoinMode(kind) == IF kind = "writer" THEN "exclusive" ELSE "shared"
Joined(kind) == IF mode = "none" THEN JoinMode(kind) ELSE mode

\* A leaf call joins the transaction, if it is the first, and claims the
\* state.  A writer upgrades a lock that is held shared.
StartCall(t, kind) ==
    /\ CanCall(t)
    /\ call[t] = "none"
    /\ made[t] < MaxCalls
    /\ claim_ownership(t, Joined(kind))
    /\ mode' = IF kind = "writer" THEN "exclusive" ELSE Joined(kind)
    /\ call' = [call EXCEPT ![t] = kind]
    /\ made' = [made EXCEPT ![t] = @ + 1]
    /\ UNCHANGED <<value, keys, prepared, status, loaded, sent, done>>

\* `_transaction_writer_locks`: one writer at a time loads and stores.
Load(t) ==
    /\ call[t] = "writer"
    /\ \A d \in Transaction : call[d] # "loaded"
    /\ call' = [call EXCEPT ![t] = "loaded"]
    /\ loaded' = [loaded EXCEPT ![t] = value]
    /\ UNCHANGED <<participantVars, prepared, status, made, sent, done, races>>

\* `_store`: the state the writer worked on, its idempotency key and tasks.
store(t) ==
    /\ value' = loaded[t] \cup {<<t, made[t]>>}
    /\ keys' = keys \cup {<<t, made[t]>>}

\* The `complete` of `writer`.
Store(t) ==
    /\ call[t] = "loaded"
    /\ store(t)
    /\ done' = done \cup {<<t, made[t]>>}
    /\ loaded' = [loaded EXCEPT ![t] = {}]
    /\ call' = [call EXCEPT ![t] = "none"]
    /\ UNCHANGED <<owner_ids, snapshots, mode, prepared, status, made, sent,
                   races>>

\* A reader, or a writer that raises a declared error.
EndCall(t) ==
    /\ call[t] # "none"
    /\ call' = [call EXCEPT ![t] = "none"]
    /\ loaded' = [loaded EXCEPT ![t] = {}]
    /\ UNCHANGED <<participantVars, prepared, status, made, sent, done, races>>

-----------------------------------------------------------------------------
(* Transaction methods.                                                    *)

\* A nested transaction whose method is a method of another state.
Start(t) ==
    /\ t \notin Here
    /\ status[t] = "idle"
    /\ CanCall(Parent[t])
    /\ status' = [status EXCEPT ![t] = "running"]
    /\ UNCHANGED <<participantVars, prepared, call, loaded, made, sent, done,
                   races>>

\* One whose method is a method of this state claims it, ...
StartHere(t) ==
    /\ t \in Here
    /\ status[t] = "idle"
    /\ CanCall(Parent[t])
    /\ claim_ownership(t, Joined("transaction"))
    /\ mode' = Joined("transaction")
    /\ status' = [status EXCEPT ![t] = "draining"]
    /\ UNCHANGED <<value, keys, prepared, call, loaded, made, sent, done>>

\* Mutant: the calls in flight are not drained.
MutDrained(t) ==
    /\ status[t] = "draining"
    /\ status' = [status EXCEPT ![t] = "running"]
    /\ loaded' = [loaded EXCEPT ![t] = value]
    /\ UNCHANGED <<participantVars, prepared, call, made, sent, done, races>>

\* ... and waits for the calls in flight before its body loads the state.
Drained(t) ==
    /\ status[t] = "draining"
    /\ \A d \in Transaction : call[d] = "none"
    /\ status' = [status EXCEPT ![t] = "running"]
    /\ loaded' = [loaded EXCEPT ![t] = value]
    /\ UNCHANGED <<participantVars, prepared, call, made, sent, done, races>>

\* The body of such a method mutates the state through a live reference.
Mutate(t) ==
    /\ t \in Here
    /\ status[t] = "running"
    /\ NoChildActive(t) /\ call[t] = "none"
    /\ made[t] < MaxCalls
    /\ made' = [made EXCEPT ![t] = @ + 1]
    /\ value' = value \cup {<<t, made'[t]>>}
    /\ done' = done \cup {<<t, made'[t]>>}
    /\ Race(owner_ids # transaction_ids[t], "live")
    /\ UNCHANGED <<owner_ids, snapshots, mode, keys, prepared, status, call,
                   loaded, sent>>

\* `context.participants` of t has this state: t, or a transaction within t,
\* has called it.
Used(t) ==
    \E d \in Transaction :
        /\ IsWithin(d, t)
        /\ made[d] > 0 \/ (d \in Here /\ status[d] # "idle")

\* All calls of t have returned, and now its method does, or it raises a
\* declared error.
End(t, aborted) ==
    /\ status[t] = "running"
    /\ call[t] = "none" /\ NoChildActive(t)
    /\ status' = [status EXCEPT ![t] = IF aborted THEN "aborted"
                                       ELSE "committed"]

\* `_relinquish_ownerships` of a transaction on another state: in background.
EndElsewhere(t, aborted) ==
    /\ t \in Nested \ Here
    /\ End(t, aborted)
    /\ sent' = IF Used(t)
               THEN sent \cup {[id |-> t, aborted |-> aborted]} ELSE sent
    /\ UNCHANGED <<participantVars, prepared, call, loaded, made, done, races>>

requires_exclusive(t) == value # loaded[t]

\* The `complete` of `transaction` upgrades the lock if there are effects.
Completed(t) == IF requires_exclusive(t) THEN "exclusive" ELSE mode

\* `_relinquish_ownerships` of one on this state: at once.
EndHere(t, aborted) ==
    /\ t \in Nested \cap Here
    /\ End(t, aborted)
    /\ relinquish_ownership(t, aborted, Completed(t))
    /\ loaded' = [loaded EXCEPT ![t] = {}]
    /\ UNCHANGED <<prepared, call, made, sent, done>>

\* The root's method returns, and two phase commit begins.
EndRoot ==
    /\ End(Root, FALSE)
    /\ mode' = IF Root \in Here THEN Completed(Root) ELSE mode
    /\ Race(/\ Root \in Here /\ requires_exclusive(Root)
            /\ owner_ids # transaction_ids[Root], "live")
    /\ UNCHANGED <<owner_ids, snapshots, value, keys, prepared, call, loaded,
                   made, sent, done>>

\* `transaction_participant_prepare`: from here on nothing changes.
Prepare ==
    /\ status[Root] = "committed"
    /\ ~prepared
    /\ is_claimable_by(<<Root>>)
    /\ prepared' = TRUE
    /\ UNCHANGED <<participantVars, bodyVars, sent, done, races>>

Body(t) ==
    \/ \E kind \in {"reader", "writer"} : StartCall(t, kind)
    \/ Load(t) \/ Store(t) \/ EndCall(t)
    \/ Mutate(t)

NestedBody(t) ==
    \/ Start(t) \/ StartHere(t) \/ Drained(t)
    \/ \E aborted \in BOOLEAN : EndElsewhere(t, aborted) \/ EndHere(t, aborted)

Next ==
    \/ \E t \in Transaction : Body(t)
    \/ \E t \in Nested : NestedBody(t)
    \/ EndRoot
    \/ Prepare
    \/ \E r \in Request : RelinquishOwnership(r)

Spec == Init /\ [][Next]_vars

\* Methods end, and the RPCs are retried until they are acknowledged.
Fairness ==
    /\ \A t \in Transaction : WF_vars(Load(t) \/ Store(t) \/ EndCall(t))
    /\ \A t \in Nested :
        /\ WF_vars(Drained(t))
        /\ WF_vars(\E aborted \in BOOLEAN :
                      EndElsewhere(t, aborted) \/ EndHere(t, aborted))
    /\ WF_vars(EndRoot)
    /\ WF_vars(Prepare)
    /\ \A r \in Request : WF_vars(RelinquishOwnership(r))

FairSpec == Spec /\ Fairness

-----------------------------------------------------------------------------
(* Properties.                                                             *)

IsAborted(t) == \E i \in DOMAIN transaction_ids[t] :
                    status[transaction_ids[t][i]] = "aborted"

\* The mutations that count: those not made within an aborted transaction.
Standing == {m \in done : ~IsAborted(m[1])}

\* What is prepared has no effect of a nested transaction that aborted
\* ("nested transactions that abort can roll back their effects").
AbortedUndone == prepared => value \subseteq Standing

\* What is prepared has every effect of the transactions that did not: a
\* rollback drops the modifications of the aborted one and of nobody else.
OthersKept == prepared => Standing \subseteq value

\* Both, and the same of idempotency keys and tasks, except after one of the
\* three races: a commit overtakes the abort of a deeper transaction, a
\* snapshot is taken while an ancestor's call is in flight, a method of this
\* state mutates it, or upgrades the lock for its effects, before a nested
\* transaction that used the state has been rolled back.
EffectsExact ==
    prepared /\ races = {} =>
        /\ AbortedUndone
        /\ OthersKept
        /\ keys \subseteq Standing
        /\ {m \in Standing : m[1] \notin Here} \subseteq keys

\* Nor does a writer ever work on a copy that has effects of a transaction
\* that aborted, or lacks those of one that did not: its call waits for the
\* ownership that a rollback returns.
LoadsExact ==
    races = {} =>
        \A t \in Transaction : call[t] = "loaded" => loaded[t] = Standing

\* "Snapshot missing when nested transaction is still owner": the assertion
\* of `relinquish_ownership` never fails.
SnapshotPresent ==
    \A t \in Nested : Contains(owner_ids, t) =>
        \E i \in DOMAIN snapshots : Contains(snapshots[i].transaction_ids, t)

\* No prepare is elided of a state that has effects: only a participant that
\* "only ever needed the shared lock" skips the disk writes.
NothingElided == prepared /\ value # {} => mode = "exclusive"

\* A state with effects to commit is held exclusive, and one that was only
\* used within aborted transactions is held shared again: what decides if
\* the prepare and the commit of the participant are elided.
ModeMatchesEffects ==
    prepared /\ races = {} =>
        /\ NothingElided
        /\ mode = "exclusive" =>
             \E t \in Transaction : made[t] > 0 /\ ~IsAborted(t)

\* While a method of this state runs nobody outside it has a call in flight
\* on the state: it does not interleave with calls of its ancestors.
MethodsAlone ==
    \A t \in Nested \cap Here : status[t] = "running" =>
        \A d \in Transaction : call[d] # "none" => IsWithin(d, t)

\* Once the root's method has returned the state gets prepared: whatever was
\* claimed is relinquished, in whatever order the requests arrive.
OwnershipReturns == status[Root] = "committed" ~> prepared

\* The participant's bookkeeping is sound at every moment: types, the snapshot
\* that a rollback needs, and the lock mode that decides about elision.
SnapshotsExact == TypeOK /\ SnapshotPresent /\ ModeMatchesEffects

=============================================================================
