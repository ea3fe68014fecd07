----------------------------- MODULE StateLock -----------------------------
(***************************************************************************)
(* The per-state shared/exclusive lock of the state manager, class `Lock`  *)
(* of reboot/aio/state_managers.py.  Every reader, writer and transaction  *)
(* participant of one state goes through one such lock.                    *)
(*                                                                         *)
(* The lock is asyncio code: a method runs atomically up to its `await`,   *)
(* and the only `await` is the one of `_wait` on the waiter's future.  So  *)
(* a queued caller takes two more steps after its call: a release resolves *)
(* its future (inside `_maybe_grant_next`), and later the caller's         *)
(* coroutine is resumed.  Between the two its deadline, its grace period   *)
(* or a cancellation may make it give up a hold it was already granted.    *)
(***************************************************************************)
EXTENDS Integers, Sequences, FiniteSets

CONSTANTS
    Client,         \* callers of the lock: one coroutine each
    Transaction,    \* the callers that identify themselves as `transaction`
    None            \* Python's None

ASSUME ClientAssumption == IsFiniteSet(Client) /\ None \notin Client
ASSUME TransactionAssumption == Transaction \subseteq Client

VARIABLES
    shared,             \* _shared: number of shared holds
    exclusive,          \* _exclusive: TRUE while there is an exclusive hold
    upgrader,           \* _upgrader: the client pending in the upgrade slot
    exclusive_holder,   \* _exclusive_holder: a transaction, or None
    shared_holders,     \* _shared_holders: the transactions that hold shared
    waiters,            \* _waiters: FIFO of [client, mode]
    mode,               \* what each caller believes it holds
    wait,               \* the `_wait` each caller is suspended in
    granted             \* clients whose waiter's future is resolved

lockVars == <<shared, exclusive, upgrader, exclusive_holder, shared_holders,
              waiters>>
vars == <<shared, exclusive, upgrader, exclusive_holder, shared_holders,
          waiters, mode, wait, granted>>

Mode == {"shared", "exclusive"}

\* Mutant: an unnamed caller is recorded as the exclusive holder.
MutNamed(c) == c

\* A caller outside any transaction passes `transaction=None`.
Named(c) == IF c \in Transaction THEN c ELSE None
NamedSet(c) == {c} \cap Transaction

Waiter(c, m) == [client |-> c, mode |-> m]

TypeOK ==
    /\ shared \in Nat
    /\ exclusive \in BOOLEAN
    /\ upgrader \in Client \cup {None}
    /\ exclusive_holder \in Transaction \cup {None}
    /\ shared_holders \in SUBSET Transaction
    /\ waiters \in Seq([client : Client, mode : Mode])
    /\ mode \in [Client -> Mode \cup {"none"}]
    /\ wait \in [Client -> Mode \cup {"none", "upgrade"}]
    /\ granted \in SUBSET Client

Init ==
    /\ shared = 0
    /\ exclusive = FALSE
    /\ upgrader = None
    /\ exclusive_holder = None
    /\ shared_holders = {}
    /\ waiters = <<>>
    /\ mode = [c \in Client |-> "none"]
    /\ wait = [c \in Client |-> "none"]
    /\ granted = {}

-----------------------------------------------------------------------------
(* Granting.                                                               *)

GrantUpgrade(n, H, G) ==
    /\ n = 1
    /\ shared' = 0
    /\ exclusive' = TRUE
    /\ shared_holders' = H \ {upgrader}
    /\ exclusive_holder' = Named(upgrader)
    /\ granted' = G \cup {upgrader}
    /\ upgrader' = None
    /\ UNCHANGED waiters

GrantNone(n, H, G) ==
    /\ shared' = n
    /\ exclusive' = FALSE
    /\ shared_holders' = H
    /\ exclusive_holder' = None
    /\ granted' = G
    /\ UNCHANGED <<upgrader, waiters>>

\* Mutant: an exclusive head is granted next to the shared holds.
MutGrantExclusive(n, H, G) ==
    /\ shared' = n
    /\ exclusive' = TRUE
    /\ shared_holders' = H
    /\ exclusive_holder' = Named(Head(waiters).client)
    /\ granted' = G \cup {Head(waiters).client}
    /\ waiters' = Tail(waiters)
    /\ UNCHANGED upgrader

\* Mutant: the last waiter is popped instead of the head.
MutPopLast(n, H, G) ==
    /\ n = 0
    /\ waiters[Len(waiters)].mode = "exclusive"
    /\ shared' = n
    /\ exclusive' = TRUE
    /\ shared_holders' = H
    /\ exclusive_holder' = Named(waiters[Len(waiters)].client)
    /\ granted' = G \cup {waiters[Len(waiters)].client}
    /\ waiters' = SubSeq(waiters, 1, Len(waiters) - 1)
    /\ UNCHANGED upgrader

GrantExclusive(n, H, G) ==
    /\ n = 0
    /\ shared' = n
    /\ exclusive' = TRUE
    /\ shared_holders' = H
    /\ exclusive_holder' = Named(Head(waiters).client)
    /\ granted' = G \cup {Head(waiters).client}
    /\ waiters' = Tail(waiters)
    /\ UNCHANGED upgrader

\* The shared waiters ahead of the first exclusive one: the first k.
IsCohort(k) ==
    /\ \A i \in 1..k : waiters[i].mode = "shared"
    /\ k < Len(waiters) => waiters[k + 1].mode = "exclusive"

Cohort(k) == {waiters[i].client : i \in 1..k}

GrantCohort(n, H, G) ==
    \E k \in 1..Len(waiters) :
        /\ IsCohort(k)
        /\ shared' = n + k
        /\ exclusive' = FALSE
        /\ shared_holders' = H \cup (Cohort(k) \cap Transaction)
        /\ exclusive_holder' = None
        /\ granted' = G \cup Cohort(k)
        /\ waiters' = SubSeq(waiters, k + 1, Len(waiters))
        /\ UNCHANGED upgrader

\* `_maybe_grant_next(released)`, called with n shared holds, the shared
\* holders H, no exclusive hold and the resolved futures G.
maybe_grant_next(released, n, H, G) ==
    \/ /\ upgrader # None
       /\ \/ GrantUpgrade(n, H, G)
          \/ n # 1 /\ GrantNone(n, H, G)
    \/ /\ upgrader = None
       /\ released = "shared" /\ n > 0
       /\ GrantNone(n, H, G)
    \/ /\ upgrader = None
       /\ released = "exclusive" \/ n = 0
       /\ \/ waiters = <<>> /\ GrantNone(n, H, G)
          \/ /\ waiters # <<>>
             /\ Head(waiters).mode = "exclusive"
             /\ \/ GrantExclusive(n, H, G)
                \/ n > 0 /\ GrantNone(n, H, G)
          \/ /\ waiters # <<>>
             /\ Head(waiters).mode = "shared"
             /\ GrantCohort(n, H, G)

-----------------------------------------------------------------------------
(* The bodies of the release operations, which the give-up path of `_wait` *)
(* runs as well.  G: the futures still resolved once c is done with its.   *)

\* Mutant: a release that does not grant the next waiters.
MutReleaseNoGrant(c, G) ==
    shared > 0 /\ GrantNone(shared - 1, shared_holders \ {c}, G)

\* Mutant: a release that forgets to drop the holder.
MutReleaseKeepsHolder(c, G) ==
    /\ shared > 0
    /\ maybe_grant_next("shared", shared - 1, shared_holders, G)

do_release_shared(c, G) ==
    /\ shared > 0
    /\ maybe_grant_next("shared", shared - 1, shared_holders \ {c}, G)

do_release_exclusive(c, G) ==
    /\ exclusive
    /\ maybe_grant_next("exclusive", shared, shared_holders, G)

do_downgrade(c, G) ==
    /\ exclusive
    /\ shared = 0
    /\ maybe_grant_next("exclusive", 1, shared_holders \cup NamedSet(c), G)

-----------------------------------------------------------------------------
(* Acquiring.                                                              *)

Idle(c) == mode[c] = "none" /\ wait[c] = "none"

\* Mutant: no exclusive-waiter-starvation guard.
MutCanAcquireShared == ~exclusive /\ upgrader = None

can_acquire_shared ==
    /\ ~exclusive
    /\ upgrader = None
    /\ \A i \in 1..Len(waiters) : waiters[i].mode # "exclusive"

can_acquire_exclusive ==
    /\ ~exclusive
    /\ shared = 0
    /\ upgrader = None

try_acquire_shared(c) ==
    /\ Idle(c)
    /\ can_acquire_shared
    /\ shared' = shared + 1
    /\ shared_holders' = shared_holders \cup NamedSet(c)
    /\ mode' = [mode EXCEPT ![c] = "shared"]
    /\ UNCHANGED <<exclusive, upgrader, exclusive_holder, waiters, wait,
                   granted>>

try_acquire_exclusive(c) ==
    /\ Idle(c)
    /\ can_acquire_exclusive
    /\ exclusive' = TRUE
    /\ exclusive_holder' = Named(c)
    /\ mode' = [mode EXCEPT ![c] = "exclusive"]
    /\ UNCHANGED <<shared, upgrader, shared_holders, waiters, wait, granted>>

\* `_wait(mode=m)`: append a waiter and suspend.
Enqueue(c, m) ==
    /\ Idle(c)
    /\ waiters' = Append(waiters, Waiter(c, m))
    /\ wait' = [wait EXCEPT ![c] = m]
    /\ UNCHANGED <<shared, exclusive, upgrader, exclusive_holder,
                   shared_holders, mode, granted>>

acquire_shared(c) ==
    \/ try_acquire_shared(c)
    \/ ~can_acquire_shared /\ Enqueue(c, "shared")

acquire_exclusive(c) ==
    \/ try_acquire_exclusive(c)
    \/ ~can_acquire_exclusive /\ Enqueue(c, "exclusive")

\* Only a transaction upgrades.  A second upgrade raises at once and
\* changes nothing, so it is no step of its own.
upgrade(c) ==
    /\ c \in Transaction
    /\ mode[c] = "shared" /\ wait[c] = "none"
    /\ \/ /\ shared = 1 /\ ~exclusive
          /\ shared' = 0
          /\ exclusive' = TRUE
          /\ shared_holders' = shared_holders \ {c}
          /\ exclusive_holder' = Named(c)
          /\ mode' = [mode EXCEPT ![c] = "exclusive"]
          /\ UNCHANGED <<upgrader, waiters, wait, granted>>
       \/ /\ ~(shared = 1 /\ ~exclusive)
          /\ upgrader = None
          /\ upgrader' = c
          /\ wait' = [wait EXCEPT ![c] = "upgrade"]
          /\ UNCHANGED <<shared, exclusive, exclusive_holder, shared_holders,
                         waiters, mode, granted>>

-----------------------------------------------------------------------------
(* Releasing.                                                              *)

release_shared(c) ==
    /\ mode[c] = "shared" /\ wait[c] = "none"
    /\ do_release_shared(c, granted)
    /\ mode' = [mode EXCEPT ![c] = "none"]
    /\ UNCHANGED wait

release_exclusive(c) ==
    /\ mode[c] = "exclusive" /\ wait[c] = "none"
    /\ do_release_exclusive(c, granted)
    /\ mode' = [mode EXCEPT ![c] = "none"]
    /\ UNCHANGED wait

\* Rolling back a nested transaction restores the mode it joined in.
downgrade(c) ==
    /\ c \in Transaction
    /\ mode[c] = "exclusive" /\ wait[c] = "none"
    /\ do_downgrade(c, granted)
    /\ mode' = [mode EXCEPT ![c] = "shared"]
    /\ UNCHANGED wait

-----------------------------------------------------------------------------
(* The two ends of `_wait`.                                                *)

\* The future is resolved and the coroutine returns from `_wait`.
Resume(c) ==
    /\ wait[c] # "none" /\ c \in granted
    /\ granted' = granted \ {c}
    /\ wait' = [wait EXCEPT ![c] = "none"]
    /\ mode' = [mode EXCEPT ![c] =
                    IF wait[c] = "upgrade" THEN "exclusive" ELSE wait[c]]
    /\ UNCHANGED lockVars

\* Mutant: a caller that gives up leaves the hold it was granted behind.
MutHandBack(c) ==
    /\ wait[c] # "none" /\ c \in granted
    /\ granted' = granted \ {c}
    /\ wait' = [wait EXCEPT ![c] = "none"]
    /\ UNCHANGED <<lockVars, mode>>

\* The deadline elapsed, `on_grace` raised, or the task was cancelled, and
\* a release reached the waiter first: the hold is handed straight back.
HandBack(c) ==
    /\ wait[c] # "none" /\ c \in granted
    /\ \/ wait[c] = "upgrade" /\ do_downgrade(c, granted \ {c})
       \/ wait[c] = "shared" /\ do_release_shared(c, granted \ {c})
       \/ wait[c] = "exclusive" /\ do_release_exclusive(c, granted \ {c})
    /\ wait' = [wait EXCEPT ![c] = "none"]
    /\ UNCHANGED mode

remove_waiter(c) ==
    \E i \in 1..Len(waiters) :
        /\ waiters[i].client = c
        /\ waiters' = SubSeq(waiters, 1, i - 1)
                          \o SubSeq(waiters, i + 1, Len(waiters))

\* The same while the future is unresolved: the waiter is taken off the
\* queue (or out of the upgrade slot) and nobody is granted.
GiveUp(c) ==
    /\ wait[c] # "none" /\ c \notin granted
    /\ \/ /\ wait[c] = "upgrade"
          /\ upgrader' = None
          /\ UNCHANGED waiters
       \/ /\ wait[c] # "upgrade"
          /\ remove_waiter(c)
          /\ UNCHANGED upgrader
    /\ wait' = [wait EXCEPT ![c] = "none"]
    /\ UNCHANGED <<shared, exclusive, exclusive_holder, shared_holders, mode,
                   granted>>

Next ==
    \E c \in Client :
        \/ acquire_shared(c)
        \/ acquire_exclusive(c)
        \/ upgrade(c)
        \/ release_shared(c)
        \/ release_exclusive(c)
        \/ downgrade(c)
        \/ Resume(c)
        \/ HandBack(c)
        \/ GiveUp(c)

Spec == Init /\ [][Next]_vars

Release(c) == release_shared(c) \/ release_exclusive(c)

\* A resumed coroutine runs.  Every method and every transaction ends (they
\* all run under a deadline), so whoever keeps coming back to a hold it can
\* release does release it; giving up is never promised.
Fairness ==
    \A c \in Client :
        /\ WF_vars(Resume(c) \/ HandBack(c))
        /\ SF_vars(Release(c))

FairSpec == Spec /\ Fairness

-----------------------------------------------------------------------------
(* Properties.                                                             *)

\* Who really has a hold: a grant gives it, before the caller is resumed.
HeldExclusive ==
    {c \in Client : \/ mode[c] = "exclusive"
                    \/ wait[c] \in {"exclusive", "upgrade"} /\ c \in granted}
HeldShared ==
    {c \in Client : \/ wait[c] = "shared" /\ c \in granted
                    \/ /\ mode[c] = "shared"
                       /\ ~(wait[c] = "upgrade" /\ c \in granted)}

\* Whoever has an exclusive hold is alone, also while grants, upgrades and
\* hand-backs of timed-out waiters interleave (release_*, _maybe_grant_next).
MutualExclusion ==
    \A c, d \in Client :
        c \in HeldExclusive /\ d \in HeldExclusive \cup HeldShared => c = d

\* The two counters of the lock account for exactly the holds there are, so
\* no hold is leaked (the state would be unusable for the life of the
\* process) and none is released twice, whatever gave up in between.
HoldsAccounted ==
    /\ shared = Cardinality(HeldShared)
    /\ exclusive <=> HeldExclusive # {}

\* `holders` names exactly the transactions that have a hold: what
\* `_abort_if_presumed_deadlock` decides on.
HoldersExact ==
    shared_holders \cup ({exclusive_holder} \ {None}) =
        (HeldShared \cup HeldExclusive) \cap Transaction

\* Nobody waits for a lock that nobody holds: every release, hand-back and
\* give-up leaves a free lock with an empty queue and an empty upgrade slot.
NoLostWakeup ==
    waiters # <<>> \/ upgrader # None => shared > 0 \/ exclusive

\* "Waiters are FIFO among themselves": a step that takes a waiter off the
\* queue by granting it leaves nobody queued who was ahead of that waiter.
QueueFIFO ==
    [][\A i, j \in 1..Len(waiters) :
          /\ i < j
          /\ waiters[j].client \in granted' \ granted
          => \A k \in 1..Len(waiters') : waiters'[k] # waiters[i]]_vars

\* A caller blocked on an exclusive hold or an upgrade is served, or gives
\* up, provided that holders release: the exclusive-waiter-starvation guard
\* and the upgrade slot keep new shared requests out.
WriterServed ==
    \A c \in Client :
        wait[c] \in {"exclusive", "upgrade"} ~>
            wait[c] \notin {"exclusive", "upgrade"} \/ c \in granted

=============================================================================
