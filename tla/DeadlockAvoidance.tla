------------------------- MODULE DeadlockAvoidance -------------------------
(***************************************************************************)
(* Transactions over several states.  Each takes the locks of the states   *)
(* it calls, keeps them until it ends, and may call several states at once *)
(* (asyncio.gather), so transactions may wait for each other.  A           *)
(* transaction whose wait outlasts the grace period looks at who holds the *)
(* lock (`_abort_if_presumed_deadlock`) and gives up if one of them is     *)
(* older; its caller retries it (`UnaryRetriedCall`) with the age of its   *)
(* first attempt.  One that fails with Unavailable, since its lock         *)
(* deadline elapsed or another upgrades the same state, is retried too,    *)
(* but tells its caller no age.  The lock is StateLock at the level its    *)
(* theorems allow: holds by mode, an upgrade slot, a FIFO queue.           *)
(***************************************************************************)
EXTENDS Integers, Sequences, SequencesExt, FiniteSets

CONSTANTS
    Tx,             \* transactions, as their callers see them
    Resource,       \* states they call
    Demands,        \* [Tx -> set of [state, mode]]: the calls of each
    MaxAge          \* bound: root transaction ids, in creation order

ASSUME DeadlockAssumption ==
    /\ MaxAge \in Nat
    /\ Demands \in [Tx -> SUBSET [state : Resource,
                                  mode : {"shared", "exclusive"}]]

VARIABLES
    held,           \* held[s][t]: "none", "shared" or "exclusive"
    queue,          \* _waiters of each lock: FIFO of [tx, mode]
    upgrading,      \* _upgrader of each lock: at most one transaction
    age,            \* age of the attempt: retry age or root id
    retry_age,      \* _retry_age of the caller; 0 is None
    progress,       \* where each transaction is
    ids,            \* root ids handed out
    gaveway         \* history: <<t, u>> if t was presumed deadlocked with u,
                    \* as old as u still is

deadlockVars == <<held, queue, upgrading, age, retry_age, progress, ids,
                  gaveway>>

Progress == {"idle", "running", "aborting", "committing", "committed"}

DeadlockTypeOK ==
    /\ held \in [Resource -> [Tx -> {"none", "shared", "exclusive"}]]
    /\ queue \in [Resource -> Seq([tx : Tx, mode : {"shared", "exclusive"}])]
    /\ upgrading \in [Resource -> SUBSET Tx]
    /\ {age, retry_age} \subseteq [Tx -> 0..MaxAge]
    /\ progress \in [Tx -> Progress]
    /\ ids \in 0..MaxAge
    /\ gaveway \subseteq Tx \X Tx

DeadlockInit ==
    /\ held = [s \in Resource |-> [t \in Tx |-> "none"]]
    /\ queue = [s \in Resource |-> <<>>]
    /\ upgrading = [s \in Resource |-> {}]
    /\ age = [t \in Tx |-> 0]
    /\ retry_age = [t \in Tx |-> 0]
    /\ progress = [t \in Tx |-> "idle"]
    /\ ids = 0
    /\ gaveway = {}

-----------------------------------------------------------------------------
(* The lock.                                                               *)

holders(s) == {t \in Tx : held[s][t] # "none"}
Queued(s, t) == \E i \in 1..Len(queue[s]) : queue[s][i].tx = t
Waiting(s, t) == Queued(s, t) \/ t \in upgrading[s]

CanTake(s, m) ==
    /\ \A t \in Tx : held[s][t] # "exclusive"
    /\ upgrading[s] = {}
    /\ IF m = "exclusive" THEN holders(s) = {}
                          ELSE \A i \in 1..Len(queue[s]) :
                                   queue[s][i].mode # "exclusive"

\* The lock of one state once `h` are the holds, `u` the upgrade slot and `q`
\* the queue: an upgrader alone with its shared hold, else the head if it is
\* exclusive, else every shared waiter up to the first exclusive one.
Granted(h, u, q) ==
    LET has == {t \in Tx : h[t] # "none"}
        cohort == CHOOSE k \in 0..Len(q) :
                     /\ \A i \in 1..k : q[i].mode = "shared"
                     /\ k < Len(q) => q[k + 1].mode = "exclusive"
        first == {q[i].tx : i \in 1..cohort}
    IN  IF u # {}
        THEN IF has = u
             THEN [h |-> [t \in Tx |-> IF t \in u THEN "exclusive" ELSE h[t]],
                   u |-> {}, q |-> q]
             ELSE [h |-> h, u |-> u, q |-> q]
        ELSE IF has # {} \/ q = <<>>
        THEN [h |-> h, u |-> u, q |-> q]
        ELSE IF Head(q).mode = "exclusive"
        THEN [h |-> [h EXCEPT ![Head(q).tx] = "exclusive"],
              u |-> u, q |-> Tail(q)]
        ELSE [h |-> [t \in Tx |-> IF t \in first THEN "shared" ELSE h[t]],
              u |-> u, q |-> SubSeq(q, cohort + 1, Len(q))]

\* A waiter takes itself off the queue, if it is still there.
remove_waiter(q, t) ==
    LET places == {i \in 1..Len(q) : q[i].tx = t}
    IN  IF places = {} THEN q ELSE RemoveAt(q, CHOOSE i \in places : TRUE)

\* The lock of state s once t has given up its hold and its place in line.
\* Leaving the line grants nobody; releasing a hold does.
Without(s, t) ==
    LET h == [held[s] EXCEPT ![t] = "none"]
        u == upgrading[s] \ {t}
        q == remove_waiter(queue[s], t)
    IN  IF held[s][t] = "none" THEN [h |-> h, u |-> u, q |-> q]
                               ELSE Granted(h, u, q)

-----------------------------------------------------------------------------
(* The transactions.                                                       *)

\* Mutant: a retry is as young as its new root id.
MutAge(t) == ids + 1

\* `transaction.age`: the age its caller retries it with, or its root id.
Age(t) == IF retry_age[t] # 0 THEN retry_age[t] ELSE ids + 1

\* A caller that knows no age yet comes back as a new transaction, to which
\* nobody has given way.
BeginTx(t) ==
    /\ progress[t] = "idle" /\ ids < MaxAge
    /\ ids' = ids + 1
    /\ age' = [age EXCEPT ![t] = Age(t)]
    /\ progress' = [progress EXCEPT ![t] = "running"]
    /\ gaveway' = IF retry_age[t] = 0 THEN gaveway \ (Tx \X {t}) ELSE gaveway
    /\ UNCHANGED <<held, queue, upgrading, retry_age>>

\* A call acquires the lock, or starts to wait.
Acquire(t, d) ==
    LET s == d.state
    IN  /\ progress[t] = "running" /\ d \in Demands[t]
        /\ held[s][t] = "none" /\ ~Waiting(s, t)
        /\ \/ /\ CanTake(s, d.mode)
              /\ held' = [held EXCEPT ![s][t] = d.mode]
              /\ UNCHANGED queue
           \/ /\ ~CanTake(s, d.mode)
              /\ queue' = [queue EXCEPT ![s] =
                              Append(@, [tx |-> t, mode |-> d.mode])]
              /\ UNCHANGED held
        /\ UNCHANGED <<upgrading, age, retry_age, progress, ids, gaveway>>

\* A second upgrader fails with Unavailable, which carries no age.
Upgrade(t, s) ==
    /\ progress[t] = "running" /\ held[s][t] = "shared" /\ ~Waiting(s, t)
    /\ [state |-> s, mode |-> "exclusive"] \in Demands[t]
    /\ \/ /\ holders(s) = {t}
          /\ held' = [held EXCEPT ![s][t] = "exclusive"]
          /\ UNCHANGED <<upgrading, progress>>
       \/ /\ holders(s) # {t} /\ upgrading[s] = {}
          /\ upgrading' = [upgrading EXCEPT ![s] = {t}]
          /\ UNCHANGED <<held, progress>>
       \/ /\ upgrading[s] # {}
          /\ progress' = [progress EXCEPT ![t] = "aborting"]
          /\ UNCHANGED <<held, upgrading>>
    /\ UNCHANGED <<queue, age, retry_age, ids, gaveway>>

\* Mutant: only an exclusive holder is looked at.
MutPresumed(s, t) ==
    \E h \in holders(s) \ {t} : held[s][h] = "exclusive" /\ age[h] < age[t]

PresumedDeadlock(s, t) == \E h \in holders(s) \ {t} : age[h] < age[t]

\* A wait ends in an exception: the waiter leaves the line or the upgrade
\* slot, which grants nobody, and its transaction aborts.
GiveUp(t, s) ==
    /\ progress[t] = "running" /\ Waiting(s, t)
    /\ queue' = [queue EXCEPT ![s] = remove_waiter(@, t)]
    /\ upgrading' = [upgrading EXCEPT ![s] = @ \ {t}]
    /\ progress' = [progress EXCEPT ![t] = "aborting"]
    /\ UNCHANGED <<held, age, ids>>

\* The grace period elapsed: `_abort_if_presumed_deadlock` raises
\* TransactionShouldRetry, from which the caller learns the age.
GraceElapsed(t, s) ==
    /\ GiveUp(t, s)
    /\ PresumedDeadlock(s, t)
    /\ retry_age' = [retry_age EXCEPT ![t] = IF @ = 0 THEN age[t] ELSE @]
    /\ gaveway' = gaveway \cup
          {<<t, h>> : h \in {x \in holders(s) \ {t} : age[x] < age[t]}}

\* LOCK_ACQUIRE_DEADLINE_DEFAULT elapsed, whoever holds the lock: Unavailable,
\* from which the caller learns no age.
DeadlineElapsed(t, s) == GiveUp(t, s) /\ UNCHANGED <<retry_age, gaveway>>

Satisfied(t, d) ==
    held[d.state][t] = "exclusive" \/ held[d.state][t] = d.mode

CommitTx(t) ==
    /\ progress[t] = "running"
    /\ \A d \in Demands[t] : Satisfied(t, d)
    /\ progress' = [progress EXCEPT ![t] = "committing"]
    /\ UNCHANGED <<held, queue, upgrading, age, retry_age, ids, gaveway>>

\* The outcome reaches one of the participants.
ReleaseAt(t, s) ==
    /\ progress[t] \in {"aborting", "committing"}
    /\ held[s][t] # "none" \/ Waiting(s, t)
    /\ held' = [held EXCEPT ![s] = Without(s, t).h]
    /\ upgrading' = [upgrading EXCEPT ![s] = Without(s, t).u]
    /\ queue' = [queue EXCEPT ![s] = Without(s, t).q]
    /\ UNCHANGED <<age, retry_age, progress, ids, gaveway>>

\* All participants have it; the caller of an aborted transaction retries.
EndTx(t) ==
    /\ progress[t] \in {"aborting", "committing"}
    /\ \A s \in Resource : held[s][t] = "none" /\ ~Waiting(s, t)
    /\ progress' = [progress EXCEPT ![t] =
                       IF @ = "aborting" THEN "idle" ELSE "committed"]
    /\ UNCHANGED <<held, queue, upgrading, age, retry_age, ids, gaveway>>

TxStep(t) ==
    \/ BeginTx(t) \/ CommitTx(t) \/ EndTx(t)
    \/ \E d \in Demands[t] : Acquire(t, d)
    \/ \E s \in Resource :
          \/ Upgrade(t, s) \/ ReleaseAt(t, s)
          \/ GraceElapsed(t, s) \/ DeadlineElapsed(t, s)

DeadlockNext == \E t \in Tx : TxStep(t)

DeadlockSpec == DeadlockInit /\ [][DeadlockNext]_deadlockVars

-----------------------------------------------------------------------------
(* Properties.                                                             *)

Stuck(t) ==
    progress[t] = "running" /\ \E s \in Resource : Waiting(s, t)

\* "Every cycle of waiting transactions has at least one waiting on an older
\* one": when every transaction under way waits for a lock and can do nothing
\* else, some wait is on an older holder and will be given up, although who
\* holds what changes while they wait, and queues and upgrades hold up
\* transactions that conflict with no holder.
CycleBroken ==
    LET busy == {t \in Tx : progress[t] \notin {"idle", "committed"}}
    IN  /\ busy # {}
        /\ \A t \in busy :
              /\ Stuck(t)
              /\ \A d \in Demands[t] :
                    Satisfied(t, d) \/ Waiting(d.state, t)
        => \E t \in busy, s \in Resource :
              Waiting(s, t) /\ PresumedDeadlock(s, t)

\* A transaction never gives way to one that gave way to it, however often
\* they are retried, unless that other one has come back as a new transaction
\* in between: one that fails with Unavailable before it was ever presumed
\* deadlocked tells its caller no age.  Since one that gave way keeps its age
\* for good, who gives way to whom turns round at most once.
NoMutualGivingWay ==
    \A t, u \in Tx : ~(<<t, u>> \in gaveway /\ <<u, t>> \in gaveway)

\* Deadlock avoidance does what it is for: a cycle is always broken, and always
\* at the expense of the same transaction, once it has an age to be retried with
\* (_abort_if_presumed_deadlock, UnaryRetriedCall).
DeadlockResolved == DeadlockTypeOK /\ CycleBroken /\ NoMutualGivingWay

=============================================================================
