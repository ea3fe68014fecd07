------------------------------- MODULE PubSub -------------------------------
(***************************************************************************)
(* The PubSub library (pubsub.py) over the Queue library (queue.py): the   *)
(* Topic with its Broker workflow, one Queue per subscriber, and workflows *)
(* that dequeue. Workflows survive crashes of their server; what they kept *)
(* in memory does not. Within `until`, the inline write of the Broker and  *)
(* the transaction of a dequeue are made `always()`, and only the result   *)
(* of the block is memoized; the Broker's calls of Enqueue are idempotent  *)
(* per iteration. A message is its place in the order of publication.      *)
(***************************************************************************)
EXTENDS Naturals, Sequences, SequencesExt, FiniteSets

CONSTANTS
    Subscriber,     \* queues that may be subscribed
    Taker,          \* workflows that dequeue
    TakesFrom,      \* the queue of each
    Bulk,           \* the most items that each takes at once
    MaxMessages, MaxOutages

ASSUME PubSubAssumption ==
    /\ MaxMessages \in Nat /\ MaxOutages \in Nat
    /\ TakesFrom \in [Taker -> Subscriber] /\ Bulk \in [Taker -> Nat \ {0}]

VARIABLES
    topic,      \* Topic.State, with the order of queue_ids left out
    broker,     \* the Broker: where it is, what it sliced, who answered Enqueue
    memoized,      \* what the Broker's block has memoized in this iteration
    enqueued,   \* queues that know the Enqueue of this iteration
    queue,      \* the entries of each queue's SortedMap
    taker,      \* each dequeue: where it is and what it took
    taken,      \* history: what was taken from each queue, in order
    owed,       \* history: messages published to a queue that was subscribed
    dropped,    \* history: messages in memory only when their server crashed
    published, breakdowns

pubsubVars == <<topic, broker, memoized, enqueued, queue, taker, taken, owed, dropped, published,
                breakdowns>>

NoBatch == [queues |-> {}, items |-> <<>>]

PubSubInit ==
    /\ topic = [items |-> <<>>, queue_ids |-> {}, broker_started |-> FALSE]
    /\ broker = [at |-> "off", sliced |-> NoBatch, answered |-> {}]
    /\ memoized = NoBatch /\ enqueued = {}
    /\ queue = [q \in Subscriber |-> <<>>]
    /\ taker = [t \in Taker |-> [at |-> "wait", items |-> <<>>]]
    /\ taken = [q \in Subscriber |-> <<>>]
    /\ owed = [q \in Subscriber |-> {}] /\ dropped = [q \in Subscriber |-> {}]
    /\ published = 0 /\ breakdowns = 0

----------------------------------------------------------------------------
(* The Topic *)

\* The first call that needs the Broker schedules it, in the same write.
Scheduled == broker' = IF topic.broker_started THEN broker ELSE [broker EXCEPT !.at = "wait"]

\* A caller publishes one item, or several at once.
Publish(n) ==
    LET items == [i \in 1..n |-> published + i]
    IN /\ published + n <= MaxMessages
       /\ topic' = [topic EXCEPT !.items = @ \o items, !.broker_started = TRUE]
       /\ published' = published + n
       /\ owed' = [q \in Subscriber |->
                     IF q \in topic.queue_ids THEN owed[q] \cup ToSet(items) ELSE owed[q]]
       /\ Scheduled
       /\ UNCHANGED <<memoized, enqueued, queue, taker, taken, dropped, breakdowns>>

Subscribe(q) ==
    /\ topic' = [topic EXCEPT !.queue_ids = @ \cup {q}, !.broker_started = TRUE]
    /\ Scheduled
    /\ UNCHANGED <<memoized, enqueued, queue, taker, taken, owed, dropped, published, breakdowns>>

\* Mutant: the items stay in the topic.
MutAfterSlice(t) == t

AfterSlice(t) == [t EXCEPT !.items = <<>>]

\* `have_items` runs until it finds items, which it moves out of the state.
SliceItems ==
    /\ broker.at = "wait" /\ topic.items # <<>>
    /\ topic' = AfterSlice(topic)
    /\ broker' = [broker EXCEPT !.at = "have",
                    !.sliced = [queues |-> topic.queue_ids, items |-> topic.items]]
    /\ UNCHANGED <<memoized, enqueued, queue, taker, taken, owed, dropped, published, breakdowns>>

\* The result of the block is memoized.
BrokerMemoizes ==
    /\ broker.at = "have"
    /\ memoized' = broker.sliced
    /\ broker' = [broker EXCEPT !.at = "send", !.sliced = NoBatch]
    /\ UNCHANGED <<topic, enqueued, queue, taker, taken, owed, dropped, published, breakdowns>>

\* Mutant: the queue does not know the call when it is made again.
MutKnown(q) == FALSE

Known(q) == q \in enqueued

\* The transaction on the queue commits; the Broker has no answer yet. The
\* entries of a queue are sorted by the uuid7() that each is given. Assumed is
\* that a later one is greater, which a process ensures of its own; between
\* the servers that host a queue in turn it takes a wall clock that is not
\* set back further than it takes to restart.
Enqueue(q) ==
    /\ broker.at = "send" /\ q \in memoized.queues \ broker.answered /\ ~Known(q)
    /\ queue' = [queue EXCEPT ![q] = @ \o memoized.items]
    /\ enqueued' = enqueued \cup {q}
    /\ UNCHANGED <<topic, broker, memoized, taker, taken, owed, dropped, published, breakdowns>>

\* The answer, also of a call that is made again.
EnqueueAnswered(q) ==
    /\ broker.at = "send" /\ q \in enqueued \ broker.answered
    /\ broker' = [broker EXCEPT !.answered = @ \cup {q}]
    /\ UNCHANGED <<topic, memoized, enqueued, queue, taker, taken, owed, dropped, published,
                   breakdowns>>

\* When every Enqueue was answered the loop starts its next iteration.
BrokerLoops ==
    /\ broker.at = "send" /\ broker.answered = memoized.queues
    /\ broker' = [at |-> "wait", sliced |-> NoBatch, answered |-> {}]
    /\ memoized' = NoBatch /\ enqueued' = {}
    /\ UNCHANGED <<topic, queue, taker, taken, owed, dropped, published, breakdowns>>

\* The Topic's server crashes: the Broker runs again, and finds what it
\* memoized in this iteration, or waits for items.
BrokerCrash ==
    /\ breakdowns < MaxOutages /\ topic.broker_started
    /\ breakdowns' = breakdowns + 1
    /\ broker' = [at |-> IF memoized.items = <<>> THEN "wait" ELSE "send", sliced |-> NoBatch,
                  answered |-> {}]
    /\ dropped' = [q \in Subscriber |-> IF q \in broker.sliced.queues
                                        THEN dropped[q] \cup ToSet(broker.sliced.items)
                                        ELSE dropped[q]]
    /\ UNCHANGED <<topic, memoized, enqueued, queue, taker, taken, owed, published>>

----------------------------------------------------------------------------
(* Dequeue *)

TakerOnly == UNCHANGED <<topic, broker, memoized, enqueued, owed, published>>
TakerMoves(t, at, items) == taker' = [taker EXCEPT ![t] = [at |-> at, items |-> items]]

\* `have_items` reads that the queue is not empty.
SeesItems(t) ==
    /\ taker[t].at = "wait" /\ queue[TakesFrom[t]] # <<>>
    /\ TakerMoves(t, "try", <<>>)
    /\ TakerOnly /\ UNCHANGED <<queue, taken, dropped, breakdowns>>

\* Mutant: the entries stay in the map.
MutAfterTake(entries, n) == entries

AfterTake(entries, n) == SubSeq(entries, n + 1, Len(entries))

\* The transaction takes the first entries, if there still are any.
try_dequeue(t) ==
    LET entries == queue[TakesFrom[t]]
        n == IF Bulk[t] < Len(entries) THEN Bulk[t] ELSE Len(entries)
        items == SubSeq(entries, 1, n)
    IN /\ taker[t].at = "try"
       /\ queue' = [queue EXCEPT ![TakesFrom[t]] = AfterTake(entries, n)]
       /\ taken' = [taken EXCEPT ![TakesFrom[t]] = @ \o items]
       /\ TakerMoves(t, IF n = 0 THEN "wait" ELSE "have", items)
       /\ TakerOnly /\ UNCHANGED <<dropped, breakdowns>>

\* The result is memoized, and is the response of the workflow; the next
\* call of Dequeue is a workflow of its own.
DequeueReturns(t) ==
    /\ taker[t].at = "have"
    /\ TakerMoves(t, "wait", <<>>)
    /\ TakerOnly /\ UNCHANGED <<queue, taken, dropped, breakdowns>>

\* The queue's server crashes: its workflows run again.
QueueCrash(q) ==
    /\ breakdowns < MaxOutages /\ \E t \in Taker : TakesFrom[t] = q /\ taker[t].at # "wait"
    /\ breakdowns' = breakdowns + 1
    /\ taker' = [t \in Taker |-> IF TakesFrom[t] = q THEN [at |-> "wait", items |-> <<>>]
                                 ELSE taker[t]]
    /\ dropped' = [dropped EXCEPT ![q] = @ \cup
                     UNION {ToSet(taker[t].items) : t \in {u \in Taker : TakesFrom[u] = q}}]
    /\ TakerOnly /\ UNCHANGED <<queue, taken>>

----------------------------------------------------------------------------
BrokerNext ==
    \/ SliceItems \/ BrokerMemoizes \/ BrokerLoops
    \/ \E q \in Subscriber : Enqueue(q) \/ EnqueueAnswered(q)

TakerNext(t) == SeesItems(t) \/ try_dequeue(t) \/ DequeueReturns(t)

PubSubNext ==
    \/ \E n \in 1..2 : Publish(n)
    \/ \E q \in Subscriber : Subscribe(q) \/ QueueCrash(q)
    \/ BrokerNext \/ BrokerCrash
    \/ \E t \in Taker : TakerNext(t)

PubSubSpec == PubSubInit /\ [][PubSubNext]_pubsubVars

PubSubTypeOK ==
    /\ topic.queue_ids \subseteq Subscriber /\ broker.at \in {"off", "wait", "have", "send"}
    /\ broker.answered \subseteq enqueued /\ enqueued \subseteq memoized.queues
    /\ \A t \in Taker : taker[t].at \in {"wait", "try", "have"}
    /\ published \in 0..MaxMessages /\ breakdowns \in 0..MaxOutages

----------------------------------------------------------------------------
\* What is still to be enqueued on a queue.
Pending(q) ==
    (IF q \in memoized.queues \ enqueued THEN memoized.items ELSE <<>>)
    \o (IF q \in broker.sliced.queues THEN broker.sliced.items ELSE <<>>) \o topic.items

Increasing(s) == \A i, j \in DOMAIN s : i < j => s[i] < s[j]

\* However publications, subscriptions, the Broker's retries after crashes
\* and concurrent dequeues interleave, each subscriber gets every message
\* published since it subscribed, once and in order of publication; only a
\* message that was sliced off the topic and not memoized when the server
\* crashed never reaches the queue.
MessagesKept ==
    \A q \in Subscriber :
        LET line == taken[q] \o queue[q] \o Pending(q)
        IN Increasing(line) /\ owed[q] \subseteq ToSet(line) \cup dropped[q]

\* Once publications and crashes stop, whatever is owed to a subscriber that
\* something dequeues from has been taken from its queue, or was dropped.
MessagesArrive ==
    <>[](\A t \in Taker : owed[TakesFrom[t]]
                            \subseteq ToSet(taken[TakesFrom[t]]) \cup dropped[TakesFrom[t]])
=============================================================================
