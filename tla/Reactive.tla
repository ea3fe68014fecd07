------------------------------ MODULE Reactive ------------------------------
(***************************************************************************)
(* A client's React.Query of a reader method of actor A, which itself      *)
(* reads actor B: streaming readers, `reactively`, the querier that turns  *)
(* A's call of B into a React.Query of its own, and what the client sees.  *)
(* A state is the set of idempotency keys of the mutations it contains.    *)
(***************************************************************************)
EXTENDS Naturals, Sequences, FiniteSets

CONSTANTS
    Key,        \* idempotency keys of mutations
    OfA,        \* those of mutations of A; the others are of B
    MaxBreaks   \* bound: broken or failed queries

Actor == {"A", "B"}
Of(k) == IF k \in OfA THEN "A" ELSE "B"
ASSUME ReactiveAssumption ==
    OfA \subseteq Key /\ MaxBreaks \in Nat /\ "unset" \notin Key

Unset == {"unset"}
IsSet(x) == x # Unset
QuietSession == [at |-> "off", queue |-> <<>>, loaded |-> Unset, latest |-> Unset,
                 keys |-> {}, event |-> FALSE, last |-> Unset]

VARIABLES
    actor,      \* the state of each actor
    session,    \* each actor's `reactively` session: its queue and event
    execution,  \* the execution of A's method, if one is under way
    querier,    \* A's query of B: latest response, whether it was used
    wire,       \* responses of B's query under way to the querier
    client,     \* what the client was sent last, and the keys it was sent
    breaks

reactiveVars == <<actor, session, execution, querier, wire, client, breaks>>

NotRunning == [at |-> "no", state |-> Unset, read |-> Unset, keys |-> {}]
NoQuerier == [on |-> FALSE, first |-> FALSE, response |-> Unset, used |-> FALSE]
Response == [a : {Unset} \cup SUBSET Key, b : {Unset} \cup SUBSET Key]

ReactiveTypeOK ==
    /\ actor \in [Actor -> SUBSET Key]
    /\ \A s \in Actor : session[s].at \in {"off", "queued", "loaded", "on"}
    /\ execution.at \in {"no", "call", "read"}
    /\ client.shown \in Response /\ client.keys \subseteq Key
    /\ breaks \in 0..MaxBreaks

ReactiveInit ==
    /\ actor = [s \in Actor |-> {}]
    /\ session = [s \in Actor |-> QuietSession]
    /\ execution = NotRunning /\ querier = NoQuerier /\ wire = <<>>
    /\ client = [shown |-> [a |-> Unset, b |-> Unset], keys |-> {}]
    /\ breaks = 0

----------------------------------------------------------------------------
\* A writer stores its state, which goes to every streaming reader's queue.
Mutate(k) ==
    LET s == Of(k) IN
    /\ k \notin actor[s]
    /\ actor' = [actor EXCEPT ![s] = @ \cup {k}]
    /\ session' = IF session[s].at = "off" THEN session
                  ELSE [session EXCEPT ![s].queue =
                          Append(@, [state |-> actor[s] \cup {k}, key |-> k])]
    /\ UNCHANGED <<execution, querier, wire, client, breaks>>

\* A mutation of A that is made again, its answer lost, changes nothing, but
\* its key goes once more to the readers: they may have missed it.
MutMutateAgain(k) == FALSE /\ UNCHANGED reactiveVars

Outstanding(k) ==
    \/ k \in session["A"].keys \cup execution.keys
    \/ \E i \in DOMAIN session["A"].queue : session["A"].queue[i].key = k
MutateAgain(k) ==
    /\ k \in actor["A"] \ client.keys /\ ~Outstanding(k)
    /\ session["A"].at # "off"
    /\ session' = [session EXCEPT !["A"].queue =
                      Append(@, [state |-> actor["A"], key |-> k])]
    /\ UNCHANGED <<actor, execution, querier, wire, client, breaks>>

\* streaming_reader_idempotency_key: the queue is added before the state is
\* loaded, ...
AddQueue(s) ==
    /\ session[s].at = "off" /\ (s = "B" => querier.on)
    /\ session' = [session EXCEPT ![s] = [QuietSession EXCEPT !.at = "queued"]]
    /\ UNCHANGED <<actor, execution, querier, wire, client, breaks>>

LoadState(s) ==
    /\ session[s].at = "queued"
    /\ session' = [session EXCEPT ![s].at = "loaded", ![s].loaded = actor[s]]
    /\ UNCHANGED <<actor, execution, querier, wire, client, breaks>>

\* ... and the state that was loaded is skipped if the queue has newer ones.
MutFirst(s) == session[s].loaded
First(s) == IF session[s].queue = <<>> THEN session[s].loaded ELSE Unset

StartIterator(s) ==
    /\ session[s].at = "loaded"
    /\ session' = [session EXCEPT ![s].at = "on", ![s].loaded = Unset,
                                  ![s].latest = First(s),
                                  ![s].event = IsSet(First(s))]
    /\ UNCHANGED <<actor, execution, querier, wire, client, breaks>>

\* watch_state: the latest state and the keys are updated together.
WatchState(s) ==
    /\ session[s].at = "on" /\ session[s].queue # <<>>
    /\ LET item == Head(session[s].queue) IN
       session' = [session EXCEPT ![s].queue = Tail(@), ![s].latest = item.state,
                                  ![s].keys = @ \cup {item.key}, ![s].event = TRUE]
    /\ UNCHANGED <<actor, execution, querier, wire, client, breaks>>

----------------------------------------------------------------------------
\* React.iterate: the event is cleared, then the state is taken with the
\* keys, and the method runs.
Iterate ==
    /\ session["A"].event /\ execution.at = "no"
    /\ session' = [session EXCEPT !["A"].event = FALSE, !["A"].keys = {}]
    /\ execution' = [at |-> "call", state |-> session["A"].latest, read |-> Unset,
                   keys |-> session["A"].keys]
    /\ UNCHANGED <<actor, querier, wire, client, breaks>>

\* It calls B: a query is started, or the latest response is used.
CallStarts ==
    /\ execution.at = "call" /\ ~querier.on
    /\ querier' = [NoQuerier EXCEPT !.on = TRUE]
    /\ UNCHANGED <<actor, session, execution, wire, client, breaks>>

MutCallReturns ==
    /\ execution.at = "call" /\ querier.first
    /\ execution' = [execution EXCEPT !.at = "read", !.read = querier.response]
    /\ UNCHANGED <<actor, session, querier, wire, client, breaks>>

CallReturns ==
    /\ execution.at = "call" /\ querier.first
    /\ execution' = [execution EXCEPT !.at = "read", !.read = querier.response]
    /\ querier' = [querier EXCEPT !.used = TRUE]
    /\ UNCHANGED <<actor, session, wire, client, breaks>>

MutMethodReturns ==
    /\ execution.at = "read"
    /\ client' = [shown |-> [a |-> execution.state, b |-> execution.read],
                  keys |-> client.keys \cup execution.keys \cup session["A"].keys]
    /\ execution' = NotRunning
    /\ UNCHANGED <<actor, session, querier, wire, breaks>>

\* react_query: a response equal to the last one is not sent, its keys are.
MethodReturns ==
    LET response == [a |-> execution.state, b |-> execution.read] IN
    /\ execution.at = "read"
    /\ client' = [shown |-> response, keys |-> client.keys \cup execution.keys]
    /\ execution' = NotRunning
    /\ UNCHANGED <<actor, session, querier, wire, breaks>>

\* B's side of the query, whose method returns B's state.
IterateB ==
    /\ session["B"].event
    /\ session' = [session EXCEPT !["B"].event = FALSE, !["B"].keys = {},
                                  !["B"].last = session["B"].latest]
    /\ wire' = IF session["B"].last = session["B"].latest THEN wire
               ELSE Append(wire, session["B"].latest)
    /\ UNCHANGED <<actor, execution, querier, client, breaks>>

\* The querier takes the next response once the previous one was used.  The
\* first one sets no event: the call of B is still waiting for it.
Receive ==
    /\ querier.on /\ wire # <<>>
    /\ querier.first => querier.used
    /\ querier' = [querier EXCEPT !.first = TRUE, !.response = Head(wire),
                                  !.used = FALSE]
    /\ wire' = Tail(wire)
    /\ session' = [session EXCEPT !["A"].event = @ \/ querier.first]
    /\ UNCHANGED <<actor, execution, client, breaks>>

\* The query of B breaks and is made again, ...
BreakQuery ==
    /\ querier.on /\ breaks < MaxBreaks
    /\ breaks' = breaks + 1
    /\ session' = [session EXCEPT !["B"] = QuietSession] /\ wire' = <<>>
    /\ UNCHANGED <<actor, execution, querier, client>>

\* ... or A's query ends: its method raised or the client disconnected.  The
\* session and its queries are cancelled, and the client queries again.
EndQuery ==
    /\ session["A"].at # "off" /\ breaks < MaxBreaks
    /\ breaks' = breaks + 1
    /\ session' = [s \in Actor |-> QuietSession] /\ wire' = <<>>
    /\ execution' = NotRunning /\ querier' = NoQuerier
    /\ UNCHANGED <<actor, client>>

ReactiveStep ==
    \/ \E s \in Actor : AddQueue(s) \/ LoadState(s) \/ StartIterator(s)
                        \/ WatchState(s)
    \/ Iterate \/ CallStarts \/ CallReturns \/ MethodReturns \/ IterateB \/ Receive

ReactiveNext ==
    \/ ReactiveStep \/ BreakQuery \/ EndQuery
    \/ \E k \in Key : Mutate(k) \/ MutateAgain(k)

ReactiveSpec == ReactiveInit /\ [][ReactiveNext]_reactiveVars

----------------------------------------------------------------------------
\* When the client is sent the key of a mutation of A, the response it holds
\* contains that mutation: what it reads from then on includes its writes.
KeysReflected == client.keys \subseteq client.shown.a

\* What the client is shown of each actor never goes back, not even when a
\* query is broken and made again.
NeverBack ==
    [][/\ IsSet(client.shown.a) => client.shown.a \subseteq client'.shown.a
       /\ IsSet(client.shown.b) => client.shown.b \subseteq client'.shown.b
      ]_client

\* A client that makes a mutation of A again as long as it has not observed
\* it does observe it, though its query was broken when it was made.
KeysObserved == \A k \in OfA : k \in actor["A"] ~> k \in client.keys

\* No change of either actor is missed: once mutations stop, the client is
\* shown both actors as they are.
Converges ==
    session["A"].at # "off" ~> [](client.shown = [a |-> actor["A"], b |-> actor["B"]])

\* What a client is shown includes the mutations whose keys it was sent, and
\* never goes back (React, reactively, react_query).
NothingMissed == []KeysReflected /\ NeverBack

\* A client catches up with what it wrote and with what others wrote.
ClientsCatchUp == KeysObserved /\ Converges

==============================================================================
