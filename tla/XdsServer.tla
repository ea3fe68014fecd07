----------------------------- MODULE XdsServer -----------------------------
(***************************************************************************)
(* The discovery server that configures the local Envoy (xds_server.py),   *)
(* and the LocalEnvoy that calls `set_config` when servers come and go,    *)
(* one call after the other. Envoy keeps one stream open, asks for         *)
(* clusters, then for listeners, and acknowledges what it applies; it      *)
(* rejects a listener that routes to a cluster it does not have. It may    *)
(* lose its stream and connect again, before or after the server notices,  *)
(* and then tells the versions that it has.                                *)
(* A step ends where the code awaits. Configurations are numbered, and so  *)
(* are the versions (timestamps) they are sent under.                      *)
(***************************************************************************)
EXTENDS Naturals, Sequences, SequencesExt, FiniteSets

CONSTANTS
    LastStream, \* bound on the streams that Envoy opens, one after the other
    LastConfig  \* bound on configurations, hence on calls of set_config

ASSUME XdsAssumption == LastStream \in Nat \ {0} /\ LastConfig \in Nat \ {0}

Stream == 1..LastStream
DiscoveryType == {"cluster", "listener"}

VARIABLES
    config,     \* _clusters and _listeners
    version,    \* _config_version
    clients,    \* _clients, a list
    entry,      \* ClientEntry of each stream, and where its loop is
    requests, responses, \* what is under way on each stream
    open,       \* the stream that Envoy uses
    envoy,      \* the configuration, and its version, that Envoy has of each type
    setter,     \* the call of set_config
    fatal,      \* _fatal_error is set
    skipped     \* history: the list lost an entry that set_config had passed

xdsVars == <<config, version, clients, entry, requests, responses, open, envoy, setter, fatal,
             skipped>>

NoEntry ==
    [loop |-> "new", asked |-> {}, acked |-> [r \in DiscoveryType |-> 0],
     requested |-> {}, sent |-> 0, latest |-> 0, ear |-> "none"]
NotSetting == [pc |-> "idle", at |-> 0, for |-> 0]

XdsInit ==
    /\ config = 1 /\ version = 1 /\ clients = <<>>
    /\ entry = [s \in Stream |-> NoEntry]
    /\ requests = [s \in Stream |-> <<>>] /\ responses = [s \in Stream |-> <<>>]
    /\ open = 1 /\ envoy = [r \in DiscoveryType |-> [config |-> 0, version |-> 0]]
    /\ setter = NotSetting /\ fatal = FALSE /\ skipped = FALSE

Connected(s) == entry[s].loop \notin {"new", "closed"}

----------------------------------------------------------------------------
(* set_config *)

\* `_config_changed.set()` and `.clear()` wake the streams that listen.
Rung(e) == [s \in Stream |-> IF e[s].ear = "waiting"
                             THEN [e[s] EXCEPT !.ear = "rung"] ELSE e[s]]

\* What follows once there is a client: a new version, the wake-up, and the
\* iteration over the clients starts.
MarkChanged(c) ==
    /\ version' = c
    /\ entry' = Rung(entry)
    /\ setter' = [pc |-> "wait", at |-> 1, for |-> clients[1]]

set_config ==
    /\ setter.pc = "idle" /\ config < LastConfig /\ ~fatal
    /\ config' = config + 1
    /\ IF clients # <<>> THEN MarkChanged(config + 1)
       ELSE setter' = [NotSetting EXCEPT !.pc = "client"] /\ UNCHANGED <<version, entry>>
    /\ UNCHANGED <<clients, requests, responses, open, envoy, fatal, skipped>>

wait_until_at_least_one_client ==
    /\ setter.pc = "client" /\ clients # <<>>
    /\ MarkChanged(config)
    /\ UNCHANGED <<config, clients, requests, responses, open, envoy, fatal, skipped>>

\* Mutant: one acknowledged type is enough.
MutUpToDate(s) == \E r \in entry[s].asked : entry[s].acked[r] >= version

\* The client asked for both types and acknowledged this version of both.
UpToDate(s) ==
    entry[s].asked = DiscoveryType /\ \A r \in DiscoveryType : entry[s].acked[r] >= version

\* The iterator of the list moves on to its next position, if the list as it
\* is now has one; otherwise set_config returns, or raises the fatal error.
wait_until_all_clients_at_version ==
    /\ setter.pc = "wait"
    /\ ~Connected(setter.for) \/ UpToDate(setter.for) \/ fatal
    /\ setter' = IF setter.at < Len(clients)
                 THEN [setter EXCEPT !.at = @ + 1, !.for = clients[setter.at + 1]]
                 ELSE NotSetting
    /\ UNCHANGED <<config, version, clients, entry, requests, responses, open, envoy, fatal,
                   skipped>>

----------------------------------------------------------------------------
(* StreamAggregatedResources *)

\* Mutant: the task for a change is not renewed once it has ended.
MutWaits(e) == [e EXCEPT !.loop = "wait",
                         !.ear = IF @ = "none" /\ e.asked = {} THEN "waiting" ELSE @]

\* The loop waits for a request or a change, with a task for each. The new
\* task listens at once: it starts within one round of the event loop, before
\* a message of an Envoy can arrive.
Waits(e) == [e EXCEPT !.loop = "wait", !.ear = IF @ = "none" THEN "waiting" ELSE @]

\* Envoy asks for a type and tells the version that it has.
Ask(r) == [type |-> r, version |-> envoy[r].version, nack |-> FALSE]

Connect(s) ==
    /\ s = open /\ entry[s].loop = "new"
    /\ clients' = Append(clients, s)
    /\ entry' = [entry EXCEPT ![s] = Waits(@)]
    /\ requests' = [requests EXCEPT ![s] =
                   IF envoy["cluster"].config = 0 THEN <<Ask("cluster")>>
                   ELSE <<Ask("cluster"), Ask("listener")>>]
    /\ UNCHANGED <<config, version, responses, open, envoy, setter, fatal, skipped>>

\* Mutant: the clusters need not have gone out at this version.
MutReleased(e, r) == r \in e.requested /\ e.acked[r] < e.latest

\* What the loop would send now: a type that was asked for and is out of
\* date, listeners only once clusters of the version went out.
Released(e, r) ==
    /\ r \in e.requested /\ e.acked[r] < e.latest
    /\ r = "listener" => e.sent >= e.latest

Emit(s, r) ==
    responses' = [responses EXCEPT ![s] =
                    Append(@, [type |-> r, version |-> version, config |-> config])]

\* One pass over both types up to the first response, where it yields.
Serve(s, e) ==
    IF Released(e, "cluster")
    THEN entry' = [entry EXCEPT ![s] = [e EXCEPT !.loop = "cluster"]] /\ Emit(s, "cluster")
    ELSE IF Released(e, "listener")
    THEN entry' = [entry EXCEPT ![s] = [e EXCEPT !.loop = "listener"]] /\ Emit(s, "listener")
    ELSE entry' = [entry EXCEPT ![s] = Waits(e)] /\ UNCHANGED responses

\* The loop wakes for a request, a change or both. `latest_version` is read
\* once, for the whole pass; a rejected configuration is fatal. So are, in the
\* code, an Envoy older than the pinned one, a type that is never asked for and
\* an unexpected exception, which no run of these two programs brings about.
Wake(s, request, change) ==
    LET e == entry[s]
        r == Head(requests[s])
        nack == request /\ r.nack
        seen == IF request /\ ~nack
                THEN [e EXCEPT !.asked = @ \cup {r.type}, !.requested = @ \cup {r.type},
                               !.acked[r.type] = r.version]
                ELSE e
        woken == [seen EXCEPT !.latest = version,
                              !.ear = IF change /\ ~nack THEN "none" ELSE @]
    IN /\ e.loop = "wait" /\ (request \/ change)
       /\ request => requests[s] # <<>>
       /\ change => e.ear = "rung"
       /\ requests' = IF request THEN [requests EXCEPT ![s] = Tail(@)] ELSE requests
       /\ fatal' = (fatal \/ nack)
       /\ IF nack \/ fatal
          THEN entry' = [entry EXCEPT ![s] = Waits(woken)] /\ UNCHANGED responses
          ELSE Serve(s, woken)
       /\ UNCHANGED <<config, version, clients, open, envoy, setter, skipped>>

\* The response has gone out. The rest of the pass uses the `latest_version`
\* it had, but the configuration and the version of now.
Resume(s) ==
    LET e == entry[s]
        done == [e EXCEPT !.requested = @ \ {e.loop},
                          !.sent = IF e.loop = "cluster" THEN e.latest ELSE @]
    IN /\ e.loop \in DiscoveryType
       /\ IF e.loop = "cluster" /\ Released(done, "listener")
          THEN /\ entry' = [entry EXCEPT ![s] = [done EXCEPT !.loop = "listener"]]
               /\ Emit(s, "listener")
          ELSE entry' = [entry EXCEPT ![s] = Waits(done)] /\ UNCHANGED responses
       /\ UNCHANGED <<config, version, clients, requests, open, envoy, setter, fatal, skipped>>

\* The server notices that the client is gone and takes it off the list.
\* The iteration of set_config keeps its position.
Disconnect(s) ==
    /\ entry[s].loop = "lost"
    /\ clients' = SelectSeq(clients, LAMBDA c : c # s)
    /\ skipped' = (skipped \/ \E i \in 1..Len(clients) :
                        clients[i] = s /\ setter.pc = "wait" /\ i <= setter.at)
    /\ entry' = [entry EXCEPT ![s] = [NoEntry EXCEPT !.loop = "closed"]]
    /\ UNCHANGED <<config, version, requests, responses, open, envoy, setter, fatal>>

----------------------------------------------------------------------------
\* The stream breaks, and with it goes what is under way on it. Envoy will
\* connect again; the server does not know yet. Its loop may still wake and
\* send what arrives nowhere, which nobody sees: of the entry, set_config looks
\* at what was asked for and acknowledged.
StreamLost ==
    /\ open < LastStream /\ entry[open].loop # "new"
    /\ open' = open + 1
    /\ requests' = [requests EXCEPT ![open] = <<>>]
    /\ responses' = [responses EXCEPT ![open] = <<>>]
    /\ entry' = [entry EXCEPT ![open] =
                    [NoEntry EXCEPT !.loop = "lost", !.asked = entry[open].asked,
                                    !.acked = entry[open].acked]]
    /\ UNCHANGED <<config, version, clients, envoy, setter, fatal, skipped>>

\* Envoy takes a response. Its first clusters make it ask for listeners,
\* before or after it acknowledges them, and it rejects listeners that route
\* to clusters it does not have.
EnvoyTakes(s) ==
    LET m == Head(responses[s])
        nack == m.type = "listener" /\ m.config > envoy["cluster"].config
        answer == [type |-> m.type, version |-> m.version, nack |-> nack]
        first == m.type = "cluster" /\ envoy["cluster"].config = 0
    IN /\ s = open /\ responses[s] # <<>>
       /\ responses' = [responses EXCEPT ![s] = Tail(@)]
       /\ envoy' = IF nack THEN envoy
                   ELSE [envoy EXCEPT ![m.type] = [config |-> m.config, version |-> m.version]]
       /\ \E messages \in IF first THEN {<<answer, Ask("listener")>>, <<Ask("listener"), answer>>}
                          ELSE {<<answer>>} :
            requests' = [requests EXCEPT ![s] = @ \o messages]
       /\ UNCHANGED <<config, version, clients, entry, open, setter, fatal, skipped>>

StreamServes(s) ==
    Resume(s) \/ \E request, change \in BOOLEAN : Wake(s, request, change)

XdsSets == wait_until_at_least_one_client \/ wait_until_all_clients_at_version

XdsNext ==
    \/ set_config \/ XdsSets \/ StreamLost
    \/ \E s \in Stream : Connect(s) \/ Disconnect(s) \/ StreamServes(s) \/ EnvoyTakes(s)

XdsSpec == XdsInit /\ [][XdsNext]_xdsVars

----------------------------------------------------------------------------
XdsTypeOK ==
    /\ config \in 1..LastConfig /\ version \in 1..LastConfig
    /\ Range(clients) \subseteq Stream /\ IsInjective(clients)
    /\ \A s \in Stream :
        /\ entry[s].loop \in {"new", "wait", "lost", "closed"} \cup DiscoveryType
        /\ entry[s].ear \in {"none", "waiting", "rung"}
        /\ entry[s].requested \subseteq entry[s].asked /\ entry[s].asked \subseteq DiscoveryType
    /\ open \in Stream
    /\ envoy \in [DiscoveryType -> [config : 0..LastConfig, version : 0..LastConfig]]
    /\ setter.pc \in {"idle", "client", "wait"} /\ fatal \in BOOLEAN /\ skipped \in BOOLEAN

\* When set_config returns, Envoy has applied its configuration if its stream
\* is open, also when it connected meanwhile, unless the list lost an entry at
\* or before the position of the iteration.
ConfigApplied ==
    [][setter.pc = "wait" /\ setter'.pc = "idle" /\ ~fatal /\ ~skipped /\ Connected(open) =>
        \A r \in DiscoveryType : envoy[r].config >= version]_xdsVars

\* What the callers of set_config rely on: ConfigApplied, and that Envoy
\* rejects no listener as long as set_config waited for every client. The
\* clusters that a listener routes to went ahead of it, though a pass over
\* both types yields between them and a new configuration may come meanwhile.
ConfigDelivered == [](fatal => skipped) /\ ConfigApplied

\* Envoy came back with the current clusters, so that the server sends none
\* on this stream and never releases the listeners.
Withheld(s) ==
    /\ s = open /\ entry[s].sent < version
    /\ entry[s].acked["cluster"] >= version /\ entry[s].acked["listener"] < version

\* The wake-ups of the streams and of set_config are not lost: a call that
\* is under way returns, unless the client that it waits for has its listeners
\* withheld. The iteration can come to such a client when the list lost
\* entries that it had passed.
ConfigReturns == setter.pc = "wait" ~> setter.pc = "idle" \/ Withheld(setter.for)

\* Once it has connected, Envoy always comes to have the configuration of the
\* server, on whichever stream, unless it rejects one or the listeners are
\* withheld.
ConfigReaches ==
    entry[1].loop # "new" ~>
        fatal \/ Withheld(open) \/ \A r \in DiscoveryType : envoy[r].config = config
=============================================================================
