----------------------------- MODULE Placement -----------------------------
(***************************************************************************)
(* Where states live: the plan of an application's servers and shards, the *)
(* manager that launches the servers, the Envoy that routes to them, and   *)
(* the placement clients that learn of plans over a stream and let others  *)
(* wait for one. Commands of Reboot (up, down, server_stop, server_start)  *)
(* come one after the other, but a start may fail in any of several        *)
(* servers that start concurrently, streams break, and waiting for a       *)
(* change takes an event that is set and cleared at once.                  *)
(***************************************************************************)
EXTENDS Naturals, Sequences, SequencesExt, FiniteSets, FiniteSetsExt

CONSTANTS
    Counts,       \* numbers of servers to bring an application up with
    Base,         \* values of a byte
    NumShards,
    HashLength,   \* bytes of the hash of a state
    MaxPlans, MaxStops, MaxStartFailures, MaxBreaks

ASSUME PlacementAssumption ==
    /\ Counts \subseteq Nat \ {0} /\ Counts # {}
    /\ Base \in Nat \ {0, 1} /\ NumShards \in Nat \ {0}
    /\ \A n \in Counts : NumShards % n = 0
    /\ \A bound \in {HashLength, MaxPlans, MaxStops, MaxStartFailures, MaxBreaks} : bound \in Nat

NumServers == Max(Counts)
Replica == 0 .. NumServers - 1 \* a server, by its index
Local == NumServers            \* the placement client of Reboot itself
PlanClient == Replica \cup {Local}

----------------------------------------------------------------------------
(* Shards and hashes are sequences of bytes. *)

\* The keys that k bytes make.
total_keys[k \in 0..NumShards] == IF k = 0 THEN 1 ELSE Base * total_keys[k - 1]

\* The fewest bytes that tell the shards apart.
key_length == CHOOSE k \in 1..NumShards :
    total_keys[k] >= NumShards /\ (k > 1 => total_keys[k - 1] < NumShards)

Bytes(n) == [d \in 1..key_length |-> (n \div total_keys[key_length - d]) % Base]

\* Mutant: the first shard starts at the lowest key of its length.
MutFirstKey(i) == Bytes(i * (total_keys[key_length] \div NumShards) + 1)

first_key(i) == IF i = 0 THEN <<>> ELSE Bytes(i * (total_keys[key_length] \div NumShards))

\* Python, Lua and C++ compare byte strings like this.
AtMost(a, b) ==
    \/ IsPrefix(a, b)
    \/ \E d \in DOMAIN a \cap DOMAIN b : a[d] < b[d] /\ \A e \in 1..d - 1 : a[e] = b[e]

Hash == [1..HashLength -> 0..Base - 1]
Shard == 0 .. NumShards - 1

\* bisect_right counts the entries at or before the hash.
shard_for_actor(h) == Cardinality({i \in Shard : AtMost(first_key(i), h)}) - 1

\* Mutant: blocks of shards instead of every n-th.
MutServerIndex(i, n) == i \div (NumShards \div n)

server_index_for_shard(i, n) == i % n

\* The database steps back from the first entry after the hash.
GetShardForHash(h) ==
    LET after == {i \in Shard : ~AtMost(first_key(i), h)}
    IN IF after = {} THEN NumShards - 1 ELSE Min(after) - 1

\* Envoy's filter does a binary search over the starts of the key ranges that
\* its route map has. Here it has all shards; one that two servers claim is
\* there twice with the same server, so that once is enough.
compute_server_id(h, map) ==
    LET search[bounds \in (1..NumShards + 1) \X (1..NumShards + 1)] ==
            LET low == bounds[1]
                high == bounds[2]
                middle == (low + high) \div 2
            IN IF low >= high THEN low
               ELSE IF AtMost(first_key(middle - 1), h) THEN search[<<middle + 1, high>>]
               ELSE search[<<low, middle>>]
    IN map[search[<<1, NumShards + 1>>] - 2]

----------------------------------------------------------------------------
VARIABLES
    configs,    \* servers of the one application, 0 when it is down
    plans,      \* last_version of the PlanMaker
    current,    \* current_plan_with_servers
    launched,   \* _launched_servers, by index
    managed,    \* current_servers
    making,     \* the call of make_plan, or of server_start before it
    routes,     \* the ports that the Envoy routes to
    routeMap,   \* the server that the Envoy's filter has for a shard
    listening,  \* whether a client's stream is open
    planQueue,      \* its plans under way
    known,      \* the plan it handled last
    changeWaiter,     \* who waits for a change: Reboot for a plan, a server to be ready
    ports, stops, startFailures, breaks

placementVars == <<configs, plans, current, launched, managed, making, routes, routeMap, listening,
                   planQueue, known, changeWaiter, ports, stops, startFailures, breaks>>

NoPlan == [version |-> 0, n |-> 0, address |-> [s \in Replica |-> 0]]
NotLaunched == [state |-> "none", n |-> 0, port |-> 0, at |-> 0]
AtRest == [pc |-> "idle", plan |-> NoPlan, todo |-> {}, failed |-> FALSE]
Raised == [AtRest EXCEPT !.failed = TRUE]

\* The planner has started, with the empty plan, and Reboot's client has it.
PlacementInit ==
    /\ configs = 0 /\ plans = 1 /\ current = [NoPlan EXCEPT !.version = 1]
    /\ launched = [s \in Replica |-> NotLaunched] /\ managed = {} /\ making = AtRest
    /\ routes = [s \in Replica |-> 0] /\ routeMap = <<>>
    /\ listening = [c \in PlanClient |-> c = Local]
    /\ planQueue = [c \in PlanClient |-> <<>>]
    /\ known = [c \in PlanClient |-> IF c = Local THEN current ELSE NoPlan]
    /\ changeWaiter = [c \in PlanClient |-> "none"]
    /\ ports = 0 /\ stops = 0 /\ startFailures = 0 /\ breaks = 0

Planned(n) == {s \in Replica : s < n}
Quiet == making.pc = "idle" /\ changeWaiter[Local] = "none"

----------------------------------------------------------------------------
(* Commands *)

make_plan(n) ==
    /\ plans < MaxPlans /\ plans' = plans + 1
    /\ making' = [pc |-> "servers", plan |-> [NoPlan EXCEPT !.version = plans + 1, !.n = n],
                  todo |-> Planned(n), failed |-> FALSE]

\* Also one that failed to come up has its configuration stored, and has to
\* be brought down first.
up(n) ==
    /\ Quiet /\ configs = 0
    /\ configs' = n /\ make_plan(n)
    /\ UNCHANGED <<current, launched, managed, routes, routeMap, listening, planQueue,
                   known, changeWaiter, ports, stops, startFailures, breaks>>

down ==
    /\ Quiet /\ configs # 0
    /\ configs' = 0 /\ make_plan(0)
    /\ UNCHANGED <<current, launched, managed, routes, routeMap, listening, planQueue,
                   known, changeWaiter, ports, stops, startFailures, breaks>>

server_stop(s) ==
    /\ Quiet /\ launched[s].state = "running" /\ stops < MaxStops
    /\ launched' = [launched EXCEPT ![s].state = "stopped"]
    /\ listening' = [listening EXCEPT ![s] = FALSE] /\ planQueue' = [planQueue EXCEPT ![s] = <<>>]
    /\ changeWaiter' = [changeWaiter EXCEPT ![s] = "none"] /\ stops' = stops + 1
    /\ UNCHANGED <<configs, plans, current, managed, making, routes, routeMap, known,
                   ports, startFailures, breaks>>

\* Only a server that stopped is started again.
server_start(s) ==
    /\ Quiet /\ launched[s].state = "stopped" /\ plans < MaxPlans
    /\ making' = [AtRest EXCEPT !.pc = "restart", !.todo = {s}, !.plan.n = launched[s].n]
    /\ UNCHANGED <<configs, plans, current, launched, managed, routes, routeMap,
                   listening, planQueue, known, changeWaiter, ports, stops, startFailures,
                   breaks>>

----------------------------------------------------------------------------
(* The server manager *)

Starting(s) ==
    /\ s \in making.todo
    /\ making.pc = "restart" \/ (making.pc = "servers" /\ launched[s].state = "none")

\* A server that is known keeps its address, also one that is stopped; one
\* that was launched from another specification trips the assertion.
set_server(s) ==
    /\ making.pc = "servers" /\ s \in making.todo /\ launched[s].state # "none"
    /\ making' = [making EXCEPT !.todo = @ \ {s},
                                !.plan.address[s] = launched[s].port,
                                !.failed = @ \/ launched[s].n # making.plan.n]
    /\ UNCHANGED <<configs, plans, current, launched, managed, routes, routeMap,
                   listening, planQueue, known, changeWaiter, ports, stops, startFailures,
                   breaks>>

\* The placement client of a server that starts opens its stream.
ClientStarts(s) ==
    /\ Starting(s) /\ ~listening[s]
    /\ listening' = [listening EXCEPT ![s] = TRUE]
    /\ planQueue' = [planQueue EXCEPT ![s] = <<current>>]
    /\ known' = [known EXCEPT ![s] = NoPlan]
    /\ UNCHANGED <<configs, plans, current, launched, managed, making, routes, routeMap,
                   changeWaiter, ports, stops, startFailures, breaks>>

\* It has a plan, the server recovered and listens on a new port. A server
\* that is started again keeps its place in the dictionary.
start_server(s) ==
    /\ Starting(s) /\ listening[s] /\ known[s] # NoPlan
    /\ launched' = [launched EXCEPT ![s] =
                       [state |-> "running", n |-> making.plan.n, port |-> ports + 1,
                        at |-> IF @.state = "none" THEN ports + 1 ELSE @.at]]
    /\ ports' = ports + 1
    /\ making' = [making EXCEPT !.todo = @ \ {s}, !.plan.address[s] = ports + 1]
    /\ changeWaiter' = [changeWaiter EXCEPT ![s] = "check"]
    /\ UNCHANGED <<configs, plans, current, managed, routes, routeMap, listening,
                   planQueue, known, stops, startFailures, breaks>>

StartFails(s) ==
    /\ Starting(s) /\ startFailures < MaxStartFailures
    /\ startFailures' = startFailures + 1
    /\ making' = [making EXCEPT !.todo = @ \ {s}, !.failed = TRUE]
    /\ listening' = [listening EXCEPT ![s] = FALSE] /\ planQueue' = [planQueue EXCEPT ![s] = <<>>]
    /\ UNCHANGED <<configs, plans, current, launched, managed, routes, routeMap, known,
                   changeWaiter, ports, stops, breaks>>

\* Every server of the plan started, or one failed and the command raises:
\* the others stay launched. What is deleted comes from current_servers.
ServersSet ==
    /\ making.pc = "servers" /\ making.todo = {}
    /\ making' = IF making.failed THEN Raised
                 ELSE [making EXCEPT !.pc = "delete", !.todo = managed \ Planned(making.plan.n)]
    /\ UNCHANGED <<configs, plans, current, launched, managed, routes, routeMap,
                   listening, planQueue, known, changeWaiter, ports, stops, startFailures,
                   breaks>>

delete_server(s) ==
    /\ making.pc = "delete" /\ s \in making.todo
    /\ launched' = [launched EXCEPT ![s] = NotLaunched]
    /\ listening' = [listening EXCEPT ![s] = FALSE] /\ planQueue' = [planQueue EXCEPT ![s] = <<>>]
    /\ changeWaiter' = [changeWaiter EXCEPT ![s] = "none"]
    /\ making' = [making EXCEPT !.todo = @ \ {s}]
    /\ UNCHANGED <<configs, plans, current, managed, routes, routeMap, known, ports,
                   stops, startFailures, breaks>>

\* The launched servers that have a shard, left over ones included.
Claimants(i) ==
    {s \in Replica : launched[s].state # "none" /\ server_index_for_shard(i, launched[s].n) = s}

\* Mutant: the first server of the dictionary keeps the shard.
MutServerIdByShardId(i) ==
    CHOOSE s \in Claimants(i) : \A t \in Claimants(i) : launched[s].at <= launched[t].at

\* A later server of the dictionary overwrites the entry of an earlier one.
server_id_by_shard_id(i) ==
    CHOOSE s \in Claimants(i) : \A t \in Claimants(i) : launched[t].at <= launched[s].at

\* The Envoy learns of every launched server, stopped or left over too, and
\* is left alone when there is none.
configure_envoy ==
    IF \A s \in Replica : launched[s] = NotLaunched THEN UNCHANGED <<routes, routeMap>>
    ELSE /\ routes' = [s \in Replica |-> launched[s].port]
         /\ routeMap' = [i \in {j \in Shard : Claimants(j) # {}} |-> server_id_by_shard_id(i)]

ServersDeleted ==
    /\ making.pc = "delete" /\ making.todo = {}
    /\ managed' = Planned(making.plan.n) /\ configure_envoy
    /\ making' = [making EXCEPT !.pc = "publish"]
    /\ UNCHANGED <<configs, plans, current, launched, listening, planQueue, known,
                   changeWaiter, ports, stops, startFailures, breaks>>

\* Mutant: the Envoy is told, the planner is not poked.
MutRestarted ==
    /\ making.pc = "restart" /\ making.todo = {}
    /\ configure_envoy /\ making' = AtRest
    /\ UNCHANGED <<configs, plans, current, launched, managed, listening, planQueue,
                   known, changeWaiter, ports, stops, startFailures, breaks>>

\* server_start tells the Envoy of the new port, then asks for a new plan.
Restarted ==
    /\ making.pc = "restart" /\ making.todo = {}
    /\ IF making.failed THEN making' = Raised /\ UNCHANGED <<plans, routes, routeMap>>
       ELSE configure_envoy /\ make_plan(configs)
    /\ UNCHANGED <<configs, current, launched, managed, listening, planQueue, known,
                   changeWaiter, ports, stops, startFailures, breaks>>

\* The planner sends the plan to every stream; the command waits until
\* Reboot's own client has it.
Publish ==
    /\ making.pc = "publish"
    /\ current' = making.plan
    /\ planQueue' = [c \in PlanClient |->
                       IF listening[c] THEN Append(planQueue[c], making.plan) ELSE planQueue[c]]
    /\ making' = AtRest
    /\ changeWaiter' = [changeWaiter EXCEPT ![Local] = "check"]
    /\ UNCHANGED <<configs, plans, launched, managed, routes, routeMap, listening, known,
                   ports, stops, startFailures, breaks>>

----------------------------------------------------------------------------
(* Placement clients *)

\* The change event is set and cleared: only who listens is woken.
handle_plan(c) ==
    /\ planQueue[c] # <<>>
    /\ known' = [known EXCEPT ![c] = Head(planQueue[c])]
    /\ planQueue' = [planQueue EXCEPT ![c] = Tail(@)]
    /\ changeWaiter' = IF changeWaiter[c] = "listen" THEN [changeWaiter EXCEPT ![c] = "check"]
                       ELSE changeWaiter
    /\ UNCHANGED <<configs, plans, current, launched, managed, making, routes, routeMap,
                   listening, ports, stops, startFailures, breaks>>

StreamBreaks(c) ==
    /\ listening[c] /\ breaks < MaxBreaks /\ breaks' = breaks + 1
    /\ listening' = [listening EXCEPT ![c] = FALSE] /\ planQueue' = [planQueue EXCEPT ![c] = <<>>]
    /\ UNCHANGED <<configs, plans, current, launched, managed, making, routes, routeMap,
                   known, changeWaiter, ports, stops, startFailures>>

\* The control loop opens the stream again and gets the current plan first.
control_loop(c) ==
    /\ ~listening[c] /\ c \in {Local} \cup {s \in Replica : launched[s].state = "running"}
    /\ listening' = [listening EXCEPT ![c] = TRUE]
    /\ planQueue' = [planQueue EXCEPT ![c] = <<current>>]
    /\ UNCHANGED <<configs, plans, current, launched, managed, making, routes, routeMap,
                   known, changeWaiter, ports, stops, startFailures, breaks>>

\* Reboot waits for the version it made, a server to find its own services.
PlanAwaited(c) == IF c = Local THEN known[c].version >= current.version ELSE known[c].n > 0

\* Mutant: one look.
MutWaitForChange(c) ==
    /\ changeWaiter[c] = "check"
    /\ changeWaiter' = [changeWaiter EXCEPT ![c] = "none"]
    /\ UNCHANGED <<configs, plans, current, launched, managed, making, routes, routeMap,
                   listening, planQueue, known, ports, stops, startFailures, breaks>>

\* A check that fails creates the task that will listen.
wait_for_change(c) ==
    /\ changeWaiter[c] = "check"
    /\ changeWaiter' = [changeWaiter EXCEPT ![c] = IF PlanAwaited(c) THEN "none" ELSE "created"]
    /\ UNCHANGED <<configs, plans, current, launched, managed, making, routes, routeMap,
                   listening, planQueue, known, ports, stops, startFailures, breaks>>

Listens(c) ==
    /\ changeWaiter[c] = "created"
    /\ changeWaiter' = [changeWaiter EXCEPT ![c] = "listen"]
    /\ UNCHANGED <<configs, plans, current, launched, managed, making, routes, routeMap,
                   listening, planQueue, known, ports, stops, startFailures, breaks>>

ManagerStep ==
    \/ ServersSet \/ ServersDeleted \/ Restarted \/ Publish
    \/ \E s \in Replica : set_server(s) \/ ClientStarts(s) \/ start_server(s) \/ delete_server(s)

ClientStep(c) == handle_plan(c) \/ control_loop(c) \/ wait_for_change(c) \/ Listens(c)

PlacementNext ==
    \/ \E n \in Counts : up(n)
    \/ down \/ ManagerStep
    \/ \E s \in Replica : server_stop(s) \/ server_start(s) \/ StartFails(s)
    \/ \E c \in PlanClient : StreamBreaks(c) \/ ClientStep(c)

PlacementSpec == PlacementInit /\ [][PlacementNext]_placementVars

----------------------------------------------------------------------------
PlacementTypeOK ==
    /\ configs \in Counts \cup {0} /\ plans \in 1..MaxPlans /\ managed \subseteq Replica
    /\ \A s \in Replica : launched[s].state \in {"none", "running", "stopped"}
    /\ making.pc \in {"idle", "servers", "delete", "publish", "restart"}
    /\ making.todo \subseteq Replica
    /\ \A c \in PlanClient : changeWaiter[c] \in {"none", "check", "created", "listen"}
    /\ listening \in [PlanClient -> BOOLEAN]

\* Once a command returned, Envoy's filter, the placement client and the
\* database agree for every state on the server that has it, and both know
\* its port, also after servers were restarted or failed to start. Exactly
\* the planned servers exist, unless a start failed: what a failed command
\* launched is in no plan, down does not stop it, and Envoy's route map has
\* it. Such a server takes a shard only from one that was launched before it
\* (and so was itself left over when it was planned again).
RoutesAgree ==
    Quiet /\ ~making.failed =>
        /\ managed = Planned(configs)
        /\ startFailures = 0 => {s \in Replica : launched[s].state # "none"} = managed
        /\ configs > 0 => \A h \in Hash :
            LET s == server_index_for_shard(shard_for_actor(h), known[Local].n)
            IN /\ known[Local].n = configs
               /\ GetShardForHash(h) = shard_for_actor(h)
               /\ DOMAIN routeMap = Shard
               /\ LET e == compute_server_id(h, routeMap)
                  IN e = s \/ (e \notin managed /\ launched[e].at > launched[s].at)
               /\ routes[s] = launched[s].port /\ known[Local].address[s] = launched[s].port

\* A shard that moves when the number of servers doubles moves to a new server.
ScalingStable ==
    \A n \in 1..NumShards : NumShards % (2 * n) = 0 =>
        \A i \in Shard : server_index_for_shard(i, 2 * n) \in
                            {server_index_for_shard(i, n)} \cup n .. 2 * n - 1

\* A client never goes back to an older plan, whatever breaks.
PlansAdvance ==
    [][\A c \in PlanClient :
          known'[c] = NoPlan \/ known'[c].version >= known[c].version]_placementVars

\* What the callers of a placement client rely on.
PlacementSound == [](RoutesAgree /\ ScalingStable) /\ PlansAdvance
=============================================================================
