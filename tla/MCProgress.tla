----------------------------- MODULE MCProgress -----------------------------
(***************************************************************************)
(* Progress of the parts of the runtime that share no variable, side by    *)
(* side: each behaviour is one of the part named by `active`, while the    *)
(* others keep an initial state. The fairness conditions speak of the      *)
(* actions of the active part only.                                        *)
(***************************************************************************)
EXTENDS RestartDetection, StateLoading, TaskDispatch, Concurrently, Reactive, Workflow,
        XdsServer, PubSub, Presence, TLC

VARIABLE active

progressVars == <<active, restartVars, loadingVars, taskVars, concurrentlyVars,
                  reactiveVars, workflowVars, xdsVars, pubsubVars, presenceVars>>

MCHomeServer == "t1" :> "s1" @@ "t2" :> "s2"
MCKind == "r" :> "reader" @@ "w" :> "writer"

\* Both dequeue from the first queue, one of them two items at a time.
MCTakesFrom == [t \in Taker |-> "q1"]
MCBulk == "d1" :> 2 @@ "d2" :> 1

ProgressInit ==
    /\ active \in {"restart", "loading", "tasks", "concurrently", "reactive", "workflow", "xds",
                   "pubsub", "presence"}
    /\ RestartInit /\ LoadingInit /\ TaskInit /\ ConcurrentlyInit /\ ReactiveInit /\ WorkflowInit
    /\ XdsInit /\ PubSubInit /\ PresenceInit
    /\ active # "loading" => stored = Missing /\ recovered_tx = "none"
    /\ active # "workflow" => style = "at_least_once"

\* Only the active part moves.
Still(part, partVars) == active # part => UNCHANGED partVars

ProgressNext ==
    /\ \/ active = "restart" /\ RestartNext
       \/ active = "loading" /\ LoadingNext
       \/ active = "tasks" /\ TaskNext
       \/ active = "concurrently" /\ ConcurrentlyNext
       \/ active = "reactive" /\ ReactiveNext
       \/ active = "workflow" /\ WorkflowNext
       \/ active = "xds" /\ XdsNext
       \/ active = "pubsub" /\ PubSubNext
       \/ active = "presence" /\ PresenceNext
    /\ UNCHANGED active
    /\ Still("restart", restartVars) /\ Still("loading", loadingVars)
    /\ Still("tasks", taskVars) /\ Still("concurrently", concurrentlyVars)
    /\ Still("reactive", reactiveVars) /\ Still("workflow", workflowVars)
    /\ Still("xds", xdsVars) /\ Still("pubsub", pubsubVars)
    /\ Still("presence", presenceVars)

\* The refresh loop of each server goes on, callers retry.
RestartFairness ==
    /\ \A s \in Server : WF_restartVars(active = "restart" /\ Refresh(s))
    /\ \A t \in Txn : WF_restartVars(active = "restart" /\ RestartProgress(t))

\* Calls go on, the database answers.
LoadingFairness ==
    \A c \in Call : /\ WF_loadingVars(active = "loading" /\ LoadProgress(c))
                    /\ WF_loadingVars(active = "loading" /\ PreloadAnswers(c))

\* Loops go on; a body that is retried for ever ends at some attempt, and the
\* database does not fail for ever.
TaskFairness ==
    /\ \A t \in Task :
          /\ WF_taskVars(active = "tasks" /\ TaskProgress(t))
          /\ SF_taskVars(active = "tasks" /\ CompleteTask(t))
          /\ SF_taskVars(active = "tasks" /\ Respond(t))
          /\ SF_taskVars(active = "tasks" /\ BodyEnds(t))
    /\ \A w \in Waiter : WF_taskVars(active = "tasks" /\ WaitAnswered(w))

\* The consumer asks for the next result, every task ends.
ConcurrentlyFairness ==
    /\ WF_concurrentlyVars(active = "concurrently" /\ GeneratorStep)
    /\ \A i \in Item : WF_concurrentlyVars(active = "concurrently" /\ TaskEnds(i))

\* The event loop goes on, clients repeat an unanswered mutation.
ReactiveFairness ==
    /\ WF_reactiveVars(active = "reactive" /\ ReactiveStep)
    /\ \A k \in OfA : WF_reactiveVars(active = "reactive" /\ MutateAgain(k))

\* The dispatcher retries, calls are answered and callables return.
WorkflowFairness == WF_workflowVars(active = "workflow" /\ WorkflowStep)

\* set_config and the streams go on, the server notices that a stream broke,
\* and Envoy connects again and takes what it is sent.
XdsFairness ==
    /\ WF_xdsVars(active = "xds" /\ XdsSets)
    /\ \A s \in Stream : /\ WF_xdsVars(active = "xds" /\ StreamServes(s))
                         /\ WF_xdsVars(active = "xds" /\ (Connect(s) \/ Disconnect(s)))
                         /\ WF_xdsVars(active = "xds" /\ EnvoyTakes(s))

\* The dispatcher keeps running the workflows; `until` is run again whenever
\* the state that it read changes.
PubSubFairness ==
    /\ WF_pubsubVars(active = "pubsub" /\ BrokerNext)
    /\ \A t \in Taker : WF_pubsubVars(active = "pubsub" /\ TakerNext(t))

\* Admitted calls complete and the dispatcher keeps running the tasks;
\* nobody has to connect, to leave or to subscribe.
PresenceFairness ==
    \A n \in Nonce : /\ WF_presenceVars(active = "presence" /\ Toggle(n))
                     /\ WF_presenceVars(active = "presence" /\ DepartureNext(n))
                     /\ WF_presenceVars(active = "presence" /\ WatchNext(n))

ProgressSpec ==
    /\ ProgressInit /\ [][ProgressNext]_progressVars
    /\ RestartFairness /\ LoadingFairness /\ TaskFairness
    /\ ConcurrentlyFairness /\ ReactiveFairness /\ WorkflowFairness /\ XdsFairness
    /\ PubSubFairness /\ PresenceFairness

\* The variables of the parts that only this module has keep their types:
\* the limit of concurrently() stays between its bounds, set_config walks a
\* list without duplicates, the Broker has answers only of queues that it
\* enqueued on. The parts at rest are in an initial state.
ProgressTypeOK ==
    CASE active = "restart" -> RestartTypeOK
      [] active = "concurrently" -> ConcurrentlyTypeOK
      [] active = "reactive" -> ReactiveTypeOK
      [] active = "xds" -> XdsTypeOK
      [] active = "pubsub" -> PubSubTypeOK
      [] active = "presence" -> PresenceTypeOK
      [] OTHER -> TRUE

\* Whatever waits for the runtime gets an answer: a call for the load of its
\* state, a caller of Wait for the task, the consumer of concurrently() for
\* the end of its iteration, set_config for the clients it waits for (unless
\* their listeners are withheld); a workflow that is retried ends, a
\* configuration reaches Envoy, messages reach those who dequeue, and a
\* subscriber that everyone left is removed.
WorkEnds ==
    /\ LoadsEnd /\ WaitsEnd /\ GeneratorEnds /\ WorkflowEnds /\ ConfigReturns /\ ConfigReaches
    /\ MessagesArrive /\ PresenceSettles

=============================================================================
