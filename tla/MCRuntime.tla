----------------------------- MODULE MCRuntime -----------------------------
(***************************************************************************)
(* Safety of the parts of the runtime that share no variable, side by      *)
(* side: each behaviour is one of the part named by `active`, while the    *)
(* others keep an initial state.                                           *)
(***************************************************************************)
EXTENDS MonotonicClock, TaskDispatch, SiblingDeadlock, StateLoading, Workflow,
        IdempotencyManager, OAuthSignIn, Placement, OrderedMap, TLC

VARIABLE active

runtimeVars == <<active, clockVars, taskVars, siblingVars,
                 loadingVars, workflowVars, managerVars, oauthVars, placementVars,
                 orderedMapVars>>

\* C and D are started by B; A and B by the method of the root.
MCUp == [n \in Node |-> IF n \in {"C", "D"} THEN "B" ELSE "root"]
MCWants == [n \in Node |-> IF n = "B" THEN {} ELSE State]

\* A reader, a writer and a constructor of one state.
MCKind == "r" :> "reader" @@ "w" :> "writer" @@ "k" :> "constructor"

\* A call of each kind of idempotency, two with keys.
MCHow ==
    "w" :> "bare" @@ "i" :> "iteration" @@ "k1" :> "key" @@ "k2" :> "key"
    @@ "n" :> "none" @@ "v" :> "always"
MCTarget == [c \in CallSite |-> [method |-> c, request |-> "r"]]

\* Two tabs of a browser and a client that registered itself.
MCFlowKind == "f1" :> "browser" @@ "f2" :> "registered" @@ "f3" :> "browser"

RuntimeInit ==
    /\ active \in {"clock", "tasks", "siblings", "loading", "workflow",
                   "manager", "oauth", "placement", "map"}
    /\ ClockInit /\ TaskInit /\ SiblingInit
    /\ LoadingInit /\ WorkflowInit /\ ManagerInit /\ OAuthInit /\ PlacementInit
    /\ OrderedMapInit
    /\ active # "loading" => stored = Missing /\ recovered_tx = "none"
    /\ active # "workflow" => style = "at_least_once"
    /\ active # "manager" => ~workflow

\* Only the active part moves.
Still(part, partVars) == active # part => UNCHANGED partVars

RuntimeNext ==
    /\ \/ active = "clock" /\ ClockNext
       \/ active = "tasks" /\ TaskNext
       \/ active = "siblings" /\ SiblingNext
       \/ active = "loading" /\ LoadingNext
       \/ active = "workflow" /\ WorkflowNext
       \/ active = "manager" /\ ManagerNext
       \/ active = "oauth" /\ OAuthNext
       \/ active = "placement" /\ PlacementNext
       \/ active = "map" /\ OrderedMapNext
    /\ UNCHANGED active
    /\ Still("clock", clockVars) /\ Still("tasks", taskVars)
    /\ Still("siblings", siblingVars) /\ Still("loading", loadingVars)
    /\ Still("workflow", workflowVars) /\ Still("manager", managerVars)
    /\ Still("oauth", oauthVars) /\ Still("placement", placementVars)
    /\ Still("map", orderedMapVars)

RuntimeSpec == RuntimeInit /\ [][RuntimeNext]_runtimeVars

\* Every variable has its type; the parts at rest are in an initial state,
\* which is looked at when they are the active one.
RuntimeTypeOK ==
    CASE active = "clock" -> ClockTypeOK
      [] active = "tasks" -> TaskTypeOK
      [] active = "siblings" -> SiblingTypeOK
      [] active = "loading" -> LoadingTypeOK
      [] active = "workflow" -> WorkflowTypeOK
      [] active = "manager" -> ManagerTypeOK
      [] active = "oauth" -> OAuthTypeOK
      [] active = "placement" -> PlacementTypeOK
      [] active = "map" -> OrderedMapTypeOK
=============================================================================
