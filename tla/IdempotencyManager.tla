------------------------- MODULE IdempotencyManager -------------------------
(***************************************************************************)
(* The IdempotencyManager of a context (idempotency.py). It hands a call   *)
(* its idempotency key, remembers which RPC each key stands for, and       *)
(* refuses mutations while it is uncertain whether an earlier one happened.*)
(* Two kinds of context use it: one outside workflows, whose code may call *)
(* without idempotency, and a workflow, where idempotency is required and  *)
(* which restores one checkpoint before every iteration of its control     *)
(* loop (`SidecarStateManager.task_workflow`).                             *)
(*                                                                         *)
(* `checkpoint` copies the dictionaries of the manager and `restore` does  *)
(* not, so after a restore the manager writes into the checkpoint itself:  *)
(* `aliased` says that the two are one.                                    *)
(***************************************************************************)
EXTENDS Naturals, FiniteSets, Functions

CONSTANTS
    Branch,        \* concurrent calls the context may have under way
    CallSite,      \* calls in the code of the context
    How,           \* How[c]: "none", "bare", "alias", "key", "always", or "iteration"
    Target,        \* Target[c]: what the call reads as: state, method and request
    LastLoop,      \* the last iteration of the loop
    MaxCalls,      \* bound on calls within one iteration
    NoCallSite

ASSUME ManagerAssumption ==
    /\ How \in [CallSite -> {"none", "bare", "alias", "key", "always", "iteration"}]
    /\ LastLoop \in Nat /\ MaxCalls \in Nat /\ NoCallSite \notin CallSite

VARIABLES
    workflow,   \* the context is a WorkflowContext: _required, with a _seed
    controlLoop,\* the iteration of the control loop
    rpcs,       \* _rpcs: the target each idempotency key stands for
    checkpoint, \* the rpcs of the checkpoint of the control loop
    aliased,    \* the manager's dictionaries are those of the checkpoint
    bare,       \* _mutations_without_idempotency
    uncertain,  \* the call that left a mutation uncertain, or NoCallSite
    underway,   \* calls that were let through and have not ended
    refusal,    \* why the last call was refused
    called,     \* history: call sites called in this iteration
    doubt,      \* history: mutations whose fate is unknown, not acknowledged
    calls       \* number of calls in this iteration

managerVars == <<workflow, controlLoop, rpcs, checkpoint, aliased, bare, uncertain, underway,
                 refusal, called, doubt, calls>>

----------------------------------------------------------------------------
\* `_get_or_create_idempotency_key`. A bare call, or one with an alias, has a
\* key of its method and state; `per_iteration` adds the iteration to it.
\* Explicit keys are the same whatever they are used for.
Key(c) ==
    CASE How[c] = "key"       -> <<"key">>
      [] How[c] = "iteration" -> <<Target[c].method, controlLoop>>
      [] How[c] = "alias"     -> <<Target[c].method, "alias">>
      [] OTHER                -> <<Target[c].method>>

\* `Idempotency.generate`: neither alias nor key was given.
Generate(c) == How[c] \in {"bare", "iteration"}

\* The reasons for which `_idempotency_key_from` raises a ValueError.
Reused(c) == Key(c) \in DOMAIN rpcs /\ Generate(c)
\* Mutant: only the request is compared.
MutUnsafe(c) == Key(c) \in DOMAIN rpcs /\ rpcs[Key(c)].request # Target[c].request

Unsafe(c) == Key(c) \in DOMAIN rpcs /\ rpcs[Key(c)] # Target[c]

\* The RPC is recorded with its key the first time the key is used.
Record(c) ==
    IF Key(c) \in DOMAIN rpcs THEN rpcs
    ELSE [k \in DOMAIN rpcs \cup {Key(c)} |-> IF k = Key(c) THEN Target[c] ELSE rpcs[k]]

ManagerInit ==
    /\ workflow \in BOOLEAN /\ controlLoop = 0
    /\ rpcs = <<>> /\ checkpoint = <<>> /\ aliased = FALSE
    /\ bare = FALSE /\ uncertain = NoCallSite
    /\ underway = [w \in Branch |-> NoCallSite] /\ refusal = "none"
    /\ called = {} /\ doubt = {} /\ calls = 0

----------------------------------------------------------------------------
Begins(w, c) ==
    /\ underway[w] = NoCallSite /\ calls < MaxCalls
    /\ calls' = calls + 1
    /\ called' = called \cup {c}
    /\ UNCHANGED <<workflow, controlLoop>>

\* `.always()` opts out: no key, nothing tracked.
CallAlways(w, c) ==
    /\ Begins(w, c) /\ How[c] = "always"
    /\ refusal' = "none"
    /\ UNCHANGED <<rpcs, checkpoint, aliased, bare, uncertain, underway, doubt>>

\* IdempotencyRequiredError.
CallRequired(w, c) ==
    /\ Begins(w, c) /\ How[c] = "none" /\ workflow
    /\ refusal' = "required"
    /\ UNCHANGED <<rpcs, checkpoint, aliased, bare, uncertain, underway, doubt>>

\* Mutant: the uncertainty is not looked at.
MutLetThrough(c) == ~(How[c] = "none" /\ workflow) /\ How[c] # "always"

\* The call is a mutation that gets past the first two returns and is not
\* refused with an IdempotencyUncertainError.
LetThrough(c) ==
    /\ ~(How[c] = "none" /\ workflow) /\ How[c] # "always"
    /\ uncertain = NoCallSite

\* A mutation after one whose fate is uncertain.
CallUncertain(w, c) ==
    /\ Begins(w, c) /\ How[c] # "always" /\ ~(How[c] = "none" /\ workflow)
    /\ ~LetThrough(c)
    /\ refusal' = "uncertain"
    /\ bare' = (bare \/ How[c] = "none")
    /\ UNCHANGED <<rpcs, checkpoint, aliased, uncertain, underway, doubt>>

\* `idempotently` up to its yield, without idempotency.
CallBare(w, c) ==
    /\ Begins(w, c) /\ How[c] = "none" /\ LetThrough(c)
    /\ bare' = TRUE /\ refusal' = "none"
    /\ underway' = [underway EXCEPT ![w] = c]
    /\ UNCHANGED <<rpcs, checkpoint, aliased, uncertain, doubt>>

\* `idempotently` up to its yield, with idempotency.
CallKeyed(w, c) ==
    /\ Begins(w, c) /\ How[c] # "none" /\ LetThrough(c)
    /\ ~Reused(c) /\ ~Unsafe(c)
    /\ rpcs' = Record(c)
    /\ checkpoint' = IF aliased THEN Record(c) ELSE checkpoint
    /\ refusal' = "none"
    /\ underway' = [underway EXCEPT ![w] = c]
    /\ UNCHANGED <<aliased, bare, uncertain, doubt>>

\* The failure of the mutation is one the manager is uncertain about: the
\* first such failure after a mutation without idempotency is kept.
\* Mutant: a later failure replaces the one that was kept.
MutDoubted(c) == IF bare THEN c ELSE uncertain

Doubted(c) == IF bare /\ uncertain = NoCallSite THEN c ELSE uncertain

\* `_idempotency_key_from` raises within the try block, so the handler runs
\* for an exception that no backend sent.
CallReused(w, c) ==
    /\ Begins(w, c) /\ How[c] # "none" /\ LetThrough(c)
    /\ Reused(c) \/ Unsafe(c)
    /\ refusal' = IF Reused(c) THEN "reused" ELSE "unsafe"
    /\ uncertain' = Doubted(c)
    /\ doubt' = IF bare THEN doubt \cup {c} ELSE doubt
    /\ UNCHANGED <<rpcs, checkpoint, aliased, bare, underway>>

CallEnds(w) ==
    /\ underway[w] # NoCallSite
    /\ underway' = [underway EXCEPT ![w] = NoCallSite]
    /\ UNCHANGED <<workflow, controlLoop, rpcs, checkpoint, aliased, bare, refusal, called, calls>>

\* The call returns, or fails with an error that the backend sent.
CallReturns(w) == CallEnds(w) /\ UNCHANGED <<uncertain, doubt>>

\* The call fails in a way that leaves open whether the mutation happened.
CallFails(w) ==
    /\ CallEnds(w)
    /\ uncertain' = Doubted(underway[w])
    /\ doubt' = IF bare THEN doubt \cup {underway[w]} ELSE doubt

acknowledge_idempotency_uncertainty ==
    /\ uncertain # NoCallSite
    /\ uncertain' = NoCallSite /\ doubt' = {} /\ refusal' = "none"
    /\ UNCHANGED <<workflow, controlLoop, rpcs, checkpoint, aliased, bare, underway, called, calls>>

\* `reset`, before a method is run again from scratch: to validate its
\* effects, or because its initialization is retried.
reset ==
    /\ \A w \in Branch : underway[w] = NoCallSite
    /\ calls > 0
    /\ rpcs' = <<>> /\ bare' = FALSE /\ uncertain' = NoCallSite
    /\ aliased' = FALSE /\ checkpoint' = <<>>
    /\ called' = {} /\ doubt' = {} /\ calls' = 0 /\ refusal' = "none"
    /\ UNCHANGED <<workflow, controlLoop, underway>>

\* Mutant: only the flags are restored.
MutRestore ==
    /\ rpcs' = rpcs /\ aliased' = aliased /\ UNCHANGED checkpoint

\* `restore` makes the dictionaries of the checkpoint those of the manager.
Restore ==
    /\ rpcs' = checkpoint /\ aliased' = TRUE /\ UNCHANGED checkpoint

\* The control loop goes on to its next iteration.
RestoreForIteration ==
    /\ workflow /\ controlLoop < LastLoop
    /\ \A w \in Branch : underway[w] = NoCallSite
    /\ Restore
    /\ bare' = FALSE /\ uncertain' = NoCallSite
    /\ controlLoop' = controlLoop + 1 /\ called' = {} /\ doubt' = {}
    /\ calls' = 0 /\ refusal' = "none"
    /\ UNCHANGED <<workflow, underway>>

ManagerNext ==
    \/ \E w \in Branch, c \in CallSite :
        CallAlways(w, c) \/ CallRequired(w, c) \/ CallUncertain(w, c)
        \/ CallBare(w, c) \/ CallKeyed(w, c) \/ CallReused(w, c)
    \/ \E w \in Branch : CallReturns(w) \/ CallFails(w)
    \/ acknowledge_idempotency_uncertainty \/ reset \/ RestoreForIteration

ManagerSpec == ManagerInit /\ [][ManagerNext]_managerVars

----------------------------------------------------------------------------
ManagerTypeOK ==
    /\ workflow \in BOOLEAN /\ aliased \in BOOLEAN /\ bare \in BOOLEAN
    /\ controlLoop \in 0..LastLoop /\ calls \in 0..MaxCalls
    /\ Range(rpcs) \cup Range(checkpoint) \subseteq Range(Target)
    /\ uncertain \in CallSite \cup {NoCallSite}
    /\ underway \in [Branch -> CallSite \cup {NoCallSite}]
    /\ refusal \in {"none", "required", "uncertain", "reused", "unsafe"}
    /\ called \subseteq CallSite /\ doubt \subseteq CallSite

\* Two calls under way that carry one idempotency key are one RPC: the same
\* method of the same state with the same request (`_idempotency_key_from`
\* refuses to reuse a key unsafely, whichever of the two came first).
KeySafe(v, w) ==
    LET c == underway[v]  d == underway[w] IN
    (NoCallSite \notin {c, d} /\ "none" \notin {How[c], How[d]} /\ Key(c) = Key(d))
        => Target[c] = Target[d]

\* A call without alias or key is refused only if a call with its key was
\* made in the same iteration: the control loop restores its checkpoint "so
\* that each new loop iteration we allow empty calls".
RefusalsDeserved ==
    calls' = calls + 1 /\ refusal' = "reused"
        => \A c \in called' \ called : \E d \in called : Key(d) = Key(c)

\* While the fate of a mutation is in doubt no other mutation is sent, and
\* the first of the mutations that failed is the one that is reported.
UncertaintyKept ==
    doubt # {} /\ doubt' # {} =>
        /\ uncertain' = uncertain
        /\ \A w \in Branch : underway'[w] \in {underway[w], NoCallSite}

\* No two different RPCs under one key are under way; steps of the manager
\* keep its uncertainty, and refuse empty calls only when they deserve it,
\* up to the second iteration: from the third on the checkpoint holds the
\* calls of the iterations before.
ManagerSound ==
    /\ [](\A v, w \in Branch : KeySafe(v, w))
    /\ [][UncertaintyKept /\ (controlLoop < 2 => RefusalsDeserved)]_managerVars
=============================================================================
