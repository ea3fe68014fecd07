---------------------------- MODULE Concurrently ----------------------------
(***************************************************************************)
(* One iteration of `concurrently`: a generator that keeps up to a limit   *)
(* of tasks in flight, yields their results as they complete, adapts the   *)
(* limit to their latency, and cancels what is left when it ends early.    *)
(***************************************************************************)
EXTENDS Integers, FiniteSets

CONSTANTS
    Item,               \* what the source yields
    MaxLimit,           \* the limit given by the caller
    InitialLimit,       \* DEFAULT_INITIAL_LIMIT
    MinLimit,           \* min_limit
    MinWindowSamples,   \* DEFAULT_MIN_WINDOW_SAMPLES
    Scale,              \* bound: the limit is a float, kept in 1/Scale
    ReturnExceptions

ASSUME ConcurrentlyAssumption ==
    /\ {MaxLimit, InitialLimit, MinLimit, MinWindowSamples, Scale}
          \subseteq Nat \ {0}
    /\ MinLimit <= MaxLimit
    /\ ReturnExceptions \in BOOLEAN

VARIABLES
    source,         \* items the source has not given yet
    exhausted,
    run_of,         \* the task of each item
    pending,        \* items with a task in the set `pending`
    batch,          \* rest of the set `done` that asyncio.wait returned
    generator,      \* where the generator is
    limit_of,       \* _limit, in 1/Scale
    samples,        \* Len(_window_samples)
    baseline,       \* _long_rtt is not None
    yielded         \* history: items whose result the caller was given

concurrentlyVars == <<source, exhausted, run_of, pending, batch, generator,
                      limit_of, samples, baseline, yielded>>

ConcurrentlyTypeOK ==
    /\ source \subseteq Item /\ exhausted \in BOOLEAN
    /\ run_of \in [Item -> {"none", "running", "result", "error", "cancelled"}]
    /\ pending \subseteq Item /\ batch \subseteq pending
    /\ generator \in {"fill", "wait", "next", "caller", "closing", "closed",
                      "returned"}
    /\ limit_of \in (MinLimit * Scale)..(MaxLimit * Scale)
    /\ samples \in 0..(MinWindowSamples - 1) /\ baseline \in BOOLEAN
    /\ yielded \subseteq Item

Lesser(a, b) == IF a < b THEN a ELSE b
Greater(a, b) == IF a > b THEN a ELSE b
Clamp(l) == Greater(MinLimit * Scale, Lesser(MaxLimit * Scale, l))

ConcurrentlyInit ==
    /\ source = Item /\ exhausted = FALSE
    /\ run_of = [i \in Item |-> "none"]
    /\ pending = {} /\ batch = {} /\ generator = "fill"
    /\ limit_of = Clamp(InitialLimit * Scale)
    /\ samples = 0 /\ baseline = FALSE
    /\ yielded = {}

----------------------------------------------------------------------------
\* Python rounds halves to the even neighbour.
RoundHalfEven(l) ==
    LET q == l \div Scale
        r == 2 * (l % Scale)
    IN  IF r > Scale \/ (r = Scale /\ q % 2 = 1) THEN q + 1 ELSE q

effective_limit == RoundHalfEven(limit_of)

\* Mutant: the limit grows past the caller's.
MutUpdatedLimits ==
    {Greater(MinLimit * Scale, l) : l \in ((7 * limit_of) \div 8)..((5 * limit_of) \div 4)}

\* The limits that a window may lead to: gradient in [1/2, 1], growth 1/2,
\* smoothing 1/2, that is a factor from 7/8 to 5/4.
UpdatedLimits == {Clamp(l) : l \in ((7 * limit_of) \div 8)..((5 * limit_of) \div 4)}

on_sample ==
    IF samples + 1 < MinWindowSamples
    THEN samples' = samples + 1 /\ UNCHANGED <<limit_of, baseline>>
    ELSE /\ samples' = 0 /\ baseline' = TRUE
         /\ IF baseline THEN limit_of' \in UpdatedLimits ELSE UNCHANGED limit_of

----------------------------------------------------------------------------
MutHasRoom == Cardinality({i \in pending : run_of[i] = "running"}) < effective_limit
HasRoom == Cardinality(pending) < effective_limit

\* fill: one more item of the source, or the source is exhausted ...
Fill(i) ==
    /\ generator = "fill" /\ HasRoom /\ ~exhausted
    /\ i \in source
    /\ source' = source \ {i}
    /\ run_of' = [run_of EXCEPT ![i] = "running"]
    /\ pending' = pending \cup {i}
    /\ UNCHANGED <<exhausted, batch, generator, limit_of, samples, baseline,
                   yielded>>

Exhaust ==
    /\ generator = "fill" /\ HasRoom /\ ~exhausted
    /\ source = {}
    /\ exhausted' = TRUE
    /\ UNCHANGED <<source, run_of, pending, batch, generator, limit_of, samples,
                   baseline, yielded>>

\* ... or the source raises, which ends the generator.
SourceRaises ==
    /\ generator = "fill" /\ HasRoom /\ ~exhausted
    /\ generator' = "closing"
    /\ UNCHANGED <<source, exhausted, run_of, pending, batch, limit_of, samples,
                   baseline, yielded>>

MutFilled ==
    /\ generator = "fill" /\ ~HasRoom
    /\ generator' = IF batch # {} THEN "next"
                    ELSE IF pending # {} THEN "wait" ELSE "returned"
    /\ UNCHANGED <<source, exhausted, run_of, pending, batch, limit_of, samples,
                   baseline, yielded>>

\* fill returns: on with the tasks that were found done, or wait for some.
Filled ==
    /\ generator = "fill" /\ (~HasRoom \/ exhausted)
    /\ generator' = IF batch # {} THEN "next"
                    ELSE IF pending # {} THEN "wait" ELSE "returned"
    /\ UNCHANGED <<source, exhausted, run_of, pending, batch, limit_of, samples,
                   baseline, yielded>>

TaskEnds(i) ==
    /\ run_of[i] = "running"
    /\ \E o \in {"result", "error"} \cup
                (IF generator = "closing" THEN {"cancelled"} ELSE {}) :
          run_of' = [run_of EXCEPT ![i] = o]
    /\ UNCHANGED <<source, exhausted, pending, batch, generator, limit_of,
                   samples, baseline, yielded>>

\* asyncio.wait returns with every task that is done by then.
WaitReturns ==
    LET done == {i \in pending : run_of[i] # "running"} IN
    /\ generator = "wait" /\ done # {}
    /\ batch' = done
    /\ generator' = "next"
    /\ UNCHANGED <<source, exhausted, run_of, pending, limit_of, samples,
                   baseline, yielded>>

\* The next task of the batch is a sample for the limiter; its result is
\* yielded, or its exception raised.
YieldNext(i) ==
    /\ generator = "next" /\ i \in batch
    /\ batch' = batch \ {i} /\ pending' = pending \ {i}
    /\ on_sample
    /\ IF run_of[i] = "error" /\ ~ReturnExceptions
       THEN generator' = "closing" /\ UNCHANGED yielded
       ELSE generator' = "caller" /\ yielded' = yielded \cup {i}
    /\ UNCHANGED <<source, exhausted, run_of>>

\* The caller's loop body comes back for more, or it stops iterating.
CallerContinues ==
    /\ generator = "caller"
    /\ generator' = "fill"
    /\ UNCHANGED <<source, exhausted, run_of, pending, batch, limit_of, samples,
                   baseline, yielded>>

CallerStops ==
    /\ generator \in {"fill", "wait", "caller"}
    /\ generator' = "closing"
    /\ UNCHANGED <<source, exhausted, run_of, pending, batch, limit_of, samples,
                   baseline, yielded>>

\* The finally clause: what is pending is cancelled, and waited for.
MutClosed ==
    /\ generator = "closing"
    /\ generator' = "closed"
    /\ UNCHANGED <<source, exhausted, run_of, pending, batch, limit_of, samples,
                   baseline, yielded>>

Closed ==
    /\ generator = "closing"
    /\ \A i \in pending : run_of[i] # "running"
    /\ generator' = "closed"
    /\ UNCHANGED <<source, exhausted, run_of, pending, batch, limit_of, samples,
                   baseline, yielded>>

GeneratorStep ==
    \/ \E i \in Item : Fill(i) \/ YieldNext(i)
    \/ Exhaust \/ Filled \/ WaitReturns \/ CallerContinues \/ Closed

ConcurrentlyNext ==
    \/ GeneratorStep \/ SourceRaises \/ CallerStops
    \/ \E i \in Item : TaskEnds(i)

ConcurrentlySpec ==
    ConcurrentlyInit /\ [][ConcurrentlyNext]_concurrentlyVars

----------------------------------------------------------------------------
\* However slow the caller's loop body, and whatever the limiter does, the
\* tasks that run plus the results not yet handed over stay within the
\* caller's limit (one more for the result that an exception discards).
InFlightBounded ==
    Cardinality({i \in Item : run_of[i] # "none"} \ yielded) <=
        MaxLimit + (IF generator \in {"closing", "closed"} THEN 1 ELSE 0)

\* A generator that is done has left nothing running, and one that returned
\* normally has yielded the result of every item exactly when it completed.
NothingLeftBehind ==
    /\ generator \in {"closed", "returned"} =>
          \A i \in Item : run_of[i] # "running"
    /\ generator = "returned" => yielded = Item

\* Tasks that end, a source that keeps giving and a caller that keeps coming
\* back are enough: the generator gets to an end, however far the limiter
\* reduced the limit.
GeneratorEnds ==
    source # Item ~> generator \in {"closed", "returned"}

\* The generator of concurrently() stays within its bound and cleans up.
GeneratorSound == InFlightBounded /\ NothingLeftBehind

==============================================================================
