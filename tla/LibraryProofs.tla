--------------------------- MODULE LibraryProofs ---------------------------
(***************************************************************************)
(* Proofs about the libraries: concurrently(), presence, pub/sub over      *)
(* queues, and sign-in. Each has an inductive invariant of its own, which  *)
(* says what the property leaves out: where each item of the generator is  *)
(* and so which tasks are in flight, which of a client's records there are *)
(* in each phase of its connection, what the Broker has sliced or memoized *)
(* in each phase of its loop, and what is known of the user of a flow      *)
(* before its cookies are set.                                             *)
(***************************************************************************)
EXTENDS Concurrently, Presence, PubSub, OAuthSignIn, FiniteSetTheorems, SequenceTheorems, TLAPS

-----------------------------------------------------------------------------
(* The generator of concurrently().                                        *)

\* Multiplication by a natural is monotone.
LEMMA Product ==
    ASSUME NEW s \in Nat, NEW a \in Int, NEW b \in Int, a <= b
    PROVE  s * a \in Int /\ s * b \in Int /\ s * a <= s * b
<1>1. PICK d \in Nat : b = a + d
  BY b - a \in Nat
<1>2. s * b = s * a + s * d
  BY <1>1
<1>3. s * d \in Nat /\ s * a \in Int
  OBVIOUS
<1> QED
  BY <1>2, <1>3

\* The limit in whole tasks is at least one and at most what the caller set.
LEMMA Rounded ==
    ASSUME NEW l \in (MinLimit * Scale)..(MaxLimit * Scale)
    PROVE  RoundHalfEven(l) \in 1..MaxLimit
<1> DEFINE q == l \div Scale
           r == l % Scale
<1>0. /\ MinLimit \in Nat /\ MinLimit >= 1 /\ MaxLimit \in Nat /\ Scale \in Nat
      /\ Scale >= 1
  BY ConcurrentlyAssumption
<1>1. /\ Scale * MinLimit = MinLimit * Scale /\ Scale * MaxLimit = MaxLimit * Scale
      /\ Scale * MinLimit \in Nat /\ Scale * MaxLimit \in Nat
  BY <1>0
<1>2. l \in Int /\ Scale * MinLimit <= l /\ l <= Scale * MaxLimit
  BY <1>1
<1>3. /\ q \in Int /\ r \in Int /\ 0 <= r /\ r < Scale
      /\ l = Scale * q + r
  BY <1>0, <1>2
<1>4. RoundHalfEven(l) \in {q, q + 1} /\ (r = 0 => RoundHalfEven(l) = q)
  BY <1>0, <1>3 DEF RoundHalfEven
<1> HIDE DEF q, r
<1>5. q >= 1
  <2> SUFFICES ASSUME q <= 0 PROVE FALSE
    BY <1>3
  <2>1. Scale * q <= Scale * 0 /\ Scale * q \in Int
    BY <1>0, <1>3, Product
  <2>2. Scale * 1 <= Scale * MinLimit
    BY <1>0, Product
  <2>3. Scale * 0 = 0 /\ Scale * 1 = Scale
    BY <1>0
  <2> QED
    BY <1>0, <1>1, <1>2, <1>3, <2>1, <2>2, <2>3
<1>6. q <= MaxLimit
  <2> SUFFICES ASSUME MaxLimit + 1 <= q PROVE FALSE
    BY <1>0, <1>3
  <2>1. Scale * (MaxLimit + 1) <= Scale * q /\ Scale * q \in Int
    BY <1>0, <1>3, Product
  <2>2. Scale * (MaxLimit + 1) = Scale * MaxLimit + Scale
    BY <1>0
  <2> QED
    BY <1>0, <1>1, <1>2, <1>3, <2>1, <2>2
<1>7. q = MaxLimit => r = 0
  <2> SUFFICES ASSUME q = MaxLimit PROVE r <= 0
    BY <1>3
  <2>1. Scale * q = Scale * MaxLimit
    OBVIOUS
  <2> QED
    BY <1>1, <1>2, <1>3, <2>1
<1> QED
  BY <1>0, <1>3, <1>4, <1>5, <1>6, <1>7

\* The limiter keeps the limit in its range.
LEMMA Clamped ==
    ASSUME NEW l \in Int
    PROVE  Clamp(l) \in (MinLimit * Scale)..(MaxLimit * Scale)
<1>1. /\ MinLimit \in Nat /\ MaxLimit \in Nat /\ Scale \in Nat
      /\ MinLimit <= MaxLimit
  BY ConcurrentlyAssumption
<1>2. Scale * MinLimit <= Scale * MaxLimit
  BY <1>1, Product
<1>3. PICK a \in Nat, b \in Nat : a = MinLimit * Scale /\ b = MaxLimit * Scale /\ a <= b
  BY <1>1, <1>2
<1> QED
  BY <1>3 DEF Clamp, Greater, Lesser

\* The items with a task whose result was not handed over.
Flight == {i \in Item : run_of[i] # "none"} \ yielded

\* A task that runs is pending, one that was found done does not run, and the
\* source gave the items that have tasks.
TasksOK ==
    /\ \A i \in Item : (run_of[i] = "none" <=> i \in source)
                       /\ (run_of[i] = "running" => i \in pending)
    /\ \A i \in batch : run_of[i] # "running"
    /\ \A i \in yielded : run_of[i] \notin {"none", "running"}
    /\ exhausted => source = {}

\* The pending tasks are within the limit and the only ones in flight, save
\* the one whose exception ended the generator.
FlightOK ==
    /\ IsFiniteSet(pending) /\ Cardinality(pending) <= MaxLimit
    /\ pending \subseteq Flight
    /\ IF generator \in {"closing", "closed"}
       THEN \A i, j \in Flight \ pending : i = j ELSE Flight = pending

EndOK ==
    /\ generator = "returned" => exhausted /\ pending = {}
    /\ generator = "closed" => \A i \in pending : run_of[i] # "running"

ConcurrentlyInv == ConcurrentlyTypeOK /\ TasksOK /\ FlightOK /\ EndOK

\* The invariant holds initially.
LEMMA ConcurrentlyStart == ConcurrentlyInit => ConcurrentlyInv
<1> SUFFICES ASSUME ConcurrentlyInit PROVE ConcurrentlyInv
  OBVIOUS
<1>1. limit_of \in (MinLimit * Scale)..(MaxLimit * Scale)
  <2>1. InitialLimit * Scale \in Int
    BY ConcurrentlyAssumption
  <2> QED
    BY <2>1, Clamped DEF ConcurrentlyInit
<1>2. 0 \in 0..(MinWindowSamples - 1) /\ MaxLimit \in Nat
  BY ConcurrentlyAssumption
<1>3. ConcurrentlyTypeOK /\ TasksOK /\ EndOK
  BY <1>1, <1>2 DEF ConcurrentlyInit, ConcurrentlyTypeOK, TasksOK, EndOK
<1>4. FlightOK
  <2>1. IsFiniteSet({}) /\ Cardinality({}) = 0
    BY FS_EmptySet
  <2> QED
    BY <1>2, <2>1 DEF ConcurrentlyInit, FlightOK, Flight
<1> QED
  BY <1>3, <1>4 DEF ConcurrentlyInv

\* `fill`, one item at a time, keeps the invariant.
LEMMA FillKeeps ==
    ASSUME ConcurrentlyInv, NEW i \in Item, Fill(i)
    PROVE  ConcurrentlyInv'
<1>0. MaxLimit \in Nat
  BY ConcurrentlyAssumption
<1>1. /\ UNCHANGED <<exhausted, batch, generator, limit_of, samples, baseline, yielded>>
      /\ source' = source \ {i} /\ pending' = pending \cup {i} /\ i \in source
      /\ generator = "fill" /\ ~exhausted
  BY DEF Fill
<1>2. /\ run_of' \in [Item -> {"none", "running", "result", "error", "cancelled"}]
      /\ \A j \in Item : run_of'[j] = IF j = i THEN "running" ELSE run_of[j]
  BY DEF Fill, ConcurrentlyInv, ConcurrentlyTypeOK
<1>3. ConcurrentlyTypeOK'
  BY <1>1, <1>2 DEF ConcurrentlyInv, ConcurrentlyTypeOK
<1>4. run_of[i] = "none" /\ i \notin yielded /\ i \notin batch
  BY <1>1 DEF ConcurrentlyInv, TasksOK, FlightOK, Flight, ConcurrentlyTypeOK
<1>5. i \notin pending /\ Flight = pending
  BY <1>1, <1>4 DEF ConcurrentlyInv, FlightOK, Flight
<1>6. TasksOK'
  BY <1>1, <1>2, <1>4 DEF ConcurrentlyInv, TasksOK, ConcurrentlyTypeOK
<1>7. Flight' = pending'
  BY <1>1, <1>2, <1>4, <1>5 DEF Flight
<1>8. IsFiniteSet(pending') /\ Cardinality(pending') <= MaxLimit
  <2>1. /\ IsFiniteSet(pending \cup {i})
        /\ Cardinality(pending \cup {i}) = Cardinality(pending) + 1
        /\ Cardinality(pending) \in Nat
    BY <1>5, FS_AddElement, FS_CardinalityType DEF ConcurrentlyInv, FlightOK
  <2>2. effective_limit \in 1..MaxLimit /\ Cardinality(pending) < effective_limit
    BY Rounded DEF ConcurrentlyInv, ConcurrentlyTypeOK, effective_limit, Fill, HasRoom
  <2> QED
    BY <1>0, <1>1, <2>1, <2>2
<1>9. FlightOK'
  BY <1>1, <1>7, <1>8 DEF FlightOK
<1>10. EndOK'
  BY <1>1 DEF EndOK
<1> QED
  BY <1>3, <1>6, <1>9, <1>10 DEF ConcurrentlyInv

\* A sample of a task's latency leaves the limit in its range.
LEMMA Sampled ==
    ASSUME ConcurrentlyTypeOK, on_sample
    PROVE  /\ limit_of' \in (MinLimit * Scale)..(MaxLimit * Scale)
           /\ samples' \in 0..(MinWindowSamples - 1) /\ baseline' \in BOOLEAN
<1>1. MinWindowSamples \in Nat \ {0}
  BY ConcurrentlyAssumption
<1>2. samples' \in 0..(MinWindowSamples - 1) /\ baseline' \in BOOLEAN
  <2>1. samples' \in 0..(MinWindowSamples - 1)
    BY <1>1 DEF ConcurrentlyTypeOK, on_sample
  <2>2. baseline' = TRUE \/ baseline' = baseline
    BY DEF on_sample
  <2> QED
    BY <2>1, <2>2 DEF ConcurrentlyTypeOK
<1>3. \A x \in UpdatedLimits : x \in (MinLimit * Scale)..(MaxLimit * Scale)
  <2>1. \A l \in ((7 * limit_of) \div 8)..((5 * limit_of) \div 4) : l \in Int
    OBVIOUS
  <2> QED
    BY <2>1, Clamped DEF UpdatedLimits
<1>4. limit_of' = limit_of \/ limit_of' \in UpdatedLimits
  BY DEF on_sample
<1>5. limit_of' \in (MinLimit * Scale)..(MaxLimit * Scale)
  BY <1>3, <1>4 DEF ConcurrentlyTypeOK
<1> QED
  BY <1>2, <1>5

\* Yielding an item keeps the invariant.
LEMMA YieldKeeps ==
    ASSUME ConcurrentlyInv, NEW i \in Item, YieldNext(i)
    PROVE  ConcurrentlyInv'
<1>0. MaxLimit \in Nat
  BY ConcurrentlyAssumption
<1>1. /\ UNCHANGED <<source, exhausted, run_of>> /\ i \in batch
      /\ batch' = batch \ {i} /\ pending' = pending \ {i} /\ generator = "next"
      /\ \/ generator' = "closing" /\ yielded' = yielded
         \/ generator' = "caller" /\ yielded' = yielded \cup {i}
  BY DEF YieldNext
<1>2. i \in pending /\ run_of[i] \notin {"none", "running"}
  BY <1>1 DEF ConcurrentlyInv, ConcurrentlyTypeOK, TasksOK, FlightOK, Flight
<1>3. ConcurrentlyTypeOK'
  <2>1. on_sample
    BY DEF YieldNext
  <2>2. /\ limit_of' \in (MinLimit * Scale)..(MaxLimit * Scale)
        /\ samples' \in 0..(MinWindowSamples - 1) /\ baseline' \in BOOLEAN
    BY <2>1, Sampled DEF ConcurrentlyInv
  <2> QED
    BY <1>1, <2>2 DEF ConcurrentlyInv, ConcurrentlyTypeOK
<1>4. TasksOK'
  BY <1>1, <1>2 DEF ConcurrentlyInv, ConcurrentlyTypeOK, TasksOK
<1>5. IsFiniteSet(pending') /\ Cardinality(pending') <= MaxLimit
  <2>1. /\ IsFiniteSet(pending \ {i})
        /\ Cardinality(pending \ {i}) = Cardinality(pending) - 1
        /\ Cardinality(pending) \in Nat
    BY <1>2, FS_RemoveElement, FS_CardinalityType DEF ConcurrentlyInv, FlightOK
  <2> QED
    BY <1>0, <1>1, <2>1 DEF ConcurrentlyInv, FlightOK
<1>6. Flight = pending
  BY <1>1 DEF ConcurrentlyInv, FlightOK
<1>7. FlightOK'
  <2>1. CASE generator' = "closing" /\ yielded' = yielded
    <3>1. Flight' = Flight
      BY <1>1, <2>1 DEF Flight
    <3> QED
      BY <1>1, <1>5, <1>6, <2>1, <3>1 DEF FlightOK
  <2>2. CASE generator' = "caller" /\ yielded' = yielded \cup {i}
    <3>1. Flight' = pending'
      BY <1>1, <1>6, <2>2 DEF Flight
    <3> QED
      BY <1>5, <2>2, <3>1 DEF FlightOK
  <2> QED
    BY <1>1, <2>1, <2>2
<1>8. EndOK'
  BY <1>1 DEF EndOK
<1> QED
  BY <1>3, <1>4, <1>7, <1>8 DEF ConcurrentlyInv

\* A task that ends keeps the invariant.
LEMMA TaskEndsKeeps ==
    ASSUME ConcurrentlyInv, NEW i \in Item, TaskEnds(i)
    PROVE  ConcurrentlyInv'
<1>1. /\ UNCHANGED <<source, exhausted, pending, batch, generator, limit_of,
                     samples, baseline, yielded>>
      /\ run_of[i] = "running"
  BY DEF TaskEnds
<1>2. PICK o \in {"result", "error", "cancelled"} : run_of' = [run_of EXCEPT ![i] = o]
  BY DEF TaskEnds
<1>3. /\ run_of' \in [Item -> {"none", "running", "result", "error", "cancelled"}]
      /\ \A j \in Item : run_of'[j] = IF j = i THEN o ELSE run_of[j]
  BY <1>2 DEF ConcurrentlyInv, ConcurrentlyTypeOK
<1>4. ConcurrentlyTypeOK'
  BY <1>1, <1>3 DEF ConcurrentlyInv, ConcurrentlyTypeOK
<1>5. TasksOK'
  BY <1>1, <1>3 DEF ConcurrentlyInv, ConcurrentlyTypeOK, TasksOK
<1>6. Flight' = Flight
  BY <1>1, <1>3 DEF Flight
<1>7. FlightOK' /\ EndOK'
  BY <1>1, <1>3, <1>6 DEF ConcurrentlyInv, ConcurrentlyTypeOK, FlightOK, EndOK
<1> QED
  BY <1>4, <1>5, <1>7 DEF ConcurrentlyInv

\* The steps that change only where the generator is, what it found done, or
\* that the source is exhausted.
LEMMA MovesKeep ==
    ASSUME ConcurrentlyInv,
           \/ Exhaust \/ SourceRaises \/ Filled \/ WaitReturns
           \/ CallerContinues \/ CallerStops \/ Closed
    PROVE  ConcurrentlyInv'
<1>1. UNCHANGED <<source, run_of, pending, limit_of, samples, baseline, yielded>>
  BY DEF Exhaust, SourceRaises, Filled, WaitReturns, CallerContinues,
         CallerStops, Closed
<1>2. Flight' = Flight
  BY <1>1 DEF Flight
<1>3. /\ batch' \subseteq pending /\ exhausted' \in BOOLEAN
      /\ generator' \in {"fill", "wait", "next", "caller", "closing", "closed",
                         "returned"}
      /\ \A i \in batch' : run_of[i] # "running"
      /\ exhausted' => source = {}
  <2>1. (exhausted' = TRUE /\ source = {}) \/ exhausted' = exhausted
    BY DEF Exhaust, SourceRaises, Filled, WaitReturns, CallerContinues,
           CallerStops, Closed
  <2>2. exhausted' \in BOOLEAN /\ (exhausted' => source = {})
    <3>1. exhausted \in BOOLEAN /\ (exhausted => source = {})
      BY DEF ConcurrentlyInv, ConcurrentlyTypeOK, TasksOK
    <3>2. CASE exhausted' = TRUE /\ source = {}
      BY <3>2
    <3>3. CASE exhausted' = exhausted
      BY <3>1, <3>3
    <3> QED
      BY <2>1, <3>2, <3>3
  <2>3. batch' = batch \/ batch' = {i \in pending : run_of[i] # "running"}
    BY DEF Exhaust, SourceRaises, Filled, WaitReturns, CallerContinues,
           CallerStops, Closed
  <2>4. batch' \subseteq pending /\ \A i \in batch' : run_of[i] # "running"
    BY <2>3 DEF ConcurrentlyInv, ConcurrentlyTypeOK, TasksOK
  <2>5. generator' \in {"fill", "wait", "next", "caller", "closing", "closed",
                        "returned"}
    BY DEF ConcurrentlyInv, ConcurrentlyTypeOK, Exhaust, SourceRaises, Filled,
           WaitReturns, CallerContinues, CallerStops, Closed
  <2> QED
    BY <2>2, <2>4, <2>5
<1>4. ConcurrentlyTypeOK' /\ TasksOK'
  BY <1>1, <1>3 DEF ConcurrentlyInv, ConcurrentlyTypeOK, TasksOK
<1>5. /\ generator \notin {"closing", "closed"} => Flight = pending
      /\ generator \in {"closing", "closed"} => generator' = "closed"
  BY DEF ConcurrentlyInv, FlightOK, Exhaust, SourceRaises, Filled, WaitReturns,
         CallerContinues, CallerStops, Closed
<1>6. FlightOK'
  BY <1>1, <1>2, <1>5 DEF ConcurrentlyInv, FlightOK
<1>7. EndOK'
  <2>1. ASSUME generator' = "returned" PROVE exhausted' /\ pending' = {}
    <3>1. Filled /\ pending = {}
      BY <2>1 DEF Exhaust, SourceRaises, Filled, WaitReturns, CallerContinues,
                  CallerStops, Closed
    <3>2. Cardinality(pending) = 0
      BY <3>1, FS_EmptySet
    <3>3. effective_limit \in 1..MaxLimit
      BY Rounded DEF ConcurrentlyInv, ConcurrentlyTypeOK, effective_limit
    <3>4. HasRoom
      BY <3>2, <3>3, ConcurrentlyAssumption DEF HasRoom
    <3> QED
      BY <1>1, <3>1, <3>4 DEF Filled
  <2>2. ASSUME generator' = "closed" PROVE \A i \in pending : run_of[i] # "running"
    BY <2>2 DEF Exhaust, SourceRaises, Filled, WaitReturns, CallerContinues,
                CallerStops, Closed
  <2> QED
    BY <1>1, <2>1, <2>2 DEF EndOK
<1> QED
  BY <1>4, <1>6, <1>7 DEF ConcurrentlyInv

\* The invariant of the generator.
THEOREM ConcurrentlyInvariance == ConcurrentlySpec => []ConcurrentlyInv
<1>1. ConcurrentlyInv /\ [ConcurrentlyNext]_concurrentlyVars => ConcurrentlyInv'
  <2> SUFFICES ASSUME ConcurrentlyInv, [ConcurrentlyNext]_concurrentlyVars
               PROVE  ConcurrentlyInv'
    OBVIOUS
  <2>1. CASE UNCHANGED concurrentlyVars
    BY <2>1 DEF concurrentlyVars, ConcurrentlyInv, ConcurrentlyTypeOK, TasksOK,
                FlightOK, Flight, EndOK
  <2> QED
    BY <2>1, FillKeeps, YieldKeeps, TaskEndsKeeps, MovesKeep
       DEF ConcurrentlyNext, GeneratorStep
<1> QED
  BY <1>1, ConcurrentlyStart, PTL DEF ConcurrentlySpec

\* Whatever the limiter, the tasks, the source and the caller do, what is in
\* flight stays within the caller's limit, and a generator that is done left
\* nothing running and no item out (concurrently, _Limiter).
THEOREM GeneratorKept == ConcurrentlySpec => []GeneratorSound
<1>1. ConcurrentlyInv => GeneratorSound
  <2> SUFFICES ASSUME ConcurrentlyInv PROVE GeneratorSound
    OBVIOUS
  <2>0. /\ MaxLimit \in Nat /\ IsFiniteSet(pending) /\ Cardinality(pending) <= MaxLimit
        /\ Cardinality(pending) \in Nat
    BY ConcurrentlyAssumption, FS_CardinalityType DEF ConcurrentlyInv, FlightOK
  <2>1. InFlightBounded
    <3>1. CASE Flight = pending
      BY <2>0, <3>1 DEF InFlightBounded, Flight
    <3>2. CASE Flight # pending
      <4>1. generator \in {"closing", "closed"} /\ pending \subseteq Flight
        BY <3>2 DEF ConcurrentlyInv, FlightOK
      <4>2. PICK x \in Flight : x \notin pending
        BY <3>2, <4>1
      <4>3. Flight = pending \cup {x}
        BY <3>2, <4>1, <4>2 DEF ConcurrentlyInv, FlightOK
      <4>4. Cardinality(pending \cup {x}) = Cardinality(pending) + 1
        BY <2>0, <4>2, FS_AddElement
      <4> QED
        BY <2>0, <4>1, <4>3, <4>4 DEF InFlightBounded, Flight
    <3> QED
      BY <3>1, <3>2
  <2>2. NothingLeftBehind
    <3>1. ASSUME generator = "returned" PROVE yielded = Item
      <4>1. source = {} /\ pending = {} /\ Flight = pending
        BY <3>1 DEF ConcurrentlyInv, EndOK, TasksOK, FlightOK
      <4>2. \A i \in Item : run_of[i] # "none"
        BY <4>1 DEF ConcurrentlyInv, TasksOK
      <4> QED
        BY <4>1, <4>2 DEF Flight, ConcurrentlyInv, ConcurrentlyTypeOK
    <3>2. ASSUME generator \in {"closed", "returned"}, NEW i \in Item
          PROVE  run_of[i] # "running"
      BY <3>2 DEF ConcurrentlyInv, TasksOK, EndOK
    <3> QED
      BY <3>1, <3>2 DEF NothingLeftBehind
  <2> QED
    BY <2>1, <2>2 DEF GeneratorSound
<1> QED
  BY <1>1, ConcurrentlyInvariance, PTL

-----------------------------------------------------------------------------
(* Presence.                                                               *)

Event == [waiters : Nat, set : BOOLEAN]
Querier == [at : {"none", "check", "wait", "removed", "done"}, have : BOOLEAN,
            response : BOOLEAN, used : BOOLEAN, wire : Seq(BOOLEAN)]
Departure == {"none", "scheduled", "waiting", "left", "untoggled", "done"}
Visitor == {"toggle", "toggling", "subscribe", "in", "out"}

ShapesOK ==
    /\ link \in [Nonce -> {"new", "open", "closed"}]
    /\ event \in [Nonce -> Event]
    /\ visitor \in [Nonce -> Visitor]
    /\ departure \in [Nonce -> Departure]
    /\ watch \in [Nonce -> Querier]
    /\ untoggled \subseteq Nonce /\ listed \in BOOLEAN /\ unseen \in BOOLEAN
    /\ presenceCrashes \in 0..MaxPresenceCrashes

\* A client toggles once, after it connected; the event knows of the task that
\* waits and is kept for it or for the connection; and while the connection
\* stands nobody undoes its Toggle.
ClientOK(n) ==
    /\ event[n].waiters = IF departure[n] = "waiting" THEN 1 ELSE 0
    /\ event[n] # Absent => link[n] = "open" \/ departure[n] = "waiting"
    /\ link[n] = "new" => visitor[n] = "toggle"
    /\ link[n] = "open" => /\ event[n].set = FALSE /\ n \notin untoggled
                           /\ departure[n] \in {"none", "scheduled", "waiting"}
    /\ visitor[n] \in {"toggle", "toggling"} <=> departure[n] = "none"
    /\ n \in untoggled => departure[n] # "none"

\* The clients that toggled and were not undone.
Here == {n \in Nonce : departure[n] # "none" /\ n \notin untoggled}

ListedOK ==
    /\ listed => \E n \in Nonce : watch[n].at \in {"check", "wait"}
    /\ \A n \in Nonce : visitor[n] = "in" /\ link[n] = "open" => listed \/ unseen

PresenceInv ==
    /\ ShapesOK /\ \A n \in Nonce : ClientOK(n)
    /\ toggles = Cardinality(Here)
    /\ ListedOK

\* A response under way leaves a querier where it is.
LEMMA QuerierUpdates ==
    ASSUME NEW w \in Querier, NEW v \in Seq(BOOLEAN)
    PROVE  /\ [w EXCEPT !.wire = v] \in Querier /\ [w EXCEPT !.wire = v].at = w.at
BY DEF Querier

\* The querier of a watch that starts or is over.
LEMMA FreshQuerier ==
    /\ [NoWatch EXCEPT !.at = "done"] \in Querier
    /\ [NoWatch EXCEPT !.at = "check"] \in Querier
    /\ [NoWatch EXCEPT !.at = "check"].at = "check"
<1>1. NoWatch \in Querier
  BY DEF NoWatch, Querier
<1>2. \A q \in Querier : /\ [q EXCEPT !.at = "done"] \in Querier
                         /\ [q EXCEPT !.at = "check"] \in Querier
                         /\ [q EXCEPT !.at = "check"].at = "check"
  BY DEF Querier
<1> QED
  BY <1>1, <1>2

\* Those who have the status are told of a change, and stay where they are.
LEMMA QueriedKeeps ==
    ASSUME ShapesOK, NEW k \in Int
    PROVE  /\ Queried(k) \in [Nonce -> Querier]
           /\ \A n \in Nonce : Queried(k)[n].at = watch[n].at
<1>1. Present(k) \in BOOLEAN
  BY DEF Present
<1> DEFINE w2 == [n \in Nonce |-> IF watch[n].have
                    THEN [watch[n] EXCEPT !.wire = Append(@, Present(k))] ELSE watch[n]]
<1>2. ASSUME NEW n \in Nonce PROVE w2[n] \in Querier /\ w2[n].at = watch[n].at
  <2>1. watch[n] \in Querier
    BY DEF ShapesOK
  <2>2. PICK v \in Seq(BOOLEAN) : v = Append(watch[n].wire, Present(k))
    <3>1. watch[n].wire \in Seq(BOOLEAN)
      BY <2>1 DEF Querier
    <3>2. Append(watch[n].wire, Present(k)) \in Seq(BOOLEAN)
      BY <1>1, <3>1
    <3> QED
      BY <3>2
  <2>3. [watch[n] EXCEPT !.wire = v] \in Querier
        /\ [watch[n] EXCEPT !.wire = v].at = watch[n].at
    BY <1>1, <2>1, QuerierUpdates
  <2>4. w2[n] = watch[n] \/ w2[n] = [watch[n] EXCEPT !.wire = v]
    BY <2>2
  <2> QED
    BY <2>1, <2>3, <2>4
<1>3. w2 \in [Nonce -> Querier]
  BY <1>2
<1>4. Queried(k) = watch \/ Queried(k) = w2
  BY DEF Queried
<1> HIDE DEF w2
<1> QED
  BY <1>2, <1>3, <1>4 DEF ShapesOK

\* How many are here.
LEMMA Counted ==
    ASSUME PresenceInv
    PROVE  /\ IsFiniteSet(Here) /\ toggles \in Nat
           /\ \A n \in Here : Present(toggles)
           /\ \A n : n \notin Here => Cardinality(Here \cup {n}) = toggles + 1
           /\ \A n \in Here : Cardinality(Here \ {n}) = toggles - 1
<1>1. IsFiniteSet(Here)
  BY PresenceAssumption, FS_Subset DEF Here
<1>2. toggles = Cardinality(Here) /\ toggles \in Nat
  BY <1>1, FS_CardinalityType DEF PresenceInv
<1>3. \A n \in Here : Present(toggles)
  <2> TAKE n \in Here
  <2>1. Cardinality(Here) # 0
    BY <1>1, FS_EmptySet
  <2> QED
    BY <1>2, <2>1 DEF Present
<1>4. \A n : n \notin Here => Cardinality(Here \cup {n}) = toggles + 1
  BY <1>1, <1>2, FS_AddElement
<1>5. \A n \in Here : Cardinality(Here \ {n}) = toggles - 1
  BY <1>1, <1>2, FS_RemoveElement
<1> QED
  BY <1>1, <1>2, <1>3, <1>4, <1>5

\* The invariant holds initially.
LEMMA PresenceStart == PresenceInit => PresenceInv
<1> SUFFICES ASSUME PresenceInit PROVE PresenceInv
  OBVIOUS
<1>1. Absent \in Event /\ Absent.waiters = 0 /\ NoWatch \in Querier
  BY DEF Absent, Event, NoWatch, Querier
<1>2. ShapesOK
  <2>1. /\ event \in [Nonce -> Event] /\ watch \in [Nonce -> Querier]
        /\ link \in [Nonce -> {"new", "open", "closed"}]
        /\ visitor \in [Nonce -> Visitor] /\ departure \in [Nonce -> Departure]
    BY <1>1 DEF PresenceInit, Visitor, Departure
  <2>2. presenceCrashes \in 0..MaxPresenceCrashes /\ untoggled \subseteq Nonce
    BY PresenceAssumption DEF PresenceInit
  <2>3. listed \in BOOLEAN /\ unseen \in BOOLEAN
    BY DEF PresenceInit
  <2> QED
    BY <2>1, <2>2, <2>3 DEF ShapesOK
<1>3. \A n \in Nonce : ClientOK(n)
  BY <1>1 DEF PresenceInit, ClientOK
<1>4. toggles = Cardinality(Here)
  BY FS_EmptySet DEF PresenceInit, Here
<1>5. ListedOK
  BY DEF PresenceInit, ListedOK
<1> QED
  BY <1>2, <1>3, <1>4, <1>5 DEF PresenceInv

\* A step that touches neither what is listed nor who is in.
LEMMA ListedStay ==
    ASSUME ListedOK, UNCHANGED <<listed, unseen>>,
           \A n \in Nonce : watch'[n].at = watch[n].at,
           \A n \in Nonce : visitor'[n] = "in" /\ link'[n] = "open" =>
                               visitor[n] = "in" /\ link[n] = "open"
    PROVE  ListedOK'
BY DEF ListedOK

\* A client that connects keeps the invariant.
LEMMA ConnectKeeps ==
    ASSUME PresenceInv, NEW n \in Nonce, ClientConnect(n)
    PROVE  PresenceInv'
<1>0. UNCHANGED <<visitor, toggles, departure, untoggled, listed, watch, unseen,
                  presenceCrashes>> /\ link[n] = "new" /\ event[n] = Absent
  BY DEF ClientConnect
<1>1. NewEvent \in Event /\ NewEvent.waiters = 0 /\ NewEvent.set = FALSE
  BY DEF NewEvent, Event
<1>2. /\ link' \in [Nonce -> {"new", "open", "closed"}]
      /\ \A m \in Nonce : link'[m] = IF m = n THEN "open" ELSE link[m]
  BY DEF ClientConnect, PresenceInv, ShapesOK
<1>3. /\ event' \in [Nonce -> Event]
      /\ \A m \in Nonce : event'[m] = IF m = n THEN NewEvent ELSE event[m]
  BY <1>1 DEF ClientConnect, PresenceInv, ShapesOK
<1>4. ShapesOK'
  BY <1>0, <1>2, <1>3 DEF PresenceInv, ShapesOK
<1>5. visitor[n] = "toggle" /\ departure[n] = "none" /\ n \notin untoggled
  BY <1>0 DEF PresenceInv, ClientOK
<1>6. ASSUME NEW m \in Nonce PROVE ClientOK(m)'
  <2>1. CASE m = n
    BY <1>0, <1>1, <1>2, <1>3, <1>5, <2>1 DEF ClientOK
  <2>2. CASE m # n
    BY <1>0, <1>2, <1>3, <2>2 DEF PresenceInv, ClientOK
  <2> QED
    BY <2>1, <2>2
<1>7. Here' = Here
  BY <1>0 DEF Here
<1>8. ListedOK'
  BY <1>0, <1>2, <1>5, ListedStay DEF PresenceInv
<1> QED
  BY <1>0, <1>4, <1>6, <1>7, <1>8 DEF PresenceInv

\* A client that leaves keeps the invariant.
LEMMA LeaveKeeps ==
    ASSUME PresenceInv, NEW n \in Nonce, Leave(n)
    PROVE  PresenceInv'
<1>0. UNCHANGED <<visitor, toggles, departure, untoggled, listed, watch, unseen,
                  presenceCrashes>> /\ link[n] = "open"
  BY DEF Leave
<1>1. PICK e \in Event : /\ e = Ended(event[n])
                         /\ e.waiters = event[n].waiters
                         /\ e # Absent => event[n].waiters # 0
  <2>1. event[n] \in Event /\ Absent \in Event /\ Absent.waiters = 0
    BY DEF PresenceInv, ShapesOK, Absent, Event
  <2>2. \A q \in Event : [q EXCEPT !.set = TRUE] \in Event
                         /\ [q EXCEPT !.set = TRUE].waiters = q.waiters
    BY DEF Event
  <2> QED
    BY <2>1, <2>2 DEF Ended
<1>2. /\ link' \in [Nonce -> {"new", "open", "closed"}]
      /\ \A m \in Nonce : link'[m] = IF m = n THEN "closed" ELSE link[m]
  BY DEF Leave, PresenceInv, ShapesOK
<1>3. /\ event' \in [Nonce -> Event]
      /\ \A m \in Nonce : event'[m] = IF m = n THEN e ELSE event[m]
  BY <1>1 DEF Leave, PresenceInv, ShapesOK
<1>4. ShapesOK'
  BY <1>0, <1>2, <1>3 DEF PresenceInv, ShapesOK
<1>6. ASSUME NEW m \in Nonce PROVE ClientOK(m)'
  <2>1. CASE m = n
    BY <1>0, <1>1, <1>2, <1>3, <2>1 DEF PresenceInv, ClientOK
  <2>2. CASE m # n
    BY <1>0, <1>2, <1>3, <2>2 DEF PresenceInv, ClientOK
  <2> QED
    BY <2>1, <2>2
<1>7. Here' = Here
  BY <1>0 DEF Here
<1>8. ListedOK'
  BY <1>0, <1>2, ListedStay DEF PresenceInv
<1> QED
  BY <1>0, <1>4, <1>6, <1>7, <1>8 DEF PresenceInv

\* A toggle that is admitted keeps the invariant.
LEMMA AdmittedKeeps ==
    ASSUME PresenceInv, NEW n \in Nonce, ToggleAdmitted(n)
    PROVE  PresenceInv'
<1>0. /\ UNCHANGED <<link, event, toggles, departure, untoggled, listed, watch,
                     unseen, presenceCrashes>>
      /\ visitor[n] = "toggle" /\ event[n] # Absent
  BY DEF ToggleAdmitted, subscriberVars
<1>1. /\ visitor' \in [Nonce -> Visitor]
      /\ \A m \in Nonce : visitor'[m] = IF m = n THEN "toggling" ELSE visitor[m]
  BY DEF ToggleAdmitted, PresenceInv, ShapesOK, Visitor
<1>2. ShapesOK'
  BY <1>0, <1>1 DEF PresenceInv, ShapesOK
<1>3. departure[n] = "none" /\ link[n] # "new"
  BY <1>0 DEF PresenceInv, ClientOK
<1>4. ASSUME NEW m \in Nonce PROVE ClientOK(m)'
  <2>1. ClientOK(m)
    BY DEF PresenceInv
  <2> QED
    BY <1>0, <1>1, <1>3, <2>1 DEF ClientOK
<1>5. Here' = Here
  BY <1>0 DEF Here
<1>6. ListedOK'
  BY <1>0, <1>1, ListedStay DEF PresenceInv
<1> QED
  BY <1>0, <1>2, <1>4, <1>5, <1>6 DEF PresenceInv

\* A toggle keeps the invariant.
LEMMA ToggleKeeps ==
    ASSUME PresenceInv, NEW n \in Nonce, Toggle(n)
    PROVE  PresenceInv'
<1>0. /\ UNCHANGED <<link, event, untoggled, listed, unseen, presenceCrashes>>
      /\ visitor[n] = "toggling" /\ toggles' = toggles + 1
  BY DEF Toggle
<1>1. /\ visitor' \in [Nonce -> Visitor]
      /\ \A m \in Nonce : visitor'[m] = IF m = n THEN "subscribe" ELSE visitor[m]
  BY DEF Toggle, PresenceInv, ShapesOK, Visitor
<1>2. /\ departure' \in [Nonce -> Departure]
      /\ \A m \in Nonce : departure'[m] = IF m = n THEN "scheduled" ELSE departure[m]
  BY DEF Toggle, PresenceInv, ShapesOK, Departure
<1>3. /\ watch' \in [Nonce -> Querier]
      /\ \A m \in Nonce : watch'[m].at = watch[m].at
  <2>1. toggles + 1 \in Int
    BY Counted
  <2>2. watch' = Queried(toggles + 1)
    BY DEF Toggle
  <2> QED
    BY <2>1, <2>2, QueriedKeeps DEF PresenceInv
<1>4. ShapesOK'
  BY <1>0, <1>1, <1>2, <1>3 DEF PresenceInv, ShapesOK
<1>5. departure[n] = "none" /\ n \notin untoggled /\ link[n] # "new"
  BY <1>0 DEF PresenceInv, ClientOK
<1>6. ASSUME NEW m \in Nonce PROVE ClientOK(m)'
  <2>1. ClientOK(m)
    BY DEF PresenceInv
  <2> QED
    BY <1>0, <1>1, <1>2, <1>5, <2>1 DEF ClientOK
<1>7. toggles' = Cardinality(Here')
  <2>1. Here' = Here \cup {n} /\ n \notin Here
    BY <1>0, <1>2, <1>5 DEF Here
  <2> QED
    BY <1>0, <2>1, Counted
<1>8. ListedOK'
  BY <1>0, <1>1, <1>3, ListedStay DEF PresenceInv
<1> QED
  BY <1>4, <1>6, <1>7, <1>8 DEF PresenceInv

\* Waiting for the disconnect keeps the invariant.
LEMMA WaitsKeeps ==
    ASSUME PresenceInv, NEW n \in Nonce, WaitsForDisconnect(n)
    PROVE  PresenceInv'
<1>0. /\ UNCHANGED <<link, visitor, toggles, untoggled, listed, watch, unseen,
                     presenceCrashes>>
      /\ departure[n] = "scheduled"
  BY DEF WaitsForDisconnect
<1>1. ClientOK(n) /\ event[n] \in Event /\ event[n].set \in BOOLEAN
      /\ event[n].waiters = 0 /\ visitor[n] \notin {"toggle", "toggling"}
  <2>1. ClientOK(n) /\ event[n] \in Event
    BY DEF PresenceInv, ShapesOK
  <2> QED
    BY <1>0, <2>1 DEF ClientOK, Event
<1>2. CASE event[n].set
  <2>1. /\ departure' \in [Nonce -> Departure] /\ event' = event
        /\ \A m \in Nonce : departure'[m] = IF m = n THEN "left" ELSE departure[m]
    BY <1>2 DEF WaitsForDisconnect, PresenceInv, ShapesOK, Departure
  <2>2. link[n] # "open"
    BY <1>1, <1>2 DEF ClientOK
  <2>3. ShapesOK'
    BY <1>0, <2>1 DEF PresenceInv, ShapesOK
  <2>4. ASSUME NEW m \in Nonce PROVE ClientOK(m)'
    <3>1. ClientOK(m)
      BY DEF PresenceInv
    <3> QED
      BY <1>0, <1>1, <2>1, <2>2, <3>1 DEF ClientOK
  <2>5. Here' = Here
    BY <1>0, <2>1 DEF Here
  <2>6. ListedOK'
    BY <1>0, ListedStay DEF PresenceInv
  <2> QED
    BY <1>0, <2>3, <2>4, <2>5, <2>6 DEF PresenceInv
<1>3. CASE ~event[n].set
  <2>1. /\ departure' \in [Nonce -> Departure]
        /\ \A m \in Nonce : departure'[m] = IF m = n THEN "waiting" ELSE departure[m]
    BY <1>3 DEF WaitsForDisconnect, PresenceInv, ShapesOK, Departure
  <2>2. PICK e \in Event : /\ e = [event[n] EXCEPT !.waiters = @ + 1]
                           /\ e.waiters = 1 /\ e.set = FALSE
    <3>1. \A q \in Event : q.waiters = 0 /\ q.set = FALSE =>
              /\ [q EXCEPT !.waiters = @ + 1] \in Event
              /\ [q EXCEPT !.waiters = @ + 1].waiters = 1
              /\ [q EXCEPT !.waiters = @ + 1].set = FALSE
      BY DEF Event
    <3>2. event[n].set = FALSE
      BY <1>1, <1>3
    <3> QED
      BY <1>1, <3>1, <3>2
  <2>3. event' = [event EXCEPT ![n] = e]
    BY <1>3, <2>2 DEF WaitsForDisconnect
  <2>4. /\ event' \in [Nonce -> Event]
        /\ \A m \in Nonce : event'[m] = IF m = n THEN e ELSE event[m]
    BY <2>3 DEF PresenceInv, ShapesOK
  <2>5. ShapesOK'
    BY <1>0, <2>1, <2>4 DEF PresenceInv, ShapesOK
  <2>6. ASSUME NEW m \in Nonce PROVE ClientOK(m)'
    <3>1. CASE m = n
      BY <1>0, <1>1, <2>1, <2>2, <2>4, <3>1 DEF ClientOK
    <3>2. CASE m # n
      <4>1. ClientOK(m)
        BY DEF PresenceInv
      <4> QED
        BY <1>0, <2>1, <2>4, <3>2, <4>1 DEF ClientOK
    <3> QED
      BY <3>1, <3>2
  <2>7. Here' = Here
    BY <1>0, <2>1 DEF Here
  <2>8. ListedOK'
    BY <1>0, ListedStay DEF PresenceInv
  <2> QED
    BY <1>0, <2>5, <2>6, <2>7, <2>8 DEF PresenceInv
<1> QED
  BY <1>2, <1>3

\* One that is woken by the disconnect keeps the invariant.
LEMMA WokenKeeps ==
    ASSUME PresenceInv, NEW n \in Nonce, Woken(n)
    PROVE  PresenceInv'
<1>0. /\ UNCHANGED <<link, visitor, toggles, untoggled, listed, watch, unseen,
                     presenceCrashes>>
      /\ departure[n] = "waiting" /\ event[n].set
  BY DEF Woken
<1>1. ClientOK(n) /\ link[n] # "open" /\ Absent \in Event /\ Absent.waiters = 0
  BY <1>0 DEF PresenceInv, ClientOK, Absent, Event
<1>2. /\ departure' \in [Nonce -> Departure]
      /\ \A m \in Nonce : departure'[m] = IF m = n THEN "left" ELSE departure[m]
  BY DEF Woken, PresenceInv, ShapesOK, Departure
<1>3. /\ event' \in [Nonce -> Event]
      /\ \A m \in Nonce : event'[m] = IF m = n THEN Absent ELSE event[m]
  BY <1>1 DEF Woken, PresenceInv, ShapesOK
<1>4. ShapesOK'
  BY <1>0, <1>2, <1>3 DEF PresenceInv, ShapesOK
<1>5. ASSUME NEW m \in Nonce PROVE ClientOK(m)'
  <2>1. CASE m = n
    BY <1>0, <1>1, <1>2, <1>3, <2>1 DEF ClientOK
  <2>2. CASE m # n
    <3>1. ClientOK(m)
      BY DEF PresenceInv
    <3> QED
      BY <1>0, <1>2, <1>3, <2>2, <3>1 DEF ClientOK
  <2> QED
    BY <2>1, <2>2
<1>6. Here' = Here
  BY <1>0, <1>2 DEF Here
<1>7. ListedOK'
  BY <1>0, ListedStay DEF PresenceInv
<1> QED
  BY <1>0, <1>4, <1>5, <1>6, <1>7 DEF PresenceInv

\* Undoing a toggle keeps the invariant.
LEMMA UntoggleKeeps ==
    ASSUME PresenceInv, NEW n \in Nonce, Untoggle(n)
    PROVE  PresenceInv'
<1>0. /\ UNCHANGED <<link, visitor, event, listed, unseen, presenceCrashes>>
      /\ departure[n] = "left" /\ untoggled' = untoggled \cup {n}
  BY DEF Untoggle
<1>1. /\ departure' \in [Nonce -> Departure]
      /\ \A m \in Nonce : departure'[m] = IF m = n THEN "untoggled" ELSE departure[m]
  BY DEF Untoggle, PresenceInv, ShapesOK, Departure
<1>2. toggles' = (IF n \in untoggled THEN toggles ELSE toggles - 1)
      /\ toggles \in Nat /\ toggles' \in Int
  BY Counted DEF Untoggle, Already
<1>3. /\ watch' \in [Nonce -> Querier]
      /\ \A m \in Nonce : watch'[m].at = watch[m].at
  <2>1. PICK k \in Int : k = toggles'
    BY <1>2
  <2>2. watch' = Queried(k)
    BY <2>1 DEF Untoggle
  <2> QED
    BY <2>2, QueriedKeeps DEF PresenceInv
<1>4. ShapesOK'
  BY <1>0, <1>1, <1>3 DEF PresenceInv, ShapesOK
<1>5. ASSUME NEW m \in Nonce PROVE ClientOK(m)'
  <2>1. ClientOK(m)
    BY DEF PresenceInv
  <2> QED
    BY <1>0, <1>1, <2>1 DEF ClientOK
<1>6. toggles' = Cardinality(Here')
  <2>1. CASE n \in untoggled
    <3>1. Here' = Here
      BY <1>0, <1>1, <2>1 DEF Here
    <3> QED
      BY <1>2, <2>1, <3>1 DEF PresenceInv
  <2>2. CASE n \notin untoggled
    <3>1. Here' = Here \ {n} /\ n \in Here
      BY <1>0, <1>1, <2>2 DEF Here
    <3> QED
      BY <1>2, <2>2, <3>1, Counted
  <2> QED
    BY <2>1, <2>2
<1>7. ListedOK'
  BY <1>0, <1>3, ListedStay DEF PresenceInv
<1> QED
  BY <1>4, <1>5, <1>6, <1>7 DEF PresenceInv

\* A client that has departed keeps the invariant.
LEMMA DepartedKeeps ==
    ASSUME PresenceInv, NEW n \in Nonce, Departed(n)
    PROVE  PresenceInv'
<1>0. /\ UNCHANGED <<link, visitor, event, toggles, untoggled, listed, watch,
                     unseen, presenceCrashes>>
      /\ departure[n] = "untoggled"
  BY DEF Departed
<1>1. /\ departure' \in [Nonce -> Departure]
      /\ \A m \in Nonce : departure'[m] = IF m = n THEN "done" ELSE departure[m]
  BY DEF Departed, PresenceInv, ShapesOK, Departure
<1>2. ShapesOK'
  BY <1>0, <1>1 DEF PresenceInv, ShapesOK
<1>3. ASSUME NEW m \in Nonce PROVE ClientOK(m)'
  <2>1. ClientOK(m)
    BY DEF PresenceInv
  <2> QED
    BY <1>0, <1>1, <2>1 DEF ClientOK
<1>4. Here' = Here
  BY <1>0, <1>1 DEF Here
<1>5. ListedOK'
  BY <1>0, ListedStay DEF PresenceInv
<1> QED
  BY <1>0, <1>2, <1>3, <1>4, <1>5 DEF PresenceInv

\* A crash of the subscriber's server, which loses the disconnect events,
\* keeps the invariant.
LEMMA SubscriberCrashKeeps ==
    ASSUME PresenceInv, SubscriberCrash
    PROVE  PresenceInv'
<1>0. /\ UNCHANGED <<toggles, untoggled, listed, unseen>>
      /\ presenceCrashes' \in 0..MaxPresenceCrashes
  BY PresenceAssumption DEF SubscriberCrash, PresenceInv, ShapesOK
<1>1. Absent \in Event /\ Absent.waiters = 0
  BY DEF Absent, Event
<1>2. event' = [m \in Nonce |-> Absent]
  BY DEF SubscriberCrash
<1>3. /\ link' \in [Nonce -> {"new", "open", "closed"}]
      /\ \A m \in Nonce : link'[m] = IF link[m] = "open" THEN "closed" ELSE link[m]
  BY DEF SubscriberCrash, PresenceInv, ShapesOK
<1>4. /\ visitor' \in [Nonce -> Visitor]
      /\ \A m \in Nonce :
            visitor'[m] = IF visitor[m] = "toggling" THEN "toggle" ELSE visitor[m]
  BY DEF SubscriberCrash, PresenceInv, ShapesOK, Visitor
<1>5. /\ departure' \in [Nonce -> Departure]
      /\ \A m \in Nonce : departure'[m] =
            IF departure[m] \in {"none", "done"} THEN departure[m] ELSE "scheduled"
  BY DEF SubscriberCrash, PresenceInv, ShapesOK, Departure
<1>6. /\ watch' \in [Nonce -> Querier]
      /\ \A m \in Nonce : watch'[m].at = watch[m].at
  <2>1. PICK v \in Seq(BOOLEAN) : v = <<Present(toggles)>>
    <3>0. Present(toggles) \in BOOLEAN
      BY DEF Present
    <3>1. PICK x \in BOOLEAN : x = Present(toggles)
      BY <3>0, Zenon
    <3>2. <<x>> \in Seq(BOOLEAN)
      OBVIOUS
    <3> QED
      BY <3>1, <3>2
  <2>2. watch' = [m \in Nonce |-> IF watch[m].have THEN [watch[m] EXCEPT !.wire = v]
                                  ELSE watch[m]]
    BY <2>1 DEF SubscriberCrash
  <2>3. \A m \in Nonce : /\ watch[m] \in Querier
                         /\ [watch[m] EXCEPT !.wire = v] \in Querier
                         /\ [watch[m] EXCEPT !.wire = v].at = watch[m].at
    BY QuerierUpdates DEF PresenceInv, ShapesOK
  <2> QED
    BY <2>2, <2>3
<1>7. ShapesOK'
  <2>1. event' \in [Nonce -> Event]
    BY <1>1, <1>2
  <2> QED
    BY <1>0, <1>3, <1>4, <1>5, <1>6, <2>1 DEF PresenceInv, ShapesOK
<1>8. ASSUME NEW m \in Nonce PROVE ClientOK(m)'
  <2>1. ClientOK(m)
    BY DEF PresenceInv
  <2> QED
    BY <1>0, <1>1, <1>2, <1>3, <1>4, <1>5, <2>1 DEF ClientOK
<1>9. Here' = Here
  BY <1>0, <1>5 DEF Here
<1>10. ListedOK'
  BY <1>0, <1>3, <1>6, ListedStay DEF PresenceInv
<1> QED
  BY <1>0, <1>7, <1>8, <1>9, <1>10 DEF PresenceInv

\* Subscribing keeps the invariant.
LEMMA SubscribeToKeeps ==
    ASSUME PresenceInv, NEW n \in Nonce, SubscribeTo(n)
    PROVE  PresenceInv'
<1>0. /\ UNCHANGED <<link, event, toggles, departure, untoggled, unseen,
                     presenceCrashes>>
      /\ visitor[n] = "subscribe"
  BY DEF SubscribeTo, subscriberVars
<1>1. \/ listed' = TRUE /\ ~listed /\ watch' = Watched(n)
      \/ listed' = listed /\ watch' = watch
  <2>1. listed \in BOOLEAN
    BY DEF PresenceInv, ShapesOK
  <2>2. CASE ~listed /\ Present(toggles)
    BY <2>2 DEF SubscribeTo
  <2>3. CASE ~(~listed /\ Present(toggles))
    <3>1. watch' = watch /\ listed' = (listed \/ (~listed /\ Present(toggles)))
      BY <2>3 DEF SubscribeTo
    <3> QED
      BY <2>1, <2>3, <3>1
  <2> QED
    BY <2>2, <2>3
<1>2. /\ listed' \in BOOLEAN /\ (listed => listed')
  BY <1>1 DEF PresenceInv, ShapesOK
<1>3. /\ visitor' \in [Nonce -> Visitor]
      /\ \A m \in Nonce : m # n => visitor'[m] = visitor[m]
      /\ visitor'[n] \in {"in", "out"} /\ (visitor'[n] = "in" => listed')
  BY DEF SubscribeTo, PresenceInv, ShapesOK, Visitor
<1>4. /\ watch' \in [Nonce -> Querier]
      /\ (listed' => \E m \in Nonce : watch'[m].at \in {"check", "wait"})
  <2>1. CASE watch' = Watched(n)
    <3>1. PICK w : w = [watch[n] EXCEPT !.at = "check"]
      OBVIOUS
    <3>2. w \in Querier /\ w.at = "check"
      <4>1. watch[n] \in Querier
        BY DEF PresenceInv, ShapesOK
      <4> QED
        BY <3>1, <4>1 DEF Querier
    <3>3. watch' = [watch EXCEPT ![n] = w]
      BY <2>1, <3>1 DEF Watched
    <3> QED
      BY <3>2, <3>3 DEF PresenceInv, ShapesOK
  <2>2. CASE listed' = listed /\ watch' = watch
    <3>1. listed => \E m \in Nonce : watch[m].at \in {"check", "wait"}
      BY DEF PresenceInv, ListedOK
    <3>2. watch \in [Nonce -> Querier]
      BY DEF PresenceInv, ShapesOK
    <3> QED
      BY <2>2, <3>1, <3>2
  <2> QED
    BY <1>1, <2>1, <2>2
<1>5. ShapesOK'
  BY <1>0, <1>2, <1>3, <1>4 DEF PresenceInv, ShapesOK
<1>6. ASSUME NEW m \in Nonce PROVE ClientOK(m)'
  <2>1. ClientOK(m)
    BY DEF PresenceInv
  <2> QED
    BY <1>0, <1>3, <2>1 DEF ClientOK
<1>7. Here' = Here
  BY <1>0 DEF Here
<1>8. ListedOK'
  <2>1. ASSUME NEW m \in Nonce, visitor'[m] = "in", link'[m] = "open"
        PROVE  listed' \/ unseen'
    <3>1. CASE m = n
      BY <1>3, <2>1, <3>1
    <3>2. CASE m # n
      <4>1. listed \/ unseen
        BY <1>0, <1>3, <2>1, <3>2 DEF PresenceInv, ListedOK
      <4> QED
        BY <1>0, <1>2, <4>1
    <3> QED
      BY <3>1, <3>2
  <2> QED
    BY <1>4, <2>1 DEF ListedOK
<1> QED
  BY <1>0, <1>5, <1>6, <1>7, <1>8 DEF PresenceInv

\* A Watch that removes the subscriber does so because there was nobody, or on
\* a response that is outdated.
LEMMA CheckKeeps ==
    ASSUME PresenceInv, NEW n \in Nonce, CheckPresence(n)
    PROVE  PresenceInv'
<1>0. UNCHANGED <<link, event, toggles, departure, untoggled, visitor,
                  presenceCrashes>>
  BY DEF CheckPresence, subscriberVars
<1>1. PICK status \in BOOLEAN :
          status = IF watch[n].have THEN watch[n].response ELSE Present(toggles)
  <2>1. watch[n] \in Querier
    BY DEF PresenceInv, ShapesOK
  <2>2. watch[n].response \in BOOLEAN /\ Present(toggles) \in BOOLEAN
    BY <2>1 DEF Querier, Present
  <2> QED
    BY <2>2, Zenon
<1>2. PICK w \in Querier :
          /\ w.at = (IF status THEN "wait" ELSE "removed")
          /\ watch' = [watch EXCEPT ![n] = w]
  <2>1. \A q \in Querier :
          LET r == [q EXCEPT !.at = IF status THEN "wait" ELSE "removed",
                             !.have = TRUE, !.response = status, !.used = TRUE]
          IN  r \in Querier /\ r.at = IF status THEN "wait" ELSE "removed"
    BY DEF Querier
  <2>2. watch[n] \in Querier
    BY DEF PresenceInv, ShapesOK
  <2> QED
    BY <1>1, <2>1, <2>2 DEF CheckPresence
<1>3. /\ watch' \in [Nonce -> Querier] /\ watch'[n] = w
      /\ \A m \in Nonce \ {n} : watch'[m] = watch[m]
  BY <1>2 DEF PresenceInv, ShapesOK
<1>4. /\ listed' = (listed /\ status)
      /\ unseen' = (unseen \/ (listed /\ ~status /\ Present(toggles)))
  BY <1>1 DEF CheckPresence
<1>5. ShapesOK'
  <2>1. listed' \in BOOLEAN /\ unseen' \in BOOLEAN
    BY <1>4
  <2> QED
    BY <1>0, <1>3, <2>1 DEF PresenceInv, ShapesOK
<1>6. ASSUME NEW m \in Nonce PROVE ClientOK(m)'
  <2>1. ClientOK(m)
    BY DEF PresenceInv
  <2> QED
    BY <1>0, <2>1 DEF ClientOK
<1>7. Here' = Here
  BY <1>0 DEF Here
<1>8. ListedOK'
  <2>1. listed' => watch'[n].at = "wait"
    BY <1>2, <1>3, <1>4
  <2>2. ASSUME NEW m \in Nonce, visitor[m] = "in", link[m] = "open"
        PROVE  listed' \/ unseen'
    <3>1. listed \/ unseen
      BY <2>2 DEF PresenceInv, ListedOK
    <3>2. m \in Here
      BY <2>2 DEF PresenceInv, ShapesOK, ClientOK, Here
    <3>3. Present(toggles)
      BY <3>2, Counted
    <3> QED
      BY <1>4, <3>1, <3>3
  <2> QED
    BY <1>0, <2>1, <2>2 DEF ListedOK
<1> QED
  BY <1>0, <1>5, <1>6, <1>7, <1>8 DEF PresenceInv

\* The steps of a Watch that change only its querier.
LEMMA QuerierKeeps ==
    ASSUME PresenceInv,
           UNCHANGED <<subscriberVars, visitor, listed, unseen>>,
           presenceCrashes' \in 0..MaxPresenceCrashes,
           watch' \in [Nonce -> Querier],
           \A m \in Nonce : watch[m].at \in {"check", "wait"} =>
                               watch'[m].at \in {"check", "wait"}
    PROVE  PresenceInv'
<1>0. UNCHANGED <<link, event, toggles, departure, untoggled, visitor, listed, unseen>>
  BY DEF subscriberVars
<1>1. ShapesOK'
  BY <1>0 DEF PresenceInv, ShapesOK
<1>2. ASSUME NEW m \in Nonce PROVE ClientOK(m)'
  <2>1. ClientOK(m)
    BY DEF PresenceInv
  <2> QED
    BY <1>0, <2>1 DEF ClientOK
<1>3. Here' = Here
  BY <1>0 DEF Here
<1>4. ListedOK'
  BY <1>0 DEF PresenceInv, ListedOK
<1> QED
  BY <1>0, <1>1, <1>2, <1>3, <1>4 DEF PresenceInv

\* A response that the querier receives keeps the invariant.
LEMMA ResponseKeeps ==
    ASSUME PresenceInv, NEW n \in Nonce, QuerierResponse(n)
    PROVE  PresenceInv'
<1>1. watch[n] \in Querier /\ watch[n].wire # <<>>
  BY DEF PresenceInv, ShapesOK, QuerierResponse
<1>2. PICK h \in BOOLEAN, v \in Seq(BOOLEAN) :
          h = Head(watch[n].wire) /\ v = Tail(watch[n].wire)
  <2>1. watch[n].wire \in Seq(BOOLEAN)
    BY <1>1 DEF Querier
  <2>2. \A x \in Seq(BOOLEAN) : x # <<>> => Head(x) \in BOOLEAN /\ Tail(x) \in Seq(BOOLEAN)
    OBVIOUS
  <2> QED
    BY <1>1, <2>1, <2>2
<1>3. PICK w \in Querier : w.at = "check" /\ watch' = [watch EXCEPT ![n] = w]
  <2>1. \A q \in Querier :
          LET r == [q EXCEPT !.at = "check", !.response = h, !.used = FALSE, !.wire = v]
          IN  r \in Querier /\ r.at = "check"
    BY DEF Querier
  <2> QED
    BY <1>1, <1>2, <2>1 DEF QuerierResponse
<1>4. /\ UNCHANGED <<subscriberVars, visitor, listed, unseen>>
      /\ presenceCrashes' \in 0..MaxPresenceCrashes
  BY DEF QuerierResponse, PresenceInv, ShapesOK
<1>5. watch' \in [Nonce -> Querier] /\ \A m \in Nonce :
          watch[m].at \in {"check", "wait"} => watch'[m].at \in {"check", "wait"}
  BY <1>3 DEF PresenceInv, ShapesOK
<1> QED
  BY <1>4, <1>5, QuerierKeeps

\* The end of a watch keeps the invariant.
LEMMA WatchEndsKeeps ==
    ASSUME PresenceInv, NEW n \in Nonce, WatchEnds(n)
    PROVE  PresenceInv'
<1>1. PICK w \in Querier : watch' = [watch EXCEPT ![n] = w]
  <2>1. [NoWatch EXCEPT !.at = "done"] \in Querier
    BY FreshQuerier
  <2> QED
    BY <2>1 DEF WatchEnds
<1>2. /\ UNCHANGED <<subscriberVars, visitor, listed, unseen>>
      /\ presenceCrashes' \in 0..MaxPresenceCrashes
      /\ watch[n].at = "removed"
  BY DEF WatchEnds, PresenceInv, ShapesOK
<1>3. watch' \in [Nonce -> Querier] /\ \A m \in Nonce :
          watch[m].at \in {"check", "wait"} => watch'[m].at \in {"check", "wait"}
  BY <1>1, <1>2 DEF PresenceInv, ShapesOK
<1> QED
  BY <1>2, <1>3, QuerierKeeps

\* A crash of the server of the Presence keeps the invariant.
LEMMA PresenceCrashKeeps ==
    ASSUME PresenceInv, PresenceCrash
    PROVE  PresenceInv'
<1>1. PICK w \in Querier : w.at = "check" /\ w = [NoWatch EXCEPT !.at = "check"]
  BY FreshQuerier
<1>2. watch' = [m \in Nonce |-> IF watch[m].at \in {"none", "done"} THEN watch[m] ELSE w]
  BY <1>1 DEF PresenceCrash
<1>3. watch' \in [Nonce -> Querier] /\ \A m \in Nonce :
          watch[m].at \in {"check", "wait"} => watch'[m].at \in {"check", "wait"}
  BY <1>1, <1>2 DEF PresenceInv, ShapesOK
<1>4. /\ UNCHANGED <<subscriberVars, visitor, listed, unseen>>
      /\ presenceCrashes' \in 0..MaxPresenceCrashes
  BY PresenceAssumption DEF PresenceCrash, PresenceInv, ShapesOK
<1> QED
  BY <1>3, <1>4, QuerierKeeps

\* The invariant of Presence.
THEOREM PresenceInvariance == PresenceSpec => []PresenceInv
<1>1. PresenceInv /\ [PresenceNext]_presenceVars => PresenceInv'
  <2> SUFFICES ASSUME PresenceInv, [PresenceNext]_presenceVars
               PROVE  PresenceInv'
    OBVIOUS
  <2>1. CASE UNCHANGED presenceVars
    <3>1. /\ UNCHANGED <<subscriberVars, visitor, listed, unseen>>
          /\ watch' = watch /\ presenceCrashes' = presenceCrashes
      BY <2>1 DEF presenceVars
    <3>2. presenceCrashes \in 0..MaxPresenceCrashes /\ watch \in [Nonce -> Querier]
      BY DEF PresenceInv, ShapesOK
    <3> QED
      BY <3>1, <3>2, QuerierKeeps
  <2> QED
    BY <2>1, ConnectKeeps, LeaveKeeps, SubscribeToKeeps, AdmittedKeeps,
       ToggleKeeps, WaitsKeeps, WokenKeeps, UntoggleKeeps, DepartedKeeps,
       CheckKeeps, ResponseKeeps, WatchEndsKeeps, SubscriberCrashKeeps,
       PresenceCrashKeeps DEF PresenceNext, DepartureNext, WatchNext
<1> QED
  BY <1>1, PresenceStart, PTL DEF PresenceSpec

\* For any number of connections and crashes: a Toggle is undone exactly once,
\* no event outlives its use, a listed subscriber is watched, and one that is
\* connected is listed unless it was removed on an outdated response
\* (Subscriber.Toggle, Subscriber.WaitForDisconnect, Presence.Watch).
THEOREM PresenceKept == PresenceSpec => []PresenceSound
<1>1. PresenceInv => PresenceSound
  <2> SUFFICES ASSUME PresenceInv PROVE PresenceSound
    OBVIOUS
  <2>1. toggles = Cardinality({n \in Nonce : departure[n] # "none" /\ n \notin untoggled})
    BY DEF PresenceInv, Here
  <2>2. \A n \in Nonce : event[n] # Absent => link[n] = "open" \/ departure[n] = "waiting"
    BY DEF PresenceInv, ClientOK
  <2>3. listed => \E n \in Nonce : watch[n].at \notin {"none", "done"}
    BY DEF PresenceInv, ListedOK
  <2>4. \A n \in Nonce : visitor[n] = "in" /\ link[n] = "open" => listed \/ unseen
    BY DEF PresenceInv, ListedOK
  <2> QED
    BY <2>1, <2>2, <2>3, <2>4 DEF PresenceSound
<1> QED
  BY <1>1, PresenceInvariance, PTL

-----------------------------------------------------------------------------
(* The PubSub library.                                                     *)

Msgs == Seq(Nat)

\* What there is of the messages of a queue: taken, queued, memoized by the
\* Broker, sliced off the topic, and in the topic.
Joined(a, b, c, d, e) == (a \o b) \o ((c \o d) \o e)

\* Joining sequences of messages.
LEMMA Joins ==
    ASSUME NEW a \in Msgs, NEW b \in Msgs
    PROVE  /\ a \o b \in Msgs /\ a \o <<>> = a /\ <<>> \o a = a
           /\ <<>> \in Msgs /\ ToSet(a \o b) = ToSet(a) \cup ToSet(b)
           /\ ToSet(<<>>) = {}
<1>1. <<>> \in Msgs /\ ToSet(<<>>) = {}
  BY DEF Msgs, ToSet
<1>2. a \o <<>> = a /\ <<>> \o a = a
  BY ConcatEmptySeq DEF Msgs
<1>3. /\ a \o b \in Seq(Nat) /\ Len(a \o b) = Len(a) + Len(b)
      /\ Len(a) \in Nat /\ Len(b) \in Nat
      /\ \A i \in 1..Len(a) + Len(b) :
            (a \o b)[i] = IF i <= Len(a) THEN a[i] ELSE b[i - Len(a)]
  BY ConcatProperties DEF Msgs
<1>4. /\ DOMAIN (a \o b) = 1..(Len(a) + Len(b))
      /\ DOMAIN a = 1..Len(a) /\ DOMAIN b = 1..Len(b)
  BY <1>3 DEF Msgs
<1>5. ASSUME NEW x \in ToSet(a \o b) PROVE x \in ToSet(a) \cup ToSet(b)
  <2>1. PICK i \in 1..(Len(a) + Len(b)) : x = (a \o b)[i]
    BY <1>4 DEF ToSet
  <2>2. CASE i <= Len(a)
    BY <1>3, <1>4, <2>1, <2>2 DEF ToSet
  <2>3. CASE ~(i <= Len(a))
    <3>1. i - Len(a) \in 1..Len(b) /\ x = b[i - Len(a)]
      BY <1>3, <2>1, <2>3
    <3> QED
      BY <1>4, <3>1 DEF ToSet
  <2> QED
    BY <2>2, <2>3
<1>6. ASSUME NEW x \in ToSet(a) PROVE x \in ToSet(a \o b)
  <2>1. PICK i \in 1..Len(a) : x = a[i]
    BY <1>4 DEF ToSet
  <2>2. i \in 1..(Len(a) + Len(b)) /\ (a \o b)[i] = x
    BY <1>3, <2>1
  <2> QED
    BY <1>4, <2>2 DEF ToSet
<1>7. ASSUME NEW x \in ToSet(b) PROVE x \in ToSet(a \o b)
  <2>1. PICK i \in 1..Len(b) : x = b[i]
    BY <1>4 DEF ToSet
  <2>2. Len(a) + i \in 1..(Len(a) + Len(b)) /\ (a \o b)[Len(a) + i] = x
    BY <1>3, <2>1
  <2> QED
    BY <1>4, <2>2 DEF ToSet
<1> QED
  BY <1>1, <1>2, <1>3, <1>5, <1>6, <1>7 DEF Msgs

\* Joining is associative.
LEMMA Associates ==
    ASSUME NEW a \in Msgs, NEW b \in Msgs, NEW c \in Msgs
    PROVE  (a \o b) \o c = a \o (b \o c)
BY ConcatAssociative DEF Msgs

\* A sequence increases if both its parts do and the first is before the second.
Before(a, b) == \A x \in ToSet(a), y \in ToSet(b) : x < y

\* When a joined sequence increases.
LEMMA IncreasingJoins ==
    ASSUME NEW a \in Msgs, NEW b \in Msgs
    PROVE  Increasing(a \o b) <=> Increasing(a) /\ Increasing(b) /\ Before(a, b)
<1>1. /\ a \o b \in Seq(Nat) /\ Len(a \o b) = Len(a) + Len(b)
      /\ Len(a) \in Nat /\ Len(b) \in Nat
      /\ \A i \in 1..Len(a) + Len(b) :
            (a \o b)[i] = IF i <= Len(a) THEN a[i] ELSE b[i - Len(a)]
  BY ConcatProperties DEF Msgs
<1>2. /\ DOMAIN (a \o b) = 1..(Len(a) + Len(b))
      /\ DOMAIN a = 1..Len(a) /\ DOMAIN b = 1..Len(b)
  BY <1>1 DEF Msgs
<1>3. /\ \A i \in 1..Len(a) : i \in 1..(Len(a) + Len(b)) /\ (a \o b)[i] = a[i]
      /\ \A i \in 1..Len(b) : /\ Len(a) + i \in 1..(Len(a) + Len(b))
                              /\ (a \o b)[Len(a) + i] = b[i]
  BY <1>1
<1>4. ASSUME Increasing(a \o b)
      PROVE  Increasing(a) /\ Increasing(b) /\ Before(a, b)
  <2>1. \A i, j \in 1..(Len(a) + Len(b)) : i < j => (a \o b)[i] < (a \o b)[j]
    BY <1>2, <1>4 DEF Increasing
  <2>2. Increasing(a)
    BY <1>2, <1>3, <2>1 DEF Increasing
  <2>3. Increasing(b)
    <3> SUFFICES ASSUME NEW i \in 1..Len(b), NEW j \in 1..Len(b), i < j
                 PROVE  b[i] < b[j]
      BY <1>2 DEF Increasing
    <3>1. Len(a) + i < Len(a) + j
      BY <1>1
    <3> QED
      BY <1>3, <2>1, <3>1
  <2>4. ASSUME NEW x \in ToSet(a), NEW y \in ToSet(b) PROVE x < y
    <3>1. PICK i \in 1..Len(a) : x = a[i]
      BY <1>2 DEF ToSet
    <3>2. PICK j \in 1..Len(b) : y = b[j]
      BY <1>2 DEF ToSet
    <3>3. i < Len(a) + j
      BY <1>1
    <3> QED
      BY <1>3, <2>1, <3>1, <3>2, <3>3
  <2> QED
    BY <2>2, <2>3, <2>4 DEF Before
<1>5. ASSUME Increasing(a), Increasing(b), Before(a, b)
      PROVE  Increasing(a \o b)
  <2> SUFFICES ASSUME NEW i \in 1..(Len(a) + Len(b)), NEW j \in 1..(Len(a) + Len(b)),
                      i < j
               PROVE  (a \o b)[i] < (a \o b)[j]
    BY <1>2 DEF Increasing
  <2>1. CASE j <= Len(a)
    <3>1. i \in 1..Len(a) /\ j \in 1..Len(a)
      BY <1>1, <2>1
    <3> QED
      BY <1>2, <1>3, <1>5, <3>1 DEF Increasing
  <2>2. CASE ~(j <= Len(a)) /\ i <= Len(a)
    <3>1. i \in 1..Len(a) /\ j - Len(a) \in 1..Len(b)
      BY <1>1, <2>2
    <3>2. (a \o b)[i] = a[i] /\ (a \o b)[j] = b[j - Len(a)]
      BY <1>1, <2>2
    <3>3. a[i] \in ToSet(a) /\ b[j - Len(a)] \in ToSet(b)
      BY <1>2, <3>1 DEF ToSet
    <3> QED
      BY <1>5, <3>2, <3>3 DEF Before
  <2>3. CASE ~(i <= Len(a))
    <3>1. /\ i - Len(a) \in 1..Len(b) /\ j - Len(a) \in 1..Len(b)
          /\ i - Len(a) < j - Len(a)
      BY <1>1, <2>3
    <3>2. (a \o b)[i] = b[i - Len(a)] /\ (a \o b)[j] = b[j - Len(a)]
      BY <1>1, <2>3
    <3> QED
      BY <1>2, <1>5, <3>1, <3>2 DEF Increasing
  <2> QED
    BY <2>1, <2>2, <2>3
<1> QED
  BY <1>4, <1>5

\* Leaving out the middle.
LEMMA LeavesOut ==
    ASSUME NEW a \in Msgs, NEW b \in Msgs, NEW c \in Msgs, Increasing(a \o (b \o c))
    PROVE  Increasing(a \o c)
<1>1. b \o c \in Msgs /\ ToSet(b \o c) = ToSet(b) \cup ToSet(c)
  BY Joins
<1>2. Increasing(a) /\ Increasing(b \o c) /\ Before(a, b \o c)
  BY <1>1, IncreasingJoins
<1>3. Increasing(c) /\ Before(a, c)
  BY <1>1, <1>2, IncreasingJoins DEF Before
<1> QED
  BY <1>2, <1>3, IncreasingJoins

\* The messages that a call publishes come after all that were.
LEMMA Published ==
    ASSUME NEW p \in Nat, NEW n \in Nat, NEW items, items = [i \in 1..n |-> p + i]
    PROVE  items \in Msgs /\ Increasing(items) /\ \A x \in ToSet(items) : x > p /\ x <= p + n
<1>1. items \in Msgs /\ DOMAIN items = 1..n /\ \A i \in 1..n : items[i] = p + i
  BY DEF Msgs
<1> QED
  BY <1>1 DEF Increasing, ToSet

\* What becomes of the parts of a line as messages move on.
LEMMA PartsMove ==
    ASSUME NEW a \in Msgs, NEW b \in Msgs, NEW c \in Msgs, NEW d \in Msgs,
           NEW e \in Msgs
    PROVE  /\ Joined(a, b, c, d, e) \in Msgs
           /\ ToSet(Joined(a, b, c, d, e)) =
                 ToSet(a) \cup ToSet(b) \cup ToSet(c) \cup ToSet(d) \cup ToSet(e)
           /\ Joined(a, b, <<>>, <<>>, e) = Joined(a, b, <<>>, e, <<>>)
           /\ Joined(a, b, <<>>, d, e) = Joined(a, b, d, <<>>, e)
           /\ Joined(a, b, c, <<>>, e) = Joined(a, b \o c, <<>>, <<>>, e)
<1>0. <<>> \in Msgs
  BY Joins
<1>1. /\ a \o b \in Msgs /\ c \o d \in Msgs /\ (c \o d) \o e \in Msgs
      /\ Joined(a, b, c, d, e) \in Msgs
  BY Joins DEF Joined
<1>2. /\ ToSet(a \o b) = ToSet(a) \cup ToSet(b)
      /\ ToSet(c \o d) = ToSet(c) \cup ToSet(d)
      /\ ToSet((c \o d) \o e) = ToSet(c \o d) \cup ToSet(e)
      /\ ToSet(Joined(a, b, c, d, e)) = ToSet(a \o b) \cup ToSet((c \o d) \o e)
  BY <1>1, Joins DEF Joined
<1>4. Joined(a, b, <<>>, <<>>, e) = Joined(a, b, <<>>, e, <<>>)
  <2>1. (<<>> \o <<>>) \o e = e /\ (<<>> \o e) \o <<>> = e
    BY <1>0, Joins
  <2> QED
    BY <2>1 DEF Joined
<1>5. Joined(a, b, <<>>, d, e) = Joined(a, b, d, <<>>, e)
  <2>1. <<>> \o d = d /\ d \o <<>> = d
    BY Joins
  <2> QED
    BY <2>1 DEF Joined
<1>6. Joined(a, b, c, <<>>, e) = Joined(a, b \o c, <<>>, <<>>, e)
  <2>1. c \o <<>> = c /\ (<<>> \o <<>>) \o e = e
    BY <1>0, Joins
  <2>0. PICK ab \in Msgs : ab = a \o b
    BY <1>1
  <2>2. ab \o (c \o e) = (ab \o c) \o e
    BY Associates
  <2>3. (a \o b) \o c = a \o (b \o c)
    BY Associates, SMTT(20)
  <2> QED
    BY <2>0, <2>1, <2>2, <2>3 DEF Joined
<1>8. ToSet(Joined(a, b, c, d, e)) =
          ToSet(a) \cup ToSet(b) \cup ToSet(c) \cup ToSet(d) \cup ToSet(e)
  BY <1>2
<1> QED
  BY <1>1, <1>4, <1>5, <1>6, <1>8

\* What is published goes to the end of every line.
EndsWith(a, b, c, d, e, x) == Joined(a, b, c, d, e \o x) = Joined(a, b, c, d, e) \o x
Regroups(u, v, e, x) == u \o (v \o (e \o x)) = (u \o (v \o e)) \o x

\* What is appended to the last part is appended to the whole.
LEMMA Grouping ==
    ASSUME NEW u \in Msgs, NEW v \in Msgs, NEW e \in Msgs, NEW x \in Msgs
    PROVE  Regroups(u, v, e, x)
<1>1. PICK ve \in Msgs : ve = v \o e
  BY Joins
<1>2. v \o (e \o x) = ve \o x
  BY <1>1, Associates, SMTT(20)
<1>3. u \o (ve \o x) = (u \o ve) \o x
  BY Associates, SMTT(20)
<1> QED
  BY <1>1, <1>2, <1>3 DEF Regroups

\* What is published goes to the end of a line.
LEMMA EndGrows ==
    ASSUME NEW a \in Msgs, NEW b \in Msgs, NEW c \in Msgs, NEW d \in Msgs,
           NEW e \in Msgs, NEW x \in Msgs
    PROVE  EndsWith(a, b, c, d, e, x)
<1>1. PICK u \in Msgs, v \in Msgs : u = a \o b /\ v = c \o d
  BY Joins
<1>2. Regroups(u, v, e, x)
  BY Grouping
<1> QED
  BY <1>1, <1>2 DEF Joined, Regroups, EndsWith

\* What is taken off a queue stays in the line.
LEMMA FrontTaken ==
    ASSUME NEW a \in Msgs, NEW b \in Msgs, NEW c, NEW d, NEW e, NEW x \in Msgs
    PROVE  Joined(a, x \o b, c, d, e) = Joined(a \o x, b, c, d, e)
<1>1. a \o (x \o b) = (a \o x) \o b
  BY Associates
<1> QED
  BY <1>1 DEF Joined

\* What is left increases when what was sliced is lost.
LEMMA SliceLost ==
    ASSUME NEW a \in Msgs, NEW b \in Msgs, NEW d \in Msgs, NEW e \in Msgs,
           Increasing(Joined(a, b, <<>>, d, e))
    PROVE  Increasing(Joined(a, b, <<>>, <<>>, e))
<1>1. <<>> \in Msgs /\ a \o b \in Msgs
  BY Joins
<1>2. (<<>> \o d) \o e = d \o e /\ (<<>> \o <<>>) \o e = e
  BY <1>1, Joins
<1> QED
  BY <1>1, <1>2, LeavesOut DEF Joined

-----------------------------------------------------------------------------
Batch == [queues : SUBSET Subscriber, items : Msgs]
TopicState == [items : Msgs, queue_ids : SUBSET Subscriber, broker_started : BOOLEAN]
BrokerState == [at : {"off", "wait", "have", "send"}, sliced : Batch,
                answered : SUBSET Subscriber]
TakerState == [at : {"wait", "try", "have"}, items : Msgs]

PubSubShapes ==
    /\ topic \in TopicState /\ broker \in BrokerState /\ memoized \in Batch
    /\ enqueued \subseteq memoized.queues /\ broker.answered \subseteq enqueued
    /\ queue \in [Subscriber -> Msgs] /\ taken \in [Subscriber -> Msgs]
    /\ taker \in [Taker -> TakerState]
    /\ owed \in [Subscriber -> SUBSET Nat] /\ dropped \in [Subscriber -> SUBSET Nat]
    /\ published \in Nat

\* The Broker has sliced something only before it memoizes it, and has
\* memoized something exactly while it sends it.
PhaseOK ==
    /\ ~topic.broker_started => broker.at = "off"
    /\ broker.at # "have" => broker.sliced = NoBatch
    /\ broker.at = "have" => broker.sliced.items # <<>>
    /\ broker.at # "send" => memoized = NoBatch
    /\ broker.at = "send" => memoized.items # <<>>

MemoPart(q) == IF q \in memoized.queues \ enqueued THEN memoized.items ELSE <<>>
SlicedPart(q) == IF q \in broker.sliced.queues THEN broker.sliced.items ELSE <<>>
Line(q) == Joined(taken[q], queue[q], MemoPart(q), SlicedPart(q), topic.items)

LineOK(q) ==
    /\ Increasing(Line(q)) /\ \A x \in ToSet(Line(q)) : x <= published
    /\ owed[q] \subseteq ToSet(Line(q)) \cup dropped[q]
    /\ q \notin topic.queue_ids => owed[q] = {}

PubSubInv == PubSubShapes /\ PhaseOK /\ \A q \in Subscriber : LineOK(q)

\* The parts of a line.
LEMMA Parts ==
    ASSUME PubSubShapes, NEW q \in Subscriber
    PROVE  /\ taken[q] \in Msgs /\ queue[q] \in Msgs /\ topic.items \in Msgs
           /\ MemoPart(q) \in Msgs /\ SlicedPart(q) \in Msgs /\ Line(q) \in Msgs
           /\ <<>> \in Msgs
<1>1. <<>> \in Msgs
  BY DEF Msgs
<1>2. /\ taken[q] \in Msgs /\ queue[q] \in Msgs /\ topic.items \in Msgs
      /\ memoized.items \in Msgs /\ broker.sliced \in Batch
  BY DEF PubSubShapes, TopicState, BrokerState, Batch
<1>3. MemoPart(q) \in Msgs /\ SlicedPart(q) \in Msgs
  BY <1>1, <1>2 DEF MemoPart, SlicedPart, Batch
<1> QED
  BY <1>1, <1>2, <1>3, PartsMove DEF Line

\* A step that only moves a queue's messages on.
LEMMA LineStays ==
    ASSUME NEW q \in Subscriber, LineOK(q), Line(q)' = Line(q), owed'[q] = owed[q],
           dropped[q] \subseteq dropped'[q], published' = published,
           topic.queue_ids \subseteq topic'.queue_ids
    PROVE  LineOK(q)'
BY DEF LineOK

\* The Broker that has nothing.
LEMMA NoBatchParts ==
    /\ NoBatch \in Batch /\ NoBatch.queues = {} /\ NoBatch.items = <<>>
BY DEF NoBatch, Batch, Msgs

\* What is empty in each phase.
LEMMA Phases ==
    ASSUME PubSubShapes, PhaseOK, NEW q \in Subscriber
    PROVE  /\ broker.at # "have" => SlicedPart(q) = <<>>
           /\ broker.at # "send" => MemoPart(q) = <<>> /\ enqueued = {}
                                    /\ broker.answered = {}
BY NoBatchParts DEF PhaseOK, SlicedPart, MemoPart, PubSubShapes

\* The invariant holds initially.
LEMMA PubSubStart == PubSubInit => PubSubInv
<1> SUFFICES ASSUME PubSubInit PROVE PubSubInv
  OBVIOUS
<1>1. <<>> \in Msgs /\ ToSet(<<>>) = {} /\ Increasing(<<>>)
  BY DEF Msgs, ToSet, Increasing
<1>2. /\ topic \in TopicState /\ topic.items = <<>> /\ topic.broker_started = FALSE
      /\ topic.queue_ids = {}
  BY <1>1 DEF PubSubInit, TopicState
<1>3. /\ broker \in BrokerState /\ broker.at = "off" /\ broker.sliced = NoBatch
      /\ broker.answered = {}
  BY NoBatchParts DEF PubSubInit, BrokerState
<1>4. [at |-> "wait", items |-> <<>>] \in TakerState
  BY <1>1 DEF TakerState
<1>5. PubSubShapes
  BY <1>1, <1>2, <1>3, <1>4, NoBatchParts DEF PubSubInit, PubSubShapes
<1>6. PhaseOK
  BY <1>2, <1>3 DEF PhaseOK, PubSubInit
<1>7. ASSUME NEW q \in Subscriber PROVE LineOK(q)
  <2>1. MemoPart(q) = <<>> /\ SlicedPart(q) = <<>>
    BY <1>3, <1>5, <1>6, Phases
  <2>2. /\ taken[q] = <<>> /\ queue[q] = <<>> /\ owed[q] = {} /\ dropped[q] = {}
        /\ published = 0
    BY DEF PubSubInit
  <2>3. Line(q) = <<>>
    <3>1. <<>> \o <<>> = <<>>
      BY <1>1, Joins
    <3> QED
      BY <1>2, <2>1, <2>2, <3>1 DEF Line, Joined
  <2> QED
    BY <1>1, <2>2, <2>3 DEF LineOK
<1> QED
  BY <1>5, <1>6, <1>7 DEF PubSubInv

\* The Broker is scheduled, or goes on as it was.
LEMMA SchedulesBroker ==
    ASSUME PubSubShapes, PhaseOK, Scheduled
    PROVE  /\ broker' \in BrokerState /\ broker'.sliced = broker.sliced
           /\ broker'.answered = broker.answered
           /\ broker'.at = broker.at \/ (broker.at = "off" /\ broker'.at = "wait")
<1>1. broker \in BrokerState
  BY DEF PubSubShapes
<1>2. \A b \in BrokerState :
          /\ [b EXCEPT !.at = "wait"] \in BrokerState
          /\ [b EXCEPT !.at = "wait"].at = "wait"
          /\ [b EXCEPT !.at = "wait"].sliced = b.sliced
          /\ [b EXCEPT !.at = "wait"].answered = b.answered
  BY DEF BrokerState
<1>3. CASE topic.broker_started
  BY <1>1, <1>3 DEF Scheduled
<1>4. CASE ~topic.broker_started
  BY <1>1, <1>2, <1>4 DEF Scheduled, PhaseOK
<1> QED
  BY <1>3, <1>4

\* A step that schedules the Broker leaves its phase right.
LEMMA PhaseStays ==
    ASSUME PubSubShapes, PhaseOK, topic'.broker_started, UNCHANGED memoized,
           broker'.sliced = broker.sliced,
           broker'.at = broker.at \/ (broker.at = "off" /\ broker'.at = "wait")
    PROVE  PhaseOK'
BY DEF PhaseOK

\* A publication keeps the invariant.
LEMMA PublishKeeps ==
    ASSUME PubSubInv, NEW n \in 1..2, Publish(n)
    PROVE  PubSubInv'
<1>0. PubSubShapes /\ PhaseOK /\ published \in Nat /\ n \in Nat
  BY DEF PubSubInv, PubSubShapes
<1>1. PICK items : items = [i \in 1..n |-> published + i]
  OBVIOUS
<1>2. /\ items \in Msgs /\ Increasing(items)
      /\ \A x \in ToSet(items) : x > published /\ x <= published + n
  BY <1>0, <1>1, Published
<1>3. /\ UNCHANGED <<memoized, enqueued, queue, taker, taken, dropped>>
      /\ published' = published + n
      /\ topic' = [topic EXCEPT !.items = @ \o items, !.broker_started = TRUE]
      /\ owed' = [q \in Subscriber |-> IF q \in topic.queue_ids
                     THEN owed[q] \cup ToSet(items) ELSE owed[q]]
      /\ Scheduled
  BY <1>1 DEF Publish
<1>4. /\ topic' \in TopicState /\ topic'.items = topic.items \o items
      /\ topic'.broker_started /\ topic'.queue_ids = topic.queue_ids
  <2>1. topic \in TopicState /\ topic.items \o items \in Msgs
    BY <1>0, <1>2, Joins DEF PubSubShapes, TopicState
  <2>2. \A t \in TopicState, m \in Msgs :
          LET t2 == [t EXCEPT !.items = m, !.broker_started = TRUE]
          IN  /\ t2 \in TopicState /\ t2.items = m /\ t2.broker_started = TRUE
              /\ t2.queue_ids = t.queue_ids
    BY DEF TopicState
  <2> QED
    BY <1>3, <2>1, <2>2
<1>5. /\ broker' \in BrokerState /\ broker'.sliced = broker.sliced
      /\ broker'.answered = broker.answered
      /\ broker'.at = broker.at \/ (broker.at = "off" /\ broker'.at = "wait")
  BY <1>0, <1>3, SchedulesBroker
<1>6. PubSubShapes'
  <2>1. ToSet(items) \subseteq Nat
    BY <1>2 DEF Msgs, ToSet
  <2>2. owed' \in [Subscriber -> SUBSET Nat] /\ published' \in Nat
    BY <1>0, <1>3, <2>1 DEF PubSubShapes
  <2> QED
    BY <1>0, <1>3, <1>4, <1>5, <2>2 DEF PubSubShapes
<1>7. PhaseOK'
  BY <1>0, <1>3, <1>4, <1>5, PhaseStays
<1>8. ASSUME NEW q \in Subscriber PROVE LineOK(q)'
  <2>1. PICK l \in Msgs : l = Line(q)
    BY <1>0, Parts
  <2>2. Line(q)' = l \o items
    <3>1. MemoPart(q)' = MemoPart(q) /\ SlicedPart(q)' = SlicedPart(q)
      BY <1>3, <1>5 DEF MemoPart, SlicedPart
    <3>2. Line(q)' = Joined(taken[q], queue[q], MemoPart(q), SlicedPart(q),
                            topic.items \o items)
      BY <1>3, <1>4, <3>1 DEF Line
    <3>3. /\ taken[q] \in Msgs /\ queue[q] \in Msgs /\ topic.items \in Msgs
          /\ MemoPart(q) \in Msgs /\ SlicedPart(q) \in Msgs
      BY <1>0, Parts
    <3>4. Line(q)' = Joined(taken[q], queue[q], MemoPart(q), SlicedPart(q),
                            topic.items) \o items
      <4>1. EndsWith(taken[q], queue[q], MemoPart(q), SlicedPart(q), topic.items, items)
        BY <1>2, <3>3, EndGrows
      <4> QED
        BY <3>2, <4>1 DEF EndsWith
    <3> QED
      BY <2>1, <3>4 DEF Line
  <2>3. LineOK(q)
    BY DEF PubSubInv
  <2>4. ToSet(l \o items) = ToSet(l) \cup ToSet(items) /\ ToSet(l) \subseteq Nat
    <3>1. ToSet(l) \subseteq Nat
      BY DEF Msgs, ToSet
    <3> QED
      BY <1>2, <3>1, Joins
  <2>5. Before(l, items)
    <3>1. \A x \in ToSet(l) : x \in Nat /\ x <= published
      BY <2>1, <2>3, <2>4 DEF LineOK
    <3>2. \A y \in ToSet(items) : y \in Nat
      BY <1>2 DEF Msgs, ToSet
    <3> QED
      BY <1>0, <1>2, <3>1, <3>2 DEF Before
  <2>6. Increasing(l \o items)
    BY <1>2, <2>1, <2>3, <2>5, IncreasingJoins DEF LineOK
  <2>7. \A x \in ToSet(l \o items) : x <= published'
    BY <1>0, <1>2, <1>3, <2>1, <2>3, <2>4 DEF LineOK
  <2>8. owed'[q] \subseteq ToSet(l \o items) \cup dropped'[q]
    BY <1>3, <2>1, <2>3, <2>4 DEF LineOK
  <2>9. q \notin topic'.queue_ids => owed'[q] = {}
    BY <1>3, <1>4, <2>3 DEF LineOK
  <2> QED
    BY <2>2, <2>6, <2>7, <2>8, <2>9 DEF LineOK
<1> QED
  BY <1>6, <1>7, <1>8 DEF PubSubInv

\* A subscription keeps the invariant.
LEMMA SubscribeKeeps ==
    ASSUME PubSubInv, NEW q \in Subscriber, Subscribe(q)
    PROVE  PubSubInv'
<1>0. PubSubShapes /\ PhaseOK
  BY DEF PubSubInv
<1>1. /\ UNCHANGED <<memoized, enqueued, queue, taker, taken, owed, dropped, published>>
      /\ Scheduled
  BY DEF Subscribe
<1>2. /\ topic' \in TopicState /\ topic'.items = topic.items
      /\ topic'.broker_started /\ topic.queue_ids \subseteq topic'.queue_ids
  <2>1. topic \in TopicState
    BY <1>0 DEF PubSubShapes
  <2>2. \A t \in TopicState :
          LET t2 == [t EXCEPT !.queue_ids = @ \cup {q}, !.broker_started = TRUE]
          IN  /\ t2 \in TopicState /\ t2.items = t.items /\ t2.broker_started = TRUE
              /\ t.queue_ids \subseteq t2.queue_ids
    BY DEF TopicState
  <2> QED
    BY <2>1, <2>2 DEF Subscribe
<1>3. /\ broker' \in BrokerState /\ broker'.sliced = broker.sliced
      /\ broker'.answered = broker.answered
      /\ broker'.at = broker.at \/ (broker.at = "off" /\ broker'.at = "wait")
  BY <1>0, <1>1, SchedulesBroker
<1>4. PubSubShapes'
  BY <1>0, <1>1, <1>2, <1>3 DEF PubSubShapes
<1>5. PhaseOK'
  BY <1>0, <1>1, <1>2, <1>3, PhaseStays
<1>6. ASSUME NEW r \in Subscriber PROVE LineOK(r)'
  <2>1. Line(r)' = Line(r)
    BY <1>1, <1>2, <1>3 DEF Line, MemoPart, SlicedPart
  <2> QED
    BY <1>1, <1>2, <2>1, LineStays DEF PubSubInv
<1> QED
  BY <1>4, <1>5, <1>6 DEF PubSubInv

\* Taking items off the topic keeps the invariant.
LEMMA SliceKeeps ==
    ASSUME PubSubInv, SliceItems
    PROVE  PubSubInv'
<1>0. PubSubShapes /\ PhaseOK /\ topic \in TopicState /\ topic.items \in Msgs
  BY DEF PubSubInv, PubSubShapes, TopicState
<1>1. /\ UNCHANGED <<memoized, enqueued, queue, taker, taken, owed, dropped, published>>
      /\ broker.at = "wait" /\ topic.items # <<>>
  BY DEF SliceItems
<1>2. /\ topic' \in TopicState /\ topic'.items = <<>>
      /\ topic'.broker_started = topic.broker_started
      /\ topic'.queue_ids = topic.queue_ids
  <2>1. <<>> \in Msgs
    BY DEF Msgs
  <2>2. \A t \in TopicState :
          LET t2 == [t EXCEPT !.items = <<>>]
          IN  /\ t2 \in TopicState /\ t2.items = <<>> /\ t2.queue_ids = t.queue_ids
              /\ t2.broker_started = t.broker_started
    BY <2>1 DEF TopicState
  <2> QED
    BY <1>0, <2>2 DEF SliceItems, AfterSlice
<1>3. PICK s \in Batch : /\ s = [queues |-> topic.queue_ids, items |-> topic.items]
                         /\ s.queues = topic.queue_ids /\ s.items = topic.items
  <2>1. topic.queue_ids \in SUBSET Subscriber
    BY <1>0 DEF TopicState
  <2>2. \A u \in SUBSET Subscriber, m \in Msgs :
            LET s == [queues |-> u, items |-> m]
            IN  s \in Batch /\ s.queues = u /\ s.items = m
    BY DEF Batch
  <2> QED
    BY <1>0, <2>1, <2>2
<1>4. /\ broker' \in BrokerState /\ broker'.at = "have" /\ broker'.sliced = s
      /\ broker'.answered = broker.answered
  <2>1. \A b \in BrokerState :
          LET b2 == [b EXCEPT !.at = "have", !.sliced = s]
          IN  /\ b2 \in BrokerState /\ b2.at = "have" /\ b2.sliced = s
              /\ b2.answered = b.answered
    BY DEF BrokerState
  <2> QED
    BY <1>0, <1>3, <2>1 DEF SliceItems, PubSubShapes
<1>5. PubSubShapes'
  BY <1>0, <1>1, <1>2, <1>4 DEF PubSubShapes
<1>6. PhaseOK'
  BY <1>0, <1>1, <1>2, <1>3, <1>4 DEF PhaseOK
<1>7. ASSUME NEW q \in Subscriber PROVE LineOK(q)'
  <2>0. LineOK(q)
    BY DEF PubSubInv
  <2>1. PICK a \in Msgs, b \in Msgs, e \in Msgs :
            a = taken[q] /\ b = queue[q] /\ e = topic.items
    BY <1>0, Parts
  <2>2. Line(q) = Joined(a, b, <<>>, <<>>, e)
    BY <1>0, <1>1, <2>1, Phases DEF Line
  <2>3. MemoPart(q)' = <<>>
    <3>1. MemoPart(q) = <<>>
      BY <1>0, <1>1, Phases
    <3> QED
      BY <1>1, <3>1 DEF MemoPart
  <2>4. CASE q \in topic.queue_ids
    <3>1. SlicedPart(q)' = e
      BY <1>3, <1>4, <2>1, <2>4 DEF SlicedPart
    <3>2. Line(q)' = Joined(a, b, <<>>, e, <<>>)
      BY <1>1, <1>2, <2>1, <2>3, <3>1 DEF Line
    <3>3. Line(q)' = Line(q)
      BY <2>2, <3>2, PartsMove
    <3> QED
      BY <1>1, <1>2, <2>0, <3>3, LineStays
  <2>5. CASE q \notin topic.queue_ids
    <3>0. PICK n \in Msgs : n = <<>> /\ ToSet(n) = {}
      <4>1. <<>> \in Msgs /\ ToSet(<<>>) = {}
        BY <2>1, Joins
      <4> QED
        BY <4>1
    <3>1. SlicedPart(q)' = <<>>
      BY <1>3, <1>4, <2>5 DEF SlicedPart
    <3>2. Line(q)' = Joined(a, b, n, n, n)
      BY <1>1, <1>2, <2>1, <2>3, <3>0, <3>1 DEF Line
    <3>3. Joined(a, b, n, n, e) = Joined(a, b, n, e, n)
      BY <3>0, PartsMove
    <3>4. Increasing(Line(q)')
      BY <2>0, <2>2, <3>0, <3>2, <3>3, SliceLost DEF LineOK
    <3>5. /\ ToSet(Joined(a, b, n, n, n)) = ToSet(a) \cup ToSet(b)
          /\ ToSet(Joined(a, b, n, n, e)) = ToSet(a) \cup ToSet(b) \cup ToSet(e)
      <4>1. /\ ToSet(Joined(a, b, n, n, n)) =
                 ToSet(a) \cup ToSet(b) \cup ToSet(n) \cup ToSet(n) \cup ToSet(n)
            /\ ToSet(Joined(a, b, n, n, e)) =
                 ToSet(a) \cup ToSet(b) \cup ToSet(n) \cup ToSet(n) \cup ToSet(e)
        BY PartsMove
      <4> QED
        BY <3>0, <4>1
    <3>6. \A x \in ToSet(Line(q)') : x <= published'
      BY <1>1, <2>0, <2>2, <3>0, <3>2, <3>5 DEF LineOK
    <3>7. owed'[q] = {}
      BY <1>1, <2>0, <2>5 DEF LineOK
    <3> QED
      BY <3>4, <3>6, <3>7 DEF LineOK
  <2> QED
    BY <2>4, <2>5
<1> QED
  BY <1>5, <1>6, <1>7 DEF PubSubInv

\* Memoizing what was taken keeps the invariant.
LEMMA MemoizesKeeps ==
    ASSUME PubSubInv, BrokerMemoizes
    PROVE  PubSubInv'
<1>0. PubSubShapes /\ PhaseOK /\ broker \in BrokerState /\ broker.at = "have"
  BY DEF PubSubInv, PubSubShapes, BrokerMemoizes
<1>1. /\ UNCHANGED <<topic, enqueued, queue, taker, taken, owed, dropped, published>>
      /\ memoized' = broker.sliced
  BY DEF BrokerMemoizes
<1>2. /\ broker' \in BrokerState /\ broker'.at = "send" /\ broker'.sliced = NoBatch
      /\ broker'.answered = broker.answered
  <2>1. \A b \in BrokerState :
          LET b2 == [b EXCEPT !.at = "send", !.sliced = NoBatch]
          IN  /\ b2 \in BrokerState /\ b2.at = "send" /\ b2.sliced = NoBatch
              /\ b2.answered = b.answered
    BY NoBatchParts DEF BrokerState
  <2> QED
    BY <1>0, <2>1 DEF BrokerMemoizes
<1>3. enqueued = {} /\ broker.answered = {}
  BY <1>0, NoBatchParts DEF PhaseOK, PubSubShapes
<1>4. memoized' \in Batch
  BY <1>0, <1>1 DEF BrokerState
<1>5. PubSubShapes'
  BY <1>0, <1>1, <1>2, <1>3, <1>4 DEF PubSubShapes
<1>6. PhaseOK'
  BY <1>0, <1>1, <1>2 DEF PhaseOK
<1>7. ASSUME NEW q \in Subscriber PROVE LineOK(q)'
  <2>1. PICK a \in Msgs, b \in Msgs, d \in Msgs, e \in Msgs :
            a = taken[q] /\ b = queue[q] /\ d = SlicedPart(q) /\ e = topic.items
    BY <1>0, Parts
  <2>2. Line(q) = Joined(a, b, <<>>, d, e)
    BY <1>0, <2>1, Phases DEF Line
  <2>3. MemoPart(q)' = d /\ SlicedPart(q)' = <<>>
    BY <1>1, <1>2, <1>3, <2>1, NoBatchParts DEF MemoPart, SlicedPart
  <2>4. Line(q)' = Joined(a, b, d, <<>>, e)
    BY <1>1, <2>1, <2>3 DEF Line
  <2>5. Line(q)' = Line(q)
    BY <2>2, <2>4, PartsMove
  <2> QED
    BY <1>1, <2>5, LineStays DEF PubSubInv
<1> QED
  BY <1>5, <1>6, <1>7 DEF PubSubInv

\* Putting what is memoized into a queue keeps the invariant.
LEMMA EnqueueKeeps ==
    ASSUME PubSubInv, NEW q \in Subscriber, Enqueue(q)
    PROVE  PubSubInv'
<1>0. PubSubShapes /\ PhaseOK /\ broker.at = "send"
  BY DEF PubSubInv, Enqueue
<1>1. /\ UNCHANGED <<topic, broker, memoized, taker, taken, owed, dropped, published>>
      /\ q \in memoized.queues \ enqueued /\ enqueued' = enqueued \cup {q}
      /\ queue' = [queue EXCEPT ![q] = @ \o memoized.items]
  BY DEF Enqueue, Known
<1>2. PICK c \in Msgs : c = memoized.items
  BY <1>0 DEF PubSubShapes, Batch
<1>3. queue[q] \o c \in Msgs
  BY <1>0, Joins DEF PubSubShapes
<1>4. /\ queue' \in [Subscriber -> Msgs] /\ queue'[q] = queue[q] \o c
      /\ \A r \in Subscriber \ {q} : queue'[r] = queue[r]
  BY <1>0, <1>1, <1>2, <1>3 DEF PubSubShapes
<1>5. PubSubShapes'
  BY <1>0, <1>1, <1>4 DEF PubSubShapes
<1>6. PhaseOK'
  BY <1>0, <1>1 DEF PhaseOK
<1>7. ASSUME NEW r \in Subscriber PROVE LineOK(r)'
  <2>1. CASE r # q
    <3>1. Line(r)' = Line(r)
      BY <1>1, <1>4, <2>1 DEF Line, MemoPart, SlicedPart
    <3> QED
      BY <1>1, <3>1, LineStays DEF PubSubInv
  <2>2. CASE r = q
    <3>1. PICK a \in Msgs, b \in Msgs, e \in Msgs :
              a = taken[q] /\ b = queue[q] /\ e = topic.items
      BY <1>0, Parts
    <3>2. SlicedPart(q) = <<>> /\ MemoPart(q) = c
      BY <1>0, <1>1, <1>2, Phases DEF MemoPart
    <3>3. Line(q) = Joined(a, b, c, <<>>, e)
      BY <3>1, <3>2 DEF Line
    <3>4. SlicedPart(q)' = <<>> /\ MemoPart(q)' = <<>>
      BY <1>1, <3>2 DEF MemoPart, SlicedPart
    <3>5. Line(q)' = Joined(a, b \o c, <<>>, <<>>, e)
      BY <1>1, <1>4, <3>1, <3>4 DEF Line
    <3>6. Line(q)' = Line(q)
      BY <3>3, <3>5, PartsMove
    <3> QED
      BY <1>1, <2>2, <3>6, LineStays DEF PubSubInv
  <2> QED
    BY <2>1, <2>2
<1> QED
  BY <1>5, <1>6, <1>7 DEF PubSubInv

\* The answer of a queue keeps the invariant.
LEMMA AnsweredKeeps ==
    ASSUME PubSubInv, NEW q \in Subscriber, EnqueueAnswered(q)
    PROVE  PubSubInv'
<1>0. PubSubShapes /\ PhaseOK /\ broker \in BrokerState
  BY DEF PubSubInv, PubSubShapes
<1>1. /\ UNCHANGED <<topic, memoized, enqueued, queue, taker, taken, owed, dropped,
                     published>>
      /\ q \in enqueued
  BY DEF EnqueueAnswered
<1>2. /\ broker' \in BrokerState /\ broker'.at = broker.at
      /\ broker'.sliced = broker.sliced /\ broker'.answered = broker.answered \cup {q}
  <2>1. \A b \in BrokerState :
          LET b2 == [b EXCEPT !.answered = @ \cup {q}]
          IN  /\ b2 \in BrokerState /\ b2.at = b.at /\ b2.sliced = b.sliced
              /\ b2.answered = b.answered \cup {q}
    BY DEF BrokerState
  <2> QED
    BY <1>0, <2>1 DEF EnqueueAnswered
<1>3. PubSubShapes'
  BY <1>0, <1>1, <1>2 DEF PubSubShapes
<1>4. PhaseOK'
  BY <1>0, <1>1, <1>2 DEF PhaseOK
<1>5. ASSUME NEW r \in Subscriber PROVE LineOK(r)'
  <2>1. Line(r)' = Line(r)
    BY <1>1, <1>2 DEF Line, MemoPart, SlicedPart
  <2> QED
    BY <1>1, <2>1, LineStays DEF PubSubInv
<1> QED
  BY <1>3, <1>4, <1>5 DEF PubSubInv

\* The Broker as it is when it starts over.
LEMMA BrokerFresh ==
    ASSUME NEW at \in {"wait", "send"}, NEW b,
           b = [at |-> at, sliced |-> NoBatch, answered |-> {}]
    PROVE  b \in BrokerState /\ b.at = at /\ b.sliced = NoBatch /\ b.answered = {}
BY NoBatchParts DEF BrokerState

\* The next iteration of the Broker keeps the invariant.
LEMMA LoopsKeeps ==
    ASSUME PubSubInv, BrokerLoops
    PROVE  PubSubInv'
<1>0. PubSubShapes /\ PhaseOK /\ broker.at = "send"
  BY DEF PubSubInv, BrokerLoops
<1>1. /\ UNCHANGED <<topic, queue, taker, taken, owed, dropped, published>>
      /\ broker.answered = memoized.queues /\ memoized' = NoBatch /\ enqueued' = {}
  BY DEF BrokerLoops
<1>2. /\ broker' \in BrokerState /\ broker'.at = "wait" /\ broker'.sliced = NoBatch
      /\ broker'.answered = {}
  BY BrokerFresh DEF BrokerLoops
<1>3. PubSubShapes'
  BY <1>0, <1>1, <1>2, NoBatchParts DEF PubSubShapes
<1>4. PhaseOK'
  BY <1>0, <1>1, <1>2 DEF PhaseOK
<1>5. ASSUME NEW q \in Subscriber PROVE LineOK(q)'
  <2>1. MemoPart(q) = <<>> /\ SlicedPart(q) = <<>>
    BY <1>0, <1>1, Phases DEF MemoPart, PubSubShapes
  <2>2. MemoPart(q)' = <<>> /\ SlicedPart(q)' = <<>>
    BY <1>1, <1>2, NoBatchParts DEF MemoPart, SlicedPart
  <2>3. Line(q)' = Line(q)
    BY <1>1, <2>1, <2>2 DEF Line
  <2> QED
    BY <1>1, <2>3, LineStays DEF PubSubInv
<1> QED
  BY <1>3, <1>4, <1>5 DEF PubSubInv

\* What is lost with a slice was in it.
LEMMA LossCounted ==
    ASSUME NEW a \in Msgs, NEW b \in Msgs, NEW d \in Msgs, NEW e \in Msgs
    PROVE  ToSet(Joined(a, b, <<>>, d, e)) = ToSet(Joined(a, b, <<>>, <<>>, e)) \cup ToSet(d)
<1>1. PICK n \in Msgs : n = <<>> /\ ToSet(n) = {}
  <2>1. <<>> \in Msgs /\ ToSet(<<>>) = {}
    BY Joins
  <2> QED
    BY <2>1
<1>2. /\ ToSet(Joined(a, b, n, d, e)) =
           ToSet(a) \cup ToSet(b) \cup ToSet(n) \cup ToSet(d) \cup ToSet(e)
      /\ ToSet(Joined(a, b, n, n, e)) =
           ToSet(a) \cup ToSet(b) \cup ToSet(n) \cup ToSet(n) \cup ToSet(e)
  BY PartsMove
<1> QED
  BY <1>1, <1>2

\* Messages are numbered.
LEMMA MessageSet ==
    ASSUME NEW s \in Msgs
    PROVE  ToSet(s) \subseteq Nat
BY DEF Msgs, ToSet

\* A crash of the Broker, which drops what was sliced and not memoized,
\* keeps the invariant.
LEMMA BrokerCrashKeeps ==
    ASSUME PubSubInv, BrokerCrash
    PROVE  PubSubInv'
<1>0. /\ PubSubShapes /\ PhaseOK /\ broker \in BrokerState /\ broker.sliced \in Batch
      /\ broker.sliced.items \in Msgs
  BY DEF PubSubInv, PubSubShapes, BrokerState, Batch
<1>1. /\ UNCHANGED <<topic, memoized, enqueued, queue, taker, taken, owed, published>>
      /\ topic.broker_started
      /\ dropped' = [q \in Subscriber |-> IF q \in broker.sliced.queues
                        THEN dropped[q] \cup ToSet(broker.sliced.items) ELSE dropped[q]]
  BY DEF BrokerCrash
<1>2. /\ broker' \in BrokerState /\ broker'.sliced = NoBatch /\ broker'.answered = {}
      /\ broker'.at = IF memoized.items = <<>> THEN "wait" ELSE "send"
  BY BrokerFresh DEF BrokerCrash
<1>3. PubSubShapes'
  <2>1. dropped' \in [Subscriber -> SUBSET Nat]
    BY <1>0, <1>1, MessageSet DEF PubSubShapes
  <2> QED
    BY <1>0, <1>1, <1>2, <2>1 DEF PubSubShapes
<1>4. PhaseOK'
  BY <1>0, <1>1, <1>2, NoBatchParts DEF PhaseOK
<1>5. ASSUME NEW q \in Subscriber PROVE LineOK(q)'
  <2>0. LineOK(q)
    BY DEF PubSubInv
  <2>1. SlicedPart(q)' = <<>> /\ MemoPart(q)' = MemoPart(q)
    BY <1>1, <1>2, NoBatchParts DEF MemoPart, SlicedPart
  <2>2. dropped[q] \subseteq dropped'[q] /\ ToSet(SlicedPart(q)) \subseteq dropped'[q]
    <3>1. ToSet(<<>>) = {}
      BY DEF ToSet
    <3> QED
      BY <1>1, <3>1 DEF SlicedPart
  <2>3. CASE broker.at = "send"
    <3>1. SlicedPart(q) = <<>>
      BY <1>0, <2>3, Phases
    <3>2. Line(q)' = Line(q)
      BY <1>1, <2>1, <3>1 DEF Line
    <3> QED
      BY <1>1, <2>0, <2>2, <3>2, LineStays
  <2>4. CASE broker.at # "send"
    <3>1. PICK a \in Msgs, b \in Msgs, d \in Msgs, e \in Msgs :
              a = taken[q] /\ b = queue[q] /\ d = SlicedPart(q) /\ e = topic.items
      BY <1>0, Parts
    <3>2. MemoPart(q) = <<>>
      BY <1>0, <2>4, Phases
    <3>3. Line(q) = Joined(a, b, <<>>, d, e)
      BY <3>1, <3>2 DEF Line
    <3>4. Line(q)' = Joined(a, b, <<>>, <<>>, e)
      BY <1>1, <2>1, <3>1, <3>2 DEF Line
    <3>5. Increasing(Line(q)')
      BY <2>0, <3>3, <3>4, SliceLost DEF LineOK
    <3>6. ToSet(Line(q)) = ToSet(Line(q)') \cup ToSet(d)
      BY <3>3, <3>4, LossCounted
    <3>7. \A x \in ToSet(Line(q)') : x <= published'
      BY <1>1, <2>0, <3>6 DEF LineOK
    <3>8. owed'[q] \subseteq ToSet(Line(q)') \cup dropped'[q]
      BY <1>1, <2>0, <2>2, <3>1, <3>6 DEF LineOK
    <3>9. q \notin topic'.queue_ids => owed'[q] = {}
      BY <1>1, <2>0 DEF LineOK
    <3> QED
      BY <3>5, <3>7, <3>8, <3>9 DEF LineOK
  <2> QED
    BY <2>3, <2>4
<1> QED
  BY <1>3, <1>4, <1>5 DEF PubSubInv

\* The type of a dequeue that moves on.
LEMMA TakerTyped ==
    ASSUME PubSubShapes, NEW t \in Taker, NEW at \in {"wait", "try", "have"},
           NEW items \in Msgs, TakerMoves(t, at, items)
    PROVE  taker' \in [Taker -> TakerState]
<1>1. [at |-> at, items |-> items] \in TakerState
  BY DEF TakerState
<1> QED
  BY <1>1 DEF TakerMoves, PubSubShapes

\* A step of a workflow that dequeues, or a crash of its server.
LEMMA TakerStep ==
    ASSUME PubSubInv, TakerOnly, queue' \in [Subscriber -> Msgs],
           taken' \in [Subscriber -> Msgs], dropped' \in [Subscriber -> SUBSET Nat],
           taker' \in [Taker -> TakerState],
           \A q \in Subscriber : /\ dropped[q] \subseteq dropped'[q]
                                 /\ Line(q)' = Line(q)
    PROVE  PubSubInv'
<1>0. PubSubShapes /\ PhaseOK
  BY DEF PubSubInv
<1>1. UNCHANGED <<topic, broker, memoized, enqueued, owed, published>>
  BY DEF TakerOnly
<1>2. PubSubShapes'
  BY <1>0, <1>1 DEF PubSubShapes
<1>3. PhaseOK'
  BY <1>0, <1>1 DEF PhaseOK
<1>4. ASSUME NEW q \in Subscriber PROVE LineOK(q)'
  BY <1>1, LineStays DEF PubSubInv
<1> QED
  BY <1>2, <1>3, <1>4 DEF PubSubInv

\* A dequeue that sees items or returns keeps the invariant.
LEMMA WaitersKeep ==
    ASSUME PubSubInv, NEW t \in Taker, SeesItems(t) \/ DequeueReturns(t)
    PROVE  PubSubInv'
<1>0. PubSubShapes /\ <<>> \in Msgs
  BY DEF PubSubInv, Msgs
<1>1. TakerOnly /\ UNCHANGED <<queue, taken, dropped>>
  BY DEF SeesItems, DequeueReturns
<1>2. taker' \in [Taker -> TakerState]
  BY <1>0, TakerTyped DEF SeesItems, DequeueReturns
<1>3. \A q \in Subscriber : dropped[q] \subseteq dropped'[q] /\ Line(q)' = Line(q)
  BY <1>1 DEF TakerOnly, Line, MemoPart, SlicedPart
<1> QED
  BY <1>0, <1>1, <1>2, <1>3, TakerStep DEF PubSubShapes

\* Taking from the front leaves the rest.
LEMMA Splits ==
    ASSUME NEW s \in Msgs, NEW n \in 0..Len(s)
    PROVE  /\ SubSeq(s, 1, n) \in Msgs /\ AfterTake(s, n) \in Msgs
           /\ s = SubSeq(s, 1, n) \o AfterTake(s, n)
<1>1. Len(s) \in Nat /\ s \in Seq(Nat) /\ DOMAIN s = 1..Len(s)
  BY DEF Msgs
<1>2. SubSeq(s, 1, n) \in Seq(Nat) /\ SubSeq(s, n + 1, Len(s)) \in Seq(Nat)
  BY <1>1, SubSeqProperties
<1>3. SubSeq(s, 1, n) \o SubSeq(s, n + 1, Len(s)) = SubSeq(s, 1, Len(s))
  <2>1. PICK l \in Nat : l = Len(s)
    BY <1>1
  <2>2. 1 \in 1..(l + 1) /\ n \in (1 - 1)..l /\ l \in n..l
    BY <2>1
  <2> QED
    BY <1>1, <2>1, <2>2, ConcatAdjacentSubSeq
<1>4. SubSeq(s, 1, Len(s)) = s
  BY <1>1, SubSeqFull
<1> QED
  BY <1>2, <1>3, <1>4 DEF AfterTake, Msgs

\* Taking items off a queue keeps the invariant.
LEMMA TryKeeps ==
    ASSUME PubSubInv, NEW t \in Taker, try_dequeue(t)
    PROVE  PubSubInv'
<1>0. PubSubShapes
  BY DEF PubSubInv
<1>1. PICK p \in Subscriber : p = TakesFrom[t]
  BY PubSubAssumption
<1>2. PICK s \in Msgs : s = queue[p]
  BY <1>0 DEF PubSubShapes
<1>3. PICK n \in 0..Len(s) : n = IF Bulk[t] < Len(s) THEN Bulk[t] ELSE Len(s)
  <2>1. Len(s) \in Nat /\ Bulk[t] \in Nat
    BY PubSubAssumption DEF Msgs
  <2> QED
    BY <2>1
<1>4. PICK x \in Msgs, r \in Msgs :
          x = SubSeq(s, 1, n) /\ r = AfterTake(s, n) /\ s = x \o r
  BY Splits
<1>5. /\ TakerOnly /\ UNCHANGED dropped
      /\ queue' = [queue EXCEPT ![p] = r] /\ taken' = [taken EXCEPT ![p] = @ \o x]
      /\ TakerMoves(t, IF n = 0 THEN "wait" ELSE "have", x)
  BY <1>1, <1>2, <1>3, <1>4 DEF try_dequeue
<1>6. taken[p] \o x \in Msgs
  BY <1>0, Joins DEF PubSubShapes
<1>7. /\ queue' \in [Subscriber -> Msgs] /\ queue'[p] = r
      /\ \A q \in Subscriber \ {p} : queue'[q] = queue[q]
  BY <1>0, <1>5 DEF PubSubShapes
<1>8. /\ taken' \in [Subscriber -> Msgs] /\ taken'[p] = taken[p] \o x
      /\ \A q \in Subscriber \ {p} : taken'[q] = taken[q]
  BY <1>0, <1>5, <1>6 DEF PubSubShapes
<1>9. taker' \in [Taker -> TakerState]
  BY <1>0, <1>5, TakerTyped
<1>10. ASSUME NEW q \in Subscriber PROVE Line(q)' = Line(q)
  <2>1. /\ MemoPart(q)' = MemoPart(q) /\ SlicedPart(q)' = SlicedPart(q)
        /\ topic' = topic
    BY <1>5 DEF MemoPart, SlicedPart, TakerOnly
  <2>2. CASE q # p
    BY <1>7, <1>8, <2>1, <2>2 DEF Line
  <2>3. CASE q = p
    <3>1. PICK a \in Msgs, c \in Msgs, d \in Msgs, e \in Msgs :
              /\ a = taken[p] /\ c = MemoPart(p) /\ d = SlicedPart(p)
              /\ e = topic.items
      BY <1>0, Parts
    <3>2. Line(p) = Joined(a, x \o r, c, d, e)
      BY <1>2, <1>4, <3>1 DEF Line
    <3>3. Line(p)' = Joined(a \o x, r, c, d, e)
      BY <1>7, <1>8, <2>1, <2>3, <3>1 DEF Line
    <3> QED
      BY <2>3, <3>2, <3>3, FrontTaken
  <2> QED
    BY <2>2, <2>3
<1> QED
  BY <1>0, <1>5, <1>7, <1>8, <1>9, <1>10, TakerStep DEF PubSubShapes

\* A crash of a queue's server keeps the invariant.
LEMMA QueueCrashKeeps ==
    ASSUME PubSubInv, NEW q \in Subscriber, QueueCrash(q)
    PROVE  PubSubInv'
<1>0. PubSubShapes /\ <<>> \in Msgs
  BY DEF PubSubInv, Msgs
<1>1. /\ TakerOnly /\ UNCHANGED <<queue, taken>>
      /\ taker' = [t \in Taker |-> IF TakesFrom[t] = q THEN [at |-> "wait", items |-> <<>>]
                                   ELSE taker[t]]
  BY DEF QueueCrash
<1>2. taker' \in [Taker -> TakerState]
  <2>1. [at |-> "wait", items |-> <<>>] \in TakerState
    BY <1>0 DEF TakerState
  <2> QED
    BY <1>0, <1>1, <2>1 DEF PubSubShapes
<1>3. PICK lost \in SUBSET Nat : dropped' = [dropped EXCEPT ![q] = @ \cup lost]
  <2>1. \A t \in Taker : ToSet(taker[t].items) \subseteq Nat
    BY <1>0, MessageSet DEF PubSubShapes, TakerState
  <2>2. UNION {ToSet(taker[t].items) : t \in {u \in Taker : TakesFrom[u] = q}}
            \in SUBSET Nat
    BY <2>1
  <2> QED
    BY <2>2 DEF QueueCrash
<1>4. /\ dropped' \in [Subscriber -> SUBSET Nat]
      /\ \A r \in Subscriber : dropped[r] \subseteq dropped'[r]
  BY <1>0, <1>3 DEF PubSubShapes
<1>5. \A r \in Subscriber : Line(r)' = Line(r)
  BY <1>1 DEF TakerOnly, Line, MemoPart, SlicedPart
<1> QED
  BY <1>0, <1>1, <1>2, <1>4, <1>5, TakerStep DEF PubSubShapes

\* The invariant of PubSub.
THEOREM PubSubInvariance == PubSubSpec => []PubSubInv
<1>1. PubSubInit => PubSubInv
  BY PubSubStart
<1>2. PubSubInv /\ [PubSubNext]_pubsubVars => PubSubInv'
  <2> SUFFICES ASSUME PubSubInv, [PubSubNext]_pubsubVars PROVE PubSubInv'
    OBVIOUS
  <2>1. ASSUME NEW n \in 1..2, Publish(n) PROVE PubSubInv'
    BY <2>1, PublishKeeps
  <2>2. ASSUME NEW q \in Subscriber, Subscribe(q) PROVE PubSubInv'
    BY <2>2, SubscribeKeeps
  <2>3. ASSUME NEW q \in Subscriber, QueueCrash(q) PROVE PubSubInv'
    BY <2>3, QueueCrashKeeps
  <2>4. CASE SliceItems
    BY <2>4, SliceKeeps
  <2>5. CASE BrokerMemoizes
    BY <2>5, MemoizesKeeps
  <2>6. CASE BrokerLoops
    BY <2>6, LoopsKeeps
  <2>7. ASSUME NEW q \in Subscriber, Enqueue(q) PROVE PubSubInv'
    BY <2>7, EnqueueKeeps
  <2>8. ASSUME NEW q \in Subscriber, EnqueueAnswered(q) PROVE PubSubInv'
    BY <2>8, AnsweredKeeps
  <2>9. CASE BrokerCrash
    BY <2>9, BrokerCrashKeeps
  <2>10. ASSUME NEW t \in Taker, SeesItems(t) \/ DequeueReturns(t) PROVE PubSubInv'
    BY <2>10, WaitersKeep
  <2>11. ASSUME NEW t \in Taker, try_dequeue(t) PROVE PubSubInv'
    BY <2>11, TryKeeps
  <2>12. CASE UNCHANGED pubsubVars
    <3>1. \A q \in Subscriber : Line(q)' = Line(q)
      BY <2>12 DEF pubsubVars, Line, MemoPart, SlicedPart
    <3>2. \A q \in Subscriber : dropped[q] \subseteq dropped'[q]
      BY <2>12 DEF pubsubVars
    <3> QED
      BY <2>12, <3>1, <3>2, TakerStep DEF pubsubVars, TakerOnly, PubSubInv, PubSubShapes
  <2> QED
    BY <2>1, <2>2, <2>3, <2>4, <2>5, <2>6, <2>7, <2>8, <2>9, <2>10, <2>11, <2>12
       DEF PubSubNext, BrokerNext, TakerNext
<1> QED
  BY <1>1, <1>2, PTL DEF PubSubSpec

\* The line of the invariant is that of the property.
LEMMA LineIsWhole ==
    ASSUME PubSubInv
    PROVE  MessagesKept
<1> SUFFICES ASSUME NEW q \in Subscriber
             PROVE  LET line == taken[q] \o queue[q] \o Pending(q)
                    IN  Increasing(line) /\ owed[q] \subseteq ToSet(line) \cup dropped[q]
  BY DEF MessagesKept
<1>1. Line(q) = taken[q] \o queue[q] \o Pending(q)
  BY DEF Line, Joined, Pending, MemoPart, SlicedPart
<1>2. LineOK(q)
  BY DEF PubSubInv
<1> QED
  BY <1>1, <1>2 DEF LineOK

\* Each subscriber gets every message published since it subscribed, once and
\* in order of publication, however publications, subscriptions, dequeues and
\* crashes interleave; what is not on its way was in a server's memory only
\* when that server crashed (Topic.Publish, Topic.Broker, Queue.Dequeue).
THEOREM MessagesStay == PubSubSpec => []MessagesKept
BY PubSubInvariance, LineIsWhole, PTL

----------------------------------------------------------------------------
(* Sign-in *)

\* The users the provider identified and the `authenticated` hook has run for.
Backed == (proven \cap constructed) \cup {NoUser}

\* A flow that has been started and has neither failed nor been redeemed.
InProgress == {"authorize", "consent", "idp", "error", "fetch", "store", "mint", "code"}

\* A `/refresh` under way mints for a backed user too; the user of a flow is
\* identified before the hook runs; a browser that signed out has no
\* `/refresh` under way; the verifier of the last flow is there from its start.
SignInInv ==
    /\ OAuthTypeOK
    /\ session \in Backed /\ refresh_cookie \in Backed /\ refreshing \in Backed
    /\ \A f \in Flow :
        /\ stage[f] \in {"fetch", "store", "mint", "code", "finishing"} => who[f] \in proven
        /\ stage[f] = "done" => who[f] \in proven \cap constructed
        /\ FlowKind[f] = "browser" /\ stage[f] \in InProgress /\ f = latest
            => pending_cookie = f
    /\ ConsentFirst
    /\ signedOut => session = NoUser /\ refresh_cookie = NoUser /\ refreshing = NoUser

\* The steps of one flow.
FlowStep(f) ==
    \/ start(f) \/ authorize(f) \/ ConsentRefused(f)
    \/ \E approve \in BOOLEAN : consent(f, approve)
    \/ CallbackFails(f)
    \/ \E u \in User, refreshable \in BOOLEAN : exchange_code(f, u, refreshable)
    \/ \E aborted \in BOOLEAN : fetch(f, aborted)
    \/ \E fails \in BOOLEAN : store_oauth_tokens(f, fails)
    \/ HookFails(f) \/ callback(f)
    \/ token(f) \/ finish(f) \/ FinishAnswers(f) \/ FinishFails(f) \/ CodeExpires(f)

SessionStep ==
    SessionExpires \/ RefreshStarts \/ RefreshAnswers \/ RefreshFails \/ RefreshExpires \/ signout

\* Steps of the browser's session keep the invariant: a `/refresh` under way
\* when the browser signs out is the one that can bring its cookies back.
LEMMA SessionStepKeeps ==
    ASSUME SignInInv, SessionStep PROVE SignInInv'
<1> USE OAuthAssumption DEF SignInInv, OAuthTypeOK, Backed, ConsentFirst, InProgress, cookies,
        oauthHistory, mint_tokens_for_user, clear_session_cookies
<1>1. CASE SessionExpires BY <1>1 DEF SessionExpires
<1>2. CASE RefreshStarts BY <1>2 DEF RefreshStarts
<1>3. CASE RefreshAnswers BY <1>3 DEF RefreshAnswers
<1>4. CASE RefreshFails BY <1>4 DEF RefreshFails
<1>5. CASE RefreshExpires BY <1>5 DEF RefreshExpires
<1>6. CASE signout BY <1>6 DEF signout
<1> QED BY <1>1, <1>2, <1>3, <1>4, <1>5, <1>6 DEF SessionStep

\* Every step of a flow keeps the invariant.
LEMMA FlowStepKeeps ==
    ASSUME SignInInv, NEW f \in Flow, FlowStep(f) PROVE SignInInv'
<1> USE OAuthAssumption DEF SignInInv, OAuthTypeOK, Backed, ConsentFirst, InProgress, cookies,
        oauthHistory, mint_tokens_for_user, set_session_cookies, Goes, Vaulted
<1>1. CASE start(f) BY <1>1 DEF start, PendingAfter
<1>2. CASE authorize(f) BY <1>2 DEF authorize, Identify, Trusted
<1>3. CASE ConsentRefused(f) BY <1>3 DEF ConsentRefused
<1>4. ASSUME NEW approve \in BOOLEAN, consent(f, approve) PROVE SignInInv'
  BY <1>4 DEF consent, Identify
<1>5. CASE CallbackFails(f) BY <1>5 DEF CallbackFails
<1>6. ASSUME NEW u \in User, NEW refreshable \in BOOLEAN, exchange_code(f, u, refreshable)
      PROVE SignInInv'
  BY <1>6 DEF exchange_code
<1>7. ASSUME NEW aborted \in BOOLEAN, fetch(f, aborted) PROVE SignInInv'
  BY <1>7 DEF fetch
<1>8. ASSUME NEW fails \in BOOLEAN, store_oauth_tokens(f, fails) PROVE SignInInv'
  BY <1>8 DEF store_oauth_tokens, Merged
<1>9. CASE HookFails(f) BY <1>9 DEF HookFails
<1>10. CASE callback(f) BY <1>10 DEF callback
<1>11. CASE token(f) BY <1>11 DEF token
<1>12. CASE finish(f) BY <1>12 DEF finish
<1>13. CASE FinishFails(f) BY <1>13 DEF FinishFails
<1>14. CASE CodeExpires(f) BY <1>14 DEF CodeExpires
<1>15. CASE FinishAnswers(f) BY <1>15 DEF FinishAnswers
<1> QED BY <1>1, <1>2, <1>3, <1>4, <1>5, <1>6, <1>7, <1>8, <1>9, <1>10, <1>11, <1>12, <1>13,
           <1>14, <1>15 DEF FlowStep

\* Only `store` writes the vault, and it replaces a refresh token only when
\* its own `fetch` did not see that token.
LEMMA StoreKeepsRefreshTokens ==
    ASSUME OAuthTypeOK, OAuthNext PROVE RefreshTokenKept
<1>1. CASE UNCHANGED vault BY <1>1 DEF RefreshTokenKept
<1>2. ASSUME NEW f \in Flow, NEW fails \in BOOLEAN, store_oauth_tokens(f, fails)
      PROVE RefreshTokenKept
  BY <1>2 DEF store_oauth_tokens, Merged, RefreshTokenKept, OAuthTypeOK, Vaulted
<1> QED
  BY <1>1, <1>2 DEF OAuthNext, start, authorize, ConsentRefused, consent, CallbackFails,
     exchange_code, fetch, HookFails, callback, token, finish, FinishAnswers, FinishFails,
     CodeExpires, SessionExpires, RefreshStarts, RefreshAnswers, RefreshFails, RefreshExpires, signout

\* Sign-in is sound for any number of tabs and users: whoever holds a token
\* was identified by the provider and the hook has run, consent comes first,
\* signing out lasts, the flow started last finds its verifier unless a
\* `/finish` of another is answered after its start, and a refresh token is lost
\* only to a sign-in without one whose `fetch` was aborted or came too early.
THEOREM SignInIsSound == OAuthSpec => SignInSound
<1>1. OAuthInit => SignInInv
  <2> SUFFICES ASSUME OAuthInit PROVE SignInInv OBVIOUS
  <2>1. OAuthTypeOK
    <3>1. granted \in [Flow -> BOOLEAN] BY DEF OAuthInit
    <3>2. flowStarts \in 0..MaxFlows /\ signouts \in 0..MaxSignouts
      BY OAuthAssumption DEF OAuthInit
    <3>3. {session, refresh_cookie, refreshing} \subseteq User \cup {NoUser}
      BY DEF OAuthInit
    <3>4. {pending_cookie, consent_cookie, latest} \subseteq Flow \cup {NoFlow}
      BY DEF OAuthInit
    <3>5. signedOut \in BOOLEAN BY DEF OAuthInit
    <3>6. who \in [Flow -> User \cup {NoUser}] /\ read \in [Flow -> Vaulted]
          /\ vault \in [User -> Vaulted]
      BY DEF OAuthInit, Vaulted
    <3> QED BY <3>1, <3>2, <3>3, <3>4, <3>5, <3>6 DEF OAuthInit, OAuthTypeOK
  <2>2. \A f \in Flow : stage[f] = "idle" BY DEF OAuthInit
  <2>3. ConsentFirst BY <2>2 DEF ConsentFirst
  <2> QED BY <2>1, <2>2, <2>3 DEF OAuthInit, SignInInv, Backed, InProgress
<1>2. SignInInv /\ [OAuthNext]_oauthVars => SignInInv'
  <2> SUFFICES ASSUME SignInInv, [OAuthNext]_oauthVars PROVE SignInInv' OBVIOUS
  <2>1. CASE UNCHANGED oauthVars
    BY <2>1 DEF oauthVars, cookies, oauthHistory, SignInInv, OAuthTypeOK, Backed, ConsentFirst
  <2>2. CASE OAuthNext
    BY <2>2, SessionStepKeeps, FlowStepKeeps DEF OAuthNext, SessionStep, FlowStep
  <2> QED BY <2>1, <2>2
<1>3. SignInInv => TokensBacked /\ ConsentFirst /\ SignedOutStays /\ LatestFinishes
  <2> SUFFICES ASSUME SignInInv
               PROVE TokensBacked /\ ConsentFirst /\ SignedOutStays /\ LatestFinishes OBVIOUS
  <2>1. TokensBacked BY DEF SignInInv, TokensBacked, Backed
  <2>2. ConsentFirst /\ SignedOutStays BY DEF SignInInv, SignedOutStays
  <2>3. LatestFinishes BY DEF SignInInv, LatestFinishes, InProgress
  <2> QED BY <2>1, <2>2, <2>3
<1>4. SignInInv /\ [OAuthNext]_oauthVars => [RefreshTokenKept]_oauthVars
  BY StoreKeepsRefreshTokens DEF SignInInv
<1> QED BY <1>1, <1>2, <1>3, <1>4, PTL DEF OAuthSpec, SignInSound
=============================================================================
