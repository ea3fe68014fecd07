---------------------------- MODULE ServerProofs ----------------------------
(***************************************************************************)
(* Proofs about the parts of one server: the monotonic clock and the       *)
(* detection of restarts by its timestamps, the loading and streaming of a *)
(* state, the dispatch of tasks, and the placement that says which server  *)
(* that is.                                                                *)
(***************************************************************************)
EXTENDS MonotonicClock, RestartDetection, StateLoading, TaskDispatch, Placement,
        FiniteSetTheorems, SequenceTheorems, WellFoundedInduction, TLAPS

----------------------------------------------------------------------------
(* Time *)

\* The holder of the mutex has made a mark durable and not yet stored it.
Pending ==
    \/ mutex = "flusher"
    \/ mutex \in Thread /\ now[mutex].at = "store"

\* The mark in memory is durable.  It is the durable one but for the holder
\* of the mutex between its write and its store.
MarkOK ==
    /\ running => /\ persisted \in Nat
                  /\ high_water_mark <= persisted
                  /\ persisted = IF Pending THEN marking ELSE high_water_mark
    /\ \A t \in Thread : now[t].at \in {"write", "store"} <=> mutex = t

\* All that was ever returned is covered by the durable mark and, while the
\* process runs, by the last reading, which the next reading starts from.
EverOK ==
    /\ ever <= persisted
    /\ running => ever <= last_returned

\* What a thread in `Now` may rely on, whatever the others do meanwhile.
LocalsOK ==
    \A t \in Thread :
        /\ now[t].at # "idle" => running
        /\ now[t].at \in {"last", "cas"} => now[t].mark <= persisted
        /\ now[t].at = "write" => now[t].now > high_water_mark
        /\ now[t].at = "cas" =>
              /\ now[t].now <= now[t].mark
              /\ now[t].last <= now[t].now
              /\ now[t].strict => Floor(now[t].last) < Floor(now[t].now)

ClockInv ==
    /\ ClockTypeOK
    /\ ~running => mutex = Nobody
    /\ MarkOK
    /\ EverOK
    /\ LocalsOK

-----------------------------------------------------------------------------
(* Milliseconds.                                                           *)

\* A millisecond starts at a tick, and ends before the next one starts.
LEMMA FloorBounds ==
    ASSUME NEW a \in Int
    PROVE  /\ Floor(a) \in Int
           /\ Floor(a) * Milli <= a
           /\ a < (Floor(a) + 1) * Milli
BY ClockAssumption DEF Floor

\* A later tick is not in an earlier millisecond.
LEMMA FloorMonotone ==
    ASSUME NEW a \in Int, NEW b \in Int, a <= b
    PROVE  Floor(a) <= Floor(b)
BY ClockAssumption DEF Floor

\* A reading is not before the last one and, if strict, in a later
\* millisecond.
LEMMA ReadingLater ==
    ASSUME NEW read \in Nat, NEW last \in Nat, NEW strict \in BOOLEAN
    PROVE  /\ Reading(read, last, strict) \in Nat
           /\ last <= Reading(read, last, strict)
           /\ strict => Floor(last) < Floor(Reading(read, last, strict))
<1>1. Milli \in Nat \ {0}
  BY ClockAssumption
<1>2. Floor(last) \in Nat
  BY <1>1 DEF Floor
<1>3. CASE strict /\ Floor(Later(read, last)) <= Floor(last)
  <2>1. Reading(read, last, strict) = (Floor(last) + 1) * Milli
    BY <1>3 DEF Reading
  <2>2. last < (Floor(last) + 1) * Milli
    BY FloorBounds
  <2>3. (Floor(last) + 1) * Milli \in Nat
    BY <1>1, <1>2
  <2>4. Floor((Floor(last) + 1) * Milli) = Floor(last) + 1
    <3>1. ASSUME NEW k \in Nat
          PROVE  Floor(k * Milli) = k
      BY <1>1 DEF Floor
    <3> QED
      BY <1>2, <3>1
  <2> QED
    BY <1>2, <2>1, <2>2, <2>3, <2>4
<1>4. CASE ~(strict /\ Floor(Later(read, last)) <= Floor(last))
  <2>1. /\ Reading(read, last, strict) = Later(read, last)
        /\ Later(read, last) \in Nat /\ last <= Later(read, last)
    BY <1>4 DEF Reading, Later
  <2>2. Floor(Later(read, last)) \in Int
    BY <2>1, FloorBounds
  <2> QED
    BY <1>2, <1>4, <2>1, <2>2
<1> QED
  BY <1>3, <1>4

-----------------------------------------------------------------------------
(* The frames of the calls of `Now`.                                       *)

At == {"idle", "wall", "mark", "last", "advance", "write", "store", "cas"}
Frame == [at : At, strict : BOOLEAN, now : Nat, mark : Nat, last : Nat]

\* Everybody's frame but t's is as it was.
Others(t) == \A u \in Thread \ {t} : now'[u] = now[u]

\* A frame in which nothing was loaded yet.
LEMMA FreshFrame ==
    /\ Idle \in Frame /\ Idle.at = "idle"
    /\ \A s \in BOOLEAN :
          /\ [Idle EXCEPT !.at = "wall", !.strict = s] \in Frame
          /\ [Idle EXCEPT !.at = "wall", !.strict = s].at = "wall"
<1>1. Idle \in Frame /\ Idle.at = "idle"
  BY DEF Frame, At, Idle
<1>2. ASSUME NEW s \in BOOLEAN, NEW f \in Frame
      PROVE  /\ [f EXCEPT !.at = "wall", !.strict = s] \in Frame
             /\ [f EXCEPT !.at = "wall", !.strict = s].at = "wall"
  BY DEF Frame, At
<1> QED
  BY <1>1, <1>2

\* `Now` that starts over.
LEMMA AgainFrame ==
    ASSUME now \in [Thread -> Frame], NEW t \in Thread, Again(t)
    PROVE  now' \in [Thread -> Frame] /\ now'[t].at = "wall" /\ Others(t)
<1>1. now[t].strict \in BOOLEAN
  BY DEF Frame
<1>2. /\ [Idle EXCEPT !.at = "wall", !.strict = now[t].strict] \in Frame
      /\ [Idle EXCEPT !.at = "wall", !.strict = now[t].strict].at = "wall"
  BY <1>1, FreshFrame
<1> QED
  BY <1>2 DEF Again, Others

\* `Now` that goes on to its next step with what it has.
LEMMA GotoFrame ==
    ASSUME now \in [Thread -> Frame], NEW t \in Thread, NEW at \in At,
           Goto(t, at)
    PROVE  /\ now' \in [Thread -> Frame] /\ now'[t].at = at /\ Others(t)
           /\ now'[t].now = now[t].now
BY DEF Goto, Frame, Others

\* What LoadWall leaves in the frame.
LEMMA WallFrame ==
    ASSUME ClockTypeOK, NEW t \in Thread, LoadWall(t)
    PROVE  now' \in [Thread -> Frame] /\ now'[t].at = "mark" /\ Others(t)
<1>1. now \in [Thread -> Frame] /\ wall \in Nat
  BY ClockAssumption DEF ClockTypeOK, Frame, At
<1> QED
  BY <1>1 DEF LoadWall, Frame, At, Others

\* What LoadMark leaves in the frame.
LEMMA MarkFrame ==
    ASSUME ClockTypeOK, NEW t \in Thread, LoadMark(t)
    PROVE  /\ now' \in [Thread -> Frame] /\ now'[t].at = "last"
           /\ now'[t].mark = high_water_mark /\ Others(t)
<1>1. now \in [Thread -> Frame] /\ high_water_mark \in Nat
  BY DEF ClockTypeOK, Frame, At
<1>2. PICK m \in Nat : m = Sooner(now[t].now, high_water_mark)
  BY <1>1 DEF Sooner, Frame
<1>3. now' = [now EXCEPT ![t] = [@ EXCEPT !.at = "last", !.mark = high_water_mark, !.now = m]]
  BY <1>1, <1>2 DEF LoadMark
<1> QED
  BY <1>1, <1>3 DEF Frame, At, Others

\* What LoadLast leaves in the frame: the reading, and whether the mark
\* covers it.
LEMMA ReadingFrame ==
    ASSUME ClockTypeOK, NEW t \in Thread, LoadLast(t)
    PROVE  /\ now' \in [Thread -> Frame] /\ Others(t)
           /\ now'[t].at \in {"advance", "cas"}
           /\ now'[t].mark = now[t].mark
           /\ now'[t].at = "cas" =>
                 /\ now'[t].now <= now'[t].mark
                 /\ now'[t].last <= now'[t].now
                 /\ now'[t].strict => Floor(now'[t].last) < Floor(now'[t].now)
<1> DEFINE reading == Reading(now[t].now, last_returned, now[t].strict)
<1>1. now \in [Thread -> Frame] /\ last_returned \in Nat
  BY DEF ClockTypeOK, Frame, At
<1>2. /\ now[t].now \in Nat /\ now[t].mark \in Nat
      /\ now[t].strict \in BOOLEAN
  BY <1>1 DEF Frame
<1>3. /\ reading \in Nat /\ last_returned <= reading
      /\ now[t].strict => Floor(last_returned) < Floor(reading)
  BY <1>1, <1>2, ReadingLater
<1>4. now' = [now EXCEPT ![t].last = last_returned,
                         ![t].now = reading,
                         ![t].at = IF reading > now[t].mark
                                   THEN "advance" ELSE "cas"]
  BY DEF LoadLast
<1> HIDE DEF reading
<1>5. /\ now' \in [Thread -> Frame] /\ Others(t)
      /\ now'[t].at = IF reading > now[t].mark THEN "advance" ELSE "cas"
      /\ now'[t].mark = now[t].mark /\ now'[t].strict = now[t].strict
      /\ now'[t].now = reading /\ now'[t].last = last_returned
  BY <1>1, <1>3, <1>4 DEF Frame, At, Others
<1> QED
  BY <1>2, <1>3, <1>5

-----------------------------------------------------------------------------
(* The clock.                                                              *)

\* The invariant holds before the first process starts.
LEMMA ClockInitInv == ClockInit => ClockInv
<1> SUFFICES ASSUME ClockInit
             PROVE  ClockInv
  OBVIOUS
<1>1. now \in [Thread -> Frame] /\ \A t \in Thread : now[t].at = "idle"
  BY FreshFrame DEF ClockInit
<1>2. ClockTypeOK
  <2>1. 0 \in 0..MaxWall /\ 0 \in 0..MaxStarts
    BY ClockAssumption
  <2>2. now \in [Thread -> [at : At, strict : BOOLEAN, now : Nat, mark : Nat,
                           last : Nat]]
    BY <1>1 DEF Frame
  <2>3. running \in BOOLEAN /\ mutex \in Thread \cup {Nobody, "flusher"}
    BY DEF ClockInit
  <2>4. {high_water_mark, last_returned, marking} \subseteq Nat
    BY DEF ClockInit
  <2> QED
    BY <2>1, <2>2, <2>3, <2>4 DEF ClockInit, ClockTypeOK, At
<1>3. MarkOK /\ EverOK /\ LocalsOK
  BY <1>1, ClockAssumption DEF ClockInit, MarkOK, EverOK, LocalsOK, Absent
<1> QED
  BY <1>2, <1>3 DEF ClockInit, ClockInv

\* Every step of the clock keeps it.
LEMMA ClockStepInv == ClockInv /\ [ClockNext]_clockVars => ClockInv'
<1> SUFFICES ASSUME ClockInv, [ClockNext]_clockVars
             PROVE  ClockInv'
  OBVIOUS
<1>0. ClockTypeOK /\ now \in [Thread -> Frame]
  BY DEF ClockInv, ClockTypeOK, Frame, At
<1> USE ClockAssumption
        DEF ClockInv, ClockTypeOK, MarkOK, EverOK, LocalsOK, Pending, Absent
<1>1. ASSUME NEW w \in 0..MaxWall, Start(w)
      PROVE  ClockInv'
  BY <1>1 DEF Start, StartReturned, NextHighWaterMark, Later
<1>2. CASE Down
  <2>1. now' \in [Thread -> Frame] /\ \A t \in Thread : now'[t].at = "idle"
    BY <1>2, FreshFrame DEF Down
  <2>2. /\ running' = FALSE /\ mutex' = Nobody /\ marking' = 0
        /\ high_water_mark' = 0 /\ last_returned' = 0
        /\ UNCHANGED <<wall, persisted, ever, starts>>
    BY <1>2 DEF Down
  <2>3. ClockTypeOK'
    <3>1. {high_water_mark, last_returned, marking}' \subseteq Nat
      BY <2>2
    <3>2. running' \in BOOLEAN /\ mutex' \in Thread \cup {Nobody, "flusher"}
      BY <2>2
    <3> QED
      BY <1>0, <2>1, <2>2, <3>1, <3>2 DEF Frame, At
  <2> QED
    BY <2>1, <2>2, <2>3
<1>3. CASE Tick
  BY <1>3 DEF Tick
<1>4. CASE Flush
  BY <1>4 DEF Flush, NextHighWaterMark, Later
<1>5. CASE FlushStore
  BY <1>5 DEF FlushStore
<1>6. ASSUME NEW t \in Thread, NEW strict \in BOOLEAN, Now(t, strict)
      PROVE  ClockInv'
  <2>1. now' \in [Thread -> Frame] /\ now'[t].at = "wall" /\ Others(t)
    BY <1>0, <1>6, FreshFrame DEF Now, Others
  <2> QED
    BY <1>6, <2>1 DEF Now, Others, Frame, At
<1>7. ASSUME NEW t \in Thread, LoadWall(t)
      PROVE  ClockInv'
  <2>1. now' \in [Thread -> Frame] /\ now'[t].at = "mark" /\ Others(t)
    BY <1>0, <1>7, WallFrame
  <2> QED
    BY <1>7, <2>1 DEF LoadWall, Others, Frame, At
<1>8. ASSUME NEW t \in Thread, LoadMark(t)
      PROVE  ClockInv'
  <2>1. /\ now' \in [Thread -> Frame] /\ now'[t].at = "last"
        /\ now'[t].mark = high_water_mark /\ Others(t)
    BY <1>0, <1>8, MarkFrame
  <2> QED
    BY <1>8, <2>1 DEF LoadMark, Others, Frame, At
<1>9. ASSUME NEW t \in Thread, LoadLast(t)
      PROVE  ClockInv'
  <2>1. /\ now' \in [Thread -> Frame] /\ Others(t)
        /\ now'[t].at \in {"advance", "cas"}
        /\ now'[t].mark = now[t].mark
        /\ now'[t].at = "cas" =>
              /\ now'[t].now <= now'[t].mark
              /\ now'[t].last <= now'[t].now
              /\ now'[t].strict => Floor(now'[t].last) < Floor(now'[t].now)
    BY <1>0, <1>9, ReadingFrame
  <2>2. now[t].at = "last" /\ UNCHANGED <<wall, running, high_water_mark,
           last_returned, persisted, mutex, marking, ever, starts>>
    BY <1>9 DEF LoadLast
  <2> QED
    BY <2>1, <2>2 DEF Others, Frame, At
<1>10. ASSUME NEW t \in Thread, Advance(t)
       PROVE  ClockInv'
  BY <1>0, <1>10, AgainFrame, GotoFrame DEF Advance, Others, Frame, At
<1>11. ASSUME NEW t \in Thread, WriteMark(t)
       PROVE  ClockInv'
  BY <1>0, <1>11, AgainFrame, GotoFrame DEF WriteMark, Others, Frame, At
<1>12. ASSUME NEW t \in Thread, StoreMark(t)
       PROVE  ClockInv'
  BY <1>0, <1>12, AgainFrame DEF StoreMark, Others, Frame, At
<1>13. ASSUME NEW t \in Thread, CompareExchange(t)
       PROVE  ClockInv'
  <2>1. CASE Again(t) /\ UNCHANGED <<last_returned, ever>>
    BY <1>0, <1>13, <2>1, AgainFrame DEF CompareExchange, Others, Frame, At
  <2>2. CASE /\ last_returned = now[t].last
             /\ last_returned' = now[t].now
             /\ ever' = Later(ever, now[t].now)
             /\ now' = [now EXCEPT ![t] = Idle]
    <3>1. now' \in [Thread -> Frame] /\ now'[t].at = "idle" /\ Others(t)
      BY <1>0, <2>2, FreshFrame DEF Others
    <3> QED
      BY <1>13, <2>2, <3>1 DEF CompareExchange, Later, Others, Frame, At
  <2> QED
    BY <1>13, <2>1, <2>2 DEF CompareExchange
<1>14. CASE UNCHANGED clockVars
  BY <1>14 DEF clockVars
<1> HIDE DEF ClockInv
<1> QED
  BY <1>1, <1>2, <1>3, <1>4, <1>5, <1>6, <1>7, <1>8, <1>9, <1>10, <1>11,
     <1>12, <1>13, <1>14 DEF ClockNext, Stop, CrashProcess

\* A thread returns only by a compare-and-swap that found the last reading
\* to be the one it had loaded.
LEMMA ReturnsSwapped ==
    ASSUME ClockInv, [ClockNext]_clockVars, NEW t \in Thread, Returns(t)
    PROVE  last_returned = now[t].last
<1>0. now \in [Thread -> Frame] /\ now[t].at = "cas" /\ now'[t].at = "idle"
  BY DEF ClockInv, ClockTypeOK, Frame, At, Returns
<1>1. CASE \E u \in Thread : CompareExchange(u)
  <2>1. PICK u \in Thread : CompareExchange(u)
    BY <1>1
  <2>2. ~Again(u) \/ u # t
    BY <1>0, AgainFrame
  <2>3. u = t
    BY <1>0, <2>1 DEF CompareExchange, Again
  <2> QED
    BY <2>1, <2>2, <2>3 DEF CompareExchange
<1>2. CASE \E u \in Thread : \/ \E strict \in BOOLEAN : Now(u, strict)
                             \/ LoadWall(u) \/ LoadMark(u) \/ LoadLast(u)
                             \/ Advance(u) \/ WriteMark(u) \/ StoreMark(u)
  <2>1. PICK u \in Thread : \/ \E strict \in BOOLEAN : Now(u, strict)
                            \/ LoadWall(u) \/ LoadMark(u) \/ LoadLast(u)
                            \/ Advance(u) \/ WriteMark(u) \/ StoreMark(u)
    BY <1>2
  <2>2. u # t
    BY <1>0, <2>1 DEF Now, LoadWall, LoadMark, LoadLast, Advance, WriteMark,
                      StoreMark
  <2>3. now'[t] = now[t]
    BY <1>0, <2>1, <2>2 DEF Now, LoadWall, LoadMark, LoadLast, Advance,
                            WriteMark, StoreMark, Goto, Again
  <2> QED
    BY <1>0, <2>3
<1>3. CASE Down
  BY <1>3 DEF Down, Returns
<1>4. CASE \/ \E w \in 0..MaxWall : Start(w)
           \/ Tick \/ Flush \/ FlushStore \/ UNCHANGED clockVars
  BY <1>0, <1>4 DEF Start, Tick, Flush, FlushStore, clockVars
<1> QED
  BY <1>1, <1>2, <1>3, <1>4 DEF ClockNext, Stop, CrashProcess

\* The invariant of the clock, across every restart of the process.
THEOREM ClockInvariance == ClockSpec => []ClockInv
BY ClockInitInv, ClockStepInv, PTL DEF ClockSpec

\* Whatever a crash leaves, the durable mark covers every reading returned.
THEOREM Covered == ClockSpec => []MarkDurable
<1>1. ClockInv => MarkDurable
  BY DEF ClockInv, ClockTypeOK, EverOK, MarkDurable, Absent
<1> QED
  BY <1>1, ClockInvariance, PTL

\* No reading is before one that was returned earlier, by any thread of any
\* process, and a strict one is in a later millisecond than all of them.
THEOREM ReadingsAdvance == ClockSpec => NeverBackwards
<1>1. ASSUME ClockInv, ClockInv', NEW t \in Thread, Returns(t),
             [ClockNext]_clockVars
      PROVE  /\ now[t].now >= ever
             /\ now[t].strict => Floor(now[t].now) > Floor(ever)
  <2>1. /\ now[t].now \in Nat /\ now[t].last \in Nat /\ ever \in Int
        /\ last_returned \in Nat
    BY <1>1 DEF ClockInv, ClockTypeOK, Absent
  <2>2. /\ now[t].last <= now[t].now
        /\ now[t].strict => Floor(now[t].last) < Floor(now[t].now)
        /\ ever <= last_returned
    BY <1>1 DEF ClockInv, LocalsOK, EverOK, Returns
  <2>3. last_returned = now[t].last
    BY <1>1, ReturnsSwapped
  <2>4. Floor(ever) <= Floor(now[t].last)
    BY <2>1, <2>2, <2>3, FloorMonotone
  <2>5. Floor(ever) \in Int /\ Floor(now[t].last) \in Int
        /\ Floor(now[t].now) \in Int
    BY <2>1, FloorBounds
  <2> QED
    BY <2>1, <2>2, <2>3, <2>4, <2>5
<1>2. ClockInv /\ ClockInv' /\ [ClockNext]_clockVars =>
         [\A t \in Thread :
             Returns(t) => /\ now[t].now >= ever
                           /\ now[t].strict => Floor(now[t].now) > Floor(ever)
         ]_clockVars
  BY <1>1
<1> QED
  BY <1>2, ClockInvariance, PTL DEF ClockSpec, NeverBackwards

-----------------------------------------------------------------------------
(* Restart detection.                                                      *)

\* No server is ahead of the database, and a server that an attempt has
\* joined either still knows the attempt or recovered after its stamp.
RestartInv ==
    /\ RestartTypeOK
    /\ \A s \in Server : recovery[s] <= clock /\ latest[s] <= clock
    /\ \A t \in Txn :
          /\ stamp[t] <= clock
          /\ attempt[t] = "idle" => touched[t] = {}
          /\ attempt[t] = "body" =>
                \A s \in touched[t] : t \in memory[s] \/ RestartedSince(s, t)

\* The invariant holds once all servers have recovered for the first time.
LEMMA RestartInitInv == RestartInit => RestartInv
<1> SUFFICES ASSUME RestartInit
             PROVE  RestartInv
  OBVIOUS
<1>1. 0 \in 0..MaxClock /\ 0 \in 0..MaxRestarts
  BY RestartAssumption
<1> QED
  BY <1>1 DEF RestartInit, RestartInv, RestartTypeOK

\* Every step of a server or of a transaction keeps it.
LEMMA RestartStepInv == RestartInv /\ [RestartNext]_restartVars => RestartInv'
<1> SUFFICES ASSUME RestartInv, [RestartNext]_restartVars
             PROVE  RestartInv'
  OBVIOUS
<1> USE RestartAssumption DEF RestartInv, RestartTypeOK, RestartedSince
<1>1. ASSUME NEW s \in Server, Refresh(s)
      PROVE  RestartInv'
  BY <1>1 DEF Refresh, Readings, update_latest_timestamp
<1>2. ASSUME NEW s \in Server, RestartServer(s)
      PROVE  RestartInv'
  BY <1>2 DEF RestartServer, StrictReadings
<1>3. ASSUME NEW t \in Txn, BeginAttempt(t)
      PROVE  RestartInv'
  BY <1>3 DEF BeginAttempt
<1>4. ASSUME NEW t \in Txn, AbortAndRetry(t)
      PROVE  RestartInv'
  BY <1>4 DEF AbortAndRetry, Readings, update_latest_timestamp
<1>5. ASSUME NEW t \in Txn, CommitAttempt(t)
      PROVE  RestartInv'
  BY <1>5 DEF CommitAttempt
<1>6. ASSUME NEW t \in Txn, NEW s \in Server, JoinServer(t, s)
      PROVE  RestartInv'
  BY <1>6 DEF JoinServer
<1>7. ASSUME NEW t \in Txn, NEW s \in Server, RestartDetected(t, s)
      PROVE  RestartInv'
  BY <1>7 DEF RestartDetected
<1>8. CASE UNCHANGED restartVars
  BY <1>8 DEF restartVars
<1> HIDE DEF RestartInv
<1> QED
  BY <1>1, <1>2, <1>3, <1>4, <1>5, <1>6, <1>7, <1>8 DEF RestartNext

\* The invariant of restart detection.
THEOREM RestartInvariance == RestartSpec => []RestartInv
BY RestartInitInv, RestartStepInv, PTL DEF RestartSpec

\* A server that forgot an attempt in a restart never joins it again, since
\* its strict recovery timestamp is later than every stamp there was.
THEOREM ForgottenRefused == RestartSpec => ForgottenStaysOut
<1>1. RestartInv => \A t \in Txn, s \in Server :
                       JoinServer(t, s) => s \notin touched[t]
  BY DEF RestartInv, JoinServer
<1>2. RestartInv /\ [RestartNext]_restartVars =>
         [\A t \in Txn, s \in Server :
             JoinServer(t, s) => s \notin touched[t]]_restartVars
  BY <1>1
<1> QED
  BY <1>2, RestartInvariance, PTL DEF RestartSpec, ForgottenStaysOut

----------------------------------------------------------------------------
(* Loading and storing a state *)

\* What is kept of a call, and of a preload's future.
Place == {"new", "lock", "lookup", "waiting", "preload", "query", "authorize",
          "body", "remember", "done"}
CallRecord ==
    [at : Place, got : Contents, on : Call \cup {NoCall},
     saw : SUBSET (Call \cup {Recovered})]
FutureRecord == [at : {"none", "asking", "done", "failed"}, data : Contents]

\* A call that changes the state holds its lock from the load to the end, and
\* so does the recovered transaction until its outcome is complete.
LockOK ==
    /\ \A c \in Call :
          Mutates(c) /\ call[c].at \notin {"new", "lock", "done"}
              => state_lock = c
    /\ recovered_tx \in {"prepared", "written"} => state_lock = Recovered

\* Until then nothing is loaded: the commit need not care for the cache.
QuietOK ==
    recovered_tx \in {"prepared", "written"} =>
        /\ states = Missing
        /\ \A c \in Call : call[c].at \in {"new", "lock", "lookup", "done"}

\* A preload that is awaited is some call's.
AwaitOK == \A c \in Call : call[c].at = "preload" => call[c].on \in Call

\* What is in the database before it is acknowledged.
WrittenOK ==
    /\ \A c \in Call :
          call[c].at = "remember" => Mutates(c) /\ c \in stored
    /\ recovered_tx = "written" => Recovered \in stored

\* What a call saw acknowledged, and what it works on.
WorkOK ==
    /\ \A c \in Call : call[c].saw \subseteq acked
    /\ \A c \in Call :
          call[c].at \in {"body", "remember"} => call[c].got # Missing
    /\ ~raced => \A c \in Call :
          Mutates(c) /\ call[c].at \in {"body", "remember"}
              => acked \subseteq call[c].got

LoadingInv ==
    /\ LoadingTypeOK
    /\ LockOK /\ QuietOK /\ AwaitOK
    /\ WrittenOK /\ WorkOK /\ AckedKept

-----------------------------------------------------------------------------
USE LoadingAssumption

\* What a state may be, without looking inside.
LEMMA ContentsFacts ==
    /\ Missing \in Contents /\ {} \in Contents /\ {} # Missing
    /\ \A g \in Contents, c \in Call \cup {Recovered} :
          g # Missing => /\ g \cup {c} \in Contents
                         /\ g \cup {c} # Missing
    /\ \A c \in Call \cup {Recovered} :
          {} \cup {c} \in Contents /\ c \notin Missing
BY DEF Contents, Missing

\* The types, one by one.
LEMMA Types ==
    ASSUME LoadingTypeOK
    PROVE  /\ stored \in Contents /\ states \in Contents
           /\ load_event \in Call \cup {NoCall}
           /\ state_preloads \in Call \cup {NoCall}
           /\ preloaded \in [Call -> FutureRecord]
           /\ call \in [Call -> CallRecord]
           /\ state_lock \in Call \cup {Recovered, NoCall}
           /\ acked \in SUBSET (Call \cup {Recovered})
<1>1. preloaded \in [Call -> FutureRecord] /\ call \in [Call -> CallRecord]
  BY DEF LoadingTypeOK, FutureRecord, CallRecord, Place
<1>2. stored \in Contents /\ states \in Contents
  BY DEF LoadingTypeOK
<1> QED
  BY <1>1, <1>2 DEF LoadingTypeOK

\* A step that changes only what one call is at.
LEMMA CallMoves ==
    ASSUME LoadingTypeOK, NEW c \in Call, NEW r \in CallRecord,
           call' = [call EXCEPT ![c] = r]
    PROVE  /\ call' \in [Call -> CallRecord]
           /\ call'[c] = r
           /\ \A d \in Call : d # c => call'[d] = call[d]
BY Types

\* Records of a call with some of their fields replaced.
LEMMA Records ==
    ASSUME NEW q \in CallRecord, NEW at \in Place
    PROVE  /\ [q EXCEPT !.at = at] \in CallRecord
           /\ \A on \in Call \cup {NoCall} :
                 [q EXCEPT !.on = on, !.at = at] \in CallRecord
           /\ \A got \in Contents :
                 [q EXCEPT !.at = at, !.got = got] \in CallRecord
           /\ \A saw \in SUBSET (Call \cup {Recovered}) :
                 [q EXCEPT !.at = at, !.saw = saw] \in CallRecord
BY DEF CallRecord

-----------------------------------------------------------------------------
(* The steps of a call.                                                     *)

\* A call starts: it saw what is acknowledged by then.
LEMMA StartCallStep ==
    ASSUME LoadingInv, NEW c \in Call, StartCall(c)
    PROVE  LoadingInv'
<1> USE Types, ContentsFacts DEF LoadingInv
<1> DEFINE r == [call[c] EXCEPT
                  !.at = (IF Mutates(c) THEN "lock" ELSE "lookup"), !.saw = acked]
<1>1. call' = [call EXCEPT ![c] = r]
  BY DEF StartCall, preload, Mutates
<1>2. r \in CallRecord
  BY Records DEF Place
<1>3. /\ r.at = (IF Mutates(c) THEN "lock" ELSE "lookup")
      /\ r.got = call[c].got
      /\ r.on = call[c].on
      /\ r.saw = acked
  BY DEF CallRecord
<1> HIDE DEF r
<1>4. /\ call' \in [Call -> CallRecord] /\ call'[c] = r
      /\ \A d \in Call : d # c => call'[d] = call[d]
  BY <1>1, <1>2, CallMoves
<1>5. [preloaded EXCEPT ![c].at = "asking"] \in [Call -> FutureRecord]
  BY DEF FutureRecord
<1>6. preloaded' \in [Call -> FutureRecord]
  BY <1>5 DEF StartCall, preload
<1>7. LoadingTypeOK'
  BY <1>4, <1>6 DEF LoadingTypeOK, CallRecord, Place, FutureRecord,
     StartCall, preload, Mutates
<1>8. LockOK' /\ QuietOK' /\ AwaitOK'
  BY <1>3, <1>4 DEF LockOK, QuietOK, AwaitOK, StartCall, preload, Mutates
<1>9. WrittenOK'
  BY <1>3, <1>4 DEF LockOK, QuietOK, WrittenOK, WorkOK, AckedKept,
     StartCall, preload, Mutates
<1>10. WorkOK'
  BY <1>3, <1>4 DEF LockOK, QuietOK, WrittenOK, WorkOK, AckedKept,
     StartCall, preload, Mutates
<1>11. AckedKept'
  BY <1>3, <1>4 DEF LockOK, QuietOK, WrittenOK, WorkOK, AckedKept,
     StartCall, preload, Mutates
<1> QED
  BY <1>7, <1>8, <1>9, <1>10, <1>11

\* A call that changes the state gets its lock.
LEMMA AcquireLockStep ==
    ASSUME LoadingInv, NEW c \in Call, AcquireLock(c)
    PROVE  LoadingInv'
<1> USE Types, ContentsFacts DEF LoadingInv
<1> DEFINE r == [call[c] EXCEPT !.at = "lookup"]
<1>1. call' = [call EXCEPT ![c] = r]
  BY DEF AcquireLock, To
<1>2. r \in CallRecord
  BY Records DEF Place
<1>3. /\ r.at = "lookup"
      /\ r.got = call[c].got
      /\ r.on = call[c].on
      /\ r.saw = call[c].saw
  BY DEF CallRecord
<1> HIDE DEF r
<1>4. /\ call' \in [Call -> CallRecord] /\ call'[c] = r
      /\ \A d \in Call : d # c => call'[d] = call[d]
  BY <1>1, <1>2, CallMoves
<1>5. LoadingTypeOK'
  BY <1>4 DEF LoadingTypeOK, CallRecord, Place, FutureRecord, AcquireLock,
     To
<1>6. LockOK' /\ QuietOK' /\ AwaitOK'
  BY <1>3, <1>4 DEF LockOK, QuietOK, AwaitOK, AcquireLock, To, Mutates
<1>7. WrittenOK'
  BY <1>3, <1>4 DEF LockOK, QuietOK, WrittenOK, WorkOK, AckedKept,
     AcquireLock, To, Mutates
<1>8. WorkOK'
  BY <1>3, <1>4 DEF LockOK, QuietOK, WrittenOK, WorkOK, AckedKept,
     AcquireLock, To, Mutates
<1>9. AckedKept'
  BY <1>3, <1>4 DEF LockOK, QuietOK, WrittenOK, WorkOK, AckedKept,
     AcquireLock, To, Mutates
<1> QED
  BY <1>5, <1>6, <1>7, <1>8, <1>9

\* The cached state has all that is acknowledged.
LEMMA LoadCachedStep ==
    ASSUME LoadingInv, NEW c \in Call, LoadCached(c)
    PROVE  LoadingInv'
<1> USE Types, ContentsFacts DEF LoadingInv
<1>1. CASE Kind[c] = "constructor"
  <2> USE <1>1
  <2> DEFINE r == [at |-> "done", got |-> Missing, on |-> NoCall, saw |-> {}]
  <2>1. call' = [call EXCEPT ![c] = r]
    BY DEF LoadCached, PastPrepared, End, Unlocked
  <2>2. r \in CallRecord
    BY ContentsFacts DEF CallRecord, Place
  <2>3. r.at = "done" /\ r.got = Missing /\ r.on = NoCall /\ r.saw = {}
    BY DEF CallRecord
  <2> HIDE DEF r
  <2>4. /\ call' \in [Call -> CallRecord] /\ call'[c] = r
        /\ \A d \in Call : d # c => call'[d] = call[d]
    BY <2>1, <2>2, CallMoves
  <2>5. LoadingTypeOK'
    BY <2>4 DEF LoadingTypeOK, CallRecord, Place, FutureRecord, LoadCached,
       PastPrepared, End, Unlocked
  <2>6. LockOK' /\ QuietOK' /\ AwaitOK'
    BY <2>3, <2>4 DEF LockOK, QuietOK, AwaitOK, LoadCached, PastPrepared,
       End, Unlocked, Mutates
  <2>7. WrittenOK'
    BY <2>3, <2>4 DEF LockOK, QuietOK, WrittenOK, WorkOK, AckedKept,
       LoadCached, PastPrepared, End, Unlocked, Mutates
  <2>8. WorkOK'
    BY <2>3, <2>4 DEF LockOK, QuietOK, WrittenOK, WorkOK, AckedKept,
       LoadCached, PastPrepared, End, Unlocked, Mutates
  <2>9. AckedKept'
    BY <2>3, <2>4 DEF LockOK, QuietOK, WrittenOK, WorkOK, AckedKept,
       LoadCached, PastPrepared, End, Unlocked, Mutates
  <2> QED
    BY <2>5, <2>6, <2>7, <2>8, <2>9
<1>2. CASE ~(Kind[c] = "constructor")
  <2> USE <1>2
  <2> DEFINE r == [call[c] EXCEPT !.at = "body", !.got = states]
  <2>1. call' = [call EXCEPT ![c] = r]
    BY DEF LoadCached, PastPrepared, End, Unlocked
  <2>2. r \in CallRecord
    BY Records DEF Place
  <2>3. /\ r.at = "body"
        /\ r.got = states
        /\ r.on = call[c].on
        /\ r.saw = call[c].saw
    BY DEF CallRecord
  <2> HIDE DEF r
  <2>4. /\ call' \in [Call -> CallRecord] /\ call'[c] = r
        /\ \A d \in Call : d # c => call'[d] = call[d]
    BY <2>1, <2>2, CallMoves
  <2>5. LoadingTypeOK'
    BY <2>4 DEF LoadingTypeOK, CallRecord, Place, FutureRecord, LoadCached,
       PastPrepared, End, Unlocked
  <2>6. LockOK' /\ QuietOK' /\ AwaitOK'
    BY <2>3, <2>4 DEF LockOK, QuietOK, AwaitOK, LoadCached, PastPrepared,
       End, Unlocked, Mutates
  <2>7. WrittenOK'
    BY <2>3, <2>4 DEF LockOK, QuietOK, WrittenOK, WorkOK, AckedKept,
       LoadCached, PastPrepared, End, Unlocked, Mutates
  <2>8. WorkOK'
    BY <2>3, <2>4 DEF LockOK, QuietOK, WrittenOK, WorkOK, AckedKept,
       LoadCached, PastPrepared, End, Unlocked, Mutates
  <2>9. AckedKept'
    BY <2>3, <2>4 DEF LockOK, QuietOK, WrittenOK, WorkOK, AckedKept,
       LoadCached, PastPrepared, End, Unlocked, Mutates
  <2> QED
    BY <2>5, <2>6, <2>7, <2>8, <2>9
<1> QED
  BY <1>1, <1>2

\* A load starts: nobody holds a prepared transaction then.
LEMMA StartLoadStep ==
    ASSUME LoadingInv, NEW c \in Call, StartLoad(c)
    PROVE  LoadingInv'
<1> USE Types, ContentsFacts DEF LoadingInv
<1> DEFINE r == [call[c] EXCEPT
                  !.on = state_preloads, !.at = (IF state_preloads = NoCall THEN "query" ELSE "preload")]
<1>1. call' = [call EXCEPT ![c] = r]
  BY DEF StartLoad, PastPrepared
<1>2. r \in CallRecord
  BY Records DEF Place
<1>3. /\ r.at = (IF state_preloads = NoCall THEN "query" ELSE "preload")
      /\ r.got = call[c].got
      /\ r.on = state_preloads
      /\ r.saw = call[c].saw
  BY DEF CallRecord
<1> HIDE DEF r
<1>4. /\ call' \in [Call -> CallRecord] /\ call'[c] = r
      /\ \A d \in Call : d # c => call'[d] = call[d]
  BY <1>1, <1>2, CallMoves
<1>5. LoadingTypeOK'
  BY <1>4 DEF LoadingTypeOK, CallRecord, Place, FutureRecord, StartLoad,
     PastPrepared
<1>6. LockOK' /\ QuietOK' /\ AwaitOK'
  BY <1>3, <1>4 DEF LockOK, QuietOK, AwaitOK, StartLoad, PastPrepared,
     Mutates
<1>7. WrittenOK'
  BY <1>3, <1>4 DEF LockOK, QuietOK, WrittenOK, WorkOK, AckedKept,
     StartLoad, PastPrepared, Mutates
<1>8. WorkOK'
  BY <1>3, <1>4 DEF LockOK, QuietOK, WrittenOK, WorkOK, AckedKept,
     StartLoad, PastPrepared, Mutates
<1>9. AckedKept'
  BY <1>3, <1>4 DEF LockOK, QuietOK, WrittenOK, WorkOK, AckedKept,
     StartLoad, PastPrepared, Mutates
<1> QED
  BY <1>5, <1>6, <1>7, <1>8, <1>9

\* A call waits for the load of another.
LEMMA WaitLoadStep ==
    ASSUME LoadingInv, NEW c \in Call, WaitLoad(c)
    PROVE  LoadingInv'
<1> USE Types, ContentsFacts DEF LoadingInv
<1> DEFINE r == [call[c] EXCEPT !.on = load_event, !.at = "waiting"]
<1>1. call' = [call EXCEPT ![c] = r]
  BY DEF WaitLoad, PastPrepared
<1>2. r \in CallRecord
  BY Records DEF Place
<1>3. /\ r.at = "waiting"
      /\ r.got = call[c].got
      /\ r.on = load_event
      /\ r.saw = call[c].saw
  BY DEF CallRecord
<1> HIDE DEF r
<1>4. /\ call' \in [Call -> CallRecord] /\ call'[c] = r
      /\ \A d \in Call : d # c => call'[d] = call[d]
  BY <1>1, <1>2, CallMoves
<1>5. LoadingTypeOK'
  BY <1>4 DEF LoadingTypeOK, CallRecord, Place, FutureRecord, WaitLoad,
     PastPrepared
<1>6. LockOK' /\ QuietOK' /\ AwaitOK'
  BY <1>3, <1>4 DEF LockOK, QuietOK, AwaitOK, WaitLoad, PastPrepared,
     Mutates
<1>7. WrittenOK'
  BY <1>3, <1>4 DEF LockOK, QuietOK, WrittenOK, WorkOK, AckedKept, WaitLoad,
     PastPrepared, Mutates
<1>8. WorkOK'
  BY <1>3, <1>4 DEF LockOK, QuietOK, WrittenOK, WorkOK, AckedKept, WaitLoad,
     PastPrepared, Mutates
<1>9. AckedKept'
  BY <1>3, <1>4 DEF LockOK, QuietOK, WrittenOK, WorkOK, AckedKept, WaitLoad,
     PastPrepared, Mutates
<1> QED
  BY <1>5, <1>6, <1>7, <1>8, <1>9

\* It looks again.
LEMMA LoadSetStep ==
    ASSUME LoadingInv, NEW c \in Call, LoadSet(c)
    PROVE  LoadingInv'
<1> USE Types, ContentsFacts DEF LoadingInv
<1> DEFINE r == [call[c] EXCEPT !.at = "lookup"]
<1>1. call' = [call EXCEPT ![c] = r]
  BY DEF LoadSet, To
<1>2. r \in CallRecord
  BY Records DEF Place
<1>3. /\ r.at = "lookup"
      /\ r.got = call[c].got
      /\ r.on = call[c].on
      /\ r.saw = call[c].saw
  BY DEF CallRecord
<1> HIDE DEF r
<1>4. /\ call' \in [Call -> CallRecord] /\ call'[c] = r
      /\ \A d \in Call : d # c => call'[d] = call[d]
  BY <1>1, <1>2, CallMoves
<1>5. LoadingTypeOK'
  BY <1>4 DEF LoadingTypeOK, CallRecord, Place, FutureRecord, LoadSet, To
<1>6. LockOK' /\ QuietOK' /\ AwaitOK'
  BY <1>3, <1>4 DEF LockOK, QuietOK, AwaitOK, LoadSet, To, Mutates
<1>7. WrittenOK'
  BY <1>3, <1>4 DEF LockOK, QuietOK, WrittenOK, WorkOK, AckedKept, LoadSet,
     To, Mutates
<1>8. WorkOK'
  BY <1>3, <1>4 DEF LockOK, QuietOK, WrittenOK, WorkOK, AckedKept, LoadSet,
     To, Mutates
<1>9. AckedKept'
  BY <1>3, <1>4 DEF LockOK, QuietOK, WrittenOK, WorkOK, AckedKept, LoadSet,
     To, Mutates
<1> QED
  BY <1>5, <1>6, <1>7, <1>8, <1>9

\* A load takes what was preloaded.
LEMMA TakePreloadStep ==
    ASSUME LoadingInv, NEW c \in Call, TakePreload(c)
    PROVE  LoadingInv'
<1> USE Types, ContentsFacts DEF LoadingInv
<1>1. CASE preloaded[call[c].on].at = "done"
  <2> USE <1>1
  <2> DEFINE r == [call[c] EXCEPT
                    !.at = "authorize", !.got = preloaded[call[c].on].data]
  <2>1. call' = [call EXCEPT ![c] = r]
    BY DEF TakePreload, To, NoFuture
  <2>2. r \in CallRecord
    BY Records DEF Place, AwaitOK, FutureRecord, TakePreload
  <2>3. /\ r.at = "authorize"
        /\ r.got = preloaded[call[c].on].data
        /\ r.on = call[c].on
        /\ r.saw = call[c].saw
    BY DEF CallRecord
  <2> HIDE DEF r
  <2>4. /\ call' \in [Call -> CallRecord] /\ call'[c] = r
        /\ \A d \in Call : d # c => call'[d] = call[d]
    BY <2>1, <2>2, CallMoves
  <2>5. preloaded' \in [Call -> FutureRecord]
    BY DEF TakePreload, NoFuture, AwaitOK, FutureRecord
  <2>6. LoadingTypeOK'
    BY <2>4, <2>5 DEF LoadingTypeOK, CallRecord, Place, FutureRecord,
       TakePreload, To, NoFuture
  <2>7. LockOK' /\ QuietOK' /\ AwaitOK'
    BY <2>3, <2>4 DEF LockOK, QuietOK, AwaitOK, TakePreload, To, NoFuture,
       Mutates
  <2>8. WrittenOK'
    BY <2>3, <2>4 DEF LockOK, QuietOK, WrittenOK, WorkOK, AckedKept,
       TakePreload, To, NoFuture, Mutates
  <2>9. WorkOK'
    BY <2>3, <2>4 DEF LockOK, QuietOK, WrittenOK, WorkOK, AckedKept,
       TakePreload, To, NoFuture, Mutates
  <2>10. AckedKept'
    BY <2>3, <2>4 DEF LockOK, QuietOK, WrittenOK, WorkOK, AckedKept,
       TakePreload, To, NoFuture, Mutates
  <2> QED
    BY <2>6, <2>7, <2>8, <2>9, <2>10
<1>2. CASE ~(preloaded[call[c].on].at = "done")
  <2> USE <1>2
  <2> DEFINE r == [call[c] EXCEPT !.at = "query"]
  <2>1. call' = [call EXCEPT ![c] = r]
    BY DEF TakePreload, To, NoFuture
  <2>2. r \in CallRecord
    BY Records DEF Place, AwaitOK, FutureRecord, TakePreload
  <2>3. /\ r.at = "query"
        /\ r.got = call[c].got
        /\ r.on = call[c].on
        /\ r.saw = call[c].saw
    BY DEF CallRecord
  <2> HIDE DEF r
  <2>4. /\ call' \in [Call -> CallRecord] /\ call'[c] = r
        /\ \A d \in Call : d # c => call'[d] = call[d]
    BY <2>1, <2>2, CallMoves
  <2>5. preloaded' \in [Call -> FutureRecord]
    BY DEF TakePreload, NoFuture, AwaitOK, FutureRecord
  <2>6. LoadingTypeOK'
    BY <2>4, <2>5 DEF LoadingTypeOK, CallRecord, Place, FutureRecord,
       TakePreload, To, NoFuture
  <2>7. LockOK' /\ QuietOK' /\ AwaitOK'
    BY <2>3, <2>4 DEF LockOK, QuietOK, AwaitOK, TakePreload, To, NoFuture,
       Mutates
  <2>8. WrittenOK'
    BY <2>3, <2>4 DEF LockOK, QuietOK, WrittenOK, WorkOK, AckedKept,
       TakePreload, To, NoFuture, Mutates
  <2>9. WorkOK'
    BY <2>3, <2>4 DEF LockOK, QuietOK, WrittenOK, WorkOK, AckedKept,
       TakePreload, To, NoFuture, Mutates
  <2>10. AckedKept'
    BY <2>3, <2>4 DEF LockOK, QuietOK, WrittenOK, WorkOK, AckedKept,
       TakePreload, To, NoFuture, Mutates
  <2> QED
    BY <2>6, <2>7, <2>8, <2>9, <2>10
<1> QED
  BY <1>1, <1>2

\* A load reads the database.
LEMMA QueryStep ==
    ASSUME LoadingInv, NEW c \in Call, Query(c)
    PROVE  LoadingInv'
<1> USE Types, ContentsFacts DEF LoadingInv
<1> DEFINE r == [call[c] EXCEPT !.at = "authorize", !.got = stored]
<1>1. call' = [call EXCEPT ![c] = r]
  BY DEF Query
<1>2. r \in CallRecord
  BY Records DEF Place
<1>3. /\ r.at = "authorize"
      /\ r.got = stored
      /\ r.on = call[c].on
      /\ r.saw = call[c].saw
  BY DEF CallRecord
<1> HIDE DEF r
<1>4. /\ call' \in [Call -> CallRecord] /\ call'[c] = r
      /\ \A d \in Call : d # c => call'[d] = call[d]
  BY <1>1, <1>2, CallMoves
<1>5. LoadingTypeOK'
  BY <1>4 DEF LoadingTypeOK, CallRecord, Place, FutureRecord, Query
<1>6. LockOK' /\ QuietOK' /\ AwaitOK'
  BY <1>3, <1>4 DEF LockOK, QuietOK, AwaitOK, Query, Mutates
<1>7. WrittenOK'
  BY <1>3, <1>4 DEF LockOK, QuietOK, WrittenOK, WorkOK, AckedKept, Query,
     Mutates
<1>8. WorkOK'
  BY <1>3, <1>4 DEF LockOK, QuietOK, WrittenOK, WorkOK, AckedKept, Query,
     Mutates
<1>9. AckedKept'
  BY <1>3, <1>4 DEF LockOK, QuietOK, WrittenOK, WorkOK, AckedKept, Query,
     Mutates
<1> QED
  BY <1>5, <1>6, <1>7, <1>8, <1>9

\* A load lands, unless it was overtaken, all that is acknowledged.
LEMMA LandStep ==
    ASSUME LoadingInv, NEW c \in Call, Land(c)
    PROVE  LoadingInv'
<1> USE Types, ContentsFacts DEF LoadingInv
<1>1. CASE Kind[c] = "constructor"
  <2> USE <1>1
  <2> DEFINE r == [at |-> "done", got |-> Missing, on |-> NoCall, saw |-> {}]
  <2>1. call' = [call EXCEPT ![c] = r]
    BY DEF Land, End, Unlocked, LoadDone, To
  <2>2. r \in CallRecord
    BY ContentsFacts DEF CallRecord, Place
  <2>3. r.at = "done" /\ r.got = Missing /\ r.on = NoCall /\ r.saw = {}
    BY DEF CallRecord
  <2> HIDE DEF r
  <2>4. /\ call' \in [Call -> CallRecord] /\ call'[c] = r
        /\ \A d \in Call : d # c => call'[d] = call[d]
    BY <2>1, <2>2, CallMoves
  <2>5. LoadingTypeOK'
    BY <2>4 DEF LoadingTypeOK, CallRecord, Place, FutureRecord, Land, End,
       Unlocked, LoadDone, To
  <2>6. LockOK' /\ QuietOK' /\ AwaitOK'
    BY <2>3, <2>4 DEF LockOK, QuietOK, AwaitOK, Land, End, Unlocked,
       LoadDone, To, Mutates
  <2>7. WrittenOK'
    BY <2>3, <2>4 DEF LockOK, QuietOK, WrittenOK, WorkOK, AckedKept, Land,
       End, Unlocked, LoadDone, To, Mutates
  <2>8. WorkOK'
    BY <2>3, <2>4 DEF LockOK, QuietOK, WrittenOK, WorkOK, AckedKept, Land,
       End, Unlocked, LoadDone, To, Mutates
  <2>9. AckedKept'
    BY <2>3, <2>4 DEF LockOK, QuietOK, WrittenOK, WorkOK, AckedKept, Land,
       End, Unlocked, LoadDone, To, Mutates
  <2> QED
    BY <2>5, <2>6, <2>7, <2>8, <2>9
<1>2. CASE ~(Kind[c] = "constructor")
  <2> USE <1>2
  <2> DEFINE r == [call[c] EXCEPT !.at = "body"]
  <2>1. call' = [call EXCEPT ![c] = r]
    BY DEF Land, End, Unlocked, LoadDone, To
  <2>2. r \in CallRecord
    BY Records DEF Place
  <2>3. /\ r.at = "body"
        /\ r.got = call[c].got
        /\ r.on = call[c].on
        /\ r.saw = call[c].saw
    BY DEF CallRecord
  <2> HIDE DEF r
  <2>4. /\ call' \in [Call -> CallRecord] /\ call'[c] = r
        /\ \A d \in Call : d # c => call'[d] = call[d]
    BY <2>1, <2>2, CallMoves
  <2>5. ~raced' => ~raced /\ acked \subseteq call[c].got
    BY DEF Land, LoadingTypeOK
  <2>6. LoadingTypeOK'
    BY <2>4 DEF LoadingTypeOK, CallRecord, Place, FutureRecord, Land, End,
       Unlocked, LoadDone, To
  <2>7. LockOK' /\ QuietOK' /\ AwaitOK'
    BY <2>3, <2>4 DEF LockOK, QuietOK, AwaitOK, Land, End, Unlocked,
       LoadDone, To, Mutates
  <2>8. WrittenOK'
    BY <2>3, <2>4, <2>5 DEF LockOK, QuietOK, WrittenOK, WorkOK, AckedKept,
       Land, End, Unlocked, LoadDone, To, Mutates
  <2>9. WorkOK'
    BY <2>3, <2>4, <2>5 DEF LockOK, QuietOK, WrittenOK, WorkOK, AckedKept,
       Land, End, Unlocked, LoadDone, To, Mutates
  <2>10. AckedKept'
    BY <2>3, <2>4, <2>5 DEF LockOK, QuietOK, WrittenOK, WorkOK, AckedKept,
       Land, End, Unlocked, LoadDone, To, Mutates
  <2> QED
    BY <2>6, <2>7, <2>8, <2>9, <2>10
<1> QED
  BY <1>1, <1>2

\* A load finds nothing, which is right if nothing is acknowledged.
LEMMA LandMissingStep ==
    ASSUME LoadingInv, NEW c \in Call, LandMissing(c)
    PROVE  LoadingInv'
<1> USE Types, ContentsFacts DEF LoadingInv
<1>1. CASE Kind[c] = "reader" \/ (RequiresConstructor /\ Kind[c] # "constructor")
  <2> USE <1>1
  <2> DEFINE r == [at |-> "done", got |-> Missing, on |-> NoCall, saw |-> {}]
  <2>1. call' = [call EXCEPT ![c] = r]
    BY DEF LandMissing, End, Unlocked, LoadDone
  <2>2. r \in CallRecord
    BY ContentsFacts DEF CallRecord, Place
  <2>3. r.at = "done" /\ r.got = Missing /\ r.on = NoCall /\ r.saw = {}
    BY DEF CallRecord
  <2> HIDE DEF r
  <2>4. /\ call' \in [Call -> CallRecord] /\ call'[c] = r
        /\ \A d \in Call : d # c => call'[d] = call[d]
    BY <2>1, <2>2, CallMoves
  <2>5. LoadingTypeOK'
    BY <2>4 DEF LoadingTypeOK, CallRecord, Place, FutureRecord, LandMissing,
       End, Unlocked, LoadDone
  <2>6. LockOK' /\ QuietOK' /\ AwaitOK'
    BY <2>3, <2>4 DEF LockOK, QuietOK, AwaitOK, LandMissing, End, Unlocked,
       LoadDone, Mutates
  <2>7. WrittenOK'
    BY <2>3, <2>4 DEF LockOK, QuietOK, WrittenOK, WorkOK, AckedKept,
       LandMissing, End, Unlocked, LoadDone, Mutates
  <2>8. WorkOK'
    BY <2>3, <2>4 DEF LockOK, QuietOK, WrittenOK, WorkOK, AckedKept,
       LandMissing, End, Unlocked, LoadDone, Mutates
  <2>9. AckedKept'
    BY <2>3, <2>4 DEF LockOK, QuietOK, WrittenOK, WorkOK, AckedKept,
       LandMissing, End, Unlocked, LoadDone, Mutates
  <2> QED
    BY <2>5, <2>6, <2>7, <2>8, <2>9
<1>2. CASE ~(Kind[c] = "reader" \/ (RequiresConstructor /\ Kind[c] # "constructor"))
  <2> USE <1>2
  <2> DEFINE r == [call[c] EXCEPT !.at = "body", !.got = {}]
  <2>1. call' = [call EXCEPT ![c] = r]
    BY DEF LandMissing, End, Unlocked, LoadDone
  <2>2. r \in CallRecord
    BY Records DEF Place
  <2>3. /\ r.at = "body"
        /\ r.got = {}
        /\ r.on = call[c].on
        /\ r.saw = call[c].saw
    BY DEF CallRecord
  <2> HIDE DEF r
  <2>4. /\ call' \in [Call -> CallRecord] /\ call'[c] = r
        /\ \A d \in Call : d # c => call'[d] = call[d]
    BY <2>1, <2>2, CallMoves
  <2>5. LoadingTypeOK'
    BY <2>4 DEF LoadingTypeOK, CallRecord, Place, FutureRecord, LandMissing,
       End, Unlocked, LoadDone
  <2>6. LockOK' /\ QuietOK' /\ AwaitOK'
    BY <2>3, <2>4 DEF LockOK, QuietOK, AwaitOK, LandMissing, End, Unlocked,
       LoadDone, Mutates
  <2>7. WrittenOK'
    BY <2>3, <2>4 DEF LockOK, QuietOK, WrittenOK, WorkOK, AckedKept,
       LandMissing, End, Unlocked, LoadDone, Mutates
  <2>8. WorkOK'
    <3>1. acked' = acked /\ (~raced' => ~raced /\ acked = {})
      BY DEF LandMissing
    <3>2. call'[c].got # Missing /\ call'[c].saw = call[c].saw
      BY <2>3, <2>4
    <3> QED
      BY <2>4, <3>1, <3>2 DEF WorkOK, Mutates
  <2>9. AckedKept'
    BY <2>3, <2>4 DEF LockOK, QuietOK, WrittenOK, WorkOK, AckedKept,
       LandMissing, End, Unlocked, LoadDone, Mutates
  <2> QED
    BY <2>5, <2>6, <2>7, <2>8, <2>9
<1> QED
  BY <1>1, <1>2

\* A reader answers.
LEMMA AnswerStep ==
    ASSUME LoadingInv, NEW c \in Call, Answer(c)
    PROVE  LoadingInv'
<1> USE Types, ContentsFacts DEF LoadingInv
<1> DEFINE r == [at |-> "done", got |-> Missing, on |-> NoCall, saw |-> {}]
<1>1. call' = [call EXCEPT ![c] = r]
  BY DEF Answer, End
<1>2. r \in CallRecord
  BY ContentsFacts DEF CallRecord, Place
<1>3. r.at = "done" /\ r.got = Missing /\ r.on = NoCall /\ r.saw = {}
  BY DEF CallRecord
<1> HIDE DEF r
<1>4. /\ call' \in [Call -> CallRecord] /\ call'[c] = r
      /\ \A d \in Call : d # c => call'[d] = call[d]
  BY <1>1, <1>2, CallMoves
<1>5. LoadingTypeOK'
  BY <1>4 DEF LoadingTypeOK, CallRecord, Place, FutureRecord, Answer, End
<1>6. LockOK' /\ QuietOK' /\ AwaitOK'
  BY <1>3, <1>4 DEF LockOK, QuietOK, AwaitOK, Answer, End, Mutates
<1>7. WrittenOK'
  BY <1>3, <1>4 DEF LockOK, QuietOK, WrittenOK, WorkOK, AckedKept, Answer,
     End, Mutates
<1>8. WorkOK'
  BY <1>3, <1>4 DEF LockOK, QuietOK, WrittenOK, WorkOK, AckedKept, Answer,
     End, Mutates
<1>9. AckedKept'
  BY <1>3, <1>4 DEF LockOK, QuietOK, WrittenOK, WorkOK, AckedKept, Answer,
     End, Mutates
<1> QED
  BY <1>5, <1>6, <1>7, <1>8, <1>9

\* A writer stores what it loaded with its own mutation: it held the lock
\* since before the load landed, so nothing was acknowledged in between.
LEMMA StoreInDatabaseStep ==
    ASSUME LoadingInv, NEW c \in Call, StoreInDatabase(c)
    PROVE  LoadingInv'
<1> USE Types, ContentsFacts DEF LoadingInv
<1> DEFINE r == [call[c] EXCEPT !.at = "remember"]
<1>1. call' = [call EXCEPT ![c] = r]
  BY DEF StoreInDatabase, To
<1>2. r \in CallRecord
  BY Records DEF Place
<1>3. /\ r.at = "remember"
      /\ r.got = call[c].got
      /\ r.on = call[c].on
      /\ r.saw = call[c].saw
  BY DEF CallRecord
<1> HIDE DEF r
<1>4. /\ call' \in [Call -> CallRecord] /\ call'[c] = r
      /\ \A d \in Call : d # c => call'[d] = call[d]
  BY <1>1, <1>2, CallMoves
<1>5. call[c].got \cup {c} \in Contents
  BY DEF WorkOK, CallRecord, StoreInDatabase
<1>6. LoadingTypeOK'
  BY <1>4, <1>5 DEF LoadingTypeOK, CallRecord, Place, FutureRecord,
     StoreInDatabase, To
<1>7. LockOK' /\ QuietOK' /\ AwaitOK'
  BY <1>3, <1>4 DEF LockOK, QuietOK, AwaitOK, StoreInDatabase, To, Mutates
<1>8. WrittenOK'
  BY <1>3, <1>4 DEF LockOK, QuietOK, WrittenOK, WorkOK, AckedKept,
     StoreInDatabase, To, Mutates
<1>9. WorkOK'
  BY <1>3, <1>4 DEF LockOK, QuietOK, WrittenOK, WorkOK, AckedKept,
     StoreInDatabase, To, Mutates
<1>10. AckedKept'
  BY <1>3, <1>4 DEF LockOK, QuietOK, WrittenOK, WorkOK, AckedKept,
     StoreInDatabase, To, Mutates
<1> QED
  BY <1>6, <1>7, <1>8, <1>9, <1>10

\* Its mutation is acknowledged: the database has it, and now the cache.
LEMMA RememberStep ==
    ASSUME LoadingInv, NEW c \in Call, Remember(c)
    PROVE  LoadingInv'
<1> USE Types, ContentsFacts DEF LoadingInv
<1> DEFINE r == [at |-> "done", got |-> Missing, on |-> NoCall, saw |-> {}]
<1>1. call' = [call EXCEPT ![c] = r]
  BY DEF Remember, End, Unlocked
<1>2. r \in CallRecord
  BY ContentsFacts DEF CallRecord, Place
<1>3. r.at = "done" /\ r.got = Missing /\ r.on = NoCall /\ r.saw = {}
  BY DEF CallRecord
<1> HIDE DEF r
<1>4. /\ call' \in [Call -> CallRecord] /\ call'[c] = r
      /\ \A d \in Call : d # c => call'[d] = call[d]
  BY <1>1, <1>2, CallMoves
<1>5. call[c].got \cup {c} \in Contents
  BY DEF WorkOK, CallRecord, Remember
<1>6. LoadingTypeOK'
  BY <1>4, <1>5 DEF LoadingTypeOK, CallRecord, Place, FutureRecord,
     Remember, End, Unlocked
<1>7. LockOK' /\ QuietOK' /\ AwaitOK'
  BY <1>3, <1>4 DEF LockOK, QuietOK, AwaitOK, Remember, End, Unlocked,
     Mutates
<1>8. WrittenOK'
  BY <1>3, <1>4 DEF LockOK, QuietOK, WrittenOK, WorkOK, AckedKept, Remember,
     End, Unlocked, Mutates
<1>9. WorkOK'
  BY <1>3, <1>4 DEF LockOK, QuietOK, WrittenOK, WorkOK, AckedKept, Remember,
     End, Unlocked, Mutates
<1>10. AckedKept'
  BY <1>3, <1>4 DEF LockOK, QuietOK, WrittenOK, WorkOK, AckedKept, Remember,
     End, Unlocked, Mutates
<1> QED
  BY <1>6, <1>7, <1>8, <1>9, <1>10

\* A call is cancelled at any of its awaits.
LEMMA CancelCallStep ==
    ASSUME LoadingInv, NEW c \in Call, CancelCall(c)
    PROVE  LoadingInv'
<1> USE Types, ContentsFacts DEF LoadingInv
<1> DEFINE r == [at |-> "done", got |-> Missing, on |-> NoCall, saw |-> {}]
<1>1. call' = [call EXCEPT ![c] = r]
  BY DEF CancelCall, End, LoadDone, Unlocked
<1>2. r \in CallRecord
  BY ContentsFacts DEF CallRecord, Place
<1>3. r.at = "done" /\ r.got = Missing /\ r.on = NoCall /\ r.saw = {}
  BY DEF CallRecord
<1> HIDE DEF r
<1>4. /\ call' \in [Call -> CallRecord] /\ call'[c] = r
      /\ \A d \in Call : d # c => call'[d] = call[d]
  BY <1>1, <1>2, CallMoves
<1>5. LoadingTypeOK'
  BY <1>4 DEF LoadingTypeOK, CallRecord, Place, FutureRecord, CancelCall,
     End, LoadDone, Unlocked
<1>6. LockOK' /\ QuietOK' /\ AwaitOK'
  BY <1>3, <1>4 DEF LockOK, QuietOK, AwaitOK, CancelCall, End, LoadDone,
     Unlocked, Mutates
<1>7. WrittenOK'
  BY <1>3, <1>4 DEF LockOK, QuietOK, WrittenOK, WorkOK, AckedKept,
     CancelCall, End, LoadDone, Unlocked, Mutates
<1>8. WorkOK'
  BY <1>3, <1>4 DEF LockOK, QuietOK, WrittenOK, WorkOK, AckedKept,
     CancelCall, End, LoadDone, Unlocked, Mutates
<1>9. AckedKept'
  BY <1>3, <1>4 DEF LockOK, QuietOK, WrittenOK, WorkOK, AckedKept,
     CancelCall, End, LoadDone, Unlocked, Mutates
<1> QED
  BY <1>5, <1>6, <1>7, <1>8, <1>9

-----------------------------------------------------------------------------
(* The other steps.                                                         *)

\* A preload does not touch what the properties are about.
LEMMA PreloadAnswersStep ==
    ASSUME LoadingInv, NEW c \in Call, PreloadAnswers(c)
    PROVE  LoadingInv'
<1> USE Types, ContentsFacts DEF LoadingInv
<1>1. preloaded' \in [Call -> FutureRecord]
  BY DEF FutureRecord, PreloadAnswers
<1>2. LoadingTypeOK'
  BY <1>1 DEF LoadingTypeOK, FutureRecord, PreloadAnswers
<1>3. LockOK' /\ QuietOK' /\ AwaitOK'
  BY DEF LockOK, QuietOK, AwaitOK, Mutates, PreloadAnswers
<1>4. WrittenOK'
  BY DEF LockOK, QuietOK, WrittenOK, WorkOK, AckedKept, Mutates,
     PreloadAnswers
<1>5. WorkOK'
  BY DEF LockOK, QuietOK, WrittenOK, WorkOK, AckedKept, Mutates,
     PreloadAnswers
<1>6. AckedKept'
  BY DEF LockOK, QuietOK, WrittenOK, WorkOK, AckedKept, Mutates,
     PreloadAnswers
<1> QED
  BY <1>2, <1>3, <1>4, <1>5, <1>6

\* Nor does one that fails,
LEMMA PreloadFailsStep ==
    ASSUME LoadingInv, NEW c \in Call, PreloadFails(c)
    PROVE  LoadingInv'
<1> USE Types, ContentsFacts DEF LoadingInv
<1>1. preloaded' \in [Call -> FutureRecord]
  <2>1. preloaded \in [Call -> FutureRecord] OBVIOUS
  <2>2. NoFuture \in FutureRecord /\ [preloaded[c] EXCEPT !.at = "failed"] \in FutureRecord
    BY <2>1 DEF FutureRecord, NoFuture
  <2>3. PICK f \in FutureRecord : preloaded' = [preloaded EXCEPT ![c] = f]
    BY <2>2, Zenon DEF PreloadFails
  <2> QED
    BY <2>1, <2>3
<1>2. LoadingTypeOK'
  BY <1>1 DEF LoadingTypeOK, FutureRecord, PreloadFails, ForgetPreload,
     NoFuture
<1>3. LockOK' /\ QuietOK' /\ AwaitOK'
  BY DEF LockOK, QuietOK, AwaitOK, Mutates, PreloadFails, ForgetPreload,
     NoFuture
<1>4. WrittenOK'
  BY DEF LockOK, QuietOK, WrittenOK, WorkOK, AckedKept, Mutates,
     PreloadFails, ForgetPreload, NoFuture
<1>5. WorkOK'
  BY DEF LockOK, QuietOK, WrittenOK, WorkOK, AckedKept, Mutates,
     PreloadFails, ForgetPreload, NoFuture
<1>6. AckedKept'
  BY DEF LockOK, QuietOK, WrittenOK, WorkOK, AckedKept, Mutates,
     PreloadFails, ForgetPreload, NoFuture
<1> QED
  BY <1>2, <1>3, <1>4, <1>5, <1>6

\* or that nobody uses.
LEMMA PreloadUnusedStep ==
    ASSUME LoadingInv, NEW c \in Call, PreloadUnused(c)
    PROVE  LoadingInv'
<1> USE Types, ContentsFacts DEF LoadingInv
<1>1. preloaded' \in [Call -> FutureRecord]
  BY DEF FutureRecord, PreloadUnused, ForgetPreload, NoFuture
<1>2. LoadingTypeOK'
  BY <1>1 DEF LoadingTypeOK, FutureRecord, PreloadUnused, ForgetPreload,
     NoFuture
<1>3. LockOK' /\ QuietOK' /\ AwaitOK'
  BY DEF LockOK, QuietOK, AwaitOK, Mutates, PreloadUnused, ForgetPreload,
     NoFuture
<1>4. WrittenOK'
  BY DEF LockOK, QuietOK, WrittenOK, WorkOK, AckedKept, Mutates,
     PreloadUnused, ForgetPreload, NoFuture
<1>5. WorkOK'
  BY DEF LockOK, QuietOK, WrittenOK, WorkOK, AckedKept, Mutates,
     PreloadUnused, ForgetPreload, NoFuture
<1>6. AckedKept'
  BY DEF LockOK, QuietOK, WrittenOK, WorkOK, AckedKept, Mutates,
     PreloadUnused, ForgetPreload, NoFuture
<1> QED
  BY <1>2, <1>3, <1>4, <1>5, <1>6

\* The recovered transaction is in the database before it is acknowledged, and
\* nothing is cached that could miss it.
LEMMA CommitRecoveredStep ==
    ASSUME LoadingInv, CommitRecovered
    PROVE  LoadingInv'
<1> USE Types, ContentsFacts DEF LoadingInv
<1>1. stored' \in Contents
  BY DEF CommitRecovered, Unlocked
<1>2. LoadingTypeOK'
  BY <1>1 DEF LoadingTypeOK, FutureRecord, CommitRecovered, Unlocked
<1>3. LockOK' /\ QuietOK' /\ AwaitOK'
  BY DEF LockOK, QuietOK, AwaitOK, Mutates, CommitRecovered, Unlocked
<1>4. WrittenOK'
  BY DEF LockOK, QuietOK, WrittenOK, WorkOK, AckedKept, Mutates,
     CommitRecovered, Unlocked
<1>5. WorkOK'
  BY DEF LockOK, QuietOK, WrittenOK, WorkOK, AckedKept, Mutates,
     CommitRecovered, Unlocked
<1>6. ~raced => acked \subseteq stored'
  <2>1. stored = Missing /\ ~raced => acked = {}
    BY DEF AckedKept, Missing
  <2> QED
    BY <2>1 DEF AckedKept, CommitRecovered
<1>7. AckedKept'
  BY <1>6 DEF QuietOK, WrittenOK, AckedKept, CommitRecovered
<1> QED
  BY <1>2, <1>3, <1>4, <1>5, <1>7

\* It is aborted: its lock is free.
LEMMA AbortRecoveredStep ==
    ASSUME LoadingInv, AbortRecovered
    PROVE  LoadingInv'
<1> USE Types, ContentsFacts DEF LoadingInv
<1>1. LoadingTypeOK'
  BY DEF LoadingTypeOK, FutureRecord, AbortRecovered, Unlocked
<1>2. LockOK' /\ QuietOK' /\ AwaitOK'
  BY DEF LockOK, QuietOK, AwaitOK, Mutates, AbortRecovered, Unlocked
<1>3. WrittenOK'
  BY DEF LockOK, QuietOK, WrittenOK, WorkOK, AckedKept, Mutates,
     AbortRecovered, Unlocked
<1>4. WorkOK'
  BY DEF LockOK, QuietOK, WrittenOK, WorkOK, AckedKept, Mutates,
     AbortRecovered, Unlocked
<1>5. AckedKept'
  BY DEF LockOK, QuietOK, WrittenOK, WorkOK, AckedKept, Mutates,
     AbortRecovered, Unlocked
<1> QED
  BY <1>1, <1>2, <1>3, <1>4, <1>5

-----------------------------------------------------------------------------
(* The theorems.                                                            *)

\* The server starts with nothing cached and nothing acknowledged.
LEMMA LoadingStart == LoadingInit => LoadingInv
<1> SUFFICES ASSUME LoadingInit PROVE LoadingInv
  OBVIOUS
<1> USE ContentsFacts DEF LoadingInit
<1>1. LoadingTypeOK
  BY DEF LoadingTypeOK, NoFuture
<1>2. LockOK /\ QuietOK /\ AwaitOK
  BY DEF LockOK, QuietOK, AwaitOK
<1>3. WrittenOK /\ WorkOK /\ AckedKept
  BY DEF WrittenOK, WorkOK, AckedKept
<1> QED
  BY <1>1, <1>2, <1>3 DEF LoadingInv

\* Every step keeps the invariant.
LEMMA LoadingKept == LoadingInv /\ [LoadingNext]_loadingVars => LoadingInv'
<1> SUFFICES ASSUME LoadingInv, [LoadingNext]_loadingVars PROVE LoadingInv'
  OBVIOUS
<1>1. CASE UNCHANGED loadingVars
  BY <1>1 DEF loadingVars, LoadingInv, LoadingTypeOK, LockOK, QuietOK, AwaitOK,
     WrittenOK, WorkOK, AckedKept
<1>2. CASE CommitRecovered \/ AbortRecovered
  BY <1>2, CommitRecoveredStep, AbortRecoveredStep
<1>3. ASSUME NEW c \in Call,
             \/ StartCall(c) \/ AcquireLock(c) \/ PreloadAnswers(c)
             \/ PreloadFails(c) \/ PreloadUnused(c) \/ LoadCached(c)
             \/ StartLoad(c) \/ WaitLoad(c) \/ LoadSet(c)
             \/ TakePreload(c) \/ Query(c) \/ Land(c)
             \/ LandMissing(c) \/ Answer(c) \/ StoreInDatabase(c)
             \/ Remember(c) \/ CancelCall(c)
      PROVE  LoadingInv'
  BY <1>3, StartCallStep, AcquireLockStep, PreloadAnswersStep,
     PreloadFailsStep, PreloadUnusedStep, LoadCachedStep, StartLoadStep,
     WaitLoadStep, LoadSetStep, TakePreloadStep, QueryStep, LandStep,
     LandMissingStep, AnswerStep, StoreInDatabaseStep, RememberStep,
     CancelCallStep
<1> QED
  BY <1>1, <1>2, <1>3 DEF LoadingNext

\* However calls, preloads and a recovered transaction interleave, the
\* invariant holds.
THEOREM LoadingInvariance == LoadingSpec => []LoadingInv
BY LoadingStart, LoadingKept, PTL DEF LoadingSpec

\* No acknowledged mutation is missing from the database, from the cache, or
\* from what a later call works on, unless a load landed what had been
\* overtaken (`_load`, `_store` and `preload` of SidecarStateManager).
THEOREM AcknowledgedKept == LoadingSpec => []AckedKept
<1>1. LoadingInv => AckedKept
  BY DEF LoadingInv
<1> QED
  BY <1>1, LoadingInvariance, PTL

----------------------------------------------------------------------------
(* Tasks *)

Holds(c, u) == \E i \in DOMAIN c : c[i] = u
Distinct(c) == \A i, j \in DOMAIN c : i # j => c[i] # c[j]

\* What `Without` removes is gone, and nothing else is.
LEMMA WithoutProperties ==
    ASSUME NEW c \in Seq(Task), NEW E
    PROVE  /\ Without(c, E) \in Seq(Task)
           /\ \A u : Holds(Without(c, E), u) <=> Holds(c, u) /\ u \notin E
           /\ Distinct(c) => Distinct(Without(c, E))
<1> DEFINE keep == {i \in DOMAIN c : c[i] \notin E}
           Rank(i) == Cardinality({j \in keep : j <= i})
           n == Cardinality(keep)
           pick(k) == CHOOSE i \in keep : Rank(i) = k
<1>1. DOMAIN c = 1..Len(c) /\ Len(c) \in Nat /\ \A i \in DOMAIN c : c[i] \in Task
  BY ElementOfSeq, LenProperties
<1>2. IsFiniteSet(keep) /\ n \in Nat
  <2>1. keep \in SUBSET (1..Len(c)) BY <1>1
  <2>2. IsFiniteSet(1..Len(c)) BY <1>1, FS_Interval
  <2>3. IsFiniteSet(keep) BY <2>1, <2>2, FS_Subset
  <2> QED BY <2>3, FS_CardinalityType
<1>3. ASSUME NEW i \in keep PROVE Rank(i) \in 1..n
  <2> DEFINE below == {j \in keep : j <= i}
  <2>1. below \in SUBSET keep OBVIOUS
  <2>2. IsFiniteSet(below) /\ Cardinality(below) <= n BY <1>2, <2>1, FS_Subset
  <2>3. i \in below BY <1>1
  <2>4. Cardinality(below) \in Nat BY <2>2, FS_CardinalityType
  <2>5. Cardinality(below) # 0 BY <2>2, <2>3, FS_EmptySet
  <2> QED BY <1>2, <2>2, <2>4, <2>5
<1>4. ASSUME NEW i \in keep, NEW j \in keep, i < j PROVE Rank(i) # Rank(j)
  <2> DEFINE S == {k \in keep : k <= j}
             T == {k \in keep : k <= i}
  <2>1. T \in SUBSET S BY <1>1, <1>4
  <2>2. j \in S /\ j \notin T BY <1>1, <1>4
  <2>3. S \in SUBSET keep OBVIOUS
  <2>4. IsFiniteSet(S) BY <1>2, <2>3, FS_Subset
  <2> HIDE DEF S, T, keep
  <2>5. Cardinality(S) # Cardinality(T) BY <2>1, <2>2, <2>4, FS_Subset
  <2> QED BY <2>5 DEF S, T
<1>5. ASSUME NEW i \in keep, NEW j \in keep, Rank(i) = Rank(j) PROVE i = j
  <2> HIDE DEF Rank
  <2>1. i \in Nat /\ j \in Nat BY <1>1
  <2> QED BY <1>4, <1>5, <2>1
<1> DEFINE rank == [i \in keep |-> Rank(i)]
<1>6. rank \in Surjection(keep, 1..n)
  <2> HIDE DEF keep, Rank, n
  <2>1. rank \in Injection(keep, 1..n) BY <1>3, <1>5 DEF Injection, IsInjective
  <2>2. IsFiniteSet(1..n) /\ Cardinality(1..n) = n BY <1>2, FS_Interval
  <2>3. Cardinality(keep) = Cardinality(1..n) BY <2>2 DEF n
  <2> QED BY <2>1, <2>2, <2>3, FS_Injection
<1>7. ASSUME NEW k \in 1..n PROVE pick(k) \in keep /\ Rank(pick(k)) = k
  <2> HIDE DEF keep, Rank, n
  <2>1. \E i \in keep : Rank(i) = k BY <1>6 DEF Surjection
  <2> QED BY <2>1
<1>8. ASSUME NEW i \in keep PROVE pick(Rank(i)) = i
  <2> HIDE DEF keep, Rank, n, pick
  <2> QED BY <1>3, <1>5, <1>7
<1>9. Without(c, E) = [k \in 1..n |-> c[pick(k)]] BY DEF Without
<1>10. Without(c, E) \in Seq(Task) /\ DOMAIN Without(c, E) = 1..n
  <2>1. \A k \in 1..n : c[pick(k)] \in Task
    <3> HIDE DEF Rank, n, pick
    <3> QED BY <1>1, <1>7
  <2> HIDE DEF keep, n, pick
  <2> QED BY <1>2, <1>9, <2>1, IsASeq
<1>11. ASSUME NEW u PROVE Holds(Without(c, E), u) <=> Holds(c, u) /\ u \notin E
  <2>1. ASSUME Holds(Without(c, E), u) PROVE Holds(c, u) /\ u \notin E
    <3>1. PICK k \in 1..n : c[pick(k)] = u
      <4> HIDE DEF keep, n, pick
      <4> QED BY <1>9, <1>10, <2>1 DEF Holds
    <3>2. pick(k) \in keep BY <1>7
    <3> HIDE DEF pick
    <3> QED BY <3>1, <3>2 DEF Holds
  <2>2. ASSUME Holds(c, u), u \notin E PROVE Holds(Without(c, E), u)
    <3>1. PICK i \in keep : c[i] = u BY <2>2 DEF Holds
    <3> HIDE DEF keep, n, pick, Rank
    <3>2. Rank(i) \in 1..n /\ pick(Rank(i)) = i BY <1>3, <1>8
    <3> QED BY <1>9, <1>10, <3>1, <3>2 DEF Holds
  <2> QED BY <2>1, <2>2
<1>12. ASSUME Distinct(c) PROVE Distinct(Without(c, E))
  <2> SUFFICES ASSUME NEW k \in 1..n, NEW l \in 1..n, k # l PROVE c[pick(k)] # c[pick(l)]
    <3> HIDE DEF keep, n, pick
    <3> QED BY <1>9, <1>10 DEF Distinct
  <2>1. pick(k) \in keep /\ pick(l) \in keep /\ Rank(pick(k)) = k /\ Rank(pick(l)) = l BY <1>7
  <2> HIDE DEF pick, Rank
  <2>2. pick(k) # pick(l) BY <2>1
  <2> QED BY <1>12, <2>1, <2>2 DEF Distinct
<1> QED BY <1>10, <1>11, <1>12

\* A task that is moved to the end is there, and no other comes or goes.
LEMMA MovedProperties ==
    ASSUME NEW c \in Seq(Task), Distinct(c), NEW t \in Task
    PROVE  /\ Moved(c, t) \in Seq(Task)
           /\ \A u : Holds(Moved(c, t), u) <=> Holds(c, u) \/ u = t
           /\ Distinct(Moved(c, t))
<1> DEFINE w == Without(c, {t})
<1>1. w \in Seq(Task) /\ (\A u : Holds(w, u) <=> Holds(c, u) /\ u # t) /\ Distinct(w)
  BY WithoutProperties
<1> HIDE DEF w
<1>2. /\ Append(w, t) \in Seq(Task)
      /\ DOMAIN Append(w, t) = 1..(Len(w) + 1) /\ DOMAIN w = 1..Len(w) /\ Len(w) \in Nat
      /\ \A i \in 1..Len(w) : Append(w, t)[i] = w[i]
      /\ Append(w, t)[Len(w) + 1] = t
  BY <1>1, AppendProperties, LenProperties
<1>3. Moved(c, t) = Append(w, t) BY DEF Moved, w
<1>4. PICK m : m = Append(w, t) OBVIOUS
<1>5. ASSUME NEW u PROVE Holds(m, u) <=> Holds(c, u) \/ u = t
  <2>1. Holds(m, u) <=> Holds(w, u) \/ u = t BY <1>2, <1>4 DEF Holds
  <2> QED BY <1>1, <2>1
<1>6. Distinct(m)
  <2> SUFFICES ASSUME NEW i \in DOMAIN m, NEW j \in DOMAIN m, i # j PROVE m[i] # m[j]
    BY DEF Distinct
  <2>1. \A k \in 1..Len(w) : w[k] # t BY <1>1, <1>2 DEF Holds
  <2> QED BY <1>1, <1>2, <1>4, <2>1 DEF Distinct
<1> QED BY <1>2, <1>3, <1>4, <1>5, <1>6

\* Only tasks that are done are evicted.
LEMMA TrimmedProperties ==
    ASSUME NEW c \in Seq(Task), Distinct(c), NEW r
    PROVE  /\ Trimmed(c, r) \in Seq(Task)
           /\ \A u : Holds(Trimmed(c, r), u) => Holds(c, u)
           /\ \A u : Holds(c, u) /\ r[u] = Open => Holds(Trimmed(c, r), u)
           /\ Distinct(Trimmed(c, r))
<1> DEFINE Done(i) == r[c[i]] # Open
           Before(i) == Cardinality({j \in 1..(i - 1) : Done(j)})
           Evicted == {c[i] : i \in {j \in DOMAIN c :
                          Done(j) /\ Len(c) - Before(j) > CacheTarget}}
<1>1. Trimmed(c, r) = Without(c, Evicted) BY DEF Trimmed
<1>2. \A u : r[u] = Open => u \notin Evicted OBVIOUS
<1> HIDE DEF Evicted
<1> QED BY <1>1, <1>2, WithoutProperties

\* A task that the cache is told of is there with its response if it is
\* open; what is evicted has none.
LEMMA CacheIsProperties ==
    ASSUME NEW c \in Seq(Task), Distinct(c),
           NEW r \in [Task -> {"none", Open} \cup Outcome], CacheIs(c, r)
    PROVE  /\ cache' \in Seq(Task) /\ Distinct(cache')
           /\ response' \in [Task -> {"none", Open} \cup Outcome]
           /\ \A u \in Task : Holds(c, u) /\ r[u] = Open
                  => response'[u] = Open /\ Holds(cache', u)
           /\ \A u \in Task : response'[u] \in {r[u], "none"}
<1>1. /\ cache' = Trimmed(c, r)
      /\ response' = [t \in Task |-> IF Holds(cache', t) THEN r[t] ELSE "none"]
  BY DEF CacheIs, Holds
<1>2. PICK k : k = Trimmed(c, r) OBVIOUS
<1>3. /\ k \in Seq(Task) /\ Distinct(k)
      /\ \A u : Holds(c, u) /\ r[u] = Open => Holds(k, u)
  BY <1>2, TrimmedProperties
<1> QED BY <1>1, <1>2, <1>3

Running == {"scheduled", "body", "backoff", "complete", "respond"}

\* The response of a task, and what its waiters hear, is a result only if the
\* task is completed in the database, as it is when its loop responds.
ResultsStored ==
    /\ \A t \in Task :
        /\ response[t] = "result" => Completed(t)
        /\ "result" \in given[t] => Completed(t)
        /\ loop[t] \in {"complete", "respond"} => outcome[t] \in Outcome
        /\ loop[t] = "respond" => Completed(t)
    /\ \A w \in Waiter :
        /\ waiter[w].at \notin {"away", "done"} => waiter[w].task \in Task
        /\ waiter[w].at = "result" => Completed(waiter[w].task)

\* The future of a task is in the cache and open.
Future(t) == response[t] = Open /\ Holds(cache, t)

\* As long as the server runs a prepared task is awaited, and a pending one
\* has its future until its cancellation is stored, or could not be.
Accounted(t) ==
    /\ loop[t] \in Running => Future(t)
    /\ dispatched[t] # "no" \/ loop[t] # "none" => task_row[t] \in {"pending"} \cup Outcome
    /\ loop[t] # "none" => dispatched[t] # "no"
    /\ "lost" \in given[t] => crashes > 0 \/ stop_requested \/ "unstored" \in given[t]
    /\ crashes = 0 /\ task_row[t] = "prepared" => t \in prepared_tasks
    /\ crashes = 0 /\ ~stop_requested /\ "unstored" \notin given[t] /\ task_row[t] = "pending"
        => /\ Future(t)
           /\ loop[t] \in Running \cup {"ended", "cleaning"}
           /\ loop[t] = "ended" => dispatched[t] = "cancelled"

TaskInv ==
    /\ TaskTypeOK /\ stop_requested \in BOOLEAN
    /\ cache \in Seq(Task)
    /\ ResultsStored
    /\ \A t \in Task : Accounted(t)

\* No task is in the cache twice.
LEMMA CacheDistinct == ASSUME TaskInv PROVE Distinct(cache)
BY DEF TaskInv, TaskTypeOK, Distinct

Waiting == [at : {"away", "prepared", Open, "done"} \cup Outcome, task : Task \cup {NoTask}]

\* The record of a call of Wait that is answered, or that finds a task.
LEMMA WaitingRecords ==
    /\ \A q \in Waiting : [q EXCEPT !.at = "done"] \in Waiting
                         /\ [q EXCEPT !.at = "done"].at = "done"
    /\ \A a \in {"prepared", Open, "done"} \cup Outcome, t \in Task :
          LET q == [at |-> a, task |-> t] IN q \in Waiting /\ q.at = a /\ q.task = t
BY DEF Waiting

\* The rest of the types: everything but the cache.
TaskTypes ==
    /\ task_row \in [Task -> {"none", "prepared", "pending"} \cup Outcome]
    /\ prepared_tasks \subseteq Task
    /\ dispatched \in [Task -> {"no", "yes", "cancelled"}]
    /\ loop \in [Task -> {"none", "scheduled", "body", "complete", "respond",
                          "backoff", "ended", "cleaning", "cleaned"}]
    /\ outcome \in [Task -> Outcome \cup {"none"}]
    /\ response \in [Task -> {"none", Open} \cup Outcome]
    /\ waiter \in [Waiter -> Waiting]
    /\ given \in [Task -> SUBSET (Outcome \cup {"lost", "unstored"})]
    /\ crashes \in 0..MaxCrash
    /\ stop_requested \in BOOLEAN

\* The parts of the invariant, ...
LEMMA TaskInvParts ==
    TaskInv <=> /\ TaskTypes /\ cache \in Seq(Task) /\ Distinct(cache)
                /\ ResultsStored /\ \A t \in Task : Accounted(t)
BY DEF TaskInv, TaskTypeOK, TaskTypes, Distinct, Waiting

\* ... and those of the next state.
LEMMA TaskInvPartsNext ==
    TaskInv' <=> /\ TaskTypes' /\ cache' \in Seq(Task) /\ Distinct(cache')
                 /\ ResultsStored' /\ \A t \in Task : Accounted(t)'
BY DEF TaskInv, TaskTypeOK, TaskTypes, Distinct, Waiting

\* Telling the cache of t keeps every open future, and that of t if it is.
LEMMA MovedIntoCache ==
    ASSUME TaskInv, NEW t \in Task,
           NEW r \in [Task -> {"none", Open} \cup Outcome], CacheIs(Moved(cache, t), r)
    PROVE  /\ cache' \in Seq(Task) /\ Distinct(cache')
           /\ response' \in [Task -> {"none", Open} \cup Outcome]
           /\ \A u \in Task : (Holds(cache, u) \/ u = t) /\ r[u] = Open
                  => response'[u] = Open /\ Holds(cache', u)
           /\ \A u \in Task : response'[u] \in {r[u], "none"}
<1>1. PICK m : m = Moved(cache, t) OBVIOUS
<1>2. m \in Seq(Task) /\ Distinct(m) /\ \A u : Holds(m, u) <=> Holds(cache, u) \/ u = t
  BY <1>1, TaskInvParts, MovedProperties
<1>3. CacheIs(m, r) BY <1>1
<1> QED BY <1>2, <1>3, CacheIsProperties

\* The dispatch of a task that is not dispatched, unless the server stops.
LEMMA DispatchProperties ==
    ASSUME TaskInv, NEW t \in Task, dispatched[t] = "no", dispatch(t)
    PROVE  \/ stop_requested /\ UNCHANGED <<dispatched, loop, cache, response>>
           \/ /\ dispatched' = [dispatched EXCEPT ![t] = "yes"]
              /\ loop' = [loop EXCEPT ![t] = "scheduled"]
              /\ cache' \in Seq(Task) /\ Distinct(cache')
              /\ response' \in [Task -> {"none", Open} \cup Outcome]
              /\ \A u \in Task : Future(u) \/ u = t => Future(u)'
              /\ \A u \in Task \ {t} : response'[u] \in {response[u], "none"}
              /\ response'[t] = Open
<1>1. PICK r : r = [response EXCEPT ![t] = Open] OBVIOUS
<1>2. r \in [Task -> {"none", Open} \cup Outcome] /\ r[t] = Open
      /\ \A u \in Task \ {t} : r[u] = response[u]
  BY <1>1, TaskInvParts DEF TaskTypes
<1>3. CASE stop_requested BY <1>3 DEF dispatch
<1>4. CASE ~stop_requested
  <2>1. CacheIs(Moved(cache, t), r)
        /\ dispatched' = [dispatched EXCEPT ![t] = "yes"]
        /\ loop' = [loop EXCEPT ![t] = "scheduled"]
    BY <1>1, <1>4 DEF dispatch, Dispatched
  <2> QED BY <1>2, <2>1, MovedIntoCache DEF Future
<1> QED BY <1>3, <1>4

\* A task is stored and dispatched: by a writer or by a commit.
LEMMA DispatchingKeeps ==
    ASSUME TaskInv, NEW t \in Task, ScheduleTask(t) \/ CommitTask(t)
    PROVE  TaskInv'
<1>1. task_row[t] \in {"none", "prepared"} /\ task_row' = [task_row EXCEPT ![t] = "pending"]
      /\ dispatch(t) /\ UNCHANGED <<outcome, waiter, stop_requested, given, crashes>>
      /\ prepared_tasks' \subseteq Task
      /\ \A u \in prepared_tasks : u # t => u \in prepared_tasks'
  BY TaskInvParts DEF ScheduleTask, CommitTask, TaskTypes
<1>2. dispatched[t] = "no" /\ loop[t] = "none"
  BY <1>1, TaskInvParts DEF TaskTypes, Accounted, Outcome
<1>3. CASE stop_requested /\ UNCHANGED <<dispatched, loop, cache, response>>
  BY <1>1, <1>2, <1>3, TaskInvParts, TaskInvPartsNext
     DEF TaskTypes, ResultsStored, Accounted, Completed, Outcome, Future, Holds, Running
<1>4. CASE /\ dispatched' = [dispatched EXCEPT ![t] = "yes"]
           /\ loop' = [loop EXCEPT ![t] = "scheduled"]
           /\ cache' \in Seq(Task) /\ Distinct(cache')
           /\ response' \in [Task -> {"none", Open} \cup Outcome]
           /\ \A u \in Task : Future(u) \/ u = t => Future(u)'
           /\ \A u \in Task \ {t} : response'[u] \in {response[u], "none"}
           /\ response'[t] = Open
  <2>1. TaskTypes' BY <1>1, <1>2, <1>4, TaskInvParts DEF TaskTypes
  <2>2. ResultsStored'
    BY <1>1, <1>2, <1>4, TaskInvParts DEF TaskTypes, ResultsStored, Completed, Outcome, Open
  <2>3. ASSUME NEW u \in Task PROVE Accounted(u)'
    BY <1>1, <1>2, <1>4, TaskInvParts DEF TaskTypes, Accounted, Outcome, Running
  <2> QED BY <1>4, <2>1, <2>2, <2>3, TaskInvPartsNext
<1> QED BY <1>1, <1>2, <1>3, <1>4, DispatchProperties

\* Preparing and aborting.
LEMMA PreparingKeeps ==
    ASSUME TaskInv, NEW t \in Task, PrepareTask(t) \/ AbortTask(t)
    PROVE  TaskInv'
<1>1. /\ \/ task_row[t] = "none" /\ task_row' = [task_row EXCEPT ![t] = "prepared"]
            /\ prepared_tasks' = prepared_tasks \cup {t} /\ waiter' = waiter
         \/ task_row[t] = "prepared" /\ task_row' = [task_row EXCEPT ![t] = "none"]
            /\ prepared_tasks' = prepared_tasks \ {t}
            /\ waiter' = [w \in Waiter |->
                    IF waiter[w] = [at |-> "prepared", task |-> t]
                    THEN [waiter[w] EXCEPT !.at = "done"] ELSE waiter[w]]
      /\ UNCHANGED <<dispatched, loop, outcome, cache, response, stop_requested, given, crashes>>
  BY DEF PrepareTask, AbortTask
<1>3. waiter' \in [Waiter -> Waiting]
      /\ \A w \in Waiter : waiter'[w] = waiter[w] \/ waiter'[w].at = "done"
  BY <1>1, TaskInvParts, WaitingRecords DEF TaskTypes
<1>2. TaskTypes' BY <1>1, <1>3, TaskInvParts DEF TaskTypes
<1>4. ResultsStored'
  BY <1>1, <1>3, TaskInvParts DEF TaskTypes, ResultsStored, Completed, Outcome
<1>5. ASSUME NEW u \in Task PROVE Accounted(u)'
  BY <1>1, TaskInvParts DEF TaskTypes, Accounted, Outcome, Future, Holds
<1> QED BY <1>1, <1>2, <1>4, <1>5, TaskInvParts, TaskInvPartsNext DEF Distinct

\* update_task_info keeps what the cache holds, and no entry twice.
LEMMA UpdateMoves ==
    ASSUME TaskInv, NEW t \in Task, update_task_info(t)
    PROVE  /\ cache' \in Seq(Task) /\ Distinct(cache')
           /\ \A u : Holds(cache', u) <=> Holds(cache, u)
<1>1. PICK m : m = Moved(cache, t) OBVIOUS
<1>2. m \in Seq(Task) /\ Distinct(m) /\ \A u : Holds(m, u) <=> Holds(cache, u) \/ u = t
  BY <1>1, TaskInvParts, MovedProperties
<1>3. CASE Holds(cache, t) /\ cache' = m BY <1>2, <1>3
<1>4. CASE cache' = cache BY <1>4, TaskInvParts DEF Distinct, Holds
<1> QED BY <1>1, <1>3, <1>4 DEF update_task_info, Holds

\* The loop starts the body, or backs off, and moves the task in the cache.
LEMMA LoopMovesKeeps ==
    ASSUME TaskInv, NEW t \in Task, StartBody(t) \/ BodyRaises(t)
    PROVE  TaskInv'
<1>1. /\ loop[t] \in Running
      /\ \/ loop' = [loop EXCEPT ![t] = "body"] /\ outcome' = outcome
         \/ loop' = [loop EXCEPT ![t] = "backoff"] /\ outcome' = [outcome EXCEPT ![t] = "none"]
      /\ update_task_info(t)
      /\ UNCHANGED <<task_row, prepared_tasks, dispatched, response, waiter, stop_requested,
                     given, crashes>>
  BY DEF StartBody, BodyRaises, Running
<1>2. /\ cache' \in Seq(Task) /\ Distinct(cache')
      /\ response' = response
      /\ \A u \in Task : Future(u) => Future(u)'
  BY <1>1, UpdateMoves DEF Future
<1>3. TaskTypes' BY <1>1, <1>2, TaskInvParts DEF TaskTypes
<1>4. ResultsStored'
  BY <1>1, <1>2, TaskInvParts DEF TaskTypes, ResultsStored, Completed, Outcome
<1>5. ASSUME NEW u \in Task PROVE Accounted(u)'
  BY <1>1, <1>2, TaskInvParts DEF TaskTypes, Accounted, Running
<1> QED BY <1>2, <1>3, <1>4, <1>5, TaskInvPartsNext

\* Steps of a loop and its cleanup that leave the cache alone.
LEMMA LoopStepsKeep ==
    ASSUME TaskInv, NEW t \in Task,
           BodyEnds(t) \/ CompleteTask(t) \/ CancelTask(t) \/ Interrupted(t)
           \/ CleanupAsync(t) \/ CleanupStores(t)
    PROVE  TaskInv'
<1>1. UNCHANGED <<prepared_tasks, cache, response, waiter, stop_requested, crashes>>
  BY DEF BodyEnds, CompleteTask, CancelTask, Interrupted, CleanupAsync, CleanupStores
<1>2. TaskTypes'
  <2>1. CASE BodyEnds(t) BY <2>1, TaskInvParts DEF TaskTypes, BodyEnds, Outcome
  <2>2. CASE CompleteTask(t)
    BY <2>2, TaskInvParts DEF TaskTypes, ResultsStored, CompleteTask
  <2>3. CASE CancelTask(t) BY <2>3, TaskInvParts DEF TaskTypes, CancelTask
  <2>4. CASE Interrupted(t)
    BY <2>4, TaskInvParts DEF TaskTypes, Interrupted, Interrupt, Outcome
  <2>5. CASE CleanupAsync(t) BY <2>5, TaskInvParts DEF TaskTypes, CleanupAsync
  <2>6. CASE CleanupStores(t)
    <3>1. given' \in [Task -> SUBSET (Outcome \cup {"lost", "unstored"})]
      BY <2>6, TaskInvParts DEF TaskTypes, CleanupStores
    <3> QED BY <2>6, <3>1, TaskInvParts DEF TaskTypes, CleanupStores, Outcome
  <2> QED BY <2>1, <2>2, <2>3, <2>4, <2>5, <2>6
<1>3. ResultsStored'
  BY <1>1, TaskInvParts DEF TaskTypes, ResultsStored, Completed, Outcome, BodyEnds,
     CompleteTask, CancelTask, Interrupted, Interrupt, CleanupAsync, CleanupStores
<1>4. ASSUME NEW u \in Task PROVE Accounted(u)'
  <2>1. Future(u)' <=> Future(u) BY <1>1 DEF Future, Holds
  <2> QED
    BY <1>1, <2>1, TaskInvParts DEF TaskTypes, Accounted, ResultsStored, Completed, Outcome,
       Running, BodyEnds, CompleteTask, CancelTask, Interrupted, Interrupt, CleanupAsync,
       CleanupStores
<1> QED BY <1>1, <1>2, <1>3, <1>4, TaskInvParts, TaskInvPartsNext DEF Distinct

\* What waiters hear.
LEMMA HearProperties ==
    ASSUME TaskInv, NEW t \in Task, NEW o \in Outcome, Hear(t, o)
    PROVE  /\ waiter' \in [Waiter -> Waiting]
           /\ \A w \in Waiter : waiter'[w] = waiter[w]
                  \/ (waiter'[w].at = o /\ waiter'[w].task = t)
BY TaskInvParts, WaitingRecords DEF TaskTypes, Hear

\* The loop responds with an outcome that is stored.
LEMMA RespondKeeps ==
    ASSUME TaskInv, NEW t \in Task, Respond(t) PROVE TaskInv'
<1>1. outcome[t] \in Outcome /\ Completed(t) BY TaskInvParts DEF ResultsStored, Respond
<1>3. cache' \in Seq(Task) /\ Distinct(cache') /\ \A u : Holds(cache', u) <=> Holds(cache, u)
  BY UpdateMoves DEF Respond
<1>4. /\ loop[t] = "respond" /\ loop' = [loop EXCEPT ![t] = "ended"]
      /\ response' = [response EXCEPT ![t] = outcome[t]]
      /\ UNCHANGED <<task_row, prepared_tasks, dispatched, outcome, stop_requested, given, crashes>>
  BY DEF Respond
<1>5. /\ waiter' \in [Waiter -> Waiting]
      /\ \A w \in Waiter : waiter'[w] = waiter[w]
             \/ (waiter'[w].at = outcome[t] /\ waiter'[w].task = t)
  BY <1>1, HearProperties DEF Respond
<1>6. TaskTypes' BY <1>1, <1>4, <1>5, TaskInvParts DEF TaskTypes
<1>7. ResultsStored'
  BY <1>1, <1>4, <1>5, TaskInvParts DEF TaskTypes, ResultsStored, Completed, Outcome
<1>8. ASSUME NEW u \in Task PROVE Accounted(u)'
  <2>1. u # t /\ Future(u) => Future(u)' BY <1>3, <1>4, TaskInvParts DEF TaskTypes, Future
  <2> QED
    BY <1>1, <1>4, <2>1, TaskInvParts DEF TaskTypes, Accounted, Completed, Outcome, Running
<1> QED BY <1>3, <1>4, <1>6, <1>7, <1>8, TaskInvPartsNext

\* The cleanup is done: who waits for a cancelled task hears of it.
LEMMA CleanupDoneKeeps ==
    ASSUME TaskInv, NEW t \in Task, CleanupDone(t) PROVE TaskInv'
<1>1. /\ loop[t] = "cleaned" /\ loop' = [loop EXCEPT ![t] = "none"]
      /\ outcome' = [outcome EXCEPT ![t] = "none"]
      /\ dispatched' = [dispatched EXCEPT ![t] = "no"]
      /\ UNCHANGED <<task_row, prepared_tasks, stop_requested, given, crashes>>
  BY DEF CleanupDone
<1>2. /\ cache' \in Seq(Task) /\ Distinct(cache')
      /\ response' \in [Task -> {"none", Open} \cup Outcome]
      /\ \A u \in Task : u # t /\ Future(u) => Future(u)'
      /\ \A u \in Task : response'[u] \in {response[u], "none", "cancelled"}
      /\ waiter' \in [Waiter -> Waiting]
      /\ \A w \in Waiter : waiter'[w] = waiter[w]
             \/ (waiter'[w].at = "cancelled" /\ waiter'[w].task = t)
  <2>1. CASE UNCHANGED <<cache, response, waiter>>
    BY <2>1, TaskInvParts DEF TaskTypes, Future, Holds, Distinct
  <2>2. CASE CacheIs(Moved(cache, t), [response EXCEPT ![t] = "cancelled"]) /\ Hear(t, "cancelled")
    <3>1. PICK r : r = [response EXCEPT ![t] = "cancelled"] OBVIOUS
    <3>2. r \in [Task -> {"none", Open} \cup Outcome] /\ r[t] = "cancelled"
          /\ \A u \in Task \ {t} : r[u] = response[u]
      BY <3>1, TaskInvParts DEF TaskTypes, Outcome
    <3>3. CacheIs(Moved(cache, t), r) BY <2>2, <3>1
    <3>4. "cancelled" \in Outcome BY DEF Outcome
    <3> QED BY <2>2, <3>2, <3>3, <3>4, MovedIntoCache, HearProperties DEF Future
  <2> QED BY <2>1, <2>2 DEF CleanupDone
<1>3. TaskTypes' BY <1>1, <1>2, TaskInvParts DEF TaskTypes
<1>4. ResultsStored'
  BY <1>1, <1>2, TaskInvParts DEF TaskTypes, ResultsStored, Completed, Outcome
<1>5. ASSUME NEW u \in Task PROVE Accounted(u)'
  BY <1>1, <1>2, TaskInvParts DEF TaskTypes, Accounted, Outcome, Running
<1> QED BY <1>2, <1>3, <1>4, <1>5, TaskInvPartsNext

\* One call of Wait finds out where it stands, and nothing is answered.
LEMMA WaitSetProperties ==
    ASSUME TaskInv, NEW w \in Waiter, NEW t \in Task,
           NEW a \in {"prepared", Open, "done"} \cup Outcome,
           waiter' = [waiter EXCEPT ![w] = [at |-> a, task |-> t]]
    PROVE  /\ waiter' \in [Waiter -> Waiting]
           /\ waiter'[w].at = a /\ waiter'[w].task = t
           /\ \A v \in Waiter \ {w} : waiter'[v] = waiter[v]
<1>1. PICK q : q = [at |-> a, task |-> t] OBVIOUS
<1>2. q \in Waiting /\ q.at = a /\ q.task = t BY <1>1, WaitingRecords
<1>3. waiter' = [waiter EXCEPT ![w] = q] BY <1>1
<1>4. waiter \in [Waiter -> Waiting] BY TaskInvParts DEF TaskTypes
<1> QED BY <1>2, <1>3, <1>4

\* A `Wait` for a task that is prepared keeps the invariant.
LEMMA WaitPreparedKeeps ==
    ASSUME TaskInv, NEW w \in Waiter, NEW t \in Task, WaitPrepared(w, t) PROVE TaskInv'
<1>1. UNCHANGED <<task_row, prepared_tasks, dispatched, loop, outcome, cache, response,
                  stop_requested, given, crashes>>
      /\ waiter' = [waiter EXCEPT ![w] = [at |-> "prepared", task |-> t]]
  BY DEF WaitPrepared
<1>2. /\ waiter' \in [Waiter -> Waiting]
      /\ waiter'[w].at = "prepared" /\ waiter'[w].task = t
      /\ \A v \in Waiter \ {w} : waiter'[v] = waiter[v]
  BY <1>1, WaitSetProperties
<1>3. TaskTypes' BY <1>1, <1>2, TaskInvParts DEF TaskTypes
<1>4. ResultsStored' BY <1>1, <1>2, TaskInvParts DEF ResultsStored, Completed
<1>5. \A u \in Task : Accounted(u)' BY <1>1, TaskInvParts DEF Accounted, Future, Holds
<1> QED BY <1>1, <1>3, <1>4, <1>5, TaskInvParts, TaskInvPartsNext DEF Distinct

\* The future that Wait finds in the cache holds a result only if it is stored.
LEMMA WaitCachedKeeps ==
    ASSUME TaskInv, NEW w \in Waiter, NEW t \in Task, WaitCached(w, t) PROVE TaskInv'
<1>1. UNCHANGED <<task_row, prepared_tasks, dispatched, loop, outcome, stop_requested, given,
                  crashes>>
      /\ CacheIs(Moved(cache, t), response)
      /\ waiter' = [waiter EXCEPT ![w] = [at |-> response[t], task |-> t]]
      /\ response[t] \in {Open} \cup Outcome
  BY TaskInvParts DEF WaitCached, TaskTypes
<1>2. /\ waiter' \in [Waiter -> Waiting]
      /\ waiter'[w].at = response[t] /\ waiter'[w].task = t
      /\ \A v \in Waiter \ {w} : waiter'[v] = waiter[v]
  BY <1>1, WaitSetProperties
<1>3. /\ cache' \in Seq(Task) /\ Distinct(cache')
      /\ response' \in [Task -> {"none", Open} \cup Outcome]
      /\ \A u \in Task : Future(u) => Future(u)'
      /\ \A u \in Task : response'[u] \in {response[u], "none"}
  BY <1>1, TaskInvParts, MovedIntoCache DEF TaskTypes, Future
<1>4. TaskTypes' BY <1>1, <1>2, <1>3, TaskInvParts DEF TaskTypes
<1>5. ResultsStored' BY <1>1, <1>2, <1>3, TaskInvParts DEF ResultsStored, Completed
<1>6. ASSUME NEW u \in Task PROVE Accounted(u)'
  BY <1>1, <1>3, TaskInvParts DEF Accounted
<1> QED BY <1>3, <1>4, <1>5, <1>6, TaskInvPartsNext

\* An answer to a `Wait` keeps the invariant.
LEMMA WaitAnsweredKeeps ==
    ASSUME TaskInv, NEW w \in Waiter, WaitAnswered(w) PROVE TaskInv'
<1>1. waiter[w] \in Waiting /\ waiter[w].at \in Outcome
  BY TaskInvParts DEF TaskTypes, WaitAnswered
<1>2. PICK t \in Task : t = waiter[w].task
  BY <1>1, TaskInvParts DEF ResultsStored, Outcome
<1>3. PICK o \in Outcome : o = waiter[w].at BY <1>1
<1>4. /\ UNCHANGED <<task_row, prepared_tasks, dispatched, loop, outcome, cache, response,
                     stop_requested, crashes>>
      /\ waiter' = [waiter EXCEPT ![w].at = "done"]
      /\ given' = [given EXCEPT ![t] = @ \cup {o}]
  BY <1>2, <1>3 DEF WaitAnswered, Gives
<1>5. waiter' \in [Waiter -> Waiting] /\ waiter'[w].at = "done"
      /\ \A v \in Waiter \ {w} : waiter'[v] = waiter[v]
  BY <1>1, <1>4, WaitingRecords, TaskInvParts DEF TaskTypes
<1>6. /\ given' \in [Task -> SUBSET (Outcome \cup {"lost", "unstored"})]
      /\ given'[t] = given[t] \cup {o} /\ \A u \in Task \ {t} : given'[u] = given[u]
  BY <1>4, TaskInvParts DEF TaskTypes
<1>7. TaskTypes' BY <1>4, <1>5, <1>6, TaskInvParts DEF TaskTypes
<1>8. ResultsStored'
  BY <1>2, <1>3, <1>4, <1>5, <1>6, TaskInvParts DEF ResultsStored, Completed
<1>9. ASSUME NEW u \in Task PROVE Accounted(u)'
  BY <1>4, <1>6, TaskInvParts DEF Accounted, Future, Holds, Outcome
<1> QED BY <1>4, <1>7, <1>8, <1>9, TaskInvParts, TaskInvPartsNext DEF Distinct

\* A task without a future that Wait does not find completed is lost only
\* after a restart, a stop, or a cancellation that could not be stored.
LEMMA WaitLoadedKeeps ==
    ASSUME TaskInv, NEW w \in Waiter, NEW t \in Task, WaitLoaded(w, t) PROVE TaskInv'
<1>1. UNCHANGED <<task_row, prepared_tasks, dispatched, loop, outcome, stop_requested, crashes>>
      /\ waiter' = [waiter EXCEPT ![w] = [at |-> "done", task |-> t]]
      /\ response[t] = "none"
  BY DEF WaitLoaded
<1>0. t \notin prepared_tasks BY DEF WaitLoaded, LooksUp
<1>2. /\ waiter' \in [Waiter -> Waiting]
      /\ waiter'[w].at = "done"
      /\ \A v \in Waiter \ {w} : waiter'[v] = waiter[v]
  BY <1>1, WaitSetProperties
<1>3. CASE Completed(t)
  <2>1. given' = [given EXCEPT ![t] = @ \cup {task_row[t]}]
        /\ CacheIs(Moved(cache, t), [response EXCEPT ![t] = task_row[t]])
    BY <1>3 DEF WaitLoaded, Gives
  <2>2. PICK r : r = [response EXCEPT ![t] = task_row[t]] OBVIOUS
  <2>3. r \in [Task -> {"none", Open} \cup Outcome] /\ r[t] = task_row[t]
        /\ \A u \in Task \ {t} : r[u] = response[u]
    BY <1>3, <2>2, TaskInvParts DEF TaskTypes, Completed
  <2>4. /\ cache' \in Seq(Task) /\ Distinct(cache')
        /\ response' \in [Task -> {"none", Open} \cup Outcome]
        /\ \A u \in Task : Future(u) => Future(u)'
        /\ \A u \in Task : response'[u] \in {response[u], "none"}
               \/ (u = t /\ response'[u] \in Outcome)
    <3>1. CacheIs(Moved(cache, t), r) BY <2>1, <2>2
    <3> QED BY <1>1, <1>3, <2>3, <3>1, MovedIntoCache DEF Future, Completed, Open
  <2>5. /\ given' \in [Task -> SUBSET (Outcome \cup {"lost", "unstored"})]
        /\ given'[t] = given[t] \cup {task_row[t]}
        /\ \A u \in Task \ {t} : given'[u] = given[u]
    BY <1>3, <2>1, TaskInvParts DEF TaskTypes, Completed
  <2>6. TaskTypes' BY <1>1, <1>2, <2>4, <2>5, TaskInvParts DEF TaskTypes
  <2>7. ResultsStored'
    BY <1>1, <1>2, <1>3, <2>4, <2>5, TaskInvParts DEF ResultsStored, Completed
  <2>8. ASSUME NEW u \in Task PROVE Accounted(u)'
    BY <1>1, <1>3, <2>4, <2>5, TaskInvParts DEF Accounted, Outcome, Completed
  <2> QED BY <2>4, <2>6, <2>7, <2>8, TaskInvPartsNext
<1>4. CASE ~Completed(t)
  <2>1. UNCHANGED <<cache, response>>
        /\ given' = [given EXCEPT ![t] = IF task_row[t] = "none" THEN @ ELSE @ \cup {"lost"}]
    BY <1>4 DEF WaitLoaded
  <2>2. /\ given' \in [Task -> SUBSET (Outcome \cup {"lost", "unstored"})]
        /\ given'[t] = (IF task_row[t] = "none" THEN given[t] ELSE given[t] \cup {"lost"})
        /\ \A u \in Task \ {t} : given'[u] = given[u]
    BY <2>1, TaskInvParts DEF TaskTypes
  <2>3. TaskTypes' BY <1>1, <1>2, <2>1, <2>2, TaskInvParts DEF TaskTypes
  <2>4. ResultsStored'
    BY <1>1, <1>2, <2>1, <2>2, TaskInvParts DEF ResultsStored, Completed, Outcome
  <2>5. ASSUME NEW u \in Task PROVE Accounted(u)'
    <3>1. CASE u # t
      BY <1>1, <2>1, <2>2, <3>1, TaskInvParts DEF Accounted, Future, Holds
    <3>2. CASE u = t
      <4>1. ~Future(t) BY <1>1 DEF Future, Open
      <4>2. crashes \in Nat /\ task_row[t] \in {"none", "prepared", "pending"}
        BY <1>4, TaskInvParts, TaskAssumption DEF TaskTypes, Completed
      <4>3. Future(t)' <=> Future(t) BY <2>1 DEF Future, Holds
      <4> QED
        BY <1>0, <1>1, <2>1, <2>2, <3>2, <4>1, <4>2, <4>3, TaskInvParts DEF Accounted
    <3> QED BY <3>1, <3>2
  <2> QED BY <2>1, <2>3, <2>4, <2>5, TaskInvParts, TaskInvPartsNext DEF Distinct
<1> QED BY <1>3, <1>4

\* `stop` keeps the invariant.
LEMMA StopTasksKeeps ==
    ASSUME TaskInv, StopTasks PROVE TaskInv'
<1>1. TaskTypes' BY TaskInvParts DEF TaskTypes, StopTasks
<1>2. ResultsStored' BY TaskInvParts DEF ResultsStored, Completed, StopTasks
<1>3. \A u \in Task : Accounted(u)'
  BY TaskInvParts DEF Accounted, Future, Holds, StopTasks
<1> QED BY <1>1, <1>2, <1>3, TaskInvParts, TaskInvPartsNext DEF Distinct, StopTasks

\* After a restart every pending task is dispatched again.
LEMMA CrashTasksKeeps ==
    ASSUME TaskInv, CrashTasks PROVE TaskInv'
<1> DEFINE again == {t \in Task : task_row[t] = "pending"}
<1>1. IsFiniteSet(again) /\ Cardinality(again) \in Nat
  BY TaskAssumption, FS_Subset, FS_CardinalityType
<1>2. PICK order \in [1..Cardinality(again) -> again] :
        (\A i, j \in DOMAIN order : i # j => order[i] # order[j]) /\ cache' = order
  BY DEF CrashTasks
<1>3. order \in Seq(Task) /\ Distinct(order) /\ \A u \in again : Holds(order, u)
  <2> DEFINE n == Cardinality(again)
  <2>1. IsFiniteSet(1..n) /\ Cardinality(1..n) = n BY <1>1, FS_Interval
  <2>2. order \in Injection(1..n, again)
    <3> HIDE DEF again, n
    <3>1. DOMAIN order = 1..n BY <1>2 DEF n
    <3> QED BY <1>2, <3>1 DEF Injection, IsInjective, n
  <2>3. order \in Surjection(1..n, again)
    <3> HIDE DEF again
    <3> QED BY <1>1, <2>1, <2>2, FS_Injection
  <2>4. \A u \in again : Holds(order, u)
    <3> HIDE DEF again
    <3> QED BY <2>3 DEF Surjection, Holds
  <2>5. order \in [1..n -> Task] BY <1>2
  <2>6. order \in Seq(Task)
    <3> HIDE DEF again
    <3> QED BY <1>1, <2>5, IsASeq
  <2> QED BY <1>2, <2>4, <2>6 DEF Distinct
<1>4. /\ crashes' = crashes + 1 /\ crashes < MaxCrash /\ prepared_tasks' = {} /\ ~stop_requested'
      /\ stop_requested' \in BOOLEAN
      /\ dispatched' = [t \in Task |-> IF t \in again THEN "yes" ELSE "no"]
      /\ loop' = [t \in Task |-> IF t \in again THEN "scheduled" ELSE "none"]
      /\ response' = [t \in Task |-> IF t \in again THEN Open ELSE "none"]
      /\ outcome' = [t \in Task |-> "none"]
      /\ waiter' = [w \in Waiter |-> IF waiter[w].at = "done" THEN waiter[w] ELSE Away]
      /\ UNCHANGED <<task_row, given>>
  BY DEF CrashTasks
<1>5. Away \in Waiting /\ Away.at = "away" BY DEF Away, Waiting
<1>6. crashes' \in 0..MaxCrash /\ crashes' > 0
  BY <1>4, TaskInvParts, TaskAssumption DEF TaskTypes
<1>7. TaskTypes' BY <1>4, <1>5, <1>6, TaskInvParts DEF TaskTypes
<1>8. ResultsStored'
  BY <1>4, <1>5, TaskInvParts DEF TaskTypes, ResultsStored, Completed, Open
<1>9. ASSUME NEW u \in Task PROVE Accounted(u)'
  <2>1. u \in again => Future(u)' BY <1>2, <1>3, <1>4 DEF Future
  <2> QED
    BY <1>4, <1>6, <2>1, TaskInvParts DEF TaskTypes, Accounted, Running
<1> QED BY <1>2, <1>3, <1>7, <1>8, <1>9, TaskInvPartsNext

\* For any number of tasks, waiters, cache sizes and restarts: the parts keep
\* their types, a result that was given is stored for good, a task that runs
\* keeps its future in the cache, and no task is lost while the server runs.
THEOREM TasksAreKept == TaskSpec => [](TaskTypeOK /\ TasksKept)
<1>1. TaskInit => TaskInv
  <2> SUFFICES ASSUME TaskInit PROVE TaskInv OBVIOUS
  <2>1. Away \in Waiting /\ Away.at = "away" BY DEF Away, Waiting
  <2>2. TaskTypes
    <3>1. given \in [Task -> SUBSET (Outcome \cup {"lost", "unstored"})] BY DEF TaskInit
    <3>2. crashes \in 0..MaxCrash
      <4>1. MaxCrash \in Nat BY TaskAssumption
      <4> QED BY <4>1 DEF TaskInit
    <3>5. stop_requested \in BOOLEAN BY DEF TaskInit
    <3>3. waiter \in [Waiter -> Waiting] BY <2>1 DEF TaskInit
    <3>4. task_row \in [Task -> {"none", "prepared", "pending"} \cup Outcome]
          /\ response \in [Task -> {"none", Open} \cup Outcome]
      BY DEF TaskInit
    <3> QED BY <3>1, <3>2, <3>3, <3>4, <3>5 DEF TaskInit, TaskTypes
  <2>3. cache \in Seq(Task) /\ Distinct(cache) BY DEF TaskInit, Distinct
  <2>4. ResultsStored BY <2>1 DEF TaskInit, ResultsStored, Open
  <2>5. \A t \in Task : Accounted(t) BY DEF TaskInit, Accounted, Running
  <2> QED BY <2>2, <2>3, <2>4, <2>5, TaskInvParts
<1>2. TaskInv /\ [TaskNext]_taskVars => TaskInv'
  <2> SUFFICES ASSUME TaskInv, [TaskNext]_taskVars PROVE TaskInv' OBVIOUS
  <2>1. CASE UNCHANGED taskVars
    BY <2>1 DEF taskVars, TaskInv, TaskTypeOK, ResultsStored, Accounted, Completed, Future, Holds
  <2>2. CASE TaskNext
    BY <2>2, DispatchingKeeps, PreparingKeeps, LoopMovesKeeps, LoopStepsKeep, RespondKeeps,
       CleanupDoneKeeps, WaitPreparedKeeps, WaitCachedKeeps, WaitAnsweredKeeps, WaitLoadedKeeps,
       StopTasksKeeps, CrashTasksKeeps DEF TaskNext
  <2> QED BY <2>1, <2>2
<1>3. TaskInv => TaskTypeOK /\ TasksKept
  BY DEF TaskInv, TasksKept, ResultsStored, ResultsDurable, RunningTasksCached, NoKnownTaskLost,
     Accounted, Future, Holds, Running
<1> QED BY <1>1, <1>2, <1>3, PTL DEF TaskSpec

----------------------------------------------------------------------------
(* Placement *)

\* A nonempty set of naturals has a least element.
LEMMA Least ==
    ASSUME NEW S \in SUBSET Nat, S # {}
    PROVE  \E x \in S : \A y \in S : x <= y
<1>1. PICK R : IsWellFoundedOn(R, Nat) /\ \A a, b \in Nat : a < b => <<a, b>> \in R
  <2>1. PICK R : R = OpToRel(<, Nat)
    OBVIOUS
  <2>2. IsWellFoundedOn(R, Nat)
    BY <2>1, NatLessThanWellFounded
  <2>3. R = {ss \in Nat \X Nat : ss[1] < ss[2]}
    BY <2>1, Zenon DEF OpToRel
  <2>4. \A a, b \in Nat : a < b => <<a, b>> \in R
    BY <2>3
  <2> QED
    BY <2>2, <2>4, Zenon
<1>2. IsWellFoundedOn(R, Nat) /\ S \subseteq Nat
  BY <1>1
<1>3. PICK x \in S : \A y \in S : <<y, x>> \notin R
  BY <1>2, WFMin
<1>4. \A y \in S : ~(y < x)
  BY <1>1, <1>3
<1> QED
  BY <1>4

-----------------------------------------------------------------------------
(* Arithmetic of shards and keys.                                          *)

\* What division of naturals gives.
LEMMA Division ==
    ASSUME NEW a \in Nat, NEW b \in Nat \ {0}
    PROVE  a \div b \in Nat /\ a % b \in 0..(b - 1) /\ a = b * (a \div b) + (a % b)
OBVIOUS

\* A division has a quotient and a remainder.
LEMMA Divided ==
    ASSUME NEW a \in Nat, NEW b \in Nat \ {0}
    PROVE  \E q \in Nat, r \in 0..(b - 1) : q = a \div b /\ r = a % b /\ a = b * q + r
<1>1. a \div b \in Nat /\ a % b \in 0..(b - 1) /\ a = b * (a \div b) + (a % b) BY Division
<1> QED BY <1>1, Zenon

\* The next multiple is at least one divisor away.
LEMMA Multiples ==
    ASSUME NEW b \in Nat \ {0}, NEW q \in Nat, NEW p \in Nat, q < p
    PROVE  b * q + b <= b * p
OBVIOUS

\* A product grows with its factor.
LEMMA ProductGrows ==
    ASSUME NEW p \in Nat, NEW q \in Nat, p <= q, NEW b \in Nat
    PROVE  p * b <= q * b
OBVIOUS

\* Quotient and remainder are unique.
LEMMA Quotient ==
    ASSUME NEW a \in Nat, NEW b \in Nat \ {0}, NEW q \in Nat, NEW r \in 0..(b - 1), a = b * q + r
    PROVE  a \div b = q /\ a % b = r
<1>1. PICK p \in Nat, s \in 0..(b - 1) : p = a \div b /\ s = a % b /\ a = b * p + s
  BY Division
<1>2. b * p \in Nat /\ b * q \in Nat OBVIOUS
<1>3. ~(p < q)
  <2> SUFFICES ASSUME p < q PROVE FALSE OBVIOUS
  <2>1. b * p + b <= b * q BY Multiples
  <2> QED BY <1>1, <1>2, <2>1
<1>4. ~(q < p)
  <2> SUFFICES ASSUME q < p PROVE FALSE OBVIOUS
  <2>1. b * q + b <= b * p BY Multiples
  <2> QED BY <1>1, <1>2, <2>1
<1>5. p = q BY <1>3, <1>4
<1>6. s = r BY <1>1, <1>2, <1>5
<1> QED BY <1>1, <1>5, <1>6

\* A quotient grows with what is divided.
LEMMA QuotientGrows ==
    ASSUME NEW x \in Nat, NEW y \in Nat, x <= y, NEW b \in Nat \ {0}
    PROVE  x \div b <= y \div b
<1>1. PICK p \in Nat, s \in 0..(b - 1) : p = x \div b /\ s = x % b /\ x = b * p + s
  BY Divided, Zenon
<1>2. PICK q \in Nat, t \in 0..(b - 1) : q = y \div b /\ t = y % b /\ y = b * q + t
  BY Divided, Zenon
<1>3. b * p \in Nat /\ b * q \in Nat OBVIOUS
<1>4. ~(q < p)
  <2> SUFFICES ASSUME q < p PROVE FALSE OBVIOUS
  <2>1. b * q + b <= b * p BY Multiples
  <2> QED BY <1>1, <1>2, <1>3, <2>1
<1> QED BY <1>1, <1>2, <1>4

\* Dividing twice divides by the product.
LEMMA QuotientTwice ==
    ASSUME NEW x \in Nat, NEW b \in Nat \ {0}, NEW c \in Nat \ {0}
    PROVE  x \div (b * c) = (x \div c) \div b /\ b * c \in Nat \ {0}
<1>1. PICK p \in Nat, s \in 0..(c - 1) : p = x \div c /\ s = x % c /\ x = c * p + s
  BY Divided, Zenon
<1>2. PICK q \in Nat, t \in 0..(b - 1) : q = p \div b /\ t = p % b /\ p = b * q + t
  BY Divided, Zenon
<1>3. b * c \in Nat \ {0} /\ c * t \in Nat /\ (b * c) * q \in Nat
  BY Multiples
<1>4. c * p = (b * c) * q + c * t
  <2>1. c * (b * q + t) = c * (b * q) + c * t OBVIOUS
  <2>2. c * (b * q) = (b * c) * q OBVIOUS
  <2> QED BY <1>2, <2>1, <2>2
<1>5. c * t + s \in 0..(b * c - 1)
  <2>1. t < b BY <1>2
  <2>2. c * t + c <= c * b BY <1>2, <2>1, Multiples
  <2>3. c * b = b * c OBVIOUS
  <2> QED BY <1>1, <1>3, <2>2, <2>3
<1>6. x = (b * c) * q + (c * t + s) BY <1>1, <1>3, <1>4
<1>7. PICK d \in Nat \ {0} : d = b * c BY <1>3
<1>8. PICK r \in 0..(d - 1) : r = c * t + s BY <1>5, <1>7
<1>9. x = d * q + r BY <1>6, <1>7, <1>8
<1>10. x \div d = q BY <1>9, Quotient
<1> QED BY <1>1, <1>2, <1>3, <1>7, <1>10

\* Under one quotient the order is that of the remainders.
LEMMA RemainderGrows ==
    ASSUME NEW x \in Nat, NEW y \in Nat, x < y, NEW b \in Nat \ {0}, x \div b = y \div b
    PROVE  x % b < y % b
<1>1. PICK q \in Nat, s \in 0..(b - 1) : q = x \div b /\ s = x % b /\ x = b * q + s
  BY Divided, Zenon
<1>2. PICK p \in Nat, t \in 0..(b - 1) : p = y \div b /\ t = y % b /\ y = b * p + t
  BY Divided, Zenon
<1>3. b * q \in Nat /\ p = q BY <1>1, <1>2
<1> QED BY <1>1, <1>2, <1>3

\* What is less than the divisor has quotient 0.
LEMMA QuotientZero ==
    ASSUME NEW b \in Nat \ {0}, NEW x \in 0..(b - 1)
    PROVE  x \div b = 0
<1>1. x = b * 0 + x OBVIOUS
<1> QED BY <1>1, Quotient

-----------------------------------------------------------------------------
(* The keys of k bytes.                                                    *)

\* The defining equation of total_keys, for the lengths in T.
KeysEq(f, T) == f = [k \in T |-> IF k = 0 THEN 1 ELSE Base * f[k - 1]]

\* The equation of total_keys has a solution (built from below with Least).
LEMMA KeysExist == \E f : KeysEq(f, 0..NumShards)
<1>1. NumShards \in Nat /\ Base \in Nat BY PlacementAssumption
<1> DEFINE Bad == {d \in Nat : ~\E f : KeysEq(f, 0..d)}
<1>2. Bad = {}
  <2> SUFFICES ASSUME Bad # {} PROVE FALSE OBVIOUS
  <2>1. PICK d \in Bad : \A k \in Bad : d <= k
    <3>1. Bad \in SUBSET Nat OBVIOUS
    <3> HIDE DEF Bad
    <3> QED BY <3>1, Least
  <2>2. d \in Nat /\ ~\E f : KeysEq(f, 0..d) OBVIOUS
  <2>3. CASE d = 0
    <3>1. KeysEq([k \in 0..0 |-> 1], 0..0) BY DEF KeysEq
    <3> QED BY <2>2, <2>3, <3>1
  <2>4. CASE d # 0
    <3>1. PICK k \in Nat : d = k + 1 BY <2>2, <2>4
    <3>2. k \notin Bad
      <4> HIDE DEF Bad
      <4> QED BY <2>1, <3>1
    <3>3. PICK f : KeysEq(f, 0..k) BY <3>2
    <3>4. \A i \in 0..k : f[i] = IF i = 0 THEN 1 ELSE Base * f[i - 1] BY <3>3 DEF KeysEq
    <3> DEFINE g == [i \in 0..d |-> IF i = 0 THEN 1 ELSE Base * f[i - 1]]
    <3>5. \A i \in 0..k : g[i] = f[i] BY <3>1, <3>4
    <3>6. \A i \in 0..d : i # 0 => g[i - 1] = f[i - 1]
      <4>1. \A i \in 0..d : i # 0 => i - 1 \in 0..k BY <3>1
      <4> HIDE DEF g
      <4> QED BY <3>5, <4>1
    <3>7. g = [i \in 0..d |-> IF i = 0 THEN 1 ELSE Base * g[i - 1]]
      <4> SUFFICES \A i \in 0..d : (IF i = 0 THEN 1 ELSE Base * f[i - 1])
                                    = IF i = 0 THEN 1 ELSE Base * g[i - 1]
        OBVIOUS
      <4> HIDE DEF g
      <4> QED BY <3>6
    <3>8. KeysEq(g, 0..d)
      <4> HIDE DEF g
      <4> QED BY <3>7 DEF KeysEq
    <3> HIDE DEF g
    <3> QED BY <2>2, <3>8
  <2> QED BY <2>3, <2>4
<1> HIDE DEF Bad
<1>3. NumShards \notin Bad BY <1>2
<1> QED BY <1>1, <1>3 DEF Bad

\* total_keys satisfies its equation.
LEMMA KeysAre ==
    \A k \in 0..NumShards : total_keys[k] = IF k = 0 THEN 1 ELSE Base * total_keys[k - 1]
<1>1. total_keys = CHOOSE f : KeysEq(f, 0..NumShards) BY Zenon DEF total_keys, KeysEq
<1>2. KeysEq(total_keys, 0..NumShards) BY <1>1, KeysExist, Zenon
<1> HIDE DEF total_keys
<1>3. PICK f : f = total_keys OBVIOUS
<1>4. f = [k \in 0..NumShards |-> IF k = 0 THEN 1 ELSE Base * f[k - 1]]
  BY <1>2, <1>3 DEF KeysEq
<1>5. \A k \in 0..NumShards : f[k] = IF k = 0 THEN 1 ELSE Base * f[k - 1] BY <1>4
<1> QED BY <1>3, <1>5

\* k bytes make more than k keys, so key_length is bounded by the shards.
LEMMA KeysGrow == \A k \in 0..NumShards : total_keys[k] \in Nat /\ total_keys[k] > k
<1> HIDE DEF total_keys
<1>1. NumShards \in Nat /\ Base \in Nat \ {0} /\ Base >= 2 BY PlacementAssumption
<1> DEFINE Bad == {k \in 0..NumShards : ~(total_keys[k] \in Nat /\ total_keys[k] > k)}
<1> SUFFICES ASSUME Bad # {} PROVE FALSE OBVIOUS
<1>2. PICK k \in Bad : \A i \in Bad : k <= i
  <2>1. Bad \in SUBSET Nat BY <1>1
  <2> HIDE DEF Bad
  <2> QED BY <2>1, Least
<1>3. k \in 0..NumShards /\ ~(total_keys[k] \in Nat /\ total_keys[k] > k) OBVIOUS
<1>4. k # 0 BY <1>1, <1>3, KeysAre
<1>5. k \in Nat /\ k - 1 \in 0..NumShards /\ ~(k <= k - 1) BY <1>1, <1>3, <1>4
<1>6. k - 1 \notin Bad
  <2> HIDE DEF Bad
  <2> QED BY <1>2, <1>5
<1>7. total_keys[k - 1] \in Nat /\ total_keys[k - 1] > k - 1 BY <1>5, <1>6
<1>8. total_keys[k] = Base * total_keys[k - 1] BY <1>3, <1>4, KeysAre
<1>9. PICK n \in Nat : n = total_keys[k - 1] /\ n > k - 1 BY <1>7
<1>10. Base * n \in Nat /\ Base * n >= 2 * n BY <1>1
<1> QED BY <1>3, <1>5, <1>8, <1>9, <1>10

\* The length of a first key exists and is at least one byte.
LEMMA KeyLength == key_length \in 1..NumShards
<1> HIDE DEF total_keys
<1>1. NumShards \in Nat /\ NumShards >= 1 BY PlacementAssumption
<1> DEFINE S == {k \in 1..NumShards : total_keys[k] >= NumShards}
<1>2. NumShards \in S
  <2>1. NumShards \in 0..NumShards /\ NumShards \in 1..NumShards BY <1>1
  <2>2. total_keys[NumShards] \in Nat /\ total_keys[NumShards] > NumShards BY <2>1, KeysGrow
  <2> QED BY <1>1, <2>1, <2>2
<1>3. PICK k \in S : \A i \in S : k <= i
  <2>1. S \in SUBSET Nat /\ S # {} BY <1>1, <1>2
  <2> HIDE DEF S
  <2> QED BY <2>1, Least
<1>4. k \in 1..NumShards /\ total_keys[k] >= NumShards OBVIOUS
<1>5. k > 1 => total_keys[k - 1] < NumShards
  <2> SUFFICES ASSUME k > 1 PROVE total_keys[k - 1] < NumShards OBVIOUS
  <2>1. k - 1 \in 1..NumShards /\ ~(k <= k - 1) /\ k - 1 \in 0..NumShards BY <1>1, <1>4
  <2>2. k - 1 \notin S
    <3> HIDE DEF S
    <3> QED BY <1>3, <2>1
  <2>3. total_keys[k - 1] \in Nat BY <2>1, KeysGrow
  <2> QED BY <1>1, <2>1, <2>2, <2>3
<1> QED BY <1>4, <1>5, Zenon DEF key_length

-----------------------------------------------------------------------------
(* Byte strings in lexicographic order.                                    *)

\* The shape of a sequence of bytes.
LEMMA SeqOfNat ==
    ASSUME NEW a \in Seq(Nat)
    PROVE  Len(a) \in Nat /\ DOMAIN a = 1..Len(a) /\ \A k \in 1..Len(a) : a[k] \in Nat
BY LenProperties, ElementOfSeq

\* A prefix agrees at each of its places.
LEMMA PrefixIs ==
    ASSUME NEW a \in Seq(Nat), NEW b \in Seq(Nat)
    PROVE  IsPrefix(a, b) <=> Len(a) <= Len(b) /\ \A k \in 1..Len(a) : a[k] = b[k]
<1>1. Len(a) \in Nat /\ Len(b) \in Nat BY SeqOfNat
<1>2. ASSUME Len(a) <= Len(b)
      PROVE  SubSeq(a, 1, Len(a)) = SubSeq(b, 1, Len(a)) <=> \A k \in 1..Len(a) : a[k] = b[k]
  <2>1. PICK m \in Nat : m = Len(a) BY <1>1
  <2>2. SubSeq(a, 1, m) = [k \in 1..m |-> a[k]] /\ SubSeq(b, 1, m) = [k \in 1..m |-> b[k]]
    BY <1>1, <1>2, <2>1
  <2>3. [k \in 1..m |-> a[k]] = [k \in 1..m |-> b[k]] <=> \A k \in 1..m : a[k] = b[k]
    <3>1. ASSUME [k \in 1..m |-> a[k]] = [k \in 1..m |-> b[k]], NEW j \in 1..m
          PROVE  a[j] = b[j]
      <4>1. [k \in 1..m |-> a[k]][j] = [k \in 1..m |-> b[k]][j] BY <3>1
      <4> QED BY <4>1
    <3> QED BY <3>1
  <2> QED BY <2>1, <2>2, <2>3
<1> QED BY <1>2 DEF IsPrefix

\* a is less than b from place d on.
Less(a, b, d) ==
    d \in 1..Len(a) /\ d \in 1..Len(b) /\ a[d] < b[d] /\ \A e \in 1..(d - 1) : a[e] = b[e]

\* The order of keys: a prefix, or less at the first place that differs.
LEMMA AtMostIs ==
    ASSUME NEW a \in Seq(Nat), NEW b \in Seq(Nat)
    PROVE  AtMost(a, b) <=>
              \/ Len(a) <= Len(b) /\ \A k \in 1..Len(a) : a[k] = b[k]
              \/ \E d \in Nat : Less(a, b, d)
<1>1. DOMAIN a = 1..Len(a) /\ DOMAIN b = 1..Len(b) /\ Len(a) \in Nat BY SeqOfNat
<1>2. (\E d \in DOMAIN a \cap DOMAIN b : a[d] < b[d] /\ \A e \in 1..d - 1 : a[e] = b[e])
      <=> \E d \in Nat : Less(a, b, d)
  <2>1. \A d : d \in DOMAIN a \cap DOMAIN b <=> d \in 1..Len(a) /\ d \in 1..Len(b) BY <1>1
  <2>2. \A d \in 1..Len(a) : d \in Nat BY <1>1
  <2> QED BY <2>1, <2>2, Zenon DEF Less
<1> QED BY <1>2, PrefixIs, Zenon DEF AtMost

\* The order of keys is transitive.
LEMMA AtMostTransitive ==
    ASSUME NEW a \in Seq(Nat), NEW b \in Seq(Nat), NEW c \in Seq(Nat),
           AtMost(a, b), AtMost(b, c)
    PROVE  AtMost(a, c)
<1>1. /\ Len(a) \in Nat /\ Len(b) \in Nat /\ Len(c) \in Nat
      /\ \A k \in 1..Len(a) : a[k] \in Nat
      /\ \A k \in 1..Len(b) : b[k] \in Nat
      /\ \A k \in 1..Len(c) : c[k] \in Nat
  BY SeqOfNat
<1> SUFFICES \/ Len(a) <= Len(c) /\ \A k \in 1..Len(a) : a[k] = c[k]
             \/ \E d \in Nat : Less(a, c, d)
  BY AtMostIs
<1>2. CASE Len(a) <= Len(b) /\ \A k \in 1..Len(a) : a[k] = b[k]
  <2>1. CASE Len(b) <= Len(c) /\ \A k \in 1..Len(b) : b[k] = c[k]
    BY <1>1, <1>2, <2>1
  <2>2. ASSUME NEW d \in Nat, Less(b, c, d)
        PROVE  \/ Len(a) <= Len(c) /\ \A k \in 1..Len(a) : a[k] = c[k]
               \/ Less(a, c, d)
    <3>1. CASE d <= Len(a)
      <4>1. d \in 1..Len(a) /\ \A e \in 1..(d - 1) : e \in 1..Len(a)
        BY <1>1, <2>2, <3>1 DEF Less
      <4> QED BY <1>2, <2>2, <4>1 DEF Less
    <3>2. CASE Len(a) < d
      <4>1. Len(a) <= Len(c) /\ \A k \in 1..Len(a) : k \in 1..(d - 1)
        BY <1>1, <2>2, <3>2 DEF Less
      <4> QED BY <1>2, <2>2, <4>1 DEF Less
    <3> QED BY <1>1, <3>1, <3>2
  <2> QED BY <2>1, <2>2, AtMostIs
<1>3. ASSUME NEW d \in Nat, Less(a, b, d) PROVE \E f \in Nat : Less(a, c, f)
  <2>1. CASE Len(b) <= Len(c) /\ \A k \in 1..Len(b) : b[k] = c[k]
    <3>0. d >= 1 /\ d <= Len(b) /\ Len(b) <= Len(c) BY <1>1, <1>3, <2>1 DEF Less
    <3>1. d \in 1..Len(c) /\ \A e \in 1..(d - 1) : e \in 1..Len(b)
      BY <1>1, <3>0
    <3>2. Less(a, c, d) BY <1>3, <2>1, <3>1 DEF Less
    <3> QED BY <3>2
  <2>2. ASSUME NEW f \in Nat, Less(b, c, f) PROVE \E g \in Nat : Less(a, c, g)
    <3>1. CASE d < f
      <4>1. d >= 1 /\ f <= Len(c) BY <1>1, <1>3, <2>2 DEF Less
      <4>2. d \in 1..(f - 1) /\ d \in 1..Len(c) /\ \A e \in 1..(d - 1) : e \in 1..(f - 1)
        BY <1>1, <3>1, <4>1
      <4>3. Less(a, c, d) BY <1>3, <2>2, <4>2 DEF Less
      <4> QED BY <4>3
    <3>2. CASE f < d
      <4>1. f >= 1 /\ d <= Len(a) BY <1>1, <1>3, <2>2 DEF Less
      <4>2. f \in 1..(d - 1) /\ f \in 1..Len(a) /\ \A e \in 1..(f - 1) : e \in 1..(d - 1)
        BY <1>1, <3>2, <4>1
      <4>3. Less(a, c, f) BY <1>3, <2>2, <4>2 DEF Less
      <4> QED BY <4>3
    <3>3. CASE f = d
      <4>0. /\ d \in 1..Len(a) /\ d \in 1..Len(b) /\ d \in 1..Len(c)
            /\ a[d] < b[d] /\ b[d] < c[d]
        BY <1>3, <2>2, <3>3, Zenon DEF Less
      <4>1. a[d] < c[d]
        <5>1. a[d] \in Nat /\ b[d] \in Nat /\ c[d] \in Nat BY <1>1, <4>0, Zenon
        <5>2. \A x, y, z \in Nat : x < y /\ y < z => x < z OBVIOUS
        <5> QED BY <4>0, <5>1, <5>2, Zenon
      <4>2. Less(a, c, d) BY <1>3, <2>2, <3>3, <4>1 DEF Less
      <4> QED BY <4>2
    <3> QED BY <3>1, <3>2, <3>3
  <2> QED BY <2>1, <2>2, AtMostIs
<1> QED BY <1>2, <1>3, AtMostIs

\* Numbers are ordered like their bytes.
LEMMA BytesAre ==
    ASSUME NEW x \in Nat
    PROVE  /\ Bytes(x) \in Seq(Nat) /\ Len(Bytes(x)) = key_length
           /\ \A d \in 1..key_length :
                 Bytes(x)[d] = (x \div total_keys[key_length - d]) % Base
<1> HIDE DEF total_keys, key_length
<1>1. key_length \in Nat /\ NumShards \in Nat /\ key_length \in 1..NumShards
  BY KeyLength, PlacementAssumption
<1>2. Base \in Nat \ {0} BY PlacementAssumption
<1>3. ASSUME NEW d \in 1..key_length PROVE (x \div total_keys[key_length - d]) % Base \in Nat
  <2>1. key_length - d \in 0..NumShards BY <1>1
  <2>2. PICK b \in Nat \ {0} : b = total_keys[key_length - d] BY <2>1, KeysGrow
  <2>3. PICK q \in Nat : q = x \div b BY Division
  <2>4. q % Base \in Nat BY <1>2, Division
  <2> QED BY <2>2, <2>3, <2>4
<1> DEFINE byte(d) == (x \div total_keys[key_length - d]) % Base
<1>4. \A d \in 1..key_length : byte(d) \in Nat BY <1>3
<1>5. Bytes(x) = [d \in 1..key_length |-> byte(d)] BY DEF Bytes
<1>6. [d \in 1..key_length |-> byte(d)] \in [1..key_length -> Nat]
  <2> HIDE DEF byte
  <2> QED BY <1>4
<1>7. Bytes(x) \in [1..key_length -> Nat] BY <1>5, <1>6
<1>8. Bytes(x) \in Seq(Nat) /\ Len(Bytes(x)) = key_length
  <2>1. PICK f \in [1..key_length -> Nat] : f = Bytes(x) BY <1>7
  <2>2. f \in Seq(Nat) /\ Len(f) = key_length BY <1>1
  <2> QED BY <2>1, <2>2
<1> QED BY <1>5, <1>8

\* The bytes before place d and the one there, as a number.
LEMMA Leading ==
    ASSUME NEW x \in Nat, NEW d \in 1..key_length
    PROVE  /\ key_length - d \in 0..NumShards /\ key_length - (d - 1) \in 0..NumShards
           /\ x \div total_keys[key_length - d] \in Nat
           /\ x \div total_keys[key_length - (d - 1)] =
                 (x \div total_keys[key_length - d]) \div Base
<1> HIDE DEF total_keys, key_length
<1>1. key_length \in Nat /\ NumShards \in Nat /\ key_length \in 1..NumShards
  BY KeyLength, PlacementAssumption
<1>2. Base \in Nat \ {0} BY PlacementAssumption
<1>3. PICK k \in 0..NumShards : k = key_length - d BY <1>1
<1>4. k + 1 \in 0..NumShards /\ k + 1 # 0 /\ k + 1 = key_length - (d - 1) /\ (k + 1) - 1 = k
  BY <1>1, <1>3
<1>5. PICK c \in Nat \ {0} : c = total_keys[k] BY KeysGrow
<1>6. total_keys[k + 1] = Base * c BY <1>4, <1>5, KeysAre
<1>7. x \div (Base * c) = (x \div c) \div Base BY <1>2, QuotientTwice
<1>8. x \div c \in Nat BY Division
<1> QED BY <1>3, <1>4, <1>5, <1>6, <1>7, <1>8

\* Big-endian bytes of one length are ordered as their numbers are.
LEMMA BytesOrder ==
    ASSUME NEW x \in Nat, NEW y \in Nat, x <= y, y < total_keys[key_length]
    PROVE  AtMost(Bytes(x), Bytes(y))
<1> HIDE DEF total_keys, key_length
<1>1. key_length \in Nat /\ NumShards \in Nat /\ key_length \in 1..NumShards
  BY KeyLength, PlacementAssumption
<1>2. Base \in Nat \ {0} BY PlacementAssumption
<1>3. PICK a \in Seq(Nat), b \in Seq(Nat) :
        /\ a = Bytes(x) /\ b = Bytes(y) /\ Len(a) = key_length /\ Len(b) = key_length
        /\ \A d \in 1..key_length : a[d] = (x \div total_keys[key_length - d]) % Base
        /\ \A d \in 1..key_length : b[d] = (y \div total_keys[key_length - d]) % Base
  BY BytesAre
<1> DEFINE lead(n, d) == n \div total_keys[key_length - d]
           Part == {d \in 0..key_length : lead(x, d) # lead(y, d)}
<1>4. 0 \notin Part
  <2>1. PICK t \in Nat \ {0} : t = total_keys[key_length - 0] /\ y < t
    <3>1. key_length - 0 = key_length /\ key_length \in 0..NumShards BY <1>1
    <3> QED BY <3>1, KeysGrow
  <2>2. x \in 0..(t - 1) /\ y \in 0..(t - 1) BY <2>1
  <2>3. x \div t = 0 /\ y \div t = 0 BY <2>2, QuotientZero
  <2> QED BY <2>1, <2>3
<1>5. CASE Part = {}
  <2>1. \A d \in 1..key_length : d \in 0..key_length BY <1>1
  <2>2. \A d \in 1..key_length : lead(x, d) = lead(y, d) BY <1>5, <2>1
  <2>3. \A d \in 1..key_length : a[d] = b[d] BY <1>3, <2>2
  <2> HIDE DEF Part, lead
  <2> QED BY <1>1, <1>3, <2>3, AtMostIs
<1>6. CASE Part # {}
  <2>1. PICK d \in Part : \A e \in Part : d <= e
    <3>1. Part \in SUBSET Nat BY <1>1
    <3> HIDE DEF Part
    <3> QED BY <1>6, <3>1, Least
  <2>2. d \in 0..key_length /\ lead(x, d) # lead(y, d) OBVIOUS
  <2>3. d \in 1..key_length /\ d - 1 \in 0..key_length /\ ~(d <= d - 1)
    <3> HIDE DEF Part, lead
    <3> QED BY <1>1, <1>4, <2>1, <2>2
  <2>4. \A e \in 0..key_length : e < d => lead(x, e) = lead(y, e)
    <3>1. \A e \in 0..key_length : e < d => e \notin Part
      <4> HIDE DEF Part
      <4> QED BY <1>1, <2>1, <2>3
    <3> QED BY <3>1
  <2>5. PICK p \in Nat, q \in Nat : p = lead(x, d) /\ q = lead(y, d) BY <2>3, Leading
  <2>6. p < q
    <3>1. key_length - d \in 0..NumShards BY <2>3, Leading
    <3>2. PICK t \in Nat \ {0} : t = total_keys[key_length - d] BY <3>1, KeysGrow
    <3>3. x \div t <= y \div t BY QuotientGrows
    <3> QED BY <2>2, <2>5, <3>2, <3>3
  <2>7. p \div Base = q \div Base
    <3>1. lead(x, d - 1) = p \div Base /\ lead(y, d - 1) = q \div Base
      BY <2>3, <2>5, Leading
    <3>2. lead(x, d - 1) = lead(y, d - 1)
      <4> HIDE DEF lead
      <4> QED BY <1>1, <2>3, <2>4
    <3> QED BY <3>1, <3>2
  <2>8. a[d] = p % Base /\ b[d] = q % Base BY <1>3, <2>3, <2>5
  <2>9. p % Base < q % Base BY <1>2, <2>6, <2>7, RemainderGrows
  <2>10. \A e \in 1..(d - 1) : a[e] = b[e]
    <3>1. \A e \in 1..(d - 1) : e \in 1..key_length /\ e \in 0..key_length /\ e < d BY <1>1, <2>3
    <3>2. \A e \in 1..(d - 1) : lead(x, e) = lead(y, e)
      <4> HIDE DEF lead
      <4> QED BY <2>4, <3>1
    <3> QED BY <1>3, <3>1, <3>2
  <2>11. Less(a, b, d) BY <1>3, <2>3, <2>8, <2>9, <2>10 DEF Less
  <2>12. d \in Nat BY <1>1, <2>3
  <2> HIDE DEF Part, lead
  <2> QED BY <1>3, <2>11, <2>12, AtMostIs
<1> QED BY <1>5, <1>6

-----------------------------------------------------------------------------
(* The shard of a hash, found in three ways.                               *)

\* The first keys of the shards are ordered as the shards are, and the first
\* of them is before every hash.
LEMMA FirstKeys ==
    ASSUME NEW i \in Shard
    PROVE  /\ first_key(i) \in Seq(Nat)
           /\ \A j \in Shard : i <= j => AtMost(first_key(i), first_key(j))
           /\ i = 0 => \A b \in Seq(Nat) : AtMost(first_key(i), b)
<1> HIDE DEF total_keys, key_length
<1>1. key_length \in 0..NumShards /\ NumShards \in Nat \ {0} BY KeyLength, PlacementAssumption
<1>2. PICK all \in Nat \ {0} : all = total_keys[key_length] BY <1>1, KeysGrow
<1>3. PICK gap \in Nat, rest \in 0..(NumShards - 1) :
        gap = all \div NumShards /\ all = NumShards * gap + rest
  BY <1>1, Division
<1>4. \A j \in Shard : first_key(j) = IF j = 0 THEN <<>> ELSE Bytes(j * gap)
  BY <1>2, <1>3 DEF first_key
<1>5. \A j \in Shard : j \in Nat /\ j < NumShards BY <1>1 DEF Shard
<1>6. \A j \in Shard : j * gap \in Nat BY <1>5
<1>7. \A j \in Shard : first_key(j) \in Seq(Nat)
  <2>1. <<>> \in Seq(Nat) OBVIOUS
  <2>2. \A j \in Shard : Bytes(j * gap) \in Seq(Nat) BY <1>6, BytesAre
  <2> QED BY <1>4, <2>1, <2>2
<1>8. ASSUME NEW b \in Seq(Nat), i = 0 PROVE AtMost(first_key(i), b)
  <2>1. PICK a \in Seq(Nat) : a = first_key(i) /\ Len(a) = 0 BY <1>4, <1>7, <1>8
  <2>2. Len(b) \in Nat BY SeqOfNat
  <2>3. Len(a) <= Len(b) /\ \A k \in 1..Len(a) : a[k] = b[k] BY <2>1, <2>2
  <2> QED BY <2>1, <2>3, AtMostIs
<1>9. ASSUME NEW j \in Shard, i <= j PROVE AtMost(first_key(i), first_key(j))
  <2>1. CASE i = 0 BY <1>7, <1>8, <2>1
  <2>2. CASE i # 0
    <3>1. j # 0 BY <1>5, <1>9, <2>2
    <3>2. PICK x \in Nat, y \in Nat : x = i * gap /\ y = j * gap BY <1>6
    <3>3. x <= y BY <1>5, <1>9, <3>2, ProductGrows
    <3>4. y < all
      <4>1. CASE gap = 0 BY <1>2, <1>5, <3>2, <4>1
      <4>2. CASE gap # 0
        <5>1. gap * j + gap <= gap * NumShards BY <1>1, <1>3, <1>5, <4>2, Multiples
        <5>2. gap * j = y /\ gap * NumShards = NumShards * gap /\ NumShards * gap \in Nat
          BY <1>1, <1>3, <1>5, <3>2
        <5> QED BY <1>1, <1>2, <1>3, <3>2, <4>2, <5>1, <5>2
      <4> QED BY <4>1, <4>2
    <3>5. AtMost(Bytes(x), Bytes(y)) BY <1>2, <3>2, <3>3, <3>4, BytesOrder
    <3> QED BY <1>4, <2>2, <3>1, <3>2, <3>5
  <2> QED BY <2>1, <2>2
<1> QED BY <1>7, <1>8, <1>9

\* The shards that start at or before a hash are the first ones.
LEMMA ShardOf ==
    ASSUME NEW h \in Hash
    PROVE  \E m \in Shard : \A i \in Shard : AtMost(first_key(i), h) <=> i <= m
<1>1. NumShards \in Nat \ {0} /\ HashLength \in Nat /\ Base \in Nat BY PlacementAssumption
<1>2. h \in Seq(Nat)
  <2>1. h \in [1..HashLength -> Nat] BY <1>1 DEF Hash
  <2> QED BY <1>1, <2>1
<1>3. 0 \in Shard /\ \A i \in Shard : i \in Nat /\ NumShards - i \in Nat BY <1>1 DEF Shard
<1> DEFINE S == {d \in Nat : \E i \in Shard : d = NumShards - i /\ AtMost(first_key(i), h)}
<1>4. NumShards - 0 \in S BY <1>1, <1>2, <1>3, FirstKeys
<1>5. PICK d \in S : \A e \in S : d <= e
  <2>1. S \in SUBSET Nat /\ S # {} BY <1>4
  <2> HIDE DEF S
  <2> QED BY <2>1, Least
<1>6. PICK m \in Shard : d = NumShards - m /\ AtMost(first_key(m), h) OBVIOUS
<1>7. ASSUME NEW i \in Shard, AtMost(first_key(i), h) PROVE i <= m
  <2>1. NumShards - i \in S BY <1>3, <1>7
  <2>2. d <= NumShards - i
    <3> HIDE DEF S
    <3> QED BY <1>5, <2>1
  <2> QED BY <1>1, <1>3, <1>6, <2>2
<1>8. ASSUME NEW i \in Shard, i <= m PROVE AtMost(first_key(i), h)
  <2>1. AtMost(first_key(i), first_key(m)) BY <1>6, <1>8, FirstKeys
  <2>2. first_key(i) \in Seq(Nat) /\ first_key(m) \in Seq(Nat) BY <1>6, FirstKeys
  <2> QED BY <1>2, <1>6, <2>1, <2>2, AtMostTransitive
<1> HIDE DEF S
<1> QED BY <1>6, <1>7, <1>8

\* The placement client, which counts the first keys up to a hash, finds the
\* last shard that starts at or before it.
LEMMA ShardCounted ==
    ASSUME NEW h \in Hash, NEW m \in Shard,
           \A i \in Shard : AtMost(first_key(i), h) <=> i <= m
    PROVE  shard_for_actor(h) = m
<1>1. NumShards \in Nat \ {0} BY PlacementAssumption
<1>2. m \in Nat /\ m < NumShards BY <1>1 DEF Shard
<1>3. {i \in Shard : AtMost(first_key(i), h)} = {i \in Shard : i <= m} BY Zenon
<1>4. {i \in Shard : i <= m} = 0..m BY <1>1, <1>2 DEF Shard
<1>5. Cardinality(0..m) = m + 1 BY <1>2, FS_Interval
<1>6. shard_for_actor(h) = (m + 1) - 1 BY <1>3, <1>4, <1>5, Zenon DEF shard_for_actor
<1> QED BY <1>2, <1>6

\* The database, which steps back from the first key after a hash, finds the
\* last shard that starts at or before it.
LEMMA ShardSteppedBack ==
    ASSUME NEW h \in Hash, NEW m \in Shard,
           \A i \in Shard : AtMost(first_key(i), h) <=> i <= m
    PROVE  GetShardForHash(h) = m
<1>1. NumShards \in Nat \ {0} BY PlacementAssumption
<1>2. m \in Nat /\ m < NumShards BY <1>1 DEF Shard
<1>3. PICK after : after = {i \in Shard : ~AtMost(first_key(i), h)} OBVIOUS
<1>4. after = {i \in Shard : ~(i <= m)} BY <1>3, Zenon
<1>5. GetShardForHash(h) = IF after = {} THEN NumShards - 1 ELSE Min(after) - 1
  BY <1>3, Zenon DEF GetShardForHash
<1>6. CASE m = NumShards - 1
  <2>1. after = {} BY <1>1, <1>4, <1>6 DEF Shard
  <2> QED BY <1>5, <1>6, <2>1
<1>7. CASE m # NumShards - 1
  <2>1. m + 1 \in after /\ \A i \in after : m + 1 <= i BY <1>1, <1>2, <1>4, <1>7 DEF Shard
  <2>2. \A i \in after : i \in Nat BY <1>1, <1>4 DEF Shard
  <2>3. Min(after) = m + 1
    <3>1. PICK x : x = Min(after) OBVIOUS
    <3>2. x \in after /\ \A i \in after : x <= i BY <2>1, <3>1 DEF Min
    <3> QED BY <1>2, <2>1, <2>2, <3>1, <3>2
  <2> QED BY <1>2, <1>5, <2>1, <2>3
<1> QED BY <1>6, <1>7

\* The defining equation of the binary search for a hash.
Range2 == (1..NumShards + 1) \X (1..NumShards + 1)
SearchEq(f, h) ==
    f = [bounds \in Range2 |->
            LET low == bounds[1]
                high == bounds[2]
                middle == (low + high) \div 2
            IN IF low >= high THEN low
               ELSE IF AtMost(first_key(middle - 1), h) THEN f[<<middle + 1, high>>]
               ELSE f[<<low, middle>>]]

\* The middle of a binary search is within it.
LEMMA Halfway ==
    ASSUME NEW low \in Nat, NEW high \in Nat, low < high
    PROVE  \E middle \in Nat : middle = (low + high) \div 2 /\ low <= middle /\ middle < high
OBVIOUS

\* Between any bounds it finds the first range that starts after the hash, or
\* the bound that is next to it.
Found(low, high, x) == IF low >= high \/ x < low THEN low ELSE IF x > high THEN high ELSE x

\* The binary search of Envoy's filter ends: its equation has a solution.
LEMMA SearchExists ==
    ASSUME NEW h \in Hash, NEW m \in Shard,
           \A i \in Shard : AtMost(first_key(i), h) <=> i <= m
    PROVE  \E f : SearchEq(f, h)
<1>1. NumShards \in Nat \ {0} BY PlacementAssumption
<1>2. m \in Nat /\ m < NumShards BY <1>1 DEF Shard
<1> DEFINE f == [bounds \in Range2 |-> Found(bounds[1], bounds[2], m + 2)]
           next(bounds) ==
              LET low == bounds[1]
                  high == bounds[2]
                  middle == (low + high) \div 2
              IN IF low >= high THEN low
                 ELSE IF AtMost(first_key(middle - 1), h) THEN f[<<middle + 1, high>>]
                 ELSE f[<<low, middle>>]
<1>3. ASSUME NEW low \in 1..NumShards + 1, NEW high \in 1..NumShards + 1
      PROVE  f[<<low, high>>] = Found(low, high, m + 2)
  <2>1. <<low, high>> \in Range2 BY DEF Range2
  <2> QED BY <2>1
<1>4. ASSUME NEW low \in 1..NumShards + 1, NEW high \in 1..NumShards + 1
      PROVE  f[<<low, high>>] = next(<<low, high>>)
  <2>1. PICK g : g = f OBVIOUS
  <2>2. next(<<low, high>>) =
          IF low >= high THEN low
          ELSE IF AtMost(first_key((low + high) \div 2 - 1), h)
               THEN g[<<(low + high) \div 2 + 1, high>>]
          ELSE g[<<low, (low + high) \div 2>>]
    BY <2>1
  <2>3. \A l, k \in 1..NumShards + 1 : g[<<l, k>>] = Found(l, k, m + 2) BY <1>3, <2>1
  <2> HIDE DEF f, next
  <2>4. CASE low >= high BY <2>1, <2>2, <2>3, <2>4 DEF Found
  <2>5. CASE low < high
    <3>1. low \in Nat /\ high \in Nat BY <1>1
    <3>2. PICK middle \in Nat : middle = (low + high) \div 2 /\ low <= middle /\ middle < high
      BY <2>5, <3>1, Halfway
    <3>3. middle \in 1..NumShards + 1 /\ middle + 1 \in 1..NumShards + 1 /\ middle - 1 \in Shard
      BY <1>1, <3>1, <3>2 DEF Shard
    <3>4. AtMost(first_key(middle - 1), h) <=> middle - 1 <= m BY <3>3
    <3>5. CASE middle - 1 <= m
      <4>1. next(<<low, high>>) = Found(middle + 1, high, m + 2)
        BY <2>2, <2>3, <2>5, <3>1, <3>2, <3>3, <3>4, <3>5
      <4>2. Found(middle + 1, high, m + 2) = Found(low, high, m + 2)
        BY <1>2, <2>5, <3>1, <3>2, <3>5 DEF Found
      <4> QED BY <2>1, <2>3, <4>1, <4>2
    <3>6. CASE middle - 1 > m
      <4>1. next(<<low, high>>) = Found(low, middle, m + 2)
        BY <1>2, <2>2, <2>3, <2>5, <3>1, <3>2, <3>3, <3>4, <3>6
      <4>2. Found(low, middle, m + 2) = Found(low, high, m + 2)
        BY <1>2, <2>5, <3>1, <3>2, <3>6 DEF Found
      <4> QED BY <2>1, <2>3, <4>1, <4>2
    <3> QED BY <1>2, <3>2, <3>5, <3>6
  <2> QED BY <1>1, <2>4, <2>5
<1>5. \A bounds \in Range2 : f[bounds] = next(bounds)
  <2> HIDE DEF f, next
  <2> QED BY <1>4 DEF Range2
<1>6. f = [bounds \in Range2 |-> next(bounds)]
  <2>1. f = [bounds \in Range2 |-> f[bounds]] OBVIOUS
  <2> HIDE DEF f, next
  <2> QED BY <1>5, <2>1
<1>7. SearchEq(f, h)
  <2> HIDE DEF f
  <2> QED BY <1>6, Zenon DEF SearchEq
<1> QED BY <1>7

\* Envoy's filter finds the server of the last shard that starts at or
\* before the hash.
LEMMA ShardSearched ==
    ASSUME NEW h \in Hash, NEW m \in Shard, NEW map,
           \A i \in Shard : AtMost(first_key(i), h) <=> i <= m
    PROVE  compute_server_id(h, map) = map[m]
<1>1. NumShards \in Nat \ {0} BY PlacementAssumption
<1>2. m \in Nat /\ m < NumShards BY <1>1 DEF Shard
<1>3. PICK f : f = CHOOSE g : SearchEq(g, h) OBVIOUS
<1>4. SearchEq(f, h) BY <1>3, SearchExists
<1>5. compute_server_id(h, map) = map[f[<<1, NumShards + 1>>] - 2]
  BY <1>3, Zenon DEF compute_server_id, SearchEq, Range2
<1>6. ASSUME NEW low \in 1..NumShards + 1, NEW high \in 1..NumShards + 1
      PROVE  f[<<low, high>>] =
                IF low >= high THEN low
                ELSE IF AtMost(first_key((low + high) \div 2 - 1), h)
                     THEN f[<<(low + high) \div 2 + 1, high>>]
                ELSE f[<<low, (low + high) \div 2>>]
  <2>1. <<low, high>> \in Range2 BY DEF Range2
  <2> QED BY <1>4, <2>1 DEF SearchEq
<1> DEFINE Bad == {d \in Nat : \E low, high \in 1..NumShards + 1 :
                      /\ low <= m + 2 /\ m + 2 <= high /\ d = high - low
                      /\ f[<<low, high>>] # m + 2}
<1>7. Bad = {}
  <2> SUFFICES ASSUME Bad # {} PROVE FALSE OBVIOUS
  <2>1. PICK d \in Bad : \A e \in Bad : d <= e
    <3>1. Bad \in SUBSET Nat OBVIOUS
    <3> HIDE DEF Bad
    <3> QED BY <3>1, Least
  <2>2. PICK low, high \in 1..NumShards + 1 :
          low <= m + 2 /\ m + 2 <= high /\ d = high - low /\ f[<<low, high>>] # m + 2
    OBVIOUS
  <2>3. ASSUME NEW l \in 1..NumShards + 1, NEW k \in 1..NumShards + 1,
               l <= m + 2, m + 2 <= k, k - l < d
        PROVE  f[<<l, k>>] = m + 2
    <3> SUFFICES ASSUME f[<<l, k>>] # m + 2 PROVE FALSE OBVIOUS
    <3>1. k - l \in Nat BY <1>1, <1>2, <2>3
    <3>2. k - l \in Bad BY <2>3, <3>1
    <3>3. d \in Nat OBVIOUS
    <3> HIDE DEF Bad
    <3> QED BY <2>1, <2>3, <3>1, <3>2, <3>3
  <2>4. low \in Nat /\ high \in Nat BY <1>1
  <2> HIDE DEF Bad
  <2>5. low < high
    <3> SUFFICES ASSUME low >= high PROVE FALSE BY <2>4
    <3>1. f[<<low, high>>] = low BY <1>6, <2>2
    <3>2. low = m + 2 BY <1>2, <2>2, <2>4
    <3> QED BY <2>2, <3>1, <3>2
  <2>6. PICK middle \in Nat : middle = (low + high) \div 2 /\ low <= middle /\ middle < high
    BY <2>4, <2>5, Halfway
  <2>7. middle \in 1..NumShards + 1 /\ middle + 1 \in 1..NumShards + 1 /\ middle - 1 \in Shard
    BY <1>1, <2>2, <2>4, <2>6 DEF Shard
  <2>8. f[<<low, high>>] = IF middle - 1 <= m THEN f[<<middle + 1, high>>] ELSE f[<<low, middle>>]
    <3>1. AtMost(first_key(middle - 1), h) <=> middle - 1 <= m BY <2>7
    <3>2. ~(low >= high) BY <2>4, <2>5
    <3> QED BY <1>6, <2>6, <3>1, <3>2
  <2>9. CASE middle - 1 <= m
    <3>1. middle + 1 <= m + 2 /\ high - (middle + 1) < d BY <1>2, <2>2, <2>4, <2>6, <2>9
    <3>2. f[<<middle + 1, high>>] = m + 2 BY <2>2, <2>3, <2>7, <3>1
    <3> QED BY <2>2, <2>8, <2>9, <3>2
  <2>10. CASE ~(middle - 1 <= m)
    <3>1. m + 2 <= middle /\ middle - low < d BY <1>2, <2>2, <2>4, <2>6, <2>10
    <3>2. f[<<low, middle>>] = m + 2 BY <2>2, <2>3, <2>7, <3>1
    <3> QED BY <2>2, <2>8, <2>10, <3>2
  <2> QED BY <2>9, <2>10
<1>8. f[<<1, NumShards + 1>>] = m + 2
  <2> SUFFICES ASSUME f[<<1, NumShards + 1>>] # m + 2 PROVE FALSE OBVIOUS
  <2>1. 1 \in 1..NumShards + 1 /\ NumShards + 1 \in 1..NumShards + 1 /\ 1 <= m + 2
        /\ m + 2 <= NumShards + 1 /\ (NumShards + 1) - 1 \in Nat
    BY <1>1, <1>2
  <2>2. (NumShards + 1) - 1 \in Bad BY <2>1
  <2> HIDE DEF Bad
  <2> QED BY <1>7, <2>2
<1>9. f[<<1, NumShards + 1>>] - 2 = m BY <1>2, <1>8
<1> QED BY <1>5, <1>9

\* Envoy's filter, the placement client and the database find the same shard.
LEMMA LookupsAgree ==
    ASSUME NEW h \in Hash, NEW map
    PROVE  /\ shard_for_actor(h) \in Shard
           /\ GetShardForHash(h) = shard_for_actor(h)
           /\ compute_server_id(h, map) = map[shard_for_actor(h)]
<1>1. PICK m \in Shard : \A i \in Shard : AtMost(first_key(i), h) <=> i <= m BY ShardOf
<1>2. shard_for_actor(h) = m BY <1>1, ShardCounted
<1>3. GetShardForHash(h) = m BY <1>1, ShardSteppedBack
<1>4. compute_server_id(h, map) = map[m] BY <1>1, ShardSearched
<1> QED BY <1>2, <1>3, <1>4

\* Doubling the servers moves a shard to one of the new ones or not at all.
LEMMA Doubling == ScalingStable
<1> SUFFICES ASSUME NEW n \in 1..NumShards, NEW i \in Shard
             PROVE  i % (2 * n) \in {i % n} \cup n .. 2 * n - 1
  BY DEF ScalingStable, server_index_for_shard
<1>1. n \in Nat \ {0} /\ i \in Nat BY PlacementAssumption DEF Shard
<1>2. PICK b \in Nat \ {0} : b = 2 * n BY <1>1
<1>3. PICK q \in Nat, r \in 0..(b - 1) : q = i \div b /\ r = i % b /\ i = b * q + r
  BY <1>1, Divided, Zenon
<1>4. CASE r < n
  <2>1. 2 * q \in Nat /\ b * q = n * (2 * q) BY <1>1, <1>2
  <2>2. i = n * (2 * q) + r /\ r \in 0..(n - 1) BY <1>1, <1>2, <1>3, <1>4, <2>1
  <2>3. i % n = r BY <1>1, <2>1, <2>2, Quotient
  <2> QED BY <1>2, <1>3, <2>3
<1>5. CASE ~(r < n)
  <2>1. r \in n .. 2 * n - 1 BY <1>1, <1>2, <1>3, <1>5
  <2> QED BY <1>2, <1>3, <2>1
<1> QED BY <1>4, <1>5

-----------------------------------------------------------------------------
(* The invariant of commands, servers and placement clients.               *)

Plan == [version : Nat, n : Nat, address : [Replica -> Nat]]
Launch == [state : {"none", "running", "stopped"}, n : Nat, port : Nat, at : Nat]
Making == [pc : {"idle", "servers", "delete", "publish", "restart"}, plan : Plan,
           todo : SUBSET Replica, failed : BOOLEAN]

PlacementTyped ==
    /\ configs \in Counts \cup {0} /\ plans \in Nat /\ current \in Plan
    /\ launched \in [Replica -> Launch] /\ managed \in SUBSET Replica /\ making \in Making
    /\ routes \in [Replica -> Nat] /\ listening \in [PlanClient -> BOOLEAN]
    /\ planQueue \in [PlanClient -> Seq(Plan)] /\ known \in [PlanClient -> Plan]
    /\ changeWaiter \in [PlanClient -> {"none", "check", "created", "listen"}]
    /\ ports \in Nat /\ startFailures \in Nat

\* A plan that a client has or will get, with the current plan cur.
UpTo(p, cur) == p.version <= cur.version /\ (p.version = cur.version => p = cur)

\* A client's plans, the one it knows and those under way, in order.
InOrder(k, q, cur) ==
    /\ UpTo(k, cur)
    /\ \A i \in 1..Len(q) : UpTo(q[i], cur) /\ k.version <= q[i].version
    /\ \A i, j \in 1..Len(q) : i <= j => q[i].version <= q[j].version
ClientsOK == \A c \in PlanClient : InOrder(known[c], planQueue[c], current)

\* The plan that is made is newer than the current one, and the only one.
\* Reboot's client has the current plan unless Reboot waits for it.
VersionsOK ==
    /\ 1 <= current.version /\ current.version <= plans
    /\ making.pc \in {"servers", "delete", "publish"} =>
          /\ making.plan.version = plans /\ current.version < plans
          /\ making.plan.n = configs
    /\ making.pc # "idle" => changeWaiter[Local] = "none"
    /\ changeWaiter[Local] = "none" => known[Local] = current

Serves(s, address) == launched[s].state # "none" /\ launched[s].port = address[s]

\* How far the servers of the plan that is made are.
ServersOK ==
    /\ making.pc = "idle" /\ ~making.failed =>
          /\ managed = Planned(configs) /\ current.n = configs
          /\ \A s \in Planned(configs) : Serves(s, current.address) /\ Serves(s, routes)
    /\ making.pc = "servers" =>
          /\ making.todo \subseteq Planned(configs)
          /\ ~making.failed =>
                \A s \in Planned(configs) \ making.todo : Serves(s, making.plan.address)
    /\ making.pc \in {"delete", "publish"} =>
          ~making.failed /\ \A s \in Planned(configs) : Serves(s, making.plan.address)
    /\ making.pc = "delete" => making.todo \cap Planned(configs) = {}
    /\ making.pc = "publish" =>
          managed = Planned(configs) /\ \A s \in Planned(configs) : Serves(s, routes)

\* The servers that exist, while none failed to start.
Exist == {s \in Replica : launched[s].state # "none"}
NoneLeftOver ==
    startFailures = 0 =>
        /\ ~making.failed
        /\ \A s \in Exist \cap Planned(configs) : launched[s].n = configs
        /\ making.pc \in {"idle", "restart"} => Exist = managed /\ managed = Planned(configs)
        /\ making.pc = "restart" => making.plan.n = configs /\ making.todo \subseteq Exist
        /\ making.pc = "servers" =>
              managed \subseteq Exist /\ Exist \subseteq managed \cup Planned(configs)
        /\ making.pc = "delete" =>
              Planned(configs) \subseteq Exist /\ Exist \subseteq Planned(configs) \cup making.todo
        /\ making.pc = "publish" => Exist = Planned(configs)

\* The places in the dictionary of servers are different.
DictOK == \A s \in Replica :
    /\ launched[s].at <= ports
    /\ \A t \in Replica : s # t /\ launched[s].state # "none" /\ launched[t].state # "none" =>
          launched[s].at # launched[t].at

\* The servers of the plan have its number of servers.
SpecsOK ==
    /\ making.pc = "idle" /\ ~making.failed => \A s \in Planned(configs) : launched[s].n = configs
    /\ making.pc = "servers" /\ ~making.failed =>
          \A s \in Planned(configs) \ making.todo : launched[s].n = configs
    /\ making.pc \in {"delete", "publish"} => \A s \in Planned(configs) : launched[s].n = configs

\* Envoy has every shard, with its last server of the dictionary.
Mapped ==
    /\ DOMAIN routeMap = Shard
    /\ \A i \in Shard :
          /\ routeMap[i] \in Claimants(i)
          /\ \A t \in Claimants(i) : launched[t].at <= launched[routeMap[i]].at
MapOK ==
    configs # 0 /\ (making.pc = "publish" \/ (making.pc = "idle" /\ ~making.failed)) => Mapped

EnvoyOK == DictOK /\ SpecsOK /\ MapOK

PlacementInv == PlacementTyped /\ ClientsOK /\ VersionsOK /\ ServersOK /\ NoneLeftOver /\ EnvoyOK

\* There is a largest number of servers.
LEMMA Servers == /\ NumServers \in Counts /\ NumServers \in Nat \ {0}
                 /\ \A n \in Counts : n <= NumServers
<1>1. NumShards \in Nat \ {0} /\ \A n \in Counts : n \in Nat \ {0} /\ NumShards % n = 0
  BY PlacementAssumption
<1>2. ASSUME NEW n \in Counts PROVE NumShards - n \in Nat
  <2>1. n \in Nat \ {0} BY <1>1
  <2>2. PICK q \in Nat, r \in 0..(n - 1) : r = NumShards % n /\ NumShards = n * q + r
    BY <1>1, <2>1, Division
  <2>3. NumShards = n * q BY <1>1, <2>1, <2>2
  <2>4. q # 0 BY <1>1, <2>3
  <2>5. 1 * n <= q * n BY <2>1, <2>4, ProductGrows
  <2> QED BY <1>1, <2>1, <2>3, <2>5
<1> DEFINE S == {d \in Nat : \E n \in Counts : d = NumShards - n}
<1>3. PICK d \in S : \A e \in S : d <= e
  <2>1. S \in SUBSET Nat /\ S # {} BY <1>2, PlacementAssumption
  <2> HIDE DEF S
  <2> QED BY <2>1, Least
<1>4. PICK m \in Counts : d = NumShards - m OBVIOUS
<1>5. \A n \in Counts : NumShards - n \in S BY <1>2
<1>6. \A n \in Counts : NumShards - m <= NumShards - n
  <2> HIDE DEF S
  <2> QED BY <1>3, <1>4, <1>5
<1>7. \A n \in Counts : m >= n BY <1>1, <1>6
<1>8. \E x \in Counts : \A n \in Counts : x >= n BY <1>7
<1>9. NumServers \in Counts /\ \A n \in Counts : NumServers >= n BY <1>8, Zenon DEF NumServers, Max
<1> QED BY <1>1, <1>9

\* The servers and Reboot itself are different clients.
LEMMA Clients ==
    /\ Local \in PlanClient /\ Local \notin Replica /\ Replica \subseteq PlanClient
    /\ \A c \in PlanClient : c # Local => c \in Replica
    /\ Replica \subseteq Nat
BY Servers DEF Local, PlanClient, Replica

\* The types of the initial values.
LEMMA PlansAre ==
    /\ NoPlan \in Plan /\ NoPlan.version = 0 /\ NoPlan.n = 0
    /\ NotLaunched \in Launch /\ NotLaunched.state = "none"
    /\ AtRest \in Making /\ AtRest.pc = "idle" /\ ~AtRest.failed
    /\ Raised \in Making /\ Raised.pc = "idle" /\ Raised.failed
BY DEF NoPlan, Plan, NotLaunched, Launch, AtRest, Making, Raised

\* The shape of a queue of plans.
LEMMA PlanQueues ==
    ASSUME NEW q \in Seq(Plan)
    PROVE  Len(q) \in Nat /\ \A i \in 1..Len(q) : q[i] \in Plan
BY LenProperties, ElementOfSeq

\* A client that takes the plan at the head of its queue does not go back.
LEMMA OrderHandled ==
    ASSUME NEW k \in Plan, NEW q \in Seq(Plan), NEW cur \in Plan, q # <<>>, InOrder(k, q, cur)
    PROVE  /\ Head(q) \in Plan /\ Tail(q) \in Seq(Plan)
           /\ InOrder(Head(q), Tail(q), cur) /\ k.version <= Head(q).version
<1>1. Len(q) \in Nat /\ Len(q) >= 1 /\ \A i \in 1..Len(q) : q[i] \in Plan
  BY PlanQueues, EmptySeq
<1>2. Head(q) = q[1] /\ 1 \in 1..Len(q) BY <1>1
<1>3. Tail(q) \in Seq(Plan) /\ Len(Tail(q)) = Len(q) - 1
      /\ \A i \in 1..(Len(q) - 1) : Tail(q)[i] = q[i + 1]
  BY <1>1, HeadTailProperties
<1>4. \A i \in 1..Len(Tail(q)) : i + 1 \in 1..Len(q) /\ Tail(q)[i] = q[i + 1] /\ 1 <= i + 1
  BY <1>1, <1>3
<1>5. \A i, j \in 1..Len(Tail(q)) : i <= j => i + 1 <= j + 1 BY <1>1, <1>3
<1> QED BY <1>1, <1>2, <1>3, <1>4, <1>5 DEF InOrder

\* A queue that starts over is in order.
LEMMA OrderFresh ==
    ASSUME NEW k \in Plan, NEW cur \in Plan, UpTo(k, cur)
    PROVE  InOrder(k, <<>>, cur) /\ InOrder(k, <<cur>>, cur)
<1>1. cur.version \in Nat /\ k.version \in Nat BY DEF Plan
<1>2. Len(<<cur>>) = 1 /\ \A i \in 1..1 : <<cur>>[i] = cur OBVIOUS
<1>3. UpTo(cur, cur) BY <1>1 DEF UpTo
<1>4. k.version <= cur.version BY DEF UpTo
<1>5. InOrder(k, <<cur>>, cur) BY <1>1, <1>2, <1>3, <1>4 DEF InOrder
<1>6. InOrder(k, <<>>, cur) BY DEF InOrder
<1> QED BY <1>5, <1>6

\* A new plan can be put at the end of every queue.
LEMMA OrderPublished ==
    ASSUME NEW k \in Plan, NEW q \in Seq(Plan), NEW cur \in Plan, InOrder(k, q, cur),
           NEW p \in Plan, cur.version < p.version
    PROVE  InOrder(k, q, p) /\ Append(q, p) \in Seq(Plan) /\ InOrder(k, Append(q, p), p)
<1>1. cur.version \in Nat /\ p.version \in Nat /\ \A x \in Plan : x.version \in Nat BY DEF Plan
<1>2. Len(q) \in Nat /\ \A i \in 1..Len(q) : q[i] \in Plan BY PlanQueues
<1>3. \A x \in Plan : UpTo(x, cur) => x.version < p.version /\ UpTo(x, p) BY <1>1 DEF UpTo
<1>4. UpTo(k, p) /\ \A i \in 1..Len(q) : UpTo(q[i], p) /\ q[i].version < p.version
  BY <1>2, <1>3 DEF InOrder
<1>5. InOrder(k, q, p) BY <1>4 DEF InOrder
<1>6. PICK a : a = Append(q, p) OBVIOUS
<1>7. a \in Seq(Plan) /\ Len(a) = Len(q) + 1 /\ a[Len(q) + 1] = p
      /\ \A i \in 1..Len(q) : a[i] = q[i]
  BY <1>6, AppendProperties
<1>8. \A i \in 1..Len(a) : i \in 1..Len(q) \/ i = Len(q) + 1 BY <1>2, <1>7
<1>9. UpTo(p, p) /\ k.version <= p.version BY <1>1, <1>4 DEF UpTo
<1>10. \A i \in 1..Len(a) : UpTo(a[i], p) /\ k.version <= a[i].version
  BY <1>4, <1>5, <1>7, <1>8, <1>9 DEF InOrder
<1>11. ASSUME NEW i \in 1..Len(a), NEW j \in 1..Len(a), i <= j PROVE a[i].version <= a[j].version
  <2>1. CASE j = Len(q) + 1 BY <1>7, <1>10, <2>1 DEF UpTo
  <2>2. CASE j # Len(q) + 1
    <3>1. i \in 1..Len(q) /\ j \in 1..Len(q) BY <1>2, <1>7, <1>11, <2>2
    <3> QED BY <1>5, <1>7, <1>11, <3>1 DEF InOrder
  <2> QED BY <2>1, <2>2
<1>12. InOrder(k, a, p) BY <1>4, <1>10, <1>11 DEF InOrder
<1> QED BY <1>5, <1>6, <1>7, <1>12

\* What leaves Reboot, the servers and their clients alone.
LEMMA ServersStay ==
    ASSUME ServersOK, NoneLeftOver, EnvoyOK,
           UNCHANGED <<configs, current, launched, managed, making, routes, routeMap, ports,
                       startFailures>>
    PROVE  ServersOK' /\ NoneLeftOver' /\ EnvoyOK'
<1>1. ServersOK' /\ NoneLeftOver' BY DEF ServersOK, Serves, NoneLeftOver, Exist, Planned
<1>2. EnvoyOK' BY DEF EnvoyOK, DictOK, SpecsOK, Planned, MapOK, Mapped, Claimants
<1> QED BY <1>1, <1>2

\* Starting no server leaves the dictionary alone.
LEMMA DictStays ==
    ASSUME EnvoyOK, UNCHANGED <<launched, ports>>
    PROVE  DictOK'
BY DEF EnvoyOK, DictOK

\* Starting a queue over keeps the clients in order.
LEMMA ClientsStay ==
    ASSUME PlacementTyped, ClientsOK, current' = current, known' = known,
           \A c \in PlanClient : planQueue'[c] \in {planQueue[c], <<>>, <<current>>}
    PROVE  ClientsOK'
<1>1. ASSUME NEW c \in PlanClient PROVE InOrder(known[c], planQueue'[c], current)
  <2>1. InOrder(known[c], planQueue[c], current) BY DEF ClientsOK
  <2>2. UpTo(known[c], current) BY <2>1 DEF InOrder
  <2>3. known[c] \in Plan /\ current \in Plan BY DEF PlacementTyped
  <2>4. InOrder(known[c], <<>>, current) /\ InOrder(known[c], <<current>>, current)
    BY <2>2, <2>3, OrderFresh
  <2> QED BY <2>1, <2>4
<1> QED BY <1>1 DEF ClientsOK

\* What starting one queue over does to the queues.
LEMMA QueueReset ==
    ASSUME PlacementTyped, NEW c \in PlanClient, NEW q \in {<<>>, <<current>>},
           planQueue' = [planQueue EXCEPT ![c] = q]
    PROVE  /\ planQueue' \in [PlanClient -> Seq(Plan)]
           /\ \A d \in PlanClient : planQueue'[d] \in {planQueue[d], <<>>, <<current>>}
<1>1. planQueue \in [PlanClient -> Seq(Plan)] /\ current \in Plan BY DEF PlacementTyped
<1>2. <<>> \in Seq(Plan) /\ <<current>> \in Seq(Plan) BY <1>1
<1> QED BY <1>1, <1>2

-----------------------------------------------------------------------------
(* The steps of the placement clients.                                     *)

\* A client that handles a plan keeps the invariant and gets a later plan.
LEMMA handle_planStep ==
    ASSUME PlacementInv, NEW c \in PlanClient, handle_plan(c)
    PROVE  PlacementInv' /\ known[c].version <= known'[c].version
<1>1. PlacementTyped /\ ClientsOK /\ VersionsOK /\ ServersOK /\ NoneLeftOver /\ EnvoyOK
  BY DEF PlacementInv
<1>2. /\ UNCHANGED <<configs, plans, current, launched, managed, making, routes, routeMap, listening,
                     ports, startFailures>>
      /\ planQueue[c] # <<>> /\ known' = [known EXCEPT ![c] = Head(planQueue[c])]
      /\ planQueue' = [planQueue EXCEPT ![c] = Tail(@)]
      /\ changeWaiter' = IF changeWaiter[c] = "listen" THEN [changeWaiter EXCEPT ![c] = "check"]
                         ELSE changeWaiter
  BY DEF handle_plan
<1>3. /\ known \in [PlanClient -> Plan] /\ planQueue \in [PlanClient -> Seq(Plan)]
      /\ current \in Plan /\ changeWaiter \in [PlanClient -> {"none", "check", "created", "listen"}]
  BY <1>1 DEF PlacementTyped
<1>4. /\ Head(planQueue[c]) \in Plan /\ Tail(planQueue[c]) \in Seq(Plan)
      /\ InOrder(Head(planQueue[c]), Tail(planQueue[c]), current)
      /\ known[c].version <= Head(planQueue[c]).version
  <2>1. InOrder(known[c], planQueue[c], current) BY <1>1 DEF ClientsOK
  <2>2. known[c] \in Plan /\ planQueue[c] \in Seq(Plan) BY <1>3
  <2> QED BY <1>2, <1>3, <2>1, <2>2, OrderHandled
<1>5. known' \in [PlanClient -> Plan] /\ known'[c] = Head(planQueue[c]) BY <1>2, <1>3, <1>4
<1>6. planQueue' \in [PlanClient -> Seq(Plan)] /\ planQueue'[c] = Tail(planQueue[c])
  BY <1>2, <1>3, <1>4
<1>7. changeWaiter' \in [PlanClient -> {"none", "check", "created", "listen"}]
      /\ \A d \in PlanClient : changeWaiter'[d] = "none" <=> changeWaiter[d] = "none"
  BY <1>2, <1>3
<1>8. PlacementTyped' BY <1>1, <1>2, <1>5, <1>6, <1>7 DEF PlacementTyped
<1>9. ClientsOK'
  <2>1. ASSUME NEW d \in PlanClient PROVE InOrder(known'[d], planQueue'[d], current)
    <3>1. CASE d = c BY <1>4, <1>5, <1>6, <3>1
    <3>2. CASE d # c
      <4>1. known'[d] = known[d] /\ planQueue'[d] = planQueue[d] BY <1>2, <1>3, <3>2
      <4> QED BY <1>1, <4>1 DEF ClientsOK
    <3> QED BY <3>1, <3>2
  <2> QED BY <1>2, <2>1 DEF ClientsOK
<1>10. VersionsOK'
  <2>1. changeWaiter[Local] = "none" => known'[Local] = current
    <3> SUFFICES ASSUME changeWaiter[Local] = "none" PROVE known'[Local] = current OBVIOUS
    <3>1. known[Local] = current BY <1>1 DEF VersionsOK
    <3>2. CASE c = Local
      <4>1. UpTo(Head(planQueue[c]), current) BY <1>4 DEF InOrder
      <4>2. current.version \in Nat /\ Head(planQueue[c]).version \in Nat BY <1>3, <1>4 DEF Plan
      <4> QED BY <1>4, <1>5, <3>1, <3>2, <4>1, <4>2 DEF UpTo
    <3>3. CASE c # Local BY <1>2, <1>3, <3>1, <3>3, Clients
    <3> QED BY <3>2, <3>3
  <2> QED BY <1>1, <1>2, <1>7, <2>1, Clients DEF VersionsOK
<1>11. ServersOK' /\ NoneLeftOver' /\ EnvoyOK' BY <1>1, <1>2, ServersStay
<1> QED BY <1>4, <1>5, <1>8, <1>9, <1>10, <1>11 DEF PlacementInv

\* A stream of plans that breaks or starts over keeps the invariant.
LEMMA StreamStep ==
    ASSUME PlacementInv, NEW c \in PlanClient, StreamBreaks(c) \/ control_loop(c)
    PROVE  PlacementInv' /\ known' = known
<1>1. PlacementTyped /\ ClientsOK /\ VersionsOK /\ ServersOK /\ NoneLeftOver /\ EnvoyOK
  BY DEF PlacementInv
<1>2. /\ UNCHANGED <<configs, plans, current, launched, managed, making, routes, routeMap, known,
                     changeWaiter, ports, startFailures>>
      /\ \E b \in BOOLEAN : listening' = [listening EXCEPT ![c] = b]
      /\ \E q \in {<<>>, <<current>>} : planQueue' = [planQueue EXCEPT ![c] = q]
  BY DEF StreamBreaks, control_loop
<1>3. /\ planQueue' \in [PlanClient -> Seq(Plan)]
      /\ \A d \in PlanClient : planQueue'[d] \in {planQueue[d], <<>>, <<current>>}
  BY <1>1, <1>2, QueueReset
<1>4. listening' \in [PlanClient -> BOOLEAN] BY <1>1, <1>2 DEF PlacementTyped
<1>5. PlacementTyped' BY <1>1, <1>2, <1>3, <1>4 DEF PlacementTyped
<1>6. ClientsOK' BY <1>1, <1>2, <1>3, ClientsStay
<1>7. VersionsOK' BY <1>1, <1>2 DEF VersionsOK
<1>8. ServersOK' /\ NoneLeftOver' /\ EnvoyOK' BY <1>1, <1>2, ServersStay
<1> QED BY <1>2, <1>5, <1>6, <1>7, <1>8 DEF PlacementInv

\* Waiting for a plan keeps the invariant.
LEMMA WaiterStep ==
    ASSUME PlacementInv, NEW c \in PlanClient, wait_for_change(c) \/ Listens(c)
    PROVE  PlacementInv' /\ known' = known
<1>1. PlacementTyped /\ ClientsOK /\ VersionsOK /\ ServersOK /\ NoneLeftOver /\ EnvoyOK
  BY DEF PlacementInv
<1>2. /\ UNCHANGED <<configs, plans, current, launched, managed, making, routes, routeMap, listening,
                     planQueue, known, ports, startFailures>>
      /\ changeWaiter[c] # "none"
      /\ \E w \in {"none", "created", "listen"} :
            /\ changeWaiter' = [changeWaiter EXCEPT ![c] = w]
            /\ w = "none" => PlanAwaited(c)
  <2>1. CASE wait_for_change(c)
    <3>1. CASE PlanAwaited(c) BY <2>1, <3>1 DEF wait_for_change
    <3>2. CASE ~PlanAwaited(c) BY <2>1, <3>2 DEF wait_for_change
    <3> QED BY <3>1, <3>2
  <2>2. CASE Listens(c) BY <2>2 DEF Listens
  <2> QED BY <2>1, <2>2
<1>3. PICK w \in {"none", "created", "listen"} :
        changeWaiter' = [changeWaiter EXCEPT ![c] = w] /\ (w = "none" => PlanAwaited(c))
  BY <1>2
<1>4. changeWaiter \in [PlanClient -> {"none", "check", "created", "listen"}]
  BY <1>1 DEF PlacementTyped
<1>5. PlacementTyped'
  <2>1. changeWaiter' \in [PlanClient -> {"none", "check", "created", "listen"}] BY <1>3, <1>4
  <2> QED BY <1>1, <1>2, <2>1 DEF PlacementTyped
<1>6. ClientsOK' BY <1>1, <1>2 DEF ClientsOK
<1>7. VersionsOK'
  <2>1. changeWaiter[Local] = "none" => changeWaiter'[Local] = "none"
    BY <1>2, <1>3, <1>4, Clients
  <2>2. ASSUME changeWaiter'[Local] = "none" PROVE known[Local] = current
    <3>1. CASE c # Local BY <1>1, <1>3, <1>4, <2>2, <3>1, Clients DEF VersionsOK
    <3>2. CASE c = Local
      <4>1. w = "none" BY <1>3, <1>4, <2>2, <3>2
      <4>2. known[c].version >= current.version BY <1>3, <3>2, <4>1 DEF PlanAwaited
      <4>3. UpTo(known[c], current) BY <1>1 DEF ClientsOK, InOrder
      <4>4. known[c] \in Plan /\ current \in Plan BY <1>1 DEF PlacementTyped
      <4>5. known[c].version \in Nat /\ current.version \in Nat BY <4>4 DEF Plan
      <4> QED BY <3>2, <4>2, <4>3, <4>5 DEF UpTo
    <3> QED BY <3>1, <3>2
  <2> QED BY <1>1, <1>2, <2>1, <2>2 DEF VersionsOK
<1>8. ServersOK' /\ NoneLeftOver' /\ EnvoyOK' BY <1>1, <1>2, ServersStay
<1> QED BY <1>2, <1>5, <1>6, <1>7, <1>8 DEF PlacementInv

-----------------------------------------------------------------------------
(* The commands.                                                           *)

\* A plan for n servers is begun.
LEMMA PlanBegun ==
    ASSUME PlacementInv, changeWaiter[Local] = "none", NEW n \in Counts \cup {0}, configs' = n,
           make_plan(n), routes' \in [Replica -> Nat],
           UNCHANGED <<current, launched, managed, listening, planQueue, known, changeWaiter,
                       ports, startFailures>>,
           startFailures = 0 =>
              Exist = managed /\ \A s \in Exist \cap Planned(n) : launched[s].n = n
    PROVE  PlacementInv'
<1>1. PlacementTyped /\ ClientsOK /\ VersionsOK /\ ServersOK /\ NoneLeftOver /\ EnvoyOK
  BY DEF PlacementInv
<1>2. plans \in Nat /\ plans' = plans + 1 /\ n \in Nat
  BY <1>1, PlacementAssumption DEF PlacementTyped, make_plan
<1>3. Planned(n) \in SUBSET Replica BY DEF Planned
<1>4. PICK p \in Plan : p = [NoPlan EXCEPT !.version = plans + 1, !.n = n]
                        /\ p.version = plans' /\ p.n = n
  <2>1. PICK p : p = [NoPlan EXCEPT !.version = plans + 1, !.n = n] OBVIOUS
  <2>2. PICK a \in [Replica -> Nat] : a = [s \in Replica |-> 0] OBVIOUS
  <2>3. NoPlan = [version |-> 0, n |-> 0, address |-> a] BY <2>2 DEF NoPlan
  <2>4. p = [version |-> plans + 1, n |-> n, address |-> a] BY <2>1, <2>3
  <2>5. p \in Plan /\ p.version = plans + 1 /\ p.n = n BY <1>2, <2>4 DEF Plan
  <2> QED BY <1>2, <2>1, <2>5
<1>5. making' = [pc |-> "servers", plan |-> p, todo |-> Planned(n), failed |-> FALSE]
  BY <1>4 DEF make_plan
<1>6. /\ making' \in Making /\ making'.pc = "servers" /\ making'.plan = p
      /\ making'.todo = Planned(n) /\ ~making'.failed
  BY <1>3, <1>5 DEF Making
<1>7. PlacementTyped' BY <1>1, <1>2, <1>6 DEF PlacementTyped
<1>8. ClientsOK' BY <1>1 DEF ClientsOK
<1>9. VersionsOK'
  <2>1. current \in Plan BY <1>1 DEF PlacementTyped
  <2>2. current.version \in Nat BY <2>1 DEF Plan
  <2>3. current.version < plans' /\ 1 <= current.version BY <1>1, <1>2, <2>2 DEF VersionsOK
  <2>4. known[Local] = current BY <1>1 DEF VersionsOK
  <2> QED BY <1>2, <1>4, <1>6, <2>2, <2>3, <2>4 DEF VersionsOK
<1>10. Planned(configs)' = Planned(n) BY DEF Planned
<1>11. ServersOK' BY <1>6, <1>10 DEF ServersOK
<1>12. NoneLeftOver' BY <1>6, <1>10 DEF NoneLeftOver, Exist
<1>13. EnvoyOK'
  <2>1. DictOK' BY <1>1, DictStays
  <2>2. SpecsOK' BY <1>6, <1>10 DEF SpecsOK
  <2>3. MapOK' BY <1>6 DEF MapOK
  <2> QED BY <2>1, <2>2, <2>3 DEF EnvoyOK
<1> QED BY <1>7, <1>8, <1>9, <1>11, <1>12, <1>13 DEF PlacementInv

\* The commands up and down keep the invariant.
LEMMA CommandStep ==
    ASSUME PlacementInv, (\E n \in Counts : up(n)) \/ down
    PROVE  PlacementInv' /\ known' = known
<1>1. PlacementTyped /\ ServersOK /\ NoneLeftOver BY DEF PlacementInv
<1>2. PICK n \in Counts \cup {0} :
        /\ making.pc = "idle" /\ changeWaiter[Local] = "none" /\ configs' = n /\ make_plan(n)
        /\ n # 0 => configs = 0
        /\ UNCHANGED <<current, launched, managed, routes, routeMap, listening, planQueue, known,
                       changeWaiter, ports, startFailures>>
  <2>1. ASSUME NEW n \in Counts, up(n)
        PROVE  /\ making.pc = "idle" /\ changeWaiter[Local] = "none" /\ configs' = n /\ make_plan(n)
               /\ configs = 0
               /\ UNCHANGED <<current, launched, managed, routes, routeMap, listening, planQueue, known,
                              changeWaiter, ports, startFailures>>
    BY <2>1 DEF up, Quiet
  <2>2. ASSUME down
        PROVE  /\ making.pc = "idle" /\ changeWaiter[Local] = "none" /\ configs' = 0 /\ make_plan(0)
               /\ UNCHANGED <<current, launched, managed, routes, routeMap, listening, planQueue, known,
                              changeWaiter, ports, startFailures>>
    BY <2>2 DEF down, Quiet
  <2>3. CASE \E n \in Counts : up(n)
    <3>1. PICK n \in Counts : up(n) BY <2>3
    <3> QED BY <2>1, <3>1
  <2>4. CASE down BY <2>2, <2>4
  <2> QED BY <2>3, <2>4
<1>3. \A s \in Replica : ~(s < 0) BY Clients
<1>4. Planned(0) = {} BY <1>3 DEF Planned
<1>5. startFailures = 0 => Exist = managed /\ \A s \in Exist \cap Planned(n) : launched[s].n = n
  <2> SUFFICES ASSUME startFailures = 0
               PROVE  Exist = managed /\ \A s \in Exist \cap Planned(n) : launched[s].n = n
    OBVIOUS
  <2>1. Exist = managed /\ managed = Planned(configs) /\ ~making.failed
    BY <1>1, <1>2 DEF NoneLeftOver
  <2>2. CASE n = 0 BY <1>4, <2>1, <2>2
  <2>3. CASE n # 0
    <3>1. Exist = {} BY <1>2, <1>4, <2>1, <2>3
    <3> QED BY <2>1, <3>1
  <2> QED BY <2>2, <2>3
<1>6. routes' \in [Replica -> Nat] BY <1>1, <1>2 DEF PlacementTyped
<1> QED BY <1>2, <1>5, <1>6, PlanBegun

\* Stopping one server keeps the invariant.
LEMMA server_stopStep ==
    ASSUME PlacementInv, NEW s \in Replica, server_stop(s)
    PROVE  PlacementInv' /\ known' = known
<1>1. PlacementTyped /\ ClientsOK /\ VersionsOK /\ ServersOK /\ NoneLeftOver /\ EnvoyOK
  BY DEF PlacementInv
<1>2. /\ making.pc = "idle" /\ launched[s].state = "running"
      /\ launched' = [launched EXCEPT ![s].state = "stopped"]
      /\ listening' = [listening EXCEPT ![s] = FALSE]
      /\ planQueue' = [planQueue EXCEPT ![s] = <<>>]
      /\ changeWaiter' = [changeWaiter EXCEPT ![s] = "none"]
      /\ UNCHANGED <<configs, plans, current, managed, making, routes, routeMap, known, ports, startFailures>>
  BY DEF server_stop, Quiet
<1>3. s \in PlanClient /\ s # Local BY Clients
<1>4. /\ launched \in [Replica -> Launch] /\ listening \in [PlanClient -> BOOLEAN]
      /\ changeWaiter \in [PlanClient -> {"none", "check", "created", "listen"}]
  BY <1>1 DEF PlacementTyped
<1>5. /\ launched' \in [Replica -> Launch]
      /\ \A t \in Replica : /\ launched'[t].state # "none" <=> launched[t].state # "none"
                            /\ launched'[t].port = launched[t].port
                            /\ launched'[t].n = launched[t].n
                            /\ launched'[t].at = launched[t].at
  <2>1. launched[s] \in Launch BY <1>4
  <2>2. PICK l \in Launch : l = [launched[s] EXCEPT !.state = "stopped"]
                            /\ l.state = "stopped" /\ l.port = launched[s].port
                            /\ l.n = launched[s].n /\ l.at = launched[s].at
    <3>1. PICK x \in Launch : x = launched[s] BY <2>1
    <3>2. PICK l : l = [x EXCEPT !.state = "stopped"] OBVIOUS
    <3>3. l \in Launch /\ l.state = "stopped" /\ l.port = x.port /\ l.n = x.n /\ l.at = x.at
      BY <3>2 DEF Launch
    <3> QED BY <3>1, <3>2, <3>3
  <2>3. launched' = [launched EXCEPT ![s] = l] BY <1>2, <2>2
  <2>4. launched'[s] = l /\ \A t \in Replica : t # s => launched'[t] = launched[t] BY <1>4, <2>3
  <2>5. launched' \in [Replica -> Launch] BY <1>4, <2>3
  <2> QED BY <1>2, <2>2, <2>4, <2>5
<1>6. /\ planQueue' \in [PlanClient -> Seq(Plan)]
      /\ \A d \in PlanClient : planQueue'[d] \in {planQueue[d], <<>>, <<current>>}
  BY <1>1, <1>2, <1>3, QueueReset
<1>7. changeWaiter' \in [PlanClient -> {"none", "check", "created", "listen"}]
      /\ changeWaiter'[Local] = changeWaiter[Local]
  BY <1>2, <1>3, <1>4, Clients
<1>8. listening' \in [PlanClient -> BOOLEAN] BY <1>2, <1>4
<1>9. PlacementTyped' BY <1>1, <1>2, <1>5, <1>6, <1>7, <1>8 DEF PlacementTyped
<1>10. ClientsOK' BY <1>1, <1>2, <1>6, ClientsStay
<1>11. VersionsOK' BY <1>1, <1>2, <1>7 DEF VersionsOK
<1>12. Exist' = Exist BY <1>5 DEF Exist
<1>13. ServersOK' BY <1>1, <1>2, <1>5 DEF ServersOK, Serves, Planned
<1>14. NoneLeftOver' BY <1>1, <1>2, <1>5, <1>12 DEF NoneLeftOver, Planned
<1>15. EnvoyOK'
  <2>1. DictOK' BY <1>1, <1>2, <1>5 DEF EnvoyOK, DictOK
  <2>2. SpecsOK' BY <1>1, <1>2, <1>5 DEF EnvoyOK, SpecsOK, Planned
  <2>3. \A i : Claimants(i)' = Claimants(i) BY <1>5 DEF Claimants
  <2>4. \A i : Claimants(i) \subseteq Replica BY DEF Claimants
  <2>5. ASSUME Mapped PROVE Mapped'
    <3>1. DOMAIN routeMap' = Shard BY <1>2, <2>5 DEF Mapped
    <3>2. ASSUME NEW i \in Shard
          PROVE  /\ routeMap'[i] \in Claimants(i)'
                 /\ \A t \in Claimants(i)' : launched'[t].at <= launched'[routeMap'[i]].at
      <4>1. routeMap[i] \in Claimants(i)
            /\ \A t \in Claimants(i) : launched[t].at <= launched[routeMap[i]].at
        BY <2>5 DEF Mapped
      <4> QED BY <1>2, <1>5, <2>3, <2>4, <4>1
    <3> QED BY <3>1, <3>2 DEF Mapped
  <2>6. MapOK' BY <1>1, <1>2, <2>5 DEF EnvoyOK, MapOK
  <2> QED BY <2>1, <2>2, <2>6 DEF EnvoyOK
<1> QED BY <1>2, <1>9, <1>10, <1>11, <1>13, <1>14, <1>15 DEF PlacementInv

\* Starting one server again keeps the invariant.
LEMMA server_startStep ==
    ASSUME PlacementInv, NEW s \in Replica, server_start(s)
    PROVE  PlacementInv' /\ known' = known
<1>1. PlacementTyped /\ ClientsOK /\ VersionsOK /\ ServersOK /\ NoneLeftOver /\ EnvoyOK
  BY DEF PlacementInv
<1>2. /\ making.pc = "idle" /\ changeWaiter[Local] = "none" /\ launched[s].state = "stopped"
      /\ making' = [AtRest EXCEPT !.pc = "restart", !.todo = {s}, !.plan.n = launched[s].n]
      /\ UNCHANGED <<configs, plans, current, launched, managed, routes, routeMap, listening, planQueue,
                     known, changeWaiter, ports, startFailures>>
  BY DEF server_start, Quiet
<1>3. launched[s] \in Launch BY <1>1 DEF PlacementTyped
<1>4. launched[s].n \in Nat BY <1>3 DEF Launch
<1>5. /\ making' \in Making /\ making'.pc = "restart" /\ making'.plan.n = launched[s].n
      /\ ~making'.failed /\ making'.todo = {s}
  BY <1>2, <1>4 DEF AtRest, Making, NoPlan, Plan
<1>6. PlacementTyped' BY <1>1, <1>2, <1>5 DEF PlacementTyped
<1>7. ClientsOK' BY <1>1, <1>2 DEF ClientsOK
<1>8. VersionsOK' BY <1>1, <1>2, <1>5 DEF VersionsOK
<1>9. ServersOK' BY <1>5 DEF ServersOK
<1>10. NoneLeftOver'
  <2>1. s \in Exist BY <1>2 DEF Exist
  <2>2. Exist' = Exist /\ Planned(configs)' = Planned(configs) BY <1>2 DEF Exist, Planned
  <2> QED BY <1>1, <1>2, <1>5, <2>1, <2>2 DEF NoneLeftOver
<1>11. EnvoyOK'
  <2>1. DictOK' BY <1>1, <1>2, DictStays
  <2>2. SpecsOK' /\ MapOK' BY <1>5 DEF SpecsOK, MapOK
  <2> QED BY <2>1, <2>2 DEF EnvoyOK
<1> QED BY <1>2, <1>6, <1>7, <1>8, <1>9, <1>10, <1>11 DEF PlacementInv

-----------------------------------------------------------------------------
(* The server manager.                                                     *)

\* The type of a plan in the making.
LEMMA MakingIs ==
    ASSUME PlacementTyped
    PROVE  /\ making.pc \in {"idle", "servers", "delete", "publish", "restart"}
           /\ making.plan \in Plan /\ making.plan.address \in [Replica -> Nat]
           /\ making.todo \in SUBSET Replica /\ making.failed \in BOOLEAN
BY DEF PlacementTyped, Making, Plan

\* Setting a server keeps the invariant.
LEMMA set_serverStep ==
    ASSUME PlacementInv, NEW s \in Replica, set_server(s)
    PROVE  PlacementInv' /\ known' = known
<1>1. PlacementTyped /\ ClientsOK /\ VersionsOK /\ ServersOK /\ NoneLeftOver /\ EnvoyOK
  BY DEF PlacementInv
<1>2. /\ making.pc = "servers" /\ s \in making.todo /\ launched[s].state # "none"
      /\ making' = [making EXCEPT !.todo = @ \ {s}, !.plan.address[s] = launched[s].port,
                                  !.failed = @ \/ launched[s].n # making.plan.n]
      /\ UNCHANGED <<configs, plans, current, launched, managed, routes, routeMap, listening, planQueue,
                     known, changeWaiter, ports, startFailures>>
  BY DEF set_server
<1>3. launched[s] \in Launch BY <1>1 DEF PlacementTyped
<1>4. launched[s].port \in Nat BY <1>3 DEF Launch
<1>5. /\ making \in Making /\ making.plan \in Plan /\ making.plan.address \in [Replica -> Nat]
  BY <1>1, MakingIs DEF PlacementTyped
<1>6. PICK f : f = (making.failed \/ launched[s].n # making.plan.n) /\ f \in BOOLEAN OBVIOUS
<1>7. PICK a \in [Replica -> Nat] : a = [making.plan.address EXCEPT ![s] = launched[s].port]
                                    /\ a[s] = launched[s].port
                                    /\ \A t \in Replica : t # s => a[t] = making.plan.address[t]
  <2>1. PICK b \in [Replica -> Nat] : b = making.plan.address BY <1>5
  <2>2. PICK a : a = [b EXCEPT ![s] = launched[s].port] OBVIOUS
  <2>3. a \in [Replica -> Nat] /\ a[s] = launched[s].port /\ \A t \in Replica : t # s => a[t] = b[t]
    BY <1>4, <2>2
  <2> QED BY <2>1, <2>2, <2>3
<1>8. making' = [making EXCEPT !.todo = making.todo \ {s},
                               !.plan = [making.plan EXCEPT !.address = a], !.failed = f]
  BY <1>2, <1>5, <1>6, <1>7 DEF Making, Plan
<1>9. /\ making' \in Making /\ making'.pc = "servers" /\ making'.todo = making.todo \ {s}
      /\ making'.plan.version = making.plan.version /\ making'.plan.n = making.plan.n
      /\ making'.plan.address = a /\ making'.failed = f
  <2>1. PICK p : p = [making.plan EXCEPT !.address = a] OBVIOUS
  <2>2. p \in Plan /\ p.version = making.plan.version /\ p.n = making.plan.n /\ p.address = a
    BY <1>5, <2>1 DEF Plan
  <2>3. PICK todo \in SUBSET Replica : todo = making.todo \ {s} BY <1>1, MakingIs
  <2>4. PICK m : m = [making EXCEPT !.todo = todo, !.plan = p, !.failed = f] OBVIOUS
  <2>5. m \in Making /\ m.pc = making.pc /\ m.plan = p /\ m.todo = todo /\ m.failed = f
    BY <1>5, <1>6, <2>2, <2>4 DEF Making
  <2> QED BY <1>2, <1>8, <2>1, <2>2, <2>3, <2>4, <2>5
<1>10. PlacementTyped' BY <1>1, <1>2, <1>9 DEF PlacementTyped
<1>11. ClientsOK' BY <1>1, <1>2 DEF ClientsOK
<1>12. VersionsOK' BY <1>1, <1>2, <1>9 DEF VersionsOK
<1>13. Planned(configs)' = Planned(configs) /\ Exist' = Exist
       /\ \A t \in Planned(configs) : t \in Replica
  BY <1>2 DEF Planned, Exist
<1>14. ServersOK'
  <2>1. making'.todo \subseteq Planned(configs) BY <1>1, <1>2, <1>9 DEF ServersOK
  <2>2. ASSUME ~making'.failed, NEW t \in Planned(configs) \ making'.todo
        PROVE  launched[t].state # "none" /\ launched[t].port = a[t]
    <3>1. ~making.failed BY <1>6, <1>9, <2>2
    <3>2. CASE t = s BY <1>2, <1>7, <3>2
    <3>3. CASE t # s
      <4>1. t \in Planned(configs) \ making.todo /\ t \in Replica BY <1>9, <1>13, <2>2, <3>3
      <4> QED BY <1>1, <1>2, <1>7, <3>1, <3>3, <4>1 DEF ServersOK, Serves
    <3> QED BY <3>2, <3>3
  <2> QED BY <1>2, <1>9, <1>13, <2>1, <2>2 DEF ServersOK, Serves
<1>15. NoneLeftOver'
  <2>1. ASSUME startFailures = 0 PROVE ~making'.failed
    <3>1. s \in Exist \cap Planned(configs) BY <1>1, <1>2 DEF Exist, ServersOK
    <3>2. ~making.failed /\ launched[s].n = configs BY <1>1, <2>1, <3>1 DEF NoneLeftOver
    <3>3. making.plan.n = configs BY <1>1, <1>2 DEF VersionsOK
    <3> QED BY <1>6, <1>9, <3>2, <3>3
  <2> QED BY <1>1, <1>2, <1>9, <1>13, <2>1 DEF NoneLeftOver
<1>16. EnvoyOK'
  <2>1. DictOK' BY <1>1, <1>2, DictStays
  <2>2. making.plan.n = configs BY <1>1, <1>2 DEF VersionsOK
  <2>3. ASSUME ~making'.failed, NEW t \in Planned(configs) \ making'.todo
        PROVE  launched[t].n = configs
    <3>1. ~making.failed /\ launched[s].n = configs BY <1>6, <1>9, <2>2, <2>3
    <3>2. CASE t = s BY <3>1, <3>2
    <3>3. CASE t # s
      <4>1. t \in Planned(configs) \ making.todo BY <1>9, <2>3, <3>3
      <4> QED BY <1>1, <1>2, <3>1, <4>1 DEF EnvoyOK, SpecsOK
    <3> QED BY <3>2, <3>3
  <2>4. SpecsOK' BY <1>2, <1>9, <1>13, <2>3 DEF SpecsOK
  <2>5. MapOK' BY <1>9 DEF MapOK
  <2> QED BY <2>1, <2>4, <2>5 DEF EnvoyOK
<1> QED BY <1>2, <1>10, <1>11, <1>12, <1>14, <1>15, <1>16 DEF PlacementInv

\* The placement client of a server that starts knows no plan; the others
\* are left alone.
LEMMA ClientStartsStep ==
    ASSUME PlacementInv, NEW s \in Replica, ClientStarts(s)
    PROVE  /\ PlacementInv' /\ known'[s] = NoPlan
           /\ \A c \in PlanClient : c # s => known'[c] = known[c]
<1>1. PlacementTyped /\ ClientsOK /\ VersionsOK /\ ServersOK /\ NoneLeftOver /\ EnvoyOK
  BY DEF PlacementInv
<1>2. /\ listening' = [listening EXCEPT ![s] = TRUE]
      /\ planQueue' = [planQueue EXCEPT ![s] = <<current>>]
      /\ known' = [known EXCEPT ![s] = NoPlan]
      /\ UNCHANGED <<configs, plans, current, launched, managed, making, routes, routeMap, changeWaiter,
                     ports, startFailures>>
  BY DEF ClientStarts
<1>3. s \in PlanClient /\ s # Local /\ Local \in PlanClient BY Clients
<1>4. /\ listening \in [PlanClient -> BOOLEAN] /\ known \in [PlanClient -> Plan]
      /\ planQueue \in [PlanClient -> Seq(Plan)] /\ current \in Plan
  BY <1>1 DEF PlacementTyped
<1>5. /\ known' \in [PlanClient -> Plan] /\ known'[s] = NoPlan
      /\ \A c \in PlanClient : c # s => known'[c] = known[c]
  BY <1>2, <1>3, <1>4, PlansAre
<1>6. planQueue' \in [PlanClient -> Seq(Plan)] BY <1>1, <1>2, <1>3, QueueReset
<1>7. listening' \in [PlanClient -> BOOLEAN] BY <1>2, <1>4
<1>8. PlacementTyped' BY <1>1, <1>2, <1>5, <1>6, <1>7 DEF PlacementTyped
<1>9. ClientsOK'
  <2>1. ASSUME NEW c \in PlanClient PROVE InOrder(known'[c], planQueue'[c], current)
    <3>1. CASE c = s
      <4>1. current.version \in Nat /\ 1 <= current.version BY <1>1, <1>4 DEF VersionsOK, Plan
      <4>2. UpTo(NoPlan, current) BY <4>1, PlansAre DEF UpTo
      <4>3. InOrder(NoPlan, <<current>>, current) BY <1>4, <4>2, PlansAre, OrderFresh
      <4>4. planQueue'[s] = <<current>> BY <1>2, <1>3, <1>4
      <4> QED BY <1>5, <3>1, <4>3, <4>4
    <3>2. CASE c # s
      <4>1. planQueue'[c] = planQueue[c] BY <1>2, <1>4, <3>2
      <4> QED BY <1>1, <1>5, <3>2, <4>1 DEF ClientsOK
    <3> QED BY <3>1, <3>2
  <2> QED BY <1>2, <2>1 DEF ClientsOK
<1>10. VersionsOK' BY <1>1, <1>2, <1>3, <1>5 DEF VersionsOK
<1>11. ServersOK' /\ NoneLeftOver' /\ EnvoyOK' BY <1>1, <1>2, ServersStay
<1> QED BY <1>5, <1>8, <1>9, <1>10, <1>11 DEF PlacementInv

\* A server that comes up keeps the invariant.
LEMMA start_serverStep ==
    ASSUME PlacementInv, NEW s \in Replica, start_server(s)
    PROVE  PlacementInv' /\ known' = known
<1>1. PlacementTyped /\ ClientsOK /\ VersionsOK /\ ServersOK /\ NoneLeftOver /\ EnvoyOK
  BY DEF PlacementInv
<1>2. /\ s \in making.todo /\ making.pc \in {"restart", "servers"}
      /\ launched' = [launched EXCEPT ![s] =
                         [state |-> "running", n |-> making.plan.n, port |-> ports + 1,
                          at |-> IF @.state = "none" THEN ports + 1 ELSE @.at]]
      /\ ports' = ports + 1
      /\ making' = [making EXCEPT !.todo = @ \ {s}, !.plan.address[s] = ports + 1]
      /\ changeWaiter' = [changeWaiter EXCEPT ![s] = "check"]
      /\ UNCHANGED <<configs, plans, current, managed, routes, routeMap, listening, planQueue, known,
                     startFailures>>
  BY DEF start_server, Starting
<1>3. s \in PlanClient /\ s # Local /\ Local \in PlanClient BY Clients
<1>4. /\ launched \in [Replica -> Launch] /\ ports \in Nat /\ making \in Making
      /\ changeWaiter \in [PlanClient -> {"none", "check", "created", "listen"}]
      /\ making.plan \in Plan /\ making.plan.address \in [Replica -> Nat] /\ making.plan.n \in Nat
  BY <1>1, MakingIs DEF PlacementTyped, Plan
<1>5. PICK port \in Nat : port = ports + 1 BY <1>4
<1>6. PICK a \in [Replica -> Nat] : a = [making.plan.address EXCEPT ![s] = port] /\ a[s] = port
                                    /\ \A t \in Replica : t # s => a[t] = making.plan.address[t]
  <2>1. PICK b \in [Replica -> Nat] : b = making.plan.address BY <1>4
  <2>2. PICK a : a = [b EXCEPT ![s] = port] OBVIOUS
  <2>3. a \in [Replica -> Nat] /\ a[s] = port /\ \A t \in Replica : t # s => a[t] = b[t] BY <2>2
  <2> QED BY <2>1, <2>2, <2>3
<1>7. making' = [making EXCEPT !.todo = making.todo \ {s},
                               !.plan = [making.plan EXCEPT !.address = a]]
  BY <1>2, <1>4, <1>5, <1>6 DEF Making, Plan
<1>8. /\ making' \in Making /\ making'.pc = making.pc /\ making'.todo = making.todo \ {s}
      /\ making'.plan.version = making.plan.version /\ making'.plan.n = making.plan.n
      /\ making'.plan.address = a /\ making'.failed = making.failed
  <2>1. PICK p : p = [making.plan EXCEPT !.address = a] OBVIOUS
  <2>2. p \in Plan /\ p.version = making.plan.version /\ p.n = making.plan.n /\ p.address = a
    BY <1>4, <2>1 DEF Plan
  <2>3. PICK todo \in SUBSET Replica : todo = making.todo \ {s} BY <1>1, MakingIs
  <2>4. PICK m : m = [making EXCEPT !.todo = todo, !.plan = p] OBVIOUS
  <2>5. m \in Making /\ m.pc = making.pc /\ m.plan = p /\ m.todo = todo
        /\ m.failed = making.failed
    BY <1>4, <2>2, <2>4 DEF Making
  <2> QED BY <1>7, <2>1, <2>2, <2>3, <2>4, <2>5
<1>8a. PICK at \in Nat : at = IF launched[s].state = "none" THEN port ELSE launched[s].at
  <2>1. launched[s] \in Launch BY <1>4
  <2>2. launched[s].at \in Nat BY <2>1 DEF Launch
  <2> QED BY <2>2
<1>9. PICK l \in Launch :
         /\ l = [state |-> "running", n |-> making.plan.n, port |-> port, at |-> at]
         /\ l.state = "running" /\ l.n = making.plan.n /\ l.port = port /\ l.at = at
  <2>1. PICK l : l = [state |-> "running", n |-> making.plan.n, port |-> port, at |-> at] OBVIOUS
  <2>2. l \in Launch /\ l.state = "running" /\ l.n = making.plan.n /\ l.port = port /\ l.at = at
    BY <1>4, <2>1 DEF Launch
  <2> QED BY <2>1, <2>2
<1>10. /\ launched' \in [Replica -> Launch] /\ launched'[s] = l
       /\ \A t \in Replica : t # s => launched'[t] = launched[t]
  <2>1. launched' = [launched EXCEPT ![s] = l] BY <1>2, <1>4, <1>5, <1>9, <1>8a
  <2> QED BY <1>4, <2>1
<1>11. changeWaiter' \in [PlanClient -> {"none", "check", "created", "listen"}]
       /\ changeWaiter'[Local] = changeWaiter[Local]
  BY <1>2, <1>3, <1>4
<1>12. PlacementTyped' BY <1>1, <1>2, <1>5, <1>8, <1>10, <1>11 DEF PlacementTyped
<1>13. ClientsOK' BY <1>1, <1>2 DEF ClientsOK
<1>14. VersionsOK' BY <1>1, <1>2, <1>8, <1>11 DEF VersionsOK
<1>15. Planned(configs)' = Planned(configs) /\ \A t \in Planned(configs) : t \in Replica
  BY <1>2 DEF Planned
<1>16. Exist' = Exist \cup {s} BY <1>9, <1>10 DEF Exist
<1>17. ServersOK'
  <2>1. ASSUME making.pc = "servers", ~making.failed, NEW t \in Planned(configs) \ making'.todo
        PROVE  launched'[t].state # "none" /\ launched'[t].port = a[t]
    <3>1. CASE t = s BY <1>6, <1>9, <1>10, <3>1
    <3>2. CASE t # s
      <4>1. t \in Planned(configs) \ making.todo /\ t \in Replica BY <1>8, <1>15, <2>1, <3>2
      <4> QED BY <1>1, <1>6, <1>10, <2>1, <3>2, <4>1 DEF ServersOK, Serves
    <3> QED BY <3>1, <3>2
  <2>2. making.pc = "servers" => making'.todo \subseteq Planned(configs)
    BY <1>1, <1>8 DEF ServersOK
  <2> QED BY <1>2, <1>8, <1>15, <2>1, <2>2 DEF ServersOK, Serves
<1>18. NoneLeftOver'
  <2> SUFFICES ASSUME startFailures = 0
               PROVE  /\ ~making.failed
                      /\ \A t \in Exist' \cap Planned(configs) : launched'[t].n = configs
                      /\ making.pc = "restart" =>
                            /\ Exist' = managed /\ managed = Planned(configs)
                            /\ making.plan.n = configs /\ making'.todo \subseteq Exist'
                      /\ making.pc = "servers" =>
                            managed \subseteq Exist' /\ Exist' \subseteq managed \cup Planned(configs)
    BY <1>2, <1>8, <1>15 DEF NoneLeftOver
  <2>1. making.plan.n = configs BY <1>1, <1>2 DEF VersionsOK, NoneLeftOver
  <2>2. ASSUME NEW t \in Exist' \cap Planned(configs) PROVE launched'[t].n = configs
    <3>1. CASE t = s BY <1>9, <1>10, <2>1, <3>1
    <3>2. CASE t # s
      <4>1. t \in Exist \cap Planned(configs) /\ t \in Replica BY <1>15, <1>16, <3>2
      <4> QED BY <1>1, <1>10, <3>2, <4>1 DEF NoneLeftOver
    <3> QED BY <3>1, <3>2
  <2>3. making.pc = "restart" => s \in Exist /\ making'.todo \subseteq Exist
    BY <1>1, <1>2, <1>8 DEF NoneLeftOver
  <2>4. making.pc = "servers" => s \in Planned(configs) BY <1>1, <1>2 DEF ServersOK
  <2> QED BY <1>1, <1>16, <2>1, <2>2, <2>3, <2>4 DEF NoneLeftOver
<1>19. EnvoyOK'
  <2>1. \A t \in Replica : launched[t].at \in Nat BY <1>4 DEF Launch
  <2>2. at <= port /\ \A t \in Replica : launched[t].at <= ports BY <1>1, <1>5, <1>8a, <1>4, <2>1
      DEF EnvoyOK, DictOK
  <2>3. ASSUME NEW t \in Replica, t # s, launched[t].state # "none" PROVE launched[t].at # at
    <3>1. CASE launched[s].state = "none"
      <4>1. at = ports + 1 BY <1>5, <1>8a, <3>1
      <4> QED BY <1>4, <2>1, <2>2, <4>1
    <3>2. CASE launched[s].state # "none"
      <4>1. at = launched[s].at BY <1>8a, <3>2
      <4> QED BY <1>1, <2>3, <3>2, <4>1 DEF EnvoyOK, DictOK
    <3> QED BY <3>1, <3>2
  <2>4. DictOK'
    <3>1. ASSUME NEW t \in Replica PROVE launched'[t].at <= ports'
      <4>1. CASE t = s BY <1>2, <1>5, <1>9, <1>10, <2>2, <4>1
      <4>2. CASE t # s BY <1>2, <1>4, <1>10, <2>1, <2>2, <4>2
      <4> QED BY <4>1, <4>2
    <3>2. ASSUME NEW t \in Replica, NEW u \in Replica, t # u,
                 launched'[t].state # "none", launched'[u].state # "none"
          PROVE  launched'[t].at # launched'[u].at
      <4>1. CASE t = s
        <5>1. launched'[u] = launched[u] /\ launched'[t].at = at BY <1>9, <1>10, <3>2, <4>1
        <5> QED BY <2>3, <3>2, <4>1, <5>1
      <4>2. CASE u = s
        <5>1. launched'[t] = launched[t] /\ launched'[u].at = at BY <1>9, <1>10, <3>2, <4>2
        <5> QED BY <2>3, <3>2, <4>2, <5>1
      <4>3. CASE t # s /\ u # s
        <5>1. launched'[t] = launched[t] /\ launched'[u] = launched[u] BY <1>10, <4>3
        <5> QED BY <1>1, <3>2, <5>1 DEF EnvoyOK, DictOK
      <4> QED BY <4>1, <4>2, <4>3
    <3> QED BY <3>1, <3>2 DEF DictOK
  <2>5. ASSUME making.pc = "servers", ~making.failed, NEW t \in Planned(configs) \ making'.todo
        PROVE  launched'[t].n = configs
    <3>1. CASE t = s BY <1>1, <1>9, <1>10, <2>5, <3>1 DEF VersionsOK
    <3>2. CASE t # s
      <4>1. t \in Planned(configs) \ making.todo /\ t \in Replica BY <1>8, <1>15, <2>5, <3>2
      <4> QED BY <1>1, <1>10, <2>5, <3>2, <4>1 DEF EnvoyOK, SpecsOK
    <3> QED BY <3>1, <3>2
  <2>6. SpecsOK' BY <1>2, <1>8, <1>15, <2>5 DEF SpecsOK
  <2>7. MapOK' BY <1>2, <1>8 DEF MapOK
  <2> QED BY <2>4, <2>6, <2>7 DEF EnvoyOK
<1> QED BY <1>2, <1>12, <1>13, <1>14, <1>17, <1>18, <1>19 DEF PlacementInv

\* A server that does not come up keeps the invariant.
LEMMA StartFailsStep ==
    ASSUME PlacementInv, NEW s \in Replica, StartFails(s)
    PROVE  PlacementInv' /\ known' = known
<1>1. PlacementTyped /\ ClientsOK /\ VersionsOK /\ ServersOK /\ EnvoyOK BY DEF PlacementInv
<1>2. /\ making.pc \in {"restart", "servers"} /\ startFailures' = startFailures + 1
      /\ making' = [making EXCEPT !.todo = @ \ {s}, !.failed = TRUE]
      /\ listening' = [listening EXCEPT ![s] = FALSE]
      /\ planQueue' = [planQueue EXCEPT ![s] = <<>>]
      /\ UNCHANGED <<configs, plans, current, launched, managed, routes, routeMap, known, changeWaiter,
                     ports>>
  BY DEF StartFails, Starting
<1>3. s \in PlanClient BY Clients
<1>4. /\ making' \in Making /\ making'.pc = making.pc /\ making'.todo = making.todo \ {s}
      /\ making'.plan = making.plan /\ making'.failed
  <2>1. making \in Making BY <1>1 DEF PlacementTyped
  <2>2. PICK todo \in SUBSET Replica : todo = making.todo \ {s} BY <1>1, MakingIs
  <2>3. making' = [making EXCEPT !.todo = todo, !.failed = TRUE] BY <1>2, <2>1, <2>2 DEF Making
  <2> QED BY <2>1, <2>2, <2>3 DEF Making
<1>5. /\ planQueue' \in [PlanClient -> Seq(Plan)]
      /\ \A d \in PlanClient : planQueue'[d] \in {planQueue[d], <<>>, <<current>>}
  BY <1>1, <1>2, <1>3, QueueReset
<1>6. listening' \in [PlanClient -> BOOLEAN] BY <1>1, <1>2 DEF PlacementTyped
<1>7. startFailures \in Nat BY <1>1 DEF PlacementTyped
<1>8. PlacementTyped' BY <1>1, <1>2, <1>4, <1>5, <1>6, <1>7 DEF PlacementTyped
<1>9. ClientsOK' BY <1>1, <1>2, <1>5, ClientsStay
<1>10. VersionsOK' BY <1>1, <1>2, <1>4 DEF VersionsOK
<1>11. ServersOK' BY <1>1, <1>2, <1>4 DEF ServersOK, Planned
<1>12. NoneLeftOver' BY <1>2, <1>7 DEF NoneLeftOver
<1>13. EnvoyOK'
  <2>1. DictOK' BY <1>1, <1>2, DictStays
  <2>2. SpecsOK' /\ MapOK' BY <1>2, <1>4 DEF SpecsOK, MapOK
  <2> QED BY <2>1, <2>2 DEF EnvoyOK
<1> QED BY <1>2, <1>8, <1>9, <1>10, <1>11, <1>12, <1>13 DEF PlacementInv

\* Going on once all the servers are set keeps the invariant.
LEMMA ServersSetStep ==
    ASSUME PlacementInv, ServersSet
    PROVE  PlacementInv' /\ known' = known
<1>1. PlacementTyped /\ ClientsOK /\ VersionsOK /\ ServersOK /\ NoneLeftOver /\ EnvoyOK
  BY DEF PlacementInv
<1>2. /\ making.pc = "servers" /\ making.todo = {}
      /\ making' = IF making.failed THEN Raised
                   ELSE [making EXCEPT !.pc = "delete", !.todo = managed \ Planned(making.plan.n)]
      /\ UNCHANGED <<configs, plans, current, launched, managed, routes, routeMap, listening, planQueue,
                     known, changeWaiter, ports, startFailures>>
  BY DEF ServersSet
<1>3. ClientsOK' BY <1>1, <1>2 DEF ClientsOK
<1>4. Planned(configs)' = Planned(configs) /\ Exist' = Exist BY <1>2 DEF Planned, Exist
<1>4a. DictOK' BY <1>1, <1>2, DictStays
<1>5. CASE making.failed
  <2>1. making' = Raised BY <1>2, <1>5
  <2>2. making' \in Making /\ making'.pc = "idle" /\ making'.failed BY <2>1, PlansAre
  <2>3. PlacementTyped' BY <1>1, <1>2, <2>2 DEF PlacementTyped
  <2>4. VersionsOK' BY <1>1, <1>2, <2>2 DEF VersionsOK
  <2>5. ServersOK' BY <2>2 DEF ServersOK
  <2>6. NoneLeftOver' BY <1>1, <1>2, <1>5 DEF NoneLeftOver
  <2>7. EnvoyOK' BY <1>4a, <2>2 DEF EnvoyOK, SpecsOK, MapOK
  <2> QED BY <1>2, <1>3, <2>3, <2>4, <2>5, <2>6, <2>7 DEF PlacementInv
<1>6. CASE ~making.failed
  <2>1. making.plan.n = configs BY <1>1, <1>2 DEF VersionsOK
  <2>2. PICK todo \in SUBSET Replica : todo = managed \ Planned(configs)
    BY <1>1 DEF PlacementTyped
  <2>3. making' = [making EXCEPT !.pc = "delete", !.todo = todo] BY <1>2, <1>6, <2>1, <2>2
  <2>4. /\ making' \in Making /\ making'.pc = "delete" /\ making'.todo = todo
        /\ making'.plan = making.plan /\ making'.failed = making.failed
    <3>1. making \in Making BY <1>1 DEF PlacementTyped
    <3> QED BY <2>3, <3>1 DEF Making
  <2>5. PlacementTyped' BY <1>1, <1>2, <2>4 DEF PlacementTyped
  <2>6. VersionsOK' BY <1>1, <1>2, <2>4 DEF VersionsOK
  <2>7. ServersOK' BY <1>1, <1>2, <1>4, <1>6, <2>2, <2>4 DEF ServersOK, Serves
  <2>8. NoneLeftOver'
    <3>1. Planned(configs) \subseteq Exist BY <1>1, <1>2, <1>6 DEF ServersOK, Serves, Exist, Planned
    <3> QED BY <1>1, <1>2, <1>4, <2>2, <2>4, <3>1 DEF NoneLeftOver
  <2>9. SpecsOK'
    <3>1. \A s \in Planned(configs) : launched[s].n = configs
      BY <1>1, <1>2, <1>6 DEF EnvoyOK, SpecsOK
    <3> QED BY <1>2, <1>4, <2>4, <3>1 DEF SpecsOK
  <2>10. EnvoyOK' BY <1>4a, <2>4, <2>9 DEF EnvoyOK, MapOK
  <2> QED BY <1>2, <1>3, <2>5, <2>6, <2>7, <2>8, <2>10 DEF PlacementInv
<1> QED BY <1>5, <1>6

\* Deleting a server keeps the invariant.
LEMMA delete_serverStep ==
    ASSUME PlacementInv, NEW s \in Replica, delete_server(s)
    PROVE  PlacementInv' /\ known' = known
<1>1. PlacementTyped /\ ClientsOK /\ VersionsOK /\ ServersOK /\ NoneLeftOver /\ EnvoyOK
  BY DEF PlacementInv
<1>2. /\ making.pc = "delete" /\ s \in making.todo
      /\ launched' = [launched EXCEPT ![s] = NotLaunched]
      /\ listening' = [listening EXCEPT ![s] = FALSE]
      /\ planQueue' = [planQueue EXCEPT ![s] = <<>>]
      /\ changeWaiter' = [changeWaiter EXCEPT ![s] = "none"]
      /\ making' = [making EXCEPT !.todo = @ \ {s}]
      /\ UNCHANGED <<configs, plans, current, managed, routes, routeMap, known, ports, startFailures>>
  BY DEF delete_server
<1>3. s \in PlanClient /\ s # Local /\ Local \in PlanClient BY Clients
<1>4. /\ making' \in Making /\ making'.pc = "delete" /\ making'.todo = making.todo \ {s}
      /\ making'.plan = making.plan /\ making'.failed = making.failed
  <2>1. making \in Making BY <1>1 DEF PlacementTyped
  <2>2. PICK todo \in SUBSET Replica : todo = making.todo \ {s} BY <1>1, MakingIs
  <2>3. making' = [making EXCEPT !.todo = todo] BY <1>2, <2>1, <2>2 DEF Making
  <2> QED BY <1>2, <2>1, <2>2, <2>3 DEF Making
<1>5. /\ launched' \in [Replica -> Launch] /\ launched'[s].state = "none"
      /\ \A t \in Replica : t # s => launched'[t] = launched[t]
  <2>1. launched \in [Replica -> Launch] BY <1>1 DEF PlacementTyped
  <2> QED BY <1>2, <2>1, PlansAre
<1>6. /\ planQueue' \in [PlanClient -> Seq(Plan)]
      /\ \A d \in PlanClient : planQueue'[d] \in {planQueue[d], <<>>, <<current>>}
  BY <1>1, <1>2, <1>3, QueueReset
<1>7. /\ changeWaiter' \in [PlanClient -> {"none", "check", "created", "listen"}]
      /\ changeWaiter'[Local] = changeWaiter[Local]
      /\ listening' \in [PlanClient -> BOOLEAN]
  BY <1>1, <1>2, <1>3 DEF PlacementTyped
<1>8. PlacementTyped' BY <1>1, <1>2, <1>4, <1>5, <1>6, <1>7 DEF PlacementTyped
<1>9. ClientsOK' BY <1>1, <1>2, <1>6, ClientsStay
<1>10. VersionsOK' BY <1>1, <1>2, <1>4, <1>7 DEF VersionsOK
<1>11. Planned(configs)' = Planned(configs) /\ \A t \in Planned(configs) : t \in Replica
  BY <1>2 DEF Planned
<1>12. s \notin Planned(configs) BY <1>1, <1>2 DEF ServersOK
<1>13. Exist' = Exist \ {s} BY <1>5 DEF Exist
<1>14. \A t \in Planned(configs) : launched'[t] = launched[t] BY <1>5, <1>11, <1>12
<1>15. ServersOK' BY <1>1, <1>2, <1>4, <1>11, <1>14 DEF ServersOK, Serves
<1>16. NoneLeftOver' BY <1>1, <1>2, <1>4, <1>11, <1>12, <1>13, <1>14 DEF NoneLeftOver
<1>17. EnvoyOK'
  <2>1. launched'[s].at = 0
    <3>1. launched \in [Replica -> Launch] BY <1>1 DEF PlacementTyped
    <3>2. launched'[s] = NotLaunched BY <1>2, <3>1
    <3> QED BY <3>2 DEF NotLaunched
  <2>2. ports \in Nat BY <1>1 DEF PlacementTyped
  <2>3. ASSUME NEW t \in Replica PROVE launched'[t].at <= ports'
    <3>1. CASE t = s BY <1>2, <2>1, <2>2, <3>1
    <3>2. CASE t # s BY <1>1, <1>2, <1>5, <3>2 DEF EnvoyOK, DictOK
    <3> QED BY <3>1, <3>2
  <2>4. ASSUME NEW t \in Replica, NEW u \in Replica, t # u,
               launched'[t].state # "none", launched'[u].state # "none"
        PROVE  launched'[t].at # launched'[u].at
    <3>1. t # s /\ u # s BY <1>5, <2>4
    <3>2. launched'[t] = launched[t] /\ launched'[u] = launched[u] BY <1>5, <3>1
    <3> QED BY <1>1, <2>4, <3>2 DEF EnvoyOK, DictOK
  <2>5. DictOK' BY <2>3, <2>4 DEF DictOK
  <2>6. SpecsOK' BY <1>1, <1>2, <1>4, <1>11, <1>14 DEF EnvoyOK, SpecsOK
  <2>7. MapOK' BY <1>4 DEF MapOK
  <2> QED BY <2>5, <2>6, <2>7 DEF EnvoyOK
<1> QED BY <1>2, <1>8, <1>9, <1>10, <1>15, <1>16, <1>17 DEF PlacementInv

\* The server that a plan has for a shard is one of its servers.
LEMMA PlannedHas ==
    ASSUME NEW i \in Shard, NEW n \in Counts
    PROVE  i % n \in Planned(n)
<1>1. i \in Nat /\ n \in Nat \ {0} BY PlacementAssumption DEF Shard
<1>2. i % n \in 0..(n - 1) BY <1>1, Division
<1> QED BY <1>1, <1>2, Servers DEF Planned, Replica

\* Envoy routes to every server that exists.
LEMMA EnvoyIs ==
    ASSUME PlacementTyped, configure_envoy
    PROVE  /\ routes' \in [Replica -> Nat]
           /\ \A s \in Replica : launched[s].state # "none" => routes'[s] = launched[s].port
<1>1. routes \in [Replica -> Nat] /\ \A s \in Replica : launched[s] \in Launch
  BY DEF PlacementTyped
<1>2. \A s \in Replica : launched[s].port \in Nat BY <1>1 DEF Launch
<1>3. CASE \A s \in Replica : launched[s] = NotLaunched
  <2>1. routes' = routes BY <1>3 DEF configure_envoy
  <2> QED BY <1>1, <1>3, <2>1, PlansAre
<1>4. CASE ~\A s \in Replica : launched[s] = NotLaunched
  <2>1. routes' = [s \in Replica |-> launched[s].port] BY <1>4 DEF configure_envoy
  <2> QED BY <1>2, <2>1
<1> QED BY <1>3, <1>4

\* A shard that launched servers have belongs to the last of them.
LEMMA OwnerIs ==
    ASSUME PlacementTyped, DictOK, NEW i \in Shard, Claimants(i) # {}
    PROVE  /\ server_id_by_shard_id(i) \in Claimants(i)
           /\ \A t \in Claimants(i) : launched[t].at <= launched[server_id_by_shard_id(i)].at
<1>1. launched \in [Replica -> Launch] /\ ports \in Nat BY DEF PlacementTyped
<1>2. \A t \in Claimants(i) : t \in Replica BY DEF Claimants
<1>3. \A t \in Replica : launched[t].at \in Nat BY <1>1 DEF Launch
<1>4. \A t \in Claimants(i) : launched[t].at \in Nat /\ ports - launched[t].at \in Nat
  BY <1>1, <1>2, <1>3 DEF DictOK
<1> DEFINE S == {d \in Nat : \E t \in Claimants(i) : d = ports - launched[t].at}
<1>5. PICK d \in S : \A e \in S : d <= e
  <2>1. S \in SUBSET Nat /\ S # {} BY <1>4
  <2> HIDE DEF S
  <2> QED BY <2>1, Least
<1>6. PICK s \in Claimants(i) : d = ports - launched[s].at OBVIOUS
<1>7. \A t \in Claimants(i) : ports - launched[t].at \in S BY <1>4
<1>8. \A t \in Claimants(i) : ports - launched[s].at <= ports - launched[t].at
  <2> HIDE DEF S
  <2> QED BY <1>5, <1>6, <1>7
<1>9. \A t \in Claimants(i) : launched[t].at <= launched[s].at BY <1>1, <1>4, <1>8
<1> QED BY <1>9, Zenon DEF server_id_by_shard_id

\* A configured Envoy has all the shards when the servers of the plan run.
LEMMA EnvoyMaps ==
    ASSUME PlacementTyped, DictOK, configure_envoy, configs # 0,
           \A s \in Planned(configs) : launched[s].state # "none" /\ launched[s].n = configs
    PROVE  /\ DOMAIN routeMap' = Shard
           /\ \A i \in Shard :
                 /\ routeMap'[i] \in Claimants(i)
                 /\ \A t \in Claimants(i) : launched[t].at <= launched[routeMap'[i]].at
<1>1. configs \in Counts /\ configs \in Nat \ {0} BY PlacementAssumption DEF PlacementTyped
<1>2. ASSUME NEW i \in Shard PROVE Claimants(i) # {}
  <2>1. i % configs \in Planned(configs) BY <1>1, PlannedHas
  <2>2. i % configs \in Claimants(i)
    <3>1. i % configs \in Replica BY <2>1 DEF Planned
    <3>2. server_index_for_shard(i, launched[i % configs].n) = i % configs
      BY <2>1 DEF server_index_for_shard
    <3> QED BY <2>1, <3>1, <3>2 DEF Claimants
  <2> QED BY <2>2
<1>3. ~\A s \in Replica : launched[s] = NotLaunched
  <2>1. 0 \in Shard BY PlacementAssumption DEF Shard
  <2>2. PICK s : s \in Claimants(0) BY <1>2, <2>1
  <2>3. s \in Replica /\ launched[s].state # "none" BY <2>2 DEF Claimants
  <2> QED BY <2>3, PlansAre
<1>4. routeMap' = [i \in {j \in Shard : Claimants(j) # {}} |-> server_id_by_shard_id(i)]
  BY <1>3 DEF configure_envoy
<1>5. {j \in Shard : Claimants(j) # {}} = Shard BY <1>2
<1>6. routeMap' = [i \in Shard |-> server_id_by_shard_id(i)] BY <1>4, <1>5
<1>7. DOMAIN routeMap' = Shard /\ \A i \in Shard : routeMap'[i] = server_id_by_shard_id(i)
  BY <1>6
<1> QED BY <1>2, <1>7, OwnerIs

\* Going on once the servers that are not planned are gone keeps the
\* invariant.
LEMMA ServersDeletedStep ==
    ASSUME PlacementInv, ServersDeleted
    PROVE  PlacementInv' /\ known' = known
<1>1. PlacementTyped /\ ClientsOK /\ VersionsOK /\ ServersOK /\ NoneLeftOver /\ EnvoyOK
  BY DEF PlacementInv
<1>2. /\ making.pc = "delete" /\ making.todo = {} /\ managed' = Planned(making.plan.n)
      /\ configure_envoy /\ making' = [making EXCEPT !.pc = "publish"]
      /\ UNCHANGED <<configs, plans, current, launched, listening, planQueue, known, changeWaiter,
                     ports, startFailures>>
  BY DEF ServersDeleted
<1>3. making.plan.n = configs BY <1>1, <1>2 DEF VersionsOK
<1>4. /\ making' \in Making /\ making'.pc = "publish" /\ making'.todo = making.todo
      /\ making'.plan = making.plan /\ making'.failed = making.failed
  <2>1. making \in Making BY <1>1 DEF PlacementTyped
  <2> QED BY <1>2, <2>1 DEF Making
<1>5. /\ routes' \in [Replica -> Nat]
      /\ \A s \in Replica : launched[s].state # "none" => routes'[s] = launched[s].port
  BY <1>1, <1>2, EnvoyIs
<1>6. Planned(configs)' = Planned(configs) /\ Planned(configs) \in SUBSET Replica /\ Exist' = Exist
  BY <1>2 DEF Planned, Exist
<1>7. PlacementTyped' BY <1>1, <1>2, <1>3, <1>4, <1>5, <1>6 DEF PlacementTyped
<1>8. ClientsOK' BY <1>1, <1>2 DEF ClientsOK
<1>9. VersionsOK' BY <1>1, <1>2, <1>4 DEF VersionsOK
<1>10. ServersOK'
  <2>1. ~making.failed /\ \A s \in Planned(configs) : Serves(s, making.plan.address)
    BY <1>1, <1>2 DEF ServersOK
  <2>2. \A s \in Planned(configs) : launched[s].state # "none" /\ launched[s].port = routes'[s]
    BY <1>5, <1>6, <2>1 DEF Serves
  <2> QED BY <1>2, <1>3, <1>4, <1>6, <2>1, <2>2 DEF ServersOK, Serves
<1>11. NoneLeftOver' BY <1>1, <1>2, <1>4, <1>6 DEF NoneLeftOver
<1>12. EnvoyOK'
  <2>1. DictOK' BY <1>1, <1>2, DictStays
  <2>2. \A s \in Planned(configs) : launched[s].state # "none" /\ launched[s].n = configs
    BY <1>1, <1>2 DEF ServersOK, Serves, EnvoyOK, SpecsOK
  <2>3. SpecsOK' BY <1>2, <1>4, <1>6, <2>2 DEF SpecsOK
  <2>4. \A i : Claimants(i)' = Claimants(i) BY <1>2 DEF Claimants
  <2>5. ASSUME configs # 0 PROVE Mapped'
    <3>1. /\ DOMAIN routeMap' = Shard
          /\ \A i \in Shard :
                /\ routeMap'[i] \in Claimants(i)
                /\ \A t \in Claimants(i) : launched[t].at <= launched[routeMap'[i]].at
      BY <1>1, <1>2, <2>2, <2>5, EnvoyMaps DEF EnvoyOK
    <3> QED BY <1>2, <2>4, <3>1 DEF Mapped
  <2>6. MapOK' BY <1>2, <2>5 DEF MapOK
  <2> QED BY <2>1, <2>3, <2>6 DEF EnvoyOK
<1> QED BY <1>2, <1>7, <1>8, <1>9, <1>10, <1>11, <1>12 DEF PlacementInv

\* The end of a restart keeps the invariant.
LEMMA RestartedStep ==
    ASSUME PlacementInv, Restarted
    PROVE  PlacementInv' /\ known' = known
<1>1. PlacementTyped /\ ClientsOK /\ VersionsOK /\ ServersOK /\ NoneLeftOver /\ EnvoyOK
  BY DEF PlacementInv
<1>2. /\ making.pc = "restart"
      /\ UNCHANGED <<configs, current, launched, managed, listening, planQueue, known,
                     changeWaiter, ports, startFailures>>
  BY DEF Restarted
<1>3. changeWaiter[Local] = "none" BY <1>1, <1>2 DEF VersionsOK
<1>4. CASE making.failed
  <2>1. making' = Raised /\ UNCHANGED <<plans, routes, routeMap>> BY <1>4 DEF Restarted
  <2>2. making' \in Making /\ making'.pc = "idle" /\ making'.failed BY <2>1, PlansAre
  <2>3. PlacementTyped' BY <1>1, <1>2, <2>1, <2>2 DEF PlacementTyped
  <2>4. VersionsOK' BY <1>1, <1>2, <2>1, <2>2 DEF VersionsOK
  <2>5. ServersOK' BY <2>2 DEF ServersOK
  <2>6. NoneLeftOver' BY <1>1, <1>2, <1>4 DEF NoneLeftOver
  <2>7. ClientsOK' BY <1>1, <1>2 DEF ClientsOK
  <2>8. DictOK' BY <1>1, <1>2, DictStays
  <2>9. EnvoyOK' BY <2>2, <2>8 DEF EnvoyOK, SpecsOK, MapOK
  <2> QED BY <1>2, <2>3, <2>4, <2>5, <2>6, <2>7, <2>9 DEF PlacementInv
<1>5. CASE ~making.failed
  <2>1. configure_envoy /\ make_plan(configs) BY <1>5 DEF Restarted
  <2>2. routes' \in [Replica -> Nat] BY <1>1, <2>1, EnvoyIs
  <2>3. startFailures = 0 =>
          Exist = managed /\ \A s \in Exist \cap Planned(configs) : launched[s].n = configs
    BY <1>1, <1>2 DEF NoneLeftOver
  <2>4. PICK n \in Counts \cup {0} : n = configs BY <1>1 DEF PlacementTyped
  <2>5. configs' = n /\ make_plan(n) BY <1>2, <2>1, <2>4
  <2>6. startFailures = 0 =>
          Exist = managed /\ \A s \in Exist \cap Planned(n) : launched[s].n = n
    BY <2>3, <2>4
  <2> QED BY <1>2, <1>3, <2>2, <2>5, <2>6, PlanBegun
<1> QED BY <1>4, <1>5

\* Publishing a plan keeps the invariant.
LEMMA PublishStep ==
    ASSUME PlacementInv, Publish
    PROVE  PlacementInv' /\ known' = known
<1>1. PlacementTyped /\ ClientsOK /\ VersionsOK /\ ServersOK /\ NoneLeftOver /\ EnvoyOK
  BY DEF PlacementInv
<1>2. /\ making.pc = "publish" /\ current' = making.plan /\ making' = AtRest
      /\ planQueue' = [c \in PlanClient |->
            IF listening[c] THEN Append(planQueue[c], making.plan) ELSE planQueue[c]]
      /\ changeWaiter' = [changeWaiter EXCEPT ![Local] = "check"]
      /\ UNCHANGED <<configs, plans, launched, managed, routes, routeMap, listening, known, ports,
                     startFailures>>
  BY DEF Publish
<1>3. making' \in Making /\ making'.pc = "idle" /\ ~making'.failed BY <1>2, PlansAre
<1>4. PICK p \in Plan : p = making.plan BY <1>1, MakingIs
<1>5. p.version = plans /\ current.version < p.version /\ p.n = configs
  BY <1>1, <1>2, <1>4 DEF VersionsOK
<1>6. ASSUME NEW c \in PlanClient
      PROVE  planQueue'[c] \in Seq(Plan) /\ InOrder(known[c], planQueue'[c], p)
  <2>1. known[c] \in Plan /\ planQueue[c] \in Seq(Plan) /\ current \in Plan
    BY <1>1 DEF PlacementTyped
  <2>2. InOrder(known[c], planQueue[c], current) BY <1>1 DEF ClientsOK
  <2>3. /\ InOrder(known[c], planQueue[c], p) /\ Append(planQueue[c], p) \in Seq(Plan)
        /\ InOrder(known[c], Append(planQueue[c], p), p)
    BY <1>5, <2>1, <2>2, OrderPublished
  <2>4. planQueue'[c] = IF listening[c] THEN Append(planQueue[c], p) ELSE planQueue[c]
    BY <1>2, <1>4
  <2> QED BY <2>1, <2>3, <2>4
<1>7. PlacementTyped'
  <2>1. planQueue' \in [PlanClient -> Seq(Plan)]
    <3>1. planQueue' = [c \in PlanClient |-> planQueue'[c]] BY <1>2
    <3>2. \A c \in PlanClient : planQueue'[c] \in Seq(Plan) BY <1>6
    <3> QED BY <3>1, <3>2
  <2>2. changeWaiter' \in [PlanClient -> {"none", "check", "created", "listen"}]
    BY <1>1, <1>2 DEF PlacementTyped
  <2> QED BY <1>1, <1>2, <1>3, <1>4, <2>1, <2>2 DEF PlacementTyped
<1>8. ClientsOK' BY <1>2, <1>4, <1>6 DEF ClientsOK
<1>9. VersionsOK'
  <2>1. changeWaiter'[Local] = "check" BY <1>1, <1>2, Clients DEF PlacementTyped
  <2>2. current \in Plan /\ plans \in Nat BY <1>1 DEF PlacementTyped
  <2>3. current.version \in Nat /\ 1 <= current.version BY <1>1, <2>2 DEF VersionsOK, Plan
  <2>4. 1 <= p.version /\ p.version <= plans BY <1>5, <2>2, <2>3
  <2> QED BY <1>2, <1>3, <1>4, <2>1, <2>4 DEF VersionsOK
<1>10. Planned(configs)' = Planned(configs) /\ Exist' = Exist BY <1>2 DEF Planned, Exist
<1>11. ServersOK' BY <1>1, <1>2, <1>3, <1>4, <1>5, <1>10 DEF ServersOK, Serves
<1>12. NoneLeftOver' BY <1>1, <1>2, <1>3, <1>10 DEF NoneLeftOver, ServersOK
<1>13. EnvoyOK'
  <2>1. DictOK' BY <1>1, <1>2, DictStays
  <2>2. SpecsOK' BY <1>1, <1>2, <1>3, <1>10 DEF EnvoyOK, SpecsOK
  <2>3. Mapped' <=> Mapped BY <1>2 DEF Mapped, Claimants
  <2>4. MapOK' BY <1>1, <1>2, <2>3 DEF EnvoyOK, MapOK
  <2> QED BY <2>1, <2>2, <2>4 DEF EnvoyOK
<1> QED BY <1>2, <1>7, <1>8, <1>9, <1>11, <1>12, <1>13 DEF PlacementInv

\* The invariant holds initially.
LEMMA PlacementInitial == ASSUME PlacementInit PROVE PlacementInv
<1>1. /\ configs = 0 /\ plans = 1 /\ current = [NoPlan EXCEPT !.version = 1]
      /\ launched = [s \in Replica |-> NotLaunched] /\ managed = {} /\ making = AtRest
      /\ routes = [s \in Replica |-> 0] /\ listening = [c \in PlanClient |-> c = Local]
      /\ planQueue = [c \in PlanClient |-> <<>>]
      /\ known = [c \in PlanClient |-> IF c = Local THEN current ELSE NoPlan]
      /\ changeWaiter = [c \in PlanClient |-> "none"] /\ ports = 0 /\ startFailures = 0
  BY DEF PlacementInit
<1>2. current \in Plan /\ current.version = 1 /\ current.n = 0
  <2>1. PICK a \in [Replica -> Nat] : a = [s \in Replica |-> 0] OBVIOUS
  <2>2. NoPlan = [version |-> 0, n |-> 0, address |-> a] BY <2>1 DEF NoPlan
  <2>3. current = [version |-> 1, n |-> 0, address |-> a] BY <1>1, <2>2
  <2> QED BY <2>3 DEF Plan
<1>3. making \in Making /\ making.pc = "idle" /\ ~making.failed BY <1>1, PlansAre
<1>4. known \in [PlanClient -> Plan] /\ known[Local] = current BY <1>1, <1>2, PlansAre, Clients
<1>5. PlacementTyped
  <2>1. launched \in [Replica -> Launch] BY <1>1, PlansAre
  <2>2. planQueue \in [PlanClient -> Seq(Plan)]
    <3>1. <<>> \in Seq(Plan) OBVIOUS
    <3> QED BY <1>1, <3>1
  <2>3. listening \in [PlanClient -> BOOLEAN] BY <1>1
  <2>4. routes \in [Replica -> Nat] BY <1>1
  <2>5. changeWaiter \in [PlanClient -> {"none", "check", "created", "listen"}] BY <1>1
  <2> QED BY <1>1, <1>2, <1>3, <1>4, <2>1, <2>2, <2>3, <2>4, <2>5 DEF PlacementTyped
<1>6. ClientsOK
  <2>1. ASSUME NEW c \in PlanClient PROVE InOrder(known[c], planQueue[c], current)
    <3>1. known[c] = current \/ known[c] = NoPlan BY <1>1
    <3>2. UpTo(known[c], current) BY <1>2, <3>1, PlansAre DEF UpTo
    <3>3. known[c] \in Plan /\ planQueue[c] = <<>> BY <1>1, <1>4
    <3> QED BY <1>2, <3>2, <3>3, OrderFresh
  <2> QED BY <2>1 DEF ClientsOK
<1>7. VersionsOK BY <1>1, <1>2, <1>3, <1>4 DEF VersionsOK
<1>8. Planned(configs) = {}
  <2>1. \A s \in Replica : ~(s < 0) BY Clients
  <2> QED BY <1>1, <2>1 DEF Planned
<1>9. Exist = {} BY <1>1, PlansAre DEF Exist
<1>10. ServersOK BY <1>1, <1>2, <1>3, <1>8 DEF ServersOK
<1>11. NoneLeftOver BY <1>1, <1>3, <1>8, <1>9 DEF NoneLeftOver
<1>12. EnvoyOK
  <2>1. \A s \in Replica : launched[s].state = "none" /\ launched[s].at = 0
    BY <1>1 DEF NotLaunched
  <2>2. DictOK BY <1>1, <2>1 DEF DictOK
  <2>3. SpecsOK BY <1>3, <1>8 DEF SpecsOK
  <2>4. MapOK BY <1>1 DEF MapOK
  <2> QED BY <2>2, <2>3, <2>4 DEF EnvoyOK
<1> QED BY <1>5, <1>6, <1>7, <1>10, <1>11, <1>12 DEF PlacementInv

\* A step keeps the invariant, and takes no client back to an older plan.
LEMMA PlacementStep ==
    ASSUME PlacementInv, [PlacementNext]_placementVars
    PROVE  /\ PlacementInv'
           /\ \A c \in PlanClient : known'[c] = NoPlan \/ known'[c].version >= known[c].version
<1>1. known \in [PlanClient -> Plan] BY DEF PlacementInv, PlacementTyped
<1>2. \A c \in PlanClient : known[c].version \in Nat BY <1>1 DEF Plan
<1>3. ASSUME PlacementInv', known' = known
      PROVE  /\ PlacementInv'
             /\ \A c \in PlanClient : known'[c] = NoPlan \/ known'[c].version >= known[c].version
  BY <1>2, <1>3
<1>4. CASE UNCHANGED placementVars
  <2>1. UNCHANGED <<configs, plans, current, launched, managed, making, routes, routeMap, listening,
                    planQueue, known, changeWaiter, ports, startFailures>>
    BY <1>4 DEF placementVars
  <2>2. PlacementTyped' /\ ClientsOK' /\ VersionsOK'
    BY <2>1 DEF PlacementInv, PlacementTyped, ClientsOK, VersionsOK
  <2>3. ServersOK' /\ NoneLeftOver' /\ EnvoyOK' BY <2>1, ServersStay DEF PlacementInv
  <2> QED BY <1>3, <2>1, <2>2, <2>3 DEF PlacementInv
<1>5. ASSUME NEW c \in PlanClient, handle_plan(c)
      PROVE  /\ PlacementInv'
             /\ \A d \in PlanClient : known'[d] = NoPlan \/ known'[d].version >= known[d].version
  <2>1. PlacementInv' /\ known[c].version <= known'[c].version BY <1>5, handle_planStep
  <2>2. \A d \in PlanClient : d # c => known'[d] = known[d] BY <1>1, <1>5 DEF handle_plan
  <2>3. known'[c].version \in Nat BY <2>1 DEF PlacementInv, PlacementTyped, Plan
  <2> QED BY <1>2, <2>1, <2>2, <2>3
<1>6. ASSUME NEW s \in Replica, ClientStarts(s)
      PROVE  /\ PlacementInv'
             /\ \A d \in PlanClient : known'[d] = NoPlan \/ known'[d].version >= known[d].version
  BY <1>2, <1>6, ClientStartsStep
<1>7. ASSUME (\E n \in Counts : up(n)) \/ down PROVE PlacementInv' /\ known' = known
  BY <1>7, CommandStep
<1>8. ASSUME ServersSet \/ ServersDeleted \/ Restarted \/ Publish
      PROVE  PlacementInv' /\ known' = known
  BY <1>8, ServersSetStep, ServersDeletedStep, RestartedStep, PublishStep
<1>9. ASSUME NEW s \in Replica, set_server(s) \/ start_server(s) \/ delete_server(s)
      PROVE  PlacementInv' /\ known' = known
  BY <1>9, set_serverStep, start_serverStep, delete_serverStep
<1>10. ASSUME NEW s \in Replica, server_stop(s) \/ server_start(s) \/ StartFails(s)
       PROVE  PlacementInv' /\ known' = known
  BY <1>10, server_stopStep, server_startStep, StartFailsStep
<1>11. ASSUME NEW c \in PlanClient,
              StreamBreaks(c) \/ control_loop(c) \/ wait_for_change(c) \/ Listens(c)
       PROVE  PlacementInv' /\ known' = known
  BY <1>11, StreamStep, WaiterStep
<1>12. CASE PlacementNext
  <2>1. CASE (\E n \in Counts : up(n)) \/ down BY <1>3, <1>7, <2>1
  <2>2. CASE ServersSet \/ ServersDeleted \/ Restarted \/ Publish BY <1>3, <1>8, <2>2
  <2>3. CASE \E s \in Replica : set_server(s) \/ ClientStarts(s) \/ start_server(s)
                                  \/ delete_server(s)
    <3>1. PICK s \in Replica : set_server(s) \/ ClientStarts(s) \/ start_server(s)
                                 \/ delete_server(s)
      BY <2>3
    <3> QED BY <1>3, <1>6, <1>9, <3>1
  <2>4. CASE \E s \in Replica : server_stop(s) \/ server_start(s) \/ StartFails(s)
    <3>1. PICK s \in Replica : server_stop(s) \/ server_start(s) \/ StartFails(s) BY <2>4
    <3> QED BY <1>3, <1>10, <3>1
  <2>5. CASE \E c \in PlanClient : StreamBreaks(c) \/ ClientStep(c)
    <3>1. PICK c \in PlanClient : StreamBreaks(c) \/ handle_plan(c) \/ control_loop(c)
                                    \/ wait_for_change(c) \/ Listens(c)
      BY <2>5 DEF ClientStep
    <3> QED BY <1>3, <1>5, <1>11, <3>1
  <2> QED BY <1>12, <2>1, <2>2, <2>3, <2>4, <2>5, Zenon DEF PlacementNext, ManagerStep
<1> QED BY <1>4, <1>12

\* Once a command returned, all ways to a state lead to the same server.
LEMMA RoutesFollow == ASSUME PlacementInv PROVE RoutesAgree
<1>1. PlacementTyped /\ VersionsOK /\ ServersOK /\ NoneLeftOver /\ EnvoyOK BY DEF PlacementInv
<1> DEFINE Agree(h) ==
        LET s == server_index_for_shard(shard_for_actor(h), known[Local].n)
        IN /\ known[Local].n = configs
           /\ GetShardForHash(h) = shard_for_actor(h)
           /\ DOMAIN routeMap = Shard
           /\ LET e == compute_server_id(h, routeMap)
              IN e = s \/ (e \notin managed /\ launched[e].at > launched[s].at)
           /\ routes[s] = launched[s].port /\ known[Local].address[s] = launched[s].port
<1> SUFFICES ASSUME Quiet, ~making.failed
             PROVE  /\ managed = Planned(configs)
                    /\ startFailures = 0 => Exist = managed
                    /\ configs > 0 => \A h \in Hash : Agree(h)
  BY Zenon DEF RoutesAgree, Exist
<1>2. making.pc = "idle" /\ changeWaiter[Local] = "none" BY DEF Quiet
<1>3. managed = Planned(configs) /\ current.n = configs
      /\ \A s \in Planned(configs) : Serves(s, current.address) /\ Serves(s, routes)
  BY <1>1, <1>2 DEF ServersOK
<1>4. startFailures = 0 => Exist = managed BY <1>1, <1>2 DEF NoneLeftOver
<1>5. known[Local] = current BY <1>1, <1>2 DEF VersionsOK
<1>6. ASSUME configs > 0, NEW h \in Hash PROVE Agree(h)
  <2>1. configs \in Counts /\ configs \in Nat \ {0}
    BY <1>1, <1>6, PlacementAssumption DEF PlacementTyped
  <2>2. PICK m \in Shard : /\ m = shard_for_actor(h) /\ GetShardForHash(h) = m
                           /\ compute_server_id(h, routeMap) = routeMap[m]
    BY LookupsAgree
  <2>3. PICK s \in Planned(configs) : s = m % configs BY <2>1, PlannedHas
  <2>4. s = server_index_for_shard(shard_for_actor(h), configs)
    BY <2>2, <2>3 DEF server_index_for_shard
  <2>5. Serves(s, current.address) /\ Serves(s, routes) BY <1>3
  <2>6. PICK e : e = routeMap[m] OBVIOUS
  <2>7. /\ DOMAIN routeMap = Shard /\ e \in Claimants(m)
        /\ \A t \in Claimants(m) : launched[t].at <= launched[e].at
    <3>1. Mapped BY <1>1, <1>2, <2>1 DEF EnvoyOK, MapOK
    <3> QED BY <2>6, <3>1 DEF Mapped
  <2>8. \A t \in Planned(configs) : t \in Replica /\ launched[t].n = configs
    BY <1>1, <1>2 DEF EnvoyOK, SpecsOK, Planned
  <2>9. s \in Claimants(m) BY <2>3, <2>5, <2>8 DEF Claimants, server_index_for_shard, Serves
  <2>10. e \in Replica /\ launched[e].state # "none"
         /\ server_index_for_shard(m, launched[e].n) = e
    BY <2>7 DEF Claimants
  <2>11. ASSUME e # s PROVE e \notin managed /\ launched[e].at > launched[s].at
    <3>1. e \notin Planned(configs)
      BY <2>3, <2>8, <2>10, <2>11 DEF server_index_for_shard
    <3>2. launched[s].at # launched[e].at
      BY <1>1, <2>5, <2>8, <2>10, <2>11 DEF EnvoyOK, DictOK, Serves
    <3>3. launched[s].at \in Nat /\ launched[e].at \in Nat
      BY <1>1, <2>8, <2>10 DEF PlacementTyped, Launch
    <3>4. launched[s].at <= launched[e].at BY <2>7, <2>9
    <3> QED BY <1>3, <3>1, <3>2, <3>3, <3>4
  <2>12. known[Local].n = configs BY <1>3, <1>5
  <2>13. server_index_for_shard(shard_for_actor(h), known[Local].n) = s BY <2>4, <2>12
  <2>14. compute_server_id(h, routeMap) = e BY <2>2, <2>6
  <2>15. routes[s] = launched[s].port /\ known[Local].address[s] = launched[s].port
    BY <1>5, <2>5 DEF Serves
  <2> QED BY <2>2, <2>7, <2>11, <2>12, <2>13, <2>14, <2>15, Zenon
<1> QED BY <1>3, <1>4, <1>6

\* For any numbers of servers and shards, commands that fail and streams that
\* break: what the manager has launched, what Envoy routes to and the plans
\* that clients have or will get stay in step.
THEOREM PlacementInvariance == PlacementSpec => []PlacementInv
<1>1. PlacementInit => PlacementInv BY PlacementInitial
<1>2. PlacementInv /\ [PlacementNext]_placementVars => PlacementInv' BY PlacementStep
<1> QED BY <1>1, <1>2, PTL DEF PlacementSpec

\* For any numbers of servers, shards and bytes of a hash: once a command
\* returned, Envoy's binary search, the placement client and the database find
\* the same server for every state, and its port; doubling the servers moves
\* shards only to new ones; and no client goes back to an older plan.
THEOREM PlacementIsSound == PlacementSpec => PlacementSound
<1>1. PlacementInv => RoutesAgree /\ ScalingStable BY RoutesFollow, Doubling
<1>2. PlacementInv /\ [PlacementNext]_placementVars =>
        [\A c \in PlanClient :
            known'[c] = NoPlan \/ known'[c].version >= known[c].version]_placementVars
  BY PlacementStep
<1> QED BY <1>1, <1>2, PlacementInvariance, PTL DEF PlacementSpec, PlacementSound, PlansAdvance

=============================================================================
