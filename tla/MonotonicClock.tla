--------------------------- MODULE MonotonicClock ---------------------------
(***************************************************************************)
(* The database's clock, reboot/server/monotonic_clock.cc.  Its readings   *)
(* must never go backwards, not even across a crash of the process after   *)
(* which the system clock has been rewound, and a strict reading must be   *)
(* in a later millisecond than all before it.  Readings are lock-free:     *)
(* every load, store and compare-and-swap of a thread in `Now` is a step.  *)
(* Times are ticks, `Milli` of them to a millisecond.                      *)
(***************************************************************************)
EXTENDS Integers, FiniteSets

CONSTANTS
    Thread,         \* threads of the database that call `Now`
    Milli,          \* ticks in a millisecond
    Reservation,    \* kHighWaterMarkReservation
    MaxWall,        \* bound: the last tick of the system clock
    MaxReading,     \* bound: no call starts once this was returned
    MaxStarts,      \* bound: processes that are started
    Nobody          \* the free mutex

ASSUME ClockAssumption ==
    /\ Milli \in Nat \ {0} /\ Reservation \in Nat \ {0}
    /\ {MaxWall, MaxReading, MaxStarts} \subseteq Nat
    /\ Nobody \notin Thread \cup {"flusher"} /\ "flusher" \notin Thread

VARIABLES
    wall,               \* MonotonicWallClockNow() of the process
    running,            \* running_
    high_water_mark,    \* high_water_mark_
    last_returned,      \* last_returned_
    persisted,          \* the durable high water mark, or Absent
    mutex,              \* who holds high_water_mark_write_mutex_
    marking,            \* the mark its holder has written and not yet stored
    now,                \* each thread's `Now`: where it is and its locals
    ever,               \* history: the greatest reading ever returned
    starts              \* number of processes started

clockVars == <<wall, running, high_water_mark, last_returned, persisted,
               mutex, marking, now, ever, starts>>

Absent == -1
Idle == [at |-> "idle", strict |-> FALSE, now |-> 0, mark |-> 0, last |-> 0]
Later(a, b) == IF a > b THEN a ELSE b
Sooner(a, b) == IF a < b THEN a ELSE b
Floor(t) == t \div Milli

ClockTypeOK ==
    /\ wall \in 0..MaxWall
    /\ running \in BOOLEAN
    /\ {high_water_mark, last_returned, marking} \subseteq Nat
    /\ persisted \in Nat \cup {Absent} /\ ever \in Nat \cup {Absent}
    /\ mutex \in Thread \cup {Nobody, "flusher"}
    /\ now \in [Thread ->
                  [at : {"idle", "wall", "mark", "last", "advance", "write",
                         "store", "cas"},
                   strict : BOOLEAN, now : Nat, mark : Nat, last : Nat]]
    /\ starts \in 0..MaxStarts

ClockInit ==
    /\ wall = 0 /\ running = FALSE
    /\ high_water_mark = 0 /\ last_returned = 0
    /\ persisted = Absent
    /\ mutex = Nobody /\ marking = 0
    /\ now = [t \in Thread |-> Idle]
    /\ ever = Absent
    /\ starts = 0

-----------------------------------------------------------------------------
(* The process.                                                            *)

\* Mutant: a clock that starts from zero instead of the persisted mark.
MutStartReturned(initial) == 0

\* `Start(nanoseconds)` stores the initial mark as the last reading, too.
StartReturned(initial) == initial

NextHighWaterMark(mark, w) == Later(mark, w + Reservation)

\* `Start(db)` of a new process, whose system clock may show anything: read
\* or bootstrap the mark, then flush, which may fail.
Start(w) ==
    LET initial == IF persisted = Absent THEN w + Reservation ELSE persisted
    IN  /\ ~running /\ starts < MaxStarts
        /\ starts' = starts + 1
        /\ wall' = w
        /\ running' = TRUE
        /\ high_water_mark' \in {initial, NextHighWaterMark(initial, w)}
        /\ persisted' = high_water_mark'
        /\ last_returned' = StartReturned(initial)
        /\ UNCHANGED <<mutex, marking, now, ever>>

Down ==
    /\ running
    /\ running' = FALSE
    /\ high_water_mark' = 0 /\ last_returned' = 0
    /\ mutex' = Nobody /\ marking' = 0
    /\ now' = [t \in Thread |-> Idle]
    /\ UNCHANGED <<wall, persisted, ever, starts>>

\* `Stop()` joins the flusher; no thread is in `Now` by then.
Stop == mutex = Nobody /\ (\A t \in Thread : now[t].at = "idle") /\ Down

CrashProcess == (mutex # Nobody \/ \E t \in Thread : now[t].at # "idle") /\ Down

Tick ==
    /\ running /\ wall < MaxWall
    /\ wall' = wall + 1
    /\ UNCHANGED <<running, high_water_mark, last_returned, persisted, mutex,
                   marking, now, ever, starts>>

-----------------------------------------------------------------------------
(* The flusher, under the mutex from the computation to the store.         *)

Flush ==
    /\ running /\ mutex = Nobody
    /\ NextHighWaterMark(high_water_mark, wall) > high_water_mark
    /\ marking' = NextHighWaterMark(high_water_mark, wall)
    /\ persisted' = marking'
    /\ mutex' = "flusher"
    /\ UNCHANGED <<wall, running, high_water_mark, last_returned, now, ever,
                   starts>>

FlushStore ==
    /\ mutex = "flusher"
    /\ high_water_mark' = marking
    /\ mutex' = Nobody /\ marking' = 0
    /\ UNCHANGED <<wall, running, last_returned, persisted, now, ever, starts>>

-----------------------------------------------------------------------------
(* Now(strict).                                                            *)

Goto(t, at) == now' = [now EXCEPT ![t].at = at]
Again(t) ==
    now' = [now EXCEPT ![t] = [Idle EXCEPT !.at = "wall", !.strict = now[t].strict]]

Now(t, strict) ==
    /\ running /\ now[t].at = "idle" /\ ever < MaxReading
    /\ now' = [now EXCEPT ![t] = [Idle EXCEPT !.at = "wall", !.strict = strict]]
    /\ UNCHANGED <<wall, running, high_water_mark, last_returned, persisted,
                   mutex, marking, ever, starts>>

LoadWall(t) ==
    /\ now[t].at = "wall"
    /\ now' = [now EXCEPT ![t].at = "mark", ![t].now = wall]
    /\ UNCHANGED <<wall, running, high_water_mark, last_returned, persisted,
                   mutex, marking, ever, starts>>

LoadMark(t) ==
    /\ now[t].at = "mark"
    /\ now' = [now EXCEPT ![t].at = "last", ![t].mark = high_water_mark,
                          ![t].now = Sooner(@, high_water_mark)]
    /\ UNCHANGED <<wall, running, high_water_mark, last_returned, persisted,
                   mutex, marking, ever, starts>>

\* Mutant: the strict advance is by a tick, not to the next millisecond.
MutReading(read, last, strict) ==
    IF strict /\ Later(read, last) <= last THEN last + 1 ELSE Later(read, last)

\* The reading: not below the last one and, if strict, a millisecond later.
Reading(read, last, strict) ==
    IF strict /\ Floor(Later(read, last)) <= Floor(last)
    THEN (Floor(last) + 1) * Milli
    ELSE Later(read, last)

LoadLast(t) ==
    /\ now[t].at = "last"
    /\ LET reading == Reading(now[t].now, last_returned, now[t].strict)
       IN  now' = [now EXCEPT
                     ![t].last = last_returned,
                     ![t].now = reading,
                     ![t].at = IF reading > now[t].mark THEN "advance"
                                                        ELSE "cas"]
    /\ UNCHANGED <<wall, running, high_water_mark, last_returned, persisted,
                   mutex, marking, ever, starts>>

\* Lock the mutex and read the mark again: somebody else may have moved it.
Advance(t) ==
    /\ now[t].at = "advance" /\ mutex = Nobody
    /\ \/ /\ now[t].now > high_water_mark
          /\ mutex' = t
          /\ Goto(t, "write")
       \/ /\ now[t].now <= high_water_mark
          /\ Again(t)
          /\ UNCHANGED mutex
    /\ UNCHANGED <<wall, running, high_water_mark, last_returned, persisted,
                   marking, ever, starts>>

\* Mutant: the mark is published before it is durable.
MutWriteMark(t) ==
    /\ now[t].at = "write"
    /\ marking' = now[t].now + Reservation
    /\ high_water_mark' = marking'
    /\ mutex' = Nobody
    /\ Again(t)
    /\ UNCHANGED <<wall, running, last_returned, persisted, ever, starts>>

\* WriteHighWaterMark: durable before it is stored; a failure is retried.
WriteMark(t) ==
    /\ now[t].at = "write"
    /\ \/ /\ marking' = now[t].now + Reservation
          /\ persisted' = marking'
          /\ Goto(t, "store")
          /\ UNCHANGED mutex
       \/ /\ mutex' = Nobody
          /\ Again(t)
          /\ UNCHANGED <<marking, persisted>>
    /\ UNCHANGED <<wall, running, high_water_mark, last_returned, ever, starts>>

StoreMark(t) ==
    /\ now[t].at = "store"
    /\ high_water_mark' = marking
    /\ mutex' = Nobody /\ marking' = 0
    /\ Again(t)
    /\ UNCHANGED <<wall, running, last_returned, persisted, ever, starts>>

\* compare_exchange_weak may also fail although nothing changed.
CompareExchange(t) ==
    /\ now[t].at = "cas"
    /\ \/ /\ last_returned = now[t].last
          /\ last_returned' = now[t].now
          /\ ever' = Later(ever, now[t].now)
          /\ now' = [now EXCEPT ![t] = Idle]
       \/ /\ Again(t)
          /\ UNCHANGED <<last_returned, ever>>
    /\ UNCHANGED <<wall, running, high_water_mark, persisted, mutex, marking,
                   starts>>

ClockNext ==
    \/ \E w \in 0..MaxWall : Start(w)
    \/ Stop \/ CrashProcess \/ Tick \/ Flush \/ FlushStore
    \/ \E t \in Thread :
          \/ \E strict \in BOOLEAN : Now(t, strict)
          \/ LoadWall(t) \/ LoadMark(t) \/ LoadLast(t)
          \/ Advance(t) \/ WriteMark(t) \/ StoreMark(t)
          \/ CompareExchange(t)

ClockSpec == ClockInit /\ [][ClockNext]_clockVars

-----------------------------------------------------------------------------
(* Properties.                                                             *)

\* Thread t returns its reading in this step.
Returns(t) == now[t].at = "cas" /\ running' /\ now'[t].at = "idle"

\* "Non-decreasing across every call on this clock, including across prior
\* incarnations", and strictly later, in milliseconds, for a strict reading:
\* what `Now` returns, compared with all that was ever returned before.
NeverBackwards ==
    [][\A t \in Thread :
          Returns(t) => /\ now[t].now >= ever
                        /\ now[t].strict => Floor(now[t].now) > Floor(ever)
      ]_clockVars

\* The durable mark is at least every reading ever returned, so a crash at
\* any point, also between the write of a mark and its store, loses nothing.
MarkDurable == ever # Absent => persisted >= ever

=============================================================================
