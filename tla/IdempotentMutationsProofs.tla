---------------------- MODULE IdempotentMutationsProofs ----------------------
(***************************************************************************)
(* Proofs about idempotency on both sides of a call: for any calls, keys,  *)
(* workflows and iterations, a mutation that was answered is remembered by *)
(* its state, and the manager of a context sends no two RPCs under one key *)
(* and no mutation while one is in doubt.                                  *)
(***************************************************************************)
EXTENDS IdempotentMutations, IdempotencyManager, FiniteSetTheorems, TLAPS

\* An IdempotentMutations, a future of a load, and what is kept of a call.
Filter == [has : SUBSET Mutation, scopes : SUBSET Scope]
LoadRecord == [at : {"none", "asking", "rows", "loaded", "failed"},
               rows : SUBSET Mutation]
Place == {"new", "check", "await", "recover", "land", "get", "scan", "scanned",
          "lookup", "lock", "body", "remember", "done"}
CallerRecord ==
    [at : Place, got : SUBSET Mutation, on : Future \cup {NoFuture0},
     object : Nat, again : BOOLEAN]

ShapesOK ==
    /\ rows \in SUBSET Mutation /\ prepared \in SUBSET Mutation
    /\ answers \in SUBSET rows
    /\ objects \in Seq(Filter)
    /\ mut_loads \in Future \cup {NoFuture0}
    /\ futures \in [Future -> LoadRecord]
    /\ caller \in [Caller -> CallerRecord]
    /\ turn \in {{}} \cup {{c} : c \in Caller}
    /\ executions \in [Mutation -> Nat]
    /\ forgot \in BOOLEAN /\ broken \in BOOLEAN

\* Where a call is tells what it has: a future, a filter in use, an object, a
\* row in the database.
PlaceOK(c, r) ==
    /\ r.at = "await" => r.on \in Future
    /\ r.at \in {"get", "scan", "scanned", "lookup", "lock", "body", "remember"}
          => Loaded
    /\ r.at \in {"scan", "scanned", "lookup"} => r.object \in 1..Len(objects)
    /\ r.at = "remember" => Mine(c) \in rows

\* What a scan found and the filter got since covers the scope.
ScanOK(c, r) ==
    r.at = "scanned" =>
        /\ r.object = Len(objects) =>
              \A m \in answers :
                 m.scope = Mine(c).scope /\ m.key \notin expired
                     => m \in r.got \/ m \in objects[r.object].has
        /\ r.again /\ Mine(c).key \notin expired => Mine(c) \in r.got

\* A call made again is stopped by the filter it looks at, at the latest.
AgainOK(c, r) ==
    r.again =>
        /\ Mine(c) \in answers
        /\ Mine(c).key \notin expired /\ ~forgot =>
              /\ r.at = "lookup" => Mine(c) \in objects[r.object].has
              /\ r.at \notin {"lock", "body", "remember"}

CallOK(c, r) == PlaceOK(c, r) /\ ScanOK(c, r) /\ AgainOK(c, r)
CallsOK == \A c \in Caller : CallOK(c, caller[c])

IdempotentInv == ShapesOK /\ CallsOK /\ FilterCovers

-----------------------------------------------------------------------------
(* Records, sequences and futures.                                          *)

\* A place of a sequence is given another element; an element is added.
LEMMA Amended ==
    ASSUME NEW R, NEW s \in Seq(R), NEW i \in 1..Len(s), NEW x \in R
    PROVE  /\ [s EXCEPT ![i] = x] \in Seq(R)
           /\ Len([s EXCEPT ![i] = x]) = Len(s)
           /\ [s EXCEPT ![i] = x][i] = x
           /\ \A j \in 1..Len(s) : j # i => [s EXCEPT ![i] = x][j] = s[j]
OBVIOUS

\* What appending makes of a sequence.
LEMMA Appended ==
    ASSUME NEW R, NEW s \in Seq(R), NEW x \in R
    PROVE  /\ Append(s, x) \in Seq(R) /\ Len(Append(s, x)) = Len(s) + 1
           /\ Append(s, x) # <<>>
           /\ Append(s, x)[Len(s) + 1] = x
           /\ \A j \in 1..Len(s) : Append(s, x)[j] = s[j]
OBVIOUS

\* The records of a call, a future and a filter, with fields replaced.
LEMMA CallerRecords ==
    ASSUME NEW q \in CallerRecord, NEW at \in Place
    PROVE  /\ [q EXCEPT !.at = at] \in CallerRecord
           /\ \A b \in BOOLEAN :
                 [q EXCEPT !.at = at, !.again = b] \in CallerRecord
           /\ \A on \in Future \cup {NoFuture0} :
                 [q EXCEPT !.at = at, !.on = on] \in CallerRecord
           /\ \A got \in SUBSET Mutation :
                 [q EXCEPT !.at = at, !.got = got] \in CallerRecord
           /\ \A object \in Nat :
                 [q EXCEPT !.object = object, !.at = at] \in CallerRecord
BY DEF CallerRecord

\* The record of a call that has not begun or is done.
LEMMA RestRecord ==
    /\ Rest \in CallerRecord /\ [Rest EXCEPT !.at = "done"] \in CallerRecord
    /\ [Rest EXCEPT !.at = "done"].at = "done"
    /\ [Rest EXCEPT !.at = "done"].again = FALSE
<1>1. \A q \in CallerRecord : /\ [q EXCEPT !.at = "done"].at = "done"
                              /\ [q EXCEPT !.at = "done"].again = q.again
  BY DEF CallerRecord
<1>2. Rest \in CallerRecord /\ Rest.again = FALSE
  BY DEF Rest, CallerRecord, Place
<1>3. \A q \in CallerRecord : [q EXCEPT !.at = "done"] \in CallerRecord
  BY CallerRecords DEF Place
<1> HIDE DEF Rest
<1> QED
  BY <1>1, <1>2, <1>3

\* The records of a load.
LEMMA LoadRecords ==
    /\ Unused \in LoadRecord
    /\ \A q \in LoadRecord :
          \A at \in {"none", "asking", "rows", "loaded", "failed"} :
             [q EXCEPT !.at = at] \in LoadRecord
    /\ \A S \in SUBSET Mutation : [at |-> "rows", rows |-> S] \in LoadRecord
BY DEF Unused, LoadRecord

\* A future is given another state.
LEMMA FutureSet ==
    ASSUME futures \in [Future -> LoadRecord], NEW f \in Future,
           NEW x \in LoadRecord
    PROVE  [futures EXCEPT ![f] = x] \in [Future -> LoadRecord]
OBVIOUS

\* A step that changes only where one call is.
LEMMA Moved ==
    ASSUME ShapesOK, NEW c \in Caller, NEW r \in CallerRecord,
           caller' = [caller EXCEPT ![c] = r]
    PROVE  /\ caller' \in [Caller -> CallerRecord]
           /\ caller'[c] = r
           /\ \A d \in Caller : d # c => caller'[d] = caller[d]
BY DEF ShapesOK

\* Assignments to fields of a call, besides `Step`, and what the call becomes.
StepOn(c, at, on) == caller' = [caller EXCEPT ![c].at = at, ![c].on = on]
StepGot(c, at, got) == caller' = [caller EXCEPT ![c].at = at, ![c].got = got]
StepObject(c, at, object) ==
    caller' = [caller EXCEPT ![c].object = object, ![c].at = at]

\* What a call's record becomes when only its place changes, ...
LEMMA ToAt ==
    ASSUME ShapesOK, NEW c \in Caller, NEW at \in Place,
           Step(c, at)
    PROVE  \E r \in CallerRecord :
              /\ caller' = [caller EXCEPT ![c] = r]
              /\ r.at = at /\ r.got = caller[c].got /\ r.on = caller[c].on
              /\ r.object = caller[c].object /\ r.again = caller[c].again
<1>1. PICK q \in CallerRecord : q = caller[c]
  BY DEF ShapesOK
<1> DEFINE r == [q EXCEPT !.at = at]
<1>2. caller' = [caller EXCEPT ![c] = r]
  BY <1>1 DEF ShapesOK, Step
<1>3. r \in CallerRecord
  BY CallerRecords
<1>4. /\ r.at = at /\ r.got = q.got /\ r.on = q.on
      /\ r.object = q.object /\ r.again = q.again
  BY DEF CallerRecord
<1> HIDE DEF r
<1> QED
  BY <1>1, <1>2, <1>3, <1>4

\* ... when it also awaits a future, ...
LEMMA ToOn ==
    ASSUME ShapesOK, NEW c \in Caller, NEW at \in Place,
           NEW on \in Future \cup {NoFuture0},
           StepOn(c, at, on)
    PROVE  \E r \in CallerRecord :
              /\ caller' = [caller EXCEPT ![c] = r]
              /\ r.at = at /\ r.got = caller[c].got /\ r.on = on
              /\ r.object = caller[c].object /\ r.again = caller[c].again
<1>1. PICK q \in CallerRecord : q = caller[c]
  BY DEF ShapesOK
<1> DEFINE r == [q EXCEPT !.at = at, !.on = on]
<1>2. caller' = [caller EXCEPT ![c] = r]
  BY <1>1 DEF ShapesOK, StepOn
<1>3. r \in CallerRecord
  BY CallerRecords
<1>4. /\ r.at = at /\ r.got = q.got /\ r.on = on
      /\ r.object = q.object /\ r.again = q.again
  BY DEF CallerRecord
<1> HIDE DEF r
<1> QED
  BY <1>1, <1>2, <1>3, <1>4

\* ... when it also gets rows, ...
LEMMA ToGot ==
    ASSUME ShapesOK, NEW c \in Caller, NEW at \in Place,
           NEW got \in SUBSET Mutation,
           StepGot(c, at, got)
    PROVE  \E r \in CallerRecord :
              /\ caller' = [caller EXCEPT ![c] = r]
              /\ r.at = at /\ r.got = got /\ r.on = caller[c].on
              /\ r.object = caller[c].object /\ r.again = caller[c].again
<1>1. PICK q \in CallerRecord : q = caller[c]
  BY DEF ShapesOK
<1> DEFINE r == [q EXCEPT !.at = at, !.got = got]
<1>2. caller' = [caller EXCEPT ![c] = r]
  BY <1>1 DEF ShapesOK, StepGot
<1>3. r \in CallerRecord
  BY CallerRecords
<1>4. /\ r.at = at /\ r.got = got /\ r.on = q.on
      /\ r.object = q.object /\ r.again = q.again
  BY DEF CallerRecord
<1> HIDE DEF r
<1> QED
  BY <1>1, <1>2, <1>3, <1>4

\* ... and when it also takes the filter in use.
LEMMA ToObject ==
    ASSUME ShapesOK, NEW c \in Caller, NEW at \in Place, NEW object \in Nat,
           StepObject(c, at, object)
    PROVE  \E r \in CallerRecord :
              /\ caller' = [caller EXCEPT ![c] = r]
              /\ r.at = at /\ r.got = caller[c].got /\ r.on = caller[c].on
              /\ r.object = object /\ r.again = caller[c].again
<1>1. PICK q \in CallerRecord : q = caller[c]
  BY DEF ShapesOK
<1> DEFINE r == [q EXCEPT !.object = object, !.at = at]
<1>2. caller' = [caller EXCEPT ![c] = r]
  BY <1>1 DEF ShapesOK, StepObject
<1>3. r \in CallerRecord
  BY CallerRecords
<1>4. /\ r.at = at /\ r.got = q.got /\ r.on = q.on
      /\ r.object = object /\ r.again = q.again
  BY DEF CallerRecord
<1> HIDE DEF r
<1> QED
  BY <1>1, <1>2, <1>3, <1>4

\* The rows of a scope are mutations, and have what was answered of it.
LEMMA RowsOfScope ==
    ASSUME ShapesOK, NEW scope
    PROVE  /\ RowsOf(scope) \in SUBSET Mutation
           /\ \A m \in answers : m.scope = scope /\ m.key \notin expired
                                     => m \in RowsOf(scope)
BY DEF ShapesOK, RowsOf

-----------------------------------------------------------------------------
(* What a step may do to the filters while calls are under way.             *)

\* Rows, answers and expirations only accumulate, filters only grow, and what is
\* answered is in the filter in use, unless that is replaced.
Grows ==
    /\ rows \subseteq rows' /\ answers \subseteq answers'
    /\ expired \subseteq expired'
    /\ forgot => forgot'
    /\ Len(objects) <= Len(objects')
    /\ \A i \in 1..Len(objects) : objects[i].has \subseteq objects'[i].has
    /\ Len(objects') = Len(objects) =>
          \A m \in answers' : Loaded => m \in answers \/ m \in objects'[Len(objects)].has

\* Such a step disturbs no call.
LEMMA Undisturbed ==
    ASSUME ShapesOK, ShapesOK', Grows, NEW d \in Caller,
           NEW r \in CallerRecord, CallOK(d, r)
    PROVE  CallOK(d, r)'
<1> USE DEF CallOK, ShapesOK, CallerRecord
<1>0. Len(objects) \in Nat /\ Len(objects') \in Nat
  OBVIOUS
<1>1. PlaceOK(d, r)'
  <2>1. Loaded => Loaded'
    BY <1>0 DEF Grows, Loaded
  <2> QED
    BY <1>0, <2>1 DEF PlaceOK, Grows
<1>2. ScanOK(d, r)'
  <2> SUFFICES ASSUME r.at = "scanned" PROVE ScanOK(d, r)'
    BY DEF ScanOK
  <2>1. Loaded /\ r.object \in 1..Len(objects)
    BY DEF PlaceOK
  <2>2. CASE r.object = Len(objects')
    <3>1. Len(objects') = Len(objects) /\ r.object = Len(objects)
      BY <1>0, <2>1, <2>2 DEF Grows
    <3>2. objects[r.object].has \subseteq objects'[r.object].has
      BY <2>1 DEF Grows
    <3>3. \A m \in answers' : m \in answers \/ m \in objects'[r.object].has
      BY <2>1, <3>1 DEF Grows
    <3> QED
      BY <3>1, <3>2, <3>3 DEF ScanOK, Grows
  <2>3. CASE r.object # Len(objects')
    BY <2>3 DEF ScanOK, Grows
  <2> QED
    BY <2>2, <2>3
<1>3. AgainOK(d, r)'
  BY <1>0 DEF PlaceOK, AgainOK, Grows
<1> QED
  BY <1>1, <1>2, <1>3

\* A step of one call keeps the invariant of all, if it keeps its own.
LEMMA OneMoves ==
    ASSUME IdempotentInv, ShapesOK', Grows, FilterCovers', NEW c \in Caller,
           NEW r \in CallerRecord, caller' = [caller EXCEPT ![c] = r],
           CallOK(c, r)'
    PROVE  IdempotentInv'
<1>1. caller'[c] = r /\ \A d \in Caller : d # c => caller'[d] = caller[d]
  BY Moved DEF IdempotentInv
<1>2. ASSUME NEW d \in Caller PROVE CallOK(d, caller[d])'
  <2>1. CASE d = c
    BY <1>1, <2>1 DEF CallOK, PlaceOK, ScanOK, AgainOK
  <2>2. CASE d # c
    <3>1. PICK q \in CallerRecord : q = caller[d]
      BY DEF IdempotentInv, ShapesOK
    <3>2. CallOK(d, q)'
      BY <3>1, Undisturbed DEF IdempotentInv, CallsOK
    <3> QED
      BY <1>1, <2>2, <3>1, <3>2 DEF CallOK, PlaceOK, ScanOK, AgainOK
  <2> QED
    BY <2>1, <2>2
<1> QED
  BY <1>2 DEF IdempotentInv, CallsOK

\* So does a step of no call.
LEMMA NoneMoves ==
    ASSUME IdempotentInv, ShapesOK', Grows, FilterCovers', caller' = caller
    PROVE  IdempotentInv'
<1>1. ASSUME NEW d \in Caller PROVE CallOK(d, caller[d])'
  <2>1. PICK q \in CallerRecord : q = caller[d]
    BY DEF IdempotentInv, ShapesOK
  <2>2. CallOK(d, q)'
    BY <2>1, Undisturbed DEF IdempotentInv, CallsOK
  <2> QED
    BY <2>1, <2>2 DEF CallOK, PlaceOK, ScanOK, AgainOK
<1> QED
  BY <1>1 DEF IdempotentInv, CallsOK

\* The filters and what they must cover stay as they are.
LEMMA Quiet ==
    ASSUME IdempotentInv, rows \subseteq rows',
           UNCHANGED <<objects, answers, expired, forgot>>
    PROVE  Grows /\ FilterCovers'
BY DEF IdempotentInv, ShapesOK, Grows, FilterCovers, Loaded

-----------------------------------------------------------------------------
(* The steps of a call that leave the filters as they are.                  *)

\* A call ends, wherever it was.
LEMMA EndsOK ==
    ASSUME IdempotentInv, ShapesOK', Grows, FilterCovers', NEW c \in Caller,
           Ends(c)
    PROVE  IdempotentInv'
<1> DEFINE r == [Rest EXCEPT !.at = "done"]
<1>1. r \in CallerRecord /\ r.at = "done" /\ r.again = FALSE
  BY RestRecord
<1>2. caller' = [caller EXCEPT ![c] = r]
  BY DEF Ends
<1> HIDE DEF r
<1>3. CallOK(c, r)'
  BY <1>1 DEF CallOK, PlaceOK, ScanOK, AgainOK
<1> QED
  BY <1>1, <1>2, <1>3, OneMoves

\* A call that ends has a record of its type.
LEMMA EndsShape ==
    ASSUME ShapesOK, NEW c \in Caller, Ends(c)
    PROVE  caller' \in [Caller -> CallerRecord]
BY RestRecord DEF Ends, ShapesOK

\* A call is made, again or for the first time, and may start a preload.
LEMMA StartMutationStep ==
    ASSUME IdempotentInv, NEW c \in Caller, StartMutation(c)
    PROVE  IdempotentInv'
<1> USE DEF IdempotentInv
<1>1. Grows /\ FilterCovers'
  BY Quiet DEF StartMutation
<1>2. futures' \in [Future -> LoadRecord] /\ mut_loads' \in Future \cup {NoFuture0}
  <2>1. <<c, "preload">> \in Future
    BY DEF Future
  <2>2. [futures[<<c, "preload">>] EXCEPT !.at = "asking"] \in LoadRecord
    BY <2>1, LoadRecords DEF ShapesOK
  <2> QED
    BY <2>1, <2>2, FutureSet DEF StartMutation, ShapesOK
<1>3. CASE Mine(c).key \in expired
  <2>1. Ends(c)
    BY <1>3 DEF StartMutation
  <2>2. ShapesOK'
    BY <1>2, <2>1, EndsShape DEF StartMutation, ShapesOK
  <2> QED
    BY <1>1, <2>1, <2>2, EndsOK
<1>4. CASE Mine(c).key \notin expired
  <2>1. PICK q \in CallerRecord : q = caller[c]
    BY DEF ShapesOK
  <2>2. PICK r \in CallerRecord :
           /\ caller' = [caller EXCEPT ![c] = r]
           /\ r.at = "check"
           /\ r.again => Mine(c) \in answers
    <3> DEFINE r == [q EXCEPT !.at = "check", !.again = Mine(c) \in answers]
    <3>1. r \in CallerRecord
      <4>1. (Mine(c) \in answers) \in BOOLEAN
        OBVIOUS
      <4>2. \A b \in BOOLEAN : [q EXCEPT !.at = "check", !.again = b] \in CallerRecord
        BY CallerRecords DEF Place
      <4> QED
        BY <4>1, <4>2, Zenon
    <3>2. caller' = [caller EXCEPT ![c] = r]
      BY <1>4, <2>1 DEF StartMutation, ShapesOK
    <3>3. r.at = "check" /\ (r.again => Mine(c) \in answers)
      BY DEF CallerRecord
    <3> HIDE DEF r
    <3> QED
      BY <3>1, <3>2, <3>3
  <2>4. ShapesOK'
    BY <1>2, <2>2, Moved DEF StartMutation, ShapesOK
  <2>5. CallOK(c, r)'
    BY <2>2 DEF CallOK, PlaceOK, ScanOK, AgainOK, StartMutation
  <2> QED
    BY <1>1, <2>2, <2>4, <2>5, OneMoves
<1> QED
  BY <1>3, <1>4

\* A preload hears from the database, fails, or is cleaned up.
LEMMA PreloadStep ==
    ASSUME IdempotentInv, NEW c \in Caller, PreloadRows(c) \/ PreloadCleanup(c)
    PROVE  IdempotentInv'
<1> USE DEF IdempotentInv
<1>1. Grows /\ FilterCovers'
  BY Quiet DEF PreloadRows, PreloadCleanup
<1>2. <<c, "preload">> \in Future
  BY DEF Future
<1>3. futures' \in [Future -> LoadRecord]
  <2> DEFINE f == <<c, "preload">>
  <2>1. /\ [at |-> "rows", rows |-> RowsOf(Plain)] \in LoadRecord
        /\ [futures[f] EXCEPT !.at = "failed"] \in LoadRecord
        /\ Unused \in LoadRecord
    BY <1>2, LoadRecords, RowsOfScope DEF ShapesOK
  <2>2. PICK x \in LoadRecord : futures' = [futures EXCEPT ![f] = x]
    BY <2>1 DEF PreloadRows, PreloadCleanup
  <2> QED
    BY <1>2, <2>2, FutureSet DEF ShapesOK
<1>4. ShapesOK' /\ caller' = caller
  BY <1>3 DEF ShapesOK, PreloadRows, PreloadCleanup
<1> QED
  BY <1>1, <1>4, NoneMoves

\* The load of a call itself: its future is registered.
LEMMA OwnLoadOK ==
    ASSUME IdempotentInv, NEW c \in Caller, OwnLoad(c)
    PROVE  /\ \E r \in CallerRecord : /\ caller' = [caller EXCEPT ![c] = r]
                                      /\ r.at = "recover"
                                      /\ r.again = caller[c].again
           /\ mut_loads' \in Future \cup {NoFuture0}
           /\ futures' \in [Future -> LoadRecord]
<1> USE DEF IdempotentInv
<1>1. \E r \in CallerRecord : /\ caller' = [caller EXCEPT ![c] = r]
                              /\ r.at = "recover" /\ r.again = caller[c].again
  <2>1. StepOn(c, "recover", NoFuture0) /\ "recover" \in Place
    BY DEF OwnLoad, StepOn, Place
  <2> QED
    BY <2>1, ToOn
<1>2. mut_loads' \in Future
  BY DEF OwnLoad, Future
<1>3. [Unused EXCEPT !.at = "asking"] \in LoadRecord /\ Unused \in LoadRecord
  BY LoadRecords
<1> HIDE DEF Unused
<1>4. futures' \in [Future -> LoadRecord]
  BY <1>3 DEF OwnLoad, ShapesOK
<1> QED
  BY <1>1, <1>2, <1>4

\* The mutations are loaded, being loaded, or the call loads them itself.
LEMMA CheckLoadedStep ==
    ASSUME IdempotentInv, NEW c \in Caller, CheckLoaded(c)
    PROVE  IdempotentInv'
<1> USE DEF IdempotentInv
<1>1. Grows /\ FilterCovers'
  BY Quiet DEF CheckLoaded
<1>2. CallOK(c, caller[c]) /\ caller[c].at = "check"
  BY DEF CallsOK, CheckLoaded
<1>3. PICK r \in CallerRecord :
         /\ caller' = [caller EXCEPT ![c] = r]
         /\ r.at \in {"get", "await", "recover"}
         /\ r.at = "get" => Loaded
         /\ r.at = "await" => r.on \in Future
         /\ r.again = caller[c].again
  <2>1. CASE Loaded /\ Step(c, "get")
    <3>1. "get" \in Place
      BY DEF Place
    <3> QED
      BY <2>1, <3>1, ToAt
  <2>2. CASE /\ ~Loaded /\ mut_loads # NoFuture0
             /\ caller' = [caller EXCEPT ![c].at = "await", ![c].on = mut_loads]
    <3>1. /\ StepOn(c, "await", mut_loads) /\ "await" \in Place
          /\ mut_loads \in Future
      BY <2>2 DEF StepOn, Place, ShapesOK
    <3> QED
      BY <3>1, ToOn
  <2>3. CASE OwnLoad(c)
    BY <2>3, OwnLoadOK
  <2> QED
    BY <2>1, <2>2, <2>3 DEF CheckLoaded
<1>4. /\ mut_loads' \in Future \cup {NoFuture0}
      /\ futures' \in [Future -> LoadRecord]
  BY OwnLoadOK DEF CheckLoaded, ShapesOK
<1>5. ShapesOK'
  BY <1>3, <1>4, Moved DEF CheckLoaded, ShapesOK
<1>6. CallOK(c, r)'
  BY <1>2, <1>3 DEF CallOK, PlaceOK, ScanOK, AgainOK, CheckLoaded, Loaded
<1> QED
  BY <1>1, <1>3, <1>5, <1>6, OneMoves

\* The rows are read, of the scope outside workflows or of a workflow.
LEMMA RecoverRowsStep ==
    ASSUME IdempotentInv, NEW c \in Caller, RecoverRows(c)
    PROVE  IdempotentInv'
<1> USE DEF IdempotentInv
<1>1. Grows /\ FilterCovers'
  BY Quiet DEF RecoverRows
<1>2. CallOK(c, caller[c]) /\ caller[c].at = "recover"
  BY DEF CallsOK, RecoverRows
<1>3. PICK r \in CallerRecord :
         /\ caller' = [caller EXCEPT ![c] = r]
         /\ r.at = "land" /\ r.again = caller[c].again
  <2>1. StepGot(c, "land", RowsOf(Plain)) /\ "land" \in Place
    BY DEF RecoverRows, StepGot, Place
  <2> QED
    BY <2>1, RowsOfScope, ToGot
<1>4. ShapesOK'
  BY <1>3, Moved DEF RecoverRows, ShapesOK
<1>5. CallOK(c, r)'
  BY <1>2, <1>3 DEF CallOK, PlaceOK, ScanOK, AgainOK, RecoverRows
<1> QED
  BY <1>1, <1>3, <1>4, <1>5, OneMoves

\* The filter in use covers the scope, or the scope is scanned first.
LEMMA GetMutationStep ==
    ASSUME IdempotentInv, NEW c \in Caller, GetMutation(c)
    PROVE  IdempotentInv'
<1> USE DEF IdempotentInv
<1>1. Grows /\ FilterCovers'
  BY Quiet DEF GetMutation
<1>2. CallOK(c, caller[c]) /\ caller[c].at = "get"
  BY DEF CallsOK, GetMutation
<1>3. Loaded /\ Len(objects) \in Nat /\ Len(objects) \in 1..Len(objects)
  BY <1>2 DEF CallOK, PlaceOK, ShapesOK, Loaded
<1>4. PICK r \in CallerRecord :
         /\ caller' = [caller EXCEPT ![c] = r]
         /\ r.object = Len(objects) /\ r.again = caller[c].again
         /\ \/ r.at = "scan"
            \/ /\ r.at = "lookup"
               /\ Mine(c).scope \in objects[Len(objects)].scopes \cup {Plain}
  <2> DEFINE covered == Mine(c).scope \in objects[Len(objects)].scopes \cup {Plain}
  <2>1. CASE covered
    <3>1. StepObject(c, "lookup", Len(objects)) /\ "lookup" \in Place
      BY <2>1 DEF GetMutation, StepObject, Place
    <3> QED
      BY <1>3, <2>1, <3>1, ToObject
  <2>2. CASE ~covered
    <3>1. StepObject(c, "scan", Len(objects)) /\ "scan" \in Place
      BY <2>2 DEF GetMutation, StepObject, Place
    <3> HIDE DEF covered
    <3> QED
      BY <1>3, <3>1, ToObject
  <2> QED
    BY <2>1, <2>2
<1>5. ShapesOK'
  BY <1>4, Moved DEF GetMutation, ShapesOK
<1>6. /\ caller[c].again => Mine(c) \in answers
      /\ UNCHANGED <<objects, answers, expired, forgot>>
  BY <1>2 DEF CallOK, AgainOK, GetMutation
<1>7. PlaceOK(c, r)'
  BY <1>3, <1>4, <1>6 DEF PlaceOK, Loaded
<1>8. ScanOK(c, r)'
  BY <1>4 DEF ScanOK
<1>9. AgainOK(c, r)'
  BY <1>3, <1>4, <1>6 DEF AgainOK, FilterCovers
<1> QED
  BY <1>1, <1>4, <1>5, <1>7, <1>8, <1>9, OneMoves DEF CallOK

\* A scan finds every row of its scope that has not expired.
LEMMA ScanScopeStep ==
    ASSUME IdempotentInv, NEW c \in Caller, ScanScope(c)
    PROVE  IdempotentInv'
<1> USE DEF IdempotentInv
<1>1. Grows /\ FilterCovers'
  BY Quiet DEF ScanScope
<1>2. CallOK(c, caller[c]) /\ caller[c].at = "scan"
  BY DEF CallsOK, ScanScope
<1>3. PICK r \in CallerRecord :
         /\ caller' = [caller EXCEPT ![c] = r]
         /\ r.at = "scanned" /\ r.again = caller[c].again
         /\ r.got = RowsOf(Mine(c).scope) /\ r.object = caller[c].object
  <2>1. StepGot(c, "scanned", RowsOf(Mine(c).scope)) /\ "scanned" \in Place
    BY DEF ScanScope, StepGot, Place
  <2> QED
    BY <2>1, RowsOfScope, ToGot
<1>4. ShapesOK'
  BY <1>3, Moved DEF ScanScope, ShapesOK
<1>5. UNCHANGED <<objects, answers, expired, forgot>>
  BY DEF ScanScope
<1>6. \A m \in answers : m.scope = Mine(c).scope /\ m.key \notin expired
                            => m \in r.got
  BY <1>3, RowsOfScope
<1>7. PlaceOK(c, r)' /\ AgainOK(c, r)'
  BY <1>2, <1>3, <1>5 DEF CallOK, PlaceOK, AgainOK, Loaded
<1>8. ScanOK(c, r)'
  BY <1>2, <1>3, <1>5, <1>6 DEF CallOK, AgainOK, ScanOK
<1> QED
  BY <1>1, <1>3, <1>4, <1>7, <1>8, OneMoves DEF CallOK

\* The mutation is found in the database.
LEMMA FoundStep ==
    ASSUME IdempotentInv, NEW c \in Caller, Found(c)
    PROVE  IdempotentInv'
<1>1. Grows /\ FilterCovers'
  BY Quiet DEF Found
<1>2. Ends(c) /\ ShapesOK'
  BY EndsShape DEF Found, IdempotentInv, ShapesOK
<1> QED
  BY <1>1, <1>2, EndsOK

\* It is not: then it was not answered before this call was made, or the key
\* has expired, or the filter is one that misses rows.
LEMMA NotFoundStep ==
    ASSUME IdempotentInv, NEW c \in Caller, NotFound(c)
    PROVE  IdempotentInv'
<1> USE DEF IdempotentInv
<1>1. Grows /\ FilterCovers'
  BY Quiet DEF NotFound
<1>2. CallOK(c, caller[c]) /\ caller[c].at = "lookup"
  BY DEF CallsOK, NotFound
<1>3. PICK r \in CallerRecord : /\ caller' = [caller EXCEPT ![c] = r]
                                /\ r.at = "lock" /\ r.again = caller[c].again
  <2>1. Step(c, "lock") /\ "lock" \in Place
    BY DEF NotFound, Place
  <2> QED
    BY <2>1, ToAt
<1>4. ShapesOK'
  BY <1>3, Moved DEF NotFound, ShapesOK
<1>5. UNCHANGED <<objects, answers, expired, forgot>>
  BY DEF NotFound
<1>6. Mine(c) \in objects[caller[c].object].has => Mine(c) \notin rows
  BY DEF NotFound, Keys, Ruled
<1>7. PlaceOK(c, r)' /\ ScanOK(c, r)'
  BY <1>2, <1>3, <1>5 DEF CallOK, PlaceOK, ScanOK, Loaded
<1>8. AgainOK(c, r)'
  BY <1>2, <1>3, <1>5, <1>6 DEF CallOK, AgainOK, ShapesOK
<1> QED
  BY <1>1, <1>3, <1>4, <1>7, <1>8, OneMoves DEF CallOK

\* It is executed, holding the lock, and stored.
LEMMA ExecuteStep ==
    ASSUME IdempotentInv, NEW c \in Caller, Execute(c) \/ StoreRow(c)
    PROVE  IdempotentInv'
<1> USE DEF IdempotentInv
<1>1. Grows /\ FilterCovers'
  BY Quiet DEF Execute, StoreRow
<1>2. CallOK(c, caller[c]) /\ caller[c].at \in {"lock", "body"}
  BY DEF CallsOK, Execute, StoreRow
<1>3. PICK r \in CallerRecord :
         /\ caller' = [caller EXCEPT ![c] = r]
         /\ r.at \in {"body", "remember"} /\ r.again = caller[c].again
         /\ r.at = "remember" => Mine(c) \in rows'
  <2>1. \E at \in {"body", "remember"} :
           /\ Step(c, at) /\ at \in Place
           /\ at = "remember" => Mine(c) \in rows'
    BY DEF Execute, StoreRow, Place
  <2> QED
    BY <2>1, ToAt
<1>4. ShapesOK'
  <2>1. Mine(c) \in Mutation
    BY DEF Mine, Mutation
  <2>2. executions' \in [Mutation -> Nat]
    BY <2>1 DEF Execute, StoreRow, ShapesOK
  <2>3. turn' \in {{}} \cup {{d} : d \in Caller}
    BY DEF Execute, StoreRow, ShapesOK
  <2> QED
    BY <1>3, <2>1, <2>2, <2>3, Moved DEF Execute, StoreRow, ShapesOK
<1>5. UNCHANGED <<objects, answers, expired, forgot>>
  BY DEF Execute, StoreRow
<1>6. CallOK(c, r)'
  BY <1>2, <1>3, <1>5 DEF CallOK, PlaceOK, ScanOK, AgainOK, Loaded
<1> QED
  BY <1>1, <1>3, <1>4, <1>6, OneMoves

\* A call goes away: its load, if any, is failed and no longer registered.
LEMMA ResolvesShape ==
    ASSUME ShapesOK, NEW c \in Caller, NEW at \in {"loaded", "failed"},
           Resolves(c, at), Unregister(c)
    PROVE  /\ futures' \in [Future -> LoadRecord]
           /\ mut_loads' \in Future \cup {NoFuture0} /\ broken' \in BOOLEAN
<1>1. <<c, "own">> \in Future
  BY DEF Future
<1>2. PICK x \in LoadRecord : futures' = [futures EXCEPT ![<<c, "own">>] = x]
  <2>1. Unused \in LoadRecord /\ Unused.at = "none"
    BY LoadRecords DEF Unused
  <2>2. \A a \in {"none", "loaded", "failed"} :
           [Unused EXCEPT !.at = a] \in LoadRecord
    BY LoadRecords
  <2> HIDE DEF Unused
  <2> QED
    BY <2>1, <2>2 DEF Resolves
<1>3. futures' \in [Future -> LoadRecord]
  BY <1>1, <1>2, FutureSet DEF ShapesOK
<1> QED
  BY <1>3 DEF Unregister, ShapesOK

\* At most one call has the turn after one gave it back.
LEMMA FreesShape ==
    ASSUME ShapesOK, NEW c \in Caller, Frees(c)
    PROVE  turn' \in {{}} \cup {{d} : d \in Caller}
<1>1. CASE turn = {}
  BY <1>1 DEF Frees
<1>2. CASE \E d \in Caller : turn = {d}
  <2>1. PICK d \in Caller : turn = {d}
    BY <1>2
  <2>2. turn' = IF d = c THEN {} ELSE {d}
    BY <2>1 DEF Frees
  <2> QED
    BY <2>2
<1> QED
  BY <1>1, <1>2 DEF ShapesOK

\* A call that is cancelled, at whichever await, keeps the invariant.
LEMMA CancelMutationStep ==
    ASSUME IdempotentInv, NEW c \in Caller, CancelMutation(c)
    PROVE  IdempotentInv'
<1> USE DEF IdempotentInv
<1>1. Grows /\ FilterCovers'
  BY Quiet DEF CancelMutation
<1>2. Ends(c) /\ Frees(c)
  BY DEF CancelMutation
<1>3. /\ futures' \in [Future -> LoadRecord]
      /\ mut_loads' \in Future \cup {NoFuture0} /\ broken' \in BOOLEAN
  <2>1. CASE caller[c].at \in {"recover", "land"}
    BY <2>1, ResolvesShape DEF CancelMutation
  <2>2. CASE caller[c].at \notin {"recover", "land"}
    BY <2>2 DEF CancelMutation, ShapesOK
  <2> QED
    BY <2>1, <2>2
<1>4. ShapesOK'
  BY <1>2, <1>3, EndsShape, FreesShape DEF CancelMutation, ShapesOK
<1> QED
  BY <1>1, <1>2, <1>4, EndsOK

-----------------------------------------------------------------------------
(* The steps that put a filter in use.                                      *)

\* Unless it misses rows, a new filter covers what was answered outside of
\* workflows, and it is marked for no workflow.
LEMMA PutInUseOK ==
    ASSUME IdempotentInv, NEW has \in SUBSET Mutation, PutInUse(has),
           UNCHANGED <<rows, answers, expired>>
    PROVE  /\ objects' \in Seq(Filter) /\ forgot' \in BOOLEAN /\ Loaded'
           /\ Grows /\ FilterCovers'
<1> USE DEF IdempotentInv
<1> DEFINE x == [has |-> has, scopes |-> {}]
<1>1. x \in Filter /\ x.has = has /\ x.scopes = {}
  BY DEF Filter
<1>2. objects' = Append(objects, x) /\ Len(objects) \in Nat
  BY DEF PutInUse, ShapesOK
<1> HIDE DEF x
<1>3. /\ objects' \in Seq(Filter) /\ Len(objects') = Len(objects) + 1
      /\ objects' # <<>> /\ objects'[Len(objects')] = x
      /\ \A j \in 1..Len(objects) : objects'[j] = objects[j]
  BY <1>1, <1>2, Appended DEF ShapesOK
<1>4. forgot' \in BOOLEAN /\ (forgot => forgot')
  BY DEF PutInUse, ShapesOK
<1>5. ~forgot' => RowsOf(Plain) \subseteq has
  BY DEF PutInUse
<1>6. Grows
  BY <1>2, <1>3, <1>4 DEF Grows
<1>7. FilterCovers'
  BY <1>1, <1>3, <1>5, RowsOfScope DEF FilterCovers
<1> QED
  BY <1>3, <1>4, <1>6, <1>7 DEF Loaded

\* A waiter sees its future done.
LEMMA LoadResolvedStep ==
    ASSUME IdempotentInv, NEW c \in Caller, LoadResolved(c)
    PROVE  IdempotentInv'
<1> USE DEF IdempotentInv
<1>1. CallOK(c, caller[c]) /\ caller[c].at = "await"
  BY DEF CallsOK, LoadResolved
<1>2. PICK f \in Future : f = caller[c].on
  BY <1>1 DEF CallOK, PlaceOK
<1>3. "get" \in Place /\ NoFuture0 \in Future \cup {NoFuture0}
  BY DEF Place
<1>4. ASSUME StepOn(c, "get", NoFuture0)
      PROVE  \E r \in CallerRecord :
                /\ caller' = [caller EXCEPT ![c] = r]
                /\ r.at = "get" /\ r.again = caller[c].again
  BY <1>3, <1>4, ToOn
<1>5. ASSUME NEW r \in CallerRecord, r.at = "get", r.again = caller[c].again,
             Loaded', UNCHANGED <<answers, expired>>
      PROVE  CallOK(c, r)'
  BY <1>1, <1>5 DEF CallOK, PlaceOK, ScanOK, AgainOK
<1>6. Forgets(c, f) => futures' \in [Future -> LoadRecord]
  BY LoadRecords, FutureSet DEF Forgets, ShapesOK
<1>7. UNCHANGED <<rows, turn, prepared, expired, executions, answers>>
  BY DEF LoadResolved
<1>8. CASE /\ futures[f].at = "rows" /\ ~Loaded
           /\ PutInUse(futures[f].rows)
           /\ broken' = (broken \/ mut_loads # f)
           /\ mut_loads' = IF mut_loads = f THEN NoFuture0 ELSE mut_loads
           /\ IF mut_loads = f
              THEN caller' = [caller EXCEPT ![c].at = "get", ![c].on = NoFuture0]
              ELSE Ends(c)
           /\ Forgets(c, f)
  <2>1. futures[f].rows \in SUBSET Mutation
    BY DEF ShapesOK, LoadRecord
  <2>2. /\ objects' \in Seq(Filter) /\ forgot' \in BOOLEAN /\ Loaded'
        /\ Grows /\ FilterCovers'
    BY <1>7, <1>8, <2>1, PutInUseOK
  <2>3. mut_loads' \in Future \cup {NoFuture0} /\ broken' \in BOOLEAN
    BY <1>8 DEF ShapesOK
  <2>4. CASE mut_loads = f
    <3>1. StepOn(c, "get", NoFuture0)
      BY <1>8, <2>4 DEF StepOn
    <3>2. PICK r \in CallerRecord :
             /\ caller' = [caller EXCEPT ![c] = r]
             /\ r.at = "get" /\ r.again = caller[c].again
      BY <1>4, <3>1
    <3>3. ShapesOK'
      BY <1>6, <1>7, <1>8, <2>2, <2>3, <3>2, Moved DEF ShapesOK
    <3>4. CallOK(c, r)'
      BY <1>5, <1>7, <2>2, <3>2
    <3> QED
      BY <2>2, <3>2, <3>3, <3>4, OneMoves
  <2>5. CASE mut_loads # f
    <3>1. Ends(c)
      BY <1>8, <2>5
    <3>2. ShapesOK'
      BY <1>6, <1>7, <1>8, <2>2, <2>3, <3>1, EndsShape DEF ShapesOK
    <3> QED
      BY <2>2, <3>1, <3>2, EndsOK
  <2> QED
    BY <2>4, <2>5
<1>9. CASE /\ Loaded
           /\ caller' = [caller EXCEPT ![c].at = "get", ![c].on = NoFuture0]
           /\ Forgets(c, f)
           /\ UNCHANGED <<objects, forgot, mut_loads, broken>>
  <2>1. Grows /\ FilterCovers'
    BY <1>7, <1>9, Quiet
  <2>2. StepOn(c, "get", NoFuture0)
    BY <1>9 DEF StepOn
  <2>3. PICK r \in CallerRecord :
           /\ caller' = [caller EXCEPT ![c] = r]
           /\ r.at = "get" /\ r.again = caller[c].again
    BY <1>4, <2>2
  <2>4. ShapesOK'
    BY <1>6, <1>7, <1>9, <2>3, Moved DEF ShapesOK
  <2>5. CallOK(c, r)'
    BY <1>5, <1>7, <1>9, <2>3 DEF Loaded
  <2> QED
    BY <2>1, <2>3, <2>4, <2>5, OneMoves
<1>10. CASE OwnLoad(c) /\ UNCHANGED <<objects, forgot, broken>>
  <2>1. Grows /\ FilterCovers'
    BY <1>7, <1>10, Quiet
  <2>2. PICK r \in CallerRecord :
           /\ caller' = [caller EXCEPT ![c] = r]
           /\ r.at = "recover" /\ r.again = caller[c].again
    BY <1>10, OwnLoadOK
  <2>3. /\ mut_loads' \in Future \cup {NoFuture0}
        /\ futures' \in [Future -> LoadRecord]
    BY <1>10, OwnLoadOK
  <2>4. ShapesOK'
    BY <1>7, <1>10, <2>2, <2>3, Moved DEF ShapesOK
  <2>5. CallOK(c, r)'
    BY <1>1, <1>7, <2>2 DEF CallOK, PlaceOK, ScanOK, AgainOK
  <2> QED
    BY <2>1, <2>2, <2>4, <2>5, OneMoves
<1> QED
  BY <1>2, <1>8, <1>9, <1>10 DEF LoadResolved

\* The rows of a call's own load land.
LEMMA LandRowsStep ==
    ASSUME IdempotentInv, NEW c \in Caller, LandRows(c)
    PROVE  IdempotentInv'
<1> USE DEF IdempotentInv
<1>1. CallOK(c, caller[c]) /\ caller[c].at = "land"
  BY DEF CallsOK, LandRows
<1>2. caller[c].got \in SUBSET Mutation
  BY DEF ShapesOK, CallerRecord
<1>3. UNCHANGED <<rows, turn, prepared, expired, executions, answers>>
  BY DEF LandRows
<1>4. /\ objects' \in Seq(Filter) /\ forgot' \in BOOLEAN /\ Loaded'
      /\ Grows /\ FilterCovers'
  BY <1>2, <1>3, PutInUseOK DEF LandRows
<1>5. /\ futures' \in [Future -> LoadRecord]
      /\ mut_loads' \in Future \cup {NoFuture0} /\ broken' \in BOOLEAN
  BY ResolvesShape DEF LandRows
<1>6. CASE mut_loads = <<c, "own">>
  <2>1. StepGot(c, "get", {}) /\ "get" \in Place
    BY <1>6 DEF LandRows, StepGot, Place
  <2>2. PICK r \in CallerRecord :
           /\ caller' = [caller EXCEPT ![c] = r]
           /\ r.at = "get" /\ r.again = caller[c].again
    BY <2>1, ToGot
  <2>3. ShapesOK'
    BY <1>3, <1>4, <1>5, <2>2, Moved DEF ShapesOK
  <2>4. CallOK(c, r)'
    BY <1>1, <1>3, <1>4, <2>2 DEF CallOK, PlaceOK, ScanOK, AgainOK
  <2> QED
    BY <1>4, <2>2, <2>3, <2>4, OneMoves
<1>7. CASE mut_loads # <<c, "own">>
  <2>1. Ends(c)
    BY <1>7 DEF LandRows
  <2>2. ShapesOK'
    BY <1>3, <1>4, <1>5, <2>1, EndsShape DEF ShapesOK
  <2> QED
    BY <1>4, <2>1, <2>2, EndsOK
<1> QED
  BY <1>6, <1>7

-----------------------------------------------------------------------------
(* The steps that change a filter.                                          *)

\* One filter becomes x, which has all that it had.
LEMMA Widened ==
    ASSUME ShapesOK, NEW i \in 1..Len(objects), NEW x \in Filter,
           objects[i].has \subseteq x.has, objects' = [objects EXCEPT ![i] = x]
    PROVE  /\ objects' \in Seq(Filter) /\ Len(objects') = Len(objects)
           /\ objects'[i] = x
           /\ \A j \in 1..Len(objects) : j # i => objects'[j] = objects[j]
           /\ \A j \in 1..Len(objects) : objects[j].has \subseteq objects'[j].has
<1>1. /\ objects' \in Seq(Filter) /\ Len(objects') = Len(objects)
      /\ objects'[i] = x
      /\ \A j \in 1..Len(objects) : j # i => objects'[j] = objects[j]
  BY Amended DEF ShapesOK
<1> QED
  BY <1>1

\* A filter with a field replaced.
LEMMA FilterRecords ==
    ASSUME NEW q \in Filter
    PROVE  \A S \in SUBSET Mutation : /\ [q EXCEPT !.has = S] \in Filter
                                      /\ [q EXCEPT !.has = S].has = S
                                      /\ [q EXCEPT !.has = S].scopes = q.scopes
BY DEF Filter

\* The filter in use gets mutations that are answered in the same step.
LEMMA Remembered ==
    ASSUME IdempotentInv, Loaded, NEW S \in SUBSET Mutation,
           objects' = [objects EXCEPT ![Len(objects)].has = @ \cup S],
           rows \subseteq rows', answers' = answers \cup S,
           UNCHANGED <<expired, forgot>>
    PROVE  objects' \in Seq(Filter) /\ Grows /\ FilterCovers'
<1> USE DEF IdempotentInv
<1>1. PICK n \in 1..Len(objects) : n = Len(objects) /\ objects[n] \in Filter
  BY DEF ShapesOK, Loaded
<1>2. PICK q \in Filter : q = objects[n]
  BY <1>1
<1>3. q.has \cup S \in SUBSET Mutation
  BY DEF Filter
<1>4. PICK x \in Filter : /\ x = [q EXCEPT !.has = q.has \cup S]
                          /\ x.has = q.has \cup S /\ x.scopes = q.scopes
  BY <1>3, FilterRecords
<1>5. objects' = [objects EXCEPT ![n] = x]
  BY <1>1, <1>2, <1>4 DEF ShapesOK
<1>6. /\ objects' \in Seq(Filter) /\ Len(objects') = Len(objects)
      /\ objects'[n] = x
      /\ \A j \in 1..Len(objects) : objects[j].has \subseteq objects'[j].has
  BY <1>2, <1>4, <1>5, Widened
<1>7. Grows
  BY <1>1, <1>4, <1>6 DEF Grows, ShapesOK
<1>8. FilterCovers'
  BY <1>1, <1>2, <1>4, <1>6 DEF FilterCovers, Loaded
<1> QED
  BY <1>6, <1>7, <1>8

\* What a scan found is added to the filter that it was made for, and the
\* scope is marked.
LEMMA AddScopeStep ==
    ASSUME IdempotentInv, NEW c \in Caller, AddScope(c)
    PROVE  IdempotentInv'
<1> USE DEF IdempotentInv
<1>1. /\ PlaceOK(c, caller[c]) /\ ScanOK(c, caller[c]) /\ AgainOK(c, caller[c])
      /\ caller[c].at = "scanned"
  BY DEF CallsOK, CallOK, AddScope
<1>2. PICK i \in 1..Len(objects) : i = caller[c].object
  BY <1>1 DEF PlaceOK
<1>3. PICK q \in Filter : q = objects[i]
  BY DEF ShapesOK
<1>4. /\ caller[c].got \in SUBSET Mutation /\ Mine(c).scope \in Scope
      /\ UNCHANGED <<answers, expired, forgot>>
  BY DEF ShapesOK, CallerRecord, Mine, Mutation, Scope, AddScope
<1>5. PICK x \in Filter : /\ objects' = [objects EXCEPT ![i] = x]
                          /\ x.has = q.has \cup caller[c].got
                          /\ x.scopes = q.scopes \cup {Mine(c).scope}
  <2> DEFINE y == [has |-> q.has \cup caller[c].got,
                   scopes |-> q.scopes \cup {Mine(c).scope}]
  <2>1. y \in Filter
    BY <1>4 DEF Filter
  <2>2. objects' = [objects EXCEPT ![i] = y]
    BY <1>2, <1>3 DEF AddScope, ShapesOK
  <2> QED
    BY <2>1, <2>2
<1>6. /\ objects' \in Seq(Filter) /\ Len(objects') = Len(objects)
      /\ objects'[i] = x
      /\ \A j \in 1..Len(objects) : j # i => objects'[j] = objects[j]
      /\ \A j \in 1..Len(objects) : objects[j].has \subseteq objects'[j].has
  BY <1>3, <1>5, Widened
<1>7. Grows
  BY <1>4, <1>6 DEF Grows, ShapesOK, AddScope
<1>8. FilterCovers'
  <2>1. CASE i = Len(objects)
    <3>1. \A m \in answers : m.scope = Mine(c).scope /\ m.key \notin expired
                                => m \in x.has
      BY <1>1, <1>2, <1>3, <1>5, <2>1 DEF ScanOK
    <3> QED
      BY <1>1, <1>3, <1>4, <1>5, <1>6, <2>1, <3>1 DEF FilterCovers, PlaceOK
  <2>2. CASE i # Len(objects)
    <3>1. Len(objects) \in 1..Len(objects)
      BY DEF ShapesOK
    <3>2. objects'[Len(objects')] = objects[Len(objects)]
      BY <1>6, <2>2, <3>1
    <3> QED
      BY <1>1, <1>4, <3>2 DEF FilterCovers, PlaceOK
  <2> QED
    BY <2>1, <2>2
<1>9. PICK r \in CallerRecord :
         /\ caller' = [caller EXCEPT ![c] = r]
         /\ r.at = "lookup" /\ r.again = caller[c].again
         /\ r.object = caller[c].object
  <2>1. StepGot(c, "lookup", {}) /\ "lookup" \in Place
    BY DEF AddScope, StepGot, Place
  <2> QED
    BY <2>1, ToGot
<1>10. ShapesOK'
  BY <1>6, <1>9, Moved DEF AddScope, ShapesOK
<1>11. PlaceOK(c, r)' /\ ScanOK(c, r)'
  <2>1. Loaded'
    BY <1>2, <1>6 DEF Loaded, ShapesOK
  <2> QED
    BY <1>2, <1>6, <1>9, <2>1 DEF PlaceOK, ScanOK
<1>12. AgainOK(c, r)'
  BY <1>1, <1>2, <1>4, <1>5, <1>6, <1>9 DEF ScanOK, AgainOK
<1> QED
  BY <1>7, <1>8, <1>9, <1>10, <1>11, <1>12, OneMoves DEF CallOK

\* A mutation that was stored is added to the filter in use, and answered.
LEMMA AddKeyStep ==
    ASSUME IdempotentInv, NEW c \in Caller, AddKey(c)
    PROVE  IdempotentInv'
<1> USE DEF IdempotentInv
<1>1. Loaded /\ {Mine(c)} \in SUBSET Mutation
  BY DEF CallsOK, CallOK, PlaceOK, AddKey, Mine, Mutation
<1>2. objects' \in Seq(Filter) /\ Grows /\ FilterCovers'
  BY <1>1, Remembered DEF AddKey
<1>3. Ends(c) /\ Frees(c)
  BY DEF AddKey
<1>4. answers' \in SUBSET rows'
  BY DEF CallsOK, CallOK, PlaceOK, ShapesOK, AddKey
<1>5. ShapesOK'
  BY <1>2, <1>3, <1>4, EndsShape, FreesShape DEF AddKey, ShapesOK
<1> QED
  BY <1>2, <1>3, <1>5, EndsOK

\* A recovered transaction commits: its mutations are stored, added to the
\* filter if there is one, and answered.
LEMMA CommitPendingStep ==
    ASSUME IdempotentInv, CommitPending
    PROVE  IdempotentInv'
<1> USE DEF IdempotentInv
<1>1. rows \subseteq rows' /\ answers' = answers \cup prepared
  BY DEF CommitPending
<1>2. objects' \in Seq(Filter) /\ Grows /\ FilterCovers'
  <2>1. CASE Loaded
    BY <1>1, <2>1, Remembered DEF CommitPending, ShapesOK
  <2>2. CASE ~Loaded
    <3>1. objects' = objects /\ UNCHANGED <<expired, forgot>>
      BY <2>2 DEF CommitPending
    <3> QED
      BY <1>1, <2>2, <3>1 DEF Grows, FilterCovers, Loaded, ShapesOK
  <2> QED
    BY <2>1, <2>2
<1>3. executions' \in [Mutation -> Nat]
  BY DEF CommitPending, ShapesOK
<1>4. ShapesOK'
  BY <1>2, <1>3 DEF CommitPending, ShapesOK
<1>5. caller' = caller
  BY DEF CommitPending
<1> QED
  BY <1>2, <1>4, <1>5, NoneMoves

\* The mark of a completed workflow or iteration is dropped.
LEMMA CompleteScopeStep ==
    ASSUME IdempotentInv, NEW scope \in Scope, CompleteScope(scope)
    PROVE  IdempotentInv'
<1> USE DEF IdempotentInv
<1>1. PICK n \in 1..Len(objects) : n = Len(objects) /\ objects[n] \in Filter
  BY DEF ShapesOK, Loaded, CompleteScope
<1>2. PICK q \in Filter : q = objects[n]
  BY <1>1
<1>3. PICK S \in SUBSET Scope : S = q.scopes \ {scope}
  BY DEF Filter
<1>4. PICK x \in Filter : /\ x = [q EXCEPT !.scopes = S]
                          /\ x.has = q.has /\ x.scopes = S
  <2>1. /\ [q EXCEPT !.scopes = S] \in Filter
        /\ [q EXCEPT !.scopes = S].has = q.has
        /\ [q EXCEPT !.scopes = S].scopes = S
    BY DEF Filter
  <2> QED
    BY <2>1, Zenon
<1>5. objects' = [objects EXCEPT ![n] = x]
  BY <1>1, <1>2, <1>3, <1>4 DEF CompleteScope, ShapesOK
<1>6. /\ objects' \in Seq(Filter) /\ Len(objects') = Len(objects)
      /\ objects'[n] = x
      /\ \A j \in 1..Len(objects) : objects[j].has \subseteq objects'[j].has
  BY <1>2, <1>4, <1>5, Widened
<1>7. UNCHANGED <<rows, answers, expired, forgot, caller>>
  BY DEF CompleteScope
<1>8. Grows
  BY <1>6, <1>7 DEF Grows, ShapesOK
<1>9. FilterCovers'
  BY <1>1, <1>2, <1>3, <1>4, <1>6, <1>7 DEF FilterCovers, CompleteScope
<1>10. ShapesOK'
  BY <1>6 DEF CompleteScope, ShapesOK
<1> QED
  BY <1>7, <1>8, <1>9, <1>10, NoneMoves

\* The time of a key passes.
LEMMA ExpireStep ==
    ASSUME IdempotentInv, NEW key \in Expiring, Expire(key)
    PROVE  IdempotentInv'
<1>1. Grows /\ FilterCovers' /\ ShapesOK' /\ caller' = caller
  BY DEF IdempotentInv, ShapesOK, Expire, Grows, FilterCovers, Loaded
<1> QED
  BY <1>1, NoneMoves

-----------------------------------------------------------------------------
(* The theorems.                                                            *)

\* The server starts with no filter, and with rows of earlier processes.
LEMMA IdempotentStart == IdempotentInit => IdempotentInv
<1> SUFFICES ASSUME IdempotentInit PROVE IdempotentInv
  OBVIOUS
<1>1. prepared \in SUBSET Mutation
  BY IdempotentAssumption DEF IdempotentInit, Mine, Mutation
<1>2. /\ futures \in [Future -> LoadRecord] /\ caller \in [Caller -> CallerRecord]
      /\ \A c \in Caller : caller[c] = Rest
  BY LoadRecords, RestRecord DEF IdempotentInit
<1>3. objects \in Seq(Filter) /\ ~Loaded
  BY DEF IdempotentInit, Loaded
<1>4. executions \in [Mutation -> Nat]
  BY DEF IdempotentInit
<1>5. ShapesOK
  BY <1>1, <1>2, <1>3, <1>4 DEF ShapesOK, IdempotentInit
<1>6. Rest.at = "new" /\ Rest.again = FALSE
  BY DEF Rest
<1>7. CallsOK
  BY <1>2, <1>6 DEF CallsOK, CallOK, PlaceOK, ScanOK, AgainOK
<1> QED
  BY <1>3, <1>5, <1>7 DEF IdempotentInv, FilterCovers

\* Every step keeps the invariant.
LEMMA IdempotentKept ==
    IdempotentInv /\ [IdempotentNext]_idempotentVars => IdempotentInv'
<1> SUFFICES ASSUME IdempotentInv, [IdempotentNext]_idempotentVars
             PROVE  IdempotentInv'
  OBVIOUS
<1>1. CASE UNCHANGED idempotentVars
  <2>1. Grows /\ FilterCovers'
    BY <1>1, Quiet DEF idempotentVars
  <2>2. ShapesOK' /\ caller' = caller
    BY <1>1 DEF idempotentVars, IdempotentInv, ShapesOK
  <2> QED
    BY <2>1, <2>2, NoneMoves
<1>2. ASSUME NEW c \in Caller,
             \/ StartMutation(c) \/ PreloadRows(c) \/ PreloadCleanup(c)
             \/ CheckLoaded(c) \/ LoadResolved(c) \/ RecoverRows(c)
             \/ LandRows(c) \/ GetMutation(c) \/ ScanScope(c) \/ AddScope(c)
             \/ Found(c) \/ NotFound(c) \/ Execute(c) \/ StoreRow(c)
             \/ AddKey(c) \/ CancelMutation(c)
      PROVE  IdempotentInv'
  BY <1>2, StartMutationStep, PreloadStep, CheckLoadedStep, LoadResolvedStep,
     RecoverRowsStep, LandRowsStep, GetMutationStep, ScanScopeStep,
     AddScopeStep, FoundStep, NotFoundStep, ExecuteStep, AddKeyStep,
     CancelMutationStep
<1>3. CASE CommitPending
  BY <1>3, CommitPendingStep
<1>4. CASE \E scope \in Scope : CompleteScope(scope)
  BY <1>4, CompleteScopeStep
<1>5. CASE \E key \in Expiring : Expire(key)
  BY <1>5, ExpireStep
<1> QED
  BY <1>1, <1>2, <1>3, <1>4, <1>5 DEF IdempotentNext

\* The invariant holds however calls, loads, expirations and the commit of a
\* recovered transaction interleave.
THEOREM IdempotentInvariance == IdempotentSpec => []IdempotentInv
BY IdempotentStart, IdempotentKept, PTL DEF IdempotentSpec

\* A mutation that was answered is remembered (check_for_idempotent_mutation,
\* IdempotentMutations.get): the filter in use covers it, and a call that
\* starts later does not execute it again, for any calls, keys and workflows,
\* while its key has not expired and unless a filter that misses rows was put
\* in use.
THEOREM Remembrance == IdempotentSpec => []MutationsRemembered
<1>1. IdempotentInv => MutationsRemembered
  <2> SUFFICES ASSUME IdempotentInv PROVE MutationsRemembered
    OBVIOUS
  <2>1. turn \subseteq Caller /\ Cardinality(turn) <= 1
    <3>1. CASE turn = {}
      BY <3>1, FS_EmptySet
    <3>2. CASE \E c \in Caller : turn = {c}
      BY <3>2, FS_Singleton
    <3> QED
      BY <3>1, <3>2 DEF IdempotentInv, ShapesOK
  <2>2. \A i \in DOMAIN objects : /\ objects[i].has \subseteq Mutation
                                  /\ objects[i].scopes \subseteq Scope
    <3>1. \A i \in DOMAIN objects : objects[i] \in Filter
      BY DEF IdempotentInv, ShapesOK
    <3> QED
      BY <3>1 DEF Filter
  <2>3. IdempotentTypeOK
    BY <2>1, <2>2 DEF IdempotentInv, ShapesOK, IdempotentTypeOK, LoadRecord,
       CallerRecord, Place
  <2>4. AnsweredNotRepeated
    BY DEF IdempotentInv, CallsOK, CallOK, AgainOK, AnsweredNotRepeated
  <2> QED
    BY <2>3, <2>4 DEF IdempotentInv, MutationsRemembered
<1> QED
  BY <1>1, IdempotentInvariance, PTL

----------------------------------------------------------------------------
(* The idempotency manager of a context *)

\* What a call under way with idempotency has recorded.
Recorded(w) ==
    underway[w] # NoCallSite /\ How[underway[w]] # "none"
        => Key(underway[w]) \in DOMAIN rpcs /\ rpcs[Key(underway[w])] = Target[underway[w]]

\* The keys recorded in the first two iterations are those of calls of the
\* iteration: the checkpoint of the control loop is still empty when it is
\* restored for the first time.
KeysOfIteration ==
    /\ controlLoop = 0 => checkpoint = <<>> /\ ~aliased
    /\ controlLoop < 2 => \A k \in DOMAIN rpcs : \E d \in called : Key(d) = k

\* A call under way stands for what its key was recorded with, and a doubt
\* that was not acknowledged is one the manager knows of.
ManagerInv ==
    /\ calls \in Nat /\ controlLoop \in Nat
    /\ underway \in [Branch -> CallSite \cup {NoCallSite}]
    /\ \A w \in Branch : Recorded(w)
    /\ KeysOfIteration
    /\ doubt # {} => uncertain # NoCallSite

\* The key of a call changes with the iteration only.
LEMMA KeyKept ==
    ASSUME controlLoop' = controlLoop, NEW c PROVE Key(c)' = Key(c)
BY Zenon DEF Key

\* Steps that neither record a key nor let a call through.
LEMMA NothingRecorded ==
    ASSUME ManagerInv, UNCHANGED <<controlLoop, rpcs, checkpoint, aliased>>,
           called \subseteq called',
           underway' \in [Branch -> CallSite \cup {NoCallSite}],
           \A w \in Branch : underway'[w] \in {underway[w], NoCallSite}
               \/ How[underway'[w]] = "none"
    PROVE  (\A w \in Branch : Recorded(w)') /\ KeysOfIteration'
BY KeyKept DEF ManagerInv, Recorded, KeysOfIteration

\* A call that is refused, or that opts out, records nothing.
LEMMA CallRefusedKeeps ==
    ASSUME ManagerInv, NEW w \in Branch, NEW c \in CallSite,
           CallAlways(w, c) \/ CallRequired(w, c) \/ CallUncertain(w, c) \/ CallReused(w, c)
    PROVE  ManagerInv'
<1>1. (\A v \in Branch : Recorded(v)') /\ KeysOfIteration'
  BY NothingRecorded DEF CallAlways, CallRequired, CallUncertain, CallReused, Begins, ManagerInv
<1> QED
  BY <1>1, ManagerAssumption DEF CallAlways, CallRequired, CallUncertain, CallReused, Begins,
     ManagerInv, Doubted, LetThrough

\* A call without idempotency has no key.
LEMMA CallBareKeeps ==
    ASSUME ManagerInv, NEW w \in Branch, NEW c \in CallSite, CallBare(w, c)
    PROVE  ManagerInv'
<1>1. (\A v \in Branch : Recorded(v)') /\ KeysOfIteration'
  BY NothingRecorded DEF CallBare, Begins, ManagerInv
<1> QED BY <1>1 DEF CallBare, Begins, ManagerInv

\* A call with idempotency is let through when its key is new, or stands for
\* the same RPC.
LEMMA CallKeyedKeeps ==
    ASSUME ManagerInv, NEW w \in Branch, NEW c \in CallSite, CallKeyed(w, c)
    PROVE  ManagerInv'
<1>1. controlLoop' = controlLoop /\ rpcs' = Record(c) /\ called' = called \cup {c}
      /\ underway' = [underway EXCEPT ![w] = c] /\ aliased' = aliased
  BY DEF CallKeyed, Begins
<1>2. /\ DOMAIN rpcs' = DOMAIN rpcs \cup {Key(c)}
      /\ \A k \in DOMAIN rpcs : rpcs'[k] = rpcs[k]
      /\ rpcs'[Key(c)] = Target[c]
  BY <1>1 DEF Record, CallKeyed, Unsafe
<1>3. ASSUME NEW v \in Branch PROVE Recorded(v)'
  <2>1. CASE v = w
    BY <1>1, <1>2, <2>1, KeyKept DEF Recorded, ManagerInv
  <2>2. CASE v # w
    BY <1>1, <1>2, <2>2, KeyKept DEF Recorded, ManagerInv
  <2> QED BY <2>1, <2>2
<1>4. KeysOfIteration'
  <2>1. controlLoop = 0 => checkpoint' = <<>> /\ ~aliased'
    BY <1>1 DEF CallKeyed, ManagerInv, KeysOfIteration
  <2>2. ASSUME controlLoop < 2, NEW k \in DOMAIN rpcs' PROVE \E d \in called' : Key(d)' = k
    BY <1>1, <1>2, <2>2, KeyKept DEF ManagerInv, KeysOfIteration
  <2> QED BY <1>1, <2>1, <2>2 DEF KeysOfIteration
<1> QED BY <1>1, <1>3, <1>4 DEF ManagerInv, CallKeyed, Begins

\* The end of a call: the first doubt after a bare mutation is kept.
LEMMA CallEndsKeeps ==
    ASSUME ManagerInv, NEW w \in Branch, CallReturns(w) \/ CallFails(w)
    PROVE  ManagerInv'
<1>1. (\A v \in Branch : Recorded(v)') /\ KeysOfIteration'
  BY NothingRecorded DEF CallReturns, CallFails, CallEnds, ManagerInv
<1> QED
  BY <1>1, ManagerAssumption DEF CallReturns, CallFails, CallEnds, ManagerInv, Doubted

\* Acknowledging, starting over and going on to the next iteration.
LEMMA ManagerStartsOverKeeps ==
    ASSUME ManagerInv,
           acknowledge_idempotency_uncertainty \/ reset \/ RestoreForIteration
    PROVE  ManagerInv'
<1>0. DOMAIN <<>> = {} OBVIOUS
<1>1. CASE acknowledge_idempotency_uncertainty
  <2>1. (\A v \in Branch : Recorded(v)') /\ KeysOfIteration'
    BY <1>1, NothingRecorded DEF acknowledge_idempotency_uncertainty, ManagerInv
  <2> QED BY <1>1, <2>1 DEF acknowledge_idempotency_uncertainty, ManagerInv
<1>2. CASE reset
  BY <1>0, <1>2 DEF reset, ManagerInv, KeysOfIteration, Recorded
<1>3. CASE RestoreForIteration
  BY <1>0, <1>3 DEF RestoreForIteration, Restore, ManagerInv, KeysOfIteration, Recorded
<1> QED BY <1>1, <1>2, <1>3

\* What a step of the manager may do, once the invariant holds before it.
LEMMA ManagerStepSound ==
    ASSUME ManagerInv, ManagerNext
    PROVE  UncertaintyKept /\ (controlLoop < 2 => RefusalsDeserved)
<1>1. ASSUME NEW w \in Branch, NEW c \in CallSite,
             CallAlways(w, c) \/ CallRequired(w, c) \/ CallUncertain(w, c)
             \/ CallBare(w, c) \/ CallKeyed(w, c)
      PROVE  UncertaintyKept /\ RefusalsDeserved
  BY <1>1 DEF CallAlways, CallRequired, CallUncertain, CallBare, CallKeyed, LetThrough,
     ManagerInv, UncertaintyKept, RefusalsDeserved
<1>2. ASSUME NEW w \in Branch, NEW c \in CallSite, CallReused(w, c)
      PROVE  UncertaintyKept /\ (controlLoop < 2 => RefusalsDeserved)
  <2>1. UncertaintyKept BY <1>2 DEF CallReused, LetThrough, UncertaintyKept, ManagerInv
  <2>2. ASSUME controlLoop < 2 PROVE RefusalsDeserved
    BY <1>2, <2>2 DEF CallReused, Begins, Reused, RefusalsDeserved, ManagerInv, KeysOfIteration
  <2> QED BY <2>1, <2>2
<1>3. ASSUME NEW w \in Branch, CallReturns(w) \/ CallFails(w)
      PROVE  UncertaintyKept /\ RefusalsDeserved
  BY <1>3 DEF CallReturns, CallFails, CallEnds, Doubted, ManagerInv, UncertaintyKept,
     RefusalsDeserved
<1>4. CASE acknowledge_idempotency_uncertainty \/ reset \/ RestoreForIteration
  BY <1>4 DEF acknowledge_idempotency_uncertainty, reset, RestoreForIteration, ManagerInv,
     UncertaintyKept, RefusalsDeserved
<1> QED BY <1>1, <1>2, <1>3, <1>4 DEF ManagerNext

\* For any calls, branches and bounds: two calls under way with one key are
\* one RPC, a doubt is reported as the first failure left it and holds back
\* every other mutation, and in the first two iterations of a control loop
\* a call is refused as reused only when its key was used in that iteration.
THEOREM ManagerIsSound == ManagerSpec => ManagerSound
<1>1. ManagerInit => ManagerInv
  BY DEF ManagerInit, ManagerInv, KeysOfIteration, Recorded
<1>2. ManagerInv /\ [ManagerNext]_managerVars => ManagerInv'
  <2> SUFFICES ASSUME ManagerInv, [ManagerNext]_managerVars PROVE ManagerInv' OBVIOUS
  <2>1. CASE UNCHANGED managerVars
    BY <2>1, KeyKept DEF managerVars, ManagerInv, KeysOfIteration, Recorded
  <2>2. CASE ManagerNext
    BY <2>2, CallRefusedKeeps, CallBareKeeps, CallKeyedKeeps, CallEndsKeeps,
       ManagerStartsOverKeeps DEF ManagerNext
  <2> QED BY <2>1, <2>2
<1>3. ManagerInv => \A v, w \in Branch : KeySafe(v, w)
  BY DEF ManagerInv, Recorded, KeySafe
<1>4. ManagerInv /\ [ManagerNext]_managerVars
      => [UncertaintyKept /\ (controlLoop < 2 => RefusalsDeserved)]_managerVars
  BY ManagerStepSound
<1> QED BY <1>1, <1>2, <1>3, <1>4, PTL DEF ManagerSpec, ManagerSound
=============================================================================
