--------------------------- MODULE SiblingDeadlock ---------------------------
(***************************************************************************)
(* Nested transactions of one root that wait for states owned by each      *)
(* other: which of them is presumed deadlocked, rolls back and is issued   *)
(* again, and how ownership of what it claimed returns.                    *)
(***************************************************************************)
EXTENDS Naturals, Sequences, FiniteSets

CONSTANTS
    Node,       \* the calls that start a nested transaction
    Up,         \* the call that makes each of them, or Top: the root's method
    Top,
    State,
    Wants,      \* the states that each call claims, in any order
    MaxIds      \* bound: nested transactions started

ASSUME SiblingAssumption ==
    /\ Top \notin Node /\ Up \in [Node -> Node \cup {Top}]
    /\ Wants \in [Node -> SUBSET State] /\ MaxIds \in Nat
\* No call is made within itself.
ASSUME CallTreeAssumption ==
    /\ IsFiniteSet(Node)
    /\ \E depth \in [Node \cup {Top} -> 0..Cardinality(Node)] :
          \A n \in Node : depth[Up[n]] < depth[n]

VARIABLES
    id,         \* the id of each call's current attempt, 0 if it has none
    finished,   \* calls that returned
    claimed,    \* states each attempt itself has claimed
    participants, \* states each attempt must relinquish
    owner_of,   \* owner_ids of each state
    snaps,      \* _snapshots of each state: the ids that took it, owner_ids
    mail,       \* RelinquishOwnership in flight
    last_id,    \* ids are UUIDv7: ordered by creation
    gave_way    \* history: ids presumed deadlocked, with their siblings then

siblingVars == <<id, finished, claimed, participants, owner_of, snaps, mail,
                 last_id, gave_way>>

RootId == 0
Running(n) == id[n] # 0 /\ n \notin finished
CallerRuns(n) == Up[n] # Top => Running(Up[n])
Children(n) == {m \in Node : Up[m] = n}

\* context.transaction_ids
chain[n \in Node \cup {Top}] ==
    IF n = Top THEN <<RootId>> ELSE Append(chain[Up[n]], n)
transaction_ids_of(n) ==
    [i \in DOMAIN chain[n] |-> IF i = 1 THEN RootId ELSE id[chain[n][i]]]
Has(ids, x) == \E i \in DOMAIN ids : ids[i] = x
Index(ids, x) == CHOOSE i \in DOMAIN ids : ids[i] = x

SiblingTypeOK ==
    /\ id \in [Node -> 0..MaxIds] /\ last_id \in 0..MaxIds
    /\ finished \subseteq Node
    /\ claimed \in [Node -> SUBSET State]
    /\ participants \in [Node -> SUBSET State]
    /\ \A s \in State : \A i \in DOMAIN owner_of[s] : owner_of[s][i] \in 0..MaxIds
    /\ mail \subseteq [id : 1..MaxIds, state : State, aborted : BOOLEAN]

SiblingInit ==
    /\ id = [n \in Node |-> 0] /\ finished = {}
    /\ claimed = [n \in Node |-> {}] /\ participants = [n \in Node |-> {}]
    /\ owner_of = [s \in State |-> <<>>] /\ snaps = [s \in State |-> <<>>]
    /\ mail = {} /\ last_id = 0 /\ gave_way = {}

----------------------------------------------------------------------------
\* A call starts its nested transaction, again if it was rolled back.
StartNested(n) ==
    /\ id[n] = 0 /\ last_id < MaxIds
    /\ CallerRuns(n)
    /\ last_id' = last_id + 1
    /\ id' = [id EXCEPT ![n] = last_id + 1]
    /\ UNCHANGED <<finished, claimed, participants, owner_of, snaps, mail,
                   gave_way>>

is_claimable_by(s, n) ==
    LET ids == transaction_ids_of(n) IN
    /\ Len(owner_of[s]) <= Len(ids)
    /\ SubSeq(ids, 1, Len(owner_of[s])) = owner_of[s]

Awaits(n, s) == Running(n) /\ s \in Wants[n] \ claimed[n]

\* The first call of a transaction on a state claims it.  Later ones find that
\* it owns the state and return at once, which changes nothing.
claim_ownership(n, s) ==
    LET ids == transaction_ids_of(n) IN
    /\ Awaits(n, s) /\ is_claimable_by(s, n)
    /\ claimed' = [claimed EXCEPT ![n] = @ \cup {s}]
    /\ participants' = [participants EXCEPT ![n] = @ \cup {s}]
    /\ snaps' = [snaps EXCEPT ![s] = Append(@, [ids |-> ids, owner |-> owner_of[s]])]
    /\ owner_of' = [owner_of EXCEPT ![s] = ids]
    /\ UNCHANGED <<id, finished, mail, last_id, gave_way>>

\* The id at the level where the two chains part, if it is the younger.
MutPresumedNested(ids, owners) ==
    IF Len(owners) > 1 /\ ids[2] > owners[2] THEN ids[2] ELSE RootId
MutPresumedEither(ids, owners) ==
    LET Part == {i \in DOMAIN ids : i \in DOMAIN owners /\ ids[i] # owners[i]} IN
    IF Part = {} THEN RootId ELSE ids[CHOOSE j \in Part : \A k \in Part : j <= k]
presumed_deadlocked_nested_transaction(ids, owners) ==
    LET Part == {i \in DOMAIN ids : i \in DOMAIN owners /\ ids[i] # owners[i]} IN
    IF Part = {} THEN RootId
    ELSE LET i == CHOOSE j \in Part : \A k \in Part : j <= k IN
         IF ids[i] > owners[i] THEN ids[i] ELSE RootId

Within(n) == {m \in Node : Has(transaction_ids_of(m), id[n])}
Relinquished(ns, aborted) ==
    {[id |-> id[n], state |-> s, aborted |-> aborted] : n \in ns, s \in State}

\* History: the siblings of a call that run, and those that own a state that
\* is on its way back from them or from a call within them.
Siblings(n) ==
    LET ids == transaction_ids_of(n)
        returning == {owner_of[r.state] : r \in
                         {q \in mail : Has(owner_of[q.state], q.id)}}
    IN {id[m] : m \in {k \in Node : Up[k] = Up[n] /\ Running(k)}} \cup
       {owners[Len(ids)] : owners \in {o \in returning :
           Len(o) >= Len(ids) /\ \A i \in 1..(Len(ids) - 1) : o[i] = ids[i]}}

\* A grace period passes.  The exception propagates to the call that started
\* the victim, which issues it again; everything within it rolls back.
OnGrace(n, s) ==
    LET x == presumed_deadlocked_nested_transaction(transaction_ids_of(n),
                                                    owner_of[s])
        victim == CHOOSE m \in Node : id[m] = x
        gone == {m \in Within(victim) : id[m] # 0}
    IN
    /\ Awaits(n, s) /\ ~is_claimable_by(s, n)
    /\ x # RootId
    /\ mail' = mail \cup
          {r \in Relinquished(gone \ finished, TRUE) :
             \E m \in gone : id[m] = r.id /\ r.state \in participants[m]}
    /\ gave_way' = gave_way \cup {<<x, Siblings(victim)>>}
    /\ id' = [m \in Node |-> IF m \in gone THEN 0 ELSE id[m]]
    /\ finished' = finished \ gone
    /\ claimed' = [m \in Node |-> IF m \in gone THEN {} ELSE claimed[m]]
    /\ participants' = [m \in Node |->
          IF m \in gone THEN {}
          ELSE IF m = Up[victim] THEN participants[m] \cup participants[victim]
          ELSE participants[m]]
    /\ UNCHANGED <<owner_of, snaps, last_id>>

\* A nested transaction returns.
FinishNested(n) ==
    /\ Running(n) /\ claimed[n] = Wants[n] /\ Children(n) \subseteq finished
    /\ finished' = finished \cup {n}
    /\ mail' = mail \cup {r \in Relinquished({n}, FALSE) : r.state \in participants[n]}
    /\ participants' = IF Up[n] = Top THEN participants
                       ELSE [participants EXCEPT ![Up[n]] = @ \cup participants[n]]
    /\ UNCHANGED <<id, claimed, owner_of, snaps, last_id, gave_way>>

\* Of the snapshots, the oldest taken within x; it is removed, with the
\* deeper ones, unless the parent still needs it.
Oldest(x, taken) ==
    CHOOSE i \in DOMAIN taken : Has(taken[i].ids, x) /\
        \A j \in 1..(i - 1) : ~Has(taken[j].ids, x)
NotNeeded(x, taken, i) ==
    LET depth == Index(taken[i].ids, x) IN
    \/ depth = 2
    \/ \E j \in 1..(i - 1) : Has(taken[j].ids, taken[i].ids[depth - 1])

MutRelinquish(r) ==
    /\ r \in mail
    /\ mail' = mail \ {r}
    /\ IF ~Has(owner_of[r.state], r.id) \/ ~r.aborted
       THEN UNCHANGED <<owner_of, snaps>>
       ELSE LET i == Oldest(r.id, snaps[r.state]) IN
            /\ snaps' = [snaps EXCEPT ![r.state] = SubSeq(@, 1, i - 1)]
            /\ owner_of' = [owner_of EXCEPT ![r.state] = snaps[r.state][i].owner]
    /\ UNCHANGED <<id, finished, claimed, participants, last_id, gave_way>>

relinquish_ownership(r) ==
    /\ r \in mail
    /\ mail' = mail \ {r}
    /\ IF ~Has(owner_of[r.state], r.id) THEN UNCHANGED <<owner_of, snaps>>
       ELSE LET taken == snaps[r.state]
                i == Oldest(r.id, taken)
            IN
            /\ snaps' = IF r.aborted \/ NotNeeded(r.id, taken, i)
                        THEN [snaps EXCEPT ![r.state] = SubSeq(@, 1, i - 1)]
                        ELSE snaps
            /\ owner_of' = [owner_of EXCEPT ![r.state] =
                  IF r.aborted THEN taken[i].owner
                  ELSE SubSeq(@, 1, Index(@, r.id) - 1)]
    /\ UNCHANGED <<id, finished, claimed, participants, last_id, gave_way>>

SiblingNext ==
    \/ \E n \in Node : StartNested(n) \/ FinishNested(n)
    \/ \E n \in Node, s \in State : claim_ownership(n, s) \/ OnGrace(n, s)
    \/ \E r \in mail : relinquish_ownership(r)

SiblingSpec == SiblingInit /\ [][SiblingNext]_siblingVars

----------------------------------------------------------------------------
\* Nested transactions never stand still together: if none of them can
\* claim, return or start, and no ownership is on its way back, one of them
\* is presumed deadlocked.
SiblingsMoveOn ==
    \/ Node \subseteq finished \/ mail # {} \/ last_id = MaxIds
    \/ \E n \in Node :
          \/ id[n] = 0 /\ CallerRuns(n)
          \/ Running(n) /\ claimed[n] = Wants[n] /\ Children(n) \subseteq finished
          \/ \E s \in State : Awaits(n, s) /\
                \/ is_claimable_by(s, n)
                \/ presumed_deadlocked_nested_transaction(
                      transaction_ids_of(n), owner_of[s]) # RootId

\* Whoever is presumed deadlocked has an older sibling that lives on, or one
\* from which a state is on its way back: of the siblings the oldest is never
\* the one to go, so it proceeds.
OldestProceeds == \A p \in gave_way : \E y \in p[2] : y < p[1]

\* The nested transaction that owns a state either still runs or has a
\* RelinquishOwnership on its way: no state is lost to one that rolled back
\* or returned, and nobody waits for it in vain.
OwnersAccounted ==
    \A s \in State :
        LET owner == owner_of[s][Len(owner_of[s])] IN
        Len(owner_of[s]) > 1 =>
            \/ \E n \in Node : Running(n) /\ id[n] = owner
            \/ \E r \in mail : r.state = s /\ r.id = owner

\* Siblings that claim each other's states resolve their deadlocks: somebody
\* can move on or gives way, never the oldest, and what it owned comes back.
SiblingsResolved == SiblingsMoveOn /\ OldestProceeds /\ OwnersAccounted

==============================================================================
