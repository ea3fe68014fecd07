------------------------------ MODULE Presence ------------------------------
(***************************************************************************)
(* The Presence library (presence.py): one Subscriber, to which clients    *)
(* connect with a nonce of their own, and one Presence that lists it while *)
(* someone is connected. Disconnect events are in the memory of the        *)
(* Subscriber's server. Watch runs in `until`, where its call of Status is *)
(* answered by a React querier, which takes a response off the wire only   *)
(* after the one before was used. Watch's inline write and Subscribe hold  *)
(* the lock of the Presence from what they read to what they write, so     *)
(* each is one step.                                                       *)
(***************************************************************************)
EXTENDS Naturals, Sequences, FiniteSets

CONSTANTS
    Nonce,              \* one of each connection that a client makes
    MaxPresenceCrashes

ASSUME PresenceAssumption == IsFiniteSet(Nonce) /\ MaxPresenceCrashes \in Nat

VARIABLES
    link,       \* the Connect call of each nonce
    visitor,    \* where the client is with its other calls: Toggle, then Subscribe
    event,      \* _disconnect_events: waiters and whether it is set, or Absent
    toggles,    \* Subscriber.State
    departure,  \* the WaitForDisconnect task of each nonce
    untoggled,  \* idempotency keys of "Untoggle" that the Subscriber knows
    listed,     \* whether Presence.State has the subscriber
    watch,      \* the Watch task that the Subscribe of each nonce scheduled
    unseen,     \* history: a Watch removed the subscriber while it was present
    presenceCrashes

subscriberVars == <<link, event, toggles, departure, untoggled>>
presenceVars == <<subscriberVars, visitor, listed, watch, unseen, presenceCrashes>>

Absent == [waiters |-> 0, set |-> TRUE]
NewEvent == [waiters |-> 0, set |-> FALSE]

\* A querier: whether it has a response and which, used or not, and the ones
\* under way.
NoWatch == [at |-> "none", have |-> FALSE, response |-> FALSE, used |-> TRUE, wire |-> <<>>]

PresenceInit ==
    /\ link = [n \in Nonce |-> "new"] /\ visitor = [n \in Nonce |-> "toggle"]
    /\ event = [n \in Nonce |-> Absent] /\ toggles = 0
    /\ departure = [n \in Nonce |-> "none"] /\ untoggled = {}
    /\ listed = FALSE /\ watch = [n \in Nonce |-> NoWatch]
    /\ unseen = FALSE /\ presenceCrashes = 0

\* Status
Present(k) == k > 0

\* A change of the status goes to every query of it.
Queried(k) ==
    IF Present(k) = Present(toggles) THEN watch
    ELSE [n \in Nonce |-> IF watch[n].have THEN [watch[n] EXCEPT !.wire = Append(@, Present(k))]
                          ELSE watch[n]]

----------------------------------------------------------------------------
(* Connections *)

ClientConnect(n) ==
    /\ link[n] = "new" /\ event[n] = Absent
    /\ link' = [link EXCEPT ![n] = "open"] /\ event' = [event EXCEPT ![n] = NewEvent]
    /\ UNCHANGED <<visitor, toggles, departure, untoggled, listed, watch, unseen,
                   presenceCrashes>>

\* Mutant: the call ends without telling those who wait.
MutEnded(e) == IF e.waiters = 0 THEN Absent ELSE e

\* The entry stays for those who wait.
Ended(e) == IF e.waiters = 0 THEN Absent ELSE [e EXCEPT !.set = TRUE]

\* The client leaves or its connection breaks: Connect is cancelled.
Leave(n) ==
    /\ link[n] = "open"
    /\ link' = [link EXCEPT ![n] = "closed"] /\ event' = [event EXCEPT ![n] = Ended(@)]
    /\ UNCHANGED <<visitor, toggles, departure, untoggled, listed, watch, unseen,
                   presenceCrashes>>

\* Toggle finds the event; until it does the client calls again.
ToggleAdmitted(n) ==
    /\ visitor[n] = "toggle" /\ event[n] # Absent
    /\ visitor' = [visitor EXCEPT ![n] = "toggling"]
    /\ UNCHANGED <<subscriberVars, listed, watch, unseen, presenceCrashes>>

\* The writer commits, with the task that it scheduled.
Toggle(n) ==
    /\ visitor[n] = "toggling"
    /\ toggles' = toggles + 1 /\ departure' = [departure EXCEPT ![n] = "scheduled"]
    /\ watch' = Queried(toggles')
    /\ visitor' = [visitor EXCEPT ![n] = "subscribe"]
    /\ UNCHANGED <<link, event, untoggled, listed, unseen, presenceCrashes>>

\* WaitForDisconnect looks for the event, and waits if it is not yet set.
WaitsForDisconnect(n) ==
    /\ departure[n] = "scheduled"
    /\ IF event[n].set THEN departure' = [departure EXCEPT ![n] = "left"] /\ UNCHANGED event
       ELSE /\ departure' = [departure EXCEPT ![n] = "waiting"]
            /\ event' = [event EXCEPT ![n].waiters = @ + 1]
    /\ UNCHANGED <<link, visitor, toggles, untoggled, listed, watch, unseen, presenceCrashes>>

Woken(n) ==
    /\ departure[n] = "waiting" /\ event[n].set
    /\ departure' = [departure EXCEPT ![n] = "left"]
    /\ event' = [event EXCEPT ![n] = Absent]
    /\ UNCHANGED <<link, visitor, toggles, untoggled, listed, watch, unseen, presenceCrashes>>

\* Mutant: the write is made again when the task is.
MutAlready(n) == FALSE

Already(n) == n \in untoggled

\* The inline write "Untoggle", idempotent; then the task ends, unless its
\* server crashes before.
Untoggle(n) ==
    /\ departure[n] = "left"
    /\ toggles' = IF Already(n) THEN toggles ELSE toggles - 1
    /\ untoggled' = untoggled \cup {n} /\ watch' = Queried(toggles')
    /\ departure' = [departure EXCEPT ![n] = "untoggled"]
    /\ UNCHANGED <<link, visitor, event, listed, unseen, presenceCrashes>>

Departed(n) ==
    /\ departure[n] = "untoggled" /\ departure' = [departure EXCEPT ![n] = "done"]
    /\ UNCHANGED <<link, visitor, event, toggles, untoggled, listed, watch, unseen,
                   presenceCrashes>>

\* The Subscriber's server crashes: the events are lost, connections and
\* queries break, and tasks run again.
SubscriberCrash ==
    /\ presenceCrashes < MaxPresenceCrashes /\ presenceCrashes' = presenceCrashes + 1
    /\ event' = [n \in Nonce |-> Absent]
    /\ link' = [n \in Nonce |-> IF link[n] = "open" THEN "closed" ELSE link[n]]
    /\ visitor' = [n \in Nonce |-> IF visitor[n] = "toggling" THEN "toggle" ELSE visitor[n]]
    /\ departure' = [n \in Nonce |-> IF departure[n] \in {"none", "done"} THEN departure[n]
                                     ELSE "scheduled"]
    /\ watch' = [n \in Nonce |-> IF watch[n].have
                                 THEN [watch[n] EXCEPT !.wire = <<Present(toggles)>>]
                                 ELSE watch[n]]
    /\ UNCHANGED <<toggles, untoggled, listed, unseen>>

----------------------------------------------------------------------------
(* Presence *)

\* Mutant: nobody watches a subscriber that was just added.
MutWatched(n) == watch

Watched(n) == [watch EXCEPT ![n].at = "check"]

\* A subscriber that is listed is left alone, one that is not present is refused.
SubscribeTo(n) ==
    LET added == ~listed /\ Present(toggles)
    IN /\ visitor[n] = "subscribe"
       /\ listed' = (listed \/ added)
       /\ watch' = IF added THEN Watched(n) ELSE watch
       /\ visitor' = [visitor EXCEPT ![n] = IF listed' THEN "in" ELSE "out"]
       /\ UNCHANGED <<subscriberVars, unseen, presenceCrashes>>

\* The check of Watch, with the querier's response, which is the status of
\* now only when there was none.
CheckPresence(n) ==
    LET w == watch[n]
        status == IF w.have THEN w.response ELSE Present(toggles)
    IN /\ w.at = "check"
       /\ watch' = [watch EXCEPT ![n] = [w EXCEPT !.at = IF status THEN "wait" ELSE "removed",
                                           !.have = TRUE, !.response = status, !.used = TRUE]]
       /\ listed' = (listed /\ status)
       /\ unseen' = (unseen \/ (listed /\ ~status /\ Present(toggles)))
       /\ UNCHANGED <<subscriberVars, visitor, presenceCrashes>>

\* The next response wakes the Watch.
QuerierResponse(n) ==
    LET w == watch[n]
    IN /\ w.at \in {"check", "wait"} /\ w.used /\ w.wire # <<>>
       /\ watch' = [watch EXCEPT ![n] = [w EXCEPT !.at = "check", !.response = Head(w.wire),
                                           !.used = FALSE, !.wire = Tail(@)]]
       /\ UNCHANGED <<subscriberVars, visitor, listed, unseen, presenceCrashes>>

\* `until` memoizes that the subscriber is gone, and Watch ends.
WatchEnds(n) ==
    /\ watch[n].at = "removed"
    /\ watch' = [watch EXCEPT ![n] = [NoWatch EXCEPT !.at = "done"]]
    /\ UNCHANGED <<subscriberVars, visitor, listed, unseen, presenceCrashes>>

\* The server of the Presence crashes: what is not memoized runs again.
PresenceCrash ==
    /\ presenceCrashes < MaxPresenceCrashes /\ presenceCrashes' = presenceCrashes + 1
    /\ watch' = [n \in Nonce |-> IF watch[n].at \in {"none", "done"} THEN watch[n]
                                 ELSE [NoWatch EXCEPT !.at = "check"]]
    /\ UNCHANGED <<subscriberVars, visitor, listed, unseen>>

----------------------------------------------------------------------------
DepartureNext(n) == WaitsForDisconnect(n) \/ Woken(n) \/ Untoggle(n) \/ Departed(n)
WatchNext(n) == CheckPresence(n) \/ QuerierResponse(n) \/ WatchEnds(n)

PresenceNext ==
    \/ \E n \in Nonce : ClientConnect(n) \/ Leave(n) \/ SubscribeTo(n)
    \/ \E n \in Nonce : ToggleAdmitted(n) \/ Toggle(n)
    \/ \E n \in Nonce : DepartureNext(n) \/ WatchNext(n)
    \/ SubscriberCrash \/ PresenceCrash

PresenceSpec == PresenceInit /\ [][PresenceNext]_presenceVars

PresenceTypeOK ==
    /\ \A n \in Nonce :
         /\ link[n] \in {"new", "open", "closed"} /\ event[n].waiters \in 0..1
         /\ visitor[n] \in {"toggle", "toggling", "subscribe", "in", "out"}
         /\ departure[n] \in {"none", "scheduled", "waiting", "left", "untoggled", "done"}
         /\ watch[n].at \in {"none", "check", "wait", "removed", "done"}
    /\ untoggled \subseteq Nonce /\ listed \in BOOLEAN /\ unseen \in BOOLEAN
    /\ presenceCrashes \in 0..MaxPresenceCrashes

----------------------------------------------------------------------------
\* Through clients that come, go and come back, and crashes between any two
\* writes: every Toggle is undone exactly once, by its own WaitForDisconnect
\* (whose assertion never fails); an event that is kept has a connection or
\* someone who waits for it; the subscriber is listed only while some Watch
\* will remove it; and a client that is connected and subscribed is listed,
\* unless a Watch removed it on an outdated response (presence.py:127-146
\* reads Status through the querier of `until`).
PresenceSound ==
    /\ toggles = Cardinality({n \in Nonce : departure[n] # "none" /\ n \notin untoggled})
    /\ \A n \in Nonce : event[n] # Absent => link[n] = "open" \/ departure[n] = "waiting"
    /\ listed => \E n \in Nonce : watch[n].at \notin {"none", "done"}
    /\ \A n \in Nonce : visitor[n] = "in" /\ link[n] = "open" => listed \/ unseen

\* When every connection is closed the subscriber is soon neither present nor
\* listed, and nothing is left waiting for it.
PresenceSettles ==
    (\A n \in Nonce : link[n] = "closed")
        ~> (toggles = 0 /\ ~listed /\ \A n \in Nonce : event[n] = Absent)
=============================================================================
