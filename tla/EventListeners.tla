--------------------------- MODULE EventListeners ---------------------------
(***************************************************************************)
(* The registry of listeners that every AIMP manager keeps.  A listener is *)
(* entered under the next id, and the registrant is handed the id after    *)
(* that one, with which it unregisters in its destructor.  Ids are machine *)
(* integers and wrap around.                                               *)
(***************************************************************************)
EXTENDS Naturals

CONSTANTS
    Owners,     \* objects that register a listener when they are made
    IdCount,    \* values of an EventsListenerID
    FirstIds,   \* what next_listener_id_ may hold in a new manager
    MaxMade     \* bound: registrations

Ids == 0..(IdCount - 1)

Nobody == "nobody"

VARIABLES
    listeners,  \* external_listeners_: whose listener is entered under an id
    next,       \* next_listener_id_
    held,       \* the id each owner was handed last
    alive,      \* owners that are not destroyed
    made        \* registrations so far

vars == << listeners, next, held, alive, made >>

(* The manager for AIMP 3.60 leaves next_listener_id_ uninitialized, the
   others set it to 0. *)
Init ==
    /\ listeners = [i \in Ids |-> Nobody]
    /\ next \in FirstIds
    /\ held = [o \in Owners |-> 0]
    /\ alive = {}
    /\ made = 0

(* The id after i. *)
After(i) == IF i = IdCount - 1 THEN 0 ELSE i + 1

(* registerListener *)
Register(o) ==
    /\ listeners' = [listeners EXCEPT ![next] = o]
    /\ next' = After(next)
    /\ held' = [held EXCEPT ![o] = After(next)]

(* unRegisterListener *)
Unregister(o) ==
    /\ listeners' = [listeners EXCEPT ![held[o]] = Nobody]
    /\ UNCHANGED << next, held >>

Construct(o) ==
    /\ o \notin alive
    /\ made < MaxMade
    /\ Register(o)
    /\ alive' = alive \union {o}
    /\ made' = made + 1

Destroy(o) ==
    /\ o \in alive
    /\ Unregister(o)
    /\ alive' = alive \ {o}
    /\ UNCHANGED made

-----------------------------------------------------------------------------
Next == \E o \in Owners : Construct(o) \/ Destroy(o)

Spec == Init /\ [][Next]_vars

-----------------------------------------------------------------------------
(* Properties                                                              *)

TypeOK ==
    /\ listeners \in [Ids -> Owners \union {Nobody}]
    /\ next \in Ids
    /\ held \in [Owners -> Ids]
    /\ alive \subseteq Owners
    /\ made \in 0..MaxMade

(* "listener ID that is used to unsubscribe from notifications": who has
   unregistered is not notified any more. *)
OnlyLiveListeners ==
    \A i \in Ids : listeners[i] # Nobody => listeners[i] \in alive

=============================================================================
