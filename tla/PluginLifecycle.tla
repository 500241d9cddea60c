--------------------------- MODULE PluginLifecycle ---------------------------
(***************************************************************************)
(* The plugin object from its construction to its destruction: which of    *)
(* its parts exist, what AIMP holds that calls into them, and the tick.    *)
(*                                                                         *)
(* AIMP calls Initialize, Finalize and the tick's timer procedure on its   *)
(* main thread.  Initialize is one step; tearing down goes part by part,   *)
(* because destructors use other parts.  The registry of listeners is the  *)
(* one of EventListeners, with a single owner: the RPC method              *)
(* SubscribeOnAIMPStateUpdateEvent.  What AIMP holds of the manager is     *)
(* that of AIMPManager36.  Whether AIMP finalizes a plugin that failed to  *)
(* initialize, and whether it delivers timer messages after Finalize, is   *)
(* AIMP's: it may do either.                                               *)
(***************************************************************************)
EXTENDS Naturals, Sequences

CONSTANTS
    IdCount, FirstIds      \* see EventListeners

ASSUME LifecycleAssumption ==
    /\ IdCount \in Nat \ {0}
    /\ FirstIds \subseteq 0..(IdCount - 1)

(* The members, in the order initialize() makes them.  "rpc" is the RPC
   request handler with its other methods, of which two have timers;
   "subscriptions" is the method that registers with the manager. *)
BuildOrder ==
    << "io_service", "manager", "rpc", "subscriptions", "download", "upload",
       "http", "server" >>

(* Mutant: a member is not reset. *)
FinalizeOrder_Forgets ==
    << "server", "http", "upload", "rpc", "subscriptions", "manager", "io_service" >>

(* Mutant: the manager goes before the method that unregisters from it. *)
FinalizeOrder_ManagerFirst ==
    << "server", "http", "download", "upload", "manager", "rpc", "subscriptions",
       "io_service" >>

(* Finalize resets them in this order, ... *)
FinalizeOrder ==
    << "server", "http", "download", "upload", "rpc", "subscriptions", "manager",
       "io_service" >>

(* ... the plugin's destructor destroys members against their declaration. *)
MemberOrder ==
    << "server", "io_service", "http", "upload", "download", "rpc", "subscriptions",
       "manager" >>

Parts == { "io_service", "manager", "rpc", "subscriptions", "download", "upload",
           "http", "server" }

Made(n) == { BuildOrder[i] : i \in 1..n }

(* What the destructor of a part uses: timers, acceptors and kept connections
   their io_service, the subscriptions the manager they unregister from. *)
Uses(p) ==
    CASE p = "manager"       -> { "io_service" }
      [] p = "rpc"           -> { "io_service" }
      [] p = "subscriptions" -> { "manager" }
      [] p = "server"        -> { "io_service", "http" }
      [] OTHER               -> {}

(* What AIMP may hold of the manager: the extension that tells of playlists,
   the message hook, the listeners of playlists. *)
Hooks == { "extension", "hook", "playlists" }

Owner == "subscriptions"

VARIABLES
    phase,      \* of the plugin object
    made,       \* how many members initialize() has made
    finalized,  \* AIMP has called Finalize
    parts,      \* the members that exist
    hooks,      \* what AIMP holds
    timerOn,    \* the tick's timer is set
    posted,     \* its message waits in AIMP's queue
    serving,    \* the io_service is not stopped
    listeners, next, held

history == << made, finalized >>
registry == << listeners, next, held >>
vars == << phase, history, parts, hooks, timerOn, posted, serving, registry >>

Registry == INSTANCE EventListeners WITH
               Owners <- {Owner},
               MaxMade <- 1,
               alive <- IF "subscriptions" \in parts THEN {Owner} ELSE {},
               made <- IF "subscriptions" \in parts THEN 1 ELSE 0

Phases == { "constructed", "running", "failed", "finalizing", "finalized",
            "deleting", "deleted", "crashed" }

Init ==
    /\ phase = "constructed"
    /\ made = 0
    /\ finalized = FALSE
    /\ parts = {}
    /\ hooks = {}
    /\ timerOn = FALSE
    /\ posted = FALSE
    /\ serving = FALSE
    /\ Registry!Init

(* A manager whose constructor throws is destroyed without its destructor's
   body: what it has handed to AIMP stays there, save the listeners of
   playlists. *)
MayHold(n) ==
    IF "manager" \in Made(n) THEN {Hooks}
    ELSE IF n = 1 THEN { {}, { "extension" }, { "extension", "hook" } }
    ELSE { {} }

(* initialize(): the first n members are made, and the making of the next
   one throws if there is a next one.  The timer is set last, if it can be. *)
Initialize ==
    /\ phase = "constructed"
    /\ \E n \in 0..Len(BuildOrder) :
          /\ made' = n
          /\ parts' = Made(n)
          /\ phase' = IF n = Len(BuildOrder) THEN "running" ELSE "failed"
          /\ timerOn' \in IF n = Len(BuildOrder) THEN BOOLEAN ELSE {FALSE}
          /\ serving' = (n > 0)
          /\ hooks' \in MayHold(n)
    /\ IF "subscriptions" \in parts' THEN Registry!Register(Owner)
       ELSE UNCHANGED registry
    /\ UNCHANGED << finalized, posted >>

TickIsDue ==
    /\ timerOn
    /\ ~posted
    /\ phase # "crashed"
    /\ posted' = TRUE
    /\ UNCHANGED << phase, history, parts, hooks, timerOn, serving, registry >>

(* The timer is killed, or that fails and is only logged. *)
StopTickTimer == timerOn' \in {FALSE, timerOn}

(* onTick, whenever AIMP delivers the message: after Finalize as well, which
   does not take it out of the queue.  An exception stops the io_service for
   good; without an io_service the procedure follows a null pointer. *)
Tick ==
    /\ posted
    /\ phase \notin { "finalizing", "deleting", "crashed" }
    /\ posted' = FALSE
    /\ \/ "io_service" \in parts /\ UNCHANGED << phase, serving, timerOn >>
       \/ "io_service" \in parts /\ serving' = FALSE /\ StopTickTimer /\ UNCHANGED phase
       \/ "io_service" \notin parts /\ phase' = "crashed" /\ UNCHANGED << serving, timerOn >>
    /\ UNCHANGED << history, parts, hooks, registry >>

(* AIMP has released the extension by then (the manager's destructor counts
   on it).  The io_service is stopped unasked. *)
Finalize ==
    /\ phase \in { "running", "failed" }
    /\ finalized' = TRUE
    /\ hooks' = hooks \ { "extension" }
    /\ StopTickTimer
    /\ \/ "io_service" \in parts /\ phase' = "finalizing" /\ serving' = FALSE
       \/ "io_service" \notin parts /\ phase' = "crashed" /\ UNCHANGED serving
    /\ UNCHANGED << made, parts, posted, registry >>

(* AIMP releases the plugin, one that failed without having finalized it. *)
Delete ==
    /\ phase \in { "constructed", "failed", "finalized" }
    /\ phase' = "deleting"
    /\ UNCHANGED << history, parts, hooks, timerOn, posted, serving, registry >>

(* What is being torn down, in which order; a member that was not made, or is
   gone, is passed over. *)
Order == CASE phase = "finalizing" -> FinalizeOrder
           [] phase = "deleting"   -> MemberOrder
           [] OTHER                -> << >>

Doomed == { Order[i] : i \in DOMAIN Order } \intersect parts

IsNext(i) == Order[i] \in parts /\ \A j \in 1..(i - 1) : Order[j] \notin parts

(* Mutant: the manager's destructor leaves the message hook to AIMP. *)
Destroy_KeepsHook(p) ==
    /\ parts' = parts \ {p}
    /\ hooks' = IF p = "manager" THEN hooks \ { "playlists" } ELSE hooks
    /\ IF p = "subscriptions" THEN Registry!Unregister(Owner) ELSE UNCHANGED registry

(* One member goes.  The manager unhooks itself, leaves its extension to AIMP
   and takes its registry with it. *)
Destroy(p) ==
    /\ parts' = parts \ {p}
    /\ hooks' = IF p = "manager" THEN hooks \ { "hook", "playlists" } ELSE hooks
    /\ CASE p = "subscriptions" -> Registry!Unregister(Owner)
         [] p = "manager" ->
               /\ listeners' = [i \in DOMAIN listeners |-> Registry!Nobody]
               /\ UNCHANGED << next, held >>
         [] OTHER -> UNCHANGED registry

DestroyNext ==
    /\ \E i \in DOMAIN Order : IsNext(i) /\ Destroy(Order[i])
    /\ UNCHANGED << phase, history, timerOn, posted, serving >>

TornDown ==
    /\ Doomed = {}
    /\ \/ phase = "finalizing" /\ phase' = "finalized"
       \/ phase = "deleting" /\ phase' = "deleted"
    /\ UNCHANGED << history, parts, hooks, timerOn, posted, serving, registry >>

-----------------------------------------------------------------------------
Next == Initialize \/ TickIsDue \/ Tick \/ Finalize \/ Delete \/ DestroyNext \/ TornDown

Spec == Init /\ [][Next]_vars

-----------------------------------------------------------------------------
(* Properties                                                              *)

(* Types; and what is finalized or deleted has no parts left. *)
TypeOK ==
    /\ phase \in Phases
    /\ made \in 0..Len(BuildOrder)
    /\ finalized \in BOOLEAN
    /\ parts \subseteq Parts
    /\ phase \in { "finalized", "deleted" } => parts = {}
    /\ hooks \subseteq Hooks
    /\ timerOn \in BOOLEAN
    /\ posted \in BOOLEAN
    /\ serving \in BOOLEAN
    /\ Registry!TypeOK

(* AIMP deletes a plugin that failed to initialize without finalizing it. *)
Abandoned == phase = "deleting" /\ ~finalized

(* Wherever initialization fails, members are torn down in an order in which
   every destructor finds what it uses - but for the io_service, which the
   plugin's own destructor (not Finalize) destroys before its users. *)
DestructorsFindTheirParts ==
    \A p \in parts :
        Uses(p) \subseteq IF Abandoned THEN parts \union { "io_service" } ELSE parts

(* AIMP gets control between the plugin's own calls only. *)
AimpMayCall == Doomed = {}

(* What AIMP goes on holding of a manager that is gone: the extension, which
   nobody takes back but AIMP before it calls Finalize, and the hook of a
   manager whose constructor threw after it had set the hook. *)
Orphans ==
    (IF finalized THEN {} ELSE { "extension" }) \union (IF made = 1 THEN { "hook" } ELSE {})

(* Where initialize() stops, and whether AIMP finalizes the plugin or only
   deletes it, decides what AIMP may call once the manager is gone: Orphans
   and nothing else, so nothing of a manager that was ready and was finalized.
   And although the method unregisters with an id that is not its own, its
   entry never outlives both itself and the manager. *)
NoCallIntoDestroyed ==
    AimpMayCall =>
       /\ "manager" \notin parts => hooks \subseteq Orphans
       /\ Registry!OnlyLiveListeners

=============================================================================
