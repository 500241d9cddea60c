---------------------------- MODULE TimedMethods ----------------------------
(***************************************************************************)
(* The two RPC methods that have timers, on one io_service: what stops it  *)
(* in one of them leaves the other's handlers waiting.  Otherwise they do  *)
(* not touch: the player's state matters to the one, the track it plays to *)
(* the other.                                                              *)
(***************************************************************************)
EXTENDS StopScheduler, TrackRemoval

CONSTANT Loads     \* bound: timers scheduled and tracks removed in an execution

ASSUME TimedAssumption == Loads \subseteq [ timers : 0..MaxTimers, requests : SUBSET Requests ]

VARIABLE load      \* one of Loads, the same in the whole execution

(* The call a request would be that is not made. *)
Unmade(r) == ~physical[r] /\ track[r] = CHOOSE t \in Tracks : TRUE

TimedInit ==
    /\ SchedulerInit
    /\ RemovalInit
    /\ load \in Loads
    /\ load.timers = 0 => player = "stopped"
    /\ load.requests = {} => playing = None
    /\ \A r \in Requests \ load.requests : Unmade(r)

TimedNext ==
    \/ /\ SchedulerNext
       /\ load.timers > 0 /\ made' <= load.timers
       /\ UNCHANGED << entries, files, playing, request, track, physical, fileOf, load >>
    \/ /\ RemovalNext
       /\ load.requests # {} /\ { r \in Requests : request'[r] # "new" } \subseteq load.requests
       /\ UNCHANGED << made, current, action, wait, player, load >>

TimedSpec ==
    /\ TimedInit
    /\ [][TimedNext]_<< svars, rvars, load >>
    /\ SchedulerFairness
    /\ RemovalFairness

=============================================================================
