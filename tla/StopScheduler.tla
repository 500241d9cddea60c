---------------------------- MODULE StopScheduler ----------------------------
(***************************************************************************)
(* The RPC method Scheduler: stop or pause playback, or power the machine  *)
(* down, at some time.  It keeps one Timer object; destroying it aborts    *)
(* its wait, unless the wait is over already and its handler stands in the *)
(* io_service's queue: such a handler runs with no error, whatever became  *)
(* of its Timer in the meantime.                                           *)
(*                                                                         *)
(* RPC calls and timer handlers are handlers of the same io_service, so    *)
(* the calls in front of a queued handler run before it.                   *)
(***************************************************************************)
EXTENDS Naturals, Service

CONSTANTS
    MaxTimers,    \* bound: Timer objects made
    CallsMayFail  \* AIMP may refuse to stop or to pause

ASSUME SchedulerAssumption ==
    /\ MaxTimers \in Nat
    /\ CallsMayFail \in BOOLEAN

(* The three actions on the machine differ in the system call only. *)
PlaybackActions == { "stop_playback", "pause_playback" }
Actions == PlaybackActions \union { "machine_sleep" }

PlaybackStates == { "stopped", "playing", "paused" }

Timers == 1..MaxTimers
NoTimer == 0

VARIABLES
    made,       \* Timer objects made so far, numbered from 1
    current,    \* timer_
    action,     \* the action of each
    wait,       \* where the wait of each stands
    player      \* AIMP's playback state

svars == << made, current, action, wait, player, serving >>

(* "expired" and "queued": the time is up, and the io_service has, in the
   second case, put the handler into its queue. *)
Waits == { "none", "waiting", "expired", "queued", "over", "aborted" }

SchedulerInit ==
    /\ made = 0
    /\ current = NoTimer
    /\ action = [t \in Timers |-> "none"]
    /\ wait = [t \in Timers |-> "none"]
    /\ player \in PlaybackStates
    /\ serving = TRUE

(* The waits once the current Timer is destroyed. *)
AfterReset ==
    [t \in Timers |-> IF t = current /\ wait[t] \in { "waiting", "expired" }
                      THEN "aborted" ELSE wait[t]]

(* Mutants: the request for an action is taken for the action; the Timer that
   was scheduled before is not destroyed. *)
Schedule_Unknown(a) ==
    /\ serving
    /\ made < MaxTimers
    /\ made' = made + 1
    /\ current' = made'
    /\ action' = [action EXCEPT ![made'] = "schedule"]
    /\ wait' = [AfterReset EXCEPT ![made'] = "waiting"]
    /\ UNCHANGED << player, serving >>

Schedule_KeepsOld(a) ==
    /\ serving
    /\ made < MaxTimers
    /\ made' = made + 1
    /\ current' = made'
    /\ action' = [action EXCEPT ![made'] = a]
    /\ wait' = [wait EXCEPT ![made'] = "waiting"]
    /\ UNCHANGED << player, serving >>

(* Scheduler::execute with an action.  A call that is refused (no time
   given, an unknown action, one the machine does not support) throws before
   the Timer objects are swapped and changes nothing. *)
Schedule(a) ==
    /\ serving
    /\ made < MaxTimers
    /\ made' = made + 1
    /\ current' = made'
    /\ action' = [action EXCEPT ![made'] = a]
    /\ wait' = [AfterReset EXCEPT ![made'] = "waiting"]
    /\ UNCHANGED << player, serving >>

(* ... with "cancel", which goes before everything else. *)
Cancel ==
    /\ serving
    /\ current # NoTimer
    /\ current' = NoTimer
    /\ wait' = AfterReset
    /\ UNCHANGED << made, action, player, serving >>

TimeIsUp(t) ==
    /\ wait[t] = "waiting"
    /\ wait' = [wait EXCEPT ![t] = "expired"]
    /\ UNCHANGED << made, current, action, player, serving >>

QueueHandler(t) ==
    /\ serving
    /\ wait[t] = "expired"
    /\ wait' = [wait EXCEPT ![t] = "queued"]
    /\ UNCHANGED << made, current, action, player, serving >>

(* Mutant: pausePlayback is called whatever the state: it starts playback
   when there is nothing to pause. *)
Perform_Toggles(a) ==
    \/ a = "stop_playback" /\ player' = "stopped"
    \/ a = "pause_playback" /\ player' = IF player = "playing" THEN "paused" ELSE "playing"
    \/ a \notin PlaybackActions /\ UNCHANGED player

(* What the handlers make of the player. *)
Perform(a) ==
    \/ a = "stop_playback" /\ player' = "stopped"
    \/ a = "pause_playback" /\ player' = IF player = "playing" THEN "paused" ELSE player
    \/ a \notin PlaybackActions /\ UNCHANGED player

(* Mutant: the handler leaves its Timer in place. *)
RunHandler_KeepsTimer(t) ==
    /\ serving
    /\ wait[t] = "queued"
    /\ Perform(action[t])
    /\ wait' = [wait EXCEPT ![t] = "over"]
    /\ UNCHANGED << made, current, action, serving >>

(* onTimerStopPlayback and its likes, with no error: the action first, then
   timer_.reset(), be it the handler's own Timer or a later one. *)
RunHandler(t) ==
    /\ serving
    /\ wait[t] = "queued"
    /\ Perform(action[t])
    /\ current' = NoTimer
    /\ wait' = [AfterReset EXCEPT ![t] = "over"]
    /\ UNCHANGED << made, action, serving >>

(* AIMP refuses; the exception stops the service. *)
HandlerThrows(t) ==
    /\ CallsMayFail
    /\ serving
    /\ wait[t] = "queued"
    /\ \/ action[t] = "stop_playback"
       \/ action[t] = "pause_playback" /\ player = "playing"
    /\ serving' = FALSE
    /\ wait' = [wait EXCEPT ![t] = "over"]
    /\ UNCHANGED << made, current, action, player >>

(* Somebody uses the player. *)
PlayerChanges ==
    /\ player' \in PlaybackStates \ {player}
    /\ UNCHANGED << made, current, action, wait, serving >>

-----------------------------------------------------------------------------
SchedulerNext ==
    \/ \E a \in Actions : Schedule(a)
    \/ Cancel
    \/ PlayerChanges
    \/ \E t \in Timers :
          TimeIsUp(t) \/ QueueHandler(t) \/ RunHandler(t) \/ HandlerThrows(t)

(* Time passes and the tick polls the io_service. *)
SchedulerFairness ==
    \A t \in Timers :
       WF_svars(TimeIsUp(t)) /\ WF_svars(QueueHandler(t)) /\ WF_svars(RunHandler(t))

SchedulerSpec == SchedulerInit /\ [][SchedulerNext]_svars

-----------------------------------------------------------------------------
(* Properties                                                              *)

SchedulerTypeOK ==
    /\ made \in 0..MaxTimers
    /\ current \in 0..made
    /\ action \in [Timers -> Actions \union {"none"}]
    /\ wait \in [Timers -> Waits]
    /\ player \in PlaybackStates
    /\ serving \in BOOLEAN

(* However calls and expiries follow each other, no Timer but the one the
   method reports (current_timer) still waits: what was cancelled or replaced
   in time never acts. *)
OnlyCurrentWaits ==
    \A t \in Timers : wait[t] \in { "waiting", "expired" } => t = current

(* A sleep timer does not start the music: pausePlayback toggles, and the
   handler may run long after the user has stopped or paused the player. *)
PauseNeverStarts ==
    [][ \A t \in Timers :
           RunHandler(t) /\ player # "playing" => player' # "playing" ]_svars

(* The Timer that the method reports does not stay for ever: its handler, a
   call, or the handler of an earlier one takes it away. *)
EachTimerEnds ==
    \A t \in Timers : current = t ~> (current # t \/ ~serving)

=============================================================================
