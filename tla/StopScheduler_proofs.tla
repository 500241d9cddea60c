------------------------ MODULE StopScheduler_proofs ------------------------
(***************************************************************************)
(* Proofs about StopScheduler for any number of timers.                    *)
(***************************************************************************)
EXTENDS StopScheduler, TLAPS

(* Waits are those of Timer objects that were made, and only the current
   object still waits. *)
OnlyMadeWait == \A t \in Timers : wait[t] # "none" => t <= made

Inv == SchedulerTypeOK /\ OnlyMadeWait /\ OnlyCurrentWaits

(* Destroying the current Timer leaves nobody waiting. *)
LEMMA AfterResetFacts ==
    ASSUME Inv
    PROVE  /\ AfterReset \in [Timers -> Waits]
           /\ \A t \in Timers : /\ AfterReset[t] \notin { "waiting", "expired" }
                                /\ AfterReset[t] # "none" => t <= made
BY DEF Inv, SchedulerTypeOK, OnlyMadeWait, OnlyCurrentWaits, AfterReset, Waits

LEMMA InitInv == ASSUME SchedulerInit PROVE Inv
BY SchedulerAssumption
   DEF SchedulerInit, Inv, SchedulerTypeOK, OnlyMadeWait, OnlyCurrentWaits, NoTimer, Waits, Timers

LEMMA ScheduleInv == ASSUME Inv, NEW a \in Actions, Schedule(a) PROVE Inv'
<1> USE SchedulerAssumption
<1>1. made' \in Timers /\ made' = made + 1 /\ current' = made' /\ made \in Nat
  BY DEF Schedule, Inv, SchedulerTypeOK, Timers
<1>2. wait' = [AfterReset EXCEPT ![made'] = "waiting"]
  BY <1>1 DEF Schedule
<1>3. wait' \in [Timers -> Waits]
  BY <1>1, <1>2, AfterResetFacts DEF Waits
<1>4. action' \in [Timers -> Actions \union {"none"}]
  BY <1>1 DEF Schedule, Inv, SchedulerTypeOK
<1>5. SchedulerTypeOK'
  BY <1>1, <1>3, <1>4 DEF Schedule, Inv, SchedulerTypeOK, Timers
<1>6. OnlyMadeWait' /\ OnlyCurrentWaits'
  BY <1>1, <1>2, AfterResetFacts DEF OnlyMadeWait, OnlyCurrentWaits, Timers
<1> QED
  BY <1>5, <1>6 DEF Inv

LEMMA CancelInv == ASSUME Inv, Cancel PROVE Inv'
BY SchedulerAssumption, AfterResetFacts
   DEF Cancel, Inv, SchedulerTypeOK, OnlyMadeWait, OnlyCurrentWaits, NoTimer

LEMMA RunHandlerInv == ASSUME Inv, NEW t \in Timers, RunHandler(t) PROVE Inv'
<1>1. t \in 1..made
  BY SchedulerAssumption DEF RunHandler, Inv, SchedulerTypeOK, OnlyMadeWait, Timers
<1>2. wait' = [AfterReset EXCEPT ![t] = "over"] /\ current' = NoTimer
      /\ UNCHANGED << made, action, serving >>
  BY DEF RunHandler
<1>3. player' \in PlaybackStates
  BY DEF RunHandler, Perform, PlaybackStates, Inv, SchedulerTypeOK
<1>4. SchedulerTypeOK'
  BY <1>1, <1>2, <1>3, AfterResetFacts, SchedulerAssumption DEF Inv, SchedulerTypeOK, Waits, NoTimer
<1>5. OnlyMadeWait' /\ OnlyCurrentWaits'
  BY <1>1, <1>2, AfterResetFacts DEF OnlyMadeWait, OnlyCurrentWaits
<1> QED
  BY <1>4, <1>5 DEF Inv

LEMMA NextInv == ASSUME Inv, [SchedulerNext]_svars PROVE Inv'
<1>1. CASE UNCHANGED svars
  BY <1>1 DEF svars, Inv, SchedulerTypeOK, OnlyMadeWait, OnlyCurrentWaits
<1>2. CASE PlayerChanges
  BY <1>2 DEF PlayerChanges, Inv, SchedulerTypeOK, OnlyMadeWait, OnlyCurrentWaits
<1>3. ASSUME NEW t \in Timers, TimeIsUp(t) \/ QueueHandler(t) \/ HandlerThrows(t)
      PROVE  Inv'
  BY <1>3 DEF TimeIsUp, QueueHandler, HandlerThrows, Inv, SchedulerTypeOK, Waits,
              OnlyMadeWait, OnlyCurrentWaits
<1> QED
  BY <1>1, <1>2, <1>3, ScheduleInv, CancelInv, RunHandlerInv DEF SchedulerNext

(* The variables keep their types. *)
THEOREM TypeCorrect == SchedulerSpec => []SchedulerTypeOK
<1>1. Inv => SchedulerTypeOK
  BY DEF Inv
<1> QED
  BY <1>1, InitInv, NextInv, PTL DEF SchedulerSpec

(* What was cancelled or replaced before its time was up never acts: no
   Timer waits but the current one. *)
THEOREM OnlyCurrentWaitsHolds == SchedulerSpec => []OnlyCurrentWaits
<1>1. Inv => OnlyCurrentWaits
  BY DEF Inv
<1> QED
  BY <1>1, InitInv, NextInv, PTL DEF SchedulerSpec

(* No handler makes a player play that does not. *)
THEOREM PauseNeverStartsHolds == SchedulerSpec => PauseNeverStarts
<1>1. ASSUME NEW t \in Timers, RunHandler(t), player # "playing"
      PROVE  player' # "playing"
  BY <1>1 DEF RunHandler, Perform
<1>2. [SchedulerNext]_svars =>
         [\A t \in Timers : RunHandler(t) /\ player # "playing" => player' # "playing"]_svars
  BY <1>1
<1> QED
  BY <1>2, PTL DEF SchedulerSpec, PauseNeverStarts

=============================================================================
