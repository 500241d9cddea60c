------------------------ MODULE TrackRemoval_proofs ------------------------
(***************************************************************************)
(* Proofs about TrackRemoval for any requests and tracks.                  *)
(***************************************************************************)
EXTENDS TrackRemoval, TLAPS

(* A delayed request asked for the file, and has had its entry removed: its
   handler may delete the file, and nothing brings the entry back. *)
DelayedIsGone ==
    \A r \in Requests : request[r] \in Delayed => physical[r] /\ track[r] \notin entries

Inv == RemovalTypeOK /\ OneWaits /\ DelayedIsGone /\ SuccessMeansGone /\ DeletedForACall

LEMMA InitInv == ASSUME RemovalInit PROVE Inv
BY RemovalAssumption
   DEF RemovalInit, Inv, RemovalTypeOK, OneWaits, DelayedIsGone, SuccessMeansGone,
       DeletedForACall, States, Delayed, Answers

(* The call a file was deleted for goes on being that call: a step answers for
   what it deletes, and takes back no success. *)
LEMMA StepAnswersForItsFile ==
    ASSUME Inv, NEW r \in Requests,
           entries' \subseteq entries, UNCHANGED << fileOf, track, physical >>,
           \A q \in Requests : request[q] = "success" => request'[q] = "success",
           files \subseteq files' \union {fileOf[track[r]]},
           files' = files \/ ( /\ request'[r] = "success" /\ physical[r]
                              /\ track[r] \notin entries' )
    PROVE  DeletedForACall'
<1> SUFFICES ASSUME NEW f \in Files \ files'
             PROVE  \E q \in Requests : /\ request'[q] = "success" /\ physical[q]
                                       /\ fileOf[track[q]] = f
                                       /\ track[q] \notin entries'
  BY DEF DeletedForACall
<1>1. CASE f \notin files
  <2>1. PICK q \in Requests : /\ request[q] = "success" /\ physical[q]
                             /\ fileOf[track[q]] = f /\ track[q] \notin entries
    BY <1>1 DEF Inv, DeletedForACall
  <2>2. QED
    BY <2>1
<1>2. CASE f \in files
  BY <1>2
<1> QED
  BY <1>1, <1>2

LEMMA RemoveAtOnceInv == ASSUME Inv, NEW r \in Requests, RemoveAtOnce(r) PROVE Inv'
<1>1. entries' = entries \ {track[r]} /\ UNCHANGED << fileOf, playing, track, physical, serving >>
  BY DEF RemoveAtOnce
<1>2. \/ /\ files' = IF physical[r] /\ ManagerDeletes THEN files \ {fileOf[track[r]]} ELSE files
         /\ request' = [request EXCEPT ![r] = "success"]
      \/ /\ files' = files
         /\ request' = [request EXCEPT ![r] = "fault"]
  BY DEF RemoveAtOnce, Become
<1>3. RemovalTypeOK'
  BY <1>1, <1>2 DEF Inv, RemovalTypeOK, States, Answers
<1>4. OneWaits' /\ DelayedIsGone'
  BY <1>1, <1>2 DEF Inv, RemovalTypeOK, OneWaits, DelayedIsGone, Delayed
<1>5. SuccessMeansGone'
  BY <1>1, <1>2 DEF Inv, RemovalTypeOK, SuccessMeansGone
<1>6. request[r] = "new"
  BY DEF RemoveAtOnce, CanRemove
<1>7. /\ \A q \in Requests : request[q] = "success" => request'[q] = "success"
      /\ files \subseteq files' \union {fileOf[track[r]]}
      /\ files' = files \/ ( /\ request'[r] = "success" /\ physical[r]
                            /\ track[r] \notin entries' )
  BY <1>1, <1>2, <1>6 DEF Inv, RemovalTypeOK
<1>8. DeletedForACall'
  BY <1>1, <1>7, StepAnswersForItsFile
<1> QED
  BY <1>3, <1>4, <1>5, <1>8 DEF Inv

LEMMA RemoveByTimerInv == ASSUME Inv, NEW r \in Requests, RemoveByTimer(r) PROVE Inv'
<1>1. entries' = entries \ {track[r]} /\ UNCHANGED << fileOf, files, track, physical, serving >>
      /\ playing' \in Tracks \union {None}
  BY DEF RemoveByTimer, Inv, RemovalTypeOK
<1>2. request' = Rearmed(r) \/ request' = [request EXCEPT ![r] = "fault"]
  BY DEF RemoveByTimer, Become
<1>3. request' \in [Requests -> States]
  BY <1>2 DEF Rearmed, Inv, RemovalTypeOK, States, Delayed, Answers
<1>4. RemovalTypeOK'
  BY <1>1, <1>3 DEF Inv, RemovalTypeOK
<1>5. OneWaits'
  BY <1>2 DEF Rearmed, Inv, RemovalTypeOK, OneWaits
<1>6. physical[r] /\ request[r] = "new"
  BY DEF RemoveByTimer, ByTimer, CanRemove
<1>7. DelayedIsGone'
  BY <1>1, <1>2, <1>6 DEF Rearmed, Inv, RemovalTypeOK, DelayedIsGone, Delayed
<1>8. SuccessMeansGone'
  BY <1>1, <1>2 DEF Rearmed, Inv, RemovalTypeOK, SuccessMeansGone
<1>9. \A q \in Requests : request[q] = "success" => request'[q] = "success"
  BY <1>2, <1>6 DEF Rearmed, Inv, RemovalTypeOK
<1>10. DeletedForACall'
  BY <1>1, <1>9, StepAnswersForItsFile
<1> QED
  BY <1>4, <1>5, <1>7, <1>8, <1>10 DEF Inv

(* The two handlers, which answer one request and may delete its file. *)
LEMMA HandlersInv ==
    ASSUME Inv, NEW r \in Requests, DeleteFile(r) \/ FailAborted(r) PROVE Inv'
<1>1. serving' \in BOOLEAN /\ UNCHANGED << entries, fileOf, playing, track, physical >>
  BY DEF DeleteFile, FailAborted, Answer, Inv, RemovalTypeOK
<1>2. \/ files' = files \ {fileOf[track[r]]} /\ request' = [request EXCEPT ![r] = "success"]
      \/ files' = files /\ request' = [request EXCEPT ![r] = "fault"]
  BY DEF DeleteFile, FailAborted, Answer, Become
<1>3. physical[r] /\ track[r] \notin entries /\ request[r] \in Delayed
  BY DEF DeleteFile, FailAborted, Inv, DelayedIsGone, Delayed
<1>4. RemovalTypeOK'
  BY <1>1, <1>2 DEF Inv, RemovalTypeOK, States, Answers
<1>5. OneWaits' /\ DelayedIsGone' /\ SuccessMeansGone'
  BY <1>1, <1>2, <1>3 DEF Inv, RemovalTypeOK, OneWaits, DelayedIsGone, SuccessMeansGone, Delayed
<1>6. /\ \A q \in Requests : request[q] = "success" => request'[q] = "success"
      /\ files \subseteq files' \union {fileOf[track[r]]}
      /\ files' = files \/ request'[r] = "success"
  BY <1>2, <1>3 DEF Inv, RemovalTypeOK, Delayed
<1>7. DeletedForACall'
  BY <1>1, <1>3, <1>6, StepAnswersForItsFile
<1> QED
  BY <1>4, <1>5, <1>7 DEF Inv

LEMMA NextInv == ASSUME Inv, [RemovalNext]_rvars PROVE Inv'
<1> USE DEF Inv, RemovalTypeOK, OneWaits, DelayedIsGone, SuccessMeansGone, DeletedForACall
<1>1. CASE UNCHANGED rvars
  BY <1>1 DEF rvars
<1>2. CASE AimpPlays
  BY <1>2 DEF AimpPlays
<1>3. ASSUME NEW r \in Requests, RemoveRefused(r) \/ WaitIsOver(r) \/ QueueDeletion(r)
      PROVE  Inv'
  BY <1>3 DEF RemoveRefused, WaitIsOver, QueueDeletion, Become, States, Delayed, Answers
<1> QED
  BY <1>1, <1>2, <1>3, RemoveAtOnceInv, RemoveByTimerInv, HandlersInv DEF RemovalNext

LEMMA InvHolds == RemovalSpec => []Inv
BY InitInv, NextInv, PTL DEF RemovalSpec

(* The variables keep their types. *)
THEOREM TypeCorrect == RemovalSpec => []RemovalTypeOK
<1>1. Inv => RemovalTypeOK
  BY DEF Inv
<1> QED
  BY <1>1, InvHolds, PTL

(* The one timer has at most one wait. *)
THEOREM OneWaitsHolds == RemovalSpec => []OneWaits
<1>1. Inv => OneWaits
  BY DEF Inv
<1> QED
  BY <1>1, InvHolds, PTL

(* A success tells the truth about the entry and the file, for any number of
   requests that take the timer from each other. *)
THEOREM SuccessMeansGoneHolds == RemovalSpec => []SuccessMeansGone
<1>1. Inv => SuccessMeansGone
  BY DEF Inv
<1> QED
  BY <1>1, InvHolds, PTL

(* Every file that is gone from the disk went for a call that asked for it and
   was told of success, whatever fails and whichever entries share a file. *)
THEOREM DeletedForACallHolds == RemovalSpec => []DeletedForACall
<1>1. Inv => DeletedForACall
  BY DEF Inv
<1> QED
  BY <1>1, InvHolds, PTL

=============================================================================
