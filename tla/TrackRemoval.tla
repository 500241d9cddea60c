---------------------------- MODULE TrackRemoval ----------------------------
(***************************************************************************)
(* The RPC method RemoveTrack.  The file of a track that is not playing is *)
(* deleted by the manager, in the call.  The file of the playing track is  *)
(* in use: the method removes its entry, makes AIMP go on to the next      *)
(* track and keeps the request waiting on a timer of two seconds, whose    *)
(* handler deletes the file and answers.                                   *)
(*                                                                         *)
(* There is one timer for all requests.  Arming it anew aborts the wait of *)
(* an earlier request, unless its handler is in the io_service's queue.    *)
(***************************************************************************)
EXTENDS Naturals, Service

CONSTANTS
    Requests,         \* calls of RemoveTrack
    Tracks,           \* entries of a playlist
    Files,            \* files on the disk
    Namings,          \* which file each track names; two may name one
    DeletionEnabled,  \* enable_physical_track_deletion
    ManagerDeletes,   \* the AIMP manager deletes files; AIMP 2's does not
    SendMayThrow      \* sending a delayed response may throw (see DebugLog)

ASSUME RemovalAssumption ==
    /\ Namings \subseteq [Tracks -> Files]
    /\ DeletionEnabled \in BOOLEAN
    /\ ManagerDeletes \in BOOLEAN
    /\ SendMayThrow \in BOOLEAN

None == "none"
ASSUME NoneAssumption == None \notin Tracks

VARIABLES
    entries,   \* tracks in AIMP's playlist
    fileOf,    \* the file an entry names, which AIMP keeps
    files,     \* the files that are on the disk
    playing,   \* the track AIMP plays
    request,   \* what became of each call
    track,     \* the track a call is about
    physical   \* it asked for the file to be deleted, too

rvars == << entries, fileOf, files, playing, request, track, physical, serving >>

(* A delayed call "waits" on the timer, its time is "expired", its handler
   is "queued" with no error or "aborted" with operation_aborted. *)
Delayed == { "waits", "expired", "queued", "aborted" }
Answers == { "success", "fault" }
States == { "new" } \union Delayed \union Answers

RemovalInit ==
    /\ entries = Tracks
    /\ fileOf \in Namings
    /\ files = Files
    /\ playing \in Tracks \union {None}
    /\ request = [r \in Requests |-> "new"]
    /\ track \in [Requests -> Tracks]
    /\ physical \in [Requests -> BOOLEAN]
    /\ serving = TRUE

Become(r, s) == request' = [request EXCEPT ![r] = s]

(* The method tells the playing track from the others before it removes it. *)
ByTimer(r) == physical[r] /\ track[r] = playing

(* AIMP has no such entry, refuses to delete it, or the method is not
   enabled: nothing happens but the fault. *)
RemoveRefused(r) ==
    /\ serving
    /\ request[r] = "new"
    /\ Become(r, "fault")
    /\ UNCHANGED << entries, fileOf, files, playing, track, physical, serving >>

CanRemove(r) ==
    /\ serving
    /\ request[r] = "new"
    /\ physical[r] => DeletionEnabled
    /\ track[r] \in entries

(* Mutant: the file goes first, and AIMP may still refuse. *)
RemoveAtOnce_FileFirst(r) ==
    /\ CanRemove(r)
    /\ files' = IF physical[r] THEN files \ {fileOf[track[r]]} ELSE files
    /\ \/ entries' = entries \ {track[r]} /\ Become(r, "success")
       \/ Become(r, "fault") /\ UNCHANGED entries
    /\ UNCHANGED << fileOf, playing, track, physical, serving >>

(* AIMPManager::removeTrack: the entry, then the file it names; when that
   fails the call fails, and the entry is gone nevertheless.  The manager of
   AIMP 2 logs that it cannot delete files and succeeds.  The playing track
   goes this way too when only its entry is to go, or when the method could
   not read the name of its file. *)
RemoveAtOnce(r) ==
    /\ CanRemove(r)
    /\ entries' = entries \ {track[r]}
    /\ \/ /\ files' = IF physical[r] /\ ManagerDeletes
                      THEN files \ {fileOf[track[r]]} ELSE files
          /\ Become(r, "success")
       \/ /\ physical[r] /\ ManagerDeletes
          /\ Become(r, "fault")
          /\ UNCHANGED files
    /\ UNCHANGED << fileOf, playing, track, physical, serving >>

(* expires_from_now aborts the waits that are not in the queue. *)
Rearmed(r) ==
    [q \in Requests |-> IF q = r THEN "waits"
                        ELSE IF request[q] \in { "waits", "expired" } THEN "aborted"
                        ELSE request[q]]

(* Mutants: the abort of an earlier request forgets it; there is a timer for
   each request. *)
RemoveByTimer_Forgets(r) ==
    /\ CanRemove(r)
    /\ ByTimer(r)
    /\ entries' = entries \ {track[r]}
    /\ playing' \in entries' \union {None}
    /\ request' = [q \in Requests |-> IF q = r THEN "waits"
                        ELSE IF request[q] \in { "waits", "expired" } THEN "new"
                        ELSE request[q]]
    /\ UNCHANGED << fileOf, files, track, physical, serving >>

RemoveByTimer_Own(r) ==
    /\ CanRemove(r)
    /\ ByTimer(r)
    /\ entries' = entries \ {track[r]}
    /\ playing' \in entries' \union {None}
    /\ Become(r, "waits")
    /\ UNCHANGED << fileOf, files, track, physical, serving >>

(* The playing track: its entry goes and AIMP plays the next one, if it
   will; when that fails the call does, and the file stays. *)
RemoveByTimer(r) ==
    /\ CanRemove(r)
    /\ ByTimer(r)
    /\ entries' = entries \ {track[r]}
    /\ \/ playing' \in entries' \union {None} /\ request' = Rearmed(r)
       \/ Become(r, "fault") /\ UNCHANGED playing
    /\ UNCHANGED << fileOf, files, track, physical, serving >>

WaitIsOver(r) ==
    /\ request[r] = "waits"
    /\ Become(r, "expired")
    /\ UNCHANGED << entries, fileOf, files, playing, track, physical, serving >>

QueueDeletion(r) ==
    /\ serving
    /\ request[r] = "expired"
    /\ Become(r, "queued")
    /\ UNCHANGED << entries, fileOf, files, playing, track, physical, serving >>

(* Sends the delayed answer; an exception stops the service. *)
Answer(r, s) ==
    /\ Become(r, s)
    /\ UNCHANGED serving \/ (SendMayThrow /\ serving' = FALSE)

(* Mutant: the result of the deletion is not looked at. *)
DeleteFile_Unchecked(r) ==
    /\ serving
    /\ request[r] = "queued"
    /\ Answer(r, "success")
    /\ files' = files \ {fileOf[track[r]]} \/ UNCHANGED files
    /\ UNCHANGED << entries, fileOf, playing, track, physical >>

(* onTimerDeleteTrack.  Somebody may still use the file, another entry name it. *)
DeleteFile(r) ==
    /\ serving
    /\ request[r] = "queued"
    /\ \/ files' = files \ {fileOf[track[r]]} /\ Answer(r, "success")
       \/ Answer(r, "fault") /\ UNCHANGED files
    /\ UNCHANGED << entries, fileOf, playing, track, physical >>

(* ... with operation_aborted. *)
FailAborted(r) ==
    /\ serving
    /\ request[r] = "aborted"
    /\ Answer(r, "fault")
    /\ UNCHANGED << entries, fileOf, files, playing, track, physical >>

(* Mutant: AIMP plays what was removed. *)
AimpPlays_Anything ==
    /\ playing' \in (Tracks \union {None, "another"}) \ {playing}
    /\ UNCHANGED << entries, fileOf, files, request, track, physical, serving >>

(* AIMP goes on to another track of the playlist, or stops. *)
AimpPlays ==
    /\ playing' \in (entries \union {None}) \ {playing}
    /\ UNCHANGED << entries, fileOf, files, request, track, physical, serving >>

-----------------------------------------------------------------------------
RemovalNext ==
    \/ AimpPlays
    \/ \E r \in Requests :
          \/ RemoveRefused(r) \/ RemoveAtOnce(r) \/ RemoveByTimer(r)
          \/ WaitIsOver(r) \/ QueueDeletion(r) \/ DeleteFile(r) \/ FailAborted(r)

(* Time passes and the tick polls the io_service. *)
RemovalFairness ==
    \A r \in Requests :
       /\ WF_rvars(WaitIsOver(r)) /\ WF_rvars(QueueDeletion(r))
       /\ WF_rvars(DeleteFile(r)) /\ WF_rvars(FailAborted(r))

RemovalSpec == RemovalInit /\ [][RemovalNext]_rvars

-----------------------------------------------------------------------------
(* Properties                                                              *)

RemovalTypeOK ==
    /\ entries \subseteq Tracks
    /\ fileOf \in [Tracks -> Files]
    /\ files \subseteq Files
    /\ playing \in Tracks \union {None}
    /\ request \in [Requests -> States]
    /\ track \in [Requests -> Tracks]
    /\ physical \in [Requests -> BOOLEAN]
    /\ serving \in BOOLEAN

(* The one timer has one wait: of the delayed requests, the others are in
   the queue, where each will be answered for itself. *)
OneWaits ==
    \A q, r \in Requests :
       request[q] \in { "waits", "expired" } /\ request[r] \in { "waits", "expired" } => q = r

(* A success tells the truth, also for the request that was delayed and for
   one whose timer another request took: the entry has left the playlist
   and, if it was asked for and the manager does it, the file the disk. *)
SuccessMeansGone ==
    \A r \in Requests :
       request[r] = "success" =>
          /\ track[r] \notin entries
          /\ physical[r] /\ ManagerDeletes => fileOf[track[r]] \notin files

(* A file is deleted for a call that asked for it, that is answered with a
   success, and whose entry has left the playlist: no call that fails half
   way, or whose timer another call takes, costs a file.  (An entry of
   another track may go on naming it.) *)
DeletedForACall ==
    \A f \in Files \ files : \E r \in Requests :
        /\ request[r] = "success" /\ physical[r]
        /\ fileOf[track[r]] = f
        /\ track[r] \notin entries

(* A delayed request is answered, whoever takes its timer. *)
EventuallyAnswered ==
    \A r \in Requests :
       request[r] \in Delayed ~> (request[r] \in Answers \/ ~serving)

=============================================================================
