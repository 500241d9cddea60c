--------------------------- MODULE PlaylistMirror ---------------------------
(***************************************************************************)
(* AIMPManager36 and AIMPManager30 mirror AIMP's playlists into an in-     *)
(* memory database, from which every RPC method reads.  AIMP calls Changed *)
(* of a playlist's listener with flags that say what changed.  A change    *)
(* that comes within a second of the previous one is not mirrored at once: *)
(* its flags are gathered and a timer of one second is armed anew; the     *)
(* timer's handler mirrors what the flags say.  AIMPManager30, for AIMP    *)
(* 3.0 to 3.5, differs in how a playlist is added and in what a handler    *)
(* holds on to.                                                            *)
(*                                                                         *)
(* Contents are abstracted to what tells a faithful mirror from a stale    *)
(* one: which aspects AIMP has changed since they were last mirrored.  A   *)
(* step is one call from AIMP or one handler of the io_service; both run   *)
(* on AIMP's main thread.  The handler of an expired timer waits in the    *)
(* io_service's queue until the tick comes to it, and calls from AIMP may  *)
(* come in between: RPC handlers in front of it change playlists.          *)
(***************************************************************************)
EXTENDS Naturals, FiniteSets

CONSTANTS
    Playlists,     \* the ids of playlists
    Environments,  \* what the plugin may run in
    MaxQueued      \* bound: handlers of one playlist in the io_service's queue

(* The flags that change what the mirror holds, and two of those that do not. *)
PropertyFlags == { "NAME", "STATISTICS" }
EntryFlags == { "FILEINFO", "CONTENT" }
OtherFlags == { "SELECTION", "FOCUSINDEX" }
Flags == PropertyFlags \union EntryFlags \union OtherFlags

(* manager: which one the plugin has created for AIMP's version ("2.6" has
   no part here: PeriodicMirror); playlists:
   those AIMP may load; changes: the sets of flags it calls Changed with;
   fails: reading AIMP, writing the database and notifying may throw. *)
ASSUME MirrorAssumption ==
    /\ Environments \subseteq [ manager : { "2.6", "3.0", "3.6" },
                                playlists : SUBSET Playlists,
                                changes : SUBSET SUBSET Flags,
                                fails : BOOLEAN ]
    /\ MaxQueued \in Nat \ {0}

VARIABLES
    loaded,   \* the playlists that have a helper (playlist_helpers_)
    flags,    \* PlaylistChanged::flags, gathered while changes are deferred
    recent,   \* the last change was at most a second ago (last_time_)
    timer,    \* the wait of playlist_changed_timer_
    queued,   \* its handlers in the io_service's queue, expired not aborted
    stale,    \* what AIMP changed since the mirror loaded it
    mirror,   \* the playlist's rows of the database, and its crc32 object
    serving,  \* the tick runs and the io_service is not stopped
    aimp      \* the environment, the same in the whole execution

vars == << loaded, flags, recent, timer, queued, stale, mirror, serving, aimp >>

(* A row of Playlists has crc32 0 until it is computed; afterwards it is
   the checksum of the content now in the database, or of an earlier one.
   A part of the crc32 object is unset, or likewise. *)
Crcs == { "none", "zero", "current", "outdated" }
Parts == { "unset", "current", "outdated" }
Mirrors == [ entries : { "none", "partial", "whole" }, \* rows of PlaylistsEntries
             crc : Crcs,                               \* "none": no row at all
             ofEntries : Parts, ofProperties : Parts,  \* the crc32 object
             told : BOOLEAN ]                          \* listeners know of this state

NoMirror == [ entries |-> "none", crc |-> "none", ofEntries |-> "unset",
              ofProperties |-> "unset", told |-> TRUE ]

Init ==
    /\ loaded = {}
    /\ flags = [p \in Playlists |-> {}]
    /\ recent = [p \in Playlists |-> FALSE]
    /\ timer = [p \in Playlists |-> "idle"]
    /\ queued = [p \in Playlists |-> 0]
    /\ stale = [p \in Playlists |-> {}]
    /\ mirror = [p \in Playlists |-> NoMirror]
    /\ serving = TRUE
    /\ aimp \in Environments

-----------------------------------------------------------------------------
(* The steps of loading a playlist, on one mirror.                         *)

(* The checksum in a row does not follow the row's content. *)
Outdated(m) == IF m.crc = "current" THEN "outdated" ELSE m.crc

(* Mutant: the checksum of the entries is not reset. *)
LoadEntries_KeepsChecksum(m) ==
    [m EXCEPT !.ofEntries = IF @ = "unset" THEN @ ELSE "outdated",
              !.entries = "whole", !.crc = Outdated(m), !.told = FALSE]

(* loadEntries: the checksum of the entries is reset before anything else,
   then the rows are deleted and inserted one by one. *)
LoadEntries(m) ==
    [m EXCEPT !.ofEntries = "unset", !.entries = "whole",
              !.crc = Outdated(m), !.told = FALSE]

LoadEntriesPartly(m) == [LoadEntries(m) EXCEPT !.entries = "partial"]

(* loadPlaylist: replaces the row, its checksum becomes 0. *)
LoadProperties(m) ==
    [m EXCEPT !.ofProperties = "unset", !.crc = "zero", !.told = FALSE]

LoadPropertiesFails(m) == [m EXCEPT !.ofProperties = "unset"]

(* Mutant: the row takes the checksum before it is computed. *)
UpdateCrc_TooEarly(m) ==
    [m EXCEPT !.crc = m.ofProperties, !.ofEntries = "current",
              !.ofProperties = "current", !.told = FALSE]

(* getPlaylistCRC32 computes the parts that are not set and combines them. *)
Computed(part) == IF part = "unset" THEN "current" ELSE part

UpdateCrc(m) ==
    LET e == Computed(m.ofEntries)
        q == Computed(m.ofProperties)
    IN [m EXCEPT !.ofEntries = e, !.ofProperties = q, !.told = FALSE,
                 !.crc = IF "outdated" \in { e, q } THEN "outdated" ELSE "current"]

(* EVENT_PLAYLISTS_CONTENT_CHANGE *)
NotifyListeners(m) == [m EXCEPT !.told = TRUE]

(* How loading may end: the mirror, what it still owes, and did it throw. *)
Outcome(m, owed, threw) == [ mirror |-> m, stale |-> owed, threw |-> threw ]

IfLoadMayFail(S) == IF aimp.fails THEN S ELSE {}

(* handlePlaylistChange: entries first, when the flags ask for them; then
   the index, the properties, the checksum and the notification. *)
HandleChange(m, owed, fs) ==
    LET withEntries == fs \intersect EntryFlags # {}
        m1 == IF withEntries THEN LoadEntries(m) ELSE m
        s1 == IF withEntries THEN owed \ { "entries" } ELSE owed
        m2 == LoadProperties(m1)
        s2 == s1 \ { "properties" }
    IN IF fs \subseteq OtherFlags
       THEN { Outcome(m, owed, FALSE) }
       ELSE { Outcome(NotifyListeners(UpdateCrc(m2)), s2, FALSE) }
            \union IfLoadMayFail(
               { Outcome(m1, s1, TRUE), Outcome(LoadPropertiesFails(m1), s1, TRUE),
                 Outcome(m2, s2, TRUE), Outcome(UpdateCrc(m2), s2, TRUE) }
               \union (IF withEntries THEN { Outcome(LoadEntriesPartly(m), owed, TRUE) }
                                      ELSE {}))

(* playlistAdded: the properties first, then the entries; no checksum. *)
LoadAdded(m, owed) ==
    LET m1 == LoadProperties(m)
    IN { Outcome(NotifyListeners(LoadEntries(m1)), {}, FALSE) }
       \union IfLoadMayFail({ Outcome(m, owed, TRUE),
                              Outcome(LoadPropertiesFails(m), owed, TRUE),
                              Outcome(LoadEntriesPartly(m1), owed \ { "properties" }, TRUE),
                              Outcome(LoadEntries(m1), {}, TRUE) })

(* onStorageAdded loads the properties only: the entries come with a change
   of the content that AIMP reports during or after it. *)
LoadStorageAdded(m) ==
    LET m1 == LoadProperties(m)
        both == { "entries", "properties" }
    IN { Outcome(NotifyListeners(m1), { "entries" }, FALSE) }
       \union IfLoadMayFail({ Outcome(m, both, TRUE),
                              Outcome(LoadPropertiesFails(m), both, TRUE),
                              Outcome(m1, { "entries" }, TRUE) })

(* deletePlaylistFromPlaylistDB: a query that fails is only logged.  The
   crc32 object goes with the helper. *)
Removed(m) ==
    { NoMirror }
    \union IfLoadMayFail({ [NoMirror EXCEPT !.told = FALSE],
                           [m EXCEPT !.ofEntries = "unset", !.ofProperties = "unset"] })

Mirrored(p, outcome) ==
    /\ mirror' = [mirror EXCEPT ![p] = outcome.mirror]
    /\ stale' = [stale EXCEPT ![p] = outcome.stale]

-----------------------------------------------------------------------------
(* Calls from AIMP.  Exceptions are caught before they reach AIMP.         *)

(* A handler in the queue keeps the playlist it is for alive: no other one
   can have its address, which serves as its id. *)
NewHelper(p) ==
    /\ p \notin loaded
    /\ queued[p] = 0
    /\ loaded' = loaded \union {p}
    /\ recent' = [recent EXCEPT ![p] = TRUE]
    /\ \E outcome \in LoadAdded(mirror[p], { "entries", "properties" }) :
          Mirrored(p, outcome)

(* A playlist may be added that the constructor has loaded already: it keeps
   its helper and is loaded again. *)
SameHelper(p) ==
    /\ p \in loaded
    /\ \E outcome \in LoadAdded(mirror[p], stale[p]) : Mirrored(p, outcome)
    /\ UNCHANGED << loaded, recent >>

PlaylistAdded(p) ==
    /\ aimp.manager = "3.6"
    /\ p \in aimp.playlists
    /\ NewHelper(p) \/ SameHelper(p)
    /\ UNCHANGED << flags, timer, queued, serving, aimp >>

Touched(fs) ==
    (IF fs \intersect EntryFlags # {} THEN { "entries" } ELSE {})
    \union (IF fs \subseteq OtherFlags THEN {} ELSE { "properties" })

(* Mutant: what AIMP reports while the playlist is added is gathered with no
   timer. *)
DuringAdd_Unarmed(p, first, fs) ==
    /\ flags' = [flags EXCEPT ![p] = fs]
    /\ UNCHANGED timer
    /\ Mirrored(p, [first EXCEPT !.stale = @ \union Touched(fs)])

(* AIMP 3.20 calls StorageChanged from StorageAdded: the listener keeps the
   flags and passes them on when the playlist has been added, which is within
   the second that began with its helper unless loading took longer. *)
DuringAdd(p, first, fs) ==
    \/ /\ flags' = [flags EXCEPT ![p] = fs]
       /\ timer' = [timer EXCEPT ![p] = "waiting"]
       /\ Mirrored(p, [first EXCEPT !.stale = @ \union Touched(fs)])
    \/ /\ UNCHANGED << flags, timer >>
       /\ \E outcome \in HandleChange(first.mirror, first.stale \union Touched(fs), fs) :
             Mirrored(p, outcome)

(* A handler in the queue holds a bare handle here: AIMP may give it to
   another playlist while the handler waits. *)
StorageAdded(p) ==
    /\ aimp.manager = "3.0"
    /\ p \in aimp.playlists \ loaded
    /\ loaded' = loaded \union {p}
    /\ recent' = [recent EXCEPT ![p] = TRUE]
    /\ \E first \in LoadStorageAdded(mirror[p]) :
          \/ Mirrored(p, first) /\ UNCHANGED << flags, timer >>
          \/ \E fs \in aimp.changes : DuringAdd(p, first, fs)
    /\ UNCHANGED << queued, serving, aimp >>

(* Mutant: nobody is told. *)
Unload_Silently(p) ==
    /\ p \in loaded
    /\ loaded' = loaded \ {p}
    /\ flags' = [flags EXCEPT ![p] = {}]
    /\ recent' = [recent EXCEPT ![p] = FALSE]
    /\ timer' = [timer EXCEPT ![p] = "idle"]
    /\ mirror' = [mirror EXCEPT ![p] = [NoMirror EXCEPT !.told = FALSE]]
    /\ stale' = [stale EXCEPT ![p] = {}]
    /\ UNCHANGED << queued, serving, aimp >>

(* The rows go, then the helper: its timer cancels the wait, but a handler
   in the queue stays there. *)
Unload(p) ==
    /\ p \in loaded
    /\ loaded' = loaded \ {p}
    /\ flags' = [flags EXCEPT ![p] = {}]
    /\ recent' = [recent EXCEPT ![p] = FALSE]
    /\ timer' = [timer EXCEPT ![p] = "idle"]
    /\ \E m \in Removed(mirror[p]) : mirror' = [mirror EXCEPT ![p] = m]
    /\ stale' = [stale EXCEPT ![p] = {}]
    /\ UNCHANGED << queued, serving, aimp >>

PlaylistRemoved(p) == aimp.manager = "3.6" /\ Unload(p)

StorageRemoved(p) == aimp.manager = "3.0" /\ Unload(p)

(* Mutant: the flags are gathered and the timer is forgotten. *)
Defer_Unarmed(p, fs) ==
    /\ recent[p]
    /\ flags' = [flags EXCEPT ![p] = @ \union fs]
    /\ stale' = [stale EXCEPT ![p] = @ \union Touched(fs)]
    /\ UNCHANGED << timer, recent, mirror >>

(* trySchedulePlaylistContentUpdate within the second: gather the flags and
   arm the timer anew, which aborts a wait that is not in the queue yet. *)
Defer(p, fs) ==
    /\ recent[p]
    /\ flags' = [flags EXCEPT ![p] = @ \union fs]
    /\ timer' = [timer EXCEPT ![p] = "waiting"]
    /\ stale' = [stale EXCEPT ![p] = @ \union Touched(fs)]
    /\ UNCHANGED << recent, mirror >>

(* ... and after it: the gathered flags are cleared, the wait is left alone,
   and the change alone is handled at once. *)
HandleAtOnce(p, fs) ==
    /\ ~recent[p]
    /\ flags' = [flags EXCEPT ![p] = {}]
    /\ recent' = [recent EXCEPT ![p] = TRUE]
    /\ \E outcome \in HandleChange(mirror[p], stale[p] \union Touched(fs), fs) :
          Mirrored(p, outcome)
    /\ UNCHANGED timer

Change(p, fs) ==
    /\ p \in loaded
    /\ Defer(p, fs) \/ HandleAtOnce(p, fs)
    /\ UNCHANGED << loaded, queued, serving, aimp >>

PlaylistChanged(p, fs) == aimp.manager = "3.6" /\ Change(p, fs)

StorageChanged(p, fs) == aimp.manager = "3.0" /\ Change(p, fs)

-----------------------------------------------------------------------------
(* Time and the io_service.                                                *)

(* The wait was armed with the last change, a few instructions after the
   change read the clock; its second is over before the one that
   trySchedulePlaylistContentUpdate measures, which counts whole milliseconds
   and takes 1000 of them for recent still. *)
TimerExpires(p) ==
    /\ timer[p] = "waiting"
    /\ timer' = [timer EXCEPT ![p] = "expired"]
    /\ UNCHANGED << loaded, flags, recent, queued, stale, mirror, serving, aimp >>

SecondIsOver(p) ==
    /\ recent[p]
    /\ timer[p] # "waiting"
    /\ recent' = [recent EXCEPT ![p] = FALSE]
    /\ UNCHANGED << loaded, flags, timer, queued, stale, mirror, serving, aimp >>

(* While it polls, the io_service queues the handlers of expired waits. *)
QueueHandler(p) ==
    /\ serving
    /\ timer[p] = "expired"
    /\ queued[p] < MaxQueued
    /\ timer' = [timer EXCEPT ![p] = "idle"]
    /\ queued' = [queued EXCEPT ![p] = @ + 1]
    /\ UNCHANGED << loaded, flags, recent, stale, mirror, serving, aimp >>

(* Mutants: the gathered flags stay in the helper; the playlist is mirrored
   without a look at the helpers. *)
HandlePlaylistUpdateTimer_KeepsFlags(p) ==
    /\ serving
    /\ queued[p] > 0
    /\ queued' = [queued EXCEPT ![p] = @ - 1]
    /\ \E outcome \in HandleChange(mirror[p], stale[p], flags[p]) : Mirrored(p, outcome)
    /\ UNCHANGED << loaded, flags, recent, timer, serving, aimp >>

HandlePlaylistUpdateTimer_Blindly(p) ==
    /\ serving
    /\ queued[p] > 0
    /\ queued' = [queued EXCEPT ![p] = @ - 1]
    /\ flags' = [flags EXCEPT ![p] = {}]
    /\ \E outcome \in HandleChange(mirror[p], stale[p], PropertyFlags) : Mirrored(p, outcome)
    /\ UNCHANGED << loaded, recent, timer, serving, aimp >>

(* handlePlaylistUpdateTimer.  Nothing catches what it throws before the
   tick does: when there is no helper any more, or loading fails. *)
HandlePlaylistUpdateTimer(p) ==
    /\ serving
    /\ queued[p] > 0
    /\ queued' = [queued EXCEPT ![p] = @ - 1]
    /\ IF p \in loaded
       THEN /\ flags' = [flags EXCEPT ![p] = {}]
            /\ \E outcome \in HandleChange(mirror[p], stale[p], flags[p]) :
                  /\ Mirrored(p, outcome)
                  /\ serving' = ~outcome.threw
       ELSE /\ serving' = FALSE
            /\ UNCHANGED << flags, stale, mirror >>
    /\ UNCHANGED << loaded, recent, timer, aimp >>

-----------------------------------------------------------------------------
AimpChanges(p) ==
    \E fs \in aimp.changes : PlaylistChanged(p, fs) \/ StorageChanged(p, fs)

Next ==
    \E p \in Playlists :
       \/ PlaylistAdded(p) \/ PlaylistRemoved(p)
       \/ StorageAdded(p) \/ StorageRemoved(p)
       \/ AimpChanges(p)
       \/ TimerExpires(p) \/ SecondIsOver(p)
       \/ QueueHandler(p) \/ HandlePlaylistUpdateTimer(p)

(* Time passes and the tick polls the io_service. *)
Fairness ==
    \A p \in Playlists :
       /\ WF_vars(TimerExpires(p)) /\ WF_vars(SecondIsOver(p))
       /\ WF_vars(QueueHandler(p)) /\ WF_vars(HandlePlaylistUpdateTimer(p))

Spec == Init /\ [][Next]_vars

FairSpec == Spec /\ Fairness

-----------------------------------------------------------------------------
(* Properties                                                              *)

TypeOK ==
    /\ loaded \subseteq Playlists
    /\ flags \in [Playlists -> SUBSET Flags]
    /\ recent \in [Playlists -> BOOLEAN]
    /\ timer \in [Playlists -> { "idle", "waiting", "expired" }]
    /\ queued \in [Playlists -> 0..MaxQueued]
    /\ stale \in [Playlists -> SUBSET { "entries", "properties" }]
    /\ mirror \in [Playlists -> Mirrors]
    /\ serving \in BOOLEAN
    /\ aimp \in Environments

Scheduled(p) == timer[p] # "idle" \/ queued[p] > 0

(* Flags that trySchedulePlaylistContentUpdate gathers are not forgotten in
   the helper: a wait or a handler that will act on them is always there. *)
GatheredFlagsAreScheduled ==
    \A p \in Playlists : flags[p] # {} => Scheduled(p)

(* A checksum handed out with a playlist (setPlaylistsContentChangeInfo,
   GetPlaylists) is 0 or the checksum of the content in the database: a
   client that compares it never takes new content for old. *)
ChecksumTellsContent ==
    ~aimp.fails =>
       \A p \in Playlists : mirror[p].crc \in { "zero", "current", "none" }

(* Between two calls the listeners know of everything in the mirror. *)
ListenersToldOfMirror == ~aimp.fails => \A p \in Playlists : mirror[p].told

(* A removed playlist leaves nothing behind and nothing brings it back: no
   handler that was queued for it writes its rows again, and no wait of its
   timer survives the helper. *)
RemovedLeavesNothing ==
    ~aimp.fails =>
       \A p \in Playlists \ loaded :
          mirror[p] = NoMirror /\ flags[p] = {} /\ timer[p] = "idle"

(* "playlists_content_change - change of playlist's content": what AIMP
   changed is in the mirror, or will be by a change that is scheduled. *)
StaleIsScheduled ==
    \A p \in Playlists :
       p \in loaded /\ serving /\ ~aimp.fails =>
          stale[p] \subseteq Touched(flags[p])

(* Once AIMP leaves a playlist alone, its gathered flags are acted upon,
   unless the service has been stopped. *)
ChangesSettle ==
    \A p \in Playlists :
       <>[][~(AimpChanges(p) \/ StorageAdded(p))]_vars
          => <>[](flags[p] = {} \/ ~serving)

=============================================================================
