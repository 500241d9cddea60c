--------------------------- MODULE PeriodicMirror ---------------------------
(***************************************************************************)
(* AIMP 2 does not say what changes in its playlists.  AIMPManager26 looks *)
(* every five seconds: it loads the playlists it does not know, those that *)
(* have another number of entries and those whose entries differ, and then *)
(* looks for playlists that have been closed.                              *)
(*                                                                         *)
(* A content is a sequence of tracks.  A row of Playlists is abstracted to *)
(* the content its columns (number of entries, duration, size) were read   *)
(* of; a checksum to what it was computed of.  Deleting from the in-memory *)
(* database, whose failure the code only logs, succeeds.  The timer is     *)
(* armed before a check begins: a check may always come.                   *)
(***************************************************************************)
EXTENDS Naturals, Sequences, FiniteSets

CONSTANTS
    PlaylistIds,   \* the ids AIMP gives to playlists
    Tracks,        \* what playlists consist of
    Contents,      \* the contents playlists may have
    Users,         \* what the user of AIMP does, and whether anything fails
    None           \* no playlist, no row, no checksum

(* contents: those the user gives to playlists; fails: AIMP, the database and
   the listeners may fail. *)
ASSUME PeriodicAssumption ==
    /\ IsFiniteSet(PlaylistIds)
    /\ \A c \in Contents : c \in Seq(Tracks)
    /\ Users \subseteq [ contents : SUBSET Contents, fails : BOOLEAN ]
    /\ None \notin Contents

VARIABLES
    lists,     \* the content of each playlist in AIMP
    db,        \* what the manager keeps of each playlist
    told,      \* the listeners know of everything in db
    fresh,     \* a check has ended since the user last did something
    running,   \* the tick runs and the io_service is not stopped
    user       \* one of Users, the same in the whole execution

pvars == << lists, db, told, fresh, running, user >>

(* row, crc: columns of Playlists; entries: rows of PlaylistsEntries; the
   parts of the object in playlist_crc32_list_. *)
Absent == [ row |-> None, entries |-> << >>, crc |-> None,
            ofProperties |-> None, ofEntries |-> None ]

PeriodicInit ==
    /\ lists = [p \in PlaylistIds |-> None]
    /\ db = [p \in PlaylistIds |-> Absent]
    /\ told = TRUE
    /\ fresh = FALSE
    /\ running = TRUE
    /\ user \in Users

Open == { p \in PlaylistIds : lists[p] # None }
Loaded == { p \in PlaylistIds : db[p].row # None }
Ghosts == Loaded \ Open

-----------------------------------------------------------------------------
(* The user of AIMP.                                                       *)

Opens(p, c) ==
    /\ lists[p] = None
    /\ lists' = [lists EXCEPT ![p] = c]
    /\ fresh' = FALSE
    /\ UNCHANGED << db, told, running, user >>

Closes(p) ==
    /\ lists[p] # None
    /\ lists' = [lists EXCEPT ![p] = None]
    /\ fresh' = FALSE
    /\ UNCHANGED << db, told, running, user >>

Edits(p, c) ==
    /\ lists[p] \notin { None, c }
    /\ lists' = [lists EXCEPT ![p] = c]
    /\ fresh' = FALSE
    /\ UNCHANGED << db, told, running, user >>

UserActs ==
    \E p \in PlaylistIds :
       Closes(p) \/ \E c \in user.contents : Opens(p, c) \/ Edits(p, c)

-----------------------------------------------------------------------------
(* The check.                                                              *)

(* The row is missing or has another number of entries. *)
RowDiffers(p) == db[p].row = None \/ Len(db[p].row) # Len(lists[p])

(* isLoadedPlaylistEqualsAimpPlaylist walks over AIMP's entries and stops
   where the rows of the database end. *)
Agree(loaded_entries, aimp_entries) ==
    \A i \in DOMAIN loaded_entries \intersect DOMAIN aimp_entries :
       loaded_entries[i] = aimp_entries[i]

(* Mutant: only the number of entries is compared. *)
Outdated26_CountsOnly == { p \in Open : RowDiffers(p) }

Outdated26 == { p \in Open : RowDiffers(p) \/ ~Agree(db[p].entries, lists[p]) }

(* loadPlaylist: a new row, whose checksum is 0. *)
LoadRow(m, content) == [m EXCEPT !.row = content, !.crc = None, !.ofProperties = None]

(* Mutant: the checksum object keeps the part of the entries. *)
LoadRows_KeepsPart(m, content) == [m EXCEPT !.entries = content]

(* loadEntries inserts row after row; before, it has deleted the old ones. *)
LoadRows(m, content) == [m EXCEPT !.entries = content, !.ofEntries = None]

(* Mutant: the checksum is taken of parts that have not been computed. *)
StoreCrc_Unset(m) == [m EXCEPT !.crc = << m.ofProperties, m.ofEntries >>]

(* PlaylistCRC32::crc32() computes the parts that are not set. *)
StoreCrc(m) ==
    LET q == IF m.ofProperties = None THEN m.row ELSE m.ofProperties
        e == IF m.ofEntries = None THEN m.entries ELSE m.ofEntries
    IN [m EXCEPT !.ofProperties = q, !.ofEntries = e, !.crc = << q, e >>]

(* What may become of a playlist whose entries are reloaded; an exception
   is caught for each playlist. *)
Reloads(m, content) ==
    { StoreCrc(LoadRows(m, content)) }
    \union (IF ~user.fails THEN {}
            ELSE { LoadRows(m, SubSeq(content, 1, n)) : n \in 0..Len(content) }
                 \union { [StoreCrc(LoadRows(m, content)) EXCEPT !.crc = m.crc] })

RowLoaded(p) == IF RowDiffers(p) THEN LoadRow(db[p], lists[p]) ELSE db[p]

(* Mutant: closed playlists are looked for when AIMP has fewer than half. *)
LooksForClosed_Late == 2 * Cardinality(Open) < Cardinality(Loaded)

(* The rows were counted before new ones were loaded. *)
LooksForClosed == Cardinality(Open) < Cardinality(Loaded)

(* Mutant: listeners hear of loaded playlists only. *)
Notifies_Loaded(reloaded) == reloaded # {}

Notifies(reloaded) == reloaded # {} \/ LooksForClosed

(* The playlists whose entries are reloaded.  AIMP_PLS_Entry_InfoGet that
   fails makes a playlist count as outdated. *)
ToReload ==
    { S \in SUBSET Open : Outdated26 \subseteq S /\ (~user.fails => S = Outdated26) }

(* What may become of all of them. *)
Results(reloaded) ==
    { result \in [ reloaded -> UNION { Reloads(RowLoaded(p), lists[p]) : p \in reloaded } ] :
         \A p \in reloaded : result[p] \in Reloads(RowLoaded(p), lists[p]) }

(* The check ends.  What a listener throws stops the service. *)
CheckEnds ==
    \E reloaded \in ToReload :
       /\ \E result \in Results(reloaded) :
             db' = [p \in PlaylistIds |->
                       IF p \in reloaded THEN result[p]
                       ELSE IF p \notin Open /\ LooksForClosed THEN Absent
                       ELSE db[p]]
       /\ \/ /\ told' = (Notifies(reloaded) \/ (told /\ db' = db))
             /\ UNCHANGED running
          \/ /\ user.fails /\ Notifies(reloaded)
             /\ told' = (told /\ db' = db)
             /\ running' = FALSE

(* Reading AIMP fails after some playlists, or loading the row of one more
   does, whose part of the checksum is reset by then. *)
LoadingRowsThrows ==
    \E done \in SUBSET Open :
       LET rows == [p \in PlaylistIds |-> IF p \in done THEN RowLoaded(p) ELSE db[p]] IN
       \/ db' = rows
       \/ \E p \in { q \in Open \ done : RowDiffers(q) } :
             db' = [rows EXCEPT ![p] = [@ EXCEPT !.ofProperties = None]]

(* Reading the rows for the closed playlists fails; entries are reloaded by
   then. *)
LookingForClosedThrows ==
    /\ LooksForClosed
    /\ \E reloaded \in ToReload : \E result \in Results(reloaded) :
          db' = [p \in PlaylistIds |-> IF p \in reloaded THEN result[p] ELSE db[p]]

(* Nobody catches it before the tick does. *)
CheckThrows ==
    /\ user.fails
    /\ LoadingRowsThrows \/ LookingForClosedThrows
    /\ told' = (told /\ db' = db)
    /\ running' = FALSE

Check ==
    /\ running
    /\ CheckEnds \/ CheckThrows
    /\ fresh' = running'
    /\ UNCHANGED << lists, user >>

PeriodicNext == UserActs \/ Check

PeriodicSpec == PeriodicInit /\ [][PeriodicNext]_pvars

-----------------------------------------------------------------------------
(* Properties                                                              *)

Kept == [ row : {None} \union Contents,
          entries : Seq(Tracks),
          crc : {None} \union (Contents \X Seq(Tracks)),
          ofProperties : {None} \union Contents,
          ofEntries : {None} \union Seq(Tracks) ]

PeriodicTypeOK ==
    /\ lists \in [PlaylistIds -> {None} \union Contents]
    /\ db \in [PlaylistIds -> Kept]
    /\ told \in BOOLEAN
    /\ fresh \in BOOLEAN
    /\ running \in BOOLEAN
    /\ user \in Users

(* A checksum other than 0 in a row is that of the row and its entries. *)
ChecksumOfRows ==
    ~user.fails =>
       \A p \in PlaylistIds : db[p].crc \in { None, << db[p].row, db[p].entries >> }

(* Listeners have been told of everything a check has loaded or deleted. *)
ListenersToldByCheck == ~user.fails => told

(* A check that ends leaves every playlist of AIMP with a row of as many
   entries and, as the rows of its entries, a beginning of its content: the
   whole content when nothing fails. *)
CheckMirrorsAimp ==
    fresh =>
       \A p \in Open :
          /\ db[p].row # None /\ Len(db[p].row) = Len(lists[p])
          /\ Len(db[p].entries) <= Len(lists[p]) /\ Agree(db[p].entries, lists[p])
          /\ ~user.fails => db[p].entries = lists[p]

(* A closed playlist outlives a check only if at least as many playlists
   have been opened since the previous one. *)
GhostsNeedNewcomers ==
    [][fresh' => Cardinality(Ghosts') <= Cardinality(Open \ Loaded)]_pvars

Mirrored26 ==
    \A p \in PlaylistIds :
       IF lists[p] = None THEN db[p] = Absent
       ELSE db[p].row # None /\ db[p].entries = lists[p]

(* Once AIMP's playlists are left alone, the mirror shows them: ghosts go
   too, whatever was opened and closed between two checks. *)
MirrorSettles == ~user.fails /\ <>[][~UserActs]_pvars => <>[]Mirrored26

=============================================================================
