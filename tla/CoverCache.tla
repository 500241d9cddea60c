----------------------------- MODULE CoverCache -----------------------------
(***************************************************************************)
(* The RPC method GetCover and its cache.  A cover is written to a file of *)
(* the document root once per size; the client gets the file's name.  The  *)
(* cache knows the files of a track by the track, and those of other       *)
(* tracks with the same cover by what identifies the cover: the hash that  *)
(* AIMP 3.6 gives with a picture, or the path of a cover's own file in     *)
(* earlier versions.  Tracks with the same cover share one list of files.  *)
(*                                                                         *)
(* The size a file was made for is not stored: it is looked for in the     *)
(* file's name.  Nothing ever leaves the cache.                            *)
(***************************************************************************)
EXTENDS Naturals, Sequences

CONSTANTS
    Tracks,   \* (playlist id, entry id) of tracks
    Covers,   \* pictures
    Keyed,    \* those that come with a hash, or in a file of their own
    Sizes     \* requested sizes << width, height >>

(* Larger sizes, and negative ones, are taken for << 0, 0 >>. *)
MaxAlbumCoverSize == 2000

ASSUME CoverAssumption ==
    /\ Keyed \subseteq Covers
    /\ Sizes \subseteq (0..MaxAlbumCoverSize) \X (0..MaxAlbumCoverSize)

None == "none"
ASSUME NoneAssumption == None \notin Tracks

(* A list of files is named by the track it was made for. *)
Files == [ size : Sizes, cover : Covers ]

VARIABLES
    byHash,     \* the AIMP manager is the one for AIMP 3.6
    cover,      \* the cover AIMP has for each track
    filenames,  \* the lists of files
    entryOf,    \* track_desc_entry_map_: the list of a track
    entryByHash,  \* cover_hash_entry_map_: the list of a hash
    trackByPath,  \* path_track_map_: the first track of a path
    edited      \* the cover of some track has changed

vars == << byHash, cover, filenames, entryOf, entryByHash, trackByPath, edited >>

Init ==
    /\ byHash \in BOOLEAN
    /\ cover \in [Tracks -> Covers]
    /\ filenames = [t \in Tracks |-> << >>]
    /\ entryOf = [t \in Tracks |-> None]
    /\ entryByHash = [k \in Keyed |-> None]
    /\ trackByPath = [k \in Keyed |-> None]
    /\ edited = FALSE

-----------------------------------------------------------------------------
(* Decimal digits of sizes.  The text of the width ends at the x, that of
   the height starts there, and the name goes on with _. *)
PowersOf10 == { 1, 10, 100, 1000, 10000 }

Above(n) == CHOOSE p \in PowersOf10 : p > n /\ \A q \in PowersOf10 : q > n => p <= q

EndsWith(n, end) == n % (IF end = 0 THEN 10 ELSE Above(end)) = end

StartsWith(n, start) ==
    \/ n = start
    \/ start > 0 /\ \E p \in PowersOf10 : n \div p = start

(* MatchSize: the text of the size occurs in the name of the file. *)
MatchSize(size, file) ==
    /\ EndsWith(file.size[1], size[1])
    /\ StartsWith(file.size[2], size[2])

Matching(list, size) == { i \in DOMAIN list : MatchSize(size, list[i]) }

(* findInEntryBySize in the list that has the name n, if there is one. *)
Found(n, size) == n # None /\ Matching(filenames[n], size) # {}

(* The first file that matches. *)
Served(n, size) ==
    LET hits == Matching(filenames[n], size)
    IN filenames[n][CHOOSE i \in hits : \A j \in hits : i <= j]

(* Mutant: the next hash or path will do. *)
ListOfAnother_Next(t) ==
    IF cover[t] \notin Keyed THEN None
    ELSE IF byHash
    THEN IF \E k \in Keyed : entryByHash[k] # None
         THEN entryByHash[CHOOSE k \in Keyed : entryByHash[k] # None] ELSE None
    ELSE IF trackByPath[cover[t]] = None THEN None
    ELSE entryOf[trackByPath[cover[t]]]

(* isCoverCachedForAnotherTrack: the list to look in. *)
ListOfAnother(t) ==
    IF cover[t] \notin Keyed THEN None
    ELSE IF byHash THEN entryByHash[cover[t]]
    ELSE IF trackByPath[cover[t]] = None THEN None
    ELSE entryOf[trackByPath[cover[t]]]

-----------------------------------------------------------------------------
(* GetCover finds a file of the track: nothing changes.  It finds one of
   another track: cacheBasedOnPreviousResult. *)
GetCoverOfAnother(t, size) ==
    LET n == ListOfAnother(t) IN
    /\ ~Found(entryOf[t], size)
    /\ Found(n, size)
    /\ entryOf' = [entryOf EXCEPT ![t] = n]
    /\ entryByHash' = IF byHash THEN [entryByHash EXCEPT ![cover[t]] = n]
                                ELSE entryByHash
    /\ UNCHANGED << byHash, cover, filenames, trackByPath, edited >>

(* Mutants: what has no hash is entered under 0; the file is made without
   a look at what is there. *)
MakeCover_HashZero(t, size) ==
    LET n == IF entryOf[t] = None THEN t ELSE entryOf[t] IN
    /\ ~Found(entryOf[t], size)
    /\ ~Found(ListOfAnother(t), size)
    /\ filenames' = [filenames EXCEPT ![n] = Append(@, [size |-> size, cover |-> cover[t]])]
    /\ entryOf' = [entryOf EXCEPT ![t] = n]
    /\ entryByHash' = [k \in Keyed \union {cover[t]} |->
                          IF k = cover[t] THEN n ELSE entryByHash[k]]
    /\ UNCHANGED << byHash, cover, trackByPath, edited >>

MakeCover_Again(t, size) ==
    LET n == IF entryOf[t] = None THEN t ELSE entryOf[t] IN
    /\ Len(filenames[n]) < 2
    /\ filenames' = [filenames EXCEPT ![n] = Append(@, [size |-> size, cover |-> cover[t]])]
    /\ entryOf' = [entryOf EXCEPT ![t] = n]
    /\ UNCHANGED << byHash, cover, entryByHash, trackByPath, edited >>

(* GetCover finds nothing: the file is made, and cacheNew enters it.  When
   it cannot be made, or AIMP has no cover, the call fails before that. *)
MakeCover(t, size) ==
    LET n == IF entryOf[t] = None THEN t ELSE entryOf[t] IN
    /\ ~Found(entryOf[t], size)
    /\ ~Found(ListOfAnother(t), size)
    /\ filenames' = [filenames EXCEPT ![n] = Append(@, [size |-> size, cover |-> cover[t]])]
    /\ entryOf' = [entryOf EXCEPT ![t] = n]
    /\ entryByHash' = IF byHash /\ cover[t] \in Keyed
                      THEN [entryByHash EXCEPT ![cover[t]] = n] ELSE entryByHash
    /\ trackByPath' = IF ~byHash /\ cover[t] \in Keyed /\ trackByPath[cover[t]] = None
                      THEN [trackByPath EXCEPT ![cover[t]] = t] ELSE trackByPath
    /\ UNCHANGED << byHash, cover, edited >>

(* The user gives a track another cover, or its id comes to stand for
   another track.  The cache is not told. *)
CoverChanges(t) ==
    /\ cover' \in [Tracks -> Covers]
    /\ cover' # cover
    /\ \A u \in Tracks \ {t} : cover'[u] = cover[u]
    /\ edited' = TRUE
    /\ UNCHANGED << byHash, filenames, entryOf, entryByHash, trackByPath >>

-----------------------------------------------------------------------------
Next ==
    \E t \in Tracks :
       \/ CoverChanges(t)
       \/ \E size \in Sizes : GetCoverOfAnother(t, size) \/ MakeCover(t, size)

Spec == Init /\ [][Next]_vars

-----------------------------------------------------------------------------
(* Properties                                                              *)

TypeOK ==
    /\ byHash \in BOOLEAN
    /\ cover \in [Tracks -> Covers]
    /\ filenames \in [Tracks -> Seq(Files)]
    /\ entryOf \in [Tracks -> Tracks \union {None}]
    /\ entryByHash \in [Keyed -> Tracks \union {None}]
    /\ trackByPath \in [Keyed -> Tracks \union {None}]
    /\ edited \in BOOLEAN

(* The file a request would be answered with, from the track's own list or
   from that of another track. *)
Answers(t, size) ==
    IF Found(entryOf[t], size) THEN { Served(entryOf[t], size) }
    ELSE IF Found(ListOfAnother(t), size) THEN { Served(ListOfAnother(t), size) }
    ELSE {}

(* Sharing lists between tracks, by whatever way and in whatever order, never
   gives a track the cover of another picture, as long as no cover changes. *)
RightCover ==
    ~edited => \A t \in Tracks, size \in Sizes :
                  \A file \in Answers(t, size) : file.cover = cover[t]

(* Each file of a list is what a request for its size is given: however lists
   come to be shared, joined and left, none is made while its list would
   answer with another, so a list has at most one file for each size. *)
EveryFileIsServed ==
    \A n \in Tracks : \A i \in DOMAIN filenames[n] :
       Served(n, filenames[n][i].size) = filenames[n][i]

(* "size is determined by width and height arguments, pass zeros to get full
   size cover": a request is not answered with a file of another size. *)
SizeAsAsked ==
    \A t \in Tracks, size \in Sizes :
       \A file \in Answers(t, size) : file.size = size

=============================================================================
