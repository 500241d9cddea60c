------------------------ MODULE PeriodicMirror_proofs ------------------------
(***************************************************************************)
(* Proofs about PeriodicMirror for any playlists, contents and users.      *)
(***************************************************************************)
EXTENDS PeriodicMirror, FiniteSetTheorems, TLAPS

(* While the service runs, no playlist has more entries than its row says. *)
Fits(m) == m.row # None => Len(m.entries) <= Len(m.row)

(* When nothing fails it has as many, and no checksum is out of date. *)
Exact(m) ==
    /\ m.row # None => Len(m.entries) = Len(m.row)
    /\ m.ofProperties \in { None, m.row }
    /\ m.ofEntries \in { None, m.entries }
    /\ m.crc \in { None, << m.row, m.entries >> }

Inv26 ==
    /\ PeriodicTypeOK
    /\ running => \A p \in PlaylistIds : Fits(db[p])
    /\ ~user.fails => running /\ told /\ \A p \in PlaylistIds : Exact(db[p])
    /\ fresh => running
    /\ CheckMirrorsAimp

(* What a check makes of a playlist of AIMP with this content. *)
Shows(m, content) ==
    /\ m.row \in Contents /\ Len(m.row) = Len(content)
    /\ Len(m.entries) <= Len(content) /\ Agree(m.entries, content)
    /\ ~user.fails => m.entries = content /\ Exact(m)

-----------------------------------------------------------------------------
LEMMA ContentsAreSequences == \A c \in Contents : c \in Seq(Tracks) /\ c # None
BY PeriodicAssumption

LEMMA RowLoadedFits ==
    ASSUME Inv26, running, NEW p \in Open
    PROVE  /\ RowLoaded(p) \in Kept
           /\ RowLoaded(p).row \in Contents
           /\ Len(RowLoaded(p).row) = Len(lists[p])
           /\ ~user.fails => RowLoaded(p).ofProperties \in { None, RowLoaded(p).row }
<1>1. p \in PlaylistIds /\ lists[p] \in Contents
  BY DEF Open, Inv26, PeriodicTypeOK
<1>2. db[p] \in Kept
  BY <1>1 DEF Inv26, PeriodicTypeOK
<1>3. CASE RowDiffers(p)
  <2>1. RowLoaded(p) = [db[p] EXCEPT !.row = lists[p], !.crc = None, !.ofProperties = None]
    BY <1>3 DEF RowLoaded, LoadRow
  <2> QED
    BY <1>1, <1>2, <2>1 DEF Kept
<1>4. CASE ~RowDiffers(p)
  <2>1. RowLoaded(p) = db[p]
    BY <1>4 DEF RowLoaded
  <2>2. db[p].row # None /\ Len(db[p].row) = Len(lists[p])
    BY <1>4 DEF RowDiffers
  <2>3. ~user.fails => db[p].ofProperties \in { None, db[p].row }
    BY <1>1 DEF Inv26, Exact
  <2> QED
    BY <1>2, <2>1, <2>2, <2>3 DEF Kept
<1> QED
  BY <1>3, <1>4

LEMMA LoadRowsTyped ==
    ASSUME NEW m \in Kept, NEW s \in Seq(Tracks)
    PROVE  /\ LoadRows(m, s) \in Kept
           /\ LoadRows(m, s).row = m.row
           /\ LoadRows(m, s).entries = s
           /\ LoadRows(m, s).ofEntries = None
           /\ LoadRows(m, s).ofProperties = m.ofProperties
BY DEF LoadRows, Kept

LEMMA StoreCrcTyped ==
    ASSUME NEW m \in Kept, m.row \in Contents
    PROVE  /\ StoreCrc(m) \in Kept
           /\ StoreCrc(m).row = m.row
           /\ StoreCrc(m).entries = m.entries
           /\ m.ofProperties \in { None, m.row } /\ m.ofEntries \in { None, m.entries }
                 => Exact(StoreCrc(m)) \/ Len(m.entries) # Len(m.row)
<1> DEFINE q == IF m.ofProperties = None THEN m.row ELSE m.ofProperties
           e == IF m.ofEntries = None THEN m.entries ELSE m.ofEntries
<1>1. q \in Contents /\ e \in Seq(Tracks)
  BY DEF Kept
<1>2. StoreCrc(m) = [m EXCEPT !.ofProperties = q, !.ofEntries = e, !.crc = << q, e >>]
  BY DEF StoreCrc
<1>3. m.ofProperties \in { None, m.row } /\ m.ofEntries \in { None, m.entries }
         => q = m.row /\ e = m.entries
  OBVIOUS
<1> HIDE DEF q, e
<1>4. StoreCrc(m) \in Kept
  <2> DEFINE crc == << q, e >>
  <2>1. crc \in {None} \union (Contents \X Seq(Tracks))
    BY <1>1
  <2>2. q \in {None} \union Contents /\ e \in {None} \union Seq(Tracks)
    BY <1>1
  <2>3. StoreCrc(m) = [m EXCEPT !.ofProperties = q, !.ofEntries = e, !.crc = crc]
    BY <1>2
  <2> HIDE DEF crc
  <2> QED
    BY <2>1, <2>2, <2>3 DEF Kept
<1>5. /\ StoreCrc(m).row = m.row /\ StoreCrc(m).entries = m.entries
      /\ StoreCrc(m).ofProperties = q /\ StoreCrc(m).ofEntries = e
      /\ StoreCrc(m).crc = << q, e >>
  BY <1>2 DEF Kept
<1> QED
  BY <1>3, <1>4, <1>5 DEF Exact

LEMMA ReloadsShow ==
    ASSUME NEW m \in Kept, NEW content \in Contents,
           m.row \in Contents, Len(m.row) = Len(content),
           ~user.fails => m.ofProperties \in { None, m.row },
           NEW r \in Reloads(m, content)
    PROVE  r \in Kept /\ Shows(r, content)
<1> DEFINE whole == LoadRows(m, content)
<1>1. content \in Seq(Tracks)
  BY ContentsAreSequences
<1>2. /\ whole \in Kept /\ whole.row = m.row /\ whole.entries = content
      /\ whole.ofEntries = None /\ whole.ofProperties = m.ofProperties
  BY <1>1, LoadRowsTyped
<1> HIDE DEF whole
<1>3. /\ StoreCrc(whole) \in Kept /\ StoreCrc(whole).row = m.row
      /\ StoreCrc(whole).entries = content
      /\ ~user.fails => Exact(StoreCrc(whole))
  BY <1>2, StoreCrcTyped
<1>4. Agree(content, content)
  BY DEF Agree
<1>5. CASE r = StoreCrc(whole)
  BY <1>1, <1>3, <1>4, <1>5 DEF Shows
<1>6. ASSUME user.fails, NEW n \in 0..Len(content), r = LoadRows(m, SubSeq(content, 1, n))
      PROVE  r \in Kept /\ Shows(r, content)
  <2> DEFINE begin == SubSeq(content, 1, n)
  <2>1. /\ begin \in Seq(Tracks) /\ Len(begin) = n
        /\ \A i \in 1..n : begin[i] = content[i]
    BY <1>1
  <2>2. r \in Kept /\ r.row = m.row /\ r.entries = begin
    BY <1>6, <2>1, LoadRowsTyped
  <2> HIDE DEF begin
  <2>3. Len(begin) <= Len(content)
    BY <1>1, <2>1
  <2>4. Agree(begin, content)
    BY <1>1, <2>1 DEF Agree
  <2> QED
    BY <1>6, <2>2, <2>3, <2>4 DEF Shows
<1>7. ASSUME user.fails, r = [StoreCrc(whole) EXCEPT !.crc = m.crc]
      PROVE  r \in Kept /\ Shows(r, content)
  <2>1. r \in Kept /\ r.row = m.row /\ r.entries = content
    BY <1>3, <1>7 DEF Kept
  <2> QED
    BY <1>1, <1>4, <1>7, <2>1 DEF Shows
<1> QED
  BY <1>5, <1>6, <1>7 DEF Reloads, whole

-----------------------------------------------------------------------------
(* A check, in the terms the invariant needs.                              *)

LEMMA RowResultShows ==
    ASSUME Inv26, running, NEW reloaded \in SUBSET Open,
           NEW result \in Results(reloaded), NEW p \in reloaded
    PROVE  result[p] \in Kept /\ Shows(result[p], lists[p])
<1>1. p \in Open /\ lists[p] \in Contents
  BY DEF Open, Inv26, PeriodicTypeOK
<1>2. result[p] \in Reloads(RowLoaded(p), lists[p])
  BY DEF Results
<1> QED
  BY <1>1, <1>2, RowLoadedFits, ReloadsShow

LEMMA CheckEndsShows ==
    ASSUME Inv26, Check, CheckEnds
    PROVE  /\ db' \in [PlaylistIds -> Kept]
           /\ \A p \in Open : Shows(db'[p], lists[p])
           /\ \A p \in PlaylistIds \ Open :
                 db'[p] = IF LooksForClosed THEN Absent ELSE db[p]
           /\ told' \in BOOLEAN /\ running' \in BOOLEAN
           /\ ~user.fails => told' /\ running'
<1> USE DEF Check
<1>1. PICK reloaded \in ToReload :
         /\ \E result \in Results(reloaded) :
               db' = [p \in PlaylistIds |->
                         IF p \in reloaded THEN result[p]
                         ELSE IF p \notin Open /\ LooksForClosed THEN Absent
                         ELSE db[p]]
         /\ \/ /\ told' = (Notifies(reloaded) \/ (told /\ db' = db))
               /\ UNCHANGED running
            \/ /\ user.fails /\ Notifies(reloaded)
               /\ told' = (told /\ db' = db)
               /\ running' = FALSE
  BY DEF CheckEnds
<1>14. reloaded \in SUBSET Open /\ Outdated26 \subseteq reloaded
  BY DEF ToReload
<1>2. PICK result \in Results(reloaded) :
         db' = [p \in PlaylistIds |->
                   IF p \in reloaded THEN result[p]
                   ELSE IF p \notin Open /\ LooksForClosed THEN Absent
                   ELSE db[p]]
  BY <1>1
<1>3. Open \subseteq PlaylistIds /\ \A p \in Open : lists[p] \in Contents
  BY DEF Open, Inv26, PeriodicTypeOK
<1>4. \A p \in PlaylistIds : db[p] \in Kept
  BY DEF Inv26, PeriodicTypeOK
<1>5. Absent \in Kept
  BY DEF Absent, Kept
<1>6. ASSUME NEW p \in reloaded
      PROVE  result[p] \in Kept /\ Shows(result[p], lists[p])
  BY <1>14, <1>3, RowResultShows
<1>7. ASSUME NEW p \in Open \ reloaded
      PROVE  Shows(db[p], lists[p])
  <2>1. ~RowDiffers(p) /\ Agree(db[p].entries, lists[p])
    BY <1>14 DEF Outdated26
  <2>2. db[p].row # None /\ Len(db[p].row) = Len(lists[p])
    BY <2>1 DEF RowDiffers
  <2>3. db[p].row \in Contents /\ db[p].entries \in Seq(Tracks) /\ Fits(db[p])
    BY <1>3, <1>4, <2>2 DEF Kept, Inv26
  <2>4. CASE ~user.fails
    <3>1. Exact(db[p])
      BY <1>3, <2>4 DEF Inv26
    <3>2. Len(db[p].entries) = Len(lists[p])
      BY <2>2, <3>1 DEF Exact
    <3>3. lists[p] \in Seq(Tracks)
      BY <1>3, ContentsAreSequences
    <3>4. db[p].entries = lists[p]
      BY <2>1, <2>3, <3>2, <3>3 DEF Agree
    <3> QED
      BY <2>1, <2>2, <2>3, <3>1, <3>4 DEF Shows, Fits
  <2> QED
    BY <2>1, <2>2, <2>3, <2>4 DEF Shows, Fits
<1>8. db' \in [PlaylistIds -> Kept]
  BY <1>2, <1>4, <1>5, <1>6
<1>9. \A p \in Open : Shows(db'[p], lists[p])
  BY <1>2, <1>3, <1>6, <1>7
<1>10. \A p \in PlaylistIds \ Open :
          db'[p] = IF LooksForClosed THEN Absent ELSE db[p]
  BY <1>14, <1>2
<1>11. told \in BOOLEAN /\ running \in BOOLEAN /\ (~user.fails => told /\ running)
  BY DEF Inv26, PeriodicTypeOK
<1>12. told' \in BOOLEAN /\ running' \in BOOLEAN
  BY <1>1, <1>11
<1>13. ASSUME ~user.fails PROVE told' /\ running'
  <2>1. CASE Notifies(reloaded)
    BY <1>1, <1>11, <1>13, <2>1
  <2>2. CASE ~Notifies(reloaded)
    <3>1. reloaded = {} /\ ~LooksForClosed
      BY <2>2 DEF Notifies
    <3>2. db' = db
      BY <1>2, <3>1 DEF Inv26, PeriodicTypeOK
    <3> QED
      BY <1>1, <1>11, <1>13, <3>2
  <2> QED
    BY <2>1, <2>2
<1> QED
  BY <1>8, <1>9, <1>10, <1>12, <1>13

LEMMA CheckThrowsTyped ==
    ASSUME Inv26, running, LoadingRowsThrows \/ LookingForClosedThrows
    PROVE  db' \in [PlaylistIds -> Kept]
<1>1. Open \subseteq PlaylistIds /\ \A p \in PlaylistIds : db[p] \in Kept
  BY DEF Open, Inv26, PeriodicTypeOK
<1>2. CASE LoadingRowsThrows
  <2> DEFINE Rows(S) == [p \in PlaylistIds |-> IF p \in S THEN RowLoaded(p) ELSE db[p]]
  <2>1. PICK done \in SUBSET Open :
           \/ db' = Rows(done)
           \/ \E p \in Open :
                 db' = [Rows(done) EXCEPT ![p] = [@ EXCEPT !.ofProperties = None]]
    BY <1>2 DEF LoadingRowsThrows
  <2> DEFINE rows == Rows(done)
  <2>2. rows \in [PlaylistIds -> Kept]
    BY <1>1, RowLoadedFits
  <2> HIDE DEF rows
  <2>3. \A m \in Kept : [m EXCEPT !.ofProperties = None] \in Kept
    BY DEF Kept
  <2>4. db' = rows \/ \E p \in Open : db' = [rows EXCEPT ![p] = [@ EXCEPT !.ofProperties = None]]
    BY <2>1 DEF rows
  <2>5. ASSUME NEW p \in Open, db' = [rows EXCEPT ![p] = [@ EXCEPT !.ofProperties = None]]
        PROVE  db' \in [PlaylistIds -> Kept]
    <3>1. rows[p] \in Kept /\ [rows[p] EXCEPT !.ofProperties = None] \in Kept
      BY <1>1, <2>2, <2>3
    <3> QED
      BY <2>2, <2>5, <3>1
  <2> QED
    BY <2>2, <2>4, <2>5
<1>3. CASE LookingForClosedThrows
  <2>1. PICK reloaded \in ToReload : \E result \in Results(reloaded) :
           db' = [p \in PlaylistIds |-> IF p \in reloaded THEN result[p] ELSE db[p]]
    BY <1>3 DEF LookingForClosedThrows
  <2>2. PICK result \in Results(reloaded) :
           db' = [p \in PlaylistIds |-> IF p \in reloaded THEN result[p] ELSE db[p]]
    BY <2>1
  <2>3. reloaded \in SUBSET Open
    BY DEF ToReload
  <2> QED
    BY <1>1, <2>2, <2>3, RowResultShows
<1> QED
  BY <1>2, <1>3

LEMMA AbsentFits == Fits(Absent) /\ Exact(Absent)
BY DEF Absent, Fits, Exact

LEMMA CheckKeepsInv == ASSUME Inv26, Check PROVE Inv26'
<1>1. UNCHANGED << lists, user >> /\ running /\ fresh' = running'
  BY DEF Check
<1>2. Open' = Open
  BY <1>1 DEF Open
<1>3. CASE CheckEnds
  <2>1. /\ db' \in [PlaylistIds -> Kept]
        /\ \A p \in Open : Shows(db'[p], lists[p])
        /\ \A p \in PlaylistIds \ Open :
              db'[p] = IF LooksForClosed THEN Absent ELSE db[p]
        /\ told' \in BOOLEAN /\ running' \in BOOLEAN
        /\ ~user.fails => told' /\ running'
    BY <1>3, CheckEndsShows
  <2>2. PeriodicTypeOK'
    BY <1>1, <2>1 DEF Inv26, PeriodicTypeOK
  <2>3. \A p \in PlaylistIds : Fits(db'[p])
    BY <1>1, <2>1, AbsentFits DEF Shows, Fits, Inv26
  <2>4. ~user.fails => \A p \in PlaylistIds : Exact(db'[p])
    BY <1>1, <2>1, AbsentFits DEF Shows, Inv26
  <2>5. CheckMirrorsAimp'
    BY <1>1, <1>2, <2>1, ContentsAreSequences DEF CheckMirrorsAimp, Shows
  <2> QED
    BY <1>1, <2>1, <2>2, <2>3, <2>4, <2>5 DEF Inv26
<1>4. CASE CheckThrows
  <2>1. user.fails /\ running' = FALSE /\ told' \in BOOLEAN
    BY <1>4 DEF CheckThrows, Inv26, PeriodicTypeOK
  <2>2. db' \in [PlaylistIds -> Kept]
    BY <1>1, <1>4, CheckThrowsTyped DEF CheckThrows
  <2> QED
    BY <1>1, <2>1, <2>2 DEF Inv26, PeriodicTypeOK, CheckMirrorsAimp
<1> QED
  BY <1>3, <1>4 DEF Check

LEMMA UserKeepsInv == ASSUME Inv26, UserActs PROVE Inv26'
<1>1. fresh' = FALSE /\ UNCHANGED << db, told, running, user >>
  BY DEF UserActs, Opens, Closes, Edits
<1>2. user.contents \subseteq Contents
  BY PeriodicAssumption DEF Inv26, PeriodicTypeOK
<1>3. lists' \in [PlaylistIds -> {None} \union Contents]
  BY <1>2 DEF UserActs, Opens, Closes, Edits, Inv26, PeriodicTypeOK
<1> QED
  BY <1>1, <1>3 DEF Inv26, PeriodicTypeOK, CheckMirrorsAimp

LEMMA NextKeepsInv == ASSUME Inv26, [PeriodicNext]_pvars PROVE Inv26'
<1>1. CASE UNCHANGED pvars
  BY <1>1 DEF pvars, Inv26, PeriodicTypeOK, CheckMirrorsAimp, Open
<1> QED
  BY <1>1, CheckKeepsInv, UserKeepsInv DEF PeriodicNext

LEMMA InitInv26 == ASSUME PeriodicInit PROVE Inv26
<1>1. Absent \in Kept
  BY DEF Absent, Kept
<1> QED
  BY <1>1, AbsentFits DEF PeriodicInit, Inv26, PeriodicTypeOK, CheckMirrorsAimp

LEMMA Always26 == PeriodicSpec => []Inv26
<1>1. PeriodicInit => Inv26
  BY InitInv26
<1>2. Inv26 /\ [PeriodicNext]_pvars => Inv26'
  BY NextKeepsInv
<1> QED
  BY <1>1, <1>2, PTL DEF PeriodicSpec

-----------------------------------------------------------------------------
(* The variables keep their types, whatever fails. *)
THEOREM PeriodicTypeCorrect == PeriodicSpec => []PeriodicTypeOK
<1>1. Inv26 => PeriodicTypeOK
  BY DEF Inv26
<1> QED
  BY <1>1, Always26, PTL

(* While nothing fails, a checksum other than 0 is that of its row and of the
   entries, although a check may reload either without the other. *)
THEOREM ChecksumOfRowsHolds == PeriodicSpec => []ChecksumOfRows
<1>1. Inv26 => ChecksumOfRows
  BY DEF Inv26, Exact, ChecksumOfRows
<1> QED
  BY <1>1, Always26, PTL

(* While nothing fails, listeners are told of all that a check changes. *)
THEOREM ListenersToldByCheckHolds == PeriodicSpec => []ListenersToldByCheck
<1>1. Inv26 => ListenersToldByCheck
  BY DEF Inv26, ListenersToldByCheck
<1> QED
  BY <1>1, Always26, PTL

(* A check that ends leaves a row of the right length and a beginning of its
   content for every playlist of AIMP, whatever failed in it. *)
THEOREM CheckMirrorsAimpHolds == PeriodicSpec => []CheckMirrorsAimp
<1>1. Inv26 => CheckMirrorsAimp
  BY DEF Inv26
<1> QED
  BY <1>1, Always26, PTL

(* As many closed playlists as newly opened ones, at most, outlive a check. *)
THEOREM GhostsNeedNewcomersHolds == PeriodicSpec => GhostsNeedNewcomers
<1> DEFINE Few == Cardinality(Ghosts') <= Cardinality(Open \ Loaded)
<1>1. ASSUME Inv26, Check, fresh'
      PROVE  Few
  <2>1. /\ IsFiniteSet(Open) /\ IsFiniteSet(Loaded)
        /\ IsFiniteSet(Open \ Loaded) /\ IsFiniteSet(Loaded \ Open)
    BY PeriodicAssumption, FS_Subset DEF Open, Loaded
  <2>2. CheckEnds
    BY <1>1 DEF Check, CheckThrows
  <2>3. \A p \in PlaylistIds \ Open : db'[p] = IF LooksForClosed THEN Absent ELSE db[p]
    BY <1>1, <2>2, CheckEndsShows
  <2>4. lists' = lists
    BY <1>1 DEF Check
  <2>5. CASE LooksForClosed
    <3>1. Ghosts' = {}
      BY <2>3, <2>4, <2>5 DEF Ghosts, Loaded, Open, Absent
    <3> QED
      BY <2>1, <3>1, FS_EmptySet, FS_CardinalityType
  <2>6. CASE ~LooksForClosed
    <3>1. Ghosts' = Loaded \ Open
      BY <2>3, <2>4, <2>6 DEF Ghosts, Loaded, Open
    <3>2. Cardinality(Loaded \ Open) = Cardinality(Loaded) - Cardinality(Loaded \intersect Open)
      BY <2>1, FS_Difference
    <3>3. Cardinality(Open \ Loaded) = Cardinality(Open) - Cardinality(Open \intersect Loaded)
      BY <2>1, FS_Difference
    <3>4. Cardinality(Loaded \intersect Open) = Cardinality(Open \intersect Loaded)
      <4>1. Loaded \intersect Open = Open \intersect Loaded
        OBVIOUS
      <4> QED
        BY <4>1, Zenon
    <3>5. IsFiniteSet(Open \intersect Loaded)
      BY <2>1, FS_Subset
    <3>6. /\ Cardinality(Open) \in Nat /\ Cardinality(Loaded) \in Nat
          /\ Cardinality(Open \intersect Loaded) \in Nat
      BY <2>1, <3>5, FS_CardinalityType
    <3>7. Cardinality(Loaded) <= Cardinality(Open)
      BY <2>6, <3>6 DEF LooksForClosed
    <3>8. Cardinality(Loaded \ Open) <= Cardinality(Open \ Loaded)
      BY <3>2, <3>3, <3>4, <3>6, <3>7
    <3> QED
      BY <3>1, <3>8
  <2> QED
    BY <2>5, <2>6
<1>2. ASSUME UserActs PROVE ~fresh'
  BY <1>2 DEF UserActs, Opens, Closes, Edits
<1>3. Inv26 /\ [PeriodicNext]_pvars => [fresh' => Few]_pvars
  BY <1>1, <1>2 DEF PeriodicNext
<1> QED
  BY <1>3, Always26, PTL DEF PeriodicSpec, GhostsNeedNewcomers

=============================================================================
