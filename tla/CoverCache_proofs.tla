-------------------------- MODULE CoverCache_proofs --------------------------
(* Theorems about CoverCache, for any tracks, covers and sizes. *)
EXTENDS CoverCache, SequenceTheorems, WellFoundedInduction, TLAPS

(* Every file is made for a size and a cover, every list is a sequence. *)
THEOREM TypeCorrect == Spec => []TypeOK
<1>1. Init => TypeOK
  <2>1. << >> \in Seq(Files)
    OBVIOUS
  <2>2. [t \in Tracks |-> << >>] \in [Tracks -> Seq(Files)]
    BY <2>1
  <2>3. QED
    BY <2>2 DEF Init, TypeOK
<1>2. TypeOK /\ [Next]_vars => TypeOK'
  <2> SUFFICES ASSUME TypeOK, [Next]_vars PROVE TypeOK'
    OBVIOUS
  <2> USE CoverAssumption DEF TypeOK
  <2>1. ASSUME NEW t \in Tracks, CoverChanges(t) PROVE TypeOK'
    BY <2>1 DEF CoverChanges
  <2>2. ASSUME NEW t \in Tracks, NEW size \in Sizes, GetCoverOfAnother(t, size)
        PROVE TypeOK'
    <3>1. ListOfAnother(t) \in Tracks \union {None}
      BY DEF ListOfAnother
    <3>2. QED
      BY <2>2, <3>1 DEF GetCoverOfAnother
  <2>3. ASSUME NEW t \in Tracks, NEW size \in Sizes, MakeCover(t, size)
        PROVE TypeOK'
    <3> DEFINE n == IF entryOf[t] = None THEN t ELSE entryOf[t]
               file == [size |-> size, cover |-> cover[t]]
    <3>1. n \in Tracks
      OBVIOUS
    <3>2. file \in Files
      BY DEF Files
    <3>3. filenames' = [filenames EXCEPT ![n] = Append(@, file)]
      BY <2>3 DEF MakeCover
    <3>4. Append(filenames[n], file) \in Seq(Files)
      BY <3>1, <3>2
    <3>5. filenames' \in [Tracks -> Seq(Files)]
      BY <3>3, <3>4
    <3>6. QED
      BY <2>3, <3>1, <3>5 DEF MakeCover
  <2>4. CASE UNCHANGED vars
    BY <2>4 DEF vars
  <2>5. QED
    BY <2>1, <2>2, <2>3, <2>4 DEF Next
<1>3. QED
  BY <1>1, <1>2, PTL DEF Spec

-----------------------------------------------------------------------------
(* As long as no cover has changed: lists, hashes and paths stand for one
   cover each. *)
OneCoverEach ==
    /\ \A n \in Tracks : \A i \in DOMAIN filenames[n] : filenames[n][i].cover = cover[n]
    /\ \A t \in Tracks : entryOf[t] # None => cover[entryOf[t]] = cover[t]
    /\ \A k \in Keyed : entryByHash[k] # None => cover[entryByHash[k]] = k
    /\ \A k \in Keyed : trackByPath[k] # None => cover[trackByPath[k]] = k

(* What is looked through for a track is of its cover. *)
LEMMA AnotherHasTheCover ==
    ASSUME TypeOK, OneCoverEach, NEW t \in Tracks, ListOfAnother(t) # None
    PROVE  ListOfAnother(t) \in Tracks /\ cover[ListOfAnother(t)] = cover[t]
  BY DEF TypeOK, OneCoverEach, ListOfAnother

LEMMA OneCoverEachStep ==
    ASSUME TypeOK, ~edited => OneCoverEach, [Next]_vars, ~edited'
    PROVE  OneCoverEach'
<1>1. ASSUME NEW t \in Tracks, CoverChanges(t) PROVE FALSE
  BY <1>1 DEF CoverChanges
<1>2. ASSUME NEW t \in Tracks, NEW size \in Sizes, GetCoverOfAnother(t, size)
      PROVE OneCoverEach'
  <2>1. OneCoverEach
    BY <1>2 DEF GetCoverOfAnother
  <2>2. ListOfAnother(t) # None
    BY <1>2 DEF GetCoverOfAnother, Found
  <2>3. ListOfAnother(t) \in Tracks /\ cover[ListOfAnother(t)] = cover[t]
    BY <2>1, <2>2, AnotherHasTheCover
  <2>4. QED
    BY <1>2, <2>1, <2>3 DEF GetCoverOfAnother, OneCoverEach, TypeOK
<1>3. ASSUME NEW t \in Tracks, NEW size \in Sizes, MakeCover(t, size)
      PROVE OneCoverEach'
  <2> DEFINE n == IF entryOf[t] = None THEN t ELSE entryOf[t]
             file == [size |-> size, cover |-> cover[t]]
  <2>1. OneCoverEach
    BY <1>3 DEF MakeCover
  <2>2. n \in Tracks /\ cover[n] = cover[t]
    BY <2>1 DEF OneCoverEach, TypeOK
  <2>3. filenames' = [filenames EXCEPT ![n] = Append(@, file)] /\ cover' = cover
    BY <1>3 DEF MakeCover
  <2>4. ASSUME NEW m \in Tracks, NEW i \in DOMAIN filenames'[m]
        PROVE filenames'[m][i].cover = cover[m]
    <3>1. CASE m # n
      BY <3>1, <2>1, <2>3, <2>4 DEF OneCoverEach, TypeOK
    <3>2. CASE m = n
      <4>1. filenames'[n] = Append(filenames[n], file) /\ filenames[n] \in Seq(Files)
        BY <2>2, <2>3 DEF TypeOK
      <4>2. i \in 1..(Len(filenames[n]) + 1)
        BY <4>1, <3>2
      <4>3. CASE i = Len(filenames[n]) + 1
        BY <4>1, <4>3, <3>2, <2>2
      <4>4. CASE i \in 1..Len(filenames[n])
        BY <4>1, <4>4, <3>2, <2>1, <2>2 DEF OneCoverEach
      <4>5. QED
        BY <4>2, <4>3, <4>4, <4>1
    <3>3. QED
      BY <3>1, <3>2
  <2>5. QED
    BY <1>3, <2>1, <2>2, <2>3, <2>4 DEF MakeCover, OneCoverEach, TypeOK
<1>4. CASE UNCHANGED vars
  BY <1>4 DEF vars, OneCoverEach
<1>5. QED
  BY <1>1, <1>2, <1>3, <1>4 DEF Next

LEMMA ServedIsInList ==
    ASSUME TypeOK, NEW n \in Tracks, NEW size \in Sizes, Found(n, size)
    PROVE  \E i \in DOMAIN filenames[n] :
              /\ Served(n, size) = filenames[n][i]
              /\ MatchSize(size, filenames[n][i])
              /\ \A j \in DOMAIN filenames[n] :
                    MatchSize(size, filenames[n][j]) => i <= j
<1> DEFINE hits == Matching(filenames[n], size)
<1>1. filenames[n] \in Seq(Files)
  BY DEF TypeOK
<1>2. hits # {} /\ hits \subseteq Nat
  BY <1>1 DEF Found, Matching
<1>3. \E i \in hits : \A j \in hits : i <= j
  <2> DEFINE R == OpToRel(<, Nat)
  <2>1. IsWellFoundedOn(R, Nat)
    BY NatLessThanWellFounded
  <2> HIDE DEF R, hits
  <2>2. \E i \in hits : \A j \in hits : ~ (<< j, i >> \in R)
    BY <1>2, <2>1, WFMin
  <2>3. ASSUME NEW i \in Nat, NEW j \in Nat, ~ (<< j, i >> \in R) PROVE i <= j
    BY <2>3 DEF R, OpToRel
  <2>4. QED
    BY <1>2, <2>2, <2>3
<1> DEFINE first == CHOOSE i \in hits : \A j \in hits : i <= j
<1>4. first \in hits /\ \A j \in hits : first <= j
  BY <1>3
<1>5. Served(n, size) = filenames[n][first]
  BY DEF Served
<1>6. first \in DOMAIN filenames[n] /\ MatchSize(size, filenames[n][first])
  BY <1>4 DEF Matching
<1>7. \A j \in DOMAIN filenames[n] : MatchSize(size, filenames[n][j]) => first <= j
  BY <1>4 DEF Matching
<1>8. QED
  BY <1>5, <1>6, <1>7

(* The theorem for RightCover: whatever is shared with whomever, by hash or
   by path, nobody is given the cover of another picture. *)
THEOREM RightCoverHolds == Spec => []RightCover
<1>1. Init => (~edited => OneCoverEach)
  BY DEF Init, OneCoverEach
<1>2. TypeOK /\ (~edited => OneCoverEach) /\ [Next]_vars => (~edited => OneCoverEach)'
  BY OneCoverEachStep
<1>3. TypeOK /\ (~edited => OneCoverEach) => RightCover
  <2> SUFFICES ASSUME TypeOK, OneCoverEach, NEW t \in Tracks, NEW size \in Sizes,
                      NEW file \in Answers(t, size)
               PROVE  file.cover = cover[t]
    BY DEF RightCover
  <2>1. ASSUME NEW n \in Tracks, Found(n, size), cover[n] = cover[t]
        PROVE  Served(n, size).cover = cover[t]
    BY <2>1, ServedIsInList DEF OneCoverEach
  <2>2. CASE Found(entryOf[t], size)
    <3>1. entryOf[t] \in Tracks /\ cover[entryOf[t]] = cover[t]
      BY <2>2 DEF Found, OneCoverEach, TypeOK
    <3>2. file = Served(entryOf[t], size)
      BY <2>2 DEF Answers
    <3>3. QED
      BY <2>1, <2>2, <3>1, <3>2
  <2>3. CASE ~Found(entryOf[t], size) /\ Found(ListOfAnother(t), size)
    <3>1. ListOfAnother(t) \in Tracks /\ cover[ListOfAnother(t)] = cover[t]
      BY <2>3, AnotherHasTheCover DEF Found
    <3>2. file = Served(ListOfAnother(t), size)
      BY <2>3 DEF Answers
    <3>3. QED
      BY <2>1, <2>3, <3>1, <3>2
  <2>4. QED
    BY <2>2, <2>3 DEF Answers
<1>4. QED
  BY <1>1, <1>2, <1>3, TypeCorrect, PTL DEF Spec

-----------------------------------------------------------------------------
(* A number ends with its own digits. *)
LEMMA EndsWithItself ==
    ASSUME NEW n, n \in 0..2000
    PROVE  EndsWith(n, n)
<1>1. CASE n = 0
  BY <1>1 DEF EndsWith
<1>2. CASE n > 0
  <2>1. \E p \in PowersOf10 : p > n /\ \A q \in PowersOf10 : q > n => p <= q
    <3>1. CASE n < 10
      BY <1>2, <3>1 DEF PowersOf10
    <3>2. CASE n >= 10 /\ n < 100
      BY <1>2, <3>2 DEF PowersOf10
    <3>3. CASE n >= 100 /\ n < 1000
      BY <1>2, <3>3 DEF PowersOf10
    <3>4. CASE n >= 1000
      BY <1>2, <3>4 DEF PowersOf10
    <3>5. QED
      BY <3>1, <3>2, <3>3, <3>4
  <2>2. Above(n) \in PowersOf10 /\ Above(n) > n
    BY <2>1 DEF Above
  <2>3. \A p \in { 10, 100, 1000, 10000 } : p > n => n % p = n
    OBVIOUS
  <2>4. Above(n) \in { 10, 100, 1000, 10000 }
    BY <2>2, <1>2 DEF PowersOf10
  <2>5. QED
    BY <1>2, <2>2, <2>3, <2>4 DEF EndsWith
<1>3. QED
  BY <1>1, <1>2

(* The name of a file holds the text of the size it was made for: what the
   search for its own size rests on. *)
LEMMA MatchesItself ==
    ASSUME NEW size \in Sizes, NEW file, file.size = size
    PROVE  MatchSize(size, file)
<1> DEFINE w == size[1]
<1>1. w \in 0..2000
  BY CoverAssumption DEF MaxAlbumCoverSize
<1> HIDE DEF w
<1>2. EndsWith(w, w)
  BY <1>1, EndsWithItself
<1>3. StartsWith(size[2], size[2])
  BY DEF StartsWith
<1>4. QED
  BY <1>2, <1>3 DEF MatchSize, w

(* A list is made with the entry of the track it is named by, and entries
   stay: names in use are those of tracks that have an entry. *)
ListsAreMade ==
    /\ \A t \in Tracks : entryOf[t] = None => filenames[t] = << >>
    /\ \A t \in Tracks : entryOf[t] # None => entryOf[entryOf[t]] # None
    /\ \A k \in Keyed : entryByHash[k] # None => entryOf[entryByHash[k]] # None

LEMMA ListsAreMadeStep ==
    ASSUME TypeOK, ListsAreMade, [Next]_vars PROVE ListsAreMade'
<1>1. ASSUME NEW t \in Tracks, NEW size \in Sizes, GetCoverOfAnother(t, size)
      PROVE ListsAreMade'
  <2>1. ListOfAnother(t) \in Tracks /\ entryOf[ListOfAnother(t)] # None
    BY <1>1 DEF GetCoverOfAnother, Found, ListOfAnother, ListsAreMade, TypeOK
  <2>2. QED
    BY <1>1, <2>1, NoneAssumption DEF GetCoverOfAnother, ListsAreMade, TypeOK
<1>2. ASSUME NEW t \in Tracks, NEW size \in Sizes, MakeCover(t, size)
      PROVE ListsAreMade'
  <2> DEFINE n == IF entryOf[t] = None THEN t ELSE entryOf[t]
  <2>1. n \in Tracks /\ n # None /\ entryOf' = [entryOf EXCEPT ![t] = n]
    BY <1>2, NoneAssumption DEF MakeCover, TypeOK
  <2>2. \A u \in Tracks : u # n => filenames'[u] = filenames[u]
    BY <1>2, <2>1 DEF MakeCover, TypeOK
  <2>3. entryOf'[n] # None
    BY <2>1 DEF ListsAreMade, TypeOK
  <2>4. \A k \in Keyed : entryByHash'[k] \in { entryByHash[k], n }
    BY <1>2 DEF MakeCover, TypeOK
  <2> HIDE DEF n
  <2>5. QED
    BY <2>1, <2>2, <2>3, <2>4 DEF ListsAreMade, TypeOK
<1>3. CASE UNCHANGED << filenames, entryOf, entryByHash >>
  BY <1>3 DEF ListsAreMade
<1>4. QED
  BY <1>1, <1>2, <1>3 DEF Next, vars, CoverChanges

(* No request for a file's size is answered by an earlier file of its list:
   the list had nothing for that size when the file was made. *)
NothingHidden ==
    \A n \in Tracks : \A i, j \in DOMAIN filenames[n] :
       j < i => ~MatchSize(filenames[n][i].size, filenames[n][j])

LEMMA NothingHiddenStep ==
    ASSUME TypeOK, ListsAreMade, NothingHidden, [Next]_vars
    PROVE  NothingHidden'
<1>1. ASSUME NEW t \in Tracks, NEW size \in Sizes, MakeCover(t, size)
      PROVE NothingHidden'
  <2> DEFINE n == IF entryOf[t] = None THEN t ELSE entryOf[t]
             file == [size |-> size, cover |-> cover[t]]
  <2>1. n \in Tracks /\ filenames[n] \in Seq(Files)
    BY DEF TypeOK
  <2>2. filenames' = [filenames EXCEPT ![n] = Append(@, file)]
    BY <1>1 DEF MakeCover
  <2>3. filenames'[n] = Append(filenames[n], file)
    BY <2>1, <2>2 DEF TypeOK
  <2> SUFFICES ASSUME NEW m \in Tracks, NEW i \in DOMAIN filenames'[m],
                      NEW j \in DOMAIN filenames'[m], j < i
               PROVE  ~MatchSize(filenames'[m][i].size, filenames'[m][j])
    BY DEF NothingHidden, MatchSize
  <2>4. CASE m # n
    BY <2>1, <2>2, <2>4 DEF NothingHidden, TypeOK
  <2>5. CASE m = n
    <3>1. i \in 1..(Len(filenames[n]) + 1) /\ j \in 1..(Len(filenames[n]) + 1)
      BY <2>1, <2>3, <2>5
    <3>2. CASE i \in 1..Len(filenames[n])
      BY <2>1, <2>3, <2>5, <3>1, <3>2 DEF NothingHidden
    <3>3. CASE i = Len(filenames[n]) + 1
      <4>1. j \in DOMAIN filenames[n] /\ filenames'[n][j] = filenames[n][j]
        BY <2>1, <2>3, <3>1, <3>3
      <4>2. filenames'[n][i].size = size
        BY <2>1, <2>3, <3>3
      <4>3. entryOf[t] # None
        BY <4>1, <2>1 DEF ListsAreMade
      <4>4. ~MatchSize(size, filenames[n][j])
        BY <1>1, <4>1, <4>3 DEF MakeCover, Found, Matching
      <4>5. QED
        BY <2>5, <4>1, <4>2, <4>4
    <3>4. QED
      BY <3>1, <3>2, <3>3
  <2>6. QED
    BY <2>4, <2>5
<1>2. CASE UNCHANGED filenames
  BY <1>2 DEF NothingHidden
<1>3. QED
  BY <1>1, <1>2 DEF Next, vars, CoverChanges, GetCoverOfAnother

(* The theorem for EveryFileIsServed: also when covers change, every file
   of a list is what a request for its size is answered with. *)
THEOREM EveryFileIsServedHolds == Spec => []EveryFileIsServed
<1>1. Init => ListsAreMade /\ NothingHidden
  BY DEF Init, ListsAreMade, NothingHidden
<1>2. TypeOK /\ ListsAreMade /\ NothingHidden /\ [Next]_vars
         => ListsAreMade' /\ NothingHidden'
  BY ListsAreMadeStep, NothingHiddenStep
<1>3. TypeOK /\ NothingHidden => EveryFileIsServed
  <2> SUFFICES ASSUME TypeOK, NothingHidden, NEW n \in Tracks,
                      NEW i \in DOMAIN filenames[n]
               PROVE  Served(n, filenames[n][i].size) = filenames[n][i]
    BY DEF EveryFileIsServed
  <2> DEFINE size == filenames[n][i].size
  <2>1. filenames[n] \in Seq(Files)
    BY DEF TypeOK
  <2>2. filenames[n][i] \in Files
    BY <2>1
  <2>3. size \in Sizes
    BY <2>2 DEF Files
  <2>4. MatchSize(size, filenames[n][i])
    BY <2>3, MatchesItself
  <2>5. Found(n, size)
    BY <2>4, NoneAssumption DEF Found, Matching
  <2>6. PICK k \in DOMAIN filenames[n] :
           /\ Served(n, size) = filenames[n][k]
           /\ MatchSize(size, filenames[n][k])
           /\ \A j \in DOMAIN filenames[n] :
                 MatchSize(size, filenames[n][j]) => k <= j
    BY <2>3, <2>5, ServedIsInList
  <2>7. k <= i
    BY <2>4, <2>6
  <2>8. ~(k < i)
    BY <2>6 DEF NothingHidden
  <2>9. k = i
    BY <2>1, <2>7, <2>8
  <2>10. QED
    BY <2>6, <2>9
<1>4. QED
  BY <1>1, <1>2, <1>3, TypeCorrect, PTL DEF Spec

=============================================================================
