------------------------ MODULE HttpRequests_proofs ------------------------
(***************************************************************************)
(* Proofs about HttpRequests and the parser of forms it is built on, for   *)
(* any connections, any requests that clients can send, any boundary and   *)
(* pieces of any size.                                                     *)
(*                                                                         *)
(* The argument, from the inside out: every round of the form's parser     *)
(* keeps it in order and takes something off what it collects, so that its *)
(* loop ends (ProcessStepOK, LoopEnds); a piece touches no file of another *)
(* parser (AcceptSomeDataOK); after N symbols of a request its parser is   *)
(* where ReadAt or Ended say, however they were cut (ParseOK); a form that *)
(* was read up to its n-th symbol has the fields of its first parts, whole *)
(* but for the last (FormAt, PieceOfForm); the walk of an upload adds the  *)
(* beginning of what the form holds (VisitsOK, HandleOK).  The invariant   *)
(* RequestsInv puts this together for all connections and the directory    *)
(* they share.                                                             *)
(***************************************************************************)
EXTENDS HttpRequests, TLAPS, WellFoundedInduction, SequenceTheorems,
        FiniteSetTheorems

(* A set of naturals that is not empty has a least element. *)
LEMMA LeastNat ==
    ASSUME NEW T, T \subseteq Nat, T # {}
    PROVE  \E x \in T : \A y \in T : x <= y
<1> DEFINE R == OpToRel(<, Nat)
<1>1. IsWellFoundedOn(R, Nat)
  BY NatLessThanWellFounded, Zenon
<1>2. \E x \in T : \A y \in T : ~ (<< y, x >> \in R)
  <2> HIDE DEF R
  <2> QED BY <1>1, WFMin
<1>3. \A x, y \in Nat : y < x => << y, x >> \in R
  BY DEF OpToRel
<1> HIDE DEF R
<1>4. PICK x \in T : \A y \in T : ~ (<< y, x >> \in R)
  BY <1>2
<1>5. \A y \in T : x <= y
  <2> TAKE y \in T
  <2>1. ~ (y < x)
    BY <1>3, <1>4, Zenon
  <2> QED BY <2>1
<1> QED BY <1>5

(* Induction on the naturals, the property given by the set of those that
   have it. *)
LEMMA NatInd ==
    ASSUME NEW P, 0 \in P, \A n \in Nat : n \in P => n + 1 \in P
    PROVE  \A n \in Nat : n \in P
<1>1. SUFFICES ASSUME NEW m \in Nat, m \notin P
               PROVE  FALSE
  OBVIOUS
<1> DEFINE T == { n \in Nat : n \notin P }
<1>2. PICK x \in T : \A y \in T : x <= y
  <2>1. T \subseteq Nat /\ T # {}
    BY <1>1
  <2> HIDE DEF T
  <2> QED BY <2>1, LeastNat
<1>3. x # 0 /\ x \in Nat /\ x - 1 \in Nat
  BY <1>2
<1>4. x - 1 \in P
  BY <1>2, <1>3
<1>5. (x - 1) + 1 \in P
  BY <1>3, <1>4
<1> QED BY <1>2, <1>3, <1>5

(* Min of a set of naturals that is not empty is its least element. *)
LEMMA MinNat ==
    ASSUME NEW T, T \subseteq Nat, T # {}
    PROVE  Min(T) \in T /\ \A y \in T : Min(T) <= y
BY LeastNat DEF Min

(* What Position finds is the first occurrence. *)
LEMMA PositionFinds ==
    ASSUME NEW word \in Seq(Symbols), NEW data \in Seq(Symbols)
    PROVE  /\ Position(word, data) \in Nat
           /\ Position(word, data) # 0 =>
                  /\ Position(word, data) \in 1..(Len(data) - Len(word) + 1)
                  /\ SubSeq(data, Position(word, data),
                            Position(word, data) + Len(word) - 1) = word
           /\ \A i \in 1..(Len(data) - Len(word) + 1) :
                  SubSeq(data, i, i + Len(word) - 1) = word =>
                      Position(word, data) # 0 /\ Position(word, data) <= i
<1> DEFINE at == { i \in 1..(Len(data) - Len(word) + 1) :
                       SubSeq(data, i, i + Len(word) - 1) = word }
<1>1. at \subseteq Nat /\ \A i \in at : i # 0
  OBVIOUS
<1>2. Position(word, data) = IF at = {} THEN 0 ELSE Min(at)
  BY DEF Position
<1>3. CASE at = {}
  <2>1. Position(word, data) = 0
    BY <1>2, <1>3
  <2>2. \A i \in 1..(Len(data) - Len(word) + 1) : SubSeq(data, i, i + Len(word) - 1) # word
    BY <1>3
  <2>3. Position(word, data) \in Nat
    BY <2>1
  <2> QED BY <2>1, <2>2, <2>3, Zenon
<1>4. CASE at # {}
  <2>1. Min(at) \in at /\ \A y \in at : Min(at) <= y
    <3> HIDE DEF at
    <3> QED BY <1>1, <1>4, MinNat
  <2>2. Position(word, data) = Min(at)
    BY <1>2, <1>4
  <2> QED BY <2>1, <2>2, <1>1
<1> QED BY <1>3, <1>4

-----------------------------------------------------------------------------

(* The rounds of the loop satisfy the equation that defines them. *)
LEMMA RoundsDef ==
    ASSUME NEW p, Len(p.collector) \in Nat
    PROVE  /\ EnoughRounds(p) \in Nat
           /\ Rounds(p)[0] = [ form |-> p, stopped |-> FALSE ]
           /\ \A i \in 1..EnoughRounds(p) : Rounds(p)[i] = Round(Rounds(p)[i - 1])
<1> DEFINE s0 == [ form |-> p, stopped |-> FALSE ]
           Is(g, n) == g = [ i \in 0..n |-> IF i = 0 THEN s0 ELSE Round(g[i - 1]) ]
           P == { n \in Nat : \E g : Is(g, n) }
<1>0. EnoughRounds(p) \in Nat
  BY DEF EnoughRounds
<1> HIDE DEF s0
<1>1. 0 \in P
  <2>1. Is([ i \in 0..0 |-> s0 ], 0)
    OBVIOUS
  <2> QED BY <2>1
<1>2. ASSUME NEW n \in Nat, n \in P
      PROVE  n + 1 \in P
  <2>1. PICK g : Is(g, n)
    BY <1>2
  <2> DEFINE h == [ i \in 0..(n + 1) |-> IF i = n + 1 THEN Round(g[n]) ELSE g[i] ]
  <2>2. \A i \in 0..(n + 1) : h[i] = IF i = 0 THEN s0 ELSE Round(h[i - 1])
    BY <2>1
  <2>3. Is(h, n + 1)
    BY <2>2
  <2>4. \E f : Is(f, n + 1)
    <3> HIDE DEF h, Is
    <3> QED BY <2>3
  <2> QED BY <2>4
<1>3. EnoughRounds(p) \in P
  <2> HIDE DEF P
  <2> QED BY <1>0, <1>1, <1>2, NatInd
<1>4. Is(Rounds(p), EnoughRounds(p))
  <2>1. \E g : Is(g, EnoughRounds(p))
    BY <1>3
  <2>2. Rounds(p) = CHOOSE g : Is(g, EnoughRounds(p))
    BY DEF Rounds, s0
  <2> HIDE DEF Is
  <2> QED BY <2>1, <2>2
<1>5. \A i \in 0..EnoughRounds(p) :
          Rounds(p)[i] = IF i = 0 THEN s0 ELSE Round(Rounds(p)[i - 1])
  BY <1>4
<1>6. Rounds(p)[0] = s0 /\ \A i \in 1..EnoughRounds(p) : Rounds(p)[i] = Round(Rounds(p)[i - 1])
  BY <1>0, <1>5
<1> QED BY <1>0, <1>6 DEF s0

-----------------------------------------------------------------------------
(* The parser of a form: its type *)

(* What a form's parser is made of. *)
FieldRec  == [ filename : STRING, text : Seq(Symbols), temp : Nat ]
FieldMaps == { f \in UNION { [K -> FieldRec] : K \in SUBSET Names } :
                   IsFiniteSet(DOMAIN f) }
Disks     == { f \in UNION { [K -> Seq(Symbols)] : K \in SUBSET (Nat \ {0}) } :
                   IsFiniteSet(DOMAIN f) }
FormType  == [ status : Statuses, collector : Seq(Symbols), fields : FieldMaps,
               current : Names \union { NoField }, disk : Disks, threw : BOOLEAN ]

(* A map of fields, without the set its domain is taken from. *)
LEMMA FieldMapIs ==
    ASSUME NEW f
    PROVE  f \in FieldMaps <=> /\ f \in [DOMAIN f -> FieldRec]
                               /\ DOMAIN f \subseteq Names
                               /\ IsFiniteSet(DOMAIN f)
BY DEF FieldMaps

(* A directory, likewise. *)
LEMMA DiskIs ==
    ASSUME NEW f
    PROVE  f \in Disks <=> /\ f \in [DOMAIN f -> Seq(Symbols)]
                           /\ DOMAIN f \subseteq Nat \ {0}
                           /\ IsFiniteSet(DOMAIN f)
BY DEF Disks

(* The empty map is one of fields, and of files. *)
LEMMA NothingYet == << >> \in FieldMaps /\ << >> \in Disks /\ DOMAIN << >> = {}
<1>1. DOMAIN << >> = {}
  OBVIOUS
<1>2. IsFiniteSet({})
  BY FS_EmptySet
<1>3. << >> \in [{} -> FieldRec] /\ << >> \in [{} -> Seq(Symbols)]
  BY <1>1
<1>4. << >> \in FieldMaps
  BY <1>1, <1>2, <1>3, FieldMapIs
<1>5. << >> \in Disks
  BY <1>1, <1>2, <1>3, DiskIs
<1> QED BY <1>1, <1>4, <1>5

(* A field put into the map. *)
LEMMA PutField ==
    ASSUME NEW f \in FieldMaps, NEW k \in Names, NEW v \in FieldRec
    PROVE  LET g == Put(f, k, v)
           IN  /\ g \in FieldMaps
               /\ DOMAIN g = DOMAIN f \union { k }
               /\ g[k] = v
               /\ \A l \in DOMAIN f \ { k } : g[l] = f[l]
<1> DEFINE g == Put(f, k, v)
<1>1. DOMAIN g = DOMAIN f \union { k }
  BY DEF Put
<1>2. g[k] = v /\ \A l \in DOMAIN f \ { k } : g[l] = f[l]
  BY DEF Put
<1>3. g = [ l \in DOMAIN g |-> g[l] ]
  BY DEF Put
<1> HIDE DEF g
<1>4. \A l \in DOMAIN g : g[l] \in FieldRec
  BY <1>1, <1>2, FieldMapIs
<1>5. IsFiniteSet(DOMAIN g) /\ DOMAIN g \subseteq Names
  BY <1>1, FieldMapIs, FS_AddElement
<1>6. g \in [DOMAIN g -> FieldRec]
  BY <1>3, <1>4
<1>7. g \in FieldMaps
  BY <1>5, <1>6, FieldMapIs
<1> QED BY <1>1, <1>2, <1>7 DEF g

(* A file put into the directory. *)
LEMMA PutFile ==
    ASSUME NEW f \in Disks, NEW k \in Nat \ {0}, NEW v \in Seq(Symbols)
    PROVE  LET g == Put(f, k, v)
           IN  /\ g \in Disks
               /\ DOMAIN g = DOMAIN f \union { k }
               /\ g[k] = v
               /\ \A l \in DOMAIN f \ { k } : g[l] = f[l]
<1> DEFINE g == Put(f, k, v)
<1>1. DOMAIN g = DOMAIN f \union { k }
  BY DEF Put
<1>2. g[k] = v /\ \A l \in DOMAIN f \ { k } : g[l] = f[l]
  BY DEF Put
<1>3. g = [ l \in DOMAIN g |-> g[l] ]
  BY DEF Put
<1> HIDE DEF g
<1>4. \A l \in DOMAIN g : g[l] \in Seq(Symbols)
  BY <1>1, <1>2, DiskIs
<1>5. IsFiniteSet(DOMAIN g) /\ DOMAIN g \subseteq Nat \ {0}
  BY <1>1, DiskIs, FS_AddElement, ZenonT(60)
<1>6. g \in [DOMAIN g -> Seq(Symbols)]
  BY <1>3, <1>4
<1>7. g \in Disks
  BY <1>5, <1>6, DiskIs
<1> QED BY <1>1, <1>2, <1>7 DEF g

(* An entry of the map of fields that changes. *)
LEMMA ChangeField ==
    ASSUME NEW f \in FieldMaps, NEW k \in DOMAIN f, NEW v \in FieldRec
    PROVE  LET g == [f EXCEPT ![k] = v]
           IN  /\ g \in FieldMaps
               /\ DOMAIN g = DOMAIN f
               /\ g[k] = v
               /\ \A l \in DOMAIN f \ { k } : g[l] = f[l]
<1> DEFINE g == [f EXCEPT ![k] = v]
<1>1. f \in [DOMAIN f -> FieldRec] /\ DOMAIN f \subseteq Names /\ IsFiniteSet(DOMAIN f)
  BY FieldMapIs
<1>2. DOMAIN g = DOMAIN f /\ g[k] = v /\ \A l \in DOMAIN f \ { k } : g[l] = f[l]
  BY <1>1
<1>3. g \in [DOMAIN f -> FieldRec]
  BY <1>1
<1> HIDE DEF g
<1>4. g \in FieldMaps
  BY <1>1, <1>2, <1>3, FieldMapIs
<1> QED BY <1>2, <1>4 DEF g

-----------------------------------------------------------------------------
(* Names *)

(* The name a field gets is not in use. *)
LEMMA UniqueNameIsNew ==
    ASSUME NEW name \in Names, NEW used, IsFiniteSet(used)
    PROVE  UniqueName(name, used) \in Names \ used
<1> DEFINE n == Cardinality(used)
           numbered(k) == Append(name, k)
           free == { k \in 0..n : numbered(k) \notin used }
<1>1. n \in Nat
  BY FS_CardinalityType
<1>2. name \in Seq(Nat) /\ Len(name) \in Nat
  BY LenProperties DEF Names
<1>3. \A k \in Nat : /\ numbered(k) \in Seq(Nat) /\ Len(numbered(k)) = Len(name) + 1
                     /\ numbered(k)[Len(name) + 1] = k
  BY <1>2, AppendProperties
<1>4. \A k \in Nat : numbered(k) \in Names
  <2> TAKE k \in Nat
  <2>1. Len(<< >>) = 0
    BY EmptySeq
  <2> HIDE DEF numbered
  <2>2. numbered(k) \in Seq(Nat) /\ Len(numbered(k)) # 0
    BY <1>2, <1>3
  <2>3. numbered(k) # << >>
    BY <2>1, <2>2
  <2> QED BY <2>2, <2>3 DEF Names
<1> HIDE DEF numbered
<1>5. free # {}
  <2>1. SUFFICES ASSUME free = {}
                 PROVE  FALSE
    OBVIOUS
  <2>2. \A k \in 0..n : numbered(k) \in used
    BY <2>1
  <2> HIDE DEF n
  <2> DEFINE inj == [ k \in 0..n |-> numbered(k) ]
  <2>3. ASSUME NEW k \in 0..n, NEW l \in 0..n, numbered(k) = numbered(l)
        PROVE  k = l
    <3>1. /\ numbered(k)[Len(name) + 1] = k
          /\ numbered(l)[Len(name) + 1] = l
      BY <1>3
    <3> QED BY <2>3, <3>1
  <2>4. inj \in Injection(0..n, used)
    BY <2>3, <2>2 DEF Injection, IsInjective
  <2>5. Cardinality(0..n) <= n
    <3> HIDE DEF inj
    <3> QED BY <1>1, <2>4, FS_Injection DEF n
  <2>6. Cardinality(0..n) = n + 1
    BY <1>1, FS_Interval
  <2> QED BY <1>1, <2>5, <2>6
<1>6. Min(free) \in free
  <2>1. free \subseteq Nat
    OBVIOUS
  <2> HIDE DEF free
  <2> QED BY <1>5, <2>1, MinNat
<1>7. UniqueName(name, used) = IF name \notin used THEN name ELSE numbered(Min(free))
  BY DEF UniqueName, numbered
<1>8. Min(free) \in Nat /\ numbered(Min(free)) \notin used
  BY <1>6
<1> HIDE DEF free
<1> QED BY <1>4, <1>7, <1>8

(* The temporary file a field gets does not exist. *)
LEMMA FreeTempIsFree ==
    ASSUME NEW disk \in Disks
    PROVE  FreeTemp(disk) \in (Nat \ {0}) \ DOMAIN disk
<1> DEFINE D == DOMAIN disk
           n == Cardinality(D)
           free == 1..(n + 1) \ D
<1>1. IsFiniteSet(D) /\ n \in Nat
  BY DiskIs, FS_CardinalityType
<1>2. free # {}
  <2>1. SUFFICES ASSUME 1..(n + 1) \subseteq D
                 PROVE  FALSE
    OBVIOUS
  <2>2. Cardinality(1..(n + 1)) <= n
    BY <1>1, <2>1, FS_Subset
  <2>3. Cardinality(1..(n + 1)) = n + 1
    BY <1>1, FS_Interval
  <2> QED BY <1>1, <2>2, <2>3
<1>3. Min(free) \in free
  <2>1. free \subseteq Nat
    BY <1>1
  <2> HIDE DEF free
  <2> QED BY <1>2, <2>1, MinNat
<1>4. FreeTemp(disk) = Min(free)
  BY DEF FreeTemp
<1> QED BY <1>1, <1>3, <1>4

-----------------------------------------------------------------------------
(* What a piece of data does to it *)

(* A field's content so far. *)
StoredIn(p, key) ==
    IF p.fields[key].temp = 0 THEN << >> ELSE p.disk[p.fields[key].temp]

(* The files of a form's fields are in the directory, each of one field. *)
OwnsItsFiles(p) ==
    /\ OpenTemps(p.fields) \subseteq DOMAIN p.disk
    /\ \A k, l \in DOMAIN p.fields :
           p.fields[k].temp # 0 /\ p.fields[k].temp = p.fields[l].temp => k = l

(* A form's parser in order, as it is between two rounds of its loop. *)
FormOK(p) ==
    /\ p \in FormType
    /\ OwnsItsFiles(p)
    /\ p.status = "ProcessingContentOfTheField" => p.current \in DOMAIN p.fields

(* What handling data may do to the directory: files of the form's own are
   made and grow, no other is touched. *)
DiskStep(p, q) ==
    /\ OpenTemps(p.fields) \subseteq OpenTemps(q.fields)
    /\ DOMAIN q.disk = DOMAIN p.disk \union OpenTemps(q.fields)
    /\ \A t \in DOMAIN p.disk \ OpenTemps(p.fields) :
           t \notin OpenTemps(q.fields) /\ q.disk[t] = p.disk[t]

(* Two such steps are one. *)
LEMMA DiskStepTransitive ==
    ASSUME NEW p, NEW q, NEW s, DiskStep(p, q), DiskStep(q, s)
    PROVE  DiskStep(p, s)
<1>1. OpenTemps(p.fields) \subseteq OpenTemps(s.fields)
  BY DEF DiskStep
<1>2. DOMAIN s.disk = DOMAIN p.disk \union OpenTemps(s.fields)
  BY DEF DiskStep
<1>3. ASSUME NEW t \in DOMAIN p.disk \ OpenTemps(p.fields)
      PROVE  t \notin OpenTemps(s.fields) /\ s.disk[t] = p.disk[t]
  <2>1. t \notin OpenTemps(q.fields) /\ q.disk[t] = p.disk[t] /\ t \in DOMAIN q.disk
    BY <1>3 DEF DiskStep
  <2> QED BY <2>1 DEF DiskStep
<1> QED BY <1>1, <1>2, <1>3 DEF DiskStep

(* Same fields, same directory. *)
LEMMA DiskStepSame ==
    ASSUME NEW p, NEW q, FormOK(p), q.fields = p.fields, q.disk = p.disk
    PROVE  DiskStep(p, q)
BY DEF DiskStep, FormOK, OwnsItsFiles

-----------------------------------------------------------------------------

(* Field::AcceptSomeData: data goes to the end of the file of the current
   field, a new one if it has none, and nothing else changes. *)
LEMMA FieldAcceptsOK ==
    ASSUME NEW p, FormOK(p), p.current \in DOMAIN p.fields,
           NEW data \in Seq(Symbols)
    PROVE  LET q == FieldAccepts(p, data)
           IN  /\ FormOK(q) /\ DiskStep(p, q)
               /\ q.status = p.status /\ q.collector = p.collector
               /\ q.current = p.current /\ q.threw = p.threw
               /\ DOMAIN q.fields = DOMAIN p.fields
               /\ \A k \in DOMAIN p.fields :
                      q.fields[k].filename = p.fields[k].filename
               /\ \A k \in DOMAIN p.fields \ { p.current } :
                      StoredIn(q, k) = StoredIn(p, k)
               /\ p.fields[p.current].filename # NoFilename =>
                      StoredIn(q, p.current) = StoredIn(p, p.current) \o data
<1> DEFINE q == FieldAccepts(p, data)
           c == p.current
           field == p.fields[c]
<1>1. /\ p \in FormType /\ p.fields \in FieldMaps /\ p.disk \in Disks
      /\ field \in FieldRec
      /\ \A k \in DOMAIN p.fields : p.fields[k] \in FieldRec
  BY FieldMapIs DEF FormOK, FormType
<1>2. CASE field.filename = NoFilename
  <2> DEFINE v == [field EXCEPT !.text = data]
             g == [p.fields EXCEPT ![c] = v]
  <2>1. v \in FieldRec /\ v.filename = field.filename /\ v.temp = field.temp
    BY <1>1 DEF FieldRec
  <2>2. q = [p EXCEPT !.fields = g]
    BY <1>1, <1>2 DEF FieldAccepts, FormType
  <2>3. /\ g \in FieldMaps /\ DOMAIN g = DOMAIN p.fields /\ g[c] = v
        /\ \A l \in DOMAIN p.fields \ { c } : g[l] = p.fields[l]
    <3> HIDE DEF v
    <3> QED BY <1>1, <2>1, ChangeField
  <2> HIDE DEF g, v, q
  <2>4. /\ q \in FormType /\ q.fields = g /\ q.disk = p.disk /\ q.status = p.status
        /\ q.collector = p.collector /\ q.current = c /\ q.threw = p.threw
    BY <1>1, <2>2, <2>3 DEF FormType
  <2>5. \A k \in DOMAIN g : g[k].temp = p.fields[k].temp /\ g[k].filename = p.fields[k].filename
    BY <2>1, <2>3
  <2>6. OpenTemps(g) = OpenTemps(p.fields)
    BY <2>3, <2>5 DEF OpenTemps
  <2>7. OwnsItsFiles(q)
    BY <2>3, <2>4, <2>5, <2>6 DEF FormOK, OwnsItsFiles
  <2>8. FormOK(q)
    BY <2>3, <2>4, <2>7 DEF FormOK
  <2>9. DiskStep(p, q)
    BY <2>4, <2>6 DEF DiskStep, FormOK, OwnsItsFiles
  <2>10. \A k \in DOMAIN p.fields : StoredIn(q, k) = StoredIn(p, k)
    BY <2>3, <2>4, <2>5 DEF StoredIn
  <2> QED BY <1>2, <2>3, <2>4, <2>5, <2>8, <2>9, <2>10 DEF q
<1>3. CASE field.filename # NoFilename
  <2> DEFINE temp == IF field.temp = 0 THEN FreeTemp(p.disk) ELSE field.temp
             was  == IF field.temp = 0 THEN << >> ELSE p.disk[temp]
             v    == [field EXCEPT !.temp = temp]
             g    == [p.fields EXCEPT ![c] = v]
             new  == was \o data
             d    == Put(p.disk, temp, new)
  <2>1. /\ temp \in Nat \ {0}
        /\ \A k \in DOMAIN p.fields \ { c } : p.fields[k].temp # temp
        /\ temp \notin DOMAIN p.disk \/ temp = field.temp
    <3>1. CASE field.temp = 0
      <4>1. temp \in (Nat \ {0}) \ DOMAIN p.disk
        BY <1>1, <3>1, FreeTempIsFree
      <4>2. \A k \in DOMAIN p.fields : p.fields[k].temp # 0 => p.fields[k].temp \in DOMAIN p.disk
        BY DEF FormOK, OwnsItsFiles, OpenTemps
      <4> QED BY <4>1, <4>2
    <3>2. CASE field.temp # 0
      BY <1>1, <3>2 DEF FieldRec, FormOK, OwnsItsFiles
    <3> QED BY <3>1, <3>2
  <2>2. was \in Seq(Symbols) /\ was = StoredIn(p, c)
    <3>1. field.temp # 0 => field.temp \in DOMAIN p.disk
      BY DEF FormOK, OwnsItsFiles, OpenTemps
    <3>2. << >> \in Seq(Symbols)
      BY EmptySeq
    <3> QED BY <1>1, <3>1, <3>2, DiskIs DEF StoredIn
  <2>3. q = [p EXCEPT !.fields = g, !.disk = d]
    BY <1>1, <1>3 DEF FieldAccepts, FormType
  <2> HIDE DEF was, temp
  <2>4. v \in FieldRec /\ v.filename = field.filename /\ v.temp = temp
    BY <1>1, <2>1 DEF FieldRec
  <2>5. /\ g \in FieldMaps /\ DOMAIN g = DOMAIN p.fields /\ g[c] = v
        /\ \A l \in DOMAIN p.fields \ { c } : g[l] = p.fields[l]
    <3> HIDE DEF v
    <3> QED BY <1>1, <2>4, ChangeField
  <2>6. was \o data \in Seq(Symbols)
    BY <2>2, ConcatProperties
  <2>7. /\ d \in Disks /\ DOMAIN d = DOMAIN p.disk \union { temp }
        /\ d[temp] = was \o data
        /\ \A l \in DOMAIN p.disk \ { temp } : d[l] = p.disk[l]
    <3>1. new \in Seq(Symbols) /\ temp \in Nat \ {0} /\ p.disk \in Disks
      BY <1>1, <2>1, <2>6
    <3> HIDE DEF new
    <3>2. /\ d \in Disks /\ DOMAIN d = DOMAIN p.disk \union { temp }
          /\ d[temp] = new
          /\ \A l \in DOMAIN p.disk \ { temp } : d[l] = p.disk[l]
      BY <3>1, PutFile, ZenonT(60)
    <3> QED BY <3>2 DEF new
  <2> HIDE DEF g, v, q, d, field, new
  <2>8. /\ q \in FormType /\ q.fields = g /\ q.disk = d /\ q.status = p.status
        /\ q.collector = p.collector /\ q.current = c /\ q.threw = p.threw
    BY <1>1, <2>3, <2>5, <2>7 DEF FormType
  <2>9. OpenTemps(g) = OpenTemps(p.fields) \union { temp }
    <3>1. \A k \in DOMAIN g : g[k].temp = IF k = c THEN temp ELSE p.fields[k].temp
      BY <2>4, <2>5
    <3>2. field.temp \in { 0, temp }
      BY DEF temp
    <3> QED BY <2>1, <2>5, <3>1, <3>2 DEF OpenTemps, field
  <2>10. OwnsItsFiles(q)
    <3>1. OpenTemps(q.fields) \subseteq DOMAIN q.disk
      BY <2>7, <2>8, <2>9 DEF FormOK, OwnsItsFiles
    <3>2. \A k, l \in DOMAIN g : g[k].temp # 0 /\ g[k].temp = g[l].temp => k = l
      <4>1. \A k \in DOMAIN g : g[k].temp = IF k = c THEN temp ELSE p.fields[k].temp
        BY <2>4, <2>5
      <4> QED BY <2>1, <2>5, <4>1 DEF FormOK, OwnsItsFiles
    <3> QED BY <2>8, <3>1, <3>2 DEF OwnsItsFiles
  <2>11. FormOK(q)
    BY <2>5, <2>8, <2>10 DEF FormOK
  <2>12. DiskStep(p, q)
    <3>1. OpenTemps(p.fields) \subseteq DOMAIN p.disk
      BY DEF FormOK, OwnsItsFiles
    <3>2. temp \notin DOMAIN p.disk \ OpenTemps(p.fields)
      BY <2>1 DEF field, OpenTemps
    <3> QED BY <2>7, <2>8, <2>9, <3>1, <3>2 DEF DiskStep
  <2>13. \A k \in DOMAIN p.fields : q.fields[k].filename = p.fields[k].filename
    BY <2>4, <2>5, <2>8 DEF field
  <2>14. \A k \in DOMAIN p.fields \ { c } : StoredIn(q, k) = StoredIn(p, k)
    <3> TAKE k \in DOMAIN p.fields \ { c }
    <3>1. g[k] = p.fields[k] /\ p.fields[k].temp # temp
      BY <2>1, <2>5
    <3>2. p.fields[k].temp # 0 => p.fields[k].temp \in DOMAIN p.disk
      BY <1>1, SMTT(60) DEF FormOK, OwnsItsFiles, OpenTemps
    <3> QED BY <2>7, <2>8, <3>1, <3>2 DEF StoredIn
  <2>15. StoredIn(q, c) = StoredIn(p, c) \o data
    BY <2>1, <2>2, <2>4, <2>5, <2>7, <2>8, Zenon DEF StoredIn
  <2> QED BY <2>5, <2>8, <2>11, <2>12, <2>13, <2>14, <2>15 DEF q
<1> QED BY <1>2, <1>3

(* What is left when n symbols are taken off. *)
LEMMA SkipProps ==
    ASSUME NEW data \in Seq(Symbols), NEW n \in 0..Len(data)
    PROVE  /\ Skip(data, n) \in Seq(Symbols)
           /\ Len(Skip(data, n)) = Len(data) - n
           /\ \A i \in 1..(Len(data) - n) : Skip(data, n)[i] = data[n + i]
<1>1. Len(data) \in Nat /\ n \in Nat
  BY LenProperties
<1>2. \A i \in (n + 1)..Len(data) : data[i] \in Symbols
  BY <1>1, ElementOfSeq
<1> QED BY <1>1, <1>2, SubSeqProperties DEF Skip

(* The boundary is not empty. *)
LEMMA BoundaryIs ==
    Boundary \in Seq(Symbols) /\ Len(Boundary) \in Nat \ {0}
BY FormAssumption, EmptySeq, LenProperties

(* Header lines end with four symbols. *)
LEMMA EndOfHeadersIs ==
    EndOfHeaders \in Seq(Symbols) /\ Len(EndOfHeaders) = 4
<1>1. EndOfHeaders = << "cr", "lf", "cr", "lf" >>
  BY DEF EndOfHeaders
<1>2. \A x, y \in Symbols : << x, y, x, y >> \in Seq(Symbols)
  OBVIOUS
<1>3. Len(<< "cr", "lf", "cr", "lf" >>) = 4
  OBVIOUS
<1> QED BY <1>1, <1>2, <1>3, FormAssumption

(* What a form's parser still has to do: what a round that goes on lowers. *)
Left(p) == Len(p.collector) +
           IF p.status = "ProcessingContentOfTheField" THEN 1 ELSE 0

(* A round that looks for a boundary keeps the parser in order. *)
LEMMA LookForBoundaryOK ==
    ASSUME NEW p, FormOK(p), p.status = "LookingForStartingBoundary"
    PROVE  LET q  == LookForBoundary(p)
               at == Position(Boundary, p.collector)
           IN  /\ at = 0 => q = p
               /\ at # 0 => /\ q.status = "ProcessingHeaders" /\ q.threw = p.threw
                            /\ at + Len(Boundary) - 1 \in 0..Len(p.collector)
                            /\ q.collector = Skip(p.collector, at + Len(Boundary) - 1)
                            /\ q.fields = p.fields /\ q.disk = p.disk
                            /\ q.current = p.current
                            /\ Left(q) < Left(p)
               /\ FormOK(q)
<1> DEFINE q  == LookForBoundary(p)
           at == Position(Boundary, p.collector)
           n  == at + Len(Boundary) - 1
<1>1. p \in FormType /\ p.collector \in Seq(Symbols)
  BY DEF FormOK, FormType
<1>2. at \in Nat /\ (at # 0 => at \in 1..(Len(p.collector) - Len(Boundary) + 1))
  BY <1>1, BoundaryIs, PositionFinds
<1>3. CASE at = 0
  BY <1>3 DEF LookForBoundary
<1>4. CASE at # 0
  <2>0. Len(p.collector) \in Nat
    BY <1>1, LenProperties
  <2>1. n \in 1..Len(p.collector)
    BY <1>2, <1>4, <2>0, BoundaryIs
  <2>2. q = [p EXCEPT !.status = "ProcessingHeaders", !.collector = Skip(p.collector, n)]
    BY <1>1, <1>4 DEF LookForBoundary, FormType
  <2>3. Skip(p.collector, n) \in Seq(Symbols) /\ Len(Skip(p.collector, n)) = Len(p.collector) - n
    BY <1>1, <2>1, SkipProps
  <2> HIDE DEF n, q
  <2>4. /\ q \in FormType /\ q.status = "ProcessingHeaders" /\ q.threw = p.threw
        /\ q.collector = Skip(p.collector, n) /\ q.fields = p.fields
        /\ q.disk = p.disk /\ q.current = p.current
    BY <1>1, <2>2, <2>3 DEF FormType, Statuses
  <2>5. Left(q) < Left(p)
    BY <1>1, <2>0, <2>1, <2>3, <2>4 DEF Left
  <2>6. FormOK(q)
    BY <2>4 DEF FormOK, OwnsItsFiles
  <2> QED BY <1>4, <2>1, <2>4, <2>5, <2>6 DEF n, q
<1> QED BY <1>3, <1>4

(* Header lines start a new field, or the parser throws. *)
LEMMA ParseHeadersOK ==
    ASSUME NEW p, FormOK(p), p.status = "ProcessingHeaders",
           NEW headers \in Seq(Symbols)
    PROVE  LET q     == ParseHeaders(p, headers)
               known == { h \in Range(headers) : h \in DOMAIN Parts }
           IN  /\ FormOK(q) /\ DiskStep(p, q)
               /\ known = {} => q = [p EXCEPT !.threw = TRUE]
               /\ known # {} =>
                      \E h \in known :
                          LET key == UniqueName(Parts[h].name, DOMAIN p.fields)
                          IN  /\ q.status = p.status /\ q.collector = p.collector
                              /\ q.threw = p.threw /\ q.disk = p.disk
                              /\ q.current = key /\ key \notin DOMAIN p.fields
                              /\ DOMAIN q.fields = DOMAIN p.fields \union { key }
                              /\ q.fields[key] = NewField(Parts[h].filename)
                              /\ \A k \in DOMAIN p.fields : q.fields[k] = p.fields[k]
<1> DEFINE q     == ParseHeaders(p, headers)
           known == { h \in Range(headers) : h \in DOMAIN Parts }
<1>1. p \in FormType /\ p.fields \in FieldMaps
  BY DEF FormOK, FormType
<1>2. CASE known = {}
  <2>1. q = [p EXCEPT !.threw = TRUE]
    BY <1>2 DEF ParseHeaders
  <2>2. /\ q \in FormType /\ q.fields = p.fields /\ q.disk = p.disk
        /\ q.status = p.status /\ q.current = p.current
    BY <1>1, <2>1 DEF FormType
  <2>3. FormOK(q)
    BY <2>2 DEF FormOK, OwnsItsFiles
  <2> QED BY <1>2, <2>1, <2>2, <2>3, DiskStepSame
<1>3. CASE known # {}
  <2> DEFINE h   == CHOOSE h \in known : TRUE
             key == UniqueName(Parts[h].name, DOMAIN p.fields)
             v   == NewField(Parts[h].filename)
             g   == Put(p.fields, key, v)
  <2>1. h \in known
    BY <1>3
  <2> HIDE DEF h
  <2>2. Parts[h].name \in Names /\ Parts[h].filename \in STRING
    BY <2>1, FormAssumption
  <2>3. key \in Names \ DOMAIN p.fields
    BY <1>1, <2>2, UniqueNameIsNew, FieldMapIs
  <2>4. v \in FieldRec /\ v.temp = 0
    BY <2>2, EmptySeq DEF NewField, FieldRec
  <2>5. q = [p EXCEPT !.current = key, !.fields = g]
    BY <1>1, <1>3 DEF ParseHeaders, FormType, h
  <2>6. /\ g \in FieldMaps /\ DOMAIN g = DOMAIN p.fields \union { key }
        /\ g[key] = v /\ \A l \in DOMAIN p.fields : g[l] = p.fields[l]
    <3> HIDE DEF key, v
    <3>1. /\ g \in FieldMaps /\ DOMAIN g = DOMAIN p.fields \union { key }
          /\ g[key] = v /\ \A l \in DOMAIN p.fields \ { key } : g[l] = p.fields[l]
      BY <1>1, <2>3, <2>4, PutField, ZenonT(60)
    <3> HIDE DEF g
    <3> QED BY <2>3, <3>1
  <2> HIDE DEF key, v, g, q
  <2>7. /\ q \in FormType /\ q.fields = g /\ q.disk = p.disk /\ q.status = p.status
        /\ q.collector = p.collector /\ q.current = key /\ q.threw = p.threw
    BY <1>1, <2>3, <2>5, <2>6 DEF FormType
  <2>8. OpenTemps(g) = OpenTemps(p.fields)
    BY <2>4, <2>6 DEF OpenTemps
  <2>9. OwnsItsFiles(q)
    <3>1. \A k, l \in DOMAIN g : g[k].temp # 0 /\ g[k].temp = g[l].temp => k = l
      BY <2>4, <2>6 DEF FormOK, OwnsItsFiles
    <3> QED BY <2>7, <2>8, <3>1 DEF FormOK, OwnsItsFiles
  <2>10. FormOK(q)
    BY <2>6, <2>7, <2>9 DEF FormOK
  <2>11. DiskStep(p, q)
    BY <2>7, <2>8 DEF DiskStep, FormOK, OwnsItsFiles
  <2>12. /\ q.status = p.status /\ q.collector = p.collector
         /\ q.threw = p.threw /\ q.disk = p.disk
         /\ q.current = key /\ key \notin DOMAIN p.fields
         /\ DOMAIN q.fields = DOMAIN p.fields \union { key }
         /\ q.fields[key] = v
         /\ \A k \in DOMAIN p.fields : q.fields[k] = p.fields[k]
    BY <2>3, <2>6, <2>7
  <2> QED BY <1>3, <2>1, <2>10, <2>11, <2>12 DEF q, key, v
<1> QED BY <1>2, <1>3

(* A round that waits for the end of header lines keeps the parser in order.
   *)
LEMMA WaitForHeadersEndOK ==
    ASSUME NEW p, FormOK(p), p.status = "ProcessingHeaders", ~p.threw
    PROVE  LET q  == WaitForHeadersEnd(p)
               at == Position(EndOfHeaders, p.collector)
               f  == ParseHeaders(p, SubSeq(p.collector, 1, at - 1))
           IN  /\ at = 0 => q = p
               /\ at # 0 => /\ at \in 1..(Len(p.collector) - 3)
                            /\ SubSeq(p.collector, 1, at - 1) \in Seq(Symbols)
                            /\ q.fields = f.fields /\ q.disk = f.disk
                            /\ q.threw = f.threw /\ q.current = f.current
                            /\ ~q.threw =>
                                 /\ q.status = "ProcessingContentOfTheField"
                                 /\ q.collector = Skip(p.collector, at + 3)
                                 /\ Left(q) < Left(p)
               /\ FormOK(q) /\ DiskStep(p, q)
<1> DEFINE q  == WaitForHeadersEnd(p)
           at == Position(EndOfHeaders, p.collector)
           headers == SubSeq(p.collector, 1, at - 1)
           f  == ParseHeaders(p, headers)
<1>1. p \in FormType /\ p.collector \in Seq(Symbols) /\ Len(p.collector) \in Nat
  BY LenProperties DEF FormOK, FormType
<1>2. at \in Nat /\ (at # 0 => at \in 1..(Len(p.collector) - 3))
  <2>1. /\ at \in Nat
        /\ at # 0 => at \in 1..(Len(p.collector) - Len(EndOfHeaders) + 1)
    BY <1>1, EndOfHeadersIs, PositionFinds
  <2>2. Len(p.collector) - 4 + 1 = Len(p.collector) - 3
    BY <1>1
  <2> QED BY <2>1, <2>2, EndOfHeadersIs
<1>3. CASE at = 0
  <2>1. q = p
    BY <1>3 DEF WaitForHeadersEnd
  <2> QED BY <1>3, <2>1, DiskStepSame
<1>4. CASE at # 0
  <2>1. headers \in Seq(Symbols)
    <3>1. \A i \in 1..(at - 1) : p.collector[i] \in Symbols
      BY <1>1, <1>2, <1>4, ElementOfSeq
    <3> QED BY <1>2, <3>1, SubSeqProperties
  <2>2. FormOK(f) /\ DiskStep(p, f)
    <3> HIDE DEF headers
    <3> QED BY <2>1, ParseHeadersOK
  <2>3. CASE f.threw
    <3>1. q = f
      BY <1>4, <2>3 DEF WaitForHeadersEnd
    <3> QED BY <1>2, <1>4, <2>1, <2>2, <2>3, <3>1
  <2>4. CASE ~f.threw
    <3>1. /\ f.current \in DOMAIN f.fields /\ f.collector = p.collector
      <4> DEFINE known == { h \in Range(headers) : h \in DOMAIN Parts }
      <4>1. known # {}
        BY <1>1, <2>4 DEF ParseHeaders, FormType
      <4> HIDE DEF headers, known
      <4> USE DEF known
      <4> QED BY <2>1, <4>1, ParseHeadersOK
    <3>2. q = [f EXCEPT !.status = "ProcessingContentOfTheField",
                        !.collector = Skip(p.collector, at + 3)]
      BY <1>4, <2>2, <2>4, <3>1 DEF WaitForHeadersEnd, FormOK, FormType
    <3>3. /\ Skip(p.collector, at + 3) \in Seq(Symbols)
          /\ Len(Skip(p.collector, at + 3)) = Len(p.collector) - at - 3
      <4>1. at + 3 \in 0..Len(p.collector)
        BY <1>1, <1>2, <1>4
      <4>2. /\ Skip(p.collector, at + 3) \in Seq(Symbols)
            /\ Len(Skip(p.collector, at + 3)) = Len(p.collector) - (at + 3)
        <5> HIDE DEF at
        <5> QED BY <1>1, <4>1, SkipProps
      <4> QED BY <1>1, <1>2, <4>2
    <3> HIDE DEF f, q, at
    <3>4. /\ q \in FormType /\ q.status = "ProcessingContentOfTheField"
          /\ q.threw = f.threw /\ q.fields = f.fields /\ q.disk = f.disk
          /\ q.current = f.current /\ q.collector = Skip(p.collector, at + 3)
      BY <2>2, <3>2, <3>3 DEF FormOK, FormType, Statuses
    <3>5. Left(q) < Left(p)
      BY <1>1, <1>2, <1>4, <3>3, <3>4 DEF Left
    <3>6. FormOK(q)
      BY <2>2, <3>1, <3>4 DEF FormOK, OwnsItsFiles
    <3>7. DiskStep(p, q)
      BY <2>2, <3>4 DEF DiskStep
    <3>8. /\ at \in 1..(Len(p.collector) - 3)
          /\ headers \in Seq(Symbols)
      BY <1>2, <1>4, <2>1
    <3> QED BY <1>4, <3>4, <3>5, <3>6, <3>7, <3>8 DEF q, f, at
  <2> QED BY <2>3, <2>4
<1> QED BY <1>3, <1>4

(* A round that hands content to the current field keeps the parser in
   order. *)
LEMMA ProcessContentOK ==
    ASSUME NEW p, FormOK(p), p.status = "ProcessingContentOfTheField", ~p.threw
    PROVE  LET q  == ProcessContent(p)
               at == Position(Boundary, p.collector)
               n  == DataLengthToSend(p.collector)
               data == SubSeq(p.collector, 1, n)
               f  == FieldAccepts(p, data)
           IN  /\ n \in Int /\ n <= Len(p.collector)
               /\ n <= 0 => q.fields = p.fields /\ q.disk = p.disk
                            /\ q.collector = p.collector
               /\ n > 0 => data \in Seq(Symbols)
                           /\ q.fields = f.fields /\ q.disk = f.disk
                           /\ q.collector = Skip(p.collector, n)
               /\ q.status = IF at > 0 THEN "LookingForStartingBoundary" ELSE p.status
               /\ q.threw = FALSE /\ q.current = p.current
               /\ at > 0 => Left(q) < Left(p)
               /\ FormOK(q) /\ DiskStep(p, q)
<1> DEFINE q  == ProcessContent(p)
           at == Position(Boundary, p.collector)
           n  == DataLengthToSend(p.collector)
           data == SubSeq(p.collector, 1, n)
           f  == FieldAccepts(p, data)
           r  == IF n > 0 THEN [f EXCEPT !.collector = Skip(p.collector, n)] ELSE p
<1>1. /\ p \in FormType /\ p.collector \in Seq(Symbols) /\ Len(p.collector) \in Nat
      /\ p.threw = FALSE /\ p.current \in DOMAIN p.fields
  BY LenProperties DEF FormOK, FormType
<1>2. at \in Nat /\ (at # 0 => at \in 1..(Len(p.collector) - Len(Boundary) + 1))
  BY <1>1, BoundaryIs, PositionFinds
<1>3. n \in Int /\ n <= Len(p.collector)
  BY <1>1, <1>2, BoundaryIs DEF DataLengthToSend
<1>4. /\ r \in FormType /\ FormOK(r) /\ DiskStep(p, r) /\ r.status = p.status
      /\ r.threw = FALSE /\ r.current = p.current
      /\ Len(r.collector) \in Nat /\ Len(r.collector) <= Len(p.collector)
      /\ n <= 0 => r = p
      /\ n > 0 => data \in Seq(Symbols) /\ r.fields = f.fields /\ r.disk = f.disk
                  /\ r.collector = Skip(p.collector, n)
  <2>1. CASE n <= 0
    <3>1. r = p
      BY <1>3, <2>1
    <3> QED BY <1>1, <1>3, <2>1, <3>1, DiskStepSame
  <2>2. CASE n > 0
    <3>1. data \in Seq(Symbols)
      <4>1. \A i \in 1..n : p.collector[i] \in Symbols
        BY <1>1, <1>3, <2>2, ElementOfSeq
      <4> QED BY <1>3, <4>1, SubSeqProperties
    <3> HIDE DEF data, n
    <3>2. /\ FormOK(f) /\ DiskStep(p, f) /\ f.status = p.status
          /\ f.current = p.current /\ f.threw = p.threw /\ DOMAIN f.fields = DOMAIN p.fields
      BY <1>1, <3>1, FieldAcceptsOK
    <3>3. /\ Skip(p.collector, n) \in Seq(Symbols)
          /\ Len(Skip(p.collector, n)) = Len(p.collector) - n
      <4>1. n \in 0..Len(p.collector)
        BY <1>1, <1>3, <2>2
      <4> QED BY <1>1, <4>1, SkipProps
    <3>4. r = [f EXCEPT !.collector = Skip(p.collector, n)]
      BY <2>2
    <3> HIDE DEF f, r
    <3>5. /\ r \in FormType /\ r.fields = f.fields /\ r.disk = f.disk
          /\ r.collector = Skip(p.collector, n) /\ r.status = f.status
          /\ r.current = f.current /\ r.threw = f.threw
      BY <3>2, <3>3, <3>4 DEF FormOK, FormType
    <3>6. FormOK(r) /\ DiskStep(p, r)
      BY <3>2, <3>5 DEF FormOK, OwnsItsFiles, DiskStep
    <3> QED BY <1>1, <1>3, <2>2, <3>1, <3>2, <3>3, <3>5, <3>6
  <2>3. n <= 0 \/ n > 0
    BY <1>3
  <2> QED BY <2>1, <2>2, <2>3, Zenon
<1>5. q = IF at > 0 THEN [r EXCEPT !.status = "LookingForStartingBoundary"] ELSE r
  <2>1. r = IF n > 0 THEN [f EXCEPT !.collector = Skip(@, n)] ELSE p
    <3>1. CASE n > 0
      <4>1. f.collector = p.collector
        <5> HIDE DEF data
        <5> QED BY <1>1, <1>4, <3>1, FieldAcceptsOK
      <4> QED BY <4>1
    <3>2. CASE ~(n > 0)
      BY <3>2
    <3> QED BY <3>1, <3>2
  <2> QED BY <2>1 DEF ProcessContent
<1> HIDE DEF q, r, at, n, f, data
<1>6. CASE at > 0
  <2>1. /\ q \in FormType /\ q.status = "LookingForStartingBoundary"
        /\ q.threw = r.threw /\ q.fields = r.fields /\ q.disk = r.disk
        /\ q.current = r.current /\ q.collector = r.collector
    BY <1>4, <1>5, <1>6 DEF FormType, Statuses
  <2>2. FormOK(q) /\ DiskStep(p, q)
    BY <1>4, <2>1 DEF FormOK, OwnsItsFiles, DiskStep
  <2>3. Left(q) < Left(p)
    BY <1>1, <1>4, <2>1 DEF Left
  <2>4. q.status = IF at > 0 THEN "LookingForStartingBoundary" ELSE p.status
    BY <1>6, <2>1
  <2> QED BY <1>3, <1>4, <2>1, <2>2, <2>3, <2>4 DEF q, at, n, f, data
<1>7. CASE at = 0
  <2>1. q = r /\ q.status = IF at > 0 THEN "LookingForStartingBoundary" ELSE p.status
    BY <1>4, <1>5, <1>7
  <2> QED BY <1>3, <1>4, <1>7, <2>1 DEF q, at, n, f, data
<1>8. at > 0 \/ at = 0
  BY <1>2
<1> QED BY <1>6, <1>7, <1>8, Zenon

(* A step keeps the parser in order; one that leads to another status gets
   it on. *)
LEMMA ProcessStepOK ==
    ASSUME NEW p, FormOK(p), ~p.threw
    PROVE  LET q == ProcessStep(p)
           IN  /\ FormOK(q) /\ DiskStep(p, q)
               /\ ~q.threw /\ q.status # p.status => Left(q) < Left(p)
<1>1. p.status \in Statuses
  BY DEF FormOK, FormType
<1>2. CASE p.status = "LookingForStartingBoundary"
  <2>1. ProcessStep(p) = LookForBoundary(p)
    BY <1>2 DEF ProcessStep
  <2>2. DiskStep(p, LookForBoundary(p))
    BY <1>2, LookForBoundaryOK, DiskStepSame
  <2> QED BY <1>2, <2>1, <2>2, LookForBoundaryOK
<1>3. CASE p.status = "ProcessingHeaders"
  <2>1. ProcessStep(p) = WaitForHeadersEnd(p)
    BY <1>3 DEF ProcessStep
  <2> QED BY <1>3, <2>1, WaitForHeadersEndOK
<1>4. CASE p.status = "ProcessingContentOfTheField"
  <2>1. ProcessStep(p) = ProcessContent(p)
    BY <1>4 DEF ProcessStep
  <2>2. Position(Boundary, p.collector) \in Nat
    BY BoundaryIs, PositionFinds DEF FormOK, FormType
  <2> QED BY <1>4, <2>1, <2>2, ProcessContentOK
<1> QED BY <1>1, <1>2, <1>3, <1>4 DEF Statuses

(* What is left to do is a natural number, less than EnoughRounds. *)
LEMMA LeftIs ==
    ASSUME NEW p, FormOK(p)
    PROVE  /\ Len(p.collector) \in Nat /\ Left(p) \in Nat
           /\ Left(p) <= Len(p.collector) + 1
<1>1. p.collector \in Seq(Symbols)
  BY DEF FormOK, FormType
<1>2. Len(p.collector) \in Nat
  BY <1>1, LenProperties
<1>3. Left(p) = Len(p.collector) + 1 \/ Left(p) = Len(p.collector) + 0
  BY DEF Left
<1> QED BY <1>2, <1>3

(* The rounds of the loop: the parser stays in order, and there is less left
   after each that goes on. *)
LEMMA RoundsOK ==
    ASSUME NEW p, FormOK(p), ~p.threw
    PROVE  \A i \in 0..EnoughRounds(p) :
               LET s == Rounds(p)[i]
               IN  /\ s = [ form |-> s.form, stopped |-> s.stopped ]
                   /\ s.stopped \in BOOLEAN
                   /\ FormOK(s.form) /\ DiskStep(p, s.form)
                   /\ ~s.stopped => ~s.form.threw /\ Left(s.form) + i <= Left(p)
<1> DEFINE s(i) == Rounds(p)[i]
           Good(i) == /\ s(i) = [ form |-> s(i).form, stopped |-> s(i).stopped ]
                      /\ s(i).stopped \in BOOLEAN
                      /\ FormOK(s(i).form) /\ DiskStep(p, s(i).form)
                      /\ ~s(i).stopped => ~s(i).form.threw /\ Left(s(i).form) + i <= Left(p)
           P == { i \in Nat : i \in 0..EnoughRounds(p) => Good(i) }
<1>1. p \in FormType /\ Len(p.collector) \in Nat /\ Left(p) \in Nat
  BY LeftIs DEF FormOK, FormType
<1>2. /\ EnoughRounds(p) \in Nat /\ s(0) = [ form |-> p, stopped |-> FALSE ]
      /\ \A i \in 1..EnoughRounds(p) : s(i) = Round(s(i - 1))
  BY <1>1, RoundsDef
<1> HIDE DEF s
<1>3. Good(0)
  <2>1. s(0).form = p /\ s(0).stopped = FALSE
    BY <1>2
  <2>2. DiskStep(p, p)
    BY DiskStepSame
  <2>3. Left(s(0).form) + 0 <= Left(p)
    BY <1>1, <2>1
  <2>4. s(0) = [ form |-> s(0).form, stopped |-> s(0).stopped ]
    BY <1>2, <2>1
  <2> QED BY <2>1, <2>2, <2>3, <2>4
<1>4. ASSUME NEW i \in Nat, i + 1 \in 0..EnoughRounds(p), Good(i)
      PROVE  Good(i + 1)
  <2> DEFINE q == ProcessStep(s(i).form)
  <2>1. s(i + 1) = Round(s(i))
    BY <1>2, <1>4
  <2>2. CASE s(i).stopped
    BY <1>4, <2>1, <2>2 DEF Round
  <2>3. CASE ~s(i).stopped
    <3>1. s(i + 1) = [ form |-> q, stopped |-> q.threw \/ q.status = s(i).form.status ]
      BY <2>1, <2>3 DEF Round
    <3>2. /\ FormOK(q) /\ DiskStep(s(i).form, q)
          /\ ~q.threw /\ q.status # s(i).form.status => Left(q) < Left(s(i).form)
      BY <1>4, <2>3, ProcessStepOK
    <3>3. DiskStep(p, q)
      BY <1>4, <3>2, DiskStepTransitive
    <3>4. q.threw \in BOOLEAN /\ Left(q) \in Nat /\ Left(s(i).form) \in Nat
      BY <1>4, <3>2, LeftIs DEF FormOK, FormType
    <3>5. s(i + 1).form = q /\ s(i + 1).stopped = (q.threw \/ q.status = s(i).form.status)
      BY <3>1
    <3>6. Left(s(i).form) + i <= Left(p)
      BY <1>4, <2>3
    <3>7. ~s(i + 1).stopped => ~q.threw /\ Left(q) + (i + 1) <= Left(p)
      <4>1. SUFFICES ASSUME ~q.threw, q.status # s(i).form.status
                     PROVE  Left(q) + (i + 1) <= Left(p)
        BY <3>5
      <4>2. Left(q) < Left(s(i).form)
        BY <3>2, <4>1
      <4> HIDE DEF q
      <4> QED BY <1>1, <3>4, <3>6, <4>2
    <3> HIDE DEF q
    <3>8. s(i + 1).stopped \in BOOLEAN
      BY <3>4, <3>5
    <3>9. s(i + 1) = [ form |-> s(i + 1).form, stopped |-> s(i + 1).stopped ]
      BY <3>1, <3>5
    <3> QED BY <3>2, <3>3, <3>5, <3>7, <3>8, <3>9
  <2> QED BY <2>2, <2>3
<1>5. \A i \in Nat : i \in P
  <2>1. 0 \in P
    BY <1>3
  <2>2. \A i \in Nat : i \in P => i + 1 \in P
    <3> TAKE i \in Nat
    <3>1. SUFFICES ASSUME i + 1 \in 0..EnoughRounds(p), i \in P
                   PROVE  Good(i + 1)
      OBVIOUS
    <3>2. Good(i)
      <4>1. i \in 0..EnoughRounds(p)
        BY <1>2, <3>1
      <4> HIDE DEF Good
      <4> QED BY <3>1, <4>1
    <3> QED BY <1>4, <3>1, <3>2
  <2> HIDE DEF P
  <2> QED BY <2>1, <2>2, NatInd
<1>6. \A i \in 0..EnoughRounds(p) : Good(i)
  <2> HIDE DEF Good
  <2> QED BY <1>2, <1>5
<1> QED BY <1>6 DEF s

(* The loop comes to its end. *)
LEMMA LoopEnds ==
    ASSUME NEW p, FormOK(p), ~p.threw
    PROVE  Rounds(p)[EnoughRounds(p)].stopped
<1> DEFINE s == Rounds(p)[EnoughRounds(p)]
<1>1. p \in FormType /\ Len(p.collector) \in Nat /\ EnoughRounds(p) = Len(p.collector) + 2
  BY LenProperties DEF FormOK, FormType, EnoughRounds
<1>2. EnoughRounds(p) \in 0..EnoughRounds(p)
  BY <1>1
<1>3. /\ s.stopped \in BOOLEAN /\ FormOK(s.form)
      /\ ~s.stopped => Left(s.form) + EnoughRounds(p) <= Left(p)
  BY <1>2, RoundsOK
<1>4. Left(s.form) \in Nat /\ Left(p) \in Nat /\ Left(p) <= Len(p.collector) + 1
  BY <1>3, LeftIs
<1> HIDE DEF s
<1>5. EnoughRounds(p) > Left(p)
  BY <1>1, <1>4
<1>6. ~(Left(s.form) + EnoughRounds(p) <= Left(p))
  BY <1>1, <1>4, <1>5
<1>7. s.stopped
  BY <1>3, <1>6
<1> QED BY <1>7 DEF s

(* A parser that got more data is in order. *)
LEMMA Collects ==
    ASSUME NEW p, FormOK(p), NEW data \in Seq(Symbols)
    PROVE  LET q == [p EXCEPT !.collector = @ \o data]
           IN  /\ FormOK(q) /\ DiskStep(p, q)
               /\ q.collector = p.collector \o data /\ q.threw = p.threw
               /\ q.status = p.status /\ q.fields = p.fields
               /\ q.disk = p.disk /\ q.current = p.current
<1> DEFINE new == p.collector \o data
           q   == [p EXCEPT !.collector = new]
<1>1. p \in FormType /\ new \in Seq(Symbols)
  BY ConcatProperties DEF FormOK, FormType
<1> HIDE DEF new
<1>2. /\ q \in FormType /\ q.collector = new /\ q.threw = p.threw
      /\ q.status = p.status /\ q.fields = p.fields
      /\ q.disk = p.disk /\ q.current = p.current
  BY <1>1 DEF FormType
<1> HIDE DEF q
<1>3. FormOK(q)
  BY <1>2 DEF FormOK, OwnsItsFiles
<1>4. DiskStep(p, q)
  BY <1>2, DiskStepSame
<1> QED BY <1>2, <1>3, <1>4 DEF q, new

(* Any piece of data keeps the form's parser in order, and touches no file
   that is not its own. *)
LEMMA AcceptSomeDataOK ==
    ASSUME NEW p, FormOK(p), ~p.threw, NEW data \in Seq(Symbols)
    PROVE  LET q == AcceptSomeData(p, data)
           IN  FormOK(q) /\ DiskStep(p, q)
<1> DEFINE c == [p EXCEPT !.collector = @ \o data]
<1>1. FormOK(c) /\ DiskStep(p, c) /\ ~c.threw
  BY Collects
<1>2. EnoughRounds(c) \in 0..EnoughRounds(c)
  BY <1>1, LenProperties DEF FormOK, FormType, EnoughRounds
<1>3. FormOK(Rounds(c)[EnoughRounds(c)].form) /\ DiskStep(c, Rounds(c)[EnoughRounds(c)].form)
  <2> HIDE DEF c
  <2> QED BY <1>1, <1>2, RoundsOK
<1>4. AcceptSomeData(p, data) = Rounds(c)[EnoughRounds(c)].form
  BY DEF AcceptSomeData, ProcessData
<1> QED BY <1>1, <1>3, <1>4, DiskStepTransitive

-----------------------------------------------------------------------------
(* The parser of a request *)

(* What a request's parser is made of. *)
States == { "method_start", "http_version_minor", "expecting_newline_1",
            "header_line_start", "header_value", "expecting_newline_2",
            "expecting_newline_3", "select_content_parser", "content",
            "content_multipart_formdata" }

ParserType ==
    [ state : States, headers : SUBSET HeaderNames, contentLength : Nat,
      content : Seq(Symbols), consumed : Nat, form : FormType,
      result : { "more", "true", "false", "threw" } ]

(* The parser a request starts with is in order. *)
LEMMA NewFormOK == FormOK(NewParser) /\ OpenTemps(NewParser.fields) = {} /\ ~NewParser.threw
<1>1. << >> \in Seq(Symbols)
  BY EmptySeq
<1>2. /\ NewParser \in FormType /\ DOMAIN NewParser.fields = {}
      /\ NewParser.status = "LookingForStartingBoundary" /\ ~NewParser.threw
  BY <1>1, NothingYet DEF NewParser, FormType, Statuses
<1>3. OpenTemps(NewParser.fields) = {}
  BY <1>2 DEF OpenTemps
<1> QED BY <1>2, <1>3 DEF FormOK, OwnsItsFiles

(* What the constants say of a request. *)
LEMMA RequestIs ==
    ASSUME NEW n \in DOMAIN Requests
    PROVE  IsRequest(Requests[n])
BY RequestsAssumption

(* The walk over a piece satisfies the equation that defines it. *)
LEMMA CharactersDef ==
    ASSUME NEW r, NEW h, NEW piece \in Seq(Symbols)
    PROVE  /\ Len(piece) \in Nat
           /\ Characters(r, h, piece)[0] = [ parser |-> h, at |-> 0 ]
           /\ \A i \in 1..Len(piece) :
                  Characters(r, h, piece)[i] =
                      Character(r, piece, Characters(r, h, piece)[i - 1])
<1> DEFINE s0 == [ parser |-> h, at |-> 0 ]
           Is(g, n) == g = [ i \in 0..n |-> IF i = 0 THEN s0
                                            ELSE Character(r, piece, g[i - 1]) ]
           P == { n \in Nat : \E g : Is(g, n) }
<1>0. Len(piece) \in Nat
  BY LenProperties
<1> HIDE DEF s0
<1>1. 0 \in P
  <2>1. Is([ i \in 0..0 |-> s0 ], 0)
    OBVIOUS
  <2> QED BY <2>1
<1>2. ASSUME NEW n \in Nat, n \in P
      PROVE  n + 1 \in P
  <2>1. PICK g : Is(g, n)
    BY <1>2
  <2> DEFINE f == [ i \in 0..(n + 1) |-> IF i = n + 1 THEN Character(r, piece, g[n])
                                         ELSE g[i] ]
  <2>2. \A i \in 0..(n + 1) : f[i] = IF i = 0 THEN s0 ELSE Character(r, piece, f[i - 1])
    BY <2>1
  <2>3. Is(f, n + 1)
    BY <2>2
  <2>4. \E e : Is(e, n + 1)
    <3> HIDE DEF f, Is
    <3> QED BY <2>3
  <2> QED BY <2>4
<1>3. Len(piece) \in P
  <2> HIDE DEF P
  <2> QED BY <1>0, <1>1, <1>2, NatInd
<1>4. Is(Characters(r, h, piece), Len(piece))
  <2>1. \E g : Is(g, Len(piece))
    BY <1>3
  <2>2. Characters(r, h, piece) = CHOOSE g : Is(g, Len(piece))
    BY DEF Characters, s0
  <2> HIDE DEF Is
  <2> QED BY <2>1, <2>2
<1>5. \A i \in 0..Len(piece) :
          Characters(r, h, piece)[i] =
              IF i = 0 THEN s0 ELSE Character(r, piece, Characters(r, h, piece)[i - 1])
  BY <1>4
<1>6. /\ Characters(r, h, piece)[0] = s0
      /\ \A i \in 1..Len(piece) :
             Characters(r, h, piece)[i] =
                 Character(r, piece, Characters(r, h, piece)[i - 1])
  BY <1>0, <1>5
<1> QED BY <1>0, <1>6 DEF s0

-----------------------------------------------------------------------------
(* What is sent *)

(* The symbols of the head, and all that follows them. *)
HeadLen(r) == 3 * Len(r.headers) + 5

(* The symbols of the head of a request, each at its place. *)
LEMMA HeadIs ==
    ASSUME NEW r, IsRequest(r)
    PROVE  /\ Len(r.headers) \in Nat
           /\ HeadOf(r) \in Seq(Symbols) /\ Len(HeadOf(r)) = HeadLen(r)
           /\ HeadOf(r)[1] = r.line
           /\ \A l \in 1..Len(r.headers) : HeadOf(r)[3 * l + 1] = r.headers[l]
           /\ \A l \in 0..(Len(r.headers) + 1) : HeadOf(r)[3 * l + 2] = IF l = Len(r.headers) + 1 THEN "lf" ELSE "cr"
           /\ \A l \in 0..Len(r.headers) : HeadOf(r)[3 * l + 3] = "lf"
           /\ HeadOf(r)[3 * Len(r.headers) + 4] = "cr"
           /\ HeadOf(r)[3 * Len(r.headers) + 5] = "lf"
<1> DEFINE H == Len(r.headers)
           lines == << r.line >> \o r.headers
           n == 3 * Len(lines)
           head == [ i \in 1..(n + 2) |->
                       IF i % 3 = 1 /\ i <= n THEN lines[(i + 2) \div 3]
                       ELSE IF i = n + 1 \/ (i <= n /\ i % 3 = 2) THEN "cr"
                       ELSE "lf" ]
<1>1. r.headers \in Seq(Symbols) /\ r.line \in Symbols /\ H \in Nat
  BY RequestsAssumption, SeqMonotonic, LenProperties, Zenon DEF IsRequest
<1>2. << r.line >> \in Seq(Symbols) /\ Len(<< r.line >>) = 1 /\ << r.line >>[1] = r.line
  BY <1>1
<1>3. /\ lines \in Seq(Symbols) /\ Len(lines) = H + 1
      /\ lines[1] = r.line /\ \A l \in 1..H : lines[l + 1] = r.headers[l]
  <2>1. /\ lines \in Seq(Symbols) /\ Len(lines) = 1 + H
        /\ \A i \in 1..(1 + H) : lines[i] = IF i <= 1 THEN << r.line >>[i]
                                          ELSE r.headers[i - 1]
    BY <1>1, <1>2, ConcatProperties
  <2> HIDE DEF lines
  <2> QED BY <1>1, <1>2, <2>1
<1>4. HeadOf(r) = head
  BY DEF HeadOf
<1> HIDE DEF lines
<1>5. n = 3 * H + 3 /\ HeadLen(r) = n + 2
  BY <1>1, <1>3 DEF HeadLen
<1> HIDE DEF n
<1>6. \A i \in 1..(n + 2) : head[i] \in Symbols
  <2> TAKE i \in 1..(n + 2)
  <2>1. i % 3 = 1 /\ i <= n => (i + 2) \div 3 \in 1..Len(lines)
    BY <1>1, <1>3, <1>5
  <2>2. i % 3 = 1 /\ i <= n => lines[(i + 2) \div 3] \in Symbols
    BY <1>3, <2>1, ElementOfSeq
  <2> QED BY <2>2, FormAssumption
<1>7. head \in Seq(Symbols) /\ Len(head) = n + 2
  <2>1. head \in [1..(n + 2) -> Symbols]
    BY <1>6
  <2>2. n + 2 \in Nat
    BY <1>1, <1>5
  <2> HIDE DEF head
  <2> QED BY <2>1, <2>2, SeqDef
<1>8. head[1] = r.line
  BY <1>1, <1>3, <1>5
<1>9. \A l \in 1..H : head[3 * l + 1] = r.headers[l]
  BY <1>1, <1>3, <1>5
<1>10. \A l \in 0..(H + 1) : head[3 * l + 2] = IF l = H + 1 THEN "lf" ELSE "cr"
  BY <1>1, <1>3, <1>5, SMTT(30)
<1>11. \A l \in 0..H : head[3 * l + 3] = "lf"
  BY <1>1, <1>3, <1>5
<1>12. head[3 * H + 4] = "cr" /\ head[3 * H + 5] = "lf"
  BY <1>1, <1>3, <1>5
<1> QED BY <1>1, <1>4, <1>5, <1>7, <1>8, <1>9, <1>10, <1>11, <1>12

Body(r) == r.content \o r.extra

(* What is sent: the head, then the content and what follows it. *)
LEMMA SentIs ==
    ASSUME NEW n \in DOMAIN Requests
    PROVE  LET r == Requests[n]
           IN  /\ Body(r) \in Seq(Symbols)
               /\ Len(r.content) \in Nat /\ Len(r.extra) \in Nat
               /\ Len(Body(r)) = Len(r.content) + Len(r.extra)
               /\ HeadLen(r) \in Nat /\ Len(r.headers) \in Nat
               /\ Sent[n] \in Seq(Symbols)
               /\ Len(Sent[n]) = HeadLen(r) + Len(Body(r))
               /\ \A i \in 1..HeadLen(r) : Sent[n][i] = HeadOf(r)[i]
               /\ \A i \in 1..Len(Body(r)) : Sent[n][HeadLen(r) + i] = Body(r)[i]
<1> DEFINE r == Requests[n]
<1>1. IsRequest(r)
  BY RequestIs
<1> HIDE DEF r
<1>2. r.content \in Seq(Symbols) /\ r.extra \in Seq(Symbols)
  BY <1>1, Zenon DEF IsRequest
<1>3. /\ Body(r) \in Seq(Symbols) /\ Len(r.content) \in Nat /\ Len(r.extra) \in Nat
      /\ Len(Body(r)) = Len(r.content) + Len(r.extra)
  BY <1>2, ConcatProperties, LenProperties DEF Body
<1>4. HeadOf(r) \in Seq(Symbols) /\ Len(HeadOf(r)) = HeadLen(r) /\ Len(r.headers) \in Nat
  BY <1>1, HeadIs
<1>5. HeadLen(r) \in Nat
  BY <1>4 DEF HeadLen
<1>6. Sent[n] = HeadOf(r) \o Body(r)
  BY DEF Sent, Body, r
<1>7. /\ Sent[n] \in Seq(Symbols)
      /\ Len(Sent[n]) = HeadLen(r) + Len(Body(r))
      /\ \A i \in 1..(HeadLen(r) + Len(Body(r))) :
             Sent[n][i] = IF i <= HeadLen(r) THEN HeadOf(r)[i] ELSE Body(r)[i - HeadLen(r)]
  <2>1. /\ HeadOf(r) \o Body(r) \in Seq(Symbols)
        /\ Len(HeadOf(r) \o Body(r)) = Len(HeadOf(r)) + Len(Body(r))
        /\ \A i \in 1..(Len(HeadOf(r)) + Len(Body(r))) :
               (HeadOf(r) \o Body(r))[i] = IF i <= Len(HeadOf(r)) THEN HeadOf(r)[i]
                                           ELSE Body(r)[i - Len(HeadOf(r))]
    BY <1>3, <1>4, ConcatProperties, ZenonT(60)
  <2> QED BY <1>4, <1>6, <2>1
<1> HIDE DEF r
<1>10. Len(Body(r)) \in Nat
  BY <1>3, LenProperties
<1>8. \A i \in 1..HeadLen(r) : Sent[n][i] = HeadOf(r)[i]
  <2> TAKE i \in 1..HeadLen(r)
  <2>1. i \in 1..(HeadLen(r) + Len(Body(r))) /\ i <= HeadLen(r)
    BY <1>5, <1>10
  <2> QED BY <1>7, <2>1
<1>9. \A i \in 1..Len(Body(r)) : Sent[n][HeadLen(r) + i] = Body(r)[i]
  <2> TAKE i \in 1..Len(Body(r))
  <2>1. /\ HeadLen(r) + i \in 1..(HeadLen(r) + Len(Body(r)))
        /\ ~(HeadLen(r) + i <= HeadLen(r)) /\ HeadLen(r) + i - HeadLen(r) = i
    BY <1>5, <1>10
  <2> DEFINE j == HeadLen(r) + i
  <2>2. j \in 1..(HeadLen(r) + Len(Body(r))) /\ ~(j <= HeadLen(r)) /\ j - HeadLen(r) = i
    BY <1>5, <1>10
  <2> HIDE DEF j
  <2>3. Sent[n][j] = Body(r)[j - HeadLen(r)]
    BY <1>7, <2>2
  <2>4. Sent[n][j] = Body(r)[i]
    BY <2>2, <2>3
  <2> QED BY <2>4 DEF j
<1> QED BY <1>3, <1>4, <1>5, <1>7, <1>8, <1>9 DEF r

-----------------------------------------------------------------------------
(* Where the request's parser is after N symbols *)

(* The state of the parser in the head, and the headers it knows by then. *)
HeadState(r, N) ==
    IF N = 0 THEN "method_start"
    ELSE IF N = 1 THEN "http_version_minor"
    ELSE IF N = 2 THEN "expecting_newline_1"
    ELSE IF N % 3 = 0 THEN "header_line_start"
    ELSE IF N = 3 * Len(r.headers) + 4 THEN "expecting_newline_3"
    ELSE IF N % 3 = 1 THEN "header_value"
    ELSE "expecting_newline_2"

HeadersBy(r, N) ==
    { r.headers[l] : l \in { i \in 1..Len(r.headers) : 3 * i + 1 <= N } }

(* It has not decided. *)
ReadAt(r, N, h) ==
    /\ h \in ParserType /\ h.result = "more"
    /\ FormOK(h.form) /\ ~h.form.threw
    /\ N = 0 \/ r.line = "line"
    /\ h.headers = HeadersBy(r, N)
    /\ \/ /\ N < HeadLen(r) /\ h.state = HeadState(r, N)
          /\ h.contentLength = 0 /\ h.content = << >> /\ h.consumed = 0
       \/ /\ N >= HeadLen(r)
          /\ Announces(r) /\ r.length # BadLength /\ h.contentLength = r.length
          /\ \/ /\ N = HeadLen(r) /\ h.state = "select_content_parser"
                /\ h.content = << >> /\ h.consumed = 0
             \/ /\ r.type = "other" /\ h.state = "content"
                /\ Len(h.content) = N - HeadLen(r) /\ h.consumed = 0
                /\ Len(h.content) > 0 /\ Len(h.content) < r.length
             \/ /\ r.type = "form" /\ h.state = "content_multipart_formdata"
                /\ h.consumed = N - HeadLen(r) /\ h.content = << >>
                /\ h.consumed > 0 /\ h.consumed # r.length

(* It has. *)
Ended(r, N, h) ==
    /\ h \in ParserType /\ FormOK(h.form)
    /\ Len(h.content) <= h.contentLength /\ h.consumed <= N
    /\ \/ /\ h.result = "true" /\ r.line = "line" /\ N >= HeadLen(r)
          /\ \/ ~Announces(r)
             \/ /\ Announces(r) /\ r.length # BadLength /\ r.length > 0
                /\ \/ r.type = "other" /\ N >= HeadLen(r) + r.length
                   \/ /\ r.type = "form" /\ N = HeadLen(r) + r.length
                      /\ h.consumed = r.length /\ ~h.form.threw
       \/ /\ h.result = "false"
          /\ \/ r.line # "line"
             \/ Announces(r) /\ r.length = BadLength
             \/ /\ Announces(r) /\ r.length # BadLength
                /\ N > HeadLen(r) + r.length
       \/ /\ h.result = "threw" /\ Announces(r) /\ r.length # BadLength
          /\ r.type # "other"

(* The headers read by the N-th symbol: none at first, in the end all. *)
LEMMA HeadersByIs ==
    ASSUME NEW r, IsRequest(r), NEW N \in Nat
    PROVE  /\ HeadersBy(r, N) \subseteq Range(r.headers)
           /\ N >= 3 * Len(r.headers) + 1 => HeadersBy(r, N) = Range(r.headers)
           /\ HeadersBy(r, 0) = {}
           /\ \A l \in 1..Len(r.headers) :
                  N = 3 * l => HeadersBy(r, N + 1) = HeadersBy(r, N) \union { r.headers[l] }
           /\ (\A l \in 1..Len(r.headers) : N # 3 * l) => HeadersBy(r, N + 1) = HeadersBy(r, N)
<1>1. r.headers \in Seq(HeaderNames) /\ Len(r.headers) \in Nat
  BY LenProperties, Zenon DEF IsRequest
<1>2. Range(r.headers) = { r.headers[i] : i \in 1..Len(r.headers) }
  BY <1>1, RangeEquality
<1>3. \A l \in 1..Len(r.headers) : N = 3 * l => HeadersBy(r, N + 1) = HeadersBy(r, N) \union { r.headers[l] }
  <2> TAKE l \in 1..Len(r.headers)
  <2> HAVE N = 3 * l
  <2>1. { i \in 1..Len(r.headers) : 3 * i + 1 <= N + 1 } =
            { i \in 1..Len(r.headers) : 3 * i + 1 <= N } \union { l }
    BY <1>1
  <2> QED BY <2>1 DEF HeadersBy
<1>4. (\A l \in 1..Len(r.headers) : N # 3 * l) => HeadersBy(r, N + 1) = HeadersBy(r, N)
  <2> HAVE \A l \in 1..Len(r.headers) : N # 3 * l
  <2>1. { i \in 1..Len(r.headers) : 3 * i + 1 <= N + 1 } =
            { i \in 1..Len(r.headers) : 3 * i + 1 <= N }
    BY <1>1
  <2> QED BY <2>1 DEF HeadersBy
<1>5. N >= 3 * Len(r.headers) + 1 => HeadersBy(r, N) = Range(r.headers)
  <2> HAVE N >= 3 * Len(r.headers) + 1
  <2>1. { i \in 1..Len(r.headers) : 3 * i + 1 <= N } = 1..Len(r.headers)
    BY <1>1
  <2> QED BY <1>2, <2>1 DEF HeadersBy
<1>6. HeadersBy(r, 0) = {}
  BY <1>1 DEF HeadersBy
<1>7. HeadersBy(r, N) \subseteq Range(r.headers)
  BY <1>2 DEF HeadersBy
<1> QED BY <1>3, <1>4, <1>5, <1>6, <1>7

(* From a state of the head a symbol leads to one other. *)
LEMMA HeadStepsDetermine ==
    \A s, t \in HeadSteps : s[1] = t[1] /\ s[2] = t[2] => s[3] = t[3]
BY DEF HeadSteps, HeaderNames

(* A symbol of the head that is as it should be leads to the next state. *)
LEMMA HeadGoesOn ==
    ASSUME NEW r, IsRequest(r), r.line = "line",
           NEW N \in Nat, N + 1 < HeadLen(r)
    PROVE  LET x == HeadOf(r)[N + 1]
           IN  /\ << HeadState(r, N), x, HeadState(r, N + 1) >> \in HeadSteps
               /\ HeadersBy(r, N + 1) = HeadersBy(r, N) \union ({ x } \intersect HeaderNames)
               /\ HeadState(r, N + 1) \in States
<1> DEFINE x == HeadOf(r)[N + 1]
           H == Len(r.headers)
<1>1. r.headers \in Seq(HeaderNames) /\ H \in Nat /\ HeadLen(r) = 3 * H + 5
  BY LenProperties, Zenon DEF IsRequest, HeadLen
<1>2. \A l \in 1..H : r.headers[l] \in HeaderNames
  BY <1>1, ElementOfSeq
<1>3. CASE N = 0
  <2>1. x = "line" /\ HeadState(r, N) = "method_start" /\ HeadState(r, N + 1) = "http_version_minor"
    BY <1>3, HeadIs DEF HeadState
  <2>2. \A l \in 1..H : N # 3 * l
    BY <1>1, <1>3
  <2>3. HeadersBy(r, N + 1) = HeadersBy(r, N)
    BY <2>2, HeadersByIs
  <2> QED BY <2>1, <2>3 DEF HeadSteps, HeaderNames, States
<1>4. CASE N = 1 \/ N = 2
  <2>1. x = HeadOf(r)[3 * 0 + 2] \/ x = HeadOf(r)[3 * 0 + 3]
    BY <1>4
  <2>2. /\ N = 1 => x = "cr" /\ HeadState(r, N) = "http_version_minor" /\ HeadState(r, N + 1) = "expecting_newline_1"
        /\ N = 2 => x = "lf" /\ HeadState(r, N) = "expecting_newline_1" /\ HeadState(r, N + 1) = "header_line_start"
    <3>1. HeadOf(r)[3 * 0 + 2] = "cr" /\ HeadOf(r)[3 * 0 + 3] = "lf"
      <4>1. 0 \in 0..H /\ 0 \in 0..(H + 1) /\ 0 # H + 1
        BY <1>1
      <4> QED BY <4>1, HeadIs
    <3> QED BY <1>4, <3>1 DEF HeadState
  <2>3. \A l \in 1..H : N # 3 * l
    BY <1>1, <1>4
  <2>4. HeadersBy(r, N + 1) = HeadersBy(r, N)
    BY <2>3, HeadersByIs
  <2> QED BY <1>4, <2>2, <2>4 DEF HeadSteps, HeaderNames, States
<1>5. ASSUME NEW l \in 1..H, N = 3 * l
      PROVE  /\ << HeadState(r, N), x, HeadState(r, N + 1) >> \in HeadSteps
             /\ HeadersBy(r, N + 1) = HeadersBy(r, N) \union ({ x } \intersect HeaderNames)
             /\ HeadState(r, N + 1) \in States
  <2>1. x = r.headers[l]
    BY <1>5, HeadIs
  <2>2. HeadState(r, N) = "header_line_start" /\ HeadState(r, N + 1) = "header_value"
    BY <1>1, <1>5 DEF HeadState
  <2>3. HeadersBy(r, N + 1) = HeadersBy(r, N) \union { r.headers[l] }
    BY <1>5, HeadersByIs
  <2> QED BY <1>2, <2>1, <2>2, <2>3 DEF HeadSteps, States
<1>6. ASSUME NEW l \in 1..H, N = 3 * l + 1 \/ N = 3 * l + 2
      PROVE  /\ << HeadState(r, N), x, HeadState(r, N + 1) >> \in HeadSteps
             /\ HeadersBy(r, N + 1) = HeadersBy(r, N) \union ({ x } \intersect HeaderNames)
             /\ HeadState(r, N + 1) \in States
  <2>1. HeadOf(r)[3 * l + 2] = "cr" /\ HeadOf(r)[3 * l + 3] = "lf"
    <3>1. l \in 0..H /\ l \in 0..(H + 1) /\ l # H + 1
      BY <1>1
    <3> QED BY <3>1, HeadIs
  <2>2. /\ N = 3 * l + 1 => x = "cr"
        /\ N = 3 * l + 2 => x = "lf"
    <3>1. N = 3 * l + 1 => N + 1 = 3 * l + 2
      BY <1>1
    <3>2. N = 3 * l + 2 => N + 1 = 3 * l + 3
      BY <1>1
    <3> QED BY <2>1, <3>1, <3>2
  <2>3. /\ N = 3 * l + 1 => HeadState(r, N) = "header_value" /\ HeadState(r, N + 1) = "expecting_newline_2"
        /\ N = 3 * l + 2 => HeadState(r, N) = "expecting_newline_2" /\ HeadState(r, N + 1) = "header_line_start"
    BY <1>1 DEF HeadState
  <2>4. \A k \in 1..H : N # 3 * k
    BY <1>1, <1>6
  <2>5. HeadersBy(r, N + 1) = HeadersBy(r, N)
    BY <2>4, HeadersByIs
  <2> QED BY <1>6, <2>2, <2>3, <2>5 DEF HeadSteps, HeaderNames, States
<1>7. CASE N = 3 * H + 3
  <2>1. x = "cr"
    <3>1. N + 1 = 3 * H + 4
      BY <1>1, <1>7
    <3> QED BY <3>1, HeadIs
  <2>2. HeadState(r, N) = "header_line_start" /\ HeadState(r, N + 1) = "expecting_newline_3"
    <3>1. /\ N # 0 /\ N # 1 /\ N # 2 /\ N % 3 = 0 /\ N + 1 = 3 * H + 4
          /\ N + 1 # 0 /\ N + 1 # 1 /\ N + 1 # 2 /\ (N + 1) % 3 # 0
      <4>1. \A k \in Nat : (3 * k + 3) % 3 = 0 /\ (3 * k + 4) % 3 # 0
        OBVIOUS
      <4>2. N + 1 = 3 * H + 4
        BY <1>1, <1>7
      <4>3. N % 3 = 0 /\ (N + 1) % 3 # 0
        BY <1>1, <1>7, <4>1, <4>2
      <4>4. N > 2 /\ N + 1 > 2
        BY <1>1, <1>7
      <4> HIDE DEF H
      <4> QED BY <4>2, <4>3, <4>4
    <3> QED BY <3>1 DEF HeadState
  <2>3. \A l \in 1..H : N # 3 * l
    BY <1>1, <1>7
  <2>4. HeadersBy(r, N + 1) = HeadersBy(r, N)
    BY <2>3, HeadersByIs
  <2> QED BY <2>1, <2>2, <2>4 DEF HeadSteps, HeaderNames, States
<1>8. \/ N = 0 \/ N = 1 \/ N = 2 \/ N = 3 * H + 3
      \/ \E l \in 1..H : N = 3 * l \/ N = 3 * l + 1 \/ N = 3 * l + 2
  <2>1. SUFFICES ASSUME N > 2, N < 3 * H + 3
                 PROVE  \E l \in 1..H : N = 3 * l \/ N = 3 * l + 1 \/ N = 3 * l + 2
    BY <1>1
  <2>2. N \div 3 \in 1..H
    BY <1>1, <2>1
  <2>3. N = 3 * (N \div 3) \/ N = 3 * (N \div 3) + 1 \/ N = 3 * (N \div 3) + 2
    BY <2>1
  <2> QED BY <2>2, <2>3
<1> QED BY <1>3, <1>4, <1>5, <1>6, <1>7, <1>8

(* What the parser of a request is made of when a symbol has come. *)
LEMMA CharacterStep ==
    ASSUME NEW n \in DOMAIN Requests, NEW N \in Nat, N < Len(Sent[n]),
           NEW r, r = Requests[n], NEW x, x = Sent[n][N + 1],
           NEW h, ReadAt(r, N, h), ~ToForm(r, h)
    PROVE  LET q == Consume(r, h, x)
           IN  /\ q.form = h.form
               /\ ReadAt(r, N + 1, q) \/ Ended(r, N + 1, q)
<1> DEFINE q == Consume(r, h, x)
           steps == { s \in HeadSteps : s[1] = h.state /\ s[2] = x }
           H == Len(r.headers)
<1>0. /\ IsRequest(r) /\ h \in ParserType /\ h.result = "more"
      /\ FormOK(h.form) /\ ~h.form.threw /\ h.headers = HeadersBy(r, N)
      /\ H \in Nat /\ HeadLen(r) = 3 * H + 5 /\ HeadLen(r) \in Nat
      /\ Len(<< >>) = 0
  BY RequestIs, SentIs, EmptySeq DEF ReadAt, HeadLen
<1>1. ASSUME NEW g, g \in ParserType, g.form = h.form, g.consumed = 0,
             Len(g.content) <= g.contentLength
      PROVE  /\ Refused(g) \in ParserType /\ Refused(g).form = h.form
             /\ Refused(g).result = "false" /\ FormOK(Refused(g).form)
             /\ Len(Refused(g).content) <= Refused(g).contentLength
             /\ Refused(g).consumed <= N + 1
  <2>1. /\ Refused(g) \in ParserType /\ Refused(g).form = h.form
        /\ Refused(g).result = "false" /\ Refused(g).content = g.content
        /\ Refused(g).contentLength = g.contentLength /\ Refused(g).consumed = 0
    BY <1>1 DEF Refused, ParserType
  <2> QED BY <1>0, <1>1, <2>1
<1>2. CASE N < HeadLen(r)
  <2>0. /\ h.state = HeadState(r, N) /\ h.contentLength = 0 /\ h.content = << >>
        /\ h.consumed = 0 /\ (N = 0 \/ r.line = "line") /\ x = HeadOf(r)[N + 1]
    <3>1. N + 1 \in 1..HeadLen(r)
      BY <1>0, <1>2
    <3>2. x = HeadOf(r)[N + 1]
      BY <3>1, SentIs
    <3>3. ~(N >= HeadLen(r))
      BY <1>0, <1>2
    <3> QED BY <3>2, <3>3 DEF ReadAt
  <2>1. CASE r.line # "line"
    <3>1. N = 0 /\ x = r.line /\ h.state = "method_start"
      BY <1>0, <2>0, <2>1, HeadIs DEF HeadState
    <3>2. steps = {}
      BY <2>1, <3>1 DEF HeadSteps, HeaderNames
    <3>3. q = Refused(h)
      BY <3>1, <3>2 DEF Consume
    <3>4. Len(h.content) <= h.contentLength
      BY <1>0, <2>0
    <3> HIDE DEF q
    <3>5. Ended(r, N + 1, q)
      BY <1>0, <1>1, <2>0, <2>1, <3>3, <3>4 DEF Ended
    <3> QED BY <1>0, <1>1, <2>0, <3>3, <3>4, <3>5 DEF q
  <2>2. CASE r.line = "line" /\ N + 1 < HeadLen(r)
    <3> DEFINE state == HeadState(r, N + 1)
               g == [h EXCEPT !.state = state, !.headers = HeadersBy(r, N + 1)]
    <3>1. /\ << HeadState(r, N), x, state >> \in HeadSteps
          /\ HeadersBy(r, N + 1) = HeadersBy(r, N) \union ({ x } \intersect HeaderNames)
          /\ state \in States
      BY <1>0, <2>0, <2>2, HeadGoesOn
    <3> HIDE DEF state
    <3>2. << h.state, x, state >> \in steps
      BY <2>0, <3>1
    <3>3. \A s \in steps : s[3] = state
      BY <3>2, HeadStepsDetermine
    <3>4. q = [h EXCEPT !.state = (CHOOSE s \in steps : TRUE)[3],
                        !.headers = @ \union ({ x } \intersect HeaderNames)]
      BY <3>2 DEF Consume
    <3>5. (CHOOSE s \in steps : TRUE)[3] = state
      BY <3>2, <3>3
    <3>6. q = g
      BY <1>0, <3>1, <3>4, <3>5 DEF ParserType
    <3>7. /\ g \in ParserType /\ g.form = h.form /\ g.consumed = 0 /\ g.content = << >>
          /\ g.contentLength = 0 /\ g.result = "more" /\ g.state = state
          /\ g.headers = HeadersBy(r, N + 1)
      BY <1>0, <2>0, <3>1 DEF ParserType
    <3> HIDE DEF g, q
    <3>8. ReadAt(r, N + 1, g)
      BY <1>0, <2>2, <3>7 DEF ReadAt, state
    <3> QED BY <3>6, <3>7, <3>8 DEF q
  <2>3. CASE r.line = "line" /\ N + 1 = HeadLen(r)
    <3>1. N = 3 * H + 4 /\ N >= 3 * H + 1 /\ N + 1 >= 3 * H + 1
      BY <1>0, <2>3
    <3>2. h.headers = Range(r.headers) /\ HeadersBy(r, N + 1) = Range(r.headers)
      BY <1>0, <3>1, HeadersByIs
    <3>3. x = "lf"
      <4>1. N + 1 = 3 * Len(r.headers) + 5
        BY <1>0, <3>1
      <4>2. HeadOf(r)[3 * Len(r.headers) + 5] = "lf"
        BY <1>0, HeadIs
      <4> QED BY <2>0, <4>1, <4>2
    <3>4. h.state = "expecting_newline_3"
      <4>1. \A k \in Nat : (3 * k + 4) % 3 # 0 /\ 3 * k + 4 > 2
        OBVIOUS
      <4>2. N % 3 # 0 /\ N > 2 /\ N = 3 * Len(r.headers) + 4
        BY <1>0, <3>1, <4>1
      <4>3. HeadState(r, N) = "expecting_newline_3"
        BY <4>2 DEF HeadState
      <4> QED BY <2>0, <4>3
    <3>5. steps = {}
      BY <3>4 DEF HeadSteps
    <3>6. q = HeadEnds(r, h)
      BY <3>3, <3>4, <3>5 DEF Consume
    <3>7. Announces(r) <=> "Content-Length" \in h.headers
      BY <3>2 DEF Announces
    <3>8. CASE ~Announces(r)
      <4> DEFINE g == [h EXCEPT !.result = "true"]
      <4>1. q = g
        BY <3>6, <3>7, <3>8 DEF HeadEnds
      <4>2. /\ g \in ParserType /\ g.form = h.form /\ g.consumed = 0 /\ g.content = << >>
            /\ g.contentLength = 0 /\ g.result = "true"
        BY <1>0, <2>0 DEF ParserType
      <4> HIDE DEF g, q
      <4>3. Ended(r, N + 1, g)
        BY <1>0, <2>3, <3>8, <4>2 DEF Ended
      <4> QED BY <4>1, <4>2, <4>3 DEF q
    <3>9. CASE Announces(r) /\ r.length = BadLength
      <4>1. q = Refused(h)
        BY <3>6, <3>7, <3>9 DEF HeadEnds
      <4>2. Len(h.content) <= h.contentLength
        BY <1>0, <2>0
      <4> HIDE DEF q
      <4>3. Ended(r, N + 1, q)
        BY <1>0, <1>1, <2>0, <3>9, <4>1, <4>2 DEF Ended
      <4> QED BY <1>0, <1>1, <2>0, <4>1, <4>2, <4>3 DEF q
    <3>10. CASE Announces(r) /\ r.length # BadLength
      <4> DEFINE g == [h EXCEPT !.contentLength = r.length, !.state = "select_content_parser"]
      <4>1. q = g
        BY <3>6, <3>7, <3>10 DEF HeadEnds
      <4>2. r.length \in Nat
        BY <1>0, <3>10, SentIs, Zenon DEF IsRequest
      <4>3. /\ g \in ParserType /\ g.form = h.form /\ g.consumed = 0 /\ g.content = << >>
            /\ g.contentLength = r.length /\ g.result = "more" /\ g.headers = h.headers
            /\ g.state = "select_content_parser"
        BY <1>0, <2>0, <4>2 DEF ParserType, States
      <4> HIDE DEF g, q
      <4>4. ReadAt(r, N + 1, g)
        BY <1>0, <2>3, <3>2, <3>10, <4>3 DEF ReadAt
      <4> QED BY <4>1, <4>3, <4>4 DEF q
    <3> QED BY <3>8, <3>9, <3>10
  <2> QED BY <1>0, <1>2, <2>1, <2>2, <2>3
<1>3. CASE N >= HeadLen(r)
  <2>0. /\ Announces(r) /\ r.length # BadLength /\ h.contentLength = r.length
        /\ r.length \in Nat /\ x \in Symbols /\ r.line = "line" /\ N > 0
        /\ h.consumed = 0 /\ Len(h.content) = N - HeadLen(r) /\ Len(h.content) \in Nat
        /\ Len(h.content) <= r.length
        /\ h.state \in { "select_content_parser", "content" }
        /\ r.type = "other"
        /\ h.headers = Range(r.headers) /\ HeadersBy(r, N + 1) = Range(r.headers)
    <3>1. h.headers = Range(r.headers) /\ HeadersBy(r, N + 1) = Range(r.headers)
      <4>1. N >= 3 * H + 1 /\ N + 1 >= 3 * H + 1
        BY <1>0, <1>3
      <4>2. HeadersBy(r, N) = Range(r.headers)
        BY <1>0, <4>1, HeadersByIs
      <4>3. HeadersBy(r, N + 1) = Range(r.headers)
        BY <1>0, <4>1, HeadersByIs
      <4> QED BY <1>0, <4>2, <4>3
    <3>2. h.state # "content_multipart_formdata" /\ ~StartsForm(r, h)
      BY DEF ToForm
    <3>3. Announces(r) /\ r.length # BadLength /\ h.contentLength = r.length
      BY <1>0, <1>3 DEF ReadAt
    <3>4. r.length \in Nat
      BY <1>0, <3>3, SentIs, Zenon DEF IsRequest
    <3>5. x \in Symbols
      <4>1. N + 1 \in 1..Len(Sent[n])
        BY SentIs, LenProperties
      <4> QED BY <4>1, SentIs, ElementOfSeq
    <3>6. N > 0 /\ r.line = "line"
      BY <1>0, <1>3 DEF ReadAt
    <3>7. CASE h.state = "select_content_parser"
      <4>1. r.type = "other"
        BY <1>0, <3>1, <3>2, <3>7, Zenon DEF StartsForm, IsRequest
      <4>2. N = HeadLen(r) /\ h.content = << >> /\ h.consumed = 0
        BY <1>0, <1>3, <3>7 DEF ReadAt
      <4> QED BY <1>0, <3>1, <3>3, <3>4, <3>5, <3>6, <3>7, <4>1, <4>2
    <3>8. CASE h.state = "content"
      <4>1. /\ r.type = "other" /\ Len(h.content) = N - HeadLen(r) /\ h.consumed = 0
            /\ Len(h.content) > 0 /\ Len(h.content) < r.length
        BY <1>0, <1>3, <3>8 DEF ReadAt
      <4> QED BY <1>0, <1>3, <3>1, <3>3, <3>4, <3>5, <3>6, <3>8, <4>1
    <3>9. h.state \in { "select_content_parser", "content" }
      <4>1. ~(N < HeadLen(r))
        BY <1>0, <1>3
      <4> QED BY <3>2, <4>1 DEF ReadAt
    <3> QED BY <3>7, <3>8, <3>9
  <2>1. steps = {} /\ h.state # "expecting_newline_3"
    BY <2>0 DEF HeadSteps
  <2>2. q = TakeContent(h, x)
    BY <2>0, <2>1 DEF Consume
  <2>3. CASE Len(h.content) < r.length
    <3> DEFINE new == Append(h.content, x)
               result == IF Len(h.content) + 1 = r.length THEN "true" ELSE "more"
               g == [h EXCEPT !.state = "content", !.content = new, !.result = result]
    <3>1. q = g
      BY <1>0, <2>0, <2>2, <2>3 DEF TakeContent, ParserType
    <3>2. new \in Seq(Symbols) /\ Len(new) = Len(h.content) + 1
      <4>1. h.content \in Seq(Symbols) /\ x \in Symbols
        BY <1>0, <2>0 DEF ParserType
      <4> QED BY <4>1, AppendProperties
    <3> HIDE DEF new
    <3>3. /\ g \in ParserType /\ g.form = h.form /\ g.consumed = 0 /\ g.content = new
          /\ g.contentLength = r.length /\ g.result = result /\ g.headers = h.headers
          /\ g.state = "content"
      BY <1>0, <2>0, <3>2 DEF ParserType, States
    <3> HIDE DEF g, q
    <3>5. Len(g.content) = Len(h.content) + 1
      BY <3>2, <3>3
    <3>6. (N + 1) - HeadLen(r) = Len(g.content) /\ N + 1 >= HeadLen(r) /\ Len(g.content) > 0
      <4>1. /\ Len(h.content) = N - HeadLen(r) /\ Len(h.content) \in Nat
            /\ HeadLen(r) \in Nat /\ N >= HeadLen(r)
        BY <1>0, <1>3, <2>0
      <4> QED BY <3>5, <4>1
    <3>4. ReadAt(r, N + 1, g) \/ Ended(r, N + 1, g)
      <4>1. CASE Len(h.content) + 1 = r.length
        <5>1. /\ Len(g.content) <= g.contentLength /\ g.consumed <= N + 1
              /\ g.result = "true" /\ N + 1 >= HeadLen(r) + r.length /\ N + 1 >= HeadLen(r)
              /\ r.length > 0
          <6>1. r.length = Len(g.content) /\ g.contentLength = r.length /\ g.consumed = 0
                /\ g.result = "true"
            BY <3>3, <3>5, <4>1
          <6>2. HeadLen(r) \in Nat /\ Len(g.content) \in Nat /\ r.length \in Nat
            BY <1>0, <2>0, <3>5
          <6> QED BY <3>6, <6>1, <6>2
        <5>2. g \in ParserType /\ FormOK(g.form)
          BY <1>0, <3>3
        <5>3. Ended(r, N + 1, g)
          BY <2>0, <5>1, <5>2 DEF Ended
        <5> QED BY <5>3
      <4>2. CASE Len(h.content) + 1 # r.length
        <5>1. /\ Len(g.content) = (N + 1) - HeadLen(r) /\ Len(g.content) > 0
              /\ Len(g.content) < r.length /\ N + 1 >= HeadLen(r) /\ g.result = "more"
          <6>1. g.result = "more"
            BY <3>3, <4>2
          <6>2. Len(g.content) < r.length
            BY <2>0, <2>3, <3>5, <4>2
          <6> QED BY <3>6, <6>1, <6>2
        <5>2. /\ g \in ParserType /\ FormOK(g.form) /\ ~g.form.threw
              /\ g.headers = HeadersBy(r, N + 1)
          BY <1>0, <2>0, <3>3
        <5>3. ReadAt(r, N + 1, g)
          <6>1. /\ Announces(r) /\ r.length # BadLength /\ g.contentLength = r.length
                /\ r.type = "other" /\ g.state = "content" /\ g.consumed = 0
                /\ r.line = "line"
            BY <2>0, <3>3
          <6>2. g \in ParserType /\ g.result = "more" /\ FormOK(g.form) /\ ~g.form.threw
            BY <5>1, <5>2
          <6>3. (N + 1 = 0 \/ r.line = "line") /\ g.headers = HeadersBy(r, N + 1)
            BY <5>2, <6>1
          <6>4. /\ N + 1 >= HeadLen(r) /\ Announces(r) /\ r.length # BadLength
                /\ g.contentLength = r.length
            BY <5>1, <6>1
          <6>5. /\ r.type = "other" /\ g.state = "content"
                /\ Len(g.content) = (N + 1) - HeadLen(r) /\ g.consumed = 0
                /\ Len(g.content) > 0 /\ Len(g.content) < r.length
            BY <5>1, <6>1
          <6> QED BY <6>2, <6>3, <6>4, <6>5 DEF ReadAt
        <5> QED BY <5>3
      <4> QED BY <4>1, <4>2
    <3> QED BY <3>1, <3>3, <3>4 DEF q
  <2>4. CASE ~(Len(h.content) < r.length)
    <3> DEFINE g == [h EXCEPT !.state = "content"]
    <3>1. q = Refused(g)
      BY <1>0, <2>0, <2>2, <2>4 DEF TakeContent, ParserType
    <3>2. /\ g \in ParserType /\ g.form = h.form /\ g.consumed = 0
          /\ g.content = h.content /\ g.contentLength = r.length
      BY <1>0, <2>0 DEF ParserType, States
    <3>3. N + 1 > HeadLen(r) + r.length
      BY <1>0, <1>3, <2>0, <2>4
    <3> HIDE DEF g, q
    <3>4. Ended(r, N + 1, q)
      BY <1>0, <1>1, <2>0, <3>1, <3>2, <3>3 DEF Ended
    <3> QED BY <1>0, <1>1, <2>0, <3>1, <3>2, <3>4 DEF q
  <2> QED BY <2>3, <2>4
<1> QED BY <1>0, <1>2, <1>3

(* What a symbol is refused or taken for: no exception is thrown. *)
LEMMA ConsumeThrowsNot ==
    ASSUME NEW r, NEW h \in ParserType, NEW x, h.result = "more"
    PROVE  Consume(r, h, x).result # "threw"
<1>1. \A g \in ParserType : Refused(g).result = "false"
  BY DEF Refused, ParserType
<1>2. HeadEnds(r, h).result # "threw"
  BY <1>1 DEF HeadEnds, ParserType
<1>3. TakeContent(h, x).result # "threw"
  <2>1. CASE Len(h.content) < h.contentLength
    BY <2>1 DEF TakeContent, ParserType
  <2>2. CASE ~(Len(h.content) < h.contentLength)
    <3>1. [h EXCEPT !.state = "content"] \in ParserType
      BY DEF ParserType, States
    <3> QED BY <1>1, <2>2, <3>1 DEF TakeContent
  <2> QED BY <2>1, <2>2
<1>4. \A s, hs : [h EXCEPT !.state = s, !.headers = hs].result = h.result
  BY DEF ParserType
<1> DEFINE steps == { s \in HeadSteps : s[1] = h.state /\ s[2] = x }
           s3 == (CHOOSE s \in steps : TRUE)[3]
           hs == h.headers \union ({ x } \intersect HeaderNames)
<1>5. Consume(r, h, x) = IF steps # {} THEN [h EXCEPT !.state = s3, !.headers = hs]
                         ELSE IF h.state = "expecting_newline_3" /\ x = "lf" THEN HeadEnds(r, h)
                         ELSE IF h.state \in { "select_content_parser", "content" }
                         THEN TakeContent(h, x)
                         ELSE Refused(h)
  BY DEF Consume, ParserType
<1> HIDE DEF s3, hs, steps
<1> QED BY <1>1, <1>2, <1>3, <1>4, <1>5

(* After the head, what is not for a form's parser is no form. *)
LEMMA NotToForm ==
    ASSUME NEW r, IsRequest(r), NEW N \in Nat, N >= HeadLen(r),
           NEW h, ReadAt(r, N, h), ~ToForm(r, h)
    PROVE  r.type = "other"
<1>1. Len(r.headers) \in Nat
  BY LenProperties, Zenon DEF IsRequest
<1>2. N >= 3 * Len(r.headers) + 1 /\ ~(N < HeadLen(r))
  BY <1>1 DEF HeadLen
<1>3. h.headers = Range(r.headers)
  BY <1>2, HeadersByIs DEF ReadAt
<1>4. h.state # "content_multipart_formdata" /\ ~StartsForm(r, h)
  BY DEF ToForm
<1>5. CASE h.state = "select_content_parser"
  BY <1>3, <1>4, <1>5, Zenon DEF StartsForm, IsRequest
<1>6. CASE h.state # "select_content_parser"
  BY <1>2, <1>4, <1>6 DEF ReadAt
<1> QED BY <1>5, <1>6

(* A request that is decided stays so, whatever follows. *)
LEMMA EndedStays ==
    ASSUME NEW r, IsRequest(r), NEW N \in Nat, NEW M \in Nat, N <= M,
           NEW h, Ended(r, N, h),
           h.result = "true" /\ Announces(r) => r.type = "other"
    PROVE  Ended(r, M, h)
<1>1. Len(r.headers) \in Nat /\ Len(r.content) \in Nat
  BY LenProperties, Zenon DEF IsRequest
<1>7. Announces(r) => r.length \in { BadLength, Len(r.content) }
  BY Zenon DEF IsRequest
<1>2. HeadLen(r) \in Nat /\ (Announces(r) /\ r.length # BadLength => r.length \in Nat)
  BY <1>1, <1>7 DEF HeadLen
<1>3. h \in ParserType /\ h.consumed \in Nat /\ h.consumed <= M
  BY DEF Ended, ParserType
<1>4. CASE h.result = "true"
  <2>1. ~Announces(r) \/ (Announces(r) /\ r.type = "other")
    BY <1>4
  <2>2. r.line = "line" /\ N >= HeadLen(r)
    BY <1>4 DEF Ended
  <2>3. M >= HeadLen(r)
    BY <1>2, <2>2
  <2>4. Announces(r) => r.length # BadLength /\ r.length > 0 /\ N >= HeadLen(r) + r.length
    BY <1>4, <2>1 DEF Ended
  <2>5. Announces(r) => M >= HeadLen(r) + r.length
    BY <1>2, <2>4
  <2> QED BY <1>3, <1>4, <2>1, <2>2, <2>3, <2>4, <2>5 DEF Ended
<1>5. CASE h.result = "false"
  <2>1. \/ r.line # "line"
        \/ Announces(r) /\ r.length = BadLength
        \/ Announces(r) /\ r.length # BadLength /\ N > HeadLen(r) + r.length
    BY <1>5 DEF Ended
  <2>2. \/ r.line # "line"
        \/ Announces(r) /\ r.length = BadLength
        \/ Announces(r) /\ r.length # BadLength /\ M > HeadLen(r) + r.length
    BY <1>2, <2>1
  <2> QED BY <1>3, <1>5, <2>2 DEF Ended
<1>6. CASE h.result = "threw"
  BY <1>3, <1>6 DEF Ended
<1> QED BY <1>4, <1>5, <1>6 DEF Ended

(* A piece of a sequence. *)
LEMMA PieceIs ==
    ASSUME NEW S, NEW data \in Seq(S), NEW N \in Nat, NEW len \in Nat,
           N + len <= Len(data)
    PROVE  /\ SubSeq(data, N + 1, N + len) \in Seq(S)
           /\ Len(SubSeq(data, N + 1, N + len)) = len
           /\ \A i \in 1..len : SubSeq(data, N + 1, N + len)[i] = data[N + i]
<1> DEFINE m == N + 1
           k == N + len
<1>1. m \in Int /\ k \in Int /\ Len(data) \in Nat
  BY LenProperties
<1>2. \A i \in m..k : data[i] \in S
  BY <1>1, ElementOfSeq
<1>3. k - m + 1 = len /\ (m <= k <=> len > 0) /\ \A i \in 1..len : m + i - 1 = N + i
  OBVIOUS
<1> HIDE DEF m, k
<1>4. /\ SubSeq(data, m, k) \in Seq(S)
      /\ Len(SubSeq(data, m, k)) = IF m <= k THEN k - m + 1 ELSE 0
      /\ \A i \in 1..(k - m + 1) : SubSeq(data, m, k)[i] = data[m + i - 1]
  BY <1>1, <1>2, SubSeqProperties
<1>5. Len(SubSeq(data, m, k)) = len
  BY <1>3, <1>4
<1>6. \A i \in 1..len : SubSeq(data, m, k)[i] = data[N + i]
  BY <1>3, <1>4
<1> QED BY <1>4, <1>5, <1>6 DEF m, k

(* What is left of a request's parser after i symbols of a piece: it went on
   to s.at, where it had decided or a form started, or to the last. *)
Consumed(r, N, h, i, s) ==
    /\ s.at \in 0..i
    /\ s.parser.form = h.form
    /\ ReadAt(r, N + s.at, s.parser) \/ Ended(r, N + s.at, s.parser)
    /\ s.parser.result # "threw"
    /\ s.parser.result = "true" /\ Announces(r) => r.type = "other"
    /\ (s.at > 0 /\ N + s.at > HeadLen(r) /\ s.parser.result = "more")
           => r.type = "other"
    /\ s.at # i => s.parser.result # "more" \/ ToForm(r, s.parser)

(* The walk over a piece: the parser goes on to the last symbol, or to where
   it has decided, or to where a form starts. *)
LEMMA CharactersOK ==
    ASSUME NEW n \in DOMAIN Requests, NEW r, r = Requests[n],
           NEW N \in Nat, NEW len \in Nat, N + len <= Len(Sent[n]),
           NEW h, ReadAt(r, N, h),
           NEW piece, piece = SubSeq(Sent[n], N + 1, N + len)
    PROVE  /\ piece \in Seq(Symbols) /\ Len(piece) = len
           /\ \A i \in 1..len : piece[i] = Sent[n][N + i]
           /\ \A i \in 0..len : Consumed(r, N, h, i, Characters(r, h, piece)[i])
<1> DEFINE s(i) == Characters(r, h, piece)[i]
           Good(i) == /\ s(i).at \in 0..i
                      /\ s(i).parser.form = h.form
                      /\ \/ ReadAt(r, N + s(i).at, s(i).parser)
                         \/ Ended(r, N + s(i).at, s(i).parser)
                      /\ s(i).parser.result # "threw"
                      /\ s(i).parser.result = "true" /\ Announces(r) => r.type = "other"
                      /\ (/\ s(i).at > 0 /\ N + s(i).at > HeadLen(r)
                          /\ s(i).parser.result = "more") => r.type = "other"
                      /\ s(i).at # i => s(i).parser.result # "more" \/ ToForm(r, s(i).parser)
           P == { i \in Nat : i \in 0..len => Good(i) }
<1>1. /\ IsRequest(r) /\ Sent[n] \in Seq(Symbols) /\ Len(Sent[n]) \in Nat
      /\ HeadLen(r) \in Nat
      /\ Announces(r) /\ r.length # BadLength => r.length \in Nat
  BY RequestIs, SentIs, LenProperties, ZenonT(60) DEF IsRequest
<1>2. /\ piece \in Seq(Symbols) /\ Len(piece) = len
      /\ \A i \in 1..len : piece[i] = Sent[n][N + i]
  <2> DEFINE data == Sent[n]
  <2>1. /\ data \in Seq(Symbols) /\ N \in Nat /\ len \in Nat /\ N + len <= Len(data)
        /\ piece = SubSeq(data, N + 1, N + len)
    BY <1>1
  <2> HIDE DEF data
  <2>2. /\ piece \in Seq(Symbols) /\ Len(piece) = len
        /\ \A i \in 1..len : piece[i] = data[N + i]
    BY ONLY <2>1, PieceIs
  <2> QED BY <2>2 DEF data
<1>3. /\ s(0) = [ parser |-> h, at |-> 0 ]
      /\ \A i \in 1..len : s(i) = Character(r, piece, s(i - 1))
  <2> HIDE DEF Good, P
  <2>1. /\ Characters(r, h, piece)[0] = [ parser |-> h, at |-> 0 ]
        /\ \A i \in 1..len : Characters(r, h, piece)[i]
                                = Character(r, piece, Characters(r, h, piece)[i - 1])
    <3>1. piece \in Seq(Symbols)
      BY <1>2
    <3>2. /\ Characters(r, h, piece)[0] = [ parser |-> h, at |-> 0 ]
          /\ \A i \in 1..Len(piece) : Characters(r, h, piece)[i]
                                = Character(r, piece, Characters(r, h, piece)[i - 1])
      BY ONLY <3>1, CharactersDef
    <3> QED BY <1>2, <3>2
  <2> QED BY <2>1
<1> HIDE DEF s
<1>4. Good(0)
  <2>1. s(0).parser = h /\ s(0).at = 0 /\ N + 0 = N
    BY <1>3
  <2>2. h.result = "more"
    BY DEF ReadAt
  <2> QED BY <2>1, <2>2
<1>5. ASSUME NEW i \in Nat, i + 1 \in 0..len, Good(i)
      PROVE  Good(i + 1)
  <2> DEFINE p == s(i).parser
             a == s(i).at
             q == Consume(r, p, piece[a + 1])
  <2>0. a \in Nat /\ a <= i /\ i + 1 <= len /\ N + a \in Nat
    BY <1>5
  <2>1. s(i + 1) = Character(r, piece, s(i))
    <3>1. i + 1 \in 1..len /\ (i + 1) - 1 = i
      BY <1>5
    <3> QED BY <1>3, <3>1
  <2>2. CASE a = len \/ p.result # "more" \/ ToForm(r, p)
    <3>1. s(i + 1) = s(i)
      BY <1>2, <2>1, <2>2 DEF Character
    <3>2. s(i).at # i + 1 /\ a # len
      BY <2>0
    <3> QED BY <1>5, <2>0, <2>2, <3>1, <3>2
  <2>3. CASE ~(a = len \/ p.result # "more" \/ ToForm(r, p))
    <3>1. s(i + 1) = [ parser |-> q, at |-> a + 1 ]
      BY <1>2, <2>1, <2>3 DEF Character
    <3>2. ReadAt(r, N + a, p)
      BY <1>5, <2>3 DEF Ended
    <3>3. piece[a + 1] = Sent[n][(N + a) + 1] /\ N + a < Len(Sent[n])
      <4>1. a + 1 \in 1..len /\ N + (a + 1) = (N + a) + 1 /\ N + a < Len(Sent[n])
        <5> DEFINE S == Len(Sent[n])
        <5>1. /\ a \in Nat /\ a <= i /\ i + 1 <= len /\ i \in Nat
              /\ N \in Nat /\ len \in Nat /\ S \in Nat /\ N + len <= S
          BY <1>1, <2>0
        <5> HIDE DEF a, S
        <5>2. a + 1 \in 1..len /\ N + (a + 1) = (N + a) + 1 /\ N + a < S
          BY ONLY <5>1
        <5> QED BY <5>2 DEF S
      <4>2. piece[a + 1] = Sent[n][N + (a + 1)]
        BY <1>2, <4>1
      <4> QED BY <4>1, <4>2
    <3> DEFINE M == N + a
    <3>4. /\ q.form = p.form
          /\ ReadAt(r, M + 1, q) \/ Ended(r, M + 1, q)
      <4>1. M \in Nat /\ M < Len(Sent[n]) /\ ReadAt(r, M, p) /\ ~ToForm(r, p)
            /\ piece[a + 1] = Sent[n][M + 1]
        BY <2>0, <2>3, <3>2, <3>3
      <4> DEFINE x == piece[a + 1]
      <4>2. x = Sent[n][M + 1]
        BY <4>1
      <4> HIDE DEF M, p, a, x
      <4>3. /\ Consume(r, p, x).form = p.form
            /\ ReadAt(r, M + 1, Consume(r, p, x)) \/ Ended(r, M + 1, Consume(r, p, x))
        BY <4>1, <4>2, CharacterStep
      <4> QED BY <4>3 DEF x
    <3>5. p \in ParserType /\ p.result = "more"
      BY <3>2 DEF ReadAt
    <3>6. q.result # "threw"
      <4> HIDE DEF p, a
      <4> QED BY <3>5, ConsumeThrowsNot
    <3>7. M >= HeadLen(r) => r.type = "other"
      <4> HAVE M >= HeadLen(r)
      <4> HIDE DEF p, a
      <4>1. M \in Nat /\ ReadAt(r, M, p) /\ ~ToForm(r, p)
        BY <2>0, <2>3, <3>2
      <4> HIDE DEF M
      <4> QED BY <1>1, <4>1, NotToForm
    <3>8. q.result = "true" /\ Announces(r) => r.type = "other"
      <4> SUFFICES ASSUME q.result = "true", Announces(r), ~(M >= HeadLen(r))
                   PROVE  r.type = "other"
        BY <3>7
      <4>1. M + 1 <= HeadLen(r)
        BY <1>1, <2>0
      <4>2. Ended(r, M + 1, q)
        <5> HIDE DEF M, q
        <5> QED BY <3>4 DEF ReadAt
      <4>3. r.length # BadLength /\ r.length > 0
            /\ (r.type = "other" \/ M + 1 = HeadLen(r) + r.length)
        <5> HIDE DEF M, q
        <5> QED BY <4>2 DEF Ended
      <4> QED BY <1>1, <2>0, <4>1, <4>3
    <3>9. M + 1 > HeadLen(r) => r.type = "other"
      BY <1>1, <2>0, <3>7
    <3>10. N + (a + 1) = M + 1 /\ a + 1 \in 0..(i + 1)
      BY <2>0, SMTT(30)
    <3>11. s(i + 1).parser = q /\ s(i + 1).at = a + 1
      <4> HIDE DEF q, a
      <4> QED BY <3>1
    <3>12. a = i
      BY <1>5, <2>3
    <3>13. q.form = h.form
      BY <1>5, <3>4
    <3>14. a + 1 = i + 1
      BY <3>12
    <3> HIDE DEF q, a, M, p
    <3> QED BY <3>4, <3>6, <3>8, <3>9, <3>10, <3>11, <3>13, <3>14
  <2> QED BY <2>2, <2>3
<1>6. \A i \in Nat : i \in P
  <2>1. 0 \in P
    BY <1>4
  <2>2. \A i \in Nat : i \in P => i + 1 \in P
    <3> TAKE i \in Nat
    <3>1. SUFFICES ASSUME i + 1 \in 0..len, i \in P
                   PROVE  Good(i + 1)
      OBVIOUS
    <3>2. Good(i)
      <4>1. i \in 0..len
        BY <3>1
      <4> HIDE DEF Good
      <4> QED BY <3>1, <4>1
    <3> QED BY <1>5, <3>1, <3>2
  <2> HIDE DEF P
  <2> QED BY <2>1, <2>2, NatInd
<1>7. \A i \in 0..len : Good(i)
  <2> HIDE DEF Good
  <2> QED BY <1>6
<1>8. \A i \in 0..len : Consumed(r, N, h, i, s(i))
  BY <1>7 DEF Consumed
<1> HIDE DEF Good, P
<1> QED BY <1>2, <1>8 DEF s

(* Before the end of the head no form starts. *)
LEMMA ToFormAfterHead ==
    ASSUME NEW r, IsRequest(r), NEW N \in Nat, NEW h, ReadAt(r, N, h), ToForm(r, h)
    PROVE  /\ N >= HeadLen(r) /\ Announces(r) /\ r.length # BadLength
           /\ h.contentLength = r.length /\ r.type # "other" /\ h.content = << >>
           /\ h.state = "content_multipart_formdata" => r.type = "form"
           /\ h.consumed = N - HeadLen(r)
<1>1. Len(r.headers) \in Nat
  BY LenProperties, Zenon DEF IsRequest
<1>2. HeadLen(r) \in Nat
  BY <1>1 DEF HeadLen
<1>3. h.state \in { "select_content_parser", "content_multipart_formdata" }
  BY Zenon DEF ToForm, StartsForm
<1>4. N >= HeadLen(r)
  <2>1. HeadState(r, N) \notin { "select_content_parser", "content_multipart_formdata" }
    BY DEF HeadState
  <2>2. ~(N < HeadLen(r))
    <3>1. N < HeadLen(r) => h.state = HeadState(r, N)
      BY <1>2 DEF ReadAt
    <3> QED BY <1>3, <2>1, <3>1
  <2> QED BY <1>2, <2>2
<1>5. ~(N < HeadLen(r))
  BY <1>2, <1>4
<1>6. /\ Announces(r) /\ r.length # BadLength /\ h.contentLength = r.length
      /\ h.content = << >>
      /\ h.state = "content_multipart_formdata" => r.type = "form"
      /\ \/ N = HeadLen(r) /\ h.state = "select_content_parser" /\ h.consumed = 0
         \/ h.consumed = N - HeadLen(r) /\ r.type = "form"
  BY <1>3, <1>5 DEF ReadAt
<1>7. r.type # "other"
  BY <1>6, Zenon DEF ToForm, StartsForm
<1>8. h.consumed = N - HeadLen(r)
  BY <1>2, <1>6
<1> QED BY <1>4, <1>6, <1>7, <1>8

(* What parsing up to the M-th symbol of a request makes of a parser that has
   read N. *)
Parsed(r, N, M, h, q) ==
    /\ ReadAt(r, M, q) \/ Ended(r, M, q)
    /\ DiskStep(h.form, q.form)
    /\ \/ /\ q.form = h.form
          /\ q.result = "more" => M <= HeadLen(r) \/ r.type = "other"
          /\ q.result = "true" => ~Announces(r) \/ r.type = "other"
          /\ q.result = "threw" => r.type = "form without boundary"
       \/ /\ r.type = "form" /\ Announces(r) /\ r.length # BadLength
          /\ h.consumed < r.length /\ M > HeadLen(r)
          /\ h.consumed < M - HeadLen(r)
          /\ N > HeadLen(r) => h.consumed = N - HeadLen(r)
          /\ N <= HeadLen(r) => h.consumed = 0
          /\ q.form = AcceptSomeData(h.form, SubSeq(Body(r), h.consumed + 1, M - HeadLen(r)))
          /\ q.result = "threw" <=> q.form.threw

(* What the request's parser is after a piece, and what its form's parser was
   given: all of the content so far, or nothing. *)
LEMMA ParseOK ==
    ASSUME NEW n \in DOMAIN Requests, NEW r, r = Requests[n],
           NEW N \in Nat, NEW len \in Nat \ {0}, N + len <= Len(Sent[n]),
           NEW h, ReadAt(r, N, h),
           NEW piece, piece = SubSeq(Sent[n], N + 1, N + len)
    PROVE  Parsed(r, N, N + len, h, Parse(r, h, piece))
<1> DEFINE s == Characters(r, h, piece)[len]
           p == s.parser
           a == s.at
           M == N + len
           K == N + a
           rest == Skip(piece, a)
           form == IF StartsForm(r, p) THEN CreateParser(r, p) ELSE p
           q == Parse(r, h, piece)
           from == h.consumed + 1
<1>1. /\ IsRequest(r) /\ Sent[n] \in Seq(Symbols) /\ Len(Sent[n]) \in Nat
      /\ HeadLen(r) \in Nat /\ Body(r) \in Seq(Symbols)
      /\ \A i \in 1..Len(Body(r)) : Sent[n][HeadLen(r) + i] = Body(r)[i]
      /\ Len(Sent[n]) = HeadLen(r) + Len(Body(r)) /\ Len(Body(r)) \in Nat
  BY RequestIs, SentIs, LenProperties
<1>11. Announces(r) /\ r.length # BadLength => r.length \in Nat
  <2>1. Announces(r) => r.length \in { BadLength, Len(r.content) }
    BY <1>1, Zenon DEF IsRequest
  <2>2. Len(r.content) \in Nat
    BY SentIs
  <2> QED BY <2>1, <2>2
<1>2. /\ piece \in Seq(Symbols) /\ Len(piece) = len
      /\ \A i \in 1..len : piece[i] = Sent[n][N + i]
      /\ a \in 0..len
      /\ p.form = h.form
      /\ ReadAt(r, N + a, p) \/ Ended(r, N + a, p)
      /\ p.result # "threw"
      /\ p.result = "true" /\ Announces(r) => r.type = "other"
      /\ a > 0 /\ N + a > HeadLen(r) /\ p.result = "more" => r.type = "other"
      /\ a # len => p.result # "more" \/ ToForm(r, p)
  <2>1. len \in 0..len /\ len \in Nat
    OBVIOUS
  <2>2. /\ piece \in Seq(Symbols) /\ Len(piece) = len
        /\ \A i \in 1..len : piece[i] = Sent[n][N + i]
        /\ \A i \in 0..len : Consumed(r, N, h, i, Characters(r, h, piece)[i])
    <3> HIDE DEF s, p, a, M, K, rest, form, q, from
    <3>1. /\ n \in DOMAIN Requests /\ r = Requests[n] /\ N \in Nat /\ len \in Nat
          /\ N + len <= Len(Sent[n]) /\ ReadAt(r, N, h)
          /\ piece = SubSeq(Sent[n], N + 1, N + len)
      BY <2>1
    <3>2. piece \in Seq(Symbols) /\ Len(piece) = len
      BY <1>1, <2>1, PieceIs
    <3>3. \A i \in 1..len : piece[i] = Sent[n][N + i]
      BY ONLY <3>1, CharactersOK
    <3>4. ASSUME NEW i \in 0..len
          PROVE  Consumed(r, N, h, i, Characters(r, h, piece)[i])
      BY ONLY <3>1, <3>4, CharactersOK
    <3> QED BY <3>2, <3>3, <3>4
  <2>3. Consumed(r, N, h, len, s)
    BY <2>1, <2>2
  <2> QED BY <2>2, <2>3 DEF Consumed
<1>3. q = IF p.result # "more" \/ a = len THEN p
          ELSE IF form.result = "threw" THEN form
          ELSE ParseForm(form, rest)
  BY <1>2 DEF Parse
<1>4. K \in Nat /\ K <= M /\ M \in Nat /\ a \in Nat /\ a <= len
  <2>1. a \in 0..len
    BY <1>2
  <2> HIDE DEF a
  <2> QED BY <2>1
<1>5. FormOK(h.form)
  BY DEF ReadAt
<1>6. DiskStep(h.form, h.form)
  BY <1>5, DiskStepSame
<1> SUFFICES
        /\ ReadAt(r, M, q) \/ Ended(r, M, q)
        /\ DiskStep(h.form, q.form)
        /\ \/ /\ q.form = h.form
              /\ q.result = "more" => M <= HeadLen(r) \/ r.type = "other"
              /\ q.result = "true" => ~Announces(r) \/ r.type = "other"
              /\ q.result = "threw" => r.type = "form without boundary"
           \/ /\ r.type = "form" /\ Announces(r) /\ r.length # BadLength
              /\ h.consumed < r.length /\ M > HeadLen(r)
              /\ h.consumed < M - HeadLen(r)
              /\ N > HeadLen(r) => h.consumed = N - HeadLen(r)
              /\ N <= HeadLen(r) => h.consumed = 0
              /\ q.form = AcceptSomeData(h.form, SubSeq(Body(r), from, M - HeadLen(r)))
              /\ q.result = "threw" <=> q.form.threw
  BY Zenon DEF Parsed
<1> HIDE DEF s, q, M, K, rest, form, from
<1>7. CASE p.result # "more"
  <2>1. q = p
    BY <1>3, <1>7
  <2>2. Ended(r, K, p)
    BY <1>2, <1>7 DEF ReadAt, K
  <2>3. Ended(r, M, p)
    <3> HIDE DEF p
    <3> QED BY <1>1, <1>2, <1>4, <2>2, EndedStays
  <2> HIDE DEF p
  <2> QED BY <1>2, <1>6, <1>7, <2>1, <2>3, Zenon DEF q, M
<1>8. CASE p.result = "more" /\ a = len
  <2>1. q = p
    BY <1>3, <1>8
  <2>2. ReadAt(r, M, p)
    BY <1>2, <1>8 DEF Ended, M
  <2>3. M <= HeadLen(r) \/ r.type = "other"
    <3>1. a > 0
      BY <1>4, <1>8
    <3>2. SUFFICES ASSUME M > HeadLen(r)
                   PROVE  r.type = "other"
      BY <1>1, <1>4
    <3> QED BY <1>2, <1>8, <3>1, <3>2 DEF M
  <2> HIDE DEF p
  <2> QED BY <1>2, <1>6, <1>8, <2>1, <2>2, <2>3, Zenon DEF q, M
<1>9. CASE p.result = "more" /\ a # len
  <2>1. q = IF form.result = "threw" THEN form ELSE ParseForm(form, rest)
    BY <1>3, <1>9
  <2>2. ReadAt(r, K, p) /\ ToForm(r, p)
    BY <1>2, <1>9 DEF Ended, K
  <2>3. /\ K >= HeadLen(r) /\ Announces(r) /\ r.length # BadLength
        /\ p.contentLength = r.length /\ r.type # "other" /\ p.content = << >>
        /\ p.state = "content_multipart_formdata" => r.type = "form"
        /\ p.consumed = K - HeadLen(r)
    <3> HIDE DEF p
    <3> QED BY <1>1, <1>4, <2>2, ToFormAfterHead, SMTT(30)
  <2>4. p \in ParserType /\ FormOK(p.form) /\ ~p.form.threw /\ p.headers = HeadersBy(r, K)
    BY <2>2 DEF ReadAt
  <2>5. K < M
    BY <1>4, <1>9 DEF K, M
  <2>6. p.consumed = h.consumed /\ (N > HeadLen(r) => h.consumed = N - HeadLen(r))
        /\ (N <= HeadLen(r) => h.consumed = 0)
    <3>1. a > 0 => K <= HeadLen(r)
      <4>1. ~(a > 0 /\ K > HeadLen(r))
        BY <1>2, <1>9, <2>3 DEF K
      <4> HIDE DEF a, p
      <4> QED BY <1>1, <1>4, <4>1
    <3>2. CASE a > 0
      <4>1. K = HeadLen(r) /\ N < HeadLen(r)
        BY <1>1, <1>4, <2>3, <3>1, <3>2, SMTT(60) DEF K
      <4>2. h.consumed = 0
        BY <1>1, <4>1 DEF ReadAt
      <4> QED BY <1>1, <2>3, <4>1, <4>2
    <3>3. CASE a = 0
      <4>1. K = N
        BY <3>3 DEF K
      <4>2. p.consumed = N - HeadLen(r) /\ N >= HeadLen(r) /\ ~(N < HeadLen(r))
        BY <1>1, <2>3, <4>1
      <4>3. \/ h.consumed = 0 /\ (N = HeadLen(r) \/ r.type = "other")
            \/ h.consumed = N - HeadLen(r)
        BY <4>2 DEF ReadAt
      <4>4. h.consumed = N - HeadLen(r)
        BY <1>1, <2>3, <4>3, SMTT(30)
      <4> QED BY <1>1, <4>2, <4>4
    <3> QED BY <1>4, <3>2, <3>3
  <2>7. CASE r.type = "form without boundary"
    <3>1. form = [p EXCEPT !.result = "threw"]
      BY <2>2, <2>3, <2>7, Zenon DEF form, ToForm, CreateParser
    <3> HIDE DEF p
    <3>2. /\ form \in ParserType /\ form.result = "threw" /\ form.form = p.form
          /\ form.content = << >> /\ form.contentLength = p.contentLength
          /\ form.consumed = p.consumed
      BY <2>3, <2>4, <3>1 DEF ParserType
    <3>3. q = form
      BY <2>1, <3>2
    <3>4. Len(form.content) <= form.contentLength /\ form.consumed <= M
      <4>1. Len(<< >>) = 0
        OBVIOUS
      <4>2. form.contentLength \in Nat
        BY <3>2 DEF ParserType
      <4> QED BY <1>1, <1>4, <2>3, <2>5, <3>2, <4>1, <4>2
    <3>5. Ended(r, M, form)
      BY <2>3, <2>4, <2>7, <3>2, <3>4, Zenon DEF Ended
    <3> QED BY <1>2, <1>6, <2>7, <3>2, <3>3, <3>5, Zenon DEF q, M
  <2>8. CASE r.type = "form"
    <3>1. /\ form \in ParserType /\ form.result = "more" /\ form.form = p.form
          /\ form.content = << >> /\ form.contentLength = r.length
          /\ form.consumed = p.consumed /\ form.state = "content_multipart_formdata"
          /\ form.headers = p.headers
      <4>1. CASE StartsForm(r, p)
        <5>1. form = [p EXCEPT !.state = "content_multipart_formdata"]
          BY <2>8, <4>1 DEF form, CreateParser
        <5> HIDE DEF p
        <5> QED BY <1>9, <2>3, <2>4, <5>1 DEF ParserType, States
      <4>2. CASE ~StartsForm(r, p)
        <5>1. form = p /\ p.state = "content_multipart_formdata"
          BY <2>2, <4>2 DEF form, ToForm
        <5> HIDE DEF p
        <5> QED BY <1>9, <2>3, <2>4, <5>1
      <4> QED BY <4>1, <4>2
    <3>2. q = ParseForm(form, rest)
      BY <2>1, <3>1
    <3> HIDE DEF p
    <3>3. /\ rest \in Seq(Symbols) /\ Len(rest) = len - a
          /\ \A i \in 1..(len - a) : rest[i] = Sent[n][K + i]
      <4>1. a \in 0..Len(piece)
        BY <1>2
      <4>2. /\ rest \in Seq(Symbols) /\ Len(rest) = len - a
            /\ \A i \in 1..(len - a) : rest[i] = piece[a + i]
        <5> HIDE DEF a
        <5> QED BY <1>2, <4>1, SkipProps, ZenonT(60) DEF rest
      <4>3. \A i \in 1..(len - a) : piece[a + i] = Sent[n][K + i]
        <5> TAKE i \in 1..(len - a)
        <5>1. a + i \in 1..len /\ N + (a + i) = K + i
          BY <1>4, SMTT(60) DEF K
        <5> QED BY <1>2, <5>1
      <4> QED BY <4>2, <4>3
    <3>4. h.consumed \in Nat /\ h.consumed + HeadLen(r) = K
          /\ h.consumed + Len(rest) = M - HeadLen(r)
          /\ h.consumed < M - HeadLen(r) /\ Len(rest) \in Nat /\ Len(rest) > 0
      <4>1. h.consumed \in Nat
        BY DEF ReadAt, ParserType
      <4>2. h.consumed = K - HeadLen(r)
        BY <2>3, <2>6
      <4>3. HeadLen(r) \in Nat
        BY <1>1
      <4> DEFINE c == h.consumed
                 H == HeadLen(r)
                 L == Len(rest)
      <4>4. c \in Nat /\ c = K - H /\ H \in Nat /\ L = len - a
        BY <3>3, <4>1, <4>2, <4>3
      <4> HIDE DEF a, c, H, L
      <4>5. c \in Nat /\ c + H = K /\ c + L = M - H /\ c < M - H /\ L \in Nat /\ L > 0
        BY <1>4, <2>5, <4>4 DEF K, M
      <4> QED BY <4>5 DEF c, H, L
    <3>5. M - HeadLen(r) <= Len(Body(r)) /\ M - HeadLen(r) \in Nat
      BY <1>1, <1>4, <3>4, SMTT(60) DEF M
    <3>6. rest = SubSeq(Body(r), from, M - HeadLen(r))
      <4> DEFINE sub == SubSeq(Body(r), h.consumed + 1, h.consumed + Len(rest))
      <4>1. /\ sub \in Seq(Symbols) /\ Len(sub) = Len(rest)
            /\ \A i \in 1..Len(rest) : sub[i] = Body(r)[h.consumed + i]
        <5> DEFINE c == h.consumed
                   L == Len(rest)
                   data == Body(r)
        <5>1. c \in Nat /\ L \in Nat /\ c + L <= Len(data) /\ data \in Seq(Symbols)
          BY <1>1, <3>4, <3>5
        <5> HIDE DEF c, L, data
        <5>2. /\ SubSeq(data, c + 1, c + L) \in Seq(Symbols)
              /\ Len(SubSeq(data, c + 1, c + L)) = L
              /\ \A i \in 1..L : SubSeq(data, c + 1, c + L)[i] = data[c + i]
          BY <5>1, PieceIs
        <5> QED BY <5>2 DEF c, L, data
      <4>2. \A i \in 1..Len(rest) : rest[i] = Body(r)[h.consumed + i]
        <5> TAKE i \in 1..Len(rest)
        <5>1. /\ h.consumed + i \in 1..Len(Body(r))
              /\ HeadLen(r) + (h.consumed + i) = K + i
              /\ i \in 1..(len - a)
          <6> DEFINE c == h.consumed
                     H == HeadLen(r)
                     L == Len(rest)
                     B == Len(Body(r))
          <6>1. /\ c \in Nat /\ H \in Nat /\ B \in Nat /\ L \in Nat /\ i \in 1..L
                /\ c + H = K /\ c + L = M - H /\ M - H <= B /\ L = len - a
            BY <1>1, <3>3, <3>4, <3>5
          <6> HIDE DEF a, c, H, L, B
          <6>2. c + i \in 1..B /\ H + (c + i) = K + i /\ i \in 1..(len - a)
            BY <1>4, <6>1
          <6> QED BY <6>2 DEF c, H, L, B
        <5>2. Sent[n][HeadLen(r) + (h.consumed + i)] = Body(r)[h.consumed + i]
          BY <1>1, <5>1
        <5> QED BY <3>3, <5>1, <5>2
      <4> HIDE DEF sub
      <4>3. sub = rest
        BY <3>3, <4>1, <4>2, SeqEqual
      <4> QED BY <3>4, <4>3 DEF sub, from
    <3> DEFINE f == AcceptSomeData(p.form, rest)
    <3>7. FormOK(f) /\ DiskStep(p.form, f)
      BY <2>4, <3>3, AcceptSomeDataOK
    <3>8. f.threw \in BOOLEAN /\ f \in FormType
      <4> HIDE DEF f
      <4> QED BY <3>7 DEF FormOK, FormType
    <3>9. CASE form.consumed >= form.contentLength
      <4>1. q = Refused(form)
        BY <3>2, <3>9 DEF ParseForm
      <4> HIDE DEF form, q
      <4>2. /\ q \in ParserType /\ q.result = "false" /\ q.form = p.form
            /\ q.content = << >> /\ q.contentLength = r.length /\ q.consumed = h.consumed
        BY <2>6, <3>1, <4>1 DEF Refused, ParserType
      <4>3. M > HeadLen(r) + r.length /\ q.consumed <= M /\ Len(q.content) <= q.contentLength
        <5>1. Len(<< >>) = 0
          OBVIOUS
        <5>2. h.consumed >= r.length
          BY <2>6, <3>1, <3>9
        <5>3. r.length \in Nat /\ HeadLen(r) \in Nat /\ h.consumed \in Nat
              /\ h.consumed < M - HeadLen(r)
          BY <1>1, <1>11, <2>3, <3>4
        <5>4. M > HeadLen(r) + r.length /\ h.consumed <= M
          BY <1>4, <5>2, <5>3
        <5>5. Len(q.content) = 0 /\ q.contentLength \in Nat
          BY <4>2, <5>1, <5>3
        <5> QED BY <4>2, <5>4, <5>5
      <4>4. Ended(r, M, q)
        BY <2>3, <2>4, <4>2, <4>3 DEF Ended
      <4> QED BY <1>2, <1>6, <4>2, <4>4, Zenon DEF q, M
    <3>10. CASE ~(form.consumed >= form.contentLength)
      <4> DEFINE result == IF f.threw THEN "threw"
                           ELSE IF h.consumed + Len(rest) = r.length THEN "true"
                           ELSE "more"
                 g == [form EXCEPT !.form = f, !.consumed = h.consumed + Len(rest),
                                   !.result = result]
      <4>1. q = g
        <5>1. form.consumed = h.consumed
          BY <2>6, <3>1
        <5> HIDE DEF f
        <5> QED BY <3>1, <3>2, <3>10, <5>1 DEF ParseForm, ParserType, f
      <4>2. h.consumed + Len(rest) \in Nat
        BY <3>4
      <4> HIDE DEF f, form
      <4>3. /\ g \in ParserType /\ g.form = f /\ g.consumed = h.consumed + Len(rest)
            /\ g.result = result /\ g.content = << >> /\ g.contentLength = r.length
            /\ g.state = "content_multipart_formdata" /\ g.headers = p.headers
        <5>1. result \in { "more", "true", "false", "threw" }
          OBVIOUS
        <5> HIDE DEF result
        <5> QED BY <3>1, <3>8, <4>2, <5>1 DEF ParserType
      <4>4. /\ Len(g.content) <= g.contentLength /\ g.consumed <= M
            /\ g.consumed = M - HeadLen(r) /\ g.consumed > 0
            /\ h.consumed < r.length
        <5>1. Len(<< >>) = 0
          OBVIOUS
        <5>2. h.consumed < r.length
          BY <1>11, <2>3, <2>6, <3>1, <3>4, <3>10
        <5> HIDE DEF g
        <5> QED BY <1>1, <1>4, <1>11, <2>3, <3>4, <4>3, <5>1, <5>2, SMTT(60)
      <4>5. g.headers = HeadersBy(r, M) /\ r.line = "line"
        <5>1. Len(r.headers) \in Nat /\ HeadLen(r) = 3 * Len(r.headers) + 5
          BY <1>1, LenProperties, Zenon DEF IsRequest, HeadLen
        <5>2. K >= 3 * Len(r.headers) + 1 /\ M >= 3 * Len(r.headers) + 1
          BY <1>4, <2>3, <2>5, <5>1
        <5>3. HeadersBy(r, K) = Range(r.headers)
          BY <1>1, <1>4, <5>2, HeadersByIs
        <5>4. HeadersBy(r, M) = Range(r.headers)
          BY <1>1, <1>4, <5>2, HeadersByIs
        <5>5. K # 0
          BY <5>1, <5>2
        <5> HIDE DEF g
        <5> QED BY <2>2, <2>4, <4>3, <5>3, <5>4, <5>5 DEF ReadAt
      <4>6. ReadAt(r, M, g) \/ Ended(r, M, g)
        <5>1. CASE f.threw
          <6>1. g.result = "threw"
            BY <4>3, <5>1
          <6> HIDE DEF g
          <6> QED BY <2>3, <2>8, <3>7, <4>3, <4>4, <6>1 DEF Ended
        <5>2. CASE ~f.threw /\ h.consumed + Len(rest) = r.length
          <6>1. g.result = "true" /\ M = HeadLen(r) + r.length /\ r.length > 0
                /\ g.consumed = r.length /\ M >= HeadLen(r)
            <7>1. g.result = "true"
              BY <4>3, <5>2
            <7> HIDE DEF g
            <7>2. /\ r.length \in Nat /\ HeadLen(r) \in Nat /\ h.consumed \in Nat
                  /\ h.consumed + Len(rest) = M - HeadLen(r)
                  /\ h.consumed < M - HeadLen(r)
              BY <1>1, <1>11, <2>3, <3>4
            <7>3. r.length = M - HeadLen(r)
              BY <5>2, <7>2
            <7>4. M = HeadLen(r) + r.length /\ r.length > 0 /\ M >= HeadLen(r)
              <8> DEFINE c == h.consumed
                         H == HeadLen(r)
                         L == r.length
              <8>1. L \in Nat /\ H \in Nat /\ c \in Nat /\ c < M - H /\ L = M - H
                BY <7>2, <7>3
              <8> HIDE DEF c, H, L, a
              <8>2. M = H + L /\ L > 0 /\ M >= H
                BY <1>4, <8>1
              <8> QED BY <8>2 DEF H, L
            <7>5. g.consumed = r.length
              BY <4>3, <5>2
            <7> QED BY <7>1, <7>4, <7>5
          <6> HIDE DEF g
          <6> QED BY <2>3, <2>8, <3>7, <4>3, <4>4, <4>5, <5>2, <6>1 DEF Ended
        <5>3. CASE ~f.threw /\ h.consumed + Len(rest) # r.length
          <6>1. g.result = "more"
            BY <4>3, <5>3
          <6> HIDE DEF g
          <6>2. M >= HeadLen(r) /\ g.consumed # r.length
            BY <1>1, <1>4, <2>3, <2>5, <4>3, <5>3
          <6>3. g \in ParserType /\ FormOK(g.form) /\ ~g.form.threw
            BY <3>7, <4>3, <5>3
          <6> QED BY <2>3, <2>8, <4>3, <4>4, <4>5, <6>1, <6>2, <6>3 DEF ReadAt
        <5> QED BY <3>8, <5>1, <5>2, <5>3
      <4>7. g.result = "threw" <=> g.form.threw
        BY <3>8, <4>3
      <4> HIDE DEF g, result
      <4>8. /\ r.type = "form" /\ Announces(r) /\ r.length # BadLength
            /\ h.consumed < r.length /\ M > HeadLen(r)
            /\ h.consumed < M - HeadLen(r)
            /\ N > HeadLen(r) => h.consumed = N - HeadLen(r)
            /\ N <= HeadLen(r) => h.consumed = 0
            /\ q.form = AcceptSomeData(h.form, SubSeq(Body(r), from, M - HeadLen(r)))
            /\ q.result = "threw" <=> q.form.threw
        <5>1. M > HeadLen(r)
          BY <1>1, <1>4, <3>4, SMTT(60)
        <5> QED BY <1>2, <2>3, <2>6, <2>8, <3>4, <3>6, <4>1, <4>3, <4>4, <4>7, <5>1 DEF f
      <4>9. DiskStep(h.form, q.form) /\ (ReadAt(r, M, q) \/ Ended(r, M, q))
        BY <1>2, <3>7, <4>1, <4>3, <4>6
      <4> QED BY <4>8, <4>9 DEF q, M, from
    <3> QED BY <3>9, <3>10, Zenon
  <2> QED BY <1>1, <2>3, <2>7, <2>8, Zenon DEF IsRequest
<1> QED BY <1>7, <1>8, <1>9, Zenon

-----------------------------------------------------------------------------
(* The names of a form's fields *)

(* The name of a part, and the fields of the first k parts. *)
NameOf(parts, i) == Parts[parts[i].headers].name

KeysUpTo(parts, k) == { KeyOf(parts, j) : j \in 1..k }

(* The names of the fields satisfy the equation that defines them. *)
LEMMA KeyOfIs ==
    ASSUME NEW parts, Len(parts) \in Nat, NEW i \in 1..Len(parts)
    PROVE  KeyOf(parts, i) = UniqueName(NameOf(parts, i), KeysUpTo(parts, i - 1))
<1> DEFINE N == Len(parts)
           Next(g, j) == UniqueName(NameOf(parts, j), { g[l] : l \in 1..(j - 1) })
           Is(g, n) == g = [ j \in 1..n |-> Next(g, j) ]
           P == { n \in Nat : \E g : Is(g, n) }
           key == CHOOSE g : Is(g, N)
<1> HIDE DEF N
<1>1. 0 \in P
  <2>1. Is([ j \in 1..0 |-> 0 ], 0)
    OBVIOUS
  <2> QED BY <2>1
<1>2. ASSUME NEW n \in Nat, n \in P
      PROVE  n + 1 \in P
  <2>1. PICK g : Is(g, n)
    BY <1>2
  <2> DEFINE h == [ j \in 1..(n + 1) |-> IF j = n + 1 THEN Next(g, n + 1) ELSE g[j] ]
  <2>2. \A j \in 1..(n + 1) : h[j] = Next(h, j)
    <3> TAKE j \in 1..(n + 1)
    <3>1. \A l \in 1..(j - 1) : h[l] = g[l]
      OBVIOUS
    <3>2. { h[l] : l \in 1..(j - 1) } = { g[l] : l \in 1..(j - 1) }
      BY <3>1
    <3>3. h[j] = Next(g, j)
      <4>1. CASE j = n + 1
        BY <4>1
      <4>2. CASE j # n + 1
        <5>1. j \in 1..n
          BY <4>2
        <5>2. g[j] = Next(g, j)
          <6> HIDE DEF Next
          <6> QED BY <2>1, <5>1
        <5> QED BY <4>2, <5>2
      <4> QED BY <4>1, <4>2
    <3> HIDE DEF h
    <3> QED BY <3>2, <3>3
  <2>3. h = [ j \in 1..(n + 1) |-> h[j] ]
    OBVIOUS
  <2>4. Is(h, n + 1)
    <3> HIDE DEF h, Next
    <3> QED BY <2>2, <2>3
  <2>5. \E f : Is(f, n + 1)
    <3> HIDE DEF h, Is
    <3> QED BY <2>4
  <2> QED BY <2>5
<1>3. N \in P
  <2> HIDE DEF P
  <2> QED BY <1>1, <1>2, NatInd DEF N
<1>4. Is(key, N)
  <2>1. \E g : Is(g, N)
    BY <1>3
  <2> HIDE DEF Is
  <2> QED BY <2>1
<1>5. \A j : KeyOf(parts, j) = key[j]
  BY DEF KeyOf, NameOf, N
<1>6. key[i] = Next(key, i)
  <2> HIDE DEF Next, key
  <2> QED BY <1>4 DEF N
<1>7. { key[l] : l \in 1..(i - 1) } = KeysUpTo(parts, i - 1)
  <2> HIDE DEF key
  <2> QED BY <1>5 DEF KeysUpTo
<1> HIDE DEF key
<1> QED BY <1>5, <1>6, <1>7

(* Parts with names become fields with names, as many. *)
LEMMA KeysAreNames ==
    ASSUME NEW parts, Len(parts) \in Nat, NEW k \in 0..Len(parts),
           \A j \in 1..k : NameOf(parts, j) \in Names
    PROVE  /\ IsFiniteSet(KeysUpTo(parts, k))
           /\ \A j \in 1..k : KeyOf(parts, j) \in Names \ KeysUpTo(parts, j - 1)
<1>1. \A i \in Nat : IsFiniteSet(KeysUpTo(parts, i))
  <2> DEFINE P == { i \in Nat : IsFiniteSet(KeysUpTo(parts, i)) }
  <2>1. KeysUpTo(parts, 0) = {}
    BY DEF KeysUpTo
  <2>2. 0 \in P
    BY <2>1, FS_EmptySet
  <2>3. \A i \in Nat : KeysUpTo(parts, i + 1) = KeysUpTo(parts, i) \union { KeyOf(parts, i + 1) }
    BY DEF KeysUpTo
  <2>4. \A i \in Nat : i \in P => i + 1 \in P
    <3> TAKE i \in Nat
    <3>1. SUFFICES ASSUME IsFiniteSet(KeysUpTo(parts, i))
                   PROVE  IsFiniteSet(KeysUpTo(parts, i + 1))
      OBVIOUS
    <3>2. IsFiniteSet(KeysUpTo(parts, i) \union { KeyOf(parts, i + 1) })
      BY <3>1, FS_AddElement
    <3> QED BY <2>3, <3>2
  <2>5. \A i \in Nat : i \in P
    <3> HIDE DEF P
    <3> QED BY <2>2, <2>4, NatInd
  <2> QED BY <2>5
<1>2. ASSUME NEW j \in 1..k
      PROVE  KeyOf(parts, j) \in Names \ KeysUpTo(parts, j - 1)
  <2>1. j \in 1..Len(parts) /\ j - 1 \in Nat
    OBVIOUS
  <2> QED BY <1>1, <2>1, KeyOfIs, UniqueNameIsNew
<1> QED BY <1>1, <1>2

(* No two parts become the same field. *)
LEMMA KeysDiffer ==
    ASSUME NEW parts, Len(parts) \in Nat, NEW k \in 0..Len(parts),
           \A j \in 1..k : NameOf(parts, j) \in Names,
           NEW i \in 1..k, NEW j \in 1..k, i # j
    PROVE  KeyOf(parts, i) # KeyOf(parts, j)
<1>1. ASSUME NEW m \in 1..k, NEW l \in 1..k, m < l
      PROVE  KeyOf(parts, m) # KeyOf(parts, l)
  <2>1. m \in 1..(l - 1)
    BY <1>1
  <2>2. KeyOf(parts, m) \in KeysUpTo(parts, l - 1)
    BY <2>1 DEF KeysUpTo
  <2>3. KeyOf(parts, l) \notin KeysUpTo(parts, l - 1)
    BY KeysAreNames
  <2> QED BY <2>2, <2>3
<1>2. i < j \/ j < i
  OBVIOUS
<1> QED BY <1>1, <1>2

-----------------------------------------------------------------------------
(* Where the parts of a form are *)

(* The places of the boundaries of a form that is sent. *)
Layout(r) ==
    CHOOSE at \in [1..(Len(r.parts) + 1) -> 0..Len(r.content)] :
        IsLayout(r.parts, r.content, at)

SentForm(r) == r.type = "form" /\ Announces(r)

(* Where the boundaries of a form that is sent are. *)
LEMMA LayoutIs ==
    ASSUME NEW r, IsRequest(r), SentForm(r)
    PROVE  LET at == Layout(r)
               b  == Len(Boundary)
               K  == Len(r.parts)
           IN  /\ K \in Nat /\ Len(r.content) \in Nat
               /\ r.parts \in Seq([ headers : Symbols, content : Seq(Symbols) ])
               /\ at \in [1..(K + 1) -> 0..Len(r.content)]
               /\ at[1] = 0
               /\ Len(r.content) = at[K + 1] + b + 3
               /\ SubSeq(r.content, at[K + 1] + b + 1, Len(r.content)) = << "-", "cr", "lf" >>
               /\ \A k \in 1..K :
                      /\ r.parts[k].headers \in Symbols
                      /\ r.parts[k].content \in Seq(Symbols)
                      /\ Len(r.parts[k].content) \in Nat
                      /\ at[k] \in Nat /\ at[k + 1] \in Nat
                      /\ at[k + 1] = at[k] + b + Len(r.parts[k].content) + 9
                      /\ SubSeq(r.content, at[k] + b + 1, at[k + 1]) =
                             << "cr", "lf", r.parts[k].headers >> \o EndOfHeaders
                                 \o r.parts[k].content \o << "cr", "lf" >>
               /\ \A i \in 0..(Len(r.content) - b) :
                      SubSeq(r.content, i + 1, i + b) = Boundary <=>
                          \E k \in 1..(K + 1) : i = at[k]
<1> DEFINE at == Layout(r)
           K  == Len(r.parts)
           T  == [1..(K + 1) -> 0..Len(r.content)]
<1>1. /\ r.parts \in Seq([ headers : Symbols, content : Seq(Symbols) ])
      /\ IsWire(r.parts, r.content) /\ r.content \in Seq(Symbols)
  BY DEF IsRequest, SentForm
<1>2. K \in Nat /\ Len(r.content) \in Nat
  BY <1>1, LenProperties
<1>3. at \in T /\ IsLayout(r.parts, r.content, at)
  <2>1. \E f \in T : IsLayout(r.parts, r.content, f)
    BY <1>1 DEF IsWire
  <2>2. at = CHOOSE f \in T : IsLayout(r.parts, r.content, f)
    BY DEF Layout
  <2> HIDE DEF T, at
  <2> QED BY <2>1, <2>2
<1> HIDE DEF at
<1>4. \A i : i \in Range(at) <=> \E k \in 1..(K + 1) : i = at[k]
  <2>1. DOMAIN at = 1..(K + 1)
    BY <1>3
  <2> QED BY <2>1 DEF Range
<1>5. ASSUME NEW k \in 1..K
      PROVE  /\ r.parts[k].headers \in Symbols
             /\ r.parts[k].content \in Seq(Symbols)
             /\ Len(r.parts[k].content) \in Nat
             /\ at[k] \in Nat /\ at[k + 1] \in Nat
  <2>1. r.parts[k] \in [ headers : Symbols, content : Seq(Symbols) ]
    BY <1>1, ElementOfSeq
  <2>2. k \in 1..(K + 1) /\ k + 1 \in 1..(K + 1)
    BY <1>2
  <2>3. r.parts[k].content \in Seq(Symbols)
    BY <2>1, SMTT(30)
  <2> QED BY <1>2, <1>3, <2>1, <2>2, <2>3, LenProperties
<1>6. /\ at[1] = 0
      /\ Len(r.content) = at[K + 1] + Len(Boundary) + 3
      /\ SubSeq(r.content, at[K + 1] + Len(Boundary) + 1, Len(r.content)) = << "-", "cr", "lf" >>
      /\ \A i \in 0..(Len(r.content) - Len(Boundary)) :
             SubSeq(r.content, i + 1, i + Len(Boundary)) = Boundary <=> i \in Range(at)
      /\ \A k \in 1..K :
             /\ at[k + 1] = at[k] + Len(Boundary) + Len(r.parts[k].content) + 9
             /\ SubSeq(r.content, at[k] + Len(Boundary) + 1, at[k + 1]) =
                    << "cr", "lf", r.parts[k].headers >> \o EndOfHeaders
                        \o r.parts[k].content \o << "cr", "lf" >>
  BY <1>3 DEF IsLayout
<1> QED BY <1>1, <1>2, <1>3, <1>4, <1>5, <1>6 DEF at

(* Boundaries are as far apart as the parts between them are long. *)
LEMMA LayoutGrows ==
    ASSUME NEW r, IsRequest(r), SentForm(r)
    PROVE  \A l, k \in 1..(Len(r.parts) + 1) :
               l < k => Layout(r)[l] + Len(Boundary) + 9 <= Layout(r)[k]
<1> DEFINE at == Layout(r)
           K  == Len(r.parts)
           b  == Len(Boundary)
           Good(d) == \A l, k \in 1..(K + 1) : k = l + d + 1 => at[l] + b + 9 <= at[k]
           P == { d \in Nat : Good(d) }
<1>1. /\ K \in Nat /\ \A k \in 1..(K + 1) : at[k] \in Nat
      /\ \A k \in 1..K : /\ Len(r.parts[k].content) \in Nat
                         /\ at[k + 1] = at[k] + b + Len(r.parts[k].content) + 9
      /\ b \in Nat
  <2>1. /\ K \in Nat
        /\ \A k \in 1..K : /\ Len(r.parts[k].content) \in Nat
                           /\ at[k + 1] = at[k] + b + Len(r.parts[k].content) + 9
    BY LayoutIs
  <2>2. Len(r.content) \in Nat /\ at \in [1..(K + 1) -> 0..Len(r.content)]
    BY LayoutIs
  <2>3. b \in Nat
    BY BoundaryIs
  <2>4. \A k \in 1..(K + 1) : at[k] \in Nat
    <3> HIDE DEF at, K
    <3> QED BY <2>2
  <2> HIDE DEF at, b, K
  <2> QED BY <2>1, <2>3, <2>4
<1> HIDE DEF at, b, K
<1>2. \A k \in 1..K : at[k] + b + 9 <= at[k + 1]
  <2> TAKE k \in 1..K
  <2>1. k \in 1..(K + 1) /\ k + 1 \in 1..(K + 1)
    BY <1>1
  <2> DEFINE c == Len(r.parts[k].content)
             u == at[k]
             v == at[k + 1]
  <2>2. c \in Nat /\ u \in Nat /\ v = u + b + c + 9
    BY <1>1, <2>1
  <2> HIDE DEF c, u, v
  <2>3. u + b + 9 <= v
    BY <1>1, <2>2
  <2> QED BY <2>3 DEF u, v
<1>3. Good(0)
  <2> SUFFICES ASSUME NEW l \in 1..(K + 1), NEW k \in 1..(K + 1), k = l + 0 + 1
               PROVE  at[l] + b + 9 <= at[k]
    OBVIOUS
  <2>1. l \in 1..K /\ k = l + 1
    BY <1>1
  <2> QED BY <1>2, <2>1
<1>4. ASSUME NEW d \in Nat, Good(d)
      PROVE  Good(d + 1)
  <2> SUFFICES ASSUME NEW l \in 1..(K + 1), NEW k \in 1..(K + 1), k = l + (d + 1) + 1
               PROVE  at[l] + b + 9 <= at[k]
    OBVIOUS
  <2>1. l + 1 \in 1..(K + 1) /\ l \in 1..K /\ k = (l + 1) + d + 1
    BY <1>1
  <2>2. at[l + 1] + b + 9 <= at[k]
    BY <1>4, <2>1
  <2>3. at[l] + b + 9 <= at[l + 1]
    BY <1>2, <2>1
  <2>4. at[l] \in Nat /\ at[l + 1] \in Nat /\ at[k] \in Nat
    BY <1>1, <2>1
  <2> QED BY <1>1, <2>2, <2>3, <2>4, SMTT(60)
<1>5. \A d \in Nat : d \in P
  <2>1. 0 \in P /\ \A d \in Nat : d \in P => d + 1 \in P
    <3> HIDE DEF Good
    <3> QED BY <1>3, <1>4
  <2> HIDE DEF P
  <2> QED BY <2>1, NatInd
<1>6. \A d \in Nat : Good(d)
  <2> HIDE DEF Good
  <2> QED BY <1>5
<1>7. ASSUME NEW l \in 1..(K + 1), NEW k \in 1..(K + 1), l < k
      PROVE  at[l] + b + 9 <= at[k]
  <2>1. k - l - 1 \in Nat /\ k = l + (k - l - 1) + 1
    BY <1>1, <1>7
  <2>2. Good(k - l - 1)
    <3> HIDE DEF Good
    <3> QED BY <1>6, <2>1
  <2> QED BY <2>1, <2>2
<1> QED BY <1>7 DEF at, b, K

(* u is s, of m symbols, followed by t, of n. *)
IsJoin(u, s, t, m, n) ==
    /\ u \in Seq(Symbols) /\ Len(u) = m + n
    /\ \A i \in 1..m : u[i] = s[i]
    /\ \A i \in 1..n : u[m + i] = t[i]

(* A concatenation, each side at its place. *)
LEMMA Joined ==
    ASSUME NEW s \in Seq(Symbols), NEW t \in Seq(Symbols),
           NEW m \in Nat, NEW n \in Nat, Len(s) = m, Len(t) = n
    PROVE  IsJoin(s \o t, s, t, m, n)
<1> DEFINE u == s \o t
<1>1. /\ u \in Seq(Symbols) /\ Len(u) = m + n
      /\ \A i \in 1..(m + n) : u[i] = IF i <= m THEN s[i] ELSE t[i - m]
  <2>1. /\ u \in Seq(Symbols) /\ Len(u) = Len(s) + Len(t)
        /\ \A i \in 1..(Len(s) + Len(t)) :
               u[i] = IF i <= Len(s) THEN s[i] ELSE t[i - Len(s)]
    BY ConcatProperties
  <2> HIDE DEF u
  <2> QED BY <2>1
<1> HIDE DEF u
<1>2. \A i \in 1..m : u[i] = s[i]
  BY <1>1, SMTT(30)
<1>3. \A i \in 1..n : u[m + i] = t[i]
  <2> TAKE i \in 1..n
  <2>1. m + i \in 1..(m + n) /\ ~(m + i <= m) /\ (m + i) - m = i
    OBVIOUS
  <2>2. u[m + i] = t[(m + i) - m]
    BY <1>1, <2>1
  <2> QED BY <2>1, <2>2
<1>4. IsJoin(u, s, t, m, n)
  BY <1>1, <1>2, <1>3 DEF IsJoin
<1> QED BY <1>4 DEF u

(* The symbols of the content come first. *)
LEMMA BodyIs ==
    ASSUME NEW r, IsRequest(r)
    PROVE  /\ Body(r) \in Seq(Symbols) /\ r.content \in Seq(Symbols)
           /\ Len(r.content) \in Nat /\ Len(Body(r)) \in Nat
           /\ Len(r.content) <= Len(Body(r))
           /\ \A i \in 1..Len(r.content) : Body(r)[i] = r.content[i]
           /\ \A i \in 1..Len(Body(r)) :
                  i > Len(r.content) => Body(r)[i] \in Range(r.extra)
           /\ r.extra = << >> => Len(Body(r)) = Len(r.content)
<1>1. r.content \in Seq(Symbols) /\ r.extra \in Seq(Symbols)
  BY Zenon DEF IsRequest
<1> DEFINE m == Len(r.content)
           n == Len(r.extra)
           D == Body(r)
<1>2. m \in Nat /\ n \in Nat
  BY <1>1, LenProperties
<1>3. /\ D \in Seq(Symbols) /\ Len(D) = m + n
      /\ \A i \in 1..m : D[i] = r.content[i]
      /\ \A i \in 1..n : D[m + i] = r.extra[i]
  <2>1. r.content \in Seq(Symbols) /\ r.extra \in Seq(Symbols)
        /\ Len(r.content) = m /\ Len(r.extra) = n /\ D = r.content \o r.extra
    BY <1>1 DEF Body
  <2> HIDE DEF m, n, D
  <2>2. IsJoin(D, r.content, r.extra, m, n)
    BY <1>2, <2>1, Joined
  <2> QED BY <2>2 DEF IsJoin
<1>4. Range(r.extra) = { r.extra[j] : j \in 1..n }
  BY <1>1, RangeEquality
<1>5. r.extra = << >> => n = 0
  OBVIOUS
<1> HIDE DEF m, n, D
<1>6. ASSUME NEW i \in 1..(m + n), i > m
      PROVE  D[i] \in Range(r.extra)
  <2>1. i - m \in 1..n /\ m + (i - m) = i
    BY <1>2, <1>6
  <2>2. D[m + (i - m)] = r.extra[i - m]
    BY <1>3, <2>1
  <2> QED BY <1>4, <2>1, <2>2
<1>7. m + n \in Nat /\ m <= m + n /\ (n = 0 => m + n = m)
  BY <1>2
<1>8. \A i \in 1..Len(D) : i > m => D[i] \in Range(r.extra)
  BY <1>3, <1>6
<1>9. r.extra = << >> => Len(D) = m
  BY <1>3, <1>5, <1>7
<1>10. m <= Len(D) /\ Len(D) \in Nat
  BY <1>3, <1>7
<1> QED BY <1>1, <1>2, <1>3, <1>8, <1>9, <1>10 DEF m, n, D

(* The symbols of a part, from its first line break to its last. *)
LEMMA PartSymbols ==
    ASSUME NEW H \in Symbols, NEW C \in Seq(Symbols), NEW c \in Nat, Len(C) = c,
           NEW x \in Symbols, NEW y \in Symbols
    PROVE  LET s == << x, y, H >> \o << x, y, x, y >> \o C \o << x, y >>
           IN  /\ s[1] = x /\ s[2] = y /\ s[3] = H /\ s[4] = x /\ s[5] = y
               /\ s[6] = x /\ s[7] = y
               /\ \A i \in 1..c : s[7 + i] = C[i]
<1> DEFINE p1 == << x, y, H >>
           p2 == << x, y, x, y >>
           p3 == << x, y >>
           q  == p1 \o p2
           t  == q \o C
           s  == t \o p3
<1>1. p1 \in Seq(Symbols) /\ Len(p1) = 3 /\ p1[1] = x /\ p1[2] = y /\ p1[3] = H
  OBVIOUS
<1>2. p2 \in Seq(Symbols) /\ Len(p2) = 4 /\ p2[1] = x /\ p2[2] = y /\ p2[3] = x /\ p2[4] = y
  OBVIOUS
<1>3. p3 \in Seq(Symbols) /\ Len(p3) = 2
  OBVIOUS
<1> HIDE DEF p1, p2, p3
<1>5. /\ q \in Seq(Symbols) /\ Len(q) = 3 + 4
      /\ \A i \in 1..3 : q[i] = p1[i]
      /\ \A i \in 1..4 : q[3 + i] = p2[i]
  <2> DEFINE three == 3
             four  == 4
  <2>1. Len(p1) = three /\ three \in Nat /\ Len(p2) = four /\ four \in Nat
    BY <1>1, <1>2
  <2> HIDE DEF three, four
  <2>2. IsJoin(q, p1, p2, three, four)
    BY <1>1, <1>2, <2>1, Joined
  <2> HIDE DEF q
  <2> QED BY <2>2 DEF three, four, IsJoin
<1> HIDE DEF q
<1>6. /\ q[1] = x /\ q[2] = y /\ q[3] = H /\ q[4] = x /\ q[5] = y /\ q[6] = x /\ q[7] = y
  <2>1. q[1] = p1[1] /\ q[2] = p1[2] /\ q[3] = p1[3]
    BY <1>5
  <2>2. q[3 + 1] = p2[1] /\ q[3 + 2] = p2[2] /\ q[3 + 3] = p2[3] /\ q[3 + 4] = p2[4]
    BY <1>5
  <2> QED BY <1>1, <1>2, <2>1, <2>2
<1>7. /\ t \in Seq(Symbols) /\ Len(t) = 7 + c
      /\ \A i \in 1..7 : t[i] = q[i]
      /\ \A i \in 1..c : t[7 + i] = C[i]
  <2> DEFINE seven == 7
  <2>1. Len(q) = seven /\ seven \in Nat
    BY <1>5
  <2> HIDE DEF seven
  <2>2. IsJoin(t, q, C, seven, c)
    BY <1>5, <2>1, Joined
  <2> HIDE DEF t
  <2> QED BY <2>2 DEF seven, IsJoin
<1> HIDE DEF t
<1>8. \A i \in 1..(7 + c) : s[i] = t[i]
  <2>1. 7 + c \in Nat
    OBVIOUS
  <2> DEFINE n == 7 + c
  <2> HIDE DEF n
  <2>2. n \in Nat /\ Len(t) = n
    BY <1>7, <2>1 DEF n
  <2>3. IsJoin(s, t, p3, n, 2)
    BY <1>3, <1>7, <2>2, Joined
  <2> HIDE DEF s
  <2> QED BY <2>3 DEF n, IsJoin
<1> HIDE DEF s
<1>9. \A i \in 1..7 : s[i] = q[i]
  <2> TAKE i \in 1..7
  <2>1. i \in 1..(7 + c)
    OBVIOUS
  <2> QED BY <1>7, <1>8, <2>1
<1>10. \A i \in 1..c : s[7 + i] = C[i]
  <2> TAKE i \in 1..c
  <2>1. 7 + i \in 1..(7 + c)
    OBVIOUS
  <2> QED BY <1>7, <1>8, <2>1
<1>11. /\ s[1] = q[1] /\ s[2] = q[2] /\ s[3] = q[3] /\ s[4] = q[4] /\ s[5] = q[5]
       /\ s[6] = q[6] /\ s[7] = q[7]
  BY <1>9
<1> QED BY <1>6, <1>10, <1>11 DEF s, t, q, p1, p2, p3

(* The k-th boundary ends with the m-th symbol. *)
BoundaryEnds(r, k, m) == m = Layout(r)[k] + Len(Boundary)

(* Where the headers and the content of a part are. *)
HasHeaders(data, m, headers) ==
    /\ data[m + 1] = "cr" /\ data[m + 2] = "lf" /\ data[m + 3] = headers
    /\ data[m + 4] = "cr" /\ data[m + 5] = "lf" /\ data[m + 6] = "cr"
    /\ data[m + 7] = "lf"

HasContent(data, m, C) == \A i \in 1..Len(C) : data[m + 7 + i] = C[i]

(* A part of a form that is sent: its headers, its content, the next
   boundary. *)
LEMMA PartIs ==
    ASSUME NEW r, IsRequest(r), SentForm(r), NEW k \in 1..Len(r.parts),
           NEW m, BoundaryEnds(r, k, m)
    PROVE  /\ m \in Nat /\ m + 9 + Len(r.parts[k].content) = Layout(r)[k + 1]
           /\ Len(r.parts[k].content) \in Nat
           /\ HasHeaders(Body(r), m, r.parts[k].headers)
           /\ HasContent(Body(r), m, r.parts[k].content)
<1> DEFINE C == r.parts[k].content
           H == r.parts[k].headers
           K == Len(r.parts)
           at == Layout(r)
           a == at[k]
           b == Len(Boundary)
           c == Len(C)
           e == at[k + 1]
           L == Len(r.content)
           D == Body(r)
           s == << "cr", "lf", H >> \o << "cr", "lf", "cr", "lf" >> \o C \o << "cr", "lf" >>
<1>1. /\ K \in Nat /\ L \in Nat /\ at \in [1..(K + 1) -> 0..L]
      /\ H \in Symbols /\ C \in Seq(Symbols) /\ c \in Nat
      /\ a \in Nat /\ e \in Nat
      /\ e = a + b + c + 9
      /\ SubSeq(r.content, a + b + 1, e) =
             << "cr", "lf", H >> \o EndOfHeaders \o C \o << "cr", "lf" >>
  BY LayoutIs
<1>2. k \in 1..K
  OBVIOUS
<1>3. /\ b \in Nat /\ m = a + b /\ r.content \in Seq(Symbols)
      /\ \A i \in 1..L : D[i] = r.content[i]
  BY BoundaryIs, BodyIs DEF BoundaryEnds
<1>4. "cr" \in Symbols /\ "lf" \in Symbols
  BY FormAssumption
<1>5. /\ s[1] = "cr" /\ s[2] = "lf" /\ s[3] = H /\ s[4] = "cr" /\ s[5] = "lf"
      /\ s[6] = "cr" /\ s[7] = "lf"
      /\ \A i \in 1..c : s[7 + i] = C[i]
  <2>1. Len(C) = c /\ c \in Nat /\ C \in Seq(Symbols) /\ H \in Symbols
    BY <1>1
  <2> HIDE DEF H, C, c
  <2> QED BY <1>4, <2>1, PartSymbols, SMTT(30)
<1>6. s = << "cr", "lf", H >> \o EndOfHeaders \o C \o << "cr", "lf" >>
  BY DEF EndOfHeaders
<1> HIDE DEF s, e, a, b, c, C, H, K, at, L, D
<1>7. e <= L
  <2>1. k + 1 \in 1..(K + 1)
    BY <1>1, <1>2
  <2> QED BY <1>1, <2>1 DEF e
<1> DEFINE l == c + 9
<1>8. m \in Nat /\ l \in Nat /\ e = m + l /\ m + 9 + c = e /\ m + l <= L /\ m + 1 = a + b + 1
  BY <1>1, <1>3, <1>7
<1> HIDE DEF l
<1>9. SubSeq(r.content, m + 1, m + l) = s
  BY <1>1, <1>6, <1>8
<1>10. \A i \in 1..l : D[m + i] = s[i]
  <2>1. \A i \in 1..l : SubSeq(r.content, m + 1, m + l)[i] = r.content[m + i]
    BY <1>3, <1>8, PieceIs, ZenonT(60) DEF L
  <2>2. \A i \in 1..l : m + i \in 1..L
    BY ONLY <1>1, <1>8
  <2> QED BY <1>3, <1>9, <2>1, <2>2
<1>11. \A i \in 1..c : D[m + 7 + i] = C[i]
  <2> TAKE i \in 1..c
  <2>0. i \in 1..c
    OBVIOUS
  <2>1. 7 + i \in 1..l /\ m + (7 + i) = m + 7 + i
    BY ONLY <1>1, <1>8, <2>0 DEF l
  <2>2. D[m + (7 + i)] = s[7 + i]
    BY <1>10, <2>1
  <2> QED BY <1>5, <2>1, <2>2
<1>12. \A i \in 1..7 : D[m + i] = s[i]
  <2> TAKE i \in 1..7
  <2>1. i \in 1..l
    BY <1>1, SMTT(30) DEF l
  <2> QED BY <1>10, <2>1
<1>13. /\ D[m + 1] = s[1] /\ D[m + 2] = s[2] /\ D[m + 3] = s[3]
       /\ D[m + 4] = s[4] /\ D[m + 5] = s[5] /\ D[m + 6] = s[6]
       /\ D[m + 7] = s[7]
  BY <1>12
<1>14. HasHeaders(D, m, H)
  BY <1>5, <1>13 DEF HasHeaders
<1>15. HasContent(D, m, C)
  BY <1>11 DEF HasContent, c
<1> QED BY <1>1, <1>8, <1>14, <1>15 DEF e, c, C, H, D, at

(* A piece of a sequence, the other form of its bounds. *)
LEMMA SliceIs ==
    ASSUME NEW S, NEW data \in Seq(S), NEW i \in Nat \ {0}, NEW l \in Nat,
           i + l - 1 <= Len(data)
    PROVE  /\ SubSeq(data, i, i + l - 1) \in Seq(S)
           /\ Len(SubSeq(data, i, i + l - 1)) = l
           /\ \A j \in 1..l : SubSeq(data, i, i + l - 1)[j] = data[(i - 1) + j]
<1> DEFINE N == i - 1
<1>1. N \in Nat /\ N + 1 = i /\ N + l = i + l - 1 /\ N + l <= Len(data)
  OBVIOUS
<1> HIDE DEF N
<1>2. /\ SubSeq(data, N + 1, N + l) \in Seq(S)
      /\ Len(SubSeq(data, N + 1, N + l)) = l
      /\ \A j \in 1..l : SubSeq(data, N + 1, N + l)[j] = data[N + j]
  BY <1>1, PieceIs
<1> QED BY <1>1, <1>2 DEF N

(* A window on what is left of a sequence is one on the sequence. *)
LEMMA WindowIs ==
    ASSUME NEW D \in Seq(Symbols), NEW E \in Seq(Symbols),
           NEW L \in Nat, Len(E) = L, \A i \in 1..L : D[i] = E[i],
           NEW m \in Nat, NEW n \in Nat, m <= n, n <= Len(D),
           NEW i \in Nat \ {0}, NEW l \in Nat,
           (i + l) - 1 <= n - m, ((m + i) - 1) + l <= L
    PROVE  SubSeq(SubSeq(D, m + 1, n), i, i + l - 1)
               = SubSeq(E, ((m + i) - 1) + 1, ((m + i) - 1) + l)
<1> DEFINE coll == SubSeq(D, m + 1, n)
           k == n - m
           o == (m + i) - 1
           left == SubSeq(coll, i, i + l - 1)
           right == SubSeq(E, o + 1, o + l)
<1>1. k \in Nat /\ m + k = n /\ o \in Nat /\ o + l <= L /\ i + l - 1 <= k
  OBVIOUS
<1>2. coll \in Seq(Symbols) /\ Len(coll) = k /\ \A j \in 1..k : coll[j] = D[m + j]
  <2>1. /\ SubSeq(D, m + 1, m + k) \in Seq(Symbols)
        /\ Len(SubSeq(D, m + 1, m + k)) = k
        /\ \A j \in 1..k : SubSeq(D, m + 1, m + k)[j] = D[m + j]
    <3> HIDE DEF k
    <3> QED BY <1>1, PieceIs
  <2> QED BY <1>1, <2>1
<1> HIDE DEF coll, k
<1>3. left \in Seq(Symbols) /\ Len(left) = l /\ \A j \in 1..l : left[j] = coll[(i - 1) + j]
  BY <1>1, <1>2, SliceIs
<1>4. right \in Seq(Symbols) /\ Len(right) = l /\ \A j \in 1..l : right[j] = E[o + j]
  <2> HIDE DEF o
  <2> QED BY <1>1, PieceIs
<1> HIDE DEF left, right
<1>5. ASSUME NEW j \in 1..l
      PROVE  left[j] = right[j]
  <2>1. /\ (i - 1) + j \in 1..k /\ m + ((i - 1) + j) = o + j /\ o + j \in 1..L
    BY <1>1
  <2>2. coll[(i - 1) + j] = D[m + ((i - 1) + j)]
    BY <1>2, <2>1
  <2> HIDE DEF o
  <2>3. left[j] = D[o + j]
    BY <1>3, <2>1, <2>2
  <2>4. D[o + j] = E[o + j]
    BY <2>1
  <2> QED BY <1>4, <2>3, <2>4
<1>6. left = right
  BY <1>3, <1>4, <1>5, SeqEqual
<1> QED BY <1>6 DEF left, right, coll

(* What is collected after the first m of n symbols. *)
Rest(r, m, n) == SubSeq(Body(r), m + 1, n)

(* What is collected, symbol by symbol. *)
LEMMA RestIs ==
    ASSUME NEW r, IsRequest(r), NEW m \in Nat, NEW n \in Nat, m <= n, n <= Len(Body(r))
    PROVE  /\ Rest(r, m, n) \in Seq(Symbols) /\ Len(Rest(r, m, n)) = n - m
           /\ \A j \in 1..(n - m) : Rest(r, m, n)[j] = Body(r)[m + j]
<1> DEFINE k == n - m
           D == Body(r)
<1>1. k \in Nat /\ m + k = n
  OBVIOUS
<1>2. D \in Seq(Symbols) /\ m + k <= Len(D)
  BY <1>1, BodyIs
<1>3. /\ SubSeq(D, m + 1, m + k) \in Seq(Symbols)
      /\ Len(SubSeq(D, m + 1, m + k)) = k
      /\ \A j \in 1..k : SubSeq(D, m + 1, m + k)[j] = D[m + j]
  <2> HIDE DEF k, D
  <2> QED BY <1>1, <1>2, PieceIs
<1> QED BY <1>1, <1>3 DEF Rest

(* The next boundary of what is collected, from after the k-th one on. *)
LEMMA NextBoundary ==
    ASSUME NEW r, IsRequest(r), SentForm(r), NEW k \in 1..(Len(r.parts) + 1),
           NEW m \in Nat, NEW n \in Nat, m <= n, n <= Len(Body(r)),
           m <= Layout(r)[k],
           \A l \in 1..(Len(r.parts) + 1) : l < k => Layout(r)[l] < m
    PROVE  Position(Boundary, Rest(r, m, n)) =
               IF Layout(r)[k] + Len(Boundary) <= n THEN (Layout(r)[k] - m) + 1 ELSE 0
<1> DEFINE at   == Layout(r)
           K    == Len(r.parts)
           b    == Len(Boundary)
           L    == Len(r.content)
           D    == Body(r)
           E    == r.content
           coll == Rest(r, m, n)
           pos  == Position(Boundary, coll)
           a    == at[k]
           M    == Len(D)
<1>1. /\ K \in Nat /\ L \in Nat /\ at \in [1..(K + 1) -> 0..L]
      /\ L = at[K + 1] + b + 3
      /\ \A i \in 0..(L - b) :
             SubSeq(E, i + 1, i + b) = Boundary <=> \E l \in 1..(K + 1) : i = at[l]
  BY LayoutIs
<1>2. \A l, j \in 1..(K + 1) : l < j => at[l] + b + 9 <= at[j]
  BY LayoutGrows
<1>3. b \in Nat \ {0} /\ Boundary \in Seq(Symbols)
  BY BoundaryIs
<1>4. /\ D \in Seq(Symbols) /\ E \in Seq(Symbols) /\ Len(E) = L /\ M \in Nat /\ L <= M
      /\ \A i \in 1..L : D[i] = E[i]
  BY BodyIs
<1>5. coll \in Seq(Symbols) /\ Len(coll) = n - m
  BY RestIs
<1>6. m <= a /\ (\A l \in 1..(K + 1) : l < k => at[l] < m) /\ k \in 1..(K + 1) /\ n <= M
  OBVIOUS
<1>7. /\ pos \in Nat
      /\ pos # 0 => /\ pos \in 1..((n - m) - b + 1)
                    /\ SubSeq(coll, pos, pos + b - 1) = Boundary
      /\ \A i \in 1..((n - m) - b + 1) :
             SubSeq(coll, i, i + b - 1) = Boundary => pos # 0 /\ pos <= i
  <2>1. /\ pos \in Nat
        /\ pos # 0 => /\ pos \in 1..(Len(coll) - b + 1)
                      /\ SubSeq(coll, pos, pos + b - 1) = Boundary
        /\ \A i \in 1..(Len(coll) - b + 1) :
               SubSeq(coll, i, i + b - 1) = Boundary => pos # 0 /\ pos <= i
    <3> HIDE DEF coll
    <3> QED BY <1>3, <1>5, PositionFinds
  <2> QED BY <1>5, <2>1
<1>8. ASSUME NEW i \in 1..((n - m) - b + 1), (((m + i) - 1) + b) <= L
      PROVE  SubSeq(coll, i, i + b - 1) = Boundary
                 <=> \E l \in 1..(K + 1) : (m + i) - 1 = at[l]
  <2>0. /\ i \in Nat \ {0} /\ (i + b) - 1 <= n - m /\ (m + i) - 1 \in 0..(L - b)
        /\ ((m + i) - 1) + b <= L
    <3> HIDE DEF b, L
    <3> QED BY <1>1, <1>3, <1>8, SMTT(30)
  <2>1. SubSeq(coll, i, i + b - 1) = SubSeq(E, ((m + i) - 1) + 1, ((m + i) - 1) + b)
    <3>1. coll = SubSeq(D, m + 1, n)
      BY DEF Rest
    <3>2. SubSeq(SubSeq(D, m + 1, n), i, i + b - 1)
             = SubSeq(E, ((m + i) - 1) + 1, ((m + i) - 1) + b)
      <4> HIDE DEF D, E, b, L, coll
      <4>1. n <= Len(D)
        BY <1>6 DEF M
      <4>2. b \in Nat
        BY <1>3
      <4> QED BY <1>1, <1>4, <2>0, <4>1, <4>2, WindowIs, SMTT(30)
    <3> QED BY <3>1, <3>2
  <2> DEFINE o == (m + i) - 1
  <2>2. o \in 0..(L - b)
    BY <2>0
  <2>3. SubSeq(E, o + 1, o + b) = Boundary <=> \E l \in 1..(K + 1) : o = at[l]
    <3> HIDE DEF o, E, L, b, K, at
    <3> QED BY <1>1, <2>2
  <2> QED BY <2>1, <2>3
<1> HIDE DEF at, K, b, L, D, E, coll, pos, M
<1>9. \A l \in 1..(K + 1) : at[l] \in Nat /\ at[l] + b + 3 <= L
  <2> TAKE l \in 1..(K + 1)
  <2>1. K + 1 \in 1..(K + 1)
    BY <1>1
  <2>2. at[l] \in Nat /\ at[K + 1] \in Nat
    BY <1>1, <2>1
  <2>3. l = K + 1 \/ l < K + 1
    BY <1>1
  <2> QED BY <1>1, <1>2, <1>3, <2>1, <2>2, <2>3, SMTT(30)
<1>10. a \in Nat /\ a + b + 3 <= L
  BY <1>6, <1>9
(* an occurrence before the k-th boundary, there is none *)
<1>11. ASSUME NEW i \in 1..((n - m) - b + 1), (m + i) - 1 < a,
              SubSeq(coll, i, i + b - 1) = Boundary
       PROVE  FALSE
  <2>1. ((m + i) - 1) + b <= L
    BY ONLY <1>1, <1>3, <1>10, <1>11, SMTT(30)
  <2>2. PICK l \in 1..(K + 1) : (m + i) - 1 = at[l]
    BY <1>8, <1>11, <2>1
  <2>3. at[l] \in Nat /\ at[l] >= m /\ at[l] < a
    BY <1>11, <2>2
  <2>4. ~(l < k)
    BY <1>6, <2>3
  <2>5. ~(k < l)
    <3>1. k < l => a + b + 9 <= at[l]
      BY <1>2, <1>6 DEF a
    <3> HIDE DEF a
    <3> QED BY <1>3, <1>10, <2>3, <3>1
  <2>6. l = k
    BY <1>6, <2>4, <2>5, <1>1
  <2> QED BY <2>3, <2>6 DEF a
<1>12. CASE a + b <= n
  <2> DEFINE i == (a - m) + 1
  <2> HIDE DEF a
  <2>1. i \in 1..((n - m) - b + 1) /\ (m + i) - 1 = a /\ ((m + i) - 1) + b <= L
    BY ONLY <1>1, <1>3, <1>6, <1>10, <1>12, m \in Nat, n \in Nat
  <2> HIDE DEF i
  <2>2. SubSeq(coll, i, i + b - 1) = Boundary
    <3>1. a = at[k] /\ k \in 1..(K + 1)
      BY <1>6 DEF a
    <3> QED BY <1>8, <2>1, <3>1
  <2>3. pos # 0 /\ pos <= i
    BY <1>7, <2>1, <2>2
  <2>4. pos \in 1..((n - m) - b + 1) /\ SubSeq(coll, pos, pos + b - 1) = Boundary
    BY <1>7, <2>3
  <2>5. ~((m + pos) - 1 < a)
    BY <1>11, <2>4
  <2>6. pos = i
    BY <1>10, <2>1, <2>3, <2>4, <2>5
  <2> QED BY <1>12, <2>6 DEF i, pos, a, b, at, coll
<1>13. CASE ~(a + b <= n)
  <2> HIDE DEF a
  <2>1. pos = 0
    <3> SUFFICES ASSUME pos # 0
                 PROVE  FALSE
      OBVIOUS
    <3>1. pos \in 1..((n - m) - b + 1) /\ SubSeq(coll, pos, pos + b - 1) = Boundary
      BY <1>7
    <3>2. (m + pos) - 1 < a
      BY <1>3, <1>10, <1>13, <3>1
    <3> QED BY <1>11, <3>1, <3>2
  <2> QED BY <1>13, <2>1 DEF pos, a, b, at, coll
<1> QED BY <1>12, <1>13

(* The first l symbols. *)
LEMMA FirstsAre ==
    ASSUME NEW S, NEW data \in Seq(S), NEW l \in Nat, l <= Len(data)
    PROVE  /\ SubSeq(data, 1, l) \in Seq(S) /\ Len(SubSeq(data, 1, l)) = l
           /\ \A j \in 1..l : SubSeq(data, 1, l)[j] = data[j]
<1> DEFINE o == 0
<1>1. o \in Nat /\ o + l <= Len(data) /\ o + 1 = 1 /\ o + l = l /\ \A j \in 1..l : o + j = j
  OBVIOUS
<1> HIDE DEF o
<1>2. /\ SubSeq(data, o + 1, o + l) \in Seq(S)
      /\ Len(SubSeq(data, o + 1, o + l)) = l
      /\ \A j \in 1..l : SubSeq(data, o + 1, o + l)[j] = data[o + j]
  BY <1>1, PieceIs
<1>3. SubSeq(data, o + 1, o + l) = SubSeq(data, 1, l)
  BY <1>1
<1> QED BY <1>1, <1>2, <1>3

(* Where the header lines end: four symbols. *)
LEMMA EndOfHeadersAt ==
    ASSUME NEW coll \in Seq(Symbols), NEW n \in Nat, Len(coll) = n
    PROVE  LET pos == Position(EndOfHeaders, coll)
           IN  /\ pos \in Nat
               /\ pos # 0 => /\ pos \in 1..(n - 3)
                             /\ coll[pos] = "cr" /\ coll[pos + 1] = "lf"
                             /\ coll[pos + 2] = "cr" /\ coll[pos + 3] = "lf"
               /\ \A i \in 1..(n - 3) :
                      (/\ coll[i] = "cr" /\ coll[i + 1] = "lf"
                       /\ coll[i + 2] = "cr" /\ coll[i + 3] = "lf")
                          => pos # 0 /\ pos <= i
<1> DEFINE pos == Position(EndOfHeaders, coll)
           W(i) == SubSeq(coll, i, i + 4 - 1)
<1>1. EndOfHeaders \in Seq(Symbols) /\ Len(EndOfHeaders) = 4
      /\ EndOfHeaders[1] = "cr" /\ EndOfHeaders[2] = "lf"
      /\ EndOfHeaders[3] = "cr" /\ EndOfHeaders[4] = "lf"
  BY EndOfHeadersIs DEF EndOfHeaders
<1>2. /\ pos \in Nat
      /\ pos # 0 => /\ pos \in 1..(n - 4 + 1) /\ W(pos) = EndOfHeaders
      /\ \A i \in 1..(n - 4 + 1) : W(i) = EndOfHeaders => pos # 0 /\ pos <= i
  <2>1. /\ pos \in Nat
        /\ pos # 0 =>
               /\ pos \in 1..(Len(coll) - Len(EndOfHeaders) + 1)
               /\ SubSeq(coll, pos, pos + Len(EndOfHeaders) - 1) = EndOfHeaders
        /\ \A i \in 1..(Len(coll) - Len(EndOfHeaders) + 1) :
               SubSeq(coll, i, i + Len(EndOfHeaders) - 1) = EndOfHeaders =>
                   pos # 0 /\ pos <= i
    BY <1>1, PositionFinds
  <2> HIDE DEF pos
  <2>2. Len(coll) = n /\ Len(EndOfHeaders) = 4
    BY <1>1
  <2> QED BY <2>1, <2>2
<1>3. n - 4 + 1 = n - 3
  OBVIOUS
<1> HIDE DEF pos
<1>4. ASSUME NEW i \in 1..(n - 3)
      PROVE  /\ W(i) \in Seq(Symbols) /\ Len(W(i)) = 4
             /\ W(i)[1] = coll[i] /\ W(i)[2] = coll[i + 1]
             /\ W(i)[3] = coll[i + 2] /\ W(i)[4] = coll[i + 3]
  <2>1. i \in Nat \ {0} /\ 4 \in Nat /\ i + 4 - 1 <= n
    OBVIOUS
  <2>2. W(i) \in Seq(Symbols) /\ Len(W(i)) = 4 /\ \A j \in 1..4 : W(i)[j] = coll[(i - 1) + j]
    BY <2>1, SliceIs
  <2>3. /\ (i - 1) + 1 = i /\ (i - 1) + 2 = i + 1 /\ (i - 1) + 3 = i + 2 /\ (i - 1) + 4 = i + 3
    OBVIOUS
  <2> HIDE DEF W
  <2>4. /\ W(i)[1] = coll[(i - 1) + 1] /\ W(i)[2] = coll[(i - 1) + 2]
        /\ W(i)[3] = coll[(i - 1) + 3] /\ W(i)[4] = coll[(i - 1) + 4]
    BY <2>2
  <2> QED BY <2>2, <2>3, <2>4
<1> HIDE DEF W
<1>5. ASSUME NEW i \in 1..(n - 3)
      PROVE  W(i) = EndOfHeaders <=> /\ coll[i] = "cr" /\ coll[i + 1] = "lf"
                                     /\ coll[i + 2] = "cr" /\ coll[i + 3] = "lf"
  <2>1. W(i) = EndOfHeaders => /\ coll[i] = "cr" /\ coll[i + 1] = "lf"
                               /\ coll[i + 2] = "cr" /\ coll[i + 3] = "lf"
    BY <1>1, <1>4
  <2>2. ASSUME coll[i] = "cr", coll[i + 1] = "lf", coll[i + 2] = "cr", coll[i + 3] = "lf"
        PROVE  W(i) = EndOfHeaders
    <3>1. \A j \in 1..4 : j = 1 \/ j = 2 \/ j = 3 \/ j = 4
      OBVIOUS
    <3>2. \A j \in 1..4 : W(i)[j] = EndOfHeaders[j]
      BY <1>1, <1>4, <2>2, <3>1
    <3> DEFINE w == W(i)
               e == EndOfHeaders
    <3>3. /\ w \in Seq(Symbols) /\ e \in Seq(Symbols) /\ Len(w) = Len(e)
          /\ \A j \in 1..Len(w) : w[j] = e[j]
      BY <1>1, <1>4, <3>2
    <3> HIDE DEF w, e
    <3>4. w = e
      BY ONLY <3>3, SeqEqual
    <3> QED BY <3>4 DEF w, e
  <2> QED BY <2>1, <2>2
<1>6. pos # 0 => /\ pos \in 1..(n - 3)
                 /\ coll[pos] = "cr" /\ coll[pos + 1] = "lf"
                 /\ coll[pos + 2] = "cr" /\ coll[pos + 3] = "lf"
  BY <1>2, <1>3, <1>5
<1>7. \A i \in 1..(n - 3) :
          (/\ coll[i] = "cr" /\ coll[i + 1] = "lf"
           /\ coll[i + 2] = "cr" /\ coll[i + 3] = "lf") => pos # 0 /\ pos <= i
  BY <1>2, <1>3, <1>5
<1> QED BY <1>2, <1>6, <1>7 DEF pos

(* The header lines of a part, once they are all there. *)
LEMMA HeadersOfPart ==
    ASSUME NEW r, IsRequest(r), SentForm(r), NEW k \in 1..Len(r.parts),
           NEW n \in Nat, n <= Len(Body(r)),
           NEW m, BoundaryEnds(r, k, m), m <= n
    PROVE  LET coll == Rest(r, m, n)
           IN  /\ Position(EndOfHeaders, coll) = IF m + 7 <= n THEN 4 ELSE 0
               /\ m + 7 <= n => { h \in Range(SubSeq(coll, 1, 3)) : h \in DOMAIN Parts }
                                    = { r.parts[k].headers } \intersect DOMAIN Parts
<1> DEFINE H == r.parts[k].headers
           D == Body(r)
           coll == Rest(r, m, n)
           pos == Position(EndOfHeaders, coll)
           len == n - m
<1>1. /\ m \in Nat
      /\ D[m + 1] = "cr" /\ D[m + 2] = "lf" /\ D[m + 3] = H
      /\ D[m + 4] = "cr" /\ D[m + 5] = "lf" /\ D[m + 6] = "cr" /\ D[m + 7] = "lf"
  <2>1. m \in Nat /\ HasHeaders(D, m, H)
    BY PartIs
  <2> HIDE DEF D, H
  <2> QED BY <2>1 DEF HasHeaders
<1>2. m <= n /\ n <= Len(D)
  OBVIOUS
<1>3. coll \in Seq(Symbols) /\ Len(coll) = len /\ \A j \in 1..len : coll[j] = D[m + j]
  <2> HIDE DEF D
  <2> QED BY <1>1, <1>2, RestIs DEF D
<1> HIDE DEF D, coll, H
<1>4. len \in Nat
  BY <1>1, <1>2
<1>5. /\ pos \in Nat
      /\ pos # 0 => /\ pos \in 1..(len - 3)
                    /\ coll[pos] = "cr" /\ coll[pos + 1] = "lf"
                    /\ coll[pos + 2] = "cr" /\ coll[pos + 3] = "lf"
      /\ \A i \in 1..(len - 3) :
             (/\ coll[i] = "cr" /\ coll[i + 1] = "lf"
              /\ coll[i + 2] = "cr" /\ coll[i + 3] = "lf") => pos # 0 /\ pos <= i
  <2> HIDE DEF len
  <2> QED BY <1>3, <1>4, EndOfHeadersAt
<1>6. m + 7 <= n <=> len >= 7
  BY <1>1
<1> HIDE DEF len, pos
<1>7. pos # 1 /\ pos # 2 /\ pos # 3
  <2>1. pos = 1 => coll[4] = "lf" /\ 4 \in 1..len
    BY <1>4, <1>5
  <2>2. pos = 2 => coll[2] = "cr" /\ 2 \in 1..len
    BY <1>4, <1>5
  <2>3. pos = 3 => coll[4] = "lf" /\ 4 \in 1..len
    BY <1>4, <1>5
  <2>4. /\ 4 \in 1..len => coll[4] = D[m + 4]
        /\ 2 \in 1..len => coll[2] = D[m + 2]
    BY <1>3
  <2> QED BY <1>1, <2>1, <2>2, <2>3, <2>4
<1>8. CASE m + 7 <= n
  <2>1. /\ 1 \in 1..len /\ 2 \in 1..len /\ 3 \in 1..len /\ 4 \in 1..len /\ 5 \in 1..len
        /\ 6 \in 1..len /\ 7 \in 1..len /\ 4 \in 1..(len - 3) /\ len >= 7
    BY <1>4, <1>6, <1>8
  <2>2. /\ coll[1] = "cr" /\ coll[2] = "lf" /\ coll[3] = H
        /\ coll[4] = "cr" /\ coll[5] = "lf" /\ coll[6] = "cr" /\ coll[7] = "lf"
    BY <1>1, <1>3, <2>1
  <2>3. pos # 0 /\ pos <= 4
    <3>1. 4 + 1 = 5 /\ 4 + 2 = 6 /\ 4 + 3 = 7
      OBVIOUS
    <3> QED BY <1>5, <2>1, <2>2, <3>1
  <2>4. pos = 4
    BY <1>5, <1>7, <2>3
  <2> DEFINE lines == SubSeq(coll, 1, 3)
  <2>5. lines \in Seq(Symbols) /\ Len(lines) = 3 /\ \A j \in 1..3 : lines[j] = coll[j]
    <3> DEFINE three == 3
    <3>1. three \in Nat /\ three <= Len(coll)
      BY <1>3, <1>4, <2>1
    <3>2. three = 3
      OBVIOUS
    <3> HIDE DEF three
    <3>3. /\ SubSeq(coll, 1, three) \in Seq(Symbols) /\ Len(SubSeq(coll, 1, three)) = three
          /\ \A j \in 1..three : SubSeq(coll, 1, three)[j] = coll[j]
      BY <1>3, <3>1, FirstsAre
    <3> QED BY <3>2, <3>3
  <2> HIDE DEF lines
  <2>6. Range(lines) = { "cr", "lf", H }
    <3>1. Range(lines) = { lines[j] : j \in 1..3 }
      BY <2>5, RangeEquality
    <3>2. lines[1] = "cr" /\ lines[2] = "lf" /\ lines[3] = H
      BY <2>2, <2>5
    <3>3. 1..3 = { 1, 2, 3 }
      OBVIOUS
    <3> QED BY <3>1, <3>2, <3>3
  <2>7. "cr" \notin DOMAIN Parts /\ "lf" \notin DOMAIN Parts
    BY FormAssumption
  <2>8. { h \in Range(lines) : h \in DOMAIN Parts } = { H } \intersect DOMAIN Parts
    BY <2>6, <2>7
  <2> QED BY <1>8, <2>4, <2>8 DEF pos, coll, H, lines
<1>9. CASE ~(m + 7 <= n)
  <2>1. pos = 0
    <3>1. ~(len >= 7)
      BY <1>6, <1>9
    <3> QED BY <1>4, <1>5, <1>7, <3>1
  <2> QED BY <1>9, <2>1 DEF pos, coll
<1> QED BY <1>8, <1>9

(* After the last boundary there are no header lines of a part. *)
LEMMA HeadersBeyond ==
    ASSUME NEW r, IsRequest(r), SentForm(r), NEW n \in Nat, n <= Len(Body(r)),
           NEW m, BoundaryEnds(r, Len(r.parts) + 1, m), m <= n
    PROVE  LET coll == Rest(r, m, n)
               pos  == Position(EndOfHeaders, coll)
           IN  pos # 0 => { h \in Range(SubSeq(coll, 1, pos - 1)) : h \in DOMAIN Parts } = {}
<1> DEFINE K == Len(r.parts)
           at == Layout(r)
           b == Len(Boundary)
           L == Len(r.content)
           E == r.content
           D == Body(r)
           a == at[K + 1]
           coll == Rest(r, m, n)
           pos == Position(EndOfHeaders, coll)
           len == n - m
           T == { "-", "cr", "lf" } \union Range(r.extra)
<1>1. /\ K \in Nat /\ L \in Nat /\ at \in [1..(K + 1) -> 0..L]
      /\ L = a + b + 3
      /\ SubSeq(E, a + b + 1, L) = << "-", "cr", "lf" >>
  BY LayoutIs
<1>2. b \in Nat
  BY BoundaryIs
<1>3. /\ E \in Seq(Symbols) /\ Len(E) = L /\ Len(D) \in Nat
      /\ \A i \in 1..L : D[i] = E[i]
      /\ \A i \in 1..Len(D) : i > L => D[i] \in Range(r.extra)
  BY BodyIs
<1>4. m <= n /\ n <= Len(D) /\ m = a + b
  BY DEF BoundaryEnds
<1>5. m \in Nat
  <2>1. a \in Nat
    <3>1. K + 1 \in 1..(K + 1)
      BY <1>1
    <3> HIDE DEF at, K, L
    <3> QED BY <1>1, <3>1
  <2> HIDE DEF a, b
  <2> QED BY <1>2, <1>4, <2>1
<1>6. coll \in Seq(Symbols) /\ Len(coll) = len /\ \A j \in 1..len : coll[j] = D[m + j]
  <2> QED BY <1>4, <1>5, RestIs, ZenonT(60)
<1>7. L = m + 3 /\ SubSeq(E, m + 1, m + 3) = << "-", "cr", "lf" >>
  BY <1>1, <1>4
<1> HIDE DEF K, at, b, L, E, D, a, coll, pos, len
<1>8. \A i \in 1..3 : D[m + i] \in { "-", "cr", "lf" }
  <2> TAKE i \in 1..3
  <2>1. SubSeq(E, m + 1, m + 3)[i] = E[m + i]
    <3> DEFINE three == 3
    <3>1. three = 3 /\ three \in Nat /\ m + three <= Len(E)
      BY <1>3, <1>5, <1>7
    <3> HIDE DEF three
    <3>2. \A j \in 1..three : SubSeq(E, m + 1, m + three)[j] = E[m + j]
      BY <1>3, <1>5, <3>1, PieceIs, ZenonT(60)
    <3> QED BY <3>1, <3>2
  <2>2. << "-", "cr", "lf" >>[i] \in { "-", "cr", "lf" }
    <3>1. i = 1 \/ i = 2 \/ i = 3
      OBVIOUS
    <3> QED BY <3>1
  <2>3. m + i \in 1..L
    BY <1>5, <1>7
  <2> QED BY <1>3, <1>7, <2>1, <2>2, <2>3
<1>9. len \in Nat /\ len = n - m
  BY <1>4, <1>5 DEF len
<1>10. \A j \in 1..len : coll[j] \in T
  <2> TAKE j \in 1..len
  <2>1. CASE j <= 3
    BY <1>6, <1>8, <2>1
  <2>2. CASE j > 3
    <3>1. m + j \in 1..Len(D) /\ m + j > L
      BY ONLY <1>3, <1>4, <1>5, <1>7, <1>9, <2>2, j \in 1..len, n \in Nat, SMTT(30)
    <3> QED BY <1>3, <1>6, <3>1
  <2> QED BY <2>1, <2>2
<1>11. ASSUME pos # 0
       PROVE  { h \in Range(SubSeq(coll, 1, pos - 1)) : h \in DOMAIN Parts } = {}
  <2>1. pos \in 1..(len - 3)
    <3>1. pos # 0 => pos \in 1..(len - 3)
      <4> HIDE DEF T
      <4> QED BY <1>6, <1>9, EndOfHeadersAt DEF pos
    <3> QED BY <1>11, <3>1
  <2> DEFINE l == pos - 1
             lines == SubSeq(coll, 1, l)
  <2>2. l \in Nat /\ l = pos - 1 /\ l <= len
    BY <1>9, <2>1
  <2> HIDE DEF l
  <2>3. lines \in Seq(Symbols) /\ Len(lines) = l /\ \A j \in 1..l : lines[j] = coll[j]
    <3>1. l <= Len(coll)
      BY <1>6, <2>2
    <3> QED BY <1>6, <2>2, <3>1, FirstsAre
  <2>4. lines = SubSeq(coll, 1, pos - 1)
    BY <2>2
  <2> HIDE DEF lines
  <2>5. Range(lines) = { lines[j] : j \in 1..l }
    BY <2>3, RangeEquality
  <2>6. \A j \in 1..l : lines[j] \in T
    <3> TAKE j \in 1..l
    <3>1. j \in 1..len
      BY <1>9, <2>2
    <3> QED BY <1>10, <2>3, <3>1
  <2>7. T \intersect DOMAIN Parts = {}
    <3>1. Range(r.extra) \intersect DOMAIN Parts = {}
      BY Zenon DEF IsRequest
    <3>2. DOMAIN Parts \subseteq Symbols \ { "cr", "lf", "-" }
      BY FormAssumption
    <3> QED BY <3>1, <3>2
  <2> HIDE DEF T
  <2> QED BY <2>4, <2>5, <2>6, <2>7
<1> QED BY <1>11 DEF pos, coll

(* Boundaries end before the content does, and are apart. *)
LEMMA BoundaryPlace ==
    ASSUME NEW r, IsRequest(r), SentForm(r), NEW k \in 1..(Len(r.parts) + 1),
           NEW a, a = Layout(r)[k], NEW b, b = Len(Boundary), NEW L, L = Len(r.content)
    PROVE  /\ a \in Nat /\ b \in Nat \ {0} /\ L \in Nat /\ a + b + 3 <= L
           /\ k = 1 => a = 0
           /\ \A l \in 1..(Len(r.parts) + 1) : l < k =>
                  Layout(r)[l] \in Nat /\ Layout(r)[l] + b + 9 <= a
<1> DEFINE K == Len(r.parts)
           at == Layout(r)
<1>1. /\ K \in Nat /\ L \in Nat /\ at \in [1..(K + 1) -> 0..L] /\ at[1] = 0
      /\ L = at[K + 1] + b + 3
  BY LayoutIs
<1>2. b \in Nat \ {0}
  BY BoundaryIs
<1>3. \A l, j \in 1..(K + 1) : l < j => at[l] + b + 9 <= at[j]
  BY LayoutGrows
<1>4. k \in 1..(K + 1) /\ a = at[k]
  OBVIOUS
<1> HIDE DEF K, at
<1>5. \A l \in 1..(K + 1) : at[l] \in Nat
  BY <1>1
<1>6. a + b + 3 <= L
  <2>1. K + 1 \in 1..(K + 1)
    BY <1>1
  <2>2. CASE k = K + 1
    BY <1>1, <1>2, <1>4, <1>5, <2>1, <2>2
  <2>3. CASE k < K + 1
    <3>1. at[k] + b + 9 <= at[K + 1]
      BY <1>3, <1>4, <2>1, <2>3
    <3> DEFINE e == at[K + 1]
    <3>2. e \in Nat /\ L = e + b + 3 /\ a + b + 9 <= e /\ a \in Nat
      BY <1>1, <1>4, <1>5, <2>1, <3>1
    <3> HIDE DEF e
    <3> QED BY ONLY <1>1, <1>2, <3>2
  <2> QED BY <1>1, <1>4, <2>2, <2>3
<1>7. \A l \in 1..(K + 1) : l < k => at[l] \in Nat /\ at[l] + b + 9 <= a
  BY <1>3, <1>4, <1>5
<1> QED BY <1>1, <1>2, <1>4, <1>5, <1>6, <1>7 DEF K, at

(* The end of a boundary, and of the next one. *)
LEMMA NextEnds ==
    ASSUME NEW r, IsRequest(r), SentForm(r), NEW k \in 1..Len(r.parts),
           NEW s, BoundaryEnds(r, k, s)
    PROVE  /\ Len(r.parts[k].content) \in Nat /\ s \in Nat
           /\ k + 1 \in 1..(Len(r.parts) + 1)
           /\ Layout(r)[k + 1] = s + 9 + Len(r.parts[k].content)
<1> DEFINE c == Len(r.parts[k].content)
           e == Layout(r)[k + 1]
<1>1. c \in Nat /\ s \in Nat /\ s + 9 + c = e
  BY PartIs
<1>2. k + 1 \in 1..(Len(r.parts) + 1)
  BY LayoutIs
<1> HIDE DEF c, e
<1>3. e = s + 9 + c
  BY <1>1
<1> QED BY <1>1, <1>2, <1>3 DEF c, e

(* What is left to read, once d symbols more are taken. *)
LEMMA RestSkip ==
    ASSUME NEW r, IsRequest(r), NEW m \in Nat, NEW n \in Nat, m <= n, n <= Len(Body(r)),
           NEW d \in Nat, m + d <= n
    PROVE  Skip(Rest(r, m, n), d) = Rest(r, m + d, n)
<1> DEFINE coll == Rest(r, m, n)
           left == Skip(coll, d)
           right == Rest(r, m + d, n)
           D == Body(r)
           l == n - (m + d)
<1>1. coll \in Seq(Symbols) /\ Len(coll) = n - m /\ \A j \in 1..(n - m) : coll[j] = D[m + j]
  BY RestIs
<1>2. right \in Seq(Symbols) /\ Len(right) = l /\ \A j \in 1..l : right[j] = D[(m + d) + j]
  <2> DEFINE o == m + d
  <2>1. o \in Nat /\ o <= n
    OBVIOUS
  <2> HIDE DEF o
  <2>2. Rest(r, o, n) \in Seq(Symbols) /\ Len(Rest(r, o, n)) = n - o
        /\ \A j \in 1..(n - o) : Rest(r, o, n)[j] = D[o + j]
    BY <2>1, RestIs
  <2> QED BY <2>2 DEF o
<1> HIDE DEF coll, right, D
<1>3. d \in 0..Len(coll) /\ Len(coll) - d = l /\ l \in Nat
  BY <1>1
<1>4. left \in Seq(Symbols) /\ Len(left) = l /\ \A j \in 1..l : left[j] = coll[d + j]
  <2> HIDE DEF l
  <2> QED BY <1>1, <1>3, SkipProps
<1> HIDE DEF left
<1>5. \A j \in 1..l : left[j] = right[j]
  <2> TAKE j \in 1..l
  <2>1. d + j \in 1..(n - m) /\ m + (d + j) = (m + d) + j
    BY <1>3
  <2>2. coll[d + j] = D[m + (d + j)]
    BY <1>1, <2>1
  <2> QED BY <1>2, <1>4, <2>1, <2>2
<1>6. left = right
  BY <1>2, <1>4, <1>5, SeqEqual
<1> QED BY <1>6 DEF left, right, coll

(* What a part holds. *)
ContentOf(r, k) == r.parts[k].content

(* The m-th symbol is the c-th of the content of the k-th part. *)
ContentTaken(r, k, c, m) ==
    \E s \in Nat : BoundaryEnds(r, k, s) /\ m = s + 7 + c

(* What is known when c symbols of a content have been taken. *)
LEMMA TakenIs ==
    ASSUME NEW r, IsRequest(r), SentForm(r), NEW k \in 1..Len(r.parts),
           NEW m, NEW c \in Nat, c <= Len(ContentOf(r, k)), ContentTaken(r, k, c, m)
    PROVE  /\ ContentOf(r, k) \in Seq(Symbols) /\ Len(ContentOf(r, k)) \in Nat /\ m \in Nat
           /\ k + 1 \in 1..(Len(r.parts) + 1)
           /\ Layout(r)[k + 1] = m + ((Len(ContentOf(r, k)) - c) + 2)
           /\ \A i \in 1..(Len(ContentOf(r, k)) - c) :
                  Body(r)[m + i] = ContentOf(r, k)[c + i]
           /\ \A s : BoundaryEnds(r, k, s) => m = s + 7 + c
<1> DEFINE C == ContentOf(r, k)
           D == Body(r)
           e == Layout(r)[k + 1]
           l == Len(C)
<1>1. C \in Seq(Symbols)
  BY LayoutIs DEF ContentOf
<1>2. PICK s \in Nat : BoundaryEnds(r, k, s) /\ m = s + 7 + c
  BY DEF ContentTaken
<1>3. l \in Nat /\ \A i \in 1..l : D[s + 7 + i] = C[i]
  <2>1. l \in Nat
    BY <1>1, LenProperties
  <2>2. HasContent(D, s, C)
    BY ONLY IsRequest(r), SentForm(r), k \in 1..Len(r.parts), <1>2, PartIs DEF ContentOf
  <2> HIDE DEF C, D
  <2> QED BY <2>1, <2>2 DEF HasContent
<1>4. k + 1 \in 1..(Len(r.parts) + 1) /\ e = s + 9 + l
  BY <1>2, NextEnds DEF ContentOf
<1>5. \A s2 : BoundaryEnds(r, k, s2) => s2 = s
  BY <1>2 DEF BoundaryEnds
<1>6. c <= l
  OBVIOUS
<1> HIDE DEF C, D, e, l
<1>7. m \in Nat /\ e = m + ((l - c) + 2)
  BY ONLY <1>2, <1>3, <1>4, <1>6, c \in Nat
<1>8. \A i \in 1..(l - c) : D[m + i] = C[c + i]
  <2> TAKE i \in 1..(l - c)
  <2>0. i \in 1..(l - c) /\ c \in Nat
    OBVIOUS
  <2>1. c + i \in 1..l /\ s + 7 + (c + i) = m + i
    BY ONLY <1>2, <1>3, <1>6, <2>0
  <2> QED BY <1>3, <2>1
<1>9. \A s2 : BoundaryEnds(r, k, s2) => m = s2 + 7 + c
  BY <1>2, <1>5
<1> QED BY <1>1, <1>3, <1>4, <1>7, <1>8, <1>9 DEF C, D, e, l

(* What a field is given next is the next piece of the content of its part. *)
LEMMA ContentGrows ==
    ASSUME NEW r, IsRequest(r), SentForm(r), NEW k \in 1..Len(r.parts),
           NEW m, NEW c \in Nat, NEW d \in Nat, c + d <= Len(ContentOf(r, k)),
           ContentTaken(r, k, c, m),
           NEW n \in Nat, m + d <= n, n <= Len(Body(r))
    PROVE  /\ SubSeq(ContentOf(r, k), 1, c) \o SubSeq(Rest(r, m, n), 1, d)
                  = SubSeq(ContentOf(r, k), 1, c + d)
           /\ ContentTaken(r, k, c + d, m + d)
<1> DEFINE C == ContentOf(r, k)
           lC == Len(C)
           coll == Rest(r, m, n)
           D == Body(r)
           lD == Len(D)
           old == SubSeq(C, 1, c)
           new == SubSeq(coll, 1, d)
           e == c + d
           all == SubSeq(C, 1, e)
           cat == old \o new
<1>0. /\ IsRequest(r) /\ SentForm(r) /\ k \in 1..Len(r.parts) /\ c \in Nat /\ d \in Nat
      /\ n \in Nat /\ m + d <= n /\ n <= lD /\ e <= lC /\ e = c + d
      /\ ContentTaken(r, k, c, m) /\ C = ContentOf(r, k) /\ Len(C) = lC
  OBVIOUS
<1> HIDE DEF e, lC, lD, D
<1>1. C \in Seq(Symbols) /\ lC \in Nat
  <2>1. C \in Seq(Symbols)
    BY LayoutIs DEF ContentOf
  <2> HIDE DEF C
  <2> QED BY <1>0, <2>1, LenProperties
<1>2. m \in Nat /\ \A i \in 1..(lC - c) : D[m + i] = C[c + i]
  <2>1. c <= lC
    BY <1>0, <1>1
  <2> QED BY <1>0, <2>1, TakenIs, SMTT(60) DEF D
<1>3. m <= n /\ e \in Nat /\ c <= lC
  BY <1>0, <1>1, <1>2
<1>4. coll \in Seq(Symbols) /\ Len(coll) = n - m /\ \A j \in 1..(n - m) : coll[j] = D[m + j]
  BY <1>0, <1>2, <1>3, RestIs, SMTT(30) DEF D, lD
<1> HIDE DEF coll, C
<1>5. new \in Seq(Symbols) /\ Len(new) = d /\ \A j \in 1..d : new[j] = coll[j]
  <2>1. d <= Len(coll)
    BY <1>0, <1>2, <1>4
  <2> QED BY <1>0, <1>4, <2>1, FirstsAre
<1>6. old \in Seq(Symbols) /\ Len(old) = c /\ \A j \in 1..c : old[j] = C[j]
  BY <1>0, <1>1, <1>3, FirstsAre
<1>7. all \in Seq(Symbols) /\ Len(all) = e /\ \A j \in 1..e : all[j] = C[j]
  BY <1>0, <1>1, <1>3, FirstsAre
<1> HIDE DEF old, new
<1>8. IsJoin(cat, old, new, c, d)
  BY <1>5, <1>6, Joined
<1> HIDE DEF cat, all
<1>9. \A i \in 1..d : new[i] = C[c + i]
  <2> TAKE i \in 1..d
  <2>0. i \in 1..d
    OBVIOUS
  <2>1. i \in 1..(n - m) /\ i \in 1..(lC - c)
    BY ONLY <1>0, <1>1, <1>2, <2>0
  <2> QED BY <1>2, <1>4, <1>5, <2>1
<1>10. \A i \in 1..e : cat[i] = all[i]
  <2> TAKE i \in 1..e
  <2>0. i \in 1..e
    OBVIOUS
  <2>1. CASE i <= c
    <3>1. i \in 1..c
      BY ONLY <1>0, <1>3, <2>0, <2>1
    <3>2. cat[i] = old[i]
      BY <1>8, <3>1 DEF IsJoin
    <3> QED BY <1>6, <1>7, <2>0, <3>1, <3>2
  <2>2. CASE i > c
    <3> DEFINE j == i - c
    <3>1. j \in 1..d /\ c + j = i
      BY ONLY <1>0, <1>3, <2>0, <2>2
    <3> HIDE DEF j
    <3>2. cat[c + j] = new[j] /\ new[j] = C[c + j]
      BY <1>8, <1>9, <3>1 DEF IsJoin
    <3> QED BY <1>7, <2>0, <3>1, <3>2
  <2> QED BY <1>0, <1>3, <2>0, <2>1, <2>2
<1>11. cat = all
  <2>1. cat \in Seq(Symbols) /\ Len(cat) = e
    BY <1>0, <1>8 DEF IsJoin
  <2> QED BY <1>7, <1>10, <2>1, SeqEqual
<1>12. ContentTaken(r, k, e, m + d)
  <2>1. PICK s \in Nat : BoundaryEnds(r, k, s) /\ m = s + 7 + c
    BY <1>0 DEF ContentTaken
  <2>2. m + d = s + 7 + e
    BY ONLY <1>0, <2>1
  <2> QED BY <2>1, <2>2 DEF ContentTaken
<1> QED BY <1>11, <1>12 DEF cat, all, old, new, coll, C, e

-----------------------------------------------------------------------------
(* The parser of a form, on a form as it is sent *)

(* The fields of the first k parts, under the names sent. *)
FieldsUpTo(r, p, k) ==
    /\ DOMAIN p.fields = KeysUpTo(r.parts, k)
    /\ \A j \in 1..k :
           /\ r.parts[j].headers \in DOMAIN Parts
           /\ p.fields[KeyOf(r.parts, j)].filename = Parts[r.parts[j].headers].filename

(* The fields have the names of their parts. *)
LEMMA FieldsHaveNames ==
    ASSUME NEW r, NEW p, NEW k, FieldsUpTo(r, p, k)
    PROVE  \A j \in 1..k : NameOf(r.parts, j) \in Names
BY FormAssumption DEF FieldsUpTo, NameOf

(* A file field has got these symbols. *)
HasGot(p, key, data) == p.fields[key].filename # NoFilename => StoredIn(p, key) = data

(* The files of the first k parts are whole. *)
WholeUpTo(r, p, k) == \A j \in 1..k : HasGot(p, KeyOf(r.parts, j), ContentOf(r, j))

(* Where a form's parser is when n symbols of the content were given to it and
   m of them are off what it collects. *)
Looks(r, p, k, m) ==
    /\ p.status = "LookingForStartingBoundary" /\ WholeUpTo(r, p, k)
    /\ m <= Layout(r)[k + 1]
    /\ \A l \in 1..(Len(r.parts) + 1) : l < k + 1 => Layout(r)[l] < m

AwaitsHeaders(r, p, k, m) ==
    /\ p.status = "ProcessingHeaders" /\ WholeUpTo(r, p, k)
    /\ BoundaryEnds(r, k + 1, m)

TakesContent(r, p, k, m) ==
    /\ p.status = "ProcessingContentOfTheField"
    /\ k >= 1 /\ WholeUpTo(r, p, k - 1)
    /\ p.current = KeyOf(r.parts, k)
    /\ \E c \in Nat : /\ c <= Len(ContentOf(r, k)) /\ ContentTaken(r, k, c, m)
                      /\ HasGot(p, KeyOf(r.parts, k), SubSeq(ContentOf(r, k), 1, c))

FormAt(r, n, p, k, m) ==
    /\ k \in 0..Len(r.parts) /\ m \in Nat /\ m <= n
    /\ p.collector = Rest(r, m, n)
    /\ FieldsUpTo(r, p, k)
    /\ Looks(r, p, k, m) \/ AwaitsHeaders(r, p, k, m) \/ TakesContent(r, p, k, m)

(* What a step that leaves the fields alone keeps. *)
LEMMA SameFields ==
    ASSUME NEW r, NEW p, NEW q, NEW k, q.fields = p.fields, q.disk = p.disk
    PROVE  /\ FieldsUpTo(r, p, k) => FieldsUpTo(r, q, k)
           /\ \A j : WholeUpTo(r, p, j) => WholeUpTo(r, q, j)
           /\ \A key, data : HasGot(p, key, data) => HasGot(q, key, data)
BY DEF FieldsUpTo, WholeUpTo, HasGot, StoredIn

(* There is a boundary to come, and the content does not end with it. *)
LEMMA PartsAhead ==
    ASSUME NEW r, IsRequest(r), SentForm(r), NEW k \in 0..Len(r.parts)
    PROVE  /\ k + 1 \in 1..(Len(r.parts) + 1)
           /\ Layout(r)[k + 1] \in Nat /\ Len(Boundary) \in Nat \ {0}
           /\ Len(r.content) \in Nat
           /\ Layout(r)[k + 1] + Len(Boundary) + 3 <= Len(r.content)
<1>1. k + 1 \in 1..(Len(r.parts) + 1)
  BY LayoutIs
<1> DEFINE j == k + 1
<1> HIDE DEF j
<1>2. /\ Layout(r)[j] \in Nat /\ Len(Boundary) \in Nat \ {0} /\ Len(r.content) \in Nat
      /\ Layout(r)[j] + Len(Boundary) + 3 <= Len(r.content)
  <2> DEFINE a == Layout(r)[j]
             b == Len(Boundary)
             L == Len(r.content)
  <2>1. j \in 1..(Len(r.parts) + 1) /\ a = Layout(r)[j] /\ b = Len(Boundary) /\ L = Len(r.content)
    BY <1>1 DEF j
  <2> HIDE DEF a, b, L
  <2>2. a \in Nat /\ b \in Nat \ {0} /\ L \in Nat /\ a + b + 3 <= L
    BY ONLY IsRequest(r), SentForm(r), <2>1, BoundaryPlace
  <2> QED BY <2>2 DEF a, b, L
<1> QED BY <1>1, <1>2 DEF j

(* A round that looks for the next boundary of a form as it is sent. *)
LEMMA LooksOn ==
    ASSUME NEW r, IsRequest(r), SentForm(r), NEW n \in Nat, n <= Len(Body(r)),
           NEW p, FormOK(p), ~p.threw, NEW k, NEW m, FormAt(r, n, p, k, m),
           p.status = "LookingForStartingBoundary"
    PROVE  LET q == LookForBoundary(p)
           IN  /\ \E m2 : FormAt(r, n, q, k, m2)
               /\ q.status = p.status => n < Len(r.content)
<1> DEFINE q == LookForBoundary(p)
           a == Layout(r)[k + 1]
           b == Len(Boundary)
           L == Len(r.content)
           pos == Position(Boundary, p.collector)
<1>1. /\ k \in 0..Len(r.parts) /\ m \in Nat /\ m <= n
      /\ p.collector = Rest(r, m, n)
      /\ FieldsUpTo(r, p, k)
      /\ Looks(r, p, k, m)
  BY DEF FormAt, AwaitsHeaders, TakesContent
<1>2. /\ k + 1 \in 1..(Len(r.parts) + 1) /\ a \in Nat /\ b \in Nat \ {0}
      /\ L \in Nat /\ a + b + 3 <= L
  BY <1>1, PartsAhead
<1>3. pos = IF a + b <= n THEN (a - m) + 1 ELSE 0
  <2> DEFINE j == k + 1
  <2>1. /\ m <= Layout(r)[j] /\ j \in 1..(Len(r.parts) + 1)
        /\ \A l \in 1..(Len(r.parts) + 1) : l < j => Layout(r)[l] < m
    BY <1>1, <1>2 DEF Looks
  <2> HIDE DEF j
  <2>2. Position(Boundary, Rest(r, m, n)) =
            IF Layout(r)[j] + Len(Boundary) <= n THEN (Layout(r)[j] - m) + 1 ELSE 0
    BY <1>1, <2>1, NextBoundary
  <2> QED BY <1>1, <2>2 DEF j
<1>4. m <= a
  BY <1>1 DEF Looks
<1>5. /\ pos = 0 => q = p
      /\ pos # 0 => /\ q.status = "ProcessingHeaders"
                    /\ q.collector = Skip(p.collector, pos + b - 1)
                    /\ q.fields = p.fields /\ q.disk = p.disk
  BY LookForBoundaryOK
<1> HIDE DEF q, a, b, L, pos
<1>6. CASE a + b <= n
  <2>1. pos # 0 /\ pos + b - 1 = (a - m) + b
    BY <1>1, <1>2, <1>3, <1>4, <1>6
  <2> DEFINE d == (a - m) + b
  <2>2. d \in Nat /\ m + d <= n /\ m + d = a + b
    BY <1>1, <1>2, <1>4, <1>6
  <2>3. q.collector = Rest(r, m + d, n)
    <3>1. q.collector = Skip(Rest(r, m, n), d)
      BY <1>1, <1>5, <2>1
    <3> HIDE DEF d
    <3> QED BY <1>1, <2>2, <3>1, RestSkip
  <2> HIDE DEF d
  <2>4. WholeUpTo(r, q, k) /\ FieldsUpTo(r, q, k)
    <3>1. WholeUpTo(r, p, k) /\ q.fields = p.fields /\ q.disk = p.disk
      BY <1>1, <1>5, <2>1 DEF Looks
    <3> QED BY <1>1, <3>1, SameFields
  <2>5. AwaitsHeaders(r, q, k, m + d)
    <3>1. BoundaryEnds(r, k + 1, m + d)
      BY <2>2 DEF BoundaryEnds, a, b
    <3> QED BY <1>5, <2>1, <2>4, <3>1 DEF AwaitsHeaders
  <2>6. m + d \in Nat
    BY <1>1, <2>2
  <2>7. FormAt(r, n, q, k, m + d)
    BY <1>1, <2>2, <2>3, <2>4, <2>5, <2>6 DEF FormAt
  <2>8. q.status # p.status
    BY <1>5, <2>1
  <2> QED BY <2>7, <2>8 DEF q
<1>7. CASE ~(a + b <= n)
  <2>1. q = p
    BY <1>3, <1>5, <1>7
  <2>2. n < L
    BY <1>2, <1>7
  <2> QED BY <2>1, <2>2 DEF q, L
<1> QED BY <1>6, <1>7

(* Content taken lies between two boundaries. *)
LEMMA TakenBetween ==
    ASSUME NEW r, IsRequest(r), SentForm(r), NEW k \in 1..Len(r.parts),
           NEW m, NEW c \in Nat, c <= Len(ContentOf(r, k)), ContentTaken(r, k, c, m)
    PROVE  /\ m <= Layout(r)[k + 1]
           /\ \A l \in 1..(Len(r.parts) + 1) : l < k + 1 => Layout(r)[l] < m
<1> DEFINE lC == Len(ContentOf(r, k))
           K == Len(r.parts)
           at == Layout(r)
           a == at[k]
           e == at[k + 1]
           b == Len(Boundary)
           L == Len(r.content)
           s == a + b
<1>1. /\ lC \in Nat /\ m \in Nat /\ e = m + ((lC - c) + 2)
      /\ \A t : BoundaryEnds(r, k, t) => m = t + 7 + c
  BY TakenIs
<1>2. k \in 1..(K + 1) /\ c <= lC /\ k \in 1..K /\ a = at[k] /\ b = Len(Boundary) /\ L = Len(r.content)
      /\ K \in Nat
  <2>1. K \in Nat
    BY LayoutIs
  <2>2. k \in 1..K /\ c <= lC
    OBVIOUS
  <2> HIDE DEF K, lC
  <2> QED BY <2>1, <2>2
<1>3. BoundaryEnds(r, k, s)
  BY DEF BoundaryEnds
<1>4. m = s + 7 + c
  BY <1>1, <1>3
<1> HIDE DEF a, b, L, e, lC
<1>5. /\ a \in Nat /\ b \in Nat \ {0}
      /\ \A l \in 1..(K + 1) : l < k => at[l] \in Nat /\ at[l] + b + 9 <= a
  BY ONLY IsRequest(r), SentForm(r), <1>2, BoundaryPlace
<1>6. m <= e
  BY ONLY <1>1, <1>2, c \in Nat
<1> HIDE DEF K, at
<1>7. \A l \in 1..(K + 1) : l < k + 1 => at[l] < m
  <2> TAKE l \in 1..(K + 1)
  <2>0. l \in 1..(K + 1)
    OBVIOUS
  <2>1. CASE l < k
    <3> DEFINE x == at[l]
    <3>1. x \in Nat /\ x + b + 9 <= a
      BY <1>5, <2>0, <2>1
    <3> HIDE DEF x
    <3>2. x < m
      BY ONLY <1>4, <1>5, <3>1, c \in Nat DEF s
    <3> QED BY <3>2 DEF x
  <2>2. CASE l = k
    <3>1. a < m
      BY ONLY <1>4, <1>5, c \in Nat DEF s
    <3> QED BY <1>2, <2>2, <3>1
  <2> QED BY <1>2, <2>0, <2>1, <2>2
<1> QED BY <1>6, <1>7 DEF e, at, K

(* The next boundary of what is collected while a content is taken is the
   one after it. *)
LEMMA NextOfContent ==
    ASSUME NEW r, IsRequest(r), SentForm(r), NEW k \in 1..Len(r.parts),
           NEW m, NEW c \in Nat, c <= Len(ContentOf(r, k)), ContentTaken(r, k, c, m),
           NEW n \in Nat, m <= n, n <= Len(Body(r)),
           NEW b, b = Len(Boundary)
    PROVE  LET a   == m + ((Len(ContentOf(r, k)) - c) + 2)
               pos == Position(Boundary, Rest(r, m, n))
           IN  /\ pos = IF a + b <= n THEN (Len(ContentOf(r, k)) - c) + 3 ELSE 0
               /\ a + b + 3 <= Len(r.content) /\ Len(r.content) \in Nat
               /\ b \in Nat \ {0} /\ m \in Nat /\ Len(ContentOf(r, k)) \in Nat
<1> DEFINE lC == Len(ContentOf(r, k))
           e == Layout(r)[k + 1]
           pos == Position(Boundary, Rest(r, m, n))
           L == Len(r.content)
           j == k + 1
<1>1. /\ lC \in Nat /\ m \in Nat /\ e = m + ((lC - c) + 2)
      /\ j \in 1..(Len(r.parts) + 1)
  BY TakenIs
<1>2. /\ m <= Layout(r)[j]
      /\ \A l \in 1..(Len(r.parts) + 1) : l < j => Layout(r)[l] < m
  BY TakenBetween
<1>3. /\ e \in Nat /\ b \in Nat \ {0} /\ L \in Nat /\ e + b + 3 <= L
  <2>1. k \in 0..Len(r.parts)
    BY LayoutIs
  <2> QED BY <2>1, PartsAhead
<1>4. pos = IF e + b <= n THEN (e - m) + 1 ELSE 0
  <2> HIDE DEF j
  <2>1. Position(Boundary, Rest(r, m, n)) =
            IF Layout(r)[j] + Len(Boundary) <= n THEN (Layout(r)[j] - m) + 1 ELSE 0
    BY <1>1, <1>2, NextBoundary
  <2> QED BY <2>1 DEF j
<1>5. c <= lC
  OBVIOUS
<1> HIDE DEF lC, e, pos, L
<1>6. pos = IF e + b <= n THEN (lC - c) + 3 ELSE 0
  <2>1. (e - m) + 1 = (lC - c) + 3
    BY ONLY <1>1, <1>5, c \in Nat
  <2> QED BY <1>4, <2>1
<1> QED BY <1>1, <1>3, <1>6 DEF lC, pos, L

(* A round that takes content of a form as it is sent: what the field gets
   is the next of its part, and never of the boundary. *)
LEMMA ContentGoesOn ==
    ASSUME NEW r, IsRequest(r), SentForm(r), NEW n \in Nat, n <= Len(Body(r)),
           NEW p, FormOK(p), ~p.threw, NEW k, NEW m, FormAt(r, n, p, k, m),
           p.status = "ProcessingContentOfTheField"
    PROVE  LET q == ProcessContent(p)
           IN  /\ \E m2 : FormAt(r, n, q, k, m2)
               /\ q.status = p.status => n < Len(r.content)
<1> DEFINE q == ProcessContent(p)
           key == KeyOf(r.parts, k)
           C == ContentOf(r, k)
           lC == Len(C)
           b == Len(Boundary)
           L == Len(r.content)
           lD == Len(Body(r))
           coll == p.collector
           pos == Position(Boundary, coll)
           w == DataLengthToSend(coll)
           data == SubSeq(coll, 1, w)
           f == FieldAccepts(p, data)
<1>0. IsRequest(r) /\ SentForm(r) /\ n \in Nat /\ n <= lD /\ FormOK(p) /\ ~p.threw
      /\ p.status = "ProcessingContentOfTheField" /\ b = Len(Boundary)
  OBVIOUS
<1>1. /\ k \in 0..Len(r.parts) /\ m \in Nat /\ m <= n
      /\ coll = Rest(r, m, n)
      /\ FieldsUpTo(r, p, k)
      /\ TakesContent(r, p, k, m)
  BY DEF FormAt, AwaitsHeaders, Looks
<1>2. k \in 1..Len(r.parts)
  BY <1>1 DEF TakesContent
<1>3. PICK c \in Nat : /\ c <= lC /\ ContentTaken(r, k, c, m)
                       /\ HasGot(p, key, SubSeq(C, 1, c))
  BY <1>1 DEF TakesContent
<1>4. WholeUpTo(r, p, k - 1) /\ p.current = key
  BY <1>1 DEF TakesContent
<1> DEFINE a == m + ((lC - c) + 2)
<1>5. /\ pos = IF a + b <= n THEN (lC - c) + 3 ELSE 0
      /\ a + b + 3 <= L /\ L \in Nat /\ b \in Nat \ {0} /\ lC \in Nat
  <2>1. /\ Position(Boundary, Rest(r, m, n)) = IF a + b <= n THEN (lC - c) + 3 ELSE 0
        /\ a + b + 3 <= L /\ L \in Nat /\ b \in Nat \ {0} /\ lC \in Nat
    <3> HIDE DEF b, lD
    <3> QED BY ONLY <1>0, <1>1, <1>2, <1>3, NextOfContent, ZenonT(60) DEF lD
  <2> QED BY <1>1, <2>1
<1>6. /\ w \in Int
      /\ w <= 0 => q.fields = p.fields /\ q.disk = p.disk /\ q.collector = coll
      /\ w > 0 => /\ data \in Seq(Symbols)
                  /\ q.fields = f.fields /\ q.disk = f.disk
                  /\ q.collector = Skip(coll, w)
      /\ q.status = IF pos > 0 THEN "LookingForStartingBoundary" ELSE p.status
  BY ProcessContentOK
<1>7. Len(coll) = n - m
  BY <1>0, <1>1, RestIs
<1>8. w = IF pos > 0 THEN pos - 3 ELSE (n - m) - (b + 2)
  BY <1>7 DEF DataLengthToSend
<1> DEFINE d == IF w > 0 THEN w ELSE 0
<1> HIDE DEF q, lC, b, L, lD, coll, pos, w, C
<1>9. /\ d \in Nat /\ c + d <= lC /\ m + d <= n
      /\ pos > 0 => c + d = lC
      /\ pos > 0 \/ (pos = 0 /\ n < L)
  <2>1. CASE a + b <= n
    <3>1. pos = (lC - c) + 3 /\ pos > 0
      BY ONLY <1>3, <1>5, <2>1
    <3>2. w = lC - c
      BY ONLY <1>3, <1>5, <1>8, <3>1
    <3>3. d = lC - c /\ lC - c \in Nat /\ c + (lC - c) = lC
      BY ONLY <1>3, <1>5, <3>2
    <3>4. m + (lC - c) <= n
      BY ONLY <1>1, <1>3, <1>5, <2>1, n \in Nat
    <3> QED BY <1>5, <3>1, <3>3, <3>4, SMTT(30)
  <2>2. CASE ~(a + b <= n)
    <3>1. pos = 0
      BY <1>5, <2>2
    <3>2. w = (n - m) - (b + 2)
      BY <1>8, <3>1
    <3>3. n < L
      BY ONLY <1>1, <1>3, <1>5, <2>2, n \in Nat
    <3>4. d \in Nat /\ c + d <= lC /\ m + d <= n
      BY ONLY <1>1, <1>3, <1>5, <2>2, <3>2, n \in Nat
    <3> QED BY <3>1, <3>3, <3>4
  <2> QED BY <2>1, <2>2
<1> HIDE DEF a
<1>10. q.collector = Rest(r, m + d, n)
  <2>1. CASE w > 0
    <3>1. d = w
      BY <2>1
    <3> HIDE DEF d
    <3> QED BY <1>0, <1>1, <1>6, <1>9, <2>1, <3>1, RestSkip DEF lD
  <2>2. CASE ~(w > 0)
    <3>1. m + d = m /\ w <= 0
      BY <1>1, <1>6, <2>2
    <3> QED BY <1>1, <1>6, <3>1
  <2> QED BY <2>1, <2>2
<1>11. key \in DOMAIN p.fields
  BY <1>1, <1>2 DEF FieldsUpTo, KeysUpTo
<1>12. /\ SubSeq(C, 1, c) \o SubSeq(coll, 1, d) = SubSeq(C, 1, c + d)
       /\ ContentTaken(r, k, c + d, m + d)
  <2> HIDE DEF d
  <2>1. /\ SubSeq(ContentOf(r, k), 1, c) \o SubSeq(Rest(r, m, n), 1, d)
               = SubSeq(ContentOf(r, k), 1, c + d)
        /\ ContentTaken(r, k, c + d, m + d)
    <3>1. c + d <= Len(ContentOf(r, k)) /\ n <= Len(Body(r)) /\ m + d <= n /\ d \in Nat
      BY <1>0, <1>9 DEF C, lC, lD
    <3> QED BY ONLY <1>0, <1>2, <1>3, <3>1, ContentGrows, Zenon
  <2> QED BY <1>1, <2>1 DEF C
<1> HIDE DEF key, f
<1>13. /\ DOMAIN q.fields = DOMAIN p.fields
       /\ \A x \in DOMAIN p.fields : q.fields[x].filename = p.fields[x].filename
       /\ \A x \in DOMAIN p.fields \ { key } : StoredIn(q, x) = StoredIn(p, x)
       /\ q.fields[key].filename # NoFilename => StoredIn(q, key) = SubSeq(C, 1, c + d)
  <2>1. CASE w > 0
    <3>1. d = w /\ data \in Seq(Symbols) /\ q.fields = f.fields /\ q.disk = f.disk
      BY <1>6, <2>1
    <3> HIDE DEF d, data
    <3>2. /\ DOMAIN f.fields = DOMAIN p.fields
          /\ \A x \in DOMAIN p.fields : f.fields[x].filename = p.fields[x].filename
          /\ \A x \in DOMAIN p.fields \ { p.current } : StoredIn(f, x) = StoredIn(p, x)
          /\ p.fields[p.current].filename # NoFilename =>
                 StoredIn(f, p.current) = StoredIn(p, p.current) \o data
      BY <1>0, <1>4, <1>11, <3>1, FieldAcceptsOK DEF f
    <3>3. \A x : StoredIn(q, x) = StoredIn(f, x)
      BY <3>1 DEF StoredIn
    <3>4. p.fields[key].filename # NoFilename => StoredIn(p, key) = SubSeq(C, 1, c)
      BY <1>3 DEF HasGot
    <3>5. data = SubSeq(coll, 1, d)
      BY <3>1 DEF data
    <3>6. p.fields[key].filename # NoFilename => StoredIn(f, key) = SubSeq(C, 1, c + d)
      BY <1>4, <1>12, <3>2, <3>4, <3>5
    <3>7. q.fields[key].filename = p.fields[key].filename
      BY <1>11, <3>1, <3>2
    <3> QED BY <1>4, <3>1, <3>2, <3>3, <3>6, <3>7
  <2>2. CASE ~(w > 0)
    <3>1. c + d = c /\ w <= 0
      BY <1>6, <2>2
    <3>2. q.fields = p.fields /\ q.disk = p.disk
      BY <1>6, <3>1
    <3>3. \A x : StoredIn(q, x) = StoredIn(p, x)
      BY <3>2 DEF StoredIn
    <3>4. p.fields[key].filename # NoFilename => StoredIn(p, key) = SubSeq(C, 1, c)
      BY <1>3 DEF HasGot
    <3> QED BY <3>1, <3>2, <3>3, <3>4
  <2> QED BY <2>1, <2>2
<1> HIDE DEF d
<1>14. FieldsUpTo(r, q, k)
  BY <1>1, <1>13 DEF FieldsUpTo, KeysUpTo
<1>15. \A j \in 1..(k - 1) : KeyOf(r.parts, j) \in DOMAIN p.fields /\ KeyOf(r.parts, j) # key
  <2> TAKE j \in 1..(k - 1)
  <2>1. j \in 1..k /\ k \in 1..k /\ k \in 0..Len(r.parts) /\ j # k
    BY <1>2
  <2>2. /\ \A l \in 1..k : NameOf(r.parts, l) \in Names
        /\ Len(r.parts) \in Nat
    BY <1>0, <1>1, FieldsHaveNames, LayoutIs
  <2>3. KeyOf(r.parts, j) # KeyOf(r.parts, k)
    BY ONLY <2>1, <2>2, KeysDiffer
  <2> QED BY <1>1, <2>1, <2>3 DEF FieldsUpTo, KeysUpTo, key
<1>16. WholeUpTo(r, q, k - 1)
  BY <1>4, <1>13, <1>15 DEF WholeUpTo, HasGot
<1>17. HasGot(q, key, SubSeq(C, 1, c + d))
  BY <1>13 DEF HasGot
<1>18. m + d \in Nat /\ c + d \in Nat
  BY <1>1, <1>3, <1>9
<1>19. CASE pos > 0
  <2>1. q.status = "LookingForStartingBoundary" /\ q.status # p.status
    BY <1>0, <1>6, <1>19
  <2>2. SubSeq(C, 1, c + d) = C
    <3>1. C \in Seq(Symbols)
      BY <1>0, <1>2, LayoutIs DEF C, ContentOf
    <3>2. SubSeq(C, 1, lC) \in Seq(Symbols) /\ Len(SubSeq(C, 1, lC)) = lC
          /\ \A j \in 1..lC : SubSeq(C, 1, lC)[j] = C[j]
      BY <1>5, <3>1, FirstsAre DEF lC
    <3> DEFINE x == SubSeq(C, 1, lC)
    <3>3. x \in Seq(Symbols) /\ Len(x) = Len(C) /\ \A j \in 1..Len(x) : x[j] = C[j]
      BY <3>2 DEF lC
    <3>4. x = C
      <4> HIDE DEF x
      <4> QED BY ONLY <3>1, <3>3, SeqEqual
    <3> QED BY <1>9, <1>19, <3>4
  <2>3. WholeUpTo(r, q, k)
    <3>1. HasGot(q, key, C)
      BY <1>17, <2>2
    <3>2. \A j \in 1..k : j \in 1..(k - 1) \/ j = k
      BY <1>2
    <3> QED BY <1>16, <3>1, <3>2 DEF WholeUpTo, key, C
  <2>4. /\ m + d <= Layout(r)[k + 1]
        /\ \A l \in 1..(Len(r.parts) + 1) : l < k + 1 => Layout(r)[l] < m + d
    BY <1>0, <1>2, <1>9, <1>12, <1>18, TakenBetween DEF C, lC
  <2>5. Looks(r, q, k, m + d)
    BY <2>1, <2>3, <2>4 DEF Looks
  <2>6. FormAt(r, n, q, k, m + d)
    BY <1>1, <1>9, <1>10, <1>14, <1>18, <2>5 DEF FormAt
  <2> QED BY <2>1, <2>6 DEF q
<1>20. CASE ~(pos > 0)
  <2>1. q.status = "ProcessingContentOfTheField" /\ n < L
    BY <1>0, <1>6, <1>9, <1>20
  <2>2. q.current = key
    <3>1. q.current = p.current
      BY <1>0, ProcessContentOK DEF q
    <3> QED BY <1>4, <3>1
  <2>3. TakesContent(r, q, k, m + d)
    <3>1. k >= 1
      BY <1>2
    <3> QED BY <1>9, <1>12, <1>16, <1>17, <1>18, <2>1, <2>2, <3>1 DEF TakesContent, key, C, lC
  <2>4. FormAt(r, n, q, k, m + d)
    BY <1>1, <1>9, <1>10, <1>14, <1>18, <2>3 DEF FormAt
  <2> QED BY <2>1, <2>4 DEF q, L
<1> QED BY <1>19, <1>20

(* Every field of the form is there, and every file whole. *)
Complete(r, p) ==
    FieldsUpTo(r, p, Len(r.parts)) /\ WholeUpTo(r, p, Len(r.parts))

(* The field the headers of part k + 1 start. *)
LEMMA FieldStarts ==
    ASSUME NEW r, IsRequest(r), SentForm(r), NEW k \in 0..Len(r.parts), k < Len(r.parts),
           NEW p, FormOK(p), FieldsUpTo(r, p, k), WholeUpTo(r, p, k),
           NEW h, h = r.parts[k + 1].headers, h \in DOMAIN Parts,
           NEW q, q.disk = p.disk,
           LET key == UniqueName(Parts[h].name, DOMAIN p.fields)
           IN  /\ q.current = key
               /\ DOMAIN q.fields = DOMAIN p.fields \union { key }
               /\ q.fields[key] = NewField(Parts[h].filename)
               /\ key \notin DOMAIN p.fields
               /\ \A x \in DOMAIN p.fields : q.fields[x] = p.fields[x]
    PROVE  /\ FieldsUpTo(r, q, k + 1) /\ WholeUpTo(r, q, k)
           /\ q.current = KeyOf(r.parts, k + 1)
           /\ HasGot(q, KeyOf(r.parts, k + 1), << >>)
<1> DEFINE parts == r.parts
           key == KeyOf(parts, k + 1)
           file == Parts[h].filename
<1>1. k \in Nat /\ k + 1 \in 1..Len(parts)
  BY LayoutIs
<1>2. UniqueName(Parts[h].name, DOMAIN p.fields) = key
  <2>1. p.fields \in FieldMaps
    BY DEF FormOK, FormType
  <2>2. DOMAIN p.fields = KeysUpTo(parts, k)
    BY DEF FieldsUpTo
  <2>3. NameOf(parts, k + 1) = Parts[h].name
    BY DEF NameOf
  <2>4. Len(parts) \in Nat /\ (k + 1) - 1 = k
    BY <1>1, LayoutIs
  <2> HIDE DEF parts
  <2>5. KeyOf(parts, k + 1) = UniqueName(NameOf(parts, k + 1), KeysUpTo(parts, (k + 1) - 1))
    BY <1>1, <2>4, KeyOfIs
  <2> QED BY <2>2, <2>3, <2>4, <2>5
<1>3. /\ q.current = key
      /\ DOMAIN q.fields = DOMAIN p.fields \union { key }
      /\ q.fields[key] = NewField(file)
      /\ key \notin DOMAIN p.fields
      /\ \A x \in DOMAIN p.fields : q.fields[x] = p.fields[x]
  BY <1>2
<1>4. q.fields[key].filename = file /\ q.fields[key].temp = 0
  BY <1>3 DEF NewField
<1>5. HasGot(q, key, << >>)
  BY <1>4 DEF HasGot, StoredIn
<1>6. \A j \in 1..k : KeyOf(parts, j) \in DOMAIN p.fields
  BY DEF FieldsUpTo, KeysUpTo
<1>7. WholeUpTo(r, q, k)
  BY <1>3, <1>6 DEF WholeUpTo, HasGot, StoredIn
<1>8. \A j \in 1..(k + 1) : j \in 1..k \/ j = k + 1
  BY <1>1
<1>9. \A j \in 1..k : j \in 1..(k + 1)
  BY <1>1
<1>10. k + 1 \in 1..(k + 1)
  BY <1>1
<1>11. DOMAIN q.fields = KeysUpTo(parts, k + 1)
  <2>1. DOMAIN p.fields = KeysUpTo(parts, k)
    BY DEF FieldsUpTo
  <2>2. KeysUpTo(parts, k + 1) = KeysUpTo(parts, k) \union { key }
    BY <1>8, <1>9, <1>10 DEF KeysUpTo
  <2> QED BY <1>3, <2>1, <2>2
<1>12. ASSUME NEW j \in 1..(k + 1)
       PROVE  /\ parts[j].headers \in DOMAIN Parts
              /\ q.fields[KeyOf(parts, j)].filename = Parts[parts[j].headers].filename
  <2>1. CASE j \in 1..k
    BY <1>3, <1>6, <2>1 DEF FieldsUpTo
  <2>2. CASE j = k + 1
    BY <1>4, <2>2
  <2> QED BY <1>8, <2>1, <2>2
<1> QED BY <1>3, <1>5, <1>7, <1>11, <1>12, SMTT(60) DEF FieldsUpTo, key, parts

(* A round that waits for the headers of a form as it is sent. *)
LEMMA HeadersGoOn ==
    ASSUME NEW r, IsRequest(r), SentForm(r), NEW n \in Nat, n <= Len(Body(r)),
           NEW p, FormOK(p), ~p.threw, NEW k, NEW m, FormAt(r, n, p, k, m),
           p.status = "ProcessingHeaders"
    PROVE  LET q == WaitForHeadersEnd(p)
           IN  ~q.threw =>
                   /\ \E k2, m2 : FormAt(r, n, q, k2, m2)
                   /\ q.status = p.status => n < Len(r.content) \/ Complete(r, q)
<1> DEFINE q == WaitForHeadersEnd(p)
           coll == p.collector
           pos == Position(EndOfHeaders, coll)
           front == SubSeq(coll, 1, pos - 1)
           f == ParseHeaders(p, front)
           known == { h \in Range(front) : h \in DOMAIN Parts }
<1>1. /\ k \in 0..Len(r.parts) /\ m \in Nat /\ m <= n
      /\ coll = Rest(r, m, n)
      /\ FieldsUpTo(r, p, k) /\ WholeUpTo(r, p, k)
      /\ BoundaryEnds(r, k + 1, m)
  BY DEF FormAt, Looks, AwaitsHeaders, TakesContent
<1>2. /\ pos = 0 => q = p
      /\ pos # 0 => /\ pos \in 1..(Len(coll) - 3)
                    /\ front \in Seq(Symbols)
                    /\ q.fields = f.fields /\ q.disk = f.disk
                    /\ q.threw = f.threw /\ q.current = f.current
                    /\ ~q.threw => /\ q.status = "ProcessingContentOfTheField"
                                   /\ q.collector = Skip(coll, pos + 3)
  BY WaitForHeadersEndOK
<1>3. pos # 0 =>
          /\ known = {} => f = [p EXCEPT !.threw = TRUE]
          /\ known # {} =>
                 \E h \in known :
                     LET key == UniqueName(Parts[h].name, DOMAIN p.fields)
                     IN  /\ f.disk = p.disk
                         /\ f.current = key /\ key \notin DOMAIN p.fields
                         /\ DOMAIN f.fields = DOMAIN p.fields \union { key }
                         /\ f.fields[key] = NewField(Parts[h].filename)
                         /\ \A x \in DOMAIN p.fields : f.fields[x] = p.fields[x]
  <2> HIDE DEF front
  <2> QED BY <1>2, ParseHeadersOK
<1>4. pos # 0 /\ known = {} => q.threw
  BY <1>2, <1>3 DEF FormOK, FormType
<1>5. Len(r.parts) \in Nat
  BY LayoutIs
<1> SUFFICES ASSUME ~q.threw
             PROVE  /\ \E k2, m2 : FormAt(r, n, q, k2, m2)
                    /\ q.status = p.status => n < Len(r.content) \/ Complete(r, q)
  OBVIOUS
<1> HIDE DEF q, f, coll, pos
<1>6. CASE k = Len(r.parts)
  <2>1. BoundaryEnds(r, Len(r.parts) + 1, m)
    BY <1>1, <1>6
  <2>2. pos # 0 => known = {}
    BY <1>1, <2>1, HeadersBeyond DEF pos
  <2>3. q = p
    BY <1>2, <1>4, <2>2
  <2> QED BY <1>1, <1>6, <2>3 DEF Complete
<1>7. CASE k < Len(r.parts)
  <2> DEFINE j == k + 1
             H == r.parts[j].headers
             C == ContentOf(r, j)
             L == Len(r.content)
             b == Len(Boundary)
  <2>1. j \in 1..Len(r.parts) /\ BoundaryEnds(r, j, m)
    BY <1>1, <1>5, <1>7
  <2>2. m + 7 <= n => n \in Nat /\ m + 7 <= n
    OBVIOUS
  <2>3. m + 9 <= L
    <3> DEFINE e == Layout(r)[j + 1]
               l == Len(r.parts[j].content)
    <3>1. l \in Nat /\ e = m + 9 + l
      <4> HIDE DEF j
      <4> QED BY <2>1, NextEnds
    <3>2. e \in Nat /\ b \in Nat /\ L \in Nat /\ e + b + 3 <= L
      <4>1. j \in 0..Len(r.parts)
        BY <2>1
      <4> HIDE DEF j
      <4> QED BY <4>1, PartsAhead
    <3> HIDE DEF e, l, b, L
    <3> QED BY ONLY <1>1, <3>1, <3>2
  <2> HIDE DEF j
  <2>4. /\ Position(EndOfHeaders, Rest(r, m, n)) = IF m + 7 <= n THEN 4 ELSE 0
        /\ m + 7 <= n => { h \in Range(SubSeq(Rest(r, m, n), 1, 3)) : h \in DOMAIN Parts }
                             = { H } \intersect DOMAIN Parts
    BY <1>1, <2>1, HeadersOfPart
  <2>5. CASE m + 7 <= n
    <3>1. pos = 4 /\ pos - 1 = 3 /\ pos + 3 = 7 /\ pos # 0
      BY <1>1, <2>4, <2>5 DEF pos
    <3>2. known = { H } \intersect DOMAIN Parts
      BY <1>1, <2>4, <2>5, <3>1
    <3>3. H \in DOMAIN Parts /\ known = { H }
      BY <1>2, <1>4, <3>1, <3>2
    <3> HIDE DEF known
    <3>4. LET key == UniqueName(Parts[H].name, DOMAIN p.fields)
          IN  /\ q.disk = p.disk /\ q.current = key
              /\ DOMAIN q.fields = DOMAIN p.fields \union { key }
              /\ q.fields[key] = NewField(Parts[H].filename)
              /\ key \notin DOMAIN p.fields
              /\ \A x \in DOMAIN p.fields : q.fields[x] = p.fields[x]
      BY <1>2, <1>3, <3>1, <3>3
    <3>5. /\ FieldsUpTo(r, q, j) /\ WholeUpTo(r, q, k)
          /\ q.current = KeyOf(r.parts, j)
          /\ HasGot(q, KeyOf(r.parts, j), << >>)
      <4>1. H = r.parts[k + 1].headers
        BY DEF j
      <4> HIDE DEF H
      <4> QED BY <1>1, <1>7, <3>3, <3>4, <4>1, FieldStarts DEF j
    <3>6. q.status = "ProcessingContentOfTheField" /\ q.collector = Rest(r, m + 7, n)
      <4> DEFINE d == 7
      <4>1. d \in Nat /\ m + d <= n /\ pos + 3 = d
        BY <2>5, <3>1
      <4> HIDE DEF d
      <4>2. q.collector = Rest(r, m + d, n)
        BY <1>1, <1>2, <3>1, <4>1, RestSkip, SMTT(60)
      <4> QED BY <1>2, <3>1, <4>2 DEF d
    <3>7. TakesContent(r, q, j, m + 7)
      <4> DEFINE c == 0
      <4>1. c \in Nat /\ c <= Len(C)
        <5>1. Len(C) \in Nat
          BY <2>1, NextEnds DEF ContentOf
        <5> HIDE DEF C
        <5> QED BY <5>1
      <4>2. ContentTaken(r, j, c, m + 7)
        <5>1. m + 7 = m + 7 + c
          BY <1>1
        <5> HIDE DEF c
        <5> QED BY <1>1, <2>1, <5>1 DEF ContentTaken
      <4>3. SubSeq(C, 1, c) = << >>
        <5>1. C \in Seq(Symbols)
          BY <2>1, LayoutIs DEF ContentOf
        <5> HIDE DEF C, c
        <5>2. SubSeq(C, 1, c) \in Seq(Symbols) /\ Len(SubSeq(C, 1, c)) = c
          BY <4>1, <5>1, FirstsAre
        <5>3. c = 0
          BY DEF c
        <5> QED BY <5>2, <5>3, EmptySeq
      <4>4. HasGot(q, KeyOf(r.parts, j), SubSeq(C, 1, c))
        BY <3>5, <4>3
      <4>5. j >= 1 /\ j - 1 = k
        BY <1>1, <2>1 DEF j
      <4> HIDE DEF c
      <4> QED BY <3>5, <3>6, <4>1, <4>2, <4>4, <4>5 DEF TakesContent
    <3>8. FormAt(r, n, q, j, m + 7)
      <4>1. j \in 0..Len(r.parts) /\ m + 7 \in Nat
        BY <1>1, <2>1
      <4> QED BY <2>5, <3>5, <3>6, <3>7, <4>1 DEF FormAt
    <3>9. q.status # p.status
      BY <3>6
    <3> QED BY <3>8, <3>9
  <2>6. CASE ~(m + 7 <= n)
    <3>1. pos = 0
      BY <1>1, <2>4, <2>6 DEF pos
    <3>2. q = p
      BY <1>2, <3>1
    <3>3. n < Len(r.content)
      <4>1. L \in Nat
        BY LayoutIs
      <4> HIDE DEF L
      <4>2. n < L
        BY <1>1, <2>3, <2>6, <4>1
      <4> QED BY <4>2 DEF L
    <3> QED BY <3>2, <3>3
  <2> QED BY <2>5, <2>6
<1>8. k < Len(r.parts) \/ k = Len(r.parts)
  BY <1>1, <1>5
<1> QED BY <1>6, <1>7, <1>8 DEF q

(* A step of the parser of a form as it is sent. *)
LEMMA StepFormAt ==
    ASSUME NEW r, IsRequest(r), SentForm(r), NEW n \in Nat, n <= Len(Body(r)),
           NEW p, FormOK(p), ~p.threw, NEW k, NEW m, FormAt(r, n, p, k, m)
    PROVE  LET q == ProcessStep(p)
           IN  ~q.threw =>
                   /\ \E k2, m2 : FormAt(r, n, q, k2, m2)
                   /\ q.status = p.status => n < Len(r.content) \/ Complete(r, q)
<1>1. CASE p.status = "LookingForStartingBoundary"
  <2>1. ProcessStep(p) = LookForBoundary(p)
    BY <1>1 DEF ProcessStep
  <2> QED BY <1>1, <2>1, LooksOn
<1>2. CASE p.status = "ProcessingHeaders"
  <2>1. ProcessStep(p) = WaitForHeadersEnd(p)
    BY <1>2 DEF ProcessStep
  <2> QED BY <1>2, <2>1, HeadersGoOn
<1>3. CASE p.status = "ProcessingContentOfTheField"
  <2>1. ProcessStep(p) = ProcessContent(p)
    BY <1>3 DEF ProcessStep
  <2> QED BY <1>3, <2>1, ContentGoesOn
<1>4. p.status \in Statuses
  BY DEF FormOK, FormType
<1> QED BY <1>1, <1>2, <1>3, <1>4 DEF Statuses

(* All rounds of the loop, on a form as it is sent. *)
LEMMA RoundsFormAt ==
    ASSUME NEW r, IsRequest(r), SentForm(r), NEW n \in Nat, n <= Len(Body(r)),
           NEW p, FormOK(p), ~p.threw, NEW k, NEW m, FormAt(r, n, p, k, m)
    PROVE  \A i \in 0..EnoughRounds(p) :
               LET s == Rounds(p)[i]
               IN  ~s.form.threw =>
                       /\ \E k2, m2 : FormAt(r, n, s.form, k2, m2)
                       /\ s.stopped => n < Len(r.content) \/ Complete(r, s.form)
<1> DEFINE s(i) == Rounds(p)[i]
           Good(i) == ~s(i).form.threw =>
                          /\ \E k2, m2 : FormAt(r, n, s(i).form, k2, m2)
                          /\ s(i).stopped => n < Len(r.content) \/ Complete(r, s(i).form)
           P == { i \in Nat : i \in 0..EnoughRounds(p) => Good(i) }
<1>1. Len(p.collector) \in Nat
  BY LeftIs
<1>2. /\ EnoughRounds(p) \in Nat /\ s(0) = [ form |-> p, stopped |-> FALSE ]
      /\ \A i \in 1..EnoughRounds(p) : s(i) = Round(s(i - 1))
  BY <1>1, RoundsDef
<1>3. \A i \in 0..EnoughRounds(p) : /\ FormOK(s(i).form)
                                    /\ ~s(i).stopped => ~s(i).form.threw
  BY RoundsOK
<1> HIDE DEF s
<1>4. Good(0)
  <2>1. s(0).form = p /\ s(0).stopped = FALSE
    BY <1>2
  <2> QED BY <2>1
<1>5. ASSUME NEW i \in Nat, i + 1 \in 0..EnoughRounds(p), Good(i)
      PROVE  Good(i + 1)
  <2> DEFINE q == ProcessStep(s(i).form)
  <2>1. s(i + 1) = Round(s(i)) /\ i \in 0..EnoughRounds(p)
    BY <1>2, <1>5
  <2>2. CASE s(i).stopped
    BY <1>5, <2>1, <2>2 DEF Round
  <2>3. CASE ~s(i).stopped
    <3>1. s(i + 1) = [ form |-> q, stopped |-> q.threw \/ q.status = s(i).form.status ]
      BY <2>1, <2>3 DEF Round
    <3>2. s(i + 1).form = q /\ s(i + 1).stopped = (q.threw \/ q.status = s(i).form.status)
      BY <3>1
    <3>3. FormOK(s(i).form) /\ ~s(i).form.threw
      BY <1>3, <2>1, <2>3
    <3>4. PICK k2, m2 : FormAt(r, n, s(i).form, k2, m2)
      BY <1>5, <3>3
    <3>5. ~q.threw =>
              /\ \E k3, m3 : FormAt(r, n, q, k3, m3)
              /\ q.status = s(i).form.status => n < Len(r.content) \/ Complete(r, q)
      BY <3>3, <3>4, StepFormAt
    <3> HIDE DEF q
    <3> QED BY <3>2, <3>5
  <2> QED BY <2>2, <2>3
<1>6. \A i \in Nat : i \in P
  <2>1. 0 \in P
    BY <1>4
  <2>2. \A i \in Nat : i \in P => i + 1 \in P
    <3> TAKE i \in Nat
    <3>1. SUFFICES ASSUME i + 1 \in 0..EnoughRounds(p), i \in P
                   PROVE  Good(i + 1)
      OBVIOUS
    <3>2. Good(i)
      <4>1. i \in 0..EnoughRounds(p)
        BY <1>2, <3>1
      <4> HIDE DEF Good
      <4> QED BY <3>1, <4>1
    <3> QED BY <1>5, <3>1, <3>2
  <2> HIDE DEF P
  <2> QED BY <2>1, <2>2, NatInd
<1>7. \A i \in 0..EnoughRounds(p) : Good(i)
  <2> HIDE DEF Good
  <2> QED BY <1>2, <1>6
<1> QED BY <1>7 DEF s

(* What is collected when the next piece is there. *)
LEMMA RestJoined ==
    ASSUME NEW r, IsRequest(r), NEW m \in Nat, NEW n0 \in Nat, NEW n \in Nat,
           m <= n0, n0 <= n, n <= Len(Body(r))
    PROVE  /\ SubSeq(Body(r), n0 + 1, n) \in Seq(Symbols)
           /\ Rest(r, m, n0) \o SubSeq(Body(r), n0 + 1, n) = Rest(r, m, n)
<1> DEFINE D == Body(r)
           old == Rest(r, m, n0)
           new == Rest(r, n0, n)
           all == Rest(r, m, n)
           cat == old \o new
           x == n0 - m
           y == n - n0
           z == n - m
<1>1. n0 <= Len(Body(r)) /\ m <= n
  BY BodyIs
<1>2. old \in Seq(Symbols) /\ Len(old) = x /\ \A j \in 1..x : old[j] = D[m + j]
  BY <1>1, RestIs
<1>3. new \in Seq(Symbols) /\ Len(new) = y /\ \A j \in 1..y : new[j] = D[n0 + j]
  BY <1>1, RestIs
<1>4. all \in Seq(Symbols) /\ Len(all) = z /\ \A j \in 1..z : all[j] = D[m + j]
  BY <1>1, RestIs
<1>5. x \in Nat /\ y \in Nat /\ z = x + y /\ m + x = n0
  OBVIOUS
<1> HIDE DEF old, new, all, D, x, y, z
<1>6. IsJoin(cat, old, new, x, y)
  BY <1>2, <1>3, <1>5, Joined
<1> HIDE DEF cat
<1>7. \A i \in 1..z : cat[i] = all[i]
  <2> TAKE i \in 1..z
  <2>0. i \in 1..z
    OBVIOUS
  <2>1. CASE i <= x
    <3>1. i \in 1..x
      BY <1>5, <2>0, <2>1
    <3>2. cat[i] = old[i]
      BY <1>6, <3>1 DEF IsJoin
    <3> QED BY <1>2, <1>4, <2>0, <3>1, <3>2
  <2>2. CASE i > x
    <3> DEFINE j == i - x
    <3>1. j \in 1..y /\ x + j = i /\ n0 + j = m + i
      BY <1>5, <2>0, <2>2
    <3> HIDE DEF j
    <3>2. cat[x + j] = new[j]
      BY <1>6, <3>1 DEF IsJoin
    <3>3. new[j] = D[m + i]
      BY <1>3, <3>1
    <3> QED BY <1>4, <2>0, <3>1, <3>2, <3>3
  <2> QED BY <1>5, <2>0, <2>1, <2>2
<1>8. cat = all
  <2>1. cat \in Seq(Symbols) /\ Len(cat) = z
    BY <1>5, <1>6 DEF IsJoin
  <2> QED BY <1>4, <1>7, <2>1, SeqEqual
<1> QED BY <1>3, <1>8 DEF cat, old, new, all, Rest

(* A piece more of a form as it is sent, in whatever pieces it comes. *)
LEMMA PieceOfForm ==
    ASSUME NEW r, IsRequest(r), SentForm(r), NEW n0 \in Nat, NEW n \in Nat,
           n0 <= n, n <= Len(Body(r)),
           NEW p, FormOK(p), ~p.threw, NEW k, NEW m, FormAt(r, n0, p, k, m)
    PROVE  LET q == AcceptSomeData(p, SubSeq(Body(r), n0 + 1, n))
           IN  ~q.threw =>
                   /\ \E k2, m2 : FormAt(r, n, q, k2, m2)
                   /\ n < Len(r.content) \/ Complete(r, q)
<1> DEFINE data == SubSeq(Body(r), n0 + 1, n)
           c == [p EXCEPT !.collector = @ \o data]
           q == AcceptSomeData(p, data)
<1>1. m \in Nat /\ m <= n0 /\ p.collector = Rest(r, m, n0)
  BY DEF FormAt
<1>2. data \in Seq(Symbols) /\ p.collector \o data = Rest(r, m, n)
  BY <1>1, RestJoined, ZenonT(60)
<1> HIDE DEF data
<1>3. /\ FormOK(c) /\ ~c.threw
      /\ c.collector = Rest(r, m, n) /\ c.status = p.status /\ c.fields = p.fields
      /\ c.disk = p.disk /\ c.current = p.current
  BY <1>2, Collects
<1> HIDE DEF c
<1>4. FormAt(r, n, c, k, m)
  <2>1. /\ k \in 0..Len(r.parts) /\ FieldsUpTo(r, p, k)
        /\ Looks(r, p, k, m) \/ AwaitsHeaders(r, p, k, m) \/ TakesContent(r, p, k, m)
    BY DEF FormAt
  <2>2. /\ FieldsUpTo(r, p, k) => FieldsUpTo(r, c, k)
        /\ \A j : WholeUpTo(r, p, j) => WholeUpTo(r, c, j)
        /\ \A key, s : HasGot(p, key, s) => HasGot(c, key, s)
    BY <1>3, SameFields
  <2>3. Looks(r, p, k, m) => Looks(r, c, k, m)
    BY <1>3, <2>2 DEF Looks
  <2>4. AwaitsHeaders(r, p, k, m) => AwaitsHeaders(r, c, k, m)
    BY <1>3, <2>2 DEF AwaitsHeaders
  <2>5. TakesContent(r, p, k, m) => TakesContent(r, c, k, m)
    BY <1>3, <2>2 DEF TakesContent
  <2>6. m <= n
    BY <1>1
  <2> QED BY <1>1, <1>3, <2>1, <2>2, <2>3, <2>4, <2>5, <2>6 DEF FormAt
<1> DEFINE e == EnoughRounds(c)
<1>5. e \in 0..e
  BY <1>3, LenProperties DEF FormOK, FormType, EnoughRounds
<1>6. q = Rounds(c)[e].form
  BY DEF AcceptSomeData, ProcessData, c
<1> HIDE DEF e
<1>7. Rounds(c)[e].stopped
  BY <1>3, LoopEnds DEF e
<1>8. ~Rounds(c)[e].form.threw =>
          /\ \E k2, m2 : FormAt(r, n, Rounds(c)[e].form, k2, m2)
          /\ Rounds(c)[e].stopped => n < Len(r.content) \/ Complete(r, Rounds(c)[e].form)
  BY <1>3, <1>4, <1>5, RoundsFormAt DEF e
<1> HIDE DEF q
<1> QED BY <1>6, <1>7, <1>8 DEF q, data

(* A form's parser that has not got anything. *)
LEMMA NewFormAt ==
    ASSUME NEW r, IsRequest(r), SentForm(r),
           NEW p, p.status = "LookingForStartingBoundary", p.collector = << >>,
           p.fields = << >>
    PROVE  FormAt(r, 0, p, 0, 0)
<1> DEFINE z == 0
           K == Len(r.parts)
<1>1. z \in Nat /\ K \in Nat /\ z \in 0..K /\ z <= z /\ z + 1 = 1 /\ 1 \in 1..(K + 1)
  BY LayoutIs
<1>2. Layout(r)[z + 1] = z
  BY <1>1, LayoutIs
<1>3. 1..z = {} /\ \A l \in 1..(K + 1) : ~(l < z + 1)
  BY <1>1
<1>4. Rest(r, z, z) = << >>
  <2> HIDE DEF z
  <2>1. z <= Len(Body(r)) /\ z - z = 0
    <3>1. Len(Body(r)) \in Nat
      BY BodyIs
    <3> QED BY <3>1 DEF z
  <2>2. Rest(r, z, z) \in Seq(Symbols) /\ Len(Rest(r, z, z)) = z - z
    BY <1>1, <2>1, RestIs
  <2> QED BY <2>1, <2>2, EmptySeq
<1> HIDE DEF z, K
<1>5. FieldsUpTo(r, p, z)
  <2>1. DOMAIN p.fields = {}
    BY NothingYet
  <2> QED BY <1>3, <2>1 DEF FieldsUpTo, KeysUpTo
<1>6. Looks(r, p, z, z)
  <2>1. WholeUpTo(r, p, z)
    BY <1>3 DEF WholeUpTo
  <2>2. z <= Layout(r)[z + 1]
    BY <1>1, <1>2
  <2> QED BY <1>3, <2>1, <2>2 DEF Looks, K
<1>7. FormAt(r, z, p, z, z)
  BY <1>1, <1>4, <1>5, <1>6 DEF FormAt, K
<1> QED BY <1>7 DEF z

(* The first symbols of a sequence are a prefix of it. *)
LEMMA PrefixOf ==
    ASSUME NEW C \in Seq(Symbols), NEW c \in Nat, c <= Len(C)
    PROVE  IsPrefix(SubSeq(C, 1, c), C)
<1>1. Len(SubSeq(C, 1, c)) = c
  BY FirstsAre
<1> QED BY <1>1 DEF IsPrefix

(* And so are all of them. *)
LEMMA WholeSeq ==
    ASSUME NEW C \in Seq(Symbols)
    PROVE  IsPrefix(C, C)
BY LenProperties DEF IsPrefix

(* A file field holds the beginning of the file that is sent. *)
LEMMA PrefixHeld ==
    ASSUME NEW r, IsRequest(r), SentForm(r), NEW n, NEW p, NEW k, NEW m,
           FormAt(r, n, p, k, m), NEW i \in Readable(r),
           KeyOf(r.parts, i) \in DOMAIN p.fields
    PROVE  /\ p.fields[KeyOf(r.parts, i)].filename = Parts[r.parts[i].headers].filename
           /\ p.fields[KeyOf(r.parts, i)].filename # NoFilename =>
                  IsPrefix(StoredIn(p, KeyOf(r.parts, i)), r.parts[i].content)
<1> DEFINE parts == r.parts
           key == KeyOf(parts, i)
           C == ContentOf(r, i)
<1>0. /\ k \in 0..Len(parts) /\ FieldsUpTo(r, p, k) /\ Len(parts) \in Nat
      /\ i \in 1..Len(parts)
  <2>1. parts \in Seq([ headers : Symbols, content : Seq(Symbols) ])
    BY Zenon DEF IsRequest
  <2>2. DOMAIN parts = 1..Len(parts)
    BY <2>1, LenProperties
  <2> QED BY <2>2, LayoutIs DEF FormAt, Readable
<1>1. i \in 1..k
  <2>1. PICK j \in 1..k : KeyOf(parts, j) = key
    BY <1>0 DEF FieldsUpTo, KeysUpTo
  <2> DEFINE e == IF i < k THEN k ELSE i
  <2>2. e \in 0..Len(parts) /\ i \in 1..e /\ j \in 1..e
    BY <1>0
  <2>3. i = j
    <3>1. \A l \in 1..e : l \in 1..k \/ l \in 1..i
      BY <1>0
    <3>2. \A l \in 1..i : NameOf(parts, l) \in Names
      BY FormAssumption DEF Readable, NameOf
    <3>3. \A l \in 1..e : NameOf(parts, l) \in Names
      BY <1>0, <3>1, <3>2, FieldsHaveNames
    <3> HIDE DEF parts, e
    <3>4. SUFFICES ASSUME i # j
                   PROVE  FALSE
      OBVIOUS
    <3>5. Len(parts) \in Nat /\ KeyOf(parts, j) = KeyOf(parts, i)
      BY <1>0, <2>1
    <3>6. KeyOf(parts, i) # KeyOf(parts, j)
      BY ONLY <2>2, <3>3, <3>4, <3>5, KeysDiffer
    <3> QED BY <3>5, <3>6
  <2> QED BY <2>1, <2>3
<1>2. p.fields[key].filename = Parts[parts[i].headers].filename
  BY <1>0, <1>1 DEF FieldsUpTo
<1>3. C \in Seq(Symbols)
  BY <1>0, LayoutIs DEF ContentOf
<1>4. ASSUME p.fields[key].filename # NoFilename
      PROVE  IsPrefix(StoredIn(p, key), C)
  <2>1. WholeUpTo(r, p, k) => StoredIn(p, key) = C
    BY <1>1, <1>4 DEF WholeUpTo, HasGot
  <2>2. CASE WholeUpTo(r, p, k)
    BY <1>3, <2>1, <2>2, WholeSeq
  <2>3. CASE TakesContent(r, p, k, m)
    <3>1. CASE i = k
      <4>1. PICK c \in Nat : /\ c <= Len(ContentOf(r, k))
                             /\ HasGot(p, KeyOf(r.parts, k), SubSeq(ContentOf(r, k), 1, c))
        BY <2>3 DEF TakesContent
      <4>2. c <= Len(C) /\ StoredIn(p, key) = SubSeq(C, 1, c)
        BY <1>4, <3>1, <4>1 DEF HasGot
      <4> HIDE DEF C
      <4> QED BY <1>3, <4>2, PrefixOf
    <3>2. CASE i # k
      <4>1. i \in 1..(k - 1)
        BY <1>0, <1>1, <3>2
      <4>2. StoredIn(p, key) = C
        BY <1>4, <2>3, <4>1 DEF TakesContent, WholeUpTo, HasGot
      <4> QED BY <1>3, <4>2, WholeSeq
    <3> QED BY <3>1, <3>2
  <2> QED BY <2>2, <2>3 DEF FormAt, Looks, AwaitsHeaders
<1> QED BY <1>2, <1>4 DEF key, C, parts, ContentOf

(* What a connection's parser has read of a form. *)
FormRead(r, h) ==
    IF SentForm(r)
    THEN /\ \E n \in Nat : \E k, m : /\ n <= Len(Body(r)) /\ FormAt(r, n, h.form, k, m)
                                     /\ h.result = "more" => n = h.consumed
         /\ h.result = "true" => Complete(r, h.form)
    ELSE h.form.fields = << >>

(* How long what is sent is. *)
LEMMA Lengths ==
    ASSUME NEW n \in DOMAIN Requests, NEW r, r = Requests[n]
    PROVE  /\ HeadLen(r) \in Nat /\ Len(Body(r)) \in Nat /\ Len(r.content) \in Nat
           /\ Len(Sent[n]) = HeadLen(r) + Len(Body(r))
           /\ Len(r.content) <= Len(Body(r))
           /\ r.extra = << >> => Len(Body(r)) = Len(r.content)
<1>1. IsRequest(r)
  BY RequestIs
<1>2. /\ Len(Body(r)) \in Nat /\ Len(r.content) \in Nat /\ Len(r.content) <= Len(Body(r))
      /\ r.extra = << >> => Len(Body(r)) = Len(r.content)
  BY <1>1, BodyIs
<1>3. HeadLen(r) \in Nat /\ Len(Sent[n]) = HeadLen(r) + Len(Body(r))
  <2> DEFINE x == Requests[n]
  <2>1. HeadLen(x) \in Nat /\ Len(Sent[n]) = HeadLen(x) + Len(Body(x))
    BY SentIs
  <2>2. x = r
    OBVIOUS
  <2> HIDE DEF x
  <2> QED BY ONLY <2>1, <2>2
<1> QED BY <1>2, <1>3

(* A piece more, read by a connection's parser: its form is where the pieces
   put it. *)
LEMMA PieceRead ==
    ASSUME NEW n \in DOMAIN Requests, NEW r, r = Requests[n],
           NEW N \in Nat, NEW len \in Nat \ {0}, N + len <= Len(Sent[n]),
           NEW h, ReadAt(r, N, h), FormRead(r, h),
           NEW piece, piece = SubSeq(Sent[n], N + 1, N + len),
           NEW q, q = Parse(r, h, piece), q.result # "threw"
    PROVE  FormRead(r, q)
<1> DEFINE M == N + len
           H == HeadLen(r)
           D == Len(Body(r))
           L == Len(r.content)
<1>1. IsRequest(r)
  BY RequestIs
<1>2. /\ ReadAt(r, M, q) \/ Ended(r, M, q)
      /\ \/ /\ q.form = h.form
            /\ q.result = "more" => M <= H \/ r.type = "other"
            /\ q.result = "true" => ~Announces(r) \/ r.type = "other"
         \/ /\ r.type = "form" /\ Announces(r) /\ r.length # BadLength
            /\ h.consumed < M - H /\ M > H
            /\ q.form = AcceptSomeData(h.form, SubSeq(Body(r), h.consumed + 1, M - H))
            /\ q.result = "threw" <=> q.form.threw
  <2>1. Parsed(r, N, M, h, q)
    BY ParseOK
  <2> HIDE DEF M
  <2> QED BY <2>1, Zenon DEF Parsed, H
<1>3. /\ H \in Nat /\ D \in Nat /\ L \in Nat /\ M <= H + D
  <2>1. H \in Nat /\ D \in Nat /\ Len(Sent[n]) = H + D /\ L \in Nat
    BY Lengths
  <2>2. N + len <= Len(Sent[n])
    OBVIOUS
  <2> HIDE DEF H, D
  <2> QED BY <2>1, <2>2
<1>4. /\ h.result = "more" /\ FormOK(h.form) /\ ~h.form.threw /\ h \in ParserType
      /\ h.consumed \in Nat
  BY DEF ReadAt, ParserType
<1> HIDE DEF M, H, D, L
<1>5. CASE ~SentForm(r)
  <2>1. q.form = h.form
    BY <1>2, <1>5 DEF SentForm
  <2> QED BY <1>5, <2>1 DEF FormRead
<1>6. CASE SentForm(r)
  <2>1. r.type = "form" /\ Announces(r)
    BY <1>6 DEF SentForm
  <2>2. PICK n0 \in Nat : \E k, m : /\ n0 <= D /\ FormAt(r, n0, h.form, k, m)
                                    /\ h.result = "more" => n0 = h.consumed
    BY <1>6 DEF FormRead, D
  <2>3. n0 = h.consumed /\ n0 <= D
    BY <1>4, <2>2
  <2>4. PICK k, m : FormAt(r, n0, h.form, k, m)
    BY <2>2
  <2>5. q.result = "more" => ReadAt(r, M, q)
    BY <1>2 DEF Ended
  <2>6. q.result = "true" => Ended(r, M, q)
    BY <1>2 DEF ReadAt
  <2>7. CASE /\ q.form = h.form
             /\ q.result = "more" => M <= H \/ r.type = "other"
             /\ q.result = "true" => ~Announces(r) \/ r.type = "other"
    <3>1. q.result # "true"
      BY <2>1, <2>7
    <3>2. q.result = "more" => q.consumed = h.consumed
      <4>1. SUFFICES ASSUME q.result = "more"
                     PROVE  q.consumed = h.consumed
        OBVIOUS
      <4>2. M <= H /\ ReadAt(r, M, q)
        BY <2>1, <2>5, <2>7, <4>1
      <4>3. q.consumed = 0
        <5>1. /\ q.consumed = 0 \/ (q.consumed = M - H /\ q.consumed > 0)
          BY <2>1, <4>2 DEF ReadAt, H
        <5>2. M \in Nat
          BY DEF M
        <5> QED BY <1>3, <4>2, <5>1, <5>2
      <4>4. h.consumed = 0
        <5>1. h.consumed = 0 \/ (h.consumed = N - H /\ h.consumed > 0)
          BY <2>1 DEF ReadAt, H
        <5> QED BY <1>3, <4>2, <5>1 DEF M
      <4> QED BY <4>3, <4>4
    <3> QED BY <1>6, <2>3, <2>4, <2>7, <3>1, <3>2 DEF FormRead, D
  <2>8. CASE /\ r.type = "form" /\ Announces(r) /\ r.length # BadLength
             /\ h.consumed < M - H /\ M > H
             /\ q.form = AcceptSomeData(h.form, SubSeq(Body(r), h.consumed + 1, M - H))
             /\ q.result = "threw" <=> q.form.threw
    <3> DEFINE x == M - H
    <3>1. x \in Nat /\ n0 <= x /\ x <= D
      BY <1>3, <2>3, <2>8 DEF M
    <3> HIDE DEF x
    <3>2. q.form = AcceptSomeData(h.form, SubSeq(Body(r), n0 + 1, x)) /\ ~q.form.threw
      BY <2>3, <2>8 DEF x
    <3>3. /\ \E k2, m2 : FormAt(r, x, q.form, k2, m2)
          /\ x < Len(r.content) \/ Complete(r, q.form)
      BY <1>1, <1>4, <1>6, <2>4, <3>1, <3>2, PieceOfForm DEF D
    <3>4. q.result = "more" => x = q.consumed
      <4>1. SUFFICES ASSUME q.result = "more"
                     PROVE  x = q.consumed
        OBVIOUS
      <4>2. ReadAt(r, M, q) /\ M > H /\ M \in Nat
        BY <2>5, <2>8, <4>1 DEF M
      <4>3. ~(M < H) /\ M # H
        BY <1>3, <4>2
      <4> QED BY <2>1, <4>2, <4>3 DEF ReadAt, x, H
    <3>5. q.result = "true" => Complete(r, q.form)
      <4>1. SUFFICES ASSUME q.result = "true"
                     PROVE  Complete(r, q.form)
        OBVIOUS
      <4>2. M = H + r.length
        BY <2>1, <2>6, <4>1 DEF Ended, H
      <4>3. r.length = L
        BY <1>1, <2>1, <2>8 DEF IsRequest, L
      <4>4. x = L
        BY <1>3, <4>2, <4>3 DEF x
      <4> QED BY <1>3, <3>1, <3>3, <4>4 DEF L
    <3> QED BY <1>6, <3>1, <3>3, <3>4, <3>5 DEF FormRead, D
  <2> QED BY <1>2, <2>7, <2>8
<1> QED BY <1>5, <1>6

-----------------------------------------------------------------------------
(* The upload *)

(* The walk over the fields satisfies the equation that defines it. *)
LEMMA VisitsDef ==
    ASSUME NEW form, NEW refused, Cardinality(DOMAIN form.fields) \in Nat
    PROVE  /\ Visits(form, refused)[0] =
                  [ left |-> DOMAIN form.fields, work |-> Untouched(200) ]
           /\ \A i \in 1..Cardinality(DOMAIN form.fields) :
                  Visits(form, refused)[i] =
                      Visit(form, refused, Visits(form, refused)[i - 1])
<1> DEFINE s0 == [ left |-> DOMAIN form.fields, work |-> Untouched(200) ]
           N == Cardinality(DOMAIN form.fields)
           Is(g, n) == g = [ i \in 0..n |-> IF i = 0 THEN s0
                                            ELSE Visit(form, refused, g[i - 1]) ]
           P == { n \in Nat : \E g : Is(g, n) }
<1>0. N \in Nat
  OBVIOUS
<1> HIDE DEF s0, N
<1>1. 0 \in P
  <2>1. Is([ i \in 0..0 |-> s0 ], 0)
    OBVIOUS
  <2> QED BY <2>1
<1>2. ASSUME NEW n \in Nat, n \in P
      PROVE  n + 1 \in P
  <2>1. PICK g : Is(g, n)
    BY <1>2
  <2> DEFINE h == [ i \in 0..(n + 1) |-> IF i = n + 1 THEN Visit(form, refused, g[n])
                                         ELSE g[i] ]
  <2>2. \A i \in 0..(n + 1) : h[i] = IF i = 0 THEN s0 ELSE Visit(form, refused, h[i - 1])
    BY <2>1
  <2>3. Is(h, n + 1)
    BY <2>2
  <2>4. \E f : Is(f, n + 1)
    <3> HIDE DEF h, Is
    <3> QED BY <2>3
  <2> QED BY <2>4
<1>3. N \in P
  <2> HIDE DEF P
  <2> QED BY <1>0, <1>1, <1>2, NatInd
<1>4. Is(Visits(form, refused), N)
  <2>1. \E g : Is(g, N)
    BY <1>3
  <2>2. Visits(form, refused) = CHOOSE g : Is(g, N)
    BY DEF Visits, s0, N
  <2> HIDE DEF Is
  <2> QED BY <2>1, <2>2
<1>5. \A i \in 0..N :
          Visits(form, refused)[i] =
              IF i = 0 THEN s0 ELSE Visit(form, refused, Visits(form, refused)[i - 1])
  BY <1>4
<1>6. /\ Visits(form, refused)[0] = s0
      /\ \A i \in 1..N : Visits(form, refused)[i] =
                             Visit(form, refused, Visits(form, refused)[i - 1])
  BY <1>0, <1>5
<1> QED BY <1>6 DEF s0, N

(* Of fields that are left one is before all others. *)
LEMMA NextFieldIs ==
    ASSUME NEW left, left \subseteq FormNames, IsFiniteSet(left), left # {}
    PROVE  /\ NextField(left) \in left
           /\ \A l \in left \ { NextField(left) } : Before(NextField(left), l)
<1> DEFINE First(T) == \E x \in T : \A l \in T \ { x } : Before(x, l)
           P == { n \in Nat : \A T \in SUBSET left : Cardinality(T) = n + 1 => First(T) }
<1>1. \A T \in SUBSET left : IsFiniteSet(T) /\ Cardinality(T) \in Nat
  BY FS_Subset, FS_CardinalityType
<1>2. \A T \in SUBSET left : Cardinality(T) = 0 <=> T = {}
  BY <1>1, FS_EmptySet
<1>3. \A T \in SUBSET left : \A x \in T : Cardinality(T \ { x }) = Cardinality(T) - 1
  BY <1>1, FS_RemoveElement
<1>4. 0 \in P
  <2> SUFFICES ASSUME NEW T \in SUBSET left, Cardinality(T) = 1
               PROVE  First(T)
    OBVIOUS
  <2>1. PICK x \in T : TRUE
    BY <1>2
  <2>2. T \ { x } = {}
    <3>1. Cardinality(T \ { x }) = 0 /\ T \ { x } \in SUBSET left
      BY <1>3
    <3> QED BY <1>2, <3>1
  <2> QED BY <2>2
<1>5. ASSUME NEW n \in Nat, n \in P
      PROVE  n + 1 \in P
  <2> SUFFICES ASSUME NEW T \in SUBSET left, Cardinality(T) = n + 2
               PROVE  First(T)
    OBVIOUS
  <2>1. PICK x \in T : TRUE
    BY <1>2
  <2>2. First(T \ { x })
    <3>1. Cardinality(T \ { x }) = n + 1 /\ T \ { x } \in SUBSET left
      BY <1>3
    <3> HIDE DEF First
    <3> QED BY <1>5, <3>1
  <2>3. PICK y \in T \ { x } : \A l \in (T \ { x }) \ { y } : Before(y, l)
    BY <2>2
  <2>4. T \subseteq FormNames
    OBVIOUS
  <2>5. CASE Before(x, y)
    <3>1. \A l \in T \ { x } : Before(x, l)
      BY <2>3, <2>4, <2>5, TextOrderAssumption DEF Before
    <3> QED BY <3>1
  <2>6. CASE Before(y, x)
    BY <2>3, <2>6
  <2>7. Before(x, y) \/ Before(y, x)
    BY <2>3, <2>4, TextOrderAssumption DEF Before
  <2> QED BY <2>5, <2>6, <2>7
<1>6. \A n \in Nat : n \in P
  <2> HIDE DEF P
  <2> QED BY <1>4, <1>5, NatInd
<1>7. First(left)
  <2>1. Cardinality(left) - 1 \in Nat /\ (Cardinality(left) - 1) + 1 = Cardinality(left)
    BY <1>1, <1>2
  <2> HIDE DEF First
  <2> QED BY <1>6, <2>1
<1> QED BY <1>7 DEF NextField

(* AIMP is given the field, if nothing fails. *)
Plays(form, key) ==
    form.fields[key].filename # NoFilename => form.fields[key].filename \in Supported

(* The files are those that were there and ones of the form's. *)
FilesFrom(form, files) ==
    /\ DOMAIN library \subseteq DOMAIN files
    /\ \A f \in DOMAIN files :
           \/ f \in DOMAIN library /\ files[f] = library[f]
           \/ \E x \in DOMAIN form.fields :
                  /\ form.fields[x].filename = f /\ f # NoFilename /\ f \in Supported
                  /\ form.fields[x].temp # 0
                  /\ files[f] = form.disk[form.fields[x].temp]

(* The field was added. *)
IsAdded(work, x) == \E i \in 1..Len(work.added) : work.added[i] = x

(* What the work of a request consists of. *)
WorkFields == { "added", "files", "status" }

(* The fields that were visited come before those that are left; those added
   are ones AIMP plays, in order, all of them unless the work failed. *)
Visited(form, s) ==
    /\ s.left \subseteq DOMAIN form.fields
    /\ \A x \in DOMAIN form.fields \ s.left : \A l \in s.left : Before(x, l)
    /\ DOMAIN s.work = WorkFields /\ s.work.added \in Seq(Names)
    /\ \A i \in 1..Len(s.work.added) :
           /\ s.work.added[i] \in DOMAIN form.fields \ s.left
           /\ Plays(form, s.work.added[i])
           /\ form.fields[s.work.added[i]].filename # NoFilename =>
                  form.fields[s.work.added[i]].filename \in DOMAIN s.work.files
    /\ \A i, j \in 1..Len(s.work.added) :
           i < j => Before(s.work.added[i], s.work.added[j])
    /\ s.work.status \in { 200, 403 }
    /\ \A x \in DOMAIN form.fields \ s.left :
           /\ s.work.status = 200 /\ Plays(form, x) => IsAdded(s.work, x)
           /\ Plays(form, x) /\ ~IsAdded(s.work, x) =>
                  \A i \in 1..Len(s.work.added) : Before(s.work.added[i], x)
    /\ FilesFrom(form, s.work.files)

(* A file that is copied. *)
LEMMA FileCopied ==
    ASSUME NEW form, NEW files, FilesFrom(form, files),
           NEW x \in DOMAIN form.fields, NEW f, f = form.fields[x].filename,
           f # NoFilename, f \in Supported, form.fields[x].temp # 0,
           NEW new, new = Put(files, f, form.disk[form.fields[x].temp])
    PROVE  FilesFrom(form, new) /\ DOMAIN new = DOMAIN files \union { f }
<1>1. /\ DOMAIN new = DOMAIN files \union { f }
      /\ new[f] = form.disk[form.fields[x].temp]
      /\ \A g \in DOMAIN files \ { f } : new[g] = files[g]
  BY SMTT(60) DEF Put
<1>2. DOMAIN library \subseteq DOMAIN new
  BY <1>1, SMTT(30) DEF FilesFrom
<1>3. ASSUME NEW g \in DOMAIN new
      PROVE  \/ g \in DOMAIN library /\ new[g] = library[g]
             \/ \E y \in DOMAIN form.fields :
                    /\ form.fields[y].filename = g /\ g # NoFilename /\ g \in Supported
                    /\ form.fields[y].temp # 0
                    /\ new[g] = form.disk[form.fields[y].temp]
  <2>1. CASE g = f
    BY <1>1, <2>1, Zenon
  <2>2. CASE g # f
    <3>1. g \in DOMAIN files /\ new[g] = files[g]
      BY <1>1, <1>3, <2>2
    <3> QED BY <3>1, SMTT(60) DEF FilesFrom
  <2> QED BY <2>1, <2>2, SMTT(60)
<1> QED BY <1>1, <1>2, <1>3, Zenon DEF FilesFrom

(* What AddField does, case by case. *)
LEMMA AddFieldIs ==
    ASSUME NEW form, NEW refused, NEW work, NEW x \in DOMAIN form.fields,
           DOMAIN work = WorkFields, work.status \in { 200, 403 },
           FilesFrom(form, work.files)
    PROVE  LET u == AddField(form, refused, work, x)
               file == form.fields[x].filename
           IN  \/ (work.status # 200 \/ ~Plays(form, x)) /\ u = work
               \/ /\ work.status = 200 /\ DOMAIN u = WorkFields
                  /\ FilesFrom(form, u.files) /\ DOMAIN work.files \subseteq DOMAIN u.files
                  /\ \/ /\ u.status = 200 /\ u.added = Append(work.added, x)
                        /\ Plays(form, x)
                        /\ file # NoFilename => file \in DOMAIN u.files
                     \/ u.status = 403 /\ u.added = work.added
<1> DEFINE u == AddField(form, refused, work, x)
           field == form.fields[x]
           file == field.filename
           isFile == file # NoFilename
           copies == isFile /\ field.temp # 0
           files == IF copies THEN Put(work.files, file, form.disk[field.temp])
                    ELSE work.files
           ok == (isFile => copies) /\ x # refused.field
           asked == isFile /\ refused = [ field |-> x, at |-> "kinds" ]
<1>1. CASE work.status # 200
  BY <1>1 DEF AddField
<1>2. CASE work.status = 200 /\ asked
  <2>1. u = [work EXCEPT !.status = 403]
    BY <1>2 DEF AddField
  <2>2. /\ u.files = work.files /\ u.added = work.added /\ u.status = 403
        /\ DOMAIN u = WorkFields
    BY <2>1 DEF WorkFields
  <2> HIDE DEF u
  <2> QED BY <1>2, <2>2 DEF u
<1>3. CASE work.status = 200 /\ ~asked /\ isFile /\ file \notin Supported
  BY <1>3 DEF AddField, Plays
<1>4. CASE work.status = 200 /\ ~asked /\ (isFile => file \in Supported)
  <2>1. u = [ files |-> files,
              added |-> IF ok THEN Append(work.added, x) ELSE work.added,
              status |-> IF ok THEN 200 ELSE 403 ]
    BY <1>4 DEF AddField
  <2>2. /\ FilesFrom(form, files) /\ DOMAIN work.files \subseteq DOMAIN files
        /\ copies => file \in DOMAIN files
    <3>1. CASE copies
      <4> DEFINE new == Put(work.files, file, form.disk[field.temp])
      <4>1. FilesFrom(form, new) /\ DOMAIN new = DOMAIN work.files \union { file }
        BY <1>4, <3>1, FileCopied
      <4>2. files = new
        BY <3>1
      <4> HIDE DEF files, new
      <4> QED BY <4>1, <4>2
    <3>2. CASE ~copies
      BY <3>2
    <3> QED BY <3>1, <3>2
  <2> HIDE DEF files
  <2>3. /\ u.files = files /\ u.added = (IF ok THEN Append(work.added, x) ELSE work.added)
        /\ u.status = (IF ok THEN 200 ELSE 403)
        /\ DOMAIN u = WorkFields
    BY <2>1 DEF WorkFields
  <2>4. Plays(form, x)
    BY <1>4 DEF Plays
  <2> HIDE DEF u
  <2>5. CASE ok
    <3>1. u.status = 200 /\ u.added = Append(work.added, x)
      BY <2>3, <2>5
    <3>2. file # NoFilename => file \in DOMAIN u.files
      BY <2>2, <2>3, <2>5
    <3> QED BY <1>4, <2>2, <2>3, <2>4, <3>1, <3>2 DEF u
  <2>6. CASE ~ok
    BY <1>4, <2>2, <2>3, <2>6 DEF u
  <2> QED BY <2>5, <2>6
<1> QED BY <1>1, <1>2, <1>3, <1>4

(* Before the first field is visited. *)
LEMMA BeginVisits ==
    ASSUME NEW form
    PROVE  Visited(form, [ left |-> DOMAIN form.fields, work |-> Untouched(200) ])
<1> DEFINE s == [ left |-> DOMAIN form.fields, work |-> Untouched(200) ]
<1>1. /\ s.left = DOMAIN form.fields /\ s.work.added = << >>
      /\ s.work.files = library /\ s.work.status = 200
      /\ DOMAIN s.work = WorkFields
  BY DEF Untouched, WorkFields
<1>2. << >> \in Seq(Names) /\ 1..Len(<< >>) = {}
  BY EmptySeq
<1> HIDE DEF s
<1>3. FilesFrom(form, s.work.files)
  BY <1>1 DEF FilesFrom
<1>4. DOMAIN form.fields \ s.left = {} /\ 1..Len(s.work.added) = {}
  BY <1>1, <1>2
<1> QED BY <1>1, <1>2, <1>3, <1>4 DEF Visited, s

(* One field more is visited. *)
LEMMA VisitOK ==
    ASSUME NEW form, form.fields \in FieldMaps, DOMAIN form.fields \subseteq FormNames,
           NEW refused, NEW s, Visited(form, s), s.left # {}
    PROVE  LET v == Visit(form, refused, s)
           IN  /\ Visited(form, v)
               /\ \E x \in s.left : v.left = s.left \ { x }
<1> DEFINE v == Visit(form, refused, s)
           x == NextField(s.left)
           w == s.work
           u == AddField(form, refused, w, x)
           D == DOMAIN form.fields
           n == Len(w.added)
<1>1. D \subseteq Names
  BY FieldMapIs
<1>2. /\ s.left \subseteq D
      /\ \A y \in D \ s.left : \A l \in s.left : Before(y, l)
      /\ DOMAIN w = WorkFields /\ w.added \in Seq(Names)
      /\ \A i \in 1..n :
             /\ w.added[i] \in D \ s.left
             /\ Plays(form, w.added[i])
             /\ form.fields[w.added[i]].filename # NoFilename =>
                    form.fields[w.added[i]].filename \in DOMAIN w.files
      /\ \A i, j \in 1..n : i < j => Before(w.added[i], w.added[j])
      /\ w.status \in { 200, 403 }
      /\ \A y \in D \ s.left :
             /\ w.status = 200 /\ Plays(form, y) => IsAdded(w, y)
             /\ Plays(form, y) /\ ~IsAdded(w, y) =>
                    \A i \in 1..n : Before(w.added[i], y)
      /\ FilesFrom(form, w.files)
  BY DEF Visited
<1>3. x \in s.left /\ \A l \in s.left \ { x } : Before(x, l)
  <2>1. s.left \subseteq FormNames /\ IsFiniteSet(s.left)
    BY <1>2, FieldMapIs, FS_Subset
  <2> QED BY <2>1, NextFieldIs
<1>4. v.left = s.left \ { x } /\ v.work = u
  BY DEF Visit
<1>5. x \in D /\ n \in Nat
  BY <1>2, <1>3, LenProperties
<1>6. \/ (w.status # 200 \/ ~Plays(form, x)) /\ u = w
      \/ /\ w.status = 200 /\ DOMAIN u = WorkFields
         /\ FilesFrom(form, u.files) /\ DOMAIN w.files \subseteq DOMAIN u.files
         /\ \/ /\ u.status = 200 /\ u.added = Append(w.added, x)
               /\ Plays(form, x)
               /\ form.fields[x].filename # NoFilename =>
                      form.fields[x].filename \in DOMAIN u.files
            \/ u.status = 403 /\ u.added = w.added
  <2> HIDE DEF x, w
  <2> QED BY <1>2, <1>5, AddFieldIs
<1> DEFINE gone == D \ v.left
<1>7. gone = (D \ s.left) \union { x } /\ x \notin D \ s.left
  BY <1>3, <1>4, <1>5
<1>8. v.left \subseteq D /\ \A y \in gone : \A l \in v.left : Before(y, l)
  BY <1>2, <1>3, <1>4, <1>7
<1>9. \A i \in 1..n : Before(w.added[i], x)
  BY <1>2, <1>3
<1> HIDE DEF v, u, x, D, gone, w
<1>10. CASE (w.status # 200 \/ ~Plays(form, x)) /\ u = w
  <2>1. ~IsAdded(w, x)
    BY <1>2, <1>7 DEF IsAdded, n
  <2>2. \A y \in gone :
            /\ w.status = 200 /\ Plays(form, y) => IsAdded(w, y)
            /\ Plays(form, y) /\ ~IsAdded(w, y) => \A i \in 1..n : Before(w.added[i], y)
    <3> TAKE y \in gone
    <3>1. y \in D \ s.left \/ y = x
      BY <1>7
    <3> QED BY <1>2, <1>9, <1>10, <3>1
  <2>3. \A i \in 1..n : w.added[i] \in gone
    BY <1>2, <1>7
  <2>4. Visited(form, v)
    BY <1>2, <1>4, <1>8, <1>10, <2>2, <2>3 DEF Visited, gone, n, D
  <2> QED BY <1>3, <1>4, <2>4 DEF v
<1>11. CASE /\ w.status = 200 /\ DOMAIN u = WorkFields
            /\ FilesFrom(form, u.files) /\ DOMAIN w.files \subseteq DOMAIN u.files
            /\ u.status = 200 /\ u.added = Append(w.added, x) /\ Plays(form, x)
            /\ form.fields[x].filename # NoFilename =>
                   form.fields[x].filename \in DOMAIN u.files
  <2> DEFINE all == u.added
             m == n + 1
  <2>1. /\ all \in Seq(Names) /\ Len(all) = m
        /\ \A i \in 1..n : all[i] = w.added[i]
        /\ all[m] = x
    BY <1>1, <1>2, <1>5, <1>11, AppendProperties DEF n
  <2>2. \A i \in 1..m : i \in 1..n \/ i = m
    BY <1>5
  <2>3. m \in 1..m /\ \A i \in 1..n : i \in 1..m
    BY <1>5
  <2>4. \A i, j \in 1..m : i < j => i \in 1..n
    BY <1>5
  <2> HIDE DEF n, m, all
  <2>5. \A i \in 1..m : /\ all[i] \in gone /\ Plays(form, all[i])
                        /\ form.fields[all[i]].filename # NoFilename =>
                               form.fields[all[i]].filename \in DOMAIN u.files
    BY <1>2, <1>7, <1>11, <2>1, <2>2, SMTT(30)
  <2>6. \A i, j \in 1..m : i < j => Before(all[i], all[j])
    <3> TAKE i, j \in 1..m
    <3>1. SUFFICES ASSUME i < j
                   PROVE  Before(all[i], all[j])
      OBVIOUS
    <3>2. i \in 1..n
      BY <2>4, <3>1
    <3> QED BY <1>2, <1>9, <2>1, <2>2, <3>1, <3>2
  <2>7. \A y \in gone : Plays(form, y) => IsAdded(u, y)
    <3> TAKE y \in gone
    <3>1. SUFFICES ASSUME Plays(form, y)
                   PROVE  \E i \in 1..m : all[i] = y
      BY <2>1 DEF IsAdded, all
    <3>2. CASE y = x
      BY <2>1, <2>3, <3>2
    <3>3. CASE y \in D \ s.left
      <4>1. IsAdded(w, y)
        BY <1>2, <1>11, <3>1, <3>3
      <4>2. PICK i \in 1..n : w.added[i] = y
        BY <4>1, SMTT(30) DEF IsAdded, n
      <4> QED BY <2>1, <2>3, <4>2
    <3> QED BY <1>7, <3>2, <3>3
  <2>8. Visited(form, v)
    BY <1>4, <1>8, <1>11, <2>1, <2>5, <2>6, <2>7, SMTT(60) DEF Visited, gone, D, all
  <2> QED BY <1>3, <1>4, <2>8 DEF v
<1>12. CASE /\ w.status = 200 /\ DOMAIN u = WorkFields
            /\ FilesFrom(form, u.files) /\ DOMAIN w.files \subseteq DOMAIN u.files
            /\ u.status = 403 /\ u.added = w.added
  <2>1. \A y \in gone :
            Plays(form, y) /\ ~IsAdded(u, y) => \A i \in 1..n : Before(w.added[i], y)
    <3> TAKE y \in gone
    <3>1. y \in D \ s.left \/ y = x
      BY <1>7
    <3>2. IsAdded(u, y) <=> IsAdded(w, y)
      BY <1>12 DEF IsAdded
    <3> QED BY <1>2, <1>9, <3>1, <3>2
  <2>2. \A i \in 1..n :
            /\ w.added[i] \in gone /\ Plays(form, w.added[i])
            /\ form.fields[w.added[i]].filename # NoFilename =>
                   form.fields[w.added[i]].filename \in DOMAIN u.files
    BY <1>2, <1>7, <1>12
  <2>3. Visited(form, v)
    BY <1>2, <1>4, <1>8, <1>12, <2>1, <2>2 DEF Visited, gone, n, D
  <2> QED BY <1>3, <1>4, <2>3 DEF v
<1> QED BY <1>6, <1>10, <1>11, <1>12

(* All fields are visited, each once. *)
LEMMA VisitsOK ==
    ASSUME NEW form, form.fields \in FieldMaps, DOMAIN form.fields \subseteq FormNames,
           NEW refused
    PROVE  LET s == Visits(form, refused)[Cardinality(DOMAIN form.fields)]
           IN  Visited(form, s) /\ s.left = {}
<1> DEFINE D == DOMAIN form.fields
           N == Cardinality(D)
           s(i) == Visits(form, refused)[i]
           Good(i) == /\ Visited(form, s(i)) /\ IsFiniteSet(s(i).left)
                      /\ Cardinality(s(i).left) = N - i
           P == { i \in Nat : i \in 0..N => Good(i) }
<1>1. IsFiniteSet(D) /\ N \in Nat
  BY FieldMapIs, FS_CardinalityType
<1>2. /\ s(0) = [ left |-> D, work |-> Untouched(200) ]
      /\ \A i \in 1..N : s(i) = Visit(form, refused, s(i - 1))
  BY <1>1, VisitsDef
<1> HIDE DEF s
<1>3. Good(0)
  <2>1. Visited(form, s(0))
    BY <1>2, BeginVisits
  <2>2. s(0).left = D
    BY <1>2
  <2> HIDE DEF D
  <2> QED BY <1>1, <2>1, <2>2
<1>4. ASSUME NEW i \in Nat, i + 1 \in 0..N, Good(i)
      PROVE  Good(i + 1)
  <2>1. s(i + 1) = Visit(form, refused, s(i))
    BY <1>2, <1>4
  <2>2. s(i).left # {}
    <3>1. Cardinality(s(i).left) # 0
      BY <1>1, <1>4
    <3> QED BY <3>1, FS_EmptySet
  <2>3. /\ Visited(form, s(i + 1))
        /\ \E x \in s(i).left : s(i + 1).left = s(i).left \ { x }
    BY <1>4, <2>1, <2>2, VisitOK
  <2>4. PICK x \in s(i).left : s(i + 1).left = s(i).left \ { x }
    BY <2>3
  <2>5. /\ IsFiniteSet(s(i).left \ { x })
        /\ Cardinality(s(i).left \ { x }) = Cardinality(s(i).left) - 1
    BY <1>4, FS_RemoveElement
  <2>6. N - i - 1 = N - (i + 1)
    BY <1>1
  <2>7. Cardinality(s(i + 1).left) = N - (i + 1)
    BY <1>4, <2>4, <2>5, <2>6
  <2> QED BY <2>3, <2>4, <2>5, <2>7
<1>5. \A i \in Nat : i \in P
  <2>1. 0 \in P
    BY <1>3
  <2>2. \A i \in Nat : i \in P => i + 1 \in P
    <3> TAKE i \in Nat
    <3>1. SUFFICES ASSUME i + 1 \in 0..N, i \in P
                   PROVE  Good(i + 1)
      OBVIOUS
    <3>2. Good(i)
      <4>1. i \in 0..N
        BY <1>1, <3>1
      <4> HIDE DEF Good
      <4> QED BY <3>1, <4>1
    <3> QED BY <1>4, <3>1, <3>2
  <2> HIDE DEF P
  <2> QED BY <2>1, <2>2, NatInd
<1>6. Good(N)
  <2> HIDE DEF Good
  <2>1. N \in 0..N
    BY <1>1
  <2> QED BY <1>1, <1>5, <2>1
<1>7. s(N).left = {}
  <2>1. N - N = 0
    BY <1>1
  <2> QED BY <1>6, <2>1, FS_EmptySet
<1> QED BY <1>6, <1>7 DEF s, N, D

(* The whole form, if there is one, and no field without. *)
FormWhole(r, form) ==
    IF SentForm(r) THEN Complete(r, form) ELSE form.fields = << >>

(* Of a form that came whole, the fields are the parts that are sent, and
   those that AIMP is given are the playable ones. *)
LEMMA WholeFields ==
    ASSUME NEW r, IsRequest(r), NEW form, FormWhole(r, form)
    PROVE  /\ Readable(r) = DOMAIN r.parts
           /\ DOMAIN form.fields = { KeyOf(r.parts, i) : i \in Readable(r) }
           /\ \A i \in Readable(r) :
                  LET x == KeyOf(r.parts, i)
                  IN  /\ form.fields[x].filename = Parts[r.parts[i].headers].filename
                      /\ HasGot(form, x, r.parts[i].content)
           /\ Playable(r) = { x \in DOMAIN form.fields : Plays(form, x) }
<1> DEFINE K == Len(r.parts)
<1>1. DOMAIN r.parts = 1..K /\ K \in Nat
  <2>1. r.parts \in Seq([ headers : Symbols, content : Seq(Symbols) ])
    BY Zenon DEF IsRequest
  <2> QED BY <2>1, LenProperties
<1>2. ~SentForm(r) => r.parts = << >>
  BY Zenon DEF IsRequest, SentForm
<1>3. ~SentForm(r) => DOMAIN r.parts = {} /\ DOMAIN form.fields = {}
  <2>1. DOMAIN << >> = {}
    BY NothingYet
  <2> QED BY <1>2, <2>1 DEF FormWhole
<1> HIDE DEF K
<1>4. \A i \in 1..K : \A j \in 1..i : j \in 1..K
  BY <1>1
<1>5. Readable(r) = DOMAIN r.parts
  <2>1. CASE SentForm(r)
    <3>1. \A j \in 1..K : r.parts[j].headers \in DOMAIN Parts
      BY <2>1 DEF FormWhole, Complete, FieldsUpTo, K
    <3> QED BY <1>1, <1>4, <3>1 DEF Readable
  <2>2. CASE ~SentForm(r)
    BY <1>3, <2>2 DEF Readable
  <2> QED BY <2>1, <2>2
<1>6. DOMAIN form.fields = { KeyOf(r.parts, i) : i \in Readable(r) }
  <2>1. CASE SentForm(r)
    BY <1>1, <1>5, <2>1 DEF FormWhole, Complete, FieldsUpTo, KeysUpTo, K
  <2>2. CASE ~SentForm(r)
    BY <1>3, <1>5, <2>2
  <2> QED BY <2>1, <2>2
<1>7. ASSUME NEW i \in Readable(r)
      PROVE  /\ form.fields[KeyOf(r.parts, i)].filename = Parts[r.parts[i].headers].filename
             /\ HasGot(form, KeyOf(r.parts, i), r.parts[i].content)
  <2>1. SentForm(r) /\ i \in 1..K
    BY <1>1, <1>3, <1>5
  <2> QED BY <2>1 DEF FormWhole, Complete, FieldsUpTo, WholeUpTo, ContentOf, K
<1>8. Playable(r) = { x \in DOMAIN form.fields : Plays(form, x) }
  BY <1>6, <1>7 DEF Playable, Plays, IsFile
<1> QED BY <1>5, <1>6, <1>7, <1>8

(* What a request may have added when its reply is this status. *)
AddedOK(r, status, add, files) ==
    /\ \A i, j \in DOMAIN add : i < j => Before(add[i], add[j])
    /\ Range(add) \subseteq Playable(r)
    /\ \A k \in Playable(r) \ Range(add) : \A l \in Range(add) : Before(l, k)
    /\ r.uri = "upload" /\ status = 200 => Range(add) = Playable(r)
    /\ status \in { 0, 400, 401 } => Range(add) = {}
    /\ \A i \in Readable(r) :
           KeyOf(r.parts, i) \in Range(add) /\ IsFile(r, i) =>
               Parts[r.parts[i].headers].filename \in DOMAIN files

(* A request that adds nothing, and is no upload that succeeds. *)
LEMMA NothingAdded ==
    ASSUME NEW r, NEW status, NEW files, ~(r.uri = "upload" /\ status = 200)
    PROVE  AddedOK(r, status, << >>, files)
<1>1. DOMAIN << >> = {} /\ Range(<< >>) = {}
  BY NothingYet DEF Range
<1> QED BY <1>1 DEF AddedOK

(* handle_request adds what it may, keeps files of the form only, and has a
   status. *)
LEMMA HandleOK ==
    ASSUME NEW r, IsRequest(r), NEW form, form.fields \in FieldMaps,
           FormWhole(r, form), NEW refused, \E n \in DOMAIN Requests : r = Requests[n]
    PROVE  LET w == HandleRequest(r, form, refused)
           IN  /\ AddedOK(r, w.status, w.added, w.files)
               /\ w.status \in { 200, 401, 403 }
               /\ FilesFrom(form, w.files)
<1> DEFINE w == HandleRequest(r, form, refused)
           D == DOMAIN form.fields
<1>1. \A z : /\ Untouched(z).added = << >> /\ Untouched(z).status = z
             /\ FilesFrom(form, Untouched(z).files)
  BY DEF Untouched, FilesFrom
<1>2. CASE \E z \in { 200, 401, 403 } : w = Untouched(z) /\ (r.uri = "upload" => z # 200)
  BY <1>1, <1>2, NothingAdded
<1>3. CASE w = Visits(form, refused)[Cardinality(D)].work
  <2> DEFINE s == Visits(form, refused)[Cardinality(D)]
             n == Len(w.added)
  <2>1. Visited(form, s) /\ s.left = {} /\ s.work = w
    <3>1. D \subseteq FormNames
      BY WholeFields DEF FormNames
    <3> QED BY <1>3, <3>1, VisitsOK
  <2> HIDE DEF s, w, D
  <2>2. D \ s.left = D
    BY <2>1
  <2>3. /\ w.added \in Seq(Names)
        /\ \A i \in 1..n :
               /\ w.added[i] \in D /\ Plays(form, w.added[i])
               /\ form.fields[w.added[i]].filename # NoFilename =>
                      form.fields[w.added[i]].filename \in DOMAIN w.files
        /\ \A i, j \in 1..n : i < j => Before(w.added[i], w.added[j])
        /\ w.status \in { 200, 403 }
        /\ \A x \in D :
               /\ w.status = 200 /\ Plays(form, x) => IsAdded(w, x)
               /\ Plays(form, x) /\ ~IsAdded(w, x) =>
                      \A i \in 1..n : Before(w.added[i], x)
        /\ FilesFrom(form, w.files)
    BY <2>1, <2>2 DEF Visited, D
  <2>4. DOMAIN w.added = 1..n /\ Range(w.added) = { w.added[i] : i \in 1..n }
    BY <2>3, RangeEquality, LenProperties
  <2>5. \A x : IsAdded(w, x) <=> x \in Range(w.added)
    BY <2>4 DEF IsAdded
  <2>6. /\ D = { KeyOf(r.parts, i) : i \in Readable(r) }
        /\ \A i \in Readable(r) :
               form.fields[KeyOf(r.parts, i)].filename = Parts[r.parts[i].headers].filename
        /\ Playable(r) = { x \in D : Plays(form, x) }
    BY WholeFields DEF D
  <2> HIDE DEF n
  <2>7. Range(w.added) \subseteq Playable(r)
    BY <2>3, <2>4, <2>6
  <2>8. \A k \in Playable(r) \ Range(w.added) : \A l \in Range(w.added) : Before(l, k)
    BY <2>3, <2>4, <2>5, <2>6
  <2>9. w.status = 200 => Range(w.added) = Playable(r)
    BY <2>3, <2>5, <2>6, <2>7
  <2>10. w.status \notin { 0, 400, 401 }
    BY <2>3
  <2>11. ASSUME NEW i \in Readable(r), KeyOf(r.parts, i) \in Range(w.added), IsFile(r, i)
         PROVE  Parts[r.parts[i].headers].filename \in DOMAIN w.files
    BY <2>3, <2>4, <2>6, <2>11 DEF IsFile
  <2>12. AddedOK(r, w.status, w.added, w.files)
    BY <2>3, <2>4, <2>7, <2>8, <2>9, <2>10, <2>11 DEF AddedOK
  <2> QED BY <2>3, <2>12 DEF w
<1>4. \/ \E z \in { 200, 401, 403 } : w = Untouched(z) /\ (r.uri = "upload" => z # 200)
      \/ w = Visits(form, refused)[Cardinality(D)].work
  BY DEF HandleRequest, Upload
<1> QED BY <1>2, <1>3, <1>4

(* The file of a request handed on is the one that is sent. *)
LEMMA FileIsSent ==
    ASSUME NEW r, IsRequest(r), NEW form, FormWhole(r, form),
           NEW files, FilesFrom(form, files), NEW f \in DOMAIN files
    PROVE  \/ f \in DOMAIN library /\ files[f] = library[f]
           \/ f \in Supported /\
              \E j \in Readable(r) : /\ Parts[r.parts[j].headers].filename = f
                                     /\ files[f] = r.parts[j].content
<1>1. CASE f \in DOMAIN library /\ files[f] = library[f]
  BY <1>1, SMTT(30)
<1>2. CASE \E x \in DOMAIN form.fields :
               /\ form.fields[x].filename = f /\ f # NoFilename /\ f \in Supported
               /\ form.fields[x].temp # 0
               /\ files[f] = form.disk[form.fields[x].temp]
  <2>1. PICK x \in DOMAIN form.fields :
               /\ form.fields[x].filename = f /\ f # NoFilename /\ f \in Supported
               /\ form.fields[x].temp # 0
               /\ files[f] = form.disk[form.fields[x].temp]
    BY <1>2
  <2>2. PICK i \in Readable(r) : x = KeyOf(r.parts, i)
    BY <2>1, WholeFields
  <2>3. /\ form.fields[x].filename = Parts[r.parts[i].headers].filename
        /\ HasGot(form, x, r.parts[i].content)
    BY <2>2, WholeFields
  <2>4. files[f] = r.parts[i].content
    BY <2>1, <2>3 DEF HasGot, StoredIn
  <2> QED BY <2>1, <2>3, <2>4
<1> QED BY <1>1, <1>2 DEF FilesFrom

-----------------------------------------------------------------------------
(* The directory that all parsers share *)

(* A request's parser with the directory its fields write to. *)
WithDisk(h, disk) == [h EXCEPT !.form.disk = disk]

(* Nothing but the directory differs. *)
LEMMA WithDiskIs ==
    ASSUME NEW h \in ParserType, NEW disk \in Disks
    PROVE  LET g == WithDisk(h, disk)
           IN  /\ g \in ParserType
               /\ g.state = h.state /\ g.headers = h.headers
               /\ g.contentLength = h.contentLength /\ g.content = h.content
               /\ g.consumed = h.consumed /\ g.result = h.result
               /\ g.form \in FormType
               /\ g.form.status = h.form.status /\ g.form.collector = h.form.collector
               /\ g.form.fields = h.form.fields /\ g.form.current = h.form.current
               /\ g.form.threw = h.form.threw /\ g.form.disk = disk
<1> DEFINE f == [h.form EXCEPT !.disk = disk]
<1>1. h.form \in FormType
  BY DEF ParserType
<1>2. /\ f \in FormType /\ f.status = h.form.status /\ f.collector = h.form.collector
      /\ f.fields = h.form.fields /\ f.current = h.form.current
      /\ f.threw = h.form.threw /\ f.disk = disk
  BY <1>1 DEF FormType
<1>3. WithDisk(h, disk) = [h EXCEPT !.form = f]
  BY DEF WithDisk, ParserType
<1> HIDE DEF f
<1>4. /\ WithDisk(h, disk) \in ParserType /\ WithDisk(h, disk).form = f
      /\ WithDisk(h, disk).state = h.state /\ WithDisk(h, disk).headers = h.headers
      /\ WithDisk(h, disk).contentLength = h.contentLength
      /\ WithDisk(h, disk).content = h.content
      /\ WithDisk(h, disk).consumed = h.consumed /\ WithDisk(h, disk).result = h.result
  BY <1>2, <1>3 DEF ParserType
<1> QED BY <1>2, <1>4

(* What is kept between two handlers is the parser without the directory. *)
LEMMA KeptIs ==
    ASSUME NEW h \in ParserType
    PROVE  Kept(h) \in ParserType /\ WithDisk(Kept(h), h.form.disk) = h
<1> DEFINE none == << >>
<1>1. none \in Disks /\ h.form.disk \in Disks
  BY NothingYet DEF ParserType, FormType
<1>2. Kept(h) = WithDisk(h, none)
  BY DEF Kept, WithDisk
<1> HIDE DEF none
<1>3. Kept(h) \in ParserType
  BY <1>1, <1>2, WithDiskIs
<1>4. h.form \in FormType
  BY DEF ParserType
<1>5. WithDisk(WithDisk(h, none), h.form.disk) = h
  <2> DEFINE f == [h.form EXCEPT !.disk = none]
             g == [h EXCEPT !.form = f]
  <2>1. f \in FormType /\ [f EXCEPT !.disk = h.form.disk] = h.form
    BY <1>1, <1>4 DEF FormType
  <2>2. WithDisk(h, none) = g
    BY DEF WithDisk
  <2>3. g.form = f
    BY DEF ParserType
  <2>4. WithDisk(g, h.form.disk) = [g EXCEPT !.form = [f EXCEPT !.disk = h.form.disk]]
    BY <2>3 DEF WithDisk
  <2>5. [g EXCEPT !.form = h.form] = h
    <3> HIDE DEF f
    <3> QED BY DEF ParserType
  <2> QED BY <2>1, <2>2, <2>4, <2>5
<1> QED BY <1>2, <1>3, <1>5

(* The file a field has open. *)
LEMMA OpenTempsIs ==
    ASSUME NEW fields, NEW x \in DOMAIN fields, fields[x].temp # 0
    PROVE  fields[x].temp \in OpenTemps(fields)
BY DEF OpenTemps

(* A form is the same when a directory with the same files of its own is given
   to it. *)
LEMMA FormElsewhere ==
    ASSUME NEW r, IsRequest(r), NEW p, NEW q, q.fields = p.fields,
           q.collector = p.collector, q.status = p.status, q.current = p.current,
           \A t \in OpenTemps(p.fields) : q.disk[t] = p.disk[t]
    PROVE  /\ \A n, k, m : FormAt(r, n, p, k, m) => FormAt(r, n, q, k, m)
           /\ Complete(r, p) => Complete(r, q)
<1> DEFINE K == Len(r.parts)
<1>0. K \in Nat
  <2>1. r.parts \in Seq([ headers : Symbols, content : Seq(Symbols) ])
    BY Zenon DEF IsRequest
  <2> QED BY <2>1, LenProperties
<1>1. \A x \in DOMAIN p.fields : StoredIn(q, x) = StoredIn(p, x)
  BY OpenTempsIs DEF StoredIn
<1>2. \A x \in DOMAIN p.fields : \A data : HasGot(p, x, data) => HasGot(q, x, data)
  BY <1>1 DEF HasGot
<1>3. \A k : FieldsUpTo(r, p, k) => FieldsUpTo(r, q, k)
  BY DEF FieldsUpTo
<1>4. \A k \in Nat : FieldsUpTo(r, p, k) => \A j \in 1..k : KeyOf(r.parts, j) \in DOMAIN p.fields
  BY DEF FieldsUpTo, KeysUpTo
<1>5. ASSUME NEW k \in Nat, FieldsUpTo(r, p, k), NEW j \in 0..k, WholeUpTo(r, p, j)
      PROVE  WholeUpTo(r, q, j)
  <2>1. \A i \in 1..j : i \in 1..k
    BY <1>5
  <2> QED BY <1>2, <1>4, <1>5, <2>1 DEF WholeUpTo
<1>6. Complete(r, p) => Complete(r, q)
  <2>1. K \in 0..K
    BY <1>0
  <2> QED BY <1>0, <1>3, <1>5, <2>1 DEF Complete
<1>7. ASSUME NEW n, NEW k, NEW m, FormAt(r, n, p, k, m)
      PROVE  FormAt(r, n, q, k, m)
  <2>1. k \in Nat /\ k \in 0..k /\ (k >= 1 => k - 1 \in 0..k /\ k \in 1..k)
    BY <1>0, <1>7 DEF FormAt
  <2>2. FieldsUpTo(r, p, k) /\ FieldsUpTo(r, q, k)
    BY <1>3, <1>7 DEF FormAt
  <2>3. Looks(r, p, k, m) => Looks(r, q, k, m)
    BY <1>5, <2>1, <2>2 DEF Looks
  <2>4. AwaitsHeaders(r, p, k, m) => AwaitsHeaders(r, q, k, m)
    BY <1>5, <2>1, <2>2 DEF AwaitsHeaders
  <2>5. TakesContent(r, p, k, m) => TakesContent(r, q, k, m)
    <3>1. SUFFICES ASSUME TakesContent(r, p, k, m)
                   PROVE  TakesContent(r, q, k, m)
      OBVIOUS
    <3>2. WholeUpTo(r, q, k - 1)
      BY <1>5, <2>1, <2>2, <3>1 DEF TakesContent
    <3>3. KeyOf(r.parts, k) \in DOMAIN p.fields
      BY <1>4, <2>1, <2>2, <3>1 DEF TakesContent
    <3> QED BY <1>2, <3>1, <3>2, <3>3 DEF TakesContent
  <2> QED BY <1>7, <2>2, <2>3, <2>4, <2>5 DEF FormAt
<1> QED BY <1>6, <1>7

(* The same for the whole parser of a connection. *)
LEMMA Elsewhere ==
    ASSUME NEW r, IsRequest(r), NEW h \in ParserType, NEW d1 \in Disks, NEW d2 \in Disks,
           NEW g1, g1 = WithDisk(h, d1), NEW g2, g2 = WithDisk(h, d2), NEW N,
           \A t \in OpenTemps(h.form.fields) : t \in DOMAIN d2 /\ d2[t] = d1[t]
    PROVE  /\ ReadAt(r, N, g1) => ReadAt(r, N, g2)
           /\ Ended(r, N, g1) => Ended(r, N, g2)
           /\ FormRead(r, g1) => FormRead(r, g2)
<1>1. /\ g1 \in ParserType /\ g2 \in ParserType
      /\ g2.state = g1.state /\ g2.headers = g1.headers
      /\ g2.contentLength = g1.contentLength /\ g2.content = g1.content
      /\ g2.consumed = g1.consumed /\ g2.result = g1.result
  BY WithDiskIs
<1>2. /\ g1.form \in FormType /\ g2.form \in FormType
      /\ g2.form.status = g1.form.status /\ g2.form.collector = g1.form.collector
      /\ g2.form.fields = g1.form.fields /\ g2.form.current = g1.form.current
      /\ g2.form.threw = g1.form.threw /\ g1.form.disk = d1 /\ g2.form.disk = d2
      /\ g1.form.fields = h.form.fields
  BY WithDiskIs
<1>3. FormOK(g1.form) => FormOK(g2.form)
  BY <1>2 DEF FormOK, OwnsItsFiles
<1>4. ReadAt(r, N, g1) => ReadAt(r, N, g2)
  BY <1>1, <1>2, <1>3 DEF ReadAt
<1>5. Ended(r, N, g1) => Ended(r, N, g2)
  BY <1>1, <1>2, <1>3 DEF Ended
<1>6. /\ \A n, k, m : FormAt(r, n, g1.form, k, m) => FormAt(r, n, g2.form, k, m)
      /\ Complete(r, g1.form) => Complete(r, g2.form)
  <2>1. \A t \in OpenTemps(g1.form.fields) : g2.form.disk[t] = g1.form.disk[t]
    BY <1>2
  <2> QED BY <1>2, <2>1, FormElsewhere
<1>7. FormRead(r, g1) => FormRead(r, g2)
  BY <1>1, <1>2, <1>6 DEF FormRead
<1> QED BY <1>4, <1>5, <1>7

-----------------------------------------------------------------------------
(* The connections *)

(* The parser of a connection that has not read anything. *)
Fresh(h) ==
    /\ h.form.fields = << >>
    /\ \A n \in DOMAIN Requests : ReadAt(Requests[n], 0, h) /\ FormRead(Requests[n], h)

(* A connection: its phase, the request its client sends, how much of it was
   read, its parser with the directory, the reply, and what it added. *)
ConnectionOK(ph, n, N, h, rep, add, files) ==
    LET r == Requests[n]
    IN  /\ N \in 0..Len(Sent[n])
        /\ rep \in { 0, 200, 400, 401, 403 }
        /\ AddedOK(r, rep, add, files)
        /\ ph \in { "absent", "closed" } => N = 0 /\ Fresh(h)
        /\ ph \in { "absent", "reading" } => rep = 0 /\ add = << >>
        /\ ph = "reading" => ReadAt(r, N, h) /\ FormRead(r, h)
        /\ ph = "replying" => /\ Ended(r, N, h) /\ FormRead(r, h)
                              /\ h.result \in { "true", "false" } /\ rep # 0

(* One of the clients sent this file. *)
FromClient(f, data) ==
    \E d \in Connections : \E j \in Readable(RequestOf(d)) :
        /\ phase[d] # "absent"
        /\ Parts[RequestOf(d).parts[j].headers].filename = f
        /\ data = RequestOf(d).parts[j].content

(* The inductive invariant: the type of the state, every connection, the
   temporary files, each of one connection, and the files kept. *)
RequestsInv ==
    /\ alive \in BOOLEAN
    /\ phase \in [Connections -> Phases]
    /\ request \in [Connections -> DOMAIN Requests]
    /\ parser \in [Connections -> ParserType]
    /\ DOMAIN read = Connections /\ DOMAIN reply = Connections
    /\ DOMAIN added = Connections
    /\ temps \in Disks
    /\ DOMAIN temps = UNION { OpenTemps(FieldsOf(c)) : c \in Connections }
    /\ \A c, d \in Connections :
           c # d => OpenTemps(FieldsOf(c)) \intersect OpenTemps(FieldsOf(d)) = {}
    /\ \A c \in Connections :
           ConnectionOK(phase[c], request[c], read[c], WithDisk(parser[c], temps),
                        reply[c], added[c], library)
    /\ \A f \in DOMAIN library : f \in Supported /\ FromClient(f, library[f])

(* A new request parser has not read anything, of whatever request. *)
LEMMA NewRequestParserIs ==
    /\ NewRequestParser \in ParserType
    /\ NewRequestParser.form.fields = << >> /\ OpenTemps(<< >>) = {}
    /\ \A disk \in Disks : Fresh(WithDisk(NewRequestParser, disk))
<1>0. FormOK(NewParser) /\ NewParser \in FormType
  BY NewFormOK DEF FormOK
<1>1. << >> \in Seq(Symbols)
  BY EmptySeq
<1>2. NewRequestParser \in ParserType /\ NewRequestParser.form = NewParser
  BY <1>0, <1>1 DEF NewRequestParser, ParserType, States
<1>3. /\ NewRequestParser.form.fields = << >> /\ NewRequestParser.form.collector = << >>
      /\ NewRequestParser.form.status = "LookingForStartingBoundary"
      /\ NewRequestParser.form.threw = FALSE
      /\ NewRequestParser.state = "method_start" /\ NewRequestParser.headers = {}
      /\ NewRequestParser.contentLength = 0 /\ NewRequestParser.content = << >>
      /\ NewRequestParser.consumed = 0 /\ NewRequestParser.result = "more"
  BY <1>2 DEF NewParser, NewRequestParser
<1>4. OpenTemps(<< >>) = {}
  BY NothingYet DEF OpenTemps
<1>5. ASSUME NEW disk \in Disks
      PROVE  Fresh(WithDisk(NewRequestParser, disk))
  <2> DEFINE h == WithDisk(NewRequestParser, disk)
  <2>1. /\ h \in ParserType /\ h.state = "method_start" /\ h.headers = {}
        /\ h.contentLength = 0 /\ h.content = << >> /\ h.consumed = 0
        /\ h.result = "more" /\ h.form \in FormType
        /\ h.form.status = "LookingForStartingBoundary" /\ h.form.collector = << >>
        /\ h.form.fields = << >> /\ ~h.form.threw
    BY <1>2, <1>3, WithDiskIs
  <2> HIDE DEF h
  <2>2. DOMAIN h.form.fields = {} /\ OpenTemps(h.form.fields) = {}
    BY <1>4, <2>1, NothingYet
  <2>3. FormOK(h.form)
    BY <2>1, <2>2 DEF FormOK, OwnsItsFiles
  <2>4. ASSUME NEW n \in DOMAIN Requests
        PROVE  ReadAt(Requests[n], 0, h) /\ FormRead(Requests[n], h)
    <3> DEFINE r == Requests[n]
    <3>1. IsRequest(r)
      BY RequestIs
    <3>2. Len(r.headers) \in Nat
      <4>1. r.headers \in Seq(HeaderNames)
        BY <3>1, Zenon DEF IsRequest
      <4> QED BY <4>1, LenProperties
    <3>3. HeadersBy(r, 0) = {}
      BY <3>1, HeadersByIs
    <3>4. 0 < HeadLen(r) /\ HeadState(r, 0) = "method_start"
      BY <3>2 DEF HeadLen, HeadState
    <3> HIDE DEF r
    <3>5. ReadAt(r, 0, h)
      BY <2>1, <2>3, <3>3, <3>4 DEF ReadAt
    <3>6. FormRead(r, h)
      <4>1. CASE SentForm(r)
        <5>1. FormAt(r, 0, h.form, 0, 0)
          BY <2>1, <3>1, <4>1, NewFormAt
        <5>2. 0 <= Len(Body(r))
          BY Lengths DEF r
        <5> QED BY <2>1, <4>1, <5>1, <5>2 DEF FormRead
      <4>2. CASE ~SentForm(r)
        BY <2>1, <4>2 DEF FormRead
      <4> QED BY <4>1, <4>2
    <3> QED BY <3>5, <3>6 DEF r
  <2> QED BY <2>1, <2>4 DEF Fresh, h
<1> QED BY <1>2, <1>3, <1>4, <1>5

(* Files are only added. *)
LEMMA AddedStays ==
    ASSUME NEW r, NEW rep, NEW add, NEW files, NEW more, DOMAIN files \subseteq DOMAIN more,
           AddedOK(r, rep, add, files)
    PROVE  AddedOK(r, rep, add, more)
BY DEF AddedOK

(* What another connection does leaves a connection as it is. *)
LEMMA ConnectionStays ==
    ASSUME NEW ph, NEW n \in DOMAIN Requests, NEW N, NEW h \in ParserType,
           NEW d1 \in Disks, NEW d2 \in Disks, NEW rep, NEW add, NEW files, NEW more,
           \A t \in OpenTemps(h.form.fields) : t \in DOMAIN d2 /\ d2[t] = d1[t],
           DOMAIN files \subseteq DOMAIN more,
           ConnectionOK(ph, n, N, WithDisk(h, d1), rep, add, files)
    PROVE  ConnectionOK(ph, n, N, WithDisk(h, d2), rep, add, more)
<1> DEFINE g1 == WithDisk(h, d1)
           g2 == WithDisk(h, d2)
           r == Requests[n]
<1>1. \A m \in DOMAIN Requests :
          /\ ReadAt(Requests[m], 0, g1) => ReadAt(Requests[m], 0, g2)
          /\ FormRead(Requests[m], g1) => FormRead(Requests[m], g2)
  BY RequestIs, Elsewhere
<1>2. /\ ReadAt(r, N, g1) => ReadAt(r, N, g2)
      /\ Ended(r, N, g1) => Ended(r, N, g2)
      /\ FormRead(r, g1) => FormRead(r, g2)
  BY RequestIs, Elsewhere
<1>3. g2.form.fields = g1.form.fields /\ g2.result = g1.result
  BY WithDiskIs
<1> HIDE DEF g1, g2, r
<1>4. Fresh(g1) => Fresh(g2)
  BY <1>1, <1>3 DEF Fresh
<1>5. AddedOK(r, rep, add, files) => AddedOK(r, rep, add, more)
  BY AddedStays
<1>6. ConnectionOK(ph, n, N, g1, rep, add, files)
  BY DEF g1
<1>7. ConnectionOK(ph, n, N, g2, rep, add, more)
  BY <1>2, <1>3, <1>4, <1>5, <1>6 DEF ConnectionOK, r
<1> QED BY <1>7 DEF g2

(* The form's parser of a connection. *)
LEMMA ConnectionForm ==
    ASSUME NEW ph \in Phases, NEW n \in DOMAIN Requests, NEW N, NEW h, NEW rep, NEW add,
           NEW files, ConnectionOK(ph, n, N, h, rep, add, files)
    PROVE  FormOK(h.form)
<1>1. CASE ph \in { "absent", "closed" }
  BY <1>1 DEF ConnectionOK, Fresh, ReadAt
<1>2. CASE ph = "reading"
  BY <1>2 DEF ConnectionOK, ReadAt
<1>3. CASE ph = "replying"
  BY <1>3 DEF ConnectionOK, Ended
<1> QED BY <1>1, <1>2, <1>3 DEF Phases

(* Between the handlers a connection's own parser, as a handler gets it. *)
LEMMA OpenedIs ==
    ASSUME RequestsInv, NEW c \in Connections
    PROVE  LET h == WithDisk(parser[c], temps)
           IN  /\ h \in ParserType /\ FormOK(h.form)
               /\ h.form.disk = temps /\ h.form.fields = FieldsOf(c)
               /\ OpenTemps(FieldsOf(c)) \subseteq DOMAIN temps
               /\ DiskStep(h.form, h.form)
<1> DEFINE h == WithDisk(parser[c], temps)
<1>1. parser[c] \in ParserType /\ temps \in Disks /\ phase[c] \in Phases
      /\ request[c] \in DOMAIN Requests
  BY DEF RequestsInv
<1>2. h \in ParserType /\ h.form.disk = temps /\ h.form.fields = FieldsOf(c)
  BY <1>1, WithDiskIs DEF FieldsOf
<1>3. ConnectionOK(phase[c], request[c], read[c], h, reply[c], added[c], library)
  BY DEF RequestsInv
<1> HIDE DEF h
<1>4. FormOK(h.form)
  BY <1>1, <1>3, ConnectionForm
<1>5. OpenTemps(FieldsOf(c)) \subseteq DOMAIN temps
  BY <1>2, <1>4 DEF FormOK, OwnsItsFiles
<1>6. DiskStep(h.form, h.form)
  BY <1>4, DiskStepSame
<1> QED BY <1>2, <1>4, <1>5, <1>6 DEF h

(* No connection, no file: the invariant holds. *)
LEMMA InitOK ==
    ASSUME RequestsInit
    PROVE  RequestsInv
<1>1. /\ NewRequestParser \in ParserType /\ NewRequestParser.form.fields = << >>
      /\ OpenTemps(<< >>) = {} /\ << >> \in Disks /\ DOMAIN << >> = {}
      /\ Fresh(WithDisk(NewRequestParser, << >>))
  BY NewRequestParserIs, NothingYet
<1>2. (CHOOSE n \in DOMAIN Requests : TRUE) \in DOMAIN Requests
  BY RequestsAssumption
<1>3. /\ alive \in BOOLEAN /\ temps = << >> /\ library = << >>
      /\ phase \in [Connections -> Phases]
      /\ request \in [Connections -> DOMAIN Requests]
      /\ parser \in [Connections -> ParserType]
      /\ DOMAIN read = Connections /\ DOMAIN reply = Connections
      /\ DOMAIN added = Connections
  BY <1>1, <1>2 DEF RequestsInit, Phases
<1>4. \A c \in Connections :
          /\ phase[c] = "absent" /\ read[c] = 0 /\ parser[c] = NewRequestParser
          /\ reply[c] = 0 /\ added[c] = << >> /\ request[c] \in DOMAIN Requests
  BY <1>3 DEF RequestsInit
<1>5. \A c \in Connections : OpenTemps(FieldsOf(c)) = {}
  BY <1>1, <1>4 DEF FieldsOf
<1>6. ASSUME NEW c \in Connections
      PROVE  ConnectionOK(phase[c], request[c], read[c], WithDisk(parser[c], temps),
                          reply[c], added[c], library)
  <2>1. Len(Sent[request[c]]) \in Nat /\ 0 \in 0..Len(Sent[request[c]])
    BY <1>4, SentIs, LenProperties
  <2>2. AddedOK(Requests[request[c]], 0, << >>, library)
    BY NothingAdded
  <2> QED BY <1>1, <1>3, <1>4, <2>1, <2>2 DEF ConnectionOK
<1> QED BY <1>1, <1>3, <1>5, <1>6 DEF RequestsInv

(* handle_accept keeps the invariant. *)
LEMMA StartOK ==
    ASSUME RequestsInv, NEW c \in Connections, NEW n \in DOMAIN Requests, Start(c, n)
    PROVE  RequestsInv'
<1>1. /\ phase[c] = "absent" /\ phase' = [phase EXCEPT ![c] = "reading"]
      /\ request' = [request EXCEPT ![c] = n]
      /\ read' = read /\ parser' = parser /\ reply' = reply /\ temps' = temps
      /\ library' = library /\ added' = added /\ alive' = alive
  BY DEF Start
<1>2. /\ phase' \in [Connections -> Phases] /\ request' \in [Connections -> DOMAIN Requests]
      /\ phase'[c] = "reading" /\ request'[c] = n
      /\ \A d \in Connections \ { c } : phase'[d] = phase[d] /\ request'[d] = request[d]
  BY <1>1 DEF RequestsInv, Phases
<1>3. \A d \in Connections : FieldsOf(d)' = FieldsOf(d)
  BY <1>1 DEF FieldsOf
<1>4. ASSUME NEW d \in Connections
      PROVE  ConnectionOK(phase[d], request[d], read[d], WithDisk(parser[d], temps),
                          reply[d], added[d], library)'
  <2> DEFINE h == WithDisk(parser[d], temps)
  <2>1. /\ ConnectionOK(phase[d], request[d], read[d], h, reply[d], added[d], library)
        /\ WithDisk(parser[d], temps)' = h
    BY <1>1 DEF RequestsInv, WithDisk
  <2> HIDE DEF h
  <2>2. CASE d # c
    BY <1>1, <1>2, <2>1, <2>2
  <2>3. CASE d = c
    <3>1. read[c] = 0 /\ Fresh(h) /\ reply[c] = 0 /\ added[c] = << >>
      BY <1>1, <2>1, <2>3 DEF ConnectionOK
    <3>2. ReadAt(Requests[n], 0, h) /\ FormRead(Requests[n], h)
      BY <3>1 DEF Fresh
    <3>3. Len(Sent[n]) \in Nat /\ 0 \in 0..Len(Sent[n])
      BY SentIs, LenProperties
    <3>4. AddedOK(Requests[n], 0, << >>, library)
      BY NothingAdded
    <3>5. ConnectionOK("reading", n, 0, h, 0, << >>, library)
      BY <3>2, <3>3, <3>4 DEF ConnectionOK
    <3> QED BY <1>1, <1>2, <2>1, <2>3, <3>1, <3>5
  <2> QED BY <2>2, <2>3
<1>5. ASSUME NEW f \in DOMAIN library
      PROVE  f \in Supported /\ FromClient(f, library[f])'
  <2>1. f \in Supported /\ FromClient(f, library[f])
    BY DEF RequestsInv
  <2>2. PICK d \in Connections : \E j \in Readable(RequestOf(d)) :
            /\ phase[d] # "absent"
            /\ Parts[RequestOf(d).parts[j].headers].filename = f
            /\ library[f] = RequestOf(d).parts[j].content
    BY <2>1 DEF FromClient
  <2>3. d # c /\ phase'[d] # "absent" /\ RequestOf(d)' = RequestOf(d)
    BY <1>1, <1>2, <2>2 DEF RequestOf
  <2> QED BY <1>1, <2>1, <2>2, <2>3 DEF FromClient
<1> QED BY <1>1, <1>2, <1>3, <1>4, <1>5 DEF RequestsInv

(* Files of one connection that grow or come are no matter for the others. *)
LEMMA OthersStay ==
    ASSUME RequestsInv, NEW c \in Connections, NEW h, h.form.disk \in Disks,
           DiskStep(WithDisk(parser[c], temps).form, h.form),
           NEW d \in Connections \ { c }, NEW t \in OpenTemps(FieldsOf(d))
    PROVE  /\ t \in DOMAIN h.form.disk /\ h.form.disk[t] = temps[t]
           /\ t \notin OpenTemps(h.form.fields)
<1> DEFINE g == WithDisk(parser[c], temps)
<1>1. g.form.disk = temps /\ g.form.fields = FieldsOf(c)
  BY OpenedIs
<1>2. DiskStep(g.form, h.form)
  OBVIOUS
<1> HIDE DEF g
<1>3. t \in DOMAIN temps /\ t \notin OpenTemps(FieldsOf(c))
  BY DEF RequestsInv
<1> QED BY <1>1, <1>2, <1>3 DEF DiskStep

(* What a request handed on brings among the files. *)
FilesCome(r, files) ==
    /\ DOMAIN library \subseteq DOMAIN files
    /\ \A f \in DOMAIN files :
           \/ f \in DOMAIN library /\ files[f] = library[f]
           \/ /\ f \in Supported
              /\ \E j \in Readable(r) : /\ Parts[r.parts[j].headers].filename = f
                                        /\ files[f] = r.parts[j].content

(* A handler that leaves its connection reading or replying keeps the
   invariant, if it leaves that connection in order. *)
LEMMA GoesOK ==
    ASSUME RequestsInv, NEW c \in Connections, NEW n, NEW h \in ParserType,
           DiskStep(WithDisk(parser[c], temps).form, h.form),
           NEW next \in { "reading", "replying" }, NEW work,
           Goes(c, n, h, next, work), phase[c] # "absent",
           FilesCome(RequestOf(c), work.files),
           ConnectionOK(next, request[c], read[c] + n, h, work.status, work.added,
                        work.files)
    PROVE  RequestsInv'
<1> DEFINE disk == h.form.disk
           files == work.files
           kept == Kept(h)
<1>1. /\ phase' = [phase EXCEPT ![c] = next] /\ read' = [read EXCEPT ![c] = @ + n]
      /\ parser' = [parser EXCEPT ![c] = kept] /\ temps' = disk
      /\ reply' = [reply EXCEPT ![c] = work.status] /\ library' = files
      /\ added' = [added EXCEPT ![c] = work.added] /\ request' = request /\ alive' = alive
  BY DEF Goes
<1>2. /\ alive \in BOOLEAN /\ phase \in [Connections -> Phases]
      /\ request \in [Connections -> DOMAIN Requests]
      /\ parser \in [Connections -> ParserType] /\ DOMAIN read = Connections
      /\ DOMAIN reply = Connections /\ DOMAIN added = Connections /\ temps \in Disks
  BY DEF RequestsInv
<1>3. kept \in ParserType /\ WithDisk(kept, disk) = h /\ disk \in Disks
  BY KeptIs DEF ParserType, FormType
<1>4. kept.form.fields = h.form.fields
  <2>1. WithDisk(kept, disk).form.fields = kept.form.fields
    <3> HIDE DEF kept, disk
    <3> QED BY <1>3, WithDiskIs
  <2> QED BY <1>3, <2>1
<1>5. \A d \in Connections \ { c } : \A t \in OpenTemps(FieldsOf(d)) :
          t \in DOMAIN disk /\ disk[t] = temps[t] /\ t \notin OpenTemps(h.form.fields)
  BY <1>3, OthersStay
<1>6. /\ DOMAIN disk = DOMAIN temps \union OpenTemps(h.form.fields)
      /\ OpenTemps(FieldsOf(c)) \subseteq OpenTemps(h.form.fields)
  <2>1. WithDisk(parser[c], temps).form.disk = temps
        /\ WithDisk(parser[c], temps).form.fields = FieldsOf(c)
    BY OpenedIs
  <2> QED BY <2>1 DEF DiskStep
<1> HIDE DEF disk, kept, files
<1>7. /\ phase' \in [Connections -> Phases] /\ parser' \in [Connections -> ParserType]
      /\ DOMAIN read' = Connections /\ DOMAIN reply' = Connections
      /\ DOMAIN added' = Connections
      /\ phase'[c] = next /\ read'[c] = read[c] + n /\ parser'[c] = kept
      /\ reply'[c] = work.status /\ added'[c] = work.added
      /\ \A d \in Connections \ { c } :
             /\ phase'[d] = phase[d] /\ read'[d] = read[d] /\ parser'[d] = parser[d]
             /\ reply'[d] = reply[d] /\ added'[d] = added[d]
  BY <1>1, <1>2, <1>3 DEF Phases
<1>8. /\ FieldsOf(c)' = h.form.fields
      /\ \A d \in Connections \ { c } : FieldsOf(d)' = FieldsOf(d)
  BY <1>4, <1>7 DEF FieldsOf
<1>9. DOMAIN temps' = UNION { OpenTemps(FieldsOf(d)') : d \in Connections }
  <2>1. DOMAIN temps = UNION { OpenTemps(FieldsOf(d)) : d \in Connections }
    BY DEF RequestsInv
  <2>2. \A t : (\E d \in Connections : t \in OpenTemps(FieldsOf(d)'))
               <=> t \in DOMAIN temps \/ t \in OpenTemps(h.form.fields)
    BY <1>6, <1>8, <2>1
  <2> QED BY <1>1, <1>6, <2>2
<1>10. \A d, e \in Connections :
           d # e => OpenTemps(FieldsOf(d)') \intersect OpenTemps(FieldsOf(e)') = {}
  <2>1. \A d, e \in Connections :
            d # e => OpenTemps(FieldsOf(d)) \intersect OpenTemps(FieldsOf(e)) = {}
    BY DEF RequestsInv
  <2> QED BY <1>5, <1>8, <2>1
<1>11. ASSUME NEW d \in Connections
       PROVE  ConnectionOK(phase[d], request[d], read[d], WithDisk(parser[d], temps),
                           reply[d], added[d], library)'
  <2>1. WithDisk(parser[d], temps)' = WithDisk(parser'[d], disk)
    BY <1>1 DEF WithDisk
  <2>2. CASE d = c
    BY <1>1, <1>3, <1>7, <2>1, <2>2 DEF files
  <2>3. CASE d # c
    <3>1. ConnectionOK(phase[d], request[d], read[d], WithDisk(parser[d], temps),
                       reply[d], added[d], library)
      BY DEF RequestsInv
    <3>2. \A t \in OpenTemps(parser[d].form.fields) : t \in DOMAIN disk /\ disk[t] = temps[t]
      BY <1>5, <2>3 DEF FieldsOf
    <3>3. DOMAIN library \subseteq DOMAIN files
      BY DEF FilesCome, files
    <3>4. parser[d] \in ParserType /\ request[d] \in DOMAIN Requests
      BY <1>2
    <3>5. ConnectionOK(phase[d], request[d], read[d], WithDisk(parser[d], disk),
                       reply[d], added[d], files)
      BY <1>2, <1>3, <3>1, <3>2, <3>3, <3>4, ConnectionStays
    <3> QED BY <1>1, <1>7, <2>1, <2>3, <3>5
  <2> QED BY <2>2, <2>3
<1>12. ASSUME NEW f \in DOMAIN files
       PROVE  f \in Supported /\ FromClient(f, files[f])'
  <2>1. /\ \A d \in Connections : RequestOf(d)' = RequestOf(d)
        /\ \A d \in Connections : phase[d] # "absent" => phase'[d] # "absent"
        /\ phase'[c] # "absent"
    BY <1>1, <1>7 DEF RequestOf
  <2>2. CASE f \in DOMAIN library /\ files[f] = library[f]
    <3>1. f \in Supported /\ FromClient(f, files[f])
      BY <2>2 DEF RequestsInv
    <3> QED BY <1>1, <2>1, <2>2, <3>1 DEF FromClient
  <2>3. CASE f \in Supported /\ \E j \in Readable(RequestOf(c)) :
                 /\ Parts[RequestOf(c).parts[j].headers].filename = f
                 /\ files[f] = RequestOf(c).parts[j].content
    BY <1>1, <2>1, <2>3 DEF FromClient
  <2> QED BY <2>2, <2>3 DEF FilesCome, files
<1>13. \A f \in DOMAIN library' : f \in Supported /\ FromClient(f, library[f])'
  BY <1>1, <1>12
<1> QED BY <1>1, <1>2, <1>3, <1>7, <1>9, <1>10, <1>11, <1>13 DEF RequestsInv

(* The end of a connection keeps the invariant: it takes its own files with
   it, and no other. *)
LEMMA DestroysOK ==
    ASSUME RequestsInv, NEW c \in Connections, NEW h \in ParserType, FormOK(h.form),
           DiskStep(WithDisk(parser[c], temps).form, h.form),
           Destroys(c, h), alive' \in BOOLEAN, phase[c] # "absent"
    PROVE  RequestsInv'
<1> DEFINE own == OpenTemps(h.form.fields)
           disk == h.form.disk
           left == Restrict(disk, DOMAIN disk \ own)
           fresh == NewRequestParser
<1>1. /\ phase' = [phase EXCEPT ![c] = "closed"] /\ read' = [read EXCEPT ![c] = 0]
      /\ parser' = [parser EXCEPT ![c] = fresh] /\ temps' = left
      /\ reply' = reply /\ library' = library /\ added' = added /\ request' = request
  BY DEF Destroys
<1>2. /\ phase \in [Connections -> Phases]
      /\ request \in [Connections -> DOMAIN Requests]
      /\ parser \in [Connections -> ParserType] /\ DOMAIN read = Connections
      /\ DOMAIN reply = Connections /\ DOMAIN added = Connections /\ temps \in Disks
  BY DEF RequestsInv
<1>3. disk \in Disks
  BY DEF ParserType, FormType
<1>4. /\ left \in Disks /\ DOMAIN left = DOMAIN disk \ own
      /\ \A t \in DOMAIN left : left[t] = disk[t]
  <2> HIDE DEF own, disk
  <2>1. /\ disk \in [DOMAIN disk -> Seq(Symbols)] /\ DOMAIN disk \subseteq Nat \ {0}
        /\ IsFiniteSet(DOMAIN disk)
    BY <1>3, DiskIs
  <2>2. /\ DOMAIN left = DOMAIN disk \ own /\ \A t \in DOMAIN left : left[t] = disk[t]
        /\ left \in [DOMAIN left -> Seq(Symbols)]
    BY <2>1 DEF Restrict
  <2> HIDE DEF left
  <2>3. IsFiniteSet(DOMAIN left) /\ DOMAIN left \subseteq Nat \ {0}
    BY <2>1, <2>2, FS_Subset
  <2> QED BY <2>2, <2>3, DiskIs
<1>5. \A d \in Connections \ { c } : \A t \in OpenTemps(FieldsOf(d)) :
          t \in DOMAIN disk /\ disk[t] = temps[t] /\ t \notin own
  BY <1>3, OthersStay
<1>6. /\ DOMAIN disk = DOMAIN temps \union own /\ OpenTemps(FieldsOf(c)) \subseteq own
  <2>1. WithDisk(parser[c], temps).form.disk = temps
        /\ WithDisk(parser[c], temps).form.fields = FieldsOf(c)
    BY OpenedIs
  <2> QED BY <2>1 DEF DiskStep
<1>7. fresh \in ParserType /\ OpenTemps(fresh.form.fields) = {} /\ Fresh(WithDisk(fresh, left))
  BY <1>4, NewRequestParserIs
<1> HIDE DEF disk, own, left, fresh
<1>8. /\ phase' \in [Connections -> Phases] /\ parser' \in [Connections -> ParserType]
      /\ DOMAIN read' = Connections
      /\ phase'[c] = "closed" /\ read'[c] = 0 /\ parser'[c] = fresh
      /\ \A d \in Connections \ { c } :
             /\ phase'[d] = phase[d] /\ read'[d] = read[d] /\ parser'[d] = parser[d]
  BY <1>1, <1>2, <1>7 DEF Phases
<1>9. /\ OpenTemps(FieldsOf(c)') = {}
      /\ \A d \in Connections \ { c } : FieldsOf(d)' = FieldsOf(d)
  BY <1>7, <1>8 DEF FieldsOf
<1>10. DOMAIN temps' = UNION { OpenTemps(FieldsOf(d)') : d \in Connections }
  <2>1. DOMAIN temps = UNION { OpenTemps(FieldsOf(d)) : d \in Connections }
    BY DEF RequestsInv
  <2>2. \A t : (\E d \in Connections : t \in OpenTemps(FieldsOf(d)'))
               <=> (\E d \in Connections \ { c } : t \in OpenTemps(FieldsOf(d)))
    BY <1>9
  <2>3. \A t : t \in DOMAIN left
               <=> (\E d \in Connections \ { c } : t \in OpenTemps(FieldsOf(d)))
    BY <1>4, <1>5, <1>6, <2>1
  <2> QED BY <1>1, <2>2, <2>3
<1>11. \A d, e \in Connections :
           d # e => OpenTemps(FieldsOf(d)') \intersect OpenTemps(FieldsOf(e)') = {}
  <2>1. \A d, e \in Connections :
            d # e => OpenTemps(FieldsOf(d)) \intersect OpenTemps(FieldsOf(e)) = {}
    BY DEF RequestsInv
  <2> QED BY <1>9, <2>1
<1>12. ASSUME NEW d \in Connections
       PROVE  ConnectionOK(phase[d], request[d], read[d], WithDisk(parser[d], temps),
                           reply[d], added[d], library)'
  <2>1. WithDisk(parser[d], temps)' = WithDisk(parser'[d], left)
    BY <1>1 DEF WithDisk
  <2>2. ConnectionOK(phase[d], request[d], read[d], WithDisk(parser[d], temps),
                     reply[d], added[d], library)
    BY DEF RequestsInv
  <2>3. CASE d = c
    <3>1. /\ reply[c] \in { 0, 200, 400, 401, 403 }
          /\ AddedOK(Requests[request[c]], reply[c], added[c], library)
      BY <2>2, <2>3 DEF ConnectionOK
    <3>2. 0 \in 0..Len(Sent[request[c]])
      BY <1>2, SentIs, LenProperties
    <3>3. ConnectionOK("closed", request[c], 0, WithDisk(fresh, left), reply[c],
                       added[c], library)
      BY <1>7, <3>1, <3>2 DEF ConnectionOK
    <3> QED BY <1>1, <1>8, <2>1, <2>3, <3>3
  <2>4. CASE d # c
    <3>1. \A t \in OpenTemps(parser[d].form.fields) : t \in DOMAIN left /\ left[t] = temps[t]
      BY <1>4, <1>5, <2>4 DEF FieldsOf
    <3>2. parser[d] \in ParserType /\ request[d] \in DOMAIN Requests
      BY <1>2
    <3>3. ConnectionOK(phase[d], request[d], read[d], WithDisk(parser[d], left),
                       reply[d], added[d], library)
      BY <1>2, <1>4, <2>2, <3>1, <3>2, ConnectionStays
    <3> QED BY <1>1, <1>8, <2>1, <2>4, <3>3
  <2> QED BY <2>3, <2>4
<1>13. \A f \in DOMAIN library' : f \in Supported /\ FromClient(f, library[f])'
  <2>1. /\ \A d \in Connections : RequestOf(d)' = RequestOf(d)
        /\ \A d \in Connections : phase[d] # "absent" => phase'[d] # "absent"
    BY <1>1, <1>8 DEF RequestOf
  <2>2. ASSUME NEW f \in DOMAIN library
        PROVE  f \in Supported /\ FromClient(f, library[f])'
    <3>1. f \in Supported /\ FromClient(f, library[f])
      BY DEF RequestsInv
    <3> QED BY <1>1, <2>1, <3>1 DEF FromClient
  <2> QED BY <1>1, <2>2
<1> QED BY <1>1, <1>2, <1>4, <1>8, <1>10, <1>11, <1>12, <1>13 DEF RequestsInv

(* An exception that ends AIMP changes nothing of this. *)
LEMMA NothingHappens ==
    ASSUME RequestsInv, alive' \in BOOLEAN,
           UNCHANGED << phase, request, read, parser, reply, temps, library, added >>
    PROVE  RequestsInv'
<1>1. /\ phase' = phase /\ request' = request /\ read' = read /\ parser' = parser
      /\ reply' = reply /\ temps' = temps /\ library' = library /\ added' = added
  OBVIOUS
<1>2. /\ \A c : FieldsOf(c)' = FieldsOf(c)
      /\ \A c : RequestOf(c)' = RequestOf(c)
  BY <1>1 DEF FieldsOf, RequestOf
<1>3. \A f \in DOMAIN library : f \in Supported /\ FromClient(f, library[f])'
  <2>1. \A f \in DOMAIN library : f \in Supported /\ FromClient(f, library[f])
    BY DEF RequestsInv
  <2> QED BY <1>1, <1>2, <2>1 DEF FromClient
<1>4. \A c \in Connections :
          ConnectionOK(phase[c], request[c], read[c], WithDisk(parser[c], temps),
                       reply[c], added[c], library)'
  <2>1. \A c \in Connections :
          ConnectionOK(phase[c], request[c], read[c], WithDisk(parser[c], temps),
                       reply[c], added[c], library)
    BY DEF RequestsInv
  <2> QED BY <1>1, <2>1 DEF WithDisk
<1> QED BY <1>1, <1>2, <1>3, <1>4 DEF RequestsInv

(* A handler that read a piece. *)
LEMMA HandleReadOK ==
    ASSUME RequestsInv, NEW c \in Connections, NEW n \in 1..BufferSize, HandleRead(c, n)
    PROVE  RequestsInv'
<1> DEFINE r == Requests[request[c]]
           N == read[c]
           g == WithDisk(parser[c], temps)
           piece == SubSeq(Sent[request[c]], N + 1, N + n)
           h == Parse(r, g, piece)
           M == N + n
<1>1. request[c] \in DOMAIN Requests /\ IsRequest(r) /\ r = RequestOf(c)
  BY RequestIs DEF RequestsInv, RequestOf
<1>2. g = [parser[c] EXCEPT !.form.disk = temps]
  BY SMTT(60) DEF WithDisk
<1>3. /\ alive /\ phase[c] = "reading" /\ M <= Len(Sent[request[c]])
      /\ \/ h.result = "more"  /\ Goes(c, n, h, "reading", Untouched(0))
         \/ h.result = "false" /\ Goes(c, n, h, "replying", Untouched(400))
         \/ /\ h.result = "true"
            /\ \E refused \in Refusals(h.form) :
                   Goes(c, n, h, "replying", HandleRequest(r, h.form, refused))
         \/ AimpEnds
         \/ h.result = "threw" /\ Threw(c, h)
  BY <1>2 DEF HandleRead
<1>4. /\ N \in 0..Len(Sent[request[c]]) /\ ReadAt(r, N, g) /\ FormRead(r, g)
      /\ g \in ParserType
  <2>1. ConnectionOK(phase[c], request[c], N, g, reply[c], added[c], library)
    BY DEF RequestsInv
  <2> HIDE DEF g, N
  <2> QED BY <1>3, <2>1 DEF ConnectionOK, ReadAt
<1>5. /\ Len(Sent[request[c]]) \in Nat /\ N \in Nat /\ n \in Nat \ {0}
      /\ M \in 0..Len(Sent[request[c]])
  <2>1. Len(Sent[request[c]]) \in Nat
    BY <1>1, SentIs, LenProperties
  <2>2. n \in Nat \ {0}
    BY RequestsAssumption
  <2> QED BY <1>3, <1>4, <2>1, <2>2
<1> HIDE DEF g, N
<1>6. Parsed(r, N, M, g, h)
  BY <1>1, <1>3, <1>4, <1>5, ParseOK
<1>7. h.result # "threw" => FormRead(r, h)
  BY <1>1, <1>3, <1>4, <1>5, PieceRead
<1> HIDE DEF h, piece, r
<1>8. /\ ReadAt(r, M, h) \/ Ended(r, M, h)
      /\ DiskStep(g.form, h.form)
      /\ h \in ParserType /\ FormOK(h.form)
  BY <1>6, Zenon DEF Parsed, ReadAt, Ended
<1>9. \A z : /\ Untouched(z).added = << >> /\ Untouched(z).status = z
             /\ Untouched(z).files = library
  BY DEF Untouched
<1>10. FilesCome(r, library)
  BY DEF FilesCome
<1>11. phase[c] # "absent"
  BY <1>3
<1>12. CASE h.result = "more" /\ Goes(c, n, h, "reading", Untouched(0))
  <2>1. ReadAt(r, M, h) /\ FormRead(r, h)
    BY <1>7, <1>8, <1>12 DEF Ended
  <2>2. AddedOK(r, 0, << >>, library)
    BY NothingAdded
  <2>3. ConnectionOK("reading", request[c], M, h, 0, << >>, library)
    BY <1>5, <2>1, <2>2 DEF ConnectionOK, r
  <2> DEFINE w == Untouched(0)
  <2>4. /\ Goes(c, n, h, "reading", w) /\ FilesCome(r, w.files)
        /\ ConnectionOK("reading", request[c], M, h, w.status, w.added, w.files)
    BY <1>9, <1>10, <1>12, <2>3
  <2> HIDE DEF w
  <2> QED BY <1>1, <1>8, <1>11, <2>4, GoesOK DEF g, N
<1>13. CASE h.result = "false" /\ Goes(c, n, h, "replying", Untouched(400))
  <2>1. Ended(r, M, h) /\ FormRead(r, h)
    BY <1>7, <1>8, <1>13 DEF ReadAt
  <2>2. AddedOK(r, 400, << >>, library)
    BY NothingAdded
  <2>3. ConnectionOK("replying", request[c], M, h, 400, << >>, library)
    BY <1>5, <1>13, <2>1, <2>2 DEF ConnectionOK, r
  <2> DEFINE w == Untouched(400)
  <2>4. /\ Goes(c, n, h, "replying", w) /\ FilesCome(r, w.files)
        /\ ConnectionOK("replying", request[c], M, h, w.status, w.added, w.files)
    BY <1>9, <1>10, <1>13, <2>3
  <2> HIDE DEF w
  <2> QED BY <1>1, <1>8, <1>11, <2>4, GoesOK DEF g, N
<1>14. CASE /\ h.result = "true"
            /\ \E refused \in Refusals(h.form) :
                   Goes(c, n, h, "replying", HandleRequest(r, h.form, refused))
  <2>1. PICK refused \in Refusals(h.form) :
                   Goes(c, n, h, "replying", HandleRequest(r, h.form, refused))
    BY <1>14
  <2> DEFINE w == HandleRequest(r, h.form, refused)
  <2>2. Ended(r, M, h) /\ FormRead(r, h)
    BY <1>7, <1>8, <1>14 DEF ReadAt
  <2>3. FormWhole(r, h.form) /\ h.form.fields \in FieldMaps
    BY <1>8, <1>14, <2>2 DEF FormRead, FormWhole, FormOK, FormType
  <2>4. /\ AddedOK(r, w.status, w.added, w.files) /\ w.status \in { 200, 401, 403 }
        /\ FilesFrom(h.form, w.files)
    <3>1. \E k \in DOMAIN Requests : r = Requests[k]
      BY <1>1 DEF r
    <3> QED BY <1>1, <2>3, <3>1, HandleOK
  <2> HIDE DEF w
  <2>5. FilesCome(r, w.files)
    <3>1. \A f \in DOMAIN w.files :
              \/ f \in DOMAIN library /\ w.files[f] = library[f]
              \/ f \in Supported /\
                 \E j \in Readable(r) : /\ Parts[r.parts[j].headers].filename = f
                                        /\ w.files[f] = r.parts[j].content
      BY <1>1, <2>3, <2>4, FileIsSent
    <3> QED BY <2>4, <3>1 DEF FilesCome, FilesFrom
  <2>6. ConnectionOK("replying", request[c], M, h, w.status, w.added, w.files)
    BY <1>5, <1>14, <2>2, <2>4 DEF ConnectionOK, r
  <2>7. Goes(c, n, h, "replying", w)
    BY <2>1 DEF w
  <2> QED BY <1>1, <1>8, <1>11, <2>5, <2>6, <2>7, GoesOK DEF g, N
<1>15. CASE AimpEnds
  <2>1. alive' \in BOOLEAN
    BY <1>15 DEF AimpEnds
  <2>2. /\ phase' = phase /\ request' = request /\ read' = read /\ parser' = parser
        /\ reply' = reply /\ temps' = temps /\ library' = library /\ added' = added
    BY <1>15 DEF AimpEnds
  <2> QED BY <2>1, <2>2, NothingHappens
<1>16. CASE h.result = "threw" /\ Threw(c, h)
  <2>1. CASE Destroys(c, h) /\ UNCHANGED alive
    <3>1. alive' \in BOOLEAN
      BY <2>1 DEF RequestsInv
    <3> QED BY <1>8, <1>11, <2>1, <3>1, DestroysOK DEF g
  <2> QED BY <1>15, <1>16, <2>1 DEF Threw
<1> QED BY <1>3, <1>12, <1>13, <1>14, <1>15, <1>16

(* Every step keeps the invariant. *)
LEMMA NextOK ==
    ASSUME RequestsInv, [RequestsNext]_hvars
    PROVE  RequestsInv'
<1>1. CASE UNCHANGED hvars
  <2>1. alive' \in BOOLEAN
    BY <1>1 DEF hvars, RequestsInv
  <2> QED BY <1>1, <2>1, NothingHappens DEF hvars
<1>2. ASSUME NEW c \in Connections, NEW n \in DOMAIN Requests, Start(c, n)
      PROVE  RequestsInv'
  BY <1>2, StartOK
<1>3. ASSUME NEW c \in Connections, NEW n \in 1..BufferSize, HandleRead(c, n)
      PROVE  RequestsInv'
  BY <1>3, HandleReadOK
<1>4. ASSUME NEW c \in Connections,
             \/ alive /\ phase[c] = "reading"
             \/ alive /\ phase[c] = "replying",
             Destroys(c, [parser[c] EXCEPT !.form.disk = temps]), UNCHANGED alive
      PROVE  RequestsInv'
  <2> DEFINE h == WithDisk(parser[c], temps)
  <2>1. /\ h \in ParserType /\ FormOK(h.form) /\ DiskStep(h.form, h.form)
        /\ phase[c] # "absent" /\ alive' \in BOOLEAN
    BY <1>4, OpenedIs DEF RequestsInv
  <2>2. Destroys(c, h)
    BY <1>4 DEF WithDisk
  <2> QED BY <2>1, <2>2, DestroysOK
<1>5. ASSUME NEW c \in Connections, ReadFails(c)
      PROVE  RequestsInv'
  BY <1>4, <1>5 DEF ReadFails
<1>6. ASSUME NEW c \in Connections, ReplyWritten(c)
      PROVE  RequestsInv'
  BY <1>4, <1>6 DEF ReplyWritten
<1> QED BY <1>1, <1>2, <1>3, <1>5, <1>6 DEF RequestsNext

(* The invariant holds, for any connections, requests, pieces and files. *)
THEOREM RequestsInvariant == RequestsSpec => []RequestsInv
<1>1. RequestsInit => RequestsInv
  BY InitOK
<1>2. RequestsInv /\ [RequestsNext]_hvars => RequestsInv'
  BY NextOK
<1> QED BY <1>1, <1>2, PTL DEF RequestsSpec

(* A connection of a state of the invariant. *)
LEMMA ConnectionIs ==
    ASSUME RequestsInv, NEW c \in Connections,
           NEW h, h = WithDisk(parser[c], temps), NEW r, r = RequestOf(c)
    PROVE  /\ request[c] \in DOMAIN Requests /\ r = Requests[request[c]] /\ IsRequest(r)
           /\ phase[c] \in Phases
           /\ ConnectionOK(phase[c], request[c], read[c], h, reply[c], added[c], library)
           /\ h \in ParserType /\ FormOK(h.form)
           /\ h.form.fields = FieldsOf(c) /\ h.form.disk = temps
           /\ h.content = parser[c].content /\ h.contentLength = parser[c].contentLength
           /\ h.consumed = parser[c].consumed /\ h.result = parser[c].result
           /\ h.form.status = parser[c].form.status
           /\ Len(Sent[request[c]]) \in Nat /\ read[c] \in 0..Len(Sent[request[c]])
           /\ HeadLen(r) \in Nat /\ HeadLen(r) > 0
<1>1. /\ request[c] \in DOMAIN Requests /\ phase[c] \in Phases
      /\ parser[c] \in ParserType /\ temps \in Disks
      /\ ConnectionOK(phase[c], request[c], read[c], h, reply[c], added[c], library)
  BY DEF RequestsInv
<1>2. r = Requests[request[c]] /\ IsRequest(r)
  BY <1>1, RequestIs DEF RequestOf
<1>3. /\ h \in ParserType /\ h.form.fields = FieldsOf(c) /\ h.form.disk = temps
      /\ h.content = parser[c].content /\ h.contentLength = parser[c].contentLength
      /\ h.consumed = parser[c].consumed /\ h.result = parser[c].result
      /\ h.form.status = parser[c].form.status
  BY <1>1, WithDiskIs DEF FieldsOf
<1>4. FormOK(h.form)
  BY <1>1, ConnectionForm
<1>5. Len(Sent[request[c]]) \in Nat
  BY <1>1, SentIs, LenProperties
<1>6. read[c] \in 0..Len(Sent[request[c]])
  BY <1>1 DEF ConnectionOK
<1>7. HeadLen(r) \in Nat /\ HeadLen(r) > 0
  <2>1. r.headers \in Seq(HeaderNames)
    BY <1>2, Zenon DEF IsRequest
  <2>2. Len(r.headers) \in Nat
    BY <2>1, LenProperties
  <2> QED BY <2>2 DEF HeadLen
<1> QED BY <1>1, <1>2, <1>3, <1>4, <1>5, <1>6, <1>7

(* What is read never runs ahead of what is announced. *)
LEMMA ReadTypes ==
    ASSUME NEW r, NEW N \in Nat, HeadLen(r) \in Nat, NEW h, ReadAt(r, N, h)
    PROVE  h.consumed \in 0..N /\ Len(h.content) <= h.contentLength
<1>1. h.consumed \in Nat /\ h.contentLength \in Nat /\ Len(<< >>) = 0
  BY DEF ReadAt, ParserType
<1>2. h.consumed = 0 \/ (N >= HeadLen(r) /\ h.consumed = N - HeadLen(r))
  BY DEF ReadAt
<1>3. h.content = << >> \/ (h.contentLength = r.length /\ Len(h.content) < r.length)
  BY DEF ReadAt
<1>4. h.content \in Seq(Symbols)
  BY DEF ReadAt, ParserType
<1>5. Len(h.content) <= h.contentLength
  <2>1. Len(h.content) \in Nat
    BY <1>4, LenProperties
  <2> QED BY <1>1, <1>3, <2>1
<1> QED BY <1>1, <1>2, <1>5

(* The invariant has the types. *)
LEMMA InvTypes ==
    ASSUME RequestsInv
    PROVE  RequestsTypeOK
<1>1. alive \in BOOLEAN /\ DOMAIN temps \subseteq Nat \ {0} /\ DOMAIN library \subseteq Supported
  BY DiskIs DEF RequestsInv
<1>2. ASSUME NEW c \in Connections
      PROVE  /\ phase[c] \in Phases /\ request[c] \in DOMAIN Requests
             /\ read[c] \in 0..Len(Sent[request[c]])
             /\ reply[c] \in { 0, 200, 400, 401, 403 }
             /\ parser[c].form.status \in Statuses
             /\ parser[c].consumed \in 0..read[c]
             /\ Len(parser[c].content) <= parser[c].contentLength
             /\ phase[c] = "reading" => reply[c] = 0 /\ parser[c].result = "more"
             /\ phase[c] = "replying" => reply[c] # 0
  <2> DEFINE h == WithDisk(parser[c], temps)
             r == RequestOf(c)
             N == read[c]
  <2>1. /\ request[c] \in DOMAIN Requests /\ r = Requests[request[c]]
        /\ phase[c] \in Phases
        /\ ConnectionOK(phase[c], request[c], N, h, reply[c], added[c], library)
        /\ h \in ParserType
        /\ h.content = parser[c].content /\ h.contentLength = parser[c].contentLength
        /\ h.consumed = parser[c].consumed /\ h.result = parser[c].result
        /\ h.form.status = parser[c].form.status
        /\ Len(Sent[request[c]]) \in Nat /\ N \in 0..Len(Sent[request[c]])
        /\ HeadLen(r) \in Nat
    BY ConnectionIs
  <2> HIDE DEF h, r, N
  <2>2. /\ reply[c] \in { 0, 200, 400, 401, 403 }
        /\ phase[c] = "reading" => reply[c] = 0
        /\ phase[c] = "replying" => reply[c] # 0
    BY <2>1 DEF ConnectionOK
  <2>3. phase[c] # "replying" => ReadAt(r, N, h)
    <3>1. CASE phase[c] = "reading"
      BY <2>1, <3>1 DEF ConnectionOK
    <3>2. CASE phase[c] \in { "absent", "closed" }
      BY <2>1, <3>2 DEF ConnectionOK, Fresh
    <3> QED BY <2>1, <3>1, <3>2 DEF Phases
  <2>4. phase[c] = "replying" => Ended(r, N, h)
    BY <2>1 DEF ConnectionOK
  <2>5. h.consumed \in 0..N /\ Len(h.content) <= h.contentLength
    <3>1. CASE ReadAt(r, N, h)
      BY <2>1, <3>1, ReadTypes
    <3>2. CASE Ended(r, N, h)
      <4>1. h.consumed \in Nat
        BY <2>1 DEF ParserType
      <4> QED BY <2>1, <3>2, <4>1 DEF Ended
    <3> QED BY <2>3, <2>4, <3>1, <3>2
  <2>6. phase[c] = "reading" => h.result = "more"
    BY <2>3 DEF ReadAt
  <2>7. h.form.status \in Statuses
    BY <2>1 DEF ParserType, FormType
  <2> QED BY <2>1, <2>2, <2>5, <2>6, <2>7 DEF N
<1> QED BY <1>1, <1>2 DEF RequestsTypeOK

(* The phases, the parser's states and counts and the replies, of every
   connection. *)
THEOREM RequestsTypeCorrect == RequestsSpec => []RequestsTypeOK
<1>1. RequestsInv => RequestsTypeOK
  BY InvTypes
<1> QED BY <1>1, RequestsInvariant, PTL

(* No temporary file outlasts the connection whose form it is a part of. *)
THEOREM TempFilesGoneHolds == RequestsSpec => []TempFilesGone
<1>1. RequestsInv => TempFilesGone
  BY DEF RequestsInv, TempFilesGone
<1> QED BY <1>1, RequestsInvariant, PTL

(* How long an exact request is. *)
LEMMA ExactIs ==
    ASSUME NEW n \in DOMAIN Requests, NEW r, r = Requests[n], IsExact(r)
    PROVE  /\ HeadLen(r) \in Nat /\ Len(Sent[n]) \in Nat /\ Len(Sent[n]) >= HeadLen(r)
           /\ ~Announces(r) => Len(Sent[n]) = HeadLen(r)
           /\ Announces(r) /\ r.length # BadLength =>
                  r.length \in Nat /\ Len(Sent[n]) = HeadLen(r) + r.length
<1> DEFINE D == Len(Body(r))
           L == Len(r.content)
           H == HeadLen(r)
           S == Len(Sent[n])
<1>1. /\ H \in Nat /\ D \in Nat /\ L \in Nat /\ S = H + D /\ D = L
  BY Lengths DEF IsExact
<1>2. /\ Announces(r) /\ r.length # BadLength => r.length = L
      /\ ~Announces(r) => L = 0
  <2>1. Len(<< >>) = 0
    OBVIOUS
  <2> QED BY <2>1, RequestIs, Zenon DEF IsRequest
<1> HIDE DEF D, L, H, S
<1>3. /\ H \in Nat /\ S \in Nat /\ S >= H
      /\ ~Announces(r) => S = H
      /\ Announces(r) /\ r.length # BadLength => r.length \in Nat /\ S = H + r.length
  BY <1>1, <1>2
<1> QED BY <1>3 DEF H, S

(* The invariant decides a request in one way. *)
LEMMA InvDecided ==
    ASSUME RequestsInv
    PROVE  DecidedHoweverCut
<1> SUFFICES ASSUME NEW c \in Connections, IsExact(RequestOf(c)), HasEnd(RequestOf(c))
             PROVE  /\ phase[c] = "replying" =>
                           /\ parser[c].result = Expected(RequestOf(c))
                           /\ parser[c].result = "true" => read[c] = Len(Sent[request[c]])
                    /\ phase[c] = "reading" => read[c] # Len(Sent[request[c]])
  BY DEF DecidedHoweverCut
<1> DEFINE h == WithDisk(parser[c], temps)
           r == RequestOf(c)
           N == read[c]
           S == Len(Sent[request[c]])
           H == HeadLen(r)
<1>1. /\ request[c] \in DOMAIN Requests /\ r = Requests[request[c]] /\ IsRequest(r)
      /\ ConnectionOK(phase[c], request[c], N, h, reply[c], added[c], library)
      /\ h.result = parser[c].result /\ h \in ParserType
      /\ N \in 0..S /\ H > 0
  BY ConnectionIs
<1>2. /\ H \in Nat /\ S \in Nat /\ S >= H
      /\ ~Announces(r) => S = H
      /\ Announces(r) /\ r.length # BadLength => r.length \in Nat /\ S = H + r.length
  BY <1>1, ExactIs
<1>3. r.type \in { "other", "form", "form without boundary" }
  BY <1>1, Zenon DEF IsRequest
<1> HIDE DEF h, r, N, S, H
<1>4. ASSUME phase[c] = "reading", N = S
      PROVE  FALSE
  <2>1. ReadAt(r, N, h)
    BY <1>1, <1>4 DEF ConnectionOK, r, RequestOf
  <2>2. N # 0 /\ N >= H /\ ~(N < HeadLen(r))
    BY <1>1, <1>2, <1>4 DEF H
  <2>3. /\ r.line = "line" /\ Announces(r) /\ r.length # BadLength
        /\ h.contentLength = r.length
        /\ \/ N = H
           \/ Len(h.content) = N - H /\ Len(h.content) < r.length
           \/ h.consumed = N - H /\ h.consumed # r.length
    <3>1. N = HeadLen(r) <=> N = H
      BY DEF H
    <3>2. N - HeadLen(r) = N - H
      BY DEF H
    <3> QED BY <2>1, <2>2, <3>1, <3>2 DEF ReadAt
  <2>4. N = H + r.length /\ r.length \in Nat
    BY <1>2, <1>4, <2>3
  <2>5. h.consumed \in Nat
    BY <1>1 DEF ParserType
  <2>6. r.length = 0
    BY <1>2, <2>3, <2>4, <2>5
  <2> QED BY <2>3, <2>6 DEF HasEnd, r
<1>5. ASSUME phase[c] = "replying"
      PROVE  h.result = Expected(r) /\ (h.result = "true" => N = S)
  <2>1. Ended(r, N, h) /\ FormRead(r, h) /\ h.result \in { "true", "false" }
    BY <1>1, <1>5 DEF ConnectionOK, r, RequestOf
  <2>2. CASE h.result = "false"
    <3>1. \/ r.line # "line"
          \/ Announces(r) /\ r.length = BadLength
          \/ Announces(r) /\ r.length # BadLength /\ N > H + r.length
      BY <2>1, <2>2 DEF Ended, H
    <3>2. ~(Announces(r) /\ r.length # BadLength /\ N > H + r.length)
      BY <1>1, <1>2
    <3> QED BY <2>2, <3>1, <3>2 DEF Expected
  <2>3. CASE h.result = "true"
    <3>1. /\ r.line = "line" /\ N >= H
          /\ \/ ~Announces(r)
             \/ /\ Announces(r) /\ r.length # BadLength /\ r.length > 0
                /\ \/ r.type = "other" /\ N >= H + r.length
                   \/ r.type = "form" /\ N = H + r.length
      BY <2>1, <2>3 DEF Ended, H
    <3>2. N = S
      BY <1>1, <1>2, <3>1
    <3>3. CASE ~Announces(r)
      BY <2>3, <3>1, <3>2, <3>3 DEF Expected
    <3>4. CASE /\ Announces(r) /\ r.length # BadLength /\ r.length > 0
               /\ r.type = "other"
      BY <1>2, <2>3, <3>1, <3>2, <3>4 DEF Expected, IsForm
    <3>5. CASE /\ Announces(r) /\ r.length # BadLength /\ r.length > 0
               /\ r.type = "form"
      <4>1. FormWhole(r, h.form)
        BY <2>1, <2>3, <3>5 DEF FormRead, FormWhole
      <4>2. Readable(r) = DOMAIN r.parts
        BY <1>1, <4>1, WholeFields
      <4> QED BY <1>2, <2>3, <3>1, <3>2, <3>5, <4>2 DEF Expected
    <3> QED BY <3>1, <3>3, <3>4, <3>5
  <2> QED BY <2>1, <2>2, <2>3
<1> QED BY <1>1, <1>4, <1>5 DEF r, N, S

(* However the network cuts a request that has an end into pieces, it is decided
   in the same way, and when it is accepted, not before its last symbol. *)
THEOREM DecidedHoweverCutHolds == RequestsSpec => []DecidedHoweverCut
<1>1. RequestsInv => DecidedHoweverCut
  BY InvDecided
<1> QED BY <1>1, RequestsInvariant, PTL

(* The invariant has the files whole. *)
LEMMA InvFiles ==
    ASSUME RequestsInv
    PROVE  FilesComeWhole
<1>1. ASSUME NEW c \in Connections, NEW d \in Connections,
             NEW k \in DOMAIN FieldsOf(c), NEW l \in DOMAIN FieldsOf(d),
             FieldsOf(c)[k].temp # 0, FieldsOf(c)[k].temp = FieldsOf(d)[l].temp
      PROVE  c = d /\ k = l
  <2>1. FieldsOf(c)[k].temp \in OpenTemps(FieldsOf(c)) \intersect OpenTemps(FieldsOf(d))
    BY <1>1, OpenTempsIs
  <2>2. c = d
    BY <2>1 DEF RequestsInv
  <2>3. OwnsItsFiles(WithDisk(parser[c], temps).form)
        /\ WithDisk(parser[c], temps).form.fields = FieldsOf(c)
    BY ConnectionIs DEF FormOK
  <2> QED BY <1>1, <2>2, <2>3 DEF OwnsItsFiles
<1>2. ASSUME NEW c \in Connections, NEW i \in Readable(RequestOf(c))
      PROVE  LET r   == RequestOf(c)
                 key == KeyOf(r.parts, i)
                 whole == phase[c] = "replying" /\ parser[c].result = "true"
             IN  /\ key \in DOMAIN FieldsOf(c) /\ IsFile(r, i) =>
                        /\ FieldsOf(c)[key].filename = Parts[r.parts[i].headers].filename
                        /\ IsPrefix(Stored(c, key), r.parts[i].content)
                 /\ whole /\ IsForm(r) /\ IsExact(r) /\ IsFile(r, i) =>
                        /\ key \in DOMAIN FieldsOf(c)
                        /\ Stored(c, key) = r.parts[i].content
  <2> DEFINE h == WithDisk(parser[c], temps)
             r == RequestOf(c)
             N == read[c]
             key == KeyOf(r.parts, i)
  <2>1. /\ request[c] \in DOMAIN Requests /\ r = Requests[request[c]] /\ IsRequest(r)
        /\ phase[c] \in Phases
        /\ ConnectionOK(phase[c], request[c], N, h, reply[c], added[c], library)
        /\ h.form.fields = FieldsOf(c) /\ h.form.disk = temps
        /\ h.result = parser[c].result
    BY ConnectionIs
  <2>2. Stored(c, key) = StoredIn(h.form, key)
    BY <2>1 DEF Stored, StoredIn
  <2> HIDE DEF h, N
  <2>3. FormRead(r, h)
    <3>1. CASE phase[c] \in { "absent", "closed" }
      BY <2>1, <3>1 DEF ConnectionOK, Fresh
    <3>2. CASE phase[c] \in { "reading", "replying" }
      BY <2>1, <3>2 DEF ConnectionOK
    <3> QED BY <2>1, <3>1, <3>2 DEF Phases
  <2>4. i \in 1..Len(r.parts)
    <3>1. r.parts \in Seq([ headers : Symbols, content : Seq(Symbols) ])
      BY <2>1, Zenon DEF IsRequest
    <3>2. DOMAIN r.parts = 1..Len(r.parts)
      BY <3>1, LenProperties
    <3> QED BY <3>2 DEF Readable
  <2>5. ASSUME key \in DOMAIN FieldsOf(c), IsFile(r, i)
        PROVE  /\ FieldsOf(c)[key].filename = Parts[r.parts[i].headers].filename
               /\ IsPrefix(Stored(c, key), r.parts[i].content)
    <3>1. CASE SentForm(r)
      <4>1. PICK n \in Nat : \E k, m : FormAt(r, n, h.form, k, m)
        BY <2>3, <3>1 DEF FormRead
      <4>2. PICK k, m : FormAt(r, n, h.form, k, m)
        BY <4>1
      <4> HIDE DEF r
      <4>3. /\ h.form.fields[key].filename = Parts[r.parts[i].headers].filename
            /\ h.form.fields[key].filename # NoFilename =>
                   IsPrefix(StoredIn(h.form, key), r.parts[i].content)
        BY <2>1, <2>5, <3>1, <4>2, PrefixHeld DEF r
      <4> QED BY <2>1, <2>2, <2>5, <4>3 DEF IsFile
    <3>2. CASE ~SentForm(r)
      <4>1. DOMAIN FieldsOf(c) = {}
        BY <2>1, <2>3, <3>2, NothingYet DEF FormRead
      <4> QED BY <2>5, <4>1
    <3> QED BY <3>1, <3>2
  <2>6. ASSUME h.result = "true", IsFile(r, i)
        PROVE  key \in DOMAIN FieldsOf(c) /\ Stored(c, key) = r.parts[i].content
    <3>1. FormWhole(r, h.form)
      BY <2>3, <2>6 DEF FormRead, FormWhole
    <3> HIDE DEF r
    <3>2. /\ DOMAIN h.form.fields = { KeyOf(r.parts, j) : j \in Readable(r) }
          /\ h.form.fields[key].filename = Parts[r.parts[i].headers].filename
          /\ HasGot(h.form, key, r.parts[i].content)
      <4>1. i \in Readable(r)
        BY DEF r
      <4>2. /\ DOMAIN h.form.fields = { KeyOf(r.parts, j) : j \in Readable(r) }
            /\ \A j \in Readable(r) :
                   /\ h.form.fields[KeyOf(r.parts, j)].filename
                          = Parts[r.parts[j].headers].filename
                   /\ HasGot(h.form, KeyOf(r.parts, j), r.parts[j].content)
        <5> DEFINE form == h.form
        <5>1. IsRequest(r) /\ FormWhole(r, form)
          BY <2>1, <3>1
        <5> HIDE DEF form, key
        <5>2. /\ DOMAIN form.fields = { KeyOf(r.parts, j) : j \in Readable(r) }
              /\ \A j \in Readable(r) :
                     /\ form.fields[KeyOf(r.parts, j)].filename
                            = Parts[r.parts[j].headers].filename
                     /\ HasGot(form, KeyOf(r.parts, j), r.parts[j].content)
          BY ONLY <5>1, WholeFields
        <5> QED BY <5>2 DEF form
      <4> QED BY <4>1, <4>2
    <3>3. key \in DOMAIN h.form.fields
      BY <3>2 DEF r
    <3> QED BY <2>1, <2>2, <2>6, <3>2, <3>3 DEF HasGot, IsFile
  <2> QED BY <2>1, <2>5, <2>6
<1> QED BY <1>1, <1>2 DEF FilesComeWhole

(* Every file field writes a file of its own, which holds the beginning of the
   file sent, and all of it when the request is handed on. *)
THEOREM FilesComeWholeHolds == RequestsSpec => []FilesComeWhole
<1>1. RequestsInv => FilesComeWhole
  BY InvFiles
<1> QED BY <1>1, RequestsInvariant, PTL

(* The invariant has uploads in order. *)
LEMMA InvUploads ==
    ASSUME RequestsInv
    PROVE  UploadsAddInOrder
<1> SUFFICES ASSUME NEW c \in Connections
             PROVE  LET r    == RequestOf(c)
                        keys == Range(added[c])
                    IN  /\ \A i, j \in DOMAIN added[c] : i < j => Before(added[c][i], added[c][j])
                        /\ keys \subseteq Playable(r)
                        /\ \A k \in Playable(r) \ keys : \A l \in keys : Before(l, k)
                        /\ r.uri = "upload" /\ reply[c] = 200 => keys = Playable(r)
                        /\ reply[c] \in { 0, 400, 401 } => keys = {}
                        /\ \A i \in Readable(r) :
                               LET file == Parts[r.parts[i].headers].filename
                               IN  KeyOf(r.parts, i) \in keys /\ IsFile(r, i) =>
                                       /\ file \in DOMAIN library
                                       /\ \E d \in Connections : \E j \in Readable(RequestOf(d)) :
                                              /\ phase[d] # "absent"
                                              /\ Parts[RequestOf(d).parts[j].headers].filename = file
                                              /\ library[file] = RequestOf(d).parts[j].content
  BY DEF UploadsAddInOrder
<1>1. AddedOK(RequestOf(c), reply[c], added[c], library)
  <2> DEFINE h == WithDisk(parser[c], temps)
  <2>1. ConnectionOK(phase[c], request[c], read[c], h, reply[c], added[c], library)
    BY DEF RequestsInv
  <2> HIDE DEF h
  <2> QED BY <2>1 DEF ConnectionOK, RequestOf
<1>2. \A f \in DOMAIN library : FromClient(f, library[f])
  BY DEF RequestsInv
<1> QED BY <1>1, <1>2 DEF AddedOK, FromClient

(* What an upload adds is the beginning of what its form holds, in order, and
   all of it when it succeeds; the files AIMP plays are whole. *)
THEOREM UploadsAddInOrderHolds == RequestsSpec => []UploadsAddInOrder
<1>1. RequestsInv => UploadsAddInOrder
  BY InvUploads
<1> QED BY <1>1, RequestsInvariant, PTL
=============================================================================
