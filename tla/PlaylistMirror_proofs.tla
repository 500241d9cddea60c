------------------------ MODULE PlaylistMirror_proofs ------------------------
(***************************************************************************)
(* Proofs about PlaylistMirror for any playlists and environments.         *)
(***************************************************************************)
EXTENDS PlaylistMirror, TLAPS

(* The outcomes of loading are well typed. *)
Outcomes == [ mirror : Mirrors, stale : SUBSET { "entries", "properties" }, threw : BOOLEAN ]

LEMMA LoadStepsTyped ==
    ASSUME NEW m \in Mirrors
    PROVE  /\ LoadEntries(m) \in Mirrors
           /\ LoadEntriesPartly(m) \in Mirrors
           /\ LoadProperties(m) \in Mirrors
           /\ LoadPropertiesFails(m) \in Mirrors
           /\ UpdateCrc(m) \in Mirrors
           /\ NotifyListeners(m) \in Mirrors
<1>1. Outdated(m) \in Crcs
  BY DEF Outdated, Mirrors, Crcs
<1>2. LoadEntries(m) \in Mirrors
  BY <1>1 DEF LoadEntries, Mirrors, Parts
<1>3. LoadEntriesPartly(m) \in Mirrors
  BY <1>2 DEF LoadEntriesPartly, Mirrors
<1>4. LoadProperties(m) \in Mirrors /\ LoadPropertiesFails(m) \in Mirrors
  BY DEF LoadProperties, LoadPropertiesFails, Mirrors, Parts, Crcs
<1>5. UpdateCrc(m) \in Mirrors
  BY DEF UpdateCrc, Computed, Mirrors, Parts, Crcs
<1>6. NotifyListeners(m) \in Mirrors
  BY DEF NotifyListeners, Mirrors
<1> QED
  BY <1>2, <1>3, <1>4, <1>5, <1>6

LEMMA OutcomeTyped ==
    ASSUME NEW m \in Mirrors, NEW owed \in SUBSET { "entries", "properties" },
           NEW threw \in BOOLEAN
    PROVE  Outcome(m, owed, threw) \in Outcomes
BY DEF Outcome, Outcomes

LEMMA HandleChangeTyped ==
    ASSUME NEW m \in Mirrors, NEW owed \in SUBSET { "entries", "properties" },
           NEW fs, NEW outcome \in HandleChange(m, owed, fs)
    PROVE  outcome \in Outcomes
<1> DEFINE m1 == IF fs \intersect EntryFlags # {} THEN LoadEntries(m) ELSE m
           s1 == IF fs \intersect EntryFlags # {} THEN owed \ { "entries" } ELSE owed
           m2 == LoadProperties(m1)
           s2 == s1 \ { "properties" }
<1>1. m1 \in Mirrors
  BY LoadStepsTyped
<1>2. m2 \in Mirrors /\ LoadPropertiesFails(m1) \in Mirrors
  BY <1>1, LoadStepsTyped
<1>3. /\ UpdateCrc(m2) \in Mirrors /\ NotifyListeners(UpdateCrc(m2)) \in Mirrors
      /\ LoadEntriesPartly(m) \in Mirrors
  BY <1>2, LoadStepsTyped
<1>4. \/ outcome = Outcome(m, owed, FALSE)
      \/ outcome = Outcome(NotifyListeners(UpdateCrc(m2)), s2, FALSE)
      \/ outcome = Outcome(m1, s1, TRUE)
      \/ outcome = Outcome(LoadPropertiesFails(m1), s1, TRUE)
      \/ outcome = Outcome(m2, s2, TRUE)
      \/ outcome = Outcome(UpdateCrc(m2), s2, TRUE)
      \/ outcome = Outcome(LoadEntriesPartly(m), owed, TRUE)
  BY DEF HandleChange, IfLoadMayFail
<1>5. s1 \in SUBSET { "entries", "properties" } /\ s2 \in SUBSET { "entries", "properties" }
  OBVIOUS
<1> HIDE DEF m1, m2, s1, s2
<1> QED
  BY <1>1, <1>2, <1>3, <1>4, <1>5, OutcomeTyped

LEMMA LoadAddedTyped ==
    ASSUME NEW m \in Mirrors, NEW owed \in SUBSET { "entries", "properties" },
           NEW outcome \in LoadAdded(m, owed)
    PROVE  outcome \in Outcomes
<1> DEFINE m1 == LoadProperties(m)
<1>1. m1 \in Mirrors /\ LoadPropertiesFails(m) \in Mirrors
  BY LoadStepsTyped
<1>2. /\ LoadEntries(m1) \in Mirrors /\ NotifyListeners(LoadEntries(m1)) \in Mirrors
      /\ LoadEntriesPartly(m1) \in Mirrors
  BY <1>1, LoadStepsTyped
<1>3. \/ outcome = Outcome(NotifyListeners(LoadEntries(m1)), {}, FALSE)
      \/ outcome = Outcome(m, owed, TRUE)
      \/ outcome = Outcome(LoadEntries(m1), {}, TRUE)
      \/ outcome = Outcome(LoadPropertiesFails(m), owed, TRUE)
      \/ outcome = Outcome(LoadEntriesPartly(m1), owed \ { "properties" }, TRUE)
  BY DEF LoadAdded, IfLoadMayFail
<1> HIDE DEF m1
<1> QED
  BY <1>1, <1>2, <1>3, OutcomeTyped

LEMMA LoadStorageAddedTyped ==
    ASSUME NEW m \in Mirrors, NEW outcome \in LoadStorageAdded(m)
    PROVE  outcome \in Outcomes
<1> DEFINE m1 == LoadProperties(m)
<1>1. m1 \in Mirrors /\ LoadPropertiesFails(m) \in Mirrors
  BY LoadStepsTyped
<1>2. NotifyListeners(m1) \in Mirrors
  BY <1>1, LoadStepsTyped
<1>3. \/ outcome = Outcome(NotifyListeners(m1), { "entries" }, FALSE)
      \/ outcome = Outcome(m, { "entries", "properties" }, TRUE)
      \/ outcome = Outcome(LoadPropertiesFails(m), { "entries", "properties" }, TRUE)
      \/ outcome = Outcome(m1, { "entries" }, TRUE)
  BY DEF LoadStorageAdded, IfLoadMayFail
<1> HIDE DEF m1
<1> QED
  BY <1>1, <1>2, <1>3, OutcomeTyped

LEMMA RemovedTyped == ASSUME NEW m \in Mirrors PROVE Removed(m) \subseteq Mirrors
<1>1. NoMirror \in Mirrors
  BY DEF NoMirror, Mirrors, Crcs, Parts
<1>2. [NoMirror EXCEPT !.told = FALSE] \in Mirrors
  BY <1>1 DEF Mirrors
<1>3. [m EXCEPT !.ofEntries = "unset", !.ofProperties = "unset"] \in Mirrors
  BY DEF Mirrors, Parts
<1> QED
  BY <1>1, <1>2, <1>3 DEF Removed, IfLoadMayFail

-----------------------------------------------------------------------------
(* Types, and flags that are gathered only in a helper, while their handling *)
(* is due: a handler that finds no helper acts on none.                     *)
FlagsInHelper == \A p \in Playlists : p \notin loaded => flags[p] = {}

Inv == TypeOK /\ GatheredFlagsAreScheduled /\ FlagsInHelper

LEMMA InitInv == ASSUME Init PROVE Inv
BY MirrorAssumption
   DEF Init, Inv, TypeOK, GatheredFlagsAreScheduled, FlagsInHelper, NoMirror, Mirrors, Crcs, Parts

LEMMA ChangesAreFlags ==
    ASSUME aimp \in Environments PROVE \A fs \in aimp.changes : fs \subseteq Flags
BY MirrorAssumption

LEMMA PlaylistAddedLoads ==
    ASSUME TypeOK, NEW p \in Playlists, PlaylistAdded(p)
    PROVE  \E owed \in SUBSET { "entries", "properties" } :
              \E outcome \in LoadAdded(mirror[p], owed) : Mirrored(p, outcome)
<1>1. CASE NewHelper(p)
  BY <1>1 DEF NewHelper
<1>2. CASE SameHelper(p)
  BY <1>2 DEF SameHelper, TypeOK
<1> QED
  BY <1>1, <1>2 DEF PlaylistAdded

LEMMA PlaylistAddedInv ==
    ASSUME Inv, NEW p \in Playlists, PlaylistAdded(p) PROVE Inv'
<1>1. PICK owed \in SUBSET { "entries", "properties" } :
         \E outcome \in LoadAdded(mirror[p], owed) : Mirrored(p, outcome)
  BY PlaylistAddedLoads DEF Inv
<1>2. PICK outcome \in LoadAdded(mirror[p], owed) : Mirrored(p, outcome)
  BY <1>1
<1>5. outcome \in Outcomes
  BY LoadAddedTyped DEF Inv, TypeOK
<1>3. TypeOK'
  BY <1>2, <1>5 DEF PlaylistAdded, NewHelper, SameHelper, Mirrored, Outcomes, Inv, TypeOK
<1>4. GatheredFlagsAreScheduled' /\ FlagsInHelper'
  BY DEF PlaylistAdded, NewHelper, SameHelper, Inv, GatheredFlagsAreScheduled, Scheduled,
         FlagsInHelper
<1> QED
  BY <1>3, <1>4 DEF Inv

LEMMA StorageAddedInv ==
    ASSUME Inv, NEW p \in Playlists, StorageAdded(p) PROVE Inv'
<1>1. PICK first \in LoadStorageAdded(mirror[p]) :
         \/ Mirrored(p, first) /\ UNCHANGED << flags, timer >>
         \/ \E fs \in aimp.changes : DuringAdd(p, first, fs)
  BY DEF StorageAdded
<1>2. first \in Outcomes
  BY LoadStorageAddedTyped DEF Inv, TypeOK
<1>3. /\ loaded' = loaded \union {p}
      /\ recent' = [recent EXCEPT ![p] = TRUE]
      /\ UNCHANGED << queued, serving, aimp >>
  BY DEF StorageAdded
<1>4. CASE Mirrored(p, first) /\ UNCHANGED << flags, timer >>
  <2>1. TypeOK'
    BY <1>2, <1>3, <1>4 DEF Mirrored, Outcomes, Inv, TypeOK
  <2>2. GatheredFlagsAreScheduled' /\ FlagsInHelper'
    BY <1>3, <1>4 DEF Inv, GatheredFlagsAreScheduled, Scheduled, FlagsInHelper
  <2> QED
    BY <2>1, <2>2 DEF Inv
<1>5. ASSUME NEW fs \in aimp.changes, DuringAdd(p, first, fs)
      PROVE  Inv'
  <2>1. fs \subseteq Flags /\ Touched(fs) \subseteq { "entries", "properties" }
    BY ChangesAreFlags DEF Inv, TypeOK, Touched
  <2>2. CASE /\ flags' = [flags EXCEPT ![p] = fs]
             /\ timer' = [timer EXCEPT ![p] = "waiting"]
             /\ Mirrored(p, [first EXCEPT !.stale = @ \union Touched(fs)])
    <3>1. [first EXCEPT !.stale = @ \union Touched(fs)] \in Outcomes
      BY <1>2, <2>1 DEF Outcomes
    <3>2. TypeOK'
      BY <1>3, <2>1, <2>2, <3>1 DEF Mirrored, Outcomes, Inv, TypeOK
    <3>3. GatheredFlagsAreScheduled' /\ FlagsInHelper'
      BY <1>3, <2>2 DEF Inv, TypeOK, GatheredFlagsAreScheduled, Scheduled, FlagsInHelper
    <3> QED
      BY <3>2, <3>3 DEF Inv
  <2>3. CASE /\ UNCHANGED << flags, timer >>
             /\ \E outcome \in HandleChange(first.mirror, first.stale \union Touched(fs), fs) :
                   Mirrored(p, outcome)
    <3>1. PICK outcome \in HandleChange(first.mirror, first.stale \union Touched(fs), fs) :
             Mirrored(p, outcome)
      BY <2>3
    <3>2. first.mirror \in Mirrors
          /\ first.stale \union Touched(fs) \in SUBSET { "entries", "properties" }
      BY <1>2, <2>1 DEF Outcomes
    <3>3. outcome \in Outcomes
      BY <3>2, HandleChangeTyped
    <3>4. TypeOK'
      BY <1>3, <2>3, <3>1, <3>3 DEF Mirrored, Outcomes, Inv, TypeOK
    <3>5. GatheredFlagsAreScheduled' /\ FlagsInHelper'
      BY <1>3, <2>3 DEF Inv, GatheredFlagsAreScheduled, Scheduled, FlagsInHelper
    <3> QED
      BY <3>4, <3>5 DEF Inv
  <2> QED
    BY <1>5, <2>2, <2>3 DEF DuringAdd
<1> QED
  BY <1>1, <1>4, <1>5

LEMMA UnloadInv ==
    ASSUME Inv, NEW p \in Playlists, Unload(p) PROVE Inv'
<1>1. PICK m \in Mirrors : mirror' = [mirror EXCEPT ![p] = m]
  BY RemovedTyped DEF Unload, Inv, TypeOK
<1>2. TypeOK'
  BY <1>1 DEF Unload, Inv, TypeOK
<1>3. GatheredFlagsAreScheduled' /\ FlagsInHelper'
  BY DEF Unload, Inv, TypeOK, GatheredFlagsAreScheduled, Scheduled, FlagsInHelper
<1> QED
  BY <1>2, <1>3 DEF Inv

LEMMA ChangeInv ==
    ASSUME Inv, NEW p \in Playlists, NEW fs \in aimp.changes, Change(p, fs)
    PROVE  Inv'
<1>1. fs \subseteq Flags /\ Touched(fs) \subseteq { "entries", "properties" }
  BY ChangesAreFlags DEF Inv, TypeOK, Touched
<1>2. CASE Defer(p, fs)
  <2>1. TypeOK'
    BY <1>1, <1>2 DEF Change, Defer, Inv, TypeOK
  <2>2. GatheredFlagsAreScheduled' /\ FlagsInHelper'
    BY <1>2 DEF Change, Defer, Inv, TypeOK, GatheredFlagsAreScheduled, Scheduled, FlagsInHelper
  <2> QED
    BY <2>1, <2>2 DEF Inv
<1>3. CASE HandleAtOnce(p, fs)
  <2>1. PICK outcome \in HandleChange(mirror[p], stale[p] \union Touched(fs), fs) :
           Mirrored(p, outcome)
    BY <1>3 DEF HandleAtOnce
  <2>2. outcome \in Outcomes
    BY <1>1, HandleChangeTyped DEF Inv, TypeOK
  <2>3. TypeOK'
    BY <1>3, <2>1, <2>2 DEF Change, HandleAtOnce, Mirrored, Outcomes, Inv, TypeOK
  <2>4. GatheredFlagsAreScheduled' /\ FlagsInHelper'
    BY <1>3 DEF Change, HandleAtOnce, Inv, TypeOK, GatheredFlagsAreScheduled, Scheduled, FlagsInHelper
  <2> QED
    BY <2>3, <2>4 DEF Inv
<1> QED
  BY <1>2, <1>3 DEF Change

LEMMA HandlePlaylistUpdateTimerInv ==
    ASSUME Inv, NEW p \in Playlists, HandlePlaylistUpdateTimer(p) PROVE Inv'
<1>1. queued' = [queued EXCEPT ![p] = @ - 1] /\ queued[p] \in 1..MaxQueued
      /\ UNCHANGED << loaded, recent, timer, aimp >>
  BY MirrorAssumption DEF HandlePlaylistUpdateTimer, Inv, TypeOK
<1>2. queued' \in [Playlists -> 0..MaxQueued]
  BY <1>1, MirrorAssumption DEF Inv, TypeOK
<1>3. CASE p \in loaded
  <2>1. flags' = [flags EXCEPT ![p] = {}]
    BY <1>3 DEF HandlePlaylistUpdateTimer
  <2>2. PICK outcome \in HandleChange(mirror[p], stale[p], flags[p]) :
           Mirrored(p, outcome) /\ serving' = ~outcome.threw
    BY <1>3 DEF HandlePlaylistUpdateTimer
  <2>3. outcome \in Outcomes
    BY HandleChangeTyped DEF Inv, TypeOK
  <2>4. TypeOK'
    BY <1>1, <1>2, <2>1, <2>2, <2>3 DEF Mirrored, Outcomes, Inv, TypeOK
  <2>5. GatheredFlagsAreScheduled' /\ FlagsInHelper'
    BY <1>1, <2>1 DEF Inv, TypeOK, GatheredFlagsAreScheduled, Scheduled, FlagsInHelper
  <2> QED
    BY <2>4, <2>5 DEF Inv
<1>4. CASE p \notin loaded
  <2>1. serving' = FALSE /\ UNCHANGED << flags, stale, mirror >>
    BY <1>4 DEF HandlePlaylistUpdateTimer
  <2>2. TypeOK'
    BY <1>1, <1>2, <2>1 DEF Inv, TypeOK
  <2> QED
    BY <1>1, <1>4, <2>1, <2>2 DEF Inv, TypeOK, GatheredFlagsAreScheduled, Scheduled, FlagsInHelper
<1> QED
  BY <1>3, <1>4

LEMMA NextInv == ASSUME Inv, [Next]_vars PROVE Inv'
<1> USE MirrorAssumption
<1>1. CASE UNCHANGED vars
  BY <1>1 DEF vars, Inv, TypeOK, GatheredFlagsAreScheduled, Scheduled, FlagsInHelper
<1>2. ASSUME NEW p \in Playlists, AimpChanges(p)
      PROVE  Inv'
  BY <1>2, ChangeInv DEF AimpChanges, PlaylistChanged, StorageChanged
<1>3. ASSUME NEW p \in Playlists, TimerExpires(p)
      PROVE  Inv'
  BY <1>3 DEF TimerExpires, Inv, TypeOK, GatheredFlagsAreScheduled, Scheduled, FlagsInHelper
<1>4. ASSUME NEW p \in Playlists, SecondIsOver(p)
      PROVE  Inv'
  BY <1>4 DEF SecondIsOver, Inv, TypeOK, GatheredFlagsAreScheduled, Scheduled, FlagsInHelper
<1>5. ASSUME NEW p \in Playlists, QueueHandler(p)
      PROVE  Inv'
  <2>1. queued' \in [Playlists -> 0..MaxQueued] /\ queued'[p] > 0
    BY <1>5 DEF QueueHandler, Inv, TypeOK
  <2> QED
    BY <1>5, <2>1 DEF QueueHandler, Inv, TypeOK, GatheredFlagsAreScheduled, Scheduled, FlagsInHelper
<1> QED
  BY <1>1, <1>2, <1>3, <1>4, <1>5, PlaylistAddedInv, StorageAddedInv, UnloadInv,
     HandlePlaylistUpdateTimerInv DEF Next, PlaylistRemoved, StorageRemoved

(* The variables keep their types. *)
THEOREM TypeCorrect == Spec => []TypeOK
<1>1. Init => Inv
  BY InitInv
<1>2. Inv /\ [Next]_vars => Inv'
  BY NextInv
<1>3. Inv => TypeOK
  BY DEF Inv
<1> QED
  BY <1>1, <1>2, <1>3, PTL DEF Spec

(* Gathered flags never sit in a helper with no wait and no handler that
   will act on them, even when loading fails half way. *)
THEOREM GatheredFlagsAreScheduledHolds == Spec => []GatheredFlagsAreScheduled
<1>1. Init => Inv
  BY InitInv
<1>2. Inv /\ [Next]_vars => Inv'
  BY NextInv
<1>3. Inv => GatheredFlagsAreScheduled
  BY DEF Inv
<1> QED
  BY <1>1, <1>2, <1>3, PTL DEF Spec

-----------------------------------------------------------------------------
(* The checksum and the listeners, when nothing fails.                      *)

(* What the row and the parts of the crc32 object hold is not out of date. *)
Faithful(m) ==
    /\ m \in Mirrors
    /\ m.crc # "outdated" /\ m.ofEntries # "outdated" /\ m.ofProperties # "outdated"

(* Told(m): listeners know of it. *)
Told(m) == Faithful(m) /\ m.told

AllTold == ~aimp.fails => \A p \in Playlists : Told(mirror[p])

(* Replacing the row resets its checksum, so that entries loaded before it
   leave nothing out of date behind. *)
LEMMA ReloadIsFaithful ==
    ASSUME NEW m, Faithful(m)
    PROVE  /\ Told(NotifyListeners(LoadProperties(m)))
           /\ Told(NotifyListeners(UpdateCrc(LoadProperties(m))))
           /\ Told(NotifyListeners(UpdateCrc(LoadProperties(LoadEntries(m)))))
           /\ Told(NotifyListeners(LoadEntries(LoadProperties(m))))
<1> DEFINE props == LoadProperties(m)
           both == LoadProperties(LoadEntries(m))
           added == LoadEntries(LoadProperties(m))
<1>1. m \in Mirrors
  BY DEF Faithful
<1>2. LoadEntries(m) \in Mirrors
  BY <1>1, LoadStepsTyped
<1>3. props \in Mirrors /\ both \in Mirrors
  BY <1>1, <1>2, LoadStepsTyped
<1>4. added \in Mirrors
  BY <1>3, LoadStepsTyped
<1>5. Faithful(props)
  BY <1>1, <1>3 DEF Faithful, LoadProperties, Mirrors
<1>6. Faithful(both)
  BY <1>1, <1>3 DEF Faithful, LoadProperties, LoadEntries, Mirrors
<1>7. Faithful(added)
  BY <1>1, <1>4 DEF Faithful, LoadProperties, LoadEntries, Outdated, Mirrors
<1> HIDE DEF props, both, added
<1>8. \A n : Faithful(n) => Faithful(UpdateCrc(n))
  <2> SUFFICES ASSUME NEW n, Faithful(n) PROVE Faithful(UpdateCrc(n))
    OBVIOUS
  <2>1. n \in Mirrors /\ UpdateCrc(n) \in Mirrors
    BY LoadStepsTyped DEF Faithful
  <2>2. Computed(n.ofEntries) = "current" /\ Computed(n.ofProperties) = "current"
    BY <2>1 DEF Faithful, Computed, Mirrors, Parts
  <2> QED
    BY <2>1, <2>2 DEF Faithful, UpdateCrc, Mirrors
<1>9. \A n : Faithful(n) => Told(NotifyListeners(n))
  <2> SUFFICES ASSUME NEW n, Faithful(n) PROVE Told(NotifyListeners(n))
    OBVIOUS
  <2>1. n \in Mirrors /\ NotifyListeners(n) \in Mirrors
    BY LoadStepsTyped DEF Faithful
  <2> QED
    BY <2>1 DEF Told, Faithful, NotifyListeners, Mirrors
<1> QED
  BY <1>5, <1>6, <1>7, <1>8, <1>9 DEF props, both, added

LEMMA NextTold == ASSUME TypeOK, AllTold, [Next]_vars PROVE AllTold'
<1>1. CASE aimp.fails
  <2>1. aimp' = aimp
    BY DEF Next, vars, PlaylistAdded, StorageAdded, PlaylistRemoved, StorageRemoved, Unload,
           AimpChanges, PlaylistChanged, StorageChanged, Change, TimerExpires, SecondIsOver,
           QueueHandler, HandlePlaylistUpdateTimer
  <2> QED
    BY <1>1, <2>1 DEF AllTold
<1>2. CASE ~aimp.fails
  <2> USE <1>2
  <2>1. CASE UNCHANGED << mirror, aimp >>
    BY <2>1 DEF AllTold
  <2>2. ASSUME NEW p \in Playlists, NEW n, Told(n), mirror' = [mirror EXCEPT ![p] = n]
        PROVE  AllTold'
    BY <2>2 DEF AllTold, TypeOK
  <2>3. \A p \in Playlists : Told(mirror[p]) /\ Faithful(mirror[p])
    BY DEF AllTold, Told
  <2>4. ASSUME NEW m, Told(m), NEW owed, NEW fs, NEW outcome \in HandleChange(m, owed, fs)
        PROVE  Told(outcome.mirror)
    <3>1. \/ outcome.mirror = m
          \/ outcome.mirror = NotifyListeners(UpdateCrc(LoadProperties(m)))
          \/ outcome.mirror = NotifyListeners(UpdateCrc(LoadProperties(LoadEntries(m))))
      BY <2>4 DEF HandleChange, IfLoadMayFail, Outcome
    <3> QED
      BY <2>4, <3>1, ReloadIsFaithful DEF Told
  <2>5. ASSUME NEW p \in Playlists, PlaylistAdded(p)
        PROVE  AllTold'
    <3> DEFINE n == NotifyListeners(LoadEntries(LoadProperties(mirror[p])))
    <3>1. \A owed : LoadAdded(mirror[p], owed) = { Outcome(n, {}, FALSE) }
      BY Zenon DEF LoadAdded, IfLoadMayFail
    <3>2. PICK owed \in SUBSET { "entries", "properties" } :
             \E outcome \in LoadAdded(mirror[p], owed) : Mirrored(p, outcome)
      BY <2>5, PlaylistAddedLoads
    <3>5. PICK outcome \in LoadAdded(mirror[p], owed) : Mirrored(p, outcome)
      BY <3>2
    <3>3. outcome.mirror = n
      BY <3>1, <3>5 DEF Outcome
    <3>4. mirror' = [mirror EXCEPT ![p] = n]
      BY <3>5, <3>3 DEF Mirrored
    <3> QED
      BY <2>2, <2>3, <3>4, ReloadIsFaithful
  <2>6. ASSUME NEW p \in Playlists, StorageAdded(p)
        PROVE  AllTold'
    <3> DEFINE n == NotifyListeners(LoadProperties(mirror[p]))
    <3>1. LoadStorageAdded(mirror[p]) = { Outcome(n, { "entries" }, FALSE) }
      BY Zenon DEF LoadStorageAdded, IfLoadMayFail
    <3>2. PICK first \in LoadStorageAdded(mirror[p]) :
             \/ Mirrored(p, first)
             \/ \E fs \in aimp.changes : DuringAdd(p, first, fs)
      BY <2>6 DEF StorageAdded
    <3>3. first = Outcome(n, { "entries" }, FALSE)
      BY <3>1, <3>2
    <3>4. Told(n)
      BY <2>3, ReloadIsFaithful
    <3>5. CASE Mirrored(p, first)
      BY <2>2, <3>3, <3>4, <3>5 DEF Mirrored, Outcome
    <3>6. ASSUME NEW fs \in aimp.changes, DuringAdd(p, first, fs)
          PROVE  AllTold'
      <4>1. CASE Mirrored(p, [first EXCEPT !.stale = @ \union Touched(fs)])
        BY <2>2, <3>3, <3>4, <4>1 DEF Mirrored, Outcome
      <4>2. CASE \E outcome \in HandleChange(first.mirror, first.stale \union Touched(fs), fs) :
                    Mirrored(p, outcome)
        <5>1. PICK outcome \in HandleChange(first.mirror, first.stale \union Touched(fs), fs) :
                 Mirrored(p, outcome)
          BY <4>2
        <5>2. first.mirror = n
          BY <3>3 DEF Outcome
        <5>3. Told(outcome.mirror)
          BY <2>4, <3>4, <5>1, <5>2
        <5> QED
          BY <2>2, <5>1, <5>3 DEF Mirrored
      <4> QED
        BY <3>6, <4>1, <4>2 DEF DuringAdd
    <3> QED
      BY <3>2, <3>5, <3>6
  <2>7. ASSUME NEW p \in Playlists, Unload(p)
        PROVE  AllTold'
    <3>1. Told(NoMirror)
      BY DEF Told, Faithful, NoMirror, Mirrors, Crcs, Parts
    <3>2. mirror' = [mirror EXCEPT ![p] = NoMirror]
      BY <2>7 DEF Unload, Removed, IfLoadMayFail
    <3> QED
      BY <2>2, <3>1, <3>2
  <2>8. ASSUME NEW p \in Playlists, NEW fs, Change(p, fs)
        PROVE  AllTold'
    <3>1. CASE Defer(p, fs)
      BY <2>1, <2>8, <3>1 DEF Change, Defer
    <3>2. CASE HandleAtOnce(p, fs)
      <4>1. PICK outcome \in HandleChange(mirror[p], stale[p] \union Touched(fs), fs) :
               Mirrored(p, outcome)
        BY <3>2 DEF HandleAtOnce
      <4> QED
        BY <2>2, <2>3, <2>4, <4>1 DEF Mirrored
    <3> QED
      BY <2>8, <3>1, <3>2 DEF Change
  <2>9. ASSUME NEW p \in Playlists, HandlePlaylistUpdateTimer(p)
        PROVE  AllTold'
    <3>1. CASE p \in loaded
      <4>1. PICK outcome \in HandleChange(mirror[p], stale[p], flags[p]) : Mirrored(p, outcome)
        BY <2>9, <3>1 DEF HandlePlaylistUpdateTimer
      <4> QED
        BY <2>2, <2>3, <2>4, <4>1 DEF Mirrored
    <3>2. CASE p \notin loaded
      BY <2>1, <2>9, <3>2 DEF HandlePlaylistUpdateTimer
    <3> QED
      BY <3>1, <3>2
  <2> QED
    BY <2>1, <2>5, <2>6, <2>7, <2>8, <2>9
    DEF Next, vars, AimpChanges, PlaylistChanged, StorageChanged, PlaylistRemoved,
        StorageRemoved, TimerExpires, SecondIsOver, QueueHandler
<1> QED
  BY <1>1, <1>2

LEMMA InitTold == ASSUME Init PROVE AllTold
BY DEF Init, AllTold, Told, Faithful, NoMirror, Mirrors, Crcs, Parts

(* While nothing fails, a checksum other than 0 that a client reads is the
   checksum of what the database holds. *)
THEOREM ChecksumTellsContentHolds == Spec => []ChecksumTellsContent
<1>1. Init => AllTold
  BY InitTold
<1>2. TypeOK /\ AllTold /\ [Next]_vars => AllTold'
  BY NextTold
<1>3. AllTold => ChecksumTellsContent
  BY DEF AllTold, Told, Faithful, ChecksumTellsContent, Mirrors, Crcs
<1>4. Spec => []TypeOK
  BY TypeCorrect
<1> QED
  BY <1>1, <1>2, <1>3, <1>4, PTL DEF Spec

(* While nothing fails, the listeners know of everything in the mirror,
   whichever call or timer changed it. *)
THEOREM ListenersToldOfMirrorHolds == Spec => []ListenersToldOfMirror
<1>1. Init => AllTold
  BY InitTold
<1>2. TypeOK /\ AllTold /\ [Next]_vars => AllTold'
  BY NextTold
<1>3. AllTold => ListenersToldOfMirror
  BY DEF AllTold, Told, ListenersToldOfMirror
<1>4. Spec => []TypeOK
  BY TypeCorrect
<1> QED
  BY <1>1, <1>2, <1>3, <1>4, PTL DEF Spec

-----------------------------------------------------------------------------
LEMMA NextLeavesNothing ==
    ASSUME TypeOK, RemovedLeavesNothing, [Next]_vars PROVE RemovedLeavesNothing'
<1>1. aimp' = aimp
  BY DEF Next, vars, PlaylistAdded, StorageAdded, PlaylistRemoved, StorageRemoved, Unload,
         AimpChanges, PlaylistChanged, StorageChanged, Change, TimerExpires, SecondIsOver,
         QueueHandler, HandlePlaylistUpdateTimer
<1>2. CASE aimp.fails
  BY <1>1, <1>2 DEF RemovedLeavesNothing
<1>3. CASE ~aimp.fails
  <2> USE <1>1, <1>3 DEF TypeOK, RemovedLeavesNothing
  <2>1. CASE UNCHANGED vars
    BY <2>1 DEF vars
  <2>2. ASSUME NEW p \in Playlists, PlaylistAdded(p)
        PROVE  RemovedLeavesNothing'
    BY <2>2 DEF PlaylistAdded, NewHelper, SameHelper, Mirrored
  <2>3. ASSUME NEW p \in Playlists, StorageAdded(p)
        PROVE  RemovedLeavesNothing'
    BY <2>3 DEF StorageAdded, DuringAdd, Mirrored
  <2>4. ASSUME NEW p \in Playlists, Unload(p)
        PROVE  RemovedLeavesNothing'
    <3>1. Removed(mirror[p]) = { NoMirror }
      BY Zenon DEF Removed, IfLoadMayFail
    <3>2. mirror' = [mirror EXCEPT ![p] = NoMirror]
      BY <2>4, <3>1 DEF Unload
    <3> QED
      BY <2>4, <3>2 DEF Unload
  <2>5. ASSUME NEW p \in Playlists, NEW fs, Change(p, fs)
        PROVE  RemovedLeavesNothing'
    BY <2>5 DEF Change, Defer, HandleAtOnce, Mirrored
  <2>6. ASSUME NEW p \in Playlists, TimerExpires(p) \/ SecondIsOver(p) \/ QueueHandler(p)
        PROVE  RemovedLeavesNothing'
    BY <2>6 DEF TimerExpires, SecondIsOver, QueueHandler
  <2>7. ASSUME NEW p \in Playlists, HandlePlaylistUpdateTimer(p)
        PROVE  RemovedLeavesNothing'
    BY <2>7 DEF HandlePlaylistUpdateTimer, Mirrored
  <2> QED
    BY <2>1, <2>2, <2>3, <2>4, <2>5, <2>6, <2>7
    DEF Next, AimpChanges, PlaylistChanged, StorageChanged, PlaylistRemoved, StorageRemoved
<1> QED
  BY <1>2, <1>3

(* While nothing fails, a removed playlist leaves nothing behind and nothing
   brings it back: neither its rows, nor gathered flags, nor a wait. *)
THEOREM RemovedLeavesNothingHolds == Spec => []RemovedLeavesNothing
<1>1. Init => RemovedLeavesNothing
  BY DEF Init, RemovedLeavesNothing
<1>2. TypeOK /\ RemovedLeavesNothing /\ [Next]_vars => RemovedLeavesNothing'
  BY NextLeavesNothing
<1>3. Spec => []TypeOK
  BY TypeCorrect
<1> QED
  BY <1>1, <1>2, <1>3, PTL DEF Spec

=============================================================================
