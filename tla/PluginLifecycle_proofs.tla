----------------------- MODULE PluginLifecycle_proofs -----------------------
(***************************************************************************)
(* Theorems about PluginLifecycle, for any number of ids and any first id, *)
(* wherever initialization fails, whether AIMP finalizes a plugin that     *)
(* failed or only deletes it, and with every failure the model has.        *)
(***************************************************************************)
EXTENDS PluginLifecycle, TLAPS

(* What each phase of the plugin object implies for its parts. *)
PhasesTell ==
    /\ phase \in { "constructed", "finalized", "deleted" } => parts = {}
    /\ phase \in { "running", "failed" } => parts = Made(made)
    /\ phase \in { "constructed", "running", "failed" } => ~finalized
    /\ phase = "finalizing" => finalized
    /\ phase = "deleting" => parts = {} \/ ~finalized

(* What AIMP holds, with the manager and without. *)
HooksTell ==
    /\ "manager" \notin parts => hooks \subseteq Orphans
    /\ finalized => "extension" \notin hooks

(* Entries of the registry outlive the method only until the manager goes. *)
EntriesTell ==
    (\E i \in Registry!Ids : listeners[i] # Registry!Nobody) =>
        \/ "subscriptions" \in parts
        \/ phase \in { "finalizing", "deleting" } /\ "manager" \in parts

IInv == TypeOK /\ DestructorsFindTheirParts /\ PhasesTell /\ HooksTell /\ EntriesTell

-----------------------------------------------------------------------------
(* The orders, member by member. *)

LEMMA RegistryConstants ==
    /\ IdCount \in Nat \ {0} /\ Registry!Ids = 0..(IdCount - 1)
    /\ \A i \in Registry!Ids : Registry!After(i) \in Registry!Ids
    /\ Registry!Nobody # Owner
  BY LifecycleAssumption DEF Registry!Ids, Registry!After, Registry!Nobody, Owner

LEMMA FinalizeOrderIs ==
    /\ DOMAIN FinalizeOrder = 1..8
    /\ FinalizeOrder[1] = "server"   /\ FinalizeOrder[2] = "http"
    /\ FinalizeOrder[3] = "download" /\ FinalizeOrder[4] = "upload"
    /\ FinalizeOrder[5] = "rpc"      /\ FinalizeOrder[6] = "subscriptions"
    /\ FinalizeOrder[7] = "manager"  /\ FinalizeOrder[8] = "io_service"
  BY DEF FinalizeOrder

LEMMA MemberOrderIs ==
    /\ DOMAIN MemberOrder = 1..8
    /\ MemberOrder[1] = "server"        /\ MemberOrder[2] = "io_service"
    /\ MemberOrder[3] = "http"          /\ MemberOrder[4] = "upload"
    /\ MemberOrder[5] = "download"      /\ MemberOrder[6] = "rpc"
    /\ MemberOrder[7] = "subscriptions" /\ MemberOrder[8] = "manager"
  BY DEF MemberOrder

LEMMA BuildOrderIs ==
    /\ Len(BuildOrder) = 8
    /\ BuildOrder[1] = "io_service" /\ BuildOrder[2] = "manager"
    /\ BuildOrder[3] = "rpc"        /\ BuildOrder[4] = "subscriptions"
    /\ BuildOrder[5] = "download"   /\ BuildOrder[6] = "upload"
    /\ BuildOrder[7] = "http"       /\ BuildOrder[8] = "server"
  BY DEF BuildOrder

(* Finalize resets the users of a part before the part. *)
LEMMA UsersGoFirst ==
    ASSUME NEW i \in DOMAIN FinalizeOrder, NEW q \in Parts,
           FinalizeOrder[i] \in Uses(q)
    PROVE  \E j \in 1..(i - 1) : FinalizeOrder[j] = q
<1> USE FinalizeOrderIs
<1>1. i \in 1..8
  OBVIOUS
<1>2. CASE i \in {1, 3, 4, 5, 6}
  BY <1>2 DEF Uses, Parts
<1>3. CASE i = 2
  <2>1. q = "server" /\ 1 \in 1..(i - 1)
    BY <1>3 DEF Uses, Parts
  <2>2. QED
    BY <2>1
<1>4. CASE i = 7
  <2>1. q = "subscriptions" /\ 6 \in 1..(i - 1)
    BY <1>4 DEF Uses, Parts
  <2>2. QED
    BY <2>1
<1>5. CASE i = 8
  <2>1. q \in { "server", "rpc", "manager" }
    BY <1>5 DEF Uses, Parts
  <2>2. 1 \in 1..(i - 1) /\ 5 \in 1..(i - 1) /\ 7 \in 1..(i - 1)
    BY <1>5
  <2>3. QED
    BY <2>1, <2>2
<1>6. QED
  BY <1>1, <1>2, <1>3, <1>4, <1>5

(* So does the plugin's destructor, but for the io_service. *)
LEMMA UsersGoFirstOnDelete ==
    ASSUME NEW i \in DOMAIN MemberOrder, NEW q \in Parts,
           MemberOrder[i] \in Uses(q), MemberOrder[i] # "io_service"
    PROVE  \E j \in 1..(i - 1) : MemberOrder[j] = q
<1> USE MemberOrderIs
<1>1. i \in 1..8
  OBVIOUS
<1>2. CASE i \in {1, 2, 4, 5, 6, 7}
  BY <1>2 DEF Uses, Parts
<1>3. CASE i = 3
  <2>1. q = "server" /\ 1 \in 1..(i - 1)
    BY <1>3 DEF Uses, Parts
  <2>2. QED
    BY <2>1
<1>4. CASE i = 8
  <2>1. q = "subscriptions" /\ 7 \in 1..(i - 1)
    BY <1>4 DEF Uses, Parts
  <2>2. QED
    BY <2>1
<1>5. QED
  BY <1>1, <1>2, <1>3, <1>4

(* Both reset every part. *)
LEMMA AllAreReset ==
    /\ Parts \subseteq { FinalizeOrder[i] : i \in DOMAIN FinalizeOrder }
    /\ Parts \subseteq { MemberOrder[i] : i \in DOMAIN MemberOrder }
<1>1. \A p \in Parts : \E i \in DOMAIN FinalizeOrder : FinalizeOrder[i] = p
  BY FinalizeOrderIs DEF Parts
<1>2. \A p \in Parts : \E i \in DOMAIN MemberOrder : MemberOrder[i] = p
  BY MemberOrderIs DEF Parts
<1>3. QED
  BY <1>1, <1>2

(* initialize() makes what a part uses before the part. *)
LEMMA MadeFindTheirParts ==
    ASSUME NEW n \in 0..8, NEW p \in Made(n)
    PROVE  p \in Parts /\ Uses(p) \subseteq Made(n)
<1>1. PICK i \in 1..n : p = BuildOrder[i]
  BY DEF Made
<1>2. i \in 1..8
  BY <1>1
<1>3. p \in Parts
  BY <1>1, <1>2, BuildOrderIs DEF Parts
<1>4. \A j \in 1..i : BuildOrder[j] \in Made(n)
  BY DEF Made
<1>5. CASE p \in { "manager", "rpc" }
  <2>1. 1 \in 1..i /\ Uses(p) = { BuildOrder[1] }
    BY <1>5, <1>1, <1>2, BuildOrderIs DEF Uses
  <2>2. QED
    BY <2>1, <1>3, <1>4
<1>6. CASE p = "subscriptions"
  <2>1. 2 \in 1..i /\ Uses(p) = { BuildOrder[2] }
    BY <1>6, <1>1, <1>2, BuildOrderIs DEF Uses
  <2>2. QED
    BY <2>1, <1>3, <1>4
<1>7. CASE p = "server"
  <2>1. 1 \in 1..i /\ 7 \in 1..i /\ Uses(p) = { BuildOrder[1], BuildOrder[7] }
    BY <1>7, <1>1, <1>2, BuildOrderIs DEF Uses
  <2>2. QED
    BY <2>1, <1>3, <1>4
<1>8. CASE p \notin { "manager", "rpc", "subscriptions", "server" }
  BY <1>8, <1>3 DEF Uses
<1>9. QED
  BY <1>5, <1>6, <1>7, <1>8

-----------------------------------------------------------------------------
LEMMA InitHolds == ASSUME Init PROVE IInv
<1> USE RegistryConstants
<1>1. Registry!Init
  BY DEF Init
<1>2. Registry!TypeOK
  BY <1>1, LifecycleAssumption DEF Init, Registry!Init, Registry!TypeOK, Owner
<1>3. TypeOK
  <2>1. made \in 0..Len(BuildOrder)
    BY BuildOrderIs, SMT DEF Init
  <2>2. QED
    BY <1>2, <2>1 DEF Init, TypeOK, Phases
<1>4. DestructorsFindTheirParts /\ PhasesTell /\ HooksTell
  BY DEF Init, DestructorsFindTheirParts, PhasesTell, HooksTell
<1>5. EntriesTell
  BY <1>1 DEF EntriesTell, Registry!Init
<1>6. QED
  BY <1>3, <1>4, <1>5 DEF IInv

(* What the registry's operations do to its type. *)
LEMMA RegisterTypes ==
    ASSUME Registry!TypeOK, Registry!Register(Owner)
    PROVE  /\ listeners' \in [Registry!Ids -> {Owner, Registry!Nobody}]
           /\ next' \in Registry!Ids
           /\ held' \in [{Owner} -> Registry!Ids]
  BY RegistryConstants DEF Registry!TypeOK, Registry!Register

LEMMA UnregisterTypes ==
    ASSUME Registry!TypeOK, Registry!Unregister(Owner)
    PROVE  /\ listeners' \in [Registry!Ids -> {Owner, Registry!Nobody}]
           /\ next' \in Registry!Ids
           /\ held' \in [{Owner} -> Registry!Ids]
  BY RegistryConstants DEF Registry!TypeOK, Registry!Unregister

LEMMA InitializeKeeps ==
    ASSUME IInv, Initialize
    PROVE  IInv'
<1> USE DEF IInv
<1>1. PICK n \in 0..Len(BuildOrder) :
          /\ made' = n
          /\ parts' = Made(n)
          /\ phase' = IF n = Len(BuildOrder) THEN "running" ELSE "failed"
          /\ timerOn' \in IF n = Len(BuildOrder) THEN BOOLEAN ELSE {FALSE}
          /\ serving' = (n > 0)
          /\ hooks' \in MayHold(n)
  BY DEF Initialize
<1>2. n \in 0..8
  BY <1>1, BuildOrderIs
<1>3. /\ phase = "constructed" /\ parts = {} /\ ~finalized
      /\ UNCHANGED << finalized, posted >>
  BY DEF Initialize, PhasesTell
<1>4. \A p \in parts' : p \in Parts /\ Uses(p) \subseteq parts'
  BY <1>1, <1>2, MadeFindTheirParts
<1>5. phase' \in { "running", "failed" } /\ timerOn' \in BOOLEAN /\ serving' \in BOOLEAN
  <2>1. phase' \in { "running", "failed" } /\ timerOn' \in BOOLEAN
    BY <1>1
  <2>2. serving' \in BOOLEAN
    BY <1>1
  <2>3. QED
    BY <2>1, <2>2
<1>6. /\ hooks' \subseteq Hooks
      /\ "manager" \notin parts' => hooks' \subseteq Orphans'
  <2>1. CASE "manager" \in Made(n)
    BY <2>1, <1>1 DEF MayHold
  <2>2. CASE "manager" \notin Made(n) /\ n = 1
    <3>1. hooks' \in { {}, { "extension" }, { "extension", "hook" } }
      BY <2>2, <1>1 DEF MayHold
    <3>2. Orphans' = { "extension", "hook" }
      BY <2>2, <1>1, <1>3 DEF Orphans
    <3>3. QED
      BY <3>1, <3>2 DEF Hooks
  <2>3. CASE "manager" \notin Made(n) /\ n # 1
    BY <2>3, <1>1 DEF MayHold
  <2>4. QED
    BY <2>1, <2>2, <2>3
<1>7. DestructorsFindTheirParts' /\ PhasesTell' /\ HooksTell'
  BY <1>1, <1>3, <1>4, <1>5, <1>6 DEF DestructorsFindTheirParts, PhasesTell, HooksTell
<1>8. Registry!TypeOK' /\ EntriesTell'
  <2>1. CASE "subscriptions" \in parts'
    <3>1. Registry!Register(Owner)
      BY <2>1 DEF Initialize
    <3>2. Registry!TypeOK'
      BY <2>1, <3>1, RegisterTypes, RegistryConstants DEF TypeOK, Registry!TypeOK
    <3>3. QED
      BY <2>1, <3>2 DEF EntriesTell
  <2>2. CASE "subscriptions" \notin parts'
    <3>1. UNCHANGED registry /\ "subscriptions" \notin parts
      BY <2>2, <1>3 DEF Initialize
    <3>2. Registry!TypeOK'
      BY <2>2, <3>1 DEF TypeOK, Registry!TypeOK, registry
    <3>3. EntriesTell'
      BY <1>3, <3>1 DEF EntriesTell, registry
    <3>4. QED
      BY <3>2, <3>3
  <2>3. QED
    BY <2>1, <2>2
<1>9. TypeOK'
  BY <1>1, <1>3, <1>4, <1>5, <1>6, <1>8 DEF TypeOK, Phases
<1>10. QED
  BY <1>7, <1>8, <1>9

(* A part that goes is used by no part that stays. *)
LEMMA DestroyFindsUsersGone ==
    ASSUME IInv, NEW i \in DOMAIN Order, IsNext(i),
           parts' = parts \ {Order[i]}, UNCHANGED << phase, history >>
    PROVE  /\ phase \in { "finalizing", "deleting" }
           /\ DestructorsFindTheirParts'
           /\ Order[i] = "manager" => "subscriptions" \notin parts
<1> USE DEF IInv
<1> DEFINE p == Order[i]
<1>1. p \in parts /\ \A j \in 1..(i - 1) : Order[j] \notin parts
  BY DEF IsNext
<1>2. phase \in { "finalizing", "deleting" }
  BY DEF Order
<1>3. phase = "deleting" => Abandoned
  BY <1>1 DEF PhasesTell, Abandoned
<1>4. ASSUME NEW q \in parts, p \in Uses(q), Abandoned => p # "io_service"
      PROVE  FALSE
  <2>1. q \in Parts
    BY DEF TypeOK
  <2>2. CASE phase = "finalizing"
    <3>1. Order = FinalizeOrder
      BY <2>2 DEF Order
    <3>2. QED
      BY <3>1, <2>1, <1>1, <1>4, UsersGoFirst
  <2>3. CASE phase = "deleting"
    <3>1. Order = MemberOrder
      BY <2>3 DEF Order
    <3>2. QED
      BY <3>1, <2>1, <2>3, <1>1, <1>3, <1>4, UsersGoFirstOnDelete
  <2>4. QED
    BY <2>2, <2>3, <1>2
<1>5. DestructorsFindTheirParts'
  <2> SUFFICES ASSUME NEW q \in parts', NEW u \in Uses(q), u \notin parts',
                      ~(Abandoned /\ u = "io_service")
               PROVE  FALSE
    BY DEF DestructorsFindTheirParts, Abandoned, history
  <2>1. q \in parts /\ u \in parts
    BY DEF DestructorsFindTheirParts
  <2>2. u = p
    BY <2>1
  <2>3. QED
    BY <2>1, <2>2, <1>4
<1>6. p = "manager" => "subscriptions" \notin parts
  BY <1>4 DEF Uses
<1>7. QED
  BY <1>2, <1>5, <1>6

LEMMA DestroyKeeps ==
    ASSUME IInv, DestroyNext
    PROVE  IInv'
<1> USE DEF IInv
<1>1. PICK i \in DOMAIN Order : IsNext(i) /\ Destroy(Order[i])
  BY DEF DestroyNext
<1>2. UNCHANGED << phase, history, timerOn, posted, serving >>
  BY DEF DestroyNext
<1> DEFINE p == Order[i]
<1>3. /\ parts' = parts \ {p}
      /\ hooks' = IF p = "manager" THEN hooks \ { "hook", "playlists" } ELSE hooks
  BY <1>1 DEF Destroy
<1>4. /\ phase \in { "finalizing", "deleting" }
      /\ DestructorsFindTheirParts'
      /\ p = "manager" => "subscriptions" \notin parts
  BY <1>1, <1>2, <1>3, DestroyFindsUsersGone
<1>5. PhasesTell'
  BY <1>2, <1>3, <1>4 DEF PhasesTell, history
<1>6. HooksTell'
  <2>1. CASE p = "manager"
    <3>1. hooks' \subseteq { "extension" }
      BY <2>1, <1>3 DEF TypeOK, Hooks
    <3>2. finalized => "extension" \notin hooks'
      BY <2>1, <1>3 DEF HooksTell
    <3>3. QED
      BY <3>1, <3>2, <1>2 DEF HooksTell, Orphans, history
  <2>2. CASE p # "manager"
    BY <2>2, <1>2, <1>3 DEF HooksTell, Orphans, history
  <2>3. QED
    BY <2>1, <2>2
<1>7. Registry!TypeOK' /\ EntriesTell'
  <2>1. CASE p = "subscriptions"
    <3>1. Registry!Unregister(Owner)
      BY <1>1, <2>1 DEF Destroy
    <3>2. Registry!TypeOK'
      BY <3>1, <1>3, <2>1, UnregisterTypes, RegistryConstants DEF TypeOK, Registry!TypeOK
    <3>3. "manager" \in parts'
      <4>1. p \in parts
        BY <1>1 DEF IsNext
      <4>2. "manager" \in Uses("subscriptions")
        BY DEF Uses
      <4>3. "manager" \in parts
        BY <2>1, <4>1, <4>2 DEF DestructorsFindTheirParts
      <4>4. QED
        BY <4>3, <1>3, <2>1
    <3>4. QED
      BY <1>2, <1>4, <3>2, <3>3 DEF EntriesTell
  <2>2. CASE p = "manager"
    <3>1. /\ listeners' = [k \in DOMAIN listeners |-> Registry!Nobody]
          /\ UNCHANGED << next, held >>
      BY <1>1, <2>2 DEF Destroy
    <3>2. Registry!TypeOK'
      BY <3>1, <1>3, <1>4, <2>2, RegistryConstants DEF TypeOK, Registry!TypeOK
    <3>3. EntriesTell'
      BY <3>1 DEF EntriesTell, TypeOK, Registry!TypeOK
    <3>4. QED
      BY <3>2, <3>3
  <2>3. CASE p \notin { "subscriptions", "manager" }
    <3>1. UNCHANGED registry
      BY <1>1, <2>3 DEF Destroy
    <3>2. /\ "subscriptions" \in parts' <=> "subscriptions" \in parts
          /\ "manager" \in parts' <=> "manager" \in parts
      BY <1>3, <2>3
    <3>3. Registry!TypeOK'
      BY <3>1, <3>2 DEF TypeOK, Registry!TypeOK, registry
    <3>4. EntriesTell'
      BY <1>2, <3>1, <3>2 DEF EntriesTell, registry
    <3>5. QED
      BY <3>3, <3>4
  <2>4. QED
    BY <2>1, <2>2, <2>3
<1>8. TypeOK'
  BY <1>2, <1>3, <1>4, <1>7 DEF TypeOK, history
<1>9. QED
  BY <1>4, <1>5, <1>6, <1>7, <1>8

(* What is left to destroy in a phase of tearing down is all there is. *)
LEMMA DoomedAreAll ==
    ASSUME TypeOK, phase \in { "finalizing", "deleting" }, Doomed = {}
    PROVE  parts = {}
<1>1. CASE phase = "finalizing"
  <2>1. { FinalizeOrder[i] : i \in DOMAIN FinalizeOrder } \intersect parts = {}
    BY <1>1 DEF Doomed, Order
  <2>2. QED
    BY <2>1, AllAreReset DEF TypeOK
<1>2. CASE phase = "deleting"
  <2>1. { MemberOrder[i] : i \in DOMAIN MemberOrder } \intersect parts = {}
    BY <1>2 DEF Doomed, Order
  <2>2. QED
    BY <2>1, AllAreReset DEF TypeOK
<1>3. QED
  BY <1>1, <1>2

LEMMA NextKeeps ==
    ASSUME IInv, [Next]_vars
    PROVE  IInv'
<1> USE DEF IInv
<1>1. CASE Initialize
  BY <1>1, InitializeKeeps
<1>2. CASE DestroyNext
  BY <1>2, DestroyKeeps
<1>3. ASSUME UNCHANGED << parts, registry >>
      PROVE  Registry!TypeOK'
  BY <1>3 DEF TypeOK, Registry!TypeOK, registry
<1>4. CASE TornDown
  <2>1. parts = {} /\ UNCHANGED << history, parts, hooks, timerOn, posted, serving, registry >>
        /\ phase' \in { "finalized", "deleted" }
    BY <1>4, DoomedAreAll DEF TornDown
  <2>2. ~Abandoned' /\ TypeOK'
    BY <1>3, <2>1 DEF Abandoned, TypeOK, Phases, history
  <2>3. DestructorsFindTheirParts' /\ PhasesTell' /\ HooksTell' /\ EntriesTell'
    BY <2>1 DEF DestructorsFindTheirParts, PhasesTell, HooksTell, Orphans, EntriesTell,
                history, registry
  <2>4. QED
    BY <2>2, <2>3
<1>5. CASE TickIsDue
  BY <1>3, <1>5 DEF TickIsDue, TypeOK, DestructorsFindTheirParts, Abandoned, PhasesTell,
                    HooksTell, Orphans, EntriesTell, history, registry
<1>6. CASE Tick
  <2>1. /\ UNCHANGED << history, parts, hooks, registry >>
        /\ phase \notin { "finalizing", "deleting" } /\ phase' \in { phase, "crashed" }
        /\ posted' \in BOOLEAN /\ serving' \in BOOLEAN /\ timerOn' \in BOOLEAN
    BY <1>6 DEF Tick, StopTickTimer, TypeOK
  <2>2. TypeOK' /\ DestructorsFindTheirParts'
    BY <1>3, <2>1 DEF TypeOK, Phases, DestructorsFindTheirParts, Abandoned, history
  <2>3. PhasesTell' /\ HooksTell' /\ EntriesTell'
    BY <2>1 DEF PhasesTell, HooksTell, Orphans, EntriesTell, history, registry
  <2>4. QED
    BY <2>2, <2>3
<1>7. CASE Finalize
  <2>1. /\ finalized' = TRUE /\ hooks' = hooks \ { "extension" }
        /\ UNCHANGED << made, parts, posted, registry >>
        /\ phase \in { "running", "failed" } /\ phase' \in { "finalizing", "crashed" }
        /\ serving' \in BOOLEAN /\ timerOn' \in BOOLEAN
    BY <1>7 DEF Finalize, StopTickTimer, TypeOK
  <2>2. TypeOK' /\ DestructorsFindTheirParts'
    BY <1>3, <2>1 DEF TypeOK, Phases, DestructorsFindTheirParts, Abandoned
  <2>3. PhasesTell' /\ HooksTell' /\ EntriesTell'
    BY <2>1 DEF PhasesTell, HooksTell, Orphans, EntriesTell, registry
  <2>4. QED
    BY <2>2, <2>3
<1>8. CASE Delete
  <2>1. /\ UNCHANGED << history, parts, hooks, timerOn, posted, serving, registry >>
        /\ phase \in { "constructed", "failed", "finalized" } /\ phase' = "deleting"
    BY <1>8 DEF Delete
  <2>2. TypeOK' /\ DestructorsFindTheirParts'
    BY <1>3, <2>1 DEF TypeOK, Phases, DestructorsFindTheirParts, Abandoned, history
  <2>3. PhasesTell' /\ HooksTell' /\ EntriesTell'
    BY <2>1 DEF PhasesTell, HooksTell, Orphans, EntriesTell, history, registry
  <2>4. QED
    BY <2>2, <2>3
<1>9. CASE UNCHANGED vars
  BY <1>3, <1>9 DEF vars, TypeOK, DestructorsFindTheirParts, Abandoned, PhasesTell,
                    HooksTell, Orphans, EntriesTell, history, registry
<1>10. QED
  BY <1>1, <1>2, <1>4, <1>5, <1>6, <1>7, <1>8, <1>9 DEF Next

THEOREM Inductive == Spec => []IInv
<1>1. Init => IInv
  BY InitHolds
<1>2. IInv /\ [Next]_vars => IInv'
  BY NextKeeps
<1>3. QED
  BY <1>1, <1>2, PTL DEF Spec

(* Types, and a finalized or deleted plugin has no parts left, whatever was
   made. *)
THEOREM TypeCorrect == Spec => []TypeOK
<1>1. IInv => TypeOK
  BY DEF IInv
<1>2. QED
  BY <1>1, Inductive, PTL

(* Wherever initialize() stops, every destructor finds the parts it uses; only
   that of a plugin nobody finalized destroys the io_service too early. *)
THEOREM DestructorsFindTheirPartsHolds == Spec => []DestructorsFindTheirParts
<1>1. IInv => DestructorsFindTheirParts
  BY DEF IInv
<1>2. QED
  BY <1>1, Inductive, PTL

(* Between the plugin's own calls AIMP holds of a manager that is gone what
   Orphans says and nothing else, and no entry of the registry is a destroyed
   method's, although methods unregister with an id that is not theirs. *)
THEOREM NoCallIntoDestroyedHolds == Spec => []NoCallIntoDestroyed
<1>1. IInv => NoCallIntoDestroyed
  <2> SUFFICES ASSUME IInv, AimpMayCall PROVE NoCallIntoDestroyed
    BY DEF NoCallIntoDestroyed
  <2>1. phase \in { "finalizing", "deleting" } => parts = {}
    BY DoomedAreAll DEF IInv, AimpMayCall
  <2>2. "manager" \notin parts => hooks \subseteq Orphans
    BY DEF IInv, HooksTell
  <2>3. Registry!OnlyLiveListeners
    BY <2>1, RegistryConstants
       DEF IInv, EntriesTell, TypeOK, Registry!TypeOK, Registry!OnlyLiveListeners
  <2>4. QED
    BY <2>2, <2>3 DEF NoCallIntoDestroyed
<1>2. QED
  BY <1>1, Inductive, PTL
=============================================================================
