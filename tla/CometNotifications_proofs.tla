---------------------- MODULE CometNotifications_proofs ----------------------
(***************************************************************************)
(* Proofs about CometNotifications for any set of connections: the book-   *)
(* keeping of subscribers holds whatever throws, and without failures a    *)
(* subscription gets at most one response.                                 *)
(***************************************************************************)
EXTENDS CometNotifications, TLAPS

(* A response is started before it completes. *)
Counted == \A c \in Clients : completed[c] <= started[c]

Bookkeeping == TypeOK /\ Counted /\ HeldForAReason /\ OneDescriptorEach

(* The lists of notifications are sequences of subscribable events. *)
LEMMA ListsOfEvents ==
    \A event \in DOMAIN Notifications : Notifications[event] \in Seq(EventIds)
<1> SUFFICES ASSUME NEW event \in DOMAIN Notifications
             PROVE  Notifications[event] \in Seq(EventIds)
  OBVIOUS
<1>1. event \in { "TRACK_POS_CHANGED", "PLAY_FILE", "PLAYER_STATE", "PLAYLISTS",
                  "PLAYLISTS_ON_RADIO", "PROGRESS_CHANGED", "QUIT_OR_PANEL" }
  BY DEF Notifications
<1>2. Notifications["PLAY_FILE"] \in Seq(EventIds) /\ Notifications["PLAYER_STATE"] \in Seq(EventIds)
  BY DEF Notifications, EventIds
<1>3. Notifications["PLAYLISTS_ON_RADIO"] \in Seq(EventIds)
  BY DEF Notifications, EventIds
<1>4. \A ev \in { "TRACK_POS_CHANGED", "PLAYLISTS", "PROGRESS_CHANGED", "QUIT_OR_PANEL" } :
         Notifications[ev] \in Seq(EventIds)
  BY DEF Notifications, EventIds
<1> QED
  BY <1>1, <1>2, <1>3, <1>4

(* What a raised event does to the subscriptions, completely sent or not:
   those answered were subscribed, no descriptor appears, a queue is erased
   whole or left alone, and nobody loses the descriptor unanswered. *)
Delivered(A) ==
    /\ A \subseteq Clients
    /\ \A c \in A : Subscribed(c) /\ started[c] < MaxResponses
    /\ Answer(A)
    /\ subscribers' \in [EventIds -> Seq(Clients)]
    /\ \A e \in EventIds : subscribers'[e] = << >> \/ subscribers'[e] = subscribers[e]
    /\ \A c \in Clients \ A : Subscribed(c) => Subscribed(c)'

LEMMA NotifyAllDelivers ==
    ASSUME TypeOK, NEW list \in Seq(EventIds), WithinBound(list), NotifyAll(list)
    PROVE  /\ Delivered(Reached(list, Len(list)))
           /\ \A c \in Reached(list, Len(list)) :
                 \A e \in EventIds : c \in Range(subscribers'[e]) =>
                    \E f \in EventIds : f # e /\ c \in Range(subscribers[e])
                                              /\ c \in Range(subscribers[f])
<1> DEFINE A == Reached(list, Len(list))
<1>1. \A i \in 1..Len(list) : list[i] \in EventIds
  OBVIOUS
<1>2. \A e \in EventIds : Range(subscribers[e]) \subseteq Clients
  BY DEF TypeOK, Range
<1>3. A \subseteq Clients
  BY <1>1, <1>2 DEF Reached
<1>4. \A c \in A : Subscribed(c) /\ started[c] < MaxResponses
  BY <1>1 DEF Reached, Subscribed, WithinBound
<1>5. subscribers' \in [EventIds -> Seq(Clients)]
  BY DEF NotifyAll, TypeOK
<1>6. \A e \in EventIds : subscribers'[e] = << >> \/ subscribers'[e] = subscribers[e]
  BY DEF NotifyAll
<1>7. \A e \in Range(list) : Range(subscribers[e]) \subseteq A
  BY DEF Reached, Range
<1>8. ASSUME NEW c \in Clients \ A, Subscribed(c)
      PROVE  Subscribed(c)'
  <2>1. PICK e \in EventIds : c \in Range(subscribers[e])
    BY <1>8 DEF Subscribed
  <2>2. e \notin Range(list)
    BY <1>7, <1>8, <2>1
  <2>3. subscribers'[e] = subscribers[e]
    BY <2>2 DEF NotifyAll
  <2> QED
    BY <2>1, <2>3 DEF Subscribed
<1>9. ASSUME NEW c \in A, NEW e \in EventIds, c \in Range(subscribers'[e])
      PROVE  \E f \in EventIds : f # e /\ c \in Range(subscribers[e])
                                       /\ c \in Range(subscribers[f])
  <2>1. PICK i \in 1..Len(list) : c \in Range(subscribers[list[i]])
    BY DEF Reached
  <2>2. e \notin Range(list) /\ c \in Range(subscribers[e])
    BY <1>9 DEF NotifyAll, Range
  <2>3. list[i] # e
    BY <2>2 DEF Range
  <2> QED
    BY <1>1, <2>1, <2>2, <2>3
<1> QED
  BY <1>3, <1>4, <1>5, <1>6, <1>8, <1>9 DEF Delivered, NotifyAll

LEMMA NotifySomeDelivers ==
    ASSUME TypeOK, NEW list \in Seq(EventIds), WithinBound(list), NotifySome(list)
    PROVE  \E A : Delivered(A)
<1>0. PICK n \in 1..Len(list) :
         \E k \in 0..(Len(subscribers[list[n]]) - 1) :
            /\ Answer(Reached(list, n - 1) \union { subscribers[list[n]][i] : i \in 1..k })
            /\ subscribers' = [e \in EventIds |->
                                  IF \E i \in 1..(n - 1) : list[i] = e
                                  THEN << >> ELSE subscribers[e]]
  BY DEF NotifySome
<1>1. PICK k \in 0..(Len(subscribers[list[n]]) - 1) :
         /\ Answer(Reached(list, n - 1) \union { subscribers[list[n]][i] : i \in 1..k })
         /\ subscribers' = [e \in EventIds |->
                               IF \E i \in 1..(n - 1) : list[i] = e
                               THEN << >> ELSE subscribers[e]]
  BY <1>0
<1> DEFINE B == Reached(list, n - 1)
           C == { subscribers[list[n]][i] : i \in 1..k }
           A == B \union C
<1>2. \A i \in 1..Len(list) : list[i] \in EventIds
  OBVIOUS
<1>3. \A e \in EventIds : subscribers[e] \in Seq(Clients)
  BY DEF TypeOK
<1>4. C \subseteq Range(subscribers[list[n]])
  BY <1>2, <1>3 DEF Range
<1>5. A \subseteq Reached(list, Len(list))
  BY <1>4 DEF Reached
<1>6. Reached(list, Len(list)) \subseteq Clients
  BY <1>2, <1>3 DEF Reached, Range
<1>7. \A c \in A : Subscribed(c) /\ started[c] < MaxResponses
  BY <1>2, <1>5 DEF Reached, Subscribed, WithinBound
<1>8. subscribers' \in [EventIds -> Seq(Clients)]
  BY <1>1, <1>3
<1>9. \A e \in EventIds : subscribers'[e] = << >> \/ subscribers'[e] = subscribers[e]
  BY <1>1
<1>10. ASSUME NEW c \in Clients \ A, Subscribed(c)
       PROVE  Subscribed(c)'
  <2>1. PICK e \in EventIds : c \in Range(subscribers[e])
    BY <1>10 DEF Subscribed
  <2>2. \A i \in 1..(n - 1) : list[i] # e
    BY <1>10, <2>1 DEF Reached
  <2>3. subscribers'[e] = subscribers[e]
    BY <1>1, <2>2
  <2> QED
    BY <2>1, <2>3 DEF Subscribed
<1>11. Delivered(A)
  BY <1>1, <1>5, <1>6, <1>7, <1>8, <1>9, <1>10 DEF Delivered
<1> QED
  BY <1>11

LEMMA AimpEventDelivers ==
    ASSUME TypeOK, NEW event \in DOMAIN Notifications, AimpEvent(event)
    PROVE  \E A : Delivered(A)
<1> DEFINE list == Notifications[event]
<1>1. list \in Seq(EventIds)
  BY ListsOfEvents
<1>2. WithinBound(list) /\ (NotifyAll(list) \/ NotifySome(list))
  BY DEF AimpEvent
<1> QED
  BY <1>1, <1>2, NotifyAllDelivers, NotifySomeDelivers

-----------------------------------------------------------------------------
LEMMA InitBookkeeping == ASSUME Init PROVE Bookkeeping
<1> MaxResponses \in Nat
  BY CometAssumption
<1>1. \A e \in EventIds : DOMAIN subscribers[e] = {} /\ Range(subscribers[e]) = {}
  BY DEF Init, Range
<1>2. TypeOK /\ Counted
  BY DEF Init, TypeOK, Counted, Phases
<1>3. HeldForAReason
  BY <1>1 DEF Init, HeldForAReason, Subscribed
<1>4. OneDescriptorEach
  BY <1>1 DEF OneDescriptorEach
<1> QED
  BY <1>2, <1>3, <1>4 DEF Bookkeeping

(* Raising an event keeps the books, whatever throws. *)
LEMMA AimpEventKeepsBooks ==
    ASSUME Bookkeeping, NEW event \in DOMAIN Notifications, AimpEvent(event)
    PROVE  Bookkeeping'
<1> MaxResponses \in Nat
  BY CometAssumption
<1>1. TypeOK /\ Counted /\ HeldForAReason /\ OneDescriptorEach
  BY DEF Bookkeeping
<1>2. PICK A : Delivered(A)
  BY <1>1, AimpEventDelivers
<1>3. UNCHANGED << phase, peerUp, completed, faults >>
  BY DEF AimpEvent
<1>10. serving' \in BOOLEAN
  BY <1>1 DEF AimpEvent, StopService, TypeOK
<1>4. \A c \in Clients : started'[c] = IF c \in A THEN started[c] + 1 ELSE started[c]
  BY <1>2 DEF Delivered, Answer
<1>5. TypeOK'
  BY <1>1, <1>2, <1>3, <1>10 DEF Delivered, Answer, TypeOK
<1>6. Counted'
  BY <1>1, <1>3, <1>4 DEF Counted, TypeOK
<1>7. \A c \in Clients : Subscribed(c)' => Subscribed(c)
  <2>1. \A e \in EventIds : Range(subscribers'[e]) \subseteq Range(subscribers[e])
    BY <1>2 DEF Delivered, Range
  <2> QED
    BY <2>1 DEF Subscribed
<1>8. HeldForAReason'
  <2> SUFFICES ASSUME NEW c \in Clients
               PROVE  phase[c] = "held" <=> (Subscribed(c)' \/ completed[c] < started'[c])
    BY <1>3 DEF HeldForAReason
  <2>1. CASE c \in A
    <3>1. Subscribed(c)
      BY <1>2, <2>1 DEF Delivered
    <3>2. completed[c] < started'[c]
      BY <1>1, <1>4, <2>1 DEF Counted, TypeOK
    <3> QED
      BY <1>1, <3>1, <3>2 DEF HeldForAReason
  <2>2. CASE c \notin A
    <3>1. Subscribed(c)' <=> Subscribed(c)
      BY <1>2, <1>7, <2>2 DEF Delivered
    <3>2. started'[c] = started[c]
      BY <1>4, <2>2
    <3> QED
      BY <1>1, <3>1, <3>2 DEF HeldForAReason
  <2> QED
    BY <2>1, <2>2
<1>9. OneDescriptorEach'
  BY <1>1, <1>2 DEF OneDescriptorEach, Delivered
<1> QED
  BY <1>5, <1>6, <1>8, <1>9 DEF Bookkeeping

(* A new subscriber is described by nothing yet. *)
LEMMA SubscribeKeepsBooks ==
    ASSUME Bookkeeping, NEW c \in Clients, NEW e \in EventIds, Subscribe(c, e)
    PROVE  Bookkeeping'
<1>1. TypeOK /\ Counted /\ HeldForAReason /\ OneDescriptorEach
  BY DEF Bookkeeping
<1>2. ~Subscribed(c)
  BY <1>1 DEF HeldForAReason, Subscribe
<1>3. TypeOK' /\ Counted'
  BY <1>1 DEF Subscribe, Become, TypeOK, Counted, Phases
<1>4. \A f \in EventIds : subscribers[f] \in Seq(Clients)
  BY <1>1 DEF TypeOK
<1>5. subscribers'[e] = Append(subscribers[e], c)
      /\ \A f \in EventIds \ {e} : subscribers'[f] = subscribers[f]
  BY <1>1 DEF Subscribe, TypeOK
<1>6. \A d \in Clients : Subscribed(d)' <=> (Subscribed(d) \/ d = c)
  <2>1. Range(subscribers'[e]) = Range(subscribers[e]) \union {c}
    BY <1>4, <1>5 DEF Range
  <2> QED
    BY <1>5, <2>1 DEF Subscribed
<1>7. HeldForAReason'
  BY <1>1, <1>6 DEF HeldForAReason, Subscribe, Become, TypeOK
<1>8. OneDescriptorEach'
  <2> SUFFICES ASSUME NEW f \in EventIds, NEW g \in EventIds,
                      NEW i \in DOMAIN subscribers'[f], NEW j \in DOMAIN subscribers'[g],
                      subscribers'[f][i] = subscribers'[g][j]
               PROVE  f = g /\ i = j
    BY DEF OneDescriptorEach
  <2> DEFINE New(h, l) == h = e /\ l = Len(subscribers[e]) + 1
  <2>1. ASSUME NEW h \in EventIds, NEW l \in DOMAIN subscribers'[h]
        PROVE  \/ New(h, l) /\ subscribers'[h][l] = c
               \/ /\ ~New(h, l)
                  /\ l \in DOMAIN subscribers[h]
                  /\ subscribers'[h][l] = subscribers[h][l]
                  /\ subscribers[h][l] # c
    <3>1. \A l2 \in DOMAIN subscribers[h] : subscribers[h][l2] # c
      BY <1>2 DEF Subscribed, Range
    <3>2. CASE h = e
      BY <1>4, <1>5, <3>1, <3>2
    <3>3. CASE h # e
      BY <1>5, <3>1, <3>3
    <3> QED
      BY <3>2, <3>3
  <2>2. CASE New(f, i)
    BY <2>1, <2>2
  <2>3. CASE ~New(f, i)
    BY <1>1, <2>1, <2>3 DEF OneDescriptorEach
  <2> QED
    BY <2>2, <2>3
<1> QED
  BY <1>3, <1>7, <1>8 DEF Bookkeeping

LEMMA NextKeepsBooks == ASSUME Bookkeeping, [Next]_vars PROVE Bookkeeping'
<1> MaxResponses \in Nat
  BY CometAssumption
<1>1. TypeOK /\ Counted /\ HeldForAReason /\ OneDescriptorEach
  BY DEF Bookkeeping
<1>2. ASSUME UNCHANGED subscribers
      PROVE  OneDescriptorEach' /\ \A d \in Clients : Subscribed(d)' <=> Subscribed(d)
  BY <1>1, <1>2 DEF OneDescriptorEach, Subscribed
<1>3. CASE UNCHANGED vars
  BY <1>1, <1>2, <1>3 DEF vars, Bookkeeping, TypeOK, Counted, HeldForAReason
<1>4. ASSUME NEW c \in Clients, Accept(c)
      PROVE  Bookkeeping'
  <2>0. /\ phase' = [phase EXCEPT ![c] = "reading"] \/ phase' = phase
        /\ \E up \in BOOLEAN : peerUp' = [peerUp EXCEPT ![c] = up]
        /\ serving' \in BOOLEAN
    BY <1>1, <1>4 DEF Accept, StopService, TypeOK
  <2>1. TypeOK' /\ Counted'
    BY <1>1, <1>4, <2>0 DEF Accept, TypeOK, Counted, Phases
  <2>2. HeldForAReason'
    BY <1>1, <1>2, <1>4, <2>0 DEF Accept, HeldForAReason, TypeOK
  <2> QED
    BY <1>2, <1>4, <2>1, <2>2 DEF Accept, Bookkeeping
<1>5. ASSUME NEW c \in Clients, PeerResets(c)
      PROVE  Bookkeeping'
  <2>1. TypeOK' /\ Counted'
    BY <1>1, <1>5 DEF PeerResets, TypeOK, Counted
  <2>2. HeldForAReason'
    BY <1>1, <1>2, <1>5 DEF PeerResets, HeldForAReason
  <2> QED
    BY <1>2, <1>5, <2>1, <2>2 DEF PeerResets, Bookkeeping
<1>6. ASSUME NEW c \in Clients, ReadFails(c) \/ ReplyNow(c) \/ ReplyWritten(c)
      PROVE  Bookkeeping'
  <2> USE DEF ReadFails, ReplyNow, ReplyWritten, Become, Release
  <2>1. TypeOK' /\ Counted'
    BY <1>1, <1>6 DEF TypeOK, Counted, Phases
  <2>2. UNCHANGED << subscribers, started, completed >>
    BY <1>6
  <2>3. HeldForAReason'
    BY <1>1, <1>2, <1>6, <2>2 DEF HeldForAReason, TypeOK
  <2> QED
    BY <1>2, <2>1, <2>2, <2>3 DEF Bookkeeping
<1>7. ASSUME NEW c \in Clients, ResponseWritten(c)
      PROVE  Bookkeeping'
  <2> USE DEF ResponseWritten, Release, StopService
  <2>0. completed'[c] \in 0..MaxResponses /\ completed'[c] <= started[c]
    BY <1>1, <1>7 DEF TypeOK
  <2>1. completed' \in [Clients -> 0..MaxResponses] /\ Counted'
    BY <1>1, <1>7, <2>0 DEF TypeOK, Counted
  <2>2. phase' \in [Clients -> Phases] /\ peerUp' \in [Clients -> BOOLEAN]
    BY <1>1, <1>7 DEF TypeOK, Phases
  <2>3. TypeOK'
    BY <1>1, <1>7, <2>1, <2>2 DEF TypeOK
  <2>4. HeldForAReason'
    BY <1>1, <1>2, <1>7 DEF HeldForAReason, TypeOK
  <2> QED
    BY <1>2, <1>7, <2>1, <2>3, <2>4 DEF Bookkeeping
<1> QED
  BY <1>3, <1>4, <1>5, <1>6, <1>7, AimpEventKeepsBooks, SubscribeKeepsBooks DEF Next

(* The variables keep their types (the bound on responses included). *)
THEOREM TypeCorrect == Spec => []TypeOK
<1>1. Init => Bookkeeping
  BY InitBookkeeping
<1>2. Bookkeeping /\ [Next]_vars => Bookkeeping'
  BY NextKeepsBooks
<1>3. Bookkeeping => TypeOK
  BY DEF Bookkeeping
<1> QED
  BY <1>1, <1>2, <1>3, PTL DEF Spec

(* Whatever throws while subscribers are notified, and whenever peers reset
   their connections, a connection is held exactly while a descriptor or an
   unfinished write refers to it. *)
THEOREM HeldForAReasonHolds == Spec => []HeldForAReason
<1>1. Init => Bookkeeping
  BY InitBookkeeping
<1>2. Bookkeeping /\ [Next]_vars => Bookkeeping'
  BY NextKeepsBooks
<1>3. Bookkeeping => HeldForAReason
  BY DEF Bookkeeping
<1> QED
  BY <1>1, <1>2, <1>3, PTL DEF Spec

(* No connection is ever described twice among the subscribers. *)
THEOREM OneDescriptorEachHolds == Spec => []OneDescriptorEach
<1>1. Init => Bookkeeping
  BY InitBookkeeping
<1>2. Bookkeeping /\ [Next]_vars => Bookkeeping'
  BY NextKeepsBooks
<1>3. Bookkeeping => OneDescriptorEach
  BY DEF Bookkeeping
<1> QED
  BY <1>1, <1>2, <1>3, PTL DEF Spec

-----------------------------------------------------------------------------
(* Nobody is overtaken, whatever throws.                                     *)

(* Who is sent a response by an event, and whose descriptor stays, stands in
   front of everybody of the same event whose descriptor stays. *)
ServesInOrder(A) ==
    /\ Answer(A)
    /\ \A e \in EventIds :
          \/ subscribers'[e] = << >>
          \/ /\ subscribers'[e] = subscribers[e]
             /\ \A j \in DOMAIN subscribers[e] : \A i \in 1..j :
                   subscribers[e][j] \in A => subscribers[e][i] \in A

LEMMA AimpEventServesInOrder ==
    ASSUME Bookkeeping, NEW event \in DOMAIN Notifications, AimpEvent(event)
    PROVE  \E A : ServesInOrder(A)
<1> DEFINE list == Notifications[event]
<1>1. list \in Seq(EventIds) /\ \A i \in 1..Len(list) : list[i] \in EventIds
  BY ListsOfEvents
<1>2. \A e \in EventIds : subscribers[e] \in Seq(Clients)
  BY DEF Bookkeeping, TypeOK
<1>3. ASSUME NEW m \in 0..Len(list), NEW e \in EventIds, ~ \E i \in 1..m : list[i] = e,
             NEW j \in DOMAIN subscribers[e]
      PROVE  subscribers[e][j] \notin Reached(list, m)
  <2> SUFFICES ASSUME NEW i \in 1..m, subscribers[e][j] \in Range(subscribers[list[i]])
               PROVE  FALSE
    BY DEF Reached
  <2>1. list[i] \in EventIds /\ list[i] # e
    BY <1>1, <1>3
  <2>2. PICK k \in DOMAIN subscribers[list[i]] : subscribers[list[i]][k] = subscribers[e][j]
    BY DEF Range
  <2> QED
    BY <2>1, <2>2 DEF Bookkeeping, OneDescriptorEach
<1>4. CASE NotifyAll(list)
  <2> DEFINE A == Reached(list, Len(list))
  <2>1. ASSUME NEW e \in EventIds, e \notin Range(list)
        PROVE  /\ subscribers'[e] = subscribers[e]
               /\ \A j \in DOMAIN subscribers[e] : subscribers[e][j] \notin A
    <3>1. ~ \E i \in 1..Len(list) : list[i] = e
      BY <1>1, <2>1 DEF Range
    <3>2. Len(list) \in 0..Len(list)
      BY <1>1
    <3>3. \A j \in DOMAIN subscribers[e] : subscribers[e][j] \notin Reached(list, Len(list))
      BY <1>3, <3>1, <3>2
    <3>4. subscribers'[e] = subscribers[e]
      BY <1>4, <2>1 DEF NotifyAll
    <3> QED
      BY <3>3, <3>4
  <2>2. \A e \in Range(list) : e \in EventIds => subscribers'[e] = << >>
    BY <1>4 DEF NotifyAll
  <2>3. Answer(A)
    BY <1>4 DEF NotifyAll
  <2> QED
    BY <2>1, <2>2, <2>3 DEF ServesInOrder
<1>5. CASE NotifySome(list)
  <2>1. PICK n \in 1..Len(list) : \E k \in 0..(Len(subscribers[list[n]]) - 1) :
              /\ Answer(Reached(list, n - 1)
                          \union { subscribers[list[n]][i] : i \in 1..k })
              /\ subscribers' = [e \in EventIds |->
                                    IF \E i \in 1..(n - 1) : list[i] = e
                                    THEN << >> ELSE subscribers[e]]
    BY <1>5 DEF NotifySome
  <2> DEFINE queue == subscribers[list[n]]
  <2>2. PICK k \in 0..(Len(queue) - 1) :
              /\ Answer(Reached(list, n - 1) \union { queue[i] : i \in 1..k })
              /\ subscribers' = [e \in EventIds |->
                                    IF \E i \in 1..(n - 1) : list[i] = e
                                    THEN << >> ELSE subscribers[e]]
    BY <2>1
  <2> DEFINE A == Reached(list, n - 1) \union { queue[i] : i \in 1..k }
  <2>3. list[n] \in EventIds /\ queue \in Seq(Clients) /\ n - 1 \in 0..Len(list)
    BY <1>1, <1>2
  <2>4. ASSUME NEW e \in EventIds, ~ \E i \in 1..(n - 1) : list[i] = e,
               NEW j \in DOMAIN subscribers[e], NEW i \in 1..j,
               subscribers[e][j] \in A
        PROVE  subscribers[e][i] \in A
    <3>1. subscribers[e][j] \notin Reached(list, n - 1)
      BY <1>3, <2>3, <2>4
    <3>2. PICK m \in 1..k : subscribers[e][j] = queue[m]
      BY <2>4, <3>1
    <3>3. m \in DOMAIN queue
      BY <2>3
    <3>4. e = list[n] /\ j = m
      BY <2>3, <3>2, <3>3 DEF Bookkeeping, OneDescriptorEach
    <3> QED
      BY <3>4, <2>3
  <2>5. ASSUME NEW e \in EventIds
        PROVE  \/ subscribers'[e] = << >>
               \/ /\ subscribers'[e] = subscribers[e]
                  /\ ~ \E i \in 1..(n - 1) : list[i] = e
    BY <2>2
  <2>6. ServesInOrder(A)
    BY <2>2, <2>4, <2>5 DEF ServesInOrder
  <2> QED
    BY <2>6
<1> QED
  BY <1>4, <1>5 DEF AimpEvent

(* Who still reads a request has been sent nothing, whatever throws. *)
ReadersAreNew == \A c \in Clients : phase[c] = "reading" => started[c] = 0

InOrder == Bookkeeping /\ ReadersAreNew /\ NobodyOvertaken

LEMMA AimpEventKeepsOrder ==
    ASSUME InOrder, NEW event \in DOMAIN Notifications, AimpEvent(event)
    PROVE  ReadersAreNew' /\ NobodyOvertaken'
<1>1. PICK A : Delivered(A)
  BY AimpEventDelivers DEF InOrder, Bookkeeping
<1>2. PICK B : ServesInOrder(B)
  BY AimpEventServesInOrder DEF InOrder
<1>3. started \in [Clients -> Nat] /\ UNCHANGED phase
  BY CometAssumption DEF InOrder, Bookkeeping, TypeOK, AimpEvent
<1>4. ReadersAreNew'
  <2>1. \A c \in A : phase[c] = "held"
    BY <1>1 DEF Delivered, InOrder, Bookkeeping, HeldForAReason
  <2> QED
    BY <1>1, <1>3, <2>1 DEF Delivered, Answer, InOrder, ReadersAreNew
<1>5. NobodyOvertaken'
  <2> SUFFICES ASSUME NEW e \in EventIds, NEW j \in DOMAIN subscribers'[e], NEW i \in 1..j
               PROVE  started'[subscribers'[e][i]] >= started'[subscribers'[e][j]]
    BY DEF NobodyOvertaken
  <2>1. subscribers[e] \in Seq(Clients)
    BY DEF InOrder, Bookkeeping, TypeOK
  <2>2. /\ subscribers'[e] = subscribers[e]
        /\ subscribers[e][j] \in B => subscribers[e][i] \in B
    BY <1>2 DEF ServesInOrder
  <2>3. i \in DOMAIN subscribers[e] /\ subscribers[e][i] \in Clients /\ subscribers[e][j] \in Clients
    BY <2>1, <2>2
  <2>4. started[subscribers[e][i]] >= started[subscribers[e][j]]
    BY <2>2 DEF InOrder, NobodyOvertaken
  <2>5. \A c \in Clients : started'[c] = IF c \in B THEN started[c] + 1 ELSE started[c]
    BY <1>2 DEF ServesInOrder, Answer
  <2> QED
    BY <1>3, <2>2, <2>3, <2>4, <2>5
<1> QED
  BY <1>4, <1>5

LEMMA SubscribeKeepsOrder ==
    ASSUME InOrder, NEW c \in Clients, NEW e \in EventIds, Subscribe(c, e)
    PROVE  ReadersAreNew' /\ NobodyOvertaken'
<1>1. /\ started[c] = 0
      /\ started' = started
      /\ started \in [Clients -> Nat]
  BY CometAssumption DEF Subscribe, InOrder, ReadersAreNew, Bookkeeping, TypeOK
<1>2. ReadersAreNew'
  BY <1>1 DEF Subscribe, Become, InOrder, ReadersAreNew, Bookkeeping, TypeOK
<1>3. /\ subscribers[e] \in Seq(Clients)
      /\ subscribers'[e] = Append(subscribers[e], c)
      /\ \A f \in EventIds \ {e} : subscribers'[f] = subscribers[f]
  BY DEF Subscribe, InOrder, Bookkeeping, TypeOK
<1>4. ASSUME NEW j \in DOMAIN subscribers'[e], NEW i \in 1..j
      PROVE  started[subscribers'[e][i]] >= started[subscribers'[e][j]]
  <2>1. CASE j = Len(subscribers[e]) + 1
    <3>1. subscribers'[e][j] = c /\ subscribers'[e][i] \in Clients
      BY <1>3, <2>1
    <3> QED
      BY <1>1, <3>1
  <2>2. CASE j # Len(subscribers[e]) + 1
    <3>1. /\ j \in DOMAIN subscribers[e]
          /\ subscribers'[e][j] = subscribers[e][j]
          /\ subscribers'[e][i] = subscribers[e][i]
      BY <1>3, <2>2
    <3> QED
      BY <3>1 DEF InOrder, NobodyOvertaken
  <2> QED
    BY <2>1, <2>2
<1>5. NobodyOvertaken'
  BY <1>1, <1>3, <1>4 DEF InOrder, NobodyOvertaken
<1> QED
  BY <1>2, <1>5

LEMMA NextKeepsOrder == ASSUME InOrder, [Next]_vars PROVE InOrder'
<1>1. Bookkeeping'
  BY NextKeepsBooks DEF InOrder
<1>2. CASE UNCHANGED vars
  BY <1>1, <1>2 DEF vars, InOrder, ReadersAreNew, NobodyOvertaken
<1>3. ASSUME NEW c \in Clients, Accept(c)
      PROVE  ReadersAreNew' /\ NobodyOvertaken'
  <2>1. /\ started' = [started EXCEPT ![c] = 0]
        /\ phase' = [phase EXCEPT ![c] = "reading"] \/ phase' = phase
        /\ UNCHANGED subscribers
        /\ ~Subscribed(c)
    BY <1>3 DEF Accept, InOrder, Bookkeeping, HeldForAReason
  <2>2. ASSUME NEW e \in EventIds, NEW j \in DOMAIN subscribers[e]
        PROVE  started'[subscribers[e][j]] = started[subscribers[e][j]]
    <3>1. subscribers[e][j] # c
      BY <2>1 DEF Subscribed, Range
    <3> QED
      BY <2>1, <3>1 DEF InOrder, Bookkeeping, TypeOK
  <2>3. \A e \in EventIds : subscribers[e] \in Seq(Clients)
    BY DEF InOrder, Bookkeeping, TypeOK
  <2>4. NobodyOvertaken'
    BY <2>1, <2>2, <2>3 DEF InOrder, NobodyOvertaken
  <2>5. ReadersAreNew'
    BY <2>1 DEF InOrder, ReadersAreNew, Bookkeeping, TypeOK
  <2> QED
    BY <2>4, <2>5
<1>4. ASSUME NEW c \in Clients,
             PeerResets(c) \/ ReadFails(c) \/ ReplyNow(c) \/ ReplyWritten(c) \/ ResponseWritten(c)
      PROVE  ReadersAreNew' /\ NobodyOvertaken'
  <2>1. UNCHANGED << subscribers, started >>
    BY <1>4 DEF PeerResets, ReadFails, ReplyNow, ReplyWritten, ResponseWritten
  <2>2. \A d \in Clients : phase'[d] = "reading" => phase[d] = "reading"
    BY <1>4 DEF PeerResets, ReadFails, ReplyNow, ReplyWritten, ResponseWritten,
                Become, Release, InOrder, Bookkeeping, TypeOK
  <2> QED
    BY <2>1, <2>2 DEF InOrder, ReadersAreNew, NobodyOvertaken
<1> QED
  BY <1>1, <1>2, <1>3, <1>4, AimpEventKeepsOrder, SubscribeKeepsOrder DEF Next, InOrder

(* Even when notifications fail half way, earlier subscribers of an event are
   served before later ones. *)
THEOREM NobodyOvertakenHolds == Spec => []NobodyOvertaken
<1>1. Init => InOrder
  <2>1. ASSUME Init PROVE ReadersAreNew /\ NobodyOvertaken
    BY <2>1 DEF Init, ReadersAreNew, NobodyOvertaken
  <2> QED
    BY <2>1, InitBookkeeping DEF InOrder
<1>2. InOrder /\ [Next]_vars => InOrder'
  BY NextKeepsOrder
<1>3. InOrder => NobodyOvertaken
  BY DEF InOrder
<1> QED
  BY <1>1, <1>2, <1>3, PTL DEF Spec

-----------------------------------------------------------------------------
(* Without failures: the state of AIMP can be read, and no debug record is  *)
(* written about a connection whose peer has gone.                          *)

NoFailures == faults = {}

(* Who waits has been sent nothing. *)
Fresh ==
    \A c \in Clients :
       /\ started[c] <= 1
       /\ Subscribed(c) \/ phase[c] = "reading" => started[c] = 0

LEMMA AimpEventKeepsFresh ==
    ASSUME NoFailures, Bookkeeping, Fresh,
           NEW event \in DOMAIN Notifications, AimpEvent(event)
    PROVE  Fresh'
<1> DEFINE list == Notifications[event]
           A == Reached(list, Len(list))
<1>1. list \in Seq(EventIds)
  BY ListsOfEvents
<1>2. WithinBound(list) /\ NotifyAll(list)
  BY DEF AimpEvent, NotifySome, SendMayThrow, NoFailures
<1>3. Delivered(A)
  BY <1>1, <1>2, NotifyAllDelivers DEF Bookkeeping
<1>4. UNCHANGED phase
  BY DEF AimpEvent
<1>5. \A c \in A : ~Subscribed(c)'
  <2> SUFFICES ASSUME NEW c \in A, NEW e \in EventIds, c \in Range(subscribers'[e])
               PROVE  FALSE
    BY DEF Subscribed
  <2>1. PICK f \in EventIds : /\ f # e
                             /\ c \in Range(subscribers[e])
                             /\ c \in Range(subscribers[f])
    BY <1>1, <1>2, NotifyAllDelivers DEF Bookkeeping
  <2> QED
    BY <2>1 DEF Bookkeeping, OneDescriptorEach, Range
<1>6. \A c \in Clients : Subscribed(c)' => Subscribed(c)
  <2>1. \A e \in EventIds : Range(subscribers'[e]) \subseteq Range(subscribers[e])
    BY <1>3 DEF Delivered, Range
  <2> QED
    BY <2>1 DEF Subscribed
<1>7. \A c \in Clients : started'[c] = IF c \in A THEN started[c] + 1 ELSE started[c]
  BY <1>3 DEF Delivered, Answer
<1>8. \A c \in A : c \in Clients /\ Subscribed(c) /\ phase[c] = "held"
  BY <1>3 DEF Delivered, Bookkeeping, HeldForAReason
<1> QED
  BY <1>4, <1>5, <1>6, <1>7, <1>8 DEF Fresh, Bookkeeping, TypeOK

LEMMA NextKeepsFresh ==
    ASSUME NoFailures, Bookkeeping, Fresh, [Next]_vars PROVE Fresh'
<1>1. ASSUME UNCHANGED subscribers
      PROVE  \A d \in Clients : Subscribed(d)' <=> Subscribed(d)
  BY <1>1 DEF Subscribed
<1>2. CASE UNCHANGED vars
  BY <1>1, <1>2 DEF vars, Fresh
<1>3. ASSUME NEW c \in Clients, Accept(c)
      PROVE  Fresh'
  <2>1. ~Subscribed(c)
    BY <1>3 DEF Accept, Bookkeeping, HeldForAReason
  <2>2. /\ phase' = [phase EXCEPT ![c] = "reading"] \/ phase' = phase
        /\ started' = [started EXCEPT ![c] = 0]
        /\ UNCHANGED subscribers
    BY <1>3 DEF Accept
  <2> QED
    BY <1>1, <2>1, <2>2 DEF Fresh, Bookkeeping, TypeOK
<1>4. ASSUME NEW c \in Clients,
             PeerResets(c) \/ ReadFails(c) \/ ReplyNow(c) \/ ReplyWritten(c) \/ ResponseWritten(c)
      PROVE  Fresh'
  <2>1. UNCHANGED << subscribers, started >>
    BY <1>4 DEF PeerResets, ReadFails, ReplyNow, ReplyWritten, ResponseWritten
  <2>2. \A d \in Clients : phase'[d] = "reading" => phase[d] = "reading"
    BY <1>4 DEF PeerResets, ReadFails, ReplyNow, ReplyWritten, ResponseWritten,
                Become, Release, Bookkeeping, TypeOK
  <2> QED
    BY <1>1, <2>1, <2>2 DEF Fresh
<1>5. ASSUME NEW c \in Clients, NEW e \in EventIds, Subscribe(c, e)
      PROVE  Fresh'
  <2>1. \A d \in Clients \ {c} : Subscribed(d)' => Subscribed(d)
    <3>1. /\ subscribers[e] \in Seq(Clients)
          /\ subscribers'[e] = Append(subscribers[e], c)
          /\ \A f \in EventIds \ {e} : subscribers'[f] = subscribers[f]
      BY <1>5 DEF Subscribe, Bookkeeping, TypeOK
    <3>2. Range(subscribers'[e]) \subseteq Range(subscribers[e]) \union {c}
      BY <3>1 DEF Range
    <3> QED
      BY <3>1, <3>2 DEF Subscribed
  <2>2. started[c] = 0
    BY <1>5 DEF Subscribe, Fresh
  <2> QED
    BY <1>5, <2>1, <2>2 DEF Subscribe, Become, Fresh, Bookkeeping, TypeOK
<1> QED
  BY <1>2, <1>3, <1>4, <1>5, AimpEventKeepsFresh DEF Next

(* What may go wrong is settled when the execution begins. *)
LEMMA FaultsStay == ASSUME [Next]_vars PROVE faults' = faults
BY DEF Next, vars, Accept, PeerResets, ReadFails, ReplyNow, ReplyWritten, ResponseWritten,
       Subscribe, AimpEvent

FreshUnlessFaulty == Bookkeeping /\ (NoFailures => Fresh)

LEMMA InitFresh == ASSUME Init PROVE FreshUnlessFaulty
<1>1. Fresh
  BY DEF Init, Fresh
<1> QED
  BY <1>1, InitBookkeeping DEF FreshUnlessFaulty

LEMMA NextFresh == ASSUME FreshUnlessFaulty, [Next]_vars PROVE FreshUnlessFaulty'
BY NextKeepsBooks, NextKeepsFresh, FaultsStay DEF FreshUnlessFaulty, NoFailures

(* As long as no send can throw, a subscription gets at most one response. *)
THEOREM AtMostOneResponseHolds == Spec => []AtMostOneResponse
<1>1. Init => FreshUnlessFaulty
  BY InitFresh
<1>2. FreshUnlessFaulty /\ [Next]_vars => FreshUnlessFaulty'
  BY NextFresh
<1>3. FreshUnlessFaulty => AtMostOneResponse
  BY DEF FreshUnlessFaulty, NoFailures, Fresh, AtMostOneResponse
<1> QED
  BY <1>1, <1>2, <1>3, PTL DEF Spec

-----------------------------------------------------------------------------
(* The comet path implements the feed of events.                            *)

Waiting == [e \in EventIds |-> Range(subscribers[e])]
Served == { c \in Clients : phase[c] = "held" /\ started[c] > 0 }

LEMMA AimpEventPublishes ==
    ASSUME NoFailures, Bookkeeping, NEW event \in DOMAIN Notifications, AimpEvent(event)
    PROVE  Feed!Publish(Range(Notifications[event]))
<1> DEFINE list == Notifications[event]
           A == Reached(list, Len(list))
<1>1. list \in Seq(EventIds)
  BY ListsOfEvents
<1>2. WithinBound(list) /\ NotifyAll(list)
  BY DEF AimpEvent, NotifySome, SendMayThrow, NoFailures
<1>3. A = UNION { Waiting[t] : t \in Range(list) }
  <2>1. \A i \in 1..Len(list) : list[i] \in EventIds
    BY <1>1
  <2>2. Range(list) = { list[i] : i \in 1..Len(list) }
    BY <1>1 DEF Range
  <2>3. \A c : c \in A <=> \E i \in 1..Len(list) : c \in Range(subscribers[list[i]])
    BY DEF Reached
  <2>4. \A c : c \in UNION { Waiting[t] : t \in Range(list) }
                 <=> \E i \in 1..Len(list) : c \in Range(subscribers[list[i]])
    BY <2>1, <2>2 DEF Waiting
  <2> QED
    BY <2>3, <2>4
<1>4. Delivered(A)
  BY <1>1, <1>2, NotifyAllDelivers DEF Bookkeeping
<1>5. Served' = Served \union A
  <2>1. \A c \in A : c \in Clients /\ phase[c] = "held" /\ started[c] \in Nat
    BY <1>4 DEF Delivered, Bookkeeping, HeldForAReason, TypeOK
  <2>2. \A c \in Clients : started'[c] = IF c \in A THEN started[c] + 1 ELSE started[c]
    BY <1>4 DEF Delivered, Answer
  <2>3. UNCHANGED phase
    BY DEF AimpEvent
  <2> QED
    BY <2>1, <2>2, <2>3 DEF Served
<1>6. Waiting' = [t \in EventIds |-> IF t \in Range(list) THEN {} ELSE Waiting[t]]
  <2>1. \A t \in EventIds :
           Range(subscribers'[t]) = IF t \in Range(list) THEN {} ELSE Range(subscribers[t])
    BY <1>2 DEF NotifyAll, Range
  <2> QED
    BY <2>1 DEF Waiting
<1> QED
  BY <1>3, <1>5, <1>6 DEF Feed!Publish, Waiting, Served

LEMMA StepImplementsFeed ==
    ASSUME NoFailures, Bookkeeping, Fresh, [Next]_vars
    PROVE  [Feed!Next]_(Feed!vars)
<1> SUFFICES Feed!Next \/ (Waiting' = Waiting /\ Served' = Served)
  BY DEF Feed!vars, Waiting, Served
<1>1. CASE UNCHANGED vars
  BY <1>1 DEF vars, Waiting, Served
<1>2. ASSUME NEW c \in Clients, Accept(c)
      PROVE  Waiting' = Waiting /\ Served' = Served
  <2>1. /\ phase' = [phase EXCEPT ![c] = "reading"] \/ phase' = phase
        /\ started' = [started EXCEPT ![c] = 0]
        /\ UNCHANGED subscribers
        /\ phase[c] = "absent"
    BY <1>2 DEF Accept
  <2> QED
    BY <2>1 DEF Waiting, Served, Bookkeeping, TypeOK
<1>3. ASSUME NEW c \in Clients, PeerResets(c) \/ ReadFails(c) \/ ReplyNow(c) \/ ReplyWritten(c)
      PROVE  Waiting' = Waiting /\ Served' = Served
  <2>1. UNCHANGED << subscribers, started >>
    BY <1>3 DEF PeerResets, ReadFails, ReplyNow, ReplyWritten
  <2>2. \A d \in Clients : phase'[d] = "held" <=> phase[d] = "held"
    BY <1>3 DEF PeerResets, ReadFails, ReplyNow, ReplyWritten, Become, Release,
                Bookkeeping, TypeOK
  <2> QED
    BY <2>1, <2>2 DEF Waiting, Served
<1>4. ASSUME NEW c \in Clients, NEW e \in EventIds, Subscribe(c, e)
      PROVE  Feed!Wait(c, e)
  <2>1. c \notin Served /\ \A t \in EventIds : c \notin Waiting[t]
    BY <1>4 DEF Subscribe, Bookkeeping, HeldForAReason, Subscribed, Waiting, Served
  <2>2. Served' = Served
    BY <1>4 DEF Subscribe, Become, Fresh, Served, Bookkeeping, TypeOK
  <2>3. Waiting' = [Waiting EXCEPT ![e] = @ \union {c}]
    <3>1. /\ subscribers[e] \in Seq(Clients)
          /\ subscribers'[e] = Append(subscribers[e], c)
          /\ \A f \in EventIds \ {e} : subscribers'[f] = subscribers[f]
      BY <1>4 DEF Subscribe, Bookkeeping, TypeOK
    <3>2. Range(subscribers'[e]) = Range(subscribers[e]) \union {c}
      BY <3>1 DEF Range
    <3> QED
      BY <3>1, <3>2 DEF Waiting
  <2> QED
    BY <2>1, <2>2, <2>3 DEF Feed!Wait, Feed!Idle, Waiting, Served
<1>5. ASSUME NEW c \in Clients, ResponseWritten(c)
      PROVE  Feed!Gone(c) \/ (Waiting' = Waiting /\ Served' = Served)
  <2>1. Waiting' = Waiting
    BY <1>5 DEF ResponseWritten, Waiting
  <2>2. c \in Served
    BY <1>5 DEF ResponseWritten, Served, Bookkeeping, HeldForAReason, TypeOK
  <2>3. CASE Release(c)
    <3>1. Served' = Served \ {c}
      BY <1>5, <2>3 DEF Release, ResponseWritten, Served, Bookkeeping, TypeOK
    <3> QED
      BY <2>1, <2>2, <3>1 DEF Feed!Gone, Waiting, Served
  <2>4. CASE UNCHANGED phase
    BY <1>5, <2>1, <2>4 DEF ResponseWritten, Served
  <2> QED
    BY <1>5, <2>3, <2>4 DEF ResponseWritten
<1>6. ASSUME NEW event \in DOMAIN Notifications, AimpEvent(event)
      PROVE  \E T \in SUBSET EventIds : Feed!Publish(T)
  <2>1. Range(Notifications[event]) \subseteq EventIds
    BY ListsOfEvents DEF Range
  <2> QED
    BY <1>6, <2>1, AimpEventPublishes
<1> QED
  BY <1>1, <1>2, <1>3, <1>4, <1>5, <1>6 DEF Next, Feed!Next

(* Without failures every event serves everybody who waits for it, at once,
   and each of them once: the comet path implements the feed. *)
THEOREM ImplementsFeed == Spec => FeedSpec
<1>1. Init => FreshUnlessFaulty
  BY InitFresh
<1>2. FreshUnlessFaulty /\ [Next]_vars => FreshUnlessFaulty'
  BY NextFresh
<1>3. Init => Feed!Init
  <2> SUFFICES ASSUME Init PROVE Feed!Init
    OBVIOUS
  <2>1. \A e \in EventIds : Range(subscribers[e]) = {}
    BY DEF Init, Range
  <2>2. { c \in Clients : phase[c] = "held" /\ started[c] > 0 } = {}
    BY DEF Init
  <2> QED
    BY <2>1, <2>2 DEF Feed!Init
<1>4. FreshUnlessFaulty /\ [Next]_vars => [faults = {} => Feed!Next]_(Feed!vars)
  BY StepImplementsFeed DEF FreshUnlessFaulty, NoFailures
<1> QED
  <2>1. Spec => []FreshUnlessFaulty
    BY <1>1, <1>2, PTL DEF Spec
  <2>2. Spec => [][faults = {} => Feed!Next]_(Feed!vars)
    BY <2>1, <1>4, PTL DEF Spec
  <2> QED
    BY <1>3, <2>2, PTL DEF Spec, FeedSpec

=============================================================================
