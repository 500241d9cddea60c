------------------------- MODULE CometNotifications -------------------------
(***************************************************************************)
(* The comet path of the plugin: a client connects to the embedded HTTP    *)
(* server, calls SubscribeOnAIMPStateUpdateEvent and is kept waiting until *)
(* AIMP raises an event its subscription covers; the same write then ends  *)
(* the connection.                                                         *)
(*                                                                         *)
(* Everything runs on AIMP's main thread: the handlers of the io_service   *)
(* inside the 100 ms tick, the AIMP events from AIMP's own calls.  One     *)
(* action is therefore one handler or one event, executed whole.  What is  *)
(* concurrent is the network: the peer may reset its connection between    *)
(* any two steps.                                                          *)
(***************************************************************************)
EXTENDS Naturals, SequencesExt

CONSTANTS
    Clients,      \* slots for a connection of the HTTP server
    FaultSets,    \* what may go wrong in an execution: sets of faults
    MaxResponses  \* bound: responses started on one connection

(* "debug_log": the log severity, a setting that is read once, lets debug
   records through.  "state_read": reading AIMP's state for a response may
   throw. *)
Faults == { "debug_log", "state_read" }

ASSUME CometAssumption ==
    /\ FaultSets \subseteq SUBSET Faults
    /\ MaxResponses \in Nat \ {0}

(* The subscriptions a client may ask for (event_types_). *)
EventIds == { "play_state_change", "current_track_change",
              "control_panel_state_change", "playlists_content_change" }

(* The notifications each event of the AIMP manager is turned into, in the
   order they are sent; a change of playlists while a radio station plays
   has a longer list. *)
Notifications ==
    [ TRACK_POS_CHANGED   |-> << "control_panel_state_change" >>,
      PLAY_FILE           |-> << "current_track_change",
                                 "control_panel_state_change" >>,
      PLAYER_STATE        |-> << "play_state_change",
                                 "control_panel_state_change" >>,
      PLAYLISTS           |-> << "playlists_content_change" >>,
      PLAYLISTS_ON_RADIO  |-> << "playlists_content_change",
                                 "current_track_change",
                                 "control_panel_state_change" >>,
      PROGRESS_CHANGED    |-> << "play_state_change" >>,
      QUIT_OR_PANEL       |-> << "control_panel_state_change" >> ]

VARIABLES
    phase,        \* what the connection object in a slot is doing
    peerUp,       \* the client at the other end is still there
    subscribers,  \* delayed_response_sender_descriptors_, per event
    started,      \* responses whose write was started on the connection
    completed,    \* of those, the ones whose completion handler ran
    serving,      \* the tick runs and the io_service is not stopped
    faults        \* what may go wrong, the same in the whole execution

vars == << phase, peerUp, subscribers, started, completed, serving, faults >>

-----------------------------------------------------------------------------
(* "absent"   no connection object                                         *)
(* "reading"  async_read_some outstanding                                  *)
(* "replying" the write of an immediate reply outstanding                  *)
(* "headers"  the write of the headers of a file outstanding               *)
(* "file"     TransmitFile owns the socket                                 *)
(* "held"     kept alive by a descriptor of a subscriber, or by the write  *)
(*            of a delayed response                                        *)
Phases == { "absent", "reading", "replying", "headers", "file", "held" }

Subscribed(c) == \E e \in EventIds : c \in Range(subscribers[e])

Init ==
    /\ phase = [c \in Clients |-> "absent"]
    /\ peerUp = [c \in Clients |-> FALSE]
    /\ subscribers = [e \in EventIds |-> << >>]
    /\ started = [c \in Clients |-> 0]
    /\ completed = [c \in Clients |-> 0]
    /\ serving = TRUE
    /\ faults \in FaultSets

(* An exception that leaves a handler leaves io_service::poll() too; the
   tick's catch block stops the io_service and kills the timer. *)
StopService == serving' = FALSE

(* handle_accept asks for the peer's address before anything else, which
   throws when the peer has reset the connection already. *)
Accept(c) ==
    /\ serving
    /\ phase[c] = "absent"
    /\ \E up \in BOOLEAN :
          /\ peerUp' = [peerUp EXCEPT ![c] = up]
          /\ \/ /\ phase' = [phase EXCEPT ![c] = "reading"]
                /\ UNCHANGED serving
             \/ /\ ~up
                /\ StopService
                /\ UNCHANGED phase
    /\ started' = [started EXCEPT ![c] = 0]
    /\ completed' = [completed EXCEPT ![c] = 0]
    /\ UNCHANGED << subscribers, faults >>

(* The client resets the connection or leaves; nobody tells the plugin. *)
PeerResets(c) ==
    /\ phase[c] # "absent"
    /\ peerUp[c]
    /\ peerUp' = [peerUp EXCEPT ![c] = FALSE]
    /\ UNCHANGED << phase, subscribers, started, completed, serving, faults >>

Become(c, p) == phase' = [phase EXCEPT ![c] = p] /\ UNCHANGED peerUp

(* The last reference to the connection goes; its destructor closes the
   socket. *)
Release(c) ==
    /\ phase' = [phase EXCEPT ![c] = "absent"]
    /\ peerUp' = [peerUp EXCEPT ![c] = FALSE]

(* handle_read with an error starts no new operation. *)
ReadFails(c) ==
    /\ serving
    /\ phase[c] = "reading"
    /\ ~peerUp[c]
    /\ Release(c)
    /\ UNCHANGED << subscribers, started, completed, serving, faults >>

(* handle_read with a whole request that is answered at once: 400, 401, a
   document, the result or the fault of an RPC method, an unknown event of
   a subscription; or the headers of a track to download. *)
ReplyNow(c) ==
    /\ serving
    /\ phase[c] = "reading"
    /\ \/ Become(c, "replying")
       \/ Become(c, "headers")
    /\ UNCHANGED << subscribers, started, completed, serving, faults >>

(* Mutant: the connection also waits for another request. *)
Subscribe_ReadsOn(c, e) ==
    /\ serving
    /\ phase[c] = "reading"
    /\ subscribers' = [subscribers EXCEPT ![e] = Append(@, c)]
    /\ UNCHANGED << phase, peerUp, started, completed, serving, faults >>

(* handle_read with a whole SubscribeOnAIMPStateUpdateEvent call. *)
Subscribe(c, e) ==
    /\ serving
    /\ phase[c] = "reading"
    /\ Become(c, "held")
    /\ subscribers' = [subscribers EXCEPT ![e] = Append(@, c)]
    /\ UNCHANGED << started, completed, serving, faults >>

(* Completion of an immediate reply, of the headers, of the file. *)
ReplyWritten(c) ==
    /\ serving
    /\ \/ phase[c] \in { "replying", "file" } /\ Release(c)
       \/ phase[c] = "headers" /\ peerUp[c] /\ Become(c, "file")
       \/ phase[c] = "headers" /\ Release(c)  \* write error, or no such file
    /\ UNCHANGED << subscribers, started, completed, serving, faults >>

-----------------------------------------------------------------------------
(* aimpEventHandler: sendNotifications for each element of the list.       *)

(* Sending to a subscriber throws when its response cannot be prepared, or
   when the debug record of sendResponse asks a socket that has no peer any
   more for its address. *)
SendMayThrow(c) ==
    "state_read" \in faults \/ ("debug_log" \in faults /\ ~peerUp[c])

Answer(S) ==
    started' = [c \in Clients |-> IF c \in S THEN started[c] + 1
                                             ELSE started[c]]

(* Subscribers of the first n notifications of a list. *)
Reached(list, n) == UNION { Range(subscribers[list[i]]) : i \in 1..n }

WithinBound(list) ==
    \A c \in Reached(list, Len(list)) : started[c] < MaxResponses

(* Mutants: the events go with their descriptors; descriptors are erased
   before they are used; they are not erased; only the first of an event is
   served. *)
NotifyAll_ErasesEvents(list) ==
    /\ Answer(Reached(list, Len(list)))
    /\ subscribers' = [e \in EventIds \ Range(list) |-> subscribers[e]]

NotifyAll_ErasesFirst(list) ==
    /\ Answer({})
    /\ subscribers' = [e \in EventIds |-> IF e \in Range(list) THEN << >>
                                                               ELSE subscribers[e]]

NotifyAll_KeepsDescriptors(list) ==
    /\ Answer(Reached(list, Len(list)))
    /\ UNCHANGED subscribers

NotifyAll_FirstOnly(list) ==
    LET served == { e \in Range(list) : subscribers[e] # << >> } IN
    /\ Answer({ Head(subscribers[e]) : e \in served })
    /\ subscribers' = [e \in EventIds |-> IF e \in served THEN Tail(subscribers[e])
                                                           ELSE subscribers[e]]

(* Every subscriber of every notification of the list is sent its response,
   and their descriptors are erased. *)
NotifyAll(list) ==
    /\ Answer(Reached(list, Len(list)))
    /\ subscribers' = [e \in EventIds |-> IF e \in Range(list) THEN << >>
                                                               ELSE subscribers[e]]

(* Mutant: the notification goes on behind a subscriber that throws. *)
NotifySome_GoesOn(list) ==
    \E n \in 1..Len(list) :
       LET queue == subscribers[list[n]] IN
       \E k \in 0..(Len(queue) - 1) :
          /\ SendMayThrow(queue[k + 1])
          /\ Answer({ queue[i] : i \in (1..Len(queue)) \ {k + 1} })
          /\ UNCHANGED subscribers

(* The n-th notification throws at subscriber k + 1: the first k have been
   sent their response, nobody of this event is erased, and the rest of the
   list is not sent. *)
NotifySome(list) ==
    \E n \in 1..Len(list) :
       LET queue == subscribers[list[n]] IN
       \E k \in 0..(Len(queue) - 1) :
          /\ SendMayThrow(queue[k + 1])
          /\ Answer(Reached(list, n - 1) \union { queue[i] : i \in 1..k })
          /\ subscribers' = [e \in EventIds |->
                                IF \E i \in 1..(n - 1) : list[i] = e
                                THEN << >> ELSE subscribers[e]]

(* AIMP raises an event.  The manager catches what a notification throws
   when AIMP calls it, also while the io_service is stopped, and an RPC
   method that raises an event answers its request with a fault.  An event
   raised by a handler of the io_service - a timer that mirrors playlists,
   the check of 2.6, everything AIMP 2.6 calls back with - is caught by the
   tick alone, which stops the service. *)
AimpEvent(event) ==
    LET list == Notifications[event] IN
    /\ WithinBound(list)
    /\ \/ NotifyAll(list) /\ UNCHANGED serving
       \/ NotifySome(list) /\ (UNCHANGED serving \/ (serving /\ StopService))
    /\ UNCHANGED << phase, peerUp, completed, faults >>

(* Mutant: the completed write does not let the connection go. *)
ResponseWritten_HoldsOn(c) ==
    /\ serving
    /\ completed[c] < started[c]
    /\ completed' = [completed EXCEPT ![c] = @ + 1]
    /\ UNCHANGED << phase, peerUp, subscribers, started, serving, faults >>

(* CometDelayedConnection::handle_write.  The last write releases the
   connection unless a descriptor still refers to it. *)
ResponseWritten(c) ==
    /\ serving
    /\ completed[c] < started[c]
    /\ completed' = [completed EXCEPT ![c] = @ + 1]
    /\ IF completed'[c] = started[c] /\ ~Subscribed(c)
       THEN Release(c) ELSE UNCHANGED << phase, peerUp >>
    /\ \/ UNCHANGED serving
       \/ "debug_log" \in faults /\ ~peerUp[c] /\ StopService
    /\ UNCHANGED << subscribers, started, faults >>

-----------------------------------------------------------------------------
Next ==
    \/ \E c \in Clients :
          \/ Accept(c) \/ PeerResets(c) \/ ReadFails(c) \/ ReplyNow(c)
          \/ ReplyWritten(c) \/ ResponseWritten(c)
          \/ \E e \in EventIds : Subscribe(c, e)
    \/ \E event \in DOMAIN Notifications : AimpEvent(event)

(* The operating system completes every write and the tick polls for as
   long as the service runs.  Nothing makes a client send its request or
   AIMP raise an event. *)
Fairness == \A c \in Clients : WF_vars(ReplyWritten(c)) /\ WF_vars(ResponseWritten(c))

Spec == Init /\ [][Next]_vars

FairSpec == Spec /\ Fairness

-----------------------------------------------------------------------------
(* Properties                                                              *)

TypeOK ==
    /\ phase \in [Clients -> Phases]
    /\ peerUp \in [Clients -> BOOLEAN]
    /\ subscribers \in [EventIds -> Seq(Clients)]
    /\ started \in [Clients -> 0..MaxResponses]
    /\ completed \in [Clients -> 0..MaxResponses]
    /\ serving \in BOOLEAN
    /\ faults \in FaultSets

(* Who is kept waiting can still be answered, once: a connection is held
   exactly while a descriptor or an unfinished write refers to it, and no
   connection has two descriptors.  A connection held for no reason would
   hang its client for ever; one described twice would be written twice by
   the events that send several notifications. *)
HeldForAReason ==
    \A c \in Clients :
       phase[c] = "held" <=> (Subscribed(c) \/ completed[c] < started[c])

OneDescriptorEach ==
    \A e, f \in EventIds :
       \A i \in DOMAIN subscribers[e], j \in DOMAIN subscribers[f] :
          subscribers[e][i] = subscribers[f][j] => e = f /\ i = j

(* A client sees one HTTP response to its subscription: the descriptor goes
   with the response, whatever lists of notifications events are made of -
   as long as no send can throw. *)
AtMostOneResponse == faults = {} => \A c \in Clients : started[c] <= 1

(* Even when notifications fail half way, earlier subscribers of an event
   are served before later ones: nobody is overtaken. *)
NobodyOvertaken ==
    \A e \in EventIds :
       \A j \in DOMAIN subscribers[e] : \A i \in 1..j :
          started[subscribers[e][i]] >= started[subscribers[e][j]]

(* "Sends notification to all subscribers for specified event": when one
   subscriber of an event is sent a response, each of them is. *)
SendsToAllSubscribers ==
    [][ \A e \in EventIds :
           LET Served == { c \in Range(subscribers[e]) : started'[c] > started[c] }
           IN Served # {} => Served = Range(subscribers[e]) ]_vars

(* A subscription ends: if AIMP keeps raising events that cover it, the
   service runs and no send can throw, the response is written and the
   connection closed.  Nothing tells one connection from another, so the
   property is about one of them. *)
Raises(e) == \E event \in DOMAIN Notifications :
                e \in Range(Notifications[event]) /\ AimpEvent(event)

EventuallyAnswered ==
    LET c == CHOOSE client \in Clients : TRUE IN
    \A e \in EventIds :
       WF_vars(Raises(e)) =>
          (faults = {} /\ c \in Range(subscribers[e])
              ~> (phase[c] = "absent" \/ ~serving))

(* The feed of events the comet path implements. *)
Feed == INSTANCE EventFeed WITH
            Topics <- EventIds,
            waiting <- [e \in EventIds |-> Range(subscribers[e])],
            served <- { c \in Clients : phase[c] = "held" /\ started[c] > 0 }

(* As long as no send can throw, every step is one of the feed, or none. *)
FeedSpec == Feed!Init /\ [][faults = {} => Feed!Next]_(Feed!vars)

=============================================================================
