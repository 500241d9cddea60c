----------------------------- MODULE EventFeed -----------------------------
(***************************************************************************)
(* What the comet path promises: a client waits on one topic until a       *)
(* publication covers it; a publication serves everybody who waits on any  *)
(* of its topics, at once; who is served stays so until it is gone.        *)
(***************************************************************************)
CONSTANTS Clients, Topics

VARIABLES waiting,  \* per topic, the clients kept waiting on it
          served    \* the clients whose response is on its way

vars == << waiting, served >>

Init ==
    /\ waiting = [t \in Topics |-> {}]
    /\ served = {}

Idle(c) == c \notin served /\ \A t \in Topics : c \notin waiting[t]

Wait(c, t) ==
    /\ Idle(c)
    /\ waiting' = [waiting EXCEPT ![t] = @ \union {c}]
    /\ UNCHANGED served

Publish(T) ==
    /\ served' = served \union UNION { waiting[t] : t \in T }
    /\ waiting' = [t \in Topics |-> IF t \in T THEN {} ELSE waiting[t]]

Gone(c) ==
    /\ c \in served
    /\ served' = served \ {c}
    /\ UNCHANGED waiting

Next ==
    \/ \E c \in Clients : Gone(c) \/ \E t \in Topics : Wait(c, t)
    \/ \E T \in SUBSET Topics : Publish(T)

Spec == Init /\ [][Next]_vars

=============================================================================
