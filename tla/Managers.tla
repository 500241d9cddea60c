------------------------------ MODULE Managers ------------------------------
(***************************************************************************)
(* The plugin creates the one manager that fits AIMP's version: the one    *)
(* for AIMP 2 looks for changes itself, the others wait for AIMP's calls.  *)
(***************************************************************************)
EXTENDS PlaylistMirror, PeriodicMirror

LooksItself == aimp.manager = "2.6"

ManagersInit ==
    /\ Init
    /\ PeriodicInit
    /\ user.fails = aimp.fails

ManagersNext ==
    \/ ~LooksItself /\ Next /\ UNCHANGED pvars
    \/ LooksItself /\ PeriodicNext /\ UNCHANGED vars

(* Time passes and the tick polls the io_service. *)
ManagersFairness ==
    /\ Fairness
    /\ WF_pvars(LooksItself /\ Check)

ManagersSpec ==
    /\ ManagersInit
    /\ [][ManagersNext]_<< vars, pvars >>
    /\ ManagersFairness

=============================================================================
