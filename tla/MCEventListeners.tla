-------------------------- MODULE MCEventListeners --------------------------
(* EventListeners with few owners and ids, for TLC. *)
EXTENDS EventListeners

CONSTANTS o1, o2, o3

ThreeOwners == { o1, o2, o3 }
ZeroId == { 0 }

=============================================================================
