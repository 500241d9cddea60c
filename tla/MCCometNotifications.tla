------------------------ MODULE MCCometNotifications ------------------------
(* CometNotifications on small sets of connections, for TLC. *)
EXTENDS CometNotifications

CONSTANTS c1, c2, c3

TwoClients == { c1, c2 }
ThreeClients == { c1, c2, c3 }

(* Nothing goes wrong, or everything may; only the debug records. *)
NoneOrAll == { {}, Faults }
DebugLogOnly == { { "debug_log" } }

=============================================================================
