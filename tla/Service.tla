------------------------------- MODULE Service -------------------------------
(***************************************************************************)
(* The io_service that the plugin's tick polls.  The timers of RPC methods *)
(* share it: an exception that leaves the handler of one ends the poll and *)
(* stops the io_service for all of them.                                   *)
(***************************************************************************)

VARIABLE serving   \* the tick runs and the io_service is not stopped

=============================================================================
