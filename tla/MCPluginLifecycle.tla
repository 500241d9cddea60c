------------------------- MODULE MCPluginLifecycle -------------------------
(* PluginLifecycle for TLC: an uninitialized first id of few values. *)
EXTENDS PluginLifecycle

AnyId == 0..(IdCount - 1)

=============================================================================
