---------------------------- MODULE MCPluginHost ----------------------------
(* One plugin and its callers for model checking. *)
EXTENDS PluginHost
=============================================================================
