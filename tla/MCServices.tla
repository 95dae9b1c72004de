---------------------------- MODULE MCServices -----------------------------
(* ServiceAccess on a small instance: the values are in the .cfg file.  A  *)
(* human may name a provider that nobody knows; calls may set the provider *)
(* and its model together.                                                 *)
EXTENDS ServiceAccess
=============================================================================
