---------------------------- MODULE MCPlatform -----------------------------
(* Platform on small instances: heartbeats are sent every 30 s and the TTL *)
(* is 90 s; the operating system has one configuration, started up to two  *)
(* times with an addition by hand.                                         *)
EXTENDS Platform
=============================================================================
