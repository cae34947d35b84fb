--------------------------- MODULE MCLwwReplicas ---------------------------
(* Two devices and the server, fields and values small enough that stamps  *)
(* tie across devices.                                                     *)
EXTENDS LwwReplicas
=============================================================================
