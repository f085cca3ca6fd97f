--------------------------- MODULE MCProxyManager ---------------------------
(* The numbers are in the .cfg. *)
EXTENDS ProxyManager
=============================================================================
