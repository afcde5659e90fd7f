--------------------------- MODULE MCProxyWrapper ---------------------------
(* ProxyWrapper for TLC. *)
EXTENDS ProxyWrapper
=============================================================================
