--------------------------- MODULE MCClientService ---------------------------
(* ClientService for TLC. *)
EXTENDS ClientService
=============================================================================
