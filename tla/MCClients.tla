----------------------------- MODULE MCClients -----------------------------
(* Small instances of Clients for TLC.                                      *)
EXTENDS Clients, TLC
=============================================================================
