----------------------------- MODULE MCTlsSession -----------------------------
(***************************************************************************)
(* TLS sessions on small instances: a record of three bytes against a ring *)
(* buffer that holds two.                                                  *)
(***************************************************************************)
EXTENDS TlsSession

MCAllItems == {3, NOTIFY, FATAL, BAD}
=============================================================================
