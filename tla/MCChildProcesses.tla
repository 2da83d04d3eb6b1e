--------------------------- MODULE MCChildProcesses ---------------------------
(***************************************************************************)
(* Instances of ChildProcesses: two clients, one more that is refused, and *)
(* enough processes for two p7zip operations beside a server.              *)
(***************************************************************************)
EXTENDS ChildProcesses

=============================================================================
