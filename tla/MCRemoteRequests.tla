--------------------------- MODULE MCRemoteRequests ---------------------------
(* Instances of RemoteRequests for TLC: every pair of requests in one session, *)
(* and file creations with a hash alone.                                      *)
EXTENDS RemoteRequests

MCAllRequests == AllRequests
=============================================================================
