--------------------------- MODULE MCHttpsDownload ----------------------------
(* Instances of HttpsDownload for TLC. *)
EXTENDS HttpsDownload
=============================================================================
