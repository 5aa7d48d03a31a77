---------------------------- MODULE MCGetResponse ----------------------------
(* GetResponse for TLC.                                                     *)
EXTENDS GetResponse
=============================================================================
