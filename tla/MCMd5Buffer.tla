----------------------------- MODULE MCMd5Buffer -----------------------------
(* Md5Buffer for TLC: blocks of four bytes, two of them for the length.     *)
EXTENDS Md5Buffer
=============================================================================
