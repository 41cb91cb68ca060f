----------------------------- MODULE MCNiceCore -----------------------------
(***************************************************************************)
(* Small instances of NiceCore for TLC: sequences of a few operations.     *)
(***************************************************************************)
EXTENDS NiceCore

AllOps   == {"LBUF", "SBUF", "ROWSUM"}
Anywhere == AllOps \cup {"IDLE"}
=============================================================================
