--------------------------- MODULE MCCdcHandshake ---------------------------
(***************************************************************************)
(* CdcHandshake for TLC, with a few model values for the words.            *)
(***************************************************************************)
EXTENDS CdcHandshake
=============================================================================
