---------------------------- MODULE MCQuarantine ----------------------------
(* Small instances of Quarantine for TLC.                                  *)
EXTENDS Quarantine

CONSTANTS sha1, sha2, op1
=============================================================================
