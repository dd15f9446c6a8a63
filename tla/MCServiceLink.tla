---------------------------- MODULE MCServiceLink ----------------------------
(* Small instances of ServiceLink for TLC.                                 *)
EXTENDS ServiceLink
=============================================================================
