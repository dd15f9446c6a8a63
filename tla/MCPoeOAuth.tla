----------------------------- MODULE MCPoeOAuth -----------------------------
(* Small instances of PoeOAuth for TLC.                                    *)
EXTENDS PoeOAuth
=============================================================================
