--------------------------- MODULE MCRuntimeLog ---------------------------
(***************************************************************************)
(* Two writers and one observer for RuntimeLog.  Two keys and a body of    *)
(* each kind give repeats, clashes of content under one key, and the same  *)
(* body under two keys.                                                    *)
(***************************************************************************)
EXTENDS RuntimeLog, TLC
=============================================================================
