------------------------------ MODULE MCScript ------------------------------
(***************************************************************************)
(* An instance of ScriptRuntime for TLC.                                   *)
(***************************************************************************)
EXTENDS ScriptRuntime

CONSTANTS a, b
=============================================================================
