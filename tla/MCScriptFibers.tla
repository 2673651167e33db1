---------------------------- MODULE MCScriptFibers ----------------------------
(* Small instances of ScriptFibers for TLC. *)
EXTENDS ScriptFibers

CONSTANTS f1, f2, backend, j1, j2, j3

\* main.cpp creates the fiber pool before it registers its two own scripts.
PoolFirst == <<f1, f2, backend>>
==============================================================================
