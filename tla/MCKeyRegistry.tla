----------------------------- MODULE MCKeyRegistry -----------------------------
(***************************************************************************)
(* Small registries for TLC.                                               *)
(***************************************************************************)
EXTENDS KeyRegistrySafety, TLC

===============================================================================
