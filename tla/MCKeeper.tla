------------------------------- MODULE MCKeeper -------------------------------
(***************************************************************************)
(* Small worlds of keepers for TLC.                                        *)
(***************************************************************************)
EXTENDS Keeper

MCRecord == Kid \X Hash
===============================================================================
