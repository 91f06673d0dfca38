---------------------------- MODULE MCOidcRecovery ----------------------------
(***************************************************************************)
(* Small worlds of an identity, a wallet and a registry for TLC.           *)
(***************************************************************************)
EXTENDS OidcRecovery, TLC

OidcSymmetry == Permutations(Attestor) \cup Permutations(Identity) \cup Permutations(Key)
===============================================================================
