---------------------------- MODULE MCSendEngine ----------------------------
(* Small instances of the send engine, see the .cfg file: a founding key   *)
(* w and a key d on the roster of its wallet.                              *)
EXTENDS SendEngineSafety, TLC

CONSTANTS w, d, s1

MCWalletOf == [k \in Keys |-> IF k = d THEN w ELSE k]
MCWallets == {MCWalletOf[k] : k \in Keys}
OneStore == [p \in Pages |-> s1]
FounderAndDevice == [p \in Pages |-> {w, d}]

Symmetry == Permutations(Jobs \ Simulations)
=============================================================================
