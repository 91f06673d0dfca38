--------------------------- MODULE MCWalletPages ----------------------------
(***************************************************************************)
(* The two pages with named instances.  People and devices are             *)
(* interchangeable.                                                        *)
(***************************************************************************)
EXTENDS WalletPages, TLC

Symmetry == Permutations(People) \cup Permutations(Devices)
=============================================================================
