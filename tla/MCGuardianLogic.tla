--------------------------- MODULE MCGuardianLogic ---------------------------
(* Small instances of GuardianLogicSafety for TLC. *)
EXTENDS GuardianLogicSafety, TLC

\* Guardians are interchangeable unless some of them sign; keys always are.
Symmetry == Permutations(Guardian \ Signer) \cup Permutations(Signer) \cup Permutations(Key)
===============================================================================
