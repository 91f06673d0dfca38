--------------------------- MODULE MCSharedOrigin ---------------------------
(* Small instances of the popup channel and the connection, see the .cfg   *)
(* files.  No definition tells one open or one passkey from another, and   *)
(* the runs check invariants only, so that both sets are symmetric.        *)
EXTENDS SharedOriginSafety, TLC

Symmetry == Permutations(Opens) \cup Permutations(Passkeys)
=============================================================================
