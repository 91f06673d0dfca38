----------------------------- MODULE AddressArray -----------------------------
(***************************************************************************)
(* An array of addresses without repetitions, kept beside a mapping that   *)
(* says who is in it: the guardians of contracts/src/GuardianLogic.sol and *)
(* the attestors of contracts/src/KeyRegistry.sol.                         *)
(***************************************************************************)
EXTENDS Integers, Sequences

Members(s) == { s[i] : i \in 1..Len(s) }

Distinct(s) == \A i, j \in 1..Len(s) : s[i] = s[j] => i = j

\* The arrays over S without repetitions, of at most max elements.
ArraysOf(S, max) == { s \in UNION { [1..n -> S] : n \in 1..max } : Distinct(s) }

\* Removal of x: the last element moves into its place, and the array is popped.
SwapPop(s, x) ==
  [ i \in 1..(Len(s) - 1) |-> IF s[i] = x THEN s[Len(s)] ELSE s[i] ]
===============================================================================
