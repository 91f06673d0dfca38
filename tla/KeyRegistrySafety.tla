--------------------------- MODULE KeyRegistrySafety ---------------------------
(***************************************************************************)
(* What the registry of contracts/src/KeyRegistry.sol must never do, and   *)
(* what it must eventually do.                                             *)
(***************************************************************************)
EXTENDS KeyRegistry

\* The type of every storage slot and of the history.
RegistryTypeOK ==
  /\ now \in Nat \ {0}
  /\ attestors \in Seq(Attestor)
  /\ isAttestor \subseteq Attestor
  /\ records \in [ Record -> [ firstAttestedAt : Nat, validUntil : Nat,
                               attestationCount : Nat, rotationAttestationCount : Nat,
                               contested : BOOLEAN ] ]
  /\ hasAttested \subseteq Record \X Attestor
  /\ hasRotated \subseteq Record \X Attestor
  /\ changes \in Nat

AttestedBy(r) == { a \in Attestor : <<r, a>> \in hasAttested }
RotatedBy(r)  == { a \in Attestor : <<r, a>> \in hasRotated }

\* The array and the mapping of attestors name the same addresses, each once,
\* and never fewer than the quorum.
AttestorsMirrored ==
  /\ Members(attestors) = isAttestor
  /\ Distinct(attestors)
  /\ Len(attestors) >= Quorum

\* The two counters of a record count distinct addresses, whoever was removed
\* or added again since; the record exists from its first attestation on and
\* is rotated from the quorum of rotation attestations on.
LedgerCounts ==
  \A r \in Record :
    /\ records[r].attestationCount = Cardinality(AttestedBy(r))
    /\ records[r].rotationAttestationCount = Cardinality(RotatedBy(r))
    /\ Known(r) <=> records[r].attestationCount # 0
    /\ records[r].validUntil # 0 <=> records[r].rotationAttestationCount >= Quorum
    /\ records[r].rotationAttestationCount # 0 => Known(r)
    /\ records[r].validUntil # 0 => records[r].validUntil >= records[r].firstAttestedAt

\* No governance history stalls a record: the attestations it has and those
\* the present attestors can still give make a quorum, for its use and for its
\* rotation.
QuorumWithinReach ==
  \A r \in Record :
    /\ records[r].attestationCount + Cardinality(isAttestor \ AttestedBy(r)) >= Quorum
    /\ records[r].rotationAttestationCount + Cardinality(isAttestor \ RotatedBy(r)) >= Quorum

\* The one-way door: a key whose grace has run out is never usable again, by
\* whatever attestation, contest, uncontest or change of attestors.
Expired(r) ==
  records[r].validUntil # 0 /\ now > records[r].validUntil + GraceWindow

ExpiredKeysStayDead ==
  [][ \A r \in Record : Expired(r) => Expired(r)' /\ ~IsKeyUsable(r)' ]_registryVars

\* No step makes an unusable key usable but the passing of time, an attestation
\* that completes a quorum, and the owner lifting a contest: never an attestor
\* alone, and a removal or an addition never.
BecomesUsable(r) == ~IsKeyUsable(r) /\ IsKeyUsable(r)'

OnlyQuorumOwnerOrTimeRevives ==
  [][ \A r \in Record : BecomesUsable(r) =>
        \/ now' > now
        \/ Uncontest(r)
        \/ Cardinality(AttestedBy(r)) = Quorum - 1 ]_registryVars

-------------------------------------------------------------------------------
(* The inductive invariant *)

\* Clocks start in the past.
ClocksInThePast ==
  \A r \in Record : records[r].firstAttestedAt <= now /\ records[r].validUntil <= now

RegistryIInv ==
  /\ RegistryTypeOK
  /\ AttestorsMirrored
  /\ LedgerCounts
  /\ ClocksInThePast

-------------------------------------------------------------------------------
(* Liveness *)

CONSTANTS
  Running,  \* attestors whose keeper is run again and again, for good
  Served    \* records whose key its provider serves, from now on for good

ASSUME KeepersAssumption == Running \subseteq Attestor /\ Served \subseteq FieldRecord

\* A keeper that is run plans an attestation of every key it finds served and
\* not in its own state file (contracts/script/keeper.mjs:123-132), and a key
\* gets into the file only once it is attested (SeenIsOnChain): it tries again
\* until the chain takes it.  Of other attestors and of keys that are dropped
\* nothing is promised.
ServedFairness ==
  \A a \in Running, r \in Served : WF_registryVars(Attest(a, r))

FairRegistrySpec == RegistrySpec /\ ServedFairness

\* A key that stays served collects its quorum if a quorum of the attestors run
\* their keepers and are not removed for good: no contest, rotation, removal or
\* addition of others, and none of the attestors that do nothing, keeps it from
\* that.
ServedKeysReachQuorum ==
  <>[](Cardinality(isAttestor \cap Running) >= Quorum)
    => \A r \in Served : <>(records[r].attestationCount >= Quorum)

===============================================================================
