-------------------------- MODULE KeyRegistryProofs ---------------------------
(***************************************************************************)
(* Proofs about the registry of provider keys, about recovery by an        *)
(* identity, which asks it, and about the keepers, which fill it: for      *)
(* every set of attestors, records, keys and identities, every quorum,     *)
(* window and delay, and every bound.                                      *)
(***************************************************************************)
EXTENDS OidcRecovery, KeyRegistrySafety, Keeper, FiniteSetTheorems, WellFoundedInduction, TLAPS

\* What is proved of the wallet alone.
Alone == INSTANCE GuardianLogicProofs WITH Signer <- {}

LEMMA AloneAssumptions ==
  /\ Alone!GuardianAssumption /\ Alone!KeyAssumption /\ Alone!DelayAssumption
  /\ Alone!InputAssumption /\ Alone!BoundAssumption
BY WalletAssumption, RegistryBoundAssumption
   DEF Alone!GuardianAssumption, Alone!KeyAssumption, Alone!DelayAssumption, Alone!InputAssumption,
       Alone!BoundAssumption, Alone!IsFiniteSet, IsFiniteSet

LEMMA SameHelpers ==
  /\ \A S : Wallet!Cardinality(S) = Alone!Cardinality(S)
  /\ \A S : Cardinality(S) = Alone!Cardinality(S)
  /\ \A s : Wallet!Members(s) = Alone!Members(s)
  /\ \A s, a : Wallet!SwapPop(s, a) = Alone!SwapPop(s, a)
  /\ \A S, n : Wallet!ArraysOf(S, n) = Alone!ArraysOf(S, n)
<1>1. \A S : Wallet!Cardinality(S) = Alone!Cardinality(S)
  BY DEF Wallet!Cardinality, Alone!Cardinality
<1>2. \A S : Cardinality(S) = Alone!Cardinality(S)
  BY DEF Cardinality, Alone!Cardinality
<1>3. \A s : Wallet!Members(s) = Alone!Members(s)
  BY DEF Wallet!Members, Alone!Members
<1>4. \A s, a : Wallet!SwapPop(s, a) = Alone!SwapPop(s, a)
  BY DEF Wallet!SwapPop, Alone!SwapPop
<1>5. \A S, n : Wallet!ArraysOf(S, n) = Alone!ArraysOf(S, n)
  BY DEF Wallet!ArraysOf, Alone!ArraysOf, Wallet!Distinct, Alone!Distinct
<1> QED
  BY <1>1, <1>2, <1>3, <1>4, <1>5

\* What the wallet's proofs say of the arrays both contracts keep.
LEMMA SameArrays ==
  /\ \A s : Members(s) = Alone!Members(s)
  /\ \A s : Distinct(s) <=> Alone!Distinct(s)
  /\ \A s, a : SwapPop(s, a) = Alone!SwapPop(s, a)
  /\ \A S : IsFiniteSet(S) <=> Alone!IsFiniteSet(S)
<1>1. \A s : Members(s) = Alone!Members(s)
  BY DEF Members, Alone!Members
<1>2. \A s : Distinct(s) <=> Alone!Distinct(s)
  BY DEF Distinct, Alone!Distinct
<1>3. \A s, a : SwapPop(s, a) = Alone!SwapPop(s, a)
  BY DEF SwapPop, Alone!SwapPop
<1>4. \A S : IsFiniteSet(S) <=> Alone!IsFiniteSet(S)
  BY DEF IsFiniteSet, Alone!IsFiniteSet
<1> QED
  BY <1>1, <1>2, <1>3, <1>4

LEMMA SwapPopRemoves ==
  ASSUME NEW S, NEW s \in Seq(S), NEW g \in Members(s), Distinct(s)
  PROVE  /\ SwapPop(s, g) \in Seq(S)
         /\ Len(SwapPop(s, g)) = Len(s) - 1
         /\ Members(SwapPop(s, g)) = Members(s) \ {g}
         /\ Distinct(SwapPop(s, g))
BY SameArrays, AloneAssumptions, Alone!SwapPopRemoves

LEMMA DistinctLength ==
  ASSUME NEW S, NEW s \in Seq(S), Distinct(s)
  PROVE  IsFiniteSet(Members(s)) /\ Cardinality(Members(s)) = Len(s)
BY SameArrays, SameHelpers, AloneAssumptions, Alone!DistinctLength

LEMMA ArraysAreDistinct ==
  ASSUME NEW S, NEW max \in Nat, NEW s \in ArraysOf(S, max)
  PROVE  s \in Seq(S) /\ Distinct(s) /\ Members(s) \subseteq S
BY AloneAssumptions, Alone!ArraysAreDistinct
   DEF Members, Distinct, ArraysOf, Alone!Members, Alone!Distinct, Alone!ArraysOf

LEMMA AppendAdds ==
  ASSUME NEW S, NEW s \in Seq(S), NEW x \in S, x \notin Members(s), Distinct(s)
  PROVE  /\ Append(s, x) \in Seq(S)
         /\ Len(Append(s, x)) = Len(s) + 1
         /\ Members(Append(s, x)) = Members(s) \cup {x}
         /\ Distinct(Append(s, x))
BY AloneAssumptions, Alone!AppendAdds DEF Members, Distinct, Alone!Members, Alone!Distinct

(***************************************************************************)
(* The registry.                                                           *)
(***************************************************************************)

KeyRecord ==
  [ firstAttestedAt : Nat, validUntil : Nat, attestationCount : Nat,
    rotationAttestationCount : Nat, contested : BOOLEAN ]

\* Sets of attestors are finite, so attestations can be counted.
LEMMA AttestorsFinite ==
  \A S \in SUBSET Attestor : IsFiniteSet(S) /\ Cardinality(S) \in Nat
  BY AttestorAssumption, FS_Subset, FS_CardinalityType

\* What a change of the records must keep, one record at a time.
RecordSound(rec, attested, rotated, t) ==
  /\ rec.attestationCount = Cardinality(attested)
  /\ rec.rotationAttestationCount = Cardinality(rotated)
  /\ rec.firstAttestedAt # 0 <=> rec.attestationCount # 0
  /\ rec.validUntil # 0 <=> rec.rotationAttestationCount >= Quorum
  /\ rec.rotationAttestationCount # 0 => rec.firstAttestedAt # 0
  /\ rec.validUntil # 0 => rec.validUntil >= rec.firstAttestedAt
  /\ rec.firstAttestedAt <= t /\ rec.validUntil <= t

LEMMA RecordsSound ==
  LedgerCounts /\ ClocksInThePast
    <=> \A r \in Record : RecordSound(records[r], AttestedBy(r), RotatedBy(r), now)
  BY DEF LedgerCounts, ClocksInThePast, RecordSound, Known

LEMMA RecordsSoundNext ==
  (\A r \in Record : RecordSound(records'[r], AttestedBy(r)', RotatedBy(r)', now'))
    => LedgerCounts' /\ ClocksInThePast'
  BY DEF LedgerCounts, ClocksInThePast, RecordSound, Known

\* Nothing a change of attestors, or the passing of time, can disturb.
LEMMA LedgerFrame ==
  ASSUME RegistryIInv, UNCHANGED <<records, hasAttested, hasRotated>>,
         now' \in Nat, now <= now'
  PROVE  /\ LedgerCounts' /\ ClocksInThePast'
         /\ records' \in [Record -> KeyRecord]
         /\ hasAttested' \subseteq Record \X Attestor
         /\ hasRotated' \subseteq Record \X Attestor
<1>1. RegistryTypeOK /\ LedgerCounts /\ ClocksInThePast
  BY DEF RegistryIInv
<1>2. \A r \in Record : AttestedBy(r)' = AttestedBy(r) /\ RotatedBy(r)' = RotatedBy(r)
  BY DEF AttestedBy, RotatedBy
<1>3. now \in Nat /\ records \in [Record -> KeyRecord]
  BY <1>1 DEF RegistryTypeOK, KeyRecord
<1>4. LedgerCounts'
  BY <1>1, <1>2 DEF LedgerCounts, Known
<1>5. \A r \in Record : records[r].firstAttestedAt <= now' /\ records[r].validUntil <= now'
  <2> SUFFICES ASSUME NEW r \in Record
               PROVE  records[r].firstAttestedAt <= now' /\ records[r].validUntil <= now'
    OBVIOUS
  <2>1. records[r].firstAttestedAt \in Nat /\ records[r].validUntil \in Nat
    BY <1>3 DEF KeyRecord
  <2>2. records[r].firstAttestedAt <= now /\ records[r].validUntil <= now
    BY <1>1 DEF ClocksInThePast
  <2> QED
    BY <2>1, <2>2, <1>3
<1> QED
  BY <1>1, <1>3, <1>4, <1>5 DEF RegistryTypeOK, ClocksInThePast

LEMMA RegistryInitEstablishes == RegistryInit => RegistryIInv
<1> SUFFICES ASSUME RegistryInit PROVE RegistryIInv
  OBVIOUS
<1>1. Cardinality(Attestor) \in Nat
  BY AttestorsFinite
<1>2. attestors \in Seq(Attestor) /\ Distinct(attestors) /\ Members(attestors) \subseteq Attestor
  BY <1>1, ArraysAreDistinct DEF RegistryInit
<1>3. RegistryTypeOK
  BY <1>2 DEF RegistryInit, RegistryTypeOK, NoRecord
<1>4. AttestorsMirrored
  BY <1>2, WindowAssumption DEF RegistryInit, AttestorsMirrored
<1>5. \A r \in Record : AttestedBy(r) = {} /\ RotatedBy(r) = {} /\ records[r] = NoRecord
  BY DEF RegistryInit, AttestedBy, RotatedBy
<1>6. LedgerCounts /\ ClocksInThePast
  <2>1. Cardinality({}) = 0 /\ ~(0 >= Quorum)
    BY FS_EmptySet, WindowAssumption
  <2>2. \A r \in Record : RecordSound(records[r], AttestedBy(r), RotatedBy(r), now)
    <3> SUFFICES ASSUME NEW r \in Record
                 PROVE  RecordSound(NoRecord, {}, {}, now)
      BY <1>5
    <3>1. /\ NoRecord.firstAttestedAt = 0 /\ NoRecord.validUntil = 0
          /\ NoRecord.attestationCount = 0 /\ NoRecord.rotationAttestationCount = 0
      BY DEF NoRecord
    <3>2. now = 1
      BY DEF RegistryInit
    <3> QED
      BY <2>1, <3>1, <3>2 DEF RecordSound
  <2> QED
    BY <2>2, RecordsSound
<1> QED
  BY <1>3, <1>4, <1>6 DEF RegistryIInv

LEMMA AddAttestorStep ==
  ASSUME RegistryIInv, NEW a \in Attestor, AddAttestor(a)
  PROVE  RegistryIInv'
<1>1. RegistryTypeOK /\ AttestorsMirrored
  BY DEF RegistryIInv
<1>2. /\ a \notin isAttestor /\ isAttestor' = isAttestor \cup {a}
      /\ attestors' = Append(attestors, a) /\ changes' = changes + 1
      /\ UNCHANGED <<now, records, hasAttested, hasRotated>>
  BY DEF AddAttestor
<1>3. /\ attestors' \in Seq(Attestor) /\ Len(attestors') = Len(attestors) + 1
      /\ Members(attestors') = isAttestor' /\ Distinct(attestors')
  BY <1>1, <1>2, AppendAdds DEF RegistryTypeOK, AttestorsMirrored
<1>4. AttestorsMirrored'
  <2>1. Len(attestors) \in Nat /\ Len(attestors) >= Quorum
    BY <1>1 DEF RegistryTypeOK, AttestorsMirrored
  <2> QED
    BY <2>1, <1>3, WindowAssumption DEF AttestorsMirrored
<1>5. now' \in Nat \ {0} /\ now <= now'
  BY <1>1, <1>2 DEF RegistryTypeOK
<1>6. /\ LedgerCounts' /\ ClocksInThePast' /\ records' \in [Record -> KeyRecord]
      /\ hasAttested' \subseteq Record \X Attestor /\ hasRotated' \subseteq Record \X Attestor
  BY <1>2, <1>5, LedgerFrame
<1> QED
  BY <1>1, <1>2, <1>3, <1>4, <1>5, <1>6 DEF RegistryIInv, RegistryTypeOK, KeyRecord

LEMMA RemoveAttestorStep ==
  ASSUME RegistryIInv, NEW a \in Attestor, RemoveAttestor(a)
  PROVE  RegistryIInv'
<1>1. RegistryTypeOK /\ AttestorsMirrored
  BY DEF RegistryIInv
<1>2. /\ a \in isAttestor /\ isAttestor' = isAttestor \ {a}
      /\ Len(attestors) - 1 >= Quorum
      /\ attestors' = SwapPop(attestors, a) /\ changes' = changes + 1
      /\ UNCHANGED <<now, records, hasAttested, hasRotated>>
  BY DEF RemoveAttestor
<1>3. /\ attestors' \in Seq(Attestor) /\ Len(attestors') = Len(attestors) - 1
      /\ Members(attestors') = isAttestor' /\ Distinct(attestors')
  BY <1>1, <1>2, SwapPopRemoves DEF RegistryTypeOK, AttestorsMirrored
<1>4. AttestorsMirrored'
  BY <1>2, <1>3 DEF AttestorsMirrored
<1>5. now' \in Nat \ {0} /\ now <= now'
  BY <1>1, <1>2 DEF RegistryTypeOK
<1>6. /\ LedgerCounts' /\ ClocksInThePast' /\ records' \in [Record -> KeyRecord]
      /\ hasAttested' \subseteq Record \X Attestor /\ hasRotated' \subseteq Record \X Attestor
  BY <1>2, <1>5, LedgerFrame
<1> QED
  BY <1>1, <1>2, <1>3, <1>4, <1>5, <1>6 DEF RegistryIInv, RegistryTypeOK, KeyRecord

\* A transaction of an attestor, or a lifted contest, touches one record: the
\* rest of the ledger stays, so that record must be sound.
LEMMA RecordStep ==
  ASSUME RegistryIInv, NEW r \in Record, NEW rec \in KeyRecord,
         UNCHANGED <<now, rosterVars>>,
         records' = [records EXCEPT ![r] = rec],
         hasAttested' \subseteq Record \X Attestor,
         hasRotated' \subseteq Record \X Attestor,
         \A q \in Record \ {r} : AttestedBy(q)' = AttestedBy(q) /\ RotatedBy(q)' = RotatedBy(q),
         RecordSound(rec, AttestedBy(r)', RotatedBy(r)', now)
  PROVE  RegistryIInv'
<1>1. RegistryTypeOK /\ AttestorsMirrored /\ LedgerCounts /\ ClocksInThePast
  BY DEF RegistryIInv
<1>2. records \in [Record -> KeyRecord]
  BY <1>1 DEF RegistryTypeOK, KeyRecord
<1>3. records' \in [Record -> KeyRecord]
  BY <1>2
<1>4. AttestorsMirrored'
  BY <1>1 DEF AttestorsMirrored, rosterVars
<1>5. \A q \in Record : RecordSound(records'[q], AttestedBy(q)', RotatedBy(q)', now')
  <2> SUFFICES ASSUME NEW q \in Record
               PROVE  RecordSound(records'[q], AttestedBy(q)', RotatedBy(q)', now)
    OBVIOUS
  <2>1. CASE q = r
    BY <2>1, <1>2
  <2>2. CASE q # r
    <3>1. records'[q] = records[q] /\ AttestedBy(q)' = AttestedBy(q) /\ RotatedBy(q)' = RotatedBy(q)
      BY <2>2, <1>2
    <3>2. RecordSound(records[q], AttestedBy(q), RotatedBy(q), now)
      BY <1>1, RecordsSound
    <3> QED
      BY <3>1, <3>2
  <2> QED
    BY <2>1, <2>2
<1>6. LedgerCounts' /\ ClocksInThePast'
  BY <1>5, RecordsSoundNext
<1>7. RegistryTypeOK'
  BY <1>1, <1>3 DEF RegistryTypeOK, KeyRecord, rosterVars
<1> QED
  BY <1>4, <1>6, <1>7 DEF RegistryIInv

\* Lifting or raising a contest changes nothing that is counted.
LEMMA ContestStep ==
  ASSUME RegistryIInv, NEW r \in Record, NEW frozen \in BOOLEAN,
         records' = [records EXCEPT ![r].contested = frozen],
         UNCHANGED <<now, rosterVars, hasAttested, hasRotated>>
  PROVE  RegistryIInv'
<1> DEFINE rec == [records[r] EXCEPT !.contested = frozen]
<1>1. RegistryTypeOK /\ LedgerCounts /\ ClocksInThePast
  BY DEF RegistryIInv
<1>2. records[r] \in KeyRecord
  BY <1>1 DEF RegistryTypeOK, KeyRecord
<1>3. rec \in KeyRecord
  BY <1>2 DEF KeyRecord
<1>4. records' = [records EXCEPT ![r] = rec]
  OBVIOUS
<1>5. \A q \in Record : AttestedBy(q)' = AttestedBy(q) /\ RotatedBy(q)' = RotatedBy(q)
  BY DEF AttestedBy, RotatedBy
<1>6. RecordSound(records[r], AttestedBy(r), RotatedBy(r), now)
  BY <1>1, RecordsSound
<1>7. RecordSound(rec, AttestedBy(r)', RotatedBy(r)', now)
  BY <1>2, <1>5, <1>6 DEF RecordSound, KeyRecord
<1> HIDE DEF rec
<1> QED
  BY <1>1, <1>3, <1>4, <1>5, <1>7, RecordStep DEF RegistryTypeOK

LEMMA AttestStep ==
  ASSUME RegistryIInv, NEW a \in Attestor, NEW r \in Record, Attest(a, r)
  PROVE  RegistryIInv'
<1> DEFINE old   == records[r]
           start == IF old.firstAttestedAt = 0 THEN now ELSE old.firstAttestedAt
           rec   == [old EXCEPT !.firstAttestedAt = start, !.attestationCount = old.attestationCount + 1]
<1>1. RegistryTypeOK /\ LedgerCounts /\ ClocksInThePast
  BY DEF RegistryIInv
<1>2. /\ <<r, a>> \notin hasAttested /\ hasAttested' = hasAttested \cup {<<r, a>>}
      /\ records' = [records EXCEPT ![r] = rec]
      /\ UNCHANGED <<now, rosterVars, hasRotated>>
  BY DEF Attest, MayAttest
<1>3. old \in KeyRecord /\ now \in Nat \ {0}
  BY <1>1 DEF RegistryTypeOK, KeyRecord
<1>4. /\ rec \in KeyRecord
      /\ rec.firstAttestedAt = start /\ rec.attestationCount = old.attestationCount + 1
      /\ rec.validUntil = old.validUntil
      /\ rec.rotationAttestationCount = old.rotationAttestationCount
  <2>1. start \in Nat /\ old.attestationCount + 1 \in Nat
    BY <1>3 DEF KeyRecord
  <2> HIDE DEF start, old
  <2> QED
    BY <2>1, <1>3 DEF KeyRecord
<1>5. /\ a \notin AttestedBy(r) /\ AttestedBy(r)' = AttestedBy(r) \cup {a}
      /\ \A q \in Record \ {r} : AttestedBy(q)' = AttestedBy(q)
      /\ \A q \in Record : RotatedBy(q)' = RotatedBy(q)
  BY <1>2 DEF AttestedBy, RotatedBy
<1>6. RecordSound(old, AttestedBy(r), RotatedBy(r), now)
  BY <1>1, RecordsSound
<1>7. Cardinality(AttestedBy(r)') = old.attestationCount + 1
  <2>1. IsFiniteSet(AttestedBy(r))
    BY AttestorsFinite DEF AttestedBy
  <2> QED
    BY <2>1, <1>5, <1>6, FS_AddElement DEF RecordSound
<1>8. /\ rec.attestationCount = old.attestationCount + 1
      /\ rec.rotationAttestationCount = old.rotationAttestationCount
      /\ rec.validUntil = old.validUntil
      /\ rec.firstAttestedAt = IF old.firstAttestedAt = 0 THEN now ELSE old.firstAttestedAt
  BY <1>4
<1>9. /\ old.firstAttestedAt \in Nat /\ old.validUntil \in Nat /\ old.attestationCount \in Nat
      /\ old.rotationAttestationCount \in Nat
  BY <1>3 DEF KeyRecord
<1>10. old.firstAttestedAt = 0 => old.rotationAttestationCount = 0 /\ old.validUntil = 0
  <2>1. ~(0 >= Quorum)
    BY WindowAssumption
  <2> QED
    BY <2>1, <1>6 DEF RecordSound
<1>11. RecordSound(rec, AttestedBy(r)', RotatedBy(r)', now)
  <2>1. rec.attestationCount = Cardinality(AttestedBy(r)') /\ rec.attestationCount # 0
    BY <1>7, <1>8, <1>9
  <2>2. rec.rotationAttestationCount = Cardinality(RotatedBy(r)')
    BY <1>5, <1>6, <1>8 DEF RecordSound
  <2>3. rec.firstAttestedAt # 0 /\ rec.firstAttestedAt <= now
    BY <1>3, <1>6, <1>8 DEF RecordSound
  <2>4. rec.validUntil # 0 <=> rec.rotationAttestationCount >= Quorum
    BY <1>6, <1>8 DEF RecordSound
  <2>5. rec.validUntil # 0 => rec.validUntil >= rec.firstAttestedAt
    BY <1>6, <1>8, <1>10 DEF RecordSound
  <2>6. rec.validUntil <= now
    BY <1>6, <1>8 DEF RecordSound
  <2> HIDE DEF rec
  <2> QED
    BY <2>1, <2>2, <2>3, <2>4, <2>5, <2>6 DEF RecordSound
<1>12. hasAttested' \subseteq Record \X Attestor /\ hasRotated' \subseteq Record \X Attestor
  BY <1>1, <1>2 DEF RegistryTypeOK
<1> HIDE DEF rec, old
<1> QED
  BY <1>2, <1>4, <1>5, <1>11, <1>12, RecordStep

LEMMA AttestRotatedStep ==
  ASSUME RegistryIInv, NEW a \in Attestor, NEW r \in Record, AttestRotated(a, r)
  PROVE  RegistryIInv'
<1> DEFINE old == records[r]
           stamp == IF old.rotationAttestationCount + 1 >= Quorum THEN now ELSE old.validUntil
           rec == [old EXCEPT !.rotationAttestationCount = old.rotationAttestationCount + 1,
                              !.validUntil = stamp]
<1>1. RegistryTypeOK /\ LedgerCounts /\ ClocksInThePast
  BY DEF RegistryIInv
<1>2. /\ Known(r) /\ old.validUntil = 0
      /\ <<r, a>> \notin hasRotated /\ hasRotated' = hasRotated \cup {<<r, a>>}
      /\ records' = [records EXCEPT ![r] = rec]
      /\ UNCHANGED <<now, rosterVars, hasAttested>>
  BY DEF AttestRotated, MayAttestRotated
<1>3. old \in KeyRecord /\ now \in Nat \ {0}
  BY <1>1 DEF RegistryTypeOK, KeyRecord
<1>4. /\ rec.firstAttestedAt = old.firstAttestedAt /\ rec.validUntil = stamp
      /\ rec.attestationCount = old.attestationCount
      /\ rec.rotationAttestationCount = old.rotationAttestationCount + 1
      /\ rec \in KeyRecord
  <2>1. stamp \in Nat /\ old.rotationAttestationCount + 1 \in Nat
    BY <1>3 DEF KeyRecord
  <2> HIDE DEF stamp, old
  <2> QED
    BY <2>1, <1>3 DEF KeyRecord
<1>5. rec \in KeyRecord
  BY <1>4
<1>6. /\ a \notin RotatedBy(r) /\ RotatedBy(r)' = RotatedBy(r) \cup {a}
      /\ \A q \in Record \ {r} : RotatedBy(q)' = RotatedBy(q)
      /\ \A q \in Record : AttestedBy(q)' = AttestedBy(q)
  BY <1>2 DEF AttestedBy, RotatedBy
<1>7. RecordSound(old, AttestedBy(r), RotatedBy(r), now)
  BY <1>1, RecordsSound
<1>8. Cardinality(RotatedBy(r)') = old.rotationAttestationCount + 1
  <2>1. IsFiniteSet(RotatedBy(r))
    BY AttestorsFinite DEF RotatedBy
  <2> QED
    BY <2>1, <1>6, <1>7, FS_AddElement DEF RecordSound
<1>9. RecordSound(rec, AttestedBy(r)', RotatedBy(r)', now)
  <2>1. /\ rec.attestationCount = old.attestationCount
        /\ rec.rotationAttestationCount = old.rotationAttestationCount + 1
        /\ rec.validUntil = stamp
        /\ rec.firstAttestedAt = old.firstAttestedAt
    BY <1>4
  <2>2. rec.attestationCount = Cardinality(AttestedBy(r)')
    BY <2>1, <1>6, <1>7 DEF RecordSound
  <2>3. rec.rotationAttestationCount = Cardinality(RotatedBy(r)')
    BY <2>1, <1>8
  <2>4. rec.firstAttestedAt # 0 /\ rec.firstAttestedAt <= now /\ rec.attestationCount # 0
    BY <2>1, <1>2, <1>7 DEF RecordSound, Known
  <2>5. rec.validUntil # 0 <=> rec.rotationAttestationCount >= Quorum
    BY <2>1, <1>2, <1>3
  <2>6. rec.validUntil # 0 => rec.validUntil >= rec.firstAttestedAt
    BY <2>1, <2>4, <1>2
  <2>7. rec.validUntil <= now
    BY <2>1, <1>2, <1>3
  <2> HIDE DEF rec
  <2> QED
    BY <2>2, <2>3, <2>4, <2>5, <2>6, <2>7 DEF RecordSound
<1>10. hasAttested' \subseteq Record \X Attestor /\ hasRotated' \subseteq Record \X Attestor
  BY <1>1, <1>2 DEF RegistryTypeOK
<1> HIDE DEF rec, old
<1> QED
  BY <1>2, <1>5, <1>6, <1>9, <1>10, RecordStep

LEMMA RegistryNextStep == RegistryIInv /\ [RegistryNext]_registryVars => RegistryIInv'
<1> SUFFICES ASSUME RegistryIInv, [RegistryNext]_registryVars PROVE RegistryIInv'
  OBVIOUS
<1>1. RegistryTypeOK /\ AttestorsMirrored /\ LedgerCounts /\ ClocksInThePast
  BY DEF RegistryIInv
<1>2. CASE \E a \in Attestor : AddAttestor(a) \/ RemoveAttestor(a)
  BY <1>2, AddAttestorStep, RemoveAttestorStep
<1>3. CASE \E r \in Record : Uncontest(r)
  <2>1. PICK r \in Record : Uncontest(r)
    BY <1>3
  <2>2. /\ records' = [records EXCEPT ![r].contested = FALSE]
        /\ UNCHANGED <<now, rosterVars, hasAttested, hasRotated>>
    BY <2>1, <1>1 DEF Uncontest, RegistryTypeOK
  <2> QED
    BY <2>2, ContestStep
<1>4. CASE \E a \in Attestor, r \in Record : Contest(a, r)
  <2>1. PICK r \in Record : \E a \in Attestor : Contest(a, r)
    BY <1>4
  <2>2. /\ records' = [records EXCEPT ![r].contested = TRUE]
        /\ UNCHANGED <<now, rosterVars, hasAttested, hasRotated>>
    BY <2>1, <1>1 DEF Contest, RegistryTypeOK
  <2> QED
    BY <2>2, ContestStep
<1>5. CASE \E a \in Attestor, r \in Record : Attest(a, r) \/ AttestRotated(a, r)
  BY <1>5, AttestStep, AttestRotatedStep
<1>6. CASE Tick \/ UNCHANGED registryVars
  <2>1. /\ UNCHANGED <<records, hasAttested, hasRotated, rosterVars>>
        /\ now' \in Nat \ {0} /\ now <= now'
    BY <1>1, <1>6 DEF Tick, registryVars, RegistryTypeOK
  <2>2. /\ LedgerCounts' /\ ClocksInThePast' /\ records' \in [Record -> KeyRecord]
        /\ hasAttested' \subseteq Record \X Attestor /\ hasRotated' \subseteq Record \X Attestor
    BY <2>1, LedgerFrame
  <2> QED
    BY <2>1, <2>2, <1>1 DEF RegistryIInv, RegistryTypeOK, AttestorsMirrored, KeyRecord, rosterVars
<1> QED
  BY <1>2, <1>3, <1>4, <1>5, <1>6 DEF RegistryNext, Governance

-------------------------------------------------------------------------------
(* Theorems *)

\* The invariant that carries the proofs below.
THEOREM RegistryInvariant == RegistrySpec => []RegistryIInv
  BY RegistryInitEstablishes, RegistryNextStep, PTL DEF RegistrySpec

\* Array and mapping of attestors agree, and never fall below the quorum.
THEOREM AttestorsStayMirrored == RegistrySpec => []AttestorsMirrored
  BY RegistryInvariant, PTL DEF RegistryIInv

\* The counters of a record are numbers of distinct attestors: a quorum of
\* attestations is a quorum of addresses, through every removal and return.
THEOREM LedgerStaysCounted == RegistrySpec => []LedgerCounts
  BY RegistryInvariant, PTL DEF RegistryIInv

\* With q attestors present, those of them who have not yet spoken and those
\* who ever did make q at least.
LEMMA StillReachable ==
  ASSUME RegistryIInv, NEW S \in SUBSET Attestor
  PROVE  Cardinality(S) + Cardinality(isAttestor \ S) >= Quorum
<1>1. isAttestor \in SUBSET Attestor /\ Cardinality(isAttestor) >= Quorum
  <2>1. attestors \in Seq(Attestor) /\ Members(attestors) = isAttestor /\ Distinct(attestors)
        /\ Len(attestors) >= Quorum /\ isAttestor \subseteq Attestor
    BY DEF RegistryIInv, RegistryTypeOK, AttestorsMirrored
  <2> QED
    BY <2>1, DistinctLength
<1>2. /\ IsFiniteSet(isAttestor) /\ IsFiniteSet(S)
      /\ Cardinality(isAttestor) \in Nat /\ Cardinality(S) \in Nat
      /\ Cardinality(isAttestor \cap S) \in Nat
  <2>1. isAttestor \cap S \in SUBSET Attestor
    BY <1>1
  <2> QED
    BY <1>1, <2>1, AttestorsFinite
<1>3. Cardinality(isAttestor \ S) = Cardinality(isAttestor) - Cardinality(isAttestor \cap S)
  BY <1>2, FS_Difference
<1>4. Cardinality(isAttestor \cap S) <= Cardinality(S)
  BY <1>2, FS_Subset
<1> QED
  BY <1>1, <1>2, <1>3, <1>4, WindowAssumption

\* Whatever the owner removed and added, the attestations a record has and
\* those it can still get make a quorum.
THEOREM QuorumStaysWithinReach == RegistrySpec => []QuorumWithinReach
<1>1. RegistryIInv => QuorumWithinReach
  <2> SUFFICES ASSUME RegistryIInv, NEW r \in Record
               PROVE  /\ records[r].attestationCount + Cardinality(isAttestor \ AttestedBy(r)) >= Quorum
                      /\ records[r].rotationAttestationCount + Cardinality(isAttestor \ RotatedBy(r)) >= Quorum
    BY DEF QuorumWithinReach
  <2>1. AttestedBy(r) \in SUBSET Attestor /\ RotatedBy(r) \in SUBSET Attestor
    BY DEF AttestedBy, RotatedBy
  <2>2. /\ records[r].attestationCount = Cardinality(AttestedBy(r))
        /\ records[r].rotationAttestationCount = Cardinality(RotatedBy(r))
    BY DEF RegistryIInv, LedgerCounts
  <2> QED
    BY <2>1, <2>2, StillReachable
<1> QED
  BY <1>1, RegistryInvariant, PTL

-------------------------------------------------------------------------------
(* Action properties *)

\* The fields of a record after a step that may change it.
LEMMA RecordMoves ==
  ASSUME RegistryIInv, [RegistryNext]_registryVars, NEW r \in Record
  PROVE  /\ now \in Nat /\ now' \in Nat /\ now <= now'
         /\ records[r] \in KeyRecord /\ records'[r] \in KeyRecord
         /\ records[r].validUntil # 0 => records'[r].validUntil = records[r].validUntil
<1>1. RegistryTypeOK /\ RegistryTypeOK'
  BY RegistryNextStep DEF RegistryIInv
<1>2. /\ now \in Nat /\ now' \in Nat /\ records \in [Record -> KeyRecord]
      /\ records' \in [Record -> KeyRecord]
  BY <1>1 DEF RegistryTypeOK, KeyRecord
<1>3. now <= now'
  <2>1. now' = now \/ Tick
    BY Zenon DEF RegistryNext, Governance, AddAttestor, RemoveAttestor, Uncontest, Attest, Contest,
                 AttestRotated, registryVars
  <2>2. Tick => now' = now + 1
    BY DEF Tick
  <2> QED
    BY <2>1, <2>2, <1>2
<1>4. ASSUME records[r].validUntil # 0
      PROVE  records'[r].validUntil = records[r].validUntil
  <2>1. ASSUME NEW q \in Record, NEW frozen \in BOOLEAN,
               records' = [records EXCEPT ![q].contested = frozen]
        PROVE  records'[r].validUntil = records[r].validUntil
    BY <2>1, <1>2 DEF KeyRecord
  <2>2. ASSUME NEW a \in Attestor, NEW q \in Record, Attest(a, q)
        PROVE  records'[r].validUntil = records[r].validUntil
    BY <2>2, <1>2 DEF KeyRecord, Attest
  <2>3. ASSUME NEW a \in Attestor, NEW q \in Record, AttestRotated(a, q)
        PROVE  records'[r].validUntil = records[r].validUntil
    <3>1. q # r
      BY <2>3, <1>4 DEF AttestRotated, MayAttestRotated
    <3> QED
      BY <3>1, <2>3, <1>2 DEF KeyRecord, AttestRotated
  <2> QED
    BY <2>1, <2>2, <2>3
    DEF RegistryNext, Governance, AddAttestor, RemoveAttestor, Uncontest, Contest, Tick, registryVars
<1> QED
  BY <1>2, <1>3, <1>4

DeadStays == \A r \in Record : Expired(r) => Expired(r)' /\ ~IsKeyUsable(r)'

LEMMA ExpiredStep == RegistryIInv /\ [RegistryNext]_registryVars => DeadStays
<1> SUFFICES ASSUME RegistryIInv, [RegistryNext]_registryVars, NEW r \in Record, Expired(r)
             PROVE  Expired(r)' /\ ~IsKeyUsable(r)'
  BY DEF DeadStays
<1>1. /\ now \in Nat /\ now' \in Nat /\ now <= now'
      /\ records[r] \in KeyRecord
      /\ records[r].validUntil # 0 /\ records'[r].validUntil = records[r].validUntil
      /\ now > records[r].validUntil + GraceWindow
  BY RecordMoves DEF Expired
<1>2. records[r].validUntil \in Nat
  BY <1>1 DEF KeyRecord
<1>3. records'[r].validUntil # 0 /\ now' > records'[r].validUntil + GraceWindow
  BY <1>1, <1>2, WindowAssumption
<1> QED
  BY <1>1, <1>2, <1>3, WindowAssumption DEF Expired, IsKeyUsable

\* The one-way door, for all quorums and windows: no transaction brings an
\* expired key back.
THEOREM ExpiredForGood == RegistrySpec => ExpiredKeysStayDead
<1>1. RegistryIInv /\ [RegistryNext]_registryVars => [DeadStays]_registryVars
  BY ExpiredStep
<1> QED
  BY <1>1, RegistryInvariant, PTL DEF RegistrySpec, ExpiredKeysStayDead, DeadStays

\* What the record of a key may become by one call.
LEMMA RevivalStep ==
  ASSUME RegistryIInv, [RegistryNext]_registryVars, NEW r \in Record, BecomesUsable(r)
  PROVE  \/ now' > now
         \/ Uncontest(r)
         \/ Cardinality(AttestedBy(r)) = Quorum - 1
<1>1. /\ now \in Nat /\ records \in [Record -> KeyRecord]
      /\ records[r].attestationCount = Cardinality(AttestedBy(r))
      /\ Known(r) <=> records[r].attestationCount # 0
  BY DEF RegistryIInv, RegistryTypeOK, LedgerCounts, KeyRecord
<1>2. ~(now' = now /\ records'[r] = records[r])
  BY DEF BecomesUsable, IsKeyUsable, Known
<1>3. CASE Tick
  BY <1>1, <1>3 DEF Tick
<1>4. CASE Governance
  <2>1. PICK q \in Record : Uncontest(q)
    BY <1>2, <1>4 DEF Governance, AddAttestor, RemoveAttestor
  <2>2. q # r => now' = now /\ records'[r] = records[r]
    BY <1>1, <2>1 DEF Uncontest
  <2> QED
    BY <1>2, <2>1, <2>2
<1>5. ASSUME NEW a \in Attestor, NEW q \in Record, Contest(a, q)
      PROVE  FALSE
  <2>1. q # r => now' = now /\ records'[r] = records[r]
    BY <1>1, <1>5 DEF Contest
  <2>2. q = r => records'[r].contested
    BY <1>1, <1>5 DEF Contest, KeyRecord
  <2> QED
    BY <1>2, <2>1, <2>2 DEF BecomesUsable, IsKeyUsable
<1>6. ASSUME NEW a \in Attestor, NEW q \in Record, Attest(a, q)
      PROVE  Cardinality(AttestedBy(r)) = Quorum - 1
  <2>1. q = r /\ now' = now
    BY <1>1, <1>2, <1>6 DEF Attest
  <2>2. PICK old \in KeyRecord : old = records[r]
    BY <1>1
  <2>3. /\ records'[r].attestationCount = old.attestationCount + 1
        /\ records'[r].contested = old.contested /\ records'[r].validUntil = old.validUntil
        /\ old.firstAttestedAt # 0 => records'[r].firstAttestedAt = old.firstAttestedAt
    BY <1>1, <1>6, <2>1, <2>2 DEF Attest, KeyRecord
  <2>4. old.attestationCount + 1 >= Quorum /\ old.attestationCount \in Nat
    BY <2>2, <2>3 DEF BecomesUsable, IsKeyUsable, KeyRecord
  <2>5. ~(old.attestationCount >= Quorum)
    <3> SUFFICES ASSUME old.attestationCount >= Quorum PROVE FALSE
      OBVIOUS
    <3>1. old.firstAttestedAt # 0
      BY <1>1, <2>2, <2>4, WindowAssumption DEF Known
    <3> QED
      BY <2>1, <2>2, <2>3, <3>1 DEF BecomesUsable, IsKeyUsable, Known
  <2> QED
    BY <1>1, <2>2, <2>4, <2>5, WindowAssumption
<1>7. ASSUME NEW a \in Attestor, NEW q \in Record, AttestRotated(a, q)
      PROVE  FALSE
  <2>1. q = r /\ now' = now
    BY <1>1, <1>2, <1>7 DEF AttestRotated
  <2>2. PICK old \in KeyRecord : old = records[r]
    BY <1>1
  <2>3. /\ records'[r].attestationCount = old.attestationCount
        /\ records'[r].contested = old.contested
        /\ records'[r].firstAttestedAt = old.firstAttestedAt
    BY <1>1, <1>7, <2>1, <2>2 DEF AttestRotated, KeyRecord
  <2>4. old.validUntil = 0
    BY <1>7, <2>1, <2>2 DEF AttestRotated, MayAttestRotated
  <2> QED
    BY <2>1, <2>2, <2>3, <2>4 DEF BecomesUsable, IsKeyUsable, Known
<1>8. CASE UNCHANGED registryVars
  BY <1>2, <1>8 DEF registryVars
<1> QED
  BY <1>3, <1>4, <1>5, <1>6, <1>7, <1>8 DEF RegistryNext

\* A key becomes usable by the passing of time, by the attestation that makes
\* a quorum, or by the owner lifting a contest: never by an attestor alone, nor
\* by a change of the attestors (KeyRegistry.sol, attest, uncontest and
\* isKeyUsable).
THEOREM OnlyThoseRevive == RegistrySpec => OnlyQuorumOwnerOrTimeRevives
<1>1. RegistryIInv /\ [RegistryNext]_registryVars =>
        [\A r \in Record : BecomesUsable(r) =>
           \/ now' > now
           \/ Uncontest(r)
           \/ Cardinality(AttestedBy(r)) = Quorum - 1]_registryVars
  BY RevivalStep
<1> QED
  BY <1>1, RegistryInvariant, PTL DEF RegistrySpec, OnlyQuorumOwnerOrTimeRevives

-------------------------------------------------------------------------------
(***************************************************************************)
(* The identity of a wallet, and the parts it is made of.                  *)
(***************************************************************************)

\* What a pending change is: the one proposed last, and its wait.
PendingIsProposed ==
  /\ identity = [ commitment        |-> identity.commitment,
                  pendingCommitment |-> identity.pendingCommitment,
                  pendingReadyAt    |-> identity.pendingReadyAt ]
  /\ identity.pendingReadyAt # 0 =>
       /\ identity.pendingCommitment = proposed.commitment
       /\ identity.pendingReadyAt = proposed.at + IdentityChangeDelay

\* The promise for one step.
NoticedStep ==
  identity.commitment # NoIdentity /\ identity'.commitment # identity.commitment =>
    /\ identity'.commitment = proposed.commitment
    /\ now >= proposed.at + IdentityChangeDelay

\* No wallet starts with a pending change.
LEMMA IdentityInit == OidcInit => PendingIsProposed
BY DEF OidcInit, PendingIsProposed

\* A call of setRecoveryIdentity sets the first identity or starts a wait.
LEMMA IdentitySet ==
  ASSUME PendingIsProposed, NEW c \in Choice, SetRecoveryIdentity(c)
  PROVE  PendingIsProposed' /\ NoticedStep
<1>1. CASE identity.commitment = NoIdentity
  <2>1. SetImmediately(c)
    BY <1>1 DEF SetRecoveryIdentity
  <2>2. identity' = [ commitment        |-> c,
                      pendingCommitment |-> identity.pendingCommitment,
                      pendingReadyAt    |-> identity.pendingReadyAt ]
    BY <2>1 DEF SetImmediately, PendingIsProposed
  <2> QED
    BY <1>1, <2>1, <2>2 DEF SetImmediately, PendingIsProposed, NoticedStep
<1>2. CASE identity.commitment # NoIdentity
  <2>1. ProposeChange(c)
    BY <1>2 DEF SetRecoveryIdentity
  <2>2. identity' = [ commitment        |-> identity.commitment,
                      pendingCommitment |-> c,
                      pendingReadyAt    |-> now + IdentityChangeDelay ]
    BY <2>1 DEF ProposeChange, PendingIsProposed
  <2>3. proposed'.commitment = c /\ proposed'.at = now
    BY <2>1 DEF ProposeChange
  <2> QED
    BY <2>2, <2>3 DEF PendingIsProposed, NoticedStep
<1> QED
  BY <1>1, <1>2

\* A veto leaves no change pending.
LEMMA IdentityVetoed ==
  ASSUME PendingIsProposed, VetoRecoveryIdentityChange
  PROVE  PendingIsProposed' /\ NoticedStep
<1>1. identity' = [ commitment        |-> identity.commitment,
                    pendingCommitment |-> NoIdentity,
                    pendingReadyAt    |-> 0 ]
  BY DEF VetoRecoveryIdentityChange, PendingIsProposed
<1> QED
  BY <1>1 DEF PendingIsProposed, NoticedStep

\* What is applied is what waited.
LEMMA IdentityApplied ==
  ASSUME PendingIsProposed, ApplyRecoveryIdentityChange
  PROVE  PendingIsProposed' /\ NoticedStep
BY DEF ApplyRecoveryIdentityChange, PendingIsProposed, NoticedStep

\* No other step touches an identity.
LEMMA IdentityUntouched ==
  ASSUME PendingIsProposed, UNCHANGED identityVars
  PROVE  PendingIsProposed' /\ NoticedStep
BY DEF identityVars, PendingIsProposed, NoticedStep

LEMMA IdentityStep ==
  ASSUME PendingIsProposed, [OidcNext]_oidcVars
  PROVE  PendingIsProposed' /\ NoticedStep
<1>1. ASSUME NEW c \in Choice, SetRecoveryIdentity(c)
      PROVE  PendingIsProposed' /\ NoticedStep
  BY <1>1, IdentitySet
<1>2. CASE VetoRecoveryIdentityChange
  BY <1>2, IdentityVetoed
<1>3. CASE ApplyRecoveryIdentityChange
  BY <1>3, IdentityApplied
<1>4. ASSUME NEW r \in Record, NEW i \in Identity, NEW k \in Key, NEW n \in Wallet!Nonce,
             SubmitRecoveryApproval(r, i, k, n)
      PROVE  UNCHANGED identityVars
  BY <1>4 DEF SubmitRecoveryApproval, identityVars
<1>5. CASE WalletStep
  <2>1. UNCHANGED identityVars
    BY <1>5 DEF WalletStep, identityVars
  <2> QED
    BY <2>1, IdentityUntouched
<1>6. CASE RegistryStep
  <2>1. UNCHANGED identityVars
    BY <1>6 DEF RegistryStep, identityVars
  <2> QED
    BY <2>1, IdentityUntouched
<1>7. CASE Block
  <2>1. UNCHANGED identityVars
    BY <1>7 DEF Block, identityVars
  <2> QED
    BY <2>1, IdentityUntouched
<1>8. CASE UNCHANGED oidcVars
  <2>1. UNCHANGED identityVars
    BY <1>8 DEF oidcVars, identityVars
  <2> QED
    BY <2>1, IdentityUntouched
<1> QED
  BY <1>1, <1>2, <1>3, <1>4, <1>5, <1>6, <1>7, <1>8, IdentityUntouched DEF OidcNext

\* IOidcRecoveryGuardian.sol:21-25: an identity that is set changes only to the
\* one proposed last, after its wait, whatever the wallet, the registry and the
\* other guardians do meanwhile.
THEOREM IdentityChangesNoticed == OidcSpec => IdentityChangesWithNotice
<1>1. PendingIsProposed /\ [OidcNext]_oidcVars => PendingIsProposed'
  BY IdentityStep
<1>2. PendingIsProposed /\ [OidcNext]_oidcVars => [NoticedStep]_oidcVars
  BY IdentityStep
<1> QED
  BY <1>1, <1>2, IdentityInit, PTL DEF OidcSpec, IdentityChangesWithNotice, NoticedStep

-------------------------------------------------------------------------------
(* The composition restricts its parts and adds nothing to them. *)

USE DEF Wallet!vars, Wallet!configVars, Wallet!opVars, Wallet!recoveryVars, Wallet!ownerVars,
        Wallet!historyVars

\* What the contract does to the wallet, a guardian may do.
LEMMA WalletStepIsAllowed ==
  ASSUME [OidcNext]_oidcVars
  PROVE  [Wallet!Next]_(Wallet!vars)
<1>1. ASSUME UNCHANGED <<now, walletVars>>
      PROVE  UNCHANGED Wallet!vars
  BY <1>1 DEF walletVars
<1>2. ASSUME NEW c \in Choice, SetRecoveryIdentity(c)
      PROVE  UNCHANGED Wallet!vars
  BY <1>1, <1>2 DEF SetRecoveryIdentity
<1>3. CASE VetoRecoveryIdentityChange
  BY <1>1, <1>3 DEF VetoRecoveryIdentityChange
<1>4. CASE ApplyRecoveryIdentityChange
  BY <1>1, <1>4 DEF ApplyRecoveryIdentityChange
<1>5. ASSUME NEW r \in Record, NEW i \in Identity, NEW k \in Key, NEW n \in Wallet!Nonce,
             SubmitRecoveryApproval(r, i, k, n)
      PROVE  Wallet!Next
  BY <1>5, OidcAssumption DEF SubmitRecoveryApproval, Wallet!Next
<1>6. CASE WalletStep
  BY <1>6 DEF WalletStep, Wallet!Next
<1>7. CASE RegistryStep
  <2>1. UNCHANGED now
    BY <1>7 DEF RegistryStep, Uncontest, Attest, Contest, AttestRotated
  <2> QED
    BY <1>1, <1>7, <2>1 DEF RegistryStep
<1>8. CASE Block
  BY <1>8 DEF Block, Wallet!Next
<1>9. CASE UNCHANGED oidcVars
  BY <1>1, <1>9 DEF oidcVars
<1> QED
  BY <1>2, <1>3, <1>4, <1>5, <1>6, <1>7, <1>8, <1>9 DEF OidcNext

\* Only a block moves the time of a wallet.
LEMMA WalletKeepsTime ==
  ASSUME \/ WalletStep
         \/ \E k \in Key, n \in Wallet!Nonce : Wallet!ApproveRecovery(Oidc, k, n)
  PROVE  now' = now
<1>1. ASSUME NEW g \in Guardian, NEW k \in Key, NEW n \in Wallet!Nonce, Wallet!ApproveRecovery(g, k, n)
      PROVE  now' = now
  BY <1>1 DEF Wallet!ApproveRecovery
<1>2. ASSUME NEW s, NEW t, NEW rd, NEW gd, Wallet!SetupGuardians(s, t, rd, gd)
      PROVE  now' = now
  BY <1>2 DEF Wallet!SetupGuardians
<1>3. ASSUME NEW op, \/ Wallet!ProposeGuardianOp(op)
                     \/ Wallet!VetoGuardianOp(op)
      PROVE  now' = now
  BY <1>3 DEF Wallet!ProposeGuardianOp, Wallet!VetoGuardianOp
<1>4. ASSUME NEW op, Wallet!TakeReadyOp(op)
      PROVE  now' = now
  BY <1>4 DEF Wallet!TakeReadyOp
<1>5. ASSUME NEW op, \/ Wallet!ExecuteAdd(op)
                     \/ Wallet!ExecuteRemove(op)
                     \/ Wallet!ExecuteSetThreshold(op)
      PROVE  now' = now
  BY <1>4, <1>5 DEF Wallet!ExecuteAdd, Wallet!ExecuteRemove, Wallet!ExecuteSetThreshold
<1>6. ASSUME \/ Wallet!VetoRecovery
             \/ Wallet!ExecuteRecovery
             \/ Wallet!LoseSigners
             \/ \E k \in Key : Wallet!RevokeKey(k)
      PROVE  now' = now
  BY <1>6 DEF Wallet!VetoRecovery, Wallet!ExecuteRecovery, Wallet!LoseSigners, Wallet!RevokeKey
<1>7. CASE WalletStep
  BY <1>1, <1>2, <1>3, <1>5, <1>6, <1>7 DEF WalletStep
<1> QED
  BY <1>1, <1>7, OidcAssumption

\* Neither the contract nor the wallet writes to the registry.
LEMMA RegistryStepIsAllowed ==
  ASSUME [OidcNext]_oidcVars
  PROVE  [RegistryNext]_registryVars
<1>1. ASSUME UNCHANGED <<now, ledgerVars>>
      PROVE  UNCHANGED registryVars
  BY <1>1 DEF ledgerVars, registryVars
<1>2. ASSUME NEW c \in Choice, SetRecoveryIdentity(c)
      PROVE  UNCHANGED registryVars
  BY <1>1, <1>2 DEF SetRecoveryIdentity
<1>3. CASE VetoRecoveryIdentityChange
  BY <1>1, <1>3 DEF VetoRecoveryIdentityChange
<1>4. CASE ApplyRecoveryIdentityChange
  BY <1>1, <1>4 DEF ApplyRecoveryIdentityChange
<1>5. ASSUME NEW r \in Record, NEW i \in Identity, NEW k \in Key, NEW n \in Wallet!Nonce,
             SubmitRecoveryApproval(r, i, k, n)
      PROVE  UNCHANGED registryVars
  BY <1>1, <1>5, WalletKeepsTime DEF SubmitRecoveryApproval
<1>6. CASE WalletStep
  <2>1. UNCHANGED ledgerVars
    BY <1>6 DEF WalletStep
  <2> QED
    BY <1>1, <1>6, <2>1, WalletKeepsTime
<1>7. CASE RegistryStep
  BY <1>7 DEF RegistryStep, RegistryNext, Governance
<1>8. CASE Block
  BY <1>8 DEF Block, RegistryNext
<1>9. CASE UNCHANGED oidcVars
  BY <1>1, <1>9 DEF oidcVars
<1> QED
  BY <1>2, <1>3, <1>4, <1>5, <1>6, <1>7, <1>8, <1>9 DEF OidcNext

\* Beside the identity contract, a wallet is still the wallet GuardianLogic
\* describes and the registry the one KeyRegistry describes: what is proved of
\* each alone holds of them together.
THEOREM PartsBehaveAsAlone == OidcSpec => Wallet!Spec /\ RegistrySpec
<1>1. OidcInit => Wallet!Init /\ RegistryInit
  BY DEF OidcInit
<1>2. [OidcNext]_oidcVars => [Wallet!Next]_(Wallet!vars)
  BY WalletStepIsAllowed
<1>3. [OidcNext]_oidcVars => [RegistryNext]_registryVars
  BY RegistryStepIsAllowed
<1> QED
  BY <1>1, <1>2, <1>3, PTL DEF OidcSpec, Wallet!Spec, RegistrySpec
-------------------------------------------------------------------------------
(* The types of the identity's slots. *)

\* Time is a natural number, whichever contract is called.
LEMMA TimeStep ==
  ASSUME now \in Nat, [OidcNext]_oidcVars
  PROVE  now' \in Nat
<1>1. CASE UNCHANGED registryVars
  BY <1>1 DEF registryVars
<1>2. CASE Governance
  <2>1. now' = now
    BY <1>2 DEF Governance, AddAttestor, RemoveAttestor, Uncontest
  <2> QED
    BY <2>1
<1>3. ASSUME NEW a \in Attestor, NEW r \in Record, Attest(a, r) \/ Contest(a, r) \/ AttestRotated(a, r)
      PROVE  now' \in Nat
  <2>1. now' = now
    BY <1>3 DEF Attest, Contest, AttestRotated
  <2> QED
    BY <2>1
<1>4. CASE Tick
  BY <1>4 DEF Tick
<1> QED
  BY <1>1, <1>2, <1>3, <1>4, RegistryStepIsAllowed DEF RegistryNext

\* A call about the identity writes slots of their types.
LEMMA IdentityTypeStep ==
  ASSUME OidcTypeOK, now \in Nat, [OidcNext]_oidcVars
  PROVE  OidcTypeOK'
<1> USE IdentityAssumption, IdentityDelayAssumption
<1>1. ASSUME NEW c \in Choice, SetRecoveryIdentity(c)
      PROVE  OidcTypeOK'
  <2>1. CASE SetImmediately(c)
    BY <2>1 DEF SetImmediately, OidcTypeOK
  <2>2. CASE ProposeChange(c)
    <3>1. identity' \in [ commitment : Identity \cup {NoIdentity},
                          pendingCommitment : Identity \cup {NoIdentity}, pendingReadyAt : Nat ]
      <4>1. c \in Identity \cup {NoIdentity} /\ now + IdentityChangeDelay \in Nat
        OBVIOUS
      <4>2. identity' = [identity EXCEPT !.pendingCommitment = c,
                                         !.pendingReadyAt    = now + IdentityChangeDelay]
        BY <2>2 DEF ProposeChange
      <4> QED
        BY <4>1, <4>2 DEF OidcTypeOK
    <3>2. /\ identity'.pendingCommitment = c
          /\ identity'.pendingReadyAt = now + IdentityChangeDelay
      BY <2>2 DEF ProposeChange, OidcTypeOK
    <3>3. proposed.count + 1 \in 0..MaxProposals
      BY <2>2 DEF ProposeChange, OidcTypeOK
    <3>4. proposed' = [commitment |-> c, at |-> now, count |-> proposed.count + 1]
      BY <2>2 DEF ProposeChange
    <3>5. proposed' \in [ commitment : Identity \cup {NoIdentity}, at : Nat, count : 0..MaxProposals ]
      BY <3>3, <3>4
    <3> QED
      BY <3>1, <3>2, <3>4, <3>5 DEF OidcTypeOK
  <2> QED
    BY <1>1, <2>1, <2>2 DEF SetRecoveryIdentity
<1>2. CASE VetoRecoveryIdentityChange
  BY <1>2 DEF VetoRecoveryIdentityChange, Forget, OidcTypeOK
<1>3. CASE ApplyRecoveryIdentityChange
  BY <1>3 DEF ApplyRecoveryIdentityChange, Forget, OidcTypeOK
<1>4. CASE UNCHANGED identityVars
  BY <1>4 DEF identityVars, OidcTypeOK
<1>5. ASSUME NEW r \in Record, NEW i \in Identity, NEW k \in Key, NEW n \in Wallet!Nonce,
             SubmitRecoveryApproval(r, i, k, n)
      PROVE  UNCHANGED identityVars
  BY <1>5 DEF SubmitRecoveryApproval, identityVars
<1>6. CASE WalletStep
  BY <1>4, <1>6 DEF WalletStep, identityVars
<1>7. CASE RegistryStep
  BY <1>4, <1>7 DEF RegistryStep, identityVars
<1>8. CASE Block
  BY <1>4, <1>8 DEF Block, identityVars
<1>9. CASE UNCHANGED oidcVars
  BY <1>4, <1>9 DEF oidcVars, identityVars
<1> QED
  BY <1>1, <1>2, <1>3, <1>4, <1>5, <1>6, <1>7, <1>8, <1>9 DEF OidcNext

\* The slots of an identity keep their types, and a change that is pending is
\* the one proposed last, with the wait of that proposal.
THEOREM IdentityTypes == OidcSpec => []OidcTypeOK
<1> DEFINE Typed == OidcTypeOK /\ now \in Nat
<1>1. OidcInit => Typed
  BY IdentityDelayAssumption DEF OidcInit, RegistryInit, OidcTypeOK
<1>2. Typed /\ [OidcNext]_oidcVars => Typed'
  BY TimeStep, IdentityTypeStep
<1>3. Typed => OidcTypeOK
  OBVIOUS
<1> HIDE DEF Typed
<1> QED
  BY <1>1, <1>2, <1>3, PTL DEF OidcSpec
-------------------------------------------------------------------------------
(***************************************************************************)
(* A promotion that rests on the identity's vote comes in the open.        *)
(***************************************************************************)

LEMMA SameWallet ==
  /\ Wallet!Init <=> Alone!Init
  /\ Wallet!Votes = Alone!Votes
  /\ Wallet!Nonce = Alone!Nonce /\ Wallet!Op = Alone!Op /\ Wallet!Roster = Alone!Roster
  BY SameHelpers DEF Wallet!Init, Alone!Init, Wallet!NoRecovery, Alone!NoRecovery, Wallet!Votes,
         Alone!Votes, Wallet!Nonce, Alone!Nonce, Wallet!Op, Alone!Op, Wallet!Roster, Alone!Roster

LEMMA SameObservation ==
  ASSUME NEW closed
  PROVE  Wallet!Observe(closed) <=> Alone!Observe(closed)
BY SameHelpers
   DEF Wallet!Observe, Alone!Observe, Wallet!ObserveQuorum, Alone!ObserveQuorum, Wallet!Short, Alone!Short, Wallet!Votes, Alone!Votes

LEMMA SameApproval ==
  ASSUME NEW g, NEW k, NEW n
  PROVE  Wallet!ApproveRecovery(g, k, n) <=> Alone!ApproveRecovery(g, k, n)
BY SameObservation
   DEF Wallet!ApproveRecovery, Alone!ApproveRecovery, Wallet!InHorizon, Alone!InHorizon,
       Wallet!Approve, Alone!Approve, Wallet!MaxUint8, Alone!MaxUint8,
       Alone!vars, Alone!configVars, Alone!opVars, Alone!recoveryVars, Alone!ownerVars

LEMMA SameOps ==
  ASSUME NEW op
  PROVE  /\ Wallet!ProposeGuardianOp(op) <=> Alone!ProposeGuardianOp(op)
         /\ Wallet!VetoGuardianOp(op) <=> Alone!VetoGuardianOp(op)
         /\ Wallet!ExecuteAdd(op) <=> Alone!ExecuteAdd(op)
         /\ Wallet!ExecuteRemove(op) <=> Alone!ExecuteRemove(op)
         /\ Wallet!ExecuteSetThreshold(op) <=> Alone!ExecuteSetThreshold(op)
<1> USE DEF Alone!vars, Alone!configVars, Alone!opVars, Alone!recoveryVars, Alone!ownerVars,
            Wallet!OnlySelf, Alone!OnlySelf
<1>1. Wallet!TakeReadyOp(op) <=> Alone!TakeReadyOp(op)
  BY DEF Wallet!TakeReadyOp, Alone!TakeReadyOp
<1>2. Wallet!ProposeGuardianOp(op) <=> Alone!ProposeGuardianOp(op)
  BY SameObservation DEF Wallet!ProposeGuardianOp, Alone!ProposeGuardianOp
<1>3. Wallet!VetoGuardianOp(op) <=> Alone!VetoGuardianOp(op)
  BY SameObservation DEF Wallet!VetoGuardianOp, Alone!VetoGuardianOp
<1>4. Wallet!ExecuteAdd(op) <=> Alone!ExecuteAdd(op)
  BY <1>1, SameObservation DEF Wallet!ExecuteAdd, Alone!ExecuteAdd
<1>5. Wallet!RevokeApprovalIfPending(op.guardian) <=> Alone!RevokeApprovalIfPending(op.guardian)
  BY DEF Wallet!RevokeApprovalIfPending, Alone!RevokeApprovalIfPending
<1>6. Wallet!ExecuteRemove(op) <=> Alone!ExecuteRemove(op)
  BY <1>1, <1>5, SameHelpers, SameObservation DEF Wallet!ExecuteRemove, Alone!ExecuteRemove
<1>7. Wallet!ExecuteSetThreshold(op) <=> Alone!ExecuteSetThreshold(op)
  BY <1>1, SameObservation
     DEF Wallet!ExecuteSetThreshold, Alone!ExecuteSetThreshold, Wallet!ValidThreshold, Alone!ValidThreshold
<1> QED
  BY <1>2, <1>3, <1>4, <1>6, <1>7

LEMMA SameSetup ==
  ASSUME NEW s, NEW t, NEW rd, NEW gd
  PROVE  Wallet!SetupGuardians(s, t, rd, gd) <=> Alone!SetupGuardians(s, t, rd, gd)
BY SameHelpers, SameObservation
   DEF Wallet!SetupGuardians, Alone!SetupGuardians, Wallet!OnlySelf, Alone!OnlySelf,
       Wallet!ValidThreshold, Alone!ValidThreshold,
       Alone!vars, Alone!configVars, Alone!opVars, Alone!recoveryVars, Alone!ownerVars

LEMMA SameEnds ==
  /\ Wallet!VetoRecovery <=> Alone!VetoRecovery
  /\ Wallet!ExecuteRecovery <=> Alone!ExecuteRecovery
  /\ \A k : Wallet!RevokeKey(k) <=> Alone!RevokeKey(k)
  /\ Wallet!LoseSigners <=> Alone!LoseSigners
  /\ Wallet!Tick <=> Alone!Tick
<1> USE DEF Alone!vars, Alone!configVars, Alone!opVars, Alone!recoveryVars, Alone!ownerVars,
            Wallet!OnlySelf, Alone!OnlySelf, Wallet!NoRecovery, Alone!NoRecovery
<1> QED
  BY SameObservation
     DEF Wallet!VetoRecovery, Alone!VetoRecovery, Wallet!ExecuteRecovery, Alone!ExecuteRecovery,
         Wallet!RevokeKey, Alone!RevokeKey, Wallet!LoseSigners, Alone!LoseSigners, Wallet!Tick, Alone!Tick

-------------------------------------------------------------------------------
\* A key of the provider that its quorum attested, and that has been open to
\* contest for an anchor window at time t.
Anchored(r, t) ==
  records[r].attestationCount >= Quorum /\ t >= records[r].firstAttestedAt + AnchorWindow

\* The identity votes with an anchored key, and a clock that needed its vote
\* started when one was.
VoteWasAnchored == Oidc \in Alone!Votes => \E r \in Record : Anchored(r, now)
ClockWasAnchored ==
  pendingRecovery.readyAt # 0 /\ ~othersSuffice =>
    \E r \in Record :
      /\ records[r].attestationCount >= Quorum
      /\ pendingRecovery.readyAt >= records[r].firstAttestedAt + AnchorWindow + recoveryDelay

OpenInv == Alone!IInv /\ RegistryIInv /\ VoteWasAnchored /\ ClockWasAnchored

LEMMA SameStep ==
  [Wallet!Next]_(Wallet!vars) => [Alone!Next]_(Alone!vars)
<1>1. Wallet!Next => Alone!Next
  BY SameWallet, SameApproval, SameOps, SameSetup, SameEnds DEF Wallet!Next, Alone!Next
<1> QED
  BY <1>1 DEF Alone!vars, Alone!configVars, Alone!opVars, Alone!recoveryVars, Alone!ownerVars,
              Alone!historyVars

LEMMA AloneStep ==
  ASSUME OpenInv, [OidcNext]_oidcVars
  PROVE  Alone!IInv' /\ RegistryIInv'
<1>1. Alone!IInv /\ RegistryIInv
  BY DEF OpenInv
<1>2. [Wallet!Next]_(Wallet!vars)
  BY WalletStepIsAllowed
<1>3. [Alone!Next]_(Alone!vars)
  BY <1>2, SameStep
<1>4. Alone!IInv'
  BY <1>1, <1>3, AloneAssumptions, Alone!NextStep
<1>5. [RegistryNext]_registryVars
  BY RegistryStepIsAllowed
<1> QED
  BY <1>1, <1>4, <1>5, RegistryNextStep

\* The ledger forgets no attestation, and time goes on.
LEMMA KeysStayAnchored ==
  ASSUME RegistryIInv, [RegistryNext]_registryVars, NEW r \in Record,
         records[r].attestationCount >= Quorum
  PROVE  /\ records'[r].attestationCount >= Quorum
         /\ records'[r].firstAttestedAt = records[r].firstAttestedAt
<1>1. /\ records \in [Record -> KeyRecord]
      /\ records[r].firstAttestedAt # 0
  BY WindowAssumption DEF RegistryIInv, RegistryTypeOK, LedgerCounts, KeyRecord, Known
<1>2. ASSUME NEW q \in Record, NEW frozen \in BOOLEAN,
             records' = [records EXCEPT ![q].contested = frozen]
      PROVE  records'[r].attestationCount = records[r].attestationCount
             /\ records'[r].firstAttestedAt = records[r].firstAttestedAt
  BY <1>1, <1>2 DEF KeyRecord
<1>3. ASSUME NEW a \in Attestor, NEW q \in Record, Attest(a, q)
      PROVE  /\ records'[r].attestationCount \in {records[r].attestationCount, records[r].attestationCount + 1}
             /\ records'[r].firstAttestedAt = records[r].firstAttestedAt
  BY <1>1, <1>3 DEF Attest, KeyRecord
<1>4. ASSUME NEW a \in Attestor, NEW q \in Record, AttestRotated(a, q)
      PROVE  /\ records'[r].attestationCount = records[r].attestationCount
             /\ records'[r].firstAttestedAt = records[r].firstAttestedAt
  BY <1>1, <1>4 DEF AttestRotated, KeyRecord
<1>5. records[r].attestationCount \in Nat
  BY <1>1 DEF KeyRecord
<1>6. \/ records' = records
      \/ \E q \in Record, frozen \in BOOLEAN : records' = [records EXCEPT ![q].contested = frozen]
      \/ \E a \in Attestor, q \in Record : Attest(a, q) \/ AttestRotated(a, q)
  BY DEF RegistryNext, Governance, AddAttestor, RemoveAttestor, Uncontest, Contest, Tick, registryVars
<1> QED
  BY <1>2, <1>3, <1>4, <1>5, <1>6, WindowAssumption

\* Votes may leave and a clock may stop; a clock that runs is the old one.
Calm ==
  /\ Alone!Votes' \subseteq Alone!Votes
  /\ pendingRecovery'.readyAt # 0 =>
       pendingRecovery'.readyAt = pendingRecovery.readyAt /\ UNCHANGED <<recoveryDelay, recoveryNonce>>

RoundIsRemembered == recoveryNonce' = recoveryNonce /\ othersSuffice => othersSuffice'

LEMMA CalmKeeps ==
  ASSUME OpenInv, [OidcNext]_oidcVars, Calm, RoundIsRemembered
  PROVE  VoteWasAnchored' /\ ClockWasAnchored'
<1>1. [RegistryNext]_registryVars /\ RegistryIInv
  BY RegistryStepIsAllowed DEF OpenInv
<1>2. \A r \in Record : records[r].attestationCount >= Quorum =>
        /\ records'[r].attestationCount >= Quorum
        /\ records'[r].firstAttestedAt = records[r].firstAttestedAt
        /\ records[r].firstAttestedAt \in Nat
  BY <1>1, KeysStayAnchored DEF RegistryIInv, RegistryTypeOK
<1>3. VoteWasAnchored'
  <2> SUFFICES ASSUME Oidc \in Alone!Votes' PROVE \E r \in Record : Anchored(r, now)'
    BY DEF VoteWasAnchored
  <2>1. PICK r \in Record : Anchored(r, now)
    BY DEF Calm, OpenInv, VoteWasAnchored
  <2>2. now \in Nat /\ now' \in Nat /\ now <= now'
    BY <1>1, RecordMoves
  <2>3. Anchored(r, now)'
    BY <1>2, <2>1, <2>2, WindowAssumption DEF Anchored
  <2> QED
    BY <2>3
<1>4. ClockWasAnchored'
  <2> SUFFICES ASSUME pendingRecovery'.readyAt # 0, ~othersSuffice'
               PROVE  \E r \in Record :
                        /\ records'[r].attestationCount >= Quorum
                        /\ pendingRecovery'.readyAt
                             >= records'[r].firstAttestedAt + AnchorWindow + recoveryDelay'
    BY DEF ClockWasAnchored
  <2>1. pendingRecovery'.readyAt = pendingRecovery.readyAt /\ recoveryDelay' = recoveryDelay
        /\ ~othersSuffice
    BY DEF Calm, RoundIsRemembered
  <2>2. PICK r \in Record :
          /\ records[r].attestationCount >= Quorum
          /\ pendingRecovery.readyAt >= records[r].firstAttestedAt + AnchorWindow + recoveryDelay
    BY <2>1 DEF OpenInv, ClockWasAnchored
  <2> QED
    BY <1>2, <2>1, <2>2
<1> QED
  BY <1>3, <1>4

\* Every step of the wallet that is not an approval.
LEMMA SameRecoveryIsCalm ==
  ASSUME UNCHANGED <<pendingRecovery, approved, recoveryNonce>>,
         pendingRecovery.readyAt # 0 => recoveryDelay' = recoveryDelay
  PROVE  Calm
BY DEF Calm, Alone!Votes

LEMMA OpsAreCalm ==
  ASSUME Alone!IInv, NEW op \in Alone!Op,
         \/ Alone!ProposeGuardianOp(op) \/ Alone!VetoGuardianOp(op)
         \/ Alone!ExecuteAdd(op) \/ Alone!ExecuteRemove(op) \/ Alone!ExecuteSetThreshold(op)
  PROVE  Calm
<1> USE DEF Alone!vars, Alone!configVars, Alone!opVars, Alone!recoveryVars, Alone!ownerVars
<1>1. Alone!TypeOK
  BY DEF Alone!IInv
<1>2. CASE Alone!ProposeGuardianOp(op) \/ Alone!VetoGuardianOp(op)
  BY <1>2, SameRecoveryIsCalm DEF Alone!ProposeGuardianOp, Alone!VetoGuardianOp
<1>3. CASE Alone!ExecuteAdd(op) \/ Alone!ExecuteSetThreshold(op)
  BY <1>3, SameRecoveryIsCalm DEF Alone!ExecuteAdd, Alone!ExecuteSetThreshold, Alone!TakeReadyOp
<1>4. CASE Alone!ExecuteRemove(op)
  <2>1. /\ op.guardian \in isGuardian /\ isGuardian \subseteq Guardian
        /\ Alone!RevokeApprovalIfPending(op.guardian)
        /\ UNCHANGED <<recoveryDelay, recoveryNonce>>
    BY <1>1, <1>4 DEF Alone!ExecuteRemove, Alone!TakeReadyOp, Alone!TypeOK
  <2>2. /\ Alone!Votes' = Alone!Votes \ {op.guardian}
        /\ pendingRecovery'.readyAt \in {0, pendingRecovery.readyAt}
    <3>1. op.guardian \in Guardian
      BY <2>1
    <3>2. /\ Alone!Votes' = Alone!Votes \ {op.guardian}
          /\ op.guardian \notin Alone!Votes => UNCHANGED <<pendingRecovery, approved>>
          /\ op.guardian \in Alone!Votes =>
               pendingRecovery' =
                 [ promoteKey |-> pendingRecovery.promoteKey,
                   nonce      |-> pendingRecovery.nonce,
                   approvals  |-> pendingRecovery.approvals - 1,
                   readyAt    |-> IF pendingRecovery.approvals - 1 < threshold
                                  THEN 0 ELSE pendingRecovery.readyAt ]
      BY <1>1, <2>1, <3>1, AloneAssumptions, Alone!RevokeRemovesVote
    <3> QED
      BY <3>2
  <2> QED
    BY <2>1, <2>2 DEF Calm
<1> QED
  BY <1>2, <1>3, <1>4

LEMMA RestIsCalm ==
  ASSUME Alone!IInv,
         \/ \E s \in Alone!Roster, t \in Threshold, rd, gd \in Delay : Alone!SetupGuardians(s, t, rd, gd)
         \/ Alone!VetoRecovery \/ Alone!ExecuteRecovery \/ Alone!LoseSigners \/ Alone!Tick
         \/ \E k \in Key : Alone!RevokeKey(k)
  PROVE  Calm
<1> USE DEF Alone!vars, Alone!configVars, Alone!opVars, Alone!recoveryVars, Alone!ownerVars
<1>1. ASSUME NEW s, NEW t, NEW rd, NEW gd, Alone!SetupGuardians(s, t, rd, gd)
      PROVE  Calm
  <2>1. Alone!Votes = {}
    <3>1. guardians \in Seq(Guardian) /\ Len(guardians) = 0
      BY <1>1 DEF Alone!SetupGuardians, Alone!IInv, Alone!TypeOK
    <3>2. Alone!Members(guardians) = {}
      BY <3>1 DEF Alone!Members
    <3> QED
      BY <3>2 DEF Alone!IInv, Alone!RosterMirrored, Alone!ApprovalsCountVoters
  <2>2. pendingRecovery.readyAt = 0
    <3>1. Alone!Cardinality({}) = 0
      <4>1. Cardinality({}) = 0
        BY FS_EmptySet
      <4> QED
        BY <4>1, SameHelpers
    <3>2. pendingRecovery.approvals = 0
      BY <2>1, <3>1 DEF Alone!IInv, Alone!ApprovalsCountVoters
    <3> QED
      BY <3>2 DEF Alone!IInv, Alone!ClockBehindQuorum
  <2> QED
    BY <1>1, <2>2, SameRecoveryIsCalm DEF Alone!SetupGuardians
<1>2. CASE Alone!VetoRecovery \/ Alone!ExecuteRecovery
  <2>1. /\ pendingRecovery' = Alone!NoRecovery /\ approved' = approved
        /\ recoveryNonce' = recoveryNonce + 1
    BY <1>2 DEF Alone!VetoRecovery, Alone!ExecuteRecovery
  <2>2. Alone!TypeOK /\ Alone!VotePart
    BY AloneAssumptions, Alone!Parts
  <2>3. Alone!Votes' = {} /\ pendingRecovery'.readyAt = 0
    BY <2>1, <2>2, AloneAssumptions, Alone!EndOfRound DEF Alone!NoRecovery
  <2> QED
    BY <2>3 DEF Calm
<1>3. CASE Alone!LoseSigners \/ Alone!Tick \/ \E k \in Key : Alone!RevokeKey(k)
  BY <1>3, SameRecoveryIsCalm DEF Alone!LoseSigners, Alone!Tick, Alone!RevokeKey
<1> QED
  BY <1>1, <1>2, <1>3

\* The identity votes with a key of the provider that is usable; the vote that
\* starts the clock counts every voter of the round.
LEMMA ApproveKeeps ==
  ASSUME OpenInv, Alone!IInv', NEW g \in Guardian, NEW k \in Key \cup {NoKey}, NEW n,
         Alone!ApproveRecovery(g, k, n), ObserveRound, UNCHANGED records,
         g = Oidc => \E r \in Record : IsKeyUsable(r)
  PROVE  VoteWasAnchored' /\ ClockWasAnchored'
<1>1. /\ g \in isGuardian /\ Alone!Approve(g, k, recoveryNonce)
      /\ UNCHANGED <<now, threshold, recoveryDelay, recoveryNonce>>
  BY DEF Alone!ApproveRecovery, Alone!configVars
<1>2. Alone!TypeOK /\ Alone!VotePart
  BY AloneAssumptions, Alone!Parts DEF OpenInv
<1>3. /\ g \notin Alone!Votes /\ Alone!Votes' = Alone!Votes \cup {g}
      /\ pendingRecovery' = [ promoteKey |-> k, nonce |-> recoveryNonce,
                              approvals  |-> pendingRecovery.approvals + 1,
                              readyAt    |-> pendingRecovery'.readyAt ]
  BY <1>1, <1>2, AloneAssumptions, Alone!ApproveAddsVote
<1>4. pendingRecovery'.readyAt = IF pendingRecovery.approvals + 1 = threshold
                                 THEN now + recoveryDelay ELSE pendingRecovery.readyAt
  BY <1>1 DEF Alone!Approve
<1>5. VoteWasAnchored'
  <2>1. Oidc \in Alone!Votes \/ g = Oidc => \E r \in Record : Anchored(r, now)
    BY DEF OpenInv, VoteWasAnchored, IsKeyUsable, Anchored
  <2>2. \A r \in Record : Anchored(r, now) => Anchored(r, now)'
    BY <1>1 DEF Anchored
  <2> QED
    BY <1>3, <2>1, <2>2 DEF VoteWasAnchored
<1>6. ClockWasAnchored'
  <2> SUFFICES ASSUME pendingRecovery'.readyAt # 0, ~othersSuffice'
               PROVE  \E r \in Record :
                        /\ records'[r].attestationCount >= Quorum
                        /\ pendingRecovery'.readyAt
                             >= records'[r].firstAttestedAt + AnchorWindow + recoveryDelay'
    BY DEF ClockWasAnchored
  <2>1. CASE pendingRecovery.approvals + 1 # threshold
    <3>1. ~othersSuffice
      BY <1>1 DEF ObserveRound
    <3> QED
      BY <1>1, <1>4, <2>1, <3>1 DEF OpenInv, ClockWasAnchored
  <2>2. CASE pendingRecovery.approvals + 1 = threshold
    <3>1. Alone!Cardinality(Alone!Votes') = threshold'
      BY <1>1, <1>3, <2>2 DEF Alone!IInv, Alone!ApprovalsCountVoters
    <3>2. threshold' \in Nat
      BY DEF Alone!IInv, Alone!TypeOK
    <3>3. Oidc \in Alone!Votes'
      <4> SUFFICES ASSUME Oidc \notin Alone!Votes' PROVE FALSE
        OBVIOUS
      <4>1. Wallet!Votes' = Alone!Votes'
        BY DEF Wallet!Votes, Alone!Votes
      <4>2. OtherVotes' = Alone!Votes'
        BY <4>1 DEF OtherVotes
      <4>3. OtherVotes' # {} /\ Cardinality(OtherVotes') >= threshold'
        <5>1. Cardinality(Alone!Votes') = Alone!Cardinality(Alone!Votes')
          BY SameHelpers
        <5>2. Alone!Votes' # {}
          BY <1>3
        <5>3. Cardinality(OtherVotes') = threshold'
          BY <3>1, <4>2, <5>1
        <5> QED
          BY <3>2, <4>2, <5>2, <5>3
      <4> QED
        BY <1>1, <4>3 DEF ObserveRound
    <3>4. PICK r \in Record : Anchored(r, now)'
      BY <1>5, <3>3 DEF VoteWasAnchored
    <3>5. /\ records'[r].attestationCount >= Quorum
          /\ now' >= records'[r].firstAttestedAt + AnchorWindow
      BY <3>4 DEF Anchored
    <3>6. /\ now \in Nat /\ recoveryDelay \in Nat /\ AnchorWindow \in Nat
          /\ records'[r].firstAttestedAt \in Nat
      BY WindowAssumption DEF OpenInv, Alone!IInv, Alone!TypeOK, RegistryIInv, RegistryTypeOK, KeyRecord
    <3>7. now' = now /\ recoveryDelay' = recoveryDelay /\ pendingRecovery'.readyAt = now + recoveryDelay
      BY <1>1, <1>4, <2>2
    <3> QED
      BY <3>5, <3>6, <3>7
  <2> QED
    BY <2>1, <2>2
<1> QED
  BY <1>5, <1>6

LEMMA OpenStep == OpenInv /\ [OidcNext]_oidcVars => OpenInv'
<1> SUFFICES ASSUME OpenInv, [OidcNext]_oidcVars PROVE OpenInv'
  OBVIOUS
<1>1. Alone!IInv' /\ RegistryIInv' /\ Alone!IInv
  BY AloneStep DEF OpenInv
<1>2. SUFFICES VoteWasAnchored' /\ ClockWasAnchored'
  BY <1>1 DEF OpenInv
<1>3. ASSUME UNCHANGED <<walletVars, othersSuffice>>
      PROVE  VoteWasAnchored' /\ ClockWasAnchored'
  BY <1>3, CalmKeeps, SameRecoveryIsCalm DEF walletVars, RoundIsRemembered
<1>4. ASSUME NEW r \in Record, NEW i \in Identity, NEW k \in Key, NEW n \in Wallet!Nonce,
             SubmitRecoveryApproval(r, i, k, n)
      PROVE  VoteWasAnchored' /\ ClockWasAnchored'
  <2>1. /\ Alone!ApproveRecovery(Oidc, k, n) /\ ObserveRound /\ UNCHANGED records
        /\ IsKeyUsable(r)
    BY <1>4, SameApproval DEF SubmitRecoveryApproval, ledgerVars
  <2> QED
    BY <1>1, <2>1, ApproveKeeps, OidcAssumption
<1>5. ASSUME NEW g \in Guardian \ {Oidc}, NEW k \in Key, NEW n \in Wallet!Nonce,
             Wallet!ApproveRecovery(g, k, n), ObserveRound, UNCHANGED ledgerVars
      PROVE  VoteWasAnchored' /\ ClockWasAnchored'
  <2>1. Alone!ApproveRecovery(g, k, n) /\ UNCHANGED records
    BY <1>5, SameApproval DEF ledgerVars
  <2> QED
    BY <1>1, <1>5, <2>1, ApproveKeeps
<1>6. ASSUME Calm, ObserveRound
      PROVE  VoteWasAnchored' /\ ClockWasAnchored'
  <2>1. RoundIsRemembered
    BY <1>6 DEF ObserveRound, RoundIsRemembered
  <2> QED
    BY <1>6, <2>1, CalmKeeps
<1>7. CASE WalletStep
  <2>1. ASSUME NEW op \in Wallet!Op,
               \/ Wallet!ProposeGuardianOp(op) \/ Wallet!VetoGuardianOp(op)
               \/ Wallet!ExecuteAdd(op) \/ Wallet!ExecuteRemove(op) \/ Wallet!ExecuteSetThreshold(op)
        PROVE  Calm
    BY <1>1, <2>1, SameOps, SameWallet, OpsAreCalm
  <2>2. ASSUME NEW s \in Wallet!Roster, NEW t \in Threshold, NEW rd \in Delay, NEW gd \in Delay,
               Wallet!SetupGuardians(s, t, rd, gd)
        PROVE  Calm
    BY <1>1, <2>2, SameSetup, SameWallet, RestIsCalm
  <2>3. ASSUME \/ Wallet!VetoRecovery \/ Wallet!ExecuteRecovery \/ Wallet!LoseSigners
               \/ \E k \in Key : Wallet!RevokeKey(k)
        PROVE  Calm
    BY <1>1, <2>3, SameEnds, RestIsCalm
  <2> QED
    BY <1>5, <1>6, <1>7, <2>1, <2>2, <2>3 DEF WalletStep
<1>8. CASE Block
  <2>1. Alone!Tick /\ UNCHANGED othersSuffice
    BY <1>8, SameEnds DEF Block
  <2>2. Calm
    BY <1>1, <2>1, RestIsCalm
  <2> QED
    BY <2>1, <2>2, CalmKeeps DEF RoundIsRemembered
<1>9. CASE UNCHANGED oidcVars
  BY <1>3, <1>9 DEF oidcVars
<1>10. CASE RegistryStep \/ (\E c \in Choice : SetRecoveryIdentity(c))
            \/ VetoRecoveryIdentityChange \/ ApplyRecoveryIdentityChange
  BY <1>3, <1>10 DEF RegistryStep, SetRecoveryIdentity, VetoRecoveryIdentityChange, ApplyRecoveryIdentityChange
<1> QED
  BY <1>4, <1>7, <1>8, <1>9, <1>10 DEF OidcNext

LEMMA OpenInit == OidcInit => OpenInv
<1> SUFFICES ASSUME OidcInit PROVE OpenInv
  OBVIOUS
<1>1. Alone!Init /\ RegistryInit
  BY SameWallet DEF OidcInit
<1>2. Alone!IInv
  BY <1>1, AloneAssumptions, Alone!InitEstablishes
<1>3. Alone!Votes = {} /\ pendingRecovery.readyAt = 0
  BY <1>1 DEF Alone!Init, Alone!Votes, Alone!NoRecovery
<1> QED
  BY <1>1, <1>2, <1>3, RegistryInitEstablishes DEF OpenInv, VoteWasAnchored, ClockWasAnchored

\* A key is promoted by the one transaction that executes a recovery.
LEMMA OpenPromotion ==
  ASSUME OpenInv, [OidcNext]_oidcVars, recoveryNonce' # recoveryNonce, keys' # keys, ~othersSuffice
  PROVE  \E r \in Record :
           /\ records[r].attestationCount >= Quorum
           /\ now >= records[r].firstAttestedAt + AnchorWindow + recoveryDelay
<1>1. [Alone!Next]_(Alone!vars)
  BY WalletStepIsAllowed, SameStep
<1>2. Alone!ExecuteRecovery
  <2> USE DEF Alone!vars, Alone!configVars, Alone!opVars, Alone!recoveryVars, Alone!ownerVars
  <2>1. ASSUME NEW op, Alone!TakeReadyOp(op)
        PROVE  FALSE
    BY <2>1 DEF Alone!TakeReadyOp
  <2>2. \/ Alone!ExecuteRecovery \/ Alone!VetoRecovery \/ \E k \in Key : Alone!RevokeKey(k)
    BY <1>1, <2>1
       DEF Alone!Next, Alone!SetupGuardians, Alone!ProposeGuardianOp, Alone!VetoGuardianOp,
           Alone!ExecuteAdd, Alone!ExecuteRemove, Alone!ExecuteSetThreshold, Alone!ApproveRecovery,
           Alone!SignApproval, Alone!ApproveRecoveryBySig, Alone!LoseSigners, Alone!Tick
  <2> QED
    BY <2>2 DEF Alone!VetoRecovery, Alone!RevokeKey
<1>3. pendingRecovery.readyAt # 0 /\ now >= pendingRecovery.readyAt
  BY <1>2 DEF Alone!ExecuteRecovery
<1>4. PICK r \in Record :
        /\ records[r].attestationCount >= Quorum
        /\ pendingRecovery.readyAt >= records[r].firstAttestedAt + AnchorWindow + recoveryDelay
  BY <1>3 DEF OpenInv, ClockWasAnchored
<1>5. /\ now \in Nat /\ recoveryDelay \in Nat /\ pendingRecovery.readyAt \in Nat
      /\ records[r].firstAttestedAt \in Nat /\ AnchorWindow \in Nat
  BY WindowAssumption DEF OpenInv, Alone!IInv, Alone!TypeOK, RegistryIInv, RegistryTypeOK, KeyRecord
<1> QED
  BY <1>3, <1>4, <1>5

THEOREM OpenInvHolds == OidcSpec => []OpenInv
BY OpenInit, OpenStep, PTL DEF OidcSpec

\* OidcRecoveryGuardian.sol:15: a recovery that only the identity's vote
\* carried, in any round and against any roster, comes an anchor window and a
\* recovery delay after the first attestation of a key its provider's quorum
\* attested: a freshly stolen key buys no quick promotion.
THEOREM PromotionIsInTheOpen == OidcSpec => PromotionWasInTheOpen
<1>1. OpenInv /\ [OidcNext]_oidcVars =>
        [ recoveryNonce' # recoveryNonce /\ keys' # keys /\ ~othersSuffice =>
            \E r \in Record :
              /\ records[r].attestationCount >= Quorum
              /\ now >= records[r].firstAttestedAt + AnchorWindow + recoveryDelay ]_oidcVars
  BY OpenPromotion
<1> QED
  BY <1>1, OpenInvHolds, PTL DEF OidcSpec, PromotionWasInTheOpen

-----------------------------------------------------------------------------
(***************************************************************************)
(* The keepers, contracts/script/keeper.mjs.  What an attestation needs to *)
(* be counted on (an item that was sent, a transaction that waits) is said *)
(* of every item and every transaction.                                    *)
(***************************************************************************)

\* Induction over the numbers, for a set closed under successors.
LEMMA SetInduction ==
  ASSUME NEW T, 0 \in T, \A n \in Nat : n \in T => n + 1 \in T
  PROVE  Nat \subseteq T
<1> DEFINE Bad == Nat \ T
           R == {ss \in Nat \X Nat : ss[1] < ss[2]}
<1>1. IsWellFoundedOn(R, Nat)
  BY NatLessThanWellFounded DEF OpToRel
<1> SUFFICES ASSUME Bad # {} PROVE FALSE
  OBVIOUS
<1>2. PICK x \in Bad : \A y \in Bad : ~(<<y, x>> \in R)
  <2> HIDE DEF R, Bad
  <2>1. Bad \subseteq Nat
    BY DEF Bad
  <2> QED
    BY <1>1, <2>1, WFMin
<1>3. x \in Nat /\ x \notin T /\ x - 1 \in Nat
  OBVIOUS
<1>4. <<x - 1, x>> \in R
  BY <1>3
<1>5. x - 1 \in T
  BY <1>2, <1>3, <1>4
<1> QED
  BY <1>3, <1>5

\* The recursion in FlattenSeq.
Flattens(g, seqs, m) ==
  \A i \in 1 .. m : g[i] = IF i = 1 THEN seqs[i] ELSE g[i - 1] \o seqs[i]

LEMMA FlattenExists ==
  ASSUME NEW S, NEW n \in Nat, NEW seqs \in [1 .. n -> Seq(S)]
  PROVE  \E g \in [1 .. n -> Seq(S)] : Flattens(g, seqs, n)
<1> DEFINE T == {m \in Nat : m <= n => \E g \in [1 .. m -> Seq(S)] : Flattens(g, seqs, m)}
<1>1. 0 \in T
  <2>1. [i \in 1 .. 0 |-> <<>>] \in [1 .. 0 -> Seq(S)] /\ Flattens([i \in 1 .. 0 |-> <<>>], seqs, 0)
    BY DEF Flattens
  <2> QED
    BY <2>1
<1>2. ASSUME NEW m \in Nat, m \in T
      PROVE  m + 1 \in T
  <2> SUFFICES ASSUME m + 1 <= n
               PROVE  \E g \in [1 .. m + 1 -> Seq(S)] : Flattens(g, seqs, m + 1)
    OBVIOUS
  <2>1. PICK g \in [1 .. m -> Seq(S)] : Flattens(g, seqs, m)
    BY <1>2
  <2> DEFINE next == IF m = 0 THEN seqs[1] ELSE g[m] \o seqs[m + 1]
             h == [i \in 1 .. m + 1 |-> IF i = m + 1 THEN next ELSE g[i]]
  <2>2. next \in Seq(S)
    OBVIOUS
  <2>3. h \in [1 .. m + 1 -> Seq(S)]
    BY <2>2
  <2>4. Flattens(h, seqs, m + 1)
    <3> SUFFICES ASSUME NEW i \in 1 .. m + 1
                 PROVE  h[i] = IF i = 1 THEN seqs[i] ELSE h[i - 1] \o seqs[i]
      BY DEF Flattens
    <3>1. CASE i = m + 1
      BY <3>1
    <3>2. CASE i \in 1 .. m
      <4>1. g[i] = IF i = 1 THEN seqs[i] ELSE g[i - 1] \o seqs[i]
        BY <2>1, <3>2 DEF Flattens
      <4>2. h[i] = g[i] /\ (i # 1 => h[i - 1] = g[i - 1])
        <5> HIDE DEF next
        <5> QED
          BY <3>2
      <4> QED
        BY <4>1, <4>2
    <3> QED
      BY <3>1, <3>2
  <2> HIDE DEF h
  <2> QED
    BY <2>3, <2>4
<1> HIDE DEF T
<1>3. n \in T
  BY <1>1, <1>2, SetInduction
<1> QED
  BY <1>3 DEF T

LEMMA FlattenIsSeq ==
  ASSUME NEW S, NEW n \in Nat, NEW seqs \in [1 .. n -> Seq(S)]
  PROVE  FlattenSeq(seqs) \in Seq(S)
<1>0. Len(seqs) = n
  OBVIOUS
<1>1. CASE n = 0
  BY <1>0, <1>1 DEF FlattenSeq
<1>2. CASE n # 0
  <2> DEFINE eq(g) == g = [i \in 1 .. Len(seqs) |-> IF i = 1 THEN seqs[i] ELSE g[i - 1] \o seqs[i]]
             f == CHOOSE g : eq(g)
  <2>1. PICK g \in [1 .. n -> Seq(S)] : Flattens(g, seqs, n)
    BY FlattenExists
  <2>2. eq(g)
    BY <1>0, <2>1 DEF Flattens
  <2>3. eq(f)
    <3> HIDE DEF eq
    <3> QED BY <2>2
  <2>4. \A m \in Nat : m \in 1 .. n => f[m] \in Seq(S)
    <3> DEFINE T == {m \in Nat : m \in 1 .. n => f[m] \in Seq(S)}
    <3> HIDE DEF f
    <3>1. 0 \in T
      OBVIOUS
    <3>2. ASSUME NEW m \in Nat, m \in T PROVE m + 1 \in T
      <4> SUFFICES ASSUME m + 1 \in 1 .. n PROVE f[m + 1] \in Seq(S)
        OBVIOUS
      <4>1. f = [i \in 1 .. n |-> IF i = 1 THEN seqs[i] ELSE f[i - 1] \o seqs[i]]
        BY <2>3, <1>0
      <4>2. f[m + 1] = IF m + 1 = 1 THEN seqs[m + 1] ELSE f[(m + 1) - 1] \o seqs[m + 1]
        BY <4>1
      <4> QED
        BY <4>2, <3>2
    <3> HIDE DEF T
    <3>3. Nat \subseteq T
      BY <3>1, <3>2, SetInduction
    <3> QED
      BY <3>3 DEF T
  <2>5. FlattenSeq(seqs) = f[n]
    BY <1>0, <1>2 DEF FlattenSeq
  <2> HIDE DEF f
  <2> QED
    BY <1>2, <2>4, <2>5
<1> QED
  BY <1>1, <1>2
RecordOf(item) == <<item.kid, item.hash>>
TxOf(a) == [from : {a}, action : {"attest", "attestRotated"}, record : Record]

KeeperTypes ==
  /\ live \in [Kid -> Hash \cup {NoHash}]
  /\ seen \in [Attestor -> [Kid -> Hash \cup {NoHash}]]
  /\ plan \in [Attestor -> Seq(Item)]
  /\ DOMAIN mempool = Attestor /\ \A a \in Attestor : mempool[a] \in Seq(TxOf(a))
  /\ faults \in Nat

\* A plan is worked off in its order.
InOrder ==
  \A a \in Attestor : \A i \in 1..Len(plan[a]) :
    plan[a][i].status # "new" => \A j \in 1..(i - 1) : plan[a][j].status \in {"ok", "failed"}

\* What was served once is served still, or was dropped.
ServedOrDropped ==
  /\ \A kid \in Kid : live[kid] # NoHash => <<kid, live[kid]>> \in published
  /\ \A kid \in Kid, hash \in Hash : <<kid, hash>> \in published => live[kid] = hash \/ <<kid, hash>> \in dropped

\* An item is about what was served or was dropped; and an attestation that
\* was sent is on chain or on its way, and on chain once it is marked ok.
ItemHolds(a, item) ==
  /\ item.action = "attest" => RecordOf(item) \in published
  /\ item.action = "attestRotated" => RecordOf(item) \in dropped
  /\ item.action = "attest" /\ item.status = "ok" => <<RecordOf(item), a>> \in hasAttested
  /\ item.action = "attest" /\ item.status = "sent" =>
       \/ <<RecordOf(item), a>> \in hasAttested
       \/ \E k \in 1..Len(mempool[a]) : mempool[a][k] = Tx(a, item)

\* A transaction that waits fails only if another one did its work.
TxHolds(a, tx) ==
  /\ tx.action = "attest" => tx.record \in published /\ a \in isAttestor /\ tx.record \in FieldRecord
  /\ tx.action = "attestRotated" => tx.record \in dropped

ItemsHold == \A a \in Attestor : \A i \in 1..Len(plan[a]) : ItemHolds(a, plan[a][i])
TxsHold == \A a \in Attestor : \A k \in 1..Len(mempool[a]) : TxHolds(a, mempool[a][k])

IKeeper ==
  /\ KeeperTypes /\ InOrder /\ ServedOrDropped /\ ItemsHold /\ TxsHold
  /\ SeenIsOnChain /\ KeepersReportTheProvider

-----------------------------------------------------------------------------
(* The plan of a run. *)

LEMMA KidsInARow ==
  /\ Cardinality(Kid) \in Nat
  /\ SetToSeq(Kid) \in [1..Cardinality(Kid) -> Kid]
<1>1. PICK n \in Nat : ExistsBijection(1..n, Kid)
  BY KeeperAssumption, FS_NatBijection
<1>2. Cardinality(Kid) = n
  BY <1>1, FS_CountingElements
<1>3. \E f \in [1..n -> Kid] : IsInjective(f)
  BY <1>1 DEF ExistsBijection, Bijection, Injection
<1> QED
  BY <1>2, <1>3 DEF SetToSeq

\* What a plan made from a state file asks for.
Asked(state) ==
  { item \in Item : /\ item.status = "new"
                    /\ item.action = "attest" => item.hash = live[item.kid]
                    /\ item.action = "attestRotated" => item.hash = state[item.kid] /\ live[item.kid] # item.hash }

LEMMA PlanAsks ==
  ASSUME KeeperTypes, NEW state \in [Kid -> Hash \cup {NoHash}]
  PROVE  Plan(state) \in Seq(Asked(state))
<1> DEFINE kids == SetToSeq(Kid)
           n == Len(kids)
           lives == [i \in 1..n |-> PlanLive(kids[i], state[kids[i]])]
           gone == [i \in 1..n |-> PlanGone(kids[i], state[kids[i]])]
           S == Asked(state)
<1>1. n \in Nat /\ \A i \in 1..n : kids[i] \in Kid
  BY KidsInARow
<1>2. ASSUME NEW kid \in Kid
      PROVE  PlanLive(kid, state[kid]) \in Seq(S) /\ PlanGone(kid, state[kid]) \in Seq(S)
  <2> DEFINE old == state[kid]
  <2>1. live[kid] \in Hash \cup {NoHash} /\ old \in Hash \cup {NoHash}
    BY DEF KeeperTypes
  <2>2. live[kid] # NoHash => NewItem("attest", kid, live[kid]) \in S
    BY <2>1 DEF NewItem, Asked, Item
  <2>3. old # NoHash /\ live[kid] # old => NewItem("attestRotated", kid, old) \in S
    BY <2>1 DEF NewItem, Asked, Item
  <2> HIDE DEF S
  <2> QED
    BY <2>2, <2>3 DEF PlanLive, PlanGone
<1> HIDE DEF kids, S
<1>3. lives \in [1..n -> Seq(S)] /\ gone \in [1..n -> Seq(S)]
  BY <1>1, <1>2
<1>4. FlattenSeq(lives) \in Seq(S) /\ FlattenSeq(gone) \in Seq(S)
  <2> HIDE DEF lives, gone, n
  <2> QED
    BY <1>1, <1>3, FlattenIsSeq
<1>5. Plan(state) = FlattenSeq(lives) \o FlattenSeq(gone)
  BY DEF Plan, kids
<1> HIDE DEF lives, gone
<1> QED
  BY <1>4, <1>5 DEF S

-----------------------------------------------------------------------------
(* The update of the state file. *)

LEMMA Latest ==
  ASSUME NEW n \in Nat, NEW T, T \subseteq 1..n, T # {}
  PROVE  Max(T) \in T
<1> DEFINE U == {n - x : x \in T}
           R == {ss \in Nat \X Nat : ss[1] < ss[2]}
<1>1. IsWellFoundedOn(R, Nat)
  BY NatLessThanWellFounded DEF OpToRel
<1>2. U \subseteq Nat /\ U # {}
  <2>1. \A x \in T : x \in Nat /\ x <= n
    OBVIOUS
  <2>2. \A x \in T : n - x \in Nat
    BY <2>1
  <2> QED
    BY <2>2
<1>3. PICK u \in U : \A v \in U : ~(<<v, u>> \in R)
  <2> HIDE DEF R, U
  <2> QED
    BY <1>1, <1>2, WFMin
<1>4. PICK x \in T : u = n - x
  OBVIOUS
<1>5. \A y \in T : x >= y
  <2> SUFFICES ASSUME NEW y \in T PROVE x >= y
    OBVIOUS
  <2>1. ~(n - y < n - x)
    BY <1>2, <1>3, <1>4
  <2> QED
    BY <2>1
<1> QED
  BY <1>5 DEF Max

\* What is written of a kid is what was known, or nothing, or what landed.
LEMMA LandedIs ==
  ASSUME NEW state \in [Kid -> Hash \cup {NoHash}], NEW items \in Seq(Item), NEW kid \in Kid
  PROVE  \/ Landed(state, items)[kid] \in {state[kid], NoHash}
         \/ \E i \in 1..Len(items) : /\ items[i].kid = kid /\ items[i].status = "ok" /\ items[i].action = "attest"
                                     /\ Landed(state, items)[kid] = items[i].hash
<1> DEFINE ok == {i \in 1..Len(items) : items[i].kid = kid /\ items[i].status = "ok"}
           last == items[Max(ok)]
<1>1. Landed(state, items)[kid] =
        IF ok = {} THEN state[kid] ELSE IF last.action = "attest" THEN last.hash ELSE NoHash
  BY DEF Landed
<1>2. ok # {} => Max(ok) \in ok
  <2>1. ok \subseteq 1..Len(items) /\ Len(items) \in Nat
    OBVIOUS
  <2> HIDE DEF ok
  <2> QED
    BY <2>1, Latest
<1> QED
  BY <1>1, <1>2

LEMMA LandedType ==
  ASSUME NEW state \in [Kid -> Hash \cup {NoHash}], NEW items \in Seq(Item)
  PROVE  Landed(state, items) \in [Kid -> Hash \cup {NoHash}]
<1>1. \A kid \in Kid : Landed(state, items)[kid] \in Hash \cup {NoHash}
  <2> SUFFICES ASSUME NEW kid \in Kid PROVE Landed(state, items)[kid] \in Hash \cup {NoHash}
    OBVIOUS
  <2>1. \A i \in 1..Len(items) : items[i].hash \in Hash
    <3>1. \A item \in Item : item.hash \in Hash
      BY DEF Item
    <3> QED
      BY <3>1
  <2> QED
    BY <2>1, LandedIs
<1>2. Landed(state, items) = [kid \in Kid |-> Landed(state, items)[kid]]
  BY DEF Landed
<1> QED
  BY <1>1, <1>2

-----------------------------------------------------------------------------
(* The steps of a run. *)

LEMMA MarkMoves ==
  ASSUME KeeperTypes, NEW a \in Attestor, NEW i \in 1..Len(plan[a]),
         NEW status, status \in {"new", "sent", "ok", "failed"}, Mark(a, i, status)
  PROVE  /\ plan' \in [Attestor -> Seq(Item)]
         /\ \A b \in Attestor : Len(plan'[b]) = Len(plan[b])
         /\ \A b \in Attestor, k \in Nat : b # a \/ k # i => plan'[b][k] = plan[b][k]
         /\ plan'[a][i] = [plan[a][i] EXCEPT !.status = status]
<1> DEFINE s == plan[a]
           new == [s[i] EXCEPT !.status = status]
           t == [s EXCEPT ![i] = new]
<1>1. s \in Seq(Item) /\ s[i] \in Item /\ Len(s) \in Nat /\ i \in 1..Len(s)
  BY DEF KeeperTypes
<1>2. new \in Item
  BY <1>1 DEF Item
<1>3. plan' = [plan EXCEPT ![a] = t]
  BY DEF Mark
<1> HIDE DEF s, new
<1>4. t \in Seq(Item) /\ Len(t) = Len(s) /\ t[i] = new /\ \A k \in Nat : k # i => t[k] = s[k]
  <2>1. DOMAIN s = 1..Len(s)
    BY <1>1
  <2>2. t \in [1..Len(s) -> Item]
    <3>1. s \in [1..Len(s) -> Item]
      BY <1>1
    <3> QED
      BY <1>2, <3>1
  <2>3. t \in Seq(Item) /\ Len(t) = Len(s)
    BY <1>1, <2>2
  <2>4. t[i] = new
    BY <1>1, <2>1
  <2>5. \A k \in Nat : k # i => t[k] = s[k]
    OBVIOUS
  <2> QED
    BY <2>3, <2>4, <2>5
<1> HIDE DEF t
<1>5. plan'[a] = t /\ \A b \in Attestor \ {a} : plan'[b] = plan[b]
  BY <1>3 DEF KeeperTypes
<1>6. plan' \in [Attestor -> Seq(Item)]
  BY <1>3, <1>4 DEF KeeperTypes
<1> QED
  BY <1>4, <1>5, <1>6 DEF s, new

LEMMA MarkKeepsOrder ==
  ASSUME KeeperTypes, InOrder, NEW a \in Attestor, NEW i \in 1..Len(plan[a]), At(a, i),
         NEW status \in {"sent", "ok", "failed"}, Mark(a, i, status)
  PROVE  InOrder'
<1>1. /\ plan' \in [Attestor -> Seq(Item)]
      /\ \A b \in Attestor : Len(plan'[b]) = Len(plan[b])
      /\ \A b \in Attestor, k \in Nat : b # a \/ k # i => plan'[b][k] = plan[b][k]
      /\ plan'[a][i] = [plan[a][i] EXCEPT !.status = status]
  <2>1. status \in {"new", "sent", "ok", "failed"}
    OBVIOUS
  <2> QED
    BY <2>1, MarkMoves
<1>2. i \in Nat /\ \A b \in Attestor : Len(plan[b]) \in Nat
  BY DEF KeeperTypes
<1> SUFFICES ASSUME NEW b \in Attestor, NEW k \in 1..Len(plan[b]), plan'[b][k].status # "new", NEW j \in 1..(k - 1)
             PROVE  plan'[b][j].status \in {"ok", "failed"}
  BY <1>1 DEF InOrder
<1>3. j \in Nat /\ k \in Nat /\ j < k
  BY <1>2
<1>4. CASE b # a
  BY <1>1, <1>3, <1>4 DEF InOrder
<1>5. CASE b = a /\ k = i
  <2>1. plan'[a][j] = plan[a][j]
    BY <1>1, <1>3, <1>5
  <2> QED
    BY <2>1, <1>5 DEF At
<1>6. CASE b = a /\ k # i
  <2>1. plan[a][k].status # "new"
    BY <1>1, <1>3, <1>6
  <2>2. j # i
    <3>1. plan[a][j].status \in {"ok", "failed"}
      BY <2>1, <1>6 DEF InOrder
    <3> QED
      BY <3>1 DEF At
  <2>3. plan'[a][j] = plan[a][j]
    BY <2>2, <1>1, <1>3
  <2> QED
    BY <2>1, <2>3, <1>6 DEF InOrder
<1> QED
  BY <1>4, <1>5, <1>6

\* An item is done with.
LEMMA DoneStep ==
  ASSUME IKeeper, NEW a \in Attestor, NEW i \in 1..Len(plan[a]), At(a, i),
         NEW status \in {"ok", "failed"}, Mark(a, i, status),
         UNCHANGED <<registryVars, providerVars, seen, mempool>>, faults' \in Nat,
         status = "ok" /\ plan[a][i].action = "attest" => <<RecordOf(plan[a][i]), a>> \in hasAttested
  PROVE  IKeeper'
<1> DEFINE item == plan[a][i]
<1>1. KeeperTypes /\ InOrder
  BY DEF IKeeper
<1>2. /\ plan' \in [Attestor -> Seq(Item)]
      /\ \A b \in Attestor : Len(plan'[b]) = Len(plan[b])
      /\ \A b \in Attestor, k \in Nat : b # a \/ k # i => plan'[b][k] = plan[b][k]
      /\ plan'[a][i] = [item EXCEPT !.status = status]
  <2>1. status \in {"new", "sent", "ok", "failed"}
    OBVIOUS
  <2> QED
    BY <1>1, <2>1, MarkMoves
<1>3. item \in Item
  BY <1>1 DEF KeeperTypes
<1>4. /\ plan'[a][i].action = item.action /\ RecordOf(plan'[a][i]) = RecordOf(item)
      /\ plan'[a][i].status = status
  BY <1>2, <1>3 DEF Item, RecordOf
<1>5. UNCHANGED <<hasAttested, hasRotated, isAttestor, live, published, dropped, seen, mempool>>
  BY DEF registryVars, rosterVars, providerVars
<1>6. ItemsHold'
  <2> SUFFICES ASSUME NEW b \in Attestor, NEW k \in 1..Len(plan[b])
               PROVE  ItemHolds(b, plan[b][k])'
    BY <1>2 DEF ItemsHold
  <2>0. k \in Nat /\ ItemHolds(b, plan[b][k])
    BY <1>1 DEF KeeperTypes, IKeeper, ItemsHold
  <2>1. CASE b # a \/ k # i
    BY <2>0, <2>1, <1>2, <1>5 DEF ItemHolds
  <2>2. CASE b = a /\ k = i
    <3> HIDE DEF item
    <3>1. ItemHolds(a, item)
      BY <2>0, <2>2 DEF item
    <3> QED
      BY <3>1, <2>2, <1>4, <1>5 DEF ItemHolds, item
  <2> QED
    BY <2>1, <2>2
<1>7. InOrder'
  BY <1>1, MarkKeepsOrder
<1>8. KeeperTypes' /\ TxsHold' /\ ServedOrDropped' /\ SeenIsOnChain' /\ KeepersReportTheProvider'
  BY <1>2, <1>5 DEF IKeeper, KeeperTypes, TxsHold, TxHolds, ServedOrDropped, SeenIsOnChain, KeepersReportTheProvider
<1> QED
  BY <1>6, <1>7, <1>8 DEF IKeeper

LEMMA SubmitStep ==
  ASSUME IKeeper, NEW a \in Attestor, NEW i \in 1..Len(plan[a]), Submit(a, i)
  PROVE  IKeeper'
<1> DEFINE item == plan[a][i]
           tx == Tx(a, item)
           n == Len(mempool[a])
<1>1. KeeperTypes /\ InOrder
  BY DEF IKeeper
<1>2. /\ At(a, i) /\ item.status = "new" /\ WouldSucceed(tx) /\ Mark(a, i, "sent")
      /\ mempool' = [mempool EXCEPT ![a] = Append(mempool[a], tx)]
      /\ UNCHANGED <<registryVars, providerVars, seen, faults>>
  BY DEF Submit
<1>3. /\ plan' \in [Attestor -> Seq(Item)]
      /\ \A b \in Attestor : Len(plan'[b]) = Len(plan[b])
      /\ \A b \in Attestor, k \in Nat : b # a \/ k # i => plan'[b][k] = plan[b][k]
      /\ plan'[a][i] = [item EXCEPT !.status = "sent"]
  BY <1>1, <1>2, MarkMoves
<1>4. item \in Item
  BY <1>1 DEF KeeperTypes
<1>5. /\ plan'[a][i].action = item.action /\ RecordOf(plan'[a][i]) = RecordOf(item)
      /\ plan'[a][i].status = "sent" /\ Tx(a, plan'[a][i]) = tx
  BY <1>3, <1>4 DEF Item, RecordOf, Tx
<1>6. tx \in TxOf(a) /\ tx.action = item.action /\ tx.record = RecordOf(item) /\ tx.from = a
  BY <1>4, KeeperAssumption DEF Tx, TxOf, Item, RecordOf
<1>7. UNCHANGED <<hasAttested, hasRotated, isAttestor, live, published, dropped, seen, faults>>
  BY <1>2 DEF registryVars, rosterVars, providerVars
<1> HIDE DEF item, tx
<1>8. /\ DOMAIN mempool' = Attestor /\ \A b \in Attestor \ {a} : mempool'[b] = mempool[b]
      /\ mempool[a] \in Seq(TxOf(a)) /\ n \in Nat
      /\ mempool'[a] \in Seq(TxOf(a)) /\ Len(mempool'[a]) = n + 1 /\ mempool'[a][n + 1] = tx
      /\ \A k \in 1..n : mempool'[a][k] = mempool[a][k]
  BY <1>1, <1>2, <1>6 DEF KeeperTypes
<1>9. KeeperTypes'
  <2>1. \A b \in Attestor : mempool'[b] \in Seq(TxOf(b))
    BY <1>1, <1>8 DEF KeeperTypes
  <2> QED
    BY <2>1, <1>1, <1>3, <1>7, <1>8 DEF KeeperTypes, TxOf
<1>10. ItemHolds(a, item)
  BY <1>1 DEF IKeeper, ItemsHold, item, KeeperTypes
<1>11. ItemsHold'
  <2> SUFFICES ASSUME NEW b \in Attestor, NEW k \in 1..Len(plan[b])
               PROVE  ItemHolds(b, plan[b][k])'
    BY <1>3 DEF ItemsHold
  <2>0. k \in Nat /\ ItemHolds(b, plan[b][k])
    BY <1>1 DEF KeeperTypes, IKeeper, ItemsHold
  <2>1. CASE b # a
    <3>1. plan'[b][k] = plan[b][k] /\ mempool'[b] = mempool[b]
      BY <2>0, <2>1, <1>3, <1>8
    <3> QED
      BY <2>0, <3>1, <1>7 DEF ItemHolds
  <2>2. CASE b = a /\ k # i
    <3>1. plan'[a][k] = plan[a][k]
      BY <2>0, <2>2, <1>3
    <3>2. \A other : (\E m \in 1..n : mempool[a][m] = other) => \E m \in 1..Len(mempool'[a]) : mempool'[a][m] = other
      BY <1>8
    <3> HIDE DEF n
    <3> QED
      BY <2>0, <2>2, <3>1, <3>2, <1>7 DEF ItemHolds, n
  <2>3. CASE b = a /\ k = i
    <3>1. \E m \in 1..Len(mempool'[a]) : mempool'[a][m] = tx
      BY <1>8
    <3> QED
      BY <2>3, <3>1, <1>5, <1>7, <1>10 DEF ItemHolds
  <2> QED
    BY <2>1, <2>2, <2>3
<1>12. TxHolds(a, tx)
  BY <1>2, <1>6, <1>10 DEF ItemHolds, TxHolds, WouldSucceed, MayAttest
<1>13. TxsHold'
  <2> SUFFICES ASSUME NEW b \in Attestor, NEW k \in 1..Len(mempool'[b])
               PROVE  TxHolds(b, mempool[b][k])'
    BY DEF TxsHold
  <2>1. CASE b # a
    BY <2>1, <1>7, <1>8 DEF IKeeper, TxsHold, TxHolds
  <2>2. CASE b = a /\ k \in 1..n
    BY <2>2, <1>7, <1>8 DEF IKeeper, TxsHold, TxHolds
  <2>3. CASE b = a /\ k = n + 1
    BY <2>3, <1>7, <1>8, <1>12 DEF TxHolds
  <2> QED
    BY <2>1, <2>2, <2>3, <1>8
<1>14. InOrder'
  BY <1>1, <1>2, MarkKeepsOrder
<1>15. ServedOrDropped' /\ SeenIsOnChain' /\ KeepersReportTheProvider'
  BY <1>7 DEF IKeeper, ServedOrDropped, SeenIsOnChain, KeepersReportTheProvider
<1> QED
  BY <1>9, <1>11, <1>13, <1>14, <1>15 DEF IKeeper

LEMMA RejectedStep ==
  ASSUME IKeeper, NEW a \in Attestor, NEW i \in 1..Len(plan[a]), Rejected(a, i)
  PROVE  IKeeper'
<1> DEFINE item == plan[a][i]
           tx == Tx(a, item)
<1>1. /\ At(a, i) /\ UNCHANGED <<registryVars, providerVars, seen, mempool, faults>>
      /\ Mark(a, i, "failed") \/ (RevertsAlreadyAttested(tx) /\ Mark(a, i, "ok"))
  BY DEF Rejected
<1>2. faults' \in Nat
  BY <1>1 DEF IKeeper, KeeperTypes
<1>3. CASE Mark(a, i, "failed")
  BY <1>1, <1>2, <1>3, DoneStep
<1>4. CASE RevertsAlreadyAttested(tx) /\ Mark(a, i, "ok")
  <2>1. tx.action = item.action /\ tx.record = RecordOf(item) /\ tx.from = a
    BY DEF Tx, RecordOf
  <2>2. item.action = "attest" => <<RecordOf(item), a>> \in hasAttested
    <3> HIDE DEF tx, item
    <3> QED
      BY <1>4, <2>1 DEF RevertsAlreadyAttested
  <2> QED
    BY <1>1, <1>2, <1>4, <2>2, DoneStep
<1> QED
  BY <1>1, <1>3, <1>4

LEMMA ReceiptStep ==
  ASSUME IKeeper, NEW a \in Attestor, NEW i \in 1..Len(plan[a]), Receipt(a, i)
  PROVE  IKeeper'
<1> DEFINE item == plan[a][i]
<1>1. /\ At(a, i) /\ item.status = "sent" /\ mempool[a] = <<>> /\ Mark(a, i, "ok")
      /\ UNCHANGED <<registryVars, providerVars, seen, mempool, faults>>
  BY DEF Receipt
<1>2. faults' \in Nat
  BY <1>1 DEF IKeeper, KeeperTypes
<1>3. item.action = "attest" => <<RecordOf(item), a>> \in hasAttested
  <2>1. ItemHolds(a, item)
    BY DEF IKeeper, ItemsHold
  <2> HIDE DEF item
  <2> QED
    BY <1>1, <2>1 DEF ItemHolds
<1> QED
  BY <1>1, <1>2, <1>3, DoneStep

\* The plans of the others, and nothing else, are as they were.
LEMMA NewPlanStep ==
  ASSUME IKeeper, NEW a \in Attestor, NEW items \in Seq(Item), plan' = [plan EXCEPT ![a] = items],
         UNCHANGED <<registryVars, providerVars, mempool>>, faults' \in Nat,
         \A i \in 1..Len(items) : items[i].status = "new" /\ ItemHolds(a, items[i]),
         seen' \in [Attestor -> [Kid -> Hash \cup {NoHash}]], SeenIsOnChain'
  PROVE  IKeeper'
<1>1. /\ plan'[a] = items /\ \A b \in Attestor \ {a} : plan'[b] = plan[b]
      /\ plan' \in [Attestor -> Seq(Item)]
  BY DEF IKeeper, KeeperTypes
<1>2. UNCHANGED <<hasAttested, hasRotated, isAttestor, live, published, dropped, mempool>>
  BY DEF registryVars, rosterVars, providerVars
<1>3. ItemsHold'
  <2> SUFFICES ASSUME NEW b \in Attestor, NEW k \in 1..Len(plan'[b])
               PROVE  ItemHolds(b, plan[b][k])'
    BY DEF ItemsHold
  <2>1. ItemHolds(b, plan'[b][k])
    BY <1>1 DEF IKeeper, ItemsHold
  <2> QED
    BY <2>1, <1>2 DEF ItemHolds
<1>4. InOrder'
  <2> SUFFICES ASSUME NEW b \in Attestor, NEW k \in 1..Len(plan'[b]), plan'[b][k].status # "new"
               PROVE  \A j \in 1..(k - 1) : plan'[b][j].status \in {"ok", "failed"}
    BY DEF InOrder
  <2>1. b # a
    BY <1>1
  <2> QED
    BY <2>1, <1>1 DEF IKeeper, InOrder
<1>5. KeeperTypes' /\ TxsHold' /\ ServedOrDropped' /\ KeepersReportTheProvider'
  BY <1>1, <1>2 DEF IKeeper, KeeperTypes, TxsHold, TxHolds, ServedOrDropped, KeepersReportTheProvider
<1> QED
  BY <1>3, <1>4, <1>5 DEF IKeeper

LEMMA StartStep ==
  ASSUME IKeeper, NEW a \in Attestor, Start(a)
  PROVE  IKeeper'
<1> DEFINE items == Plan(seen[a])
           S == Asked(seen[a])
<1>1. plan' = [plan EXCEPT ![a] = items] /\ UNCHANGED <<registryVars, providerVars, seen, mempool, faults>>
  BY DEF Start
<1>2. KeeperTypes /\ seen[a] \in [Kid -> Hash \cup {NoHash}]
  BY DEF IKeeper, KeeperTypes
<1>3. items \in Seq(S)
  BY <1>2, PlanAsks
<1>4. S \subseteq Item
  BY DEF Asked
<1>5. ASSUME NEW item \in S
      PROVE  item.status = "new" /\ ItemHolds(a, item)
  <2>1. /\ item \in Item /\ item.status = "new"
        /\ item.action = "attest" => item.hash = live[item.kid]
        /\ item.action = "attestRotated" => item.hash = seen[a][item.kid] /\ live[item.kid] # item.hash
    BY DEF Asked
  <2>2. item.kid \in Kid /\ item.hash \in Hash /\ item.hash # NoHash /\ RecordOf(item) \in Record
    BY <2>1, KeeperAssumption DEF Item, RecordOf
  <2>3. item.action = "attest" => RecordOf(item) \in published
    BY <2>1, <2>2 DEF IKeeper, ServedOrDropped, RecordOf
  <2>4. ASSUME item.action = "attestRotated" PROVE RecordOf(item) \in dropped
    <3>1. <<RecordOf(item), a>> \in hasAttested
      BY <2>1, <2>2, <2>4 DEF IKeeper, SeenIsOnChain, RecordOf
    <3>2. RecordOf(item) \in published
      BY <2>2, <3>1 DEF IKeeper, KeepersReportTheProvider
    <3> QED
      BY <2>1, <2>2, <2>4, <3>2 DEF IKeeper, ServedOrDropped, RecordOf
  <2> HIDE DEF S
  <2> QED
    BY <2>1, <2>3, <2>4 DEF ItemHolds
<1> HIDE DEF S, items
<1>6. items \in Seq(Item) /\ \A i \in 1..Len(items) : items[i].status = "new" /\ ItemHolds(a, items[i])
  BY <1>3, <1>4, <1>5
<1>7. faults' \in Nat /\ seen' \in [Attestor -> [Kid -> Hash \cup {NoHash}]]
  BY <1>1, <1>2 DEF KeeperTypes
<1>8. SeenIsOnChain'
  BY <1>1 DEF IKeeper, SeenIsOnChain, registryVars
<1> QED
  BY <1>1, <1>6, <1>7, <1>8, NewPlanStep

LEMMA SaveStep ==
  ASSUME IKeeper, NEW a \in Attestor, Save(a)
  PROVE  IKeeper'
<1> DEFINE file == Landed(seen[a], plan[a])
<1>1. /\ seen' = [seen EXCEPT ![a] = file] /\ plan' = [plan EXCEPT ![a] = <<>>]
      /\ UNCHANGED <<registryVars, providerVars, mempool, faults>>
  BY DEF Save
<1>2. KeeperTypes /\ seen[a] \in [Kid -> Hash \cup {NoHash}] /\ plan[a] \in Seq(Item)
  BY DEF IKeeper, KeeperTypes
<1>3. file \in [Kid -> Hash \cup {NoHash}]
  BY <1>2, LandedType
<1>4. ASSUME NEW kid \in Kid, file[kid] # NoHash
      PROVE  <<<<kid, file[kid]>>, a>> \in hasAttested
  <2>1. CASE file[kid] = seen[a][kid]
    BY <1>4, <2>1 DEF IKeeper, SeenIsOnChain
  <2>2. CASE file[kid] # seen[a][kid]
    <3>1. PICK i \in 1..Len(plan[a]) :
            /\ plan[a][i].kid = kid /\ plan[a][i].status = "ok" /\ plan[a][i].action = "attest"
            /\ file[kid] = plan[a][i].hash
      <4>1. \/ file[kid] \in {seen[a][kid], NoHash}
            \/ \E i \in 1..Len(plan[a]) :
                 /\ plan[a][i].kid = kid /\ plan[a][i].status = "ok" /\ plan[a][i].action = "attest"
                 /\ file[kid] = plan[a][i].hash
        BY <1>2, LandedIs
      <4> HIDE DEF file
      <4> QED
        BY <1>4, <2>2, <4>1
    <3>2. ItemHolds(a, plan[a][i])
      BY DEF IKeeper, ItemsHold
    <3> HIDE DEF file
    <3> QED
      BY <3>1, <3>2 DEF ItemHolds, RecordOf
  <2> QED
    BY <2>1, <2>2
<1> HIDE DEF file
<1>5. /\ seen' \in [Attestor -> [Kid -> Hash \cup {NoHash}]]
      /\ seen'[a] = file /\ \A b \in Attestor \ {a} : seen'[b] = seen[b]
  BY <1>1, <1>2, <1>3 DEF KeeperTypes
<1>6. SeenIsOnChain'
  <2>1. hasAttested' = hasAttested
    BY <1>1 DEF registryVars
  <2> SUFFICES ASSUME NEW b \in Attestor, NEW kid \in Kid, seen'[b][kid] # NoHash
               PROVE  <<<<kid, seen'[b][kid]>>, b>> \in hasAttested
    BY <2>1 DEF SeenIsOnChain
  <2> QED
    BY <1>4, <1>5 DEF IKeeper, SeenIsOnChain
<1>7. faults' \in Nat
  BY <1>1, <1>2 DEF KeeperTypes
<1>8. <<>> \in Seq(Item) /\ \A i \in 1..Len(<<>>) : <<>>[i].status = "new" /\ ItemHolds(a, <<>>[i])
  OBVIOUS
<1> QED
  BY <1>1, <1>5, <1>6, <1>7, <1>8, NewPlanStep

LEMMA CrashStep ==
  ASSUME IKeeper, NEW a \in Attestor, Crash(a) \/ FetchFails(a)
  PROVE  IKeeper'
<1>1. plan' = [plan EXCEPT ![a] = <<>>] /\ UNCHANGED <<registryVars, providerVars, seen, mempool>> /\ faults' = faults + 1
  BY DEF Crash, FetchFails, Failing, IKeeper, KeeperTypes
<1>2. faults' \in Nat /\ seen' \in [Attestor -> [Kid -> Hash \cup {NoHash}]]
  BY <1>1 DEF IKeeper, KeeperTypes
<1>3. SeenIsOnChain'
  BY <1>1 DEF IKeeper, SeenIsOnChain, registryVars
<1>4. <<>> \in Seq(Item) /\ \A i \in 1..Len(<<>>) : <<>>[i].status = "new" /\ ItemHolds(a, <<>>[i])
  OBVIOUS
<1> QED
  BY <1>1, <1>2, <1>3, <1>4, NewPlanStep

LEMMA FaultStep ==
  ASSUME IKeeper, NEW a \in Attestor, NEW i \in 1..Len(plan[a]), RpcFails(a, i) \/ ReceiptLost(a, i)
  PROVE  IKeeper'
<1>1. At(a, i) /\ Mark(a, i, "failed") /\ UNCHANGED <<registryVars, providerVars, seen, mempool>> /\ faults' = faults + 1
  BY DEF RpcFails, ReceiptLost, Failing
<1>2. faults' \in Nat
  BY <1>1 DEF IKeeper, KeeperTypes
<1> QED
  BY <1>1, <1>2, DoneStep

LEMMA ServeStep ==
  ASSUME IKeeper, NEW kid \in Kid, NEW hash \in Hash \cup {NoHash}, Serve(kid, hash)
  PROVE  IKeeper'
<1>1. /\ live' = [live EXCEPT ![kid] = hash]
      /\ published' = IF hash = NoHash THEN published ELSE published \cup {<<kid, hash>>}
      /\ dropped' = IF live[kid] = NoHash THEN dropped ELSE dropped \cup {<<kid, live[kid]>>}
      /\ UNCHANGED <<seen, plan, mempool, faults, hasAttested, hasRotated, isAttestor>>
  BY DEF Serve, registryVars, rosterVars, keeperVars
<1>2. live \in [Kid -> Hash \cup {NoHash}]
  BY DEF IKeeper, KeeperTypes
<1>3. live'[kid] = hash /\ \A k \in Kid \ {kid} : live'[k] = live[k]
  BY <1>1, <1>2
<1>4. published \subseteq published' /\ dropped \subseteq dropped'
  BY <1>1
<1>5. ServedOrDropped'
  <2>1. \A k \in Kid : live'[k] # NoHash => <<k, live'[k]>> \in published'
    BY <1>1, <1>3, <1>4 DEF IKeeper, ServedOrDropped
  <2>2. ASSUME NEW k \in Kid, NEW h \in Hash, <<k, h>> \in published', live'[k] # h
        PROVE  <<k, h>> \in dropped'
    <3>1. <<k, h>> \in published
      BY <1>1, <1>3, <2>2
    <3>2. CASE live[k] = h
      BY <3>2, <1>1, <1>3, <2>2, KeeperAssumption
    <3>3. CASE live[k] # h
      BY <3>1, <3>3, <1>4 DEF IKeeper, ServedOrDropped
    <3> QED
      BY <3>2, <3>3
  <2> QED
    BY <2>1, <2>2 DEF ServedOrDropped
<1>6. ItemsHold' /\ TxsHold'
  BY <1>1, <1>4 DEF IKeeper, ItemsHold, TxsHold, ItemHolds, TxHolds
<1>7. KeeperTypes' /\ InOrder' /\ SeenIsOnChain' /\ KeepersReportTheProvider'
  BY <1>1, <1>4 DEF IKeeper, KeeperTypes, InOrder, SeenIsOnChain, KeepersReportTheProvider
<1> QED
  BY <1>5, <1>6, <1>7 DEF IKeeper

\* What a transaction that waited does, and that it did it.
LEMMA MineStep ==
  ASSUME IKeeper, NEW a \in Attestor, Mine(a)
  PROVE  IKeeper'
<1> DEFINE queue == mempool[a]
           tx == Head(queue)
           n == Len(queue)
<1>1. /\ queue # <<>> /\ mempool' = [mempool EXCEPT ![a] = Tail(queue)]
      /\ UNCHANGED <<live, published, dropped, seen, plan, faults>>
      /\ \/ tx.action = "attest" /\ Attest(a, tx.record)
         \/ tx.action = "attestRotated" /\ AttestRotated(a, tx.record)
         \/ ~WouldSucceed(tx) /\ UNCHANGED registryVars
  BY DEF Mine, providerVars
<1>2. queue \in Seq(TxOf(a)) /\ n \in Nat /\ n > 0 /\ tx = queue[1] /\ tx \in TxOf(a)
  BY <1>1 DEF IKeeper, KeeperTypes
<1>3. tx.from = a /\ tx.record \in Record
  BY <1>2 DEF TxOf
<1>4. TxHolds(a, tx)
  BY <1>2 DEF IKeeper, TxsHold
<1> HIDE DEF tx
<1>5. /\ isAttestor' = isAttestor
      /\ hasAttested \subseteq hasAttested'
      /\ hasAttested' \subseteq hasAttested \cup {<<tx.record, a>>} /\ (hasAttested' # hasAttested => tx.action = "attest")
      /\ hasRotated' \subseteq hasRotated \cup {<<tx.record, a>>} /\ (hasRotated' # hasRotated => tx.action = "attestRotated")
  BY <1>1 DEF Attest, AttestRotated, registryVars, rosterVars
<1>6. tx.action = "attest" => <<tx.record, a>> \in hasAttested'
  <2> SUFFICES ASSUME tx.action = "attest" PROVE <<tx.record, a>> \in hasAttested'
    OBVIOUS
  <2>1. CASE Attest(a, tx.record)
    BY <2>1 DEF Attest
  <2>2. CASE ~WouldSucceed(tx)
    <3>1. ~MayAttest(a, tx.record)
      BY <2>2, <1>3 DEF WouldSucceed
    <3> QED
      BY <3>1, <1>4, <1>5 DEF MayAttest, TxHolds
  <2> QED
    BY <1>1, <2>1, <2>2
<1> HIDE DEF queue
<1>7. /\ Len(Tail(queue)) = n - 1 /\ Tail(queue) \in Seq(TxOf(a))
      /\ \A k \in 1..(n - 1) : Tail(queue)[k] = queue[k + 1]
  BY <1>1, <1>2
<1>8. /\ DOMAIN mempool' = Attestor /\ mempool'[a] = Tail(queue)
      /\ \A b \in Attestor \ {a} : mempool'[b] = mempool[b]
  BY <1>1 DEF IKeeper, KeeperTypes
<1>9. KeeperTypes'
  <2>1. \A b \in Attestor : mempool'[b] \in Seq(TxOf(b))
    BY <1>7, <1>8 DEF IKeeper, KeeperTypes
  <2> QED
    BY <2>1, <1>1, <1>8 DEF IKeeper, KeeperTypes, TxOf
<1>10. ItemsHold'
  <2> SUFFICES ASSUME NEW b \in Attestor, NEW i \in 1..Len(plan[b])
               PROVE  ItemHolds(b, plan[b][i])'
    BY <1>1 DEF ItemsHold
  <2> DEFINE item == plan[b][i]
  <2>0. ItemHolds(b, item) /\ plan'[b][i] = item
    BY <1>1 DEF IKeeper, ItemsHold
  <2> HIDE DEF item
  <2>1. CASE b # a
    BY <2>0, <2>1, <1>1, <1>5, <1>8 DEF ItemHolds, item
  <2>2. CASE b = a
    <3>1. ASSUME item.action = "attest", NEW k \in 1..n, queue[k] = Tx(a, item)
          PROVE  \/ <<RecordOf(item), a>> \in hasAttested'
                 \/ \E m \in 1..Len(Tail(queue)) : Tail(queue)[m] = Tx(a, item)
      <4>1. CASE k = 1
        <5>1. tx.action = "attest" /\ tx.record = RecordOf(item)
          BY <3>1, <4>1, <1>2 DEF Tx, RecordOf
        <5> QED
          BY <5>1, <1>6
      <4>2. CASE k # 1
        <5>1. k - 1 \in 1..(n - 1) /\ (k - 1) + 1 = k
          BY <4>2, <1>2
        <5> HIDE DEF n
        <5> QED
          BY <3>1, <5>1, <1>7
      <4> QED
        BY <4>1, <4>2
    <3>2. /\ item.action = "attest" => RecordOf(item) \in published
          /\ item.action = "attestRotated" => RecordOf(item) \in dropped
          /\ item.action = "attest" /\ item.status = "ok" => <<RecordOf(item), a>> \in hasAttested'
      BY <2>0, <2>2, <1>5 DEF ItemHolds
    <3>3. item.action = "attest" /\ item.status = "sent" =>
             \/ <<RecordOf(item), a>> \in hasAttested'
             \/ \E m \in 1..Len(mempool'[a]) : mempool'[a][m] = Tx(a, item)
      BY <2>0, <2>2, <1>5, <1>8, <3>1 DEF ItemHolds, queue
    <3> QED
      BY <2>0, <2>2, <3>2, <3>3, <1>1 DEF ItemHolds, item
  <2> QED
    BY <2>1, <2>2
<1>11. TxsHold'
  <2> SUFFICES ASSUME NEW b \in Attestor, NEW k \in 1..Len(mempool'[b])
               PROVE  TxHolds(b, mempool'[b][k])
    BY <1>1, <1>5 DEF TxsHold, TxHolds
  <2>1. CASE b # a
    BY <2>1, <1>8 DEF IKeeper, TxsHold
  <2>2. CASE b = a
    <3>1. k \in 1..(n - 1) /\ mempool'[a][k] = queue[k + 1] /\ k + 1 \in 1..n
      BY <2>2, <1>2, <1>7, <1>8
    <3> QED
      BY <2>2, <3>1 DEF IKeeper, TxsHold, queue
  <2> QED
    BY <2>1, <2>2
<1>12. SeenIsOnChain'
  BY <1>1, <1>5 DEF IKeeper, SeenIsOnChain
<1>13. KeepersReportTheProvider'
  <2> SUFFICES ASSUME NEW b \in Attestor, NEW r \in Record
               PROVE  /\ <<r, b>> \in hasAttested' => r \in published
                      /\ <<r, b>> \in hasRotated' => r \in dropped
    BY <1>1 DEF KeepersReportTheProvider
  <2>1. /\ <<r, b>> \in hasAttested => r \in published
        /\ <<r, b>> \in hasRotated => r \in dropped
    BY DEF IKeeper, KeepersReportTheProvider
  <2> QED
    BY <2>1, <1>4, <1>5 DEF TxHolds
<1>14. InOrder' /\ ServedOrDropped'
  BY <1>1 DEF IKeeper, InOrder, ServedOrDropped
<1> QED
  BY <1>9, <1>10, <1>11, <1>12, <1>13, <1>14 DEF IKeeper

-----------------------------------------------------------------------------
LEMMA KeeperStarts == KeeperInit => IKeeper
<1> SUFFICES ASSUME KeeperInit PROVE IKeeper
  OBVIOUS
<1>1. KeeperTypes
  BY DEF KeeperInit, KeeperTypes
<1>2. /\ \A a \in Attestor : plan[a] = <<>> /\ mempool[a] = <<>>
      /\ hasAttested = {} /\ hasRotated = {} /\ published = {} /\ dropped = {}
      /\ \A kid \in Kid : live[kid] = NoHash /\ \A a \in Attestor : seen[a][kid] = NoHash
  BY DEF KeeperInit, RegistryInit
<1> QED
  BY <1>1, <1>2 DEF IKeeper, InOrder, ServedOrDropped, ItemsHold, TxsHold, SeenIsOnChain, KeepersReportTheProvider

LEMMA KeeperStep == IKeeper /\ [KeeperNext]_allVars => IKeeper'
<1> SUFFICES ASSUME IKeeper, [KeeperNext]_allVars PROVE IKeeper'
  OBVIOUS
<1>1. ASSUME NEW kid \in Kid, NEW hash \in Hash \cup {NoHash}, Serve(kid, hash) PROVE IKeeper'
  BY <1>1, ServeStep
<1>2. ASSUME NEW a \in Attestor, Progress(a) PROVE IKeeper'
  BY <1>2, StartStep, SubmitStep, RejectedStep, ReceiptStep, SaveStep DEF Progress
<1>3. ASSUME NEW a \in Attestor, NEW i \in 1..Len(plan[a]), RpcFails(a, i) \/ ReceiptLost(a, i) PROVE IKeeper'
  BY <1>3, FaultStep
<1>4. ASSUME NEW a \in Attestor, FetchFails(a) \/ Crash(a) PROVE IKeeper'
  BY <1>4, CrashStep
<1>5. ASSUME NEW a \in Attestor, Mine(a) PROVE IKeeper'
  BY <1>5, MineStep
<1>6. CASE UNCHANGED allVars
  BY <1>6 DEF IKeeper, KeeperTypes, InOrder, ServedOrDropped, ItemsHold, TxsHold, ItemHolds, TxHolds, SeenIsOnChain,
              KeepersReportTheProvider, allVars, registryVars, rosterVars, keeperVars, providerVars
<1> QED
  BY <1>1, <1>2, <1>3, <1>4, <1>5, <1>6 DEF KeeperNext

\* keeper.mjs:176: whatever is lost, late or run again, a keeper's file claims
\* no more than the chain, and the chain no more than the provider.
THEOREM KeepersAreHonest == KeeperSpec => []KeeperInv
<1>1. IKeeper => KeeperInv
  <2> SUFFICES ASSUME IKeeper PROVE KeeperTypeOK
    BY DEF IKeeper, KeeperInv
  <2>1. \A a \in Attestor : \A i \in 1..Len(plan[a]) : plan[a][i] \in Item
    BY DEF IKeeper, KeeperTypes
  <2>2. \A a \in Attestor : \A i \in 1..Len(mempool[a]) : mempool[a][i] \in TxOf(a)
    BY DEF IKeeper, KeeperTypes
  <2> QED
    BY <2>1, <2>2 DEF IKeeper, KeeperTypes, InOrder, KeeperTypeOK, TxOf
<1> QED
  BY <1>1, KeeperStarts, KeeperStep, PTL DEF KeeperSpec
===============================================================================
