------------------------------ MODULE KeyRegistry ------------------------------
(***************************************************************************)
(* The registry of provider signing keys: contracts/src/KeyRegistry.sol.   *)
(*                                                                         *)
(* A record stands for the hash of (issuer, kid, keyHash).  An action is   *)
(* one transaction that succeeds; the owner's and the attestors' calls     *)
(* interleave in any order, and each attestor acts for itself.             *)
(***************************************************************************)
EXTENDS AddressArray, FiniteSets

CONSTANTS
  Attestor,      \* addresses that may be made attestors
  Record,        \* records somebody may attest
  FieldRecord,   \* those whose keyHash is a canonical field element
  Quorum,        \* the immutable quorum
  AnchorWindow,  \* ticks from the first attestation to use
  GraceWindow,   \* ticks a rotated key stays usable
  MaxTime,       \* bound: ticks of block.timestamp
  MaxChanges     \* bound: attestors added or removed after deployment

ASSUME AttestorAssumption == IsFiniteSet(Attestor)
ASSUME RecordAssumption == FieldRecord \subseteq Record
ASSUME WindowAssumption ==
  /\ Quorum \in Nat \ {0}
  /\ AnchorWindow \in Nat
  /\ GraceWindow \in Nat
ASSUME RegistryBoundAssumption == MaxTime \in Nat /\ MaxChanges \in Nat

VARIABLES
  now,           \* block.timestamp, in ticks; never 0
  attestors,     \* the array of attestors, in storage order
  isAttestor,    \* the mapping that mirrors it: the set of members
  records,       \* record -> KeyRecord
  hasAttested,   \* <<record, attestor>> that attested it
  hasRotated,    \* <<record, attestor>> that attested its rotation
  changes        \* attestors added or removed so far

rosterVars == <<attestors, isAttestor, changes>>
registryVars == <<now, rosterVars, records, hasAttested, hasRotated>>

NoRecord ==
  [ firstAttestedAt |-> 0, validUntil |-> 0, attestationCount |-> 0,
    rotationAttestationCount |-> 0, contested |-> FALSE ]

Known(r) == records[r].firstAttestedAt # 0

-------------------------------------------------------------------------------
(* The owner *)

AddAttestor(a) ==
  /\ changes < MaxChanges
  /\ a \notin isAttestor
  /\ isAttestor' = isAttestor \cup {a}
  /\ attestors' = Append(attestors, a)
  /\ changes' = changes + 1
  /\ UNCHANGED <<now, records, hasAttested, hasRotated>>

RemoveBelowQuorum(a) ==
  /\ changes < MaxChanges
  /\ a \in isAttestor
  /\ isAttestor' = isAttestor \ {a}
  /\ attestors' = SwapPop(attestors, a)
  /\ changes' = changes + 1
  /\ UNCHANGED <<now, records, hasAttested, hasRotated>>

\* Past attestations of a removed attestor keep counting.
RemoveAttestor(a) ==
  /\ changes < MaxChanges
  /\ a \in isAttestor
  /\ Len(attestors) - 1 >= Quorum
  /\ isAttestor' = isAttestor \ {a}
  /\ attestors' = SwapPop(attestors, a)
  /\ changes' = changes + 1
  /\ UNCHANGED <<now, records, hasAttested, hasRotated>>

Uncontest(r) ==
  /\ Known(r)
  /\ records' = [records EXCEPT ![r].contested = FALSE]
  /\ UNCHANGED <<now, rosterVars, hasAttested, hasRotated>>

-------------------------------------------------------------------------------
(* The attestors *)

AttestAgain(a, r) ==
  /\ a \in isAttestor
  /\ r \in FieldRecord
  /\ hasAttested' = hasAttested \cup {<<r, a>>}
  /\ records' =
       [records EXCEPT ![r].firstAttestedAt  = IF @ = 0 THEN now ELSE @,
                       ![r].attestationCount = @ + 1]
  /\ UNCHANGED <<now, rosterVars, hasRotated>>

AttestUncontested(a, r) ==
  /\ a \in isAttestor
  /\ r \in FieldRecord
  /\ <<r, a>> \notin hasAttested
  /\ ~records[r].contested
  /\ hasAttested' = hasAttested \cup {<<r, a>>}
  /\ records' =
       [records EXCEPT ![r].firstAttestedAt  = IF @ = 0 THEN now ELSE @,
                       ![r].attestationCount = @ + 1]
  /\ UNCHANGED <<now, rosterVars, hasRotated>>

MayAttest(a, r) ==
  /\ a \in isAttestor
  /\ r \in FieldRecord
  /\ <<r, a>> \notin hasAttested

Attest(a, r) ==
  /\ MayAttest(a, r)
  /\ hasAttested' = hasAttested \cup {<<r, a>>}
  /\ records' =
       [records EXCEPT ![r].firstAttestedAt  = IF @ = 0 THEN now ELSE @,
                       ![r].attestationCount = @ + 1]
  /\ UNCHANGED <<now, rosterVars, hasRotated>>

Contest(a, r) ==
  /\ a \in isAttestor
  /\ Known(r)
  /\ records' = [records EXCEPT ![r].contested = TRUE]
  /\ UNCHANGED <<now, rosterVars, hasAttested, hasRotated>>

AttestRotatedTwiceOver(a, r) ==
  /\ a \in isAttestor
  /\ Known(r)
  /\ <<r, a>> \notin hasRotated
  /\ hasRotated' = hasRotated \cup {<<r, a>>}
  /\ records' =
       [records EXCEPT ![r].rotationAttestationCount = @ + 1,
                       ![r].validUntil =
                         IF records[r].rotationAttestationCount + 1 >= Quorum THEN now ELSE @]
  /\ UNCHANGED <<now, rosterVars, hasAttested>>

MayAttestRotated(a, r) ==
  /\ a \in isAttestor
  /\ Known(r)
  /\ records[r].validUntil = 0
  /\ <<r, a>> \notin hasRotated

\* The quorum of rotation attestations stamps validUntil, once.
AttestRotated(a, r) ==
  /\ MayAttestRotated(a, r)
  /\ hasRotated' = hasRotated \cup {<<r, a>>}
  /\ records' =
       [records EXCEPT ![r].rotationAttestationCount = @ + 1,
                       ![r].validUntil =
                         IF records[r].rotationAttestationCount + 1 >= Quorum THEN now ELSE @]
  /\ UNCHANGED <<now, rosterVars, hasAttested>>

-------------------------------------------------------------------------------
(* What everybody may ask *)

UsableAboveQuorum(r) ==
  /\ Known(r)
  /\ ~records[r].contested
  /\ records[r].attestationCount > Quorum
  /\ now >= records[r].firstAttestedAt + AnchorWindow
  /\ records[r].validUntil # 0 => now <= records[r].validUntil + GraceWindow

IsKeyUsable(r) ==
  /\ Known(r)
  /\ ~records[r].contested
  /\ records[r].attestationCount >= Quorum
  /\ now >= records[r].firstAttestedAt + AnchorWindow
  /\ records[r].validUntil # 0 => now <= records[r].validUntil + GraceWindow

Tick ==
  /\ now < MaxTime
  /\ now' = now + 1
  /\ UNCHANGED <<rosterVars, records, hasAttested, hasRotated>>

-------------------------------------------------------------------------------
(* Specification *)

RegistryInit ==
  /\ now = 1
  /\ attestors \in { s \in ArraysOf(Attestor, Cardinality(Attestor)) : Quorum <= Len(s) }
  /\ isAttestor = Members(attestors)
  /\ records = [r \in Record |-> NoRecord]
  /\ hasAttested = {}
  /\ hasRotated = {}
  /\ changes = 0

Governance ==
  \/ \E a \in Attestor : AddAttestor(a)
  \/ \E a \in Attestor : RemoveAttestor(a)
  \/ \E r \in Record : Uncontest(r)

RegistryNext ==
  \/ Governance
  \/ \E a \in Attestor, r \in Record : Attest(a, r)
  \/ \E a \in Attestor, r \in Record : Contest(a, r)
  \/ \E a \in Attestor, r \in Record : AttestRotated(a, r)
  \/ Tick

RegistrySpec == RegistryInit /\ [][RegistryNext]_registryVars
===============================================================================
