----------------------------- MODULE OidcRecovery -----------------------------
(***************************************************************************)
(* Recovery by an identity: contracts/src/OidcRecoveryGuardian.sol, with   *)
(* the registry of provider keys it asks and one wallet it is a guardian   *)
(* of.  The registry is KeyRegistry, the wallet is GuardianLogic, and they *)
(* share the block time.                                                   *)
(*                                                                         *)
(* A proof shows that a token signed with a provider's key carries an      *)
(* identity and a nonce bound to (wallet, promoteKey, nonce, chain).       *)
(* Whoever holds such a key can make one for every identity and every      *)
(* nonce, so any proof may be submitted at any time, again and again; what *)
(* the circuit does not attest is not a proof, and is left out.            *)
(***************************************************************************)
EXTENDS KeyRegistry

CONSTANTS
  Guardian, Key, NoKey, Delay, MinDelay, MaxDelay, Threshold, OpKind,
  MaxRoster, MaxOps, MaxRounds,  \* of GuardianLogic
  Oidc,                          \* this contract's address
  Identity,                      \* commitments, canonical field elements
  NoIdentity,                    \* bytes32(0), canonical as well
  Choice,                        \* commitments the wallet's signers may set
  IdentityChangeDelay,           \* IDENTITY_CHANGE_DELAY, 12 hours
  MaxProposals                   \* bound: identity changes proposed

\* What the wallet asks of its constants.
ASSUME WalletAssumption ==
  /\ IsFiniteSet(Guardian)
  /\ NoKey \notin Key
  /\ Delay \cup {MaxDelay, MaxRoster, MaxOps, MaxRounds} \subseteq Nat
  /\ MinDelay \in Nat \ {0}
  /\ Threshold \subseteq Nat
  /\ OpKind \subseteq {"Add", "Remove", "SetThreshold"}
ASSUME OidcAssumption == Oidc \in Guardian
ASSUME IdentityAssumption ==
  /\ NoIdentity \notin Identity
  /\ Choice \subseteq Identity \cup {NoIdentity}
ASSUME IdentityDelayAssumption == IdentityChangeDelay \in Nat /\ MaxProposals \in Nat

VARIABLES
  guardians, isGuardian, threshold, recoveryDelay, guardianOpDelay, opNonce,
  recoveryNonce, pendingOps, pendingRecovery, approved, signed, keys,
  signerLive, quorumSince, overtaken, closedOps, \* of GuardianLogic
  identity,    \* the wallet's [commitment, pendingCommitment, pendingReadyAt]
  proposed,    \* history: [commitment, at] of the change that waits, and the
               \* count of changes proposed
  othersSuffice \* history: a quorum of this round did without the identity

Wallet == INSTANCE GuardianLogic WITH Signer <- {}

walletVars ==
  << guardians, isGuardian, threshold, recoveryDelay, guardianOpDelay, opNonce,
     recoveryNonce, pendingOps, pendingRecovery, approved, signed, keys,
     signerLive, quorumSince, overtaken, closedOps >>
ledgerVars == <<rosterVars, records, hasAttested, hasRotated>>
identityVars == <<identity, proposed>>
oidcVars == <<now, walletVars, ledgerVars, identityVars, othersSuffice>>

\* The history of the round; it reads the next state and restricts nothing.
OtherVotes == Wallet!Votes \ {Oidc}

ObserveRound ==
  othersSuffice' =
    /\ recoveryNonce' = recoveryNonce
    /\ othersSuffice \/ (OtherVotes' # {} /\ Cardinality(OtherVotes') >= threshold')

-------------------------------------------------------------------------------
(* The identity of the wallet *)

SetImmediately(c) ==
  /\ identity' = [identity EXCEPT !.commitment = c]
  /\ UNCHANGED proposed

\* Nothing waits any longer.
Forget == proposed' = [proposed EXCEPT !.commitment = NoIdentity, !.at = 0]

\* A change waits; one proposed before it is overwritten, and the wait starts
\* over.
ProposeChange(c) ==
  /\ proposed.count < MaxProposals
  /\ identity' = [identity EXCEPT !.pendingCommitment = c,
                                  !.pendingReadyAt    = now + IdentityChangeDelay]
  /\ proposed' = [commitment |-> c, at |-> now, count |-> proposed.count + 1]

SetRecoveryIdentity(c) ==
  /\ signerLive
  /\ IF identity.commitment = NoIdentity THEN SetImmediately(c) ELSE ProposeChange(c)
  /\ UNCHANGED <<now, walletVars, ledgerVars, othersSuffice>>

VetoClearsCommitment ==
  /\ signerLive
  /\ identity.pendingReadyAt # 0
  /\ identity' = [identity EXCEPT !.pendingCommitment = NoIdentity]
  /\ Forget
  /\ UNCHANGED <<now, walletVars, ledgerVars, othersSuffice>>

VetoRecoveryIdentityChange ==
  /\ signerLive
  /\ identity.pendingReadyAt # 0
  /\ identity' = [identity EXCEPT !.pendingCommitment = NoIdentity, !.pendingReadyAt = 0]
  /\ Forget
  /\ UNCHANGED <<now, walletVars, ledgerVars, othersSuffice>>

ApplyAtOnce ==
  /\ identity.pendingReadyAt # 0
  /\ identity' = [ commitment        |-> identity.pendingCommitment,
                   pendingCommitment |-> NoIdentity,
                   pendingReadyAt    |-> 0 ]
  /\ Forget
  /\ UNCHANGED <<now, walletVars, ledgerVars, othersSuffice>>

\* Anybody may apply a change that is ready.
ApplyRecoveryIdentityChange ==
  /\ identity.pendingReadyAt # 0
  /\ now >= identity.pendingReadyAt
  /\ identity' = [ commitment        |-> identity.pendingCommitment,
                   pendingCommitment |-> NoIdentity,
                   pendingReadyAt    |-> 0 ]
  /\ Forget
  /\ UNCHANGED <<now, walletVars, ledgerVars, othersSuffice>>

-------------------------------------------------------------------------------
(* The vote of the identity *)

SubmitWithAttestedKey(r, i, k, n) ==
  /\ identity.commitment # NoIdentity
  /\ records[r].attestationCount >= Quorum
  /\ i = identity.commitment
  /\ Wallet!ApproveRecovery(Oidc, k, n)
  /\ ObserveRound
  /\ UNCHANGED <<ledgerVars, identityVars>>

\* A proof made with key r that binds identity i to (k, n).
SubmitRecoveryApproval(r, i, k, n) ==
  /\ identity.commitment # NoIdentity
  /\ IsKeyUsable(r)
  /\ i = identity.commitment
  /\ Wallet!ApproveRecovery(Oidc, k, n)
  /\ ObserveRound
  /\ UNCHANGED <<ledgerVars, identityVars>>

-------------------------------------------------------------------------------
(* The rest of the wallet, and the registry *)

WalletStep ==
  /\ \/ \E s \in Wallet!Roster, t \in Threshold, rd, gd \in Delay : Wallet!SetupGuardians(s, t, rd, gd)
     \/ \E op \in Wallet!Op : \/ Wallet!ProposeGuardianOp(op)
                              \/ Wallet!VetoGuardianOp(op)
                              \/ Wallet!ExecuteAdd(op)
                              \/ Wallet!ExecuteRemove(op)
                              \/ Wallet!ExecuteSetThreshold(op)
     \/ \E g \in Guardian \ {Oidc}, k \in Key, n \in Wallet!Nonce : Wallet!ApproveRecovery(g, k, n)
     \/ Wallet!VetoRecovery
     \/ Wallet!ExecuteRecovery
     \/ \E k \in Key : Wallet!RevokeKey(k)
     \/ Wallet!LoseSigners
  /\ ObserveRound
  /\ UNCHANGED <<ledgerVars, identityVars>>

RegistryStep ==
  /\ \/ \E r \in Record : Uncontest(r)
     \/ \E a \in Attestor, r \in Record : Attest(a, r) \/ Contest(a, r) \/ AttestRotated(a, r)
  /\ UNCHANGED <<walletVars, identityVars, othersSuffice>>

Block == Tick /\ Wallet!Tick /\ UNCHANGED <<identityVars, othersSuffice>>

-------------------------------------------------------------------------------
(* Specification *)

OidcInit ==
  /\ RegistryInit
  /\ Wallet!Init
  /\ identity = [commitment |-> NoIdentity, pendingCommitment |-> NoIdentity, pendingReadyAt |-> 0]
  /\ proposed = [commitment |-> NoIdentity, at |-> 0, count |-> 0]
  /\ othersSuffice = FALSE

OidcNext ==
  \/ \E c \in Choice : SetRecoveryIdentity(c)
  \/ VetoRecoveryIdentityChange
  \/ ApplyRecoveryIdentityChange
  \/ \E r \in Record, i \in Identity, k \in Key, n \in Wallet!Nonce : SubmitRecoveryApproval(r, i, k, n)
  \/ WalletStep
  \/ RegistryStep
  \/ Block

OidcSpec == OidcInit /\ [][OidcNext]_oidcVars

-------------------------------------------------------------------------------
(* What recovery by an identity must never do *)

\* The type of the identity's slots; a change is pending or it is not.
OidcTypeOK ==
  /\ identity \in [ commitment : Identity \cup {NoIdentity},
                    pendingCommitment : Identity \cup {NoIdentity}, pendingReadyAt : Nat ]
  /\ proposed \in [ commitment : Identity \cup {NoIdentity}, at : Nat, count : 0..MaxProposals ]
  /\ identity.pendingReadyAt # 0 =>
       /\ identity.pendingCommitment = proposed.commitment
       /\ identity.pendingReadyAt = proposed.at + IdentityChangeDelay

\* OidcRecoveryGuardian.sol:15: a compromised provider key "still has to
\* survive the wallet's own threshold, timelock, and veto window", on top of
\* the registry's anchor window.  When no quorum of the round did without the
\* identity's vote, the promotion comes an anchor window and a recovery delay
\* after the first attestation of some key of the provider, and after a quorum
\* of attestations of it, whoever was removed meanwhile.
PromotionWasInTheOpen ==
  [][ recoveryNonce' # recoveryNonce /\ keys' # keys /\ ~othersSuffice =>
        \E r \in Record :
          /\ records[r].attestationCount >= Quorum
          /\ now >= records[r].firstAttestedAt + AnchorWindow + recoveryDelay ]_oidcVars

\* An identity that is set changes only to the one proposed last, and not
\* before that proposal has waited, whatever was proposed or vetoed before.
IdentityChangesWithNotice ==
  [][ identity.commitment # NoIdentity /\ identity'.commitment # identity.commitment =>
        /\ identity'.commitment = proposed.commitment
        /\ now >= proposed.at + IdentityChangeDelay ]_oidcVars
===============================================================================
