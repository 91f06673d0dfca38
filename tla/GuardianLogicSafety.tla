------------------------- MODULE GuardianLogicSafety -------------------------
(***************************************************************************)
(* What the guardian recovery of contracts/src/GuardianLogic.sol must      *)
(* never do, and what it must eventually do.                               *)
(***************************************************************************)
EXTENDS GuardianLogic

\* The type of every storage slot of GuardianStore and of the history.
TypeOK ==
  /\ now \in Nat \ {0}
  /\ guardians \in Seq(Guardian)
  /\ isGuardian \subseteq Guardian
  /\ threshold \in Nat
  /\ recoveryDelay \in Nat
  /\ guardianOpDelay \in Nat
  /\ opNonce \in Nat
  /\ recoveryNonce \in Nat
  /\ pendingOps \in [Op -> Nat]
  /\ pendingRecovery \in [ promoteKey : Key \cup {NoKey}, nonce : Nat,
                           approvals : Nat, readyAt : Nat ]
  /\ approved \subseteq Guardian \X Key \X Nat
  /\ signed \subseteq Guardian \X Key \X Nat
  /\ keys \subseteq Key
  /\ signerLive \in BOOLEAN
  /\ quorumSince \in Nat
  /\ overtaken \in Nat
  /\ closedOps \subseteq Op

-------------------------------------------------------------------------------
(* Safety *)

\* The array and the mapping of guardians, kept in step by hand through setup,
\* Add and the swap-and-pop of Remove, name the same addresses, each once.
RosterMirrored ==
  /\ Members(guardians) = isGuardian
  /\ Distinct(guardians)

\* Operations proposed against one roster execute against another, in any
\* order: still the threshold stays one the present guardians can reach.
ThresholdReachable ==
  IF Len(guardians) = 0 THEN threshold = 0 ELSE threshold \in 1..Len(guardians)

\* The uint8 counter of approvals is the number of present guardians whose vote
\* for the pending key is recorded, through votes, removals, re-additions,
\* vetoes and promotions: a removed guardian's vote no longer counts.
ApprovalsCountVoters ==
  /\ pendingRecovery.approvals = Cardinality(Votes)
  /\ Votes \subseteq isGuardian

\* Nonces burn on veto and on execution: every recorded vote belongs to a round
\* that has ended or to the one pending, and votes of the pending round are all
\* for its one key.
OneCandidatePerRound ==
  \A vote \in approved :
    /\ vote[3] <= recoveryNonce
    /\ vote[3] = recoveryNonce =>
         /\ pendingRecovery.nonce = recoveryNonce
         /\ pendingRecovery.promoteKey = vote[2]

\* An operation that was vetoed or executed is never pending again, so a veto
\* is final and no operation executes twice.
ClosedOpsStayClosed == \A op \in closedOps : pendingOps[op] = 0

\* A key joins the roster only as the candidate of a vote that has been a
\* quorum, without a break, for the wallet's recovery delay, at least one hour;
\* or would have been, had the signers not raised the threshold above it, which
\* leaves the clock running (GuardianLogic.sol:239).  Nothing else excuses a
\* break: not a removal, a late vote, or a threshold that is lowered.
Noticed(since) == since # 0 /\ now - since >= recoveryDelay

PromotionHadNotice ==
  [][ \A k \in keys' \ keys :
        /\ pendingRecovery.promoteKey = k
        /\ Noticed(quorumSince) \/ Noticed(overtaken)
        /\ recoveryDelay >= MinDelay ]_vars

-------------------------------------------------------------------------------
(* The inductive invariant: the properties above and what they rest on *)

\* Delays are set, and bounded below, from setup on.
DelaysBounded ==
  Len(guardians) # 0 => recoveryDelay >= MinDelay /\ guardianOpDelay >= MinDelay

\* A pending recovery carries the current nonce; no pending recovery is the
\* deleted struct.
PendingIsCurrent ==
  IF pendingRecovery.promoteKey = NoKey
  THEN pendingRecovery = NoRecovery
  ELSE pendingRecovery.nonce = recoveryNonce

\* A running clock was started no earlier than a quorum that stands, or that a
\* raised threshold ended, and somebody still stands behind it.
ClockBehindQuorum ==
  /\ pendingRecovery.readyAt # 0 =>
       /\ pendingRecovery.approvals # 0
       /\ \E since \in {quorumSince, overtaken} :
            since # 0 /\ pendingRecovery.readyAt >= since + recoveryDelay
  /\ quorumSince # 0 => ~Short
  /\ overtaken # 0 => Votes # {} /\ (quorumSince # 0 => overtaken <= quorumSince)
  /\ quorumSince <= now
  /\ overtaken <= now

\* Proposed operations carry nonces already consumed.
OpNoncesConsumed ==
  \A op \in Op : (pendingOps[op] # 0 \/ op \in closedOps) => op.nonce < opNonce

\* Nothing is pending before setup, and the guardians are never empty after it.
OpsNeedSetup == \A op \in Op : pendingOps[op] # 0 => Len(guardians) # 0

IInv ==
  /\ TypeOK
  /\ RosterMirrored
  /\ ThresholdReachable
  /\ DelaysBounded
  /\ PendingIsCurrent
  /\ OneCandidatePerRound
  /\ ApprovalsCountVoters
  /\ ClockBehindQuorum
  /\ OpNoncesConsumed
  /\ OpsNeedSetup
  /\ ClosedOpsStayClosed

-------------------------------------------------------------------------------
(* Liveness *)

\* With every signer lost nobody can veto a recovery or touch the guardians:
\* once the clock of a recovery runs, its key is promoted.
StartedRecoveryCompletes ==
  \A k \in Key :
    (~signerLive /\ pendingRecovery.promoteKey = k /\ pendingRecovery.readyAt # 0)
      ~> (k \in keys)

-------------------------------------------------------------------------------
(* Refinement *)

Abstract ==
  INSTANCE RecoveryVote WITH
    electorate <- isGuardian,
    quorum     <- threshold,
    round      <- recoveryNonce,
    candidate  <- pendingRecovery.promoteKey,
    votes      <- Votes,
    clock      <- pendingRecovery.readyAt

\* GuardianLogic implements the vote that RecoveryVote describes.
ImplementsRecoveryVote == Abstract!Spec

===============================================================================
