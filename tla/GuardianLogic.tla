---------------------------- MODULE GuardianLogic ----------------------------
(***************************************************************************)
(* Guardian recovery of one wallet: contracts/src/GuardianLogic.sol, run   *)
(* by delegatecall from contracts/src/AvokCalibur.sol, so that every       *)
(* variable below is storage of the wallet itself.                         *)
(*                                                                         *)
(* An action is one transaction that succeeds.  A transaction that reverts *)
(* changes nothing, so each revert of the source is the negation of a      *)
(* guard here and the reverted call is a step that is not taken.           *)
(*                                                                         *)
(* The owner's side is any signer of the Calibur key roster: a call the    *)
(* source restricts with onlySelf can be made by whoever holds one.        *)
(* SignerLive is FALSE while nobody does (every device lost), which is     *)
(* what recovery is for.                                                   *)
(***************************************************************************)
EXTENDS AddressArray, FiniteSets

CONSTANTS
  Guardian,     \* addresses that may be named as guardians
  Signer,       \* guardians that approve by an EIP-712 signature made offline
  Key,          \* addresses a recovery may promote
  NoKey,        \* address(0)
  Delay,        \* delays, in ticks, that a setup transaction may carry
  MinDelay,     \* MIN_DELAY, 1 hour
  MaxDelay,     \* MAX_DELAY, 30 days
  Threshold,    \* thresholds that setup and SetThreshold transactions carry
  OpKind,       \* kinds of guardian operation the signers propose
  MaxRoster,    \* bound: guardians in a setup transaction
  MaxTime,      \* bound: ticks of block.timestamp
  MaxOps,       \* bound: guardian operations proposed
  MaxRounds     \* bound: recoveries ended by a veto or a promotion

ASSUME GuardianAssumption ==
  /\ IsFiniteSet(Guardian)
  /\ Signer \subseteq Guardian
ASSUME KeyAssumption == NoKey \notin Key
ASSUME DelayAssumption ==
  /\ Delay \subseteq Nat
  /\ MinDelay \in Nat \ {0}
  /\ MaxDelay \in Nat
ASSUME InputAssumption ==
  /\ Threshold \subseteq Nat
  /\ OpKind \subseteq {"Add", "Remove", "SetThreshold"}
  /\ MaxRoster \in Nat
ASSUME BoundAssumption ==
  /\ MaxTime \in Nat
  /\ MaxOps \in Nat
  /\ MaxRounds \in Nat

VARIABLES
  now,              \* block.timestamp, in ticks; a deployed wallet never sees 0
  guardians,        \* the array of guardians, in storage order
  isGuardian,       \* the mapping that mirrors it: the set of members
  threshold,        \* approvals that start the recovery clock
  recoveryDelay,    \* ticks from quorum to promotion
  guardianOpDelay,  \* ticks from proposal to execution of a guardian operation
  opNonce,          \* nonce the next guardian operation must carry
  recoveryNonce,    \* nonce of the current recovery
  pendingOps,       \* guardian operation -> tick it is ready at, 0 if none
  pendingRecovery,  \* [promoteKey, nonce, approvals, readyAt]
  approved,         \* <<guardian, promoteKey, nonce>> whose vote is recorded
  signed,           \* the same triples, for signatures guardians have made
  keys,             \* recovered keys on Calibur's roster, registered as admin
  signerLive,       \* somebody holds a signer of the wallet
  quorumSince,      \* history: tick since which the votes are a quorum, 0 if not
  overtaken,        \* history: that tick, of a quorum a raised threshold ended
  closedOps         \* history: operations vetoed or executed

configVars   == <<guardians, isGuardian, threshold, recoveryDelay, guardianOpDelay>>
opVars       == <<opNonce, pendingOps>>
recoveryVars == <<recoveryNonce, pendingRecovery, approved>>
ownerVars    == <<signed, keys, signerLive>>
historyVars  == <<quorumSince, overtaken, closedOps>>
vars == <<now, configVars, opVars, recoveryVars, ownerVars, historyVars>>

-------------------------------------------------------------------------------
(* Data *)

MaxUint8 == 255

\* A guardian operation.  Its hash, the key of the pendingOps mapping, is the
\* record itself.  Each kind reads one field; the other is zero.
Op ==
  { op \in [ kind : OpKind, guardian : Guardian \cup {NoKey},
             newThreshold : Threshold \cup {0}, nonce : 0..(MaxOps - 1) ] :
      IF op.kind = "SetThreshold"
      THEN op.guardian = NoKey
      ELSE op.guardian \in Guardian /\ op.newThreshold = 0 }

Nonce == 0..MaxRounds

\* The deleted struct.
NoRecovery == [promoteKey |-> NoKey, nonce |-> 0, approvals |-> 0, readyAt |-> 0]

\* The arguments of setupGuardians: arrays of guardians without a repetition.
Roster == ArraysOf(Guardian, MaxRoster)

ValidThreshold(thr, count) == thr # 0 /\ thr <= count

\* The guardians whose recorded vote is for the pending recovery.
Votes ==
  { g \in Guardian :
      <<g, pendingRecovery.promoteKey, pendingRecovery.nonce>> \in approved }

-------------------------------------------------------------------------------
(* History variables: they read the next state and restrict nothing. *)

\* The recorded votes are fewer than the threshold of this moment.
Short == Votes = {} \/ Cardinality(Votes) < threshold

\* A threshold that rises above the votes ends a quorum and leaves its clock
\* running (SetThreshold does not touch the pending recovery).  overtaken
\* remembers since when there had been one, until a vote is lost for want of a
\* quorum or a vote makes a quorum anew.
ObserveQuorum ==
  /\ quorumSince' = IF Short' THEN 0 ELSE IF quorumSince = 0 THEN now ELSE quorumSince
  /\ LET raised  == quorumSince # 0 /\ Short' /\ Votes' = Votes
         renewed == Short /\ ~Short' /\ Votes' # Votes
         lost    == Short' /\ ~(Votes \subseteq Votes')
     IN  overtaken' = IF raised /\ overtaken = 0
                      THEN quorumSince
                      ELSE IF renewed \/ lost THEN 0 ELSE overtaken

\* closedOps grows by the operations a transaction vetoes or executes.
Observe(closed) ==
  /\ ObserveQuorum
  /\ closedOps' = closedOps \cup closed

-------------------------------------------------------------------------------
(* Configuration *)

OnlySelf == signerLive

SetupGuardians(roster, thr, rd, gd) ==
  /\ OnlySelf
  /\ Len(guardians) = 0
  /\ ValidThreshold(thr, Len(roster))
  /\ MinDelay <= rd /\ rd <= MaxDelay
  /\ MinDelay <= gd /\ gd <= MaxDelay
  /\ Members(roster) \cap isGuardian = {}
  /\ guardians' = roster
  /\ isGuardian' = isGuardian \cup Members(roster)
  /\ threshold' = thr
  /\ recoveryDelay' = rd
  /\ guardianOpDelay' = gd
  /\ UNCHANGED <<now, opVars, recoveryVars, ownerVars>>
  /\ Observe({})

ProposeGuardianOp(op) ==
  /\ opNonce < MaxOps
  /\ OnlySelf
  /\ Len(guardians) # 0
  /\ op.nonce = opNonce
  /\ opNonce' = op.nonce + 1
  /\ pendingOps' = [pendingOps EXCEPT ![op] = now + guardianOpDelay]
  /\ UNCHANGED <<now, configVars, recoveryVars, ownerVars>>
  /\ Observe({})

VetoGuardianOp(op) ==
  /\ OnlySelf
  /\ pendingOps[op] # 0
  /\ pendingOps' = [pendingOps EXCEPT ![op] = 0]
  /\ UNCHANGED <<now, configVars, opNonce, recoveryVars, ownerVars>>
  /\ Observe({op})

\* executeGuardianOp up to the call of _applyOp.
TakeReadyOp(op) ==
  /\ OnlySelf
  /\ pendingOps[op] # 0
  /\ now >= pendingOps[op]
  /\ pendingOps' = [pendingOps EXCEPT ![op] = 0]
  /\ UNCHANGED <<now, opNonce, recoveryDelay, guardianOpDelay, recoveryNonce, ownerVars>>

ExecuteAdd(op) ==
  /\ op.kind = "Add"
  /\ TakeReadyOp(op)
  /\ op.guardian \notin isGuardian
  /\ isGuardian' = isGuardian \cup {op.guardian}
  /\ guardians' = Append(guardians, op.guardian)
  /\ UNCHANGED <<threshold, pendingRecovery, approved>>
  /\ Observe({op})

RevokeKeepsClock(g) ==
  LET vote == <<g, pendingRecovery.promoteKey, pendingRecovery.nonce>>
  IN  IF vote \notin approved
      THEN UNCHANGED <<pendingRecovery, approved>>
      ELSE /\ approved' = approved \ {vote}
           /\ pendingRecovery' = [pendingRecovery EXCEPT !.approvals = @ - 1]

RevokeNothing(g) == UNCHANGED <<pendingRecovery, approved>>

\* The vote of a guardian that is removed stops counting; a clock that has
\* lost its quorum stops.
RevokeApprovalIfPending(g) ==
  LET r    == pendingRecovery
      vote == <<g, r.promoteKey, r.nonce>>
      left == r.approvals - 1
  IN  IF r.promoteKey = NoKey \/ vote \notin approved
      THEN UNCHANGED <<pendingRecovery, approved>>
      ELSE /\ approved' = approved \ {vote}
           /\ pendingRecovery' =
                [r EXCEPT !.approvals = left,
                          !.readyAt   = IF left < threshold THEN 0 ELSE @]

ExecuteRemove(op) ==
  /\ op.kind = "Remove"
  /\ TakeReadyOp(op)
  /\ op.guardian \in isGuardian
  /\ isGuardian' = isGuardian \ {op.guardian}
  /\ guardians' = SwapPop(guardians, op.guardian)
  /\ threshold <= Len(guardians')
  /\ RevokeApprovalIfPending(op.guardian)
  /\ UNCHANGED threshold
  /\ Observe({op})

ExecuteSetThreshold(op) ==
  /\ op.kind = "SetThreshold"
  /\ TakeReadyOp(op)
  /\ ValidThreshold(op.newThreshold, Len(guardians))
  /\ threshold' = op.newThreshold
  /\ UNCHANGED <<guardians, isGuardian, pendingRecovery, approved>>
  /\ Observe({op})

-------------------------------------------------------------------------------
(* Recovery *)

\* _approve: record g's vote for k in the recovery of nonce n, and start the
\* clock with the vote that makes the approvals equal to the threshold.
Approve(g, k, n) ==
  LET r     == pendingRecovery
      first == r.approvals = 0
      count == r.approvals + 1
  IN  /\ IF first THEN k # NoKey ELSE r.promoteKey = k
      /\ <<g, k, n>> \notin approved
      /\ count <= MaxUint8
      /\ approved' = approved \cup {<<g, k, n>>}
      /\ pendingRecovery' =
           [ promoteKey |-> k,
             nonce      |-> IF first THEN n ELSE r.nonce,
             approvals  |-> count,
             readyAt    |-> IF count = threshold THEN now + recoveryDelay ELSE r.readyAt ]

\* Bounds: no vote once MaxRounds recoveries have ended, nor so late that the
\* clock it may start would outlast the ticks of the model.
InHorizon == recoveryNonce < MaxRounds /\ now + recoveryDelay <= MaxTime

ApproveRecovery(g, k, n) ==
  /\ InHorizon
  /\ g \in isGuardian
  /\ n = recoveryNonce
  /\ Approve(g, k, n)
  /\ UNCHANGED <<now, configVars, opVars, recoveryNonce, ownerVars>>
  /\ Observe({})

\* A guardian signs an approval of the recovery it sees on chain.  Nobody has
\* to submit the signature, and anybody may, once or again, at any later time.
SignApproval(g, k) ==
  /\ recoveryNonce < MaxRounds
  /\ signed' = signed \cup {<<g, k, recoveryNonce>>}
  /\ UNCHANGED <<now, configVars, opVars, recoveryVars, keys, signerLive>>
  /\ Observe({})

ApproveBySigOfAnyNonce(g, k, n) ==
  /\ InHorizon
  /\ <<g, k, n>> \in signed
  /\ g \in isGuardian
  /\ Approve(g, k, n)
  /\ UNCHANGED <<now, configVars, opVars, recoveryNonce, ownerVars>>
  /\ Observe({})

ApproveRecoveryBySig(g, k, n) ==
  /\ InHorizon
  /\ <<g, k, n>> \in signed
  /\ g \in isGuardian
  /\ n = recoveryNonce
  /\ Approve(g, k, n)
  /\ UNCHANGED <<now, configVars, opVars, recoveryNonce, ownerVars>>
  /\ Observe({})

VetoKeepsNonce ==
  /\ OnlySelf
  /\ pendingRecovery.promoteKey # NoKey
  /\ pendingRecovery' = NoRecovery
  /\ UNCHANGED <<now, configVars, opVars, recoveryNonce, approved, ownerVars>>
  /\ Observe({})

VetoRecovery ==
  /\ OnlySelf
  /\ pendingRecovery.promoteKey # NoKey
  /\ pendingRecovery' = NoRecovery
  /\ recoveryNonce' = recoveryNonce + 1
  /\ UNCHANGED <<now, configVars, opVars, approved, ownerVars>>
  /\ Observe({})

ExecuteBySignerOnly ==
  /\ OnlySelf
  /\ pendingRecovery.readyAt # 0
  /\ now >= pendingRecovery.readyAt
  /\ pendingRecovery' = NoRecovery
  /\ recoveryNonce' = recoveryNonce + 1
  /\ keys' = keys \cup {pendingRecovery.promoteKey}
  /\ UNCHANGED <<now, configVars, opVars, approved, signed, signerLive>>
  /\ Observe({})

\* Anybody may execute.  The promoted key joins Calibur's roster as admin
\* (registering a key that is there already changes nothing), and whoever
\* holds it is a signer again.
ExecuteRecovery ==
  /\ pendingRecovery.promoteKey # NoKey
  /\ pendingRecovery.readyAt # 0
  /\ now >= pendingRecovery.readyAt
  /\ pendingRecovery' = NoRecovery
  /\ recoveryNonce' = recoveryNonce + 1
  /\ keys' = keys \cup {pendingRecovery.promoteKey}
  /\ signerLive' = TRUE
  /\ UNCHANGED <<now, configVars, opVars, approved, signed>>
  /\ Observe({})

-------------------------------------------------------------------------------
(* The rest of the wallet and of the world *)

\* Calibur.revoke, a self-call: a recovered key leaves the roster.
RevokeKey(k) ==
  /\ OnlySelf
  /\ k \in keys
  /\ keys' = keys \ {k}
  /\ UNCHANGED <<now, configVars, opVars, recoveryVars, signed, signerLive>>
  /\ Observe({})

LoseSigners ==
  /\ signerLive
  /\ signerLive' = FALSE
  /\ UNCHANGED <<now, configVars, opVars, recoveryVars, signed, keys>>
  /\ Observe({})

Tick ==
  /\ now < MaxTime
  /\ now' = now + 1
  /\ UNCHANGED <<configVars, opVars, recoveryVars, ownerVars>>
  /\ Observe({})

-------------------------------------------------------------------------------
(* Specification *)

Init ==
  /\ now = 1
  /\ guardians = <<>>
  /\ isGuardian = {}
  /\ threshold = 0
  /\ recoveryDelay = 0
  /\ guardianOpDelay = 0
  /\ opNonce = 0
  /\ recoveryNonce = 0
  /\ pendingOps = [op \in Op |-> 0]
  /\ pendingRecovery = NoRecovery
  /\ approved = {}
  /\ signed = {}
  /\ keys = {}
  /\ signerLive = TRUE
  /\ quorumSince = 0
  /\ overtaken = 0
  /\ closedOps = {}

Next ==
  \/ \E s \in Roster, t \in Threshold, rd, gd \in Delay : SetupGuardians(s, t, rd, gd)
  \/ \E op \in Op : ProposeGuardianOp(op)
  \/ \E op \in Op : VetoGuardianOp(op)
  \/ \E op \in Op : ExecuteAdd(op)
  \/ \E op \in Op : ExecuteRemove(op)
  \/ \E op \in Op : ExecuteSetThreshold(op)
  \/ \E g \in Guardian, k \in Key \cup {NoKey}, n \in Nonce : ApproveRecovery(g, k, n)
  \/ \E g \in Signer, k \in Key : SignApproval(g, k)
  \/ \E g \in Signer, k \in Key, n \in Nonce : ApproveRecoveryBySig(g, k, n)
  \/ VetoRecovery
  \/ ExecuteRecovery
  \/ \E k \in Key : RevokeKey(k)
  \/ LoseSigners
  \/ Tick

Spec == Init /\ [][Next]_vars

\* Blocks keep coming, and executeRecovery asks for no permission: the person
\* waiting for the wallet keeps trying it.  Nothing else is promised.
Fairness == WF_vars(Tick) /\ WF_vars(ExecuteRecovery)

FairSpec == Spec /\ Fairness
==============================================================================
