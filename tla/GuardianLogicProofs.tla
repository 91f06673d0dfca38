------------------------- MODULE GuardianLogicProofs -------------------------
(***************************************************************************)
(* Proofs that GuardianLogic keeps its safety properties, and implements   *)
(* RecoveryVote, for every set of guardians and keys, every delay and      *)
(* threshold, and every bound.                                             *)
(***************************************************************************)
EXTENDS GuardianLogicSafety, FiniteSetTheorems, TLAPS

-------------------------------------------------------------------------------
(* Arrays without repetitions: what swap-and-pop does to one, and how long *)
(* it is.                                                                  *)

\* Swap-and-pop removes exactly g from an array without repetitions, and
\* leaves it without repetitions.
LEMMA SwapPopRemoves ==
  ASSUME NEW S, NEW s \in Seq(S), NEW g \in Members(s), Distinct(s)
  PROVE  /\ SwapPop(s, g) \in Seq(S)
         /\ Len(SwapPop(s, g)) = Len(s) - 1
         /\ Members(SwapPop(s, g)) = Members(s) \ {g}
         /\ Distinct(SwapPop(s, g))
<1> DEFINE n == Len(s)
           t == SwapPop(s, g)
<1>1. PICK m \in 1..n : s[m] = g
  BY DEF Members
<1>2. /\ n \in Nat /\ n >= 1 /\ s \in [1..n -> S]
      /\ \A i, j \in 1..n : s[i] = s[j] => i = j
  BY <1>1 DEF Distinct
<1>3. t = [i \in 1..(n - 1) |-> IF s[i] = g THEN s[n] ELSE s[i]]
  BY DEF SwapPop
<1>4. \A i \in 1..(n - 1) : t[i] = (IF i = m THEN s[n] ELSE s[i]) /\ t[i] \in S
  BY <1>1, <1>2, <1>3
<1>5. t \in Seq(S) /\ Len(t) = n - 1
  <2>1. t \in [1..(n - 1) -> S]
    BY <1>2, <1>3, <1>4
  <2>2. n - 1 \in Nat
    BY <1>2
  <2> QED
    BY <2>1, <2>2
<1>6. Members(t) \subseteq Members(s) \ {g}
  <2> SUFFICES ASSUME NEW i \in 1..(n - 1)
               PROVE  t[i] \in Members(s) \ {g}
    BY <1>5 DEF Members
  <2>1. CASE i = m
    BY <2>1, <1>1, <1>2, <1>4 DEF Members
  <2>2. CASE i # m
    BY <2>2, <1>1, <1>2, <1>4 DEF Members
  <2> QED
    BY <2>1, <2>2
<1>7. Members(s) \ {g} \subseteq Members(t)
  <2> SUFFICES ASSUME NEW x \in Members(s), x # g
               PROVE  \E j \in 1..(n - 1) : t[j] = x
    <3>1. Members(t) = {t[j] : j \in 1..(n - 1)}
      BY <1>5 DEF Members
    <3> QED
      BY <3>1
  <2> PICK i \in 1..n : s[i] = x
    BY DEF Members
  <2>1. CASE i = n
    <3>1. m \in 1..(n - 1)
      BY <2>1, <1>1, <1>2
    <3> QED
      BY <3>1, <2>1, <1>4
  <2>2. CASE i # n
    <3>1. i \in 1..(n - 1)
      <4> HIDE DEF n
      <4> QED
        BY <2>2, <1>2
    <3>2. i # m
      BY <1>1
    <3>3. t[i] = x
      BY <3>1, <3>2, <1>4
    <3> QED
      BY <3>1, <3>3
  <2> QED
    BY <2>1, <2>2
<1>8. Distinct(t)
  BY <1>1, <1>2, <1>4, <1>5 DEF Distinct
<1> QED
  BY <1>5, <1>6, <1>7, <1>8

\* An array without repetitions is as long as its set of members is large.
LEMMA DistinctLength ==
  ASSUME NEW S, NEW s \in Seq(S),
         Distinct(s)
  PROVE  IsFiniteSet(Members(s)) /\ Cardinality(Members(s)) = Len(s)
<1> DEFINE n == Len(s)
<1>1. n \in Nat /\ s \in [1..n -> Members(s)]
  BY DEF Members
<1>2. s \in Bijection(1..n, Members(s))
  <2>1. IsInjective(s)
    BY <1>1 DEF IsInjective, Distinct
  <2>2. \A x \in Members(s) : \E i \in 1..n : s[i] = x
    BY DEF Members
  <2> QED
    BY <1>1, <2>1, <2>2 DEF Bijection, Injection, Surjection
<1>3. ExistsBijection(1..n, Members(s))
  BY <1>2 DEF ExistsBijection
<1> QED
  BY <1>1, <1>3, FS_CountingElements, FS_NatBijection

\* An argument array is a sequence without repetitions.
LEMMA ArraysAreDistinct ==
  ASSUME NEW S, NEW max \in Nat, NEW s \in ArraysOf(S, max)
  PROVE  s \in Seq(S) /\ Distinct(s) /\ Members(s) \subseteq S
<1>1. PICK n \in 1..max : s \in [1..n -> S]
  BY DEF ArraysOf
<1>2. s \in Seq(S)
  BY <1>1
<1> QED
  BY <1>2 DEF ArraysOf, Members

\* A push adds exactly the one new address.
LEMMA AppendAdds ==
  ASSUME NEW S, NEW s \in Seq(S), NEW x \in S, x \notin Members(s), Distinct(s)
  PROVE  /\ Append(s, x) \in Seq(S)
         /\ Len(Append(s, x)) = Len(s) + 1
         /\ Members(Append(s, x)) = Members(s) \cup {x}
         /\ Distinct(Append(s, x))
<1> DEFINE n == Len(s)
           t == Append(s, x)
<1>1. n \in Nat /\ t \in Seq(S) /\ Len(t) = n + 1 /\ t[n + 1] = x
      /\ \A i \in 1..n : t[i] = s[i]
  OBVIOUS
<1>2. 1..Len(t) = 1..n \cup {n + 1}
  BY <1>1
<1>3. Members(t) = Members(s) \cup {x}
  BY <1>1, <1>2 DEF Members
<1>4. \A i \in 1..n : s[i] # x
  BY DEF Members
<1>5. Distinct(t)
  BY <1>1, <1>2, <1>4 DEF Distinct
<1> QED
  BY <1>1, <1>3, <1>5


-------------------------------------------------------------------------------
(* The inductive invariant in three parts, and what leaves each part alone *)

RosterPart == RosterMirrored /\ ThresholdReachable /\ DelaysBounded
VotePart   == PendingIsCurrent /\ OneCandidatePerRound /\ ApprovalsCountVoters
OpPart     == OpNoncesConsumed /\ OpsNeedSetup /\ ClosedOpsStayClosed

LEMMA Parts == IInv <=> TypeOK /\ RosterPart /\ VotePart /\ ClockBehindQuorum /\ OpPart
  BY DEF IInv, RosterPart, VotePart, OpPart

LEMMA PartsNext ==
  TypeOK' /\ RosterPart' /\ VotePart' /\ ClockBehindQuorum' /\ OpPart' => IInv'
  BY DEF IInv, RosterPart, VotePart, OpPart

\* Sets of guardians are finite, so votes can be counted.
LEMMA GuardiansFinite ==
  \A S \in SUBSET Guardian : IsFiniteSet(S) /\ Cardinality(S) \in Nat
  BY GuardianAssumption, FS_Subset, FS_CardinalityType

LEMMA RosterFrame ==
  RosterPart /\ UNCHANGED configVars => RosterPart'
  BY DEF RosterPart, RosterMirrored, ThresholdReachable, DelaysBounded, configVars, Members

\* Members may join, and nothing else may happen, without touching a vote.
LEMMA VoteFrame ==
  ASSUME VotePart, UNCHANGED recoveryVars, isGuardian \subseteq isGuardian'
  PROVE  VotePart' /\ Votes' = Votes
<1>1. Votes' = Votes
  BY DEF recoveryVars, Votes
<1> QED
  BY <1>1 DEF VotePart, PendingIsCurrent, OneCandidatePerRound, ApprovalsCountVoters,
              recoveryVars, NoRecovery

\* With the votes unchanged the history keeps pace with the clock, whatever
\* becomes of the threshold.
LEMMA ClockFrame ==
  ASSUME TypeOK, ClockBehindQuorum, UNCHANGED pendingRecovery, Votes' = Votes,
         now' \in Nat, now <= now',
         recoveryDelay' = recoveryDelay \/ pendingRecovery.readyAt = 0,
         ObserveQuorum
  PROVE  ClockBehindQuorum' /\ quorumSince' \in Nat /\ overtaken' \in Nat
<1>1. now \in Nat /\ quorumSince \in Nat /\ overtaken \in Nat
  BY DEF TypeOK
<1>2. quorumSince' = IF Short' THEN 0 ELSE IF quorumSince = 0 THEN now ELSE quorumSince
  BY DEF ObserveQuorum
<1>3. overtaken' = IF (quorumSince # 0 /\ Short') /\ overtaken = 0 THEN quorumSince ELSE overtaken
  BY DEF ObserveQuorum
<1>4. quorumSince # 0 => Votes # {}
  BY DEF ClockBehindQuorum, Short
<1>5. (quorumSince' # 0 => ~Short') /\ quorumSince' <= now' /\ overtaken' <= now'
  BY <1>1, <1>2, <1>3 DEF ClockBehindQuorum
<1>6. overtaken' # 0 => Votes' # {} /\ (quorumSince' # 0 => overtaken' <= quorumSince')
  BY <1>1, <1>2, <1>3, <1>4 DEF ClockBehindQuorum
<1>7. ASSUME pendingRecovery'.readyAt # 0
      PROVE  /\ pendingRecovery'.approvals # 0
             /\ \E since \in {quorumSince', overtaken'} :
                  since # 0 /\ pendingRecovery'.readyAt >= since + recoveryDelay'
  <2>1. pendingRecovery.approvals # 0 /\ recoveryDelay' = recoveryDelay
    BY <1>7 DEF ClockBehindQuorum
  <2>2. PICK since \in {quorumSince, overtaken} :
          since # 0 /\ pendingRecovery.readyAt >= since + recoveryDelay
    BY <1>7 DEF ClockBehindQuorum
  <2>3. recoveryDelay \in Nat /\ pendingRecovery.readyAt \in Nat
    BY DEF TypeOK
  <2>4. CASE overtaken # 0
    <3>1. overtaken <= since \/ since = overtaken
      BY <2>2, <2>4 DEF ClockBehindQuorum
    <3>2. overtaken' = overtaken /\ pendingRecovery.readyAt >= overtaken + recoveryDelay
      BY <3>1, <2>2, <2>3, <2>4, <1>1, <1>3
    <3> QED
      BY <3>2, <2>1, <2>4
  <2>5. CASE overtaken = 0
    <3>1. since = quorumSince /\ since \in {quorumSince', overtaken'}
      BY <2>2, <2>5, <1>2, <1>3
    <3> QED
      BY <3>1, <2>1, <2>2
  <2> QED
    BY <2>4, <2>5
<1>8. ClockBehindQuorum'
  BY <1>5, <1>6, <1>7 DEF ClockBehindQuorum
<1>9. quorumSince' \in Nat /\ overtaken' \in Nat
  BY <1>1, <1>2, <1>3
<1> QED
  BY <1>8, <1>9

LEMMA OpFrame ==
  ASSUME OpPart, UNCHANGED opVars, closedOps' = closedOps,
         Len(guardians) # 0 => Len(guardians') # 0
  PROVE  OpPart'
  BY DEF OpPart, OpNoncesConsumed, OpsNeedSetup, ClosedOpsStayClosed, opVars

\* Closing a pending operation deletes it.
LEMMA OpClose ==
  ASSUME TypeOK, OpPart, NEW op \in Op, pendingOps[op] # 0,
         pendingOps' = [pendingOps EXCEPT ![op] = 0],
         closedOps' = closedOps \cup {op}, opNonce' = opNonce,
         Len(guardians) # 0 => Len(guardians') # 0
  PROVE  OpPart' /\ pendingOps' \in [Op -> Nat] /\ closedOps' \subseteq Op
<1>1. pendingOps \in [Op -> Nat] /\ closedOps \subseteq Op
  BY DEF TypeOK
<1>2. \A o \in Op : pendingOps'[o] = IF o = op THEN 0 ELSE pendingOps[o]
  BY <1>1
<1> QED
  BY <1>1, <1>2 DEF OpPart, OpNoncesConsumed, OpsNeedSetup, ClosedOpsStayClosed

-------------------------------------------------------------------------------
(* What a vote, a removal and the end of a round do to the recorded votes *)

\* No vote is recorded for the empty key.
LEMMA NoVoteWithoutKey ==
  TypeOK /\ pendingRecovery.promoteKey = NoKey => Votes = {}
  BY KeyAssumption DEF TypeOK, Votes

\* An approval in the current round adds the one vote it records, whether it
\* opens the recovery or joins it.
LEMMA ApproveAddsVote ==
  ASSUME TypeOK, VotePart, NEW g \in isGuardian, NEW k \in Key \cup {NoKey},
         Approve(g, k, recoveryNonce)
  PROVE  /\ k \in Key
         /\ g \notin Votes
         /\ Votes' = Votes \cup {g}
         /\ pendingRecovery.approvals # 0 => pendingRecovery.promoteKey = k
         /\ pendingRecovery' = [ promoteKey |-> k, nonce |-> recoveryNonce,
                                 approvals  |-> pendingRecovery.approvals + 1,
                                 readyAt    |-> pendingRecovery'.readyAt ]
<1> DEFINE r == pendingRecovery
           n == recoveryNonce
<1>1. r \in [promoteKey : Key \cup {NoKey}, nonce : Nat, approvals : Nat, readyAt : Nat]
  BY DEF TypeOK
<1>2. /\ IF r.approvals = 0 THEN k # NoKey ELSE r.promoteKey = k
      /\ <<g, k, n>> \notin approved
      /\ approved' = approved \cup {<<g, k, n>>}
      /\ pendingRecovery' =
           [ promoteKey |-> k,
             nonce      |-> IF r.approvals = 0 THEN n ELSE r.nonce,
             approvals  |-> r.approvals + 1,
             readyAt    |-> IF r.approvals + 1 = threshold
                            THEN now + recoveryDelay ELSE r.readyAt ]
  BY DEF Approve
<1>3. r.approvals = Cardinality(Votes) /\ Votes \subseteq isGuardian
  BY DEF VotePart, ApprovalsCountVoters
<1>4. Votes \in SUBSET Guardian /\ g \in Guardian
  BY DEF Votes, TypeOK
<1>5. r.approvals = 0 <=> Votes = {}
  BY <1>3, <1>4, GuardiansFinite, FS_EmptySet
<1>6. k \in Key /\ (r.approvals # 0 => r.promoteKey = k /\ r.nonce = n)
  <2>1. CASE r.approvals = 0
    BY <2>1, <1>2
  <2>2. CASE r.approvals # 0
    <3>1. r.promoteKey # NoKey
      BY <2>2, <1>5, NoVoteWithoutKey
    <3> QED
      BY <3>1, <2>2, <1>1, <1>2 DEF VotePart, PendingIsCurrent
  <2> QED
    BY <2>1, <2>2
<1>7. \A h \in Guardian : <<h, k, n>> \in approved <=> h \in Votes
  <2>1. CASE r.approvals = 0
    <3> SUFFICES ASSUME NEW h \in Guardian, <<h, k, n>> \in approved
                 PROVE  FALSE
      BY <2>1, <1>5
    <3>1. r.nonce = n /\ r.promoteKey = k
      BY DEF VotePart, OneCandidatePerRound
    <3>2. h \in Votes
      BY <3>1 DEF Votes
    <3> QED
      BY <3>2, <2>1, <1>5
  <2>2. CASE r.approvals # 0
    BY <2>2, <1>6 DEF Votes
  <2> QED
    BY <2>1, <2>2
<1>8. pendingRecovery'.promoteKey = k /\ pendingRecovery'.nonce = n
  BY <1>2, <1>6
<1>9. Votes' = {h \in Guardian : <<h, k, n>> \in approved'}
  BY <1>8 DEF Votes
<1>10. Votes' = Votes \cup {g} /\ g \notin Votes
  <2>1. g \notin Votes
    BY <1>2, <1>4, <1>7
  <2>2. \A h \in Guardian : <<h, k, n>> \in approved' <=> h \in Votes \/ h = g
    BY <1>2, <1>7
  <2> QED
    BY <2>1, <2>2, <1>4, <1>9
<1> QED
  BY <1>2, <1>6, <1>8, <1>10

\* Removing a guardian takes exactly its vote out of the pending recovery.
LEMMA RevokeRemovesVote ==
  ASSUME TypeOK, NEW g \in Guardian, RevokeApprovalIfPending(g)
  PROVE  /\ Votes' = Votes \ {g}
         /\ approved' \subseteq approved
         /\ g \notin Votes => UNCHANGED <<pendingRecovery, approved>>
         /\ g \in Votes =>
              pendingRecovery' =
                [ promoteKey |-> pendingRecovery.promoteKey,
                  nonce      |-> pendingRecovery.nonce,
                  approvals  |-> pendingRecovery.approvals - 1,
                  readyAt    |-> IF pendingRecovery.approvals - 1 < threshold
                                 THEN 0 ELSE pendingRecovery.readyAt ]
<1> DEFINE r == pendingRecovery
           vote == <<g, r.promoteKey, r.nonce>>
<1>1. r \in [promoteKey : Key \cup {NoKey}, nonce : Nat, approvals : Nat, readyAt : Nat]
  BY DEF TypeOK
<1>2. r.promoteKey = NoKey => Votes = {}
  BY NoVoteWithoutKey
<1>3. g \in Votes <=> vote \in approved
  BY DEF Votes
<1>4. CASE g \notin Votes
  <2>1. UNCHANGED <<pendingRecovery, approved>>
    BY <1>3, <1>4 DEF RevokeApprovalIfPending
  <2> QED
    BY <2>1, <1>4 DEF Votes
<1>5. CASE g \in Votes
  <2>1. r.promoteKey # NoKey /\ vote \in approved
    BY <1>2, <1>3, <1>5
  <2>2. /\ approved' = approved \ {vote}
        /\ pendingRecovery' = [r EXCEPT !.approvals = r.approvals - 1,
                                        !.readyAt = IF r.approvals - 1 < threshold THEN 0 ELSE r.readyAt]
    BY <2>1 DEF RevokeApprovalIfPending
  <2>3. pendingRecovery' = [ promoteKey |-> r.promoteKey, nonce |-> r.nonce,
                             approvals |-> r.approvals - 1,
                             readyAt |-> IF r.approvals - 1 < threshold THEN 0 ELSE r.readyAt ]
    BY <1>1, <2>2
  <2>4. \A h \in Guardian : <<h, r.promoteKey, r.nonce>> \in approved'
                              <=> <<h, r.promoteKey, r.nonce>> \in approved /\ h # g
    BY <2>2
  <2>5. Votes' = Votes \ {g}
    BY <2>3, <2>4 DEF Votes
  <2> QED
    BY <2>2, <2>3, <2>5, <1>5
<1> QED
  BY <1>4, <1>5

\* A veto and a promotion burn the nonce and leave no vote behind.
LEMMA EndOfRound ==
  ASSUME TypeOK, VotePart, pendingRecovery' = NoRecovery, approved' = approved,
         recoveryNonce' = recoveryNonce + 1
  PROVE  VotePart' /\ Votes' = {}
<1>1. Votes' = {}
  BY KeyAssumption DEF TypeOK, Votes, NoRecovery
<1>2. \A vote \in approved' : vote[3] <= recoveryNonce' /\ vote[3] # recoveryNonce'
  <2> SUFFICES ASSUME NEW vote \in approved
               PROVE  vote[3] <= recoveryNonce + 1 /\ vote[3] # recoveryNonce + 1
    OBVIOUS
  <2>1. vote[3] \in Nat /\ recoveryNonce \in Nat
    BY DEF TypeOK
  <2>2. vote[3] <= recoveryNonce
    BY DEF VotePart, OneCandidatePerRound
  <2> QED
    BY <2>1, <2>2
<1>3. PendingIsCurrent'
  BY DEF PendingIsCurrent, NoRecovery
<1>4. OneCandidatePerRound'
  BY <1>2 DEF OneCandidatePerRound
<1>5. ApprovalsCountVoters'
  BY <1>1, FS_EmptySet DEF ApprovalsCountVoters, NoRecovery
<1> QED
  BY <1>1, <1>3, <1>4, <1>5 DEF VotePart

-------------------------------------------------------------------------------
(* Every action preserves the invariant *)

LEMMA InitEstablishes == Init => IInv
<1> SUFFICES ASSUME Init PROVE IInv
  OBVIOUS
<1>1. Votes = {}
  BY DEF Init, Votes
<1>2. TypeOK
  BY DEF Init, TypeOK, NoRecovery
<1>3. RosterPart
  BY DEF Init, RosterPart, RosterMirrored, ThresholdReachable, DelaysBounded, Members, Distinct
<1>4. VotePart
  BY <1>1, FS_EmptySet
  DEF Init, VotePart, PendingIsCurrent, OneCandidatePerRound, ApprovalsCountVoters, NoRecovery
<1>5. ClockBehindQuorum
  BY <1>1 DEF Init, ClockBehindQuorum, NoRecovery
<1>6. OpPart
  BY DEF Init, OpPart, OpNoncesConsumed, OpsNeedSetup, ClosedOpsStayClosed
<1> QED
  BY <1>2, <1>3, <1>4, <1>5, <1>6, Parts

LEMMA SetupStep ==
  ASSUME IInv, NEW s \in Roster, NEW t \in Threshold, NEW rd \in Delay, NEW gd \in Delay,
         SetupGuardians(s, t, rd, gd)
  PROVE  IInv'
<1> USE DEF SetupGuardians
<1>1. TypeOK /\ RosterPart /\ VotePart /\ ClockBehindQuorum /\ OpPart
  BY Parts
<1>2. s \in Seq(Guardian) /\ Distinct(s)
  BY InputAssumption, ArraysAreDistinct DEF Roster
<1>3. isGuardian = {}
  BY <1>1 DEF RosterPart, RosterMirrored, Members
<1>4. isGuardian' = Members(s) /\ Members(s) \subseteq Guardian
  BY <1>2, <1>3 DEF Members
<1>5. pendingRecovery.readyAt = 0
  <2>1. Votes = {} /\ pendingRecovery.approvals = 0
    BY <1>1, <1>3, FS_EmptySet DEF VotePart, ApprovalsCountVoters
  <2> QED
    BY <2>1, <1>1 DEF ClockBehindQuorum
<1>6. RosterPart'
  <2>1. RosterMirrored'
    BY <1>2, <1>4 DEF RosterMirrored
  <2>2. ThresholdReachable'
    BY <1>2, InputAssumption DEF ThresholdReachable, ValidThreshold
  <2>3. DelaysBounded'
    BY DEF DelaysBounded
  <2> QED
    BY <2>1, <2>2, <2>3 DEF RosterPart
<1>7. VotePart' /\ Votes' = Votes
  BY <1>1, <1>3, VoteFrame
<1>8. ClockBehindQuorum' /\ quorumSince' \in Nat /\ overtaken' \in Nat
  <2>1. UNCHANGED pendingRecovery /\ now' \in Nat /\ now <= now' /\ ObserveQuorum
    BY <1>1 DEF recoveryVars, Observe, TypeOK
  <2> QED
    BY <2>1, <1>1, <1>5, <1>7, ClockFrame
<1>9. OpPart'
  BY <1>1, OpFrame DEF Observe
<1>10. TypeOK'
  BY <1>1, <1>2, <1>4, <1>8, InputAssumption, DelayAssumption
  DEF TypeOK, opVars, recoveryVars, ownerVars, Observe
<1> QED
  BY <1>6, <1>7, <1>8, <1>9, <1>10, PartsNext

LEMMA ProposeStep ==
  ASSUME IInv, NEW op \in Op, ProposeGuardianOp(op)
  PROVE  IInv'
<1> USE DEF ProposeGuardianOp
<1>1. TypeOK /\ RosterPart /\ VotePart /\ ClockBehindQuorum /\ OpPart
  BY Parts
<1>2. RosterPart' /\ VotePart' /\ Votes' = Votes
  BY <1>1, RosterFrame, VoteFrame DEF configVars
<1>3. ClockBehindQuorum' /\ quorumSince' \in Nat /\ overtaken' \in Nat
  <2>1. /\ UNCHANGED pendingRecovery /\ now' \in Nat /\ now <= now'
        /\ recoveryDelay' = recoveryDelay /\ ObserveQuorum
    BY <1>1 DEF configVars, recoveryVars, Observe, TypeOK
  <2> QED
    BY <2>1, <1>1, <1>2, ClockFrame
<1>4. now + guardianOpDelay \in Nat /\ pendingOps \in [Op -> Nat] /\ opNonce \in Nat
  BY <1>1 DEF TypeOK
<1>5. \A o \in Op : o # op => pendingOps'[o] = pendingOps[o]
  BY <1>4
<1>6. op \notin closedOps
  BY <1>1, <1>4 DEF OpPart, OpNoncesConsumed
<1>7. opNonce' = opNonce + 1 /\ op.nonce = opNonce /\ closedOps' = closedOps
  BY DEF Observe
<1>8. OpPart'
  <2>1. \A o \in Op : o.nonce < opNonce => o.nonce < opNonce'
    BY <1>4, <1>7 DEF Op
  <2>2. \A o \in Op : (pendingOps'[o] # 0 \/ o \in closedOps') => o.nonce < opNonce'
    BY <2>1, <1>1, <1>4, <1>5, <1>7 DEF OpPart, OpNoncesConsumed
  <2>3. closedOps \subseteq Op
    BY <1>1 DEF TypeOK
  <2>4. \A o \in closedOps' : pendingOps'[o] = 0
    BY <2>3, <1>1, <1>5, <1>6, <1>7 DEF OpPart, ClosedOpsStayClosed
  <2> QED
    BY <2>2, <2>4 DEF OpPart, OpNoncesConsumed, OpsNeedSetup, ClosedOpsStayClosed, configVars
<1>9. TypeOK'
  BY <1>1, <1>3, <1>4, <1>7 DEF TypeOK, configVars, recoveryVars, ownerVars
<1> QED
  BY <1>2, <1>3, <1>8, <1>9, PartsNext

LEMMA VetoOpStep ==
  ASSUME IInv, NEW op \in Op, VetoGuardianOp(op)
  PROVE  IInv'
<1> USE DEF VetoGuardianOp
<1>1. TypeOK /\ RosterPart /\ VotePart /\ ClockBehindQuorum /\ OpPart
  BY Parts
<1>2. RosterPart' /\ VotePart' /\ Votes' = Votes
  BY <1>1, RosterFrame, VoteFrame DEF configVars
<1>3. ClockBehindQuorum' /\ quorumSince' \in Nat /\ overtaken' \in Nat
  <2>1. /\ UNCHANGED pendingRecovery /\ now' \in Nat /\ now <= now'
        /\ recoveryDelay' = recoveryDelay /\ ObserveQuorum
    BY <1>1 DEF configVars, recoveryVars, Observe, TypeOK
  <2> QED
    BY <2>1, <1>1, <1>2, ClockFrame
<1>4. OpPart' /\ pendingOps' \in [Op -> Nat] /\ closedOps' \subseteq Op
  BY <1>1, OpClose DEF Observe, configVars
<1>5. TypeOK'
  BY <1>1, <1>3, <1>4 DEF TypeOK, configVars, recoveryVars, ownerVars
<1> QED
  BY <1>2, <1>3, <1>4, <1>5, PartsNext

\* What the three kinds of operation share: the operation was pending, so the
\* wallet is set up, and it is closed.
LEMMA TakeReady ==
  ASSUME IInv, NEW op \in Op, TakeReadyOp(op), Observe({op})
  PROVE  /\ Len(guardians) \in Nat \ {0}
         /\ Len(guardians') # 0 => OpPart'
         /\ pendingOps' \in [Op -> Nat] /\ closedOps' \subseteq Op
         /\ UNCHANGED <<now, recoveryDelay, guardianOpDelay, opNonce, recoveryNonce, ownerVars>>
         /\ ObserveQuorum
<1>1. TypeOK /\ OpPart
  BY Parts
<1>2. pendingOps[op] # 0 /\ pendingOps' = [pendingOps EXCEPT ![op] = 0]
      /\ closedOps' = closedOps \cup {op} /\ opNonce' = opNonce
  BY DEF TakeReadyOp, Observe
<1>3. Len(guardians) \in Nat \ {0}
  BY <1>1, <1>2 DEF OpPart, OpsNeedSetup, TypeOK
<1>4. Len(guardians') # 0 => OpPart'
  BY <1>1, <1>2, OpClose
<1>5. pendingOps' \in [Op -> Nat] /\ closedOps' \subseteq Op
  BY <1>1, <1>2 DEF TypeOK
<1> QED
  BY <1>3, <1>4, <1>5 DEF TakeReadyOp, Observe

LEMMA AddStep ==
  ASSUME IInv, NEW op \in Op, ExecuteAdd(op)
  PROVE  IInv'
<1> USE DEF ExecuteAdd
<1>1. TypeOK /\ RosterPart /\ VotePart /\ ClockBehindQuorum /\ OpPart
  BY Parts
<1>2. /\ Len(guardians) \in Nat \ {0}
      /\ Len(guardians') # 0 => OpPart'
      /\ pendingOps' \in [Op -> Nat] /\ closedOps' \subseteq Op
      /\ UNCHANGED <<now, recoveryDelay, guardianOpDelay, opNonce, recoveryNonce, ownerVars>>
      /\ ObserveQuorum
  BY TakeReady
<1> DEFINE g == op.guardian
<1>3. g \in Guardian /\ g \notin isGuardian
  <2>1. isGuardian \subseteq Guardian
    BY <1>1 DEF TypeOK
  <2> QED
    BY <2>1 DEF Op
<1>4. /\ guardians' \in Seq(Guardian) /\ Len(guardians') = Len(guardians) + 1
      /\ Members(guardians') = isGuardian' /\ Distinct(guardians')
  <2>1. guardians \in Seq(Guardian) /\ Members(guardians) = isGuardian /\ Distinct(guardians)
    BY <1>1 DEF TypeOK, RosterPart, RosterMirrored
  <2> QED
    BY <1>3, <2>1, AppendAdds
<1>5. RosterPart'
  <2>1. RosterMirrored'
    BY <1>4 DEF RosterMirrored
  <2>2. ThresholdReachable'
    BY <1>1, <1>2, <1>4 DEF RosterPart, ThresholdReachable
  <2>3. DelaysBounded'
    BY <1>1, <1>2 DEF RosterPart, DelaysBounded
  <2> QED
    BY <2>1, <2>2, <2>3 DEF RosterPart
<1>6. VotePart' /\ Votes' = Votes
  BY <1>1, <1>2, VoteFrame DEF recoveryVars
<1>7. ClockBehindQuorum' /\ quorumSince' \in Nat /\ overtaken' \in Nat
  <2>1. now' \in Nat /\ now <= now'
    BY <1>1, <1>2 DEF TypeOK
  <2> QED
    BY <2>1, <1>1, <1>2, <1>6, ClockFrame
<1>8. OpPart'
  BY <1>2, <1>4
<1>9. TypeOK'
  BY <1>1, <1>2, <1>3, <1>4, <1>7 DEF TypeOK, ownerVars
<1> QED
  BY <1>5, <1>6, <1>7, <1>8, <1>9, PartsNext

LEMMA SetThresholdStep ==
  ASSUME IInv, NEW op \in Op, ExecuteSetThreshold(op)
  PROVE  IInv'
<1> USE DEF ExecuteSetThreshold
<1>1. TypeOK /\ RosterPart /\ VotePart /\ ClockBehindQuorum /\ OpPart
  BY Parts
<1>2. /\ Len(guardians) \in Nat \ {0}
      /\ Len(guardians') # 0 => OpPart'
      /\ pendingOps' \in [Op -> Nat] /\ closedOps' \subseteq Op
      /\ UNCHANGED <<now, recoveryDelay, guardianOpDelay, opNonce, recoveryNonce, ownerVars>>
      /\ ObserveQuorum
  BY TakeReady
<1>3. threshold' \in 1..Len(guardians)
  <2>1. op.newThreshold \in Nat
    BY InputAssumption DEF Op
  <2> QED
    BY <2>1, <1>2 DEF ValidThreshold
<1>4. RosterPart'
  BY <1>1, <1>2, <1>3
  DEF RosterPart, RosterMirrored, ThresholdReachable, DelaysBounded, Members
<1>5. VotePart' /\ Votes' = Votes
  BY <1>1, <1>2, VoteFrame DEF recoveryVars
<1>6. ClockBehindQuorum' /\ quorumSince' \in Nat /\ overtaken' \in Nat
  <2>1. now' \in Nat /\ now <= now'
    BY <1>1, <1>2 DEF TypeOK
  <2> QED
    BY <2>1, <1>1, <1>2, <1>5, ClockFrame
<1>7. OpPart'
  BY <1>2
<1>8. TypeOK'
  BY <1>1, <1>2, <1>3, <1>6 DEF TypeOK, ownerVars
<1> QED
  BY <1>4, <1>5, <1>6, <1>7, <1>8, PartsNext

LEMMA RemoveStep ==
  ASSUME IInv, NEW op \in Op, ExecuteRemove(op)
  PROVE  IInv'
<1> USE DEF ExecuteRemove
<1>1. TypeOK /\ RosterPart /\ VotePart /\ ClockBehindQuorum /\ OpPart
  BY Parts
<1>2. /\ Len(guardians) \in Nat \ {0}
      /\ Len(guardians') # 0 => OpPart'
      /\ pendingOps' \in [Op -> Nat] /\ closedOps' \subseteq Op
      /\ UNCHANGED <<now, recoveryDelay, guardianOpDelay, opNonce, recoveryNonce, ownerVars>>
      /\ ObserveQuorum
  BY TakeReady
<1> DEFINE g == op.guardian
           r == pendingRecovery
<1>3. g \in Guardian /\ g \in isGuardian
  <2>1. isGuardian \subseteq Guardian
    BY <1>1 DEF TypeOK
  <2> QED
    BY <2>1
<1>4. /\ guardians' \in Seq(Guardian)
      /\ Len(guardians') = Len(guardians) - 1
      /\ Members(guardians') = isGuardian'
      /\ Distinct(guardians')
  <2>1. guardians \in Seq(Guardian) /\ g \in Members(guardians)
    BY <1>1, <1>3 DEF TypeOK, RosterPart, RosterMirrored
  <2>2. guardians' = SwapPop(guardians, g)
    OBVIOUS
  <2> QED
    BY <2>1, <2>2, <1>1, SwapPopRemoves DEF RosterPart, RosterMirrored
<1>5. threshold \in 1..Len(guardians) /\ threshold' = threshold /\ threshold <= Len(guardians')
  BY <1>1, <1>2 DEF RosterPart, ThresholdReachable
<1>6. Len(guardians') \in Nat \ {0}
  <2>1. Len(guardians') \in Nat
    BY <1>2, <1>4
  <2>2. threshold \in Nat /\ threshold >= 1
    BY <1>2, <1>5
  <2> HIDE DEF ExecuteRemove
  <2> QED
    BY <2>1, <2>2, <1>5
<1>7. RosterPart'
  <2>1. RosterMirrored'
    BY <1>4 DEF RosterMirrored
  <2>2. ThresholdReachable'
    BY <1>5, <1>6 DEF ThresholdReachable
  <2>3. DelaysBounded'
    BY <1>1, <1>2 DEF RosterPart, DelaysBounded
  <2> QED
    BY <2>1, <2>2, <2>3 DEF RosterPart
<1>8. /\ Votes' = Votes \ {g}
      /\ approved' \subseteq approved
      /\ g \notin Votes => UNCHANGED <<pendingRecovery, approved>>
      /\ g \in Votes => pendingRecovery' =
           [ promoteKey |-> r.promoteKey, nonce |-> r.nonce, approvals |-> r.approvals - 1,
             readyAt |-> IF r.approvals - 1 < threshold THEN 0 ELSE r.readyAt ]
  BY <1>1, <1>3, RevokeRemovesVote
<1>9. r \in [promoteKey : Key \cup {NoKey}, nonce : Nat, approvals : Nat, readyAt : Nat]
  BY <1>1 DEF TypeOK
<1>10. Votes \in SUBSET Guardian /\ Votes \subseteq isGuardian /\ r.approvals = Cardinality(Votes)
  BY <1>1 DEF VotePart, ApprovalsCountVoters, Votes
<1>11. g \in Votes => r.approvals - 1 \in Nat /\ Cardinality(Votes') = r.approvals - 1
  <2> HIDE DEF ExecuteRemove
  <2> SUFFICES ASSUME g \in Votes
               PROVE  r.approvals - 1 \in Nat /\ Cardinality(Votes') = r.approvals - 1
    OBVIOUS
  <2>1. IsFiniteSet(Votes) /\ Cardinality(Votes) \in Nat /\ Cardinality(Votes') \in Nat
    BY <1>8, <1>10, GuardiansFinite
  <2>2. Cardinality(Votes') = Cardinality(Votes) - 1
    BY <2>1, <1>8, FS_RemoveElement
  <2> QED
    BY <2>1, <2>2, <1>10
<1>12. pendingRecovery' \in [promoteKey : Key \cup {NoKey}, nonce : Nat, approvals : Nat, readyAt : Nat]
  BY <1>8, <1>9, <1>11
<1>13. pendingRecovery'.promoteKey = r.promoteKey /\ pendingRecovery'.nonce = r.nonce
  BY <1>8, <1>9
<1>14. VotePart'
  <2>1. PendingIsCurrent'
    <3>1. CASE g \notin Votes
      BY <3>1, <1>1, <1>2, <1>8 DEF VotePart, PendingIsCurrent, NoRecovery
    <3>2. CASE g \in Votes
      BY <3>2, <1>1, <1>2, <1>13, NoVoteWithoutKey DEF VotePart, PendingIsCurrent
    <3> QED
      BY <3>1, <3>2
  <2>2. OneCandidatePerRound'
    BY <1>1, <1>2, <1>8, <1>13 DEF VotePart, OneCandidatePerRound
  <2>3. ApprovalsCountVoters'
    <3>1. Votes' \subseteq isGuardian'
      BY <1>8, <1>10
    <3>2. pendingRecovery'.approvals = Cardinality(Votes')
      <4>1. CASE g \notin Votes
        <5>1. UNCHANGED pendingRecovery /\ Votes' = Votes
          BY <4>1, <1>8
        <5> QED
          BY <5>1, <1>10
      <4>2. CASE g \in Votes
        <5>1. pendingRecovery'.approvals = r.approvals - 1
          BY <4>2, <1>8
        <5> QED
          BY <5>1, <4>2, <1>11
      <4> QED
        BY <4>1, <4>2
    <3> QED
      BY <3>1, <3>2 DEF ApprovalsCountVoters
  <2> QED
    BY <2>1, <2>2, <2>3 DEF VotePart
<1>15. ClockBehindQuorum' /\ quorumSince' \in Nat /\ overtaken' \in Nat
  <2>1. now \in Nat /\ quorumSince \in Nat /\ now' = now /\ recoveryDelay' = recoveryDelay
    BY <1>1, <1>2 DEF TypeOK
  <2>2. CASE g \notin Votes
    <3>1. UNCHANGED pendingRecovery /\ Votes' = Votes
      BY <2>2, <1>8
    <3> QED
      BY <3>1, <2>1, <1>1, <1>2, ClockFrame
  <2>3. CASE g \in Votes
    <3>1. Votes # {} /\ ~(Votes \subseteq Votes') /\ Votes' # Votes
      BY <2>3, <1>8
    <3>2. quorumSince' = IF Short' THEN 0 ELSE IF quorumSince = 0 THEN now ELSE quorumSince
      BY <1>2 DEF ObserveQuorum
    <3>3. Cardinality(Votes') \in Nat /\ Cardinality(Votes) = Cardinality(Votes') + 1
      BY <2>3, <1>9, <1>10, <1>11
    <3>4. ~Short' => ~Short /\ Votes' # {} /\ Cardinality(Votes') >= threshold
      <4> HIDE DEF ExecuteRemove
      <4> QED
        BY <3>1, <3>3, <1>5 DEF Short
    <3>5. overtaken' = IF Short' THEN 0 ELSE overtaken
      BY <3>1, <3>4, <1>2 DEF ObserveQuorum
    <3>6. CASE Short'
      <4>1. quorumSince' = 0 /\ overtaken' = 0
        BY <3>2, <3>5, <3>6
      <4>2. pendingRecovery'.readyAt = 0
        <5>1. Votes' = {} => Cardinality(Votes') = 0
          BY FS_EmptySet
        <5>2. threshold \in Nat /\ threshold >= 1
          BY <1>2, <1>5
        <5>3. Cardinality(Votes') < threshold
          <6> HIDE DEF ExecuteRemove
          <6> QED
            BY <5>1, <5>2, <3>6, <1>5 DEF Short
        <5> QED
          BY <5>3, <2>3, <1>8, <1>11
      <4> QED
        BY <4>1, <4>2, <2>1 DEF ClockBehindQuorum
    <3>7. CASE ~Short'
      <4>1. overtaken' = overtaken /\ Votes' # {}
        BY <3>4, <3>5, <3>7
      <4>2. pendingRecovery'.readyAt = r.readyAt /\ pendingRecovery'.approvals # 0
        BY <2>3, <3>3, <3>4, <3>7, <1>5, <1>8, <1>11, FS_EmptySet
      <4>3. quorumSince' \in {quorumSince, now} /\ quorumSince' # 0
        BY <3>2, <3>7, <2>1, <1>1 DEF TypeOK
      <4>4. quorumSince # 0 => quorumSince' = quorumSince
        BY <3>2, <3>7
      <4>5. overtaken \in Nat /\ overtaken <= now /\ quorumSince <= now
        BY <1>1 DEF TypeOK, ClockBehindQuorum
      <4>6. ASSUME r.readyAt # 0
            PROVE  \E since \in {quorumSince', overtaken'} :
                     since # 0 /\ r.readyAt >= since + recoveryDelay
        BY <4>1, <4>4, <4>6, <1>1 DEF ClockBehindQuorum
      <4>7. quorumSince' <= now' /\ overtaken' <= now'
        BY <4>1, <4>3, <4>5, <2>1
      <4>8. overtaken' # 0 => Votes' # {} /\ overtaken' <= quorumSince'
        BY <4>1, <4>3, <4>4, <4>5, <1>1, <2>1 DEF ClockBehindQuorum
      <4>9. ClockBehindQuorum'
        BY <4>2, <4>6, <4>7, <4>8, <3>7, <2>1 DEF ClockBehindQuorum
      <4> QED
        BY <4>9, <4>1, <4>3, <4>5, <2>1
    <3> QED
      BY <3>6, <3>7
  <2> QED
    BY <2>2, <2>3
<1>16. OpPart'
  BY <1>2, <1>6
<1>17. TypeOK'
  BY <1>1, <1>2, <1>4, <1>5, <1>8, <1>12, <1>15 DEF TypeOK, ownerVars
<1> QED
  BY <1>7, <1>14, <1>15, <1>16, <1>17, PartsNext

\* The two ways to approve end in the same _approve.
LEMMA ApproveStep ==
  ASSUME IInv, NEW g \in isGuardian, NEW k \in Key \cup {NoKey},
         Approve(g, k, recoveryNonce),
         UNCHANGED <<now, configVars, opVars, recoveryNonce, ownerVars>>,
         Observe({})
  PROVE  IInv'
<1> DEFINE r == pendingRecovery
<1>1. TypeOK /\ RosterPart /\ VotePart /\ ClockBehindQuorum /\ OpPart
  BY Parts
<1>2. /\ k \in Key
      /\ g \notin Votes
      /\ Votes' = Votes \cup {g}
      /\ r.approvals # 0 => r.promoteKey = k
      /\ pendingRecovery' = [ promoteKey |-> k, nonce |-> recoveryNonce,
                              approvals  |-> r.approvals + 1,
                              readyAt    |-> pendingRecovery'.readyAt ]
  BY <1>1, ApproveAddsVote
<1>3. pendingRecovery'.readyAt =
        IF r.approvals + 1 = threshold THEN now + recoveryDelay ELSE r.readyAt
  BY DEF Approve
<1>4. approved' = approved \cup {<<g, k, recoveryNonce>>}
  BY DEF Approve
<1>5. /\ now \in Nat \ {0} /\ recoveryDelay \in Nat /\ threshold \in Nat /\ quorumSince \in Nat
      /\ recoveryNonce \in Nat /\ isGuardian \subseteq Guardian
      /\ r \in [promoteKey : Key \cup {NoKey}, nonce : Nat, approvals : Nat, readyAt : Nat]
  BY <1>1 DEF TypeOK
<1>6. Votes \in SUBSET Guardian /\ Votes \subseteq isGuardian /\ r.approvals = Cardinality(Votes)
  BY <1>1 DEF VotePart, ApprovalsCountVoters, Votes
<1>7. Cardinality(Votes') = r.approvals + 1
  BY <1>2, <1>6, GuardiansFinite, FS_AddElement
<1>8. /\ UNCHANGED <<now, recoveryDelay, threshold, recoveryNonce, isGuardian, guardians>>
      /\ ObserveQuorum /\ closedOps' = closedOps
  BY DEF configVars, Observe
<1>9. RosterPart' /\ OpPart'
  BY <1>1, <1>8, RosterFrame, OpFrame
<1>10. VotePart'
  <2>1. PendingIsCurrent'
    BY <1>2, <1>8, KeyAssumption DEF PendingIsCurrent
  <2>2. OneCandidatePerRound'
    <3> SUFFICES ASSUME NEW vote \in approved'
                 PROVE  /\ vote[3] <= recoveryNonce
                        /\ vote[3] = recoveryNonce => vote[2] = k
      BY <1>2, <1>8 DEF OneCandidatePerRound
    <3>1. CASE vote = <<g, k, recoveryNonce>>
      BY <3>1, <1>5
    <3>2. CASE vote \in approved
      <4>1. vote[3] <= recoveryNonce
        BY <3>2, <1>1 DEF VotePart, OneCandidatePerRound
      <4>2. ASSUME vote[3] = recoveryNonce PROVE vote[2] = k
        <5>1. r.nonce = recoveryNonce /\ r.promoteKey = vote[2]
          BY <3>2, <4>2, <1>1 DEF VotePart, OneCandidatePerRound
        <5>2. vote \in Guardian \X Key \X Nat
          BY <3>2, <1>1 DEF TypeOK
        <5>3. vote = <<vote[1], r.promoteKey, r.nonce>> /\ vote[1] \in Guardian
          BY <5>1, <5>2, <4>2
        <5>4. vote[1] \in Votes
          BY <5>3, <3>2 DEF Votes
        <5>5. r.approvals # 0
          BY <5>4, <1>6, GuardiansFinite, FS_EmptySet
        <5> QED
          BY <5>1, <5>5, <1>2
      <4> QED
        BY <4>1, <4>2
    <3> QED
      BY <3>1, <3>2, <1>4
  <2>3. ApprovalsCountVoters'
    BY <1>2, <1>6, <1>7, <1>8 DEF ApprovalsCountVoters
  <2> QED
    BY <2>1, <2>2, <2>3 DEF VotePart
<1>11. ClockBehindQuorum' /\ quorumSince' \in Nat /\ overtaken' \in Nat
  <2>1. Votes' # {} /\ Votes \subseteq Votes'
    BY <1>2
  <2>2. Votes' # Votes /\ overtaken \in Nat
    BY <1>1, <1>2 DEF TypeOK
  <2>3. quorumSince' = IF Short' THEN 0 ELSE IF quorumSince = 0 THEN now ELSE quorumSince
    BY <1>8 DEF ObserveQuorum
  <2>4. overtaken' = IF Short /\ ~Short' THEN 0 ELSE overtaken
    BY <2>1, <2>2, <1>8 DEF ObserveQuorum
  <2>5. /\ quorumSince <= now /\ overtaken <= now
        /\ quorumSince # 0 => ~Short
        /\ overtaken # 0 /\ quorumSince # 0 => overtaken <= quorumSince
    BY <1>1 DEF ClockBehindQuorum
  <2>6. ~Short => ~Short'
    BY <2>1, <1>5, <1>6, <1>7, <1>8 DEF Short
  <2>7. quorumSince # 0 => quorumSince' = quorumSince
    BY <2>3, <2>5, <2>6
  <2>8. quorumSince' \in Nat /\ overtaken' \in Nat /\ quorumSince' <= now' /\ overtaken' <= now'
    BY <2>2, <2>3, <2>4, <2>5, <1>5, <1>8
  <2>9. overtaken' # 0 => Votes' # {} /\ (quorumSince' # 0 => overtaken' <= quorumSince')
    BY <2>1, <2>2, <2>3, <2>4, <2>5, <1>5
  <2>10. pendingRecovery'.approvals # 0
    BY <1>2, <1>5
  <2>11. CASE r.approvals + 1 = threshold
    <3>1. ~Short' /\ pendingRecovery'.readyAt = now + recoveryDelay
      BY <2>1, <2>11, <1>3, <1>5, <1>7, <1>8 DEF Short
    <3>2. quorumSince' # 0 /\ now + recoveryDelay >= quorumSince' + recoveryDelay
      BY <3>1, <2>3, <2>5, <1>5
    <3>3. recoveryDelay' = recoveryDelay
      BY <1>8
    <3>4. \E since \in {quorumSince', overtaken'} :
            since # 0 /\ pendingRecovery'.readyAt >= since + recoveryDelay'
      BY <3>1, <3>2, <3>3
    <3> QED
      BY <3>1, <3>4, <2>8, <2>9, <2>10 DEF ClockBehindQuorum
  <2>12. CASE r.approvals + 1 # threshold
    <3>1. pendingRecovery'.readyAt = r.readyAt
      BY <2>12, <1>3
    <3>2. ASSUME r.readyAt # 0
          PROVE  \E since \in {quorumSince', overtaken'} :
                   since # 0 /\ r.readyAt >= since + recoveryDelay
      <4>1. Short => Short'
        <5>1. r.approvals # 0 /\ r.approvals \in Nat
          BY <3>2, <1>1, <1>5 DEF ClockBehindQuorum
        <5>2. Votes # {}
          BY <5>1, <1>6, FS_EmptySet
        <5> QED
          BY <5>1, <5>2, <2>12, <1>5, <1>6, <1>7, <1>8 DEF Short
      <4>2. overtaken' = overtaken
        BY <4>1, <2>4
      <4> QED
        BY <4>2, <3>2, <2>7, <1>1 DEF ClockBehindQuorum
    <3>3. quorumSince' # 0 => ~Short'
      BY <2>3
    <3> QED
      BY <3>1, <3>2, <3>3, <2>8, <2>9, <2>10, <1>8 DEF ClockBehindQuorum
  <2> QED
    BY <2>11, <2>12
<1>12. TypeOK'
  <2>1. approved' \subseteq Guardian \X Key \X Nat
    BY <1>1, <1>2, <1>4, <1>5 DEF TypeOK
  <2>2. pendingRecovery' \in [promoteKey : Key \cup {NoKey}, nonce : Nat, approvals : Nat, readyAt : Nat]
    BY <1>2, <1>3, <1>5
  <2> QED
    BY <2>1, <2>2, <1>1, <1>8, <1>11 DEF TypeOK, configVars, opVars, ownerVars
<1> QED
  BY <1>9, <1>10, <1>11, <1>12, PartsNext

LEMMA EndRoundStep ==
  ASSUME IInv, VetoRecovery \/ ExecuteRecovery
  PROVE  IInv'
<1>1. TypeOK /\ RosterPart /\ VotePart /\ ClockBehindQuorum /\ OpPart
  BY Parts
<1>2. /\ pendingRecovery.promoteKey # NoKey
      /\ pendingRecovery' = NoRecovery /\ recoveryNonce' = recoveryNonce + 1
      /\ UNCHANGED <<now, configVars, opVars, approved, signed>>
      /\ keys' \subseteq keys \cup {pendingRecovery.promoteKey}
      /\ signerLive' \in {signerLive, TRUE}
      /\ ObserveQuorum /\ closedOps' = closedOps
  BY DEF VetoRecovery, ExecuteRecovery, ownerVars, Observe
<1>3. VotePart' /\ Votes' = {}
  BY <1>1, <1>2, EndOfRound
<1>4. RosterPart' /\ OpPart'
  BY <1>1, <1>2, RosterFrame, OpFrame DEF configVars
<1>5. ClockBehindQuorum' /\ quorumSince' \in Nat /\ overtaken' \in Nat
  <2>1. Short' /\ quorumSince' = 0
    BY <1>2, <1>3 DEF ObserveQuorum, Short
  <2>4. overtaken' = 0
    <3>1. (quorumSince # 0 \/ overtaken # 0) => Votes # {}
      BY <1>1 DEF ClockBehindQuorum, Short
    <3>2. Votes # {} => Votes' # Votes /\ ~(Votes \subseteq Votes')
      BY <1>3
    <3> QED
      BY <3>1, <3>2, <2>1, <1>2 DEF ObserveQuorum
  <2>2. pendingRecovery'.readyAt = 0
    BY <1>2 DEF NoRecovery
  <2>3. now' \in Nat
    BY <1>1, <1>2 DEF TypeOK
  <2> QED
    BY <2>1, <2>2, <2>3, <2>4 DEF ClockBehindQuorum
<1>6. TypeOK'
  <2>1. recoveryNonce' \in Nat /\ keys' \subseteq Key
    BY <1>1, <1>2 DEF TypeOK
  <2>2. pendingRecovery' \in [promoteKey : Key \cup {NoKey}, nonce : Nat, approvals : Nat, readyAt : Nat]
    BY <1>2 DEF NoRecovery
  <2>3. signerLive' \in BOOLEAN
    BY <1>1, Zenon DEF TypeOK, VetoRecovery, ExecuteRecovery, ownerVars
  <2> QED
    BY <2>1, <2>2, <2>3, <1>1, <1>2, <1>5 DEF TypeOK, configVars, opVars
<1> QED
  BY <1>3, <1>4, <1>5, <1>6, PartsNext

\* Signatures, the key roster, the loss of the signers and the passage of time
\* leave the guardians, their operations and the pending recovery alone.
LEMMA WorldStep ==
  ASSUME IInv,
         UNCHANGED <<configVars, opVars, recoveryVars, closedOps>>, ObserveQuorum,
         now' \in Nat, now <= now',
         signed' \subseteq Guardian \X Key \X Nat, keys' \subseteq Key, signerLive' \in BOOLEAN
  PROVE  IInv'
<1>1. TypeOK /\ RosterPart /\ VotePart /\ ClockBehindQuorum /\ OpPart
  BY Parts
<1>2. RosterPart' /\ VotePart' /\ Votes' = Votes /\ OpPart'
  BY <1>1, RosterFrame, VoteFrame, OpFrame DEF configVars
<1>3. ClockBehindQuorum' /\ quorumSince' \in Nat /\ overtaken' \in Nat
  BY <1>1, <1>2, ClockFrame DEF configVars, recoveryVars
<1>4. TypeOK'
  BY <1>1, <1>3 DEF TypeOK, configVars, opVars, recoveryVars
<1> QED
  BY <1>2, <1>3, <1>4, PartsNext

LEMMA StutterStep == IInv /\ UNCHANGED vars => IInv'
<1> SUFFICES ASSUME IInv, UNCHANGED vars PROVE IInv'
  OBVIOUS
<1>1. TypeOK /\ RosterPart /\ VotePart /\ ClockBehindQuorum /\ OpPart
  BY Parts
<1>2. UNCHANGED <<now, configVars, opVars, recoveryVars, ownerVars, quorumSince, overtaken, closedOps>>
  BY DEF vars, historyVars
<1>3. RosterPart' /\ VotePart' /\ Votes' = Votes /\ OpPart'
  BY <1>1, <1>2, RosterFrame, VoteFrame, OpFrame DEF configVars
<1>4. ClockBehindQuorum'
  BY <1>1, <1>2, <1>3 DEF ClockBehindQuorum, Short, configVars, recoveryVars
<1>5. TypeOK'
  BY <1>1, <1>2 DEF TypeOK, configVars, opVars, recoveryVars, ownerVars
<1> QED
  BY <1>3, <1>4, <1>5, PartsNext

LEMMA NextStep == IInv /\ [Next]_vars => IInv'
<1> SUFFICES ASSUME IInv, [Next]_vars PROVE IInv'
  OBVIOUS
<1>1. /\ now \in Nat \ {0} /\ recoveryNonce \in Nat /\ isGuardian \subseteq Guardian
      /\ signed \subseteq Guardian \X Key \X Nat /\ keys \subseteq Key /\ signerLive \in BOOLEAN
  BY DEF IInv, TypeOK
<1>2. CASE \E s \in Roster, t \in Threshold, rd, gd \in Delay : SetupGuardians(s, t, rd, gd)
  BY <1>2, SetupStep
<1>3. CASE \E op \in Op : ProposeGuardianOp(op)
  BY <1>3, ProposeStep
<1>4. CASE \E op \in Op : VetoGuardianOp(op)
  BY <1>4, VetoOpStep
<1>5. CASE \E op \in Op : ExecuteAdd(op)
  BY <1>5, AddStep
<1>6. CASE \E op \in Op : ExecuteRemove(op)
  BY <1>6, RemoveStep
<1>7. CASE \E op \in Op : ExecuteSetThreshold(op)
  BY <1>7, SetThresholdStep
<1>8. CASE \E g \in Guardian, k \in Key \cup {NoKey}, n \in Nonce : ApproveRecovery(g, k, n)
  BY <1>8, ApproveStep DEF ApproveRecovery
<1>9. CASE \E g \in Signer, k \in Key, n \in Nonce : ApproveRecoveryBySig(g, k, n)
  BY <1>9, ApproveStep DEF ApproveRecoveryBySig
<1>10. CASE VetoRecovery \/ ExecuteRecovery
  BY <1>10, EndRoundStep
<1>11. CASE \E g \in Signer, k \in Key : SignApproval(g, k)
  <2>1. PICK g \in Signer, k \in Key : SignApproval(g, k)
    BY <1>11
  <2>2. signed' \subseteq Guardian \X Key \X Nat
    BY <2>1, <1>1, GuardianAssumption DEF SignApproval
  <2>3. UNCHANGED <<now, configVars, opVars, recoveryVars, keys, signerLive>> /\ Observe({})
    BY <2>1 DEF SignApproval
  <2> QED
    BY <2>2, <2>3, <1>1, WorldStep DEF Observe
<1>12. CASE \E k \in Key : RevokeKey(k)
  <2>1. /\ keys' \subseteq keys /\ Observe({})
        /\ UNCHANGED <<now, configVars, opVars, recoveryVars, signed, signerLive>>
    BY <1>12 DEF RevokeKey
  <2> QED
    BY <2>1, <1>1, WorldStep DEF Observe
<1>13. CASE LoseSigners
  <2>1. signerLive' \in BOOLEAN
    BY <1>13, Zenon DEF LoseSigners
  <2>2. UNCHANGED <<now, configVars, opVars, recoveryVars, signed, keys>> /\ Observe({})
    BY <1>13 DEF LoseSigners
  <2> QED
    BY <2>1, <2>2, <1>1, WorldStep DEF Observe
<1>14. CASE Tick
  <2>1. now' = now + 1 /\ UNCHANGED <<configVars, opVars, recoveryVars, ownerVars>> /\ Observe({})
    BY <1>14 DEF Tick
  <2> QED
    BY <2>1, <1>1, WorldStep DEF Observe, ownerVars
<1>15. CASE UNCHANGED vars
  BY <1>15, StutterStep
<1> QED
  BY <1>2, <1>3, <1>4, <1>5, <1>6, <1>7, <1>8, <1>9, <1>10, <1>11, <1>12, <1>13, <1>14, <1>15
  DEF Next

-------------------------------------------------------------------------------
(* Theorems *)

\* The conjunction that holds the proofs below together is an invariant of
\* every wallet, whatever its guardians, delays and thresholds.
THEOREM InvariantHolds == Spec => []IInv
  BY InitEstablishes, NextStep, PTL DEF Spec

\* Every storage slot keeps its type: no counter, clock or nonce of
\* GuardianStore ever leaves the naturals.
THEOREM TypeCorrect == Spec => []TypeOK
  BY InvariantHolds, PTL DEF IInv

\* The array of guardians and the mapping beside it agree, through every
\* setup, addition and swap-and-pop removal.
THEOREM RosterStaysMirrored == Spec => []RosterMirrored
  BY InvariantHolds, PTL DEF IInv

\* No order in which proposed operations are executed leaves a threshold that
\* the guardians cannot reach.
THEOREM ThresholdStaysReachable == Spec => []ThresholdReachable
  BY InvariantHolds, PTL DEF IInv

\* The counter of approvals counts present guardians who voted for the
\* pending key, and nobody else.
THEOREM ApprovalsAreVotes == Spec => []ApprovalsCountVoters
  BY InvariantHolds, PTL DEF IInv

\* A round has one candidate, and votes of ended rounds are never counted.
THEOREM RoundHasOneCandidate == Spec => []OneCandidatePerRound
  BY InvariantHolds, PTL DEF IInv

\* A vetoed or executed guardian operation never becomes pending again.
THEOREM ClosedOpsNeverReopen == Spec => []ClosedOpsStayClosed
  BY InvariantHolds, PTL DEF IInv

-------------------------------------------------------------------------------
(* Action property and refinement *)

Notice ==
  \A k \in keys' \ keys :
    /\ pendingRecovery.promoteKey = k
    /\ Noticed(quorumSince) \/ Noticed(overtaken)
    /\ recoveryDelay >= MinDelay

\* Only a promotion adds a key, and it does so behind a clock that has run.
LEMMA PromotionStep == IInv /\ [Next]_vars => Notice
<1> SUFFICES ASSUME IInv, [Next]_vars, NEW k \in keys' \ keys
             PROVE  /\ pendingRecovery.promoteKey = k
                    /\ Noticed(quorumSince) \/ Noticed(overtaken)
                    /\ recoveryDelay >= MinDelay
  BY DEF Notice
<1>1. ExecuteRecovery
  <2>1. \A op \in Op : TakeReadyOp(op) => keys' = keys
    BY DEF TakeReadyOp, ownerVars
  <2>2. \A j \in Key : RevokeKey(j) => keys' \subseteq keys
    BY DEF RevokeKey
  <2> QED
    BY <2>1, <2>2
    DEF Next, vars, ownerVars, SetupGuardians, ProposeGuardianOp, VetoGuardianOp, ExecuteAdd,
        ExecuteRemove, ExecuteSetThreshold, ApproveRecovery, SignApproval, ApproveRecoveryBySig,
        VetoRecovery, LoseSigners, Tick
<1>2. pendingRecovery.readyAt # 0 /\ now >= pendingRecovery.readyAt /\ pendingRecovery.promoteKey = k
  BY <1>1 DEF ExecuteRecovery
<1>3. TypeOK /\ RosterPart /\ VotePart /\ ClockBehindQuorum
  BY Parts
<1>4. /\ pendingRecovery.approvals # 0
      /\ \E since \in {quorumSince, overtaken} :
           since # 0 /\ pendingRecovery.readyAt >= since + recoveryDelay
  BY <1>2, <1>3 DEF ClockBehindQuorum
<1>5. recoveryDelay >= MinDelay
  <2>1. isGuardian # {}
    BY <1>3, <1>4, FS_EmptySet DEF VotePart, ApprovalsCountVoters
  <2>2. Len(guardians) # 0
    BY <2>1, <1>3 DEF RosterPart, RosterMirrored, Members
  <2> QED
    BY <2>2, <1>3 DEF RosterPart, DelaysBounded
<1>6. /\ now \in Nat /\ quorumSince \in Nat /\ overtaken \in Nat /\ recoveryDelay \in Nat
      /\ pendingRecovery.readyAt \in Nat
  BY <1>3 DEF TypeOK
<1>7. \E since \in {quorumSince, overtaken} : Noticed(since)
  BY <1>2, <1>4, <1>6 DEF Noticed
<1> QED
  BY <1>2, <1>5, <1>7

\* Every promoted key was the candidate of a quorum that stood unbroken for the
\* whole recovery delay, at least MinDelay, unless the signers raised the
\* threshold above it: then it had been one that long ago, and was lost to
\* nothing else since.
THEOREM PromotionIsNoticed == Spec => PromotionHadNotice
<1>1. IInv /\ [Next]_vars => [Notice]_vars
  BY PromotionStep
<1> QED
  BY <1>1, InvariantHolds, PTL DEF Spec, PromotionHadNotice, Notice

\* The abstract specification counts with its own instance of FiniteSets.
LEMMA SameCardinality == \A S : Abstract!Cardinality(S) = Cardinality(S)
  BY DEF Abstract!Cardinality, Cardinality

\* A change of the guardians or of the threshold is a reform of the electorate.
LEMMA ReformStep ==
  ASSUME IInv, IInv',
         Votes' = Votes \cap isGuardian',
         pendingRecovery'.readyAt =
           IF Votes' # Votes /\ Cardinality(Votes') < threshold'
           THEN 0 ELSE pendingRecovery.readyAt,
         pendingRecovery'.promoteKey = pendingRecovery.promoteKey,
         Len(guardians') # 0,
         UNCHANGED <<now, recoveryNonce, keys>>
  PROVE  Abstract!Reform
<1>1. TypeOK' /\ RosterMirrored' /\ ThresholdReachable'
  BY DEF IInv
<1>2. isGuardian' \subseteq Guardian
  BY <1>1 DEF TypeOK
<1>3. Cardinality(isGuardian') = Len(guardians')
  BY <1>1, DistinctLength DEF TypeOK, RosterMirrored
<1>4. threshold' \in 1..Cardinality(isGuardian')
  BY <1>1, <1>3 DEF ThresholdReachable
<1> QED
  BY <1>2, <1>4, SameCardinality DEF Abstract!Reform

\* An approval, however it reaches the wallet, is one vote.
LEMMA VoteStep ==
  ASSUME IInv, NEW g \in isGuardian, NEW k \in Key \cup {NoKey},
         Approve(g, k, recoveryNonce),
         UNCHANGED <<now, configVars, recoveryNonce, keys>>
  PROVE  Abstract!Vote(g, k)
<1> DEFINE r == pendingRecovery
<1>1. TypeOK /\ RosterPart /\ VotePart
  BY Parts
<1>2. /\ k \in Key
      /\ g \notin Votes
      /\ Votes' = Votes \cup {g}
      /\ r.approvals # 0 => r.promoteKey = k
      /\ pendingRecovery'.promoteKey = k
  BY <1>1, ApproveAddsVote
<1>3. Votes \in SUBSET Guardian /\ r.approvals = Cardinality(Votes) /\ Votes \subseteq isGuardian
  BY <1>1 DEF VotePart, ApprovalsCountVoters, Votes
<1>4. Votes # {} => k = r.promoteKey
  BY <1>2, <1>3, GuardiansFinite, FS_EmptySet
<1>5. Cardinality(Votes') = r.approvals + 1
  BY <1>2, <1>3, GuardiansFinite, FS_AddElement
<1>6. pendingRecovery'.readyAt =
        IF r.approvals + 1 = threshold THEN now + recoveryDelay ELSE r.readyAt
  BY DEF Approve
<1>7. recoveryDelay >= MinDelay /\ recoveryDelay \in Nat /\ now \in Nat /\ threshold \in Nat
  <2>1. Len(guardians) # 0
    BY <1>1 DEF RosterPart, RosterMirrored, Members
  <2> QED
    BY <2>1, <1>1 DEF RosterPart, DelaysBounded, TypeOK
<1>8. \/ pendingRecovery'.readyAt = r.readyAt
      \/ Cardinality(Votes') >= threshold /\ pendingRecovery'.readyAt >= now + MinDelay
  BY <1>5, <1>6, <1>7, DelayAssumption
<1> QED
  BY <1>2, <1>4, <1>8, SameCardinality DEF Abstract!Vote, configVars

LEMMA RefineInit == Init => Abstract!Init
<1> SUFFICES ASSUME Init PROVE Abstract!Init
  OBVIOUS
<1>1. Votes = {}
  BY DEF Init, Votes
<1> QED
  BY <1>1 DEF Init, Abstract!Init, NoRecovery

\* Every transaction of the wallet is a step of the vote, or none of its business.
LEMMA RefineStep == IInv /\ IInv' /\ [Next]_vars => [Abstract!Next]_(Abstract!vars)
<1> SUFFICES ASSUME IInv, IInv', [Next]_vars
             PROVE  Abstract!Next \/ UNCHANGED Abstract!vars
  BY DEF Abstract!vars, Abstract!ballot
<1>1. TypeOK /\ RosterPart /\ VotePart /\ ClockBehindQuorum /\ OpPart
  BY Parts
<1>2. Votes \subseteq isGuardian /\ isGuardian \subseteq Guardian /\ Votes \in SUBSET Guardian
  BY <1>1 DEF VotePart, ApprovalsCountVoters, TypeOK
<1>3. ASSUME UNCHANGED <<now, isGuardian, threshold, recoveryVars, keys>>
      PROVE  UNCHANGED Abstract!vars
  <2>1. Votes' = Votes
    BY <1>3 DEF Votes, recoveryVars
  <2> QED
    BY <1>3, <2>1 DEF Abstract!vars, Abstract!ballot, recoveryVars
<1>4. ASSUME \E s \in Roster, t \in Threshold, rd, gd \in Delay : SetupGuardians(s, t, rd, gd)
      PROVE  Abstract!Reform
  <2>1. PICK s \in Roster, t \in Threshold, rd \in Delay, gd \in Delay : SetupGuardians(s, t, rd, gd)
    BY <1>4
  <2>2. guardians' = s /\ t # 0 /\ t <= Len(s) /\ isGuardian \subseteq isGuardian'
        /\ UNCHANGED <<now, recoveryVars, keys>>
    BY <2>1 DEF SetupGuardians, ValidThreshold, ownerVars
  <2>3. Len(guardians') # 0
    BY <2>2, InputAssumption
  <2>4. Votes' = Votes /\ Votes' = Votes \cap isGuardian'
    BY <2>2, <1>2 DEF Votes, recoveryVars
  <2> QED
    BY <2>2, <2>3, <2>4, ReformStep DEF recoveryVars
<1>5. ASSUME NEW op \in Op, ExecuteAdd(op) \/ ExecuteSetThreshold(op)
      PROVE  Abstract!Reform
  <2>1. TakeReadyOp(op) /\ Observe({op}) /\ isGuardian \subseteq isGuardian'
        /\ UNCHANGED <<pendingRecovery, approved>>
    BY <1>5 DEF ExecuteAdd, ExecuteSetThreshold
  <2>2. Len(guardians) \in Nat \ {0} /\ UNCHANGED <<now, recoveryNonce, keys>>
    BY <2>1, TakeReady DEF ownerVars
  <2>3. Len(guardians') # 0
    BY <2>2, <1>5, <1>1 DEF ExecuteAdd, ExecuteSetThreshold, TypeOK
  <2>4. Votes' = Votes /\ Votes' = Votes \cap isGuardian'
    BY <2>1, <1>2 DEF Votes
  <2> QED
    BY <2>1, <2>2, <2>3, <2>4, ReformStep
<1>6. ASSUME NEW op \in Op, ExecuteRemove(op)
      PROVE  Abstract!Reform
  <2> DEFINE g == op.guardian
             r == pendingRecovery
  <2>1. /\ TakeReadyOp(op) /\ Observe({op}) /\ g \in isGuardian
        /\ isGuardian' = isGuardian \ {g} /\ threshold' = threshold
        /\ threshold <= Len(guardians') /\ RevokeApprovalIfPending(g)
    BY <1>6 DEF ExecuteRemove
  <2>2. Len(guardians) \in Nat \ {0} /\ UNCHANGED <<now, recoveryNonce, keys>>
    BY <2>1, TakeReady DEF ownerVars
  <2>3. Len(guardians') # 0
    BY <2>1, <2>2, <1>1 DEF RosterPart, ThresholdReachable
  <2>4. /\ Votes' = Votes \ {g}
        /\ g \notin Votes => UNCHANGED pendingRecovery
        /\ g \in Votes => pendingRecovery' =
             [ promoteKey |-> r.promoteKey, nonce |-> r.nonce, approvals |-> r.approvals - 1,
               readyAt |-> IF r.approvals - 1 < threshold THEN 0 ELSE r.readyAt ]
    BY <2>1, <1>1, <1>2, RevokeRemovesVote
  <2>5. Votes' = Votes \cap isGuardian'
    BY <2>1, <2>4, <1>2
  <2>6. pendingRecovery'.promoteKey = r.promoteKey
    BY <2>4
  <2>7. pendingRecovery'.readyAt =
          IF Votes' # Votes /\ Cardinality(Votes') < threshold' THEN 0 ELSE r.readyAt
    <3>1. CASE g \notin Votes
      BY <3>1, <2>4
    <3>2. CASE g \in Votes
      <4>1. r.approvals - 1 = Cardinality(Votes')
        BY <3>2, <2>4, <1>1, <1>2, GuardiansFinite, FS_RemoveElement
        DEF VotePart, ApprovalsCountVoters
      <4>2. Votes' # Votes
        BY <3>2, <2>4
      <4>3. pendingRecovery'.readyAt = IF r.approvals - 1 < threshold THEN 0 ELSE r.readyAt
        BY <3>2, <2>4
      <4> QED
        BY <4>1, <4>2, <4>3, <2>1
    <3> QED
      BY <3>1, <3>2
  <2> QED
    BY <2>2, <2>3, <2>5, <2>6, <2>7, ReformStep
<1>7. ASSUME VetoRecovery \/ ExecuteRecovery
      PROVE  Abstract!Veto \/ Abstract!Promote
  <2>1. Votes' = {} /\ pendingRecovery.promoteKey # NoKey /\ recoveryNonce' = recoveryNonce + 1
        /\ pendingRecovery' = NoRecovery /\ UNCHANGED <<now, isGuardian, threshold>>
    BY <1>7, <1>1, EndOfRound DEF VetoRecovery, ExecuteRecovery, configVars
  <2>2. Abstract!EndRound
    BY <2>1 DEF Abstract!EndRound, NoRecovery
  <2>3. CASE VetoRecovery
    BY <2>2, <2>3 DEF VetoRecovery, ownerVars, Abstract!Veto
  <2>4. CASE ExecuteRecovery
    BY <2>2, <2>4 DEF ExecuteRecovery, Abstract!Promote
  <2> QED
    BY <1>7, <2>3, <2>4
<1>8. ASSUME NEW k \in Key, RevokeKey(k)
      PROVE  Abstract!Revoke(k)
  <2>1. Votes' = Votes
    BY <1>8 DEF RevokeKey, recoveryVars, Votes
  <2> QED
    BY <1>8, <2>1 DEF RevokeKey, recoveryVars, configVars, Abstract!Revoke, Abstract!ballot
<1>9. ASSUME Tick
      PROVE  Abstract!Elapse
  <2>1. now' > now
    BY <1>9, <1>1 DEF Tick, TypeOK
  <2>2. Votes' = Votes
    BY <1>9 DEF Tick, recoveryVars, Votes
  <2> QED
    BY <1>9, <2>1, <2>2 DEF Tick, recoveryVars, configVars, ownerVars, Abstract!Elapse, Abstract!ballot
<1>10. ASSUME NEW g \in Guardian, NEW k \in Key \cup {NoKey}, NEW n \in Nonce,
              ApproveRecovery(g, k, n) \/ ApproveRecoveryBySig(g, k, n)
       PROVE  k \in Key /\ Abstract!Vote(g, k)
  <2>1. /\ g \in isGuardian /\ n = recoveryNonce /\ Approve(g, k, recoveryNonce)
        /\ UNCHANGED <<now, configVars, recoveryNonce, keys>>
    BY <1>10 DEF ApproveRecovery, ApproveRecoveryBySig, ownerVars
  <2> QED
    BY <2>1, <1>1, VoteStep, ApproveAddsVote
<1>11. CASE \E op \in Op : ProposeGuardianOp(op) \/ VetoGuardianOp(op)
  BY <1>11, <1>3 DEF ProposeGuardianOp, VetoGuardianOp, configVars, ownerVars
<1>12. CASE \E g \in Signer, k \in Key : SignApproval(g, k)
  BY <1>12, <1>3 DEF SignApproval, configVars
<1>13. CASE LoseSigners
  BY <1>13, <1>3 DEF LoseSigners, configVars
<1>14. CASE UNCHANGED vars
  BY <1>14, <1>3 DEF vars, configVars, ownerVars
<1>15. CASE \E g \in Guardian, k \in Key \cup {NoKey}, n \in Nonce : ApproveRecovery(g, k, n)
  BY <1>15, <1>10 DEF Abstract!Next
<1>16. CASE \E g \in Signer, k \in Key, n \in Nonce : ApproveRecoveryBySig(g, k, n)
  BY <1>16, <1>10, GuardianAssumption DEF Abstract!Next
<1>17. CASE \/ \E s \in Roster, t \in Threshold, rd, gd \in Delay : SetupGuardians(s, t, rd, gd)
            \/ \E op \in Op : ExecuteAdd(op) \/ ExecuteSetThreshold(op) \/ ExecuteRemove(op)
  BY <1>17, <1>4, <1>5, <1>6 DEF Abstract!Next
<1>18. CASE VetoRecovery \/ ExecuteRecovery
  BY <1>18, <1>7 DEF Abstract!Next
<1>19. CASE \E k \in Key : RevokeKey(k)
  BY <1>19, <1>8 DEF Abstract!Next
<1>20. CASE Tick
  BY <1>20, <1>9 DEF Abstract!Next
<1> QED
  BY <1>11, <1>12, <1>13, <1>14, <1>15, <1>16, <1>17, <1>18, <1>19, <1>20 DEF Next

\* Counters, mappings, swap-and-pop arrays, operation hashes and nonces
\* together behave as the vote of RecoveryVote.
THEOREM ImplementsVote == Spec => ImplementsRecoveryVote
  BY RefineInit, RefineStep, InvariantHolds, PTL DEF Spec, ImplementsRecoveryVote, Abstract!Spec

===============================================================================
